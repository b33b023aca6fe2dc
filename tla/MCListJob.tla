----------------------------- MODULE MCListJob ------------------------------
(***************************************************************************)
(* The list for TLC: two texts, two filters, two pages.                    *)
(***************************************************************************)
EXTENDS ListJob

MCTexts == {"any", "java"}
MCFilters == {"all", "today"}
============================================================================
