--------------------------- MODULE MCVietNamWork ---------------------------
(***************************************************************************)
(* VietNamWork for TLC: two list pages, or three when the site grows; two  *)
(* runs that may overlap; every page may be loaded, or page 1 never.       *)
(***************************************************************************)
EXTENDS VietNamWork

TwoRuns == {"r1", "r2"}
ChangingSite == {2, 3}
NoneOrPage1 == {{}, {1}}
============================================================================
