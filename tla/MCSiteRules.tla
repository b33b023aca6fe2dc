---------------------------- MODULE MCSiteRules ----------------------------
(***************************************************************************)
(* Every site for TLC, with three list pages.  A list shows one card, whole*)
(* or without one of its parts, or with any kind of link; or a card whose  *)
(* link is broken and a whole one behind it.  The site's own entries use   *)
(* one kind of link or two.                                                *)
(***************************************************************************)
EXTENDS SiteRules, FiniteSets

MCJobs == {"j1", "j2"}

Whole(j, h) == [job |-> j, has |-> Marks, href |-> h]
Lacking(m) == [job |-> "j1", has |-> Marks \ {m}, href |-> "whole"]
MCLists ==
  {<<Whole("j1", h)>> : h \in Hrefs}
  \union {<<Lacking(m)>> : m \in Marks}
  \union {<<Whole("j2", "script"), Whole("j1", "whole")>>}

MCDetails ==
  [layout : {"known"}, has : SUBSET Fields]
  \union [layout : Layouts \ {"known"}, has : {{}, Fields}]

(* One kind of link between the list pages, or a mix of two.               *)
MCLinkHabits == {h \in SUBSET Hrefs : Cardinality(h) \in {1, 2}}
============================================================================
