----------------------------- MODULE MCRecents ------------------------------
(***************************************************************************)
(* Recents for TLC: two tabs and four searches, one more than is kept.     *)
(***************************************************************************)
EXTENDS Recents, TLC

CONSTANTS s1, s2, s3, s4, t1, t2

MCTabs == {t1, t2}
MCSearches == {s1, s2, s3, s4}
Symmetry == Permutations(MCTabs) \union Permutations(MCSearches)
============================================================================
