---------------------------- MODULE MCJobSearch ----------------------------
(***************************************************************************)
(* The search for TLC: four jobs, two to a page, in any state before.      *)
(* The names of the jobs are never compared, so they are symmetric.        *)
(***************************************************************************)
EXTENDS JobSearch, TLC

Symmetric == Permutations(Docs)
============================================================================
