--------------------------- MODULE MCCursorStore ---------------------------
(***************************************************************************)
(* CursorStore for TLC: three processes, so that two twins can be born     *)
(* beside the cell, on a ring of three pages, so that a stale save can     *)
(* move the cursor back, forward and round.  Three failures: all of the    *)
(* processes may hang, or two of them and what is left fails once.         *)
(***************************************************************************)
EXTENDS CursorStore

ThreeProcs == {"job1", "job2", "cli"}
============================================================================
