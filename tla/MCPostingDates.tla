--------------------------- MODULE MCPostingDates ---------------------------
(***************************************************************************)
(* PostingDates for TLC, on a calendar of three minutes to the hour and    *)
(* two of every unit to the next: every unit has a fraction, the opening   *)
(* is more than a year after the first day, a number has two digits up to  *)
(* 9, and a few ticks pass a midnight.                                     *)
(***************************************************************************)
EXTENDS PostingDates
============================================================================
