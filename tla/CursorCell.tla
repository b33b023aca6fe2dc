---------------------------- MODULE CursorCell ----------------------------
(***************************************************************************)
(* What the cursor of one site promises to the processes that crawl it:    *)
(* a single cell that is read and written in one step each, whoever shares *)
(* it.  The list pages are a ring: behind the last one the site's first    *)
(* URL follows.  A process reads the cell, crawls that page and then       *)
(* writes the page behind it; it may give up at any point, and a write it  *)
(* gave up on may have happened.  Writes that wait at the same time may    *)
(* take effect together: the last of them is what remains.                 *)
(***************************************************************************)
EXTENDS Integers

CONSTANTS
  Procs,  (* the processes that crawl the site                             *)
  Last    (* the number of list pages                                      *)

Pages == 1..Last
None == 0
Follow(page) == IF page < Last THEN page + 1 ELSE 1
StartOf(page) == IF page = None THEN 1 ELSE page

VARIABLES
  cell,     (* the page the next crawl starts from, None before the first  *)
  covered,  (* the pages that have been crawled                            *)
  phase,    (* phase[p]: "idle", "crawl", "saving" or "saved"              *)
  at        (* at[p]: the page p crawls, 1 while it crawls none            *)

Init ==
  /\ cell = None
  /\ covered = {}
  /\ phase = [p \in Procs |-> "idle"]
  /\ at = [p \in Procs |-> 1]

(* A failed read is page 1, the site's first URL.                          *)
Read(p) ==
  /\ phase[p] = "idle"
  /\ \E page \in {StartOf(cell), 1} : at' = [at EXCEPT ![p] = page]
  /\ phase' = [phase EXCEPT ![p] = "crawl"]
  /\ UNCHANGED <<cell, covered>>

Crawl(p) ==
  /\ phase[p] = "crawl"
  /\ covered' = covered \union {at[p]}
  /\ phase' = [phase EXCEPT ![p] = "saving"]
  /\ UNCHANGED <<cell, at>>

Write(writers, last) ==
  /\ \A p \in writers : phase[p] = "saving"
  /\ cell' = Follow(at[last])
  /\ phase' = [p \in Procs |-> IF p \in writers THEN "saved" ELSE phase[p]]
  /\ UNCHANGED <<covered, at>>

End(p) ==
  /\ phase' = [phase EXCEPT ![p] = "idle"]
  /\ at' = [at EXCEPT ![p] = 1]
  /\ UNCHANGED <<cell, covered>>

Next ==
  \/ \E p \in Procs : Read(p) \/ Crawl(p) \/ End(p)
  \/ \E writers \in SUBSET Procs : \E last \in writers : Write(writers, last)

Spec == Init /\ [][Next]_<<cell, covered, phase, at>>
============================================================================
