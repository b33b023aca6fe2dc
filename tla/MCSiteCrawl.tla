---------------------------- MODULE MCSiteCrawl ----------------------------
(***************************************************************************)
(* Two sites for TLC: A with two pages, B with one.  Fixed pages always    *)
(* show the same jobs, and a run takes one page of each, so that the second*)
(* page of A is reached from its cursor only.  Moving pages may also come  *)
(* up empty, without a link (a blocked or changed page) or reordered, and  *)
(* a run takes up to two pages of A.  A job is poisoned when its detail    *)
(* page never loads.                                                       *)
(***************************************************************************)
EXTENDS SiteCrawl, TLC

A == "A"
B == "B"
MCSites == {A, B}
MCPages == {"a1", "a2", "b1"}
MCJobs == {"j1", "j2", "j3", "k1", "k2", "k3"}
MCFirst == A :> "a1" @@ B :> "b1"
OnePage == A :> 1 @@ B :> 1
TwoPages == A :> 2 @@ B :> 1

Page(jobs, next) == [jobs |-> jobs, next |-> next]
Blocked == Page(<<>>, NoPage)
OnlyPages(f) == [p \in MCPages |-> IF p \in DOMAIN f THEN f[p] ELSE {}]

FixedPages ==
  A :> OnlyPages("a1" :> {Page(<<"j1">>, "a2")} @@ "a2" :> {Page(<<"j2">>, NoPage)})
  @@ B :> OnlyPages("b1" :> {Page(<<"k1", "k2", "k3">>, NoPage)})

MovingPages ==
  A :> OnlyPages("a1" :> {Page(<<"j1", "j2">>, "a2"), Page(<<"j3", "j1">>, "a2"), Blocked}
                 @@ "a2" :> {Page(<<"j3">>, NoPage), Page(<<"j2", "j3">>, "a1"), Blocked})
  @@ B :> OnlyPages("b1" :> {Page(<<"k1">>, NoPage), Blocked})

NoPoison == {}
PoisonAtB1 == {"k2"}

(* With k2 poisoned, page b1 is never finished, and k2 and k3 are hidden.  *)
(* Runs, restarts and cursors together reach every other job, whatever     *)
(* failed before: no page of A is starved, and a job that was skipped      *)
(* because the database refused it is stored the next time round.  Only an *)
(* await that hangs for good can keep the runs from starting again.        *)
AllBeforePoisonStored ==
  (\A j \in AllListed \ Hidden : <>(j \in store)) \/ <>[](hung # {})
============================================================================
