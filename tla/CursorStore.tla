---------------------------- MODULE CursorStore ----------------------------
(***************************************************************************)
(* The cursor of one site in MongoDB, entities/craw_config.ts, used by     *)
(* processes that know nothing of each other: job1, a second job1 or the   *)
(* command line src/craw.ts.  Each of their crawls reads the cursor once   *)
(* (Crawl.page), crawls that page and calls saveConfig once (getJobInPage),*)
(* which looks for the site's document and then updates it or creates one. *)
(* No index makes the name unique, so two processes that both find nothing *)
(* create two documents.  jobs/vietnamwork.ts is none of them: a run of it *)
(* reads once and saves at every turn of its loop, which is VietNamWork's. *)
(*                                                                         *)
(* What a page shows is left to SiteCrawl; here the pages are a ring and   *)
(* the question is what sharing the documents does to the cursor.          *)
(***************************************************************************)
EXTENDS Integers, Sequences, FiniteSets

CONSTANTS
  Procs,      (* the processes that crawl the site                         *)
  Last,       (* the number of list pages                                  *)
  MaxFaults   (* bound: failures of the environment per behaviour          *)

ASSUME CursorAssumption ==
  /\ IsFiniteSet(Procs)
  /\ Last \in Nat \ {0}
  /\ MaxFaults \in Nat

VARIABLES
  docs,     (* MongoDB: the pages of the site's craws documents, by age    *)
  covered,  (* history: the pages somebody has crawled to the end          *)
  faults,   (* failures that have happened                                 *)
  pc,       (* where each process is                                       *)
  at,       (* page: currentUrl                                            *)
  record    (* saveConfig: the document found, by position, or 0           *)

vars == <<docs, covered, faults, pc, at, record>>

Pages == 1..Last
Steps == {"idle", "crawl", "find", "write", "answer", "hung"}

TypeOK ==
  /\ docs \in Seq(Pages)
  /\ covered \subseteq Pages
  /\ faults \in 0..MaxFaults
  /\ pc \in [Procs -> Steps]
  /\ at \in [Procs -> Pages]
  /\ record \in [Procs -> Nat]

Init ==
  /\ docs = <<>>
  /\ covered = {}
  /\ faults = 0
  /\ pc = [p \in Procs |-> "idle"]
  /\ at = [p \in Procs |-> 1]
  /\ record = [p \in Procs |-> 0]
----------------------------------------------------------------------------
Fault == faults < MaxFaults /\ faults' = faults + 1
Goto(p, step) == pc' = [pc EXCEPT ![p] = step]

(* A crawl ends, or hangs, and its variables are of no more use.           *)
Stop(p, step) ==
  /\ Goto(p, step)
  /\ at' = [at EXCEPT ![p] = 1]
  /\ record' = [record EXCEPT ![p] = 0]

(* getNextPage(page) || first URL, and the first URL always.               *)
FirstAgain(page) == 1
Follow(page) == IF page < Last THEN page + 1 ELSE 1

(* findOne({name}), without a sort: the oldest document, or null; and what *)
(* it would give if it found nothing, or the newest one.                   *)
FindNothing == 0
FindNewest == Len(docs)
FindOne == IF docs = <<>> THEN 0 ELSE 1

(* getConfigCraw and Crawl.page: the page of the document found, or the    *)
(* first one when there is none or the read fails (null).                  *)
Read(p) ==
  /\ pc[p] = "idle"
  /\ \/ at' = [at EXCEPT ![p] = IF docs = <<>> THEN 1 ELSE docs[1]] /\ UNCHANGED faults
     \/ at' = [at EXCEPT ![p] = 1] /\ Fault
  /\ Goto(p, "crawl")
  /\ UNCHANGED <<docs, covered, record>>

(* getJobInPage: a page whose jobs are not all handled ends the crawl      *)
(* before saveConfig; and a crawl that would save all the same.            *)
SaveAnyway(p) == Goto(p, "find") /\ UNCHANGED <<at, record>>
LeavePage(p) == Stop(p, "idle")

Crawl(p) ==
  /\ pc[p] = "crawl"
  /\ \/ /\ covered' = covered \union {at[p]}
        /\ Goto(p, "find")
        /\ UNCHANGED <<faults, at, record>>
     \/ LeavePage(p) /\ Fault /\ UNCHANGED covered
  /\ UNCHANGED docs

(* saveConfig: findOne; when it rejects, false is returned.                *)
Find(p) ==
  /\ pc[p] = "find"
  /\ \/ /\ record' = [record EXCEPT ![p] = FindOne]
        /\ Goto(p, "write")
        /\ UNCHANGED <<faults, at>>
     \/ Stop(p, "idle") /\ Fault
  /\ UNCHANGED <<docs, covered>>

(* saveConfig: updateOne of the document found, or create, as the database *)
(* executes it; or it is refused and false is returned.                    *)
Write(p) ==
  /\ pc[p] = "write"
  /\ \/ /\ docs' = IF record[p] = 0
                     THEN Append(docs, Follow(at[p]))
                     ELSE [docs EXCEPT ![record[p]] = Follow(at[p])]
        /\ Goto(p, "answer")
        /\ UNCHANGED <<faults, at, record>>
     \/ Stop(p, "idle") /\ Fault /\ UNCHANGED docs
  /\ UNCHANGED covered

(* saveConfig returns, true or, when the answer is lost, false: no caller  *)
(* looks at it.                                                            *)
Answer(p) ==
  /\ pc[p] = "answer"
  /\ Stop(p, "idle")
  /\ UNCHANGED <<docs, covered, faults>>

(* An await that nothing limits in time never settles: a call of the       *)
(* browser, the download of a logo, a query.  Only a kill ends it.         *)
Hang(p) ==
  /\ pc[p] # "hung"
  /\ Fault
  /\ Stop(p, "hung")
  /\ UNCHANGED <<docs, covered>>

(* A process is killed and started again.                                  *)
Crash(p) ==
  /\ pc[p] # "idle"
  /\ Fault
  /\ Stop(p, "idle")
  /\ UNCHANGED <<docs, covered>>

Step(p) == Read(p) \/ Crawl(p) \/ Find(p) \/ Write(p) \/ Answer(p)

Next == \E p \in Procs : Step(p) \/ Hang(p) \/ Crash(p)

(* The cron starts every crawl again (jobs/job1.ts), and an await settles  *)
(* unless it hangs; nothing has to end a process that does.                *)
Fairness == \A p \in Procs : WF_vars(Step(p))

Spec == Init /\ [][Next]_vars
FairSpec == Spec /\ Fairness
----------------------------------------------------------------------------
(* The documents together are one cell, which saveConfig writes in a single*)
(* step although it takes two: the oldest document is the cell, and of the *)
(* processes that wait to create one the first creates the cell while the  *)
(* others count as having written just before it.                          *)
CellPhase(p) ==
  CASE pc[p] = "find" -> "saving"
    [] pc[p] = "write" -> IF record[p] = 0 /\ docs # <<>> THEN "saved" ELSE "saving"
    [] pc[p] = "answer" -> "saved"
    [] pc[p] = "hung" -> "idle"
    [] OTHER -> pc[p]

Cell == INSTANCE CursorCell WITH
  cell <- IF docs = <<>> THEN 0 ELSE docs[1],
  phase <- [p \in Procs |-> CellPhase(p)]

ImplementsCell == Cell!Spec

(* However many crawls share the cursor, each with its one read and one    *)
(* save, and wherever they fail, it only stands on a page when every page  *)
(* before it has been crawled (saveConfig after the loop, careerlink.ts    *)
(* 136): a stale save may move it back, or forward over pages of an earlier*)
(* lap, never over one nobody has seen.                                    *)
CoveredBehindCursor ==
  \A i \in DOMAIN docs : \A page \in Pages : page < docs[i] => page \in covered

(* Every process adds at most one document, whatever crashes and retries:  *)
(* twins are born only from processes that all found nothing.              *)
TwinsPerProcess == Len(docs) <= Cardinality(Procs)

(* Sharing starves no page: stale saves may throw the cursor about for     *)
(* ever, and still every page is crawled again and again, unless in the end*)
(* every process hangs: one that goes on is enough.                        *)
EveryPageAgain ==
  \/ \A page \in Pages : []<>(\E p \in Procs : pc[p] = "find" /\ at[p] = page)
  \/ <>[](\A p \in Procs : pc[p] = "hung")
============================================================================
