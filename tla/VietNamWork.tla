---------------------------- MODULE VietNamWork ----------------------------
(***************************************************************************)
(* The crawl of vietnamworks through its search API: crawl/vietnamworks.ts *)
(* (VietNamWorkAll) run by jobs/vietnamwork.ts from a daily cron.  A run   *)
(* captures the request a browser makes for the list, writes the stored    *)
(* page number into it, and then asks for page after page; after each page *)
(* it saves the hits and stores the number of the next page.  A tick of    *)
(* the cron does not look for a run that is still going on.                *)
(*                                                                         *)
(* The hits of a page are saved one by one but the cursor is written after *)
(* all of them, so a page stands for its hits here.  The capture launches a*)
(* Chromium of its own, which only the path without a failure closes.      *)
(***************************************************************************)
EXTENDS Integers, FiniteSets

CONSTANTS
  Runs,          (* bound: runs that may be under way at the same time     *)
  Sizes,         (* the values nbPages may take in an answer               *)
  BadPages,      (* the sets of pages whose request may always fail        *)
  MaxFaults      (* bound: failures of the environment per behaviour       *)

ASSUME ApiAssumption ==
  /\ IsFiniteSet(Runs)
  /\ Sizes \subseteq Nat
  /\ MaxFaults \in Nat

VARIABLES
  cursor,    (* MongoDB: the page of vietnamworks' craws document, or 0    *)
  store,     (* MongoDB: the pages whose hits are all stored               *)
  bad,       (* the pages whose request always fails, one of BadPages      *)
  faults,    (* failures that have happened                                *)
  chromium,  (* Chromium processes the node process has running            *)
  lost,      (* history: captures of this process that failed or hang      *)
  pc,        (* where each run is                                          *)
  start,     (* configPage                                                 *)
  body,      (* the page number in config.data                             *)
  hits,      (* the page whose hits are being saved: at most one           *)
  maxPage,   (* maxPage                                                    *)
  nextPage,  (* nextPage                                                   *)
  index,     (* index, as it will be when the loop goes on                 *)
  answered,  (* history: the pages the run asked for and got an answer to  *)
  skipped    (* history: the run got an answer without results             *)

database == <<cursor, store>>
browsers == <<chromium, lost>>
locals == <<start, body, hits, maxPage, nextPage, index, answered, skipped>>
vars == <<database, bad, faults, browsers, pc, locals>>

TypeOK ==
  /\ cursor \in Nat
  /\ store \subseteq Nat
  /\ faults \in 0..MaxFaults
  /\ chromium \in Nat
  /\ lost \in Nat
  /\ pc \in [Runs -> {"idle", "read", "launch", "capture", "first", "save", "cursor",
                      "loop", "stalled"}]
  /\ start \in [Runs -> Nat]
  /\ body \in [Runs -> Nat]
  /\ hits \in [Runs -> SUBSET Nat]
  /\ maxPage \in [Runs -> Nat]
  /\ nextPage \in [Runs -> Nat]
  /\ index \in [Runs -> Nat]
  /\ answered \in [Runs -> SUBSET Nat]
  /\ skipped \in [Runs -> BOOLEAN]

Init ==
  /\ cursor = 0
  /\ store = {}
  /\ bad \in BadPages
  /\ faults = 0
  /\ chromium = 0
  /\ lost = 0
  /\ pc = [r \in Runs |-> "idle"]
  /\ start = [r \in Runs |-> 0]
  /\ body = [r \in Runs |-> 0]
  /\ hits = [r \in Runs |-> {}]
  /\ maxPage = [r \in Runs |-> 0]
  /\ nextPage = [r \in Runs |-> 0]
  /\ index = [r \in Runs |-> 0]
  /\ answered = [r \in Runs |-> {}]
  /\ skipped = [r \in Runs |-> FALSE]
----------------------------------------------------------------------------
Fault == faults < MaxFaults /\ faults' = faults + 1
Goto(r, step) == pc' = [pc EXCEPT ![r] = step]
Set(f, r, v) == [f EXCEPT ![r] = v]

(* VietNamWorkAll has returned or thrown: its variables are gone.          *)
Ends(r) ==
  /\ Goto(r, "idle")
  /\ start' = Set(start, r, 0) /\ body' = Set(body, r, 0)
  /\ hits' = Set(hits, r, {})
  /\ maxPage' = Set(maxPage, r, 0) /\ nextPage' = Set(nextPage, r, 0)
  /\ index' = Set(index, r, 0)
  /\ answered' = Set(answered, r, {}) /\ skipped' = Set(skipped, r, FALSE)

(* getBody replaces the text "page=0": a body that holds another page      *)
(* number stays as it is.  AnyBody would replace any number.               *)
AnyBody(held, page) == page
GetBody(held, page) == IF held = 0 THEN page ELSE held

(* The page after p, or the first one; off by one, and as it is.           *)
PageAfterLast(p, n) == IF p < n THEN p + 1 ELSE 0
PageAfter(p, n) == IF p + 1 < n THEN p + 1 ELSE 0
----------------------------------------------------------------------------
(* jobs/vietnamwork.ts: a tick of the cron starts a run.                   *)
Tick(r) ==
  /\ pc[r] = "idle"
  /\ Goto(r, "read")
  /\ UNCHANGED <<database, bad, faults, browsers, locals>>

(* getConfigCraw: a failed read is page 0.                                 *)
ReadCursor(r) ==
  /\ pc[r] = "read"
  /\ \/ start' = Set(start, r, cursor) /\ UNCHANGED faults
     \/ start' = Set(start, r, 0) /\ Fault
  /\ Goto(r, "launch")
  /\ UNCHANGED <<database, bad, browsers, body, hits, maxPage, nextPage, index, answered, skipped>>

(* apiGetDataConfig gives null when a call of it fails: the run ends.      *)
CaptureFails(r) == Fault /\ lost' = lost + 1 /\ Ends(r)

(* createPuppeteerBrowser.                                                 *)
Launch(r) ==
  /\ pc[r] = "launch"
  /\ \/ /\ chromium' = chromium + 1
        /\ Goto(r, "capture")
        /\ UNCHANGED <<faults, lost, locals>>
     \/ CaptureFails(r) /\ UNCHANGED chromium
  /\ UNCHANGED <<database, bad>>

(* browser.close, at the end of the try block, and its absence.            *)
KeepBrowser == UNCHANGED chromium
CloseBrowser == chromium' = chromium - 1

(* apiGetDataConfig: the list, as a browser asks for it, is page 0; with   *)
(* no such request the browser is closed all the same and null returned.   *)
Capture(r) ==
  /\ pc[r] = "capture"
  /\ \/ /\ CloseBrowser
        /\ body' = Set(body, r, GetBody(0, start[r]))
        /\ Goto(r, "first")
        /\ UNCHANGED <<faults, lost, start, hits, maxPage, nextPage, index, answered, skipped>>
     \/ CloseBrowser /\ Fault /\ Ends(r) /\ UNCHANGED lost
     \/ CaptureFails(r) /\ UNCHANGED chromium
  /\ UNCHANGED <<database, bad>>

(* getJobs throws: VietNamWorkAll ends, the cursor stays.                  *)
RequestFails(r, p) ==
  /\ IF p \in bad THEN UNCHANGED faults ELSE Fault
  /\ Ends(r)

(* getJobs gives the hits of page p, none when p is behind the last page.  *)
Answer(r, p, n) ==
  /\ p \notin bad
  /\ hits' = Set(hits, r, IF p < n THEN {p} ELSE {})
  /\ answered' = Set(answered, r, answered[r] \union {p})
  /\ Goto(r, "save")
  /\ UNCHANGED <<faults, start, body, skipped>>

(* getJobs if it caught an error status itself and gave null.              *)
AnyFailure(r, p) ==
  /\ IF p \in bad THEN UNCHANGED faults ELSE Fault
  /\ hits' = Set(hits, r, {})
  /\ skipped' = Set(skipped, r, TRUE)
  /\ Goto(r, "save")
  /\ UNCHANGED <<start, body, answered>>

(* getJobs gives null: the answer had no results.                          *)
NoAnswer(r, p) ==
  /\ p \notin bad
  /\ Fault
  /\ hits' = Set(hits, r, {})
  /\ skipped' = Set(skipped, r, TRUE)
  /\ Goto(r, "save")
  /\ UNCHANGED <<start, body, answered>>

(* VietNamWorkAll, up to the loop: without results, page and nbPages are 0.*)
FetchFirst(r) ==
  /\ pc[r] = "first"
  /\ \/ \E n \in Sizes :
          /\ Answer(r, body[r], n)
          /\ maxPage' = Set(maxPage, r, n)
          /\ nextPage' = Set(nextPage, r, PageAfter(body[r], n))
          /\ index' = Set(index, r, PageAfter(body[r], n))
     \/ /\ NoAnswer(r, body[r])
        /\ maxPage' = Set(maxPage, r, 0)
        /\ nextPage' = Set(nextPage, r, 0)
        /\ index' = Set(index, r, 0)
     \/ RequestFails(r, body[r])
  /\ UNCHANGED <<database, bad, browsers>>

(* One turn of the loop: page index is asked for and nextPage computed.    *)
FetchNext(r) ==
  /\ pc[r] = "loop"
  /\ index[r] < maxPage[r]
  /\ LET p == GetBody(body[r], index[r])
     IN \/ /\ \/ \E n \in Sizes : Answer(r, p, n)
              \/ NoAnswer(r, p)
           /\ nextPage' = Set(nextPage, r, PageAfter(index[r], maxPage[r]))
           /\ index' = Set(index, r, index[r] + 1)
           /\ UNCHANGED maxPage
        \/ RequestFails(r, p)
  /\ UNCHANGED <<database, bad, browsers>>

(* The loop is over.                                                       *)
Finish(r) ==
  /\ pc[r] = "loop"
  /\ index[r] >= maxPage[r]
  /\ Ends(r)
  /\ UNCHANGED <<database, bad, faults, browsers>>

(* convertToJob and saveJob for each hit: all are stored, or some are not  *)
(* (false, which nobody reads), or a hit cannot be converted and the run   *)
(* ends.                                                                   *)
SaveHits(r) ==
  /\ pc[r] = "save"
  /\ \/ /\ store' = store \union hits[r]
        /\ Goto(r, "cursor")
        /\ UNCHANGED <<faults, locals>>
     \/ /\ hits[r] # {} /\ Fault
        /\ Ends(r) \/ (Goto(r, "cursor") /\ UNCHANGED locals)
        /\ UNCHANGED store
  /\ UNCHANGED <<cursor, bad, browsers>>

(* saveConfig, whose failure is ignored.                                   *)
NextCursor(r) == nextPage[r]

SaveCursor(r) ==
  /\ pc[r] = "cursor"
  /\ \/ cursor' = NextCursor(r) /\ UNCHANGED faults
     \/ UNCHANGED cursor /\ Fault
  /\ Goto(r, "loop")
  /\ UNCHANGED <<store, bad, browsers, locals>>

(* What a run awaits never comes: an answer of the database, the browser or*)
(* the site, or the end of a logo; none of these requests has a timeout    *)
(* (the launch of the browser has one).                                    *)
Awaits(r) ==
  \/ pc[r] \in {"read", "capture", "first", "cursor"}
  \/ pc[r] = "save" /\ hits[r] # {}
  \/ pc[r] = "loop" /\ index[r] < maxPage[r]

Hang(r) ==
  /\ Awaits(r)
  /\ Fault
  /\ lost' = IF pc[r] = "capture" THEN lost + 1 ELSE lost
  /\ Goto(r, "stalled")
  /\ UNCHANGED <<database, bad, chromium, locals>>

(* The process ends, with its browsers and its runs, and pm2 starts it     *)
(* again: it waits for the next tick.                                      *)
Crash ==
  /\ Fault
  /\ chromium' = 0
  /\ lost' = 0
  /\ pc' = [r \in Runs |-> "idle"]
  /\ start' = [r \in Runs |-> 0] /\ body' = [r \in Runs |-> 0]
  /\ hits' = [r \in Runs |-> {}]
  /\ maxPage' = [r \in Runs |-> 0] /\ nextPage' = [r \in Runs |-> 0]
  /\ index' = [r \in Runs |-> 0]
  /\ answered' = [r \in Runs |-> {}] /\ skipped' = [r \in Runs |-> FALSE]
  /\ UNCHANGED <<database, bad>>

Proceed(r) ==
  \/ ReadCursor(r) \/ Launch(r) \/ Capture(r) \/ FetchFirst(r) \/ FetchNext(r)
  \/ Finish(r) \/ SaveHits(r) \/ SaveCursor(r)

Next == Crash \/ \E r \in Runs : Tick(r) \/ Proceed(r) \/ Hang(r)

(* The cron goes on ticking, but no tick that meets another run is owed;   *)
(* a run goes on unless Hang says that its await gets no answer.           *)
Active(r) == pc[r] \notin {"idle", "stalled"}
NextDay == ~(\E r \in Runs : Active(r)) /\ \E r \in Runs : Tick(r)

Fairness == WF_vars(NextDay) /\ \A r \in Runs : WF_vars(Proceed(r))

Spec == Init /\ [][Next]_vars
FairSpec == Spec /\ Fairness
----------------------------------------------------------------------------
(* A run that starts at page 0 loads every page it counts, however other   *)
(* runs move the cursor meanwhile; a run that resumes from another page    *)
(* loads that page and, whatever its log says, no other, although it       *)
(* stores cursor after cursor (getBody, lines 152 and 242).                *)
StartDecidesPages ==
  \A r \in Runs : pc[r] \in {"save", "cursor", "loop"} =>
    /\ start[r] = 0 /\ ~skipped[r] => 0..(index[r] - 1) \subseteq answered[r]
    /\ start[r] > 0 => answered[r] \subseteq {start[r]}

(* A Chromium that runs belongs to a capture under way or to one that      *)
(* failed or hangs: no run that went on, and no capture that merely saw no *)
(* request, leaves one behind (line 184 is reached without a failure only).*)
Capturing == {r \in Runs : pc[r] = "capture"}
NoSilentChromium == chromium <= Cardinality(Capturing) + lost

(* The stored page is one the site had when it was written: never the page *)
(* behind the last one, from whichever of the overlapping runs (239, 248). *)
CursorOnSite == cursor = 0 \/ \E n \in Sizes : cursor < n

(* Once ticks stop meeting a run that is still going on, every page is     *)
(* stored, whatever failed before: a resumed run skips pages, but it ends  *)
(* at cursor 0, where the next one starts.  Overlapping runs can keep each *)
(* other away from page 0 for ever.  (The model has no run left to start   *)
(* when all of its bound are stalled.)                                     *)
AllPages == {p \in 0..10 : \A n \in Sizes : p < n}
Overlap == \E r, q \in Runs : r # q /\ Active(r) /\ Active(q)
AllStalled == \A r \in Runs : pc[r] = "stalled"
EveryPageStored ==
  bad = {} /\ <>[]~Overlap /\ []~AllStalled => \A p \in AllPages : <>(p \in store)

(* Where the request of a page always fails, the cursor comes to stand     *)
(* there for good, from whatever overlap: neither the pages behind it nor  *)
(* the first page, with its new jobs, are loaded again.                    *)
StuckAtBad == bad # {} /\ []~AllStalled => <>[](cursor \in bad)
============================================================================
