-------------------------- MODULE SiteCrawlProofs --------------------------
(***************************************************************************)
(* The safety properties of SiteCrawl for every number of sites, pages and *)
(* jobs, every set of listings the pages may show and every MaxFaults.     *)
(***************************************************************************)
EXTENDS SiteCrawl, FiniteSetTheorems, TLAPS

(* The task crawls the page its cursor pointed to, or the first page.      *)
UrlInv(s) ==
  pc[s] \in {"create", "load", "closeList", "loop", "detail", "save"}
    => url[s] \in {Ledger!StartPage(s), First[s]}

(* What it lists is what that page shows.                                  *)
ListInv(s) ==
  pc[s] \in {"closeList", "loop", "detail", "save"} => list[s] \in Shown[s][url[s]]

(* The jobs before the loop's position are handled, and items counts them. *)
HandledUpTo(s, n) ==
  /\ n <= Len(list[s].jobs)
  /\ \A i \in 1..n : list[s].jobs[i] \in store \union refused

LoopInv(s) ==
  /\ pc[s] \in {"load", "closeList"} => items[s] = 0
  /\ pc[s] = "closeList" => at[s] = 1
  /\ pc[s] \in {"loop", "detail", "save"} =>
       /\ at[s] = items[s] + 1
       /\ HandledUpTo(s, items[s])
  /\ pc[s] \in {"detail", "save"} => at[s] <= Len(list[s].jobs)
  /\ pc[s] = "return" => HandledUpTo(s, items[s])

(* Which tab may be open where, and what every abandoned tab cost.         *)
TabInv(s) ==
  /\ pc[s] \notin {"load", "closeList", "detail", "return"} => tabs[s] = {}
  /\ pc[s] \in {"load", "closeList"} => tabs[s] \subseteq {"list"}
  /\ pc[s] = "detail" => tabs[s] \subseteq {"detail"}
  /\ pc[s] = "return" => tabs[s] = {} \/ tabs[s] = {"list"} \/ tabs[s] = {"detail"}
  /\ pc[s] = "return" /\ tabs[s] = {"detail"} => orphans[s] < tabFaults[s]
  /\ orphans[s] <= tabFaults[s]

(* Between runs no task is anywhere.                                       *)
IdleInv(s) == proc = "down" => pc[s] = "idle"

TaskInv(s) == IdleInv(s) /\ UrlInv(s) /\ ListInv(s) /\ LoopInv(s) /\ TabInv(s)
IInv == TypeOK /\ \A s \in Sites : TaskInv(s)
----------------------------------------------------------------------------
(* Type correctness.                                                       *)

LEMMA StartPageType ==
  ASSUME TypeOK, NEW s \in Sites
  PROVE  Ledger!StartPage(s) \in Pages
BY SiteAssumption DEF TypeOK, Ledger!StartPage, Ledger!CrawlConstants

LEMMA NextCursorType ==
  ASSUME TypeOK, NEW s \in Sites
  PROVE  NextCursor(s) \in Pages
BY SiteAssumption DEF TypeOK, NextCursor, Ledger!PageAfter, Ledger!CrawlConstants, Ledger!Listing

LEMMA EmptyListing == NoListing \in Ledger!Listing
BY DEF NoListing, Ledger!Listing

LEMMA InitTypeOK == Init => TypeOK
BY SiteAssumption, EmptyListing
   DEF Init, TypeOK, Ledger!Init, Ledger!CrawlConstants, Steps

LEMMA EndPageType ==
  ASSUME TypeOK, NEW s \in Sites, NEW n \in Nat, EndPage(s, n)
  PROVE  pc' \in [Sites -> Steps] /\ turn' \in [Sites -> Nat]
BY DEF EndPage, Goto, TypeOK, Steps

LEMMA FaultType ==
  ASSUME TypeOK, Fault \/ BrowserWorks \/ BrowserFails \/ UNCHANGED faults
  PROVE  faults' \in 0..MaxFaults
BY SiteAssumption DEF Fault, BrowserWorks, BrowserFails, TypeOK

LEMMA ForgetType ==
  ASSUME TypeOK, Forget, faults' \in 0..MaxFaults
  PROVE  TypeOK'
BY SiteAssumption, EmptyListing
   DEF Forget, TypeOK, Ledger!CrawlConstants, Steps, database

LEMMA PageIsNullType ==
  ASSUME TypeOK, NEW s \in Sites, PageIsNull(s)
  PROVE  /\ faults' \in 0..MaxFaults
         /\ orphans' \in [Sites -> Nat]
         /\ tabFaults' \in [Sites -> Nat]
<1>1. faults' \in 0..MaxFaults
  BY FaultType DEF PageIsNull
<1>2. orphans' \in [Sites -> Nat] /\ tabFaults' \in [Sites -> Nat]
  BY DEF PageIsNull, TabFault, TypeOK
<1>3. QED BY <1>1, <1>2

LEMMA NextJobType ==
  ASSUME IInv, NEW s \in Sites, pc[s] \in {"detail", "save"}
  PROVE  list[s].jobs[at[s]] \in Jobs
<1>1. at[s] \in 1..Len(list[s].jobs)
  BY DEF IInv, TaskInv, LoopInv, HandledUpTo, TypeOK
<1>2. list[s].jobs \in Seq(Jobs)
  BY DEF IInv, TypeOK, Ledger!Listing
<1>3. QED BY <1>1, <1>2

LEMMA TabCount ==
  ASSUME IInv, NEW s \in Sites, pc[s] = "return"
  PROVE  /\ Cardinality(tabs[s]) \in {0, 1}
         /\ tabs[s] = {"detail"} => Cardinality(tabs[s] \ {"list"}) = 1
         /\ tabs[s] # {"detail"} => Cardinality(tabs[s] \ {"list"}) = 0
<1>1. tabs[s] = {} \/ tabs[s] = {"list"} \/ tabs[s] = {"detail"}
  BY DEF IInv, TaskInv, TabInv
<1>2. Cardinality({}) = 0 /\ Cardinality({"list"}) = 1 /\ Cardinality({"detail"}) = 1
  BY FS_EmptySet, FS_Singleton
<1>3. {"list"} \ {"list"} = {} /\ {} \ {"list"} = {} /\ {"detail"} \ {"list"} = {"detail"}
  OBVIOUS
<1>4. QED BY <1>1, <1>2, <1>3

LEMMA TypeStep == IInv /\ [Next]_vars => TypeOK'
<1> SUFFICES ASSUME IInv, [Next]_vars PROVE TypeOK'
  OBVIOUS
<1>0. TypeOK
  BY DEF IInv
<1> USE <1>0
<1>1. CASE LaunchRun
  BY <1>1 DEF LaunchRun, TypeOK, database, Steps
<1>2. CASE ExitRun
  BY <1>2, ForgetType DEF ExitRun, TypeOK
<1>3. CASE Crash
  BY <1>3, ForgetType, FaultType DEF Crash
<1>4. CASE BrowserDies
  <2>1. faults' \in 0..MaxFaults
    BY <1>4, FaultType DEF BrowserDies
  <2>2. QED BY <1>4, <2>1 DEF BrowserDies, TypeOK, database
<1>5. ASSUME NEW s \in Sites, ReadCursor(s), UNCHANGED hung PROVE TypeOK'
  <2>1. url' \in [Sites -> Pages]
    <3>1. First[s] \in Pages /\ Ledger!StartPage(s) \in Pages
      BY StartPageType, SiteAssumption DEF Ledger!CrawlConstants
    <3>2. url' = [url EXCEPT ![s] = Ledger!StartPage(s)] \/ url' = [url EXCEPT ![s] = First[s]]
      BY <1>5 DEF ReadCursor, CurrentUrl
    <3>3. QED BY <3>1, <3>2 DEF TypeOK
  <2>4. pc' \in [Sites -> Steps]
    BY <1>5 DEF ReadCursor, CurrentUrl, Goto, TypeOK, Steps
  <2>2. faults' \in 0..MaxFaults
    BY <1>5, FaultType DEF ReadCursor, CurrentUrl
  <2>3. QED BY <1>5, <2>1, <2>2, <2>4 DEF ReadCursor, CurrentUrl, TypeOK, database
<1>6. ASSUME NEW s \in Sites, CreatePage(s), UNCHANGED hung PROVE TypeOK'
  <2>1. items' \in [Sites -> Nat]
    BY <1>6 DEF CreatePage, FreshItems, Yields, TypeOK
  <2>2. CASE PageIsNull(s) /\ EndPage(s, 0) /\ UNCHANGED tabs
    BY <1>6, <2>1, <2>2, PageIsNullType, EndPageType DEF CreatePage, FreshItems, TypeOK, database
  <2>3. CASE BrowserWorks /\ Opened(s, "list") /\ Goto(s, "load")
             /\ UNCHANGED <<turn, orphans, tabFaults>>
    <3>1. faults' \in 0..MaxFaults
      BY <2>3, FaultType
    <3>2. tabs' \in [Sites -> SUBSET {"list", "detail"}] /\ pc' \in [Sites -> Steps]
      BY <2>3 DEF Opened, Goto, TypeOK, Steps
    <3>3. QED BY <1>6, <2>1, <2>3, <3>1, <3>2 DEF CreatePage, FreshItems, TypeOK, database
  <2>4. QED BY <1>6, <2>2, <2>3 DEF CreatePage
<1>7. ASSUME NEW s \in Sites, LoadList(s), UNCHANGED hung PROVE TypeOK'
  <2>1. faults' \in 0..MaxFaults
    BY <1>7, FaultType DEF LoadList
  <2>2. /\ list' \in [Sites -> Ledger!Listing]
        /\ at' \in [Sites -> Nat]
        /\ pc' \in [Sites -> Steps]
    <3>1. url[s] \in Pages
      BY DEF TypeOK
    <3>2. \A l \in Shown[s][url[s]] : l \in Ledger!Listing
      BY <3>1, SiteAssumption DEF Ledger!CrawlConstants
    <3>3. QED BY <1>7, <3>2 DEF LoadList, TypeOK, Goto, Steps
  <2>3. QED BY <1>7, <2>1, <2>2 DEF LoadList, TypeOK, database
<1>8. ASSUME NEW s \in Sites, CloseList(s), UNCHANGED hung PROVE TypeOK'
  <2>1. faults' \in 0..MaxFaults
    BY <1>8, FaultType DEF CloseList
  <2>2. /\ tabs' \in [Sites -> SUBSET {"list", "detail"}]
        /\ tabFaults' \in [Sites -> Nat]
        /\ pc' \in [Sites -> Steps]
    BY <1>8 DEF CloseList, Closed, TabFault, Goto, TypeOK, Steps
  <2>3. QED BY <1>8, <2>1, <2>2 DEF CloseList, TypeOK, database
<1>9. ASSUME NEW s \in Sites, OpenDetail(s), UNCHANGED hung PROVE TypeOK'
  <2>1. CASE PageIsNull(s) /\ DetailIsNull(s) /\ UNCHANGED tabs
    <3>1. pc' \in [Sites -> Steps] /\ UNCHANGED at
      BY <2>1 DEF DetailIsNull, Goto, TypeOK, Steps
    <3>2. QED BY <1>9, <2>1, <3>1, PageIsNullType DEF OpenDetail, TypeOK, database
  <2>2. CASE BrowserWorks /\ Opened(s, "detail") /\ Goto(s, "detail")
             /\ UNCHANGED <<at, orphans, tabFaults>>
    <3>1. faults' \in 0..MaxFaults
      BY <2>2, FaultType
    <3>2. tabs' \in [Sites -> SUBSET {"list", "detail"}] /\ pc' \in [Sites -> Steps]
      BY <2>2 DEF Opened, Goto, TypeOK, Steps
    <3>3. QED BY <1>9, <2>2, <3>1, <3>2 DEF OpenDetail, TypeOK, database
  <2>3. QED BY <1>9, <2>1, <2>2 DEF OpenDetail
<1>10. ASSUME NEW s \in Sites, LoadDetail(s), UNCHANGED hung PROVE TypeOK'
  <2>1. faults' \in 0..MaxFaults
    BY <1>10, FaultType DEF LoadDetail
  <2>2. /\ tabs' \in [Sites -> SUBSET {"list", "detail"}]
        /\ tabFaults' \in [Sites -> Nat]
        /\ items' \in [Sites -> Nat]
        /\ pc' \in [Sites -> Steps]
        /\ at' = at
    BY <1>10 DEF LoadDetail, CloseDetail, DetailIsNull, Closed, TabFault, Yields, Goto, TypeOK, Steps
  <2>3. QED BY <1>10, <2>1, <2>2 DEF LoadDetail, CloseDetail, TypeOK, database
<1>11. ASSUME NEW s \in Sites, SaveJob(s), UNCHANGED hung PROVE TypeOK'
  <2>1. faults' \in 0..MaxFaults
    BY <1>11, FaultType DEF SaveJob
  <2>2. /\ store' \subseteq Jobs
        /\ refused' \subseteq Jobs
    BY <1>11, NextJobType DEF SaveJob, TypeOK
  <2>3. /\ at' \in [Sites -> Nat]
        /\ items' \in [Sites -> Nat]
        /\ pc' \in [Sites -> Steps]
    BY <1>11 DEF SaveJob, Yields, Goto, TypeOK, Steps
  <2>4. QED BY <1>11, <2>1, <2>2, <2>3 DEF SaveJob, TypeOK
<1>12. ASSUME NEW s \in Sites, SaveConfig(s), UNCHANGED hung PROVE TypeOK'
  <2>1. faults' \in 0..MaxFaults
    BY <1>12, FaultType DEF SaveConfig
  <2>2. cursor' \in [Sites -> Pages \union {NoPage}] /\ pc' \in [Sites -> Steps]
    BY <1>12, NextCursorType DEF SaveConfig, Goto, TypeOK, Steps
  <2>3. QED BY <1>12, <2>1, <2>2 DEF SaveConfig, TypeOK
<1>13. ASSUME NEW s \in Sites, ReturnItems(s), UNCHANGED hung PROVE TypeOK'
  <2>1. faults' \in 0..MaxFaults
    BY <1>13, FaultType DEF ReturnItems
  <2>2. pc' \in [Sites -> Steps] /\ turn' \in [Sites -> Nat]
    BY <1>13, EndPageType DEF ReturnItems, TypeOK
  <2>3. orphans' \in [Sites -> Nat] /\ tabFaults' \in [Sites -> Nat]
    <3>1. /\ Cardinality(tabs[s]) \in Nat
          /\ Cardinality(tabs[s] \ {"list"}) \in Nat
      <4>1. pc[s] = "return"
        BY <1>13 DEF ReturnItems
      <4>2. Cardinality(tabs[s]) \in {0, 1}
        BY <4>1, TabCount
      <4>3. Cardinality(tabs[s] \ {"list"}) \in {0, 1}
        BY <4>1, TabCount
      <4>4. QED BY <4>2, <4>3
    <3>2. QED BY <1>13, <3>1 DEF ReturnItems, TabFault, TypeOK
  <2>4. tabs' \in [Sites -> SUBSET {"list", "detail"}]
    BY <1>13 DEF ReturnItems, TypeOK
  <2>5. QED BY <1>13, <2>1, <2>2, <2>3, <2>4 DEF ReturnItems, TypeOK, database
<1>14. CASE UNCHANGED vars
  BY <1>14 DEF vars, database, taskVars, TypeOK
<1>15. ASSUME NEW s \in Sites, Hang(s) PROVE TypeOK'
  BY <1>15, FaultType DEF Hang, TypeOK, database
<1>16. QED
  BY <1>1, <1>2, <1>3, <1>4, <1>5, <1>6, <1>7, <1>8, <1>9, <1>10, <1>11, <1>12, <1>13, <1>14,
     <1>15 DEF Next, Task
----------------------------------------------------------------------------
(* The inductive step of TaskInv.  A step of the task t leaves the other   *)
(* tasks' variables alone and can only add handled jobs.                   *)
Grows == store \subseteq store' /\ refused \subseteq refused'

Framed(s) ==
  /\ Grows
  /\ proc' = proc
  /\ cursor'[s] = cursor[s] /\ pc'[s] = pc[s] /\ url'[s] = url[s]
  /\ list'[s] = list[s] /\ at'[s] = at[s] /\ items'[s] = items[s]
  /\ tabs'[s] = tabs[s] /\ orphans'[s] = orphans[s] /\ tabFaults'[s] = tabFaults[s]

LEMMA FramedTask ==
  ASSUME NEW s \in Sites, TaskInv(s), Framed(s)
  PROVE  TaskInv(s)'
<1>1. UrlInv(s)'
  BY DEF TaskInv, UrlInv, Framed, Ledger!StartPage
<1>2. ListInv(s)'
  BY DEF TaskInv, ListInv, Framed
<1>3. \A n : HandledUpTo(s, n) => HandledUpTo(s, n)'
  BY DEF HandledUpTo, Framed, Grows
<1>4. LoopInv(s)'
  BY <1>3 DEF TaskInv, LoopInv, Framed, HandledUpTo, Grows
<1>5. TabInv(s)'
  BY DEF TaskInv, TabInv, Framed
<1>6. IdleInv(s)'
  BY DEF TaskInv, IdleInv, Framed
<1>7. QED BY <1>1, <1>2, <1>4, <1>5, <1>6 DEF TaskInv

LEMMA OtherTasks ==
  ASSUME IInv, NEW t \in Sites, Task(t), NEW s \in Sites, s # t
  PROVE  Framed(s)
<1> USE DEF IInv, TypeOK
<1>1. CASE ReadCursor(t)
  BY <1>1 DEF ReadCursor, CurrentUrl, Goto, Framed, Grows, database
<1>2. CASE CreatePage(t)
  BY <1>2 DEF CreatePage, FreshItems, PageIsNull, EndPage, Opened, Yields, TabFault, Goto, Framed, Grows, database
<1>3. CASE LoadList(t)
  BY <1>3 DEF LoadList, Goto, Framed, Grows, database
<1>4. CASE CloseList(t)
  BY <1>4 DEF CloseList, Closed, TabFault, Goto, Framed, Grows, database
<1>5. CASE OpenDetail(t)
  BY <1>5 DEF OpenDetail, PageIsNull, DetailIsNull, Opened, TabFault, Goto, Framed, Grows, database
<1>6. CASE LoadDetail(t)
  BY <1>6 DEF LoadDetail, CloseDetail, DetailIsNull, Closed, TabFault, Yields, Goto, Framed, Grows, database
<1>7. CASE SaveJob(t)
  BY <1>7 DEF SaveJob, Yields, Goto, Framed, Grows
<1>8. CASE SaveConfig(t)
  BY <1>8 DEF SaveConfig, Goto, Framed, Grows
<1>9. CASE ReturnItems(t)
  BY <1>9 DEF ReturnItems, EndPage, TabFault, Goto, Framed, Grows, database
<1>10. QED BY <1>1, <1>2, <1>3, <1>4, <1>5, <1>6, <1>7, <1>8, <1>9 DEF Task

LEMMA OwnLoop ==
  ASSUME IInv, NEW s \in Sites
  PROVE  Len(list[s].jobs) \in Nat /\ list[s].jobs \in Seq(Jobs) /\ at[s] \in Nat /\ items[s] \in Nat
BY DEF IInv, TypeOK, Ledger!Listing

LEMMA OwnIdle ==
  ASSUME IInv, NEW s \in Sites, Task(s)
  PROVE  IdleInv(s)'
BY DEF IInv, TaskInv, IdleInv, Task, ReadCursor, CreatePage, LoadList, CloseList,
       OpenDetail, LoadDetail, SaveJob, SaveConfig, ReturnItems

LEMMA OwnTask ==
  ASSUME IInv, NEW s \in Sites, Task(s), TypeOK'
  PROVE  TaskInv(s)'
<1> USE DEF IInv
<1>0. TaskInv(s) /\ TypeOK
  OBVIOUS
<1>11. IdleInv(s)'
  BY OwnIdle
<1> USE <1>11
<1>1. CASE ReadCursor(s)
  <2>1. pc'[s] = "create" /\ cursor' = cursor
    BY <1>1 DEF ReadCursor, CurrentUrl, Goto, TypeOK, database
  <2>2. url'[s] \in {Ledger!StartPage(s), First[s]}
    BY <1>1 DEF ReadCursor, CurrentUrl, TypeOK
  <2>3. UrlInv(s)'
    BY <2>1, <2>2 DEF UrlInv, Ledger!StartPage
  <2>4. ListInv(s)' /\ LoopInv(s)'
    BY <2>1 DEF ListInv, LoopInv
  <2>5. TabInv(s)'
    BY <1>0, <1>1, <2>1 DEF ReadCursor, CurrentUrl, TaskInv, TabInv
  <2>6. QED BY <2>3, <2>4, <2>5 DEF TaskInv
<1>2. CASE CreatePage(s)
  <2>1. pc[s] = "create" /\ tabs[s] = {} /\ orphans[s] <= tabFaults[s]
    BY <1>0, <1>2 DEF CreatePage, FreshItems, TaskInv, TabInv
  <2>2. UNCHANGED <<cursor, url, list>> /\ items'[s] = 0
    BY <1>2 DEF CreatePage, FreshItems, Yields, database, TypeOK
  <2>3. CASE BrowserWorks /\ Opened(s, "list") /\ Goto(s, "load")
             /\ UNCHANGED <<turn, orphans, tabFaults>>
    <3>1. pc'[s] = "load" /\ tabs'[s] = {"list"}
      BY <2>1, <2>3 DEF Opened, Goto, TypeOK
    <3>2. UrlInv(s)'
      BY <1>0, <2>1, <2>2 DEF TaskInv, UrlInv, Ledger!StartPage
    <3>3. QED BY <2>1, <2>2, <2>3, <3>1, <3>2 DEF TaskInv, ListInv, LoopInv, TabInv
  <2>4. CASE PageIsNull(s) /\ EndPage(s, 0) /\ UNCHANGED tabs
    <3>1. pc'[s] = "done" /\ tabs'[s] = {}
      BY <2>1, <2>4 DEF EndPage, Goto, TypeOK
    <3>2. orphans'[s] <= tabFaults'[s]
      BY <2>1, <2>4 DEF PageIsNull, TabFault, TypeOK
    <3>3. QED BY <3>1, <3>2 DEF TaskInv, UrlInv, ListInv, LoopInv, TabInv
  <2>5. QED BY <1>2, <2>3, <2>4 DEF CreatePage
<1>3. CASE LoadList(s)
  <2>1. pc[s] = "load" /\ UNCHANGED <<cursor, url, items, tabs, orphans, tabFaults>>
    BY <1>3 DEF LoadList, database
  <2>2. items'[s] = 0 /\ tabs'[s] \subseteq {"list"} /\ orphans'[s] <= tabFaults'[s]
    BY <1>0, <2>1 DEF TaskInv, LoopInv, TabInv
  <2>3. CASE pc'[s] = "closeList" /\ at'[s] = 1 /\ list'[s] \in Shown[s][url[s]]
    <3>1. UrlInv(s)'
      BY <1>0, <2>1 DEF TaskInv, UrlInv, Ledger!StartPage
    <3>2. ListInv(s)'
      BY <2>1, <2>3 DEF ListInv
    <3>3. QED BY <2>2, <2>3, <3>1, <3>2 DEF TaskInv, LoopInv, TabInv
  <2>4. CASE pc'[s] = "return" /\ list'[s] = list[s]
    <3>1. HandledUpTo(s, items[s])'
      BY <2>2, <2>4, OwnLoop DEF HandledUpTo
    <3>2. TabInv(s)'
      BY <2>2, <2>4 DEF TabInv
    <3>3. QED BY <2>4, <3>1, <3>2 DEF TaskInv, UrlInv, ListInv, LoopInv
  <2>5. QED BY <1>3, <2>3, <2>4 DEF LoadList, Goto, TypeOK
<1>4. CASE CloseList(s)
  <2>1. /\ pc[s] = "closeList" /\ UNCHANGED <<cursor, store, refused, url, list, at, items, orphans>>
        /\ items[s] = 0 /\ at[s] = 1 /\ tabs[s] \subseteq {"list"} /\ orphans[s] <= tabFaults[s]
    BY <1>0, <1>4 DEF CloseList, TaskInv, LoopInv, TabInv, database
  <2>2. HandledUpTo(s, items[s])'
    BY <2>1, OwnLoop DEF HandledUpTo
  <2>3. CASE Closed(s, "list") /\ Goto(s, "loop") /\ UNCHANGED tabFaults
    <3>1. pc'[s] = "loop" /\ tabs'[s] = {}
      BY <2>1, <2>3 DEF Closed, Goto, TypeOK
    <3>2. UrlInv(s)' /\ ListInv(s)'
      BY <1>0, <2>1 DEF TaskInv, UrlInv, ListInv, Ledger!StartPage
    <3>3. QED BY <2>1, <2>2, <2>3, <3>1, <3>2 DEF TaskInv, LoopInv, TabInv
  <2>4. CASE BrowserFails /\ TabFault(s) /\ Goto(s, "return") /\ UNCHANGED tabs
    <3>1. pc'[s] = "return" /\ tabFaults'[s] = tabFaults[s] + 1
      BY <2>4 DEF TabFault, Goto, TypeOK
    <3>2. TabInv(s)'
      BY <2>1, <2>4, <3>1 DEF TabInv, TypeOK
    <3>3. QED BY <2>2, <3>1, <3>2 DEF TaskInv, UrlInv, ListInv, LoopInv
  <2>5. QED BY <1>4, <2>3, <2>4 DEF CloseList
<1>5. CASE OpenDetail(s)
  <2>1. /\ pc[s] = "loop" /\ UNCHANGED <<cursor, store, refused, url, list, items>>
        /\ at[s] <= Len(list[s].jobs)
        /\ at[s] = items[s] + 1 /\ HandledUpTo(s, items[s])
        /\ tabs[s] = {} /\ orphans[s] <= tabFaults[s]
    BY <1>0, <1>5 DEF OpenDetail, MoreJobs, TaskInv, LoopInv, TabInv, database
  <2>2. HandledUpTo(s, items[s])'
    BY <2>1 DEF HandledUpTo
  <2>3. CASE BrowserWorks /\ Opened(s, "detail") /\ Goto(s, "detail")
             /\ UNCHANGED <<at, orphans, tabFaults>>
    <3>1. pc'[s] = "detail" /\ tabs'[s] = {"detail"}
      BY <2>1, <2>3 DEF Opened, Goto, TypeOK
    <3>2. UrlInv(s)' /\ ListInv(s)'
      BY <1>0, <2>1 DEF TaskInv, UrlInv, ListInv, Ledger!StartPage
    <3>3. QED BY <2>1, <2>2, <2>3, <3>1, <3>2 DEF TaskInv, LoopInv, TabInv
  <2>4. CASE PageIsNull(s) /\ DetailIsNull(s) /\ UNCHANGED tabs
    <3>1. pc'[s] = "return" /\ tabs'[s] = {}
      BY <2>1, <2>4 DEF DetailIsNull, Goto, TypeOK
    <3>2. orphans'[s] <= tabFaults'[s]
      BY <2>1, <2>4 DEF PageIsNull, TabFault, TypeOK
    <3>3. QED BY <2>2, <3>1, <3>2 DEF TaskInv, UrlInv, ListInv, LoopInv, TabInv
  <2>5. QED BY <1>5, <2>3, <2>4 DEF OpenDetail
<1>6. CASE LoadDetail(s)
  <2>1. /\ pc[s] = "detail" /\ UNCHANGED <<cursor, store, refused, url, list, at, orphans>>
        /\ at[s] <= Len(list[s].jobs)
        /\ at[s] = items[s] + 1 /\ HandledUpTo(s, items[s])
        /\ tabs[s] \subseteq {"detail"} /\ orphans[s] <= tabFaults[s]
    BY <1>0, <1>6 DEF LoadDetail, CloseDetail, DetailIsNull, TaskInv, LoopInv, TabInv, database
  <2>2. CASE UNCHANGED <<items, tabFaults>> /\ Closed(s, "detail") /\ Goto(s, "save")
    <3>1. pc'[s] = "save" /\ tabs'[s] = {}
      BY <2>1, <2>2 DEF Closed, Goto, TypeOK
    <3>2. UrlInv(s)' /\ ListInv(s)'
      BY <1>0, <2>1 DEF TaskInv, UrlInv, ListInv, Ledger!StartPage
    <3>3. HandledUpTo(s, items[s])'
      BY <2>1, <2>2 DEF HandledUpTo
    <3>4. QED BY <2>1, <2>2, <3>1, <3>2, <3>3 DEF TaskInv, LoopInv, TabInv
  <2>3. CASE UNCHANGED <<items, tabFaults>> /\ CloseDetail(s) /\ DetailIsNull(s)
    <3>1. pc'[s] = "return" /\ tabs'[s] = {}
      BY <2>1, <2>3 DEF DetailIsNull, CloseDetail, Closed, Goto, TypeOK
    <3>2. HandledUpTo(s, items[s])'
      BY <2>1, <2>3 DEF HandledUpTo
    <3>3. QED BY <2>1, <2>3, <3>1, <3>2 DEF TaskInv, UrlInv, ListInv, LoopInv, TabInv
  <2>4. CASE TabFault(s) /\ Yields(s, 0) /\ Goto(s, "return") /\ UNCHANGED tabs
    <3>1. pc'[s] = "return" /\ items'[s] = 0 /\ tabFaults'[s] = tabFaults[s] + 1
      BY <2>4 DEF TabFault, Yields, Goto, TypeOK
    <3>2. HandledUpTo(s, items[s])'
      BY <2>1, <3>1, OwnLoop DEF HandledUpTo
    <3>3. TabInv(s)'
      BY <2>1, <2>4, <3>1 DEF TabInv, TypeOK
    <3>4. QED BY <3>1, <3>2, <3>3 DEF TaskInv, UrlInv, ListInv, LoopInv
  <2>5. QED BY <1>6, <2>2, <2>3, <2>4 DEF LoadDetail
<1>7. CASE SaveJob(s)
  <2>1. /\ pc[s] = "save" /\ UNCHANGED <<cursor, url, list, tabs, orphans, tabFaults>>
        /\ at[s] <= Len(list[s].jobs)
        /\ at[s] = items[s] + 1 /\ HandledUpTo(s, items[s])
        /\ tabs[s] = {} /\ orphans[s] <= tabFaults[s]
    BY <1>0, <1>7 DEF SaveJob, TaskInv, LoopInv, TabInv
  <2>2. UrlInv(s)'
    BY <1>0, <2>1 DEF TaskInv, UrlInv, Ledger!StartPage
  <2>3. ListInv(s)'
    BY <1>0, <2>1 DEF TaskInv, ListInv
  <2>5. CASE /\ \/ store' = store \union {list[s].jobs[at[s]]} /\ UNCHANGED refused
                \/ refused' = refused \union {list[s].jobs[at[s]]} /\ UNCHANGED store
             /\ at' = [at EXCEPT ![s] = @ + 1]
             /\ Yields(s, items[s] + 1)
             /\ Goto(s, "loop")
    <3>1. pc'[s] = "loop" /\ at'[s] = at[s] + 1 /\ items'[s] = items[s] + 1
      BY <2>5 DEF Yields, Goto, TypeOK
    <3>2. HandledUpTo(s, items[s])'
      <4>1. items'[s] = at[s] /\ items'[s] \in Nat
        BY <2>1, <3>1, OwnLoop
      <4>2. list[s].jobs[at[s]] \in (store \union refused)'
        BY <2>5
      <4>3. \A i \in 1..items'[s] : i \in 1..items[s] \/ i = at[s]
        BY <2>1, <3>1, OwnLoop
      <4>4. \A i \in 1..items[s] : list[s].jobs[i] \in (store \union refused)'
        BY <2>1, <2>5 DEF HandledUpTo
      <4>5. \A i \in 1..items'[s] : list'[s].jobs[i] \in (store \union refused)'
        BY <2>1, <4>2, <4>3, <4>4
      <4>6. QED BY <2>1, <4>1, <4>5 DEF HandledUpTo
    <3>3. LoopInv(s)'
      BY <2>1, <3>1, <3>2, OwnLoop DEF LoopInv
    <3>4. TabInv(s)'
      BY <2>1, <3>1 DEF TabInv
    <3>5. QED BY <2>2, <2>3, <3>3, <3>4 DEF TaskInv
  <2>6. QED BY <1>7, <2>5 DEF SaveJob
<1>8. CASE SaveConfig(s)
  <2>1. /\ pc[s] = "loop" /\ pc'[s] = "return"
        /\ UNCHANGED <<store, refused, list, items, tabs, orphans, tabFaults>>
        /\ HandledUpTo(s, items[s])
        /\ tabs[s] = {} /\ orphans[s] <= tabFaults[s]
    BY <1>0, <1>8 DEF SaveConfig, Goto, TaskInv, LoopInv, TabInv, TypeOK
  <2>2. HandledUpTo(s, items[s])'
    BY <2>1 DEF HandledUpTo
  <2>3. QED BY <2>1, <2>2 DEF TaskInv, UrlInv, ListInv, LoopInv, TabInv
<1>9. CASE ReturnItems(s)
  <2>1. pc[s] = "return" /\ tabs'[s] = {}
    BY <1>9 DEF ReturnItems, TypeOK
  <2>2. pc'[s] \in {"start", "done"}
    BY <1>9 DEF ReturnItems, EndPage, Goto, TypeOK
  <2>3. orphans'[s] <= tabFaults'[s]
    <3>1. /\ orphans[s] \in Nat /\ tabFaults[s] \in Nat /\ orphans[s] <= tabFaults[s]
          /\ tabs[s] = {"detail"} => orphans[s] < tabFaults[s]
      BY <1>0, <2>1 DEF TaskInv, TabInv, TypeOK
    <3>2. CASE /\ orphans' = [orphans EXCEPT ![s] = @ + Cardinality(tabs[s] \ {"list"})]
               /\ UNCHANGED tabFaults
      <4>1. orphans'[s] = orphans[s] + Cardinality(tabs[s] \ {"list"}) /\ tabFaults'[s] = tabFaults[s]
        BY <3>2 DEF TypeOK
      <4>2. tabs[s] = {"detail"} => orphans[s] + Cardinality(tabs[s] \ {"list"}) <= tabFaults[s]
        BY <2>1, <3>1, TabCount
      <4>3. tabs[s] # {"detail"} => orphans[s] + Cardinality(tabs[s] \ {"list"}) <= tabFaults[s]
        BY <2>1, <3>1, TabCount
      <4>4. QED BY <4>1, <4>2, <4>3
    <3>3. CASE /\ orphans' = [orphans EXCEPT ![s] = @ + Cardinality(tabs[s])]
               /\ TabFault(s)
      <4>1. orphans'[s] = orphans[s] + Cardinality(tabs[s]) /\ tabFaults'[s] = tabFaults[s] + 1
        BY <3>3 DEF TabFault, TypeOK
      <4>2. Cardinality(tabs[s]) \in {0, 1}
        BY <2>1, TabCount
      <4>3. QED BY <3>1, <4>1, <4>2
    <3>4. QED BY <1>9, <3>2, <3>3 DEF ReturnItems
  <2>4. QED BY <2>1, <2>2, <2>3 DEF TaskInv, UrlInv, ListInv, LoopInv, TabInv
<1>10. QED BY <1>1, <1>2, <1>3, <1>4, <1>5, <1>6, <1>7, <1>8, <1>9 DEF Task

LEMMA Inductive == IInv /\ [Next]_vars => IInv'
<1> SUFFICES ASSUME IInv, [Next]_vars PROVE \A s \in Sites : TaskInv(s)'
  BY TypeStep DEF IInv
<1>0. TypeOK'
  BY TypeStep
<1> SUFFICES ASSUME NEW s \in Sites PROVE TaskInv(s)'
  OBVIOUS
<1> USE DEF IInv
<1>1. CASE LaunchRun
  <2>1. pc'[s] = "start" /\ UNCHANGED <<database, tabs, orphans, tabFaults>>
    BY <1>1 DEF LaunchRun
  <2>2. IdleInv(s)'
    BY <1>1 DEF LaunchRun, IdleInv
  <2>3. TabInv(s)'
    BY <1>1, <2>1 DEF LaunchRun, TaskInv, IdleInv, TabInv
  <2>4. QED BY <2>1, <2>2, <2>3 DEF TaskInv, UrlInv, ListInv, LoopInv
<1>2. CASE Forget
  BY <1>2 DEF Forget, TaskInv, IdleInv, UrlInv, ListInv, LoopInv, TabInv
<1>3. CASE BrowserDies
  <2>1. UNCHANGED <<cursor, store, refused, pc, url, list, at, items, tabFaults>>
    BY <1>3 DEF BrowserDies, database
  <2>2. tabs'[s] = {} /\ orphans'[s] = 0 /\ tabFaults'[s] \in Nat
    BY <1>0, <1>3 DEF BrowserDies, TypeOK
  <2>3. UrlInv(s)' /\ ListInv(s)' /\ LoopInv(s)'
    BY <2>1 DEF TaskInv, UrlInv, ListInv, LoopInv, HandledUpTo, Ledger!StartPage
  <2>4. TabInv(s)'
    BY <2>2 DEF TabInv
  <2>5. IdleInv(s)'
    BY <1>3, <2>1 DEF BrowserDies, TaskInv, IdleInv
  <2>6. QED BY <2>3, <2>4, <2>5 DEF TaskInv
<1>4. ASSUME NEW t \in Sites, Task(t) PROVE TaskInv(s)'
  BY <1>0, <1>4, OwnTask, OtherTasks, FramedTask
<1>5. CASE UNCHANGED vars
  <2>1. Framed(s)
    BY <1>5 DEF vars, database, taskVars, Framed, Grows
  <2>2. QED BY <2>1, FramedTask
<1>6. ASSUME NEW t \in Sites, Hang(t) PROVE TaskInv(s)'
  <2>1. Framed(s)
    BY <1>6 DEF Hang, database, Framed, Grows
  <2>2. QED BY <2>1, FramedTask
<1>7. QED BY <1>1, <1>2, <1>3, <1>4, <1>5, <1>6 DEF Next, ExitRun, Crash

LEMMA InitIInv == Init => IInv
<1> SUFFICES ASSUME Init PROVE IInv
  OBVIOUS
<1>1. \A s \in Sites : TaskInv(s)
  BY DEF Init, TaskInv, IdleInv, UrlInv, ListInv, LoopInv, TabInv
<1>2. QED BY <1>1, InitTypeOK DEF IInv

THEOREM Invariance == Spec => []IInv
BY InitIInv, Inductive, PTL DEF Spec
----------------------------------------------------------------------------
(* The results.                                                            *)

(* The state of the crawl stays well-formed: in particular the loop over a *)
(* page's jobs never leaves the list, so every stored id is a job's.       *)
THEOREM TypeCorrect == Spec => []TypeOK
BY Invariance, PTL DEF IInv

(* Crawl.page reports only jobs of the page it loaded that were handled.   *)
THEOREM ItemsHandled == Spec => []ItemsAreHandled
<1>1. IInv => ItemsAreHandled
  <2> SUFFICES ASSUME IInv, NEW s \in Sites, pc[s] \in {"loop", "detail", "save", "return"}
               PROVE  /\ items[s] <= Len(list[s].jobs)
                      /\ \A i \in 1..items[s] : list[s].jobs[i] \in store \union refused
    BY DEF ItemsAreHandled
  <2>1. HandledUpTo(s, items[s])
    BY DEF IInv, TaskInv, LoopInv
  <2>2. QED BY <2>1 DEF HandledUpTo
<1>2. QED BY <1>1, Invariance, PTL

(* A task never holds two tabs of the shared browser.                      *)
THEOREM AtMostOneTab == Spec => []OneTabPerTask
<1>1. IInv => OneTabPerTask
  <2> SUFFICES ASSUME IInv, NEW s \in Sites PROVE Cardinality(tabs[s]) <= 1
    BY DEF OneTabPerTask
  <2>1. tabs[s] \subseteq {"list"} \/ tabs[s] \subseteq {"detail"}
    BY DEF IInv, TaskInv, TabInv
  <2>2. tabs[s] = {} \/ tabs[s] = {"list"} \/ tabs[s] = {"detail"}
    BY <2>1
  <2>3. Cardinality({}) = 0 /\ Cardinality({"list"}) = 1 /\ Cardinality({"detail"}) = 1
    BY FS_EmptySet, FS_Singleton
  <2>4. QED BY <2>2, <2>3
<1>2. QED BY <1>1, Invariance, PTL

(* Every abandoned tab is the fault of a failed create or close.           *)
THEOREM LeaksAreFaults == Spec => []NoSilentLeak
<1>1. IInv => NoSilentLeak
  BY DEF IInv, TaskInv, TabInv, NoSilentLeak
<1>2. QED BY <1>1, Invariance, PTL

(* saveConfig runs only after every listed job was handled.                *)
LEMMA LoopIsOver ==
  ASSUME IInv, NEW s \in Sites, pc[s] = "loop", at[s] > Len(list[s].jobs)
  PROVE  Handled(s)
<1>1. items[s] = Len(list[s].jobs) /\ HandledUpTo(s, items[s])
  BY OwnLoop DEF IInv, TaskInv, LoopInv, HandledUpTo
<1>2. DOMAIN list[s].jobs = 1..Len(list[s].jobs)
  BY OwnLoop
<1>3. QED BY <1>1, <1>2 DEF Handled, HandledUpTo, Ledger!JobsOn

LEMMA CursorMoves ==
  ASSUME IInv, [Next]_vars, cursor' # cursor
  PROVE  \E s \in Sites : SaveConfig(s) /\ cursor' = [cursor EXCEPT ![s] = NextCursor(s)]
<1>1. PICK s \in Sites : Task(s)
  BY DEF Next, vars, database, LaunchRun, ExitRun, Crash, Forget, BrowserDies, Hang
<1>2. SaveConfig(s)
  BY <1>1 DEF Task, ReadCursor, CreatePage, LoadList, CloseList, OpenDetail, LoadDetail,
              SaveJob, ReturnItems, database
<1>3. QED BY <1>2 DEF SaveConfig

(* No early return, failure, crash or restart lets a cursor skip a job.    *)
THEOREM CursorSkipsNoJob == Spec => CursorWaitsForJobs
<1>1. IInv /\ [Next]_vars => [\A s \in Sites : cursor'[s] # cursor[s] => Handled(s)]_vars
  <2> SUFFICES ASSUME IInv, [Next]_vars, NEW s \in Sites, cursor'[s] # cursor[s]
               PROVE  Handled(s)
    OBVIOUS
  <2>1. PICK t \in Sites : SaveConfig(t) /\ cursor' = [cursor EXCEPT ![t] = NextCursor(t)]
    BY CursorMoves
  <2>2. t = s
    BY <2>1 DEF IInv, TypeOK
  <2>3. pc[s] = "loop" /\ at[s] > Len(list[s].jobs)
    BY <2>1, <2>2, OwnLoop DEF SaveConfig, MoreJobs
  <2>4. QED BY <2>3, LoopIsOver
<1>2. QED BY <1>1, Invariance, PTL DEF Spec, CursorWaitsForJobs

LEMMA LedgerStep == IInv /\ [Next]_vars => [Ledger!Next]_(Ledger!ledger)
<1> SUFFICES ASSUME IInv, [Next]_vars PROVE [Ledger!Next]_(Ledger!ledger)
  OBVIOUS
<1>1. CASE cursor' # cursor
  <2>1. PICK s \in Sites : SaveConfig(s) /\ cursor' = [cursor EXCEPT ![s] = NextCursor(s)]
    BY <1>1, CursorMoves
  <2>2. /\ pc[s] = "loop" /\ at[s] > Len(list[s].jobs)
        /\ UNCHANGED <<store, refused>>
    BY <2>1, OwnLoop DEF SaveConfig, MoreJobs
  <2>3. url[s] \in {Ledger!StartPage(s), First[s]} /\ list[s] \in Shown[s][url[s]]
    BY <2>2 DEF IInv, TaskInv, UrlInv, ListInv
  <2>4. Ledger!JobsOn(list[s]) \subseteq store \union refused
    BY <2>2, LoopIsOver DEF Handled
  <2>5. Ledger!Advance(s)
    BY <2>1, <2>2, <2>3, <2>4 DEF Ledger!Advance, NextCursor
  <2>6. QED BY <2>5 DEF Ledger!Next
<1>2. CASE cursor' = cursor /\ ~(UNCHANGED <<store, refused>>)
  <2>1. PICK s \in Sites : SaveJob(s)
    BY <1>2 DEF Next, vars, database, LaunchRun, ExitRun, Crash, Forget, BrowserDies, Hang, Task,
                ReadCursor, CreatePage, LoadList, CloseList, OpenDetail, LoadDetail,
                SaveConfig, ReturnItems
  <2>2. list[s].jobs[at[s]] \in Jobs
    BY <2>1, NextJobType DEF SaveJob
  <2>3. Ledger!Store(list[s].jobs[at[s]]) \/ Ledger!Refuse(list[s].jobs[at[s]])
    BY <1>2, <2>1 DEF SaveJob, Ledger!Store, Ledger!Refuse
  <2>4. QED BY <2>2, <2>3 DEF Ledger!Next
<1>3. CASE UNCHANGED <<cursor, store, refused>>
  BY <1>3 DEF Ledger!ledger
<1>4. QED BY <1>1, <1>2, <1>3

(* The crawl implements the ledger: tasks, tabs, failures and restarts are *)
(* invisible in the database except as its steps.                          *)
THEOREM CrawlKeepsLedger == Spec => KeepsLedger
<1>1. Init => Ledger!Init
  BY DEF Init
<1>2. QED
  BY <1>1, Invariance, LedgerStep, PTL DEF Spec, KeepsLedger, Ledger!Spec
----------------------------------------------------------------------------
(* Poisoned jobs.  IInv says which jobs the loop has handled; what keeps   *)
(* the hidden ones out of the database is that none of those was poisoned: *)
(* a second inductive invariant, over the first.                           *)
Unpoisoned(s, n) == \A k \in 1..n : list[s].jobs[k] \notin Poison

PassedInv(s) ==
  /\ pc[s] \in {"loop", "detail"} => Unpoisoned(s, at[s] - 1)
  /\ pc[s] = "save" => Unpoisoned(s, at[s])

PoisonInv == NothingBehindPoison /\ \A s \in Sites : PassedInv(s)

LEMMA OwnPassed ==
  ASSUME IInv, NEW s \in Sites, PassedInv(s), Task(s)
  PROVE  PassedInv(s)'
<1>0. /\ pc \in [Sites -> Steps] /\ at \in [Sites -> Nat] /\ list \in [Sites -> Ledger!Listing]
      /\ at[s] \in Nat
  BY DEF IInv, TypeOK
<1>1. CASE ReadCursor(s) \/ CreatePage(s) \/ LoadList(s) \/ SaveConfig(s) \/ ReturnItems(s)
  <2>1. pc'[s] \in {"create", "load", "done", "start", "closeList", "return"}
    BY <1>0, <1>1 DEF ReadCursor, CreatePage, LoadList, SaveConfig, ReturnItems, EndPage, Goto
  <2>2. QED BY <2>1 DEF PassedInv
<1>2. CASE CloseList(s)
  <2>1. pc'[s] \in {"loop", "return"} /\ at'[s] = 1
    BY <1>0, <1>2 DEF CloseList, Goto, IInv, TaskInv, LoopInv
  <2>2. QED BY <2>1 DEF PassedInv, Unpoisoned
<1>3. CASE OpenDetail(s)
  <2>1. pc[s] = "loop" /\ pc'[s] \in {"detail", "return"} /\ UNCHANGED <<at, list>>
    BY <1>0, <1>3 DEF OpenDetail, DetailIsNull, Goto
  <2>2. QED BY <2>1 DEF PassedInv, Unpoisoned
<1>4. CASE LoadDetail(s)
  <2>1. /\ pc[s] = "detail" /\ UNCHANGED <<at, list>>
        /\ \/ pc'[s] = "return"
           \/ pc'[s] = "save" /\ list[s].jobs[at[s]] \notin Poison
    BY <1>0, <1>4 DEF LoadDetail, DetailIsNull, Goto
  <2>2. \A k \in 1..at[s] : k \in 1..(at[s] - 1) \/ k = at[s]
    BY <1>0
  <2>3. QED BY <2>1, <2>2 DEF PassedInv, Unpoisoned
<1>5. CASE SaveJob(s)
  <2>1. /\ pc[s] = "save" /\ UNCHANGED list
        /\ pc'[s] = "loop" /\ at'[s] = at[s] + 1
    BY <1>0, <1>5 DEF SaveJob, Goto
  <2>2. (at[s] + 1) - 1 = at[s]
    BY <1>0
  <2>3. QED BY <2>1, <2>2 DEF PassedInv, Unpoisoned
<1>6. QED BY <1>1, <1>2, <1>3, <1>4, <1>5 DEF Task

LEMMA SavedNotHidden ==
  ASSUME IInv, NEW s \in Sites, PassedInv(s), pc[s] = "save"
  PROVE  list[s].jobs[at[s]] \notin Hidden
<1>1. at[s] \in 1..Len(list[s].jobs) /\ DOMAIN list[s].jobs = 1..Len(list[s].jobs)
  BY OwnLoop DEF IInv, TaskInv, LoopInv, HandledUpTo
<1>2. list[s] \in Shown[s][url[s]] /\ url[s] \in Pages
  BY DEF IInv, TaskInv, ListInv, TypeOK
<1>3. ~PoisonUpTo(list[s].jobs, at[s])
  BY DEF PassedInv, Unpoisoned, PoisonUpTo
<1>4. QED BY <1>1, <1>2, <1>3 DEF Hidden

LEMMA PoisonStep == IInv /\ PoisonInv /\ [Next]_vars => PoisonInv'
<1> SUFFICES ASSUME IInv, PoisonInv, [Next]_vars PROVE PoisonInv'
  OBVIOUS
<1>1. ASSUME NEW s \in Sites PROVE PassedInv(s)'
  <2>0. PassedInv(s)
    BY DEF PoisonInv
  <2>1. CASE LaunchRun \/ Forget
    <3>1. pc'[s] \in {"start", "idle"}
      BY <2>1 DEF LaunchRun, Forget
    <3>2. QED BY <3>1 DEF PassedInv
  <2>2. CASE BrowserDies \/ UNCHANGED vars
    BY <2>0, <2>2 DEF BrowserDies, vars, taskVars, PassedInv, Unpoisoned
  <2>3. ASSUME NEW t \in Sites, Task(t), t # s PROVE PassedInv(s)'
    <3>1. Framed(s)
      BY <2>3, OtherTasks
    <3>2. QED BY <2>0, <3>1 DEF Framed, PassedInv, Unpoisoned
  <2>4. CASE Task(s)
    BY <2>0, <2>4, OwnPassed
  <2>5. ASSUME NEW t \in Sites, Hang(t) PROVE PassedInv(s)'
    BY <2>0, <2>5 DEF Hang, PassedInv, Unpoisoned
  <2>6. QED BY <2>1, <2>2, <2>3, <2>4, <2>5 DEF Next, ExitRun, Crash
<1>2. NothingBehindPoison'
  <2>1. CASE UNCHANGED <<store, refused>>
    BY <2>1 DEF PoisonInv, NothingBehindPoison
  <2>2. CASE \E s \in Sites : SaveJob(s)
    <3>1. PICK s \in Sites : SaveJob(s)
      BY <2>2
    <3>2. list[s].jobs[at[s]] \notin Hidden
      BY <3>1, SavedNotHidden DEF SaveJob, PoisonInv
    <3>3. (store \union refused)' \subseteq store \union refused \union {list[s].jobs[at[s]]}
      BY <3>1 DEF SaveJob
    <3>4. Hidden' = Hidden
      BY DEF Hidden, PoisonUpTo
    <3>5. QED BY <3>2, <3>3, <3>4 DEF PoisonInv, NothingBehindPoison
  <2>3. QED
    BY <2>1, <2>2 DEF Next, vars, database, LaunchRun, ExitRun, Crash, Forget, BrowserDies, Hang, Task,
         ReadCursor, CreatePage, LoadList, CloseList, OpenDetail, LoadDetail, SaveConfig, ReturnItems
<1>3. QED BY <1>1, <1>2 DEF PoisonInv

(* A job whose detail page never loads hides itself and what is listed     *)
(* only behind it from the database for ever: no retry, restart or other   *)
(* page order of the nine tasks' runs gets one of them to saveJob.         *)
THEOREM PoisonHides == Spec => []NothingBehindPoison
<1>1. Init => PoisonInv
  BY DEF Init, Ledger!Init, PoisonInv, NothingBehindPoison, PassedInv
<1>2. PoisonInv => NothingBehindPoison
  BY DEF PoisonInv
<1>3. QED BY <1>1, <1>2, PoisonStep, Invariance, PTL DEF Spec
============================================================================
