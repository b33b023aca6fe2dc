----------------------------- MODULE SiteCrawl -----------------------------
(***************************************************************************)
(* The scheduled crawl: jobs/job1.ts starts one task per site in one       *)
(* process over one shared browser; a task runs getJobs, which calls       *)
(* Crawl.page up to MaxPage times; Crawl.page reads the site's cursor,     *)
(* opens a tab and calls the site's getJobInPage, which lists the page,    *)
(* visits every job in a tab of its own, saves it and, after the last one, *)
(* saves the cursor.  The nine sites' getJobInPage and scapeDetail share   *)
(* this control flow line by line; the map names careerlink.ts for it.     *)
(*                                                                         *)
(* A step is the code between two awaits whose order matters; every await  *)
(* may fail, and may come to no end: only page.goto has a timeout.  faults *)
(* counts the failures so far, so that MaxFaults bounds them in a          *)
(* behaviour; a dead browser fails for free.                               *)
(***************************************************************************)
EXTENDS Naturals, FiniteSets, Sequences

CONSTANTS
  Sites, Pages, Jobs, NoPage, First, Shown,
  MaxPage,       (* MaxPage[s]: list pages of s per run (job1.ts 36-44)    *)
  Poison,        (* jobs whose detail page never loads                     *)
  MaxFaults      (* bound: failures of the environment per behaviour       *)

VARIABLES
  proc,      (* "down" or "up": the job1 process                           *)
  browser,   (* "none", "up" or "dead": its shared browser                 *)
  cursor,    (* MongoDB: craws documents, the page per site                *)
  store,     (* MongoDB: jobs documents, by jobId                          *)
  refused,   (* history: jobs for which saveJob returned false             *)
  faults,    (* failures that have happened                                *)
  pc,        (* where each site's task is                                  *)
  hung,      (* tasks whose await gets no answer, be it the browser's, the *)
             (* database's or that of a logo's server                      *)
  turn,      (* getJobs: index                                             *)
  url,       (* page: currentUrl                                           *)
  list,      (* getJobInPage: jobs and nextPage, as evaluated in the page  *)
  at,        (* getJobInPage: position of the loop over jobs               *)
  items,     (* number of items getJobInPage is about to return            *)
  tabs,      (* tabs the task holds open: "list", "detail"                 *)
  orphans,   (* tabs left open in the browser that no code refers to       *)
  tabFaults  (* history: tab calls (create, close) of the run that failed  *)

database == <<cursor, store, refused>>
taskVars == <<pc, hung, turn, url, list, at, items, tabs, orphans, tabFaults>>
vars == <<proc, browser, database, faults, taskVars>>

Ledger == INSTANCE CrawlLedger WITH
  cursor <- cursor, store <- store, refused <- refused

Steps == {"idle", "start", "create", "load", "closeList", "loop", "detail",
          "save", "return", "done"}
NoListing == [jobs |-> <<>>, next |-> NoPage]

ASSUME SiteAssumption ==
  /\ Ledger!CrawlConstants
  /\ MaxPage \in [Sites -> Nat \ {0}]
  /\ Poison \subseteq Jobs
  /\ MaxFaults \in Nat

TypeOK ==
  /\ proc \in {"down", "up"}
  /\ browser \in {"none", "up", "dead"}
  /\ cursor \in [Sites -> Pages \union {NoPage}]
  /\ store \subseteq Jobs
  /\ refused \subseteq Jobs
  /\ faults \in 0..MaxFaults
  /\ pc \in [Sites -> Steps]
  /\ hung \subseteq Sites
  /\ turn \in [Sites -> Nat]
  /\ url \in [Sites -> Pages]
  /\ list \in [Sites -> Ledger!Listing]
  /\ at \in [Sites -> Nat]
  /\ items \in [Sites -> Nat]
  /\ tabs \in [Sites -> SUBSET {"list", "detail"}]
  /\ orphans \in [Sites -> Nat]
  /\ tabFaults \in [Sites -> Nat]

Init ==
  /\ proc = "down"
  /\ browser = "none"
  /\ Ledger!Init
  /\ faults = 0
  /\ pc = [s \in Sites |-> "idle"]
  /\ hung = {}
  /\ turn = [s \in Sites |-> 0]
  /\ url = First
  /\ list = [s \in Sites |-> NoListing]
  /\ at = [s \in Sites |-> 1]
  /\ items = [s \in Sites |-> 0]
  /\ tabs = [s \in Sites |-> {}]
  /\ orphans = [s \in Sites |-> 0]
  /\ tabFaults = [s \in Sites |-> 0]
----------------------------------------------------------------------------
(* The outcomes of an awaited call.                                        *)
Fault == faults < MaxFaults /\ faults' = faults + 1
BrowserWorks == browser = "up" /\ UNCHANGED faults
BrowserFails == IF browser = "up" THEN Fault ELSE UNCHANGED faults

Goto(s, step) == pc' = [pc EXCEPT ![s] = step]
Opened(s, tab) == tabs' = [tabs EXCEPT ![s] = @ \union {tab}]
Closed(s, tab) == tabs' = [tabs EXCEPT ![s] = @ \ {tab}]
TabFault(s) == tabFaults' = [tabFaults EXCEPT ![s] = @ + 1]
Yields(s, n) == items' = [items EXCEPT ![s] = n]

(* createPage: newPage may fail, or succeed and a later call fail: then    *)
(* null is returned all the same and the new tab is left to nobody.        *)
PageIsNull(s) ==
  \/ BrowserFails /\ UNCHANGED <<orphans, tabFaults>>
  \/ /\ browser = "up" /\ Fault
     /\ TabFault(s)
     /\ orphans' = [orphans EXCEPT ![s] = @ + 1]

(* getJobs: one Crawl.page has returned n items.  (EndPageUncounted is the  *)
(* loop without its index++.)                                              *)
EndPageUncounted(s, n) ==
  Goto(s, IF n > 0 THEN "start" ELSE "done") /\ UNCHANGED turn

EndPage(s, n) ==
  IF n > 0 /\ turn[s] + 1 < MaxPage[s]
    THEN Goto(s, "start") /\ turn' = [turn EXCEPT ![s] = @ + 1]
    ELSE Goto(s, "done") /\ UNCHANGED turn
----------------------------------------------------------------------------
(* job1.ts: scrapeWithSchedule launches the browser and starts the tasks.  *)
LaunchRun ==
  /\ proc = "down"
  /\ proc' = "up"
  /\ browser' = "up"
  /\ pc' = [s \in Sites |-> "start"]
  /\ turn' = [s \in Sites |-> 0]
  /\ UNCHANGED <<database, faults, hung, url, list, at, items, tabs, orphans, tabFaults>>

(* The end of the process: what it holds in memory, and its tabs, are gone.*)
Forget ==
  /\ proc' = "down"
  /\ browser' = "none"
  /\ pc' = [s \in Sites |-> "idle"]
  /\ hung' = {}
  /\ turn' = [s \in Sites |-> 0]
  /\ url' = First
  /\ list' = [s \in Sites |-> NoListing]
  /\ at' = [s \in Sites |-> 1]
  /\ items' = [s \in Sites |-> 0]
  /\ tabs' = [s \in Sites |-> {}]
  /\ orphans' = [s \in Sites |-> 0]
  /\ tabFaults' = [s \in Sites |-> 0]
  /\ UNCHANGED database

(* Promise.all.                                                            *)
TasksOver == \A s \in Sites : pc[s] = "done"

(* All tasks have returned: close the browser and exit; pm2 restarts it.   *)
ExitRun ==
  /\ proc = "up"
  /\ TasksOver
  /\ Forget
  /\ UNCHANGED faults

(* The process is killed (reboot, out of memory) between any two awaits.   *)
Crash ==
  /\ proc = "up"
  /\ Fault
  /\ Forget

(* The task awaits a call on the browser.                                  *)
MoreJobs(s) == at[s] <= Len(list[s].jobs)
AwaitsBrowser(s) ==
  \/ pc[s] \in {"create", "load", "closeList", "detail"}
  \/ pc[s] = "loop" /\ MoreJobs(s)
  \/ pc[s] = "return" /\ "list" \in tabs[s]

(* The shared browser dies: its tabs go, the calls that await its answer   *)
(* are rejected (Connection._onClose) and so is every later one.           *)
BrowserDies ==
  /\ browser = "up"
  /\ Fault
  /\ browser' = "dead"
  /\ hung' = {s \in hung : ~AwaitsBrowser(s)}
  /\ tabs' = [s \in Sites |-> {}]
  /\ orphans' = [s \in Sites |-> 0]
  /\ UNCHANGED <<proc, database, pc, turn, url, list, at, items, tabFaults>>

(* An answer that never comes: the browser's, to evaluate, newPage, close  *)
(* or screenshot, the database's, or the end of a logo.                    *)
Hang(s) ==
  /\ pc[s] \notin {"idle", "done"} /\ s \notin hung
  /\ AwaitsBrowser(s) => browser = "up"
  /\ pc[s] = "return" => AwaitsBrowser(s)
  /\ Fault
  /\ hung' = hung \union {s}
  /\ UNCHANGED <<proc, browser, database, pc, turn, url, list, at, items, tabs, orphans, tabFaults>>
----------------------------------------------------------------------------
(* configCraw.page || url.                                                 *)
CurrentUrl(s) == Ledger!StartPage(s)

(* page: after the delay, the stored cursor, or the site's first URL when  *)
(* there is none or when the read of it fails (getConfigCraw: null).       *)
ReadCursor(s) ==
  /\ pc[s] = "start"
  /\ \/ url' = [url EXCEPT ![s] = CurrentUrl(s)] /\ UNCHANGED faults
     \/ url' = [url EXCEPT ![s] = First[s]] /\ Fault
  /\ Goto(s, "create")
  /\ UNCHANGED <<proc, browser, database, turn, list, at, items, tabs, orphans, tabFaults>>

(* getJobInPage: items is a new list per call, or one kept by the module.  *)
SharedItems(s) == UNCHANGED items
FreshItems(s) == Yields(s, 0)

(* page: open the list tab; null ends the page with no items.              *)
CreatePage(s) ==
  /\ pc[s] = "create"
  /\ \/ /\ BrowserWorks
        /\ Opened(s, "list")
        /\ Goto(s, "load")
        /\ UNCHANGED <<turn, orphans, tabFaults>>
     \/ PageIsNull(s) /\ EndPage(s, 0) /\ UNCHANGED tabs
  /\ FreshItems(s)
  /\ UNCHANGED <<proc, browser, database, url, list, at>>

(* getJobInPage: goto, scroll, next link, jobs (and a screenshot when there *)
(* are none); a failure anywhere is caught and yields no items.            *)
LoadList(s) ==
  /\ pc[s] = "load"
  /\ \/ /\ BrowserWorks
        /\ \E listing \in Shown[s][url[s]] : list' = [list EXCEPT ![s] = listing]
        /\ at' = [at EXCEPT ![s] = 1]
        /\ Goto(s, "closeList")
     \/ BrowserFails /\ Goto(s, "return") /\ UNCHANGED <<list, at>>
  /\ UNCHANGED <<proc, browser, database, turn, url, items, tabs, orphans, tabFaults>>

(* getJobInPage: close the list tab before the first detail is opened.     *)
CloseList(s) ==
  /\ pc[s] = "closeList"
  /\ \/ /\ BrowserWorks \/ (browser = "dead" /\ UNCHANGED faults)
        /\ Closed(s, "list") /\ Goto(s, "loop") /\ UNCHANGED tabFaults
     \/ BrowserFails /\ TabFault(s) /\ Goto(s, "return") /\ UNCHANGED tabs
  /\ UNCHANGED <<proc, browser, database, turn, url, list, at, items, orphans>>
----------------------------------------------------------------------------
(* getJobInPage: scapeDetail gave null: return the items so far at once,   *)
(* where a continue or a break could stand.                                *)
Continue(s) == Goto(s, "loop") /\ at' = [at EXCEPT ![s] = @ + 1]
Break(s) == Goto(s, "loop") /\ at' = [at EXCEPT ![s] = Len(list[s].jobs) + 1]
DetailIsNull(s) == Goto(s, "return") /\ UNCHANGED at

(* scapeDetail: the close in its catch, and its absence.                   *)
LeaveDetail(s) == UNCHANGED tabs
CloseDetail(s) == Closed(s, "detail")

(* getJobInPage and scapeDetail: a tab for the next job of the list.       *)
OpenDetail(s) ==
  /\ pc[s] = "loop"
  /\ MoreJobs(s)
  /\ \/ /\ BrowserWorks
        /\ Opened(s, "detail") /\ Goto(s, "detail")
        /\ UNCHANGED <<at, orphans, tabFaults>>
     \/ PageIsNull(s) /\ DetailIsNull(s) /\ UNCHANGED tabs
  /\ UNCHANGED <<proc, browser, database, turn, url, list, items>>

(* scapeDetail: load the job and close its tab.  A failure is caught, the  *)
(* tab closed and null returned; when that close fails too, the error is   *)
(* getJobInPage's, which then returns no items at all.                     *)
LoadDetail(s) ==
  /\ pc[s] = "detail"
  /\ \/ /\ BrowserWorks
        /\ list[s].jobs[at[s]] \notin Poison
        /\ Closed(s, "detail") /\ Goto(s, "save")
        /\ UNCHANGED <<at, items, tabFaults>>
     \/ /\ IF list[s].jobs[at[s]] \in Poison THEN UNCHANGED faults ELSE BrowserFails
        /\ CloseDetail(s) /\ DetailIsNull(s)
        /\ UNCHANGED <<items, tabFaults>>
     \/ /\ BrowserFails
        /\ TabFault(s) /\ Yields(s, 0) /\ Goto(s, "return")
        /\ UNCHANGED <<at, tabs>>
  /\ UNCHANGED <<proc, browser, database, turn, url, list, orphans>>

(* getJobInPage: saveJob, whose result nobody reads, the delay, items.push.*)
SaveJob(s) ==
  /\ pc[s] = "save"
  /\ \/ /\ store' = store \union {list[s].jobs[at[s]]}
        /\ UNCHANGED <<refused, faults>>
     \/ /\ Fault
        /\ refused' = refused \union {list[s].jobs[at[s]]}
        /\ UNCHANGED store
  /\ at' = [at EXCEPT ![s] = @ + 1]
  /\ Yields(s, items[s] + 1)
  /\ Goto(s, "loop")
  /\ UNCHANGED <<proc, browser, cursor, turn, url, list, tabs, orphans, tabFaults>>

(* getNextPage(page) || first URL, and the first URL always.               *)
FirstAgain(s) == First[s]
NextCursor(s) == Ledger!PageAfter(s, list[s])

(* getJobInPage: after the last job, saveConfig, whose failure is ignored. *)
SaveConfig(s) ==
  /\ pc[s] = "loop"
  /\ ~MoreJobs(s)
  /\ \/ cursor' = [cursor EXCEPT ![s] = NextCursor(s)] /\ UNCHANGED faults
     \/ UNCHANGED cursor /\ Fault
  /\ Goto(s, "return")
  /\ UNCHANGED <<proc, browser, store, refused, turn, url, list, at, items,
                 tabs, orphans, tabFaults>>

(* page: close the list tab unless it is closed already; a failure is      *)
(* caught and yields no items.  Tabs still open now are nobody's.          *)
ReturnItems(s) ==
  /\ pc[s] = "return"
  /\ \/ /\ IF "list" \in tabs[s] THEN BrowserWorks ELSE UNCHANGED faults
        /\ EndPage(s, items[s])
        /\ orphans' = [orphans EXCEPT ![s] = @ + Cardinality(tabs[s] \ {"list"})]
        /\ UNCHANGED tabFaults
     \/ /\ IF "list" \in tabs[s] THEN Fault ELSE browser = "dead" /\ UNCHANGED faults
        /\ EndPage(s, 0)
        /\ orphans' = [orphans EXCEPT ![s] = @ + Cardinality(tabs[s])]
        /\ TabFault(s)
  /\ tabs' = [tabs EXCEPT ![s] = {}]
  /\ UNCHANGED <<proc, browser, database, url, list, at, items>>
----------------------------------------------------------------------------
Task(s) ==
  /\ s \notin hung
  /\ UNCHANGED hung
  /\ \/ ReadCursor(s) \/ CreatePage(s) \/ LoadList(s) \/ CloseList(s)
     \/ OpenDetail(s) \/ LoadDetail(s) \/ SaveJob(s) \/ SaveConfig(s)
     \/ ReturnItems(s)

Next ==
  \/ LaunchRun \/ ExitRun \/ Crash \/ BrowserDies
  \/ \E s \in Sites : Task(s) \/ Hang(s)

(* An await settles unless it hangs, which Hang says of it; so a task that *)
(* does not hang moves on.  The close of the browser kills it and settles, *)
(* and pm2 restarts the process.  No failure, nor a crash that would end a *)
(* hung run, is ever owed.                                                 *)
Fairness ==
  /\ WF_vars(LaunchRun)
  /\ WF_vars(ExitRun)
  /\ \A s \in Sites : WF_vars(Task(s))

Spec == Init /\ [][Next]_vars
FairSpec == Spec /\ Fairness
----------------------------------------------------------------------------
(* A cursor moves only when every job the task listed has been handled:    *)
(* scapeDetail's early return, a caught error, a crash or a restart never  *)
(* lets saveConfig skip a job (getJobInPage, careerlink.ts 120-136).       *)
Handled(s) == Ledger!JobsOn(list[s]) \subseteq store \union refused
CursorWaitsForJobs ==
  [][\A s \in Sites : cursor'[s] # cursor[s] => Handled(s)]_vars

(* The crawl of one page is one step of progress of the ledger: the cursor *)
(* follows the page it held, or the first page, and nothing else moves it. *)
KeepsLedger == Ledger!Spec

(* What Crawl.page returns decides whether getJobs goes on: items counts   *)
(* only jobs handled since the page was loaded, never one of an old page.  *)
ItemsAreHandled ==
  \A s \in Sites : pc[s] \in {"loop", "detail", "save", "return"} =>
    /\ items[s] <= Len(list[s].jobs)
    /\ \A i \in 1..items[s] : list[s].jobs[i] \in store \union refused

(* Nine tasks share one browser: each holds at most one tab at a time (the *)
(* list tab is closed before details are opened).                          *)
OneTabPerTask == \A s \in Sites : Cardinality(tabs[s]) <= 1

(* A tab is abandoned only by a failed close or a half-made page: a failed *)
(* list, a failed detail or an early return leaks nothing.                 *)
NoSilentLeak == \A s \in Sites : orphans[s] <= tabFaults[s]

(* Every run of job1 ends, or is held up for good by awaits that hang, and *)
(* then by nothing else: whatever fails no task loops for ever, none waits *)
(* for another one, and all that do not hang are done (Promise.all).       *)
HeldUp == hung # {} /\ \A s \in Sites \ hung : pc[s] = "done"
RunEnds == (proc = "up") ~> (proc = "down" \/ HeldUp)

(* A job is hidden when no page shows it before a poisoned one: the early  *)
(* return of getJobInPage (line 123) then ends every pass in front of it,  *)
(* so that saveJob never sees it, in no run and after no restart.          *)
PoisonUpTo(jobs, i) == \E k \in 1..i : jobs[k] \in Poison
Hidden ==
  {j \in Jobs : \A s \in Sites, p \in Pages : \A l \in Shown[s][p] :
     \A i \in DOMAIN l.jobs : l.jobs[i] = j => PoisonUpTo(l.jobs, i)}
NothingBehindPoison == (store \union refused) \cap Hidden = {}

(* The jobs that some page shows.                                          *)
AllListed == UNION {Ledger!JobsOn(l) : l \in UNION {Shown[s][p] : s \in Sites, p \in Pages}}
============================================================================
