----------------------------- MODULE JobSearch -----------------------------
(***************************************************************************)
(* JobsController.query of the backend, asked for one page of ten jobs     *)
(* after another by a visitor of the list, over the jobs collection that   *)
(* the crawlers write meanwhile.  A request reads the collection three     *)
(* times: count(), then paginate(), which counts again and, if that is not *)
(* zero, sorts and takes its page.  The visitor's list asks for the sort   *)
(* by onlineDate alone, descending; jobs of one date, and those without    *)
(* any, come in any order, and in another one the next time.  Jobs of      *)
(* another site's API are then put between the page's own.                 *)
(*                                                                         *)
(* What a search matches depends on the keyword, the places, the job type  *)
(* and, for those of the last days, on the time of the request.  All that  *)
(* counts here is which jobs it matches, and that a job may come to match  *)
(* or cease to: rewritten by a crawler, or too old by the next request.    *)
(***************************************************************************)
EXTENDS Integers, FiniteSets, SequencesExt

CONSTANTS
  Docs,        (* the jobs the search may match                            *)
  Limit,       (* jobs per page                                            *)
  MaxDate,     (* bound: onlineDate is a day from 1 to MaxDate             *)
  MaxExternal, (* bound: jobs the other site answers with                  *)
  MaxChanges,  (* bound: writes of the crawlers per behaviour              *)
  MaxFaults    (* bound: failures of the other site per behaviour          *)

Absent == -1     (* the date of a job that the search does not match       *)
NoDate == 0      (* the date of a job without onlineDate                   *)
External == "external"
Stub == "stub"   (* an array with nothing but jobFrom                      *)

(* A document of the collection is no job of the other site, nor a stub.   *)
ASSUME SearchAssumption ==
  /\ IsFiniteSet(Docs)
  /\ External \notin Docs /\ Stub \notin Docs
  /\ Limit \in Nat \ {0}
  /\ {MaxDate, MaxExternal, MaxChanges, MaxFaults} \subseteq Nat

VARIABLES
  date,      (* MongoDB: onlineDate of each job that the search matches    *)
  pc,        (* the request: "idle", "count", "recount", "fetch", "inject",*)
             (* "answered"                                                 *)
  page,      (* the page asked for                                         *)
  total,     (* meta.total                                                 *)
  items,     (* the page's own jobs                                        *)
  answer,    (* data, as the visitor gets it                               *)
  changes, faults,
  shown,     (* history: how often each job was on a page of this pass     *)
  touched,   (* history: jobs written since the pass began                 *)
  tied,      (* history: jobs that shared their date meanwhile             *)
  lowered,   (* history: whether a job's date went down, or it ceased to   *)
             (* match, meanwhile                                           *)
  late,      (* history: whether a job was written since the count         *)
  left       (* history: whether one ceased to match since the count       *)

request == <<pc, page, total, items, answer>>
history == <<shown, touched, tied, lowered, late, left>>
vars == <<date, request, changes, faults, history>>

Matching == {d \in Docs : date[d] # Absent}
Tied(dates) == {d \in Docs : \E e \in Docs \ {d} : dates[e] = dates[d] /\ dates[d] # Absent}

TypeOK ==
  /\ date \in [Docs -> Absent..MaxDate]
  /\ pc \in {"idle", "count", "recount", "fetch", "inject", "answered"}
  /\ page \in 1..(Cardinality(Docs) + 1)
  /\ total \in 0..Cardinality(Docs)
  /\ items \in UNION {[1..n -> Docs] : n \in 0..Limit}
  /\ answer \in Seq(Docs \union {External, Stub})
  /\ changes \in 0..MaxChanges
  /\ faults \in 0..MaxFaults
  /\ shown \in [Docs -> Nat]
  /\ touched \subseteq Docs /\ tied \subseteq Docs
  /\ {lowered, late, left} \subseteq BOOLEAN

Init ==
  /\ date \in [Docs -> Absent..MaxDate]
  /\ pc = "idle"
  /\ page = 1
  /\ total = 0
  /\ items = <<>>
  /\ answer = <<>>
  /\ changes = 0
  /\ faults = 0
  /\ shown = [d \in Docs |-> 0]
  /\ touched = {}
  /\ tied = Tied(date)
  /\ lowered = FALSE
  /\ late = FALSE
  /\ left = FALSE
----------------------------------------------------------------------------
Dated(d, t) ==
  /\ changes < MaxChanges
  /\ changes' = changes + 1
  /\ date' = [date EXCEPT ![d] = t]
  /\ lowered' = (lowered \/ t < date[d])
  /\ touched' = touched \union {d}
  /\ tied' = tied \union Tied(date')

(* A crawler saves a job: a new one, or one with another date or text,     *)
(* which may come to match or cease to; without a date in the scrape the   *)
(* stored one stays.                                                       *)
SaveJob(d) ==
  /\ \E t \in Absent..MaxDate \ {date[d]} :
       /\ t = NoDate => date[d] = Absent
       /\ Dated(d, t)
       /\ left' = (left \/ t = Absent)
  /\ late' = TRUE
  /\ UNCHANGED <<request, faults, shown>>

(* appendXDay: a job becomes too old before the request is made, which     *)
(* takes the time of its own once.                                         *)
Age(d) ==
  /\ pc = "count"
  /\ d \in Matching
  /\ Dated(d, Absent)
  /\ UNCHANGED <<request, faults, shown, late, left>>

(* The list's first page is asked for: a pass through the pages begins.    *)
Begin ==
  /\ pc = "idle"
  /\ pc' = "count"
  /\ page' = 1
  /\ shown' = [d \in Docs |-> 0]
  /\ touched' = {}
  /\ tied' = Tied(date)
  /\ lowered' = FALSE
  /\ UNCHANGED <<date, total, items, answer, changes, faults, late, left>>

(* query: the filters, and $query->count().                                *)
Count ==
  /\ pc = "count"
  /\ pc' = "recount"
  /\ total' = Cardinality(Matching)
  /\ late' = FALSE
  /\ left' = FALSE
  /\ UNCHANGED <<date, page, items, answer, changes, faults, shown, touched, tied, lowered>>

(* query: paginate counts by itself, and reads no page of nothing.         *)
Recount ==
  /\ pc = "recount"
  /\ pc' = IF Matching = {} THEN "inject" ELSE "fetch"
  /\ items' = <<>>
  /\ UNCHANGED <<date, page, total, answer, changes, faults, history>>

(* appendSortBy, with onlineDate:desc taken apart: the orders the jobs may *)
(* come back in, descending (or ascending, or of no sort).                 *)
Newest(d, e) == date[d] >= date[e]
Oldest(d, e) == date[d] <= date[e]
Unsorted(d, e) == TRUE
InOrder(d, e) == Newest(d, e)
Orders ==
  {o \in [1..Cardinality(Matching) -> Matching] :
     \A i, j \in DOMAIN o : i < j => o[i] # o[j] /\ InOrder(o[i], o[j])}

(* forPage: skip (a page too many) and limit.                              *)
PageTooFar == page * Limit
Skipped == (page - 1) * Limit
PageEnd == Min({Skipped + Limit, Cardinality(Matching)})

Fetch ==
  /\ pc = "fetch"
  /\ pc' = "inject"
  /\ \E o \in Orders : items' = SubSeq(o, Skipped + 1, PageEnd)
  /\ UNCHANGED <<date, page, total, answer, changes, faults, history>>

(* injectExternalJobs: behind the job at key a job of the other site, or a *)
(* stub when it has none at that key; behind it, or in its place.          *)
Extra(key, n) == <<IF key < n THEN External ELSE Stub>>
InPlaceOf(job, key, random, n) == IF key % random = 0 THEN Extra(key, n) ELSE <<job>>
WithExtra(job, key, random, n) ==
  <<job>> \o IF key % random = 0 THEN Extra(key, n) ELSE <<>>

Inject ==
  /\ pc = "inject"
  /\ \E n \in 0..MaxExternal, random \in [DOMAIN items -> {2, 3}] :
       answer' = FlattenSeq([i \in DOMAIN items |-> WithExtra(items[i], i - 1, random[i], n)])
  /\ shown' = [d \in Docs |-> IF \E i \in DOMAIN items : items[i] = d THEN shown[d] + 1 ELSE shown[d]]
  /\ pc' = "answered"
  /\ UNCHANGED <<date, page, total, items, changes, faults, touched, tied, lowered, late, left>>

(* The other site does not answer: the exception is the request's, and the *)
(* visitor asks for the page again.                                        *)
InjectFails ==
  /\ pc = "inject"
  /\ faults < MaxFaults
  /\ faults' = faults + 1
  /\ pc' = "count"
  /\ UNCHANGED <<date, page, total, items, answer, changes, history>>

(* The list of the frontend: the pages are those of the last answer.       *)
TotalPages == (total + Limit - 1) \div Limit

(* The visitor asks for the page behind, or the pass ends here.            *)
Turn ==
  /\ pc = "answered"
  /\ IF page < TotalPages
       THEN page' = page + 1 /\ pc' = "count"
       ELSE UNCHANGED page /\ pc' = "idle"
  /\ UNCHANGED <<date, total, items, answer, changes, faults, history>>

Next ==
  \/ \E d \in Docs : SaveJob(d) \/ Age(d)
  \/ Begin \/ Count \/ Recount \/ Fetch \/ Inject \/ InjectFails \/ Turn

Spec == Init /\ [][Next]_vars
----------------------------------------------------------------------------
PassEnds == pc = "answered" /\ page >= TotalPages

(* A pass over a collection nobody writes shows every job whose date is    *)
(* its own exactly once, however the jobs that share a date change places  *)
(* from request to request (query, lines 100-105).                         *)
QuietPassShowsOnce ==
  PassEnds /\ touched = {} => \A d \in Matching \ tied : shown[d] = 1

(* What happens meanwhile makes the pass miss a job that is neither        *)
(* written nor tied only if a date went down, if a job ceased to match (a  *)
(* search of the last days loses its oldest jobs as time goes by), or if   *)
(* crawlers wrote between the last request's count and its page (lines 104 *)
(* and 105): jobs that come in ahead of it move it to a later page.        *)
SkippedOnlyIf ==
  PassEnds /\ ~lowered /\ ~late => \A d \in Matching \ (touched \union tied) : shown[d] >= 1

(* A page that the total promises has jobs, whatever comes in between the  *)
(* counts and the page and whatever grows old, unless a job was rewritten  *)
(* so that it ceased to match in that moment: no job is ever deleted (lines*)
(* 104-105).                                                               *)
PromisedPageHasJobs ==
  pc = "answered" /\ page <= TotalPages /\ ~left => items # <<>>

(* The other site's jobs go between the page's own, which keep their order:*)
(* no own job is lost, and a stub stands only behind the jobs for which    *)
(* the other site had none (injectExternalJobs).                           *)
Own(entry) == entry \in Docs
InTheirOrder(place) ==
  /\ \A i, j \in DOMAIN items : i < j => place[i] < place[j]
  /\ \A i \in DOMAIN items : answer[place[i]] = items[i]
  /\ \A k \in DOMAIN answer : Own(answer[k]) => \E i \in DOMAIN items : place[i] = k
OwnJobsKept ==
  pc = "answered" =>
    /\ \E place \in [DOMAIN items -> DOMAIN answer] : InTheirOrder(place)
    /\ \A k \in DOMAIN answer : ~Own(answer[k]) => k > 1 /\ Own(answer[k - 1])
    /\ \A k, l \in DOMAIN answer : answer[k] = Stub /\ answer[l] = External => l < k
============================================================================
