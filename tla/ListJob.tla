------------------------------ MODULE ListJob ------------------------------
(***************************************************************************)
(* The list of jobs in the browser: Modules/ListJob (index.js, reducer.js) *)
(* and the requests it makes (global/utils.js).  A search is a text (the   *)
(* keyword and the address), a filter (time and job type) and a page.  The *)
(* page's URL holds one, the form in the reducer's state holds one, and    *)
(* each request asks for one.                                              *)
(*                                                                         *)
(* Nothing but an effect sends a request.  React (16) commits what an event*)
(* dispatches and runs the effects a moment later, at the latest before it *)
(* handles the next event of the user or renders again.  An answer that    *)
(* comes in that moment dispatches first; what the effects dispatch is     *)
(* then rendered together with it.                                         *)
(***************************************************************************)
EXTENDS Naturals, Sequences

CONSTANTS
  Texts,     (* what a user types; a text, not null                        *)
  Filters,   (* combinations of time and job type                          *)
  MaxPage,   (* pages an answer may count                                  *)
  NoText,    (* the form's null, before it is filled                       *)
  None,      (* no jobs in the list                                        *)
  MaxActs,   (* bound: things a user does                                  *)
  MaxLost    (* bound: requests whose answer never gets to the list         *)

ASSUME ListAssumption ==
  /\ NoText \notin Texts
  /\ MaxPage \in Nat \ {0}
  /\ MaxActs \in Nat
  /\ MaxLost \in Nat

Searches == [text : Texts, filter : Filters, page : 1..MaxPage]
EmptyForm == [text |-> NoText, filter |-> NoText, page |-> 0]

ASSUME NoneAssumption == None \notin Searches

VARIABLES
  mounted,  (* whether the list is the page that is displayed              *)
  entries,  (* the browser's history of list URLs                          *)
  here,     (* the entry that is displayed, or was last                    *)
  form,     (* state.form                                                  *)
  jobs,     (* state.jobs: the search they are the answer to, or None      *)
  pages,    (* state.totalPage                                             *)
  loading,  (* state.isLoading                                             *)
  due,      (* effects to run: to set isLoading, to send a request         *)
  asked,    (* requests under way, for this mount of the list              *)
  body,     (* the headers of the request under way have come, and its     *)
            (* timer is cleared: the answer's body is awaited              *)
  acts,     (* things the user has done                                    *)
  lost,     (* answers that never got to the list                          *)
  unasked   (* history: since the list was opened the user has asked for   *)
            (* something that set no request going                         *)

vars == <<mounted, entries, here, form, jobs, pages, loading, due, asked, body, acts, lost, unasked>>

TypeOK ==
  /\ mounted \in BOOLEAN
  /\ entries \in Seq(Searches) /\ here \in DOMAIN entries
  /\ IF mounted THEN form \in Searches ELSE form = EmptyForm
  /\ jobs \in Searches \union {None}
  /\ pages \in 0..MaxPage
  /\ loading \in BOOLEAN
  /\ due \in [fetch : BOOLEAN, ask : BOOLEAN]
  /\ asked \in Seq(Searches)
  /\ body \in BOOLEAN
  /\ acts \in 0..MaxActs
  /\ lost \in 0..MaxLost
  /\ unasked \in BOOLEAN

url == entries[here]
NothingDue == [fetch |-> FALSE, ask |-> FALSE]

(* The list is opened from outside with some search in its URL.            *)
Init ==
  /\ mounted = FALSE
  /\ \E u \in Searches : entries = <<u>>
  /\ here = 1
  /\ form = EmptyForm
  /\ jobs = None
  /\ pages = 0
  /\ loading = FALSE
  /\ due = NothingDue
  /\ asked = <<>>
  /\ body = FALSE
  /\ acts = 0
  /\ lost = 0
  /\ unasked = FALSE
----------------------------------------------------------------------------
Typed(f) == f.text # NoText

(* The effect that sets isLoading: its dependencies are the page and the   *)
(* filter, not the text.                                                   *)
Changed(f) == f.page # form.page \/ f.filter # form.filter

(* The effect that sends the request: its dependency is isLoading.  With   *)
(* no list of dependencies it would send one whenever isLoading is set;    *)
(* OnlyIfEmpty does not load over jobs that are shown.                     *)
WheneverOn(on) == on
OnlyIfEmpty(on) == on /\ ~loading /\ jobs = None
SwitchedOn(on) == on /\ ~loading

(* An event leaves the form f and isLoading on.                            *)
Commit(f, on) ==
  /\ form' = f
  /\ loading' = on
  /\ due' = [fetch |-> Typed(f) /\ Changed(f), ask |-> SwitchedOn(on)]

Push(u) ==
  /\ entries' = Append(SubSeq(entries, 1, here), u)
  /\ here' = here + 1

(* The user acts; React has run all effects by then.                       *)
Act == due = NothingDue /\ acts < MaxActs /\ acts' = acts + 1

(* What the user asks for sets a request going: an effect that will send   *)
(* it, or that switches isLoading on and thereby makes another send it.    *)
Asking == unasked' = (unasked \/ ~(due'.ask \/ (due'.fetch /\ ~loading)))
----------------------------------------------------------------------------
(* The list is mounted: initData fills the form from the URL.              *)
Open ==
  /\ ~mounted
  /\ mounted' = TRUE
  /\ Commit(url, FALSE)
  /\ UNCHANGED <<entries, here, jobs, pages, asked, body, acts, lost, unasked>>

(* The effects of the last render run; the request is made for its form.   *)
Effects ==
  /\ due # NothingDue
  /\ asked' = IF due.ask THEN Append(asked, form) ELSE asked
  /\ IF due.fetch THEN Commit(form, TRUE)
                  ELSE due' = NothingDue /\ UNCHANGED <<form, loading>>
  /\ UNCHANGED <<mounted, entries, here, jobs, pages, body, acts, lost, unasked>>

(* The user leaves for another page: home, a job, or what was before the   *)
(* first entry.  What was on its way finds nothing to change any more.     *)
Leave ==
  /\ mounted /\ Act
  /\ mounted' = FALSE
  /\ form' = EmptyForm
  /\ jobs' = None
  /\ pages' = 0
  /\ loading' = FALSE
  /\ asked' = <<>>
  /\ body' = FALSE
  /\ unasked' = FALSE
  /\ due' = NothingDue
  /\ entries' = SubSeq(entries, 1, here) \/ (here = 1 /\ entries' = entries)
  /\ UNCHANGED <<here, lost>>

(* onChangeKeyword, onChangeAddress.                                       *)
Type(t) ==
  /\ mounted /\ Act
  /\ Commit([form EXCEPT !.text = t], loading)
  /\ UNCHANGED <<mounted, entries, here, jobs, pages, asked, body, lost, unasked>>

(* onPressSubmit: to the first page, or to a new request.                  *)
Submit ==
  /\ mounted /\ Act
  /\ IF form.page # 1
       THEN Commit([form EXCEPT !.page = 1], loading) /\ jobs' = None
       ELSE Commit(form, TRUE) /\ UNCHANGED jobs
  /\ Push([form EXCEPT !.page = 1])
  /\ Asking
  /\ UNCHANGED <<mounted, pages, asked, body, lost>>

(* onFilter: the form keeps its page, the URL gets the first one.          *)
Filter(c) ==
  /\ mounted /\ Act
  /\ Commit([form EXCEPT !.filter = c], loading)
  /\ Push([form EXCEPT !.filter = c, !.page = 1])
  /\ Asking
  /\ UNCHANGED <<mounted, jobs, pages, asked, body, lost>>

(* loadMore, from the pagination, which an empty list does not have.       *)
LoadMore(p) ==
  /\ mounted /\ Act
  /\ p <= pages /\ p # form.page
  /\ loading \/ jobs # None
  /\ Commit([form EXCEPT !.page = p], loading)
  /\ jobs' = None
  /\ Push([form EXCEPT !.page = p])
  /\ Asking
  /\ UNCHANGED <<mounted, pages, asked, body, lost>>

(* The browser's back and forward buttons: initData again.                 *)
Go(i) ==
  /\ mounted /\ Act
  /\ i # here
  /\ here' = i
  /\ Commit(entries[i], loading)
  /\ Asking
  /\ UNCHANGED <<mounted, entries, jobs, pages, asked, body, lost>>

(* LOAD_COMPLETE sets the form's page to the one that was asked for; not   *)
(* to the form's own or to the one that follows.                           *)
KeepPage(r) == form
FollowingPage(r) == [form EXCEPT !.page = (r.page % MaxPage) + 1]
Completed(r) == [form EXCEPT !.page = r.page]

(* The request under way ends with these jobs; none stands for an answer   *)
(* without jobs and for no answer.  LOAD_COMPLETE switches isLoading off,  *)
(* and effects that are due by now switch it on again.                     *)
Finish(found, n) ==
  /\ asked # <<>>
  /\ jobs' = found /\ pages' = n
  /\ asked' = IF due.ask THEN Append(Tail(asked), form) ELSE Tail(asked)
  /\ body' = FALSE
  /\ Commit(Completed(Head(asked)), due.fetch)
  /\ UNCHANGED <<mounted, entries, here, acts, lost, unasked>>

(* requestApi: the headers come in time, and with them the end of the      *)
(* timer; or there is an error, an error status, or the timer's abort.     *)
Headers ==
  /\ asked # <<>> /\ ~body
  /\ body' = TRUE
  /\ UNCHANGED <<mounted, entries, here, form, jobs, pages, loading, due, asked, acts, lost, unasked>>

NoAnswer == ~body /\ Finish(None, 0)

(* The answer's body comes, with jobs or without (a page behind the last of*)
(* the total it counts, too), or breaks off.                               *)
Answer ==
  body /\ \E n \in 0..MaxPage : Finish(None, n) \/ (n # 0 /\ Finish(Head(asked), n))

(* The answer has a job that loadCompletedAction cannot convert (an amount *)
(* without a currency), and getListJobs throws.  AnswerCaught is as if the *)
(* page handled that error.                                                *)
AnswerCaught ==
  /\ asked # <<>> /\ body
  /\ lost < MaxLost /\ lost' = lost + 1
  /\ asked' = Tail(asked) /\ body' = FALSE
  /\ Commit(form, FALSE)
  /\ UNCHANGED <<mounted, entries, here, jobs, pages, acts, unasked>>

AnswerLost ==
  /\ asked # <<>> /\ body
  /\ lost < MaxLost /\ lost' = lost + 1
  /\ asked' = Tail(asked) /\ body' = FALSE
  /\ UNCHANGED <<mounted, entries, here, form, jobs, pages, loading, due, acts, unasked>>

User ==
  \/ Leave \/ Submit
  \/ \E t \in Texts : Type(t)
  \/ \E c \in Filters : Filter(c)
  \/ \E p \in 1..MaxPage : LoadMore(p)
  \/ \E i \in DOMAIN entries : Go(i)

Next == Open \/ Effects \/ User \/ Headers \/ NoAnswer \/ Answer \/ AnswerLost

(* React runs the effects, and the timer sees to it that a request gets    *)
(* its headers or ends; nothing does so for the body.  The user need not   *)
(* do anything, nor come back.                                             *)
Fairness == WF_vars(Effects) /\ WF_vars(Headers \/ NoAnswer)

Spec == Init /\ [][Next]_vars
FairSpec == Spec /\ Fairness
----------------------------------------------------------------------------
(* The list is loading and no answer will end that.                        *)
Stuck == loading /\ asked = <<>> /\ ~due.ask

(* isLoading stands for at most one request under way, and no request is   *)
(* under way without it, however events and effects follow each other: two *)
(* could be answered out of order (index.js 86-99).                        *)
OneRequest == Len(asked) <= 1 /\ (asked # <<>> => loading /\ ~due.ask)

(* The page number on display is that of the jobs on display, though it is *)
(* changed by the user, by the URL and by late answers (reducer.js 42-59). *)
AtRest == mounted /\ ~loading /\ due = NothingDue
PageIsShown == AtRest /\ jobs # None => jobs.page = form.page

(* As long as each search of the user set a request going, a list at rest  *)
(* is the answer to the text and filter in the URL, whatever is typed      *)
(* meanwhile (index.js 128-142, 152-160).                                  *)
AskedSearchIsShown ==
  AtRest /\ ~unasked /\ jobs # None => jobs.text = url.text /\ jobs.filter = url.filter

(* The list gets stuck only by an answer that is lost, or by one that      *)
(* comes just after the user has changed page or filter: the effect of the *)
(* change switches isLoading on in the same render as the answer switches  *)
(* it off, and the effect that sends requests sees no change (index.js     *)
(* 86-99).                                                                 *)
StuckOnlyIf == [][Stuck' /\ ~Stuck => lost' # lost \/ (due.fetch /\ loading)]_vars

(* Once stuck it stays so until the user leaves the page, whatever else he *)
(* does: no search of his sends a request (index.js 93-99).                *)
StuckUntilLeft == [][Stuck /\ mounted' => Stuck']_vars

(* When the user rests, so does the list: an answer that sets the page     *)
(* back starts one more request, but no chain of them.  It may wait for    *)
(* the body of an answer for ever (utils.js 63-65, 101-103).               *)
Settles == <>[](~loading \/ Stuck \/ body)
============================================================================
