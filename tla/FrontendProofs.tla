--------------------------- MODULE FrontendProofs ----------------------------
(***************************************************************************)
(* What the frontend keeps: ListJob, for any texts, filters, pages and     *)
(* bounds; and, in the second part, the recent searches that the list and  *)
(* the home page write, for any tabs and searches.                         *)
(***************************************************************************)
EXTENDS ListJob, Recents, SequenceTheorems, TLAPS

(* The state goes when the user leaves, and requests with it.              *)
GoneInv ==
  ~mounted => /\ jobs = None /\ ~loading /\ ~unasked
              /\ due = NothingDue /\ asked = <<>>

(* isLoading is on for a request under way or one about to be sent.        *)
AskInv == due.ask => loading /\ asked = <<>>

(* Until an effect is due, what is shown has the form's page.              *)
PageInv == mounted /\ ~loading /\ ~due.fetch /\ jobs # None => jobs.page = form.page

(* The filter in the form is the one in the URL.                           *)
FilterInv == mounted => form.filter = url.filter

(* As long as every search set a request going: effects are due only while *)
(* the form is as the search left it, the request under way asks for the   *)
(* URL's text and filter and the form's page, and so did the one whose     *)
(* answer is shown.                                                        *)
SearchInv ==
  mounted /\ ~unasked =>
    /\ due.fetch => ~loading
    /\ due # NothingDue => form.text = url.text
    /\ asked # <<>> => /\ asked[1].text = url.text
                       /\ asked[1].filter = url.filter
                       /\ asked[1].page = form.page
    /\ ~loading /\ ~due.fetch /\ jobs # None => jobs.text = url.text /\ jobs.filter = url.filter

IInv ==
  /\ TypeOK
  /\ OneRequest
  /\ GoneInv
  /\ AskInv
  /\ PageInv
  /\ FilterInv
  /\ SearchInv
----------------------------------------------------------------------------
(* A push makes the new entry the one that is displayed.                   *)
LEMMA Pushed ==
  ASSUME TypeOK, NEW u \in Searches, Push(u)
  PROVE  /\ entries' \in Seq(Searches)
         /\ here' \in DOMAIN entries'
         /\ url' = u
<1> DEFINE left == SubSeq(entries, 1, here)
<1>1. left \in Seq(Searches) /\ Len(left) = here /\ here \in Nat
  BY DEF TypeOK
<1> HIDE DEF left
<1>2. entries' = Append(left, u) /\ here' = here + 1
  BY DEF Push, left
<1>3. Len(Append(left, u)) = here + 1 /\ Append(left, u)[here + 1] = u
  BY <1>1
<1> QED BY <1>1, <1>2, <1>3 DEF url

(* There is but one request under way, and it is for some search.          *)
LEMMA TheRequest ==
  ASSUME TypeOK, OneRequest, asked # <<>>
  PROVE  /\ loading /\ ~due.ask
         /\ Head(asked) = asked[1] /\ asked[1] \in Searches
         /\ Tail(asked) = <<>>
  BY DEF TypeOK, OneRequest

LEMMA UrlTyped == TypeOK => url \in Searches
  BY DEF TypeOK, url

LEMMA InitInv == Init => IInv
<1> SUFFICES ASSUME Init PROVE IInv
  OBVIOUS
<1>1. PICK u \in Searches : entries = <<u>>
  BY DEF Init
<1>2. TypeOK
  <2>1. entries \in Seq(Searches) /\ here \in DOMAIN entries
    BY <1>1 DEF Init
  <2>2. asked \in Seq(Searches) /\ due \in [fetch : BOOLEAN, ask : BOOLEAN]
    BY DEF Init, NothingDue
  <2>3. pages \in 0..MaxPage /\ acts \in 0..MaxActs /\ lost \in 0..MaxLost
    BY ListAssumption DEF Init
  <2> QED BY <2>1, <2>2, <2>3 DEF Init, TypeOK
<1> QED BY <1>2 DEF Init, IInv, OneRequest, GoneInv, AskInv, PageInv, FilterInv, SearchInv, NothingDue

(* What the user changes in the form or switches on while the list is      *)
(* displayed, and what becomes due by it.                                  *)
LEMMA Acted ==
  ASSUME IInv, Act, NEW f \in Searches, NEW on \in BOOLEAN, Commit(f, on), loading => on
  PROVE  /\ acts' \in 0..MaxActs
         /\ form' = f /\ loading' = on
         /\ due' \in [fetch : BOOLEAN, ask : BOOLEAN]
         /\ due'.fetch <=> f.page # form.page \/ f.filter # form.filter
         /\ due'.ask <=> on /\ ~loading
         /\ due = NothingDue
<1>1. acts' \in 0..MaxActs
  BY ListAssumption DEF Act, IInv, TypeOK
<1>2. Typed(f)
  BY ListAssumption DEF Typed, Searches
<1> QED BY <1>1, <1>2 DEF Commit, Changed, SwitchedOn, Act, IInv, TypeOK

LEMMA OpenKeeps ==
  ASSUME IInv, Open
  PROVE  IInv'
<1>1. url \in Searches /\ Typed(url)
  BY UrlTyped, ListAssumption DEF IInv, Searches, Typed
<1>2. /\ form' = url /\ ~loading' /\ due'.ask = FALSE
      /\ due' \in [fetch : BOOLEAN, ask : BOOLEAN] /\ mounted' /\ url' = url
  BY DEF Open, Commit, SwitchedOn, Changed, Typed, url
<1>3. asked = <<>> /\ jobs = None /\ UNCHANGED <<entries, here, jobs, pages, asked, body, acts, lost, unasked>>
  BY DEF Open, IInv, GoneInv
<1>4. TypeOK'
  <2>1. entries' \in Seq(Searches) /\ here' \in DOMAIN entries' /\ asked' \in Seq(Searches)
    BY <1>3 DEF IInv, TypeOK
  <2>2. mounted' \in BOOLEAN /\ loading' \in BOOLEAN
    BY DEF Open, Commit
  <2> QED BY <1>1, <1>2, <1>3, <2>1, <2>2 DEF IInv, TypeOK
<1> QED BY <1>2, <1>3, <1>4 DEF IInv, OneRequest, GoneInv, AskInv, PageInv, FilterInv, SearchInv

LEMMA EffectsKeep ==
  ASSUME IInv, Effects
  PROVE  IInv'
<1>1. mounted /\ form \in Searches /\ Typed(form)
  BY ListAssumption DEF Effects, IInv, GoneInv, TypeOK, Searches, Typed
<1>2. /\ UNCHANGED <<mounted, entries, here, jobs, pages, body, acts, lost, unasked, form>>
      /\ url' = url
  BY DEF Effects, Commit, url
<1>3. /\ loading' \in BOOLEAN /\ (loading' <=> due.fetch \/ loading)
      /\ due' \in [fetch : BOOLEAN, ask : BOOLEAN]
      /\ ~due'.fetch
      /\ due'.ask <=> due.fetch /\ ~loading
  <2>1. CASE due.fetch
    <3>1. Commit(form, TRUE)
      BY <2>1 DEF Effects
    <3>2. loading' \in BOOLEAN /\ loading'
      BY <3>1 DEF Commit
    <3>3. due' \in [fetch : BOOLEAN, ask : BOOLEAN] /\ ~due'.fetch /\ (due'.ask <=> ~loading)
      BY <3>1 DEF Commit, Changed, SwitchedOn
    <3> QED BY <2>1, <3>2, <3>3
  <2>2. CASE ~due.fetch
    <3>1. due' = NothingDue /\ loading' = loading /\ loading \in BOOLEAN
      BY <2>2 DEF Effects, IInv, TypeOK
    <3>2. due' \in [fetch : BOOLEAN, ask : BOOLEAN] /\ ~due'.fetch /\ ~due'.ask
      BY <3>1 DEF NothingDue
    <3> QED BY <2>2, <3>1, <3>2
  <2> QED BY <2>1, <2>2
<1>4. /\ due.ask => asked = <<>> /\ asked' = <<form>> /\ loading
      /\ ~due.ask => asked' = asked
  <2>1. Append(<<>>, form) = <<form>>
    OBVIOUS
  <2> QED BY <2>1 DEF Effects, IInv, AskInv
<1>one. <<form>> \in Seq(Searches) /\ Len(<<form>>) = 1 /\ <<form>>[1] = form
  BY <1>1
<1>5. due \in [fetch : BOOLEAN, ask : BOOLEAN] /\ (due.fetch \/ due.ask)
  BY DEF Effects, IInv, TypeOK, NothingDue
<1>6. TypeOK'
  <2>1. entries' \in Seq(Searches) /\ here' \in DOMAIN entries'
    BY <1>2 DEF IInv, TypeOK
  <2>2. asked' \in Seq(Searches)
    BY <1>one, <1>4 DEF IInv, TypeOK
  <2> QED BY <1>1, <1>2, <1>3, <2>1, <2>2 DEF IInv, TypeOK
<1>7. OneRequest' /\ GoneInv' /\ AskInv'
  <2>1. CASE due.ask
    <3>1. Len(asked') = 1 /\ loading' /\ ~due'.ask
      BY <2>1, <1>one, <1>3, <1>4
    <3> QED BY <3>1, <1>1, <1>2 DEF OneRequest, GoneInv, AskInv
  <2>2. CASE ~due.ask
    <3>1. asked' = asked /\ loading' /\ due.fetch
      BY <2>2, <1>3, <1>4, <1>5
    <3> QED BY <3>1, <1>1, <1>2, <1>3 DEF IInv, OneRequest, GoneInv, AskInv
  <2> QED BY <2>1, <2>2
<1>8. PageInv' /\ FilterInv'
  BY <1>1, <1>2, <1>3, <1>5 DEF IInv, PageInv, FilterInv, AskInv
<1>9. SearchInv'
  BY <1>1, <1>2, <1>3, <1>4, <1>5 DEF IInv, SearchInv, FilterInv, OneRequest, NothingDue
<1> QED BY <1>6, <1>7, <1>8, <1>9 DEF IInv

LEMMA LeaveKeeps ==
  ASSUME IInv, Leave
  PROVE  IInv'
<1>1. entries' \in Seq(Searches) /\ here' \in DOMAIN entries'
  <2>1. CASE entries' = entries
    BY <2>1 DEF Leave, IInv, TypeOK
  <2>2. CASE entries' = SubSeq(entries, 1, here)
    <3>1. entries' \in Seq(Searches) /\ Len(entries') = here /\ here \in 1..here
      BY <2>2 DEF IInv, TypeOK
    <3> QED BY <3>1 DEF Leave
  <2> QED BY <2>1, <2>2 DEF Leave
<1>2. acts' \in 0..MaxActs
  BY ListAssumption DEF Leave, Act, IInv, TypeOK
<1>3. TypeOK'
  <2>1. asked' \in Seq(Searches) /\ due' \in [fetch : BOOLEAN, ask : BOOLEAN]
    BY DEF Leave, NothingDue
  <2>3. body' \in BOOLEAN
    BY DEF Leave
  <2>2. pages' \in 0..MaxPage /\ lost' \in 0..MaxLost
    BY ListAssumption DEF Leave, IInv, TypeOK
  <2> QED BY <1>1, <1>2, <2>1, <2>2, <2>3 DEF Leave, TypeOK
<1> QED BY <1>3 DEF Leave, IInv, OneRequest, GoneInv, AskInv, PageInv, FilterInv, SearchInv, NothingDue

(* What holds after any of the user's acts on the list.                    *)
LEMMA ActKeeps ==
  ASSUME IInv, Act, mounted, NEW f \in Searches, NEW on \in BOOLEAN, Commit(f, on), loading => on,
         entries' \in Seq(Searches), here' \in DOMAIN entries', jobs' \in {jobs, None},
         unasked' \in BOOLEAN, UNCHANGED <<mounted, pages, asked, body, lost>>
  PROVE  TypeOK' /\ OneRequest' /\ GoneInv' /\ AskInv'
<1>1. /\ acts' \in 0..MaxActs /\ form' = f /\ loading' = on
      /\ due' \in [fetch : BOOLEAN, ask : BOOLEAN]
      /\ due'.ask <=> on /\ ~loading
  BY Acted
<1>2. mounted' /\ pages' = pages /\ asked' = asked /\ body' = body /\ lost' = lost
  OBVIOUS
<1>3. TypeOK'
  BY <1>1, <1>2 DEF IInv, TypeOK
<1>4. OneRequest' /\ GoneInv' /\ AskInv'
  BY <1>1, <1>2 DEF IInv, OneRequest, GoneInv, AskInv
<1> QED BY <1>3, <1>4

LEMMA Asked ==
  ASSUME Asking
  PROVE  /\ unasked' \in BOOLEAN
         /\ unasked' <=> unasked \/ ~(due'.ask \/ (due'.fetch /\ ~loading))
<1> DEFINE p == unasked \/ ~(due'.ask \/ (due'.fetch /\ ~loading))
<1>1. unasked' = p
  BY Zenon DEF Asking
<1>2. p \in BOOLEAN
  BY Zenon
<1> QED BY <1>1, <1>2, Zenon

LEMMA FormTyped == IInv /\ mounted => form \in Searches
  BY DEF IInv, TypeOK

LEMMA TypeKeeps ==
  ASSUME IInv, NEW t \in Texts, Type(t)
  PROVE  IInv'
<1> DEFINE f == [form EXCEPT !.text = t]
<1>1. f \in Searches /\ f.page = form.page /\ f.filter = form.filter /\ mounted /\ loading \in BOOLEAN
  BY FormTyped DEF Type, Searches, IInv, TypeOK
<1>2. /\ Commit(f, loading) /\ Act
      /\ UNCHANGED <<mounted, entries, here, jobs, pages, asked, body, lost, unasked>> /\ url' = url
  BY DEF Type, url
<1> HIDE DEF f
<1>3. /\ form' = f /\ loading' = loading /\ ~due'.fetch /\ ~due'.ask /\ due = NothingDue
      /\ due' \in [fetch : BOOLEAN, ask : BOOLEAN]
  BY <1>1, <1>2, Acted
<1>4. TypeOK' /\ OneRequest' /\ GoneInv' /\ AskInv'
  <2>1. entries' \in Seq(Searches) /\ here' \in DOMAIN entries' /\ unasked' \in BOOLEAN
    BY <1>2 DEF IInv, TypeOK
  <2> QED BY <2>1, <1>1, <1>2, ActKeeps
<1>5. PageInv' /\ FilterInv'
  BY <1>1, <1>2, <1>3 DEF IInv, PageInv, FilterInv, NothingDue
<1>6. SearchInv'
  <2>1. due' = NothingDue
    BY <1>3 DEF NothingDue
  <2> QED BY <2>1, <1>1, <1>2, <1>3 DEF IInv, SearchInv, NothingDue
<1> QED BY <1>4, <1>5, <1>6 DEF IInv

(* An act that asks for a search: the form and the URL agree on text and   *)
(* filter afterwards, and so does what is still shown unless it goes.      *)
LEMMA AskKeeps ==
  ASSUME IInv, Act, mounted, NEW f \in Searches, NEW on \in BOOLEAN, Commit(f, on), loading => on,
         entries' \in Seq(Searches), here' \in DOMAIN entries', jobs' \in {jobs, None},
         Asking, UNCHANGED <<mounted, pages, asked, body, lost>>,
         url'.text = f.text, url'.filter = f.filter,
         on => loading \/ (f.page = form.page /\ f.filter = form.filter)
  PROVE  IInv'
<1>1. /\ form' = f /\ loading' = on
      /\ due' \in [fetch : BOOLEAN, ask : BOOLEAN]
      /\ due'.fetch <=> f.page # form.page \/ f.filter # form.filter
      /\ due'.ask <=> on /\ ~loading
      /\ due = NothingDue
  BY Acted
<1>2. /\ unasked' \in BOOLEAN
      /\ unasked' <=> unasked \/ ~(due'.ask \/ (due'.fetch /\ ~loading))
  BY Asked
<1>3. TypeOK' /\ OneRequest' /\ GoneInv' /\ AskInv'
  BY <1>2, ActKeeps
<1>4. PageInv' /\ FilterInv'
  BY <1>1 DEF IInv, PageInv, FilterInv, NothingDue
<1>5. SearchInv'
  <2> SUFFICES ASSUME ~unasked' PROVE SearchInv'
    BY DEF SearchInv
  <2>1. ~loading /\ asked' = <<>> /\ (due'.ask \/ due'.fetch)
    BY <1>1, <1>2 DEF IInv, OneRequest
  <2>2. due'.fetch => ~loading'
    BY <1>1, <2>1
  <2> QED BY <1>1, <2>1, <2>2 DEF SearchInv
<1> QED BY <1>3, <1>4, <1>5 DEF IInv

LEMMA SubmitKeeps ==
  ASSUME IInv, Submit
  PROVE  IInv'
<1> DEFINE f == [form EXCEPT !.page = 1]
<1>1. form \in Searches /\ f \in Searches /\ f.page = 1 /\ mounted /\ loading \in BOOLEAN
  <2>1. form \in Searches /\ mounted /\ loading \in BOOLEAN
    BY FormTyped DEF Submit, IInv, TypeOK
  <2>2. 1 \in 1..MaxPage
    BY ListAssumption
  <2> QED BY <2>1, <2>2 DEF Searches
<1>2. Act /\ Asking /\ UNCHANGED <<mounted, pages, asked, body, lost>> /\ Push(f)
  BY DEF Submit
<1> HIDE DEF f
<1>3. entries' \in Seq(Searches) /\ here' \in DOMAIN entries' /\ url' = f
  BY <1>1, <1>2, Pushed DEF IInv
<1>4. CASE form.page # 1
  <2>1. Commit(f, loading) /\ jobs' = None
    BY <1>4 DEF Submit, f
  <2> QED BY <1>1, <1>2, <1>3, <2>1, AskKeeps
<1>5. CASE form.page = 1
  <2>1. Commit(form, TRUE) /\ jobs' = jobs
    BY <1>5 DEF Submit
  <2>2. f.text = form.text /\ f.filter = form.filter
    BY <1>1 DEF f, Searches
  <2> QED BY <1>1, <1>2, <1>3, <2>1, <2>2, AskKeeps
<1> QED BY <1>4, <1>5

LEMMA FilterKeeps ==
  ASSUME IInv, NEW c \in Filters, Filter(c)
  PROVE  IInv'
<1> DEFINE f == [form EXCEPT !.filter = c]
           u == [form EXCEPT !.filter = c, !.page = 1]
<1>1. /\ f \in Searches /\ u \in Searches /\ u.text = f.text /\ u.filter = f.filter
      /\ mounted /\ loading \in BOOLEAN
  <2>1. form \in Searches /\ mounted /\ loading \in BOOLEAN
    BY FormTyped DEF Filter, IInv, TypeOK
  <2>2. 1 \in 1..MaxPage
    BY ListAssumption
  <2> QED BY <2>1, <2>2 DEF Searches
<1>2. /\ Act /\ Asking /\ Push(u) /\ Commit(f, loading)
      /\ UNCHANGED <<mounted, jobs, pages, asked, body, lost>>
  BY DEF Filter
<1> HIDE DEF f, u
<1>3. entries' \in Seq(Searches) /\ here' \in DOMAIN entries' /\ url' = u
  BY <1>1, <1>2, Pushed DEF IInv
<1> QED BY <1>1, <1>2, <1>3, AskKeeps

LEMMA LoadMoreKeeps ==
  ASSUME IInv, NEW p \in 1..MaxPage, LoadMore(p)
  PROVE  IInv'
<1> DEFINE f == [form EXCEPT !.page = p]
<1>1. f \in Searches /\ mounted /\ loading \in BOOLEAN
  BY FormTyped DEF LoadMore, Searches, IInv, TypeOK
<1>2. /\ Act /\ Asking /\ Push(f) /\ Commit(f, loading) /\ jobs' = None
      /\ UNCHANGED <<mounted, pages, asked, body, lost>>
  BY DEF LoadMore
<1> HIDE DEF f
<1>3. entries' \in Seq(Searches) /\ here' \in DOMAIN entries' /\ url' = f
  BY <1>1, <1>2, Pushed DEF IInv
<1> QED BY <1>1, <1>2, <1>3, AskKeeps

LEMMA GoKeeps ==
  ASSUME IInv, NEW i \in DOMAIN entries, Go(i)
  PROVE  IInv'
<1>1. entries[i] \in Searches /\ mounted /\ loading \in BOOLEAN
  BY DEF Go, IInv, TypeOK
<1>2. /\ Act /\ Asking /\ Commit(entries[i], loading)
      /\ UNCHANGED <<mounted, jobs, pages, asked, body, lost>>
  BY DEF Go
<1>3. entries' \in Seq(Searches) /\ here' \in DOMAIN entries' /\ url' = entries[i]
  BY DEF Go, IInv, TypeOK, url
<1> QED BY <1>1, <1>2, <1>3, AskKeeps

LEMMA FinishKeeps ==
  ASSUME IInv, NEW found \in {Head(asked), None}, NEW n \in 0..MaxPage, Finish(found, n)
  PROVE  IInv'
<1> DEFINE r == asked[1]
           f == [form EXCEPT !.page = r.page]
<1>1. /\ loading /\ ~due.ask /\ r \in Searches
      /\ Head(asked) = r /\ asked' = <<>>
  BY TheRequest DEF Finish, IInv
<1>2. mounted /\ form \in Searches
  BY <1>1, FormTyped DEF IInv, GoneInv
<1>3. f \in Searches /\ f.text = form.text /\ f.filter = form.filter /\ f.page = r.page
  BY <1>1, <1>2 DEF Searches
<1>4. Commit(f, due.fetch) /\ UNCHANGED <<mounted, entries, here, acts, lost, unasked>>
  BY <1>1 DEF Finish, Completed
<1> HIDE DEF f, r
<1>5. Typed(f) /\ due \in [fetch : BOOLEAN, ask : BOOLEAN]
  BY <1>3, ListAssumption DEF Typed, Searches, IInv, TypeOK
<1>6. /\ form' = f /\ (loading' <=> due.fetch) /\ loading' \in BOOLEAN
  BY <1>4, <1>5 DEF Commit
<1>7. /\ due' \in [fetch : BOOLEAN, ask : BOOLEAN]
      /\ due'.fetch <=> r.page # form.page
      /\ ~due'.ask
  BY <1>1, <1>3, <1>4, <1>5 DEF Commit, Changed, SwitchedOn
<1>8. jobs' \in {r, None} /\ pages' \in 0..MaxPage /\ body' \in BOOLEAN
  BY <1>1 DEF Finish
<1>9. TypeOK'
  <2>1. entries' \in Seq(Searches) /\ here' \in DOMAIN entries' /\ asked' \in Seq(Searches)
    BY <1>1, <1>4 DEF IInv, TypeOK
  <2> QED BY <1>1, <1>2, <1>3, <1>4, <1>6, <1>7, <1>8, <2>1 DEF IInv, TypeOK
<1>10. OneRequest' /\ GoneInv' /\ AskInv'
  BY <1>1, <1>2, <1>4, <1>7 DEF OneRequest, GoneInv, AskInv
<1>11. url' = url
  BY <1>4 DEF url
<1>12. PageInv' /\ FilterInv'
  BY <1>2, <1>3, <1>4, <1>6, <1>8, <1>11 DEF IInv, PageInv, FilterInv
<1>13. SearchInv'
  <2> SUFFICES ASSUME ~unasked PROVE SearchInv'
    BY <1>4 DEF SearchInv
  <2>1. /\ ~due.fetch /\ r.text = url.text /\ r.filter = url.filter /\ r.page = form.page
    BY <1>1, <1>2 DEF Finish, IInv, SearchInv, r
  <2>2. due' = NothingDue /\ ~loading'
    BY <2>1, <1>6, <1>7 DEF NothingDue
  <2> QED BY <1>1, <1>8, <1>11, <2>1, <2>2 DEF SearchInv, NothingDue
<1> QED BY <1>9, <1>10, <1>12, <1>13 DEF IInv

LEMMA HeadersKeep ==
  ASSUME IInv, Headers
  PROVE  IInv'
<1>1. body' \in BOOLEAN
  BY DEF Headers
<1> QED
  BY <1>1 DEF Headers, IInv, TypeOK, OneRequest, GoneInv, AskInv, PageInv, FilterInv, SearchInv, url

LEMMA AnswerKeeps ==
  ASSUME IInv, NoAnswer \/ Answer
  PROVE  IInv'
<1>1. 0 \in 0..MaxPage /\ \A n \in 1..MaxPage : n \in 0..MaxPage
  BY ListAssumption
<1> QED
  BY <1>1, FinishKeeps DEF NoAnswer, Answer

LEMMA AnswerLostKeeps ==
  ASSUME IInv, AnswerLost
  PROVE  IInv'
<1>1. /\ loading /\ ~due.ask /\ asked' = <<>> /\ lost' \in 0..MaxLost
  BY TheRequest, ListAssumption DEF AnswerLost, IInv, TypeOK
<1>2. UNCHANGED <<mounted, entries, here, form, jobs, pages, loading, due, acts, unasked>> /\ url' = url
  BY DEF AnswerLost, url
<1>3. TypeOK'
  <2>1. asked' \in Seq(Searches)
    BY <1>1
  <2>2. body' \in BOOLEAN
    BY DEF AnswerLost
  <2> QED BY <1>1, <1>2, <2>1, <2>2 DEF IInv, TypeOK
<1> QED BY <1>1, <1>2, <1>3 DEF IInv, OneRequest, GoneInv, AskInv, PageInv, FilterInv, SearchInv

LEMMA StutterKeeps ==
  ASSUME IInv, UNCHANGED vars
  PROVE  IInv'
  BY DEF vars, IInv, TypeOK, OneRequest, GoneInv, AskInv, PageInv, FilterInv, SearchInv, url

(* The inductive invariant of the list.                                    *)
THEOREM Invariance == Spec => []IInv
<1>1. IInv /\ [Next]_vars => IInv'
  BY StutterKeeps, OpenKeeps, EffectsKeep, LeaveKeeps, TypeKeeps, SubmitKeeps, FilterKeeps,
     LoadMoreKeeps, GoKeeps, HeadersKeep, AnswerKeeps, AnswerLostKeeps DEF Next, User
<1> QED
  BY <1>1, InitInv, PTL DEF Spec

(* Every variable keeps its type.                                          *)
THEOREM TypeCorrect == Spec => []TypeOK
<1>1. IInv => TypeOK
  BY DEF IInv
<1> QED
  BY <1>1, Invariance, PTL

(* There is never more than one request under way (index.js 86-99).        *)
THEOREM AtMostOneRequest == Spec => []OneRequest
<1>1. IInv => OneRequest
  BY DEF IInv
<1> QED
  BY <1>1, Invariance, PTL

(* The page number on display is that of the jobs on display.              *)
THEOREM PageShown == Spec => []PageIsShown
<1>1. IInv => PageIsShown
  BY DEF IInv, PageInv, PageIsShown, AtRest, NothingDue
<1> QED
  BY <1>1, Invariance, PTL

(* A list at rest answers the text and filter in the URL, as long as each  *)
(* search set a request going.                                             *)
THEOREM SearchShown == Spec => []AskedSearchIsShown
<1>1. IInv => AskedSearchIsShown
  BY DEF IInv, SearchInv, AskedSearchIsShown, AtRest, NothingDue
<1> QED
  BY <1>1, Invariance, PTL

(* Whatever an event leaves, a request is due when isLoading goes on.      *)
LEMMA Committed ==
  ASSUME NEW f, NEW on \in BOOLEAN, Commit(f, on)
  PROVE  (loading' <=> on) /\ (due'.ask <=> on /\ ~loading)
  BY DEF Commit, SwitchedOn

(* The acts of the user on the list, and what they switch on.              *)
LEMMA UserCommits ==
  ASSUME IInv, User
  PROVE  \/ ~loading' /\ ~mounted'
         \/ asked' = asked /\ \E f : \E on \in BOOLEAN : Commit(f, on) /\ (loading => on)
<1>1. loading \in BOOLEAN /\ TRUE \in BOOLEAN
  BY DEF IInv, TypeOK
<1>2. CASE Leave
  BY <1>2 DEF Leave
<1>3. CASE Submit
  BY <1>1, <1>3 DEF Submit
<1>4. CASE ~Leave /\ ~Submit
  BY <1>1, <1>4 DEF User, Type, Filter, LoadMore, Go
<1> QED BY <1>2, <1>3, <1>4

(* Once stuck the list stays so until the user leaves it (index.js 93-99). *)
THEOREM StaysStuck == Spec => StuckUntilLeft
<1>1. ASSUME IInv, [Next]_vars, Stuck, mounted' PROVE Stuck'
  <2>1. loading /\ asked = <<>> /\ ~due.ask /\ mounted
    BY <1>1 DEF Stuck, IInv, GoneInv
  <2>2. CASE UNCHANGED vars
    BY <2>1, <2>2 DEF Stuck, vars
  <2>3. CASE Effects
    <3>1. asked' = <<>>
      BY <2>1, <2>3 DEF Effects
    <3>2. CASE due.fetch
      <4>1. Commit(form, TRUE)
        BY <2>3, <3>2 DEF Effects
      <4>2. loading' /\ ~due'.ask
        BY <4>1, <2>1, Committed
      <4> QED BY <3>1, <4>2 DEF Stuck
    <3>3. CASE ~due.fetch
      <4>1. due' = NothingDue /\ loading' = loading
        BY <2>3, <3>3 DEF Effects
      <4> QED BY <2>1, <3>1, <4>1 DEF NothingDue, Stuck
    <3> QED BY <3>2, <3>3
  <2>4. CASE User
    <3>1. PICK f, on : on \in BOOLEAN /\ Commit(f, on) /\ (loading => on) /\ asked' = asked
      BY <1>1, <2>4, UserCommits
    <3>2. loading' /\ ~due'.ask
      BY <2>1, <3>1, Committed
    <3> QED BY <2>1, <3>1, <3>2 DEF Stuck
  <2>5. CASE Open \/ Headers \/ NoAnswer \/ Answer \/ AnswerLost
    BY <2>1, <2>5 DEF Open, Headers, NoAnswer, Answer, Finish, AnswerLost
  <2> QED BY <1>1, <2>2, <2>3, <2>4, <2>5 DEF Next
<1>2. IInv /\ [Next]_vars => [Stuck /\ mounted' => Stuck']_vars
  BY <1>1
<1> QED
  BY <1>2, Invariance, PTL DEF Spec, StuckUntilLeft

(* It gets stuck only by a lost answer, or by one that comes just after a  *)
(* change of page or filter and before the effect of that change.          *)
THEOREM HowItSticks == Spec => StuckOnlyIf
<1>1. ASSUME IInv, [Next]_vars, ~Stuck, Stuck' PROVE lost' # lost \/ (due.fetch /\ loading)
  <2>1. loading' /\ asked' = <<>> /\ ~due'.ask
    BY <1>1 DEF Stuck
  <2>2. CASE UNCHANGED vars
    BY <1>1, <2>2 DEF Stuck, vars
  <2>3. CASE Effects
    <3>1. ~due.ask
      BY <2>1, <2>3 DEF Effects, IInv, TypeOK
    <3>2. CASE due.fetch
      <4>1. Commit(form, TRUE) /\ asked' = asked
        BY <2>3, <3>1, <3>2 DEF Effects
      <4>2. loading
        BY <4>1, <2>1, Committed
      <4> QED BY <3>2, <4>2
    <3>3. CASE ~due.fetch
      <4>1. loading' = loading /\ asked' = asked
        BY <2>3, <3>1, <3>3 DEF Effects
      <4> QED BY <1>1, <2>1, <3>1, <4>1 DEF Stuck
    <3> QED BY <3>2, <3>3
  <2>4. CASE User
    <3>1. due = NothingDue
      BY <2>4 DEF User, Leave, Submit, Type, Filter, LoadMore, Go, Act
    <3>2. PICK f, on : on \in BOOLEAN /\ Commit(f, on) /\ (loading => on) /\ asked' = asked
      BY <1>1, <2>1, <2>4, UserCommits
    <3>3. loading
      BY <1>1, <2>1, <3>2, Committed DEF Stuck
    <3> QED BY <1>1, <2>1, <3>1, <3>2, <3>3 DEF NothingDue, Stuck
  <2>5. CASE Open
    BY <2>1, <2>5 DEF Open, Commit
  <2>6. CASE NoAnswer \/ Answer
    <3>1. loading /\ Commit(Completed(Head(asked)), due.fetch)
      BY <1>1, <2>6, TheRequest DEF NoAnswer, Answer, Finish, IInv
    <3>2. due.fetch \in BOOLEAN
      BY <1>1 DEF IInv, TypeOK
    <3>3. due.fetch
      BY <2>1, <3>1, <3>2, Committed
    <3> QED BY <3>1, <3>3
  <2>7. CASE AnswerLost
    BY <1>1, <2>7 DEF AnswerLost, IInv, TypeOK
  <2>8. CASE Headers
    BY <1>1, <2>1, <2>8 DEF Headers
  <2> QED BY <1>1, <2>2, <2>3, <2>4, <2>5, <2>6, <2>7, <2>8 DEF Next
<1>2. IInv /\ [Next]_vars => [Stuck' /\ ~Stuck => lost' # lost \/ (due.fetch /\ loading)]_vars
  BY <1>1
<1> QED
  BY <1>2, Invariance, PTL DEF Spec, StuckOnlyIf
----------------------------------------------------------------------------
(* The recent searches are at most three different ones, and one list of   *)
(* all tabs until a tab that another has overtaken makes a search.         *)

(* What is stored, what would be, and every copy.                          *)
Fine(items) == items \in Seq(RecentSearches) /\ Len(items) <= MaxRecents /\ Distinct(items)
RecentsFine == Fine(stored) /\ Fine(made) /\ \A t \in Tabs : Fine(copy[t])

(* A tab that nobody has overtaken has a copy of what is stored.           *)
CopiesInv == \A t \in Tabs : display[t] # "other" /\ t \notin behind => copy[t] = stored

RecentsInv == RecentsTypeOK /\ RecentsFine /\ CopiesInv /\ OneListUntilStale
----------------------------------------------------------------------------
(* Dropping the last search leaves room for one.                           *)
LEMMA DropLeavesRoom ==
  ASSUME NEW items, Fine(items)
  PROVE  /\ Drop(items) \in Seq(RecentSearches)
         /\ Len(Drop(items)) \in 0..2 /\ Len(Drop(items)) <= Len(items)
         /\ \A i \in 1..Len(Drop(items)) : Drop(items)[i] = items[i]
<1>1. items \in Seq(RecentSearches) /\ Len(items) \in Nat /\ Len(items) <= 3
  BY DEF Fine, MaxRecents
<1>2. CASE Len(items) > 2
  <2>1. Drop(items) = SubSeq(items, 1, Len(items) - 1)
    BY <1>2 DEF Drop
  <2>2. Len(items) = 3
    <3>1. \A n \in Nat : n <= 3 /\ n > 2 => n = 3
      OBVIOUS
    <3> QED
      BY <1>1, <1>2, <3>1, Zenon
  <2>3. /\ SubSeq(items, 1, 2) \in Seq(RecentSearches)
        /\ Len(SubSeq(items, 1, 2)) = 2
        /\ \A i \in 1..2 : SubSeq(items, 1, 2)[i] = items[i]
    BY <1>1, <2>2, SubSeqProperties, 1 \in 1..3, 2 \in 0..3
  <2> QED
    BY <2>1, <2>2, <2>3
<1>3. CASE ~(Len(items) > 2)
  <2>1. Drop(items) = items
    BY <1>3 DEF Drop
  <2>2. \A n \in Nat : ~(n > 2) => n \in 0..2 /\ n <= n
    OBVIOUS
  <2>3. Len(items) \in 0..2 /\ Len(items) <= Len(items)
    BY <1>1, <1>3, <2>2, Zenon
  <2> QED
    BY <1>1, <2>1, <2>3, Zenon
<1> QED
  BY <1>2, <1>3

(* addRecents keeps the searches few and different.                        *)
LEMMA AddIsFine ==
  ASSUME NEW items, Fine(items), NEW s \in RecentSearches
  PROVE  Fine(AddRecents(items, s))
<1>1. CASE s \in Elements(items)
  BY <1>1 DEF AddRecents
<1>2. CASE s \notin Elements(items)
  <2> DEFINE d == Drop(items)
             new == <<s>> \o d
  <2>1. AddRecents(items, s) = new
    BY <1>2 DEF AddRecents
  <2>2. /\ d \in Seq(RecentSearches)
        /\ Len(d) \in 0..2 /\ Len(d) <= Len(items)
        /\ \A i \in 1..Len(d) : d[i] = items[i]
    BY DropLeavesRoom
  <2>3. items \in Seq(RecentSearches) /\ Distinct(items)
    BY DEF Fine
  <2> HIDE DEF d
  <2>4. new \in Seq(RecentSearches) /\ Len(new) = 1 + Len(d)
    BY <2>2
  <2>5. new[1] = s /\ \A i \in 2..Len(new) : new[i] = d[i - 1]
    BY <2>2
  <2>6. \A i \in 1..Len(d) : d[i] # s
    BY <1>2, <2>2, <2>3 DEF Elements
  <2>7. \A i, k \in 1..Len(d) : d[i] = d[k] => i = k
    BY <2>2, <2>3 DEF Distinct
  <2>8. ASSUME NEW i \in DOMAIN new, NEW k \in DOMAIN new, new[i] = new[k]
        PROVE  i = k
    <3>1. i \in 1..Len(new) /\ k \in 1..Len(new) /\ Len(new) \in Nat
      BY <2>4
    <3> HIDE DEF new
    <3>2. CASE i = 1 /\ k = 1
      BY <3>2
    <3>3. CASE i = 1 /\ k # 1
      BY <2>2, <2>4, <2>5, <2>6, <2>8, <3>1, <3>3
    <3>4. CASE i # 1 /\ k = 1
      BY <2>2, <2>4, <2>5, <2>6, <2>8, <3>1, <3>4
    <3>5. CASE i # 1 /\ k # 1
      <4>1. i - 1 \in 1..Len(d) /\ k - 1 \in 1..Len(d)
        BY <2>2, <2>4, <3>1, <3>5
      <4>2. d[i - 1] = d[k - 1]
        BY <2>5, <2>8, <3>1, <3>5
      <4> QED
        <5>1. i - 1 = k - 1
          BY <2>7, <4>1, <4>2
        <5>2. i \in Int /\ k \in Int
          BY <3>1
        <5> QED
          BY <5>1, <5>2
    <3> QED
      BY <3>2, <3>3, <3>4, <3>5
  <2>9. Len(new) <= MaxRecents
    BY <2>2, <2>4 DEF MaxRecents
  <2> QED
    BY <2>1, <2>4, <2>8, <2>9 DEF Fine, Distinct
<1> QED
  BY <1>1, <1>2

LEMMA EmptyIsFine == Fine(<<>>)
  BY DEF Fine, Distinct, MaxRecents
----------------------------------------------------------------------------
LEMMA RecentsStart == RecentsInit => RecentsInv
<1> SUFFICES ASSUME RecentsInit PROVE RecentsInv
  OBVIOUS
<1>1. <<>> \in Seq(RecentSearches) /\ 0 \in 0..MaxFailed
  BY RecentsAssumption
<1>2. RecentsTypeOK
  BY <1>1 DEF RecentsInit, RecentsTypeOK
<1>3. RecentsFine
  BY EmptyIsFine DEF RecentsInit, RecentsFine
<1> QED
  BY <1>2, <1>3 DEF RecentsInit, RecentsInv, CopiesInv, OneListUntilStale

(* A component is mounted with what is stored.                             *)
LEMMA RecentsVisit ==
  ASSUME RecentsInv, NEW t \in Tabs, NEW p \in {"home", "list", "other"}, Visit(t, p)
  PROVE  RecentsInv'
<1> USE DEF RecentsInv
<1>1. RecentsTypeOK'
  BY DEF RecentsTypeOK, Visit, MountedWith
<1>2. RecentsFine'
  BY EmptyIsFine DEF RecentsTypeOK, RecentsFine, Visit, MountedWith
<1>3. CopiesInv'
  BY DEF RecentsTypeOK, CopiesInv, Visit, MountedWith
<1>4. OneListUntilStale'
  BY DEF OneListUntilStale, Visit
<1> QED
  BY <1>1, <1>2, <1>3, <1>4

(* A search that is on the list already changes nothing but the page.      *)
LEMMA RecentsSubmitAgain ==
  ASSUME RecentsInv, NEW t \in Tabs, NEW s \in RecentSearches, SubmitSearch(t, s),
         s \in Elements(copy[t])
  PROVE  RecentsInv'
<1> USE DEF RecentsInv
<1>1. AddRecents(copy[t], s) = copy[t]
  BY DEF AddRecents
<1>2. /\ display[t] # "other"
      /\ UNCHANGED <<stored, failed>>
      /\ IF display[t] = "list"
           THEN copy' = [copy EXCEPT ![t] = copy[t]] /\ behind' = behind
           ELSE copy' = [copy EXCEPT ![t] = stored] /\ behind' = behind \ {t}
      /\ display' = [display EXCEPT ![t] = "list"]
      /\ made' = AddRecents(made, s)
      /\ stale' = (stale \/ t \in behind)
  BY <1>1 DEF SubmitSearch, MountedWith, WriteFails
<1>3. Fine(AddRecents(made, s))
  BY AddIsFine DEF RecentsFine
<1>4. AddRecents(made, s) \in Seq(RecentSearches)
  BY <1>3 DEF Fine
<1>5. stale' \in BOOLEAN
  BY <1>2, Zenon DEF RecentsTypeOK
<1>6. RecentsTypeOK'
  <2>1. CASE display[t] = "list"
    BY <1>2, <1>4, <1>5, <2>1 DEF RecentsTypeOK
  <2>2. CASE display[t] # "list"
    BY <1>2, <1>4, <1>5, <2>2 DEF RecentsTypeOK
  <2> QED
    BY <2>1, <2>2
<1>7. RecentsFine'
  <2>1. CASE display[t] = "list"
    BY <1>2, <1>3, <2>1 DEF RecentsTypeOK, RecentsFine
  <2>2. CASE display[t] # "list"
    BY <1>2, <1>3, <2>2 DEF RecentsTypeOK, RecentsFine
  <2> QED
    BY <2>1, <2>2
<1>8. CopiesInv'
  <2>1. CASE display[t] = "list"
    BY <1>2, <2>1 DEF RecentsTypeOK, CopiesInv
  <2>2. CASE display[t] # "list"
    BY <1>2, <2>2 DEF RecentsTypeOK, CopiesInv
  <2> QED
    BY <2>1, <2>2
<1>9. OneListUntilStale'
  <2> SUFFICES ASSUME ~stale' PROVE stored' = made'
    BY DEF OneListUntilStale
  <2>1. stored = made
    BY <1>2 DEF OneListUntilStale
  <2>2. copy[t] = stored
    BY <1>2 DEF CopiesInv
  <2> QED
    BY <1>1, <1>2, <2>1, <2>2
<1> QED
  BY <1>6, <1>7, <1>8, <1>9

(* A new search is written over what is stored, or fails to be.            *)
LEMMA RecentsSubmitNew ==
  ASSUME RecentsInv, NEW t \in Tabs, NEW s \in RecentSearches, SubmitSearch(t, s),
         s \notin Elements(copy[t])
  PROVE  RecentsInv'
<1> DEFINE items == AddRecents(copy[t], s)
<1> USE DEF RecentsInv
<1>1. /\ display[t] # "other"
      /\ Write(items)
      /\ IF display[t] = "list"
           THEN copy' = [copy EXCEPT ![t] = items] /\ behind' = Overtaken(t)
           ELSE copy' = [copy EXCEPT ![t] = stored'] /\ behind' = Overtaken(t) \ {t}
      /\ display' = [display EXCEPT ![t] = "list"]
      /\ made' = AddRecents(made, s)
      /\ stale' = (stale \/ t \in behind \/ WriteFails)
  BY DEF SubmitSearch, MountedWith
<1>2. Fine(items) /\ Fine(AddRecents(made, s))
  BY AddIsFine DEF RecentsFine
<1>3. items \in Seq(RecentSearches) /\ AddRecents(made, s) \in Seq(RecentSearches)
  BY <1>2 DEF Fine
<1>4. stale' \in BOOLEAN
  BY <1>1, Zenon DEF RecentsTypeOK
<1>5. display' \in [Tabs -> {"home", "list", "other"}]
  BY <1>1 DEF RecentsTypeOK
<1>6. CASE stored' = items /\ UNCHANGED failed
  <2> HIDE DEF items
  <2>1. copy' = [copy EXCEPT ![t] = items]
    BY <1>1, <1>6
  <2>2. behind' = Mounted \ {t}
    BY <1>1, <1>6 DEF Overtaken, WriteFails
  <2>3. RecentsTypeOK'
    BY <1>1, <1>3, <1>4, <1>5, <1>6, <2>1, <2>2 DEF RecentsTypeOK, Mounted
  <2>4. RecentsFine'
    BY <1>1, <1>2, <1>6, <2>1 DEF RecentsTypeOK, RecentsFine
  <2>5. CopiesInv'
    BY <1>1, <1>6, <2>1, <2>2 DEF RecentsTypeOK, CopiesInv, Mounted
  <2>6. OneListUntilStale'
    <3> SUFFICES ASSUME ~stale' PROVE stored' = made'
      BY DEF OneListUntilStale
    <3>1. stored = made /\ copy[t] = stored
      BY <1>1 DEF OneListUntilStale, CopiesInv
    <3> QED
      BY <1>1, <1>6, <3>1 DEF items
  <2> QED
    BY <2>3, <2>4, <2>5, <2>6
<1>7. CASE failed < MaxFailed /\ failed' = failed + 1 /\ UNCHANGED stored
  <2> HIDE DEF items
  <2>1. WriteFails
    BY <1>7 DEF WriteFails, RecentsTypeOK
  <2>2. stale'
    BY <1>1, <2>1
  <2>3. failed' \in 0..MaxFailed
    BY <1>7, RecentsAssumption DEF RecentsTypeOK
  <2>4. CASE display[t] = "list"
    <3>1. copy' = [copy EXCEPT ![t] = items] /\ behind' = behind \union {t}
      BY <1>1, <2>1, <2>4 DEF Overtaken
    <3>2. RecentsTypeOK'
      BY <1>1, <1>3, <1>4, <1>5, <1>7, <2>3, <3>1 DEF RecentsTypeOK
    <3>3. RecentsFine'
      BY <1>1, <1>2, <1>7, <3>1 DEF RecentsTypeOK, RecentsFine
    <3>4. CopiesInv'
      BY <1>1, <1>7, <3>1 DEF RecentsTypeOK, CopiesInv
    <3> QED
      BY <2>2, <3>2, <3>3, <3>4 DEF OneListUntilStale
  <2>5. CASE display[t] # "list"
    <3>1. copy' = [copy EXCEPT ![t] = stored] /\ behind' = behind \ {t}
      BY <1>1, <1>7, <2>1, <2>5 DEF Overtaken
    <3>2. RecentsTypeOK'
      BY <1>1, <1>3, <1>4, <1>5, <1>7, <2>3, <3>1 DEF RecentsTypeOK
    <3>3. RecentsFine'
      BY <1>1, <1>2, <1>7, <3>1 DEF RecentsTypeOK, RecentsFine
    <3>4. CopiesInv'
      BY <1>1, <1>7, <3>1 DEF RecentsTypeOK, CopiesInv
    <3> QED
      BY <2>2, <3>2, <3>3, <3>4 DEF OneListUntilStale
  <2> QED
    BY <2>4, <2>5
<1> QED
  BY <1>1, <1>6, <1>7 DEF Write

(* A deletion makes it one list again, unless it fails to be written.      *)
LEMMA RecentsDelete ==
  ASSUME RecentsInv, NEW t \in Tabs, Delete(t)
  PROVE  RecentsInv'
<1> USE DEF RecentsInv
<1>1. stale' \in BOOLEAN
  BY Zenon DEF Delete, WriteFails
<1>2. CASE stored' = <<>> /\ UNCHANGED failed
  <2>1. behind' = Mounted \ {t}
    BY <1>2 DEF Delete, Overtaken, WriteFails
  <2>2. RecentsTypeOK'
    BY <1>1, <1>2, <2>1 DEF RecentsTypeOK, Delete, Mounted
  <2>3. RecentsFine'
    BY <1>2, EmptyIsFine DEF RecentsTypeOK, RecentsFine, Delete
  <2>4. CopiesInv'
    BY <1>2, <2>1 DEF RecentsTypeOK, CopiesInv, Delete, Mounted
  <2>5. OneListUntilStale'
    BY <1>2 DEF OneListUntilStale, Delete
  <2> QED
    BY <2>2, <2>3, <2>4, <2>5
<1>3. CASE failed < MaxFailed /\ failed' = failed + 1 /\ UNCHANGED stored
  <2>1. WriteFails
    BY <1>3 DEF WriteFails, RecentsTypeOK
  <2>2. behind' = behind \union {t} /\ stale'
    BY <2>1 DEF Delete, Overtaken
  <2>3. failed' \in 0..MaxFailed
    BY <1>3, RecentsAssumption DEF RecentsTypeOK
  <2>4. RecentsTypeOK'
    BY <1>1, <1>3, <2>2, <2>3 DEF RecentsTypeOK, Delete
  <2>5. RecentsFine'
    BY <1>3, EmptyIsFine DEF RecentsTypeOK, RecentsFine, Delete
  <2>6. CopiesInv'
    BY <1>3, <2>2 DEF RecentsTypeOK, CopiesInv, Delete
  <2> QED
    BY <2>2, <2>4, <2>5, <2>6 DEF OneListUntilStale
<1> QED
  BY <1>2, <1>3 DEF Delete, Write

LEMMA RecentsStep == RecentsInv /\ [RecentsNext]_recentsVars => RecentsInv'
<1> SUFFICES ASSUME RecentsInv, [RecentsNext]_recentsVars PROVE RecentsInv'
  OBVIOUS
<1>1. CASE UNCHANGED recentsVars
  BY <1>1 DEF RecentsInv, RecentsTypeOK, RecentsFine, CopiesInv, OneListUntilStale, recentsVars
<1>2. ASSUME NEW t \in Tabs, NEW p \in {"home", "list", "other"}, Visit(t, p)
      PROVE  RecentsInv'
  BY <1>2, RecentsVisit
<1>3. ASSUME NEW t \in Tabs, NEW s \in RecentSearches, SubmitSearch(t, s)
      PROVE  RecentsInv'
  <2>1. CASE s \in Elements(copy[t])
    BY <1>3, <2>1, RecentsSubmitAgain
  <2>2. CASE s \notin Elements(copy[t])
    BY <1>3, <2>2, RecentsSubmitNew
  <2> QED
    BY <2>1, <2>2
<1>4. ASSUME NEW t \in Tabs, Delete(t)
      PROVE  RecentsInv'
  BY <1>4, RecentsDelete
<1> QED
  BY <1>1, <1>2, <1>3, <1>4 DEF RecentsNext

(* The inductive invariant (use-localstorage.js 5-27).                     *)
THEOREM RecentsInvariance == RecentsSpec => []RecentsInv
  BY RecentsStart, RecentsStep, PTL DEF RecentsSpec

(* Every variable keeps its type (use-localstorage.js 7-15).               *)
THEOREM RecentsTypeCorrect == RecentsSpec => []RecentsTypeOK
<1>1. RecentsInv => RecentsTypeOK
  BY DEF RecentsInv
<1> QED
  BY RecentsInvariance, <1>1, PTL

(* What is stored and what any tab shows is at most three searches, each   *)
(* once (Home 37-46, ListJob 117-126).                                     *)
THEOREM ThreeDifferentSearches == RecentsSpec => []ThreeDifferent
<1>1. RecentsInv => ThreeDifferent
  BY DEF RecentsInv, RecentsFine, Fine, ThreeDifferent
<1> QED
  BY RecentsInvariance, <1>1, PTL

(* The storage is the one list of all tabs until an overtaken tab makes a  *)
(* search or a write fails (use-localstorage.js 17-26).                    *)
THEOREM OneListUntilThen == RecentsSpec => []OneListUntilStale
<1>1. RecentsInv => OneListUntilStale
  BY DEF RecentsInv
<1> QED
  BY RecentsInvariance, <1>1, PTL
============================================================================
