------------------------- MODULE VietNamWorkProofs -------------------------
(***************************************************************************)
(* Proofs about VietNamWork for any number of overlapping runs, any sizes  *)
(* of the site and any number of failures.                                 *)
(***************************************************************************)
EXTENDS VietNamWork, FiniteSetTheorems, TLAPS

Begun(r) == pc[r] \in {"save", "cursor", "loop"}

(* From the captured request on, its body holds the page the run started   *)
(* from: no later getBody changes a number other than 0.                   *)
BodyInv ==
  \A r \in Runs : Begun(r) \/ pc[r] = "first" => body[r] = start[r]

(* A run that has asked for nothing has no answers.                        *)
FreshInv ==
  \A r \in Runs : pc[r] \in {"idle", "read", "launch", "capture", "first"} => answered[r] = {}

LoadInv ==
  \A r \in Runs : Begun(r) =>
    /\ start[r] = 0 /\ ~skipped[r] => 0..(index[r] - 1) \subseteq answered[r]
    /\ start[r] > 0 => answered[r] \subseteq {start[r]}

(* What a run counts and is going to store comes from an answer.           *)
OnSite(p) == p = 0 \/ \E n \in Sizes : p < n
CountInv ==
  \A r \in Runs :
    /\ maxPage[r] \in Sizes \union {0}
    /\ OnSite(nextPage[r])

(* A capture under way has its browser, so that closing it is never too    *)
(* much; the others that run were lost by a failed capture.                *)
ChromiumInv == Cardinality(Capturing) <= chromium /\ NoSilentChromium

IInv == TypeOK /\ BodyInv /\ FreshInv /\ LoadInv /\ CountInv /\ CursorOnSite /\ ChromiumInv
----------------------------------------------------------------------------
LEMMA PageAfterOnSite ==
  ASSUME NEW p \in Nat, NEW n \in Sizes \union {0}
  PROVE  PageAfter(p, n) \in Nat /\ OnSite(PageAfter(p, n))
  BY ApiAssumption DEF PageAfter, OnSite

LEMMA InitIInv == Init => IInv
<1> SUFFICES ASSUME Init PROVE IInv
  OBVIOUS
<1>1. TypeOK
  BY ApiAssumption DEF Init, TypeOK
<1>2. BodyInv /\ FreshInv /\ LoadInv
  BY DEF Init, BodyInv, FreshInv, LoadInv, Begun
<1>3. CountInv /\ CursorOnSite
  BY DEF Init, CountInv, CursorOnSite, OnSite
<1>4. ChromiumInv
  <2>1. Capturing = {}
    BY DEF Init, Capturing
  <2> QED
    BY <2>1, FS_EmptySet DEF Init, ChromiumInv, NoSilentChromium
<1> QED
  BY <1>1, <1>2, <1>3, <1>4 DEF IInv

(* How a step of one run changes the set of captures under way.            *)
LEMMA CapturingBounded == IsFiniteSet(Capturing) /\ Cardinality(Capturing) \in Nat
  BY ApiAssumption, FS_Subset, FS_CardinalityType DEF Capturing

LEMMA CapturingSame ==
  ASSUME TypeOK, NEW r \in Runs, NEW step, Goto(r, step),
         pc[r] # "capture", step # "capture"
  PROVE  Capturing' = Capturing
  BY DEF Capturing, Goto, TypeOK

LEMMA CaptureBegins ==
  ASSUME TypeOK, NEW r \in Runs, Goto(r, "capture"), pc[r] # "capture"
  PROVE  Cardinality(Capturing') = Cardinality(Capturing) + 1
<1>1. Capturing' = Capturing \union {r} /\ r \notin Capturing
  BY DEF Capturing, Goto, TypeOK
<1> QED
  BY <1>1, CapturingBounded, FS_AddElement

LEMMA CaptureEnds ==
  ASSUME TypeOK, NEW r \in Runs, NEW step, Goto(r, step),
         pc[r] = "capture", step # "capture"
  PROVE  Cardinality(Capturing') = Cardinality(Capturing) - 1
<1>1. Capturing' = Capturing \ {r} /\ r \in Capturing
  BY DEF Capturing, Goto, TypeOK
<1> QED
  BY <1>1, CapturingBounded, FS_RemoveElement

(* A run that ends leaves nothing to be said of it.                        *)
LEMMA EndsKeeps ==
  ASSUME IInv, NEW r \in Runs, Ends(r),
         cursor' \in Nat, OnSite(cursor'), store' \subseteq Nat, faults' \in 0..MaxFaults,
         chromium' \in Nat, lost' \in Nat, ChromiumInv'
  PROVE  IInv'
<1>1. TypeOK'
  BY DEF Ends, Goto, Set, IInv, TypeOK
<1>2. BodyInv' /\ FreshInv'
  BY DEF Ends, Goto, Set, IInv, TypeOK, BodyInv, FreshInv, Begun
<1>3. LoadInv'
  BY DEF Ends, Goto, Set, IInv, TypeOK, LoadInv, Begun
<1>4. CountInv' /\ CursorOnSite'
  BY DEF Ends, Set, IInv, TypeOK, CountInv, CursorOnSite, OnSite
<1> QED
  BY <1>1, <1>2, <1>3, <1>4 DEF IInv

LEMMA ChromiumUntouched ==
  ASSUME IInv, Capturing' = Capturing, UNCHANGED browsers
  PROVE  ChromiumInv'
  BY DEF IInv, ChromiumInv, NoSilentChromium, browsers

(* A step of one run leaves what is said of the others.                    *)
LEMMA FetchFirstKeeps ==
  ASSUME IInv, NEW r \in Runs, FetchFirst(r)
  PROVE  IInv'
<1>1. body[r] = start[r] /\ answered[r] = {} /\ body[r] \in Nat
  BY DEF FetchFirst, IInv, TypeOK, BodyInv, FreshInv
<1>0. ASSUME NEW step, Goto(r, step), step # "capture" PROVE ChromiumInv'
  BY <1>0, CapturingSame, ChromiumUntouched DEF FetchFirst, IInv
<1>2. ASSUME NEW n \in Sizes, Answer(r, body[r], n),
             maxPage' = Set(maxPage, r, n),
             nextPage' = Set(nextPage, r, PageAfter(body[r], n)),
             index' = Set(index, r, PageAfter(body[r], n))
      PROVE  IInv'
  <2>1. PageAfter(body[r], n) \in Nat /\ OnSite(PageAfter(body[r], n))
    BY <1>1, PageAfterOnSite
  <2>2. TypeOK'
    BY <1>1, <1>2, <2>1, ApiAssumption DEF FetchFirst, Answer, database, browsers, Goto, Set, IInv, TypeOK
  <2>3. BodyInv' /\ FreshInv'
    BY <1>1, <1>2 DEF FetchFirst, Answer, Goto, Set, IInv, TypeOK, BodyInv, FreshInv, Begun
  <2>4. LoadInv'
    <3>1. answered' = [answered EXCEPT ![r] = {start[r]}]
      BY <1>1, <1>2 DEF Answer, Set
    <3>2. start[r] = 0 => PageAfter(body[r], n) \in {0, 1}
      BY <1>1 DEF PageAfter
    <3> QED
      BY <1>1, <1>2, <3>1, <3>2 DEF FetchFirst, Answer, Goto, Set, IInv, TypeOK, LoadInv, Begun
  <2>5. CountInv'
    BY <1>2, <2>1 DEF FetchFirst, Set, IInv, TypeOK, CountInv, OnSite
  <2>6. CursorOnSite'
    BY DEF FetchFirst, database, IInv, CursorOnSite
  <2>7. ChromiumInv'
    BY <1>0, <1>2 DEF Answer
  <2> QED
    BY <2>2, <2>3, <2>4, <2>5, <2>6, <2>7 DEF IInv
<1>3. ASSUME NoAnswer(r, body[r]),
             maxPage' = Set(maxPage, r, 0),
             nextPage' = Set(nextPage, r, 0),
             index' = Set(index, r, 0)
      PROVE  IInv'
  <2>1. TypeOK'
    BY <1>1, <1>3, ApiAssumption DEF FetchFirst, NoAnswer, Fault, database, browsers, Goto, Set, IInv, TypeOK
  <2>2. BodyInv' /\ FreshInv'
    BY <1>1, <1>3 DEF FetchFirst, NoAnswer, Goto, Set, IInv, TypeOK, BodyInv, FreshInv, Begun
  <2>3. LoadInv'
    BY <1>1, <1>3 DEF FetchFirst, NoAnswer, Goto, Set, IInv, TypeOK, LoadInv, Begun
  <2>4. CountInv' /\ CursorOnSite'
    BY <1>3 DEF FetchFirst, database, Set, IInv, TypeOK, CountInv, CursorOnSite, OnSite
  <2>5. ChromiumInv'
    BY <1>0, <1>3 DEF NoAnswer
  <2> QED
    BY <2>1, <2>2, <2>3, <2>4, <2>5 DEF IInv
<1>4. ASSUME RequestFails(r, body[r]) PROVE IInv'
  <2>1. Ends(r) /\ ChromiumInv'
    BY <1>0, <1>4 DEF RequestFails, Ends
  <2>2. faults' \in 0..MaxFaults
    BY <1>4, ApiAssumption DEF RequestFails, Fault, IInv, TypeOK
  <2> QED
    BY <2>1, <2>2, EndsKeeps DEF FetchFirst, database, browsers, IInv, TypeOK, CursorOnSite, OnSite
<1> QED
  BY <1>2, <1>3, <1>4 DEF FetchFirst

LEMMA FetchNextKeeps ==
  ASSUME IInv, NEW r \in Runs, FetchNext(r)
  PROVE  IInv'
<1> DEFINE p == GetBody(body[r], index[r])
<1>1. /\ body[r] = start[r]
      /\ index[r] \in Nat /\ maxPage[r] \in Sizes \union {0}
      /\ p \in Nat
      /\ start[r] = 0 => p = index[r]
      /\ start[r] > 0 => p = start[r]
  BY DEF FetchNext, GetBody, IInv, TypeOK, BodyInv, CountInv, Begun
<1>0. ASSUME NEW step, Goto(r, step), step # "capture" PROVE ChromiumInv'
  BY <1>0, CapturingSame, ChromiumUntouched DEF FetchNext, IInv
<1>2. ASSUME NEW answers, answers = answered'[r],
             answers \in {answered[r], answered[r] \union {p}},
             answers = answered[r] => skipped'[r] \/ p \in answered[r],
             skipped'[r] = FALSE => ~skipped[r],
             answered' = Set(answered, r, answers),
             skipped' = Set(skipped, r, skipped'[r]), skipped'[r] \in BOOLEAN,
             hits' = Set(hits, r, hits'[r]), hits'[r] \in SUBSET Nat,
             Goto(r, "save"),
             faults' \in 0..MaxFaults,
             nextPage' = Set(nextPage, r, PageAfter(index[r], maxPage[r])),
             index' = Set(index, r, index[r] + 1),
             UNCHANGED <<start, body, maxPage>>
      PROVE  IInv'
  <2>1. /\ PageAfter(index[r], maxPage[r]) \in Nat
        /\ OnSite(PageAfter(index[r], maxPage[r]))
    BY <1>1, PageAfterOnSite
  <2>2. TypeOK'
    BY <1>1, <1>2, <2>1 DEF FetchNext, database, browsers, Goto, Set, IInv, TypeOK
  <2>3. BodyInv' /\ FreshInv'
    BY <1>1, <1>2 DEF FetchNext, Goto, Set, IInv, TypeOK, BodyInv, FreshInv, Begun
  <2>4. LoadInv'
    <3> SUFFICES ASSUME NEW q \in Runs, Begun(q)'
                 PROVE  /\ start[q] = 0 /\ ~skipped'[q] => 0..(index'[q] - 1) \subseteq answered'[q]
                        /\ start[q] > 0 => answered'[q] \subseteq {start[q]}
      BY <1>2 DEF LoadInv
    <3>1. CASE q # r
      BY <1>2, <3>1 DEF FetchNext, Goto, Set, IInv, TypeOK, LoadInv, Begun
    <3>2. CASE q = r
      <4>1. /\ start[r] = 0 /\ ~skipped[r] => 0..(index[r] - 1) \subseteq answered[r]
            /\ start[r] > 0 => answered[r] \subseteq {start[r]}
        BY DEF FetchNext, IInv, LoadInv, Begun
      <4>2. index'[r] - 1 = index[r] /\ answered'[r] = answers
        BY <1>1, <1>2 DEF Set, IInv, TypeOK
      <4>3. CASE start[r] = 0
        BY <1>1, <1>2, <3>2, <4>1, <4>2, <4>3
      <4>4. CASE start[r] > 0
        BY <1>1, <1>2, <3>2, <4>1, <4>2, <4>4
      <4> QED
        BY <3>2, <4>3, <4>4 DEF IInv, TypeOK
    <3> QED
      BY <3>1, <3>2
  <2>5. CountInv' /\ CursorOnSite'
    BY <1>2, <2>1 DEF FetchNext, database, Set, IInv, TypeOK, CountInv, CursorOnSite, OnSite
  <2>6. ChromiumInv'
    BY <1>0, <1>2
  <2> QED
    BY <2>2, <2>3, <2>4, <2>5, <2>6 DEF IInv
<1>3. ASSUME NEW n \in Sizes, Answer(r, p, n),
             nextPage' = Set(nextPage, r, PageAfter(index[r], maxPage[r])),
             index' = Set(index, r, index[r] + 1),
             UNCHANGED maxPage
      PROVE  IInv'
  <2> HIDE DEF p
  <2>1. /\ skipped' = Set(skipped, r, skipped'[r])
        /\ skipped'[r] = skipped[r] /\ skipped[r] \in BOOLEAN
    BY <1>3 DEF Answer, Set, IInv, TypeOK
  <2>2. /\ hits' = Set(hits, r, hits'[r]) /\ hits'[r] \in SUBSET Nat
        /\ faults' \in 0..MaxFaults
    BY <1>1, <1>3 DEF Answer, Set, IInv, TypeOK
  <2>3. /\ answered'[r] = answered[r] \union {p}
        /\ answered' = Set(answered, r, answered[r] \union {p})
    BY <1>3 DEF Answer, Set, IInv, TypeOK
  <2>4. answered'[r] = answered[r] => p \in answered[r]
    BY <2>3
  <2> QED
    BY <1>2, <1>3, <2>1, <2>2, <2>3, <2>4 DEF Answer
<1>4. ASSUME NoAnswer(r, p),
             nextPage' = Set(nextPage, r, PageAfter(index[r], maxPage[r])),
             index' = Set(index, r, index[r] + 1),
             UNCHANGED maxPage
      PROVE  IInv'
  <2> HIDE DEF p
  <2>1. /\ skipped' = Set(skipped, r, skipped'[r])
        /\ skipped'[r] = TRUE
        /\ hits' = Set(hits, r, hits'[r]) /\ hits'[r] \in SUBSET Nat
    BY <1>4 DEF NoAnswer, Set, IInv, TypeOK
  <2>2. faults' \in 0..MaxFaults
    BY <1>4, ApiAssumption DEF NoAnswer, Fault, IInv, TypeOK
  <2>3. answered'[r] = answered[r] /\ answered' = Set(answered, r, answered[r])
    BY <1>4 DEF NoAnswer, Set, IInv, TypeOK
  <2> QED
    BY <1>2, <1>4, <2>1, <2>2, <2>3 DEF NoAnswer
<1>5. ASSUME RequestFails(r, p) PROVE IInv'
  <2>1. Ends(r) /\ ChromiumInv'
    BY <1>0, <1>5 DEF RequestFails, Ends
  <2>2. faults' \in 0..MaxFaults
    BY <1>5, ApiAssumption DEF RequestFails, Fault, IInv, TypeOK
  <2> QED
    BY <2>1, <2>2, EndsKeeps DEF FetchNext, database, browsers, IInv, TypeOK, CursorOnSite, OnSite
<1> QED
  BY <1>3, <1>4, <1>5 DEF FetchNext

LEMMA LaunchKeeps ==
  ASSUME IInv, NEW r \in Runs, Launch(r)
  PROVE  IInv'
<1>1. CASE chromium' = chromium + 1 /\ Goto(r, "capture") /\ UNCHANGED <<faults, lost, locals>>
  <2>1. ChromiumInv'
    BY <1>1, CaptureBegins, CapturingBounded DEF Launch, IInv, TypeOK, ChromiumInv, NoSilentChromium
  <2>2. TypeOK' /\ BodyInv' /\ FreshInv' /\ LoadInv' /\ CountInv' /\ CursorOnSite'
    BY <1>1 DEF Launch, Goto, database, locals, IInv, TypeOK, BodyInv, FreshInv, LoadInv, CountInv,
       CursorOnSite, OnSite, Begun
  <2> QED
    BY <2>1, <2>2 DEF IInv
<1>2. CASE CaptureFails(r) /\ UNCHANGED chromium
  <2>1. Capturing' = Capturing
    BY <1>2, CapturingSame DEF Launch, CaptureFails, Ends, IInv
  <2>2. ChromiumInv'
    BY <1>2, <2>1, CapturingBounded DEF CaptureFails, IInv, TypeOK, ChromiumInv, NoSilentChromium
  <2> QED
    BY <1>2, <2>2, ApiAssumption, EndsKeeps DEF Launch, CaptureFails, Fault, database, IInv, TypeOK,
       CursorOnSite, OnSite
<1> QED
  BY <1>1, <1>2 DEF Launch

LEMMA CaptureKeeps ==
  ASSUME IInv, NEW r \in Runs, Capture(r)
  PROVE  IInv'
<1>1. ASSUME NEW step, Goto(r, step), step # "capture"
      PROVE  /\ CloseBrowser /\ UNCHANGED lost => ChromiumInv' /\ chromium' \in Nat
             /\ UNCHANGED chromium /\ lost' = lost + 1 => ChromiumInv'
  <2>1. Cardinality(Capturing') = Cardinality(Capturing) - 1
    BY <1>1, CaptureEnds DEF Capture, IInv
  <2>2. Capturing # {}
    BY DEF Capture, Capturing
  <2>3. Cardinality(Capturing) \in Nat \ {0}
    BY <2>2, CapturingBounded, FS_EmptySet
  <2> QED
    BY <2>1, <2>3 DEF CloseBrowser, IInv, TypeOK, ChromiumInv, NoSilentChromium
<1>2. CASE /\ CloseBrowser
           /\ body' = Set(body, r, GetBody(0, start[r]))
           /\ Goto(r, "first")
           /\ UNCHANGED <<faults, lost, start, hits, maxPage, nextPage, index, answered, skipped>>
  <2>1. GetBody(0, start[r]) = start[r]
    BY DEF GetBody
  <2>2. ChromiumInv' /\ chromium' \in Nat
    BY <1>1, <1>2
  <2>3. TypeOK' /\ BodyInv' /\ FreshInv' /\ LoadInv' /\ CountInv' /\ CursorOnSite'
    BY <1>2, <2>1, <2>2 DEF Capture, Goto, Set, database, IInv, TypeOK, BodyInv, FreshInv, LoadInv,
       CountInv, CursorOnSite, OnSite, Begun
  <2> QED
    BY <2>2, <2>3 DEF IInv
<1>3. CASE CloseBrowser /\ Fault /\ Ends(r) /\ UNCHANGED lost
  <2>1. ChromiumInv' /\ chromium' \in Nat
    BY <1>1, <1>3 DEF Ends
  <2> QED
    BY <1>3, <2>1, ApiAssumption, EndsKeeps DEF Capture, Fault, database, IInv, TypeOK, CursorOnSite, OnSite
<1>4. CASE CaptureFails(r) /\ UNCHANGED chromium
  <2>1. ChromiumInv'
    BY <1>1, <1>4 DEF CaptureFails, Ends
  <2> QED
    BY <1>4, <2>1, ApiAssumption, EndsKeeps DEF Capture, CaptureFails, Fault, database, IInv, TypeOK,
       CursorOnSite, OnSite
<1> QED
  BY <1>2, <1>3, <1>4 DEF Capture

LEMMA HangKeeps ==
  ASSUME IInv, NEW r \in Runs, Hang(r)
  PROVE  IInv'
<1>1. TypeOK'
  BY ApiAssumption DEF Hang, Fault, Goto, database, locals, IInv, TypeOK
<1>2. BodyInv' /\ FreshInv' /\ LoadInv'
  BY DEF Hang, Goto, locals, IInv, TypeOK, BodyInv, FreshInv, LoadInv, Begun
<1>3. CountInv' /\ CursorOnSite'
  BY DEF Hang, database, locals, IInv, CountInv, CursorOnSite, OnSite
<1>4. ChromiumInv'
  <2>1. CASE pc[r] = "capture"
    <3>1. Cardinality(Capturing') = Cardinality(Capturing) - 1
      BY <2>1, CaptureEnds DEF Hang, IInv
    <3> QED
      BY <2>1, <3>1, CapturingBounded DEF Hang, IInv, TypeOK, ChromiumInv, NoSilentChromium
  <2>2. CASE pc[r] # "capture"
    BY <2>2, CapturingSame, ChromiumUntouched DEF Hang, browsers, IInv
  <2> QED
    BY <2>1, <2>2
<1> QED
  BY <1>1, <1>2, <1>3, <1>4 DEF IInv

LEMMA CrashKeeps ==
  ASSUME IInv, Crash
  PROVE  IInv'
<1>1. Capturing' = {}
  BY DEF Crash, Capturing
<1>2. ChromiumInv'
  BY <1>1, FS_EmptySet DEF Crash, ChromiumInv, NoSilentChromium
<1>3. TypeOK'
  BY ApiAssumption DEF Crash, Fault, database, IInv, TypeOK
<1>4. BodyInv' /\ FreshInv' /\ LoadInv' /\ CountInv' /\ CursorOnSite'
  BY DEF Crash, database, IInv, BodyInv, FreshInv, LoadInv, CountInv, CursorOnSite, OnSite, Begun
<1> QED
  BY <1>2, <1>3, <1>4 DEF IInv

LEMMA NextIInv == IInv /\ [Next]_vars => IInv'
<1> SUFFICES ASSUME IInv, [Next]_vars PROVE IInv'
  OBVIOUS
<1>0. ASSUME NEW r \in Runs, NEW step, Goto(r, step), pc[r] # "capture", step # "capture",
             UNCHANGED browsers
      PROVE  ChromiumInv'
  BY <1>0, CapturingSame, ChromiumUntouched DEF IInv
<1>1. ASSUME NEW r \in Runs, Tick(r) PROVE IInv'
  <2>1. ChromiumInv'
    BY <1>0, <1>1 DEF Tick
  <2>2. TypeOK' /\ BodyInv' /\ LoadInv' /\ CountInv' /\ CursorOnSite'
    BY <1>1 DEF Tick, Goto, database, browsers, locals, IInv, TypeOK, BodyInv, LoadInv, CountInv,
       CursorOnSite, OnSite, Begun
  <2>3. FreshInv'
    BY <1>1 DEF Tick, Goto, locals, IInv, TypeOK, FreshInv
  <2> QED
    BY <2>1, <2>2, <2>3 DEF IInv
<1>2. ASSUME NEW r \in Runs, ReadCursor(r) PROVE IInv'
  <2>1. ChromiumInv'
    BY <1>0, <1>2 DEF ReadCursor
  <2>2. TypeOK' /\ BodyInv' /\ FreshInv' /\ LoadInv' /\ CountInv' /\ CursorOnSite'
    BY <1>2, ApiAssumption DEF ReadCursor, Fault, Goto, Set, database, browsers, IInv, TypeOK, BodyInv,
       FreshInv, LoadInv, CountInv, CursorOnSite, OnSite, Begun
  <2> QED
    BY <2>1, <2>2 DEF IInv
<1>3. ASSUME NEW r \in Runs, Finish(r) PROVE IInv'
  <2>1. ChromiumInv'
    BY <1>0, <1>3 DEF Finish, Ends
  <2> QED
    BY <1>3, <2>1, EndsKeeps DEF Finish, database, browsers, IInv, TypeOK, CursorOnSite, OnSite
<1>4. ASSUME NEW r \in Runs, SaveHits(r) PROVE IInv'
  <2>0. hits[r] \subseteq Nat
    BY DEF IInv, TypeOK
  <2>1. /\ store' = store \/ store' = store \union hits[r]
        /\ faults' \in 0..MaxFaults
    BY <1>4, ApiAssumption DEF SaveHits, Fault, IInv, TypeOK
  <2>9. store' \subseteq Nat
    BY <2>0, <2>1 DEF IInv, TypeOK
  <2>2. CASE Ends(r)
    <3>1. ChromiumInv'
      BY <1>0, <1>4, <2>2 DEF SaveHits, Ends
    <3> QED
      BY <1>4, <2>1, <2>9, <2>2, <3>1, EndsKeeps DEF SaveHits, browsers, IInv, TypeOK, CursorOnSite, OnSite
  <2>3. CASE Goto(r, "cursor") /\ UNCHANGED locals
    <3>1. ChromiumInv'
      BY <1>0, <1>4, <2>3 DEF SaveHits
    <3>2. TypeOK' /\ BodyInv' /\ FreshInv' /\ LoadInv' /\ CountInv' /\ CursorOnSite'
      BY <1>4, <2>1, <2>9, <2>3 DEF SaveHits, Goto, browsers, locals, IInv, TypeOK, BodyInv, FreshInv, LoadInv,
         CountInv, CursorOnSite, OnSite, Begun
    <3> QED
      BY <3>1, <3>2 DEF IInv
  <2> QED
    BY <1>4, <2>2, <2>3 DEF SaveHits
<1>5. ASSUME NEW r \in Runs, SaveCursor(r) PROVE IInv'
  <2>1. ChromiumInv'
    BY <1>0, <1>5 DEF SaveCursor
  <2>2. TypeOK' /\ BodyInv' /\ FreshInv' /\ LoadInv' /\ CountInv' /\ CursorOnSite'
    BY <1>5, ApiAssumption DEF SaveCursor, NextCursor, Fault, Goto, browsers, locals, IInv, TypeOK, BodyInv,
       FreshInv, LoadInv, CountInv, CursorOnSite, OnSite, Begun
  <2> QED
    BY <2>1, <2>2 DEF IInv
<1>6. CASE UNCHANGED vars
  <2>1. Capturing' = Capturing
    BY <1>6 DEF vars, Capturing
  <2>2. ChromiumInv'
    BY <1>6, <2>1, ChromiumUntouched DEF vars
  <2>3. TypeOK' /\ BodyInv' /\ FreshInv' /\ LoadInv' /\ CountInv' /\ CursorOnSite'
    BY <1>6 DEF vars, database, browsers, locals, IInv, TypeOK, BodyInv, FreshInv, LoadInv, CountInv,
       CursorOnSite, OnSite, Begun
  <2> QED
    BY <2>2, <2>3 DEF IInv
<1> QED
  BY <1>1, <1>2, <1>3, <1>4, <1>5, <1>6, HangKeeps, LaunchKeeps, CaptureKeeps, FetchFirstKeeps, FetchNextKeeps,
     CrashKeeps DEF Next, Proceed
----------------------------------------------------------------------------
(* The inductive invariant holds throughout.                               *)
THEOREM Invariance == Spec => []IInv
  BY InitIInv, NextIInv, PTL DEF Spec

(* Every variable keeps its type.                                          *)
THEOREM TypeCorrect == Spec => []TypeOK
  BY Invariance, PTL DEF IInv

(* A run that starts at page 0 loads every page it counts; one that        *)
(* resumes elsewhere loads the page it starts from and no other.           *)
THEOREM RunsLoadByStart == Spec => []StartDecidesPages
<1>1. IInv => StartDecidesPages
  BY DEF IInv, LoadInv, StartDecidesPages, Begun
<1> QED
  BY <1>1, Invariance, PTL

(* Overlapping runs never leave a cursor behind the site's last page.      *)
THEOREM CursorStaysOnSite == Spec => []CursorOnSite
  BY Invariance, PTL DEF IInv

(* A Chromium that runs belongs to a capture under way or to a failed one. *)
THEOREM OnlyFailuresLeaveChromium == Spec => []NoSilentChromium
  BY Invariance, PTL DEF IInv, ChromiumInv
============================================================================
