-------------------------- MODULE CursorStoreProofs --------------------------
(***************************************************************************)
(* Proofs about CursorStore for any number of processes and pages and any  *)
(* number of failures: its types, that no page before a cursor is one      *)
(* nobody crawled, the bound on twins, and that the documents are one cell *)
(* (CursorCell), step by step.                                             *)
(***************************************************************************)
EXTENDS CursorStore, FiniteSetTheorems, SequenceTheorems, TLAPS

(* The document a process is about to write to exists, and is the oldest.  *)
RecordInv ==
  \A p \in Procs : pc[p] = "write" => record[p] = 0 \/ (record[p] = 1 /\ docs # <<>>)

(* What a process holds is covered up to the page before, or with it.      *)
CoverInv ==
  \A p \in Procs :
    /\ pc[p] = "crawl" => \A page \in Pages : page < at[p] => page \in covered
    /\ pc[p] \in {"find", "write", "answer"} =>
         \A page \in Pages : page <= at[p] => page \in covered

(* The processes that are going to create a document, which become fewer   *)
(* once there is one.                                                      *)
Creators == {p \in Procs : pc[p] = "write" /\ record[p] = 0}
TwinsInv == docs # <<>> => Len(docs) + Cardinality(Creators) <= Cardinality(Procs)

IInv == TypeOK /\ RecordInv /\ CoverInv /\ CoveredBehindCursor /\ TwinsInv
----------------------------------------------------------------------------
LEMMA FollowInPages == \A page \in Pages : Follow(page) \in Pages
  BY CursorAssumption DEF Follow, Pages

LEMMA CreatorsBounded ==
  /\ IsFiniteSet(Creators)
  /\ Cardinality(Creators) \in Nat /\ Cardinality(Procs) \in Nat
  /\ Cardinality(Creators) <= Cardinality(Procs)
  BY CursorAssumption, FS_Subset, FS_CardinalityType DEF Creators

(* A step that makes no creator of a process while there is a document.    *)
LEMMA FewerCreators ==
  ASSUME IInv, Creators' \subseteq Creators, Len(docs') = Len(docs),
         docs' # <<>> => docs # <<>>
  PROVE  TwinsInv'
<1>1. Cardinality(Creators') <= Cardinality(Creators) /\ Cardinality(Creators') \in Nat
  BY CreatorsBounded, FS_Subset, FS_CardinalityType
<1>2. Len(docs) \in Nat
  BY DEF IInv, TypeOK
<1> QED
  BY <1>1, <1>2, CreatorsBounded DEF IInv, TwinsInv

LEMMA InitIInv == Init => IInv
<1> SUFFICES ASSUME Init PROVE IInv
  OBVIOUS
<1>1. TypeOK
  BY CursorAssumption DEF Init, TypeOK, Pages, Steps
<1>2. RecordInv /\ CoverInv /\ CoveredBehindCursor /\ TwinsInv
  BY DEF Init, RecordInv, CoverInv, CoveredBehindCursor, TwinsInv
<1> QED
  BY <1>1, <1>2 DEF IInv

(* A step of a process that writes nothing and holds nothing afterwards.   *)
LEMMA StopKeeps ==
  ASSUME IInv, NEW p \in Procs, NEW step \in {"idle", "hung"}, Stop(p, step),
         faults' \in 0..MaxFaults, UNCHANGED <<docs, covered>>
  PROVE  IInv'
<1>0. 1 \in Pages
  BY CursorAssumption DEF Pages
<1>1. TypeOK' /\ RecordInv' /\ CoverInv' /\ CoveredBehindCursor'
  BY <1>0 DEF IInv, TypeOK, RecordInv, CoverInv, CoveredBehindCursor, Stop, Goto, Steps
<1>2. Creators' \subseteq Creators
  BY DEF Creators, Stop, Goto, IInv, TypeOK
<1>3. TwinsInv'
  BY <1>2, FewerCreators
<1> QED
  BY <1>1, <1>3 DEF IInv

LEMMA FaultCounts == ASSUME IInv, Fault PROVE faults' \in 0..MaxFaults
  BY CursorAssumption DEF Fault, IInv, TypeOK

LEMMA ReadKeeps ==
  ASSUME IInv, NEW p \in Procs, Read(p)
  PROVE  IInv'
<1> DEFINE page == at'[p]
<1>1. PICK q \in Pages : /\ at' = [at EXCEPT ![p] = q]
                         /\ \A r \in Pages : r < q => r \in covered
  <2>1. 1 \in Pages /\ \A r \in Pages : ~(r < 1)
    BY CursorAssumption DEF Pages
  <2>2. ASSUME docs # <<>>
        PROVE  docs[1] \in Pages /\ \A r \in Pages : r < docs[1] => r \in covered
    <3>1. 1 \in DOMAIN docs /\ docs[1] \in Pages
      BY <2>2 DEF IInv, TypeOK
    <3> QED
      BY <3>1 DEF IInv, CoveredBehindCursor
  <2> QED
    BY <2>1, <2>2 DEF Read
<1>2. faults' \in 0..MaxFaults
  BY FaultCounts DEF Read, IInv, TypeOK
<1>3. TypeOK' /\ RecordInv' /\ CoveredBehindCursor'
  BY <1>1, <1>2 DEF Read, IInv, TypeOK, RecordInv, CoveredBehindCursor, Goto, Steps
<1>4. CoverInv'
  BY <1>1 DEF Read, IInv, TypeOK, CoverInv, Goto
<1>5. Creators' \subseteq Creators
  BY DEF Read, Creators, Goto, IInv, TypeOK
<1>6. TwinsInv'
  BY <1>5, FewerCreators DEF Read
<1> QED
  BY <1>3, <1>4, <1>6 DEF IInv

LEMMA CrawlKeeps ==
  ASSUME IInv, NEW p \in Procs, Crawl(p)
  PROVE  IInv'
<1>1. CASE covered' = covered \union {at[p]} /\ Goto(p, "find") /\ UNCHANGED <<faults, at, record>>
  <2>1. \A page \in Pages : page <= at[p] => page \in covered'
    <3>1. at[p] \in Pages /\ \A page \in Pages : page < at[p] => page \in covered
      BY DEF Crawl, IInv, TypeOK, CoverInv
    <3> QED
      BY <1>1, <3>1 DEF Pages
  <2>2. TypeOK' /\ RecordInv' /\ CoveredBehindCursor'
    BY <1>1 DEF Crawl, IInv, TypeOK, RecordInv, CoveredBehindCursor, Goto, Steps
  <2>3. CoverInv'
    BY <1>1, <2>1 DEF Crawl, IInv, TypeOK, CoverInv, Goto
  <2>4. Creators' \subseteq Creators
    BY <1>1 DEF Crawl, Creators, Goto, IInv, TypeOK
  <2>5. TwinsInv'
    BY <2>4, FewerCreators DEF Crawl
  <2> QED
    BY <2>2, <2>3, <2>5 DEF IInv
<1>2. CASE LeavePage(p) /\ Fault /\ UNCHANGED covered
  BY <1>2, FaultCounts, StopKeeps DEF Crawl, LeavePage
<1> QED
  BY <1>1, <1>2 DEF Crawl

LEMMA FindKeeps ==
  ASSUME IInv, NEW p \in Procs, Find(p)
  PROVE  IInv'
<1>1. CASE record' = [record EXCEPT ![p] = FindOne] /\ Goto(p, "write") /\ UNCHANGED <<faults, at>>
  <2>1. \/ FindOne = 0 /\ docs = <<>>
        \/ FindOne = 1 /\ docs # <<>>
    BY DEF FindOne
  <2>2. TypeOK' /\ RecordInv'
    BY <1>1, <2>1 DEF Find, IInv, TypeOK, RecordInv, Goto, Steps
  <2>4. CoverInv' /\ CoveredBehindCursor'
    BY <1>1 DEF Find, IInv, TypeOK, CoverInv, CoveredBehindCursor, Goto
  <2>3. TwinsInv'
    <3>1. CASE docs = <<>>
      BY <3>1 DEF Find, TwinsInv
    <3>2. CASE docs # <<>>
      <4>1. Creators' \subseteq Creators
        BY <1>1, <2>1, <3>2 DEF Find, Creators, Goto, IInv, TypeOK
      <4> QED
        BY <4>1, FewerCreators DEF Find
    <3> QED
      BY <3>1, <3>2
  <2> QED
    BY <2>2, <2>3, <2>4 DEF IInv
<1>2. CASE Stop(p, "idle") /\ Fault
  BY <1>2, FaultCounts, StopKeeps DEF Find
<1> QED
  BY <1>1, <1>2 DEF Find

(* The pages before the one a process writes are covered.                  *)
LEMMA WritesCovered ==
  ASSUME IInv, NEW p \in Procs, pc[p] = "write"
  PROVE  /\ Follow(at[p]) \in Pages
         /\ \A page \in Pages : page < Follow(at[p]) => page \in covered
<1>1. at[p] \in Pages /\ \A page \in Pages : page <= at[p] => page \in covered
  BY DEF IInv, TypeOK, CoverInv
<1> QED
  BY <1>1, FollowInPages, CursorAssumption DEF Follow, Pages

(* What a write does to the documents.                                     *)
LEMMA DocsWritten ==
  ASSUME IInv, NEW p \in Procs, pc[p] = "write",
         docs' = IF record[p] = 0 THEN Append(docs, Follow(at[p]))
                                  ELSE [docs EXCEPT ![record[p]] = Follow(at[p])]
  PROVE  /\ docs' \in Seq(Pages) /\ docs' # <<>>
         /\ Len(docs') = IF record[p] = 0 THEN Len(docs) + 1 ELSE Len(docs)
         /\ \A i \in DOMAIN docs' : docs'[i] = Follow(at[p]) \/ (i \in DOMAIN docs /\ docs'[i] = docs[i])
         /\ record[p] = 0 /\ docs # <<>> => docs'[1] = docs[1]
         /\ ~(record[p] = 0 /\ docs # <<>>) => docs'[1] = Follow(at[p])
<1>1. docs \in Seq(Pages) /\ Follow(at[p]) \in Pages
  BY WritesCovered DEF IInv, TypeOK
<1>2. CASE record[p] = 0
  <2>1. docs' = Append(docs, Follow(at[p]))
    BY <1>2
  <2>2. docs' \in Seq(Pages) /\ Len(docs') = Len(docs) + 1
    BY <1>1, <2>1
  <2>3. \A i \in 1..Len(docs) : docs'[i] = docs[i]
    BY <1>1, <2>1
  <2>4. docs'[Len(docs) + 1] = Follow(at[p])
    BY <1>1, <2>1
  <2>5. DOMAIN docs = 1..Len(docs) /\ DOMAIN docs' = 1..(Len(docs) + 1) /\ Len(docs) \in Nat
    BY <1>1, <2>2
  <2>6. docs # <<>> => 1 \in 1..Len(docs)
    BY <1>1, <2>5
  <2>7. docs = <<>> => Len(docs) = 0
    OBVIOUS
  <2>8. docs' # <<>>
    BY <2>2, <2>5
  <2> QED
    BY <1>2, <2>2, <2>3, <2>4, <2>5, <2>6, <2>7, <2>8
<1>3. CASE record[p] # 0
  <2>1. record[p] = 1 /\ docs # <<>>
    BY <1>3 DEF IInv, RecordInv
  <2>2. docs' = [docs EXCEPT ![1] = Follow(at[p])] /\ 1 \in DOMAIN docs
    BY <1>1, <2>1
  <2>3. docs' \in Seq(Pages) /\ Len(docs') = Len(docs)
    <3>1. 1 \in 1..Len(docs)
      BY <1>1, <2>2
    <3>2. /\ [docs EXCEPT ![1] = Follow(at[p])] \in Seq(Pages)
          /\ Len([docs EXCEPT ![1] = Follow(at[p])]) = Len(docs)
      BY <1>1, <3>1, ExceptSeq
    <3> QED
      BY <2>2, <3>2
  <2>4. DOMAIN docs' = DOMAIN docs /\ docs'[1] = Follow(at[p])
    BY <1>1, <2>2
  <2>5. \A i \in DOMAIN docs : i # 1 => docs'[i] = docs[i]
    BY <1>1, <2>2
  <2> QED
    BY <1>1, <1>3, <2>1, <2>3, <2>4, <2>5
<1> QED
  BY <1>2, <1>3

LEMMA WriteKeeps ==
  ASSUME IInv, NEW p \in Procs, Write(p)
  PROVE  IInv'
<1>0. pc[p] = "write"
  BY DEF Write
<1>1. CASE /\ docs' = IF record[p] = 0 THEN Append(docs, Follow(at[p]))
                                       ELSE [docs EXCEPT ![record[p]] = Follow(at[p])]
           /\ Goto(p, "answer")
           /\ UNCHANGED <<faults, at, record>>
  <2>1. docs' \in Seq(Pages) /\ docs' # <<>>
    BY <1>0, <1>1, DocsWritten
  <2>2. TypeOK' /\ RecordInv' /\ CoverInv'
    BY <1>0, <1>1, <2>1 DEF Write, IInv, TypeOK, RecordInv, CoverInv, Goto, Steps
  <2>3. CoveredBehindCursor'
    <3>1. \A i \in DOMAIN docs' : docs'[i] = Follow(at[p]) \/ (i \in DOMAIN docs /\ docs'[i] = docs[i])
      BY <1>0, <1>1, DocsWritten
    <3>2. \A page \in Pages : page < Follow(at[p]) => page \in covered
      BY <1>0, WritesCovered
    <3> QED
      BY <3>1, <3>2 DEF Write, IInv, CoveredBehindCursor
  <2>4. TwinsInv'
    <3>1. CASE record[p] # 0
      <4>1. Creators' \subseteq Creators
        BY <1>1 DEF Write, Creators, Goto, IInv, TypeOK
      <4>2. Len(docs') = Len(docs) /\ docs # <<>>
        BY <1>0, <1>1, <3>1, DocsWritten DEF IInv, RecordInv
      <4> QED
        BY <4>1, <4>2, FewerCreators
    <3>2. CASE record[p] = 0
      <4>1. Creators' = Creators \ {p} /\ p \in Creators
        BY <1>0, <1>1, <3>2 DEF Write, Creators, Goto, IInv, TypeOK
      <4>2. Cardinality(Creators') = Cardinality(Creators) - 1
        BY <4>1, CreatorsBounded, FS_RemoveElement
      <4>3. Len(docs') = Len(docs) + 1 /\ Len(docs) \in Nat
        BY <1>0, <1>1, <3>2, DocsWritten DEF IInv, TypeOK
      <4>4. docs = <<>> => Len(docs) = 0
        OBVIOUS
      <4> QED
        BY <4>2, <4>3, <4>4, CreatorsBounded DEF IInv, TwinsInv
    <3> QED
      BY <3>1, <3>2
  <2> QED
    BY <2>2, <2>3, <2>4 DEF IInv
<1>2. CASE Stop(p, "idle") /\ Fault /\ UNCHANGED docs
  BY <1>2, FaultCounts, StopKeeps DEF Write
<1> QED
  BY <1>1, <1>2 DEF Write

LEMMA NextIInv == IInv /\ [Next]_vars => IInv'
<1> SUFFICES ASSUME IInv, [Next]_vars PROVE IInv'
  OBVIOUS
<1>1. ASSUME NEW p \in Procs, Answer(p) PROVE IInv'
  BY <1>1, StopKeeps DEF Answer, IInv, TypeOK
<1>2. ASSUME NEW p \in Procs, Hang(p) \/ Crash(p) PROVE IInv'
  BY <1>2, StopKeeps, FaultCounts DEF Hang, Crash
<1>3. CASE UNCHANGED vars
  <2>1. Creators' = Creators
    BY <1>3 DEF vars, Creators
  <2> QED
    BY <1>3, <2>1 DEF vars, IInv, TypeOK, RecordInv, CoverInv, CoveredBehindCursor, TwinsInv
<1> QED
  BY <1>1, <1>2, <1>3, ReadKeeps, CrawlKeeps, FindKeeps, WriteKeeps DEF Next, Step
----------------------------------------------------------------------------
(* The inductive invariant holds throughout.                               *)
THEOREM Invariance == Spec => []IInv
  BY InitIInv, NextIInv, PTL DEF Spec

(* Every variable keeps its type; the documents hold pages of the site.    *)
THEOREM TypeCorrect == Spec => []TypeOK
  BY Invariance, PTL DEF IInv

(* No document stands behind a page nobody has crawled, as long as all who *)
(* share it save once for each read, behind the crawl of the page they read*)
(* (Crawl.page, getJobInPage).                                             *)
THEOREM CursorsAreCovered == Spec => []CoveredBehindCursor
  BY Invariance, PTL DEF IInv

(* There are at most as many documents as processes.                       *)
THEOREM TwinsAreBounded == Spec => []TwinsPerProcess
<1>1. IInv => TwinsPerProcess
  <2> SUFFICES ASSUME IInv PROVE TwinsPerProcess
    OBVIOUS
  <2>1. docs = <<>> => Len(docs) = 0
    OBVIOUS
  <2>2. Len(docs) \in Nat
    BY DEF IInv, TypeOK
  <2> QED
    BY <2>1, <2>2, CreatorsBounded DEF IInv, TwinsInv, TwinsPerProcess
<1> QED
  BY <1>1, Invariance, PTL
----------------------------------------------------------------------------
(* The phases of the cell, without the CASE of CellPhase.                  *)
Phases == [p \in Procs |-> CellPhase(p)]
Content == IF docs = <<>> THEN 0 ELSE docs[1]

LEMMA PhaseOf ==
  ASSUME NEW p \in Procs, pc[p] \in Steps
  PROVE  /\ pc[p] = "idle" => CellPhase(p) = "idle"
         /\ pc[p] = "crawl" => CellPhase(p) = "crawl"
         /\ pc[p] = "find" => CellPhase(p) = "saving"
         /\ pc[p] = "write" =>
              CellPhase(p) = IF record[p] = 0 /\ docs # <<>> THEN "saved" ELSE "saving"
         /\ pc[p] = "answer" => CellPhase(p) = "saved"
         /\ pc[p] = "hung" => CellPhase(p) = "idle"
  BY DEF CellPhase, Steps

(* A step of p that leaves the documents moves no other process's phase.   *)
LEMMA OwnPhase ==
  ASSUME TypeOK, NEW p \in Procs, NEW step, Goto(p, step), UNCHANGED docs,
         \A q \in Procs : q # p => record'[q] = record[q]
  PROVE  /\ Phases' = [Phases EXCEPT ![p] = CellPhase(p)']
         /\ Content' = Content
<1>1. \A q \in Procs : q # p => CellPhase(q)' = CellPhase(q)
  BY DEF CellPhase, Goto, TypeOK
<1> QED
  BY <1>1 DEF Phases, Content

CellVars == <<Content, covered, Phases, at>>

LEMMA EndStep ==
  ASSUME TypeOK, NEW p \in Procs, NEW step \in {"idle", "hung"}, Stop(p, step),
         UNCHANGED <<docs, covered>>
  PROVE  Cell!End(p)
<1>1. pc'[p] \in {"idle", "hung"}
  BY DEF Stop, Goto, TypeOK
<1>2. CellPhase(p)' = "idle"
  BY <1>1 DEF CellPhase
<1>3. \A q \in Procs : q # p => record'[q] = record[q]
  BY DEF Stop, TypeOK
<1>4. Phases' = [Phases EXCEPT ![p] = "idle"] /\ Content' = Content
  BY <1>2, <1>3, OwnPhase DEF Stop
<1> QED
  BY <1>4 DEF Cell!End, Stop, Phases, Content

LEMMA ReadStep ==
  ASSUME IInv, NEW p \in Procs, Read(p)
  PROVE  Cell!Read(p)
<1>1. pc[p] = "idle" /\ pc'[p] = "crawl" /\ pc[p] \in Steps
  BY DEF Read, Goto, IInv, TypeOK
<1>2. CellPhase(p) = "idle" /\ CellPhase(p)' = "crawl"
  BY <1>1 DEF CellPhase
<1>3. Phases' = [Phases EXCEPT ![p] = "crawl"] /\ Content' = Content
  BY <1>2, OwnPhase DEF Read, IInv
<1>4. \E page \in {Cell!StartOf(Content), 1} : at' = [at EXCEPT ![p] = page]
  <2>1. docs # <<>> => docs[1] \in Pages
    BY DEF IInv, TypeOK
  <2>2. Cell!StartOf(Content) = IF docs = <<>> THEN 1 ELSE docs[1]
    BY <2>1 DEF Cell!StartOf, Cell!None, Content, Pages
  <2> QED
    BY <2>2 DEF Read
<1> QED
  BY <1>2, <1>3, <1>4 DEF Read, Cell!Read, Phases, Content

LEMMA CrawlStep ==
  ASSUME IInv, NEW p \in Procs, Crawl(p)
  PROVE  Cell!Crawl(p) \/ Cell!End(p)
<1>1. CASE covered' = covered \union {at[p]} /\ Goto(p, "find") /\ UNCHANGED <<faults, at, record>>
  <2>1. pc[p] = "crawl" /\ pc'[p] = "find"
    BY <1>1 DEF Crawl, Goto, IInv, TypeOK
  <2>2. CellPhase(p) = "crawl" /\ CellPhase(p)' = "saving"
    BY <2>1 DEF CellPhase
  <2>3. Phases' = [Phases EXCEPT ![p] = "saving"] /\ Content' = Content
    BY <1>1, <2>2, OwnPhase DEF Crawl, IInv
  <2> QED
    BY <1>1, <2>2, <2>3 DEF Crawl, Cell!Crawl, Phases, Content
<1>2. CASE LeavePage(p) /\ Fault /\ UNCHANGED covered
  BY <1>2, EndStep DEF Crawl, LeavePage, IInv
<1> QED
  BY <1>1, <1>2 DEF Crawl

(* To find the document or nothing does not show.                          *)
LEMMA FindStep ==
  ASSUME IInv, NEW p \in Procs, Find(p)
  PROVE  UNCHANGED CellVars \/ Cell!End(p)
<1>1. CASE record' = [record EXCEPT ![p] = FindOne] /\ Goto(p, "write") /\ UNCHANGED <<faults, at>>
  <2>1. pc[p] = "find" /\ pc'[p] = "write" /\ record'[p] = FindOne
    BY <1>1 DEF Find, Goto, IInv, TypeOK
  <2>2. ~(record'[p] = 0 /\ docs' # <<>>)
    BY <2>1 DEF Find, FindOne
  <2>3. CellPhase(p) = "saving" /\ CellPhase(p)' = "saving"
    BY <2>1, <2>2 DEF CellPhase
  <2>4. \A q \in Procs : q # p => record'[q] = record[q]
    BY <1>1 DEF IInv, TypeOK
  <2>5. Phases' = [Phases EXCEPT ![p] = "saving"] /\ Content' = Content
    BY <1>1, <2>3, <2>4, OwnPhase DEF Find, IInv
  <2>6. Phases' = Phases
    BY <2>3, <2>5 DEF Phases
  <2> QED
    BY <1>1, <2>5, <2>6 DEF Find, CellVars
<1>2. CASE Stop(p, "idle") /\ Fault
  BY <1>2, EndStep DEF Find, IInv
<1> QED
  BY <1>1, <1>2 DEF Find

(* The document is written: with the first create, all who wait to create  *)
(* one have written, and a later create does not show.                     *)
LEMMA WriteStep ==
  ASSUME IInv, NEW p \in Procs, Write(p)
  PROVE  \/ UNCHANGED CellVars
         \/ Cell!End(p)
         \/ \E writers \in SUBSET Procs : p \in writers /\ Cell!Write(writers, p)
<1>0. pc[p] = "write"
  BY DEF Write
<1>1. CASE /\ docs' = IF record[p] = 0 THEN Append(docs, Follow(at[p]))
                                       ELSE [docs EXCEPT ![record[p]] = Follow(at[p])]
           /\ Goto(p, "answer")
           /\ UNCHANGED <<faults, at, record>>
  <2>1. docs' # <<>>
    BY <1>0, <1>1, DocsWritten
  <2>2. pc'[p] = "answer" /\ \A q \in Procs : q # p => pc'[q] = pc[q]
    BY <1>1 DEF Goto, IInv, TypeOK
  <2>3. CellPhase(p)' = "saved"
    BY <2>2 DEF CellPhase
  <2>4. CASE record[p] = 0 /\ docs # <<>>
    <3>1. Content' = Content
      BY <1>0, <1>1, <2>1, <2>4, DocsWritten DEF Content
    <3>2. CellPhase(p) = "saved"
      BY <1>0, <2>4 DEF CellPhase
    <3>3. \A q \in Procs : q # p => CellPhase(q)' = CellPhase(q)
      BY <1>1, <2>1, <2>2, <2>4 DEF Write, CellPhase
    <3>4. Phases' = Phases
      BY <2>3, <3>2, <3>3 DEF Phases
    <3> QED
      BY <1>1, <3>1, <3>4 DEF Write, CellVars
  <2>5. CASE ~(record[p] = 0 /\ docs # <<>>)
    <3> DEFINE writers == IF docs = <<>> THEN Creators ELSE {p}
    <3>1. Content' = Cell!Follow(at[p])
      BY <1>0, <1>1, <2>1, <2>5, DocsWritten DEF Content, Follow, Cell!Follow
    <3>2. p \in writers /\ writers \in SUBSET Procs
      <4>1. docs = <<>> => record[p] = 0
        BY <1>0 DEF IInv, RecordInv
      <4> QED
        BY <1>0, <4>1 DEF Creators
    <3>3. \A q \in writers : CellPhase(q) = "saving"
      BY <1>0, <2>5 DEF Creators, CellPhase
    <3>4. \A q \in Procs : CellPhase(q)' = IF q \in writers THEN "saved" ELSE CellPhase(q)
      <4> SUFFICES ASSUME NEW q \in Procs
                   PROVE  CellPhase(q)' = IF q \in writers THEN "saved" ELSE CellPhase(q)
        OBVIOUS
      <4>1. CASE q = p
        BY <2>3, <3>2, <4>1
      <4>2. CASE q # p
        <5>1. pc'[q] = pc[q] /\ record'[q] = record[q]
          BY <1>1, <2>2, <4>2 DEF Write
        <5>2. CASE docs # <<>>
          BY <2>1, <4>2, <5>1, <5>2 DEF CellPhase
        <5>3. CASE docs = <<>> /\ pc[q] = "write" /\ record[q] = 0
          BY <2>1, <5>1, <5>3 DEF CellPhase, Creators
        <5>4. CASE docs = <<>> /\ ~(pc[q] = "write" /\ record[q] = 0)
          <6>1. q \notin writers
            BY <5>4 DEF Creators
          <6>2. CellPhase(q)' = CellPhase(q)
            BY <5>1, <5>4 DEF CellPhase
          <6> QED
            BY <6>1, <6>2
        <5> QED
          BY <5>2, <5>3, <5>4
      <4> QED
        BY <4>1, <4>2
    <3>5. \A q \in writers : Phases[q] = "saving"
      BY <3>2, <3>3 DEF Phases
    <3>6. Phases' = [q \in Procs |-> IF q \in writers THEN "saved" ELSE Phases[q]]
      BY <3>4 DEF Phases
    <3>7. UNCHANGED <<covered, at>>
      BY <1>1 DEF Write
    <3> HIDE DEF writers
    <3>8. Cell!Write(writers, p)
      BY <3>1, <3>5, <3>6, <3>7 DEF Cell!Write, Phases, Content
    <3> QED
      BY <3>2, <3>8
  <2> QED
    BY <2>4, <2>5
<1>2. CASE Stop(p, "idle") /\ Fault /\ UNCHANGED docs
  BY <1>2, EndStep DEF Write, IInv
<1> QED
  BY <1>1, <1>2 DEF Write

(* saveConfig's two steps on any number of documents, by any number of     *)
(* processes that fail and restart anywhere, write one cell atomically.    *)
THEOREM OneCell == Spec => ImplementsCell
<1>1. Init => Cell!Init
  <2> SUFFICES ASSUME Init PROVE Cell!Init
    OBVIOUS
  <2>1. \A p \in Procs : CellPhase(p) = "idle"
    BY DEF Init, CellPhase
  <2> QED
    BY <2>1 DEF Init, Cell!Init, Cell!None
<1>2. IInv /\ [Next]_vars => [Cell!Next]_CellVars
  <2> SUFFICES ASSUME IInv, [Next]_vars PROVE [Cell!Next]_CellVars
    OBVIOUS
  <2>1. ASSUME NEW p \in Procs, Step(p) PROVE [Cell!Next]_CellVars
    <3>1. CASE Read(p)
      BY <3>1, ReadStep DEF Cell!Next
    <3>2. CASE Crawl(p)
      BY <3>2, CrawlStep DEF Cell!Next
    <3>3. CASE Find(p)
      BY <3>3, FindStep DEF Cell!Next
    <3>4. CASE Write(p)
      BY <3>4, WriteStep DEF Cell!Next
    <3>5. CASE Answer(p)
      BY <3>5, EndStep DEF Answer, IInv, Cell!Next
    <3> QED
      BY <2>1, <3>1, <3>2, <3>3, <3>4, <3>5 DEF Step
  <2>2. ASSUME NEW p \in Procs, Hang(p) \/ Crash(p) PROVE [Cell!Next]_CellVars
    <3>1. Cell!End(p)
      BY <2>2, EndStep DEF Hang, Crash, IInv
    <3> QED
      BY <3>1 DEF Cell!Next
  <2>3. CASE UNCHANGED vars
    BY <2>3 DEF vars, CellVars, Content, Phases, CellPhase
  <2> QED
    BY <2>1, <2>2, <2>3 DEF Next
<1>3. CellVars = <<IF docs = <<>> THEN 0 ELSE docs[1], covered, [p \in Procs |-> CellPhase(p)], at>>
  BY DEF CellVars, Content, Phases
<1> QED
  BY <1>1, <1>2, <1>3, Invariance, PTL DEF Spec, ImplementsCell, Cell!Spec, CellVars, Content, Phases
============================================================================
