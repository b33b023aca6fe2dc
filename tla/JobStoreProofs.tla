-------------------------- MODULE JobStoreProofs ----------------------------
(***************************************************************************)
(* What saveJob stores: the documents (JobStore), for any savers,          *)
(* advertisements, fields and bounds; and, in the second part, their dates *)
(* (PostingDates), for any calendar, from any first crawl on.              *)
(***************************************************************************)
EXTENDS JobStore, PostingDates, TLAPS

(* A saver about to insert found nothing, so it has no document of its own *)
(* for the job; another saver may have one by now.                         *)
FreshInv ==
  \A s \in Savers : pc[s] = "insert" =>
    \A i \in DOMAIN docs : docs[i].id = Id(s) => docs[i].by # s

(* Savers save what they come across.                                      *)
OwnInv == \A s \in Savers : pc[s] # "idle" => scrape[s].advert \in AdvertsOf[s]

(* For a job only one saver comes across, the scrape it is saving is the   *)
(* newest, and after the save the document has all that clean left of it.  *)
NewestInv ==
  /\ \A x \in Ids, f \in Fields : acked[x][f].n <= count
  /\ \A i \in DOMAIN docs, f \in Fields : docs[i].fields[f].n <= count
  /\ \A s \in Savers : pc[s] # "idle" => scrape[s].n <= count
  /\ \A s \in Savers : pc[s] # "idle" /\ OnlyOneSaves(Id(s)) =>
       \A f \in Fields :
         /\ acked[Id(s)][f].n < scrape[s].n
         /\ \A i \in With(Id(s)) : docs[i].fields[f].n <= scrape[s].n

SavedInv ==
  \A s \in Savers : pc[s] = "count" /\ OnlyOneSaves(Id(s)) =>
    \E i \in With(Id(s)) : \A f \in Clean(scrape[s].reads) :
      docs[i].fields[f] = Value(scrape[s], f)

IInv ==
  /\ TypeOK
  /\ TwinsNeedTwoSavers
  /\ AckedIsKept
  /\ FreshInv
  /\ OwnInv
  /\ NewestInv
  /\ SavedInv
----------------------------------------------------------------------------
(* What clean leaves of a scrape, and a field after $set.                  *)
LEMMA AbsentTyped == Absent \in Values /\ Absent.n = 0
  BY DEF Absent, Values

LEMMA ValuesTyped ==
  ASSUME NEW v \in Values
  PROVE  v.n \in 0..MaxScrapes /\ v.is # Null
  BY StoreAssumption DEF Values, Absent, Readings, Null

LEMMA CleanLeaves ==
  ASSUME NEW sc \in Scrapes, NEW f \in Clean(sc.reads)
  PROVE  f \in Fields /\ Value(sc, f) \in Values /\ Value(sc, f).n = sc.n /\ Value(sc, f).is # Null
  BY DEF Scrapes, Clean, Value, Values

LEMMA SetGives ==
  ASSUME NEW old \in [Fields -> Values], NEW sc \in Scrapes
  PROVE  /\ Set(old, sc) \in [Fields -> Values]
         /\ \A f \in Fields :
              Set(old, sc)[f] = IF f \in Clean(sc.reads) THEN Value(sc, f) ELSE old[f]
  BY CleanLeaves DEF Set

LEMMA EmptyTyped == Empty \in [Fields -> Values]
  BY AbsentTyped DEF Empty

(* The steps that change no document and move one saver, which was saving, *)
(* back to idle or on to the insert: they disturb none of the conjuncts.   *)
LEMMA InitInv == Init => IInv
<1> SUFFICES ASSUME Init PROVE IInv
  OBVIOUS
<1>1. \A x \in Ids, f \in Fields : acked[x][f] = Absent
  BY DEF Init, Empty
<1>2. TypeOK
  BY StoreAssumption, EmptyTyped DEF Init, TypeOK
<1>3. NewestInv
  BY <1>1, AbsentTyped DEF Init, NewestInv
<1>4. TwinsNeedTwoSavers /\ AckedIsKept /\ FreshInv /\ OwnInv /\ SavedInv
  BY <1>1 DEF Init, TwinsNeedTwoSavers, AckedIsKept, FreshInv, OwnInv, SavedInv
<1> QED BY <1>2, <1>3, <1>4 DEF IInv

LEMMA IdInIds ==
  ASSUME TypeOK, NEW s \in Savers, pc[s] # "idle"
  PROVE  /\ scrape[s] \in Scrapes
         /\ Id(s) \in Ids
         /\ scrape[s].n \in 1..MaxScrapes
  BY DEF TypeOK, Scrapes, Id, Ids

LEMMA DocsTyped ==
  ASSUME TypeOK, NEW i \in DOMAIN docs
  PROVE  /\ docs[i] \in Docs
         /\ docs[i].fields \in [Fields -> Values]
         /\ \A f \in Fields : docs[i].fields[f].n \in 0..MaxScrapes
         /\ i \in 1..Len(docs)
<1>1. i \in 1..Len(docs)
  BY DEF TypeOK
<1>2. docs[i] \in Docs
  BY <1>1 DEF TypeOK
<1>3. docs[i].fields \in [Fields -> Values]
  BY <1>2 DEF Docs
<1> QED BY <1>1, <1>2, <1>3, ValuesTyped

LEMMA AckedTyped ==
  ASSUME TypeOK, NEW x \in Ids, NEW f \in Fields
  PROVE  acked[x][f] \in Values /\ acked[x][f].n \in 0..MaxScrapes /\ acked[x][f].is # Null
<1>1. acked[x][f] \in Values
  BY DEF TypeOK
<1> QED BY <1>1, ValuesTyped

(* Nothing but pc and scrape of one saver changes, and it ends up idle.    *)
LEMMA LeaveKeeps ==
  ASSUME IInv, NEW s \in Savers, pc[s] # "idle", Leave(s), docs' = docs,
         acked' = acked, count' = count, faults' \in 0..MaxFaults
  PROVE  IInv'
<1>1. \A t \in Savers : t # s => pc'[t] = pc[t] /\ scrape'[t] = scrape[t] /\ Id(t)' = Id(t)
  BY DEF Leave, Goto, IInv, TypeOK, Id
<1>2. pc'[s] = "idle" /\ \A x : With(x)' = With(x)
  BY DEF Leave, Goto, IInv, TypeOK, With
<1>3. TypeOK'
  BY <1>1, <1>2 DEF Leave, Goto, IInv, TypeOK
<1>4. TwinsNeedTwoSavers' /\ AckedIsKept'
  BY <1>2 DEF IInv, TwinsNeedTwoSavers, AckedIsKept, OnlyOneSaves, Saves
<1>5. FreshInv' /\ OwnInv'
  BY <1>1, <1>2 DEF IInv, FreshInv, OwnInv
<1>6. NewestInv'
  BY <1>1, <1>2 DEF IInv, NewestInv, OnlyOneSaves, Saves
<1>7. SavedInv'
  BY <1>1, <1>2 DEF IInv, SavedInv, OnlyOneSaves, Saves
<1> QED BY <1>3, <1>4, <1>5, <1>6, <1>7 DEF IInv

(* The step of a saver that goes on: the others are as before.             *)
LEMMA OthersStay ==
  ASSUME TypeOK, NEW s \in Savers, NEW step, Goto(s, step), UNCHANGED scrape
  PROVE  /\ pc'[s] = step
         /\ \A t \in Savers : t # s => pc'[t] = pc[t]
         /\ \A t \in Savers : Id(t)' = Id(t)
  BY DEF Goto, TypeOK, Id

LEMMA ScrapeKeeps ==
  ASSUME IInv, NEW s \in Savers, Scrape(s)
  PROVE  IInv'
<1>1. PICK a \in AdvertsOf[s], reads \in [Fields -> Readings] :
        scrape' = [scrape EXCEPT ![s] = [advert |-> a, n |-> count + 1, reads |-> reads]]
  BY DEF Scrape
<1>2. \A t \in Savers : t # s => pc'[t] = pc[t] /\ scrape'[t] = scrape[t] /\ Id(t)' = Id(t)
  BY <1>1 DEF Scrape, Goto, IInv, TypeOK, Id
<1>3. pc'[s] = "match" /\ scrape'[s] = [advert |-> a, n |-> count + 1, reads |-> reads]
  BY <1>1 DEF Scrape, Goto, IInv, TypeOK
<1>4. docs' = docs /\ acked' = acked /\ count' = count + 1 /\ \A x : With(x)' = With(x)
  BY DEF Scrape, With
<1>5. TypeOK'
  <2>1. scrape'[s] \in Scrapes
    <3>1. count + 1 \in 1..MaxScrapes
      BY StoreAssumption DEF Scrape, IInv, TypeOK
    <3>2. a \in Adverts
      BY StoreAssumption
    <3> QED BY <3>1, <3>2, <1>3 DEF Scrapes
  <2> QED BY <2>1, <1>1, <1>2, <1>4, StoreAssumption DEF Scrape, Goto, IInv, TypeOK
<1>6. TwinsNeedTwoSavers' /\ AckedIsKept'
  BY <1>4 DEF IInv, TwinsNeedTwoSavers, AckedIsKept, OnlyOneSaves, Saves
<1>7. FreshInv' /\ OwnInv'
  BY <1>1, <1>2, <1>3, <1>4 DEF IInv, FreshInv, OwnInv
<1>8. NewestInv'
  <2>1. Id(s)' \in Ids
    BY <1>3, StoreAssumption DEF Id, Ids
  <2>2. \A x \in Ids, f \in Fields : acked[x][f].n \in Nat /\ acked[x][f].n <= count
    BY AckedTyped DEF IInv, NewestInv
  <2>3. \A i \in DOMAIN docs, f \in Fields : docs[i].fields[f].n \in Nat /\ docs[i].fields[f].n <= count
    BY DocsTyped DEF IInv, NewestInv
  <2>4. count \in Nat
    BY DEF IInv, TypeOK
  <2>5. \A t \in Savers : pc[t] # "idle" => scrape[t].n \in Nat /\ scrape[t].n <= count
    BY IdInIds DEF IInv, NewestInv
  <2>6. ASSUME NEW t \in Savers, pc'[t] # "idle", OnlyOneSaves(Id(t))'
        PROVE  \A f \in Fields :
                 /\ acked'[Id(t)'][f].n < scrape'[t].n
                 /\ \A i \in With(Id(t)') : docs[i].fields[f].n <= scrape'[t].n
    <3>1. CASE t = s
      BY <3>1, <2>1, <2>2, <2>3, <2>4, <1>3, <1>4 DEF With
    <3>2. CASE t # s
      <4>1. OnlyOneSaves(Id(t))
        BY <2>6, <3>2, <1>2 DEF OnlyOneSaves, Saves
      <4> QED BY <4>1, <2>6, <3>2, <1>2, <1>4 DEF IInv, NewestInv
    <3> QED BY <3>1, <3>2
  <2> QED BY <2>2, <2>3, <2>4, <2>5, <2>6, <1>2, <1>3, <1>4 DEF NewestInv
<1>9. SavedInv'
  BY <1>2, <1>3, <1>4 DEF IInv, SavedInv, OnlyOneSaves, Saves
<1> QED BY <1>5, <1>6, <1>7, <1>8, <1>9 DEF IInv

LEMMA MissKeeps ==
  ASSUME IInv, NEW s \in Savers, Miss(s)
  PROVE  IInv'
<1>1. Goto(s, "insert") /\ UNCHANGED scrape /\ docs' = docs /\ acked' = acked /\ count' = count
  BY DEF Miss
<1>2. /\ pc'[s] = "insert"
      /\ \A t \in Savers : t # s => pc'[t] = pc[t]
      /\ \A t \in Savers : Id(t)' = Id(t) /\ scrape'[t] = scrape[t]
      /\ \A x : With(x)' = With(x)
  BY <1>1, OthersStay DEF IInv, With
<1>3. TypeOK'
  BY <1>1, IdInIds DEF Miss, Goto, IInv, TypeOK
<1>4. TwinsNeedTwoSavers' /\ AckedIsKept'
  BY <1>1, <1>2 DEF IInv, TwinsNeedTwoSavers, AckedIsKept, OnlyOneSaves, Saves
<1>5. FreshInv' /\ OwnInv'
  BY <1>1, <1>2 DEF Miss, NoMatch, With, IInv, FreshInv, OwnInv
<1>6. NewestInv'
  BY <1>1, <1>2 DEF Miss, IInv, NewestInv, OnlyOneSaves, Saves
<1>7. SavedInv'
  BY <1>1, <1>2 DEF IInv, SavedInv, OnlyOneSaves, Saves
<1> QED BY <1>3, <1>4, <1>5, <1>6, <1>7 DEF IInv

(* What every write of a document has in common.                           *)
LEMMA AnswerMoves ==
  ASSUME TypeOK, NEW s \in Savers, Answer(s)
  PROVE  /\ pc'[s] \in {"count", "idle"}
         /\ pc'[s] = "count" => scrape'[s] = scrape[s] /\ Id(s)' = Id(s)
         /\ \A t \in Savers : t # s => pc'[t] = pc[t] /\ scrape'[t] = scrape[t] /\ Id(t)' = Id(t)
         /\ pc' \in [Savers -> {"idle", "match", "insert", "count"}]
         /\ DOMAIN scrape' = Savers
         /\ faults' \in 0..MaxFaults
  BY StoreAssumption DEF Answer, Leave, Fault, Goto, TypeOK, Id

LEMMA UpdateKeeps ==
  ASSUME IInv, NEW s \in Savers, Update(s)
  PROVE  IInv'
<1> DEFINE x == Id(s)
           sc == scrape[s]
<1>1. PICK i \in With(x) :
        docs' = [docs EXCEPT ![i] = Updated(docs[i], sc)]
  BY DEF Update
<1>2. /\ sc \in Scrapes /\ x \in Ids /\ sc.n \in 1..MaxScrapes
      /\ pc[s] = "match"
  BY IdInIds DEF Update, IInv
<1>3. i \in DOMAIN docs /\ docs[i] \in Docs /\ docs[i].id = x /\ docs[i].fields \in [Fields -> Values]
  BY <1>1, DocsTyped DEF With, IInv
<1>4. /\ DOMAIN docs' = DOMAIN docs
      /\ \A j \in DOMAIN docs : j # i => docs'[j] = docs[j]
      /\ \A j \in DOMAIN docs : docs'[j].id = docs[j].id /\ docs'[j].by = docs[j].by
      /\ docs'[i].fields = Set(docs[i].fields, sc)
      /\ docs'[i].adverts = docs[i].adverts \union {sc.advert}
  <2> DEFINE d == Updated(docs[i], sc)
  <2>1. docs' = [docs EXCEPT ![i] = d]
    BY <1>1
  <2>2. DOMAIN docs = 1..Len(docs) /\ docs \in [1..Len(docs) -> Docs]
    BY DEF IInv, TypeOK
  <2>3. /\ d.id = docs[i].id /\ d.by = docs[i].by
        /\ d.fields = Set(docs[i].fields, sc)
        /\ d.adverts = docs[i].adverts \union {sc.advert}
    BY <1>3 DEF Docs, Updated
  <2>4. DOMAIN docs' = DOMAIN docs /\ docs'[i] = d /\ \A j \in DOMAIN docs : j # i => docs'[j] = docs[j]
    BY <2>1, <2>2, <1>3
  <2> HIDE DEF d
  <2> QED BY <2>3, <2>4
<1>5. \A y : With(y)' = With(y)
  BY <1>4 DEF With
<1>6. /\ Set(docs[i].fields, sc) \in [Fields -> Values]
      /\ \A f \in Fields : Set(docs[i].fields, sc)[f]
           = IF f \in Clean(sc.reads) THEN Value(sc, f) ELSE docs[i].fields[f]
  BY <1>2, <1>3, SetGives
<1>7. docs'[i] \in Docs
  <2>1. docs[i].adverts \union {sc.advert} \in SUBSET Adverts
    BY <1>2, <1>3 DEF Docs, Scrapes
  <2>2. docs'[i] = Updated(docs[i], sc)
    BY <1>1, <1>3 DEF IInv, TypeOK
  <2> QED BY <2>1, <2>2, <1>3, <1>6 DEF Docs, Updated
<1>8. count' = count /\ acked' = acked
  BY DEF Update
<1>9. TypeOK'
  <2>1. docs' \in Seq(Docs)
    BY <1>1, <1>3, <1>7 DEF IInv, TypeOK
  <2> QED BY <2>1, <1>8, AnswerMoves DEF Update, IInv, TypeOK
<1>10. TwinsNeedTwoSavers'
  BY <1>4 DEF IInv, TwinsNeedTwoSavers
<1>11. OnlyOneSaves(x) =>
         \A f \in Fields : /\ docs'[i].fields[f].n <= sc.n
                           /\ Newer(docs[i].fields[f], acked[x][f]) => Newer(docs'[i].fields[f], acked[x][f])
                           /\ acked[x][f].n < sc.n
                           /\ f \in Clean(sc.reads) => docs'[i].fields[f] = Value(sc, f)
  <2> SUFFICES ASSUME OnlyOneSaves(x), NEW f \in Fields
               PROVE  /\ docs'[i].fields[f].n <= sc.n
                      /\ Newer(docs[i].fields[f], acked[x][f]) => Newer(docs'[i].fields[f], acked[x][f])
                      /\ acked[x][f].n < sc.n
                      /\ f \in Clean(sc.reads) => docs'[i].fields[f] = Value(sc, f)
    OBVIOUS
  <2>1. acked[x][f].n < sc.n /\ docs[i].fields[f].n <= sc.n
    BY <1>1, <1>2 DEF IInv, NewestInv
  <2>2. docs'[i].fields[f] = IF f \in Clean(sc.reads) THEN Value(sc, f) ELSE docs[i].fields[f]
    BY <1>4, <1>6
  <2>3. CASE f \in Clean(sc.reads)
    <3>1. Value(sc, f).n = sc.n /\ Value(sc, f).is # Null
      BY <1>2, <2>3, CleanLeaves
    <3> QED BY <1>2, <2>1, <2>2, <2>3, <3>1 DEF Newer
  <2>4. CASE f \notin Clean(sc.reads)
    BY <2>1, <2>2, <2>4
  <2> QED BY <2>3, <2>4
<1>12. AckedIsKept'
  <2> SUFFICES ASSUME NEW y \in Ids, OnlyOneSaves(y), NEW f \in Fields, acked[y][f] # Absent
               PROVE  \E j \in With(y) : Newer(docs'[j].fields[f], acked[y][f])
    BY <1>5, <1>8 DEF AckedIsKept, OnlyOneSaves, Saves, Newer
  <2>1. PICK j \in With(y) : Newer(docs[j].fields[f], acked[y][f])
    BY DEF IInv, AckedIsKept
  <2>2. CASE j = i
    <3>1. y = x
      BY <2>1, <2>2, <1>3 DEF With
    <3> QED BY <3>1, <2>1, <2>2, <1>11
  <2>3. CASE j # i
    BY <2>1, <2>3, <1>4 DEF With
  <2> QED BY <2>2, <2>3
<1>13. FreshInv'
  BY <1>4, <1>2, AnswerMoves DEF Update, IInv, FreshInv
<1>14. OwnInv'
  BY <1>2, AnswerMoves DEF Update, IInv, OwnInv
<1>15. NewestInv'
  <2>0. \A f \in Fields : docs'[i].fields[f].n <= count
    <3> SUFFICES ASSUME NEW f \in Fields PROVE docs'[i].fields[f].n <= count
      OBVIOUS
    <3>1. docs[i].fields[f].n <= count /\ sc.n <= count
      BY <1>2, <1>3 DEF IInv, NewestInv
    <3>2. f \in Clean(sc.reads) => Value(sc, f).n = sc.n
      BY <1>2, CleanLeaves
    <3> QED BY <3>1, <3>2, <1>4, <1>6
  <2>1. \A j \in DOMAIN docs', f \in Fields : docs'[j].fields[f].n <= count'
    BY <2>0, <1>3, <1>4, <1>8 DEF IInv, NewestInv
  <2>2. \A t \in Savers : pc'[t] # "idle" => scrape'[t].n <= count'
    BY <1>2, <1>8, AnswerMoves DEF Update, IInv, NewestInv
  <2>3. ASSUME NEW t \in Savers, pc'[t] # "idle", OnlyOneSaves(Id(t))'
        PROVE  \A f \in Fields :
                 /\ acked'[Id(t)'][f].n < scrape'[t].n
                 /\ \A j \in With(Id(t))' : docs'[j].fields[f].n <= scrape'[t].n
    <3>1. scrape'[t] = scrape[t] /\ Id(t)' = Id(t) /\ pc[t] # "idle"
      BY <2>3, <1>2, AnswerMoves DEF Update, IInv
    <3>2. OnlyOneSaves(Id(t))
      BY <2>3, <3>1 DEF OnlyOneSaves, Saves
    <3>3. CASE t = s
      <4>1. \A f \in Fields, j \in With(x) : docs[j].fields[f].n <= sc.n
        BY <3>1, <3>2, <3>3 DEF IInv, NewestInv
      <4>2. \A f \in Fields, j \in With(x) : docs'[j].fields[f].n <= sc.n
        BY <4>1, <3>2, <3>3, <1>4, <1>11 DEF With
      <4> QED BY <4>2, <3>1, <3>2, <3>3, <1>5, <1>8, <1>11
    <3>4. CASE t # s
      <4>1. Saves(t, Id(t)) /\ Saves(s, x)
        BY <1>2, <3>1 DEF IInv, OwnInv, Saves, Id
      <4>2. Id(t) # x
        BY <4>1, <3>2, <3>4 DEF OnlyOneSaves
      <4>3. i \notin With(Id(t))
        BY <4>2, <1>3 DEF With
      <4> QED BY <4>3, <3>1, <3>2, <1>4, <1>5, <1>8 DEF IInv, NewestInv, With
    <3> QED BY <3>3, <3>4
  <2> QED BY <2>1, <2>2, <2>3, <1>8 DEF IInv, NewestInv
<1>16. SavedInv'
  <2> SUFFICES ASSUME NEW t \in Savers, pc'[t] = "count", OnlyOneSaves(Id(t))'
               PROVE  \E j \in With(Id(t))' : \A f \in Clean(scrape'[t].reads) : docs'[j].fields[f] = Value(scrape'[t], f)
    BY DEF SavedInv
  <2>1. scrape'[t] = scrape[t] /\ Id(t)' = Id(t) /\ pc[t] # "idle"
    BY <1>2, AnswerMoves DEF Update, IInv
  <2>2. OnlyOneSaves(Id(t))
    BY <2>1 DEF OnlyOneSaves, Saves
  <2>3. CASE t = s
    <3>1. \A f \in Clean(sc.reads) : docs'[i].fields[f] = Value(sc, f)
      BY <2>1, <2>2, <2>3, <1>2, <1>11, CleanLeaves
    <3> QED BY <3>1, <2>1, <2>3, <1>1, <1>5
  <2>4. CASE t # s
    <3>1. pc[t] = "count"
      BY <2>4, AnswerMoves DEF Update, IInv
    <3>2. PICK j \in With(Id(t)) : \A f \in Clean(scrape[t].reads) : docs[j].fields[f] = Value(scrape[t], f)
      BY <3>1, <2>2 DEF IInv, SavedInv
    <3>3. Saves(t, Id(t)) /\ Saves(s, x)
      BY <1>2, <2>1 DEF IInv, OwnInv, Saves, Id
    <3>4. j # i
      BY <3>2, <3>3, <2>2, <2>4, <1>3 DEF OnlyOneSaves, With
    <3> QED BY <3>2, <3>4, <2>1, <1>4, <1>5 DEF With
  <2> QED BY <2>3, <2>4
<1> QED BY <1>9, <1>10, <1>12, <1>13, <1>14, <1>15, <1>16 DEF IInv

LEMMA InsertKeeps ==
  ASSUME IInv, NEW s \in Savers, Insert(s)
  PROVE  IInv'
<1> DEFINE x == Id(s)
           sc == scrape[s]
           n == Len(docs) + 1
<1>1. /\ sc \in Scrapes /\ x \in Ids /\ sc.n \in 1..MaxScrapes
      /\ pc[s] = "insert"
  BY IdInIds DEF Insert, IInv
<1>2. /\ NewDoc(s).id = x /\ NewDoc(s).by = s /\ NewDoc(s).adverts = {sc.advert}
      /\ NewDoc(s).fields = Set(Empty, sc)
  BY DEF NewDoc
<1>3. /\ NewDoc(s).fields \in [Fields -> Values] /\ NewDoc(s) \in Docs
      /\ \A f \in Fields : NewDoc(s).fields[f] = IF f \in Clean(sc.reads) THEN Value(sc, f) ELSE Absent
  <2>1. /\ NewDoc(s).fields \in [Fields -> Values]
        /\ \A f \in Fields : NewDoc(s).fields[f] = IF f \in Clean(sc.reads) THEN Value(sc, f) ELSE Absent
    <3>1. \A f \in Fields : Empty[f] = Absent
      BY DEF Empty
    <3> QED BY <3>1, <1>1, <1>2, EmptyTyped, SetGives
  <2>2. sc.advert \in Adverts
    BY <1>1 DEF Scrapes
  <2> QED BY <2>1, <2>2, <1>1, <1>2 DEF NewDoc, Docs
<1>4. /\ docs' \in Seq(Docs) /\ DOMAIN docs = 1..Len(docs) /\ DOMAIN docs' = 1..n
      /\ docs'[n] = NewDoc(s) /\ \A i \in DOMAIN docs : docs'[i] = docs[i]
      /\ Len(docs) \in Nat
  BY <1>3 DEF Insert, IInv, TypeOK
<1>5. count' = count /\ acked' = acked
  BY DEF Insert
<1>6. \A y : With(y) \subseteq With(y)'
  BY <1>4 DEF With
<1>7. \A y : With(y)' = IF y = x THEN With(y) \union {n} ELSE With(y)
  <2>1. \A y : With(y)' = {i \in 1..n : docs'[i].id = y}
    BY <1>4 DEF With
  <2>2. \A y : With(y) = {i \in 1..(n - 1) : docs[i].id = y}
    BY <1>4 DEF With
  <2>3. \A i \in 1..(n - 1) : docs'[i].id = docs[i].id
    BY <1>4
  <2>4. docs'[n].id = x /\ 1..n = (1..(n - 1)) \union {n} /\ n \notin 1..(n - 1)
    BY <1>2, <1>4
  <2>5. \A y, i : i \in With(y)' <=> i \in With(y) \/ (i = n /\ y = x)
    <3> HIDE DEF n, x
    <3> QED BY <2>1, <2>2, <2>3, <2>4
  <2> HIDE DEF n, x
  <2> QED BY <2>5
<1>8. TypeOK'
  BY <1>4, <1>5, AnswerMoves DEF Insert, IInv, TypeOK
<1>9. TwinsNeedTwoSavers'
  BY <1>1, <1>2, <1>4 DEF IInv, FreshInv, TwinsNeedTwoSavers
<1>10. AckedIsKept'
  BY <1>4, <1>5, <1>6 DEF IInv, AckedIsKept, OnlyOneSaves, Saves, With
<1>11. FreshInv'
  BY <1>1, <1>2, <1>4, AnswerMoves DEF Insert, IInv, FreshInv
<1>12. OwnInv'
  BY <1>1, AnswerMoves DEF Insert, IInv, OwnInv
<1>13. NewestInv'
  <2>1. \A f \in Fields : docs'[n].fields[f].n <= sc.n /\ docs'[n].fields[f].n <= count
    <3> SUFFICES ASSUME NEW f \in Fields
                 PROVE  docs'[n].fields[f].n <= sc.n /\ docs'[n].fields[f].n <= count
      OBVIOUS
    <3>1. sc.n \in Nat /\ count \in Nat /\ sc.n <= count
      BY <1>1 DEF IInv, NewestInv, TypeOK
    <3>2. f \in Clean(sc.reads) => Value(sc, f).n = sc.n
      BY <1>1, CleanLeaves
    <3> QED BY <3>1, <3>2, <1>3, <1>4, AbsentTyped
  <2>2. \A i \in DOMAIN docs', f \in Fields : docs'[i].fields[f].n <= count'
    BY <2>1, <1>4, <1>5 DEF IInv, NewestInv
  <2>3. \A t \in Savers : pc'[t] # "idle" => scrape'[t].n <= count'
    BY <1>1, <1>5, AnswerMoves DEF Insert, IInv, NewestInv
  <2>4. ASSUME NEW t \in Savers, pc'[t] # "idle", OnlyOneSaves(Id(t))'
        PROVE  \A f \in Fields :
                 /\ acked'[Id(t)'][f].n < scrape'[t].n
                 /\ \A j \in With(Id(t))' : docs'[j].fields[f].n <= scrape'[t].n
    <3>1. scrape'[t] = scrape[t] /\ Id(t)' = Id(t) /\ pc[t] # "idle"
      BY <2>4, <1>1, AnswerMoves DEF Insert, IInv
    <3>2. OnlyOneSaves(Id(t))
      BY <2>4, <3>1 DEF OnlyOneSaves, Saves
    <3>3. \A f \in Fields : acked[Id(t)][f].n < scrape[t].n
                            /\ \A j \in With(Id(t)) : docs[j].fields[f].n <= scrape[t].n
      BY <3>1, <3>2 DEF IInv, NewestInv
    <3>4. \A f \in Fields, j \in With(Id(t)) : docs'[j].fields[f].n <= scrape[t].n
      BY <3>3, <1>4 DEF With
    <3>5. CASE t = s
      BY <3>1, <3>3, <3>4, <3>5, <2>1, <1>5, <1>7
    <3>6. CASE t # s
      <4>1. Saves(t, Id(t)) /\ Saves(s, x)
        BY <1>1, <3>1 DEF IInv, OwnInv, Saves, Id
      <4>2. Id(t) # x
        BY <4>1, <3>2, <3>6 DEF OnlyOneSaves
      <4> QED BY <4>2, <3>1, <3>3, <3>4, <1>5, <1>7
    <3> QED BY <3>5, <3>6
  <2> QED BY <2>2, <2>3, <2>4, <1>5 DEF IInv, NewestInv
<1>14. SavedInv'
  <2> SUFFICES ASSUME NEW t \in Savers, pc'[t] = "count", OnlyOneSaves(Id(t))'
               PROVE  \E j \in With(Id(t))' : \A f \in Clean(scrape'[t].reads) : docs'[j].fields[f] = Value(scrape'[t], f)
    BY DEF SavedInv
  <2>1. scrape'[t] = scrape[t] /\ Id(t)' = Id(t) /\ pc[t] # "idle"
    BY <1>1, AnswerMoves DEF Insert, IInv
  <2>2. CASE t = s
    <3>1. \A f \in Clean(sc.reads) : docs'[n].fields[f] = Value(sc, f)
      BY <1>1, <1>3, <1>4, CleanLeaves
    <3>2. n \in With(Id(t))'
      BY <2>1, <2>2, <1>7
    <3> QED BY <3>1, <3>2, <2>1, <2>2
  <2>3. CASE t # s
    <3>1. pc[t] = "count" /\ OnlyOneSaves(Id(t))
      BY <2>1, <2>3, AnswerMoves DEF Insert, IInv, OnlyOneSaves, Saves
    <3>2. PICK j \in With(Id(t)) : \A f \in Clean(scrape[t].reads) : docs[j].fields[f] = Value(scrape[t], f)
      BY <3>1 DEF IInv, SavedInv
    <3> QED BY <3>2, <2>1, <1>4, <1>6 DEF With
  <2> QED BY <2>2, <2>3
<1> QED BY <1>8, <1>9, <1>10, <1>11, <1>12, <1>13, <1>14 DEF IInv

LEMMA CountKeeps ==
  ASSUME IInv, NEW s \in Savers, Count(s)
  PROVE  IInv'
<1> DEFINE x == Id(s)
           sc == scrape[s]
           kept == Set(acked[x], sc)
<1>1. CASE UNCHANGED acked
  BY <1>1, LeaveKeeps, StoreAssumption DEF Count, Fault, IInv, TypeOK
<1>2. CASE acked' = [acked EXCEPT ![x] = kept] /\ UNCHANGED faults
  <2>1. /\ sc \in Scrapes /\ x \in Ids /\ sc.n \in 1..MaxScrapes
        /\ pc[s] = "count"
    BY IdInIds DEF Count, IInv
  <2>2. /\ pc'[s] = "idle" /\ docs' = docs /\ count' = count /\ \A y : With(y)' = With(y)
        /\ \A t \in Savers : t # s => pc'[t] = pc[t] /\ scrape'[t] = scrape[t] /\ Id(t)' = Id(t)
    BY DEF Count, Leave, Goto, IInv, TypeOK, Id, With
  <2>3. /\ kept \in [Fields -> Values]
        /\ \A f \in Fields : kept[f] = IF f \in Clean(sc.reads) THEN Value(sc, f) ELSE acked[x][f]
    <3>1. acked[x] \in [Fields -> Values]
      BY <2>1 DEF IInv, TypeOK
    <3> QED BY <2>1, <3>1, SetGives
  <2> HIDE DEF kept
  <2>4. /\ acked' \in [Ids -> [Fields -> Values]]
        /\ acked'[x] = kept /\ \A y \in Ids : y # x => acked'[y] = acked[y]
    BY <1>2, <2>1, <2>3 DEF IInv, TypeOK
  <2>5. TypeOK'
    BY <1>2, <2>2, <2>4 DEF Count, Leave, Goto, IInv, TypeOK
  <2>6. TwinsNeedTwoSavers' /\ FreshInv' /\ OwnInv'
    BY <2>2 DEF IInv, TwinsNeedTwoSavers, FreshInv, OwnInv
  <2>8. AckedIsKept'
    <3> SUFFICES ASSUME NEW y \in Ids, OnlyOneSaves(y), NEW f \in Fields, acked'[y][f] # Absent
                 PROVE  \E j \in With(y) : Newer(docs[j].fields[f], acked'[y][f])
      BY <2>2 DEF AckedIsKept, OnlyOneSaves, Saves, Newer
    <3>1. CASE y = x /\ f \in Clean(sc.reads)
      <4>1. PICK j \in With(x) : \A g \in Clean(sc.reads) : docs[j].fields[g] = Value(sc, g)
        BY <3>1, <2>1 DEF IInv, SavedInv
      <4>2. acked'[y][f] = Value(sc, f)
        BY <3>1, <2>3, <2>4
      <4> QED BY <4>1, <4>2, <3>1 DEF Newer
    <3>2. CASE y # x \/ f \notin Clean(sc.reads)
      <4>1. acked'[y][f] = acked[y][f]
        BY <3>2, <2>3, <2>4
      <4> QED BY <4>1 DEF IInv, AckedIsKept
    <3> QED BY <3>1, <3>2
  <2>9. NewestInv'
    <3>1. \A y \in Ids, f \in Fields : acked'[y][f].n <= count
      <4>1. \A f \in Fields : kept[f].n <= count
        BY <2>1, <2>3, CleanLeaves DEF IInv, NewestInv
      <4> QED BY <4>1, <2>4 DEF IInv, NewestInv
    <3>2. ASSUME NEW t \in Savers, pc'[t] # "idle", OnlyOneSaves(Id(t))'
          PROVE  \A f \in Fields :
                   /\ acked'[Id(t)'][f].n < scrape'[t].n
                   /\ \A j \in With(Id(t))' : docs'[j].fields[f].n <= scrape'[t].n
      <4>1. t # s /\ scrape'[t] = scrape[t] /\ Id(t)' = Id(t) /\ pc[t] # "idle"
        BY <3>2, <2>2
      <4>2. OnlyOneSaves(Id(t))
        BY <3>2, <4>1 DEF OnlyOneSaves, Saves
      <4>3. Saves(t, Id(t)) /\ Saves(s, x)
        BY <2>1, <4>1 DEF IInv, OwnInv, Saves, Id
      <4>4. Id(t) # x /\ Id(t) \in Ids
        BY <4>1, <4>2, <4>3, IdInIds DEF OnlyOneSaves, IInv
      <4> QED BY <4>1, <4>2, <4>4, <2>2, <2>4 DEF IInv, NewestInv
    <3> QED BY <3>1, <3>2, <2>2 DEF IInv, NewestInv
  <2>10. SavedInv'
    BY <2>2 DEF IInv, SavedInv, OnlyOneSaves, Saves
  <2> QED BY <2>5, <2>6, <2>8, <2>9, <2>10 DEF IInv
<1> QED BY <1>1, <1>2 DEF Count

LEMMA StepKeeps == IInv /\ [Next]_vars => IInv'
<1> SUFFICES ASSUME IInv, [Next]_vars PROVE IInv'
  OBVIOUS
<1>1. ASSUME NEW s \in Savers, Refused(s) \/ Crash(s) PROVE IInv'
  <2>1. faults' \in 0..MaxFaults
    BY <1>1, StoreAssumption DEF Refused, Crash, Fault, IInv, TypeOK
  <2> QED BY <1>1, <2>1, LeaveKeeps DEF Refused, Crash
<1>2. CASE UNCHANGED vars
  BY <1>2 DEF vars, IInv, TypeOK, TwinsNeedTwoSavers, AckedIsKept, FreshInv, OwnInv, NewestInv,
     SavedInv, With, Id, OnlyOneSaves, Saves
<1> QED BY <1>1, <1>2, ScrapeKeeps, UpdateKeeps, MissKeeps, InsertKeeps, CountKeeps DEF Next
----------------------------------------------------------------------------
(* In every state reachable from the start, IInv holds.                    *)
THEOREM Invariance == Spec => []IInv
  BY InitInv, StepKeeps, PTL DEF Spec

(* Every variable keeps its type; in particular no document ever holds a   *)
(* null, whatever a scrape reads (clean, helper.ts 127-134).               *)
THEOREM TypeCorrect == Spec => []TypeOK
  BY Invariance, PTL DEF IInv

(* Two documents of one job were inserted by two savers (Job.ts line 94).  *)
THEOREM TwinsTakeTwo == Spec => []TwinsNeedTwoSavers
  BY Invariance, PTL DEF IInv

(* What saveJob returned true for is replaced only by what a later scrape  *)
(* read, a blank included, for jobs that only one saver comes across       *)
(* (Job.ts lines 85-115).                                                  *)
THEOREM AckedStays == Spec => []AckedIsKept
  BY Invariance, PTL DEF IInv
----------------------------------------------------------------------------
(* A document has the id of every advertisement that was saved in it.      *)
IdInv == \A i \in DOMAIN docs : \A a \in docs[i].adverts : JobId(a) = docs[i].id

(* What two advertisements with one id have in common.                     *)
LEMMA SameId ==
  ASSUME NEW a \in Adverts, NEW b \in Adverts, JobId(a) = JobId(b)
  PROVE  \/ a.site = b.site /\ (a.number = b.number \/ a.link = b.link)
         \/ {a.site, b.site} \subseteq Bare /\ a.number = b.number
<1>0. a.site # "" /\ b.site # "" /\ "itviec" \notin Bare
  BY SiteAssumption DEF Bare
<1> DEFINE Key(x) == IF x.site = "itviec" THEN x.link ELSE x.number
<1>1. \A x \in {a, b} : JobId(x) = <<IF x.site \in Bare THEN "" ELSE x.site, Key(x)>>
  BY <1>0 DEF JobId
<1>2. /\ (IF a.site \in Bare THEN "" ELSE a.site) = (IF b.site \in Bare THEN "" ELSE b.site)
      /\ Key(a) = Key(b)
  <2>1. <<IF a.site \in Bare THEN "" ELSE a.site, Key(a)>>
          = <<IF b.site \in Bare THEN "" ELSE b.site, Key(b)>>
    BY <1>1
  <2> HIDE DEF Key
  <2> QED
    BY <2>1
<1>3. CASE a.site \in Bare
  <2>1. b.site \in Bare
    BY <1>0, <1>2, <1>3
  <2>2. a.number = b.number
    BY <1>0, <1>2, <1>3, <2>1
  <2> QED
    BY <1>3, <2>1, <2>2
<1>4. CASE a.site \notin Bare
  <2>1. b.site \notin Bare /\ a.site = b.site
    BY <1>0, <1>2, <1>4
  <2> QED
    BY <1>2, <2>1
<1> QED
  BY <1>3, <1>4

LEMMA IdStep ==
  ASSUME IInv, IdInv, [Next]_vars
  PROVE  IdInv'
<1>1. CASE UNCHANGED docs
  BY <1>1 DEF IdInv
<1>2. ASSUME NEW s \in Savers, Update(s)
      PROVE  IdInv'
  <2>1. PICK i \in With(Id(s)) : docs' = [docs EXCEPT ![i] = Updated(docs[i], scrape[s])]
    BY <1>2 DEF Update
  <2>2. i \in DOMAIN docs /\ docs[i] \in Docs /\ docs[i].id = Id(s)
    BY <2>1, DocsTyped DEF With, IInv
  <2> DEFINE d == Updated(docs[i], scrape[s])
  <2>3. d.id = docs[i].id /\ d.adverts = docs[i].adverts \union {scrape[s].advert}
    BY <2>2 DEF Updated, Docs
  <2>4. DOMAIN docs' = DOMAIN docs /\ docs'[i] = d /\ \A j \in DOMAIN docs : j # i => docs'[j] = docs[j]
    <3>1. DOMAIN docs = 1..Len(docs) /\ docs \in [1..Len(docs) -> Docs]
      BY DEF IInv, TypeOK
    <3> QED
      BY <2>1, <2>2, <3>1
  <2> HIDE DEF d
  <2>5. \A a \in docs'[i].adverts : JobId(a) = docs'[i].id
    BY <2>2, <2>3, <2>4 DEF IdInv, Id
  <2> QED
    BY <2>4, <2>5 DEF IdInv
<1>3. ASSUME NEW s \in Savers, Insert(s)
      PROVE  IdInv'
  <2>1. pc[s] # "idle"
    BY <1>3 DEF Insert
  <2> DEFINE d == NewDoc(s)
  <2>2. d.id = Id(s) /\ d.adverts = {scrape[s].advert}
    BY DEF NewDoc
  <2> HIDE DEF d
  <2>3. docs' = Append(docs, d) /\ docs \in Seq(Docs)
    BY <1>3 DEF Insert, IInv, TypeOK, d
  <2>4. /\ DOMAIN docs' = 1..Len(docs) + 1 /\ DOMAIN docs = 1..Len(docs)
        /\ docs'[Len(docs) + 1] = d
        /\ \A i \in 1..Len(docs) : docs'[i] = docs[i]
    BY <2>3
  <2>5. ASSUME NEW i \in DOMAIN docs', NEW a \in docs'[i].adverts
        PROVE  JobId(a) = docs'[i].id
    <3>1. CASE i = Len(docs) + 1
      BY <2>2, <2>4, <2>5, <3>1 DEF Id
    <3>2. CASE i # Len(docs) + 1
      <4>1. i \in 1..Len(docs)
        BY <2>3, <2>4, <3>2
      <4> QED
        BY <2>4, <2>5, <4>1 DEF IdInv
    <3> QED
      BY <3>1, <3>2
  <2> QED
    BY <2>5 DEF IdInv
<1>4. ASSUME NEW s \in Savers, Scrape(s) \/ Refused(s) \/ Miss(s) \/ Count(s) \/ Crash(s)
      PROVE  UNCHANGED docs
  BY <1>4 DEF Scrape, Refused, Miss, Count, Crash
<1>5. CASE UNCHANGED vars
  BY <1>1, <1>5 DEF vars
<1> QED
  BY <1>1, <1>2, <1>3, <1>4, <1>5 DEF Next

(* Advertisements are saved over one another only if their site numbers    *)
(* them alike, or if they are of sites whose ids have no prefix            *)
(* (constant.ts 33-44, careerbuilder.ts 191, vietnamworks.ts 79).          *)
THEOREM SharingTakesBareIds == Spec => []SharedOnlyBy
<1>1. Init => IdInv
  BY DEF Init, IdInv
<1>2. IInv /\ IdInv => SharedOnlyBy
  <2> SUFFICES ASSUME IInv, IdInv, NEW i \in DOMAIN docs,
                      NEW a \in docs[i].adverts, NEW b \in docs[i].adverts
               PROVE  \/ a.site = b.site /\ (a.number = b.number \/ a.link = b.link)
                      \/ {a.site, b.site} \subseteq Bare /\ a.number = b.number
    BY DEF SharedOnlyBy
  <2>1. a \in Adverts /\ b \in Adverts
    BY DocsTyped DEF IInv, Docs
  <2>2. JobId(a) = JobId(b)
    BY DEF IdInv
  <2> QED
    BY <2>1, <2>2, SameId
<1>3. IInv /\ IdInv /\ [Next]_vars => IdInv'
  BY IdStep
<1> QED
  BY <1>1, <1>2, <1>3, Invariance, PTL DEF Spec
----------------------------------------------------------------------------
(* The dates of the jobs: what each group of rules gives, which rule gets  *)
(* each form of words, and so what becomes of every text a site may show.  *)

LEMMA Calendar ==
  /\ Hour \in Nat /\ Day \in Nat /\ Week \in Nat /\ Month \in Nat /\ Year \in Nat
  /\ 1 < Hour /\ Hour < Day /\ Day < Week /\ Week < Month /\ Month < Year
  /\ TwoDigits \in Nat /\ Opening \in Nat /\ Closing \in Nat /\ Opening < Closing
  BY CalendarAssumption

(* Division with remainder.                                                *)
LEMMA Division ==
  ASSUME NEW a \in Nat, NEW s \in Nat, 0 < s
  PROVE  /\ a \div s \in Nat
         /\ (a \div s) * s <= a /\ a < (a \div s) * s + s
         /\ a % s \in Nat
         /\ a = (a \div s) * s + (a % s)
         /\ s <= a => 1 <= a \div s
  OBVIOUS

(* The rule that is taken is the first one that fits.                      *)
LEMMA FirstFits ==
  ASSUME NEW rules, NEW otherwise, NEW k \in DOMAIN rules, DOMAIN rules \subseteq Nat,
         rules[k][1], \A i \in DOMAIN rules : i < k => ~rules[i][1]
  PROVE  First(rules, otherwise) = rules[k][2]
<1> DEFINE fitting == {i \in DOMAIN rules : rules[i][1]}
<1>1. k \in fitting
  OBVIOUS
<1>2. \A i \in fitting : (\A j \in fitting : i <= j) <=> i = k
  OBVIOUS
<1>3. (CHOOSE i \in fitting : \A j \in fitting : i <= j) = k
  BY <1>1, <1>2
<1> QED
  BY <1>1, <1>3 DEF First

LEMMA NoneFits ==
  ASSUME NEW rules, NEW otherwise, \A i \in DOMAIN rules : ~rules[i][1]
  PROVE  First(rules, otherwise) = otherwise
  BY DEF First

(* The groups of rules, for the texts that come to them.                   *)
LEMMA ShortRulesAre ==
  ASSUME NEW text, NEW now, NEW otherwise
  PROVE  LET few == text.n <= TwoDigits
             first == First(ShortRules(text, now), otherwise)
         IN  /\ text.words = {"h"} /\ few => first = now - text.n * Hour
             /\ text.words = {"d"} /\ few => first = now - text.n * Day
             /\ text.words = {"m"} /\ few => first = now - text.n
             /\ text.words \cap {"h", "d", "m"} = {} => first = otherwise
             /\ ~few => first = otherwise
<1> DEFINE rules == ShortRules(text, now)
           few == text.n <= TwoDigits
<1>1. DOMAIN rules = 1..3
  BY DEF ShortRules
<1>2. /\ rules[1][1] <=> "h" \in text.words /\ few
      /\ rules[2][1] <=> "d" \in text.words /\ few
      /\ rules[3][1] <=> "m" \in text.words /\ few
  BY DEF ShortRules, Has
<1>3. /\ rules[1][2] = now - text.n * Hour
      /\ rules[2][2] = now - text.n * Day
      /\ rules[3][2] = now - text.n
  BY DEF ShortRules
<1>4. ASSUME NEW k \in 1..3, rules[k][1], \A i \in 1..3 : i < k => ~rules[i][1]
      PROVE  First(rules, otherwise) = rules[k][2]
  BY <1>1, <1>4, FirstFits
<1>5. ASSUME ~rules[1][1], ~rules[2][1], ~rules[3][1]
      PROVE  First(rules, otherwise) = otherwise
  BY <1>1, <1>5, NoneFits
<1> HIDE DEF rules
<1>6. ASSUME text.words = {"h"}, few PROVE First(rules, otherwise) = rules[1][2]
  BY <1>2, <1>4, <1>6
<1>7. ASSUME text.words = {"d"}, few PROVE First(rules, otherwise) = rules[2][2]
  BY <1>2, <1>4, <1>7
<1>8. ASSUME text.words = {"m"}, few PROVE First(rules, otherwise) = rules[3][2]
  BY <1>2, <1>4, <1>8
<1>9. ASSUME text.words \cap {"h", "d", "m"} = {} \/ ~few
      PROVE  First(rules, otherwise) = otherwise
  BY <1>2, <1>5, <1>9
<1> QED
  BY <1>3, <1>6, <1>7, <1>8, <1>9 DEF rules

LEMMA PairRulesAre ==
  ASSUME NEW text, NEW now, NEW otherwise
  PROVE  LET first == First(PairRules(text, now), otherwise)
         IN  /\ text.words = {"ngay", "gio"} /\ text.parts = 4
                => first = now - text.n * Day - text.m * Hour
             /\ text.words = {"gio", "phut"} /\ text.parts = 5
                => first = now - text.n * Hour - text.m
             /\ text.parts # 5 /\ (text.parts # 4 \/ "ngay" \notin text.words)
                => first = otherwise
<1> DEFINE rules == PairRules(text, now)
<1>1. DOMAIN rules = 1..2
  BY DEF PairRules
<1>2. /\ rules[1][1] <=> {"ngay", "gio"} \subseteq text.words /\ text.parts = 4
      /\ rules[2][1] <=> {"gio", "phut"} \subseteq text.words /\ text.parts = 5
  BY DEF PairRules, Has
<1>3. /\ rules[1][2] = now - text.n * Day - text.m * Hour
      /\ rules[2][2] = now - text.n * Hour - text.m
  BY DEF PairRules
<1>4. ASSUME NEW k \in 1..2, rules[k][1], \A i \in 1..2 : i < k => ~rules[i][1]
      PROVE  First(rules, otherwise) = rules[k][2]
  BY <1>1, <1>4, FirstFits
<1>5. ASSUME ~rules[1][1], ~rules[2][1]
      PROVE  First(rules, otherwise) = otherwise
  BY <1>1, <1>5, NoneFits
<1> HIDE DEF rules
<1>6. ASSUME text.words = {"ngay", "gio"}, text.parts = 4
      PROVE  First(rules, otherwise) = rules[1][2]
  BY <1>2, <1>4, <1>6
<1>7. ASSUME text.words = {"gio", "phut"}, text.parts = 5
      PROVE  First(rules, otherwise) = rules[2][2]
  BY <1>2, <1>4, <1>7
<1>8. ASSUME text.parts # 5, text.parts # 4 \/ "ngay" \notin text.words
      PROVE  First(rules, otherwise) = otherwise
  BY <1>2, <1>5, <1>8
<1> QED
  BY <1>3, <1>6, <1>7, <1>8 DEF rules

LEMMA AgeRulesAre ==
  ASSUME NEW text, NEW now, NEW otherwise
  PROVE  LET words == text.words
             first == First(AgeRules(text, now), otherwise)
         IN  /\ words = {"giay"} => first = now
             /\ "phut" \in words /\ "giay" \notin words => first = now - Number(text)
             /\ "gio" \in words /\ words \cap {"giay", "phut"} = {}
                => first = now - Number(text) * Hour
             /\ "tuan" \in words /\ words \cap {"giay", "phut", "gio"} = {}
                => first = now - Number(text) * Week
             /\ "mot" \in words /\ words \cap {"giay", "phut", "gio", "tuan"} = {}
                => first = now - Day
             /\ words = {"ngay"} => first = now - Number(text) * Day
             /\ words = {"thang"} => first = now - Number(text) * Month
             /\ words \cap {"giay", "phut", "gio", "tuan", "mot", "ngay", "thang"} = {}
                => first = otherwise
<1> DEFINE rules == AgeRules(text, now)
           words == text.words
<1>1. DOMAIN rules = 1..7
  BY DEF AgeRules
<1>2. /\ rules[1][1] <=> "giay" \in words
      /\ rules[2][1] <=> "phut" \in words
      /\ rules[3][1] <=> "gio" \in words
      /\ rules[4][1] <=> "tuan" \in words
      /\ rules[5][1] <=> "mot" \in words
      /\ rules[6][1] <=> "ngay" \in words
      /\ rules[7][1] <=> "thang" \in words
  BY DEF AgeRules, Has
<1>3. /\ rules[1][2] = now
      /\ rules[2][2] = now - Number(text)
      /\ rules[3][2] = now - Number(text) * Hour
      /\ rules[4][2] = now - Number(text) * Week
      /\ rules[5][2] = now - Day
      /\ rules[6][2] = now - Number(text) * Day
      /\ rules[7][2] = now - Number(text) * Month
  BY DEF AgeRules
<1>4. ASSUME NEW k \in 1..7, rules[k][1], \A i \in 1..7 : i < k => ~rules[i][1]
      PROVE  First(rules, otherwise) = rules[k][2]
  BY <1>1, <1>4, FirstFits
<1>5. ASSUME \A i \in 1..7 : ~rules[i][1]
      PROVE  First(rules, otherwise) = otherwise
  BY <1>1, <1>5, NoneFits
<1> HIDE DEF rules, words
<1>6. ASSUME words = {"giay"} PROVE First(rules, otherwise) = rules[1][2]
  BY <1>2, <1>4, <1>6
<1>7. ASSUME "phut" \in words, "giay" \notin words
      PROVE  First(rules, otherwise) = rules[2][2]
  BY <1>2, <1>4, <1>7
<1>8. ASSUME "gio" \in words, words \cap {"giay", "phut"} = {}
      PROVE  First(rules, otherwise) = rules[3][2]
  BY <1>2, <1>4, <1>8
<1>9. ASSUME "tuan" \in words, words \cap {"giay", "phut", "gio"} = {}
      PROVE  First(rules, otherwise) = rules[4][2]
  BY <1>2, <1>4, <1>9
<1>10. ASSUME "mot" \in words, words \cap {"giay", "phut", "gio", "tuan"} = {}
      PROVE  First(rules, otherwise) = rules[5][2]
  BY <1>2, <1>4, <1>10
<1>11. ASSUME words = {"ngay"} PROVE First(rules, otherwise) = rules[6][2]
  BY <1>2, <1>4, <1>11
<1>12. ASSUME words = {"thang"} PROVE First(rules, otherwise) = rules[7][2]
  BY <1>2, <1>4, <1>12
<1>13. ASSUME words \cap {"giay", "phut", "gio", "tuan", "mot", "ngay", "thang"} = {}
       PROVE  First(rules, otherwise) = otherwise
  BY <1>2, <1>5, <1>13
<1> QED
  BY <1>3, <1>6, <1>7, <1>8, <1>9, <1>10, <1>11, <1>12, <1>13 DEF rules, words

LEMMA DayRulesAre ==
  ASSUME NEW text, NEW now, NEW otherwise
  PROVE  LET words == text.words
             first == First(DayRules(text, now), otherwise)
         IN  /\ words = {"homqua", "comma"} => first = AtTime(text, DayOf(now) - 1)
             /\ words = {"homnay", "comma"} => first = AtTime(text, DayOf(now))
             /\ words = {"homkia", "comma"} => first = BeforeYesterday(text, now)
             /\ words = {"homqua"} => first = now - Day
             /\ words = {"homkia"} => first = now - 2 * Day
             /\ words = {"date"} => first = text.n
             /\ words \in {{"nam"}, {"homnay"}} \/ words \subseteq {"h", "d", "m"}
                => first = otherwise
<1> DEFINE rules == DayRules(text, now)
           words == text.words
<1>1. DOMAIN rules = 1..6
  BY DEF DayRules
<1>2. /\ rules[1][1] <=> "homqua" \in words /\ "comma" \in words
      /\ rules[2][1] <=> "homnay" \in words /\ "comma" \in words
      /\ rules[3][1] <=> "homkia" \in words /\ "comma" \in words
      /\ rules[4][1] <=> "homqua" \in words
      /\ rules[5][1] <=> "homkia" \in words
      /\ rules[6][1] <=> "date" \in words
  BY DEF DayRules, Has
<1>3. /\ rules[1][2] = AtTime(text, DayOf(now) - 1)
      /\ rules[2][2] = AtTime(text, DayOf(now))
      /\ rules[3][2] = BeforeYesterday(text, now)
      /\ rules[4][2] = now - Day
      /\ rules[5][2] = now - 2 * Day
      /\ rules[6][2] = text.n
  BY DEF DayRules
<1>4. ASSUME NEW k \in 1..6, rules[k][1], \A i \in 1..6 : i < k => ~rules[i][1]
      PROVE  First(rules, otherwise) = rules[k][2]
  BY <1>1, <1>4, FirstFits
<1>5. ASSUME \A i \in 1..6 : ~rules[i][1]
      PROVE  First(rules, otherwise) = otherwise
  BY <1>1, <1>5, NoneFits
<1> HIDE DEF rules, words
<1>6. ASSUME words = {"homqua", "comma"} PROVE First(rules, otherwise) = rules[1][2]
  BY <1>2, <1>4, <1>6
<1>7. ASSUME words = {"homnay", "comma"} PROVE First(rules, otherwise) = rules[2][2]
  BY <1>2, <1>4, <1>7
<1>8. ASSUME words = {"homkia", "comma"} PROVE First(rules, otherwise) = rules[3][2]
  BY <1>2, <1>4, <1>8
<1>9. ASSUME words = {"homqua"} PROVE First(rules, otherwise) = rules[4][2]
  BY <1>2, <1>4, <1>9
<1>10. ASSUME words = {"homkia"} PROVE First(rules, otherwise) = rules[5][2]
  BY <1>2, <1>4, <1>10
<1>11. ASSUME words = {"date"} PROVE First(rules, otherwise) = rules[6][2]
  BY <1>2, <1>4, <1>11
<1>12. ASSUME words \in {{"nam"}, {"homnay"}} \/ words \subseteq {"h", "d", "m"}
       PROVE  First(rules, otherwise) = otherwise
  BY <1>2, <1>5, <1>12
<1> QED
  BY <1>3, <1>6, <1>7, <1>8, <1>9, <1>10, <1>11, <1>12 DEF rules, words

(* What the three properties say of a text that a site shows at one time,  *)
(* of a job posted at p, and that is converted at another.                 *)
Faithful(text, p, at, time) ==
  LET made == ConvertTimeAgoToDate(text, time)
      lag == time - at
  IN  /\ made \in Int
      /\ made # None =>
           /\ IsAge(text) => /\ p + lag <= made
                             /\ ~Misread(text) => made < p + lag + Grain(text)
           /\ text.words \in {{"homnay", "comma"}, {"homqua", "comma"}} =>
                made = p + (DayOf(time) - DayOf(at)) * Day
           /\ text.words = {"date"} => made = p
           /\ made > time =>
                \/ text.words = {"homnay", "comma"} /\ DayOf(time) - DayOf(at) > 0
                \/ text.words = {"homkia", "comma"}
      /\ made = None =>
           \/ text.words \in {{"nam"}, {"homnay"}, {"homkia", "comma"}}
           \/ text.words \cap {"h", "d", "m"} # {} /\ text.n > TwoDigits

LEMMA GrainIs ==
  ASSUME NEW text
  PROVE  LET words == text.words
         IN  /\ "phut" \in words \/ "giay" \in words \/ "m" \in words => Grain(text) = 1
             /\ words \cap {"phut", "giay", "m"} = {} /\ ("gio" \in words \/ "h" \in words)
                => Grain(text) = Hour
             /\ words = {"d"} => Grain(text) = Day
<1> DEFINE words == text.words
<1>1. "phut" \in words \/ "giay" \in words \/ "m" \in words => words \cap {"phut", "giay", "m"} # {}
  OBVIOUS
<1>2. "gio" \in words \/ "h" \in words => words \cap {"gio", "h"} # {}
  OBVIOUS
<1>3. words = {"d"} => /\ words \cap {"phut", "giay", "m"} = {} /\ words \cap {"gio", "h"} = {}
                       /\ words \cap {"ngay", "d"} # {}
  OBVIOUS
<1>4. "phut" \in words \/ "giay" \in words \/ "m" \in words => Grain(text) = 1
  BY <1>1 DEF Grain
<1>5. words \cap {"phut", "giay", "m"} = {} /\ ("gio" \in words \/ "h" \in words) => Grain(text) = Hour
  BY <1>2 DEF Grain
<1>6. words = {"d"} => Grain(text) = Day
  BY <1>3 DEF Grain
<1> QED
  BY <1>4, <1>5, <1>6

(* An age that is converted to so much time ago.                           *)
LEMMA AgeIsFaithful ==
  ASSUME NEW text, NEW p \in Nat, NEW at \in Nat, NEW time \in Nat, p <= at, at <= time,
         NEW back \in Nat, ConvertTimeAgoToDate(text, time) = time - back,
         back <= at - p, Misread(text) \/ at - p < back + Grain(text), Grain(text) \in Nat,
         text.words \cap {"homnay", "homqua", "date"} = {}
  PROVE  Faithful(text, p, at, time)
<1>1. /\ text.words # {"date"} /\ text.words \notin {{"homnay", "comma"}, {"homqua", "comma"}}
  OBVIOUS
<1>2. /\ time - back \in Int /\ time - back # None /\ time - back <= time
      /\ p + (time - at) <= time - back
  BY DEF None
<1>3. ~Misread(text) => time - back < p + (time - at) + Grain(text)
  OBVIOUS
<1> QED
  BY <1>1, <1>2, <1>3 DEF Faithful

(* Text without short units and without two numbers.                       *)
LEMMA OneNumber ==
  ASSUME NEW text, NEW now, text.words \cap {"h", "d", "m"} = {}, text.parts # 5,
         text.parts # 4 \/ "ngay" \notin text.words
  PROVE  ConvertTimeAgoToDate(text, now) =
           First(AgeRules(text, now), First(DayRules(text, now), None))
  BY ShortRulesAre, PairRulesAre DEF ConvertTimeAgoToDate

LEMMA NoAge ==
  ASSUME NEW text, NEW now, text.words \cap {"h", "d", "m"} = {}, text.parts = 2 \/ text.parts = 3,
         text.words \cap {"giay", "phut", "gio", "tuan", "mot", "ngay", "thang"} = {}
  PROVE  ConvertTimeAgoToDate(text, now) = First(DayRules(text, now), None)
  BY OneNumber, AgeRulesAre

(* The forms of words, one by one.                                         *)
LEMMA CountedIsFaithful ==
  ASSUME NEW p \in Nat, NEW at \in Nat, NEW time \in Nat, p <= at, at <= time,
         NEW text \in Counted(at - p)
  PROVE  Faithful(text, p, at, time)
<1>1. PICK u \in Units : Fits(u, at - p) /\ text = Text({u}, 3, (at - p) \div Span(u), NaN)
  BY DEF Counted
<1> DEFINE age == at - p
           n == age \div Span(u)
<1>2. /\ text.words = {u} /\ text.parts = 3 /\ text.n = n
  BY <1>1 DEF Text
<1>3. Span(u) \in Nat /\ 0 < Span(u)
  BY Calendar DEF Units, Span
<1>4. age \in Nat /\ Span(u) <= age
  BY <1>1, <1>3 DEF Fits
<1>5. n \in Nat /\ n * Span(u) <= age /\ age < n * Span(u) + Span(u) /\ 1 <= n
  BY <1>3, <1>4, Division
<1>6. n * Span(u) \in Nat
  BY <1>3, <1>5
<1>7. Number(text) = n
  BY <1>2, <1>5 DEF Number, NaN
<1>8. text.words \cap {"homnay", "homqua", "date"} = {} /\ text.words \cap {"h", "d", "m"} = {}
  BY <1>2 DEF Units
<1> HIDE DEF n
<1>9. CASE u # "nam"
  <2>1. ConvertTimeAgoToDate(text, time) = time - n * Span(u)
    BY <1>2, <1>5, <1>7, <1>8, <1>9, OneNumber, AgeRulesAre DEF Span, Units
  <2>2. Grain(text) = Span(u)
    BY <1>2, <1>9 DEF Grain, Span, Units
  <2> QED
    BY <1>3, <1>5, <1>6, <1>8, <2>1, <2>2, AgeIsFaithful
<1>10. CASE u = "nam"
  <2>1. text.words = {"nam"} /\ text.words \cap {"giay", "phut", "gio", "tuan", "mot", "ngay", "thang"} = {}
    BY <1>2, <1>10
  <2>2. ConvertTimeAgoToDate(text, time) = None
    BY <1>2, <1>8, <2>1, NoAge, DayRulesAre
  <2> QED
    BY <2>1, <2>2 DEF Faithful, None
<1> QED
  BY <1>9, <1>10

LEMMA InWordsIsFaithful ==
  ASSUME NEW p \in Nat, NEW at \in Nat, NEW time \in Nat, p <= at, at <= time,
         NEW text \in InWords(at - p)
  PROVE  Faithful(text, p, at, time)
<1>1. PICK u \in Units : (at - p) \div Span(u) = 1 /\ text = Text({u, "mot"}, 3, NaN, NaN)
  BY DEF InWords
<1>2. /\ text.words = {u, "mot"} /\ text.parts = 3 /\ Number(text) = 1
  BY <1>1 DEF Text, Number
<1>3. Span(u) \in Nat /\ 0 < Span(u)
  BY Calendar DEF Units, Span
<1>4. Span(u) <= at - p /\ at - p < Span(u) + Span(u)
  <2>1. at - p \in Nat
    OBVIOUS
  <2> QED BY <1>1, <1>3, <2>1, Division
<1>5. text.words \cap {"homnay", "homqua", "date"} = {} /\ text.words \cap {"h", "d", "m"} = {}
  BY <1>2 DEF Units
<1>6. CASE u \in {"phut", "gio", "tuan", "ngay"}
  <2>1. ConvertTimeAgoToDate(text, time) = time - Span(u)
    BY <1>2, <1>3, <1>5, <1>6, Calendar, OneNumber, AgeRulesAre DEF Span
  <2>2. Grain(text) = Span(u)
    BY <1>2, <1>6 DEF Grain, Span
  <2> QED
    BY <1>3, <1>4, <1>5, <2>1, <2>2, AgeIsFaithful
<1>7. CASE u \in {"thang", "nam"}
  <2>1. ConvertTimeAgoToDate(text, time) = time - Day
    BY <1>2, <1>5, <1>7, OneNumber, AgeRulesAre
  <2>2. Misread(text) /\ Grain(text) = Month
    BY <1>2, <1>7 DEF Misread, Grain
  <2>3. Day <= at - p
    BY <1>3, <1>4, <1>7, Calendar DEF Span
  <2> QED
    BY <1>5, <2>1, <2>2, <2>3, Calendar, AgeIsFaithful
<1> QED
  BY <1>6, <1>7 DEF Units

LEMMA JustNowIsFaithful ==
  ASSUME NEW p \in Nat, NEW at \in Nat, NEW time \in Nat, p <= at, at <= time,
         NEW text \in JustNow(at - p)
  PROVE  Faithful(text, p, at, time)
<1>1. at - p = 0 /\ text = Text({"giay"}, 3, NaN, NaN)
  BY DEF JustNow
<1>2. text.words = {"giay"} /\ text.parts = 3
  BY <1>1 DEF Text
<1>3. ConvertTimeAgoToDate(text, time) = time - 0
  BY <1>2, OneNumber, AgeRulesAre
<1>4. Grain(text) = 1
  BY <1>2, GrainIs
<1>5. PICK back \in Nat : back = 0
  OBVIOUS
<1> QED
  BY <1>1, <1>2, <1>3, <1>4, <1>5, AgeIsFaithful

LEMMA ShortIsFaithful ==
  ASSUME NEW p \in Nat, NEW at \in Nat, NEW time \in Nat, p <= at, at <= time,
         NEW text \in Short(at - p)
  PROVE  Faithful(text, p, at, time)
<1>1. PICK s \in {<<"m", "phut">>, <<"h", "gio">>, <<"d", "ngay">>} :
        Fits(s[2], at - p) /\ text = Text({s[1]}, 1, (at - p) \div Span(s[2]), NaN)
  BY DEF Short
<1> DEFINE age == at - p
           span == Span(s[2])
           n == age \div span
<1>2. /\ text.words = {s[1]} /\ text.parts = 1 /\ text.n = n
  BY <1>1 DEF Text
<1>3. span \in Nat /\ 0 < span
  BY <1>1, Calendar DEF Span
<1>4. age \in Nat /\ span <= age
  BY <1>1, <1>3 DEF Fits
<1>5. n \in Nat /\ n * span <= age /\ age < n * span + span
  BY <1>3, <1>4, Division
<1>6. n * span \in Nat
  BY <1>3, <1>5
<1>7. text.words \cap {"homnay", "homqua", "date"} = {}
  BY <1>2
<1>8. Grain(text) = span
  <2>1. CASE s[1] = "m"
    BY <1>2, <2>1, GrainIs DEF Span
  <2>2. CASE s[1] = "h"
    BY <1>2, <2>2, GrainIs DEF Span
  <2>3. CASE s[1] = "d"
    BY <1>2, <2>3, GrainIs DEF Span
  <2> QED
    BY <2>1, <2>2, <2>3
<1> HIDE DEF n
<1>9. CASE n <= TwoDigits
  <2>1. ConvertTimeAgoToDate(text, time) = time - n * span
    BY <1>2, <1>5, <1>9, ShortRulesAre DEF ConvertTimeAgoToDate, Span
  <2> QED
    BY <1>3, <1>5, <1>6, <1>7, <1>8, <2>1, AgeIsFaithful
<1>10. CASE ~(n <= TwoDigits)
  <2>1. /\ text.words \subseteq {"h", "d", "m"}
        /\ text.words \cap {"giay", "phut", "gio", "tuan", "mot", "ngay", "thang"} = {}
        /\ text.words \cap {"h", "d", "m"} # {}
    <3>1. s[1] \in {"h", "d", "m"}
      OBVIOUS
    <3> HIDE DEF span
    <3> QED BY <1>2, <3>1
  <2>2. ConvertTimeAgoToDate(text, time) = None
    BY <1>2, <1>10, <2>1, ShortRulesAre, PairRulesAre, AgeRulesAre, DayRulesAre
       DEF ConvertTimeAgoToDate
  <2>3. n > TwoDigits
    BY <1>5, <1>10, Calendar
  <2> QED
    BY <1>2, <2>1, <2>2, <2>3 DEF Faithful, None
<1> QED
  BY <1>9, <1>10

LEMMA HoursMinutesIsFaithful ==
  ASSUME NEW p \in Nat, NEW at \in Nat, NEW time \in Nat, p <= at, at <= time,
         NEW parts \in {4, 5}, NEW text \in HoursMinutes(at - p, parts)
  PROVE  Faithful(text, p, at, time)
<1> DEFINE age == at - p
           n == age \div Hour
           m == age % Hour
<1>1. Hour <= age /\ text = Text({"gio", "phut"}, parts, n, m)
  BY DEF HoursMinutes, Fits, Span
<1>2. text.words = {"gio", "phut"} /\ text.parts = parts /\ text.n = n /\ text.m = m
  BY <1>1 DEF Text
<1>3. n \in Nat /\ m \in Nat /\ age = n * Hour + m /\ 1 <= n
  <2>1. age \in Nat /\ 0 < Hour
    BY Calendar
  <2> QED BY <1>1, <2>1, Calendar, Division
<1>4. n * Hour \in Nat /\ n <= n * Hour
  BY <1>3, Calendar
<1>5. Grain(text) = 1 /\ text.words \cap {"homnay", "homqua", "date"} = {}
  BY <1>2, GrainIs
<1>8. n \in Nat /\ age \in Nat
  BY <1>3
<1> HIDE DEF n, m
<1>6. CASE parts = 5
  <2>1. ConvertTimeAgoToDate(text, time) = time - n * Hour - m
    BY <1>2, <1>6, ShortRulesAre, PairRulesAre DEF ConvertTimeAgoToDate
  <2>2. PICK back \in Nat : back = age
    BY <1>8
  <2>3. ConvertTimeAgoToDate(text, time) = time - back
    BY <1>3, <1>4, <2>1, <2>2
  <2>4. back <= at - p /\ at - p < back + Grain(text) /\ Grain(text) \in Nat
    BY <1>5, <2>2
  <2> QED
    BY <1>5, <2>3, <2>4, AgeIsFaithful
<1>7. CASE parts = 4
  <2>1. Number(text) = n
    BY <1>2, <1>3 DEF Number, NaN
  <2>2. ConvertTimeAgoToDate(text, time) = time - n
    BY <1>2, <1>7, <2>1, OneNumber, AgeRulesAre
  <2>3. Misread(text)
    BY <1>2, <1>7 DEF Misread
  <2>4. n <= at - p /\ Grain(text) \in Nat
    BY <1>3, <1>4, <1>5
  <2> QED
    BY <1>5, <1>8, <2>2, <2>3, <2>4, AgeIsFaithful, Zenon
<1> QED
  BY <1>6, <1>7

LEMMA DaysHoursIsFaithful ==
  ASSUME NEW p \in Nat, NEW at \in Nat, NEW time \in Nat, p <= at, at <= time,
         NEW text \in DaysHours(at - p)
  PROVE  Faithful(text, p, at, time)
<1> DEFINE age == at - p
           n == age \div Day
           rest == age % Day
           m == rest \div Hour
<1>1. Day <= age /\ text = Text({"ngay", "gio"}, 4, n, m)
  BY DEF DaysHours, Fits, Span
<1>2. text.words = {"ngay", "gio"} /\ text.parts = 4 /\ text.n = n /\ text.m = m
  BY <1>1 DEF Text
<1>3. n \in Nat /\ rest \in Nat /\ age = n * Day + rest
  <2>1. age \in Nat /\ 0 < Day
    BY Calendar
  <2> QED BY <2>1, Calendar, Division
<1>4. m \in Nat /\ m * Hour <= rest /\ rest < m * Hour + Hour
  <2> HIDE DEF rest
  <2> QED BY <1>3, Calendar, Division
<1>5. n * Day \in Nat /\ m * Hour \in Nat
  BY <1>3, <1>4, Calendar
<1>6. Grain(text) = Hour /\ text.words \cap {"homnay", "homqua", "date"} = {}
  BY <1>2, GrainIs
<1> HIDE DEF n, m, rest
<1>7. ConvertTimeAgoToDate(text, time) = time - n * Day - m * Hour
  BY <1>2, ShortRulesAre, PairRulesAre DEF ConvertTimeAgoToDate
<1>8. PICK back \in Nat : back = n * Day + m * Hour
  BY <1>5
<1>9. time - n * Day - m * Hour = time - back /\ back <= age /\ age < back + Hour
  <2>1. PICK d \in Nat, h \in Nat : d = n * Day /\ h = m * Hour
    BY <1>5
  <2> QED BY <1>3, <1>4, <1>8, <2>1, Calendar
<1> QED
  BY <1>6, <1>7, <1>8, <1>9, Calendar, AgeIsFaithful

(* The day before yesterday has a date of its own, or none.                *)
LEMMA BeforeYesterdayIsInt ==
  ASSUME NEW text, text.n \in Nat, NEW now \in Nat
  PROVE  BeforeYesterday(text, now) \in Int
<1>1. /\ text.n \div Hour \in Nat /\ text.n % Hour \in Nat /\ now \div Year \in Nat
  BY Calendar, Division
<1>2. (now \div Year) * Year \in Int
  BY <1>1, Calendar
<1>3. ((text.n % Hour) - 1) * Month \in Int /\ ((text.n \div Hour) - 1) * Day \in Int
  BY <1>1, Calendar
<1> QED
  BY <1>2, <1>3 DEF BeforeYesterday, None

(* Times that are some days apart.                                         *)
LEMMA DaysApart ==
  ASSUME NEW p \in Nat, NEW t \in Nat, p <= t
  PROVE  /\ DayOf(p) \in Nat /\ DayOf(t) \in Nat /\ DayOf(p) <= DayOf(t)
         /\ p % Day \in Nat
         /\ p = DayOf(p) * Day + (p % Day) /\ p < (DayOf(p) + 1) * Day
         /\ DayOf(p) < DayOf(t) => (DayOf(p) + 1) * Day <= t
         /\ DayOf(p) + 1 < DayOf(t) => (DayOf(p) + 2) * Day <= t
<1> DEFINE d == DayOf(p)
           e == DayOf(t)
<1>1. 0 < Day /\ Day \in Nat
  BY Calendar
<1>2. /\ d \in Nat /\ p % Day \in Nat /\ p = d * Day + (p % Day) /\ p < d * Day + Day
  BY <1>1, Division DEF DayOf
<1>3. /\ e \in Nat /\ e * Day <= t /\ t < e * Day + Day
  BY <1>1, Division DEF DayOf
<1> HIDE DEF d, e
<1>4. d * Day <= p /\ d * Day \in Nat
  BY <1>1, <1>2
<1>5. ASSUME NEW k \in Nat, d + k <= e PROVE (d + k) * Day <= t
  <2>1. (d + k) * Day <= e * Day
    BY <1>1, <1>2, <1>3, <1>5
  <2>2. (d + k) * Day \in Nat /\ e * Day \in Nat
    BY <1>1, <1>2, <1>3
  <2> QED BY <1>3, <2>1, <2>2
<1>6. (d + 1) * Day = d * Day + Day
  BY <1>1, <1>2
<1>7. d <= e
  <2> SUFFICES ASSUME e + 1 <= d PROVE FALSE
    BY <1>2, <1>3
  <2>1. (e + 1) * Day <= d * Day
    BY <1>1, <1>2, <1>3
  <2>2. (e + 1) * Day = e * Day + Day
    BY <1>1, <1>3
  <2> QED BY <1>1, <1>3, <1>4, <2>1, <2>2
<1>8. d < e => (d + 1) * Day <= t
  BY <1>2, <1>3, <1>5
<1>9. d + 1 < e => (d + 2) * Day <= t
  BY <1>2, <1>3, <1>5
<1> QED
  BY <1>1, <1>2, <1>3, <1>6, <1>7, <1>8, <1>9 DEF d, e

LEMMA TimedDayIsFaithful ==
  ASSUME NEW p \in Nat, NEW at \in Nat, NEW time \in Nat, p <= at, at <= time,
         NEW w \in DayWord(p, at), NEW text, text = Text({w, "comma"}, 3, p % Day, NaN)
  PROVE  Faithful(text, p, at, time)
<1> DEFINE d == DayOf(at) - DayOf(p)
           days == DayOf(time) - DayOf(at)
<1>1. text.words = {w, "comma"} /\ text.parts = 3 /\ text.n = p % Day
  BY DEF Text
<1>2. (w = "homnay" /\ d = 0) \/ (w = "homqua" /\ d = 1) \/ (w = "homkia" /\ d = 2)
  BY DEF DayWord
<1>3. /\ text.words \cap {"h", "d", "m"} = {}
      /\ text.words \cap {"giay", "phut", "gio", "tuan", "mot", "ngay", "thang"} = {}
  BY <1>1, <1>2
<1>4. ConvertTimeAgoToDate(text, time) = First(DayRules(text, time), None)
  BY <1>1, <1>3, NoAge
<1>5. ~IsAge(text) /\ text.words # {"date"}
  BY <1>1, <1>2 DEF IsAge, Units
<1>6. /\ DayOf(p) \in Nat /\ DayOf(at) \in Nat /\ DayOf(time) \in Nat /\ p % Day \in Nat
      /\ DayOf(at) <= DayOf(time) /\ p = DayOf(p) * Day + (p % Day)
  BY DaysApart
<1>7. CASE w = "homkia"
  <2>1. text.words = {"homkia", "comma"}
    BY <1>1, <1>7
  <2>2. ConvertTimeAgoToDate(text, time) = BeforeYesterday(text, time)
    BY <1>4, <2>1, DayRulesAre
  <2>3. ConvertTimeAgoToDate(text, time) \in Int
    BY <1>1, <1>6, <2>2, BeforeYesterdayIsInt
  <2>4. text.words \notin {{"homnay", "comma"}, {"homqua", "comma"}}
    <3>1. "homkia" \in text.words /\ "homkia" \notin {"homnay", "comma"}
          /\ "homkia" \notin {"homqua", "comma"}
      BY <2>1
    <3> QED BY <3>1
  <2> QED
    BY <1>5, <2>1, <2>3, <2>4 DEF Faithful
<1>8. CASE w # "homkia"
  <2>1. \/ text.words = {"homnay", "comma"} /\ d = 0
        \/ text.words = {"homqua", "comma"} /\ d = 1
    BY <1>1, <1>2, <1>8
  <2>2. ConvertTimeAgoToDate(text, time) = (DayOf(time) - d) * Day + (p % Day)
    <3>1. CASE text.words = {"homnay", "comma"} /\ d = 0
      <4>1. ConvertTimeAgoToDate(text, time) = AtTime(text, DayOf(time))
        BY <1>4, <3>1, DayRulesAre
      <4>2. DayOf(time) - d = DayOf(time)
        BY <1>6, <3>1
      <4> QED
        BY <1>1, <4>1, <4>2 DEF AtTime
    <3>2. CASE text.words = {"homqua", "comma"} /\ d = 1
      <4>1. ConvertTimeAgoToDate(text, time) = AtTime(text, DayOf(time) - 1)
        BY <1>4, <3>2, DayRulesAre
      <4>2. DayOf(time) - d = DayOf(time) - 1
        BY <1>6, <3>2
      <4> QED
        BY <1>1, <4>1, <4>2 DEF AtTime
    <3> QED
      BY <2>1, <3>1, <3>2
  <2>3. DayOf(time) - d = DayOf(p) + days
    BY <1>6
  <2>4. /\ (DayOf(p) + days) * Day = DayOf(p) * Day + days * Day
        /\ DayOf(p) * Day \in Int /\ days * Day \in Nat
    BY <1>6, Calendar
  <2>5. ConvertTimeAgoToDate(text, time) = p + days * Day
    BY <1>6, <2>2, <2>3, <2>4
  <2>6. days = 0 => p + days * Day <= time
    BY <1>6, Calendar
  <2>7. d = 1 => p + days * Day <= time
    <3> SUFFICES ASSUME d = 1 PROVE p + days * Day <= time
      OBVIOUS
    <3>1. p <= time /\ DayOf(p) < DayOf(time)
      BY <1>6
    <3>2. p < (DayOf(p) + 1) * Day
      BY DaysApart
    <3>3. DayOf(time) * Day <= time
      BY Calendar, Division DEF DayOf
    <3>4. (DayOf(p) + 1) * Day + days * Day = DayOf(time) * Day
      BY <1>6, Calendar
    <3>5. (DayOf(p) + 1) * Day \in Int /\ DayOf(time) * Day \in Int
      BY <1>6, Calendar
    <3> HIDE DEF days
    <3> QED
      BY <2>4, <3>2, <3>3, <3>4, <3>5
  <2>8. p + days * Day \in Nat /\ days \in Nat
    BY <1>6, <2>4
  <2> DEFINE today == text.words = {"homnay", "comma"}
             yesterday == text.words = {"homqua", "comma"}
  <2>9. (today /\ d = 0) \/ (yesterday /\ d = 1)
    BY <2>1
  <2>10. PICK v \in Nat : v = p + days * Day
    BY <2>8
  <2>11. ConvertTimeAgoToDate(text, time) = v /\ v # None
    BY <2>5, <2>10 DEF None
  <2>12. (today /\ days > 0) \/ ~(v > time)
    <3> HIDE DEF d, days, today, yesterday
    <3>1. CASE days = 0
      BY <2>6, <2>10, <3>1
    <3>2. CASE days > 0 /\ d = 0
      BY <2>9, <3>2
    <3>3. CASE d = 1
      BY <2>7, <2>10, <3>3
    <3> QED
      BY <2>8, <2>9, <3>1, <3>2, <3>3
  <2>13. v \in Int
    OBVIOUS
  <2> QED
    BY <1>5, <2>10, <2>11, <2>12, <2>13, Zenon DEF Faithful
<1> QED
  BY <1>7, <1>8

LEMMA UntimedDayIsFaithful ==
  ASSUME NEW p \in Nat, NEW at \in Nat, NEW time \in Nat, p <= at, at <= time,
         NEW w \in DayWord(p, at), NEW text, text = Text({w}, 2, NaN, NaN)
  PROVE  Faithful(text, p, at, time)
<1> DEFINE d == DayOf(at) - DayOf(p)
           made == ConvertTimeAgoToDate(text, time)
<1>1. text.words = {w} /\ text.parts = 2
  BY DEF Text
<1>2. (w = "homnay" /\ d = 0) \/ (w = "homqua" /\ d = 1) \/ (w = "homkia" /\ d = 2)
  BY DEF DayWord
<1>3. /\ text.words \cap {"h", "d", "m"} = {}
      /\ text.words \cap {"giay", "phut", "gio", "tuan", "mot", "ngay", "thang"} = {}
  BY <1>1, <1>2
<1>4. made = First(DayRules(text, time), None)
  BY <1>1, <1>3, NoAge
<1>5. ~IsAge(text)
  BY <1>1, <1>2 DEF IsAge, Units
<1>6. text.words \notin {{"homnay", "comma"}, {"homqua", "comma"}} /\ text.words # {"date"}
  <2>1. "comma" \notin text.words /\ "date" \notin text.words
    BY <1>1, <1>2
  <2> QED BY <2>1
<1>7. /\ DayOf(p) \in Nat /\ DayOf(at) \in Nat
      /\ DayOf(p) < DayOf(at) => (DayOf(p) + 1) * Day <= at
      /\ DayOf(p) + 1 < DayOf(at) => (DayOf(p) + 2) * Day <= at
  BY DaysApart
<1>8. CASE w = "homnay"
  <2>1. text.words = {"homnay"}
    BY <1>1, <1>8
  <2>2. text.words \in {{"nam"}, {"homnay"}}
    BY <2>1
  <2>3. made = None
    BY <1>4, <2>2, DayRulesAre
  <2>4. None \in Int
    BY DEF None
  <2> QED
    BY <2>1, <2>3, <2>4, Zenon DEF Faithful
<1>9. ASSUME NEW k \in {1, 2}, made = time - k * Day, d = k PROVE Faithful(text, p, at, time)
  <2>1. k * Day <= (DayOf(p) + k) * Day /\ (DayOf(p) + k) * Day <= at
    BY <1>7, <1>9, Calendar
  <2>2. k * Day \in Nat /\ (DayOf(p) + k) * Day \in Int
    BY <1>7, Calendar
  <2>3. made \in Int /\ made # None /\ ~(made > time)
    BY <1>9, <2>1, <2>2 DEF None
  <2> HIDE DEF made
  <2> QED
    BY <1>5, <1>6, <2>3, Zenon DEF Faithful, made
<1>10. CASE w = "homqua"
  <2>1. made = time - Day
    BY <1>1, <1>4, <1>10, DayRulesAre
  <2>2. made = time - 1 * Day
    BY <2>1, Calendar
  <2> QED
    BY <1>2, <1>9, <1>10, <2>2
<1>11. CASE w = "homkia"
  <2>1. made = time - 2 * Day
    BY <1>1, <1>4, <1>11, DayRulesAre
  <2> QED
    BY <1>2, <1>9, <1>11, <2>1
<1> QED
  BY <1>2, <1>8, <1>10, <1>11

LEMMA OnDateIsFaithful ==
  ASSUME NEW p \in Nat, NEW at \in Nat, NEW time \in Nat, p <= at, at <= time,
         NEW text \in OnDate(p)
  PROVE  Faithful(text, p, at, time)
<1> DEFINE made == ConvertTimeAgoToDate(text, time)
<1>1. text.words = {"date"} /\ text.parts = 2 /\ text.n = p
  BY DEF OnDate, Text
<1>2. made = p
  BY <1>1, NoAge, DayRulesAre
<1>3. made \in Int /\ made # None /\ ~(made > time)
  BY <1>2 DEF None
<1>4. ~IsAge(text)
  BY <1>1 DEF IsAge, Units
<1>5. text.words \notin {{"homnay", "comma"}, {"homqua", "comma"}}
  <2>1. "comma" \notin text.words
    BY <1>1
  <2> QED BY <2>1
<1> HIDE DEF made
<1> QED
  BY <1>2, <1>3, <1>4, <1>5, Zenon DEF Faithful, made

(* Whatever form of words a site chooses, and whenever it is converted.    *)
LEMMA EveryFormIsFaithful ==
  ASSUME NEW p \in Nat, NEW at \in Nat, NEW time \in Nat, p <= at, at <= time,
         NEW text \in Shown(p, at)
  PROVE  Faithful(text, p, at, time)
<1>1. CASE text \in Counted(at - p)
  BY <1>1, CountedIsFaithful
<1>2. CASE text \in InWords(at - p)
  BY <1>2, InWordsIsFaithful
<1>3. CASE text \in JustNow(at - p)
  BY <1>3, JustNowIsFaithful
<1>4. CASE text \in Short(at - p)
  BY <1>4, ShortIsFaithful
<1>5. CASE text \in HoursMinutes(at - p, 5) \union HoursMinutes(at - p, 4)
  BY <1>5, HoursMinutesIsFaithful
<1>6. CASE text \in DaysHours(at - p)
  BY <1>6, DaysHoursIsFaithful
<1>7. CASE text \in OnDay(p, at)
  BY <1>7, TimedDayIsFaithful, UntimedDayIsFaithful DEF OnDay
<1>8. CASE text \in OnDate(p)
  BY <1>8, OnDateIsFaithful
<1> QED
  BY <1>1, <1>2, <1>3, <1>4, <1>5, <1>6, <1>7, <1>8 DEF Shown
----------------------------------------------------------------------------
(* The text that waits, and the one saved last, are texts the site showed  *)
(* when the list was read; what is stored since a save that gave a date is *)
(* what the text was converted to then.                                    *)
ReadingInv ==
  reading # NoReading =>
    reading.at \in Opening..clock /\ reading.text \in Shown(posted, reading.at)

StoredInv ==
  saved # NoSave =>
    /\ saved.at \in Opening..clock /\ saved.time \in saved.at..clock
    /\ saved.text \in Shown(posted, saved.at)
    /\ LET made == ConvertTimeAgoToDate(saved.text, saved.time)
       IN  /\ saved.dated <=> made # None
           /\ made # None => date = made

DatesInv ==
  /\ clock \in Opening..Closing /\ posted \in 0..Opening /\ date \in Int
  /\ ReadingInv
  /\ StoredInv

LEMMA DatesStart == DatesInit => DatesInv
<1>1. None \in Int /\ Opening \in Opening..Closing
  BY Calendar DEF None
<1> QED
  BY <1>1 DEF DatesInit, DatesInv, ReadingInv, StoredInv

LEMMA TickKeeps ==
  ASSUME DatesInv, Tick
  PROVE  DatesInv'
<1>1. clock \in Nat /\ clock' = clock + 1 /\ clock < Closing
  BY Calendar DEF Tick, DatesInv
<1>2. UNCHANGED <<posted, reading, date, saved>>
  BY DEF Tick
<1>3. clock' \in Opening..Closing /\ Opening..clock \subseteq Opening..clock'
  BY <1>1, Calendar DEF DatesInv
<1>4. ReadingInv'
  BY <1>2, <1>3 DEF ReadingInv, DatesInv
<1>5. StoredInv'
  <2> SUFFICES ASSUME saved # NoSave PROVE StoredInv'
    BY <1>2 DEF StoredInv
  <2>1. saved.at \in Opening..clock' /\ saved.time \in saved.at..clock'
    BY <1>1, <1>3, Calendar DEF StoredInv, DatesInv
  <2> QED
    BY <1>2, <2>1, Zenon DEF StoredInv, DatesInv
<1> QED
  BY <1>2, <1>3, <1>4, <1>5 DEF DatesInv

LEMMA ReadListKeeps ==
  ASSUME DatesInv, ReadList
  PROVE  DatesInv'
<1>1. PICK text \in Shown(posted, clock) : reading' = [text |-> text, at |-> clock]
  BY DEF ReadList
<1>2. saved' = NoSave /\ UNCHANGED <<clock, posted, date>>
  BY DEF ReadList
<1>3. clock \in Opening..clock
  BY Calendar DEF DatesInv
<1>4. ReadingInv'
  BY <1>1, <1>2, <1>3 DEF ReadingInv
<1> QED
  BY <1>2, <1>4 DEF DatesInv, StoredInv

LEMMA SaveJobKeeps ==
  ASSUME DatesInv, SaveJob
  PROVE  DatesInv'
<1> DEFINE made == ConvertTimeAgoToDate(reading.text, clock)
<1>1. /\ reading # NoReading /\ reading' = NoReading /\ UNCHANGED <<clock, posted>>
      /\ date' = DateToStore(made)
      /\ saved' = [text |-> reading.text, at |-> reading.at, time |-> clock, dated |-> made # None]
  BY DEF SaveJob
<1>2. /\ posted \in Nat /\ reading.at \in Opening..clock /\ reading.at \in Nat /\ clock \in Nat
      /\ posted <= reading.at /\ reading.at <= clock /\ clock \in reading.at..clock
      /\ reading.text \in Shown(posted, reading.at)
  BY <1>1, Calendar DEF DatesInv, ReadingInv
<1>3. made \in Int
  <2>1. Faithful(reading.text, posted, reading.at, clock)
    BY <1>2, EveryFormIsFaithful
  <2> QED BY <2>1 DEF Faithful
<1> HIDE DEF made
<1>4. date' \in Int
  BY <1>1, <1>3 DEF DateToStore, DatesInv
<1>5. /\ saved'.text = reading.text /\ saved'.at = reading.at /\ saved'.time = clock
      /\ saved'.dated <=> made # None
  BY <1>1, Zenon
<1>6. made # None => date' = made
  BY <1>1 DEF DateToStore
<1>7. ConvertTimeAgoToDate(saved'.text, saved'.time) = made
  BY <1>5 DEF made
<1>8. StoredInv'
  BY <1>1, <1>2, <1>5, <1>6, <1>7, Zenon DEF StoredInv
<1> QED
  BY <1>1, <1>4, <1>8 DEF DatesInv, ReadingInv

LEMMA DatesStep == DatesInv /\ [DatesNext]_datesVars => DatesInv'
<1> SUFFICES ASSUME DatesInv, [DatesNext]_datesVars PROVE DatesInv'
  OBVIOUS
<1>1. CASE LeavePage
  BY <1>1 DEF LeavePage, DatesInv, ReadingInv, StoredInv
<1>2. CASE UNCHANGED datesVars
  BY <1>2 DEF datesVars, DatesInv, ReadingInv, StoredInv
<1> QED
  BY <1>1, <1>2, TickKeeps, ReadListKeeps, SaveJobKeeps DEF DatesNext

(* The invariant of the dates holds, whenever lists are read and jobs are  *)
(* saved (careerlink.ts 114-135).                                          *)
THEOREM DatesInvariance == DatesSpec => []DatesInv
  BY DatesStart, DatesStep, PTL DEF DatesSpec

(* What the invariant says of the last save.                               *)
LEMMA SavedIsFaithful ==
  ASSUME DatesInv, saved # NoSave
  PROVE  /\ Faithful(saved.text, posted, saved.at, saved.time)
         /\ saved.dated <=> ConvertTimeAgoToDate(saved.text, saved.time) # None
         /\ saved.dated => date = ConvertTimeAgoToDate(saved.text, saved.time)
<1>1. /\ posted \in Nat /\ saved.at \in Nat /\ saved.time \in Nat
      /\ posted <= saved.at /\ saved.at <= saved.time
      /\ saved.text \in Shown(posted, saved.at)
  BY Calendar DEF DatesInv, StoredInv
<1> QED
  BY <1>1, EveryFormIsFaithful DEF DatesInv, StoredInv

LEMMA NothingDated == ASSUME saved.dated PROVE saved # NoSave
  BY DEF NoSave

(* An age in words is never taken for an older one, and for one that is    *)
(* newer by its grain at most when the rules read it (helper.ts 195-257).  *)
THEOREM AgesNeverOlder == DatesSpec => []AgesAreNeverOlder
<1>1. DatesInv => AgesAreNeverOlder
  BY SavedIsFaithful, NothingDated, Zenon DEF AgesAreNeverOlder, Faithful, Lag
<1> QED
  BY <1>1, DatesInvariance, PTL

(* Times of the day are put on the day of the save, and dates lie in the   *)
(* future for no other reason (helper.ts 259-290).                         *)
THEOREM TimesFollowTheDay == DatesSpec => []ClockTimesFollowTheDay
<1>1. DatesInv => ClockTimesFollowTheDay
  BY SavedIsFaithful, NothingDated, Zenon DEF ClockTimesFollowTheDay, Faithful, DaysPassed
<1> QED
  BY <1>1, DatesInvariance, PTL

(* The texts that give no date are the four kinds (helper.ts 195-293).     *)
THEOREM UndatedOnly == DatesSpec => []UndatedOnlyBy
<1>1. DatesInv => UndatedOnlyBy
  BY SavedIsFaithful, Zenon DEF UndatedOnlyBy, Faithful
<1> QED
  BY <1>1, DatesInvariance, PTL
=============================================================================
