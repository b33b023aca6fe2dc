--------------------------- MODULE JobSearchProofs ---------------------------
(***************************************************************************)
(* What a pass through the pages of a search shows, for any jobs, dates,   *)
(* page size and bounds.  The argument is about ranks: a job that shares   *)
(* its date with no other has one place in every order the database may    *)
(* answer in, behind the jobs of later dates, so that which page shows it  *)
(* does not depend on the order of the others.                             *)
(***************************************************************************)
EXTENDS JobSearch, FiniteSetTheorems, SequenceTheorems, FunctionTheorems,
        WellFoundedInduction, TLAPS

Above(d) == {e \in Docs : date[e] > date[d]}
Rank(d) == Cardinality(Above(d)) + 1
OnPage(d) == \E i \in DOMAIN items : items[i] = d

(* The types of what the search keeps; answer's is part of LaidInv below.  *)
TypeInv ==
  /\ date \in [Docs -> Absent..MaxDate]
  /\ pc \in {"idle", "count", "recount", "fetch", "inject", "answered"}
  /\ page \in 1..(Cardinality(Docs) + 1)
  /\ total \in 0..Cardinality(Docs)
  /\ items \in UNION {[1..n -> Docs] : n \in 0..Limit}
  /\ changes \in 0..MaxChanges
  /\ faults \in 0..MaxFaults
  /\ shown \in [Docs -> Nat]
  /\ touched \subseteq Docs /\ tied \subseteq Docs

(* What the last count still says of the collection.                       *)
Counted == pc \in {"recount", "fetch", "inject", "answered"}
CountInv ==
  Counted =>
    /\ ~late => total = Cardinality(Matching)
    /\ touched = {} => total = Cardinality(Matching)
    /\ ~left => total <= Cardinality(Matching)

(* A page that was taken for a promised one has jobs.                      *)
PromiseInv == pc \in {"inject", "answered"} /\ page <= TotalPages /\ ~left => items # <<>>

TiedInv == Tied(date) \subseteq tied

(* A job nobody writes was shown, or is still ahead of the pass, while no  *)
(* other job leaves the places before it.                                  *)
Ahead(d) ==
  /\ Rank(d) > Skipped
  /\ pc = "inject" => OnPage(d) \/ Rank(d) > Skipped + Limit
  /\ pc = "answered" => Rank(d) > Skipped + Limit
SkipInv ==
  pc # "idle" /\ ~lowered =>
    \A d \in Matching \ (touched \union tied) : shown[d] >= 1 \/ Ahead(d)

(* As long as nobody writes, the pages so far showed what ranks on them.   *)
Passed == IF pc = "answered" THEN Skipped + Limit ELSE Skipped
QuietInv ==
  pc # "idle" /\ touched = {} =>
    \A d \in Matching \ tied :
      /\ shown[d] = IF Rank(d) <= Passed THEN 1 ELSE 0
      /\ pc = "inject" => (OnPage(d) <=> Rank(d) > Skipped /\ Rank(d) <= Skipped + Limit)

IInv == TypeInv /\ CountInv /\ PromiseInv /\ TiedInv /\ SkipInv /\ QuietInv
----------------------------------------------------------------------------
(* Arithmetic of pages.                                                    *)
LEMMA PagesBefore ==
  ASSUME NEW p \in Nat \ {0}
  PROVE  /\ (p - 1) * Limit \in Nat
         /\ p * Limit = (p - 1) * Limit + Limit
         /\ ((p + 1) - 1) * Limit = (p - 1) * Limit + Limit
BY SearchAssumption

(* A page is one of the total's pages when jobs are left for it.           *)
LEMMA PagesOf ==
  ASSUME NEW p \in Nat \ {0}, NEW n \in Nat
  PROVE  /\ (n + Limit - 1) \div Limit \in Nat
         /\ p <= (n + Limit - 1) \div Limit <=> (p - 1) * Limit < n
BY SearchAssumption

LEMMA Finite ==
  ASSUME TypeInv
  PROVE  /\ IsFiniteSet(Docs) /\ Cardinality(Docs) \in Nat
         /\ IsFiniteSet(Matching) /\ Cardinality(Matching) \in 0..Cardinality(Docs)
         /\ page \in Nat \ {0} /\ total \in Nat /\ Skipped \in Nat
<1>1. IsFiniteSet(Docs) /\ Cardinality(Docs) \in Nat
  BY SearchAssumption, FS_CardinalityType
<1>2. Matching \in SUBSET Docs
  BY DEF Matching
<1>3. IsFiniteSet(Matching) /\ Cardinality(Matching) \in Nat /\ Cardinality(Matching) <= Cardinality(Docs)
  BY <1>1, <1>2, FS_Subset, FS_CardinalityType
<1>4. page \in Nat \ {0} /\ total \in Nat
  BY <1>1 DEF TypeInv
<1>5. Skipped \in Nat
  BY <1>4, PagesBefore DEF Skipped
<1> QED
  BY <1>1, <1>3, <1>4, <1>5

LEMMA RankType ==
  ASSUME TypeInv, NEW d \in Docs
  PROVE  IsFiniteSet(Above(d)) /\ Rank(d) \in Nat \ {0}
<1>1. Above(d) \in SUBSET Docs
  BY DEF Above
<1>2. IsFiniteSet(Above(d)) /\ Cardinality(Above(d)) \in Nat
  BY <1>1, Finite, FS_Subset, FS_CardinalityType
<1> QED
  BY <1>2 DEF Rank

(* Ranks only grow while no date goes down.                                *)
LEMMA RankGrows ==
  ASSUME TypeInv, TypeInv', NEW d \in Docs, Above(d) \subseteq Above(d)'
  PROVE  Rank(d) <= Rank(d)'
<1>1. IsFiniteSet(Above(d)') /\ Cardinality(Above(d)') \in Nat
  <2>1. Above(d)' \in SUBSET Docs
    BY DEF Above
  <2> QED
    BY <2>1, Finite, FS_Subset, FS_CardinalityType
<1>2. Cardinality(Above(d)) <= Cardinality(Above(d)') /\ Cardinality(Above(d)) \in Nat
  BY <1>1, FS_Subset, FS_CardinalityType
<1> QED
  BY <1>1, <1>2 DEF Rank

(* An untied job has its rank as its place in every order.                 *)
LEMMA PlaceIsRank ==
  ASSUME TypeInv, NEW o \in Orders, NEW d \in Matching \ Tied(date)
  PROVE  /\ Rank(d) \in 1..Cardinality(Matching)
         /\ \A i \in 1..Cardinality(Matching) : o[i] = d <=> i = Rank(d)
<1> DEFINE N == Cardinality(Matching)
<1>1. IsFiniteSet(Matching) /\ N \in Nat
  BY Finite
<1>2. /\ o \in [1..N -> Matching]
      /\ \A i, j \in 1..N : i < j => o[i] # o[j] /\ date[o[i]] >= date[o[j]]
  BY DEF Orders, InOrder, Newest
<1>3. IsFiniteSet(1..N) /\ Cardinality(1..N) = N
  BY <1>1, FS_Interval
<1>4. /\ d \in Docs /\ date[d] \in Int /\ date[d] # Absent
      /\ \A e \in Docs : date[e] \in Int /\ (e # d => date[e] # date[d])
  BY DEF Matching, Tied, TypeInv, Absent
<1>5. \A e \in Docs : date[e] > date[d] => e \in Matching
  BY <1>4 DEF Matching, TypeInv, Absent
<1> HIDE DEF N
<1>6. \A i, j \in 1..N : o[i] = o[j] => i = j
  <2> SUFFICES ASSUME NEW i \in 1..N, NEW j \in 1..N, o[i] = o[j] PROVE i = j
    OBVIOUS
  <2>1. i < j \/ j < i \/ i = j
    BY <1>1
  <2> QED
    BY <1>2, <2>1
<1>7. o \in Injection(1..N, Matching)
  BY <1>2, <1>6, Fun_IsInj
<1>8. o \in Surjection(1..N, Matching)
  BY <1>1, <1>3, <1>7, FS_Injection DEF N
<1>9. PICK p \in 1..N : o[p] = d
  BY <1>8 DEF Surjection
<1>10. p - 1 \in Nat /\ 1..(p - 1) \subseteq 1..N
  BY <1>1
<1> DEFINE f == [i \in 1..(p - 1) |-> o[i]]
<1>11. \A i \in 1..(p - 1) : o[i] \in Above(d)
  <2> SUFFICES ASSUME NEW i \in 1..(p - 1) PROVE o[i] \in Above(d)
    OBVIOUS
  <2>1. i \in 1..N /\ i < p /\ o[i] \in Docs
    BY <1>2, <1>10 DEF Matching
  <2>2. o[i] # d /\ date[o[i]] >= date[d]
    BY <1>2, <1>9, <2>1
  <2> QED
    BY <1>4, <2>1, <2>2 DEF Above
<1>12. \A e \in Above(d) : \E i \in 1..(p - 1) : o[i] = e
  <2> SUFFICES ASSUME NEW e \in Above(d) PROVE \E i \in 1..(p - 1) : o[i] = e
    OBVIOUS
  <2>1. e \in Docs /\ date[e] > date[d] /\ e \in Matching
    BY <1>5 DEF Above
  <2>2. PICK i \in 1..N : o[i] = e
    BY <1>8, <2>1 DEF Surjection
  <2>3. ~(p < i)
    BY <1>2, <1>4, <1>9, <2>1, <2>2
  <2>4. i # p
    BY <1>4, <1>9, <2>1, <2>2
  <2> QED
    BY <1>1, <2>2, <2>3, <2>4
<1>13. f \in Bijection(1..(p - 1), Above(d))
  BY <1>6, <1>10, <1>11, <1>12, Fun_IsBij
<1>14. Cardinality(Above(d)) = p - 1
  <2>1. ExistsBijection(1..(p - 1), Above(d))
    BY <1>13 DEF ExistsBijection
  <2> QED
    BY <1>10, <2>1, FS_CountingElements
<1>15. Rank(d) = p
  BY <1>14 DEF Rank
<1> QED
  BY <1>6, <1>9, <1>15 DEF N

LEMMA LesserOf ==
  ASSUME NEW a \in Int, NEW b \in Int
  PROVE  Min({a, b}) = IF a <= b THEN a ELSE b
<1> DEFINE Least(x) == x \in {a, b} /\ \A y \in {a, b} : x <= y
<1>1. Least(IF a <= b THEN a ELSE b)
  OBVIOUS
<1>2. \A x : Least(x) => x = IF a <= b THEN a ELSE b
  OBVIOUS
<1>3. Min({a, b}) = CHOOSE x : Least(x)
  BY DEF Min
<1> HIDE DEF Least
<1>4. Least(CHOOSE x : Least(x))
  BY <1>1
<1> QED
  BY <1>2, <1>3, <1>4

(* What a page has of an order: the untied jobs that rank on it.           *)
LEMMA FetchedPage ==
  ASSUME TypeInv, Fetch
  PROVE  /\ items' \in UNION {[1..n -> Docs] : n \in 0..Limit}
         /\ Skipped < Cardinality(Matching) => items' # <<>>
         /\ \A d \in Matching \ Tied(date) :
              OnPage(d)' <=> Rank(d) > Skipped /\ Rank(d) <= Skipped + Limit
<1> DEFINE N == Cardinality(Matching)
<1>1. PICK o \in Orders : items' = SubSeq(o, Skipped + 1, PageEnd)
  BY DEF Fetch
<1>2. Skipped \in Nat /\ N \in Nat /\ Limit \in Nat \ {0}
  BY Finite, SearchAssumption
<1>3. PageEnd = IF Skipped + Limit <= N THEN Skipped + Limit ELSE N
  BY <1>2, LesserOf DEF PageEnd
<1>4. o \in [1..N -> Matching]
  BY DEF Orders
<1> HIDE DEF N
<1> DEFINE n == IF Skipped < PageEnd THEN PageEnd - Skipped ELSE 0
<1>5. PageEnd \in Nat /\ PageEnd <= N /\ PageEnd <= Skipped + Limit /\ n \in 0..Limit
  BY <1>2, <1>3
<1>6. \A i \in (Skipped + 1)..PageEnd : o[i] \in Docs
  BY <1>2, <1>4, <1>5 DEF Matching
<1>7. /\ SubSeq(o, Skipped + 1, PageEnd) \in Seq(Docs)
      /\ Len(SubSeq(o, Skipped + 1, PageEnd)) = n
      /\ \A i \in 1..n : SubSeq(o, Skipped + 1, PageEnd)[i] = o[Skipped + i]
  <2>1. /\ SubSeq(o, Skipped + 1, PageEnd) \in Seq(Docs)
        /\ Len(SubSeq(o, Skipped + 1, PageEnd)) =
             IF Skipped + 1 <= PageEnd THEN PageEnd - (Skipped + 1) + 1 ELSE 0
        /\ \A i \in 1..(PageEnd - (Skipped + 1) + 1) :
             SubSeq(o, Skipped + 1, PageEnd)[i] = o[(Skipped + 1) + i - 1]
    BY <1>2, <1>5, <1>6, SubSeqProperties, Skipped + 1 \in Int, PageEnd \in Int
  <2>2. \A i \in 1..n : i \in 1..(PageEnd - (Skipped + 1) + 1) /\ (Skipped + 1) + i - 1 = Skipped + i
    BY <1>2, <1>5
  <2>3. n = IF Skipped + 1 <= PageEnd THEN PageEnd - (Skipped + 1) + 1 ELSE 0
    BY <1>2, <1>5
  <2> QED
    BY <2>1, <2>2, <2>3
<1> HIDE DEF n
<1>8. items' \in Seq(Docs) /\ Len(items') = n /\ \A i \in 1..n : items'[i] = o[Skipped + i]
  BY <1>1, <1>7
<1>9. DOMAIN items' = 1..n /\ items' \in [1..n -> Docs]
  BY <1>8
<1>10. Skipped < N => items' # <<>>
  BY <1>2, <1>3, <1>5, <1>8 DEF n
<1>11. ASSUME NEW d \in Matching \ Tied(date)
       PROVE  OnPage(d)' <=> Rank(d) > Skipped /\ Rank(d) <= Skipped + Limit
  <2>1. Rank(d) \in 1..N /\ \A i \in 1..N : o[i] = d <=> i = Rank(d)
    BY <1>11, PlaceIsRank DEF N
  <2>2. \A i \in 1..n : Skipped + i \in 1..N
    BY <1>2, <1>5 DEF n
  <2>3. OnPage(d)' <=> \E i \in 1..n : Skipped + i = Rank(d)
    BY <1>8, <1>9, <2>1, <2>2 DEF OnPage
  <2>4. (\E i \in 1..n : Skipped + i = Rank(d)) <=> Rank(d) > Skipped /\ Rank(d) <= Skipped + Limit
    <3>1. ASSUME Rank(d) > Skipped, Rank(d) <= Skipped + Limit
          PROVE  Rank(d) - Skipped \in 1..n /\ Skipped + (Rank(d) - Skipped) = Rank(d)
      BY <1>2, <1>3, <1>5, <2>1, <3>1 DEF n
    <3>2. \A i \in 1..n : Skipped + i > Skipped /\ Skipped + i <= Skipped + Limit
      BY <1>2, <1>5 DEF n
    <3> QED
      BY <3>1, <3>2
  <2> QED
    BY <2>3, <2>4
<1> QED
  BY <1>5, <1>9, <1>10, <1>11 DEF N
----------------------------------------------------------------------------
LEMMA InitInv == Init => IInv
<1> SUFFICES ASSUME Init PROVE IInv
  OBVIOUS
<1>1. Cardinality(Docs) \in Nat
  BY SearchAssumption, FS_CardinalityType
<1>2. <<>> \in UNION {[1..n -> Docs] : n \in 0..Limit}
  <2>1. 0 \in 0..Limit /\ <<>> \in [1..0 -> Docs]
    BY SearchAssumption
  <2> QED
    BY <2>1
<1>3. Tied(date) \subseteq Docs
  BY DEF Tied
<1>4. 1 \in 1..(Cardinality(Docs) + 1) /\ 0 \in 0..Cardinality(Docs)
      /\ 0 \in 0..MaxChanges /\ 0 \in 0..MaxFaults
  BY <1>1, SearchAssumption
<1>5. TypeInv
  BY <1>2, <1>3, <1>4 DEF Init, TypeInv
<1> QED
  BY <1>5 DEF Init, IInv, CountInv, Counted, PromiseInv, TiedInv, SkipInv, QuietInv

(* A job is written, or becomes too old for the search.                    *)
LEMMA DatedTypes ==
  ASSUME IInv, NEW d \in Docs, SaveJob(d) \/ Age(d)
  PROVE  TypeInv'
<1>1. PICK t \in Absent..MaxDate : Dated(d, t)
  <2>1. CASE SaveJob(d)
    BY <2>1 DEF SaveJob
  <2>2. CASE Age(d)
    BY <2>2, SearchAssumption DEF Age, Absent
  <2> QED
    BY <2>1, <2>2
<1>2. UNCHANGED <<request, faults, shown>>
  BY DEF SaveJob, Age
<1>3. Tied(date') \subseteq Docs
  BY DEF Tied
<1>4. changes' \in 0..MaxChanges
  BY <1>1, SearchAssumption DEF Dated, IInv, TypeInv
<1> QED
  BY <1>1, <1>2, <1>3, <1>4 DEF Dated, IInv, TypeInv, request

LEMMA DatedInv ==
  ASSUME IInv, NEW d \in Docs, SaveJob(d) \/ Age(d)
  PROVE  IInv'
<1>1. TypeInv /\ TypeInv'
  BY DatedTypes DEF IInv
<1>2. PICK t \in Absent..MaxDate :
        Dated(d, t) /\ (SaveJob(d) => left' = (left \/ t = Absent))
  <2>1. CASE SaveJob(d)
    BY <2>1 DEF SaveJob
  <2>2. CASE ~SaveJob(d)
    BY <2>2, SearchAssumption DEF Age, Absent
  <2> QED
    BY <2>1, <2>2
<1>3. UNCHANGED <<pc, page, total, items, shown>>
  BY DEF SaveJob, Age, request
<1>4. /\ date' = [date EXCEPT ![d] = t]
      /\ touched' = touched \union {d}
      /\ tied' = tied \union Tied(date')
      /\ date \in [Docs -> Absent..MaxDate] /\ date[d] \in Int /\ t \in Int
  BY <1>1, <1>2 DEF Dated, TypeInv, Absent
<1>5. lowered' = (lowered \/ t < date[d])
  BY <1>2 DEF Dated
<1>6. d \in touched' /\ touched' # {}
  BY <1>4
<1>7. QuietInv'
  BY <1>6 DEF QuietInv
<1>8. TiedInv'
  BY <1>4 DEF TiedInv
<1>9. CountInv'
  <2>1. CASE Age(d)
    BY <1>3, <2>1 DEF Age, CountInv, Counted
  <2>2. CASE SaveJob(d)
    <3>1. late'
      BY <2>2 DEF SaveJob
    <3>2. ASSUME Counted', ~left' PROVE total' <= Cardinality(Matching')
      <4>1. left' = (left \/ t = Absent)
        BY <1>2, <2>2
      <4>2. ~left /\ t # Absent
        BY <3>2, <4>1
      <4>3. total <= Cardinality(Matching)
        BY <1>3, <3>2, <4>2 DEF IInv, CountInv, Counted
      <4>4. Matching \in SUBSET Matching'
        BY <1>4, <4>2 DEF Matching
      <4>5. IsFiniteSet(Matching') /\ Cardinality(Matching') \in Nat /\ Cardinality(Matching) \in Nat
        <5>1. Matching' \in SUBSET Docs
          BY DEF Matching
        <5> QED
          BY <1>1, <5>1, Finite, FS_Subset, FS_CardinalityType
      <4>6. Cardinality(Matching) <= Cardinality(Matching')
        BY <4>4, <4>5, FS_Subset
      <4> QED
        BY <1>1, <1>3, <4>3, <4>5, <4>6, Finite
    <3> QED
      BY <1>6, <3>1, <3>2 DEF CountInv
  <2> QED
    BY <2>1, <2>2
<1>10. PromiseInv'
  <2>1. CASE Age(d)
    BY <1>3, <2>1 DEF Age, PromiseInv
  <2>2. CASE SaveJob(d)
    <3>1. left' = (left \/ t = Absent)
      BY <1>2, <2>2
    <3>2. ~left' => ~left
      BY <3>1
    <3> QED
      BY <1>3, <3>2 DEF IInv, PromiseInv, TotalPages
  <2> QED
    BY <2>1, <2>2
<1>11. SkipInv'
  <2> SUFFICES ASSUME pc' # "idle", ~lowered', NEW e \in Matching', e \notin touched', e \notin tied'
               PROVE  (shown[e] >= 1 \/ Ahead(e))'
    BY DEF SkipInv
  <2>1. ~lowered /\ ~(t < date[d])
    BY <1>5
  <2>2. e # d /\ e \in Docs /\ date'[e] = date[e] /\ e \notin touched /\ e \notin tied
    BY <1>4 DEF Matching
  <2>3. e \in Matching
    BY <2>2 DEF Matching
  <2>4. shown[e] >= 1 \/ Ahead(e)
    BY <1>3, <2>1, <2>2, <2>3 DEF IInv, SkipInv
  <2>5. Above(e) \subseteq Above(e)'
    <3>1. \A x \in Docs : date[x] \in Int /\ date'[x] \in Int /\ date'[x] >= date[x]
      BY <1>4, <2>1 DEF Absent
    <3> QED
      BY <2>2, <3>1 DEF Above
  <2>6. Rank(e) <= Rank(e)' /\ Rank(e) \in Nat /\ Rank(e)' \in Nat
    <3>1. Rank(e)' \in Nat
      <4>1. Above(e)' \in SUBSET Docs
        BY DEF Above
      <4>2. Cardinality(Above(e)') \in Nat
        BY <1>1, <4>1, Finite, FS_Subset, FS_CardinalityType
      <4> QED
        BY <4>2 DEF Rank
    <3> QED
      BY <1>1, <2>2, <2>5, <3>1, RankGrows, RankType
  <2>7. Skipped' = Skipped /\ Skipped \in Nat /\ Limit \in Nat /\ OnPage(e)' = OnPage(e)
    BY <1>1, <1>3, Finite, SearchAssumption DEF Skipped, OnPage
  <2> QED
    BY <1>3, <2>4, <2>6, <2>7 DEF Ahead
<1> QED
  BY <1>1, <1>7, <1>8, <1>9, <1>10, <1>11 DEF IInv
----------------------------------------------------------------------------
(* The steps of a request.                                                 *)
LEMMA SameDates ==
  ASSUME UNCHANGED date
  PROVE  Matching' = Matching /\ Tied(date)' = Tied(date) /\ \A d : Rank(d)' = Rank(d)
BY DEF Matching, Tied, Rank, Above

LEMMA BeginInv == IInv /\ Begin => IInv'
<1> SUFFICES ASSUME IInv, Begin PROVE IInv'
  OBVIOUS
<1>0. TypeInv /\ Cardinality(Docs) \in Nat
  BY Finite DEF IInv
<1>1. pc' = "count" /\ UNCHANGED date /\ Skipped' = 0
  BY SearchAssumption DEF Begin, Skipped
<1>2. TypeInv'
  <2>1. Tied(date) \subseteq Docs /\ 1 \in 1..(Cardinality(Docs) + 1)
    BY <1>0 DEF Tied
  <2> QED
    BY <1>0, <2>1 DEF Begin, TypeInv
<1>3. \A d \in Matching' : Rank(d)' > 0 /\ ~(Rank(d)' <= 0) /\ shown'[d] = 0
  BY <1>0, <1>1, RankType, SameDates DEF Begin, Matching
<1>4. SkipInv' /\ QuietInv'
  BY <1>1, <1>3 DEF SkipInv, QuietInv, Ahead, Passed
<1>5. CountInv' /\ PromiseInv' /\ TiedInv'
  BY <1>1, SameDates DEF Begin, CountInv, Counted, PromiseInv, TiedInv
<1> QED
  BY <1>2, <1>4, <1>5 DEF IInv

LEMMA CountStep == IInv /\ Count => IInv'
<1> SUFFICES ASSUME IInv, Count PROVE IInv'
  OBVIOUS
<1>0. TypeInv /\ Cardinality(Matching) \in 0..Cardinality(Docs) /\ Cardinality(Matching) \in Nat
  BY Finite DEF IInv
<1>1. /\ pc = "count" /\ pc' = "recount" /\ total' = Cardinality(Matching)
      /\ UNCHANGED <<date, page, items, shown, touched, tied, lowered>>
  BY DEF Count
<1>2. Matching' = Matching /\ Tied(date)' = Tied(date) /\ \A d : Rank(d)' = Rank(d)
  BY <1>1, SameDates
<1>3. TypeInv'
  BY <1>0, <1>1 DEF Count, TypeInv
<1>4. CountInv'
  BY <1>0, <1>1, <1>2 DEF CountInv
<1>5. PromiseInv' /\ TiedInv'
  BY <1>1, <1>2 DEF IInv, PromiseInv, TiedInv
<1>6. SkipInv' /\ QuietInv'
  BY <1>1, <1>2 DEF IInv, SkipInv, QuietInv, Ahead, Passed, Skipped
<1> QED
  BY <1>3, <1>4, <1>5, <1>6 DEF IInv

LEMMA RecountStep == IInv /\ Recount => IInv'
<1> SUFFICES ASSUME IInv, Recount PROVE IInv'
  OBVIOUS
<1>0. TypeInv /\ page \in Nat \ {0} /\ total \in Nat /\ Skipped \in Nat
  BY Finite DEF IInv
<1>1. /\ pc = "recount" /\ items' = <<>>
      /\ UNCHANGED <<date, page, total, shown, touched, tied, lowered, late, left>>
      /\ pc' = IF Matching = {} THEN "inject" ELSE "fetch"
  BY DEF Recount, history
<1>2. Matching' = Matching /\ Tied(date)' = Tied(date) /\ \A d : Rank(d)' = Rank(d)
  BY <1>1, SameDates
<1>3. TypeInv'
  <2>1. <<>> \in UNION {[1..n -> Docs] : n \in 0..Limit}
    <3>1. 0 \in 0..Limit /\ <<>> \in [1..0 -> Docs]
      BY SearchAssumption
    <3> QED
      BY <3>1
  <2> QED
    BY <1>0, <1>1, <2>1 DEF Recount, TypeInv
<1>4. CountInv' /\ TiedInv'
  BY <1>1, <1>2 DEF IInv, CountInv, Counted, TiedInv
<1>5. CASE Matching = {}
  <2>1. left \/ total = 0
    <3>1. Cardinality({}) = 0
      BY FS_EmptySet
    <3> QED
      BY <1>0, <1>1, <1>5, <3>1 DEF IInv, CountInv, Counted
  <2>2. total = 0 => ~(page <= TotalPages)
    BY <1>0, PagesOf DEF TotalPages, Skipped
  <2>3. PromiseInv'
    BY <1>1, <2>1, <2>2 DEF PromiseInv, TotalPages
  <2> QED
    BY <1>2, <1>3, <1>4, <1>5, <2>3 DEF IInv, SkipInv, QuietInv
<1>6. CASE Matching # {}
  <2>1. pc' = "fetch"
    BY <1>1, <1>6
  <2>2. SkipInv' /\ QuietInv' /\ PromiseInv'
    BY <1>1, <1>2, <2>1 DEF IInv, SkipInv, QuietInv, PromiseInv, Ahead, Passed, Skipped
  <2> QED
    BY <1>3, <1>4, <2>2 DEF IInv
<1> QED
  BY <1>5, <1>6

LEMMA FetchStep == IInv /\ Fetch => IInv'
<1> SUFFICES ASSUME IInv, Fetch PROVE IInv'
  OBVIOUS
<1>0. /\ TypeInv /\ page \in Nat \ {0} /\ total \in Nat /\ Skipped \in Nat
      /\ Cardinality(Matching) \in Nat /\ Limit \in Nat
  BY Finite, SearchAssumption DEF IInv
<1>1. /\ pc = "fetch" /\ pc' = "inject"
      /\ UNCHANGED <<date, page, total, changes, faults, shown, touched, tied, lowered, late, left>>
  BY DEF Fetch, history
<1>2. Matching' = Matching /\ Tied(date)' = Tied(date) /\ \A d : Rank(d)' = Rank(d)
  BY <1>1, SameDates
<1>3. /\ items' \in UNION {[1..n -> Docs] : n \in 0..Limit}
      /\ Skipped < Cardinality(Matching) => items' # <<>>
      /\ \A d \in Matching \ Tied(date) :
           OnPage(d)' <=> Rank(d) > Skipped /\ Rank(d) <= Skipped + Limit
  BY <1>0, FetchedPage
<1>4. TypeInv'
  BY <1>0, <1>1, <1>3 DEF TypeInv
<1>5. CountInv' /\ TiedInv'
  BY <1>1, <1>2 DEF IInv, CountInv, Counted, TiedInv
<1>6. PromiseInv'
  <2> SUFFICES ASSUME page <= TotalPages, ~left PROVE items' # <<>>
    BY <1>1 DEF PromiseInv, TotalPages
  <2>1. total <= Cardinality(Matching)
    BY <1>1 DEF IInv, CountInv, Counted
  <2>2. Skipped < total
    BY <1>0, PagesOf DEF TotalPages, Skipped
  <2> QED
    BY <1>0, <1>3, <2>1, <2>2
<1>7. Skipped' = Skipped
  BY <1>1 DEF Skipped
<1>8. \A d \in Matching \ tied : d \in Matching \ Tied(date) /\ Rank(d) \in Nat
  BY <1>0, RankType DEF IInv, TiedInv, Matching
<1>9. SkipInv'
  BY <1>0, <1>1, <1>2, <1>3, <1>7, <1>8 DEF IInv, SkipInv, Ahead
<1>10. QuietInv'
  BY <1>1, <1>2, <1>3, <1>7, <1>8 DEF IInv, QuietInv, Passed
<1> QED
  BY <1>4, <1>5, <1>6, <1>9, <1>10 DEF IInv

LEMMA InjectStep == IInv /\ Inject => IInv'
<1> SUFFICES ASSUME IInv, Inject PROVE IInv'
  OBVIOUS
<1>0. TypeInv /\ Skipped \in Nat /\ Limit \in Nat \ {0}
  BY Finite, SearchAssumption DEF IInv
<1>1. /\ pc = "inject" /\ pc' = "answered"
      /\ shown' = [d \in Docs |-> IF OnPage(d) THEN shown[d] + 1 ELSE shown[d]]
      /\ UNCHANGED <<date, page, total, items, changes, faults, touched, tied, lowered, late, left>>
  BY DEF Inject, OnPage
<1>2. Matching' = Matching /\ Tied(date)' = Tied(date) /\ \A d : Rank(d)' = Rank(d)
  BY <1>1, SameDates
<1>3. TypeInv'
  BY <1>0, <1>1 DEF TypeInv
<1>4. CountInv' /\ TiedInv' /\ PromiseInv'
  BY <1>1, <1>2 DEF IInv, CountInv, Counted, TiedInv, PromiseInv, TotalPages
<1>5. Skipped' = Skipped
  BY <1>1 DEF Skipped
<1>6. \A d \in Matching : d \in Docs /\ Rank(d) \in Nat /\ shown[d] \in Nat
                        /\ shown'[d] = IF OnPage(d) THEN shown[d] + 1 ELSE shown[d]
  BY <1>0, <1>1, RankType DEF Matching, TypeInv
<1>7. SkipInv'
  BY <1>0, <1>1, <1>2, <1>5, <1>6 DEF IInv, SkipInv, Ahead
<1>8. QuietInv'
  BY <1>0, <1>1, <1>2, <1>5, <1>6 DEF IInv, QuietInv, Passed
<1> QED
  BY <1>3, <1>4, <1>7, <1>8 DEF IInv

LEMMA InjectFailsStep == IInv /\ InjectFails => IInv'
<1> SUFFICES ASSUME IInv, InjectFails PROVE IInv'
  OBVIOUS
<1>1. /\ pc = "inject" /\ pc' = "count"
      /\ UNCHANGED <<date, page, total, items, changes, shown, touched, tied, lowered, late, left>>
  BY DEF InjectFails, history
<1>2. Matching' = Matching /\ Tied(date)' = Tied(date) /\ \A d : Rank(d)' = Rank(d)
  BY <1>1, SameDates
<1>3. faults' \in 0..MaxFaults
  BY SearchAssumption DEF InjectFails, IInv, TypeInv
<1>4. TypeInv'
  BY <1>1, <1>3 DEF IInv, TypeInv
<1>5. CountInv' /\ TiedInv' /\ PromiseInv'
  BY <1>1, <1>2 DEF IInv, CountInv, Counted, TiedInv, PromiseInv
<1>6. SkipInv' /\ QuietInv'
  BY <1>1, <1>2 DEF IInv, SkipInv, QuietInv, Ahead, Passed, Skipped
<1> QED
  BY <1>4, <1>5, <1>6 DEF IInv

LEMMA TurnStep == IInv /\ Turn => IInv'
<1> SUFFICES ASSUME IInv, Turn PROVE IInv'
  OBVIOUS
<1>0. TypeInv /\ page \in Nat \ {0} /\ total \in Nat /\ total <= Cardinality(Docs)
      /\ Skipped \in Nat /\ Limit \in Nat \ {0} /\ Cardinality(Docs) \in Nat
  BY Finite, SearchAssumption DEF IInv, TypeInv
<1>1. pc = "answered" /\ UNCHANGED <<date, total, items, changes, faults, shown, touched, tied,
                                     lowered, late, left>>
  BY DEF Turn, history
<1>2. Matching' = Matching /\ Tied(date)' = Tied(date) /\ \A d : Rank(d)' = Rank(d)
  BY <1>1, SameDates
<1>3. CASE pc' = "idle" /\ UNCHANGED page
  BY <1>0, <1>1, <1>2, <1>3
     DEF IInv, TypeInv, CountInv, Counted, TiedInv, PromiseInv, SkipInv, QuietInv
<1>4. CASE page < TotalPages /\ page' = page + 1 /\ pc' = "count"
  <2>1. Skipped' = Skipped + Limit
    BY <1>0, <1>4, PagesBefore DEF Skipped
  <2>2. page' \in 1..(Cardinality(Docs) + 1)
    <3>1. page + 1 <= TotalPages
      BY <1>0, <1>4, PagesOf DEF TotalPages
    <3>2. ((page + 1) - 1) * Limit < total
      BY <1>0, <3>1, PagesOf, page + 1 \in Nat \ {0} DEF TotalPages
    <3>3. Skipped + Limit < total
      BY <1>0, <3>2, PagesBefore DEF Skipped
    <3>4. page - 1 <= Skipped
      <4>1. \A a \in Nat, b \in Nat \ {0} : a <= a * b
        BY SMT
      <4> QED
        BY <1>0, <4>1 DEF Skipped
    <3> QED
      BY <1>0, <1>4, <3>3, <3>4
  <2>3. TypeInv'
    BY <1>0, <1>1, <1>4, <2>2 DEF TypeInv
  <2>4. SkipInv' /\ QuietInv'
    BY <1>1, <1>2, <1>4, <2>1 DEF IInv, SkipInv, QuietInv, Ahead, Passed
  <2> QED
    BY <1>1, <1>2, <1>4, <2>3, <2>4 DEF IInv, CountInv, Counted, TiedInv, PromiseInv
<1> QED
  BY <1>3, <1>4 DEF Turn

LEMMA Inductive == IInv /\ [Next]_vars => IInv'
<1> SUFFICES ASSUME IInv, [Next]_vars PROVE IInv'
  OBVIOUS
<1>1. CASE UNCHANGED vars
  <2>1. UNCHANGED <<date, pc, page, total, items, changes, faults, shown, touched, tied, lowered,
                    late, left>>
    BY <1>1 DEF vars, request, history
  <2>2. Matching' = Matching /\ Tied(date)' = Tied(date) /\ \A d : Rank(d)' = Rank(d)
    BY <2>1, SameDates
  <2> QED
    BY <2>1, <2>2 DEF IInv, TypeInv, CountInv, Counted, TiedInv, PromiseInv, TotalPages,
       SkipInv, QuietInv, Ahead, Passed, Skipped, OnPage
<1> QED
  BY <1>1, DatedInv, BeginInv, CountStep, RecountStep, FetchStep, InjectStep, InjectFailsStep,
     TurnStep DEF Next

(* The inductive invariant of a pass through the pages.                    *)
THEOREM Invariance == Spec => []IInv
BY InitInv, Inductive, PTL DEF Spec
----------------------------------------------------------------------------
(* The last page ends behind the last rank.                                *)
LEMMA RankIsPassed ==
  ASSUME IInv, PassEnds, total = Cardinality(Matching), NEW d \in Matching \ tied
  PROVE  Rank(d) \in Nat /\ Rank(d) <= Skipped + Limit
<1>1. /\ TypeInv /\ page \in Nat \ {0} /\ total \in Nat /\ Limit \in Nat \ {0}
      /\ Skipped \in Nat /\ IsFiniteSet(Matching)
  BY Finite, SearchAssumption DEF IInv
<1>2. total <= Skipped + Limit
  <2>1. TotalPages \in Nat /\ ~(page + 1 <= TotalPages)
    BY <1>1, PagesOf DEF TotalPages, PassEnds
  <2>2. ~(((page + 1) - 1) * Limit < total)
    BY <1>1, <2>1, PagesOf, page + 1 \in Nat \ {0} DEF TotalPages
  <2>3. ((page + 1) - 1) * Limit = Skipped + Limit
    BY <1>1, PagesBefore DEF Skipped
  <2> QED
    BY <1>1, <2>2, <2>3
<1>3. Rank(d) <= Cardinality(Matching) /\ Rank(d) \in Nat
  <2>1. d \in Docs /\ date[d] \in Int
    BY <1>1 DEF Matching, TypeInv, Absent
  <2>2. Above(d) \in SUBSET Matching /\ Above(d) # Matching
    BY <1>1, <2>1 DEF Above, Matching, TypeInv, Absent
  <2>3. /\ Cardinality(Above(d)) <= Cardinality(Matching)
        /\ Cardinality(Above(d)) # Cardinality(Matching)
        /\ Cardinality(Above(d)) \in Nat /\ Cardinality(Matching) \in Nat
    BY <1>1, <2>2, FS_Subset, FS_CardinalityType
  <2> QED
    BY <2>3 DEF Rank
<1> QED
  BY <1>1, <1>2, <1>3

(* Every variable of the search that a step reads keeps its type.          *)
THEOREM TypeCorrect == Spec => []TypeInv
<1>1. IInv => TypeInv
  BY DEF IInv
<1> QED
  BY Invariance, <1>1, PTL

(* A pass that nobody disturbs shows each job with a date of its own once, *)
(* whatever the order of the others (query, lines 100-105), for any number *)
(* of jobs, dates and jobs to a page.                                      *)
THEOREM QuietPass == Spec => []QuietPassShowsOnce
<1>1. IInv => QuietPassShowsOnce
  <2> SUFFICES ASSUME IInv, PassEnds, touched = {}, NEW d \in Matching \ tied
               PROVE  shown[d] = 1
    BY DEF QuietPassShowsOnce
  <2>1. total = Cardinality(Matching)
    BY DEF IInv, CountInv, Counted, PassEnds
  <2>2. Rank(d) <= Passed
    BY <2>1, RankIsPassed DEF Passed, PassEnds
  <2> QED
    BY <2>2 DEF IInv, QuietInv, PassEnds
<1> QED
  BY Invariance, <1>1, PTL

(* What a pass misses, it misses because a date went down, a job ceased to *)
(* match, or somebody wrote between the last count and its page.           *)
THEOREM SkippedOnlyThen == Spec => []SkippedOnlyIf
<1>1. IInv => SkippedOnlyIf
  <2> SUFFICES ASSUME IInv, PassEnds, ~lowered, ~late, NEW d \in Matching \ (touched \union tied)
               PROVE  shown[d] >= 1
    BY DEF SkippedOnlyIf
  <2>1. total = Cardinality(Matching)
    BY DEF IInv, CountInv, Counted, PassEnds
  <2>2. Rank(d) \in Nat /\ Rank(d) <= Skipped + Limit
    BY <2>1, RankIsPassed
  <2>3. shown[d] >= 1 \/ Rank(d) > Skipped + Limit
    BY DEF IInv, SkipInv, Ahead, PassEnds
  <2>4. Skipped + Limit \in Nat
    BY Finite, SearchAssumption DEF IInv
  <2> QED
    BY <2>2, <2>3, <2>4
<1> QED
  BY Invariance, <1>1, PTL

(* A promised page comes with jobs unless one ceased to match since the    *)
(* count (lines 104-105).                                                  *)
THEOREM PromiseKept == Spec => []PromisedPageHasJobs
<1>1. IInv => PromisedPageHasJobs
  BY DEF IInv, PromiseInv, PromisedPageHasJobs
<1> QED
  BY Invariance, <1>1, PTL
----------------------------------------------------------------------------
(* What FlattenSeq makes of a list of lists is defined by recursion over    *)
(* the list.  That there is such a function, and what it has, follows from  *)
(* the first place at which either would fail.                              *)
LEMMA Least ==
  ASSUME NEW T, T \subseteq Nat, T # {}
  PROVE  \E x \in T : \A y \in T : x <= y
<1> DEFINE R == OpToRel(<, Nat)
<1>1. \E x \in T : \A y \in T : <<y, x>> \notin R
  <2>1. IsWellFoundedOn(R, Nat)
    BY NatLessThanWellFounded
  <2> HIDE DEF R
  <2> QED BY <2>1, WFMin, Zenon
<1>2. \A x, y \in Nat : y < x => <<y, x>> \in R
  BY DEF OpToRel
<1> HIDE DEF R
<1>3. PICK x \in T : \A y \in T : <<y, x>> \notin R
  BY <1>1
<1>4. \A y \in T : ~(y < x)
  BY <1>2, <1>3
<1> QED
  BY <1>4

(* f[i] is the first i of the lists put together.                          *)
Joins(f, n, seqs) == \A i \in 1..n : f[i] = IF i = 1 THEN seqs[i] ELSE f[i - 1] \o seqs[i]

LEMMA Joined ==
  ASSUME NEW S, NEW seqs \in Seq(Seq(S)), NEW n \in 1..Len(seqs)
  PROVE  \E f \in [1..n -> Seq(S)] : Joins(f, n, seqs)
<1> DEFINE Made(m) == \E f \in [1..m -> Seq(S)] : Joins(f, m, seqs)
           T == {m \in 1..Len(seqs) : ~Made(m)}
<1>0. Len(seqs) \in Nat /\ \A i \in 1..Len(seqs) : seqs[i] \in Seq(S)
  OBVIOUS
<1>1. SUFFICES ASSUME T # {} PROVE FALSE
  BY <1>0
<1>2. PICK m \in T : \A y \in T : m <= y
  <2> HIDE DEF T
  <2>1. T \subseteq Nat
    BY <1>0 DEF T
  <2> QED
    BY <1>1, <2>1, Least
<1>3. m \in 1..Len(seqs) /\ ~Made(m)
  OBVIOUS
<1>4. CASE m = 1
  <2> DEFINE g == [i \in 1..1 |-> seqs[1]]
  <2>1. g \in [1..m -> Seq(S)] /\ Joins(g, m, seqs)
    BY <1>0, <1>3, <1>4 DEF Joins
  <2> QED
    BY <1>3, <2>1
<1>5. CASE m > 1
  <2>1. Made(m - 1)
    <3>1. m - 1 \in 1..Len(seqs) /\ ~(m <= m - 1)
      BY <1>0, <1>3, <1>5
    <3> QED
      BY <1>2, <3>1
  <2>2. PICK f \in [1..(m - 1) -> Seq(S)] : Joins(f, m - 1, seqs)
    BY <2>1
  <2> DEFINE g == [i \in 1..m |-> IF i = m THEN f[m - 1] \o seqs[m] ELSE f[i]]
  <2>3. f[m - 1] \o seqs[m] \in Seq(S)
    <3>1. f[m - 1] \in Seq(S) /\ seqs[m] \in Seq(S)
      BY <1>0, <1>3, <1>5
    <3> QED
      BY <3>1, ConcatProperties
  <2>4. g \in [1..m -> Seq(S)]
    <3>1. \A i \in 1..m : i # m => i \in 1..(m - 1)
      BY <1>0, <1>3
    <3> QED
      BY <2>3, <3>1
  <2>5. Joins(g, m, seqs)
    <3> SUFFICES ASSUME NEW i \in 1..m
                 PROVE  g[i] = IF i = 1 THEN seqs[i] ELSE g[i - 1] \o seqs[i]
      BY DEF Joins
    <3>1. i # 1 => i - 1 \in 1..m /\ i - 1 # m
      BY <1>0, <1>3
    <3>2. CASE i = m
      <4>1. m \in 1..m /\ m - 1 \in 1..m /\ m - 1 # m /\ m # 1
        BY <1>0, <1>3, <1>5
      <4>2. g[m] = f[m - 1] \o seqs[m] /\ g[m - 1] = f[m - 1]
        BY <4>1
      <4> QED
        BY <3>2, <4>1, <4>2
    <3>3. CASE i # m
      <4>1. i \in 1..(m - 1)
        BY <1>0, <1>3, <3>3
      <4> QED
        BY <2>2, <3>1, <3>3, <4>1 DEF Joins
    <3> QED
      BY <3>2, <3>3
  <2> QED
    BY <1>3, <2>4, <2>5
<1> QED
  BY <1>0, <1>3, <1>4, <1>5

LEMMA Flattened ==
  ASSUME NEW S, NEW seqs \in Seq(Seq(S)), seqs # <<>>
  PROVE  \E f \in [1..Len(seqs) -> Seq(S)] :
           Joins(f, Len(seqs), seqs) /\ FlattenSeq(seqs) = f[Len(seqs)]
<1> DEFINE N == Len(seqs)
           Fits(g) == g = [i \in 1..N |-> IF i = 1 THEN seqs[i] ELSE g[i - 1] \o seqs[i]]
           h == CHOOSE g : Fits(g)
<1>0. N \in Nat /\ N # 0 /\ N \in 1..N
  BY EmptySeq
<1>1. PICK f \in [1..N -> Seq(S)] : Joins(f, N, seqs)
  BY <1>0, Joined
<1>2. FlattenSeq(seqs) = h[N]
  BY <1>0 DEF FlattenSeq
<1>3. Fits(f)
  BY <1>1 DEF Joins
<1>4. Fits(h)
  <2> HIDE DEF Fits
  <2> QED
    BY <1>3
<1>5. h = f
  <2> DEFINE T == {i \in 1..N : h[i] # f[i]}
  <2>1. \A i \in 1..N : h[i] = IF i = 1 THEN seqs[i] ELSE h[i - 1] \o seqs[i]
    <3> HIDE DEF h
    <3> QED BY <1>4
  <2>2. h = [i \in 1..N |-> h[i]] /\ f = [i \in 1..N |-> f[i]]
    <3> HIDE DEF h
    <3> QED BY <1>4
  <2> HIDE DEF h
  <2>3. T = {}
    <3> SUFFICES ASSUME T # {} PROVE FALSE
      OBVIOUS
    <3>1. T \subseteq Nat
      BY <1>0
    <3>2. PICK i \in T : \A y \in T : i <= y
      <4> HIDE DEF T
      <4> QED BY <3>1, Least
    <3>3. i \in 1..N /\ h[i] # f[i]
      OBVIOUS
    <3>4. i # 1
      BY <2>1, <1>1, <3>3 DEF Joins
    <3>5. i - 1 \in 1..N /\ ~(i <= i - 1)
      BY <1>0, <3>3, <3>4
    <3>6. h[i - 1] = f[i - 1]
      BY <3>2, <3>5
    <3> QED
      BY <1>1, <2>1, <3>3, <3>4, <3>6 DEF Joins
  <2> QED
    BY <2>2, <2>3
<1> QED
  BY <1>1, <1>2, <1>5

(* The first m jobs of the page are laid out in s, at their places, with   *)
(* nothing else than what the other site has for the one before.           *)
Laid(own, s, m, n, place) ==
  /\ place \in [1..m -> DOMAIN s]
  /\ \A i, j \in 1..m : i < j => place[i] < place[j]
  /\ \A i \in 1..m : s[place[i]] = own[i]
  /\ \A k \in DOMAIN s : \E i \in 1..m :
       k = place[i] \/ (k = place[i] + 1 /\ s[k] = IF i - 1 < n THEN External ELSE Stub)

Entries == Docs \union {External, Stub}

(* What WithExtra makes of the job at a key.                               *)
IsPart(part, job, key, n) ==
  /\ part \in Seq(Entries) /\ Len(part) \in {1, 2} /\ part[1] = job
  /\ Len(part) = 2 => part[2] = IF key < n THEN External ELSE Stub

(* An answer has the page's jobs laid out in it.                           *)
LaidInv ==
  pc = "answered" =>
    answer \in Seq(Entries) /\ \E n \in Nat : \E place : Laid(items, answer, Len(items), n, place)

(* What one job becomes.                                                   *)
LEMMA PartOf ==
  ASSUME NEW key \in Nat, NEW n \in Nat, NEW r \in {2, 3}, NEW job \in Docs
  PROVE  IsPart(WithExtra(job, key, r, n), job, key, n)
<1> SUFFICES ASSUME NEW part, part = WithExtra(job, key, r, n)
             PROVE  IsPart(part, job, key, n)
  OBVIOUS
<1>1. PICK e \in Entries : e = IF key < n THEN External ELSE Stub
  BY DEF Entries
<1>2. job \in Entries
  BY DEF Entries
<1> HIDE DEF Entries
<1> DEFINE one == <<job>>
           more == <<e>>
<1>3. one \in Seq(Entries) /\ Len(one) = 1 /\ one[1] = job
  BY <1>2
<1>4. more \in Seq(Entries) /\ Len(more) = 1 /\ more[1] = e
  BY <1>1
<1>5. <<job>> \o <<>> = <<job>>
  BY <1>2
<1>6. part = one \o more \/ part = one
  BY <1>1, <1>5 DEF WithExtra, Extra
<1> HIDE DEF one, more
<1>7. CASE part = one \o more
  <2>1. /\ part \in Seq(Entries)
        /\ Len(part) = Len(one) + Len(more)
        /\ \A k \in 1..(Len(one) + Len(more)) :
             part[k] = IF k <= Len(one) THEN one[k] ELSE more[k - Len(one)]
    <3>1. one \in Seq(Entries) /\ more \in Seq(Entries)
      BY <1>3, <1>4
    <3>2. /\ one \o more \in Seq(Entries)
          /\ Len(one \o more) = Len(one) + Len(more)
          /\ \A k \in 1..(Len(one) + Len(more)) :
               (one \o more)[k] = IF k <= Len(one) THEN one[k] ELSE more[k - Len(one)]
      BY ONLY <3>1, ConcatProperties
    <3> QED
      BY <1>7, <3>2, Zenon
  <2>2. Len(part) = 2 /\ part[1] = one[1] /\ part[2] = more[1]
    BY <1>3, <1>4, <2>1
  <2> QED
    BY <1>1, <1>3, <1>4, <2>1, <2>2 DEF IsPart
<1>8. CASE part = one
  BY <1>3, <1>8 DEF IsPart
<1> QED
  BY <1>6, <1>7, <1>8

(* The first job, and then one job more behind those laid out.             *)
LEMMA LaidAlone ==
  ASSUME NEW own, NEW n \in Nat, NEW part, IsPart(part, own[1], 0, n)
  PROVE  \E place : Laid(own, part, 1, n, place)
<1> DEFINE place == [i \in 1..1 |-> 1]
<1>1. /\ DOMAIN part = 1..Len(part) /\ Len(part) \in {1, 2} /\ part[1] = own[1]
      /\ Len(part) = 2 => part[2] = IF 0 < n THEN External ELSE Stub
  BY DEF IsPart
<1>2. \A k \in DOMAIN part : k = 1 \/ (k = 2 /\ Len(part) = 2)
  BY <1>1
<1>3. Laid(own, part, 1, n, place)
  BY <1>1, <1>2 DEF Laid
<1> QED
  BY <1>3

LEMMA LaidFurther ==
  ASSUME NEW own, NEW n \in Nat, NEW m \in Nat, m # 0, NEW s \in Seq(Entries), NEW place,
         Laid(own, s, m, n, place), NEW part, IsPart(part, own[m + 1], m, n)
  PROVE  \E further : Laid(own, s \o part, m + 1, n, further)
<1> DEFINE t == s \o part
           L == Len(s)
           q == [i \in 1..(m + 1) |-> IF i = m + 1 THEN L + 1 ELSE place[i]]
<1>1. /\ L \in Nat /\ DOMAIN s = 1..L /\ DOMAIN part = 1..Len(part)
      /\ DOMAIN t = 1..(L + Len(part))
      /\ \A k \in 1..L : t[k] = s[k]
      /\ t[L + 1] = own[m + 1]
      /\ Len(part) = 2 => t[L + 2] = IF m < n THEN External ELSE Stub
      /\ Len(part) \in {1, 2}
  BY DEF IsPart
<1> HIDE DEF t, L
<1>2. \A i \in 1..(m + 1) : i = m + 1 \/ i \in 1..m
  OBVIOUS
<1>3. \A i \in 1..m : i \in 1..(m + 1) /\ i # m + 1 /\ q[i] = place[i] /\ place[i] \in 1..L
  <2>1. \A i \in 1..m : i \in 1..(m + 1) /\ i # m + 1
    OBVIOUS
  <2>2. \A i \in 1..m : place[i] \in 1..L
    BY <1>1 DEF Laid
  <2> QED
    BY <2>1, <2>2
<1>4. m + 1 \in 1..(m + 1) /\ q[m + 1] = L + 1
  OBVIOUS
<1>5. L + 1 \in DOMAIN t /\ 1..L \subseteq DOMAIN t
  <2>1. Len(part) >= 1 /\ Len(part) \in Nat
    BY <1>1
  <2> QED
    BY <1>1, <2>1
<1>6. q \in [1..(m + 1) -> DOMAIN t]
  BY <1>2, <1>3, <1>5
<1>7. \A i, j \in 1..(m + 1) : i < j => q[i] < q[j]
  <2> SUFFICES ASSUME NEW i \in 1..(m + 1), NEW j \in 1..(m + 1), i < j PROVE q[i] < q[j]
    OBVIOUS
  <2>1. i \in 1..m
    BY <1>2
  <2>2. CASE j = m + 1
    <3>1. place[i] \in 1..L /\ q[i] = place[i]
      BY <1>3, <2>1
    <3>2. \A x \in 1..L : x < L + 1
      BY <1>1
    <3> QED
      BY <1>4, <2>2, <3>1, <3>2
  <2>3. CASE j \in 1..m
    BY <1>3, <2>1, <2>3 DEF Laid
  <2> QED
    BY <1>2, <2>2, <2>3
<1>8. \A i \in 1..(m + 1) : t[q[i]] = own[i]
  BY <1>1, <1>2, <1>3, <1>4 DEF Laid
<1>9. ASSUME NEW k \in DOMAIN t
      PROVE  \E i \in 1..(m + 1) :
               k = q[i] \/ (k = q[i] + 1 /\ t[k] = IF i - 1 < n THEN External ELSE Stub)
  <2>1. k \in 1..L \/ k = L + 1 \/ (k = L + 2 /\ Len(part) = 2)
    <3>1. k \in 1..(L + 1) \/ (k \in 1..(L + 2) /\ Len(part) = 2)
      BY <1>1
    <3> QED
      BY <1>1, <3>1
  <2>2. CASE k \in 1..L
    <3>1. k \in DOMAIN s /\ t[k] = s[k]
      BY <1>1, <2>2
    <3>2. PICK i \in 1..m :
            k = place[i] \/ (k = place[i] + 1 /\ s[k] = IF i - 1 < n THEN External ELSE Stub)
      BY <3>1 DEF Laid
    <3>3. i \in 1..(m + 1) /\ q[i] = place[i]
      BY <1>3
    <3> HIDE DEF q
    <3> QED
      BY <3>1, <3>2, <3>3
  <2>3. CASE k = L + 1
    BY <1>4, <2>3
  <2>4. CASE k = L + 2 /\ Len(part) = 2
    <3>1. k = q[m + 1] + 1 /\ (m + 1) - 1 = m
      BY <1>1, <1>4, <2>4
    <3>2. t[k] = IF m < n THEN External ELSE Stub
      BY <1>1, <2>4
    <3> QED
      BY <1>4, <3>1, <3>2
  <2> QED
    BY <2>1, <2>2, <2>3, <2>4
<1> HIDE DEF q
<1>10. Laid(own, t, m + 1, n, q)
  BY <1>6, <1>7, <1>8, <1>9 DEF Laid
<1> QED
  BY <1>10 DEF t

(* So the whole page is laid out in what FlattenSeq returns.               *)
LEMMA LaidOut ==
  ASSUME NEW own \in Seq(Docs), own # <<>>, NEW n \in Nat, NEW random \in [DOMAIN own -> {2, 3}],
         NEW parts, parts = [i \in DOMAIN own |-> WithExtra(own[i], i - 1, random[i], n)]
  PROVE  /\ FlattenSeq(parts) \in Seq(Entries)
         /\ \E place : Laid(own, FlattenSeq(parts), Len(own), n, place)
<1> DEFINE N == Len(own)
<1>1. N \in Nat /\ N # 0 /\ DOMAIN own = 1..N /\ \A i \in 1..N : own[i] \in Docs
  BY EmptySeq
<1>2. ASSUME NEW i \in 1..N
      PROVE  IsPart(parts[i], own[i], i - 1, n)
  <2>1. i - 1 \in Nat /\ random[i] \in {2, 3} /\ own[i] \in Docs
    BY <1>1
  <2>2. parts[i] = WithExtra(own[i], i - 1, random[i], n)
    BY <1>1
  <2> QED
    BY <2>1, <2>2, PartOf
<1>3. parts \in [1..N -> Seq(Entries)]
  <2>1. parts = [i \in 1..N |-> parts[i]]
    BY <1>1
  <2>2. \A i \in 1..N : parts[i] \in Seq(Entries)
    BY <1>2 DEF IsPart
  <2> QED
    BY <2>1, <2>2
<1> HIDE DEF N
<1>4. parts \in Seq(Seq(Entries)) /\ Len(parts) = N /\ parts # <<>>
  <2>1. parts \in Seq(Seq(Entries)) /\ Len(parts) = N
    BY ONLY <1>1, <1>3
  <2> QED
    BY <1>1, <2>1
<1>5. PICK f \in [1..N -> Seq(Entries)] : Joins(f, N, parts) /\ FlattenSeq(parts) = f[N]
  BY <1>4, Flattened
<1> DEFINE T == {m \in 1..N : ~\E place : Laid(own, f[m], m, n, place)}
<1>6. T = {}
  <2> SUFFICES ASSUME T # {} PROVE FALSE
    OBVIOUS
  <2>1. PICK m \in T : \A y \in T : m <= y
    <3>1. T \subseteq Nat
      BY <1>1
    <3> HIDE DEF T
    <3> QED
      BY <3>1, Least
  <2>2. m \in 1..N /\ ~\E place : Laid(own, f[m], m, n, place)
    OBVIOUS
  <2>3. CASE m = 1
    <3>1. f[1] = parts[1]
      BY <1>5, <2>2, <2>3 DEF Joins
    <3>2. \E place : Laid(own, parts[1], 1, n, place)
      <4>1. 1 \in 1..N /\ 1 - 1 = 0
        BY <1>1
      <4> QED
        BY <1>2, <4>1, LaidAlone
    <3> QED
      BY <2>2, <2>3, <3>1, <3>2
  <2>4. CASE m > 1
    <3>1. PICK k \in Nat : k = m - 1
      BY <1>1, <2>2, <2>4
    <3>2. k \in 1..N /\ k # 0 /\ m = k + 1 /\ ~(m <= k)
      BY <1>1, <2>2, <2>4, <3>1
    <3>3. PICK place : Laid(own, f[k], k, n, place)
      BY <2>1, <3>2
    <3>4. f[m] = f[k] \o parts[m]
      <4>1. m # 1 /\ m - 1 = k
        BY <1>1, <2>2, <2>4, <3>1
      <4>2. f[m] = IF m = 1 THEN parts[m] ELSE f[m - 1] \o parts[m]
        BY <1>5, <2>2 DEF Joins
      <4> QED
        BY <4>1, <4>2
    <3>5. IsPart(parts[m], own[k + 1], k, n)
      BY <1>2, <2>2, <3>1, <3>2
    <3>6. f[k] \in Seq(Entries)
      BY <1>5, <3>2
    <3>7. \E further : Laid(own, f[k] \o parts[m], k + 1, n, further)
      BY <3>2, <3>3, <3>5, <3>6, LaidFurther
    <3> QED
      BY <2>2, <3>2, <3>4, <3>7
  <2> QED
    BY <1>1, <2>2, <2>3, <2>4
<1>7. N \in 1..N
  BY <1>1
<1>8. \E place : Laid(own, f[N], N, n, place)
  BY <1>6, <1>7
<1> QED
  BY <1>5, <1>7, <1>8 DEF N

LEMMA AnswerLaid == IInv /\ Inject => LaidInv'
<1> SUFFICES ASSUME IInv, Inject PROVE LaidInv'
  OBVIOUS
<1>1. items \in Seq(Docs)
  BY DEF IInv, TypeInv
<1>2. PICK n \in Nat, random \in [DOMAIN items -> {2, 3}] :
        answer' = FlattenSeq([i \in DOMAIN items |-> WithExtra(items[i], i - 1, random[i], n)])
  <2>1. 0..MaxExternal \subseteq Nat
    BY SearchAssumption
  <2> QED
    BY <2>1, Zenon DEF Inject
<1> DEFINE parts == [i \in DOMAIN items |-> WithExtra(items[i], i - 1, random[i], n)]
<1>3. items' = items
  BY DEF Inject
<1>4. answer' \in Seq(Entries) /\ \E place : Laid(items, answer', Len(items), n, place)
  <2>1. CASE items = <<>>
    <3>1. parts = <<>> /\ FlattenSeq(parts) = <<>>
      BY <1>2, <2>1 DEF FlattenSeq
    <3>2. answer' = <<>> /\ <<>> \in Seq(Entries)
      BY <1>2, <3>1
    <3>3. Laid(items, <<>>, Len(items), n, <<>>)
      BY <2>1 DEF Laid
    <3> QED
      BY <3>2, <3>3
  <2>2. CASE items # <<>>
    <3>1. /\ FlattenSeq(parts) \in Seq(Entries)
          /\ \E place : Laid(items, FlattenSeq(parts), Len(items), n, place)
      BY <1>1, <2>2, LaidOut
    <3> QED
      BY <1>2, <3>1
  <2> QED
    BY <2>1, <2>2
<1> QED
  BY <1>3, <1>4 DEF LaidInv

LEMMA LaidStep == IInv /\ LaidInv /\ [Next]_vars => LaidInv'
<1> SUFFICES ASSUME IInv, LaidInv, [Next]_vars PROVE LaidInv'
  OBVIOUS
<1>1. CASE Inject
  BY <1>1, AnswerLaid
<1>2. CASE ~Inject
  <2>1. pc' # "answered" \/ UNCHANGED <<pc, items, answer>>
    BY <1>2 DEF Next, SaveJob, Age, Begin, Count, Recount, Fetch, InjectFails, Turn, vars, request
  <2> QED
    BY <2>1 DEF LaidInv
<1> QED
  BY <1>1, <1>2

(* What is laid out is kept in order, with no stub before another's job.   *)
LEMMA Kept == IInv /\ LaidInv => OwnJobsKept
<1> SUFFICES ASSUME IInv, LaidInv, pc = "answered"
             PROVE  /\ \E place \in [DOMAIN items -> DOMAIN answer] : InTheirOrder(place)
                    /\ \A k \in DOMAIN answer : ~Own(answer[k]) => k > 1 /\ Own(answer[k - 1])
                    /\ \A k, l \in DOMAIN answer : answer[k] = Stub /\ answer[l] = External => l < k
  BY DEF OwnJobsKept
<1> DEFINE N == Len(items)
<1>1. N \in Nat /\ DOMAIN items = 1..N /\ \A i \in 1..N : items[i] \in Docs
  BY DEF IInv, TypeInv
<1>2. Len(answer) \in Nat /\ DOMAIN answer = 1..Len(answer)
  BY DEF LaidInv
<1> HIDE DEF N
<1>3. PICK n \in Nat : \E place : Laid(items, answer, N, n, place)
  BY DEF LaidInv, N
<1>4. PICK place : Laid(items, answer, N, n, place)
  BY <1>3
<1>5. \A i \in 1..N : place[i] \in 1..Len(answer) /\ Own(answer[place[i]])
  BY <1>1, <1>2, <1>4 DEF Laid, Own
<1>6. ASSUME NEW k \in DOMAIN answer
      PROVE  \E i \in 1..N :
               \/ Own(answer[k]) /\ k = place[i]
               \/ ~Own(answer[k]) /\ k = place[i] + 1 /\ answer[k] = IF i - 1 < n THEN External ELSE Stub
  <2>1. PICK i \in 1..N :
          k = place[i] \/ (k = place[i] + 1 /\ answer[k] = IF i - 1 < n THEN External ELSE Stub)
    BY <1>4 DEF Laid
  <2> QED
    BY <1>5, <2>1, SearchAssumption DEF Own
<1>7. place \in [DOMAIN items -> DOMAIN answer] /\ InTheirOrder(place)
  BY <1>1, <1>4, <1>6 DEF InTheirOrder, Laid
<1>8. ASSUME NEW k \in DOMAIN answer, ~Own(answer[k])
      PROVE  k > 1 /\ Own(answer[k - 1])
  <2>1. PICK i \in 1..N : k = place[i] + 1
    BY <1>6, <1>8
  <2>2. place[i] \in Nat /\ place[i] >= 1 /\ Own(answer[place[i]])
    BY <1>2, <1>5
  <2> QED
    BY <2>1, <2>2
<1>9. ASSUME NEW k \in DOMAIN answer, NEW l \in DOMAIN answer, answer[k] = Stub, answer[l] = External
      PROVE  l < k
  <2>0. ~Own(Stub) /\ ~Own(External) /\ Stub # External
    BY SearchAssumption DEF Own, Stub, External
  <2>1. PICK i \in 1..N : k = place[i] + 1 /\ ~(i - 1 < n)
    BY <1>6, <1>9, <2>0
  <2>2. PICK j \in 1..N : l = place[j] + 1 /\ j - 1 < n
    BY <1>6, <1>9, <2>0
  <2>3. j < i
    BY <1>1, <2>1, <2>2
  <2>4. place[j] < place[i]
    BY <1>4, <2>3 DEF Laid
  <2>5. place[i] \in Nat /\ place[j] \in Nat
    BY <1>2, <1>5
  <2> QED
    BY <2>1, <2>2, <2>4, <2>5
<1> QED
  BY <1>7, <1>8, <1>9

(* Injected jobs and stubs leave the page's own jobs complete and in order *)
(* and stand behind one each (injectExternalJobs, lines 125-132), for any  *)
(* page and any choice of places.                                          *)
THEOREM KeptInOrder == Spec => []OwnJobsKept
<1>1. Init => LaidInv
  BY DEF Init, LaidInv
<1>2. IInv /\ LaidInv => OwnJobsKept
  BY Kept
<1> QED
  BY Invariance, <1>1, <1>2, LaidStep, PTL DEF Spec
============================================================================
