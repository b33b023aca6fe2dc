-------------------------- MODULE ImageCacheProofs --------------------------
(***************************************************************************)
(* Proofs about ImageCache for any number of calls, processes, chunks and  *)
(* failures.                                                               *)
(***************************************************************************)
EXTENDS ImageCache, TLAPS

(* Writers follow calls: a call under way has its writer, a writer that is *)
(* opening has written nothing, and one that is open has made the file.    *)
StreamInv ==
  \A c \in Callers :
    /\ Downloading(c) => stream[c] # "none"
    /\ stream[c] = "opening" => at[c] = 0 /\ (broken = 0 => Downloading(c))
    /\ stream[c] = "open" => file # NoFile

(* While no download has failed, each chunk that the file lacks is one     *)
(* that some call still has to write.                                      *)
Owes(c, i) == Downloading(c) /\ at[c] < i
CoverInv ==
  file # NoFile /\ broken = 0 =>
    \A i \in 1..Size : i \in file \/ \E c \in Callers : Owes(c, i)

IInv == TypeOK /\ StreamInv /\ CoverInv /\ NamesAFile /\ OnlyFailuresLeaveWriters
----------------------------------------------------------------------------
LEMMA NoFileIsNoChunks == NoFile \notin SUBSET (1..Size)
  BY CacheAssumption DEF NoFile

LEMMA InitIInv == Init => IInv
<1> SUFFICES ASSUME Init PROVE IInv
  OBVIOUS
<1>1. TypeOK
  <2>1. folder \in BOOLEAN
    BY DEF Init
  <2>2. file \in {NoFile} \union SUBSET (1..Size)
    BY DEF Init
  <2>3. at \in [Callers -> 0..Size] /\ faults \in 0..MaxFaults /\ broken \in Nat
    BY CacheAssumption DEF Init
  <2> QED
    BY <2>1, <2>2, <2>3 DEF Init, TypeOK
<1>2. StreamInv /\ CoverInv /\ NamesAFile /\ OnlyFailuresLeaveWriters
  BY DEF Init, StreamInv, CoverInv, NamesAFile, OnlyFailuresLeaveWriters, Downloading
<1> QED
  BY <1>1, <1>2 DEF IInv

(* The writers left behind, when none is left or one by a failure.         *)
LEMMA LeftKeeps ==
  ASSUME IInv, NEW c \in Callers, NEW n \in {-1, 0, 1},
         \/ UNCHANGED left /\ broken' \in {broken, broken + 1}
         \/ Leaves(c, n) /\ Breaks
  PROVE  left' \in [Processes -> Int] /\ OnlyFailuresLeaveWriters'
<1>1. left \in [Processes -> Int] /\ broken \in Nat /\ ProcessOf[c] \in Processes
  BY CacheAssumption DEF IInv, TypeOK
<1>2. \A p \in Processes : left[p] <= broken
  BY DEF IInv, OnlyFailuresLeaveWriters
<1>3. CASE UNCHANGED left /\ broken' \in {broken, broken + 1}
  BY <1>1, <1>2, <1>3 DEF OnlyFailuresLeaveWriters
<1>4. CASE Leaves(c, n) /\ Breaks
  BY <1>1, <1>2, <1>4 DEF OnlyFailuresLeaveWriters, Leaves, Breaks
<1> QED
  BY <1>3, <1>4

(* What CheckFile does for its caller, whoever calls it.                   *)
LEMMA CheckFileKeeps ==
  ASSUME IInv, NEW c \in Callers, pc[c] \in {"idle", "mkdir"}, CheckFile(c),
         folder' \in BOOLEAN, UNCHANGED <<file, faults, broken>>,
         left' \in [Processes -> Int], OnlyFailuresLeaveWriters'
  PROVE  IInv'
<1>1. TypeOK'
  BY CacheAssumption DEF IInv, TypeOK, CheckFile, Return, Goto, Cached
<1>2. CASE Cached
  <2>1. /\ pc' = [pc EXCEPT ![c] = "done"]
        /\ result' = [result EXCEPT ![c] = "name"]
        /\ UNCHANGED <<stream, at>>
    BY <1>2 DEF CheckFile, Return, Goto
  <2>2. stream[c] # "opening" \/ broken # 0
    BY DEF IInv, StreamInv, Downloading
  <2>3. StreamInv'
    BY <2>1, <2>2 DEF IInv, TypeOK, StreamInv, Downloading
  <2>4. CoverInv'
    BY <2>1 DEF IInv, TypeOK, CoverInv, Owes, Downloading
  <2>5. NamesAFile'
    BY <1>2, <2>1 DEF IInv, TypeOK, NamesAFile, Cached
  <2> QED
    BY <1>1, <2>3, <2>4, <2>5 DEF IInv
<1>3. CASE ~Cached
  <2>1. /\ pc' = [pc EXCEPT ![c] = "get"]
        /\ stream' = [stream EXCEPT ![c] = "opening"]
        /\ at' = [at EXCEPT ![c] = 0]
        /\ UNCHANGED result
    BY <1>3 DEF CheckFile, Goto
  <2>2. file = NoFile
    BY <1>3 DEF Cached
  <2>3. StreamInv'
    BY <2>1, <2>2 DEF IInv, TypeOK, StreamInv, Downloading
  <2>4. CoverInv'
    BY <2>2 DEF CoverInv
  <2>5. NamesAFile'
    BY <2>1 DEF IInv, NamesAFile
  <2> QED
    BY <1>1, <2>3, <2>4, <2>5 DEF IInv
<1> QED
  BY <1>2, <1>3

(* The end of a process breaks a download and disturbs no file.            *)
LEMMA KillKeeps ==
  ASSUME IInv, NEW p \in Processes, Kill(p), faults' \in 0..MaxFaults,
         left' \in [Processes -> Int], OnlyFailuresLeaveWriters'
  PROVE  IInv'
<1>1. TypeOK'
  BY CacheAssumption DEF IInv, TypeOK, Kill, Breaks
<1>2. broken' # 0
  BY DEF IInv, TypeOK, Kill, Breaks
<1>3. StreamInv'
  BY <1>2 DEF IInv, TypeOK, StreamInv, Kill, Downloading
<1>4. CoverInv'
  BY <1>2 DEF CoverInv
<1>5. NamesAFile'
  BY DEF IInv, NamesAFile, Kill
<1> QED
  BY <1>1, <1>3, <1>4, <1>5 DEF IInv

(* Every step leaves writers behind only by a failure.                     *)
LEMMA LeftInv ==
  ASSUME IInv, [Next]_vars
  PROVE  left' \in [Processes -> Int] /\ OnlyFailuresLeaveWriters'
<1>0. left \in [Processes -> Int] /\ broken \in Nat /\ \A p \in Processes : left[p] <= broken
  BY DEF IInv, TypeOK, OnlyFailuresLeaveWriters
<1>1. CASE UNCHANGED <<left, broken>>
  BY <1>0, <1>1 DEF OnlyFailuresLeaveWriters
<1>2. ASSUME NEW p \in Processes, Kill(p) PROVE left' \in [Processes -> Int] /\ OnlyFailuresLeaveWriters'
  BY <1>0, <1>2 DEF Kill, Breaks, OnlyFailuresLeaveWriters
<1>3. ASSUME NEW c \in Callers, Call(c) \/ MakeFolder(c) \/ Finish(c) \/ Open(c) \/ Again(c)
      PROVE  UNCHANGED <<left, broken>>
  BY <1>3 DEF Call, MakeFolder, CheckFile, Finish, Open, Again
<1>4. ASSUME NEW c \in Callers, Get(c) \/ Write(c) \/ Unanswered(c) \/ Cut(c)
      PROVE  \/ UNCHANGED left /\ broken' \in {broken, broken + 1}
             \/ Leaves(c, 1) /\ Breaks
  BY <1>4 DEF Get, Write, Unanswered, Cut, Breaks
<1>5. ASSUME NEW c \in Callers, OpenFails(c), pc[c] \in {"pipe", "stalled"}
      PROVE  (Leaves(c, -1) \/ Leaves(c, 0)) /\ Breaks
  BY <1>5 DEF OpenFails
<1>6. ASSUME NEW c \in Callers, OpenFails(c), pc[c] \notin {"pipe", "stalled"}
      PROVE  Kill(ProcessOf[c]) /\ ProcessOf[c] \in Processes
  BY <1>6, CacheAssumption DEF OpenFails
<1>7. CASE UNCHANGED vars
  BY <1>1, <1>7 DEF vars
<1>8. ASSUME NEW c \in Callers, Step(c) \/ Open(c) \/ Unanswered(c) \/ Cut(c) \/ Again(c)
      PROVE  left' \in [Processes -> Int] /\ OnlyFailuresLeaveWriters'
  BY <1>1, <1>3, <1>4, <1>8, LeftKeeps DEF Step
<1>9. ASSUME NEW c \in Callers, OpenFails(c)
      PROVE  left' \in [Processes -> Int] /\ OnlyFailuresLeaveWriters'
  BY <1>2, <1>5, <1>6, <1>9, LeftKeeps
<1>10. ASSUME NEW p \in Processes, Crash(p)
       PROVE  left' \in [Processes -> Int] /\ OnlyFailuresLeaveWriters'
  BY <1>2, <1>10 DEF Crash
<1> QED
  BY <1>7, <1>8, <1>9, <1>10 DEF Next

LEMMA NextIInv == IInv /\ [Next]_vars => IInv'
<1> SUFFICES ASSUME IInv, [Next]_vars PROVE IInv'
  OBVIOUS
<1>0. left' \in [Processes -> Int] /\ OnlyFailuresLeaveWriters'
  BY LeftInv
<1>1. ASSUME NEW c \in Callers, Call(c) PROVE IInv'
  <2>1. CASE folder
    BY <1>0, <1>1, <2>1, CheckFileKeeps DEF Call, IInv, TypeOK
  <2>2. CASE ~folder
    BY <1>0, <1>1, <2>2 DEF Call, Goto, IInv, TypeOK, StreamInv, CoverInv, Owes, NamesAFile, Downloading
  <2> QED
    BY <2>1, <2>2
<1>2. ASSUME NEW c \in Callers, MakeFolder(c) PROVE IInv'
  <2>1. CASE folder
    BY <1>0, <1>2, <2>1 DEF MakeFolder, Return, Goto, IInv, TypeOK, StreamInv, CoverInv, Owes, NamesAFile, Downloading
  <2>2. CASE ~folder
    BY <1>0, <1>2, <2>2, CheckFileKeeps DEF MakeFolder
  <2> QED
    BY <2>1, <2>2
<1>3. ASSUME NEW c \in Callers, Get(c) PROVE IInv'
  <2>1. CASE Goto(c, "pipe") /\ UNCHANGED <<result, faults, broken>>
    BY <1>0, <1>3, <2>1 DEF Get, Goto, IInv, TypeOK, StreamInv, CoverInv, Owes, NamesAFile, Downloading
  <2>2. CASE Fault /\ Return(c, "null") /\ Breaks
    BY <1>0, <1>3, <2>2, CacheAssumption DEF Get, Fault, Return, Goto, Breaks, IInv, TypeOK, StreamInv, CoverInv, NamesAFile, Downloading
  <2> QED
    BY <1>0, <1>3, <2>1, <2>2 DEF Get
<1>4. ASSUME NEW c \in Callers, Write(c) PROVE IInv'
  <2>1. CASE /\ file' = file \union {at[c] + 1}
             /\ at' = [at EXCEPT ![c] = @ + 1]
             /\ UNCHANGED <<pc, stream, result, faults, broken>>
    <3>1. file # NoFile /\ file \in SUBSET (1..Size)
      BY <1>0, <1>4 DEF Write, HasMore, IInv, TypeOK, StreamInv
    <3>2. at[c] + 1 \in 1..Size
      BY <1>0, <1>4, CacheAssumption DEF Write, HasMore, IInv, TypeOK
    <3>3. file' \in SUBSET (1..Size)
      BY <2>1, <3>1, <3>2
    <3>4. file' # NoFile
      BY <3>3, NoFileIsNoChunks
    <3>5. TypeOK'
      BY <1>0, <1>4, <2>1, <3>2, <3>3, CacheAssumption DEF Write, HasMore, IInv, TypeOK
    <3>6. StreamInv'
      BY <1>0, <1>4, <2>1, <3>4 DEF Write, HasMore, IInv, TypeOK, StreamInv, Downloading
    <3>7. CoverInv'
      <4> SUFFICES ASSUME broken = 0, NEW i \in 1..Size
                   PROVE  i \in file' \/ \E d \in Callers : Owes(d, i)'
        BY <2>1 DEF CoverInv
      <4>1. i \in file \/ \E d \in Callers : Owes(d, i)
        BY <3>1 DEF IInv, CoverInv
      <4>2. CASE i \in file
        BY <2>1, <4>2
      <4>3. ASSUME NEW d \in Callers, Owes(d, i), d # c PROVE Owes(d, i)'
        BY <2>1, <4>3 DEF Owes, Downloading, IInv, TypeOK
      <4>4. CASE Owes(c, i)
        <5>1. CASE i = at[c] + 1
          BY <2>1, <5>1
        <5>2. CASE i # at[c] + 1
          BY <2>1, <4>4, <5>2, CacheAssumption DEF Owes, Downloading, IInv, TypeOK
        <5> QED
          BY <5>1, <5>2
      <4> QED
        BY <4>1, <4>2, <4>3, <4>4
    <3>8. NamesAFile'
      BY <3>4 DEF NamesAFile
    <3> QED
      BY <1>0, <3>5, <3>6, <3>7, <3>8 DEF IInv
  <2>2. CASE /\ Fault /\ Breaks
             /\ Return(c, "null")
             /\ stream' = [stream EXCEPT ![c] = "none"]
             /\ UNCHANGED <<file, at>>
    BY <1>0, <1>4, <2>2, CacheAssumption DEF Write, HasMore, Fault, Return, Goto, Breaks, IInv, TypeOK, StreamInv, CoverInv, NamesAFile, Downloading
  <2> QED
    BY <1>0, <1>4, <2>1, <2>2 DEF Write, HasMore
<1>5. ASSUME NEW c \in Callers, Finish(c) PROVE IInv'
  <2>1. \A i \in 1..Size : ~Owes(c, i)
    BY <1>0, <1>5, CacheAssumption DEF Finish, AllWritten, Owes, IInv, TypeOK
  <2>2. CoverInv'
    BY <1>0, <1>5, <2>1 DEF Finish, Return, Goto, CoverInv, Owes, Downloading, IInv, TypeOK
  <2> QED
    BY <1>0, <1>5, <2>2 DEF Finish, AllWritten, Return, Goto, IInv, TypeOK, StreamInv, NamesAFile, Downloading
<1>6. ASSUME NEW c \in Callers, Open(c) PROVE IInv'
  <2>1. file' # NoFile
    BY <1>0, <1>6 DEF Open, NoFile
  <2>2. CoverInv'
    BY <1>0, <1>6, CacheAssumption DEF Open, CoverInv, Owes, Downloading, IInv, TypeOK, StreamInv
  <2> QED
    BY <1>0, <1>6, <2>1, <2>2 DEF Open, IInv, TypeOK, StreamInv, NamesAFile, Downloading
<1>7. ASSUME NEW c \in Callers, OpenFails(c) PROVE IInv'
  <2>1. faults' \in 0..MaxFaults
    BY <1>0, <1>7, CacheAssumption DEF OpenFails, Fault, IInv, TypeOK
  <2>2. CASE pc[c] \in {"pipe", "stalled"}
    BY <1>0, <1>7, <2>1, <2>2 DEF OpenFails, Return, Goto, Breaks, IInv, TypeOK, StreamInv, CoverInv, NamesAFile, Downloading
  <2>3. CASE pc[c] \notin {"pipe", "stalled"}
    BY <1>0, <1>7, <2>1, <2>3, KillKeeps, CacheAssumption DEF OpenFails
  <2> QED
    BY <2>2, <2>3
<1>8. ASSUME NEW c \in Callers, Cut(c) PROVE IInv'
  BY <1>0, <1>8, CacheAssumption DEF Cut, Fault, Goto, Breaks, IInv, TypeOK, StreamInv, CoverInv, NamesAFile, Downloading
<1>9. ASSUME NEW c \in Callers, Again(c) PROVE IInv'
  BY <1>0, <1>9 DEF Again, Goto, IInv, TypeOK, StreamInv, CoverInv, Owes, NamesAFile, Downloading
<1>10. ASSUME NEW p \in Processes, Crash(p) PROVE IInv'
  BY <1>0, <1>10, KillKeeps, CacheAssumption DEF Crash, Fault, IInv, TypeOK
<1>11. CASE UNCHANGED vars
  BY <1>0, <1>11 DEF vars, IInv, TypeOK, StreamInv, CoverInv, Owes, NamesAFile, Downloading
<1>12. ASSUME NEW c \in Callers, Unanswered(c) PROVE IInv'
  BY <1>0, <1>12, CacheAssumption DEF Unanswered, Fault, Goto, Breaks, IInv, TypeOK, StreamInv, CoverInv, NamesAFile, Downloading
<1> QED
  BY <1>1, <1>2, <1>3, <1>4, <1>5, <1>6, <1>7, <1>8, <1>9, <1>10, <1>11, <1>12 DEF Next, Step
----------------------------------------------------------------------------
(* The inductive invariant holds throughout.                               *)
THEOREM Invariance == Spec => []IInv
  BY InitIInv, NextIInv, PTL DEF Spec

(* Every variable keeps its type.                                          *)
THEOREM TypeCorrect == Spec => []TypeOK
  BY Invariance, PTL DEF IInv

(* A call gives a name only when the file it names exists.                 *)
THEOREM NamesExist == Spec => []NamesAFile
  BY Invariance, PTL DEF IInv

(* A writer stays open behind a call only by a download that failed        *)
(* (downloadImage.ts 25-44).                                               *)
THEOREM WritersAreClosed == Spec => []OnlyFailuresLeaveWriters
  BY Invariance, PTL DEF IInv

(* However many calls download the logo at once, and in whatever order     *)
(* their opens, answers and chunks come, a file left by downloads none of  *)
(* which failed is whole.                                                  *)
THEOREM QuietFilesAreWhole == Spec => []QuietIsWhole
<1>1. IInv => QuietIsWhole
  BY DEF IInv, TypeOK, CoverInv, Owes, QuietIsWhole, Quiet, Cached, Whole
<1> QED
  BY <1>1, Invariance, PTL

(* A file that nobody is writing is never written again, whole or not.     *)
THEOREM QuietFilesStay == Spec => QuietFileStays
<1>1. ASSUME IInv, [Next]_vars, Quiet, file # NoFile
      PROVE  Quiet' /\ file' = file
  <2>1. CASE UNCHANGED vars
    BY <1>1, <2>1 DEF Quiet, Downloading, vars
  <2>2. ASSUME NEW c \in Callers, Step(c) PROVE Quiet' /\ file' = file
    <3>1. CASE Call(c)
      BY <1>1, <3>1 DEF Call, CheckFile, Cached, Return, Goto, Quiet, Downloading, IInv, TypeOK
    <3>2. CASE MakeFolder(c)
      BY <1>1, <3>2 DEF MakeFolder, CheckFile, Cached, Return, Goto, Quiet, Downloading, IInv, TypeOK
    <3>3. CASE Get(c) \/ Write(c) \/ Finish(c)
      BY <1>1, <3>3 DEF Get, Write, Finish, Quiet, Downloading
    <3> QED BY <2>2, <3>1, <3>2, <3>3 DEF Step
  <2>3. ASSUME NEW c \in Callers, Open(c) \/ OpenFails(c) \/ Unanswered(c) \/ Cut(c) PROVE Quiet' /\ file' = file
    BY <1>1, <2>3 DEF Open, OpenFails, Unanswered, Cut, Quiet, Downloading
  <2>4. ASSUME NEW c \in Callers, Again(c) PROVE Quiet' /\ file' = file
    BY <1>1, <2>4 DEF Again, Goto, Quiet, Downloading, IInv, TypeOK
  <2>5. ASSUME NEW p \in Processes, Crash(p) PROVE Quiet' /\ file' = file
    BY <1>1, <2>5 DEF Crash, Kill, Quiet, Downloading
  <2> QED BY <1>1, <2>1, <2>2, <2>3, <2>4, <2>5 DEF Next
<1>2. IInv /\ [Next]_vars => [Quiet /\ file # NoFile => Quiet' /\ file' = file]_vars
  BY <1>1
<1> QED
  BY <1>2, Invariance, PTL DEF Spec, QuietFileStays
============================================================================
