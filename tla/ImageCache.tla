----------------------------- MODULE ImageCache -----------------------------
(***************************************************************************)
(* The logo cache, crawl/downloadImage.ts, for one logo: every call for    *)
(* the same URL names the same file (the md5 of the URL).  saveJob calls   *)
(* it from the nine tasks of job1 and from the vietnamworks process; they  *)
(* share the images folder.  Node code runs between awaits; opening the    *)
(* file (flag "w": create or truncate) runs in the background from         *)
(* createWriteStream on, concurrently with the request.                    *)
(***************************************************************************)
EXTENDS Integers

CONSTANTS
  Callers,    (* calls of downloadImage for the logo                       *)
  Processes,  (* node processes                                            *)
  ProcessOf,  (* ProcessOf[c]: the process that makes call c               *)
  Size,       (* chunks of the logo                                        *)
  MaxFaults   (* bound: failures of the environment per behaviour          *)

ASSUME CacheAssumption ==
  /\ ProcessOf \in [Callers -> Processes]
  /\ Size \in Nat
  /\ MaxFaults \in Nat

VARIABLES
  folder,  (* whether the images folder exists                             *)
  file,    (* the chunks of the logo in the file, or NoFile                *)
  pc,      (* where each call is                                           *)
  stream,  (* the call's writer: "none", "opening", "open"                 *)
  at,      (* chunks the writer has written                                *)
  result,  (* what the call returned: "none" so far, "name" or "null"      *)
  faults,  (* failures that have happened                                  *)
  left,    (* writers of each process that nobody will ever close: an open *)
           (* file descriptor each                                         *)
  broken   (* history: downloads that failed after their writer was made   *)

(* There is no chunk 0: this is none of the sets of chunks a file may hold.*)
NoFile == {0}

vars == <<folder, file, pc, stream, at, result, faults, left, broken>>

TypeOK ==
  /\ folder \in BOOLEAN
  /\ file \in {NoFile} \union SUBSET (1..Size)
  /\ pc \in [Callers -> {"idle", "mkdir", "get", "unanswered", "pipe", "stalled", "done"}]
  /\ stream \in [Callers -> {"none", "opening", "open"}]
  /\ at \in [Callers -> 0..Size]
  /\ result \in [Callers -> {"none", "name", "null"}]
  /\ faults \in 0..MaxFaults
  /\ left \in [Processes -> Int]
  /\ broken \in Nat

Init ==
  /\ folder = FALSE
  /\ file = NoFile
  /\ pc = [c \in Callers |-> "idle"]
  /\ stream = [c \in Callers |-> "none"]
  /\ at = [c \in Callers |-> 0]
  /\ result = [c \in Callers |-> "none"]
  /\ faults = 0
  /\ left = [p \in Processes |-> 0]
  /\ broken = 0
----------------------------------------------------------------------------
Fault == faults < MaxFaults /\ faults' = faults + 1
Breaks == broken' = broken + 1
Leaves(c, n) == left' = [left EXCEPT ![ProcessOf[c]] = @ + n]

Goto(c, step) == pc' = [pc EXCEPT ![c] = step]
Return(c, r) == Goto(c, "done") /\ result' = [result EXCEPT ![c] = r]

(* mkdirSync follows its existsSync in one go: no other call of the same   *)
(* process runs between them, a call of another process may.               *)
Blocked(c) == \E d \in Callers : ProcessOf[d] = ProcessOf[c] /\ pc[d] = "mkdir"

(* Fs.existsSync(path); and one that does not count an empty file.         *)
HasBytes == file \notin {NoFile, {}}
Cached == file # NoFile

(* From existsSync(path) on: the name of a cached file at once, without    *)
(* looking into it, or a writer, which starts to open the file.  With the  *)
(* writer made first, a cached file leaves one behind.                     *)
WriterFirst(c) ==
  /\ IF Cached THEN Return(c, "name") /\ Leaves(c, 1)
               ELSE Goto(c, "get") /\ UNCHANGED <<result, left>>
  /\ stream' = [stream EXCEPT ![c] = "opening"]
  /\ at' = [at EXCEPT ![c] = 0]
CheckFile(c) ==
  /\ IF Cached
       THEN Return(c, "name") /\ UNCHANGED <<stream, at>>
       ELSE /\ Goto(c, "get")
            /\ stream' = [stream EXCEPT ![c] = "opening"]
            /\ at' = [at EXCEPT ![c] = 0]
            /\ UNCHANGED result
  /\ UNCHANGED left

(* A call, up to its first await or up to a missing folder.                *)
Call(c) ==
  /\ pc[c] = "idle"
  /\ ~Blocked(c)
  /\ IF folder THEN CheckFile(c)
               ELSE Goto(c, "mkdir") /\ UNCHANGED <<stream, at, result, left>>
  /\ UNCHANGED <<folder, file, faults, broken>>

(* createImagesFolder: mkdirSync throws when another process was faster.   *)
MakeFolder(c) ==
  /\ pc[c] = "mkdir"
  /\ IF folder THEN Return(c, "null") /\ UNCHANGED <<folder, stream, at, left>>
               ELSE folder' = TRUE /\ CheckFile(c)
  /\ UNCHANGED <<file, faults, broken>>

(* The process ends: its calls and its writers with it.  broken counts at  *)
(* least one for each download that was under way.                         *)
Downloading(c) == pc[c] \in {"get", "pipe"}
Kill(p) ==
  /\ pc' = [c \in Callers |-> IF ProcessOf[c] = p THEN "done" ELSE pc[c]]
  /\ stream' = [c \in Callers |-> IF ProcessOf[c] = p THEN "none" ELSE stream[c]]
  /\ left' = [left EXCEPT ![p] = 0]
  /\ Breaks
  /\ UNCHANGED <<folder, file, at, result>>

Crash(p) == Fault /\ Kill(p)

(* The file is opened: created, or truncated whatever it holds.            *)
Open(c) ==
  /\ stream[c] = "opening"
  /\ file' = {}
  /\ stream' = [stream EXCEPT ![c] = "open"]
  /\ UNCHANGED <<folder, pc, at, result, faults, left, broken>>

(* The open fails with nobody listening after the answer either.           *)
OpenFailsUnheard(c) ==
  /\ stream[c] = "opening" /\ pc[c] = "pipe"
  /\ Fault /\ Breaks
  /\ stream' = [stream EXCEPT ![c] = "none"]
  /\ UNCHANGED <<folder, file, pc, at, result, left>>

(* The open fails.  Once the answer is there the call returns null; before *)
(* that, or after a failed request, nobody listens to the writer's error   *)
(* event, and an unheard error event ends the node process.                *)
OpenFails(c) ==
  /\ stream[c] = "opening"
  /\ Fault
  /\ IF pc[c] \in {"pipe", "stalled"}
       THEN /\ Return(c, "null")
            /\ stream' = [stream EXCEPT ![c] = "none"]
            /\ Breaks
            /\ Leaves(c, IF pc[c] = "stalled" THEN -1 ELSE 0)
            /\ UNCHANGED <<folder, file, at>>
       ELSE Kill(ProcessOf[c])

(* The answer to the request: its headers, after which the body is piped   *)
(* to the writer, or a failure, after which the writer is left as it is.   *)
Get(c) ==
  /\ pc[c] = "get"
  /\ ~Blocked(c)
  /\ \/ Goto(c, "pipe") /\ UNCHANGED <<result, faults, left, broken>>
     \/ Fault /\ Return(c, "null") /\ Breaks /\ Leaves(c, 1)
  /\ UNCHANGED <<folder, file, stream, at>>

(* The request is taken and gets no answer: Axios is given no timeout.     *)
Unanswered(c) ==
  /\ pc[c] = "get"
  /\ Fault /\ Breaks /\ Leaves(c, 1)
  /\ Goto(c, "unanswered")
  /\ UNCHANGED <<folder, file, stream, at, result>>

(* The body has another chunk.                                             *)
HasMore(c) == at[c] < Size

(* One more chunk, at the writer's own position; a failed write is null.   *)
Write(c) ==
  /\ pc[c] = "pipe"
  /\ stream[c] = "open"
  /\ HasMore(c)
  /\ \/ /\ file' = file \union {at[c] + 1}
        /\ at' = [at EXCEPT ![c] = @ + 1]
        /\ UNCHANGED <<pc, stream, result, faults, broken>>
     \/ /\ Fault /\ Breaks
        /\ Return(c, "null")
        /\ stream' = [stream EXCEPT ![c] = "none"]
        /\ UNCHANGED <<file, at>>
  /\ UNCHANGED <<folder, left>>

(* finish: when the last chunk is written, or as soon as the body is piped.*)
AnyPart(c) == stream[c] = "open"
AllWritten(c) == stream[c] = "open" /\ at[c] = Size

Finish(c) ==
  /\ pc[c] = "pipe"
  /\ AllWritten(c)
  /\ Return(c, "name")
  /\ stream' = [stream EXCEPT ![c] = "none"]
  /\ UNCHANGED <<folder, file, at, faults, left, broken>>

(* The body stops before its end: neither finish nor error ever comes.     *)
Cut(c) ==
  /\ pc[c] = "pipe"
  /\ Fault /\ Breaks /\ Leaves(c, 1)
  /\ Goto(c, "stalled")
  /\ UNCHANGED <<folder, file, stream, at, result>>

(* A later crawl asks for the same logo again.                             *)
Again(c) ==
  /\ pc[c] = "done"
  /\ stream[c] # "opening"
  /\ Goto(c, "idle")
  /\ stream' = [stream EXCEPT ![c] = "none"]
  /\ result' = [result EXCEPT ![c] = "none"]
  /\ UNCHANGED <<folder, file, at, faults, left, broken>>

Step(c) ==
  \/ Call(c) \/ MakeFolder(c) \/ Get(c) \/ Write(c) \/ Finish(c)

Next ==
  \/ \E c \in Callers :
       Step(c) \/ Open(c) \/ OpenFails(c) \/ Unanswered(c) \/ Cut(c) \/ Again(c)
  \/ \E p \in Processes : Crash(p)

(* Node runs what is ready, the disk opens files and writes, and a request *)
(* is answered or fails, unless Unanswered or Cut say that nothing more    *)
(* comes.  Nothing makes a crawl ask again, nothing has to fail.           *)
Fairness == \A c \in Callers : WF_vars(Step(c)) /\ WF_vars(Open(c))

Spec == Init /\ [][Next]_vars
FairSpec == Spec /\ Fairness
----------------------------------------------------------------------------
Whole == file = 1..Size
Quiet == \A c \in Callers : ~Downloading(c) /\ stream[c] # "opening"

(* Two calls that both found no file both truncate it and write it, each   *)
(* at its own position.  When all is quiet again and none of them failed,  *)
(* the file has no hole and no end missing, in whatever order the opens,   *)
(* answers and chunks came (downloadImage.ts 21-35).                       *)
QuietIsWhole == Quiet /\ Cached /\ broken = 0 => Whole

(* What a failed download left behind is served for ever: existsSync is    *)
(* all a later call asks, so once nobody is writing the file no call ever  *)
(* downloads it again, an empty or a partial one no more than a whole one  *)
(* (line 21).                                                              *)
QuietFileStays == [][Quiet /\ file # NoFile => Quiet' /\ file' = file]_vars

(* A call gives the file's name, which saveJob then stores with the job,   *)
(* only when there is such a file: it was found, or its writer has opened  *)
(* it (lines 22 and 35).                                                   *)
NamesAFile == \A c \in Callers : result[c] = "name" => file # NoFile

(* A writer, and with it a file descriptor, is left open only by a download*)
(* that failed, one by each at most: calls that find the file, however     *)
(* often and wherever they meet a download, leave none (lines 25-44).      *)
OnlyFailuresLeaveWriters == \A p \in Processes : left[p] <= broken

(* Only the server can hold a call for ever, by headers that never come or *)
(* a body that never ends; no failure of the folder, the file or the       *)
(* request does, nor another call of whatever process (lines 20-44).       *)
Held(c) == pc[c] \in {"unanswered", "stalled"}
CallsReturn ==
  \A c \in Callers : (pc[c] \in {"mkdir", "get", "pipe"}) ~> (pc[c] = "done" \/ Held(c))
============================================================================
