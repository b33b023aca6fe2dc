------------------------------ MODULE JobStore ------------------------------
(***************************************************************************)
(* The jobs collection and saveJob, database/entities/Job.ts, called by    *)
(* the tasks of job1, the vietnamworks runs and the CLI.  The collection   *)
(* has no unique index: findOneAndUpdate with upsert looks for a document  *)
(* with the jobId and, when there is none, inserts one; two calls that     *)
(* both found none both insert.  Of several documents with one jobId the   *)
(* oldest is the one every later call finds.                               *)
(*                                                                         *)
(* What is saved is a scrape of an advertisement.  For a field of the job  *)
(* it gives a text, a blank where the page had none (the || '' of the      *)
(* sites), or null or undefined (Null), which clean drops.  A field of a   *)
(* document holds what it is and the number of the scrape it is from.      *)
(***************************************************************************)
EXTENDS Naturals, Sequences

CONSTANTS
  Adverts,    (* advertisements: records of site, number and link          *)
  Savers,     (* flows of control that call saveJob one job at a time      *)
  AdvertsOf,  (* AdvertsOf[s]: what saver s comes across                   *)
  Fields,     (* fields of a job that hold a text                          *)
  MaxScrapes, (* bound: scrapes per behaviour                              *)
  MaxFaults   (* bound: failures of the environment per behaviour          *)

ASSUME StoreAssumption ==
  /\ AdvertsOf \in [Savers -> SUBSET Adverts]
  /\ MaxScrapes \in Nat
  /\ MaxFaults \in Nat

ASSUME SiteAssumption == \A a \in Adverts : a.site # ""

(* jobId, as the sites' getJobInPage make it: the Prefix of the site and   *)
(* its number for the advertisement.  itviec takes the link (its md5).     *)
(* careerbuilder and vietnamworks have no Prefix.  vlance has one, but its *)
(* expression adds it to the condition: the number alone, or no text at    *)
(* all where the page shows no number, is the id.                          *)
Bare == {"careerbuilder", "vietnamworks", "vlance"}
NumberOnly(a) == <<"", a.number>>
JobId(a) ==
  CASE a.site \in Bare     -> <<"", a.number>>
    [] a.site = "itviec"   -> <<a.site, a.link>>
    [] OTHER               -> <<a.site, a.number>>

Ids == {JobId(a) : a \in Adverts}
Null == "null"
Readings == {"text", "blank", Null}
Absent == [n |-> 0, is |-> "none"]   (* of a field the document lacks      *)
Values == {Absent} \union [n : 1..MaxScrapes, is : Readings \ {Null}]

VARIABLES
  docs,    (* the documents, oldest first                                  *)
  pc,      (* where each saver is                                          *)
  scrape,  (* the job each saver is saving                                 *)
  count,   (* scrapes so far                                               *)
  faults,  (* failures that have happened                                  *)
  acked    (* history: what the scrapes saveJob returned true for gave a   *)
           (* field last, by jobId and field                               *)

vars == <<docs, pc, scrape, count, faults, acked>>

Scrapes == [advert : Adverts, n : 1..MaxScrapes, reads : [Fields -> Readings]]
NoScrape == [n |-> 0]
Docs == [id : Ids, adverts : SUBSET Adverts, fields : [Fields -> Values], by : Savers]

TypeOK ==
  /\ docs \in Seq(Docs)
  /\ pc \in [Savers -> {"idle", "match", "insert", "count"}]
  /\ \A s \in Savers : scrape[s] \in Scrapes \/ pc[s] = "idle"
  /\ DOMAIN scrape = Savers
  /\ count \in 0..MaxScrapes
  /\ faults \in 0..MaxFaults
  /\ acked \in [Ids -> [Fields -> Values]]

Empty == [f \in Fields |-> Absent]

Init ==
  /\ docs = <<>>
  /\ pc = [s \in Savers |-> "idle"]
  /\ scrape = [s \in Savers |-> NoScrape]
  /\ count = 0
  /\ faults = 0
  /\ acked = [x \in Ids |-> Empty]
----------------------------------------------------------------------------
Fault == faults < MaxFaults /\ faults' = faults + 1
Goto(s, step) == pc' = [pc EXCEPT ![s] = step]
Leave(s) == Goto(s, "idle") /\ scrape' = [scrape EXCEPT ![s] = NoScrape]

Id(s) == JobId(scrape[s].advert)
With(x) == {i \in DOMAIN docs : docs[i].id = x}

(* clean: the fields it leaves, a blank one among them; and no clean.      *)
KeepNulls(reads) == DOMAIN reads
Clean(reads) == {f \in DOMAIN reads : reads[f] # Null}

(* $set of what clean has left: it leaves the other fields as they were.   *)
Value(sc, f) == [n |-> sc.n, is |-> sc.reads[f]]
Set(old, sc) == [f \in Fields |-> IF f \in Clean(sc.reads) THEN Value(sc, f) ELSE old[f]]

Updated(doc, sc) ==
  [doc EXCEPT !.fields = Set(doc.fields, sc), !.adverts = doc.adverts \union {sc.advert}]

NewDoc(s) ==
  [id |-> Id(s), adverts |-> {scrape[s].advert}, by |-> s, fields |-> Set(Empty, scrape[s])]

(* A saver comes across an advertisement; saveJob cleans the job and waits *)
(* for the logo.                                                           *)
Scrape(s) ==
  /\ pc[s] = "idle"
  /\ count < MaxScrapes
  /\ \E a \in AdvertsOf[s], reads \in [Fields -> Readings] :
       scrape' = [scrape EXCEPT ![s] = [advert |-> a, n |-> count + 1, reads |-> reads]]
  /\ count' = count + 1
  /\ Goto(s, "match")
  /\ UNCHANGED <<docs, faults, acked>>

(* The save goes on to countDocuments, or its answer is lost: the catch    *)
(* returns false for a job that is stored.  A call that has failed has no  *)
(* effect later.                                                           *)
Answer(s) ==
  \/ Goto(s, "count") /\ UNCHANGED <<scrape, faults>>
  \/ Leave(s) /\ Fault

(* A call fails before it has an effect.                                   *)
Refused(s) ==
  /\ pc[s] \in {"match", "insert"}
  /\ Leave(s)
  /\ Fault
  /\ UNCHANGED <<docs, count, acked>>

(* findOneAndUpdate finds the oldest document with the jobId.              *)
Update(s) ==
  /\ pc[s] = "match"
  /\ \E i \in With(Id(s)) :
       /\ \A j \in With(Id(s)) : i <= j
       /\ docs' = [docs EXCEPT ![i] = Updated(docs[i], scrape[s])]
  /\ Answer(s)
  /\ UNCHANGED <<count, acked>>

(* It finds none; the insert follows, as it would for a plain create.      *)
PlainCreate(s) == TRUE
NoMatch(s) == With(Id(s)) = {}
Miss(s) ==
  /\ pc[s] = "match"
  /\ NoMatch(s)
  /\ Goto(s, "insert")
  /\ UNCHANGED <<docs, scrape, count, faults, acked>>

Insert(s) ==
  /\ pc[s] = "insert"
  /\ docs' = Append(docs, NewDoc(s))
  /\ Answer(s)
  /\ UNCHANGED <<count, acked>>

(* countDocuments: true, or it fails and the catch returns false.  Before  *)
(* that new: true gave a record, so that Jobs.create is never reached.     *)
Count(s) ==
  /\ pc[s] = "count"
  /\ Leave(s)
  /\ \/ acked' = [acked EXCEPT ![Id(s)] = Set(@, scrape[s])] /\ UNCHANGED faults
     \/ Fault /\ UNCHANGED acked
  /\ UNCHANGED <<docs, count>>

(* The saver's process dies and is started again.                          *)
Crash(s) ==
  /\ pc[s] # "idle"
  /\ Fault
  /\ Leave(s)
  /\ UNCHANGED <<docs, count, acked>>

Next ==
  \E s \in Savers :
    Scrape(s) \/ Refused(s) \/ Update(s) \/ Miss(s) \/ Insert(s) \/ Count(s) \/ Crash(s)

Spec == Init /\ [][Next]_vars
----------------------------------------------------------------------------
(* One saver never makes two documents of a job, whatever fails in it: a   *)
(* pair of them takes two savers whose calls overlap (Job.ts line 94).     *)
TwinsNeedTwoSavers ==
  \A i, j \in DOMAIN docs :
    docs[i].id = docs[j].id /\ docs[i].by = docs[j].by => i = j

(* A job only one saver comes across.                                      *)
Saves(s, x) == \E a \in AdvertsOf[s] : JobId(a) = x
OnlyOneSaves(x) == \A s, t \in Savers : Saves(s, x) /\ Saves(t, x) => s = t

(* What saveJob returned true for stays, whatever later calls failed: the  *)
(* job has a document, with the field as acknowledged or as a later scrape *)
(* read it.  That may be a blank, which takes the place of a text, but is  *)
(* never a null: a scrape that gave none leaves the field as it was (lines *)
(* 87, 94 and 111; helper.ts 127-134).                                     *)
Newer(v, w) == v = w \/ (v.n > w.n /\ v.is # Null)
AckedIsKept ==
  \A x \in Ids : OnlyOneSaves(x) =>
    \A f \in Fields : acked[x][f] # Absent =>
      \E i \in With(x) : Newer(docs[i].fields[f], acked[x][f])

(* Two advertisements are saved over one another in one document only when *)
(* they are of one site that numbers (or links) them alike, or of two of   *)
(* the sites whose ids have no prefix: careerbuilder and vietnamworks      *)
(* number theirs independently (careerbuilder.ts 191, vietnamworks.ts 79,  *)
(* vlance.ts 154).                                                         *)
SharedOnlyBy ==
  \A i \in DOMAIN docs : \A a, b \in docs[i].adverts :
    \/ a.site = b.site /\ (a.number = b.number \/ a.link = b.link)
    \/ {a.site, b.site} \subseteq Bare /\ a.number = b.number

(* A document describes one advertisement: an id comes from the link where *)
(* the site shows no number, as the expression of vlance.ts 154 has it.    *)
OneAdvertPerDocument ==
  \A i \in DOMAIN docs : \A a, b \in docs[i].adverts : a = b
============================================================================
