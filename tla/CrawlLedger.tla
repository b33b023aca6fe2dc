---------------------------- MODULE CrawlLedger ----------------------------
(***************************************************************************)
(* What the scheduled crawl promises to the job database, without pages,   *)
(* tabs, turns or processes.  Per site the database keeps one cursor (the  *)
(* list page a later crawl starts from) and the set of stored jobs.  The   *)
(* promise: a cursor leaves a list page only when every job that page      *)
(* showed has been handled, that is stored or refused by the database, and *)
(* stored jobs stay stored.                                                *)
(***************************************************************************)
EXTENDS Sequences

CONSTANTS
  Sites,   (* the crawled sites                                            *)
  Pages,   (* list page URLs                                               *)
  Jobs,    (* job ids                                                      *)
  NoPage,  (* "no such page": no stored cursor, or no next link            *)
  First,   (* First[s]: the URL the crawl of s starts from                 *)
  Shown    (* Shown[s][p]: the listings page p of s may show when loaded   *)

Listing == [jobs : Seq(Jobs), next : Pages \union {NoPage}]

(* What the constants have to be.                                           *)
CrawlConstants ==
  /\ NoPage \notin Pages
  /\ First \in [Sites -> Pages]
  /\ Shown \in [Sites -> [Pages -> SUBSET Listing]]

VARIABLES
  cursor,  (* cursor[s]: the stored list page of s, NoPage before the first *)
  store,   (* the ids of the stored jobs                                   *)
  refused  (* the ids of the jobs the database failed to store             *)

ledger == <<cursor, store, refused>>

JobsOn(listing) == {listing.jobs[i] : i \in DOMAIN listing.jobs}

(* The page a crawl of s starts from, and the page that follows a listing. *)
StartPage(s) == IF cursor[s] = NoPage THEN First[s] ELSE cursor[s]
PageAfter(s, listing) == IF listing.next = NoPage THEN First[s] ELSE listing.next

Init ==
  /\ cursor = [s \in Sites |-> NoPage]
  /\ store = {}
  /\ refused = {}

Store(j) ==
  /\ store' = store \union {j}
  /\ UNCHANGED <<cursor, refused>>

Refuse(j) ==
  /\ refused' = refused \union {j}
  /\ UNCHANGED <<cursor, store>>

(* The cursor may restart at the first page: a read of it can fail.        *)
Advance(s) ==
  \E p \in {StartPage(s), First[s]} : \E listing \in Shown[s][p] :
    /\ JobsOn(listing) \subseteq store \union refused
    /\ cursor' = [cursor EXCEPT ![s] = PageAfter(s, listing)]
    /\ UNCHANGED <<store, refused>>

Next ==
  \/ \E j \in Jobs : Store(j) \/ Refuse(j)
  \/ \E s \in Sites : Advance(s)

Spec == Init /\ [][Next]_ledger
============================================================================
