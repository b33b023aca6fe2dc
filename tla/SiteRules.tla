----------------------------- MODULE SiteRules -----------------------------
(***************************************************************************)
(* What the nine scrapers read out of the sites' pages, and what that does *)
(* to the stored cursor and the stored jobs: each site's getNextPage,      *)
(* getJobs and getJobDetail, and the visit (getJobInPage, scapeDetail)     *)
(* that puts them together.  SiteCrawl has the awaits of a visit and their *)
(* failures; here every call works, but for the read of the cursor, and the*)
(* pages make the difference.                                              *)
(*                                                                         *)
(* A page of a site may be anything a browser can show: links of any kind, *)
(* cards that lack any of their parts, job pages in a layout the code does *)
(* not know.  A link is the site's own: its URL, where it is one, leads to *)
(* the list page or the job it stands for.                                 *)
(***************************************************************************)
EXTENDS Naturals, Sequences

CONSTANTS
  Jobs,        (* the jobs a site may show                                 *)
  Lists,       (* the sequences of cards a list page may show              *)
  Details,     (* what a job's own page may show                           *)
  LinkHabits,  (* the sets of kinds of links a site may use between pages  *)
  MaxList      (* bound: list pages of the site                            *)

Sites == {"careerlink", "careerbuilder", "itviec", "jobsgo", "timviecnhanh",
          "topcv", "vieclam24h", "viectotnhat", "vlance"}

(* An href: absent or empty; a URL with its host; a path; a path with http *)
(* somewhere in it; a path without the leading slash; "#" or a query; or a *)
(* script.                                                                 *)
Hrefs == {"none", "whole", "path", "carrying", "relative", "hash", "script"}

(* What a URL made from it leads to: nothing, a page of the site, its home *)
(* page, a page numbered NaN, or no page at all: "broken" has the site's   *)
(* name in it (https://itviec.comit-jobs), "bare" has not.                 *)
Forms == {"none", "page", "home", "nan", "broken", "bare"}
Urls == [form : Forms, n : 0..MaxList]

(* The text fields followed here, and the parts of a card.                 *)
Fields == {"company", "jobLocations", "skills"}
Marks == Fields \union {"title", "id", "deadline"}
Cards == [job : Jobs, has : SUBSET Marks, href : Hrefs]

(* Layouts of a job's page: one the code knows; one that ends with the     *)
(* benefits' heading; one without a title; another one.                    *)
Layouts == {"known", "cut", "untitled", "other"}
DetailPages == [layout : Layouts, has : SUBSET Fields]
NoDetail == [layout |-> "other", has |-> {}]

ASSUME RulesAssumption ==
  /\ Lists \subseteq Seq(Cards)
  /\ Details \subseteq DetailPages
  /\ LinkHabits \subseteq SUBSET Hrefs
  /\ MaxList \in Nat \ {0}

VARIABLES
  site,    (* the site of this task                                        *)
  habit,   (* the kinds of links the site uses between its list pages      *)
  cursor,  (* the stored URL, which the next visit should load             *)
  url,     (* the URL the visit loads, First while there is none           *)
  pc,      (* "idle", or "loop" over the jobs of a list page               *)
  page,    (* the cards of the list page                                   *)
  todo,    (* positions of the jobs not visited yet                        *)
  next,    (* nextPage                                                     *)
  items,   (* jobs visited since the page was loaded                       *)
  docs,    (* the stored fields of each job: "absent", "blank" or "text"   *)
  detail   (* history: the job page looked at last                         *)

vars == <<site, habit, cursor, url, pc, page, todo, next, items, docs, detail>>
----------------------------------------------------------------------------
(* parseLink: the link if it has http in it, else the origin before it.    *)
ParseLink(h) ==
  CASE h \in {"whole", "path"}       -> "page"
    [] h = "hash"                    -> "home"
    [] h = "carrying"                -> "bare"
    [] h \in {"relative", "script"}  -> "broken"
    [] OTHER                         -> "none"

(* The link as it is, and the origin before whatever it is.                *)
RawLink(h) == CASE h = "whole" -> "page" [] h = "none" -> "none" [] OTHER -> "bare"
OriginLink(h) ==
  CASE h = "whole" -> "broken" [] h = "carrying" -> "page" [] OTHER -> ParseLink(h)

(* getNextPage: the entry behind the active one, when there is one.        *)
Entries == [follows : BOOLEAN, href : Hrefs, number : BOOLEAN]
Follow(p, form) == IF p.follows THEN form ELSE "none"

(* The fields read from a card or a page: text, or blank where it has none.*)
Texts(x, fields) == [f \in fields |-> IF f \in x.has THEN "text" ELSE "blank"]
Overlay(old, new) ==
  [f \in DOMAIN old \union DOMAIN new |-> IF f \in DOMAIN new THEN new[f] ELSE old[f]]

(* getJobDetail gives no fields, or these, where it knows the layout; as   *)
(* a set, which is empty where the code throws.                            *)
Known(d, fields) == {IF d.layout = "other" THEN Texts(d, {}) ELSE Texts(d, fields)}

(* scapeDetail and the loop over jobs: {...job, ...jobDetail}, or none when*)
(* goto rejects the link or the page's own code throws.                    *)
Merged(form, card, details) ==
  IF form \in {"page", "home"} THEN {Overlay(card, d) : d \in details} ELSE {}
----------------------------------------------------------------------------
(* careerlink.ts.  The id is the end of the link.  (CareerLinkLocations    *)
(* would read locations from the job's page.)                              *)
CareerLinkNext(p) == Follow(p, ParseLink(p.href))
CareerLinkKeeps(c) == {"title", "id"} \subseteq c.has /\ c.href # "none"
CareerLinkLocations(d) == Known(d, {"jobLocations"})
CareerLinkDetail(d) == Known(d, {})
CareerLinkItem(c, d) ==
  Merged(ParseLink(c.href), Texts(c, {"company", "jobLocations"}), CareerLinkDetail(d))

(* careerbuilder.ts.  Links are taken as they are.                         *)
CareerBuilderNext(p) == Follow(p, RawLink(p.href))
CareerBuilderKeeps(c) == {"title", "company"} \subseteq c.has
CareerBuilderDetail(d) == Known(d, {"skills"})
CareerBuilderItem(c, d) ==
  Merged(RawLink(c.href), Texts(c, {"company", "jobLocations"}), CareerBuilderDetail(d))

(* itviec.ts.  The job's page is waited for until its title shows; benefits*)
(* are read from the element behind their heading, which may not be there. *)
ITViecNext(p) == Follow(p, OriginLink(p.href))
ITViecKeeps(c) == "title" \in c.has
ITViecDetail(d) ==
  IF d.layout = "cut" THEN {} ELSE Known(d, {"company", "jobLocations", "skills"})
ITViecItem(c, d) ==
  IF d.layout = "untitled" THEN {}
  ELSE Merged(ParseLink(c.href), Texts(c, {"jobLocations"}), ITViecDetail(d))

(* jobsgo.ts.  The job's link is taken as it is; the id is its end.        *)
JobsGoNext(p) == Follow(p, ParseLink(p.href))
JobsGoKeeps(c) == {"title", "company", "id"} \subseteq c.has /\ c.href # "none"
JobsGoDetail(d) == Known(d, {"jobLocations", "skills"})
JobsGoItem(c, d) ==
  Merged(RawLink(c.href), Texts(c, {"company", "jobLocations"}), JobsGoDetail(d))

(* timviecnhanh.ts.  The next page is the number behind the active entry,  *)
(* or NaN.                                                                 *)
TimViecNhanhNext(p) == Follow(p, IF p.number THEN "page" ELSE "nan")
TimViecNhanhKeeps(c) == {"title", "id"} \subseteq c.has /\ c.href # "none"
TimViecNhanhDetail(d) == Known(d, {"jobLocations", "skills"})
TimViecNhanhItem(c, d) ==
  Merged(ParseLink(c.href), Texts(c, {"company", "jobLocations"}), TimViecNhanhDetail(d))

(* topcv.ts.  Job links are taken as they are; benefits as in itviec.      *)
TopCvNext(p) == Follow(p, ParseLink(p.href))
TopCvKeeps(c) == "id" \in c.has
TopCvDetail(d) == IF d.layout = "cut" THEN {} ELSE Known(d, {"jobLocations", "skills"})
TopCvItem(c, d) ==
  Merged(RawLink(c.href), Texts(c, {"company", "jobLocations"}), TopCvDetail(d))

(* vieclam24h.ts.  The next page is the number behind the active entry, not*)
(* its link (Vieclam24hLink).                                              *)
Vieclam24hLink(p) == Follow(p, ParseLink(p.href))
Vieclam24hNext(p) == Follow(p, IF p.number THEN "page" ELSE "none")
Vieclam24hKeeps(c) == {"title", "id"} \subseteq c.has /\ c.href # "none"
Vieclam24hDetail(d) == Known(d, {"jobLocations", "skills"})
Vieclam24hItem(c, d) ==
  Merged(ParseLink(c.href), Texts(c, {"company", "jobLocations"}), Vieclam24hDetail(d))

(* viectotnhat.ts.                                                         *)
ViecTotNhatNext(p) == Follow(p, ParseLink(p.href))
ViecTotNhatKeeps(c) == {"title", "id"} \subseteq c.has /\ c.href # "none"
ViecTotNhatDetail(d) == Known(d, {})
ViecTotNhatItem(c, d) ==
  Merged(ParseLink(c.href), Texts(c, {"company", "jobLocations"}), ViecTotNhatDetail(d))

(* vlance.ts.  The job's page is read without a look at its layout.        *)
VlanceNext(p) == Follow(p, ParseLink(p.href))
VlanceKeeps(c) == {"title", "deadline"} \subseteq c.has
VlanceDetail(d) == {Texts(d, {"company"})}
VlanceItem(c, d) ==
  Merged(ParseLink(c.href), Texts(c, {"company", "jobLocations", "skills"}), VlanceDetail(d))
----------------------------------------------------------------------------
(* craw.ts: the scraper of the site.                                       *)
NextForm(p) ==
  CASE site = "careerlink"    -> CareerLinkNext(p)
    [] site = "careerbuilder" -> CareerBuilderNext(p)
    [] site = "itviec"        -> ITViecNext(p)
    [] site = "jobsgo"        -> JobsGoNext(p)
    [] site = "timviecnhanh"  -> TimViecNhanhNext(p)
    [] site = "topcv"         -> TopCvNext(p)
    [] site = "vieclam24h"    -> Vieclam24hNext(p)
    [] site = "viectotnhat"   -> ViecTotNhatNext(p)
    [] site = "vlance"        -> VlanceNext(p)

Keeps(c) ==
  CASE site = "careerlink"    -> CareerLinkKeeps(c)
    [] site = "careerbuilder" -> CareerBuilderKeeps(c)
    [] site = "itviec"        -> ITViecKeeps(c)
    [] site = "jobsgo"        -> JobsGoKeeps(c)
    [] site = "timviecnhanh"  -> TimViecNhanhKeeps(c)
    [] site = "topcv"         -> TopCvKeeps(c)
    [] site = "vieclam24h"    -> Vieclam24hKeeps(c)
    [] site = "viectotnhat"   -> ViecTotNhatKeeps(c)
    [] site = "vlance"        -> VlanceKeeps(c)

Item(c, d) ==
  CASE site = "careerlink"    -> CareerLinkItem(c, d)
    [] site = "careerbuilder" -> CareerBuilderItem(c, d)
    [] site = "itviec"        -> ITViecItem(c, d)
    [] site = "jobsgo"        -> JobsGoItem(c, d)
    [] site = "timviecnhanh"  -> TimViecNhanhItem(c, d)
    [] site = "topcv"         -> TopCvItem(c, d)
    [] site = "vieclam24h"    -> Vieclam24hItem(c, d)
    [] site = "viectotnhat"   -> ViecTotNhatItem(c, d)
    [] site = "vlance"        -> VlanceItem(c, d)
----------------------------------------------------------------------------
First == [form |-> "page", n |-> 1]

TypeOK ==
  /\ site \in Sites
  /\ habit \in LinkHabits
  /\ cursor \in Urls
  /\ url \in Urls
  /\ pc \in {"idle", "loop"}
  /\ page \in Lists \union {<<>>}
  /\ todo \subseteq DOMAIN page
  /\ next \in Urls
  /\ items \subseteq Jobs
  /\ docs \in [Jobs -> [Fields -> {"absent", "blank", "text"}]]
  /\ detail \in Details \union {NoDetail}

Init ==
  /\ site \in Sites
  /\ habit \in LinkHabits
  /\ cursor = First
  /\ url = First
  /\ pc = "idle"
  /\ page = <<>>
  /\ todo = {}
  /\ next = First
  /\ items = {}
  /\ docs = [j \in Jobs |-> [f \in Fields |-> "absent"]]
  /\ detail = NoDetail

(* Where getJobInPage reads a list: the URL names a site (craw.ts), goto   *)
(* takes it and, at itviec, #jobs shows, which a home page has not.        *)
Routed(u) == u.form # "bare"
ListShows(u) == site = "itviec" => u.form # "home"
Loads(u) == Routed(u) /\ u.form # "broken" /\ ListShows(u)

(* getNextPage(page) || the first URL, on the page of url u.               *)
NextUrl(p, u) ==
  LET form == NextForm(p)
  IN  CASE form = "none" -> First
        [] form = "page" -> [form |-> form, n |-> u.n + 1]
        [] OTHER         -> [form |-> form, n |-> 0]

(* The page's entries: behind the last page of the site there is none.     *)
EntriesShown(u) == {p \in Entries : p.href \in habit /\ (p.follows => u.n < MaxList)}

(* page(): the stored URL, or the first one when its read fails.           *)
VisitUrls == {cursor, First}

(* getJobInPage: load the list page, and read its jobs and its next link.  *)
LoadList ==
  /\ pc = "idle"
  /\ \E u \in VisitUrls, cards \in Lists :
       /\ Loads(u)
       /\ url' = u
       /\ page' = cards
       /\ todo' = {i \in DOMAIN cards : Keeps(cards[i])}
       /\ \E p \in EntriesShown(u) : next' = NextUrl(p, u)
  /\ items' = {}
  /\ pc' = "loop"
  /\ UNCHANGED <<site, habit, cursor, docs, detail>>

(* No scraper for the URL, or a URL that goto rejects or without a list:   *)
(* no items.                                                               *)
LoadFails ==
  /\ pc = "idle"
  /\ \E u \in VisitUrls : ~Loads(u)
  /\ items' = {}
  /\ UNCHANGED <<site, habit, cursor, url, pc, page, todo, next, docs, detail>>

Leave ==
  /\ pc' = "idle" /\ url' = First
  /\ page' = <<>> /\ todo' = {} /\ detail' = NoDetail

(* getJobInPage: scapeDetail gave null: return, where it could go on.      *)
SkipJob(i) == todo' = todo \ {i} /\ detail' = NoDetail /\ UNCHANGED <<pc, url, page>>
GiveUp(i) == Leave

(* getJobInPage: the next job, whose page is read, merged and saved.       *)
VisitJob ==
  /\ pc = "loop"
  /\ \E i \in todo, d \in Details :
       /\ \A j \in todo : i <= j
       /\ \/ \E fields \in Item(page[i], d) :
               /\ docs' = [docs EXCEPT ![page[i].job] = Overlay(@, fields)]
               /\ items' = items \union {page[i].job}
               /\ todo' = todo \ {i}
               /\ detail' = d
               /\ UNCHANGED <<pc, url, page>>
          \/ Item(page[i], d) = {} /\ GiveUp(i) /\ UNCHANGED <<docs, items>>
  /\ UNCHANGED <<site, habit, cursor, next>>

(* getJobInPage: saveConfig, behind the last job.                          *)
SaveConfig ==
  /\ pc = "loop"
  /\ todo = {}
  /\ cursor' = next
  /\ Leave
  /\ UNCHANGED <<site, habit, next, items, docs>>

Next == LoadList \/ LoadFails \/ VisitJob \/ SaveConfig

Spec == Init /\ [][Next]_vars
----------------------------------------------------------------------------
(* A cursor that does not load stays, whatever is visited: nothing moves it*)
(* but the end of a visit of the first page, where a visit goes only when  *)
(* its read of the cursor failed (page() in craw.ts; getJobInPage's catch).*)
StrandedStays == [][~Loads(cursor) /\ cursor' # cursor => pc = "loop" /\ url = First]_vars

(* How a site gets there: careerbuilder by any link that is not a whole    *)
(* URL; itviec by one that is, and by "#", whose page has no #jobs; the    *)
(* sites that call parseLink by a script, or a path that has http in it or *)
(* no slash before it; the two that make the URL from the page's number    *)
(* never do.                                                               *)
ByLinks(s) ==
  CASE s = "careerbuilder" -> {"path", "carrying", "relative", "hash", "script"}
    [] s = "itviec"        -> {"whole", "relative", "hash", "script"}
    [] s \in {"timviecnhanh", "vieclam24h"} -> {}
    [] OTHER               -> {"carrying", "relative", "script"}
StrandedOnlyBy == ~Loads(cursor) => habit \intersect ByLinks(site) # {}

(* The cursor leaves a list page only when every card that has all its     *)
(* parts and a link was visited and saved, whatever the site's getJobs     *)
(* asks of a card and however its links look.                              *)
WholeCardsVisited ==
  [][cursor' # cursor =>
       \A i \in DOMAIN page :
         page[i].has = Marks /\ page[i].href # "none" => page[i].job \in items]_vars

(* A visit is given up, and the jobs behind left for good while the page   *)
(* stays as it is, only for a link that no site can take; for any but a    *)
(* whole URL at the sites that take it as it is; or for a layout, at itviec*)
(* and topcv.                                                              *)
NoUrl == {"none", "carrying", "relative", "script"}
TakenAsIs == {"careerbuilder", "jobsgo", "topcv"}
GivenUpOnlyBy ==
  [][pc = "loop" /\ pc' = "idle" /\ todo # {} =>
       \/ site \in {"itviec", "topcv"}
       \/ \E i \in todo : page[i].href \in NoUrl
       \/ site \in TakenAsIs /\ \E i \in todo : page[i].href # "whole"]_vars

(* The job just visited.                                                   *)
Visited(i) == todo' = todo \ {i} /\ todo' # todo /\ pc' = "loop"

(* getJobs' fields of a card.                                              *)
FromCard ==
  CASE site = "itviec" -> {"jobLocations"}
    [] site = "vlance" -> Fields
    [] OTHER           -> {"company", "jobLocations"}

(* What a card shows is what is stored, unless the job's page has nothing  *)
(* in its place: its blank is laid over the card's locations at the sites  *)
(* whose getJobDetail returns them, over vlance's company.                 *)
OverlaidOnlyBy ==
  [][\A i \in todo : Visited(i) =>
       \A f \in FromCard \intersect page[i].has :
         \/ docs'[page[i].job][f] = "text"
         \/ f \notin detail'.has /\ site = "vlance" /\ f = "company"
         \/ /\ f \notin detail'.has /\ f = "jobLocations" /\ detail'.layout # "other"
            /\ site \in {"itviec", "jobsgo", "timviecnhanh", "topcv", "vieclam24h"}]_vars
============================================================================
