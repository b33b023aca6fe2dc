-------------------------- MODULE SiteRulesProofs --------------------------
(***************************************************************************)
(* SiteRules for any jobs, cards, job pages, kinds of links and number of  *)
(* list pages: a site is stranded only by a link of a kind it cannot take, *)
(* until a read of the cursor fails; the cursor leaves no whole card behind*)
(* unvisited.                                                              *)
(***************************************************************************)
EXTENDS SiteRules, TLAPS

(* A visit goes on only on a page that loaded: the cursor's or the first.  *)
LoopLoads == pc = "loop" => Loads(url) /\ url \in VisitUrls

(* What getNextPage gave, which the cursor will be.                        *)
NextStrandsBy == ~Loads(next) => habit \intersect ByLinks(site) # {}

(* The cards getJobs kept are visited or still to be visited.              *)
KeptVisited ==
  pc = "loop" => \A i \in DOMAIN page : Keeps(page[i]) => i \in todo \/ page[i].job \in items

IInv == TypeOK /\ LoopLoads /\ NextStrandsBy /\ StrandedOnlyBy /\ KeptVisited
----------------------------------------------------------------------------
(* What is read from a card or a page is text or blank.                    *)
Read(f) == DOMAIN f \subseteq Fields /\ \A x \in DOMAIN f : f[x] \in {"text", "blank"}

LEMMA TextsRead ==
  ASSUME NEW x, NEW S \in SUBSET Fields
  PROVE  Read(Texts(x, S))
BY DEF Texts, Read

LEMMA OverlayRead ==
  ASSUME NEW f, NEW g, Read(f), Read(g)
  PROVE  Read(Overlay(f, g))
BY DEF Overlay, Read

LEMMA KnownRead ==
  ASSUME NEW d, NEW S \in SUBSET Fields
  PROVE  \A f \in Known(d, S) : Read(f)
<1>1. Read(Texts(d, S)) /\ Read(Texts(d, {}))
  BY TextsRead
<1> QED
  BY <1>1 DEF Known

LEMMA MergedRead ==
  ASSUME NEW form, NEW card, NEW details, Read(card), \A f \in details : Read(f)
  PROVE  \A f \in Merged(form, card, details) : Read(f)
<1>1. \A d \in details : Read(Overlay(card, d))
  BY OverlayRead
<1> QED
  BY <1>1 DEF Merged

(* Whatever the site, a visited job's fields are read.                     *)
LEMMA ItemRead ==
  ASSUME NEW c, NEW d, site \in Sites
  PROVE  \A f \in Item(c, d) : Read(f)
<1> DEFINE card == {"company", "jobLocations"}
           both == {"jobLocations", "skills"}
<1>1. /\ card \in SUBSET Fields /\ both \in SUBSET Fields /\ {} \in SUBSET Fields
      /\ {"skills"} \in SUBSET Fields /\ {"company"} \in SUBSET Fields
      /\ {"jobLocations"} \in SUBSET Fields
      /\ {"company", "jobLocations", "skills"} \in SUBSET Fields
  BY DEF Fields
<1>2. Read(Texts(c, card)) /\ Read(Texts(c, {"jobLocations"}))
      /\ Read(Texts(c, {"company", "jobLocations", "skills"}))
  BY <1>1, TextsRead
<1>3. CASE site = "careerlink"
  <2>1. \A f \in CareerLinkDetail(d) : Read(f)
    BY <1>1, KnownRead DEF CareerLinkDetail
  <2> QED  BY <1>2, <1>3, <2>1, MergedRead DEF Item, CareerLinkItem
<1>4. CASE site = "careerbuilder"
  <2>1. \A f \in CareerBuilderDetail(d) : Read(f)
    BY <1>1, KnownRead DEF CareerBuilderDetail
  <2> QED  BY <1>2, <1>4, <2>1, MergedRead DEF Item, CareerBuilderItem
<1>5. CASE site = "itviec"
  <2>1. \A f \in ITViecDetail(d) : Read(f)
    BY <1>1, KnownRead DEF ITViecDetail
  <2> QED  BY <1>2, <1>5, <2>1, MergedRead DEF Item, ITViecItem
<1>6. CASE site = "jobsgo"
  <2>1. \A f \in JobsGoDetail(d) : Read(f)
    BY <1>1, KnownRead DEF JobsGoDetail
  <2> QED  BY <1>2, <1>6, <2>1, MergedRead DEF Item, JobsGoItem
<1>7. CASE site = "timviecnhanh"
  <2>1. \A f \in TimViecNhanhDetail(d) : Read(f)
    BY <1>1, KnownRead DEF TimViecNhanhDetail
  <2> QED  BY <1>2, <1>7, <2>1, MergedRead DEF Item, TimViecNhanhItem
<1>8. CASE site = "topcv"
  <2>1. \A f \in TopCvDetail(d) : Read(f)
    BY <1>1, KnownRead DEF TopCvDetail
  <2> QED  BY <1>2, <1>8, <2>1, MergedRead DEF Item, TopCvItem
<1>9. CASE site = "vieclam24h"
  <2>1. \A f \in Vieclam24hDetail(d) : Read(f)
    BY <1>1, KnownRead DEF Vieclam24hDetail
  <2> QED  BY <1>2, <1>9, <2>1, MergedRead DEF Item, Vieclam24hItem
<1>10. CASE site = "viectotnhat"
  <2>1. \A f \in ViecTotNhatDetail(d) : Read(f)
    BY <1>1, KnownRead DEF ViecTotNhatDetail
  <2> QED  BY <1>2, <1>10, <2>1, MergedRead DEF Item, ViecTotNhatItem
<1>11. CASE site = "vlance"
  <2>1. \A f \in VlanceDetail(d) : Read(f)
    BY <1>1, TextsRead DEF VlanceDetail
  <2> QED  BY <1>2, <1>11, <2>1, MergedRead DEF Item, VlanceItem
<1> QED
  BY <1>3, <1>4, <1>5, <1>6, <1>7, <1>8, <1>9, <1>10, <1>11 DEF Sites

(* A document keeps its type when such fields are laid over it.            *)
LEMMA OverlayDoc ==
  ASSUME NEW doc \in [Fields -> {"absent", "blank", "text"}], NEW f, Read(f)
  PROVE  Overlay(doc, f) \in [Fields -> {"absent", "blank", "text"}]
BY DEF Overlay, Read

(* The forms that do not load.                                             *)
Fails(form) == form \in {"broken", "bare"} \/ (site = "itviec" /\ form = "home")

(* A next link that does not load is one of a kind the site cannot take.   *)
LEMMA NextForms ==
  ASSUME site \in Sites, NEW p \in Entries
  PROVE  /\ NextForm(p) \in Forms
         /\ Fails(NextForm(p)) => p.href \in ByLinks(site)
<1> USE DEF Forms, Entries, Hrefs, Follow, ParseLink, NextForm, ByLinks, Fails
<1>1. CASE site = "careerlink"
  BY <1>1 DEF CareerLinkNext
<1>2. CASE site = "careerbuilder"
  BY <1>2 DEF CareerBuilderNext, RawLink
<1>3. CASE site = "itviec"
  BY <1>3 DEF ITViecNext, OriginLink
<1>4. CASE site = "jobsgo"
  BY <1>4 DEF JobsGoNext
<1>5. CASE site = "timviecnhanh"
  BY <1>5 DEF TimViecNhanhNext
<1>6. CASE site = "topcv"
  BY <1>6 DEF TopCvNext
<1>7. CASE site = "vieclam24h"
  BY <1>7 DEF Vieclam24hNext
<1>8. CASE site = "viectotnhat"
  BY <1>8 DEF ViecTotNhatNext
<1>9. CASE site = "vlance"
  BY <1>9 DEF VlanceNext
<1> QED
  BY <1>1, <1>2, <1>3, <1>4, <1>5, <1>6, <1>7, <1>8, <1>9 DEF Sites

(* Every site keeps a card that has all its parts and a link.              *)
LEMMA WholeCardKept ==
  ASSUME site \in Sites, NEW c, c.has = Marks, c.href # "none"
  PROVE  Keeps(c)
BY DEF Sites, Marks, Fields, Keeps, CareerLinkKeeps, CareerBuilderKeeps, ITViecKeeps,
   JobsGoKeeps, TimViecNhanhKeeps, TopCvKeeps, Vieclam24hKeeps, ViecTotNhatKeeps, VlanceKeeps
----------------------------------------------------------------------------
LEMMA InitIInv == Init => IInv
<1> SUFFICES ASSUME Init PROVE IInv
  OBVIOUS
<1> USE RulesAssumption DEF Init
<1>1. First \in Urls
  BY DEF First, Urls, Forms
<1>2. Loads(First)
  BY DEF Loads, Routed, ListShows, First
<1>3. TypeOK
  BY <1>1 DEF TypeOK
<1> QED
  BY <1>2, <1>3 DEF IInv, LoopLoads, NextStrandsBy, StrandedOnlyBy, KeptVisited

LEMMA LoadListStep == IInv /\ LoadList => IInv'
<1> SUFFICES ASSUME IInv, LoadList PROVE IInv'
  OBVIOUS
<1> USE RulesAssumption
<1>1. TypeOK
  BY DEF IInv
<1>2. PICK u \in VisitUrls, cards \in Lists :
        /\ Loads(u)
        /\ url' = u
        /\ page' = cards
        /\ todo' = {i \in DOMAIN cards : Keeps(cards[i])}
        /\ \E p \in EntriesShown(u) : next' = NextUrl(p, u)
  BY DEF LoadList
<1>2a. PICK p \in EntriesShown(u) : next' = NextUrl(p, u)
  BY <1>2
<1>3. p \in Entries /\ p.href \in habit /\ (p.follows => u.n < MaxList)
  BY <1>2a DEF EntriesShown
<1>4. site \in Sites
  BY <1>1 DEF TypeOK
<1>5. NextForm(p) \in Forms /\ (Fails(NextForm(p)) => p.href \in ByLinks(site))
  BY <1>3, <1>4, NextForms
<1>6. NextForm(p) = "page" => p.follows
  BY <1>4 DEF NextForm, Sites, Follow, CareerLinkNext, CareerBuilderNext, ITViecNext, JobsGoNext,
     TimViecNhanhNext, TopCvNext, Vieclam24hNext, ViecTotNhatNext, VlanceNext
<1>7. u \in Urls /\ u.n \in 0..MaxList
  BY <1>1, <1>2 DEF TypeOK, Urls, VisitUrls, First, Forms
<1>8. next' \in Urls
  <2>1. CASE NextForm(p) = "none"
    BY <1>2a, <2>1 DEF NextUrl, First, Urls, Forms
  <2>2. CASE NextForm(p) = "page"
    <3>1. u.n + 1 \in 0..MaxList
      BY <1>3, <1>6, <1>7, <2>2
    <3> QED
      BY <1>2a, <2>2, <3>1 DEF NextUrl, Urls, Forms
  <2>3. CASE NextForm(p) \notin {"none", "page"}
    BY <1>2a, <1>5, <2>3 DEF NextUrl, Urls, Forms
  <2> QED
    BY <2>1, <2>2, <2>3
<1>9. Fails(next'.form) => NextForm(p) = next'.form
  BY <1>2a DEF NextUrl, First, Fails
<1>10. NextStrandsBy'
  <2>1. (~Loads(next))' => Fails(next'.form)
    BY DEF LoadList, Loads, Routed, ListShows, Fails
  <2> QED
    BY <1>3, <1>5, <1>9, <2>1 DEF NextStrandsBy, LoadList, ByLinks
<1>11. TypeOK'
  BY <1>1, <1>2, <1>7, <1>8 DEF TypeOK, LoadList
<1>12. LoopLoads' /\ StrandedOnlyBy'
  BY <1>2 DEF IInv, LoopLoads, StrandedOnlyBy, LoadList, Loads, Routed, ListShows, ByLinks, VisitUrls
<1>13. \A c : Keeps(c)' <=> Keeps(c)
  BY DEF LoadList, Keeps
<1>14. KeptVisited'
  BY <1>2, <1>13 DEF KeptVisited
<1> QED
  BY <1>10, <1>11, <1>12, <1>14 DEF IInv

LEMMA VisitJobStep == IInv /\ VisitJob => IInv'
<1> SUFFICES ASSUME IInv, VisitJob PROVE IInv'
  OBVIOUS
<1> USE RulesAssumption
<1>1. TypeOK /\ LoopLoads /\ NextStrandsBy /\ StrandedOnlyBy /\ KeptVisited
  BY DEF IInv
<1>2. UNCHANGED <<site, habit, cursor, next>> /\ pc = "loop"
  BY DEF VisitJob
<1>3. NextStrandsBy' /\ StrandedOnlyBy' /\ LoopLoads'
  <2>1. pc' = "loop" => url' = url
    BY <1>2 DEF VisitJob, GiveUp, Leave
  <2> QED
    BY <1>1, <1>2, <2>1 DEF NextStrandsBy, StrandedOnlyBy, LoopLoads, Loads, Routed, ListShows, ByLinks, VisitUrls
<1>4. PICK i \in todo, d \in Details :
        \/ \E fields \in Item(page[i], d) :
             /\ docs' = [docs EXCEPT ![page[i].job] = Overlay(@, fields)]
             /\ items' = items \union {page[i].job}
             /\ todo' = todo \ {i}
             /\ detail' = d
             /\ UNCHANGED <<pc, url, page>>
        \/ Item(page[i], d) = {} /\ GiveUp(i) /\ UNCHANGED <<docs, items>>
  BY DEF VisitJob
<1>5. CASE Item(page[i], d) = {} /\ GiveUp(i) /\ UNCHANGED <<docs, items>>
  BY <1>1, <1>2, <1>3, <1>5 DEF IInv, TypeOK, GiveUp, Leave, KeptVisited, First, Urls, Forms
<1>6. ASSUME NEW fields \in Item(page[i], d),
             docs' = [docs EXCEPT ![page[i].job] = Overlay(@, fields)],
             items' = items \union {page[i].job},
             todo' = todo \ {i}, detail' = d, UNCHANGED <<pc, url, page>>
      PROVE  IInv'
  <2>1. site \in Sites /\ i \in DOMAIN page
    BY <1>1 DEF TypeOK
  <2>2. page \in Seq(Cards)
    BY <1>1, <2>1 DEF TypeOK
  <2>3. page[i].job \in Jobs
    <3>1. page[i] \in Cards
      BY <2>1, <2>2
    <3> QED
      BY <3>1 DEF Cards
  <2>4. Read(fields)
    BY <2>1, ItemRead
  <2>5. docs \in [Jobs -> [Fields -> {"absent", "blank", "text"}]]
    BY <1>1 DEF TypeOK
  <2>6. docs[page[i].job] \in [Fields -> {"absent", "blank", "text"}]
    BY <2>3, <2>5
  <2>7. Overlay(docs[page[i].job], fields) \in [Fields -> {"absent", "blank", "text"}]
    BY <2>4, <2>6, OverlayDoc
  <2>8. docs' \in [Jobs -> [Fields -> {"absent", "blank", "text"}]]
    BY <1>6, <2>3, <2>5, <2>7
  <2>9. TypeOK'
    BY <1>1, <1>2, <1>6, <2>3, <2>8 DEF TypeOK
  <2>10. \A c : Keeps(c)' <=> Keeps(c)
    BY <1>2 DEF Keeps
  <2>11. KeptVisited'
    BY <1>1, <1>2, <1>6, <2>10 DEF KeptVisited
  <2> QED
    BY <1>3, <2>9, <2>11 DEF IInv
<1> QED
  BY <1>4, <1>5, <1>6

(* The invariant holds in every state the sites' pages can lead to.        *)
THEOREM Invariance == Spec => []IInv
<1>1. ASSUME IInv, [Next]_vars PROVE IInv'
  <2>1. CASE LoadList
    BY <1>1, <2>1, LoadListStep
  <2>2. CASE LoadFails
    BY <1>1, <2>2 DEF LoadFails, IInv, TypeOK, LoopLoads, NextStrandsBy, StrandedOnlyBy,
       KeptVisited, Loads, Routed, ListShows, ByLinks, VisitUrls
  <2>3. CASE VisitJob
    BY <1>1, <2>3, VisitJobStep
  <2>4. CASE SaveConfig
    <3>1. First \in Urls
      BY RulesAssumption DEF First, Urls, Forms
    <3>2. TypeOK'
      BY <1>1, <2>4, <3>1 DEF SaveConfig, Leave, IInv, TypeOK
    <3>3. (NextStrandsBy /\ StrandedOnlyBy)'
      BY <1>1, <2>4 DEF SaveConfig, IInv, NextStrandsBy, StrandedOnlyBy, Loads, Routed, ListShows,
         ByLinks
    <3> QED
      BY <1>1, <2>4, <3>2, <3>3 DEF SaveConfig, Leave, IInv, LoopLoads, KeptVisited
  <2>5. CASE UNCHANGED vars
    BY <1>1, <2>5 DEF vars, IInv, TypeOK, LoopLoads, NextStrandsBy, StrandedOnlyBy, KeptVisited,
       Loads, Routed, ListShows, ByLinks, VisitUrls, Keeps
  <2> QED
    BY <1>1, <2>1, <2>2, <2>3, <2>4, <2>5 DEF Next
<1> QED
  BY InitIInv, <1>1, PTL DEF Spec

(* Every variable keeps its type.                                          *)
THEOREM TypeCorrect == Spec => []TypeOK
<1>1. IInv => TypeOK
  BY DEF IInv
<1> QED
  BY Invariance, <1>1, PTL

(* Which links can strand a site, for all cards, pages and link habits     *)
(* (getNextPage of the nine scrapers).                                     *)
THEOREM Strands == Spec => []StrandedOnlyBy
<1>1. IInv => StrandedOnlyBy
  BY DEF IInv
<1> QED
  BY Invariance, <1>1, PTL

(* A stranded site stays so until a read of the cursor fails: the cursor   *)
(* moves only behind a visit of the first page (page() in craw.ts).        *)
THEOREM StrandedUntilReset == Spec => StrandedStays
<1>1. IInv /\ [Next]_vars =>
        [~Loads(cursor) /\ cursor' # cursor => pc = "loop" /\ url = First]_vars
  BY DEF IInv, LoopLoads, VisitUrls, Next, LoadList, LoadFails, VisitJob, SaveConfig, vars
<1> QED
  BY Invariance, <1>1, PTL DEF Spec, StrandedStays

(* The cursor moves only behind visited cards (getJobInPage's loop).       *)
THEOREM CardsVisited == Spec => WholeCardsVisited
<1>1. ASSUME IInv, [Next]_vars, cursor' # cursor,
             NEW i \in DOMAIN page, page[i].has = Marks, page[i].href # "none"
      PROVE  page[i].job \in items
  <2>1. SaveConfig
    BY <1>1 DEF Next, LoadList, LoadFails, VisitJob, vars
  <2>2. Keeps(page[i])
    BY <1>1, WholeCardKept DEF IInv, TypeOK
  <2> QED
    BY <1>1, <2>1, <2>2 DEF IInv, KeptVisited, SaveConfig
<1>2. IInv /\ [Next]_vars =>
        [cursor' # cursor =>
           \A i \in DOMAIN page :
             page[i].has = Marks /\ page[i].href # "none" => page[i].job \in items]_vars
  BY <1>1
<1> QED
  BY Invariance, <1>2, PTL DEF Spec, WholeCardsVisited
----------------------------------------------------------------------------
LEMMA KnownSome == ASSUME NEW d, NEW S PROVE Known(d, S) # {}
BY DEF Known

LEMMA MergedNone ==
  ASSUME NEW form, NEW card, NEW details, details # {}, Merged(form, card, details) = {}
  PROVE  form \notin {"page", "home"}
<1>1. SUFFICES ASSUME form \in {"page", "home"} PROVE FALSE
  OBVIOUS
<1>2. PICK d \in details : TRUE
  OBVIOUS
<1>3. Overlay(card, d) \in Merged(form, card, details)
  BY <1>1 DEF Merged
<1> QED
  BY <1>3

(* When a kept card comes to nothing.                                      *)
LEMMA ItemNone ==
  ASSUME site \in Sites, NEW c \in Cards, NEW d, Item(c, d) = {}
  PROVE  \/ site \in {"itviec", "topcv"}
         \/ c.href \in NoUrl
         \/ site \in TakenAsIs /\ c.href # "whole"
<1> USE KnownSome, MergedNone DEF Cards, Hrefs, NoUrl, TakenAsIs, ParseLink, RawLink
<1>1. CASE site = "careerlink"
  BY <1>1 DEF Item, CareerLinkItem, CareerLinkDetail
<1>2. CASE site = "careerbuilder"
  BY <1>2 DEF Item, CareerBuilderItem, CareerBuilderDetail
<1>3. CASE site = "jobsgo"
  BY <1>3 DEF Item, JobsGoItem, JobsGoDetail
<1>4. CASE site = "timviecnhanh"
  BY <1>4 DEF Item, TimViecNhanhItem, TimViecNhanhDetail
<1>5. CASE site = "vieclam24h"
  BY <1>5 DEF Item, Vieclam24hItem, Vieclam24hDetail
<1>6. CASE site = "viectotnhat"
  BY <1>6 DEF Item, ViecTotNhatItem, ViecTotNhatDetail
<1>7. CASE site = "vlance"
  <2>1. VlanceDetail(d) # {}
    BY DEF VlanceDetail
  <2> QED
    BY <1>7, <2>1 DEF Item, VlanceItem
<1> QED
  BY <1>1, <1>2, <1>3, <1>4, <1>5, <1>6, <1>7 DEF Sites

(* A visit is given up only for what its site cannot take (scapeDetail).   *)
THEOREM GivenUp == Spec => GivenUpOnlyBy
<1>1. ASSUME IInv, [Next]_vars, pc = "loop", pc' = "idle", todo # {}
      PROVE  \/ site \in {"itviec", "topcv"}
             \/ \E i \in todo : page[i].href \in NoUrl
             \/ site \in TakenAsIs /\ \E i \in todo : page[i].href # "whole"
  <2>1. VisitJob
    BY <1>1 DEF Next, LoadList, LoadFails, SaveConfig, vars
  <2>2. PICK i \in todo, d \in Details : Item(page[i], d) = {}
    BY <1>1, <2>1 DEF VisitJob
  <2>3. site \in Sites /\ page[i] \in Cards
    <3>1. i \in DOMAIN page /\ page \in Seq(Cards)
      BY <1>1, RulesAssumption DEF IInv, TypeOK
    <3> QED
      BY <1>1, <3>1 DEF IInv, TypeOK
  <2> QED
    BY <2>2, <2>3, ItemNone
<1>2. IInv /\ [Next]_vars =>
        [pc = "loop" /\ pc' = "idle" /\ todo # {} =>
           \/ site \in {"itviec", "topcv"}
           \/ \E i \in todo : page[i].href \in NoUrl
           \/ site \in TakenAsIs /\ \E i \in todo : page[i].href # "whole"]_vars
  BY <1>1
<1> QED
  BY Invariance, <1>2, PTL DEF Spec, GivenUpOnlyBy
----------------------------------------------------------------------------
(* What a job's page lays over the fields of its card.                     *)

(* A field that the card shows stays text, unless the page's fields have   *)
(* it and it is not text there.                                            *)
LEMMA MergedText ==
  ASSUME NEW form, NEW c, NEW S, NEW details, NEW fields \in Merged(form, Texts(c, S), details),
         NEW f \in S \intersect c.has
  PROVE  /\ f \in DOMAIN fields
         /\ fields[f] = "text" \/ \E g \in details : f \in DOMAIN g /\ g[f] # "text"
<1>1. PICK g \in details : fields = Overlay(Texts(c, S), g)
  BY DEF Merged
<1>2. DOMAIN Texts(c, S) = S /\ Texts(c, S)[f] = "text"
  BY DEF Texts
<1>3. f \in DOMAIN fields /\ fields[f] = IF f \in DOMAIN g THEN g[f] ELSE Texts(c, S)[f]
  BY <1>1, <1>2 DEF Overlay
<1> QED
  BY <1>2, <1>3

(* A page's fields are not text where it is of a layout the code knows and *)
(* has nothing there.                                                      *)
LEMMA KnownBlank ==
  ASSUME NEW d, NEW S, NEW g \in Known(d, S), NEW f \in DOMAIN g, g[f] # "text"
  PROVE  d.layout # "other" /\ f \in S /\ f \notin d.has
BY DEF Known, Texts

(* The sites whose getJobDetail returns locations.                         *)
Relocates == {"itviec", "jobsgo", "timviecnhanh", "topcv", "vieclam24h"}

BlankedBy(d, f) ==
  /\ f \notin d.has
  /\ \/ site = "vlance" /\ f = "company"
     \/ f = "jobLocations" /\ d.layout # "other" /\ site \in Relocates

LEMMA ItemText ==
  ASSUME site \in Sites, NEW c, NEW d, NEW fields \in Item(c, d),
         NEW f \in FromCard \intersect c.has
  PROVE  f \in DOMAIN fields /\ (fields[f] = "text" \/ BlankedBy(d, f))
<1> DEFINE card == {"company", "jobLocations"}
<1>1. CASE site = "careerlink"
  <2>1. fields \in Merged(ParseLink(c.href), Texts(c, card), Known(d, {})) /\ f \in card \intersect c.has
    BY <1>1 DEF Item, CareerLinkItem, CareerLinkDetail, FromCard
  <2> QED  BY <2>1, MergedText, KnownBlank
<1>2. CASE site = "careerbuilder"
  <2>1. fields \in Merged(RawLink(c.href), Texts(c, card), Known(d, {"skills"})) /\ f \in card \intersect c.has
    BY <1>2 DEF Item, CareerBuilderItem, CareerBuilderDetail, FromCard
  <2>2. f # "skills"
    BY <2>1
  <2> QED  BY <2>1, <2>2, MergedText, KnownBlank
<1>3. CASE site = "itviec"
  <2>1. /\ fields \in Merged(ParseLink(c.href), Texts(c, {"jobLocations"}), ITViecDetail(d))
        /\ f \in {"jobLocations"} \intersect c.has
    BY <1>3 DEF Item, ITViecItem, FromCard
  <2>2. ITViecDetail(d) \subseteq Known(d, {"company", "jobLocations", "skills"})
    BY DEF ITViecDetail
  <2> QED  BY <1>3, <2>1, <2>2, MergedText, KnownBlank DEF BlankedBy, Relocates
<1>4. CASE site = "jobsgo"
  <2>1. /\ fields \in Merged(RawLink(c.href), Texts(c, card), Known(d, {"jobLocations", "skills"}))
        /\ f \in card \intersect c.has
    BY <1>4 DEF Item, JobsGoItem, JobsGoDetail, FromCard
  <2>2. f \in {"jobLocations", "skills"} => f = "jobLocations"
    BY <2>1
  <2> QED  BY <1>4, <2>1, <2>2, MergedText, KnownBlank DEF BlankedBy, Relocates
<1>5. CASE site = "timviecnhanh"
  <2>1. /\ fields \in Merged(ParseLink(c.href), Texts(c, card), Known(d, {"jobLocations", "skills"}))
        /\ f \in card \intersect c.has
    BY <1>5 DEF Item, TimViecNhanhItem, TimViecNhanhDetail, FromCard
  <2>2. f \in {"jobLocations", "skills"} => f = "jobLocations"
    BY <2>1
  <2> QED  BY <1>5, <2>1, <2>2, MergedText, KnownBlank DEF BlankedBy, Relocates
<1>6. CASE site = "topcv"
  <2>1. /\ fields \in Merged(RawLink(c.href), Texts(c, card), TopCvDetail(d))
        /\ f \in card \intersect c.has
    BY <1>6 DEF Item, TopCvItem, FromCard
  <2>2. f \in {"jobLocations", "skills"} => f = "jobLocations"
    BY <2>1
  <2>3. TopCvDetail(d) \subseteq Known(d, {"jobLocations", "skills"})
    BY DEF TopCvDetail
  <2> QED  BY <1>6, <2>1, <2>2, <2>3, MergedText, KnownBlank DEF BlankedBy, Relocates
<1>7. CASE site = "vieclam24h"
  <2>1. /\ fields \in Merged(ParseLink(c.href), Texts(c, card), Known(d, {"jobLocations", "skills"}))
        /\ f \in card \intersect c.has
    BY <1>7 DEF Item, Vieclam24hItem, Vieclam24hDetail, FromCard
  <2>2. f \in {"jobLocations", "skills"} => f = "jobLocations"
    BY <2>1
  <2> QED  BY <1>7, <2>1, <2>2, MergedText, KnownBlank DEF BlankedBy, Relocates
<1>8. CASE site = "viectotnhat"
  <2>1. fields \in Merged(ParseLink(c.href), Texts(c, card), Known(d, {})) /\ f \in card \intersect c.has
    BY <1>8 DEF Item, ViecTotNhatItem, ViecTotNhatDetail, FromCard
  <2> QED  BY <2>1, MergedText, KnownBlank
<1>9. CASE site = "vlance"
  <2>1. /\ fields \in Merged(ParseLink(c.href), Texts(c, Fields), {Texts(d, {"company"})})
        /\ f \in Fields \intersect c.has
    BY <1>9 DEF Item, VlanceItem, VlanceDetail, FromCard, Fields
  <2>2. \A g \in {Texts(d, {"company"})} : f \in DOMAIN g /\ g[f] # "text" => f = "company" /\ f \notin d.has
    BY DEF Texts
  <2> QED  BY <1>9, <2>1, <2>2, MergedText DEF BlankedBy
<1> QED
  BY <1>1, <1>2, <1>3, <1>4, <1>5, <1>6, <1>7, <1>8, <1>9 DEF Sites

(* Only a page's loop has jobs to visit.                                   *)
IdleEmpty == pc = "idle" => todo = {}

LEMMA IdleHasNoJobs == Spec => []IdleEmpty
<1>1. Init => IdleEmpty
  BY DEF Init, IdleEmpty
<1>2. IdleEmpty /\ [Next]_vars => IdleEmpty'
  BY DEF IdleEmpty, Next, LoadList, LoadFails, VisitJob, GiveUp, SaveConfig, Leave, vars
<1> QED
  BY <1>1, <1>2, PTL DEF Spec

(* A shown field of a card is lost only to the blank of a page, and only   *)
(* at the sites whose getJobDetail returns it ({...job, ...jobDetail}).    *)
THEOREM CardsOverlaid == Spec => OverlaidOnlyBy
<1>1. ASSUME IInv, IdleEmpty, [Next]_vars, NEW i \in todo, Visited(i),
             NEW f \in FromCard \intersect page[i].has
      PROVE  docs'[page[i].job][f] = "text" \/ BlankedBy(detail', f)
  <2>1. VisitJob
    BY <1>1 DEF Visited, IdleEmpty, Next, LoadList, LoadFails, SaveConfig, Leave, vars
  <2>2. PICK k \in todo, d \in Details :
           \E fields \in Item(page[k], d) :
             /\ docs' = [docs EXCEPT ![page[k].job] = Overlay(@, fields)]
             /\ todo' = todo \ {k}
             /\ detail' = d
    BY <1>1, <2>1 DEF VisitJob, GiveUp, Leave, Visited
  <2>3. PICK fields \in Item(page[k], d) :
          /\ docs' = [docs EXCEPT ![page[k].job] = Overlay(@, fields)]
          /\ todo' = todo \ {k}
          /\ detail' = d
    BY <2>2
  <2>4. k = i
    BY <1>1, <2>3 DEF Visited
  <2>5. page[i].job \in Jobs
    <3>1. i \in DOMAIN page /\ page \in Seq(Cards)
      BY <1>1, RulesAssumption DEF IInv, TypeOK
    <3>2. page[i] \in Cards
      BY <3>1
    <3> QED
      BY <3>2 DEF Cards
  <2>6. docs'[page[i].job] = Overlay(docs[page[i].job], fields)
    BY <1>1, <2>3, <2>4, <2>5 DEF IInv, TypeOK
  <2>7. f \in DOMAIN fields /\ (fields[f] = "text" \/ BlankedBy(d, f))
    BY <1>1, <2>3, <2>4, ItemText DEF IInv, TypeOK
  <2> QED
    BY <2>3, <2>6, <2>7 DEF Overlay
<1>2. IInv /\ IdleEmpty /\ [Next]_vars =>
        [\A i \in todo : Visited(i) =>
           \A f \in FromCard \intersect page[i].has :
             \/ docs'[page[i].job][f] = "text"
             \/ f \notin detail'.has /\ site = "vlance" /\ f = "company"
             \/ /\ f \notin detail'.has /\ f = "jobLocations" /\ detail'.layout # "other"
                /\ site \in {"itviec", "jobsgo", "timviecnhanh", "topcv", "vieclam24h"}]_vars
  BY <1>1 DEF BlankedBy, Relocates
<1> QED
  BY Invariance, IdleHasNoJobs, <1>2, PTL DEF Spec, OverlaidOnlyBy
============================================================================
