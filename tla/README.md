# TLA+ verification of cvpro-sourcing

cvpro-sourcing collects Vietnamese job advertisements from a dozen job sites,
keeps them in one MongoDB collection and serves them to candidates. This
directory holds the TLA+ models of the program, the TLC configurations that
check them on small instances, and TLAPS proofs for the parts where a bound is
not good enough. Paths below are relative to the repository (`src/` here).

## 1. Inventory

### 1.1 Crawler: `html/crawl/src` (TypeScript, node, puppeteer, mongoose)

| part | state it keeps | operations | hard behaviour |
|---|---|---|---|
| scheduled crawl: `jobs/job1.ts`, `crawl/craw.ts` (`page`), `getJobInPage`/`scapeDetail` of nine sites | one cursor per site (`craws` collection), jobs (`jobs` collection), a shared browser and its tabs | `scrapeWithSchedule`, `getJobs`, `page`, `getJobInPage`, `scapeDetail` | nine tasks interleave over one browser; any await may fail; crash and pm2 restart; resume from the cursor |
| infinite-scroll crawl: `craw.ts` (`pageInfinite`), `topdev.ts`, `yBox.ts`, `craw.ts` CLI and `server.ts` | nothing stored but jobs | scroll until enough items, then visit each | called by nothing |
| vietnamworks: `crawl/vietnamworks.ts`, `jobs/vietnamwork.ts` | its own cursor, a request captured in a browser | `apiGetDataConfig`, `VietNamWorkAll`, `VietNamWorkWithPage`, cron | resume, paging by text replacement, overlapping cron runs |
| logo cache: `crawl/downloadImage.ts` | files named by the md5 of the URL | `downloadImage` | check-then-create, truncation, streams that fail or stall, crash in mid-write |
| database entities: `database/entities/*.ts` | `jobs`, `craws` collections | `saveJob`, `saveConfig`, `getConfigCraw` | upsert and find-then-create without a unique index, from several processes |
| conversions: `crawl/helper.ts`, per-site `getJobs`/`getJobDetail` | none | dates, salaries, DOM extraction | words read at one moment become a date at a later one; rules whose order matters |

### 1.2 Backend: `html/backend/public_html` (Laravel)

| part | state | operations | hard behaviour |
|---|---|---|---|
| job API: `Modules/Jobs`, `app/Services/FilterQueryBuilder.php` | reads `jobs` | `detail`, `query` (filters, paging, external jobs), `TraitCVProTop` | paging over a collection that the crawler changes; merging an external list |
| multi-tenancy: `Modules/CoreConfig`, observers and scopes of `Modules/Users`, `Modules/Privileges` | `websites`, `core_config_data`, `website_id` columns | `TenantMiddleware`, global scopes, `creating` observers | which scope applies to which request |
| authentication: `app/Http/Controllers/AuthController.php`, `JwtMiddleware` | users, tokens | register, login, logout, refresh | token states |
| roles: `Modules/Privileges` | roles, permissions | `RolesController::add` | check-then-create |
| teams: `app/Actions/Jetstream`, `app/Actions/Fortify` | teams, members, invitations | create, invite, add, remove, delete | legal sequences that leave half-linked rows |

### 1.3 Frontend: `html/frontend/src` (React)

| part | state | operations | hard behaviour |
|---|---|---|---|
| job list: `Modules/ListJob` | reducer state (form, jobs, isLoading), browser history | search, filter, page, back/forward | answers that arrive after the form changed |
| requests: `global/utils.js`, `global/helpers/apis.js` | timers, abort controllers | `requestApi` | timeout racing an answer |
| recents, totals: `global/hooks`, `Modules/Home` | local storage | `useLocalStorage`, `addRecents` | lost updates between tabs |
| forms: `components/DynamicFields`, `Modules/Candidates` | nested form state | reducer actions | in-place mutation |
| login and routes: `Modules/Login`, `global/reducer/auth.js`, `global/routes.js` | auth state | login, logout, guarded routes | - |

### 1.4 Deployment: `docker_files`

Dockerfiles, vendored nginx push-stream module, pthreads and puppeteer sources.
None of the program's own logic; not modelled.

### 1.5 How the parts interact

`job1` and the vietnamworks cron job are separate node processes, each with a
browser of its own; both write `jobs` and `craws` through the entities, and both
store logos through `downloadImage` in the same directory. The backend reads
`jobs`; it never writes it. The frontend calls the job API and merges nothing
of its own. The crawler is therefore the writer that everything else trusts,
which is why it comes first.

## 2. Plan

| step | modules | what it promises | theorems |
|---|---|---|---|
| 1 (done) | `CrawlLedger`, `SiteCrawl`, `MCSiteCrawl`, `SiteCrawlProofs` | a cursor leaves a page only when its jobs are handled | type, invariants, action property, refinement |
| 2 (done) | `ImageCache`, `MCImageCache`, `ImageCacheProofs` | racing downloads end on a whole file; who leaves a writer open | type, invariants, action property |
| 3 (done) | `VietNamWork`, `MCVietNamWork`, `VietNamWorkProofs` | what a resumed run loads; who leaves a Chromium; what is stored in the end | type, invariants |
| 4 (done) | `JobStore`, `MCJobStore`, `JobStoreProofs` | nothing acknowledged is lost; which jobs share a document | type, invariants |
| 5 (done) | `ListJob`, `MCListJob`, `FrontendProofs` | what the list shows agrees with the form and the URL, through the phases of a request | type, invariants, action properties |
| 6 (done) | `SiteRules`, `MCSiteRules`, `SiteRulesProofs` | which pages and links the nine scrapers can take, and what one they cannot costs | type, invariants, action properties |
| 7 (done) | `JobSearch`, `MCJobSearch`, `JobSearchProofs` | what a pass through the search's pages shows while the collection changes | type, invariants |
| 8 (done) | `CursorCell`, `CursorStore`, `MCCursorStore`, `CursorStoreProofs` | the cursor documents of several processes are one atomic cell | type, invariants, refinement |
| 9 (done) | `PostingDates`, `MCPostingDates`, `JobStoreProofs` (second part) | the dates that words become, and when | invariants |
| 10 (done) | `Recents`, `MCRecents`, `FrontendProofs` | the recent searches of several tabs | type, invariants |

`SiteCrawl` and `VietNamWork` read and write the cursor in one step each, and save
a job in one; `CursorStore` and `JobStore` open those steps. The refinement of
`CursorCell` makes the one step of the cursor good for processes that read it, crawl
and save it once, as `Crawl.page` does: job1, a second one, the command line. A run of
vietnamworks reads once and saves at every turn of its loop; for overlapping runs of it
`saveConfig` is one step by assumption. `ListJob`
takes an answer as a whole; `JobSearch` is how the backend makes it, and
`PostingDates` where the order it sorts by comes from.

Every invariant and every action property of the runs is a theorem, and so are the
two refinements; what is left is liveness. Two proofs modules hold the proofs of
two components each (`JobStoreProofs`, `FrontendProofs`). They extend both, which is
why `PostingDates` and `Recents` put their own name before `vars`, `Init`, `Next`,
`Spec` and `TypeOK`.

The project keeps to a dozen TLC runs, so that a full check stays short enough to
be made after every change, and to forty properties of passing runs. `TypeOK` is
the first part of the inductive invariant wherever there is a proofs module, with
`TypeCorrect` as its theorem, and then not an invariant of the run. Some
theorems state properties that no run lists because a stronger or
more telling one took their place; they are `OneTabPerTask`, `NamesAFile`,
`CursorOnSite`, `StrandedStays` and `GivenUpOnlyBy`.

## 3. The scheduled crawl: `CrawlLedger`, `SiteCrawl`, `SiteCrawlProofs`

`CrawlLedger` is what the crawl promises to the database: per site a cursor, and
the sets of jobs stored and refused. Jobs may be stored or refused at any time;
a cursor moves only from the listing of the page it points at (or of the first
page: a failed read of the cursor restarts there), and only when all jobs of
that listing are handled. `SiteCrawl` is the code, and implements it with the
variables `cursor`, `store`, `refused` mapped to themselves.

`SiteCrawl` state and code:

| variable | code |
|---|---|
| `proc`, `browser` | the node process of `jobs/job1.ts` and the Chromium it launches |
| `cursor`, `store` | `craws` and `jobs` documents |
| `pc`, `turn` | where each `getJobs` task is suspended, and its `index` |
| `url`, `list`, `at`, `items` | locals of `page` and `getJobInPage` |
| `tabs`, `orphans` | browser tabs held by the task, tabs nothing refers to any more |
| `hung` | the tasks whose await is never answered |
| `refused`, `tabFaults`, `faults` | history: refused jobs, failed tab calls, failures so far |

Each action is the code between two awaits whose order other parties can see;
its disjuncts are the outcomes of the await, success and failure. `Hang` is the third
one, no outcome at all: only `page.goto` and the selectors have a timeout, while
`newPage`, `evaluate`, `close` and `screenshot`, the queries and the download of a
logo may be waited for without end. A browser that dies rejects what awaits it, hung
or not (`AwaitsBrowser`); else only a crash of the process ends a hung await.
`PageIsNull` is `createPage` returning null, which also
happens after the tab was made. The nine site modules repeat the same
`getJobInPage`/`scapeDetail` text; `careerlink.ts` is the one the map cites, and
the others were compared with it. What a page shows when it is loaded is the
constant `Shown`: several listings per page let pages move, come up blocked or
lose their next link between two loads.

Some operators are named for a mistake that is easy to make at that line
(`Continue` and `Break` for the early `return items`, `SharedItems` for a list
kept across calls, `LeaveDetail` for a missing close, ...). No behaviour
uses them. They stand beside the definition they would replace, to show that
each property fails when the code is wrong there.

Runs (two sites, A with two pages and B with one):

| run | question | bounds |
|---|---|---|
| `crawl_safety` | `ItemsAreHandled`, `NoSilentLeak`, `CursorWaitsForJobs`, `KeepsLedger`; `RunEnds`: a run ends, or is held up by awaits that hang and by nothing else: every task that does not hang is done | pages that move, come up blocked or lose their link; up to two pages of A per run; two failures anywhere |
| `crawl_poison` | one detail page that never loads: `NothingBehindPoison`, it hides itself and all jobs behind it for ever; `AllBeforePoisonStored`, every other job is stored in the end, through runs that resume from the cursor, unless an await hangs for good | fixed pages, one page per run, three jobs on B with the second one poisoned, two more failures |

Two sites are enough for interleaving because tasks share only the browser and
the process; two pages are enough for a cursor that moves, wraps to the first
page and is resumed; two failures let the second one hit the handling of the
first (the close in a catch), and both tasks hang. Deadlock checking is off because a
process whose tasks hang or are done really does nothing more.

Fairness: weak fairness of every task that does not hang, of the exit and of the
restart. An await either settles or hangs, and the model may choose either at each of
them; `browser.close()` at the exit kills Chromium, which has a temporary profile,
and so settles; pm2 restarts the process. No failure is ever required to happen,
and no hung await to end.

Proved in `SiteCrawlProofs`, for every set of sites, pages and jobs, every
listing and every number of failures, from the assumption `SiteAssumption` only
(cursors are pages, `MaxPage` is positive):

- `TypeCorrect`, `ItemsHandled`, `AtMostOneTab`, `LeaksAreFaults`: the state
  invariants of `crawl_safety`, and that a task holds at most one tab;
- `CursorSkipsNoJob` (`CursorWaitsForJobs`) and `CrawlKeepsLedger` (every step is
  a step of `CrawlLedger` or leaves its variables alone);
- `PoisonHides` (`NothingBehindPoison`): for any set of jobs whose pages never load,
  these and what stands behind one wherever it is listed are never handled.

None of these is inductive by itself. The invariant `IInv` adds what the local
variables mean at each `pc`: `IdleInv` (a process that is down holds no tab),
`UrlInv` (`url` is the stored cursor or the first page from `ReadCursor` to
`SaveConfig`: no other actor moves this site's cursor meanwhile), `ListInv` (the
listing was shown by the page at `url`), `LoopInv` (every job before `at` has
been handled, and `items` counts at most those), and `TabInv` (which tabs may be
open at which `pc`). The cursor theorem is `LoopInv` at the end of the loop; the
refinement needs `UrlInv` and `ListInv` as well, to know which page's listing the
cursor advances over. `PoisonHides` needs `PassedInv` as well: the
loop has passed no job that never loads, since the first one ends it, and so every
job handled is one that some listing shows before all such.

Only model-checked: `RunEnds` and `AllBeforePoisonStored` (liveness).

Assumed: a call that fails has no later effect (a `saveConfig` whose answer is
lost is the failure "not written" or the success "written", never written after
the next one), and saves of one job are one step here; `JobStore` opens that step.

## 4. The logo cache: `ImageCache`, `ImageCacheProofs`

`downloadImage` for one logo, called from several tasks of `job1` and from the
vietnamworks process, which share one folder.

| variable | code |
|---|---|
| `folder`, `file` | the images folder; the chunks in the logo's file, or that there is none |
| `pc` | where a call is: before or in `createImagesFolder`, waiting for the answer, or for one that never comes (`unanswered`), piping, stalled, done |
| `stream`, `at` | the `createWriteStream` of the call: made, open, and its position |
| `result` | what the call returned |
| `left` | writers of a process that nothing will ever close: a file descriptor each |
| `broken` | history: downloads that failed |

`createWriteStream` opens (and truncates) the file in the background, so `Open`
and `OpenFails` are actions of their own that any call and answer can pass.
`mkdirSync` directly follows its `existsSync`, so no other call of the same
process comes between (`Blocked`), while one of another process may.

Run `logo_cache`: three calls in two processes, a logo of two chunks, two failures
anywhere (refused requests, failed opens and writes, headers that never come, a body
that stops, a crash). Two chunks are enough for a file with a hole and for one
without an end; three calls for a third that finds what two racing ones leave.
`QuietIsWhole` (racing downloads that do not fail leave a whole file),
`QuietFileStays` (what a failed one left behind is never downloaded again),
`OnlyFailuresLeaveWriters` (descriptors leak by failed downloads, one by each at
most) and `CallsReturn`: only the server can hold a call for ever, by headers that
never come (`unanswered`) or a body that stops (`stalled`), since axios is given no
timeout; no failure of the folder, the file or the request and no other call does.
Fairness: node runs what is ready, the disk opens and writes, and a request that is
not one of these two is answered or fails.

Proved for any calls, processes and sizes (assumption: `CacheAssumption`, types
only): `TypeCorrect`, `NamesExist` (a call that returns the name has seen or made
the file), `WritersAreClosed`, `QuietFilesAreWhole`, `QuietFilesStay`. The
invariant behind `QuietIsWhole` is `CoverInv`: while no download has failed, each
chunk the file lacks is one that some call has yet to write. It is needed
because a truncation by a late `Open` takes away other writers' chunks; the
opener starts at position 0 and therefore owes all of them. `CallsReturn` is
only model-checked.

## 5. The vietnamworks crawl: `VietNamWork`, `VietNamWorkProofs`

`VietNamWorkAll` as the cron of `jobs/vietnamwork.ts` starts it, with runs that
may overlap because a tick does not look for one under way. `body` is the page
number inside the captured request; `getBody` replaces the text `page=0` in it,
so it works once. A page stands for its hits: they are saved one by one, but the
cursor is written after all of them.

Each capture launches a Chromium (`chromium`), which only the path without a
failure closes.

Run `vnw`: two runs that may overlap, a site of two pages or three, with every
page good or page 1 always failing, two failures anywhere, among them awaits that
never settle (`Hang`: the capture, the site's answers, the queries, a logo).
Two runs are the least that overlap; two sizes let the site shrink behind a run;
two failures let one run fail on what another left.

- `StartDecidesPages`: a run from page 0 loads every page it counts, however the
  other moves the cursor; a resumed one loads its own page again and again,
  whatever its log says (`getBody` finds no second `page=0` to replace);
- `NoSilentChromium`: a Chromium that runs belongs to a capture under way or to
  one that failed or hangs;
- `EveryPageStored`: with no bad page, and once runs stop overlapping, every page
  is stored, because a resumed run ends at cursor 0. With two runs for ever
  overlapping it fails: one may always move the cursor back for the other;
- `StuckAtBad`: with a bad page the cursor comes to stand there for good, from
  any overlap.

Fairness is the cron's ticking and that a run goes on which does not hang. The code
puts no limit on the runs under way; `Runs` is the model's bound on them, and a
stalled run keeps its place. The last two properties therefore except the behaviours
in which all places are stalled, and deadlock checking is off for the same reason.

Proved for any runs, sizes and failures: `TypeCorrect`, `CursorStaysOnSite` (the
stored page is one the site had), `RunsLoadByStart` and
`OnlyFailuresLeaveChromium`. The invariant adds `BodyInv` (from the capture on the
body holds the page the run started from), `FreshInv`, `LoadInv` (the loaded pages
also while an await hangs), `CountInv` (what a run counts comes from an answer) and
`ChromiumInv` (there are at least as many Chromium processes as captures, so that
closing one never takes another's).

Assumed: `saveConfig` is one step. `CursorStore` opens it, for processes that save
once for each read; what twins of the cursor document would do to overlapping runs of
this loop is not modelled.

## 6. Job documents: `JobStore`, `JobStoreProofs`

`saveJob` call by call: `findOneAndUpdate` with `upsert` on a field without a
unique index is a look-up (`Update` or `Miss`) and an `Insert`; `countDocuments`
follows; each may fail before or after its effect, and a process may die in
between. A scrape reads a field as a text, as a blank (the sites' `|| ''` where the page
has none) or as null or undefined. `clean` drops the last only, so a blank
is set over a text. A field of a document holds what was read and the number of the
scrape it was read by, so that "kept", "replaced" and "rolled back" can be told apart.

| run | question | bounds |
|---|---|---|
| `jobs_safety` | `TwinsNeedTwoSavers`, `AckedIsKept`; `SharedOnlyBy`: two advertisements share a document only when one site numbers them alike or neither site's ids have a prefix | two savers with one vietnamworks job in common, one job each of two sites with the same numbers, and a careerbuilder job with the number of the common one; three scrapes, one field that each reads in any of the three ways, two failures |
| `jobs_vlance` | violation: `OneAdvertPerDocument` for vlance, whose id expression drops the prefix and the md5 of the link | three vlance advertisements, no failure |

Three scrapes are enough for a document that is made twice and found by a
third; one field is enough, since no code looks at two. `AckedIsKept` says that what
`saveJob` returned true for stays as it is or becomes what a later scrape read, which
may be a blank but not a null, whatever failed meanwhile. There is no liveness
here: the savers do what they like.

Proved for any savers, advertisements and fields: `TypeCorrect`, `TwinsTakeTwo`,
`AckedStays`, `SharingTakesBareIds`. `FreshInv` (a saver about to insert has no
document of its own for that job) carries the first; `NewestInv` and `SavedInv` (for
a job of one saver, the scrape under way is the newest and its values are in the
document before it is acknowledged) the second, `IdInv` (a document's id is that of
each advertisement saved in it) the third, with `SiteAssumption`: no site's prefix is
empty. Assumed: a failed call has no later effect, and a saver's calls are sequential
(they are awaited).

## 7. The job list: `ListJob`, `FrontendProofs`

The reducer of `Modules/ListJob`, its two effects and the user's handlers. A
search is a text (keyword and address), a filter (time and job type) and a page;
the URL, the form and each request hold one.

| variable | code |
|---|---|
| `mounted`, `entries`, `here` | whether the list is displayed; the browser's history of list URLs |
| `form`, `jobs`, `pages`, `loading` | `state.form`, `.jobs`, `.totalPage`, `.isLoading` |
| `due` | effects of the last commit that React has not run yet |
| `asked`, `body` | requests under way; the headers have come and the timer is cleared |
| `acts`, `lost`, `unasked` | bounds, and the history that a search set no request going |

The order of events is React 16's (the version in `yarn.lock`): a handler's
dispatches are one commit; effects run later, but before the next event of the
user (`Act` asks for `due = NothingDue`); an answer comes outside React's
batching and may dispatch before them, and is then rendered together with what
they dispatch (`Answer` with `due.fetch`). A request has the phases of
`requestApi`: `Headers` ends its timer; `NoAnswer` is the abort by the timer, a
network failure, a status that is not ok or a body that is no JSON, all of which
reach the list as no jobs; `Answer` is the body, for which no timer runs any
more; `AnswerLost` is a conversion of it that throws.

Run `list_safety`: two texts, two filters, two pages, four acts, one lost answer.
Four acts are enough to search, page on, go back and change during loading; two
values suffice because the code only compares for equality. The run ends where
the acts are used up, so deadlock checking is off.

- `OneRequest`, `PageIsShown`, `AskedSearchIsShown`: answers are never out of
  order, the page number is that of the jobs, and the jobs are those of the URL,
  provided every search set a request going;
- `StuckOnlyIf`, `StuckUntilLeft`: how the list comes to load for ever, and that
  nothing but leaving it helps;
- `Settles`: when the user rests so does the list, though a late answer that sets
  the page back starts another request; or it waits for a body, for ever if it
  has to. Fairness: React runs effects; a request gets its headers, fails, or is
  aborted by its timer. Nothing makes a body come.

Proved for any texts, filters, pages and number of acts (`ListAssumption`: the
empty form is no text, there is a page): all state invariants above and both
`Stuck` properties. The invariant adds `AskInv` (an effect that will send a
request means isLoading is on and nothing is under way), `PageInv`, `FilterInv`
(the form's filter is the URL's) and `SearchInv`, which says for a list whose
searches all set requests going that effects are due only while the form is as
the search left it. `Settles` is only model-checked.

## 8. The scrapers' rules: `SiteRules`, `SiteRulesProofs`

`SiteCrawl` takes what a page shows as an input and knows one kind of listing.
`SiteRules` is the other half: what each of the nine site modules makes of a
page. Each has four operators, named for the site and the function:

| operator | code | says |
|---|---|---|
| `...Next` | `getNextPage` | what URL the pagination's entry behind the active one becomes |
| `...Keeps` | `getJobs` | which cards become jobs: most need a title and an id, topcv only an id, vlance a deadline |
| `...Detail` | `getJobDetail` | the fields read from a job's own page, none for an unknown layout, nothing at all where the page's code throws |
| `...Item` | `getJobInPage`, `scapeDetail` | the job that is saved, `{...job, ...jobDetail}`, or none |

An href is one of seven kinds: none, whole URL, path, path with `http` somewhere in
it, path without the leading slash, `#` (or a query alone), script. The
sites differ in what they do to it: most call `parseLink` (as it is if it has `http` in
it, else the origin before it), careerbuilder takes
it as it is, itviec puts the origin before it, timviecnhanh and vieclam24h build
the URL from a number. A URL that `goto` rejects does not load, nor at itviec one
without a list: `getJobInPage` waits there for `#jobs`, which a home page has not
(`ListShows`). Texts are either blank or not. The visit around them is a
task of one site; calls do not fail, because `SiteCrawl` has the failures, but for the
read of the cursor, which then starts the visit at the first page (`VisitUrls`).

| variable | code |
|---|---|
| `site`, `habit` | which scraper, and which kinds of links its site uses for pages |
| `cursor`, `docs` | `craws` and `jobs` documents (fields: absent, blank or text) |
| `url` | the URL of the visit under way |
| `pc`, `page`, `todo`, `next`, `items` | where `getJobInPage` is and its locals |
| `detail` | history: the job page looked at last |

Run `site_rules`: all nine sites, every kind of link and every two kinds between the
list pages, three list pages (a first, one between, a last), lists with one card that
is whole or lacks one part, or with a broken card before a whole one, and job
pages of each layout with any of the three fields. A second card is enough for
one that blocks another; fields do not depend on each other, and a card that
lacks two parts is dropped by what drops it for one.

- `StrandedOnlyBy`: which kinds of links leave a cursor that does not load, site by
  site: any but a whole URL at careerbuilder; a whole URL, a path without its slash, a
  script and `#` at itviec; at the sites with `parseLink` a script, a path with `http`
  in it or without its slash; none at the two that use numbers (timviecnhanh stores
  `page=NaN` but that URL loads). Such a cursor stays until a read of it fails: only
  a visit of the first page moves it (`StrandedStays`);
- `WholeCardsVisited`: no card with all its parts is passed over;
- `OverlaidOnlyBy`: what a job's page takes away of what its card showed. Five
  sites lay a blank over the card's locations, vlance over its company; an
  unknown layout takes away nothing.

Proved for any cards, job pages, kinds of links and number of list pages:
`TypeCorrect`, `Strands`, `StrandedUntilReset`, `CardsVisited`, and `GivenUp`: what
makes a visit stop, and so blocks its list page, is a link that is no URL for that
site, or a layout at itviec and topcv, where the code reads behind the last element.
The invariant adds `LoopLoads` (a visit under way is of a URL that loads, the cursor
or the first), `NextStrandsBy` (`StrandedOnlyBy` for the link already read and not
yet stored) and `KeptVisited` (each card the site keeps is still to do or among the
items). `CardsOverlaid` is `OverlaidOnlyBy`, site by site, from the layout of the job
page looked at last.

Assumed: a site's links are its own, so a whole URL or a path in its pagination is one
of its list pages and shows a list, and its home page has no `#jobs`.

Left out of these functions: the other fields (they are read and merged in the same
way), dates (see `PostingDates`) and salaries, and the selectors themselves.
careerbuilder reads its categories with the salary's key and topcv tests `if (index
&& ...)` against an index of -1; both spoil a field that no property here follows.

## 9. The job search: `JobSearch`, `JobSearchProofs`

`JobsController::query`, and the visitor of the list who asks for one page after
another. What the filters do is the set of jobs they match, which a save changes
and, for a search of the last days, the time of the next request.

| variable | code |
|---|---|
| `date` | `onlineDate` of each job that matches, by which the list asks to sort, or that it has none, or that the job does not match |
| `pc`, `page`, `total`, `items`, `answer` | the request: `count()`, the count and the fetch inside `paginate`, `injectExternalJobs`; its `meta.total`, page and data |
| `shown`, `touched`, `tied`, `lowered`, `late`, `left` | history of the pass: how often each job was shown, what was written meanwhile and how; of the request: whether a job was written, or ceased to match, since its count |

The order of jobs with the same date, or with none, is chosen anew at each
request: MongoDB promises none, and `orderBy` names no second key. Crawlers add
jobs, change dates and rewrite what a filter looks at (`SaveJob`) between any two of
the request's reads; they delete none. A job grows too old (`Age`) only between
requests, because `appendXDay` takes the time once for each.
A request whose external call throws is asked again.

Run `job_search`: four jobs on pages of two, dates of three days or none, any
collection to begin with, two changes and one failed external call. Two pages are
the least for a job to move between, a write to the first while the visitor is
on the second; the third day lets a job come between two others. The jobs' names
are compared with nothing, so they are symmetric.

- `QuietPassShowsOnce`: without writes each job with a date of its own is on
  exactly one page; jobs with a common date, or none, may be on two or on no page
  at all (that is what the exception `tied` stands for, and the property fails
  without it);
- `SkippedOnlyIf`: otherwise a job can be missed only if a date went down, a job
  ceased to match (in a search of the last days this takes no crawler), or the
  last request's total is older than its page;
- `PromisedPageHasJobs`: no page that the total promises is empty, unless a job was
  rewritten in that moment so that it ceased to match;
- `OwnJobsKept`: the injected jobs, and the stubs injected where the other site
  has too few, leave the page's own jobs complete and in order.

Proved for any jobs, dates, page size and bounds: `TypeCorrect`, `QuietPass`,
`SkippedOnlyThen`, `PromiseKept` and `KeptInOrder`. The argument of the first two
properties is about ranks: a job that shares its date with none has one
place in every order the database may answer in, one behind the number of jobs of
later dates (`PlaceIsRank`), so the page that shows it depends only on that number.
The inductive invariant is

- `CountInv`: what the last count still says of the collection, while nobody wrote,
  or no job ceased to match, since;
- `PromiseInv` and `TiedInv`: a promised page read has jobs; `tied` has every job
  that shares its date now;
- `SkipInv`: a job nobody wrote was shown, or its rank is still ahead of the pass,
  while no other job left the places before it (`RankGrows`: a date that goes up, or
  a job that is added, can only push it back);
- `QuietInv`: as long as nobody wrote, the pages so far showed exactly what ranks
  on them.

`KeptInOrder` is about what `FlattenSeq` returns, which the library defines by
recursion over the page. No induction theorem that the provers can use
speaks of it, so the proof goes by the first place (`Least`) at which the recursion
would have no value, or one without the page's jobs so far at increasing places
(`Laid`). `OwnJobsKept` states the order by such places too, rather than by
`SelectSeq`, whose definition the provers do not open. Assumed
(`SearchAssumption`): finitely many jobs, and no document is an entry of the other
site or a stub.

Left out: `detail` and `TraitCVProTop`, which only read,
and the text of the filters.

## 10. The cursor documents: `CursorCell`, `CursorStore`, `CursorStoreProofs`

`saveConfig` looks for the site's document and then updates it or creates one, and
nothing makes the name unique. Processes that share a site (two job1, or job1 and the
command line `craw.ts`) know nothing of each other. Each of their crawls reads the
cursor once, crawls that page and saves once. Runs of vietnamworks are not among
them: they read once and save at every turn of a loop, so that one of them stores
cursors past pages it did not load (`StartDecidesPages` in section 5). `CursorStore`
has the calls one by one; `CursorCell` is the promise: one cell, read in a step and
written in a step.

| variable | code |
|---|---|
| `docs` | the site's `craws` documents, the oldest first: `findOne` without a sort gives that one |
| `pc`, `at`, `record` | where each process is; its page; the document `saveConfig` found |
| `covered` | history: pages somebody crawled to the end |

Run `cursor_store`: three processes, three list pages, three failures anywhere (a
read that looks like no cursor, a page left half way, a refused or lost write, a
crash, an await that hangs). Three processes make two twins beside the cell; three
pages let a stale save move the cursor back, forward and round; three failures let
all processes hang, or two while the third one fails. With all of them hung nothing
more happens, so deadlock checking is off.

- `ImplementsCell`: the refinement. The cell is the oldest document. The point
  where a save takes effect is its write, except for twins: a process that found
  nothing and is overtaken by another's create counts as having written just
  before it, at the moment of that create. That is why `CursorCell` lets several
  writes take effect together;
- `CoveredBehindCursor`: no document, twins included, stands behind a page that
  nobody has crawled, however stale the save of such a crawl;
- `TwinsPerProcess`: there are at most as many documents as processes;
- `EveryPageAgain`: sharing starves no page, although stale saves may throw the
  cursor about for ever, unless in the end every process hangs; one that goes on is
  enough. Fairness: each process is started again, and goes on unless it hangs.
  A process that hangs is not required to be killed.

Proved for any processes, pages and failures: `TypeCorrect`, `CursorsAreCovered`,
`TwinsAreBounded` and `OneCell`, the refinement, step by step. The invariant adds
`RecordInv` (a found document exists), `CoverInv` (a process on its way to a save
has its own page and those before it covered) and `TwinsInv`, which counts the
processes about to create towards the documents. `EveryPageAgain` is only
model-checked.

Assumed: a saved document stays where `findOne` finds it (documents that are never
deleted come back in the order they were stored).

## 11. The dates of jobs: `PostingDates`, `JobStoreProofs`

Sites show how long ago a job was posted in words; `convertTimeAgoToDate` makes a
date of them. It does so by the clock of the moment at which the job is saved,
while the words were read with the list page. The visitor's list is sorted by the
result, and nothing but a later scrape corrects it.

| variable | code |
|---|---|
| `clock`, `posted` | now; when the job was really posted |
| `reading` | the words of the list page, and when they were read |
| `date` | the stored `onlineDate` |
| `saved` | history: the last save, from which words and when |

A text is the set of the words that the code tests for, the number of its parts and
up to two numbers; `Shown` is every form the code knows: counts in any unit, in
words, short ones (`3d`), pairs, the day in words with or without a time, and a whole
date. The rules are sequences of condition and date, in the order of the code, and
`First` takes the first that fits. "Hôm kia, 21:54" is taken as the code takes it:
the replacement looks for "Hôm nay", and moment, which is not strict there, reads the
hour as a day and the minute as a month.

Run `posting_dates`: hours of three minutes, days of two hours, two of every unit
to the next, numbers of two digits up to 9. Every unit then has a proper fraction,
the opening is more than a year after the first day, and seven ticks pass a
midnight; a real calendar adds nothing but longer spans. Months and years are of
fixed length here, where moment clips the 31st to a shorter month.

- `AgesAreNeverOlder`: an age in words makes a job newer by the time it waited and
  by less than one unit more, never older; the forms that are misread (`16 giờ 59
  phút`, `một tháng`, `một năm`) make it newer still;
- `ClockTimesFollowTheDay`: a time of the day is put on the day of the save, so a
  midnight between makes it late by a day, which, with the day before yesterday,
  is the only way to a date in the future;
- `UndatedOnlyBy`: the forms that give no date at all.

Proved, in the second part of `JobStoreProofs`, for any opening, any numbers and any
lengths of hours, days, weeks, months and years (`CalendarAssumption`: each longer
than the one before, and a multiple of an hour, a day, a day and a month):
`AgesNeverOlder`, `TimesFollowTheDay` and `UndatedOnly`, the three properties. First
comes which rule takes each form of words (`FirstFits`, `NoneFits` and a lemma for
each list of rules say what it takes for a rule to be the one); from that, that each
form is `Faithful`: read at one moment and turned into a date at a later one, an age
gives the true date plus the wait between and less than one unit, a time of the day
the true date plus the midnights between. Then the
invariant: the words on the list page were true when they were read (`ReadingInv`),
and what is stored is what those words became at the moment of the save
(`StoredInv`). The properties follow.

Left out: `convertExpireDate` and salaries, which take a text to a value and touch
no state.

## 12. Recent searches: `Recents`, `FrontendProofs`

The home page and the job list keep the last searches in the browser's local
storage. A component reads the item when it is mounted and works on its copy;
each change overwrites the whole item.

| variable | code |
|---|---|
| `stored` | the item in local storage |
| `display`, `copy` | what each tab displays; `storedValue` of its `useLocalStorage` |
| `failed` | writes that found the storage full |
| `made`, `behind`, `stale` | history: the list as one tab would have made it; tabs whose copy is overtaken; whether such a tab has written |

Run `recents`: two tabs, four searches (one more than is kept), one write that
fails, any number of user actions; tabs and searches are symmetric.
`ThreeDifferent`: storage and copies are at most three searches, each once,
although no tab looks at what it overwrites. `OneListUntilStale`: the storage is the
one list all tabs think it is until an overtaken tab writes or a write fails;
after that searches vanish, and deleted ones come back.

Proved for any tabs, searches and failures: `RecentsTypeCorrect`,
`ThreeDifferentSearches`, `OneListUntilThen`. The invariant adds `FineInv` (the same
for the history list) and `CopyInv` (a tab not overtaken holds what is stored).

## 13. What is not modelled, and what is only model-checked

- Salaries, deadlines and the CSS selectors of the site modules.
- `pageInfinite` with `topdev.ts` and `yBox.ts`, `VietNamWorkWithPage`,
  `use-totalJob.js` and `FilterQueryBuilder::buildQuery`: nothing calls them.
- `server.ts`, `JobsController::detail` and `TraitCVProTop`: they only read.
- Multi-tenancy: no route uses `TenantMiddleware` and the observers are registered
  nowhere, so no row ever gets a website. Authentication: each handler is one call
  of the framework, and the middleware's alias `jwt.verify` is commented out.
  Roles: a look-up and an insert that a unique index guards. Teams and accounts:
  the framework's published actions, unchanged.
- The forms of the frontend: reducers with one user and no other actor.
- Deployment. Most of the repository's lines are not the program's: the
  vendored puppeteer, nginx modules and compiled `public/js/app.js` outnumber
  its own code many times.
- Limits of the host (memory, descriptors): the models count what is left behind
  where the code leaves it (tabs, writers, Chromium processes), not when it is too
  much.
- The cursor document of vietnamworks call by call (section 10).
- TLAPS does not reach liveness. What only TLC checks is therefore `RunEnds`,
  `AllBeforePoisonStored`, `CallsReturn`, `EveryPageStored`, `StuckAtBad`, `Settles`,
  `EveryPageAgain`, and the violation below.

One finding comes out of a violation run: the vlance id (`jobs_vlance`).
`PROJECT.json` quotes the lines.
