# gl-psrr in TLA+

gl-psrr (`src/`) is a Go command that turns category pages or a list of URLs
into leads: it scrapes each page, flags leads from CIS countries, validates the
Telegram handles, stores the leads in SQLite and exports a file. These modules
model its concurrent and stateful parts. TLC checks them on small instances,
and TLAPS proves the main results for every value of the constants.

    tlc -workers 2 -config Pipeline.cfg MCPipeline      # a run
    tlapm PipelineProofs.tla                            # a proof

`PROJECT.json` lists the runs, the mutants that show each property can fail, the
source lines each definition stands for, the hazards and the theorems.

## 1. The system

| component | source | state | operations | modelled by |
|---|---|---|---|---|
| pipeline manager | `internal/pipeline/manager.go` | three channels, the pool, the leads and errors collected | `Run`, `processTarget` | `Pipeline`, `TargetLedger` |
| Telegram lookup cache | same, `validateTelegram` | `tgCache`, `tgFlight` | `validateTelegram` | `TelegramCache`, `TelegramLookups` |
| deduplicator | `internal/filter/deduplicator.go` | `seen` | `IsDuplicate` (`Reset` has no caller) | `Pipeline` |
| Telegram client | `internal/validator/telegram/client.go` | `rawAPI`, `done`, `cancel`, the goroutine around `client.Run` | `Start`, `ValidateUsername`, `Close` | `TelegramClient`, `TelegramLookups` |
| rate limiter | `.../rate_limiter.go` | `next` | `Wait`, `HandleFloodWait` (`Backoff` has no caller) | `RateLimiter`, `TelegramClient` |
| login and session | `.../auth.go`, `session.go` | the session file | `EnsureAuthenticated`, prompts | `TelegramClient` (in part) |
| lead store | `internal/storage/sqlite.go` | the table `leads` | `SaveLead`, `GetLeads`, `ExistingSourceURLs` | `LeadStore` |
| application | `cmd/app/main.go` | the context, the output file | `run` | `Application` |
| exporters | `internal/exporter/` | the output file | `Export`, `ExportFromDB` | `Application` |
| category crawlers | `internal/scraper/*_category.go` | `discovered`, `categorySeen`, `ordered` | `DiscoverCardURLs`, `DiscoverOfferVaultNetworks` (not called by `cmd/app`) | `CategoryCrawler`, `UniqueLists` |
| MX validator | `internal/validator/email/mx.go`, `validateEmails` | `cache` | `ValidateEmailDomain` | `MXValidator` |
| page scrapers, extractor | `internal/scraper/` | none between pages | `Factory.Scrape`, three `Scrape`s, `ExtractContacts` | `PageScraper`, `UniqueLists` |
| CIS filter | `internal/filter/cis.go` | none | `IsCIS` | `PageScraper`; "a reason iff true" in `LeadStore` |
| tgcheck | `cmd/tgcheck/main.go` | the context | `run` | `TelegramClient`, `TelegramLookups` |
| configuration | `internal/config/config.go` | | | see section 7 |

How they interact. `run` collects the source URLs (crawler or file), opens the
store, starts and authenticates the Telegram client, and calls `Manager.Run`.
`Run` starts a pool of goroutines that share the closed channel of jobs, the
deduplicator, the cache with its singleflight group, the client with its
limiter, and the store. Each worker sends leads to a bounded channel and errors
to a channel with room for every job; one goroutine closes both when the pool is
done; `Run` drains first the leads, then the errors. When it returns, an
exporter writes the leads in memory (CSV, JSON) or all rows of the store (XLSX).
One context, cancelled by SIGINT or SIGTERM, ends all of it. Rows, the session
file and the output file outlive the process; nothing else does.

What is hard here: the cache check outside the flight; errors sent outside a
`select`; leads saved before they are handed over; a `Start` that times out and
leaves its goroutine running; `FLOOD_WAIT` retries without a bound; a limiter
that computes under a lock and sleeps outside it; an upsert that keeps or
replaces each column on its own; an export that may be interrupted in the
middle; a crawl whose end the site decides; a DNS cache that is written by
whoever answers last, and a pass that an interrupt hands out; verdicts that stay
cached when the connection they rest on has changed; a verdict on a page that is
older than the handles it rests on. `PROJECT.json` lists each as a
hazard at its line, with the properties aimed at it.

## 2. The modules

    TelegramCache --extended by--> Pipeline --implements--> TargetLedger
    TelegramCache, TelegramClient --extended by--> TelegramLookups
    LeadStore --extended by--> Application
    UniqueLists --extended by--> CategoryCrawler, PageScraper
    RateLimiter      MXValidator

Proofs are kept apart from the models. Each of these extends what it proves about:

    TelegramCacheProofs --> PipelineProofs, TelegramLookupsProofs
    UniqueListsProofs   --> CategoryCrawlerProofs, PageScraperProofs
    ValidatorProofs (MXValidator, RateLimiter)      ApplicationProofs

- **TelegramCache**: `validateTelegram`. The read of the cache (under `tgMu`),
  the entry into the flight (under the group's mutex), the validator's answer
  with the write to the cache, and the release of the waiters are steps of their
  own. A handle stands for its normalised key. The validator gives any verdict,
  or fails once the context is done, which is when `ValidateUsername` returns an
  error. `verdicts` and `fills` are history. A nil result without an error,
  which no validator here gives, is left out.
- **Pipeline**: `Run` and `processTarget` as `cmd/app` wires them. `pc[w]`
  follows a worker through its loop; the handle lookups are the actions of
  `TelegramCache`, on the same variables. A job is its position in the source
  list; channels and slices are sets of jobs, because no property depends on
  their order. `select` is nondeterministic where both cases are ready
  (`EmitLead`, `DropLead`). A save that returns an error has stored nothing.
- **TargetLedger**: what `Run` promises, without goroutines, channels or
  network: each target ends in one column (lead, failed, repeated, skipped,
  dropped), a key is owned by one target, at most as many targets are lost to an
  interrupt as there are workers, and the error is the one the columns call for.
- **TelegramClient**: the goroutine around `client.Run` (`runner`), the
  program's own goroutine (`main`) through `Start`, `EnsureAuthenticated`,
  pipeline and `Close`, and the workers inside `ValidateUsername` (`step`). A
  reply is the status and what it rests on. `c.mu` is not a variable: each
  critical section is one step. `client.Run` and Telegram are external: the
  connection may fail or end at any time, and any call may be answered with
  `FLOOD_WAIT` any number of times. `program` says which command runs: `cmd/app`
  goes on when `Start` fails, `cmd/tgcheck` returns, asks for one name after the
  other, and does not look at the context between them.
- **TelegramLookups**: the cache over the client. The leader's call in
  `TelegramCache` is a `ValidateUsername` of `TelegramClient`, step by step,
  with the joiners waiting behind it; a reply that is an error is not cached,
  any other is. The contexts of the two are one. Both modules' variables are
  used as they are, so their theorems carry over.
- **RateLimiter**: `NewRateLimiter`'s correction of the bounds and `Wait`. Time
  is integer ticks; a timer may fire late. `HandleFloodWait` does not touch the
  limiter and is part of `TelegramClient`.
- **LeadStore**: rows by URL and `SaveLead`'s upsert, column by column: text,
  handles, the usernames of `tg_validation_status` by acceptance, `is_cis`,
  `cis_reason`, `mx_valid`. One text column stands for the five that behave
  alike, `emails` among them.
- **Application**: several launches over one store and one output file. The
  pipeline is reduced to what it does to the store and the result (save, then
  collect or drop). Each exporter keeps its own order of looking at the context,
  creating and completing the file. `Kill` ends the process between any steps.
- **CategoryCrawler**: the page loop of both crawlers (`crawler` says which) over
  any site whose categories have given pages and then serve empty pages or the
  last one for ever. A link is its host, the segments of its path, what
  follows them, and its form (scheme, port, slash at the end), which stays with a
  card; `IsCard`, `IsNetwork` and `Cleaned` are the two functions that clean it.
  `CrawlComplete` and `CardsInOrder` compare the loop with a definition of the
  result that has no loop. Two notions of "the same link" meet here: within a page
  `appendUnique` keeps the first spelling only, between pages the maps tell
  spellings apart. `CardsOn` says the former without `AppendUnique`, so that a
  change to it shows.
- **MXValidator**: `validateEmails` of several workers over the shared cache of
  domains, and the `SaveLead` behind it. The read of the cache, the look-up and
  the store are steps of their own, as they are under locks of their own. The
  resolver is external: records, none, an error, or no answer before the
  look-up's time is up or the context is done. The last two are one case in the
  code and two in the history `answers`, which the properties compare the stored
  marks with.
- **PageScraper**: one source URL through the factory, a scraper, the filter and
  the removal of rejected handles. A page is data: headings, rows, blocks with
  their depth, tokens. A token is what an expression of the extractor matches;
  case, noise and repetitions are dealt with as the code does. `ParseDocument`
  and `CompleteLead` are the affpaying and OfferVault readers at once, with what
  differs as a case on `engine`. The name of a block (`ManagerName`) is the
  first element of the first of six selectors whose first element is not blank,
  inner blocks included, or else what stands before the first colon of the whole
  text; a block's own elements are taken to come ahead of its inner blocks. All
  contacts of a block go to the first name inside it, so a wrapper around two
  managers gives those of both to the first: that is what the code does, and
  `ProfileMatchesPage` states it so. `ManagerName` is on both sides of that
  property, which is about the merging of the names, not about how a single
  block is named.

Each `MC*` module gives the constants their values. Operators that open with "a
careless variant" are not part of any specification: each changes one
definition the way a plausible slip would, and is there to show that the
property named with it in `PROJECT.json` notices.

## 3. The runs

| run | instance | result |
|---|---|---|
| `telegram_cache` | 3 workers, 2 handles, 2 verdicts | holds |
| `telegram_validated_once` | same | **violated**, finding 1 |
| `pipeline` | 2 workers, sources `a b a c`, pages with 1 or 2 of 2 handles | holds, 1.4 million states |
| `pipeline_live` | 2 workers, sources `a b a`, pages with 0 or 1 handle | holds |
| `telegram_client` | 2 workers, 2 handles, 1 look-up or call each, both programs | holds, 74 thousand states |
| `telegram_client_timeout` | same | **violated**, finding 2 |
| `rate_limiter` | 3 workers, delays 2..4, 7 ticks | holds |
| `application` | 2 URLs, 4 kinds of lead with 2 handles, 2 launches | holds, 377 thousand states |
| `category_crawler` | 3 categories, one of them given twice, every site of 1 or 2 of 4 pages a category, listings of networks of 1 or 2 of 5; with links in two spellings and forms, without a path, without a name | holds, 24 thousand states |
| `category_crawler_pages` | a page of old cards before a page with a new one | **violated**, finding 3 |
| `mx_validator` | 2 workers, 2 domains, lists of up to 2 addresses | holds, 504 thousand states |
| `page_scraper` | 5 URLs, one host with a dot at its end; every pair of 33 blocks, side by side, nested or wrapped; every choice of headings, rows, texts and meta tags | holds, 67 thousand states |

Why the bounds are enough to be interesting. Three workers on a handle are a
leader, a joiner and one that overtakes. Two workers with four jobs, one of
them a repetition, fill the results channel (its capacity is the pool's size)
and give more errors than workers, so a smaller error channel would block. Two
handles that pages share let a worker find a verdict another obtained. Two
launches are a row written and a row updated; four kinds of lead make every
column go from set to empty and back. One look-up for each of two workers lets
one begin on each side of a connect, an end and an interrupt, and one join the
other's flight. With a smallest delay of 2, seven
ticks hold three reservations in a row. Two pages a category are enough to
repeat a page, end on an empty one and share cards between categories; a third
category is the first again. Two workers and two domains give overlapping
look-ups of one domain with different answers, and a first address that fails
before a second that passes. Two blocks, with a wrapper or one inside the other,
merge names in either order of spelling, place and role. Two handles let a page
accept a new one while it rejects the old.

Symmetry is used for workers (and handles) in safety runs only.
`CHECK_DEADLOCK FALSE` is set where the system really stops: after the last
launch, after a crawl and after a page. `Pipeline` and `TelegramClient` have an explicit
stutter at their end instead, so that any other stop is reported as a deadlock.

Properties in words:

- `SingleFlight`, `FillsBounded`, `ReplyIsForHandle`: one call at a time per
  handle, at most one verdict per worker and handle, never the verdict of
  another handle.
- `ErrorsNeverBlock`, `ScrapedOnce`, `ReturnAccountsForAll`,
  `StoreMatchesReport`, `RowHandlesJudged`, `NoWorkAfterReturn`: a failing
  worker always finds room; a key is scraped once; without an interrupt every
  key has its lead or its error; reported leads are saved and saved ones
  reported or dropped by an interrupt; handles in rows follow from verdicts for
  those handles; nothing of the pool outlives `Run`.
- `RunReturns`, `KeepsLedger`: `Run` returns; `Pipeline` implements
  `TargetLedger`.
- `SkippedOnlyAfterEnd`, `AsksAuthorised`, `CachedSkipIsFinal`, `CloseReturns`,
  `InterruptEndsProgram`: a started client skips a handle, and caches the skip,
  only after its connection has ended for good; it asks on an authorised session
  only, and so does `tgcheck`; `Close` and an interrupt end everything, workers
  that wait behind a flight in `FLOOD_WAIT` included.
- `WaitWithinRange`, `DueInOrder`: delays do not add up, and keep their order.
- `RowHandlesAccepted`, `MarkedRowsHaveReason`, `MarkIsOfText`,
  `LeadsMatchRows`, `RowsSurvive`, `SuccessExportsAll`, `FailureKeepsFile`: what
  may be read back from the store and the file, after updates, interrupts and
  deaths of the process. `RowHandlesAccepted`: a row whose statuses accept handles
  shows just these; a row whose statuses accept none may keep older handles that
  they now reject, which is what the upsert does and no doc rules out.
  `FailureKeepsFile` is about JSON and XLSX: a CSV file is truncated before the
  context is looked at, and for it `SuccessExportsAll` says that what is cut off
  is never reported as a success. `MarkIsOfText`: a row's MX mark is of the addresses it
  shows, although a page without addresses leaves the old ones in place.
- `CrawlComplete`, `CardsInOrder`, `CrawlEnds`: what a crawl returns, each card
  once and at its first category, and that it ends.
- `SavedMarksHaveGrounds`, `VerdictsSettle`: a stored mark rests on the
  resolver's answers or silence and never on an interrupt; a domain's verdict is
  open only while its first look-ups overlap.
- `ProfileMatchesPage`, `FlagFollowsPage`: the managers and fields of a profile,
  told without the loops that gather them; the CIS flag follows from the page,
  whatever handles the lead has lost since, and names its evidence.

## 4. Fairness

Go runs every goroutine that can run, hence weak fairness for each worker, the
closing goroutine and `Run`. Scrapers set a request timeout, look-ups of MX
records have one, and the database is local, so a worker's step always comes to
an end. In `PipelineFairSpec` a Telegram call comes back, which leaves out an
endless series of `FLOOD_WAIT`. In `LookupsFairSpec` that series is allowed:
a worker keeps taking steps, but `ValidateUsername` need not return while the
program is not interrupted, and the properties do not ask for it. There `client.Run` is only sure to return
once its context is done, and nobody is sure to answer the login prompt, which
ignores the context: this is why `InterruptEndsProgram` excepts it, and shows that
an interrupted program can stay nowhere else. No
environment action (interrupt, connect, login, answers) is fair by itself. The crawler is
one goroutine whose requests have a timeout.

## 5. What is proved

Every invariant that a passing run checks is a theorem, and so are the action
properties `VerdictsSettle`, `NoWorkAfterReturn` and `RowsSurvive` and the
refinement `KeepsLedger`. They hold for any pool, handles, sources, pages, sites,
leads, launches, domains and delays that satisfy the assumptions:

- markers such as `NoWorker` are not members, `Statuses` is part of `TGStatus`,
  `Sources` and the contact lists are sequences, the pool is finite and not empty
  (`newManager` makes it at least 1), the URLs of a launch are finite, a lead's
  mark stands on addresses it has (`LeadsAssumption`), and the delays are integers
  not both 0 (for which `NewRateLimiter` has defaults of its own);
- a text in lower case stays as it is (`LowerCaseAssumption`), and the empty text
  alone is empty in lower case (`BlankAssumption`), as of `strings.ToLower`;
- a listing has at least one page, each a list of links (`ListingsAssumption`),
  and the categories are a list (`CategoriesAssumption`);
- a page is headings, rows and blocks as `HTMLPage` has them, and its text
  contains the tokens of its attributes and meta tags, because the text is
  `document.Html()` (`PagesAssumption`); every name has a list of tokens in it
  (`TokensInAssumption`).

Loops over data. What a loop has built for every list is an induction, and the
library states induction over a predicate, which the provers cannot instantiate.
So the loops of `UniqueLists`, `CategoryCrawler` and `PageScraper` are functions
from the number of turns to what they have built, and `UniqueListsProofs` derives
from the well-foundedness of `<` two facts about sets instead: a set of naturals
has a least element (`LeastNatural`), and a set with 0 that goes on to successors
has all numbers up to `n` (`Climb`). `LoopExists` shows with them that the equation
of a loop has a solution (without it `CHOOSE` says nothing of the loop at all), and
each loop lemma takes for its set the turns after which what it states is true.

- **TelegramCacheProofs**: type correctness, `SingleFlight`, `FillsBounded`,
  `ReplyIsForHandle`. None but the types is inductive. A worker that filled a
  handle left it cached (`FilledIsCached`), so a worker past a cache miss has not
  filled it yet (`MissedIsUnfilled`); this stays true because nothing ever
  leaves the cache. Replies are right because a cached verdict is one of the
  handle's own (`CachedIsVerdict`).
- **PipelineProofs**: a pipeline behaviour is a cache behaviour
  (`PipelineKeepsCache`), so `CacheInv` carries over. `PoolInv` says that a busy
  worker has a received job which no one else has and which is not settled;
  a job that is failing is therefore not in `jobErrors`, so that channel holds
  fewer jobs than it has room for (`ErrorsNeverBlock`). `KeysInv` ties recorded
  keys to the jobs that own them (`ScrapedOnce`). `LeadInv` follows each handle
  of the lead in hand: kept on an accepting verdict, dropped on a rejecting one,
  or still to come (`RowHandlesJudged`).
  In its second part, `ShutdownInv` orders the end of a run; `AccountInv` says
  that each received job is settled in one column or in hand; `Reported` relates
  columns and rows. From them `NoWorkAfterReturn`, `StoreMatchesReport` and
  `ReturnAccountsForAll`.
  Its third part is the refinement, `PipelineSpec => KeepsLedger`. One lemma per
  kind of step shows which move of the ledger it is, or that no column changes.
  The bound on lost targets needs `LostBounded`: each lost job has a worker that
  has ended.
- **TelegramLookupsProofs**: first the client alone: type correctness,
  `EndedHoldsNoAPI`, `SkippedOnlyAfterEnd`, `AsksAuthorised`, from what the API
  has to do with the goroutine's phase (`APIFollowsRunner`), what a successful
  `Start` implies (`StartMeansReady`) and when workers can be in a call
  (`CallsWhileWorking`). Then a behaviour of the lookups is a behaviour of the
  client (`LookupsKeepClient`) and of the cache (`LookupsKeepCache`), so that the
  invariants of both carry over. `CachedSkipIsFinal` then needs only that an
  ended goroutine stays ended and that a started client's SKIPPED reply implies
  the end.
- **ValidatorProofs**: of the MX validator, type correctness,
  `SavedMarksHaveGrounds`, `VerdictsSettle`. The invariant says what a cached
  verdict rests on, what a worker's verdict rests on in each step, and that every
  address a worker has passed by was refused. An interrupt's pass is harmless
  because whoever holds one is in a launch that is interrupted, and `SaveLead`
  refuses such a context. Of the limiter, type correctness, `WaitWithinRange`,
  `DueInOrder`: `next` is at or beyond every deadline in use and at most the
  maximum delay ahead of the clock.
- **ApplicationProofs**: type correctness of `LeadStore` under `Application`,
  and all seven properties. The invariant relates pending, emitting and
  collected URLs (a URL taken is not pending), collected leads and rows, and the
  snapshot, the file and the phase.
- **CategoryCrawlerProofs**: type correctness, `CrawlComplete`, `CardsInOrder`,
  and that the page past the last ends a category on every site
  (`OnePageTooMany`), so the bound of `NextPage` never takes effect.
  `FreshSitesAreCompleted` is the other side of finding 3: where every page shows
  something new, all of them are completed. Neither `CrawlComplete`
  nor `CardsInOrder` is inductive, since both speak of the whole crawl. `PageInTurn` says
  that no page of the category at hand was stale so far and that `categorySeen`
  is what those pages show; `AllDiscovered`, that `discovered` is the cards of
  the finished categories and of those pages, and `ordered` what the store has
  not of it; `CardsInTurn` is the order at every step. `ReadIsFirstStale` finds a
  stale page, the one after the last if not before; `LinksUnique` (the links
  of a page are `CardsOn`) and `WithFreshExtends` say what the two loops of a page
  yield.
- **PageScraperProofs**: type correctness, `ProfileMatchesPage`,
  `FlagFollowsPage`. `ReadInv` ties the lead to the page it was read from until it
  is completed; the weight is in the parsing. `MatchesAreShown`, `AttributesAre`,
  `MetadataRead` and `ManagersRead` say what the loops over tokens, blocks, pairs
  and managers have gathered after each turn: after `i` blocks there is one
  manager for every name met, with what the blocks of that name show
  (`ReadSoFar`). `FoldedCount` turns "each once, however it is spelled" into the
  length of a list. `ProfileOfPage` and `VerdictOfPage` draw the two properties
  from them.

TLC checks the inductive invariants too, on the instances of section 3. The proofs
corrected the models in three places: the evidence in `FlagFollowsPage` let a
company's name count because an e-mail address is spelled like it, which `checkName` never compares; `NoLead` was a constant that
could have been a lead; and an empty page was not told from no page.

Only model-checked: the liveness properties `RunReturns`, `CloseReturns`,
`InterruptEndsProgram` and `CrawlEnds`, which rest on fairness and `ENABLED` and
are out of the prover's reach; and, on the three instances of section 6, that the
documentation's claims fail.

## 6. Findings

Places where the code does something else than its documentation, tests or
messages say; each has a run that shows it.

1. **A handle may be validated more than once** (`manager.go:251`). The test at
   `manager_test.go:71` wants one call for a shared handle; the cache is read
   before the flight is entered, so two workers can each make one.
2. **A client that did not start may still give verdicts** (`client.go:90`).
   `main.go:86` announces SKIPPED results; after the 15 second timeout the
   goroutine may connect, and unauthenticated calls make handles INVALID.
3. **A page of known cards ends a category** (`affpaying_category.go:59`), where
   `README.md:82` speaks of all available pages.

Two observations without a run. `RateLimiter.Wait` takes the larger of the time
reserved and the pacing drawn, not their sum (`rate_limiter.go:37-41`), so
workers that wait together are released together: the limiter delays calls, it
does not space them. And the last line of the log counts the leads of this launch
while an XLSX file holds every row of the store (`main.go:108-116`), which is why
`SuccessExportsAll` compares the two for CSV and JSON only.

## 7. Not modelled, and why

- The patterns: of `IsCIS` (`checkName`), of the extractor, cell formatting,
  `normalizeUsername`, how a relative URL is resolved. They are text matching
  whose cases unit tests reach; the models use only what they yield (a set of
  names, a token, an empty or non-empty handle, the segments of a path).
- LinkedIn, Twitter and Discord contacts: gathered like Skype names, with
  patterns of their own, and used nowhere but in the row.
- The statistics and the summary (atomic counters no decision reads).
- Flags, environment, `readLines` and `readTargets`: straight-line input, whose
  failure is an early end in `Application` and `TelegramClient`.
- `internal/config` (no command uses it), `Reset` and `Backoff` (no caller), the
  disabled `telegram.Client` (a constant answer).
- Paths of `processTarget` for a nil validator, store or deduplicator:
  `cmd/app` always sets all three.
- Loss of data inside SQLite or the file system, and a write to the output file
  that fails midway (a full disk): `FailureKeepsFile` is about the context.

## 8. Plan

Done, in this order: the cache, the pipeline with its ledger and proofs, the
client, the limiter, store and application, the crawlers; then the MX validator,
the mark in the store, `tgcheck`, the cache over the client, the page scrapers
with the extractor and the CIS cascade, the proofs about launches, marks and
lookups, and those about the loops of crawlers and page scrapers.

What would come next:

1. The limiter inside `TelegramLookups`, with integer time: how long a pool may
   be held up by one worker's pause. The product of the two state spaces needs
   bounds that no longer show a reservation behind a reservation.
2. An abstract store (URL to lead) that `LeadStore` implements for the columns
   that merge.
3. `checkName` and `normalizeUsername` as operators over short words, checked
   against reference definitions.
