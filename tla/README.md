# euro2-core: verification project

TLA+ models of euro2-core, checked with TLC and, where a statement should hold for every
size of the system, proved with TLAPS. Paths below are relative to the repository; `E/`
stands for `src/euro2core/`. Every definition that models code is mapped to its lines in
`PROJECT.json` (`map`).

Contents: 1. the system · 2. the modules · 3. the runs and their bounds · 4. fairness ·
5. the proofs · 6. what was seen on the way · 7. what is not modelled · 8. the plan.

## 1. The system

One PostgreSQL database, one server process (FastAPI on an asyncio loop, APScheduler in the
same loop), command-line runs of the same jobs in processes of their own, and a Flutter
client. Every HTTP request and every transaction of a job has a session of its own, at
isolation level READ COMMITTED, with no `SELECT ... FOR UPDATE` anywhere: whatever a session
read may be stale when it writes, unless a constraint of the database refuses the write.
Jobs are serialised by name only, with a lock that lives in the process.

| Component | State it keeps | Operations | What makes it correct |
|---|---|---|---|
| **Marketplace** `E/platform/marketplace.py`, `community_market.py`, `E/api/routers/marketplace.py` | listing, offer, rating, the asks and sales of the app itself | publish, withdraw, offer, accept, reject, rate | a listing is settled once; no offer waits on a closed one; no piece is on sale twice; only verified pieces change hands; the app's market data agrees with its listings |
| **Portfolio** `E/platform/portfolio.py`, `achievements.py`, `provenance.py` | collection_item, piece_event, user_achievement | add, verify, remove, transfer | the trail a certificate signs is unbroken and ends at the holder |
| **Scheduler and job runs** `E/scheduler/`, `E/api/routers/sync.py`, `E/cli.py` | sync_run rows with a cursor, job locks, the plan of next runs | plan, fire, trigger, run, checkpoint, fail, crash, restart | no unit skipped by mistake, no more than the unit that broke repeated, a failing source left in peace, no job stopped for good |
| **Catalogue consensus** `E/catalog/claims.py`, `E/consensus/resolver.py` | fact_claim, winner flags, the columns, fact_revised events | record a claim, resolve a field | the highest authority's latest value is shown; no silent revision |
| **Catalogue ingestion and reconciliation** `E/catalog/` | coin_type, coin_issue, texts, images | ECB and Numista ingestion, merge of two types, editions | each source finds its type; market data keeps its variant; variants never collide |
| **eBay auctions** `E/catalog/ingest_ebay.py`, `E/sources/ebay/` | market_observation rows of auctions, the close queue | search, store, close check | an auction leaves the watch only for good; a sale is recorded; the queue drains |
| **Price estimates** `E/pricing/estimator.py`, `recompute.py`, `mintage_model.py` | price_estimate rows | daily recomputation, catalogue values, mintage model | no price without evidence of the year; the model gives way to a better basis; stale prices go |
| **eBay client and budget** `E/sources/ebay/client.py` | calls of the day (in memory and in sync_run statistics), token | charge, search, get item | on a day without overlap or loss no search is made once the budget is spent |
| **Open-web reader** `E/platform/web_market.py`, `E/sources/web/` | cursor, market_site health, polite pauses | crawl a coin, store asks | a followed coin is read again and again; two searches never spoil each other unless they overlap |
| **News and expert reports** `E/platform/news.py`, `community.py` | news_item, expert_report, expert_vote, events | publish, report, vote | no event is out of reach of the next run; a report is decided by two experts other than the reporter |
| **Daily bulletin** `E/platform/bulletin.py` | the day's news item, notifications | write or return today's | once a day, told once to everybody with an account |
| **Market assistant, alerts** `E/pricing/market_intel.py`, `E/platform/market_assistant.py`, `alerts.py` | notification, price_alert, watch_item | notify watchers, fire alerts, advise | one notification per cause; a deal rests on sales or a catalogue value; the pages agree |
| **Rarity** `E/rarity/` | rarity_score | recompute all | the scarcer coin never scores less; an unknown component is not scarcity |
| **Title matching, reliability** `E/pricing/title_parser.py`, `matcher.py`, `reliability.py`, `E/sources/linker.py` | none | text to coin and score | where titles tell, every coin gets its own listing |
| **Settings, accounts, administration** | app_setting, app_user, job_config, session tokens | register, set, patch a user, switch a job | an owner stays; switches and keys take effect |
| **Identification, chat, semantic search, catalogue API, ECB and Numista clients, schema, Flutter app, deployment** | caches and files | reading | — |

How they interact. The two ingestions write claims on the same types; `merge_types` joins a
type of the ECB with one of Numista when title matching missed the pair. Variants carry the
market observations that the eBay jobs, the web reader, the marketplace and collectors'
purchases bring; the recomputation turns them into estimates; alerts, assistant, rarity and
news read these. `fact_revised`, `new_type_discovered` and the like are rows of domain_event
that news turns into items. The marketplace changes the portfolio and its own market data in
one transaction.

Hard behaviours. Requests that overlap on stale reads; jobs that overlap with jobs of other
names and with a second process; a crash between a commit and its checkpoint; a search answer
stored after the auction was closed; foreign keys that cascade or restrict far from the code
that deletes; values that come back, merges in any order; observations that age out. The list,
each at its line and with the property that watches it, is `hazards` in `PROJECT.json`.

## 2. The modules

| Module | Models | State ↔ code, action ↔ operation |
|---|---|---|
| `PieceLedger` | what the portfolio promises about a piece | abstract: `Register`, `Verify`, `Transfer`, `Remove` |
| `Marketplace` | portfolio, marketplace, community market, awards; one committed request per step | variables are tables; an action is a 2xx request from its guards (`May…`) to its commit (`Write…`). `LedgerSpec`: it implements `PieceLedger` |
| `MarketRaces` | the same requests overlapping | extends `Marketplace`: guards at the start, writes at the commit, in between anything; what the database refuses is refused |
| `SyncJob` | one job: lock, row, cursor, scheduler, manual and command-line runs, failures, crashes | a task's `pc` follows `_run_job_locked`, whose first transaction is three steps (`Begin`, `LookUp`, `OpenRun`) for two processes may cross in it, and the loop the resumable jobs share; a unit is committed in `Parts` transactions |
| `Consensus` | one field of one coin with two sources and a merge | a transaction is a record of the writes its flush makes, applied at once |
| `ConsensusRaces` | three jobs in overlapping sessions | extends `Consensus`: load, decide, commit apart |
| `Variants` | the coin_issue rows of one coin: placeholders, adoption, merge, cascades, RESTRICT | a session reads and decides in one step and commits its differences in another |
| `EbayAuctions` | two searches beside the hourly close check, with eBay itself | an answer is stored later than it was given; the check asks one auction at a time |
| `EbayBudget` | the daily call budget: clients, statistics, midnight, the five jobs that spend it | a run's client forgets at midnight; other runs are known by what their rows say |
| `WebMarket` | the crawl of shops beside visitors' searches: turns, hosts, pages, collisions, switched sites | a session is a transaction; `Ingest` and `Answer` are its flush and its commit; a collision is the unique key it meets |
| `PriceEstimates` | one issue's estimates and the model row | a transaction per issue, then the model: the rows it finds, the issues it weighs and what it inserts, updates or deletes are steps apart |
| `Scarcity` | the mintage bands and the rarity score, over a small catalogue | functions; `mintages` is the catalogue they are evaluated on |
| `MarketIntel` | reliability, ranges, fair band, trend, verdicts, valuation | functions of the observations and estimates of one coin; `Shown` and `ShownToMovers` are what two pages read of the same listings |
| `MarketDesk` | alerts and the watch list beside overlapping recomputations | extends `MarketIntel`: a run reads, notes and commits; users create, delete, follow in between |
| `Linking` | which listing is which coin: exact links, elimination, editions, duplicates | functions of the titles' scores, of which a listing has one for its coming in (title or topic) and one for afterwards (base title), returning the set of possible results where the code takes a first of equals; `titles` is what they are evaluated on |
| `Newsroom` | events and news items, reports and votes, the bulletin, merges beside them | requests and jobs read in one step and commit in another |
| `Administration` | accounts, roles, keys, one job's switch in the row and in the live scheduler | a request is authorised and reads, commits, and applies its change to the scheduler, in steps apart |
| `ConsensusHistory` | what each source said last of each type, beside `Consensus` | a history variable: every step is one of `Consensus` and notes what it recorded |
| `MarketplaceProofs`, `SyncJobProofs`, `ConsensusProofs`, `VariantsProofs`, `NewsroomProofs`, `AdministrationProofs`, `MarketDeskProofs` | theorems about the module they are named for (the first also about `MarketRaces`, the third about `ConsensusRaces` and `ConsensusHistory`, the fourth about `Linking`) | section 5 |
| `MarketDataProofs` | theorems about `PriceEstimates`, `Scarcity`, `EbayAuctions`, `EbayBudget` and `WebMarket`; their names are kept apart (`AuctionSpec`, `BudgetSpec`, `WebSpec`, `CatalogueSpec`) so that one module extends them all | section 5 |
| `MC…` | instances for TLC | section 3 |

`MarketRaces` and `ConsensusRaces` reuse the guards and the writes of the serial modules, so
the two views cannot drift apart. `MCEbayAuctions`, `MCVariants` and `MCPriceEstimates` check
two modules that share no state in one run: either moves while the other has not begun, so
every behaviour of each is there and their product is not.

Data is abstract throughout: a coin, a listing, a title are model values; the recomputation
keeps a price only as far as "at least face value" and an age as far as the two windows of the
estimator, while `MarketIntel` and `Scarcity`, whose subject is the numbers, count in cents,
days and thousands of coins. A claim's value is kept as far as `normalize` tells, a title as
far as the score it gets.

Functions (`MarketIntel`, `Scarcity`, `Linking`) are checked against what they are for, over
all inputs of a small set, and proved for all others: `DealsBacked`, `ScarcityTells`,
`TitlesDecide`. What they say is
stated in other terms than the code computes: sales counted instead of quartiles, mintages
compared instead of scores, a truth given in advance instead of thresholds.

## 3. The runs

| Run | Instance | Why it is enough |
|---|---|---|
| `marketplace` | 2 collectors, 2 pieces, 2 listings, 2 offers, prices below and at face value, free quota 1, 2 events before re-verification stops | two listings of one piece, two offers on one listing, a trade of each piece for the other, removal and quota all occur; `MaxEvents` only bounds repeated verification, deals still append |
| `market_races` | 1 listing, 2 offers, 2 requests in flight | any pair of overlapping requests; three add no new pair of guard and write |
| `sync_job` | 2 units of 2 transactions each, interval 2, retry 1, the scheduler, one manual and one command-line task, 2 faults | a fault in the first run and one in its repair, or a command-line run and a fault, or a crossing; a break before, between and after the transactions of a unit. `MaxFaults` counts failures, refusals, crashes, lost rows, skips and calls by hand together, which keeps the instance small |
| `consensus` | 2 types, values `a`, `a2` (the same, written otherwise) and `b`, 6 claims | correction, return to an earlier value, agreement in other words, merge before and after; `ConsensusHistory` remembers what each source said last |
| `consensus_races` | 2 types, 2 values, 2 claims, one abort | an overlap needs one claim per source; more claims repeat it, and with liveness the state space grows fivefold per claim |
| `variants` | two Numista issues of the placeholder's variant and one of another, 4 rows, 2 observations, 1 piece, 1 abort | adoption, collision, insertion, supersession and cascade all occur; both observations are interchangeable (symmetry). For `Linking`: 2 coins with their listings, one a classic version, one listing that is no coin's and an edition, in every order; the seven pairs of scores (`MCLevels`) lie on either side of each threshold, with two above the highest, equal at the coming in and afterwards, better by the topic, or, for a classic version, worse by its extra words |
| `ebay_auctions` | 2 auctions, 2 searches, 2 faults; for the budget 3 runs of two jobs, 2 calls a day, at most one search or auction each | one auction that blocks and one behind it, with the five things eBay may answer (among them ended without a usable price, which keeps the auction open); one run that spends and one that is to notice, with a third in between |
| `price_estimates` | 2 sales, 1 ask, 2 grades, `MIN_SAMPLE` 1, `WIDEN_BELOW` 2, one failed run | the code's 3 and 5 only scale the sample; 1 and 2 keep the cases none, too few for the short window, enough. For `Scarcity`: 3 issues of 2 designs, one the edition of the other, mintages unknown, 10 000 and 400 000, sales below and above the bands: every pair of unknown, scarce and common, with and without calibration. No design of the instance circulates: that branch of `Judged` is covered by the theorem alone |
| `newsroom` | 1 report, 4 experts, quorum 2, 2 votes in flight, 2 coins, 2 events, a page of 1, two publishers; 2 readers | a reporter and enough experts for both verdicts; an event that cannot be told in front of one that can; the constraint `Apart` leaves out the product of the bulletin and the rest, which share no state |
| `administration` | 2 users, 2 requests, cadences 1 and 2, retry 2 (longer than the shorter cadence), two secrets, 2 changes of the job | any two requests overlap; `MaxPatches` bounds repetitions of a change |
| `market_desk` | 1 collector, 1 alert, 2 thresholds, a server run and one from the command line, 6 markets, one of a coloured type, 2 months | the markets are chosen for the branches of `MarketIntel`: nothing sold, model only, sales of the quarter, sales of the year, asks only, a deal by the catalogue; they follow each other in any order |
| `open_web` | a watched coin and another, 2 hosts, of which one may refuse, one visitor, one coin a run, one refusal, broken session or restart | a job and a visitor that meet at a new host and at a page; more coins than a run reads |

What they show, property by property, is the comment above each property. In short:

- Serially the marketplace keeps all it promises (`SettledOnce`, `VerifiedBeforeSold`,
  `ProvenanceUnbroken`, `MarketDataAgrees`, `LedgerSpec`); overlapping it still keeps one
  realised sale per listing and clean asks.
- One run of a job is open but for processes that cross while opening theirs; as long as no
  second process closes or crosses a live run, the cursor is honest, a break costs the unit it
  met and none before it, and a failed source is left alone for its delay. No fault stops the
  job for good.
- The catalogue shows the leading claim, tells of every revision, and heals what overlaps
  leave. Market data keeps its variant and is lost only to a session that looked before it
  came. Where titles tell, each coin gets its own listing.
- Auctions leave the watch only for good and the queue drains; the budget holds on a day
  without what the statistics do not show.
- Prices rest on evidence, a model row outlives at most one run beside a better basis, realised
  prices without sales go.
  Bands and scores order coins as their mintages do, within the limits the comment names.
- Deals rest on sales or catalogue values, pages that read the same titles agree, an undisturbed
  run repeats nothing and word of a lasting chance arrives.
- A verdict is earned and a vote alone decides; no event is out of reach; a bulletin is told
  once.
- An owner stays, a switch is in force once its change met nothing else, a saved key works
  without a restart.
- A followed coin is read again and again; a visitor's search fails only against another.

Deadlock is checked everywhere but in the marketplace's runs and in `market_desk`, whose finite
ids, alerts and months run out: a state in which all are used is an end of the instance, not of
the system.

Type invariants are not repeated in the runs: those of all ten modules that state one are
proved (section 5). They are the definition `TypeOK` of their module (`AuctionTypeOK`,
`BudgetTypeOK`), to be added to a configuration when a module is changed.

## 4. Fairness

Safety runs assume none. Where liveness is checked:

- `SyncJob.FairSpec`: the clock ticks, APScheduler fires a due job, the event loop advances
  every task, the service manager restarts the server (`deploy/`, `scripts/`). Faults are
  bounded by `MaxFaults`, which stands for "sources come back"; calls by hand are bounded with
  them, and nothing is assumed about when one comes.
- `ConsensusRaces.FairSpec`: jobs come round (24 h, 7 days; `run_numista_catalog` ends with a
  reconciliation), a session goes on to its commit, and a source that lists the coin reports
  the figure infinitely often (strong fairness: it may be silent in some runs).
- `EbayAuctions.AuctionFairness`: the close check is hourly and each run goes on, an answer is stored,
  auctions end, and eBay does not serve an ended item for ever, which `QueueDrains` needs.
- `PriceEstimates.Fairness`: the daily job goes from step to step; needed by
  `SoldStaleWithdrawn`.
- `Administration.FairSpec`: the scheduler's clock and timer go on and a run ends, planned anew or
  by an exception. Nothing is assumed of administrators.
- `MarketDesk.FairSpec`: the server's recomputation comes round and goes on; a command-line run
  that has written commits (others wait for it at the unique key), but it may never come.
- `WebMarket.WebFairSpec`: the daily job and a visitor's search, once begun, go on. Refusals of the
  search engine, sessions that break (a deadlock, a vanished row, the database) and restarts are
  bounded by `MaxRefusals`; refusals of a single host are not.

## 5. The proofs

| Theorem | Says | Argument |
|---|---|---|
| `MarketplaceProofs!TypeCorrect` | the state is typed and rows name rows | `TypeOK` alone is not inductive: that an existing listing has a seller and a piece, and an existing offer a listing and a buyer (`RowsNamed`), is needed for the trail's events |
| `MarketplaceProofs!Settlement` | `SettledOnce` | action by action over a lemma that says what each action does to the listing and offer tables (`MarketSteps`, `RejectPendingRows`) |
| `MarketplaceProofs!SingleListing` | `OneActiveListing` | the same lemma; publication is the only step that makes a listing active |
| `MarketplaceProofs!ImplementsLedger` | `LedgerSpec` | initial state to initial state, and each action maps to a step of `PieceLedger` or leaves its variables alone (`LedgerStep`); a deal is one `Transfer` of the piece and of the one offered in exchange (`DealIsTransfer`) |
| `MarketplaceProofs!Provenance`, `OnlyVerifiedMoves` | `ProvenanceUnbroken`, `VerifiedBeforeSold` | neither is inductive: a deal moves what was verified when it was listed or offered, long before. `Vouched` carries it: a verified piece has a holder and a verification in its trail, and what an open listing or a waiting offer names was verified or has left its owner |
| `MarketplaceProofs!MarketDataHonest` | `MarketDataAgrees` | ids not yet used have left neither ask nor sale (`UnusedSilent`); then action by action |
| `MarketplaceProofs!OneRealisedSale`, `NoAskLeft` | `RealisedOnce`, `ClosedLeavesNoAsk` | a realised sale has its row under its listing (`Recorded`), and the row's key is unique: whatever a request decided on stale reads, its commit is refused if the row is there |
| `SyncJobProofs!SingleOpenRow`, `OneServerOneOpenRun` | `OneOpenRun`; without a second process, one open row at most | a run that opened its row while nobody else did knew the row to close (`Informed`), so the only other open rows are those of a crossing; in one process the lock keeps a second run from looking (`Uncrossed`, `Locked`) |
| `SyncJobProofs!HonestCursor`, `RepeatsBounded` | `CursorHonest`, `RepeatsNeedBreak` | `JobInv`: without an overlap there is one run on its way at most (`Single`, `Alone`). One set, `Standing`, is what the next run would not ask for again, and `Underway` the unit with transactions behind it. `Standing` holds nothing that was not served in full, and every other unit begun is accounted to a break: `Cardinality(begun \ Touched) + repeats <= losses + broken`. A first transaction moves a unit into `Underway` or pays for a repeat, a break lets go of one unit at most |
| `SyncJobProofs!RetryDelay` | `RetryRespected` | as long as the scheduler's failed run is the latest, what is left to wait and what has passed make up the delay, also across a restart (`Waited`, beside `JobInv`) |
| `SyncJobProofs!JobTypes`, `OneRunInTheServer` | `TypeOK`; no two runs of a job overlap inside the server | a run of the server has the lock, and only its holder leaves it (`Locked`): asking for the lock takes it from nobody (`LockAsked`), leaving it takes whoever ran (`LockLeft`); a run that has yet to open its row is at work as well (`AtWork`); losses and breaks are among the faults (`Figures`) |
| `ConsensusProofs!WellTyped`, `Authority` | `TypeOK`, `AuthorityWins` | the inductive invariant adds that claims are told apart by their times (`Timely`) and that each type with claims has a leader (`Led`), without which the resolver's `CHOOSE` says nothing; one lemma (`FieldEffect`) for what a resolution writes, one for types it does not touch |
| `ConsensusProofs!NoSilentRevision` | `RevisionTold` | a type with a column has claims (`Placed`), so one of them leads, is the only flagged one and gave the value (`Winner`); a resolution that flags another one tells of both (`EventTells`) |
| `ConsensusProofs!LastWord` | `LastWordShown` | a source's latest claim says what the source said last (`Heard`), though `record_claim` adds none for a value it has just said; the rest is the invariant of `Authority` |
| `ConsensusProofs!AloneRun` | `AloneRepairs` | `RaceInv`: what a lone session read and decided is what it would read and decide now (`Fresh`), the claim it is to add has a time of its own (`Pending`), and among any claims one outranks the others (`Bests`) |
| `VariantsProofs!Constraints` | `RowsOK`, `MarketOK` (of `VariantsProofs`) | `VarInv` (below): the unique key of the rows holds, and the row an observation hangs on is there |
| `VariantsProofs!Kept`, `VariantKept` | `LostOnlyWhenLate`, `SameVariant` | what a session decided on (`Plan`) and how far the catalogue may have moved on since (`Since`, `Found`): a commit hands an observation to a row of its variant (`Handed`), leaves it where it is (`Unmoved`), or deletes it with its row, and then it came late (`Left`) |
| `VariantsProofs!AloneCommits` | `AloneGoesThrough` | an undisturbed session meets what it read (`Undisturbed`), and what it planned on that violates nothing (`Plan`) |
| `VariantsProofs!NothingDangles` | `TypeOK`: no row without its type, no observation without its row | `VarInv`, and that pieces name rows |
| `NewsroomProofs!VerdictsHold` | `VerdictsEarned` | a counted vote carries its verdict to its commit: the invariant says its votes are still there (a merge waits for it), that it is its expert's only one, and votes only grow; as many experts as votes by a bijection |
| `NewsroomProofs!AloneVote` | `AloneDecides` | nobody else votes on the report of a lone ballot, and the verdict it counted is the one it would count now (`AloneInv`) |
| `NewsroomProofs!NextRun` | `NextRunTells` | ids tell events apart (`LogInv`), so that fewer than a page before an event put it on the page |
| `NewsroomProofs!ToldOnce` | `OneBulletinADay` | a run that writes for today finds nobody told; one that midnight overtook commits nothing |
| `NewsroomProofs!RoomTypes` | `TypeOK` | ids are those of the log, which is no longer than its bound (`LogInv`); then ballots, editions and drafts, each on its own (`BallotStep`, `NewsStep`, `PressStep`) |
| `AdministrationProofs!OwnerStays` | `KeepsAnOwner` | the request that takes the last role was made by another administrator, who has none by then: nobody is left who has |
| `AdministrationProofs!SwitchHolds` | `SwitchInForce` | a change that is alone is the only one under way and says what the row says, and a settled one leaves no run behind that could resume a paused job |
| `AdministrationProofs!PanelTypes` | `TypeOK` | what a change under way asks for and carries to the scheduler is a switch and a cadence (`Sent`), so that the row and the registered job always have one; `SwitchInv` says when there is a job (`JobTyped`, `PanelTyped`) |
| `MarketDeskProofs!Types`, `Told` | `TypeOK`, `ToldOnce` | an alert a run means to update is a row it found, and what a run that overlaps no other notes down nobody has been told (`ToldInv`) |
| `MarketDeskProofs!Backed` | `DealsBacked` | samples are sorted (`InOrder`, `Rising`): what costs less than the first quartile costs less than three quarters of all sales but one (`FirstQuartile`). The two pages read different listings (`ShownRows`); where they refuse the same sales their trends are one (`SameSales`), and watchers are told of a move by a stricter threshold than the list's (`TrendMoves`) |
| `MarketDataProofs!PricesTyped`, `Evidence` | `TypeOK`, `RestsOnEvidence` | the three outcomes of `Estimate` (`Outcomes`) and what the windows keep (`WindowPart`, `WindowWhole`); no invariant is needed for the second, estimates are computed from the observations whatever was there before |
| `MarketDataProofs!ModelYields` | `OutlivesOneRun` | `Yields`: a row is left beside a better basis only where a catalogue value came in after the weighing, which nobody takes back; the next weighing sees it, finds the row among those it held, and deletes it. Between the reads and the writes no realised price appears, for the run itself writes those |
| `MarketDataProofs!LeavesForGood` | `DroppedForGood` | an answer that is on its way to the check was true when it was given, and what it says cannot become untrue (`AnswerHolds`) |
| `MarketDataProofs!WatchTyped`, `RowsTyped` | `AuctionTypeOK`, `BudgetTypeOK` | what is due is watched, action by action; that statistics stay counts needs that their sum is one (`SumNat`), from `DayInv` |
| `MarketDataProofs!WithinADay` | `BudgetKept` | `DayInv`: on a plain day no two runs are on, eBay served no more than the statistics of all rows add up to, and the search in progress was charged with all of it. That a sum over rows changes by what one row changes is proved from the function itself: it exists (`AddsExists`), is the only one (`AddsSame`), and any row can be taken out first (`SumTake`), each by a smallest set for which it would fail (`Smallest`) |
| `MarketDataProofs!AloneStores` | `AloneAnswers` | a search no other overlapped is the only one, waits for nobody, and what it is to insert is not there (`WebInv`, `Quiet`) |
| `MarketDataProofs!ScarcityTold` | `ScarcityTells` | nothing is taken from the functions but what `CHOOSE` of a fixed point gives: a set of equals in a finite set has a least member (`LeastValue`), so the rank, the bucket, the logarithm and the quantile exist (`SomeRanked`, `SomeBucket`, `LogsExist`) and rise with the mintage (`RankedRises`, `BucketRises`, `LgRises`, `DivRises`); the bands follow (`BandsRise`), then each signal of the score (`ScarceTells`, `AvailabilityTells`, `PremiumTells`) and its weighted mean, whichever signals are missing (`ScoreTells`) |
| `VariantsProofs!TellingTitlesDecide` | `TitlesDecide` | a set of right pairs stays right (`Stable`, `GreedyStays`): the best free pair is right, for otherwise the coin's own listing, free as well, would be better (`BestIsRight`); a pass then adds all right pairs above the threshold or, of one and one left over, none that is wrong (`PassRight`), passes end for there are finitely many pairs (`PassesExists`), and what has come in before is right whatever the order (`IngestedAllRight`). Two scores are about: those a listing comes in with decide the links (`TellsComing`), those of base titles the rest (`TellsLeft`), and one that is linked by the first need not agree by the second (`RightIsNoMistake`) |

They hold for every value of the constants that satisfies the modules' assumptions
(`MarketAssumption`, `ConsensusAssumption`, `RankAssumption`, `RacesAssumption`,
`PricesAssumption`, `SyncAssumption`, `VariantsAssumption`, `NewsroomAssumption`,
`AdministrationAssumption`, `DeskAssumption`, `MarketsAssumption`, `AuctionsAssumption`,
`BudgetAssumption`, `WebAssumption`, `ScarcityAssumption`, `LinkingAssumption`); TLC evaluates
these in every run of the module. Those of `Linking` are the order of its four thresholds (25,
45, 60 and 70 in the code) and that no two coins have one listing; those of `Scarcity` that its
bands are in order and that no divisor is zero. `SyncJob` and `Newsroom` assume that units,
experts and reports are finitely many, for their cardinalities (nothing is assumed of the cadence beside the retry delay: an
administrator may set it shorter), and `Newsroom` that a day brings
nothing but parts a bulletin has a heading for.

A proof that failed was a finding about the model once: `TitlesDecide` did not follow from
"a listing agrees best with its coin", because a listing that is no coin's takes a coin when it
comes in first and reaches `LINK_THRESHOLD` (section 6). The run had no level above that
threshold but one, so that TLC could not see it. `Telling` now says so, and the run has two.

`VarInv`, the invariant behind the five theorems about variants, was checked by TLC on the
instance of `variants` before it was proved. Its parts: the constraints of the tables (`RowsOK`,
`MarketOK`), two sessions insert different rows (`Apart`), and what each session in progress
read, plans and may still meet (`SessionsOK`). A session's commit is then two lemmas, what it
does to a row (`CommitRow`) and what it does to an observation (`CommitMarket`).

Only model-checked:

- liveness (`AlwaysServed`, `Settles`, `QueueDrains`, `SoldStaleWithdrawn`, `KeyTakesEffect`,
  `WordArrives`, `WatchedServed`): it needs fairness and `ENABLED`, which are out of the
  prover's reach here.

Induction over data is out of reach as a rule of the library; where a proof needed it
(`WithinADay`, `ScarcityTold`, `TellingTitlesDecide`, the walk over a session's plan in
`VariantsProofs`), it was replaced by a smallest counterexample in a finite set.

## 6. Seen on the way

Behaviour the models contain and no run singles out.

Marketplace and portfolio:

- Two acceptances that overlap, on one listing below face value, both commit
  (`E/platform/marketplace.py:142`); an offer made while a listing closes waits for ever. Two
  publications that overlap pass "already listed" (`:41`) and the free quota (`:48`).
- A trade goes through without an offered piece that its buyer no longer holds (`:162`): the
  seller gets less than was offered, in silence.
- A listed piece may leave its seller inside another deal, as an offered piece; its listing
  stays active in the old name, and accepting an offer on it moves the piece from its present
  holder. The trail stays unbroken (`LedgerSpec`), the seller of record is not the holder.
- Deals about one piece that overlap may each write the holder they read (`:149`): the trail then
  shows two events from the same hand.
- Removing a listed piece deletes the listing by cascade and leaves its ask as market data.
- A deal changes two collections and evaluates nobody's achievements.
- `piece_event` rows are read in the order their transactions began
  (`E/platform/portfolio.py:131`): overlapping deals may be shown in an order that never was.

Jobs and administration:

- A command-line run closes a live run of the server as if a crash had left it
  (`E/scheduler/jobs.py:133-147`: "cannot be alive"); and two processes that both look before
  either commits its row both see none and leave two open (`:96-101`). The properties of
  `SyncJob` say what holds until then.
- A pause in the middle of an issuer or of a country's year repeats the transactions of that unit
  which were committed already (`:488-511`): the cursor knows whole units only.
- A cadence shorter than the hour of the retry delay is accepted (`E/api/routers/admin.py:141`):
  after a failure the job then waits longer than after a success. An exception outside the
  runner leaves the next run to the trigger, without the retry delay
  (`E/scheduler/service.py:244-249`).
- A job that is off at boot is not registered, so switching it on has no effect until a restart
  (`E/scheduler/service.py:180`). The end of a run plans the next with the cadence the job was
  registered with and un-pauses a job that was paused meanwhile (`:244-249`, against "apply
  live" in `E/api/routers/admin.py:201`).
- Two administrators who demote each other at once leave none; two first registrations that
  overlap both become administrators. The settings view says "app" of a secret that cannot be
  decrypted and is not used.

Catalogue:

- A source that corrects itself raises `fact_revised` like any other revision; the news item
  words it as a correction by a higher authority.
- Overlapping resolutions may leave two flags or a lower authority's value until the next run
  that has a value for the field.
- Two Numista issues with the same year, mint, finish and packaging share one row: each
  ingestion hands it from one to the other and records both mintages anew.
- A collector's piece of a placeholder makes its deletion fail (`E/catalog/issues.py:79`), with
  it the ingestion, the retry and whatever the run would do after it.
- `merge_types` moves "everything attached" but followed coins and, with a retired placeholder,
  alerts: these are deleted by cascade, and so are expert reports on the dropped type, while
  news items of it point nowhere.
- A listing is linked when it comes in if one coin reaches `LINK_THRESHOLD`
  (`E/catalog/ingest_numista.py:170-188`, `E/sources/linker.py:65`), also when the coin's own listing, which agrees
  better, has yet to come: that one is then left over.
- Ingestion scores the full title and the commemorated topic and takes the better
  (`E/sources/linker.py:55-62`); reconciliation and editions score base titles without topic
  (`E/catalog/reconcile.py:77-108`, `E/catalog/editions.py:57-59`): a coin and its listing may agree in the
  one and not in the other, and a pair missed by the first is not always found by the second.
- "Crowded" is forgotten between two calls of `link_by_elimination`
  (`E/catalog/reconcile.py:27-43`), and a leftover of one and one is merged however little the
  titles agree, also when a source is incomplete.

Markets:

- An answer stored after an auction was closed re-creates its open row
  (`E/catalog/ingest_ebay.py:82`); closing it again violates a unique constraint and fails every
  run before the auctions behind it, until eBay forgets the item.
- The close check is not charged with the calls of earlier runs of the day, a client that was
  built before midnight and waits for its lock loses its charge, and neither repeated requests
  nor further pages are in the statistics.
- An issue that lost its last ask is not listed for recomputation any more and keeps its asking
  price (`E/pricing/recompute.py:177`). A model row may stand beside a better basis until a
  recomputation that weighs after the basis came has gone through; catalogue price rows are never withdrawn.
- The mintage model adds up a design's variants only as far as they have no better basis
  (`E/pricing/recompute.py:236-255`), so that a variant with sales makes the rest look scarcer.
  Searching a place for the first time makes its unlisted coins rarer; with as many listings, a
  coin of smaller mintage has more supply per million and may score less; the row of an issue
  whose mintage goes stays.
- Overlapping recomputations announce a deal or an alert twice; a deleted alert fails the whole
  final transaction of the run that wanted to fire it. A watcher is told "below the range of real
  sales" also where the band comes from face value or the model
  (`E/platform/market_assistant.py:316-332` against `:222`). "Active listings" includes offers
  up to 400 days old.
- The list of movers judges titles without the type being coloured and without the admin's extra
  words (`E/platform/market_assistant.py:275-279`), the coin's page with them (`:134-143`): watchers may
  hear of a move of a coloured edition that is not on the list. `DealsBacked` says the two agree
  where they read the same sales.
- An auction that ended without a usable price in euro counts as still open
  (`E/sources/ebay/parser.py:71-74`) and is asked about again.
- "Every coin gets its turn" (`E/scheduler/jobs.py:632`) does not hold when more coins are
  watched than a run reads. A sold-out page keeps its asking row beside the sold one, and the
  sold row is dated anew at each visit. Two sessions that insert the same new host or page
  collide: the coin's work is rolled back, the visitor gets an error.

News:

- `README.md:194` says that validated errors become news; `error_validated` is not among the
  kinds that are told (`E/platform/news.py:64`).
- Two approvals that overlap may leave a report pending with a quorum of votes, or validate it
  twice; the first validations of two reports collide on the source "community".
- Events that cannot be rendered stay at the head of the page `publish_pending` takes: a page
  full of them stops the news (`NextRunTells` says "fewer than a page").
- Who registers while a bulletin is written is not told of it. A bulletin looks back 24 hours,
  so what happened around a day without one is never reported.

Outside the models: a truncated cache file of the Numista client (`E/sources/numista/client.py:122`)
fails every run until it is a week old.

## 7. What is not modelled

HTTP clients, parsers and caches (I/O and text); the reading of titles (a title is given by its
score or by what it decides); image processing (its verdict is an input of `VerifyPiece`);
regions, outlier fences and history rows of the estimator; the advice and rendering of the
assistant, chat and search (they read, and keep no state); passwords, tokens and rate limits;
statistics, logs, backups and updates; migrations; the Flutter client, whose state is a cache of
the server's answers. The models keep commit order where the code keeps the time a transaction
began, but for `Newsroom`, where the difference matters. `components` in `PROJECT.json` has the
reason for each part.

Bounds the models name: ids that run out (listings, offers, rows, events, runs of a day),
`MaxFaults`, `MaxRefusals`, `MaxPatches`, `MaxClaims`, `Months`, `MaxWork`, the number of requests
in flight (`Workers`, `Requests`, `Ballots`, `Visitors`, `Manuals`), and the small sets of
`Levels`, `Mintages`, `Prices` and `Markets` the functions are evaluated on.

## 8. The plan

Done, in this order: the marketplace and its ledger, overlapping requests, the job runner,
consensus and its races, auctions, price estimates, variants; then news, reports and the
bulletin, accounts and administration, the assistant's numbers and its notifications, the web
crawl, the eBay budget, title links, mintage bands and rarity; the proofs of the ledger, of
provenance, of races, of the job runner, of votes and of switches; then those of revisions, of
lone sessions, of variants, of the assistant, of auctions, the budget and the web reader; then
of scarcity and of title links.

Next, by weight:

1. Sessions and sign-in limits, series and rarity achievements.
2. National sides and images: which is taken when sources disagree or repeat themselves.
3. The Numista client's cache and its age.
