# TLA+ models and proofs of stock-data-system

The repository collects market data, company reports and announcements for A, HK and
US stocks, computes screens and back tests over them, runs paper trading accounts, and
shows the results on the web.  Most of it is conversion of data; what is hard to get
right is what several processes do to the same rows of PostgreSQL, what is left when one
of them stops half-way, and what is decided from rows that are not complete yet.  These
modules are about that.

## 1. Inventory

| Part | State | Operations | Interacts with | Hard behaviour | What makes it correct |
|---|---|---|---|---|---|
| SEC request gate (`core/sec_client.py`, `sec_http_worker.py`, `scripts/sec_request_gate.sql`) | one row (`next_allowed_at`, `blocked_until`), an advisory lock, a lock per process, a child per request | `get`: queue, connect, lock, read, reserve, send, finish; retry, redirect | every SEC caller in every process | processes and threads compete; sessions, processes and answers get lost at any step; three nested deadlines | one request at a time, spaced; demanded pauses kept; every call ends |
| Announcement collector (`core/announcements/`) | check state, recovery row, gap rows, announcement rows, round lock | a round: candidates, load, fetch, commit or failure | SEC gate, IR pages, media feeds, scheduler and manual command | budgets that cut a scan, missing pages, lost sessions, days passing during a backfill | nothing is claimed that was not fetched; progress is kept; a gap stops the check point |
| Paper trading (`quant/paper/engine.py`, `quant/backtest/portfolio.py`, `scripts/run_paper_daily.py`, `web/services/paper_service.py`) | account, positions, trades, snapshots, run log | one run: check the log, load, trade, value, five commits | quotes, screener, cron, web | failure between two commits, automatic retry, two runners, refused rows | wealth conserved, a successful day complete and final |
| Paper trading calendar (`quant/paper/engine.py`, `quant/backtest/common.py`) | none of its own: derived from `daily_quote` and the run log | is today a rebalancing day, for which signal, at which price | quote synchronisation | "last trading day" asked before later quotes exist; missed runs; holidays | once a month, at its end, `lag` sessions after the signal |
| US backfill batches (`core/us_financial_worker.py`, `scripts/backfill_us_financial_versions.py`) | batch row with status, manifest and lease, items, manifest file, advisory lock, heartbeat thread, facts and exclusions | stage, verify, approve, apply, post-verify, resume, rollback | versioning writer, daily sync, operator | commands that read the row and act on it later, kills between two commits, a batch resumed over newer snapshots | only reviewed facts are published, applied means whole, rejected means withdrawn and final, one writer |
| US financial pipeline (`core/scheduler.py`, `core/sync/us_market.py`, `us_security_directory.py`, `us_universe_registry.py`, `scripts/project_us_financial_snapshots.py`) | raw documents, statements of the version layer, `sync_progress`, directory, supplement list, the two snapshot tables | the daily job: scope, directory, who is asked, fetch, ingest statement by statement, supplement, block or project, validate; retry; projection and reparse by hand | SEC gate, index members, versioning | a retry skips what the failed attempt did; three nested intervals; a kill between two statements; a projection beside an ingest | a projection publishes no half-done scope as a success; every filing is asked for and shown in the end |
| US financial versioning (`core/us_financial_versioning.py`, `us_financial_exclusion.py`, `fetchers/us_financial.py`, `selectors/us_financial.py`) | filings, facts and their sources, conflicts, exclusions, reviews | write the rows of a statement; exclude, revoke, review; select the latest or as of a day | pipeline, backfill, back test | two writers of one stock, row locks and deadlocks, duplicates inside a batch and against the table, restatements, late filings | nothing read is lost, evidence fits its fact, a past day keeps its answer |
| As-of selections of the back test (`quant/backtest/us_pit_source.py`, `preloader.py`) | rows in memory, answers on disk by day and watermark | load in chunks or stream, select as of a day, cache | versioning, paper accounts | the table grows while it is read; files outlive their process | an answer from disk is the one the facts give |
| Market synchronisation, statements (`core/sync/manager.py`, `_utils.py`, `core/incremental.py`) | rows per statement, `sync_progress` | who is asked, threads per stock, status and then date in two commits, stop | fetchers, scheduler, commands | one statement ahead of another, failures and kills between the commits, runs side by side | what is behind is asked for; what the source shows is fetched in the end |
| Hong Kong capex (`core/sync/hk_fallback.py`, `scripts/backfill_hk_capex_tencent.py`, `extract_hk_capex_pdf.py`) | a column of the cash flow rows, queue file, audit file, views | detect, fill from Tencent (T1), queue, nightly read of PDFs (T2), refresh | market synchronisation, scheduler | two jobs rewrite one file, a synchronisation upserts NULLs beside them | no value is lost, no gap is forgotten |
| Fetchers (`core/fetchers/`) | circuit breaker counters, raw snapshots | fetch with retries | sources | breaker shared by threads | a broken source is left alone, then tried again |
| Scheduler (`core/scheduler.py`) | job log | run, retry, record | all of the above | overlap of runs, retry after partial work | a failure is recorded as one |
| Database access (`db.py`) | the pool | connect, execute, upsert | all | creation by two threads, commit rules | a write asked for is committed |
| Security universe (`core/sync/us_security_directory.py`, `us_universe_registry.py`) | directory rows and membership | refresh, activate | pipeline | partial refresh | a partial listing retires nothing |
| Web services (`web/`) | the same tables, background jobs | requests | all | jobs running when asked again | one job at a time |
| Market synchronisation, the rest (stock lists, quotes, indexes, dividends, share counts, industries) | the tables | upsert what the source has | fetchers, scheduler | partial failure of a batch | none beyond the upsert |
| Transformers, parsers, validation, screener, analyzer, metrics, back-test arithmetic, maintenance scripts, frontend | none, or rows read only | conversion, queries, real arithmetic, presentation | | | not state |

## 2. Plan

Done:

1. `SpacedRequests` (abstract), `SecGate`, `SecGateProofs`: what every SEC caller relies on.
2. `AnnouncementSec`, `AnnouncementSecProofs`: the SEC source of a round.
3. `PaperRun`, `PaperRunProofs`, `PaperSchedule`, `PaperScheduleProofs`: a run of an
   account, and its calendar.  `PaperRun` takes the rebalancing days as a constant;
   `PaperSchedule` says which they are.
4. `ReviewedRelease` (abstract), `BackfillBatch`, `BackfillBatchProofs`: one backfill
   batch under its commands.
5. `UsPipeline`, `UsPipelineProofs`: the daily job from the scope to the snapshots.
6. `FactVersions`, `FactVersionsProofs`: writers of the version layer, decisions about
   facts, the selection.  `PitCache` composes it with the back test's loads and files; the
   proofs about both are in `FactVersionsProofs`.
7. `MarketSync`, `HkCapex`, `MarketSyncProofs`: statements of the A and HK markets, and the
   fallback that fills one column of them.

Left, in this order: composite and cohort accounts in `PaperRun`; the IR and media sources
of a round; derived values and relations beside `FactVersions`; quotes and the other tables
of the market synchronisation; the activation rules of the directory.  Every invariant,
action property and refinement a run checks is proved; what is left to prove are weaker
hypotheses (section 5) and the steps the liveness properties rest on.

## 3. Modules

### SpacedRequests, SecGate, SecGateProofs

`SpacedRequests` is what the callers of the gate may assume: a request at a time, none
before the rest after the previous one is over and none during a pause the server
demanded.  `SecGate` models `get` step by step.  `pc` names the places in `_acquire_gate`
and `get` where a thread may be overtaken; `processLock` is `_process_lock`, `lock` the
advisory lock, `session[t]` whether the dedicated session is alive.  The row's two times
are kept as the ticks left (`nextIn`, `blockedIn`), deadlines as `budget` and `httpLeft`;
`Tick` is the only clock and cannot pass a deadline that code polls.  A lost session frees
the advisory lock at once while the child goes on downloading; a crash of the process
kills its children (`sec_http_worker.py` watches its parent).  `gap` and `demand` are
history: the rest owed since the last request, and the pause last demanded.

### AnnouncementSec, AnnouncementSecProofs

One company, several runners.  Days stand for filing dates and a list of date ranges is
the set of its days.  `view[r]` is what the round has read (check state, recovery row) and
decides from; `Load` commits the first window before any request; `Commit` is the
transaction of the source with its three outcomes `Complete`, `OnlyGapsLeft` and
`PendingLeft`; `Fail` is the rolled-back round with its second transaction; `Abort` a
round that found its session gone.  What the SEC lists is one of `Listings`, chosen anew
in each round; pages in `gone` answer 404.  `seen` is history.  `RecentAssumption` says
that the recent segment of a listing reaches back to the end of the first window (the SEC
keeps a year or 1000 filings in it); listings that break it are not modelled.  Gaps are
closed by an operator outside this code, so no action closes one.

### PaperRun, PaperRunProofs

One account with a normal preset.  A run of a runner goes through the steps of
`PaperTradingEngine.run`, one action per transaction or read it may be interrupted
between.  `money` and `held` are the portfolio in memory.  The strategy's choice is any
set of stocks, a new one each time it is asked; `Rebalanced` is `Portfolio.rebalance`
with all prices 1.  The account row's cash, the positions, the trades (one per date,
stock and side, as the unique index keeps them), the snapshots and the run log are the
rows.  `Fail` is any error in a run, `Refused` the check constraint on negative cash,
`Again` the retry of `run_single_account`, `Crash` a killed process.

### PaperSchedule, PaperScheduleProofs

Whether today's run rebalances, for which signal and at which day's prices, for accounts
with the monthly rule (`signalMonths = {}`) and cohorts.  `known` is how far the quotes go;
with `replay` they are all there from the start, as in a back test or when past days are
run again.  A run may be missed on any day.  `rebalances` keeps for each rebalance the
date it is logged by, the day it ran and the day it was priced at.

### ReviewedRelease, BackfillBatch, BackfillBatchProofs

`ReviewedRelease` is what a batch promises: what it publishes belongs to manifests a
person has approved after they were verified, it withdraws nothing but its own, and once
rejected all it published is withdrawn and it publishes no more.  `BackfillBatch` is one
batch.  A worker is a process that runs one command of the CLI; `pc` says how far it is,
`held` is the manifest it read or builds, `todo` the sources left, `at` the item in work.
Commands read the row once (`...Read`) and write it later (`...End`), and anything may
happen between; `apply` and `resume` go through the advisory lock (`lock`), the others do
not.  A killed worker (`Crash`) leaves its lock to its database session (`Ghost`) until
the server ends it.  `leased` says whether the lease is still running.  A company-facts
document is cumulative, so snapshot `n` of a stock holds its facts 1 to `n`, and a
manifest is the snapshot chosen for each stock; since snapshots are immutable, equal hashes
are equal manifests.  `file` is the manifest file, which a dry run rewrites too.  `owned`
are the facts whose `fact_source` row names an item of the batch.  `checked`, `reviewed` and
`synced` are history, which no step reads; `synced` are the facts the daily sync was the
first to store, noted there and not derived from `owned`, so that `RollbackIsExact` compares
what a rollback excludes with who really came first.  `verify_batch` is modelled by the checks that look at this batch; its checks
of the whole tables are taken as passed.  Facts of one key with two values (conflicts) are
left to the module on versioning.  Two constants say how the tool is used: `OneAtATime`,
that the commands without a lock run alone, and `BareRollback`, that a rollback may be
run without `--create-exclusion`.  The runbook of the backfill
(`docs/archive/us_financial_versioning/US_FINANCIAL_VERSIONING_PHASE2_RUNBOOK.md`) is the
first without the second; section 6 says what happens otherwise.

### UsPipeline, UsPipelineProofs

The scheduled job is `job`; its `pc` follows `_run_sync_job` and the orchestration it
retries: `Trigger`, `ScopeBuilt` or `ScopeUnresolved`, the directory (`DirectoryWhole`,
`DirectoryPartial`, `DirectoryFails`), `Filter`, for each ticker `Fetch`, `IngestPart` per
statement, `Record` or their failures, then `Classify` (outcomes, supplement, block or
project), `Read` chunk by chunk, `Write`, `Validate`; any failure ends the attempt
(`AttemptFails`), and what it stored stays.  `hand` is a projection or a reparse run by
hand beside it.  Company-facts documents are cumulative, so a statement of the version layer
is known by its latest filing (`layer`), and `snap` is what the snapshots show of it.  Time
stamps are kept as ages in days that saturate.  Publications fall between jobs, and a job
takes less than a day.  A ticker in `NoFacts` has a document without mappable facts.  Failures,
kills and commands by hand draw on one bound.

### FactVersions, FactVersionsProofs

One stock.  A snapshot's part is one statement, a sequence of rows; `writer[w]` is one
transaction: `BeginOnline` (one part of a document) or `BeginBackfill` (all of it), then
`FlushFiling` once per filing with the row lock it takes (`held`), `LoadExisting`, `Insert` with
`ON CONFLICT DO NOTHING`, `Commit`.  `Victim` is PostgreSQL ending one of two transactions that
wait for each other.  `FirstRows` and `BatchConflicts` are `_dedup_batch`.  Decisions (`Decide`)
are exclusions, revocations and reviews; approvals are written by `approve_case`, rejections
by SQL as the revenue review documents.  `SelectAsOf` and `AsOf` are the selection: exclusions,
the choice of a tag, the trust in restatements.  `answered`, `late` and `ruled` are history:
what a day was answered at its end, and what has touched it since.

### PitCache

Extends `FactVersions` by `tester`, the preloader of each process, and `cache`, the files.
`LoadRows` and `LoadExclusions` are two reads with anything between; `LoadStreaming` keeps
the watermark alone and selects later from the rows of then.  One stock is one chunk, and
the proof (in `FactVersionsProofs`) takes the rows read for any subset of the facts.

### MarketSync, MarketSyncProofs

`out` is what the sources have, `held` the greatest date of each statement in the database,
`progress` the row of `sync_progress`.  `work[r][s]` is the thread of a stock, `main[r]` the main
thread, which stores the status with the tables (`SaveProgress`) and then reads and writes
the date in two more steps (`ReadMerged`, `ReadLast`, `WriteLast`).  `Stop` is a signal, `Crash` a
kill.  A month stands for a date: a deadline plus five days is the month that follows.  `dated`
is history: the tables the stored date was computed over.

### HkCapex (proofs in MarketSyncProofs)

A slot is a stock and a type of report, its rows are numbered.  `filled` are the rows with a
capex, `shown` those the views had at their last refresh.  `fallback` is the job after the
synchronisation (`Detect`, `T1Check`, `T1Write`, `DetectAgain`, `LoadSkipKeys`, `LoadQueue`,
`Append2Queue`), `drain` the nightly one (`LoadBatch`, then `Found`, `Hopeless` or `Unreadable`
for each entry, `SaveQueue`).  The scheduler starts each job once at a time, so there is one
of each; they overlap, and `Sync` goes on beside both.  The specification is `CapexSpec`, as
`PitSpec` is that of `PitCache`: its names differ from those of `MarketSync`, since one module
extends both to prove about them.

## 4. Runs

| Run | Shows | Bounds, and why they suffice |
|---|---|---|
| `sec_gate` | `OneInFlight`, the refinement `ServesSerially` and `EveryGetEnds`, with crashes and lost sessions at every step | two processes; interval 1, HTTP 2, budget 3 ticks, one retry and one redirect: a request can outlive its session, a second one can be at the gate meanwhile, and each deadline can fall into each step |
| `sec_gate_shared` | `DemandHonoured`, with crashes and lost sessions | three threads in two processes, so that both locks are contended; pauses of 1 and 2 ticks |
| `announcement_sec` | `FreshView`, `CheckpointStopsAtGaps`, `ProgressKept` | two runners, seven days, window of five, three listings, four sets of missing pages |
| `announcement_sec_served` | `CoveredIsSeen`, `GapsAreUnavailable`, `CatchesUp` with every page served and scans cut anywhere | two runners, two more days after the first window |
| `paper_run` | `SuccessIsWhole`, `DoneIsFinal`, `WorthConserved` | two stocks, three days (rebalance, valuation, rebalance), costs 0 or 1, two faults: enough for a failed run, its retry failing too, and the next day |
| `paper_schedule` | `SignalActedOnce`, `ReplayOnPlan`, `SignalServed` | two months of four days and the start of a third, sessions with holidays between, lag 2, tolerance 2; live and replayed accounts with no, one and two signal months |
| `backfill_batch` | `WriterOwnsBatch`, `AppliedIsWhole`, `RollbackIsExact` and the refinement `ReleasesReviewed`, with kills at every step, signals, failed sources, re-staging over newer snapshots and the daily sync | two workers, two stocks (an apply can stop between them), the first with two snapshots and the daily sync (`Updated`), one takeover (`MaxResumes`); a second round of stage to apply follows it, as well as any number of re-stagings without one |
| `us_pipeline` | `PublishGate`, `DiscoveryLag`, `FilingPublished` | a ticker that comes into the index, leaves it and has two filings, and one whose document has no facts and is excused; two statements, two attempts, two faults or commands, two index changes, one day of rest; the intervals scaled to 1, 2, 2 and 1 days, so that each of the three rules decides for some age |
| `fact_versions` | `NothingLost`, `EvidenceMatches` | two writers, three filings, two documents of two statements that repeat, restate and duplicate keys and list the filings in different orders, one failure; decisions, which no step of an ingest reads, are left to `pit_cache` (`IngestSpec`) |
| `pit_cache` | `NoHindsight`, `CacheFresh` | two documents of one statement with a restated cash and a revenue in two parts, two days, one writer, two decisions, one process (started again any number of times) and one file |
| `market_sync` | `LaggardAsked`, `NewReportFetched` | one stock, two statements, the job and a forced command side by side, periods 6 and 12 and the months of their deadlines, one fault: stocks share no state, so that a second one adds nothing |
| `hk_capex` | `OnceInQueue`, `NullIsShown` | one slot with two reports, so that an entry can be overtaken; one entry per night, so that a night leaves a rest; two faults |

Every module's `TypeOK` (`CapexTypeOK` in `HkCapex`) is checked in the first of its runs.  Deadlock is checked everywhere
but in the calendar, whose days end with the bound.

Fairness.  In `sec_gate` each thread's own steps and the clock are weakly fair: they are
ordinary code, and time passes; nothing is assumed of the server or of the faults.  In
`announcement_sec_served` the interval trigger keeps starting rounds, and rounds that are
able again and again to read and to finish an uncut fetch at some time do so (strong
fairness: failures and lost sessions may take every other turn, not all of them).  In
`paper_schedule` days pass, the daily synchronisation stores quotes, and cron runs the
account; any single run may be missed.  In `us_pipeline` days pass, and the job's and a
command's own steps go on; failures are bounded, and nobody has to run anything by hand.  In
`market_sync` cron starts the job again and again and its threads go on, and a statement
that is asked for again and again is served some time (strong fairness per statement);
nothing is assumed of the command.  In `hk_capex` both jobs are started and go on, a refresh
that is tried again and again works some time, and so does reading an announcement, in the
sense that it is understood or somebody is asked to look at it.

## 5. Proofs

For every value of the constants under the assumptions named in the modules:

- `SecGateProofs`: `GateTyping`, `SerialRequests`, `ReservationHolds`, `LockNeverLeaks`, and
  `GateServesSerially`, the refinement of `SpacedRequests`.  The inductive invariant
  `GateInv` adds to the properties who owns the two locks (`MutexOwned`, `LockOwned`), that
  the row still says go when the reservation is written (`OpenAtReserve`), that a thread
  that may be sending without its session excludes any other past its reservation
  (`HotAlone`), and that what the gate let through is still allowed when it is sent
  (`QuietBeforeSend`): serial requests do not follow from the lock alone, since a request
  outlives the session, but from the reservation that outlasts it.  `DemandIsHonoured`
  needs besides that a pause once demanded is in the row, or with the one thread that is
  about to store it (`DemandKnown`).
- `AnnouncementSecProofs`: `CollectorTyping`, `RoundsReadFresh`, `CheckpointWaitsForGaps`,
  `ProgressIsKept`, `WindowIsFixed`, from one invariant (`IInv`) that relates the holder's
  view to the rows it was read from: rows change only in the session that holds the lock.
  `CoveredDaysAreSeen` adds that every day of a window is stored or scanned again when the
  window is resumed (`Resumable`), and that the window a round works on reaches as far as
  the stored one (`WindowAhead`).  It assumes `NeverBoth`: scans are never cut, or every page
  is served and the directory has no holes; a round with both pending and missing pages
  forgets the missing ones (section 6, `sync.py:437`).  `GivenUpIsUnavailable` assumes that
  directories that are not empty list the same days (`Agreeing`), and that scans are never cut
  or every page is served (section 6, `sync.py:320`).
- `PaperRunProofs`: `PaperTyping`, for any number of runners: the cash of a run is not
  negative between its trades and its account row (`Solvent`).  With one runner,
  `DoneDaysStay`: a day logged as a success keeps its value and its trades, since a run past
  the check of the log works on a day that is not logged; and `SuccessesAreWhole`: such a day
  has its value and its pick, because a run knows what it has already stored of the day
  (`RunKnows`) and no day to come is logged (`LogWhole`).  The check is not repeated when the
  log is written, so that a second runner breaks them (section 6, `engine.py:719`).
  `WorthIsConserved` has the books of the run in memory (`Books`) beside those on record
  (`OnRecord`); both add up to the capital, except on record between the transactions for
  positions and account.  It assumes one runner and `EvenShares`: `portfolio.py:94` deals in fractions of shares, the
  model in whole ones, so the capital is to divide evenly.  `MarketValue` is a fold over the
  stocks; what it sums up to is shown by a least counterexample, as no induction theorem
  can be applied.
- `PaperScheduleProofs`: `CalendarTyping`; `SignalsActedOnce`, for every calendar and whatever
  the quotes show, since each rule asks the log for the signal it acts on; and
  `ReplaysAreOnPlan`.  Its invariant (`ReplayKnows`) says that a replay has all quotes, that
  every signal acted on is the last session of its own month, so that a month cannot have
  two, and that a cohort's rebalance is priced `Lag` sessions after its signal.
  `ExecDate` walks from a signal to its day session by session; `WalkCounts` counts the sessions passed.  It assumes that
  the next session is found from every session but the last (`SessionsClose`: the code looks
  `Horizon` days ahead), and that there are `Lag` sessions after a signal month that is reached
  (`RoomToTrade`): where quotes end the code takes the last one it has, the item on
  `engine.py:160` in section 6.
- `BackfillBatchProofs`: `BatchTyping`, `OneOwner`, `AppliedBatchesAreWhole`,
  `RollbacksAreExact` and `BatchReleasesReviewed`, the refinement of `ReviewedRelease`,
  under `ByTheBook` (`OneAtATime` and no `BareRollback`).  None of the properties is
  inductive: the check of the status was made before the lock was taken.  The invariant
  says that what a command read is still so when it writes (`HandKnows`, which needs
  `Solo`), that an apply from its check on has the manifest the row was approved with,
  though without the lock at first (`ApplyKnows`), that the lock belongs to whoever is
  between enter and exit (`HoldsLock`), that what is off an apply's list is in the table
  (`Progress`), what each status says of the manifest beside it (`RowKnows`), and that every
  fact has one first writer, the batch or the sync (`Ownership`).
- `UsPipelineProofs`: `TypeCorrect` and `PublishGateHolds`.  The invariant (`GateInv`) says that
  past the directory the scope is in it (`DirectoryDone`: the index and the list of listed
  tickers do not change under a job), that a ticker of the attempt whose row says failed is
  among the failures of the attempt or still to be asked (`FailuresAccounted`), and that a job
  that reads for the snapshots was not blocked (`ReadsBehindGate`).  `FilingsAreDiscovered`:
  without failures no filing of a synchronised ticker is left out for longer than the
  cooldown, a rest of the job, and the run in which a ticker that left the index comes into
  the supplement.  Its invariant (`LagInv`) says of each ticker how its
  ages are ordered, what a recorded run had seen (`SyncKnows`) and how old what came after
  may be by now (`InTime`), and of the job that a ticker it has dealt with, or does not ask,
  has nothing older in store than the cooldown (`AskedInTime`).  It assumes that the two
  intervals are at most a day longer than the cooldown (`IntervalsShort`; they are 14 and 7
  days, it is 60); a longer one would leave a filing out beyond the bound.  Ages saturate at
  `OldAge`: with an `OldAge` below the bound the property says nothing.
- `FactVersionsProofs`, about ingests: `TypeCorrect`, `IngestInvariant`, `EvidenceHolds`,
  `NothingIsLost`.  The invariant adds to the types that a filing is locked by one transaction
  (`LocksInv`), and that what a transaction found missing in the filings it has locked is
  missing still (`FreshInv`); from this a key has one fact (`OneFactInv`) whose source holds
  its value (`SourceInv`).
- `FactVersionsProofs`, about `PitCache`: `PitNoHindsight`, because the selection of a day looks
  at nothing but what was filed, excluded and reviewed as of it; and `CacheStaysFresh`.  Its
  invariant says that every watermark in use is that of a subset of the facts (`Seen`).  Facts
  are only added, so a subset that counts as many as the table is the table: the greatest id
  alone would not do, since ids are committed out of order.
- `MarketSyncProofs`: `TypeCorrect` and `LaggardIsAsked`: a date computed over all tables that
  were ever synced is the least of their dates or older, so a laggard makes the greatest
  date of the stock differ from it.
- `MarketSyncProofs`, about `HkCapex`: `CapexTyping`, of which the point is that what the views show stays filled, and `QueuedOnce`.  Neither job locks the file.
  The invariant (`QueueInv`) says that what the nightly job will put back is a part of the
  file as it is by then, and that a fallback about to append knows all of the file: the
  nightly job only takes out, the fallback only adds what it does not know, so their stale
  copies lose entries but never double one.

Proved without a run of their own, since the refinement and the properties beside them
are checked: `LockNeverLeaks` (`LockHeldInside`), `ReservationHolds` (`ReservationCovers`) and
`WindowIsFixed` (`BackfillWindowFixed`).

The hypotheses about constants are named definitions of the proof modules, and the instances
of section 4 satisfy them.  `PaperRun` and `HkCapex` assume finitely many stocks, because
a sum over them, or a list of them, means nothing otherwise.

Model-checked only: the liveness properties (`EveryGetEnds`, `CatchesUp`, `SignalServed`,
`FilingPublished`, `NewReportFetched`, `NullIsShown`), which need fairness and ENABLED, out of
the prover's reach.

## 6. Where the code and its documents part

Met while modelling.  The properties above are worded so that they hold of the code as it
is; each item says what does not.

Announcements and the gate:

- A missing page found in a round that leaves pages pending is recorded nowhere
  (`sync.py:437`), and a later round claims its days; the module comment (`sync.py:25-28`)
  says a gap is kept.  A page not asked for because the budget ran out becomes a permanent
  gap when it lies next to a missing page (`sync.py:320`).
- A process or session that dies between the answer and `gate.finish` (`sec_client.py:302`)
  takes the demanded pause with it, while `docs/SEC_SHARED_REQUEST_LIMIT_PLAN.md:113` promises
  it to others; `DemandHonoured` leaves out exactly these.

Paper trading:

- The retry of a run that failed between positions and account counts its wealth twice
  (`engine.py:839`; `docs/quant/PAPER_TRADING_PLAN.md:184`), and the cost of a full rebalance makes the
  cash negative, the snapshot is refused, and the retry charges nothing (`engine.py:830`).
  `WorthConserved` speaks of days without costs and failures.
- With a second runner the worth is not conserved even without faults: nothing holds the
  run log between its check and its row (`engine.py:719`).
- A holding sold off is recorded at the price it was bought for (`engine.py:415-416`), where
  the comment above promises the day's price; prices are 1 in `PaperRun`.  A composite
  strategy's cash is stored per account (`engine.py:353`).
- On a live account the last day known is taken for the last of the month
  (`common.py:64`, `engine.py:152`), so it rebalances day after day; and a live cohort
  rebalances on its signal day, whatever `execution_lag_sessions` says, as long as later
  sessions have no quotes (`engine.py:160`).  `ReplayOnPlan` speaks of replays.

Backfill batches:

- A rollback without `--create-exclusion` is refused only for batches that say applied
  (`backfill_us_financial_versions.py:1165`); a batch that failed, was interrupted or was
  killed while applying keeps its facts selected when it is rejected.  With
  `BareRollback = TRUE` in `BackfillBatch.cfg`, `ReleasesReviewed` and `RollbackIsExact` fail.
  The runbook says that marking a batch rejected is not safe without exclusions (line 379).
- The commands without a lock write the status without looking at it again
  (`:1026`, `:732`, `:1176`).  With `OneAtATime = FALSE` a verify that was overtaken breaks
  `WriterOwnsBatch` and `ReleasesReviewed` (it takes a batch back from rejected), a stage that
  was overtaken breaks `AppliedIsWhole`.
- `apply` checks the status before it has the lock (`:817`, `:824`) and not again.  One that waits
  between the two while another apply is interrupted goes on with a batch that is
  interrupted, its lease still running, or back at staged after a resume; the runbook forbids
  both (lines 271 and 273).  The manifest it writes is still the approved one, which is what
  `WriterOwnsBatch` and `ReleasesReviewed` say.
- A rollback excludes what the batch was the first to insert, also where the daily sync has
  seen it again since: such a fact is only counted as repeated and stays excluded.
- A worker killed while applying leaves the status applying, which `resume` refuses
  (`:1203`), though lease and lock exist to find such a worker.  `resume` goes to staged and so
  through verify and approve again (`:1241`), where the runbook's transition goes from
  resume_pending to applying (line 273).
- The advisory lock is one per batch (`us_financial_worker.py:95`), where the runbook promises one
  that keeps two backfills of a stock apart (line 676).  What keeps writers of a stock apart
  is not the lock the comment names (`fetchers/us_financial.py:1537-1541`) but the row lock
  of each upserted filing (`us_financial_versioning.py:661-700`); `FreshInv` rests on it.

US pipeline and versioning:

- A retry that finds everything up to date reports a success though nothing was projected
  (`scheduler.py:941`; `docs/core/US_SECURITY_DIRECTORY_SYNC_PLAN.md:132`): what the failed attempt
  ingested is shown by the next day's job that has something to ingest for its own reasons.
- A kill between two statements of a document leaves a ticker that counts as known by its
  newest filing (`us_market.py:95`; `docs/core/US_PHASE_C_SYNC_CUTOVER_TASK.md:75`): the rest is
  ingested when it is next asked, after the interval.
- The supplement is decided before the blocking decision and with whatever scope the
  failed attempt has (`scheduler.py:862`), so members of an index that could not be resolved get
  into the supplement list, from which nothing takes them (`us_universe_registry.py:247`).
- The key of a cached answer knows nothing of exclusions and reviews (`preloader.py:151`;
  `docs/core/US_PHASE_B4_PIT_BACKTEST_TASK.md:28`): an answer made before a decision is still taken
  after it.  `CacheFresh` speaks of days nobody has decided about.
- A back test that does not stream compares the `effective_from` of a business veto, a
  timestamp in the database, with a date (`us_pit_source.py:318-320`), which Python refuses: with an
  active veto it ends with an exception.  The unit test passes a date
  (`test_us_pit_source.py:113`).  `PitCache` models the comparison that is meant.
- A veto that is renewed or revoked, and a review, change the answers of past days
  (`us_financial_exclusion.py:46-57`; runbook line 376).

A and HK markets:

- Status and tables are committed before the date that is computed over them
  (`manager.py:173-185`, `:194`; `incremental.py:457`).  What comes between leaves a date that does
  not belong to the tables, against the comment at `incremental.py:401-402`; `LaggardAsked`
  holds where the date is computed over what is synced.
- A company whose last report ends in another month than a quarter's is never asked again
  once it is complete (`incremental.py:208-209`).
- A stopped run goes on fetching for all stocks and records none of them (`manager.py:155`).
- T1 and T2 check for a NULL and upsert later (`extract_hk_capex_pdf.py:254`), so a value stored in
  between is replaced, where the plan says existing values are never touched
  (`docs/core/HK_CAPEX_SYNC_AUTO_FALLBACK_PLAN.md:52`).
- An entry appended while the nightly job works is lost when it writes the rest of the
  queue (`hk_fallback.py:272`); it comes back with the next detection.  A key audited as
  hopeless by a nightly job after the fallback read the audit is queued once more (plan,
  line 44).  Half a line left by a kill stops every later `load_queue` (`hk_fallback.py:108`).  A
  NULL of an older report is not looked for once a newer one is there.

## 7. Not modelled

- Whole parts: the rows of section 1 from the fetchers on, except for what the modules
  take from the scheduler, the directory and `upsert` (`PROJECT.json`, components).
- Announcements and paper accounts: the order of candidates and the attempt counters of a
  round, the contents of filings, prices and returns (real arithmetic), composite presets,
  differential rebalancing with a cost rate (only back tests use it), benchmark values, and
  the failed row that `save_failed_run` writes for display.
- Batches: the `scan` report, audit rows and counters, batches beside each other, several
  sources of one stock (ADT), a session lost by a live worker.
- US pipeline: delisting, the identity rules inside the directory, the enrichment columns of
  the snapshots and what the validation computes.  A ticker with facts is taken to have a
  TTM row.
- Versioning: the relations of facts and the COGS fallbacks, staging tables, disallowed tags,
  dimensions, values that are not numbers, the bases latest-observed and first-reported, and
  shares and stock names, which a cached universe holds too without being in its watermark.
  A file of the cache is written in one step.
- Market synchronisation: the size of the thread pool; the two queries that say who is asked
  are one step; the sources serve their whole history each time.
- Hong Kong capex: values are not told apart, an append is one step, and the fallback is not
  run by hand beside the scheduler.
