----------------------------- MODULE UsPipeline -----------------------------
(***************************************************************************)
(* The daily US financial job: core/scheduler.py (_run_sync_job and the    *)
(* orchestration it retries), core/sync/us_market.py (which tickers are    *)
(* asked again, and the ingest of each), core/sync/us_security_directory.py*)
(* (who may be collected), core/us_universe_registry.py (who is added to   *)
(* the supplement list) and scripts/project_us_financial_snapshots.py (the *)
(* snapshots that every reader shows).  Beside it one person at a time may *)
(* run the projection or the reparse by hand.                              *)
(*                                                                         *)
(* The filings of a ticker are numbered; a company-facts document is       *)
(* cumulative, so a statement of the version layer is known by the number  *)
(* of the latest filing ingested into it.  A time stamp T is kept as the   *)
(* days since T, saturated at OldAge, where the code no longer tells days  *)
(* apart.                                                                  *)
(***************************************************************************)
EXTENDS Naturals, FiniteSets

CONSTANTS
  Tickers,
  Indexed,        \* the index and stock_info as the run finds them at first
  NoTicker,
  Parts,          \* income, balance, cash flow: ingested in this order
  NoFacts,        \* tickers whose documents hold no mappable us-gaap fact
  Excused,        \* [Tickers -> SUBSET Kinds]: rows of EXPECTED_SKIPS.csv
  MaxAttempts,    \* config.scheduler.max_retries
  Cooldown,       \* _US_FRESH_FILING_COOLDOWN, 60 days
  MidCycle,       \* 75 days
  MidInterval,    \* _US_MID_CYCLE_REFETCH_INTERVAL, 14 days
  WindowInterval, \* _US_FILING_WINDOW_REFETCH_INTERVAL, 7 days
  OldAge,         \* bound: where ages saturate
  MaxFilings,     \* bound: filings of one ticker
  MaxFaults,      \* bound: failures, crashes and commands run by hand
  MaxIndexes,     \* bound: reconstitutions of the index
  MaxRest         \* bound: days in a row without a run (weekend)

Kinds == {"cik_mapping", "no_data", "fetch_404", "fetch_other", "ingest",
          "zero_facts"}

ASSUME PipelineAssumption ==
  /\ Indexed \subseteq Tickers
  /\ NoFacts \subseteq Tickers
  /\ NoTicker \notin Tickers
  /\ Excused \in [Tickers -> SUBSET Kinds]
  /\ {Parts, MaxAttempts, MaxFilings} \subseteq Nat \ {0}
  /\ {Cooldown, MidCycle, MidInterval, WindowInterval, OldAge, MaxFaults,
      MaxIndexes, MaxRest} \subseteq Nat
  /\ Cooldown <= MidCycle
  /\ MidCycle < OldAge

VARIABLES
  published,   \* filings of each ticker at the SEC
  age,         \* the days since each filing
  index, listed, supplement,   \* the index, US rows of stock_info, the CSV
  raw,         \* the filings in the latest raw_snapshot_version
  layer,       \* us_filing and us_financial_fact_version, by statement
  progress,    \* sync_progress: status and days since last_sync_time
  snap,        \* us_financial_current_annual and _ttm, by statement
  valid,       \* history: the snapshots were validated as they now are
  job,         \* the scheduled job
  hand,        \* the command run by hand
  due, rest, faults, indexes

world == <<published, age, index>>
tables == <<listed, supplement, raw, layer, progress>>
shown == <<snap, valid>>
bounds == <<due, rest, faults, indexes>>
vars == <<published, age, index, listed, supplement, raw, layer, progress,
          snap, valid, job, hand, due, rest, faults, indexes>>

Filings == 0..MaxFilings
Statements == 1..Parts
Nothing == [p \in Statements |-> 0]
Contents == [Statements -> Filings]

\* The newest filing any statement of t was ingested from (us_filing).
Known(t) ==
  CHOOSE n \in Filings : /\ \E p \in Statements : layer[t][p] = n
                         /\ \A p \in Statements : layer[t][p] <= n

\* What a projection has read so far of the stocks it projects.
Sightings == UNION {[S -> Contents] : S \in SUBSET Tickers}
Unseen == [t \in {} |-> Nothing]

Jobs == [pc : {"idle", "scope", "directory", "filter", "pick", "ingest",
               "record", "classify", "read", "validate", "wait"},
         attempt : 0..MaxAttempts,
         directory : {"none", "success", "blocked"},
         inserted : SUBSET Tickers,
         collectable : SUBSET Tickers,
         todo : SUBSET Tickers,
         ticker : Tickers \cup {NoTicker},
         part : 0..Parts,
         synced : SUBSET Tickers,
         noWrite : SUBSET Tickers,
         failures : SUBSET (Tickers \X Kinds),
         aborted : BOOLEAN,
         stocks : SUBSET Tickers,
         seen : Sightings]

NoJob == [pc |-> "idle", attempt |-> 0, directory |-> "none", inserted |-> {},
          collectable |-> {}, todo |-> {}, ticker |-> NoTicker, part |-> 0,
          synced |-> {}, noWrite |-> {}, failures |-> {}, aborted |-> FALSE,
          stocks |-> {}, seen |-> Unseen]

Hands == [pc : {"idle", "read", "reparse"},
          ticker : Tickers \cup {NoTicker},
          part : 0..Parts,
          document : Filings,
          stocks : SUBSET Tickers,
          seen : Sightings]

NoHand == [pc |-> "idle", ticker |-> NoTicker, part |-> 0, document |-> 0,
           stocks |-> {}, seen |-> Unseen]

\* What is in the index has been collected for long; the others are new to
\* the database.  Each has filed once.
Init ==
  /\ published = [t \in Tickers |-> 1]
  /\ age = [t \in Tickers |-> [n \in 1..MaxFilings |-> 0]]
  /\ index = Indexed
  /\ listed = Indexed
  /\ supplement = {}
  /\ raw = [t \in Tickers |-> IF t \in Indexed THEN 1 ELSE 0]
  /\ layer = [t \in Tickers |-> [p \in Statements |->
                IF t \in Indexed \ NoFacts THEN 1 ELSE 0]]
  /\ progress = [t \in Tickers |->
                   IF t \in Indexed \ NoFacts
                   THEN [status |-> "success", days |-> 0]
                   ELSE [status |-> "none", days |-> 0]]
  /\ snap = layer
  /\ valid = TRUE
  /\ job = NoJob
  /\ hand = NoHand
  /\ due = FALSE
  /\ rest = 0
  /\ faults = 0
  /\ indexes = 0

-----------------------------------------------------------------------------
(* The world *)

Older(n) == IF n < OldAge THEN n + 1 ELSE OldAge

\* The next day; the cron fires on it unless it is a day of rest.  A job or
\* a command takes less than a day.
NextDay ==
  /\ job.pc = "idle"
  /\ hand.pc = "idle"
  /\ ~due
  /\ \/ due' = TRUE /\ rest' = 0
     \/ due' = FALSE /\ rest < MaxRest /\ rest' = rest + 1
  /\ age' = [t \in Tickers |-> [n \in 1..MaxFilings |->
               IF n <= published[t] THEN Older(age[t][n]) ELSE 0]]
  /\ progress' = [t \in Tickers |->
       IF progress[t].status = "success"
       THEN [progress[t] EXCEPT !.days = Older(@)] ELSE progress[t]]
  /\ UNCHANGED <<published, index, listed, supplement, raw, layer, shown, job,
                 hand, faults, indexes>>

\* What appears while the job runs is as if it had appeared just before or
\* after.
Publish(t) ==
  /\ job.pc = "idle"
  /\ hand.pc = "idle"
  /\ published[t] < MaxFilings
  /\ published' = [published EXCEPT ![t] = @ + 1]
  /\ UNCHANGED <<age, index, tables, shown, job, hand, bounds>>

Reconstitute ==
  /\ indexes < MaxIndexes
  /\ job.pc = "idle"
  /\ hand.pc = "idle"
  /\ \E t \in Tickers \ NoFacts :
       index' \in {index \cup {t}, index \ {t}} \ {index, {}}
  /\ indexes' = indexes + 1
  /\ UNCHANGED <<published, age, tables, shown, job, hand, due, rest,
                 faults>>

\* One of the bounded number of things that go wrong or are done by hand.
Fault == faults < MaxFaults /\ faults' = faults + 1

-----------------------------------------------------------------------------
(* _run_sync_job: attempts, retries, and what is reported *)

Trigger ==
  /\ job.pc = "idle"
  /\ due
  /\ due' = FALSE
  /\ job' = [NoJob EXCEPT !.pc = "scope", !.attempt = 1]
  /\ UNCHANGED <<world, tables, shown, hand, rest, faults,
                 indexes>>

\* Mutant: the attempts are counted from one too low.
AttemptFailsLate ==
  job' = [NoJob EXCEPT !.pc = "wait", !.attempt = job.attempt + 1]

\* The orchestration raised: the whole of it is tried again after a delay.
AttemptFails ==
  job' = IF job.attempt < MaxAttempts
         THEN [NoJob EXCEPT !.pc = "wait", !.attempt = job.attempt] ELSE NoJob

Retry ==
  /\ job.pc = "wait"
  /\ job' = [NoJob EXCEPT !.pc = "scope", !.attempt = job.attempt + 1]
  /\ UNCHANGED <<world, tables, shown, hand, bounds>>

\* The scheduler process is killed; systemd starts it anew, and it waits for
\* the next day.
Crash ==
  /\ Fault
  /\ job.pc # "idle"
  /\ job' = NoJob
  /\ UNCHANGED <<world, tables, shown, hand, due, rest, indexes>>

-----------------------------------------------------------------------------
(* build_us_sync_scope, the directory and R2 *)

Scope == index \cup supplement

ScopeBuilt ==
  /\ job.pc = "scope"
  /\ job' = [job EXCEPT !.pc = "directory"]
  /\ UNCHANGED <<world, tables, shown, hand, bounds>>

\* auto_register_supplement: active universe, not in the scope, not excused.
Uncovered(scope, expected) == (listed \ scope) \ expected

\* The members of an index could not be resolved.  _sync_us returns early
\* with an empty scope, and the stages up to the blocking decision still run
\* with it: reconciliation and R2.
ScopeUnresolved ==
  /\ Fault
  /\ job.pc = "scope"
  /\ supplement' = supplement \cup Uncovered({}, {})
  /\ AttemptFails
  /\ UNCHANGED <<world, listed, raw, layer, progress, shown, hand, due, rest,
                 indexes>>

\* sync_us_security_directory with every candidate approved or existing.
DirectoryWhole ==
  /\ job.pc = "directory"
  /\ listed' = listed \cup Scope
  /\ job' = [job EXCEPT !.pc = "filter", !.directory = "success",
                        !.inserted = Scope \ listed, !.collectable = Scope]
  /\ UNCHANGED <<world, supplement, raw, layer, progress, shown, hand,
                 bounds>>

\* Some of the scope is rejected, or nothing new can be approved because the
\* company list of the SEC is not available; what is approved is inserted.
DirectoryPartial ==
  /\ Fault
  /\ job.pc = "directory"
  /\ \E rejected \in SUBSET Scope :
       /\ listed' = listed \cup (Scope \ rejected)
       /\ job' = [job EXCEPT !.pc = "filter", !.directory = "blocked",
                    !.inserted = Scope \ (rejected \cup listed),
                    !.collectable = Scope \ rejected]
  /\ UNCHANGED <<world, supplement, raw, layer, progress, shown, hand,
                 due, rest, indexes>>

\* The transaction failed, or the evidence could not be written after it had
\* been committed: nothing is collectable.
DirectoryFails ==
  /\ Fault
  /\ job.pc = "directory"
  /\ listed' \in {listed, listed \cup Scope}
  /\ job' = [job EXCEPT !.pc = "filter", !.directory = "blocked"]
  /\ UNCHANGED <<world, supplement, raw, layer, progress, shown, hand,
                 due, rest, indexes>>

-----------------------------------------------------------------------------
(* _filter_pending_us_tickers and the tickers one after the other *)

\* Tickers are sorted: one order, whichever it is.
NextOf(S) == CHOOSE t \in S : TRUE

\* Mutant: a ticker with data and a successful row is up to date.
PendingOnce(t) == Known(t) = 0 \/ progress[t].status # "success"

\* Is t asked again?  What is known says where it is in its filing cycle.
Pending(t) ==
  \/ Known(t) = 0
  \/ progress[t].status # "success"
  \/ LET known == age[t][Known(t)] IN
     /\ known > Cooldown
     /\ progress[t].days >= IF known <= MidCycle THEN MidInterval
                            ELSE WindowInterval

Filter ==
  /\ job.pc = "filter"
  /\ job' = IF job.collectable = {} THEN [job EXCEPT !.pc = "classify"]
            ELSE [job EXCEPT !.pc = "pick",
                             !.todo = {t \in job.collectable : Pending(t)}]
  /\ UNCHANGED <<world, tables, shown, hand, bounds>>

\* The company list, a query, or the note of a failure raised: sync_us_market
\* returns an error or is left, and _sync_us records an index error.
SyncAborts ==
  /\ Fault
  /\ \/ job.pc = "filter" /\ job.collectable # {}
     \/ job.pc \in {"pick", "ingest", "record"}
  /\ job' = [job EXCEPT !.pc = "classify", !.aborted = TRUE, !.todo = {},
                        !.ticker = NoTicker, !.part = 0, !.synced = {},
                        !.noWrite = {}, !.failures = {}]
  /\ UNCHANGED <<world, tables, shown, hand, due, rest,
                 indexes>>

Failed == [status |-> "failed", days |-> 0]

NextTicker(j, t) == [j EXCEPT !.pc = "pick", !.todo = @ \ {t},
                              !.ticker = NoTicker, !.part = 0]

\* Only a failure that was raised is noted in sync_progress.  A document of
\* another company (kind identity) is refused as fetch_other is, and that one
\* may come after the document was kept.
FetchFails ==
  /\ Fault
  /\ job.pc = "pick"
  /\ job.todo # {}
  /\ LET t == NextOf(job.todo) IN
     \E kind \in {"cik_mapping", "no_data", "fetch_404", "fetch_other"} :
       /\ job' = [NextTicker(job, t) EXCEPT !.failures = @ \cup {<<t, kind>>}]
       /\ progress' = IF kind \in {"fetch_404", "fetch_other"}
                      THEN [progress EXCEPT ![t] = Failed] ELSE progress
       /\ raw' \in {raw} \cup (IF kind = "fetch_other"
                             THEN {[raw EXCEPT ![t] = published[t]]} ELSE {})
  /\ UNCHANGED <<world, listed, supplement, layer, shown, hand,
                 due, rest, indexes>>

\* fetch_company_facts_with_context: the document is kept before it is parsed.
Fetch ==
  /\ job.pc = "pick"
  /\ job.todo # {}
  /\ LET t == NextOf(job.todo) IN
     /\ raw' = [raw EXCEPT ![t] = published[t]]
     /\ job' = IF t \in NoFacts
               THEN [NextTicker(job, t) EXCEPT !.noWrite = @ \cup {t}]
               ELSE [job EXCEPT !.pc = "ingest", !.ticker = t, !.part = 1]
  /\ UNCHANGED <<world, listed, supplement, layer, progress, shown, hand, bounds>>

\* Mutant: the facts of a filing that is known are not looked at.
IngestedOnce(t, p, document) ==
  IF document <= Known(t) THEN layer ELSE [layer EXCEPT ![t][p] = document]

\* Facts are added and none is removed.
Ingested(t, p, document) ==
  [layer EXCEPT ![t][p] = IF document > @ THEN document ELSE @]

\* _write_version_layer for one statement, in a transaction of its own.
IngestPart ==
  /\ job.pc = "ingest"
  /\ layer' = Ingested(job.ticker, job.part, raw[job.ticker])
  /\ job' = IF job.part < Parts THEN [job EXCEPT !.part = @ + 1]
            ELSE [job EXCEPT !.pc = "record"]
  /\ UNCHANGED <<world, listed, supplement, raw, progress, shown, hand,
                 bounds>>

IngestFails ==
  /\ Fault
  /\ job.pc = "ingest"
  /\ job' = [NextTicker(job, job.ticker) EXCEPT
               !.failures = @ \cup {<<job.ticker, "ingest">>}]
  /\ progress' = [progress EXCEPT ![job.ticker] = Failed]
  /\ UNCHANGED <<world, listed, supplement, raw, layer, shown, hand,
                 due, rest, indexes>>

Record ==
  /\ job.pc = "record"
  /\ progress' = [progress EXCEPT
                    ![job.ticker] = [status |-> "success", days |-> 0]]
  /\ job' = [NextTicker(job, job.ticker) EXCEPT !.synced = @ \cup {job.ticker}]
  /\ UNCHANGED <<world, listed, supplement, raw, layer, shown, hand,
                 bounds>>

\* The success was counted before its row failed: it is counted twice.
RecordFails ==
  /\ Fault
  /\ job.pc = "record"
  /\ progress' = [progress EXCEPT ![job.ticker] = Failed]
  /\ job' = [NextTicker(job, job.ticker) EXCEPT
               !.synced = @ \cup {job.ticker},
               !.failures = @ \cup {<<job.ticker, "ingest">>}]
  /\ UNCHANGED <<world, listed, supplement, raw, layer, shown, hand,
                 due, rest, indexes>>

-----------------------------------------------------------------------------
(* Classification, R2, the decision to project *)

\* _classify_us_sync_outcome: a ticker that failed as its row excuses, and
\* one that failed in another way.
Excusable(t, kind) == kind \in Excused[t]
Outcomes(j) == j.failures \cup (j.noWrite \X {"zero_facts"})
ExpectedSkip(j) == {o[1] : o \in {u \in Outcomes(j) : Excusable(u[1], u[2])}}
Blocking(j) == {o[1] : o \in {u \in Outcomes(j) : ~Excusable(u[1], u[2])}}

\* Mutant: the failures of single tickers do not block.
BlockedByIndex(j) == j.directory # "success" \/ j.aborted

Blocked(j) == j.directory # "success" \/ Blocking(j) # {} \/ j.aborted

\* _missing_current_ttm_scope: there are facts and no row shows them.
MissingSnapshot == {t \in Scope : Known(t) > 0 /\ snap[t] = Nothing}

NeedsProjection(j) ==
  j.synced # {} \/ j.noWrite # {} \/ j.inserted # {} \/ MissingSnapshot # {}

Collected == job.pc = "classify" \/ (job.pc = "pick" /\ job.todo = {})

\* R2 comes before the blocking decision and writes the CSV in any case.
Classify ==
  /\ Collected
  /\ supplement' = supplement \cup Uncovered(Scope, ExpectedSkip(job))
  /\ IF Blocked(job) THEN AttemptFails
     ELSE job' = IF NeedsProjection(job)
                 THEN [job EXCEPT !.pc = "read", !.stocks = listed]
                 ELSE NoJob
  /\ UNCHANGED <<world, listed, raw, layer, progress, shown, hand, bounds>>

-----------------------------------------------------------------------------
(* run_projection and the validation *)

\* _fetch_facts, by chunks of stocks: each is read on its own.
Unread(j) == j.stocks \ DOMAIN j.seen
SeenNext(j) == LET t == NextOf(Unread(j)) IN
               [j EXCEPT !.seen = [u \in DOMAIN j.seen \cup {t} |->
                                     IF u = t THEN layer[t] ELSE j.seen[u]]]

\* _write_snapshot: the stocks of this projection, in one transaction.
Shown(j) == [t \in Tickers |-> IF t \in j.stocks THEN j.seen[t] ELSE snap[t]]

Read ==
  /\ job.pc = "read"
  /\ Unread(job) # {}
  /\ job' = SeenNext(job)
  /\ UNCHANGED <<world, tables, shown, hand, bounds>>

Write ==
  /\ job.pc = "read"
  /\ Unread(job) = {}
  /\ snap' = Shown(job)
  /\ valid' = FALSE
  /\ job' = [job EXCEPT !.pc = "validate"]
  /\ UNCHANGED <<world, tables, hand, bounds>>

Validate ==
  /\ job.pc = "validate"
  /\ valid' = TRUE
  /\ job' = NoJob
  /\ UNCHANGED <<world, tables, snap, hand, bounds>>

\* An exception of a stage with nothing of its own to commit: the identity
\* check, a query, the guard against retired objects, the projection, the
\* validation or the summary file.  R2 and the validation may have been done.
StageFails ==
  /\ Fault
  /\ \/ job.pc \in {"scope", "read"} /\ UNCHANGED <<supplement, valid>>
     \/ Collected /\ UNCHANGED valid
        /\ supplement' \in {supplement, supplement \cup Uncovered(Scope, ExpectedSkip(job))}
     \/ job.pc = "validate" /\ valid' \in {valid, TRUE} /\ UNCHANGED supplement
  /\ AttemptFails
  /\ UNCHANGED <<world, listed, raw, layer, progress, snap, hand, due, rest,
                 indexes>>

-----------------------------------------------------------------------------
(* Commands run by hand: the projection, of all or some stocks, and the    *)
(* reparse of one ticker                                                   *)

HandProjects ==
  /\ Fault
  /\ hand.pc = "idle"
  /\ \E stocks \in SUBSET listed \ {{}} :
       hand' = [NoHand EXCEPT !.pc = "read", !.stocks = stocks]
  /\ UNCHANGED <<world, tables, shown, job, due, rest, indexes>>

HandReads ==
  /\ hand.pc = "read"
  /\ Unread(hand) # {}
  /\ hand' = SeenNext(hand)
  /\ UNCHANGED <<world, tables, shown, job, bounds>>

HandWrites ==
  /\ hand.pc = "read"
  /\ Unread(hand) = {}
  /\ snap' = Shown(hand)
  /\ valid' = FALSE
  /\ hand' = NoHand
  /\ UNCHANGED <<world, tables, job, bounds>>

\* sync_us_market_reparse: the latest document kept, and nothing is noted.
HandReparses(t) ==
  /\ Fault
  /\ hand.pc = "idle"
  /\ raw[t] > 0
  /\ hand' = IF t \in NoFacts THEN NoHand
             ELSE [NoHand EXCEPT !.pc = "reparse", !.ticker = t, !.part = 1,
                                 !.document = raw[t]]
  /\ UNCHANGED <<world, tables, shown, job, due, rest, indexes>>

HandIngests ==
  /\ hand.pc = "reparse"
  /\ layer' = Ingested(hand.ticker, hand.part, hand.document)
  /\ hand' = IF hand.part < Parts THEN [hand EXCEPT !.part = @ + 1] ELSE NoHand
  /\ UNCHANGED <<world, listed, supplement, raw, progress, shown, job,
                 bounds>>

\* The command fails or is interrupted.
HandStops ==
  /\ Fault
  /\ hand.pc # "idle"
  /\ hand' = NoHand
  /\ UNCHANGED <<world, tables, shown, job, due, rest, indexes>>

-----------------------------------------------------------------------------
HandStep ==
  \/ HandReads
  \/ HandWrites
  \/ HandIngests

JobStep ==
  \/ Trigger \/ Retry
  \/ ScopeBuilt \/ DirectoryWhole
  \/ Filter
  \/ Fetch \/ IngestPart \/ Record
  \/ Classify \/ Read \/ Write \/ Validate

Failure ==
  \/ Crash \/ StageFails \/ ScopeUnresolved \/ DirectoryPartial \/ DirectoryFails
  \/ SyncAborts \/ FetchFails \/ IngestFails \/ RecordFails \/ HandStops

Next ==
  \/ NextDay \/ Reconstitute
  \/ \E t \in Tickers \ NoFacts : Publish(t)
  \/ JobStep \/ Failure \/ HandStep
  \/ HandProjects
  \/ \E t \in Tickers : HandReparses(t)

Spec == Init /\ [][Next]_vars

\* The cron and the job's own steps go on, days pass, and a command once
\* started ends; nothing else must happen.
FairSpec == Spec /\ WF_vars(NextDay) /\ WF_vars(JobStep) /\ WF_vars(HandStep)

-----------------------------------------------------------------------------
TypeOK ==
  /\ published \in [Tickers -> Filings]
  /\ age \in [Tickers -> [1..MaxFilings -> 0..OldAge]]
  /\ {index, listed, supplement} \subseteq SUBSET Tickers
  /\ raw \in [Tickers -> Filings]
  /\ {layer, snap} \subseteq [Tickers -> Contents]
  /\ progress \in [Tickers -> [status : {"none", "success", "failed"},
                               days : 0..OldAge]]
  /\ {valid, due} \subseteq BOOLEAN
  /\ job \in Jobs
  /\ hand \in Hands
  /\ rest \in 0..MaxRest
  /\ faults \in 0..MaxFaults
  /\ indexes \in 0..MaxIndexes

\* When the scheduled job replaces the snapshots, the whole scope is in the
\* directory, and a ticker it collected whose last synchronisation failed, in
\* this attempt or in an earlier one, was asked again in this attempt with an
\* outcome of a kind that is excused.
PublishGate ==
  [][job.pc = "read" /\ job'.pc = "validate" =>
       /\ Scope \subseteq listed
       /\ \A t \in job.collectable :
            progress[t].status = "failed" =>
              \E kind \in Excused[t] : <<t, kind>> \in Outcomes(job)]_vars

\* Where nothing failed, a filing of a ticker that has been synchronised is
\* not left out longer than the cooldown, a weekend, and the run in which a
\* ticker that left the index comes into the supplement: the adaptive
\* intervals never skip a company for good.
DiscoveryLag ==
  faults = 0 /\ job.pc = "idle" /\ ~due =>
    \A t \in Tickers : \A n \in 1..published[t] :
      Known(t) > 0 /\ n > Known(t) =>
        age[t][n] <= Cooldown + MaxRest + (1 + MaxRest)

\* A filing is shown in every statement in the end, whatever failed on the
\* way, unless its ticker leaves the scope.
FilingPublished ==
  \A t \in Tickers \ NoFacts : \A n \in 1..MaxFilings :
    published[t] >= n ~>
      (t \notin Scope \/ \A p \in Statements : snap[t][p] >= n)
=============================================================================
