------------------------------- MODULE HkCapex -------------------------------
(***************************************************************************)
(* How a missing capex of a Hong Kong company is filled in                 *)
(* (core/sync/hk_fallback.py; scripts/backfill_hk_capex_tencent.py, "T1";  *)
(* scripts/extract_hk_capex_pdf.py, "T2"; core/scheduler.py).  After the   *)
(* daily synchronisation the job looks for NULLs in the newest reports,    *)
(* fills what Tencent has and queues the rest in a file; a nightly job of  *)
(* the same scheduler takes the first entries of the file, reads the       *)
(* announcements, and writes back the rest of the file as it was when it   *)
(* began.  The two jobs may overlap, and the synchronisation goes on       *)
(* beside both.                                                            *)
(*                                                                         *)
(* A slot is a stock with a type of report (annual or semi); its rows are  *)
(* numbered by report date.                                                *)
(***************************************************************************)
EXTENDS Integers, Sequences, SequencesExt

CONSTANTS
  Slots,
  StockOf,      \* the stock of a slot
  NumReports,   \* bound: reports of a slot, as a function
  Limit,        \* STOCK_HK_CAPEX_PDF_NIGHTLY_LIMIT
  MaxFailures   \* bound: crashes and failed jobs

ASSUME CapexAssumption ==
  /\ IsFiniteSet(Slots) /\ NumReports \in [Slots -> Nat]
  /\ Limit \in Nat \ {0} /\ MaxFailures \in Nat

VARIABLES
  latest,       \* the number of rows of a slot
  filled,       \* the rows whose capex is not NULL
  shown,        \* the filled rows at the last refresh of the views
  queue,        \* data/hk_capex_pdf_queue.jsonl
  skip,         \* the keys whose last status in the audit is in SKIP_STATUSES
  fallback,     \* run_hk_capex_fallback, in the job of the synchronisation
  drain,        \* _run_hk_pdf_queue_job
  failures

capexVars == <<latest, filled, shown, queue, skip, fallback, drain, failures>>

Keys == UNION {{s} \X (1..NumReports[s]) : s \in Slots}
Rows == {k \in Keys : k[2] <= latest[k[1]]}
Nulls == Rows \ filled

NoFallback == [pc |-> "idle", todo |-> {}, left |-> {}, skips |-> {}, known |-> {}]
NoDrain == [pc |-> "idle", todo |-> <<>>, rest |-> <<>>, wrote |-> FALSE]

CapexInit ==
  /\ latest = [s \in Slots |-> 0]
  /\ filled = {} /\ shown = {}
  /\ queue = <<>> /\ skip = {}
  /\ fallback = NoFallback /\ drain = NoDrain
  /\ failures = 0

-----------------------------------------------------------------------------
(* The synchronisation: all rows of a statement are upserted, with a capex   *)
(* for some.  A NULL does not replace a value (COALESCE).                     *)

\* Mutant: what the source leaves out is set to NULL.
Replace(s, n, has) ==
  (filled \ {<<s, p>> : p \in 1..n}) \cup {<<s, p>> : p \in has}
Upsert(s, n, has) == filled \cup {<<s, p>> : p \in has}

Sync(s) ==
  /\ \E n \in {latest[s], latest[s] + 1} \cap (1..NumReports[s]) :
       \E has \in SUBSET (1..n) :
         /\ latest' = [latest EXCEPT ![s] = n]
         /\ filled' = Upsert(s, n, has)
  /\ UNCHANGED <<shown, queue, skip, fallback, drain, failures>>

-----------------------------------------------------------------------------
(* The fallback *)

\* detect_null_candidates: the newest row of a slot has no capex.
Candidates == {k \in Nulls : k[2] = latest[k[1]]}

\* T1 asks Tencent for the stocks found; it may have any of their reports.
OfTheirStocks == {k \in Keys : \E c \in Candidates : StockOf[c[1]] = StockOf[k[1]]}

\* Mutant: nothing found, nothing to refresh.
DetectOrLeave ==
  /\ fallback.pc = "idle" /\ Candidates # {}
  /\ \E has \in SUBSET OfTheirStocks :
       fallback' = [fallback EXCEPT !.pc = "t1", !.todo = has]
  /\ UNCHANGED <<latest, filled, shown, queue, skip, drain, failures>>

Detect ==
  /\ fallback.pc = "idle"
  /\ IF Candidates = {}
       THEN fallback' = [fallback EXCEPT !.pc = "refresh"]
       ELSE \E has \in SUBSET OfTheirStocks :
              fallback' = [fallback EXCEPT !.pc = "t1", !.todo = has]
  /\ UNCHANGED <<latest, filled, shown, queue, skip, drain, failures>>

\* T1 looks at a row ...
T1Check(k) ==
  /\ fallback.pc = "t1" /\ k \in fallback.todo
  /\ fallback' = IF k \in Nulls
                   THEN [fallback EXCEPT !.pc = "t1write", !.left = {k}]
                   ELSE [fallback EXCEPT !.todo = @ \ {k}]
  /\ UNCHANGED <<latest, filled, shown, queue, skip, drain, failures>>

\* ... and writes it, or fails to and goes on.
T1Write(k) ==
  /\ fallback.pc = "t1write" /\ k \in fallback.left
  /\ filled' \in {filled, filled \cup {k}}
  /\ fallback' = [fallback EXCEPT !.pc = "t1", !.todo = @ \ {k}, !.left = {}]
  /\ UNCHANGED <<latest, shown, queue, skip, drain, failures>>

DetectAgain ==
  /\ fallback.pc = "t1" /\ fallback.todo = {}
  /\ fallback' = [fallback EXCEPT !.pc = "skips", !.left = Candidates]
  /\ UNCHANGED <<latest, filled, shown, queue, skip, drain, failures>>

\* append_to_queue reads the audit, reads the queue and appends.  An append
\* that is cut short in the middle of a line is not modelled.
LoadSkipKeys ==
  /\ fallback.pc = "skips"
  /\ fallback' = [fallback EXCEPT !.pc = "queue", !.skips = skip]
  /\ UNCHANGED <<latest, filled, shown, queue, skip, drain, failures>>

\* Mutant: nothing is known to be in the file already.
LoadNoQueue ==
  /\ fallback.pc = "queue"
  /\ fallback' = [fallback EXCEPT !.pc = "append", !.known = {}]
  /\ UNCHANGED <<latest, filled, shown, queue, skip, drain, failures>>

LoadQueue ==
  /\ fallback.pc = "queue"
  /\ fallback' = [fallback EXCEPT !.pc = "append", !.known = ToSet(queue)]
  /\ UNCHANGED <<latest, filled, shown, queue, skip, drain, failures>>

Append2Queue ==
  /\ fallback.pc = "append"
  /\ queue' = queue \o SetToSeq((fallback.left \ fallback.skips) \ fallback.known)
  /\ fallback' = [NoFallback EXCEPT !.pc = "refresh"]
  /\ UNCHANGED <<latest, filled, shown, skip, drain, failures>>

\* An exception is logged; the job goes on to the views.
FallbackFails ==
  /\ failures < MaxFailures
  /\ fallback.pc # "refresh"
  /\ fallback' = [NoFallback EXCEPT !.pc = "refresh"]
  /\ failures' = failures + 1
  /\ UNCHANGED <<latest, filled, shown, queue, skip, drain>>

\* A view that cannot be refreshed is a warning.
RefreshAfterSync(ok) ==
  /\ fallback.pc = "refresh"
  /\ shown' = IF ok THEN filled ELSE shown
  /\ fallback' = NoFallback
  /\ UNCHANGED <<latest, filled, queue, skip, drain, failures>>

-----------------------------------------------------------------------------
(* The nightly job *)

LoadBatch ==
  LET n == IF Len(queue) < Limit THEN Len(queue) ELSE Limit
  IN /\ drain.pc = "idle" /\ queue # <<>>
     /\ drain' = [NoDrain EXCEPT !.pc = "t2", !.todo = SubSeq(queue, 1, n),
                                 !.rest = SubSeq(queue, n + 1, Len(queue))]
     /\ UNCHANGED <<latest, filled, shown, queue, skip, fallback, failures>>

Target == Head(drain.todo)
Reading == drain.pc = "t2" /\ drain.todo # <<>>
NextTarget == [drain EXCEPT !.pc = "t2", !.todo = Tail(@)]

\* No announcement, a failed download, another period: to be tried again.
Unreadable ==
  /\ Reading
  /\ skip' = skip \ {Target}
  /\ drain' = NextTarget
  /\ UNCHANGED <<latest, filled, shown, queue, fallback, failures>>

\* The company does not disclose it, or somebody has to look at it.
Hopeless ==
  /\ Reading
  /\ skip' = skip \cup {Target}
  /\ drain' = NextTarget
  /\ UNCHANGED <<latest, filled, shown, queue, fallback, failures>>

\* Found: T2 looks at the row ...
Found ==
  /\ Reading
  /\ IF Target \in Nulls
       THEN drain' = [drain EXCEPT !.pc = "t2write"] /\ UNCHANGED skip
       ELSE drain' = NextTarget /\ skip' = skip \ {Target}
  /\ UNCHANGED <<latest, filled, shown, queue, fallback, failures>>

\* ... and writes it.
T2Write ==
  /\ drain.pc = "t2write"
  /\ filled' = filled \cup {Target}
  /\ skip' = skip \ {Target}
  /\ drain' = [NextTarget EXCEPT !.wrote = TRUE]
  /\ UNCHANGED <<latest, shown, queue, fallback, failures>>

\* A failed statement ends the job; the file is as it was.
DrainFails ==
  /\ failures < MaxFailures
  /\ drain.pc = "t2write" \/ Reading
  /\ drain' = NoDrain
  /\ failures' = failures + 1
  /\ UNCHANGED <<latest, filled, shown, queue, skip, fallback>>

\* The rest of the file as it was when it was loaded: an entry appended since
\* is gone.
SaveQueue ==
  /\ drain.pc = "t2" /\ drain.todo = <<>>
  /\ queue' = drain.rest
  /\ drain' = [NoDrain EXCEPT !.pc = IF drain.wrote THEN "refresh" ELSE "idle"]
  /\ UNCHANGED <<latest, filled, shown, skip, fallback, failures>>

RefreshAfterDrain(ok) ==
  /\ drain.pc = "refresh"
  /\ shown' = IF ok THEN filled ELSE shown
  /\ drain' = NoDrain
  /\ UNCHANGED <<latest, filled, queue, skip, fallback, failures>>

\* The scheduler dies; both jobs are its threads.
SchedulerDies ==
  /\ failures < MaxFailures
  /\ fallback # NoFallback \/ drain # NoDrain
  /\ fallback' = NoFallback /\ drain' = NoDrain
  /\ failures' = failures + 1
  /\ UNCHANGED <<latest, filled, shown, queue, skip>>

-----------------------------------------------------------------------------
Look ==
  \/ Detect \/ DetectAgain \/ LoadSkipKeys \/ LoadQueue \/ Append2Queue
  \/ \E k \in Keys : T1Check(k) \/ T1Write(k)
Decisive(k) == Reading /\ Target = k /\ (Found \/ Hopeless)

CapexNext ==
  \/ \E s \in Slots : Sync(s)
  \/ Look \/ FallbackFails
  \/ LoadBatch \/ Unreadable \/ Hopeless \/ Found \/ T2Write \/ DrainFails
  \/ SaveQueue \/ SchedulerDies
  \/ \E ok \in BOOLEAN : RefreshAfterSync(ok) \/ RefreshAfterDrain(ok)

CapexSpec == CapexInit /\ [][CapexNext]_capexVars

\* Both jobs are started again and again (cron) and their steps end.  An
\* announcement that is read again and again is some time understood, or
\* somebody is asked to look at it; a refresh works some time.
CapexFairness ==
  /\ WF_capexVars(Look)
  /\ WF_capexVars(\E ok \in BOOLEAN : RefreshAfterSync(ok))
  /\ WF_capexVars(LoadBatch)
  /\ WF_capexVars(Unreadable \/ Hopeless \/ Found \/ T2Write \/ SaveQueue)
  /\ WF_capexVars(\E ok \in BOOLEAN : RefreshAfterDrain(ok))
  /\ SF_capexVars(RefreshAfterSync(TRUE))
  /\ \A k \in Keys : SF_capexVars(Decisive(k))

CapexFairSpec == CapexSpec /\ CapexFairness

-----------------------------------------------------------------------------
(* Properties *)

CapexTypeOK ==
  /\ latest \in [Slots -> Nat] /\ \A s \in Slots : latest[s] <= NumReports[s]
  /\ filled \subseteq Rows /\ shown \subseteq filled
  /\ queue \in Seq(Keys) /\ skip \subseteq Keys
  /\ fallback \in [pc : {"idle", "t1", "t1write", "skips", "queue", "append", "refresh"},
                   todo : SUBSET Keys, left : SUBSET Keys,
                   skips : SUBSET Keys, known : SUBSET Keys]
  /\ drain \in [pc : {"idle", "t2", "t2write", "refresh"},
                todo : Seq(Keys), rest : Seq(Keys), wrote : BOOLEAN]
  /\ failures \in 0..MaxFailures

\* Each entry is in the file once, whichever of the jobs writes it while the
\* other one holds an older copy of it.
OnceInQueue == IsInjective(queue)

\* A NULL in a newest report is filled and shown, given to somebody to look
\* at, or overtaken by a newer report: over lost entries of the queue, entries
\* that could not be read, failed jobs and refreshes, and a limit per night.
NullIsShown ==
  \A k \in Keys : k \in Candidates ~>
    \/ k \in shown \/ k \in skip
    \/ k[2] < latest[k[1]]
=============================================================================
