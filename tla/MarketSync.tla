------------------------------ MODULE MarketSync ------------------------------
(***************************************************************************)
(* The financial synchronisation of the A share and Hong Kong markets      *)
(* (core/sync/manager.py: sync_financial; core/sync/_utils.py:             *)
(* sync_one_stock; core/incremental.py).  A run decides from the tables    *)
(* and from sync_progress which stocks to ask, its threads fetch the three *)
(* statements of each of them, and its main thread writes sync_progress in *)
(* commits of their own: first the status and the tables, then, computed   *)
(* over them, last_report_date.  The scheduler's job and commands by hand  *)
(* may run side by side; nothing locks them against each other.            *)
(*                                                                         *)
(* A month stands for a date.  A report period is the month it ends in.    *)
(***************************************************************************)
EXTENDS Integers, Sequences, SequencesExt

CONSTANTS
  Stocks,
  Runners,      \* the scheduler's job and the command
  Forced,       \* the runners started with --force
  Order,        \* the statements, in the order they are fetched
  Periods,      \* the months report periods end in
  Months,       \* bound: the months in which there are runs
  MaxFaults     \* bound: crashes, stops and failed statements

None == 0                       \* no row, no date
Tables == ToSet(Order)
Reach == Periods \cup {None}
Never == 1 + CHOOSE m \in Months : \A n \in Months : n <= m

ASSUME SyncAssumption ==
  /\ Forced \subseteq Runners
  /\ Order \in Seq(STRING) /\ Order # <<>>
  /\ Periods \subseteq Nat \ {0}
  /\ Months \subseteq Nat /\ Months # {}
  /\ \E m \in Months : \A n \in Months : n <= m
  /\ MaxFaults \in Nat

VARIABLES
  month,        \* date.today()
  out,          \* the last period the source has of a statement of a stock
  held,         \* MAX(report_date) of a statement of a stock in the database
  progress,     \* sync_progress
  work,         \* the threads: what sync_one_stock has done for a stock
  main,         \* the main thread of each runner
  faults,       \* how many of them there have been
  dated         \* history: the tables last_report_date was computed over

vars == <<month, out, held, progress, work, main, faults, dated>>

NotAsked == [pc |-> "none", at |-> 1, ok |-> {}]
Asked == [pc |-> "fetch", at |-> 1, ok |-> {}]
Waiting == [pc |-> "idle", stock |-> "", tables |-> {}, min |-> None]

Init ==
  /\ month \in Months /\ \A m \in Months : month <= m
  /\ out = [s \in Stocks |-> [t \in Tables |-> None]]
  /\ held = [s \in Stocks |-> [t \in Tables |-> None]]
  /\ progress = [s \in Stocks |-> [status |-> "none", synced |-> {}, last |-> None]]
  /\ work = [r \in Runners |-> [s \in Stocks |-> NotAsked]]
  /\ main = [r \in Runners |-> Waiting]
  /\ faults = 0
  /\ dated = [s \in Stocks |-> {}]

-----------------------------------------------------------------------------
(* Who is asked *)

Greatest(S) == CHOOSE x \in S : \A y \in S : y <= x
Least(S) == CHOOSE x \in S : \A y \in S : x <= y

\* get_stocks_max_report_date
DbMax(s) == Greatest({held[s][t] : t \in Tables})

\* get_sync_progress_report_dates shows a stock with a date, unless its last
\* round failed.
Known(s) == progress[s].status \in {"success", "partial"} /\ progress[s].last # None

\* The month in which the next report is five days late: for the ends of the
\* quarters only.
MonthOfYear(p) == ((p - 1) % 12) + 1
\* Mutant: a company that reports twice a year is thought to report yearly.
NextDeadlineYearly(p) ==
  CASE MonthOfYear(p) = 3 -> p + 6
    [] MonthOfYear(p) = 9 -> p + 8
    [] MonthOfYear(p) = 12 -> p + 5
    [] OTHER -> Never
NextDeadline(p) ==
  CASE MonthOfYear(p) = 3 -> p + 6      \* half-year report, 31 August
    [] MonthOfYear(p) = 6 -> p + 5      \* third quarter, 31 October
    [] MonthOfYear(p) = 9 -> p + 8      \* annual report, 30 April
    [] MonthOfYear(p) = 12 -> p + 5     \* first quarter, 30 April
    [] OTHER -> Never
ShouldRecheck(p) == month >= NextDeadline(p)

\* determine_stocks_to_sync, for one stock
Pending(s) ==
  \/ DbMax(s) = None
  \/ ~Known(s)
  \/ DbMax(s) # progress[s].last
  \/ ~(Tables \subseteq progress[s].synced)
  \/ ShouldRecheck(progress[s].last)

-----------------------------------------------------------------------------
(* A run *)

Determine(r) ==
  /\ main[r].pc = "idle"
  /\ main' = [main EXCEPT ![r].pc = "collect"]
  /\ work' = [work EXCEPT ![r] =
       [s \in Stocks |-> IF r \in Forced \/ Pending(s) THEN Asked ELSE NotAsked]]
  /\ UNCHANGED <<month, out, held, progress, faults, dated>>

\* Mutant: the position moves on past the last statement.
AdvancePast(w, got) ==
  [pc |-> IF w.at = Len(Order) THEN "done" ELSE "fetch",
   at |-> w.at + 1, ok |-> w.ok \cup got]

\* The thread of a stock goes on to the next statement, or has its result.
Advance(w, got) ==
  [pc |-> IF w.at = Len(Order) THEN "done" ELSE "fetch",
   at |-> IF w.at = Len(Order) THEN w.at ELSE w.at + 1,
   ok |-> w.ok \cup got]

\* A fetch brings the whole history the source has, and upsert adds it to
\* what is there.
FetchTable(r, s) ==
  LET t == Order[work[r][s].at]
  IN /\ work[r][s].pc = "fetch"
     /\ out[s][t] # None
     /\ held' = [held EXCEPT ![s][t] = Greatest({out[s][t], held[s][t]})]
     /\ work' = [work EXCEPT ![r][s] = Advance(work[r][s], {t})]
     /\ UNCHANGED <<month, out, progress, main, faults, dated>>

\* The source has nothing, or the request, the mapping or the upsert failed.
MissTable(r, s) ==
  /\ work[r][s].pc = "fetch"
  /\ work' = [work EXCEPT ![r][s] = Advance(work[r][s], {})]
  /\ UNCHANGED <<month, out, held, progress, main, faults, dated>>

\* The main thread takes a finished future: the first commit.
SaveProgress(r, s) ==
  LET ok == work[r][s].ok
  IN /\ main[r].pc = "collect"
     /\ work[r][s].pc = "done"
     /\ work' = [work EXCEPT ![r][s] = NotAsked]
     /\ IF ok # {}
          THEN /\ progress' = [progress EXCEPT
                    ![s].status = IF ok = Tables THEN "success" ELSE "partial",
                    ![s].synced = @ \cup ok]
               /\ main' = [main EXCEPT ![r] =
                    [pc |-> "merge", stock |-> s, tables |-> {}, min |-> None]]
          ELSE /\ progress' = [progress EXCEPT ![s].status = "failed"]
               /\ UNCHANGED main
     /\ UNCHANGED <<month, out, held, faults, dated>>

\* That statement fails: the stock counts as failed and nothing is stored.
SaveFails(r, s) ==
  /\ faults < MaxFaults
  /\ main[r].pc = "collect"
  /\ work[r][s].pc = "done"
  /\ work' = [work EXCEPT ![r][s] = NotAsked]
  /\ faults' = faults + 1
  /\ UNCHANGED <<month, out, held, progress, main, dated>>

\* SELECT tables_synced: all that were ever synced, not only now
ReadMerged(r) ==
  /\ main[r].pc = "merge"
  /\ main' = [main EXCEPT ![r].pc = "last",
                          ![r].tables = progress[main[r].stock].synced]
  /\ UNCHANGED <<month, out, held, progress, work, faults, dated>>

\* Mutant: the greatest date of any table.
ReadLastGreatest(r) ==
  LET dates == {held[main[r].stock][t] : t \in main[r].tables} \ {None}
  IN /\ main[r].pc = "last"
     /\ main' = [main EXCEPT ![r].pc = "write", ![r].min = Greatest(dates)]
     /\ UNCHANGED <<month, out, held, progress, work, faults, dated>>

\* update_last_report_date reads the least of the tables' greatest dates ...
ReadLast(r) ==
  LET dates == {held[main[r].stock][t] : t \in main[r].tables} \ {None}
  IN /\ main[r].pc = "last"
     /\ main' = [main EXCEPT ![r].pc = "write", ![r].min = Least(dates)]
     /\ UNCHANGED <<month, out, held, progress, work, faults, dated>>
\* ... and stores it: the second commit.
WriteLast(r) ==
  LET s == main[r].stock
  IN /\ main[r].pc = "write"
     /\ progress' = [progress EXCEPT ![s].last = main[r].min]
     /\ dated' = [dated EXCEPT ![s] = main[r].tables]
     /\ main' = [main EXCEPT ![r] = [Waiting EXCEPT !.pc = "collect"]]
     /\ UNCHANGED <<month, out, held, work, faults>>

\* update_last_report_date fails, which is logged and forgotten.
UpdateFails(r) ==
  /\ faults < MaxFaults
  /\ main[r].pc \in {"last", "write"}
  /\ main' = [main EXCEPT ![r] = [Waiting EXCEPT !.pc = "collect"]]
  /\ faults' = faults + 1
  /\ UNCHANGED <<month, out, held, progress, work, dated>>

Finish(r) ==
  /\ main[r].pc = "collect"
  /\ \A s \in Stocks : work[r][s].pc = "none"
  /\ main' = [main EXCEPT ![r] = Waiting]
  /\ UNCHANGED <<month, out, held, progress, work, faults, dated>>

\* A signal: no more results are taken, and the pool waits for the threads of
\* all stocks to end.
Stop(r) ==
  /\ faults < MaxFaults
  /\ main[r].pc = "collect"
  /\ main' = [main EXCEPT ![r].pc = "stop"]
  /\ faults' = faults + 1
  /\ UNCHANGED <<month, out, held, progress, work, dated>>

Stopped(r) ==
  /\ main[r].pc = "stop"
  /\ \A s \in Stocks : work[r][s].pc # "fetch"
  /\ main' = [main EXCEPT ![r] = Waiting]
  /\ work' = [work EXCEPT ![r] = [s \in Stocks |-> NotAsked]]
  /\ UNCHANGED <<month, out, held, progress, faults, dated>>

Crash(r) ==
  /\ faults < MaxFaults
  /\ main[r].pc # "idle"
  /\ main' = [main EXCEPT ![r] = Waiting]
  /\ work' = [work EXCEPT ![r] = [s \in Stocks |-> NotAsked]]
  /\ faults' = faults + 1
  /\ UNCHANGED <<month, out, held, progress, dated>>

-----------------------------------------------------------------------------
(* The world *)

\* The source shows the next period of a statement, after its end.
Publish(s, t) ==
  /\ \E p \in Periods :
       /\ p > out[s][t] /\ p <= month
       /\ \A q \in Periods : q > out[s][t] => p <= q
       /\ out' = [out EXCEPT ![s][t] = p]
  /\ UNCHANGED <<month, held, progress, work, main, faults, dated>>

NewMonth ==
  /\ \E m \in Months :
       /\ m > month
       /\ \A n \in Months : n > month => m <= n
       /\ month' = m
  /\ UNCHANGED <<out, held, progress, work, main, faults, dated>>

MainStep(r) ==
  \/ Determine(r) \/ ReadMerged(r) \/ ReadLast(r) \/ WriteLast(r)
  \/ UpdateFails(r) \/ Finish(r) \/ Stop(r) \/ Stopped(r) \/ Crash(r)

StockStep(r, s) ==
  FetchTable(r, s) \/ MissTable(r, s) \/ SaveProgress(r, s) \/ SaveFails(r, s)

Next ==
  \/ NewMonth
  \/ \E s \in Stocks, t \in Tables : Publish(s, t)
  \/ \E r \in Runners : MainStep(r) \/ \E s \in Stocks : StockStep(r, s)

Spec == Init /\ [][Next]_vars

\* The job is started again and again (cron), its threads go on, and a
\* statement that is asked for again and again is served some time.  Nothing
\* is assumed of commands by hand.
Fairness ==
  /\ WF_vars(NewMonth)
  /\ \A r \in Runners \ Forced :
       /\ WF_vars(Determine(r))
       /\ WF_vars(ReadMerged(r) \/ ReadLast(r) \/ WriteLast(r))
       /\ WF_vars(Finish(r) \/ Stopped(r))
       /\ \A s \in Stocks :
            /\ WF_vars(FetchTable(r, s) \/ MissTable(r, s))
            /\ WF_vars(SaveProgress(r, s))
            /\ \A t \in Tables :
                 SF_vars(Order[work[r][s].at] = t /\ FetchTable(r, s))

FairSpec == Spec /\ Fairness

-----------------------------------------------------------------------------
(* Properties *)

Threads == [pc : {"none", "fetch", "done"}, at : 1..Len(Order), ok : SUBSET Tables]
Mains == [pc : {"idle", "collect", "merge", "last", "write", "stop"},
          stock : Stocks \cup {""}, tables : SUBSET Tables, min : Reach]

TypeOK ==
  /\ month \in Months
  /\ out \in [Stocks -> [Tables -> Reach]]
  /\ held \in [Stocks -> [Tables -> Reach]]
  /\ progress \in [Stocks -> [status : {"none", "success", "partial", "failed"},
                              synced : SUBSET Tables, last : Reach]]
  /\ work \in [Runners -> [Stocks -> Threads]]
  /\ main \in [Runners -> Mains]
  /\ faults \in 0..MaxFaults
  /\ dated \in [Stocks -> SUBSET Tables]

\* A statement that lags behind another one of its stock is asked for by the
\* next run (update_last_report_date takes the minimum for this), although
\* tables_synced only ever grows: unless the run ended, or another one came,
\* between the tables' commit and the date's.
Lags(s, t) == held[s][t] < DbMax(s)
LaggardAsked ==
  \A s \in Stocks : dated[s] = progress[s].synced =>
    \A t \in Tables : Lags(s, t) => Pending(s)

\* What the source shows is in the database some time, over faults, failed
\* statements and runs side by side.
NewReportFetched ==
  \A s \in Stocks, t \in Tables, p \in Periods :
    out[s][t] >= p ~> held[s][t] >= p
=============================================================================
