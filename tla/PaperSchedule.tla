--------------------------- MODULE PaperSchedule ---------------------------
(***************************************************************************)
(* Which days a paper account rebalances (quant/paper/engine.py,           *)
(* quant/backtest/common.py).  Nothing stores the calendar: the last       *)
(* trading day of a month and the trading days after it are whatever       *)
(* daily_quote holds when the run asks.  An account without cohort         *)
(* settings uses the monthly rule; one with them follows signal months and *)
(* trades Lag trading days after the signal.                               *)
(*                                                                         *)
(* Quotes arrive day by day (known), or are all there when a past period   *)
(* is replayed.  Runs may be missed.  A month has MonthLen days.           *)
(***************************************************************************)
EXTENDS Integers, FiniteSetsExt

CONSTANTS
  LastDay,        \* bound on the calendar
  MonthLen,
  TradeDays,
  Configs,        \* rebalance_signal_months of the accounts, counted from the
                  \* first month; {} for an account without cohort settings
  Lag,            \* execution_lag_sessions
  Tolerance,      \* days a rebalancing day may lie before the end of its month
  Horizon         \* days searched for the next trading day

Days == 1..LastDay
Month(d) == (d - 1) \div MonthLen
MonthEnd(m) == (m + 1) * MonthLen

ASSUME ScheduleAssumption ==
  /\ LastDay \in Nat \ {0} /\ MonthLen \in Nat \ {0}
  /\ Lag \in Nat /\ Tolerance \in Nat /\ Horizon \in Nat
  /\ TradeDays \subseteq Days /\ TradeDays # {}
  /\ Configs \subseteq SUBSET Nat /\ Configs # {}

VARIABLES
  replay,       \* whether every quote is there from the start
  today,
  known,        \* quotes up to this day are in daily_quote
  signalMonths, \* the account's config
  valued,       \* dates of its successful valuation runs (paper_strategy_runs)
  rebalances    \* its rebalances: the signal date they are logged by, the day
                \* the run was made on and the day it was priced at

vars == <<replay, today, known, signalMonths, valued, rebalances>>

None == 0

Init ==
  /\ today = 1
  /\ replay \in BOOLEAN
  /\ known = IF replay THEN LastDay ELSE 0
  /\ signalMonths \in Configs
  /\ valued = {}
  /\ rebalances = {}

-----------------------------------------------------------------------------
Quoted == {t \in TradeDays : t <= known}

\* get_nearest_trade_date: the last day with quotes up to d.
Nearest(d) ==
  IF \E t \in Quoted : t <= d THEN Max({t \in Quoted : t <= d}) ELSE None

\* The trading day after e, as far as the quotes show one, else e itself.
NextSession(e) ==
  LET later == Quoted \cap (e + 1)..(e + Horizon)
  IN IF later = {} THEN e ELSE Min(later)

\* Mutant: a day is a rebalancing day when the end of its month is near.
IsRebalanceDayNear(d) == MonthEnd(Month(d)) - d <= Tolerance

\* generate_rebalance_dates for the month of d, and whether it ends with d.
IsRebalanceDay(d) ==
  LET end == MonthEnd(Month(d)) IN
  Nearest(end) = d /\ end - d <= Tolerance

\* _compute_signal_period: the latest signal month, its last trading day and
\* the trading day Lag sessions later.
ExecDate(s) ==
  LET after[n \in 0..Lag] == IF n = 0 THEN s ELSE NextSession(after[n - 1])
  IN after[Lag]

SignalDate(m) == Nearest(MonthEnd(m))

Current == {m \in signalMonths : m <= Month(today)}

-----------------------------------------------------------------------------
(* A run is logged by its date; a cohort rebalance by its signal's. *)
Acted(d) == \E r \in rebalances : r.signal = d
Logged(d) == d \in valued \/ Acted(d)

Rebalance(s, e) ==
  /\ rebalances' = rebalances \cup {[signal |-> s, on |-> today, exec |-> e]}
  /\ UNCHANGED <<replay, today, known, signalMonths, valued>>

Value(d) ==
  /\ valued' = valued \cup {d}
  /\ UNCHANGED <<replay, today, known, signalMonths, rebalances>>

\* Mutant: a run takes no quotes for a trading day.
RunMonthlyUnquoted ==
  LET d == Nearest(today) IN
  /\ signalMonths = {}
  /\ ~Logged(d)
  /\ IF IsRebalanceDay(d) THEN Rebalance(d, d) ELSE Value(d)

\* PaperTradingEngine.run with the monthly rule.
RunMonthly ==
  LET d == Nearest(today) IN
  /\ signalMonths = {}
  /\ d # None
  /\ ~Logged(d)
  /\ IF IsRebalanceDay(d) THEN Rebalance(d, d) ELSE Value(d)

\* Mutant: no run after the execution day makes up for a missed one.
DueThatDay(m, d) ==
  LET s == SignalDate(m) IN
  /\ s # None
  /\ d = ExecDate(s)
  /\ ~Acted(s)

\* Mutant: the log is asked for the execution day.
DueByExec(m, d) ==
  LET s == SignalDate(m) IN
  /\ s # None
  /\ d >= ExecDate(s)
  /\ ~Acted(ExecDate(s))

\* _is_cohort_rebalance_day: due from the execution day on, until the signal's
\* rebalance is logged.
Due(m, d) ==
  LET s == SignalDate(m) IN
  /\ s # None
  /\ d >= ExecDate(s)
  /\ ~Acted(s)

\* PaperTradingEngine.run with signal months.
RunCohort ==
  LET d == Nearest(today)
      m == Max(Current)
      due == Current # {} /\ Due(m, d) IN
  /\ signalMonths # {}
  /\ d # None
  /\ due \/ ~Logged(d)
  /\ IF due THEN Rebalance(SignalDate(m), ExecDate(SignalDate(m))) ELSE Value(d)

\* The quotes of another day are stored, once the day is there.
StoreQuotes ==
  /\ known < today
  /\ known' = known + 1
  /\ UNCHANGED <<replay, today, signalMonths, valued, rebalances>>

NewDay ==
  /\ today < LastDay
  /\ today' = today + 1
  /\ UNCHANGED <<replay, known, signalMonths, valued, rebalances>>

Next == RunMonthly \/ RunCohort \/ StoreQuotes \/ NewDay

Spec == Init /\ [][Next]_vars

\* Days pass, the daily synchronisation stores quotes, and cron runs the
\* accounts; a run may still miss any given day.
Fairness == WF_vars(NewDay) /\ WF_vars(StoreQuotes) /\ WF_vars(RunMonthly) /\ WF_vars(RunCohort)
FairSpec == Spec /\ Fairness

-----------------------------------------------------------------------------
(* Properties *)

TypeOK ==
  /\ today \in Days
  /\ known \in 0..LastDay
  /\ signalMonths \in Configs
  /\ valued \subseteq Days
  /\ rebalances \subseteq [signal : Days, on : Days, exec : Days]

\* Over quotes that are all there an account rebalances at most once for the
\* end of a month, whether each month counts or the signal months, and a
\* cohort's rebalance is priced Lag trading days after its signal.
ReplayOnPlan ==
  replay =>
    /\ \A r, q \in rebalances : Month(r.signal) = Month(q.signal) => r = q
    /\ signalMonths # {} =>
         \A r \in rebalances :
           Cardinality({t \in TradeDays : r.signal < t /\ t <= r.exec}) = Lag

\* A signal date is acted on once, whatever is known later about the trading
\* days that follow it.
SignalActedOnce ==
  \A r, q \in rebalances : r.signal = q.signal => r = q

LastSession(m) == Max({t \in TradeDays : t <= MonthEnd(m)})

\* The last signal month is acted on in the end, by a run that knew its last
\* trading day, although runs are missed and quotes come late.
SignalServed ==
  <>(signalMonths = {} \/
     \E r \in rebalances : r.signal = LastSession(Max(signalMonths)))
=============================================================================
