------------------------------ MODULE PaperRun ------------------------------
(***************************************************************************)
(* One paper trading account with a normal preset (quant/paper/engine.py,  *)
(* scripts/run_paper_daily.py, web/services/paper_service.py).  A run      *)
(* reads the account, the run log and the positions, trades on a           *)
(* rebalancing day, and stores trades, net asset value, positions, account *)
(* and run log, each in a transaction of its own.  The daily script runs   *)
(* the account again once when a run fails; the web and the command line   *)
(* may run it at the same time.                                            *)
(*                                                                         *)
(* Every close is worth 1; the strategy may pick any stocks, others each   *)
(* time it is asked, since quotes and reports keep coming in.  Each trade  *)
(* costs the account's fee.                                                *)
(***************************************************************************)
EXTENDS Integers, FiniteSetsExt

CONSTANTS
  Runners,        \* processes that run the account
  Attempts,       \* runs each may need: MAX_RETRIES + 1 for the script
  Codes,          \* stocks
  Capital,        \* initial_capital
  Fees,           \* what a trade may cost: fee and slippage
  LastDay,        \* bound on the calendar
  RebalanceDays,
  MaxFaults       \* bound on failed statements and killed processes

Days == 1..LastDay

ASSUME PaperAssumption ==
  /\ IsFiniteSet(Codes)
  /\ Attempts \in [Runners -> Nat \ {0}]
  /\ Capital \in Nat /\ Fees \subseteq Nat /\ MaxFaults \in Nat
  /\ LastDay \in Nat \ {0} /\ RebalanceDays \subseteq Days

VARIABLES
  fee,         \* fee and slippage of the account
  today,
  pick,        \* history: what the strategy last picked for a day
  cash,        \* paper_accounts.cash
  positions,   \* paper_positions: shares of a stock
  trades,      \* paper_trades, one per date, stock and side
  navs,        \* paper_nav_snapshots.total_value by day
  runs,        \* days with a success row in paper_strategy_runs
  pc, attempt, \* where each runner is, and its attempts so far
  day,         \* the day a runner runs
  money, held, \* cash and positions a runner has in memory
  faults

rows == <<cash, positions, trades, navs, runs>>
work == <<day, money, held>>
vars == <<fee, today, pick, rows, pc, attempt, work, faults>>

NoHolding == [c \in Codes |-> 0]
NoNav == -1

Init ==
  /\ fee \in Fees
  /\ today = 1
  /\ pick = [d \in Days |-> {}]
  /\ cash = Capital
  /\ positions = NoHolding
  /\ trades = {}
  /\ navs = [d \in Days |-> NoNav]
  /\ runs = {}
  /\ pc = [r \in Runners |-> "idle"]
  /\ attempt = [r \in Runners |-> 1]
  /\ day = [r \in Runners |-> 1]
  /\ money = [r \in Runners |-> 0]
  /\ held = [r \in Runners |-> NoHolding]
  /\ faults = 0

-----------------------------------------------------------------------------
Owned(holding) == {c \in Codes : holding[c] > 0}

MarketValue(holding) == MapThenSumSet(LAMBDA c : holding[c], Codes)

\* Portfolio.rebalance: everything is turned into cash and spread evenly over
\* the targets; without a target it stays cash.
Rebalanced(holding, purse, targets) ==
  LET wealth == purse + MarketValue(holding) IN
  IF targets = {} THEN [held |-> NoHolding, cash |-> wealth]
  ELSE [held |-> [c \in Codes |->
                    IF c \in targets THEN wealth \div Cardinality(targets) ELSE 0],
        cash |-> 0]

\* One trade per stock whose shares changed.
Orders(old, new, d) ==
  {[date |-> d, code |-> c, side |-> IF new[c] > old[c] THEN "buy" ELSE "sell"]
     : c \in {k \in Codes : new[k] # old[k]}}

\* uk_paper_trades_dedup: of a trade on record, ON CONFLICT DO NOTHING.
Inserted(orders) == orders \ trades

-----------------------------------------------------------------------------
Goto(r, from, to) == pc[r] = from /\ pc' = [pc EXCEPT ![r] = to]

Start(r) ==
  /\ Goto(r, "idle", "load")
  /\ attempt' = [attempt EXCEPT ![r] = 1]
  /\ day' = [day EXCEPT ![r] = today]
  /\ UNCHANGED <<fee, today, pick, rows, money, held, faults>>

\* Mutant: each run starts from initial_capital.
LoadInitialCapital(r) ==
  /\ Goto(r, "load", "check")
  /\ money' = [money EXCEPT ![r] = Capital]
  /\ UNCHANGED <<fee, today, pick, rows, attempt, day, held, faults>>

\* _load_account; the cash read here is what _restore_account_cash uses.
LoadAccount(r) ==
  /\ Goto(r, "load", "check")
  /\ money' = [money EXCEPT ![r] = cash]
  /\ UNCHANGED <<fee, today, pick, rows, attempt, day, held, faults>>

\* Mutant: a run is never skipped.
CheckRunNever(r) ==
  /\ Goto(r, "check", "positions")
  /\ UNCHANGED <<fee, today, pick, rows, attempt, work, faults>>

\* _check_already_run: a day that succeeded is skipped.
CheckRun(r) ==
  /\ IF day[r] \in runs THEN Goto(r, "check", "idle")
                             ELSE Goto(r, "check", "positions")
  /\ UNCHANGED <<fee, today, pick, rows, attempt, work, faults>>

\* _load_current_positions.
LoadPositions(r) ==
  /\ Goto(r, "positions", IF day[r] \in RebalanceDays THEN "trade" ELSE "nav")
  /\ held' = [held EXCEPT ![r] = positions]
  /\ UNCHANGED <<fee, today, pick, rows, attempt, day, money, faults>>

\* _rebalance_normal_portfolio and _save_trades; only trades inserted now are
\* charged.
Trade(r) ==
  \E targets \in SUBSET Codes :
    LET after == Rebalanced(held[r], money[r], targets)
        new == Inserted(Orders(held[r], after.held, day[r])) IN
    /\ Goto(r, "trade", "nav")
    /\ pick' = [pick EXCEPT ![day[r]] = targets]
    /\ trades' = trades \cup new
    /\ held' = [held EXCEPT ![r] = after.held]
    /\ money' = [money EXCEPT ![r] = after.cash - fee * Cardinality(new)]
    /\ UNCHANGED <<fee, today, cash, positions, navs, runs, attempt, day, faults>>

\* Mutant: the positions are written only when there are some.
SaveNavThenAccount(r) ==
  /\ Goto(r, "nav", IF Owned(held[r]) = {} THEN "account" ELSE "save")
  /\ money[r] >= 0
  /\ navs' = [navs EXCEPT ![day[r]] = money[r] + MarketValue(held[r])]
  /\ UNCHANGED <<fee, today, pick, cash, positions, trades, runs, attempt, work, faults>>

\* Mutant: without chk_paper_nav_nonnegative.
SaveNavUnchecked(r) ==
  /\ Goto(r, "nav", "save")
  /\ navs' = [navs EXCEPT ![day[r]] = money[r] + MarketValue(held[r])]
  /\ UNCHANGED <<fee, today, pick, cash, positions, trades, runs, attempt, work, faults>>

\* _save_nav_snapshot; chk_paper_nav_nonnegative.
SaveNav(r) ==
  /\ Goto(r, "nav", "save")
  /\ money[r] >= 0
  /\ navs' = [navs EXCEPT ![day[r]] = money[r] + MarketValue(held[r])]
  /\ UNCHANGED <<fee, today, pick, cash, positions, trades, runs, attempt, work, faults>>

\* _save_positions.
SavePositions(r) ==
  /\ Goto(r, "save", "account")
  /\ positions' = held[r]
  /\ UNCHANGED <<fee, today, pick, cash, trades, navs, runs, attempt, work, faults>>

\* _update_account_summary.
SaveAccount(r) ==
  /\ Goto(r, "account", "log")
  /\ cash' = money[r]
  /\ UNCHANGED <<fee, today, pick, positions, trades, navs, runs, attempt, work, faults>>

\* _save_strategy_run.
SaveRun(r) ==
  /\ Goto(r, "log", "idle")
  /\ runs' = runs \cup {day[r]}
  /\ UNCHANGED <<fee, today, pick, cash, positions, trades, navs, attempt, work, faults>>

\* run_single_account: a failed run is tried again from the start, as long as
\* there are attempts left.
Again(r) ==
  /\ IF attempt[r] < Attempts[r]
     THEN /\ pc' = [pc EXCEPT ![r] = "load"]
          /\ attempt' = [attempt EXCEPT ![r] = @ + 1]
     ELSE /\ pc' = [pc EXCEPT ![r] = "idle"]
          /\ UNCHANGED attempt
  /\ UNCHANGED <<fee, today, pick, rows, work>>

\* The database refuses a negative amount of cash.
Refused(r) ==
  /\ pc[r] = "nav"
  /\ money[r] < 0
  /\ Again(r)
  /\ UNCHANGED faults

\* A query fails, or the transaction does not commit.
Fail(r) ==
  /\ pc[r] # "idle"
  /\ faults < MaxFaults
  /\ faults' = faults + 1
  /\ Again(r)

\* The process is killed.
Crash(r) ==
  /\ pc[r] # "idle"
  /\ faults < MaxFaults
  /\ faults' = faults + 1
  /\ pc' = [pc EXCEPT ![r] = "idle"]
  /\ UNCHANGED <<fee, today, pick, rows, attempt, work>>

NewDay ==
  /\ today < LastDay
  /\ today' = today + 1
  /\ UNCHANGED <<fee, pick, rows, pc, attempt, work, faults>>

Next ==
  \/ NewDay
  \/ \E r \in Runners : \/ Start(r) \/ LoadAccount(r) \/ CheckRun(r)
                        \/ LoadPositions(r) \/ Trade(r) \/ SaveNav(r)
                        \/ SavePositions(r) \/ SaveAccount(r) \/ SaveRun(r)
                        \/ Refused(r) \/ Fail(r) \/ Crash(r)

Spec == Init /\ [][Next]_vars

-----------------------------------------------------------------------------
(* Properties *)

Holdings == [Codes -> Nat]

TypeOK ==
  /\ fee \in Fees
  /\ today \in Days
  /\ pick \in [Days -> SUBSET Codes]
  /\ cash \in Nat
  /\ positions \in Holdings
  /\ trades \subseteq [date : Days, code : Codes, side : {"buy", "sell"}]
  /\ navs \in [Days -> Nat \cup {NoNav}]
  /\ runs \subseteq Days
  /\ pc \in [Runners -> {"idle", "load", "check", "positions", "trade", "nav",
                         "save", "account", "log"}]
  /\ attempt \in [Runners -> Nat]
  /\ \A r \in Runners : attempt[r] \in 1..Attempts[r]
  /\ day \in [Runners -> Days]
  /\ money \in [Runners -> Int]
  /\ held \in [Runners -> Holdings]
  /\ faults \in 0..MaxFaults

Quiet == \A r \in Runners : pc[r] = "idle"

\* A day logged as a success has its value on record, and if it rebalanced
\* today, nothing is held that was not picked, whatever failed before.
SuccessIsWhole ==
  /\ \A d \in runs : navs[d] # NoNav
  /\ Quiet /\ runs # {} =>
       LET last == Max(runs) IN
       today = last /\ last \in RebalanceDays => Owned(positions) \subseteq pick[last]

\* A day logged as a success is not run again: its value and its trades stay.
DoneIsFinal ==
  [][\A d \in runs : /\ navs'[d] = navs[d]
                     /\ {t \in trades' : t.date = d} = {t \in trades : t.date = d}]_vars

\* Without costs and failures, what the account owns between runs is what it
\* started with, over days of rebalancing and of valuation: nothing is counted
\* twice and nothing is dropped.
WorthConserved ==
  Quiet /\ fee = 0 /\ faults = 0 => cash + MarketValue(positions) = Capital
=============================================================================
