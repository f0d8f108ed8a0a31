--------------------------- MODULE PaperRunProofs ---------------------------
(* Proofs about PaperRun, for every capital, cost, calendar and number of    *)
(* faults.                                                                   *)
EXTENDS PaperRun, FiniteSetTheorems, WellFoundedInduction, TLAPS

-----------------------------------------------------------------------------
(* The value of a portfolio                                                *)

\* A set of naturals that is not empty has a least element.
LEMMA LeastNatural ==
  ASSUME NEW S \in SUBSET Nat, S # {}
  PROVE  \E n \in S : \A m \in S : n <= m
<1>1. PICK n \in S : \A m \in S : ~ (<<m, n>> \in OpToRel(<, Nat))
  BY NatLessThanWellFounded, WFMin
<1>2. ASSUME NEW m \in S PROVE n <= m
  <2>1. SUFFICES ASSUME m < n PROVE FALSE
    OBVIOUS
  <2>2. <<m, n>> \in Nat \X Nat /\ <<m, n>>[1] < <<m, n>>[2]
    BY <2>1
  <2>3. <<m, n>> \in OpToRel(<, Nat)
    BY <2>2, Zenon DEF OpToRel
  <2> QED BY <1>1, <2>3
<1> QED BY <1>2

\* The stock a fold takes out of a set of stocks next.
Taken(s) == CHOOSE c \in s : TRUE

\* What the fold of MarketValue computes on the sets of stocks up to a size.
SumsUpTo(h, f, n) ==
  \A s \in SUBSET Codes : Cardinality(s) <= n =>
    f[s] = IF s = {} THEN 0 ELSE h[Taken(s)] + f[s \ {Taken(s)}]

Sums(h, f) ==
  f = [s \in SUBSET Codes |->
         IF s = {} THEN 0 ELSE h[Taken(s)] + f[s \ {Taken(s)}]]

\* Taking a stock out of a set leaves a smaller set.
LEMMA TakenOut ==
  ASSUME PaperAssumption, NEW s \in SUBSET Codes, s # {}
  PROVE  /\ Taken(s) \in s /\ s \ {Taken(s)} \in SUBSET Codes
         /\ IsFiniteSet(s) /\ Cardinality(s) \in Nat
         /\ Cardinality(s \ {Taken(s)}) = Cardinality(s) - 1
         /\ Cardinality(s) > 0
<1>1. IsFiniteSet(s)
  BY FS_Subset DEF PaperAssumption
<1>2. Taken(s) \in s
  BY DEF Taken
<1>3. Cardinality(s) \in Nat /\ Cardinality(s) # 0
  BY <1>1, FS_CardinalityType, FS_EmptySet
<1>4. Cardinality(s \ {Taken(s)}) = Cardinality(s) - 1
  BY <1>1, <1>2, FS_RemoveElement
<1> QED BY <1>1, <1>2, <1>3, <1>4

\* The cardinality of a set of stocks, at most that of all of them.
LEMMA SizeOfStocks ==
  ASSUME PaperAssumption, NEW s \in SUBSET Codes
  PROVE  /\ Cardinality(s) \in Nat /\ Cardinality(Codes) \in Nat
         /\ Cardinality(s) <= Cardinality(Codes)
         /\ Cardinality(s) = 0 <=> s = {}
BY FS_Subset, FS_CardinalityType, FS_EmptySet DEF PaperAssumption

\* There is a function that sums up to every size.
LEMMA SumsExist ==
  ASSUME PaperAssumption, NEW h \in Holdings, NEW n \in Nat
  PROVE  \E f \in [SUBSET Codes -> Nat] : SumsUpTo(h, f, n)
<1> DEFINE Bad == {m \in Nat : \A f \in [SUBSET Codes -> Nat] : ~SumsUpTo(h, f, m)}
<1> SUFFICES ASSUME Bad # {} PROVE FALSE
  OBVIOUS
<1>1. PICK m \in Bad : \A k \in Bad : m <= k
  <2> HIDE DEF Bad
  <2>1. Bad \in SUBSET Nat
    BY DEF Bad
  <2> QED BY <2>1, LeastNatural
<1>2. CASE m = 0
  <2> DEFINE f == [s \in SUBSET Codes |-> 0]
  <2>1. SumsUpTo(h, f, 0)
    BY SizeOfStocks DEF SumsUpTo
  <2> QED BY <1>1, <1>2, <2>1
<1>3. CASE m # 0
  <2>1. m \in Nat /\ m - 1 \in Nat /\ m - 1 \notin Bad
    <3>1. m \in Nat /\ \A k \in Bad : m <= k
      BY <1>1
    <3> HIDE DEF Bad
    <3> QED BY <1>3, <3>1
  <2>2. PICK g \in [SUBSET Codes -> Nat] : SumsUpTo(h, g, m - 1)
    BY <2>1
  <2> DEFINE f == [s \in SUBSET Codes |->
                     IF s = {} THEN 0 ELSE h[Taken(s)] + g[s \ {Taken(s)}]]
  <2>3. f \in [SUBSET Codes -> Nat]
    <3>1. ASSUME NEW s \in SUBSET Codes, s # {}
          PROVE  h[Taken(s)] + g[s \ {Taken(s)}] \in Nat
      <4>1. Taken(s) \in Codes /\ s \ {Taken(s)} \in SUBSET Codes
        BY <3>1, TakenOut
      <4>2. h[Taken(s)] \in Nat /\ g[s \ {Taken(s)}] \in Nat
        BY <4>1 DEF Holdings
      <4> QED BY <4>2
    <3> QED BY <3>1
  <2>4. ASSUME NEW s \in SUBSET Codes, Cardinality(s) <= m - 1 PROVE f[s] = g[s]
    BY <2>2, <2>4 DEF SumsUpTo
  <2>5. SumsUpTo(h, f, m)
    <3> SUFFICES ASSUME NEW s \in SUBSET Codes, Cardinality(s) <= m
                 PROVE  f[s] = IF s = {} THEN 0 ELSE h[Taken(s)] + f[s \ {Taken(s)}]
      BY DEF SumsUpTo
    <3>1. CASE s = {}
      BY <3>1
    <3>2. CASE s # {}
      <4>1. /\ s \ {Taken(s)} \in SUBSET Codes
            /\ Cardinality(s \ {Taken(s)}) <= m - 1
        BY <3>2, TakenOut, <2>1
      <4>2. f[s \ {Taken(s)}] = g[s \ {Taken(s)}]
        BY <2>4, <4>1
      <4>3. f[s] = h[Taken(s)] + g[s \ {Taken(s)}]
        BY <3>2
      <4> HIDE DEF f
      <4> QED BY <3>2, <4>2, <4>3
    <3> QED BY <3>1, <3>2
  <2> HIDE DEF f
  <2> QED BY <1>1, <2>3, <2>5
<1> QED BY <1>2, <1>3

\* MarketValue is the last of these sums, over all stocks.
LEMMA MarketValueSums ==
  ASSUME PaperAssumption, NEW h \in Holdings
  PROVE  \E f : Sums(h, f) /\ MarketValue(h) = f[Codes]
<1> DEFINE Chosen == CHOOSE f : Sums(h, f)
<1>1. \E f : Sums(h, f)
  <2>1. PICK f \in [SUBSET Codes -> Nat] : SumsUpTo(h, f, Cardinality(Codes))
    <3>1. Cardinality(Codes) \in Nat
      BY SizeOfStocks
    <3> QED BY <3>1, SumsExist
  <2>2. \A s \in SUBSET Codes :
          f[s] = IF s = {} THEN 0 ELSE h[Taken(s)] + f[s \ {Taken(s)}]
    BY <2>1, SizeOfStocks DEF SumsUpTo
  <2> QED BY <2>1, <2>2 DEF Sums
<1>2. Sums(h, Chosen)
  BY <1>1
<1>3. MarketValue(h) = Chosen[Codes]
  BY DEF MarketValue, MapThenSumSet, MapThenFoldSet, Sums, Taken
<1> QED BY <1>2, <1>3

\* The partial sums are naturals.
LEMMA SumsNatural ==
  ASSUME PaperAssumption, NEW h \in Holdings, NEW f, Sums(h, f)
  PROVE  \A s \in SUBSET Codes : f[s] \in Nat
<1> DEFINE Bad == {Cardinality(s) : s \in {t \in SUBSET Codes : f[t] \notin Nat}}
<1> SUFFICES ASSUME NEW t \in SUBSET Codes, f[t] \notin Nat PROVE FALSE
  OBVIOUS
<1>1. Bad \in SUBSET Nat /\ Bad # {}
  <2>1. \A s \in SUBSET Codes : Cardinality(s) \in Nat
    BY SizeOfStocks
  <2>2. Cardinality(t) \in Bad
    OBVIOUS
  <2> QED BY <2>1, <2>2
<1>2. PICK n \in Bad : \A k \in Bad : n <= k
  <2> HIDE DEF Bad
  <2> QED BY <1>1, LeastNatural
<1>3. PICK s \in SUBSET Codes : f[s] \notin Nat /\ Cardinality(s) = n
  BY <1>2
<1>4. f[s] = IF s = {} THEN 0 ELSE h[Taken(s)] + f[s \ {Taken(s)}]
  BY DEF Sums
<1>5. CASE s = {}
  BY <1>3, <1>4, <1>5
<1>6. CASE s # {}
  <2> DEFINE u == s \ {Taken(s)}
  <2>1. /\ u \in SUBSET Codes /\ Cardinality(u) = n - 1 /\ n \in Nat
        /\ h[Taken(s)] \in Nat
    BY <1>3, <1>6, TakenOut DEF Holdings
  <2>2. Cardinality(u) \notin Bad
    <3> HIDE DEF Bad, u
    <3> QED BY <1>2, <2>1
  <2>3. f[u] \in Nat
    BY <2>1, <2>2
  <2> HIDE DEF u
  <2>4. f[s] = h[Taken(s)] + f[u]
    BY <1>4, <1>6 DEF u
  <2> QED BY <1>3, <2>1, <2>3, <2>4
<1> QED BY <1>5, <1>6

\* Equal shares of some stocks are worth their number times the share.
LEMMA SumsOfEqual ==
  ASSUME PaperAssumption, NEW T \in SUBSET Codes, NEW q \in Nat,
         NEW f, Sums([c \in Codes |-> IF c \in T THEN q ELSE 0], f)
  PROVE  \A s \in SUBSET Codes : f[s] = q * Cardinality(s \cap T)
<1> DEFINE h == [c \in Codes |-> IF c \in T THEN q ELSE 0]
           Bad == {Cardinality(s) :
                     s \in {t \in SUBSET Codes : f[t] # q * Cardinality(t \cap T)}}
<1> SUFFICES ASSUME NEW t \in SUBSET Codes, f[t] # q * Cardinality(t \cap T)
             PROVE  FALSE
  OBVIOUS
<1>1. Bad \in SUBSET Nat /\ Bad # {}
  <2>1. \A s \in SUBSET Codes : Cardinality(s) \in Nat
    BY SizeOfStocks
  <2>2. Cardinality(t) \in Bad
    OBVIOUS
  <2> QED BY <2>1, <2>2
<1>2. PICK n \in Bad : \A k \in Bad : n <= k
  <2> HIDE DEF Bad
  <2> QED BY <1>1, LeastNatural
<1>3. PICK s \in SUBSET Codes : f[s] # q * Cardinality(s \cap T) /\ Cardinality(s) = n
  BY <1>2
<1>4. f[s] = IF s = {} THEN 0 ELSE h[Taken(s)] + f[s \ {Taken(s)}]
  BY DEF Sums
<1>5. CASE s = {}
  <2>1. s \cap T = {} /\ Cardinality({}) = 0
    BY <1>5, FS_EmptySet
  <2> QED BY <1>3, <1>4, <1>5, <2>1
<1>6. CASE s # {}
  <2> DEFINE x == Taken(s)
             u == s \ {x}
  <2>1. /\ x \in s /\ u \in SUBSET Codes /\ Cardinality(u) = n - 1 /\ n \in Nat
        /\ IsFiniteSet(s)
    BY <1>3, <1>6, TakenOut
  <2>2. Cardinality(u) \notin Bad
    <3> HIDE DEF Bad, u
    <3> QED BY <1>2, <2>1
  <2>3. f[u] = q * Cardinality(u \cap T)
    BY <2>1, <2>2
  <2>4. f[s] = (IF x \in T THEN q ELSE 0) + f[u]
    BY <1>4, <1>6, <2>1
  <2>5. IsFiniteSet(s \cap T) /\ Cardinality(s \cap T) \in Nat
    <3>1. s \cap T \in SUBSET s
      OBVIOUS
    <3> HIDE DEF u
    <3> QED BY <2>1, <3>1, FS_Subset, FS_CardinalityType
  <2>6. CASE x \in T
    <3>1. u \cap T = (s \cap T) \ {x} /\ x \in s \cap T
      BY <2>1, <2>6
    <3>2. Cardinality(u \cap T) = Cardinality(s \cap T) - 1
      <4> DEFINE w == s \cap T
      <4>1. IsFiniteSet(w) /\ x \in w /\ u \cap T = w \ {x}
        BY <2>5, <3>1
      <4> HIDE DEF u, x, w
      <4>2. Cardinality(w \ {x}) = Cardinality(w) - 1
        BY <4>1, FS_RemoveElement
      <4> QED BY <4>1, <4>2 DEF w
    <3> HIDE DEF u, x
    <3>3. f[s] = q + q * (Cardinality(s \cap T) - 1)
      BY <2>3, <2>4, <2>6, <3>2
    <3> DEFINE k == Cardinality(s \cap T)
    <3>4. k \in Nat
      BY <2>5
    <3> HIDE DEF k
    <3>5. q + q * (k - 1) = q * k
      BY <3>4
    <3> QED BY <1>3, <3>3, <3>5 DEF k
  <2>7. CASE x \notin T
    <3>1. u \cap T = s \cap T
      BY <2>7
    <3> HIDE DEF u, x
    <3> DEFINE k == Cardinality(s \cap T)
    <3>2. k \in Nat
      BY <2>5
    <3>3. f[s] = 0 + q * k
      BY <2>3, <2>4, <2>7, <3>1
    <3> HIDE DEF k
    <3>4. 0 + q * k = q * k
      BY <3>2
    <3> QED BY <1>3, <3>3, <3>4 DEF k
  <2> QED BY <2>6, <2>7
<1> QED BY <1>5, <1>6

\* A portfolio is worth a natural amount, and equal shares their number times
\* the share.
LEMMA MarketValueNatural ==
  ASSUME PaperAssumption, NEW h \in Holdings
  PROVE  MarketValue(h) \in Nat
BY MarketValueSums, SumsNatural

LEMMA MarketValueOfEqual ==
  ASSUME PaperAssumption, NEW T \in SUBSET Codes, NEW q \in Nat
  PROVE  MarketValue([c \in Codes |-> IF c \in T THEN q ELSE 0]) = q * Cardinality(T)
<1> DEFINE h == [c \in Codes |-> IF c \in T THEN q ELSE 0]
<1>1. h \in Holdings
  BY DEF Holdings
<1>2. PICK f : Sums(h, f) /\ MarketValue(h) = f[Codes]
  BY <1>1, MarketValueSums
<1>3. f[Codes] = q * Cardinality(Codes \cap T)
  BY <1>2, SumsOfEqual
<1>4. Codes \cap T = T
  OBVIOUS
<1> QED BY <1>2, <1>3, <1>4

LEMMA MarketValueOfNothing ==
  ASSUME PaperAssumption
  PROVE  NoHolding \in Holdings /\ MarketValue(NoHolding) = 0
<1>1. NoHolding = [c \in Codes |-> IF c \in {} THEN 0 ELSE 0]
  BY DEF NoHolding
<1>2. MarketValue(NoHolding) = 0 * Cardinality({})
  BY <1>1, MarketValueOfEqual
<1> QED BY <1>2, FS_EmptySet DEF NoHolding, Holdings

-----------------------------------------------------------------------------
(* The run log                                                             *)

\* Nobody else runs the account: the daily script alone.
OneRunner == \A p, q \in Runners : p = q

\* Past the check of the run log.
Past == {"positions", "trade", "nav", "save", "account", "log"}

\* A run past the check works on a day that is not logged as a success.
UnloggedDay == \A r \in Runners : pc[r] \in Past => day[r] \notin runs

IInv ==
  /\ today \in Days
  /\ pc \in [Runners -> {"idle", "load", "check"} \cup Past]
  /\ day \in [Runners -> Days]
  /\ runs \subseteq Days
  /\ DOMAIN navs = Days
  /\ UnloggedDay

\* The invariant holds at the start.
LEMMA InitHolds ==
  ASSUME PaperAssumption, Init
  PROVE  IInv
BY DEF PaperAssumption, Init, IInv, UnloggedDay, Past, Days

\* Steps of a run that leave the run log alone and do not pass its check.
LEMMA QuietStepKeeps ==
  ASSUME IInv, NEW r \in Runners, NEW to \in {"idle", "load", "check"} \cup Past,
         pc' = [pc EXCEPT ![r] = to],
         to \in Past => pc[r] \in Past,
         today' = today, day' = day, runs' = runs, DOMAIN navs' = DOMAIN navs
  PROVE  IInv'
BY DEF IInv, UnloggedDay

\* Every step keeps it.
LEMMA StepKeeps ==
  ASSUME PaperAssumption, OneRunner, IInv, [Next]_vars
  PROVE  IInv'
<1>1. CASE UNCHANGED vars
  BY <1>1 DEF vars, rows, work, IInv, UnloggedDay
<1>2. CASE NewDay
  BY <1>2 DEF NewDay, rows, work, IInv, UnloggedDay, Days, PaperAssumption
<1>3. ASSUME NEW r \in Runners, Start(r) PROVE IInv'
  BY <1>3 DEF Start, Goto, rows, IInv, UnloggedDay, Past
<1>4. ASSUME NEW r \in Runners, LoadAccount(r) PROVE IInv'
  BY <1>4, QuietStepKeeps DEF LoadAccount, Goto, rows, Past
<1>5. ASSUME NEW r \in Runners, CheckRun(r) PROVE IInv'
  <2>1. today' = today /\ day' = day /\ runs' = runs /\ navs' = navs
    BY <1>5 DEF CheckRun, rows, work
  <2>2. CASE day[r] \in runs
    BY <1>5, <2>1, <2>2, QuietStepKeeps DEF CheckRun, Goto, Past
  <2>3. CASE day[r] \notin runs
    BY <1>5, <2>1, <2>3 DEF CheckRun, Goto, Past, IInv, UnloggedDay
  <2> QED BY <2>2, <2>3
<1>6. ASSUME NEW r \in Runners, LoadPositions(r) PROVE IInv'
  BY <1>6, QuietStepKeeps DEF LoadPositions, Goto, rows, Past
<1>7. ASSUME NEW r \in Runners, Trade(r) PROVE IInv'
  <2>1. /\ pc[r] = "trade" /\ pc' = [pc EXCEPT ![r] = "nav"]
        /\ today' = today /\ day' = day /\ runs' = runs /\ navs' = navs
    BY <1>7 DEF Trade, Goto
  <2> QED BY <2>1, QuietStepKeeps DEF Past
<1>8. ASSUME NEW r \in Runners, SaveNav(r) PROVE IInv'
  <2>1. /\ pc[r] = "nav" /\ pc' = [pc EXCEPT ![r] = "save"]
        /\ today' = today /\ day' = day /\ runs' = runs
        /\ DOMAIN navs' = DOMAIN navs
    BY <1>8 DEF SaveNav, Goto, work
  <2> QED BY <2>1, QuietStepKeeps DEF Past
<1>9. ASSUME NEW r \in Runners, SavePositions(r) PROVE IInv'
  BY <1>9, QuietStepKeeps DEF SavePositions, Goto, work, Past
<1>10. ASSUME NEW r \in Runners, SaveAccount(r) PROVE IInv'
  BY <1>10, QuietStepKeeps DEF SaveAccount, Goto, work, Past
<1>11. ASSUME NEW r \in Runners, SaveRun(r) PROVE IInv'
  <2>1. /\ pc' = [pc EXCEPT ![r] = "idle"] /\ runs' = runs \cup {day[r]}
        /\ today' = today /\ day' = day /\ navs' = navs
    BY <1>11 DEF SaveRun, Goto, work
  <2>2. \A q \in Runners : pc'[q] = "idle"
    BY <2>1 DEF OneRunner, IInv
  <2> QED BY <2>1, <2>2 DEF IInv, UnloggedDay, Past
<1>12. ASSUME NEW r \in Runners, Again(r) PROVE IInv'
  <2>1. today' = today /\ day' = day /\ runs' = runs /\ navs' = navs
    BY <1>12 DEF Again, rows, work
  <2>2. pc' = [pc EXCEPT ![r] = "load"] \/ pc' = [pc EXCEPT ![r] = "idle"]
    BY <1>12 DEF Again
  <2> QED BY <2>1, <2>2, QuietStepKeeps DEF Past
<1>13. ASSUME NEW r \in Runners, Crash(r) PROVE IInv'
  BY <1>13, QuietStepKeeps DEF Crash, rows, work, Past
<1> QED
  BY <1>1, <1>2, <1>3, <1>4, <1>5, <1>6, <1>7, <1>8, <1>9, <1>10, <1>11, <1>12, <1>13
  DEF Next, Refused, Fail

\* Orders carry the day they were made for.
LEMMA OrdersAreOfTheDay ==
  ASSUME NEW old, NEW new, NEW d, NEW o \in Inserted(Orders(old, new, d))
  PROVE  o.date = d
BY DEF Inserted, Orders

\* With the daily script as the only runner, a day logged as a success keeps
\* its value and its trades, whatever fails and is tried again on other days
\* (PaperTradingEngine.run, run_single_account).
THEOREM DoneDaysStay == OneRunner => (Spec => DoneIsFinal)
<1> SUFFICES ASSUME OneRunner PROVE Spec => DoneIsFinal
  OBVIOUS
<1> DEFINE Final == \A d \in runs :
                      /\ navs'[d] = navs[d]
                      /\ {t \in trades' : t.date = d} = {t \in trades : t.date = d}
<1>1. Init => IInv
  BY InitHolds, PaperAssumption
<1>2. IInv /\ [Next]_vars => IInv'
  BY StepKeeps, PaperAssumption
<1>3. ASSUME IInv, [Next]_vars PROVE Final
  <2>1. CASE navs' = navs /\ trades' = trades
    BY <2>1
  <2>2. ASSUME NEW r \in Runners, Trade(r) PROVE Final
    <3>1. PICK new : trades' = trades \cup new /\ \A o \in new : o.date = day[r]
      <4>1. PICK targets \in SUBSET Codes :
              LET after == Rebalanced(held[r], money[r], targets)
              IN trades' = trades \cup Inserted(Orders(held[r], after.held, day[r]))
        BY <2>2 DEF Trade
      <4> DEFINE after == Rebalanced(held[r], money[r], targets)
                 new == Inserted(Orders(held[r], after.held, day[r]))
      <4>2. trades' = trades \cup new
        BY <4>1
      <4>3. \A o \in new : o.date = day[r]
        BY OrdersAreOfTheDay
      <4> HIDE DEF new
      <4> QED BY <4>2, <4>3
    <3>2. day[r] \notin runs
      BY <1>3, <2>2 DEF Trade, Goto, IInv, UnloggedDay, Past
    <3>3. navs' = navs
      BY <2>2 DEF Trade
    <3> QED BY <3>1, <3>2, <3>3
  <2>3. ASSUME NEW r \in Runners, SaveNav(r) PROVE Final
    <3>1. day[r] \notin runs
      BY <1>3, <2>3 DEF SaveNav, Goto, IInv, UnloggedDay, Past
    <3>2. \A d \in Days : d # day[r] => navs'[d] = navs[d]
      BY <1>3, <2>3 DEF SaveNav, IInv
    <3>3. trades' = trades
      BY <2>3 DEF SaveNav
    <3> QED BY <1>3, <3>1, <3>2, <3>3 DEF IInv
  <2> QED BY <1>3, <2>1, <2>2, <2>3
          DEF Next, vars, rows, NewDay, Start, LoadAccount, CheckRun, LoadPositions,
              SavePositions, SaveAccount, SaveRun, Refused, Fail, Again, Crash
<1>4. IInv /\ [Next]_vars => [Final]_vars
  BY <1>3
<1> QED BY <1>1, <1>2, <1>4, PTL DEF Spec, DoneIsFinal

-----------------------------------------------------------------------------
(* Types                                                                   *)

\* What is read from the account is not negative, and the snapshot lets no
\* negative amount of cash through to the account.
Solvent ==
  \A r \in Runners :
    pc[r] \in {"check", "positions", "trade", "save", "account"} => money[r] >= 0

TInv == TypeOK /\ Solvent

PCs == {"idle", "load", "check", "positions", "trade", "nav", "save", "account", "log"}

\* What is picked gets equal shares, and the cash is a part of the wealth.
LEMMA RebalancedTypes ==
  ASSUME PaperAssumption, NEW holding \in Holdings, NEW purse \in Nat,
         NEW targets \in SUBSET Codes
  PROVE  /\ Rebalanced(holding, purse, targets).held \in Holdings
         /\ Rebalanced(holding, purse, targets).cash \in Nat
         /\ Owned(Rebalanced(holding, purse, targets).held) \subseteq targets
<1> DEFINE wealth == purse + MarketValue(holding)
           n == Cardinality(targets)
<1>1. wealth \in Nat
  BY MarketValueNatural
<1>2. n \in Nat /\ (n = 0 <=> targets = {})
  BY SizeOfStocks
<1>3. CASE targets = {}
  <2>1. Rebalanced(holding, purse, targets) = [held |-> NoHolding, cash |-> wealth]
    BY <1>3 DEF Rebalanced
  <2> QED BY <1>1, <2>1 DEF Owned, NoHolding, Holdings
<1>4. CASE targets # {}
  <2>1. Rebalanced(holding, purse, targets) =
          [held |-> [c \in Codes |-> IF c \in targets THEN wealth \div n ELSE 0],
           cash |-> 0]
    BY <1>4 DEF Rebalanced
  <2> HIDE DEF wealth, n
  <2>2. n \in Nat /\ n > 0
    BY <1>2, <1>4
  <2>3. wealth \div n \in Nat
    BY <1>1, <2>2
  <2> DEFINE q == wealth \div n
  <2> HIDE DEF q
  <2>4. Rebalanced(holding, purse, targets).held =
          [c \in Codes |-> IF c \in targets THEN q ELSE 0]
        /\ Rebalanced(holding, purse, targets).cash = 0
    BY <2>1 DEF q
  <2>5. q \in Nat
    BY <2>3 DEF q
  <2> QED BY <2>4, <2>5 DEF Owned, Holdings
<1> QED BY <1>3, <1>4

\* At most one order for a stock: their number is a natural.
LEMMA OrdersCount ==
  ASSUME PaperAssumption, NEW old \in Holdings, NEW new \in Holdings, NEW d \in Days
  PROVE  /\ Inserted(Orders(old, new, d)) \subseteq
              [date : Days, code : Codes, side : {"buy", "sell"}]
         /\ Cardinality(Inserted(Orders(old, new, d))) \in Nat
<1> DEFINE O == Orders(old, new, d)
           K == {k \in Codes : new[k] # old[k]}
           order == [c \in K |-> [date |-> d, code |-> c,
                                  side |-> IF new[c] > old[c] THEN "buy" ELSE "sell"]]
<1>1. O \subseteq [date : Days, code : Codes, side : {"buy", "sell"}]
  BY DEF Orders
<1>2. order \in Surjection(K, O)
  BY DEF Surjection, Orders
<1>3. IsFiniteSet(K)
  <2>1. K \in SUBSET Codes
    OBVIOUS
  <2> HIDE DEF K
  <2> QED BY <2>1, FS_Subset DEF PaperAssumption
<1> HIDE DEF O, K, order
<1>4. IsFiniteSet(O)
  BY <1>2, <1>3, FS_Surjection
<1>5. Inserted(O) \in SUBSET O
  BY DEF Inserted
<1>6. Cardinality(Inserted(O)) \in Nat
  BY <1>4, <1>5, FS_Subset, FS_CardinalityType
<1> QED BY <1>1, <1>5, <1>6 DEF O

\* The types hold at the start.
LEMMA InitTypes ==
  ASSUME PaperAssumption, Init
  PROVE  TInv
<1>1. NoHolding \in Holdings
  BY DEF NoHolding, Holdings
<1>2. 1 \in Days
  BY DEF PaperAssumption, Days
<1>3. \A r \in Runners : 1 \in 1..Attempts[r]
  BY DEF PaperAssumption
<1>4. fee \in Fees /\ Capital \in Nat /\ 0 \in 0..MaxFaults
  BY DEF Init, PaperAssumption
<1> QED BY <1>1, <1>2, <1>3, <1>4 DEF Init, TInv, TypeOK, Solvent, NoNav

\* A run that is tried again or given up.
LEMMA AgainTypes ==
  ASSUME PaperAssumption, TInv, NEW r \in Runners, Again(r), faults' \in 0..MaxFaults
  PROVE  TInv'
<1>1. /\ pc' = [pc EXCEPT ![r] = "load"] \/ pc' = [pc EXCEPT ![r] = "idle"]
      /\ UNCHANGED <<fee, today, pick, rows, work>>
  BY DEF Again
<1>2. attempt' \in [Runners -> Nat] /\ \A q \in Runners : attempt'[q] \in 1..Attempts[q]
  <2>1. CASE attempt' = attempt
    BY <2>1 DEF TInv, TypeOK
  <2>2. CASE attempt[r] < Attempts[r] /\ attempt' = [attempt EXCEPT ![r] = @ + 1]
    <3>1. /\ attempt \in [Runners -> Nat]
          /\ \A q \in Runners : attempt[q] \in 1..Attempts[q] /\ Attempts[q] \in Nat
      BY DEF TInv, TypeOK, PaperAssumption
    <3> QED BY <2>2, <3>1
  <2> QED BY <2>1, <2>2 DEF Again
<1> QED BY <1>1, <1>2 DEF TInv, TypeOK, Solvent, rows, work

\* A run turns the portfolio over.
LEMMA TradeTypes ==
  ASSUME PaperAssumption, TInv, NEW r \in Runners, Trade(r)
  PROVE  TInv'
<1>1. PICK targets \in SUBSET Codes :
        LET after == Rebalanced(held[r], money[r], targets)
            new == Inserted(Orders(held[r], after.held, day[r])) IN
        /\ pick' = [pick EXCEPT ![day[r]] = targets]
        /\ trades' = trades \cup new
        /\ held' = [held EXCEPT ![r] = after.held]
        /\ money' = [money EXCEPT ![r] = after.cash - fee * Cardinality(new)]
  BY DEF Trade
<1> DEFINE after == Rebalanced(held[r], money[r], targets)
           new == Inserted(Orders(held[r], after.held, day[r]))
<1>2. /\ pc[r] = "trade" /\ pc' = [pc EXCEPT ![r] = "nav"]
      /\ UNCHANGED <<fee, today, cash, positions, navs, runs, attempt, day, faults>>
  BY DEF Trade, Goto
<1>3. held[r] \in Holdings /\ money[r] \in Nat /\ day[r] \in Days /\ fee \in Nat
  BY <1>2 DEF TInv, TypeOK, Solvent, PaperAssumption
<1>4. after.held \in Holdings /\ after.cash \in Nat
  BY <1>3, RebalancedTypes
<1>5. /\ new \subseteq [date : Days, code : Codes, side : {"buy", "sell"}]
      /\ Cardinality(new) \in Nat
  <2> HIDE DEF after
  <2> QED BY <1>3, <1>4, OrdersCount
<1>6. /\ pick' = [pick EXCEPT ![day[r]] = targets] /\ trades' = trades \cup new
      /\ held' = [held EXCEPT ![r] = after.held]
      /\ money' = [money EXCEPT ![r] = after.cash - fee * Cardinality(new)]
  BY <1>1
<1> HIDE DEF after, new
<1>7. after.cash - fee * Cardinality(new) \in Int
  BY <1>3, <1>4, <1>5
<1>8. TypeOK'
  BY <1>2, <1>3, <1>4, <1>5, <1>6, <1>7 DEF TInv, TypeOK
<1>9. Solvent'
  BY <1>2, <1>6 DEF TInv, TypeOK, Solvent
<1> QED BY <1>8, <1>9 DEF TInv

\* The value of a day is its cash, which is not negative, and its holdings.
LEMMA SaveNavTypes ==
  ASSUME PaperAssumption, TInv, NEW r \in Runners, SaveNav(r)
  PROVE  /\ TInv' /\ navs'[day[r]] # NoNav
         /\ \A d \in Days : navs'[d] # navs[d] => navs'[d] # NoNav
<1>1. /\ pc' = [pc EXCEPT ![r] = "save"] /\ money[r] >= 0
      /\ navs' = [navs EXCEPT ![day[r]] = money[r] + MarketValue(held[r])]
      /\ UNCHANGED <<fee, today, pick, cash, positions, trades, runs, attempt, work, faults>>
  BY DEF SaveNav, Goto
<1>2. money[r] \in Int /\ held[r] \in Holdings /\ day[r] \in Days
      /\ navs \in [Days -> Nat \cup {NoNav}]
  BY DEF TInv, TypeOK
<1>3. money[r] + MarketValue(held[r]) \in Nat
  BY <1>1, <1>2, MarketValueNatural
<1>4. NoNav \notin Nat
  BY DEF NoNav
<1> QED BY <1>1, <1>2, <1>3, <1>4 DEF TInv, TypeOK, Solvent, work

\* Every step keeps the types.
LEMMA StepTypes ==
  ASSUME PaperAssumption, TInv, [Next]_vars
  PROVE  TInv'
<1>1. CASE UNCHANGED vars
  BY <1>1 DEF vars, rows, work, TInv, TypeOK, Solvent
<1>2. CASE NewDay
  BY <1>2 DEF NewDay, rows, work, TInv, TypeOK, Solvent, Days, PaperAssumption
<1>3. ASSUME NEW r \in Runners, Start(r) PROVE TInv'
  <2>1. 1 \in 1..Attempts[r]
    BY DEF PaperAssumption
  <2> QED BY <1>3, <2>1 DEF Start, Goto, rows, TInv, TypeOK, Solvent
<1>4. ASSUME NEW r \in Runners, LoadAccount(r) PROVE TInv'
  BY <1>4 DEF LoadAccount, Goto, rows, TInv, TypeOK, Solvent
<1>5. ASSUME NEW r \in Runners, CheckRun(r) PROVE TInv'
  BY <1>5 DEF CheckRun, Goto, rows, work, TInv, TypeOK, Solvent
<1>6. ASSUME NEW r \in Runners, LoadPositions(r) PROVE TInv'
  BY <1>6 DEF LoadPositions, Goto, rows, TInv, TypeOK, Solvent
<1>7. ASSUME NEW r \in Runners, Trade(r) PROVE TInv'
  BY <1>7, TradeTypes
<1>8. ASSUME NEW r \in Runners, SaveNav(r) PROVE TInv'
  BY <1>8, SaveNavTypes
<1>9. ASSUME NEW r \in Runners, SavePositions(r) PROVE TInv'
  BY <1>9 DEF SavePositions, Goto, work, TInv, TypeOK, Solvent
<1>10. ASSUME NEW r \in Runners, SaveAccount(r) PROVE TInv'
  BY <1>10 DEF SaveAccount, Goto, work, TInv, TypeOK, Solvent
<1>11. ASSUME NEW r \in Runners, SaveRun(r) PROVE TInv'
  BY <1>11 DEF SaveRun, Goto, work, TInv, TypeOK, Solvent
<1>12. ASSUME NEW r \in Runners, Refused(r) \/ Fail(r) PROVE TInv'
  <2>1. faults' \in 0..MaxFaults
    BY <1>12 DEF Refused, Fail, TInv, TypeOK, PaperAssumption
  <2> QED BY <1>12, <2>1, AgainTypes DEF Refused, Fail
<1>13. ASSUME NEW r \in Runners, Crash(r) PROVE TInv'
  BY <1>13 DEF Crash, rows, work, TInv, TypeOK, Solvent, PaperAssumption
<1> QED
  BY <1>1, <1>2, <1>3, <1>4, <1>5, <1>6, <1>7, <1>8, <1>9, <1>10, <1>11, <1>12, <1>13
  DEF Next

\* The state of the accounts keeps its types, with any number of runners: no
\* row ever holds a negative amount (chk_paper_nav_nonnegative,
\* _update_account_summary).
THEOREM PaperTyping == Spec => []TypeOK
<1>1. Init => TInv
  BY InitTypes, PaperAssumption
<1>2. TInv /\ [Next]_vars => TInv'
  BY StepTypes, PaperAssumption
<1>3. TInv => TypeOK
  BY DEF TInv
<1> QED BY <1>1, <1>2, <1>3, PTL DEF Spec

-----------------------------------------------------------------------------
(* A logged day is whole                                                   *)

\* What a run works on is not before any day logged; past the snapshot the
\* day has its value, past the trades the portfolio in memory is what was
\* picked, and past its saving the one on record.
RunKnows(r) ==
  /\ day[r] <= today
  /\ pc[r] # "idle" => \A d \in runs : d <= day[r]
  /\ pc[r] \in {"save", "account", "log"} => navs[day[r]] # NoNav
  /\ pc[r] \in {"nav", "save", "account", "log"} /\ day[r] \in RebalanceDays =>
       Owned(held[r]) \subseteq pick[day[r]]
  /\ pc[r] \in {"account", "log"} => positions = held[r]

\* No day to come is logged, and a logged day has its value and its pick.
LogWhole ==
  /\ \A d \in runs : d <= today /\ navs[d] # NoNav
  /\ today \in runs /\ today \in RebalanceDays => Owned(positions) \subseteq pick[today]

LInv == IInv /\ TInv /\ LogWhole /\ \A r \in Runners : RunKnows(r)

\* Past the check of the log no day from the one worked on is logged.
LEMMA TodayUnlogged ==
  ASSUME PaperAssumption, LInv, NEW r \in Runners, pc[r] \in Past
  PROVE  today \notin runs
<1>1. day[r] \notin runs /\ day[r] <= today /\ \A d \in runs : d <= day[r]
  BY DEF LInv, IInv, UnloggedDay, RunKnows, Past
<1>2. day[r] \in Int /\ today \in Int
  BY DEF LInv, TInv, TypeOK, Days
<1> QED BY <1>1, <1>2

\* A step that leaves rows and work alone.
LEMMA QuietLog ==
  ASSUME PaperAssumption, OneRunner, LInv, IInv', TInv', NEW r \in Runners,
         NEW to \in PCs, pc' = [pc EXCEPT ![r] = to],
         to \in {"idle", "load"} \/ (pc[r] = "load" /\ to = "check")
           \/ (pc[r] = "check" /\ to = "positions"),
         UNCHANGED <<today, pick, positions, navs, runs, day, held>>,
         pc[r] # "idle"
  PROVE  LInv'
<1>1. ASSUME NEW q \in Runners PROVE RunKnows(q)'
  <2>1. q = r /\ pc'[q] = to
    BY DEF OneRunner, LInv, IInv
  <2> QED BY <2>1 DEF LInv, RunKnows, Owned
<1>2. LogWhole'
  BY DEF LInv, LogWhole, Owned
<1> QED BY <1>1, <1>2 DEF LInv

\* A run begins with a day no logged day is after.
LEMMA StartLog ==
  ASSUME PaperAssumption, OneRunner, LInv, IInv', TInv', NEW r \in Runners, Start(r)
  PROVE  LInv'
<1>1. /\ pc' = [pc EXCEPT ![r] = "load"] /\ day' = [day EXCEPT ![r] = today]
      /\ UNCHANGED <<today, pick, positions, navs, runs, held>>
  BY DEF Start, Goto, rows
<1>2. ASSUME NEW q \in Runners PROVE RunKnows(q)'
  <2>1. q = r /\ pc'[q] = "load" /\ day'[q] = today
    BY <1>1 DEF OneRunner, LInv, TInv, TypeOK
  <2>2. today \in Int /\ \A d \in runs : d <= today
    BY DEF LInv, LogWhole, TInv, TypeOK, Days
  <2> QED BY <1>1, <2>1, <2>2 DEF RunKnows
<1>3. LogWhole'
  BY <1>1 DEF LInv, LogWhole, Owned
<1> QED BY <1>2, <1>3 DEF LInv

\* A day without rebalancing goes to its valuation with what is on record.
LEMMA LoadPositionsLog ==
  ASSUME PaperAssumption, OneRunner, LInv, IInv', TInv', NEW r \in Runners,
         LoadPositions(r)
  PROVE  LInv'
<1>1. /\ pc[r] = "positions"
      /\ pc' = [pc EXCEPT ![r] = IF day[r] \in RebalanceDays THEN "trade" ELSE "nav"]
      /\ UNCHANGED <<today, pick, positions, navs, runs, day>>
  BY DEF LoadPositions, Goto, rows
<1>2. ASSUME NEW q \in Runners PROVE RunKnows(q)'
  <2>1. /\ q = r /\ day'[q] = day[r]
        /\ pc'[q] = IF day[r] \in RebalanceDays THEN "trade" ELSE "nav"
    BY <1>1 DEF OneRunner, LInv, TInv, TypeOK
  <2> QED BY <1>1, <2>1 DEF LInv, RunKnows
<1>3. LogWhole'
  BY <1>1 DEF LInv, LogWhole, Owned
<1> QED BY <1>2, <1>3 DEF LInv

\* After the trades nothing is held that was not picked.
LEMMA TradeLog ==
  ASSUME PaperAssumption, OneRunner, LInv, IInv', TInv', NEW r \in Runners, Trade(r)
  PROVE  LInv'
<1>1. PICK targets \in SUBSET Codes :
        /\ pick' = [pick EXCEPT ![day[r]] = targets]
        /\ held' = [held EXCEPT ![r] = Rebalanced(held[r], money[r], targets).held]
  BY DEF Trade
<1>2. /\ pc[r] = "trade" /\ pc' = [pc EXCEPT ![r] = "nav"]
      /\ UNCHANGED <<today, positions, navs, runs, day>>
  BY DEF Trade, Goto
<1>3. held[r] \in Holdings /\ money[r] \in Nat /\ day[r] \in Days
  BY <1>2 DEF LInv, TInv, TypeOK, Solvent
<1>4. Owned(Rebalanced(held[r], money[r], targets).held) \subseteq targets
  BY <1>3, RebalancedTypes
<1>5. /\ held'[r] = Rebalanced(held[r], money[r], targets).held
      /\ pick'[day[r]] = targets
  BY <1>1, <1>3 DEF LInv, TInv, TypeOK
<1>6. Owned(held'[r]) \subseteq pick'[day[r]]
  BY <1>4, <1>5
<1>7. ASSUME NEW q \in Runners PROVE RunKnows(q)'
  <2>1. q = r /\ pc'[q] = "nav" /\ day'[q] = day[r]
    BY <1>2 DEF OneRunner, LInv, TInv, TypeOK
  <2> QED BY <1>2, <1>6, <2>1 DEF LInv, RunKnows, Owned
<1>8. LogWhole'
  <2>1. today \notin runs
    BY <1>2, TodayUnlogged DEF Past
  <2> QED BY <1>2, <2>1 DEF LInv, LogWhole
<1> QED BY <1>7, <1>8 DEF LInv

\* The snapshot of a day.
LEMMA SaveNavLog ==
  ASSUME PaperAssumption, OneRunner, LInv, IInv', TInv', NEW r \in Runners, SaveNav(r)
  PROVE  LInv'
<1>1. /\ pc[r] = "nav" /\ pc' = [pc EXCEPT ![r] = "save"]
      /\ UNCHANGED <<today, pick, positions, runs, day, held>>
  BY DEF SaveNav, Goto, work
<1>2. navs'[day[r]] # NoNav /\ \A d \in Days : navs'[d] # navs[d] => navs'[d] # NoNav
  BY SaveNavTypes DEF LInv
<1>3. ASSUME NEW q \in Runners PROVE RunKnows(q)'
  <2>1. q = r /\ pc'[q] = "save" /\ day'[q] = day[r]
    BY <1>1 DEF OneRunner, LInv, TInv, TypeOK
  <2> QED BY <1>1, <1>2, <2>1 DEF LInv, RunKnows, Owned
<1>4. LogWhole'
  <2>1. runs \subseteq Days
    BY DEF LInv, IInv
  <2> QED BY <1>1, <1>2, <2>1 DEF LInv, LogWhole, Owned
<1> QED BY <1>3, <1>4 DEF LInv

\* Positions and account.
LEMMA SaveRowsLog ==
  ASSUME PaperAssumption, OneRunner, LInv, IInv', TInv', NEW r \in Runners,
         SavePositions(r) \/ SaveAccount(r)
  PROVE  LInv'
<1>1. /\ \/ pc[r] = "save" /\ pc' = [pc EXCEPT ![r] = "account"] /\ positions' = held[r]
         \/ pc[r] = "account" /\ pc' = [pc EXCEPT ![r] = "log"] /\ positions' = positions
      /\ UNCHANGED <<today, pick, navs, runs, day, held>>
  BY DEF SavePositions, SaveAccount, Goto, work
<1>2. ASSUME NEW q \in Runners PROVE RunKnows(q)'
  <2>1. q = r /\ day'[q] = day[r] /\ held'[q] = held[r]
        /\ pc'[q] \in {"account", "log"} /\ positions' = held[r]
    BY <1>1 DEF OneRunner, LInv, TInv, TypeOK, RunKnows
  <2> QED BY <1>1, <2>1 DEF LInv, RunKnows, Owned
<1>3. LogWhole'
  <2>1. today \notin runs
    BY <1>1, TodayUnlogged DEF Past
  <2> QED BY <1>1, <2>1 DEF LInv, LogWhole
<1> QED BY <1>2, <1>3 DEF LInv

\* The day is logged last.
LEMMA SaveRunLog ==
  ASSUME PaperAssumption, OneRunner, LInv, IInv', TInv', NEW r \in Runners, SaveRun(r)
  PROVE  LInv'
<1>1. /\ pc[r] = "log" /\ pc' = [pc EXCEPT ![r] = "idle"] /\ runs' = runs \cup {day[r]}
      /\ UNCHANGED <<today, pick, positions, navs, day, held>>
  BY DEF SaveRun, Goto, work
<1>2. RunKnows(r)
  BY DEF LInv
<1>3. ASSUME NEW q \in Runners PROVE RunKnows(q)'
  <2>1. q = r /\ pc'[q] = "idle"
    BY <1>1 DEF OneRunner, LInv, TInv, TypeOK
  <2> QED BY <1>1, <1>2, <2>1 DEF RunKnows
<1>4. LogWhole'
  <2>1. today \notin runs
    BY <1>1, TodayUnlogged DEF Past
  <2> QED BY <1>1, <1>2, <2>1 DEF LInv, LogWhole, RunKnows, Owned
<1> QED BY <1>3, <1>4 DEF LInv

\* Every step keeps the invariant.
LEMMA StepLog ==
  ASSUME PaperAssumption, OneRunner, LInv, [Next]_vars
  PROVE  LInv'
<1>1. IInv' /\ TInv'
  BY StepKeeps, StepTypes DEF LInv
<1>2. CASE UNCHANGED vars
  BY <1>1, <1>2 DEF vars, rows, work, LInv, LogWhole, RunKnows, Owned
<1>3. CASE NewDay
  <2>1. today' = today + 1 /\ today \in Int /\ \A d \in Days : d \in Int
    BY <1>3 DEF NewDay, LInv, TInv, TypeOK, Days
  <2>2. UNCHANGED <<pick, rows, pc, day, held>>
    BY <1>3 DEF NewDay, work
  <2>3. today' \notin runs
    BY <2>1 DEF LInv, LogWhole
  <2>4. LogWhole'
    BY <2>1, <2>2, <2>3 DEF LInv, LogWhole, IInv, rows
  <2>5. ASSUME NEW q \in Runners PROVE RunKnows(q)'
    <3>1. day[q] \in Int /\ day[q] <= today
      BY DEF LInv, RunKnows, TInv, TypeOK, Days
    <3>2. day'[q] <= today'
      BY <2>1, <2>2, <3>1
    <3> QED BY <2>2, <3>2 DEF LInv, RunKnows, rows, Owned
  <2> QED BY <1>1, <2>4, <2>5 DEF LInv
<1>4. ASSUME NEW r \in Runners, Start(r) PROVE LInv'
  BY <1>1, <1>4, StartLog
<1>5. ASSUME NEW r \in Runners, LoadAccount(r) PROVE LInv'
  <2>1. /\ pc[r] = "load" /\ pc' = [pc EXCEPT ![r] = "check"] /\ "check" \in PCs
        /\ UNCHANGED <<today, pick, positions, navs, runs, day, held>>
    BY <1>5 DEF LoadAccount, Goto, rows, PCs
  <2> QED BY <1>1, <2>1, QuietLog
<1>6. ASSUME NEW r \in Runners, CheckRun(r) PROVE LInv'
  <2>1. PICK to \in {"idle", "positions"} :
          pc[r] = "check" /\ pc' = [pc EXCEPT ![r] = to]
    BY <1>6 DEF CheckRun, Goto
  <2>2. to \in PCs /\ UNCHANGED <<today, pick, positions, navs, runs, day, held>>
    BY <1>6, <2>1 DEF CheckRun, rows, work, PCs
  <2> QED BY <1>1, <2>1, <2>2, QuietLog
<1>7. ASSUME NEW r \in Runners, LoadPositions(r) PROVE LInv'
  BY <1>1, <1>7, LoadPositionsLog
<1>8. ASSUME NEW r \in Runners, Trade(r) PROVE LInv'
  BY <1>1, <1>8, TradeLog
<1>9. ASSUME NEW r \in Runners, SaveNav(r) PROVE LInv'
  BY <1>1, <1>9, SaveNavLog
<1>10. ASSUME NEW r \in Runners, SavePositions(r) \/ SaveAccount(r) PROVE LInv'
  BY <1>1, <1>10, SaveRowsLog
<1>11. ASSUME NEW r \in Runners, SaveRun(r) PROVE LInv'
  BY <1>1, <1>11, SaveRunLog
<1>12. ASSUME NEW r \in Runners, Refused(r) \/ Fail(r) \/ Crash(r) PROVE LInv'
  <2>1. pc[r] # "idle" /\ UNCHANGED <<today, pick, positions, navs, runs, day, held>>
    BY <1>12 DEF Refused, Fail, Crash, Again, rows, work
  <2>2. PICK to \in {"idle", "load"} : pc' = [pc EXCEPT ![r] = to]
    BY <1>12 DEF Refused, Fail, Crash, Again
  <2> QED BY <1>1, <2>1, <2>2, QuietLog DEF PCs
<1> QED
  BY <1>2, <1>3, <1>4, <1>5, <1>6, <1>7, <1>8, <1>9, <1>10, <1>11, <1>12 DEF Next

\* At the start nothing is logged.
LEMMA InitLog ==
  ASSUME PaperAssumption, Init
  PROVE  LInv
<1>1. IInv /\ TInv
  BY InitHolds, InitTypes
<1>2. LogWhole /\ \A r \in Runners : RunKnows(r)
  BY DEF Init, LogWhole, RunKnows, Owned, NoHolding
<1> QED BY <1>1, <1>2 DEF LInv

\* The last day logged is one of them.
LEMMA LastLogged ==
  ASSUME PaperAssumption, LInv, runs # {}
  PROVE  Max(runs) \in runs
<1>1. runs \subseteq Nat /\ today \in Nat
      /\ \A d \in runs : d <= today
  BY DEF LInv, TInv, TypeOK, Days, LogWhole
<1> DEFINE T == {today - d : d \in runs}
<1>2. T \in SUBSET Nat /\ T # {}
  <2>1. ASSUME NEW d \in runs PROVE today - d \in Nat
    <3>1. d \in Nat /\ d <= today
      BY <1>1
    <3> QED BY <1>1, <3>1
  <2> QED BY <2>1
<1>3. PICK n \in T : \A m \in T : n <= m
  <2> HIDE DEF T
  <2> QED BY <1>2, LeastNatural
<1>4. PICK x \in runs : n = today - x
  BY <1>3
<1>5. ASSUME NEW y \in runs PROVE x >= y
  <2>1. today - x <= today - y
    BY <1>3, <1>4
  <2> QED BY <1>1, <2>1
<1> QED BY <1>5 DEF Max

\* With the daily script as the only runner, a day logged as a success has its
\* value on record, and when it rebalanced today, nothing is held that was not
\* picked, whatever failed, was killed or was tried again
\* (PaperTradingEngine.run, run_single_account).
THEOREM SuccessesAreWhole == OneRunner => (Spec => []SuccessIsWhole)
<1> SUFFICES ASSUME OneRunner PROVE Spec => []SuccessIsWhole
  OBVIOUS
<1>1. Init => LInv
  BY InitLog, PaperAssumption
<1>2. LInv /\ [Next]_vars => LInv'
  BY StepLog, PaperAssumption
<1>3. LInv => SuccessIsWhole
  BY LastLogged, PaperAssumption DEF LInv, LogWhole, SuccessIsWhole
<1> QED BY <1>1, <1>2, <1>3, PTL DEF Spec

-----------------------------------------------------------------------------
(* The worth of the account                                                *)

\* The code deals in fractions of shares; in whole shares the capital is to
\* be spread evenly over any number of stocks.
EvenShares ==
  \A n \in 1..Cardinality(Codes) : \E q \in Nat : Capital = q * n

\* What a run has in memory adds up to the capital from the trades on; before
\* them it is what is on record.
Books(r) ==
  /\ pc[r] \in {"check", "positions", "trade"} => money[r] = cash
  /\ pc[r] = "trade" => held[r] = positions
  /\ pc[r] \in {"nav", "save", "account", "log"} =>
       money[r] + MarketValue(held[r]) = Capital
  /\ pc[r] = "account" => positions = held[r]

\* So does what is on record, except between the transactions for positions
\* and account.
OnRecord ==
  (\A r \in Runners : pc[r] # "account") => cash + MarketValue(positions) = Capital

BInv == TInv /\ (fee = 0 /\ faults = 0 => OnRecord /\ \A r \in Runners : Books(r))

\* Spread evenly, the wealth stays what it was.
LEMMA RebalancedWorth ==
  ASSUME PaperAssumption, EvenShares, NEW holding \in Holdings, NEW purse \in Nat,
         NEW targets \in SUBSET Codes, purse + MarketValue(holding) = Capital
  PROVE  Rebalanced(holding, purse, targets).cash
           + MarketValue(Rebalanced(holding, purse, targets).held) = Capital
<1> DEFINE n == Cardinality(targets)
<1>1. /\ n \in Nat /\ (n = 0 <=> targets = {}) /\ n <= Cardinality(Codes)
      /\ Cardinality(Codes) \in Nat /\ Capital \in Nat
  BY SizeOfStocks DEF PaperAssumption
<1>2. CASE targets = {}
  <2>1. Rebalanced(holding, purse, targets) = [held |-> NoHolding, cash |-> Capital]
    BY <1>2 DEF Rebalanced
  <2> QED BY <1>1, <2>1, MarketValueOfNothing
<1>3. CASE targets # {}
  <2>1. Rebalanced(holding, purse, targets) =
          [held |-> [c \in Codes |-> IF c \in targets THEN Capital \div n ELSE 0],
           cash |-> 0]
    BY <1>3 DEF Rebalanced
  <2> HIDE DEF n
  <2>2. PICK q \in Nat : Capital = q * n
    <3>1. n \in 1..Cardinality(Codes)
      BY <1>1, <1>3
    <3> QED BY <3>1 DEF EvenShares
  <2>3. Capital \div n = q
    <3>1. n > 0
      BY <1>1, <1>3
    <3> QED BY <1>1, <2>2, <3>1
  <2>4. MarketValue([c \in Codes |-> IF c \in targets THEN q ELSE 0]) = q * n
    BY MarketValueOfEqual DEF n
  <2> QED BY <1>1, <2>1, <2>2, <2>3, <2>4
<1> QED BY <1>2, <1>3

\* At the start the cash is the capital.
LEMMA InitBooks ==
  ASSUME PaperAssumption, Init
  PROVE  BInv
BY InitTypes, MarketValueOfNothing DEF Init, BInv, OnRecord, Books, PaperAssumption

\* A step that leaves the rows alone.
LEMMA QuietBooks ==
  ASSUME PaperAssumption, OneRunner, BInv, TInv', NEW r \in Runners, NEW to \in PCs,
         pc' = [pc EXCEPT ![r] = to], fee' = fee, faults' = faults, pc[r] # "account",
         to # "account",
         UNCHANGED <<cash, positions>>,
         fee = 0 /\ faults = 0 => Books(r)'
  PROVE  BInv'
<1> SUFFICES ASSUME fee = 0, faults = 0
             PROVE  OnRecord' /\ \A q \in Runners : Books(q)'
  BY DEF BInv
<1>1. \A q \in Runners : q = r
  BY DEF OneRunner
<1>2. cash + MarketValue(positions) = Capital
  BY <1>1 DEF BInv, OnRecord
<1> QED BY <1>1, <1>2 DEF OnRecord

\* The trades spread what is on record.
LEMMA TradeBooks ==
  ASSUME PaperAssumption, OneRunner, EvenShares, BInv, TInv', NEW r \in Runners, Trade(r)
  PROVE  BInv'
<1>1. PICK targets \in SUBSET Codes :
        LET after == Rebalanced(held[r], money[r], targets)
            new == Inserted(Orders(held[r], after.held, day[r])) IN
        /\ held' = [held EXCEPT ![r] = after.held]
        /\ money' = [money EXCEPT ![r] = after.cash - fee * Cardinality(new)]
  BY DEF Trade
<1> DEFINE after == Rebalanced(held[r], money[r], targets)
           new == Inserted(Orders(held[r], after.held, day[r]))
<1>2. /\ pc[r] = "trade" /\ pc' = [pc EXCEPT ![r] = "nav"]
      /\ UNCHANGED <<fee, cash, positions, faults>>
  BY DEF Trade, Goto
<1>3. held[r] \in Holdings /\ money[r] \in Nat /\ day[r] \in Days
  BY <1>2 DEF BInv, TInv, TypeOK, Solvent
<1>4. after.held \in Holdings /\ after.cash \in Nat
  BY <1>3, RebalancedTypes
<1>5. Cardinality(new) \in Nat
  <2> HIDE DEF after
  <2> QED BY <1>3, <1>4, OrdersCount
<1>6. /\ held'[r] = after.held /\ money'[r] = after.cash - fee * Cardinality(new)
      /\ pc'[r] = "nav"
  BY <1>1, <1>2 DEF BInv, TInv, TypeOK
<1>7. ASSUME fee = 0, faults = 0 PROVE Books(r)'
  <2>1. \A q \in Runners : q = r
    BY DEF OneRunner
  <2>2. money[r] = cash /\ held[r] = positions /\ cash + MarketValue(positions) = Capital
    BY <1>2, <1>7, <2>1 DEF BInv, Books, OnRecord
  <2>3. after.cash + MarketValue(after.held) = Capital
    BY <1>3, <2>2, RebalancedWorth
  <2> HIDE DEF after, new
  <2>4. money'[r] = after.cash
    BY <1>4, <1>5, <1>6, <1>7
  <2> QED BY <1>6, <2>3, <2>4 DEF Books
<1> QED BY <1>2, <1>7, QuietBooks DEF PCs

\* Positions first, then the account.
LEMMA SavePositionsBooks ==
  ASSUME PaperAssumption, OneRunner, BInv, TInv', NEW r \in Runners, SavePositions(r)
  PROVE  BInv'
<1>1. /\ pc[r] = "save" /\ pc' = [pc EXCEPT ![r] = "account"] /\ positions' = held[r]
      /\ UNCHANGED <<fee, faults, cash, money, held>>
  BY DEF SavePositions, Goto, work
<1>2. \A q \in Runners : q = r
  BY DEF OneRunner
<1>3. pc'[r] = "account"
  BY <1>1 DEF BInv, TInv, TypeOK
<1> QED BY <1>1, <1>2, <1>3 DEF BInv, OnRecord, Books

LEMMA SaveAccountBooks ==
  ASSUME PaperAssumption, OneRunner, BInv, TInv', NEW r \in Runners, SaveAccount(r)
  PROVE  BInv'
<1>1. /\ pc[r] = "account" /\ pc' = [pc EXCEPT ![r] = "log"] /\ cash' = money[r]
      /\ UNCHANGED <<fee, faults, positions, money, held>>
  BY DEF SaveAccount, Goto, work
<1>2. \A q \in Runners : q = r
  BY DEF OneRunner
<1>3. pc'[r] = "log"
  BY <1>1 DEF BInv, TInv, TypeOK
<1> QED BY <1>1, <1>2, <1>3 DEF BInv, OnRecord, Books

\* Every step keeps the invariant.
LEMMA StepBooks ==
  ASSUME PaperAssumption, OneRunner, EvenShares, BInv, [Next]_vars
  PROVE  BInv'
<1>1. TInv'
  BY StepTypes DEF BInv
<1>2. pc \in [Runners -> PCs] /\ faults \in Nat
  BY DEF BInv, TInv, TypeOK, PCs, PaperAssumption
<1>3. CASE UNCHANGED vars \/ NewDay
  BY <1>1, <1>3 DEF vars, NewDay, rows, work, BInv, OnRecord, Books
<1>4. ASSUME NEW r \in Runners, Start(r) PROVE BInv'
  <2>1. pc[r] = "idle" /\ pc' = [pc EXCEPT ![r] = "load"] /\ "load" \in PCs
        /\ UNCHANGED <<fee, faults, cash, positions>>
    BY <1>4 DEF Start, Goto, rows, PCs
  <2>2. Books(r)'
    BY <1>2, <2>1 DEF Books
  <2> QED BY <1>1, <2>1, <2>2, QuietBooks
<1>5. ASSUME NEW r \in Runners, LoadAccount(r) PROVE BInv'
  <2>1. pc[r] = "load" /\ pc' = [pc EXCEPT ![r] = "check"] /\ "check" \in PCs
        /\ UNCHANGED <<fee, faults, cash, positions>> /\ money' = [money EXCEPT ![r] = cash]
    BY <1>5 DEF LoadAccount, Goto, rows, PCs
  <2>2. Books(r)'
    BY <1>2, <2>1 DEF Books, BInv, TInv, TypeOK
  <2> QED BY <1>1, <2>1, <2>2, QuietBooks
<1>6. ASSUME NEW r \in Runners, CheckRun(r) PROVE BInv'
  <2>1. PICK to \in {"idle", "positions"} :
          pc[r] = "check" /\ pc' = [pc EXCEPT ![r] = to]
    BY <1>6 DEF CheckRun, Goto
  <2>2. to \in PCs /\ UNCHANGED <<fee, faults, cash, positions, money, held>>
    BY <1>6 DEF CheckRun, rows, work, PCs
  <2>3. fee = 0 /\ faults = 0 => Books(r)'
    BY <1>2, <2>1, <2>2 DEF BInv, Books
  <2> QED BY <1>1, <2>1, <2>2, <2>3, QuietBooks
<1>7. ASSUME NEW r \in Runners, LoadPositions(r) PROVE BInv'
  <2>1. PICK to \in {"trade", "nav"} :
          pc[r] = "positions" /\ pc' = [pc EXCEPT ![r] = to]
    BY <1>7 DEF LoadPositions, Goto
  <2>2. to \in PCs /\ UNCHANGED <<fee, faults, cash, positions, money>>
        /\ held' = [held EXCEPT ![r] = positions]
    BY <1>7 DEF LoadPositions, rows, PCs
  <2>3. ASSUME fee = 0, faults = 0 PROVE Books(r)'
    <3>1. \A q \in Runners : q = r
      BY DEF OneRunner
    <3>2. cash + MarketValue(positions) = Capital /\ money[r] = cash
      BY <2>1, <2>3, <3>1 DEF BInv, Books, OnRecord
    <3>3. pc'[r] = to /\ held'[r] = positions /\ money'[r] = cash
      BY <1>2, <2>1, <2>2, <3>2 DEF BInv, TInv, TypeOK
    <3> QED BY <2>2, <3>2, <3>3 DEF Books
  <2> QED BY <1>1, <2>1, <2>2, <2>3, QuietBooks
<1>8. ASSUME NEW r \in Runners, Trade(r) PROVE BInv'
  BY <1>1, <1>8, TradeBooks
<1>9. ASSUME NEW r \in Runners, SaveNav(r) PROVE BInv'
  <2>1. pc[r] = "nav" /\ pc' = [pc EXCEPT ![r] = "save"] /\ "save" \in PCs
        /\ UNCHANGED <<fee, faults, cash, positions, money, held>>
    BY <1>9 DEF SaveNav, Goto, work, PCs
  <2>2. fee = 0 /\ faults = 0 => Books(r)'
    BY <1>2, <2>1 DEF BInv, Books
  <2> QED BY <1>1, <2>1, <2>2, QuietBooks
<1>10. ASSUME NEW r \in Runners, SavePositions(r) PROVE BInv'
  BY <1>1, <1>10, SavePositionsBooks
<1>11. ASSUME NEW r \in Runners, SaveAccount(r) PROVE BInv'
  BY <1>1, <1>11, SaveAccountBooks
<1>12. ASSUME NEW r \in Runners, SaveRun(r) PROVE BInv'
  <2>1. pc[r] = "log" /\ pc' = [pc EXCEPT ![r] = "idle"] /\ "idle" \in PCs
        /\ UNCHANGED <<fee, faults, cash, positions>>
    BY <1>12 DEF SaveRun, Goto, work, PCs
  <2>2. Books(r)'
    BY <1>2, <2>1 DEF Books
  <2> QED BY <1>1, <2>1, <2>2, QuietBooks
<1>13. ASSUME NEW r \in Runners, Refused(r) PROVE BInv'
  <2>1. PICK to \in {"idle", "load"} : pc[r] = "nav" /\ pc' = [pc EXCEPT ![r] = to]
    BY <1>13 DEF Refused, Again
  <2>2. to \in PCs /\ UNCHANGED <<fee, faults, cash, positions>>
    BY <1>13 DEF Refused, Again, rows, work, PCs
  <2>3. Books(r)'
    BY <1>2, <2>1 DEF Books
  <2> QED BY <1>1, <2>1, <2>2, <2>3, QuietBooks
<1>14. ASSUME NEW r \in Runners, Fail(r) \/ Crash(r) PROVE BInv'
  <2>1. faults' # 0
    BY <1>2, <1>14 DEF Fail, Crash
  <2> QED BY <1>1, <2>1 DEF BInv
<1> QED
  BY <1>3, <1>4, <1>5, <1>6, <1>7, <1>8, <1>9, <1>10, <1>11, <1>12, <1>13, <1>14 DEF Next

\* With one runner, and no costs or failures, what the account owns between
\* runs is the capital it started with: no day counts cash or a holding twice,
\* or drops one (_rebalance_normal_portfolio, _save_positions,
\* _update_account_summary).
THEOREM WorthIsConserved == OneRunner /\ EvenShares => (Spec => []WorthConserved)
<1> SUFFICES ASSUME OneRunner, EvenShares PROVE Spec => []WorthConserved
  OBVIOUS
<1>1. Init => BInv
  BY InitBooks, PaperAssumption
<1>2. BInv /\ [Next]_vars => BInv'
  BY StepBooks, PaperAssumption
<1>3. BInv => WorthConserved
  BY DEF BInv, OnRecord, WorthConserved, Quiet
<1> QED BY <1>1, <1>2, <1>3, PTL DEF Spec
=============================================================================
