------------------------- MODULE PaperScheduleProofs -------------------------
(***************************************************************************)
(* Proofs about PaperSchedule: which days an account rebalances, for every *)
(* calendar, every length of a month and every lag.                        *)
(***************************************************************************)
EXTENDS PaperSchedule, FiniteSetTheorems, WellFoundedInduction, TLAPS

-----------------------------------------------------------------------------
(* Least and greatest days                                                 *)

\* A set of naturals that is not empty has a least element.
LEMMA LeastNatural ==
  ASSUME NEW S \in SUBSET Nat, S # {}
  PROVE  \E n \in S : \A m \in S : n <= m
<1>1. PICK n \in S : \A m \in S : ~ (<<m, n>> \in OpToRel(<, Nat))
  BY NatLessThanWellFounded, WFMin
<1>2. ASSUME NEW m \in S PROVE n <= m
  <2>1. SUFFICES ASSUME m < n PROVE FALSE
    OBVIOUS
  <2>2. <<m, n>> \in Nat \X Nat /\ <<m, n>>[1] < <<m, n>>[2]
    BY <2>1
  <2>3. <<m, n>> \in OpToRel(<, Nat)
    BY <2>2, Zenon DEF OpToRel
  <2> QED BY <1>1, <2>3
<1> QED BY <1>2

\* Min finds it.
LEMMA MinIsLeast ==
  ASSUME NEW S \in SUBSET Nat, S # {}
  PROVE  Min(S) \in S /\ \A y \in S : Min(S) <= y
<1>1. \E x \in S : \A y \in S : x <= y
  BY LeastNatural
<1> QED BY <1>1 DEF Min

\* Max finds the greatest element of a bounded set.
LEMMA MaxIsGreatest ==
  ASSUME NEW S \in SUBSET Nat, S # {}, NEW b \in Nat, \A x \in S : x <= b
  PROVE  Max(S) \in S /\ \A y \in S : Max(S) >= y
<1> DEFINE T == {b - x : x \in S}
<1>1. T \in SUBSET Nat /\ T # {}
  <2>1. ASSUME NEW x \in S PROVE b - x \in Nat
    OBVIOUS
  <2> QED BY <2>1
<1>2. PICK n \in T : \A m \in T : n <= m
  <2> HIDE DEF T
  <2> QED BY <1>1, LeastNatural
<1>3. PICK x \in S : n = b - x
  BY <1>2
<1>4. ASSUME NEW y \in S PROVE x >= y
  <2>1. b - x <= b - y
    BY <1>2, <1>3
  <2> QED BY <2>1
<1> QED BY <1>4 DEF Max

-----------------------------------------------------------------------------
(* Months and sessions                                                     *)

\* Days are naturals from 1 on, and quotes are there for some of them.
LEMMA DaysAreNatural ==
  ASSUME ScheduleAssumption
  PROVE  /\ \A d \in Days : d \in Nat /\ d # None /\ d > 0 /\ d <= LastDay
         /\ LastDay \in Nat /\ Horizon \in Nat /\ Lag \in Nat /\ Tolerance \in Nat
         /\ \A t \in Quoted : t \in Days /\ t \in TradeDays
         /\ \A t \in TradeDays : t \in Days
<1>1. LastDay \in Nat /\ \A d \in 1..LastDay : d \in Nat /\ d > 0 /\ d <= LastDay
  BY DEF ScheduleAssumption
<1> QED BY <1>1 DEF ScheduleAssumption, Days, Quoted, None

\* A day lies in its month.
LEMMA MonthOfDay ==
  ASSUME ScheduleAssumption, NEW d \in Nat \ {0}
  PROVE  /\ Month(d) \in Nat
         /\ Month(d) * MonthLen < d /\ d <= MonthEnd(Month(d))
<1>1. MonthLen \in Nat /\ MonthLen > 0 /\ d - 1 \in Nat
  BY DEF ScheduleAssumption
<1> DEFINE q == (d - 1) \div MonthLen
           p == (d - 1) % MonthLen
<1>2. q \in Int /\ p \in 0..(MonthLen - 1) /\ d - 1 = MonthLen * q + p
  BY <1>1
<1>3. q >= 0
  BY <1>1
<1> HIDE DEF q, p
<1>4. q * MonthLen = MonthLen * q /\ (q + 1) * MonthLen = MonthLen * q + MonthLen
  BY <1>1, <1>2
<1> QED BY <1>1, <1>2, <1>3, <1>4 DEF Month, MonthEnd, q

\* A day not after the end of a month lies in that month or before.
LEMMA MonthsAreOrdered ==
  ASSUME ScheduleAssumption, NEW d \in Nat \ {0}, NEW m \in Nat, d <= MonthEnd(m)
  PROVE  Month(d) <= m /\ MonthEnd(Month(d)) <= MonthEnd(m)
<1>1. MonthLen \in Nat /\ MonthLen > 0
  BY DEF ScheduleAssumption
<1>2. Month(d) \in Nat /\ Month(d) * MonthLen < d
  BY MonthOfDay
<1> DEFINE q == Month(d)
<1> HIDE DEF q
<1>3. q \in Nat /\ q * MonthLen < (m + 1) * MonthLen
  BY <1>1, <1>2 DEF q, MonthEnd
<1>4. q < m + 1
  BY <1>1, <1>3
<1>5. (q + 1) * MonthLen <= (m + 1) * MonthLen
  BY <1>1, <1>3, <1>4
<1> QED BY <1>3, <1>4, <1>5 DEF q, MonthEnd

\* The end of a month is a day of that month or later than the calendar.
LEMMA MonthEndIsNat ==
  ASSUME ScheduleAssumption, NEW m \in Nat
  PROVE  MonthEnd(m) \in Nat
BY DEF ScheduleAssumption, MonthEnd

\* The nearest day with quotes is the greatest of them up to d.
LEMMA NearestDay ==
  ASSUME ScheduleAssumption, NEW d \in Nat, Nearest(d) # None
  PROVE  /\ Nearest(d) \in Quoted /\ Nearest(d) \in Days /\ Nearest(d) <= d
         /\ \A t \in Quoted : t <= d => t <= Nearest(d)
<1> DEFINE S == {t \in Quoted : t <= d}
<1>1. S # {} /\ Nearest(d) = Max(S)
  BY DEF Nearest
<1>2. S \in SUBSET Nat /\ \A x \in S : x <= d
  BY DaysAreNatural
<1>3. Max(S) \in S /\ \A y \in S : Max(S) >= y
  <2> HIDE DEF S
  <2> QED BY <1>1, <1>2, MaxIsGreatest
<1> QED BY <1>1, <1>3, DaysAreNatural

\* And the other way round: a greatest day with quotes is the nearest one.
LEMMA NearestIs ==
  ASSUME ScheduleAssumption, NEW d \in Nat, NEW s \in Quoted, s <= d,
         \A t \in Quoted : t <= d => t <= s
  PROVE  Nearest(d) = s
<1>1. Nearest(d) # None
  <2> DEFINE S == {t \in Quoted : t <= d}
  <2>2. S # {} /\ Nearest(d) = Max(S)
    BY DEF Nearest
  <2>3. S \in SUBSET Nat /\ \A x \in S : x <= d
    BY DaysAreNatural
  <2>4. Max(S) \in S
    <3> HIDE DEF S
    <3> QED BY <2>2, <2>3, MaxIsGreatest
  <2> QED BY <2>2, <2>4, DaysAreNatural
<1>2. Nearest(d) \in Quoted /\ Nearest(d) <= d /\ s <= Nearest(d)
  BY <1>1, NearestDay
<1>3. Nearest(d) <= s
  BY <1>2
<1> QED BY <1>2, <1>3, DaysAreNatural

\* The next session is one with quotes, and none lies between; or there is none
\* within the horizon and the day stays.
LEMMA NextSessionIs ==
  ASSUME ScheduleAssumption, NEW e \in Days
  PROVE  \/ /\ NextSession(e) = e
            /\ \A t \in Quoted : ~(e < t /\ t <= e + Horizon)
         \/ /\ NextSession(e) \in Quoted /\ e < NextSession(e)
            /\ \A t \in Quoted : ~(e < t /\ t < NextSession(e))
<1> DEFINE later == Quoted \cap (e + 1)..(e + Horizon)
<1>1. /\ \A t \in Quoted : t \in Nat
      /\ e \in Nat /\ Horizon \in Nat
  BY DaysAreNatural
<1>2. CASE later = {}
  <2>1. NextSession(e) = e
    BY <1>2 DEF NextSession
  <2>2. \A t \in Quoted : ~(e < t /\ t <= e + Horizon)
    BY <1>1, <1>2
  <2> QED BY <2>1, <2>2
<1>3. CASE later # {}
  <2>1. NextSession(e) = Min(later)
    BY <1>3 DEF NextSession
  <2>2. later \in SUBSET Nat
    BY <1>1
  <2>3. Min(later) \in later /\ \A y \in later : Min(later) <= y
    <3> HIDE DEF later
    <3> QED BY <1>3, <2>2, MinIsLeast
  <2>4. ASSUME NEW t \in Quoted, e < t, t < Min(later) PROVE FALSE
    <3> DEFINE l == Min(later)
    <3>1. t \in Nat /\ l \in Nat /\ l <= e + Horizon /\ e < t /\ t < l
      BY <1>1, <2>3, <2>4
    <3>2. t \in later
      <4> HIDE DEF l
      <4> QED BY <1>1, <3>1
    <3>3. l <= t
      BY <2>3, <3>2
    <3> HIDE DEF l
    <3> QED BY <3>1, <3>3
  <2>5. Min(later) \in Quoted /\ e < Min(later)
    BY <1>1, <2>3
  <2> QED BY <2>1, <2>4, <2>5
<1> QED BY <1>2, <1>3

-----------------------------------------------------------------------------
(* The execution day                                                       *)

\* What the recursion of ExecDate defines: the walk from a signal day.
Walks(s, f) ==
  f = [n \in 0..Lag |-> IF n = 0 THEN s ELSE NextSession(f[n - 1])]

\* The next session of a day is a day.
LEMMA NextSessionIsDay ==
  ASSUME ScheduleAssumption, NEW e \in Days
  PROVE  NextSession(e) \in Days
BY NextSessionIs, DaysAreNatural

\* There is a walk of any length.
LEMMA WalkExists ==
  ASSUME ScheduleAssumption, NEW s \in Days, NEW n \in Nat
  PROVE  \E f : f = [k \in 0..n |-> IF k = 0 THEN s ELSE NextSession(f[k - 1])]
<1> DEFINE W(f, m) == f = [k \in 0..m |-> IF k = 0 THEN s ELSE NextSession(f[k - 1])]
           Bad == {m \in Nat : \A f : ~W(f, m)}
<1> SUFFICES ASSUME Bad # {} PROVE FALSE
  OBVIOUS
<1>1. PICK m \in Bad : \A k \in Bad : m <= k
  <2> HIDE DEF Bad
  <2>1. Bad \in SUBSET Nat
    BY DEF Bad
  <2> QED BY <2>1, LeastNatural
<1>2. CASE m = 0
  <2> DEFINE f == [k \in 0..0 |-> s]
  <2>1. W(f, 0)
    OBVIOUS
  <2> HIDE DEF f
  <2> QED BY <1>1, <1>2, <2>1
<1>3. CASE m # 0
  <2>1. m \in Nat /\ m - 1 \in Nat /\ m - 1 \notin Bad
    <3>1. m \in Nat /\ \A k \in Bad : m <= k
      BY <1>1
    <3> HIDE DEF Bad
    <3> QED BY <1>3, <3>1
  <2>2. PICK g : W(g, m - 1)
    BY <2>1
  <2> DEFINE f == [k \in 0..m |-> IF k = 0 THEN s ELSE NextSession(g[k - 1])]
  <2>3. ASSUME NEW k \in 0..(m - 1) PROVE f[k] = g[k]
    <3>1. g[k] = IF k = 0 THEN s ELSE NextSession(g[k - 1])
      BY <2>2
    <3>2. k \in 0..m
      BY <2>1
    <3> QED BY <3>1, <3>2
  <2>4. ASSUME NEW k \in 0..m
        PROVE  f[k] = IF k = 0 THEN s ELSE NextSession(f[k - 1])
    <3>1. k # 0 => f[k - 1] = g[k - 1]
      <4>1. k # 0 => k - 1 \in 0..(m - 1)
        BY <2>1
      <4> HIDE DEF f
      <4> QED BY <2>3, <4>1
    <3>2. f[k] = IF k = 0 THEN s ELSE NextSession(g[k - 1])
      OBVIOUS
    <3> HIDE DEF f
    <3> QED BY <3>1, <3>2
  <2>5. W(f, m)
    <3>1. f = [k \in 0..m |-> f[k]]
      OBVIOUS
    <3> HIDE DEF f
    <3> QED BY <2>4, <3>1
  <2> HIDE DEF f
  <2> QED BY <1>1, <2>5
<1> QED BY <1>2, <1>3

\* The execution day is where the walk of Lag sessions ends.
LEMMA ExecDateWalks ==
  ASSUME ScheduleAssumption, NEW s \in Days
  PROVE  \E f : Walks(s, f) /\ ExecDate(s) = f[Lag]
<1> DEFINE Chosen == CHOOSE f : Walks(s, f)
<1>1. \E f : Walks(s, f)
  BY WalkExists, DaysAreNatural DEF Walks
<1>2. Walks(s, Chosen)
  BY <1>1
<1>3. ExecDate(s) = Chosen[Lag]
  BY DEF ExecDate, Walks
<1> QED BY <1>2, <1>3

\* What holds at the start of a walk and is kept by the next session holds all
\* along.
LEMMA AllAlong ==
  ASSUME ScheduleAssumption, NEW G \in SUBSET (0..Lag),
         0 \in G, \A n \in G : n < Lag => n + 1 \in G
  PROVE  G = 0..Lag
<1> DEFINE Bad == (0..Lag) \ G
<1> SUFFICES ASSUME Bad # {} PROVE FALSE
  OBVIOUS
<1>1. Lag \in Nat
  BY DaysAreNatural
<1>2. Bad \in SUBSET Nat
  BY <1>1
<1>3. PICK n \in Bad : \A k \in Bad : n <= k
  <2> HIDE DEF Bad
  <2> QED BY <1>2, LeastNatural
<1>4. n \in 0..Lag /\ n # 0 /\ n - 1 \in 0..Lag /\ n - 1 < Lag
  BY <1>1, <1>3
<1>5. n - 1 \notin Bad
  <2> HIDE DEF Bad
  <2> QED BY <1>3, <1>4
<1>6. (n - 1) + 1 \in G
  BY <1>4, <1>5
<1> QED BY <1>3, <1>4, <1>6

LEMMA WalkOfDays ==
  ASSUME ScheduleAssumption, NEW s \in Days, NEW f, Walks(s, f)
  PROVE  \A n \in 0..Lag : f[n] \in Days
<1> DEFINE G == {n \in 0..Lag : f[n] \in Days}
<1>1. Lag \in Nat
  BY DaysAreNatural
<1>2. 0 \in G
  BY <1>1 DEF Walks
<1>3. ASSUME NEW n \in G, n < Lag PROVE n + 1 \in G
  <2>1. n + 1 \in 0..Lag /\ (n + 1) - 1 = n /\ n + 1 # 0
    BY <1>1, <1>3
  <2>2. f[n + 1] = NextSession(f[n])
    BY <2>1 DEF Walks
  <2> QED BY <2>1, <2>2, NextSessionIsDay
<1>4. G = 0..Lag
  <2>1. G \in SUBSET (0..Lag)
    OBVIOUS
  <2> HIDE DEF G
  <2> QED BY <1>2, <1>3, <2>1, AllAlong
<1> QED BY <1>4

\* An execution day is a day of the calendar.
LEMMA ExecDateIsDay ==
  ASSUME ScheduleAssumption, NEW s \in Days
  PROVE  ExecDate(s) \in Days
<1>1. Lag \in 0..Lag
  BY DaysAreNatural
<1> QED BY <1>1, ExecDateWalks, WalkOfDays

-----------------------------------------------------------------------------
(* Types                                                                   *)

\* The latest signal month so far is one of the account's.
LEMMA LatestMonth ==
  ASSUME ScheduleAssumption, TypeOK, Current # {}
  PROVE  /\ Max(Current) \in signalMonths /\ Max(Current) \in Nat
         /\ Max(Current) <= Month(today)
<1>1. Current \in SUBSET Nat
  BY DEF ScheduleAssumption, TypeOK, Current
<1>2. Month(today) \in Nat
  BY MonthOfDay, DaysAreNatural DEF TypeOK
<1>3. \A m \in Current : m <= Month(today)
  BY DEF Current
<1>4. Max(Current) \in Current
  <2> HIDE DEF Current
  <2> QED BY <1>1, <1>2, <1>3, MaxIsGreatest
<1> QED BY <1>1, <1>3, <1>4 DEF Current

\* What a rebalancing run does, by whichever rule: it acts on a signal that is
\* not acted on yet, the greatest day with quotes up to the end of a month.
Acts(m, s, e) ==
  /\ m \in Nat /\ m <= Month(today)
  /\ s = Nearest(MonthEnd(m)) /\ s # None /\ ~Acted(s)
  /\ s \in Quoted /\ s \in Days /\ e \in Days
  /\ IF signalMonths = {} THEN e = s
     ELSE m \in signalMonths /\ e = ExecDate(s)
  /\ Rebalance(s, e)

\* A step values the account, rebalances it, or leaves its records alone.
LEMMA StepsOfAccount ==
  ASSUME ScheduleAssumption, TypeOK, [Next]_vars
  PROVE  \/ \E m, s, e : Acts(m, s, e)
         \/ \E d \in Days : Value(d)
         \/ /\ UNCHANGED <<replay, signalMonths, valued, rebalances>>
            /\ today' \in Days /\ known' \in 0..LastDay
            /\ known' = known \/ known < LastDay
<1>0. today \in Days /\ today \in Nat /\ today > 0 /\ known \in 0..LastDay
  BY DaysAreNatural DEF TypeOK
<1>1. CASE RunMonthly
  <2> DEFINE d == Nearest(today)
             m == Month(d)
  <2>1. d # None /\ d \in Quoted /\ d \in Days /\ d <= today
    BY <1>0, <1>1, NearestDay DEF RunMonthly
  <2>2. CASE IsRebalanceDay(d)
    <3>1. m \in Nat /\ m <= Month(today)
      <4>1. today <= MonthEnd(Month(today)) /\ Month(today) \in Nat
        BY <1>0, MonthOfDay
      <4>2. d \in Nat \ {0} /\ d <= MonthEnd(Month(today))
        <5>1. MonthEnd(Month(today)) \in Nat
          BY <4>1, MonthEndIsNat
        <5>2. d \in Nat /\ d > 0
          BY <2>1, DaysAreNatural
        <5> HIDE DEF d
        <5> QED BY <1>0, <2>1, <4>1, <5>1, <5>2
      <4> HIDE DEF d
      <4> QED BY <4>1, <4>2, MonthsAreOrdered, MonthOfDay DEF m
    <3>2. d = Nearest(MonthEnd(m)) /\ ~Acted(d) /\ signalMonths = {} /\ Rebalance(d, d)
      BY <1>1, <2>2 DEF RunMonthly, IsRebalanceDay, Logged
    <3>3. Acts(m, d, d)
      <4> HIDE DEF d, m
      <4> QED BY <2>1, <3>1, <3>2 DEF Acts
    <3> QED BY <3>3
  <2>3. CASE ~IsRebalanceDay(d)
    BY <1>1, <2>1, <2>3 DEF RunMonthly
  <2> QED BY <2>2, <2>3
<1>2. CASE RunCohort
  <2> DEFINE d == Nearest(today)
             m == Max(Current)
             s == SignalDate(m)
  <2>1. d # None /\ d \in Quoted /\ d \in Days /\ d <= today /\ signalMonths # {}
    BY <1>0, <1>2, NearestDay DEF RunCohort
  <2>2. CASE Current # {} /\ Due(m, d)
    <3>1. m \in signalMonths /\ m \in Nat /\ m <= Month(today)
      BY <2>2, LatestMonth
    <3>2. s # None /\ ~Acted(s) /\ s = Nearest(MonthEnd(m))
      BY <2>2 DEF Due, SignalDate
    <3>3. s \in Quoted /\ s \in Days
      BY <3>1, <3>2, MonthEndIsNat, NearestDay
    <3>4. ExecDate(s) \in Days
      BY <3>3, ExecDateIsDay
    <3>5. Rebalance(s, ExecDate(s))
      BY <1>2, <2>2 DEF RunCohort
    <3>6. Acts(m, s, ExecDate(s))
      <4> HIDE DEF s, m
      <4> QED BY <2>1, <3>1, <3>2, <3>3, <3>4, <3>5 DEF Acts
    <3> QED BY <3>6
  <2>3. CASE ~(Current # {} /\ Due(m, d))
    BY <1>2, <2>1, <2>3 DEF RunCohort
  <2> QED BY <2>2, <2>3
<1>3. CASE StoreQuotes
  <2>1. LastDay \in Nat /\ today <= LastDay
    BY <1>0, DaysAreNatural
  <2> QED BY <1>0, <1>3, <2>1 DEF StoreQuotes
<1>4. CASE NewDay
  <2>1. LastDay \in Nat
    BY DaysAreNatural
  <2>2. today + 1 \in 1..LastDay
    BY <1>0, <1>4, <2>1 DEF NewDay
  <2> QED BY <1>0, <1>4, <2>2 DEF NewDay, Days
<1>5. CASE UNCHANGED vars
  BY <1>0, <1>5 DEF vars
<1> QED BY <1>1, <1>2, <1>3, <1>4, <1>5 DEF Next

\* Rebalancing keeps the types.
LEMMA TypesNext ==
  ASSUME ScheduleAssumption, TypeOK, [Next]_vars
  PROVE  TypeOK'
<1>1. CASE \E m, s, e : Acts(m, s, e)
  <2>1. PICK m, s, e : Acts(m, s, e)
    BY <1>1
  <2> QED BY <2>1 DEF Acts, Rebalance, TypeOK
<1>2. CASE \E d \in Days : Value(d)
  BY <1>2 DEF Value, TypeOK
<1>3. CASE /\ UNCHANGED <<replay, signalMonths, valued, rebalances>>
           /\ today' \in Days /\ known' \in 0..LastDay
  BY <1>3 DEF TypeOK
<1> QED BY <1>1, <1>2, <1>3, StepsOfAccount

\* The types at the start.
LEMMA TypesInit ==
  ASSUME ScheduleAssumption, Init
  PROVE  TypeOK
<1>1. LastDay \in Nat /\ LastDay > 0 /\ 1 \in Days
  BY DEF ScheduleAssumption, Days
<1> QED BY <1>1 DEF Init, TypeOK

\* The state has its types, and every rebalance is logged by days of the
\* calendar: the runs always find a day to work on.
THEOREM CalendarTyping == Spec => []TypeOK
<1>1. ScheduleAssumption
  BY ScheduleAssumption
<1> QED BY <1>1, TypesInit, TypesNext, PTL DEF Spec

-----------------------------------------------------------------------------
(* Once for a signal                                                       *)

\* A signal date is acted on once, for every calendar and whatever the quotes
\* show: each rule asks the log for the signal it acts on.
THEOREM SignalsActedOnce == Spec => []SignalActedOnce
<1>1. Init => SignalActedOnce
  BY DEF Init, SignalActedOnce
<1>2. ASSUME ScheduleAssumption, TypeOK, SignalActedOnce, [Next]_vars
      PROVE  SignalActedOnce'
  <2>1. CASE \E m, s, e : Acts(m, s, e)
    <3>1. PICK m, s, e : Acts(m, s, e)
      BY <2>1
    <3>2. \A r \in rebalances : r.signal # s
      BY <3>1 DEF Acts, Acted
    <3>3. rebalances' = rebalances \cup {[signal |-> s, on |-> today, exec |-> e]}
      BY <3>1 DEF Acts, Rebalance
    <3> QED BY <1>2, <3>2, <3>3 DEF SignalActedOnce
  <2>2. CASE UNCHANGED rebalances
    BY <1>2, <2>2 DEF SignalActedOnce
  <2> QED BY <1>2, <2>1, <2>2, StepsOfAccount DEF Value
<1> QED BY <1>1, <1>2, ScheduleAssumption, CalendarTyping, PTL DEF Spec

-----------------------------------------------------------------------------
(* Replays                                                                 *)

\* The next session is found from every session but the last.
SessionsClose ==
  \A e \in TradeDays :
    (\E t \in TradeDays : e < t) =>
      \E t \in TradeDays : e < t /\ t <= e + Horizon

\* The calendar goes on for Lag sessions after each signal month it reaches.
RoomToTrade ==
  \A c \in Configs : \A m \in c :
    m <= Month(LastDay) =>
      Cardinality({t \in TradeDays : MonthEnd(m) < t}) >= Lag

SessionsAfter(s, e) == {t \in TradeDays : s < t /\ t <= e}

\* Sessions can be counted.
LEMMA SessionsAreFinite ==
  ASSUME ScheduleAssumption
  PROVE  IsFiniteSet(TradeDays)
<1>1. TradeDays \in SUBSET Nat /\ LastDay \in Nat /\ \A t \in TradeDays : t <= LastDay
  BY DaysAreNatural
<1> QED BY <1>1, FS_BoundedSetOfNaturals

\* When every quote is there and enough sessions follow, the walk goes a session
\* at a time.
LEMMA WalkCounts ==
  ASSUME ScheduleAssumption, SessionsClose, known = LastDay, NEW s \in TradeDays,
         Cardinality({t \in TradeDays : s < t}) >= Lag
  PROVE  Cardinality(SessionsAfter(s, ExecDate(s))) = Lag
<1>1. /\ s \in Days /\ Lag \in Nat /\ Horizon \in Nat
      /\ \A t \in TradeDays : t \in Days /\ t \in Nat
      /\ \A t : t \in TradeDays <=> t \in Quoted
  BY DaysAreNatural DEF Quoted
<1>2. PICK f : Walks(s, f) /\ ExecDate(s) = f[Lag]
  BY <1>1, ExecDateWalks
<1>3. \A T \in SUBSET TradeDays : IsFiniteSet(T) /\ Cardinality(T) \in Nat
  BY SessionsAreFinite, FS_Subset, FS_CardinalityType
<1> DEFINE G == {n \in 0..Lag :
                   /\ f[n] \in TradeDays /\ s <= f[n]
                   /\ Cardinality(SessionsAfter(s, f[n])) = n}
<1>4. 0 \in G
  <2>1. f[0] = s /\ 0 \in 0..Lag
    BY <1>1, <1>2 DEF Walks
  <2>2. \A t \in TradeDays : ~(s < t /\ t <= s)
    BY <1>1
  <2>3. SessionsAfter(s, s) = {} /\ s <= s
    BY <1>1, <2>2 DEF SessionsAfter
  <2>4. Cardinality(SessionsAfter(s, f[0])) = 0
    BY <2>1, <2>3, FS_EmptySet
  <2> QED BY <2>1, <2>3, <2>4
<1>5. ASSUME NEW n \in G, n < Lag PROVE n + 1 \in G
  <2> DEFINE e == f[n]
             x == f[n + 1]
  <2>1. n \in Nat /\ n + 1 \in 0..Lag /\ x = NextSession(e)
    <3>1. n \in Nat /\ n + 1 \in 0..Lag /\ (n + 1) - 1 = n /\ n + 1 # 0
      BY <1>1, <1>5
    <3> QED BY <1>2, <3>1 DEF Walks
  <2>2. /\ e \in TradeDays /\ e \in Days /\ e \in Nat /\ s \in Nat /\ s <= e
        /\ Cardinality(SessionsAfter(s, e)) = n
    BY <1>1, <1>5
  <2> HIDE DEF e, x
  <2>3. \E t \in TradeDays : e < t
    <3>1. SUFFICES ASSUME \A t \in TradeDays : ~(e < t) PROVE FALSE
      OBVIOUS
    <3>2. SessionsAfter(s, e) = {t \in TradeDays : s < t}
      <4>1. \A t \in TradeDays : t <= e
        BY <1>1, <2>2, <3>1
      <4> QED BY <4>1 DEF SessionsAfter
    <3> QED BY <1>1, <1>5, <2>1, <2>2, <3>2
  <2>4. x \in TradeDays /\ e < x /\ \A t \in TradeDays : ~(e < t /\ t < x)
    <3>1. PICK t \in TradeDays : e < t /\ t <= e + Horizon
      BY <2>2, <2>3 DEF SessionsClose
    <3> QED BY <1>1, <2>1, <2>2, <3>1, NextSessionIs
  <2>5. SessionsAfter(s, x) = SessionsAfter(s, e) \cup {x} /\ x \notin SessionsAfter(s, e)
    <3>1. x \in Nat
      BY <1>1, <2>4
    <3>2. \A t \in TradeDays : s < t /\ t <= x <=> (s < t /\ t <= e) \/ t = x
      BY <1>1, <2>2, <2>4, <3>1
    <3>3. ~(x <= e)
      BY <2>2, <2>4, <3>1
    <3> QED BY <2>4, <3>2, <3>3 DEF SessionsAfter
  <2>6. Cardinality(SessionsAfter(s, x)) = n + 1
    <3>1. IsFiniteSet(SessionsAfter(s, e))
      BY <1>3 DEF SessionsAfter
    <3> QED BY <2>2, <2>5, <3>1, FS_AddElement
  <2>7. s <= x
    BY <1>1, <2>2, <2>4
  <2> QED BY <2>1, <2>4, <2>6, <2>7 DEF x
<1>6. G = 0..Lag
  <2>1. G \in SUBSET (0..Lag)
    OBVIOUS
  <2> HIDE DEF G
  <2> QED BY <1>4, <1>5, <2>1, AllAlong
<1>7. Lag \in G
  BY <1>1, <1>6
<1> QED BY <1>2, <1>7

\* What a replay's records rest on.
ReplayKnows ==
  replay =>
    /\ known = LastDay
    /\ \A r \in rebalances :
         /\ r.signal = Nearest(MonthEnd(Month(r.signal)))
         /\ signalMonths # {} => Cardinality(SessionsAfter(r.signal, r.exec)) = Lag

\* A signal is the last session of its own month, too.
LEMMA SignalEndsItsMonth ==
  ASSUME ScheduleAssumption, TypeOK, NEW m, NEW s, NEW e, Acts(m, s, e)
  PROVE  s = Nearest(MonthEnd(Month(s)))
<1>1. /\ m \in Nat /\ s = Nearest(MonthEnd(m)) /\ s # None /\ s \in Quoted
      /\ s \in Nat \ {0}
  BY DaysAreNatural DEF Acts
<1>2. MonthEnd(m) \in Nat
  BY <1>1, MonthEndIsNat
<1>3. s <= MonthEnd(m) /\ \A t \in Quoted : t <= MonthEnd(m) => t <= s
  BY <1>1, <1>2, NearestDay
<1>4. MonthEnd(Month(s)) \in Nat /\ MonthEnd(Month(s)) <= MonthEnd(m)
      /\ s <= MonthEnd(Month(s))
  BY <1>1, <1>3, MonthsAreOrdered, MonthOfDay, MonthEndIsNat
<1>5. \A t \in Quoted : t <= MonthEnd(Month(s)) => t <= s
  <2> SUFFICES ASSUME NEW t \in Quoted, t <= MonthEnd(Month(s)) PROVE t <= s
    OBVIOUS
  <2>1. t \in Nat
    BY DaysAreNatural
  <2>2. t <= MonthEnd(m)
    BY <1>2, <1>4, <2>1
  <2> QED BY <1>3, <2>2
<1> QED BY <1>1, <1>4, <1>5, NearestIs

\* A cohort's signal leaves room for its execution.
LEMMA CohortCounts ==
  ASSUME ScheduleAssumption, TypeOK, SessionsClose, RoomToTrade, known = LastDay,
         NEW m, NEW s, NEW e, Acts(m, s, e), signalMonths # {}
  PROVE  Cardinality(SessionsAfter(s, e)) = Lag
<1>1. /\ m \in Nat /\ m \in signalMonths /\ s = Nearest(MonthEnd(m)) /\ s # None
      /\ e = ExecDate(s) /\ m <= Month(today) /\ s \in TradeDays /\ s \in Nat
  BY DaysAreNatural DEF Acts
<1>2. Month(today) <= Month(LastDay) /\ Month(today) \in Nat /\ Month(LastDay) \in Nat
  <2>1. /\ today \in Nat \ {0} /\ today <= LastDay /\ LastDay \in Nat \ {0}
    BY DaysAreNatural DEF TypeOK, ScheduleAssumption
  <2>2. LastDay <= MonthEnd(Month(LastDay)) /\ Month(LastDay) \in Nat
    BY <2>1, MonthOfDay
  <2>3. today <= MonthEnd(Month(LastDay))
    BY <2>1, <2>2, MonthEndIsNat
  <2> QED BY <2>1, <2>2, <2>3, MonthsAreOrdered, MonthOfDay
<1>3. Cardinality({t \in TradeDays : MonthEnd(m) < t}) >= Lag
  BY <1>1, <1>2 DEF RoomToTrade, TypeOK
<1> DEFINE T == {t \in TradeDays : MonthEnd(m) < t}
           U == {t \in TradeDays : s < t}
<1>4. T \in SUBSET U
  <2>1. MonthEnd(m) \in Nat
    BY <1>1, MonthEndIsNat
  <2>2. s <= MonthEnd(m)
    BY <1>1, <2>1, NearestDay
  <2>3. \A t \in TradeDays : MonthEnd(m) < t => s < t
    <3> SUFFICES ASSUME NEW t \in TradeDays, MonthEnd(m) < t PROVE s < t
      OBVIOUS
    <3>1. t \in Nat
      BY DaysAreNatural
    <3> QED BY <1>1, <2>1, <2>2, <3>1
  <2> QED BY <2>3
<1>5. IsFiniteSet(U) /\ Cardinality(U) \in Nat /\ Cardinality(T) \in Nat
  <2>1. U \in SUBSET TradeDays /\ T \in SUBSET TradeDays
    OBVIOUS
  <2> HIDE DEF U, T
  <2> QED BY <2>1, SessionsAreFinite, FS_Subset, FS_CardinalityType
<1>6. Cardinality(T) <= Cardinality(U)
  <2> HIDE DEF U, T
  <2> QED BY <1>4, <1>5, FS_Subset
<1>7. Cardinality(U) >= Lag
  <2>1. Cardinality(T) >= Lag
    BY <1>3
  <2> HIDE DEF U, T
  <2> QED BY <1>5, <1>6, <2>1, DaysAreNatural
<1> QED BY <1>1, <1>7, WalkCounts

\* Every step keeps what a replay rests on.
LEMMA ReplayNext ==
  ASSUME ScheduleAssumption, TypeOK, ReplayKnows, SessionsClose, RoomToTrade, [Next]_vars
  PROVE  ReplayKnows'
<1> SUFFICES ASSUME replay' PROVE ReplayKnows'
  BY DEF ReplayKnows
<1>1. replay' = replay /\ signalMonths' = signalMonths
  BY StepsOfAccount DEF Acts, Rebalance, Value
<1>2. known = LastDay /\ known' = known
  <2>1. known = LastDay /\ LastDay \in Nat
    BY <1>1, DaysAreNatural DEF ReplayKnows
  <2>2. known' = known \/ known < LastDay
    BY StepsOfAccount DEF Acts, Rebalance, Value
  <2> QED BY <2>1, <2>2
<1>3. \A d : Nearest(d)' = Nearest(d)
  BY <1>2 DEF Nearest, Quoted
<1>4. \A r \in rebalances' :
        \/ r \in rebalances
        \/ \E m, s, e : Acts(m, s, e) /\ r.signal = s /\ r.exec = e
  <2>1. CASE \E m, s, e : Acts(m, s, e)
    <3>1. PICK m, s, e : Acts(m, s, e)
      BY <2>1
    <3>2. rebalances' = rebalances \cup {[signal |-> s, on |-> today, exec |-> e]}
      BY <3>1 DEF Acts, Rebalance
    <3>3. ASSUME NEW r \in rebalances', r \notin rebalances
          PROVE  r.signal = s /\ r.exec = e
      BY <3>2, <3>3
    <3> QED BY <3>1, <3>3
  <2>2. CASE UNCHANGED rebalances
    BY <2>2
  <2> QED BY <2>1, <2>2, StepsOfAccount DEF Value
<1>5. ASSUME NEW r \in rebalances'
      PROVE  /\ r.signal = Nearest(MonthEnd(Month(r.signal)))
             /\ signalMonths # {} => Cardinality(SessionsAfter(r.signal, r.exec)) = Lag
  <2>1. CASE r \in rebalances
    BY <1>1, <2>1 DEF ReplayKnows
  <2>2. CASE \E m, s, e : Acts(m, s, e) /\ r.signal = s /\ r.exec = e
    BY <1>2, <2>2, SignalEndsItsMonth, CohortCounts
  <2> QED BY <1>4, <2>1, <2>2
<1> QED BY <1>1, <1>2, <1>3, <1>5 DEF ReplayKnows

\* Over quotes that are all there an account rebalances at most once for the end
\* of a month, and a cohort trades Lag sessions after its signal, if sessions
\* lie within the horizon of each other and the quotes go on for Lag sessions
\* after the last signal month.
THEOREM ReplaysAreOnPlan ==
  SessionsClose /\ RoomToTrade => (Spec => []ReplayOnPlan)
<1> SUFFICES ASSUME SessionsClose, RoomToTrade PROVE Spec => []ReplayOnPlan
  OBVIOUS
<1>1. Init => ReplayKnows
  BY DEF Init, ReplayKnows
<1>2. TypeOK /\ ReplayKnows /\ [Next]_vars => ReplayKnows'
  BY ScheduleAssumption, ReplayNext
<1>3. ReplayKnows /\ SignalActedOnce => ReplayOnPlan
  BY DEF ReplayKnows, SignalActedOnce, ReplayOnPlan, SessionsAfter
<1> QED BY <1>1, <1>2, <1>3, CalendarTyping, SignalsActedOnce, PTL DEF Spec
=============================================================================
