--------------------------- MODULE SecGateProofs ---------------------------
(***************************************************************************)
(* Theorems of SecGate for every number of threads, processes and every    *)
(* value of the time constants: the type invariant and the inductive       *)
(* invariant GateInv, from which one request in flight, the reservation    *)
(* and the spacing of requests follow.                                     *)
(***************************************************************************)
EXTENDS SecGate, TLAPS

\* The types hold at the start.
LEMMA InitTypeOK == Init => TypeOK
  BY GateAssumption DEF Init, TypeOK, Steps, Replies

\* A backoff is a number of seconds.
LEMMA BackoffNat == ASSUME NEW n \in Nat PROVE Backoff(n) \in Nat
  BY DEF Backoff

\* The shared cooldown is a length of time whatever the answer was.
LEMMA CooldownNat ==
  ASSUME NEW status, NEW n \in Nat, NEW ra \in RetryAfters \cup {NoHeader}
  PROVE  SharedCooldown(status, n, ra) \in Nat
  BY BackoffNat, GateAssumption DEF SharedCooldown, MaxOf

\* get() returning keeps the types of its locals.
LEMMA ForgetType ==
  ASSUME TypeOK, NEW gone, Forget(gone)
  PROVE  /\ budget' \in [Threads -> Nat]
         /\ retries' \in [Threads -> 0..MaxRetries]
         /\ redirects' \in [Threads -> 0..MaxRedirects]
         /\ httpLeft' \in [Threads -> Nat]
         /\ reply' \in [Threads -> Replies]
         /\ cooldown' \in [Threads -> Nat]
  BY GateAssumption DEF TypeOK, Forget, Replies

\* Leaving the locks keeps the types.
LEMMA ReleaseType ==
  ASSUME TypeOK, NEW t \in Threads, Release(t)
  PROVE  /\ session' \in [Threads -> BOOLEAN]
         /\ lock' \in Threads \cup {NoThread}
         /\ processLock' \in [Processes -> Threads \cup {NoThread}]
         /\ nap' \in [Threads -> Nat]
  BY GateAssumption DEF TypeOK, Release

\* So does giving a request up.
LEMMA AbandonType == ASSUME TypeOK, NEW t \in Threads, Abandon(t) PROVE TypeOK'
  <1>1. Forget({t}) /\ Release(t)
    BY DEF Abandon
  <1>2. pc' \in [Threads -> Steps] /\ gap' \in Nat /\ UNCHANGED <<Row, demand>>
    BY GateAssumption DEF Abandon, TypeOK, Goto, Steps
  <1>3. QED
    BY <1>1, <1>2, ForgetType, ReleaseType DEF TypeOK, Row

\* So does the end of a request.
LEMMA OverType ==
  ASSUME TypeOK, NEW t \in Threads, NEW kind \in Replies, NEW pause \in Nat,
         Over(t, kind, pause)
  PROVE  TypeOK'
  BY GateAssumption DEF Over, TypeOK, Goto, Steps, MaxOf, Locks, Row

\* So does what is on record of an answer.
LEMMA RecordType ==
  ASSUME TypeOK, NEW t \in Threads, Record(t)
  PROVE  /\ session' \in [Threads -> BOOLEAN]
         /\ lock' \in Threads \cup {NoThread}
         /\ processLock' \in [Processes -> Threads \cup {NoThread}]
         /\ nap' \in [Threads -> Nat]
         /\ nextIn' \in Nat
         /\ blockedIn' \in Nat
  BY GateAssumption, ReleaseType DEF Record, TypeOK, MaxOf

\* So does the way a request goes on after an answer.
LEMMA ProceedType ==
  ASSUME TypeOK, NEW t \in Threads, Proceed(t)
  PROVE  TypeOK'
  <1> USE GateAssumption DEF Goto, Steps, locals, Locks, Row, History
  <1>1. CASE EnterProcess(t)
    BY <1>1 DEF EnterProcess, TypeOK
  <1>2. CASE QueueTimeout(t)
    BY <1>2, ForgetType DEF QueueTimeout, TypeOK
  <1>3. CASE Connect(t)
    BY <1>3 DEF Connect, TypeOK
  <1>4. CASE Abandon(t)
    BY <1>4, AbandonType
  <1>5. CASE TryLock(t)
    BY <1>5 DEF TryLock, TypeOK
  <1>6. CASE GateOpen(t)
    BY <1>6 DEF GateOpen, TypeOK
  <1>7. CASE GateClosed(t)
    BY <1>7 DEF GateClosed, TypeOK, Wait, MaxOf
  <1>8. CASE Wake(t)
    BY <1>8 DEF Wake, TypeOK
  <1>9. CASE Reserve(t)
    BY <1>9 DEF Reserve, TypeOK, MinOf
  <1>10. CASE Check(t)
    BY <1>10 DEF Check, TypeOK
  <1>11. CASE Send(t)
    BY <1>11 DEF Send, TypeOK
  <1>12. CASE Return(t)
    BY <1>12, RecordType, ForgetType DEF Return, TypeOK
  <1>13. CASE Retry(t)
    BY <1>13, RecordType DEF Retry, Again, TypeOK, Replies
  <1>14. CASE Redirect(t)
    BY <1>14, RecordType DEF Redirect, Again, TypeOK, Replies
  <1>15. QED
    BY <1>1, <1>2, <1>3, <1>4, <1>5, <1>6, <1>7, <1>8, <1>9, <1>10, <1>11,
       <1>12, <1>13, <1>14
    DEF Proceed, ConnectFails, LockTimeout, GateTimeout, BudgetSpent,
        CoordinationError

\* Every way an attempt can end gives it a kind and a pause of the right type.
LEMMA AnswerIsOver ==
  ASSUME TypeOK, NEW t \in Threads, Answer(t)
  PROVE  \E kind \in Replies, pause \in Nat : pc[t] = "http" /\ Over(t, kind, pause)
  <1>1. retries[t] \in Nat
    BY GateAssumption DEF TypeOK
  <1>2. CASE AnswerPlain(t)
    BY <1>2 DEF AnswerPlain, InFlight, Replies
  <1>3. CASE AnswerForbidden(t)
    BY <1>1, <1>3, CooldownNat DEF AnswerForbidden, InFlight, Replies
  <1>4. CASE AnswerRefused(t)
    BY <1>1, <1>4, CooldownNat DEF AnswerRefused, InFlight, Replies
  <1>5. CASE TransportError(t)
    BY <1>1, <1>5, CooldownNat DEF TransportError, InFlight, Replies
  <1>6. CASE InvalidAnswer(t)
    BY <1>6 DEF InvalidAnswer, Replies
  <1>7. QED
    BY <1>2, <1>3, <1>4, <1>5, <1>6 DEF Answer

\* Every step keeps the types.
LEMMA NextTypeOK == TypeOK /\ [Next]_vars => TypeOK'
  <1> SUFFICES ASSUME TypeOK, [Next]_vars
               PROVE  TypeOK'
    OBVIOUS
  <1> USE GateAssumption DEF Goto, Steps, locals, Locks, Row, History
  <1>1. CASE Tick
    BY <1>1 DEF Tick, TypeOK, Less
  <1>2. ASSUME NEW t \in Threads, Call(t) PROVE TypeOK'
    BY <1>2 DEF Call, TypeOK
  <1>3. ASSUME NEW t \in Threads, Proceed(t) PROVE TypeOK'
    BY <1>3, ProceedType
  <1>4. ASSUME NEW t \in Threads, Answer(t) PROVE TypeOK'
    BY <1>4, AnswerIsOver, OverType
  <1>5. ASSUME NEW t \in Threads, LoseSession(t) PROVE TypeOK'
    BY <1>5 DEF LoseSession, Unheard, TypeOK
  <1>6. ASSUME NEW p \in Processes, Crash(p) PROVE TypeOK'
    <2>1. Forget({t \in Threads : ProcessOf[t] = p})
      BY <1>6 DEF Crash
    <2>2. QED
      BY <1>6, <2>1, ForgetType DEF Crash, Unheard, TypeOK
  <1>7. CASE UNCHANGED vars
    BY <1>7 DEF vars, TypeOK
  <1>8. QED
    BY <1>1, <1>2, <1>3, <1>4, <1>5, <1>6, <1>7 DEF Next

\* Every variable of the gate keeps its type.
THEOREM GateTyping == Spec => []TypeOK
  BY InitTypeOK, NextTypeOK, PTL DEF Spec

-----------------------------------------------------------------------------
\* The invariant holds at the start.
LEMMA InitGateInv == Init => GateInv
  BY InitTypeOK, GateAssumption
  DEF Init, GateInv, MutexOwned, LockHeldInside, LockOwned, OpenAtReserve,
      ReservationCovers, HotAlone, QuietBeforeSend, GapCovered, Hot, Engaged,
      Inside

\* A request that is given up keeps the invariant.
LEMMA AbandonInv ==
  ASSUME GateInv, NEW t \in Threads, pc[t] \in Inside, Abandon(t)
  PROVE  GateInv'
  <1> USE GateAssumption DEF Goto, Row
  <1>1. TypeOK /\ TypeOK'
    BY AbandonType DEF GateInv
  <1>2. /\ pc'[t] = "idle"
        /\ \A u \in Threads : u # t => pc'[u] = pc[u] /\ session'[u] = session[u]
                                       /\ httpLeft'[u] = httpLeft[u]
        /\ session'[t] = FALSE
        /\ UNCHANGED <<nextIn, blockedIn>>
    BY <1>1 DEF Abandon, Release, Forget, TypeOK
  <1>3. MutexOwned' /\ LockHeldInside' /\ LockOwned'
    BY <1>1, <1>2 DEF Abandon, Release, TypeOK, GateInv, MutexOwned,
         LockHeldInside, LockOwned, Inside, Steps
  <1>4. \A u \in Threads : Hot(u)' => u # t /\ Hot(u)
    BY <1>2 DEF Hot
  <1>5. \A u \in Threads : Engaged(u)' => Engaged(u)
    BY <1>1, <1>2 DEF Abandon, Release, Engaged, TypeOK
  <1>6. OpenAtReserve' /\ ReservationCovers' /\ HotAlone'
    BY <1>2, <1>4, <1>5 DEF GateInv, OpenAtReserve, ReservationCovers, HotAlone
  <1>7. GapCovered'
    <2>1. CASE InFlight(t)
      <3>1. nextIn >= httpLeft[t] + Interval /\ httpLeft[t] > 0
        BY <2>1 DEF InFlight, Hot, GateInv, ReservationCovers
      <3>2. QED
        BY <1>1, <2>1, <3>1 DEF Abandon, GapCovered, TypeOK
    <2>2. CASE ~InFlight(t)
      BY <2>2 DEF Abandon, GateInv, GapCovered
    <2>3. QED
      BY <2>1, <2>2
  <1>8. QuietBeforeSend'
    <2> SUFFICES ASSUME NEW u \in Threads, Hot(u)', pc'[u] # "http"
                 PROVE  gap' = 0 /\ blockedIn' = 0
      BY DEF QuietBeforeSend
    <2>1. Hot(u) /\ pc[u] # "http" /\ u # t
      BY <1>2, <1>4
    <2>2. ~InFlight(t)
      BY <2>1 DEF GateInv, HotAlone, InFlight, Hot
    <2>3. QED
      BY <1>2, <2>1, <2>2 DEF Abandon, GateInv, QuietBeforeSend
  <1>9. QED
    BY <1>1, <1>3, <1>6, <1>7, <1>8 DEF GateInv

\* So does one that is over.
LEMMA OverInv ==
  ASSUME GateInv, NEW t \in Threads, NEW kind \in Replies, NEW pause \in Nat,
         pc[t] = "http", Over(t, kind, pause)
  PROVE  GateInv'
  <1> USE GateAssumption DEF Goto, Row, Locks
  <1>1. TypeOK /\ TypeOK'
    BY OverType DEF GateInv
  <1>2. /\ pc'[t] = "finish"
        /\ \A u \in Threads : u # t => pc'[u] = pc[u] /\ httpLeft'[u] = httpLeft[u]
        /\ UNCHANGED <<session, lock, processLock, nextIn, blockedIn>>
    BY <1>1 DEF Over, TypeOK
  <1>3. MutexOwned' /\ LockHeldInside' /\ LockOwned'
    BY <1>1, <1>2 DEF TypeOK, GateInv, MutexOwned, LockHeldInside, LockOwned,
         Inside, Steps
  <1>4. \A u \in Threads : Hot(u)' => u # t /\ Hot(u)
    BY <1>2 DEF Hot
  <1>5. \A u \in Threads : Engaged(u)' => Engaged(u)
    BY <1>2 DEF Engaged
  <1>6. OpenAtReserve' /\ ReservationCovers' /\ HotAlone'
    BY <1>2, <1>4, <1>5 DEF GateInv, OpenAtReserve, ReservationCovers, HotAlone
  <1>7. GapCovered'
    <2>1. CASE InFlight(t)
      <3>1. nextIn >= httpLeft[t] + Interval /\ httpLeft[t] > 0
        BY <2>1 DEF InFlight, Hot, GateInv, ReservationCovers
      <3>2. QED
        BY <1>1, <2>1, <3>1 DEF Over, GapCovered, TypeOK
    <2>2. CASE ~InFlight(t)
      BY <2>2 DEF Over, GateInv, GapCovered
    <2>3. QED
      BY <2>1, <2>2
  <1>8. QuietBeforeSend'
    <2> SUFFICES ASSUME NEW u \in Threads, Hot(u)', pc'[u] # "http"
                 PROVE  gap' = 0 /\ blockedIn' = 0
      BY DEF QuietBeforeSend
    <2>1. Hot(u) /\ pc[u] # "http" /\ u # t
      BY <1>2, <1>4
    <2>2. ~InFlight(t)
      BY <2>1 DEF GateInv, HotAlone, InFlight, Hot
    <2>3. QED
      BY <1>2, <2>1, <2>2 DEF Over, GateInv, QuietBeforeSend
  <1>9. QED
    BY <1>1, <1>3, <1>6, <1>7, <1>8 DEF GateInv

\* gate.finish by the thread that holds the lock: no other thread is sending,
\* so the reservation may be shortened to the interval.
LEMMA RecordInv ==
  ASSUME GateInv, TypeOK', NEW t \in Threads, Record(t), UNCHANGED gap,
         NEW step \in {"idle", "queue"}, Goto(t, step),
         \A u \in Threads : u # t => httpLeft'[u] = httpLeft[u]
  PROVE  GateInv'
  <1> USE GateAssumption DEF Goto
  <1>1. TypeOK
    BY DEF GateInv
  <1>2. /\ pc[t] = "finish" /\ pc'[t] = step
        /\ lock = t /\ Engaged(t)
        /\ \A u \in Threads : u # t => pc'[u] = pc[u] /\ session'[u] = session[u]
        /\ session'[t] = FALSE
        /\ lock' = NoThread
    BY <1>1 DEF Record, Release, TypeOK, GateInv, LockOwned, Engaged
  <1>3. MutexOwned' /\ LockHeldInside' /\ LockOwned'
    BY <1>1, <1>2 DEF Record, Release, TypeOK, GateInv, MutexOwned,
         LockHeldInside, LockOwned, Inside, Steps
  <1>4. \A u \in Threads : ~Hot(u)'
    BY <1>2 DEF Hot, GateInv, HotAlone
  <1>5. OpenAtReserve'
    BY <1>2 DEF OpenAtReserve, GateInv, LockOwned
  <1>6. GapCovered'
    BY <1>1 DEF Record, GateInv, GapCovered, TypeOK
  <1>7. QED
    BY <1>3, <1>4, <1>5, <1>6 DEF GateInv, ReservationCovers, HotAlone,
       QuietBeforeSend

\* Taking the lock, reading the row and moving on write neither the row nor
\* the history, and make nobody hot.
LEMMA ProceedInv ==
  ASSUME GateInv, TypeOK', NEW t \in Threads, Proceed(t)
  PROVE  GateInv'
  <1> USE GateAssumption DEF Goto, locals, Locks, Row, History
  <1>0. TypeOK
    BY DEF GateInv
  <1> USE DEF GateInv, MutexOwned, LockHeldInside, LockOwned, OpenAtReserve,
              ReservationCovers, HotAlone, QuietBeforeSend, GapCovered, Hot,
              Engaged, Inside, Steps
  <1>1. CASE EnterProcess(t)
    BY <1>0, <1>1 DEF EnterProcess, TypeOK
  <1>2. CASE QueueTimeout(t)
    BY <1>0, <1>2 DEF QueueTimeout, Forget, TypeOK
  <1>3. CASE Connect(t)
    BY <1>0, <1>3 DEF Connect, TypeOK
  <1>4. CASE pc[t] \in Inside /\ Abandon(t)
    BY <1>4, AbandonInv
  <1>5. CASE TryLock(t)
    BY <1>0, <1>5 DEF TryLock, TypeOK
  <1>6. CASE GateOpen(t)
    BY <1>0, <1>6 DEF GateOpen, TypeOK, Wait, MaxOf
  <1>7. CASE GateClosed(t)
    BY <1>0, <1>7 DEF GateClosed, TypeOK
  <1>8. CASE Wake(t)
    BY <1>0, <1>8 DEF Wake, TypeOK
  <1>9. CASE Reserve(t)
    <2>1. nextIn = 0 /\ blockedIn = 0 /\ lock = t
      BY <1>9 DEF Reserve
    <2>2. gap = 0
      BY <1>0, <2>1 DEF TypeOK
    <2>3. \A u \in Threads : ~Hot(u)
      BY <1>0, <2>1 DEF TypeOK
    <2>4. nextIn' >= httpLeft'[t] + Interval
      BY <1>0, <1>9 DEF Reserve, TypeOK, MinOf
    <2>5. \A u \in Threads : u # t => ~Hot(u)' /\ ~Engaged(u)'
      BY <1>0, <1>9, <2>1, <2>3 DEF Reserve, TypeOK
    <2>6. ReservationCovers' /\ HotAlone' /\ QuietBeforeSend'
      BY <1>9, <2>1, <2>2, <2>4, <2>5 DEF Reserve
    <2>7. GapCovered'
      BY <1>0, <1>9, <2>2 DEF Reserve, TypeOK, MinOf
    <2>8. OpenAtReserve'
      BY <1>0, <1>9, <2>1 DEF Reserve, TypeOK
    <2>9. MutexOwned' /\ LockHeldInside' /\ LockOwned'
      BY <1>0, <1>9 DEF Reserve, TypeOK
    <2>10. QED
      BY <2>6, <2>7, <2>8, <2>9
  <1>10. CASE Check(t)
    BY <1>0, <1>10 DEF Check, TypeOK
  <1>11. CASE Send(t)
    BY <1>0, <1>11 DEF Send, TypeOK
  <1>12. CASE Return(t)
    BY <1>0, <1>12, RecordInv DEF Return, Forget, TypeOK
  <1>13. CASE Retry(t)
    BY <1>0, <1>13, RecordInv DEF Retry, Again, TypeOK
  <1>14. CASE Redirect(t)
    BY <1>0, <1>14, RecordInv DEF Redirect, Again, TypeOK
  <1>15. QED
    BY <1>1, <1>2, <1>3, <1>4, <1>5, <1>6, <1>7, <1>8, <1>9, <1>10, <1>11,
       <1>12, <1>13, <1>14
    DEF Proceed, ConnectFails, LockTimeout, GateTimeout, BudgetSpent,
        CoordinationError

\* Time passing lowers the reservation and the attempt it covers together.
LEMMA TickInv == ASSUME GateInv, TypeOK', Tick PROVE GateInv'
  <1> USE GateAssumption
  <1>0. TypeOK
    BY DEF GateInv
  <1>1. UNCHANGED <<pc, session, processLock, lock>>
    BY DEF Tick, Locks
  <1>2. MutexOwned' /\ LockHeldInside' /\ LockOwned' /\ OpenAtReserve'
    BY <1>0, <1>1 DEF Tick, TypeOK, GateInv, MutexOwned, LockHeldInside,
         LockOwned, OpenAtReserve, Less
  <1>3. \A u \in Threads : Hot(u)' => Hot(u) /\ httpLeft[u] > 1
                                      /\ httpLeft'[u] = httpLeft[u] - 1
    BY <1>0, <1>1 DEF Hot, Tick, TypeOK, Less
  <1>4. \A u \in Threads : Engaged(u)' <=> Engaged(u)
    BY <1>1 DEF Engaged
  <1>5. ReservationCovers'
    BY <1>0, <1>3 DEF GateInv, ReservationCovers, Tick, TypeOK, Less
  <1>6. HotAlone'
    BY <1>3, <1>4 DEF GateInv, HotAlone
  <1>7. QuietBeforeSend'
    <2> SUFFICES ASSUME NEW u \in Threads, Hot(u)', pc'[u] # "http"
                 PROVE  gap' = 0 /\ blockedIn' = 0
      BY DEF QuietBeforeSend
    <2>1. Hot(u) /\ pc[u] # "http" /\ gap = 0 /\ blockedIn = 0
      BY <1>1, <1>3 DEF GateInv, QuietBeforeSend
    <2>2. \A v \in Threads : ~InFlight(v)
      BY <2>1 DEF GateInv, HotAlone, InFlight, Hot
    <2>3. QED
      BY <2>1, <2>2 DEF Tick, Less
  <1>8. GapCovered'
    <2>1. CASE \E v \in Threads : InFlight(v) /\ httpLeft[v] = 1
      <3>1. PICK v \in Threads : InFlight(v) /\ httpLeft[v] = 1
        BY <2>1
      <3>2. nextIn >= 1 + Interval
        BY <3>1 DEF InFlight, Hot, GateInv, ReservationCovers
      <3>3. QED
        BY <1>0, <2>1, <3>2 DEF Tick, Less, GapCovered, TypeOK
    <2>2. CASE ~\E v \in Threads : InFlight(v) /\ httpLeft[v] = 1
      BY <1>0, <2>2 DEF Tick, Less, GapCovered, GateInv, TypeOK
    <2>3. QED
      BY <2>1, <2>2
  <1>9. QED
    BY <1>2, <1>5, <1>6, <1>7, <1>8 DEF GateInv

\* So does the death of a process.
LEMMA CrashInv ==
  ASSUME GateInv, TypeOK', NEW p \in Processes, Crash(p)
  PROVE  GateInv'
  <1> USE GateAssumption
  <1> DEFINE dead == {t \in Threads : ProcessOf[t] = p}
  <1>0. TypeOK
    BY DEF GateInv
  <1>1. /\ \A u \in dead : pc'[u] = "idle" /\ session'[u] = FALSE
        /\ \A u \in Threads \ dead : /\ pc'[u] = pc[u] /\ session'[u] = session[u]
                                     /\ httpLeft'[u] = httpLeft[u]
                                     /\ ProcessOf[u] # p
        /\ lock' = IF lock \in dead THEN NoThread ELSE lock
        /\ processLock' = [processLock EXCEPT ![p] = NoThread]
        /\ UNCHANGED <<nextIn, blockedIn>>
    BY <1>0 DEF Crash, Forget, Row
  <1>2. MutexOwned' /\ LockHeldInside' /\ LockOwned'
    BY <1>0, <1>1 DEF TypeOK, GateInv, MutexOwned, LockHeldInside, LockOwned,
         Inside, Steps
  <1>3. \A u \in Threads : Hot(u)' => Hot(u) /\ u \notin dead
    BY <1>1 DEF Hot
  <1>4. \A u \in Threads : Engaged(u)' => Engaged(u)
    BY <1>1 DEF Engaged
  <1>5. OpenAtReserve' /\ ReservationCovers' /\ HotAlone'
    BY <1>1, <1>3, <1>4 DEF GateInv, OpenAtReserve, ReservationCovers, HotAlone
  <1>6. gap' = IF \E t \in dead : InFlight(t) THEN Interval ELSE gap
    BY DEF Crash
  <1>7. QuietBeforeSend'
    <2> SUFFICES ASSUME NEW u \in Threads, Hot(u)', pc'[u] # "http"
                 PROVE  gap' = 0 /\ blockedIn' = 0
      BY DEF QuietBeforeSend
    <2>1. Hot(u) /\ pc[u] # "http" /\ gap = 0 /\ blockedIn = 0
      BY <1>1, <1>3 DEF GateInv, QuietBeforeSend
    <2>2. \A v \in Threads : ~InFlight(v)
      BY <2>1 DEF GateInv, HotAlone, InFlight, Hot
    <2>3. QED
      BY <1>1, <1>6, <2>1, <2>2
  <1>8. GapCovered'
    <2>1. CASE \E t \in dead : InFlight(t)
      <3>1. PICK t \in Threads : InFlight(t)
        BY <2>1
      <3>2. nextIn >= httpLeft[t] + Interval /\ httpLeft[t] > 0
        BY <3>1 DEF InFlight, Hot, GateInv, ReservationCovers
      <3>3. QED
        BY <1>0, <1>1, <1>6, <2>1, <3>2 DEF GapCovered, TypeOK
    <2>2. CASE ~\E t \in dead : InFlight(t)
      BY <1>1, <1>6, <2>2 DEF GapCovered, GateInv
    <2>3. QED
      BY <2>1, <2>2
  <1>9. QED
    BY <1>2, <1>5, <1>7, <1>8 DEF GateInv

\* Every step keeps the invariant.
LEMMA NextGateInv == GateInv /\ [Next]_vars => GateInv'
  <1> SUFFICES ASSUME GateInv, [Next]_vars
               PROVE  GateInv'
    OBVIOUS
  <1> USE GateAssumption
  <1>0. TypeOK /\ TypeOK'
    BY NextTypeOK DEF GateInv
  <1>1. CASE Tick
    BY <1>0, <1>1, TickInv
  <1>2. ASSUME NEW t \in Threads, Call(t) PROVE GateInv'
    BY <1>0, <1>2
    DEF Call, Goto, Locks, Row, History, TypeOK, GateInv, MutexOwned,
        LockHeldInside, LockOwned, OpenAtReserve, ReservationCovers, HotAlone,
        QuietBeforeSend, GapCovered, Hot, Engaged, Inside, Steps
  <1>3. ASSUME NEW t \in Threads, Proceed(t) PROVE GateInv'
    BY <1>0, <1>3, ProceedInv
  <1>4. ASSUME NEW t \in Threads, Answer(t) PROVE GateInv'
    BY <1>0, <1>4, AnswerIsOver, OverInv
  <1>5. ASSUME NEW t \in Threads, LoseSession(t) PROVE GateInv'
    BY <1>0, <1>5
    DEF LoseSession, locals, Row, History, TypeOK, GateInv, MutexOwned,
        LockHeldInside, LockOwned, OpenAtReserve, ReservationCovers, HotAlone,
        QuietBeforeSend, GapCovered, Hot, Engaged, Inside, Steps
  <1>6. ASSUME NEW p \in Processes, Crash(p) PROVE GateInv'
    BY <1>0, <1>6, CrashInv
  <1>7. CASE UNCHANGED vars
    BY <1>0, <1>7
    DEF vars, Locks, Row, History, locals, GateInv, MutexOwned,
        LockHeldInside, LockOwned, OpenAtReserve, ReservationCovers, HotAlone,
        QuietBeforeSend, GapCovered, Hot, Engaged, Inside
  <1>8. QED
    BY <1>1, <1>2, <1>3, <1>4, <1>5, <1>6, <1>7 DEF Next

\* The invariant of the gate.
LEMMA GateInvariant == Spec => []GateInv
  BY InitGateInv, NextGateInv, PTL DEF Spec

\* One request in flight whatever sessions and processes are lost.
THEOREM SerialRequests == Spec => []OneInFlight
  <1>1. GateInv => OneInFlight
    BY DEF GateInv, HotAlone, OneInFlight, InFlight, Hot
  <1>2. QED
    BY <1>1, GateInvariant, PTL

\* The reservation outlasts every attempt that may still reach the server.
THEOREM ReservationHolds == Spec => []ReservationCovers
  <1>1. GateInv => ReservationCovers
    BY DEF GateInv
  <1>2. QED
    BY <1>1, GateInvariant, PTL

\* No exit path leaves the advisory lock with a thread outside the gate.
THEOREM LockNeverLeaks == Spec => []LockHeldInside
  <1>1. GateInv => LockHeldInside
    BY DEF GateInv
  <1>2. QED
    BY <1>1, GateInvariant, PTL

-----------------------------------------------------------------------------
(* The gate implements SpacedRequests. *)

AbstractStep == [Abstract!Next]_(Abstract!vars)

\* A step that leaves every attempt alone is invisible to the server.
LEMMA Stutter ==
  ASSUME \A u \in Threads : InFlight(u)' <=> InFlight(u),
         UNCHANGED <<gap, blockedIn>>
  PROVE  AbstractStep
  BY DEF AbstractStep, Abstract!vars

\* The request that is on the wire ends and none is started.
LEMMA Ends ==
  ASSUME NEW t \in Threads, InFlight(t), \A u \in Threads : ~InFlight(u)',
         gap' = Interval, UNCHANGED blockedIn
  PROVE  AbstractStep
  BY DEF AbstractStep, Abstract!Next, Abstract!End

\* A request given up is a step of the abstract specification.
LEMMA AbandonMaps ==
  ASSUME GateInv, NEW t \in Threads, Abandon(t)
  PROVE  AbstractStep
  <1>1. /\ \A u \in Threads : u # t => (InFlight(u)' <=> InFlight(u))
        /\ ~InFlight(t)'
        /\ UNCHANGED blockedIn
        /\ gap' = IF InFlight(t) THEN Interval ELSE gap
    BY DEF Abandon, Forget, Goto, Row, InFlight, GateInv, TypeOK
  <1>2. CASE InFlight(t)
    <2>1. \A u \in Threads : u # t => ~InFlight(u)
      BY <1>2 DEF GateInv, HotAlone, InFlight, Hot
    <2>2. QED
      BY <1>1, <1>2, <2>1, Ends
  <1>3. CASE ~InFlight(t)
    BY <1>1, <1>3, Stutter
  <1>4. QED
    BY <1>2, <1>3

\* So is the end of a request.
LEMMA OverMaps ==
  ASSUME GateInv, NEW t \in Threads, NEW kind, NEW pause, Over(t, kind, pause)
  PROVE  AbstractStep
  <1>1. /\ \A u \in Threads : u # t => (InFlight(u)' <=> InFlight(u))
        /\ ~InFlight(t)'
        /\ UNCHANGED blockedIn
        /\ gap' = IF InFlight(t) THEN Interval ELSE gap
    BY DEF Over, Goto, Row, InFlight, GateInv, TypeOK
  <1>2. CASE InFlight(t)
    <2>1. \A u \in Threads : u # t => ~InFlight(u)
      BY <1>2 DEF GateInv, HotAlone, InFlight, Hot
    <2>2. QED
      BY <1>1, <1>2, <2>1, Ends
  <1>3. CASE ~InFlight(t)
    BY <1>1, <1>3, Stutter
  <1>4. QED
    BY <1>2, <1>3

\* gate.finish happens when nothing is on the wire and can only lengthen the
\* pause.
LEMMA RecordMaps ==
  ASSUME GateInv, NEW t \in Threads, Record(t), UNCHANGED gap,
         NEW step \in {"idle", "queue"}, Goto(t, step),
         \A u \in Threads : u # t => httpLeft'[u] = httpLeft[u]
  PROVE  AbstractStep
  <1>1. Engaged(t) /\ pc[t] = "finish"
    BY DEF Record, GateInv, LockOwned, Engaged
  <1>2. \A u \in Threads : ~InFlight(u)
    BY <1>1 DEF GateInv, HotAlone, InFlight, Hot
  <1>3. \A u \in Threads : ~InFlight(u)'
    BY <1>2 DEF InFlight, Goto, GateInv, TypeOK
  <1>4. blockedIn' \in Nat /\ blockedIn' >= blockedIn
    BY DEF Record, MaxOf, GateInv, TypeOK
  <1>5. QED
    BY <1>2, <1>3, <1>4 DEF AbstractStep, Abstract!Next, Abstract!Extend

\* The only step that puts a request on the wire.
LEMMA SendMaps ==
  ASSUME GateInv, NEW t \in Threads, Send(t)
  PROVE  AbstractStep
  <1>1. /\ \A u \in Threads : u # t => (InFlight(u)' <=> InFlight(u))
        /\ UNCHANGED <<gap, blockedIn, httpLeft>>
        /\ pc[t] = "send" /\ pc'[t] = "http"
    BY DEF Send, Goto, locals, Row, History, InFlight, GateInv, TypeOK
  <1>2. CASE httpLeft[t] > 0
    <2>1. gap = 0 /\ blockedIn = 0
      BY <1>1, <1>2 DEF GateInv, QuietBeforeSend, Hot
    <2>2. \A u \in Threads : ~InFlight(u)
      BY <1>1, <1>2 DEF GateInv, HotAlone, Hot, InFlight
    <2>3. InFlight(t)'
      BY <1>1, <1>2 DEF InFlight
    <2>4. QED
      BY <1>1, <2>1, <2>2, <2>3
      DEF AbstractStep, Abstract!Next, Abstract!Begin
  <1>3. CASE ~(httpLeft[t] > 0)
    BY <1>1, <1>3, Stutter DEF InFlight
  <1>4. QED
    BY <1>2, <1>3

\* So is the passing of time.
LEMMA TickMaps == ASSUME GateInv, Tick PROVE AbstractStep
  <1>0. TypeOK
    BY DEF GateInv
  <1>1. \A u \in Threads :
          InFlight(u)' <=> InFlight(u) /\ httpLeft[u] # 1
    BY <1>0 DEF Tick, InFlight, Less, TypeOK
  <1>2. blockedIn' = Abstract!Less(blockedIn)
    BY DEF Tick, Less, Abstract!Less
  <1>3. CASE \E v \in Threads : InFlight(v) /\ httpLeft[v] = 1
    <2>1. PICK v \in Threads : InFlight(v) /\ httpLeft[v] = 1
      BY <1>3
    <2>2. \A u \in Threads : InFlight(u) => u = v
      BY <2>1 DEF GateInv, HotAlone, InFlight, Hot
    <2>3. \A u \in Threads : ~InFlight(u)'
      BY <1>1, <2>1, <2>2
    <2>4. gap' = Interval
      BY <1>3 DEF Tick
    <2>5. QED
      BY <1>2, <2>1, <2>3, <2>4
      DEF AbstractStep, Abstract!Next, Abstract!Pass
  <1>4. CASE ~\E v \in Threads : InFlight(v) /\ httpLeft[v] = 1
    <2>1. gap' = Abstract!Less(gap)
      BY <1>4 DEF Tick, Less, Abstract!Less
    <2>2. \A u \in Threads : InFlight(u)' <=> InFlight(u)
      BY <1>1, <1>4
    <2>3. QED
      BY <1>2, <2>1, <2>2 DEF AbstractStep, Abstract!Next, Abstract!Pass
  <1>5. QED
    BY <1>3, <1>4

\* So is a crash.
LEMMA CrashMaps ==
  ASSUME GateInv, NEW p \in Processes, Crash(p)
  PROVE  AbstractStep
  <1> DEFINE dead == {t \in Threads : ProcessOf[t] = p}
  <1>1. /\ \A u \in dead : ~InFlight(u)'
        /\ \A u \in Threads \ dead : InFlight(u)' <=> InFlight(u)
        /\ UNCHANGED blockedIn
        /\ gap' = IF \E t \in dead : InFlight(t) THEN Interval ELSE gap
    BY DEF Crash, Forget, Row, InFlight
  <1>2. CASE \E t \in dead : InFlight(t)
    <2>1. PICK t \in Threads : t \in dead /\ InFlight(t)
      BY <1>2
    <2>2. \A u \in Threads : u # t => ~InFlight(u)
      BY <2>1 DEF GateInv, HotAlone, InFlight, Hot
    <2>3. QED
      BY <1>1, <1>2, <2>1, <2>2, Ends
  <1>3. CASE ~\E t \in dead : InFlight(t)
    BY <1>1, <1>3, Stutter
  <1>4. QED
    BY <1>2, <1>3

\* So is the way a request goes on after an answer.
LEMMA ProceedMaps ==
  ASSUME GateInv, NEW t \in Threads, Proceed(t)
  PROVE  AbstractStep
  <1>0. TypeOK
    BY DEF GateInv
  <1> USE DEF Goto, locals, Row, History, InFlight, TypeOK
  <1>1. CASE EnterProcess(t)
    BY <1>0, <1>1, Stutter DEF EnterProcess
  <1>2. CASE QueueTimeout(t)
    BY <1>0, <1>2, Stutter DEF QueueTimeout, Forget
  <1>3. CASE Connect(t)
    BY <1>0, <1>3, Stutter DEF Connect
  <1>4. CASE Abandon(t)
    BY <1>4, AbandonMaps
  <1>5. CASE TryLock(t)
    BY <1>0, <1>5, Stutter DEF TryLock
  <1>6. CASE GateOpen(t)
    BY <1>0, <1>6, Stutter DEF GateOpen
  <1>7. CASE GateClosed(t)
    BY <1>0, <1>7, Stutter DEF GateClosed
  <1>8. CASE Wake(t)
    BY <1>0, <1>8, Stutter DEF Wake
  <1>9. CASE Reserve(t)
    BY <1>0, <1>9, Stutter DEF Reserve
  <1>10. CASE Check(t)
    BY <1>0, <1>10, Stutter DEF Check
  <1>11. CASE Send(t)
    BY <1>11, SendMaps
  <1>12. CASE Return(t)
    BY <1>0, <1>12, RecordMaps DEF Return, Forget
  <1>13. CASE Retry(t)
    BY <1>0, <1>13, RecordMaps DEF Retry, Again
  <1>14. CASE Redirect(t)
    BY <1>0, <1>14, RecordMaps DEF Redirect, Again
  <1>15. QED
    BY <1>1, <1>2, <1>3, <1>4, <1>5, <1>6, <1>7, <1>8, <1>9, <1>10, <1>11,
       <1>12, <1>13, <1>14
    DEF Proceed, ConnectFails, LockTimeout, GateTimeout, BudgetSpent,
        CoordinationError

\* Every step is one of the abstract specification, or none of its concern.
LEMMA NextMaps == GateInv /\ [Next]_vars => AbstractStep
  <1> SUFFICES ASSUME GateInv, [Next]_vars
               PROVE  AbstractStep
    OBVIOUS
  <1>0. TypeOK
    BY DEF GateInv
  <1>1. CASE Tick
    BY <1>1, TickMaps
  <1>2. ASSUME NEW t \in Threads, Call(t) PROVE AbstractStep
    BY <1>0, <1>2, Stutter DEF Call, Goto, Row, History, InFlight, TypeOK
  <1>3. ASSUME NEW t \in Threads, Proceed(t) PROVE AbstractStep
    BY <1>3, ProceedMaps
  <1>4. ASSUME NEW t \in Threads, Answer(t) PROVE AbstractStep
    BY <1>0, <1>4, AnswerIsOver, OverMaps
  <1>5. ASSUME NEW t \in Threads, LoseSession(t) PROVE AbstractStep
    BY <1>5, Stutter DEF LoseSession, locals, Row, History, InFlight
  <1>6. ASSUME NEW p \in Processes, Crash(p) PROVE AbstractStep
    BY <1>6, CrashMaps
  <1>7. CASE UNCHANGED vars
    BY <1>7, Stutter DEF vars, locals, Row, History, InFlight
  <1>8. QED
    BY <1>1, <1>2, <1>3, <1>4, <1>5, <1>6, <1>7 DEF Next

\* The requests the server sees are serial, spaced by Interval, and never sent
\* during a recorded pause.
THEOREM GateServesSerially == Spec => ServesSerially
  <1>1. Init => Abstract!Init
    BY DEF Init, Abstract!Init, InFlight
  <1>2. QED
    BY <1>1, GateInvariant, NextMaps, PTL
    DEF Spec, ServesSerially, Abstract!Spec, AbstractStep

-----------------------------------------------------------------------------
(* A demanded pause is kept. *)

\* t has an answer that asks for a pause, and a session to store it with.
Stores(t) == pc[t] = "finish" /\ session[t]

\* A demanded pause is in the row, or the thread that was asked is about to
\* store it there.
DemandKnown ==
  demand > blockedIn => \E t \in Threads : Stores(t) /\ cooldown[t] >= demand

\* A step that leaves the row and the demand alone and every thread that is
\* about to store one.
LEMMA DemandStays ==
  ASSUME DemandKnown, UNCHANGED <<blockedIn, demand>>,
         \A u \in Threads : Stores(u) => Stores(u)' /\ cooldown'[u] = cooldown[u]
  PROVE  DemandKnown'
  BY DEF DemandKnown

\* Only one thread can be about to store a pause, and it has the lock.
LEMMA StoresWithLock ==
  ASSUME GateInv, NEW t \in Threads, Stores(t)
  PROVE  lock = t
  BY DEF GateInv, LockOwned, Stores

\* A thread that gives up has no session, or no answer yet.
LEMMA AbandonDemand ==
  ASSUME GateInv, DemandKnown, NEW t \in Threads, Abandon(t), ~Stores(t)
  PROVE  DemandKnown'
  <1>1. \A u \in Threads : u # t => /\ pc'[u] = pc[u] /\ session'[u] = session[u]
                                    /\ cooldown'[u] = cooldown[u]
    BY DEF Abandon, Goto, Release, Forget, GateInv, TypeOK
  <1>2. UNCHANGED <<blockedIn, demand>>
    BY DEF Abandon, Row
  <1>3. QED
    BY <1>1, <1>2, DemandStays DEF Stores

\* An answer that asks for a longer pause than the row has is the one that is
\* about to store it: no other thread can be.
LEMMA OverDemand ==
  ASSUME GateInv, DemandKnown, NEW t \in Threads, pc[t] = "http",
         NEW kind, NEW pause \in Nat, Over(t, kind, pause)
  PROVE  DemandKnown'
  <1>1. /\ pc' = [pc EXCEPT ![t] = "finish"] /\ cooldown' = [cooldown EXCEPT ![t] = pause]
        /\ demand' = (IF session[t] THEN MaxOf(demand, pause) ELSE demand)
        /\ UNCHANGED <<session, blockedIn>>
    BY DEF Over, Goto, Locks, Row
  <1>2. demand \in Nat /\ blockedIn \in Nat /\ pc \in [Threads -> Steps]
        /\ cooldown \in [Threads -> Nat]
    BY DEF GateInv, TypeOK
  <1>3. \A u \in Threads : Stores(u) => /\ u # t /\ ~session[t] /\ Stores(u)'
                                        /\ cooldown'[u] = cooldown[u]
    <2>1. session[t] => lock = t
      BY DEF GateInv, LockOwned
    <2>2. \A u \in Threads : Stores(u) => u # t /\ lock = u
      BY StoresWithLock DEF Stores
    <2>3. QED
      BY <1>1, <1>2, <2>1, <2>2 DEF Stores
  <1>4. CASE demand > blockedIn
    <2>1. PICK u \in Threads : Stores(u) /\ cooldown[u] >= demand
      BY <1>4 DEF DemandKnown
    <2>2. QED
      BY <1>1, <1>3, <2>1 DEF DemandKnown
  <1>5. CASE ~(demand > blockedIn)
    <2> SUFFICES ASSUME demand' > blockedIn
                 PROVE  Stores(t)' /\ cooldown'[t] >= demand'
      BY <1>1 DEF DemandKnown
    <2>1. session[t] /\ demand' = pause
      BY <1>1, <1>2, <1>5 DEF MaxOf
    <2>2. pc'[t] = "finish" /\ cooldown'[t] = pause
      BY <1>1, <1>2
    <2>3. QED
      BY <1>1, <2>1, <2>2 DEF Stores
  <1>6. QED
    BY <1>4, <1>5

\* gate.finish stores the pause that its thread was asked for.
LEMMA RecordDemand ==
  ASSUME GateInv, DemandKnown, NEW t \in Threads, Record(t), UNCHANGED demand
  PROVE  DemandKnown'
  <1>1. /\ Stores(t) /\ blockedIn' = MaxOf(blockedIn, cooldown[t])
        /\ demand \in Nat /\ blockedIn \in Nat /\ cooldown[t] \in Nat
    BY DEF Record, Stores, GateInv, TypeOK
  <1>2. demand > blockedIn => cooldown[t] >= demand
    <2>1. \A u \in Threads : Stores(u) => u = t
      BY <1>1, StoresWithLock
    <2>2. QED
      BY <2>1 DEF DemandKnown
  <1>3. ~(demand > blockedIn')
    BY <1>1, <1>2 DEF MaxOf
  <1>4. QED
    BY <1>3 DEF DemandKnown

\* The steps of a thread.
LEMMA ProceedDemand ==
  ASSUME GateInv, DemandKnown, NEW t \in Threads, Proceed(t)
  PROVE  DemandKnown'
  <1>0. pc \in [Threads -> Steps] /\ cooldown \in [Threads -> Nat]
        /\ session \in [Threads -> BOOLEAN]
    BY DEF GateInv, TypeOK
  <1> USE DEF Goto, locals, Locks, Row, History, Stores
  <1>1. CASE EnterProcess(t)
    BY <1>0, <1>1, DemandStays DEF EnterProcess
  <1>2. CASE QueueTimeout(t)
    BY <1>0, <1>2, DemandStays DEF QueueTimeout, Forget
  <1>3. CASE Connect(t)
    BY <1>0, <1>3, DemandStays DEF Connect
  <1>4. CASE ~Stores(t) /\ Abandon(t)
    BY <1>4, AbandonDemand
  <1>5. CASE TryLock(t)
    BY <1>0, <1>5, DemandStays DEF TryLock
  <1>6. CASE GateOpen(t)
    BY <1>0, <1>6, DemandStays DEF GateOpen
  <1>7. CASE GateClosed(t)
    BY <1>0, <1>7, DemandStays DEF GateClosed
  <1>8. CASE Wake(t)
    BY <1>0, <1>8, DemandStays DEF Wake
  <1>9. CASE Reserve(t)
    BY <1>0, <1>9, DemandStays DEF Reserve
  <1>10. CASE Check(t)
    BY <1>0, <1>10, DemandStays DEF Check
  <1>11. CASE Send(t)
    BY <1>0, <1>11, DemandStays DEF Send
  <1>12. CASE Return(t)
    BY <1>12, RecordDemand DEF Return
  <1>13. CASE Retry(t)
    BY <1>13, RecordDemand DEF Retry, Again
  <1>14. CASE Redirect(t)
    BY <1>14, RecordDemand DEF Redirect, Again
  <1>15. QED
    BY <1>1, <1>2, <1>3, <1>4, <1>5, <1>6, <1>7, <1>8, <1>9, <1>10, <1>11,
       <1>12, <1>13, <1>14
    DEF Proceed, ConnectFails, LockTimeout, GateTimeout, BudgetSpent,
        CoordinationError

\* Row and demand run down together.
LEMMA TickDemand ==
  ASSUME GateInv, DemandKnown, Tick
  PROVE  DemandKnown'
  <1>1. /\ demand \in Nat /\ blockedIn \in Nat /\ cooldown \in [Threads -> Nat]
        /\ demand' = Less(demand) /\ blockedIn' = Less(blockedIn)
        /\ UNCHANGED <<pc, session, cooldown>>
    BY DEF Tick, GateInv, TypeOK, Locks
  <1> SUFFICES ASSUME demand' > blockedIn'
               PROVE  \E t \in Threads : Stores(t)' /\ cooldown'[t] >= demand'
    BY DEF DemandKnown
  <1>2. demand > blockedIn /\ demand >= demand' /\ demand' \in Nat
    BY <1>1 DEF Less
  <1>3. PICK t \in Threads : Stores(t) /\ cooldown[t] >= demand
    BY <1>2 DEF DemandKnown
  <1>4. cooldown'[t] >= demand' /\ Stores(t)'
    BY <1>1, <1>2, <1>3 DEF Stores
  <1>5. QED
    BY <1>4

\* Threads that are gone take the pause they were asked for with them; the
\* others still store theirs.
LEMMA LostDemand ==
  ASSUME GateInv, DemandKnown, NEW S \in SUBSET Threads, demand' = Unheard(S),
         blockedIn' = blockedIn,
         \A u \in Threads \ S : /\ pc'[u] = pc[u] /\ session'[u] = session[u]
                                /\ cooldown'[u] = cooldown[u]
  PROVE  DemandKnown'
  <1>1. CASE \E t \in S : Stores(t)
    <2>1. demand' = blockedIn /\ blockedIn \in Nat
      BY <1>1 DEF Unheard, Stores, GateInv, TypeOK
    <2>2. QED
      BY <2>1 DEF DemandKnown
  <1>2. CASE ~\E t \in S : Stores(t)
    <2>1. demand' = demand
      BY <1>2 DEF Unheard, Stores
    <2>2. QED
      BY <1>2, <2>1, DemandStays DEF Stores
  <1>3. QED
    BY <1>1, <1>2

\* Every step keeps it.
LEMMA NextDemand == GateInv /\ DemandKnown /\ [Next]_vars => DemandKnown'
  <1> SUFFICES ASSUME GateInv, DemandKnown, [Next]_vars
               PROVE  DemandKnown'
    OBVIOUS
  <1>1. CASE Tick
    BY <1>1, TickDemand
  <1>2. ASSUME NEW t \in Threads, Call(t) PROVE DemandKnown'
    BY <1>2, DemandStays
    DEF Call, Goto, Locks, Row, History, GateInv, TypeOK, Stores
  <1>3. ASSUME NEW t \in Threads, Proceed(t) PROVE DemandKnown'
    BY <1>3, ProceedDemand
  <1>4. ASSUME NEW t \in Threads, Answer(t) PROVE DemandKnown'
    BY <1>4, AnswerIsOver, OverDemand DEF GateInv
  <1>5. ASSUME NEW t \in Threads, LoseSession(t) PROVE DemandKnown'
    <2>1. /\ demand' = Unheard({t}) /\ blockedIn' = blockedIn
          /\ \A u \in Threads \ {t} : /\ pc'[u] = pc[u] /\ session'[u] = session[u]
                                      /\ cooldown'[u] = cooldown[u]
      BY <1>5 DEF LoseSession, locals, Row, GateInv, TypeOK
    <2>2. QED
      BY <2>1, LostDemand
  <1>6. ASSUME NEW p \in Processes, Crash(p) PROVE DemandKnown'
    <2> DEFINE dead == {t \in Threads : ProcessOf[t] = p}
    <2>1. /\ demand' = Unheard(dead) /\ blockedIn' = blockedIn
          /\ \A u \in Threads \ dead : /\ pc'[u] = pc[u] /\ session'[u] = session[u]
                                       /\ cooldown'[u] = cooldown[u]
      BY <1>6 DEF Crash, Forget, Row
    <2>2. QED
      BY <2>1, LostDemand
  <1>7. CASE UNCHANGED vars
    BY <1>7, DemandStays DEF vars, Stores
  <1>8. QED
    BY <1>1, <1>2, <1>3, <1>4, <1>5, <1>6, <1>7 DEF Next

\* Only Send puts a request on the wire.
LEMMA OnlySendBegins ==
  ASSUME GateInv, [Next]_vars, NEW t \in Threads, ~InFlight(t), InFlight(t)'
  PROVE  Send(t)
  <1>0. TypeOK
    BY DEF GateInv
  <1>1. ASSUME pc'[t] = pc[t] PROVE FALSE
    <2>1. httpLeft'[t] > httpLeft[t]
      <3>1. httpLeft[t] \in Nat /\ ~(httpLeft[t] > 0) /\ httpLeft'[t] > 0
        BY <1>0, <1>1 DEF InFlight, TypeOK
      <3>2. QED
        BY <3>1
    <2>2. pc[t] = "http"
      BY <1>1 DEF InFlight
    <2>3. httpLeft'[t] \in 0..httpLeft[t]
      <3>0. httpLeft \in [Threads -> Nat]
        BY <1>0 DEF TypeOK
      <3> DEFINE Shorter == httpLeft'[t] \in 0..httpLeft[t]
      <3>1. CASE Tick
        BY <3>0, <3>1 DEF Tick, Less
      <3>2. ASSUME NEW u \in Threads, Reserve(u) PROVE Shorter
        <4>1. u # t
          BY <2>2, <3>2 DEF Reserve
        <4>2. QED
          BY <3>0, <3>2, <4>1 DEF Reserve
      <3>3. CASE httpLeft' = httpLeft
        BY <3>0, <3>3
      <3>4. ASSUME NEW gone, Forget(gone) PROVE Shorter
        BY <3>0, <3>4 DEF Forget
      <3>5. ASSUME NEW u \in Threads, Proceed(u) PROVE Shorter
        <4>1. \/ httpLeft' = httpLeft \/ Reserve(u)
              \/ \E gone : Forget(gone)
          BY <3>5
          DEF Proceed, EnterProcess, QueueTimeout, Connect, ConnectFails, TryLock,
              LockTimeout, GateOpen, GateClosed, GateTimeout, Wake, BudgetSpent,
              Check, Send, Return, Retry, Redirect, Again, CoordinationError,
              Abandon, locals
        <4>2. QED
          BY <3>2, <3>3, <3>4, <4>1
      <3>6. ASSUME NEW u \in Threads, Answer(u) PROVE Shorter
        <4>1. PICK kind, pause : Over(u, kind, pause)
          BY <1>0, <3>6, AnswerIsOver
        <4>2. httpLeft' = [httpLeft EXCEPT ![u] = 0]
          BY <4>1 DEF Over
        <4>3. QED
          BY <3>0, <4>2
      <3>7. ASSUME NEW u \in Threads, Call(u) \/ LoseSession(u) PROVE Shorter
        BY <3>3, <3>7 DEF Call, LoseSession, locals
      <3>8. ASSUME NEW p \in Processes, Crash(p) PROVE Shorter
        BY <3>4, <3>8 DEF Crash
      <3>9. CASE UNCHANGED vars
        BY <3>3, <3>9 DEF vars
      <3>10. QED
        BY <3>1, <3>5, <3>6, <3>7, <3>8, <3>9 DEF Next
    <2>4. QED
      BY <1>0, <2>1, <2>3 DEF TypeOK
  <1>2. CASE pc'[t] # pc[t]
    <2>1. pc'[t] = "http"
      BY DEF InFlight
    <2>2. ASSUME NEW u \in Threads, NEW step, Goto(u, step), step # "http"
          PROVE  FALSE
      BY <1>0, <1>2, <2>1, <2>2 DEF Goto, TypeOK
    <2>3. ASSUME NEW u \in Threads, Proceed(u) PROVE Send(t)
      <3>1. Send(u) \/ \E step : Goto(u, step) /\ step # "http"
        BY <2>3
        DEF Proceed, EnterProcess, QueueTimeout, Connect, ConnectFails, TryLock,
            LockTimeout, GateOpen, GateClosed, GateTimeout, Wake, Reserve,
            BudgetSpent, Check, Return, Retry, Redirect, Again,
            CoordinationError, Abandon
      <3>2. Send(u) => u = t
        BY <1>0, <1>2 DEF Send, Goto, TypeOK
      <3>3. QED
        BY <2>2, <3>1, <3>2
    <2>4. ASSUME NEW u \in Threads, Answer(u) PROVE FALSE
      <3>1. PICK kind, pause : Over(u, kind, pause)
        BY <1>0, <2>4, AnswerIsOver
      <3>2. QED
        BY <2>2, <3>1 DEF Over
    <2>5. ASSUME NEW u \in Threads, Call(u) PROVE FALSE
      BY <2>2, <2>5 DEF Call
    <2>6. ASSUME NEW p \in Processes, Crash(p) PROVE FALSE
      BY <1>2, <2>1, <2>6 DEF Crash
    <2>7. QED
      BY <1>2, <2>3, <2>4, <2>5, <2>6
      DEF Next, vars, Tick, LoseSession
  <1>3. QED
    BY <1>1, <1>2

\* After an answer asked for a pause nobody sends before it is over, in any
\* process, unless the thread that was asked lost its session or died before
\* it could store it (gate.finish under the lock, gate.reserve after a look at
\* the row under it).
THEOREM DemandIsHonoured == Spec => DemandHonoured
  <1> DEFINE Honoured == \A t \in Threads : ~InFlight(t) /\ InFlight(t)' => demand = 0
  <1>1. Init => DemandKnown
    BY DEF Init, DemandKnown
  <1>2. ASSUME GateInv, DemandKnown, [Next]_vars PROVE Honoured
    <2> SUFFICES ASSUME NEW t \in Threads, ~InFlight(t), InFlight(t)'
                 PROVE  demand = 0
      OBVIOUS
    <2>1. Send(t)
      BY <1>2, OnlySendBegins
    <2>2. Hot(t) /\ pc[t] = "send"
      BY <1>2, <2>1 DEF Send, Goto, locals, InFlight, Hot
    <2>3. blockedIn = 0
      BY <1>2, <2>2 DEF GateInv, QuietBeforeSend
    <2>4. \A u \in Threads : ~Stores(u)
      <3> SUFFICES ASSUME NEW u \in Threads, Stores(u) PROVE FALSE
        OBVIOUS
      <3>1. Engaged(u)
        BY <1>2, StoresWithLock DEF Engaged, Stores
      <3>2. u = t
        BY <1>2, <2>2, <3>1 DEF GateInv, HotAlone
      <3>3. QED
        BY <2>2, <3>2 DEF Stores
    <2>5. QED
      BY <1>2, <2>3, <2>4 DEF DemandKnown, GateInv, TypeOK
  <1>3. GateInv /\ DemandKnown /\ [Next]_vars => [Honoured]_vars
    BY <1>2
  <1>4. QED
    BY <1>1, <1>3, NextDemand, GateInvariant, PTL DEF Spec, DemandHonoured
=============================================================================
