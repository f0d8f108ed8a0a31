------------------------------ MODULE SecGate ------------------------------
(***************************************************************************)
(* The shared SEC request gate (core/sec_client.py, core/sec_http_worker.py*)
(* and scripts/sec_request_gate.sql).  Threads of several processes make   *)
(* logical GETs; each physical HTTP attempt first takes the mutex of its   *)
(* process, then a PostgreSQL advisory lock on a database session of its   *)
(* own, reads the one row of sec_request_gate, writes a reservation that   *)
(* outlasts the attempt, sends through a killable child, and records the   *)
(* next allowed time and the shared pause before it lets go.               *)
(*                                                                         *)
(* Time is kept as countdowns: a column that holds a time stamp T is       *)
(* modelled by T - now, never below 0; Tick is the passing of one unit.    *)
(* Any amount of time may pass between two steps of a thread.  Sessions    *)
(* may be lost and processes may crash at any step.                        *)
(***************************************************************************)
EXTENDS Naturals

CONSTANTS
  Threads, Processes,
  ProcessOf,       \* [Threads -> Processes]
  NoThread,
  Interval,        \* 1 / config.sec.rate_limit
  Cleanup,         \* the 2 seconds reserve() adds
  HttpTimeout,     \* get(timeout=...)
  TotalBudget,     \* get(total_timeout=...)
  MaxRetries,      \* 2: three attempts in all
  MaxRedirects,    \* 3
  ForbiddenPause,  \* 60 seconds after a 403
  ThrottlePause,   \* 10 seconds after a 429 without Retry-After
  RetryAfters,     \* what a Retry-After header may ask for
  NoHeader,
  Faults           \* whether sessions may be lost and processes may crash

ASSUME GateAssumption ==
  /\ ProcessOf \in [Threads -> Processes]
  /\ NoThread \notin Threads
  /\ Interval \in Nat \ {0}
  /\ Cleanup \in Nat
  /\ HttpTimeout \in Nat \ {0}
  /\ TotalBudget \in Nat \ {0}
  /\ MaxRetries \in 0..2
  /\ MaxRedirects \in Nat
  /\ ForbiddenPause \in Nat
  /\ ThrottlePause \in Nat
  /\ RetryAfters \subseteq Nat
  /\ NoHeader \notin Nat
  /\ Faults \in BOOLEAN

VARIABLES
  pc,           \* where each thread is
  budget,       \* deadline - now of the thread's logical GET
  retries, redirects,
  nap,          \* what is left of _sleep_until_retry
  session,      \* the thread's dedicated database session is alive
  httpLeft,     \* http_deadline - now of its current attempt
  reply,        \* what its last attempt came to
  cooldown,     \* the pause that attempt asks for
  processLock,  \* the owner of each process's _process_lock
  lock,         \* the owner of the advisory lock
  nextIn,       \* next_allowed_at - now
  blockedIn,    \* blocked_until - now
  gap,          \* history: what is left of Interval since a request ended
  demand        \* history: what is left of the pause that answers asked for
                \* and that their threads lived to store

locals == <<budget, retries, redirects, httpLeft, reply, cooldown>>
Locks == <<session, processLock, lock>>
Row == <<nextIn, blockedIn>>
History == <<gap, demand>>
vars == <<pc, budget, retries, redirects, nap, session, httpLeft, reply,
          cooldown, processLock, lock, nextIn, blockedIn, gap, demand>>

Steps == {"idle", "queue", "connect", "try", "read", "sleep", "reserve",
          "check", "send", "http", "finish"}
Replies == {"none", "ok", "redirect", "retry", "fatal"}

MaxOf(a, b) == IF a >= b THEN a ELSE b
MinOf(a, b) == IF a <= b THEN a ELSE b
Less(n) == IF n = 0 THEN 0 ELSE n - 1

Init ==
  /\ pc = [t \in Threads |-> "idle"]
  /\ budget = [t \in Threads |-> 0]
  /\ retries = [t \in Threads |-> 0]
  /\ redirects = [t \in Threads |-> 0]
  /\ nap = [t \in Threads |-> 0]
  /\ session = [t \in Threads |-> FALSE]
  /\ httpLeft = [t \in Threads |-> 0]
  /\ reply = [t \in Threads |-> "none"]
  /\ cooldown = [t \in Threads |-> 0]
  /\ processLock = [p \in Processes |-> NoThread]
  /\ lock = NoThread
  /\ nextIn = 0
  /\ blockedIn = 0
  /\ gap = 0
  /\ demand = 0

-----------------------------------------------------------------------------
\* The child of t has a request on the wire: the worker's SIGALRM and the
\* parent's own deadline end it when httpLeft reaches 0.
InFlight(t) == pc[t] = "http" /\ httpLeft[t] > 0

Goto(t, step) == pc' = [pc EXCEPT ![t] = step]

\* get() returns or raises: its local variables are gone.
Forget(gone) ==
  /\ budget' = [t \in Threads |-> IF t \in gone THEN 0 ELSE budget[t]]
  /\ retries' = [t \in Threads |-> IF t \in gone THEN 0 ELSE retries[t]]
  /\ redirects' = [t \in Threads |-> IF t \in gone THEN 0 ELSE redirects[t]]
  /\ httpLeft' = [t \in Threads |-> IF t \in gone THEN 0 ELSE httpLeft[t]]
  /\ reply' = [t \in Threads |-> IF t \in gone THEN "none" ELSE reply[t]]
  /\ cooldown' = [t \in Threads |-> IF t \in gone THEN 0 ELSE cooldown[t]]

\* The finally clause of _acquire_gate: closing the session frees the
\* advisory lock, then the process mutex is released.
Release(t) ==
  /\ session' = [session EXCEPT ![t] = FALSE]
  /\ lock' = IF lock = t THEN NoThread ELSE lock
  /\ processLock' = [processLock EXCEPT ![ProcessOf[t]] = NoThread]
  /\ nap' = [nap EXCEPT ![t] = 0]

\* Every error that leaves get(): the gate is released, a running child is
\* killed and reaped first (finally of _physical_get).
Abandon(t) ==
  /\ Goto(t, "idle")
  /\ Release(t)
  /\ Forget({t})
  /\ gap' = IF InFlight(t) THEN Interval ELSE gap
  /\ UNCHANGED <<Row, demand>>

-----------------------------------------------------------------------------
\* get() up to the loop: a fresh deadline and fresh counters.
Call(t) ==
  /\ pc[t] = "idle"
  /\ Goto(t, "queue")
  /\ budget' = [budget EXCEPT ![t] = TotalBudget]
  /\ UNCHANGED <<retries, redirects, httpLeft, reply, cooldown, nap, Locks,
                 Row, History>>

\* _process_lock.acquire(timeout=remaining)
EnterProcess(t) ==
  /\ pc[t] = "queue"
  /\ budget[t] > 0
  /\ processLock[ProcessOf[t]] = NoThread
  /\ processLock' = [processLock EXCEPT ![ProcessOf[t]] = t]
  /\ Goto(t, "connect")
  /\ UNCHANGED <<locals, nap, session, lock, Row, History>>

\* SECWaitTimeout before the process mutex was obtained: nothing to release.
QueueTimeout(t) ==
  /\ pc[t] = "queue"
  /\ budget[t] = 0
  /\ Goto(t, "idle")
  /\ Forget({t})
  /\ UNCHANGED <<nap, Locks, Row, History>>

Connect(t) ==
  /\ pc[t] = "connect"
  /\ session' = [session EXCEPT ![t] = TRUE]
  /\ Goto(t, "try")
  /\ UNCHANGED <<locals, nap, processLock, lock, Row, History>>

ConnectFails(t) == pc[t] = "connect" /\ Abandon(t)

\* pg_try_advisory_lock.  When it is taken the thread naps for 0.05s, less
\* than a unit of time, and tries again: no state changes.
TryLock(t) ==
  /\ pc[t] = "try"
  /\ session[t]
  /\ budget[t] > 0
  /\ lock = NoThread
  /\ lock' = t
  /\ Goto(t, "read")
  /\ UNCHANGED <<locals, nap, session, processLock, Row, History>>

LockTimeout(t) == pc[t] = "try" /\ budget[t] = 0 /\ Abandon(t)

\* Mutant: the shared pause is not read.
WaitForRowOnly == nextIn

Wait == MaxOf(nextIn, blockedIn)

\* The row is read under the lock, which is given back when it says wait.
GateOpen(t) ==
  /\ pc[t] = "read"
  /\ session[t]
  /\ Wait = 0
  /\ Goto(t, "reserve")
  /\ UNCHANGED <<locals, nap, Locks, Row, History>>

GateClosed(t) ==
  /\ pc[t] = "read"
  /\ session[t]
  /\ Wait > 0
  /\ Wait < budget[t]
  /\ lock' = NoThread
  /\ nap' = [nap EXCEPT ![t] = Wait]
  /\ Goto(t, "sleep")
  /\ UNCHANGED <<locals, session, processLock, Row, History>>

GateTimeout(t) ==
  /\ pc[t] = "read"
  /\ session[t]
  /\ Wait > 0
  /\ Wait >= budget[t]
  /\ Abandon(t)

Wake(t) ==
  /\ pc[t] = "sleep"
  /\ nap[t] = 0
  /\ Goto(t, "try")
  /\ UNCHANGED <<locals, nap, Locks, Row, History>>

\* Mutant: the reservation forgets how long the attempt may last.
ReserveIntervalOnly(t) ==
  /\ pc[t] = "reserve"
  /\ session[t]
  /\ budget[t] > 0
  /\ httpLeft' = [httpLeft EXCEPT ![t] = MinOf(HttpTimeout, budget[t])]
  /\ nextIn' = Interval
  /\ Goto(t, "check")
  /\ UNCHANGED <<budget, retries, redirects, reply, cooldown, nap, Locks,
                 blockedIn, History>>

\* gate.reserve: the attempt may last min(timeout, remaining); nobody may
\* send before that, the interval and the clean-up time have passed.
Reserve(t) ==
  LET duration == MinOf(HttpTimeout, budget[t]) IN
  /\ pc[t] = "reserve"
  /\ session[t]
  /\ budget[t] > 0
  /\ httpLeft' = [httpLeft EXCEPT ![t] = duration]
  /\ nextIn' = duration + Interval + Cleanup
  /\ Goto(t, "check")
  /\ UNCHANGED <<budget, retries, redirects, reply, cooldown, nap, Locks,
                 blockedIn, History>>

BudgetSpent(t) == pc[t] = "reserve" /\ budget[t] = 0 /\ Abandon(t)

\* gate.check(), the last look at the session before sending.
Check(t) ==
  /\ pc[t] = "check"
  /\ session[t]
  /\ Goto(t, "send")
  /\ UNCHANGED <<locals, nap, Locks, Row, History>>

\* The child starts; it sends nothing when its deadline has passed.
Send(t) ==
  /\ pc[t] = "send"
  /\ Goto(t, "http")
  /\ UNCHANGED <<locals, nap, Locks, Row, History>>

-----------------------------------------------------------------------------
\* 2 ** (retries + 1), for the three attempts there are.
Backoff(n) == CASE n = 0 -> 2 [] n = 1 -> 4 [] OTHER -> 8

\* _shared_cooldown
SharedCooldown(status, n, retryAfter) ==
  CASE status = "403" -> ForbiddenPause
    [] status = "429" -> MaxOf(Backoff(n), IF retryAfter = NoHeader
                                           THEN ThrottlePause ELSE retryAfter)
    [] status = "503" -> MaxOf(Backoff(n), IF retryAfter = NoHeader
                                           THEN 0 ELSE retryAfter)
    [] OTHER -> Backoff(n)

\* The attempt is over: the child has answered or was killed.
Over(t, kind, pause) ==
  /\ reply' = [reply EXCEPT ![t] = kind]
  /\ cooldown' = [cooldown EXCEPT ![t] = pause]
  /\ demand' = IF session[t] THEN MaxOf(demand, pause) ELSE demand
  /\ gap' = IF InFlight(t) THEN Interval ELSE gap
  /\ httpLeft' = [httpLeft EXCEPT ![t] = 0]
  /\ Goto(t, "finish")
  /\ UNCHANGED <<budget, retries, redirects, nap, Locks, Row>>

\* 2xx, an explicitly allowed 404, a redirect, or a 4xx that is not 403/429.
AnswerPlain(t) ==
  /\ InFlight(t)
  /\ \E kind \in {"ok", "redirect", "fatal"} : Over(t, kind, 0)

AnswerForbidden(t) ==
  InFlight(t) /\ Over(t, "fatal", SharedCooldown("403", retries[t], NoHeader))

\* 429, 500, 502, 503 or 504.
AnswerRefused(t) ==
  /\ InFlight(t)
  /\ \E status \in {"429", "503", "5xx"}, ra \in RetryAfters \cup {NoHeader} :
       Over(t, "retry", SharedCooldown(status, retries[t], ra))

\* Mutant: the parent waits for its child without a deadline.
TransportErrorNoDeadline(t) ==
  /\ InFlight(t)
  /\ \E status \in {"none", "403", "429", "503"},
        ra \in RetryAfters \cup {NoHeader} :
       Over(t, "retry", SharedCooldown(status, retries[t], ra))

\* A retryable SECTransportError: a network error, a body cut off after its
\* headers, or the deadline of the attempt.
TransportError(t) ==
  /\ pc[t] = "http"
  /\ \E status \in {"none", "403", "429", "503"},
        ra \in RetryAfters \cup {NoHeader} :
       /\ ~InFlight(t) => status = "none"
       /\ Over(t, "retry", SharedCooldown(status, retries[t], ra))

\* Not retryable: an oversized or undecodable result of the worker.
InvalidAnswer(t) == pc[t] = "http" /\ Over(t, "fatal", 0)

\* Mutant: the pause an answer asks for is not shared.
RecordNoPause(t) ==
  /\ pc[t] = "finish"
  /\ session[t]
  /\ nextIn' = Interval
  /\ UNCHANGED blockedIn
  /\ Release(t)

\* gate.finish, the end of the with block, and the loop's decision.
Record(t) ==
  /\ pc[t] = "finish"
  /\ session[t]
  /\ nextIn' = Interval
  /\ blockedIn' = MaxOf(blockedIn, cooldown[t])
  /\ Release(t)

Return(t) ==
  /\ Record(t)
  /\ \/ reply[t] \in {"ok", "fatal"}
     \/ reply[t] = "retry" /\ retries[t] >= MaxRetries
     \/ reply[t] = "redirect"     \* no location, a foreign host, or too many
  /\ Goto(t, "idle")
  /\ Forget({t})
  /\ UNCHANGED History

\* The next turn of the loop starts with no response and no cooldown.
Again(t) ==
  /\ Goto(t, "queue")
  /\ reply' = [reply EXCEPT ![t] = "none"]
  /\ cooldown' = [cooldown EXCEPT ![t] = 0]
  /\ UNCHANGED <<budget, httpLeft, History>>

\* Mutant: one retry too many.
RetryOnceMore(t) ==
  /\ Record(t)
  /\ reply[t] = "retry"
  /\ retries[t] <= MaxRetries
  /\ retries' = [retries EXCEPT ![t] = @ + 1]
  /\ Again(t)
  /\ UNCHANGED redirects

Retry(t) ==
  /\ Record(t)
  /\ reply[t] = "retry"
  /\ retries[t] < MaxRetries
  /\ retries' = [retries EXCEPT ![t] = @ + 1]
  /\ Again(t)
  /\ UNCHANGED redirects

Redirect(t) ==
  /\ Record(t)
  /\ reply[t] = "redirect"
  /\ redirects[t] < MaxRedirects
  /\ redirects' = [redirects EXCEPT ![t] = @ + 1]
  /\ Again(t)
  /\ UNCHANGED retries

-----------------------------------------------------------------------------
\* A statement on a lost session, or the 0.5s poll of a running child, ends
\* the GET with SECCoordinationError.
CoordinationError(t) ==
  /\ pc[t] \in {"try", "read", "reserve", "check", "http", "finish"}
  /\ ~session[t]
  /\ Abandon(t)

\* What is left of the demands when some threads can no longer store theirs.
Unheard(S) ==
  IF \E t \in S : pc[t] = "finish" /\ session[t] THEN blockedIn ELSE demand

\* The server ends the session (restart, network, terminated backend).
LoseSession(t) ==
  /\ Faults
  /\ session[t]
  /\ session' = [session EXCEPT ![t] = FALSE]
  /\ lock' = IF lock = t THEN NoThread ELSE lock
  /\ demand' = Unheard({t})
  /\ UNCHANGED <<pc, locals, nap, processLock, Row, gap>>

\* A process dies with all its threads; PR_SET_PDEATHSIG kills its child.
\* Its threads may call again once it has been restarted.
Crash(p) ==
  LET dead == {t \in Threads : ProcessOf[t] = p} IN
  /\ Faults
  /\ \E t \in dead : pc[t] # "idle"
  /\ pc' = [t \in Threads |-> IF t \in dead THEN "idle" ELSE pc[t]]
  /\ session' = [t \in Threads |-> IF t \in dead THEN FALSE ELSE session[t]]
  /\ nap' = [t \in Threads |-> IF t \in dead THEN 0 ELSE nap[t]]
  /\ lock' = IF lock \in dead THEN NoThread ELSE lock
  /\ processLock' = [processLock EXCEPT ![p] = NoThread]
  /\ gap' = IF \E t \in dead : InFlight(t) THEN Interval ELSE gap
  /\ demand' = Unheard(dead)
  /\ Forget(dead)
  /\ UNCHANGED Row

Tick ==
  /\ budget' = [t \in Threads |-> Less(budget[t])]
  /\ httpLeft' = [t \in Threads |-> Less(httpLeft[t])]
  /\ nap' = [t \in Threads |-> Less(nap[t])]
  /\ nextIn' = Less(nextIn)
  /\ blockedIn' = Less(blockedIn)
  /\ demand' = Less(demand)
  /\ gap' = IF \E t \in Threads : InFlight(t) /\ httpLeft[t] = 1
            THEN Interval ELSE Less(gap)
  /\ UNCHANGED <<pc, retries, redirects, reply, cooldown, Locks>>

\* What the thread itself does.
Proceed(t) ==
  \/ EnterProcess(t) \/ QueueTimeout(t) \/ Connect(t) \/ ConnectFails(t)
  \/ TryLock(t) \/ LockTimeout(t) \/ GateOpen(t) \/ GateClosed(t)
  \/ GateTimeout(t) \/ Wake(t) \/ Reserve(t) \/ BudgetSpent(t) \/ Check(t)
  \/ Send(t) \/ Return(t) \/ Retry(t) \/ Redirect(t) \/ CoordinationError(t)

Answer(t) ==
  \/ AnswerPlain(t) \/ AnswerForbidden(t) \/ AnswerRefused(t)
  \/ TransportError(t) \/ InvalidAnswer(t)

Next ==
  \/ Tick
  \/ \E t \in Threads : Call(t) \/ Proceed(t) \/ Answer(t) \/ LoseSession(t)
  \/ \E p \in Processes : Crash(p)

Spec == Init /\ [][Next]_vars

\* Threads that can run do run and time passes.  The deadline of the attempt
\* is a TransportError, so no answer of the server is assumed.
Fairness ==
  /\ WF_vars(Tick)
  /\ \A t \in Threads : WF_vars(Proceed(t)) /\ WF_vars(TransportError(t))

FairSpec == Spec /\ Fairness

-----------------------------------------------------------------------------
(* Properties *)

TypeOK ==
  /\ pc \in [Threads -> Steps]
  /\ budget \in [Threads -> Nat]
  /\ retries \in [Threads -> 0..MaxRetries]
  /\ redirects \in [Threads -> 0..MaxRedirects]
  /\ nap \in [Threads -> Nat]
  /\ session \in [Threads -> BOOLEAN]
  /\ httpLeft \in [Threads -> Nat]
  /\ reply \in [Threads -> Replies]
  /\ cooldown \in [Threads -> Nat]
  /\ processLock \in [Processes -> Threads \cup {NoThread}]
  /\ lock \in Threads \cup {NoThread}
  /\ nextIn \in Nat
  /\ blockedIn \in Nat
  /\ gap \in Nat
  /\ demand \in Nat

\* At most one physical request is on the wire, whatever sessions are lost and
\* whichever processes die (SEC_REQUEST_GATE.md: one HTTP in flight).
OneInFlight ==
  \A t, u \in Threads : InFlight(t) /\ InFlight(u) => t = u

\* A thread that is about to send, or sending, is covered by the reservation
\* it wrote, even after its session and its lock are gone.
Hot(t) == pc[t] \in {"check", "send", "http"} /\ httpLeft[t] > 0

ReservationCovers ==
  \A t \in Threads : Hot(t) => nextIn >= httpLeft[t] + Interval

\* The advisory lock is held only by a thread that is between TryLock and
\* gate.finish and that owns its process's mutex: no exit path leaks it.
LockHeldInside ==
  lock # NoThread =>
    /\ session[lock]
    /\ processLock[ProcessOf[lock]] = lock
    /\ pc[lock] \in {"read", "reserve", "check", "send", "http", "finish"}

\* The parts of the inductive invariant behind the properties above.
\* From _process_lock.acquire to the finally clause the mutex is the thread's.
Inside == Steps \ {"idle", "queue"}

MutexOwned ==
  \A t \in Threads : pc[t] \in Inside => processLock[ProcessOf[t]] = t

\* While its session lives, a thread past TryLock holds the advisory lock.
LockOwned ==
  \A t \in Threads :
    /\ session[t]
    /\ pc[t] \in {"read", "reserve", "check", "send", "http", "finish"}
    => lock = t

\* The row still says go when the reservation is written.
OpenAtReserve ==
  \A t \in Threads :
    pc[t] = "reserve" /\ session[t] => nextIn = 0 /\ blockedIn = 0

\* No other thread can be sending once a thread with the lock has reserved.
Engaged(t) == lock = t /\ pc[t] \in {"check", "send", "http", "finish"}

HotAlone ==
  \A t, u \in Threads : Hot(t) /\ (Hot(u) \/ Engaged(u)) => t = u

\* What the gate let through is still allowed when it is sent.
QuietBeforeSend ==
  \A t \in Threads :
    Hot(t) /\ pc[t] # "http" => gap = 0 /\ blockedIn = 0

GapCovered == gap <= nextIn /\ gap <= Interval

GateInv ==
  /\ TypeOK
  /\ MutexOwned
  /\ LockHeldInside
  /\ LockOwned
  /\ OpenAtReserve
  /\ ReservationCovers
  /\ HotAlone
  /\ QuietBeforeSend
  /\ GapCovered

\* The shared back-off acceptance test of the plan (docs/SEC_SHARED_REQUEST_
\* LIMIT_PLAN.md, item 3): after process A was told to pause, no process
\* sends before the pause is over, unless A lost its session or died before
\* it could store the pause.
DemandHonoured ==
  [][\A t \in Threads : ~InFlight(t) /\ InFlight(t)' => demand = 0]_vars

\* Every logical GET ends, in an answer or in an error.
EveryGetEnds ==
  \A t \in Threads : pc[t] # "idle" ~> pc[t] = "idle"

Abstract == INSTANCE SpacedRequests
              WITH busy <- \E t \in Threads : InFlight(t),
                   rest <- gap, pause <- blockedIn

\* The gate implements the serial, spaced requests of SpacedRequests.
ServesSerially == Abstract!Spec
=============================================================================
