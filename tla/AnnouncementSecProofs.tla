----------------------- MODULE AnnouncementSecProofs -----------------------
(* Proofs about AnnouncementSec, for every set of runners, every calendar,  *)
(* every window and every listing the SEC may return.                       *)
EXTENDS AnnouncementSec, FiniteSetTheorems, WellFoundedInduction, TLAPS

\* A check point, and the end of a recovery window, lie between the end of
\* the first window and today.
Reached(d) == d \in BackfillDays..today

\* What a round works from: its target is the day it began, and once it has
\* loaded the state a first backfill has a window.
ViewBounded(r) ==
  /\ view[r].checked # NoDay => Reached(view[r].checked)
  /\ view[r].recovery # NoRecovery => Reached(view[r].recovery.target)
  /\ pc[r] # "idle" => Reached(view[r].target)
  /\ pc[r] = "fetch" /\ Backfill(view[r]) => view[r].recovery # NoRecovery

\* The day a round began is not before the check point it read.
TargetAhead ==
  \A r \in Runners : lock = r /\ pc[r] # "idle" /\ checked # NoDay =>
    checked <= view[r].target

Bounded ==
  /\ today >= BackfillDays
  /\ checked # NoDay => Reached(checked)
  /\ recovery # NoRecovery => Reached(recovery.target)
  /\ \A r \in Runners : ViewBounded(r)
  /\ TargetAhead

IInv == TypeOK /\ FreshView /\ Bounded

\* The scan of a bounded view stays in the calendar.
LEMMA ScanInDays ==
  ASSUME CollectorAssumption, IInv, NEW r \in Runners, pc[r] = "fetch"
  PROVE  Scan(view[r]) \subseteq Days
<1>1. BackfillDays \in Nat /\ Overlap \in Nat /\ Overlap <= BackfillDays /\ MaxDay \in Nat
  BY DEF CollectorAssumption
<1>2. view[r].target \in Days /\ view[r].target >= BackfillDays
  BY <1>1 DEF IInv, TypeOK, Bounded, ViewBounded, Reached, Days
<1>3. CASE ~Backfill(view[r])
  <2>1. view[r].checked \in BackfillDays..today /\ view[r].checked \in Int
    BY <1>1, <1>3 DEF Backfill, IInv, Bounded, ViewBounded, Reached
  <2> QED BY <1>1, <1>2, <1>3, <2>1 DEF Scan, Days
<1>4. CASE Backfill(view[r])
  <2>1. view[r].recovery \in Recoveries /\ view[r].recovery.target >= BackfillDays
    BY <1>1, <1>4 DEF IInv, TypeOK, Bounded, ViewBounded, Reached, Days
  <2> QED BY <1>1, <1>2, <1>4, <2>1 DEF Scan, Days, Recoveries
<1> QED BY <1>3, <1>4

\* Gaps, pending days and completed days are days of the scan.
LEMMA OutcomeInScan ==
  ASSUME NEW v, NEW l, NEW n
  PROVE  /\ NewGaps(v, l, n) \subseteq Scan(v)
         /\ NewPending(v, l, n) \subseteq Scan(v)
         /\ Completed(v, l, n) \subseteq Scan(v)
<1>1. BeforeRecent(v, l) \subseteq Scan(v)
  BY DEF BeforeRecent
<1>2. Uncovered(v, l, n) \subseteq Scan(v)
  BY <1>1 DEF Uncovered
<1>3. \A s \in GapSegments(v, l, n) : s \subseteq Uncovered(v, l, n)
  BY DEF GapSegments, Segments
<1>4. NewGaps(v, l, n) \subseteq Scan(v)
  BY <1>2, <1>3 DEF NewGaps
<1>5. NewPending(v, l, n) \subseteq Scan(v)
  BY <1>2 DEF NewPending
<1> QED BY <1>4, <1>5 DEF Completed


\* The bounds hold at the start.
LEMMA InitBounded ==
  ASSUME CollectorAssumption, Init
  PROVE  IInv
<1>1. BackfillDays \in Nat /\ MaxDay \in Nat /\ BackfillDays <= MaxDay
  BY DEF CollectorAssumption
<1>2. gone \in SUBSET SUBSET Days
  BY DEF Init, CollectorAssumption
<1>3. TypeOK
  BY <1>1, <1>2 DEF Init, TypeOK, NoView, Days
<1>4. FreshView
  BY DEF Init, FreshView
<1>5. Bounded
  BY <1>1 DEF Init, Bounded, ViewBounded, TargetAhead, NoView
<1> QED BY <1>3, <1>4, <1>5 DEF IInv

\* A round reads the check point under the lock.
LEMMA BeginKeeps ==
  ASSUME CollectorAssumption, IInv, NEW r \in Runners, Begin(r)
  PROVE  IInv'
<1>1. today \in Int /\ BackfillDays \in Int /\ BackfillDays <= today
  BY DEF CollectorAssumption, IInv, TypeOK, Bounded, Days
<1>2. TypeOK'
  BY DEF IInv, TypeOK, Begin, db
<1>3. FreshView'
  BY DEF IInv, TypeOK, FreshView, Begin, db, Backfill, CollectorAssumption
<1>4. Bounded'
  <2>1. \A q \in Runners : ViewBounded(q)'
    <3> TAKE q \in Runners
    <3>1. CASE q = r
      BY <3>1, <1>1 DEF IInv, TypeOK, Bounded, ViewBounded, Begin, db, Reached, Backfill
    <3>2. CASE q # r
      BY <3>2 DEF IInv, TypeOK, Bounded, ViewBounded, Begin, db, Reached, Backfill
    <3> QED BY <3>1, <3>2
  <2>2. TargetAhead'
    BY <1>1 DEF IInv, TypeOK, Bounded, TargetAhead, Begin, db, Reached
  <2> QED BY <2>1, <2>2 DEF IInv, Bounded, Begin, db, Reached
<1> QED BY <1>2, <1>3, <1>4 DEF IInv

\* The first window is stored before the first request.
LEMMA LoadKeeps ==
  ASSUME CollectorAssumption, IInv, NEW r \in Runners, Load(r)
  PROVE  IInv'
<1> DEFINE v == view[r]
           fresh == [start |-> v.target - BackfillDays, target |-> v.target,
                     pending |-> (v.target - BackfillDays)..v.target]
           stored == [fresh EXCEPT !.pending = @ \ {v.target}]
<1>1. /\ today \in Int /\ BackfillDays \in Nat /\ BackfillDays <= today
      /\ MaxDay \in Nat /\ today <= MaxDay
  BY DEF CollectorAssumption, IInv, TypeOK, Bounded, Days
<1>2. v.target \in Int /\ BackfillDays <= v.target /\ v.target <= today
  BY <1>1 DEF IInv, TypeOK, Bounded, ViewBounded, Reached, Load
<1>3. fresh \in Recoveries /\ stored \in Recoveries
  BY <1>1, <1>2 DEF Recoveries, Days
<1>4. fresh # NoRecovery /\ stored # NoRecovery
  BY <1>3 DEF CollectorAssumption
<1>5. /\ stored.start = fresh.start /\ stored.target = fresh.target
      /\ Reached(fresh.target)
  BY <1>1, <1>2 DEF Reached
<1> HIDE DEF fresh, stored
<1>6. \/ /\ Backfill(v) /\ recovery = NoRecovery
         /\ view' = [view EXCEPT ![r].recovery = fresh]
         /\ recovery' = stored
      \/ /\ ~(Backfill(v) /\ recovery = NoRecovery)
         /\ view' = [view EXCEPT ![r].recovery = IF Backfill(v) THEN recovery
                                                 ELSE NoRecovery]
         /\ recovery' = recovery
  BY DEF Load, fresh, stored
<1>7. /\ pc' = [pc EXCEPT ![r] = "fetch"] /\ lock = r
      /\ UNCHANGED <<today, gone, lock, checked, gaps, covered, seen>>
  BY DEF Load
<1>8. TypeOK'
  BY <1>3, <1>6, <1>7 DEF IInv, TypeOK
<1>9. /\ view'[r].checked = view[r].checked /\ view'[r].target = view[r].target
      /\ \A q \in Runners : q # r => view'[q] = view[q] /\ pc'[q] = pc[q]
      /\ pc'[r] = "fetch"
  BY <1>6, <1>7 DEF IInv, TypeOK
<1>10. Backfill(v) => /\ view'[r].recovery # NoRecovery
                      /\ recovery' # NoRecovery
                      /\ recovery'.start = view'[r].recovery.start
                      /\ recovery'.target = view'[r].recovery.target
  BY <1>4, <1>5, <1>6 DEF IInv, TypeOK
<1>11. pc[r] = "load"
  BY DEF Load
<1>12. FreshView'
  BY <1>7, <1>9, <1>10, <1>11 DEF IInv, FreshView, Backfill
<1>13. view'[r].recovery # NoRecovery => Reached(view'[r].recovery.target)
  BY <1>5, <1>6 DEF IInv, TypeOK, Bounded
<1>14. recovery' # NoRecovery => Reached(recovery'.target)
  BY <1>5, <1>6 DEF IInv, Bounded
<1>15. \A q \in Runners : ViewBounded(q)'
  <2> TAKE q \in Runners
  <2>1. CASE q = r
    BY <2>1, <1>7, <1>9, <1>10, <1>11, <1>13
    DEF IInv, Bounded, ViewBounded, Reached, Backfill
  <2>2. CASE q # r
    BY <2>2, <1>7, <1>9 DEF IInv, Bounded, ViewBounded, Reached, Backfill
  <2> QED BY <2>1, <2>2
<1>16. TargetAhead'
  BY <1>7, <1>9, <1>11 DEF IInv, Bounded, TargetAhead
<1>17. Bounded'
  BY <1>7, <1>14, <1>15, <1>16 DEF IInv, Bounded, Reached
<1> QED BY <1>8, <1>12, <1>17 DEF IInv

\* Leaving clears the view and frees the lock.
LEMMA LeaveShape ==
  ASSUME CollectorAssumption, TypeOK, NEW r \in Runners, Leave(r)
  PROVE  /\ today' = today /\ gone' = gone
         /\ pc' \in [Runners -> {"idle", "load", "fetch"}]
         /\ pc'[r] = "idle"
         /\ view'[r] = NoView
         /\ \A q \in Runners : q # r => pc'[q] = pc[q] /\ view'[q] = view[q]
         /\ lock' = IF lock = r THEN NoRunner ELSE lock
         /\ view' \in [Runners -> [checked : Days \cup {NoDay},
                                   recovery : Recoveries \cup {NoRecovery},
                                   target : Days]]
<1>1. NoView \in [checked : Days \cup {NoDay},
                  recovery : Recoveries \cup {NoRecovery}, target : Days]
  BY DEF CollectorAssumption, NoView, Days
<1> QED BY <1>1 DEF Leave, TypeOK

\* After a runner has left, what it worked from needs no more care.
LEMMA LeaveBounds ==
  ASSUME CollectorAssumption, IInv, NEW r \in Runners, Leave(r)
  PROVE  \A q \in Runners : ViewBounded(q)'
<1>1. /\ today' = today /\ pc'[r] = "idle" /\ view'[r] = NoView
      /\ \A q \in Runners : q # r => pc'[q] = pc[q] /\ view'[q] = view[q]
  BY LeaveShape DEF IInv
<1> TAKE q \in Runners
<1>2. CASE q = r
  BY <1>1, <1>2 DEF ViewBounded, NoView
<1>3. CASE q # r
  BY <1>1, <1>3 DEF IInv, Bounded, ViewBounded, Reached, Backfill
<1> QED BY <1>2, <1>3

\* The outcome of a fetch that commits.
LEMMA CommitOutcome ==
  ASSUME CollectorAssumption, IInv, NEW r \in Runners, NEW l, NEW n, Commit(r, l, n)
  PROVE  /\ checked' \in Days \cup {NoDay}
         /\ recovery' \in Recoveries \cup {NoRecovery}
         /\ gaps' \subseteq Days /\ covered' \subseteq Days /\ seen' \subseteq Days
         /\ checked' # NoDay => Reached(checked')
         /\ recovery' # NoRecovery => Reached(recovery'.target)
<1> DEFINE v == view[r]
<1>1. pc[r] = "fetch" /\ lock = r
  BY DEF Commit
<1>2. /\ Scan(v) \subseteq Days /\ NewGaps(v, l, n) \subseteq Days
      /\ NewPending(v, l, n) \subseteq Days /\ Completed(v, l, n) \subseteq Days
  BY <1>1, ScanInDays, OutcomeInScan
<1>3. v.target \in Days /\ Reached(v.target)
  BY <1>1 DEF IInv, TypeOK, Bounded, ViewBounded
<1>4. Backfill(v) => v.recovery \in Recoveries /\ Reached(v.recovery.target)
  BY <1>1 DEF IInv, TypeOK, Bounded, ViewBounded
<1>5. /\ checked \in Days \cup {NoDay} /\ recovery \in Recoveries \cup {NoRecovery}
      /\ gaps \subseteq Days /\ covered \subseteq Days /\ seen \subseteq Days
      /\ checked # NoDay => Reached(checked)
      /\ recovery # NoRecovery => Reached(recovery.target)
  BY DEF IInv, TypeOK, Bounded
<1>6. seen' = seen \cup Completed(v, l, n)
  BY DEF Commit
<1>7. \A P \in SUBSET Days : Backfill(v) =>
        /\ [v.recovery EXCEPT !.pending = P] \in Recoveries
        /\ [v.recovery EXCEPT !.pending = P].target = v.recovery.target
  BY <1>4 DEF Recoveries
<1>8. {} \subseteq Days
  OBVIOUS
<1> HIDE DEF v
<1>9. CASE Complete(r, l, n)
  <2>1. Backfill(v) => v.recovery.start..v.recovery.target \subseteq Days
    BY <1>4 DEF Recoveries, Days, CollectorAssumption
  <2>2. checked' = IF Backfill(v) THEN v.recovery.target ELSE v.target
    BY <1>9 DEF Complete, v
  <2>3. covered' = covered \cup (IF Backfill(v)
                                 THEN v.recovery.start..v.recovery.target ELSE Scan(v))
    BY <1>9 DEF Complete, v
  <2>4. recovery' = (IF Backfill(v) THEN NoRecovery ELSE recovery) /\ gaps' = gaps
    BY <1>9 DEF Complete, v
  <2>5. Backfill(v) => v.recovery.target \in Days
    BY <1>4 DEF Recoveries
  <2> QED BY <1>2, <1>3, <1>4, <1>5, <1>6, <2>1, <2>2, <2>3, <2>4, <2>5
<1>10. CASE OnlyGapsLeft(r, l, n)
  <2>1. /\ gaps' = gaps \cup NewGaps(v, l, n)
        /\ covered' = covered \cup Completed(v, l, n) /\ checked' = checked
        /\ recovery' = IF Backfill(v) THEN [v.recovery EXCEPT !.pending = {}]
                       ELSE recovery
    BY <1>10 DEF OnlyGapsLeft, v
  <2> QED BY <1>2, <1>4, <1>5, <1>6, <1>7, <1>8, <2>1
<1>11. CASE PendingLeft(r, l, n)
  <2>1. /\ gaps' = gaps /\ covered' = covered /\ checked' = checked
        /\ recovery' = IF Backfill(v)
                       THEN [v.recovery EXCEPT !.pending = NewPending(v, l, n)]
                       ELSE recovery
    BY <1>11 DEF PendingLeft, v
  <2> QED BY <1>2, <1>4, <1>5, <1>6, <1>7, <2>1
<1> QED BY <1>9, <1>10, <1>11 DEF Commit

\* A commit keeps the invariant.
LEMMA CommitKeeps ==
  ASSUME CollectorAssumption, IInv, NEW r \in Runners, NEW l, NEW n, Commit(r, l, n)
  PROVE  IInv'
<1>1. lock = r /\ Leave(r)
  BY DEF Commit
<1>2. lock' = NoRunner /\ NoRunner \notin Runners /\ today' = today /\ gone' = gone
  BY <1>1, LeaveShape DEF IInv, CollectorAssumption
<1>3. TypeOK'
  BY <1>1, <1>2, LeaveShape, CommitOutcome DEF IInv, TypeOK
<1>4. FreshView' /\ TargetAhead'
  BY <1>2 DEF FreshView, TargetAhead
<1>5. Bounded'
  BY <1>1, <1>2, <1>4, LeaveBounds, CommitOutcome DEF IInv, Bounded, Reached
<1> QED BY <1>3, <1>4, <1>5 DEF IInv

\* A failed check keeps it.
LEMMA FailKeeps ==
  ASSUME CollectorAssumption, IInv, NEW r \in Runners, Fail(r)
  PROVE  IInv'
<1>1. lock = r /\ pc[r] = "fetch" /\ Leave(r)
      /\ recovery' = (IF Backfill(view[r]) THEN view[r].recovery ELSE recovery)
      /\ UNCHANGED <<checked, gaps, covered, seen>>
  BY DEF Fail
<1>2. lock' = NoRunner /\ NoRunner \notin Runners /\ today' = today /\ gone' = gone
  BY <1>1, LeaveShape DEF IInv, CollectorAssumption
<1>3. TypeOK'
  BY <1>1, <1>2, LeaveShape DEF IInv, TypeOK
<1>4. FreshView' /\ TargetAhead'
  BY <1>2 DEF FreshView, TargetAhead
<1>5. recovery' # NoRecovery => Reached(recovery'.target)
  BY <1>1 DEF IInv, Bounded, ViewBounded
<1>6. Bounded'
  BY <1>1, <1>2, <1>4, <1>5, LeaveBounds DEF IInv, Bounded, Reached
<1> QED BY <1>3, <1>4, <1>6 DEF IInv

\* So does a lost session.
LEMMA LoseSessionKeeps ==
  ASSUME CollectorAssumption, IInv, NEW r \in Runners, LoseSession(r)
  PROVE  IInv'
<1>1. lock' = NoRunner /\ NoRunner \notin Runners
      /\ UNCHANGED <<today, gone, pc, view, db>>
  BY DEF LoseSession, CollectorAssumption
<1>2. TypeOK'
  BY <1>1 DEF IInv, TypeOK, db
<1>3. FreshView' /\ TargetAhead'
  BY <1>1 DEF FreshView, TargetAhead
<1>4. Bounded'
  BY <1>1, <1>3 DEF IInv, Bounded, ViewBounded, Reached, Backfill, db
<1> QED BY <1>2, <1>3, <1>4 DEF IInv

\* So does a round that is broken off.
LEMMA AbortKeeps ==
  ASSUME CollectorAssumption, IInv, NEW r \in Runners, Abort(r)
  PROVE  IInv'
<1>1. lock # r /\ Leave(r) /\ UNCHANGED db
  BY DEF Abort
<1>2. /\ lock' = lock /\ today' = today /\ gone' = gone
      /\ \A q \in Runners : q # r => pc'[q] = pc[q] /\ view'[q] = view[q]
  BY <1>1, LeaveShape DEF IInv
<1>3. TypeOK'
  BY <1>1, <1>2, LeaveShape DEF IInv, TypeOK, db
<1>4. FreshView'
  BY <1>1, <1>2 DEF IInv, FreshView, db, Backfill
<1>5. TargetAhead'
  BY <1>1, <1>2 DEF IInv, Bounded, TargetAhead, db
<1>6. Bounded'
  BY <1>1, <1>2, <1>5, LeaveBounds DEF IInv, Bounded, Reached, db
<1> QED BY <1>3, <1>4, <1>6 DEF IInv

\* So does a new day.
LEMMA NewDayKeeps ==
  ASSUME CollectorAssumption, IInv, NewDay
  PROVE  IInv'
<1>1. /\ today' = today + 1 /\ today < MaxDay /\ today \in Nat /\ MaxDay \in Nat
      /\ BackfillDays \in Nat /\ UNCHANGED <<gone, lock, pc, view, db>>
  BY DEF NewDay, CollectorAssumption, IInv, TypeOK, Days
<1>2. TypeOK'
  BY <1>1 DEF IInv, TypeOK, db, Days
<1>3. FreshView'
  BY <1>1 DEF IInv, FreshView, db, Backfill
<1>4. \A d : Reached(d) => Reached(d)'
  BY <1>1 DEF Reached
<1>5. \A q \in Runners : ViewBounded(q)'
  BY <1>1 DEF IInv, Bounded, ViewBounded, Backfill, Reached
<1>6. Bounded'
  BY <1>1, <1>5 DEF IInv, Bounded, TargetAhead, Reached, db
<1> QED BY <1>2, <1>3, <1>6 DEF IInv

\* Every step keeps the invariant.
LEMMA StepKeeps ==
  ASSUME CollectorAssumption, IInv, [Next]_vars
  PROVE  IInv'
<1>1. CASE UNCHANGED vars
  BY <1>1 DEF vars, db, IInv, TypeOK, FreshView, Bounded, ViewBounded, TargetAhead,
              Reached, Backfill
<1>2. CASE NewDay
  BY <1>2, NewDayKeeps
<1>3. ASSUME NEW r \in Runners, Begin(r) PROVE IInv'
  BY <1>3, BeginKeeps
<1>4. ASSUME NEW r \in Runners, Load(r) PROVE IInv'
  BY <1>4, LoadKeeps
<1>5. ASSUME NEW r \in Runners, Fetch(r) PROVE IInv'
  BY <1>5, CommitKeeps DEF Fetch
<1>6. ASSUME NEW r \in Runners, Fail(r) PROVE IInv'
  BY <1>6, FailKeeps
<1>7. ASSUME NEW r \in Runners, LoseSession(r) PROVE IInv'
  BY <1>7, LoseSessionKeeps
<1>8. ASSUME NEW r \in Runners, Abort(r) PROVE IInv'
  BY <1>8, AbortKeeps
<1> QED BY <1>1, <1>2, <1>3, <1>4, <1>5, <1>6, <1>7, <1>8 DEF Next

-----------------------------------------------------------------------------
\* The inductive invariant.
THEOREM CollectorInv == Spec => []IInv
<1>1. Init => IInv
  BY InitBounded, CollectorAssumption
<1>2. IInv /\ [Next]_vars => IInv'
  BY StepKeeps, CollectorAssumption
<1> QED BY <1>1, <1>2, PTL DEF Spec

\* The collector's state keeps its shape: windows, gaps and covered days stay
\* in the calendar (_sync_sec_source).
THEOREM CollectorTyping == Spec => []TypeOK
<1>1. IInv => TypeOK
  BY DEF IInv
<1> QED BY <1>1, CollectorInv, PTL

\* A round that still holds the round lock works from what the database
\* holds (RoundLock, run_round).
THEOREM RoundsReadFresh == Spec => []FreshView
<1>1. IInv => FreshView
  BY DEF IInv
<1> QED BY <1>1, CollectorInv, PTL

-----------------------------------------------------------------------------
\* Only a fetch that commits changes the check point, gaps or covered days.
LEMMA OnlyCommitsMove ==
  ASSUME [Next]_vars
  PROVE  \/ checked' = checked /\ gaps' = gaps /\ covered' = covered
         \/ \E r \in Runners : Fetch(r)
BY DEF Next, vars, db, NewDay, Begin, Load, Fail, LoseSession, Abort

\* The check point moves only when no gap is open before or after the round
\* (the first branch of _sync_sec_source's three outcomes).
THEOREM CheckpointWaitsForGaps == Spec => CheckpointStopsAtGaps
<1>1. ASSUME [Next]_vars, checked' # checked
      PROVE  gaps = {} /\ gaps' = {}
  <2>1. PICK r \in Runners : Fetch(r)
    BY <1>1, OnlyCommitsMove
  <2>2. PICK l \in Listings : \E n : Commit(r, l, n)
    BY <2>1 DEF Fetch
  <2>3. PICK n : Complete(r, l, n)
    BY <1>1, <2>2 DEF Commit, OnlyGapsLeft, PendingLeft
  <2> QED BY <2>3 DEF Complete
<1>2. [Next]_vars => [checked' # checked => gaps = {} /\ gaps' = {}]_vars
  BY <1>1 DEF vars
<1> QED BY <1>2, PTL DEF Spec, CheckpointStopsAtGaps

\* No round, whatever fails in it, takes the check point back, drops a gap or
\* a covered day (upsert_check_state_success, record_gap, append_covered_ranges).
THEOREM ProgressIsKept == Spec => ProgressKept
<1> DEFINE Kept == /\ checked # NoDay => checked' # NoDay /\ checked' >= checked
                   /\ gaps \subseteq gaps'
                   /\ covered \subseteq covered'
<1>1. ASSUME CollectorAssumption, IInv, [Next]_vars
      PROVE  Kept
  <2>1. checked # NoDay => checked >= checked
    BY <1>1 DEF IInv, TypeOK, Days, CollectorAssumption
  <2>2. CASE checked' = checked /\ gaps' = gaps /\ covered' = covered
    BY <2>1, <2>2
  <2>3. ASSUME NEW r \in Runners, NEW l \in Listings, NEW n, Commit(r, l, n)
        PROVE  Kept
    <3>1. lock = r /\ pc[r] = "fetch"
      BY <2>3 DEF Commit
    <3>2. view[r].checked = checked
      BY <1>1, <3>1 DEF IInv, FreshView, Backfill
    <3>3. CASE OnlyGapsLeft(r, l, n) \/ PendingLeft(r, l, n)
      <4>1. checked' = checked /\ gaps \subseteq gaps' /\ covered \subseteq covered'
        BY <3>3 DEF OnlyGapsLeft, PendingLeft
      <4> QED BY <2>1, <4>1
    <3>4. CASE Complete(r, l, n)
      <4>1. gaps' = gaps /\ covered \subseteq covered'
        BY <3>4 DEF Complete
      <4>2. ASSUME checked # NoDay PROVE checked' # NoDay /\ checked' >= checked
        <5>1. checked' = view[r].target
          BY <3>2, <3>4, <4>2 DEF Complete, Backfill
        <5>2. checked <= view[r].target
          BY <1>1, <3>1, <4>2 DEF IInv, Bounded, TargetAhead
        <5>3. checked \in Days /\ view[r].target \in Days
          BY <1>1, <3>1, <4>2 DEF IInv, TypeOK
        <5> QED BY <1>1, <5>1, <5>2, <5>3 DEF Days, CollectorAssumption
      <4> QED BY <4>1, <4>2
    <3> QED BY <2>3, <3>3, <3>4 DEF Commit
  <2> QED BY <1>1, <2>2, <2>3, OnlyCommitsMove DEF Fetch
<1>2. IInv /\ [Next]_vars => [Kept]_vars
  BY <1>1, CollectorAssumption
<1> QED BY <1>2, CollectorInv, PTL DEF Spec, ProgressKept

\* The window of a first backfill never rolls: it is stored before the first
\* request and goes only when the check point has reached its end.
THEOREM WindowIsFixed == Spec => BackfillWindowFixed
<1> DEFINE Fixed == recovery # NoRecovery =>
                      \/ recovery' = NoRecovery /\ checked' = recovery.target
                      \/ /\ recovery' # NoRecovery
                         /\ recovery'.start = recovery.start
                         /\ recovery'.target = recovery.target
<1>1. ASSUME CollectorAssumption, IInv, [Next]_vars
      PROVE  Fixed
  <2>1. CASE recovery' = recovery
    BY <2>1
  <2>2. ASSUME NEW r \in Runners, Load(r) PROVE Fixed
    BY <2>2 DEF Load
  <2>3. ASSUME NEW r \in Runners, lock = r, pc[r] = "fetch", Backfill(view[r]),
               recovery # NoRecovery
        PROVE  /\ view[r].recovery \in Recoveries
               /\ recovery.start = view[r].recovery.start
               /\ recovery.target = view[r].recovery.target
    BY <1>1, <2>3 DEF IInv, TypeOK, FreshView, Bounded, ViewBounded
  <2>4. ASSUME NEW r \in Runners, Fail(r) PROVE Fixed
    <3>1. recovery' = (IF Backfill(view[r]) THEN view[r].recovery ELSE recovery)
          /\ lock = r /\ pc[r] = "fetch"
      BY <2>4 DEF Fail
    <3> QED BY <1>1, <2>3, <3>1 DEF CollectorAssumption
  <2>5. ASSUME NEW r \in Runners, NEW l \in Listings, NEW n, Commit(r, l, n)
        PROVE  Fixed
    <3>1. lock = r /\ pc[r] = "fetch"
      BY <2>5 DEF Commit
    <3>2. CASE ~Backfill(view[r])
      BY <2>5, <3>2 DEF Commit, Complete, OnlyGapsLeft, PendingLeft
    <3>3. CASE Complete(r, l, n) /\ Backfill(view[r])
      BY <2>3, <3>1, <3>3 DEF Complete
    <3>4. ASSUME Backfill(view[r]), recovery # NoRecovery, NEW P \in SUBSET Days,
                 recovery' = [view[r].recovery EXCEPT !.pending = P]
          PROVE  Fixed
      <4>1. /\ recovery' \in Recoveries
            /\ recovery'.start = view[r].recovery.start
            /\ recovery'.target = view[r].recovery.target
        BY <2>3, <3>1, <3>4 DEF Recoveries
      <4> QED BY <1>1, <2>3, <3>1, <3>4, <4>1 DEF CollectorAssumption
    <3>5. CASE OnlyGapsLeft(r, l, n) /\ Backfill(view[r])
      <4>1. recovery' = [view[r].recovery EXCEPT !.pending = {}]
        BY <3>5 DEF OnlyGapsLeft
      <4> QED BY <3>4, <3>5, <4>1
    <3>6. CASE PendingLeft(r, l, n) /\ Backfill(view[r])
      <4>1. recovery' = [view[r].recovery EXCEPT !.pending = NewPending(view[r], l, n)]
        BY <3>6 DEF PendingLeft
      <4>2. NewPending(view[r], l, n) \subseteq Days
        BY <1>1, <3>1, ScanInDays, OutcomeInScan
      <4> QED BY <3>4, <3>6, <4>1, <4>2
    <3> QED BY <2>5, <3>2, <3>3, <3>5, <3>6 DEF Commit
  <2> QED BY <1>1, <2>1, <2>2, <2>4, <2>5
          DEF Next, vars, db, NewDay, Begin, Fetch, LoseSession, Abort
<1>2. IInv /\ [Next]_vars => [Fixed]_vars
  BY <1>1, CollectorAssumption
<1> QED BY <1>2, CollectorInv, PTL DEF Spec, BackfillWindowFixed
-----------------------------------------------------------------------------
(* What is covered was fetched, and what is a gap cannot be                *)

\* Every page of the directory is served.
EveryPageServed == GonePages \subseteq {{}}

\* The directory leaves no day out before the recent segment.
NoHoles ==
  \A l \in Listings : l.files # {} =>
    \A d \in Days : d < l.recentMin => d \in UNION l.files

\* What a round that leaves pages pending would have to give up besides is
\* recorded nowhere (sync.py, the branch on pending ranges comes first); here
\* no round has both.
NeverBoth == ~MayCut \/ (EveryPageServed /\ NoHoles)

\* Every directory that is not empty lists the same days.
Agreeing == \A l \in Listings : l.files # {} => UNION l.files = Listed

\* Every day of a window is stored or will be scanned when the window is
\* resumed: from the first pending day on, or from the overlap on.
Resumes(rec) ==
  \A d \in rec.start..rec.target :
    \/ d \in seen
    \/ IF rec.pending # {} THEN \E p \in rec.pending : p <= d
       ELSE d >= rec.target - Overlap

\* As long as there is no gap a window can be resumed, the stored one and any
\* a round works from, its session lost or not.
Resumable ==
  gaps = {} =>
    /\ recovery # NoRecovery => Resumes(recovery)
    /\ \A r \in Runners : pc[r] = "fetch" /\ Backfill(view[r]) =>
         Resumes(view[r].recovery)

\* The day a round began is not before the end of the window.
WindowAhead ==
  \A r \in Runners : lock = r /\ pc[r] # "idle" /\ recovery # NoRecovery =>
    recovery.target <= view[r].target

\* The invariant behind CoveredIsSeen.
SInv == gone \in GonePages /\ WindowAhead /\ Resumable /\ CoveredIsSeen

\* A nonempty set of days has a least and a greatest one.
LEMMA LeastDay ==
  ASSUME CollectorAssumption, NEW S \in SUBSET Days, S # {}
  PROVE  Least(S) \in S /\ \A y \in S : Least(S) <= y
<1>1. S \subseteq Nat
  BY DEF Days
<1>2. PICK n \in S : \A y \in S : ~ (<<y, n>> \in OpToRel(<, Nat))
  BY <1>1, NatLessThanWellFounded, WFMin
<1>3. ASSUME NEW y \in S PROVE n <= y
  <2>1. SUFFICES ASSUME y < n PROVE FALSE
    BY <1>1
  <2>2. <<y, n>> \in Nat \X Nat /\ <<y, n>>[1] < <<y, n>>[2]
    BY <1>1, <2>1
  <2>3. <<y, n>> \in OpToRel(<, Nat)
    BY <2>2, Zenon DEF OpToRel
  <2> QED
    BY <1>2, <2>3
<1> QED
  BY <1>3 DEF Least

LEMMA GreatestDay ==
  ASSUME CollectorAssumption, NEW S \in SUBSET Days, S # {}
  PROVE  Greatest(S) \in S /\ \A y \in S : Greatest(S) >= y
<1> DEFINE T == {MaxDay - x : x \in S}
<1>1. MaxDay \in Nat /\ Days = 0..MaxDay
  BY DEF CollectorAssumption, Days
<1>2. T \in SUBSET Days /\ T # {}
  <2>1. ASSUME NEW x \in S PROVE MaxDay - x \in Days
    <3>1. x \in 0..MaxDay
      BY <1>1
    <3> QED BY <1>1, <3>1
  <2> QED BY <2>1
<1>3. Least(T) \in T /\ \A y \in T : Least(T) <= y
  <2> HIDE DEF T
  <2> QED BY <1>2, LeastDay
<1>4. PICK x \in S : Least(T) = MaxDay - x
  BY <1>3
<1>5. ASSUME NEW y \in S PROVE x >= y
  <2>1. x \in 0..MaxDay /\ y \in 0..MaxDay
    BY <1>1
  <2>2. MaxDay - x <= MaxDay - y
    BY <1>3, <1>4
  <2> QED BY <1>1, <2>1, <2>2
<1> QED BY <1>5 DEF Greatest

\* Every day of a set lies in one of its maximal runs.
LEMMA InSegment ==
  ASSUME CollectorAssumption, NEW S \in SUBSET Days, NEW d \in S
  PROVE  \E s \in Segments(S) : d \in s
<1>1. Days \subseteq Int
  BY DEF Days
<1> DEFINE Low == {a \in S : a <= d /\ a..d \subseteq S}
           High == {b \in S : d <= b /\ d..b \subseteq S}
<1>2. d \in Low /\ d \in High /\ Low \in SUBSET Days /\ High \in SUBSET Days
  <2>1. d \in Int
    BY <1>1
  <2>2. d <= d /\ d..d = {d}
    BY <2>1
  <2>3. d..d \subseteq S
    BY <2>2
  <2> QED BY <2>2, <2>3
<1>3. Least(Low) \in Low /\ \A y \in Low : Least(Low) <= y
  <2> HIDE DEF Low
  <2> QED BY <1>2, LeastDay
<1>4. Greatest(High) \in High /\ \A y \in High : Greatest(High) >= y
  <2> HIDE DEF High
  <2> QED BY <1>2, GreatestDay
<1> DEFINE lo == Least(Low)
           hi == Greatest(High)
           seg == lo..hi
<1>5. /\ lo \in S /\ lo \in Int /\ lo <= d /\ lo..d \subseteq S
      /\ \A y \in S : y <= d /\ y..d \subseteq S => lo <= y
  BY <1>1, <1>3
<1>6. /\ hi \in S /\ hi \in Int /\ d <= hi /\ d..hi \subseteq S
      /\ \A y \in S : d <= y /\ d..y \subseteq S => hi >= y
  BY <1>1, <1>4
<1> HIDE DEF lo, hi
<1>7. d \in Int /\ d \in seg /\ seg \subseteq S
  <2>1. \A x \in seg : x \in lo..d \/ x \in d..hi
    BY <1>1, <1>5, <1>6
  <2> QED BY <1>1, <1>5, <1>6, <2>1
<1>8. lo - 1 \notin S
  <2> SUFFICES ASSUME lo - 1 \in S PROVE FALSE
    OBVIOUS
  <2>1. \A x \in (lo - 1)..d : x = lo - 1 \/ x \in lo..d
    BY <1>5, <1>7
  <2>2. (lo - 1)..d \subseteq S /\ lo - 1 <= d
    BY <1>5, <1>7, <2>1
  <2> QED BY <1>5, <2>2
<1>9. hi + 1 \notin S
  <2> SUFFICES ASSUME hi + 1 \in S PROVE FALSE
    OBVIOUS
  <2>1. \A x \in d..(hi + 1) : x = hi + 1 \/ x \in d..hi
    BY <1>6, <1>7
  <2>2. d..(hi + 1) \subseteq S /\ d <= hi + 1
    BY <1>6, <1>7, <2>1
  <2> QED BY <1>6, <2>2
<1>10. Least(seg) = lo /\ Greatest(seg) = hi
  <2>1. lo \in seg /\ hi \in seg /\ seg \subseteq Int
    BY <1>5, <1>6, <1>7
  <2>2. \A x \in seg : lo <= x /\ x <= hi
    BY <1>5, <1>6
  <2>3. seg \in SUBSET Days /\ seg # {}
    BY <1>7
  <2>4. Least(seg) \in seg /\ Least(seg) <= lo /\ Greatest(seg) \in seg /\ Greatest(seg) >= hi
    <3> HIDE DEF seg
    <3> QED BY <2>1, <2>3, LeastDay, GreatestDay
  <2> QED BY <1>5, <1>6, <2>1, <2>2, <2>4
<1>11. seg \in {a..b : a \in S, b \in S}
  BY <1>5, <1>6
<1>12. seg # {}
  BY <1>7
<1> QED
  <2> HIDE DEF seg
  <2>1. Least(seg) - 1 \notin S /\ Greatest(seg) + 1 \notin S
    BY <1>8, <1>9, <1>10
  <2>2. seg \in Segments(S)
    BY <1>7, <1>11, <1>12, <2>1 DEF Segments
  <2> QED BY <1>7, <2>2

\* A scan that is not cut asks for every page it wants.
LEMMA AllAsked ==
  ASSUME CollectorAssumption, NEW l \in Listings, NEW v
  PROVE  Asked(v, l, Cardinality(Wanted(v, l))) = Wanted(v, l)
<1> DEFINE W == Wanted(v, l)
<1>1. MaxDay \in Nat /\ l.files \subseteq SUBSET Days
  BY DEF CollectorAssumption
<1>2. W \subseteq SUBSET Days /\ {} \notin W
  BY <1>1 DEF Wanted, Meets
<1>3. IsFiniteSet(W)
  <2>1. IsFiniteSet(SUBSET Days)
    <3>1. IsFiniteSet(0..MaxDay)
      BY <1>1, FS_Interval
    <3> QED BY <3>1, FS_SUBSET DEF Days
  <2> HIDE DEF W
  <2> QED BY <1>2, <2>1, FS_Subset
<1>4. ASSUME NEW p \in W
      PROVE  Cardinality({q \in W : Least(q) < Least(p)}) < Cardinality(W)
  <2> DEFINE E == {q \in W : Least(q) < Least(p)}
  <2>1. p \in SUBSET Days /\ p # {}
    BY <1>2, <1>4
  <2>2. Least(p) \in Int
    <3>1. Least(p) \in p
      BY <2>1, LeastDay
    <3>2. Days \subseteq Int
      BY DEF Days
    <3> QED BY <2>1, <3>1, <3>2
  <2>3. p \notin E /\ E \in SUBSET W
    BY <2>2
  <2> HIDE DEF E, W
  <2>4. IsFiniteSet(E) /\ Cardinality(E) <= Cardinality(W) /\ E # W
        /\ (Cardinality(W) = Cardinality(E) => W = E)
    BY <1>3, <1>4, <2>3, FS_Subset
  <2>5. Cardinality(E) < Cardinality(W)
    BY <1>3, <2>4, FS_CardinalityType
  <2> QED BY <2>5 DEF E
<1> QED BY <1>4 DEF Asked

\* The days a fetch does not cover are days of the calendar no page served
\* them, in the part before the recent segment.
LEMMA UncoveredDays ==
  ASSUME CollectorAssumption, IInv, NEW r \in Runners, NEW l \in Listings, NEW n,
         pc[r] = "fetch"
  PROVE  \A d \in Uncovered(view[r], l, n) :
           /\ d \in Days /\ d \in Scan(view[r])
           /\ l.files # {} /\ d \in BeforeRecent(view[r], l) /\ d < l.recentMin
           /\ d \notin gaps
           /\ \A p \in Asked(view[r], l, n) : d \in p => p \in gone
BY ScanInDays DEF Uncovered, BeforeRecent

\* A whole scan leaves nothing pending: what it does not cover lies in a page
\* that is missing or in none.
LEMMA WholeScanEnds ==
  ASSUME CollectorAssumption, IInv, NEW r \in Runners, NEW l \in Listings, NEW n,
         pc[r] = "fetch", n = Cardinality(Wanted(view[r], l))
  PROVE  NewPending(view[r], l, n) = {}
<1> DEFINE v == view[r]
           U == Uncovered(v, l, n)
<1>1. U \in SUBSET Days
  BY UncoveredDays
<1>2. ASSUME NEW d \in U PROVE d \in NewGaps(v, l, n)
  <2>1. PICK s \in Segments(U) : d \in s
    <3> HIDE DEF U
    <3> QED BY <1>1, <1>2, InSegment
  <2>2. s \subseteq U
    BY <2>1 DEF Segments
  <2>3. ASSUME NEW p \in l.files, Meets(p, s)
        PROVE  p \in Missing(v, l, n)
    <3>1. PICK x \in p : x \in U
      BY <2>2, <2>3 DEF Meets
    <3>2. p \in Wanted(v, l)
      BY <3>1, UncoveredDays DEF Wanted, Meets
    <3>3. p \in Asked(v, l, n)
      BY <3>2, AllAsked
    <3> QED BY <3>1, <3>3, UncoveredDays DEF Missing
  <2>4. s \in GapSegments(v, l, n)
    BY <2>1, <2>3 DEF GapSegments
  <2> QED BY <2>1, <2>4 DEF NewGaps
<1> QED BY <1>2 DEF NewPending

\* Where every page is served and no day left out, nothing is given up.
LEMMA ServedHasNoGaps ==
  ASSUME CollectorAssumption, IInv, NEW r \in Runners, NEW l \in Listings, NEW n,
         pc[r] = "fetch", gone = {}, NoHoles
  PROVE  NewGaps(view[r], l, n) = {}
<1> SUFFICES ASSUME NEW s \in GapSegments(view[r], l, n) PROVE FALSE
  BY DEF NewGaps
<1>1. Missing(view[r], l, n) = {}
  BY DEF Missing
<1>2. \A p \in l.files : ~Meets(p, s)
  BY <1>1 DEF GapSegments
<1>3. PICK d \in s : d \in Uncovered(view[r], l, n)
  BY DEF GapSegments, Segments
<1>4. d \in Days /\ l.files # {} /\ d < l.recentMin
  BY <1>3, UncoveredDays
<1>5. PICK p \in l.files : d \in p
  BY <1>4 DEF NoHoles
<1> QED BY <1>2, <1>3, <1>5 DEF Meets

\* Under the hypothesis no round leaves pages pending and gives others up.
LEMMA EitherEnd ==
  ASSUME CollectorAssumption, IInv, gone \in GonePages, NeverBoth,
         NEW r \in Runners, NEW l \in Listings, NEW n, Commit(r, l, n)
  PROVE  NewPending(view[r], l, n) = {} \/ NewGaps(view[r], l, n) = {}
<1>1. pc[r] = "fetch" /\ (MayCut \/ n = Cardinality(Wanted(view[r], l)))
  BY DEF Commit
<1>2. CASE ~MayCut
  BY <1>1, <1>2, WholeScanEnds
<1>3. CASE EveryPageServed /\ NoHoles
  BY <1>1, <1>3, ServedHasNoGaps DEF EveryPageServed
<1> QED BY <1>2, <1>3 DEF NeverBoth

\* A window that could be resumed can be so when more days are stored.
LEMMA ResumesMore ==
  ASSUME NEW rec, Resumes(rec), seen \subseteq seen'
  PROVE  \A d \in rec.start..rec.target :
           \/ d \in seen'
           \/ IF rec.pending # {} THEN \E p \in rec.pending : p <= d
              ELSE d >= rec.target - Overlap
BY DEF Resumes

\* A backfill scans every day of its window that is not stored yet.
LEMMA ScanResumes ==
  ASSUME CollectorAssumption, IInv, SInv, NEW r \in Runners, lock = r, pc[r] = "fetch",
         Backfill(view[r]), gaps = {}
  PROVE  \A d \in view[r].recovery.start..view[r].recovery.target :
           d \in seen \/ d \in Scan(view[r])
<1> DEFINE v == view[r]
           rec == v.recovery
<1>1. Resumes(rec)
  BY DEF SInv, Resumable
<1>2. /\ rec \in Recoveries /\ v.target \in Days /\ recovery # NoRecovery
      /\ recovery.target = rec.target
  BY DEF IInv, TypeOK, FreshView, Bounded, ViewBounded
<1>3. rec.target <= v.target
  BY <1>2 DEF SInv, WindowAhead
<1>4. rec.start \in Days /\ rec.target \in Days /\ rec.pending \subseteq Days
      /\ Days \subseteq Int /\ MaxDay \in Nat /\ Overlap \in Int
  BY <1>2 DEF Recoveries, Days, CollectorAssumption
<1> SUFFICES ASSUME NEW d \in rec.start..rec.target, d \notin seen
             PROVE  d \in Scan(v)
  OBVIOUS
<1>5. IF rec.pending # {} THEN \E p \in rec.pending : p <= d
      ELSE d >= rec.target - Overlap
  BY <1>1 DEF Resumes
<1>6. d \in Int /\ 0 <= d /\ d <= rec.target
  BY <1>4 DEF Days
<1>7. CASE rec.pending # {}
  <2>1. Scan(v) = {x \in 0..rec.target : \E p \in rec.pending : p <= x}
    BY <1>7 DEF Scan
  <2> HIDE DEF rec, v
  <2>2. d \in 0..rec.target
    BY <1>4, <1>6
  <2> QED BY <1>5, <1>7, <2>1, <2>2
<1>8. CASE rec.pending = {}
  <2>1. Scan(v) = (rec.target - Overlap)..v.target
    BY <1>8 DEF Scan
  <2>2. v.target \in Int /\ rec.target \in Int
    BY <1>2, <1>4
  <2> HIDE DEF rec, v
  <2> QED BY <1>3, <1>4, <1>5, <1>6, <1>8, <2>1, <2>2
<1> QED BY <1>7, <1>8

\* The invariant holds at the start.
LEMMA InitSeen ==
  ASSUME CollectorAssumption, Init
  PROVE  SInv
BY DEF Init, SInv, WindowAhead, Resumable, CoveredIsSeen

\* A round begins on a day the stored window has ended by.
LEMMA BeginSeen ==
  ASSUME CollectorAssumption, IInv, SInv, NEW r \in Runners, Begin(r)
  PROVE  SInv'
<1>1. /\ pc' = [pc EXCEPT ![r] = "load"] /\ lock' = r
      /\ view'[r].target = today
      /\ \A q \in Runners : q # r => view'[q] = view[q] /\ pc'[q] = pc[q]
      /\ gone' = gone /\ UNCHANGED db
  BY DEF Begin, IInv, TypeOK
<1>2. recovery # NoRecovery => recovery.target <= today
  BY DEF IInv, Bounded, Reached, TypeOK, Recoveries, Days, CollectorAssumption
<1>3. WindowAhead'
  BY <1>1, <1>2 DEF WindowAhead, db
<1>4. pc'[r] = "load"
  BY <1>1 DEF IInv, TypeOK
<1>5. Resumable'
  BY <1>1, <1>4 DEF SInv, Resumable, Resumes, Backfill, db
<1> QED BY <1>1, <1>3, <1>5 DEF SInv, CoveredIsSeen, db

\* A new window is pending from its first day on.
LEMMA LoadSeen ==
  ASSUME CollectorAssumption, IInv, SInv, NEW r \in Runners, Load(r)
  PROVE  SInv'
<1> DEFINE v == view[r]
           fresh == [start |-> v.target - BackfillDays, target |-> v.target,
                     pending |-> (v.target - BackfillDays)..v.target]
           stored == [fresh EXCEPT !.pending = @ \ {v.target}]
<1>1. /\ BackfillDays \in Nat /\ Overlap \in Nat
      /\ v.target \in Int /\ BackfillDays <= v.target
  BY DEF CollectorAssumption, IInv, TypeOK, Bounded, ViewBounded, Reached, Load, Days
<1>2. /\ pc[r] = "load" /\ lock = r /\ pc' = [pc EXCEPT ![r] = "fetch"]
      /\ UNCHANGED <<today, gone, lock, checked, gaps, covered, seen>>
  BY DEF Load
<1>3. /\ fresh.start = v.target - BackfillDays /\ fresh.target = v.target
      /\ fresh.pending = (v.target - BackfillDays)..v.target
      /\ stored.start = v.target - BackfillDays /\ stored.target = v.target
      /\ stored.pending = ((v.target - BackfillDays)..v.target) \ {v.target}
  OBVIOUS
<1> HIDE DEF fresh, stored
<1>4. \/ /\ Backfill(v) /\ recovery = NoRecovery
         /\ view' = [view EXCEPT ![r].recovery = fresh]
         /\ recovery' = stored
      \/ /\ view' = [view EXCEPT ![r].recovery = IF Backfill(v) THEN recovery
                                                 ELSE NoRecovery]
         /\ recovery' = recovery
         /\ Backfill(v) => recovery # NoRecovery
  BY DEF Load, fresh, stored
<1>5. /\ view'[r].checked = v.checked /\ view'[r].target = v.target
      /\ \A q \in Runners : q # r => view'[q] = view[q] /\ pc'[q] = pc[q]
  BY <1>2, <1>4 DEF IInv, TypeOK
<1> HIDE DEF v
<1>6. Resumes(fresh)
  <2>1. v.target - BackfillDays \in fresh.pending
    BY <1>1, <1>3
  <2> QED BY <1>1, <1>3, <2>1 DEF Resumes
<1>7. Resumes(stored)
  <2>1. CASE BackfillDays = 0
    <3>1. \A d \in stored.start..stored.target : d >= stored.target - Overlap
      BY <1>1, <1>3, <2>1
    <3>2. stored.pending = {}
      BY <1>1, <1>3, <2>1
    <3> QED BY <3>1, <3>2 DEF Resumes
  <2>2. CASE BackfillDays > 0
    <3>1. v.target - BackfillDays \in stored.pending
      BY <1>1, <1>3, <2>2
    <3>2. \A d \in stored.start..stored.target : v.target - BackfillDays <= d
      BY <1>1, <1>3
    <3> QED BY <3>1, <3>2 DEF Resumes
  <2> QED BY <1>1, <2>1, <2>2
<1>8. recovery' # NoRecovery => recovery'.target <= v.target
  <2>1. recovery # NoRecovery => recovery.target <= v.target
    BY <1>2 DEF SInv, WindowAhead, v
  <2> QED BY <1>1, <1>3, <1>4, <2>1
<1>9. WindowAhead'
  BY <1>2, <1>5, <1>8 DEF WindowAhead
<1>10. ASSUME gaps = {} PROVE recovery' # NoRecovery => Resumes(recovery')
  BY <1>4, <1>7, <1>10 DEF SInv, Resumable
<1>11. ASSUME gaps = {}, Backfill(v) PROVE Resumes(view'[r].recovery)
  BY <1>4, <1>6, <1>11 DEF SInv, Resumable, IInv, TypeOK
<1>12. \A rec : Resumes(rec) => Resumes(rec)'
  BY <1>2 DEF Resumes
<1>13. Resumable'
  <2> SUFFICES ASSUME gaps' = {}
               PROVE  /\ recovery' # NoRecovery => Resumes(recovery)'
                      /\ \A q \in Runners : pc'[q] = "fetch" /\ Backfill(view[q])' =>
                           Resumes(view[q].recovery)'
    BY DEF Resumable
  <2>1. gaps = {} /\ seen' = seen
    BY <1>2
  <2>2. recovery' # NoRecovery => Resumes(recovery)'
    BY <1>10, <2>1 DEF Resumes
  <2>3. ASSUME NEW q \in Runners, pc'[q] = "fetch", Backfill(view[q])'
        PROVE  Resumes(view[q].recovery)'
    <3>1. CASE q = r
      BY <1>5, <1>11, <2>1, <2>3, <3>1 DEF Backfill, Resumes, v
    <3>2. CASE q # r
      BY <1>5, <2>1, <2>3, <3>2 DEF SInv, Resumable, Backfill, Resumes
    <3> QED BY <3>1, <3>2
  <2> QED BY <2>2, <2>3
<1> QED BY <1>2, <1>9, <1>13 DEF SInv, CoveredIsSeen

\* A fetch that commits covers what it stored, or what was stored before.
LEMMA CommitSeen ==
  ASSUME CollectorAssumption, NeverBoth, IInv, SInv, NEW r \in Runners,
         NEW l \in Listings, NEW n, Commit(r, l, n)
  PROVE  SInv'
<1> DEFINE v == view[r]
<1>1. lock = r /\ pc[r] = "fetch" /\ Leave(r)
      /\ seen' = seen \cup Completed(v, l, n)
  BY DEF Commit
<1>2. /\ lock' = NoRunner /\ NoRunner \notin Runners /\ gone' = gone
      /\ pc'[r] = "idle"
      /\ \A q \in Runners : q # r => pc'[q] = pc[q] /\ view'[q] = view[q]
  BY <1>1, LeaveShape DEF IInv, CollectorAssumption
<1>3. WindowAhead'
  BY <1>2 DEF WindowAhead
<1>4. gaps = {} /\ NewGaps(v, l, n) = {} =>
        Completed(v, l, n) = Scan(v) \ NewPending(v, l, n)
  BY DEF Completed, NewPending
<1>5. gaps = {} /\ Backfill(v) =>
        \A d \in v.recovery.start..v.recovery.target : d \in seen \/ d \in Scan(v)
  BY <1>1, ScanResumes
<1>6. Backfill(v) => v.recovery \in Recoveries
  BY <1>1 DEF IInv, TypeOK, Bounded, ViewBounded
<1>7. NewPending(v, l, n) = {} \/ NewGaps(v, l, n) = {}
  BY EitherEnd DEF SInv
<1>8. covered \subseteq seen
  BY DEF SInv, CoveredIsSeen
<1>9. CoveredIsSeen'
  <2> HIDE DEF v
  <2>1. CASE Complete(r, l, n)
    <3>1. gaps = {} /\ NewGaps(v, l, n) = {} /\ NewPending(v, l, n) = {}
          /\ covered' = covered \cup (IF Backfill(v)
               THEN v.recovery.start..v.recovery.target ELSE Scan(v))
      BY <2>1 DEF Complete, v
    <3> QED BY <1>1, <1>4, <1>5, <1>8, <3>1 DEF CoveredIsSeen
  <2>2. CASE OnlyGapsLeft(r, l, n)
    BY <1>1, <1>8, <2>2 DEF OnlyGapsLeft, CoveredIsSeen, v
  <2>3. CASE PendingLeft(r, l, n)
    BY <1>1, <1>8, <2>3 DEF PendingLeft, CoveredIsSeen
  <2> QED BY <2>1, <2>2, <2>3 DEF Commit
<1>10. ASSUME gaps' = {}
       PROVE  gaps = {} /\ (recovery' # NoRecovery => Resumes(recovery)')
  <2>1. CASE Complete(r, l, n)
    <3>1. gaps = {} /\ recovery' = IF Backfill(v) THEN NoRecovery ELSE recovery
      BY <2>1 DEF Complete
    <3> QED BY <1>1, <3>1, ResumesMore DEF SInv, Resumable, Resumes
  <2>2. CASE OnlyGapsLeft(r, l, n)
    BY <1>10, <2>2 DEF OnlyGapsLeft
  <2>3. CASE PendingLeft(r, l, n)
    <3>1. /\ NewPending(v, l, n) # {} /\ gaps = {}
          /\ recovery' = IF Backfill(v)
                         THEN [v.recovery EXCEPT !.pending = NewPending(v, l, n)]
                         ELSE recovery
      BY <1>10, <2>3 DEF PendingLeft
    <3>2. CASE ~Backfill(v)
      BY <1>1, <3>1, <3>2, ResumesMore DEF SInv, Resumable, Resumes
    <3>3. CASE Backfill(v)
      <4> DEFINE P == NewPending(v, l, n)
                 rec == v.recovery
      <4>1. /\ recovery'.start = rec.start /\ recovery'.target = rec.target
            /\ recovery'.pending = P
        BY <1>6, <3>1, <3>3 DEF Recoveries
      <4>2. Completed(v, l, n) = Scan(v) \ P
        BY <1>4, <1>7, <3>1
      <4>3. P \subseteq Int
        BY <1>1, OutcomeInScan, ScanInDays DEF Days
      <4>4. ASSUME NEW d \in rec.start..rec.target, d \notin seen'
            PROVE  \E p \in P : p <= d
        <5>1. d \in Scan(v) /\ d \notin Completed(v, l, n)
          BY <1>1, <1>5, <3>1, <3>3, <4>4
        <5>2. d \in P
          BY <4>2, <5>1
        <5> HIDE DEF P
        <5> QED BY <4>3, <5>2
      <4> HIDE DEF P, rec
      <4> QED BY <3>1, <4>1, <4>4 DEF Resumes, P
    <3> QED BY <3>2, <3>3
  <2> QED BY <2>1, <2>2, <2>3 DEF Commit
<1>11. Resumable'
  <2> SUFFICES ASSUME gaps' = {}, NEW q \in Runners, pc'[q] = "fetch", Backfill(view[q])'
               PROVE  Resumes(view[q].recovery)'
    BY <1>10 DEF Resumable
  <2>1. q # r /\ gaps = {} /\ pc[q] = "fetch" /\ view'[q] = view[q]
    BY <1>2, <1>10
  <2>2. Backfill(view[q])
    BY <2>1 DEF Backfill
  <2>3. Resumes(view[q].recovery)
    BY <2>1, <2>2 DEF SInv, Resumable
  <2> QED BY <1>1, <2>1, <2>3 DEF Resumes
<1> QED BY <1>2, <1>3, <1>9, <1>11 DEF SInv

\* A failed round writes back the window it worked from.
LEMMA FailSeen ==
  ASSUME CollectorAssumption, IInv, SInv, NEW r \in Runners, Fail(r)
  PROVE  SInv'
<1>1. lock = r /\ pc[r] = "fetch" /\ Leave(r)
      /\ recovery' = (IF Backfill(view[r]) THEN view[r].recovery ELSE recovery)
      /\ UNCHANGED <<checked, gaps, covered, seen>>
  BY DEF Fail
<1>2. /\ lock' = NoRunner /\ NoRunner \notin Runners /\ gone' = gone
      /\ pc'[r] = "idle"
      /\ \A q \in Runners : q # r => pc'[q] = pc[q] /\ view'[q] = view[q]
  BY <1>1, LeaveShape DEF IInv, CollectorAssumption
<1>3. WindowAhead'
  BY <1>2 DEF WindowAhead
<1>4. ASSUME gaps = {}, recovery' # NoRecovery PROVE Resumes(recovery')
  BY <1>1, <1>4 DEF SInv, Resumable
<1>5. ASSUME gaps = {}, NEW q \in Runners, pc'[q] = "fetch", Backfill(view'[q])
      PROVE  Resumes(view'[q].recovery)
  BY <1>2, <1>5 DEF SInv, Resumable
<1>6. Resumable'
  BY <1>1, <1>4, <1>5 DEF Resumable, Resumes, Backfill
<1> QED BY <1>1, <1>2, <1>3, <1>6 DEF SInv, CoveredIsSeen

\* So does a round that is broken off.
LEMMA AbortSeen ==
  ASSUME CollectorAssumption, IInv, SInv, NEW r \in Runners, Abort(r)
  PROVE  SInv'
<1>1. lock # r /\ Leave(r) /\ UNCHANGED db
  BY DEF Abort
<1>2. /\ lock' = lock /\ gone' = gone /\ pc'[r] = "idle"
      /\ \A q \in Runners : q # r => pc'[q] = pc[q] /\ view'[q] = view[q]
  BY <1>1, LeaveShape DEF IInv
<1>3. WindowAhead'
  BY <1>1, <1>2 DEF SInv, WindowAhead, db
<1>4. ASSUME gaps = {}, NEW q \in Runners, pc'[q] = "fetch", Backfill(view'[q])
      PROVE  Resumes(view'[q].recovery)
  BY <1>2, <1>4 DEF SInv, Resumable
<1>5. Resumable'
  BY <1>1, <1>4 DEF SInv, Resumable, Resumes, Backfill, db
<1> QED BY <1>1, <1>2, <1>3, <1>5 DEF SInv, CoveredIsSeen, db

\* Every step keeps it.
LEMMA StepSeen ==
  ASSUME CollectorAssumption, NeverBoth, IInv, SInv, [Next]_vars
  PROVE  SInv'
<1>1. CASE UNCHANGED <<gone, pc, view, db>> /\ (lock' = lock \/ lock' = NoRunner)
  BY <1>1 DEF SInv, WindowAhead, Resumable, Resumes, Backfill, CoveredIsSeen, db,
              CollectorAssumption
<1>2. CASE UNCHANGED vars \/ NewDay \/ \E r \in Runners : LoseSession(r)
  BY <1>1, <1>2 DEF vars, NewDay, LoseSession
<1>3. ASSUME NEW r \in Runners, Begin(r) PROVE SInv'
  BY <1>3, BeginSeen
<1>4. ASSUME NEW r \in Runners, Load(r) PROVE SInv'
  BY <1>4, LoadSeen
<1>5. ASSUME NEW r \in Runners, Fetch(r) PROVE SInv'
  BY <1>5, CommitSeen DEF Fetch
<1>6. ASSUME NEW r \in Runners, Fail(r) PROVE SInv'
  BY <1>6, FailSeen
<1>7. ASSUME NEW r \in Runners, Abort(r) PROVE SInv'
  BY <1>7, AbortSeen
<1> QED BY <1>2, <1>3, <1>4, <1>5, <1>6, <1>7 DEF Next

\* A day is claimed as covered only when its filings were fetched and stored,
\* over cut scans, failed rounds, lost sessions and new days, unless a round
\* both leaves pages pending and gives others up (_sync_sec_source).
THEOREM CoveredDaysAreSeen == NeverBoth => (Spec => []CoveredIsSeen)
<1> SUFFICES ASSUME NeverBoth PROVE Spec => []CoveredIsSeen
  OBVIOUS
<1>1. Init => SInv
  BY InitSeen, CollectorAssumption
<1>2. IInv /\ SInv /\ [Next]_vars => SInv'
  BY StepSeen, CollectorAssumption
<1>3. SInv => CoveredIsSeen
  BY DEF SInv
<1> QED BY <1>1, <1>2, <1>3, CollectorInv, PTL DEF Spec

-----------------------------------------------------------------------------
\* What a fetch gives up was missing at the SEC or is in no page.
LEMMA NewGapsUnavailable ==
  ASSUME CollectorAssumption, IInv, gone \in GonePages, Agreeing,
         EveryPageServed \/ ~MayCut,
         NEW r \in Runners, NEW l \in Listings, NEW n, Commit(r, l, n)
  PROVE  NewGaps(view[r], l, n) \subseteq (UNION gone) \cup (Days \ Listed)
<1> SUFFICES ASSUME NEW s \in GapSegments(view[r], l, n), NEW d \in s
             PROVE  d \in UNION gone \/ d \in Days \ Listed
  BY DEF NewGaps
<1>1. pc[r] = "fetch" /\ (MayCut \/ n = Cardinality(Wanted(view[r], l)))
  BY DEF Commit
<1>2. d \in Uncovered(view[r], l, n)
  BY DEF GapSegments, Segments
<1>3. d \in Days /\ l.files # {} /\ d \in BeforeRecent(view[r], l)
  BY <1>1, <1>2, UncoveredDays
<1>4. CASE d \notin UNION l.files
  BY <1>3, <1>4 DEF Agreeing
<1>5. ASSUME NEW p \in l.files, d \in p PROVE d \in UNION gone
  <2>1. p \in Wanted(view[r], l) /\ Meets(p, s)
    BY <1>3, <1>5 DEF Wanted, Meets
  <2>2. CASE ~MayCut
    <3>1. p \in Asked(view[r], l, n)
      BY <1>1, <2>1, <2>2, AllAsked
    <3>2. p \in gone
      BY <1>1, <1>2, <1>5, <3>1, UncoveredDays
    <3> QED BY <1>5, <3>2
  <2>3. CASE EveryPageServed
    <3>1. Missing(view[r], l, n) = {}
      BY <2>3 DEF EveryPageServed, Missing
    <3> QED BY <2>1, <3>1, <1>5 DEF GapSegments
  <2> QED BY <2>2, <2>3
<1> QED BY <1>4, <1>5

\* A day is given up only when its page answered 404 or no directory lists
\* it, where scans are not cut or every page is served: a page next to a
\* missing one that the budget left out would be given up with it
\* (_sync_sec_source, the ranges that meet a missing page).
THEOREM GivenUpIsUnavailable ==
  Agreeing /\ (EveryPageServed \/ ~MayCut) => (Spec => []GapsAreUnavailable)
<1> DEFINE UInv == gone \in GonePages /\ GapsAreUnavailable
<1> SUFFICES ASSUME Agreeing, EveryPageServed \/ ~MayCut
             PROVE  Spec => []GapsAreUnavailable
  OBVIOUS
<1>1. Init => UInv
  BY DEF Init, GapsAreUnavailable
<1>2. ASSUME CollectorAssumption, IInv, UInv, [Next]_vars PROVE UInv'
  <2>1. gone' = gone
    BY <1>2 DEF Next, vars, NewDay, Begin, Load, Fetch, Commit, Fail, LoseSession, Abort,
                Leave
  <2>2. CASE gaps' = gaps
    BY <1>2, <2>1, <2>2 DEF GapsAreUnavailable
  <2>3. ASSUME NEW r \in Runners, NEW l \in Listings, NEW n, Commit(r, l, n)
        PROVE  gaps' \subseteq gaps \cup NewGaps(view[r], l, n)
    BY <2>3 DEF Commit, Complete, OnlyGapsLeft, PendingLeft
  <2>4. ASSUME NEW r \in Runners, Fetch(r) PROVE UInv'
    <3>1. PICK l \in Listings : \E n : Commit(r, l, n)
      BY <2>4 DEF Fetch
    <3>2. PICK n : Commit(r, l, n)
      BY <3>1
    <3>3. NewGaps(view[r], l, n) \subseteq (UNION gone) \cup (Days \ Listed)
      BY <1>2, <3>2, NewGapsUnavailable
    <3> QED BY <1>2, <2>1, <2>3, <3>2, <3>3 DEF GapsAreUnavailable
  <2> QED BY <1>2, <2>2, <2>4, OnlyCommitsMove
<1>3. IInv /\ UInv /\ [Next]_vars => UInv'
  BY <1>2, CollectorAssumption
<1> QED BY <1>1, <1>3, CollectorInv, PTL DEF Spec
=============================================================================
