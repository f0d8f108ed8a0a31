-------------------------- MODULE AnnouncementSec --------------------------
(***************************************************************************)
(* The SEC source of the watch-list announcement collector                 *)
(* (core/announcements/sync.py: RoundLock, run_round, _sync_sec_source;    *)
(* core/announcements/store.py).  Rounds started by the scheduler and by   *)
(* hand compete for one advisory lock; the round that has it reads the     *)
(* check state, the recovery row and the open gaps of the source, asks the *)
(* SEC for its filings, and commits data, progress and check point in one  *)
(* transaction of the session that holds the lock.                         *)
(*                                                                         *)
(* A day stands for the date of a filing; a list of date ranges is the set *)
(* of days in it.  What the SEC lists is a recent segment from recentMin   *)
(* on and a directory of older pages; pages in `gone` answer 404.          *)
(***************************************************************************)
EXTENDS Integers, FiniteSets

CONSTANTS
  Runners,        \* the scheduler's job and the manual command
  NoRunner,
  MaxDay,         \* bound on the calendar
  BackfillDays,   \* BACKFILL_DAYS
  Overlap,        \* OVERLAP_DAYS
  Listings,       \* what fetch_submissions may return
  GonePages,      \* which sets of pages may be missing at the SEC
  MayCut,         \* whether the page or time budget may cut a scan short
  NoDay, NoRecovery

Days == 0..MaxDay

Recoveries == [start : Days, target : Days, pending : SUBSET Days]

ASSUME CollectorAssumption ==
  /\ NoRunner \notin Runners
  /\ MaxDay \in Nat /\ BackfillDays \in 0..MaxDay /\ Overlap \in 0..BackfillDays
  /\ \A l \in Listings : l.files \subseteq SUBSET Days /\ l.recentMin \in Days
  /\ GonePages \subseteq SUBSET SUBSET Days
  /\ MayCut \in BOOLEAN
  /\ NoDay \notin Int
  /\ NoRecovery \notin Recoveries

\* The recent segment reaches back to the end of the first window: SEC keeps
\* at least a year in it.
ASSUME RecentAssumption == \A l \in Listings : l.recentMin <= BackfillDays + 1

VARIABLES
  today,
  gone,        \* the pages that answer 404
  lock,        \* the runner whose session holds ROUND_LOCK_KEY
  pc,          \* where each runner is
  view,        \* what a runner has read and works from
  checked,     \* check_state.checked_through
  recovery,    \* the recovery row
  gaps,        \* days of the unresolved rows of watchlist_announcement_gap
  covered,     \* check_state.covered_ranges
  seen         \* history: days whose filings were fetched and stored

db == <<checked, recovery, gaps, covered, seen>>
vars == <<today, gone, lock, pc, view, db>>

NoView == [checked |-> NoDay, recovery |-> NoRecovery, target |-> 0]

Init ==
  /\ today = BackfillDays
  /\ gone \in GonePages
  /\ lock = NoRunner
  /\ pc = [r \in Runners |-> "idle"]
  /\ view = [r \in Runners |-> NoView]
  /\ checked = NoDay
  /\ recovery = NoRecovery
  /\ gaps = {}
  /\ covered = {}
  /\ seen = {}

-----------------------------------------------------------------------------
Least(S) == CHOOSE x \in S : \A y \in S : x <= y
Greatest(S) == CHOOSE x \in S : \A y \in S : x >= y

\* The maximal runs of consecutive days of S: the ranges a list of disjoint
\* date ranges is made of.
Segments(S) ==
  {s \in {a..b : a \in S, b \in S} :
     s # {} /\ s \subseteq S /\ Least(s) - 1 \notin S /\ Greatest(s) + 1 \notin S}

Meets(s, t) == s \cap t # {}

Backfill(v) == v.checked = NoDay

\* scan_from .. scan_to
Scan(v) ==
  IF ~Backfill(v) THEN (v.checked - Overlap)..v.target
  ELSE IF v.recovery.pending # {}
       THEN {d \in 0..v.recovery.target : \E p \in v.recovery.pending : p <= d}
       ELSE (v.recovery.target - Overlap)..v.target

\* The part of the scan the recent segment does not reach.  With an empty
\* directory the recent segment is all there is.
BeforeRecent(v, l) ==
  IF l.files = {} THEN {} ELSE {d \in Scan(v) : d < l.recentMin}

\* Only pages that meet that part are asked for, oldest first, n of them.
Wanted(v, l) == {p \in l.files : Meets(p, BeforeRecent(v, l))}

Asked(v, l, n) ==
  {p \in Wanted(v, l) :
     Cardinality({q \in Wanted(v, l) : Least(q) < Least(p)}) < n}

\* What is left uncovered after the pages that were there, without the gaps
\* already on record.
Uncovered(v, l, n) ==
  (BeforeRecent(v, l) \ UNION (Asked(v, l, n) \ gone)) \ gaps

Missing(v, l, n) == Asked(v, l, n) \cap gone

\* Mutant: what a cut scan left is given up like a missing page.
GapsWhenCut(v, l, n) == Segments(Uncovered(v, l, n))

\* Each uncovered range is put down as a gap as a whole, when a page in it
\* answered 404 or no page of the directory meets it, or left pending.
GapSegments(v, l, n) ==
  {s \in Segments(Uncovered(v, l, n)) :
     \/ \E p \in Missing(v, l, n) : Meets(p, s)
     \/ \A p \in l.files : ~Meets(p, s)}

NewGaps(v, l, n) == UNION GapSegments(v, l, n)
NewPending(v, l, n) == Uncovered(v, l, n) \ NewGaps(v, l, n)
Completed(v, l, n) == Scan(v) \ (Uncovered(v, l, n) \cup gaps)

-----------------------------------------------------------------------------
\* RoundLock.__enter__ and the reading of the candidate's check state.  A
\* runner that finds the lock taken records skipped_running and leaves the
\* sources alone.
Begin(r) ==
  /\ pc[r] = "idle"
  /\ lock = NoRunner
  /\ lock' = r
  /\ view' = [view EXCEPT ![r] = [checked |-> checked, recovery |-> NoRecovery,
                                  target |-> today]]
  /\ pc' = [pc EXCEPT ![r] = "load"]
  /\ UNCHANGED <<today, gone, db>>

\* Mutant: the first window is not stored before the first request.
LoadKeepsNothing(r) ==
  LET fresh == [start |-> view[r].target - BackfillDays, target |-> view[r].target,
                pending |-> (view[r].target - BackfillDays)..view[r].target]
      use == IF recovery = NoRecovery THEN fresh ELSE recovery IN
  /\ pc[r] = "load"
  /\ lock = r
  /\ view' = [view EXCEPT ![r].recovery = IF Backfill(view[r]) THEN use
                                          ELSE NoRecovery]
  /\ pc' = [pc EXCEPT ![r] = "fetch"]
  /\ UNCHANGED <<today, gone, lock, db>>

\* Mutant: the window of a first backfill begins a day too early.
LoadOneDayMore(r) ==
  LET v == view[r]
      fresh == [start |-> v.target - BackfillDays - 1, target |-> v.target,
                pending |-> (v.target - BackfillDays - 1)..v.target] IN
  /\ pc[r] = "load"
  /\ lock = r
  /\ Backfill(v) /\ recovery = NoRecovery
  /\ view' = [view EXCEPT ![r].recovery = fresh]
  /\ recovery' = [fresh EXCEPT !.pending = @ \ {v.target}]
  /\ pc' = [pc EXCEPT ![r] = "fetch"]
  /\ UNCHANGED <<today, gone, lock, checked, gaps, covered, seen>>

\* check_alive, load_recovery, and for a first backfill the commit of the
\* recovery row before the first request.  Its stored range ends with the
\* time of the target, so the target's own day is not read back from it.
Load(r) ==
  LET v == view[r]
      fresh == [start |-> v.target - BackfillDays, target |-> v.target,
                pending |-> (v.target - BackfillDays)..v.target] IN
  /\ pc[r] = "load"
  /\ lock = r
  /\ IF Backfill(v) /\ recovery = NoRecovery
     THEN /\ view' = [view EXCEPT ![r].recovery = fresh]
          /\ recovery' = [fresh EXCEPT !.pending = @ \ {v.target}]
     ELSE /\ view' = [view EXCEPT ![r].recovery = IF Backfill(v) THEN recovery
                                                  ELSE NoRecovery]
          /\ UNCHANGED recovery
  /\ pc' = [pc EXCEPT ![r] = "fetch"]
  /\ UNCHANGED <<today, gone, lock, checked, gaps, covered, seen>>

\* Mutant: the lock stays with a connection that is not closed.
LeaveKeepsLock(r) ==
  /\ pc' = [pc EXCEPT ![r] = "idle"]
  /\ view' = [view EXCEPT ![r] = NoView]
  /\ UNCHANGED <<today, gone, lock>>

\* The round ends for this source: RoundLock.__exit__.
Leave(r) ==
  /\ pc' = [pc EXCEPT ![r] = "idle"]
  /\ view' = [view EXCEPT ![r] = NoView]
  /\ lock' = IF lock = r THEN NoRunner ELSE lock
  /\ UNCHANGED <<today, gone>>

\* Mutant: gaps already on record do not hold the check point back.
CompleteDespiteGaps(r, l, n) ==
  LET v == view[r] IN
  /\ NewPending(v, l, n) = {}
  /\ NewGaps(v, l, n) = {}
  /\ checked' = IF Backfill(v) THEN v.recovery.target ELSE v.target
  /\ covered' = covered \cup (IF Backfill(v)
                              THEN v.recovery.start..v.recovery.target ELSE Scan(v))
  /\ recovery' = IF Backfill(v) THEN NoRecovery ELSE recovery
  /\ UNCHANGED gaps

\* Everything asked for is there and no gap is open: the only branch that
\* moves the check point.
Complete(r, l, n) ==
  LET v == view[r] IN
  /\ NewPending(v, l, n) = {}
  /\ gaps \cup NewGaps(v, l, n) = {}
  /\ checked' = IF Backfill(v) THEN v.recovery.target ELSE v.target
  /\ covered' = covered \cup (IF Backfill(v)
                              THEN v.recovery.start..v.recovery.target ELSE Scan(v))
  /\ recovery' = IF Backfill(v) THEN NoRecovery ELSE recovery
  /\ UNCHANGED gaps

\* Mutant: the gaps found now replace those on record.
OnlyNewGapsKept(r, l, n) ==
  LET v == view[r] IN
  /\ NewPending(v, l, n) = {}
  /\ gaps \cup NewGaps(v, l, n) # {}
  /\ gaps' = NewGaps(v, l, n)
  /\ covered' = covered \cup Completed(v, l, n)
  /\ recovery' = IF Backfill(v) THEN [v.recovery EXCEPT !.pending = {}] ELSE recovery
  /\ UNCHANGED checked

\* Only gaps are left: they are recorded, the check point stays.
OnlyGapsLeft(r, l, n) ==
  LET v == view[r] IN
  /\ NewPending(v, l, n) = {}
  /\ gaps \cup NewGaps(v, l, n) # {}
  /\ gaps' = gaps \cup NewGaps(v, l, n)
  /\ covered' = covered \cup Completed(v, l, n)
  /\ recovery' = IF Backfill(v) THEN [v.recovery EXCEPT !.pending = {}] ELSE recovery
  /\ UNCHANGED checked

\* Mutant: the whole scan is recorded as covered.
PendingCovered(r, l, n) ==
  LET v == view[r] IN
  /\ NewPending(v, l, n) # {}
  /\ recovery' = IF Backfill(v)
                 THEN [v.recovery EXCEPT !.pending = NewPending(v, l, n)]
                 ELSE recovery
  /\ covered' = covered \cup Scan(v)
  /\ UNCHANGED <<checked, gaps>>

\* Something can still be fetched: the next round resumes there.
PendingLeft(r, l, n) ==
  LET v == view[r] IN
  /\ NewPending(v, l, n) # {}
  /\ recovery' = IF Backfill(v)
                 THEN [v.recovery EXCEPT !.pending = NewPending(v, l, n)]
                 ELSE recovery
  /\ UNCHANGED <<checked, gaps, covered>>

\* The fetch succeeded and the transaction of the source commits.
Commit(r, l, n) ==
  /\ pc[r] = "fetch"
  /\ lock = r
  /\ MayCut \/ n = Cardinality(Wanted(view[r], l))
  /\ seen' = seen \cup Completed(view[r], l, n)
  /\ Complete(r, l, n) \/ OnlyGapsLeft(r, l, n) \/ PendingLeft(r, l, n)
  /\ Leave(r)

\* A request or the parsing failed: the transaction is rolled back, the
\* attempt and the window it started from are written anew.
Fail(r) ==
  LET v == view[r] IN
  /\ pc[r] = "fetch"
  /\ lock = r
  /\ recovery' = IF Backfill(v) THEN v.recovery ELSE recovery
  /\ UNCHANGED <<checked, gaps, covered, seen>>
  /\ Leave(r)

\* The session that holds the lock is lost, or its process has died.
LoseSession(r) ==
  /\ lock = r
  /\ lock' = NoRunner
  /\ UNCHANGED <<today, gone, pc, view, db>>

\* A runner without its session cannot write: lock_lost.
Abort(r) ==
  /\ pc[r] # "idle"
  /\ lock # r
  /\ Leave(r)
  /\ UNCHANGED db

NewDay ==
  /\ today < MaxDay
  /\ today' = today + 1
  /\ UNCHANGED <<gone, lock, pc, view, db>>

Fetch(r) == \E l \in Listings : \E n \in 0..Cardinality(l.files) : Commit(r, l, n)

Next ==
  \/ NewDay
  \/ \E r \in Runners : Begin(r) \/ Load(r) \/ Fetch(r) \/ Fail(r)
                        \/ LoseSession(r) \/ Abort(r)

Spec == Init /\ [][Next]_vars

\* Rounds keep being started (IntervalTrigger) and those that keep being able
\* to finish an uncut fetch do finish one.
WholeFetch(r) ==
  \E l \in Listings : Commit(r, l, Cardinality(Wanted(view[r], l)))

Fairness ==
  /\ WF_vars(NewDay)
  /\ \A r \in Runners : /\ WF_vars(Begin(r))
                        /\ SF_vars(Load(r))
                        /\ SF_vars(WholeFetch(r))
                        /\ WF_vars(Abort(r))

FairSpec == Spec /\ Fairness

-----------------------------------------------------------------------------
(* Properties *)

TypeOK ==
  /\ today \in Days
  /\ gone \in SUBSET SUBSET Days
  /\ lock \in Runners \cup {NoRunner}
  /\ pc \in [Runners -> {"idle", "load", "fetch"}]
  /\ view \in [Runners -> [checked : Days \cup {NoDay},
                           recovery : Recoveries \cup {NoRecovery},
                           target : Days]]
  /\ checked \in Days \cup {NoDay}
  /\ recovery \in Recoveries \cup {NoRecovery}
  /\ gaps \subseteq Days
  /\ covered \subseteq Days
  /\ seen \subseteq Days

\* A round decides from what it read when it began and commits long after;
\* what it read is still what the database holds, whoever else runs, crashes
\* or loses its session in between (one round lock, writes on its session).
FreshView ==
  \A r \in Runners : lock = r /\ pc[r] # "idle" =>
    /\ view[r].checked = checked
    /\ pc[r] = "fetch" /\ Backfill(view[r]) =>
         /\ recovery # NoRecovery
         /\ recovery.start = view[r].recovery.start
         /\ recovery.target = view[r].recovery.target

\* The check point never moves while a gap is open (sync.py, module comment).
CheckpointStopsAtGaps == [][checked' # checked => gaps = {} /\ gaps' = {}]_vars

\* The check point never goes back, and a gap is never lost.
ProgressKept ==
  [][/\ checked # NoDay => checked' # NoDay /\ checked' >= checked
     /\ gaps \subseteq gaps'
     /\ covered \subseteq covered']_vars

\* The window of a first backfill is fixed before the first request and stays
\* until the check point reaches its end, over crashes and new days.
BackfillWindowFixed ==
  [][recovery # NoRecovery =>
       \/ recovery' = NoRecovery /\ checked' = recovery.target
       \/ /\ recovery' # NoRecovery
          /\ recovery'.start = recovery.start
          /\ recovery'.target = recovery.target]_vars

\* What is claimed as covered was fetched and stored.
CoveredIsSeen == covered \subseteq seen

\* A day is given up as a gap only when its page answered 404 or the
\* directory does not list it, never for want of time.
Listed == UNION UNION {l.files : l \in Listings}
GapsAreUnavailable == gaps \subseteq (UNION gone) \cup (Days \ Listed)

\* With a source that answers, the check point catches up with the calendar.
CatchesUp == <>[](checked # NoDay /\ checked = today)
=============================================================================
