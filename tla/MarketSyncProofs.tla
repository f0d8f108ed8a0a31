-------------------------- MODULE MarketSyncProofs --------------------------
(***************************************************************************)
(* Proofs about MarketSync: the types of its state, and that a lagging     *)
(* statement is asked for again.  And about HkCapex, which fills a column  *)
(* of what it stores: what its two jobs make of one queue.                 *)
(***************************************************************************)
EXTENDS MarketSync, HkCapex, FiniteSetTheorems, WellFoundedInduction, TLAPS

-----------------------------------------------------------------------------
(* What is compared                                                        *)

\* The least of some report dates is one of them, and below the others.
LEMMA LeastIsLeast ==
  ASSUME NEW S \in SUBSET Nat, S # {}
  PROVE  Least(S) \in S /\ \A y \in S : Least(S) <= y
<1>1. PICK n \in S : \A y \in S : ~ (<<y, n>> \in OpToRel(<, Nat))
  BY NatLessThanWellFounded, WFMin
<1>2. ASSUME NEW y \in S PROVE n <= y
  <2>1. SUFFICES ASSUME y < n PROVE FALSE
    OBVIOUS
  <2>2. <<y, n>> \in Nat \X Nat /\ <<y, n>>[1] < <<y, n>>[2]
    BY <2>1
  <2>3. <<y, n>> \in OpToRel(<, Nat)
    BY <2>2, Zenon DEF OpToRel
  <2> QED
    BY <1>1, <2>3
<1> QED
  BY <1>2 DEF Least

\* The greatest of two dates is one of them, and above the others.
LEMMA GreatestOfTwo ==
  ASSUME NEW x \in Nat, NEW y \in Nat
  PROVE  Greatest({x, y}) \in {x, y} /\ Greatest({x, y}) >= x /\ Greatest({x, y}) >= y
<1>1. \E g \in {x, y} : \A z \in {x, y} : z <= g
  <2>1. CASE x <= y
    BY <2>1
  <2>2. CASE y <= x
    BY <2>2
  <2> QED
    BY <2>1, <2>2
<1> QED
  BY <1>1 DEF Greatest

\* Dates are numbers, and none is the least of them.
LEMMA ReachIsNat == Reach \subseteq Nat /\ None \in Reach
BY SyncAssumption DEF Reach, None

-----------------------------------------------------------------------------
(* The invariant                                                           *)

\* A statement counts as synchronised only once it has a row.
Held(s) == {t \in Tables : held[s][t] # None}

WorkInv == \A r \in Runners, s \in Stocks : work[r][s].ok \subseteq Held(s)
SyncedInv == \A s \in Stocks : progress[s].synced \subseteq Held(s)

\* What a main thread has read of a stock is not above what is there now.
MainInv ==
  \A r \in Runners :
    /\ main[r].pc \in {"merge", "last", "write"} =>
         main[r].stock \in Stocks /\ progress[main[r].stock].synced # {}
    /\ main[r].pc \in {"last", "write"} =>
         main[r].tables # {} /\ main[r].tables \subseteq Held(main[r].stock)
    /\ main[r].pc = "write" =>
         \A t \in main[r].tables : main[r].min <= held[main[r].stock][t]

\* last_report_date is not above any of the statements it was computed over.
DatedInv == \A s \in Stocks : \A t \in dated[s] : progress[s].last <= held[s][t]

SyncInv == TypeOK /\ WorkInv /\ SyncedInv /\ MainInv /\ DatedInv

-----------------------------------------------------------------------------
LEMMA SyncInit == Init => SyncInv
<1> SUFFICES ASSUME Init PROVE SyncInv
  OBVIOUS
<1> USE ReachIsNat, SyncAssumption DEF Init
<1>1. Len(Order) \in Nat /\ 1 \in 1..Len(Order)
  OBVIOUS
<1>2. TypeOK
  <2>1. work \in [Runners -> [Stocks -> Threads]]
    BY <1>1 DEF NotAsked, Threads
  <2>2. main \in [Runners -> Mains]
    BY DEF Waiting, Mains
  <2>3. None \in Reach /\ month \in Months
    OBVIOUS
  <2>4. out \in [Stocks -> [Tables -> Reach]] /\ held \in [Stocks -> [Tables -> Reach]]
    BY <2>3
  <2>5. progress \in [Stocks -> [status : {"none", "success", "partial", "failed"},
                                 synced : SUBSET Tables, last : Reach]]
    BY <2>3
  <2>6. faults \in 0..MaxFaults /\ dated \in [Stocks -> SUBSET Tables]
    OBVIOUS
  <2> QED
    BY <2>1, <2>2, <2>3, <2>4, <2>5, <2>6 DEF TypeOK
<1> QED
  BY <1>2 DEF SyncInv, WorkInv, SyncedInv, MainInv, DatedInv, NotAsked, Waiting

\* Steps that leave the rows, the progress and the main threads alone, and
\* take results of threads at most away, keep the invariant.
Quiet ==
  /\ UNCHANGED <<held, progress, dated>>
  /\ TypeOK'
  /\ \A r \in Runners :
       /\ main'[r] = main[r] \/ main'[r].pc \notin {"merge", "last", "write"}
       /\ \A s \in Stocks : work'[r][s].ok \subseteq work[r][s].ok

LEMMA QuietKeeps == SyncInv /\ Quiet => SyncInv'
BY DEF SyncInv, Quiet, WorkInv, SyncedInv, MainInv, DatedInv, Held

-----------------------------------------------------------------------------
(* Steps without new rows and new progress                                 *)

\* The position of a thread stays within the order of the statements.
LEMMA AdvanceType ==
  ASSUME NEW w \in Threads,
         NEW got \in SUBSET Tables
  PROVE  Advance(w, got) \in Threads /\ Advance(w, got).ok = w.ok \cup got
<1>1. Len(Order) \in Nat
  BY SyncAssumption
<1> QED
  BY <1>1 DEF Advance, Threads

\* The states threads and main threads are put into.
LEMMA Constant ==
  /\ NotAsked \in Threads /\ Asked \in Threads /\ Waiting \in Mains
  /\ [Waiting EXCEPT !.pc = "collect"] \in Mains
  /\ NotAsked.ok = {} /\ Asked.ok = {} /\ Waiting.pc = "idle"
<1>1. Len(Order) \in Nat /\ 1 \in 1..Len(Order)
  BY SyncAssumption
<1> QED
  BY <1>1, ReachIsNat DEF Threads, Mains, NotAsked, Asked, Waiting

\* What a step of a runner that stores nothing must be shown to do.
LEMMA QuietRunner ==
  ASSUME SyncInv,
         UNCHANGED <<month, out, held, progress, dated>>,
         faults' = faults \/ (faults < MaxFaults /\ faults' = faults + 1),
         main' \in [Runners -> Mains], work' \in [Runners -> [Stocks -> Threads]],
         \A r \in Runners :
           /\ main'[r] = main[r] \/ main'[r].pc \notin {"merge", "last", "write"}
           /\ \A s \in Stocks : work'[r][s].ok \subseteq work[r][s].ok
  PROVE  Quiet
<1>1. faults \in 0..MaxFaults
  BY DEF SyncInv, TypeOK
<1>2. faults' \in 0..MaxFaults
  BY <1>1, SyncAssumption
<1>3. TypeOK'
  BY <1>2 DEF SyncInv, TypeOK
<1> QED
  BY <1>3 DEF Quiet

\* The world, and what a main thread does without a result, are quiet.
LEMMA QuietSteps ==
  ASSUME SyncInv,
         \/ UNCHANGED vars \/ NewMonth
         \/ \E s \in Stocks, t \in Tables : Publish(s, t)
         \/ \E r \in Runners :
              \/ Determine(r) \/ UpdateFails(r) \/ Finish(r)
              \/ Stop(r) \/ Stopped(r) \/ Crash(r)
              \/ \E s \in Stocks : MissTable(r, s) \/ SaveFails(r, s)
  PROVE  Quiet
<1>1. TypeOK /\ work \in [Runners -> [Stocks -> Threads]] /\ main \in [Runners -> Mains]
  BY DEF SyncInv, TypeOK
<1>2. CASE UNCHANGED vars \/ NewMonth
  BY <1>1, <1>2 DEF vars, NewMonth, TypeOK, Quiet
<1>3. ASSUME NEW s \in Stocks, NEW t \in Tables, Publish(s, t)
      PROVE  Quiet
  BY <1>1, <1>3 DEF Publish, TypeOK, Reach, Quiet
<1>4. ASSUME NEW r \in Runners, Determine(r)
      PROVE  Quiet
  <2>1. main' \in [Runners -> Mains] /\ main'[r].pc = "collect"
          /\ \A q \in Runners : q # r => main'[q] = main[q]
    BY <1>1, <1>4 DEF Determine, Mains
  <2>2. /\ work' \in [Runners -> [Stocks -> Threads]]
        /\ \A q \in Runners : q # r => work'[q] = work[q]
        /\ \A s \in Stocks : work'[r][s].ok = {}
    BY <1>1, <1>4, Constant DEF Determine
  <2>3. UNCHANGED <<month, out, held, progress, faults, dated>>
    BY <1>4 DEF Determine
  <2>4. \A q \in Runners : /\ main'[q] = main[q] \/ main'[q].pc \notin {"merge", "last", "write"}
                         /\ \A s \in Stocks : work'[q][s].ok \subseteq work[q][s].ok
    <3> TAKE q \in Runners
    <3>1. main'[q] = main[q] \/ main'[q].pc \notin {"merge", "last", "write"}
      BY <2>1
    <3>2. \A s \in Stocks : work'[q][s].ok \subseteq work[q][s].ok
      <4>1. CASE q = r
        BY <2>2, <4>1
      <4>2. CASE q # r
        BY <2>2, <4>2
      <4> QED
        BY <4>1, <4>2
    <3> QED
      BY <3>1, <3>2
  <2> QED
    BY <2>1, <2>2, <2>3, <2>4, QuietRunner
<1>5. ASSUME NEW r \in Runners, UpdateFails(r) \/ Finish(r) \/ Stop(r)
      PROVE  Quiet
  <2>1. main' \in [Runners -> Mains] /\ main'[r].pc \in {"collect", "idle", "stop"}
          /\ \A q \in Runners : q # r => main'[q] = main[q]
    <3>1. CASE UpdateFails(r) \/ Finish(r)
      BY <1>1, <3>1, Constant DEF UpdateFails, Finish, Waiting
    <3>2. CASE Stop(r)
      BY <1>1, <3>2 DEF Stop, Mains
    <3> QED
      BY <1>5, <3>1, <3>2
  <2>2. UNCHANGED <<month, out, held, progress, work, dated>>
          /\ (faults' = faults \/ (faults < MaxFaults /\ faults' = faults + 1))
    BY <1>5 DEF UpdateFails, Finish, Stop
  <2>3. \A q \in Runners : /\ main'[q] = main[q] \/ main'[q].pc \notin {"merge", "last", "write"}
                         /\ \A s \in Stocks : work'[q][s].ok \subseteq work[q][s].ok
    BY <2>1, <2>2
  <2> QED
    BY <1>1, <2>1, <2>2, <2>3, QuietRunner
<1>6. ASSUME NEW r \in Runners, Stopped(r) \/ Crash(r)
      PROVE  Quiet
  <2>1. main' \in [Runners -> Mains] /\ main'[r].pc = "idle"
          /\ \A q \in Runners : q # r => main'[q] = main[q]
    BY <1>1, <1>6, Constant DEF Stopped, Crash
  <2>2. /\ work' \in [Runners -> [Stocks -> Threads]]
        /\ \A q \in Runners : q # r => work'[q] = work[q]
        /\ \A s \in Stocks : work'[r][s].ok = {}
    <3>1. work' = [work EXCEPT ![r] = [s \in Stocks |-> NotAsked]]
      BY <1>6 DEF Stopped, Crash
    <3> QED
      BY <1>1, <3>1, Constant
  <2>3. UNCHANGED <<month, out, held, progress, dated>>
          /\ (faults' = faults \/ (faults < MaxFaults /\ faults' = faults + 1))
    BY <1>6 DEF Stopped, Crash
  <2>4. \A q \in Runners : /\ main'[q] = main[q] \/ main'[q].pc \notin {"merge", "last", "write"}
                         /\ \A s \in Stocks : work'[q][s].ok \subseteq work[q][s].ok
    <3> TAKE q \in Runners
    <3>1. main'[q] = main[q] \/ main'[q].pc \notin {"merge", "last", "write"}
      BY <2>1
    <3>2. \A s \in Stocks : work'[q][s].ok \subseteq work[q][s].ok
      <4>1. CASE q = r
        BY <2>2, <4>1
      <4>2. CASE q # r
        BY <2>2, <4>2
      <4> QED
        BY <4>1, <4>2
    <3> QED
      BY <3>1, <3>2
  <2> QED
    BY <2>1, <2>2, <2>3, <2>4, QuietRunner
<1>7. ASSUME NEW r \in Runners, NEW s \in Stocks, MissTable(r, s) \/ SaveFails(r, s)
      PROVE  Quiet
  <2>1. PICK w \in Threads : w.ok \subseteq work[r][s].ok
                            /\ work' = [work EXCEPT ![r][s] = w]
    <3>1. CASE MissTable(r, s)
      <4>1. work[r][s] \in Threads
        BY <1>1
      <4>2. {} \in SUBSET Tables
        OBVIOUS
      <4>3. Advance(work[r][s], {}) \in Threads /\ Advance(work[r][s], {}).ok = work[r][s].ok \cup {}
        BY <4>1, <4>2, AdvanceType
      <4> QED
        BY <3>1, <4>3 DEF MissTable
    <3>2. CASE SaveFails(r, s)
      BY <3>2, Constant DEF SaveFails
    <3> QED
      BY <1>7, <3>1, <3>2
  <2>2. work' \in [Runners -> [Stocks -> Threads]]
          /\ \A q \in Runners, x \in Stocks : work'[q][x].ok \subseteq work[q][x].ok
    BY <1>1, <2>1
  <2>3. UNCHANGED <<month, out, held, progress, main, dated>>
          /\ (faults' = faults \/ (faults < MaxFaults /\ faults' = faults + 1))
    BY <1>7 DEF MissTable, SaveFails
  <2> QED
    BY <1>1, <2>2, <2>3, QuietRunner
<1> QED
  BY <1>2, <1>3, <1>4, <1>5, <1>6, <1>7

-----------------------------------------------------------------------------
(* The other steps                                                         *)

\* New rows: what was there is not above what is there.
LEMMA FetchKeeps ==
  ASSUME SyncInv, NEW r \in Runners, NEW s \in Stocks, FetchTable(r, s)
  PROVE  SyncInv'
<1>1. /\ TypeOK /\ WorkInv /\ SyncedInv /\ MainInv /\ DatedInv
      /\ work \in [Runners -> [Stocks -> Threads]] /\ main \in [Runners -> Mains]
      /\ held \in [Stocks -> [Tables -> Reach]]
  BY DEF SyncInv, TypeOK
<1> DEFINE t == Order[work[r][s].at]
<1>2. t \in Tables /\ work[r][s] \in Threads
  <2>1. work[r][s] \in Threads /\ work[r][s].at \in 1..Len(Order)
    BY <1>1 DEF Threads
  <2> QED
    BY <2>1 DEF Tables, ToSet
<1>3. out[s][t] \in Reach /\ held[s][t] \in Reach /\ out[s][t] # None
  BY <1>1, <1>2 DEF TypeOK, FetchTable
<1> DEFINE g == Greatest({out[s][t], held[s][t]})
<1>4. g \in Reach /\ g # None /\ g >= held[s][t]
  <2>1. out[s][t] \in Nat /\ held[s][t] \in Nat
    BY <1>3, ReachIsNat
  <2>2. g \in {out[s][t], held[s][t]} /\ g >= out[s][t] /\ g >= held[s][t]
    BY <2>1, GreatestOfTwo
  <2> QED
    BY <1>3, <2>1, <2>2, ReachIsNat DEF None
<1>5. held' = [held EXCEPT ![s][t] = g]
  BY DEF FetchTable
<1>6. /\ held' \in [Stocks -> [Tables -> Reach]]
      /\ \A x \in Stocks, u \in Tables : held'[x][u] >= held[x][u]
      /\ \A x \in Stocks : Held(x) \subseteq Held(x)'
      /\ t \in Held(s)'
  <2>1. held' \in [Stocks -> [Tables -> Reach]] /\ held'[s][t] = g
    BY <1>1, <1>2, <1>4, <1>5
  <2>2. ASSUME NEW x \in Stocks, NEW u \in Tables
        PROVE  held'[x][u] >= held[x][u] /\ (held[x][u] # None => held'[x][u] # None)
    <3>1. CASE x = s /\ u = t
      BY <1>4, <2>1, <3>1
    <3>2. CASE ~ (x = s /\ u = t)
      <4>1. held'[x][u] = held[x][u]
        BY <1>1, <1>5, <3>2
      <4>2. held[x][u] \in Nat
        BY <1>1, ReachIsNat
      <4> QED
        BY <4>1, <4>2
    <3> QED
      BY <3>1, <3>2
  <2> QED
    BY <1>2, <1>4, <2>1, <2>2 DEF Held
<1>7. /\ work' \in [Runners -> [Stocks -> Threads]]
      /\ \A q \in Runners, x \in Stocks :
           work'[q][x].ok = IF q = r /\ x = s THEN work[r][s].ok \cup {t} ELSE work[q][x].ok
  <2>1. Advance(work[r][s], {t}) \in Threads
          /\ Advance(work[r][s], {t}).ok = work[r][s].ok \cup {t}
    BY <1>2, AdvanceType
  <2>2. work' = [work EXCEPT ![r][s] = Advance(work[r][s], {t})]
    BY DEF FetchTable
  <2> QED
    BY <1>1, <2>1, <2>2
<1>8. UNCHANGED <<month, out, progress, main, faults, dated>>
  BY DEF FetchTable
<1>9. TypeOK'
  BY <1>1, <1>6, <1>7, <1>8 DEF TypeOK
<1>10. WorkInv'
  BY <1>1, <1>6, <1>7 DEF WorkInv
<1>11. SyncedInv'
  BY <1>1, <1>6, <1>8 DEF SyncedInv
<1>12. MainInv'
  <2> SUFFICES ASSUME NEW q \in Runners
               PROVE  /\ main[q].pc \in {"merge", "last", "write"} =>
                           main[q].stock \in Stocks /\ progress[main[q].stock].synced # {}
                      /\ main[q].pc \in {"last", "write"} =>
                           main[q].tables # {} /\ main[q].tables \subseteq Held(main[q].stock)'
                      /\ main[q].pc = "write" =>
                           \A u \in main[q].tables : main[q].min <= held'[main[q].stock][u]
    BY <1>8 DEF MainInv
  <2>1. main[q].min \in Nat /\ main[q].tables \subseteq Tables
    BY <1>1, ReachIsNat DEF Mains
  <2>2. \A x \in Stocks, u \in Tables : held[x][u] \in Nat /\ held'[x][u] \in Nat
    BY <1>1, <1>6, ReachIsNat
  <2>3. CASE main[q].pc \notin {"last", "write"}
    BY <1>1, <2>3 DEF MainInv
  <2>4. CASE main[q].pc \in {"last", "write"}
    <3>1. main[q].stock \in Stocks /\ progress[main[q].stock].synced # {}
      BY <1>1, <2>4 DEF MainInv
    <3>2. main[q].tables # {} /\ main[q].tables \subseteq Held(main[q].stock)'
      <4>1. main[q].tables # {} /\ main[q].tables \subseteq Held(main[q].stock)
        BY <1>1, <2>4 DEF MainInv
      <4>2. Held(main[q].stock) \subseteq Held(main[q].stock)'
        <5>1. main'[q].stock = main[q].stock
          BY <1>8
        <5> QED
          BY <1>6, <1>8, <3>1
      <4> QED
        BY <4>1, <4>2
    <3>3. ASSUME main[q].pc = "write", NEW u \in main[q].tables
          PROVE  main[q].min <= held'[main[q].stock][u]
      <4>1. main[q].min <= held[main[q].stock][u]
        BY <1>1, <3>3 DEF MainInv
      <4>2. held'[main[q].stock][u] >= held[main[q].stock][u]
        BY <1>6, <2>1, <3>1
      <4> QED
        BY <2>1, <2>2, <3>1, <4>1, <4>2
    <3> QED
      BY <3>1, <3>2, <3>3
  <2> QED
    BY <2>3, <2>4
<1>13. DatedInv'
  <2> SUFFICES ASSUME NEW x \in Stocks, NEW u \in dated[x]
               PROVE  progress[x].last <= held'[x][u]
    BY <1>8 DEF DatedInv
  <2>1. progress[x].last \in Nat /\ u \in Tables
    BY <1>1, ReachIsNat DEF TypeOK
  <2>2. held[x][u] \in Nat /\ held'[x][u] \in Nat
    BY <1>1, <1>6, <2>1, ReachIsNat
  <2> QED
    BY <1>1, <1>6, <2>1, <2>2 DEF DatedInv
<1> QED
  BY <1>9, <1>10, <1>11, <1>12, <1>13 DEF SyncInv

\* The first commit adds tables that have rows.
LEMMA SaveKeeps ==
  ASSUME SyncInv, NEW r \in Runners, NEW s \in Stocks, SaveProgress(r, s)
  PROVE  SyncInv'
<1>1. /\ TypeOK /\ WorkInv /\ SyncedInv /\ MainInv /\ DatedInv
      /\ work \in [Runners -> [Stocks -> Threads]] /\ main \in [Runners -> Mains]
  BY DEF SyncInv, TypeOK
<1> DEFINE ok == work[r][s].ok
<1>2. ok \in SUBSET Tables /\ ok \subseteq Held(s)
  <2>1. work[r][s] \in Threads
    BY <1>1
  <2> QED
    BY <1>1, <2>1 DEF Threads, WorkInv
<1>3. UNCHANGED <<month, out, held, faults, dated>>
  BY DEF SaveProgress
<1>4. /\ work' \in [Runners -> [Stocks -> Threads]]
      /\ \A q \in Runners, x \in Stocks : work'[q][x].ok \subseteq work[q][x].ok
  <2>1. work' = [work EXCEPT ![r][s] = NotAsked]
    BY DEF SaveProgress
  <2> QED
    BY <1>1, <2>1, Constant
<1>5. /\ progress' \in [Stocks -> [status : {"none", "success", "partial", "failed"},
                                   synced : SUBSET Tables, last : Reach]]
      /\ \A x \in Stocks : /\ progress'[x].last = progress[x].last
                           /\ progress[x].synced \subseteq progress'[x].synced
                           /\ progress'[x].synced \subseteq progress[x].synced \cup Held(x)
      /\ ok # {} => progress'[s].synced # {}
  <2>0. progress \in [Stocks -> [status : {"none", "success", "partial", "failed"},
                                synced : SUBSET Tables, last : Reach]]
    BY <1>1 DEF TypeOK
  <2>1. CASE ok # {}
    <3>1. progress' = [progress EXCEPT
                    ![s].status = IF ok = Tables THEN "success" ELSE "partial",
                    ![s].synced = progress[s].synced \cup ok]
      BY <2>1 DEF SaveProgress
    <3>2. progress'[s] = [progress[s] EXCEPT
                    !.status = IF ok = Tables THEN "success" ELSE "partial",
                    !.synced = progress[s].synced \cup ok]
            /\ \A x \in Stocks : x # s => progress'[x] = progress[x]
      BY <2>0, <3>1
    <3>3. progress'[s].last = progress[s].last
            /\ progress'[s].synced = progress[s].synced \cup ok
            /\ progress'[s] \in [status : {"none", "success", "partial", "failed"},
                                synced : SUBSET Tables, last : Reach]
      BY <1>2, <2>0, <3>2
    <3>4. progress' = [x \in Stocks |-> progress'[x]]
      BY <2>0, <3>1
    <3> QED
      BY <1>2, <2>0, <2>1, <3>2, <3>3, <3>4
  <2>2. CASE ok = {}
    <3>1. progress' = [progress EXCEPT ![s].status = "failed"]
      BY <2>2 DEF SaveProgress
    <3> QED
      BY <2>0, <2>2, <3>1
  <2> QED
    BY <2>1, <2>2
<1>6. /\ main' \in [Runners -> Mains]
      /\ \A q \in Runners : \/ main'[q] = main[q]
                            \/ main'[q].pc = "merge" /\ main'[q].stock = s /\ ok # {}
  <2>1. CASE ok # {}
    <3>1. main' = [main EXCEPT ![r] =
                    [pc |-> "merge", stock |-> s, tables |-> {}, min |-> None]]
      BY <2>1 DEF SaveProgress
    <3>2. [pc |-> "merge", stock |-> s, tables |-> {}, min |-> None] \in Mains
      BY ReachIsNat DEF Mains
    <3> QED
      BY <1>1, <2>1, <3>1, <3>2
  <2>2. CASE ok = {}
    BY <1>1, <2>2 DEF SaveProgress
  <2> QED
    BY <2>1, <2>2
<1>7. TypeOK'
  BY <1>1, <1>3, <1>4, <1>5, <1>6 DEF TypeOK
<1>8. WorkInv' /\ SyncedInv'
  BY <1>1, <1>3, <1>4, <1>5 DEF WorkInv, SyncedInv, Held
<1>9. MainInv'
  <2> SUFFICES ASSUME NEW q \in Runners
               PROVE  /\ main'[q].pc \in {"merge", "last", "write"} =>
                           main'[q].stock \in Stocks /\ progress'[main'[q].stock].synced # {}
                      /\ main'[q].pc \in {"last", "write"} =>
                           main'[q].tables # {} /\ main'[q].tables \subseteq Held(main'[q].stock)
                      /\ main'[q].pc = "write" =>
                           \A u \in main'[q].tables : main'[q].min <= held[main'[q].stock][u]
    BY <1>3 DEF MainInv, Held
  <2>1. CASE main'[q] = main[q]
    BY <1>1, <1>5, <2>1 DEF MainInv
  <2>2. CASE main'[q].pc = "merge" /\ main'[q].stock = s /\ ok # {}
    BY <1>5, <2>2
  <2> QED
    BY <1>6, <2>1, <2>2
<1>10. DatedInv'
  BY <1>1, <1>3, <1>5 DEF DatedInv, TypeOK
<1> QED
  BY <1>7, <1>8, <1>9, <1>10 DEF SyncInv

\* The tables read are the synchronised ones; the date read is their least.
LEMMA ReadKeeps ==
  ASSUME SyncInv, NEW r \in Runners, ReadMerged(r) \/ ReadLast(r)
  PROVE  SyncInv'
<1>1. /\ TypeOK /\ WorkInv /\ SyncedInv /\ MainInv /\ DatedInv /\ main \in [Runners -> Mains]
  BY DEF SyncInv, TypeOK
<1>2. UNCHANGED <<month, out, held, progress, work, faults, dated>>
  BY DEF ReadMerged, ReadLast
<1> DEFINE x == main[r].stock
<1>3. x \in Stocks /\ progress[x].synced # {} /\ main[r] \in Mains
  BY <1>1 DEF MainInv, ReadMerged, ReadLast
<1>4. /\ main' \in [Runners -> Mains]
      /\ \A q \in Runners : q # r => main'[q] = main[q]
      /\ main'[r].stock = x /\ main'[r].tables # {} /\ main'[r].tables \subseteq Held(x)
      /\ \/ main'[r].pc = "last"
         \/ main'[r].pc = "write" /\ \A t \in main'[r].tables : main'[r].min <= held[x][t]
  <2>1. CASE ReadMerged(r)
    <3>1. progress[x].synced \in SUBSET Tables /\ progress[x].synced \subseteq Held(x)
      BY <1>1, <1>3 DEF TypeOK, SyncedInv
    <3>2. main' = [main EXCEPT ![r] = [main[r] EXCEPT !.pc = "last",
                                          !.tables = progress[x].synced]]
      BY <1>1, <2>1 DEF ReadMerged
    <3>3. [main[r] EXCEPT !.pc = "last", !.tables = progress[x].synced] \in Mains
      BY <1>3, <3>1 DEF Mains
    <3>4. main'[r] = [main[r] EXCEPT !.pc = "last", !.tables = progress[x].synced]
      BY <1>1, <3>2
    <3>5. main'[r].pc = "last" /\ main'[r].tables = progress[x].synced /\ main'[r].stock = x
      BY <1>3, <3>4 DEF Mains
    <3> QED
      BY <1>1, <1>3, <3>1, <3>2, <3>3, <3>5
  <2>2. CASE ReadLast(r)
    <3> DEFINE dates == {held[x][t] : t \in main[r].tables} \ {None}
    <3>1. main[r].tables # {} /\ main[r].tables \subseteq Held(x) /\ main[r].tables \subseteq Tables
      BY <1>1, <1>3, <2>2 DEF ReadLast, MainInv, Mains
    <3>2. dates \in SUBSET Nat /\ dates # {} /\ dates \subseteq Reach
            /\ \A t \in main[r].tables : held[x][t] \in dates
      <4>1. \A t \in main[r].tables : held[x][t] \in Reach \ {None}
        BY <1>1, <1>3, <3>1 DEF Held, TypeOK
      <4> QED
        BY <3>1, <4>1, ReachIsNat
    <3>3. Least(dates) \in dates /\ \A y \in dates : Least(dates) <= y
      <4> HIDE DEF dates
      <4> QED
        BY <3>2, LeastIsLeast
    <3>4. main' = [main EXCEPT ![r] = [main[r] EXCEPT !.pc = "write", !.min = Least(dates)]]
      BY <1>1, <2>2 DEF ReadLast
    <3>5. [main[r] EXCEPT !.pc = "write", !.min = Least(dates)] \in Mains
      BY <1>3, <3>2, <3>3 DEF Mains
    <3>6. main'[r] = [main[r] EXCEPT !.pc = "write", !.min = Least(dates)]
      BY <1>1, <3>4
    <3>7. main'[r].pc = "write" /\ main'[r].min = Least(dates)
            /\ main'[r].tables = main[r].tables /\ main'[r].stock = x
      BY <1>3, <3>6 DEF Mains
    <3> HIDE DEF dates
    <3> QED
      BY <1>1, <3>1, <3>2, <3>3, <3>4, <3>5, <3>7
  <2> QED
    BY <2>1, <2>2
<1>5. TypeOK'
  BY <1>1, <1>2, <1>4 DEF TypeOK
<1>6. WorkInv' /\ SyncedInv' /\ DatedInv'
  BY <1>1, <1>2 DEF WorkInv, SyncedInv, DatedInv, Held
<1>7. MainInv'
  <2> SUFFICES ASSUME NEW q \in Runners
               PROVE  /\ main'[q].pc \in {"merge", "last", "write"} =>
                           main'[q].stock \in Stocks /\ progress[main'[q].stock].synced # {}
                      /\ main'[q].pc \in {"last", "write"} =>
                           main'[q].tables # {} /\ main'[q].tables \subseteq Held(main'[q].stock)
                      /\ main'[q].pc = "write" =>
                           \A u \in main'[q].tables : main'[q].min <= held[main'[q].stock][u]
    BY <1>2 DEF MainInv, Held
  <2>1. CASE q = r
    BY <1>3, <1>4, <2>1
  <2>2. CASE q # r
    BY <1>1, <1>4, <2>2 DEF MainInv
  <2> QED
    BY <2>1, <2>2
<1> QED
  BY <1>5, <1>6, <1>7 DEF SyncInv

\* The second commit stores a date that no table it is said to cover is below.
LEMMA WriteKeeps ==
  ASSUME SyncInv, NEW r \in Runners, WriteLast(r)
  PROVE  SyncInv'
<1>1. /\ TypeOK /\ WorkInv /\ SyncedInv /\ MainInv /\ DatedInv /\ main \in [Runners -> Mains]
  BY DEF SyncInv, TypeOK
<1> DEFINE x == main[r].stock
<1>2. /\ x \in Stocks /\ main[r] \in Mains
      /\ \A t \in main[r].tables : main[r].min <= held[x][t]
  BY <1>1 DEF MainInv, WriteLast
<1>3. UNCHANGED <<month, out, held, work, faults>>
  BY DEF WriteLast
<1>4. /\ progress' \in [Stocks -> [status : {"none", "success", "partial", "failed"},
                                   synced : SUBSET Tables, last : Reach]]
      /\ progress'[x].last = main[r].min
      /\ \A y \in Stocks : y # x => progress'[y] = progress[y]
      /\ \A y \in Stocks : progress'[y].synced = progress[y].synced
  <2>1. progress' = [progress EXCEPT ![x].last = main[r].min]
    BY DEF WriteLast
  <2>2. main[r].min \in Reach
    BY <1>2 DEF Mains
  <2> QED
    BY <1>1, <1>2, <2>1, <2>2 DEF TypeOK
<1>5. /\ dated' \in [Stocks -> SUBSET Tables] /\ dated'[x] = main[r].tables
      /\ \A y \in Stocks : y # x => dated'[y] = dated[y]
  BY <1>1, <1>2 DEF WriteLast, TypeOK, Mains
<1>6. /\ main' \in [Runners -> Mains] /\ main'[r].pc = "collect"
      /\ \A q \in Runners : q # r => main'[q] = main[q]
  BY <1>1, Constant DEF WriteLast, Waiting
<1>7. TypeOK'
  BY <1>1, <1>3, <1>4, <1>5, <1>6 DEF TypeOK
<1>8. WorkInv' /\ SyncedInv'
  BY <1>1, <1>3, <1>4 DEF WorkInv, SyncedInv, Held
<1>9. MainInv'
  <2> SUFFICES ASSUME NEW q \in Runners
               PROVE  /\ main'[q].pc \in {"merge", "last", "write"} =>
                           main'[q].stock \in Stocks /\ progress'[main'[q].stock].synced # {}
                      /\ main'[q].pc \in {"last", "write"} =>
                           main'[q].tables # {} /\ main'[q].tables \subseteq Held(main'[q].stock)
                      /\ main'[q].pc = "write" =>
                           \A u \in main'[q].tables : main'[q].min <= held[main'[q].stock][u]
    BY <1>3 DEF MainInv, Held
  <2>1. CASE q = r
    BY <1>6, <2>1
  <2>2. CASE q # r
    BY <1>1, <1>4, <1>6, <2>2 DEF MainInv
  <2> QED
    BY <2>1, <2>2
<1>10. DatedInv'
  <2> SUFFICES ASSUME NEW y \in Stocks, NEW t \in dated'[y]
               PROVE  progress'[y].last <= held[y][t]
    BY <1>3 DEF DatedInv
  <2>1. CASE y = x
    BY <1>2, <1>4, <1>5, <2>1
  <2>2. CASE y # x
    BY <1>1, <1>4, <1>5, <2>2 DEF DatedInv
  <2> QED
    BY <2>1, <2>2
<1> QED
  BY <1>7, <1>8, <1>9, <1>10 DEF SyncInv

-----------------------------------------------------------------------------
(* The theorems                                                            *)

LEMMA SyncNext == SyncInv /\ [Next]_vars => SyncInv'
BY QuietSteps, QuietKeeps, FetchKeeps, SaveKeeps, ReadKeeps, WriteKeeps
   DEF Next, MainStep, StockStep

LEMMA SyncInvHolds == Spec => []SyncInv
BY SyncInit, SyncNext, PTL DEF Spec

\* The state of the synchronisation has its type; in particular a date that
\* is computed over tables is computed over at least one that has rows.
THEOREM TypeCorrect == Spec => []TypeOK
<1>1. SyncInv => TypeOK
  BY DEF SyncInv
<1> QED
  BY <1>1, SyncInvHolds, PTL

\* A statement that lags behind another one of its stock is asked for by the
\* next run, if last_report_date was computed over tables_synced as it is.
THEOREM LaggardIsAsked == Spec => []LaggardAsked
<1>1. SyncInv => LaggardAsked
  <2> SUFFICES ASSUME SyncInv, NEW s \in Stocks, dated[s] = progress[s].synced,
                      NEW t \in Tables, Lags(s, t), ~Pending(s)
               PROVE  FALSE
    BY DEF LaggardAsked
  <2>1. DbMax(s) = progress[s].last /\ t \in dated[s]
    BY DEF Pending
  <2>2. progress[s].last <= held[s][t]
    BY <2>1 DEF SyncInv, DatedInv
  <2>3. progress[s].last \in Nat /\ held[s][t] \in Nat
    BY ReachIsNat DEF SyncInv, TypeOK
  <2> QED
    BY <2>1, <2>2, <2>3 DEF Lags
<1> QED
  BY <1>1, SyncInvHolds, PTL

-----------------------------------------------------------------------------
(* The queue of the Hong Kong fallback                                     *)

\* A row that is about to be written exists, and what the nightly job is going
\* to put back is a part of the file, whatever was appended or taken meanwhile.
RowInv ==
  /\ fallback.pc = "t1write" => fallback.left \subseteq Rows
  /\ drain.pc = "t2write" => drain.todo # <<>> /\ Head(drain.todo) \in Rows
QueueInv ==
  /\ IsInjective(queue) /\ IsInjective(drain.rest)
  /\ ToSet(drain.rest) \subseteq ToSet(queue)
  /\ fallback.pc = "append" => ToSet(queue) \subseteq fallback.known
CapexInv == CapexTypeOK /\ RowInv /\ QueueInv

\* There are finitely many reports.
LEMMA FiniteKeys == IsFiniteSet(Keys)
<1>1. IsFiniteSet(Slots) /\ NumReports \in [Slots -> Nat]
  BY CapexAssumption
<1> DEFINE f == [s \in Slots |-> {s} \X (1..NumReports[s])]
           T == {{s} \X (1..NumReports[s]) : s \in Slots}
<1>2. f \in Surjection(Slots, T)
  BY DEF Surjection
<1>3. IsFiniteSet(T)
  <2> HIDE DEF f, T
  <2> QED
    BY <1>1, <1>2, FS_Surjection
<1>4. \A t \in T : IsFiniteSet(t)
  <2> SUFFICES ASSUME NEW s \in Slots PROVE IsFiniteSet({s} \X (1..NumReports[s]))
    OBVIOUS
  <2>1. IsFiniteSet({s})
    BY FS_Singleton
  <2>2. 1 \in Int /\ NumReports[s] \in Int
    BY <1>1
  <2>3. IsFiniteSet(1..NumReports[s])
    BY <2>2, FS_Interval
  <2> QED
    BY <2>1, <2>3, FS_Product
<1>5. IsFiniteSet(UNION T)
  <2> HIDE DEF T
  <2> QED
    BY <1>3, <1>4, FS_UNION
<1> QED
  BY <1>5 DEF Keys

\* A finite set is written down as a sequence of its elements, each of them once.
LEMMA SetAsSequence ==
  ASSUME NEW S, IsFiniteSet(S)
  PROVE  SetToSeq(S) \in Seq(S) /\ IsInjective(SetToSeq(S))
<1>1. Cardinality(S) \in Nat /\ ExistsBijection(1..Cardinality(S), S)
  BY FS_CardinalityType
<1>2. PICK f \in [1..Cardinality(S) -> S] : IsInjective(f)
  BY <1>1, Zenon DEF ExistsBijection, Bijection, Injection, IsInjective
<1>3. SetToSeq(S) \in [1..Cardinality(S) -> S] /\ IsInjective(SetToSeq(S))
  BY <1>2, Zenon DEF SetToSeq
<1> QED
  BY <1>1, <1>3

\* Appending to a sequence without repetitions one that has none either, and
\* nothing in common with it.
LEMMA JoinInjective ==
  ASSUME NEW S, NEW q \in Seq(S), NEW p \in Seq(S),
         IsInjective(q), IsInjective(p),
         ToSet(q) \cap ToSet(p) = {}
  PROVE  IsInjective(q \o p)
<1>1. /\ Len(q) \in Nat /\ Len(p) \in Nat
      /\ DOMAIN q = 1..Len(q) /\ DOMAIN p = 1..Len(p)
      /\ DOMAIN (q \o p) = 1..(Len(q) + Len(p))
      /\ \A i \in 1..(Len(q) + Len(p)) :
           (q \o p)[i] = IF i <= Len(q) THEN q[i] ELSE p[i - Len(q)]
  OBVIOUS
<1>2. ASSUME NEW i \in 1..(Len(q) + Len(p)), NEW j \in 1..(Len(q) + Len(p)),
             (q \o p)[i] = (q \o p)[j]
      PROVE  i = j
  <2>1. CASE i <= Len(q) /\ j <= Len(q)
    BY <1>1, <1>2, <2>1 DEF IsInjective
  <2>2. CASE i > Len(q) /\ j > Len(q)
    <3>1. i - Len(q) \in DOMAIN p /\ j - Len(q) \in DOMAIN p
      BY <1>1, <2>2
    <3>2. p[i - Len(q)] = p[j - Len(q)]
      BY <1>1, <1>2, <2>2
    <3>3. i - Len(q) = j - Len(q)
      BY <3>1, <3>2 DEF IsInjective
    <3> QED
      BY <3>3, <1>1
  <2>3. ASSUME NEW a \in 1..Len(q), NEW b \in 1..(Len(q) + Len(p)), b > Len(q)
        PROVE  q[a] # p[b - Len(q)]
    <3>1. a \in DOMAIN q /\ b - Len(q) \in DOMAIN p
      BY <1>1, <2>3
    <3>2. q[a] \in ToSet(q) /\ p[b - Len(q)] \in ToSet(p)
      BY <3>1 DEF ToSet
    <3> QED
      BY <3>2
  <2>4. CASE i <= Len(q) /\ j > Len(q)
    BY <1>1, <1>2, <2>3, <2>4
  <2>5. CASE i > Len(q) /\ j <= Len(q)
    BY <1>1, <1>2, <2>3, <2>5
  <2> QED
    BY <1>1, <2>1, <2>2, <2>4, <2>5
<1> QED
  BY <1>1, <1>2 DEF IsInjective

\* The elements of two sequences together.
LEMMA JoinElements ==
  ASSUME NEW S, NEW q \in Seq(S), NEW p \in Seq(S)
  PROVE  ToSet(q \o p) = ToSet(q) \cup ToSet(p)
<1>1. /\ Len(q) \in Nat /\ Len(p) \in Nat
      /\ DOMAIN q = 1..Len(q) /\ DOMAIN p = 1..Len(p)
      /\ DOMAIN (q \o p) = 1..(Len(q) + Len(p))
      /\ \A i \in 1..(Len(q) + Len(p)) :
           (q \o p)[i] = IF i <= Len(q) THEN q[i] ELSE p[i - Len(q)]
  OBVIOUS
<1>2. ASSUME NEW i \in DOMAIN (q \o p)
      PROVE  (q \o p)[i] \in ToSet(q) \cup ToSet(p)
  <2>1. CASE i <= Len(q)
    BY <1>1, <2>1 DEF ToSet
  <2>2. CASE i > Len(q)
    <3>1. i - Len(q) \in DOMAIN p /\ (q \o p)[i] = p[i - Len(q)]
      BY <1>1, <2>2
    <3> QED
      BY <3>1 DEF ToSet
  <2> QED
    BY <1>1, <2>1, <2>2
<1>3. ASSUME NEW i \in DOMAIN q PROVE q[i] \in ToSet(q \o p)
  <2>1. i \in DOMAIN (q \o p) /\ (q \o p)[i] = q[i]
    BY <1>1
  <2> QED
    BY <2>1 DEF ToSet
<1>4. ASSUME NEW i \in DOMAIN p PROVE p[i] \in ToSet(q \o p)
  <2>1. i + Len(q) \in DOMAIN (q \o p) /\ (q \o p)[i + Len(q)] = p[i]
    BY <1>1
  <2> QED
    BY <2>1 DEF ToSet
<1>5. ToSet(q \o p) \subseteq ToSet(q) \cup ToSet(p)
  BY <1>2 DEF ToSet
<1>6. ToSet(q) \subseteq ToSet(q \o p) /\ ToSet(p) \subseteq ToSet(q \o p)
  BY <1>3, <1>4 DEF ToSet
<1> QED
  BY <1>5, <1>6

\* A part of a sequence has no repetitions if the sequence has none.
LEMMA PartInjective ==
  ASSUME NEW S, NEW q \in Seq(S), NEW m \in 1..(Len(q) + 1), IsInjective(q)
  PROVE  /\ SubSeq(q, m, Len(q)) \in Seq(S)
         /\ IsInjective(SubSeq(q, m, Len(q)))
         /\ ToSet(SubSeq(q, m, Len(q))) \subseteq ToSet(q)
<1> DEFINE p == SubSeq(q, m, Len(q))
<1>1. /\ Len(q) \in Nat /\ DOMAIN q = 1..Len(q) /\ p \in Seq(S)
      /\ DOMAIN p = 1..(Len(q) - m + 1)
      /\ \A i \in DOMAIN p : p[i] = q[i + m - 1] /\ i + m - 1 \in DOMAIN q
  OBVIOUS
<1> HIDE DEF p
<1>2. IsInjective(p)
  <2> SUFFICES ASSUME NEW i \in DOMAIN p, NEW j \in DOMAIN p, p[i] = p[j] PROVE i = j
    BY DEF IsInjective
  <2>1. i + m - 1 = j + m - 1
    BY <1>1 DEF IsInjective
  <2> QED
    BY <1>1, <2>1
<1>3. ToSet(p) \subseteq ToSet(q)
  BY <1>1 DEF ToSet
<1> QED
  BY <1>1, <1>2, <1>3 DEF p

LEMMA CapexStarts == CapexInit => CapexInv
<1> SUFFICES ASSUME CapexInit PROVE CapexInv
  OBVIOUS
<1> USE DEF CapexInit, NoFallback, NoDrain
<1>1. CapexTypeOK
  BY CapexAssumption DEF CapexTypeOK
<1>2. RowInv
  BY DEF RowInv
<1>3. QueueInv
  BY DEF QueueInv, IsInjective, ToSet
<1> QED
  BY <1>1, <1>2, <1>3 DEF CapexInv

\* The synchronisation: rows are added, and none goes.
LEMMA SyncKeeps ==
  ASSUME CapexInv, NEW s \in Slots, Sync(s)
  PROVE  CapexInv'
<1>0. PICK n \in {latest[s], latest[s] + 1} \cap (1..NumReports[s]) :
        \E has \in SUBSET (1..n) :
          latest' = [latest EXCEPT ![s] = n] /\ filled' = Upsert(s, n, has)
  BY DEF Sync
<1>1. PICK has \in SUBSET (1..n) :
        latest' = [latest EXCEPT ![s] = n] /\ filled' = Upsert(s, n, has)
  BY <1>0
<1>2. /\ latest \in [Slots -> Nat] /\ \A x \in Slots : latest[x] <= NumReports[x]
      /\ NumReports \in [Slots -> Nat]
  BY CapexAssumption DEF CapexInv, CapexTypeOK
<1>3. latest' \in [Slots -> Nat] /\ \A x \in Slots : latest'[x] <= NumReports[x]
  BY <1>1, <1>2
<1>4. Rows \subseteq Rows'
  <2> SUFFICES ASSUME NEW k \in Keys, k[2] <= latest[k[1]] PROVE k[2] <= latest'[k[1]]
    BY DEF Rows
  <2>1. PICK x \in Slots : k \in {x} \X (1..NumReports[x])
    BY DEF Keys
  <2>2. k[1] = x /\ k[2] \in Nat
    BY <2>1, <1>2
  <2> QED
    BY <1>1, <1>2, <2>2
<1>5. filled' \subseteq Rows'
  <2>1. filled \subseteq Rows
    BY DEF CapexInv, CapexTypeOK
  <2>2. ASSUME NEW p \in has PROVE <<s, p>> \in Rows'
    <3>1. <<s, p>> \in {s} \X (1..NumReports[s]) /\ p <= latest'[s]
      BY <1>1, <1>2
    <3>2. <<s, p>> \in Keys
      BY <3>1 DEF Keys
    <3> QED
      BY <3>1, <3>2 DEF Rows
  <2> QED
    BY <1>1, <1>4, <2>1, <2>2 DEF Upsert
<1>6. filled \subseteq filled'
  BY <1>1 DEF Upsert
<1>7. UNCHANGED <<shown, queue, skip, fallback, drain, failures>>
  BY DEF Sync
<1>8. CapexTypeOK'
  BY <1>3, <1>5, <1>6, <1>7 DEF CapexInv, CapexTypeOK
<1>9. RowInv' /\ QueueInv'
  BY <1>4, <1>7 DEF CapexInv, RowInv, QueueInv
<1> QED
  BY <1>8, <1>9 DEF CapexInv

\* Steps of the fallback that leave the file alone.
LEMMA LookKeeps ==
  ASSUME CapexInv,
         \/ Detect \/ DetectAgain \/ LoadSkipKeys \/ LoadQueue
         \/ \E k \in Keys : T1Check(k) \/ T1Write(k)
         \/ FallbackFails \/ \E ok \in BOOLEAN : RefreshAfterSync(ok)
  PROVE  CapexInv'
<1> USE DEF NoFallback
<1>0. /\ Rows \subseteq Keys
      /\ UNCHANGED latest => Rows' = Rows
  BY DEF Rows, Keys
<1>1. CASE Detect
  <2>1. OfTheirStocks \subseteq Keys
    BY DEF OfTheirStocks
  <2>2. CapexTypeOK'
    BY <1>0, <1>1, <2>1 DEF Detect, CapexInv, CapexTypeOK
  <2>3. RowInv' /\ QueueInv'
    BY <1>0, <1>1 DEF Detect, CapexInv, CapexTypeOK, RowInv, QueueInv
  <2> QED
    BY <2>2, <2>3 DEF CapexInv
<1>2. CASE DetectAgain
  <2>1. Candidates \subseteq Keys
    BY <1>0 DEF Candidates, Nulls
  <2>2. CapexTypeOK'
    BY <1>0, <1>2, <2>1 DEF DetectAgain, CapexInv, CapexTypeOK
  <2>3. RowInv' /\ QueueInv'
    BY <1>0, <1>2 DEF DetectAgain, CapexInv, CapexTypeOK, RowInv, QueueInv
  <2> QED
    BY <2>2, <2>3 DEF CapexInv
<1>3. CASE LoadSkipKeys
  <2>2. CapexTypeOK'
    BY <1>0, <1>3 DEF LoadSkipKeys, CapexInv, CapexTypeOK
  <2>3. RowInv' /\ QueueInv'
    BY <1>0, <1>3 DEF LoadSkipKeys, CapexInv, CapexTypeOK, RowInv, QueueInv
  <2> QED
    BY <2>2, <2>3 DEF CapexInv
<1>4. CASE LoadQueue
  <2>1. ToSet(queue) \subseteq Keys
    BY DEF CapexInv, CapexTypeOK, ToSet
  <2>2. CapexTypeOK'
    BY <1>0, <1>4, <2>1 DEF LoadQueue, CapexInv, CapexTypeOK
  <2>3. RowInv' /\ QueueInv'
    BY <1>0, <1>4 DEF LoadQueue, CapexInv, CapexTypeOK, RowInv, QueueInv
  <2> QED
    BY <2>2, <2>3 DEF CapexInv
<1>5. ASSUME NEW k \in Keys, T1Check(k) PROVE CapexInv'
  <2>1. Nulls \subseteq Rows
    BY DEF Nulls
  <2>2. CapexTypeOK'
    BY <1>0, <1>5 DEF T1Check, CapexInv, CapexTypeOK
  <2>3. RowInv' /\ QueueInv'
    BY <1>0, <1>5, <2>1 DEF T1Check, CapexInv, CapexTypeOK, RowInv, QueueInv
  <2> QED
    BY <2>2, <2>3 DEF CapexInv
<1>6. ASSUME NEW k \in Keys, T1Write(k) PROVE CapexInv'
  <2>1. k \in Rows
    BY <1>6 DEF T1Write, CapexInv, RowInv
  <2>2. CapexTypeOK'
    BY <1>0, <1>6, <2>1 DEF T1Write, CapexInv, CapexTypeOK
  <2>3. RowInv' /\ QueueInv'
    BY <1>0, <1>6 DEF T1Write, CapexInv, CapexTypeOK, RowInv, QueueInv
  <2> QED
    BY <2>2, <2>3 DEF CapexInv
<1>7. CASE FallbackFails
  <2>1. failures' \in 0..MaxFailures
    BY CapexAssumption, <1>7 DEF FallbackFails, CapexInv, CapexTypeOK
  <2>2. CapexTypeOK'
    BY <1>0, <1>7, <2>1 DEF FallbackFails, CapexInv, CapexTypeOK
  <2>3. RowInv' /\ QueueInv'
    BY <1>0, <1>7 DEF FallbackFails, CapexInv, CapexTypeOK, RowInv, QueueInv
  <2> QED
    BY <2>2, <2>3 DEF CapexInv
<1>8. ASSUME NEW ok \in BOOLEAN, RefreshAfterSync(ok) PROVE CapexInv'
  <2>2. CapexTypeOK'
    BY <1>0, <1>8 DEF RefreshAfterSync, CapexInv, CapexTypeOK
  <2>3. RowInv' /\ QueueInv'
    BY <1>0, <1>8 DEF RefreshAfterSync, CapexInv, CapexTypeOK, RowInv, QueueInv
  <2> QED
    BY <2>2, <2>3 DEF CapexInv
<1> QED
  BY <1>1, <1>2, <1>3, <1>4, <1>5, <1>6, <1>7, <1>8

\* What is appended is not in the file, though the nightly job may have taken
\* entries out since the fallback read it: it adds none.
LEMMA AppendKeeps ==
  ASSUME CapexInv, Append2Queue
  PROVE  CapexInv'
<1> USE DEF NoFallback
<1> DEFINE new == (fallback.left \ fallback.skips) \ fallback.known
           p == SetToSeq(new)
<1>1. /\ queue' = queue \o p
      /\ fallback' = [NoFallback EXCEPT !.pc = "refresh"]
      /\ UNCHANGED <<latest, filled, shown, skip, drain, failures>>
      /\ fallback.pc = "append"
  BY DEF Append2Queue
<1>2. new \subseteq Keys /\ queue \in Seq(Keys)
  BY DEF CapexInv, CapexTypeOK
<1>3. IsFiniteSet(new)
  BY <1>2, FiniteKeys, FS_Subset
<1>4. p \in Seq(new) /\ IsInjective(p)
  <2> HIDE DEF new
  <2> QED
    BY <1>3, SetAsSequence
<1>5. ToSet(p) \subseteq new /\ p \in Seq(Keys)
  <2> HIDE DEF new, p
  <2> QED
    BY <1>2, <1>4 DEF ToSet
<1>6. ToSet(queue) \cap ToSet(p) = {}
  <2>1. ToSet(queue) \subseteq fallback.known
    BY <1>1 DEF CapexInv, QueueInv
  <2> HIDE DEF p
  <2> QED
    BY <1>5, <2>1
<1> HIDE DEF p, new
<1>7. IsInjective(queue)
  BY DEF CapexInv, QueueInv
<1>8. IsInjective(queue \o p)
  BY <1>2, <1>4, <1>5, <1>6, <1>7, JoinInjective
<1>9. ToSet(queue) \subseteq ToSet(queue \o p)
  BY <1>2, <1>5, JoinElements
<1>10. Rows' = Rows
  BY <1>1 DEF Rows, Keys
<1>11. CapexTypeOK'
  <2>1. queue' \in Seq(Keys)
    BY <1>1, <1>2, <1>5
  <2> QED
    BY <1>1, <1>10, <2>1 DEF CapexInv, CapexTypeOK
<1>12. RowInv'
  BY <1>1, <1>10 DEF CapexInv, RowInv
<1>13. QueueInv'
  BY <1>1, <1>8, <1>9 DEF CapexInv, QueueInv
<1> QED
  BY <1>11, <1>12, <1>13 DEF CapexInv

\* The nightly job begins with a part of the file.
LEMMA BatchKeeps ==
  ASSUME CapexInv, LoadBatch
  PROVE  CapexInv'
<1> USE DEF NoDrain
<1> DEFINE n == IF Len(queue) < Limit THEN Len(queue) ELSE Limit
           first == SubSeq(queue, 1, n)
           rest == SubSeq(queue, n + 1, Len(queue))
<1>1. /\ drain' = [pc |-> "t2", todo |-> first, rest |-> rest, wrote |-> FALSE]
      /\ UNCHANGED <<latest, filled, shown, queue, skip, fallback, failures>>
  BY DEF LoadBatch
<1>2. queue \in Seq(Keys) /\ Len(queue) \in Nat /\ Limit \in Nat \ {0}
  BY CapexAssumption DEF CapexInv, CapexTypeOK
<1>3. n \in 0..Len(queue)
  BY <1>2
<1> HIDE DEF n
<1>4. first \in Seq(Keys)
  BY <1>2, <1>3
<1>5. n + 1 \in 1..(Len(queue) + 1) /\ IsInjective(queue)
  BY <1>2, <1>3 DEF CapexInv, QueueInv
<1>6. /\ rest \in Seq(Keys) /\ IsInjective(rest)
      /\ ToSet(rest) \subseteq ToSet(queue)
  BY <1>2, <1>5, PartInjective
<1> HIDE DEF first, rest
<1>7. Rows' = Rows
  BY <1>1 DEF Rows, Keys
<1>8. CapexTypeOK'
  BY <1>1, <1>4, <1>6, <1>7 DEF CapexInv, CapexTypeOK
<1>9. RowInv' /\ QueueInv'
  BY <1>1, <1>6, <1>7 DEF CapexInv, RowInv, QueueInv
<1> QED
  BY <1>8, <1>9 DEF CapexInv

\* Its steps over the entries leave the file and the rest alone.
LEMMA DrainKeeps ==
  ASSUME CapexInv,
         \/ Unreadable \/ Hopeless \/ Found \/ T2Write
         \/ DrainFails \/ \E ok \in BOOLEAN : RefreshAfterDrain(ok)
  PROVE  CapexInv'
<1> USE DEF NoDrain, NextTarget, Target, Reading
<1>0. /\ Rows \subseteq Keys
      /\ UNCHANGED latest => Rows' = Rows
  BY DEF Rows, Keys
<1>1. drain.todo \in Seq(Keys)
  BY DEF CapexInv, CapexTypeOK
<1>2. drain.todo # <<>> =>
        Head(drain.todo) \in Keys /\ Tail(drain.todo) \in Seq(Keys)
  BY <1>1
<1>3. CASE Unreadable
  <2>1. CapexTypeOK'
    BY <1>0, <1>2, <1>3 DEF Unreadable, CapexInv, CapexTypeOK
  <2>2. RowInv' /\ QueueInv'
    BY <1>0, <1>3 DEF Unreadable, CapexInv, CapexTypeOK, RowInv, QueueInv
  <2> QED
    BY <2>1, <2>2 DEF CapexInv
<1>4. CASE Hopeless
  <2>1. CapexTypeOK'
    BY <1>0, <1>2, <1>4 DEF Hopeless, CapexInv, CapexTypeOK
  <2>2. RowInv' /\ QueueInv'
    BY <1>0, <1>4 DEF Hopeless, CapexInv, CapexTypeOK, RowInv, QueueInv
  <2> QED
    BY <2>1, <2>2 DEF CapexInv
<1>5. CASE Found
  <2>1. CapexTypeOK'
    BY <1>0, <1>2, <1>5 DEF Found, CapexInv, CapexTypeOK
  <2>2. RowInv' /\ QueueInv'
    BY <1>0, <1>5 DEF Found, CapexInv, CapexTypeOK, RowInv, QueueInv, Nulls
  <2> QED
    BY <2>1, <2>2 DEF CapexInv
<1>6. CASE T2Write
  <2>0. drain.todo # <<>> /\ Head(drain.todo) \in Rows
    BY <1>6 DEF T2Write, CapexInv, RowInv
  <2>1. /\ filled' = filled \cup {Head(drain.todo)} /\ skip' = skip \ {Head(drain.todo)}
        /\ drain' = [drain EXCEPT !.pc = "t2", !.todo = Tail(@), !.wrote = TRUE]
        /\ UNCHANGED <<latest, shown, queue, fallback, failures>>
    BY <1>6 DEF T2Write, CapexInv, CapexTypeOK
  <2>2. filled' \subseteq Rows' /\ shown' \subseteq filled' /\ skip' \subseteq Keys
    BY <1>0, <2>0, <2>1 DEF CapexInv, CapexTypeOK
  <2>3. CapexTypeOK'
    BY <1>2, <2>0, <2>1, <2>2 DEF CapexInv, CapexTypeOK
  <2>4. RowInv' /\ QueueInv'
    BY <1>0, <1>6 DEF T2Write, CapexInv, CapexTypeOK, RowInv, QueueInv
  <2> QED
    BY <2>3, <2>4 DEF CapexInv
<1>7. CASE DrainFails
  <2>0. failures' \in 0..MaxFailures
    BY CapexAssumption, <1>7 DEF DrainFails, CapexInv, CapexTypeOK
  <2>1. CapexTypeOK'
    BY <1>0, <1>7, <2>0 DEF DrainFails, CapexInv, CapexTypeOK
  <2>2. RowInv' /\ QueueInv'
    BY <1>0, <1>7 DEF DrainFails, CapexInv, RowInv, QueueInv, IsInjective, ToSet
  <2> QED
    BY <2>1, <2>2 DEF CapexInv
<1>8. ASSUME NEW ok \in BOOLEAN, RefreshAfterDrain(ok) PROVE CapexInv'
  <2>1. CapexTypeOK'
    BY <1>0, <1>8 DEF RefreshAfterDrain, CapexInv, CapexTypeOK
  <2>2. RowInv' /\ QueueInv'
    BY <1>0, <1>8 DEF RefreshAfterDrain, CapexInv, RowInv, QueueInv,
                      IsInjective, ToSet
  <2> QED
    BY <2>1, <2>2 DEF CapexInv
<1> QED
  BY <1>3, <1>4, <1>5, <1>6, <1>7, <1>8

\* What it puts back is a part of the file as it is by then, so that whoever
\* knew the file knows it still.
LEMMA SaveQueueKeeps ==
  ASSUME CapexInv, SaveQueue
  PROVE  CapexInv'
<1> USE DEF NoDrain
<1>1. /\ queue' = drain.rest
      /\ drain' = [NoDrain EXCEPT !.pc = IF drain.wrote THEN "refresh" ELSE "idle"]
      /\ UNCHANGED <<latest, filled, shown, skip, fallback, failures>>
  BY DEF SaveQueue
<1>2. Rows' = Rows
  BY <1>1 DEF Rows, Keys
<1>3. CapexTypeOK'
  <2>1. drain.rest \in Seq(Keys)
    BY DEF CapexInv, CapexTypeOK
  <2>2. drain' \in [pc : {"idle", "t2", "t2write", "refresh"},
                   todo : Seq(Keys), rest : Seq(Keys), wrote : BOOLEAN]
    <3>1. \/ drain' = [NoDrain EXCEPT !.pc = "refresh"]
          \/ drain' = [NoDrain EXCEPT !.pc = "idle"]
      BY <1>1, Zenon
    <3>2. <<>> \in Seq(Keys)
      OBVIOUS
    <3> QED
      BY <3>1, <3>2
  <2> QED
    BY <1>1, <1>2, <2>1, <2>2 DEF CapexInv, CapexTypeOK
<1>4. RowInv'
  BY <1>1, <1>2 DEF CapexInv, RowInv
<1>5. drain'.rest = <<>>
  BY <1>1
<1>6. IsInjective(drain'.rest) /\ ToSet(drain'.rest) = {}
  BY <1>5 DEF IsInjective, ToSet
<1>7. QueueInv'
  BY <1>1, <1>6 DEF CapexInv, QueueInv
<1> QED
  BY <1>3, <1>4, <1>7 DEF CapexInv

LEMMA CrashKeeps ==
  ASSUME CapexInv, SchedulerDies
  PROVE  CapexInv'
<1> USE DEF NoDrain, NoFallback
<1>1. /\ fallback' = NoFallback /\ drain' = NoDrain
      /\ failures' = failures + 1 /\ failures < MaxFailures
      /\ UNCHANGED <<latest, filled, shown, queue, skip>>
  BY DEF SchedulerDies
<1>2. Rows' = Rows
  BY <1>1 DEF Rows, Keys
<1>3. failures' \in 0..MaxFailures
  BY CapexAssumption, <1>1 DEF CapexInv, CapexTypeOK
<1>4. CapexTypeOK'
  BY <1>1, <1>2, <1>3 DEF CapexInv, CapexTypeOK
<1>5. RowInv' /\ QueueInv'
  BY <1>1, <1>2 DEF CapexInv, RowInv, QueueInv, IsInjective, ToSet
<1> QED
  BY <1>4, <1>5 DEF CapexInv

LEMMA CapexSteps ==
  CapexInv /\ [CapexNext]_capexVars => CapexInv'
<1> SUFFICES ASSUME CapexInv, [CapexNext]_capexVars
             PROVE  CapexInv'
  OBVIOUS
<1>1. CASE UNCHANGED capexVars
  <2>1. UNCHANGED <<latest, filled, shown, queue, skip, fallback, drain, failures>>
    BY <1>1 DEF capexVars
  <2>2. Rows' = Rows
    BY <2>1 DEF Rows, Keys
  <2> QED
    BY <2>1, <2>2 DEF CapexInv, CapexTypeOK, RowInv, QueueInv
<1>2. CASE CapexNext
  BY <1>2, SyncKeeps, LookKeeps, AppendKeeps, BatchKeeps, DrainKeeps, SaveQueueKeeps,
     CrashKeeps
     DEF CapexNext, Look
<1> QED
  BY <1>1, <1>2

LEMMA CapexInvHolds == CapexSpec => []CapexInv
<1>1. CapexInit => CapexInv
  BY CapexStarts
<1>2. CapexInv /\ [CapexNext]_capexVars => CapexInv'
  BY CapexSteps
<1> QED
  BY <1>1, <1>2, PTL DEF CapexSpec

\* Only rows that exist are filled, and what is shown is filled: the
\* synchronisation takes no value away that the views show.
THEOREM CapexTyping == CapexSpec => []CapexTypeOK
<1>1. CapexInv => CapexTypeOK
  BY DEF CapexInv
<1>2. CapexSpec => []CapexInv
  BY CapexInvHolds
<1> QED
  BY <1>1, <1>2, PTL

\* Each entry is in the queue once, though two jobs write the file and each
\* holds an older copy of it when it does.
THEOREM QueuedOnce == CapexSpec => []OnceInQueue
<1>1. CapexInv => OnceInQueue
  BY DEF CapexInv, QueueInv, OnceInQueue
<1>2. CapexSpec => []CapexInv
  BY CapexInvHolds
<1> QED
  BY <1>1, <1>2, PTL
=============================================================================
