-------------------------- MODULE UsPipelineProofs --------------------------
(***************************************************************************)
(* Proofs about UsPipeline, for every set of tickers, excuse table and     *)
(* bound: its types, that the scheduled job publishes only behind its      *)
(* gate, and that no filing is left out for long.                          *)
(***************************************************************************)
EXTENDS UsPipeline, WellFoundedInduction, TLAPS

\* What the assumption says, fact by fact.
LEMMA ConstantFacts ==
  /\ Parts \in Nat /\ Parts > 0
  /\ MaxAttempts \in Nat /\ MaxAttempts > 0
  /\ MaxFilings \in Nat /\ MaxFilings > 0
  /\ OldAge \in Nat /\ OldAge > 0
  /\ MaxFaults \in Nat /\ MaxIndexes \in Nat /\ MaxRest \in Nat
  /\ Indexed \subseteq Tickers
BY PipelineAssumption

\* A job, or a command, that ingests does so for a ticker and a statement,
\* and one that waits has an attempt left.
JobTypes ==
  /\ job \in Jobs
  /\ job.pc \in {"ingest", "record"} => job.ticker \in Tickers
  /\ job.pc = "ingest" => job.part \in Statements
  /\ job.pc = "wait" => job.attempt < MaxAttempts
HandTypes ==
  /\ hand \in Hands
  /\ hand.pc = "reparse" => hand.ticker \in Tickers /\ hand.part \in Statements
TableTypes ==
  /\ published \in [Tickers -> Filings]
  /\ age \in [Tickers -> [1..MaxFilings -> 0..OldAge]]
  /\ index \subseteq Tickers
  /\ listed \subseteq Tickers
  /\ supplement \subseteq Tickers
  /\ raw \in [Tickers -> Filings]
  /\ layer \in [Tickers -> Contents]
  /\ snap \in [Tickers -> Contents]
  /\ progress \in [Tickers -> [status : {"none", "success", "failed"},
                               days : 0..OldAge]]
  /\ valid \in BOOLEAN
  /\ due \in BOOLEAN
  /\ rest \in 0..MaxRest
  /\ faults \in 0..MaxFaults
  /\ indexes \in 0..MaxIndexes

\* The inductive invariant of the types.
Typed == JobTypes /\ HandTypes /\ TableTypes

\* The invariant is the type invariant of the module, named part by part.
LEMMA TypedIsTypeOK == Typed => TypeOK
BY DEF Typed, TypeOK, JobTypes, HandTypes, TableTypes

\* The job's rest state has its type.
LEMMA NoJobTyped == NoJob \in Jobs
<1>1. Unseen \in Sightings
  <2>1. {} \in SUBSET Tickers /\ Unseen \in [{} -> Contents]
    BY DEF Unseen
  <2> QED BY <2>1 DEF Sightings
<1> QED BY <1>1, ConstantFacts DEF NoJob, Jobs

\* The job's rest state is idle.
LEMMA NoJobIdle == NoJob.pc = "idle"
BY DEF NoJob

\* The rest state of the command by hand has its type.
LEMMA NoHandTyped == NoHand \in Hands
<1>1. Unseen \in Sightings
  <2>1. {} \in SUBSET Tickers /\ Unseen \in [{} -> Contents]
    BY DEF Unseen
  <2> QED BY <2>1 DEF Sightings
<1> QED BY <1>1, ConstantFacts DEF NoHand, Hands, Filings

\* The next of a set of tickers is one of it.
LEMMA NextOfMember ==
  ASSUME NEW S, S # {}
  PROVE NextOf(S) \in S
BY DEF NextOf

\* An ingest leaves contents, and the newest filing known does not go back.
LEMMA IngestedTyped ==
  ASSUME layer \in [Tickers -> Contents],
         NEW t \in Tickers, NEW p \in Statements, NEW document \in Filings
  PROVE Ingested(t, p, document) \in [Tickers -> Contents]
BY DEF Ingested, Contents

\* Reading one more stock leaves a job's, or a command's, sightings typed.
LEMMA SightingsGrow ==
  ASSUME NEW seen \in Sightings, NEW t \in Tickers,
         layer \in [Tickers -> Contents]
  PROVE [u \in DOMAIN seen \cup {t} |-> IF u = t THEN layer[t] ELSE seen[u]]
          \in Sightings
<1>1. PICK S \in SUBSET Tickers : seen \in [S -> Contents]
  BY DEF Sightings
<1>2. S \cup {t} \in SUBSET Tickers
  OBVIOUS
<1>3. [u \in DOMAIN seen \cup {t} |-> IF u = t THEN layer[t] ELSE seen[u]]
        \in [S \cup {t} -> Contents]
  BY <1>1
<1> QED
  BY <1>2, <1>3 DEF Sightings

\* What a projection that has read all its stocks writes is contents.
LEMMA ShownTyped ==
  ASSUME NEW j, j.seen \in Sightings, j.stocks \subseteq Tickers,
         Unread(j) = {}, snap \in [Tickers -> Contents]
  PROVE Shown(j) \in [Tickers -> Contents]
<1>1. PICK S \in SUBSET Tickers : j.seen \in [S -> Contents]
  BY DEF Sightings
<1>2. \A t \in j.stocks : j.seen[t] \in Contents
  BY <1>1 DEF Unread
<1> QED
  BY <1>2 DEF Shown

\* Going on to the next ticker leaves a job and what it found.
LEMMA NextTickerTyped ==
  ASSUME NEW j \in Jobs, NEW t
  PROVE /\ NextTicker(j, t) \in Jobs
        /\ NextTicker(j, t).pc = "pick"
        /\ NextTicker(j, t).todo = j.todo \ {t}
        /\ NextTicker(j, t).collectable = j.collectable
        /\ NextTicker(j, t).failures = j.failures
        /\ NextTicker(j, t).noWrite = j.noWrite
        /\ NextTicker(j, t).directory = j.directory
        /\ NextTicker(j, t).aborted = j.aborted
        /\ NextTicker(j, t).synced = j.synced
<1>1. 0 \in 0..Parts
  BY ConstantFacts
<1>2. NextTicker(j, t) = [j EXCEPT !.pc = "pick", !.todo = j.todo \ {t},
                                   !.ticker = NoTicker, !.part = 0]
  BY DEF NextTicker
<1>3. NextTicker(j, t) \in Jobs
  BY <1>1, <1>2 DEF Jobs
<1> QED
  BY <1>2, <1>3 DEF Jobs

\* A failed attempt leaves a job.
LEMMA AttemptFailsTyped ==
  ASSUME JobTypes, AttemptFails, job.pc # "idle"
  PROVE JobTypes'
<1>1. CASE job.attempt < MaxAttempts
  <2>1. job' = [NoJob EXCEPT !.pc = "wait", !.attempt = job.attempt]
    BY <1>1 DEF AttemptFails
  <2>2. job.attempt \in 0..MaxAttempts
    BY DEF JobTypes, Jobs
  <2> QED
    BY <1>1, <2>1, <2>2, NoJobTyped DEF JobTypes, Jobs, NoJob
<1>2. CASE ~(job.attempt < MaxAttempts)
  BY <1>2, NoJobTyped DEF AttemptFails, JobTypes, NoJob
<1> QED
  BY <1>1, <1>2

-----------------------------------------------------------------------------
\* The types, action by action: the tables, the command by hand, the job.

\* A fault keeps the count of faults in its bound.
LEMMA FaultCounted ==
  ASSUME TableTypes, Fault
  PROVE faults' \in 0..MaxFaults
BY ConstantFacts DEF TableTypes, Fault

\* The initial state has its types.
LEMMA TypeInit == Init => Typed
<1> SUFFICES ASSUME Init PROVE Typed
  OBVIOUS
<1>1. JobTypes /\ HandTypes
  BY NoJobTyped, NoHandTyped DEF Init, JobTypes, HandTypes, NoJob, NoHand
<1>2. TableTypes
  <2>1. /\ published \in [Tickers -> Filings]
        /\ raw \in [Tickers -> Filings]
        /\ layer \in [Tickers -> Contents]
    BY ConstantFacts DEF Init, Filings, Contents
  <2>2. /\ age \in [Tickers -> [1..MaxFilings -> 0..OldAge]]
        /\ progress \in [Tickers -> [status : {"none", "success", "failed"},
                                     days : 0..OldAge]]
    BY ConstantFacts DEF Init
  <2>3. index \subseteq Tickers /\ listed \subseteq Tickers
          /\ supplement \subseteq Tickers
    BY ConstantFacts DEF Init
  <2>4. valid \in BOOLEAN /\ due \in BOOLEAN
    BY Zenon DEF Init
  <2>5. rest \in 0..MaxRest /\ faults \in 0..MaxFaults /\ indexes \in 0..MaxIndexes
    BY ConstantFacts DEF Init
  <2>6. snap \in [Tickers -> Contents]
    BY <2>1 DEF Init
  <2> QED
    BY <2>1, <2>2, <2>3, <2>4, <2>5, <2>6 DEF TableTypes
<1> QED
  BY <1>1, <1>2 DEF Typed

\* Days, filings and changes of the index keep the types.
LEMMA TypeWorld ==
  ASSUME Typed,
         NextDay \/ Reconstitute \/ \E t \in Tickers \ NoFacts : Publish(t)
  PROVE Typed'
<1> USE ConstantFacts DEF Typed
<1>1. JobTypes' /\ HandTypes'
  BY DEF NextDay, Reconstitute, Publish, JobTypes, HandTypes
<1>2. CASE NextDay
  <2>1. \A n \in 0..OldAge : Older(n) \in 0..OldAge
    BY DEF Older
  <2>2. age' \in [Tickers -> [1..MaxFilings -> 0..OldAge]]
    BY <1>2, <2>1 DEF NextDay, TableTypes
  <2>3. progress' \in [Tickers -> [status : {"none", "success", "failed"},
                                   days : 0..OldAge]]
    BY <1>2, <2>1 DEF NextDay, TableTypes
  <2>4. rest' \in 0..MaxRest
    BY <1>2 DEF NextDay, TableTypes
  <2>6. due' \in BOOLEAN
    BY <1>2, Zenon DEF NextDay
  <2>5. TableTypes'
    BY <1>2, <2>2, <2>3, <2>4, <2>6 DEF NextDay, TableTypes, shown
  <2> QED
    BY <1>1, <2>5
<1>3. CASE Reconstitute
  <2>1. index' \subseteq Tickers /\ indexes' \in 0..MaxIndexes
    BY <1>3 DEF Reconstitute, TableTypes
  <2>2. TableTypes'
    BY <1>3, <2>1 DEF Reconstitute, TableTypes, tables, shown
  <2> QED
    BY <1>1, <2>2
<1>4. ASSUME NEW t \in Tickers \ NoFacts, Publish(t)
      PROVE Typed'
  <2>1. published' \in [Tickers -> Filings]
    BY <1>4 DEF Publish, TableTypes, Filings
  <2>2. TableTypes'
    BY <1>4, <2>1 DEF Publish, TableTypes, tables, shown, bounds
  <2> QED
    BY <1>1, <2>2
<1> QED
  BY <1>2, <1>3, <1>4

\* The commands by hand keep the types.
LEMMA TypeHand ==
  ASSUME Typed,
         HandStep \/ HandProjects \/ HandStops
           \/ \E t \in Tickers : HandReparses(t)
  PROVE Typed'
<1> USE ConstantFacts DEF Typed
<1>1. CASE HandReads
  <2>1. HandTypes'
    <3>1. NextOf(Unread(hand)) \in Tickers
      BY <1>1, NextOfMember DEF HandReads, Unread, HandTypes, Hands
    <3>2. hand.seen \in Sightings /\ layer \in [Tickers -> Contents]
      BY DEF HandTypes, Hands, TableTypes
    <3>3. SeenNext(hand) \in Hands
      BY <3>1, <3>2, SightingsGrow DEF SeenNext, HandTypes, Hands
    <3>4. SeenNext(hand).pc = "read"
      BY <1>1 DEF HandReads, SeenNext, HandTypes, Hands
    <3> QED
      BY <1>1, <3>3, <3>4 DEF HandReads, HandTypes
  <2> QED
    BY <1>1, <2>1 DEF HandReads, JobTypes, TableTypes, world, tables, shown,
                      bounds
<1>2. CASE HandWrites
  <2>1. HandTypes' /\ JobTypes'
    BY <1>2, NoHandTyped DEF HandWrites, NoHand, HandTypes, JobTypes
  <2>2. snap' \in [Tickers -> Contents]
    BY <1>2, ShownTyped DEF HandWrites, HandTypes, Hands, TableTypes
  <2> QED
    BY <1>2, <2>1, <2>2 DEF HandWrites, TableTypes, world, tables, bounds
<1>3. CASE HandIngests
  <2>3. /\ hand.ticker \in Tickers
        /\ hand.part \in Statements
        /\ hand.document \in Filings
    BY <1>3 DEF HandIngests, HandTypes, Hands
  <2>1. layer' \in [Tickers -> Contents]
    BY <1>3, <2>3, IngestedTyped DEF HandIngests, TableTypes
  <2>2. HandTypes' /\ JobTypes'
    BY <1>3, NoHandTyped DEF HandIngests, NoHand, HandTypes, Hands, JobTypes,
                             Statements
  <2> QED
    BY <1>3, <2>1, <2>2 DEF HandIngests, TableTypes, world, shown, bounds
<1>4. CASE HandProjects
  <2>1. HandTypes' /\ JobTypes'
    BY <1>4, NoHandTyped DEF HandProjects, NoHand, HandTypes, Hands, JobTypes, TableTypes
  <2>2. faults' \in 0..MaxFaults
    BY <1>4, FaultCounted DEF HandProjects
  <2> QED
    BY <1>4, <2>1, <2>2 DEF HandProjects, TableTypes, world, tables, shown
<1>5. CASE HandStops
  <2>1. HandTypes' /\ JobTypes'
    BY <1>5, NoHandTyped DEF HandStops, NoHand, HandTypes, JobTypes
  <2>2. faults' \in 0..MaxFaults
    BY <1>5, FaultCounted DEF HandStops
  <2> QED
    BY <1>5, <2>1, <2>2 DEF HandStops, TableTypes, world, tables, shown
<1>6. ASSUME NEW t \in Tickers, HandReparses(t)
      PROVE Typed'
  <2>1. CASE t \in NoFacts
    BY <1>6, <2>1, NoHandTyped, FaultCounted
       DEF HandReparses, NoHand, HandTypes, JobTypes, TableTypes, world, tables,
           shown
  <2>2. CASE t \notin NoFacts
    <3>1. hand' = [NoHand EXCEPT !.pc = "reparse", !.ticker = t, !.part = 1,
                                 !.document = raw[t]]
      BY <1>6, <2>2 DEF HandReparses
    <3>2. raw[t] \in Filings /\ 1 \in Statements /\ 1 \in 0..Parts
      BY DEF TableTypes, Statements
    <3>3. HandTypes'
      BY <3>1, <3>2, NoHandTyped DEF HandTypes, Hands, NoHand
    <3> QED
      BY <1>6, <3>3, FaultCounted
         DEF HandReparses, JobTypes, TableTypes, world, tables, shown
  <2> QED
    BY <2>1, <2>2
<1> QED
  BY <1>1, <1>2, <1>3, <1>4, <1>5, <1>6 DEF HandStep

\* The steps of the job that go well.
LEMMA TypeJob ==
  ASSUME Typed, JobStep
  PROVE Typed'
<1> USE ConstantFacts DEF Typed
<1>0. HandTypes'
  BY DEF JobStep, Trigger, Retry, ScopeBuilt, DirectoryWhole, Filter, Fetch,
         IngestPart, Record, Classify, Read, Write, Validate, HandTypes
<1>1. CASE Trigger
  <2>8. JobTypes'
    <3>1. job' = [NoJob EXCEPT !.pc = "scope", !.attempt = 1]
      BY <1>1 DEF Trigger
    <3>2. 1 \in 0..MaxAttempts
      OBVIOUS
    <3> QED
      BY <3>1, <3>2, NoJobTyped DEF JobTypes, Jobs
  <2>9. TableTypes'
    BY <1>1 DEF Trigger, TableTypes, world, tables, shown, bounds
  <2> QED
    BY <2>8, <2>9, <1>0
<1>2. CASE Retry
  <2>8. JobTypes'
    <3>1. job' = [NoJob EXCEPT !.pc = "scope", !.attempt = job.attempt + 1]
      BY <1>2 DEF Retry
    <3>2. job.attempt + 1 \in 0..MaxAttempts
      BY <1>2 DEF Retry, JobTypes, Jobs
    <3> QED
      BY <3>1, <3>2, NoJobTyped DEF JobTypes, Jobs
  <2>9. TableTypes'
    BY <1>2 DEF Retry, TableTypes, world, tables, shown, bounds
  <2> QED
    BY <2>8, <2>9, <1>0
<1>3. CASE ScopeBuilt
  <2>8. JobTypes'
    BY <1>3, NoJobTyped DEF ScopeBuilt, NoJob, JobTypes, Jobs, TableTypes
  <2>9. TableTypes'
    BY <1>3 DEF ScopeBuilt, TableTypes, world, tables, shown, bounds
  <2> QED
    BY <2>8, <2>9, <1>0
<1>4. CASE DirectoryWhole
  <2>8. JobTypes'
    BY <1>4, NoJobTyped DEF DirectoryWhole, NoJob, JobTypes, Jobs, TableTypes, Scope
  <2>9. TableTypes'
    BY <1>4 DEF DirectoryWhole, TableTypes, world, tables, shown, bounds, Scope
  <2> QED
    BY <2>8, <2>9, <1>0
<1>5. CASE Filter
  <2>8. JobTypes'
    BY <1>5, NoJobTyped DEF Filter, NoJob, JobTypes, Jobs, TableTypes
  <2>9. TableTypes'
    BY <1>5 DEF Filter, TableTypes, world, tables, shown, bounds
  <2> QED
    BY <2>8, <2>9, <1>0
<1>6. CASE Fetch
  <2>1. NextOf(job.todo) \in Tickers
    BY <1>6, NextOfMember DEF Fetch, JobTypes, Jobs
  <2>8. JobTypes'
    <3>1. CASE NextOf(job.todo) \in NoFacts
      <4>1. job' = [NextTicker(job, NextOf(job.todo)) EXCEPT
                      !.noWrite = @ \cup {NextOf(job.todo)}]
        BY <1>6, <3>1 DEF Fetch
      <4> QED
        BY <2>1, <4>1, NextTickerTyped DEF JobTypes, Jobs
    <3>2. CASE NextOf(job.todo) \notin NoFacts
      <4>1. job' = [job EXCEPT !.pc = "ingest", !.ticker = NextOf(job.todo),
                               !.part = 1]
        BY <1>6, <3>2 DEF Fetch
      <4>2. 1 \in 0..Parts /\ 1 \in Statements
        BY DEF Statements
      <4> QED
        BY <2>1, <4>1, <4>2 DEF JobTypes, Jobs
    <3> QED
      BY <3>1, <3>2
  <2>9. TableTypes'
    BY <1>6, <2>1 DEF Fetch, TableTypes, world, tables, shown, bounds
  <2> QED
    BY <2>8, <2>9, <1>0
<1>7. CASE IngestPart
  <2>1. /\ job.ticker \in Tickers
        /\ job.part \in Statements
        /\ raw[job.ticker] \in Filings
    BY <1>7 DEF IngestPart, JobTypes, TableTypes
  <2>2. layer' \in [Tickers -> Contents]
    BY <1>7, <2>1, IngestedTyped DEF IngestPart, TableTypes
  <2>8. JobTypes'
    <3>1. CASE job.part < Parts
      <4>1. job' = [job EXCEPT !.part = job.part + 1]
        BY <1>7, <3>1 DEF IngestPart
      <4>2. job.part + 1 \in Statements /\ job.part + 1 \in 0..Parts
        BY <2>1, <3>1 DEF Statements
      <4> QED
        BY <1>7, <2>1, <4>1, <4>2 DEF IngestPart, JobTypes, Jobs
    <3>2. CASE ~(job.part < Parts)
      BY <1>7, <2>1, <3>2 DEF IngestPart, JobTypes, Jobs
    <3> QED
      BY <3>1, <3>2
  <2>9. TableTypes'
    BY <1>7, <2>2 DEF IngestPart, TableTypes, world, tables, shown, bounds
  <2> QED
    BY <2>8, <2>9, <1>0
<1>8. CASE Record
  <2>1. job.ticker \in Tickers
    BY <1>8 DEF Record, JobTypes
  <2>8. JobTypes'
    BY <1>8, NoJobTyped DEF Record, NoJob, JobTypes, Jobs, TableTypes, NextTicker
  <2>9. TableTypes'
    BY <1>8, <2>1 DEF Record, TableTypes, world, tables, shown, bounds
  <2> QED
    BY <2>8, <2>9, <1>0
<1>9. CASE Classify
  <2>1. job.pc # "idle"
    BY <1>9 DEF Classify, Collected
  <2>3. job' = NoJob => JobTypes'
    BY NoJobTyped, NoJobIdle DEF JobTypes
  <2>4. ASSUME job' = [job EXCEPT !.pc = "read", !.stocks = listed]
        PROVE JobTypes'
    <3>1. job \in Jobs /\ listed \in SUBSET Tickers
      BY DEF JobTypes, TableTypes
    <3>2. job' \in Jobs /\ job'.pc = "read"
      BY <2>4, <3>1 DEF Jobs
    <3> QED
      BY <3>2 DEF JobTypes, Jobs
  <2>8. JobTypes'
    BY <1>9, <2>1, <2>3, <2>4, AttemptFailsTyped DEF Classify
  <2>9. TableTypes'
    BY <1>9 DEF Classify, Uncovered, TableTypes, world, shown, bounds
  <2> QED
    BY <2>8, <2>9, <1>0
<1>10. CASE Read
  <2>1. NextOf(Unread(job)) \in Tickers
    BY <1>10, NextOfMember DEF Read, Unread, JobTypes, Jobs
  <2>2. job.seen \in Sightings /\ layer \in [Tickers -> Contents]
    BY DEF JobTypes, Jobs, TableTypes
  <2>3. SeenNext(job) \in Jobs
    BY <2>1, <2>2, SightingsGrow DEF SeenNext, JobTypes, Jobs
  <2>4. SeenNext(job).pc = "read"
    BY <1>10 DEF Read, SeenNext, JobTypes, Jobs
  <2>8. JobTypes'
    BY <1>10, <2>3, <2>4 DEF Read, JobTypes
  <2>9. TableTypes'
    BY <1>10 DEF Read, TableTypes, world, tables, shown, bounds
  <2> QED
    BY <2>8, <2>9, <1>0
<1>11. CASE Write
  <2>1. snap' \in [Tickers -> Contents]
    BY <1>11, ShownTyped DEF Write, JobTypes, Jobs, TableTypes
  <2>8. JobTypes'
    BY <1>11, NoJobTyped DEF Write, NoJob, JobTypes, Jobs, TableTypes
  <2>9. TableTypes'
    BY <1>11, <2>1 DEF Write, TableTypes, world, tables, bounds
  <2> QED
    BY <2>8, <2>9, <1>0
<1>12. CASE Validate
  <2>8. JobTypes'
    BY <1>12, NoJobTyped DEF Validate, NoJob, JobTypes, Jobs, TableTypes
  <2>9. TableTypes'
    BY <1>12 DEF Validate, TableTypes, world, tables, bounds
  <2> QED
    BY <2>8, <2>9, <1>0
<1> QED
  BY <1>1, <1>2, <1>3, <1>4, <1>5, <1>6, <1>7, <1>8, <1>9, <1>10, <1>11, <1>12 DEF JobStep


\* The steps that fail.
LEMMA TypeFailure ==
  ASSUME Typed, Failure
  PROVE Typed'
<1> USE ConstantFacts DEF Typed
<1>0. CASE HandStops
  BY <1>0, TypeHand
<1>90. faults' \in 0..MaxFaults
  BY FaultCounted DEF Failure, Crash, StageFails, ScopeUnresolved,
       DirectoryPartial, DirectoryFails, SyncAborts, IngestFails, RecordFails,
       HandStops, FetchFails
<1>1. CASE Crash
  <2>8. JobTypes'
    BY <1>1, NoJobTyped DEF Crash, NoJob, JobTypes, Jobs, TableTypes
  <2>9. TableTypes'
    BY <1>1, <1>90 DEF Crash, TableTypes, world, tables, shown
  <2> QED
    BY <1>1, <2>8, <2>9 DEF Crash, HandTypes
<1>2. CASE StageFails
  <2>1. job.pc # "idle"
    BY <1>2 DEF StageFails, Collected
  <2>2. supplement' \subseteq Tickers
    BY <1>2 DEF StageFails, Uncovered, TableTypes
  <2>3. valid' \in BOOLEAN
    BY <1>2 DEF StageFails, TableTypes
  <2>8. JobTypes'
    BY <1>2, <2>1, AttemptFailsTyped DEF StageFails
  <2>9. TableTypes'
    BY <1>2, <1>90, <2>2, <2>3 DEF StageFails, TableTypes, world
  <2> QED
    BY <1>2, <2>8, <2>9 DEF StageFails, HandTypes
<1>3. CASE ScopeUnresolved
  <2>8. JobTypes'
    BY <1>3, AttemptFailsTyped DEF ScopeUnresolved
  <2>9. TableTypes'
    BY <1>3, <1>90 DEF ScopeUnresolved, TableTypes, world, tables, shown, Uncovered
  <2> QED
    BY <1>3, <2>8, <2>9 DEF ScopeUnresolved, HandTypes
<1>4. CASE DirectoryPartial
  <2>8. JobTypes'
    <3>1. PICK rejected \in SUBSET Scope :
            job' = [job EXCEPT !.pc = "filter", !.directory = "blocked",
                      !.inserted = Scope \ (rejected \cup listed),
                      !.collectable = Scope \ rejected]
      BY <1>4 DEF DirectoryPartial
    <3>2. Scope \subseteq Tickers
      BY DEF Scope, TableTypes
    <3> QED
      BY <3>1, <3>2 DEF JobTypes, Jobs
  <2>9. TableTypes'
    BY <1>4, <1>90 DEF DirectoryPartial, TableTypes, world, tables, shown, Scope
  <2> QED
    BY <1>4, <2>8, <2>9 DEF DirectoryPartial, HandTypes
<1>5. CASE DirectoryFails
  <2>8. JobTypes'
    BY <1>5, NoJobTyped DEF DirectoryFails, NoJob, JobTypes, Jobs, TableTypes, Scope
  <2>9. TableTypes'
    BY <1>5, <1>90 DEF DirectoryFails, TableTypes, world, tables, shown, Scope
  <2> QED
    BY <1>5, <2>8, <2>9 DEF DirectoryFails, HandTypes
<1>6. CASE SyncAborts
  <2>8. JobTypes'
    BY <1>6, NoJobTyped DEF SyncAborts, NoJob, JobTypes, Jobs, TableTypes
  <2>9. TableTypes'
    BY <1>6, <1>90 DEF SyncAborts, TableTypes, world, tables, shown
  <2> QED
    BY <1>6, <2>8, <2>9 DEF SyncAborts, HandTypes
<1>7. CASE FetchFails
  <2>1. NextOf(job.todo) \in Tickers
    BY <1>7, NextOfMember DEF FetchFails, JobTypes, Jobs
  <2>8. JobTypes'
    <3>1. PICK kind \in Kinds :
            job' = [NextTicker(job, NextOf(job.todo)) EXCEPT
                      !.failures = @ \cup {<<NextOf(job.todo), kind>>}]
      BY <1>7 DEF FetchFails, Kinds
    <3> QED
      BY <2>1, <3>1, NextTickerTyped DEF JobTypes, Jobs
  <2>9. TableTypes'
    <3>1. progress' \in {progress, [progress EXCEPT ![NextOf(job.todo)] = Failed]}
      BY <1>7 DEF FetchFails
    <3>2. raw' \in {raw, [raw EXCEPT ![NextOf(job.todo)] = published[NextOf(job.todo)]]}
      BY <1>7 DEF FetchFails
    <3>3. progress' \in [Tickers -> [status : {"none", "success", "failed"},
                                     days : 0..OldAge]]
      <4>1. Failed \in [status : {"none", "success", "failed"}, days : 0..OldAge]
        BY DEF Failed
      <4> QED
        BY <2>1, <3>1, <4>1 DEF TableTypes
    <3>4. raw' \in [Tickers -> Filings]
      BY <2>1, <3>2 DEF TableTypes
    <3> QED
      BY <1>7, <1>90, <3>3, <3>4 DEF FetchFails, TableTypes, world, shown
  <2> QED
    BY <1>7, <2>8, <2>9 DEF FetchFails, HandTypes
<1>8. CASE IngestFails
  <2>1. job.ticker \in Tickers
    BY <1>8 DEF IngestFails, JobTypes
  <2>8. JobTypes'
    BY <1>8, <2>1, NextTickerTyped DEF IngestFails, Kinds, JobTypes, Jobs
  <2>9. TableTypes'
    BY <1>8, <1>90, <2>1 DEF IngestFails, Failed, TableTypes, world, tables, shown
  <2> QED
    BY <1>8, <2>8, <2>9 DEF IngestFails, HandTypes
<1>9. CASE RecordFails
  <2>1. job.ticker \in Tickers
    BY <1>9 DEF RecordFails, JobTypes
  <2>8. JobTypes'
    <3>1. job' = [NextTicker(job, job.ticker) EXCEPT
                   !.synced = @ \cup {job.ticker},
                   !.failures = @ \cup {<<job.ticker, "ingest">>}]
      BY <1>9 DEF RecordFails
    <3>2. NextTicker(job, job.ticker) \in Jobs /\ "ingest" \in Kinds
      BY NextTickerTyped DEF JobTypes, Kinds
    <3> QED
      <4>3. <<job.ticker, "ingest">> \in Tickers \X Kinds
        BY <2>1, <3>2
      <4>4. PICK j \in Jobs :
              /\ j = NextTicker(job, job.ticker)
              /\ job' = [j EXCEPT !.synced = j.synced \cup {job.ticker},
                                  !.failures = j.failures \cup {<<job.ticker, "ingest">>}]
        BY <3>1, <3>2
      <4>1. job' \in Jobs
        BY <2>1, <4>3, <4>4 DEF Jobs
      <4>2. job'.pc = "pick"
        BY <3>1, <3>2, NextTickerTyped DEF JobTypes, Jobs
      <4> QED
        BY <4>1, <4>2 DEF JobTypes, Jobs
  <2>9. TableTypes'
    BY <1>9, <1>90, <2>1 DEF RecordFails, Failed, TableTypes, world, tables, shown
  <2> QED
    BY <1>9, <2>8, <2>9 DEF RecordFails, HandTypes
<1> QED
  BY <1>0, <1>1, <1>2, <1>3, <1>4, <1>5, <1>6, <1>7, <1>8, <1>9 DEF Failure


\* TypeOK: every variable keeps its type, in particular the attempts stay
\* within the limit and a projection only holds what it has read.
THEOREM TypeCorrect == Spec => []TypeOK
<1>1. Init => Typed
  BY TypeInit
<1>2. Typed /\ [Next]_vars => Typed'
  <2> SUFFICES ASSUME Typed, [Next]_vars PROVE Typed'
    OBVIOUS
  <2>1. CASE UNCHANGED vars
    BY <2>1 DEF vars, Typed, JobTypes, HandTypes, TableTypes
  <2> QED
    BY <2>1, TypeWorld, TypeHand, TypeJob, TypeFailure DEF Next
<1> QED
  BY <1>1, <1>2, TypedIsTypeOK, PTL DEF Spec

-----------------------------------------------------------------------------
\* Why the gate holds: a ticker whose row says failed is pending, so an
\* attempt that is not aborted has it before it, in its hands, or among the
\* outcomes it classifies.

Accounted(t) ==
  \/ job.pc # "classify" /\ t \in job.todo
  \/ job.pc \in {"ingest", "record"} /\ t = job.ticker
  \/ \E kind \in Kinds : <<t, kind>> \in Outcomes(job)

DirectoryDone ==
  job.directory = "success"
    /\ job.pc \in {"filter", "pick", "ingest", "record", "classify", "read"}
    => Scope \subseteq listed

FailuresAccounted ==
  job.pc \in {"pick", "ingest", "record", "classify"} /\ ~job.aborted =>
    \A t \in job.collectable : progress[t].status = "failed" => Accounted(t)

\* t had an outcome in this attempt that its row excuses.
ExcusedOutcome(t) == \E kind \in Excused[t] : <<t, kind>> \in Outcomes(job)

ReadsBehindGate ==
  job.pc = "read" =>
    /\ job.directory = "success"
    /\ \A t \in job.collectable :
         progress[t].status = "failed" => ExcusedOutcome(t)

GateInv == Typed /\ DirectoryDone /\ FailuresAccounted /\ ReadsBehindGate

\* What the collected outcomes do not block is excused.
LEMMA UnblockedIsExcused ==
  ASSUME ~Blocked(job), NEW t, NEW kind, <<t, kind>> \in Outcomes(job)
  PROVE kind \in Excused[t]
BY DEF Blocked, Blocking, Excusable

\* A job that is idle, or that starts anew, has nothing to account for.
LEMMA GateAtRest ==
  ASSUME job'.pc \in {"idle", "wait", "scope", "directory", "validate"}
  PROVE DirectoryDone' /\ FailuresAccounted' /\ ReadsBehindGate'
BY DEF DirectoryDone, FailuresAccounted, ReadsBehindGate

\* So it is after an attempt that failed.
LEMMA GateAttemptFails ==
  ASSUME AttemptFails
  PROVE job'.pc \in {"idle", "wait"}
BY DEF AttemptFails, NoJob

\* And nothing changes by a step that leaves the job, its rows and the scope.
LEMMA GateUntouched ==
  ASSUME GateInv, UNCHANGED <<job, progress, index, supplement, listed>>
  PROVE DirectoryDone' /\ FailuresAccounted' /\ ReadsBehindGate'
BY DEF GateInv, DirectoryDone, FailuresAccounted, ReadsBehindGate, Scope,
       Accounted, ExcusedOutcome, Outcomes

\* While the tickers are taken one after the other, each that fails or has
\* failed stays accounted for.
LEMMA GateCollect ==
  ASSUME GateInv, Fetch \/ FetchFails \/ IngestFails \/ Record \/ RecordFails
                    \/ IngestPart
  PROVE DirectoryDone' /\ FailuresAccounted' /\ ReadsBehindGate'
<1> USE DEF GateInv
<1>1. job \in Jobs /\ progress \in [Tickers -> [status : {"none", "success", "failed"},
                                               days : 0..OldAge]]
  BY DEF Typed, JobTypes, TableTypes
<1>2. /\ job.pc \in {"pick", "ingest", "record"}
      /\ job'.pc \in {"pick", "ingest", "record"}
      /\ job'.directory = job.directory
  <2>1. CASE Fetch
    <3>1. \/ job' = [NextTicker(job, NextOf(job.todo)) EXCEPT
                      !.noWrite = @ \cup {NextOf(job.todo)}]
          \/ job' = [job EXCEPT !.pc = "ingest", !.ticker = NextOf(job.todo),
                               !.part = 1]
      BY <2>1 DEF Fetch
    <3> QED
      BY <1>1, <2>1, <3>1 DEF Fetch, NextTicker, Jobs
  <2>2. CASE FetchFails
    <3>1. PICK kind : job' = [NextTicker(job, NextOf(job.todo)) EXCEPT
                        !.failures = @ \cup {<<NextOf(job.todo), kind>>}]
      BY <2>2 DEF FetchFails
    <3> QED
      BY <1>1, <2>2, <3>1 DEF FetchFails, NextTicker, Jobs
  <2>3. CASE IngestFails
    BY <1>1, <2>3 DEF IngestFails, NextTicker, Jobs
  <2>4. CASE RecordFails
    BY <1>1, <2>4 DEF RecordFails, NextTicker, Jobs
  <2>5. CASE Record
    BY <1>1, <2>5 DEF Record, NextTicker, Jobs
  <2>6. CASE IngestPart
    <3>1. job' \in {[job EXCEPT !.part = @ + 1], [job EXCEPT !.pc = "record"]}
      BY <2>6 DEF IngestPart
    <3> QED
      BY <1>1, <2>6, <3>1 DEF IngestPart, Jobs
  <2> QED
    BY <2>1, <2>2, <2>3, <2>4, <2>5, <2>6
<1>3. UNCHANGED <<index, supplement, listed>>
  BY DEF Fetch, FetchFails, IngestFails, Record, RecordFails, IngestPart, world
<1>5. DirectoryDone'
  BY <1>2, <1>3 DEF DirectoryDone, Scope
<1>6. ReadsBehindGate'
  BY <1>2 DEF ReadsBehindGate
<1>4. FailuresAccounted'
  <2>1. CASE Fetch
    <3> DEFINE t == NextOf(job.todo)
    <3>1. t \in job.todo /\ t \in Tickers
      BY <1>1, <2>1, NextOfMember DEF Fetch, Jobs
    <3>2. CASE t \in NoFacts
      <4>1. job' = [NextTicker(job, t) EXCEPT !.noWrite = @ \cup {t}]
        BY <2>1, <3>2 DEF Fetch
      <4>2. /\ job'.todo = job.todo \ {t} /\ job'.noWrite = job.noWrite \cup {t}
            /\ job'.failures = job.failures /\ job'.pc = "pick"
            /\ job'.collectable = job.collectable /\ job'.aborted = job.aborted
        BY <1>1, <4>1, NextTickerTyped DEF Jobs
      <4> QED
        BY <2>1, <3>1, <4>2 DEF Fetch, FailuresAccounted, Accounted, Outcomes, Kinds
    <3>3. CASE t \notin NoFacts
      <4>1. job' = [job EXCEPT !.pc = "ingest", !.ticker = t, !.part = 1]
        BY <2>1, <3>3 DEF Fetch
      <4> QED
        BY <1>1, <2>1, <4>1 DEF Fetch, FailuresAccounted, Accounted, Outcomes, Jobs
    <3> QED
      BY <3>2, <3>3
  <2>2. CASE FetchFails
    <3> DEFINE t == NextOf(job.todo)
    <3>1. t \in job.todo /\ t \in Tickers
      BY <1>1, <2>2, NextOfMember DEF FetchFails, Jobs
    <3>2. PICK kind \in Kinds :
            /\ job' = [NextTicker(job, t) EXCEPT !.failures = @ \cup {<<t, kind>>}]
            /\ progress' \in {progress, [progress EXCEPT ![t] = Failed]}
      BY <2>2 DEF FetchFails, Kinds
    <3>3. /\ job'.todo = job.todo \ {t} /\ job'.noWrite = job.noWrite
          /\ job'.failures = job.failures \cup {<<t, kind>>} /\ job'.pc = "pick"
          /\ job'.collectable = job.collectable /\ job'.aborted = job.aborted
      BY <1>1, <3>2, NextTickerTyped DEF Jobs
    <3>4. \A u \in Tickers : u # t => progress'[u] = progress[u]
      BY <1>1, <3>2
    <3>5. job.collectable \subseteq Tickers
      BY <1>1 DEF Jobs
    <3> QED
      BY <2>2, <3>1, <3>3, <3>4, <3>5 DEF FetchFails, FailuresAccounted, Accounted, Outcomes
  <2>3. CASE IngestFails \/ RecordFails
    <3> DEFINE t == job.ticker
               k == NextTicker(job, t)
    <3>1. t \in Tickers
      BY <2>3 DEF IngestFails, RecordFails, Typed, JobTypes
    <3>2. /\ k \in Jobs /\ k.todo = job.todo \ {t} /\ k.noWrite = job.noWrite
          /\ k.failures = job.failures /\ k.pc = "pick"
          /\ k.collectable = job.collectable /\ k.aborted = job.aborted
      BY <1>1, NextTickerTyped DEF NextTicker, Jobs
    <3>3. \/ job' = [k EXCEPT !.failures = k.failures \cup {<<t, "ingest">>}]
          \/ job' = [k EXCEPT !.synced = k.synced \cup {t},
                             !.failures = k.failures \cup {<<t, "ingest">>}]
      BY <2>3, <3>2 DEF IngestFails, RecordFails
    <3> HIDE DEF k
    <3>4. /\ job'.todo = job.todo \ {t} /\ job'.noWrite = job.noWrite
          /\ job'.failures = job.failures \cup {<<t, "ingest">>} /\ job'.pc = "pick"
          /\ job'.collectable = job.collectable /\ job'.aborted = job.aborted
      BY <3>2, <3>3 DEF Jobs
    <3>5. /\ \A u \in Tickers : u # t => progress'[u] = progress[u]
          /\ job.pc \in {"ingest", "record"}
      BY <1>1, <2>3 DEF IngestFails, RecordFails
    <3>6. job.collectable \subseteq Tickers
      BY <1>1 DEF Jobs
    <3>7. SUFFICES ASSUME ~job.aborted, NEW u \in job.collectable,
                          progress'[u].status = "failed"
                   PROVE Accounted(u)'
      BY <3>4 DEF FailuresAccounted
    <3>8. CASE u = t
      BY <3>4, <3>8 DEF Accounted, Outcomes, Kinds
    <3>9. CASE u # t
      <4>1. Accounted(u)
        BY <3>5, <3>6, <3>7, <3>9 DEF FailuresAccounted
      <4> QED
        BY <3>4, <3>5, <3>9, <4>1 DEF Accounted, Outcomes
    <3> QED
      BY <3>8, <3>9
  <2>4. CASE Record
    <3> DEFINE t == job.ticker
    <3>1. t \in Tickers
      BY <2>4 DEF Record, Typed, JobTypes
    <3>3. /\ job'.todo = job.todo \ {t} /\ job'.noWrite = job.noWrite
          /\ job'.failures = job.failures /\ job'.pc = "pick"
          /\ job'.collectable = job.collectable /\ job'.aborted = job.aborted
      BY <1>1, <2>4, NextTickerTyped DEF Jobs, Record
    <3>4. /\ \A u \in Tickers : u # t => progress'[u] = progress[u]
          /\ progress'[t].status = "success"
      BY <1>1, <2>4, <3>1 DEF Record
    <3>5. job.collectable \subseteq Tickers
      BY <1>1 DEF Jobs
    <3> QED
      BY <2>4, <3>1, <3>3, <3>4, <3>5 DEF Record, FailuresAccounted, Accounted, Outcomes
  <2>5. CASE IngestPart
    BY <1>1, <2>5 DEF IngestPart, FailuresAccounted, Accounted, Outcomes, Jobs
  <2> QED
    BY <2>1, <2>2, <2>3, <2>4, <2>5
<1> QED
  BY <1>4, <1>5, <1>6

\* What is collected is accounted for when it is decided upon.
LEMMA GateDecide ==
  ASSUME GateInv, Filter \/ SyncAborts \/ Classify \/ Read
                    \/ DirectoryWhole \/ DirectoryPartial \/ DirectoryFails
  PROVE DirectoryDone' /\ FailuresAccounted' /\ ReadsBehindGate'
<1> USE DEF GateInv
<1>1. job \in Jobs
  BY DEF Typed, JobTypes
<1>2. CASE DirectoryWhole
  BY <1>1, <1>2 DEF DirectoryWhole, DirectoryDone, FailuresAccounted,
                    ReadsBehindGate, Scope, world, Jobs
<1>3. CASE DirectoryPartial \/ DirectoryFails
  BY <1>1, <1>3 DEF DirectoryPartial, DirectoryFails, DirectoryDone,
                    FailuresAccounted, ReadsBehindGate, Jobs
<1>4. CASE Filter
  <2>1. DirectoryDone' /\ ReadsBehindGate'
    BY <1>1, <1>4 DEF Filter, DirectoryDone, ReadsBehindGate, Scope, world,
                      tables, Jobs
  <2>2. FailuresAccounted'
    BY <1>1, <1>4 DEF Filter, FailuresAccounted, Accounted, Outcomes, Pending,
                      tables, Jobs
  <2> QED
    BY <2>1, <2>2
<1>5. CASE SyncAborts
  BY <1>1, <1>5 DEF SyncAborts, DirectoryDone, FailuresAccounted,
                    ReadsBehindGate, Scope, world, tables, Jobs
<1>6. CASE Read
  <2>1. /\ job'.pc = "read" /\ job'.directory = job.directory
        /\ job'.collectable = job.collectable
        /\ Outcomes(job') = Outcomes(job)
    BY <1>1, <1>6 DEF Read, SeenNext, Outcomes, Jobs
  <2> QED
    BY <1>6, <2>1 DEF Read, DirectoryDone, FailuresAccounted, ReadsBehindGate,
                      ExcusedOutcome, Scope, world, tables
<1>7. CASE Classify
  <2>1. CASE Blocked(job)
    BY <1>7, <2>1, GateAttemptFails, GateAtRest DEF Classify
  <2>2. CASE job' = NoJob
    BY <2>2, NoJobIdle, GateAtRest
  <2>3. CASE ~Blocked(job) /\ job' = [job EXCEPT !.pc = "read", !.stocks = listed]
    <3>1. /\ job'.pc = "read" /\ job'.directory = "success"
          /\ job'.collectable = job.collectable
          /\ Outcomes(job') = Outcomes(job)
          /\ job.directory = "success" /\ ~job.aborted
      BY <1>1, <2>3 DEF Blocked, Outcomes, Jobs
    <3>2. Scope' \subseteq listed'
      BY <1>7, <3>1 DEF Classify, Collected, DirectoryDone, Scope, Uncovered, world
    <3>3. ASSUME NEW t \in job.collectable, progress[t].status = "failed"
          PROVE ExcusedOutcome(t)
      <4>1. PICK kind \in Kinds : <<t, kind>> \in Outcomes(job)
        BY <1>7, <3>1, <3>3 DEF Classify, Collected, FailuresAccounted, Accounted
      <4> QED
        BY <2>3, <4>1, UnblockedIsExcused DEF ExcusedOutcome
    <3> QED
      BY <1>7, <3>1, <3>2, <3>3 DEF Classify, DirectoryDone, FailuresAccounted,
                                  ReadsBehindGate, ExcusedOutcome
  <2> QED
    BY <1>7, <2>1, <2>2, <2>3 DEF Classify
<1> QED
  BY <1>2, <1>3, <1>4, <1>5, <1>6, <1>7

\* PublishGate: the scheduled job replaces the snapshots only when the whole
\* scope is in the directory and no ticker it collected is failed unexcused.
THEOREM PublishGateHolds == Spec => PublishGate
<1>1. Init => GateInv
  BY TypeInit DEF Init, GateInv, DirectoryDone, FailuresAccounted,
                  ReadsBehindGate, NoJob
<1>2. GateInv /\ [Next]_vars => GateInv'
  <2> SUFFICES ASSUME GateInv, [Next]_vars PROVE GateInv'
    OBVIOUS
  <2>0. Typed'
    <3>1. CASE UNCHANGED vars
      BY <3>1 DEF vars, GateInv, Typed, JobTypes, HandTypes, TableTypes
    <3> QED
      BY <3>1, TypeWorld, TypeHand, TypeJob, TypeFailure DEF Next, GateInv
  <2> SUFFICES DirectoryDone' /\ FailuresAccounted' /\ ReadsBehindGate'
    BY <2>0 DEF GateInv
  <2>1. CASE UNCHANGED vars
    BY <2>1, GateUntouched DEF vars
  <2>2. CASE NextDay \/ Reconstitute \/ \E t \in Tickers \ NoFacts : Publish(t)
    BY <2>2, GateAtRest DEF NextDay, Reconstitute, Publish
  <2>3. CASE HandStep \/ HandProjects \/ HandStops \/ \E t \in Tickers : HandReparses(t)
    BY <2>3, GateUntouched DEF HandStep, HandReads, HandWrites, HandIngests,
         HandProjects, HandStops, HandReparses, world, tables
  <2>4. CASE Trigger \/ Retry \/ ScopeBuilt \/ Write \/ Validate
    <3>1. job'.pc \in {"idle", "scope", "directory", "validate"}
      <4>1. job \in Jobs
        BY DEF GateInv, Typed, JobTypes
      <4> QED
        BY <2>4, <4>1, NoJobIdle, NoJobTyped
           DEF Trigger, Retry, ScopeBuilt, Write, Validate, Jobs
    <3> QED
      BY <3>1, GateAtRest
  <2>5. CASE Crash \/ StageFails \/ ScopeUnresolved
    BY <2>5, GateAttemptFails, GateAtRest, NoJobIdle
       DEF Crash, StageFails, ScopeUnresolved
  <2> QED
    BY <2>1, <2>2, <2>3, <2>4, <2>5, GateCollect, GateDecide
       DEF Next, JobStep, Failure
<1>3. GateInv /\ [Next]_vars =>
        (job.pc = "read" /\ job'.pc = "validate" =>
           /\ Scope \subseteq listed
           /\ \A t \in job.collectable :
                progress[t].status = "failed" =>
                  \E kind \in Excused[t] : <<t, kind>> \in Outcomes(job))
  BY DEF GateInv, DirectoryDone, ReadsBehindGate, ExcusedOutcome
<1> QED
  BY <1>1, <1>2, <1>3, PTL DEF Spec, PublishGate

-----------------------------------------------------------------------------
\* How long a filing may be left out.

\* The intervals after which a ticker is asked again are at most a day longer
\* than the time it is left alone after a filing; 14 and 7 days are far below 60.
IntervalsShort ==
  /\ MidInterval <= Cooldown + 1
  /\ WindowInterval <= Cooldown + 1

\* How old the filings are that a ticker with data has in store for the next
\* fetch.
Late(t) ==
  IF Known(t) > 0
  THEN {age[t][n] : n \in {k \in 1..published[t] : k > Known(t)}} ELSE {}

\* Filings to come have no age, and a later filing is not older.
AgesInOrder(t) ==
  /\ \A n \in 1..MaxFilings : n > published[t] => age[t][n] = 0
  /\ \A m, n \in 1..MaxFilings :
       m < n /\ n <= published[t] => age[t][n] <= age[t][m]

InWork(t) == job.pc \in {"ingest", "record"} /\ job.ticker = t

\* What has data is listed and was recorded, and what was filed after that is
\* not older than the record.
SyncKnows(t) ==
  /\ t \in NoFacts => \A p \in Statements : layer[t][p] = 0
  /\ progress[t].status # "failed"
  /\ Known(t) > 0 => t \in listed /\ (progress[t].status = "success" \/ InWork(t))
  /\ progress[t].status = "success" => \A a \in Late(t) : a <= progress[t].days

\* From the directory to the classification the job works on the scope; the
\* tickers that are not before it have nothing in store that is older than
\* the cooldown.
Asking == {"filter", "pick", "ingest", "record", "classify"}

Fresh ==
  job.pc \in {"scope", "directory"} =>
    job.todo = {} /\ job.noWrite = {} /\ job.failures = {}

ScopeKnown ==
  job.pc \in Asking =>
    /\ job.collectable = Scope /\ Scope \subseteq listed
    /\ job.todo \subseteq Scope /\ job.noWrite \subseteq Scope
    /\ job.failures = {}
    /\ job.pc = "classify" => job.todo = {}

WorkKnown ==
  job.pc \in {"ingest", "record"} =>
    /\ job.ticker \in job.todo \ NoFacts
    /\ raw[job.ticker] = published[job.ticker]
    /\ job.pc = "record" \/ job.part > 1 =>
         layer[job.ticker][1] >= published[job.ticker]

AskedInTime ==
  job.pc \in Asking \ {"filter"} =>
    \A t \in Scope \ job.todo : \A a \in Late(t) : a <= Cooldown

JobKnows == Fresh /\ ScopeKnown /\ WorkKnown /\ AskedInTime

\* A ticker in the supplement may have missed a run before it came there, and
\* until a job is through with a day nothing is known of that day.
Unsettled == due \/ job.pc \notin {"idle", "read", "validate"}
Slack(t) == IF t \in supplement THEN 1 + MaxRest ELSE 0
Since == IF Unsettled THEN 1 + MaxRest ELSE rest
InTime(t) == \A a \in Late(t) : a <= Cooldown + Slack(t) + Since

TickerKnows(t) == AgesInOrder(t) /\ SyncKnows(t) /\ InTime(t)

Calm == hand.pc = "idle" /\ JobKnows /\ \A t \in Tickers : TickerKnows(t)

\* The inductive invariant behind DiscoveryLag.
LagInv == faults = 0 => Calm

\* A set of naturals that is not empty has a least element.
LEMMA LeastNatural ==
  ASSUME NEW S \in SUBSET Nat, S # {}
  PROVE  \E n \in S : \A m \in S : n <= m
<1>1. PICK n \in S : \A m \in S : ~ (<<m, n>> \in OpToRel(<, Nat))
  BY NatLessThanWellFounded, WFMin
<1>2. ASSUME NEW m \in S PROVE n <= m
  <2>1. SUFFICES ASSUME m < n PROVE FALSE
    OBVIOUS
  <2>2. <<m, n>> \in Nat \X Nat /\ <<m, n>>[1] < <<m, n>>[2]
    BY <2>1
  <2>3. <<m, n>> \in OpToRel(<, Nat)
    BY <2>2, Zenon DEF OpToRel
  <2> QED BY <1>1, <2>3
<1> QED BY <1>2

\* Known is the greatest filing of any statement.
LEMMA KnownIs ==
  ASSUME Typed, NEW t \in Tickers
  PROVE  /\ Known(t) \in Filings /\ Known(t) \in Nat
         /\ \E p \in Statements : layer[t][p] = Known(t)
         /\ \A p \in Statements : layer[t][p] <= Known(t)
<1>1. MaxFilings \in Nat /\ Parts \in Nat /\ 1 \in Statements
  BY ConstantFacts DEF Statements
<1>2. \A p \in Statements : layer[t][p] \in 0..MaxFilings
  BY DEF Typed, TableTypes, Contents, Filings
<1> DEFINE S == {MaxFilings - layer[t][p] : p \in Statements}
<1>3. S \in SUBSET Nat /\ S # {}
  <2>1. \A p \in Statements : MaxFilings - layer[t][p] \in Nat
    BY <1>1, <1>2
  <2> QED BY <1>1, <2>1
<1>4. PICK k \in S : \A m \in S : k <= m
  <2> HIDE DEF S
  <2> QED BY <1>3, LeastNatural
<1>5. PICK q \in Statements : k = MaxFilings - layer[t][q]
  BY <1>4
<1>6. \A p \in Statements : layer[t][p] <= layer[t][q]
  <2> SUFFICES ASSUME NEW p \in Statements PROVE layer[t][p] <= layer[t][q]
    OBVIOUS
  <2>1. MaxFilings - layer[t][q] <= MaxFilings - layer[t][p]
    BY <1>4, <1>5
  <2> QED BY <1>1, <1>2, <2>1
<1>7. \E n \in Filings : /\ \E p \in Statements : layer[t][p] = n
                         /\ \A p \in Statements : layer[t][p] <= n
  BY <1>2, <1>6 DEF Filings
<1>8. /\ Known(t) \in Filings
      /\ \E p \in Statements : layer[t][p] = Known(t)
      /\ \A p \in Statements : layer[t][p] <= Known(t)
  BY <1>7 DEF Known
<1> QED BY <1>1, <1>8 DEF Filings

\* The same of the next state.
KnownGreatest ==
  \A t \in Tickers :
    /\ Known(t) \in Nat
    /\ \E p \in Statements : layer[t][p] = Known(t)
    /\ \A p \in Statements : layer[t][p] <= Known(t)

LEMMA KnownIsNext == Typed' => KnownGreatest'
<1>1. Typed => KnownGreatest
  BY KnownIs DEF KnownGreatest
<1> QED BY <1>1, PTL

\* What is late has an age.
LEMMA LateTyped ==
  ASSUME Typed, NEW t \in Tickers
  PROVE  \A a \in Late(t) : a \in 0..OldAge /\ a \in Nat
<1>1. \A n \in 1..MaxFilings : age[t][n] \in 0..OldAge
  BY DEF Typed, TableTypes
<1>2. published[t] \in 0..MaxFilings /\ MaxFilings \in Nat /\ OldAge \in Nat
  BY ConstantFacts DEF Typed, TableTypes, Filings
<1>3. \A n \in 1..published[t] : n \in 1..MaxFilings
  BY <1>2
<1> QED BY <1>1, <1>2, <1>3 DEF Late

\* Nothing is late by what leaves filings and facts alone.
LEMMA LateSame ==
  ASSUME UNCHANGED <<published, age, layer>>, NEW t
  PROVE  Late(t)' = Late(t) /\ Known(t)' = Known(t)
BY DEF Late, Known

\* With the newest filing known nothing is late.
LEMMA NothingLate ==
  ASSUME Typed, NEW t \in Tickers, NEW p \in Statements, layer[t][p] >= published[t]
  PROVE  Late(t) = {}
<1>1. /\ layer[t][p] \in Nat /\ published[t] \in Nat
      /\ Known(t) \in Nat /\ layer[t][p] <= Known(t)
  BY KnownIs DEF Typed, TableTypes, Contents, Filings
<1>2. \A k \in 1..published[t] : ~(k > Known(t))
  BY <1>1
<1> QED BY <1>2 DEF Late

\* A ticker in the scope that is not asked again has nothing old in store.
LEMMA NotPendingInTime ==
  ASSUME IntervalsShort, Typed, NEW t \in Tickers, TickerKnows(t), ~Pending(t)
  PROVE  \A a \in Late(t) : a <= Cooldown
<1> DEFINE k == Known(t)
<1>1. /\ k \in Nat /\ k # 0 /\ k \in 0..MaxFilings
      /\ progress[t].status = "success" /\ progress[t].days \in Nat
  BY KnownIs DEF Pending, Typed, TableTypes, Filings
<1>2. {Cooldown, MidInterval, WindowInterval, MidCycle} \subseteq Nat
  BY PipelineAssumption
<1> SUFFICES ASSUME NEW a \in Late(t) PROVE a <= Cooldown
  OBVIOUS
<1>3. a \in Nat /\ a <= progress[t].days
  BY <1>1, LateTyped DEF TickerKnows, SyncKnows
<1>4. PICK n \in 1..published[t] : n > k /\ a = age[t][n]
  BY <1>1 DEF Late
<1>5. k \in 1..MaxFilings /\ n \in 1..MaxFilings /\ k < n /\ n <= published[t]
  BY <1>1, <1>4, ConstantFacts DEF Typed, TableTypes, Filings
<1>6. age[t][k] \in Nat /\ a <= age[t][k]
  <2>1. age[t][k] \in 0..OldAge /\ OldAge \in Nat
    BY <1>5, ConstantFacts DEF Typed, TableTypes
  <2>2. age[t][n] <= age[t][k]
    BY <1>5 DEF TickerKnows, AgesInOrder
  <2> HIDE DEF k
  <2> QED BY <1>4, <2>1, <2>2
<1>7. CASE ~(age[t][k] > Cooldown)
  BY <1>2, <1>3, <1>6, <1>7
<1>8. CASE age[t][k] > Cooldown
  <2>1. ~(progress[t].days >= IF age[t][k] <= MidCycle THEN MidInterval
                              ELSE WindowInterval)
    BY <1>8 DEF Pending
  <2> QED BY <1>1, <1>2, <1>3, <2>1 DEF IntervalsShort
<1> QED BY <1>7, <1>8

-----------------------------------------------------------------------------
\* The actions of a calm run, one after the other.

\* The bounds are naturals.
LEMMA LimitFacts ==
  ASSUME Typed
  PROVE  /\ Cooldown \in Nat /\ MaxRest \in Nat /\ rest \in Nat /\ rest <= MaxRest
         /\ \A t : Slack(t) \in Nat
         /\ Since \in Nat /\ Since <= 1 + MaxRest
<1>1. Cooldown \in Nat /\ MaxRest \in Nat /\ rest \in 0..MaxRest
  BY PipelineAssumption DEF Typed, TableTypes
<1> QED BY <1>1 DEF Slack, Since

\* A day: what is late gets older by one, and so do the records.
LEMMA LagNextDay ==
  ASSUME Typed, Typed', Calm, NextDay
  PROVE  Calm'
<1>1. /\ job.pc = "idle" /\ job' = job /\ hand' = hand /\ ~due
      /\ UNCHANGED <<published, layer, listed, supplement>>
  BY DEF NextDay, shown
<1>2. hand'.pc = "idle" /\ JobKnows'
  BY <1>1 DEF Calm, JobKnows, Fresh, ScopeKnown, WorkKnown, AskedInTime, Asking
<1> SUFFICES ASSUME NEW t \in Tickers PROVE TickerKnows(t)'
  BY <1>2 DEF Calm
<1>3. AgesInOrder(t) /\ SyncKnows(t) /\ InTime(t)
  BY DEF Calm, TickerKnows
<1>4. /\ OldAge \in Nat /\ MaxFilings \in Nat /\ published[t] \in 0..MaxFilings
      /\ \A n \in 1..MaxFilings : age[t][n] \in 0..OldAge
      /\ \A n \in 1..MaxFilings :
           age'[t][n] = IF n <= published[t] THEN Older(age[t][n]) ELSE 0
  BY ConstantFacts DEF NextDay, Typed, TableTypes, Filings
<1>5. \A a, b \in 0..OldAge : a <= b => Older(a) <= Older(b) /\ Older(a) <= b + 1
  BY <1>4 DEF Older
<1>6. AgesInOrder(t)'
  BY <1>1, <1>3, <1>4, <1>5 DEF AgesInOrder
<1>7. Known(t)' = Known(t)
  BY <1>1 DEF Known
<1>8. \A b \in Late(t)' : \E a \in Late(t) : b = Older(a)
  <2>1. CASE ~(Known(t) > 0)
    BY <1>7, <2>1 DEF Late
  <2>2. CASE Known(t) > 0
    <3> SUFFICES ASSUME NEW b \in Late(t)' PROVE \E a \in Late(t) : b = Older(a)
      OBVIOUS
    <3>1. PICK n \in 1..published[t] : n > Known(t) /\ b = age'[t][n]
      BY <1>1, <1>7, <2>2 DEF Late
    <3>2. n \in 1..MaxFilings /\ n <= published[t]
      BY <1>4
    <3>3. age[t][n] \in Late(t) /\ b = Older(age[t][n])
      BY <1>4, <2>2, <3>1, <3>2 DEF Late
    <3> QED BY <3>3
  <2> QED BY <2>1, <2>2
<1>9. SyncKnows(t)'
  <2>1. progress'[t] = IF progress[t].status = "success"
                       THEN [progress[t] EXCEPT !.days = Older(progress[t].days)]
                       ELSE progress[t]
    BY DEF NextDay
  <2>2. progress[t] \in [status : {"none", "success", "failed"}, days : 0..OldAge]
    BY DEF Typed, TableTypes
  <2>3. /\ progress'[t].status = progress[t].status
        /\ progress[t].status = "success" =>
             progress'[t].days = Older(progress[t].days)
    BY <2>1, <2>2
  <2>4. progress'[t].status = "success" => \A b \in Late(t)' : b <= progress'[t].days
    BY <1>3, <1>5, <1>8, <2>2, <2>3, LateTyped DEF SyncKnows
  <2> QED BY <1>1, <1>3, <1>7, <2>3, <2>4 DEF SyncKnows, InWork
<1>10. InTime(t)'
  <2>1. Slack(t)' = Slack(t) /\ Since = rest
    BY <1>1 DEF Slack, Since, Unsettled
  <2>2. Since' = IF due' THEN 1 + MaxRest ELSE rest'
    BY <1>1 DEF Since, Unsettled
  <2>3. Since' >= rest + 1 /\ Since' \in Nat
    BY <2>2, LimitFacts DEF NextDay
  <2> SUFFICES ASSUME NEW b \in Late(t)' PROVE b <= Cooldown + Slack(t) + Since'
    BY <2>1 DEF InTime
  <2>4. PICK a \in Late(t) : b = Older(a)
    BY <1>8
  <2>5. a \in 0..OldAge /\ a \in Nat /\ a <= Cooldown + Slack(t) + rest
    BY <1>3, <2>1, LateTyped DEF InTime
  <2>6. Older(a) <= a + 1 /\ Older(a) \in Nat
    BY <1>4, <2>5 DEF Older
  <2>7. Slack(t) \in Nat
    BY LimitFacts
  <2> QED BY <2>3, <2>4, <2>5, <2>6, <2>7, LimitFacts
<1> QED BY <1>6, <1>9, <1>10 DEF TickerKnows

\* A filing comes out: it is the latest of its ticker and of age zero.
LEMMA LagPublish ==
  ASSUME Typed, Typed', Calm, NEW u \in Tickers \ NoFacts, Publish(u)
  PROVE  Calm'
<1>1. /\ job.pc = "idle"
      /\ UNCHANGED <<age, layer, progress, listed, supplement, job, hand, due, rest>>
  BY DEF Publish, tables, bounds
<1>2. hand'.pc = "idle" /\ JobKnows'
  BY <1>1 DEF Calm, JobKnows, Fresh, ScopeKnown, WorkKnown, AskedInTime, Asking
<1> SUFFICES ASSUME NEW t \in Tickers PROVE TickerKnows(t)'
  BY <1>2 DEF Calm
<1>3. AgesInOrder(t) /\ SyncKnows(t) /\ InTime(t)
  BY DEF Calm, TickerKnows
<1>4. /\ published[t] \in Nat /\ MaxFilings \in Nat /\ OldAge \in Nat
      /\ \A n \in 1..MaxFilings : age[t][n] \in 0..OldAge
      /\ published'[t] <= MaxFilings
      /\ published'[t] = published[t] \/ published'[t] = published[t] + 1
  <2>1. /\ MaxFilings \in Nat /\ OldAge \in Nat
        /\ \A v \in Tickers : published[v] \in 0..MaxFilings
        /\ \A n \in 1..MaxFilings : age[t][n] \in 0..OldAge
    <3>1. /\ published \in [Tickers -> 0..MaxFilings]
          /\ age \in [Tickers -> [1..MaxFilings -> 0..OldAge]]
      BY DEF Typed, TableTypes, Filings
    <3> QED BY <3>1, ConstantFacts
  <2>2. /\ published[u] < MaxFilings
        /\ published'[t] = IF t = u THEN published[u] + 1 ELSE published[t]
    BY DEF Publish, Typed, TableTypes
  <2> QED BY <2>1, <2>2
<1>5. AgesInOrder(t)'
  <2>1. ASSUME NEW n \in 1..MaxFilings, n > published'[t] PROVE age[t][n] = 0
    BY <1>3, <1>4, <2>1 DEF AgesInOrder
  <2>2. ASSUME NEW m \in 1..MaxFilings, NEW n \in 1..MaxFilings,
               m < n, n <= published'[t]
        PROVE  age[t][n] <= age[t][m]
    <3>1. CASE n <= published[t]
      BY <1>3, <2>2, <3>1 DEF AgesInOrder
    <3>2. CASE n > published[t]
      BY <1>3, <1>4, <3>2 DEF AgesInOrder
    <3> QED BY <1>4, <3>1, <3>2
  <2> QED BY <1>1, <2>1, <2>2 DEF AgesInOrder
<1>6. Known(t)' = Known(t)
  BY <1>1 DEF Known
<1>7. \A a \in Late(t)' : a \in Late(t) \/ a = 0
  <2>1. CASE ~(Known(t) > 0)
    BY <1>6, <2>1 DEF Late
  <2>2. CASE Known(t) > 0
    <3> SUFFICES ASSUME NEW a \in Late(t)', a # 0 PROVE a \in Late(t)
      OBVIOUS
    <3>1. PICK n \in 1..published'[t] : n > Known(t) /\ a = age[t][n]
      BY <1>1, <1>6, <2>2 DEF Late
    <3>2. n \in 1..MaxFilings
      BY <1>4
    <3>3. n \in 1..published[t]
      BY <1>3, <1>4, <3>1, <3>2 DEF AgesInOrder
    <3> QED BY <2>2, <3>1, <3>3 DEF Late
  <2> QED BY <2>1, <2>2
<1>8. SyncKnows(t)'
  <2>1. progress[t].days \in Nat
    BY <1>4 DEF Typed, TableTypes
  <2> QED BY <1>1, <1>3, <1>6, <1>7, <2>1 DEF SyncKnows, InWork
<1>9. InTime(t)'
  <2>1. Slack(t)' = Slack(t) /\ Since' = Since
    BY <1>1 DEF Slack, Since, Unsettled
  <2>2. 0 <= Cooldown + Slack(t) + Since
    BY LimitFacts
  <2> QED BY <1>3, <1>7, <2>1, <2>2 DEF InTime
<1> QED BY <1>5, <1>8, <1>9 DEF TickerKnows

\* What a ticker knows stays when filings, facts and records do.
LEMMA TickerKeeps ==
  ASSUME UNCHANGED <<published, age, layer, progress>>, listed \subseteq listed',
         NEW t, TickerKnows(t), InTime(t)', InWork(t) => InWork(t)'
  PROVE  TickerKnows(t)'
<1>1. AgesInOrder(t)'
  BY DEF TickerKnows, AgesInOrder
<1>2. SyncKnows(t)'
  BY LateSame DEF TickerKnows, SyncKnows
<1> QED BY <1>1, <1>2 DEF TickerKnows

\* It stays in time while the job does not come to an end.
LEMMA TimeKeeps ==
  ASSUME Typed, UNCHANGED <<published, age, layer, supplement>>,
         Since' = Since \/ Since' = 1 + MaxRest,
         NEW t \in Tickers, TickerKnows(t)
  PROVE  InTime(t)'
<1>1. Late(t)' = Late(t) /\ Slack(t)' = Slack(t)
  BY LateSame DEF Slack
<1>2. Since \in Nat /\ Since' \in Nat /\ Since <= Since'
  BY LimitFacts
<1> SUFFICES ASSUME NEW a \in Late(t) PROVE a <= Cooldown + Slack(t) + Since'
  BY <1>1 DEF InTime
<1>3. a \in Nat /\ a <= Cooldown + Slack(t) + Since /\ Slack(t) \in Nat
  BY LateTyped, LimitFacts DEF TickerKnows, InTime
<1> QED BY <1>2, <1>3, LimitFacts

\* A change of the index, a start, and the way to the directory and through it.
LEMMA LagStart ==
  ASSUME Typed, Typed', Calm,
         Reconstitute \/ Trigger \/ Retry \/ ScopeBuilt \/ DirectoryWhole
  PROVE  Calm'
<1>0. job \in Jobs /\ job' \in Jobs
  BY DEF Typed, JobTypes
<1>1. /\ UNCHANGED <<published, age, layer, progress, supplement, hand>>
      /\ listed \subseteq listed' /\ hand'.pc = "idle"
  BY DEF Reconstitute, Trigger, Retry, ScopeBuilt, DirectoryWhole, world, tables,
         Calm
<1>2. job.pc \notin {"ingest", "record"}
  BY DEF Reconstitute, Trigger, Retry, ScopeBuilt, DirectoryWhole
<1>3. Since' = Since \/ Since' = 1 + MaxRest
  <2>1. CASE Reconstitute
    BY <2>1 DEF Reconstitute, Since, Unsettled
  <2>2. CASE Trigger \/ Retry \/ ScopeBuilt \/ DirectoryWhole
    <3>1. job'.pc \in {"scope", "directory", "filter"}
      BY <1>0, <2>2 DEF Trigger, Retry, ScopeBuilt, DirectoryWhole, NoJob, Jobs
    <3> QED BY <3>1 DEF Since, Unsettled
  <2> QED BY <2>1, <2>2
<1>4. JobKnows'
  <2>1. CASE Reconstitute
    BY <2>1 DEF Reconstitute, Calm, JobKnows, Fresh, ScopeKnown, WorkKnown, AskedInTime, Asking
  <2>2. CASE Trigger \/ Retry \/ ScopeBuilt
    <3>1. job'.pc \in {"scope", "directory"}
      BY <1>0, <2>2 DEF Trigger, Retry, ScopeBuilt, NoJob, Jobs
    <3>2. job'.todo = {} /\ job'.noWrite = {} /\ job'.failures = {}
      BY <1>0, <2>2 DEF Trigger, Retry, ScopeBuilt, NoJob, Jobs, Calm, JobKnows, Fresh
    <3> QED BY <3>1, <3>2 DEF JobKnows, Fresh, ScopeKnown, WorkKnown, AskedInTime, Asking
  <2>3. CASE DirectoryWhole
    <3>1. /\ job'.pc = "filter" /\ job'.collectable = Scope
          /\ Scope' = Scope /\ Scope \subseteq listed'
          /\ job'.todo = job.todo /\ job'.noWrite = job.noWrite
          /\ job'.failures = job.failures /\ job.pc = "directory"
      BY <1>0, <2>3 DEF DirectoryWhole, Jobs, Scope, world
    <3>2. job.todo = {} /\ job.noWrite = {} /\ job.failures = {}
      BY <3>1 DEF Calm, JobKnows, Fresh
    <3> QED BY <3>1, <3>2 DEF JobKnows, Fresh, ScopeKnown, WorkKnown, AskedInTime, Asking
  <2> QED BY <2>1, <2>2, <2>3
<1> SUFFICES ASSUME NEW t \in Tickers PROVE TickerKnows(t)'
  BY <1>1, <1>4 DEF Calm
<1>5. TickerKnows(t) /\ ~InWork(t)
  BY <1>2 DEF Calm, InWork
<1> QED BY <1>1, <1>3, <1>5, TickerKeeps, TimeKeeps

\* The job finds out who is to be asked.
LEMMA LagFilter ==
  ASSUME IntervalsShort, Typed, Typed', Calm, Filter
  PROVE  Calm'
<1>0. job \in Jobs
  BY DEF Typed, JobTypes
<1>1. /\ UNCHANGED <<published, age, index, layer, progress, listed, supplement, hand>>
      /\ job.pc = "filter" /\ Scope' = Scope /\ Scope \subseteq Tickers
  BY DEF Filter, world, tables, Scope, Typed, TableTypes
<1>2. /\ job.collectable = Scope /\ Scope \subseteq listed
      /\ job.todo \subseteq Scope /\ job.noWrite \subseteq Scope /\ job.failures = {}
  BY <1>1 DEF Calm, JobKnows, ScopeKnown, Asking
<1>3. /\ job'.collectable = Scope /\ job'.noWrite = job.noWrite /\ job'.failures = {}
      /\ \/ Scope = {} /\ job'.pc = "classify" /\ job'.todo = job.todo
         \/ job'.pc = "pick" /\ job'.todo = {t \in Scope : Pending(t)}
  BY <1>0, <1>1, <1>2 DEF Filter, Jobs
<1>4. \A t \in Tickers : TickerKnows(t)
  BY DEF Calm
<1>5. \A t \in Scope \ job'.todo : \A a \in Late(t)' : a <= Cooldown
  <2> SUFFICES ASSUME NEW t \in Scope \ job'.todo PROVE \A a \in Late(t)' : a <= Cooldown
    OBVIOUS
  <2>1. t \in Tickers /\ ~Pending(t)
    BY <1>1, <1>3
  <2> QED BY <1>1, <1>4, <2>1, NotPendingInTime, LateSame
<1>6. JobKnows'
  BY <1>1, <1>2, <1>3, <1>5 DEF JobKnows, Fresh, ScopeKnown, WorkKnown, AskedInTime, Asking
<1>7. Since' = 1 + MaxRest
  BY <1>3 DEF Since, Unsettled
<1>8. \A t \in Tickers : TickerKnows(t)'
  BY <1>1, <1>4, <1>7, TickerKeeps, TimeKeeps DEF InWork
<1> QED BY <1>1, <1>6, <1>8 DEF Calm

\* A document is fetched: all that is published, or nothing that is mapped.
LEMMA LagFetch ==
  ASSUME Typed, Typed', Calm, Fetch
  PROVE  Calm'
<1>0. job \in Jobs
  BY DEF Typed, JobTypes
<1> DEFINE t == NextOf(job.todo)
<1>1. /\ UNCHANGED <<published, age, index, layer, progress, listed, supplement, hand>>
      /\ job.pc = "pick" /\ job.todo # {} /\ Scope' = Scope
      /\ Scope \subseteq Tickers
  BY DEF Fetch, world, Scope, Typed, TableTypes
<1>2. /\ job.collectable = Scope /\ Scope \subseteq listed
      /\ job.todo \subseteq Scope /\ job.noWrite \subseteq Scope /\ job.failures = {}
      /\ \A u \in Scope \ job.todo : \A a \in Late(u) : a <= Cooldown
  BY <1>1 DEF Calm, JobKnows, ScopeKnown, AskedInTime, Asking
<1>3. t \in job.todo /\ t \in Tickers
  BY <1>1, <1>2, NextOfMember
<1>4. raw' = [raw EXCEPT ![t] = published[t]]
  BY DEF Fetch
<1>5. raw'[t] = published[t]
  BY <1>3, <1>4 DEF Typed, TableTypes
<1>6. \A u \in Tickers : TickerKnows(u)
  BY DEF Calm
<1>7. job'.pc \in {"pick", "ingest"}
  BY <1>0, NextTickerTyped DEF Fetch, Jobs
<1>8. JobKnows'
  <2>1. CASE t \in NoFacts
    <3>1. /\ job' = [NextTicker(job, t) EXCEPT !.noWrite = @ \cup {t}]
          /\ NextTicker(job, t) \in Jobs
      BY <1>0, <2>1, NextTickerTyped DEF Fetch
    <3>2. /\ job'.pc = "pick" /\ job'.collectable = Scope /\ job'.failures = {}
          /\ job'.todo = job.todo \ {t} /\ job'.noWrite = job.noWrite \cup {t}
      BY <1>0, <1>2, <3>1, NextTickerTyped DEF Jobs
    <3>3. Late(t) = {}
      <4>1. \A p \in Statements : layer[t][p] = 0
        BY <1>3, <1>6, <2>1 DEF TickerKnows, SyncKnows
      <4>2. Known(t) = 0
        BY <1>3, <4>1, KnownIs
      <4> QED BY <4>2 DEF Late
    <3>4. \A u \in Scope \ job'.todo : \A a \in Late(u)' : a <= Cooldown
      BY <1>1, <1>2, <3>2, <3>3, LateSame
    <3> HIDE DEF t
    <3> QED BY <1>1, <1>2, <1>3, <3>2, <3>4
            DEF JobKnows, Fresh, ScopeKnown, WorkKnown, AskedInTime, Asking
  <2>2. CASE t \notin NoFacts
    <3>1. job' = [job EXCEPT !.pc = "ingest", !.ticker = t, !.part = 1]
      BY <2>2 DEF Fetch
    <3>2. /\ job'.pc = "ingest" /\ job'.collectable = Scope /\ job'.failures = {}
          /\ job'.todo = job.todo /\ job'.noWrite = job.noWrite
          /\ job'.ticker = t /\ job'.part = 1
      BY <1>0, <1>2, <3>1 DEF Jobs
    <3>3. \A u \in Scope \ job'.todo : \A a \in Late(u)' : a <= Cooldown
      BY <1>1, <1>2, <3>2, LateSame
    <3> HIDE DEF t
    <3> QED BY <1>1, <1>2, <1>3, <1>5, <2>2, <3>2, <3>3
            DEF JobKnows, Fresh, ScopeKnown, WorkKnown, AskedInTime, Asking
  <2> QED BY <2>1, <2>2
<1>9. Since' = 1 + MaxRest
  BY <1>7 DEF Since, Unsettled
<1>10. \A u \in Tickers : TickerKnows(u)'
  BY <1>1, <1>6, <1>9, TickerKeeps, TimeKeeps DEF InWork
<1> QED BY <1>1, <1>8, <1>10 DEF Calm

\* A statement is ingested: from the first on the newest filing is known.
LEMMA LagIngest ==
  ASSUME Typed, Typed', Calm, IngestPart
  PROVE  Calm'
<1>0. job \in Jobs
  BY DEF Typed, JobTypes
<1>t. PICK t \in Tickers : t = job.ticker
  BY DEF IngestPart, Typed, JobTypes
<1>1. /\ UNCHANGED <<published, age, index, raw, progress, listed, supplement, hand>>
      /\ job.pc = "ingest" /\ Scope' = Scope /\ Scope \subseteq Tickers
      /\ job.ticker = t /\ job.part \in Statements
  BY <1>t DEF IngestPart, world, Scope, Typed, TableTypes, JobTypes
<1>2. /\ job.collectable = Scope /\ Scope \subseteq listed
      /\ job.todo \subseteq Scope /\ job.noWrite \subseteq Scope /\ job.failures = {}
      /\ \A u \in Scope \ job.todo : \A a \in Late(u) : a <= Cooldown
      /\ t \in job.todo /\ t \notin NoFacts /\ raw[t] = published[t]
      /\ job.part > 1 => layer[t][1] >= published[t]
  BY <1>1 DEF Calm, JobKnows, ScopeKnown, WorkKnown, AskedInTime, Asking
<1>3. layer' = [layer EXCEPT ![t][job.part] =
                    IF raw[t] > @ THEN raw[t] ELSE @]
  BY <1>t DEF IngestPart, Ingested
<1>4. /\ \A u \in Tickers : u # t => layer'[u] = layer[u]
      /\ \A p \in Statements :
           layer'[t][p] = IF p = job.part /\ raw[t] > layer[t][p]
                          THEN raw[t] ELSE layer[t][p]
  BY <1>1, <1>3 DEF Typed, TableTypes, Contents
<1>5. 1 \in Statements /\ layer'[t][1] >= published[t]
  <2>1. 1 \in Statements
    BY ConstantFacts DEF Statements
  <2>2. layer[t][1] \in Nat /\ published[t] \in Nat
    BY <1>1, <2>1 DEF Typed, TableTypes, Contents, Filings
  <2>3. job.part = 1 \/ job.part > 1
    BY <1>1, ConstantFacts DEF Statements
  <2> QED BY <1>2, <1>4, <2>1, <2>2, <2>3
<1>6. \A u \in Tickers : u # t => Late(u)' = Late(u) /\ Known(u)' = Known(u)
  <2> SUFFICES ASSUME NEW u \in Tickers, u # t
               PROVE  Late(u)' = Late(u) /\ Known(u)' = Known(u)
    OBVIOUS
  <2>1. layer'[u] = layer[u] /\ \A p \in Statements : layer[u][p] \in Nat
    BY <1>4 DEF Typed, TableTypes, Contents, Filings
  <2>2. /\ Known(u) \in Nat /\ \E p \in Statements : layer[u][p] = Known(u)
        /\ \A p \in Statements : layer[u][p] <= Known(u)
    BY KnownIs
  <2>3. /\ Known(u)' \in Nat /\ \E p \in Statements : layer'[u][p] = Known(u)'
        /\ \A p \in Statements : layer'[u][p] <= Known(u)'
    BY KnownIsNext DEF KnownGreatest
  <2>4. Known(u)' <= Known(u) /\ Known(u) <= Known(u)'
    BY <2>1, <2>2, <2>3
  <2>5. Known(u)' = Known(u)
    BY <2>2, <2>3, <2>4
  <2> QED BY <1>1, <2>5 DEF Late
<1>7. Late(t)' = {}
  <2>1. published'[t] = published[t]
    BY <1>1
  <2>2. \E p \in Statements : layer'[t][p] >= published'[t]
    BY <1>5, <2>1
  <2>3. \A u \in Tickers : (\E p \in Statements : layer'[u][p] >= published'[u]) => Late(u)' = {}
    <3> SUFFICES ASSUME NEW u \in Tickers, NEW p \in Statements,
                        layer'[u][p] >= published'[u]
                 PROVE  Late(u)' = {}
      OBVIOUS
    <3>1. /\ layer'[u][p] \in Nat /\ published'[u] \in Nat
      BY DEF Typed, TableTypes, Contents, Filings
    <3>2. Known(u)' \in Nat /\ layer'[u][p] <= Known(u)'
      BY KnownIsNext DEF KnownGreatest
    <3> DEFINE known == Known(u)'
    <3>3. known \in Nat /\ published'[u] <= known
      BY <3>1, <3>2
    <3> HIDE DEF known
    <3>4. \A k \in 1..published'[u] : ~(k > known)
      BY <3>1, <3>3
    <3> QED BY <3>4 DEF Late, known
  <2> QED BY <2>2, <2>3
<1>8. /\ job'.pc \in {"ingest", "record"} /\ job'.collectable = Scope
      /\ job'.failures = {} /\ job'.todo = job.todo /\ job'.noWrite = job.noWrite
      /\ job'.ticker = t
  BY <1>0, <1>1, <1>2 DEF IngestPart, Jobs
<1>9. JobKnows'
  <2>1. \A u \in Scope \ job'.todo : \A a \in Late(u)' : a <= Cooldown
    BY <1>1, <1>2, <1>6, <1>8
  <2> QED BY <1>1, <1>2, <1>5, <1>8, <2>1
          DEF JobKnows, Fresh, ScopeKnown, WorkKnown, AskedInTime, Asking
<1>10. Since' = Since /\ \A u : Slack(u)' = Slack(u)
  BY <1>1, <1>8 DEF Since, Unsettled, Slack
<1>11. ASSUME NEW u \in Tickers PROVE TickerKnows(u)'
  <2>1. TickerKnows(u)
    BY DEF Calm
  <2>2. AgesInOrder(u)'
    BY <1>1, <2>1 DEF TickerKnows, AgesInOrder
  <2>3. CASE u # t
    <3>1. InTime(u)'
      <4>1. Late(u)' = Late(u) /\ Slack(u)' = Slack(u) /\ Since' = Since
        BY <1>6, <1>10, <2>3
      <4>2. \A a \in Late(u) : a <= Cooldown + Slack(u) + Since
        BY <2>1 DEF TickerKnows, InTime
      <4>3. \A a \in Late(u)' : a <= Cooldown + Slack(u)' + Since'
        BY <4>1, <4>2
      <4> QED BY <4>3 DEF InTime
    <3>2. SyncKnows(u)'
      BY <1>1, <1>4, <1>6, <2>1, <2>3 DEF TickerKnows, SyncKnows, InWork
    <3> QED BY <2>2, <3>1, <3>2 DEF TickerKnows
  <2>4. CASE u = t
    <3>1. InTime(u)'
      BY <1>7, <2>4 DEF InTime
    <3>2. SyncKnows(u)'
      BY <1>1, <1>2, <1>7, <1>8, <2>1, <2>4 DEF TickerKnows, SyncKnows, InWork
    <3> QED BY <2>2, <3>1, <3>2 DEF TickerKnows
  <2> QED BY <2>3, <2>4
<1> QED BY <1>1, <1>9, <1>11 DEF Calm

\* A ticker is recorded, with nothing left for the next fetch.
LEMMA LagRecord ==
  ASSUME Typed, Typed', Calm, Record
  PROVE  Calm'
<1>0. job \in Jobs
  BY DEF Typed, JobTypes
<1> DEFINE t == job.ticker
<1>1. /\ UNCHANGED <<published, age, index, layer, listed, supplement, hand>>
      /\ job.pc = "record" /\ Scope' = Scope /\ Scope \subseteq Tickers
      /\ t \in Tickers
  BY DEF Record, world, Scope, Typed, TableTypes, JobTypes
<1>2. /\ job.collectable = Scope /\ Scope \subseteq listed
      /\ job.todo \subseteq Scope /\ job.noWrite \subseteq Scope /\ job.failures = {}
      /\ \A u \in Scope \ job.todo : \A a \in Late(u) : a <= Cooldown
      /\ t \in job.todo /\ layer[t][1] >= published[t]
  BY <1>1 DEF Calm, JobKnows, ScopeKnown, WorkKnown, AskedInTime, Asking
<1>3. Late(t) = {}
  <2>1. 1 \in Statements
    BY ConstantFacts DEF Statements
  <2> HIDE DEF t
  <2> QED BY <1>1, <1>2, <2>1, NothingLate
<1>4. /\ job'.pc = "pick" /\ job'.collectable = Scope /\ job'.failures = {}
      /\ job'.todo = job.todo \ {t} /\ job'.noWrite = job.noWrite
  <2>1. /\ job' = [NextTicker(job, t) EXCEPT !.synced = @ \cup {t}]
        /\ NextTicker(job, t) \in Jobs
    BY <1>0, NextTickerTyped DEF Record
  <2> QED BY <1>0, <1>2, <2>1, NextTickerTyped DEF Jobs
<1>5. \A u : Late(u)' = Late(u) /\ Known(u)' = Known(u)
  BY <1>1, LateSame
<1>6. JobKnows'
  <2>1. \A u \in Scope \ job'.todo : \A a \in Late(u)' : a <= Cooldown
    BY <1>2, <1>3, <1>4, <1>5
  <2> HIDE DEF t
  <2> QED BY <1>1, <1>2, <1>4, <2>1
          DEF JobKnows, Fresh, ScopeKnown, WorkKnown, AskedInTime, Asking
<1>7. Since' = 1 + MaxRest
  BY <1>4 DEF Since, Unsettled
<1>8. /\ progress'[t].status = "success"
      /\ \A u \in Tickers : u # t => progress'[u] = progress[u]
  BY <1>1 DEF Record, Typed, TableTypes
<1>9. ASSUME NEW u \in Tickers PROVE TickerKnows(u)'
  <2>1. TickerKnows(u)
    BY DEF Calm
  <2>2. AgesInOrder(u)'
    BY <1>1, <2>1 DEF TickerKnows, AgesInOrder
  <2>3. InTime(u)'
    BY <1>1, <1>7, <2>1, TimeKeeps
  <2>4. SyncKnows(u)'
    <3>1. CASE u = t
      BY <1>1, <1>2, <1>3, <1>5, <1>8, <2>1, <3>1 DEF TickerKnows, SyncKnows
    <3>2. CASE u # t
      BY <1>1, <1>5, <1>8, <2>1, <3>2 DEF TickerKnows, SyncKnows, InWork
    <3> QED BY <3>1, <3>2
  <2> QED BY <2>2, <2>3, <2>4 DEF TickerKnows
<1> QED BY <1>1, <1>6, <1>9 DEF Calm

\* The job is through with the day: the scope was asked in time, and what has
\* data and is out of the scope comes into the supplement.
LEMMA LagClassify ==
  ASSUME Typed, Typed', Calm, Classify
  PROVE  Calm'
<1>0. job \in Jobs
  BY DEF Typed, JobTypes
<1>1. /\ UNCHANGED <<published, age, index, layer, progress, listed, hand>>
      /\ job.pc \in {"pick", "classify"}
      /\ supplement' = supplement \cup Uncovered(Scope, ExpectedSkip(job))
  BY DEF Classify, Collected, world
<1>2. /\ job.noWrite \subseteq Scope /\ job.failures = {} /\ job.todo = {}
      /\ \A u \in Scope : \A a \in Late(u) : a <= Cooldown
  BY <1>1 DEF Calm, JobKnows, ScopeKnown, AskedInTime, Asking, Classify, Collected
<1>3. job'.pc \in {"idle", "wait", "read"}
  <2>1. CASE Blocked(job)
    BY <2>1, GateAttemptFails DEF Classify
  <2>2. CASE ~Blocked(job)
    BY <1>0, <2>2, NoJobIdle DEF Classify, Jobs
  <2> QED BY <2>1, <2>2
<1>4. JobKnows'
  BY <1>3 DEF JobKnows, Fresh, ScopeKnown, WorkKnown, AskedInTime, Asking
<1>5. ExpectedSkip(job) \subseteq Scope
  BY <1>2 DEF ExpectedSkip, Outcomes
<1>6. Since = 1 + MaxRest /\ Since' \in Nat
  <2>1. Since = 1 + MaxRest
    BY <1>1 DEF Since, Unsettled
  <2>2. rest' \in 0..MaxRest /\ MaxRest \in Nat
    BY ConstantFacts DEF Typed, TableTypes
  <2>3. Since' = IF Unsettled' THEN 1 + MaxRest ELSE rest'
    BY DEF Since
  <2> QED BY <2>1, <2>2, <2>3
<1>7. ASSUME NEW u \in Tickers PROVE TickerKnows(u)'
  <2>1. TickerKnows(u) /\ ~InWork(u)
    BY <1>1 DEF Calm, InWork
  <2>2. Late(u)' = Late(u) /\ Slack(u)' \in Nat
    BY <1>1, LateSame, LimitFacts DEF Slack
  <2>3. ASSUME NEW a \in Late(u) PROVE a <= Cooldown + Slack(u)' + Since'
    <3>1. a \in Nat
      BY LateTyped
    <3>2. CASE u \in Scope
      BY <1>2, <1>6, <2>2, <3>1, <3>2, LimitFacts
    <3>3. CASE u \notin Scope
      <4>1. Known(u) > 0
        BY DEF Late
      <4>2. u \in listed
        BY <2>1, <4>1 DEF TickerKnows, SyncKnows
      <4>3. u \in supplement' /\ u \notin supplement
        BY <1>1, <1>5, <3>3, <4>2 DEF Uncovered, Scope
      <4>4. Slack(u)' = 1 + MaxRest /\ Slack(u) = 0
        BY <4>3 DEF Slack
      <4>5. a <= Cooldown + 0 + (1 + MaxRest)
        BY <1>6, <2>1, <4>4 DEF TickerKnows, InTime
      <4> QED BY <1>6, <3>1, <4>4, <4>5, LimitFacts
    <3> QED BY <3>2, <3>3
  <2>4. InTime(u)'
    BY <2>2, <2>3 DEF InTime
  <2> QED BY <1>1, <2>1, <2>4, TickerKeeps
<1> QED BY <1>1, <1>4, <1>7 DEF Calm

\* The projection and the validation leave all this alone.
LEMMA LagProject ==
  ASSUME Typed, Typed', Calm, Read \/ Write \/ Validate \/ UNCHANGED vars
  PROVE  Calm'
<1>0. job \in Jobs
  BY DEF Typed, JobTypes
<1>1. UNCHANGED <<published, age, index, layer, progress, listed, supplement, hand,
                  due, rest, raw>>
  BY DEF Read, Write, Validate, world, tables, bounds, vars
<1>2. \/ job' = job
      \/ job.pc \in {"read", "validate"} /\ job'.pc \in {"idle", "read", "validate"}
  BY <1>0, NoJobIdle DEF Read, Write, Validate, SeenNext, Jobs, vars
<1>3. JobKnows'
  <2>1. CASE job' = job
    <3>1. \A u : Late(u)' = Late(u)
      BY <1>1, LateSame
    <3>2. Scope' = Scope
      BY <1>1 DEF Scope
    <3> QED BY <1>1, <2>1, <3>1, <3>2
            DEF Calm, JobKnows, Fresh, ScopeKnown, WorkKnown, AskedInTime, Asking
  <2>2. CASE job'.pc \in {"idle", "read", "validate"}
    BY <2>2 DEF JobKnows, Fresh, ScopeKnown, WorkKnown, AskedInTime, Asking
  <2> QED BY <1>2, <2>1, <2>2
<1>4. Since' = Since
  BY <1>1, <1>2 DEF Since, Unsettled
<1>5. ASSUME NEW u \in Tickers PROVE TickerKnows(u)'
  <2>1. TickerKnows(u) /\ (InWork(u) => InWork(u)')
    BY <1>2 DEF Calm, InWork
  <2> QED BY <1>1, <1>4, <2>1, TickerKeeps, TimeKeeps
<1> QED BY <1>1, <1>3, <1>5 DEF Calm

-----------------------------------------------------------------------------
\* At first everything with data is known and recorded.
LEMMA LagInit == Init => LagInv
<1> SUFFICES ASSUME Init PROVE Calm
  BY DEF LagInv
<1>0. Typed
  BY TypeInit
<1>1. hand.pc = "idle" /\ JobKnows
  BY DEF Init, NoHand, NoJob, JobKnows, Fresh, ScopeKnown, WorkKnown, AskedInTime, Asking
<1>2. ASSUME NEW t \in Tickers PROVE TickerKnows(t)
  <2>1. /\ published[t] = 1 /\ 1 \in Statements
        /\ \A p \in Statements :
             layer[t][p] = IF t \in Indexed \ NoFacts THEN 1 ELSE 0
    BY ConstantFacts DEF Init, Statements
  <2>2. AgesInOrder(t)
    BY <2>1 DEF Init, AgesInOrder
  <2>3. Late(t) = {}
    <3>1. CASE t \in Indexed \ NoFacts
      BY <1>0, <2>1, <3>1, NothingLate
    <3>2. CASE t \notin Indexed \ NoFacts
      <4>1. Known(t) = 0
        BY <1>0, <2>1, <3>2, KnownIs
      <4> QED BY <4>1 DEF Late
    <3> QED BY <3>1, <3>2
  <2>4. SyncKnows(t)
    <3>1. Known(t) > 0 => t \in Indexed \ NoFacts
      BY <1>0, <2>1, KnownIs
    <3> QED BY <2>1, <2>3, <3>1 DEF SyncKnows, Init
  <2>5. InTime(t)
    BY <2>3 DEF InTime
  <2> QED BY <2>2, <2>4, <2>5 DEF TickerKnows
<1> QED BY <1>1, <1>2 DEF Calm

\* Every step without a failure or a command by hand keeps it.
LEMMA LagNext ==
  ASSUME IntervalsShort, Typed, Typed', LagInv, [Next]_vars
  PROVE  LagInv'
<1> SUFFICES ASSUME faults' = 0 PROVE Calm'
  BY DEF LagInv
<1>1. ~Fault
  BY ConstantFacts DEF Fault, Typed, TableTypes
<1>2. faults = 0
  BY <1>1 DEF Next, JobStep, Failure, HandStep, NextDay, Reconstitute, Publish,
       Trigger, Retry, ScopeBuilt, DirectoryWhole, Filter, Fetch, IngestPart, Record,
       Classify, Read, Write, Validate, HandReads, HandWrites, HandIngests, bounds,
       Crash, StageFails, ScopeUnresolved, DirectoryPartial, DirectoryFails, SyncAborts,
       FetchFails, IngestFails, RecordFails, HandStops, HandProjects, HandReparses, vars
<1>3. Calm
  BY <1>2 DEF LagInv
<1>4. ~Failure /\ ~HandProjects /\ ~(\E t \in Tickers : HandReparses(t)) /\ ~HandStep
  BY <1>1, <1>3 DEF Failure, HandStep, Crash, StageFails, ScopeUnresolved,
       DirectoryPartial, DirectoryFails, SyncAborts, FetchFails, IngestFails, RecordFails,
       HandStops, HandProjects, HandReparses, HandReads, HandWrites, HandIngests, Calm
<1> QED
  BY <1>3, <1>4, LagNextDay, LagPublish, LagStart, LagFilter, LagFetch, LagIngest,
     LagRecord, LagClassify, LagProject DEF Next, JobStep

\* DiscoveryLag: where nothing failed, a filing of a synchronised ticker is left
\* out for the cooldown, a weekend and a missed run at most, if the intervals
\* are at most a day longer than the cooldown (_filter_pending_us_tickers,
\* auto_register_supplement).
THEOREM FilingsAreDiscovered == IntervalsShort => (Spec => []DiscoveryLag)
<1> SUFFICES ASSUME IntervalsShort PROVE Spec => []DiscoveryLag
  OBVIOUS
<1>1. Typed /\ [Next]_vars => Typed'
  BY TypeWorld, TypeHand, TypeJob, TypeFailure
     DEF Next, vars, Typed, JobTypes, HandTypes, TableTypes
<1>2. Typed /\ Typed' /\ LagInv /\ [Next]_vars => LagInv'
  BY LagNext
<1>3. Typed /\ LagInv => DiscoveryLag
  <2> SUFFICES ASSUME Typed, LagInv, faults = 0, job.pc = "idle", ~due,
                      NEW t \in Tickers, NEW n \in 1..published[t],
                      Known(t) > 0, n > Known(t)
               PROVE  age[t][n] <= Cooldown + MaxRest + (1 + MaxRest)
    BY DEF DiscoveryLag
  <2>1. age[t][n] \in Late(t)
    BY DEF Late
  <2>2. age[t][n] <= Cooldown + Slack(t) + rest
    BY <2>1 DEF LagInv, Calm, TickerKnows, InTime, Since, Unsettled
  <2>3. Slack(t) \in Nat /\ Slack(t) <= 1 + MaxRest
    BY LimitFacts DEF Slack
  <2>4. age[t][n] \in Nat
    BY <2>1, LateTyped
  <2> QED BY <2>2, <2>3, <2>4, LimitFacts
<1> QED
  BY <1>1, <1>2, <1>3, TypeInit, LagInit, PTL DEF Spec
=============================================================================
