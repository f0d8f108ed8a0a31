------------------------ MODULE BackfillBatchProofs ------------------------
(* Proofs about BackfillBatch, for every set of workers and stocks and every *)
(* number of snapshots and resumes.                                          *)
EXTENDS BackfillBatch, TLAPS

ApplySteps == LoopSteps \cup {"applyLock", "apply"}
StageSteps == {"stage", "stageItem", "stageSave", "stageEnd"}

\* A command that takes no lock has the batch to itself.
Solo ==
  \A v, w \in Workers : pc[v] \in HandSteps /\ pc[w] # "idle" => v = w

\* Between __enter__ and __exit__ the advisory lock is the worker's.
HoldsLock == \A w \in Workers : pc[w] \in LockSteps => lock = w

\* What a command read of the row is still so when it writes the row.
HandKnows ==
  \A w \in Workers :
    /\ pc[w] \in StageSteps => status \in {"staged", "interrupted"}
                               /\ held[w] \in Manifests
    /\ pc[w] = "stageItem" => at[w] \in Items
    /\ pc[w] = "verify" => status = "staged" /\ held[w] = manifest
    /\ pc[w] = "approve" => /\ status = "verified"
                            /\ held[w] = manifest
                            /\ held[w] \in Manifests
    /\ pc[w] = "postVerify" => status = "applied"
    /\ pc[w] = "reject" => owned \subseteq excluded

\* An apply, from its reading of the row on, has the reviewed manifest.
ApplyKnows ==
  \A w \in Workers :
    /\ pc[w] \in ApplySteps => /\ held[w] \in reviewed
                               /\ manifest = held[w]
                               /\ approved = held[w]
    /\ pc[w] \in ApplySteps \cup {"resumeLock", "resume"} => status # "rejected"
    /\ pc[w] \in LoopSteps => status = "applying"
    /\ pc[w] \in {"applyLock", "apply"} => todo[w] = Stocks
    /\ pc[w] \in {"item", "written", "failItem"} => at[w] \in Items

\* What is off the list of an apply is in the fact table.
Progress ==
  \A w \in Workers : \A s \in Stocks \ todo[w] :
    \/ pc[w] \notin {"items", "item", "written"}
    \/ pc[w] = "item" /\ at[w][1] = s
    \/ Content(s, held[w][s]) \subseteq facts

RowKnows ==
  /\ status = "verified" => manifest \in checked \cup {NoManifest}
  /\ status = "approved" => manifest \in reviewed /\ approved = manifest
  /\ status = "rejected" => owned \subseteq excluded

\* Every fact has one first writer, the batch or the daily sync, and only the
\* batch's are excluded.
Ownership ==
  /\ facts = owned \cup synced
  /\ owned \cap synced = {}
  /\ excluded \subseteq owned

IInv ==
  /\ TypeOK
  /\ Solo
  /\ HoldsLock
  /\ HandKnows
  /\ ApplyKnows
  /\ Progress
  /\ RowKnows
  /\ AppliedIsWhole
  /\ Ownership


USE DEF row, store, locals, history, Goto

\* Leaf facts about who may be where.
LEMMA AllIdle ==
  ASSUME \A v \in Workers : pc'[v] = "idle"
  PROVE  Solo' /\ HoldsLock' /\ HandKnows' /\ ApplyKnows' /\ Progress'
BY DEF Solo, HoldsLock, HandKnows, ApplyKnows, Progress, HandSteps, LockSteps,
       LoopSteps, ApplySteps, StageSteps

\* At most one worker is within a command that takes no lock.
LEMMA OneHand ==
  ASSUME NEW w \in Workers, pc'[w] \in HandSteps,
         \A v \in Workers \ {w} : pc'[v] = "idle"
  PROVE  Solo' /\ HoldsLock' /\ ApplyKnows' /\ Progress'
BY DEF Solo, HoldsLock, ApplyKnows, Progress, HandSteps, LockSteps, LoopSteps,
       ApplySteps

\* None is, while an apply or a resume has the lock.
LEMMA NoHand ==
  ASSUME \A v \in Workers : pc'[v] \notin HandSteps
  PROVE  Solo' /\ HandKnows'
BY DEF Solo, HandKnows, HandSteps, StageSteps

\* A command that takes no lock runs alone ...
LEMMA AloneInHand ==
  ASSUME TypeOK, Solo, NEW w \in Workers, pc[w] \in HandSteps
  PROVE  \A v \in Workers \ {w} : pc[v] = "idle"
BY DEF Solo, HandSteps

\* ... so none runs beside an apply or a resume.
LEMMA NoHandBeside ==
  ASSUME TypeOK, Solo, NEW w \in Workers, pc[w] \notin HandSteps,
         pc[w] # "idle"
  PROVE  \A v \in Workers : pc[v] \notin HandSteps
BY DEF Solo

\* stage begins: the batch is staged or interrupted.
LEMMA StageReadKeeps ==
  ASSUME BatchAssumption, OneAtATime, ~BareRollback, IInv,
         NEW w \in Workers, StageRead(w)
  PROVE  IInv'
<1>1. /\ \A v \in Workers \ {w} : pc'[v] = "idle"
      /\ pc'[w] \in HandSteps
  BY DEF IInv, TypeOK, StageRead, Hand, HandSteps
<1>2. TypeOK'
  BY DEF IInv, StageRead, TypeOK, Steps, HandSteps, Statuses, Stageable
<1>3. HandKnows'
  BY <1>1 DEF IInv, TypeOK, HandKnows, StageRead, Stageable
<1>4. RowKnows' /\ AppliedIsWhole' /\ Ownership'
  BY DEF IInv, StageRead, RowKnows, AppliedIsWhole, Ownership, Written
<1> QED BY <1>1, <1>2, <1>3, <1>4, OneHand DEF IInv

\* verify has read the row.
LEMMA VerifyReadKeeps ==
  ASSUME BatchAssumption, OneAtATime, ~BareRollback, IInv,
         NEW w \in Workers, VerifyRead(w)
  PROVE  IInv'
<1>1. /\ \A v \in Workers \ {w} : pc'[v] = "idle"
      /\ pc'[w] \in HandSteps
  BY DEF IInv, TypeOK, VerifyRead, Hand, HandSteps
<1>2. TypeOK'
  BY DEF IInv, VerifyRead, TypeOK, Steps, HandSteps
<1>3. HandKnows'
  BY <1>1 DEF IInv, TypeOK, HandKnows, VerifyRead, StageSteps
<1>4. RowKnows' /\ AppliedIsWhole' /\ Ownership'
  BY DEF IInv, VerifyRead, RowKnows, AppliedIsWhole, Ownership
<1> QED BY <1>1, <1>2, <1>3, <1>4, OneHand DEF IInv

\* approve has read the row and the file.
LEMMA ApproveReadKeeps ==
  ASSUME BatchAssumption, OneAtATime, ~BareRollback, IInv,
         NEW w \in Workers, ApproveRead(w)
  PROVE  IInv'
<1>1. /\ \A v \in Workers \ {w} : pc'[v] = "idle"
      /\ pc'[w] \in HandSteps
  BY DEF IInv, TypeOK, ApproveRead, Hand, HandSteps
<1>2. TypeOK'
  BY DEF IInv, ApproveRead, TypeOK, Steps, HandSteps
<1>3. HandKnows'
  BY <1>1 DEF IInv, TypeOK, HandKnows, ApproveRead, StageSteps
<1>4. RowKnows' /\ AppliedIsWhole' /\ Ownership'
  BY DEF IInv, ApproveRead, RowKnows, AppliedIsWhole, Ownership
<1> QED BY <1>1, <1>2, <1>3, <1>4, OneHand DEF IInv

\* post-verify has read the row.
LEMMA PostVerifyReadKeeps ==
  ASSUME BatchAssumption, OneAtATime, ~BareRollback, IInv,
         NEW w \in Workers, PostVerifyRead(w)
  PROVE  IInv'
<1>1. /\ \A v \in Workers \ {w} : pc'[v] = "idle"
      /\ pc'[w] \in HandSteps
  BY DEF IInv, TypeOK, PostVerifyRead, Hand, HandSteps
<1>2. TypeOK'
  BY DEF IInv, PostVerifyRead, TypeOK, Steps, HandSteps
<1>3. HandKnows'
  BY <1>1 DEF IInv, TypeOK, HandKnows, PostVerifyRead, StageSteps
<1>4. RowKnows' /\ AppliedIsWhole' /\ Ownership'
  BY DEF IInv, PostVerifyRead, RowKnows, AppliedIsWhole, Ownership
<1> QED BY <1>1, <1>2, <1>3, <1>4, OneHand DEF IInv

\* Every rollback creates exclusions first.
LEMMA RollbackReadKeeps ==
  ASSUME BatchAssumption, OneAtATime, ~BareRollback, IInv,
         NEW w \in Workers, RollbackRead(w)
  PROVE  IInv'
<1>1. /\ \A v \in Workers \ {w} : pc'[v] = "idle"
      /\ pc'[w] \in HandSteps
  BY DEF IInv, TypeOK, RollbackRead, Hand, HandSteps
<1>2. TypeOK'
  BY DEF IInv, RollbackRead, TypeOK, Steps, HandSteps
<1>3. HandKnows'
  BY <1>1 DEF IInv, TypeOK, HandKnows, RollbackRead, StageSteps
<1>4. RowKnows' /\ AppliedIsWhole' /\ Ownership'
  BY DEF IInv, RollbackRead, RowKnows, AppliedIsWhole, Ownership
<1> QED BY <1>1, <1>2, <1>3, <1>4, OneHand DEF IInv

\* An item is opened.
LEMMA StageItemKeeps ==
  ASSUME BatchAssumption, OneAtATime, ~BareRollback, IInv,
         NEW w \in Workers, StageItem(w)
  PROVE  IInv'
<1>1. /\ \A v \in Workers \ {w} : pc'[v] = "idle"
      /\ pc'[w] \in HandSteps
  BY AloneInHand DEF IInv, StageItem, HandSteps
<1>2. TypeOK'
  <2>1. \A s \in Stocks : <<s, held[w][s]>> \in Items
    BY DEF IInv, HandKnows, StageItem, StageSteps, Manifests, Items
  <2>2. PICK s \in todo[w] :
           /\ at' = [at EXCEPT ![w] = <<s, held[w][s]>>]
           /\ todo' = [todo EXCEPT ![w] = @ \ {s}]
           /\ item' = [item EXCEPT ![<<s, held[w][s]>>] = "applying"]
    BY DEF StageItem
  <2>3. item' \in [Items -> ItemStatuses] /\ at' \in [Workers -> Items \cup {NoItem}]
        /\ todo' \in [Workers -> SUBSET Stocks]
    BY <2>1, <2>2 DEF IInv, TypeOK, ItemStatuses
  <2> QED BY <2>3 DEF IInv, TypeOK, StageItem, Steps, HandSteps
<1>3. HandKnows'
  BY <1>1 DEF IInv, TypeOK, HandKnows, StageItem, StageSteps, Manifests, Items
<1>4. RowKnows' /\ AppliedIsWhole' /\ Ownership'
  BY DEF IInv, StageItem, RowKnows, AppliedIsWhole, Ownership
<1> QED BY <1>1, <1>2, <1>3, <1>4, OneHand DEF IInv

\* An item is closed.
LEMMA StageItemDoneKeeps ==
  ASSUME BatchAssumption, OneAtATime, ~BareRollback, IInv,
         NEW w \in Workers, StageItemDone(w)
  PROVE  IInv'
<1>1. /\ \A v \in Workers \ {w} : pc'[v] = "idle"
      /\ pc'[w] \in HandSteps
  BY AloneInHand DEF IInv, StageItemDone, HandSteps
<1>2. TypeOK'
  <2>1. at[w] \in Items
    BY DEF IInv, HandKnows, StageItemDone
  <2>2. item' \in [Items -> ItemStatuses]
    BY <2>1 DEF IInv, TypeOK, StageItemDone, ItemStatuses
  <2> QED BY <2>2 DEF IInv, TypeOK, StageItemDone, Steps, HandSteps
<1>3. HandKnows'
  BY <1>1 DEF IInv, TypeOK, HandKnows, StageItemDone, StageSteps
<1>4. RowKnows' /\ AppliedIsWhole' /\ Ownership'
  BY DEF IInv, StageItemDone, RowKnows, AppliedIsWhole, Ownership
<1> QED BY <1>1, <1>2, <1>3, <1>4, OneHand DEF IInv

\* The manifest file is written.
LEMMA StageSaveKeeps ==
  ASSUME BatchAssumption, OneAtATime, ~BareRollback, IInv,
         NEW w \in Workers, StageSave(w)
  PROVE  IInv'
<1>1. /\ \A v \in Workers \ {w} : pc'[v] = "idle"
      /\ pc'[w] \in HandSteps
  BY AloneInHand DEF IInv, StageSave, HandSteps
<1>2. TypeOK'
  BY DEF IInv, StageSave, TypeOK, Steps, HandSteps
<1>3. HandKnows'
  BY <1>1 DEF IInv, TypeOK, HandKnows, StageSave, StageSteps
<1>4. RowKnows' /\ AppliedIsWhole' /\ Ownership'
  BY DEF IInv, StageSave, RowKnows, AppliedIsWhole, Ownership
<1> QED BY <1>1, <1>2, <1>3, <1>4, OneHand DEF IInv

\* What the batch inserted is excluded.
LEMMA RollbackExcludeKeeps ==
  ASSUME BatchAssumption, OneAtATime, ~BareRollback, IInv,
         NEW w \in Workers, RollbackExclude(w)
  PROVE  IInv'
<1>1. /\ \A v \in Workers \ {w} : pc'[v] = "idle"
      /\ pc'[w] \in HandSteps
  BY AloneInHand DEF IInv, RollbackExclude, HandSteps
<1>2. TypeOK'
  BY DEF IInv, RollbackExclude, TypeOK, Steps, HandSteps
<1>3. HandKnows'
  BY <1>1 DEF IInv, TypeOK, HandKnows, RollbackExclude, StageSteps
<1>4. RowKnows' /\ AppliedIsWhole' /\ Ownership'
  BY DEF IInv, RollbackExclude, RowKnows, AppliedIsWhole, Ownership
<1> QED BY <1>1, <1>2, <1>3, <1>4, OneHand DEF IInv

\* The row gets the new manifest.
LEMMA StageEndKeeps ==
  ASSUME BatchAssumption, OneAtATime, ~BareRollback, IInv,
         NEW w \in Workers, StageEnd(w)
  PROVE  IInv'
<1>1. \A v \in Workers : pc'[v] = "idle"
  BY AloneInHand DEF IInv, TypeOK, StageEnd, End, HandSteps
<1>2. TypeOK'
  BY DEF IInv, StageEnd, End, TypeOK, Steps, HandSteps, Statuses, Stageable
<1>3. RowKnows' /\ AppliedIsWhole' /\ Ownership'
  BY DEF IInv, TypeOK, StageEnd, RowKnows, AppliedIsWhole, Ownership,
     Written
<1> QED BY <1>1, <1>2, <1>3, AllIdle DEF IInv

\* The manifest verify looked at is now checked.
LEMMA VerifyEndKeeps ==
  ASSUME BatchAssumption, OneAtATime, ~BareRollback, IInv,
         NEW w \in Workers, VerifyEnd(w)
  PROVE  IInv'
<1>1. \A v \in Workers : pc'[v] = "idle"
  BY AloneInHand DEF IInv, TypeOK, VerifyEnd, End, HandSteps
<1>2. TypeOK'
  BY DEF IInv, VerifyEnd, End, TypeOK, Steps, HandSteps, Statuses
<1>3. RowKnows' /\ AppliedIsWhole' /\ Ownership'
  BY DEF IInv, TypeOK, HandKnows, VerifyEnd, RowKnows, AppliedIsWhole,
     Ownership, Written
<1> QED BY <1>1, <1>2, <1>3, AllIdle DEF IInv

\* The manifest is reviewed: verify had passed it.
LEMMA ApproveEndKeeps ==
  ASSUME BatchAssumption, OneAtATime, ~BareRollback, IInv,
         NEW w \in Workers, ApproveEnd(w)
  PROVE  IInv'
<1>1. \A v \in Workers : pc'[v] = "idle"
  BY AloneInHand DEF IInv, TypeOK, ApproveEnd, End, HandSteps
<1>2. TypeOK'
  BY DEF IInv, ApproveEnd, End, TypeOK, Steps, HandSteps, Statuses
<1>3. RowKnows' /\ AppliedIsWhole' /\ Ownership'
  <2>1. manifest \in checked /\ held[w] = manifest
    BY DEF IInv, HandKnows, RowKnows, ApproveEnd, Manifests
  <2> QED BY <2>1 DEF IInv, ApproveEnd, RowKnows, AppliedIsWhole,
     Ownership, Written
<1> QED BY <1>1, <1>2, <1>3, AllIdle DEF IInv

\* The batch stays whole.
LEMMA PostVerifyEndKeeps ==
  ASSUME BatchAssumption, OneAtATime, ~BareRollback, IInv,
         NEW w \in Workers, PostVerifyEnd(w)
  PROVE  IInv'
<1>1. \A v \in Workers : pc'[v] = "idle"
  BY AloneInHand DEF IInv, TypeOK, PostVerifyEnd, End, HandSteps
<1>2. TypeOK'
  BY DEF IInv, PostVerifyEnd, End, TypeOK, Steps, HandSteps, Statuses, Written
<1>3. RowKnows' /\ AppliedIsWhole' /\ Ownership'
  <2>1. status = "applied"
    BY DEF IInv, HandKnows, PostVerifyEnd
  <2> QED BY <2>1 DEF IInv, PostVerifyEnd, RowKnows, AppliedIsWhole,
     Ownership, Written
<1> QED BY <1>1, <1>2, <1>3, AllIdle DEF IInv

\* The batch is rejected.
LEMMA RollbackEndKeeps ==
  ASSUME BatchAssumption, OneAtATime, ~BareRollback, IInv,
         NEW w \in Workers, RollbackEnd(w)
  PROVE  IInv'
<1>1. \A v \in Workers : pc'[v] = "idle"
  BY AloneInHand DEF IInv, TypeOK, RollbackEnd, End, HandSteps
<1>2. TypeOK'
  BY DEF IInv, RollbackEnd, End, TypeOK, Steps, HandSteps, Statuses
<1>3. RowKnows' /\ AppliedIsWhole' /\ Ownership'
  <2>1. owned \subseteq excluded
    BY DEF IInv, HandKnows, RollbackEnd
  <2> QED BY <2>1 DEF IInv, RollbackEnd, RowKnows, AppliedIsWhole,
     Ownership, Written
<1> QED BY <1>1, <1>2, <1>3, AllIdle DEF IInv

\* The approved manifest is a reviewed one.
LEMMA ApplyReadKeeps ==
  ASSUME BatchAssumption, OneAtATime, ~BareRollback, IInv,
         NEW w \in Workers, ApplyRead(w)
  PROVE  IInv'
<1>1. \A v \in Workers : pc'[v] \notin HandSteps
  BY DEF IInv, ApplyRead, Locked, HandSteps
<1>2. TypeOK'
  BY DEF IInv, ApplyRead, TypeOK, Steps, HandSteps
<1>3. HoldsLock'
  BY DEF IInv, TypeOK, HoldsLock, ApplyRead, LockSteps, LoopSteps
<1>4. ApplyKnows'
  BY DEF IInv, TypeOK, ApplyKnows, HoldsLock, RowKnows, ApplyRead, LockSteps,
     LoopSteps
<1>5. Progress'
  BY DEF IInv, TypeOK, ApplyKnows, Progress, ApplyRead
<1>6. RowKnows' /\ AppliedIsWhole' /\ Ownership'
  BY DEF IInv, ApplyKnows, ApplyRead, RowKnows, AppliedIsWhole, Ownership
<1> QED BY <1>1, <1>2, <1>3, <1>4, <1>5, <1>6, NoHand DEF IInv

\* The lock was free.
LEMMA ApplyLockKeeps ==
  ASSUME BatchAssumption, OneAtATime, ~BareRollback, IInv,
         NEW w \in Workers, ApplyLock(w)
  PROVE  IInv'
<1>1. \A v \in Workers : pc'[v] \notin HandSteps
  BY NoHandBeside DEF IInv, ApplyLock, TakeLock, HandSteps
<1>2. TypeOK'
  BY DEF IInv, ApplyLock, TakeLock, TypeOK, Steps, HandSteps, LockSteps
<1>3. HoldsLock'
  BY DEF IInv, TypeOK, HoldsLock, ApplyLock, TakeLock, LockSteps
<1>4. ApplyKnows'
  BY DEF IInv, TypeOK, ApplyKnows, HoldsLock, ApplyLock, TakeLock, ApplySteps,
     LoopSteps
<1>5. Progress'
  BY DEF IInv, ApplyKnows, Progress, ApplyLock, TakeLock
<1>6. RowKnows' /\ AppliedIsWhole' /\ Ownership'
  BY DEF IInv, ApplyLock, TakeLock, RowKnows, AppliedIsWhole, Ownership
<1> QED BY <1>1, <1>2, <1>3, <1>4, <1>5, <1>6, NoHand DEF IInv

\* The command gives up.
LEMMA LockBusyKeeps ==
  ASSUME BatchAssumption, OneAtATime, ~BareRollback, IInv,
         NEW w \in Workers, LockBusy(w)
  PROVE  IInv'
<1>1. \A v \in Workers : pc'[v] \notin HandSteps
  BY NoHandBeside DEF IInv, LockBusy, End, HandSteps
<1>2. TypeOK'
  BY DEF IInv, LockBusy, End, TypeOK, Steps, HandSteps
<1>3. HoldsLock'
  BY DEF IInv, TypeOK, HoldsLock, LockBusy, End, LockSteps, LoopSteps
<1>4. ApplyKnows'
  BY DEF IInv, TypeOK, ApplyKnows, HoldsLock, LockBusy, End, ApplySteps,
     LockSteps, LoopSteps
<1>5. Progress'
  BY DEF IInv, TypeOK, ApplyKnows, Progress, LockBusy, End
<1>6. RowKnows' /\ AppliedIsWhole' /\ Ownership'
  BY DEF IInv, LockBusy, RowKnows, AppliedIsWhole, Ownership
<1> QED BY <1>1, <1>2, <1>3, <1>4, <1>5, <1>6, NoHand DEF IInv

\* Nothing is written yet.
LEMMA ApplyStartKeeps ==
  ASSUME BatchAssumption, OneAtATime, ~BareRollback, IInv,
         NEW w \in Workers, ApplyStart(w)
  PROVE  IInv'
<1>1. \A v \in Workers : pc'[v] \notin HandSteps
  BY NoHandBeside DEF IInv, ApplyStart, HandSteps
<1>2. TypeOK'
  BY DEF IInv, ApplyStart, TypeOK, Steps, HandSteps, LockSteps, LoopSteps,
     Statuses
<1>3. HoldsLock'
  BY DEF IInv, TypeOK, HoldsLock, ApplyStart, LockSteps, LoopSteps
<1>4. ApplyKnows'
  BY DEF IInv, TypeOK, ApplyKnows, HoldsLock, ApplyStart, ApplySteps, LockSteps
<1>5. Progress'
  BY DEF IInv, ApplyKnows, Progress, ApplyStart
<1>6. RowKnows' /\ AppliedIsWhole' /\ Ownership'
  BY DEF IInv, ApplyKnows, ApplyStart, ApplySteps, RowKnows, AppliedIsWhole,
     Ownership, Written
<1> QED BY <1>1, <1>2, <1>3, <1>4, <1>5, <1>6, NoHand DEF IInv

\* A source leaves the list and is in work.
LEMMA ApplyItemKeeps ==
  ASSUME BatchAssumption, OneAtATime, ~BareRollback, IInv,
         NEW w \in Workers, ApplyItem(w)
  PROVE  IInv'
<1>1. \A v \in Workers : pc'[v] \notin HandSteps
  BY NoHandBeside DEF IInv, ApplyItem, HandSteps
<1>2. TypeOK'
  BY DEF IInv, ApplyItem, TypeOK, Items, Steps, HandSteps, LockSteps,
     LoopSteps, ItemStatuses
<1>3. HoldsLock'
  BY DEF IInv, TypeOK, HoldsLock, ApplyItem, LockSteps, LoopSteps
<1>4. ApplyKnows'
  BY DEF IInv, TypeOK, ApplyKnows, HoldsLock, ApplyItem, ApplySteps, LockSteps,
     LoopSteps, Items
<1>5. Progress'
  BY DEF IInv, TypeOK, ApplyKnows, Progress, ApplyItem
<1>6. RowKnows' /\ AppliedIsWhole' /\ Ownership'
  BY DEF IInv, ApplyItem, RowKnows, AppliedIsWhole, Ownership
<1> QED BY <1>1, <1>2, <1>3, <1>4, <1>5, <1>6, NoHand DEF IInv

\* The facts of the source in work are in the table, and all of them are of
\* the reviewed manifest.
LEMMA ApplyFactsKeeps ==
  ASSUME BatchAssumption, OneAtATime, ~BareRollback, IInv,
         NEW w \in Workers, ApplyFacts(w)
  PROVE  IInv'
<1>1. \A v \in Workers : pc'[v] \notin HandSteps
  BY NoHandBeside DEF IInv, ApplyFacts, HandSteps
<1>2. TypeOK'
  <2>1. at[w][1] \in Stocks /\ held[w] \in Manifests
    BY DEF IInv, TypeOK, ApplyKnows, ApplyFacts, ApplySteps, LoopSteps, Items
  <2>2. Content(at[w][1], held[w][at[w][1]]) \subseteq Facts
    BY <2>1 DEF Content, Manifests, Facts
  <2> QED BY <2>2 DEF IInv, TypeOK, ApplyFacts, NewFacts, Steps, LockSteps, LoopSteps
<1>3. HoldsLock'
  BY DEF IInv, TypeOK, HoldsLock, ApplyFacts, LockSteps, LoopSteps
<1>4. ApplyKnows'
  BY DEF IInv, TypeOK, ApplyKnows, HoldsLock, ApplyFacts, ApplySteps,
     LockSteps, LoopSteps
<1>5. Progress'
  BY DEF IInv, ApplyKnows, Progress, ApplyFacts, NewFacts
<1>6. RowKnows' /\ AppliedIsWhole' /\ Ownership'
  BY DEF IInv, ApplyKnows, ApplyFacts, NewFacts, LoopSteps, RowKnows,
     AppliedIsWhole, Ownership
<1> QED BY <1>1, <1>2, <1>3, <1>4, <1>5, <1>6, NoHand DEF IInv

\* The source in work is done.
LEMMA ApplyItemDoneKeeps ==
  ASSUME BatchAssumption, OneAtATime, ~BareRollback, IInv,
         NEW w \in Workers, ApplyItemDone(w)
  PROVE  IInv'
<1>1. \A v \in Workers : pc'[v] \notin HandSteps
  BY NoHandBeside DEF IInv, ApplyItemDone, HandSteps
<1>2. TypeOK'
  BY DEF IInv, ApplyItemDone, TypeOK, Steps, HandSteps, LockSteps, LoopSteps,
     ItemStatuses
<1>3. HoldsLock'
  BY DEF IInv, TypeOK, HoldsLock, ApplyItemDone, LockSteps, LoopSteps
<1>4. ApplyKnows'
  BY DEF IInv, TypeOK, ApplyKnows, HoldsLock, ApplyItemDone, ApplySteps,
     LockSteps, LoopSteps
<1>5. Progress'
  BY DEF IInv, TypeOK, ApplyKnows, Progress, ApplyItemDone
<1>6. RowKnows' /\ AppliedIsWhole' /\ Ownership'
  BY DEF IInv, ApplyItemDone, RowKnows, AppliedIsWhole, Ownership
<1> QED BY <1>1, <1>2, <1>3, <1>4, <1>5, <1>6, NoHand DEF IInv

\* A failed apply claims nothing.
LEMMA ApplyErrorKeeps ==
  ASSUME BatchAssumption, OneAtATime, ~BareRollback, IInv,
         NEW w \in Workers, ApplyError(w)
  PROVE  IInv'
<1>1. \A v \in Workers : pc'[v] \notin HandSteps
  BY NoHandBeside DEF IInv, ApplyError, HandSteps
<1>2. TypeOK'
  BY DEF IInv, ApplyError, TypeOK, Steps, HandSteps, LockSteps, LoopSteps
<1>3. HoldsLock'
  BY DEF IInv, TypeOK, HoldsLock, ApplyError, LockSteps, LoopSteps
<1>4. ApplyKnows'
  BY DEF IInv, TypeOK, ApplyKnows, HoldsLock, ApplyError, ApplySteps,
     LockSteps, LoopSteps
<1>5. Progress'
  BY DEF IInv, ApplyKnows, Progress, ApplyError
<1>6. RowKnows' /\ AppliedIsWhole' /\ Ownership'
  BY DEF IInv, ApplyError, RowKnows, AppliedIsWhole, Ownership
<1> QED BY <1>1, <1>2, <1>3, <1>4, <1>5, <1>6, NoHand DEF IInv

\* The row does not change.
LEMMA ApplyItemFailedKeeps ==
  ASSUME BatchAssumption, OneAtATime, ~BareRollback, IInv,
         NEW w \in Workers, ApplyItemFailed(w)
  PROVE  IInv'
<1>1. \A v \in Workers : pc'[v] \notin HandSteps
  BY NoHandBeside DEF IInv, ApplyItemFailed, HandSteps
<1>2. TypeOK'
  BY DEF IInv, ApplyItemFailed, TypeOK, Steps, HandSteps, LockSteps, LoopSteps,
     ItemStatuses
<1>3. HoldsLock'
  BY DEF IInv, TypeOK, HoldsLock, ApplyItemFailed, LockSteps, LoopSteps
<1>4. ApplyKnows'
  BY DEF IInv, ApplyKnows, HoldsLock, ApplyItemFailed, ApplySteps, LockSteps,
     LoopSteps
<1>5. Progress'
  BY DEF IInv, ApplyKnows, Progress, ApplyItemFailed
<1>6. RowKnows' /\ AppliedIsWhole' /\ Ownership'
  BY DEF IInv, ApplyItemFailed, RowKnows, AppliedIsWhole, Ownership
<1> QED BY <1>1, <1>2, <1>3, <1>4, <1>5, <1>6, NoHand DEF IInv

\* The batch is not applied.
LEMMA ApplyFailedKeeps ==
  ASSUME BatchAssumption, OneAtATime, ~BareRollback, IInv,
         NEW w \in Workers, ApplyFailed(w)
  PROVE  IInv'
<1>1. \A v \in Workers : pc'[v] \notin HandSteps
  BY NoHandBeside DEF IInv, ApplyFailed, Finish, HandSteps
<1>2. TypeOK'
  BY DEF IInv, ApplyFailed, Finish, TypeOK, Steps, HandSteps, LockSteps,
     Statuses, Resumable
<1>3. HoldsLock'
  BY DEF IInv, TypeOK, HoldsLock, ApplyFailed, Finish, LockSteps, LoopSteps
<1>4. ApplyKnows'
  BY DEF IInv, TypeOK, ApplyKnows, HoldsLock, ApplyFailed, Finish, ApplySteps,
     LockSteps, LoopSteps
<1>5. Progress'
  BY DEF IInv, TypeOK, ApplyKnows, Progress, ApplyFailed, Finish
<1>6. RowKnows' /\ AppliedIsWhole' /\ Ownership'
  BY DEF IInv, ApplyFailed, Finish, RowKnows, AppliedIsWhole, Ownership,
     Written
<1> QED BY <1>1, <1>2, <1>3, <1>4, <1>5, <1>6, NoHand DEF IInv

\* The batch is not applied.
LEMMA ApplyInterruptedKeeps ==
  ASSUME BatchAssumption, OneAtATime, ~BareRollback, IInv,
         NEW w \in Workers, ApplyInterrupted(w)
  PROVE  IInv'
<1>1. \A v \in Workers : pc'[v] \notin HandSteps
  BY NoHandBeside DEF IInv, ApplyInterrupted, Finish, HandSteps
<1>2. TypeOK'
  BY DEF IInv, ApplyInterrupted, Finish, TypeOK, Steps, HandSteps, LockSteps,
     Statuses, Resumable
<1>3. HoldsLock'
  BY DEF IInv, TypeOK, HoldsLock, ApplyInterrupted, Finish, LockSteps,
     LoopSteps
<1>4. ApplyKnows'
  BY DEF IInv, TypeOK, ApplyKnows, HoldsLock, ApplyInterrupted, Finish,
     ApplySteps, LockSteps, LoopSteps
<1>5. Progress'
  BY DEF IInv, TypeOK, ApplyKnows, Progress, ApplyInterrupted, Finish
<1>6. RowKnows' /\ AppliedIsWhole' /\ Ownership'
  BY DEF IInv, ApplyInterrupted, Finish, RowKnows, AppliedIsWhole,
     Ownership, Written
<1> QED BY <1>1, <1>2, <1>3, <1>4, <1>5, <1>6, NoHand DEF IInv

\* With an empty list every fact of the manifest is in the table.
LEMMA ApplyDoneKeeps ==
  ASSUME BatchAssumption, OneAtATime, ~BareRollback, IInv,
         NEW w \in Workers, ApplyDone(w)
  PROVE  IInv'
<1>1. \A v \in Workers : pc'[v] \notin HandSteps
  BY NoHandBeside DEF IInv, ApplyDone, Finish, HandSteps
<1>2. TypeOK'
  BY DEF IInv, ApplyDone, Finish, TypeOK, Steps, HandSteps, LockSteps,
     Statuses, Written
<1>3. HoldsLock'
  BY DEF IInv, TypeOK, HoldsLock, ApplyDone, Finish, LockSteps, LoopSteps
<1>4. ApplyKnows'
  BY DEF IInv, TypeOK, ApplyKnows, HoldsLock, ApplyDone, Finish, ApplySteps,
     LockSteps, LoopSteps
<1>5. Progress'
  BY DEF IInv, TypeOK, ApplyKnows, Progress, ApplyDone, Finish
<1>6. RowKnows' /\ AppliedIsWhole' /\ Ownership'
  <2>1. manifest = held[w] /\ manifest \in Manifests
    BY DEF IInv, TypeOK, ApplyKnows, ApplyDone, ApplySteps, LoopSteps
  <2>2. \A s \in Stocks : Content(s, held[w][s]) \subseteq facts
    BY DEF IInv, Progress, ApplyDone
  <2>3. FactsOf(manifest) \subseteq facts
    BY <2>1, <2>2 DEF FactsOf
  <2>4. manifest # NoManifest
    BY <2>1 DEF Manifests
  <2>5. manifest' = manifest /\ facts' = facts /\ status' = "applied"
    BY DEF ApplyDone, Finish
  <2>6. AppliedIsWhole'
    BY <2>3, <2>4, <2>5 DEF AppliedIsWhole
  <2> QED BY <2>6 DEF IInv, ApplyDone, Finish, RowKnows, Ownership
<1> QED BY <1>1, <1>2, <1>3, <1>4, <1>5, <1>6, NoHand DEF IInv

\* Only the lease changes.
LEMMA HeartbeatKeeps ==
  ASSUME BatchAssumption, OneAtATime, ~BareRollback, IInv,
         NEW w \in Workers, Heartbeat(w)
  PROVE  IInv'
<1>1. \A v \in Workers : pc'[v] \notin HandSteps
  BY NoHandBeside DEF IInv, Heartbeat, HandSteps, LockSteps, LoopSteps
<1>2. TypeOK'
  BY DEF IInv, Heartbeat, TypeOK, HandSteps, LockSteps, LoopSteps
<1>3. HoldsLock'
  BY DEF IInv, TypeOK, HoldsLock, Heartbeat
<1>4. ApplyKnows'
  BY DEF IInv, TypeOK, ApplyKnows, HoldsLock, Heartbeat
<1>5. Progress'
  BY DEF IInv, ApplyKnows, Progress, Heartbeat
<1>6. RowKnows' /\ AppliedIsWhole' /\ Ownership'
  BY DEF IInv, ApplyKnows, Heartbeat, RowKnows, AppliedIsWhole, Ownership
<1> QED BY <1>1, <1>2, <1>3, <1>4, <1>5, <1>6, NoHand DEF IInv

\* The lock is given back.
LEMMA ExitKeeps ==
  ASSUME BatchAssumption, OneAtATime, ~BareRollback, IInv,
         NEW w \in Workers, Exit(w)
  PROVE  IInv'
<1>1. \A v \in Workers : pc'[v] \notin HandSteps
  BY NoHandBeside DEF IInv, Exit, End, HandSteps
<1>2. TypeOK'
  BY DEF IInv, Exit, End, TypeOK, Steps, HandSteps
<1>3. HoldsLock'
  BY DEF IInv, TypeOK, HoldsLock, Exit, End, LockSteps, LoopSteps
<1>4. ApplyKnows'
  BY DEF IInv, TypeOK, ApplyKnows, HoldsLock, Exit, End, ApplySteps, LockSteps,
     LoopSteps
<1>5. Progress'
  BY DEF IInv, ApplyKnows, Progress, Exit, End
<1>6. RowKnows' /\ AppliedIsWhole' /\ Ownership'
  BY DEF IInv, Exit, RowKnows, AppliedIsWhole, Ownership
<1> QED BY <1>1, <1>2, <1>3, <1>4, <1>5, <1>6, NoHand DEF IInv

\* The batch is interrupted or failed.
LEMMA ResumeReadKeeps ==
  ASSUME BatchAssumption, OneAtATime, ~BareRollback, IInv,
         NEW w \in Workers, ResumeRead(w)
  PROVE  IInv'
<1>1. \A v \in Workers : pc'[v] \notin HandSteps
  BY DEF IInv, ResumeRead, Locked, HandSteps
<1>2. TypeOK'
  BY DEF IInv, ResumeRead, TypeOK, Steps, HandSteps
<1>3. HoldsLock'
  BY DEF IInv, TypeOK, HoldsLock, ResumeRead, LockSteps, LoopSteps
<1>4. ApplyKnows'
  BY DEF IInv, TypeOK, ApplyKnows, Resumable, ResumeRead, ApplySteps,
     LockSteps, LoopSteps
<1>5. Progress'
  BY DEF IInv, ApplyKnows, Progress, ResumeRead
<1>6. RowKnows' /\ AppliedIsWhole' /\ Ownership'
  BY DEF IInv, ResumeRead, RowKnows, AppliedIsWhole, Ownership
<1> QED BY <1>1, <1>2, <1>3, <1>4, <1>5, <1>6, NoHand DEF IInv

\* The lock was free.
LEMMA ResumeLockKeeps ==
  ASSUME BatchAssumption, OneAtATime, ~BareRollback, IInv,
         NEW w \in Workers, ResumeLock(w)
  PROVE  IInv'
<1>1. \A v \in Workers : pc'[v] \notin HandSteps
  BY NoHandBeside DEF IInv, ResumeLock, TakeLock, HandSteps
<1>2. TypeOK'
  BY DEF IInv, ResumeLock, TakeLock, TypeOK, Steps, HandSteps, LockSteps
<1>3. HoldsLock'
  BY DEF IInv, TypeOK, HoldsLock, ResumeLock, TakeLock, LockSteps
<1>4. ApplyKnows'
  BY DEF IInv, TypeOK, ApplyKnows, HoldsLock, ResumeLock, TakeLock, ApplySteps,
     LoopSteps
<1>5. Progress'
  BY DEF IInv, ApplyKnows, Progress, ResumeLock, TakeLock
<1>6. RowKnows' /\ AppliedIsWhole' /\ Ownership'
  BY DEF IInv, ResumeLock, TakeLock, RowKnows, AppliedIsWhole, Ownership
<1> QED BY <1>1, <1>2, <1>3, <1>4, <1>5, <1>6, NoHand DEF IInv

\* Whoever else has read the row waits for the lock.
LEMMA ResumeEndKeeps ==
  ASSUME BatchAssumption, OneAtATime, ~BareRollback, IInv,
         NEW w \in Workers, ResumeEnd(w)
  PROVE  IInv'
<1>1. \A v \in Workers : pc'[v] \notin HandSteps
  BY NoHandBeside DEF IInv, ResumeEnd, HandSteps
<1>2. TypeOK'
  BY DEF IInv, ResumeEnd, TypeOK, Steps, HandSteps, LockSteps, Statuses,
     Stageable
<1>3. HoldsLock'
  BY DEF IInv, TypeOK, HoldsLock, ResumeEnd, LockSteps
<1>4. ApplyKnows'
  BY DEF IInv, TypeOK, ApplyKnows, HoldsLock, ResumeEnd, ApplySteps, LockSteps,
     LoopSteps
<1>5. Progress'
  BY DEF IInv, ApplyKnows, Progress, ResumeEnd
<1>6. RowKnows' /\ AppliedIsWhole' /\ Ownership'
  BY DEF IInv, ResumeEnd, RowKnows, AppliedIsWhole, Ownership, Written
<1> QED BY <1>1, <1>2, <1>3, <1>4, <1>5, <1>6, NoHand DEF IInv

\* A killed worker leaves its lock to its session, never to another worker.
LEMMA CrashKeeps ==
  ASSUME BatchAssumption, IInv, NEW w \in Workers, Crash(w)
  PROVE  IInv'
<1>1. /\ pc'[w] = "idle"
      /\ \A v \in Workers \ {w} :
           /\ pc'[v] = pc[v] /\ held'[v] = held[v]
           /\ todo'[v] = todo[v] /\ at'[v] = at[v]
  BY DEF IInv, TypeOK, Crash, End
<1>2. TypeOK'
  BY DEF IInv, TypeOK, Crash, End, Steps
<1>3. Solo'
  BY <1>1 DEF IInv, Solo, HandSteps
<1>4. HoldsLock'
  BY <1>1 DEF IInv, HoldsLock, Crash, LockSteps, LoopSteps
<1>5. HandKnows'
  BY <1>1 DEF IInv, HandKnows, Crash, StageSteps
<1>6. ApplyKnows'
  BY <1>1 DEF IInv, ApplyKnows, Crash, ApplySteps, LoopSteps
<1>7. Progress'
  BY <1>1 DEF IInv, Progress, Crash
<1>8. RowKnows' /\ AppliedIsWhole' /\ Ownership'
  BY DEF IInv, Crash, RowKnows, AppliedIsWhole, Ownership
<1> QED BY <1>2, <1>3, <1>4, <1>5, <1>6, <1>7, <1>8 DEF IInv

\* The lock of a killed worker becomes free.
LEMMA SessionEndsKeeps ==
  ASSUME BatchAssumption, IInv, SessionEnds
  PROVE  IInv'
<1>1. TypeOK' /\ HoldsLock'
  BY DEF IInv, TypeOK, HoldsLock, SessionEnds
<1>2. Solo' /\ HandKnows' /\ ApplyKnows' /\ Progress'
  BY DEF IInv, Solo, HandKnows, ApplyKnows, Progress, SessionEnds
<1> QED BY <1>1, <1>2 DEF IInv, SessionEnds, RowKnows, AppliedIsWhole, Ownership

\* The steps that touch neither a worker nor the table of facts: a lease runs
\* out, the sync saves a snapshot, a dry run writes the file, nothing happens.
LEMMA QuietKeeps ==
  ASSUME BatchAssumption, IInv,
         \/ LeaseExpires
         \/ \E s \in Stocks : SyncSnapshot(s)
         \/ \E w \in Workers : StageDry(w)
         \/ UNCHANGED vars
  PROVE  IInv'
<1>1. /\ UNCHANGED <<status, manifest, approved, clean, resumes, item, store,
                     excluded, lock, pc, locals, history>>
      /\ leased' \in BOOLEAN
      /\ file' \in Manifests \cup {NoManifest}
      /\ fresh' \in Manifests
  <2>1. ASSUME NEW s \in Stocks, SyncSnapshot(s) PROVE fresh' \in Manifests
    <3>1. fresh[s] + 1 \in 1..MaxSnap
      BY <2>1 DEF IInv, TypeOK, SyncSnapshot, Manifests, BatchAssumption
    <3> QED BY <2>1, <3>1 DEF IInv, TypeOK, SyncSnapshot, Manifests
  <2>2. CASE LeaseExpires
    BY <2>2 DEF IInv, TypeOK, LeaseExpires
  <2>3. CASE \E s \in Stocks : SyncSnapshot(s)
    BY <2>1, <2>3 DEF IInv, TypeOK, SyncSnapshot
  <2>4. CASE \E w \in Workers : StageDry(w)
    BY <2>4 DEF IInv, TypeOK, StageDry
  <2>5. CASE UNCHANGED vars
    BY <2>5 DEF IInv, TypeOK, vars
  <2> QED BY <2>2, <2>3, <2>4, <2>5
<1>2. TypeOK' /\ Solo' /\ HoldsLock'
  BY <1>1 DEF IInv, TypeOK, Solo, HoldsLock
<1>3. HandKnows' /\ ApplyKnows' /\ Progress'
  BY <1>1 DEF IInv, HandKnows, ApplyKnows, Progress
<1> QED BY <1>1, <1>2, <1>3 DEF IInv, RowKnows, AppliedIsWhole, Ownership

\* The sync only adds facts; those that were not there are its own.
LEMMA SyncFactsKeeps ==
  ASSUME BatchAssumption, IInv, NEW s \in Stocks, SyncFacts(s)
  PROVE  IInv'
<1>1. PICK part \in SUBSET Content(s, fresh[s]) :
        facts' = facts \cup part /\ synced' = synced \cup (part \ facts)
  BY DEF SyncFacts
<1>2. part \subseteq Facts
  BY DEF IInv, TypeOK, Content, Manifests, Facts
<1>3. UNCHANGED <<row, item, file, fresh, owned, excluded, lock, pc, locals,
                  checked, reviewed>>
  BY DEF SyncFacts
<1>4. TypeOK' /\ Solo' /\ HoldsLock'
  BY <1>1, <1>2, <1>3 DEF IInv, TypeOK, Solo, HoldsLock
<1>5. HandKnows' /\ ApplyKnows' /\ Progress'
  BY <1>1, <1>3 DEF IInv, HandKnows, ApplyKnows, Progress
<1>6. Ownership'
  BY <1>1, <1>3 DEF IInv, Ownership
<1> QED BY <1>1, <1>3, <1>4, <1>5, <1>6 DEF IInv, RowKnows, AppliedIsWhole

\* Nothing is staged yet.
LEMMA InitKeeps ==
  ASSUME BatchAssumption, Init
  PROVE  IInv
<1>1. TypeOK
  <2>1. fresh \in Manifests
    BY DEF Init, Manifests, BatchAssumption
  <2> QED BY <2>1 DEF Init, TypeOK, ItemStatuses, Statuses, Stageable, Steps
<1>2. Solo /\ HoldsLock /\ HandKnows /\ ApplyKnows /\ Progress
  BY DEF Init, Solo, HoldsLock, HandKnows, ApplyKnows, Progress, HandSteps,
         LockSteps, LoopSteps, ApplySteps, StageSteps
<1>3. RowKnows /\ AppliedIsWhole /\ Ownership
  BY DEF Init, RowKnows, AppliedIsWhole, Ownership, Written
<1> QED BY <1>1, <1>2, <1>3 DEF IInv

\* Every step of a command preserves the invariant.
LEMMA WorkerKeeps ==
  ASSUME BatchAssumption, OneAtATime, ~BareRollback, IInv, NEW w \in Workers,
         Stage(w) \/ Review(w) \/ Apply(w) \/ Resume(w) \/ Rollback(w)
  PROVE  IInv'
<1>1. CASE Stage(w)
  BY <1>1, StageReadKeeps, QuietKeeps, StageItemKeeps, StageItemDoneKeeps,
     StageSaveKeeps, StageEndKeeps DEF Stage
<1>2. CASE Review(w)
  BY <1>2, VerifyReadKeeps, VerifyEndKeeps, ApproveReadKeeps, ApproveEndKeeps,
     PostVerifyReadKeeps, PostVerifyEndKeeps DEF Review
<1>3. CASE Apply(w)
  BY <1>3, ApplyReadKeeps, ApplyLockKeeps, LockBusyKeeps, ApplyStartKeeps,
     ApplyItemKeeps, ApplyFactsKeeps, ApplyItemDoneKeeps, ApplyErrorKeeps,
     ApplyItemFailedKeeps, ApplyFailedKeeps, ApplyInterruptedKeeps,
     ApplyDoneKeeps, HeartbeatKeeps, ExitKeeps DEF Apply
<1>4. CASE Resume(w)
  BY <1>4, ResumeReadKeeps, ResumeLockKeeps, ResumeEndKeeps DEF Resume
<1>5. CASE Rollback(w)
  BY <1>5, RollbackReadKeeps, RollbackExcludeKeeps, RollbackEndKeeps DEF Rollback
<1> QED BY <1>1, <1>2, <1>3, <1>4, <1>5

\* The runbook's procedure: one command after the other, except those that
\* take the advisory lock, and no rollback without exclusions.
ByTheBook == OneAtATime /\ ~BareRollback

\* The inductive invariant holds of a batch handled by the book: what a command
\* read is still so when it writes, and the lock belongs to the one that applies.
THEOREM BatchInvariant == ByTheBook => (Spec => []IInv)
<1> SUFFICES ASSUME ByTheBook PROVE Spec => []IInv
  OBVIOUS
<1>1. Init => IInv
  BY InitKeeps, BatchAssumption
<1>2. ASSUME IInv, [Next]_vars PROVE IInv'
  BY <1>2, WorkerKeeps, CrashKeeps, SessionEndsKeeps, QuietKeeps, SyncFactsKeeps,
     BatchAssumption DEF Next, ByTheBook
<1> QED BY <1>1, <1>2, PTL DEF Spec

\* Rows, items and facts keep their shape; the batch owns only facts that are
\* in the table and only checked manifests are reviewed.
THEOREM BatchTyping == ByTheBook => (Spec => []TypeOK)
<1>1. IInv => TypeOK
  BY DEF IInv
<1> QED BY <1>1, BatchInvariant, PTL

\* While a worker writes facts it has the lock and the row is the one it was
\* started from (BatchWorker, cmd_apply).
THEOREM OneOwner == ByTheBook => (Spec => []WriterOwnsBatch)
<1>1. IInv => WriterOwnsBatch
  BY DEF IInv, HoldsLock, ApplyKnows, WriterOwnsBatch, LockSteps, ApplySteps
<1> QED BY <1>1, BatchInvariant, PTL

\* A batch that says applied has all facts of its manifest in the table.
THEOREM AppliedBatchesAreWhole == ByTheBook => (Spec => []AppliedIsWhole)
<1>1. IInv => AppliedIsWhole
  BY DEF IInv
<1> QED BY <1>1, BatchInvariant, PTL

\* A rollback spares what the daily sync was the first to store, and a
\* rejected batch leaves exactly that selected.
THEOREM RollbacksAreExact == ByTheBook => (Spec => []RollbackIsExact)
<1>1. IInv => RollbackIsExact
  BY DEF IInv, RowKnows, Ownership, RollbackIsExact
<1> QED BY <1>1, BatchInvariant, PTL

AbstractStep == [Abstract!Next]_(Abstract!vars)

\* Steps that the abstract batch does not see.
LEMMA Unseen ==
  ASSUME UNCHANGED <<reviewed, owned, excluded>>,
         (status = "rejected") = (status' = "rejected")
  PROVE  AbstractStep
BY DEF AbstractStep, Abstract!vars

\* The manifest that is approved passed verify, and the batch is not rejected.
LEMMA ApproveMaps ==
  ASSUME IInv, NEW w \in Workers, ApproveEnd(w)
  PROVE  AbstractStep
<1>1. /\ status = "verified" /\ status' = "approved"
      /\ held[w] \in Manifests
      /\ reviewed' = reviewed \cup ({held[w]} \cap checked)
      /\ UNCHANGED <<owned, excluded>>
  BY DEF IInv, HandKnows, ApproveEnd
<1>2. CASE held[w] \in checked
  BY <1>1, <1>2 DEF AbstractStep, Abstract!Next, Abstract!Review
<1>3. CASE held[w] \notin checked
  BY <1>1, <1>3, Unseen
<1> QED BY <1>2, <1>3

\* What is inserted belongs to the reviewed manifest in hand.
LEMMA FactsMap ==
  ASSUME IInv, NEW w \in Workers, ApplyFacts(w)
  PROVE  AbstractStep
<1> DEFINE new == NewFacts(held[w], at[w][1])
<1>1. /\ held[w] \in reviewed /\ status = "applying" /\ at[w][1] \in Stocks
  BY DEF IInv, ApplyKnows, ApplyFacts, ApplySteps, LoopSteps, Items
<1>2. new \subseteq FactsOf(held[w])
  BY <1>1 DEF NewFacts, FactsOf
<1>3. /\ owned' = owned \cup new
      /\ UNCHANGED <<reviewed, excluded, status>>
  BY DEF ApplyFacts
<1> HIDE DEF new
<1> QED BY <1>1, <1>2, <1>3 DEF AbstractStep, Abstract!Next, Abstract!Publish

\* With its exclusions created, a rollback is the abstract withdrawal.
LEMMA RollbackMaps ==
  ASSUME IInv, NEW w \in Workers, RollbackExclude(w) \/ RollbackEnd(w)
  PROVE  AbstractStep
<1>1. CASE RollbackExclude(w)
  <2>1. /\ excluded \subseteq excluded' /\ excluded' \subseteq owned
        /\ UNCHANGED <<reviewed, owned, status>>
    BY <1>1 DEF IInv, Ownership, RollbackExclude
  <2> QED BY <2>1 DEF AbstractStep, Abstract!Next, Abstract!Withdraw
<1>2. CASE RollbackEnd(w)
  <2>1. /\ owned \subseteq excluded
        /\ status' = "rejected"
        /\ UNCHANGED <<reviewed, owned, excluded>>
    BY <1>2 DEF IInv, HandKnows, RollbackEnd
  <2> QED BY <2>1 DEF AbstractStep, Abstract!Next, Abstract!Reject
<1> QED BY <1>1, <1>2

\* No step but the last of a rollback rejects the batch, none takes it back.
LEMMA NextMaps ==
  ASSUME IInv, [Next]_vars
  PROVE  AbstractStep
<1>1. ASSUME NEW w \in Workers, Stage(w) PROVE AbstractStep
  BY <1>1, Unseen DEF IInv, HandKnows, StageSteps, Stage, StageRead, StageDry,
     StageItem, StageItemDone, StageSave, StageEnd, Stageable
<1>2. ASSUME NEW w \in Workers, Review(w) PROVE AbstractStep
  <2>1. CASE ApproveEnd(w)
    BY <2>1, ApproveMaps
  <2>2. CASE ~ApproveEnd(w)
    BY <1>2, <2>2, Unseen DEF IInv, HandKnows, Review, VerifyRead, VerifyEnd,
       ApproveRead, PostVerifyRead, PostVerifyEnd
  <2> QED BY <2>1, <2>2
<1>3. ASSUME NEW w \in Workers, Apply(w) PROVE AbstractStep
  <2>1. CASE ApplyFacts(w)
    BY <2>1, FactsMap
  <2>2. CASE ~ApplyFacts(w)
    BY <1>3, <2>2, Unseen
       DEF IInv, ApplyKnows, ApplySteps, LoopSteps, Apply, ApplyRead, ApplyLock,
           TakeLock, LockBusy, ApplyStart, ApplyItem, ApplyItemDone, ApplyError,
           ApplyItemFailed, ApplyFailed, ApplyInterrupted, ApplyDone, Finish,
           Heartbeat, Exit
  <2> QED BY <2>1, <2>2
<1>4. ASSUME NEW w \in Workers, Resume(w) PROVE AbstractStep
  BY <1>4, Unseen DEF IInv, ApplyKnows, Resume, ResumeRead, ResumeLock, TakeLock,
     ResumeEnd
<1>5. ASSUME NEW w \in Workers, Rollback(w) PROVE AbstractStep
  BY <1>5, RollbackMaps, Unseen DEF Rollback, RollbackRead
<1>6. ASSUME NEW w \in Workers, Crash(w) PROVE AbstractStep
  BY <1>6, Unseen DEF Crash
<1>7. ASSUME NEW s \in Stocks, SyncSnapshot(s) \/ SyncFacts(s) PROVE AbstractStep
  BY <1>7, Unseen DEF SyncSnapshot, SyncFacts
<1>8. CASE SessionEnds \/ LeaseExpires \/ UNCHANGED vars
  BY <1>8, Unseen DEF SessionEnds, LeaseExpires, vars
<1> QED BY <1>1, <1>2, <1>3, <1>4, <1>5, <1>6, <1>7, <1>8 DEF Next

\* A batch handled by the book publishes facts of reviewed manifests only, and
\* once it is rejected everything it inserted is excluded and stays the last.
THEOREM BatchReleasesReviewed == ByTheBook => (Spec => ReleasesReviewed)
<1> SUFFICES ASSUME ByTheBook PROVE Spec => ReleasesReviewed
  OBVIOUS
<1>1. Init => Abstract!Init
  BY DEF Init, Abstract!Init
<1>2. IInv /\ [Next]_vars => AbstractStep
  BY NextMaps
<1> QED BY <1>1, <1>2, BatchInvariant, PTL
        DEF Spec, ReleasesReviewed, Abstract!Spec, AbstractStep
=============================================================================
