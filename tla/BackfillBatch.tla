--------------------------- MODULE BackfillBatch ---------------------------
(***************************************************************************)
(* One batch of the historical US facts backfill (scripts/backfill_us_     *)
(* financial_versions.py and core/us_financial_worker.py): its row, its    *)
(* items, the manifest file beside it, and the facts it inserts.  A worker *)
(* is a process that runs one command of the CLI; every command reads the  *)
(* row once, then acts on what it read.  Any process may be killed.        *)
(*                                                                         *)
(* A company-facts document is cumulative: snapshot n of a stock holds the *)
(* facts <<stock, 1>> .. <<stock, n>>.  A manifest names one snapshot for  *)
(* each stock; snapshots are immutable, so equal hashes are equal          *)
(* manifests.                                                              *)
(***************************************************************************)
EXTENDS Naturals

CONSTANTS
  Workers, Stocks,
  NoWorker,
  Ghost,        \* the database session of a killed worker, not yet ended
  NoManifest,
  NoItem,
  MaxSnap,      \* bound: snapshots of one stock
  Updated,      \* bound: the stocks the daily sync works on meanwhile
  MaxResumes,   \* bound: no resume begins after so many takeovers
  OneAtATime,   \* whether the commands that take no lock are run alone
  BareRollback  \* whether a rollback without --create-exclusion is tried

ASSUME BatchAssumption ==
  /\ NoWorker \notin Workers
  /\ Ghost \notin Workers \cup {NoWorker}
  /\ MaxSnap \in Nat \ {0}
  /\ Updated \subseteq Stocks
  /\ MaxResumes \in Nat
  /\ OneAtATime \in BOOLEAN
  /\ BareRollback \in BOOLEAN
  /\ NoManifest \notin [Stocks -> 1..MaxSnap]
  /\ NoItem \notin Stocks \X (1..MaxSnap)

VARIABLES
  status,      \* batch.status; "absent" before the first stage
  manifest,    \* batch.manifest with its manifest_hash
  approved,    \* batch.approved_manifest_hash
  clean,       \* batch.failed_count = 0
  leased,      \* lease_expires_at > now
  resumes,     \* batch.resume_count
  item,        \* the status of each item of the batch
  file,        \* build/<batch>/manifest.json
  fresh,       \* the newest snapshot of each stock
  facts,       \* us_financial_fact_version
  owned,       \* the facts whose fact_source names an item of this batch
  excluded,    \* active exclusions
  lock,        \* the holder of the advisory lock of the batch
  pc, held, todo, at, bad,   \* of each worker: step, manifest, sources left,
                             \* item in work, whether a source failed
  checked,     \* history: the manifests verify has passed
  reviewed,    \* history: those of them that were approved
  synced       \* history: the facts the daily sync was the first to store

row == <<status, manifest, approved, clean, leased, resumes>>
store == <<facts, owned>>
locals == <<held, todo, at, bad>>
history == <<checked, reviewed, synced>>
vars == <<status, manifest, approved, clean, leased, resumes, item, file,
          fresh, facts, owned, excluded, lock, pc, held, todo, at, bad,
          checked, reviewed, synced>>

Manifests == [Stocks -> 1..MaxSnap]
Items == Stocks \X (1..MaxSnap)
Facts == Stocks \X (1..MaxSnap)

Content(s, n) == {s} \X (1..n)
FactsOf(m) == UNION {Content(s, m[s]) : s \in Stocks}

Stageable == {"absent", "staged", "interrupted"}
Resumable == {"interrupted", "failed"}
Written == {"applied", "post_verified"}
Statuses == Stageable \cup Resumable \cup Written
              \cup {"verified", "approved", "applying", "rejected"}
ItemStatuses == {"absent", "applying", "staged", "failed", "applied"}

HandSteps == {"stage", "stageItem", "stageSave", "stageEnd", "verify",
              "approve", "postVerify", "exclude", "reject"}
LoopSteps == {"items", "item", "written", "failItem", "failBatch"}
LockSteps == LoopSteps \cup {"apply", "resume", "exit"}
Steps == HandSteps \cup LockSteps \cup {"idle", "applyLock", "resumeLock"}

Init ==
  /\ status = "absent"
  /\ manifest = NoManifest
  /\ approved = NoManifest
  /\ clean = TRUE
  /\ leased = FALSE
  /\ resumes = 0
  /\ item = [i \in Items |-> "absent"]
  /\ file = NoManifest
  /\ fresh = [s \in Stocks |-> 1]
  /\ facts = {}
  /\ owned = {}
  /\ excluded = {}
  /\ lock = NoWorker
  /\ pc = [w \in Workers |-> "idle"]
  /\ held = [w \in Workers |-> NoManifest]
  /\ todo = [w \in Workers |-> {}]
  /\ at = [w \in Workers |-> NoItem]
  /\ bad = [w \in Workers |-> FALSE]
  /\ checked = {}
  /\ reviewed = {}
  /\ synced = {}

-----------------------------------------------------------------------------
Goto(w, step) == pc' = [pc EXCEPT ![w] = step]

\* The process ends: its local variables are gone.
End(w) ==
  /\ Goto(w, "idle")
  /\ held' = [held EXCEPT ![w] = NoManifest]
  /\ todo' = [todo EXCEPT ![w] = {}]
  /\ at' = [at EXCEPT ![w] = NoItem]
  /\ bad' = [bad EXCEPT ![w] = FALSE]

\* The commands that take no advisory lock ...
Hand(w) == pc[w] = "idle" /\ (OneAtATime => \A v \in Workers : pc[v] = "idle")

\* ... and the two that do.
Locked(w) ==
  pc[w] = "idle" /\ (OneAtATime => \A v \in Workers : pc[v] \notin HandSteps)

-----------------------------------------------------------------------------
(* stage *)

\* The status check, _create_batch, and _discover_sources.
StageRead(w) ==
  /\ Hand(w)
  /\ status \in Stageable
  /\ status' = IF status = "absent" THEN "staged" ELSE status
  /\ held' = [held EXCEPT ![w] = fresh]
  /\ todo' = [todo EXCEPT ![w] = Stocks]
  /\ Goto(w, "stage")
  /\ UNCHANGED <<manifest, approved, clean, leased, resumes, item, file,
                 fresh, store, excluded, lock, at, bad, history>>

\* stage --dry-run: only the file is written.
StageDry(w) ==
  /\ Hand(w)
  /\ status \in Stageable
  /\ file' = fresh
  /\ UNCHANGED <<row, item, fresh, store, excluded, lock, pc, locals, history>>

\* _get_or_create_item and its status "applying".
StageItem(w) ==
  /\ pc[w] = "stage"
  /\ \E s \in todo[w] :
       /\ at' = [at EXCEPT ![w] = <<s, held[w][s]>>]
       /\ todo' = [todo EXCEPT ![w] = @ \ {s}]
       /\ item' = [item EXCEPT ![<<s, held[w][s]>>] = "applying"]
  /\ Goto(w, "stageItem")
  /\ UNCHANGED <<row, file, fresh, store, excluded, lock, held, bad, history>>

StageItemDone(w) ==
  /\ pc[w] = "stageItem"
  /\ \E failed \in BOOLEAN :
       /\ item' = [item EXCEPT ![at[w]] = IF failed THEN "failed" ELSE "staged"]
       /\ bad' = [bad EXCEPT ![w] = @ \/ failed]
  /\ at' = [at EXCEPT ![w] = NoItem]
  /\ Goto(w, IF todo[w] = {} THEN "stageSave" ELSE "stage")
  /\ UNCHANGED <<row, file, fresh, store, excluded, lock, held, todo, history>>

\* _save_manifest
StageSave(w) ==
  /\ pc[w] = "stageSave"
  /\ file' = held[w]
  /\ Goto(w, "stageEnd")
  /\ UNCHANGED <<row, item, fresh, store, excluded, lock, locals, history>>

StageEnd(w) ==
  /\ pc[w] = "stageEnd"
  /\ status' = "staged"
  /\ manifest' = held[w]
  /\ clean' = ~bad[w]
  /\ End(w)
  /\ UNCHANGED <<approved, leased, resumes, item, file, fresh, store, excluded,
                 lock, history>>

-----------------------------------------------------------------------------
(* verify, approve, post-verify *)

\* The parts of verify_batch that look at this batch.
Passes == clean /\ \A i \in Items : item[i] # "applying"

VerifyRead(w) ==
  /\ Hand(w)
  /\ status = "staged"
  /\ Passes
  /\ held' = [held EXCEPT ![w] = manifest]
  /\ Goto(w, "verify")
  /\ UNCHANGED <<row, item, file, fresh, store, excluded, lock, todo, at, bad,
                 history>>

VerifyEnd(w) ==
  /\ pc[w] = "verify"
  /\ status' = "verified"
  /\ checked' = checked \cup ({held[w]} \ {NoManifest})
  /\ End(w)
  /\ UNCHANGED <<manifest, approved, clean, leased, resumes, item, file, fresh,
                 store, excluded, lock, reviewed, synced>>

ApproveRead(w) ==
  /\ Hand(w)
  /\ status = "verified"
  /\ file # NoManifest
  /\ manifest = file
  /\ held' = [held EXCEPT ![w] = file]
  /\ Goto(w, "approve")
  /\ UNCHANGED <<row, item, file, fresh, store, excluded, lock, todo, at, bad,
                 history>>

ApproveEnd(w) ==
  /\ pc[w] = "approve"
  /\ status' = "approved"
  /\ approved' = held[w]
  /\ reviewed' = reviewed \cup ({held[w]} \cap checked)
  /\ End(w)
  /\ UNCHANGED <<manifest, clean, leased, resumes, item, file, fresh, store,
                 excluded, lock, checked, synced>>

PostVerifyRead(w) ==
  /\ Hand(w)
  /\ status = "applied"
  /\ Passes
  /\ Goto(w, "postVerify")
  /\ UNCHANGED <<row, item, file, fresh, store, excluded, lock, locals, history>>

PostVerifyEnd(w) ==
  /\ pc[w] = "postVerify"
  /\ status' = "post_verified"
  /\ End(w)
  /\ UNCHANGED <<manifest, approved, clean, leased, resumes, item, file, fresh,
                 store, excluded, lock, history>>

-----------------------------------------------------------------------------
(* apply *)

\* Mutant: apply --require-status ''.
ApplyReadAnyStatus(w) ==
  /\ Locked(w)
  /\ file # NoManifest
  /\ manifest = file
  /\ approved = file
  /\ held' = [held EXCEPT ![w] = file]
  /\ todo' = [todo EXCEPT ![w] = Stocks]
  /\ Goto(w, "applyLock")
  /\ UNCHANGED <<row, item, file, fresh, store, excluded, lock, at, bad, history>>

\* The status check (--require-status, approved by default) and
\* _validate_manifest_for_apply, on the row as read.
ApplyRead(w) ==
  /\ Locked(w)
  /\ status = "approved"
  /\ file # NoManifest
  /\ manifest = file
  /\ approved = file
  /\ held' = [held EXCEPT ![w] = file]
  /\ todo' = [todo EXCEPT ![w] = Stocks]
  /\ Goto(w, "applyLock")
  /\ UNCHANGED <<row, item, file, fresh, store, excluded, lock, at, bad, history>>

\* Mutant: the worker goes on when another one has the lock.
TakeLockAnyway(w, step) ==
  /\ lock' = w
  /\ leased' = TRUE
  /\ Goto(w, step)
  /\ UNCHANGED <<status, manifest, approved, clean, resumes, item, file, fresh,
                 store, excluded, locals, history>>

\* BatchWorker.__enter__: pg_try_advisory_lock, then the lease.
TakeLock(w, step) ==
  /\ lock = NoWorker
  /\ lock' = w
  /\ leased' = TRUE
  /\ Goto(w, step)
  /\ UNCHANGED <<status, manifest, approved, clean, resumes, item, file, fresh,
                 store, excluded, locals, history>>

ApplyLock(w) == pc[w] = "applyLock" /\ TakeLock(w, "apply")

\* LeaseError: the command fails at once.
LockBusy(w) ==
  /\ pc[w] \in {"applyLock", "resumeLock"}
  /\ lock # NoWorker
  /\ End(w)
  /\ UNCHANGED <<row, item, file, fresh, store, excluded, lock, history>>

ApplyStart(w) ==
  /\ pc[w] = "apply"
  /\ status' = "applying"
  /\ Goto(w, "items")
  /\ UNCHANGED <<manifest, approved, clean, leased, resumes, item, file, fresh,
                 store, excluded, lock, locals, history>>

\* The next source; its item is looked up by stock code alone.
ApplyItem(w) ==
  /\ pc[w] = "items"
  /\ \E s \in todo[w], n \in 1..MaxSnap :
       /\ item[<<s, n>>] # "absent"
       /\ item' = [item EXCEPT ![<<s, n>>] = "applying"]
       /\ at' = [at EXCEPT ![w] = <<s, n>>]
       /\ todo' = [todo EXCEPT ![w] = @ \ {s}]
  /\ Goto(w, "item")
  /\ UNCHANGED <<row, file, fresh, store, excluded, lock, held, bad, history>>

\* Mutant: a fact that is there already gets a fact_source row of the item.
SeenFacts(m, s) == Content(s, m[s])

\* write_facts: facts that are there already are only counted.
NewFacts(m, s) == Content(s, m[s]) \ facts

\* The three statements in one transaction, with their fact_source rows.
ApplyFacts(w) ==
  LET new == NewFacts(held[w], at[w][1]) IN
  /\ pc[w] = "item"
  /\ facts' = facts \cup new
  /\ owned' = owned \cup new
  /\ Goto(w, "written")
  /\ UNCHANGED <<row, item, file, fresh, excluded, lock, locals, history>>

ApplyItemDone(w) ==
  /\ pc[w] = "written"
  /\ item' = [item EXCEPT ![at[w]] = "applied"]
  /\ at' = [at EXCEPT ![w] = NoItem]
  /\ Goto(w, "items")
  /\ UNCHANGED <<row, file, fresh, store, excluded, lock, held, todo, bad, history>>

\* An exception before or after the commit of the facts.
ApplyError(w) ==
  /\ pc[w] \in {"item", "written"}
  /\ Goto(w, "failItem")
  /\ UNCHANGED <<row, item, file, fresh, store, excluded, lock, locals, history>>

ApplyItemFailed(w) ==
  /\ pc[w] = "failItem"
  /\ item' = [item EXCEPT ![at[w]] = "failed"]
  /\ Goto(w, "failBatch")
  /\ UNCHANGED <<row, file, fresh, store, excluded, lock, locals, history>>

Finish(w, final) ==
  /\ status' = final
  /\ Goto(w, "exit")
  /\ UNCHANGED <<manifest, approved, clean, leased, resumes, item, file, fresh,
                 store, excluded, lock, locals, history>>

ApplyFailed(w) == pc[w] = "failBatch" /\ Finish(w, "failed")

\* should_stop(): SIGINT or SIGTERM is noticed before the next source.
ApplyInterrupted(w) ==
  pc[w] = "items" /\ todo[w] # {} /\ Finish(w, "interrupted")

\* Mutant: a signal ends the loop and the end is taken for success.
ApplyDoneEarly(w) == pc[w] = "items" /\ Finish(w, "applied")

ApplyDone(w) == pc[w] = "items" /\ todo[w] = {} /\ Finish(w, "applied")

\* The heartbeat thread, for as long as the with block lasts.
Heartbeat(w) ==
  /\ pc[w] \in LockSteps
  /\ leased' = TRUE
  /\ UNCHANGED <<status, manifest, approved, clean, resumes, item, file, fresh,
                 store, excluded, lock, pc, locals, history>>

\* BatchWorker.__exit__
Exit(w) ==
  /\ pc[w] = "exit"
  /\ lock' = NoWorker
  /\ End(w)
  /\ UNCHANGED <<row, item, file, fresh, store, excluded, history>>

-----------------------------------------------------------------------------
(* resume *)

ResumeRead(w) ==
  /\ Locked(w)
  /\ status \in Resumable
  /\ manifest # NoManifest
  /\ ~leased
  /\ resumes < MaxResumes
  /\ Goto(w, "resumeLock")
  /\ UNCHANGED <<row, item, file, fresh, store, excluded, lock, locals, history>>

\* check_old_worker_gone and the lock of the takeover itself.
ResumeLock(w) == pc[w] = "resumeLock" /\ TakeLock(w, "resume")

\* Mutant: the status the runbook gives a batch that waits to be resumed.
ResumePending(w) ==
  /\ pc[w] = "resume"
  /\ status' = "resume_pending"
  /\ resumes' = resumes + 1
  /\ Goto(w, "exit")
  /\ UNCHANGED <<manifest, approved, clean, leased, item, file, fresh, store,
                 excluded, lock, locals, history>>

ResumeEnd(w) ==
  /\ pc[w] = "resume"
  /\ status' = "staged"
  /\ resumes' = resumes + 1
  /\ Goto(w, "exit")
  /\ UNCHANGED <<manifest, approved, clean, leased, item, file, fresh, store,
                 excluded, lock, locals, history>>

-----------------------------------------------------------------------------
(* rollback *)

RollbackRead(w) ==
  /\ Hand(w)
  /\ status # "absent"
  /\ \E create \in BOOLEAN :
       /\ status \in Written => create
       /\ ~BareRollback => create
       /\ Goto(w, IF create THEN "exclude" ELSE "reject")
  /\ UNCHANGED <<row, item, file, fresh, store, excluded, lock, locals, history>>

\* _rollback_create_exclusions: what the batch was the first to insert.
RollbackExclude(w) ==
  /\ pc[w] = "exclude"
  /\ excluded' = excluded \cup owned
  /\ Goto(w, "reject")
  /\ UNCHANGED <<row, item, file, fresh, store, lock, locals, history>>

RollbackEnd(w) ==
  /\ pc[w] = "reject"
  /\ status' = "rejected"
  /\ End(w)
  /\ UNCHANGED <<manifest, approved, clean, leased, resumes, item, file, fresh,
                 store, excluded, lock, history>>

-----------------------------------------------------------------------------
(* The environment *)

\* A process is killed, or ends with an exception of the database: its
\* session keeps the lock until the server notices.
Crash(w) ==
  /\ pc[w] # "idle"
  /\ lock' = IF lock = w THEN Ghost ELSE lock
  /\ End(w)
  /\ UNCHANGED <<row, item, file, fresh, store, excluded, history>>

SessionEnds ==
  /\ lock = Ghost
  /\ lock' = NoWorker
  /\ UNCHANGED <<row, item, file, fresh, store, excluded, pc, locals, history>>

LeaseExpires ==
  /\ leased
  /\ leased' = FALSE
  /\ UNCHANGED <<status, manifest, approved, clean, resumes, item, file, fresh,
                 store, excluded, lock, pc, locals, history>>

\* The daily sync saves a newer document (fetch_company_facts_with_context)
\* and writes its facts, statement by statement (_write_version_layer).
SyncSnapshot(s) ==
  /\ s \in Updated
  /\ fresh[s] < MaxSnap
  /\ fresh' = [fresh EXCEPT ![s] = @ + 1]
  /\ UNCHANGED <<row, item, file, store, excluded, lock, pc, locals, history>>

SyncFacts(s) ==
  /\ s \in Updated
  /\ \E part \in SUBSET Content(s, fresh[s]) :
       /\ facts' = facts \cup part
       /\ synced' = synced \cup (part \ facts)
  /\ UNCHANGED <<row, item, file, fresh, owned, excluded, lock, pc, locals,
                 checked, reviewed>>

Stage(w) ==
  \/ StageRead(w) \/ StageDry(w) \/ StageItem(w) \/ StageItemDone(w)
  \/ StageSave(w) \/ StageEnd(w)
Review(w) ==
  \/ VerifyRead(w) \/ VerifyEnd(w) \/ ApproveRead(w) \/ ApproveEnd(w)
  \/ PostVerifyRead(w) \/ PostVerifyEnd(w)
Apply(w) ==
  \/ ApplyRead(w) \/ ApplyLock(w) \/ LockBusy(w) \/ ApplyStart(w)
  \/ ApplyItem(w) \/ ApplyFacts(w) \/ ApplyItemDone(w) \/ ApplyError(w)
  \/ ApplyItemFailed(w) \/ ApplyFailed(w) \/ ApplyInterrupted(w)
  \/ ApplyDone(w) \/ Heartbeat(w) \/ Exit(w)
Resume(w) == ResumeRead(w) \/ ResumeLock(w) \/ ResumeEnd(w)
Rollback(w) == RollbackRead(w) \/ RollbackExclude(w) \/ RollbackEnd(w)

Next ==
  \/ \E w \in Workers :
       Stage(w) \/ Review(w) \/ Apply(w) \/ Resume(w) \/ Rollback(w) \/ Crash(w)
  \/ \E s \in Stocks : SyncSnapshot(s) \/ SyncFacts(s)
  \/ SessionEnds \/ LeaseExpires

Spec == Init /\ [][Next]_vars

-----------------------------------------------------------------------------
(* Properties *)

TypeOK ==
  /\ status \in Statuses
  /\ manifest \in Manifests \cup {NoManifest}
  /\ approved \in Manifests \cup {NoManifest}
  /\ clean \in BOOLEAN
  /\ leased \in BOOLEAN
  /\ resumes \in Nat
  /\ item \in [Items -> ItemStatuses]
  /\ file \in Manifests \cup {NoManifest}
  /\ fresh \in Manifests
  /\ facts \subseteq Facts
  /\ owned \subseteq facts
  /\ excluded \subseteq Facts
  /\ lock \in Workers \cup {NoWorker, Ghost}
  /\ pc \in [Workers -> Steps]
  /\ held \in [Workers -> Manifests \cup {NoManifest}]
  /\ todo \in [Workers -> SUBSET Stocks]
  /\ at \in [Workers -> Items \cup {NoItem}]
  /\ bad \in [Workers -> BOOLEAN]
  /\ checked \subseteq Manifests
  /\ reviewed \subseteq checked
  /\ synced \subseteq facts

\* The worker that writes facts has the lock, its batch says applying, and
\* the row still holds the manifest that was approved and that it writes:
\* no resume, second apply or re-stage got in between.
WriterOwnsBatch ==
  \A w \in Workers : pc[w] \in LoopSteps =>
    /\ lock = w
    /\ status = "applying"
    /\ manifest = held[w]
    /\ approved = held[w]

\* A batch that says applied has put every fact of its recorded manifest in
\* the fact table, whatever was interrupted, resumed or staged anew before.
AppliedIsWhole ==
  status \in Written => manifest # NoManifest /\ FactsOf(manifest) \subseteq facts

\* A rollback, finished or cut off, leaves every fact selected that the daily
\* sync was the first to store, and a rejected batch leaves nothing else
\* selected: in whichever round, after whichever crash, a fact was inserted
\* (_rollback_create_exclusions by the observation kinds of write_facts;
\* test_cli_rollback_does_not_exclude_fact_only_repeated_by_batch).
RollbackIsExact ==
  /\ excluded \cap synced = {}
  /\ status = "rejected" => facts \ excluded = synced

Abstract == INSTANCE ReviewedRelease
              WITH published <- owned, withdrawn <- excluded,
                   rejected <- status = "rejected"

\* The batch publishes reviewed manifests only, and a rejected batch stays
\* rejected with everything it inserted excluded.
ReleasesReviewed == Abstract!Spec
=============================================================================
