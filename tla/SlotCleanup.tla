---------------------------- MODULE SlotCleanup ----------------------------
(***************************************************************************)
(* The finalizer of a live Migration and the cleanup it stands for         *)
(* (internal/controller/follow.go: ensureFinalizer, reconcileDeletion,     *)
(* ensureCleanup): whatever deletes the Migration, the replication slot a  *)
(* worker opened on the source is dropped before the object goes.          *)
(*                                                                         *)
(* The worker's life is as coarse as deletion can tell: an attempt is      *)
(* created, recorded, stopped by a suspend, retried when its Job failed,   *)
(* cleaned up after when it exited 0.  The gate and the finish path are    *)
(* MigrationAttempts and FollowCutover.  A Job deleted in the foreground   *)
(* ends its pod before it goes; a pod told to stop opens no slot.          *)
(***************************************************************************)
EXTENDS Integers

CONSTANTS
  MaxAttempts,       \* attempts the budget allows
  CrashAfterCreate,  \* may a pass end between the worker's Create and its record?
  MaxEdits,          \* bound: changes of spec.suspend
  MaxAborts,         \* bound: passes that end between two API calls
  MaxCollected       \* bound: finished Jobs the TTL collects

ASSUME AttemptsAssumption == MaxAttempts \in Nat \ {0}
ASSUME BoundsAssumption ==
  /\ CrashAfterCreate \in BOOLEAN
  /\ MaxEdits \in Nat /\ MaxAborts \in Nat /\ MaxCollected \in Nat

VARIABLES
  mig,         \* the Migration on the API server
  present,     \* it is there at all
  cache,       \* the informer's copy: edits may be missing from it
  pass,        \* the pass under way
  jobs,        \* the worker Jobs
  cleanup,     \* the cleanup Job
  reached,     \* a worker has exited 0: endpos is reached
  slot,        \* a replication slot is on the source
  warned,      \* a CleanupFailed event named the slot
  terminating, \* the namespace is being deleted
  edits, aborts, collected

clusterVars == <<jobs, cleanup, reached, slot, warned, terminating>>
bounds == <<edits, aborts, collected>>
vars == <<mig, present, cache, pass, clusterVars, bounds>>

-----------------------------------------------------------------------------
Attempts == 1..MaxAttempts
JobStates == {"none", "running", "dying", "ok", "failed"}
Migrations == [attempts: 0..MaxAttempts, job: 0..MaxAttempts, suspend: BOOLEAN, ended: BOOLEAN,
               deleting: BOOLEAN, finalizer: BOOLEAN]
NewMigration == [attempts |-> 0, job |-> 0, suspend |-> FALSE, ended |-> FALSE,
                 deleting |-> FALSE, finalizer |-> FALSE]

\* A pass: its next API call, the copy it read, and whether that copy is still the
\* newest version, which is what an optimistic lock asks.
Idle == [step |-> "idle", m |-> NewMigration, current |-> TRUE]
Passes == [step: {"idle", "finalizer", "create", "record", "status", "release"},
           m: Migrations, current: BOOLEAN]

Continue(step, m) == pass' = [step |-> step, m |-> m, current |-> cache = mig]
Return == pass' = Idle

Live(n) == jobs[n] \in {"running", "dying"}
Finished(job) == job \in {"ok", "failed"}
Worker(m) == IF m.job = 0 THEN "none" ELSE jobs[m.job]   \* the Job status names

\* Delete in the foreground: a running pod is told to stop, a finished one is gone.
Deleted(job) == IF job = "running" THEN "dying" ELSE "none"
DeleteJob(n) == jobs' = [jobs EXCEPT ![n] = Deleted(@)]

-----------------------------------------------------------------------------
(* A pass on a Migration nobody deleted. *)

\* reconcileSuspended: before the finalizer is looked at.
SuspendPass ==
  /\ IF Worker(cache) \notin {"none", "dying"} THEN DeleteJob(cache.job) ELSE UNCHANGED jobs
  /\ Continue("status", [cache EXCEPT !.job = 0])
  /\ UNCHANGED <<cleanup, warned>>

\* Faulty variant: no attempt is refused.
OverBudget(m) ==
  IF cache = mig THEN Continue("create", [m EXCEPT !.attempts = @ + 1, !.job = m.attempts + 1])
                 ELSE Return

\* startAttempt: past the first, only with a current copy (settleBudget's lock).
StartAttempt(m) ==
  LET attempt == m.attempts + 1
      started == [m EXCEPT !.attempts = attempt, !.job = attempt]
  IN \/ attempt > MaxAttempts /\ Continue("status", [m EXCEPT !.ended = TRUE])
     \/ attempt \in 2..MaxAttempts /\ jobs[attempt] # "none" /\ Continue("record", started)
     \/ attempt = 1 /\ Continue("create", started)
     \/ /\ attempt \in 2..MaxAttempts /\ jobs[attempt] = "none"
        /\ IF cache = mig THEN Continue("create", started) ELSE Return

\* ensureCleanup: observe the cleanup Job or create it.  It is done once the Job
\* finished, and it gives up, saying so, on one that failed and where a namespace that
\* is going forbids it.
CleanupForbidden == cleanup = "none" /\ terminating
\* Faulty variant: a failed cleanup is waited for.
CleanupMustSucceed == cleanup = "ok"
CleanupDone == Finished(cleanup) \/ CleanupForbidden
EnsureCleanup ==
  /\ cleanup' = IF cleanup = "none" /\ ~terminating THEN "running" ELSE cleanup
  /\ warned' = (warned \/ cleanup = "failed" \/ CleanupForbidden)

\* finishFollow, of which cleanup and Complete are kept.
FinishFollow ==
  /\ EnsureCleanup
  /\ IF CleanupDone THEN Continue("status", [cache EXCEPT !.ended = TRUE]) ELSE Return
  /\ UNCHANGED jobs

\* Faulty variant: the worker comes before the finalizer.
WorkerFirst ==
  /\ ~cache.suspend /\ Worker(cache) = "none"
  /\ StartAttempt(cache)
  /\ UNCHANGED <<jobs, cleanup, warned>>

\* reconcile: the finalizer is patched in before anything can create a worker; while
\* the preflight runs, a pass goes no further.
EnsureFinalizer ==
  /\ ~cache.suspend /\ ~cache.finalizer
  /\ Continue("finalizer", [cache EXCEPT !.finalizer = TRUE])
  /\ UNCHANGED <<jobs, cleanup, warned>>
WorkPass ==
  /\ ~cache.suspend /\ cache.finalizer
  /\ \/ Worker(cache) = "none" /\ StartAttempt(cache) /\ UNCHANGED <<jobs, cleanup, warned>>
     \/ /\ Worker(cache) = "failed"
        /\ Continue("status", [cache EXCEPT !.job = 0])
        /\ UNCHANGED <<jobs, cleanup, warned>>
     \/ Worker(cache) = "ok" /\ FinishFollow

-----------------------------------------------------------------------------
(* reconcileDeletion. *)

\* The worker Job that status names is stopped first, once.
StopWorker ==
  /\ cache.attempts > 0 /\ Worker(cache) \notin {"none", "dying"}
  /\ DeleteJob(cache.job)
  /\ Return
  /\ UNCHANGED <<cleanup, warned>>

\* "Nothing ever ran: no slot exists, nothing to clean."
SkipsCleanup == Continue("release", cache) /\ UNCHANGED <<jobs, cleanup, warned>>
NothingRan == cache.attempts = 0 /\ SkipsCleanup
CleanUp ==
  /\ cache.attempts > 0
  /\ Worker(cache) \in {"none", "dying"}
  /\ EnsureCleanup
  /\ IF CleanupDone THEN Continue("release", cache) ELSE Return
  /\ UNCHANGED jobs

DeletionPass == cache.finalizer /\ (StopWorker \/ NothingRan \/ CleanUp)

Reconcile ==
  /\ pass.step = "idle" /\ present
  /\ \/ cache.deleting /\ DeletionPass
     \/ /\ ~cache.deleting /\ ~cache.ended
        /\ (cache.suspend /\ SuspendPass) \/ EnsureFinalizer \/ WorkPass
  /\ UNCHANGED <<mig, present, cache, reached, slot, terminating, bounds>>

\* The operator's own writes are in the cache before the next pass reads it.
Wrote(m) == mig' = m /\ cache' = m

\* A metadata patch with an optimistic lock: a conflict ends the pass.  A deleted
\* object takes no new finalizer.
PatchFinalizer ==
  /\ pass.step = "finalizer"
  /\ IF present /\ pass.current /\ ~mig.deleting
       THEN /\ Wrote([mig EXCEPT !.finalizer = TRUE])
            /\ \/ Return
               \/ /\ mig.attempts = 0
                  /\ pass' = [pass EXCEPT !.step = "create", !.m.attempts = 1, !.m.job = 1]
       ELSE Return /\ UNCHANGED <<mig, cache>>
  /\ UNCHANGED <<present, clusterVars, bounds>>

\* Create of the worker Job, which a namespace that is going refuses.
CreateWorker ==
  /\ pass.step = "create"
  /\ IF terminating
       THEN Return /\ UNCHANGED jobs
       ELSE /\ jobs' = [jobs EXCEPT ![pass.m.attempts] = IF @ = "none" THEN "running" ELSE @]
            /\ pass' = [pass EXCEPT !.step = "record"]
  /\ UNCHANGED <<mig, present, cache, cleanup, reached, slot, warned, terminating, bounds>>

\* recordAttempt and updateStatus: the status alone, without a lock.
UpdateStatus ==
  /\ pass.step \in {"record", "status"}
  /\ IF present
       THEN Wrote([mig EXCEPT !.attempts = pass.m.attempts, !.job = pass.m.job,
                              !.ended = pass.m.ended])
       ELSE UNCHANGED <<mig, cache>>
  /\ Return
  /\ UNCHANGED <<present, clusterVars, bounds>>

\* The finalizer goes, under its lock, and the deleted object with it.
Release ==
  /\ pass.step = "release"
  /\ IF pass.current
       THEN present' = FALSE /\ Wrote([mig EXCEPT !.finalizer = FALSE])
       ELSE UNCHANGED <<mig, present, cache>>
  /\ Return
  /\ UNCHANGED <<clusterVars, bounds>>

Abort ==
  /\ pass.step # "idle" /\ aborts < MaxAborts
  /\ pass.step = "record" => CrashAfterCreate
  /\ aborts' = aborts + 1
  /\ Return
  /\ UNCHANGED <<mig, present, cache, clusterVars, edits, collected>>

-----------------------------------------------------------------------------
(* Everyone else. *)

CacheSync ==
  /\ present /\ cache # mig
  /\ cache' = mig
  /\ UNCHANGED <<mig, present, pass, clusterVars, bounds>>

\* Somebody's write to the object: a pass under way no longer holds the newest one.
Changed(m) ==
  /\ mig' = m
  /\ pass' = IF pass.step = "idle" THEN pass ELSE [pass EXCEPT !.current = FALSE]

EditSuspend ==
  /\ present /\ edits < MaxEdits
  /\ edits' = edits + 1
  /\ Changed([mig EXCEPT !.suspend = ~@])
  /\ UNCHANGED <<present, cache, clusterVars, aborts, collected>>

\* Deletion of the Migration: without the finalizer it is gone at once.
Delete ==
  /\ present /\ ~mig.deleting
  /\ Changed([mig EXCEPT !.deleting = TRUE])
  /\ present' = mig.finalizer
  /\ UNCHANGED <<cache, clusterVars, bounds>>

\* Deletion of the namespace: of the Migration and of every Job in it.
DeleteNamespace ==
  /\ present /\ ~terminating
  /\ terminating' = TRUE
  /\ Changed([mig EXCEPT !.deleting = TRUE])
  /\ present' = mig.finalizer
  /\ jobs' = [n \in Attempts |-> Deleted(jobs[n])]
  /\ cleanup' = "none"
  /\ UNCHANGED <<cache, reached, slot, warned, bounds>>

\* A running worker opens the slot; one that starts past endpos exits 0 without.
OpenSlot ==
  /\ ~reached /\ \E n \in Attempts : jobs[n] = "running"
  /\ slot' = TRUE
  /\ UNCHANGED <<mig, present, cache, pass, jobs, cleanup, reached, warned, terminating, bounds>>

WorkerEnds ==
  /\ \E n \in Attempts :
       \/ jobs[n] = "running" /\ jobs' = [jobs EXCEPT ![n] = "ok"] /\ reached' = TRUE
       \/ jobs[n] = "running" /\ jobs' = [jobs EXCEPT ![n] = "failed"] /\ UNCHANGED reached
       \/ jobs[n] = "dying" /\ jobs' = [jobs EXCEPT ![n] = "none"] /\ UNCHANGED reached
  /\ UNCHANGED <<mig, present, cache, pass, cleanup, slot, warned, terminating, bounds>>

\* Garbage collection of what a gone Migration owned.
OwnerGone ==
  /\ ~present
  /\ \E n \in Attempts : jobs[n] \notin {"none", "dying"} /\ DeleteJob(n)
  /\ UNCHANGED <<mig, present, cache, pass, cleanup, reached, slot, warned, terminating, bounds>>

\* The cleanup Job drops the slot, or gives up after its retries.
CleanupEnds ==
  /\ cleanup = "running"
  /\ \/ cleanup' = "ok" /\ slot' = FALSE
     \/ cleanup' = "failed" /\ UNCHANGED slot
  /\ UNCHANGED <<mig, present, cache, pass, jobs, reached, warned, terminating, bounds>>

\* ttlSecondsAfterFinished.
JobCollected ==
  /\ present /\ collected < MaxCollected
  /\ collected' = collected + 1
  /\ \/ Finished(cleanup) /\ cleanup' = "none" /\ UNCHANGED jobs
     \/ /\ \E n \in Attempts : Finished(jobs[n]) /\ jobs' = [jobs EXCEPT ![n] = "none"]
        /\ UNCHANGED cleanup
  /\ UNCHANGED <<mig, present, cache, pass, reached, slot, warned, terminating, edits, aborts>>

-----------------------------------------------------------------------------
Init ==
  /\ mig = NewMigration /\ present = TRUE /\ cache = mig /\ pass = Idle
  /\ jobs = [n \in Attempts |-> "none"]
  /\ cleanup = "none" /\ reached = FALSE /\ slot = FALSE /\ warned = FALSE /\ terminating = FALSE
  /\ edits = 0 /\ aborts = 0 /\ collected = 0

PassStep == PatchFinalizer \/ CreateWorker \/ UpdateStatus \/ Release
Users == EditSuspend \/ Delete \/ DeleteNamespace
Cluster == OpenSlot \/ WorkerEnds \/ OwnerGone \/ CleanupEnds \/ JobCollected

Next == Reconcile \/ PassStep \/ Abort \/ CacheSync \/ Users \/ Cluster

Spec == Init /\ [][Next]_vars

\* The work queue, a pass and the informer go on, and the cleanup Job ends; a worker's
\* pod need never end.
FairSpec ==
  Spec /\ WF_vars(Reconcile) /\ WF_vars(PassStep) /\ WF_vars(CacheSync) /\ WF_vars(CleanupEnds)

-----------------------------------------------------------------------------
(* What must hold. *)

\* Every variable keeps its type.
TypeOK ==
  /\ mig \in Migrations /\ present \in BOOLEAN /\ cache \in Migrations /\ pass \in Passes
  /\ jobs \in [Attempts -> JobStates] /\ cleanup \in JobStates \ {"dying"}
  /\ reached \in BOOLEAN /\ slot \in BOOLEAN /\ warned \in BOOLEAN /\ terminating \in BOOLEAN
  /\ edits \in Nat /\ aborts \in Nat /\ collected \in Nat

\* "The finalizer keeps the CR (and thus the owned PVC with the catalogs) alive until
\* the slot is dropped" (follow.go:475), or cleanup gave up and said so (follow.go:320).
SlotReleased == ~present => ~slot \/ warned

\* The finalizer is there "before any worker runs, so a deletion at any later point
\* routes through cleanup" (follow.go:107).
FinalizerFirst ==
  present => mig.finalizer \/ \A n \in Attempts : jobs[n] # "running"

\* Deletion ends, whatever the cleanup Job ends in, and also where the namespace goes
\* (follow.go:317).
DeletionEnds == mig.deleting ~> ~present

=============================================================================
