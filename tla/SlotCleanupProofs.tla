------------------------- MODULE SlotCleanupProofs -------------------------
(***************************************************************************)
(* Type correctness of SlotCleanup, its finalizer theorem for every value  *)
(* of the constants, and the release of the slot whenever the operator     *)
(* does not stop between a worker's Create and its record.                 *)
(***************************************************************************)
EXTENDS SlotCleanup, TLAPS

(* Types. *)

LEMMA NewMigrationType == NewMigration \in Migrations
BY AttemptsAssumption DEF NewMigration, Migrations

LEMMA IdleType == Idle \in Passes /\ Idle.step = "idle"
BY NewMigrationType DEF Idle, Passes

\* What a pass goes on with has the type of a pass, when its copy is a Migration.
LEMMA ContinueType ==
  ASSUME NEW step \in {"finalizer", "create", "record", "status", "release"},
         NEW m \in Migrations, Continue(step, m)
  PROVE  pass' \in Passes /\ pass'.step = step /\ pass'.m = m
BY DEF Continue, Passes

LEMMA ReturnType ==
  ASSUME Return
  PROVE  pass' \in Passes /\ pass'.step = "idle"
BY IdleType DEF Return

\* Deleting a worker Job keeps the type and leaves that Job not running.
LEMMA DeleteJobType ==
  ASSUME TypeOK, NEW n \in Attempts, DeleteJob(n)
  PROVE  /\ jobs' \in [Attempts -> JobStates]
         /\ jobs'[n] \in {"dying", "none"}
         /\ \A k \in Attempts \ {n} : jobs'[k] = jobs[k]
BY DEF TypeOK, DeleteJob, Deleted, JobStates

LEMMA EnsureCleanupType ==
  ASSUME TypeOK, EnsureCleanup
  PROVE  cleanup' \in JobStates \ {"dying"} /\ warned' \in BOOLEAN
BY DEF TypeOK, EnsureCleanup, CleanupForbidden, JobStates

\* startAttempt goes on to create, to record or to fail, on the next attempt.
LEMMA StartAttemptType ==
  ASSUME NEW m \in Migrations, StartAttempt(m)
  PROVE  /\ pass' \in Passes
         /\ pass'.step \in {"idle", "create", "record", "status"}
         /\ pass'.step \in {"create", "record"} =>
              pass'.m.attempts = m.attempts + 1 /\ pass'.m.job = m.attempts + 1
         /\ pass'.step = "status" => pass'.m.attempts = m.attempts /\ pass'.m.job = m.job
<1> DEFINE attempt == m.attempts + 1
           started == [m EXCEPT !.attempts = attempt, !.job = attempt]
<1>1. m.attempts \in Nat /\ MaxAttempts \in Nat /\ MaxAttempts >= 1
  BY AttemptsAssumption DEF Migrations
<1>2. ASSUME attempt \in 1..MaxAttempts
      PROVE  started \in Migrations /\ started.attempts = attempt /\ started.job = attempt
  <2>1. attempt \in 0..MaxAttempts
    BY <1>1, <1>2
  <2> HIDE DEF attempt
  <2> QED BY <2>1 DEF Migrations
<1>3. CASE attempt > MaxAttempts /\ Continue("status", [m EXCEPT !.ended = TRUE])
  <2>1. /\ [m EXCEPT !.ended = TRUE] \in Migrations
        /\ [m EXCEPT !.ended = TRUE].attempts = m.attempts
        /\ [m EXCEPT !.ended = TRUE].job = m.job
    BY DEF Migrations
  <2> QED BY <1>3, <2>1, ContinueType
<1> HIDE DEF started
<1>4. CASE attempt \in 2..MaxAttempts /\ jobs[attempt] # "none" /\ Continue("record", started)
  <2>1. started \in Migrations /\ started.attempts = attempt /\ started.job = attempt
    BY <1>1, <1>2, <1>4
  <2> QED BY <1>4, <2>1, ContinueType
<1>5. CASE attempt = 1 /\ Continue("create", started)
  <2>1. started \in Migrations /\ started.attempts = attempt /\ started.job = attempt
    BY <1>1, <1>2, <1>5
  <2> QED BY <1>5, <2>1, ContinueType
<1>6. CASE /\ attempt \in 2..MaxAttempts /\ jobs[attempt] = "none"
           /\ IF cache = mig THEN Continue("create", started) ELSE Return
  <2>1. started \in Migrations /\ started.attempts = attempt /\ started.job = attempt
    BY <1>1, <1>2, <1>6
  <2>2. Continue("create", started) \/ Return
    BY <1>6
  <2> QED BY <2>1, <2>2, ContinueType, ReturnType
<1> QED BY <1>3, <1>4, <1>5, <1>6 DEF StartAttempt, started

\* A pass on a Migration nobody deleted: its copy, its Jobs and where it goes on.
LEMMA SuspendEffect ==
  ASSUME TypeOK, SuspendPass
  PROVE  /\ pass' \in Passes /\ pass'.step = "status"
         /\ pass'.m.attempts = cache.attempts /\ pass'.m.job = 0
         /\ jobs' \in [Attempts -> JobStates]
         /\ \A n \in Attempts : jobs'[n] = jobs[n] \/ jobs'[n] \in {"dying", "none"}
         /\ cache.job # 0 => jobs'[cache.job] # "running"
<1> DEFINE m == [cache EXCEPT !.job = 0]
<1>1. cache \in Migrations /\ jobs \in [Attempts -> JobStates]
  BY DEF TypeOK
<1>2. m \in Migrations /\ m.attempts = cache.attempts /\ m.job = 0
  BY <1>1, AttemptsAssumption DEF Migrations
<1>3. cache.job # 0 => cache.job \in Attempts
  BY <1>1, AttemptsAssumption DEF Migrations, Attempts
<1>4. Continue("status", m)
  BY DEF SuspendPass
<1> HIDE DEF m
<1>5. pass' \in Passes /\ pass'.step = "status" /\ pass'.m = m
  BY <1>2, <1>4, ContinueType
<1>6. CASE Worker(cache) \notin {"none", "dying"} /\ DeleteJob(cache.job)
  <2>1. cache.job # 0
    BY <1>6 DEF Worker
  <2> QED BY <1>2, <1>3, <1>5, <1>6, <2>1, DeleteJobType
<1>7. CASE Worker(cache) \in {"none", "dying"} /\ UNCHANGED jobs
  BY <1>1, <1>2, <1>3, <1>5, <1>7 DEF Worker
<1> QED BY <1>6, <1>7 DEF SuspendPass

LEMMA EnsureFinalizerEffect ==
  ASSUME TypeOK, EnsureFinalizer
  PROVE  /\ pass' \in Passes /\ pass'.step = "finalizer" /\ pass'.m.attempts = cache.attempts
         /\ ~cache.finalizer
         /\ UNCHANGED <<jobs, cleanup, warned>>
<1>1. /\ [cache EXCEPT !.finalizer = TRUE] \in Migrations
      /\ [cache EXCEPT !.finalizer = TRUE].attempts = cache.attempts
  BY DEF TypeOK, Migrations
<1> QED BY <1>1, ContinueType DEF EnsureFinalizer

LEMMA WorkEffect ==
  ASSUME TypeOK, WorkPass
  PROVE  /\ cache.finalizer
         /\ pass' \in Passes /\ pass'.step \in {"idle", "create", "record", "status"}
         /\ pass'.step = "status" => pass'.m.attempts = cache.attempts /\ pass'.m.job \in {0, cache.job}
         /\ pass'.step \in {"create", "record"} =>
              pass'.m.attempts = cache.attempts + 1 /\ pass'.m.job = cache.attempts + 1
         /\ UNCHANGED jobs
         /\ Worker(cache) \in {"none", "failed", "ok"}
         /\ \/ UNCHANGED <<cleanup, warned>>
            \/ Worker(cache) = "ok" /\ EnsureCleanup
<1>1. cache \in Migrations
  BY DEF TypeOK
<1>2. CASE Worker(cache) = "none" /\ StartAttempt(cache) /\ UNCHANGED <<jobs, cleanup, warned>>
  BY <1>1, <1>2, StartAttemptType DEF WorkPass
<1>3. CASE /\ Worker(cache) = "failed"
           /\ Continue("status", [cache EXCEPT !.job = 0])
           /\ UNCHANGED <<jobs, cleanup, warned>>
  <2>1. /\ [cache EXCEPT !.job = 0] \in Migrations
        /\ [cache EXCEPT !.job = 0].attempts = cache.attempts
        /\ [cache EXCEPT !.job = 0].job = 0
    BY <1>1, AttemptsAssumption DEF Migrations
  <2> QED BY <1>3, <2>1, ContinueType DEF WorkPass
<1>4. CASE Worker(cache) = "ok" /\ FinishFollow
  <2>1. /\ [cache EXCEPT !.ended = TRUE] \in Migrations
        /\ [cache EXCEPT !.ended = TRUE].attempts = cache.attempts
        /\ [cache EXCEPT !.ended = TRUE].job = cache.job
    BY <1>1 DEF Migrations
  <2>2. Continue("status", [cache EXCEPT !.ended = TRUE]) \/ Return
    BY <1>4 DEF FinishFollow
  <2>3. EnsureCleanup /\ UNCHANGED jobs
    BY <1>4 DEF FinishFollow
  <2> QED BY <1>4, <2>1, <2>2, <2>3, ContinueType, ReturnType DEF WorkPass
<1> QED BY <1>2, <1>3, <1>4 DEF WorkPass

\* A pass on a deleted one: it stops the worker, cleans up, or releases.
LEMMA DeletionEffect ==
  ASSUME TypeOK, DeletionPass
  PROVE  /\ pass' \in Passes /\ pass'.step \in {"idle", "release"}
         /\ jobs' \in [Attempts -> JobStates]
         /\ \A n \in Attempts : jobs'[n] = jobs[n] \/ jobs'[n] \in {"dying", "none"}
         /\ \/ pass'.step = "idle" /\ UNCHANGED <<cleanup, warned>>
            \/ cache.attempts = 0 /\ UNCHANGED <<jobs, cleanup, warned>>
            \/ /\ Worker(cache) \in {"none", "dying"} /\ EnsureCleanup /\ UNCHANGED jobs
               /\ pass'.step = "release" => CleanupDone
<1>1. cache \in Migrations /\ jobs \in [Attempts -> JobStates]
  BY DEF TypeOK
<1>2. CASE StopWorker
  <2>1. cache.job # 0
    BY <1>2 DEF StopWorker, Worker
  <2>2. cache.job \in Attempts
    BY <1>1, <2>1, AttemptsAssumption DEF Migrations, Attempts
  <2>3. Return /\ DeleteJob(cache.job) /\ UNCHANGED <<cleanup, warned>>
    BY <1>2 DEF StopWorker
  <2> QED BY <2>2, <2>3, DeleteJobType, ReturnType
<1>3. CASE NothingRan
  BY <1>1, <1>3, ContinueType DEF NothingRan, SkipsCleanup
<1>4. CASE CleanUp
  <2>1. EnsureCleanup /\ UNCHANGED jobs /\ Worker(cache) \in {"none", "dying"}
    BY <1>4 DEF CleanUp
  <2>2. (CleanupDone /\ Continue("release", cache)) \/ Return
    BY <1>4 DEF CleanUp
  <2> QED BY <1>1, <2>1, <2>2, ContinueType, ReturnType
<1> QED BY <1>2, <1>3, <1>4 DEF DeletionPass

-----------------------------------------------------------------------------
(* The finalizer. *)

NoneRunning == \A n \in Attempts : jobs[n] # "running"

\* The operator's own writes are in the cache: it can lack only edits.
CacheInv ==
  /\ cache.attempts = mig.attempts /\ cache.job = mig.job /\ cache.finalizer = mig.finalizer
  /\ cache.deleting => mig.deleting

\* Without the finalizer nothing has run and no pass is about to create a worker.
FinalizerInv ==
  present /\ ~mig.finalizer => ~slot /\ NoneRunning /\ pass.step \notin {"create", "record"}

FInv == TypeOK /\ CacheInv /\ FinalizerInv

LEMMA InitFInv == Init => FInv
<1> SUFFICES ASSUME Init PROVE FInv
  OBVIOUS
<1>1. TypeOK
  BY NewMigrationType, IdleType DEF Init, TypeOK, JobStates
<1>2. CacheInv
  BY DEF Init, CacheInv
<1>3. FinalizerInv
  BY IdleType DEF Init, FinalizerInv, NoneRunning
<1> QED BY <1>1, <1>2, <1>3 DEF FInv

\* What a pass does before its first write.
LEMMA ReconcileFInv == ASSUME FInv, Reconcile PROVE FInv'
<1> USE DEF FInv
<1>0. /\ UNCHANGED <<mig, present, cache, reached, slot, terminating, bounds>>
      /\ present /\ pass.step = "idle"
  BY DEF Reconcile
<1>1. /\ pass' \in Passes /\ jobs' \in [Attempts -> JobStates]
      /\ cleanup' \in JobStates \ {"dying"} /\ warned' \in BOOLEAN
      /\ \A n \in Attempts : jobs'[n] = jobs[n] \/ jobs'[n] \in {"dying", "none"}
      /\ pass'.step \in {"create", "record"} => cache.finalizer
  <2>0. jobs \in [Attempts -> JobStates] /\ cleanup \in JobStates \ {"dying"} /\ warned \in BOOLEAN
    BY DEF TypeOK
  <2>1. CASE SuspendPass
    <3>1. UNCHANGED <<cleanup, warned>>
      BY <2>1 DEF SuspendPass
    <3> QED BY <2>0, <2>1, <3>1, SuspendEffect
  <2>2. CASE EnsureFinalizer
    BY <2>0, <2>2, EnsureFinalizerEffect
  <2>3. CASE WorkPass
    <3>1. cleanup' \in JobStates \ {"dying"} /\ warned' \in BOOLEAN
      BY <2>0, <2>3, WorkEffect, EnsureCleanupType
    <3> QED BY <2>0, <2>3, <3>1, WorkEffect
  <2>4. CASE DeletionPass
    <3>1. cleanup' \in JobStates \ {"dying"} /\ warned' \in BOOLEAN
      BY <2>0, <2>4, DeletionEffect, EnsureCleanupType
    <3> QED BY <2>0, <2>4, <3>1, DeletionEffect
  <2> QED BY <2>1, <2>2, <2>3, <2>4 DEF Reconcile
<1>2. TypeOK'
  BY <1>0, <1>1 DEF TypeOK, bounds
<1>3. CacheInv'
  BY <1>0 DEF CacheInv
<1>4. FinalizerInv'
  BY <1>0, <1>1 DEF FinalizerInv, NoneRunning, CacheInv
<1> QED BY <1>2, <1>3, <1>4

\* The optimistic finalizer patch, and the worker's turn after it.
LEMMA PatchFinalizerFInv == ASSUME FInv, PatchFinalizer PROVE FInv'
<1> USE DEF FInv
<1>0. UNCHANGED <<present, clusterVars, bounds>>
  BY DEF PatchFinalizer
<1>1. CASE Return /\ UNCHANGED <<mig, cache>>
  <2>1. TypeOK'
    BY <1>0, <1>1, ReturnType DEF TypeOK, clusterVars, bounds
  <2> QED BY <1>0, <1>1, <2>1, ReturnType DEF CacheInv, FinalizerInv, NoneRunning, clusterVars
<1>2. CASE present /\ Wrote([mig EXCEPT !.finalizer = TRUE])
           /\ (Return \/ /\ mig.attempts = 0
                         /\ pass' = [pass EXCEPT !.step = "create", !.m.attempts = 1, !.m.job = 1])
  <2> DEFINE m == [mig EXCEPT !.finalizer = TRUE]
  <2>1. m \in Migrations /\ m.finalizer = TRUE
    BY DEF TypeOK, Migrations
  <2>2. mig' = m /\ cache' = m
    BY <1>2 DEF Wrote
  <2> HIDE DEF m
  <2>3. pass' \in Passes
    <3>1. CASE Return
      BY <3>1, ReturnType
    <3>2. CASE pass' = [pass EXCEPT !.step = "create", !.m.attempts = 1, !.m.job = 1]
      <4>1. pass \in Passes /\ 1 \in 0..MaxAttempts
        BY AttemptsAssumption DEF TypeOK
      <4> QED BY <3>2, <4>1 DEF Passes, Migrations
    <3> QED BY <1>2, <3>1, <3>2
  <2>4. TypeOK'
    BY <1>0, <2>1, <2>2, <2>3 DEF TypeOK, clusterVars, bounds
  <2> QED BY <2>1, <2>2, <2>4 DEF CacheInv, FinalizerInv
<1> QED BY <1>1, <1>2 DEF PatchFinalizer

LEMMA CreateWorkerFInv == ASSUME FInv, CreateWorker PROVE FInv'
<1> USE DEF FInv
<1>0. /\ UNCHANGED <<mig, present, cache, cleanup, reached, slot, warned, terminating, bounds>>
      /\ pass.step = "create" /\ pass \in Passes /\ jobs \in [Attempts -> JobStates]
  BY DEF CreateWorker, TypeOK
<1>1. pass' \in Passes /\ jobs' \in [Attempts -> JobStates]
  <2>1. CASE Return /\ UNCHANGED jobs
    BY <1>0, <2>1, ReturnType
  <2>2. CASE /\ jobs' = [jobs EXCEPT ![pass.m.attempts] = IF @ = "none" THEN "running" ELSE @]
             /\ pass' = [pass EXCEPT !.step = "record"]
    BY <1>0, <2>2 DEF Passes, JobStates
  <2> QED BY <2>1, <2>2 DEF CreateWorker
<1>2. TypeOK'
  BY <1>0, <1>1 DEF TypeOK, bounds
<1>3. CacheInv' /\ FinalizerInv'
  BY <1>0 DEF CacheInv, FinalizerInv
<1> QED BY <1>2, <1>3

LEMMA UpdateStatusFInv == ASSUME FInv, UpdateStatus PROVE FInv'
<1> USE DEF FInv
<1>0. /\ UNCHANGED <<present, clusterVars, bounds>>
      /\ pass \in Passes /\ mig \in Migrations /\ cache \in Migrations
      /\ pass' \in Passes /\ pass'.step = "idle"
  BY ReturnType DEF UpdateStatus, TypeOK
<1>1. /\ mig' \in Migrations /\ mig'.finalizer = mig.finalizer
      /\ cache' \in Migrations /\ CacheInv'
  <2>1. CASE UNCHANGED <<mig, cache>>
    BY <1>0, <2>1 DEF CacheInv
  <2>2. CASE Wrote([mig EXCEPT !.attempts = pass.m.attempts, !.job = pass.m.job, !.ended = pass.m.ended])
    <3> DEFINE m == [mig EXCEPT !.attempts = pass.m.attempts, !.job = pass.m.job, !.ended = pass.m.ended]
    <3>1. m \in Migrations /\ m.finalizer = mig.finalizer
      BY <1>0 DEF Migrations, Passes
    <3>2. mig' = m /\ cache' = m
      BY <2>2 DEF Wrote
    <3> HIDE DEF m
    <3> QED BY <3>1, <3>2 DEF CacheInv
  <2> QED BY <2>1, <2>2 DEF UpdateStatus
<1>2. TypeOK'
  BY <1>0, <1>1 DEF TypeOK, clusterVars, bounds
<1>3. FinalizerInv'
  BY <1>0, <1>1 DEF FinalizerInv, NoneRunning, clusterVars
<1> QED BY <1>1, <1>2, <1>3

LEMMA ReleaseFInv == ASSUME FInv, Release PROVE FInv'
<1> USE DEF FInv
<1>0. /\ UNCHANGED <<clusterVars, bounds>>
      /\ mig \in Migrations /\ cache \in Migrations
      /\ pass' \in Passes /\ pass'.step = "idle"
  BY ReturnType DEF Release, TypeOK
<1>1. CASE UNCHANGED <<mig, present, cache>>
  <2>1. TypeOK'
    BY <1>0, <1>1 DEF TypeOK, clusterVars, bounds
  <2> QED BY <1>0, <1>1, <2>1 DEF CacheInv, FinalizerInv, NoneRunning, clusterVars
<1>2. CASE present' = FALSE /\ Wrote([mig EXCEPT !.finalizer = FALSE])
  <2> DEFINE m == [mig EXCEPT !.finalizer = FALSE]
  <2>1. m \in Migrations
    BY <1>0 DEF Migrations
  <2>2. mig' = m /\ cache' = m
    BY <1>2 DEF Wrote
  <2> HIDE DEF m
  <2>3. TypeOK'
    BY <1>0, <1>2, <2>1, <2>2 DEF TypeOK, clusterVars, bounds
  <2> QED BY <1>2, <2>2, <2>3 DEF CacheInv, FinalizerInv
<1> QED BY <1>1, <1>2 DEF Release

LEMMA AbortFInv == ASSUME FInv, Abort PROVE FInv'
<1> USE DEF FInv
<1>1. pass' \in Passes /\ pass'.step = "idle"
  BY ReturnType DEF Abort
<1>2. TypeOK'
  BY <1>1 DEF Abort, TypeOK, clusterVars
<1> QED BY <1>1, <1>2 DEF Abort, CacheInv, FinalizerInv, NoneRunning, clusterVars

\* An edit by somebody else: the pass keeps its step and its copy.
LEMMA ChangedPass ==
  ASSUME pass \in Passes, NEW m, Changed(m)
  PROVE  pass' \in Passes /\ pass'.step = pass.step /\ pass'.m = pass.m /\ mig' = m
BY DEF Changed, Passes

LEMMA UsersFInv == ASSUME FInv, Users PROVE FInv'
<1> USE DEF FInv
<1>0. mig \in Migrations /\ pass \in Passes /\ jobs \in [Attempts -> JobStates]
  BY DEF TypeOK
<1>1. CASE EditSuspend
  <2> DEFINE m == [mig EXCEPT !.suspend = ~@]
  <2>1. /\ m \in Migrations /\ m.attempts = mig.attempts /\ m.job = mig.job
        /\ m.finalizer = mig.finalizer /\ m.deleting = mig.deleting
    BY <1>0 DEF Migrations
  <2>2. Changed(m) /\ UNCHANGED <<present, cache, clusterVars, aborts, collected>>
        /\ edits' = edits + 1
    BY <1>1 DEF EditSuspend
  <2> HIDE DEF m
  <2>3. pass' \in Passes /\ pass'.step = pass.step /\ mig' = m
    BY <1>0, <2>2, ChangedPass
  <2>4. TypeOK'
    BY <2>1, <2>2, <2>3 DEF TypeOK, clusterVars
  <2> QED BY <2>1, <2>2, <2>3, <2>4 DEF CacheInv, FinalizerInv, NoneRunning, clusterVars
<1> DEFINE m == [mig EXCEPT !.deleting = TRUE]
<1>2. /\ m \in Migrations /\ m.attempts = mig.attempts /\ m.job = mig.job
      /\ m.finalizer = mig.finalizer /\ m.deleting
  BY <1>0 DEF Migrations
<1>3. CASE Delete
  <2>1. Changed(m) /\ present' = mig.finalizer /\ UNCHANGED <<cache, clusterVars, bounds>>
    BY <1>3 DEF Delete
  <2> HIDE DEF m
  <2>2. pass' \in Passes /\ mig' = m /\ present' \in BOOLEAN
    BY <1>0, <2>1, ChangedPass DEF Migrations
  <2>3. TypeOK'
    BY <1>2, <2>1, <2>2 DEF TypeOK, clusterVars, bounds
  <2> QED BY <1>2, <2>1, <2>2, <2>3 DEF CacheInv, FinalizerInv
<1>4. CASE DeleteNamespace
  <2>1. /\ Changed(m) /\ present' = mig.finalizer /\ terminating' = TRUE /\ cleanup' = "none"
        /\ UNCHANGED <<cache, reached, slot, warned, bounds>>
    BY <1>4 DEF DeleteNamespace
  <2> HIDE DEF m
  <2>2. pass' \in Passes /\ mig' = m /\ present' \in BOOLEAN
    BY <1>0, <2>1, ChangedPass DEF Migrations
  <2>3. jobs' \in [Attempts -> JobStates]
    BY <1>0, <1>4 DEF DeleteNamespace, Deleted, JobStates
  <2>4. TypeOK'
    BY <1>2, <2>1, <2>2, <2>3 DEF TypeOK, bounds, JobStates
  <2> QED BY <1>2, <2>1, <2>2, <2>4 DEF CacheInv, FinalizerInv
<1> QED BY <1>1, <1>3, <1>4 DEF Users

\* The cluster keeps the Migration and the pass.  A Job it moves on is not running
\* afterwards, and one that ends in ok has reached endpos.
LEMMA ClusterEffect ==
  ASSUME TypeOK, Cluster
  PROVE  /\ UNCHANGED <<mig, present, cache, pass, warned, terminating>>
         /\ TypeOK'
         /\ \A n \in Attempts : jobs'[n] = jobs[n] \/ jobs'[n] \in {"ok", "failed", "dying", "none"}
         /\ \A n \in Attempts : jobs'[n] = "ok" => jobs[n] = "ok" \/ reached'
         /\ reached => reached'
         /\ slot' /\ ~slot => ~reached /\ ~NoneRunning
         /\ cleanup' = "ok" => cleanup = "ok" \/ ~slot'
         /\ cleanup' # "none" => cleanup # "none"
<1>0. jobs \in [Attempts -> JobStates] /\ cleanup \in JobStates \ {"dying"} /\ collected \in Nat
  BY DEF TypeOK
<1>1. CASE OpenSlot
  BY <1>0, <1>1 DEF OpenSlot, TypeOK, bounds, NoneRunning
<1>2. CASE WorkerEnds
  <2>1. /\ UNCHANGED <<mig, present, cache, pass, cleanup, slot, warned, terminating, bounds>>
        /\ jobs' \in [Attempts -> JobStates] /\ reached' \in BOOLEAN
        /\ \A n \in Attempts : jobs'[n] = jobs[n] \/ jobs'[n] \in {"ok", "failed", "none"}
        /\ \A n \in Attempts : jobs'[n] = "ok" => jobs[n] = "ok" \/ reached'
        /\ reached => reached'
    <3>1. UNCHANGED <<mig, present, cache, pass, cleanup, slot, warned, terminating, bounds>>
      BY <1>2 DEF WorkerEnds
    <3>2. reached \in BOOLEAN
      BY DEF TypeOK
    <3>3. PICK n \in Attempts, end \in {"ok", "failed", "none"} :
            /\ jobs' = [jobs EXCEPT ![n] = end]
            /\ IF end = "ok" THEN reached' = TRUE ELSE reached' = reached
      BY <1>2 DEF WorkerEnds
    <3>4. jobs' \in [Attempts -> JobStates] /\ \A k \in Attempts \ {n} : jobs'[k] = jobs[k]
      BY <1>0, <3>3 DEF JobStates
    <3>5. jobs'[n] = end
      BY <1>0, <3>3
    <3> QED BY <3>1, <3>2, <3>3, <3>4, <3>5
  <2>2. TypeOK'
    BY <2>1 DEF TypeOK, bounds
  <2> QED BY <2>1, <2>2
<1>3. CASE OwnerGone
  <2>1. PICK n \in Attempts : jobs[n] \notin {"none", "dying"} /\ DeleteJob(n)
    BY <1>3 DEF OwnerGone
  <2>2. /\ UNCHANGED <<mig, present, cache, pass, cleanup, reached, slot, warned, terminating, bounds>>
        /\ jobs' \in [Attempts -> JobStates]
        /\ \A k \in Attempts : jobs'[k] = jobs[k] \/ jobs'[k] \in {"dying", "none"}
    BY <1>3, <2>1, DeleteJobType DEF OwnerGone
  <2>3. TypeOK'
    BY <2>2 DEF TypeOK, bounds
  <2> QED BY <2>2, <2>3
<1>4. CASE CleanupEnds
  <2>1. TypeOK'
    BY <1>4 DEF CleanupEnds, TypeOK, bounds, JobStates
  <2> QED BY <1>4, <2>1 DEF CleanupEnds
<1>5. CASE JobCollected
  <2>1. /\ UNCHANGED <<mig, present, cache, pass, reached, slot, warned, terminating, edits, aborts>>
        /\ collected' \in Nat
        /\ jobs' \in [Attempts -> JobStates]
        /\ \A n \in Attempts : jobs'[n] = jobs[n] \/ jobs'[n] = "none"
        /\ cleanup' \in {cleanup, "none"}
    BY <1>0, <1>5 DEF JobCollected, JobStates
  <2>2. TypeOK'
    BY <2>1 DEF TypeOK, JobStates
  <2>3. UNCHANGED slot /\ (cleanup' = cleanup \/ cleanup' = "none")
    BY <2>1
  <2>4. \A n \in Attempts : jobs'[n] = "ok" => jobs[n] = "ok"
    BY <2>1
  <2> QED BY <2>1, <2>2, <2>3, <2>4
<1> QED BY <1>1, <1>2, <1>3, <1>4, <1>5 DEF Cluster

LEMMA ClusterFInv == ASSUME FInv, Cluster PROVE FInv'
<1> USE DEF FInv
<1>1. /\ TypeOK' /\ UNCHANGED <<mig, present, cache, pass>>
      /\ NoneRunning => NoneRunning' /\ (slot' => slot)
  BY ClusterEffect DEF NoneRunning
<1> QED BY <1>1, ClusterEffect DEF CacheInv, FinalizerInv

LEMMA NextFInv == ASSUME FInv, [Next]_vars PROVE FInv'
<1>1. CASE CacheSync
  <2>1. TypeOK'
    BY <1>1 DEF CacheSync, FInv, TypeOK, clusterVars, bounds
  <2> QED BY <1>1, <2>1 DEF CacheSync, FInv, CacheInv, FinalizerInv, NoneRunning, clusterVars
<1>2. CASE UNCHANGED vars
  BY <1>2 DEF vars, clusterVars, bounds, FInv, TypeOK, CacheInv, FinalizerInv, NoneRunning
<1> QED BY <1>1, <1>2, ReconcileFInv, PatchFinalizerFInv, CreateWorkerFInv, UpdateStatusFInv,
           ReleaseFInv, AbortFInv, UsersFInv, ClusterFInv DEF Next, PassStep

LEMMA FInvariant == Spec => []FInv
<1>1. Init => FInv
  BY InitFInv
<1>2. FInv /\ [Next]_vars => FInv'
  BY NextFInv
<1> QED BY <1>1, <1>2, PTL DEF Spec

\* Every variable keeps its type (TypeOK), for every value of the constants.
THEOREM SlotTypeCorrect == Spec => []TypeOK
<1>1. FInv => TypeOK
  BY DEF FInv
<1> QED BY <1>1, FInvariant, PTL

\* The finalizer is on the Migration before any worker runs (FinalizerFirst), also
\* where the operator stops between a worker's Create and its record
\* (ensureFinalizer, follow.go:107).
THEOREM FinalizerSafe == Spec => []FinalizerFirst
<1>1. FInv => FinalizerFirst
  BY DEF FInv, FinalizerInv, FinalizerFirst, NoneRunning
<1> QED BY <1>1, FInvariant, PTL

-----------------------------------------------------------------------------
(* The slot.  SlotReleased is a fact about the moment the object goes; what *)
(* makes it true then is where a running worker can be: named by the status *)
(* or in the hands of the pass that is about to record it.  That is what a  *)
(* stop between Create and record destroys, and the assumption excludes.    *)

\* A pass never takes attempts back, and names the Job of the attempt it starts.
PassInv ==
  /\ pass.step \in {"create", "record", "status"} => pass.m.attempts >= mig.attempts
  /\ pass.step \in {"create", "record"} => pass.m.job = pass.m.attempts /\ pass.m.job # 0
  /\ pass.step = "status" => pass.m.job \in {0, mig.job}
  /\ pass.step = "finalizer" => ~mig.finalizer
  /\ mig.job # 0 => mig.attempts # 0

RunningInv ==
  \A n \in Attempts : jobs[n] = "running" =>
    \/ pass.step \in {"idle", "release"} /\ mig.job = n
    \/ pass.step = "record" /\ pass.m.job = n

EndedInv == \A n \in Attempts : jobs[n] = "ok" => reached

\* With no attempt recorded or about to be, nothing runs and there is no slot.
StartedInv == slot \/ ~NoneRunning => mig.attempts # 0 \/ pass.step = "record"

\* Cleanup begins only where no worker can open the slot again.
Quiet == cache.deleting /\ NoneRunning /\ pass.step \in {"idle", "release"}
CleanupInv ==
  /\ cleanup # "none" => reached \/ Quiet
  /\ cleanup = "ok" => ~slot

ReleaseInv == pass.step = "release" => Quiet /\ (~slot \/ warned)
GoneInv == ~present => (~slot \/ warned) /\ NoneRunning /\ pass.step \notin {"create", "record"}

SInv ==
  FInv /\ PassInv /\ RunningInv /\ EndedInv /\ StartedInv /\ CleanupInv /\ ReleaseInv /\ GoneInv

LEMMA InitSInv == Init => SInv
<1> SUFFICES ASSUME Init PROVE SInv
  OBVIOUS
<1>1. FInv
  BY InitFInv
<1>2. /\ mig = NewMigration /\ pass = Idle /\ present /\ cleanup = "none" /\ ~slot
      /\ \A n \in Attempts : jobs[n] = "none"
  BY DEF Init
<1> QED BY <1>1, <1>2, IdleType DEF SInv, PassInv, RunningInv, EndedInv, StartedInv, CleanupInv,
           ReleaseInv, GoneInv, NoneRunning, NewMigration

\* Between passes, a worker runs only under the name in the status.
LEMMA IdleRunning ==
  ASSUME SInv, pass.step = "idle", Worker(cache) # "running"
  PROVE  NoneRunning
<1> SUFFICES ASSUME NEW n \in Attempts, jobs[n] = "running" PROVE FALSE
  BY DEF NoneRunning
<1>1. mig.job = n /\ cache.job = n
  BY DEF SInv, FInv, CacheInv, RunningInv
<1>2. n # 0
  BY AttemptsAssumption DEF Attempts
<1> QED BY <1>1, <1>2 DEF Worker

LEMMA ReconcileSInv == ASSUME SInv, Reconcile PROVE SInv'
<1>0. /\ UNCHANGED <<mig, present, cache, reached, slot, terminating>>
      /\ present /\ pass.step = "idle" /\ TypeOK /\ FInv /\ CacheInv
  BY DEF Reconcile, SInv, FInv
<1>1. FInv'
  BY ReconcileFInv DEF SInv
<1>2. mig \in Migrations /\ mig.attempts \in Nat /\ jobs \in [Attempts -> JobStates]
  BY <1>0, AttemptsAssumption DEF TypeOK, Migrations
<1>3. CASE ~cache.deleting /\ SuspendPass
  <2>1. /\ pass'.step = "status" /\ pass'.m.attempts = mig.attempts /\ pass'.m.job = 0
        /\ UNCHANGED <<cleanup, warned>>
        /\ \A n \in Attempts : jobs'[n] = jobs[n] \/ jobs'[n] \in {"dying", "none"}
        /\ cache.job # 0 => jobs'[cache.job] # "running"
    BY <1>0, <1>3, SuspendEffect DEF SuspendPass, CacheInv
  <2>2. NoneRunning'
    <3> SUFFICES ASSUME NEW n \in Attempts, jobs'[n] = "running" PROVE FALSE
      BY DEF NoneRunning
    <3>1. jobs[n] = "running"
      BY <2>1
    <3>2. mig.job = n /\ cache.job = n /\ n # 0
      BY <1>0, <3>1, AttemptsAssumption DEF SInv, RunningInv, CacheInv, Attempts
    <3> QED BY <2>1, <3>2
  <2>3. PassInv'
    BY <1>0, <1>2, <2>1 DEF SInv, PassInv
  <2>4. RunningInv' /\ EndedInv'
    BY <1>0, <2>1, <2>2 DEF SInv, RunningInv, EndedInv, NoneRunning
  <2>5. StartedInv' /\ CleanupInv' /\ ReleaseInv' /\ GoneInv'
    BY <1>0, <1>3, <2>1, <2>2 DEF SInv, StartedInv, CleanupInv, ReleaseInv, GoneInv, Quiet
  <2> QED BY <1>1, <2>3, <2>4, <2>5 DEF SInv
<1>4. CASE ~cache.deleting /\ EnsureFinalizer
  <2>1. pass'.step = "finalizer" /\ ~mig.finalizer /\ UNCHANGED <<jobs, cleanup, warned>>
    BY <1>0, <1>4, EnsureFinalizerEffect DEF CacheInv
  <2>2. NoneRunning /\ NoneRunning'
    BY <1>0, <2>1 DEF FInv, FinalizerInv, NoneRunning
  <2>3. PassInv' /\ RunningInv' /\ EndedInv'
    BY <1>0, <2>1, <2>2 DEF SInv, PassInv, RunningInv, EndedInv, NoneRunning
  <2>4. StartedInv' /\ CleanupInv' /\ ReleaseInv' /\ GoneInv'
    BY <1>0, <1>4, <2>1, <2>2 DEF SInv, StartedInv, CleanupInv, ReleaseInv, GoneInv, Quiet
  <2> QED BY <1>1, <2>3, <2>4 DEF SInv
<1>5. CASE ~cache.deleting /\ WorkPass
  <2>1. /\ pass'.step \in {"idle", "create", "record", "status"}
        /\ pass'.step = "status" => pass'.m.attempts = mig.attempts /\ pass'.m.job \in {0, mig.job}
        /\ pass'.step \in {"create", "record"} =>
             pass'.m.attempts = mig.attempts + 1 /\ pass'.m.job = mig.attempts + 1
        /\ UNCHANGED jobs /\ Worker(cache) \in {"none", "failed", "ok"}
        /\ \/ UNCHANGED <<cleanup, warned>>
           \/ Worker(cache) = "ok" /\ EnsureCleanup
    BY <1>0, <1>5, WorkEffect DEF CacheInv
  <2>2. NoneRunning /\ NoneRunning'
    BY <1>0, <2>1, IdleRunning DEF NoneRunning
  <2>3. PassInv'
    BY <1>0, <1>2, <2>1 DEF SInv, PassInv
  <2>4. RunningInv' /\ EndedInv' /\ StartedInv' /\ ReleaseInv' /\ GoneInv'
    <3>1. RunningInv' /\ EndedInv'
      BY <1>0, <2>1, <2>2 DEF SInv, RunningInv, EndedInv, NoneRunning
    <3>2. StartedInv'
      BY <1>0, <2>1, <2>2 DEF SInv, StartedInv
    <3> QED BY <1>0, <2>1, <3>1, <3>2 DEF ReleaseInv, GoneInv
  <2>5. CleanupInv'
    <3>1. Worker(cache) = "ok" => reached
      <4> SUFFICES ASSUME Worker(cache) = "ok" PROVE reached
        OBVIOUS
      <4>1. cache.job \in Attempts /\ jobs[cache.job] = "ok"
        BY <1>0, AttemptsAssumption DEF TypeOK, Migrations, Attempts, Worker
      <4> QED BY <4>1 DEF SInv, EndedInv
    <3>2. cleanup # "none" => reached
      BY <1>5 DEF SInv, CleanupInv, Quiet
    <3>3. cleanup' = "ok" => cleanup = "ok"
      BY <2>1 DEF EnsureCleanup
    <3> QED BY <1>0, <2>1, <3>1, <3>2, <3>3 DEF SInv, CleanupInv
  <2> QED BY <1>1, <2>3, <2>4, <2>5 DEF SInv
<1>6. CASE cache.deleting /\ DeletionPass
  <2>1. /\ pass'.step \in {"idle", "release"}
        /\ \A n \in Attempts : jobs'[n] = jobs[n] \/ jobs'[n] \in {"dying", "none"}
        /\ \/ pass'.step = "idle" /\ UNCHANGED <<cleanup, warned>>
           \/ mig.attempts = 0 /\ UNCHANGED <<jobs, cleanup, warned>>
           \/ /\ Worker(cache) \in {"none", "dying"} /\ EnsureCleanup /\ UNCHANGED jobs
              /\ pass'.step = "release" => CleanupDone
    BY <1>0, <1>6, DeletionEffect DEF CacheInv
  <2>2. NoneRunning => NoneRunning'
    BY <2>1 DEF NoneRunning
  <2>3. PassInv'
    BY <1>0, <2>1 DEF SInv, PassInv
  <2>4. RunningInv' /\ EndedInv'
    BY <1>0, <2>1 DEF SInv, RunningInv, EndedInv
  <2>5. StartedInv'
    BY <1>0, <2>1, <2>2 DEF SInv, StartedInv
  <2>6. GoneInv'
    BY <1>0 DEF GoneInv
  <2>7. CASE pass'.step = "idle" /\ UNCHANGED <<cleanup, warned>>
    BY <1>0, <1>1, <2>2, <2>3, <2>4, <2>5, <2>6, <2>7 DEF SInv, CleanupInv, ReleaseInv, Quiet
  <2>8. CASE mig.attempts = 0 /\ UNCHANGED <<jobs, cleanup, warned>>
    <3>1. ~slot /\ NoneRunning
      BY <1>0, <2>8 DEF SInv, StartedInv
    <3>2. CleanupInv' /\ ReleaseInv'
      BY <1>0, <1>6, <2>1, <2>2, <2>8, <3>1 DEF SInv, CleanupInv, ReleaseInv, Quiet
    <3> QED BY <1>1, <2>3, <2>4, <2>5, <2>6, <3>2 DEF SInv
  <2>9. CASE /\ Worker(cache) \in {"none", "dying"} /\ EnsureCleanup /\ UNCHANGED jobs
             /\ pass'.step = "release" => CleanupDone
    <3>1. NoneRunning'
      BY <1>0, <2>2, <2>9, IdleRunning
    <3>2. cleanup' = "ok" => cleanup = "ok"
      BY <2>9 DEF EnsureCleanup
    <3>3. CleanupInv'
      BY <1>0, <1>6, <2>1, <3>1, <3>2 DEF SInv, CleanupInv, Quiet
    <3>4. CleanupDone => ~slot \/ warned'
      BY <2>9 DEF SInv, CleanupInv, CleanupDone, Finished, EnsureCleanup
    <3>5. ReleaseInv'
      BY <1>0, <1>6, <2>1, <2>9, <3>1, <3>4 DEF ReleaseInv, Quiet
    <3> QED BY <1>1, <2>3, <2>4, <2>5, <2>6, <3>3, <3>5 DEF SInv
  <2> QED BY <2>1, <2>7, <2>8, <2>9
<1> QED BY <1>3, <1>4, <1>5, <1>6 DEF Reconcile, SuspendPass

\* A pass that ends without touching anything else.
LEMMA ReturnSInv ==
  ASSUME SInv, FInv', Return, UNCHANGED <<mig, present, cache, clusterVars>>,
         pass.step = "record" => ~present
  PROVE  SInv'
<1>1. pass'.step = "idle" /\ UNCHANGED <<jobs, cleanup, reached, slot, warned>>
  BY ReturnType DEF clusterVars
<1>2. NoneRunning' = NoneRunning
  BY <1>1 DEF NoneRunning
<1>3. PassInv' /\ EndedInv' /\ ReleaseInv' /\ GoneInv'
  BY <1>1, <1>2 DEF SInv, PassInv, EndedInv, ReleaseInv, GoneInv
<1>4. RunningInv'
  BY <1>1 DEF SInv, RunningInv, GoneInv
<1>5. StartedInv'
  BY <1>1, <1>2 DEF SInv, StartedInv, GoneInv
<1>6. CleanupInv'
  BY <1>1, <1>2 DEF SInv, CleanupInv, Quiet
<1> QED BY <1>3, <1>4, <1>5, <1>6 DEF SInv

LEMMA PatchFinalizerSInv == ASSUME SInv, PatchFinalizer PROVE SInv'
<1>0. FInv' /\ pass.step = "finalizer" /\ TypeOK
  BY PatchFinalizerFInv DEF SInv, FInv, PatchFinalizer
<1>1. UNCHANGED <<present, jobs, cleanup, reached, slot, warned>>
  BY DEF PatchFinalizer, clusterVars
<1>2. CASE Return /\ UNCHANGED <<mig, cache>>
  BY <1>0, <1>2, ReturnSInv DEF PatchFinalizer
<1>3. CASE /\ present /\ ~mig.deleting /\ Wrote([mig EXCEPT !.finalizer = TRUE])
           /\ \/ Return
              \/ /\ mig.attempts = 0
                 /\ pass' = [pass EXCEPT !.step = "create", !.m.attempts = 1, !.m.job = 1]
  <2>1. ~slot /\ NoneRunning
    BY <1>0, <1>3 DEF SInv, FInv, FinalizerInv, PassInv
  <2>2. mig'.attempts = mig.attempts /\ mig'.job = mig.job
    BY <1>0, <1>3 DEF Wrote, TypeOK, Migrations
  <2>3. /\ pass'.step \in {"idle", "create"}
        /\ pass'.step = "create" => mig.attempts = 0 /\ pass'.m.attempts = 1 /\ pass'.m.job = 1
    <3>1. pass \in Passes
      BY <1>0 DEF TypeOK
    <3>2. CASE Return
      BY <3>2, ReturnType
    <3>3. CASE mig.attempts = 0 /\ pass' = [pass EXCEPT !.step = "create", !.m.attempts = 1, !.m.job = 1]
      BY <3>1, <3>3 DEF Passes, Migrations
    <3> QED BY <1>3, <3>2, <3>3
  <2>4. PassInv'
    BY <2>2, <2>3 DEF SInv, PassInv
  <2>5. RunningInv' /\ EndedInv' /\ StartedInv' /\ ReleaseInv' /\ GoneInv'
    BY <1>1, <1>3, <2>1, <2>3 DEF SInv, RunningInv, EndedInv, StartedInv, ReleaseInv, GoneInv, NoneRunning
  <2>6. CleanupInv'
    BY <1>0, <1>1 DEF SInv, CleanupInv, Quiet
  <2> QED BY <1>0, <2>4, <2>5, <2>6 DEF SInv
<1> QED BY <1>2, <1>3 DEF PatchFinalizer

LEMMA CreateWorkerSInv == ASSUME SInv, CreateWorker PROVE SInv'
<1>0. /\ FInv' /\ TypeOK /\ present /\ pass.step = "create"
      /\ UNCHANGED <<mig, present, cache, cleanup, reached, slot, warned, terminating>>
  BY CreateWorkerFInv DEF SInv, FInv, GoneInv, CreateWorker
<1>1. CASE Return /\ UNCHANGED jobs
  BY <1>0, <1>1, ReturnSInv DEF clusterVars
<1>2. CASE /\ jobs' = [jobs EXCEPT ![pass.m.attempts] = IF @ = "none" THEN "running" ELSE @]
           /\ pass' = [pass EXCEPT !.step = "record"]
  <2>1. pass'.step = "record" /\ pass'.m = pass.m
    BY <1>0, <1>2 DEF TypeOK, Passes
  <2>2. NoneRunning
    BY <1>0 DEF SInv, RunningInv, NoneRunning
  <2>3. /\ \A n \in Attempts : n # pass.m.job => jobs'[n] = jobs[n]
        /\ \A n \in Attempts : jobs'[n] = "ok" => jobs[n] = "ok"
    BY <1>0, <1>2 DEF SInv, PassInv, TypeOK
  <2>4. PassInv' /\ RunningInv' /\ EndedInv'
    BY <1>0, <2>1, <2>2, <2>3 DEF SInv, PassInv, RunningInv, EndedInv, NoneRunning
  <2>5. StartedInv' /\ ReleaseInv' /\ GoneInv'
    BY <1>0, <2>1 DEF StartedInv, ReleaseInv, GoneInv
  <2>6. CleanupInv'
    BY <1>0 DEF SInv, CleanupInv, Quiet
  <2> QED BY <1>0, <2>4, <2>5, <2>6 DEF SInv
<1> QED BY <1>1, <1>2 DEF CreateWorker

LEMMA UpdateStatusSInv == ASSUME SInv, UpdateStatus PROVE SInv'
<1>0. /\ FInv' /\ TypeOK /\ pass.step \in {"record", "status"} /\ pass'.step = "idle"
      /\ UNCHANGED <<present, jobs, cleanup, reached, slot, warned>>
  BY UpdateStatusFInv, ReturnType DEF SInv, FInv, UpdateStatus, clusterVars
<1>1. CASE ~present /\ UNCHANGED <<mig, cache>>
  BY <1>0, <1>1, ReturnSInv DEF UpdateStatus
<1>2. CASE present /\ Wrote([mig EXCEPT !.attempts = pass.m.attempts, !.job = pass.m.job,
                                       !.ended = pass.m.ended])
  <2>1. mig'.attempts = pass.m.attempts /\ mig'.job = pass.m.job
    BY <1>0, <1>2 DEF Wrote, TypeOK, Migrations
  <2>2. pass.m.attempts \in Nat /\ mig.attempts \in Nat
    BY <1>0, AttemptsAssumption DEF TypeOK, Passes, Migrations
  <2>3. PassInv'
    BY <1>0, <2>1, <2>2 DEF SInv, PassInv
  <2>4. RunningInv' /\ EndedInv'
    BY <1>0, <2>1 DEF SInv, RunningInv, EndedInv
  <2>5. NoneRunning' = NoneRunning
    BY <1>0 DEF NoneRunning
  <2>6. StartedInv'
    BY <1>0, <2>1, <2>2, <2>5 DEF SInv, StartedInv, PassInv
  <2>7. CleanupInv' /\ ReleaseInv' /\ GoneInv'
    BY <1>0, <1>2 DEF SInv, CleanupInv, ReleaseInv, GoneInv, Quiet
  <2> QED BY <1>0, <2>3, <2>4, <2>6, <2>7 DEF SInv
<1> QED BY <1>1, <1>2 DEF UpdateStatus

\* The one step that takes the object away leaves no slot, or a warning.
LEMMA ReleaseSInv == ASSUME SInv, Release PROVE SInv'
<1>0. /\ FInv' /\ TypeOK /\ pass.step = "release" /\ Return /\ pass'.step = "idle"
      /\ UNCHANGED clusterVars
  BY ReleaseFInv, ReturnType DEF SInv, FInv, Release
<1>1. CASE UNCHANGED <<mig, present, cache>>
  BY <1>0, <1>1, ReturnSInv
<1>2. CASE present' = FALSE /\ Wrote([mig EXCEPT !.finalizer = FALSE])
  <2>1. /\ NoneRunning /\ (~slot \/ warned) /\ cache.deleting
        /\ UNCHANGED <<jobs, cleanup, reached, slot, warned>>
    BY <1>0 DEF SInv, ReleaseInv, Quiet, clusterVars
  <2>2. /\ mig'.attempts = mig.attempts /\ mig'.job = mig.job
        /\ cache'.deleting
    BY <1>0, <1>2, <2>1 DEF Wrote, TypeOK, Migrations, SInv, FInv, CacheInv
  <2>3. PassInv' /\ RunningInv' /\ EndedInv'
    BY <1>0, <2>1, <2>2 DEF SInv, PassInv, RunningInv, EndedInv
  <2>4. NoneRunning'
    BY <2>1 DEF NoneRunning
  <2>5. StartedInv' /\ CleanupInv' /\ ReleaseInv' /\ GoneInv'
    BY <1>0, <1>2, <2>1, <2>2, <2>4 DEF SInv, StartedInv, CleanupInv, ReleaseInv, GoneInv, Quiet
  <2> QED BY <1>0, <2>3, <2>5 DEF SInv
<1> QED BY <1>1, <1>2 DEF Release

LEMMA AbortSInv == ASSUME ~CrashAfterCreate, SInv, Abort PROVE SInv'
<1>1. FInv' /\ Return /\ pass.step # "record" /\ UNCHANGED <<mig, present, cache, clusterVars>>
  BY AbortFInv DEF SInv, Abort
<1> QED BY <1>1, ReturnSInv

LEMMA UsersSInv == ASSUME SInv, Users PROVE SInv'
<1>0. FInv' /\ TypeOK /\ mig \in Migrations /\ pass \in Passes
  BY UsersFInv DEF SInv, FInv, TypeOK
<1>1. CASE EditSuspend
  <2> DEFINE m == [mig EXCEPT !.suspend = ~@]
  <2>1. m.attempts = mig.attempts /\ m.job = mig.job /\ m.finalizer = mig.finalizer
    BY <1>0 DEF Migrations
  <2>2. Changed(m) /\ UNCHANGED <<present, cache, clusterVars>>
    BY <1>1 DEF EditSuspend
  <2> HIDE DEF m
  <2>3. /\ pass'.step = pass.step /\ pass'.m = pass.m /\ mig' = m
        /\ UNCHANGED <<present, cache, jobs, cleanup, reached, slot, warned>>
    BY <1>0, <2>2, ChangedPass DEF clusterVars
  <2>4. NoneRunning' = NoneRunning
    BY <2>3 DEF NoneRunning
  <2>5. PassInv' /\ RunningInv' /\ EndedInv' /\ StartedInv'
    BY <2>1, <2>3, <2>4 DEF SInv, PassInv, RunningInv, EndedInv, StartedInv
  <2>6. CleanupInv' /\ ReleaseInv' /\ GoneInv'
    BY <2>3, <2>4 DEF SInv, CleanupInv, ReleaseInv, GoneInv, Quiet
  <2> QED BY <1>0, <2>5, <2>6 DEF SInv
<1> DEFINE m == [mig EXCEPT !.deleting = TRUE]
<1>2. m.attempts = mig.attempts /\ m.job = mig.job /\ m.finalizer = mig.finalizer
  BY <1>0 DEF Migrations
<1>3. CASE Delete
  <2>1. present /\ Changed(m) /\ present' = mig.finalizer /\ UNCHANGED <<cache, clusterVars>>
    BY <1>3 DEF Delete
  <2> HIDE DEF m
  <2>2. /\ pass'.step = pass.step /\ pass'.m = pass.m /\ mig' = m
        /\ UNCHANGED <<cache, jobs, cleanup, reached, slot, warned>>
    BY <1>0, <2>1, ChangedPass DEF clusterVars
  <2>3. NoneRunning' = NoneRunning
    BY <2>2 DEF NoneRunning
  <2>4. PassInv' /\ RunningInv' /\ EndedInv' /\ StartedInv'
    BY <1>2, <2>2, <2>3 DEF SInv, PassInv, RunningInv, EndedInv, StartedInv
  <2>5. CleanupInv' /\ ReleaseInv'
    BY <2>2, <2>3 DEF SInv, CleanupInv, ReleaseInv, Quiet
  <2>6. GoneInv'
    BY <2>1, <2>2, <2>3 DEF SInv, FInv, FinalizerInv, GoneInv
  <2> QED BY <1>0, <2>4, <2>5, <2>6 DEF SInv
<1>4. CASE DeleteNamespace
  <2>1. /\ present /\ Changed(m) /\ present' = mig.finalizer /\ cleanup' = "none"
        /\ UNCHANGED <<cache, reached, slot, warned>>
    BY <1>4 DEF DeleteNamespace
  <2>2. NoneRunning' /\ \A n \in Attempts : jobs'[n] # "ok"
    BY <1>4 DEF DeleteNamespace, Deleted, NoneRunning
  <2> HIDE DEF m
  <2>3. pass'.step = pass.step /\ pass'.m = pass.m /\ mig' = m
    BY <1>0, <2>1, ChangedPass
  <2>4. PassInv' /\ RunningInv' /\ EndedInv' /\ StartedInv'
    BY <1>2, <2>1, <2>2, <2>3 DEF SInv, PassInv, RunningInv, EndedInv, StartedInv, NoneRunning
  <2>5. CleanupInv' /\ ReleaseInv'
    BY <2>1, <2>2, <2>3 DEF SInv, CleanupInv, ReleaseInv, Quiet
  <2>6. GoneInv'
    BY <2>1, <2>2, <2>3 DEF SInv, FInv, FinalizerInv, GoneInv
  <2> QED BY <1>0, <2>4, <2>5, <2>6 DEF SInv
<1> QED BY <1>1, <1>3, <1>4 DEF Users

LEMMA ClusterSInv == ASSUME SInv, Cluster PROVE SInv'
<1>0. FInv' /\ TypeOK
  BY ClusterFInv DEF SInv, FInv
<1>1. /\ UNCHANGED <<mig, present, cache, pass, warned>>
      /\ \A n \in Attempts : jobs'[n] = jobs[n] \/ jobs'[n] \in {"ok", "failed", "dying", "none"}
      /\ \A n \in Attempts : jobs'[n] = "ok" => jobs[n] = "ok" \/ reached'
      /\ reached => reached'
      /\ slot' /\ ~slot => ~reached /\ ~NoneRunning
      /\ cleanup' = "ok" => cleanup = "ok" \/ ~slot'
      /\ cleanup' # "none" => cleanup # "none"
  BY <1>0, ClusterEffect
<1>2. NoneRunning => NoneRunning' /\ (slot' => slot)
  BY <1>1 DEF NoneRunning
<1>3. PassInv' /\ RunningInv' /\ EndedInv'
  BY <1>1 DEF SInv, PassInv, RunningInv, EndedInv
<1>4. StartedInv'
  BY <1>1, <1>2 DEF SInv, StartedInv
<1>5. CleanupInv'
  BY <1>1, <1>2 DEF SInv, CleanupInv, Quiet
<1>6. ReleaseInv' /\ GoneInv'
  BY <1>1, <1>2 DEF SInv, ReleaseInv, GoneInv, Quiet
<1> QED BY <1>0, <1>3, <1>4, <1>5, <1>6 DEF SInv

LEMMA CacheSyncSInv == ASSUME SInv, CacheSync PROVE SInv'
<1>0. /\ FInv' /\ cache' = mig /\ (cache.deleting => mig.deleting)
      /\ UNCHANGED <<mig, present, pass, jobs, cleanup, reached, slot, warned>>
  BY NextFInv DEF SInv, FInv, CacheInv, CacheSync, Next, clusterVars
<1>1. NoneRunning' = NoneRunning
  BY <1>0 DEF NoneRunning
<1>2. PassInv' /\ RunningInv' /\ EndedInv' /\ StartedInv'
  BY <1>0, <1>1 DEF SInv, PassInv, RunningInv, EndedInv, StartedInv
<1> QED BY <1>0, <1>1, <1>2 DEF SInv, CleanupInv, ReleaseInv, GoneInv, Quiet

LEMMA NextSInv == ASSUME ~CrashAfterCreate, SInv, [Next]_vars PROVE SInv'
<1>1. CASE UNCHANGED vars
  <2>1. FInv'
    BY <1>1, NextFInv DEF SInv
  <2>2. UNCHANGED <<mig, present, cache, pass, jobs, cleanup, reached, slot, warned>>
    BY <1>1 DEF vars, clusterVars
  <2> QED BY <2>1, <2>2 DEF SInv, PassInv, RunningInv, EndedInv, StartedInv, CleanupInv,
             ReleaseInv, GoneInv, Quiet, NoneRunning
<1> QED BY <1>1, ReconcileSInv, PatchFinalizerSInv, CreateWorkerSInv, UpdateStatusSInv,
           ReleaseSInv, AbortSInv, UsersSInv, ClusterSInv, CacheSyncSInv DEF Next, PassStep

\* The object goes only without its slot or with a warning (SlotReleased; the
\* finalizer's promise, follow.go:475), for any number of attempts, edits, crashes
\* and collected Jobs, as long as no pass ends between Create and record.
THEOREM SlotSafe == ASSUME ~CrashAfterCreate PROVE Spec => []SlotReleased
<1>1. Init => SInv
  BY InitSInv
<1>2. SInv /\ [Next]_vars => SInv'
  BY NextSInv
<1>3. SInv => SlotReleased
  BY DEF SInv, GoneInv, SlotReleased
<1> QED BY <1>1, <1>2, <1>3, PTL DEF Spec

=============================================================================
