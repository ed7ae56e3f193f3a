---------------------------- MODULE FollowCutover ----------------------------
(***************************************************************************)
(* The cutover of a live Migration (internal/controller/follow.go,         *)
(* confirmBaseCopy and nextAttempt of migration_controller.go): a worker   *)
(* copies, streams and drains; the controller judges the copy and the lag, *)
(* sets endpos, and after the worker's exit 0 proves the drain, hands over *)
(* ownership, drops the slot and compares.                                 *)
(*                                                                         *)
(* A pass reads the cached Migration, samples, creates at most one Job or  *)
(* sets endpos, and ends with one status write; it may end before either.  *)
(* The status write is a merge patch: the condition list is replaced as a  *)
(* whole, endpos and the lag are fields of their own.                      *)
(*                                                                         *)
(* A worker first sets up: attempt 1 wipes the work directory, a retry     *)
(* resumes from its catalogs, and one after a refused resume starts over,  *)
(* which drops the slot before it wipes.                                   *)
(*                                                                         *)
(* Abstractions.  The retry gate, the budget and the Jobs of older attempts*)
(* are MigrationAttempts: here a retry starts from a current Migration,    *)
(* with the pod before it gone.  Rehearsals and deletion are elsewhere.  A *)
(* lag is low (at most maxCatchupLag) or high; what is on the target is    *)
(* two facts, rows in every table and the drain.  A Job under deletion is  *)
(* taken not to turn Complete.                                             *)
(***************************************************************************)
EXTENDS Integers

CONSTANTS
  Handover,      \* is clone.ownerAfterRestore set?
  Compare,       \* is spec.verification set?
  DropIfExists,  \* is clone.dropIfExists set?
  CacheLags,     \* may a pass read a Migration older than the last write?
  JobsVanish,    \* may ttlSecondsAfterFinished collect finished Jobs?
  SamplesFail,   \* may a sample lack the relation counts or the replay position?
  EarlyExits,    \* may pgcopydb exit 0 with no endpos set?
  Suspends,      \* may spec.suspend change?
  MaxAttempts,   \* attempts the budget allows
  MaxEdits,      \* bound: changes of spec.cutover.approved and spec.suspend
  MaxAborts      \* bound: passes that end between two API calls

ASSUME SwitchAssumption ==
  {Handover, Compare, DropIfExists, CacheLags, JobsVanish, SamplesFail, EarlyExits, Suspends}
    \subseteq BOOLEAN
ASSUME BoundsAssumption == MaxAttempts \in Nat /\ MaxEdits \in Nat /\ MaxAborts \in Nat

VARIABLES
  mig,       \* the Migration on the API server
  cache,     \* the informer's copy
  fresh,     \* the informer holds the newest version
  pass,      \* the pass under way
  worker,    \* the newest worker: its attempt, its Job's state, how far its pod has set up
  copy,      \* the clone-done marker in its log, whether pgcopydb's catalogs call the copy
             \* done, and whether every table has its rows
  stream,    \* whether the apply loop has synced since the worker started; the backlog
  endpos,    \* an endpos is set in the work directory
  drained,   \* the target holds every change below it, or of the source when unset
  slot,      \* the replication slot is on the source
  verify, reown, cleanup, compare,   \* the Jobs of the finish path
  lastLow,   \* the last lag measured on this worker and recorded was low
  edits, aborts

apiVars == <<mig, cache, fresh>>
dataVars == <<copy, stream, endpos, drained, slot>>
finishJobs == <<verify, reown, cleanup, compare>>
bounds == <<edits, aborts>>
vars == <<apiVars, pass, worker, dataVars, finishJobs, lastLow, bounds>>

-----------------------------------------------------------------------------
(* The Migration and the pass. *)

Lags == {"none", "low", "high"}
Conditions ==
  [clone: {"running", "lost", "refused", "done"}, caught: {"lagging", "confirming", "true"},
   cutover: {"none", "true", "refuted"}, held: BOOLEAN, failed: BOOLEAN, complete: BOOLEAN]
Migrations ==
  [approved: BOOLEAN, suspend: BOOLEAN, attempts: Nat, job: Nat,
   endpos: BOOLEAN, lag: Lags, cond: Conditions]

\* A Job is "ending" while its foreground deletion waits for the pod.  A worker failed
\* for a cause a retry can fix, "denied" for one it cannot, "lost" on a refused resume.
JobStates == {"none", "running", "ending", "ok", "failed"}
Failures == {"failed", "denied", "lost"}
WorkerStates == JobStates \cup Failures \cup {"gone"}
Unfinished(state) == state \in {"running", "ending"}
Live == Unfinished(worker.state)

\* What the worker's pod does next: drop the old slot, wipe the work directory, take up
\* its catalogs; "up" is pgcopydb at work.
Setups == {"cleanup", "restart", "resume", "up"}

NewMigration ==
  [approved |-> FALSE, suspend |-> FALSE, attempts |-> 0, job |-> 0, endpos |-> FALSE,
   lag |-> "none",
   cond |-> [clone |-> "running", caught |-> "lagging", cutover |-> "none",
             held |-> FALSE, failed |-> FALSE, complete |-> FALSE]]

Terminal(m) == m.cond.failed \/ m.cond.complete

\* updateStatus: the fields m changed against base, over whatever cur holds.
Written(old, new, now) == IF new = old THEN now ELSE new
Merge(cur, base, m) ==
  [cur EXCEPT !.attempts = Written(base.attempts, m.attempts, @),
              !.job      = Written(base.job, m.job, @),
              !.endpos   = Written(base.endpos, m.endpos, @),
              !.lag      = Written(base.lag, m.lag, @),
              !.cond     = Written(base.cond, m.cond, @)]

NoStream == [synced |-> FALSE, backlog |-> "high"]

\* A pass: its next step, the working copy, the copy it diffs against, its reading.
Idle == [step |-> "idle", m |-> NewMigration, base |-> NewMigration, read |-> "missed"]
Passes == [step: {"idle", "endpos", "create", "write"}, m: Migrations, base: Migrations,
           read: {"low", "high", "none", "missed"}]

Continue(step, m) == pass' = [Idle EXCEPT !.step = step, !.m = m, !.base = cache]
Finish(m) == Continue("write", m)
Fail(m) == [m EXCEPT !.cond.failed = TRUE, !.cond.held = FALSE]

Exists(n) == n = worker.attempt /\ worker.state \notin {"none", "gone"}

-----------------------------------------------------------------------------
(* Observing a running worker. *)

\* confirmBaseCopy: counts is this pass's own sample, "none" when it has none.
Counts == {IF copy.loaded THEN "full" ELSE "owed"} \cup (IF SamplesFail THEN {"none"} ELSE {})
\* Faulty variant: the marker is believed as it is.
TrustsMarker(m, counts) == "done"
\* Faulty variant: a pass without counts lifts a refusal.
LiftedByNoSample(m, counts) == IF counts = "owed" THEN "refused" ELSE "done"
ConfirmBaseCopy(m, counts) ==
  CASE counts = "owed" -> "refused"
    [] counts = "none" /\ m.cond.clone = "refused" -> "refused"
    [] OTHER -> "done"

\* What Read yields.  Until the apply loop's first sync the slot reports the raw
\* receive position, so the lag reads low; "none" lacks the replay position,
\* "missed" is no sample at all.
Readings ==
  {IF stream.synced THEN stream.backlog ELSE "low", "missed"}
    \cup (IF SamplesFail THEN {"none"} ELSE {})

\* Faulty variant: one low lag is enough.
OneSample(was, low) == IF low THEN "true" ELSE "lagging"

\* The catch-up latch: one low lag parks at confirming, the next makes it true.
CaughtUp(was, low) ==
  CASE low /\ was \in {"confirming", "true"} -> "true"
    [] low /\ was = "lagging" -> "confirming"
    [] OTHER -> "lagging"

\* Faulty variant: a reading that was missed is stored.
StoresMissed(m, reading) == [m EXCEPT !.lag = reading]

\* reconcileFollowRunning up to the cutover: a lag that was not read is carried.
FollowRunning(m, reading) ==
  LET lag == IF reading = "none" THEN m.lag ELSE reading
      seen == [m EXCEPT !.lag = lag]
  IN CASE reading = "missed" -> m
       [] reading # "missed" /\ m.cond.clone # "done" -> seen
       [] OTHER -> [seen EXCEPT !.cond.caught = CaughtUp(@, lag = "low")]

CutoverWanted(m) == m.cond.clone = "done" /\ ~m.endpos /\ m.approved /\ m.cond.caught = "true"

ObserveRunningJob ==
  /\ Exists(cache.job) /\ Unfinished(worker.state)
  /\ \E counts \in Counts, reading \in Readings :
       LET judge == cache.cond.clone # "done" /\ (copy.marker = "logged" \/ cache.cond.clone = "refused")
           judged == [cache EXCEPT !.cond.held = FALSE,
                        !.cond.clone = IF judge THEN ConfirmBaseCopy(cache, counts) ELSE @]
           m == FollowRunning(judged, reading)
           step == IF reading # "missed" /\ CutoverWanted(m) THEN "endpos" ELSE "write"
       IN pass' = [step |-> step, m |-> m, base |-> cache, read |-> reading]
  /\ UNCHANGED <<worker, finishJobs>>

-----------------------------------------------------------------------------
(* After the worker's exit 0. *)

\* ensureJob: observe the Job, or create it and have nothing to observe yet.
Ensured(job) == IF job = "none" THEN "running" ELSE job
Pending(job) == job = "none" \/ Unfinished(job)

\* Faulty variant: only a cleanup that succeeded counts as done.
CleanupSucceeded(job) == job = "ok"

\* ensureCleanup: done once the Job finished, whatever it ended in.
CleanupDone(job) == ~Pending(job)

\* Faulty variant: cutover is reported beside the verify Job.
VerifyNotAwaited ==
  LET m == [cache EXCEPT !.cond.clone = "done", !.cond.cutover = "true"] IN
  /\ verify' = Ensured(verify)
  /\ cleanup' = Ensured(cleanup)
  /\ UNCHANGED <<worker, reown, compare>>
  /\ IF Pending(cleanup) THEN Finish(m) ELSE Finish([m EXCEPT !.cond.complete = TRUE])
\* Faulty variant: the slot is dropped beside the verify Job.
CleanupBesideVerify ==
  /\ verify' = Ensured(verify)
  /\ cleanup' = Ensured(cleanup)
  /\ UNCHANGED <<worker, reown, compare>>
  /\ \/ Pending(verify) /\ Finish(cache)
     \/ verify = "failed" /\ Finish(Fail([cache EXCEPT !.cond.cutover = "refuted"]))
     \/ verify = "ok" /\ Finish([cache EXCEPT !.cond.cutover = "true"])

\* finishFollow.  Refusal latches: exit 0 is the same word the marker was.
\* cleanup and the compares are only waited for, whatever they end in.
FinishFollow ==
  LET copied == [cache EXCEPT !.cond.clone = IF @ = "refused" THEN @ ELSE "done"]
      cutover == [copied EXCEPT !.cond.cutover = "true"]
      verified == verify = "ok"
      owned == verified /\ (~Handover \/ reown = "ok")
      cleaned == owned /\ CleanupDone(cleanup)
  IN
  /\ verify' = Ensured(verify)
  /\ reown' = IF verified /\ Handover THEN Ensured(reown) ELSE reown
  /\ cleanup' = IF owned THEN Ensured(cleanup) ELSE cleanup
  /\ compare' = IF cleaned /\ Compare THEN Ensured(compare) ELSE compare
  /\ \/ verify = "failed" /\ Finish(Fail([copied EXCEPT !.cond.cutover = "refuted"]))
     \/ Pending(verify) /\ Finish(copied)
     \/ verified /\ Handover /\ reown = "failed" /\ Finish(Fail(copied))
     \/ verified /\ Handover /\ Pending(reown) /\ Finish(copied)
     \/ owned /\ ~cleaned /\ Finish(cutover)
     \/ cleaned /\ Compare /\ Pending(compare) /\ Finish(cutover)
     \/ cleaned /\ ~(Compare /\ Pending(compare)) /\ Finish([cutover EXCEPT !.cond.complete = TRUE])
  /\ UNCHANGED worker

-----------------------------------------------------------------------------
(* The other passes. *)

\* Foreground deletion: the Job stays until its pod has ended, up to the grace.
Deleted(state) == IF Unfinished(state) THEN "ending" ELSE "gone"

\* reconcileSuspended: the worker Job is deleted, and a handover that has not finished.
SuspendPass ==
  /\ cache.suspend
  /\ worker' = IF Exists(cache.job) THEN [worker EXCEPT !.state = Deleted(@)] ELSE worker
  /\ reown' = IF Unfinished(reown) THEN Deleted(reown) ELSE reown
  /\ Finish([cache EXCEPT !.job = 0, !.cond.held = FALSE])
  /\ UNCHANGED <<verify, cleanup, compare>>

\* startAttempt: a worker that a cut pass created is recorded; a new one needs the
\* budget, and past the first that no pod ends (the retry gate) and a current Migration
\* (the lock of settleBudget).
StartAttempt ==
  LET attempt == cache.attempts + 1
      started == [cache EXCEPT !.attempts = attempt, !.job = attempt, !.cond.held = FALSE,
                               !.cond.clone = IF @ = "done" THEN @ ELSE "running"]
  IN
  /\ attempt >= worker.attempt
  /\ \/ Exists(attempt) /\ Finish(started)
     \/ ~Exists(attempt) /\ cache.attempts >= MaxAttempts /\ Finish(Fail(cache))
     \/ /\ ~Exists(attempt) /\ cache.attempts < MaxAttempts
        /\ attempt = 1 \/ (fresh /\ worker.state # "ending")
        /\ Continue("create", started)
  /\ UNCHANGED <<worker, finishJobs>>

\* Faulty variant: the finish path is never recognised.
NeverOnlyFinish == FALSE

\* Only the handover Job says that the finish path remains.
OnlyFinishRemains == Handover /\ reown # "none"

NextAttempt ==
  /\ ~Exists(cache.job)
  /\ IF OnlyFinishRemains THEN FinishFollow ELSE StartAttempt

WorkerSucceeded == Exists(cache.job) /\ worker.state = "ok" /\ FinishFollow

\* Faulty variant: a retry after any failure starts over.
RetriedAnew == [cache EXCEPT !.job = 0, !.cond.held = TRUE, !.cond.clone = "lost"]
\* A failed attempt that a retry follows.
Retried == [cache EXCEPT !.job = 0, !.cond.held = TRUE]
\* The latch that makes the next attempt start over.
StartsOver == [Retried EXCEPT !.cond.clone = "lost"]

\* handleFailedJob.  A cause that no retry fixes is terminal, and so is a refused resume
\* where a start-over may not replace what is on the target.  Past its grace, a log that
\* cannot be read names no cause.
HandleFailedJob ==
  /\ Exists(cache.job) /\ worker.state \in Failures
  /\ \E cause \in {worker.state, "failed"} :
       \/ cause = "failed" /\ Finish(Retried)
       \/ cause = "lost" /\ DropIfExists /\ Finish(StartsOver)
       \/ /\ cause = "denied" \/ (cause = "lost" /\ ~DropIfExists)
          /\ Finish(Fail([cache EXCEPT !.cond.clone = "running"]))
  /\ UNCHANGED <<worker, finishJobs>>

Reconcile ==
  /\ pass.step = "idle" /\ ~Terminal(cache) /\ (CacheLags \/ fresh)
  /\ \/ SuspendPass
     \/ ~cache.suspend /\ (NextAttempt \/ WorkerSucceeded \/ HandleFailedJob \/ ObserveRunningJob)
  /\ UNCHANGED <<apiVars, dataVars, lastLow, bounds>>

\* SetEndposCurrent: endpos moves to the source's head, past which the target may
\* not be.  An error leaves the status without it, whether or not it was set.
SetEndposCurrent ==
  /\ pass.step = "endpos"
  /\ \E set, answered \in BOOLEAN :
       /\ answered => set
       /\ set => Live
       /\ endpos' = (endpos \/ set)
       /\ drained' \in (IF set THEN {FALSE, drained} ELSE {drained})
       /\ pass' = [pass EXCEPT !.step = "write", !.m.endpos = answered]
  /\ UNCHANGED <<apiVars, worker, copy, stream, slot, finishJobs, lastLow, bounds>>

\* buildJob: attempt 1 and a start-over pass --restart, the start-over after a cleanup
\* of the slot; every other attempt passes --resume.  snapshotLost reads the latch of
\* the copy the pass works on, which recordAttempt replaces.
Setup ==
  CASE pass.m.attempts = 1 -> "restart"
    [] pass.m.attempts # 1 /\ pass.base.cond.clone = "lost" /\ DropIfExists -> "cleanup"
    [] OTHER -> "resume"

\* Create of the worker Job.
CreateWorker ==
  /\ pass.step = "create"
  /\ worker' = [attempt |-> pass.m.attempts, state |-> "running", setup |-> Setup]
  /\ copy' = [copy EXCEPT !.marker = "none"]
  /\ stream' = NoStream
  /\ lastLow' = FALSE
  /\ pass' = [pass EXCEPT !.step = "write"]
  /\ UNCHANGED <<apiVars, endpos, drained, slot, finishJobs, bounds>>

UpdateStatus ==
  /\ pass.step = "write"
  /\ mig' = Merge(mig, pass.base, pass.m)
  /\ fresh' = (fresh /\ mig' = mig)
  /\ lastLow' = IF pass.read \in {"low", "high"} THEN pass.read = "low" ELSE lastLow
  /\ pass' = Idle
  /\ UNCHANGED <<cache, worker, dataVars, finishJobs, bounds>>

\* The replica crashes, or an API call returns an error: the pass ends here.
Abort ==
  /\ pass.step # "idle" /\ aborts < MaxAborts
  /\ aborts' = aborts + 1
  /\ pass' = Idle
  /\ UNCHANGED <<apiVars, worker, dataVars, finishJobs, lastLow, edits>>

-----------------------------------------------------------------------------
(* Everyone else: the informer, users, pgcopydb, the Job controller, the TTL. *)

CacheSync ==
  /\ ~fresh
  /\ cache' = mig /\ fresh' = TRUE
  /\ UNCHANGED <<mig, pass, worker, dataVars, finishJobs, lastLow, bounds>>

EditSpec ==
  /\ edits < MaxEdits /\ ~Terminal(mig)
  /\ edits' = edits + 1
  /\ \/ mig' = [mig EXCEPT !.approved = ~@]
     \/ Suspends /\ mig' = [mig EXCEPT !.suspend = ~@]
  /\ fresh' = FALSE
  /\ UNCHANGED <<cache, pass, worker, dataVars, finishJobs, lastLow, aborts>>

\* pgcopydb stream cleanup, which the worker of a start-over runs first.
DropsSlot ==
  /\ Live /\ worker.setup = "cleanup"
  /\ worker' = [worker EXCEPT !.setup = "restart"]
  /\ slot' = FALSE
  /\ UNCHANGED <<apiVars, pass, copy, stream, endpos, drained, finishJobs, lastLow, bounds>>

\* --restart wipes the work directory, catalogs and endpos, and --drop-if-exists makes
\* the target's objects anew.
Wipes ==
  /\ Live /\ worker.setup = "restart"
  /\ worker' = [worker EXCEPT !.setup = "resume"]
  /\ copy' = [copy EXCEPT !.done = FALSE, !.loaded = FALSE]
  /\ endpos' = FALSE /\ drained' = FALSE
  /\ UNCHANGED <<apiVars, pass, stream, slot, finishJobs, lastLow, bounds>>

\* pgcopydb makes its slot and copies, or goes on behind a finished copy.  It refuses to
\* resume an unfinished one whose slot outlived the snapshot.
Begins ==
  /\ Live /\ worker.setup = "resume"
  /\ \/ /\ copy.done \/ ~slot
        /\ worker' = [worker EXCEPT !.setup = "up"]
        /\ slot' = (slot \/ ~copy.done)
     \/ /\ ~copy.done /\ slot /\ worker.state = "running"
        /\ worker' = [worker EXCEPT !.state = "lost"]
        /\ UNCHANGED slot
  /\ UNCHANGED <<apiVars, pass, copy, stream, endpos, drained, finishJobs, lastLow, bounds>>

Working == Live /\ worker.setup = "up"

\* pgcopydb's catalogs call the copy done, perhaps with tables no rows have reached; it
\* logs its marker, and more lines push it out of the tail that a pass reads.
Logs ==
  /\ Working
  /\ \/ ~copy.done /\ copy' = [copy EXCEPT !.done = TRUE]
     \/ copy.done /\ copy.marker = "none" /\ copy' = [copy EXCEPT !.marker = "logged"]
     \/ copy.marker = "logged" /\ copy' = [copy EXCEPT !.marker = "scrolled"]
     \/ ~copy.loaded /\ copy' = [copy EXCEPT !.loaded = TRUE]
  /\ UNCHANGED <<apiVars, pass, worker, stream, endpos, drained, slot, finishJobs, lastLow, bounds>>

\* The apply loop syncs for the first time, or the backlog crosses the threshold.
Streams ==
  /\ Working
  /\ \/ ~stream.synced /\ stream' = [stream EXCEPT !.synced = TRUE]
     \/ stream' = [stream EXCEPT !.backlog = IF @ = "low" THEN "high" ELSE "low"]
  /\ UNCHANGED <<apiVars, pass, worker, copy, endpos, drained, slot, finishJobs, lastLow, bounds>>

\* pgcopydb ends well: behind a finished copy, at an endpos or without one.
EndsWell == Working /\ copy.done /\ (endpos \/ EarlyExits)

\* The worker exits 0, which proves nothing: it drained to endpos, or resumed past
\* a crash and skipped the drain, or ended without an endpos.  Or it fails.  The Job
\* of one that was deleted goes with its pod.
WorkerExits ==
  /\ \/ /\ EndsWell
        /\ worker' = [worker EXCEPT !.state = IF @ = "ending" THEN "gone" ELSE "ok"]
        /\ drained' \in {TRUE, drained}
     \/ /\ worker.state = "running"
        /\ \E cause \in {"failed", "denied"} : worker' = [worker EXCEPT !.state = cause]
        /\ UNCHANGED drained
     \/ /\ worker.state = "ending" /\ worker' = [worker EXCEPT !.state = "gone"]
        /\ UNCHANGED drained
  /\ stream' = NoStream
  /\ copy' = [copy EXCEPT !.marker = "none"]
  /\ UNCHANGED <<apiVars, pass, endpos, slot, finishJobs, lastLow, bounds>>

\* Faulty variant: the origin is trusted without an endpos.
OriginAlone == drained

\* The verify script exits 0 only when the target's origin is exactly at an endpos
\* that is set, or a compare finds every table matching.
Shown == drained /\ (endpos \/ copy.loaded)
VerifyEnds ==
  /\ verify = "running"
  /\ verify' \in {"failed"} \cup (IF Shown THEN {"ok"} ELSE {})
  /\ UNCHANGED <<apiVars, pass, worker, dataVars, reown, cleanup, compare, lastLow, bounds>>

\* The handover finishes, or the Job of one that was deleted goes with its pod.
ReownEnds ==
  /\ \/ reown = "running" /\ reown' \in {"ok", "failed"}
     \/ reown = "ending" /\ reown' = "none"
  /\ UNCHANGED <<apiVars, pass, worker, dataVars, verify, cleanup, compare, lastLow, bounds>>

\* The cleanup Job drops the slot, or gives up after its retries.
CleanupEnds ==
  /\ cleanup = "running"
  /\ \/ cleanup' = "ok" /\ slot' = FALSE
     \/ cleanup' = "failed" /\ UNCHANGED slot
  /\ UNCHANGED <<apiVars, pass, worker, copy, stream, endpos, drained, verify, reown, compare,
                 lastLow, bounds>>

CompareEnds ==
  /\ compare = "running" /\ compare' \in {"ok", "failed"}
  /\ UNCHANGED <<apiVars, pass, worker, dataVars, verify, reown, cleanup, lastLow, bounds>>

\* ttlSecondsAfterFinished collects a finished Job; the handover Job has none.
Finished(job) == job = "ok" \/ job \in Failures
JobVanishes ==
  /\ JobsVanish
  /\ \/ /\ Finished(worker.state) /\ worker' = [worker EXCEPT !.state = "gone"]
        /\ UNCHANGED <<verify, cleanup, compare>>
     \/ Finished(verify) /\ verify' = "none" /\ UNCHANGED <<worker, cleanup, compare>>
     \/ Finished(cleanup) /\ cleanup' = "none" /\ UNCHANGED <<worker, verify, compare>>
     \/ Finished(compare) /\ compare' = "none" /\ UNCHANGED <<worker, verify, cleanup>>
  /\ UNCHANGED <<apiVars, pass, dataVars, reown, lastLow, bounds>>

-----------------------------------------------------------------------------
Init ==
  /\ mig = NewMigration /\ cache = mig /\ fresh = TRUE /\ pass = Idle
  /\ worker = [attempt |-> 0, state |-> "none", setup |-> "up"]
  /\ copy = [marker |-> "none", done |-> FALSE, loaded |-> FALSE]
  /\ stream = NoStream
  /\ endpos = FALSE /\ drained = FALSE /\ slot = FALSE
  /\ verify = "none" /\ reown = "none" /\ cleanup = "none" /\ compare = "none"
  /\ lastLow = FALSE /\ edits = 0 /\ aborts = 0

PassStep == SetEndposCurrent \/ CreateWorker \/ UpdateStatus
FinishJobEnds == VerifyEnds \/ ReownEnds \/ CleanupEnds \/ CompareEnds
SetsUp == DropsSlot \/ Wipes \/ Begins
Cluster == SetsUp \/ Logs \/ Streams \/ WorkerExits \/ FinishJobEnds \/ JobVanishes

Next == Reconcile \/ PassStep \/ Abort \/ CacheSync \/ EditSpec \/ Cluster

Spec == Init /\ [][Next]_vars

\* The work queue keeps delivering the key, a pass goes on, the informer moves,
\* and the script Jobs end; nothing is assumed of pgcopydb.
FairSpec ==
  /\ Spec
  /\ WF_vars(Reconcile) /\ WF_vars(PassStep) /\ WF_vars(CacheSync)
  /\ WF_vars(VerifyEnds) /\ WF_vars(ReownEnds) /\ WF_vars(CleanupEnds) /\ WF_vars(CompareEnds)

-----------------------------------------------------------------------------
(* What must hold. *)

\* Every variable keeps its type.
TypeOK ==
  /\ mig \in Migrations /\ cache \in Migrations /\ fresh \in BOOLEAN /\ pass \in Passes
  /\ worker \in [attempt: Nat, state: WorkerStates, setup: Setups]
  /\ copy \in [marker: {"none", "logged", "scrolled"}, done: BOOLEAN, loaded: BOOLEAN]
  /\ stream \in [synced: BOOLEAN, backlog: {"low", "high"}]
  /\ {endpos, drained, slot} \subseteq BOOLEAN
  /\ {verify, reown, cleanup, compare} \subseteq JobStates
  /\ lastLow \in BOOLEAN /\ edits \in Nat /\ aborts \in Nat

\* CutoverCompleted True is the signal to point applications at the target: the
\* drain is proven and the handover, when asked for, finished (follow.go:272;
\* conditions.md:86).
CutoverProven ==
  mig.cond.cutover = "true" => drained /\ (Handover => reown = "ok")

\* The same, of the step that sets it: no proof older than the endpos it is for.
CutoverProvenWhenSet ==
  [][mig.cond.cutover # "true" /\ mig'.cond.cutover = "true" => drained]_vars

\* Behind a finished copy the slot is what every later change is recovered from: it
\* goes only once the target is drained and handed over, wherever a pass was cut, and a
\* start-over drops only the slot of a copy that never finished (follow.go:228,
\* resources.go:142).
SlotKeptUntilProven ==
  copy.done /\ ~slot => drained /\ (Handover => reown = "ok")

\* "The replication slot is kept so the data is recoverable": a refuted drain
\* never reports over a slot already dropped (follow.go:260).
RefutedKeepsSlot == mig.cond.cutover = "refuted" => slot

\* Restarting pgcopydb when only the finish path remains would put a second writer
\* on the target (migration_controller.go:843).
NoWorkerAfterCutover == mig.cond.cutover = "true" => ~Live

\* A refused marker is lifted only by a sample that owes nothing
\* (migration_controller.go:626).
RefusalLatches ==
  [][mig.cond.clone = "refused" /\ mig'.cond.clone = "done" => copy.loaded]_vars

\* While the worker runs, CloneCompleted True means rows in every table
\* (conditions.md:111).
CopyConfirmed == mig.cond.clone = "done" /\ Live => copy.loaded

\* The stream is frozen only after two samples of the running worker measured a
\* low lag (follow.go:173).
CutoverMeasured == pass.step = "endpos" => pass.read = "low" /\ lastLow

\* A refused marker at the finish: "the verify Job decides by content"
\* (follow.go:232).
RefusedDecidedByContent ==
  mig.cond.cutover = "true" /\ mig.cond.clone = "refused" => copy.loaded

\* What CutoverContract sees of the worker and of the verify Job.
Phase == CASE Working -> "streaming" [] worker.state = "ok" -> "ended" [] OTHER -> "idle"
Proof == CASE verify = "ok" -> "proved" [] verify = "failed" -> "refuted" [] OTHER -> "none"

\* The order of a cutover, from the stream to the report, is the one CutoverContract
\* promises: no worker after an exit 0, no start-over of a finished copy, one judgement,
\* ownership on a proven drain, the slot after both, and no report before what it tells
\* (follow.go:228, follow.go:272, resources.go:142).
Contract == INSTANCE CutoverContract WITH
  worker <- Phase, copied <- copy.done, proof <- Proof, handed <- (Handover => reown = "ok"), told <- mig.cond.cutover
KeepsContract == Contract!Spec

\* Exit 0 leads to a verdict, unless a suspend parks the Migration.
FinishEnds == worker.state = "ok" ~> (Terminal(mig) \/ mig.suspend)

=============================================================================
