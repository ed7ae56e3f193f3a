------------------------- MODULE MigrationAttempts -------------------------
(***************************************************************************)
(* The retry engine of the Migration controller                            *)
(* (internal/controller/migration_controller.go, retry_gate.go,            *)
(* retry_gate_budget.go) for one Migration: how attempts are started,      *)
(* recorded, observed, failed, exempted from the budget, suspended and     *)
(* retried, against a cluster whose Jobs and pods move on their own.       *)
(*                                                                         *)
(* controller-runtime runs at most one pass per key, but a pass reads the  *)
(* Migration from an informer cache that may be behind the API server, it  *)
(* may end between any two of its API calls (a crash, or an error that is  *)
(* returned), and users, Jobs and pods act in between.  A pass is          *)
(* therefore the record `pass`: its next step, the working copy m, the     *)
(* copy base it diffs against, and whether base is still the newest        *)
(* version (its resourceVersion matches).                                  *)
(*                                                                         *)
(* Status writes come in two kinds.  updateStatus is a merge patch without *)
(* a resourceVersion: every field that m changed against base is written   *)
(* over whatever the server holds, the condition list as a whole.          *)
(* patchStatusLocked carries the resourceVersion and conflicts when base   *)
(* is not the newest version.                                              *)
(*                                                                         *)
(* Abstractions.  Time is reduced to what is decided by it: a failure is   *)
(* recent or past verdictDeadline, a probe's completion is fresh or past   *)
(* gatePassFreshness.  The probe's inputs are spec.target.synchronousCommit*)
(* alone.  The finish path after a worker's exit 0 is one choice of        *)
(* outcome per pass.  Rehearsals, deletion and the follow stream belong to *)
(* other modules.                                                          *)
(***************************************************************************)
EXTENDS Integers, Sequences, FiniteSets

CONSTANTS
  BackoffLimit,   \* spec.backoffLimit
  MaxExempt,      \* bound: censuses that find a waiting commit
  MaxEdits,       \* bound: changes of spec.suspend and synchronousCommit
  MaxAborts,      \* bound: passes that end between two API calls
  MaxVanish,      \* bound: worker Jobs that the TTL or a person deletes
  JobCacheLags,   \* may the Job and pod informers miss a worker just created?
  ProbesOutrun,   \* may they miss it for as long as a probe pod takes to schedule and run?
  LogsCanVanish   \* may a failed worker's log become unreadable past failedLogGrace?

ASSUME BackoffAssumption == BackoffLimit \in Nat
ASSUME BoundsAssumption ==
  MaxExempt \in Nat /\ MaxEdits \in Nat /\ MaxAborts \in Nat /\ MaxVanish \in Nat
ASSUME LagAssumption == {JobCacheLags, ProbesOutrun, LogsCanVanish} \subseteq BOOLEAN

VARIABLES
  mig,        \* the Migration on the API server: mutable spec and status
  cache,      \* the informer's copy of it
  fresh,      \* the informer holds the newest version
  pass,       \* the reconcile pass under way
  jobs,       \* jobs[n] is the worker Job of attempt n
  pods,       \* attempts whose worker Job has a pod that has not ended
  orphans,    \* pods that have not ended and whose Job was deleted under them
  unseen,     \* attempts whose worker Job and pod the informers do not show yet
  failures,   \* attempts whose Job failed (their failedAt exists)
  overdue,    \* those that failed at least verdictDeadline ago
  probes,     \* the gate probe Jobs
  preflight,  \* the preflight Job
  finish,     \* how far the Jobs of the finish path are
  edits, aborts, vanishes

apiVars == <<mig, cache, fresh>>
clusterVars == <<jobs, pods, orphans, unseen, failures, overdue>>
gateVars == <<probes, preflight, finish>>
jobVars == <<clusterVars, gateVars>>
bounds == <<edits, aborts, vanishes>>
vars == <<apiVars, pass, jobVars, bounds>>

-----------------------------------------------------------------------------
(* The Migration. *)

Verdicts == {"", "Counted", "Exempt"}
Gates == [attempt: Nat, verdict: Verdicts]
NoGate == [attempt |-> 0, verdict |-> ""]

\* The reasons of CloneCompleted that control reads; "done" is its True.
CloneStates == {"none", "running", "copying", "SnapshotLost", "CloneFailed", "CloneIncomplete", "done"}
Conditions == [clone: CloneStates, held: BOOLEAN, failed: BOOLEAN, complete: BOOLEAN]
Phases == {"Pending", "Validating", "Cloning", "Finalizing", "Suspended", "Failed", "Completed"}

Migrations ==
  [suspend: BOOLEAN, local: BOOLEAN, attempts: Nat, exempt: Nat, job: Nat,
   gate: Gates, cond: Conditions, phase: Phases]

Terminal(m) == m.cond.failed \/ m.cond.complete

\* updateStatus: JSON merge patch of m against base, applied to cur.  A field is
\* written when m changed it; retryGate is merged by its own fields.
Written(old, new, now) == IF new = old THEN now ELSE new
MergeGate(cur, base, gate) ==
  IF gate = NoGate THEN Written(base, gate, cur)
  ELSE [attempt |-> Written(base.attempt, gate.attempt, cur.attempt),
        verdict |-> Written(base.verdict, gate.verdict, cur.verdict)]
Merge(cur, base, m) ==
  [cur EXCEPT
     !.attempts = Written(base.attempts, m.attempts, @),
     !.exempt   = Written(base.exempt, m.exempt, @),
     !.job      = Written(base.job, m.job, @),
     !.gate     = MergeGate(@, base.gate, m.gate),
     !.cond     = Written(base.cond, m.cond, @),
     !.phase    = Written(base.phase, m.phase, @)]

OnFailurePath(m) == m.gate # NoGate /\ m.gate.attempt = m.attempts
\* Faulty variant: a failure that has its verdict is decided again.
DecidesAgain(m) == OnFailurePath(m)
Undecided(m) == OnFailurePath(m) /\ m.gate.verdict = ""
\* Faulty variant: one counted attempt too many.
OneTooMany(m) == m.attempts - m.exempt > BackoffLimit + 1
BudgetSpent(m) == m.attempts - m.exempt >= BackoffLimit + 1

EndHold(m) == [m EXCEPT !.cond.held = FALSE]
SetHold(m) == [m EXCEPT !.cond.held = TRUE,
                        !.phase = IF @ = "Suspended" /\ ~m.suspend THEN "Cloning" ELSE @]
\* Faulty variant: the reason is stored as the phase.
ReasonAsPhase(m) == [EndHold(m) EXCEPT !.cond.failed = TRUE, !.phase = "BackoffLimitExceeded"]
Fail(m) == [EndHold(m) EXCEPT !.cond.failed = TRUE, !.phase = "Failed"]
FailBudget(m) == Fail([m EXCEPT !.cond.clone = IF m.gate # NoGate THEN "CloneFailed" ELSE @])

-----------------------------------------------------------------------------
(* Jobs and pods. *)

Failed == {"error", "denied", "lost"}
JobStates == {"running", "ok", "deleting", "gone"} \cup Failed
Exists(n) == n \in DOMAIN jobs /\ jobs[n] # "gone"
Visible(n) == Exists(n) /\ n \notin unseen       \* the cached Get finds it

\* The Migration's copies had the attempt on record when the Job was deleted, or not.
Orphans == [attempt: Nat, nth: Nat, known: BOOLEAN]
OrphansOf(n) == {o \in orphans : o.attempt = n}

ProbeStates == {"running", "deleting", "pass", "blind", "noCensus", "counted", "exempt"}
Probes == [attempt: Nat, local: BOOLEAN, state: ProbeStates, stale: BOOLEAN]
Completed == {"pass", "blind"}                   \* Jobs that exited 0

\* Faulty variant: the pod of the wrong attempt is looked up.
PodOfOther(m) == m.attempts + 1 \in pods \ unseen

\* previousWorkerPod: the previous attempt's pod, as the pod informer shows it.
PreviousWorkerPod(m) == m.attempts \in pods \ unseen \/ OrphansOf(m.attempts) # {}

\* Faulty variant: the deadline waits for the pod.
OverdueBehindPod(m) == Undecided(m) /\ m.gate.attempt \in overdue /\ ~PreviousWorkerPod(m)
VerdictOverdue(m) == Undecided(m) /\ m.gate.attempt \in overdue

\* A delete request with background propagation: the Job is gone at once.
WithoutProbe(n) == {p \in probes : p.attempt # n}
-----------------------------------------------------------------------------
(* Passes. *)

PassSteps == {"idle", "patch", "observe", "strays", "decide", "pods", "judged",
              "settle", "create", "record", "drop"}
Passes == [step: PassSteps, m: Migrations, base: Migrations, current: BOOLEAN,
           verdict: Verdicts, then: PassSteps]

NewMigration(local) ==
  [suspend |-> FALSE, local |-> local, attempts |-> 0, exempt |-> 0, job |-> 0, gate |-> NoGate,
   cond |-> [clone |-> "none", held |-> FALSE, failed |-> FALSE, complete |-> FALSE],
   phase |-> "Pending"]

Idle == [step |-> "idle", m |-> NewMigration(FALSE), base |-> NewMigration(FALSE),
         current |-> FALSE, verdict |-> "", then |-> "idle"]

\* A pass begins on the cached copy, works it into m and goes on at step.
Begin(step, m) ==
  pass' = [Idle EXCEPT !.step = step, !.m = m, !.base = cache, !.current = fresh]
GoOn(step, m) == pass' = [pass EXCEPT !.step = step, !.m = m]

\* The server now holds new; a reader of the old version is behind if it differs.
Store(new) == /\ mig' = new
              /\ fresh' = (fresh /\ new = mig)
              /\ UNCHANGED cache

\* Faulty variant: the patch carries no resourceVersion.
WithoutLock(m, step) ==
  /\ Store(Merge(mig, pass.base, m))
  /\ pass' = IF step = "idle" THEN Idle ELSE [pass EXCEPT !.step = step, !.m = m, !.base = m]

\* patchStatusLocked: only against the newest version; base then follows the write.
LockedPatch(m, step) ==
  IF pass.current
  THEN /\ Store(Merge(mig, pass.base, m))
       /\ pass' = IF step = "idle" THEN Idle
                  ELSE [pass EXCEPT !.step = step, !.m = m, !.base = m]
  ELSE pass' = Idle /\ UNCHANGED apiVars
-----------------------------------------------------------------------------
(* What a pass does with the Migration it read. *)

\* Faulty variant: a suspend leaves the worker Job.
ForgetsWorker ==
  /\ cache.suspend
  /\ preflight' = IF cache.attempts = 0 THEN "none" ELSE preflight
  /\ probes' = WithoutProbe(cache.attempts + 1)
  /\ Begin("patch", [EndHold(cache) EXCEPT !.job = 0, !.phase = "Suspended"])
  /\ UNCHANGED <<clusterVars, finish>>

\* reconcileSuspended: every delete, then the status write.
SuspendPass ==
  /\ cache.suspend
  /\ jobs' = IF cache.job # 0 /\ Visible(cache.job)
             THEN [jobs EXCEPT ![cache.job] = "deleting"] ELSE jobs
  /\ preflight' = IF cache.attempts = 0 THEN "none" ELSE preflight
  /\ probes' = WithoutProbe(cache.attempts + 1)
  /\ Begin("patch", [EndHold(cache) EXCEPT !.job = 0, !.phase = "Suspended"])
  /\ UNCHANGED <<pods, orphans, unseen, failures, overdue, finish>>

\* preflightGate before the first attempt: ensurePreflight creates the Job or reads it.
PreflightPass ==
  /\ ~cache.suspend /\ cache.attempts = 0 /\ preflight # "passed"
  /\ IF preflight = "failed" THEN Begin("patch", Fail(cache))
     ELSE Begin("patch", [cache EXCEPT !.phase = "Validating"])
  /\ preflight' = IF preflight = "none" THEN "running" ELSE preflight
  /\ UNCHANGED <<clusterVars, probes, finish>>

Validated == ~cache.suspend /\ (cache.attempts > 0 \/ preflight = "passed")

\* finishClone as far as its Jobs are: the catalog check (created by the first
\* pass) may find tables owed, the handover and the compares follow, then Complete.
FinishClone ==
  LET done == [cache EXCEPT !.cond.clone = "done"] IN
  /\ \/ finish \in {"none", "catalog"} /\ Begin("patch", cache)
     \/ finish = "owed" /\ Begin("patch", Fail([cache EXCEPT !.cond.clone = "CloneIncomplete"]))
     \/ finish = "tail" /\ Begin("patch", [done EXCEPT !.phase = "Finalizing"])
     \/ finish = "done" /\ Begin("patch", [done EXCEPT !.phase = "Completed", !.cond.complete = TRUE])
  /\ finish' = IF finish = "none" THEN "catalog" ELSE finish
  /\ UNCHANGED <<clusterVars, probes, preflight>>

\* startAttempt up to its first write: an uncached Get of the next worker, the
\* budget, then the gate (whose overdue verdict comes before the pod check).
StartAttempt ==
  LET attempt == cache.attempts + 1
      unrecorded == attempt > 1 /\ Exists(attempt)
      spent == ~Undecided(cache) /\ BudgetSpent(cache)
  IN
  /\ \/ unrecorded /\ Begin("record", cache)
     \/ ~unrecorded /\ spent /\ Begin("patch", FailBudget(cache))
     \/ ~unrecorded /\ ~spent /\ attempt = 1 /\ Begin("create", cache)
     \/ /\ ~unrecorded /\ ~spent /\ attempt > 1 /\ VerdictOverdue(cache)
        /\ pass' = [Idle EXCEPT !.step = "decide", !.m = cache, !.base = cache,
                      !.current = fresh, !.verdict = "Counted", !.then = "pods"]
     \/ ~unrecorded /\ ~spent /\ attempt > 1 /\ ~VerdictOverdue(cache) /\ Begin("pods", cache)
  /\ UNCHANGED jobVars

NextAttempt ==
  /\ Validated
  /\ cache.job = 0 \/ ~Visible(cache.job)
  /\ IF cache.cond.clone = "done" THEN FinishClone ELSE StartAttempt

WorkerSucceeded == Validated /\ Visible(cache.job) /\ jobs[cache.job] = "ok" /\ FinishClone

\* handleFailedJob: a terminal cause in the log fails the Migration; otherwise
\* the failure is recorded and the retry gate takes over.  An unreadable log
\* classifies nothing.
HandleFailedJob ==
  /\ Validated /\ Visible(cache.job) /\ jobs[cache.job] \in Failed
  /\ \E cause \in {jobs[cache.job]} \cup (IF LogsCanVanish THEN {"error"} ELSE {}) :
       IF cause = "denied" THEN Begin("patch", Fail([cache EXCEPT !.cond.clone = "CloneFailed"]))
       ELSE Begin("patch",
              [SetHold(cache) EXCEPT
                 !.job = 0,
                 !.gate = [attempt |-> cache.attempts, verdict |-> ""],
                 !.cond.clone = IF cause = "lost" THEN "SnapshotLost" ELSE @])
  /\ UNCHANGED jobVars

\* observeRunningJob: the sample may latch CopyingData; a hold ends.
ObserveRunningJob ==
  /\ Validated /\ Visible(cache.job) /\ jobs[cache.job] \in {"running", "deleting"}
  /\ \E clone \in {cache.cond.clone} \cup (IF cache.cond.clone = "running" THEN {"copying"} ELSE {}) :
       Begin("observe", [EndHold(cache) EXCEPT !.cond.clone = clone])
  /\ UNCHANGED jobVars

Reconcile ==
  /\ pass.step = "idle" /\ ~Terminal(cache)
  /\ \/ SuspendPass \/ PreflightPass \/ NextAttempt
     \/ WorkerSucceeded \/ HandleFailedJob \/ ObserveRunningJob
  /\ UNCHANGED <<apiVars, bounds>>

-----------------------------------------------------------------------------
(* The later steps of a pass. *)

\* The status write that ends a pass, and the one of an observing pass.
UpdateStatus ==
  /\ pass.step \in {"patch", "observe"}
  /\ Store(Merge(mig, pass.base, pass.m))
  /\ pass' = IF pass.step = "patch" THEN Idle ELSE [pass EXCEPT !.step = "strays"]
  /\ UNCHANGED <<jobVars, bounds>>

DeleteStrayProbes ==
  /\ pass.step = "strays"
  /\ probes' = {}
  /\ pass' = Idle
  /\ UNCHANGED <<apiVars, clusterVars, preflight, finish, bounds>>

\* decide: the verdict, the refund, and the failure of a spent budget in one locked patch.
Decide ==
  /\ pass.step = "decide"
  /\ LET m == [pass.m EXCEPT !.gate.verdict = pass.verdict,
                             !.exempt = IF pass.verdict = "Exempt" THEN @ + 1 ELSE @]
         spent == pass.verdict = "Counted" /\ BudgetSpent(pass.m)
     IN IF spent THEN LockedPatch(FailBudget(m), "idle") ELSE LockedPatch(m, pass.then)
  /\ UNCHANGED <<jobVars, bounds>>

Hold(m) == GoOn("patch", SetHold(m))

\* The rest of retryGate and judgeProbe up to the verdict.
RetryGate ==
  /\ pass.step = "pods"
  /\ LET m == pass.m
         attempt == m.attempts + 1
         probe == {p \in probes : p.attempt = attempt}
         new == [attempt |-> attempt, local |-> m.local, state |-> "running", stale |-> FALSE]
     IN \/ /\ PreviousWorkerPod(m)
           /\ Hold(m) /\ UNCHANGED probes
        \/ /\ ~PreviousWorkerPod(m)
           /\ probe = {}
           /\ probes' = probes \cup {new} /\ Hold(m)
        \/ /\ ~PreviousWorkerPod(m)
           /\ \E p \in probe :
                \/ /\ p.state \in {"running", "deleting"}
                   /\ Hold(m) /\ UNCHANGED probes
                \/ /\ p.state \in Completed /\ (p.local # m.local \/ p.stale)
                   /\ probes' = WithoutProbe(attempt) /\ Hold(m)
                \/ /\ p.state = "pass" /\ p.local = m.local /\ ~p.stale
                   /\ GoOn("settle", m) /\ UNCHANGED probes
                \/ /\ p.state \in {"counted", "exempt"} /\ Undecided(m)
                   /\ pass' = [pass EXCEPT !.step = "decide", !.then = "judged",
                                 !.verdict = IF p.state = "exempt" THEN "Exempt" ELSE "Counted"]
                   /\ UNCHANGED probes
                \/ /\ \/ p.state = "blind" /\ p.local = m.local /\ ~p.stale
                      \/ p.state = "noCensus"
                      \/ p.state \in {"counted", "exempt"} /\ ~Undecided(m)
                   /\ GoOn("judged", m) /\ UNCHANGED probes
  /\ UNCHANGED <<apiVars, clusterVars, preflight, finish, bounds>>

\* The rest of judgeProbe: a probe from other inputs is deleted, a failed one is
\* kept for retryGateInterval, to pace the loop, and deleted after it.
JudgeProbe ==
  /\ pass.step = "judged"
  /\ LET kept(p) == p.attempt # pass.m.attempts + 1 \/ (p.local = pass.m.local /\ ~p.stale)
     IN probes' = {p \in probes : kept(p)}
  /\ Hold(pass.m)
  /\ UNCHANGED <<apiVars, clusterVars, preflight, finish, bounds>>

\* settleBudget: the locked patch that must land before a worker starts.
SettleBudget ==
  /\ pass.step = "settle"
  /\ LET m == [pass.m EXCEPT !.gate.verdict = IF Undecided(pass.m) THEN "Counted" ELSE @]
     IN IF BudgetSpent(m) THEN LockedPatch(FailBudget(m), "idle") ELSE LockedPatch(m, "create")
  /\ UNCHANGED <<jobVars, bounds>>

\* Create of the worker Job; AlreadyExists counts as created.  Nothing waits for the pod
\* of a Job of this name that was deleted.
CreateWorker ==
  /\ pass.step = "create"
  /\ LET attempt == pass.m.attempts + 1 IN
     IF Exists(attempt) THEN UNCHANGED clusterVars
     ELSE /\ jobs' = [n \in DOMAIN jobs \cup {attempt} |-> IF n = attempt THEN "running" ELSE jobs[n]]
          /\ pods' = pods \cup {attempt}
          /\ unseen' = IF JobCacheLags THEN unseen \cup {attempt} ELSE unseen
          /\ UNCHANGED <<orphans, failures, overdue>>
  /\ GoOn("record", pass.m)
  /\ UNCHANGED <<apiVars, gateVars, bounds>>

\* Faulty variant: the worker Job is not named in the status.
ForgetsJobName(m) ==
  LET ran == [m EXCEPT !.attempts = @ + 1, !.phase = "Cloning",
                       !.cond.clone = IF @ = "done" THEN "done" ELSE "running"]
  IN IF m.attempts > 0 THEN [EndHold(ran) EXCEPT !.gate = NoGate] ELSE ran

Recorded(m) ==
  LET ran == [m EXCEPT !.attempts = @ + 1, !.job = m.attempts + 1, !.phase = "Cloning",
                       !.cond.clone = IF @ = "done" THEN "done" ELSE "running"]
  IN IF m.attempts > 0 THEN [EndHold(ran) EXCEPT !.gate = NoGate] ELSE ran

RecordAttempt ==
  /\ pass.step = "record"
  /\ LET m == Recorded(pass.m) IN
     /\ Store(Merge(mig, pass.base, m))
     /\ IF m.attempts > 1 THEN GoOn("drop", m) ELSE pass' = Idle
  /\ UNCHANGED <<jobVars, bounds>>

\* deleteGateJob of the attempt just recorded.
DropProbe ==
  /\ pass.step = "drop"
  /\ probes' = WithoutProbe(pass.m.attempts)
  /\ pass' = Idle
  /\ UNCHANGED <<apiVars, clusterVars, preflight, finish, bounds>>

\* The replica crashes, or an API call returns an error: the pass ends here.
Abort ==
  /\ pass.step # "idle" /\ aborts < MaxAborts
  /\ aborts' = aborts + 1
  /\ pass' = Idle
  /\ UNCHANGED <<apiVars, jobVars, edits, vanishes>>

-----------------------------------------------------------------------------
(* Everyone else: informers, users, the Job controller, the probe pod, time. *)

CacheSync ==
  /\ ~fresh
  /\ cache' = mig /\ fresh' = TRUE
  /\ UNCHANGED <<mig, pass, jobVars, bounds>>

JobSync ==
  /\ unseen # {}
  /\ unseen' = {}
  /\ UNCHANGED <<apiVars, pass, jobs, pods, orphans, failures, overdue, gateVars, bounds>>

\* spec.suspend flips, or spec.target.synchronousCommit, the other mutable input.
EditSpec ==
  /\ edits < MaxEdits /\ ~Terminal(mig)
  /\ edits' = edits + 1
  /\ \/ mig' = [mig EXCEPT !.suspend = ~@]
     \/ mig' = [mig EXCEPT !.local = ~@]
  /\ fresh' = FALSE
  /\ pass' = [pass EXCEPT !.current = FALSE]
  /\ UNCHANGED <<cache, jobVars, aborts, vanishes>>

PreflightFinishes ==
  /\ preflight = "running"
  /\ preflight' \in {"passed", "failed"}
  /\ UNCHANGED <<apiVars, pass, clusterVars, probes, finish, bounds>>

\* The Jobs of the finish path end one after the other.
FinishMoves ==
  /\ \/ finish = "catalog" /\ finish' \in {"owed", "tail"}
     \/ finish = "tail" /\ finish' = "done"
  /\ UNCHANGED <<apiVars, pass, clusterVars, probes, preflight, bounds>>

\* The worker's pod ends and the Job controller records it.  A Job whose node was
\* lost fails while its pod still counts as running.
WorkerExits(n) ==
  /\ n \in DOMAIN jobs /\ n \in pods /\ jobs[n] = "running"
  /\ \E end \in {"ok"} \cup Failed :
       /\ jobs' = [jobs EXCEPT ![n] = end]
       /\ failures' = IF end \in Failed THEN failures \cup {n} ELSE failures
       /\ \/ pods' = pods \ {n}
          \/ end \in Failed /\ pods' = pods
  /\ UNCHANGED <<apiVars, pass, orphans, unseen, overdue, gateVars, bounds>>

\* A pod whose Job is failed, deleted or being deleted ends.
PodEnds(n) ==
  /\ n \in pods /\ jobs[n] # "running"
  /\ pods' = pods \ {n}
  /\ UNCHANGED <<apiVars, pass, jobs, orphans, unseen, failures, overdue, gateVars, bounds>>

OrphanEnds ==
  /\ \E o \in orphans : orphans' = orphans \ {o}
  /\ UNCHANGED <<apiVars, pass, jobs, pods, unseen, failures, overdue, gateVars, bounds>>

\* Foreground deletion: the Job object goes after its pod.
JobCollected(n) ==
  /\ n \in DOMAIN jobs \ pods /\ jobs[n] = "deleting"
  /\ jobs' = [jobs EXCEPT ![n] = "gone"]
  /\ UNCHANGED <<apiVars, pass, pods, orphans, unseen, failures, overdue, gateVars, bounds>>

\* Every copy of the Migration that a pass works from has attempt n on record.
Known(n) == n <= cache.attempts /\ (pass.step # "idle" => n <= pass.base.attempts)

\* The TTL takes a finished Job, or a person deletes one, and its pod ends after it.
JobVanishes(n) ==
  /\ vanishes < MaxVanish /\ n \in DOMAIN jobs \ unseen
  /\ jobs[n] \in {"running", "ok"} \cup Failed
  /\ jobs' = [jobs EXCEPT ![n] = "gone"]
  /\ pods' = pods \ {n}
  /\ orphans' = orphans \cup {[attempt |-> k, nth |-> vanishes, known |-> Known(n)] : k \in pods \cap {n}}
  /\ vanishes' = vanishes + 1
  /\ UNCHANGED <<apiVars, pass, unseen, failures, overdue, gateVars, edits, aborts>>

\* Unless ProbesOutrun, informers lag, but not for as long as a probe pod takes.
\* "exempt" is a census with a named SyncRep wait that began syncRepThreshold
\* before the failure; "blind" an exit 0 whose log cannot be read.
ProbeFinishes ==
  /\ ProbesOutrun \/ unseen = {}
  /\ \E p \in probes : \E result \in ProbeStates \ {"running", "deleting"} :
       /\ p.state = "running"
       /\ result = "exempt" =>
            mig.exempt + Cardinality({q \in probes : q.state = "exempt"}) < MaxExempt
       /\ probes' = (probes \ {p}) \cup {[p EXCEPT !.state = result]}
  /\ UNCHANGED <<apiVars, pass, clusterVars, preflight, finish, bounds>>

\* A finished probe gets old: past gatePassFreshness when it completed, past
\* retryGateInterval when it failed.
ProbeAges ==
  /\ \E p \in probes : /\ p.state \notin {"running", "deleting"} /\ ~p.stale
                       /\ probes' = (probes \ {p}) \cup {[p EXCEPT !.stale = TRUE]}
  /\ UNCHANGED <<apiVars, pass, clusterVars, preflight, finish, bounds>>

\* gateProbeTTL collects a finished probe, in the foreground.
ProbeCollected ==
  /\ \E p \in probes :
       \/ /\ p.state \notin {"running", "deleting"}
          /\ probes' = (probes \ {p}) \cup {[p EXCEPT !.state = "deleting"]}
       \/ p.state = "deleting" /\ probes' = probes \ {p}
  /\ UNCHANGED <<apiVars, pass, clusterVars, preflight, finish, bounds>>

DeadlinePasses ==
  /\ overdue # failures
  /\ overdue' = failures
  /\ UNCHANGED <<apiVars, pass, jobs, pods, orphans, unseen, failures, gateVars, bounds>>

-----------------------------------------------------------------------------
Init ==
  /\ mig = NewMigration(FALSE)      \* local is only compared: its first value is immaterial
  /\ cache = mig /\ fresh = TRUE
  /\ pass = Idle
  /\ jobs = <<>> /\ pods = {} /\ orphans = {} /\ unseen = {} /\ failures = {} /\ overdue = {}
  /\ probes = {} /\ preflight = "none" /\ finish = "none"
  /\ edits = 0 /\ aborts = 0 /\ vanishes = 0

PassStep ==
  \/ UpdateStatus \/ DeleteStrayProbes \/ Decide \/ RetryGate \/ JudgeProbe
  \/ SettleBudget \/ CreateWorker \/ RecordAttempt \/ DropProbe

Cluster ==
  \/ PreflightFinishes \/ FinishMoves \/ ProbeFinishes \/ ProbeAges \/ ProbeCollected
  \/ DeadlinePasses \/ OrphanEnds
  \/ \E n \in DOMAIN jobs : WorkerExits(n) \/ PodEnds(n) \/ JobCollected(n) \/ JobVanishes(n)

Next == Reconcile \/ PassStep \/ Abort \/ CacheSync \/ JobSync \/ EditSpec \/ Cluster

Spec == Init /\ [][Next]_vars

\* The work queue keeps delivering the key and a pass goes on; the informers and
\* the clock move.  No worker, pod or probe is assumed to end.
FairSpec ==
  /\ Spec
  /\ WF_vars(Reconcile) /\ WF_vars(PassStep)
  /\ WF_vars(CacheSync) /\ WF_vars(JobSync) /\ WF_vars(DeadlinePasses)
-----------------------------------------------------------------------------
(* What must hold. *)

ApiTypeOK == mig \in Migrations /\ cache \in Migrations /\ fresh \in BOOLEAN
WorkersTypeOK ==
  /\ DOMAIN jobs \subseteq Nat /\ \A n \in DOMAIN jobs : jobs[n] \in JobStates
  /\ pods \subseteq DOMAIN jobs /\ unseen \subseteq DOMAIN jobs /\ orphans \subseteq Orphans
  /\ failures \subseteq DOMAIN jobs /\ overdue \subseteq failures
GateTypeOK ==
  /\ probes \subseteq Probes
  /\ preflight \in {"none", "running", "passed", "failed"}
  /\ finish \in {"none", "catalog", "owed", "tail", "done"}
BoundsTypeOK == edits \in Nat /\ aborts \in Nat /\ vanishes \in Nat

\* Every variable keeps its type; the gate record, the conditions and the phase
\* take only values the API accepts (api/v1beta1/migration_types.go).
TypeOK == ApiTypeOK /\ pass \in Passes /\ WorkersTypeOK /\ GateTypeOK /\ BoundsTypeOK

\* One worker pod at a time writes to the target, however far the Migration's copies are
\* behind and wherever a pass was cut (retry_gate.go:44, "a stale read could start a second
\* worker"; migration_controller.go:881).  Only the pod that a deleted Job leaves may end
\* beside a worker: one of its own attempt, which some copy in use had not on record yet.
OneWorker ==
  /\ Cardinality(pods) <= 1
  /\ \A o \in orphans : pods \subseteq {o.attempt} /\ (o.known => pods = {})
  /\ \A o, p \in orphans : o.attempt = p.attempt

\* No attempt is ever created beyond backoffLimit + 1 counted ones, counting with
\* the refunds the server holds (retry_gate_budget.go:44).
BudgetRespected == \A n \in DOMAIN jobs : n - mig.exempt <= BackoffLimit + 1

\* "Only a failed attempt can be exempt" (docs/operations/lifecycle.md:239), and
\* each at most once: refunds never outnumber failures (retry_gate.go:326).
RefundsAreFailures == mig.exempt <= Cardinality(failures)

\* A recorded verdict stands until its gate record goes: no pass decides the same
\* failure twice (retry_gate.go:326).
VerdictStands ==
  [][mig.gate.verdict # "" /\ mig'.gate.attempt = mig.gate.attempt
       => mig'.gate.verdict = mig.gate.verdict /\ mig'.exempt = mig.exempt]_vars

\* "Terminal states are absorbing: a finished migration is history, not a process to
\* restart" (migration_controller.go:212). An old copy that is written without the
\* lock breaks it.
TerminalAbsorbs == [][Terminal(mig) => Terminal(mig')]_vars

\* When the budget is settled and a worker may start, the inputs its probe was
\* judged by are the server's, and nobody has asked for a suspend: what the lock
\* of settleBudget is for (retry_gate.go:335).
StartsOnServerSpec ==
  [][pass.step = "settle" /\ pass'.step = "create"
       => pass.m.local = mig.local /\ ~mig.suspend /\ ~Terminal(mig)]_vars

\* A finished Migration leaves no worker running that its status counts: nobody would
\* ever look at it again (migration_controller.go:212).  It needs the Job informer to be
\* no further behind than a pass: see README.
TerminalHasNoWorker ==
  Terminal(mig) => \A n \in DOMAIN jobs : n <= mig.attempts => jobs[n] # "running"

\* How far the failure of the last recorded attempt is with the retry gate.
Notice ==
  IF ~OnFailurePath(mig) THEN "none" ELSE IF mig.gate.verdict = "" THEN "noted" ELSE "judged"

Contract == INSTANCE AttemptContract WITH
  Budget <- BackoffLimit + 1, workers <- pods, leftovers <- orphans, created <- DOMAIN jobs,
  failed <- failures, recorded <- mig.attempts, notice <- Notice, refunds <- mig.exempt

\* One worker at a time, within the budget and never past an undecided failure; attempts
\* recorded in order, each failure judged once (retry_gate.go:44, retry_gate.go:326).
KeepsContract == Contract!Spec

\* "When no census decides in the 15 minutes after the failure, the attempt
\* counts", even if the pod never ends and no probe ever finishes
\* (docs/operations/lifecycle.md:249, retry_gate.go:61).
VerdictArrives == Undecided(mig) ~> (~Undecided(mig) \/ mig.suspend)

\* "Suspended promises no further database writes" (migration_controller.go:811):
\* while spec.suspend stands, a worker does not keep running.
Working == \E n \in DOMAIN jobs : jobs[n] = "running"
SuspendStops == (mig.suspend /\ Working) ~> (~mig.suspend \/ ~Working)

=============================================================================
