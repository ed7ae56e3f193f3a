------------------------------- MODULE Rehearsal -------------------------------
(***************************************************************************)
(* The verification rehearsal of a live Migration (rehearsal.go): a full   *)
(* compare that runs beside the follow worker, on request and once per     *)
(* request, and must be gone before the worker it runs beside is followed  *)
(* by another one or by the drain verify of the cutover.                   *)
(*                                                                         *)
(* A pass reads the cached Migration, decides what it is about, cancels    *)
(* where the code does, acts, and ends with one status write.  It may end  *)
(* early between any two API calls, so a run may scan that no status names.*)
(* Jobs are read from a cache that lags; the pods of a run outlive its Job *)
(* and are listed from a cache taken to be current.                        *)
(*                                                                         *)
(* Abstractions.  The retry gate is its check for a rehearsal pod; the     *)
(* stage of a running worker advances as it likes; the finish path is the  *)
(* drain verify and what it decides.  Messages, times and the compare's    *)
(* progress samples are left out.                                          *)
(***************************************************************************)
EXTENDS Integers, FiniteSets

CONSTANTS
  Automatic,     \* is spec.cutover.mode Automatic, which an older CRD lets through?
  MaxRuns,       \* bound: runs that the requests can start
  MaxAttempts,   \* attempts the budget allows
  MaxEdits,      \* bound: edits of the spec
  MaxAborts      \* bound: passes that end between two API calls

ASSUME SwitchAssumption == Automatic \in BOOLEAN
ASSUME BoundsAssumption ==
  MaxRuns \in Nat \ {0} /\ MaxAttempts \in Nat \ {0} /\ MaxEdits \in Nat /\ MaxAborts \in Nat

VARIABLES
  mig,        \* the Migration on the API server
  cache,      \* the informer's copy
  pass,       \* the pass under way
  worker,     \* the newest worker Job
  started,    \* and its number
  jobs,       \* the rehearsal Job of each run
  pods,       \* has it a pod that has not ended?
  jobsSeen,   \* the Jobs as the cache shows them
  verify,     \* the drain verify Job
  verifyOf,   \* the worker it was created behind
  edits, aborts

runVars == <<jobs, pods, jobsSeen>>
workerVars == <<worker, started>>
verifyVars == <<verify, verifyOf>>
bounds == <<edits, aborts>>
vars == <<mig, cache, pass, workerVars, runVars, verifyVars, bounds>>

-----------------------------------------------------------------------------
(* The Migration, the Jobs and the pass. *)

RunIds == 1..MaxRuns
Stages == {"cloning", "streaming", "cutting"}
\* "ended" is Completed or Failed, as the Job says.
Outcomes == {"none", "running", "ended", "canceled"}
JobStates == {"none", "running", "done", "deleting"}

\* The spec's switches, then the status.  stage is the phase of a running worker;
\* proven is CutoverCompleted True.
Migrations ==
  [requested: BOOLEAN, suspend: BOOLEAN, valid: BOOLEAN,
   attempts: 0..MaxAttempts, worker: BOOLEAN, stage: Stages,
   armed: BOOLEAN, run: 0..MaxRuns, outcome: Outcomes,
   proven: BOOLEAN, failed: BOOLEAN, complete: BOOLEAN]

NewMigration ==
  [requested |-> FALSE, suspend |-> FALSE, valid |-> TRUE,
   attempts |-> 0, worker |-> FALSE, stage |-> "cloning",
   armed |-> FALSE, run |-> 0, outcome |-> "none",
   proven |-> FALSE, failed |-> FALSE, complete |-> FALSE]

Terminal(m) == m.failed \/ m.complete

\* updateStatus: the fields that m changed against base, the condition list as a whole,
\* over what cur holds.
Listed == {"proven", "failed", "complete"}
Merge(cur, base, m) ==
  LET rewritten == \E f \in Listed : m[f] # base[f]
  IN [f \in DOMAIN cur |-> IF m[f] = base[f] /\ ~(rewritten /\ f \in Listed) THEN cur[f] ELSE m[f]]

\* goal is what the pass is about, step the API call it makes next.
Goals == {"none", "end", "suspend", "next", "finish", "failed", "cut", "disarm", "start"}
Steps == {"idle", "cancel", "sweep", "act", "replace", "write"}
Idle == [step |-> "idle", goal |-> "none", m |-> NewMigration, base |-> NewMigration]
Passes == [step: Steps, goal: Goals, m: Migrations, base: Migrations]

Begin(step, goal, m) == pass' = [step |-> step, goal |-> goal, m |-> m, base |-> cache]
BeginCancel(goal, m) == Begin(IF m.outcome = "running" THEN "cancel" ELSE "sweep", goal, m)
Then(step, m) == pass' = [pass EXCEPT !.step = step, !.m = m]

-----------------------------------------------------------------------------
(* Reading and deleting rehearsal Jobs and pods. *)

\* Faulty variant: the cache is believed when it has no such Job.
CacheOnly(n) == jobsSeen[n]

\* rehearsalJob: only the API server can say that there is none.
RehearsalJob(n) == IF jobsSeen[n] # "none" THEN jobsSeen[n] ELSE jobs[n]

\* Foreground: the Job stays until its pod has ended.
Deleted(job) == IF job = "none" THEN "none" ELSE "deleting"

\* rehearsalPod: a pod of any run that has not ended.
RehearsalPod == \E n \in RunIds : pods[n]

-----------------------------------------------------------------------------
(* A pass: what it is about. *)

\* Faulty variant: armed is given up at once.
DisarmsAtOnce(m) == [m EXCEPT !.armed = FALSE]

\* Re-arming waits for the pod: two full scans at once otherwise.
Disarmed(m) == IF RehearsalPod THEN m ELSE [m EXCEPT !.armed = FALSE]

\* observeRehearsal: a Job that vanished is never created again.
Observed(m) ==
  LET job == RehearsalJob(m.run) IN
  IF m.outcome # "running" THEN m
  ELSE IF job \in {"none", "done"} THEN [m EXCEPT !.outcome = "ended"]
  ELSE m

\* reconcileRehearsal, for a worker that has reached m.stage.
ReconcileRehearsal(m) ==
  \/ /\ ~m.requested
     /\ IF m.armed THEN BeginCancel("disarm", m) ELSE Begin("write", "none", m)
  \/ m.requested /\ m.stage = "cutting" /\ BeginCancel("cut", m)
  \/ m.requested /\ m.stage # "cutting" /\ m.armed /\ Begin("write", "none", Observed(m))
  \/ /\ m.requested /\ m.stage # "cutting" /\ ~m.armed
     /\ IF m.stage = "streaming" /\ ~Automatic /\ m.run < MaxRuns
        THEN Begin(IF m.run = 0 THEN "act" ELSE "replace", "start", m)
        ELSE Begin("write", "none", m)

\* observeRunningJob: the copy is confirmed, or the cutover starts, in this pass.
NextStages(stage) ==
  CASE stage = "cloning" -> {"cloning", "streaming"}
    [] stage = "streaming" -> {"streaming", "cutting"}
    [] stage = "cutting" -> {"cutting"}

ObserveRunningJob ==
  \E stage \in NextStages(cache.stage) : ReconcileRehearsal([cache EXCEPT !.stage = stage])

\* Faulty variant: a terminal Migration is left alone.
TerminalLeftAlone == FALSE

\* The one thing a pass still does for a terminal Migration.
TerminalPass == cache.outcome = "running" /\ BeginCancel("end", cache)

Reconcile ==
  /\ pass.step = "idle"
  /\ \/ Terminal(cache) /\ TerminalPass
     \/ /\ ~Terminal(cache) /\ cache.suspend
        /\ BeginCancel("suspend", cache)
     \/ /\ ~Terminal(cache) /\ ~cache.suspend /\ ~cache.valid
        /\ Begin("write", "none", [cache EXCEPT !.failed = TRUE])
     \/ /\ ~Terminal(cache) /\ ~cache.suspend /\ cache.valid
        /\ \/ (~cache.worker \/ worker = "none") /\ BeginCancel("next", cache)
           \/ cache.worker /\ worker = "running" /\ ObserveRunningJob
           \/ cache.worker /\ worker = "ok" /\ BeginCancel("finish", [cache EXCEPT !.stage = "cutting"])
           \/ cache.worker /\ worker = "failed" /\ BeginCancel("failed", cache)
  /\ UNCHANGED <<mig, cache, workerVars, runVars, verifyVars, bounds>>

-----------------------------------------------------------------------------
(* Cancelling and starting a run. *)

\* cancelRecordedRehearsal: the run the status calls running ends as its Job says, or
\* canceled.
CancelRecorded ==
  /\ pass.step = "cancel"
  /\ LET m == pass.m
         job == RehearsalJob(m.run)
     IN IF job = "done" THEN Then("sweep", [m EXCEPT !.outcome = "ended"]) /\ UNCHANGED jobs
        ELSE /\ Then("sweep", [m EXCEPT !.outcome = "canceled"])
             /\ jobs' = IF job = "running" THEN [jobs EXCEPT ![m.run] = Deleted(@)] ELSE jobs
  /\ UNCHANGED <<mig, cache, workerVars, pods, jobsSeen, verifyVars, bounds>>

\* cancelRehearsal's list, which asks the API server: the runs no status names.
Swept == [n \in RunIds |-> IF jobs[n] = "running" THEN "deleting" ELSE jobs[n]]

SweepUnrecorded ==
  /\ pass.step = "sweep"
  /\ jobs' = Swept
  /\ Then(IF pass.goal \in {"end", "cut"} THEN "write" ELSE "act", pass.m)
  /\ UNCHANGED <<mig, cache, workerVars, pods, jobsSeen, verifyVars, bounds>>

\* startRehearsal: the run before this one goes first.
DeletePreviousRun ==
  /\ pass.step = "replace"
  /\ jobs' = [jobs EXCEPT ![pass.m.run] = Deleted(@)]
  /\ Then("act", pass.m)
  /\ UNCHANGED <<mig, cache, workerVars, pods, jobsSeen, verifyVars, bounds>>

\* A run that a cut pass started is adopted under its name.
StartRun ==
  /\ pass.step = "act" /\ pass.goal = "start"
  /\ LET n == pass.m.run + 1
         missing == jobsSeen[n] = "none" /\ jobs[n] = "none"
     IN /\ jobs' = IF missing THEN [jobs EXCEPT ![n] = "running"] ELSE jobs
        /\ Then("write", [pass.m EXCEPT !.armed = TRUE, !.run = n, !.outcome = "running"])
  /\ UNCHANGED <<mig, cache, workerVars, pods, jobsSeen, verifyVars, bounds>>

-----------------------------------------------------------------------------
(* What the pass does once the rehearsal is canceled. *)

\* reconcileSuspended, handleFailedJob, and the disarming of reconcileRehearsal.
ActOnWorker ==
  /\ pass.step = "act" /\ pass.goal \in {"suspend", "failed", "disarm"}
  /\ worker' = IF pass.goal = "suspend" /\ pass.m.worker THEN "none" ELSE worker
  /\ UNCHANGED started
  /\ Then("write", IF pass.goal = "disarm" THEN Disarmed(pass.m) ELSE [pass.m EXCEPT !.worker = FALSE])
  /\ UNCHANGED <<mig, cache, runVars, verifyVars, bounds>>

\* Faulty variant: a failed attempt is always followed by another.
NeverSpent(m) == FALSE

\* budgetSpent: the next attempt would be one too many.
BudgetSpent(m) == m.attempts >= MaxAttempts

\* nextAttempt: a worker that a cut pass created is recorded; else the budget, then the
\* retry gate, which waits for a rehearsal pod.
NextAttempt ==
  /\ pass.step = "act" /\ pass.goal = "next"
  /\ LET next == pass.m.attempts + 1
         begun == [pass.m EXCEPT !.attempts = next, !.worker = TRUE]
     IN \/ started = next /\ Then("write", begun) /\ UNCHANGED workerVars
        \/ /\ started # next /\ BudgetSpent(pass.m)
           /\ Then("write", [pass.m EXCEPT !.failed = TRUE]) /\ UNCHANGED workerVars
        \/ /\ started # next /\ ~BudgetSpent(pass.m) /\ next > 1 /\ RehearsalPod
           /\ Then("write", pass.m) /\ UNCHANGED workerVars
        \/ /\ started # next /\ ~BudgetSpent(pass.m) /\ ~(next > 1 /\ RehearsalPod)
           /\ worker' = "running" /\ started' = next
           /\ Then("write", begun)
  /\ UNCHANGED <<mig, cache, runVars, verifyVars, bounds>>

\* drainWaitsForRehearsal: once the drain is proven, a rehearsal pod holds nothing.
DrainWaits(m) == ~m.proven /\ RehearsalPod

\* finishFollow: the wait, the drain verify, and what is left after it.
FinishFollow ==
  /\ pass.step = "act" /\ pass.goal = "finish"
  /\ \/ /\ DrainWaits(pass.m) /\ UNCHANGED verifyVars
        /\ Then("write", pass.m)
     \/ /\ ~DrainWaits(pass.m) /\ verify = "none"
        /\ verify' = "running" /\ verifyOf' = started
        /\ Then("write", pass.m)
     \/ /\ ~DrainWaits(pass.m) /\ verify = "running" /\ UNCHANGED verifyVars
        /\ Then("write", pass.m)
     \/ /\ ~DrainWaits(pass.m) /\ verify = "failed" /\ UNCHANGED verifyVars
        /\ Then("write", [pass.m EXCEPT !.failed = TRUE])
     \/ /\ ~DrainWaits(pass.m) /\ verify = "ok" /\ UNCHANGED verifyVars
        /\ \E done \in BOOLEAN : Then("write", [pass.m EXCEPT !.proven = TRUE, !.complete = done])
  /\ UNCHANGED <<mig, cache, workerVars, runVars, bounds>>

UpdateStatus ==
  /\ pass.step = "write"
  /\ mig' = Merge(mig, pass.base, pass.m)
  /\ pass' = Idle
  /\ UNCHANGED <<cache, workerVars, runVars, verifyVars, bounds>>

\* The replica crashes, or an API call returns an error: the pass ends here.
Abort ==
  /\ pass.step # "idle" /\ aborts < MaxAborts
  /\ aborts' = aborts + 1
  /\ pass' = Idle
  /\ UNCHANGED <<mig, cache, workerVars, runVars, verifyVars, edits>>

-----------------------------------------------------------------------------
(* Everyone else: the caches, users, pgcopydb, the Job controller. *)

CacheSync ==
  /\ cache # mig /\ cache' = mig
  /\ UNCHANGED <<mig, pass, workerVars, runVars, verifyVars, bounds>>

JobCacheSync ==
  /\ jobsSeen # jobs /\ jobsSeen' = jobs
  /\ UNCHANGED <<mig, cache, pass, workerVars, jobs, pods, verifyVars, bounds>>

\* Users switch the rehearsal and the suspend; a spec that an older CRD let through
\* stops being valid.
Edit ==
  /\ edits < MaxEdits /\ edits' = edits + 1
  /\ \/ mig' = [mig EXCEPT !.requested = ~@]
     \/ mig' = [mig EXCEPT !.suspend = ~@]
     \/ mig.valid /\ mig' = [mig EXCEPT !.valid = FALSE]
  /\ UNCHANGED <<cache, pass, workerVars, runVars, verifyVars, aborts>>

WorkerExits ==
  /\ worker = "running" /\ worker' \in {"ok", "failed"} /\ UNCHANGED started
  /\ UNCHANGED <<mig, cache, pass, runVars, verifyVars, bounds>>

VerifyEnds ==
  /\ verify = "running" /\ verify' \in {"ok", "failed"} /\ UNCHANGED verifyOf
  /\ UNCHANGED <<mig, cache, pass, workerVars, runVars, bounds>>

PodStarts(n) ==
  /\ jobs[n] = "running" /\ ~pods[n]
  /\ pods' = [pods EXCEPT ![n] = TRUE]
  /\ UNCHANGED <<mig, cache, pass, workerVars, jobs, jobsSeen, verifyVars, bounds>>

RunEnds(n) ==
  /\ jobs[n] = "running" /\ pods[n]
  /\ pods' = [pods EXCEPT ![n] = FALSE]
  /\ jobs' = [jobs EXCEPT ![n] = "done"]
  /\ UNCHANGED <<mig, cache, pass, workerVars, jobsSeen, verifyVars, bounds>>

\* TERM reaches the pod of a Job that is going or gone; then the Job goes.
PodStops(n) ==
  /\ jobs[n] \in {"deleting", "none"} /\ pods[n]
  /\ pods' = [pods EXCEPT ![n] = FALSE]
  /\ UNCHANGED <<mig, cache, pass, workerVars, jobs, jobsSeen, verifyVars, bounds>>

JobGoes(n) ==
  /\ jobs[n] = "deleting" /\ ~pods[n]
  /\ jobs' = [jobs EXCEPT ![n] = "none"]
  /\ UNCHANGED <<mig, cache, pass, workerVars, pods, jobsSeen, verifyVars, bounds>>

-----------------------------------------------------------------------------
Init ==
  /\ \E asked \in BOOLEAN : mig = [NewMigration EXCEPT !.requested = asked]
  /\ cache = mig /\ pass = Idle
  /\ worker = "none" /\ started = 0 /\ verify = "none" /\ verifyOf = 0
  /\ jobs = [n \in RunIds |-> "none"] /\ jobsSeen = jobs
  /\ pods = [n \in RunIds |-> FALSE]
  /\ edits = 0 /\ aborts = 0

PassStep ==
  \/ CancelRecorded \/ SweepUnrecorded \/ DeletePreviousRun \/ StartRun
  \/ ActOnWorker \/ NextAttempt \/ FinishFollow \/ UpdateStatus

JobSteps(n) == PodStarts(n) \/ RunEnds(n) \/ PodStops(n) \/ JobGoes(n)

Next ==
  \/ Reconcile \/ PassStep \/ Abort
  \/ CacheSync \/ JobCacheSync
  \/ Edit \/ WorkerExits \/ VerifyEnds
  \/ \E n \in RunIds : JobSteps(n)

Spec == Init /\ [][Next]_vars

\* The work queue runs a pass again and again, the informers deliver every event, and
\* a Job ends: its compare does, or its pod after TERM.
FairSpec ==
  /\ Spec
  /\ WF_vars(Reconcile) /\ WF_vars(PassStep)
  /\ WF_vars(CacheSync) /\ WF_vars(JobCacheSync)
  /\ \A n \in RunIds : WF_vars(JobSteps(n))

-----------------------------------------------------------------------------
(* Properties. *)

\* Every variable has its type.
TypeOK ==
  /\ mig \in Migrations /\ cache \in Migrations /\ pass \in Passes
  /\ worker \in {"none", "running", "ok", "failed"}
  /\ jobs \in [RunIds -> JobStates] /\ jobsSeen \in [RunIds -> JobStates]
  /\ pods \in [RunIds -> BOOLEAN]
  /\ verify \in {"none", "running", "ok", "failed"}
  /\ started \in 0..MaxAttempts /\ verifyOf \in 0..MaxAttempts
  /\ edits \in 0..MaxEdits /\ aborts \in 0..MaxAborts

\* One full scan at a time: no two runs of the rehearsal, and no run beside the drain
\* verify of this worker, which decides how long writes stay stopped (rehearsal.go:72,
\* follow.go:238), not even a run that no status names because the write of its start
\* was lost.  The verify of an earlier worker may still run after a suspend.
ScansAlone ==
  LET draining == IF verify = "running" /\ verifyOf = started THEN 1 ELSE 0
  IN Cardinality({n \in RunIds : pods[n]}) + draining <= 1

\* A run the status calls ended does not scan on: its Job has finished or is being
\* deleted, although the cache that told the pass so may be behind (rehearsal.go:253).
EndedRunIsStopped ==
  mig.outcome \in {"ended", "canceled"} => jobs[mig.run] # "running"

\* A run that the status calls running is settled: by its own end, by whatever stops
\* the worker, or by the Migration's end (migration_controller.go:217).
RehearsalSettles == mig.outcome = "running" ~> mig.outcome # "running"
=============================================================================
