# pgcopydb-operator in TLA+

A verification project for the controller of `ydixken/pgcopydb-operator`: TLA+
modules translated from its Go source, TLC configurations that check them on
small instances, and proofs, checked by TLAPS, of every
safety property and refinement of the passing runs for every value of the constants
(section 5).

The operator runs `pgcopydb` in Kubernetes Jobs to copy one PostgreSQL database
to another, either once (`Clone`) or with logical streaming and a cutover
(`CloneAndFollow`). Nothing it does is instantaneous: every step is a Job that
somebody else runs, observed through caches that lag, by passes that may be cut
between any two calls. That is what the modules are about.

| file | what it is |
|---|---|
| `MigrationAttempts.tla` | attempts, retry gate, budget, status patches |
| `AttemptContract.tla` | what the retry engine promises about attempts; `MigrationAttempts` implements it |
| `MigrationAttemptsProofs.tla` | its first inductive invariant: types and budget |
| `AttemptsSafetyProofs.tla` | built on it: one worker, refunds, verdicts, starts, what a finished Migration leaves, the refinement of `AttemptContract` |
| `FollowCutover.tla` | copy confirmation, catch-up, endpos, finish path of a live migration |
| `CutoverContract.tla` | the order a cutover promises; `FollowCutover` implements it |
| `FollowCutoverProofs.tla` | types, the drain's proof, the handover, refusals, the copy, the lag, the refinement of `CutoverContract` |
| `SlotCleanup.tla` | finalizer, deletion, cleanup of the replication slot |
| `SlotCleanupProofs.tla` | its inductive invariant, `SlotTypeCorrect`, `FinalizerSafe`, `SlotSafe` |
| `Rehearsal.tla` | the verification rehearsal beside a live migration |
| `RehearsalProofs.tla` | its inductive invariant: one scan, no ended run left scanning |
| `SamplerRuns.tla` | the sampler's goroutines, its gauges and `CommitsBlocked` |
| `SamplerRunsProofs.tla` | forgetting, order, confirmation, whose size the gauge shows |
| `Preflight.tla` | the preflight script, check by check, and its pod |
| `CloneFinish.tla` | a plain clone from the preflight to the verdict; extends `Preflight` |
| `CloneFinishProofs.tla` | the invariant of the preflight script, `PassEarned` |
| `CloneContract.tla` | what a plain clone promises about its target; `CloneFinish` implements it |
| `ClonePathProofs.tla` | types, compares alone, admitted workers, and the refinement of `CloneContract`, step by step |
| `MC*.tla`, `*.cfg` | the instances TLC checks |
| `PROJECT.json` | components, runs, mutants, source map, hazards, findings, theorems |

## 1. The system

One reconciler (leader election) handles each Migration key, one pass at a time.
A pass reads the Migration and most Jobs from informer caches, does a few API
calls, and ends with one status write. Everything else happens around it: users
edit `spec`, Jobs and pods move, the TTL controller and garbage collector delete.

| component | source | state it keeps | operations | module |
|---|---|---|---|---|
| Attempts, retry gate, budget | `migration_controller.go`, `retry_gate.go`, `retry_gate_budget.go` | `status.attempts`, `exemptAttempts`, `jobName`, `retryGate`, conditions, phase | first claim, preflight, start, adopt, record, fail, gate, verdict, refund, suspend | `MigrationAttempts`, `AttemptContract` |
| Retry gate probe | `retry_gate_job.go` | one Job per attempt, its annotations and log | create, observe, parse, age, delete | life and results in `MigrationAttempts` |
| Live migration | `follow.go`, `migration_controller.go`, `reown.go`, `sentinel.go` | `status.endpos`, lag, `CaughtUp`, `CloneCompleted`, `CutoverCompleted`; endpos in the work directory | confirm the copy, latch the lag, set endpos, verify, hand over, clean up, compare | `FollowCutover`, `CutoverContract` |
| Slot cleanup and finalizer | `follow.go` | the finalizer, the cleanup Job, the slot on the source | add finalizer, stop worker, clean up, release | `SlotCleanup` |
| Plain finish path, verification | `verification.go`, `reown.go`, `migration_controller.go` | catalog, handover and compare Jobs, `OwnershipApplied`, `Verified`, `Complete` | catalog check, handover, enabled checks, verdict, dry run, suspend | `CloneFinish`, `CloneContract` |
| Verification rehearsal | `rehearsal.go` | `status.verificationRehearsal` (armed, run, outcome), its Job and pod | arm, start, observe, cancel, hold the drain verify | `Rehearsal` |
| Sampler | `sampler.go`, `syncrep.go`, `metrics.go` | one run per Migration: last sample, copy seen, waits over; gauges | Start, Observe, SampleNow, Stop, loop, Forget | `SamplerRuns` |
| Job builders and preflight script | `resources.go` | the preflight pod: its failures so far; what it granted | probe, note, compose, apply, recheck, report | `Preflight`; the other scripts where they run |
| Parsing | `progress.go`, `sentinel.go`, `pgcopydb/logs.go` | none | LSNs, lag, counts, log classes | planned as pure operators |
| Arguments, connections, exec, other metrics, telemetry, main, charts, e2e | the rest | none that a migration depends on | formatting, I/O, wiring | not modelled |

**How they interact.** The reconciler calls all of them. The worker and the
finish-path Jobs share the work directory (the PVC with pgcopydb's catalogs and
`endpos`) and the two databases. The Migration's status is the only memory
between passes; Jobs have fixed names, so a Job that exists *is* the record that
its step was taken, and a finished Job is adopted by name. The sampler feeds a
pass its reading; the cleanup Job owns the slot's end; the finalizer ties the
deletion of the object to it.

**What is hard.**

- *Stale reads.* The cached Migration and the cached Jobs are separate watches;
  either may predate what the last pass did.
- *Two kinds of status write.* `updateStatus` is a merge patch without a
  resourceVersion that writes every changed field and the whole condition list;
  `patchStatusLocked` conflicts unless the copy is the newest.
- *Cut passes.* A crash or an error between `Create` and the status write leaves
  a Job no status names.
- *Exit 0 proves nothing.* A worker resumed past a crash can exit 0 without
  having replayed the drain; the verify Job decides.
- *Time.* The verdict deadline, the probe's freshness, and TTLs race answers.
- *Goroutines and pods outlive their owners.* A sample in flight lands after its
  run was stopped; the pod of a deleted Job still scans or writes.
- *Scripts fail half way.* A psql call that fails must not read as an answer.
- *Users.* Suspend, resume, spec edits and deletion land between any two calls.

The properties that make each component correct are listed with its runs in
section 3; `hazards` in `PROJECT.json` lists, line by line, what can go wrong
and which property catches it, or why none does yet.

## 2. The modules and the code

`MigrationAttempts`, `FollowCutover`, `SlotCleanup` and `Rehearsal` share one form. The API server's Migration is `mig`; the
informer's is `cache`. `pass` is the pass under way: its next API call (`step`),
the working copy `m` the code calls `mig`, and what it diffs or locks against.
`Reconcile` is everything a pass does up to its first write after a read;
each later call is an action of its own, so a crash (`Abort`), an edit or a Job
event can fall between any two. What the code does between two calls without
leaving the process is one action. `SamplerRuns` has the same passes, cut where
they touch the sampler's mutex. In `CloneFinish` a pass is one action whose last
write may be lost: what it leaves behind is in its Jobs.

### MigrationAttempts

`SuspendPass`, `PreflightPass`, `NextAttempt` (with `FinishClone` and
`StartAttempt`), `WorkerSucceeded`, `HandleFailedJob` and `ObserveRunningJob` are
the branches of `reconcile`, in its order of precedence. `StartAttempt` follows
`startAttempt`: adopt an unrecorded worker, refuse an exhausted budget, settle an
overdue verdict, ask the gate. `RetryGate` and `JudgeProbe` are `retryGate` and
`judgeProbe`; `Decide` and `SettleBudget` are the locked patches of
`decide`/`settleBudget`; `CreateWorker`, `RecordAttempt`, `DropProbe` the tail of
`startAttempt`. `Merge` is the JSON merge patch, field by field, with
`retryGate` merged inside and the condition list as one field.

The cluster: `jobs` by attempt number, `pods` (a Job may fail with its pod still
running: a lost node), `orphans` (pods whose Job was deleted under them, which go on
for up to their grace: each is a pod of its own, with its attempt and whether every
copy of the Migration in use had that attempt on record), `unseen` (the Job and pod
informers have not shown it), `failures`/`overdue` (time reduced to what it decides),
`probes`. A worker that `CreateWorker` makes again under the name of a deleted Job is
in `pods` beside what that Job left in `orphans`.

Limits of the model: an informer jumps to the newest version instead of through
each one; with `ProbesOutrun = FALSE` a probe does not finish while a worker's
creation is still unseen (it has to be scheduled and run first; the code has no such
wait, and the switch is an assumption on the informers); a Job that the informers do
not show is not deleted by others; the probe's inputs are reduced to
`synchronousCommit`, the spec field that is mutable; a lost snapshot is retried,
as with `dropIfExists`; the finish path is the four states of `finish`.

`OneWorker` says what the operator does and does not exclude. One Job has a pod at a
time, whatever the copies show. What it does not exclude is the pod that a deleted Job
leaves: `startAttempt` asks for the Job by name and for a pod of the attempt *before*
(`migration_controller.go:875-923`, `retry_gate.go:171-185`), so that an attempt which
was not recorded, or attempt 1 on a lagging cache, is created again beside its own
ending pod. The property bounds that: the pod is of the same attempt, and some copy in
use did not have the attempt on record when the Job was deleted (`Known`); no other
attempt ever starts beside it.

`AttemptContract` is the abstract specification: numbers of attempts, which of them
run, which pods a deleted Job left, what failed, what counts, and the last failure's
notice (unknown, noted, judged). It knows no passes, caches, Jobs, probes or suspends.
The mapping is `Contract` in `MigrationAttempts`: a worker runs while its pod does,
`leftovers` are the `orphans`, and the notice is what the server's condition and gate
record say of the failure (`Notice`). `Start` may repeat a number beside what a deleted
Job of that number left, until the attempt is recorded, and attempt 1, which passes no
gate, even after that; it may not start beside a worker or what another attempt left.

### FollowCutover

`ObserveRunningJob` is `observeRunningJob` with `confirmBaseCopy` (`Counts`,
`ConfirmBaseCopy`) and `reconcileFollowRunning` (`FollowRunning`, `CaughtUp`,
`CutoverWanted`). `SetEndposCurrent` is the one action with four outcomes: set or
not, answered or not. `FinishFollow` is `finishFollow`: verify, handover,
`CutoverCompleted`, cleanup, compares, `Complete`, each created when it is
missing and waited for or judged. `NextAttempt` keeps the code's test for "only
the finish path remains": the handover Job exists.

A worker sets up before it works (`Setup`, `setup`): attempt 1 wipes the work directory
(`Wipes`), a retry resumes from its catalogs (`Begins`), which pgcopydb refuses where
the copy is unfinished and its slot outlived the snapshot. That refusal is a failure of
its own kind: with `dropIfExists` `HandleFailedJob` latches it (`StartsOver`), and the
next worker runs `stream cleanup` first, which drops the slot (`DropsSlot`), then wipes
and copies anew; without it, and for a right revoked, a full volume or a missing
column, it fails the Migration. A log that cannot be read names no cause. `copy.done` is
what pgcopydb's catalogs say of the copy, which is what a resume goes by.

A deleted Job is `ending` until its pod is (`Deleted`): foreground deletion keeps it for
up to the grace, and `Live` includes it. An ending worker may still copy, stream and
end well.

What the databases hold is two facts: `copy.loaded` (rows in every table) and
`drained` (everything below endpos). `VerifyEnds` is the verify script, modelled
by what it does: exit 0 only with the origin at an endpos that is set, or with a
clean compare. The lag is low or high, and reads low until the apply loop's first
sync (`stream`), as the slot's raw receive position makes it do.

Limits: the retry gate is its wait for the previous pod and the lock of its settling;
a Job under deletion is taken not to turn Complete.

`CutoverContract` is the order of it, without passes, Jobs, caches or attempts: a worker
streams or has ended, its copy is finished and then never begun again, its drain is
judged once, ownership is handed over, the slot goes, and the report tells no more than
that. The slot of an unfinished copy may go between workers (`StartOver`). In the
mapping (`Contract` in `FollowCutover`) the judgement is the verify Job's end (`Proof`),
the worker its pod's work (`Phase`), `copied` pgcopydb's word, and the report the
server's `CutoverCompleted`. `Tell` lets a report be taken back, since a merge patch of
an old copy may do so (finding 1); it never lets one be changed into the other, or be
given early. It is claimed where no Job is lost to a suspend or the TTL.

### SlotCleanup

`SuspendPass`, `EnsureFinalizer`, `WorkPass` are a pass on a Migration nobody
deleted, reduced to what deletion can tell; `StopWorker`, `NothingRan`, `CleanUp`
are `reconcileDeletion`; `EnsureCleanup` is `ensureCleanup` with its two ways of
giving up. `Delete`, `DeleteNamespace`, `OwnerGone` are Kubernetes.

Limits: the operator's own writes are in the cache before the next pass (edits
may lag); a pod told to stop opens no slot, nor does a worker restarted past
endpos; whether the preflight has passed is a choice after the finalizer patch.

### Rehearsal

`ReconcileRehearsal` is `reconcileRehearsal`: disarm, observe the recorded run,
start the next one (`DeletePreviousRun`, `StartRun`). `CancelRecorded` and
`SweepUnrecorded` are `cancelRehearsal`, which every pass that stops the worker
calls first; `DrainWaits` is `drainWaitsForRehearsal`. `RehearsalJob` asks the API
server where the code does, because a Job created a moment ago is not cached
yet. `RunEnds` and `PodStops` are the script and its TERM trap.

Limits: the retry gate is its check for a rehearsal pod, the stage of a running
worker moves as it likes, the finish path is the drain verify. Pods are listed
from a cache taken to be current. `RetryHeld` is left to `MigrationAttempts`.

### SamplerRuns

A sample begins, reads and lands in three steps; what a caller does under the
mutex (`KeepLocked`, `StopLocked`, `Keep`) is one. `LoopBegins`, `LoopReads`,
`LoopLands`, `LoopEnds` are the goroutine, and a canceled one stays in `loops`
until it has returned. `Observe`, `SampleNow`, `WorkerEnded`, `UpdateStatus`,
`NotFound`, `Forget`, `Stop` are a pass in the order of `reconcile`;
`ApplyCommitsBlocked` is `syncrep.go`. `Start` and the end of `ctx` are the
manager's. A base copy that is done stays done when the next attempt is recorded
(`NextAttempt`, "A finished base copy does not un-happen"), so that the sampler of that
attempt publishes the target's size at once; the size is then `own`, that of the copy
the attempt goes on from. `old` is what an earlier run, or an attempt whose copy did not
finish, left there.

Limits: one Migration (the sampler's map has one entry per key and no state across
keys); of the gauges those that a sample writes, and one that stands for the
status; what a reading may say is any outcome the databases admit at that moment
(`Readings`), and nothing when psql, the exec or the pod fails.

### Preflight, CloneFinish and CloneContract

`Script(sp)` is `preflightScriptFor`: the sequence of checks that a spec calls
for, in the order of the blocks, each with what its miss does (a note, a warning,
the end of the script) and who may put it right. The actions `Holds`,
`ProbeFails`, `Missing`, `Lists`, `Remediates`, `CommandFails` are the branches of
`remSingleBlock`, of which `remAggBlock` is the plural; `After` and `Stops` are
the footer and `preflightStopOnFailure`. A check is a fact's name, so the text of
fifty queries is left out and the control of the script is not.

`CloneFinish` adds the Jobs and the passes: `PreflightGate`, `StartAttempt`,
`HandleFailedJob`, `ReconcileSuspended`, `NextAttempt`, `FinishClone` with
`HandoverStage` and `VerificationStage` are the functions of those names or, for
the last two, `ensureReown` and `ensureVerification`. The handover script is
`Alter`, one transaction per object, over the four kinds of
`reownCandidatesCTE`, and a re-check.

A suspend deletes the preflight Job in the background, and nothing makes the next
one's pod wait for the pod it leaves: that pod is a stray (`strays`), which may still
apply what the script may apply (`StrayWorks`, `Remedies`) until it is killed
(`StrayStops`), beside the next preflight, the worker or the handover.

`CloneContract` is the abstract specification: a target, its writers, a
verdict. It knows no Jobs, passes, caches or attempts. One preflight, worker or
handover writes at a time, beside which only the last grants of a preflight that was
given up (`Orphan`) may come. The refinement mapping is
`Contract` in `CloneFinish`: the writers are the live pods that write, whichever
Job they belong to and whether or not it still exists; the verdict is the
server's `Complete` or `Failed`. `KeepsContract` says that every behaviour of
`CloneFinish` is one of the contract. A failed Migration may leave a writer that
is being stopped; a complete one leaves at most a stray.

`WorkerIsAdmitted` ties the two halves together: a worker exists only where everything
the preflight checks for its spec holds, and never in a dry run, however often the
preflight was failed, stopped, collected or begun again before it passed, and although
a dry run passes with facts that a superuser would have to fix.

Limits: the passes are atomic but for the status write; the retry gate is its
wait for the previous pod; what strays apply is in no order and none of their results
counts; options that may change during a run stay as they are; a follow Migration is
followed up to its worker, to cover its part of the preflight.

### Composition

The modules are views of the same reconciler, cut where they do not touch:
`MigrationAttempts` has the gate and reduces the finish path; `FollowCutover` has
the finish path and takes from it only that a retry starts from a current
Migration with the pod before it gone, which is what `OneWorker` and
`StartsOnServerSpec` establish there; `SlotCleanup`, `Rehearsal` and `CloneFinish`
take the same. `Rehearsal` hands the drain verify over to `FollowCutover` at the
moment no rehearsal pod is left, which is `ScansAlone`; `SamplerRuns` gives it
samples that never step back (`NeverStepsBack`). `CloneFinish` composes the
preflight, the attempts, the handover and the compares in one state space, since
there the interaction is the point: who writes beside whom. Composing the others
would multiply the states and add no interaction: the gate runs only when no
worker exists and the finish path only after exit 0.

## 3. The runs

Distinct states are of complete explorations.

| run | states | checks | shows |
|---|---|---|---|
| `attempts_safe` | 1.45 M | `TypeOK` `BudgetRespected` `TerminalHasNoWorker` / `VerdictStands` `StartsOnServerSpec` `KeepsContract` | with a Migration cache of any age and a crash anywhere, no attempt beyond the budget, no double refund, no verdict revised, no counted worker left by a finished Migration, a start is settled against the server's spec; `AttemptContract` is kept |
| `attempts_lag` | 3.27 M | `OneWorker` | even with Job and pod informers that miss a new worker, with a Job deleted under its pod and unreadable logs, one worker at a time; what a deleted Job left ends beside a worker only if that is of the same attempt and some copy did not have it on record |
| `attempts_live` | 275 k | `VerdictArrives` `SuspendStops` | a verdict arrives by the deadline although no pod or probe ever ends; a suspend stops the worker |
| `cutover_proof` | 2.83 M | `TypeOK` `CutoverProven` `SlotKeptUntilProven` / `KeepsContract` | `CutoverCompleted` and the end of a finished copy's slot both wait for the drain's proof and the handover, over three attempts, refused resumes and their start-over, early exits, stale caches, edits of the approval and crashes; `CutoverContract` is kept |
| `cutover_suspend` | 6.82 M | `NoWorkerAfterCutover` `RefusedDecidedByContent` / `RefusalLatches` | through an approval, a suspend and a resume, with deleted Jobs that end with their pods: with a handover no worker runs after cutover, whatever the TTL collects; a refused copy is cut over only by content |
| `cutover_live` | 195 k | `CutoverMeasured` `CopyConfirmed` / `FinishEnds` | two measured lags in a row before endpos, rows before `CloneCompleted`, and an end to the finish path |
| `slot_deletion` | 215 k | `TypeOK` `SlotReleased` `FinalizerFirst` / `DeletionEnds` | the object goes only without its slot or with a warning, and it does go |
| `sampler` | 10.9 M | `TypeOK` `ForgetStaysFinal` `TargetSizeIsOfTheCopy` `NoStaleWaits` / `NeverStepsBack` `BlockedNeedsTwo` | over overlapping samples of two runs and two workers, a stop, a deletion and the operator's end: no gauge after `Forget`, no reading replaced by an older one, no size of what an earlier run left, no wait of a gone worker, `CommitsBlocked` only on two samples of one run |
| `rehearsal` | 2.5 M | `TypeOK` `ScansAlone` `EndedRunIsStopped` / `RehearsalSettles` | one full scan at a time, the drain verify included, whatever writes are lost and however old the caches are; no ended run scans on; a run called running is settled |
| `clone` | 630 k | `TypeOK` `PassIsEarned` `WorkerIsAdmitted` `ComparesAlone` / `KeepsContract` `EndsInVerdict` `SuspendGoesQuiet` | the preflight passes only what holds, and a worker exists only behind such a pass; one preflight, worker or handover at a time, no verdict over half a copy; a verdict comes; a suspend ends every writer |
| `attempts_resurrect` | violation | `TerminalAbsorbs` | finding 1 |
| `cutover_stale_verify` | violation | `CutoverProvenWhenSet` | finding 2 |

`BudgetRespected` and `KeepsContract` also hold in `attempts_lag`; they are proved for
every value of the constants, so that one run checks them. Two invariants follow from
a contract and have no run of their own: `RefundsAreFailures` from `AttemptContract` (a
refund is part of a `Judge`, which each failure has once) and `RefutedKeepsSlot` from
`CutoverContract` (a refuted judgement stands, and `DropSlot` needs a proved one). Both
are proved as theorems besides.

### Bounds, and why they are enough

- `BackoffLimit = 1`: two counted attempts, so a first start (no gate), a gated
  retry and an exhausted budget all occur; with `MaxExempt = 1`, a third attempt
  on a refund, the case where budget and attempts part.
- `MaxAttempts = 2` (cutover_suspend, slot): a worker, a restart and a refused third;
  3 in `cutover_proof`: a copy, its refused resume, and the start-over.
- `MaxVanish = 1` in `attempts_lag`: one worker Job is deleted under its pod, at any
  moment. Explored with 2 as well (7.5 M states).
- `MaxEdits`: one edit reaches a suspend or an input change inside any pass; two
  a suspend and its resume; three an approval besides. `slot_deletion` takes four:
  two suspends and two resumes, between which attempts, deletion and crashes fall.
- `MaxAborts = 1`: one cut at every place. `slot_deletion` has two, so the
  pass that repairs the first cut may be cut as well.
- Each was also explored once one step further, with the same outcome:
  `attempts_safe` with `BackoffLimit` 0, with `MaxExempt` 2 (its invariants, 6.1 M
  states) and, without refunds, with `BackoffLimit`, `MaxAborts` or `MaxEdits` 2;
  `attempts_live` with two edits; `cutover_proof` with two crashes and four edits (6.1 M);
  `cutover_live` with four edits, two crashes and early exits; `slot_deletion` with
  three attempts and six edits.
- `sampler`: two workers and two runs, so that a canceled run's sample meets its
  successor's; three samples, the least with which two of one run are overlapped
  by a third.
- `rehearsal`: two runs, so that a second may start beside the first; two
  attempts, so that a worker is followed by another; two edits (a request and its
  withdrawal, or a suspend and its resume), one cut pass.
- `clone`: five specs (owner, remediation, extensions; synchronous commit and
  deferred indexes; follow with both superusers; a dry run of it; all databases)
  between which every block of the script and every stage occurs. One fact that
  does not hold at first and one psql call that fails: the checks are independent, so that two
  add no interaction but `fail`, which one sets. Two attempts, one suspend with
  its resume, one lost write or collected Job.
- Attempts, refunds, edits, aborts, vanishes, samples, runs and blips are the only
  counters, with the strays of `clone`, each of which a suspend leaves. Every other
  variable is finite by the code's own enumerations.

`CHECK_DEADLOCK FALSE` everywhere: a Complete or Failed Migration, a deleted one, or
a stopped operator really stops.

### Fairness

Only `attempts_live`, `cutover_live`, `slot_deletion`, `rehearsal` and `clone` use it.

- `WF(Reconcile)`: the key keeps coming back. Running workers and held retries are
  requeued after the poll interval; owned Jobs are watched; a spec edit bumps the
  generation, which passes the predicate; the manager resyncs every ten hours. Status
  writes alone wake nobody (`GenerationChangedPredicate`), and the model does not
  rely on them.
- `WF(PassStep)`: a pass that is not cut goes on to its next call.
- `WF(CacheSync)`, `WF(JobSync)`: a watch delivers in the end.
- `WF(DeadlinePasses)`: time goes on.
- `Rehearsal` adds that a rehearsal's Job moves on: its pod starts, its compare ends
  or its pod stops on TERM. The worker and the verify may run for ever.
- `CloneFinish` assumes only that the pods of deleted Jobs are killed
  (`DeletedPodsStop`), which is all that `SuspendGoesQuiet` needs: a preflight,
  worker or handover that hangs is still stopped. That pods end by themselves
  (`PodsEnd`) is a hypothesis of `EndsInVerdict`, where it stands as such.
- `FollowCutover` adds that the four script Jobs end, and `SlotCleanup` that the
  cleanup Job does: their retries are bounded (`resources.go:1665`), the handover
  has a deadline (`reown.go:242`), and of the others it is assumed that one run
  of their script ends. Neither a worker,
  nor its pod, nor a probe is ever assumed to end, which is what makes
  `VerdictArrives` and `DeletionEnds` worth stating.

### Where the passing runs stop

Each passing configuration excludes something the code admits, found by turning
one switch. These are limits a reader must know of, not results:

- `JobCacheLags` in `attempts_safe` breaks `TerminalHasNoWorker`: a worker the
  cache has not shown reads as vanished and a spent budget ends the Migration.
  The property speaks of the workers `status.attempts` counts: one whose attempt
  was never recorded may outlive its Migration as well.
- `ProbesOutrun` with `JobCacheLags` breaks `OneWorker`: a probe that is scheduled, runs
  and ends while the pod informer still misses the failed worker lets the next one start
  beside its pod.
- `MaxEdits = 4` with `BackoffLimit = 1` in `attempts_safe` breaks `TerminalHasNoWorker`,
  the second remark of section 4; without an abort it holds with four edits as well. So
  does `MaxVanish = 1` with two edits, a suspend and its resume: a vanished worker leaves
  its name behind, as the lost write of that remark does.
- `MaxAborts = 1` in `attempts_live` breaks `SuspendStops`: see the first remark of
  section 4.
- `Suspends` in `cutover_proof` breaks `CutoverProven`, `SlotKeptUntilProven` and so
  `KeepsContract`: finding 2, which needs an
  approval, a suspend and a resume. `cutover_suspend` has the suspends.
- `JobsVanish` in `cutover_proof` breaks the same three:
  a verify Job is adopted from an earlier drain, or run again after the slot went
  (`follow.go:254`, `:260`).
- `SamplesFail` in `cutover_live` breaks `CutoverMeasured` (the lag of a sample
  without a replay position is carried, `follow.go:151`) and `CopyConfirmed` (no
  counts, nothing to contradict the marker, `migration_controller.go:646`).
- `CacheLags` there breaks `CutoverMeasured`: a pass on an old copy judges the next
  sample against a lag that another pass has already replaced.
- `MaxAttempts = 2` there breaks `CutoverMeasured`: the `CaughtUp` latch outlives
  a restart of the worker (`follow.go:61`, `:173`).
- `EarlyExits` with `MaxAttempts = 2` there breaks `CopyConfirmed`: `finishFollow`
  calls the copy complete on any exit 0 (`follow.go:232`), and a suspend before the
  verify Job has judged it leaves that word to the next attempt.
- `JobsVanish` there breaks `FinishEnds`: with a TTL of 0 a compare is collected
  before a pass sees it, again and again.
- `Handover = FALSE` in `cutover_suspend` breaks `NoWorkerAfterCutover`, and
  `CrashAfterCreate` in `slot_deletion` breaks `SlotReleased`: the third and
  fourth remark of section 4.
- `AuditBlind` in `clone` breaks `PassIsEarned` and `WorkerIsAdmitted`: the fifth remark.
- `CatalogBlind` in `clone` breaks `KeepsContract`: a catalog Job whose log has no
  readable count lets the copy pass, as the code says it does
  (`verification.go:182-188`, `:240-243`).
- `CatalogGated = FALSE` there breaks it too: an operator without a progress client has
  no block to count the catalog with, and counts nothing (`verification.go:176`).
- `LoseFirst` in `clone` breaks `KeepsContract`: the first worker of a Migration is not
  recorded, and what follows does not know of it. `SuspendGoesQuiet` speaks of the
  workers that the status counts, because of the first remark of section 4.
- `DeepLag` in `clone` breaks `KeepsContract`: a pass that misses the last one's status or worker.
- `Collected` with `"schema"` breaks `ComparesAlone`: a schema compare that the TTL
  collected runs again beside the data compare, against "one at a time"
  (`verification.go:249-252`).

## 4. Findings

Two statements of the repository that its code does not keep have a run whose
trace is a short, ordinary sequence of events.

1. *A Failed Migration may come back* (`attempts_resurrect`). A pass on a copy older
   than the verdict changes one condition; the unlocked merge patch writes the whole
   list and so removes `Failed`. The Migration runs on with its budget spent.
2. *A verify verdict outlives its drain* (`cutover_stale_verify`). After a lost
   answer of `SetEndposCurrent`, a suspend and a resume, the finished verify Job is
   adopted for a further endpos.

Others were met while modelling and proving. The first five show when the switch named
in section 3 is turned; the rest were read in the code.

- *A suspended Migration may keep writing.* A pass is cut between creating the
  worker and `recordAttempt`; the suspend that follows deletes only the Job
  `status.jobName` names (`migration_controller.go:775`), against "Suspended
  promises no further database writes" (`:797`).
- *A stale suspend can forget the next worker.* `reconcileSuspended` sets
  `JobName = ""` whatever `Get` answered and writes it by the unlocked patch
  (`migration_controller.go:775-793`, `:839`). A suspend pass deletes its worker and is
  cut before the status write; after a resume the next attempt is created; a suspend
  that reaches the cache before that attempt's record makes a pass which, after the
  record, clears the new attempt's name and deletes nothing. The next resume finds no
  worker to observe, and if the budget is spent fails the Migration beside one.
  The proof of `TerminalHasNoWorker` met it and TLC confirmed it.
- *A resume can restart pgcopydb after cutover.* Without `ownerAfterRestore` no Job
  marks the finish path of a live migration, so `nextAttempt` starts a worker on
  a target that applications may use (`migration_controller.go:842-868`).
- *Deletion can leave the slot.* `attempts = 0` is read as "Nothing ever ran: no slot
  exists" (`follow.go:487`), though the worker is created before it is recorded.
- *One audit fails open.* When the query of the replica identity audit fails, its
  empty output reads as no offender and the script prints ok
  (`resources.go:1046-1061`; it runs under `set -u` without `-e`). The sibling audits
  fail closed, and the docs say "The preflight audits all user tables for this and
  fails on offenders" (`docs/reference/prerequisites.md:693`).
- *A catalog count outlives its attempt.* The catalog Job has one name per Migration.
  When attempt 1 exits 0 with rows missing, its count is taken, and the worker is
  collected or suspended away before the verdict pass, attempt 2 copies
  everything and is failed as `CloneIncomplete` by the count of attempt 1
  (`verification.go:228-243`). The error is on the safe side.
- *Switching the rehearsal off does not stop a run whose start was not recorded.*
  `docs/operations/verification.md:160-170` says it does; `rehearsal.go:73-76`
  returns before the sweep when nothing is requested and nothing armed, so such a run
  scans on until it ends or the worker does. `ScansAlone` and `EndedRunIsStopped`
  allow for it.
- *The audit of what a superuser applied is read from one pod.*
  `emitPreflightOutcome` reads the log of the newest pod only
  (`migration_controller.go:381-440`) while the Job allows two, so that a grant that
  the first pod applied gets no event (`docs/reference/prerequisites.md:771`).

A remark on deletion: only the pass that deletes the worker waits for it
(`follow.go:493`), the next goes on to cleanup beside a terminating pod, against
"Stop the worker first so cleanup does not race a live stream" (`follow.go:489`).
`SlotReleased` and `DeletionEnds` hold all the same.

## 5. What is proved

`MigrationAttemptsProofs` proves, for every `BackoffLimit` and every value of the
bounds and switches:

- `TypeCorrect == Spec => []TypeOK`. The bounds are in `Nat` and otherwise
  unused, so it covers runs of any length.
- `BudgetSafe == Spec => []BudgetRespected`: no worker Job exists for an attempt
  beyond `backoffLimit + 1` plus the refunds the server holds.

Assumed are only the module's own `BackoffAssumption`, `BoundsAssumption` and
`LagAssumption`: natural numbers and Booleans.

*Why a strengthening is needed.* `BudgetRespected` speaks of the server, but a
pass checks the budget on a copy read from the cache and creates the worker
several API calls later, with other writes in between. Three facts close the gap.
`ApiInv`: the cached refunds never exceed the server's, and equal them when the
cache is fresh. `PassInv`: between its writes a pass carries no refund of its own
(a refund exists only inside `Decide`, which writes it under the lock), a pass
whose lock would succeed has the server's refunds, and a pass at `create` has
checked the budget on the copy it carries. `WorkersInv` ties the Jobs to it.
Together with the types these are `IInv`. Every step keeps it (`Inductive`, by one
lemma per action), since refunds on the server only grow: an unlocked patch
writes `exemptAttempts` only if the pass changed it, which it never has, and a
locked one only when its copy is the newest.

The proof shows what the two kinds of write are worth: the budget needs the lock
in `Decide` alone, where a refund is written. What the lock of `settleBudget` is
for are `VerdictStands` and `StartsOnServerSpec`: with the faulty variant
`WithoutLock` TLC finds each of them violated.

`SlotCleanupProofs` proves, for every `MaxAttempts` above zero and all bounds:

- `SlotTypeCorrect == Spec => []TypeOK`;
- `FinalizerSafe == Spec => []FinalizerFirst`, whatever is cut and where;
- `SlotSafe`: if no pass is cut between `Create` and `recordAttempt`
  (`~CrashAfterCreate`), then `Spec => []SlotReleased`.

*The argument.* `FInv`: the operator's own writes are in its cache (`CacheInv`), so a
pass that reaches `create` read a finalizer the server still has; without one
nothing runs and no pass is about to create (`FinalizerInv`). `SlotReleased` also
needs to know where a worker can be: it runs under the number that the status
names, or belongs to the pass that is about to record it (`RunningInv`, `PassInv`).
A cut between the two calls destroys exactly this (the fourth remark of section 4),
and is why `SlotSafe` excludes it. The rest ties the slot to it: a slot means that an attempt
is recorded or about to be (`StartedInv`), so `NothingRan` is false; cleanup starts
only past endpos or with every worker stopped for a deletion (`EndedInv`,
`CleanupInv`), so a dropped slot is not opened again; and a pass at `release` has
no slot left or has warned (`ReleaseInv`, `GoneInv`).

`CloneFinishProofs` proves, for every set `Specs` of specs and every bound,
`PassEarned`: if the query of the replica identity audit cannot fail
(`~AuditBlind`, the fifth remark of section 4), then `Spec => []PassIsEarned`.

*The argument.* `PassIsEarned` speaks of a script that has ended; the invariant must
speak of one that runs. `PodInv` keeps the pod at one of the script's checks, for
which all that is needed of `Script` is that it is a sequence and not empty
(`ScriptType`, built from one lemma per block). `EarnedInv`: as long as nothing has
failed, every check before the pod's is settled. It survives a check because the
failures of earlier checks are never forgotten (`AfterType`) and facts are only
added (`AfterInv`), and each branch of a check either records a failure or leaves
its fact holding, listed, or a mere warning (`RunCheckInv`). A new pod starts at
the first check, where nothing is claimed. This is the fail-closed rule of the
script, with the one block that breaks it set apart.

`AttemptsSafetyProofs` builds on `IInv`, again for every value of the constants, lagging
Job caches, deleted Jobs and unreadable logs included:

- `WorkersExclude`: `Spec => []OneWorker` if `JobCacheLags => ~ProbesOutrun`, that is, if
  the Job and pod informers are never behind for as long as a probe is scheduled, runs
  and ends, which section 3 shows to be needed;
- `RefundsBounded == Spec => []RefundsAreFailures`;
- `VerdictIsFinal == Spec => VerdictStands`, `StartsOnCurrentSpec == Spec =>
  StartsOnServerSpec`, two action properties.

*The argument.* `SafeInv` adds five parts. `LockInv`: a pass whose copy is current
holds what the server holds, so a locked patch changes the version it was judged on,
and `Judges` is all such a patch does. `VersionInv`: server, informer and pass differ by
at most one attempt, and no Job has a number past the next one of any of them.
`PodInv`, under the assumption on the probes (`Timely`): whether under its Job or left
by a deleted one (`Podded`), only the newest attempt has pods, and at the end of the
gate only the next one may; a finished probe vouches for it, because it was created and
ran after the informer had shown the worker before it. A pod left by a Job that every
copy in use had on record is beside no other (`LeftAlone`), since a recorded attempt is
not started again. `GateInv`: the three copies
are one step apart on the path failed, recorded, judged (`Level`), so that no unlocked
patch carries an older verdict. `RefundInv`: refunds never outnumber the failures
among the attempts judged so far.

- `FinishedIsIdle`: `Spec => []TerminalHasNoWorker` if `~JobCacheLags`, `MaxVanish = 0`
  and `MaxAborts = 0`.

*The argument.* Each of the three assumptions is needed (section 3): what is lost is which
worker the status names. Without them, a running worker is named by the server's
status or is about to be recorded, and one that a suspend deleted is forgotten by
the next write (`NamedInv`). A copy from before the last attempt names no Job and is not
done (`BehindInv`), so that its pass finds that attempt's worker and adopts it; and a
verdict is written only over workers that are done (`WriteInv`, `StartInv`,
`FirstInv` before the first attempt). The budget's verdict is the delicate one: it
falls where no Job is named, which is why a forgotten name breaks it.

- `AttemptsKeepContract`: `Spec => KeepsContract`, the refinement of `AttemptContract`,
  if `JobCacheLags => ~ProbesOutrun`.

*The argument.* `SafeInv` has most of it: where a worker may run, what a copy may lag
by, what a locked patch may change. The contract adds that nothing starts, and nothing
is recorded, while the last failure waits for its verdict, and `SettledInv` says so of
the pass that is about to: its copy is judged wherever the server's is
(`SettleJudges`, `SettledStep`). Then each action is a step or a stutter:
`CreateWorker` a `Start` (`CreateKeepsContract`), the record of an attempt a `Record`,
an unlocked patch at most a `Note` (`PatchKeepsContract`, by `LevelPath`: it moves a
failure no further than that), the locked one of `Decide` a `Judge`, what pods do
`Work` (`WorkersWork`), a deleted Job a `Leave`, and the end of the pod it left a
`LeftoverEnds`. That each such pod is another one is `NumberedInv`: they are numbered by
the deletions so far.

`FollowCutoverProofs` proves `CutoverTypeCorrect` (`[]TypeOK`, every setting) and, under
the assumptions that section 3 shows to be needed:

| theorem | property | assumes |
|---|---|---|
| `HandoverEndsWriting` | `NoWorkerAfterCutover` | `Handover` |
| `CutoverIsProven`, `SlotKept`, `RefutationKeepsSlot` | `CutoverProven`, `SlotKeptUntilProven`, `RefutedKeepsSlot` | `~Suspends`, `~JobsVanish` |
| `CutoverKeepsContract` | `KeepsContract`, the refinement of `CutoverContract` | `~Suspends`, `~JobsVanish` |
| `ContentDecides`, `RefusalIsLatched` | `RefusedDecidedByContent`, `RefusalLatches` | `~CacheLags` |
| `CopyIsConfirmed` | `CopyConfirmed` | `~SamplesFail`, `~Suspends`, `~JobsVanish` |
| `CopyIsConfirmedOnce` | `CopyConfirmed` | `~CacheLags`, `~SamplesFail`, `MaxAttempts = 1` |
| `CopyIsConfirmedAtEndpos` | `CopyConfirmed` | `~CacheLags`, `~SamplesFail`, `~EarlyExits` |
| `CutoverIsMeasured` | `CutoverMeasured` | `~CacheLags`, `~SamplesFail`, `MaxAttempts = 1` |

*The argument.* `DrainInv`: the recorded number is the newest worker's or one behind it
(`AttemptInv`), what a pass will write belongs to a worker it created or saw fail
(`WrittenInv`), so no live worker is taken for a vanished one; hence a verify
Job, a handover and a cleanup each stand behind a worker that exited 0 and behind one
another (`ProofInv`). The start-over needs two more: its latch is about the newest
worker, which was refused, or about an attempt begun over it and not recorded yet
(`LatchInv`), so that it is never obeyed over a later copy; and what a worker drops or
wipes belongs to a copy that was not finished, behind a finished one the slot being
there until the cleanup Job (`CopyInv`). Every copy of the status that reports a cutover has them
(`ReportInv`). The refinement needs no more than these: `WrittenInv` makes a created
worker a `Start`, `ProofInv` orders `Judge`, `HandOver` and `DropSlot`, `CopyInv` makes a dropped slot
before that a `StartOver`, and `ReportInv` makes a status write a `Tell`; a pass only
creates Jobs, and so is a stutter. `RefusalInv`: with a current cache the patch writes
back what the server had, a refusal is lifted only by counts, and endpos is set only
over a confirmed copy. While a start-over is latched, before the copy is finished and
while a worker has yet to wipe (`Blank`), nothing has been concluded of the copy
(`Unconcluded`), so that what a start-over wipes takes no claim back.
`LoadedInv` and `LagInv` add the rows and the last lag of the single worker; `OnceInv`
the same rows through suspends, where a worker that is over is never followed by
another; `ExitInv` does so for every budget where an exit 0 has an endpos behind it.
With early exits and a second attempt the property fails: a worker exits 0 before the
rows are there, its pass sets `CloneCompleted`, and a suspend and a resume start the
next worker beside that claim.

`SamplerRunsProofs` proves all six safety properties of `sampler` from
`BoundsAssumption` alone: `SamplerTypeCorrect`, `ForgettingIsFinal`,
`IdleSamplerIsQuiet`, `SamplesStayInOrder`, `BlockedIsConfirmed`, `SizeIsOfTheCopy`.

*The argument.* `CoreInv`: a goroutine that may still publish belongs to the run on
display, and a handled object has none; `TeardownInv` follows for `Forget` and
`Stop`. `OrderInv`: a sample in flight began after whatever was handed out, or the run
holds a later one that supersedes it. `ConfirmInv`: no two samples share a moment, so
"over twice" is two samples (`Twice`) of one run. `BegunInv` and `OldInv`: who knows
that a copy has begun (`Known`) is right about it, and a sample older than the copy is
either unpublished or overtaken. A status that keeps its copy done over attempts is
right as well, because the worker of the next attempt goes on from that copy.

`RehearsalProofs` proves, for every value of the constants, `RehearsalTypeCorrect`,
`ScansExclude == Spec => []ScansAlone` and `EndedIsStopped == Spec => []EndedRunIsStopped`.

*The argument.* A copy is `Ahead` of another by at most one start or one end
(`VersionInv`), so a start made from a disarmed copy names the same run whichever
copy it read. Every run but the live one of either copy is `Quiet` (`RunInv`); a pass
disarms only when it has swept every Job and no pod is left (`PassInv`), and begins the
drain verify only then (`DrainInv`).

`ClonePathProofs` proves, for every set of specs and every bound:

- `CloneTypeCorrect == Spec => []TypeOK`;
- `ComparesRunAlone`: `Spec => []ComparesAlone` if the TTL takes neither the handover
  nor a compare (`Collected \cap {"handover", "schema", "data"} = {}`);
- `WorkersAreAdmitted`: `Spec => []WorkerIsAdmitted` if `~AuditBlind`;
- `ContractIsKept`: `Spec => KeepsContract`, the refinement of `CloneContract`, if
  `~DeepLag`, `~LoseFirst`, `CatalogGated` and `~CatalogBlind`, the exclusions of
  section 3.

*The argument.* A target passes from the preflight to the workers, one after the other,
and from the last of them to the handover. Each turn is decided on caches, so
`ContractInv` says for each what its trace excludes: a recorded attempt, the preflight
(`GateInv`); the next worker, a live recorded one (`WorkerInv`); a handover Job
or a confirmed copy, every worker (`CopyInv`); a verdict, whatever could still start
(`VerdictInv`). `SeenInv` and `UnseenInv` say how far the cache may be wrong about
them. With it each action is shown to be a `Start`, `Write`, `Orphan` or `Decide` of the
contract under the mapping, or a stutter; `PassEffect` sums up what a pass may do.
`AdmitInv` carries what the preflight earned to the workers: a preflight Job that is
seen to have passed, in the cluster or in a cache, stands for facts that still hold
(they are only ever added, by strays too), and once an attempt is on record or a worker
exists, the spec is no dry run and nothing is missing.

*What the proofs changed.* `Suspended` in `CloneFinish` was a `CASE` with overlapping
guards, whose value TLA+ leaves open; it now names both deletions. A preflight pod that
lost its Job could lend its result to the Job that replaced it, in a corner that no TLC
run met: such a pod is now a stray, whose results nobody reads.

*Only model-checked.* The liveness properties (`VerdictArrives`,
`SuspendStops`, `FinishEnds`, `DeletionEnds`, `RehearsalSettles`, `EndsInVerdict`,
`SuspendGoesQuiet`), which fairness and `ENABLED` keep outside the prover; and, within
its bounds, the one setting that a theorem assumes away and its run has: a cut pass
for `TerminalHasNoWorker`. No module has a `RECURSIVE` operator.

## 6. Mutants

Each property of each passing run has a faulty variant of a mapped definition,
commented "Faulty variant" where it stands and named in `PROJECT.json`: the patch
without its resourceVersion, the wrong attempt's pod, one sample instead of two,
cleanup beside the verify Job, a finalizer after the worker, a canceled run that
clears its successor, a rehearsal Job taken from the cache alone, a probe that
could not run counted as an ok, and so on. Under
each, TLC finds the property violated; the variants are used nowhere else.

## 7. The plan

In order of what the next result is worth:

1. `CutoverContract` through suspends: a weaker one, in which a judgement is of one
   drain and a suspend may void it, for `HandoverEndsWriting` and `ContentDecides` to
   carry.
2. `GateProbe`: the probe's script, its log and `parseGateLog`, checked to yield
   exactly the results `ProbeFinishes` assumes.
3. Pure operators: the table scope of `clone.filters` (a widened entry must never
   hide a table that is copied), LSN distance on 64 bits, count estimates, log classification,
   each against a reference definition.
4. Composition: `AttemptContract` in place of the coarse workers of `SlotCleanup` and
   `Rehearsal`, so that what they take from `MigrationAttempts` is its contract.

New runs replace or join the present ones where they ask the same question of a
larger module.

## 8. Not modelled

Argument rendering, connection strings and passfiles, pod exec, telemetry,
metrics other than those a sample writes, flags and manager wiring, the Helm
chart, dashboards, images, and the test harnesses: formatting, I/O and wiring with
no state a migration depends on. Compare and clone progress in the status, phases,
NudgeEndpos and the zombie reap decide nothing that a property here is about. `v1alpha1` converts by identity. Admission rules
(CEL) are assumed: only the fields they leave mutable are edited. PostgreSQL,
pgcopydb and Kubernetes are external and modelled only by what `src/` relies on.
