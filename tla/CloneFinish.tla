------------------------------ MODULE CloneFinish ------------------------------
(***************************************************************************)
(* A Migration that copies without following, from the preflight gate over *)
(* the worker's attempts to the finish path: the catalog check, the        *)
(* handover of ownership, the compares and the verdict                     *)
(* (migration_controller.go, verification.go, reown.go).  A follow         *)
(* Migration is followed up to the start of its worker.                    *)
(*                                                                         *)
(* A pass reads the cached Migration and Jobs, creates or deletes Jobs and *)
(* ends with one status write, which a crash or an API error may lose.     *)
(* Jobs are named after the Migration, so that a pass finds what an        *)
(* earlier one started: everything after the worker is derived from them.  *)
(*                                                                         *)
(* Abstractions.  A pass that ends early has made its other API calls.     *)
(* The retry gate is its wait for the previous worker's pod, the budget a  *)
(* number of attempts; what MigrationAttempts says of them is not repeated.*)
(* The pod of a deleted preflight Job runs on until it is killed, beside   *)
(* whatever comes next; only what it may still do is kept of it.  The      *)
(* options that may change during a run are left as they are.              *)
(***************************************************************************)
EXTENDS Preflight, FiniteSets

CONSTANTS
  MaxAttempts,    \* attempts the budget allows
  MaxEdits,       \* bound: changes of spec.suspend
  MaxMishaps,     \* bound: status writes that are lost, and Jobs that the TTL deletes
  Collected,      \* Jobs that ttlSecondsAfterFinished may delete
  CatalogGated,   \* does the operator have a block that counts the catalog (progressGate)?
  CatalogBlind,   \* may the catalog Job end without a count in its log?
  LoseFirst,      \* may the write that records the first attempt be lost?
  DeepLag         \* may a pass miss the last one's status and worker, or a deletion?

ASSUME CloneBounds == MaxAttempts \in Nat \ {0} /\ MaxEdits \in Nat /\ MaxMishaps \in Nat
ASSUME CloneSwitches == {CatalogGated, CatalogBlind, LoseFirst, DeepLag} \subseteq BOOLEAN

VARIABLES
  strays,     \* pods of deleted preflight Jobs that still run
  mig,        \* the Migration on the API server
  cache,      \* the informer's copy
  jobs,       \* the Jobs by name
  workers,    \* the worker Jobs by attempt
  seen,       \* both as the cache shows them
  whole,      \* has every row been copied?
  counted,    \* what the catalog Job's log says
  handover,   \* the handover's pod, and the kinds of object it has handed over
  edits, mishaps

clusterVars == <<jobs, workers, seen>>
targetVars == <<whole, counted, handover>>
preflightVars == <<spec, scriptVars, strays>>
bounds == <<edits, mishaps>>
vars == <<preflightVars, mig, cache, clusterVars, targetVars, bounds>>

-----------------------------------------------------------------------------
(* The Migration and its Jobs. *)

Attempts == 1..MaxAttempts
Compares == {"schema", "data"}
JobNames == {"preflight", "catalog", "handover"} \cup Compares
JobStates == {"none", "running", "ok", "failed", "deleting"}
\* Faulty variant: a Job that failed is waited for.
SucceededOnly(job) == job = "ok"
Finished(job) == job \in {"ok", "failed"}
Asked(option) == option \in spec.flags

\* cloned is CloneCompleted True, copying the attempt its False names; owner is
\* OwnershipApplied; verified is Verified, with the check that its False blames.
Conditions ==
  [validated: {"none", "running", "yes"}, cloned: BOOLEAN, copying: 0..MaxAttempts,
   owner: {"none", "running", "suspended", "yes", "no"},
   verified: {"none", "running", "yes"} \cup Compares, failed: BOOLEAN, complete: BOOLEAN]

Migrations == [suspend: BOOLEAN, attempts: 0..MaxAttempts, job: 0..MaxAttempts, cond: Conditions]

NewMigration ==
  [suspend |-> FALSE, attempts |-> 0, job |-> 0,
   cond |-> [validated |-> "none", cloned |-> FALSE, copying |-> 0, owner |-> "none",
             verified |-> "none", failed |-> FALSE, complete |-> FALSE]]

Terminal(m) == m.cond.failed \/ m.cond.complete
Fail(m) == [m EXCEPT !.cond.failed = TRUE]

\* updateStatus: the fields that m changed against the cached copy, the condition
\* list as a whole, over what the server holds.
Merge(cur, base, m) == [f \in DOMAIN cur |-> IF m[f] = base[f] THEN cur[f] ELSE m[f]]
UpdateStatus(m) ==
  \/ mig' = Merge(mig, cache, m) /\ UNCHANGED mishaps
  \/ mishaps < MaxMishaps /\ mishaps' = mishaps + 1 /\ UNCHANGED mig

\* ensureJob: created when the cache has none, whatever is found under its name.
EnsureJob(name) ==
  jobs' = IF seen.jobs[name] = "none" /\ jobs[name] = "none"
          THEN [jobs EXCEPT ![name] = "running"] ELSE jobs

\* Foreground deletion: the Job stays until its pod has ended.
Deleted(job) == IF job = "none" THEN "none" ELSE "deleting"

-----------------------------------------------------------------------------
(* The preflight gate and the attempts. *)

\* preflightGate, before the first attempt only: its Job is its memory.
PreflightGate(m) ==
  /\ UNCHANGED <<workers, strays>>
  /\ IF seen.jobs["preflight"] = "failed"
     THEN UpdateStatus(Fail([m EXCEPT !.cond.validated = "none"])) /\ UNCHANGED jobs
     ELSE UpdateStatus([m EXCEPT !.cond.validated = "running"]) /\ EnsureJob("preflight")
  /\ script' = IF jobs' = jobs THEN script ELSE NoPod

CompleteDryRun(m) == UpdateStatus([m EXCEPT !.cond.complete = TRUE]) /\ UNCHANGED <<jobs, workers>>

RecordAttempt(m) ==
  LET n == m.attempts + 1 IN
  /\ UpdateStatus([m EXCEPT !.attempts = n, !.job = n,
                            !.cond.copying = IF m.cond.cloned THEN @ ELSE n])
  /\ n = 1 /\ ~LoseFirst => UNCHANGED mishaps

\* A worker that has exited has no live pod, deleted or not.
WorkerDeleted(job) == IF Finished(job) THEN "none" ELSE Deleted(job)
WorkerLive(n) == workers[n] \in {"running", "deleting"}

\* startAttempt: a worker that a cut pass created is adopted; the retry gate waits for
\* the pod of the previous one.
StartAttempt(m) ==
  LET n == m.attempts + 1 IN
  /\ UNCHANGED jobs
  /\ \/ n \in Attempts /\ workers[n] # "none" /\ RecordAttempt(m) /\ UNCHANGED workers
     \/ n \notin Attempts /\ UpdateStatus(Fail(m)) /\ UNCHANGED workers
     \/ /\ n \in Attempts /\ workers[n] = "none"
        /\ n > 1 => ~WorkerLive(n - 1)
        /\ workers' = [workers EXCEPT ![n] = "running"]
        /\ RecordAttempt(m)

\* handleFailedJob: some causes end the Migration, the others clear jobName.
HandleFailedJob(m) ==
  /\ UNCHANGED <<jobs, workers>>
  /\ \E lasting \in BOOLEAN :
       UpdateStatus(IF lasting THEN Fail(m) ELSE [m EXCEPT !.job = 0])

\* Faulty variant: a suspend leaves the preflight to end by itself.
SuspendKeepsPreflight(m) ==
  [jobs EXCEPT !["handover"] = IF seen.jobs["handover"] \in {"running", "deleting"} THEN Deleted(@) ELSE @]

\* What a suspend deletes: the preflight in the background, so that its Job goes at
\* once and nothing waits for its pod, and a handover that has not finished; a finished
\* one is kept.
Suspended(m) ==
  [jobs EXCEPT !["preflight"] = IF m.attempts = 0 /\ seen.jobs["preflight"] # "none" THEN "none" ELSE @,
               !["handover"] = IF seen.jobs["handover"] \in {"running", "deleting"} THEN Deleted(@) ELSE @]

ReconcileSuspended(m) ==
  /\ jobs' = Suspended(m)
  /\ IF jobs'["preflight"] = jobs["preflight"] THEN UNCHANGED <<script, strays>>
     ELSE script' = NoPod /\ strays' = IF script.state = "live" THEN strays + 1 ELSE strays
  /\ workers' = IF m.job # 0 THEN [workers EXCEPT ![m.job] = WorkerDeleted(@)] ELSE workers
  /\ UpdateStatus([m EXCEPT !.job = 0,
                            !.cond.owner = IF seen.jobs["handover"] \in {"running", "deleting"}
                                           THEN "suspended" ELSE @])

-----------------------------------------------------------------------------
(* The finish path. *)

Catalog == seen.jobs["catalog"]
NeedsCatalog(m) == ~m.cond.cloned /\ CatalogGated /\ ~Asked("allDatabases")

\* ensureReown, for a copy that is confirmed: the handover Job, while it is not done.
HandoverStage(m) ==
  LET job == seen.jobs["handover"] IN
  /\ Asked("owner") /\ job # "ok"
  /\ EnsureJob("handover")
  /\ UpdateStatus(IF job = "failed" THEN Fail([m EXCEPT !.cond.owner = "no"])
                  ELSE [m EXCEPT !.cond.owner = "running"])

\* enabledChecks, in their order.
ChecksOf(sp) == When("schema" \in sp.flags, <<"schema">>) \o When("data" \in sp.flags, <<"data">>)

\* Faulty variant: the checks are created side by side.
AllOpen(checks) == {c \in {checks[i] : i \in DOMAIN checks} : ~Finished(seen.jobs[c])}

\* The first check that has not finished, if any.
FirstOpen(checks) ==
  {checks[i] : i \in {j \in DOMAIN checks :
     ~Finished(seen.jobs[checks[j]]) /\ \A k \in 1..(j - 1) : Finished(seen.jobs[checks[k]])}}

\* A schema mismatch outranks a data one.
Verified ==
  LET mismatched == {check \in Compares : Asked(check) /\ seen.jobs[check] = "failed"}
  IN CASE mismatched = {} -> "yes"
       [] "schema" \in mismatched -> "schema"
       [] mismatched = {"data"} -> "data"

\* ensureVerification, and then the verdict: a mismatch is reported and gates nothing.
VerificationStage(m) ==
  LET open == FirstOpen(ChecksOf(spec)) IN
  IF open # {}
  THEN /\ jobs' = [c \in JobNames |-> IF c \in open /\ seen.jobs[c] = "none" /\ jobs[c] = "none"
                                      THEN "running" ELSE jobs[c]]
       /\ UpdateStatus([m EXCEPT !.cond.verified = "running"])
  ELSE /\ UNCHANGED jobs
       /\ UpdateStatus([m EXCEPT !.cond.complete = TRUE,
                                 !.cond.verified = IF ChecksOf(spec) = <<>> THEN @ ELSE Verified])

\* reownGate, then the compares: the handover is the last write.
AfterCopy(m) ==
  \/ HandoverStage(m)
  \/ /\ Asked("owner") => seen.jobs["handover"] = "ok"
     /\ VerificationStage(IF Asked("owner") THEN [m EXCEPT !.cond.owner = "yes"] ELSE m)

\* finishClone: exit 0 is no proof of a whole copy, so pgcopydb's catalog decides; a
\* log without a count decides nothing.
FinishClone(m) ==
  /\ UNCHANGED workers
  /\ \/ NeedsCatalog(m) /\ ~Finished(Catalog) /\ EnsureJob("catalog") /\ UpdateStatus(m)
     \/ NeedsCatalog(m) /\ Finished(Catalog) /\ counted = "short" /\ UpdateStatus(Fail(m)) /\ UNCHANGED jobs
     \/ /\ ~NeedsCatalog(m) \/ (Finished(Catalog) /\ counted # "short")
        /\ AfterCopy([m EXCEPT !.cond.cloned = TRUE])

\* Faulty variant: a preflight that has ended lets the worker start, however it ended.
GatedUntilItEnds(m) == m.attempts = 0 /\ ~Finished(seen.jobs["preflight"])

\* Faulty variant: a worker that is gone is always followed by another.
NeverOnlyFinish(m) == FALSE

\* nextAttempt: a confirmed copy or a handover Job leaves only the finish path.
OnlyFinish(m) ==
  ~Asked("follow") /\ (m.cond.cloned \/ (Asked("owner") /\ seen.jobs["handover"] # "none"))

NextAttempt(m) == IF OnlyFinish(m) THEN FinishClone(m) ELSE StartAttempt(m)

PastTheGate(m) ==
  LET worker == IF m.job = 0 THEN "none" ELSE seen.workers[m.job] IN
  \/ Asked("dryRun") /\ CompleteDryRun(m)
  \/ ~Asked("dryRun") /\ worker = "none" /\ NextAttempt(m)
  \/ ~Asked("dryRun") /\ worker = "ok" /\ FinishClone(m)
  \/ ~Asked("dryRun") /\ worker = "failed" /\ HandleFailedJob(m)

Gated(m) == m.attempts = 0 /\ seen.jobs["preflight"] # "ok"

\* What a pass reads lags behind edits and the progress of Jobs; behind the last pass
\* and what is gone only if DeepLag.
Readable ==
  \/ DeepLag
  \/ /\ cache = [mig EXCEPT !.suspend = cache.suspend]
     /\ mig.job # 0 /\ workers[mig.job] # "none" => seen.workers[mig.job] # "none"
     /\ \A name \in JobNames : jobs[name] = "none" => seen.jobs[name] = "none"
     /\ \A n \in Attempts : workers[n] = "none" => seen.workers[n] = "none"

Reconcile ==
  /\ Readable /\ ~Terminal(cache)
  /\ \/ cache.suspend /\ ReconcileSuspended(cache)
     \/ ~cache.suspend /\ Gated(cache) /\ PreflightGate(cache)
     \/ /\ ~cache.suspend /\ ~Gated(cache) /\ UNCHANGED <<script, strays>>
        /\ PastTheGate([cache EXCEPT !.cond.validated = "yes"])
  /\ UNCHANGED <<spec, facts, blips, cache, seen, targetVars, edits>>

-----------------------------------------------------------------------------
(* The pods. *)

\* The preflight Job starts a pod, and a second one when the first has failed.  No pod
\* of another Job is waited for.
StartScript ==
  /\ jobs["preflight"] = "running" /\ script.state # "live"
  /\ script.tries = 0 \/ (script.tries = 1 /\ script.state = "failed")
  /\ script' = NewPod(script)
  /\ UNCHANGED <<spec, facts, blips, strays, mig, cache, clusterVars, targetVars, bounds>>

ScriptStep ==
  /\ RunCheck
  /\ UNCHANGED <<spec, strays, mig, cache, clusterVars, targetVars, bounds>>

PreflightEnds ==
  /\ jobs["preflight"] = "running"
  /\ \/ script.state = "ok" /\ script.tries > 0 /\ jobs' = [jobs EXCEPT !["preflight"] = "ok"]
     \/ script.state = "failed" /\ script.tries = 2 /\ jobs' = [jobs EXCEPT !["preflight"] = "failed"]
  /\ UNCHANGED <<preflightVars, mig, cache, workers, seen, targetVars, bounds>>

\* The pod of a deleted Job may still come to a statement that it applies; how far it
\* is does not matter, as nobody reads its result.
StrayWorks ==
  /\ strays > 0 /\ \E fact \in Remedies[spec] \ facts : facts' = facts \cup {fact}
  /\ UNCHANGED <<spec, script, blips, strays, mig, cache, clusterVars, targetVars, bounds>>

StrayStops ==
  /\ strays > 0 /\ strays' = strays - 1
  /\ UNCHANGED <<spec, scriptVars, mig, cache, clusterVars, targetVars, bounds>>

\* Exit 0 may leave rows behind (issue #277); a follow worker does not exit here.
WorkerExits(n) ==
  /\ workers[n] = "running"
  /\ \/ /\ ~Asked("follow") /\ workers' = [workers EXCEPT ![n] = "ok"]
        /\ whole' \in {whole, TRUE}
     \/ workers' = [workers EXCEPT ![n] = "failed"] /\ UNCHANGED whole
  /\ UNCHANGED <<preflightVars, mig, cache, jobs, seen, counted, handover, bounds>>

WorkerStops(n) ==
  /\ workers[n] = "deleting" /\ workers' = [workers EXCEPT ![n] = "none"]
  /\ UNCHANGED <<preflightVars, mig, cache, jobs, seen, targetVars, bounds>>

CatalogEnds ==
  /\ jobs["catalog"] = "running"
  /\ jobs' = [jobs EXCEPT !["catalog"] = "ok"]
  /\ \/ counted' = IF whole THEN "whole" ELSE "short"
     \/ CatalogBlind /\ counted' = "nothing"
  /\ UNCHANGED <<preflightVars, mig, cache, workers, seen, whole, handover, bounds>>

CompareEnds(check) ==
  /\ jobs[check] = "running"
  /\ \E result \in {"ok", "failed"} : jobs' = [jobs EXCEPT ![check] = result]
  /\ UNCHANGED <<preflightVars, mig, cache, workers, seen, targetVars, bounds>>

-----------------------------------------------------------------------------
(* The handover script. *)

\* The kinds of reownCandidatesCTE in the order of their statements.  A sequence that
\* a column owns follows its table; a member of an extension keeps its owner.
Candidates == <<"schema", "relation", "routine", "type">>

\* Faulty variant: one pod more than the Job's backoffLimit of 2 allows.
OneMorePod == handover.tries <= 3
PodsLeft == handover.tries < 3

HandoverStarts ==
  /\ jobs["handover"] = "running" /\ ~handover.live /\ PodsLeft
  /\ handover' = [handover EXCEPT !.live = TRUE, !.tries = @ + 1]
  /\ UNCHANGED <<preflightVars, mig, cache, clusterVars, whole, counted, bounds>>

\* One ALTER, a transaction of its own; a rerun picks up what is left.
Alter ==
  /\ handover.live /\ handover.done < Len(Candidates)
  /\ handover' = [handover EXCEPT !.done = @ + 1]
  /\ UNCHANGED <<preflightVars, mig, cache, clusterVars, whole, counted, bounds>>

\* The re-check at the script's end.
NothingLeft == handover.done = Len(Candidates)

\* A pod may end early, in a pre-check, an ALTER or the re-check.
HandoverEnds ==
  /\ handover.live /\ jobs["handover"] = "running"
  /\ handover' = [handover EXCEPT !.live = FALSE]
  /\ \/ NothingLeft /\ jobs' = [jobs EXCEPT !["handover"] = "ok"]
     \/ jobs' = [jobs EXCEPT !["handover"] = IF PodsLeft THEN @ ELSE "failed"]
  /\ UNCHANGED <<preflightVars, mig, cache, workers, seen, whole, counted, bounds>>

HandoverStops ==
  /\ jobs["handover"] = "deleting"
  /\ handover' = [handover EXCEPT !.live = FALSE, !.tries = 0]
  /\ jobs' = [jobs EXCEPT !["handover"] = "none"]
  /\ UNCHANGED <<preflightVars, mig, cache, workers, seen, whole, counted, bounds>>

-----------------------------------------------------------------------------
(* The caches, the TTL, users. *)

CacheSync ==
  /\ cache # mig /\ cache' = mig
  /\ UNCHANGED <<preflightVars, mig, clusterVars, targetVars, bounds>>

Cluster == [jobs |-> jobs, workers |-> workers]

JobSync ==
  /\ seen # Cluster /\ seen' = Cluster
  /\ UNCHANGED <<preflightVars, mig, cache, jobs, workers, targetVars, bounds>>

\* The TTL is longer than the caches lag.
Collect ==
  /\ mishaps < MaxMishaps /\ mishaps' = mishaps + 1
  /\ cache = mig /\ seen = Cluster
  /\ \/ \E name \in Collected \cap JobNames :
          Finished(jobs[name]) /\ jobs' = [jobs EXCEPT ![name] = "none"] /\ UNCHANGED workers
     \/ /\ "worker" \in Collected /\ UNCHANGED jobs
        /\ \E n \in Attempts : Finished(workers[n]) /\ workers' = [workers EXCEPT ![n] = "none"]
  /\ UNCHANGED <<preflightVars, mig, cache, seen, targetVars, edits>>

Edit ==
  /\ edits < MaxEdits /\ edits' = edits + 1
  /\ mig' = [mig EXCEPT !.suspend = ~@]
  /\ UNCHANGED <<preflightVars, cache, clusterVars, targetVars, mishaps>>

-----------------------------------------------------------------------------
Init ==
  /\ spec \in Specs
  /\ \E missing \in SUBSET Checked[spec] : Cardinality(missing) <= MaxMissing /\ facts = Checked[spec] \ missing
  /\ script = NoPod /\ strays = 0 /\ blips = 0
  /\ mig = NewMigration /\ cache = mig
  /\ jobs = [name \in JobNames |-> "none"] /\ workers = [n \in Attempts |-> "none"] /\ seen = Cluster
  /\ whole = FALSE /\ counted = "none"
  /\ handover = [live |-> FALSE, tries |-> 0, done |-> 0]
  /\ edits = 0 /\ mishaps = 0

PodsProceed ==
  \/ StartScript \/ ScriptStep \/ PreflightEnds \/ CatalogEnds
  \/ \E n \in Attempts : WorkerExits(n)
  \/ \E check \in Compares : CompareEnds(check)
  \/ HandoverStarts \/ Alter \/ HandoverEnds

DeletedPodsStop ==
  \/ StrayStops \/ HandoverStops
  \/ \E n \in Attempts : WorkerStops(n)

Next ==
  \/ Reconcile \/ PodsProceed \/ StrayWorks \/ DeletedPodsStop
  \/ CacheSync \/ JobSync \/ Collect \/ Edit

Spec == Init /\ [][Next]_vars

\* Passes are requeued, informers catch up, and the pods of deleted Jobs are killed.
\* Nothing here says that a pod that nobody deletes ends.
FairSpec ==
  /\ Spec
  /\ WF_vars(Reconcile) /\ WF_vars(CacheSync) /\ WF_vars(JobSync)
  /\ WF_vars(DeletedPodsStop)

\* A preflight and a handover have a deadline, pgcopydb ends when its work is done.
\* Each pod has an end, so that it is enough that some pod proceeds.
PodsEnd == WF_vars(PodsProceed)

-----------------------------------------------------------------------------
(* Properties. *)

TypeOK ==
  /\ spec \in Specs /\ facts \subseteq Checked[spec] /\ script \in Pods /\ strays \in Nat /\ blips \in 0..MaxBlips
  /\ {mig, cache} \subseteq Migrations
  /\ jobs \in [JobNames -> JobStates] /\ workers \in [Attempts -> JobStates]
  /\ seen \in [jobs: [JobNames -> JobStates], workers: [Attempts -> JobStates]]
  /\ whole \in BOOLEAN /\ counted \in {"none", "whole", "short", "nothing"}
  /\ handover \in [live: BOOLEAN, tries: 0..3, done: 0..Len(Candidates)]
  /\ edits \in 0..MaxEdits /\ mishaps \in 0..MaxMishaps

\* A worker exists only where everything it needs holds, and never in a dry run, whatever
\* pods and calls failed, passes were cut and preflights were stopped and begun again on
\* the way to it (migration_controller.go:343, resources.go:620).
WorkerIsAdmitted ==
  \A n \in Attempts : workers[n] # "none" => "dryRun" \notin spec.flags /\ Needed[spec] \subseteq facts

\* One compare at a time, and none while the handover still changes the target
\* (verification.go:203, verification.go:249), whatever passes were cut or resumed.
ComparesAlone ==
  \A check \in Compares : jobs[check] = "running" =>
    /\ \A other \in Compares : jobs[other] = "running" => other = check
    /\ ~handover.live

Writers ==
  {w \in {"preflight", "stray", "worker", "handover"} :
     \/ w = "preflight" /\ script.state = "live"
     \/ w = "stray" /\ strays > 0
     \/ w = "worker" /\ \E n \in Attempts : WorkerLive(n)
     \/ w = "handover" /\ handover.live}

Contract == INSTANCE CloneContract WITH
  asked <- [whole |-> spec.flags \cap {"allDatabases", "dryRun"} = {},
            handed |-> Asked("owner") /\ ~Asked("dryRun")],
  writers <- Writers, whole <- whole, handed <- handover.done = Len(Candidates),
  verdict <- IF mig.cond.complete THEN "complete" ELSE IF mig.cond.failed THEN "failed" ELSE "none"

\* One preflight, worker or handover at a time, the copy before the handover, and a
\* verdict given once, only for a target that is as asked
\* (migration_controller.go:841, verification.go:168).  A preflight pod that a suspend
\* has left behind may apply its last grants beside any of them.
KeepsContract == Contract!Spec

\* When pods end, a Migration that is not kept suspended comes to a verdict, or to its
\* follow worker, whatever failed on the way (verification.go:164).
EndsInVerdict ==
  PodsEnd /\ <>[](~mig.suspend) => <>(Terminal(mig) \/ (Asked("follow") /\ mig.attempts > 0))

\* Suspended promises no further database writes (migration_controller.go:797): a
\* writer that hangs does not go on behind it.
SuspendGoesQuiet ==
  <>[](mig.suspend) =>
    <>[](\/ Terminal(mig)
         \/ /\ script.state # "live" /\ strays = 0 /\ ~handover.live
            /\ \A n \in Attempts : WorkerLive(n) => n > mig.attempts)
=============================================================================
