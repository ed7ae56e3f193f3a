---------------------------- MODULE RehearsalProofs ----------------------------
(***************************************************************************)
(* Proofs about Rehearsal.tla, for every value of its constants: the types *)
(* of its variables, that one full scan runs at a time, and that a run the *)
(* status calls ended is not left scanning.                                *)
(*                                                                         *)
(* The argument.  A pass may work from a copy of the Migration that is one *)
(* start or one disarming behind the server, and it may end between two    *)
(* calls.  Whatever it does, one run only may have a Job that runs: the    *)
(* one armed, or the next one when none is (LiveRun).  A start is made     *)
(* from a disarmed copy, and names the same run on every copy; disarming,  *)
(* which moves LiveRun on, is written only when every Job was swept and no *)
(* pod was left.                                                           *)
(***************************************************************************)
EXTENDS Rehearsal, FiniteSetTheorems, TLAPS

-----------------------------------------------------------------------------
(* The inductive invariant. *)

Active == pass.step # "idle"

\* No Job is left that could start a pod.
Cleared == \A n \in RunIds : jobs[n] # "running"

Quiet(n) == ~pods[n] /\ jobs[n] # "running"

\* The one run that may scan, as the copy m of the Migration has it.
LiveRun(m) == IF m.armed THEN m.run ELSE m.run + 1

Settled(m) == m.outcome \in {"ended", "canceled"}

WellRun(m) ==
  /\ m.outcome = "none" <=> m.run = 0
  /\ m.armed => m.run # 0
  /\ m.outcome = "running" => m.armed

\* The copy new is old, or old moved on by one start or by one end and disarming.
Ahead(new, old) ==
  \/ /\ new.run = old.run
     /\ new.armed => old.armed
     /\ new.outcome = "running" => old.outcome = "running"
  \/ /\ ~old.armed /\ new.armed
     /\ new.run = old.run + 1 /\ new.outcome = "running"

VersionInv ==
  /\ WellRun(mig) /\ WellRun(cache) /\ Ahead(mig, cache)
  /\ Active => WellRun(pass.base) /\ Ahead(cache, pass.base) /\ Ahead(mig, pass.base)

\* The recorded number is the newest worker's, or one behind it.
AttemptInv ==
  /\ cache.attempts <= mig.attempts
  /\ mig.attempts <= started /\ started <= cache.attempts + 1
  /\ Active => /\ pass.base.attempts <= cache.attempts
               /\ started <= pass.base.attempts + 1
               /\ \/ pass.m.attempts = pass.base.attempts
                  \/ pass.step = "write" /\ pass.m.attempts = started

\* The pass has kept the run it found, or has found it at its end.
RunKept ==
  /\ pass.m.run = pass.base.run
  /\ \/ pass.m.outcome = pass.base.outcome
     \/ pass.base.outcome = "running" /\ Settled(pass.m) /\ jobs[pass.base.run] # "running"

RunBegun ==
  /\ pass.step = "write" /\ pass.goal = "start"
  /\ pass.m.armed /\ pass.m.run = pass.base.run + 1 /\ pass.m.outcome = "running"

RunDisarmed ==
  /\ pass.step = "write" /\ pass.base.armed /\ ~pass.m.armed /\ pass.m.outcome # "running"
  /\ Cleared /\ ~RehearsalPod

PassInv ==
  /\ Active => \/ RunBegun
               \/ RunKept /\ (pass.m.armed = pass.base.armed \/ RunDisarmed)
  /\ pass.step = "cancel" => pass.m.outcome = "running"
  /\ pass.step = "replace" => pass.goal = "start" /\ pass.base.run # 0
  /\ pass.step = "act" => pass.goal = "start" \/ Cleared
  /\ Active /\ pass.goal = "start" =>
       pass.step \in {"replace", "act", "write"} /\ ~pass.base.armed /\ pass.base.run < MaxRuns
  /\ Active /\ pass.goal = "disarm" =>
       pass.base.armed /\ (pass.step = "cancel" \/ pass.m.outcome # "running")
  /\ Active /\ pass.goal = "finish" => worker = "ok"

RunInv ==
  /\ \A n \in RunIds : n # LiveRun(mig) => Quiet(n)
  /\ \A n \in RunIds : n # LiveRun(cache) => Quiet(n)
  /\ \A n \in RunIds : jobsSeen[n] \in {"done", "deleting"} => jobs[n] # "running"

EndedInv ==
  /\ Settled(mig) => jobs[mig.run] # "running"
  /\ Settled(cache) => jobs[cache.run] # "running"

\* A verify of this worker was begun when nothing scanned, and nothing scans since.
DrainInv ==
  /\ verifyOf <= started
  /\ verify # "none" /\ verifyOf = started =>
       /\ worker # "running" /\ ~(Active /\ pass.goal = "start")
       /\ \A n \in RunIds : Quiet(n)
  /\ mig.proven \/ cache.proven \/ (Active /\ pass.m.proven) => verify = "ok"

IInv == TypeOK /\ VersionInv /\ AttemptInv /\ PassInv /\ RunInv /\ EndedInv /\ DrainInv

-----------------------------------------------------------------------------
(* Types. *)

\* A Migration as the record of its fields, which the provers take apart.
LEMMA MigrationFields ==
  ASSUME NEW m \in Migrations
  PROVE  /\ m.requested \in BOOLEAN /\ m.suspend \in BOOLEAN /\ m.valid \in BOOLEAN
         /\ m.attempts \in 0..MaxAttempts /\ m.worker \in BOOLEAN /\ m.stage \in Stages
         /\ m.armed \in BOOLEAN /\ m.run \in 0..MaxRuns /\ m.outcome \in Outcomes
         /\ m.proven \in BOOLEAN /\ m.failed \in BOOLEAN /\ m.complete \in BOOLEAN
  BY DEF Migrations

\* updateStatus, field by field: what the pass changed, over what the server holds; the
\* condition list goes as a whole.
LEMMA MergeShape ==
  ASSUME NEW cur \in Migrations, NEW base \in Migrations, NEW m \in Migrations
  PROVE  /\ Merge(cur, base, m) \in Migrations
         /\ Merge(cur, base, m).run = IF m.run = base.run THEN cur.run ELSE m.run
         /\ Merge(cur, base, m).armed = IF m.armed = base.armed THEN cur.armed ELSE m.armed
         /\ Merge(cur, base, m).outcome = IF m.outcome = base.outcome THEN cur.outcome ELSE m.outcome
         /\ Merge(cur, base, m).attempts = IF m.attempts = base.attempts THEN cur.attempts ELSE m.attempts
         /\ Merge(cur, base, m).proven \in {cur.proven, m.proven}
<1> DEFINE Keeps(f) == m[f] = base[f] /\ ~((\E g \in Listed : m[g] # base[g]) /\ f \in Listed)
           F == {"requested", "suspend", "valid", "attempts", "worker", "stage",
                 "armed", "run", "outcome", "proven", "failed", "complete"}
           v == [f \in F |-> IF Keeps(f) THEN cur[f] ELSE m[f]]
<1>1. DOMAIN cur = F /\ Merge(cur, base, m) = v
  <2>1. DOMAIN cur = F
    BY DEF Migrations
  <2> QED BY <2>1 DEF Merge
<1>2. v = [requested |-> v.requested, suspend |-> v.suspend, valid |-> v.valid,
           attempts |-> v.attempts, worker |-> v.worker, stage |-> v.stage,
           armed |-> v.armed, run |-> v.run, outcome |-> v.outcome,
           proven |-> v.proven, failed |-> v.failed, complete |-> v.complete]
  OBVIOUS
<1>3. \A f \in F : v[f] \in {cur[f], m[f]}
  OBVIOUS
<1>4. v \in Migrations
  <2> HIDE DEF v
  <2>1. /\ v.requested \in {cur.requested, m.requested} /\ v.suspend \in {cur.suspend, m.suspend}
        /\ v.valid \in {cur.valid, m.valid} /\ v.attempts \in {cur.attempts, m.attempts}
        /\ v.worker \in {cur.worker, m.worker} /\ v.stage \in {cur.stage, m.stage}
        /\ v.armed \in {cur.armed, m.armed} /\ v.run \in {cur.run, m.run}
        /\ v.outcome \in {cur.outcome, m.outcome} /\ v.proven \in {cur.proven, m.proven}
        /\ v.failed \in {cur.failed, m.failed} /\ v.complete \in {cur.complete, m.complete}
    BY <1>3
  <2>2. /\ v.requested \in BOOLEAN /\ v.suspend \in BOOLEAN /\ v.valid \in BOOLEAN
        /\ v.attempts \in 0..MaxAttempts /\ v.worker \in BOOLEAN /\ v.stage \in Stages
        /\ v.armed \in BOOLEAN /\ v.run \in 0..MaxRuns /\ v.outcome \in Outcomes
        /\ v.proven \in BOOLEAN /\ v.failed \in BOOLEAN /\ v.complete \in BOOLEAN
    BY <2>1, MigrationFields
  <2> QED BY <1>2, <2>2 DEF Migrations
<1>5. \A f \in {"run", "armed", "outcome", "attempts"} :
        v[f] = IF m[f] = base[f] THEN cur[f] ELSE m[f]
  BY DEF Listed
<1> QED BY <1>1, <1>3, <1>4, <1>5

LEMMA NewIsMigration == NewMigration \in Migrations
  BY BoundsAssumption DEF NewMigration, Migrations, Stages, Outcomes

LEMMA IdleIsPass == Idle \in Passes
  BY NewIsMigration DEF Idle, Passes, Steps, Goals

\* The records the passes make from a Migration m.
LEMMA Changes ==
  ASSUME NEW m \in Migrations
  PROVE  /\ \A st \in Stages : [m EXCEPT !.stage = st] \in Migrations
         /\ \A o \in Outcomes : [m EXCEPT !.outcome = o] \in Migrations
         /\ [m EXCEPT !.failed = TRUE] \in Migrations
         /\ [m EXCEPT !.worker = FALSE] \in Migrations
         /\ [m EXCEPT !.armed = FALSE] \in Migrations
         /\ \A done \in BOOLEAN : [m EXCEPT !.proven = TRUE, !.complete = done] \in Migrations
         /\ \A n \in 0..MaxAttempts : [m EXCEPT !.attempts = n, !.worker = TRUE] \in Migrations
         /\ \A n \in 0..MaxRuns : [m EXCEPT !.armed = TRUE, !.run = n, !.outcome = "running"] \in Migrations
         /\ [m EXCEPT !.requested = ~@] \in Migrations
         /\ [m EXCEPT !.suspend = ~@] \in Migrations
         /\ [m EXCEPT !.valid = FALSE] \in Migrations
  BY DEF Migrations, Outcomes

\* The fields the invariant reads, in the record each pass makes.
SameRun(new, old) ==
  new.run = old.run /\ new.armed = old.armed /\ new.attempts = old.attempts /\ new.proven = old.proven

\* observeRehearsal changes the outcome only, and to an end that the Job shows.
LEMMA ObservedShape ==
  ASSUME TypeOK, NEW m \in Migrations
  PROVE  /\ Observed(m) \in Migrations /\ SameRun(Observed(m), m)
         /\ \/ Observed(m).outcome = m.outcome
            \/ /\ m.outcome = "running" /\ Observed(m).outcome = "ended"
               /\ RehearsalJob(m.run) \in {"none", "done"}
<1>1. CASE m.outcome = "running" /\ RehearsalJob(m.run) \in {"none", "done"}
  <2>1. Observed(m) = [m EXCEPT !.outcome = "ended"]
    BY <1>1 DEF Observed
  <2>2. Observed(m) \in Migrations
    BY <2>1, Changes DEF Outcomes
  <2> QED BY <1>1, <2>1, <2>2 DEF SameRun, Migrations
<1>2. CASE ~(m.outcome = "running" /\ RehearsalJob(m.run) \in {"none", "done"})
  <2>1. Observed(m) = m
    BY <1>2 DEF Observed
  <2> QED BY <2>1 DEF SameRun
<1> QED BY <1>1, <1>2

\* What the start of a pass leaves in pass, for any of its goals.
Begun(new) ==
  /\ new \in Passes /\ new.base = cache
  /\ new.step \in {"cancel", "sweep", "write", "act", "replace"}
  /\ SameRun(new.m, cache)
  /\ \/ new.m.outcome = cache.outcome
     \/ /\ cache.outcome = "running" /\ new.m.outcome = "ended"
        /\ RehearsalJob(cache.run) \in {"none", "done"}
  /\ new.step = "cancel" => new.m.outcome = "running"
  /\ new.step = "act" => new.goal = "start"
  /\ new.step = "replace" => new.goal = "start" /\ cache.run # 0
  /\ new.goal = "start" =>
       new.step \in {"act", "replace"} /\ ~cache.armed /\ cache.run < MaxRuns /\ worker = "running"
  /\ new.goal = "disarm" => cache.armed /\ (new.step = "cancel" \/ new.m.outcome # "running")
  /\ new.goal = "finish" => worker = "ok"

LEMMA BeginShape ==
  ASSUME TypeOK, NEW step \in {"cancel", "sweep", "write", "act", "replace"}, NEW goal \in Goals,
         NEW m \in Migrations, Begin(step, goal, m)
  PROVE  /\ pass' \in Passes
         /\ pass'.step = step /\ pass'.goal = goal /\ pass'.m = m /\ pass'.base = cache
  BY DEF TypeOK, Passes, Begin, Steps

LEMMA BeginCancelShape ==
  ASSUME TypeOK, NEW goal \in Goals \ {"start"}, NEW m \in Migrations, BeginCancel(goal, m),
         SameRun(m, cache), m.outcome = cache.outcome,
         goal = "disarm" => cache.armed, goal = "finish" => worker = "ok"
  PROVE  Begun(pass')
<1> DEFINE step == IF m.outcome = "running" THEN "cancel" ELSE "sweep"
<1>1. Begin(step, goal, m)
  BY DEF BeginCancel
<1>2. step \in {"cancel", "sweep", "write", "act", "replace"} /\ (step = "cancel" <=> m.outcome = "running")
      /\ step \notin {"act", "replace"}
  OBVIOUS
<1> HIDE DEF step
<1>3. /\ pass' \in Passes
      /\ pass'.step = step /\ pass'.goal = goal /\ pass'.m = m /\ pass'.base = cache
  BY <1>1, <1>2, BeginShape
<1> QED BY <1>2, <1>3 DEF Begun

\* A pass that writes at once what it read, or what it saw of the run.
LEMMA BeginWriteShape ==
  ASSUME TypeOK, NEW m \in Migrations, Begin("write", "none", m), SameRun(m, cache),
         \/ m.outcome = cache.outcome
         \/ /\ cache.outcome = "running" /\ m.outcome = "ended"
            /\ RehearsalJob(cache.run) \in {"none", "done"}
  PROVE  Begun(pass')
<1>1. /\ pass' \in Passes
      /\ pass'.step = "write" /\ pass'.goal = "none" /\ pass'.m = m /\ pass'.base = cache
  BY BeginShape DEF Goals
<1> QED BY <1>1 DEF Begun

\* A pass starts: a verdict, a cancel of the run in the status, or a start.
LEMMA ReconcileShape ==
  ASSUME TypeOK, Reconcile
  PROVE  /\ Begun(pass') /\ pass.step = "idle"
         /\ UNCHANGED <<mig, cache, worker, started, jobs, pods, jobsSeen, verify, verifyOf, edits, aborts>>
<1>1. pass.step = "idle" /\ cache \in Migrations
      /\ UNCHANGED <<mig, cache, worker, started, jobs, pods, jobsSeen, verify, verifyOf, edits, aborts>>
  BY DEF Reconcile, TypeOK, workerVars, runVars, verifyVars, bounds
<1>2. SameRun(cache, cache)
  BY DEF SameRun
<1>3. CASE TerminalPass
  <2>1. BeginCancel("end", cache)
    BY <1>3 DEF TerminalPass
  <2> QED BY <1>1, <1>2, <2>1, BeginCancelShape DEF Goals
<1>4. CASE BeginCancel("suspend", cache)
  BY <1>1, <1>2, <1>4, BeginCancelShape DEF Goals
<1>5. CASE Begin("write", "none", [cache EXCEPT !.failed = TRUE])
  <2> DEFINE m == [cache EXCEPT !.failed = TRUE]
  <2>1. m \in Migrations
    BY <1>1, Changes
  <2>2. SameRun(m, cache) /\ m.outcome = cache.outcome
    BY <1>1 DEF SameRun, Migrations
  <2>3. Begin("write", "none", m)
    BY <1>5
  <2> HIDE DEF m
  <2> QED BY <1>1, <2>1, <2>2, <2>3, BeginWriteShape
<1>6. CASE BeginCancel("next", cache)
  BY <1>1, <1>2, <1>6, BeginCancelShape DEF Goals
<1>7. CASE worker = "running" /\ ObserveRunningJob
  <2>1. PICK stage \in NextStages(cache.stage) : ReconcileRehearsal([cache EXCEPT !.stage = stage])
    BY <1>7 DEF ObserveRunningJob
  <2> DEFINE m == [cache EXCEPT !.stage = stage]
  <2>2. stage \in Stages
    BY <1>1, <2>1, MigrationFields DEF NextStages, Stages
  <2>3. m \in Migrations
    BY <1>1, <2>2, Changes
  <2>4. SameRun(m, cache) /\ m.outcome = cache.outcome
    BY <1>1 DEF SameRun, Migrations
  <2>5. ReconcileRehearsal(m)
    BY <2>1
  <2> HIDE DEF m
  <2>6. CASE m.armed /\ BeginCancel("disarm", m)
    BY <1>1, <2>3, <2>4, <2>6, BeginCancelShape DEF Goals, SameRun
  <2>7. CASE BeginCancel("cut", m)
    BY <1>1, <2>3, <2>4, <2>7, BeginCancelShape DEF Goals
  <2>8. CASE Begin("write", "none", Observed(m))
    <3>1. /\ Observed(m) \in Migrations /\ SameRun(Observed(m), cache)
          /\ \/ Observed(m).outcome = cache.outcome
             \/ /\ cache.outcome = "running" /\ Observed(m).outcome = "ended"
                /\ RehearsalJob(cache.run) \in {"none", "done"}
      <4>1. m.run = cache.run
        BY <2>4 DEF SameRun
      <4> QED BY <2>3, <2>4, <4>1, ObservedShape DEF SameRun
    <3> QED BY <1>1, <2>8, <3>1, BeginWriteShape
  <2>9. CASE Begin("write", "none", m)
    BY <1>1, <2>3, <2>4, <2>9, BeginWriteShape
  <2>10. CASE ~m.armed /\ m.run < MaxRuns /\ Begin(IF m.run = 0 THEN "act" ELSE "replace", "start", m)
    <3> DEFINE step == IF m.run = 0 THEN "act" ELSE "replace"
    <3>1. Begin(step, "start", m)
      BY <2>10
    <3>2. step \in {"act", "replace"} /\ (step = "replace" => m.run # 0)
      OBVIOUS
    <3> HIDE DEF step
    <3>3. /\ pass' \in Passes
          /\ pass'.step = step /\ pass'.goal = "start" /\ pass'.m = m /\ pass'.base = cache
      BY <3>1, <3>2, <2>3, BeginShape DEF Goals
    <3> QED BY <1>1, <1>7, <2>4, <2>10, <3>2, <3>3 DEF Begun, SameRun
  <2> QED BY <2>5, <2>6, <2>7, <2>8, <2>9, <2>10 DEF ReconcileRehearsal
<1>8. CASE worker = "ok" /\ BeginCancel("finish", [cache EXCEPT !.stage = "cutting"])
  <2> DEFINE m == [cache EXCEPT !.stage = "cutting"]
  <2>1. m \in Migrations
    BY <1>1, Changes DEF Stages
  <2>2. SameRun(m, cache) /\ m.outcome = cache.outcome
    BY <1>1 DEF SameRun, Migrations
  <2>3. BeginCancel("finish", m)
    BY <1>8
  <2> HIDE DEF m
  <2> QED BY <1>1, <1>8, <2>1, <2>2, <2>3, BeginCancelShape DEF Goals
<1>9. CASE BeginCancel("failed", cache)
  BY <1>1, <1>2, <1>9, BeginCancelShape DEF Goals
<1> QED BY <1>3, <1>4, <1>5, <1>6, <1>7, <1>8, <1>9, <1>1 DEF Reconcile

-----------------------------------------------------------------------------
(* What each step does, as far as the invariant can tell. *)

\* No step but a start gives a Job or a pod to a run that had none.
Stops ==
  \A n \in RunIds : /\ jobs'[n] = "running" => jobs[n] = "running"
                    /\ pods'[n] => pods[n] \/ jobs[n] = "running"

LEMMA ThenShape ==
  ASSUME TypeOK, NEW step \in Steps, NEW m \in Migrations, Then(step, m)
  PROVE  /\ pass' \in Passes
         /\ pass'.step = step /\ pass'.goal = pass.goal /\ pass'.m = m /\ pass'.base = pass.base
  BY DEF TypeOK, Passes, Then

LEMMA PassFields ==
  ASSUME TypeOK
  PROVE  /\ pass.step \in Steps /\ pass.goal \in Goals
         /\ pass.m \in Migrations /\ pass.base \in Migrations
         /\ mig \in Migrations /\ cache \in Migrations
         /\ jobs \in [RunIds -> JobStates] /\ jobsSeen \in [RunIds -> JobStates]
         /\ pods \in [RunIds -> BOOLEAN]
  BY DEF TypeOK, Passes

LEMMA CancelShape ==
  ASSUME TypeOK, RunInv, CancelRecorded
  PROVE  /\ pass.step = "cancel" /\ pass' \in Passes
         /\ pass'.step = "sweep" /\ pass'.goal = pass.goal /\ pass'.base = pass.base
         /\ SameRun(pass'.m, pass.m) /\ Settled(pass'.m)
         /\ jobs' \in [RunIds -> JobStates] /\ Stops
         /\ pass.m.run \in RunIds => jobs'[pass.m.run] # "running"
         /\ UNCHANGED <<mig, cache, worker, started, pods, jobsSeen, verify, verifyOf, edits, aborts>>
<1> DEFINE job == RehearsalJob(pass.m.run)
           ended == [pass.m EXCEPT !.outcome = "ended"]
           canceled == [pass.m EXCEPT !.outcome = "canceled"]
<1>1. /\ pass.step = "cancel"
      /\ \/ job = "done" /\ Then("sweep", ended) /\ jobs' = jobs
         \/ job # "done" /\ Then("sweep", canceled)
            /\ jobs' = IF job = "running" THEN [jobs EXCEPT ![pass.m.run] = Deleted(@)] ELSE jobs
      /\ UNCHANGED <<mig, cache, worker, started, pods, jobsSeen, verify, verifyOf, edits, aborts>>
  BY DEF CancelRecorded, workerVars, verifyVars, bounds
<1>2. /\ ended \in Migrations /\ SameRun(ended, pass.m) /\ Settled(ended)
      /\ canceled \in Migrations /\ SameRun(canceled, pass.m) /\ Settled(canceled)
  <2>1. ended \in Migrations /\ canceled \in Migrations
    BY PassFields, Changes DEF Outcomes
  <2> QED BY <2>1, PassFields DEF SameRun, Settled, Migrations
<1>3. /\ pass' \in Passes
      /\ pass'.step = "sweep" /\ pass'.goal = pass.goal /\ pass'.base = pass.base
      /\ SameRun(pass'.m, pass.m) /\ Settled(pass'.m)
  <2> HIDE DEF job, ended, canceled
  <2> QED BY <1>1, <1>2, ThenShape DEF Steps
<1>4. jobs' \in [RunIds -> JobStates] /\ Stops
  BY <1>1, PassFields DEF Stops, JobStates, Deleted
<1>5. ASSUME pass.m.run \in RunIds PROVE jobs'[pass.m.run] # "running"
  BY <1>1, <1>5, PassFields DEF RunInv, RehearsalJob, Deleted, JobStates
<1> QED BY <1>1, <1>3, <1>4, <1>5

LEMMA SweepShape ==
  ASSUME TypeOK, SweepUnrecorded
  PROVE  /\ pass.step = "sweep" /\ pass' \in Passes
         /\ pass'.step \in {"act", "write"} /\ pass'.goal = pass.goal
         /\ pass'.m = pass.m /\ pass'.base = pass.base
         /\ jobs' \in [RunIds -> JobStates] /\ Stops /\ Cleared'
         /\ UNCHANGED <<mig, cache, worker, started, pods, jobsSeen, verify, verifyOf, edits, aborts>>
<1>1. /\ pass.step = "sweep" /\ jobs' = Swept
      /\ UNCHANGED <<mig, cache, worker, started, pods, jobsSeen, verify, verifyOf, edits, aborts>>
  BY DEF SweepUnrecorded, workerVars, verifyVars, bounds
<1>2. jobs' \in [RunIds -> JobStates] /\ Stops /\ Cleared'
  BY <1>1, PassFields DEF Swept, Stops, Cleared, JobStates
<1> DEFINE step == IF pass.goal \in {"end", "cut"} THEN "write" ELSE "act"
<1>3. step \in {"act", "write"} /\ Then(step, pass.m)
  BY DEF SweepUnrecorded
<1> HIDE DEF step
<1> QED BY <1>1, <1>2, <1>3, PassFields, ThenShape DEF Steps

LEMMA DeletePreviousShape ==
  ASSUME TypeOK, DeletePreviousRun
  PROVE  /\ pass.step = "replace" /\ pass' \in Passes
         /\ pass'.step = "act" /\ pass'.goal = pass.goal /\ pass'.m = pass.m /\ pass'.base = pass.base
         /\ jobs' \in [RunIds -> JobStates] /\ Stops
         /\ UNCHANGED <<mig, cache, worker, started, pods, jobsSeen, verify, verifyOf, edits, aborts>>
<1>1. /\ pass.step = "replace" /\ jobs' = [jobs EXCEPT ![pass.m.run] = Deleted(@)]
      /\ Then("act", pass.m)
      /\ UNCHANGED <<mig, cache, worker, started, pods, jobsSeen, verify, verifyOf, edits, aborts>>
  BY DEF DeletePreviousRun, workerVars, verifyVars, bounds
<1>2. jobs' \in [RunIds -> JobStates] /\ Stops
  BY <1>1, PassFields DEF Stops, Deleted, JobStates
<1> QED BY <1>1, <1>2, PassFields, ThenShape DEF Steps

LEMMA StartShape ==
  ASSUME TypeOK, PassInv, StartRun
  PROVE  /\ pass.step = "act" /\ pass.goal = "start" /\ ~pass.base.armed /\ pass' \in Passes
         /\ pass.base.run + 1 \in RunIds
         /\ pass'.step = "write" /\ pass'.goal = "start" /\ pass'.base = pass.base
         /\ pass'.m.armed /\ pass'.m.run = pass.base.run + 1 /\ pass'.m.outcome = "running"
         /\ pass'.m.attempts = pass.m.attempts /\ pass'.m.proven = pass.m.proven
         /\ jobs' \in [RunIds -> JobStates]
         /\ \A n \in RunIds :
              \/ jobs'[n] = jobs[n]
              \/ n = pass.base.run + 1 /\ jobs'[n] = "running" /\ jobsSeen[n] = "none"
         /\ UNCHANGED <<mig, cache, worker, started, pods, jobsSeen, verify, verifyOf, edits, aborts>>
<1> DEFINE n == pass.m.run + 1
           m == [pass.m EXCEPT !.armed = TRUE, !.run = n, !.outcome = "running"]
<1>1. /\ pass.step = "act" /\ pass.goal = "start"
      /\ jobs' = IF jobsSeen[n] = "none" /\ jobs[n] = "none" THEN [jobs EXCEPT ![n] = "running"] ELSE jobs
      /\ Then("write", m)
      /\ UNCHANGED <<mig, cache, worker, started, pods, jobsSeen, verify, verifyOf, edits, aborts>>
  BY DEF StartRun, workerVars, verifyVars, bounds
<1>2. ~pass.base.armed /\ pass.base.run < MaxRuns /\ pass.m.run = pass.base.run
  BY <1>1 DEF PassInv, Active, RunBegun, RunKept
<1>3. pass.base.run \in 0..MaxRuns
  BY PassFields, MigrationFields
<1>4. n \in RunIds /\ n = pass.base.run + 1
  BY <1>2, <1>3, BoundsAssumption DEF RunIds
<1>5. /\ m \in Migrations /\ m.armed /\ m.run = n /\ m.outcome = "running"
      /\ m.attempts = pass.m.attempts /\ m.proven = pass.m.proven
  <2>1. n \in 0..MaxRuns
    BY <1>4, BoundsAssumption DEF RunIds
  <2> HIDE DEF n
  <2>2. m \in Migrations
    BY <2>1, PassFields, Changes
  <2> QED BY <2>2, PassFields DEF Migrations
<1> HIDE DEF n, m
<1>6. /\ pass' \in Passes /\ pass'.step = "write" /\ pass'.goal = pass.goal
      /\ pass'.m = m /\ pass'.base = pass.base
  BY <1>1, <1>5, ThenShape DEF Steps
<1>7. /\ jobs' \in [RunIds -> JobStates]
      /\ \A k \in RunIds :
              \/ jobs'[k] = jobs[k]
              \/ k = pass.base.run + 1 /\ jobs'[k] = "running" /\ jobsSeen[k] = "none"
  BY <1>1, <1>4, PassFields DEF JobStates
<1> QED BY <1>1, <1>2, <1>4, <1>5, <1>6, <1>7

LEMMA ActShape ==
  ASSUME TypeOK, ActOnWorker
  PROVE  /\ pass.step = "act" /\ pass.goal \in {"suspend", "failed", "disarm"} /\ pass' \in Passes
         /\ pass'.step = "write" /\ pass'.goal = pass.goal /\ pass'.base = pass.base
         /\ pass'.m.run = pass.m.run /\ pass'.m.outcome = pass.m.outcome
         /\ pass'.m.attempts = pass.m.attempts /\ pass'.m.proven = pass.m.proven
         /\ \/ pass'.m.armed = pass.m.armed
            \/ pass.goal = "disarm" /\ ~RehearsalPod /\ ~pass'.m.armed
         /\ worker' \in {worker, "none"}
         /\ UNCHANGED <<mig, cache, started, jobs, pods, jobsSeen, verify, verifyOf, edits, aborts>>
<1> DEFINE m == IF pass.goal = "disarm" THEN Disarmed(pass.m) ELSE [pass.m EXCEPT !.worker = FALSE]
<1>1. /\ pass.step = "act" /\ pass.goal \in {"suspend", "failed", "disarm"}
      /\ Then("write", m) /\ worker' \in {worker, "none"}
      /\ UNCHANGED <<mig, cache, started, jobs, pods, jobsSeen, verify, verifyOf, edits, aborts>>
  BY DEF ActOnWorker, runVars, verifyVars, bounds
<1>2. /\ m \in Migrations /\ m.run = pass.m.run /\ m.outcome = pass.m.outcome
      /\ m.attempts = pass.m.attempts /\ m.proven = pass.m.proven
      /\ \/ m.armed = pass.m.armed
         \/ pass.goal = "disarm" /\ ~RehearsalPod /\ ~m.armed
  <2>1. CASE pass.goal = "disarm" /\ RehearsalPod
    BY <2>1, PassFields DEF Disarmed
  <2>2. CASE pass.goal = "disarm" /\ ~RehearsalPod
    <3>1. m = [pass.m EXCEPT !.armed = FALSE] /\ m \in Migrations
      BY <2>2, PassFields, Changes DEF Disarmed
    <3> HIDE DEF m
    <3> QED BY <2>2, <3>1, PassFields DEF Migrations
  <2>3. CASE pass.goal # "disarm"
    <3>1. m = [pass.m EXCEPT !.worker = FALSE] /\ m \in Migrations
      BY <2>3, PassFields, Changes
    <3> HIDE DEF m
    <3> QED BY <3>1, PassFields DEF Migrations
  <2> QED BY <2>1, <2>2, <2>3
<1> HIDE DEF m
<1> QED BY <1>1, <1>2, ThenShape DEF Steps

\* nextAttempt waits, fails the Migration, records the worker there is, or begins one.
LEMMA NextShape ==
  ASSUME TypeOK, NextAttempt
  PROVE  /\ pass.step = "act" /\ pass.goal = "next" /\ pass' \in Passes
         /\ pass'.step = "write" /\ pass'.goal = pass.goal /\ pass'.base = pass.base
         /\ pass'.m.run = pass.m.run /\ pass'.m.outcome = pass.m.outcome
         /\ pass'.m.armed = pass.m.armed /\ pass'.m.proven = pass.m.proven
         /\ \/ /\ UNCHANGED <<worker, started>>
               /\ pass'.m.attempts \in {pass.m.attempts, started}
            \/ /\ worker' = "running" /\ started' = pass.m.attempts + 1 /\ started' <= MaxAttempts
               /\ started # started' /\ pass'.m.attempts = started'
         /\ UNCHANGED <<mig, cache, jobs, pods, jobsSeen, verify, verifyOf, edits, aborts>>
<1> DEFINE next == pass.m.attempts + 1
           begun == [pass.m EXCEPT !.attempts = next, !.worker = TRUE]
           failed == [pass.m EXCEPT !.failed = TRUE]
<1>1. /\ pass.step = "act" /\ pass.goal = "next"
      /\ UNCHANGED <<mig, cache, jobs, pods, jobsSeen, verify, verifyOf, edits, aborts>>
      /\ \/ started = next /\ Then("write", begun) /\ UNCHANGED <<worker, started>>
         \/ (Then("write", failed) \/ Then("write", pass.m)) /\ UNCHANGED <<worker, started>>
         \/ /\ started # next /\ ~(pass.m.attempts >= MaxAttempts)
            /\ worker' = "running" /\ started' = next /\ Then("write", begun)
  BY DEF NextAttempt, BudgetSpent, workerVars, runVars, verifyVars, bounds
<1>2. pass.m \in Migrations /\ pass.m.attempts \in 0..MaxAttempts
  BY PassFields, MigrationFields
<1>3. /\ failed \in Migrations /\ failed.run = pass.m.run /\ failed.outcome = pass.m.outcome
      /\ failed.armed = pass.m.armed /\ failed.proven = pass.m.proven
      /\ failed.attempts = pass.m.attempts
  <2>1. failed \in Migrations
    BY <1>2, Changes
  <2> QED BY <1>2, <2>1 DEF Migrations
<1>4. ASSUME next <= MaxAttempts
      PROVE  /\ begun \in Migrations /\ begun.run = pass.m.run /\ begun.outcome = pass.m.outcome
             /\ begun.armed = pass.m.armed /\ begun.proven = pass.m.proven
             /\ begun.attempts = next
  <2>1. next \in 0..MaxAttempts
    BY <1>2, <1>4, BoundsAssumption
  <2> HIDE DEF next
  <2>2. begun \in Migrations
    BY <1>2, <2>1, Changes
  <2> QED BY <1>2, <2>2 DEF Migrations
<1>5. started = next => next <= MaxAttempts
  BY BoundsAssumption DEF TypeOK
<1> HIDE DEF begun, failed
<1>6. CASE started = next /\ Then("write", begun) /\ UNCHANGED <<worker, started>>
  BY <1>1, <1>4, <1>5, <1>6, ThenShape DEF Steps
<1>7. CASE Then("write", failed) /\ UNCHANGED <<worker, started>>
  BY <1>1, <1>3, <1>7, ThenShape DEF Steps
<1>8. CASE Then("write", pass.m) /\ UNCHANGED <<worker, started>>
  BY <1>1, <1>2, <1>8, ThenShape DEF Steps
<1>9. CASE /\ started # next /\ ~(pass.m.attempts >= MaxAttempts)
           /\ worker' = "running" /\ started' = next /\ Then("write", begun)
  <2>1. next <= MaxAttempts
    BY <1>2, <1>9, BoundsAssumption
  <2> QED BY <1>1, <1>4, <1>9, <2>1, ThenShape DEF Steps
<1> QED BY <1>1, <1>6, <1>7, <1>8, <1>9

LEMMA FinishShape ==
  ASSUME TypeOK, FinishFollow
  PROVE  /\ pass.step = "act" /\ pass.goal = "finish" /\ pass' \in Passes
         /\ pass'.step = "write" /\ pass'.goal = pass.goal /\ pass'.base = pass.base
         /\ pass'.m.run = pass.m.run /\ pass'.m.outcome = pass.m.outcome
         /\ pass'.m.armed = pass.m.armed /\ pass'.m.attempts = pass.m.attempts
         /\ pass'.m.proven = pass.m.proven \/ verify = "ok"
         /\ \/ UNCHANGED <<verify, verifyOf>>
            \/ verify = "none" /\ verify' = "running" /\ verifyOf' = started /\ ~DrainWaits(pass.m)
         /\ UNCHANGED <<mig, cache, worker, started, jobs, pods, jobsSeen, edits, aborts>>
<1> DEFINE failed == [pass.m EXCEPT !.failed = TRUE]
           proven(done) == [pass.m EXCEPT !.proven = TRUE, !.complete = done]
<1>1. /\ pass.step = "act" /\ pass.goal = "finish"
      /\ UNCHANGED <<mig, cache, worker, started, jobs, pods, jobsSeen, edits, aborts>>
      /\ \/ UNCHANGED <<verify, verifyOf>>
         \/ verify = "none" /\ verify' = "running" /\ verifyOf' = started /\ ~DrainWaits(pass.m)
      /\ \/ Then("write", pass.m) \/ Then("write", failed)
         \/ verify = "ok" /\ \E done \in BOOLEAN : Then("write", proven(done))
  BY DEF FinishFollow, workerVars, runVars, verifyVars, bounds
<1>2. pass.m \in Migrations
  BY PassFields
<1>3. /\ failed \in Migrations /\ failed.run = pass.m.run /\ failed.outcome = pass.m.outcome
      /\ failed.armed = pass.m.armed /\ failed.proven = pass.m.proven
      /\ failed.attempts = pass.m.attempts
  <2>1. failed \in Migrations
    BY <1>2, Changes
  <2> QED BY <1>2, <2>1 DEF Migrations
<1>4. ASSUME NEW done \in BOOLEAN
      PROVE  /\ proven(done) \in Migrations /\ proven(done).run = pass.m.run
             /\ proven(done).outcome = pass.m.outcome
             /\ proven(done).armed = pass.m.armed /\ proven(done).attempts = pass.m.attempts
  <2>1. proven(done) \in Migrations
    BY <1>2, Changes
  <2> QED BY <1>2, <2>1 DEF Migrations
<1> HIDE DEF failed, proven
<1>5. CASE Then("write", pass.m)
  BY <1>1, <1>2, <1>5, ThenShape DEF Steps
<1>6. CASE Then("write", failed)
  BY <1>1, <1>3, <1>6, ThenShape DEF Steps
<1>7. ASSUME verify = "ok", NEW done \in BOOLEAN, Then("write", proven(done))
      PROVE  /\ pass' \in Passes
             /\ pass'.step = "write" /\ pass'.goal = pass.goal /\ pass'.base = pass.base
             /\ pass'.m.run = pass.m.run /\ pass'.m.outcome = pass.m.outcome
             /\ pass'.m.armed = pass.m.armed /\ pass'.m.attempts = pass.m.attempts
  BY <1>4, <1>7, ThenShape DEF Steps
<1> QED BY <1>1, <1>5, <1>6, <1>7

LEMMA UpdateShape ==
  ASSUME TypeOK, UpdateStatus
  PROVE  /\ pass.step = "write" /\ pass' = Idle
         /\ mig' = Merge(mig, pass.base, pass.m) /\ mig' \in Migrations
         /\ UNCHANGED <<cache, worker, started, jobs, pods, jobsSeen, verify, verifyOf, edits, aborts>>
  BY PassFields, MergeShape DEF UpdateStatus, workerVars, runVars, verifyVars, bounds

LEMMA AbortShape ==
  ASSUME TypeOK, Abort
  PROVE  /\ pass' = Idle /\ aborts' \in 0..MaxAborts
         /\ UNCHANGED <<mig, cache, worker, started, jobs, pods, jobsSeen, verify, verifyOf, edits>>
  BY BoundsAssumption DEF Abort, TypeOK, workerVars, runVars, verifyVars

LEMMA EditShape ==
  ASSUME TypeOK, Edit
  PROVE  /\ mig' \in Migrations /\ SameRun(mig', mig) /\ mig'.outcome = mig.outcome
         /\ edits' \in 0..MaxEdits
         /\ UNCHANGED <<cache, pass, worker, started, jobs, pods, jobsSeen, verify, verifyOf, aborts>>
<1>1. /\ \/ mig' = [mig EXCEPT !.requested = ~@]
         \/ mig' = [mig EXCEPT !.suspend = ~@]
         \/ mig' = [mig EXCEPT !.valid = FALSE]
      /\ UNCHANGED <<cache, pass, worker, started, jobs, pods, jobsSeen, verify, verifyOf, aborts>>
  BY DEF Edit, workerVars, runVars, verifyVars
<1>2. edits' \in 0..MaxEdits
  BY BoundsAssumption DEF Edit, TypeOK
<1>3. mig' \in Migrations
  BY <1>1, PassFields, Changes
<1>4. SameRun(mig', mig) /\ mig'.outcome = mig.outcome
  BY <1>1, PassFields DEF SameRun, Migrations
<1> QED BY <1>1, <1>2, <1>3, <1>4

LEMMA JobStepShape ==
  ASSUME TypeOK, NEW n \in RunIds, JobSteps(n)
  PROVE  /\ jobs' \in [RunIds -> JobStates] /\ pods' \in [RunIds -> BOOLEAN] /\ Stops
         /\ UNCHANGED <<mig, cache, pass, worker, started, jobsSeen, verify, verifyOf, edits, aborts>>
<1>1. CASE PodStarts(n)
  BY <1>1, PassFields DEF PodStarts, Stops, workerVars, verifyVars, bounds
<1>2. CASE RunEnds(n)
  BY <1>2, PassFields DEF RunEnds, Stops, JobStates, workerVars, verifyVars, bounds
<1>3. CASE PodStops(n)
  BY <1>3, PassFields DEF PodStops, Stops, workerVars, verifyVars, bounds
<1>4. CASE JobGoes(n)
  BY <1>4, PassFields DEF JobGoes, Stops, JobStates, workerVars, verifyVars, bounds
<1> QED BY <1>1, <1>2, <1>3, <1>4 DEF JobSteps

-----------------------------------------------------------------------------
(* The invariant, step by step. *)

LEMMA InitEstablishes == ASSUME Init PROVE IInv
<1>1. /\ mig \in Migrations /\ SameRun(mig, NewMigration) /\ mig.outcome = "none"
      /\ ~mig.armed /\ mig.run = 0 /\ mig.attempts = 0 /\ ~mig.proven
  BY NewIsMigration DEF Init, NewMigration, SameRun, Migrations
<1>2. pass \in Passes /\ pass.step = "idle"
  BY IdleIsPass DEF Init, Idle
<1>3. TypeOK
  BY <1>1, <1>2, BoundsAssumption DEF Init, TypeOK, JobStates
<1>4. VersionInv
  BY <1>1, <1>2 DEF Init, VersionInv, WellRun, Ahead, Active
<1>5. AttemptInv
  BY <1>1, <1>2 DEF Init, AttemptInv, Active
<1>6. PassInv
  BY <1>2 DEF PassInv, Active
<1>7. RunInv
  BY DEF Init, RunInv, Quiet
<1>8. EndedInv
  BY <1>1 DEF Init, EndedInv, Settled
<1>9. DrainInv
  BY <1>1, <1>2 DEF Init, DrainInv, Active
<1> QED BY <1>3, <1>4, <1>5, <1>6, <1>7, <1>8, <1>9 DEF IInv

LEMMA TypeStep == ASSUME IInv, [Next]_vars PROVE TypeOK'
<1> USE DEF TypeOK, IInv
<1>1. CASE Reconcile
  BY <1>1, ReconcileShape DEF Begun
<1>2. CASE CancelRecorded
  BY <1>2, CancelShape
<1>3. CASE SweepUnrecorded
  BY <1>3, SweepShape
<1>4. CASE DeletePreviousRun
  BY <1>4, DeletePreviousShape
<1>5. CASE StartRun
  BY <1>5, StartShape
<1>6. CASE ActOnWorker
  BY <1>6, ActShape
<1>7. CASE NextAttempt
  <2>1. pass.m.attempts \in 0..MaxAttempts
    BY PassFields, MigrationFields
  <2>2. started' \in 0..MaxAttempts
    BY <1>7, <2>1, NextShape, BoundsAssumption
  <2> QED BY <1>7, <2>2, NextShape
<1>8. CASE FinishFollow
  BY <1>8, FinishShape
<1>9. CASE UpdateStatus
  BY <1>9, UpdateShape, IdleIsPass
<1>10. CASE Abort
  BY <1>10, AbortShape, IdleIsPass
<1>11. CASE CacheSync
  BY <1>11 DEF CacheSync, workerVars, runVars, verifyVars, bounds
<1>12. CASE JobCacheSync
  BY <1>12 DEF JobCacheSync, workerVars, verifyVars, bounds
<1>13. CASE Edit
  BY <1>13, EditShape
<1>14. CASE WorkerExits
  BY <1>14 DEF WorkerExits, runVars, verifyVars, bounds
<1>15. CASE VerifyEnds
  BY <1>15 DEF VerifyEnds, workerVars, runVars, bounds
<1>16. ASSUME NEW n \in RunIds, JobSteps(n) PROVE TypeOK'
  BY <1>16, JobStepShape
<1>17. CASE UNCHANGED vars
  BY <1>17 DEF vars, workerVars, runVars, verifyVars, bounds
<1> QED BY <1>1, <1>2, <1>3, <1>4, <1>5, <1>6, <1>7, <1>8, <1>9, <1>10, <1>11, <1>12, <1>13,
           <1>14, <1>15, <1>16, <1>17 DEF Next, PassStep

\* Numbers, as the provers need them.
LEMMA Numbers ==
  ASSUME TypeOK
  PROVE  /\ mig.attempts \in Nat /\ cache.attempts \in Nat /\ pass.base.attempts \in Nat
         /\ pass.m.attempts \in Nat /\ started \in Nat /\ verifyOf \in Nat
         /\ mig.run \in Nat /\ cache.run \in Nat /\ pass.base.run \in Nat /\ pass.m.run \in Nat
         /\ mig.armed \in BOOLEAN /\ cache.armed \in BOOLEAN
         /\ pass.base.armed \in BOOLEAN /\ pass.m.armed \in BOOLEAN
<1>1. \A m \in Migrations : m.attempts \in Nat /\ m.run \in Nat /\ m.armed \in BOOLEAN
  BY MigrationFields, BoundsAssumption
<1>2. started \in Nat /\ verifyOf \in Nat
  BY BoundsAssumption DEF TypeOK
<1> QED BY <1>1, <1>2, PassFields

LEMMA AttemptStep == ASSUME IInv, [Next]_vars PROVE AttemptInv'
<1>0. TypeOK /\ AttemptInv /\ RunInv /\ PassInv
  BY DEF IInv
<1> USE <1>0, Numbers DEF AttemptInv, Active
<1>1. CASE Reconcile
  BY <1>1, ReconcileShape DEF Begun, SameRun
<1>2. CASE CancelRecorded
  BY <1>2, CancelShape DEF SameRun
<1>3. CASE SweepUnrecorded
  BY <1>3, SweepShape
<1>4. CASE DeletePreviousRun
  BY <1>4, DeletePreviousShape
<1>5. CASE StartRun
  BY <1>5, StartShape
<1>6. CASE ActOnWorker
  BY <1>6, ActShape
<1>7. CASE NextAttempt
  BY <1>7, NextShape
<1>8. CASE FinishFollow
  BY <1>8, FinishShape
<1>9. CASE UpdateStatus
  <2>1. mig'.attempts \in {mig.attempts, started} /\ pass'.step = "idle"
    BY <1>9, UpdateShape, MergeShape, PassFields DEF Idle
  <2> QED BY <1>9, <2>1, UpdateShape
<1>10. CASE Abort
  BY <1>10, AbortShape DEF Idle
<1>11. CASE CacheSync
  BY <1>11 DEF CacheSync, workerVars, runVars, verifyVars, bounds
<1>12. CASE JobCacheSync
  BY <1>12 DEF JobCacheSync, workerVars, verifyVars, bounds
<1>13. CASE Edit
  BY <1>13, EditShape DEF SameRun
<1>14. CASE WorkerExits
  BY <1>14 DEF WorkerExits, runVars, verifyVars, bounds
<1>15. CASE VerifyEnds
  BY <1>15 DEF VerifyEnds, workerVars, runVars, bounds
<1>16. ASSUME NEW n \in RunIds, JobSteps(n) PROVE AttemptInv'
  BY <1>16, JobStepShape
<1>17. CASE UNCHANGED vars
  BY <1>17 DEF vars, workerVars, runVars, verifyVars, bounds
<1> QED BY <1>1, <1>2, <1>3, <1>4, <1>5, <1>6, <1>7, <1>8, <1>9, <1>10, <1>11, <1>12, <1>13,
           <1>14, <1>15, <1>16, <1>17 DEF Next, PassStep

\* What the server holds after a write, whatever the copy the pass began from.
LEMMA WriteAhead ==
  ASSUME IInv, UpdateStatus
  PROVE  WellRun(mig') /\ Ahead(mig', cache)
<1>1. /\ mig'.run = IF pass.m.run = pass.base.run THEN mig.run ELSE pass.m.run
      /\ mig'.armed = IF pass.m.armed = pass.base.armed THEN mig.armed ELSE pass.m.armed
      /\ mig'.outcome = IF pass.m.outcome = pass.base.outcome THEN mig.outcome ELSE pass.m.outcome
  BY UpdateShape, MergeShape, PassFields DEF IInv
<1>2. /\ WellRun(mig) /\ WellRun(cache) /\ WellRun(pass.base)
      /\ Ahead(mig, cache) /\ Ahead(cache, pass.base) /\ Ahead(mig, pass.base)
  BY UpdateShape DEF IInv, VersionInv, Active
<1>3. CASE RunBegun
  <2>1. ~pass.base.armed
    BY <1>3, UpdateShape DEF IInv, PassInv, Active, RunBegun
  <2>2. pass.m.run # pass.base.run /\ pass.m.armed # pass.base.armed
        /\ pass.m.outcome # pass.base.outcome
    <3>1. pass.m.run # pass.base.run
      BY <1>3, Numbers DEF IInv, RunBegun
    <3> QED BY <1>2, <1>3, <2>1, <3>1 DEF RunBegun, WellRun
  <2>3. mig'.run = pass.base.run + 1 /\ mig'.armed /\ mig'.outcome = "running"
    BY <1>1, <1>3, <2>2 DEF RunBegun
  <2> QED BY <1>2, <2>1, <2>3, Numbers DEF IInv, WellRun, Ahead
<1>4. CASE RunKept /\ pass.m.armed = pass.base.armed
  <2>1. mig'.run = mig.run /\ mig'.armed = mig.armed
    BY <1>1, <1>4 DEF RunKept
  <2>2. CASE pass.m.outcome = pass.base.outcome
    BY <1>1, <1>2, <2>1, <2>2 DEF WellRun, Ahead
  <2>3. CASE pass.m.outcome # pass.base.outcome
    <3>1. pass.base.outcome = "running" /\ mig'.outcome \in {"ended", "canceled"}
      BY <1>1, <1>4, <2>3 DEF RunKept, Settled
    <3>2. pass.base.armed
      BY <1>2, <3>1 DEF WellRun
    <3>3. mig.run = pass.base.run /\ cache.run = pass.base.run /\ mig.run # 0
      BY <1>2, <3>2 DEF Ahead, WellRun
    <3>4. mig.armed => cache.armed
      BY <1>2, <3>3, Numbers DEF Ahead, IInv
    <3> QED BY <1>2, <2>1, <3>1, <3>3, <3>4 DEF WellRun, Ahead
  <2> QED BY <2>2, <2>3
<1>5. CASE RunKept /\ RunDisarmed
  <2>1. mig.run = pass.base.run /\ cache.run = pass.base.run /\ mig.run # 0
    BY <1>2, <1>5 DEF Ahead, RunDisarmed, WellRun
  <2>2. mig'.run = mig.run /\ ~mig'.armed
    BY <1>1, <1>5, Numbers DEF RunKept, RunDisarmed, IInv
  <2>3. mig'.outcome # "running"
    BY <1>1, <1>2, <1>5 DEF Ahead, RunDisarmed
  <2>4. mig'.outcome # "none"
    BY <1>1, <1>2, <1>5, <2>1 DEF WellRun, RunKept, Settled
  <2> QED BY <2>1, <2>2, <2>3, <2>4 DEF WellRun, Ahead
<1> QED BY <1>3, <1>4, <1>5, UpdateShape DEF IInv, PassInv, Active

LEMMA VersionStep == ASSUME IInv, [Next]_vars PROVE VersionInv'
<1>0. TypeOK /\ VersionInv /\ RunInv /\ PassInv
  BY DEF IInv
<1>1. CASE Reconcile
  BY <1>0, <1>1, ReconcileShape DEF Begun, VersionInv, Active, Ahead
<1>2. CASE UpdateStatus
  <2>1. ~Active'
    BY <1>0, <1>2, UpdateShape DEF Active, Idle
  <2> QED BY <1>0, <1>2, <2>1, UpdateShape, WriteAhead DEF VersionInv
<1>3. CASE Abort
  BY <1>0, <1>3, AbortShape DEF VersionInv, Active, Idle
<1>4. CASE CacheSync
  BY <1>0, <1>4 DEF CacheSync, VersionInv, Active, Ahead
<1>5. CASE Edit
  BY <1>0, <1>5, EditShape DEF SameRun, VersionInv, Active, WellRun, Ahead
<1>6. ASSUME mig' = mig, cache' = cache, Active, pass'.base = pass.base
      PROVE  VersionInv'
  BY <1>0, <1>6 DEF VersionInv
<1>7. CASE CancelRecorded
  BY <1>0, <1>6, <1>7, CancelShape DEF Active
<1>8. CASE SweepUnrecorded
  BY <1>0, <1>6, <1>8, SweepShape DEF Active
<1>9. CASE DeletePreviousRun
  BY <1>0, <1>6, <1>9, DeletePreviousShape DEF Active
<1>10. CASE StartRun
  BY <1>0, <1>6, <1>10, StartShape DEF Active
<1>11. CASE ActOnWorker
  BY <1>0, <1>6, <1>11, ActShape DEF Active
<1>12. CASE NextAttempt
  BY <1>0, <1>6, <1>12, NextShape DEF Active
<1>13. CASE FinishFollow
  BY <1>0, <1>6, <1>13, FinishShape DEF Active
<1>14. ASSUME UNCHANGED <<mig, cache, pass>> PROVE VersionInv'
  BY <1>0, <1>14 DEF VersionInv, Active
<1>15. CASE JobCacheSync \/ WorkerExits \/ VerifyEnds \/ UNCHANGED vars
  BY <1>14, <1>15 DEF JobCacheSync, WorkerExits, VerifyEnds, vars
<1>16. ASSUME NEW n \in RunIds, JobSteps(n) PROVE VersionInv'
  BY <1>0, <1>14, <1>16, JobStepShape
<1> QED BY <1>1, <1>2, <1>3, <1>4, <1>5, <1>7, <1>8, <1>9, <1>10, <1>11, <1>12, <1>13, <1>15, <1>16
        DEF Next, PassStep

\* A step that starts nothing leaves quiet what is quiet, and swept what is swept.
LEMMA StopsKeepQuiet ==
  ASSUME Stops
  PROVE  /\ \A n \in RunIds : Quiet(n) => Quiet(n)'
         /\ Cleared => Cleared'
         /\ Cleared /\ ~RehearsalPod => ~RehearsalPod'
  BY DEF Stops, Quiet, Cleared, RehearsalPod

\* Every step but a start starts nothing.
LEMMA StepStops ==
  ASSUME IInv, [Next]_vars, ~StartRun
  PROVE  Stops
<1>0. TypeOK /\ RunInv
  BY DEF IInv
<1>1. ASSUME UNCHANGED <<jobs, pods>> PROVE Stops
  BY <1>1 DEF Stops
<1>2. CASE Reconcile
  BY <1>1, <1>2 DEF Reconcile, runVars
<1>3. CASE CancelRecorded
  BY <1>0, <1>3, CancelShape
<1>4. CASE SweepUnrecorded
  BY <1>0, <1>4, SweepShape
<1>5. CASE DeletePreviousRun
  BY <1>0, <1>5, DeletePreviousShape
<1>6. CASE ActOnWorker \/ NextAttempt \/ FinishFollow \/ UpdateStatus \/ Abort
  BY <1>1, <1>6 DEF ActOnWorker, NextAttempt, FinishFollow, UpdateStatus, Abort, runVars
<1>7. CASE CacheSync \/ JobCacheSync \/ Edit \/ WorkerExits \/ VerifyEnds \/ UNCHANGED vars
  BY <1>1, <1>7 DEF CacheSync, JobCacheSync, Edit, WorkerExits, VerifyEnds, vars, runVars
<1>8. ASSUME NEW n \in RunIds, JobSteps(n) PROVE Stops
  BY <1>0, <1>8, JobStepShape
<1> QED BY <1>2, <1>3, <1>4, <1>5, <1>6, <1>7, <1>8 DEF Next, PassStep

\* A run that a copy of the Migration calls running is one of the runs.
LEMMA RunningIsARun ==
  ASSUME NEW m \in Migrations, WellRun(m), m.outcome \in {"running", "ended", "canceled"}
  PROVE  m.run \in RunIds
  BY MigrationFields, BoundsAssumption DEF WellRun, RunIds

LEMMA KeptStays ==
  ASSUME IInv, Active, Stops, RunKept, pass'.base = pass.base,
         pass'.m.run = pass.m.run, pass'.m.outcome = pass.m.outcome
  PROVE  RunKept'
<1>1. pass.base.outcome = "running" => pass.base.run \in RunIds
  BY RunningIsARun, PassFields DEF IInv, VersionInv
<1> QED BY <1>1 DEF RunKept, Settled, Stops

LEMMA PassInvStep == ASSUME IInv, [Next]_vars PROVE PassInv'
<1>0. TypeOK /\ VersionInv /\ RunInv /\ PassInv
  BY DEF IInv
<1>1. CASE Reconcile
  <2>1. Begun(pass')
    BY <1>0, <1>1, ReconcileShape
  <2>2. RunKept' /\ pass'.m.armed = pass'.base.armed
    <3>1. pass'.m.run = pass'.base.run /\ pass'.m.armed = pass'.base.armed
      BY <2>1 DEF Begun, SameRun
    <3>2. CASE pass'.m.outcome = cache.outcome
      BY <2>1, <3>1, <3>2 DEF Begun, RunKept
    <3>3. CASE /\ cache.outcome = "running" /\ pass'.m.outcome = "ended"
               /\ RehearsalJob(cache.run) \in {"none", "done"}
      <4>1. cache.run \in RunIds
        BY <1>0, <3>3, PassFields, RunningIsARun DEF VersionInv
      <4>2. jobs[cache.run] # "running"
        BY <1>0, <3>3, <4>1 DEF RunInv, RehearsalJob
      <4> QED BY <1>0, <1>1, <2>1, <3>1, <3>3, <4>2, ReconcileShape DEF Begun, RunKept, Settled
    <3> QED BY <2>1, <3>1, <3>2, <3>3 DEF Begun
  <2> QED BY <1>0, <1>1, <2>1, <2>2, ReconcileShape DEF Begun, PassInv
<1>2. CASE CancelRecorded
  <2>1. /\ pass.m.outcome = "running" /\ RunKept /\ pass.m.armed = pass.base.armed
        /\ pass.goal # "start" /\ pass.base.outcome = "running" /\ Active
    BY <1>0, <1>2, CancelShape DEF PassInv, Active, RunBegun, RunDisarmed, RunKept, Settled
  <2>2. pass.base.run \in RunIds /\ pass.m.run = pass.base.run
    BY <1>0, <2>1, PassFields, RunningIsARun DEF VersionInv, RunKept
  <2>3. RunKept' /\ pass'.m.armed = pass'.base.armed
    BY <1>0, <1>2, <2>1, <2>2, CancelShape DEF SameRun, RunKept
  <2>4. pass'.m.outcome # "running"
    BY <1>0, <1>2, CancelShape DEF Settled
  <2> QED BY <1>0, <1>2, <2>1, <2>3, <2>4, CancelShape DEF PassInv, Active
<1>3. CASE UpdateStatus \/ Abort
  <2>1. pass' = Idle
    BY <1>0, <1>3, UpdateShape, AbortShape
  <2> QED BY <2>1 DEF Idle, PassInv, Active
<1>4. CASE StartRun
  BY <1>0, <1>4, StartShape DEF PassInv, Active, RunBegun
<1>5. ASSUME Active, pass.step # "write" PROVE RunKept /\ pass.m.armed = pass.base.armed
  BY <1>0, <1>5 DEF PassInv, RunBegun, RunDisarmed
<1>6. CASE SweepUnrecorded
  <2>1. pass.step = "sweep" /\ Active /\ Stops /\ Cleared' /\ pass.goal # "start"
    BY <1>0, <1>6, SweepShape DEF Active, PassInv
  <2>2. RunKept' /\ pass'.m.armed = pass'.base.armed
    BY <1>0, <1>5, <1>6, <2>1, KeptStays, SweepShape
  <2> QED BY <1>0, <1>6, <2>1, <2>2, SweepShape DEF PassInv, Active
<1>7. CASE DeletePreviousRun
  <2>1. pass.step = "replace" /\ Active /\ Stops /\ pass.goal = "start"
    BY <1>0, <1>7, DeletePreviousShape DEF Active, PassInv
  <2>2. RunKept' /\ pass'.m.armed = pass'.base.armed
    BY <1>0, <1>5, <1>7, <2>1, KeptStays, DeletePreviousShape
  <2> QED BY <1>0, <1>7, <2>1, <2>2, DeletePreviousShape DEF PassInv, Active
<1>8. CASE ActOnWorker
  <2>1. pass.step = "act" /\ Active /\ Stops /\ pass.goal # "start" /\ Cleared
    BY <1>0, <1>8, ActShape DEF Active, PassInv, Stops
  <2>2. RunKept' /\ pass.m.armed = pass.base.armed
    BY <1>0, <1>5, <1>8, <2>1, KeptStays, ActShape
  <2>3. pass'.m.armed = pass'.base.armed \/ RunDisarmed'
    BY <1>0, <1>8, <2>1, <2>2, ActShape
       DEF PassInv, Active, RunDisarmed, Cleared, RehearsalPod
  <2> QED BY <1>0, <1>8, <2>1, <2>2, <2>3, ActShape DEF PassInv, Active
<1>9. CASE NextAttempt
  <2>1. pass.step = "act" /\ Active /\ Stops
    BY <1>0, <1>9, NextShape DEF Active, Stops
  <2>2. RunKept' /\ pass'.m.armed = pass'.base.armed
    BY <1>0, <1>5, <1>9, <2>1, KeptStays, NextShape
  <2> QED BY <1>0, <1>9, <2>1, <2>2, NextShape DEF PassInv, Active
<1>10. CASE FinishFollow
  <2>1. pass.step = "act" /\ Active /\ Stops
    BY <1>0, <1>10, FinishShape DEF Active, Stops
  <2>2. RunKept' /\ pass'.m.armed = pass'.base.armed
    BY <1>0, <1>5, <1>10, <2>1, KeptStays, FinishShape
  <2> QED BY <1>0, <1>10, <2>1, <2>2, FinishShape DEF PassInv, Active
\* The steps of everyone else.
<1>11. ASSUME pass' = pass, Stops, worker = "ok" => worker' = "ok" PROVE PassInv'
  <2>1. CASE ~Active
    BY <1>0, <1>11, <2>1 DEF PassInv, Active
  <2>2. CASE Active
    <3>1. RunKept => RunKept'
      BY <1>11, <2>2, KeptStays
    <3>2. (RunBegun => RunBegun') /\ (RunDisarmed => RunDisarmed') /\ (Cleared => Cleared')
      BY <1>11, StopsKeepQuiet DEF RunBegun, RunDisarmed
    <3> QED BY <1>0, <1>11, <2>2, <3>1, <3>2 DEF PassInv, Active
  <2> QED BY <2>1, <2>2
<1>12. CASE CacheSync \/ JobCacheSync \/ Edit \/ WorkerExits \/ VerifyEnds \/ UNCHANGED vars
  <2>1. pass' = pass /\ (worker = "ok" => worker' = "ok") /\ Stops
    BY <1>12 DEF CacheSync, JobCacheSync, Edit, WorkerExits, VerifyEnds, vars, workerVars, runVars, Stops
  <2> QED BY <1>11, <2>1
<1>13. ASSUME NEW n \in RunIds, JobSteps(n) PROVE PassInv'
  BY <1>0, <1>11, <1>13, JobStepShape
<1> QED BY <1>1, <1>2, <1>3, <1>4, <1>6, <1>7, <1>8, <1>9, <1>10, <1>12, <1>13 DEF Next, PassStep

\* From a disarmed copy, every later copy has the same next run.
LEMMA NextRunAgreed ==
  ASSUME TypeOK, Active, VersionInv, ~pass.base.armed
  PROVE  /\ LiveRun(mig) = pass.base.run + 1 /\ LiveRun(cache) = pass.base.run + 1
         /\ Settled(mig) => mig.run # pass.base.run + 1
         /\ Settled(cache) => cache.run # pass.base.run + 1
  BY Numbers DEF VersionInv, Ahead, LiveRun, Settled

\* A write records a start, or leaves the run alone but for its end and its disarming.
LEMMA WriteCases ==
  ASSUME IInv, UpdateStatus
  PROVE  \/ /\ ~pass.base.armed
            /\ mig'.armed /\ mig'.run = pass.base.run + 1 /\ mig'.outcome = "running"
         \/ /\ mig'.run = mig.run
            /\ mig'.armed = mig.armed \/ RunDisarmed
            /\ \/ mig'.outcome = mig.outcome
               \/ mig.run = pass.base.run /\ mig.run \in RunIds /\ jobs[mig.run] # "running"
<1>1. /\ mig'.run = IF pass.m.run = pass.base.run THEN mig.run ELSE pass.m.run
      /\ mig'.armed = IF pass.m.armed = pass.base.armed THEN mig.armed ELSE pass.m.armed
      /\ mig'.outcome = IF pass.m.outcome = pass.base.outcome THEN mig.outcome ELSE pass.m.outcome
  BY UpdateShape, MergeShape, PassFields DEF IInv
<1>2. /\ WellRun(pass.base) /\ Ahead(mig, pass.base) /\ Active
  BY UpdateShape DEF IInv, VersionInv, Active
<1>3. CASE RunBegun
  <2>1. ~pass.base.armed
    BY <1>2, <1>3 DEF IInv, PassInv, RunBegun
  <2>2. pass.m.run # pass.base.run /\ pass.m.armed # pass.base.armed
        /\ pass.m.outcome # pass.base.outcome
    <3>1. pass.m.run # pass.base.run
      BY <1>3, Numbers DEF IInv, RunBegun
    <3> QED BY <1>2, <1>3, <2>1, <3>1 DEF RunBegun, WellRun
  <2> QED BY <1>1, <1>3, <2>1, <2>2 DEF RunBegun
<1>4. CASE RunKept /\ (pass.m.armed = pass.base.armed \/ RunDisarmed)
  <2>1. mig'.run = mig.run /\ (mig'.armed = mig.armed \/ RunDisarmed)
    BY <1>1, <1>4 DEF RunKept
  <2>2. CASE pass.m.outcome = pass.base.outcome
    BY <1>1, <2>1, <2>2
  <2>3. CASE pass.m.outcome # pass.base.outcome
    <3>1. pass.base.outcome = "running" /\ jobs[pass.base.run] # "running"
      BY <1>4, <2>3 DEF RunKept
    <3>2. pass.base.run \in RunIds /\ pass.base.armed
      BY <1>2, <3>1, PassFields, RunningIsARun DEF IInv, WellRun
    <3>3. mig.run = pass.base.run
      BY <1>2, <3>2 DEF Ahead
    <3> QED BY <2>1, <3>1, <3>2, <3>3
  <2> QED BY <2>2, <2>3
<1> QED BY <1>2, <1>3, <1>4 DEF IInv, PassInv

LEMMA RunStep == ASSUME IInv, [Next]_vars PROVE RunInv'
<1>0. TypeOK /\ VersionInv /\ RunInv /\ PassInv
  BY DEF IInv
<1>1. CASE StartRun
  <2>1. Active /\ ~pass.base.armed
    BY <1>0, <1>1, StartShape DEF Active
  <2>2. LiveRun(mig) = pass.base.run + 1 /\ LiveRun(cache) = pass.base.run + 1
    BY <1>0, <2>1, NextRunAgreed
  <2>3. \A n \in RunIds : (n # pass.base.run + 1 /\ Quiet(n)) => Quiet(n)'
    BY <1>0, <1>1, StartShape DEF Quiet
  <2>4. \A n \in RunIds : jobsSeen[n] \in {"done", "deleting"} => jobs'[n] # "running"
    BY <1>0, <1>1, StartShape DEF RunInv
  <2> QED BY <1>0, <1>1, <2>2, <2>3, <2>4, StartShape DEF RunInv
<1>2. CASE UpdateStatus
  <2>1. Active
    BY <1>0, <1>2, UpdateShape DEF Active
  <2>2. \A n \in RunIds : n # LiveRun(mig') => Quiet(n)
    <3>1. CASE ~pass.base.armed /\ mig'.armed /\ mig'.run = pass.base.run + 1
      BY <1>0, <2>1, <3>1, NextRunAgreed DEF RunInv, LiveRun
    <3>2. CASE mig'.run = mig.run /\ mig'.armed = mig.armed
      BY <1>0, <3>2 DEF RunInv, LiveRun
    <3>3. CASE RunDisarmed
      BY <3>3 DEF RunDisarmed, Cleared, RehearsalPod, Quiet
    <3> QED BY <1>2, <3>1, <3>2, <3>3, WriteCases
  <2> QED BY <1>0, <1>2, <2>2, UpdateShape DEF RunInv, Quiet
<1>3. CASE CacheSync
  BY <1>0, <1>3 DEF CacheSync, runVars, RunInv, Quiet
<1>4. CASE Edit
  BY <1>0, <1>4, EditShape DEF RunInv, Quiet, SameRun, LiveRun
<1>5. CASE JobCacheSync
  BY <1>0, <1>5 DEF JobCacheSync, RunInv, Quiet
<1>6. ASSUME Stops, UNCHANGED <<mig, cache, jobsSeen>> PROVE RunInv'
  BY <1>0, <1>6, StopsKeepQuiet DEF RunInv, Stops
<1>7. CASE Reconcile
  BY <1>0, <1>6, <1>7, StepStops, ReconcileShape DEF Stops
<1>8. CASE CancelRecorded
  BY <1>0, <1>6, <1>8, CancelShape
<1>9. CASE SweepUnrecorded
  BY <1>0, <1>6, <1>9, SweepShape
<1>10. CASE DeletePreviousRun
  BY <1>0, <1>6, <1>10, DeletePreviousShape
<1>11. CASE ActOnWorker \/ NextAttempt \/ FinishFollow \/ Abort
  <2>1. UNCHANGED <<mig, cache, jobs, pods, jobsSeen>>
    BY <1>0, <1>11, ActShape, NextShape, FinishShape, AbortShape
  <2> QED BY <1>6, <2>1 DEF Stops
<1>12. CASE WorkerExits \/ VerifyEnds \/ UNCHANGED vars
  <2>1. UNCHANGED <<mig, cache, jobs, pods, jobsSeen>>
    BY <1>12 DEF WorkerExits, VerifyEnds, vars, runVars
  <2> QED BY <1>6, <2>1 DEF Stops
<1>13. ASSUME NEW n \in RunIds, JobSteps(n) PROVE RunInv'
  BY <1>0, <1>6, <1>13, JobStepShape
<1> QED BY <1>1, <1>2, <1>3, <1>4, <1>5, <1>7, <1>8, <1>9, <1>10, <1>11, <1>12, <1>13
        DEF Next, PassStep

LEMMA EndedStep == ASSUME IInv, [Next]_vars PROVE EndedInv'
<1>0. TypeOK /\ VersionInv /\ RunInv /\ PassInv /\ EndedInv
  BY DEF IInv
<1>1. /\ Settled(mig) => mig.run \in RunIds
      /\ Settled(cache) => cache.run \in RunIds
  BY <1>0, PassFields, RunningIsARun DEF VersionInv, Settled
<1>2. CASE StartRun
  <2>1. Active /\ ~pass.base.armed
    BY <1>0, <1>2, StartShape DEF Active
  <2> QED BY <1>0, <1>1, <1>2, <2>1, NextRunAgreed, StartShape DEF EndedInv, Settled
<1>3. CASE UpdateStatus
  <2>1. Settled(mig') => jobs[mig'.run] # "running"
    <3>1. CASE mig'.outcome = "running"
      BY <3>1 DEF Settled
    <3>2. CASE mig'.run = mig.run /\ mig'.outcome = mig.outcome
      BY <1>0, <3>2 DEF EndedInv, Settled
    <3>3. CASE mig'.run = mig.run /\ jobs[mig.run] # "running"
      BY <3>3
    <3> QED BY <1>3, <3>1, <3>2, <3>3, WriteCases
  <2> QED BY <1>0, <1>3, <2>1, UpdateShape DEF EndedInv, Settled
<1>4. CASE CacheSync
  BY <1>0, <1>4 DEF CacheSync, runVars, EndedInv, Settled
<1>5. CASE Edit
  BY <1>0, <1>5, EditShape DEF EndedInv, Settled, SameRun
<1>6. ASSUME Stops, UNCHANGED <<mig, cache>> PROVE EndedInv'
  BY <1>0, <1>1, <1>6 DEF EndedInv, Settled, Stops
<1>7. CASE Reconcile
  BY <1>0, <1>6, <1>7, StepStops, ReconcileShape DEF Stops
<1>8. CASE CancelRecorded
  BY <1>0, <1>6, <1>8, CancelShape
<1>9. CASE SweepUnrecorded
  BY <1>0, <1>6, <1>9, SweepShape
<1>10. CASE DeletePreviousRun
  BY <1>0, <1>6, <1>10, DeletePreviousShape
<1>11. CASE ActOnWorker \/ NextAttempt \/ FinishFollow \/ Abort
  <2>1. UNCHANGED <<mig, cache, jobs, pods>>
    BY <1>0, <1>11, ActShape, NextShape, FinishShape, AbortShape
  <2> QED BY <1>6, <2>1 DEF Stops
<1>12. CASE JobCacheSync \/ WorkerExits \/ VerifyEnds \/ UNCHANGED vars
  <2>1. UNCHANGED <<mig, cache, jobs, pods>>
    BY <1>12 DEF JobCacheSync, WorkerExits, VerifyEnds, vars, runVars
  <2> QED BY <1>6, <2>1 DEF Stops
<1>13. ASSUME NEW n \in RunIds, JobSteps(n) PROVE EndedInv'
  BY <1>0, <1>6, <1>13, JobStepShape
<1> QED BY <1>2, <1>3, <1>4, <1>5, <1>7, <1>8, <1>9, <1>10, <1>11, <1>12, <1>13
        DEF Next, PassStep

LEMMA DrainStep == ASSUME IInv, [Next]_vars PROVE DrainInv'
<1>0. TypeOK /\ VersionInv /\ AttemptInv /\ RunInv /\ PassInv /\ DrainInv
  BY DEF IInv
<1> DEFINE Draining == verify # "none" /\ verifyOf = started
           Held == /\ worker # "running" /\ ~(Active /\ pass.goal = "start")
                   /\ \A n \in RunIds : Quiet(n)
           Proven == mig.proven \/ cache.proven \/ (Active /\ pass.m.proven)
<1>1. verifyOf <= started /\ (Draining => Held) /\ (Proven => verify = "ok")
  BY <1>0 DEF DrainInv
<1>2. ASSUME UNCHANGED <<started, verify, verifyOf>>, Stops,
             worker' = "running" => worker = "running",
             Active' /\ pass'.goal = "start" => (Active /\ pass.goal = "start") \/ worker = "running",
             Proven' => Proven
      PROVE  DrainInv'
  BY <1>1, <1>2, StopsKeepQuiet DEF DrainInv
<1>3. CASE Reconcile
  BY <1>0, <1>2, <1>3, StepStops, ReconcileShape DEF Begun, SameRun, Active, Stops
<1>4. CASE CancelRecorded
  BY <1>0, <1>2, <1>4, CancelShape DEF SameRun, Active
<1>5. CASE SweepUnrecorded
  BY <1>0, <1>2, <1>5, SweepShape DEF Active
<1>6. CASE DeletePreviousRun
  BY <1>0, <1>2, <1>6, DeletePreviousShape DEF Active
<1>7. CASE StartRun
  <2>1. ~Draining /\ (Proven' => Proven)
    BY <1>0, <1>1, <1>7, StartShape DEF Active
  <2> QED BY <1>0, <1>1, <1>7, <2>1, StartShape DEF DrainInv
<1>8. CASE ActOnWorker
  BY <1>0, <1>2, <1>8, ActShape DEF Active, Stops
<1>9. CASE NextAttempt
  <2>1. Stops /\ (Proven' => Proven) /\ pass.goal = "next" /\ pass'.goal = "next" /\ UNCHANGED <<verify, verifyOf>>
    BY <1>0, <1>9, NextShape DEF Active, Stops
  <2>2. CASE UNCHANGED <<worker, started>>
    BY <1>2, <2>1, <2>2
  <2>3. CASE started' = pass.m.attempts + 1 /\ started # started'
    <3>1. started <= pass.m.attempts + 1
      BY <1>0, <1>9, Numbers, NextShape DEF AttemptInv, Active
    <3>2. verifyOf < started'
      BY <1>0, <1>1, <2>3, <3>1, Numbers
    <3> HIDE DEF Proven
    <3>3. (verifyOf <= started)' /\ (verifyOf # started)'
      BY <1>0, <2>1, <2>3, <3>2, Numbers
    <3> QED BY <1>1, <2>1, <3>3 DEF DrainInv, Proven
  <2> QED BY <1>0, <1>9, <2>2, <2>3, NextShape
<1>10. CASE FinishFollow
  <2>1. /\ pass.step = "act" /\ pass.goal = "finish" /\ Active /\ worker = "ok" /\ Cleared
        /\ pass'.goal = "finish" /\ Stops /\ UNCHANGED <<mig, cache, worker, started, jobs, pods>>
    BY <1>0, <1>10, FinishShape DEF PassInv, Active, Stops
  <2>2. Proven' => verify = "ok"
    BY <1>0, <1>1, <1>10, <2>1, FinishShape DEF Active
  <2>3. CASE UNCHANGED <<verify, verifyOf>>
    BY <1>1, <2>1, <2>2, <2>3, StopsKeepQuiet DEF DrainInv
  <2>4. CASE verify = "none" /\ verify' = "running" /\ verifyOf' = started /\ ~DrainWaits(pass.m)
    <3>1. ~RehearsalPod
      BY <1>1, <2>1, <2>4 DEF DrainWaits
    <3>2. \A n \in RunIds : Quiet(n)
      BY <2>1, <3>1 DEF Quiet, Cleared, RehearsalPod
    <3>3. ~Proven'
      BY <2>2, <2>4
    <3>4. (verifyOf <= started)'
      BY <1>0, <2>1, <2>4, Numbers
    <3> HIDE DEF Proven
    <3> QED BY <2>1, <3>2, <3>3, <3>4, StopsKeepQuiet DEF DrainInv, Proven
  <2> QED BY <1>0, <1>10, <2>3, <2>4, FinishShape
<1>11. CASE UpdateStatus
  <2>1. mig'.proven \in {mig.proven, pass.m.proven} /\ Active /\ ~Active'
    BY <1>0, <1>11, UpdateShape, MergeShape, PassFields DEF Active, Idle
  <2> QED BY <1>0, <1>2, <1>11, <2>1, UpdateShape DEF Stops
<1>12. CASE Abort
  BY <1>0, <1>2, <1>12, AbortShape DEF Active, Idle, Stops
<1>13. CASE CacheSync
  BY <1>2, <1>13 DEF CacheSync, workerVars, runVars, verifyVars, Active, Stops
<1>14. CASE JobCacheSync
  BY <1>2, <1>14 DEF JobCacheSync, workerVars, verifyVars, Active, Stops
<1>15. CASE Edit
  BY <1>0, <1>2, <1>15, EditShape DEF SameRun, Active, Stops
<1>16. CASE WorkerExits
  BY <1>2, <1>16 DEF WorkerExits, runVars, verifyVars, Active, Stops
<1>17. CASE VerifyEnds
  <2>1. verify = "running" /\ verify' # "none"
        /\ UNCHANGED <<mig, cache, pass, worker, started, jobs, pods, verifyOf>>
    BY <1>17 DEF VerifyEnds, workerVars, runVars
  <2> QED BY <1>1, <2>1 DEF DrainInv, Active, Quiet
<1>18. ASSUME NEW n \in RunIds, JobSteps(n) PROVE DrainInv'
  BY <1>0, <1>2, <1>18, JobStepShape DEF Active
<1>19. CASE UNCHANGED vars
  BY <1>2, <1>19 DEF vars, workerVars, runVars, verifyVars, Active, Stops
<1> QED BY <1>3, <1>4, <1>5, <1>6, <1>7, <1>8, <1>9, <1>10, <1>11, <1>12, <1>13, <1>14, <1>15,
           <1>16, <1>17, <1>18, <1>19 DEF Next, PassStep

-----------------------------------------------------------------------------
(* The theorems. *)

LEMMA Inductive == Spec => []IInv
<1>1. Init => IInv
  BY InitEstablishes
<1>2. IInv /\ [Next]_vars => IInv'
  BY TypeStep, VersionStep, AttemptStep, PassInvStep, RunStep, EndedStep, DrainStep DEF IInv
<1> QED BY <1>1, <1>2, PTL DEF Spec

\* Every variable has its type, however many runs, attempts, edits and lost passes.
THEOREM RehearsalTypeCorrect == Spec => []TypeOK
<1>1. IInv => TypeOK
  BY DEF IInv
<1> QED BY <1>1, Inductive, PTL

\* One full scan at a time (rehearsal.go:72, follow.go:238): the pods of the rehearsal are
\* those of one run, and while a drain verify of this worker runs there are none.
LEMMA OneScan == IInv => ScansAlone
<1> SUFFICES ASSUME IInv PROVE ScansAlone
  OBVIOUS
<1> DEFINE P == {n \in RunIds : pods[n]}
           draining == IF verify = "running" /\ verifyOf = started THEN 1 ELSE 0
<1>1. P \subseteq {LiveRun(mig)}
  BY DEF IInv, RunInv, Quiet
<1>2. draining = 1 => P = {}
  BY DEF IInv, DrainInv, Quiet
<1>3. Cardinality(P) \in {0, 1} /\ (P = {} => Cardinality(P) = 0)
  <2>1. P = {} \/ P = {LiveRun(mig)}
    BY <1>1
  <2> HIDE DEF P
  <2> QED BY <2>1, FS_EmptySet, FS_Singleton
<1>4. draining \in {0, 1}
  OBVIOUS
<1>5. Cardinality(P) + draining <= 1
  <2> HIDE DEF P, draining
  <2> QED BY <1>2, <1>3, <1>4
<1> QED BY <1>5 DEF ScansAlone

\* One full scan at a time, for every number of runs, lost writes and lagging caches.
THEOREM ScansExclude == Spec => []ScansAlone
  BY Inductive, OneScan, PTL

\* A run that the status calls ended is not left scanning (rehearsal.go:253): whoever
\* wrote so had seen its Job finish, deleted it, or asked the server and found none.
THEOREM EndedIsStopped == Spec => []EndedRunIsStopped
<1>1. IInv => EndedRunIsStopped
  BY DEF IInv, EndedInv, Settled, EndedRunIsStopped
<1> QED BY <1>1, Inductive, PTL
=============================================================================
