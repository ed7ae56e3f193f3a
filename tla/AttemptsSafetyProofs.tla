------------------------- MODULE AttemptsSafetyProofs -------------------------
(***************************************************************************)
(* The retry engine against stale reads: for every backoffLimit, however   *)
(* far behind the informers are and wherever passes are cut, a failure is  *)
(* refunded once, a verdict stands, and a worker starts on the spec the    *)
(* server holds.  As long as no probe is scheduled, runs and ends while    *)
(* the informer of Jobs still misses the worker before it (Timely), one    *)
(* worker writes at a time.  The last part is about runs in which no pass  *)
(* is cut and no Job is deleted by others: there a finished Migration      *)
(* leaves no worker.                                                       *)
(***************************************************************************)
EXTENDS MigrationAttemptsProofs, FiniteSetTheorems

(* What the helpers on a Migration keep. *)

\* Holding and failing leave the spec, the attempts, the Job and the gate alone.
LEMMA HoldKeeps ==
  ASSUME NEW m \in Migrations
  PROVE  /\ SetHold(m) \in Migrations /\ EndHold(m) \in Migrations
         /\ SetHold(m).suspend = m.suspend /\ EndHold(m).suspend = m.suspend
         /\ SetHold(m).local = m.local /\ EndHold(m).local = m.local
         /\ SetHold(m).attempts = m.attempts /\ EndHold(m).attempts = m.attempts
         /\ SetHold(m).job = m.job /\ EndHold(m).job = m.job
         /\ SetHold(m).gate = m.gate /\ EndHold(m).gate = m.gate
         /\ SetHold(m).exempt = m.exempt /\ EndHold(m).exempt = m.exempt
<1>1. SetHold(m) \in Migrations /\ EndHold(m) \in Migrations
  BY StatusHelpers
<1> QED BY <1>1 DEF SetHold, EndHold, Migrations

LEMMA FailKeeps ==
  ASSUME NEW m \in Migrations
  PROVE  /\ Fail(m) \in Migrations /\ Fail(m).suspend = m.suspend /\ Fail(m).local = m.local
         /\ Fail(m).attempts = m.attempts /\ Fail(m).job = m.job /\ Fail(m).gate = m.gate
         /\ Fail(m).exempt = m.exempt
<1>1. Fail(m) \in Migrations
  BY StatusHelpers
<1> QED BY <1>1 DEF Fail, EndHold, Migrations

LEMMA FailBudgetKeeps ==
  ASSUME NEW m \in Migrations
  PROVE  /\ FailBudget(m) \in Migrations
         /\ FailBudget(m).suspend = m.suspend /\ FailBudget(m).local = m.local
         /\ FailBudget(m).attempts = m.attempts /\ FailBudget(m).job = m.job
         /\ FailBudget(m).gate = m.gate /\ FailBudget(m).exempt = m.exempt
<1> DEFINE n == [m EXCEPT !.cond.clone = IF m.gate # NoGate THEN "CloneFailed" ELSE @]
<1>1. n \in Migrations
  BY DEF Migrations, Conditions, CloneStates
<1>2. /\ n.suspend = m.suspend /\ n.local = m.local /\ n.attempts = m.attempts /\ n.job = m.job
      /\ n.gate = m.gate /\ n.exempt = m.exempt
  BY DEF Migrations
<1>3. FailBudget(m) = Fail(n)
  BY DEF FailBudget
<1> HIDE DEF n
<1> QED BY <1>1, <1>2, <1>3, FailKeeps

\* Recording an attempt names its Job and drops the gate record of the one before.
LEMMA RecordedShape ==
  ASSUME NEW m \in Migrations
  PROVE  /\ Recorded(m) \in Migrations
         /\ Recorded(m).suspend = m.suspend /\ Recorded(m).local = m.local
         /\ Recorded(m).attempts = m.attempts + 1 /\ Recorded(m).job = m.attempts + 1
         /\ Recorded(m).gate = (IF m.attempts > 0 THEN NoGate ELSE m.gate)
         /\ Recorded(m).exempt = m.exempt
<1> DEFINE cond == [m.cond EXCEPT !.clone = IF @ = "done" THEN "done" ELSE "running"]
           ran == [m EXCEPT !.attempts = m.attempts + 1, !.job = m.attempts + 1, !.phase = "Cloning",
                            !.cond = cond]
<1>1. cond \in Conditions /\ m.attempts + 1 \in Nat /\ "Cloning" \in Phases /\ NoGate \in Gates
  <2>1. NoGate \in Gates /\ "Cloning" \in Phases
    BY DEF Phases, NoGate, Gates, Verdicts
  <2>2. m.attempts + 1 \in Nat /\ m.cond \in Conditions
    BY DEF Migrations
  <2>3. cond \in Conditions
    BY <2>2 DEF Conditions, CloneStates
  <2> QED BY <2>1, <2>2, <2>3
<1>2. Recorded(m) = IF m.attempts > 0 THEN [EndHold(ran) EXCEPT !.gate = NoGate] ELSE ran
  BY DEF Recorded, Migrations
<1> HIDE DEF cond
<1>3. ran \in Migrations
  BY <1>1 DEF Migrations
<1>4. /\ ran.suspend = m.suspend /\ ran.local = m.local /\ ran.attempts = m.attempts + 1
      /\ ran.job = m.attempts + 1 /\ ran.gate = m.gate /\ ran.exempt = m.exempt
  BY <1>1 DEF Migrations
<1> HIDE DEF ran
<1>5. CASE m.attempts > 0
  <2>1. EndHold(ran) \in Migrations /\ EndHold(ran).attempts = ran.attempts
        /\ EndHold(ran).suspend = ran.suspend /\ EndHold(ran).local = ran.local
        /\ EndHold(ran).job = ran.job /\ EndHold(ran).exempt = ran.exempt
    BY <1>3, HoldKeeps
  <2> DEFINE e == EndHold(ran)
  <2>2. Recorded(m) = [e EXCEPT !.gate = NoGate]
    BY <1>2, <1>5
  <2> HIDE DEF e
  <2>3. e \in Migrations
    BY <2>1 DEF e
  <2>4. /\ [e EXCEPT !.gate = NoGate] \in Migrations
        /\ [e EXCEPT !.gate = NoGate].attempts = e.attempts
        /\ [e EXCEPT !.gate = NoGate].suspend = e.suspend
        /\ [e EXCEPT !.gate = NoGate].local = e.local
        /\ [e EXCEPT !.gate = NoGate].job = e.job
        /\ [e EXCEPT !.gate = NoGate].exempt = e.exempt
        /\ [e EXCEPT !.gate = NoGate].gate = NoGate
    BY <1>1, <2>3 DEF Migrations
  <2> QED BY <1>4, <1>5, <2>1, <2>2, <2>4 DEF e
<1>6. CASE ~(m.attempts > 0)
  BY <1>2, <1>3, <1>4, <1>6
<1> QED BY <1>5, <1>6

\* What a merge patch writes: a field that the pass changed, and nothing of the spec.
LEMMA MergeShape ==
  ASSUME NEW cur \in Migrations, NEW base \in Migrations, NEW m \in Migrations
  PROVE  /\ Merge(cur, base, m) \in Migrations
         /\ Merge(cur, base, m).suspend = cur.suspend /\ Merge(cur, base, m).local = cur.local
         /\ Merge(cur, base, m).attempts = (IF m.attempts = base.attempts THEN cur.attempts ELSE m.attempts)
         /\ Merge(cur, base, m).job = (IF m.job = base.job THEN cur.job ELSE m.job)
         /\ Merge(cur, base, m).gate = MergeGate(cur.gate, base.gate, m.gate)
         /\ Merge(cur, base, m).exempt = (IF m.exempt = base.exempt THEN cur.exempt ELSE m.exempt)
<1> HIDE DEF MergeGate
<1>1. Merge(cur, base, m) \in Migrations
  BY MergeType
<1> QED BY <1>1 DEF Merge, Written, Migrations

LEMMA MergeGateShape ==
  ASSUME NEW cur \in Gates, NEW base \in Gates, NEW gate \in Gates
  PROVE  /\ MergeGate(cur, base, gate) \in Gates
         /\ gate = base /\ gate # NoGate => MergeGate(cur, base, gate) = cur
         /\ gate = NoGate => MergeGate(cur, base, gate) = (IF base = NoGate THEN cur ELSE NoGate)
         /\ gate # NoGate =>
              /\ MergeGate(cur, base, gate).attempt =
                   (IF gate.attempt = base.attempt THEN cur.attempt ELSE gate.attempt)
              /\ MergeGate(cur, base, gate).verdict =
                   (IF gate.verdict = base.verdict THEN cur.verdict ELSE gate.verdict)
BY DEF MergeGate, Written, Gates

\* Against the version the pass read, a merge patch stores what the pass made of it.
LEMMA MergeOfBase ==
  ASSUME NEW base \in Migrations, NEW m \in Migrations, m.suspend = base.suspend, m.local = base.local
  PROVE  Merge(base, base, m) = m
<1> DEFINE new == Merge(base, base, m)
<1>1. MergeGate(base.gate, base.gate, m.gate) = m.gate
  <2>1. base.gate \in Gates /\ m.gate \in Gates /\ NoGate \in Gates
    BY DEF Migrations, NoGate, Gates, Verdicts
  <2> QED BY <2>1 DEF MergeGate, Written, Gates
<1>2. /\ new.attempts = m.attempts /\ new.exempt = m.exempt /\ new.job = m.job /\ new.cond = m.cond
      /\ new.phase = m.phase /\ new.suspend = base.suspend /\ new.local = base.local
      /\ new.gate = MergeGate(base.gate, base.gate, m.gate) /\ new \in Migrations
  <2> HIDE DEF MergeGate
  <2>1. Merge(base, base, m) \in Migrations
    BY MergeType
  <2> QED BY <2>1 DEF Merge, Written, Migrations
<1> HIDE DEF new
<1> QED BY <1>1, <1>2 DEF Migrations, new

-----------------------------------------------------------------------------
(* What each step does to the versions, the passes and the Jobs. *)

Active == pass.step # "idle"

\* A pass goes on with the version it read: the spec untouched, the attempts counted on
\* only by the step that records one, the Job at most forgotten.
SameSpec(m, base) == m.suspend = base.suspend /\ m.local = base.local
KeepsAttempt(m, base) ==
  SameSpec(m, base) /\ m.attempts = base.attempts /\ m.exempt = base.exempt /\ m.job \in {0, base.job}

\* The verdict of a gate record that has none; the SMT encoding has no empty string.
NoVerdict == ""

LEMMA NoVerdictIs ==
  /\ NoVerdict \in Verdicts /\ "Counted" # NoVerdict /\ "Exempt" # NoVerdict
  /\ NoGate = [attempt |-> 0, verdict |-> NoVerdict]
  /\ \A x : Undecided(x) <=> OnFailurePath(x) /\ x.gate.verdict = NoVerdict
BY Zenon DEF NoVerdict, Verdicts, NoGate, Undecided

\* What handleFailedJob makes of the version it read.
NotesFailure(m, base) ==
  /\ base.job # 0 /\ base.job \in failures
  /\ m.gate = [attempt |-> base.attempts, verdict |-> NoVerdict] /\ m.job = 0

LEMMA Typed ==
  ASSUME IInv
  PROVE  /\ mig \in Migrations /\ cache \in Migrations /\ pass \in Passes
         /\ pass.m \in Migrations /\ pass.base \in Migrations
         /\ pass.step \in PassSteps /\ pass.current \in BOOLEAN /\ fresh \in BOOLEAN
         /\ DOMAIN jobs \subseteq Nat /\ pods \subseteq DOMAIN jobs /\ unseen \subseteq DOMAIN jobs
         /\ failures \subseteq DOMAIN jobs /\ probes \subseteq Probes /\ orphans \subseteq Orphans
         /\ vanishes \in Nat
         /\ \A x \in {mig, cache, pass.base, pass.m} :
              x.attempts \in Nat /\ x.exempt \in Nat /\ x.job \in Nat /\ x.gate \in Gates
              /\ x.gate.attempt \in Nat /\ x.suspend \in BOOLEAN
BY DEF IInv, ApiInv, ApiTypeOK, PassInv, Passes, WorkersInv, WorkersTypeOK, GateTypeOK, BoundsTypeOK,
       Migrations, Gates

LEMMA BeginShape ==
  ASSUME IInv, NEW step \in PassSteps, NEW m \in Migrations, Begin(step, m)
  PROVE  pass'.step = step /\ pass'.m = m /\ pass'.base = cache /\ pass'.current = fresh
BY IdlePass DEF Begin, Passes

LEMMA GoOnShape ==
  ASSUME IInv, NEW step \in PassSteps, NEW m \in Migrations, GoOn(step, m)
  PROVE  /\ pass'.step = step /\ pass'.m = m /\ pass'.base = pass.base /\ pass'.current = pass.current
BY Typed DEF GoOn, Passes

\* How a pass may begin, on the version that the informer shows.
Begun ==
  /\ pass'.base = cache /\ pass'.current = fresh /\ KeepsAttempt(pass'.m, cache)
  /\ \/ pass'.step \in {"patch", "observe"} /\ pass'.m.gate = cache.gate
     \/ pass'.step = "patch" /\ NotesFailure(pass'.m, cache)
     \/ pass'.step = "record" /\ pass'.m = cache /\ cache.attempts + 1 \in DOMAIN jobs
     \/ /\ pass'.m = cache /\ ~cache.suspend
        /\ \/ pass'.step = "create" /\ cache.attempts = 0
           \/ pass'.step = "pods" /\ cache.attempts > 0
           \/ /\ pass'.step = "decide" /\ cache.attempts > 0 /\ Undecided(cache)
              /\ pass'.verdict # NoVerdict

LEMMA KeepsSame ==
  ASSUME NEW base \in Migrations
  PROVE  KeepsAttempt(base, base)
BY DEF KeepsAttempt, SameSpec

LEMMA FinishCloneShape ==
  ASSUME IInv, FinishClone
  PROVE  Begun /\ UNCHANGED <<clusterVars, probes>>
<1>0. cache \in Migrations /\ "patch" \in PassSteps /\ UNCHANGED <<clusterVars, probes>>
  BY Typed DEF PassSteps, FinishClone
<1>1. ASSUME NEW m \in Migrations, KeepsAttempt(m, cache), m.gate = cache.gate, Begin("patch", m)
      PROVE  Begun
  BY <1>0, <1>1, BeginShape DEF Begun
<1> DEFINE owed == [cache EXCEPT !.cond.clone = "CloneIncomplete"]
           done == [cache EXCEPT !.cond.clone = "done"]
<1>2. ASSUME NEW c \in CloneStates
      PROVE  /\ [cache EXCEPT !.cond.clone = c] \in Migrations
             /\ KeepsAttempt([cache EXCEPT !.cond.clone = c], cache)
             /\ [cache EXCEPT !.cond.clone = c].gate = cache.gate
  BY <1>0 DEF Migrations, Conditions, KeepsAttempt, SameSpec
<1>3. /\ owed \in Migrations /\ KeepsAttempt(owed, cache) /\ owed.gate = cache.gate
      /\ done \in Migrations /\ KeepsAttempt(done, cache) /\ done.gate = cache.gate
  BY <1>2 DEF CloneStates
<1> HIDE DEF owed, done
<1>4. Fail(owed) \in Migrations /\ KeepsAttempt(Fail(owed), cache) /\ Fail(owed).gate = cache.gate
  BY <1>3, FailKeeps DEF KeepsAttempt, SameSpec
<1>5. ASSUME NEW m, \/ m = [done EXCEPT !.phase = "Finalizing"]
                    \/ m = [done EXCEPT !.phase = "Completed", !.cond.complete = TRUE]
      PROVE  m \in Migrations /\ KeepsAttempt(m, cache) /\ m.gate = cache.gate
  <2>1. m \in Migrations
    <3>1. /\ [done EXCEPT !.phase = "Finalizing"] \in Migrations
          /\ [done EXCEPT !.phase = "Completed", !.cond.complete = TRUE] \in Migrations
      BY <1>3 DEF Migrations, Conditions, Phases
    <3> QED BY <1>5, <3>1
  <2>2. /\ m.suspend = done.suspend /\ m.local = done.local /\ m.attempts = done.attempts
        /\ m.exempt = done.exempt /\ m.job = done.job /\ m.gate = done.gate
    BY <1>3, <1>5 DEF Migrations
  <2> QED BY <1>3, <2>1, <2>2 DEF KeepsAttempt, SameSpec
<1>6. \/ Begin("patch", cache) \/ Begin("patch", Fail(owed))
      \/ Begin("patch", [done EXCEPT !.phase = "Finalizing"])
      \/ Begin("patch", [done EXCEPT !.phase = "Completed", !.cond.complete = TRUE])
  BY DEF FinishClone, owed, done
<1> QED BY <1>0, <1>1, <1>4, <1>5, <1>6, KeepsSame

LEMMA StartAttemptShape ==
  ASSUME IInv, StartAttempt, ~cache.suspend
  PROVE  Begun /\ UNCHANGED <<clusterVars, probes>>
<1>0. cache \in Migrations /\ cache.attempts \in Nat /\ UNCHANGED <<clusterVars, probes>>
      /\ {"record", "patch", "create", "pods", "decide"} \subseteq PassSteps
  BY Typed DEF StartAttempt, PassSteps, jobVars, gateVars
<1>1. CASE cache.attempts + 1 \in DOMAIN jobs /\ Begin("record", cache)
  BY <1>0, <1>1, BeginShape, KeepsSame DEF Begun
<1>6. ASSUME NEW step \in {"create", "pods"}, Begin(step, cache)
      PROVE  /\ pass'.step = step /\ pass'.m = cache /\ pass'.base = cache /\ pass'.current = fresh
             /\ KeepsAttempt(pass'.m, cache)
  BY <1>0, <1>6, BeginShape, KeepsSame
<1>2. CASE Begin("patch", FailBudget(cache))
  <2>1. /\ FailBudget(cache) \in Migrations /\ KeepsAttempt(FailBudget(cache), cache)
        /\ FailBudget(cache).gate = cache.gate
    BY <1>0, FailBudgetKeeps DEF KeepsAttempt, SameSpec
  <2>2. /\ pass'.step = "patch" /\ pass'.m = FailBudget(cache) /\ pass'.base = cache
        /\ pass'.current = fresh
    BY <1>0, <1>2, <2>1, BeginShape
  <2> QED BY <1>0, <2>1, <2>2 DEF Begun
<1>3. CASE cache.attempts + 1 = 1 /\ Begin("create", cache)
  <2>1. cache.attempts = 0 /\ pass'.step = "create"
    BY <1>0, <1>3, <1>6
  <2>2. pass'.m = cache /\ pass'.base = cache /\ pass'.current = fresh /\ KeepsAttempt(pass'.m, cache)
    BY <1>3, <1>6
  <2> QED BY <1>0, <2>1, <2>2 DEF Begun
<1>4. CASE cache.attempts + 1 > 1 /\ Begin("pods", cache)
  <2>1. cache.attempts > 0 /\ pass'.step = "pods"
    BY <1>0, <1>4, <1>6
  <2>2. pass'.m = cache /\ pass'.base = cache /\ pass'.current = fresh /\ KeepsAttempt(pass'.m, cache)
    BY <1>4, <1>6
  <2> QED BY <1>0, <2>1, <2>2 DEF Begun
<1>5. CASE /\ cache.attempts + 1 > 1 /\ Undecided(cache)
           /\ pass' = [Idle EXCEPT !.step = "decide", !.m = cache, !.base = cache,
                      !.current = fresh, !.verdict = "Counted", !.then = "pods"]
  <2>1. /\ pass'.m = cache /\ pass'.base = cache
        /\ pass'.current = fresh /\ pass'.step = "decide" /\ pass'.verdict = "Counted"
    BY <1>5, IdlePass DEF Passes
  <2>2. pass'.verdict # NoVerdict
    BY <2>1, NoVerdictIs
  <2> QED BY <1>0, <1>5, <2>1, <2>2, KeepsSame DEF Begun
<1> QED BY <1>0, <1>1, <1>2, <1>3, <1>4, <1>5 DEF StartAttempt, VerdictOverdue, Exists

\* Attempts are counted from 1, and one whose Job failed is among the failures.
JobsNoted == 0 \notin DOMAIN jobs /\ \A n \in DOMAIN jobs : jobs[n] \in Failed => n \in failures

\* A pass begins; the Jobs only change by being deleted.
LEMMA ReconcileShape ==
  ASSUME IInv, JobsNoted, Reconcile
  PROVE  /\ pass.step = "idle" /\ ~Terminal(cache) /\ UNCHANGED apiVars
         /\ Begun
         /\ UNCHANGED <<pods, orphans, unseen, failures>> /\ DOMAIN jobs' = DOMAIN jobs
         /\ \A n \in DOMAIN jobs : jobs'[n] \in {jobs[n], "deleting"}
         /\ probes' \subseteq probes
<1>0. /\ pass.step = "idle" /\ ~Terminal(cache) /\ UNCHANGED apiVars /\ cache \in Migrations
      /\ {"patch", "observe"} \subseteq PassSteps
  BY Typed DEF Reconcile, PassSteps
<1>1. CASE SuspendPass
  <2> DEFINE e == EndHold(cache)
             m == [e EXCEPT !.job = 0, !.phase = "Suspended"]
  <2>1. e \in Migrations /\ KeepsAttempt(e, cache) /\ e.gate = cache.gate
    BY <1>0, HoldKeeps DEF KeepsAttempt, SameSpec
  <2>2. Begin("patch", m) /\ UNCHANGED <<pods, orphans, unseen, failures>> /\ probes' \subseteq probes
    BY <1>1 DEF SuspendPass, WithoutProbe
  <2>3. DOMAIN jobs' = DOMAIN jobs /\ \A n \in DOMAIN jobs : jobs'[n] \in {jobs[n], "deleting"}
    BY <1>1 DEF SuspendPass
  <2> HIDE DEF e
  <2>4. m \in Migrations /\ KeepsAttempt(m, cache) /\ m.gate = cache.gate
    <3>1. m \in Migrations
      BY <2>1 DEF Migrations, Phases
    <3>2. /\ m.suspend = e.suspend /\ m.local = e.local /\ m.attempts = e.attempts
          /\ m.exempt = e.exempt /\ m.job = 0 /\ m.gate = e.gate
      BY <2>1 DEF Migrations
    <3> QED BY <2>1, <3>1, <3>2 DEF KeepsAttempt, SameSpec
  <2> HIDE DEF m
  <2>5. Begun
    BY <1>0, <2>2, <2>4, BeginShape DEF Begun
  <2> QED BY <1>0, <2>2, <2>3, <2>5
<1>2. CASE PreflightPass
  <2> DEFINE m == [cache EXCEPT !.phase = "Validating"]
  <2>1. m \in Migrations /\ KeepsAttempt(m, cache) /\ m.gate = cache.gate
    BY <1>0 DEF Migrations, Phases, KeepsAttempt, SameSpec
  <2>2. Fail(cache) \in Migrations /\ KeepsAttempt(Fail(cache), cache) /\ Fail(cache).gate = cache.gate
    BY <1>0, FailKeeps DEF KeepsAttempt, SameSpec
  <2>3. (Begin("patch", m) \/ Begin("patch", Fail(cache))) /\ UNCHANGED <<clusterVars, probes>>
    BY <1>2 DEF PreflightPass
  <2> HIDE DEF m
  <2>4. Begun
    BY <1>0, <2>1, <2>2, <2>3, BeginShape DEF Begun
  <2> QED BY <1>0, <2>3, <2>4 DEF clusterVars
<1>3. CASE NextAttempt \/ WorkerSucceeded
  <2>1. (FinishClone \/ StartAttempt) /\ ~cache.suspend
    BY <1>3 DEF NextAttempt, WorkerSucceeded, Validated
  <2>2. Begun /\ UNCHANGED <<clusterVars, probes>>
    BY <2>1, FinishCloneShape, StartAttemptShape
  <2> QED BY <1>0, <2>2 DEF clusterVars
<1>4. CASE HandleFailedJob
  <2> DEFINE failing == [cache EXCEPT !.cond.clone = "CloneFailed"]
             s == SetHold(cache)
             held(c) == [s EXCEPT
                           !.job = 0, !.gate = [attempt |-> cache.attempts, verdict |-> ""],
                           !.cond.clone = IF c = "lost" THEN "SnapshotLost" ELSE @]
  <2>1. /\ UNCHANGED <<clusterVars, probes>> /\ cache.job # 0 /\ cache.job \in failures
    BY <1>4 DEF HandleFailedJob, Visible, Exists, jobVars, gateVars, JobsNoted
  <2>2. PICK c : Begin("patch", Fail(failing)) \/ Begin("patch", held(c))
    BY <1>4 DEF HandleFailedJob
  <2>3. /\ Fail(failing) \in Migrations /\ KeepsAttempt(Fail(failing), cache)
        /\ Fail(failing).gate = cache.gate
    <3>1. failing \in Migrations /\ KeepsAttempt(failing, cache) /\ failing.gate = cache.gate
      BY <1>0, CloneType DEF CloneStates, Migrations, KeepsAttempt, SameSpec
    <3> HIDE DEF failing
    <3> QED BY <3>1, FailKeeps DEF KeepsAttempt, SameSpec
  <2>4. held(c) \in Migrations /\ KeepsAttempt(held(c), cache) /\ NotesFailure(held(c), cache)
    <3>1. s \in Migrations /\ KeepsAttempt(s, cache) /\ s.gate = cache.gate
      BY <1>0, HoldKeeps DEF KeepsAttempt, SameSpec
    <3> DEFINE gate == [attempt |-> cache.attempts, verdict |-> NoVerdict]
               cond == [s.cond EXCEPT !.clone = IF c = "lost" THEN "SnapshotLost" ELSE @]
               h == [s EXCEPT !.job = 0, !.gate = gate, !.cond = cond]
    <3>2. gate \in Gates
      BY <1>0, NoVerdictIs DEF Migrations, Gates
    <3>3. cond \in Conditions
      <4>1. s.cond \in Conditions
        BY <3>1 DEF Migrations
      <4> QED BY <4>1 DEF Conditions, CloneStates
    <3>4. held(c) = h
      BY <3>1 DEF Migrations, NoVerdict
    <3> HIDE DEF gate, cond, s, held
    <3>5. h \in Migrations /\ h.gate = gate /\ h.job = 0
      BY <3>1, <3>2, <3>3 DEF Migrations
    <3>6. h.suspend = s.suspend /\ h.local = s.local /\ h.attempts = s.attempts /\ h.exempt = s.exempt
      BY <3>1 DEF Migrations
    <3> HIDE DEF h
    <3> QED BY <2>1, <3>1, <3>4, <3>5, <3>6 DEF KeepsAttempt, SameSpec, NotesFailure, gate
  <2> HIDE DEF failing, held
  <2>5. Begun
    BY <1>0, <2>2, <2>3, <2>4, BeginShape DEF Begun
  <2> QED BY <1>0, <2>1, <2>5 DEF clusterVars
<1>5. CASE ObserveRunningJob
  <2> DEFINE e == EndHold(cache)
             m(c) == [e EXCEPT !.cond.clone = c]
  <2>1. e \in Migrations /\ KeepsAttempt(e, cache) /\ e.gate = cache.gate
    BY <1>0, HoldKeeps DEF KeepsAttempt, SameSpec
  <2>2. UNCHANGED <<clusterVars, probes>>
    BY <1>5 DEF ObserveRunningJob, jobVars, gateVars
  <2>3. PICK c \in CloneStates : Begin("observe", m(c))
    BY <1>0, <1>5 DEF ObserveRunningJob, Migrations, Conditions, CloneStates
  <2> HIDE DEF e
  <2>4. m(c) \in Migrations /\ KeepsAttempt(m(c), cache) /\ m(c).gate = cache.gate
    BY <2>1 DEF Migrations, Conditions, KeepsAttempt, SameSpec
  <2> HIDE DEF m
  <2>5. Begun
    BY <1>0, <2>3, <2>4, BeginShape DEF Begun
  <2> QED BY <1>0, <2>2, <2>5 DEF clusterVars
<1> QED BY <1>1, <1>2, <1>3, <1>4, <1>5 DEF Reconcile

\* updateStatus writes over what the server holds, and over nothing of the spec.
LEMMA UpdateStatusShape ==
  ASSUME IInv, UpdateStatus
  PROVE  /\ pass.step \in {"patch", "observe"} /\ mig' = Merge(mig, pass.base, pass.m)
         /\ cache' = cache /\ fresh' = (fresh /\ mig' = mig) /\ UNCHANGED jobVars
         /\ \/ pass' = Idle
            \/ /\ pass'.step = "strays" /\ pass'.m = pass.m /\ pass'.base = pass.base
               /\ pass'.current = pass.current
<1>1. /\ pass.step \in {"patch", "observe"} /\ mig' = Merge(mig, pass.base, pass.m)
      /\ cache' = cache /\ fresh' = (fresh /\ mig' = mig) /\ UNCHANGED jobVars
      /\ pass' = Idle \/ pass' = [pass EXCEPT !.step = "strays"]
  BY DEF UpdateStatus, Store
<1> QED BY <1>1, Typed DEF Passes

\* patchStatusLocked stores m as the pass made it, or the pass ends and nothing is written.
LEMMA LockedPatchShape ==
  ASSUME IInv, NEW m \in Migrations, SameSpec(m, pass.base), NEW step \in PassSteps,
         pass.current => mig = pass.base, LockedPatch(m, step)
  PROVE  \/ pass' = Idle /\ UNCHANGED apiVars
         \/ /\ pass.current /\ mig' = m /\ cache' = cache /\ fresh' = (fresh /\ mig' = mig)
            /\ \/ pass' = Idle
               \/ pass'.step = step /\ pass'.m = m /\ pass'.base = m /\ pass'.current = pass.current
<1>1. CASE pass.current
  <2>1. Merge(mig, pass.base, m) = m
    BY <1>1, Typed, MergeOfBase DEF SameSpec
  <2>2. mig' = m /\ cache' = cache /\ fresh' = (fresh /\ mig' = mig)
    BY <1>1, <2>1 DEF LockedPatch, Store
  <2>3. pass' = Idle \/ pass' = [pass EXCEPT !.step = step, !.m = m, !.base = m]
    BY <1>1 DEF LockedPatch
  <2> QED BY <1>1, <2>2, <2>3, Typed DEF Passes
<1>2. CASE ~pass.current
  BY <1>2 DEF LockedPatch
<1> QED BY <1>1, <1>2

\* What the locked patches make of the version they replace: a failure that has no
\* verdict yet may get one, and with it at most one refund.
Judges(m, base) ==
  /\ SameSpec(m, base) /\ m.attempts = base.attempts /\ m.job = base.job
  /\ m.gate.attempt = base.gate.attempt
  /\ \/ m.gate.verdict = base.gate.verdict /\ m.exempt = base.exempt
     \/ /\ Undecided(base) /\ m.gate.verdict # NoVerdict
        /\ m.exempt \in {base.exempt, base.exempt + 1}

\* Between the gate and the record a pass carries the version that the server had.
GateSteps == {"pods", "decide", "judged", "settle", "create"}
LockInv ==
  /\ fresh => cache = mig
  /\ pass.current /\ pass.step \notin {"idle", "strays", "drop"} => mig = pass.base
  /\ pass.step \notin {"idle", "drop"} => KeepsAttempt(pass.m, pass.base)
  /\ pass.step \in GateSteps \cup {"record"} => pass.m = pass.base
  /\ pass.step \in GateSteps => ~pass.m.suspend /\ ~Terminal(pass.m)
  /\ pass.step = "decide" => Undecided(pass.m) /\ pass.verdict # NoVerdict

LEMMA JudgesFail ==
  ASSUME NEW m \in Migrations, NEW base \in Migrations, Judges(m, base)
  PROVE  FailBudget(m) \in Migrations /\ Judges(FailBudget(m), base)
BY FailBudgetKeeps DEF Judges, SameSpec

LEMMA LockedShape ==
  ASSUME IInv, LockInv, Decide \/ SettleBudget
  PROVE  /\ pass.step \in {"decide", "settle"} /\ UNCHANGED jobVars
         /\ \/ pass' = Idle /\ UNCHANGED apiVars
            \/ /\ pass.current /\ mig = pass.base /\ Judges(mig', mig)
               /\ cache' = cache /\ fresh' = (fresh /\ mig' = mig)
               /\ \/ pass' = Idle
                  \/ /\ pass'.m = mig' /\ pass'.base = mig' /\ pass'.current /\ ~Terminal(mig')
                     /\ \/ pass.step = "decide" /\ pass'.step \in {"pods", "judged"}
                        \/ pass.step = "settle" /\ pass'.step = "create"
<1>0. /\ pass.m \in Migrations /\ pass.m = pass.base /\ pass.step \in {"decide", "settle"}
      /\ pass.current => mig = pass.base
      /\ ~Terminal(pass.m) /\ UNCHANGED jobVars
      /\ "idle" \in PassSteps /\ "create" \in PassSteps
  BY Typed DEF Decide, SettleBudget, LockInv, GateSteps, PassSteps
<1>1. ASSUME NEW m \in Migrations, NEW step \in PassSteps, Judges(m, pass.m),
             \/ LockedPatch(FailBudget(m), "idle")
             \/ LockedPatch(m, step) /\ m.cond = pass.m.cond /\ m.phase = pass.m.phase
                /\ \/ pass.step = "decide" /\ step \in {"pods", "judged"}
                   \/ pass.step = "settle" /\ step = "create"
      PROVE  \/ pass' = Idle /\ UNCHANGED apiVars
             \/ /\ pass.current /\ mig = pass.base /\ Judges(mig', mig)
                /\ cache' = cache /\ fresh' = (fresh /\ mig' = mig)
                /\ \/ pass' = Idle
                   \/ /\ pass'.m = mig' /\ pass'.base = mig' /\ pass'.current /\ ~Terminal(mig')
                      /\ \/ pass.step = "decide" /\ pass'.step \in {"pods", "judged"}
                         \/ pass.step = "settle" /\ pass'.step = "create"
  <2>1. CASE LockedPatch(FailBudget(m), "idle")
    <3>1. FailBudget(m) \in Migrations /\ Judges(FailBudget(m), pass.m)
      BY <1>0, <1>1, JudgesFail
    <3>2. \/ pass' = Idle /\ UNCHANGED apiVars
          \/ /\ pass.current /\ mig' = FailBudget(m) /\ cache' = cache /\ fresh' = (fresh /\ mig' = mig)
             /\ \/ pass' = Idle
                \/ pass'.step = "idle" /\ pass'.m = FailBudget(m)
      BY <1>0, <2>1, <3>1, LockedPatchShape DEF Judges
    <3>3. pass' = Idle
      BY <2>1 DEF LockedPatch
    <3> QED BY <1>0, <3>1, <3>2, <3>3
  <2>2. CASE LockedPatch(m, step) /\ m.cond = pass.m.cond
    <3>1. SameSpec(m, pass.base) /\ ~Terminal(m)
      BY <1>0, <1>1, <2>2 DEF Judges, Terminal
    <3>2. \/ pass' = Idle /\ UNCHANGED apiVars
          \/ /\ pass.current /\ mig' = m /\ cache' = cache /\ fresh' = (fresh /\ mig' = mig)
             /\ \/ pass' = Idle
                \/ pass'.step = step /\ pass'.m = m /\ pass'.base = m /\ pass'.current = pass.current
      BY <1>0, <1>1, <2>2, <3>1, LockedPatchShape
    <3>3. \/ pass.step = "decide" /\ step \in {"pods", "judged"}
          \/ pass.step = "settle" /\ step = "create"
          \/ pass' = Idle
      BY <1>1, <1>0 DEF LockedPatch
    <3> QED BY <1>0, <1>1, <3>1, <3>2, <3>3
  <2> QED BY <1>1, <2>1, <2>2
<1>2. CASE Decide
  <2> DEFINE m == [pass.m EXCEPT !.gate.verdict = pass.verdict,
                                 !.exempt = IF pass.verdict = "Exempt" THEN @ + 1 ELSE @]
             gate == [pass.m.gate EXCEPT !.verdict = pass.verdict]
             exempt == IF pass.verdict = "Exempt" THEN pass.m.exempt + 1 ELSE pass.m.exempt
  <2>1. gate \in Gates /\ gate.attempt = pass.m.gate.attempt /\ gate.verdict = pass.verdict
    BY <1>0, Typed DEF Migrations, Gates, Passes
  <2>2. exempt \in Nat /\ exempt \in {pass.m.exempt, pass.m.exempt + 1}
    BY <1>0 DEF Migrations
  <2>3. m = [pass.m EXCEPT !.gate = gate, !.exempt = exempt]
    OBVIOUS
  <2>4. pass.verdict # NoVerdict /\ Undecided(pass.m) /\ pass.then \in {"pods", "judged"}
        /\ pass.step = "decide"
    BY <1>2 DEF Decide, LockInv, IInv, PassInv
  <2>5. LockedPatch(FailBudget(m), "idle") \/ LockedPatch(m, pass.then)
    BY <1>2 DEF Decide
  <2> HIDE DEF gate, exempt, m
  <2>6. m \in Migrations /\ m.gate = gate /\ m.exempt = exempt
    BY <1>0, <2>1, <2>2, <2>3 DEF Migrations
  <2>7. /\ m.suspend = pass.m.suspend /\ m.local = pass.m.local /\ m.attempts = pass.m.attempts
        /\ m.job = pass.m.job /\ m.cond = pass.m.cond /\ m.phase = pass.m.phase
    BY <1>0, <2>3 DEF Migrations
  <2>8. Judges(m, pass.m)
    BY <2>1, <2>2, <2>4, <2>6, <2>7 DEF Judges, SameSpec
  <2>9. pass.then \in PassSteps
    BY <2>4 DEF PassSteps
  <2> QED BY <1>0, <1>1, <2>4, <2>5, <2>6, <2>7, <2>8, <2>9
<1>3. CASE SettleBudget
  <2> DEFINE m == [pass.m EXCEPT !.gate.verdict = IF Undecided(pass.m) THEN "Counted" ELSE @]
             ruling == IF Undecided(pass.m) THEN "Counted" ELSE pass.m.gate.verdict
             gate == [pass.m.gate EXCEPT !.verdict = ruling]
  <2>1. /\ gate \in Gates /\ gate.attempt = pass.m.gate.attempt /\ gate.verdict = ruling
        /\ ruling = pass.m.gate.verdict \/ (Undecided(pass.m) /\ ruling = "Counted")
    BY <1>0 DEF Migrations, Gates, Verdicts
  <2>2. m = [pass.m EXCEPT !.gate = gate]
    OBVIOUS
  <2>3. LockedPatch(FailBudget(m), "idle") \/ LockedPatch(m, "create")
    BY <1>3 DEF SettleBudget
  <2>4. pass.step = "settle"
    BY <1>3 DEF SettleBudget
  <2> HIDE DEF ruling, gate, m
  <2>5. m \in Migrations /\ m.gate = gate
    BY <1>0, <2>1, <2>2 DEF Migrations
  <2>6. /\ m.suspend = pass.m.suspend /\ m.local = pass.m.local /\ m.attempts = pass.m.attempts
        /\ m.job = pass.m.job /\ m.cond = pass.m.cond /\ m.phase = pass.m.phase
        /\ m.exempt = pass.m.exempt
    BY <1>0, <2>2 DEF Migrations
  <2>7. Judges(m, pass.m)
    BY <2>1, <2>5, <2>6, NoVerdictIs DEF Judges, SameSpec
  <2> QED BY <1>0, <1>1, <2>3, <2>4, <2>5, <2>6, <2>7
<1> QED BY <1>0, <1>2, <1>3

\* A probe that has ended, one way or the other.
Ended(p) == p.state \notin {"running", "deleting"}

\* The gate goes on to the budget only past a passed probe and with no pod of the previous
\* attempt in sight; it may create a probe, and leaves the server alone.
LEMMA GateShape ==
  ASSUME IInv, LockInv, RetryGate \/ JudgeProbe
  PROVE  /\ pass.step \in {"pods", "judged"} /\ UNCHANGED <<apiVars, clusterVars>>
         /\ pass'.base = pass.base /\ pass'.current = pass.current
         /\ \/ /\ pass'.step = "patch" /\ KeepsAttempt(pass'.m, pass.base)
               /\ pass'.m.gate = pass.base.gate
            \/ /\ pass'.m = pass.m
               /\ \/ pass'.step = "judged"
                  \/ pass'.step = "decide" /\ Undecided(pass.m) /\ pass'.verdict # NoVerdict
                  \/ /\ pass'.step = "settle" /\ ~PreviousWorkerPod(pass.base)
                     /\ \E p \in probes : p.attempt = pass.base.attempts + 1 /\ Ended(p)
         /\ \A p \in probes' : p \in probes \/ (p.attempt = pass.base.attempts + 1 /\ ~Ended(p))
<1> DEFINE Conclusion ==
             \/ /\ pass'.step = "patch" /\ KeepsAttempt(pass'.m, pass.base)
                /\ pass'.m.gate = pass.base.gate
             \/ /\ pass'.m = pass.m
                /\ \/ pass'.step = "judged"
                   \/ pass'.step = "decide" /\ Undecided(pass.m) /\ pass'.verdict # NoVerdict
                   \/ /\ pass'.step = "settle" /\ ~PreviousWorkerPod(pass.base)
                      /\ \E p \in probes : p.attempt = pass.base.attempts + 1 /\ Ended(p)
           Kept == pass'.base = pass.base /\ pass'.current = pass.current
<1>0. /\ pass.m \in Migrations /\ pass.m = pass.base /\ pass.step \in {"pods", "judged"}
      /\ UNCHANGED <<apiVars, clusterVars>> /\ {"patch", "settle", "judged"} \subseteq PassSteps
  BY Typed DEF RetryGate, JudgeProbe, LockInv, GateSteps, PassSteps
<1>1. ASSUME Hold(pass.m)
      PROVE  Conclusion /\ Kept
  <2>1. /\ SetHold(pass.m) \in Migrations /\ KeepsAttempt(SetHold(pass.m), pass.base)
        /\ SetHold(pass.m).gate = pass.base.gate
    BY <1>0, HoldKeeps DEF KeepsAttempt, SameSpec
  <2>2. pass'.step = "patch" /\ pass'.m = SetHold(pass.m) /\ Kept
    BY <1>0, <1>1, <2>1, GoOnShape DEF Hold
  <2> QED BY <2>1, <2>2
<1>2. CASE JudgeProbe
  <2>1. Hold(pass.m) /\ probes' \subseteq probes
    BY <1>2 DEF JudgeProbe
  <2> QED BY <1>0, <1>1, <2>1
<1>3. CASE RetryGate
  <2> DEFINE attempt == pass.m.attempts + 1
             new == [attempt |-> attempt, local |-> pass.m.local, state |-> "running", stale |-> FALSE]
  <2>1. \A p \in probes' : p \in probes \/ (p.attempt = pass.base.attempts + 1 /\ ~Ended(p))
    <3>1. probes' \subseteq probes \/ probes' = probes \cup {new}
      BY <1>3 DEF RetryGate, WithoutProbe
    <3> QED BY <1>0, <3>1 DEF Ended
  <2>2. CASE Hold(pass.m)
    BY <1>0, <1>1, <2>1, <2>2
  <2>3. CASE \E p \in probes : /\ p.attempt = attempt /\ p.state = "pass" /\ ~PreviousWorkerPod(pass.m)
                               /\ GoOn("settle", pass.m)
    <3>1. pass'.step = "settle" /\ pass'.m = pass.m /\ Kept
      BY <1>0, <2>3, GoOnShape
    <3>2. ~PreviousWorkerPod(pass.base)
      BY <1>0, <2>3
    <3>3. \E p \in probes : p.attempt = pass.base.attempts + 1 /\ Ended(p)
      BY <1>0, <2>3 DEF Ended
    <3> QED BY <1>0, <2>1, <3>1, <3>2, <3>3
  <2>4. CASE /\ Undecided(pass.m)
             /\ \E p \in probes : pass' = [pass EXCEPT !.step = "decide", !.then = "judged",
                                   !.verdict = IF p.state = "exempt" THEN "Exempt" ELSE "Counted"]
    <3>1. pass'.step = "decide" /\ pass'.m = pass.m /\ pass'.verdict # NoVerdict /\ Kept
      BY <2>4, Typed, NoVerdictIs DEF Passes
    <3> QED BY <1>0, <2>1, <2>4, <3>1
  <2>5. CASE GoOn("judged", pass.m)
    <3>1. pass'.step = "judged" /\ pass'.m = pass.m /\ Kept
      BY <1>0, <2>5, GoOnShape
    <3> QED BY <1>0, <2>1, <3>1
  <2>6. \/ Hold(pass.m) \/ GoOn("judged", pass.m)
        \/ \E p \in probes : /\ p.attempt = attempt /\ p.state = "pass" /\ ~PreviousWorkerPod(pass.m)
                             /\ GoOn("settle", pass.m)
        \/ /\ Undecided(pass.m)
           /\ \E p \in probes : pass' = [pass EXCEPT !.step = "decide", !.then = "judged",
                                 !.verdict = IF p.state = "exempt" THEN "Exempt" ELSE "Counted"]
    BY <1>3 DEF RetryGate
  <2> QED BY <2>2, <2>3, <2>4, <2>5, <2>6
<1> QED BY <1>2, <1>3

\* A worker Job is created under the number after the last recorded attempt.
LEMMA CreateShape ==
  ASSUME IInv, LockInv, CreateWorker
  PROVE  /\ pass.step = "create" /\ UNCHANGED <<apiVars, orphans, failures, probes>>
         /\ pass'.step = "record" /\ pass'.m = pass.m /\ pass'.base = pass.base
         /\ pass'.current = pass.current
         /\ DOMAIN jobs' = DOMAIN jobs \cup {pass.base.attempts + 1}
         /\ \A n \in DOMAIN jobs' : jobs'[n] \in Failed => n \in DOMAIN jobs /\ jobs[n] \in Failed
         /\ \A n \in DOMAIN jobs' : jobs'[n] = "gone" => n \in DOMAIN jobs /\ jobs[n] = "gone"
         /\ pods' = pods \/ pods' = pods \cup {pass.base.attempts + 1}
         /\ unseen' \subseteq unseen \cup {pass.base.attempts + 1}
         /\ ~JobCacheLags => unseen' = unseen
<1> DEFINE attempt == pass.base.attempts + 1
<1>0. /\ pass.m \in Migrations /\ pass.m = pass.base /\ pass.step = "create"
      /\ UNCHANGED <<apiVars, probes>> /\ "record" \in PassSteps /\ GoOn("record", pass.m)
  BY Typed DEF CreateWorker, LockInv, GateSteps, PassSteps, gateVars
<1>1. /\ pass'.step = "record" /\ pass'.m = pass.m /\ pass'.base = pass.base
      /\ pass'.current = pass.current
  BY <1>0, GoOnShape
<1>2. CASE Exists(attempt)
  <2>1. UNCHANGED clusterVars /\ attempt \in DOMAIN jobs
    BY <1>0, <1>2 DEF CreateWorker, Exists
  <2> QED BY <1>0, <1>1, <2>1 DEF clusterVars
<1>3. CASE ~Exists(attempt)
  <2>1. /\ jobs' = [n \in DOMAIN jobs \cup {attempt} |-> IF n = attempt THEN "running" ELSE jobs[n]]
        /\ pods' = pods \cup {attempt} /\ unseen' \subseteq unseen \cup {attempt}
        /\ ~JobCacheLags => unseen' = unseen
        /\ UNCHANGED <<orphans, failures>>
    BY <1>0, <1>3 DEF CreateWorker
  <2> HIDE DEF attempt
  <2>2. \A n \in DOMAIN jobs' :
          /\ jobs'[n] \in Failed => n \in DOMAIN jobs /\ jobs[n] \in Failed
          /\ jobs'[n] = "gone" => n \in DOMAIN jobs /\ jobs[n] = "gone"
    BY <2>1 DEF Failed
  <2>3. DOMAIN jobs' = DOMAIN jobs \cup {attempt}
    BY <2>1
  <2> QED BY <1>0, <1>1, <2>1, <2>2, <2>3 DEF attempt
<1> QED BY <1>2, <1>3

\* The attempt is recorded over whatever the server holds.
LEMMA RecordShape ==
  ASSUME IInv, LockInv, RecordAttempt
  PROVE  /\ pass.step = "record" /\ mig' = Merge(mig, pass.base, Recorded(pass.base))
         /\ cache' = cache /\ fresh' = (fresh /\ mig' = mig) /\ UNCHANGED jobVars
         /\ \/ pass' = Idle
            \/ /\ pass'.step = "drop" /\ pass'.m = Recorded(pass.base) /\ pass'.base = pass.base
               /\ pass'.current = pass.current
<1>0. pass.m \in Migrations /\ pass.m = pass.base /\ pass.step = "record" /\ "drop" \in PassSteps
  BY Typed DEF RecordAttempt, LockInv, PassSteps
<1>1. /\ mig' = Merge(mig, pass.base, Recorded(pass.base)) /\ cache' = cache
      /\ fresh' = (fresh /\ mig' = mig) /\ UNCHANGED jobVars
      /\ GoOn("drop", Recorded(pass.m)) \/ pass' = Idle
  BY <1>0 DEF RecordAttempt, Store
<1>2. Recorded(pass.m) \in Migrations
  BY <1>0, RecordedShape
<1> QED BY <1>0, <1>1, <1>2, GoOnShape

\* A pass that ends, with or without deleting probes.
LEMMA EndShape ==
  ASSUME DeleteStrayProbes \/ DropProbe \/ Abort
  PROVE  pass' = Idle /\ UNCHANGED <<apiVars, clusterVars>> /\ probes' \subseteq probes
BY DEF DeleteStrayProbes, DropProbe, Abort, WithoutProbe, jobVars, gateVars

\* Workers, pods, probes and the informer of Jobs move under a pass: pods end or lose their
\* Job, Jobs fail, a probe ends only when the informer has caught up, unless probes outrun it.
LEMMA ClusterShape ==
  ASSUME IInv, JobsNoted, Cluster \/ JobSync
  PROVE  /\ UNCHANGED <<apiVars, pass>> /\ DOMAIN jobs' = DOMAIN jobs
         /\ pods' \subseteq pods /\ unseen' \subseteq unseen
         /\ failures \subseteq failures' /\ failures' \subseteq DOMAIN jobs
         /\ \A n \in DOMAIN jobs : jobs'[n] \in Failed => n \in failures'
         /\ \A n \in pods' : jobs'[n] = "gone" => jobs[n] = "gone"
         /\ \A o \in orphans' : o \in orphans \/ (o.attempt \in pods \ pods' /\ (o.known => Known(o.attempt)))
         /\ \A p \in probes' : \E q \in probes :
              /\ q.attempt = p.attempt
              /\ Ended(p) => Ended(q) \/ unseen' = {} \/ ProbesOutrun
<1>0. UNCHANGED <<apiVars, pass>>
  BY DEF Cluster, JobSync, PreflightFinishes, FinishMoves, ProbeFinishes, ProbeAges,
         ProbeCollected, DeadlinePasses, OrphanEnds, WorkerExits, PodEnds, JobCollected, JobVanishes
<1>1. failures \subseteq DOMAIN jobs /\ probes \subseteq Probes
  BY Typed
<1> DEFINE Same == /\ UNCHANGED <<jobs, pods, failures>> /\ unseen' \subseteq unseen
                   /\ orphans' \subseteq orphans
           Kept == probes' = probes
           Moves == \A o \in orphans' :
                      o \in orphans \/ (o.attempt \in pods \ pods' /\ (o.known => Known(o.attempt)))
<1>2. ASSUME Same, \A p \in probes' : \E q \in probes :
                     q.attempt = p.attempt /\ (Ended(p) => Ended(q) \/ unseen' = {} \/ ProbesOutrun)
      PROVE  /\ DOMAIN jobs' = DOMAIN jobs
             /\ pods' \subseteq pods /\ unseen' \subseteq unseen
             /\ failures \subseteq failures' /\ failures' \subseteq DOMAIN jobs
             /\ \A n \in DOMAIN jobs : jobs'[n] \in Failed => n \in failures'
             /\ \A n \in pods' : jobs'[n] = "gone" => jobs[n] = "gone"
             /\ Moves
  BY <1>1, <1>2 DEF JobsNoted
<1>3. CASE JobSync \/ PreflightFinishes \/ FinishMoves \/ DeadlinePasses \/ OrphanEnds
  <2>1. Same /\ Kept
    BY <1>3 DEF JobSync, PreflightFinishes, FinishMoves, DeadlinePasses, OrphanEnds, clusterVars, gateVars
  <2> QED BY <1>0, <1>2, <2>1
<1>4. CASE ProbeFinishes
  <2>1. Same /\ (unseen' = {} \/ ProbesOutrun)
    BY <1>4 DEF ProbeFinishes, clusterVars
  <2>2. PICK p \in probes, result \in ProbeStates \ {"running", "deleting"} :
          probes' = (probes \ {p}) \cup {[p EXCEPT !.state = result]}
    BY <1>4 DEF ProbeFinishes
  <2>3. [p EXCEPT !.state = result].attempt = p.attempt
    BY <1>1 DEF Probes
  <2>4. \A r \in probes' : \E q \in probes :
          q.attempt = r.attempt /\ (Ended(r) => Ended(q) \/ unseen' = {} \/ ProbesOutrun)
    BY <2>1, <2>2, <2>3
  <2> QED BY <1>0, <1>2, <2>1, <2>4
<1>5. CASE ProbeAges
  <2>1. Same
    BY <1>5 DEF ProbeAges, clusterVars
  <2>2. PICK p \in probes : Ended(p) /\ probes' = (probes \ {p}) \cup {[p EXCEPT !.stale = TRUE]}
    BY <1>5 DEF ProbeAges, Ended
  <2>3. [p EXCEPT !.stale = TRUE].attempt = p.attempt
    BY <1>1 DEF Probes
  <2>4. \A r \in probes' : \E q \in probes :
          q.attempt = r.attempt /\ (Ended(r) => Ended(q) \/ unseen' = {} \/ ProbesOutrun)
    BY <2>1, <2>2, <2>3
  <2> QED BY <1>0, <1>2, <2>1, <2>4
<1>6. CASE ProbeCollected
  <2>1. Same
    BY <1>6 DEF ProbeCollected, clusterVars
  <2>2. PICK p \in probes : \/ probes' = (probes \ {p}) \cup {[p EXCEPT !.state = "deleting"]}
                            \/ probes' = probes \ {p}
    BY <1>6 DEF ProbeCollected
  <2>3. /\ [p EXCEPT !.state = "deleting"].attempt = p.attempt
        /\ [p EXCEPT !.state = "deleting"].state = "deleting"
    BY <1>1 DEF Probes
  <2>4. \A r \in probes' : \E q \in probes :
          q.attempt = r.attempt /\ (Ended(r) => Ended(q) \/ unseen' = {} \/ ProbesOutrun)
    BY <2>1, <2>2, <2>3 DEF Ended
  <2> QED BY <1>0, <1>2, <2>1, <2>4
<1>7. ASSUME NEW n \in DOMAIN jobs, WorkerExits(n)
      PROVE  /\ Kept /\ unseen' = unseen /\ pods' \subseteq pods /\ DOMAIN jobs' = DOMAIN jobs
             /\ failures \subseteq failures' /\ failures' \subseteq DOMAIN jobs
             /\ \A k \in DOMAIN jobs : jobs'[k] \in Failed => k \in failures'
             /\ \A k \in pods' : jobs'[k] = "gone" => jobs[k] = "gone"
             /\ Moves
  <2>1. PICK end \in {"ok"} \cup Failed :
             /\ jobs' = [jobs EXCEPT ![n] = end]
             /\ failures' = IF end \in Failed THEN failures \cup {n} ELSE failures
    BY <1>7 DEF WorkerExits
  <2>2. pods' \subseteq pods /\ pods \subseteq DOMAIN jobs /\ end # "gone"
    BY <1>7, Typed DEF WorkerExits, Failed
  <2>3. \A k \in pods' : jobs'[k] = "gone" => jobs[k] = "gone"
    BY <2>1, <2>2
  <2> QED BY <1>1, <1>7, <2>1, <2>3 DEF WorkerExits, JobsNoted, gateVars
<1>8. ASSUME NEW n \in DOMAIN jobs, PodEnds(n) \/ JobCollected(n) \/ JobVanishes(n)
      PROVE  /\ Kept /\ unseen' = unseen /\ pods' \subseteq pods /\ DOMAIN jobs' = DOMAIN jobs
             /\ failures' = failures
             /\ \A k \in DOMAIN jobs : jobs'[k] \in Failed => k \in failures'
             /\ \A k \in pods' : jobs'[k] = "gone" => jobs[k] = "gone"
             /\ Moves
  <2>1. /\ Kept /\ unseen' = unseen /\ pods' \subseteq pods /\ DOMAIN jobs' = DOMAIN jobs
        /\ failures' = failures
        /\ \A k \in DOMAIN jobs : jobs'[k] \in Failed => k \in failures'
    BY <1>8 DEF PodEnds, JobCollected, JobVanishes, JobsNoted, Failed, gateVars
  <2>2. \A k \in pods' : jobs'[k] = "gone" => jobs[k] = "gone"
    BY <1>8, Typed DEF PodEnds, JobCollected, JobVanishes
  <2>3. Moves
    BY <1>8 DEF PodEnds, JobCollected, JobVanishes
  <2> QED BY <2>1, <2>2, <2>3
<1> QED BY <1>0, <1>1, <1>3, <1>4, <1>5, <1>6, <1>7, <1>8 DEF Cluster

\* A user's edit moves the spec and makes every copy an old one.
LEMMA EditShape ==
  ASSUME IInv, EditSpec
  PROVE  /\ mig'.attempts = mig.attempts /\ mig'.exempt = mig.exempt /\ mig'.job = mig.job
         /\ mig'.gate = mig.gate /\ cache' = cache /\ ~fresh' /\ UNCHANGED jobVars
         /\ pass'.step = pass.step /\ pass'.m = pass.m /\ pass'.base = pass.base /\ ~pass'.current
         /\ pass'.verdict = pass.verdict
<1>1. mig \in Migrations /\ pass \in Passes
  BY Typed
<1>2. /\ mig' = [mig EXCEPT !.suspend = ~@] \/ mig' = [mig EXCEPT !.local = ~@]
      /\ cache' = cache /\ ~fresh' /\ UNCHANGED jobVars /\ pass' = [pass EXCEPT !.current = FALSE]
  BY DEF EditSpec
<1>3. /\ pass'.step = pass.step /\ pass'.m = pass.m /\ pass'.base = pass.base /\ ~pass'.current
      /\ pass'.verdict = pass.verdict
  BY <1>1, <1>2 DEF Passes
<1>4. /\ mig'.attempts = mig.attempts /\ mig'.exempt = mig.exempt /\ mig'.job = mig.job
      /\ mig'.gate = mig.gate
  BY <1>1, <1>2 DEF Migrations
<1> QED BY <1>2, <1>3, <1>4

LEMMA SyncShape ==
  ASSUME CacheSync
  PROVE  mig' = mig /\ cache' = mig /\ fresh' /\ UNCHANGED <<pass, jobVars>>
BY DEF CacheSync

\* Every step is one of these.
LEMMA AnyStep ==
  ASSUME [Next]_vars
  PROVE  \/ Reconcile \/ UpdateStatus \/ Decide \/ SettleBudget \/ RetryGate \/ JudgeProbe
         \/ CreateWorker \/ RecordAttempt \/ DeleteStrayProbes \/ DropProbe \/ Abort
         \/ CacheSync \/ EditSpec \/ Cluster \/ JobSync \/ UNCHANGED vars
BY DEF Next, PassStep

-----------------------------------------------------------------------------
(* The lock: what a pass holds between the gate and the record is the version the server *)
(* had, and is still the newest one as long as the pass is current.                      *)

LEMMA LockInit == Init => LockInv
BY IdlePass DEF Init, LockInv, GateSteps



LEMMA LockStep ==
  ASSUME IInv, JobsNoted, LockInv, [Next]_vars
  PROVE  LockInv'
<1> USE DEF GateSteps
<1>0. mig \in Migrations /\ cache \in Migrations /\ pass.m \in Migrations /\ pass.base \in Migrations
      /\ fresh \in BOOLEAN
  BY Typed
<1>1. CASE Reconcile
  <2>1. UNCHANGED apiVars /\ ~Terminal(cache) /\ Begun
    BY <1>1, ReconcileShape
  <2>2. fresh => cache = mig
    BY DEF LockInv
  <2>3. pass'.step \in GateSteps => pass'.m = cache /\ ~cache.suspend
    BY <2>1 DEF Begun
  <2>4. /\ pass'.base = cache /\ pass'.current = fresh /\ KeepsAttempt(pass'.m, cache)
        /\ pass'.step = "record" => pass'.m = cache
        /\ pass'.step = "decide" => Undecided(cache) /\ pass'.verdict # NoVerdict
    BY <2>1 DEF Begun
  <2>5. ~Terminal(pass'.m) \/ pass'.m # cache
    BY <2>1
  <2> QED BY <2>1, <2>2, <2>3, <2>4, <2>5 DEF LockInv, apiVars
<1>2. CASE UpdateStatus
  BY <1>2, UpdateStatusShape, IdlePass DEF LockInv
<1>3. CASE Decide \/ SettleBudget
  <2>1. CASE pass' = Idle /\ UNCHANGED apiVars
    BY <2>1, IdlePass DEF LockInv, apiVars
  <2>2. CASE /\ pass.current /\ mig = pass.base /\ Judges(mig', mig)
             /\ cache' = cache /\ fresh' = (fresh /\ mig' = mig)
    <3>1. fresh' => cache' = mig'
      BY <2>2 DEF LockInv
    <3>2. CASE pass' = Idle
      BY <3>1, <3>2, IdlePass DEF LockInv
    <3>3. CASE /\ pass'.m = mig' /\ pass'.base = mig' /\ pass'.current /\ ~Terminal(mig')
               /\ pass'.step \in {"pods", "judged", "create"}
      <4>1. KeepsAttempt(mig', mig')
        BY DEF KeepsAttempt, SameSpec
      <4>2. ~mig'.suspend
        BY <1>3, <2>2 DEF LockInv, Judges, SameSpec, Decide, SettleBudget
      <4> QED BY <3>1, <3>3, <4>1, <4>2 DEF LockInv
    <3> QED BY <1>3, <2>2, <3>2, <3>3, LockedShape
  <2> QED BY <1>3, <2>1, <2>2, LockedShape
<1>4. CASE RetryGate \/ JudgeProbe
  <2>1. /\ UNCHANGED apiVars /\ pass'.base = pass.base /\ pass'.current = pass.current
        /\ pass.step \in {"pods", "judged"}
    BY <1>4, GateShape
  <2>2. CASE pass'.step = "patch" /\ KeepsAttempt(pass'.m, pass.base)
    BY <2>1, <2>2 DEF LockInv, apiVars
  <2>3. CASE /\ pass'.m = pass.m
             /\ \/ pass'.step \in {"judged", "settle"}
                \/ pass'.step = "decide" /\ Undecided(pass.m) /\ pass'.verdict # NoVerdict
    BY <2>1, <2>3 DEF LockInv, apiVars
  <2> QED BY <1>4, <2>2, <2>3, GateShape
<1>5. CASE CreateWorker
  <2>1. /\ UNCHANGED apiVars /\ pass'.step = "record" /\ pass'.m = pass.m /\ pass'.base = pass.base
        /\ pass'.current = pass.current /\ pass.step = "create"
    BY <1>5, CreateShape
  <2> QED BY <2>1 DEF LockInv, apiVars
<1>6. CASE RecordAttempt
  BY <1>6, RecordShape, IdlePass DEF LockInv
<1>7. CASE DeleteStrayProbes \/ DropProbe \/ Abort
  <2>1. UNCHANGED apiVars /\ pass' = Idle
    BY <1>7, EndShape
  <2> QED BY <2>1, IdlePass DEF LockInv, apiVars
<1>8. CASE CacheSync
  BY <1>8, SyncShape DEF LockInv
<1>9. CASE EditSpec
  BY <1>9, EditShape DEF LockInv
<1>10. CASE Cluster \/ JobSync
  <2>1. UNCHANGED apiVars /\ UNCHANGED pass
    BY <1>10, ClusterShape
  <2> QED BY <2>1 DEF LockInv, apiVars
<1>11. CASE UNCHANGED vars
  BY <1>11 DEF vars, apiVars, LockInv
<1> QED BY <1>1, <1>2, <1>3, <1>4, <1>5, <1>6, <1>7, <1>8, <1>9, <1>10, <1>11, AnyStep

-----------------------------------------------------------------------------
(* The attempts: the server, the informer and the pass differ by at most one, and no Job *)
(* is numbered past the next attempt of any of them.                                     *)

VersionInv ==
  /\ JobsNoted
  /\ cache.attempts <= mig.attempts
  /\ {mig.attempts, cache.attempts} \subseteq {0} \cup DOMAIN jobs
  /\ \A n \in DOMAIN jobs : n <= cache.attempts + 1
  /\ Active => /\ pass.base.attempts <= cache.attempts /\ mig.attempts <= pass.base.attempts + 1
               /\ pass.base.attempts \in {0} \cup DOMAIN jobs
               /\ \A n \in DOMAIN jobs : n <= pass.base.attempts + 1
  /\ pass.step = "record" => pass.base.attempts + 1 \in DOMAIN jobs

\* The informer of Jobs is no further behind than the time a probe takes.
Timely == JobCacheLags => ~ProbesOutrun

\* The attempts that have a pod, under its Job or left by it.
Podded == pods \cup {o.attempt : o \in orphans}

\* Only the newest worker has a pod, and none but the next one when a pass settles the
\* budget: the gate has seen the previous pod gone, in an informer that knew of it, because
\* the probe it goes by was created and ran after that.  A pod that a deleted Job left when
\* every copy in use counted its attempt is beside no other: that attempt is never started again.
NewestOnly == \A n \in Podded : \A k \in DOMAIN jobs : k <= n
LeftAlone(o) == /\ o.attempt \notin pods /\ o.attempt <= cache.attempts
                /\ Active => o.attempt <= pass.base.attempts
PodInv ==
  /\ NewestOnly /\ Podded \subseteq DOMAIN jobs
  /\ \A n \in pods : jobs[n] # "gone"
  /\ \A o \in orphans : o.known => LeftAlone(o)
  /\ pass.step \in {"settle", "create"} => \A n \in Podded : n = pass.base.attempts + 1
  /\ \A p \in probes : /\ p.attempt <= cache.attempts + 1
                       /\ Active => p.attempt <= pass.base.attempts + 1
                       /\ Ended(p) => p.attempt - 1 \notin unseen
  /\ ~JobCacheLags => unseen = {}

LEMMA PoddedHas == \A n : n \in Podded <=> n \in pods \/ \E o \in orphans : o.attempt = n
BY DEF Podded

LEMMA VersionInit == Init => VersionInv /\ PodInv
<1> SUFFICES ASSUME Init PROVE VersionInv /\ PodInv
  OBVIOUS
<1>1. /\ mig.attempts = 0 /\ cache.attempts = 0 /\ DOMAIN jobs = {} /\ pods = {} /\ probes = {}
      /\ ~Active /\ pass.step = "idle"
  BY IdlePass DEF Init, NewMigration, Active
<1>2. orphans = {} /\ unseen = {} /\ Podded = {}
  BY DEF Init, Podded
<1> QED BY <1>1, <1>2 DEF VersionInv, PodInv, JobsNoted, NewestOnly

LEMMA VersionStep ==
  ASSUME IInv, LockInv, VersionInv, [Next]_vars
  PROVE  VersionInv'
<1> USE DEF Active
<1>0. /\ mig.attempts \in Nat /\ cache.attempts \in Nat /\ pass.base.attempts \in Nat
      /\ DOMAIN jobs \subseteq Nat /\ JobsNoted /\ failures \subseteq DOMAIN jobs
      /\ mig \in Migrations /\ cache \in Migrations /\ pass.m \in Migrations /\ pass.base \in Migrations
  BY Typed DEF VersionInv
<1>1. ASSUME UNCHANGED <<mig, cache, failures>>, DOMAIN jobs' = DOMAIN jobs, JobsNoted',
             \/ pass'.step = "idle"
             \/ pass'.base = pass.base /\ Active /\ (pass'.step = "record" => pass.step = "record")
      PROVE  VersionInv'
  BY <1>0, <1>1 DEF VersionInv
<1>2. ASSUME UNCHANGED clusterVars
      PROVE  UNCHANGED <<jobs, pods, unseen, failures>> /\ JobsNoted'
  BY <1>0, <1>2 DEF JobsNoted, clusterVars
<1>3. CASE Reconcile
  <2>1. /\ UNCHANGED apiVars /\ DOMAIN jobs' = DOMAIN jobs /\ failures' = failures
        /\ \A n \in DOMAIN jobs : jobs'[n] \in {jobs[n], "deleting"}
        /\ Begun
    BY <1>0, <1>3, ReconcileShape
  <2>2. pass'.base = cache /\ (pass'.step = "record" => cache.attempts + 1 \in DOMAIN jobs)
    BY <2>1 DEF Begun
  <2>3. JobsNoted'
    BY <1>0, <2>1 DEF JobsNoted, Failed
  <2>4. mig' = mig /\ cache' = cache
    BY <2>1 DEF apiVars
  <2>5. mig.attempts <= cache.attempts + 1
    BY <1>0 DEF VersionInv
  <2> QED BY <1>0, <2>1, <2>2, <2>3, <2>4, <2>5 DEF VersionInv
<1>4. CASE UpdateStatus
  <2>1. /\ cache' = cache /\ UNCHANGED clusterVars /\ mig' = Merge(mig, pass.base, pass.m)
        /\ pass'.step = "idle" \/ (pass'.step = "strays" /\ pass'.base = pass.base /\ Active)
        /\ pass.step \in {"patch", "observe"}
    BY <1>4, UpdateStatusShape, IdlePass DEF jobVars
  <2>2. mig'.attempts = mig.attempts
    <3>1. pass.m.attempts = pass.base.attempts
      BY <2>1 DEF LockInv, KeepsAttempt
    <3>2. Merge(mig, pass.base, pass.m).attempts
             = (IF pass.m.attempts = pass.base.attempts THEN mig.attempts ELSE pass.m.attempts)
      BY <1>0, MergeShape
    <3> QED BY <2>1, <3>1, <3>2
  <2> QED BY <1>0, <1>2, <2>1, <2>2 DEF VersionInv
<1>5. CASE Decide \/ SettleBudget
  <2>1. UNCHANGED clusterVars /\ pass.step \in {"decide", "settle"}
    BY <1>5, LockedShape DEF jobVars
  <2>2. CASE pass' = Idle /\ UNCHANGED apiVars
    BY <1>1, <1>2, <2>1, <2>2, IdlePass DEF apiVars
  <2>3. CASE pass.current /\ mig = pass.base /\ Judges(mig', mig) /\ cache' = cache
    <3>1. mig'.attempts = mig.attempts
      BY <2>3 DEF Judges
    <3>2. pass'.step = "idle" \/ (pass'.base = mig' /\ pass'.step # "record")
      BY <1>5, LockedShape, IdlePass
    <3> QED BY <1>0, <1>2, <2>1, <2>3, <3>1, <3>2 DEF VersionInv
  <2> QED BY <1>5, <2>2, <2>3, LockedShape
<1>6. CASE RetryGate \/ JudgeProbe
  <2>1. UNCHANGED apiVars /\ UNCHANGED clusterVars /\ pass'.base = pass.base /\ pass'.step # "record"
        /\ Active
    BY <1>6, GateShape
  <2> QED BY <1>1, <1>2, <2>1 DEF apiVars
<1>7. CASE CreateWorker
  <2> DEFINE attempt == pass.base.attempts + 1
  <2>1. /\ UNCHANGED apiVars /\ failures' = failures /\ pass'.base = pass.base
        /\ DOMAIN jobs' = DOMAIN jobs \cup {attempt} /\ Active
        /\ \A n \in DOMAIN jobs' : jobs'[n] \in Failed => n \in DOMAIN jobs /\ jobs[n] \in Failed
    BY <1>7, CreateShape
  <2>2. JobsNoted'
    BY <1>0, <2>1 DEF JobsNoted
  <2>3. mig' = mig /\ cache' = cache
    BY <2>1 DEF apiVars
  <2>4. attempt <= cache.attempts + 1
    BY <1>0, <2>1 DEF VersionInv
  <2> QED BY <1>0, <2>1, <2>2, <2>3, <2>4 DEF VersionInv
<1>8. CASE RecordAttempt
  <2>1. /\ cache' = cache /\ UNCHANGED clusterVars /\ Active
        /\ mig' = Merge(mig, pass.base, Recorded(pass.base)) /\ pass.step = "record"
        /\ pass'.step = "idle" \/ (pass'.step = "drop" /\ pass'.base = pass.base)
    BY <1>8, RecordShape, IdlePass DEF jobVars
  <2>2. mig'.attempts = pass.base.attempts + 1
    BY <1>0, <2>1, MergeShape, RecordedShape
  <2> QED BY <1>0, <1>2, <2>1, <2>2 DEF VersionInv
<1>9. CASE DeleteStrayProbes \/ DropProbe \/ Abort
  <2>1. UNCHANGED apiVars /\ UNCHANGED clusterVars /\ pass' = Idle
    BY <1>9, EndShape
  <2> QED BY <1>1, <1>2, <2>1, IdlePass DEF apiVars
<1>10. CASE CacheSync
  <2>1. mig' = mig /\ cache' = mig /\ pass' = pass /\ UNCHANGED clusterVars
    BY <1>10, SyncShape DEF jobVars
  <2> QED BY <1>0, <1>2, <2>1 DEF VersionInv
<1>11. CASE EditSpec
  <2>1. /\ mig'.attempts = mig.attempts /\ cache' = cache /\ UNCHANGED clusterVars
        /\ pass'.step = pass.step /\ pass'.base = pass.base
    BY <1>11, EditShape DEF jobVars
  <2> QED BY <1>0, <1>2, <2>1 DEF VersionInv
<1>12. CASE Cluster \/ JobSync
  <2>1. /\ UNCHANGED apiVars /\ UNCHANGED pass /\ DOMAIN jobs' = DOMAIN jobs
        /\ \A n \in DOMAIN jobs : jobs'[n] \in Failed => n \in failures'
    BY <1>0, <1>12, ClusterShape
  <2>2. JobsNoted'
    BY <1>0, <2>1 DEF JobsNoted
  <2> QED BY <2>1, <2>2 DEF VersionInv, apiVars
<1>13. CASE UNCHANGED vars
  BY <1>13 DEF vars, apiVars, jobVars, clusterVars, VersionInv, JobsNoted
<1> QED BY <1>3, <1>4, <1>5, <1>6, <1>7, <1>8, <1>9, <1>10, <1>11, <1>12, <1>13, AnyStep

LEMMA PodStep ==
  ASSUME Timely, IInv, LockInv, VersionInv, PodInv, [Next]_vars
  PROVE  PodInv'
<1> USE DEF Active
<1>0. /\ mig.attempts \in Nat /\ cache.attempts \in Nat /\ pass.base.attempts \in Nat
      /\ DOMAIN jobs \subseteq Nat /\ JobsNoted /\ pods \subseteq DOMAIN jobs
      /\ unseen \subseteq DOMAIN jobs /\ \A p \in probes : p.attempt \in Nat
      /\ cache.attempts <= mig.attempts /\ \A o \in orphans : o.attempt \in Nat
  BY Typed DEF VersionInv, Probes, Orphans
<1>1. ASSUME cache'.attempts \in {cache.attempts, mig.attempts}, DOMAIN jobs' = DOMAIN jobs,
             pods' \subseteq pods, unseen' \subseteq unseen,
             \A n \in pods' : jobs'[n] = "gone" => jobs[n] = "gone",
             \/ orphans' \subseteq orphans
             \/ /\ pass' = pass /\ cache' = cache
                /\ \A o \in orphans' :
                     o \in orphans \/ (o.attempt \in pods \ pods' /\ (o.known => Known(o.attempt))),
             \/ pass'.step = "idle"
             \/ pass'.base.attempts = pass.base.attempts /\ Active
             \/ pass'.base = cache /\ cache' = cache,
             pass'.step \in {"settle", "create"} => \A n \in Podded : n = pass'.base.attempts + 1,
             \A p \in probes' : \E q \in probes :
                q.attempt = p.attempt /\ (Ended(p) => Ended(q) \/ unseen' = {} \/ ProbesOutrun)
      PROVE  PodInv'
  <2>0. Podded' \subseteq Podded
    BY <1>1 DEF Podded
  <2>1. NewestOnly' /\ Podded' \subseteq DOMAIN jobs'
    BY <1>1, <2>0 DEF PodInv, NewestOnly
  <2>2. ASSUME NEW p \in probes'
        PROVE  /\ p.attempt <= cache'.attempts + 1
               /\ Active' => p.attempt <= pass'.base.attempts + 1
               /\ Ended(p) => p.attempt - 1 \notin unseen'
    <3>1. PICK q \in probes :
             q.attempt = p.attempt /\ (Ended(p) => Ended(q) \/ unseen' = {} \/ ProbesOutrun)
      BY <1>1
    <3> HIDE DEF Ended
    <3>2. q.attempt <= cache.attempts + 1 /\ (Active => q.attempt <= pass.base.attempts + 1)
          /\ (Ended(q) => q.attempt - 1 \notin unseen)
      BY DEF PodInv
    <3>3. ProbesOutrun => unseen' = {}
      BY <1>1 DEF Timely, PodInv
    <3> QED BY <1>0, <1>1, <3>1, <3>2, <3>3
  <2>3. ASSUME NEW o \in orphans', o.known
        PROVE  LeftAlone(o)'
    <3>1. CASE o \in orphans
      <4>1. LeftAlone(o)
        BY <2>3, <3>1 DEF PodInv
      <4> QED BY <1>0, <1>1, <3>1, <4>1 DEF LeftAlone
    <3>2. CASE /\ pass' = pass /\ cache' = cache
               /\ o.attempt \in pods \ pods' /\ Known(o.attempt)
      BY <3>2 DEF Known, LeftAlone
    <3> QED BY <1>1, <2>3, <3>1, <3>2
  <2>4. (\A n \in pods' : jobs'[n] # "gone") /\ (~JobCacheLags => unseen' = {})
    BY <1>1 DEF PodInv
  <2>5. pass'.step \in {"settle", "create"} => \A n \in Podded' : n = pass'.base.attempts + 1
    BY <1>1, <2>0
  <2> QED BY <2>1, <2>2, <2>3, <2>4, <2>5 DEF PodInv
<1>2. \A p \in probes : \E q \in probes :
        q.attempt = p.attempt /\ (Ended(p) => Ended(q) \/ unseen' = {} \/ ProbesOutrun)
  OBVIOUS
<1>3. CASE Reconcile
  <2>1. /\ UNCHANGED apiVars /\ DOMAIN jobs' = DOMAIN jobs /\ UNCHANGED <<pods, orphans, unseen>>
        /\ \A n \in DOMAIN jobs : jobs'[n] \in {jobs[n], "deleting"}
        /\ probes' \subseteq probes /\ Begun
    BY <1>0, <1>3, ReconcileShape
  <2>2. pass'.base = cache /\ pass'.step # "settle"
        /\ (pass'.step = "create" => cache.attempts = 0)
    BY <2>1 DEF Begun, GateSteps
  <2>3. pass'.step = "create" => \A n \in Podded : n = 1
    BY <1>0, <2>2 DEF VersionInv, JobsNoted, PodInv
  <2>4. \A n \in pods' : jobs'[n] = "gone" => jobs[n] = "gone"
    BY <1>0, <2>1
  <2> QED BY <1>0, <1>1, <1>2, <2>1, <2>2, <2>3, <2>4 DEF apiVars
<1>4. CASE UpdateStatus
  <2>1. /\ cache' = cache /\ UNCHANGED jobVars /\ Active
        /\ pass'.step = "idle" \/ (pass'.step = "strays" /\ pass'.base = pass.base)
    BY <1>4, UpdateStatusShape, IdlePass
  <2> QED BY <1>0, <1>1, <1>2, <2>1 DEF jobVars, clusterVars, gateVars
<1>5. CASE Decide \/ SettleBudget
  <2>1. /\ UNCHANGED jobVars /\ Active /\ pass.step \in {"decide", "settle"} /\ cache' = cache
    BY <1>5, LockedShape DEF apiVars
  <2>2. \/ pass'.step = "idle"
        \/ /\ pass'.base = mig' /\ Judges(mig', mig) /\ mig = pass.base
           /\ \/ pass'.step \in {"pods", "judged"}
              \/ pass.step = "settle" /\ pass'.step = "create"
    BY <1>5, LockedShape, IdlePass
  <2>3. pass'.step = "idle" \/ pass'.base.attempts = pass.base.attempts
    BY <2>2 DEF Judges
  <2>4. pass'.step \in {"settle", "create"} => \A n \in Podded : n = pass'.base.attempts + 1
    BY <2>2, <2>3 DEF PodInv
  <2> QED BY <1>0, <1>1, <1>2, <2>1, <2>3, <2>4 DEF jobVars, clusterVars, gateVars
<1>6. CASE RetryGate \/ JudgeProbe
  <2>1. /\ UNCHANGED apiVars /\ UNCHANGED clusterVars /\ pass'.base = pass.base /\ Active
        /\ \A p \in probes' : p \in probes \/ (p.attempt = pass.base.attempts + 1 /\ ~Ended(p))
        /\ pass'.step # "create"
    BY <1>6, GateShape
  <2>2. pass'.step = "settle" => \A n \in Podded : n = pass.base.attempts + 1
    <3>1. SUFFICES ASSUME pass'.step = "settle", NEW n \in Podded PROVE n = pass.base.attempts + 1
      OBVIOUS
    <3>2. /\ ~PreviousWorkerPod(pass.base)
          /\ \E p \in probes : p.attempt = pass.base.attempts + 1 /\ Ended(p)
      BY <1>6, <3>1, GateShape
    <3>3. pass.base.attempts \notin unseen
      BY <1>0, <3>2 DEF PodInv
    <3>4. pass.base.attempts \notin Podded
      BY <3>2, <3>3, PoddedHas DEF PreviousWorkerPod, OrphansOf
    <3>5. n <= pass.base.attempts + 1 /\ n >= pass.base.attempts /\ n \in Nat
      <4>1. n \in DOMAIN jobs /\ n \in Nat
        BY <1>0 DEF PodInv
      <4>2. n <= pass.base.attempts + 1
        BY <2>1, <4>1 DEF VersionInv
      <4>3. pass.base.attempts \in DOMAIN jobs => n >= pass.base.attempts
        BY DEF PodInv, NewestOnly
      <4> QED BY <1>0, <2>1, <4>1, <4>2, <4>3 DEF VersionInv
    <3> QED BY <1>0, <3>4, <3>5
  <2>3. UNCHANGED <<jobs, pods, orphans, unseen, cache>>
    BY <2>1 DEF clusterVars, apiVars
  <2>4. Podded' = Podded
    BY <2>3 DEF Podded
  <2>5. ASSUME NEW p \in probes'
        PROVE  /\ p.attempt <= cache.attempts + 1 /\ p.attempt <= pass.base.attempts + 1
               /\ Ended(p) => p.attempt - 1 \notin unseen
    BY <1>0, <2>1 DEF PodInv, VersionInv
  <2>6. NewestOnly' /\ \A o \in orphans' : o.known => LeftAlone(o)'
    BY <2>1, <2>3, <2>4 DEF PodInv, NewestOnly, LeftAlone
  <2> QED BY <2>1, <2>2, <2>3, <2>4, <2>5, <2>6 DEF PodInv
<1>7. CASE CreateWorker
  <2> DEFINE attempt == pass.base.attempts + 1
  <2>1. /\ UNCHANGED <<apiVars, orphans, probes>> /\ pass'.base = pass.base /\ pass'.step = "record"
        /\ DOMAIN jobs' = DOMAIN jobs \cup {attempt} /\ Active /\ pass.step = "create"
        /\ pods' \subseteq pods \cup {attempt} /\ unseen' \subseteq unseen \cup {attempt}
        /\ ~JobCacheLags => unseen' = unseen
    BY <1>7, CreateShape
  <2>2. UNCHANGED <<cache, probes, orphans>>
    BY <2>1 DEF apiVars
  <2>3. Podded' \subseteq Podded \cup {attempt} /\ Podded \subseteq {attempt}
    BY <2>1 DEF Podded, PodInv
  <2>4. NewestOnly' /\ Podded' \subseteq DOMAIN jobs'
    BY <1>0, <2>1, <2>3 DEF NewestOnly, VersionInv
  <2>5. ASSUME NEW p \in probes
        PROVE  /\ p.attempt <= cache.attempts + 1 /\ p.attempt <= pass.base.attempts + 1
               /\ Ended(p) => p.attempt - 1 \notin unseen'
    BY <1>0, <2>1 DEF PodInv
  <2>6. ASSUME NEW o \in orphans, o.known
        PROVE  LeftAlone(o)'
    <3>1. LeftAlone(o)
      BY <2>6 DEF PodInv
    <3>2. o.attempt # attempt
      BY <1>0, <2>1, <3>1 DEF LeftAlone
    <3> QED BY <2>1, <2>2, <3>1, <3>2 DEF LeftAlone
  <2>7. \A n \in pods' : jobs'[n] # "gone"
    <3>1. \A n \in DOMAIN jobs' : jobs'[n] = "gone" => n \in DOMAIN jobs /\ jobs[n] = "gone"
      BY <1>7, CreateShape
    <3>2. ASSUME NEW n \in pods', jobs'[n] = "gone"
          PROVE  FALSE
      <4>1. n \in DOMAIN jobs' /\ jobs[n] = "gone" /\ n \notin pods
        BY <1>0, <2>1, <3>1, <3>2 DEF PodInv
      <4>2. n \in pods' \ pods
        BY <3>2, <4>1
      <4> QED BY <1>7, <3>2, <4>1, <4>2 DEF CreateWorker, Exists, clusterVars
    <3> QED BY <3>2
  <2>8. ~JobCacheLags => unseen' = {}
    BY <2>1 DEF PodInv
  <2> QED BY <2>1, <2>2, <2>4, <2>5, <2>6, <2>7, <2>8 DEF PodInv
<1>8. CASE RecordAttempt
  <2>1. /\ cache' = cache /\ UNCHANGED jobVars /\ Active
        /\ pass'.step = "idle" \/ (pass'.step = "drop" /\ pass'.base = pass.base)
    BY <1>8, RecordShape, IdlePass
  <2> QED BY <1>0, <1>1, <1>2, <2>1 DEF jobVars, clusterVars, gateVars
<1>9. CASE DeleteStrayProbes \/ DropProbe \/ Abort
  <2>1. UNCHANGED apiVars /\ UNCHANGED clusterVars /\ pass' = Idle /\ probes' \subseteq probes
    BY <1>9, EndShape
  <2> QED BY <1>0, <1>1, <1>2, <2>1, IdlePass DEF apiVars, clusterVars
<1>10. CASE CacheSync
  <2>1. cache' = mig /\ pass' = pass /\ UNCHANGED jobVars
    BY <1>10, SyncShape
  <2>2. pass.step \in {"settle", "create"} => \A n \in Podded : n = pass.base.attempts + 1
    BY DEF PodInv
  <2> QED BY <1>0, <1>1, <1>2, <2>1, <2>2 DEF jobVars, clusterVars, gateVars
<1>11. CASE EditSpec
  <2>1. /\ cache' = cache /\ UNCHANGED jobVars
        /\ pass'.step = pass.step /\ pass'.base = pass.base
    BY <1>11, EditShape
  <2>2. pass.step \in {"settle", "create"} => \A n \in Podded : n = pass.base.attempts + 1
    BY DEF PodInv
  <2> QED BY <1>0, <1>1, <1>2, <2>1, <2>2 DEF jobVars, clusterVars, gateVars
<1>12. CASE Cluster \/ JobSync
  <2>1. /\ UNCHANGED apiVars /\ UNCHANGED pass /\ DOMAIN jobs' = DOMAIN jobs
        /\ pods' \subseteq pods /\ unseen' \subseteq unseen
        /\ \A n \in pods' : jobs'[n] = "gone" => jobs[n] = "gone"
        /\ \A o \in orphans' :
             o \in orphans \/ (o.attempt \in pods \ pods' /\ (o.known => Known(o.attempt)))
        /\ \A p \in probes' : \E q \in probes :
              q.attempt = p.attempt /\ (Ended(p) => Ended(q) \/ unseen' = {} \/ ProbesOutrun)
    BY <1>0, <1>12, ClusterShape
  <2>2. pass.step \in {"settle", "create"} => \A n \in Podded : n = pass.base.attempts + 1
    BY DEF PodInv
  <2> QED BY <1>0, <1>1, <2>1, <2>2 DEF apiVars
<1>13. CASE UNCHANGED vars
  BY <1>13 DEF vars, apiVars, jobVars, clusterVars, gateVars, PodInv, NewestOnly, Podded, LeftAlone
<1> QED BY <1>3, <1>4, <1>5, <1>6, <1>7, <1>8, <1>9, <1>10, <1>11, <1>12, <1>13, AnyStep

-----------------------------------------------------------------------------
(* The gate record: a failure noted, then judged, then dropped with the next attempt. *)

\* How far the failure of the last attempt is: none noted, noted, or judged.
Level(x) == IF x.gate.attempt = 0 \/ x.gate.attempt # x.attempts THEN 0
            ELSE IF x.gate.verdict = NoVerdict THEN 1 ELSE 2

\* A gate record is of a failed attempt, its verdict of the last one; a Job that the status
\* names is the last attempt's, and has not been noted to fail.
WellGated(x, failed) ==
  /\ x.gate.attempt <= x.attempts
  /\ x.gate.attempt # 0 => x.gate.attempt \in failed
  /\ x.gate.verdict # NoVerdict => Level(x) = 2
  /\ x.job # 0 => x.job = x.attempts /\ Level(x) = 0

\* An older copy is at most one step behind: a level, or an attempt.
OneBehind(new, old) ==
  \/ new.attempts = old.attempts /\ (Level(new) = Level(old) \/ Level(new) = Level(old) + 1)
  \/ new.attempts = old.attempts + 1 /\ Level(new) = 0

LEMMA LevelRange ==
  ASSUME NEW x
  PROVE  Level(x) \in 0..2
BY DEF Level

LEMMA LevelSame ==
  ASSUME NEW x, NEW y, x.gate = y.gate, x.attempts = y.attempts
  PROVE  Level(x) = Level(y)
BY DEF Level

\* A status patch notes a failure on the version that has none, or leaves the record alone;
\* written over a later version, it cannot bring an older record back.
LEMMA PatchGates ==
  ASSUME NEW cur \in Migrations, NEW base \in Migrations, NEW m \in Migrations, NEW failed \in SUBSET Nat,
         0 \notin failed, WellGated(cur, failed), WellGated(base, failed), OneBehind(cur, base),
         KeepsAttempt(m, base),
         \/ m.gate = base.gate
         \/ /\ base.job # 0 /\ base.job \in failed /\ m.job = 0
            /\ m.gate = [attempt |-> base.attempts, verdict |-> NoVerdict],
         NEW new, new = Merge(cur, base, m)
  PROVE  /\ new \in Migrations /\ new.attempts = cur.attempts /\ new.exempt = cur.exempt
         /\ WellGated(new, failed) /\ new.gate.verdict = cur.gate.verdict
         /\ \/ Level(new) = Level(cur)
            \/ /\ new.attempts = base.attempts /\ Level(cur) = 0 /\ Level(base) = 0 /\ Level(new) = 1
<1>0. /\ cur.gate \in Gates /\ base.gate \in Gates /\ m.gate \in Gates
      /\ cur.attempts \in Nat /\ base.attempts \in Nat /\ cur.job \in Nat /\ base.job \in Nat
      /\ cur.gate.attempt \in Nat /\ base.gate.attempt \in Nat
  BY DEF Migrations, Gates
<1>1. /\ new \in Migrations /\ new.attempts = cur.attempts /\ new.exempt = cur.exempt
      /\ new.job = (IF m.job = base.job THEN cur.job ELSE m.job)
      /\ new.gate = MergeGate(cur.gate, base.gate, m.gate)
  BY MergeShape DEF KeepsAttempt
<1>2. new.job = cur.job \/ new.job = 0
  BY <1>1 DEF KeepsAttempt
<1>3. CASE m.gate = base.gate
  <2>1. new.gate = cur.gate
    BY <1>0, <1>1, <1>3, MergeGateShape
  <2>2. Level(new) = Level(cur)
    BY <1>1, <2>1, LevelSame
  <2> QED BY <1>1, <1>2, <2>1, <2>2 DEF WellGated
<1>4. CASE /\ base.job # 0 /\ base.job \in failed /\ m.job = 0
           /\ m.gate = [attempt |-> base.attempts, verdict |-> NoVerdict]
  <2>1. base.job = base.attempts /\ Level(base) = 0 /\ base.gate.verdict = NoVerdict
    BY <1>4 DEF WellGated
  <2>2. base.attempts # 0 /\ base.attempts \in failed /\ base.gate.attempt # base.attempts
    BY <1>0, <1>4, <2>1 DEF Level
  <2>3. m.gate # NoGate /\ m.gate.attempt = base.attempts /\ m.gate.verdict = NoVerdict
    BY <1>4, <2>2, NoVerdictIs
  <2>4. new.gate.attempt = base.attempts /\ new.gate.verdict = cur.gate.verdict
    BY <1>0, <1>1, <2>1, <2>2, <2>3, MergeGateShape
  <2>5. new.job = 0
    BY <1>1, <1>4
  <2>6. CASE cur.attempts = base.attempts
    <3>1. Level(cur) \in {0, 1} /\ cur.gate.verdict = NoVerdict
      BY <2>1, <2>6 DEF OneBehind, WellGated
    <3>2. Level(new) = 1
      BY <1>1, <2>2, <2>4, <2>6, <3>1 DEF Level
    <3> QED BY <1>0, <1>1, <2>1, <2>2, <2>4, <2>5, <2>6, <3>1, <3>2 DEF WellGated
  <2>7. CASE cur.attempts = base.attempts + 1
    <3>1. Level(cur) = 0 /\ cur.gate.verdict = NoVerdict
      BY <1>0, <2>7 DEF OneBehind, WellGated
    <3>2. Level(new) = 0
      BY <1>0, <1>1, <2>4, <2>7 DEF Level
    <3> QED BY <1>0, <1>1, <2>2, <2>4, <2>5, <2>7, <3>1, <3>2 DEF WellGated
  <2> QED BY <2>6, <2>7 DEF OneBehind
<1> QED BY <1>3, <1>4

\* Recording an attempt: whatever record the server holds is of an attempt before it.
LEMMA RecordGates ==
  ASSUME NEW cur \in Migrations, NEW base \in Migrations, NEW failed \in SUBSET Nat,
         WellGated(cur, failed), WellGated(base, failed), OneBehind(cur, base),
         NEW new, new = Merge(cur, base, Recorded(base))
  PROVE  /\ new \in Migrations /\ new.attempts = base.attempts + 1 /\ new.exempt = cur.exempt
         /\ WellGated(new, failed) /\ Level(new) = 0 /\ new.gate \in {cur.gate, NoGate}
<1>0. /\ cur.gate \in Gates /\ base.gate \in Gates /\ NoGate \in Gates
      /\ cur.attempts \in Nat /\ base.attempts \in Nat /\ base.job \in Nat
      /\ cur.gate.attempt \in Nat /\ base.gate.attempt \in Nat
      /\ NoGate.attempt = 0 /\ NoGate.verdict = NoVerdict
  BY NoVerdictIs DEF Migrations, Gates
<1>1. /\ Recorded(base) \in Migrations /\ Recorded(base).attempts = base.attempts + 1
      /\ Recorded(base).job = base.attempts + 1 /\ Recorded(base).exempt = base.exempt
      /\ Recorded(base).gate = (IF base.attempts > 0 THEN NoGate ELSE base.gate)
  BY RecordedShape
<1>2. Recorded(base).gate = NoGate
  <2>1. CASE base.attempts = 0
    <3>1. base.gate.attempt = 0 /\ base.gate.verdict = NoVerdict
      BY <1>0, <2>1 DEF WellGated, Level
    <3>2. base.gate = NoGate
      BY <1>0, <3>1 DEF Gates, NoGate
    <3> QED BY <1>1, <2>1, <3>2
  <2> QED BY <1>0, <1>1, <2>1
<1>3. /\ new \in Migrations /\ new.attempts = base.attempts + 1 /\ new.exempt = cur.exempt
      /\ new.gate = MergeGate(cur.gate, base.gate, NoGate)
      /\ new.job = (IF Recorded(base).job = base.job THEN cur.job ELSE base.attempts + 1)
  BY <1>0, <1>1, <1>2, MergeShape
<1>4. new.gate \in {cur.gate, NoGate}
  BY <1>0, <1>3, MergeGateShape
<1>5. new.job = base.attempts + 1
  BY <1>0, <1>1, <1>3 DEF WellGated
<1>6. cur.gate.attempt # base.attempts + 1 \/ (cur.gate.attempt = cur.attempts /\ Level(cur) = 0)
  BY <1>0 DEF WellGated, OneBehind
<1>7. Level(new) = 0
  BY <1>0, <1>3, <1>4, <1>6 DEF Level
<1>8. new.gate.verdict = NoVerdict
  <2>1. CASE base.gate = NoGate
    <3>1. Level(base) = 0
      BY <1>0, <2>1 DEF Level
    <3>2. cur.gate.verdict = NoVerdict
      BY <1>0, <3>1 DEF WellGated, OneBehind
    <3> QED BY <1>0, <1>4, <3>2
  <2>2. CASE base.gate # NoGate
    BY <1>0, <1>3, <2>2, MergeGateShape
  <2> QED BY <2>1, <2>2
<1>9. cur.gate.attempt <= base.attempts + 1
  BY <1>0 DEF WellGated, OneBehind
<1> QED BY <1>0, <1>3, <1>4, <1>5, <1>7, <1>8, <1>9 DEF WellGated

\* A locked patch judges the failure it found noted, once.
LEMMA JudgesGates ==
  ASSUME NEW cur \in Migrations, NEW new \in Migrations, NEW failed \in SUBSET Nat,
         WellGated(cur, failed), Judges(new, cur)
  PROVE  /\ new.attempts = cur.attempts /\ WellGated(new, failed)
         /\ \/ Level(new) = Level(cur) /\ new.exempt = cur.exempt /\ new.gate = cur.gate
            \/ /\ Level(cur) = 1 /\ Level(new) = 2 /\ new.exempt \in {cur.exempt, cur.exempt + 1}
<1>0. cur.gate \in Gates /\ new.gate \in Gates /\ cur.gate.attempt \in Nat /\ cur.attempts \in Nat
  BY DEF Migrations, Gates
<1>1. CASE new.gate.verdict = cur.gate.verdict /\ new.exempt = cur.exempt
  <2>1. new.gate = cur.gate /\ new.attempts = cur.attempts /\ new.job = cur.job
    BY <1>0, <1>1 DEF Judges, Gates
  <2>2. Level(new) = Level(cur)
    BY <2>1, LevelSame
  <2> QED BY <1>1, <2>1, <2>2 DEF WellGated
<1>2. CASE /\ Undecided(cur) /\ new.gate.verdict # NoVerdict /\ new.exempt \in {cur.exempt, cur.exempt + 1}
  <2>1. /\ cur.gate.attempt = cur.attempts /\ cur.gate.verdict = NoVerdict /\ cur.gate.attempt # 0
        /\ new.gate.attempt = cur.gate.attempt /\ new.attempts = cur.attempts /\ new.job = cur.job
    BY <1>0, <1>2, NoVerdictIs DEF OnFailurePath, Gates, Judges
  <2>2. Level(cur) = 1 /\ Level(new) = 2
    BY <1>2, <2>1 DEF Level
  <2> QED BY <1>2, <2>1, <2>2 DEF WellGated
<1> QED BY <1>1, <1>2 DEF Judges

\* What the server, the informer and the pass know of the last failure.
GateInv ==
  /\ WellGated(mig, failures) /\ WellGated(cache, failures)
  /\ OneBehind(mig, cache)
  /\ Active => /\ WellGated(pass.base, failures) /\ OneBehind(mig, pass.base)
               /\ cache.attempts = pass.base.attempts /\ Level(pass.base) # 0 => Level(cache) # 0
  /\ pass.step \in {"patch", "observe"} =>
       \/ pass.m.gate = pass.base.gate
       \/ /\ pass.base.job # 0 /\ pass.base.job \in failures /\ pass.m.job = 0
          /\ pass.m.gate = [attempt |-> pass.base.attempts, verdict |-> NoVerdict]

\* How many attempts have been judged: no more failures than those can be exempt.
Charged(x) == IF Level(x) = 2 THEN x.attempts ELSE x.attempts - 1
RefundInv == mig.exempt <= Cardinality(failures \cap 1..Charged(mig))

LEMMA GateInit == Init => GateInv
<1> SUFFICES ASSUME Init PROVE GateInv
  OBVIOUS
<1>1. /\ cache = mig /\ ~Active /\ pass.step = "idle"
      /\ mig.gate.attempt = 0 /\ mig.gate.verdict = NoVerdict /\ mig.attempts = 0 /\ mig.job = 0
  BY IdlePass DEF Init, NewMigration, NoGate, NoVerdict, Active
<1>2. Level(mig) = 0
  BY <1>1 DEF Level
<1> QED BY <1>1, <1>2 DEF GateInv, WellGated, OneBehind

\* More failures keep a record of one well-formed.
LEMMA WellGatedGrows ==
  ASSUME NEW x, NEW failed, NEW more, failed \subseteq more, WellGated(x, failed)
  PROVE  WellGated(x, more)
BY DEF WellGated

\* A write that moves the last failure on by a level, or the attempts by one, leaves every
\* copy at most one behind.
LEMMA LevelUp ==
  ASSUME NEW new, NEW cur, NEW old, OneBehind(cur, old), new.attempts = cur.attempts,
         cur.attempts \in Nat, old.attempts \in Nat,
         \/ Level(new) = Level(cur)
         \/ cur.attempts = old.attempts /\ Level(cur) = Level(old) /\ Level(new) = Level(cur) + 1
  PROVE  OneBehind(new, old)
BY LevelRange DEF OneBehind

LEMMA GateStep ==
  ASSUME IInv, LockInv, VersionInv, GateInv, [Next]_vars
  PROVE  GateInv'
<1> USE DEF Active
<1>0. /\ mig \in Migrations /\ cache \in Migrations /\ pass.base \in Migrations /\ pass.m \in Migrations
      /\ mig.attempts \in Nat /\ cache.attempts \in Nat /\ pass.base.attempts \in Nat
      /\ failures \subseteq Nat /\ 0 \notin failures /\ JobsNoted
      /\ cache.attempts <= mig.attempts
  BY Typed DEF VersionInv, JobsNoted
<1>1. ASSUME UNCHANGED <<mig, cache, failures>>,
             \/ pass'.step = "idle"
             \/ Active /\ pass'.base = pass.base /\ pass'.step \notin {"patch", "observe"}
      PROVE  GateInv'
  BY <1>1 DEF GateInv
<1>2. CASE Reconcile
  <2>1. /\ UNCHANGED apiVars /\ UNCHANGED failures /\ Begun
    BY <1>0, <1>2, ReconcileShape
  <2>2. pass'.base = cache
    BY <2>1 DEF Begun
  <2>3. pass'.step \in {"patch", "observe"} =>
          \/ pass'.m.gate = cache.gate
          \/ /\ cache.job # 0 /\ cache.job \in failures /\ pass'.m.job = 0
             /\ pass'.m.gate = [attempt |-> cache.attempts, verdict |-> NoVerdict]
    BY <2>1 DEF Begun, NotesFailure, GateSteps
  <2>4. mig' = mig /\ cache' = cache /\ failures' = failures
    BY <2>1 DEF apiVars
  <2> QED BY <2>2, <2>3, <2>4 DEF GateInv
<1>3. CASE UpdateStatus
  <2>1. /\ cache' = cache /\ UNCHANGED failures /\ Active /\ pass.step \in {"patch", "observe"}
        /\ mig' = Merge(mig, pass.base, pass.m)
        /\ pass'.step = "idle" \/ (pass'.step = "strays" /\ pass'.base = pass.base)
    BY <1>3, UpdateStatusShape, IdlePass DEF jobVars, clusterVars
  <2>2. /\ WellGated(mig, failures) /\ WellGated(pass.base, failures) /\ OneBehind(mig, pass.base)
        /\ \/ pass.m.gate = pass.base.gate
           \/ /\ pass.base.job # 0 /\ pass.base.job \in failures /\ pass.m.job = 0
              /\ pass.m.gate = [attempt |-> pass.base.attempts, verdict |-> NoVerdict]
    BY <2>1 DEF GateInv
  <2>3. KeepsAttempt(pass.m, pass.base)
    BY <2>1 DEF LockInv
  <2>4. /\ mig'.attempts = mig.attempts /\ WellGated(mig', failures)
        /\ \/ Level(mig') = Level(mig)
           \/ /\ mig'.attempts = pass.base.attempts /\ Level(mig) = 0 /\ Level(pass.base) = 0
              /\ Level(mig') = 1
    BY <1>0, <2>1, <2>2, <2>3, PatchGates
  <2>5. OneBehind(mig, cache) /\ WellGated(cache, failures)
    BY DEF GateInv
  <2>6. OneBehind(mig', pass.base)
    BY <1>0, <2>2, <2>4, LevelUp
  <2>7. pass.base.attempts <= cache.attempts
    BY <2>1 DEF VersionInv
  <2>8. Level(mig) = 0 /\ cache.attempts = mig.attempts => Level(cache) = 0
    BY <1>0, <2>5, LevelRange DEF OneBehind
  <2>9. OneBehind(mig', cache)
    <3>1. Level(mig') # Level(mig) => cache.attempts = mig.attempts
      BY <1>0, <2>4, <2>7
    <3> QED BY <1>0, <2>4, <2>5, <2>8, <3>1, LevelUp
  <2> QED BY <2>1, <2>2, <2>4, <2>5, <2>6, <2>9 DEF GateInv
<1>4. CASE Decide \/ SettleBudget
  <2>1. UNCHANGED failures /\ pass.step \in {"decide", "settle"}
    BY <1>4, LockedShape DEF jobVars, clusterVars
  <2>2. CASE pass' = Idle /\ UNCHANGED apiVars
    BY <1>1, <2>1, <2>2, IdlePass DEF apiVars
  <2>3. CASE /\ pass.current /\ mig = pass.base /\ Judges(mig', mig)
             /\ cache' = cache
    <3>1. /\ WellGated(mig, failures) /\ WellGated(cache, failures) /\ OneBehind(mig, cache)
          /\ cache.attempts = mig.attempts /\ Level(mig) # 0 => Level(cache) # 0
          /\ mig.attempts <= cache.attempts
      BY <2>1, <2>3 DEF GateInv, VersionInv
    <3>2. mig' \in Migrations
      BY NextInv, Typed DEF IInv, ApiInv, ApiTypeOK
    <3>3. /\ mig'.attempts = mig.attempts /\ WellGated(mig', failures)
          /\ Level(mig') = Level(mig) \/ (Level(mig) = 1 /\ Level(mig') = 2)
      BY <1>0, <2>3, <3>1, <3>2, JudgesGates
    <3>4. cache.attempts = mig.attempts
      BY <1>0, <3>1
    <3>5. Level(mig) = 1 => Level(cache) = 1
      BY <1>0, <3>1, <3>4, LevelRange DEF OneBehind
    <3>6. OneBehind(mig', cache)
      BY <1>0, <3>1, <3>3, <3>4, <3>5, LevelUp
    <3>7. Level(mig') # 0 => Level(cache) # 0
      BY <3>1, <3>3, <3>4
    <3>8. OneBehind(mig', mig')
      BY DEF OneBehind
    <3>9. pass'.step = "idle" \/ (pass'.base = mig' /\ pass'.step \in {"pods", "judged", "create"})
      BY <1>4, LockedShape, IdlePass
    <3> QED BY <2>1, <2>3, <3>1, <3>3, <3>6, <3>7, <3>8, <3>9 DEF GateInv
  <2> QED BY <1>4, <2>2, <2>3, LockedShape
<1>5. CASE RetryGate \/ JudgeProbe
  <2>1. /\ UNCHANGED apiVars /\ UNCHANGED clusterVars /\ pass'.base = pass.base /\ Active
        /\ pass'.step = "patch" => pass'.m.gate = pass.base.gate
        /\ pass'.step # "observe"
    BY <1>5, GateShape DEF LockInv, GateSteps
  <2>2. mig' = mig /\ cache' = cache /\ failures' = failures
    BY <2>1 DEF apiVars, clusterVars
  <2> QED BY <2>1, <2>2 DEF GateInv
<1>6. CASE CreateWorker
  <2>1. /\ UNCHANGED apiVars /\ UNCHANGED failures /\ pass'.base = pass.base /\ pass'.step = "record"
        /\ Active
    BY <1>6, CreateShape
  <2> QED BY <1>1, <2>1 DEF apiVars
<1>7. CASE RecordAttempt
  <2>1. /\ cache' = cache /\ UNCHANGED failures /\ Active
        /\ mig' = Merge(mig, pass.base, Recorded(pass.base))
        /\ pass'.step = "idle" \/ (pass'.step = "drop" /\ pass'.base = pass.base)
    BY <1>7, RecordShape, IdlePass DEF jobVars, clusterVars
  <2>2. /\ WellGated(mig, failures) /\ WellGated(pass.base, failures) /\ OneBehind(mig, pass.base)
        /\ OneBehind(mig, cache) /\ WellGated(cache, failures)
        /\ cache.attempts = pass.base.attempts /\ Level(pass.base) # 0 => Level(cache) # 0
    BY <2>1 DEF GateInv
  <2>3. /\ mig'.attempts = pass.base.attempts + 1 /\ WellGated(mig', failures) /\ Level(mig') = 0
    BY <1>0, <2>1, <2>2, RecordGates
  <2>4. OneBehind(mig', pass.base)
    BY <2>3 DEF OneBehind
  <2>5. pass.base.attempts <= cache.attempts /\ mig.attempts <= pass.base.attempts + 1
    BY <2>1 DEF VersionInv
  <2>6. OneBehind(mig', cache)
    <3>1. CASE cache.attempts = pass.base.attempts
      BY <2>3, <3>1 DEF OneBehind
    <3>2. CASE cache.attempts = pass.base.attempts + 1
      <4>1. Level(mig) = 0 /\ mig.attempts = cache.attempts
        BY <1>0, <2>2, <2>5, <3>2 DEF OneBehind
      <4>2. Level(cache) = 0
        BY <1>0, <2>2, <4>1, LevelRange DEF OneBehind
      <4> QED BY <2>3, <3>2, <4>2 DEF OneBehind
    <3> QED BY <1>0, <2>5, <3>1, <3>2
  <2> QED BY <2>1, <2>2, <2>3, <2>4, <2>6 DEF GateInv
<1>8. CASE DeleteStrayProbes \/ DropProbe \/ Abort
  <2>1. UNCHANGED apiVars /\ UNCHANGED clusterVars /\ pass' = Idle
    BY <1>8, EndShape
  <2> QED BY <1>1, <2>1, IdlePass DEF apiVars, clusterVars
<1>9. CASE CacheSync
  <2>1. mig' = mig /\ cache' = mig /\ pass' = pass /\ UNCHANGED failures
    BY <1>9, SyncShape DEF jobVars, clusterVars
  <2>2. OneBehind(mig, mig)
    BY DEF OneBehind
  <2>3. Active /\ mig.attempts = pass.base.attempts /\ Level(pass.base) # 0 => Level(mig) # 0
    BY <1>0, LevelRange DEF GateInv, OneBehind
  <2> QED BY <2>1, <2>2, <2>3 DEF GateInv
<1>10. CASE EditSpec
  <2>1. /\ mig'.attempts = mig.attempts /\ mig'.job = mig.job /\ mig'.gate = mig.gate
        /\ cache' = cache /\ UNCHANGED failures
        /\ pass'.step = pass.step /\ pass'.base = pass.base /\ pass'.m = pass.m
    BY <1>10, EditShape DEF jobVars, clusterVars
  <2>2. Level(mig') = Level(mig)
    BY <2>1, LevelSame
  <2>3. WellGated(mig', failures)
    BY <2>1, <2>2 DEF GateInv, WellGated
  <2>4. OneBehind(mig', cache) /\ (Active => OneBehind(mig', pass.base))
    BY <2>1, <2>2 DEF GateInv, OneBehind
  <2> QED BY <2>1, <2>3, <2>4 DEF GateInv
<1>11. CASE Cluster \/ JobSync
  <2>1. UNCHANGED apiVars /\ UNCHANGED pass /\ failures \subseteq failures'
    BY <1>0, <1>11, ClusterShape
  <2>2. mig' = mig /\ cache' = cache /\ pass' = pass
    BY <2>1 DEF apiVars
  <2>3. WellGated(mig, failures') /\ WellGated(cache, failures')
        /\ (Active => WellGated(pass.base, failures'))
    BY <2>1, WellGatedGrows DEF GateInv
  <2> QED BY <2>1, <2>2, <2>3 DEF GateInv
<1>12. CASE UNCHANGED vars
  BY <1>12 DEF vars, apiVars, jobVars, clusterVars, GateInv
<1> QED BY <1>2, <1>3, <1>4, <1>5, <1>6, <1>7, <1>8, <1>9, <1>10, <1>11, <1>12, AnyStep

-----------------------------------------------------------------------------
(* The refunds: no more than the failures among the attempts judged so far. *)

\* Counting failures up to a number: the count grows with the set and with the number, and
\* by one when the next number is a failure.
LEMMA CountGrows ==
  ASSUME NEW failed, NEW more, failed \subseteq more, NEW a \in Int, NEW b \in Int, a <= b
  PROVE  /\ Cardinality(failed \cap 1..a) <= Cardinality(more \cap 1..b)
         /\ Cardinality(failed \cap 1..a) \in Nat /\ Cardinality(more \cap 1..b) \in Nat
<1>1. IsFiniteSet(1..b) /\ IsFiniteSet(1..a)
  BY FS_Interval
<1>2. IsFiniteSet(more \cap 1..b) /\ IsFiniteSet(failed \cap 1..a)
  BY <1>1, FS_Subset
<1>3. failed \cap 1..a \subseteq more \cap 1..b
  OBVIOUS
<1> QED BY <1>2, <1>3, FS_Subset, FS_CardinalityType

LEMMA CountNext ==
  ASSUME NEW failed, NEW a \in Nat, a + 1 \in failed
  PROVE  Cardinality(failed \cap 1..(a + 1)) = Cardinality(failed \cap 1..a) + 1
<1>1. IsFiniteSet(failed \cap 1..a)
  BY FS_Interval, FS_Subset
<1>2. failed \cap 1..(a + 1) = (failed \cap 1..a) \cup {a + 1} /\ a + 1 \notin failed \cap 1..a
  OBVIOUS
<1> QED BY <1>1, <1>2, FS_AddElement

LEMMA RefundInit == Init => RefundInv
<1> SUFFICES ASSUME Init PROVE RefundInv
  OBVIOUS
<1>1. mig.exempt = 0 /\ mig.attempts = 0
  BY DEF Init, NewMigration
<1>2. Charged(mig) \in Int
  BY <1>1 DEF Charged
<1>3. Cardinality(failures \cap 1..Charged(mig)) \in Nat
  <2>1. Charged(mig) <= Charged(mig) /\ failures \subseteq failures
    BY <1>2
  <2> QED BY <1>2, <2>1, CountGrows
<1> QED BY <1>1, <1>3 DEF RefundInv

LEMMA RefundStep ==
  ASSUME IInv, LockInv, VersionInv, GateInv, RefundInv, [Next]_vars
  PROVE  RefundInv'
<1> USE DEF Active
<1>0. /\ mig \in Migrations /\ cache \in Migrations /\ pass.base \in Migrations /\ pass.m \in Migrations
      /\ mig.attempts \in Nat /\ mig.exempt \in Nat /\ pass.base.attempts \in Nat
      /\ failures \subseteq Nat /\ 0 \notin failures /\ JobsNoted
      /\ Charged(mig) \in Int /\ mig.exempt <= Cardinality(failures \cap 1..Charged(mig))
  BY Typed DEF VersionInv, JobsNoted, Charged, RefundInv
<1>1. mig' \in Migrations /\ mig'.attempts \in Nat
  BY NextInv, Typed DEF IInv, ApiInv, ApiTypeOK, Migrations
<1>2. ASSUME mig'.exempt = mig.exempt, failures \subseteq failures', Charged(mig) <= Charged(mig')
      PROVE  RefundInv'
  <2> DEFINE c == Charged(mig)
             d == Charged(mig')
  <2>1. c \in Int /\ d \in Int /\ c <= d
    BY <1>0, <1>1, <1>2 DEF Charged
  <2> HIDE DEF c, d
  <2>4. /\ Cardinality(failures \cap 1..c) <= Cardinality(failures' \cap 1..d)
        /\ Cardinality(failures \cap 1..c) \in Nat /\ Cardinality(failures' \cap 1..d) \in Nat
    BY <1>2, <2>1, CountGrows
  <2>2. /\ Cardinality(failures \cap 1..Charged(mig)) <= Cardinality(failures' \cap 1..Charged(mig'))
        /\ Cardinality(failures \cap 1..Charged(mig)) \in Nat
        /\ Cardinality(failures' \cap 1..Charged(mig')) \in Nat
    BY <2>4 DEF c, d
  <2>3. mig'.exempt <= Cardinality(failures' \cap 1..Charged(mig'))
    BY <1>0, <1>2, <2>2
  <2> QED BY <2>3 DEF RefundInv, Charged, Level
<1>3. ASSUME mig' = mig, failures \subseteq failures'
      PROVE  RefundInv'
  BY <1>0, <1>2, <1>3
<1>4. CASE Reconcile
  BY <1>0, <1>3, <1>4, ReconcileShape DEF apiVars
<1>5. CASE UpdateStatus
  <2>1. /\ UNCHANGED failures /\ pass.step \in {"patch", "observe"}
        /\ mig' = Merge(mig, pass.base, pass.m)
    BY <1>5, UpdateStatusShape DEF jobVars, clusterVars
  <2>2. /\ WellGated(mig, failures) /\ WellGated(pass.base, failures) /\ OneBehind(mig, pass.base)
        /\ \/ pass.m.gate = pass.base.gate
           \/ /\ pass.base.job # 0 /\ pass.base.job \in failures /\ pass.m.job = 0
              /\ pass.m.gate = [attempt |-> pass.base.attempts, verdict |-> NoVerdict]
        /\ KeepsAttempt(pass.m, pass.base)
    BY <2>1 DEF GateInv, LockInv
  <2>3. /\ mig'.attempts = mig.attempts /\ mig'.exempt = mig.exempt
        /\ Level(mig') = Level(mig) \/ (Level(mig) = 0 /\ Level(mig') = 1)
    BY <1>0, <2>1, <2>2, PatchGates
  <2>4. Charged(mig') = Charged(mig)
    BY <2>3 DEF Charged
  <2> QED BY <1>0, <1>2, <2>1, <2>3, <2>4
<1>6. CASE Decide \/ SettleBudget
  <2>1. UNCHANGED failures
    BY <1>6, LockedShape DEF jobVars, clusterVars
  <2>2. CASE UNCHANGED apiVars
    BY <1>3, <2>1, <2>2 DEF apiVars
  <2>3. CASE Judges(mig', mig)
    <3>1. WellGated(mig, failures)
      BY DEF GateInv
    <3>2. /\ mig'.attempts = mig.attempts
          /\ \/ Level(mig') = Level(mig) /\ mig'.exempt = mig.exempt
             \/ /\ Level(mig) = 1 /\ Level(mig') = 2 /\ mig'.exempt \in {mig.exempt, mig.exempt + 1}
      BY <1>0, <1>1, <2>3, <3>1, JudgesGates
    <3>3. CASE Level(mig') = Level(mig) /\ mig'.exempt = mig.exempt
      <4>1. Charged(mig') = Charged(mig)
        BY <3>2, <3>3 DEF Charged
      <4> QED BY <1>0, <1>2, <2>1, <3>3, <4>1
    <3>4. CASE Level(mig) = 1 /\ Level(mig') = 2 /\ mig'.exempt \in {mig.exempt, mig.exempt + 1}
      <4> DEFINE a == mig.attempts - 1
      <4>1. mig.gate.attempt = mig.attempts /\ mig.gate.attempt # 0
        BY <3>4 DEF Level
      <4>2. mig.attempts \in failures
        BY <3>1, <4>1 DEF WellGated
      <4>3. a \in Nat /\ a + 1 \in failures /\ Charged(mig) = a /\ Charged(mig') = a + 1
        BY <1>0, <3>2, <3>4, <4>2 DEF Charged
      <4> HIDE DEF a
      <4>4. Cardinality(failures \cap 1..(a + 1)) = Cardinality(failures \cap 1..a) + 1
        BY <4>3, CountNext
      <4>5. Cardinality(failures \cap 1..a) \in Nat
        <5>1. a \in Int /\ a <= a /\ failures \subseteq failures
      BY <4>3
    <5> QED BY <5>1, CountGrows
      <4>6. mig'.exempt <= Cardinality(failures' \cap 1..Charged(mig'))
        BY <1>0, <2>1, <3>4, <4>3, <4>4, <4>5
      <4> QED BY <4>6 DEF RefundInv, Charged, Level
    <3> QED BY <3>2, <3>3, <3>4
  <2> QED BY <1>6, <2>2, <2>3, LockedShape
<1>7. CASE RetryGate \/ JudgeProbe
  <2>1. UNCHANGED apiVars /\ UNCHANGED clusterVars
    BY <1>7, GateShape
  <2> QED BY <1>3, <2>1 DEF apiVars, clusterVars
<1>8. CASE CreateWorker
  BY <1>3, <1>8, CreateShape DEF apiVars
<1>9. CASE RecordAttempt
  <2>1. /\ UNCHANGED failures /\ Active /\ mig' = Merge(mig, pass.base, Recorded(pass.base))
    BY <1>9, RecordShape DEF jobVars, clusterVars
  <2>2. /\ WellGated(mig, failures) /\ WellGated(pass.base, failures) /\ OneBehind(mig, pass.base)
    BY <2>1 DEF GateInv
  <2>3. /\ mig'.attempts = pass.base.attempts + 1 /\ Level(mig') = 0 /\ mig'.exempt = mig.exempt
    BY <1>0, <2>1, <2>2, RecordGates
  <2>4. Charged(mig) <= Charged(mig')
    BY <1>0, <2>2, <2>3 DEF Charged, OneBehind
  <2> QED BY <1>2, <2>1, <2>3, <2>4
<1>10. CASE DeleteStrayProbes \/ DropProbe \/ Abort
  <2>1. UNCHANGED apiVars /\ UNCHANGED clusterVars
    BY <1>10, EndShape
  <2> QED BY <1>3, <2>1 DEF apiVars, clusterVars
<1>11. CASE CacheSync
  BY <1>3, <1>11, SyncShape DEF jobVars, clusterVars
<1>12. CASE EditSpec
  <2>1. /\ mig'.attempts = mig.attempts /\ mig'.gate = mig.gate /\ mig'.exempt = mig.exempt
        /\ UNCHANGED failures
    BY <1>12, EditShape DEF jobVars, clusterVars
  <2>2. Charged(mig') = Charged(mig)
    BY <2>1, LevelSame DEF Charged
  <2> QED BY <1>0, <1>2, <2>1, <2>2
<1>13. CASE Cluster \/ JobSync
  <2>1. UNCHANGED apiVars /\ failures \subseteq failures'
    BY <1>0, <1>13, ClusterShape
  <2> QED BY <1>3, <2>1 DEF apiVars
<1>14. CASE UNCHANGED vars
  BY <1>3, <1>14 DEF vars, apiVars, jobVars, clusterVars
<1> QED BY <1>4, <1>5, <1>6, <1>7, <1>8, <1>9, <1>10, <1>11, <1>12, <1>13, <1>14, AnyStep

-----------------------------------------------------------------------------
(* The theorems. *)

SafeInv == IInv /\ LockInv /\ VersionInv /\ (Timely => PodInv) /\ GateInv /\ RefundInv

LEMMA SafeInit == Init => SafeInv
BY InitInv, LockInit, VersionInit, GateInit, RefundInit DEF SafeInv

LEMMA SafeNext == ASSUME SafeInv, [Next]_vars PROVE SafeInv'
<1>1. SafeInv => JobsNoted
  BY DEF SafeInv, VersionInv
<1> QED BY <1>1, NextInv, LockStep, VersionStep, PodStep, GateStep, RefundStep DEF SafeInv

THEOREM SafetyInductive == Spec => []SafeInv
<1>1. SafeInv /\ [Next]_vars => SafeInv'
  BY SafeNext
<1> QED BY SafeInit, <1>1, PTL DEF Spec

\* However far behind the informers are and wherever passes are cut, at most one worker
\* writes to the target: an attempt starts only after every pod of the one before has ended
\* (previousWorkerPod, settleBudget).  A pod whose Job was deleted under it is beside a worker
\* only if that is a new one of its own attempt, and never once every copy of the Migration
\* in use has that attempt on record.  The informer of Jobs may be behind, as long as no
\* probe is scheduled, runs and ends in the meantime.
THEOREM WorkersExclude ==
  ASSUME JobCacheLags => ~ProbesOutrun
  PROVE  Spec => []OneWorker
<1>1. SafeInv => OneWorker
  <2> SUFFICES ASSUME SafeInv PROVE OneWorker
    OBVIOUS
  <2>1. PodInv /\ Podded \subseteq DOMAIN jobs /\ DOMAIN jobs \subseteq Nat
    BY Typed DEF SafeInv, Timely, PodInv
  <2>2. \A n, k \in Podded : n = k
    BY <2>1 DEF PodInv, NewestOnly
  <2>3. Cardinality(pods) <= 1
    <3>1. CASE pods = {}
      BY <3>1, FS_EmptySet
    <3>2. CASE \E n : n \in pods
      <4>1. PICK n : pods = {n}
        BY <2>2, <3>2, PoddedHas
      <4>2. Cardinality(pods) = 1
        BY <4>1, FS_Singleton
      <4> QED BY <4>2
    <3> QED BY <3>1, <3>2
  <2>4. ASSUME NEW o \in orphans
        PROVE  /\ pods \subseteq {o.attempt} /\ (o.known => pods = {})
               /\ \A p \in orphans : o.attempt = p.attempt
    <3>1. pods \subseteq {o.attempt} /\ \A p \in orphans : o.attempt = p.attempt
      BY <2>2, PoddedHas
    <3>2. o.known => o.attempt \notin pods
      BY <2>1 DEF PodInv, LeftAlone
    <3> QED BY <3>1, <3>2
  <2> QED BY <2>3, <2>4 DEF OneWorker
<1> QED BY <1>1, SafetyInductive, PTL

\* No refund without a failure, and none twice for the same one: the exempt count never
\* exceeds the failures (decide).
THEOREM RefundsBounded == Spec => []RefundsAreFailures
<1>1. SafeInv => RefundsAreFailures
  <2> SUFFICES ASSUME SafeInv PROVE RefundsAreFailures
    OBVIOUS
  <2>1. /\ failures \subseteq DOMAIN jobs /\ mig.attempts \in Nat /\ mig.exempt \in Nat
        /\ cache.attempts \in Nat /\ DOMAIN jobs \subseteq Nat
    BY Typed DEF SafeInv
  <2> DEFINE c == Charged(mig)
             top == cache.attempts + 1 + mig.attempts
  <2>2. c \in Int /\ top \in Int /\ c <= top
    BY <2>1 DEF Charged
  <2>3. failures \cap 1..top = failures
    BY <2>1 DEF SafeInv, VersionInv, JobsNoted
  <2>4. mig.exempt <= Cardinality(failures \cap 1..c)
    BY DEF SafeInv, RefundInv
  <2> HIDE DEF c, top
  <2>5. /\ Cardinality(failures \cap 1..c) <= Cardinality(failures \cap 1..top)
        /\ Cardinality(failures \cap 1..c) \in Nat /\ Cardinality(failures \cap 1..top) \in Nat
    BY <2>2, CountGrows
  <2> QED BY <2>1, <2>3, <2>4, <2>5 DEF RefundsAreFailures
<1> QED BY <1>1, SafetyInductive, PTL

\* A recorded verdict stands until its gate record goes: no step decides the same failure
\* again or refunds it again (decide, settleBudget, updateStatus).
LEMMA VerdictStandsStep ==
  ASSUME SafeInv, [Next]_vars, mig.gate.verdict # NoVerdict, mig'.gate.attempt = mig.gate.attempt
  PROVE  mig'.gate.verdict = mig.gate.verdict /\ mig'.exempt = mig.exempt
<1> USE DEF Active
<1>0. /\ IInv /\ LockInv /\ VersionInv /\ GateInv /\ JobsNoted
      /\ mig \in Migrations /\ mig' \in Migrations /\ pass.base \in Migrations /\ pass.m \in Migrations
      /\ failures \subseteq Nat /\ 0 \notin failures /\ WellGated(mig, failures) /\ Level(mig) = 2
      /\ mig.gate.attempt # 0
  <2>1. IInv /\ LockInv /\ VersionInv /\ GateInv /\ JobsNoted /\ WellGated(mig, failures)
    BY DEF SafeInv, VersionInv, GateInv
  <2>2. Level(mig) = 2
    BY <2>1 DEF WellGated
  <2>3. mig.gate.attempt # 0
    BY <2>2 DEF Level
  <2>4. mig' \in Migrations
    BY <2>1, NextInv DEF IInv, ApiInv, ApiTypeOK
  <2> QED BY <2>1, <2>2, <2>3, <2>4, Typed DEF JobsNoted
<1>1. CASE UNCHANGED mig
  BY <1>1
<1>2. CASE UpdateStatus
  <2>1. /\ pass.step \in {"patch", "observe"} /\ mig' = Merge(mig, pass.base, pass.m)
    BY <1>0, <1>2, UpdateStatusShape
  <2>2. /\ WellGated(pass.base, failures) /\ OneBehind(mig, pass.base)
        /\ \/ pass.m.gate = pass.base.gate
           \/ /\ pass.base.job # 0 /\ pass.base.job \in failures /\ pass.m.job = 0
              /\ pass.m.gate = [attempt |-> pass.base.attempts, verdict |-> NoVerdict]
        /\ KeepsAttempt(pass.m, pass.base)
    BY <1>0, <2>1 DEF GateInv, LockInv
  <2> QED BY <1>0, <2>1, <2>2, PatchGates
<1>3. CASE Decide \/ SettleBudget
  <2>1. CASE Judges(mig', mig)
    <3>1. mig'.gate = mig.gate /\ mig'.exempt = mig.exempt
      <4>1. \/ Level(mig') = Level(mig) /\ mig'.exempt = mig.exempt /\ mig'.gate = mig.gate
            \/ Level(mig) = 1
        BY <1>0, <2>1, JudgesGates
      <4> QED BY <1>0, <4>1
    <3> QED BY <3>1
  <2> QED BY <1>0, <1>1, <1>3, <2>1, LockedShape DEF apiVars
<1>4. CASE RecordAttempt
  <2>1. Active /\ mig' = Merge(mig, pass.base, Recorded(pass.base))
    BY <1>0, <1>4, RecordShape
  <2>2. /\ WellGated(pass.base, failures) /\ OneBehind(mig, pass.base)
    BY <1>0, <2>1 DEF GateInv
  <2>3. mig'.gate \in {mig.gate, NoGate} /\ mig'.exempt = mig.exempt
    BY <1>0, <2>1, <2>2, RecordGates
  <2>4. mig'.gate = mig.gate
    BY <1>0, <2>3, NoVerdictIs
  <2> QED BY <2>3, <2>4
<1>5. CASE EditSpec
  BY <1>0, <1>5, EditShape
<1>6. CASE \/ Reconcile \/ RetryGate \/ JudgeProbe \/ CreateWorker \/ DeleteStrayProbes
           \/ DropProbe \/ Abort \/ CacheSync \/ Cluster \/ JobSync \/ UNCHANGED vars
  <2>1. UNCHANGED mig
    BY <1>0, <1>6, ReconcileShape, GateShape, CreateShape, EndShape, SyncShape, ClusterShape
       DEF vars, apiVars
  <2> QED BY <1>1, <2>1
<1> QED BY <1>2, <1>3, <1>4, <1>5, <1>6, AnyStep

THEOREM VerdictIsFinal == Spec => VerdictStands
<1>1. SafeInv /\ [Next]_vars =>
        [mig.gate.verdict # "" /\ mig'.gate.attempt = mig.gate.attempt
           => mig'.gate.verdict = mig.gate.verdict /\ mig'.exempt = mig.exempt]_vars
  BY VerdictStandsStep, Zenon DEF NoVerdict
<1> QED BY <1>1, SafetyInductive, PTL DEF Spec, VerdictStands

\* A worker is only started on the spec the server holds at that moment, of a Migration that
\* has not ended: the budget is settled in a patch that an edit makes fail (settleBudget).
THEOREM StartsOnCurrentSpec == Spec => StartsOnServerSpec
<1>1. SafeInv /\ [Next]_vars =>
        [pass.step = "settle" /\ pass'.step = "create"
           => pass.m.local = mig.local /\ ~mig.suspend /\ ~Terminal(mig)]_vars
  <2> SUFFICES ASSUME SafeInv, [Next]_vars, pass.step = "settle", pass'.step = "create"
               PROVE  pass.m.local = mig.local /\ ~mig.suspend /\ ~Terminal(mig)
    OBVIOUS
  <2>0. IInv /\ LockInv /\ JobsNoted
    BY DEF SafeInv, VersionInv
  <2>1. CASE SettleBudget
    <3>1. pass.current /\ mig = pass.base
      BY <2>0, <2>1, LockedShape, IdlePass
    <3> QED BY <2>0, <3>1 DEF LockInv, GateSteps
  <2>2. CASE \/ Reconcile \/ UpdateStatus \/ Decide \/ RetryGate \/ JudgeProbe \/ CreateWorker
             \/ RecordAttempt \/ DeleteStrayProbes \/ DropProbe
    BY <2>2 DEF Reconcile, UpdateStatus, Decide, RetryGate, JudgeProbe, CreateWorker,
                RecordAttempt, DeleteStrayProbes, DropProbe
  <2>3. CASE Abort
    BY <2>3, EndShape, IdlePass
  <2>4. CASE CacheSync \/ Cluster \/ JobSync \/ UNCHANGED vars
    <3>1. UNCHANGED pass
      BY <2>0, <2>4, SyncShape, ClusterShape DEF vars
    <3> QED BY <3>1
  <2>5. CASE EditSpec
    BY <2>0, <2>5, EditShape
  <2> QED BY <2>1, <2>2, <2>3, <2>4, <2>5, AnyStep
<1> QED BY <1>1, SafetyInductive, PTL DEF Spec, StartsOnServerSpec

-----------------------------------------------------------------------------
(* A finished Migration and its workers.  A pass that is cut, or a Job that vanishes,    *)
(* separates a worker from the status for good; short of that, the copy a pass reads and *)
(* the server differ by what the passes in between have done.                            *)

Running(n) == n \in DOMAIN jobs /\ jobs[n] = "running"
Dropped(n) == n \in DOMAIN jobs /\ jobs[n] \in {"deleting", "gone"}
Patching == pass.step \in {"patch", "observe"}
Starting == pass.step \in {"create", "record"}

\* Two versions between which nothing but the spec, the gate or the phase changed.
SameRun(x, y) == x.attempts = y.attempts /\ x.job = y.job /\ x.cond = y.cond

\* A worker that runs is the one the status names, or not recorded yet; one that was
\* deleted is forgotten by the write of the same pass.
NamedInv ==
  /\ unseen = {}
  /\ \A n \in DOMAIN jobs : Running(n) => n \in pods
  /\ \A n \in DOMAIN jobs : Dropped(n) => n <= cache.attempts
  /\ \A n \in DOMAIN jobs : n > mig.attempts => pass.step = "record"
  /\ \A n \in DOMAIN jobs : Running(n) /\ n <= mig.attempts => mig.job = n
  /\ Dropped(mig.job) => pass.step = "patch" /\ pass.m.job = 0 /\ pass.base.job = mig.job

\* A copy from before the last attempt names no Job, so that what is written from it keeps
\* the server's.
BehindInv ==
  /\ mig.attempts > cache.attempts =>
       ~Terminal(mig) /\ cache.cond.clone # "done" /\ cache.job = 0 /\ mig.job = mig.attempts
  /\ cache.attempts = mig.attempts /\ cache.job = 0 => mig.job = 0
  /\ Active => /\ pass.base.attempts = mig.attempts /\ pass.base.job = 0 => mig.job = 0
               /\ mig.attempts > pass.base.attempts => pass.base.job = 0

\* What a pass is about to write: a verdict only over workers that are done.
WriteInv ==
  Patching =>
    /\ Terminal(pass.m) =>
         /\ mig.attempts = pass.base.attempts
         /\ \A n \in DOMAIN jobs : Running(n) => n > mig.attempts
         /\ pass.base.attempts = 0 => preflight = "failed"
    /\ pass.m.job # pass.base.job => ~Running(pass.base.job)
    /\ pass.base.attempts = 0 => pass.m.cond.clone = "none"

\* What a pass on its way to a worker relies on.
StartInv ==
  /\ pass.step \in GateSteps =>
       /\ pass.base.job # 0 => Dropped(pass.base.job)
       /\ pass.base.cond.clone # "done"
       /\ pass.step # "create" => pass.base.attempts > 0
       /\ pass.current \/ (pass.step = "create" /\ pass.base.attempts > 0) => SameRun(cache, pass.base)
  /\ pass.step = "create" /\ pass.base.attempts > 0 => SameRun(mig, pass.base)
  /\ Starting =>
       /\ pass.base.job = 0 /\ ~Terminal(pass.base) /\ ~Terminal(mig)
       /\ cache.attempts = pass.base.attempts => cache.job = 0 /\ cache.cond.clone # "done"
       /\ mig.attempts = pass.base.attempts => mig.cond.clone # "done"
       /\ mig.attempts > pass.base.attempts => mig.job = mig.attempts
       /\ pass.base.attempts = 0 => preflight = "passed"

\* Before the first attempt only the preflight fails a Migration.
FirstInv ==
  /\ \A x \in {mig, cache} : x.attempts = 0 => x.cond.clone = "none"
  /\ mig.attempts = 0 /\ Terminal(mig) => Terminal(cache) \/ cache.suspend \/ preflight = "failed"
  /\ mig.attempts > 0 /\ cache.attempts = 0 => cache.suspend \/ preflight = "passed"

OverInv == Terminal(mig) => \A n \in DOMAIN jobs : Running(n) => n > mig.attempts

UncutInv == NamedInv /\ BehindInv /\ WriteInv /\ StartInv /\ FirstInv /\ OverInv
KnownInv == IInv /\ LockInv /\ VersionInv /\ PodInv /\ GateInv

LEMMA UncutInit == Init => UncutInv
<1> SUFFICES ASSUME Init PROVE UncutInv
  OBVIOUS
<1>1. /\ cache = mig /\ pass.step = "idle" /\ unseen = {} /\ DOMAIN jobs = {}
      /\ mig.attempts = 0 /\ mig.job = 0 /\ mig.cond.clone = "none" /\ ~Terminal(mig)
  BY IdlePass DEF Init, NewMigration, Terminal
<1> QED BY <1>1 DEF UncutInv, NamedInv, BehindInv, WriteInv, StartInv, FirstInv, OverInv, Running, Dropped,
                    Patching, Starting, GateSteps, Active

\* What the helpers make of the conditions.
LEMMA HelperConditions ==
  ASSUME NEW m \in Migrations
  PROVE  /\ EndHold(m).cond.clone = m.cond.clone /\ (Terminal(EndHold(m)) <=> Terminal(m))
         /\ SetHold(m).cond.clone = m.cond.clone /\ (Terminal(SetHold(m)) <=> Terminal(m))
         /\ Fail(m).cond.clone = m.cond.clone /\ Terminal(Fail(m))
         /\ Terminal(FailBudget(m))
<1>1. m.cond \in Conditions
  BY DEF Migrations
<1>2. /\ EndHold(m).cond.clone = m.cond.clone /\ (Terminal(EndHold(m)) <=> Terminal(m))
  BY <1>1 DEF EndHold, Terminal, Migrations, Conditions
<1>3. /\ SetHold(m).cond.clone = m.cond.clone /\ (Terminal(SetHold(m)) <=> Terminal(m))
  BY <1>1 DEF SetHold, Terminal, Migrations, Conditions
<1>4. ASSUME NEW x \in Migrations
      PROVE  Fail(x).cond.clone = x.cond.clone /\ Terminal(Fail(x))
  <2>1. EndHold(x) \in Migrations /\ EndHold(x).cond.clone = x.cond.clone
    <3>1. x.cond \in Conditions
      BY DEF Migrations
    <3> QED BY <3>1, HoldKeeps DEF EndHold, Migrations, Conditions
  <2> DEFINE e == EndHold(x)
  <2>2. Fail(x) = [e EXCEPT !.cond.failed = TRUE, !.phase = "Failed"] /\ e \in Migrations
    BY <2>1 DEF Fail
  <2>3. e.cond.clone = x.cond.clone
    BY <2>1
  <2> HIDE DEF e
  <2> QED BY <2>2, <2>3 DEF Terminal, Migrations, Conditions
<1>5. Terminal(FailBudget(m))
  <2> DEFINE n == [m EXCEPT !.cond.clone = IF m.gate # NoGate THEN "CloneFailed" ELSE @]
  <2>1. n \in Migrations /\ FailBudget(m) = Fail(n)
    BY DEF Migrations, Conditions, CloneStates, FailBudget
  <2> HIDE DEF n
  <2> QED BY <1>4, <2>1
<1> QED BY <1>2, <1>3, <1>4, <1>5

LEMMA RecordedConditions ==
  ASSUME NEW m \in Migrations
  PROVE  /\ Terminal(Recorded(m)) <=> Terminal(m)
         /\ Recorded(m).cond.clone = "done" => m.cond.clone = "done"
<1> DEFINE cond == [m.cond EXCEPT !.clone = IF @ = "done" THEN "done" ELSE "running"]
           ran == [m EXCEPT !.attempts = m.attempts + 1, !.job = m.attempts + 1, !.phase = "Cloning",
                            !.cond = cond]
<1>1. /\ cond \in Conditions /\ m.attempts + 1 \in Nat /\ "Cloning" \in Phases
      /\ cond.failed = m.cond.failed /\ cond.complete = m.cond.complete
      /\ cond.clone = "done" => m.cond.clone = "done"
  <2>1. m.attempts + 1 \in Nat /\ m.cond \in Conditions /\ "Cloning" \in Phases
    BY DEF Migrations, Phases
  <2> QED BY <2>1 DEF Conditions, CloneStates
<1>2. Recorded(m) = IF m.attempts > 0 THEN [EndHold(ran) EXCEPT !.gate = NoGate] ELSE ran
  BY DEF Recorded, Migrations
<1> HIDE DEF cond
<1>3. ran \in Migrations /\ ran.cond = cond
  BY <1>1 DEF Migrations
<1>4. Terminal(ran) <=> Terminal(m)
  BY <1>1, <1>3 DEF Terminal
<1> HIDE DEF ran
<1>5. CASE m.attempts > 0
  <2> DEFINE e == EndHold(ran)
  <2>1. /\ e \in Migrations /\ e.cond.clone = ran.cond.clone /\ (Terminal(e) <=> Terminal(ran))
    BY <1>3, HoldKeeps, HelperConditions
  <2> HIDE DEF e
  <2>2. Recorded(m) = [e EXCEPT !.gate = NoGate]
    BY <1>2, <1>5 DEF e
  <2>3. [e EXCEPT !.gate = NoGate].cond = e.cond
    BY <2>1 DEF Migrations
  <2> QED BY <1>1, <1>3, <1>4, <2>1, <2>2, <2>3 DEF Terminal
<1>6. CASE ~(m.attempts > 0)
  BY <1>1, <1>2, <1>3, <1>4, <1>6
<1> QED BY <1>5, <1>6

\* How a pass begins, with what it does to Jobs and where it leads.
Over == cache.job = 0 \/ ~Exists(cache.job)
NoJobTouched == UNCHANGED <<jobs, preflight>>

BeginsStop ==
  /\ cache.suspend /\ pass'.step = "patch" /\ pass'.m.job = 0
  /\ ~Terminal(pass'.m) /\ pass'.m.cond.clone = cache.cond.clone
  /\ \A n \in DOMAIN jobs : jobs'[n] = IF n = cache.job /\ jobs[n] # "gone" THEN "deleting" ELSE jobs[n]
  /\ preflight' = preflight \/ cache.attempts = 0

BeginsPreflight ==
  /\ ~cache.suspend /\ cache.attempts = 0 /\ pass'.step = "patch" /\ pass'.m.job = cache.job
  /\ Terminal(pass'.m) => preflight = "failed"
  /\ pass'.m.cond.clone = cache.cond.clone /\ preflight # "passed"
  /\ UNCHANGED jobs /\ (preflight' = preflight \/ (preflight = "none" /\ preflight' = "running"))

\* A write that notes how the worker or the finish path is doing, or fails a Migration for it.
BeginsNote ==
  /\ ~cache.suspend /\ cache.attempts > 0 /\ NoJobTouched /\ pass'.step \in {"patch", "observe"}
  /\ \/ pass'.m.job = cache.job
     \/ pass'.m.job = 0 /\ cache.job \in DOMAIN jobs /\ jobs[cache.job] # "running"
  /\ Terminal(pass'.m) =>
       \/ cache.job \in DOMAIN jobs /\ jobs[cache.job] # "running"
       \/ Over /\ (cache.cond.clone = "done" \/ ~Exists(cache.attempts + 1))

BeginsStart ==
  /\ ~cache.suspend /\ NoJobTouched /\ Over /\ cache.cond.clone # "done" /\ pass'.m = cache
  /\ \/ pass'.step = "record" /\ cache.attempts > 0 /\ Exists(cache.attempts + 1)
     \/ pass'.step = "create" /\ cache.attempts = 0 /\ preflight = "passed"
     \/ pass'.step \in {"pods", "decide"} /\ cache.attempts > 0

LEMMA SuspendBegins ==
  ASSUME KnownInv, unseen = {}, ~Terminal(cache), SuspendPass
  PROVE  BeginsStop
<1> DEFINE e == EndHold(cache)
           m == [e EXCEPT !.job = 0, !.phase = "Suspended"]
<1>1. /\ e \in Migrations /\ e.cond.clone = cache.cond.clone /\ ~Terminal(e)
  BY Typed, HoldKeeps, HelperConditions DEF KnownInv
<1>2. /\ cache.suspend /\ Begin("patch", m) /\ (preflight' = preflight \/ cache.attempts = 0)
      /\ jobs' = IF cache.job # 0 /\ Visible(cache.job)
                 THEN [jobs EXCEPT ![cache.job] = "deleting"] ELSE jobs
  BY DEF SuspendPass
<1> HIDE DEF e
<1>3. m \in Migrations /\ m.job = 0 /\ m.cond = e.cond
  BY <1>1 DEF Migrations, Phases
<1> HIDE DEF m
<1>4. pass'.step = "patch" /\ pass'.m = m
  BY <1>2, <1>3, BeginShape DEF KnownInv, PassSteps
<1>5. ~Terminal(m) /\ m.cond.clone = cache.cond.clone
  BY <1>1, <1>3 DEF Terminal
<1>6. ASSUME NEW n \in DOMAIN jobs
      PROVE  jobs'[n] = IF n = cache.job /\ jobs[n] # "gone" THEN "deleting" ELSE jobs[n]
  <2>1. n # 0
    BY DEF KnownInv, VersionInv, JobsNoted
  <2> QED BY <1>2, <2>1 DEF Visible, Exists
<1> QED BY <1>2, <1>3, <1>4, <1>5, <1>6 DEF BeginsStop

LEMMA PreflightBegins ==
  ASSUME KnownInv, ~Terminal(cache), PreflightPass
  PROVE  BeginsPreflight
<1> DEFINE v == [cache EXCEPT !.phase = "Validating"]
<1>1. /\ cache \in Migrations /\ Fail(cache) \in Migrations /\ Fail(cache).job = cache.job
      /\ Fail(cache).cond.clone = cache.cond.clone
  BY Typed, FailKeeps, HelperConditions DEF KnownInv
<1>2. v \in Migrations /\ v.job = cache.job /\ v.cond = cache.cond
  BY <1>1 DEF Migrations, Phases
<1>3. /\ ~cache.suspend /\ cache.attempts = 0 /\ preflight # "passed" /\ UNCHANGED jobs
      /\ (preflight' = preflight \/ (preflight = "none" /\ preflight' = "running"))
      /\ \/ preflight = "failed" /\ Begin("patch", Fail(cache))
         \/ Begin("patch", v)
  BY DEF PreflightPass, clusterVars
<1> HIDE DEF v
<1>4. /\ pass'.step = "patch"
      /\ pass'.m = v \/ (preflight = "failed" /\ pass'.m = Fail(cache))
  BY <1>1, <1>2, <1>3, BeginShape DEF KnownInv, PassSteps
<1>5. ~Terminal(v)
  BY <1>2 DEF Terminal
<1> QED BY <1>1, <1>2, <1>3, <1>4, <1>5 DEF BeginsPreflight

\* The finish path, for a copy that is done or a worker that has ended well.
LEMMA FinishBegins ==
  ASSUME KnownInv, ~Terminal(cache), ~cache.suspend, cache.attempts > 0, FinishClone,
         \/ cache.job \in DOMAIN jobs /\ jobs[cache.job] # "running"
         \/ Over /\ cache.cond.clone = "done"
  PROVE  BeginsNote
<1>0. cache \in Migrations /\ "patch" \in PassSteps /\ NoJobTouched
  BY Typed DEF KnownInv, PassSteps, FinishClone, clusterVars, NoJobTouched
<1> DEFINE owed == [cache EXCEPT !.cond.clone = "CloneIncomplete"]
           done == [cache EXCEPT !.cond.clone = "done"]
<1>1. /\ owed \in Migrations /\ owed.job = cache.job
      /\ done \in Migrations /\ done.job = cache.job
  BY <1>0 DEF Migrations, Conditions, CloneStates
<1>2. \/ Begin("patch", cache) \/ Begin("patch", Fail(owed))
      \/ Begin("patch", [done EXCEPT !.phase = "Finalizing"])
      \/ Begin("patch", [done EXCEPT !.phase = "Completed", !.cond.complete = TRUE])
  BY DEF FinishClone
<1> HIDE DEF owed, done
<1>3. ASSUME NEW m \in Migrations, m.job = cache.job, Begin("patch", m)
      PROVE  pass'.step = "patch" /\ pass'.m.job = cache.job
  BY <1>0, <1>3, BeginShape DEF KnownInv
<1>4. Fail(owed) \in Migrations /\ Fail(owed).job = cache.job
  BY <1>1, FailKeeps
<1>5. /\ [done EXCEPT !.phase = "Finalizing"] \in Migrations
      /\ [done EXCEPT !.phase = "Finalizing"].job = cache.job
      /\ [done EXCEPT !.phase = "Completed", !.cond.complete = TRUE] \in Migrations
      /\ [done EXCEPT !.phase = "Completed", !.cond.complete = TRUE].job = cache.job
  BY <1>1 DEF Migrations, Conditions, Phases
<1>6. pass'.step = "patch" /\ pass'.m.job = cache.job
  BY <1>0, <1>2, <1>3, <1>4, <1>5
<1> QED BY <1>0, <1>6 DEF BeginsNote

LEMMA StartBegins ==
  ASSUME KnownInv, ~Terminal(cache), Validated, Over, cache.cond.clone # "done", StartAttempt
  PROVE  BeginsNote \/ BeginsStart
<1>0. /\ cache \in Migrations /\ cache.attempts \in Nat /\ cache.exempt \in Nat
      /\ {"record", "patch", "create", "pods", "decide"} \subseteq PassSteps
      /\ ~cache.suspend /\ (cache.attempts > 0 \/ preflight = "passed")
      /\ NoJobTouched
  BY Typed DEF KnownInv, PassSteps, Validated, StartAttempt, jobVars, clusterVars, gateVars, NoJobTouched
<1>1. ASSUME NEW step \in {"record", "create", "pods"}, Begin(step, cache)
      PROVE  pass'.step = step /\ pass'.m = cache
  BY <1>0, <1>1, BeginShape DEF KnownInv
<1>2. CASE cache.attempts + 1 > 1 /\ Exists(cache.attempts + 1) /\ Begin("record", cache)
  <2>1. pass'.step = "record" /\ pass'.m = cache /\ cache.attempts > 0
    BY <1>0, <1>1, <1>2
  <2> QED BY <1>0, <1>2, <2>1 DEF BeginsStart
<1>3. CASE /\ ~(cache.attempts + 1 > 1 /\ Exists(cache.attempts + 1)) /\ BudgetSpent(cache)
           /\ Begin("patch", FailBudget(cache))
  <2>1. cache.attempts > 0
    BY <1>0, <1>3, BackoffAssumption DEF BudgetSpent
  <2>2. FailBudget(cache) \in Migrations /\ FailBudget(cache).job = cache.job
    BY <1>0, FailBudgetKeeps
  <2>3. pass'.step = "patch" /\ pass'.m.job = cache.job
    BY <1>0, <1>3, <2>2, BeginShape DEF KnownInv
  <2>4. ~Exists(cache.attempts + 1)
    BY <1>0, <1>3, <2>1
  <2> QED BY <1>0, <2>1, <2>3, <2>4 DEF BeginsNote
<1>4. CASE cache.attempts + 1 = 1 /\ Begin("create", cache)
  <2>1. pass'.step = "create" /\ pass'.m = cache /\ cache.attempts = 0
    BY <1>0, <1>1, <1>4
  <2> QED BY <1>0, <2>1 DEF BeginsStart
<1>5. CASE cache.attempts + 1 > 1 /\ Begin("pods", cache)
  <2>1. pass'.step = "pods" /\ pass'.m = cache /\ cache.attempts > 0
    BY <1>0, <1>1, <1>5
  <2> QED BY <1>0, <2>1 DEF BeginsStart
<1>6. CASE /\ cache.attempts + 1 > 1
           /\ pass' = [Idle EXCEPT !.step = "decide", !.m = cache, !.base = cache,
                      !.current = fresh, !.verdict = "Counted", !.then = "pods"]
  <2>1. pass'.step = "decide" /\ pass'.m = cache /\ cache.attempts > 0
    BY <1>0, <1>6, IdlePass DEF Passes
  <2> QED BY <1>0, <2>1 DEF BeginsStart
<1> QED BY <1>0, <1>2, <1>3, <1>4, <1>5, <1>6 DEF StartAttempt

LEMMA FailedBegins ==
  ASSUME KnownInv, ~Terminal(cache), ~cache.suspend, cache.attempts > 0, HandleFailedJob
  PROVE  BeginsNote
<1>0. /\ cache \in Migrations /\ "patch" \in PassSteps /\ NoJobTouched
      /\ cache.job \in DOMAIN jobs /\ jobs[cache.job] # "running"
  BY Typed DEF KnownInv, PassSteps, HandleFailedJob, jobVars, clusterVars, gateVars, NoJobTouched, Visible,
               Exists, Failed
<1> DEFINE failing == [cache EXCEPT !.cond.clone = "CloneFailed"]
           s == SetHold(cache)
           held(lost) == [s EXCEPT
                            !.job = 0, !.gate = [attempt |-> cache.attempts, verdict |-> ""],
                            !.cond.clone = IF lost THEN "SnapshotLost" ELSE @]
<1>1. \/ Begin("patch", Fail(failing))
      \/ \E lost \in BOOLEAN : Begin("patch", held(lost))
  BY DEF HandleFailedJob
<1>2. Fail(failing) \in Migrations /\ Fail(failing).job = cache.job
  <2>1. failing \in Migrations /\ failing.job = cache.job
    BY <1>0 DEF Migrations, Conditions, CloneStates
  <2> HIDE DEF failing
  <2> QED BY <2>1, FailKeeps
<1>3. ASSUME NEW lost \in BOOLEAN
      PROVE  held(lost) \in Migrations /\ held(lost).job = 0
  <2>1. s \in Migrations /\ cache.attempts \in Nat /\ 0 \in Nat
    BY <1>0, HoldKeeps, Typed DEF KnownInv
  <2> DEFINE gate == [attempt |-> cache.attempts, verdict |-> NoVerdict]
             cond == [s.cond EXCEPT !.clone = IF lost THEN "SnapshotLost" ELSE @]
             h == [s EXCEPT !.job = 0, !.gate = gate, !.cond = cond]
  <2>2. gate \in Gates /\ cond \in Conditions
    <3>1. s.cond \in Conditions
      BY <2>1 DEF Migrations
    <3> QED BY <2>1, <3>1, NoVerdictIs DEF Gates, Conditions, CloneStates
  <2>3. held(lost) = h
    BY <2>1 DEF Migrations, NoVerdict
  <2> HIDE DEF gate, cond, s, held
  <2>4. h \in Migrations /\ h.job = 0
    BY <2>1, <2>2 DEF Migrations
  <2> QED BY <2>3, <2>4
<1> HIDE DEF failing, held
<1>4. pass'.step = "patch" /\ pass'.m.job \in {cache.job, 0}
  BY <1>0, <1>1, <1>2, <1>3, BeginShape DEF KnownInv
<1> QED BY <1>0, <1>4 DEF BeginsNote

LEMMA ObserveBegins ==
  ASSUME KnownInv, ~Terminal(cache), ~cache.suspend, cache.attempts > 0, ObserveRunningJob
  PROVE  BeginsNote
<1>0. /\ cache \in Migrations /\ "observe" \in PassSteps /\ NoJobTouched
  BY Typed DEF KnownInv, PassSteps, ObserveRunningJob, jobVars, clusterVars, gateVars, NoJobTouched
<1> DEFINE e == EndHold(cache)
           m(c) == [e EXCEPT !.cond.clone = c]
<1>1. e \in Migrations /\ e.job = cache.job /\ ~Terminal(e)
  BY <1>0, HoldKeeps, HelperConditions
<1>2. PICK c \in CloneStates : Begin("observe", m(c))
  BY <1>0 DEF ObserveRunningJob, Migrations, Conditions, CloneStates
<1> HIDE DEF e
<1>3. m(c) \in Migrations /\ m(c).job = cache.job /\ ~Terminal(m(c))
  BY <1>1 DEF Migrations, Conditions, Terminal
<1> HIDE DEF m
<1>4. pass'.step = "observe" /\ pass'.m = m(c)
  BY <1>0, <1>2, <1>3, BeginShape DEF KnownInv
<1> QED BY <1>0, <1>3, <1>4 DEF BeginsNote

\* A pass that names a worker has attempts behind it.
LEMMA PassBegins ==
  ASSUME KnownInv, UncutInv, Reconcile
  PROVE  /\ pass.step = "idle" /\ ~Terminal(cache) /\ UNCHANGED <<apiVars, pods, unseen>>
         /\ pass'.base = cache /\ pass'.current = fresh /\ DOMAIN jobs' = DOMAIN jobs
         /\ pass'.step \notin {"settle", "judged", "strays", "drop", "idle"}
         /\ BeginsStop \/ BeginsPreflight \/ BeginsNote \/ BeginsStart
<1>1. /\ pass.step = "idle" /\ ~Terminal(cache) /\ UNCHANGED <<apiVars, pods, unseen>> /\ Begun
      /\ DOMAIN jobs' = DOMAIN jobs
  BY ReconcileShape DEF KnownInv, VersionInv
<1>2. pass'.base = cache /\ pass'.current = fresh
  BY <1>1 DEF Begun
<1>3. unseen = {} /\ cache.attempts \in Nat /\ cache.job \in Nat
  BY Typed DEF KnownInv, UncutInv, NamedInv
<1>4. cache.job # 0 => cache.attempts > 0
  BY <1>3 DEF KnownInv, GateInv, WellGated
<1>5. cache.job \in DOMAIN jobs => cache.attempts > 0
  BY <1>4 DEF KnownInv, VersionInv, JobsNoted
<1>6. Validated => ~cache.suspend /\ (cache.attempts > 0 \/ preflight = "passed")
  BY DEF Validated
<1>7. \A n : Visible(n) <=> n \in DOMAIN jobs /\ jobs[n] # "gone"
  BY <1>3 DEF Visible, Exists
<1>8. SuspendPass => BeginsStop
  BY <1>1, <1>3, SuspendBegins
<1>9. PreflightPass => BeginsPreflight
  BY <1>1, PreflightBegins
<1>10. NextAttempt => BeginsNote \/ BeginsStart
  <2> SUFFICES ASSUME NextAttempt PROVE BeginsNote \/ BeginsStart
    OBVIOUS
  <2>1. Over /\ Validated
    BY <1>7 DEF NextAttempt, Over, Exists
  <2>2. CASE cache.cond.clone = "done"
    <3>1. cache.attempts > 0
      BY <1>3, <2>2 DEF UncutInv, FirstInv
    <3> QED BY <1>1, <1>6, <2>1, <2>2, <3>1, FinishBegins DEF NextAttempt
  <2>3. CASE cache.cond.clone # "done"
    BY <1>1, <2>1, <2>3, StartBegins DEF NextAttempt
  <2> QED BY <2>2, <2>3
<1>11. WorkerSucceeded => BeginsNote
  <2> SUFFICES ASSUME WorkerSucceeded PROVE BeginsNote
    OBVIOUS
  <2>1. cache.job \in DOMAIN jobs /\ jobs[cache.job] # "running" /\ Validated /\ FinishClone
    BY <1>7 DEF WorkerSucceeded
  <2> QED BY <1>1, <1>5, <1>6, <2>1, FinishBegins
<1>12. HandleFailedJob => BeginsNote
  BY <1>1, <1>5, <1>6, <1>7, FailedBegins DEF HandleFailedJob
<1>13. ObserveRunningJob => BeginsNote
  BY <1>1, <1>5, <1>6, <1>7, ObserveBegins DEF ObserveRunningJob
<1>14. BeginsStop \/ BeginsPreflight \/ BeginsNote \/ BeginsStart
  BY <1>8, <1>9, <1>10, <1>11, <1>12, <1>13 DEF Reconcile
<1>15. pass'.step \notin {"settle", "judged", "strays", "drop", "idle"}
  BY <1>14 DEF BeginsStop, BeginsPreflight, BeginsNote, BeginsStart
<1> QED BY <1>1, <1>2, <1>14, <1>15

\* The numbers of the three copies, and the Jobs that they name.
LEMMA Numbers ==
  ASSUME KnownInv
  PROVE  /\ mig \in Migrations /\ cache \in Migrations /\ pass.base \in Migrations /\ pass.m \in Migrations
         /\ \A x \in {mig, cache, pass.base, pass.m} : x.attempts \in Nat /\ x.job \in Nat
         /\ \A x \in {mig, cache} : x.job \in {0, x.attempts}
         /\ Active => pass.base.job \in {0, pass.base.attempts}
         /\ DOMAIN jobs \subseteq Nat /\ 0 \notin DOMAIN jobs /\ pods \subseteq DOMAIN jobs
         /\ mig.attempts \in {0} \cup DOMAIN jobs /\ cache.attempts \in {0} \cup DOMAIN jobs
         /\ cache.attempts <= mig.attempts /\ mig.attempts <= cache.attempts + 1
         /\ Active => /\ pass.base.attempts <= cache.attempts
                      /\ mig.attempts <= pass.base.attempts + 1
                      /\ \A n \in DOMAIN jobs : n <= pass.base.attempts + 1
<1>1. IInv /\ VersionInv /\ GateInv
  BY DEF KnownInv
<1>2. mig.attempts <= cache.attempts + 1
  BY <1>1, Typed DEF GateInv, OneBehind
<1> QED BY <1>1, <1>2, Typed DEF VersionInv, JobsNoted, GateInv, WellGated

LEMMA ReconcileUncut ==
  ASSUME KnownInv, UncutInv, Reconcile
  PROVE  UncutInv'
<1>0. /\ pass.step = "idle" /\ ~Terminal(cache) /\ UNCHANGED <<mig, cache, fresh, pods, unseen>>
      /\ pass'.base = cache /\ DOMAIN jobs' = DOMAIN jobs
      /\ pass'.step \notin {"settle", "judged", "strays", "drop", "idle"}
      /\ BeginsStop \/ BeginsPreflight \/ BeginsNote \/ BeginsStart
  BY PassBegins DEF apiVars
<1>1. NamedInv /\ BehindInv /\ FirstInv /\ OverInv
  BY DEF UncutInv
<1>2. /\ mig.attempts \in Nat /\ cache.attempts \in Nat /\ mig.job \in {0, mig.attempts}
      /\ cache.job \in {0, cache.attempts} /\ DOMAIN jobs \subseteq Nat /\ 0 \notin DOMAIN jobs
      /\ mig.attempts \in {0} \cup DOMAIN jobs /\ cache.attempts \in {0} \cup DOMAIN jobs
      /\ cache.attempts <= mig.attempts /\ mig.attempts <= cache.attempts + 1
  BY Numbers
<1>3. /\ \A n \in DOMAIN jobs : n <= mig.attempts
      /\ ~Dropped(mig.job)
  BY <1>0, <1>1, <1>2 DEF NamedInv
<1>4. /\ \A n \in DOMAIN jobs : Running(n)' => Running(n)
      /\ \A n \in DOMAIN jobs : Dropped(n)' => Dropped(n) \/ (BeginsStop /\ n = cache.job)
  <2>1. CASE BeginsStop
    BY <1>0, <2>1 DEF BeginsStop, Running, Dropped
  <2>2. CASE BeginsPreflight \/ BeginsNote \/ BeginsStart
    BY <1>0, <2>2 DEF BeginsPreflight, BeginsNote, BeginsStart, NoJobTouched, Running, Dropped
  <2> QED BY <1>0, <2>1, <2>2
<1>5. NamedInv'
  <2>1. Dropped(mig.job)' => BeginsStop /\ mig.job = cache.job
    BY <1>0, <1>3, <1>4 DEF Dropped
  <2>2. \A n \in DOMAIN jobs : Dropped(n)' => n <= cache.attempts
    BY <1>1, <1>2, <1>4 DEF NamedInv
  <2> QED BY <1>0, <1>1, <1>3, <1>4, <2>1, <2>2 DEF NamedInv, BeginsStop
<1>6. BehindInv'
  BY <1>0, <1>1 DEF BehindInv
<1>7. WriteInv'
  <2>1. CASE BeginsStop
    <3>1. ~Running(cache.job)'
      BY <1>0, <2>1 DEF BeginsStop, Running
    <3> QED BY <1>0, <1>1, <2>1, <3>1 DEF WriteInv, BeginsStop, FirstInv
  <2>2. CASE BeginsPreflight
    <3>1. Terminal(pass'.m) => mig.attempts = 0 /\ preflight' = "failed"
      BY <1>1, <1>2, <2>2 DEF BeginsPreflight, FirstInv
    <3> QED BY <1>0, <1>1, <1>2, <2>2, <3>1 DEF WriteInv, BeginsPreflight, FirstInv
  <2>3. CASE BeginsNote
    <3>1. ASSUME Terminal(pass'.m)
          PROVE  mig.attempts = cache.attempts /\ \A n \in DOMAIN jobs : ~Running(n)
      <4>1. ASSUME cache.job \in DOMAIN jobs, jobs[cache.job] # "running"
            PROVE  mig.attempts = cache.attempts /\ \A n \in DOMAIN jobs : ~Running(n)
        BY <1>1, <1>2, <1>3, <4>1 DEF BehindInv, NamedInv, Running
      <4>2. ASSUME Over, cache.cond.clone = "done" \/ ~Exists(cache.attempts + 1)
            PROVE  mig.attempts = cache.attempts /\ \A n \in DOMAIN jobs : ~Running(n)
        <5>1. mig.attempts = cache.attempts
          <6>1. SUFFICES ASSUME mig.attempts = cache.attempts + 1 PROVE FALSE
            BY <1>2
          <6>2. mig.attempts \in DOMAIN jobs /\ ~Dropped(mig.attempts)
            BY <1>1, <1>2, <6>1 DEF NamedInv
          <6> QED BY <1>1, <1>2, <4>2, <6>1, <6>2 DEF BehindInv, Exists, Dropped
        <5> QED BY <1>1, <1>2, <1>3, <4>2, <5>1 DEF BehindInv, NamedInv, Over, Exists, Running
      <4> QED BY <2>3, <3>1, <4>1, <4>2 DEF BeginsNote
    <3> QED BY <1>0, <1>4, <2>3, <3>1 DEF WriteInv, BeginsNote, NoJobTouched, Running
  <2>4. CASE BeginsStart
    BY <2>4 DEF WriteInv, BeginsStart, Patching
  <2> QED BY <1>0, <2>1, <2>2, <2>3, <2>4
<1>8. StartInv'
  <2>1. CASE ~BeginsStart
    BY <1>0, <2>1 DEF StartInv, GateSteps, Starting, BeginsStop, BeginsPreflight, BeginsNote
  <2>2. CASE BeginsStart
    <3>1. /\ ~cache.suspend /\ NoJobTouched /\ Over /\ cache.cond.clone # "done"
          /\ \/ pass'.step = "record" /\ cache.attempts > 0 /\ Exists(cache.attempts + 1)
             \/ pass'.step = "create" /\ cache.attempts = 0 /\ preflight = "passed"
             \/ pass'.step \in {"pods", "decide"} /\ cache.attempts > 0
      BY <2>2 DEF BeginsStart
    <3>2. cache.job # 0 => Dropped(cache.job)'
      BY <1>0, <1>2, <3>1 DEF Over, Exists, Dropped, NoJobTouched
    <3>3. pass'.step = "record" => mig.attempts > cache.attempts
      BY <1>2, <1>3, <3>1 DEF Exists
    <3>4. pass'.step \in {"create", "record"} =>
            /\ cache.job = 0 /\ ~Terminal(mig)
            /\ mig.attempts = cache.attempts => mig.cond.clone # "done"
            /\ mig.attempts > cache.attempts => mig.job = mig.attempts
      BY <1>0, <1>1, <1>2, <3>1, <3>3 DEF BehindInv, FirstInv
    <3> QED BY <1>0, <3>1, <3>2, <3>3, <3>4 DEF StartInv, SameRun, GateSteps, Starting, NoJobTouched, Terminal
  <2> QED BY <2>1, <2>2
<1>9. FirstInv'
  <2>1. preflight \in {"passed", "failed"} => preflight' = preflight \/ cache.suspend
    BY <1>0 DEF BeginsStop, BeginsPreflight, BeginsNote, BeginsStart, NoJobTouched
  <2> QED BY <1>0, <1>1, <2>1 DEF FirstInv, Terminal
<1>10. OverInv'
  BY <1>0, <1>1, <1>4 DEF OverInv, Terminal
<1> QED BY <1>5, <1>6, <1>7, <1>8, <1>9, <1>10 DEF UncutInv

\* A merge writes the conditions as one list, or leaves the server's.
LEMMA MergeConditions ==
  ASSUME NEW cur \in Migrations, NEW base \in Migrations, NEW m \in Migrations
  PROVE  /\ Merge(cur, base, m).cond = (IF m.cond = base.cond THEN cur.cond ELSE m.cond)
         /\ Terminal(Merge(cur, base, m)) => Terminal(cur) \/ Terminal(m)
<1>1. Merge(cur, base, m).cond = (IF m.cond = base.cond THEN cur.cond ELSE m.cond)
  BY DEF Merge, Written, Migrations
<1> QED BY <1>1 DEF Terminal

LEMMA UpdateUncut ==
  ASSUME KnownInv, UncutInv, UpdateStatus
  PROVE  UncutInv'
<1>0. /\ Patching /\ Active /\ cache' = cache /\ UNCHANGED <<jobs, pods, unseen, preflight>>
      /\ mig' = Merge(mig, pass.base, pass.m)
      /\ \/ pass'.step = "idle"
         \/ pass'.step = "strays" /\ pass'.base = pass.base
  BY UpdateStatusShape, IdlePass DEF KnownInv, Patching, Active, jobVars, clusterVars, gateVars
<1>1. NamedInv /\ BehindInv /\ WriteInv /\ FirstInv /\ OverInv
  BY DEF UncutInv
<1>2. /\ mig.attempts \in Nat /\ cache.attempts \in Nat /\ pass.base.attempts \in Nat
      /\ mig.job \in {0, mig.attempts} /\ pass.base.job \in {0, pass.base.attempts}
      /\ DOMAIN jobs \subseteq Nat /\ 0 \notin DOMAIN jobs
      /\ pass.base.attempts <= cache.attempts /\ cache.attempts <= mig.attempts
  BY <1>0, Numbers
<1>3. pass.m.attempts = pass.base.attempts /\ pass.m.job \in {0, pass.base.job}
  BY <1>0 DEF KnownInv, LockInv, KeepsAttempt, Patching
<1>4. /\ mig'.attempts = mig.attempts
      /\ mig'.job = IF pass.m.job = pass.base.job THEN mig.job ELSE 0
      /\ mig'.cond = mig.cond \/ (mig'.cond = pass.m.cond /\ pass.m.cond # pass.base.cond)
      /\ Terminal(mig') => Terminal(mig) \/ Terminal(pass.m)
  <2>1. mig \in Migrations /\ pass.base \in Migrations /\ pass.m \in Migrations /\ pass.m.job \in Nat
    BY Numbers
  <2>2. /\ mig'.attempts = mig.attempts
        /\ mig'.job = IF pass.m.job = pass.base.job THEN mig.job ELSE pass.m.job
    BY <1>0, <1>3, <2>1, MergeShape
  <2>3. /\ mig'.cond = (IF pass.m.cond = pass.base.cond THEN mig.cond ELSE pass.m.cond)
        /\ Terminal(mig') => Terminal(mig) \/ Terminal(pass.m)
    BY <1>0, <2>1, MergeConditions
  <2> QED BY <1>3, <2>2, <2>3
<1>5. /\ \A n \in DOMAIN jobs : n <= mig.attempts
      /\ \A n \in DOMAIN jobs : Running(n)' <=> Running(n)
      /\ \A n \in DOMAIN jobs : Dropped(n)' <=> Dropped(n)
  BY <1>0, <1>1, <1>2 DEF NamedInv, Patching, Running, Dropped
<1>6. NamedInv'
  <2>1. ASSUME NEW n \in DOMAIN jobs, Running(n)
        PROVE  mig'.job = n
    <3>1. mig.job = n /\ n = mig.attempts
      BY <1>1, <1>2, <1>5, <2>1 DEF NamedInv
    <3>2. pass.m.job = pass.base.job
      BY <1>0, <1>1, <1>2, <1>3, <2>1, <3>1 DEF WriteInv, BehindInv
    <3> QED BY <1>4, <3>1, <3>2
  <2>2. ~Dropped(mig'.job)
    BY <1>0, <1>1, <1>2, <1>4 DEF NamedInv, Dropped
  <2>3. ~Dropped(mig.job)'
    BY <1>0, <2>2 DEF Dropped
  <2>4. \A n \in DOMAIN jobs : Running(n)' => Running(n) /\ n \in pods'
    BY <1>0, <1>1, <1>5 DEF NamedInv
  <2>5. \A n \in DOMAIN jobs : Dropped(n)' => n <= cache.attempts
    BY <1>1, <1>5 DEF NamedInv
  <2>6. unseen' = {} /\ DOMAIN jobs' = DOMAIN jobs
    BY <1>0, <1>1 DEF NamedInv
  <2> QED BY <1>0, <1>2, <1>4, <1>5, <2>1, <2>3, <2>4, <2>5, <2>6 DEF NamedInv
<1>7. BehindInv'
  BY <1>0, <1>1, <1>2, <1>3, <1>4 DEF BehindInv, WriteInv, Active
<1>8. WriteInv' /\ StartInv'
  BY <1>0 DEF WriteInv, StartInv, Patching, Starting, GateSteps
<1>9. FirstInv'
  BY <1>0, <1>1, <1>2, <1>4 DEF FirstInv, WriteInv, Terminal
<1>10. OverInv'
  BY <1>0, <1>1, <1>4, <1>5 DEF OverInv, WriteInv
<1> QED BY <1>6, <1>7, <1>8, <1>9, <1>10 DEF UncutInv

\* A locked patch that does not end its pass leaves the conditions.
LEMMA LockedConditions ==
  ASSUME KnownInv, Decide \/ SettleBudget
  PROVE  pass'.step = "idle" \/ mig'.cond = mig.cond
<1>1. pass.m \in Migrations /\ mig \in Migrations /\ pass.base \in Migrations
  BY Numbers
<1>2. pass.m = pass.base
  BY DEF KnownInv, LockInv, GateSteps, Decide, SettleBudget
<1>3. ASSUME NEW m, NEW step, LockedPatch(FailBudget(m), "idle") \/ LockedPatch(m, step), m.cond = pass.m.cond,
             m \in Migrations
      PROVE  pass'.step = "idle" \/ mig'.cond = mig.cond
  BY <1>1, <1>2, <1>3, IdlePass, MergeConditions DEF LockedPatch, Store
<1>4. CASE Decide
  <2> DEFINE m == [pass.m EXCEPT !.gate.verdict = pass.verdict,
                                 !.exempt = IF pass.verdict = "Exempt" THEN @ + 1 ELSE @]
  <2>1. m \in Migrations /\ m.cond = pass.m.cond
    <3>1. pass.verdict \in Verdicts /\ pass.m.exempt \in Nat /\ pass.m.gate \in Gates
      BY Typed DEF KnownInv, Passes
    <3>2. /\ [pass.m.gate EXCEPT !.verdict = pass.verdict] \in Gates
          /\ pass.m.exempt + 1 \in Nat
      BY <3>1 DEF Gates
    <3> QED BY <1>1, <3>1, <3>2 DEF Migrations
  <2>2. LockedPatch(FailBudget(m), "idle") \/ LockedPatch(m, pass.then)
    BY <1>4 DEF Decide
  <2> HIDE DEF m
  <2> QED BY <1>3, <2>1, <2>2
<1>5. CASE SettleBudget
  <2> DEFINE m == [pass.m EXCEPT !.gate.verdict = IF Undecided(pass.m) THEN "Counted" ELSE @]
  <2>1. m \in Migrations /\ m.cond = pass.m.cond
    BY <1>1 DEF Migrations, Gates, Verdicts
  <2>2. LockedPatch(FailBudget(m), "idle") \/ LockedPatch(m, "create")
    BY <1>5 DEF SettleBudget
  <2> HIDE DEF m
  <2> QED BY <1>3, <2>1, <2>2
<1> QED BY <1>4, <1>5

LEMMA LockedUncut ==
  ASSUME KnownInv, UncutInv, Decide \/ SettleBudget
  PROVE  UncutInv'
<1>0. /\ pass.step \in {"decide", "settle"} /\ Active /\ UNCHANGED <<jobs, pods, unseen, preflight>>
      /\ \/ pass'.step = "idle" /\ UNCHANGED <<mig, cache>>
         \/ /\ pass.current /\ mig = pass.base /\ mig'.attempts = mig.attempts /\ mig'.job = mig.job
            /\ cache' = cache
            /\ \/ pass'.step = "idle"
               \/ /\ pass'.base = mig' /\ mig'.cond = mig.cond /\ ~Terminal(mig')
                  /\ \/ pass'.step \in {"pods", "judged"}
                     \/ pass.step = "settle" /\ pass'.step = "create"
  BY LockedShape, LockedConditions, IdlePass
     DEF KnownInv, Judges, Active, apiVars, jobVars, clusterVars, gateVars
<1>1. NamedInv /\ BehindInv /\ StartInv /\ FirstInv /\ OverInv
  BY DEF UncutInv
<1>2. /\ mig.attempts \in Nat /\ cache.attempts \in Nat /\ pass.base.attempts \in Nat
      /\ mig.job \in {0, mig.attempts} /\ DOMAIN jobs \subseteq Nat /\ 0 \notin DOMAIN jobs
      /\ pass.base.attempts <= cache.attempts /\ cache.attempts <= mig.attempts
  BY <1>0, Numbers
<1>3. /\ \A n \in DOMAIN jobs : n <= mig.attempts
      /\ ~Dropped(mig.job)
      /\ \A n : Running(n)' <=> Running(n)
      /\ \A n : Dropped(n)' <=> Dropped(n)
  BY <1>0, <1>1, <1>2 DEF NamedInv, Running, Dropped
<1>4. CASE pass'.step = "idle" /\ UNCHANGED <<mig, cache>>
  BY <1>0, <1>1, <1>3, <1>4 DEF UncutInv, NamedInv, BehindInv, WriteInv, StartInv, FirstInv, OverInv,
       Patching, Starting, GateSteps, Active, Terminal
<1>5. CASE /\ pass.current /\ mig = pass.base /\ mig'.attempts = mig.attempts /\ mig'.job = mig.job
           /\ cache' = cache
           /\ \/ pass'.step = "idle"
              \/ /\ pass'.base = mig' /\ mig'.cond = mig.cond /\ ~Terminal(mig')
                 /\ \/ pass'.step \in {"pods", "judged"}
                    \/ pass.step = "settle" /\ pass'.step = "create"
  <2>1. /\ pass.base.attempts > 0 /\ mig.attempts > 0 /\ cache.attempts = mig.attempts
        /\ mig.job = 0 /\ mig.cond.clone # "done" /\ SameRun(cache, pass.base)
    BY <1>0, <1>1, <1>2, <1>3, <1>5 DEF StartInv, GateSteps
  <2>2. NamedInv'
    BY <1>0, <1>1, <1>2, <1>3, <1>5, <2>1 DEF NamedInv, Dropped, Running
  <2>3. BehindInv'
    BY <1>2, <1>5, <2>1 DEF BehindInv, Active
  <2>4. WriteInv'
    BY <1>5 DEF WriteInv, Patching
  <2>5. StartInv'
    BY <1>2, <1>5, <2>1 DEF StartInv, SameRun, Starting, GateSteps
  <2>6. FirstInv'
    BY <1>1, <1>5, <2>1 DEF FirstInv
  <2>7. OverInv'
    BY <1>0, <1>1, <1>2, <1>3, <1>5, <2>1 DEF OverInv, NamedInv, Running
  <2> QED BY <2>2, <2>3, <2>4, <2>5, <2>6, <2>7 DEF UncutInv
<1> QED BY <1>0, <1>4, <1>5

\* The gate ends in a held retry or goes on towards the worker.
LEMMA GateUncut ==
  ASSUME KnownInv, UncutInv, RetryGate \/ JudgeProbe
  PROVE  UncutInv'
<1>0. /\ pass.step \in {"pods", "judged"} /\ Active
      /\ UNCHANGED <<mig, cache, jobs, pods, unseen, preflight>>
      /\ pass'.base = pass.base /\ pass'.current = pass.current
      /\ \/ pass'.step = "patch" /\ KeepsAttempt(pass'.m, pass.base)
         \/ pass'.step \in {"judged", "decide", "settle"}
  BY GateShape DEF KnownInv, Active, apiVars, clusterVars, RetryGate, JudgeProbe
<1>1. NamedInv /\ BehindInv /\ StartInv /\ FirstInv /\ OverInv
  BY DEF UncutInv
<1>2. pass.m = pass.base /\ ~Terminal(pass.m) /\ pass.m \in Migrations /\ pass.base.attempts \in Nat
  BY <1>0, Numbers DEF KnownInv, LockInv, GateSteps
<1>3. pass'.step = "patch" => ~Terminal(pass'.m) /\ pass'.m.job = pass.base.job
  <2>1. ASSUME GoOn("patch", SetHold(pass.m))
        PROVE  ~Terminal(pass'.m) /\ pass'.m.job = pass.base.job
    <3>1. /\ SetHold(pass.m) \in Migrations /\ SetHold(pass.m).job = pass.m.job
          /\ ~Terminal(SetHold(pass.m))
      BY <1>2, HoldKeeps, HelperConditions
    <3>2. pass'.m = SetHold(pass.m)
      BY <2>1, <3>1, GoOnShape DEF KnownInv, PassSteps
    <3> QED BY <1>2, <3>1, <3>2
  <2>2. ASSUME pass'.step = "patch" PROVE GoOn("patch", SetHold(pass.m))
    <3>1. pass \in Passes
      BY Typed DEF KnownInv
    <3> QED BY <1>0, <2>2, <3>1 DEF RetryGate, JudgeProbe, Hold, GoOn, Passes
  <2> QED BY <2>1, <2>2
<1>4. /\ \A n : Running(n)' <=> Running(n)
      /\ \A n : Dropped(n)' <=> Dropped(n)
      /\ \A n \in DOMAIN jobs : ~(n > mig.attempts)
      /\ ~Dropped(mig.job) /\ ~Dropped(mig.job)'
  BY <1>0, <1>1 DEF NamedInv, Running, Dropped
<1>5. pass.base.attempts > 0
  BY <1>0, <1>1 DEF StartInv, GateSteps
<1>6. NamedInv'
  BY <1>0, <1>1, <1>4 DEF NamedInv
<1>7. BehindInv' /\ FirstInv' /\ OverInv'
  BY <1>0, <1>1, <1>4 DEF BehindInv, FirstInv, OverInv, Active, Terminal
<1>8. WriteInv'
  BY <1>0, <1>2, <1>3, <1>5 DEF WriteInv, Patching
<1>9. StartInv'
  BY <1>0, <1>1, <1>4, <1>5 DEF StartInv, GateSteps, Starting, SameRun
<1> QED BY <1>6, <1>7, <1>8, <1>9 DEF UncutInv

\* The worker is created unless the next attempt has one, which is then recorded.
LEMMA CreateUncut ==
  ASSUME ~JobCacheLags, KnownInv, UncutInv, CreateWorker
  PROVE  UncutInv'
<1> DEFINE next == pass.base.attempts + 1
<1>0. /\ pass.step = "create" /\ Active /\ UNCHANGED <<mig, cache, preflight, unseen>>
      /\ pass'.step = "record" /\ pass'.base = pass.base
      /\ pass.m = pass.base
      /\ IF Exists(next) THEN UNCHANGED <<jobs, pods>>
         ELSE /\ jobs' = [n \in DOMAIN jobs \cup {next} |-> IF n = next THEN "running" ELSE jobs[n]]
              /\ pods' = pods \cup {next}
  <2>1. pass.m = pass.base /\ pass.step = "create"
    BY DEF KnownInv, LockInv, GateSteps, CreateWorker
  <2> QED BY <2>1, CreateShape DEF KnownInv, CreateWorker, Active, apiVars, clusterVars, gateVars
<1>1. NamedInv /\ BehindInv /\ StartInv /\ FirstInv /\ OverInv
  BY DEF UncutInv
<1>2. /\ mig.attempts \in Nat /\ cache.attempts \in Nat /\ pass.base.attempts \in Nat
      /\ mig.job \in {0, mig.attempts} /\ DOMAIN jobs \subseteq Nat
      /\ pods \subseteq DOMAIN jobs /\ mig.attempts \in {0} \cup DOMAIN jobs
      /\ pass.base.attempts <= cache.attempts /\ cache.attempts <= mig.attempts
      /\ mig.attempts <= pass.base.attempts + 1
  BY <1>0, Numbers
<1>3. /\ \A n \in DOMAIN jobs : n <= mig.attempts
      /\ ~Dropped(mig.job)
  BY <1>0, <1>1, <1>2 DEF NamedInv
<1>4. /\ pass.base.job = 0 /\ ~Terminal(pass.base) /\ ~Terminal(mig)
      /\ cache.attempts = pass.base.attempts => cache.job = 0 /\ cache.cond.clone # "done"
      /\ mig.attempts = pass.base.attempts => mig.cond.clone # "done"
      /\ mig.attempts > pass.base.attempts => mig.job = mig.attempts
      /\ pass.base.attempts = 0 => preflight = "passed"
  BY <1>0, <1>1 DEF StartInv, Starting
<1>5. CASE mig.attempts > pass.base.attempts
  <2>1. Exists(next)
    BY <1>2, <1>3, <1>4, <1>5 DEF Exists, Dropped
  <2>2. UNCHANGED <<jobs, pods>>
    BY <1>0, <2>1
  <2>3. NamedInv'
    BY <1>0, <1>1, <1>3, <2>2 DEF NamedInv, Running, Dropped
  <2>4. BehindInv' /\ FirstInv' /\ WriteInv' /\ OverInv'
    BY <1>0, <1>1, <1>4, <2>2 DEF BehindInv, FirstInv, WriteInv, OverInv, Patching, Active, Terminal, Running
  <2>5. StartInv'
    BY <1>0, <1>4 DEF StartInv, GateSteps, Starting, Terminal
  <2> QED BY <2>3, <2>4, <2>5 DEF UncutInv
<1>6. CASE mig.attempts = pass.base.attempts
  <2>1. next \notin DOMAIN jobs /\ next > mig.attempts /\ next \in Nat
    BY <1>2, <1>3, <1>6
  <2>2. /\ jobs' = [n \in DOMAIN jobs \cup {next} |-> IF n = next THEN "running" ELSE jobs[n]]
        /\ pods' = pods \cup {next}
    BY <1>0, <2>1 DEF Exists
  <2>3. /\ DOMAIN jobs' = DOMAIN jobs \cup {next} /\ jobs'[next] = "running"
        /\ \A n \in DOMAIN jobs : jobs'[n] = jobs[n]
    BY <2>1, <2>2
  <2>4. /\ \A n : Running(n)' <=> Running(n) \/ n = next
        /\ \A n : Dropped(n)' <=> Dropped(n)
    BY <2>1, <2>3 DEF Running, Dropped
  <2>5. ~Dropped(mig.job)'
    BY <1>0, <1>3, <2>4, <2>3, <2>1 DEF Dropped
  <2>6. NamedInv'
    <3>1. \A n \in DOMAIN jobs' : Running(n)' => n \in pods'
      BY <1>1, <2>2, <2>3, <2>4 DEF NamedInv
    <3>2. \A n \in DOMAIN jobs' : Dropped(n)' => n <= cache.attempts
      BY <1>1, <2>4 DEF NamedInv, Dropped
    <3>3. \A n \in DOMAIN jobs' : Running(n)' /\ n <= mig.attempts => mig.job = n
      BY <1>1, <1>2, <2>1, <2>3, <2>4 DEF NamedInv
    <3> QED BY <1>0, <1>1, <2>5, <3>1, <3>2, <3>3 DEF NamedInv
  <2>7. BehindInv' /\ FirstInv' /\ WriteInv' /\ OverInv'
    BY <1>0, <1>1, <1>4 DEF BehindInv, FirstInv, WriteInv, OverInv, Patching, Active, Terminal
  <2>8. StartInv'
    BY <1>0, <1>4 DEF StartInv, GateSteps, Starting, Terminal
  <2> QED BY <2>6, <2>7, <2>8 DEF UncutInv
<1> QED BY <1>2, <1>5, <1>6

\* The record names the worker it counts; no other runs.
LEMMA RecordUncut ==
  ASSUME KnownInv, UncutInv, RecordAttempt
  PROVE  UncutInv'
<1> DEFINE next == pass.base.attempts + 1
<1>0. /\ pass.step = "record" /\ Active /\ cache' = cache /\ UNCHANGED <<jobs, pods, unseen, preflight>>
      /\ mig' = Merge(mig, pass.base, Recorded(pass.base))
      /\ pass'.step = "idle" \/ (pass'.step = "drop" /\ pass'.base = pass.base)
  BY RecordShape, IdlePass DEF KnownInv, Active, jobVars, clusterVars, gateVars
<1>1. NamedInv /\ BehindInv /\ StartInv /\ FirstInv
  BY DEF UncutInv
<1>2. /\ mig.attempts \in Nat /\ cache.attempts \in Nat /\ pass.base.attempts \in Nat
      /\ DOMAIN jobs \subseteq Nat /\ 0 \notin DOMAIN jobs
      /\ pass.base.attempts <= cache.attempts /\ cache.attempts <= mig.attempts
      /\ mig.attempts <= next /\ \A n \in DOMAIN jobs : n <= next
      /\ pods \subseteq DOMAIN jobs
  BY <1>0, Numbers
<1>3. next \in DOMAIN jobs /\ \A n \in pods : next <= n
  BY <1>0, PoddedHas DEF KnownInv, VersionInv, PodInv, NewestOnly
<1>4. /\ pass.base.job = 0 /\ ~Terminal(pass.base) /\ ~Terminal(mig)
      /\ cache.attempts = pass.base.attempts => cache.job = 0 /\ cache.cond.clone # "done"
      /\ mig.attempts > pass.base.attempts => mig.job = mig.attempts
      /\ pass.base.attempts = 0 => preflight = "passed"
  BY <1>0, <1>1 DEF StartInv, Starting
<1>5. mig'.attempts = next /\ mig'.job = next /\ ~Terminal(mig')
  <2>1. /\ mig \in Migrations /\ pass.base \in Migrations
        /\ Recorded(pass.base) \in Migrations
        /\ Recorded(pass.base).attempts = next /\ Recorded(pass.base).job = next
        /\ ~Terminal(Recorded(pass.base))
    BY <1>4, Numbers, RecordedShape, RecordedConditions
  <2>2. /\ mig'.attempts = (IF Recorded(pass.base).attempts = pass.base.attempts THEN mig.attempts
                            ELSE Recorded(pass.base).attempts)
        /\ mig'.job = (IF Recorded(pass.base).job = pass.base.job THEN mig.job
                       ELSE Recorded(pass.base).job)
    BY <1>0, <2>1, MergeShape
  <2>3. ~Terminal(mig')
    BY <1>0, <1>4, <2>1, MergeConditions
  <2> QED BY <1>2, <1>4, <2>1, <2>2, <2>3
<1>6. /\ \A n : Running(n)' <=> Running(n)
      /\ \A n : Dropped(n)' <=> Dropped(n)
      /\ \A n \in DOMAIN jobs : Running(n) => n = next
  BY <1>0, <1>1, <1>2, <1>3 DEF NamedInv, Running, Dropped
<1>7. ~Dropped(next)
  <2>1. CASE cache.attempts = next
    BY <1>0, <1>1, <1>2, <1>4, <2>1 DEF NamedInv
  <2>2. CASE cache.attempts # next
    BY <1>1, <1>2, <1>3, <2>2 DEF NamedInv
  <2> QED BY <2>1, <2>2
<1>8. NamedInv'
  <2>1. ~Dropped(mig.job)'
    BY <1>0, <1>5, <1>7 DEF Dropped
  <2> QED BY <1>0, <1>1, <1>2, <1>5, <1>6, <2>1 DEF NamedInv
<1>9. BehindInv'
  BY <1>0, <1>1, <1>2, <1>4, <1>5 DEF BehindInv, Active
<1>10. WriteInv' /\ StartInv'
  BY <1>0 DEF WriteInv, StartInv, Patching, Starting, GateSteps
<1>11. FirstInv'
  BY <1>0, <1>1, <1>2, <1>4, <1>5 DEF FirstInv
<1>12. OverInv'
  BY <1>5 DEF OverInv
<1> QED BY <1>8, <1>9, <1>10, <1>11, <1>12 DEF UncutInv

LEMMA EndUncut ==
  ASSUME KnownInv, UncutInv, DeleteStrayProbes \/ DropProbe
  PROVE  UncutInv'
<1>0. /\ pass.step \in {"strays", "drop"} /\ pass'.step = "idle"
      /\ UNCHANGED <<mig, cache, jobs, pods, unseen, preflight>>
  BY IdlePass DEF DeleteStrayProbes, DropProbe, apiVars, clusterVars
<1>1. /\ \A n : Running(n)' <=> Running(n)
      /\ \A n : Dropped(n)' <=> Dropped(n)
  BY <1>0 DEF Running, Dropped
<1>2. NamedInv' /\ BehindInv'
  BY <1>0, <1>1 DEF UncutInv, NamedInv, BehindInv, Active, Terminal, Dropped
<1>3. WriteInv' /\ StartInv' /\ FirstInv' /\ OverInv'
  BY <1>0, <1>1 DEF UncutInv, WriteInv, StartInv, FirstInv, OverInv, Patching, Starting, GateSteps, Terminal
<1> QED BY <1>2, <1>3 DEF UncutInv

\* The informer catches up, which no step of the pass has to know.
LEMMA SyncUncut ==
  ASSUME KnownInv, UncutInv, CacheSync
  PROVE  UncutInv'
<1>0. cache' = mig /\ UNCHANGED <<mig, pass, jobs, pods, unseen, preflight>>
  BY SyncShape DEF jobVars, clusterVars, gateVars
<1>1. NamedInv /\ BehindInv /\ WriteInv /\ StartInv /\ FirstInv /\ OverInv
  BY DEF UncutInv
<1>2. /\ mig.attempts \in Nat /\ cache.attempts \in Nat /\ DOMAIN jobs \subseteq Nat
      /\ cache.attempts <= mig.attempts
  BY Numbers
<1>3. /\ \A n : Running(n)' <=> Running(n)
      /\ \A n : Dropped(n)' <=> Dropped(n)
  BY <1>0 DEF Running, Dropped
<1>4. NamedInv'
  BY <1>0, <1>1, <1>2, <1>3 DEF NamedInv, Dropped
<1>5. BehindInv' /\ WriteInv' /\ FirstInv' /\ OverInv'
  BY <1>0, <1>1, <1>2, <1>3 DEF BehindInv, WriteInv, FirstInv, OverInv, Active, Patching, Terminal
<1>6. StartInv'
  <2>1. pass.step \in GateSteps /\ pass.current => mig = pass.base
    BY DEF KnownInv, LockInv, GateSteps
  <2>2. Starting /\ mig.attempts = pass.base.attempts => mig.job = 0 /\ mig.cond.clone # "done"
    BY <1>1 DEF StartInv, BehindInv, Starting, Active
  <2>3. pass.step = "create" /\ pass.base.attempts > 0 => SameRun(mig, pass.base)
    BY <1>1 DEF StartInv
  <2> QED BY <1>0, <1>1, <1>3, <2>1, <2>2, <2>3 DEF StartInv, SameRun, Starting, GateSteps, Terminal
<1> QED BY <1>4, <1>5, <1>6 DEF UncutInv

LEMMA EditUncut ==
  ASSUME KnownInv, UncutInv, EditSpec
  PROVE  UncutInv'
<1>0. /\ mig'.attempts = mig.attempts /\ mig'.job = mig.job /\ mig'.cond = mig.cond /\ ~Terminal(mig)
      /\ UNCHANGED <<cache, jobs, pods, unseen, preflight>>
      /\ pass'.step = pass.step /\ pass'.m = pass.m /\ pass'.base = pass.base /\ ~pass'.current
  BY EditShape, Numbers DEF KnownInv, EditSpec, jobVars, clusterVars, gateVars, Migrations
<1>1. NamedInv /\ BehindInv /\ WriteInv /\ StartInv /\ FirstInv
  BY DEF UncutInv
<1>2. /\ \A n : Running(n)' <=> Running(n)
      /\ \A n : Dropped(n)' <=> Dropped(n)
  BY <1>0 DEF Running, Dropped
<1>3. ~Terminal(mig')
  BY <1>0 DEF Terminal
<1>4. NamedInv'
  BY <1>0, <1>1, <1>2 DEF NamedInv, Dropped
<1>5. BehindInv' /\ WriteInv' /\ FirstInv' /\ OverInv'
  BY <1>0, <1>1, <1>2, <1>3 DEF BehindInv, WriteInv, FirstInv, OverInv, Active, Patching, Terminal
<1>6. StartInv'
  BY <1>0, <1>1, <1>2, <1>3 DEF StartInv, SameRun, Starting, GateSteps, Terminal
<1> QED BY <1>4, <1>5, <1>6 DEF UncutInv

\* Jobs that end, and deleted ones that go: no worker starts, and none is deleted.
LEMMA ClusterUncut ==
  ASSUME MaxVanish = 0, KnownInv, UncutInv, Cluster \/ JobSync
  PROVE  UncutInv'
<1>0. /\ UNCHANGED <<mig, cache, pass>> /\ DOMAIN jobs' = DOMAIN jobs /\ unseen' \subseteq unseen
  BY ClusterShape DEF KnownInv, VersionInv, apiVars
<1>1. NamedInv /\ BehindInv /\ WriteInv /\ StartInv /\ FirstInv /\ OverInv
  BY DEF UncutInv
<1>2. preflight \in {"passed", "failed"} => preflight' = preflight
  BY DEF Cluster, JobSync, PreflightFinishes, FinishMoves, ProbeFinishes, ProbeAges, ProbeCollected,
         DeadlinePasses, OrphanEnds, WorkerExits, PodEnds, JobCollected, JobVanishes, gateVars
<1>3. \/ UNCHANGED <<jobs, pods>>
      \/ \E n \in DOMAIN jobs : WorkerExits(n) \/ PodEnds(n) \/ JobCollected(n)
  BY Typed DEF KnownInv, Cluster, JobSync, PreflightFinishes, FinishMoves, ProbeFinishes, ProbeAges,
         ProbeCollected, DeadlinePasses, OrphanEnds, JobVanishes, clusterVars
<1>4. /\ \A n \in DOMAIN jobs : Running(n)' => Running(n) /\ n \in pods'
      /\ \A n : Dropped(n)' <=> Dropped(n)
  <2>1. CASE UNCHANGED <<jobs, pods>>
    BY <1>1, <2>1 DEF NamedInv, Running, Dropped
  <2>2. ASSUME NEW k \in DOMAIN jobs, WorkerExits(k)
        PROVE  /\ \A n \in DOMAIN jobs : Running(n)' => Running(n) /\ n \in pods'
               /\ \A n : Dropped(n)' <=> Dropped(n)
    BY <1>1, <2>2 DEF NamedInv, Running, Dropped, WorkerExits, Failed
  <2>3. ASSUME NEW k \in DOMAIN jobs, PodEnds(k)
        PROVE  /\ \A n \in DOMAIN jobs : Running(n)' => Running(n) /\ n \in pods'
               /\ \A n : Dropped(n)' <=> Dropped(n)
    BY <1>1, <2>3 DEF NamedInv, Running, Dropped, PodEnds
  <2>4. ASSUME NEW k \in DOMAIN jobs, JobCollected(k)
        PROVE  /\ \A n \in DOMAIN jobs : Running(n)' => Running(n) /\ n \in pods'
               /\ \A n : Dropped(n)' <=> Dropped(n)
    BY <1>1, <2>4 DEF NamedInv, Running, Dropped, JobCollected
  <2> QED BY <1>3, <2>1, <2>2, <2>3, <2>4
<1>5. \A n : Running(n)' => Running(n)
  BY <1>0, <1>4 DEF Running
<1>6. NamedInv'
  BY <1>0, <1>1, <1>4 DEF NamedInv, Dropped
<1>7. BehindInv' /\ OverInv'
  BY <1>0, <1>1, <1>5 DEF BehindInv, OverInv, Active, Terminal
<1>8. WriteInv' /\ FirstInv'
  BY <1>0, <1>1, <1>2, <1>5 DEF WriteInv, FirstInv, Patching, Terminal, Running
<1>9. StartInv'
  BY <1>0, <1>1, <1>2, <1>4 DEF StartInv, SameRun, Starting, GateSteps, Terminal, Dropped
<1> QED BY <1>6, <1>7, <1>8, <1>9 DEF UncutInv

LEMMA UncutStep ==
  ASSUME ~JobCacheLags, MaxVanish = 0, MaxAborts = 0, KnownInv, UncutInv, [Next]_vars
  PROVE  UncutInv'
<1>1. CASE Reconcile
  BY <1>1, ReconcileUncut
<1>2. CASE UpdateStatus
  BY <1>2, UpdateUncut
<1>3. CASE Decide \/ SettleBudget
  BY <1>3, LockedUncut
<1>4. CASE RetryGate \/ JudgeProbe
  BY <1>4, GateUncut
<1>5. CASE CreateWorker
  BY <1>5, CreateUncut
<1>6. CASE RecordAttempt
  BY <1>6, RecordUncut
<1>7. CASE DeleteStrayProbes \/ DropProbe
  BY <1>7, EndUncut
<1>8. CASE Abort
  BY <1>8 DEF Abort, KnownInv, IInv, BoundsTypeOK
<1>9. CASE CacheSync
  BY <1>9, SyncUncut
<1>10. CASE EditSpec
  BY <1>10, EditUncut
<1>11. CASE Cluster \/ JobSync
  BY <1>11, ClusterUncut
<1>12. CASE UNCHANGED vars
  BY <1>12 DEF vars, apiVars, jobVars, clusterVars, gateVars, UncutInv, NamedInv, BehindInv, WriteInv,
     StartInv, FirstInv, OverInv, Running, Dropped, Patching, Starting, SameRun, Active, Terminal
<1> QED BY <1>1, <1>2, <1>3, <1>4, <1>5, <1>6, <1>7, <1>8, <1>9, <1>10, <1>11, <1>12, AnyStep

\* A finished Migration leaves no counted worker running (migration_controller.go:212), as
\* long as no pass is cut, no Job is deleted behind the operator's back and the Job
\* informer keeps up with the passes.  Each of the three is needed: a pass that is cut
\* between its delete and its write lets a later suspend forget the next worker.
THEOREM FinishedIsIdle ==
  ASSUME ~JobCacheLags, MaxVanish = 0, MaxAborts = 0
  PROVE  Spec => []TerminalHasNoWorker
<1>1. Init => UncutInv
  BY UncutInit
<1>2. SafeInv /\ UncutInv /\ [Next]_vars => UncutInv'
  BY UncutStep DEF SafeInv, KnownInv, Timely
<1>3. SafeInv /\ UncutInv => TerminalHasNoWorker
  <2> SUFFICES ASSUME SafeInv, OverInv PROVE TerminalHasNoWorker
    BY DEF UncutInv
  <2>1. mig.attempts \in Nat /\ DOMAIN jobs \subseteq Nat
    BY Typed DEF SafeInv
  <2> QED BY <2>1 DEF OverInv, Running, TerminalHasNoWorker
<1> QED BY <1>1, <1>2, <1>3, SafetyInductive, PTL DEF Spec
-----------------------------------------------------------------------------
(* The contract: MigrationAttempts implements AttemptContract.  What SafeInv lacks for  *)
(* it is that a pass about to create a worker past the first has settled the last       *)
(* failure on the server, and that nobody else has recorded an attempt since; and that   *)
(* the pods that deleted Jobs left are told apart.                                       *)

NumberedInv == \A o \in orphans : o.nth < vanishes

SettledInv ==
  pass.step = "create" /\ pass.base.attempts > 0
    => mig.attempts = pass.base.attempts /\ Level(mig) # 1

\* settleBudget leaves no failure without a verdict where a worker may start.
LEMMA SettleJudges ==
  ASSUME IInv, LockInv, SettleBudget, pass'.step = "create"
  PROVE  Level(mig') # 1
<1> DEFINE m == [pass.m EXCEPT !.gate.verdict = IF Undecided(pass.m) THEN "Counted" ELSE @]
           ruling == IF Undecided(pass.m) THEN "Counted" ELSE pass.m.gate.verdict
           gate == [pass.m.gate EXCEPT !.verdict = ruling]
<1>0. /\ pass.m \in Migrations /\ pass.m.gate \in Gates /\ pass.m = pass.base
      /\ pass.current => mig = pass.base
  BY Typed DEF SettleBudget, LockInv, GateSteps
<1>1. LockedPatch(FailBudget(m), "idle") \/ LockedPatch(m, "create")
  BY DEF SettleBudget
<1>2. m = [pass.m EXCEPT !.gate = gate]
  OBVIOUS
<1>3. gate \in Gates /\ gate.attempt = pass.m.gate.attempt /\ gate.verdict = ruling
  BY <1>0 DEF Gates, Verdicts
<1>4. ~(gate.attempt # 0 /\ gate.attempt = pass.m.attempts /\ gate.verdict = NoVerdict)
  <2>1. CASE Undecided(pass.m)
    BY <1>3, <2>1, NoVerdictIs
  <2>2. CASE ~Undecided(pass.m)
    BY <1>3, <2>2, NoVerdictIs DEF OnFailurePath
  <2> QED BY <2>1, <2>2
<1> HIDE DEF m, ruling, gate
<1>5. m \in Migrations /\ m.gate = gate /\ m.attempts = pass.m.attempts /\ SameSpec(m, pass.base)
  BY <1>0, <1>2, <1>3 DEF Migrations, SameSpec
<1>6. pass' # Idle
  BY IdlePass
<1>7. pass.current /\ mig' = Merge(mig, pass.base, m)
  BY <1>1, <1>6 DEF LockedPatch, Store
<1>8. mig' = m
  BY <1>0, <1>5, <1>7, Typed, MergeOfBase DEF SameSpec
<1> QED BY <1>4, <1>5, <1>8 DEF Level

LEMMA SettledStep ==
  ASSUME SafeInv, SettledInv, [Next]_vars
  PROVE  SettledInv'
<1>0. IInv /\ LockInv /\ JobsNoted
  BY DEF SafeInv, VersionInv
<1>1. ASSUME UNCHANGED <<mig, pass>>
      PROVE  SettledInv'
  BY <1>1 DEF SettledInv
<1>2. ASSUME pass'.step # "create"
      PROVE  SettledInv'
  BY <1>2 DEF SettledInv
<1>3. CASE Reconcile
  <2>1. Begun
    BY <1>0, <1>3, ReconcileShape
  <2>2. pass'.step = "create" => pass'.base.attempts = 0
    BY <2>1 DEF Begun
  <2> QED BY <2>2 DEF SettledInv
<1>4. CASE UpdateStatus \/ CreateWorker \/ RecordAttempt \/ DeleteStrayProbes \/ DropProbe \/ Abort
  <2>1. pass' = Idle \/ pass'.step \in {"strays", "record", "drop"}
    BY <1>0, <1>4, UpdateStatusShape, CreateShape, RecordShape, EndShape
  <2> QED BY <1>2, <2>1, IdlePass
<1>5. CASE RetryGate \/ JudgeProbe
  <2>1. pass'.step \in {"patch", "judged", "decide", "settle"}
    BY <1>0, <1>5, GateShape
  <2> QED BY <1>2, <2>1
<1>6. CASE Decide \/ SettleBudget
  <2>1. ASSUME pass'.step = "create"
        PROVE  pass'.base = mig' /\ Level(mig') # 1
    <3>1. pass' # Idle
      BY <2>1, IdlePass
    <3>2. pass.step = "settle" /\ pass'.base = mig'
      BY <1>0, <1>6, <2>1, <3>1, LockedShape
    <3>3. SettleBudget
      BY <1>6, <3>2 DEF Decide
    <3> QED BY <1>0, <2>1, <3>2, <3>3, SettleJudges
  <2>2. pass'.step = "create" => mig'.attempts = pass'.base.attempts /\ Level(mig') # 1
    BY <2>1
  <2> QED BY <2>2 DEF SettledInv, Level
<1>7. CASE EditSpec
  <2>1. /\ mig'.attempts = mig.attempts /\ mig'.gate = mig.gate
        /\ pass'.step = pass.step /\ pass'.base = pass.base
    BY <1>0, <1>7, EditShape
  <2>2. Level(mig') = Level(mig)
    BY <2>1, LevelSame
  <2> QED BY <2>1, <2>2 DEF SettledInv, Level
<1>8. CASE CacheSync \/ Cluster \/ JobSync \/ UNCHANGED vars
  <2>1. UNCHANGED <<mig, pass>>
    BY <1>0, <1>8, SyncShape, ClusterShape DEF vars, apiVars
  <2> QED BY <1>1, <2>1
<1> QED BY <1>3, <1>4, <1>5, <1>6, <1>7, <1>8, AnyStep

\* The gate record is on the failure path exactly when the last failure is noted.
LEMMA LevelPath ==
  ASSUME NEW x \in Migrations, NEW failed, WellGated(x, failed)
  PROVE  OnFailurePath(x) <=> Level(x) # 0
<1>0. /\ x.gate \in Gates /\ NoGate \in Gates /\ x.attempts \in Nat /\ x.gate.attempt \in Nat
      /\ NoGate.attempt = 0 /\ NoGate.verdict = NoVerdict
  BY NoVerdictIs DEF Migrations, Gates
<1>1. ASSUME OnFailurePath(x)
      PROVE  Level(x) # 0
  <2>1. x.gate # NoGate /\ x.gate.attempt = x.attempts
    BY <1>1 DEF OnFailurePath
  <2>2. CASE x.gate.attempt = 0
    <3>1. x.gate.verdict # NoVerdict
      BY <1>0, <2>1, <2>2 DEF Gates
    <3> QED BY <3>1 DEF WellGated
  <2>3. CASE x.gate.attempt # 0
    BY <2>1, <2>3 DEF Level
  <2> QED BY <2>2, <2>3
<1>2. ASSUME Level(x) # 0
      PROVE  OnFailurePath(x)
  BY <1>0, <1>2 DEF Level, OnFailurePath
<1> QED BY <1>1, <1>2

NoticeOf(level) == IF level = 0 THEN "none" ELSE IF level = 1 THEN "noted" ELSE "judged"

LEMMA Noticed ==
  ASSUME SafeInv, SafeInv'
  PROVE  Notice = NoticeOf(Level(mig)) /\ Notice' = NoticeOf(Level(mig'))
<1>1. ASSUME NEW x \in Migrations, NEW failed, WellGated(x, failed)
      PROVE  (IF ~OnFailurePath(x) THEN "none" ELSE IF x.gate.verdict = NoVerdict THEN "noted" ELSE "judged")
               = NoticeOf(Level(x))
  <2>1. OnFailurePath(x) <=> Level(x) # 0
    BY <1>1, LevelPath
  <2>2. Level(x) # 0 => (x.gate.verdict = NoVerdict <=> Level(x) = 1)
    BY DEF Level
  <2> QED BY <2>1, <2>2, LevelRange DEF NoticeOf
<1>2. /\ mig \in Migrations /\ mig' \in Migrations
      /\ WellGated(mig, failures) /\ WellGated(mig', failures')
  BY DEF SafeInv, IInv, ApiInv, ApiTypeOK, GateInv, WellGated, Level
<1>3. Notice = IF ~OnFailurePath(mig) THEN "none" ELSE IF mig.gate.verdict = NoVerdict THEN "noted" ELSE "judged"
  BY Zenon DEF Notice, NoVerdict
<1>4. Notice' = IF ~OnFailurePath(mig') THEN "none" ELSE IF mig'.gate.verdict = NoVerdict THEN "noted" ELSE "judged"
  BY Zenon DEF Notice, NoVerdict
<1> QED BY <1>1, <1>2, <1>3, <1>4

\* Only JobVanishes leaves a pod, and it counts what it leaves.
LEMMA OrphansMove ==
  ASSUME [Next]_vars
  PROVE  \/ orphans' \subseteq orphans /\ vanishes' = vanishes
         \/ \E n \in DOMAIN jobs : JobVanishes(n)
<1>1. CASE Reconcile
  BY <1>1 DEF Reconcile, SuspendPass, PreflightPass, NextAttempt, FinishClone, StartAttempt,
     WorkerSucceeded, HandleFailedJob, ObserveRunningJob, jobVars, clusterVars, bounds
<1>2. CASE PassStep
  BY <1>2 DEF PassStep, UpdateStatus, DeleteStrayProbes, Decide, RetryGate, JudgeProbe, SettleBudget,
     CreateWorker, RecordAttempt, DropProbe, jobVars, clusterVars, bounds
<1>3. CASE Abort \/ CacheSync \/ JobSync \/ EditSpec \/ UNCHANGED vars
  BY <1>3 DEF Abort, CacheSync, JobSync, EditSpec, vars, jobVars, clusterVars, bounds
<1>4. CASE Cluster
  BY <1>4 DEF Cluster, PreflightFinishes, FinishMoves, ProbeFinishes, ProbeAges, ProbeCollected,
     DeadlinePasses, OrphanEnds, WorkerExits, PodEnds, JobCollected, clusterVars, bounds
<1> QED BY <1>1, <1>2, <1>3, <1>4 DEF Next

LEMMA NumberedStep ==
  ASSUME IInv, NumberedInv, [Next]_vars
  PROVE  NumberedInv'
<1>1. CASE orphans' \subseteq orphans /\ vanishes' = vanishes
  BY <1>1 DEF NumberedInv
<1>2. ASSUME NEW n \in DOMAIN jobs, JobVanishes(n)
      PROVE  NumberedInv'
  <2>1. vanishes \in Nat /\ \A o \in orphans : o.nth \in Nat
    BY Typed DEF Orphans
  <2>2. /\ vanishes' = vanishes + 1
        /\ \A o \in orphans' : o \in orphans \/ o.nth = vanishes
    BY <1>2 DEF JobVanishes
  <2> QED BY <2>1, <2>2 DEF NumberedInv
<1> QED BY <1>1, <1>2, OrphansMove

\* A worker pod is of the last recorded attempt or of the one after it.
LEMMA PodNumber ==
  ASSUME Timely, SafeInv, NEW n \in pods
  PROVE  n \in Nat /\ n # 0 /\ n \in {mig.attempts, mig.attempts + 1}
<1>1. /\ n \in DOMAIN jobs /\ n \in Nat /\ mig.attempts \in Nat /\ cache.attempts \in Nat
  BY Typed DEF SafeInv
<1>2. /\ n # 0 /\ n <= cache.attempts + 1 /\ cache.attempts <= mig.attempts
      /\ mig.attempts = 0 \/ mig.attempts \in DOMAIN jobs
  BY <1>1 DEF SafeInv, VersionInv, JobsNoted
<1>3. mig.attempts = 0 \/ mig.attempts <= n
  BY <1>2, PoddedHas DEF SafeInv, PodInv, NewestOnly
<1> QED BY <1>1, <1>2, <1>3

\* What the contract does not tell apart.
LEMMA ContractStutter ==
  ASSUME SafeInv, SafeInv', UNCHANGED <<pods, orphans, failures>>, DOMAIN jobs' = DOMAIN jobs,
         mig'.attempts = mig.attempts, mig'.exempt = mig.exempt, Level(mig') = Level(mig)
  PROVE  UNCHANGED Contract!contractVars
BY Noticed DEF Contract!contractVars

\* Only a worker that has a pod fails or ends; a deleted Job leaves a pod that ends.
LEMMA WorkersWork ==
  ASSUME Timely, SafeInv, SafeInv', NumberedInv, Cluster \/ JobSync
  PROVE  Contract!Next \/ UNCHANGED Contract!contractVars
<1>0. IInv /\ JobsNoted
  BY DEF SafeInv, VersionInv
<1>1. mig' = mig /\ DOMAIN jobs' = DOMAIN jobs
  BY <1>0, ClusterShape DEF apiVars
<1>2. Notice' = Notice
  BY <1>1, Noticed DEF Level
<1>3. ASSUME NEW n \in DOMAIN jobs, n \in pods, pods' = pods \/ pods' = pods \ {n},
             failures' = failures \/ failures' = failures \cup {n}, orphans' = orphans
      PROVE  Contract!Next
  <2>1. n \in {mig.attempts, mig.attempts + 1}
    BY <1>3, PodNumber
  <2>2. Contract!Work(n)
    BY <1>1, <1>2, <1>3 DEF Contract!Work
  <2> QED BY <2>1, <2>2 DEF Contract!Next
<1>4. ASSUME UNCHANGED <<pods, orphans, failures>>
      PROVE  UNCHANGED Contract!contractVars
  BY <1>1, <1>4, ContractStutter
<1>5. CASE \/ JobSync \/ PreflightFinishes \/ FinishMoves \/ DeadlinePasses
           \/ ProbeFinishes \/ ProbeAges \/ ProbeCollected
  <2>1. UNCHANGED <<pods, orphans, failures>>
    BY <1>5 DEF JobSync, PreflightFinishes, FinishMoves, DeadlinePasses, ProbeFinishes, ProbeAges,
                ProbeCollected, clusterVars
  <2> QED BY <1>4, <2>1
<1>6. ASSUME NEW n \in DOMAIN jobs, WorkerExits(n) \/ PodEnds(n)
      PROVE  Contract!Next
  <2>1. /\ n \in pods /\ (pods' = pods \/ pods' = pods \ {n}) /\ orphans' = orphans
        /\ failures' = failures \/ failures' = failures \cup {n}
    BY <1>6 DEF WorkerExits, PodEnds
  <2> QED BY <1>3, <2>1
<1>7. ASSUME NEW n \in DOMAIN jobs, JobCollected(n)
      PROVE  UNCHANGED Contract!contractVars
  BY <1>4, <1>7 DEF JobCollected
<1>8. CASE OrphanEnds
  <2>1. Contract!LeftoverEnds
    BY <1>1, <1>2, <1>8 DEF OrphanEnds, Contract!LeftoverEnds
  <2> QED BY <2>1 DEF Contract!Next
<1>9. ASSUME NEW n \in DOMAIN jobs, JobVanishes(n)
      PROVE  Contract!Next \/ UNCHANGED Contract!contractVars
  <2>1. CASE n \notin pods
    <3>1. UNCHANGED <<pods, orphans, failures>>
      BY <1>9, <2>1 DEF JobVanishes
    <3> QED BY <1>4, <3>1
  <2>2. CASE n \in pods
    <3> DEFINE l == [attempt |-> n, nth |-> vanishes, known |-> Known(n)]
    <3>1. n \in {mig.attempts, mig.attempts + 1}
      BY <2>2, PodNumber
    <3>2. pods' = pods \ {n} /\ orphans' = orphans \cup {l} /\ failures' = failures
      BY <1>9, <2>2 DEF JobVanishes
    <3>3. l.attempt = n /\ l.nth = vanishes
      OBVIOUS
    <3> HIDE DEF l
    <3>4. l \in orphans' \ orphans
      BY <1>0, <3>2, <3>3, Typed DEF NumberedInv
    <3>5. Contract!Leave(n)
      BY <1>1, <1>2, <2>2, <3>2, <3>3, <3>4 DEF Contract!Leave
    <3> QED BY <3>1, <3>5 DEF Contract!Next
  <2> QED BY <2>1, <2>2
<1> QED BY <1>5, <1>6, <1>7, <1>8, <1>9 DEF Cluster

\* A worker starts beside no other but what a deleted Job of its own attempt left, within
\* the budget, and past no undecided failure.
LEMMA CreateKeepsContract ==
  ASSUME Timely, SafeInv, SettledInv, SafeInv', CreateWorker
  PROVE  Contract!Next \/ UNCHANGED Contract!contractVars
<1> DEFINE n == pass.base.attempts + 1
<1>0. /\ IInv /\ LockInv /\ VersionInv /\ PodInv /\ GateInv /\ pass.step = "create" /\ Active
      /\ pass.base \in Migrations /\ pass.base.attempts \in Nat /\ pass.base.exempt \in Nat
      /\ mig.attempts \in Nat /\ mig.exempt \in Nat /\ pods \subseteq DOMAIN jobs
  BY Typed DEF SafeInv, CreateWorker, Active
<1>1. /\ mig' = mig /\ failures' = failures /\ orphans' = orphans /\ pass.m = pass.base
      /\ DOMAIN jobs' = DOMAIN jobs \cup {n}
  BY <1>0, CreateShape DEF apiVars, LockInv, GateSteps
<1>2. Notice' = Notice
  BY <1>1, Noticed DEF Level
<1>3. UNCHANGED clusterVars \/ (pods' = pods \cup {n} /\ ~Exists(n))
  BY <1>1 DEF CreateWorker
<1>4. CASE UNCHANGED clusterVars
  BY <1>1, <1>4, ContractStutter DEF clusterVars
<1>5. CASE pods' = pods \cup {n} /\ ~Exists(n)
  <2>1. pods = {} /\ \A o \in orphans : o.attempt = n
    BY <1>0, <1>5, PoddedHas DEF PodInv, Exists
  <2>2. n - mig.exempt <= BackoffLimit + 1
    <3>1. pass.base.attempts - pass.base.exempt < BackoffLimit + 1 /\ pass.base.exempt <= mig.exempt
      BY <1>0, <1>1 DEF IInv, PassInv
    <3> QED BY <1>0, <3>1, BackoffAssumption
  <2>3. /\ Level(mig) # 1
        /\ n = mig.attempts + 1 \/ (n = 1 /\ mig.attempts = 1)
    <3>1. OneBehind(mig, pass.base)
      BY <1>0 DEF GateInv
    <3>2. CASE pass.base.attempts > 0
      BY <1>0, <3>2 DEF SettledInv
    <3>3. CASE pass.base.attempts = 0 /\ mig.attempts = pass.base.attempts + 1
      BY <1>0, <3>1, <3>3 DEF OneBehind
    <3>4. CASE pass.base.attempts = 0 /\ mig.attempts = 0
      <4>1. mig.gate.attempt = 0
        <5>1. WellGated(mig, failures) /\ mig.gate.attempt \in Nat
          BY <1>0, Typed DEF GateInv
        <5> QED BY <3>4, <5>1 DEF WellGated
      <4> QED BY <3>4, <4>1 DEF Level
    <3> QED BY <1>0, <3>1, <3>2, <3>3, <3>4 DEF OneBehind
  <2>4. Notice # "noted"
    BY <2>3, Noticed DEF NoticeOf
  <2>5. n \in {mig.attempts, mig.attempts + 1} /\ pods' = {n}
    BY <1>5, <2>1, <2>3
  <2> HIDE DEF n
  <2>6. Contract!Start(n)
    BY <1>1, <1>2, <2>1, <2>2, <2>3, <2>4, <2>5 DEF Contract!Start
  <2> QED BY <2>5, <2>6 DEF Contract!Next
<1> QED BY <1>3, <1>4, <1>5

\* A status patch may note the failure of the last attempt, and moves nothing else.
LEMMA PatchKeepsContract ==
  ASSUME SafeInv, SafeInv', UpdateStatus
  PROVE  Contract!Next \/ UNCHANGED Contract!contractVars
<1> USE DEF Active
<1>0. /\ IInv /\ LockInv /\ VersionInv /\ GateInv /\ JobsNoted
      /\ mig \in Migrations /\ pass.base \in Migrations /\ pass.m \in Migrations
      /\ failures \subseteq Nat /\ 0 \notin failures
  BY Typed DEF SafeInv, VersionInv, JobsNoted
<1>1. /\ pass.step \in {"patch", "observe"} /\ UNCHANGED <<jobs, pods, orphans, failures>>
      /\ mig' = Merge(mig, pass.base, pass.m)
  BY <1>0, UpdateStatusShape DEF jobVars, clusterVars
<1>2. /\ WellGated(mig, failures) /\ WellGated(pass.base, failures) /\ OneBehind(mig, pass.base)
      /\ \/ pass.m.gate = pass.base.gate
         \/ /\ pass.base.job # 0 /\ pass.base.job \in failures /\ pass.m.job = 0
            /\ pass.m.gate = [attempt |-> pass.base.attempts, verdict |-> NoVerdict]
      /\ KeepsAttempt(pass.m, pass.base)
  BY <1>0, <1>1 DEF GateInv, LockInv
<1>3. /\ mig'.attempts = mig.attempts /\ mig'.exempt = mig.exempt /\ WellGated(mig', failures)
      /\ Level(mig') = Level(mig) \/ (Level(mig) = 0 /\ Level(mig') = 1)
  BY <1>0, <1>1, <1>2, PatchGates
<1>4. CASE Level(mig') = Level(mig)
  BY <1>1, <1>3, <1>4, ContractStutter
<1>5. CASE Level(mig) = 0 /\ Level(mig') = 1
  <2>1. mig'.gate.attempt # 0 /\ mig'.gate.attempt = mig'.attempts
    BY <1>5 DEF Level
  <2>2. mig.attempts \in failures
    BY <1>3, <2>1 DEF WellGated
  <2>3. Notice = "none" /\ Notice' = "noted"
    BY <1>5, Noticed DEF NoticeOf
  <2>4. Contract!Note
    BY <1>1, <1>3, <2>2, <2>3 DEF Contract!Note
  <2> QED BY <2>4 DEF Contract!Next
<1> QED BY <1>3, <1>4, <1>5

\* A locked patch may judge the noted failure, with at most one refund.
LEMMA JudgeKeepsContract ==
  ASSUME SafeInv, SafeInv', Decide \/ SettleBudget
  PROVE  Contract!Next \/ UNCHANGED Contract!contractVars
<1>0. /\ IInv /\ LockInv /\ mig \in Migrations /\ mig' \in Migrations /\ failures \subseteq Nat
      /\ WellGated(mig, failures)
  BY Typed DEF SafeInv, IInv, ApiInv, ApiTypeOK, GateInv
<1>1. UNCHANGED <<jobs, pods, orphans, failures>>
  BY <1>0, LockedShape DEF jobVars, clusterVars
<1>2. CASE UNCHANGED mig
  BY <1>1, <1>2, ContractStutter DEF Level
<1>3. CASE Judges(mig', mig)
  <2>1. /\ mig'.attempts = mig.attempts
        /\ \/ Level(mig') = Level(mig) /\ mig'.exempt = mig.exempt
           \/ /\ Level(mig) = 1 /\ Level(mig') = 2 /\ mig'.exempt \in {mig.exempt, mig.exempt + 1}
    BY <1>0, <1>3, JudgesGates
  <2>2. CASE Level(mig') = Level(mig) /\ mig'.exempt = mig.exempt
    BY <1>1, <2>1, <2>2, ContractStutter
  <2>3. CASE Level(mig) = 1 /\ Level(mig') = 2 /\ mig'.exempt \in {mig.exempt, mig.exempt + 1}
    <3>1. Notice = "noted" /\ Notice' = "judged"
      BY <2>3, Noticed DEF NoticeOf
    <3>2. Contract!Judge
      BY <1>1, <2>1, <2>3, <3>1 DEF Contract!Judge
    <3> QED BY <3>2 DEF Contract!Next
  <2> QED BY <2>1, <2>2, <2>3
<1> QED BY <1>0, <1>2, <1>3, LockedShape DEF apiVars

\* An attempt is recorded once, however often it is written.
LEMMA RecordKeepsContract ==
  ASSUME SafeInv, SafeInv', RecordAttempt
  PROVE  Contract!Next \/ UNCHANGED Contract!contractVars
<1> USE DEF Active
<1>0. /\ IInv /\ LockInv /\ mig \in Migrations /\ pass.base \in Migrations /\ failures \subseteq Nat
      /\ mig.attempts \in Nat /\ pass.base.attempts \in Nat
  BY Typed DEF SafeInv
<1>1. /\ pass.step = "record" /\ UNCHANGED <<jobs, pods, orphans, failures>>
      /\ mig' = Merge(mig, pass.base, Recorded(pass.base))
  BY <1>0, RecordShape DEF jobVars, clusterVars
<1>2. /\ WellGated(mig, failures) /\ WellGated(pass.base, failures) /\ OneBehind(mig, pass.base)
      /\ pass.base.attempts + 1 \in DOMAIN jobs
  BY <1>1 DEF SafeInv, GateInv, VersionInv
<1>3. /\ mig'.attempts = pass.base.attempts + 1 /\ mig'.exempt = mig.exempt /\ Level(mig') = 0
  BY <1>0, <1>1, <1>2, RecordGates
<1>4. CASE mig.attempts = pass.base.attempts
  <2>1. Notice' = "none"
    BY <1>3, Noticed DEF NoticeOf
  <2>2. Contract!Record
    BY <1>1, <1>2, <1>3, <1>4, <2>1 DEF Contract!Record
  <2> QED BY <2>2 DEF Contract!Next
<1>5. CASE mig.attempts = pass.base.attempts + 1 /\ Level(mig) = 0
  BY <1>1, <1>3, <1>5, ContractStutter
<1> QED BY <1>2, <1>4, <1>5 DEF OneBehind

LEMMA StepKeepsContract ==
  ASSUME Timely, SafeInv, SettledInv, NumberedInv, [Next]_vars
  PROVE  [Contract!Next]_(Contract!contractVars)
<1>0. IInv /\ LockInv /\ JobsNoted /\ SafeInv'
  BY SafeNext DEF SafeInv, VersionInv
<1>1. CASE \/ Reconcile \/ RetryGate \/ JudgeProbe \/ DeleteStrayProbes \/ DropProbe \/ Abort
           \/ CacheSync \/ UNCHANGED vars
  <2>1. UNCHANGED <<mig, pods, orphans, failures>> /\ DOMAIN jobs' = DOMAIN jobs
    BY <1>0, <1>1, ReconcileShape, GateShape, EndShape, SyncShape
       DEF vars, apiVars, jobVars, clusterVars
  <2> QED BY <1>0, <2>1, ContractStutter DEF Level
<1>2. CASE EditSpec
  <2>1. /\ UNCHANGED <<jobs, pods, orphans, failures>> /\ mig'.attempts = mig.attempts
        /\ mig'.exempt = mig.exempt /\ mig'.gate = mig.gate
    BY <1>0, <1>2, EditShape DEF jobVars, clusterVars
  <2>2. Level(mig') = Level(mig)
    BY <2>1, LevelSame
  <2> QED BY <1>0, <2>1, <2>2, ContractStutter
<1> QED BY <1>0, <1>1, <1>2, AnyStep, PatchKeepsContract, JudgeKeepsContract, CreateKeepsContract,
           RecordKeepsContract, WorkersWork

\* MigrationAttempts implements its contract (KeepsContract; retry_gate.go:44,
\* retry_gate.go:326): for every backoffLimit, however far the informers are behind,
\* whatever Jobs vanish and wherever passes are cut, one worker runs at a time, beside which
\* only a pod of its own attempt may end that a deleted Job left, within the budget as the
\* server counts it and never past an undecided failure; attempts are recorded one after the
\* other, and each failure is judged once and refunded at most once.  The informer of Jobs
\* may be behind, as long as no probe is scheduled, runs and ends in the meantime.
THEOREM AttemptsKeepContract ==
  ASSUME JobCacheLags => ~ProbesOutrun
  PROVE  Spec => KeepsContract
<1>1. Init => SafeInv /\ SettledInv /\ NumberedInv
  <2>1. Init => pass.step = "idle" /\ orphans = {}
    BY IdlePass DEF Init
  <2> QED BY <2>1, SafeInit DEF SettledInv, NumberedInv
<1>2. SafeInv /\ SettledInv /\ NumberedInv /\ [Next]_vars => SafeInv' /\ SettledInv' /\ NumberedInv'
  BY SafeNext, SettledStep, NumberedStep DEF SafeInv
<1>3. Init => Contract!Init
  <2> SUFFICES ASSUME Init PROVE Contract!Init
    OBVIOUS
  <2>1. /\ pods = {} /\ orphans = {} /\ DOMAIN jobs = {} /\ failures = {}
        /\ mig.attempts = 0 /\ mig.exempt = 0 /\ mig.gate = NoGate
    BY DEF Init, NewMigration
  <2>2. Notice = "none"
    BY <2>1 DEF Notice, OnFailurePath
  <2> QED BY <2>1, <2>2 DEF Contract!Init
<1>4. SafeInv /\ SettledInv /\ NumberedInv /\ [Next]_vars => [Contract!Next]_(Contract!contractVars)
  BY StepKeepsContract DEF Timely
<1> QED BY <1>1, <1>2, <1>3, <1>4, PTL DEF Spec, KeepsContract, Contract!Spec

=============================================================================
