---------------------- MODULE MigrationAttemptsProofs ----------------------
(***************************************************************************)
(* Type correctness of MigrationAttempts and its budget theorem, for every *)
(* backoffLimit and every value of the bounds.                             *)
(***************************************************************************)
EXTENDS MigrationAttempts, TLAPS

(* What the helpers on a Migration return. *)

\* A merge patch of two Migrations over a third is a Migration, and it moves the
\* refunds only if the pass did (updateStatus).
LEMMA MergeType ==
  ASSUME NEW cur \in Migrations, NEW base \in Migrations, NEW m \in Migrations
  PROVE  /\ Merge(cur, base, m) \in Migrations
         /\ Merge(cur, base, m).exempt = IF m.exempt = base.exempt THEN cur.exempt ELSE m.exempt
<1>1. MergeGate(cur.gate, base.gate, m.gate) \in Gates
  <2>1. /\ cur.gate \in Gates /\ base.gate \in Gates /\ m.gate \in Gates
    BY DEF Migrations
  <2>2. ASSUME NEW a \in Gates, NEW b \in Gates, NEW c \in Gates
        PROVE  [attempt |-> Written(a.attempt, b.attempt, c.attempt),
                verdict |-> Written(a.verdict, b.verdict, c.verdict)] \in Gates
    BY DEF Written, Gates
  <2>3. Written(base.gate, m.gate, cur.gate) \in Gates
    BY <2>1 DEF Written
  <2> QED BY <2>1, <2>2, <2>3 DEF MergeGate
<1> HIDE DEF MergeGate
<1> DEFINE g == MergeGate(cur.gate, base.gate, m.gate)
           a == Written(base.attempts, m.attempts, cur.attempts)
           e == Written(base.exempt, m.exempt, cur.exempt)
           j == Written(base.job, m.job, cur.job)
           c == Written(base.cond, m.cond, cur.cond)
           p == Written(base.phase, m.phase, cur.phase)
<1>2. a \in Nat /\ e \in Nat /\ j \in Nat
  BY DEF Written, Migrations
<1>3. c \in Conditions /\ p \in Phases
  BY DEF Written, Migrations
<1>4. e = IF m.exempt = base.exempt THEN cur.exempt ELSE m.exempt
  BY DEF Written
<1>5. Merge(cur, base, m) = [cur EXCEPT !.attempts = a, !.exempt = e, !.job = j, !.gate = g,
                                        !.cond = c, !.phase = p]
  BY DEF Merge, Migrations
<1> HIDE DEF g, a, e, j, c, p
<1>6. g \in Gates
  BY <1>1 DEF g
<1>7. [cur EXCEPT !.attempts = a, !.exempt = e, !.job = j, !.gate = g, !.cond = c, !.phase = p]
        \in Migrations
  BY <1>2, <1>3, <1>6 DEF Migrations
<1>8. [cur EXCEPT !.attempts = a, !.exempt = e, !.job = j, !.gate = g, !.cond = c, !.phase = p].exempt = e
  BY DEF Migrations
<1> QED BY <1>4, <1>5, <1>7, <1>8

\* Ending or setting a hold and failing keep the type, the attempts and the
\* refunds (endHold, setHold, fail, failBudget).
LEMMA StatusHelpers ==
  ASSUME NEW m \in Migrations
  PROVE  /\ EndHold(m) \in Migrations /\ EndHold(m).exempt = m.exempt
         /\ SetHold(m) \in Migrations /\ SetHold(m).exempt = m.exempt
         /\ Fail(m) \in Migrations /\ Fail(m).exempt = m.exempt
         /\ FailBudget(m) \in Migrations /\ FailBudget(m).exempt = m.exempt
         /\ Recorded(m) \in Migrations /\ Recorded(m).exempt = m.exempt
<1>1. EndHold(m) \in Migrations /\ EndHold(m).exempt = m.exempt
  BY DEF EndHold, Migrations, Conditions
<1>2. SetHold(m) \in Migrations /\ SetHold(m).exempt = m.exempt
  BY DEF SetHold, Migrations, Conditions, Phases
<1>3. ASSUME NEW n \in Migrations
      PROVE  Fail(n) \in Migrations /\ Fail(n).exempt = n.exempt
  BY DEF Fail, EndHold, Migrations, Conditions, Phases
<1>4. FailBudget(m) \in Migrations /\ FailBudget(m).exempt = m.exempt
  <2> DEFINE n == [m EXCEPT !.cond.clone = IF m.gate # NoGate THEN "CloneFailed" ELSE @]
  <2>1. n \in Migrations /\ n.exempt = m.exempt
    BY DEF Migrations, Conditions, CloneStates
  <2>2. FailBudget(m) = Fail(n)
    BY DEF FailBudget
  <2> QED BY <1>3, <2>1, <2>2
<1>5. Recorded(m) \in Migrations /\ Recorded(m).exempt = m.exempt
  <2> DEFINE ran == [m EXCEPT !.attempts = @ + 1, !.job = m.attempts + 1, !.phase = "Cloning",
                              !.cond.clone = IF @ = "done" THEN "done" ELSE "running"]
         cond == [m.cond EXCEPT !.clone = IF @ = "done" THEN "done" ELSE "running"]
  <2>1. ran \in Migrations /\ ran.exempt = m.exempt
    <3>1. cond \in Conditions
      BY DEF Migrations, Conditions, CloneStates
    <3>2. ran = [m EXCEPT !.attempts = @ + 1, !.job = m.attempts + 1, !.phase = "Cloning",
                          !.cond = cond]
      BY DEF Migrations
    <3>3. m.attempts + 1 \in Nat /\ "Cloning" \in Phases
      BY DEF Migrations, Phases
    <3> HIDE DEF cond
    <3> QED BY <3>1, <3>2, <3>3 DEF Migrations
  <2>2. EndHold(ran) \in Migrations /\ EndHold(ran).exempt = m.exempt
    <3> HIDE DEF ran
    <3>1. ASSUME NEW x \in Migrations
          PROVE  EndHold(x) \in Migrations /\ EndHold(x).exempt = x.exempt
      BY DEF EndHold, Migrations, Conditions
    <3> QED BY <2>1, <3>1
  <2>3. NoGate \in Gates
    BY DEF NoGate, Gates, Verdicts
  <2>4. Recorded(m) = IF m.attempts > 0 THEN [EndHold(ran) EXCEPT !.gate = NoGate] ELSE ran
    BY DEF Recorded
  <2> HIDE DEF ran
  <2> QED BY <2>1, <2>2, <2>3, <2>4 DEF Migrations
<1> QED BY <1>1, <1>2, <1>3, <1>4, <1>5

-----------------------------------------------------------------------------
(* The inductive invariant.  BudgetRespected alone is not inductive: a pass *)
(* checks the budget on its own copy and creates the worker several steps   *)
(* later, so the copy's refunds have to be tied to the server's.            *)

\* The refunds the informer shows never exceed the server's, and equal them
\* when the informer is up to date.
ApiInv ==
  /\ ApiTypeOK
  /\ cache.exempt <= mig.exempt
  /\ fresh => cache.exempt = mig.exempt

\* A pass carries no refund of its own between its writes; one about to create a
\* worker has checked the budget on the copy it carries.
PassInv ==
  /\ pass \in Passes
  /\ pass.m.exempt = pass.base.exempt
  /\ pass.base.exempt <= mig.exempt
  /\ pass.current => pass.base.exempt = mig.exempt
  /\ pass.step = "create" => pass.m.attempts - pass.m.exempt < BackoffLimit + 1
  /\ pass.step = "decide" => pass.then \in {"pods", "judged"}

WorkersInv == WorkersTypeOK /\ BudgetRespected

IInv == ApiInv /\ PassInv /\ WorkersInv /\ GateTypeOK /\ BoundsTypeOK

LEMMA NewMigrationType ==
  ASSUME NEW local \in BOOLEAN
  PROVE  NewMigration(local) \in Migrations /\ NewMigration(local).exempt = 0
BY DEF NewMigration, Migrations, Gates, NoGate, Verdicts, Conditions, CloneStates, Phases

LEMMA IdlePass ==
  /\ Idle \in Passes /\ Idle.m.exempt = 0 /\ Idle.base.exempt = 0
  /\ ~Idle.current /\ Idle.step = "idle"
BY NewMigrationType DEF Idle, Passes, PassSteps, Verdicts

\* A pass that ends leaves the invariant on passes true.
LEMMA EndOfPass ==
  ASSUME mig' \in Migrations, pass' = Idle
  PROVE  PassInv'
BY IdlePass DEF PassInv, Migrations

LEMMA InitInv == Init => IInv
<1> SUFFICES ASSUME Init PROVE IInv
  OBVIOUS
<1>0. mig \in Migrations /\ mig.exempt = 0 /\ cache = mig /\ fresh = TRUE /\ pass = Idle
  <2>1. NewMigration(FALSE) \in Migrations /\ NewMigration(FALSE).exempt = 0
    BY NewMigrationType
  <2> QED BY <2>1 DEF Init
<1>1. ApiInv
  BY <1>0 DEF ApiInv, ApiTypeOK
<1>2. PassInv
  BY <1>0, IdlePass DEF PassInv
<1>3. WorkersInv
  BY DEF Init, WorkersInv, WorkersTypeOK, BudgetRespected
<1>4. GateTypeOK /\ BoundsTypeOK
  BY DEF Init, GateTypeOK, BoundsTypeOK
<1> QED BY <1>1, <1>2, <1>3, <1>4 DEF IInv

\* Storing a version with at least the refunds of the last keeps the API part.
LEMMA StoreInv ==
  ASSUME ApiInv, NEW new \in Migrations, new.exempt >= mig.exempt, Store(new)
  PROVE  ApiInv' /\ mig' = new
<1>1. mig.exempt \in Nat /\ cache.exempt \in Nat /\ new.exempt \in Nat
  BY DEF ApiInv, ApiTypeOK, Migrations
<1>2. mig' = new /\ cache' = cache /\ fresh' = (fresh /\ new = mig)
  BY DEF Store
<1>3. fresh' \in BOOLEAN /\ (fresh' => fresh /\ new = mig)
  BY <1>2
<1>4. cache'.exempt <= mig'.exempt /\ (fresh' => cache'.exempt = mig'.exempt)
  BY <1>1, <1>2, <1>3 DEF ApiInv
<1> QED BY <1>2, <1>3, <1>4 DEF ApiInv, ApiTypeOK

\* A pass begins on the cached copy with that copy's refunds.
LEMMA BeginInv ==
  ASSUME IInv, NEW step \in PassSteps \ {"decide"}, NEW m \in Migrations, m.exempt = cache.exempt,
         step = "create" => m.attempts - m.exempt < BackoffLimit + 1,
         Begin(step, m), UNCHANGED apiVars
  PROVE  ApiInv' /\ PassInv'
<1>1. /\ pass'.step = step /\ pass'.m = m /\ pass'.base = cache /\ pass'.current = fresh
      /\ pass' \in Passes
  BY IdlePass DEF Begin, IInv, ApiInv, ApiTypeOK, Passes, Idle
<1> QED BY <1>1 DEF IInv, ApiInv, ApiTypeOK, PassInv, apiVars

\* Only jobs, pods and the records about them matter to WorkersInv, and more refunds help.
LEMMA WorkersKept ==
  ASSUME IInv, mig' \in Migrations, mig'.exempt >= mig.exempt, UNCHANGED clusterVars
  PROVE  WorkersInv'
<1>1. WorkersTypeOK'
  BY DEF IInv, WorkersInv, WorkersTypeOK, clusterVars
<1>2. ASSUME NEW n \in DOMAIN jobs PROVE n - mig'.exempt <= BackoffLimit + 1
  <2>1. n \in Nat /\ mig.exempt \in Nat /\ mig'.exempt \in Nat /\ BackoffLimit \in Nat
    BY BackoffAssumption DEF IInv, WorkersInv, WorkersTypeOK, ApiInv, ApiTypeOK, Migrations
  <2>2. n - mig.exempt <= BackoffLimit + 1
    BY DEF IInv, WorkersInv, BudgetRespected
  <2> QED BY <2>1, <2>2
<1>3. BudgetRespected'
  BY <1>2 DEF BudgetRespected, clusterVars
<1> QED BY <1>1, <1>3 DEF WorkersInv

\* A step of a pass that leaves the API server alone and keeps m's refunds.
LEMMA GoOnInv ==
  ASSUME IInv, NEW step \in PassSteps \ {"create", "decide"}, NEW m \in Migrations,
         m.exempt = pass.m.exempt, GoOn(step, m), UNCHANGED apiVars
  PROVE  ApiInv' /\ PassInv'
<1>1. /\ pass'.step = step /\ pass'.m = m /\ pass'.base = pass.base /\ pass'.current = pass.current
      /\ pass' \in Passes
  BY DEF GoOn, IInv, PassInv, Passes
<1> QED BY <1>1 DEF IInv, ApiInv, ApiTypeOK, PassInv, apiVars

-----------------------------------------------------------------------------
(* Each action keeps the invariant. *)

\* A new value of the clone condition changes neither the type nor the refunds.
LEMMA CloneType ==
  ASSUME NEW m \in Migrations, NEW c \in CloneStates
  PROVE  /\ [m EXCEPT !.cond.clone = c] \in Migrations
         /\ [m EXCEPT !.cond.clone = c].exempt = m.exempt
BY DEF Migrations, Conditions

LEMMA FinishCloneInv ==
  ASSUME IInv, FinishClone, UNCHANGED apiVars
  PROVE  ApiInv' /\ PassInv' /\ GateTypeOK' /\ UNCHANGED clusterVars
<1>0. cache \in Migrations /\ "patch" \in PassSteps
  BY DEF IInv, ApiInv, ApiTypeOK, PassSteps
<1>1. ASSUME NEW m \in Migrations, m.exempt = cache.exempt, Begin("patch", m)
      PROVE  ApiInv' /\ PassInv'
  BY <1>0, <1>1, BeginInv
<1> DEFINE owed == [cache EXCEPT !.cond.clone = "CloneIncomplete"]
           done == [cache EXCEPT !.cond.clone = "done"]
<1>2. Fail(owed) \in Migrations /\ Fail(owed).exempt = cache.exempt
  <2>1. owed \in Migrations /\ owed.exempt = cache.exempt
    BY <1>0, CloneType DEF CloneStates
  <2> HIDE DEF owed
  <2> QED BY <2>1, StatusHelpers
<1>3. done \in Migrations /\ done.exempt = cache.exempt
  BY <1>0, CloneType DEF CloneStates
<1> HIDE DEF owed, done
<1>4. /\ [done EXCEPT !.phase = "Finalizing"] \in Migrations
      /\ [done EXCEPT !.phase = "Finalizing"].exempt = cache.exempt
      /\ [done EXCEPT !.phase = "Completed", !.cond.complete = TRUE] \in Migrations
      /\ [done EXCEPT !.phase = "Completed", !.cond.complete = TRUE].exempt = cache.exempt
  BY <1>3 DEF Migrations, Conditions, Phases
<1>5. ApiInv' /\ PassInv'
  BY <1>0, <1>1, <1>2, <1>3, <1>4 DEF FinishClone, owed, done
<1>6. GateTypeOK' /\ UNCHANGED clusterVars
  BY DEF FinishClone, GateTypeOK, IInv
<1> QED BY <1>5, <1>6

LEMMA StartAttemptInv ==
  ASSUME IInv, StartAttempt, UNCHANGED apiVars
  PROVE  ApiInv' /\ PassInv' /\ GateTypeOK' /\ UNCHANGED clusterVars
<1> USE DEF PassSteps
<1>0. cache \in Migrations /\ cache.attempts \in Nat /\ cache.exempt \in Nat /\ fresh \in BOOLEAN
  BY DEF IInv, ApiInv, ApiTypeOK, Migrations
<1>1. GateTypeOK' /\ UNCHANGED clusterVars
  BY DEF StartAttempt, GateTypeOK, IInv, jobVars, gateVars
<1>2. CASE Begin("record", cache) \/ Begin("pods", cache)
  BY <1>0, <1>1, <1>2, BeginInv
<1>3. CASE Begin("patch", FailBudget(cache))
  BY <1>0, <1>1, <1>3, BeginInv, StatusHelpers
<1>4. CASE Begin("create", cache) /\ cache.attempts + 1 = 1
  <2>1. cache.attempts - cache.exempt < BackoffLimit + 1
    BY <1>0, <1>4, BackoffAssumption
  <2> QED BY <1>0, <1>1, <1>4, <2>1, BeginInv
<1>5. CASE pass' = [Idle EXCEPT !.step = "decide", !.m = cache, !.base = cache,
                      !.current = fresh, !.verdict = "Counted", !.then = "pods"]
  <2>1. /\ pass' \in Passes /\ pass'.m = cache /\ pass'.base = cache
        /\ pass'.current = fresh /\ pass'.step = "decide" /\ pass'.then = "pods"
    BY <1>0, <1>5, IdlePass DEF Passes, Verdicts
  <2> QED BY <1>1, <2>1 DEF IInv, ApiInv, ApiTypeOK, PassInv, apiVars
<1> QED BY <1>0, <1>2, <1>3, <1>4, <1>5 DEF StartAttempt

LEMMA SuspendPassInv ==
  ASSUME IInv, SuspendPass, UNCHANGED apiVars
  PROVE  ApiInv' /\ PassInv' /\ WorkersInv' /\ GateTypeOK'
<1> DEFINE m == [EndHold(cache) EXCEPT !.job = 0, !.phase = "Suspended"]
<1>0. cache \in Migrations /\ "patch" \in PassSteps
  BY DEF IInv, ApiInv, ApiTypeOK, PassSteps
<1>1. m \in Migrations /\ m.exempt = cache.exempt
  <2>1. EndHold(cache) \in Migrations /\ EndHold(cache).exempt = cache.exempt
    BY <1>0, StatusHelpers
  <2>2. ASSUME NEW x \in Migrations
        PROVE  /\ [x EXCEPT !.job = 0, !.phase = "Suspended"] \in Migrations
               /\ [x EXCEPT !.job = 0, !.phase = "Suspended"].exempt = x.exempt
    BY DEF Migrations, Phases
  <2> QED BY <2>1, <2>2
<1>2. ApiInv' /\ PassInv'
  <2>1. Begin("patch", m)
    BY DEF SuspendPass
  <2> HIDE DEF m
  <2> QED BY <1>0, <1>1, <2>1, BeginInv
<1>3. GateTypeOK'
  BY DEF SuspendPass, GateTypeOK, IInv, WithoutProbe
<1>4. DOMAIN jobs' = DOMAIN jobs /\ \A n \in DOMAIN jobs : jobs'[n] \in JobStates
  BY DEF SuspendPass, IInv, WorkersInv, WorkersTypeOK, JobStates
<1>5. WorkersInv'
  BY <1>4 DEF SuspendPass, IInv, WorkersInv, WorkersTypeOK, BudgetRespected, apiVars
<1> QED BY <1>2, <1>3, <1>5

LEMMA PreflightPassInv ==
  ASSUME IInv, PreflightPass, UNCHANGED apiVars
  PROVE  ApiInv' /\ PassInv' /\ GateTypeOK' /\ UNCHANGED clusterVars
<1>0. cache \in Migrations /\ "patch" \in PassSteps
  BY DEF IInv, ApiInv, ApiTypeOK, PassSteps
<1>1. /\ [cache EXCEPT !.phase = "Validating"] \in Migrations
      /\ [cache EXCEPT !.phase = "Validating"].exempt = cache.exempt
  BY <1>0 DEF Migrations, Phases
<1>2. ApiInv' /\ PassInv'
  BY <1>0, <1>1, BeginInv, StatusHelpers DEF PreflightPass
<1>3. GateTypeOK' /\ UNCHANGED clusterVars
  BY DEF PreflightPass, GateTypeOK, IInv
<1> QED BY <1>2, <1>3

LEMMA HandleFailedJobInv ==
  ASSUME IInv, HandleFailedJob, UNCHANGED apiVars
  PROVE  ApiInv' /\ PassInv' /\ GateTypeOK' /\ UNCHANGED clusterVars
<1>0. cache \in Migrations /\ "patch" \in PassSteps /\ SetHold(cache) \in Migrations
      /\ SetHold(cache).exempt = cache.exempt
  BY StatusHelpers DEF IInv, ApiInv, ApiTypeOK, PassSteps
<1> DEFINE failing == [cache EXCEPT !.cond.clone = "CloneFailed"]
           held(c) == [SetHold(cache) EXCEPT
                         !.job = 0, !.gate = [attempt |-> cache.attempts, verdict |-> ""],
                         !.cond.clone = IF c = "lost" THEN "SnapshotLost" ELSE @]
<1>1. Fail(failing) \in Migrations /\ Fail(failing).exempt = cache.exempt
  <2>1. failing \in Migrations /\ failing.exempt = cache.exempt
    BY <1>0, CloneType DEF CloneStates
  <2> HIDE DEF failing
  <2> QED BY <2>1, StatusHelpers
<1>2. ASSUME NEW c PROVE held(c) \in Migrations /\ held(c).exempt = cache.exempt
  <2>1. [attempt |-> cache.attempts, verdict |-> ""] \in Gates
    BY <1>0 DEF Migrations, Gates, Verdicts
  <2> QED BY <1>0, <2>1 DEF Migrations, Conditions, CloneStates
<1>3. PICK c : Begin("patch", Fail(failing)) \/ Begin("patch", held(c))
  BY DEF HandleFailedJob
<1> HIDE DEF failing, held
<1>4. ApiInv' /\ PassInv'
  BY <1>0, <1>1, <1>2, <1>3, BeginInv
<1>5. GateTypeOK' /\ UNCHANGED clusterVars
  BY DEF HandleFailedJob, GateTypeOK, IInv, jobVars, gateVars
<1> QED BY <1>4, <1>5

LEMMA ObserveRunningJobInv ==
  ASSUME IInv, ObserveRunningJob, UNCHANGED apiVars
  PROVE  ApiInv' /\ PassInv' /\ GateTypeOK' /\ UNCHANGED clusterVars
<1> DEFINE m(c) == [EndHold(cache) EXCEPT !.cond.clone = c]
<1>0. /\ cache \in Migrations /\ "observe" \in PassSteps
      /\ EndHold(cache) \in Migrations /\ EndHold(cache).exempt = cache.exempt
  BY StatusHelpers DEF IInv, ApiInv, ApiTypeOK, PassSteps
<1>1. PICK c \in CloneStates : Begin("observe", m(c))
  BY <1>0 DEF ObserveRunningJob, Migrations, Conditions, CloneStates
<1>2. m(c) \in Migrations /\ m(c).exempt = cache.exempt
  BY <1>0, CloneType
<1> HIDE DEF m
<1>3. ApiInv' /\ PassInv'
  BY <1>0, <1>1, <1>2, BeginInv
<1>4. GateTypeOK' /\ UNCHANGED clusterVars
  BY DEF ObserveRunningJob, GateTypeOK, IInv, jobVars, gateVars
<1> QED BY <1>3, <1>4

LEMMA ReconcileInv ==
  ASSUME IInv, Reconcile
  PROVE  IInv'
<1>0. UNCHANGED apiVars /\ UNCHANGED bounds
  BY DEF Reconcile
<1>1. BoundsTypeOK'
  BY <1>0 DEF IInv, BoundsTypeOK, bounds
<1>2. mig' \in Migrations /\ mig'.exempt >= mig.exempt
  BY <1>0 DEF IInv, ApiInv, ApiTypeOK, apiVars, Migrations
<1>3. CASE SuspendPass
  BY <1>0, <1>1, <1>3, SuspendPassInv DEF IInv
<1>4. CASE PreflightPass
  BY <1>0, <1>1, <1>2, <1>4, PreflightPassInv, WorkersKept DEF IInv
<1>5. CASE NextAttempt \/ WorkerSucceeded
  <2>1. FinishClone \/ StartAttempt
    BY <1>5 DEF NextAttempt, WorkerSucceeded
  <2> QED BY <1>0, <1>1, <1>2, <2>1, FinishCloneInv, StartAttemptInv, WorkersKept DEF IInv
<1>6. CASE HandleFailedJob
  BY <1>0, <1>1, <1>2, <1>6, HandleFailedJobInv, WorkersKept DEF IInv
<1>7. CASE ObserveRunningJob
  BY <1>0, <1>1, <1>2, <1>7, ObserveRunningJobInv, WorkersKept DEF IInv
<1> QED BY <1>3, <1>4, <1>5, <1>6, <1>7 DEF Reconcile

\* A locked patch moves the server's refunds by what the pass added and no more.
LEMMA LockedPatchInv ==
  ASSUME IInv, NEW m \in Migrations, m.exempt >= pass.m.exempt, NEW step \in PassSteps \ {"decide"},
         step = "create" => m.attempts - m.exempt < BackoffLimit + 1, LockedPatch(m, step)
  PROVE  ApiInv' /\ PassInv' /\ mig' \in Migrations /\ mig'.exempt >= mig.exempt
<1>0. /\ pass \in Passes /\ pass.base \in Migrations /\ pass.m.exempt = pass.base.exempt
      /\ mig \in Migrations /\ mig.exempt \in Nat /\ m.exempt \in Nat
  BY DEF IInv, PassInv, Passes, ApiInv, ApiTypeOK, Migrations
<1>1. CASE pass.current
  <2> DEFINE new == Merge(mig, pass.base, m)
  <2>1. new \in Migrations /\ new.exempt = IF m.exempt = pass.base.exempt THEN mig.exempt ELSE m.exempt
    BY <1>0, MergeType
  <2>2. new.exempt = m.exempt /\ new.exempt >= mig.exempt
    BY <1>0, <1>1, <2>1 DEF IInv, PassInv
  <2>3. Store(new)
    BY <1>1 DEF LockedPatch
  <2> HIDE DEF new
  <2>4. ApiInv' /\ mig' = new
    BY <2>1, <2>2, <2>3, StoreInv DEF IInv
  <2>5. CASE step = "idle"
    BY <1>1, <2>1, <2>2, <2>4, <2>5, EndOfPass DEF LockedPatch
  <2>6. CASE step # "idle"
    <3>1. pass' = [pass EXCEPT !.step = step, !.m = m, !.base = m]
      BY <1>1, <2>6 DEF LockedPatch
    <3>2. /\ pass' \in Passes /\ pass'.m = m /\ pass'.base = m /\ pass'.step = step
      BY <1>0, <3>1 DEF Passes
    <3> QED BY <1>0, <2>1, <2>2, <2>4, <3>2 DEF PassInv
  <2> QED BY <2>1, <2>2, <2>4, <2>5, <2>6
<1>2. CASE ~pass.current
  <2>1. pass' = Idle /\ UNCHANGED apiVars
    BY <1>2 DEF LockedPatch
  <2>2. ApiInv' /\ mig' = mig
    BY <2>1 DEF IInv, ApiInv, ApiTypeOK, apiVars
  <2> QED BY <1>0, <2>1, <2>2, EndOfPass
<1> QED BY <1>1, <1>2

\* The unlocked writes of a pass leave the refunds alone.
LEMMA MergePatchInv ==
  ASSUME IInv, NEW m \in Migrations, m.exempt = pass.m.exempt,
         Store(Merge(mig, pass.base, m))
  PROVE  ApiInv' /\ mig' \in Migrations /\ mig'.exempt = mig.exempt
<1>1. /\ pass.base \in Migrations /\ pass.m.exempt = pass.base.exempt
      /\ mig \in Migrations /\ mig.exempt \in Nat
  BY DEF IInv, PassInv, Passes, ApiInv, ApiTypeOK, Migrations
<1>2. Merge(mig, pass.base, m) \in Migrations /\ Merge(mig, pass.base, m).exempt = mig.exempt
  BY <1>1, MergeType
<1> QED BY <1>1, <1>2, StoreInv DEF IInv

LEMMA UpdateStatusInv ==
  ASSUME IInv, UpdateStatus
  PROVE  IInv'
<1>0. pass.m \in Migrations
  BY DEF IInv, PassInv, Passes
<1>1. ApiInv' /\ mig' \in Migrations /\ mig'.exempt = mig.exempt
  BY <1>0, MergePatchInv DEF UpdateStatus
<1>2. mig.exempt \in Nat
  BY DEF IInv, ApiInv, ApiTypeOK, Migrations
<1>3. PassInv'
  <2>1. CASE pass.step = "patch"
    BY <1>1, <2>1, EndOfPass DEF UpdateStatus
  <2>2. CASE pass.step = "observe"
    <3>1. pass' = [pass EXCEPT !.step = "strays"]
      BY <2>2 DEF UpdateStatus
    <3>2. /\ pass' \in Passes /\ pass'.step = "strays" /\ pass'.m = pass.m
          /\ pass'.base = pass.base /\ pass'.current = pass.current
      BY <3>1 DEF IInv, PassInv, Passes, PassSteps
    <3> QED BY <1>1, <3>2 DEF IInv, PassInv
  <2> QED BY <2>1, <2>2 DEF UpdateStatus
<1>4. WorkersInv'
  BY <1>1, <1>2, WorkersKept DEF UpdateStatus, jobVars
<1>5. GateTypeOK' /\ BoundsTypeOK'
  BY DEF UpdateStatus, IInv, GateTypeOK, BoundsTypeOK, jobVars, gateVars, bounds
<1> QED BY <1>1, <1>3, <1>4, <1>5 DEF IInv

LEMMA DecideInv ==
  ASSUME IInv, Decide
  PROVE  IInv'
<1> DEFINE m == [pass.m EXCEPT !.gate.verdict = pass.verdict,
                               !.exempt = IF pass.verdict = "Exempt" THEN @ + 1 ELSE @]
<1>0. pass.m \in Migrations /\ pass.m.exempt \in Nat /\ pass.verdict \in Verdicts
      /\ pass.then \in PassSteps /\ "idle" \in PassSteps
  BY DEF IInv, PassInv, Passes, Migrations, PassSteps
<1>1. m \in Migrations /\ m.exempt \in Nat /\ m.exempt >= pass.m.exempt
  <2> DEFINE gate == [pass.m.gate EXCEPT !.verdict = pass.verdict]
             exempt == IF pass.verdict = "Exempt" THEN pass.m.exempt + 1 ELSE pass.m.exempt
  <2>1. gate \in Gates
    BY <1>0 DEF Migrations, Gates
  <2>2. exempt \in Nat /\ exempt >= pass.m.exempt
    BY <1>0
  <2>3. m = [pass.m EXCEPT !.gate = gate, !.exempt = exempt]
    OBVIOUS
  <2> HIDE DEF gate, exempt, m
  <2> QED BY <1>0, <2>1, <2>2, <2>3 DEF Migrations
<1>2. LockedPatch(FailBudget(m), "idle") \/ LockedPatch(m, pass.then)
  BY DEF Decide
<1> HIDE DEF m
<1>3. pass.then \in {"pods", "judged"}
  BY DEF Decide, IInv, PassInv
<1>4. FailBudget(m) \in Migrations /\ FailBudget(m).exempt = m.exempt
  BY <1>1, StatusHelpers
<1>7. ApiInv' /\ PassInv' /\ mig' \in Migrations /\ mig'.exempt >= mig.exempt
  <2>1. CASE LockedPatch(FailBudget(m), "idle")
    BY <1>0, <1>1, <1>4, <2>1, LockedPatchInv
  <2>2. CASE LockedPatch(m, pass.then)
    BY <1>0, <1>1, <1>3, <2>2, LockedPatchInv
  <2> QED BY <1>2, <2>1, <2>2
<1>8. WorkersInv'
  BY <1>7, WorkersKept DEF Decide, jobVars
<1>9. GateTypeOK' /\ BoundsTypeOK'
  BY DEF Decide, IInv, GateTypeOK, BoundsTypeOK, jobVars, gateVars, bounds
<1> QED BY <1>7, <1>8, <1>9 DEF IInv

LEMMA RetryGateInv ==
  ASSUME IInv, RetryGate
  PROVE  IInv'
<1> DEFINE Decided(p) == [pass EXCEPT !.step = "decide", !.then = "judged",
                             !.verdict = IF p.state = "exempt" THEN "Exempt" ELSE "Counted"]
<1>0. /\ pass.m \in Migrations /\ mig \in Migrations /\ mig.exempt \in Nat
      /\ UNCHANGED apiVars /\ UNCHANGED clusterVars /\ UNCHANGED bounds
  BY DEF IInv, PassInv, Passes, ApiInv, ApiTypeOK, Migrations, RetryGate
<1>1. /\ SetHold(pass.m) \in Migrations /\ SetHold(pass.m).exempt = pass.m.exempt
      /\ {"patch", "settle", "judged"} \subseteq PassSteps \ {"create", "decide"}
  BY <1>0, StatusHelpers DEF PassSteps
<1>2. \/ \E step \in {"patch", "settle", "judged"} :
           \E m \in {pass.m, SetHold(pass.m)} : GoOn(step, m)
      \/ \E p \in probes : pass' = Decided(p)
  BY DEF RetryGate, Hold
<1>3. ApiInv' /\ PassInv'
  <2>1. CASE \E step \in {"patch", "settle", "judged"} :
               \E m \in {pass.m, SetHold(pass.m)} : GoOn(step, m)
    BY <1>0, <1>1, <2>1, GoOnInv
  <2>2. ASSUME NEW p \in probes, pass' = Decided(p)
        PROVE  ApiInv' /\ PassInv'
    <3>1. /\ pass' \in Passes /\ pass'.m = pass.m /\ pass'.base = pass.base
          /\ pass'.current = pass.current /\ pass'.step = "decide" /\ pass'.then = "judged"
      BY <2>2 DEF IInv, PassInv, Passes, PassSteps, Verdicts
    <3>2. ApiInv' /\ mig' = mig
      BY <1>0 DEF IInv, ApiInv, ApiTypeOK, apiVars
    <3> QED BY <3>1, <3>2 DEF IInv, PassInv
  <2> HIDE DEF Decided
  <2> QED BY <1>2, <2>1, <2>2
<1>4. probes' \subseteq Probes
  <2>1. [attempt |-> pass.m.attempts + 1, local |-> pass.m.local, state |-> "running",
         stale |-> FALSE] \in Probes
    BY <1>0 DEF Migrations, Probes, ProbeStates
  <2>2. probes \subseteq Probes /\ \A n : WithoutProbe(n) \subseteq Probes
    BY DEF IInv, GateTypeOK, WithoutProbe
  <2> QED BY <2>1, <2>2 DEF RetryGate
<1>5. GateTypeOK' /\ BoundsTypeOK'
  BY <1>4 DEF RetryGate, IInv, GateTypeOK, BoundsTypeOK, bounds
<1>6. WorkersInv'
  BY <1>0, WorkersKept DEF apiVars
<1> QED BY <1>3, <1>5, <1>6 DEF IInv

LEMMA JudgeProbeInv ==
  ASSUME IInv, JudgeProbe
  PROVE  IInv'
<1>0. /\ pass.m \in Migrations /\ mig \in Migrations /\ mig.exempt \in Nat
      /\ UNCHANGED <<apiVars, clusterVars, bounds>>
  BY DEF IInv, PassInv, Passes, ApiInv, ApiTypeOK, Migrations, JudgeProbe
<1>1. ApiInv' /\ PassInv'
  <2>1. SetHold(pass.m) \in Migrations /\ SetHold(pass.m).exempt = pass.m.exempt
    BY <1>0, StatusHelpers
  <2> QED BY <1>0, <2>1, GoOnInv DEF JudgeProbe, Hold, PassSteps
<1>2. GateTypeOK' /\ BoundsTypeOK'
  BY DEF JudgeProbe, IInv, GateTypeOK, BoundsTypeOK, bounds
<1>3. WorkersInv'
  BY <1>0, WorkersKept DEF apiVars
<1> QED BY <1>1, <1>2, <1>3 DEF IInv

LEMMA SettleBudgetInv ==
  ASSUME IInv, SettleBudget
  PROVE  IInv'
<1> DEFINE m == [pass.m EXCEPT !.gate.verdict = IF Undecided(pass.m) THEN "Counted" ELSE @]
<1>0. /\ pass.m \in Migrations /\ pass.m.exempt \in Nat /\ BackoffLimit \in Nat
      /\ {"idle", "create"} \subseteq PassSteps \ {"decide"}
  BY BackoffAssumption DEF IInv, PassInv, Passes, Migrations, PassSteps
<1>1. m \in Migrations /\ m.exempt = pass.m.exempt
  <2> DEFINE verdict == IF Undecided(pass.m) THEN "Counted" ELSE pass.m.gate.verdict
             gate == [pass.m.gate EXCEPT !.verdict = verdict]
  <2>1. gate \in Gates
    BY <1>0 DEF Migrations, Gates, Verdicts
  <2>2. m = [pass.m EXCEPT !.gate = gate]
    OBVIOUS
  <2> HIDE DEF gate, m
  <2> QED BY <1>0, <2>1, <2>2 DEF Migrations
<1>2. \/ BudgetSpent(m) /\ LockedPatch(FailBudget(m), "idle")
      \/ ~BudgetSpent(m) /\ LockedPatch(m, "create")
  BY DEF SettleBudget
<1> HIDE DEF m
<1>3. FailBudget(m) \in Migrations /\ FailBudget(m).exempt = m.exempt
      /\ m.attempts \in Int /\ m.exempt \in Int
  BY <1>1, StatusHelpers DEF Migrations
<1>4. ApiInv' /\ PassInv' /\ mig' \in Migrations /\ mig'.exempt >= mig.exempt
  <2>1. CASE BudgetSpent(m) /\ LockedPatch(FailBudget(m), "idle")
    BY <1>0, <1>1, <1>3, <2>1, LockedPatchInv
  <2>2. CASE ~BudgetSpent(m) /\ LockedPatch(m, "create")
    <3>1. m.attempts - m.exempt < BackoffLimit + 1
      BY <1>0, <1>3, <2>2 DEF BudgetSpent
    <3> QED BY <1>0, <1>1, <2>2, <3>1, LockedPatchInv
  <2> QED BY <1>2, <2>1, <2>2
<1>5. GateTypeOK' /\ BoundsTypeOK' /\ WorkersInv'
  BY <1>4, WorkersKept
     DEF SettleBudget, IInv, GateTypeOK, BoundsTypeOK, jobVars, gateVars, bounds
<1> QED BY <1>4, <1>5 DEF IInv

\* The step BudgetRespected is about: the pass checked the budget on its own copy,
\* whose refunds are no more than the server's.
LEMMA CreateWorkerInv ==
  ASSUME IInv, CreateWorker
  PROVE  IInv'
<1> DEFINE attempt == pass.m.attempts + 1
<1>0. /\ pass.m \in Migrations /\ pass.m.attempts \in Nat /\ pass.m.exempt \in Nat
      /\ mig \in Migrations /\ mig.exempt \in Nat /\ BackoffLimit \in Nat
      /\ UNCHANGED <<apiVars, gateVars, bounds>>
  BY BackoffAssumption
     DEF IInv, PassInv, Passes, ApiInv, ApiTypeOK, Migrations, CreateWorker
<1>1. ApiInv' /\ PassInv'
  BY <1>0, GoOnInv DEF CreateWorker, PassSteps
<1>2. attempt \in Nat /\ attempt - mig.exempt <= BackoffLimit + 1
  <2>1. pass.m.exempt <= mig.exempt /\ pass.m.attempts - pass.m.exempt < BackoffLimit + 1
    BY DEF CreateWorker, IInv, PassInv
  <2> QED BY <1>0, <2>1
<1>3. WorkersInv'
  <2>1. CASE Exists(attempt)
    BY <1>0, <2>1, WorkersKept DEF CreateWorker, apiVars
  <2>2. CASE ~Exists(attempt)
    <3> HIDE DEF attempt
    <3>1. /\ jobs' = [n \in DOMAIN jobs \cup {attempt} |-> IF n = attempt THEN "running" ELSE jobs[n]]
          /\ pods' = pods \cup {attempt} /\ unseen' \subseteq unseen \cup {attempt}
          /\ UNCHANGED <<orphans, failures, overdue>>
      BY <2>2 DEF CreateWorker, attempt
    <3>2. WorkersTypeOK'
      BY <1>2, <3>1 DEF IInv, WorkersInv, WorkersTypeOK, JobStates
    <3>3. BudgetRespected'
      BY <1>0, <1>2, <3>1 DEF IInv, WorkersInv, BudgetRespected, apiVars
    <3> QED BY <3>2, <3>3 DEF WorkersInv
  <2> QED BY <2>1, <2>2
<1>4. GateTypeOK' /\ BoundsTypeOK'
  BY <1>0 DEF IInv, GateTypeOK, BoundsTypeOK, gateVars, bounds
<1> QED BY <1>1, <1>3, <1>4 DEF IInv

LEMMA RecordAttemptInv ==
  ASSUME IInv, RecordAttempt
  PROVE  IInv'
<1> DEFINE m == Recorded(pass.m)
<1>0. m \in Migrations /\ m.exempt = pass.m.exempt /\ mig.exempt \in Nat
  BY StatusHelpers DEF IInv, PassInv, Passes, ApiInv, ApiTypeOK, Migrations
<1>1. Store(Merge(mig, pass.base, m)) /\ (GoOn("drop", m) \/ pass' = Idle)
  BY DEF RecordAttempt
<1> HIDE DEF m
<1>2. ApiInv' /\ mig' \in Migrations /\ mig'.exempt = mig.exempt
  BY <1>0, <1>1, MergePatchInv
<1>3. PassInv'
  <2>1. CASE pass' = Idle
    BY <1>2, <2>1, EndOfPass
  <2>2. CASE GoOn("drop", m)
    <3>1. /\ pass' \in Passes /\ pass'.step = "drop" /\ pass'.m = m
          /\ pass'.base = pass.base /\ pass'.current = pass.current
      BY <1>0, <2>2 DEF GoOn, IInv, PassInv, Passes, PassSteps
    <3> QED BY <1>0, <1>2, <3>1 DEF IInv, PassInv
  <2> QED BY <1>1, <2>1, <2>2
<1>4. GateTypeOK' /\ BoundsTypeOK' /\ WorkersInv'
  BY <1>0, <1>2, WorkersKept
     DEF RecordAttempt, IInv, GateTypeOK, BoundsTypeOK, jobVars, gateVars, bounds
<1> QED BY <1>2, <1>3, <1>4 DEF IInv

\* Deleting probes, at the end of an observing pass or of a recorded attempt.
LEMMA DropProbesInv ==
  ASSUME IInv, DeleteStrayProbes \/ DropProbe
  PROVE  IInv'
<1>0. /\ pass' = Idle /\ UNCHANGED apiVars /\ UNCHANGED clusterVars /\ UNCHANGED bounds
      /\ probes' \subseteq probes /\ UNCHANGED <<preflight, finish>>
  BY DEF DeleteStrayProbes, DropProbe, WithoutProbe
<1>1. ApiInv' /\ mig' = mig /\ mig \in Migrations /\ mig.exempt \in Nat
  BY <1>0 DEF IInv, ApiInv, ApiTypeOK, apiVars, Migrations
<1>2. PassInv' /\ WorkersInv'
  BY <1>0, <1>1, EndOfPass, WorkersKept
<1>3. GateTypeOK' /\ BoundsTypeOK'
  BY <1>0 DEF IInv, GateTypeOK, BoundsTypeOK, bounds
<1> QED BY <1>1, <1>2, <1>3 DEF IInv

LEMMA AbortInv ==
  ASSUME IInv, Abort
  PROVE  IInv'
<1>0. pass' = Idle /\ UNCHANGED apiVars /\ UNCHANGED jobVars
  BY DEF Abort
<1>1. ApiInv' /\ mig' = mig /\ mig \in Migrations /\ mig.exempt \in Nat
  BY <1>0 DEF IInv, ApiInv, ApiTypeOK, apiVars, Migrations
<1>2. PassInv' /\ WorkersInv'
  BY <1>0, <1>1, EndOfPass, WorkersKept DEF jobVars
<1>3. GateTypeOK' /\ BoundsTypeOK'
  BY <1>0 DEF Abort, IInv, GateTypeOK, BoundsTypeOK, jobVars, gateVars
<1> QED BY <1>1, <1>2, <1>3 DEF IInv

LEMMA CacheSyncInv ==
  ASSUME IInv, CacheSync
  PROVE  IInv'
<1>0. mig \in Migrations /\ mig.exempt \in Nat /\ UNCHANGED jobVars /\ UNCHANGED bounds
  BY DEF CacheSync, IInv, ApiInv, ApiTypeOK, Migrations
<1>1. ApiInv' /\ PassInv'
  BY <1>0 DEF CacheSync, IInv, ApiInv, ApiTypeOK, PassInv
<1>2. WorkersInv'
  BY <1>0, WorkersKept DEF CacheSync, jobVars
<1>3. GateTypeOK' /\ BoundsTypeOK'
  BY <1>0 DEF IInv, GateTypeOK, BoundsTypeOK, jobVars, gateVars, bounds
<1> QED BY <1>1, <1>2, <1>3 DEF IInv

\* A user's edit makes every copy stale and touches no refund.
LEMMA EditSpecInv ==
  ASSUME IInv, EditSpec
  PROVE  IInv'
<1>0. mig' \in Migrations /\ mig'.exempt = mig.exempt /\ mig.exempt \in Nat
  BY DEF EditSpec, IInv, ApiInv, ApiTypeOK, Migrations
<1>1. ApiInv'
  BY <1>0 DEF EditSpec, IInv, ApiInv, ApiTypeOK
<1>2. PassInv'
  <2>1. /\ pass' \in Passes /\ pass'.m = pass.m /\ pass'.base = pass.base
        /\ pass'.step = pass.step /\ pass'.then = pass.then /\ ~pass'.current
    BY DEF EditSpec, IInv, PassInv, Passes
  <2> QED BY <1>0, <2>1 DEF IInv, PassInv
<1>3. WorkersInv'
  BY <1>0, WorkersKept DEF EditSpec, jobVars
<1>4. GateTypeOK' /\ BoundsTypeOK'
  BY DEF EditSpec, IInv, GateTypeOK, BoundsTypeOK, jobVars, gateVars
<1> QED BY <1>1, <1>2, <1>3, <1>4 DEF IInv

\* Workers, pods, probes, informers and time: nothing of the API server or a pass.
LEMMA ClusterInv ==
  ASSUME IInv, Cluster \/ JobSync
  PROVE  IInv'
<1>0. UNCHANGED <<apiVars, pass, edits, aborts>>
  BY DEF Cluster, JobSync, PreflightFinishes, FinishMoves, ProbeFinishes, ProbeAges, ProbeCollected,
         DeadlinePasses, OrphanEnds, WorkerExits, PodEnds, JobCollected, JobVanishes, bounds
<1>1. ApiInv' /\ PassInv' /\ BoundsTypeOK'
  <2>1. vanishes' \in {vanishes, vanishes + 1}
    BY DEF Cluster, JobSync, PreflightFinishes, FinishMoves, ProbeFinishes, ProbeAges, ProbeCollected,
           DeadlinePasses, OrphanEnds, WorkerExits, PodEnds, JobCollected, JobVanishes, bounds
  <2> QED BY <1>0, <2>1 DEF IInv, ApiInv, ApiTypeOK, PassInv, BoundsTypeOK, apiVars
<1>2. /\ DOMAIN jobs' = DOMAIN jobs /\ \A n \in DOMAIN jobs : jobs'[n] \in JobStates
      /\ pods' \subseteq pods /\ unseen' \subseteq unseen /\ orphans' \subseteq Orphans
      /\ failures' \subseteq DOMAIN jobs /\ overdue' \subseteq failures'
  <2> USE DEF IInv, WorkersInv, WorkersTypeOK, JobStates, Failed
  <2>1. CASE JobSync \/ DeadlinePasses \/ OrphanEnds
    BY <2>1 DEF JobSync, DeadlinePasses, OrphanEnds
  <2>2. CASE PreflightFinishes \/ FinishMoves \/ ProbeFinishes \/ ProbeAges \/ ProbeCollected
    BY <2>2 DEF PreflightFinishes, FinishMoves, ProbeFinishes, ProbeAges, ProbeCollected,
                clusterVars
  <2>3. ASSUME NEW n \in DOMAIN jobs, WorkerExits(n)
        PROVE  <1>2!:
    <3>1. PICK end \in {"ok"} \cup Failed :
             /\ jobs' = [jobs EXCEPT ![n] = end]
             /\ failures' = IF end \in Failed THEN failures \cup {n} ELSE failures
      BY <2>3 DEF WorkerExits
    <3> QED BY <2>3, <3>1 DEF WorkerExits
  <2>4. ASSUME NEW n \in DOMAIN jobs, PodEnds(n) \/ JobCollected(n)
        PROVE  <1>2!:
    BY <2>4 DEF PodEnds, JobCollected
  <2>5. ASSUME NEW n \in DOMAIN jobs, JobVanishes(n)
        PROVE  <1>2!:
    <3>1. n \in Nat /\ vanishes \in Nat /\ Known(n) \in BOOLEAN
      BY DEF BoundsTypeOK, Known
    <3>2. orphans' \subseteq Orphans
      BY <2>5, <3>1 DEF JobVanishes, Orphans
    <3> QED BY <2>5, <3>2 DEF JobVanishes
  <2> QED BY <2>1, <2>2, <2>3, <2>4, <2>5 DEF Cluster
<1>3. WorkersInv'
  BY <1>0, <1>2 DEF IInv, WorkersInv, WorkersTypeOK, BudgetRespected, apiVars
<1>4. GateTypeOK'
  <2> USE DEF IInv, GateTypeOK, Probes, ProbeStates
  <2>1. CASE JobSync
    BY <2>1 DEF JobSync, gateVars
  <2>2. CASE PreflightFinishes \/ FinishMoves \/ DeadlinePasses \/ OrphanEnds
    BY <2>2 DEF PreflightFinishes, FinishMoves, DeadlinePasses, OrphanEnds, gateVars
  <2>3. CASE ProbeFinishes
    BY <2>3 DEF ProbeFinishes
  <2>4. CASE ProbeAges \/ ProbeCollected
    BY <2>4 DEF ProbeAges, ProbeCollected
  <2>5. ASSUME NEW n, WorkerExits(n) \/ PodEnds(n) \/ JobCollected(n) \/ JobVanishes(n)
        PROVE  GateTypeOK'
    BY <2>5 DEF WorkerExits, PodEnds, JobCollected, JobVanishes, gateVars
  <2> QED BY <2>1, <2>2, <2>3, <2>4, <2>5 DEF Cluster
<1> QED BY <1>1, <1>3, <1>4 DEF IInv

LEMMA NextInv ==
  ASSUME IInv, [Next]_vars
  PROVE  IInv'
<1>1. CASE Reconcile
  BY <1>1, ReconcileInv
<1>2. CASE PassStep
  BY <1>2, UpdateStatusInv, DropProbesInv, DecideInv, RetryGateInv, JudgeProbeInv,
     SettleBudgetInv, CreateWorkerInv, RecordAttemptInv DEF PassStep
<1>3. CASE Abort \/ CacheSync \/ EditSpec
  BY <1>3, AbortInv, CacheSyncInv, EditSpecInv
<1>4. CASE JobSync \/ Cluster
  BY <1>4, ClusterInv
<1>5. CASE UNCHANGED vars
  BY <1>5 DEF vars, apiVars, jobVars, clusterVars, gateVars, bounds, IInv, ApiInv, ApiTypeOK,
              PassInv, WorkersInv, WorkersTypeOK, BudgetRespected, GateTypeOK, BoundsTypeOK
<1> QED BY <1>1, <1>2, <1>3, <1>4, <1>5 DEF Next

-----------------------------------------------------------------------------
(* The theorems. *)

THEOREM Inductive == Spec => []IInv
<1>1. Init => IInv
  BY InitInv
<1>2. IInv /\ [Next]_vars => IInv'
  BY NextInv
<1> QED BY <1>1, <1>2, PTL DEF Spec

\* Every variable keeps its type: the Migration's status holds only values the API
\* accepts, whatever interleaving of passes, crashes, edits and Jobs led there.
THEOREM TypeCorrect == Spec => []TypeOK
<1>1. IInv => TypeOK
  BY DEF IInv, ApiInv, PassInv, WorkersInv, TypeOK
<1> QED BY <1>1, Inductive, PTL

\* For every backoffLimit and however long the run, no attempt is created beyond
\* backoffLimit + 1 counted ones (budgetSpent, settleBudget, startAttempt).
THEOREM BudgetSafe == Spec => []BudgetRespected
<1>1. IInv => BudgetRespected
  BY DEF IInv, WorkersInv
<1> QED BY <1>1, Inductive, PTL

=============================================================================
