---------------------------- MODULE ClonePathProofs ----------------------------
(***************************************************************************)
(* Proofs about CloneFinish.tla after its preflight, for every set of      *)
(* specs and every bound: the types of its variables, that compares run    *)
(* alone, and that every step is one that CloneContract allows.            *)
(*                                                                         *)
(* The argument.  A Migration that copies is handed from the preflight to  *)
(* its workers, one after the other, and from the last of them to the      *)
(* handover.  Each turn is decided on what the caches show, so the         *)
(* invariant says for each what its trace in the caches and in the status  *)
(* excludes: a recorded attempt, the preflight; a handover Job or a        *)
(* confirmed copy, a worker; a verdict, whatever could still start.        *)
(***************************************************************************)
EXTENDS CloneFinishProofs

(* The inductive invariant. *)

Handover == jobs["handover"]
SeenHandover == seen.jobs["handover"]

\* What the cache shows as finished has ended so, or is gone.
SeenInv ==
  /\ \A n \in Attempts : Finished(seen.workers[n]) => workers[n] \in {seen.workers[n], "none"}
  /\ \A name \in {"preflight", "handover"} :
       Finished(seen.jobs[name]) => jobs[name] \in {seen.jobs[name], "none"}
  /\ Finished(jobs["catalog"]) \/ Finished(seen.jobs["catalog"]) => counted # "none"

\* Workers are numbered one after the other.  The next one may run unrecorded, which it
\* does only when the recorded one is gone; the ones before are not live.
WorkerInv ==
  /\ mig.job \in {0, mig.attempts}
  /\ \A n \in Attempts : n > mig.attempts + 1 => workers[n] = "none" /\ seen.workers[n] = "none"
  /\ \A n \in Attempts : n = mig.attempts + 1 /\ (workers[n] # "none" \/ seen.workers[n] # "none") =>
       /\ mig.attempts # 0
       /\ mig.job # 0 => workers[mig.job] = "none" /\ seen.workers[mig.job] = "none"
  /\ \A n \in Attempts : n < mig.attempts => ~WorkerLive(n)
  /\ \A n \in Attempts : n = mig.attempts + 1 /\ workers[n] # "none" /\ mig.attempts # 0 =>
       ~WorkerLive(mig.attempts)

\* Only the first attempt has a preflight before it, and only its Job has a pod that is
\* not a stray.
GateInv ==
  /\ script.state = "live" => jobs["preflight"] = "running"
  /\ mig.attempts # 0 => script.state # "live" /\ jobs["preflight"] # "running"

\* The copy is confirmed, as the status or the handover Job says it.
Confirmed == Handover # "none" \/ mig.cond.cloned

CopyInv ==
  /\ Confirmed =>
       /\ mig.attempts # 0 /\ \A n \in Attempts : ~WorkerLive(n)
       /\ mig.job # 0 => workers[mig.job] \in {"ok", "none"} /\ seen.workers[mig.job] \in {"ok", "none"}
       /\ ~Asked("allDatabases") => whole /\ counted = "whole"
  /\ counted # "nothing" /\ (counted = "whole" => whole)
  /\ Asked("dryRun") => mig.attempts = 0
  /\ Asked("follow") =>
       ~Confirmed /\ \A n \in Attempts : workers[n] # "ok" /\ seen.workers[n] # "ok"

HandoverInv ==
  /\ Handover # "none" => Asked("owner")
  /\ handover.live => Handover \in {"running", "deleting"}
  /\ Handover = "ok" \/ SeenHandover = "ok" => NothingLeft

\* A handover Job that neither the cache nor the status knows of stands behind a worker
\* that the cache shows to have ended well.
UnseenInv ==
  Handover # "none" /\ SeenHandover = "none" /\ ~mig.cond.cloned =>
    \E n \in Attempts : seen.workers[n] = "ok" /\ (mig.job = n \/ workers[n] = "none")

VerdictInv ==
  Terminal(mig) => jobs["preflight"] # "running" /\ Handover # "running"

ContractInv ==
  SeenInv /\ WorkerInv /\ GateInv /\ CopyInv /\ HandoverInv /\ UnseenInv /\ VerdictInv

\* A compare stands behind a handover that is done, and a data compare behind the schema
\* compare, in the cache as on the server.
CompareInv ==
  /\ Finished(SeenHandover) => Handover = SeenHandover
  /\ \A c \in Compares : Finished(seen.jobs[c]) => jobs[c] = seen.jobs[c]
  /\ \A c \in Compares : jobs[c] # "none" =>
       Asked(c) /\ (Asked("owner") => Handover = "ok" /\ SeenHandover = "ok")
  /\ jobs["data"] # "none" /\ Asked("schema") =>
       Finished(jobs["schema"]) /\ Finished(seen.jobs["schema"])
  /\ Handover # "none" => Asked("owner")
  /\ handover.live => Handover \in {"running", "deleting"}

-----------------------------------------------------------------------------
(* Types. *)

\* A Migration as its fields, which the provers take apart.
LEMMA MigrationFields ==
  ASSUME NEW m \in Migrations
  PROVE  /\ m.suspend \in BOOLEAN /\ m.attempts \in 0..MaxAttempts /\ m.job \in 0..MaxAttempts
         /\ m.cond \in Conditions
         /\ m.cond.validated \in {"none", "running", "yes"} /\ m.cond.cloned \in BOOLEAN
         /\ m.cond.copying \in 0..MaxAttempts
         /\ m.cond.owner \in {"none", "running", "suspended", "yes", "no"}
         /\ m.cond.verified \in {"none", "running", "yes"} \cup Compares
         /\ m.cond.failed \in BOOLEAN /\ m.cond.complete \in BOOLEAN
  BY DEF Migrations, Conditions

\* What the invariant reads of a Migration.
Fields(m, attempts, job, cloned, failed, complete) ==
  /\ m \in Migrations /\ m.attempts = attempts /\ m.job = job
  /\ m.cond.cloned = cloned /\ m.cond.failed = failed /\ m.cond.complete = complete

LEMMA ConditionsReplaced ==
  ASSUME NEW m \in Migrations, NEW c \in Conditions
  PROVE  Fields([m EXCEPT !.cond = c], m.attempts, m.job, c.cloned, c.failed, c.complete)
  BY DEF Migrations, Fields

\* Every record that a pass makes from m.
LEMMA FailFields ==
  ASSUME NEW m \in Migrations
  PROVE  Fields(Fail(m), m.attempts, m.job, m.cond.cloned, TRUE, m.cond.complete)
<1> DEFINE c == [m.cond EXCEPT !.failed = TRUE]
<1>1. Fail(m) = [m EXCEPT !.cond = c]
  BY DEF Fail, Migrations
<1>2. c \in Conditions /\ c.cloned = m.cond.cloned /\ c.failed = TRUE /\ c.complete = m.cond.complete
  BY MigrationFields DEF Conditions
<1> HIDE DEF c
<1> QED BY <1>1, <1>2, ConditionsReplaced

LEMMA ValidatedFields ==
  ASSUME NEW m \in Migrations, NEW v \in {"none", "running", "yes"}
  PROVE  Fields([m EXCEPT !.cond.validated = v], m.attempts, m.job, m.cond.cloned, m.cond.failed, m.cond.complete)
<1> DEFINE c == [m.cond EXCEPT !.validated = v]
<1>1. [m EXCEPT !.cond.validated = v] = [m EXCEPT !.cond = c]
  BY DEF Migrations
<1>2. c \in Conditions /\ c.cloned = m.cond.cloned /\ c.failed = m.cond.failed /\ c.complete = m.cond.complete
  BY MigrationFields DEF Conditions
<1> HIDE DEF c
<1> QED BY <1>1, <1>2, ConditionsReplaced

LEMMA OwnerFields ==
  ASSUME NEW m \in Migrations, NEW o \in {"none", "running", "suspended", "yes", "no"}
  PROVE  Fields([m EXCEPT !.cond.owner = o], m.attempts, m.job, m.cond.cloned, m.cond.failed, m.cond.complete)
<1> DEFINE c == [m.cond EXCEPT !.owner = o]
<1>1. [m EXCEPT !.cond.owner = o] = [m EXCEPT !.cond = c]
  BY DEF Migrations
<1>2. c \in Conditions /\ c.cloned = m.cond.cloned /\ c.failed = m.cond.failed /\ c.complete = m.cond.complete
  BY MigrationFields DEF Conditions
<1> HIDE DEF c
<1> QED BY <1>1, <1>2, ConditionsReplaced

\* The handover's condition is none of those that the pass's outcome is told by.
LEMMA OwnerKeeps ==
  ASSUME NEW m, NEW attempts, NEW job, NEW cloned, NEW failed, NEW complete,
         Fields(m, attempts, job, cloned, failed, complete),
         NEW o \in {"none", "running", "suspended", "yes", "no"}
  PROVE  Fields([m EXCEPT !.cond.owner = o], attempts, job, cloned, failed, complete)
<1>1. /\ m \in Migrations /\ m.attempts = attempts /\ m.job = job
      /\ m.cond.cloned = cloned /\ m.cond.failed = failed /\ m.cond.complete = complete
  BY DEF Fields
<1>2. Fields([m EXCEPT !.cond.owner = o], m.attempts, m.job, m.cond.cloned, m.cond.failed, m.cond.complete)
  BY <1>1, OwnerFields
<1> QED BY <1>1, <1>2

LEMMA ClonedFields ==
  ASSUME NEW m \in Migrations
  PROVE  Fields([m EXCEPT !.cond.cloned = TRUE], m.attempts, m.job, TRUE, m.cond.failed, m.cond.complete)
<1> DEFINE c == [m.cond EXCEPT !.cloned = TRUE]
<1>1. [m EXCEPT !.cond.cloned = TRUE] = [m EXCEPT !.cond = c]
  BY DEF Migrations
<1>2. c \in Conditions /\ c.cloned = TRUE /\ c.failed = m.cond.failed /\ c.complete = m.cond.complete
  BY MigrationFields DEF Conditions
<1> HIDE DEF c
<1> QED BY <1>1, <1>2, ConditionsReplaced

LEMMA CompleteFields ==
  ASSUME NEW m \in Migrations
  PROVE  Fields([m EXCEPT !.cond.complete = TRUE], m.attempts, m.job, m.cond.cloned, m.cond.failed, TRUE)
<1> DEFINE c == [m.cond EXCEPT !.complete = TRUE]
<1>1. [m EXCEPT !.cond.complete = TRUE] = [m EXCEPT !.cond = c]
  BY DEF Migrations
<1>2. c \in Conditions /\ c.cloned = m.cond.cloned /\ c.failed = m.cond.failed /\ c.complete = TRUE
  BY MigrationFields DEF Conditions
<1> HIDE DEF c
<1> QED BY <1>1, <1>2, ConditionsReplaced

LEMMA VerifiedFields ==
  ASSUME NEW m \in Migrations, NEW v \in {"none", "running", "yes"} \cup Compares
  PROVE  Fields([m EXCEPT !.cond.verified = v], m.attempts, m.job, m.cond.cloned, m.cond.failed, m.cond.complete)
<1> DEFINE c == [m.cond EXCEPT !.verified = v]
<1>1. [m EXCEPT !.cond.verified = v] = [m EXCEPT !.cond = c]
  BY DEF Migrations
<1>2. c \in Conditions /\ c.cloned = m.cond.cloned /\ c.failed = m.cond.failed /\ c.complete = m.cond.complete
  BY MigrationFields DEF Conditions
<1> HIDE DEF c
<1> QED BY <1>1, <1>2, ConditionsReplaced

LEMMA JobFields ==
  ASSUME NEW m \in Migrations, NEW n \in 0..MaxAttempts
  PROVE  Fields([m EXCEPT !.job = n], m.attempts, n, m.cond.cloned, m.cond.failed, m.cond.complete)
  BY DEF Migrations, Fields

LEMMA AttemptFields ==
  ASSUME NEW m \in Migrations, NEW n \in 0..MaxAttempts, NEW copying \in 0..MaxAttempts
  PROVE  Fields([m EXCEPT !.attempts = n, !.job = n, !.cond.copying = copying],
                n, n, m.cond.cloned, m.cond.failed, m.cond.complete)
<1> DEFINE c == [m.cond EXCEPT !.copying = copying]
           r == [m EXCEPT !.attempts = n, !.job = n]
<1>1. [m EXCEPT !.attempts = n, !.job = n, !.cond.copying = copying] = [r EXCEPT !.cond = c]
  BY DEF Migrations
<1>2. c \in Conditions /\ c.cloned = m.cond.cloned /\ c.failed = m.cond.failed /\ c.complete = m.cond.complete
  BY MigrationFields DEF Conditions
<1>3. r \in Migrations /\ r.attempts = n /\ r.job = n
  BY DEF Migrations
<1> HIDE DEF c, r
<1> QED BY <1>1, <1>2, <1>3, ConditionsReplaced

-----------------------------------------------------------------------------
(* The status write. *)

LEMMA MergeFields ==
  ASSUME NEW cur \in Migrations, NEW base \in Migrations, NEW m \in Migrations
  PROVE  /\ Merge(cur, base, m) \in Migrations
         /\ Merge(cur, base, m).attempts = IF m.attempts = base.attempts THEN cur.attempts ELSE m.attempts
         /\ Merge(cur, base, m).job = IF m.job = base.job THEN cur.job ELSE m.job
         /\ Merge(cur, base, m).cond = IF m.cond = base.cond THEN cur.cond ELSE m.cond
<1> DEFINE s == IF m.suspend = base.suspend THEN cur.suspend ELSE m.suspend
           a == IF m.attempts = base.attempts THEN cur.attempts ELSE m.attempts
           j == IF m.job = base.job THEN cur.job ELSE m.job
           c == IF m.cond = base.cond THEN cur.cond ELSE m.cond
<1>1. DOMAIN cur = {"suspend", "attempts", "job", "cond"}
  BY DEF Migrations
<1>2. Merge(cur, base, m) = [suspend |-> s, attempts |-> a, job |-> j, cond |-> c]
  BY <1>1 DEF Merge
<1>3. s \in BOOLEAN /\ a \in 0..MaxAttempts /\ j \in 0..MaxAttempts /\ c \in Conditions
  BY MigrationFields
<1> HIDE DEF s, a, j, c
<1>4. [suspend |-> s, attempts |-> a, job |-> j, cond |-> c] \in Migrations
  BY <1>3 DEF Migrations
<1>5. Merge(cur, base, m).attempts = a /\ Merge(cur, base, m).job = j /\ Merge(cur, base, m).cond = c
  BY <1>2
<1> QED BY <1>2, <1>4, <1>5 DEF a, j, c

LEMMA UpdateTyped ==
  ASSUME mig \in Migrations, cache \in Migrations, mishaps \in 0..MaxMishaps,
         NEW m \in Migrations, UpdateStatus(m)
  PROVE  mig' \in Migrations /\ mishaps' \in 0..MaxMishaps
BY MergeFields, CloneBounds DEF UpdateStatus

\* A pass that has read what the last one wrote.
Fresh ==
  /\ mig \in Migrations /\ cache \in Migrations /\ mishaps \in 0..MaxMishaps
  /\ cache.attempts = mig.attempts /\ cache.job = mig.job /\ cache.cond = mig.cond

Wrote(attempts, job, cloned, failed, complete) ==
  \/ Fields(mig', attempts, job, cloned, failed, complete)
  \/ mig' = mig /\ mishaps' # mishaps

LEMMA Updated ==
  ASSUME Fresh, NEW m, NEW n, NEW j, NEW cl, NEW f, NEW co,
         UpdateStatus(m), Fields(m, n, j, cl, f, co)
  PROVE  Wrote(n, j, cl, f, co)
<1>1. m \in Migrations
  BY DEF Fields
<1>2. CASE mig' = Merge(mig, cache, m)
  <2>1. mig' \in Migrations /\ mig'.attempts = m.attempts /\ mig'.job = m.job /\ mig'.cond = m.cond
    BY <1>1, <1>2, MergeFields DEF Fresh
  <2> QED BY <2>1 DEF Fields, Wrote
<1>3. CASE mishaps' = mishaps + 1 /\ UNCHANGED mig
  BY <1>3 DEF Wrote, Fresh
<1> QED BY <1>2, <1>3 DEF UpdateStatus

-----------------------------------------------------------------------------
(* The branches of a pass, by what they read and what they leave. *)

Update(attempts, job, cloned, failed, complete) ==
  \E m : Fields(m, attempts, job, cloned, failed, complete) /\ UpdateStatus(m)

Worker == IF cache.job = 0 THEN "none" ELSE seen.workers[cache.job]
Past == cache.attempts # 0 \/ seen.jobs["preflight"] = "ok"

SuspendCase ==
  /\ cache.suspend /\ jobs' = Suspended(cache)
  /\ IF jobs'["preflight"] = jobs["preflight"] THEN UNCHANGED <<script, strays>>
     ELSE script' = NoPod /\ strays' = IF script.state = "live" THEN strays + 1 ELSE strays
  /\ workers' = IF cache.job # 0 THEN [workers EXCEPT ![cache.job] = WorkerDeleted(@)] ELSE workers
  /\ Update(cache.attempts, 0, cache.cond.cloned, FALSE, FALSE)

GateCase ==
  /\ cache.attempts = 0 /\ seen.jobs["preflight"] # "ok" /\ UNCHANGED <<workers, strays>>
  /\ script' = IF jobs' = jobs THEN script ELSE NoPod
  /\ \/ /\ seen.jobs["preflight"] = "failed" /\ UNCHANGED jobs
        /\ Update(cache.attempts, cache.job, cache.cond.cloned, TRUE, FALSE)
     \/ EnsureJob("preflight") /\ Update(cache.attempts, cache.job, cache.cond.cloned, FALSE, FALSE)

DryRunCase ==
  /\ Past /\ Asked("dryRun") /\ UNCHANGED <<jobs, workers, script, strays>>
  /\ Update(cache.attempts, cache.job, cache.cond.cloned, FALSE, TRUE)

\* The write that records attempt n; the first one is lost only if LoseFirst.
Recorded(n) ==
  /\ Update(n, n, cache.cond.cloned, FALSE, FALSE)
  /\ n = 1 /\ ~LoseFirst => UNCHANGED mishaps

StartCase ==
  /\ Past /\ ~Asked("dryRun") /\ Worker = "none" /\ ~OnlyFinish(cache) /\ UNCHANGED <<jobs, script, strays>>
  /\ LET n == cache.attempts + 1 IN
     \/ n \in Attempts /\ workers[n] # "none" /\ Recorded(n) /\ UNCHANGED workers
     \/ n \notin Attempts /\ UNCHANGED workers /\ Update(cache.attempts, cache.job, cache.cond.cloned, TRUE, FALSE)
     \/ /\ n \in Attempts /\ workers[n] = "none" /\ (n > 1 => ~WorkerLive(n - 1))
        /\ workers' = [workers EXCEPT ![n] = "running"] /\ Recorded(n)

FailedCase ==
  /\ Past /\ ~Asked("dryRun") /\ Worker = "failed" /\ UNCHANGED <<jobs, workers, script, strays>>
  /\ \/ Update(cache.attempts, cache.job, cache.cond.cloned, TRUE, FALSE)
     \/ Update(cache.attempts, 0, cache.cond.cloned, FALSE, FALSE)

Finishing ==
  /\ Past /\ ~Asked("dryRun") /\ UNCHANGED <<workers, script, strays>>
  /\ Worker = "ok" \/ (Worker = "none" /\ OnlyFinish(cache))

CountCase ==
  /\ Finishing /\ NeedsCatalog(cache)
  /\ \/ ~Finished(Catalog) /\ EnsureJob("catalog") /\ Update(cache.attempts, cache.job, cache.cond.cloned, FALSE, FALSE)
     \/ Finished(Catalog) /\ counted = "short" /\ UNCHANGED jobs
        /\ Update(cache.attempts, cache.job, cache.cond.cloned, TRUE, FALSE)

\* The copy is confirmed.
Counted == Finishing /\ (~NeedsCatalog(cache) \/ (Finished(Catalog) /\ counted # "short"))

HandoverCase ==
  /\ Counted /\ Asked("owner") /\ SeenHandover # "ok" /\ EnsureJob("handover")
  /\ Update(cache.attempts, cache.job, TRUE, SeenHandover = "failed", FALSE)

CompareCase ==
  /\ Counted /\ (Asked("owner") => SeenHandover = "ok")
  /\ LET open == FirstOpen(ChecksOf(spec)) IN
     jobs' = [c \in JobNames |-> IF c \in open /\ seen.jobs[c] = "none" /\ jobs[c] = "none"
                                 THEN "running" ELSE jobs[c]]
  /\ Update(cache.attempts, cache.job, TRUE, FALSE, FALSE)

CompleteCase ==
  /\ Counted /\ (Asked("owner") => SeenHandover = "ok") /\ UNCHANGED jobs
  /\ Update(cache.attempts, cache.job, TRUE, FALSE, TRUE)

PassCase ==
  \/ SuspendCase \/ GateCase \/ DryRunCase \/ StartCase \/ FailedCase
  \/ CountCase \/ HandoverCase \/ CompareCase \/ CompleteCase

Elsewhere == UNCHANGED <<spec, facts, blips, cache, seen, targetVars, edits>>

LEMMA FailCase ==
  ASSUME NEW r, NEW n, NEW j, NEW cl, NEW f, NEW co, Fields(r, n, j, cl, f, co), UpdateStatus(Fail(r))
  PROVE  Update(n, j, cl, TRUE, co)
BY FailFields DEF Fields, Update

LEMMA StartBranch ==
  ASSUME cache \in Migrations, NEW r, ~Terminal(cache), ~Asked("dryRun"), Past, Worker = "none",
         Fields(r, cache.attempts, cache.job, cache.cond.cloned, FALSE, FALSE),
         StartAttempt(r), ~OnlyFinish(cache), UNCHANGED <<script, strays>>
  PROVE  StartCase
<1> DEFINE n == r.attempts + 1
<1>1. r \in Migrations /\ n = cache.attempts + 1 /\ r.attempts \in 0..MaxAttempts
  BY MigrationFields DEF Fields
<1>2. ASSUME RecordAttempt(r), n \in Attempts PROVE Recorded(n)
  <2> DEFINE copying == IF r.cond.cloned THEN r.cond.copying ELSE n
             new == [r EXCEPT !.attempts = n, !.job = n, !.cond.copying = copying]
  <2>1. n \in 0..MaxAttempts /\ copying \in 0..MaxAttempts
    BY <1>1, <1>2, MigrationFields, CloneBounds DEF Attempts
  <2>2. UpdateStatus([r EXCEPT !.attempts = n, !.job = n,
                               !.cond.copying = IF r.cond.cloned THEN @ ELSE n])
    BY <1>2 DEF RecordAttempt
  <2>3. [r EXCEPT !.attempts = n, !.job = n, !.cond.copying = IF r.cond.cloned THEN @ ELSE n] = new
    BY <1>1 DEF Migrations
  <2>4. Fields(new, n, n, r.cond.cloned, r.cond.failed, r.cond.complete)
    <3> HIDE DEF copying, n
    <3> QED BY <1>1, <2>1, AttemptFields
  <2>5. Fields(new, n, n, cache.cond.cloned, FALSE, FALSE)
    BY <2>4 DEF Fields
  <2>6. UpdateStatus(new)
    BY <2>2, <2>3
  <2>7. n = 1 /\ ~LoseFirst => UNCHANGED mishaps
    BY <1>2 DEF RecordAttempt
  <2> HIDE DEF new, n
  <2> QED BY <2>5, <2>6, <2>7 DEF Recorded, Update
<1>3. UpdateStatus(Fail(r)) => Update(cache.attempts, cache.job, cache.cond.cloned, TRUE, FALSE)
  BY FailCase
<1>4. UNCHANGED jobs
  BY DEF StartAttempt
<1>5. \/ n \in Attempts /\ workers[n] # "none" /\ RecordAttempt(r) /\ UNCHANGED workers
      \/ n \notin Attempts /\ UpdateStatus(Fail(r)) /\ UNCHANGED workers
      \/ /\ n \in Attempts /\ workers[n] = "none" /\ (n > 1 => ~WorkerLive(n - 1))
         /\ workers' = [workers EXCEPT ![n] = "running"] /\ RecordAttempt(r)
  BY DEF StartAttempt
<1> HIDE DEF n
<1> QED BY <1>1, <1>2, <1>3, <1>4, <1>5 DEF StartCase

LEMMA FinishBranch ==
  ASSUME cache \in Migrations, NEW r, Finishing,
         Fields(r, cache.attempts, cache.job, cache.cond.cloned, FALSE, FALSE), FinishClone(r)
  PROVE  CountCase \/ HandoverCase \/ CompareCase \/ CompleteCase
<1>1. r \in Migrations /\ (NeedsCatalog(r) <=> NeedsCatalog(cache))
  BY DEF Fields, NeedsCatalog
<1>2. CASE NeedsCatalog(r) /\ ~Finished(Catalog) /\ EnsureJob("catalog") /\ UpdateStatus(r)
  BY <1>1, <1>2 DEF CountCase, Update
<1>3. CASE NeedsCatalog(r) /\ Finished(Catalog) /\ counted = "short" /\ UpdateStatus(Fail(r)) /\ UNCHANGED jobs
  BY <1>1, <1>3, FailCase DEF CountCase
<1>4. CASE /\ ~NeedsCatalog(r) \/ (Finished(Catalog) /\ counted # "short")
           /\ AfterCopy([r EXCEPT !.cond.cloned = TRUE])
  <2> DEFINE m == [r EXCEPT !.cond.cloned = TRUE]
  <2>1. Counted
    BY <1>1, <1>4 DEF Counted
  <2>2. Fields(m, cache.attempts, cache.job, TRUE, FALSE, FALSE) /\ AfterCopy(m)
    BY <1>1, <1>4, ClonedFields DEF Fields
  <2> HIDE DEF m
  <2>3. CASE HandoverStage(m)
    <3>1. ASSUME NEW o \in {"none", "running", "suspended", "yes", "no"}
          PROVE  Fields([m EXCEPT !.cond.owner = o], cache.attempts, cache.job, TRUE, FALSE, FALSE)
      BY <2>2, OwnerKeeps
    <3>2. CASE SeenHandover = "failed"
      <4>1. UpdateStatus(Fail([m EXCEPT !.cond.owner = "no"]))
        BY <2>3, <3>2 DEF HandoverStage, SeenHandover
      <4>2. Fields([m EXCEPT !.cond.owner = "no"], cache.attempts, cache.job, TRUE, FALSE, FALSE)
        BY <3>1
      <4>3. Update(cache.attempts, cache.job, TRUE, TRUE, FALSE)
        BY <4>1, <4>2, FailCase
      <4> QED BY <2>1, <2>3, <3>2, <4>3 DEF HandoverCase, HandoverStage, SeenHandover
    <3>3. CASE SeenHandover # "failed"
      <4>1. UpdateStatus([m EXCEPT !.cond.owner = "running"])
        BY <2>3, <3>3 DEF HandoverStage, SeenHandover
      <4>2. Fields([m EXCEPT !.cond.owner = "running"], cache.attempts, cache.job, TRUE, FALSE, FALSE)
        BY <3>1
      <4>3. Update(cache.attempts, cache.job, TRUE, FALSE, FALSE)
        BY <4>1, <4>2 DEF Update
      <4>4. (SeenHandover = "failed") = FALSE
        BY <3>3
      <4> QED BY <2>1, <2>3, <4>3, <4>4 DEF HandoverCase, HandoverStage, SeenHandover
    <3> QED BY <3>2, <3>3
  <2>4. CASE /\ Asked("owner") => seen.jobs["handover"] = "ok"
             /\ VerificationStage(IF Asked("owner") THEN [m EXCEPT !.cond.owner = "yes"] ELSE m)
    <3> DEFINE v == IF Asked("owner") THEN [m EXCEPT !.cond.owner = "yes"] ELSE m
               checks == ChecksOf(spec)
               w == IF checks = <<>> THEN v.cond.verified ELSE Verified
    <3>1. Fields(v, cache.attempts, cache.job, TRUE, FALSE, FALSE) /\ VerificationStage(v)
      <4>1. VerificationStage(v)
        BY <2>4
      <4>2. CASE Asked("owner")
        <5>1. Fields([m EXCEPT !.cond.owner = "yes"], cache.attempts, cache.job, TRUE, FALSE, FALSE)
          BY <2>2, OwnerKeeps
        <5> QED BY <4>1, <4>2, <5>1
      <4>3. CASE ~Asked("owner")
        BY <2>2, <4>1, <4>3
      <4> QED BY <4>2, <4>3
    <3> HIDE DEF v
    <3>2. CASE FirstOpen(checks) # {}
      <4>1. UpdateStatus([v EXCEPT !.cond.verified = "running"])
        BY <3>1, <3>2 DEF VerificationStage
      <4>2. Fields([v EXCEPT !.cond.verified = "running"], cache.attempts, cache.job, TRUE, FALSE, FALSE)
        BY <3>1, VerifiedFields DEF Fields
      <4>3. Update(cache.attempts, cache.job, TRUE, FALSE, FALSE)
        BY <4>1, <4>2 DEF Update
      <4> QED BY <2>1, <2>4, <3>1, <3>2, <4>3 DEF CompareCase, VerificationStage, SeenHandover
    <3>3. CASE FirstOpen(checks) = {}
      <4>1. UpdateStatus([v EXCEPT !.cond.complete = TRUE,
                                   !.cond.verified = IF checks = <<>> THEN @ ELSE Verified])
        BY <3>1, <3>3 DEF VerificationStage
      <4>2. Verified \in {"yes", "schema", "data"}
        <5> DEFINE mismatched == {check \in Compares : Asked(check) /\ seen.jobs[check] = "failed"}
        <5>1. mismatched = {} \/ "schema" \in mismatched \/ mismatched = {"data"}
          BY DEF Compares
        <5>2. Verified = CASE mismatched = {} -> "yes"
                           [] "schema" \in mismatched -> "schema"
                           [] mismatched = {"data"} -> "data"
          BY DEF Verified
        <5> HIDE DEF mismatched
        <5> QED BY <5>1, <5>2
      <4>3. w \in {"none", "running", "yes"} \cup Compares
        BY <3>1, <4>2, MigrationFields DEF Fields, Compares
      <4> DEFINE done == [v EXCEPT !.cond.complete = TRUE]
      <4>4. Fields(done, cache.attempts, cache.job, TRUE, FALSE, TRUE)
        BY <3>1, CompleteFields DEF Fields
      <4>5. [v EXCEPT !.cond.complete = TRUE, !.cond.verified = IF checks = <<>> THEN @ ELSE Verified]
              = [done EXCEPT !.cond.verified = w]
        <5>1. v \in Migrations /\ v.cond \in Conditions
          BY <3>1, MigrationFields DEF Fields
        <5> HIDE DEF checks
        <5> QED BY <5>1 DEF Migrations, Conditions
      <4> HIDE DEF done, w
      <4>6. Fields([done EXCEPT !.cond.verified = w], cache.attempts, cache.job, TRUE, FALSE, TRUE)
        BY <4>3, <4>4, VerifiedFields DEF Fields
      <4>7. Update(cache.attempts, cache.job, TRUE, FALSE, TRUE)
        BY <4>1, <4>5, <4>6 DEF Update
      <4> QED BY <2>1, <2>4, <3>1, <3>3, <4>7 DEF CompleteCase, VerificationStage, SeenHandover
    <3> QED BY <3>2, <3>3
  <2> QED BY <2>2, <2>3, <2>4 DEF AfterCopy
<1> QED BY <1>2, <1>3, <1>4 DEF FinishClone

\* A pass takes one of the branches.
LEMMA PassCases ==
  ASSUME cache \in Migrations, Reconcile
  PROVE  PassCase /\ Elsewhere /\ Readable /\ ~Terminal(cache)
<1>0. Elsewhere /\ Readable /\ ~Terminal(cache)
  BY DEF Reconcile, Elsewhere
<1>1. Fields(cache, cache.attempts, cache.job, cache.cond.cloned, FALSE, FALSE)
  BY <1>0, MigrationFields DEF Fields, Terminal
<1> SUFFICES PassCase
  BY <1>0
<1>2. ASSUME NEW v \in {"none", "running", "yes"}
      PROVE  Fields([cache EXCEPT !.cond.validated = v], cache.attempts, cache.job, cache.cond.cloned, FALSE, FALSE)
  BY <1>1, ValidatedFields DEF Fields
<1>3. CASE cache.suspend /\ ReconcileSuspended(cache)
  <2> DEFINE o == IF seen.jobs["handover"] \in {"running", "deleting"} THEN "suspended" ELSE cache.cond.owner
             stopped == [cache EXCEPT !.job = 0]
  <2>1. UpdateStatus([cache EXCEPT !.job = 0,
                            !.cond.owner = IF seen.jobs["handover"] \in {"running", "deleting"}
                                           THEN "suspended" ELSE @])
    BY <1>3 DEF ReconcileSuspended
  <2>2. [cache EXCEPT !.job = 0, !.cond.owner = IF seen.jobs["handover"] \in {"running", "deleting"}
                                           THEN "suspended" ELSE @] = [stopped EXCEPT !.cond.owner = o]
    BY DEF Migrations
  <2>3. o \in {"none", "running", "suspended", "yes", "no"}
    BY MigrationFields
  <2>4. Fields(stopped, cache.attempts, 0, cache.cond.cloned, FALSE, FALSE)
    BY <1>1, JobFields, CloneBounds DEF Fields
  <2> HIDE DEF o, stopped
  <2>5. Fields([stopped EXCEPT !.cond.owner = o], cache.attempts, 0, cache.cond.cloned, FALSE, FALSE)
    BY <2>3, <2>4, OwnerKeeps
  <2>6. Update(cache.attempts, 0, cache.cond.cloned, FALSE, FALSE)
    BY <2>1, <2>2, <2>5 DEF Update
  <2> QED BY <1>3, <2>6 DEF ReconcileSuspended, SuspendCase, PassCase
<1>4. CASE Gated(cache) /\ PreflightGate(cache)
  <2>1. CASE seen.jobs["preflight"] = "failed"
    <3>1. UpdateStatus(Fail([cache EXCEPT !.cond.validated = "none"])) /\ UNCHANGED jobs
      BY <1>4, <2>1 DEF PreflightGate
    <3>2. Update(cache.attempts, cache.job, cache.cond.cloned, TRUE, FALSE)
      BY <1>2, <3>1, FailCase
    <3> QED BY <1>4, <2>1, <3>1, <3>2 DEF Gated, PreflightGate, GateCase, PassCase
  <2>2. CASE seen.jobs["preflight"] # "failed"
    <3>1. UpdateStatus([cache EXCEPT !.cond.validated = "running"]) /\ EnsureJob("preflight")
      BY <1>4, <2>2 DEF PreflightGate
    <3>2. Update(cache.attempts, cache.job, cache.cond.cloned, FALSE, FALSE)
      BY <1>2, <3>1 DEF Update
    <3> QED BY <1>4, <3>1, <3>2 DEF Gated, PreflightGate, GateCase, PassCase
  <2> QED BY <2>1, <2>2
<1>5. CASE ~Gated(cache) /\ UNCHANGED <<script, strays>> /\ PastTheGate([cache EXCEPT !.cond.validated = "yes"])
  <2> DEFINE r == [cache EXCEPT !.cond.validated = "yes"]
  <2>1. Fields(r, cache.attempts, cache.job, cache.cond.cloned, FALSE, FALSE) /\ PastTheGate(r)
    BY <1>2, <1>5
  <2>2. Past
    BY <1>5 DEF Gated, Past
  <2>3. (OnlyFinish(r) <=> OnlyFinish(cache)) /\ r \in Migrations /\ r.job = cache.job
    BY <2>1 DEF Fields, OnlyFinish
  <2> HIDE DEF r
  <2>4. CASE Asked("dryRun") /\ CompleteDryRun(r)
    <3>1. Fields([r EXCEPT !.cond.complete = TRUE], cache.attempts, cache.job, cache.cond.cloned, FALSE, TRUE)
      BY <2>1, CompleteFields DEF Fields
    <3>2. UpdateStatus([r EXCEPT !.cond.complete = TRUE])
      BY <2>4 DEF CompleteDryRun
    <3>3. Update(cache.attempts, cache.job, cache.cond.cloned, FALSE, TRUE)
      BY <3>1, <3>2 DEF Update
    <3> QED BY <1>5, <2>2, <2>4, <3>3 DEF CompleteDryRun, DryRunCase, PassCase
  <2>5. CASE ~Asked("dryRun") /\ Worker = "none" /\ NextAttempt(r)
    <3>1. CASE OnlyFinish(r)
      <4>1. FinishClone(r)
        BY <2>5, <3>1 DEF NextAttempt
      <4>2. Finishing
        BY <1>5, <2>2, <2>3, <2>5, <3>1, <4>1 DEF Finishing, FinishClone
      <4> QED BY <2>1, <4>1, <4>2, FinishBranch DEF PassCase
    <3>2. CASE ~OnlyFinish(r)
      <4>1. StartAttempt(r)
        BY <2>5, <3>2 DEF NextAttempt
      <4>2. StartCase
        BY <1>0, <1>5, <2>1, <2>2, <2>3, <2>5, <3>2, <4>1, StartBranch
      <4> QED BY <4>2 DEF PassCase
    <3> QED BY <3>1, <3>2
  <2>6. CASE ~Asked("dryRun") /\ Worker = "ok" /\ FinishClone(r)
    <3>1. Finishing
      BY <1>5, <2>2, <2>6 DEF Finishing, FinishClone
    <3> QED BY <2>1, <2>6, <3>1, FinishBranch DEF PassCase
  <2>7. CASE ~Asked("dryRun") /\ Worker = "failed" /\ HandleFailedJob(r)
    <3>1. PICK lasting \in BOOLEAN : UpdateStatus(IF lasting THEN Fail(r) ELSE [r EXCEPT !.job = 0])
      BY <2>7 DEF HandleFailedJob
    <3>2. CASE lasting
      <4>1. Update(cache.attempts, cache.job, cache.cond.cloned, TRUE, FALSE)
        BY <2>1, <3>1, <3>2, FailCase
      <4> QED BY <1>5, <2>2, <2>7, <4>1 DEF HandleFailedJob, FailedCase, PassCase
    <3>3. CASE ~lasting
      <4>1. UpdateStatus([r EXCEPT !.job = 0])
        BY <3>1, <3>3
      <4>2. Fields([r EXCEPT !.job = 0], cache.attempts, 0, cache.cond.cloned, FALSE, FALSE)
        BY <2>1, <2>3, JobFields, CloneBounds DEF Fields
      <4>3. Update(cache.attempts, 0, cache.cond.cloned, FALSE, FALSE)
        BY <4>1, <4>2 DEF Update
      <4> QED BY <1>5, <2>2, <2>7, <4>3 DEF HandleFailedJob, FailedCase, PassCase
    <3> QED BY <3>2, <3>3
  <2>8. Worker = IF r.job = 0 THEN "none" ELSE seen.workers[r.job]
    BY <2>3 DEF Worker
  <2> QED BY <2>1, <2>4, <2>5, <2>6, <2>7, <2>8 DEF PastTheGate
<1> QED BY <1>0, <1>3, <1>4, <1>5 DEF Reconcile

-----------------------------------------------------------------------------
(* The types hold. *)

\* TypeOK as the provers take it.
Types ==
  /\ spec \in Specs /\ facts \subseteq Checked[spec] /\ script \in Pods /\ strays \in Nat /\ blips \in 0..MaxBlips
  /\ mig \in Migrations /\ cache \in Migrations
  /\ jobs \in [JobNames -> JobStates] /\ workers \in [Attempts -> JobStates]
  /\ seen = [jobs |-> seen.jobs, workers |-> seen.workers]
  /\ seen.jobs \in [JobNames -> JobStates] /\ seen.workers \in [Attempts -> JobStates]
  /\ whole \in BOOLEAN /\ counted \in {"none", "whole", "short", "nothing"}
  /\ handover \in [live: BOOLEAN, tries: 0..3, done: 0..Len(Candidates)]
  /\ edits \in 0..MaxEdits /\ mishaps \in 0..MaxMishaps

LEMMA TypesOK == TypeOK <=> Types
<1>1. seen \in [jobs: [JobNames -> JobStates], workers: [Attempts -> JobStates]] <=>
        /\ seen = [jobs |-> seen.jobs, workers |-> seen.workers]
        /\ seen.jobs \in [JobNames -> JobStates] /\ seen.workers \in [Attempts -> JobStates]
  OBVIOUS
<1> QED BY <1>1 DEF TypeOK, Types

LEMMA EnsureTyped ==
  ASSUME jobs \in [JobNames -> JobStates], NEW name \in JobNames, EnsureJob(name)
  PROVE  /\ jobs' \in [JobNames -> JobStates]
         /\ \A other \in JobNames : jobs'[other] = IF other = name /\ seen.jobs[name] = "none" /\ jobs[name] = "none"
                                                   THEN "running" ELSE jobs[other]
<1>1. "running" \in JobStates
  BY DEF JobStates
<1> QED BY <1>1 DEF EnsureJob

LEMMA SuspendedTyped ==
  ASSUME jobs \in [JobNames -> JobStates], jobs' = Suspended(cache)
  PROVE  jobs' \in [JobNames -> JobStates]
<1>1. ASSUME NEW s \in JobStates PROVE Deleted(s) \in JobStates
  BY <1>1 DEF Deleted, JobStates
<1>2. "none" \in JobStates
  BY DEF JobStates
<1> QED BY <1>1, <1>2 DEF Suspended

LEMMA PassTyped ==
  ASSUME Types, PassCase
  PROVE  /\ mig' \in Migrations /\ mishaps' \in 0..MaxMishaps
         /\ jobs' \in [JobNames -> JobStates] /\ workers' \in [Attempts -> JobStates]
         /\ script' \in Pods /\ strays' \in Nat
<1>1. ASSUME NEW n, NEW j, NEW cl, NEW f, NEW co, Update(n, j, cl, f, co)
      PROVE  mig' \in Migrations /\ mishaps' \in 0..MaxMishaps
  BY <1>1, UpdateTyped DEF Update, Fields, Types
<1>2. mig' \in Migrations /\ mishaps' \in 0..MaxMishaps
  BY <1>1 DEF PassCase, SuspendCase, GateCase, DryRunCase, StartCase, Recorded, FailedCase,
              CountCase, HandoverCase, CompareCase, CompleteCase
<1>3. jobs' \in [JobNames -> JobStates]
  <2>1. {"preflight", "catalog", "handover"} \subseteq JobNames
    BY DEF JobNames
  <2>2. CASE SuspendCase
    BY <2>2, SuspendedTyped DEF SuspendCase, Types
  <2>3. CASE CompareCase
    BY <2>3 DEF CompareCase, Types, JobStates
  <2>4. CASE EnsureJob("preflight") \/ EnsureJob("catalog") \/ EnsureJob("handover") \/ UNCHANGED jobs
    BY <2>1, <2>4, EnsureTyped DEF Types
  <2> QED BY <2>2, <2>3, <2>4 DEF PassCase, GateCase, DryRunCase, StartCase, FailedCase, CountCase,
                                   HandoverCase, CompleteCase
<1>4. workers' \in [Attempts -> JobStates]
  <2>1. workers \in [Attempts -> JobStates] /\ "running" \in JobStates
    BY DEF Types, JobStates
  <2>2. ASSUME NEW s \in JobStates PROVE WorkerDeleted(s) \in JobStates
    BY <2>2 DEF WorkerDeleted, Deleted, Finished, JobStates
  <2>3. CASE SuspendCase
    BY <2>1, <2>2, <2>3 DEF SuspendCase
  <2>4. CASE StartCase
    BY <2>1, <2>4 DEF StartCase
  <2> QED BY <2>1, <2>3, <2>4 DEF PassCase, GateCase, DryRunCase, FailedCase, CountCase, Counted,
                                   HandoverCase, CompareCase, CompleteCase, Finishing
<1>5. script' \in Pods /\ strays' \in Nat
  <2>1. script \in Pods /\ strays \in Nat /\ NoPod \in Pods
    BY DEF Types, NoPod, Pods
  <2>2. script' \in {script, NoPod} /\ strays' \in {strays, strays + 1}
    BY DEF PassCase, SuspendCase, GateCase, DryRunCase, StartCase, FailedCase, CountCase, Counted,
           HandoverCase, CompareCase, CompleteCase, Finishing
  <2> QED BY <2>1, <2>2
<1> QED BY <1>2, <1>3, <1>4, <1>5

\* A check of the script, which may put a fact right that the script asks for.
LEMMA CheckTyped ==
  ASSUME Types, PodInv, RunCheck, UNCHANGED spec
  PROVE  facts' \subseteq Checked[spec] /\ script' \in Pods /\ blips' \in 0..MaxBlips
<1>1. PICK c : c = Scripts[spec][script.at]
  OBVIOUS
<1>2. c.fact \in Checked[spec]
  <2>1. spec \in Specs /\ Scripts[spec] = Script(spec) /\ script.at \in 1..Len(Script(spec))
    BY ScriptLength DEF PodInv
  <2>2. c \in ChecksIn(spec)
    BY <1>1, <2>1, ScriptType, LenProperties DEF ChecksIn
  <2> QED BY <2>1, <2>2 DEF Checked
<1>3. Holds(c) \/ ProbeFails(c) \/ Missing(c) \/ Lists(c) \/ Remediates(c) \/ CommandFails(c)
  BY <1>1 DEF RunCheck
<1>4. facts' \subseteq Checked[spec]
  BY <1>2, <1>3 DEF Types, Holds, ProbeFails, Missing, Lists, Remediates, CommandFails
<1>5. blips' \in 0..MaxBlips
  <2>1. blips' = blips \/ Blip
    BY <1>3 DEF Holds, ProbeFails, Missing, Lists, Remediates, CommandFails
  <2>2. blips \in 0..MaxBlips
    BY DEF Types
  <2> QED BY <2>1, <2>2, PreflightBounds DEF Blip
<1>6. PICK failed \in BOOLEAN : script' = After(script, c, failed)
  BY <1>3 DEF Holds, ProbeFails, Missing, Lists, Remediates, CommandFails, FailsOnError
<1>7. script' \in [state: {"none", "live", "ok", "failed"}, at: Nat, fail: BOOLEAN, tries: Int]
  BY <1>6, AfterType DEF PodInv
<1>8. script'.tries = script.tries
  BY <1>6 DEF After, PodInv
<1> QED BY <1>4, <1>5, <1>7, <1>8 DEF Pods, Types

LEMMA TypesInit == Init => Types
<1> SUFFICES ASSUME Init PROVE Types
  OBVIOUS
<1>1. NewMigration \in Migrations
  <2> DEFINE c == [validated |-> "none", cloned |-> FALSE, copying |-> 0, owner |-> "none",
             verified |-> "none", failed |-> FALSE, complete |-> FALSE]
  <2>1. c \in Conditions
    BY CloneBounds DEF Conditions
  <2>2. NewMigration = [suspend |-> FALSE, attempts |-> 0, job |-> 0, cond |-> c]
    BY DEF NewMigration
  <2> HIDE DEF c
  <2> QED BY <2>1, <2>2, CloneBounds DEF Migrations
<1>2. NoPod \in Pods
  BY DEF NoPod, Pods
<1>3. handover \in [live: BOOLEAN, tries: 0..3, done: 0..Len(Candidates)]
  BY DEF Init, Candidates
<1>4. /\ seen = [jobs |-> jobs, workers |-> workers] /\ seen.jobs = jobs /\ seen.workers = workers
      /\ jobs \in [JobNames -> JobStates] /\ workers \in [Attempts -> JobStates]
  BY DEF Init, Cluster, JobStates
<1>5. spec \in Specs /\ facts \subseteq Checked[spec]
  BY DEF Init
<1>6. /\ script = NoPod /\ strays = 0 /\ blips = 0 /\ mig = NewMigration /\ cache = mig
      /\ whole = FALSE /\ counted = "none" /\ edits = 0 /\ mishaps = 0
  BY DEF Init
<1>7. 0 \in 0..MaxBlips /\ 0 \in 0..MaxEdits /\ 0 \in 0..MaxMishaps
  BY CloneBounds, PreflightBounds
<1> QED BY <1>1, <1>2, <1>3, <1>4, <1>5, <1>6, <1>7 DEF Types

LEMMA PodsTyped ==
  ASSUME Types, PodsProceed, PodInv
  PROVE  Types'
<1> USE CloneBounds
<1>1. CASE StartScript
  <2>1. script' \in Pods
    <3> DEFINE tries == script.tries + 1
    <3>1. script.tries \in {0, 1} /\ script' = NewPod(script)
      BY <1>1 DEF StartScript
    <3>2. tries \in 0..2 /\ script' = [NoPod EXCEPT !.state = "live", !.tries = tries]
      BY <3>1 DEF NewPod
    <3> HIDE DEF tries
    <3> QED BY <3>2 DEF NoPod, Pods
  <2> QED BY <1>1, <2>1 DEF StartScript, Types, clusterVars, targetVars, bounds
<1>2. CASE ScriptStep
  BY <1>2, CheckTyped DEF ScriptStep, Types, clusterVars, targetVars, bounds
<1>3. CASE PreflightEnds
  BY <1>3 DEF PreflightEnds, Types, preflightVars, scriptVars, targetVars, bounds, JobStates
<1>4. CASE CatalogEnds
  BY <1>4 DEF CatalogEnds, Types, preflightVars, scriptVars, bounds, JobStates
<1>5. ASSUME NEW n \in Attempts, WorkerExits(n) PROVE Types'
  BY <1>5 DEF WorkerExits, Types, preflightVars, scriptVars, bounds, JobStates
<1>6. ASSUME NEW check \in Compares, CompareEnds(check) PROVE Types'
  BY <1>6 DEF CompareEnds, Types, preflightVars, scriptVars, targetVars, bounds, JobStates
<1>7. CASE HandoverStarts
  <2>1. handover' \in [live: BOOLEAN, tries: 0..3, done: 0..Len(Candidates)]
    <3> DEFINE tries == handover.tries + 1
    <3>1. tries \in 0..3 /\ handover' = [handover EXCEPT !.live = TRUE, !.tries = tries]
      BY <1>7 DEF HandoverStarts, PodsLeft, Types
    <3> HIDE DEF tries
    <3> QED BY <3>1 DEF Types
  <2> QED BY <1>7, <2>1 DEF HandoverStarts, Types, preflightVars, scriptVars, clusterVars, bounds
<1>8. CASE Alter
  <2>1. handover' \in [live: BOOLEAN, tries: 0..3, done: 0..Len(Candidates)]
    BY <1>8 DEF Alter, Types, Candidates
  <2> QED BY <1>8, <2>1 DEF Alter, Types, preflightVars, scriptVars, clusterVars, bounds
<1>9. CASE HandoverEnds
  <2>1. handover' \in [live: BOOLEAN, tries: 0..3, done: 0..Len(Candidates)]
    BY <1>9 DEF HandoverEnds, Types
  <2>2. jobs' \in [JobNames -> JobStates]
    BY <1>9 DEF HandoverEnds, Types, JobStates
  <2> QED BY <1>9, <2>1, <2>2 DEF HandoverEnds, Types, preflightVars, scriptVars, bounds
<1> QED BY <1>1, <1>2, <1>3, <1>4, <1>5, <1>6, <1>7, <1>8, <1>9 DEF PodsProceed

LEMMA RemediesChecked == ASSUME NEW sp \in Specs PROVE Remedies[sp] \subseteq Checked[sp]
BY DEF Remedies, Checked

LEMMA RestTyped ==
  ASSUME Types, \/ StrayWorks \/ DeletedPodsStop \/ CacheSync \/ JobSync \/ Collect \/ Edit
                \/ UNCHANGED vars
  PROVE  Types'
<1> USE CloneBounds
<1>1. CASE StrayWorks \/ StrayStops
  <2>1. StrayWorks => facts' \subseteq Checked[spec]
    BY RemediesChecked DEF StrayWorks, Types
  <2> QED BY <1>1, <2>1 DEF StrayWorks, StrayStops, Types, scriptVars, clusterVars, targetVars, bounds
<1>2. CASE HandoverStops
  <2>1. handover' \in [live: BOOLEAN, tries: 0..3, done: 0..Len(Candidates)]
    <3>1. handover \in [live: BOOLEAN, tries: 0..3, done: 0..Len(Candidates)] /\ 0 \in 0..3
      BY DEF Types
    <3>2. handover' = [handover EXCEPT !.live = FALSE, !.tries = 0]
      BY <1>2 DEF HandoverStops
    <3> QED BY <3>1, <3>2
  <2>2. jobs' \in [JobNames -> JobStates]
    BY <1>2 DEF HandoverStops, Types, JobStates
  <2> QED BY <1>2, <2>1, <2>2 DEF HandoverStops, Types, preflightVars, scriptVars, bounds
<1>3. ASSUME NEW n \in Attempts, WorkerStops(n) PROVE Types'
  BY <1>3 DEF WorkerStops, Types, preflightVars, scriptVars, targetVars, bounds, JobStates
<1>4. CASE CacheSync
  BY <1>4 DEF CacheSync, Types, preflightVars, scriptVars, clusterVars, targetVars, bounds
<1>5. CASE JobSync
  <2>1. seen' = [jobs |-> jobs, workers |-> workers] /\ seen'.jobs = jobs /\ seen'.workers = workers
    BY <1>5 DEF JobSync, Cluster
  <2> QED BY <1>5, <2>1 DEF JobSync, Types, preflightVars, scriptVars, targetVars, bounds
<1>6. CASE Collect
  <2>1. jobs' \in [JobNames -> JobStates] /\ workers' \in [Attempts -> JobStates]
    BY <1>6 DEF Collect, Types, JobStates
  <2> QED BY <1>6, <2>1 DEF Collect, Types, preflightVars, scriptVars, targetVars
<1>7. CASE Edit
  <2>1. mig' \in Migrations
    BY <1>7 DEF Edit, Types, Migrations
  <2> QED BY <1>7, <2>1 DEF Edit, Types, preflightVars, scriptVars, clusterVars, targetVars
<1>8. CASE UNCHANGED vars
  BY <1>8 DEF vars, Types, preflightVars, scriptVars, clusterVars, targetVars, bounds
<1> QED BY <1>1, <1>2, <1>3, <1>4, <1>5, <1>6, <1>7, <1>8 DEF DeletedPodsStop

LEMMA TypesNext == ASSUME Types, PodInv, [Next]_vars PROVE Types'
<1>1. CASE Reconcile
  <2>1. PassCase /\ Elsewhere
    BY <1>1, PassCases DEF Types
  <2> QED BY <2>1, PassTyped DEF Elsewhere, Types, targetVars
<1> QED BY <1>1, PodsTyped, RestTyped DEF Next

\* Every variable has its type (TypeOK), for any specs and any bounds: no status write
\* merges two versions into something that is not a Migration, and no handover has more
\* pods than backoffLimit allows (reown.go:227).
THEOREM CloneTypeCorrect == Spec => []TypeOK
<1>1. Init => Types /\ PreflightInv
  BY TypesInit, InitInv
<1>2. Types /\ PreflightInv /\ [Next]_vars => Types' /\ PreflightInv'
  BY TypesNext, NextInv DEF PreflightInv
<1> QED BY <1>1, <1>2, TypesOK, PTL DEF Spec

-----------------------------------------------------------------------------
(* Compares run alone. *)

LEMMA PairConcat == ASSUME NEW a, NEW b PROVE <<a>> \o <<b>> = <<a, b>>
<1> DEFINE s == <<a>>
           t == <<b>>
           both == s \o t
           S == {a, b}
<1>1. /\ s \in Seq({a, b}) /\ t \in Seq({a, b}) /\ <<a, b>> \in Seq({a, b})
      /\ Len(s) = 1 /\ Len(t) = 1 /\ s[1] = a /\ t[1] = b
  OBVIOUS
<1>0. <<a, b>> \in Seq(S)
  OBVIOUS
<1>9. s \in Seq(S) /\ t \in Seq(S)
  BY <1>1
<1> HIDE DEF s, t, S
<1>2. s \o t \in Seq(S) /\ Len(s \o t) = Len(s) + Len(t)
  BY <1>9, ConcatProperties
<1>3. \A i \in 1..(Len(s) + Len(t)) : (s \o t)[i] = IF i <= Len(s) THEN s[i] ELSE t[i - Len(s)]
  BY <1>9, ConcatProperties
<1> HIDE DEF both
<1>4. both \in Seq(S) /\ Len(both) = 2 /\ both[1] = a /\ both[2] = b
  <2>1. both \in Seq(S) /\ Len(both) = 2
    BY <1>1, <1>2 DEF both
  <2>2. both[1] = s[1]
    BY <1>1, <1>3 DEF both
  <2>3. both[2] = t[1]
    <3>1. ~(2 <= Len(s)) /\ 2 \in 1..(Len(s) + Len(t)) /\ 2 - Len(s) = 1
      BY <1>1
    <3> QED BY <1>3, <3>1 DEF both
  <2> QED BY <1>1, <2>1, <2>2, <2>3
<1>5. \A i \in 1..2 : both[i] = <<a, b>>[i]
  <2>1. <<a, b>>[1] = a /\ <<a, b>>[2] = b
    OBVIOUS
  <2>2. \A i \in 1..2 : i = 1 \/ i = 2
    OBVIOUS
  <2> QED BY <1>4, <2>1, <2>2
<1>6. both = <<a, b>>
  BY <1>0, <1>4, <1>5, SeqEqual
<1> QED BY <1>6 DEF both, s, t

\* A check that a pass may create now, of those that are asked for.
LEMMA OpenChecks ==
  ASSUME NEW c \in FirstOpen(ChecksOf(spec))
  PROVE  /\ c \in Compares /\ Asked(c) /\ ~Finished(seen.jobs[c])
         /\ c = "data" /\ Asked("schema") => Finished(seen.jobs["schema"])
<1> DEFINE checks == ChecksOf(spec)
<1>1. \/ checks = <<>> /\ ~Asked("schema")
      \/ checks = <<"schema">> /\ Asked("schema")
      \/ checks = <<"data">> /\ Asked("data") /\ ~Asked("schema")
      \/ checks = <<"schema", "data">> /\ Asked("schema") /\ Asked("data")
  <2>1. checks = (IF Asked("schema") THEN <<"schema">> ELSE <<>>) \o (IF Asked("data") THEN <<"data">> ELSE <<>>)
    BY DEF ChecksOf, When, Asked
  <2> HIDE DEF checks
  <2>2. <<"schema">> \o <<"data">> = <<"schema", "data">>
    BY PairConcat
  <2>3. <<>> \o <<"data">> = <<"data">>
    OBVIOUS
  <2>4. <<"schema">> \o <<>> = <<"schema">>
    OBVIOUS
  <2>5. <<>> \o <<>> = <<>>
    OBVIOUS
  <2> QED BY <2>1, <2>2, <2>3, <2>4, <2>5
<1>2. PICK i \in DOMAIN checks :
        /\ c = checks[i] /\ ~Finished(seen.jobs[checks[i]])
        /\ \A k \in 1..(i - 1) : Finished(seen.jobs[checks[k]])
  BY DEF FirstOpen
<1> HIDE DEF checks
<1>3. CASE checks = <<"schema", "data">> /\ Asked("schema") /\ Asked("data")
  <2>1. i = 1 \/ i = 2
    BY <1>2, <1>3
  <2>2. CASE i = 1
    BY <1>2, <1>3, <2>2 DEF Compares
  <2>3. CASE i = 2
    <3>1. 1 \in 1..(i - 1) /\ checks[1] = "schema"
      BY <1>3, <2>3
    <3> QED BY <1>2, <1>3, <2>3, <3>1 DEF Compares
  <2> QED BY <2>1, <2>2, <2>3
<1>4. CASE checks = <<>>
  BY <1>2, <1>4
<1>5. CASE checks = <<"schema">> /\ Asked("schema")
  BY <1>2, <1>5 DEF Compares
<1>6. CASE checks = <<"data">> /\ Asked("data") /\ ~Asked("schema")
  BY <1>2, <1>6 DEF Compares
<1> QED BY <1>1, <1>3, <1>4, <1>5, <1>6

\* What a pass leaves of the handover and the compares.
LEMMA PassJobs ==
  ASSUME Types, PassCase
  PROVE  \/ /\ Handover' = IF SeenHandover = "none" \/ Finished(SeenHandover) THEN Handover ELSE Deleted(Handover)
            /\ \A c \in Compares : jobs'[c] = jobs[c]
         \/ /\ Handover' = Handover
            /\ \A c \in Compares : jobs'[c] = jobs[c]
         \/ /\ Asked("owner") /\ SeenHandover = "none" /\ Handover = "none" /\ Handover' = "running"
            /\ \A c \in Compares : jobs'[c] = jobs[c]
         \/ /\ Asked("owner") => SeenHandover = "ok"
            /\ Handover' = Handover
            /\ \A c \in Compares : jobs'[c] = jobs[c] \/
                 /\ Asked(c) /\ seen.jobs[c] = "none" /\ jobs[c] = "none" /\ jobs'[c] = "running"
                 /\ c = "data" /\ Asked("schema") => Finished(seen.jobs["schema"])
<1>0. /\ jobs \in [JobNames -> JobStates]
      /\ "handover" \in JobNames /\ Compares \subseteq JobNames
      /\ \A c \in Compares : c \notin {"preflight", "catalog", "handover"}
  BY DEF Types, JobNames, Compares
<1>1. CASE SuspendCase
  <2>1. jobs' = Suspended(cache)
    BY <1>1 DEF SuspendCase
  <2>2. SeenHandover \in JobStates
    BY <1>0 DEF Types, SeenHandover
  <2>3. Handover' = IF SeenHandover = "none" \/ Finished(SeenHandover) THEN Handover ELSE Deleted(Handover)
    BY <1>0, <2>1, <2>2 DEF Suspended, Handover, SeenHandover, JobStates, Finished
  <2>4. \A c \in Compares : jobs'[c] = jobs[c]
    BY <1>0, <2>1 DEF Suspended
  <2> QED BY <2>3, <2>4
<1>2. CASE EnsureJob("preflight") \/ EnsureJob("catalog") \/ UNCHANGED jobs
  BY <1>0, <1>2 DEF EnsureJob, Handover
<1>3. CASE Asked("owner") /\ EnsureJob("handover")
  BY <1>0, <1>3 DEF EnsureJob, Handover, SeenHandover
<1>4. CASE CompareCase
  <2> DEFINE open == FirstOpen(ChecksOf(spec))
  <2>1. /\ Asked("owner") => SeenHandover = "ok"
        /\ jobs' = [c \in JobNames |-> IF c \in open /\ seen.jobs[c] = "none" /\ jobs[c] = "none"
                                       THEN "running" ELSE jobs[c]]
    BY <1>4 DEF CompareCase
  <2>2. \A c \in open : /\ c \in Compares /\ Asked(c)
                        /\ c = "data" /\ Asked("schema") => Finished(seen.jobs["schema"])
    BY OpenChecks
  <2> HIDE DEF open
  <2> QED BY <1>0, <2>1, <2>2 DEF Handover
<1> QED BY <1>1, <1>2, <1>3, <1>4 DEF PassCase, GateCase, DryRunCase, StartCase, FailedCase,
                                      CountCase, HandoverCase, CompleteCase

LEMMA CompareInvPass ==
  ASSUME Types, CompareInv, PassCase, Elsewhere
  PROVE  CompareInv'
<1>1. UNCHANGED <<spec, seen, handover>>
  BY DEF Elsewhere, targetVars
<1>2. \A c : Asked(c)' = Asked(c)
  BY <1>1 DEF Asked
<1>3. SeenHandover' = SeenHandover /\ \A c \in Compares : seen'.jobs[c] = seen.jobs[c]
  BY <1>1 DEF SeenHandover
<1>4. "schema" \in Compares /\ "data" \in Compares /\ \A c \in Compares : c = "schema" \/ c = "data"
  BY DEF Compares
<1>5. Handover \in JobStates /\ SeenHandover \in JobStates
  BY DEF Types, Handover, SeenHandover, JobNames
<1>6. CompareInv
  OBVIOUS
<1>7. CASE /\ Handover' = IF SeenHandover = "none" \/ Finished(SeenHandover) THEN Handover ELSE Deleted(Handover)
           /\ \A c \in Compares : jobs'[c] = jobs[c]
  BY <1>1, <1>2, <1>3, <1>4, <1>5, <1>6, <1>7 DEF CompareInv, Finished, Deleted, JobStates
<1>8. CASE /\ Handover' = Handover
           /\ \A c \in Compares : jobs'[c] = jobs[c]
  BY <1>1, <1>2, <1>3, <1>4, <1>6, <1>8 DEF CompareInv, Finished
<1>9. CASE /\ Asked("owner") /\ SeenHandover = "none" /\ Handover = "none" /\ Handover' = "running"
           /\ \A c \in Compares : jobs'[c] = jobs[c]
  BY <1>1, <1>2, <1>3, <1>4, <1>6, <1>9 DEF CompareInv, Finished
<1>10. CASE /\ Asked("owner") => SeenHandover = "ok"
            /\ Handover' = Handover
            /\ \A c \in Compares : jobs'[c] = jobs[c] \/
                 /\ Asked(c) /\ seen.jobs[c] = "none" /\ jobs[c] = "none" /\ jobs'[c] = "running"
                 /\ c = "data" /\ Asked("schema") => Finished(seen.jobs["schema"])
  BY <1>1, <1>2, <1>3, <1>4, <1>6, <1>10 DEF CompareInv, Finished
<1> QED BY <1>7, <1>8, <1>9, <1>10, PassJobs

LEMMA CompareInvNext ==
  ASSUME Collected \cap {"handover", "schema", "data"} = {}, Types, CompareInv, [Next]_vars
  PROVE  CompareInv'
<1>0. /\ jobs \in [JobNames -> JobStates] /\ "handover" \in JobNames /\ Compares \subseteq JobNames
      /\ "preflight" \in JobNames /\ "catalog" \in JobNames
      /\ "handover" \notin Compares /\ "preflight" \notin Compares /\ "catalog" \notin Compares
      /\ "schema" \in Compares /\ "data" \in Compares /\ \A c \in Compares : c = "schema" \/ c = "data"
  BY DEF Types, JobNames, Compares
<1>1. CASE Reconcile
  BY <1>1, PassCases, CompareInvPass DEF Types
<1>2. ASSUME UNCHANGED <<spec, jobs, seen>>, handover'.live => handover.live \/ Handover = "running"
      PROVE  CompareInv'
  BY <1>2 DEF CompareInv, Handover, SeenHandover, Asked
<1>3. CASE StartScript \/ ScriptStep \/ StrayWorks \/ StrayStops \/ CacheSync \/ Edit \/ UNCHANGED vars
  BY <1>2, <1>3 DEF StartScript, ScriptStep, StrayWorks, StrayStops, CacheSync, Edit, vars, preflightVars, scriptVars,
                    clusterVars, targetVars
<1>4. ASSUME NEW n \in Attempts, WorkerExits(n) \/ WorkerStops(n) PROVE CompareInv'
  BY <1>2, <1>4 DEF WorkerExits, WorkerStops, preflightVars, targetVars
<1>5. CASE HandoverStarts \/ Alter
  <2>1. handover \in [live: BOOLEAN, tries: 0..3, done: 0..Len(Candidates)]
    BY DEF Types
  <2>2. handover'.live => handover.live \/ Handover = "running"
    BY <1>5, <2>1 DEF HandoverStarts, Alter, Handover
  <2> QED BY <1>2, <1>5, <2>2 DEF HandoverStarts, Alter, preflightVars, clusterVars
<1>6. ASSUME UNCHANGED <<spec, seen, handover>>, Handover' = Handover, \A c \in Compares : jobs'[c] = jobs[c]
      PROVE  CompareInv'
  BY <1>0, <1>6 DEF CompareInv, SeenHandover, Asked, Finished
<1>7. CASE PreflightEnds \/ CatalogEnds
  <2>1. UNCHANGED <<spec, seen, handover>>
    BY <1>7 DEF PreflightEnds, CatalogEnds, preflightVars, targetVars
  <2>2. Handover' = Handover /\ \A c \in Compares : jobs'[c] = jobs[c]
    BY <1>0, <1>7 DEF PreflightEnds, CatalogEnds, Handover
  <2> QED BY <1>6, <2>1, <2>2
<1>8. CASE Collect
  <2>1. UNCHANGED <<spec, seen, handover>>
    BY <1>8 DEF Collect, preflightVars, targetVars
  <2>2. Handover' = Handover /\ \A c \in Compares : jobs'[c] = jobs[c]
    BY <1>0, <1>8 DEF Collect, Handover
  <2> QED BY <1>6, <2>1, <2>2
<1>9. ASSUME NEW check \in Compares, CompareEnds(check) PROVE CompareInv'
  <2>1. UNCHANGED <<spec, seen, handover>> /\ jobs[check] = "running"
    BY <1>9 DEF CompareEnds, preflightVars, targetVars
  <2>2. PICK result \in {"ok", "failed"} : jobs' = [jobs EXCEPT ![check] = result]
    BY <1>9 DEF CompareEnds
  <2>3. /\ Handover' = Handover /\ SeenHandover' = SeenHandover /\ jobs'[check] = result
        /\ \A c \in Compares : c # check => jobs'[c] = jobs[c]
        /\ \A c \in Compares : seen'.jobs[c] = seen.jobs[c]
    BY <1>0, <2>1, <2>2 DEF Handover, SeenHandover
  <2>4. \A c : Asked(c)' = Asked(c)
    BY <2>1 DEF Asked
  <2>5. CompareInv
    OBVIOUS
  <2> QED BY <1>0, <2>1, <2>3, <2>4, <2>5 DEF CompareInv, Finished
<1>10. CASE HandoverEnds \/ HandoverStops
  <2>1. /\ UNCHANGED <<spec, seen>> /\ Handover \in {"running", "deleting"} /\ handover'.live = FALSE
        /\ Handover' # "none" => Handover = "running"
    <3>1. handover \in [live: BOOLEAN, tries: 0..3, done: 0..Len(Candidates)]
      BY DEF Types
    <3>2. handover'.live = FALSE
      BY <1>10, <3>1 DEF HandoverEnds, HandoverStops
    <3> QED BY <1>0, <1>10, <3>2 DEF HandoverEnds, HandoverStops, preflightVars, Handover
  <2>2. \A c \in Compares : jobs'[c] = jobs[c]
    BY <1>0, <1>10 DEF HandoverEnds, HandoverStops
  <2>3. (\A c : Asked(c)' = Asked(c)) /\ SeenHandover' = SeenHandover /\ \A c \in Compares : seen'.jobs[c] = seen.jobs[c]
    BY <2>1 DEF Asked, SeenHandover
  <2>4. CompareInv
    OBVIOUS
  <2> QED BY <1>0, <2>1, <2>2, <2>3, <2>4 DEF CompareInv, Finished
<1>11. CASE JobSync
  <2>1. seen'.jobs = jobs /\ UNCHANGED <<spec, jobs, handover>>
    BY <1>11 DEF JobSync, Cluster, preflightVars, targetVars
  <2> QED BY <2>1 DEF CompareInv, Handover, SeenHandover, Asked
<1> QED BY <1>1, <1>3, <1>4, <1>5, <1>7, <1>8, <1>9, <1>10, <1>11 DEF Next, PodsProceed, DeletedPodsStop

\* One compare at a time, and none beside a handover (ComparesAlone; verification.go:203,
\* verification.go:249), for any specs and bounds, however far the caches lag and
\* whichever writes are lost, as long as the TTL deletes no Job that the order of the
\* compares is read from.
THEOREM ComparesRunAlone ==
  ASSUME Collected \cap {"handover", "schema", "data"} = {}
  PROVE  Spec => []ComparesAlone
<1>1. Init => Types /\ PreflightInv /\ CompareInv
  <2> SUFFICES ASSUME Init PROVE CompareInv
    BY TypesInit, InitInv
  <2>1. handover.live = FALSE /\ \A name \in JobNames : jobs[name] = "none" /\ seen.jobs[name] = "none"
    BY DEF Init, Cluster
  <2> QED BY <2>1 DEF CompareInv, Handover, SeenHandover, Finished, JobNames, Compares
<1>2. Types /\ PreflightInv /\ CompareInv /\ [Next]_vars => Types' /\ PreflightInv' /\ CompareInv'
  BY TypesNext, NextInv, CompareInvNext DEF PreflightInv
<1>3. CompareInv => ComparesAlone
  <2>1. \A c \in Compares : c = "schema" \/ c = "data"
    BY DEF Compares
  <2> QED BY <2>1 DEF CompareInv, ComparesAlone, Finished
<1> QED BY <1>1, <1>2, <1>3, PTL DEF Spec

-----------------------------------------------------------------------------
(* What a pass may rely on. *)

Preflighted == jobs["preflight"]
Count == jobs["catalog"]

\* A pass that is not cut off from what the last one did.
Reads ==
  /\ Fresh /\ ~Terminal(mig)
  /\ mig.job # 0 /\ seen.workers[mig.job] = "none" => workers[mig.job] = "none"
  /\ \A name \in JobNames : jobs[name] = "none" => seen.jobs[name] = "none"
  /\ \A n \in Attempts : workers[n] = "none" => seen.workers[n] = "none"

LEMMA PassReads ==
  ASSUME ~DeepLag, Types, Readable, ~Terminal(cache)
  PROVE  Reads
<1>1. mig \in Migrations /\ cache = [mig EXCEPT !.suspend = cache.suspend]
  BY DEF Types, Readable
<1> DEFINE s == cache.suspend
<1> HIDE DEF s
<1>2. cache = [mig EXCEPT !.suspend = s]
  BY <1>1 DEF s
<1>3. cache.attempts = mig.attempts /\ cache.job = mig.job /\ cache.cond = mig.cond
  BY <1>1, <1>2 DEF Migrations
<1> QED BY <1>1, <1>3 DEF Reads, Fresh, Terminal, Types, Readable

\* The recorded worker, as the pass sees it and as it is.
LEMMA WorkerSeen ==
  ASSUME Types, ContractInv, Reads
  PROVE  /\ mig.attempts \in 0..MaxAttempts /\ mig.job \in {0, mig.attempts}
         /\ mig.job # 0 => mig.job \in Attempts /\ mig.attempts \in Attempts
         /\ Worker = "none" /\ mig.job # 0 => workers[mig.job] = "none" /\ seen.workers[mig.job] = "none"
         /\ Worker \in {"ok", "failed"} =>
              mig.job # 0 /\ workers[mig.job] = Worker /\ seen.workers[mig.job] = Worker
<1>1. mig.attempts \in 0..MaxAttempts /\ mig.job \in {0, mig.attempts} /\ mig.job \in 0..MaxAttempts
  BY MigrationFields DEF Reads, Fresh, ContractInv, WorkerInv
<1>2. mig.job # 0 => mig.job \in Attempts /\ mig.attempts \in Attempts
  BY <1>1, CloneBounds DEF Attempts
<1>3. Worker = IF mig.job = 0 THEN "none" ELSE seen.workers[mig.job]
  BY DEF Worker, Reads, Fresh
<1> QED BY <1>1, <1>2, <1>3 DEF Reads, ContractInv, SeenInv, Finished

\* Before an attempt starts nothing writes, and nothing has been confirmed.
LEMMA StartFacts ==
  ASSUME Types, ContractInv, Reads, StartCase
  PROVE  /\ Handover = "none" /\ ~mig.cond.cloned /\ ~Asked("dryRun")
         /\ Preflighted # "running" /\ script.state # "live" /\ ~handover.live
         /\ mig.job # 0 => workers[mig.job] = "none" /\ seen.workers[mig.job] = "none"
<1>1. /\ Past /\ ~Asked("dryRun") /\ Worker = "none" /\ ~OnlyFinish(cache)
  BY DEF StartCase
<1>2. cache.cond = mig.cond /\ cache.attempts = mig.attempts
  BY DEF Reads, Fresh
<1>3. mig.job # 0 => workers[mig.job] = "none" /\ seen.workers[mig.job] = "none"
  BY <1>1, WorkerSeen
<1>4. Handover = "none" /\ ~mig.cond.cloned
  <2>1. CASE Asked("follow")
    BY <2>1 DEF ContractInv, CopyInv, Confirmed
  <2>2. CASE ~Asked("follow")
    <3>1. ~mig.cond.cloned /\ (Asked("owner") => SeenHandover = "none")
      BY <1>1, <1>2, <2>2 DEF OnlyFinish, SeenHandover
    <3>2. SUFFICES ASSUME Handover # "none" PROVE FALSE
      BY <3>1
    <3>3. PICK n \in Attempts : seen.workers[n] = "ok" /\ (mig.job = n \/ workers[n] = "none")
      BY <3>1, <3>2 DEF ContractInv, UnseenInv, HandoverInv
    <3>4. mig.job = n /\ n # 0
      BY <3>3 DEF Reads, Attempts
    <3> QED BY <1>3, <3>3, <3>4
  <2> QED BY <2>1, <2>2
<1>5. Preflighted # "running" /\ script.state # "live"
  <2>1. CASE mig.attempts # 0
    BY <2>1 DEF ContractInv, GateInv, Preflighted
  <2>2. CASE mig.attempts = 0
    <3>1. seen.jobs["preflight"] = "ok" /\ "preflight" \in JobNames
      BY <1>1, <1>2, <2>2 DEF Past, JobNames
    <3>2. Preflighted = "ok"
      BY <3>1 DEF ContractInv, SeenInv, Finished, Reads, Preflighted
    <3> QED BY <3>2 DEF ContractInv, GateInv, Preflighted
  <2> QED BY <2>1, <2>2
<1>6. ~handover.live
  BY <1>4 DEF ContractInv, HandoverInv
<1> QED BY <1>1, <1>3, <1>4, <1>5, <1>6

\* On the finish path the workers are over.
LEMMA FinishFacts ==
  ASSUME Types, ContractInv, Reads, Finishing
  PROVE  /\ mig.attempts # 0 /\ ~Asked("follow") /\ ~Asked("dryRun")
         /\ \A n \in Attempts : ~WorkerLive(n)
         /\ mig.job # 0 => workers[mig.job] \in {"ok", "none"} /\ seen.workers[mig.job] \in {"ok", "none"}
         /\ Preflighted # "running" /\ script.state # "live"
         /\ SeenHandover = "none" /\ ~mig.cond.cloned => mig.job \in Attempts /\ seen.workers[mig.job] = "ok"
<1>1. ~Asked("dryRun") /\ (Worker = "ok" \/ (Worker = "none" /\ OnlyFinish(cache)))
  BY DEF Finishing
<1>2. CASE Worker = "ok"
  <2>1. mig.job # 0 /\ workers[mig.job] = "ok" /\ seen.workers[mig.job] = "ok" /\ mig.job \in Attempts
        /\ mig.job = mig.attempts /\ mig.attempts \in 1..MaxAttempts
    BY <1>2, WorkerSeen DEF Attempts
  <2>2. ~Asked("follow")
    BY <2>1 DEF ContractInv, CopyInv
  <2>3. ASSUME NEW n \in Attempts PROVE ~WorkerLive(n)
    <3>1. CASE n < mig.attempts
      BY <3>1 DEF ContractInv, WorkerInv
    <3>2. CASE n = mig.attempts
      BY <2>1, <3>2 DEF WorkerLive
    <3>3. CASE n = mig.attempts + 1
      BY <2>1, <3>3 DEF ContractInv, WorkerInv, WorkerLive
    <3>4. CASE n > mig.attempts + 1
      BY <3>4 DEF ContractInv, WorkerInv, WorkerLive
    <3> QED BY <2>1, <3>1, <3>2, <3>3, <3>4 DEF Attempts
  <2> QED BY <1>1, <2>1, <2>2, <2>3 DEF ContractInv, GateInv, Preflighted
<1>3. CASE Worker = "none" /\ OnlyFinish(cache)
  <2>1. ~Asked("follow") /\ (mig.cond.cloned \/ SeenHandover # "none")
    BY <1>3 DEF OnlyFinish, SeenHandover, Reads, Fresh
  <2>2. Confirmed
    BY <2>1 DEF Confirmed, Reads, JobNames, Handover, SeenHandover
  <2> QED BY <1>1, <2>1, <2>2 DEF ContractInv, CopyInv, GateInv, Preflighted
<1> QED BY <1>1, <1>2, <1>3

\* A copy that a pass takes for confirmed is whole.
LEMMA CountedFacts ==
  ASSUME CatalogGated, Types, ContractInv, Reads, Counted
  PROVE  ~Asked("allDatabases") => whole /\ counted = "whole"
<1>1. CASE cache.cond.cloned
  BY <1>1 DEF ContractInv, CopyInv, Confirmed, Reads, Fresh
<1>2. CASE ~cache.cond.cloned /\ ~Asked("allDatabases")
  <2>1. Finished(Catalog) /\ counted # "short"
    BY <1>2 DEF Counted, NeedsCatalog
  <2> QED BY <2>1 DEF ContractInv, SeenInv, CopyInv, Catalog, Types
<1> QED BY <1>1, <1>2

-----------------------------------------------------------------------------
(* What a pass does to the state the invariant is about. *)

Attempted == mig.attempts
Cloned == mig.cond.cloned

Live == script.state = "live"

SuspendEffect ==
  /\ Wrote(Attempted, 0, Cloned, FALSE, FALSE)
  /\ workers' = IF mig.job # 0 THEN [workers EXCEPT ![mig.job] = WorkerDeleted(@)] ELSE workers
  /\ Preflighted' \in {Preflighted, "none"} /\ Count' = Count
  /\ Handover' = IF SeenHandover \in {"running", "deleting"} THEN Deleted(Handover) ELSE Handover
  /\ \/ (Live' <=> Live) /\ UNCHANGED strays /\ (Live' => Preflighted' = Preflighted)
     \/ Live /\ ~Live' /\ strays' = strays + 1

\* A preflight or a catalog Job at most.
PrepareEffect ==
  /\ Wrote(Attempted, mig.job, Cloned, FALSE, FALSE)
  /\ UNCHANGED workers /\ Handover' = Handover
  /\ \/ Preflighted' = Preflighted
     \/ Attempted = 0 /\ seen.jobs["preflight"] = "none" /\ Preflighted = "none" /\ Preflighted' = "running"
  /\ Count' = Count \/ (Catalog = "none" /\ Count = "none" /\ Count' = "running")

\* A worker that failed is forgotten.
ForgetEffect ==
  /\ mig.job # 0 /\ workers[mig.job] = "failed" /\ seen.workers[mig.job] = "failed"
  /\ Wrote(Attempted, 0, Cloned, FALSE, FALSE)
  /\ UNCHANGED workers /\ Preflighted' = Preflighted /\ Count' = Count /\ Handover' = Handover

\* The next attempt, adopted or created.
StartEffect ==
  LET n == Attempted + 1 IN
  /\ Handover = "none" /\ ~Cloned /\ ~Asked("dryRun")
  /\ Preflighted # "running" /\ script.state # "live" /\ ~handover.live
  /\ mig.job # 0 => workers[mig.job] = "none" /\ seen.workers[mig.job] = "none"
  /\ n \in Attempts /\ Wrote(n, n, Cloned, FALSE, FALSE) /\ (n = 1 => UNCHANGED mishaps)
  /\ \/ workers[n] # "none" /\ UNCHANGED workers
     \/ /\ workers[n] = "none" /\ (n > 1 => ~WorkerLive(n - 1))
        /\ workers' = [workers EXCEPT ![n] = "running"]
  /\ Preflighted' = Preflighted /\ Count' = Count /\ Handover' = Handover

\* The copy is confirmed and the workers are over.
CopyDone ==
  /\ Attempted # 0 /\ ~Asked("follow") /\ ~Asked("dryRun")
  /\ \A n \in Attempts : ~WorkerLive(n)
  /\ mig.job # 0 => workers[mig.job] \in {"ok", "none"} /\ seen.workers[mig.job] \in {"ok", "none"}
  /\ Preflighted # "running" /\ script.state # "live"
  /\ ~Asked("allDatabases") => whole /\ counted = "whole"

ConfirmEffect ==
  /\ CopyDone /\ Wrote(Attempted, mig.job, TRUE, FALSE, FALSE)
  /\ UNCHANGED workers /\ Preflighted' = Preflighted /\ Count' = Count
  /\ \/ Handover' = Handover
     \/ /\ Asked("owner") /\ Handover = "none" /\ SeenHandover = "none" /\ Handover' = "running"
        /\ ~Cloned => mig.job \in Attempts /\ seen.workers[mig.job] = "ok"

FailEffect ==
  /\ Wrote(Attempted, mig.job, Cloned, TRUE, FALSE) \/ (CopyDone /\ Wrote(Attempted, mig.job, TRUE, TRUE, FALSE))
  /\ Preflighted # "running" /\ Handover # "running"
  /\ UNCHANGED workers /\ Preflighted' = Preflighted /\ Count' = Count /\ Handover' = Handover

CompleteEffect ==
  /\ \/ Asked("dryRun") /\ Attempted = 0 /\ Handover = "none" /\ Wrote(Attempted, mig.job, Cloned, FALSE, TRUE)
     \/ CopyDone /\ (Asked("owner") => NothingLeft) /\ Wrote(Attempted, mig.job, TRUE, FALSE, TRUE)
  /\ \A n \in Attempts : ~WorkerLive(n)
  /\ script.state # "live" /\ ~handover.live /\ Preflighted # "running" /\ Handover # "running"
  /\ UNCHANGED workers /\ Preflighted' = Preflighted /\ Count' = Count /\ Handover' = Handover

PassEffect ==
  /\ Reads
  /\ UNCHANGED <<spec, facts, blips, cache, seen, whole, counted, handover>>
  /\ \/ SuspendEffect
     \/ /\ (Live' <=> Live) /\ UNCHANGED strays
        /\ \/ PrepareEffect \/ ForgetEffect \/ StartEffect
           \/ ConfirmEffect \/ FailEffect \/ CompleteEffect

LEMMA Written ==
  ASSUME Reads, NEW n, NEW j, NEW cl, NEW f, NEW co, Update(n, j, cl, f, co)
  PROVE  Wrote(n, j, cl, f, co)
BY Updated DEF Update, Reads

LEMMA EnsureEffect ==
  ASSUME Types, NEW name \in JobNames, EnsureJob(name)
  PROVE  /\ \A other \in JobNames \ {name} : jobs'[other] = jobs[other]
         /\ \/ jobs'[name] = jobs[name]
            \/ seen.jobs[name] = "none" /\ jobs[name] = "none" /\ jobs'[name] = "running"
BY EnsureTyped DEF Types

LEMMA PassEffects ==
  ASSUME ~DeepLag, ~LoseFirst, CatalogGated, Types, ContractInv, Reconcile
  PROVE  PassEffect
<1>1. PassCase /\ Elsewhere /\ Readable /\ ~Terminal(cache)
  BY PassCases DEF Types
<1>2. Reads
  BY <1>1, PassReads
<1>3. /\ cache.attempts = Attempted /\ cache.job = mig.job /\ cache.cond = mig.cond /\ cache.cond.cloned = Cloned
  BY <1>2 DEF Reads, Fresh, Attempted, Cloned
<1>4. UNCHANGED <<spec, facts, blips, cache, seen, whole, counted, handover>>
  BY <1>1 DEF Elsewhere, targetVars
<1>5. ~SuspendCase => (Live' <=> Live) /\ UNCHANGED strays
  <2>1. GateCase /\ jobs' # jobs => ~Live
    BY DEF GateCase, EnsureJob, ContractInv, GateInv, Live
  <2>2. NoPod.state = "none"
    BY DEF NoPod
  <2> QED BY <1>1, <2>1, <2>2 DEF Live, PassCase, GateCase, DryRunCase, StartCase, FailedCase, CountCase, Counted,
                                  HandoverCase, CompareCase, CompleteCase, Finishing
<1>6. /\ jobs \in [JobNames -> JobStates] /\ "preflight" \in JobNames /\ "catalog" \in JobNames /\ "handover" \in JobNames
      /\ \A c \in Compares : c \notin {"preflight", "catalog", "handover"}
  BY DEF Types, JobNames, Compares
<1>7. UNCHANGED jobs => Preflighted' = Preflighted /\ Count' = Count /\ Handover' = Handover
  BY DEF Preflighted, Count, Handover
<1>8. CASE SuspendCase
  <2>1. Wrote(Attempted, 0, Cloned, FALSE, FALSE)
    BY <1>2, <1>3, <1>8, Written DEF SuspendCase
  <2>2. jobs' = Suspended(cache)
    BY <1>8 DEF SuspendCase
  <2>3. /\ Preflighted' \in {Preflighted, "none"} /\ Count' = Count
        /\ Handover' = IF SeenHandover \in {"running", "deleting"} THEN Deleted(Handover) ELSE Handover
    BY <1>6, <2>2 DEF Suspended, Preflighted, Count, Handover, SeenHandover
  <2>4. \/ (Live' <=> Live) /\ UNCHANGED strays /\ (Live' => Preflighted' = Preflighted)
        \/ Live /\ ~Live' /\ strays' = strays + 1
    BY <1>8 DEF SuspendCase, NoPod, Live, Preflighted
  <2>5. SuspendEffect
    BY <1>3, <1>8, <2>1, <2>3, <2>4 DEF SuspendCase, SuspendEffect
  <2> QED BY <1>2, <1>4, <2>5 DEF PassEffect
<1>9. CASE ~SuspendCase /\ GateCase
  <2>1. Attempted = 0 /\ UNCHANGED workers
    BY <1>3, <1>9 DEF GateCase
  <2>2. CASE /\ seen.jobs["preflight"] = "failed" /\ UNCHANGED jobs
             /\ Update(cache.attempts, cache.job, cache.cond.cloned, TRUE, FALSE)
    <3>1. Wrote(Attempted, mig.job, Cloned, TRUE, FALSE)
      BY <1>2, <1>3, <2>2, Written
    <3>2. Preflighted = "failed"
      BY <1>2, <1>6, <2>2 DEF ContractInv, SeenInv, Reads, Finished, Preflighted
    <3>3. Handover # "running"
      BY <2>1 DEF ContractInv, CopyInv, Confirmed, Attempted
    <3>4. FailEffect
      BY <1>7, <2>1, <2>2, <3>1, <3>2, <3>3 DEF FailEffect
    <3> QED BY <1>2, <1>4, <1>5, <1>9, <3>4 DEF PassEffect
  <2>3. CASE EnsureJob("preflight") /\ Update(cache.attempts, cache.job, cache.cond.cloned, FALSE, FALSE)
    <3>1. Wrote(Attempted, mig.job, Cloned, FALSE, FALSE)
      BY <1>2, <1>3, <2>3, Written
    <3>2. /\ \A other \in JobNames \ {"preflight"} : jobs'[other] = jobs[other]
          /\ \/ jobs'["preflight"] = jobs["preflight"]
             \/ seen.jobs["preflight"] = "none" /\ jobs["preflight"] = "none" /\ jobs'["preflight"] = "running"
      BY <1>6, <2>3, EnsureEffect
    <3>3. /\ Count' = Count /\ Handover' = Handover
          /\ \/ Preflighted' = Preflighted
             \/ seen.jobs["preflight"] = "none" /\ Preflighted = "none" /\ Preflighted' = "running"
      BY <1>6, <3>2 DEF Preflighted, Count, Handover
    <3>4. PrepareEffect
      BY <2>1, <3>1, <3>3 DEF PrepareEffect
    <3> QED BY <1>2, <1>4, <1>5, <1>9, <3>4 DEF PassEffect
  <2> QED BY <1>9, <2>2, <2>3 DEF GateCase
<1>10. CASE ~SuspendCase /\ DryRunCase
  <2>1. Wrote(Attempted, mig.job, Cloned, FALSE, TRUE)
    BY <1>2, <1>3, <1>10, Written DEF DryRunCase
  <2>2. /\ Asked("dryRun") /\ UNCHANGED <<jobs, workers>> /\ Attempted = 0 /\ Handover = "none"
    BY <1>10 DEF DryRunCase, ContractInv, CopyInv, Confirmed, Attempted
  <2>3. Preflighted = "ok" /\ script.state # "live"
    <3>1. seen.jobs["preflight"] = "ok"
      BY <1>3, <1>10, <2>2 DEF DryRunCase, Past
    <3>2. Preflighted = "ok"
      BY <1>2, <1>6, <3>1 DEF ContractInv, SeenInv, Reads, Finished, Preflighted
    <3> QED BY <3>2 DEF ContractInv, GateInv, Preflighted
  <2>4. ~handover.live
    BY <2>2 DEF ContractInv, HandoverInv
  <2>5. ASSUME NEW n \in Attempts PROVE ~WorkerLive(n)
    <3>1. n = 1 \/ n > 1
      BY DEF Attempts
    <3> QED BY <2>2, <3>1 DEF ContractInv, WorkerInv, WorkerLive, Attempted
  <2>6. CompleteEffect
    BY <1>7, <2>1, <2>2, <2>3, <2>4, <2>5 DEF CompleteEffect
  <2> QED BY <1>2, <1>4, <1>5, <1>10, <2>6 DEF PassEffect
<1>11. CASE ~SuspendCase /\ StartCase
  <2> DEFINE n == Attempted + 1
  <2>1. /\ Handover = "none" /\ ~Cloned /\ ~Asked("dryRun")
        /\ Preflighted # "running" /\ script.state # "live" /\ ~handover.live
        /\ mig.job # 0 => workers[mig.job] = "none" /\ seen.workers[mig.job] = "none"
    BY <1>2, <1>11, StartFacts DEF Cloned
  <2>2. UNCHANGED jobs
    BY <1>11 DEF StartCase
  <2>3. Recorded(n) => Wrote(n, n, Cloned, FALSE, FALSE) /\ (n = 1 => UNCHANGED mishaps)
    BY <1>2, <1>3, Written DEF Recorded
  <2>4. \/ n \in Attempts /\ workers[n] # "none" /\ Recorded(n) /\ UNCHANGED workers
        \/ n \notin Attempts /\ UNCHANGED workers /\ Update(cache.attempts, cache.job, cache.cond.cloned, TRUE, FALSE)
        \/ /\ n \in Attempts /\ workers[n] = "none" /\ (n > 1 => ~WorkerLive(n - 1))
           /\ workers' = [workers EXCEPT ![n] = "running"] /\ Recorded(n)
    BY <1>3, <1>11 DEF StartCase
  <2> HIDE DEF n
  <2>5. CASE n \in Attempts /\ workers[n] # "none" /\ Recorded(n) /\ UNCHANGED workers
    <3>1. StartEffect
      BY <1>7, <2>1, <2>2, <2>3, <2>5 DEF StartEffect, n
    <3> QED BY <1>2, <1>4, <1>5, <1>11, <3>1 DEF PassEffect
  <2>6. CASE n \notin Attempts /\ UNCHANGED workers /\ Update(cache.attempts, cache.job, cache.cond.cloned, TRUE, FALSE)
    <3>1. Wrote(Attempted, mig.job, Cloned, TRUE, FALSE)
      BY <1>2, <1>3, <2>6, Written
    <3>2. FailEffect
      BY <1>7, <2>1, <2>2, <2>6, <3>1 DEF FailEffect
    <3> QED BY <1>2, <1>4, <1>5, <1>11, <3>2 DEF PassEffect
  <2>7. CASE /\ n \in Attempts /\ workers[n] = "none" /\ (n > 1 => ~WorkerLive(n - 1))
             /\ workers' = [workers EXCEPT ![n] = "running"] /\ Recorded(n)
    <3>1. StartEffect
      BY <1>7, <2>1, <2>2, <2>3, <2>7 DEF StartEffect, n
    <3> QED BY <1>2, <1>4, <1>5, <1>11, <3>1 DEF PassEffect
  <2> QED BY <2>4, <2>5, <2>6, <2>7
<1>12. CASE ~SuspendCase /\ FailedCase
  <2>1. /\ Worker = "failed" /\ UNCHANGED <<jobs, workers>>
        /\ mig.job # 0 /\ mig.job \in Attempts /\ mig.attempts # 0
        /\ workers[mig.job] = "failed" /\ seen.workers[mig.job] = "failed"
    BY <1>2, <1>12, WorkerSeen DEF FailedCase, Attempts
  <2>2. CASE Update(cache.attempts, cache.job, cache.cond.cloned, TRUE, FALSE)
    <3>1. Wrote(Attempted, mig.job, Cloned, TRUE, FALSE)
      BY <1>2, <1>3, <2>2, Written
    <3>2. Handover # "running" /\ Preflighted # "running"
      BY <2>1 DEF ContractInv, CopyInv, GateInv, Confirmed, Preflighted
    <3>3. FailEffect
      BY <1>7, <2>1, <3>1, <3>2 DEF FailEffect
    <3> QED BY <1>2, <1>4, <1>5, <1>12, <3>3 DEF PassEffect
  <2>3. CASE Update(cache.attempts, 0, cache.cond.cloned, FALSE, FALSE)
    <3>1. Wrote(Attempted, 0, Cloned, FALSE, FALSE)
      BY <1>2, <1>3, <2>3, Written
    <3>2. ForgetEffect
      BY <1>7, <2>1, <3>1 DEF ForgetEffect
    <3> QED BY <1>2, <1>4, <1>5, <1>12, <3>2 DEF PassEffect
  <2> QED BY <1>12, <2>2, <2>3 DEF FailedCase
<1>13. ASSUME Counted PROVE CopyDone /\ UNCHANGED workers
  <2>1. Finishing
    BY <1>13 DEF Counted
  <2> QED BY <1>2, <1>13, <2>1, FinishFacts, CountedFacts DEF CopyDone, Attempted, Finishing
<1>14. CASE ~SuspendCase /\ CountCase
  <2>1. Finishing /\ UNCHANGED workers /\ ~Cloned /\ ~Asked("allDatabases")
    BY <1>3, <1>14 DEF CountCase, Finishing, NeedsCatalog
  <2>2. CASE ~Finished(Catalog) /\ EnsureJob("catalog") /\ Update(cache.attempts, cache.job, cache.cond.cloned, FALSE, FALSE)
    <3>1. Wrote(Attempted, mig.job, Cloned, FALSE, FALSE)
      BY <1>2, <1>3, <2>2, Written
    <3>2. /\ \A other \in JobNames \ {"catalog"} : jobs'[other] = jobs[other]
          /\ \/ jobs'["catalog"] = jobs["catalog"]
             \/ seen.jobs["catalog"] = "none" /\ jobs["catalog"] = "none" /\ jobs'["catalog"] = "running"
      BY <1>6, <2>2, EnsureEffect
    <3>3. /\ Preflighted' = Preflighted /\ Handover' = Handover
          /\ Count' = Count \/ (Catalog = "none" /\ Count = "none" /\ Count' = "running")
      BY <1>6, <3>2 DEF Preflighted, Count, Handover, Catalog
    <3>4. PrepareEffect
      BY <2>1, <3>1, <3>3 DEF PrepareEffect
    <3> QED BY <1>2, <1>4, <1>5, <1>14, <3>4 DEF PassEffect
  <2>3. CASE counted = "short" /\ UNCHANGED jobs /\ Update(cache.attempts, cache.job, cache.cond.cloned, TRUE, FALSE)
    <3>1. Wrote(Attempted, mig.job, Cloned, TRUE, FALSE)
      BY <1>2, <1>3, <2>3, Written
    <3>2. Preflighted # "running"
      BY <1>2, <2>1, FinishFacts
    <3>3. Handover # "running"
      BY <2>1, <2>3 DEF ContractInv, CopyInv, Confirmed
    <3>4. FailEffect
      BY <1>7, <2>1, <2>3, <3>1, <3>2, <3>3 DEF FailEffect
    <3> QED BY <1>2, <1>4, <1>5, <1>14, <3>4 DEF PassEffect
  <2> QED BY <1>14, <2>2, <2>3 DEF CountCase
<1>15. CASE ~SuspendCase /\ HandoverCase
  <2>1. CopyDone /\ UNCHANGED workers /\ Asked("owner") /\ SeenHandover # "ok" /\ EnsureJob("handover")
    BY <1>13, <1>15 DEF HandoverCase
  <2>2. Wrote(Attempted, mig.job, TRUE, SeenHandover = "failed", FALSE)
    BY <1>2, <1>3, <1>15, Written DEF HandoverCase
  <2>3. /\ Preflighted' = Preflighted /\ Count' = Count
        /\ \/ Handover' = Handover
           \/ SeenHandover = "none" /\ Handover = "none" /\ Handover' = "running"
    BY <1>6, <2>1, EnsureEffect DEF Preflighted, Count, Handover, SeenHandover
  <2>4. SeenHandover = "none" /\ ~Cloned => mig.job \in Attempts /\ seen.workers[mig.job] = "ok"
    BY <1>2, <1>15, FinishFacts DEF HandoverCase, Counted, Cloned
  <2>5. CASE SeenHandover = "failed"
    <3>1. Handover = "failed" /\ Handover' = Handover
      BY <1>2, <1>6, <2>3, <2>5 DEF ContractInv, SeenInv, Reads, Finished, Handover, SeenHandover
    <3>2. Wrote(Attempted, mig.job, TRUE, TRUE, FALSE)
      BY <2>2, <2>5
    <3>3. FailEffect
      BY <2>1, <2>3, <3>1, <3>2 DEF FailEffect, CopyDone
    <3> QED BY <1>2, <1>4, <1>5, <1>15, <3>3 DEF PassEffect
  <2>6. CASE SeenHandover # "failed"
    <3>1. (SeenHandover = "failed") = FALSE
      BY <2>6
    <3>2. Wrote(Attempted, mig.job, TRUE, FALSE, FALSE)
      BY <2>2, <3>1
    <3>3. ConfirmEffect
      BY <2>1, <2>3, <2>4, <3>2 DEF ConfirmEffect
    <3> QED BY <1>2, <1>4, <1>5, <1>15, <3>3 DEF PassEffect
  <2> QED BY <2>5, <2>6
<1>16. CASE ~SuspendCase /\ CompareCase
  <2>1. CopyDone /\ UNCHANGED workers
    BY <1>13, <1>16 DEF CompareCase
  <2>2. Wrote(Attempted, mig.job, TRUE, FALSE, FALSE)
    BY <1>2, <1>3, <1>16, Written DEF CompareCase
  <2>3. Preflighted' = Preflighted /\ Count' = Count /\ Handover' = Handover
    <3> DEFINE open == FirstOpen(ChecksOf(spec))
    <3>1. jobs' = [c \in JobNames |-> IF c \in open /\ seen.jobs[c] = "none" /\ jobs[c] = "none"
                                      THEN "running" ELSE jobs[c]]
      BY <1>16 DEF CompareCase
    <3>2. open \subseteq Compares
      BY OpenChecks
    <3> HIDE DEF open
    <3> QED BY <1>6, <3>1, <3>2 DEF Preflighted, Count, Handover
  <2>4. ConfirmEffect
    BY <2>1, <2>2, <2>3 DEF ConfirmEffect
  <2> QED BY <1>2, <1>4, <1>5, <1>16, <2>4 DEF PassEffect
<1>17. CASE ~SuspendCase /\ CompleteCase
  <2>1. CopyDone /\ UNCHANGED <<jobs, workers>> /\ (Asked("owner") => SeenHandover = "ok")
    BY <1>13, <1>17 DEF CompleteCase
  <2>2. Wrote(Attempted, mig.job, TRUE, FALSE, TRUE)
    BY <1>2, <1>3, <1>17, Written DEF CompleteCase
  <2>3. Asked("owner") => Handover = "ok" /\ NothingLeft
    BY <1>2, <1>6, <2>1 DEF ContractInv, SeenInv, HandoverInv, Reads, Finished, Handover, SeenHandover
  <2>4. ~Asked("owner") => Handover = "none"
    BY DEF ContractInv, HandoverInv
  <2>5. ~handover.live
    BY <2>3, <2>4 DEF ContractInv, HandoverInv
  <2>6. CompleteEffect
    BY <1>7, <2>1, <2>2, <2>3, <2>4, <2>5 DEF CompleteEffect, CopyDone
  <2> QED BY <1>2, <1>4, <1>5, <1>17, <2>6 DEF PassEffect
<1> QED BY <1>1, <1>8, <1>9, <1>10, <1>11, <1>12, <1>14, <1>15, <1>16, <1>17 DEF PassCase

-----------------------------------------------------------------------------
(* A pass keeps the invariant. *)

LEMMA WroteFields ==
  ASSUME NEW n, NEW j, NEW cl, NEW f \in BOOLEAN, NEW co \in BOOLEAN, Wrote(n, j, cl, f, co)
  PROVE  \/ mig'.attempts = n /\ mig'.job = j /\ mig'.cond.cloned = cl /\ Terminal(mig') = (f \/ co)
         \/ mig' = mig /\ mishaps' # mishaps
BY MigrationFields DEF Wrote, Fields, Terminal

\* A deleted worker is live while it was, and gone otherwise.
LEMMA DeletedWorker ==
  ASSUME NEW s \in JobStates
  PROVE  /\ s \in {"running", "deleting"} => WorkerDeleted(s) = "deleting"
         /\ s \notin {"running", "deleting"} => WorkerDeleted(s) = "none"
BY DEF WorkerDeleted, Deleted, Finished, JobStates

LEMMA PassWorkers ==
  ASSUME Types, ContractInv, PassEffect, NEW n \in Attempts
  PROVE  \/ workers'[n] = workers[n]
         \/ /\ SuspendEffect /\ n = mig.job
            /\ workers'[n] = IF workers[n] \in {"running", "deleting"} THEN "deleting" ELSE "none"
         \/ StartEffect /\ n = Attempted + 1 /\ workers[n] = "none" /\ workers'[n] = "running"
<1>1. workers \in [Attempts -> JobStates]
  BY DEF Types
<1>2. CASE SuspendEffect
  <2>1. workers'[n] = workers[n] \/ (n = mig.job /\ workers'[n] = WorkerDeleted(workers[n]))
    BY <1>1, <1>2 DEF SuspendEffect
  <2> QED BY <1>1, <1>2, <2>1, DeletedWorker
<1>3. CASE StartEffect
  BY <1>1, <1>3 DEF StartEffect
<1>4. CASE UNCHANGED workers
  BY <1>4
<1> QED BY <1>2, <1>3, <1>4 DEF PassEffect, PrepareEffect, ForgetEffect, ConfirmEffect, FailEffect, CompleteEffect

\* What becomes of the status.
LEMMA PassStatus ==
  ASSUME Types, ContractInv, PassEffect
  PROVE  \/ mig' = mig
         \/ /\ mig'.attempts = Attempted /\ mig'.job \in {0, mig.job}
            /\ mig'.job = mig.job \/ SuspendEffect \/ ForgetEffect
            /\ \/ mig'.cond.cloned = Cloned
               \/ mig'.cond.cloned = TRUE /\ CopyDone
            /\ Terminal(mig') => FailEffect \/ CompleteEffect
         \/ /\ StartEffect
            /\ mig'.attempts = Attempted + 1 /\ mig'.job = Attempted + 1 /\ mig'.cond.cloned = Cloned
            /\ ~Terminal(mig')
<1>1. CASE SuspendEffect
  BY <1>1, WroteFields DEF SuspendEffect
<1>2. CASE PrepareEffect
  BY <1>2, WroteFields DEF PrepareEffect
<1>3. CASE ForgetEffect
  BY <1>3, WroteFields DEF ForgetEffect
<1>4. CASE StartEffect
  <2> DEFINE n == Attempted + 1
  <2>1. Wrote(n, n, Cloned, FALSE, FALSE)
    BY <1>4 DEF StartEffect
  <2> HIDE DEF n
  <2>2. \/ mig'.attempts = n /\ mig'.job = n /\ mig'.cond.cloned = Cloned /\ Terminal(mig') = FALSE
        \/ mig' = mig
    BY <2>1, WroteFields
  <2> QED BY <1>4, <2>2 DEF n
<1>5. CASE ConfirmEffect
  BY <1>5, WroteFields DEF ConfirmEffect
<1>6. CASE FailEffect
  BY <1>6, WroteFields DEF FailEffect
<1>7. CASE CompleteEffect
  BY <1>7, WroteFields DEF CompleteEffect
<1> QED BY <1>1, <1>2, <1>3, <1>4, <1>5, <1>6, <1>7 DEF PassEffect

\* What becomes of the Jobs.
LEMMA PassJobStates ==
  ASSUME PassEffect
  PROVE  /\ \/ Preflighted' = Preflighted \/ (SuspendEffect /\ Preflighted' = "none")
            \/ /\ PrepareEffect /\ Attempted = 0 /\ seen.jobs["preflight"] = "none"
               /\ Preflighted = "none" /\ Preflighted' = "running"
         /\ Count' = Count \/ (Count = "none" /\ Count' = "running")
         /\ \/ Handover' = Handover
            \/ SuspendEffect /\ SeenHandover \in {"running", "deleting"} /\ Handover' = Deleted(Handover)
            \/ /\ ConfirmEffect /\ Asked("owner") /\ SeenHandover = "none"
               /\ Handover = "none" /\ Handover' = "running"
BY DEF PassEffect, SuspendEffect, PrepareEffect, ForgetEffect, StartEffect, ConfirmEffect, FailEffect, CompleteEffect

LEMMA PassSeenInv ==
  ASSUME Types, ContractInv, PassEffect
  PROVE  SeenInv'
<1>1. UNCHANGED <<seen, counted>> /\ Reads
  BY DEF PassEffect
<1>2. ASSUME NEW n \in Attempts, Finished(seen.workers[n])
      PROVE  workers'[n] \in {seen.workers[n], "none"}
  <2>1. workers[n] \in {seen.workers[n], "none"} /\ seen.workers[n] \in {"ok", "failed"}
    BY <1>2 DEF ContractInv, SeenInv, Finished
  <2>2. workers[n] # "none"
    BY <1>1, <2>1 DEF Reads
  <2> QED BY <2>1, <2>2, PassWorkers
<1>3. Finished(seen.jobs["preflight"]) => Preflighted' \in {seen.jobs["preflight"], "none"}
  BY PassJobStates DEF ContractInv, SeenInv, Finished, Preflighted
<1>4. Finished(SeenHandover) => Handover' \in {SeenHandover, "none"}
  BY PassJobStates DEF ContractInv, SeenInv, Finished, Handover, SeenHandover
<1>5. Finished(Count') \/ Finished(seen.jobs["catalog"]) => counted # "none"
  BY PassJobStates DEF ContractInv, SeenInv, Finished, Count
<1> QED BY <1>1, <1>2, <1>3, <1>4, <1>5 DEF SeenInv, Preflighted, Handover, SeenHandover, Count

LEMMA PassWorkerInv ==
  ASSUME Types, ContractInv, PassEffect
  PROVE  WorkerInv'
<1>0. /\ Attempted \in 0..MaxAttempts /\ mig.job \in {0, Attempted} /\ Attempts = 1..MaxAttempts
      /\ Attempted = mig.attempts /\ seen' = seen /\ Reads
  BY WorkerSeen DEF PassEffect, Attempted, Attempts
<1>1. WorkerInv
  BY DEF ContractInv
<1>2. CASE StartEffect
  <2> DEFINE n == Attempted + 1
  <2>1. /\ n \in Attempts /\ Wrote(n, n, Cloned, FALSE, FALSE) /\ (n = 1 => UNCHANGED mishaps)
        /\ mig.job # 0 => workers[mig.job] = "none" /\ seen.workers[mig.job] = "none"
        /\ \/ workers[n] # "none" /\ UNCHANGED workers
           \/ /\ workers[n] = "none" /\ (n > 1 => ~WorkerLive(n - 1))
              /\ workers' = [workers EXCEPT ![n] = "running"]
    BY <1>2 DEF StartEffect
  <2>2. n - 1 = Attempted /\ Attempted < n /\ Attempted \in Nat
    BY <1>0
  <2>3. \A k \in Attempts : k # n => workers'[k] = workers[k]
    BY <2>1 DEF Types
  <2>4. \A k \in Attempts : k < n => ~WorkerLive(k)
    <3> SUFFICES ASSUME NEW k \in Attempts, k < n PROVE ~WorkerLive(k)
      OBVIOUS
    <3>1. CASE k < Attempted
      BY <1>0, <1>1, <3>1 DEF WorkerInv
    <3>2. CASE k = Attempted
      <4>1. Attempted # 0 /\ n > 1
        BY <1>0, <3>2
      <4> QED BY <1>0, <1>1, <2>1, <2>2, <3>2, <4>1 DEF WorkerInv
    <3> QED BY <1>0, <3>1, <3>2
  <2>5. \A k \in Attempts : k < n => ~WorkerLive(k)'
    <3> SUFFICES ASSUME NEW k \in Attempts, k < n PROVE ~WorkerLive(k)'
      OBVIOUS
    <3>1. k # n
      BY <1>0, <2>1
    <3>2. workers'[k] = workers[k] /\ ~WorkerLive(k)
      BY <2>3, <2>4, <3>1
    <3> QED BY <3>2 DEF WorkerLive
  <2>6. \A k \in Attempts : k > n => workers'[k] = "none" /\ seen.workers[k] = "none"
    BY <1>0, <1>1, <2>2, <2>3 DEF WorkerInv
  <2>7. CASE mig'.attempts = n /\ mig'.job = n
    BY <1>0, <2>5, <2>6, <2>7 DEF WorkerInv
  <2>8. CASE mig' = mig /\ mishaps' # mishaps
    <3>1. n # 1 /\ Attempted # 0
      BY <2>1, <2>2, <2>8
    <3>2. mig.job # 0 => workers'[mig.job] = "none" /\ seen.workers[mig.job] = "none"
      BY <1>0, <2>1, <2>3
    <3> QED BY <1>0, <2>2, <2>5, <2>6, <2>8, <3>1, <3>2 DEF WorkerInv
  <2>9. (mig'.attempts = n /\ mig'.job = n) \/ (mig' = mig /\ mishaps' # mishaps)
    <3> HIDE DEF n
    <3> QED BY <2>1, WroteFields
  <2> QED BY <2>7, <2>8, <2>9
<1>3. CASE ~StartEffect
  <2>1. mig'.attempts = Attempted /\ mig'.job \in {0, mig.job}
    BY <1>0, <1>3, PassStatus
  <2>2. ASSUME NEW n \in Attempts
        PROVE  (WorkerLive(n)' <=> WorkerLive(n)) /\ (workers[n] = "none" => workers'[n] = "none")
    BY <1>3, PassWorkers DEF WorkerLive
  <2>3. ASSUME NEW n \in Attempts, workers'[n] # workers[n] PROVE n = mig.job /\ mig.job # 0
    BY <1>0, <1>3, <2>3, PassWorkers
  <2>4. \A n \in Attempts : n > Attempted => workers'[n] = workers[n]
    BY <1>0, <2>3
  <2> QED BY <1>0, <1>1, <2>1, <2>2, <2>4 DEF WorkerInv
<1> QED BY <1>2, <1>3

LEMMA PassGateInv ==
  ASSUME Types, ContractInv, PassEffect
  PROVE  GateInv'
<1>1. /\ Live => Preflighted = "running"
      /\ mig.attempts # 0 => ~Live /\ Preflighted # "running"
  BY DEF ContractInv, GateInv, Preflighted, Live
<1>2. Live' => Live /\ Preflighted' = "running"
  <2>1. CASE SuspendEffect
    BY <1>1, <2>1 DEF SuspendEffect
  <2>2. CASE ~SuspendEffect
    BY <1>1, <2>2, PassJobStates DEF PassEffect
  <2> QED BY <2>1, <2>2
<1>3. mig'.attempts # 0 => ~Live /\ Preflighted' # "running"
  <2>1. CASE StartEffect
    BY <2>1 DEF StartEffect, Live
  <2>2. CASE ~StartEffect
    <3>1. mig'.attempts = Attempted
      BY <2>2, PassStatus DEF Attempted
    <3> QED BY <1>1, <3>1, PassJobStates DEF Attempted
  <2> QED BY <2>1, <2>2
<1> QED BY <1>2, <1>3 DEF GateInv, Preflighted, Live

LEMMA PassCopyInv ==
  ASSUME Types, ContractInv, PassEffect
  PROVE  CopyInv'
<1>0. /\ UNCHANGED <<spec, seen, whole, counted>> /\ Attempted = mig.attempts /\ Cloned = mig.cond.cloned
      /\ mig.job \in {0, Attempted} /\ (mig.job # 0 => mig.job \in Attempts)
  BY WorkerSeen DEF PassEffect, Attempted, Cloned
<1>1. CopyInv
  BY DEF ContractInv
<1>2. \A option : Asked(option)' = Asked(option)
  BY <1>0 DEF Asked
<1>3. CASE StartEffect
  <2>1. /\ Handover = "none" /\ ~Cloned /\ ~Asked("dryRun") /\ Handover' = Handover
    BY <1>3 DEF StartEffect
  <2>2. mig'.cond.cloned = Cloned
    <3> DEFINE n == Attempted + 1
    <3>1. Wrote(n, n, Cloned, FALSE, FALSE)
      BY <1>3 DEF StartEffect
    <3> HIDE DEF n
    <3> QED BY <1>0, <3>1, WroteFields
  <2>3. ~Confirmed'
    BY <2>1, <2>2 DEF Confirmed
  <2>4. \A n \in Attempts : workers'[n] = "ok" => workers[n] = "ok"
    BY PassWorkers
  <2> QED BY <1>0, <1>1, <1>2, <2>1, <2>3, <2>4 DEF CopyInv
<1>4. CASE ~StartEffect
  <2>1. /\ mig'.attempts = Attempted /\ mig'.job \in {0, mig.job}
        /\ mig'.cond.cloned = Cloned \/ (mig'.cond.cloned = TRUE /\ CopyDone)
    BY <1>0, <1>4, PassStatus
  <2>2. ASSUME NEW n \in Attempts
        PROVE  /\ WorkerLive(n)' <=> WorkerLive(n)
               /\ workers'[n] = workers[n] \/ workers'[n] \in {"none", "deleting"}
               /\ workers[n] \in {"ok", "none"} => workers'[n] \in {"ok", "none"}
    BY <1>4, PassWorkers DEF WorkerLive
  <2>3. Confirmed' => Confirmed \/ CopyDone
    <3>1. Handover' # "none" => Handover # "none" \/ CopyDone
      BY PassJobStates DEF Deleted, ConfirmEffect
    <3> QED BY <1>0, <2>1, <3>1 DEF Confirmed
  <2>4. CopyDone \/ Confirmed =>
          /\ mig.attempts # 0 /\ \A n \in Attempts : ~WorkerLive(n)
          /\ mig.job # 0 => workers[mig.job] \in {"ok", "none"} /\ seen.workers[mig.job] \in {"ok", "none"}
          /\ ~Asked("allDatabases") => whole /\ counted = "whole"
          /\ ~Asked("follow")
    BY <1>0, <1>1 DEF CopyInv, CopyDone
  <2>5. Confirmed' =>
          /\ mig'.attempts # 0 /\ \A n \in Attempts : ~WorkerLive(n)'
          /\ mig'.job # 0 => workers'[mig'.job] \in {"ok", "none"} /\ seen'.workers[mig'.job] \in {"ok", "none"}
          /\ ~Asked("allDatabases")' => whole' /\ counted' = "whole"
          /\ ~Asked("follow")'
    BY <1>0, <1>2, <2>1, <2>2, <2>3, <2>4
  <2>6. Asked("follow")' => \A n \in Attempts : workers'[n] # "ok" /\ seen'.workers[n] # "ok"
    BY <1>0, <1>1, <1>2, <2>2 DEF CopyInv
  <2>7. Asked("dryRun")' => mig'.attempts = 0
    BY <1>0, <1>1, <1>2, <2>1 DEF CopyInv
  <2> QED BY <1>0, <1>1, <2>5, <2>6, <2>7 DEF CopyInv
<1> QED BY <1>3, <1>4

LEMMA PassHandoverInv ==
  ASSUME Types, ContractInv, PassEffect
  PROVE  HandoverInv'
<1>1. UNCHANGED <<spec, seen, handover>>
  BY DEF PassEffect
<1>2. HandoverInv
  BY DEF ContractInv
<1>3. Handover' # "none" => Handover # "none" \/ Asked("owner")
  BY PassJobStates DEF Deleted
<1>4. Handover \in {"running", "deleting"} => Handover' \in {"running", "deleting"}
  BY PassJobStates DEF Deleted
<1>5. Handover' = "ok" => Handover = "ok"
  BY PassJobStates DEF Deleted
<1> QED BY <1>1, <1>2, <1>3, <1>4, <1>5 DEF HandoverInv, SeenHandover, Asked, NothingLeft

LEMMA PassUnseenInv ==
  ASSUME Types, ContractInv, PassEffect
  PROVE  UnseenInv'
<1>0. UNCHANGED seen /\ Reads /\ (mig.job # 0 => mig.job \in Attempts)
  BY WorkerSeen DEF PassEffect
<1> SUFFICES ASSUME Handover' # "none", SeenHandover = "none", ~mig'.cond.cloned
             PROVE  \E n \in Attempts : seen.workers[n] = "ok" /\ (mig'.job = n \/ workers'[n] = "none")
  BY <1>0 DEF UnseenInv, SeenHandover
<1>1. ~StartEffect
  BY DEF StartEffect
<1>2. /\ mig'.job \in {0, mig.job} /\ (mig'.job = mig.job \/ SuspendEffect \/ ForgetEffect)
      /\ mig'.cond.cloned = Cloned \/ mig'.cond.cloned = TRUE
  BY <1>1, PassStatus DEF Cloned
<1>3. ~Cloned /\ ~mig.cond.cloned
  BY <1>2 DEF Cloned
<1>4. CASE Handover # "none"
  <2>1. PICK n \in Attempts : seen.workers[n] = "ok" /\ (mig.job = n \/ workers[n] = "none")
    BY <1>3, <1>4 DEF ContractInv, UnseenInv
  <2>2. n = mig.job /\ n # 0 /\ workers[n] = "ok"
    BY <1>0, <2>1 DEF Reads, ContractInv, SeenInv, Finished, Attempts
  <2>3. CASE SuspendEffect
    <3>1. workers'[n] = "none"
      <4>1. workers'[n] = WorkerDeleted(workers[n])
        BY <2>2, <2>3 DEF SuspendEffect, Types
      <4> QED BY <2>2, <4>1 DEF WorkerDeleted, Finished
    <3> QED BY <2>1, <3>1
  <2>4. ~ForgetEffect
    BY <2>1, <2>2 DEF ForgetEffect
  <2> QED BY <1>2, <2>1, <2>2, <2>3, <2>4
<1>5. CASE Handover = "none"
  <2>1. ConfirmEffect /\ Handover' # Handover
    BY <1>5, PassJobStates DEF Deleted
  <2>2. mig.job \in Attempts /\ seen.workers[mig.job] = "ok"
    BY <1>3, <2>1 DEF ConfirmEffect
  <2>3. mig'.job = mig.job
    BY <2>1, WroteFields DEF ConfirmEffect
  <2> QED BY <2>2, <2>3
<1> QED BY <1>4, <1>5

LEMMA PassVerdictInv ==
  ASSUME Types, ContractInv, PassEffect
  PROVE  VerdictInv'
<1> SUFFICES ASSUME Terminal(mig') PROVE Preflighted' # "running" /\ Handover' # "running"
  BY DEF VerdictInv, Preflighted
<1>1. ~Terminal(mig)
  BY DEF PassEffect, Reads
<1>2. FailEffect \/ CompleteEffect
  BY <1>1, PassStatus
<1> QED BY <1>2 DEF FailEffect, CompleteEffect

LEMMA PassInv ==
  ASSUME Types, ContractInv, PassEffect
  PROVE  ContractInv'
BY PassSeenInv, PassWorkerInv, PassGateInv, PassCopyInv, PassHandoverInv, PassUnseenInv, PassVerdictInv DEF ContractInv

-----------------------------------------------------------------------------
(* The other steps keep the invariant. *)

\* Steps of the pods that end nothing, of the informer of Migrations and of users.
LEMMA QuietSteps ==
  ASSUME Types, ContractInv, UNCHANGED <<spec, clusterVars, whole, counted>>,
         mig'.attempts = mig.attempts, mig'.job = mig.job, mig'.cond = mig.cond,
         script'.state = "live" => Preflighted = "running",
         handover'.live => handover.live \/ Handover = "running",
         NothingLeft => NothingLeft'
  PROVE  ContractInv'
<1>1. UNCHANGED <<jobs, workers, seen>> /\ \A option : Asked(option)' = Asked(option)
  BY DEF clusterVars, Asked
<1>2. Handover' = Handover /\ SeenHandover' = SeenHandover /\ (Confirmed' <=> Confirmed) /\ (Terminal(mig') <=> Terminal(mig))
  BY <1>1 DEF Handover, SeenHandover, Confirmed, Terminal
<1>3. \A n : WorkerLive(n)' <=> WorkerLive(n)
  BY <1>1 DEF WorkerLive
<1>4. SeenInv' /\ WorkerInv' /\ UnseenInv'
  BY <1>1, <1>2, <1>3 DEF ContractInv, SeenInv, WorkerInv, UnseenInv
<1>5. GateInv'
  BY <1>1 DEF ContractInv, GateInv, Preflighted
<1>6. CopyInv'
  BY <1>1, <1>2, <1>3 DEF ContractInv, CopyInv
<1>7. HandoverInv' /\ VerdictInv'
  BY <1>1, <1>2 DEF ContractInv, HandoverInv, VerdictInv
<1> QED BY <1>4, <1>5, <1>6, <1>7 DEF ContractInv

\* A worker that ends, or one that has ended and goes.
LEMMA WorkerEnds ==
  ASSUME Types, ContractInv, NEW n \in Attempts, NEW s,
         workers' = [workers EXCEPT ![n] = s],
         \/ workers[n] = "running" /\ s \in {"ok", "failed"}
         \/ workers[n] \in {"deleting", "ok", "failed"} /\ s = "none",
         s = "ok" => ~Asked("follow"), whole' \in {whole, TRUE},
         UNCHANGED <<spec, script, mig, jobs, seen, counted, handover>>
  PROVE  ContractInv'
<1>1. \A option : Asked(option)' = Asked(option)
  BY DEF Asked
<1>2. /\ workers'[n] = s /\ \A k \in Attempts : k # n => workers'[k] = workers[k]
      /\ mig.job \in {0, mig.attempts} /\ (mig.job # 0 => mig.job \in Attempts)
      /\ (mig.attempts # 0 => mig.attempts \in Attempts) /\ mig.attempts \in 0..MaxAttempts
  BY MigrationFields, CloneBounds DEF Types, ContractInv, WorkerInv, Attempts
<1>3. \A k \in Attempts : /\ WorkerLive(k)' => WorkerLive(k)
                          /\ workers[k] = "none" => workers'[k] = "none"
  BY <1>2 DEF WorkerLive
<1>4. Handover' = Handover /\ SeenHandover' = SeenHandover /\ (Confirmed' <=> Confirmed) /\ (Terminal(mig') <=> Terminal(mig))
  BY DEF Handover, SeenHandover, Confirmed, Terminal
<1>5. SeenInv'
  BY <1>2 DEF ContractInv, SeenInv, Finished
<1>6. WorkerInv'
  <2>1. WorkerInv
    BY DEF ContractInv
  <2> QED BY <1>2, <1>3, <2>1 DEF WorkerInv
<1>7. GateInv' /\ HandoverInv' /\ VerdictInv'
  BY <1>1, <1>4 DEF ContractInv, GateInv, HandoverInv, VerdictInv, NothingLeft
<1>8. CopyInv'
  <2>1. CopyInv
    BY DEF ContractInv
  <2>2. workers[n] # "running" \/ ~Confirmed
    BY <2>1 DEF CopyInv, WorkerLive
  <2>3. Confirmed /\ mig.job # 0 => workers'[mig.job] \in {"ok", "none"}
    BY <1>2, <2>1, <2>2 DEF CopyInv
  <2> QED BY <1>1, <1>2, <1>3, <1>4, <2>1, <2>3 DEF CopyInv, Types
<1>9. UnseenInv'
  BY <1>3, <1>4 DEF ContractInv, UnseenInv
<1> QED BY <1>5, <1>6, <1>7, <1>8, <1>9 DEF ContractInv

\* A Job that ends, or one that has ended and goes.
LEMMA JobEnds ==
  ASSUME Types, ContractInv, UNCHANGED <<spec, script, mig, workers, seen, whole>>,
         \/ Preflighted' = Preflighted
         \/ Preflighted = "running" /\ Preflighted' \in {"ok", "failed"} /\ script.state # "live"
         \/ Finished(Preflighted) /\ Preflighted' = "none",
         \/ Count' = Count /\ counted' = counted
         \/ Count' = "ok" /\ counted' = IF whole THEN "whole" ELSE "short"
         \/ Finished(Count) /\ Count' = "none" /\ counted' = counted,
         \/ Handover' = Handover /\ handover' = handover
         \/ /\ Handover = "running" /\ Handover' \in {"running", "ok", "failed"}
            /\ ~handover'.live /\ handover'.done = handover.done /\ (Handover' = "ok" => NothingLeft)
         \/ Handover = "deleting" /\ Handover' = "none" /\ ~handover'.live /\ handover'.done = handover.done
         \/ Finished(Handover) /\ Handover' = "none" /\ handover' = handover
  PROVE  ContractInv'
<1>1. (\A option : Asked(option)' = Asked(option)) /\ SeenHandover' = SeenHandover /\ (Terminal(mig') <=> Terminal(mig))
  BY DEF Asked, SeenHandover, Terminal
<1>2. /\ \A k \in Attempts : WorkerLive(k)' <=> WorkerLive(k)
      /\ Confirmed' => Confirmed
      /\ NothingLeft' <=> NothingLeft
  BY DEF WorkerLive, Confirmed, NothingLeft
<1>3. SeenInv'
  <2>1. \A n \in Attempts : Finished(seen.workers[n]) => workers'[n] \in {seen'.workers[n], "none"}
    BY DEF ContractInv, SeenInv
  <2>2. Finished(seen.jobs["preflight"]) => Preflighted' \in {seen.jobs["preflight"], "none"}
    BY DEF ContractInv, SeenInv, Finished, Preflighted
  <2>3. Finished(SeenHandover) => Handover' \in {SeenHandover, "none"}
    BY DEF ContractInv, SeenInv, Finished, Handover, SeenHandover
  <2>4. Finished(Count') \/ Finished(seen.jobs["catalog"]) => counted' # "none"
    BY DEF ContractInv, SeenInv, Finished, Count
  <2> QED BY <2>1, <2>2, <2>3, <2>4 DEF SeenInv, Preflighted, Handover, SeenHandover, Count
<1>4. WorkerInv'
  <2>1. UNCHANGED <<mig, workers, seen>> /\ WorkerInv
    BY DEF ContractInv
  <2> QED BY <2>1 DEF WorkerInv, WorkerLive
<1>5. GateInv' /\ VerdictInv'
  <2>1. (Preflighted' = "running" => Preflighted = "running") /\ (Handover' = "running" => Handover = "running")
    BY DEF Finished
  <2>2. script.state = "live" => Preflighted' = "running"
    BY DEF ContractInv, GateInv, Preflighted, Finished
  <2> QED BY <1>1, <2>1, <2>2 DEF ContractInv, GateInv, VerdictInv, Preflighted
<1>6. CopyInv'
  <2>1. CopyInv
    BY DEF ContractInv
  <2>2. counted' # "nothing" /\ (counted' = "whole" => whole)
    BY <2>1 DEF CopyInv
  <2>3. Confirmed /\ ~Asked("allDatabases") => counted' = "whole"
    BY <2>1 DEF CopyInv
  <2> QED BY <1>1, <1>2, <2>1, <2>2, <2>3 DEF CopyInv
<1>7. HandoverInv'
  <2>1. HandoverInv
    BY DEF ContractInv
  <2>2. handover'.live => Handover' \in {"running", "deleting"}
    BY <2>1 DEF HandoverInv, Finished
  <2> QED BY <1>1, <1>2, <2>1, <2>2 DEF HandoverInv
<1>8. UnseenInv'
  BY <1>1 DEF ContractInv, UnseenInv
<1> QED BY <1>3, <1>4, <1>5, <1>6, <1>7, <1>8 DEF ContractInv

\* The informer of Jobs catches up.
LEMMA JobSyncInv ==
  ASSUME Types, ContractInv, JobSync
  PROVE  ContractInv'
<1>1. seen'.jobs = jobs /\ seen'.workers = workers /\ UNCHANGED <<spec, script, mig, jobs, workers, whole, counted, handover>>
  BY DEF JobSync, Cluster, preflightVars, scriptVars, targetVars
<1>2. SeenHandover' = Handover /\ Handover' = Handover /\ (Confirmed' <=> Confirmed) /\ (Terminal(mig') <=> Terminal(mig))
  BY <1>1 DEF SeenHandover, Handover, Confirmed, Terminal
<1>3. (\A option : Asked(option)' = Asked(option)) /\ (\A k : WorkerLive(k)' <=> WorkerLive(k)) /\ (NothingLeft' <=> NothingLeft)
  BY <1>1 DEF Asked, WorkerLive, NothingLeft
<1>4. SeenInv' /\ UnseenInv' /\ GateInv' /\ VerdictInv' /\ HandoverInv'
  BY <1>1, <1>2, <1>3 DEF ContractInv, SeenInv, UnseenInv, GateInv, VerdictInv, HandoverInv
<1>5. WorkerInv'
  BY <1>1, <1>3 DEF ContractInv, WorkerInv
<1>6. CopyInv'
  BY <1>1, <1>2, <1>3 DEF ContractInv, CopyInv
<1> QED BY <1>4, <1>5, <1>6 DEF ContractInv

LEMMA ContractInit == Init => ContractInv
<1> SUFFICES ASSUME Init PROVE ContractInv
  OBVIOUS
<1>1. /\ \A name \in JobNames : jobs[name] = "none" /\ seen.jobs[name] = "none"
      /\ \A n \in Attempts : workers[n] = "none" /\ seen.workers[n] = "none"
  BY DEF Init, Cluster
<1>2. mig.attempts = 0 /\ mig.job = 0 /\ ~mig.cond.cloned /\ ~Terminal(mig)
  BY DEF Init, NewMigration, Terminal
<1>3. ~handover.live /\ script.state = "none" /\ whole = FALSE /\ counted = "none"
  BY DEF Init, NoPod
<1>4. Handover = "none" /\ SeenHandover = "none" /\ Preflighted = "none"
      /\ seen.jobs["preflight"] = "none" /\ jobs["catalog"] = "none" /\ seen.jobs["catalog"] = "none"
  BY <1>1 DEF Handover, SeenHandover, Preflighted, JobNames
<1>5. SeenInv
  BY <1>1, <1>4 DEF SeenInv, Finished, Handover, SeenHandover, Preflighted
<1>6. WorkerInv
  BY <1>1, <1>2 DEF WorkerInv, WorkerLive
<1>7. GateInv /\ HandoverInv /\ UnseenInv /\ VerdictInv
  BY <1>2, <1>3, <1>4 DEF GateInv, HandoverInv, UnseenInv, VerdictInv
<1>8. CopyInv
  BY <1>1, <1>2, <1>3, <1>4 DEF CopyInv, Confirmed
<1> QED BY <1>5, <1>6, <1>7, <1>8 DEF ContractInv

\* The steps of the informers, of users and of pods that end nothing.
LEMMA ContractQuiet ==
  ASSUME Types, ContractInv,
         \/ StartScript \/ ScriptStep \/ StrayWorks \/ StrayStops \/ HandoverStarts \/ Alter
         \/ CacheSync \/ Edit \/ UNCHANGED vars
  PROVE  ContractInv'
<1>1. CASE StartScript \/ ScriptStep \/ StrayWorks \/ StrayStops
  <2>1. UNCHANGED <<spec, clusterVars, whole, counted, mig, handover>>
    BY <1>1 DEF StartScript, ScriptStep, StrayWorks, StrayStops, targetVars
  <2>2. script'.state = "live" => Preflighted = "running"
    BY <1>1 DEF StartScript, ScriptStep, RunCheck, StrayWorks, StrayStops, scriptVars,
                Preflighted, ContractInv, GateInv
  <2>3. NothingLeft => NothingLeft'
    BY <2>1 DEF NothingLeft
  <2> QED BY <2>1, <2>2, <2>3, QuietSteps
<1>2. CASE HandoverStarts \/ Alter
  <2>0. script'.state = "live" => Preflighted = "running"
    BY <1>2 DEF HandoverStarts, Alter, preflightVars, scriptVars, Preflighted, ContractInv, GateInv
  <2>1. UNCHANGED <<spec, clusterVars, whole, counted, mig, script>>
    BY <1>2 DEF HandoverStarts, Alter, preflightVars, scriptVars
  <2>2. handover \in [live: BOOLEAN, tries: 0..3, done: 0..Len(Candidates)]
    BY DEF Types
  <2>3. handover'.live => handover.live \/ Handover = "running"
    BY <1>2, <2>2 DEF HandoverStarts, Alter, Handover
  <2>4. NothingLeft => NothingLeft'
    <3>1. CASE HandoverStarts
      BY <2>2, <3>1 DEF HandoverStarts, NothingLeft
    <3>2. CASE Alter
      <4>1. handover.done < Len(Candidates) /\ Len(Candidates) \in Nat /\ handover.done \in Nat
        BY <2>2, <3>2 DEF Alter, Candidates
      <4> QED BY <4>1 DEF NothingLeft
    <3> QED BY <1>2, <3>1, <3>2
  <2> QED BY <2>0, <2>1, <2>3, <2>4, QuietSteps
<1>3. CASE CacheSync \/ Edit \/ UNCHANGED vars
  <2>0. script'.state = "live" => Preflighted = "running"
    BY <1>3 DEF CacheSync, Edit, vars, preflightVars, scriptVars, Preflighted, ContractInv, GateInv
  <2>1. UNCHANGED <<spec, clusterVars, whole, counted, script, handover>>
    BY <1>3 DEF CacheSync, Edit, vars, preflightVars, scriptVars, targetVars
  <2>2. mig'.attempts = mig.attempts /\ mig'.job = mig.job /\ mig'.cond = mig.cond
    <3>1. mig \in Migrations
      BY DEF Types
    <3>2. mig' \in {mig, [mig EXCEPT !.suspend = ~mig.suspend]}
      BY <1>3 DEF CacheSync, Edit, vars
    <3> QED BY <3>1, <3>2 DEF Migrations
  <2>3. NothingLeft => NothingLeft'
    BY <2>1 DEF NothingLeft
  <2> QED BY <2>0, <2>1, <2>2, <2>3, QuietSteps
<1> QED BY <1>1, <1>2, <1>3

LEMMA ContractWorkers ==
  ASSUME Types, ContractInv, NEW n \in Attempts,
         \/ WorkerExits(n) \/ WorkerStops(n)
         \/ /\ Collect /\ UNCHANGED jobs
            /\ Finished(workers[n]) /\ workers' = [workers EXCEPT ![n] = "none"]
  PROVE  ContractInv'
<1>1. UNCHANGED <<spec, script, mig, jobs, seen, counted, handover>>
  BY DEF WorkerExits, WorkerStops, Collect, preflightVars, scriptVars, targetVars
<1>2. whole' \in {whole, TRUE}
  BY DEF WorkerExits, WorkerStops, Collect, targetVars
<1>3. ASSUME NEW s, workers' = [workers EXCEPT ![n] = s],
             \/ workers[n] = "running" /\ s \in {"ok", "failed"}
             \/ workers[n] \in {"deleting", "ok", "failed"} /\ s = "none",
             s = "ok" => ~Asked("follow")
      PROVE  ContractInv'
  BY <1>1, <1>2, <1>3, WorkerEnds
<1>4. CASE WorkerExits(n)
  <2>1. /\ workers[n] = "running"
        /\ \/ ~Asked("follow") /\ workers' = [workers EXCEPT ![n] = "ok"]
           \/ workers' = [workers EXCEPT ![n] = "failed"]
    BY <1>4 DEF WorkerExits
  <2>2. CASE ~Asked("follow") /\ workers' = [workers EXCEPT ![n] = "ok"]
    BY <1>3, <2>1, <2>2
  <2>3. CASE workers' = [workers EXCEPT ![n] = "failed"]
    BY <1>3, <2>1, <2>3
  <2> QED BY <2>1, <2>2, <2>3
<1>5. CASE workers[n] \in {"deleting", "ok", "failed"} /\ workers' = [workers EXCEPT ![n] = "none"]
  BY <1>3, <1>5
<1> QED BY <1>4, <1>5 DEF WorkerStops, Finished

LEMMA ContractJobs ==
  ASSUME ~CatalogBlind, Types, ContractInv,
         \/ PreflightEnds \/ CatalogEnds \/ (\E check \in Compares : CompareEnds(check))
         \/ HandoverEnds \/ HandoverStops
         \/ /\ Collect /\ UNCHANGED workers
            /\ \E name \in Collected \cap JobNames : Finished(jobs[name]) /\ jobs' = [jobs EXCEPT ![name] = "none"]
  PROVE  ContractInv'
<1>0. /\ jobs \in [JobNames -> JobStates]
      /\ "preflight" \in JobNames /\ "catalog" \in JobNames /\ "handover" \in JobNames
      /\ \A c \in Compares : c \in JobNames /\ c \notin {"preflight", "catalog", "handover"}
  BY DEF Types, JobNames, Compares
<1>1. UNCHANGED <<spec, script, mig, workers, seen, whole>>
  BY DEF PreflightEnds, CatalogEnds, CompareEnds, HandoverEnds, HandoverStops, Collect,
         preflightVars, scriptVars, targetVars
<1>2. CASE PreflightEnds
  <2>1. /\ Preflighted = "running" /\ Preflighted' \in {"ok", "failed"} /\ script.state # "live"
        /\ Count' = Count /\ Handover' = Handover
    BY <1>0, <1>2 DEF PreflightEnds, Preflighted, Count, Handover
  <2>2. UNCHANGED <<counted, handover>>
    BY <1>2 DEF PreflightEnds, targetVars
  <2> QED BY <1>1, <2>1, <2>2, JobEnds
<1>3. CASE CatalogEnds
  <2>1. /\ Preflighted' = Preflighted /\ Handover' = Handover
        /\ Count' = "ok" /\ counted' = IF whole THEN "whole" ELSE "short"
        /\ UNCHANGED handover
    BY <1>0, <1>3 DEF CatalogEnds, Preflighted, Count, Handover
  <2> QED BY <1>1, <2>1, JobEnds
<1>4. ASSUME NEW check \in Compares, CompareEnds(check) PROVE ContractInv'
  <2>1. Preflighted' = Preflighted /\ Handover' = Handover /\ Count' = Count
    BY <1>0, <1>4 DEF CompareEnds, Preflighted, Count, Handover
  <2>2. UNCHANGED <<counted, handover>>
    BY <1>4 DEF CompareEnds, targetVars
  <2> QED BY <1>1, <2>1, <2>2, JobEnds
<1>5. CASE HandoverEnds
  <2>1. Preflighted' = Preflighted /\ Count' = Count /\ UNCHANGED counted
    BY <1>0, <1>5 DEF HandoverEnds, Preflighted, Count
  <2>2. /\ Handover = "running" /\ Handover' \in {"running", "ok", "failed"} /\ (Handover' = "ok" => NothingLeft)
    BY <1>0, <1>5 DEF HandoverEnds, Handover
  <2>3. ~handover'.live /\ handover'.done = handover.done
    BY <1>5 DEF HandoverEnds, Types
  <2> QED BY <1>1, <2>1, <2>2, <2>3, JobEnds
<1>6. CASE HandoverStops
  <2>1. Preflighted' = Preflighted /\ Count' = Count /\ UNCHANGED counted
    BY <1>0, <1>6 DEF HandoverStops, Preflighted, Count
  <2>2. Handover = "deleting" /\ Handover' = "none"
    BY <1>0, <1>6 DEF HandoverStops, Handover
  <2>3. ~handover'.live /\ handover'.done = handover.done
    BY <1>6 DEF HandoverStops, Types
  <2> QED BY <1>1, <2>1, <2>2, <2>3, JobEnds
<1>7. ASSUME Collect, NEW name \in JobNames, Finished(jobs[name]), jobs' = [jobs EXCEPT ![name] = "none"]
      PROVE  ContractInv'
  <2>1. \A other \in JobNames : jobs'[other] = IF other = name THEN "none" ELSE jobs[other]
    BY <1>0, <1>7
  <2>2. /\ Preflighted' = Preflighted \/ (Finished(Preflighted) /\ Preflighted' = "none")
        /\ Count' = Count \/ (Finished(Count) /\ Count' = "none")
        /\ Handover' = Handover \/ (Finished(Handover) /\ Handover' = "none")
    BY <1>0, <1>7, <2>1 DEF Preflighted, Count, Handover
  <2>3. UNCHANGED <<counted, handover>>
    BY <1>7 DEF Collect, targetVars
  <2> QED BY <1>1, <2>2, <2>3, JobEnds
<1> QED BY <1>2, <1>3, <1>4, <1>5, <1>6, <1>7

\* Every step, by the lemma that speaks of it.
LEMMA StepKinds ==
  ASSUME [Next]_vars
  PROVE  \/ Reconcile
         \/ StartScript \/ ScriptStep \/ StrayWorks \/ StrayStops \/ HandoverStarts \/ Alter
         \/ CacheSync \/ Edit \/ UNCHANGED vars
         \/ JobSync
         \/ \E n \in Attempts :
              \/ WorkerExits(n) \/ WorkerStops(n)
              \/ /\ Collect /\ UNCHANGED jobs
                 /\ Finished(workers[n]) /\ workers' = [workers EXCEPT ![n] = "none"]
         \/ PreflightEnds \/ CatalogEnds \/ (\E check \in Compares : CompareEnds(check))
         \/ HandoverEnds \/ HandoverStops
         \/ /\ Collect /\ UNCHANGED workers
            /\ \E name \in Collected \cap JobNames : Finished(jobs[name]) /\ jobs' = [jobs EXCEPT ![name] = "none"]
<1>1. CASE Collect
  <2>1. \/ \E name \in Collected \cap JobNames :
             Finished(jobs[name]) /\ jobs' = [jobs EXCEPT ![name] = "none"] /\ UNCHANGED workers
        \/ /\ UNCHANGED jobs
           /\ \E n \in Attempts : Finished(workers[n]) /\ workers' = [workers EXCEPT ![n] = "none"]
    BY <1>1 DEF Collect
  <2> QED BY <1>1, <2>1
<1>2. CASE ~Collect
  BY <1>2 DEF Next, PodsProceed, DeletedPodsStop
<1> QED BY <1>1, <1>2

LEMMA ContractNext ==
  ASSUME ~DeepLag, ~LoseFirst, CatalogGated, ~CatalogBlind, Types, ContractInv, [Next]_vars
  PROVE  ContractInv'
<1>1. CASE Reconcile
  BY <1>1, PassEffects, PassInv
<1>2. CASE JobSync
  BY <1>2, JobSyncInv
<1> QED BY <1>1, <1>2, StepKinds, ContractQuiet, ContractWorkers, ContractJobs

-----------------------------------------------------------------------------
(* Every step is one of the contract. *)

AskedFor ==
  [whole |-> spec.flags \cap {"allDatabases", "dryRun"} = {}, handed |-> Asked("owner") /\ ~Asked("dryRun")]
Verdict == IF mig.cond.complete THEN "complete" ELSE IF mig.cond.failed THEN "failed" ELSE "none"

LEMMA WritersAre ==
  /\ "preflight" \in Writers <=> script.state = "live"
  /\ "stray" \in Writers <=> strays > 0
  /\ "worker" \in Writers <=> \E n \in Attempts : WorkerLive(n)
  /\ "handover" \in Writers <=> handover.live
  /\ \A w \in Writers : w \in {"preflight", "stray", "worker", "handover"}
BY DEF Writers

LEMMA NoWriters ==
  Writers \subseteq {"stray"} <=> script.state # "live" /\ (\A n \in Attempts : ~WorkerLive(n)) /\ ~handover.live
BY WritersAre

\* The contract's actions, over the values that the mapping gives its variables.
LEMMA ContractStart ==
  ASSUME NEW w \in {"preflight", "worker", "handover"}, Writers \subseteq {"stray"}, Writers' = Writers \cup {w},
         ~mig.cond.complete, ~mig.cond.failed,
         w = "handover" => AskedFor.handed /\ (AskedFor.whole => whole),
         UNCHANGED <<AskedFor, whole, NothingLeft, Verdict>>
  PROVE  Contract!Next
<1>1. Contract!Start(w)
  BY DEF Contract!Start, AskedFor, NothingLeft, Verdict
<1> QED BY <1>1 DEF Contract!Next

LEMMA ContractWrite ==
  ASSUME NEW w \in Writers, Writers' \in {Writers, Writers \ {w}},
         whole' = whole \/ (w = "worker" /\ whole' = TRUE),
         NothingLeft' = NothingLeft \/ (w = "handover" /\ NothingLeft' = TRUE),
         UNCHANGED <<AskedFor, Verdict>>
  PROVE  Contract!Next
<1>1. w \in {"preflight", "worker", "handover", "stray"}
  BY WritersAre
<1>2. Contract!Write(w)
  BY DEF Contract!Write, AskedFor, NothingLeft, Verdict
<1> QED BY <1>1, <1>2 DEF Contract!Next

LEMMA ContractOrphan ==
  ASSUME "preflight" \in Writers, Writers' = (Writers \ {"preflight"}) \cup {"stray"},
         UNCHANGED <<AskedFor, whole, NothingLeft, Verdict>>
  PROVE  Contract!Next
<1>1. Contract!Orphan
  BY DEF Contract!Orphan, AskedFor, NothingLeft, Verdict
<1> QED BY <1>1 DEF Contract!Next

LEMMA ContractDecide ==
  ASSUME Verdict = "none", Verdict' \in {"complete", "failed"},
         Verdict' = "complete" => Writers \subseteq {"stray"} /\ (AskedFor.whole => whole) /\ (AskedFor.handed => NothingLeft),
         UNCHANGED <<AskedFor, Writers, whole, NothingLeft>>
  PROVE  Contract!Next
<1>1. Contract!Decide
  BY DEF Contract!Decide, AskedFor, NothingLeft, Verdict
<1> QED BY <1>1 DEF Contract!Next

LEMMA ContractStutter ==
  ASSUME UNCHANGED <<AskedFor, Writers, whole, NothingLeft, Verdict>>
  PROVE  UNCHANGED Contract!contractVars
BY DEF Contract!contractVars, AskedFor, NothingLeft, Verdict

\* Only these parts of the state matter to the contract.
LEMMA SameContract ==
  ASSUME UNCHANGED <<spec, strays, whole, handover>>, script'.state = "live" <=> script.state = "live",
         (\E n \in Attempts : WorkerLive(n))' <=> (\E n \in Attempts : WorkerLive(n))
  PROVE  UNCHANGED <<AskedFor, Writers, whole, NothingLeft>>
BY DEF AskedFor, Asked, Writers, NothingLeft

LEMMA SameVerdict == ASSUME mig'.cond = mig.cond PROVE Verdict' = Verdict
BY DEF Verdict

LEMMA VerdictWritten ==
  ASSUME Reads, NEW n, NEW j, NEW cl, NEW f \in BOOLEAN, NEW co \in BOOLEAN, Wrote(n, j, cl, f, co)
  PROVE  /\ Verdict = "none"
         /\ Verdict' = "none" \/ Verdict' = IF co THEN "complete" ELSE IF f THEN "failed" ELSE "none"
BY DEF Reads, Terminal, Wrote, Fields, Verdict

LEMMA PassKeepsContract ==
  ASSUME Types, ContractInv, PassEffect
  PROVE  Contract!Next \/ UNCHANGED Contract!contractVars
<1>1. /\ UNCHANGED <<spec, whole, handover>> /\ Reads
      /\ \A option : Asked(option)' = Asked(option)
  BY DEF PassEffect, Asked
<1>0. ~SuspendEffect => (script'.state = "live" <=> script.state = "live") /\ strays' = strays
  BY DEF PassEffect, Live
<1>2. ASSUME ~SuspendEffect, ~StartEffect \/ UNCHANGED workers
      PROVE  UNCHANGED <<AskedFor, Writers, whole, NothingLeft>>
  <2>1. ASSUME NEW n \in Attempts PROVE WorkerLive(n)' <=> WorkerLive(n)
    BY <1>2, PassWorkers DEF WorkerLive
  <2> QED BY <1>0, <1>1, <1>2, <2>1, SameContract
<1>3. CASE ~SuspendEffect /\ StartEffect
  <2> DEFINE n == Attempted + 1
  <2>1. Wrote(n, n, Cloned, FALSE, FALSE)
    BY <1>3 DEF StartEffect
  <2>2. Verdict = "none" /\ Verdict' = "none"
    <3> HIDE DEF n
    <3> QED BY <1>1, <2>1, VerdictWritten
  <2>3. CASE UNCHANGED workers
    BY <1>2, <1>3, <2>2, <2>3, ContractStutter
  <2>4. CASE /\ n \in Attempts /\ workers[n] = "none" /\ (n > 1 => ~WorkerLive(n - 1))
             /\ workers' = [workers EXCEPT ![n] = "running"]
    <3>1. \A k \in Attempts : ~WorkerLive(k)
      <4> SUFFICES ASSUME NEW k \in Attempts PROVE ~WorkerLive(k)
        OBVIOUS
      <4>1. Attempted \in 0..MaxAttempts /\ k \in 1..MaxAttempts /\ Attempted = mig.attempts
        BY WorkerSeen, <1>1 DEF Attempted, Attempts
      <4>2. CASE k < Attempted
        BY <4>1, <4>2 DEF ContractInv, WorkerInv
      <4>3. CASE k = Attempted
        <5>1. n > 1 /\ n - 1 = k
          BY <4>1, <4>3
        <5> QED BY <2>4, <5>1
      <4>4. CASE k = n
        BY <2>4, <4>4 DEF WorkerLive
      <4>5. CASE k > mig.attempts + 1
        BY <4>1, <4>5 DEF ContractInv, WorkerInv, WorkerLive
      <4> QED BY <4>1, <4>2, <4>3, <4>4, <4>5
    <3>2. script.state # "live" /\ ~handover.live
      BY <1>3 DEF StartEffect
    <3>3. Writers \subseteq {"stray"}
      BY <3>1, <3>2, NoWriters
    <3>4. \E k \in Attempts : WorkerLive(k)'
      <4> HIDE DEF n
      <4>1. workers'[n] = "running" /\ n \in Attempts
        BY <2>4 DEF Types
      <4> QED BY <4>1 DEF WorkerLive
    <3>5. Writers' = Writers \cup {"worker"}
      <4>1. script'.state # "live" /\ ~handover'.live /\ strays' = strays
        BY <1>0, <1>1, <1>3, <3>2
      <4> HIDE DEF n
      <4> QED BY <3>1, <3>2, <3>4, <4>1 DEF Writers
    <3>6. UNCHANGED <<AskedFor, whole, NothingLeft, Verdict>>
      BY <1>1, <2>2 DEF AskedFor, NothingLeft
    <3>7. ~mig.cond.complete /\ ~mig.cond.failed
      BY <1>1 DEF Reads, Terminal
    <3> QED BY <3>3, <3>5, <3>6, <3>7, ContractStart
  <2> QED BY <1>3, <2>3, <2>4 DEF StartEffect
<1>4. CASE SuspendEffect
  <2>1. ASSUME NEW k \in Attempts PROVE WorkerLive(k)' <=> WorkerLive(k)
    <3>1. workers'[k] = workers[k] \/ (k = mig.job /\ workers'[k] = WorkerDeleted(workers[k]))
      BY <1>4 DEF SuspendEffect, Types
    <3> QED BY <3>1, DeletedWorker DEF WorkerLive, Types
  <2>2. Verdict' = Verdict
    BY <1>1, <1>4, VerdictWritten DEF SuspendEffect
  <2>3. CASE (Live' <=> Live) /\ UNCHANGED strays
    BY <1>1, <2>1, <2>2, <2>3, SameContract, ContractStutter DEF Live
  <2>4. CASE Live /\ ~Live' /\ strays' = strays + 1
    <3>1. "preflight" \in Writers /\ strays' > 0
      BY <2>4, WritersAre DEF Live, Types
    <3>2. Writers' = (Writers \ {"preflight"}) \cup {"stray"}
      BY <1>1, <2>1, <2>4, <3>1 DEF Writers, Live
    <3>3. UNCHANGED <<AskedFor, whole, NothingLeft>>
      BY <1>1 DEF AskedFor, NothingLeft
    <3> QED BY <2>2, <3>1, <3>2, <3>3, ContractOrphan
  <2> QED BY <1>4, <2>3, <2>4 DEF SuspendEffect
<1>5. CASE ~SuspendEffect /\ (PrepareEffect \/ ForgetEffect \/ ConfirmEffect)
  <2>1. UNCHANGED workers
    BY <1>5 DEF PrepareEffect, ForgetEffect, ConfirmEffect
  <2>2. Verdict' = Verdict
    BY <1>1, <1>5, VerdictWritten DEF PrepareEffect, ForgetEffect, ConfirmEffect
  <2> QED BY <1>2, <1>5, <2>1, <2>2, ContractStutter
<1>6. CASE ~SuspendEffect /\ FailEffect
  <2>1. UNCHANGED workers
    BY <1>6 DEF FailEffect
  <2>2. Verdict = "none" /\ Verdict' \in {"none", "failed"}
    BY <1>1, <1>6, VerdictWritten DEF FailEffect
  <2> QED BY <1>2, <1>6, <2>1, <2>2, ContractStutter, ContractDecide
<1>7. CASE ~SuspendEffect /\ CompleteEffect
  <2>1. UNCHANGED workers
    BY <1>7 DEF CompleteEffect
  <2>2. Verdict = "none" /\ Verdict' \in {"none", "complete"}
    BY <1>1, <1>7, VerdictWritten DEF CompleteEffect
  <2>3. Writers \subseteq {"stray"}
    BY <1>7, NoWriters DEF CompleteEffect
  <2>4. AskedFor.handed => NothingLeft
    BY <1>7 DEF CompleteEffect, AskedFor
  <2>5. AskedFor.whole => whole
    <3>1. AskedFor.whole => ~Asked("dryRun") /\ ~Asked("allDatabases")
      BY DEF AskedFor, Asked
    <3> QED BY <1>7, <3>1 DEF CompleteEffect, CopyDone
  <2> QED BY <1>2, <1>7, <2>1, <2>2, <2>3, <2>4, <2>5, ContractStutter, ContractDecide
<1> QED BY <1>3, <1>4, <1>5, <1>6, <1>7 DEF PassEffect

\* The preflight's pods.
LEMMA ScriptKeepsContract ==
  ASSUME Types, ContractInv, StartScript \/ ScriptStep \/ StrayWorks \/ StrayStops
  PROVE  Contract!Next \/ UNCHANGED Contract!contractVars
<1>1. UNCHANGED <<spec, workers, whole, handover, mig>>
  BY DEF StartScript, ScriptStep, StrayWorks, StrayStops, scriptVars, clusterVars, targetVars
<1>2. UNCHANGED <<AskedFor, whole, NothingLeft, Verdict>>
  BY <1>1 DEF AskedFor, Asked, NothingLeft, Verdict
<1>3. \A n \in Attempts : WorkerLive(n)' <=> WorkerLive(n)
  BY <1>1 DEF WorkerLive
<1>4. CASE StartScript
  <2>1. Preflighted = "running" /\ script'.state = "live"
    BY <1>4 DEF StartScript, Preflighted, NewPod, NoPod
  <2>2. mig.attempts = 0 /\ ~Terminal(mig) /\ Handover = "none" /\ ~handover.live
    BY <2>1 DEF ContractInv, GateInv, VerdictInv, CopyInv, Confirmed, HandoverInv, Preflighted
  <2>3. ASSUME NEW n \in Attempts PROVE ~WorkerLive(n)
    <3>1. n = 1 \/ n > 1
      BY DEF Attempts
    <3> QED BY <2>2, <3>1 DEF ContractInv, WorkerInv, WorkerLive
  <2>4. script.state # "live"
    BY <1>4 DEF StartScript
  <2>5. Writers \subseteq {"stray"} /\ Writers' = Writers \cup {"preflight"}
    <3>1. Writers \subseteq {"stray"}
      BY <2>2, <2>3, <2>4, NoWriters
    <3>2. Writers' = Writers \cup {"preflight"}
      <4>1. strays' = strays
        BY <1>4 DEF StartScript
      <4> QED BY <1>1, <1>3, <2>1, <2>2, <2>3, <4>1 DEF Writers
    <3> QED BY <3>1, <3>2
  <2> QED BY <1>2, <2>2, <2>5, ContractStart DEF Terminal
<1>5. CASE ScriptStep
  <2>1. "preflight" \in Writers /\ strays' = strays
    BY <1>5 DEF ScriptStep, RunCheck, Writers
  <2>2. Writers' \in {Writers, Writers \ {"preflight"}}
    <3>1. CASE script'.state = "live"
      BY <1>1, <1>3, <2>1, <3>1 DEF Writers
    <3>2. CASE script'.state # "live"
      BY <1>1, <1>3, <2>1, <3>2 DEF Writers
    <3> QED BY <3>1, <3>2
  <2> QED BY <1>2, <2>1, <2>2, ContractWrite
<1>6. CASE StrayWorks \/ StrayStops
  <2>1. "stray" \in Writers /\ script' = script
    BY <1>6 DEF StrayWorks, StrayStops, scriptVars, Writers
  <2>2. Writers' \in {Writers, Writers \ {"stray"}}
    <3>1. CASE strays' > 0
      BY <1>1, <1>3, <2>1, <3>1 DEF Writers
    <3>2. CASE ~(strays' > 0)
      BY <1>1, <1>3, <2>1, <3>2 DEF Writers
    <3> QED BY <3>1, <3>2
  <2> QED BY <1>2, <2>1, <2>2, ContractWrite
<1> QED BY <1>4, <1>5, <1>6

\* The handover's pods.
LEMMA HandoverKeepsContract ==
  ASSUME Types, ContractInv, HandoverStarts \/ Alter \/ HandoverEnds \/ HandoverStops
  PROVE  Contract!Next \/ UNCHANGED Contract!contractVars
<1>1. UNCHANGED <<spec, script, strays, workers, whole, mig>>
  BY DEF HandoverStarts, Alter, HandoverEnds, HandoverStops, preflightVars, scriptVars, clusterVars, targetVars
<1>2. UNCHANGED <<AskedFor, whole, Verdict>>
  BY <1>1 DEF AskedFor, Asked, Verdict
<1>3. \A n \in Attempts : WorkerLive(n)' <=> WorkerLive(n)
  BY <1>1 DEF WorkerLive
<1>4. handover \in [live: BOOLEAN, tries: 0..3, done: 0..Len(Candidates)] /\ Len(Candidates) = 4
  BY DEF Types, Candidates
<1>5. CASE HandoverStarts
  <2>1. Handover = "running" /\ ~handover.live /\ handover'.live /\ handover'.done = handover.done
    BY <1>4, <1>5 DEF HandoverStarts, Handover
  <2>2. Confirmed /\ Asked("owner") /\ ~Terminal(mig)
    BY <2>1 DEF Confirmed, ContractInv, HandoverInv, VerdictInv
  <2>3. /\ mig.attempts # 0 /\ (\A n \in Attempts : ~WorkerLive(n)) /\ ~Asked("dryRun")
        /\ ~Asked("allDatabases") => whole
    BY <2>2 DEF ContractInv, CopyInv
  <2>4. script.state # "live"
    BY <2>3 DEF ContractInv, GateInv
  <2>5. Writers \subseteq {"stray"} /\ Writers' = Writers \cup {"handover"}
    <3>1. Writers \subseteq {"stray"}
      BY <2>1, <2>3, <2>4, NoWriters
    <3>2. Writers' = Writers \cup {"handover"}
      BY <1>1, <1>3, <2>1, <2>3, <2>4 DEF Writers
    <3> QED BY <3>1, <3>2
  <2>6. AskedFor.handed /\ (AskedFor.whole => whole)
    BY <2>2, <2>3 DEF AskedFor, Asked
  <2>7. NothingLeft' = NothingLeft
    BY <2>1 DEF NothingLeft
  <2> QED BY <1>2, <2>2, <2>5, <2>6, <2>7, ContractStart DEF Terminal
<1>6. CASE (Alter \/ HandoverEnds \/ HandoverStops) /\ handover.live
  <2>1. "handover" \in Writers
    BY <1>6 DEF Writers
  <2>2. Writers' \in {Writers, Writers \ {"handover"}}
    <3>1. CASE handover'.live
      BY <1>1, <1>3, <1>6, <3>1 DEF Writers
    <3>2. CASE ~handover'.live
      BY <1>1, <1>3, <1>6, <3>2 DEF Writers
    <3> QED BY <3>1, <3>2
  <2>3. NothingLeft => NothingLeft'
    <3>1. handover.done = 4 => handover'.done = handover.done
      <4>1. CASE Alter
        BY <1>4, <4>1 DEF Alter
      <4>2. CASE HandoverEnds \/ HandoverStops
        BY <1>4, <4>2 DEF HandoverEnds, HandoverStops
      <4> QED BY <1>6, <4>1, <4>2
    <3> QED BY <1>4, <3>1 DEF NothingLeft
  <2>4. NothingLeft' = NothingLeft \/ NothingLeft' = TRUE
    BY <2>3 DEF NothingLeft
  <2> QED BY <1>2, <2>1, <2>2, <2>4, ContractWrite
<1>7. CASE HandoverStops /\ ~handover.live
  <2>1. handover'.live = handover.live /\ handover'.done = handover.done
    BY <1>4, <1>7 DEF HandoverStops
  <2>2. Writers' = Writers /\ NothingLeft' = NothingLeft
    BY <1>1, <1>3, <2>1 DEF Writers, NothingLeft
  <2> QED BY <1>2, <2>2, ContractStutter
<1> QED BY <1>5, <1>6, <1>7 DEF Alter, HandoverEnds

\* A worker that works, ends or is gone.
LEMMA WorkerKeepsContract ==
  ASSUME Types, ContractInv, NEW n \in Attempts,
         \/ WorkerExits(n) \/ WorkerStops(n)
         \/ Collect /\ UNCHANGED jobs /\ Finished(workers[n]) /\ workers' = [workers EXCEPT ![n] = "none"]
  PROVE  Contract!Next \/ UNCHANGED Contract!contractVars
<1>1. UNCHANGED <<spec, script, strays, mig, handover>>
  BY DEF WorkerExits, WorkerStops, Collect, preflightVars, scriptVars, targetVars
<1>2. UNCHANGED <<AskedFor, NothingLeft, Verdict>>
  BY <1>1 DEF AskedFor, Asked, NothingLeft, Verdict
<1>3. \A k \in Attempts : WorkerLive(k)' => WorkerLive(k)
  <2> SUFFICES ASSUME NEW k \in Attempts, WorkerLive(k)' PROVE WorkerLive(k)
    OBVIOUS
  <2>1. workers'[k] = workers[k] \/ workers'[k] \in {"ok", "failed", "none"}
    BY DEF WorkerExits, WorkerStops, Types
  <2> QED BY <2>1 DEF WorkerLive
<1>4. CASE WorkerLive(n)
  <2>1. "worker" \in Writers
    BY <1>4 DEF Writers
  <2>2. Writers' \in {Writers, Writers \ {"worker"}}
    <3>1. CASE \E k \in Attempts : WorkerLive(k)'
      BY <1>1, <1>4, <3>1 DEF Writers
    <3>2. CASE ~\E k \in Attempts : WorkerLive(k)'
      BY <1>1, <1>4, <3>2 DEF Writers
    <3> QED BY <3>1, <3>2
  <2>3. whole' = whole \/ whole' = TRUE
    BY DEF WorkerExits, WorkerStops, Collect, targetVars
  <2> QED BY <1>2, <2>1, <2>2, <2>3, ContractWrite
<1>5. CASE ~WorkerLive(n)
  <2>1. ~WorkerExits(n) /\ ~WorkerStops(n)
    BY <1>5 DEF WorkerExits, WorkerStops, WorkerLive
  <2>2. UNCHANGED whole /\ workers' = [workers EXCEPT ![n] = "none"]
    BY <2>1 DEF Collect, targetVars
  <2>3. ASSUME NEW k \in Attempts PROVE WorkerLive(k)' <=> WorkerLive(k)
    <3>1. k # n => workers'[k] = workers[k]
      BY <2>2 DEF Types
    <3> QED BY <1>3, <1>5, <3>1 DEF WorkerLive
  <2> QED BY <1>1, <1>2, <2>2, <2>3, SameContract, ContractStutter
<1> QED BY <1>4, <1>5

\* The rest is out of the contract's sight.
LEMMA RestKeepsContract ==
  ASSUME Types, ContractInv,
         \/ CacheSync \/ Edit \/ JobSync \/ UNCHANGED vars
         \/ PreflightEnds \/ CatalogEnds \/ (\E check \in Compares : CompareEnds(check))
         \/ Collect /\ UNCHANGED workers
  PROVE  UNCHANGED Contract!contractVars
<1>1. UNCHANGED <<spec, script, strays, workers, whole, handover>>
  BY DEF CacheSync, Edit, JobSync, PreflightEnds, CatalogEnds, CompareEnds, Collect,
         vars, preflightVars, scriptVars, clusterVars, targetVars
<1>2. \A n \in Attempts : WorkerLive(n)' <=> WorkerLive(n)
  BY <1>1 DEF WorkerLive
<1>3. UNCHANGED <<AskedFor, Writers, whole, NothingLeft>>
  BY <1>1, <1>2, SameContract
<1>4. mig'.cond = mig.cond
  <2>1. CASE Edit
    <3>1. mig' = [mig EXCEPT !.suspend = ~@] /\ mig \in Migrations
      BY <2>1 DEF Edit, Types
    <3> QED BY <3>1 DEF Migrations
  <2>2. CASE ~Edit
    BY <2>2 DEF CacheSync, JobSync, PreflightEnds, CatalogEnds, CompareEnds, Collect, vars
  <2> QED BY <2>1, <2>2
<1> QED BY <1>3, <1>4, SameVerdict, ContractStutter

LEMMA StepKeepsContract ==
  ASSUME ~DeepLag, ~LoseFirst, CatalogGated, ~CatalogBlind, Types, ContractInv, [Next]_vars
  PROVE  [Contract!Next]_(Contract!contractVars)
<1>1. CASE Reconcile
  BY <1>1, PassEffects, PassKeepsContract
<1> QED BY <1>1, StepKinds, ScriptKeepsContract, HandoverKeepsContract, WorkerKeepsContract, RestKeepsContract

\* The clone path implements its contract (KeepsContract; migration_controller.go:841,
\* verification.go:168): one preflight, worker or handover at a time, whatever pods of
\* deleted preflights are left, the copy before the handover, a verdict given once and
\* Complete only for a target that is as asked.  For any specs, options, attempts and
\* edits, with passes that are cut and status writes that are lost.  What is ruled out
\* are the cases in which it is broken: a pass that misses the last one's worker, the
\* loss of the first attempt's record, a catalog Job without a count, and an operator
\* that has no block to count the catalog with.
THEOREM ContractIsKept ==
  ASSUME ~DeepLag, ~LoseFirst, CatalogGated, ~CatalogBlind
  PROVE  Spec => KeepsContract
<1>1. Init => Types /\ PreflightInv /\ ContractInv
  BY TypesInit, InitInv, ContractInit
<1>2. Types /\ PreflightInv /\ ContractInv /\ [Next]_vars => Types' /\ PreflightInv' /\ ContractInv'
  BY TypesNext, NextInv, ContractNext DEF PreflightInv
<1>3. Init => Contract!Init
  <2> SUFFICES ASSUME Init PROVE Contract!Init
    OBVIOUS
  <2>1. /\ script.state # "live" /\ strays = 0 /\ ~handover.live /\ whole = FALSE /\ handover.done = 0
        /\ \A n \in Attempts : ~WorkerLive(n)
    BY DEF Init, NoPod, WorkerLive
  <2>2. Writers = {}
    BY <2>1, WritersAre
  <2>3. handover.done # Len(Candidates)
    BY <2>1 DEF Candidates
  <2>4. Verdict = "none"
    BY DEF Init, NewMigration, Verdict
  <2>5. AskedFor \in [whole: BOOLEAN, handed: BOOLEAN]
    BY DEF AskedFor, Asked
  <2> QED BY <2>1, <2>2, <2>3, <2>4, <2>5 DEF Contract!Init, AskedFor, Verdict
<1>4. Types /\ ContractInv /\ [Next]_vars => [Contract!Next]_(Contract!contractVars)
  BY StepKeepsContract
<1> QED BY <1>1, <1>2, <1>3, <1>4, PTL DEF Spec, KeepsContract, Contract!Spec

-----------------------------------------------------------------------------
(* A worker is let in by the preflight. *)

Passed == \A fact \in Needed[spec] : fact \in facts \/ ("dryRun" \in spec.flags /\ fact \in Fixable[spec])
Admitted == "dryRun" \notin spec.flags /\ Needed[spec] \subseteq facts

\* What opens the gate, and what is behind it.
Open == jobs["preflight"] = "ok" \/ seen.jobs["preflight"] = "ok"
Behind == mig.attempts # 0 \/ cache.attempts # 0 \/ \E n \in Attempts : workers[n] # "none"

AdmitInv == (Open => Passed) /\ (Behind => Admitted)

\* What held goes on holding.
LEMMA StaysAdmitted ==
  ASSUME facts \subseteq facts', spec' = spec
  PROVE  (Passed => Passed') /\ (Admitted => Admitted')
<1>1. Needed' = Needed /\ Fixable' = Fixable
  BY DEF Needed, Fixable
<1> QED BY <1>1 DEF Passed, Admitted

LEMMA UpdatedAttempts ==
  ASSUME Types, NEW n, NEW j, NEW cl, NEW f, NEW co, Update(n, j, cl, f, co)
  PROVE  mig'.attempts \in {mig.attempts, n}
<1>1. PICK m : Fields(m, n, j, cl, f, co) /\ UpdateStatus(m)
  BY DEF Update
<1>2. m \in Migrations /\ m.attempts = n
  BY <1>1 DEF Fields
<1> QED BY <1>1, <1>2, MergeFields DEF UpdateStatus, Types

\* A pass starts a worker, and counts an attempt, past the gate and in no dry run.
LEMMA PassAdmits ==
  ASSUME Types, AdmitInv, PassCase, UNCHANGED <<cache, seen>>
  PROVE  (Open' => Open) /\ (Behind' => Behind \/ Admitted)
<1>1. "preflight" \in JobNames /\ "catalog" \in JobNames /\ "handover" \in JobNames
  BY DEF JobNames
<1>2. jobs'["preflight"] = "ok" => jobs["preflight"] = "ok"
  <2>1. CASE SuspendCase
    BY <1>1, <2>1 DEF SuspendCase, Suspended, Types
  <2>2. CASE CompareCase
    BY <1>1, <2>2 DEF CompareCase
  <2>3. CASE EnsureJob("preflight") \/ EnsureJob("catalog") \/ EnsureJob("handover") \/ UNCHANGED jobs
    BY <1>1, <2>3, EnsureTyped DEF Types
  <2> QED BY <2>1, <2>2, <2>3 DEF PassCase, GateCase, DryRunCase, StartCase, FailedCase, CountCase,
                                  HandoverCase, CompleteCase
<1>3. CASE StartCase
  <2>1. Past /\ ~Asked("dryRun")
    BY <1>3 DEF StartCase
  <2>2. Admitted
    BY <2>1 DEF Past, AdmitInv, Open, Behind, Passed, Admitted, Asked
  <2> QED BY <1>2, <2>2 DEF Open
<1>4. CASE ~StartCase
  <2>1. mig'.attempts \in {mig.attempts, cache.attempts}
    BY <1>4, UpdatedAttempts DEF PassCase, SuspendCase, GateCase, DryRunCase, FailedCase, CountCase, HandoverCase,
                                CompareCase, CompleteCase
  <2>2. ASSUME NEW n \in Attempts, workers'[n] # "none" PROVE workers[n] # "none"
    <3>1. CASE SuspendCase
      BY <2>2, <3>1 DEF SuspendCase, WorkerDeleted, Deleted, Finished, Types
    <3>2. CASE UNCHANGED workers
      BY <2>2, <3>2
    <3> QED BY <1>4, <3>1, <3>2 DEF PassCase, GateCase, DryRunCase, FailedCase, CountCase, Counted,
                                    HandoverCase, CompareCase, CompleteCase, Finishing
  <2> QED BY <1>2, <2>1, <2>2 DEF Open, Behind
<1> QED BY <1>3, <1>4

LEMMA AdmitNext ==
  ASSUME ~AuditBlind, Types, PreflightInv, AdmitInv, [Next]_vars
  PROVE  AdmitInv'
<1>1. (Passed => Passed') /\ (Admitted => Admitted')
  BY NextInv, StaysAdmitted
<1> SUFFICES (Open' => Open \/ Passed) /\ (Behind' => Behind \/ Admitted)
  BY <1>1 DEF AdmitInv
<1>2. CASE Reconcile
  BY <1>2, PassCases, PassAdmits DEF Elsewhere, Types
<1>3. "preflight" \in JobNames /\ "preflight" \notin Compares
  BY DEF JobNames, Compares
<1>4. CASE PreflightEnds
  <2>1. jobs'["preflight"] = "ok" => Passed
    BY <1>3, <1>4, EarnedPass DEF PreflightEnds, PassIsEarned, Passed, Types
  <2> QED BY <1>4, <2>1 DEF PreflightEnds, Open, Behind
<1>5. CASE CacheSync \/ JobSync
  BY <1>5 DEF CacheSync, JobSync, Cluster, clusterVars, Open, Behind
<1>6. CASE Edit
  <2>1. mig'.attempts = mig.attempts
    BY <1>6 DEF Edit, Types, Migrations
  <2> QED BY <1>6, <2>1 DEF Edit, clusterVars, Open, Behind
<1>7. ASSUME NEW n \in Attempts, NEW s, workers[n] # "none", workers' = [workers EXCEPT ![n] = s],
             UNCHANGED <<mig, cache, jobs, seen>>
      PROVE  (Open' => Open) /\ (Behind' => Behind)
  BY <1>7 DEF Open, Behind
<1>8. ASSUME NEW n \in Attempts, WorkerExits(n) \/ WorkerStops(n) PROVE (Open' => Open) /\ (Behind' => Behind)
  BY <1>7, <1>8 DEF WorkerExits, WorkerStops
<1>9. ASSUME UNCHANGED <<mig, cache, workers, seen>>, jobs'["preflight"] \in {jobs["preflight"], "none"}
      PROVE  (Open' => Open) /\ (Behind' => Behind)
  BY <1>9 DEF Open, Behind
<1>10. CASE Collect
  <2>1. CASE UNCHANGED workers
    <3>1. UNCHANGED <<mig, cache, seen>>
      BY <1>10 DEF Collect
    <3>2. jobs'["preflight"] \in {jobs["preflight"], "none"}
      BY <1>3, <1>10 DEF Collect, Types
    <3> QED BY <1>9, <2>1, <3>1, <3>2
  <2>2. CASE \E n \in Attempts : Finished(workers[n]) /\ workers' = [workers EXCEPT ![n] = "none"] /\ UNCHANGED jobs
    BY <1>7, <1>10, <2>2 DEF Collect, Finished
  <2> QED BY <1>10, <2>1, <2>2 DEF Collect
<1>11. CASE CatalogEnds \/ HandoverEnds \/ HandoverStops \/ \E check \in Compares : CompareEnds(check)
  <2>1. UNCHANGED <<mig, cache, workers, seen>>
    BY <1>11 DEF CatalogEnds, HandoverEnds, HandoverStops, CompareEnds
  <2>2. jobs'["preflight"] = jobs["preflight"]
    BY <1>3, <1>11 DEF CatalogEnds, HandoverEnds, HandoverStops, CompareEnds, Types
  <2> QED BY <1>9, <2>1, <2>2
<1>12. CASE StartScript \/ ScriptStep \/ StrayWorks \/ StrayStops \/ HandoverStarts \/ Alter \/ UNCHANGED vars
  BY <1>12 DEF StartScript, ScriptStep, StrayWorks, StrayStops, HandoverStarts, Alter, vars, clusterVars, Open, Behind
<1> QED BY <1>2, <1>4, <1>5, <1>6, <1>8, <1>10, <1>11, <1>12 DEF Next, PodsProceed, DeletedPodsStop

\* A worker exists only where everything that it needs holds, and never in a dry run
\* (WorkerIsAdmitted; migration_controller.go:343, resources.go:620): for any specs and
\* bounds, however far the caches lag, whichever writes are lost and Jobs collected, and
\* however often a preflight is stopped and begun again, as long as the query of the
\* replica identity audit does not fail.
THEOREM WorkersAreAdmitted == ASSUME ~AuditBlind PROVE Spec => []WorkerIsAdmitted
<1>1. Init => Types /\ PreflightInv
  BY TypesInit, InitInv
<1>2. Init => AdmitInv
  <2>1. "preflight" \in JobNames
    BY DEF JobNames
  <2> QED BY <2>1 DEF Init, NewMigration, Cluster, AdmitInv, Open, Behind
<1>3. Types /\ PreflightInv /\ AdmitInv /\ [Next]_vars => Types' /\ PreflightInv' /\ AdmitInv'
  BY TypesNext, NextInv, AdmitNext DEF PreflightInv
<1>4. AdmitInv => WorkerIsAdmitted
  BY DEF AdmitInv, Behind, Admitted, WorkerIsAdmitted
<1> QED BY <1>1, <1>2, <1>3, <1>4, PTL DEF Spec
=============================================================================
