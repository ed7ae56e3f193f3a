------------------------- MODULE FollowCutoverProofs -------------------------
(***************************************************************************)
(* The cutover of a live Migration, for every budget and every bound: what *)
(* CutoverCompleted, the slot, a refused marker and a measured lag say.    *)
(* Each theorem names the switches of FollowCutover that it needs off.     *)
(***************************************************************************)
EXTENDS FollowCutover, TLAPS

(* What the helpers on a Migration return. *)

Steps == {"idle", "endpos", "create", "write"}
Reads == {"low", "high", "none", "missed"}
CloneWords == {"running", "lost", "refused", "done"}
CaughtWords == {"lagging", "confirming", "true"}
CutoverWords == {"none", "true", "refuted"}

LEMMA NewMigrationType ==
  /\ NewMigration \in Migrations
  /\ NewMigration.attempts = 0 /\ NewMigration.job = 0 /\ ~NewMigration.suspend
  /\ NewMigration.cond.clone = "running" /\ NewMigration.cond.caught = "lagging"
  /\ NewMigration.cond.cutover = "none"
BY DEF NewMigration, Migrations, Conditions, Lags

LEMMA IdleType ==
  Idle \in Passes /\ Idle.step = "idle" /\ Idle.m = NewMigration /\ Idle.base = NewMigration
BY NewMigrationType DEF Idle, Passes

\* A merge patch writes the attempts, the Job and the condition list, each as a whole,
\* where the pass changed it, and nothing of the spec (updateStatus).
LEMMA MergeType ==
  ASSUME NEW cur \in Migrations, NEW base \in Migrations, NEW m \in Migrations
  PROVE  /\ Merge(cur, base, m) \in Migrations
         /\ Merge(cur, base, m).attempts = IF m.attempts = base.attempts THEN cur.attempts ELSE m.attempts
         /\ Merge(cur, base, m).job = IF m.job = base.job THEN cur.job ELSE m.job
         /\ Merge(cur, base, m).cond = IF m.cond = base.cond THEN cur.cond ELSE m.cond
         /\ Merge(cur, base, m).suspend = cur.suspend
<1> DEFINE a == Written(base.attempts, m.attempts, cur.attempts)
           j == Written(base.job, m.job, cur.job)
           e == Written(base.endpos, m.endpos, cur.endpos)
           l == Written(base.lag, m.lag, cur.lag)
           c == Written(base.cond, m.cond, cur.cond)
<1>1. a \in Nat /\ j \in Nat /\ e \in BOOLEAN
  BY DEF Written, Migrations
<1>2. l \in Lags /\ c \in Conditions
  BY DEF Written, Migrations
<1>3. /\ a = (IF m.attempts = base.attempts THEN cur.attempts ELSE m.attempts)
      /\ j = (IF m.job = base.job THEN cur.job ELSE m.job)
      /\ c = (IF m.cond = base.cond THEN cur.cond ELSE m.cond)
  BY DEF Written
<1>4. Merge(cur, base, m) = [cur EXCEPT !.attempts = a, !.job = j, !.endpos = e, !.lag = l, !.cond = c]
  BY DEF Merge, Migrations
<1> HIDE DEF a, j, e, l, c
<1>5. [cur EXCEPT !.attempts = a, !.job = j, !.endpos = e, !.lag = l, !.cond = c] \in Migrations
  BY <1>1, <1>2 DEF Migrations
<1>6. /\ Merge(cur, base, m).attempts = a /\ Merge(cur, base, m).job = j
      /\ Merge(cur, base, m).cond = c /\ Merge(cur, base, m).suspend = cur.suspend
  BY <1>4 DEF Migrations
<1> QED BY <1>3, <1>4, <1>5, <1>6

\* The conditions one at a time.
LEMMA ConditionType ==
  ASSUME NEW m \in Migrations
  PROVE  /\ m.cond \in Conditions
         /\ \A c \in CloneWords :
              /\ [m EXCEPT !.cond.clone = c] \in Migrations
              /\ [m EXCEPT !.cond.clone = c] = [m EXCEPT !.cond = [m.cond EXCEPT !.clone = c]]
         /\ \A c \in CutoverWords : [m EXCEPT !.cond.cutover = c] \in Migrations
         /\ \A b \in BOOLEAN : [m EXCEPT !.cond.held = b] \in Migrations
         /\ [m EXCEPT !.cond.complete = TRUE] \in Migrations
         /\ Fail(m) \in Migrations
BY DEF Migrations, Conditions, CloneWords, CutoverWords, Fail

\* The record that a pass leaves for its next step.
LEMMA ContinueType ==
  ASSUME NEW step \in Steps, NEW m \in Migrations, cache \in Migrations, Continue(step, m)
  PROVE  /\ pass' \in Passes /\ pass'.step = step /\ pass'.m = m /\ pass'.base = cache
         /\ pass'.read = "missed"
BY NewMigrationType DEF Continue, Idle, Passes, Steps

-----------------------------------------------------------------------------
(* What a pass makes of what it read, operation by operation. *)

ApiTypeOK == mig \in Migrations /\ cache \in Migrations /\ fresh \in BOOLEAN
WorkTypeOK ==
  /\ worker \in [attempt: Nat, state: WorkerStates, setup: Setups]
  /\ copy \in [marker: {"none", "logged", "scrolled"}, done: BOOLEAN, loaded: BOOLEAN]
  /\ stream \in [synced: BOOLEAN, backlog: {"low", "high"}]
JobsTypeOK ==
  /\ {endpos, drained, slot} \subseteq BOOLEAN
  /\ {verify, reown, cleanup, compare} \subseteq JobStates
BoundsTypeOK == lastLow \in BOOLEAN /\ edits \in Nat /\ aborts \in Nat

LEMMA TypeParts == TypeOK <=> ApiTypeOK /\ pass \in Passes /\ WorkTypeOK /\ JobsTypeOK /\ BoundsTypeOK
BY DEF TypeOK, ApiTypeOK, WorkTypeOK, JobsTypeOK, BoundsTypeOK

\* The same after a step.
LEMMA TypePartsNext ==
  ASSUME ApiTypeOK', (pass \in Passes)', WorkTypeOK', JobsTypeOK', BoundsTypeOK'
  PROVE  TypeOK'
BY DEF TypeOK, ApiTypeOK, WorkTypeOK, JobsTypeOK, BoundsTypeOK

\* The record of a pass that read the cached copy and goes on at step with m.
Begun(step) == pass' \in Passes /\ pass'.base = cache /\ pass'.step = step

LEMMA SuspendShape ==
  ASSUME TypeOK, SuspendPass
  PROVE  /\ Begun("write") /\ pass'.read = "missed" /\ cache.suspend
         /\ pass'.m.attempts = cache.attempts /\ pass'.m.job = 0
         /\ pass'.m.cond.clone = cache.cond.clone /\ pass'.m.cond.caught = cache.cond.caught
         /\ pass'.m.cond.cutover = cache.cond.cutover
         /\ worker' = (IF Exists(cache.job) THEN [worker EXCEPT !.state = Deleted(@)] ELSE worker)
         /\ reown' = (IF Unfinished(reown) THEN "ending" ELSE reown)
         /\ UNCHANGED <<verify, cleanup, compare>>
<1> DEFINE m == [cache EXCEPT !.job = 0, !.cond.held = FALSE]
<1>1. /\ m \in Migrations /\ m.attempts = cache.attempts /\ m.job = 0
      /\ m.cond.clone = cache.cond.clone /\ m.cond.caught = cache.cond.caught
      /\ m.cond.cutover = cache.cond.cutover
  BY DEF TypeOK, Migrations, Conditions
<1>2. Continue("write", m) /\ cache \in Migrations
  BY DEF SuspendPass, Finish, TypeOK
<1> HIDE DEF m
<1>3. Begun("write") /\ pass'.m = m /\ pass'.read = "missed"
  BY <1>1, <1>2, ContinueType DEF Begun, Steps
<1> QED BY <1>1, <1>3 DEF SuspendPass, Deleted

\* A failed worker is retried, begun anew over a refused resume, or the end.
LEMMA FailedShape ==
  ASSUME TypeOK, HandleFailedJob
  PROVE  /\ Begun("write") /\ pass'.read = "missed"
         /\ Exists(cache.job) /\ worker.state \in Failures
         /\ pass'.m.attempts = cache.attempts /\ pass'.m.cond.caught = cache.cond.caught
         /\ pass'.m.cond.cutover = cache.cond.cutover
         /\ \/ pass'.m.job = 0 /\ pass'.m.cond.clone = cache.cond.clone
            \/ pass'.m.job = 0 /\ pass'.m.cond.clone = "lost" /\ worker.state = "lost"
            \/ pass'.m.job = cache.job /\ pass'.m.cond.clone = "running" /\ pass'.m.cond.failed
         /\ UNCHANGED <<worker, verify, reown, cleanup, compare>>
<1> DEFINE over == Fail([cache EXCEPT !.cond.clone = "running"])
           Same(m) == /\ m \in Migrations /\ m.attempts = cache.attempts
                      /\ m.cond.caught = cache.cond.caught /\ m.cond.cutover = cache.cond.cutover
<1>0. cache \in Migrations
  BY DEF TypeOK
<1>1. Same(Retried) /\ Retried.job = 0 /\ Retried.cond.clone = cache.cond.clone
  BY <1>0 DEF Retried, Migrations, Conditions
<1>2. Same(StartsOver) /\ StartsOver.job = 0 /\ StartsOver.cond.clone = "lost"
  BY <1>1 DEF StartsOver, Migrations, Conditions
<1>3. Same(over) /\ over.job = cache.job /\ over.cond.clone = "running" /\ over.cond.failed
  BY <1>0 DEF Fail, Migrations, Conditions
<1> HIDE DEF over
<1>4. \/ Continue("write", Retried)
      \/ worker.state = "lost" /\ Continue("write", StartsOver)
      \/ Continue("write", over)
  BY DEF HandleFailedJob, Finish, over
<1>5. ASSUME NEW m, Same(m), Continue("write", m)
      PROVE  Begun("write") /\ pass'.m = m /\ pass'.read = "missed"
  BY <1>0, <1>5, ContinueType DEF Begun, Steps
<1>6. \E m : /\ Same(m) /\ Continue("write", m)
             /\ \/ m.job = 0 /\ m.cond.clone = cache.cond.clone
                \/ m.job = 0 /\ m.cond.clone = "lost" /\ worker.state = "lost"
                \/ m.job = cache.job /\ m.cond.clone = "running" /\ m.cond.failed
  BY <1>1, <1>2, <1>3, <1>4
<1> QED BY <1>5, <1>6 DEF HandleFailedJob, finishJobs

\* A worker that runs: a marker is judged once, by counts or by their absence, and the
\* catch-up latch moves only once the copy is confirmed.
LEMMA ObserveShape ==
  ASSUME TypeOK, ObserveRunningJob
  PROVE  /\ pass' \in Passes /\ pass'.base = cache /\ pass'.step \in {"endpos", "write"}
         /\ Exists(cache.job) /\ Live
         /\ pass'.m.attempts = cache.attempts /\ pass'.m.job = cache.job
         /\ pass'.m.cond.cutover = cache.cond.cutover
         /\ \/ pass'.m.cond.clone = cache.cond.clone
            \/ /\ cache.cond.clone # "done" /\ pass'.m.cond.clone \in {"refused", "done"}
               /\ copy.marker = "logged" \/ cache.cond.clone = "refused"
               /\ pass'.m.cond.clone = "done" =>
                    copy.loaded \/ (SamplesFail /\ cache.cond.clone # "refused")
         /\ pass'.m.cond.caught = cache.cond.caught \/ pass'.m.cond.clone = "done"
         /\ pass'.read \in {"low", "high"} /\ pass'.m.cond.clone = "done" =>
              pass'.m.cond.caught = CaughtUp(cache.cond.caught, pass'.read = "low")
         /\ pass'.read = "missed" => pass'.m.cond.caught = cache.cond.caught
         /\ pass'.read = "none" => SamplesFail
         /\ pass'.step = "endpos" =>
              /\ pass'.m.cond.clone = "done" /\ pass'.m.cond.caught = "true"
              /\ pass'.read # "missed" /\ cache.cond.caught \in {"confirming", "true"}
         /\ UNCHANGED <<worker, verify, reown, cleanup, compare>>
<1> DEFINE judge == cache.cond.clone # "done" /\ (copy.marker = "logged" \/ cache.cond.clone = "refused")
           judged(counts) == [cache EXCEPT !.cond.held = FALSE,
                       !.cond.clone = IF judge THEN ConfirmBaseCopy(cache, counts) ELSE @]
           clone(counts) == IF judge THEN ConfirmBaseCopy(cache, counts) ELSE cache.cond.clone
           m(counts, reading) == FollowRunning(judged(counts), reading)
           step(counts, reading) ==
             IF reading # "missed" /\ CutoverWanted(m(counts, reading)) THEN "endpos" ELSE "write"
<1>0. cache \in Migrations /\ cache.cond \in Conditions
  BY ConditionType DEF TypeOK
<1>1. PICK counts \in Counts, reading \in Readings :
        pass' = [step |-> step(counts, reading), m |-> m(counts, reading), base |-> cache, read |-> reading]
  BY DEF ObserveRunningJob
<1>2. /\ clone(counts) \in CloneWords
      /\ \/ clone(counts) = cache.cond.clone
         \/ /\ cache.cond.clone # "done" /\ clone(counts) \in {"refused", "done"}
            /\ copy.marker = "logged" \/ cache.cond.clone = "refused"
            /\ clone(counts) = "done" => copy.loaded \/ (SamplesFail /\ cache.cond.clone # "refused")
  BY <1>0 DEF ConfirmBaseCopy, Counts, CloneWords, Conditions
<1>3. /\ judged(counts) \in Migrations
      /\ judged(counts).attempts = cache.attempts /\ judged(counts).job = cache.job
      /\ judged(counts).cond.clone = clone(counts) /\ judged(counts).cond.caught = cache.cond.caught
      /\ judged(counts).cond.cutover = cache.cond.cutover /\ judged(counts).endpos = cache.endpos
      /\ judged(counts).lag = cache.lag
  <2> DEFINE free == [cache EXCEPT !.cond.held = FALSE]
             word == clone(counts)
             out == judged(counts)
  <2>1. /\ free \in Migrations
        /\ free.attempts = cache.attempts /\ free.job = cache.job
        /\ free.cond.clone = cache.cond.clone /\ free.cond.caught = cache.cond.caught
        /\ free.cond.cutover = cache.cond.cutover /\ free.endpos = cache.endpos
        /\ free.lag = cache.lag
    BY <1>0 DEF Migrations, Conditions
  <2>2. out = [free EXCEPT !.cond.clone = word]
    BY <2>1
  <2>3. word \in CloneWords
    BY <1>2
  <2> HIDE DEF free, word, out
  <2>4. /\ out \in Migrations
        /\ out.attempts = free.attempts /\ out.job = free.job
        /\ out.cond.clone = word /\ out.cond.caught = free.cond.caught
        /\ out.cond.cutover = free.cond.cutover /\ out.endpos = free.endpos
        /\ out.lag = free.lag
    BY <2>1, <2>2, <2>3 DEF Migrations, Conditions, CloneWords
  <2> QED BY <2>1, <2>4 DEF out, word
<1> HIDE DEF judged, clone
<1>4. /\ reading \in Reads /\ (reading = "none" => SamplesFail)
  BY DEF Readings, Reads, TypeOK
<1> DEFINE j == judged(counts)
           lag == IF reading = "none" THEN j.lag ELSE reading
           caught == IF reading = "missed" \/ j.cond.clone # "done" THEN j.cond.caught
                     ELSE CaughtUp(j.cond.caught, lag = "low")
           r == m(counts, reading)
<1>5. caught \in CaughtWords
  BY <1>0, <1>3 DEF CaughtUp, CaughtWords, Conditions
<1>6. /\ r \in Migrations
      /\ r.attempts = j.attempts /\ r.job = j.job /\ r.cond.clone = j.cond.clone
      /\ r.cond.cutover = j.cond.cutover /\ r.cond.caught = caught
  <2>1. CASE reading = "missed"
    BY <1>3, <2>1 DEF FollowRunning
  <2>2. CASE reading # "missed"
    <3> DEFINE seen == [j EXCEPT !.lag = lag]
    <3>1. lag \in Lags
      BY <1>3, <1>4, <2>2 DEF Lags, Reads, Migrations
    <3>2. /\ seen \in Migrations /\ seen.cond = j.cond
          /\ seen.attempts = j.attempts /\ seen.job = j.job
      BY <1>3, <3>1 DEF Migrations
    <3>3. r = IF j.cond.clone # "done" THEN seen
              ELSE [seen EXCEPT !.cond.caught = CaughtUp(seen.cond.caught, lag = "low")]
      BY <2>2, <3>2 DEF FollowRunning
    <3> HIDE DEF seen, lag, j, r
    <3>4. CASE j.cond.clone # "done"
      BY <2>2, <3>2, <3>3, <3>4 
    <3>5. CASE j.cond.clone = "done"
      <4>1. r = [seen EXCEPT !.cond.caught = caught]
        BY <2>2, <3>2, <3>3, <3>5
      <4> HIDE DEF caught
      <4> QED BY <1>5, <3>2, <4>1 DEF Migrations, Conditions, CaughtWords
    <3> QED BY <3>4, <3>5
  <2> QED BY <2>1, <2>2
<1>7. /\ pass' \in Passes /\ pass'.base = cache /\ pass'.m = r /\ pass'.read = reading
      /\ pass'.step = step(counts, reading)
  BY <1>0, <1>1, <1>4, <1>6 DEF Passes, Reads
<1>8. step(counts, reading) = "endpos" => reading # "missed" /\ r.cond.clone = "done" /\ r.cond.caught = "true"
  BY DEF CutoverWanted
<1>9. caught = "true" /\ reading # "missed" /\ j.cond.clone = "done" =>
        cache.cond.caught \in {"confirming", "true"}
  BY <1>3 DEF CaughtUp
<1> QED BY <1>2, <1>3, <1>4, <1>6, <1>7, <1>8, <1>9 DEF ObserveRunningJob, finishJobs, Live

\* The finish path: a cutover is reported over a verify Job and a handover that
\* succeeded, and the later Jobs are created over them.
LEMMA FinishShape ==
  ASSUME TypeOK, FinishFollow
  PROVE  /\ Begun("write") /\ pass'.read = "missed"
         /\ pass'.m.attempts = cache.attempts /\ pass'.m.job = cache.job
         /\ pass'.m.cond.caught = cache.cond.caught
         /\ pass'.m.cond.clone = IF cache.cond.clone = "refused" THEN "refused" ELSE "done"
         /\ \/ pass'.m.cond.cutover = cache.cond.cutover
            \/ pass'.m.cond.cutover = "true" /\ verify = "ok" /\ (Handover => reown = "ok")
            \/ pass'.m.cond.cutover = "refuted" /\ verify = "failed"
         /\ verify' = Ensured(verify)
         /\ reown' # reown => verify = "ok" /\ reown = "none" /\ reown' = "running"
         /\ cleanup' # cleanup =>
              verify = "ok" /\ (Handover => reown = "ok") /\ cleanup = "none" /\ cleanup' = "running"
         /\ compare' \in {compare, Ensured(compare)}
         /\ UNCHANGED worker
<1> DEFINE word == IF cache.cond.clone = "refused" THEN "refused" ELSE "done"
           copied == [cache EXCEPT !.cond.clone = IF @ = "refused" THEN @ ELSE "done"]
           cutover == [copied EXCEPT !.cond.cutover = "true"]
           refuted == [copied EXCEPT !.cond.cutover = "refuted"]
           owned == verify = "ok" /\ (~Handover \/ reown = "ok")
           Same(m) == /\ m \in Migrations /\ m.attempts = cache.attempts /\ m.job = cache.job
                      /\ m.cond.caught = cache.cond.caught /\ m.cond.clone = word
<1>1. Same(copied) /\ copied.cond.cutover = cache.cond.cutover
  <2>1. cache \in Migrations
    BY DEF TypeOK
  <2>2. copied = [cache EXCEPT !.cond.clone = word]
    BY <2>1 DEF Migrations, Conditions
  <2>3. word \in CloneWords
    BY DEF CloneWords
  <2> HIDE DEF word, copied
  <2> QED BY <2>1, <2>2, <2>3 DEF Migrations, Conditions, CloneWords
<1> HIDE DEF word, copied
<1>2. /\ Same(cutover) /\ cutover.cond.cutover = "true"
      /\ Same(refuted) /\ refuted.cond.cutover = "refuted"
  BY <1>1 DEF Migrations, Conditions
<1> HIDE DEF cutover, refuted
<1>3. ASSUME NEW m, Same(m)
      PROVE  /\ Same(Fail(m)) /\ Fail(m).cond.cutover = m.cond.cutover
             /\ Same([m EXCEPT !.cond.complete = TRUE])
             /\ [m EXCEPT !.cond.complete = TRUE].cond.cutover = m.cond.cutover
  BY <1>3 DEF Fail, Migrations, Conditions
<1>4. \E m : /\ Same(m) /\ Finish(m)
             /\ \/ m.cond.cutover = cache.cond.cutover
                \/ m.cond.cutover = "true" /\ owned
                \/ m.cond.cutover = "refuted" /\ verify = "failed"
  <2>1. \/ verify = "failed" /\ Finish(Fail(refuted))
        \/ Finish(copied)
        \/ Finish(Fail(copied))
        \/ owned /\ Finish(cutover)
        \/ owned /\ Finish([cutover EXCEPT !.cond.complete = TRUE])
    BY DEF FinishFollow, copied, cutover, refuted
  <2> HIDE DEF owned, Same
  <2>2. CASE verify = "failed" /\ Finish(Fail(refuted))
    BY <1>2, <1>3, <2>2
  <2>3. CASE Finish(copied)
    BY <1>1, <2>3
  <2>4. CASE Finish(Fail(copied))
    BY <1>1, <1>3, <2>4
  <2>5. CASE owned /\ Finish(cutover)
    BY <1>2, <2>5
  <2>6. CASE owned /\ Finish([cutover EXCEPT !.cond.complete = TRUE])
    BY <1>2, <1>3, <2>6
  <2> QED BY <2>1, <2>2, <2>3, <2>4, <2>5, <2>6
<1>5. PICK m : /\ Same(m) /\ Finish(m)
               /\ \/ m.cond.cutover = cache.cond.cutover
                  \/ m.cond.cutover = "true" /\ owned
                  \/ m.cond.cutover = "refuted" /\ verify = "failed"
  BY <1>4
<1>6. Begun("write") /\ pass'.m = m /\ pass'.read = "missed"
  BY <1>5, ContinueType DEF Begun, Steps, Finish, TypeOK
<1>7. /\ verify' = Ensured(verify) /\ UNCHANGED worker
      /\ reown' # reown => verify = "ok" /\ reown = "none" /\ reown' = "running"
      /\ cleanup' # cleanup =>
           verify = "ok" /\ (Handover => reown = "ok") /\ cleanup = "none" /\ cleanup' = "running"
      /\ compare' \in {compare, Ensured(compare)}
  BY DEF FinishFollow, Ensured
<1> QED BY <1>5, <1>6, <1>7 DEF word

\* Starting or recording an attempt, or refusing it: what the condition list says of the
\* cutover stays, and a copy that is confirmed stays confirmed.
LEMMA StartShape ==
  ASSUME TypeOK, StartAttempt
  PROVE  /\ pass' \in Passes /\ pass'.base = cache /\ pass'.read = "missed"
         /\ cache.attempts + 1 >= worker.attempt
         /\ pass'.m.cond.caught = cache.cond.caught /\ pass'.m.cond.cutover = cache.cond.cutover
         /\ \/ /\ pass'.step = "write" /\ Exists(cache.attempts + 1)
               /\ pass'.m.attempts = cache.attempts + 1 /\ pass'.m.job = cache.attempts + 1
               /\ pass'.m.cond.clone = IF cache.cond.clone = "done" THEN "done" ELSE "running"
            \/ /\ pass'.step = "write"
               /\ pass'.m.attempts = cache.attempts /\ pass'.m.job = cache.job
               /\ pass'.m.cond.clone = cache.cond.clone /\ ~Exists(cache.attempts + 1)
            \/ /\ pass'.step = "create" /\ ~Exists(cache.attempts + 1)
               /\ cache.attempts < MaxAttempts
               /\ cache.attempts = 0 \/ (fresh /\ worker.state # "ending")
               /\ pass'.m.attempts = cache.attempts + 1 /\ pass'.m.job = cache.attempts + 1
               /\ pass'.m.cond.clone = IF cache.cond.clone = "done" THEN "done" ELSE "running"
         /\ UNCHANGED <<worker, verify, reown, cleanup, compare>>
<1> DEFINE attempt == cache.attempts + 1
           word == IF cache.cond.clone = "done" THEN "done" ELSE "running"
           started == [cache EXCEPT !.attempts = attempt, !.job = attempt, !.cond.held = FALSE,
                                    !.cond.clone = IF @ = "done" THEN @ ELSE "running"]
<1>0. cache \in Migrations /\ cache.attempts \in Nat /\ attempt \in Nat
  BY DEF TypeOK, Migrations
<1>1. /\ started \in Migrations /\ started.attempts = attempt /\ started.job = attempt
      /\ started.cond.caught = cache.cond.caught /\ started.cond.cutover = cache.cond.cutover
      /\ started.cond.clone = word
  <2> DEFINE named == [cache EXCEPT !.attempts = attempt, !.job = attempt, !.cond.held = FALSE]
  <2>1. /\ named \in Migrations /\ named.attempts = attempt /\ named.job = attempt
        /\ named.cond.caught = cache.cond.caught /\ named.cond.cutover = cache.cond.cutover
        /\ named.cond.clone = cache.cond.clone
    BY <1>0 DEF Migrations, Conditions
  <2>2. started = [named EXCEPT !.cond.clone = word]
    BY <2>1
  <2>3. word \in CloneWords
    BY DEF CloneWords
  <2> HIDE DEF named, word, started
  <2> QED BY <2>1, <2>2, <2>3 DEF Migrations, Conditions, CloneWords
<1> HIDE DEF started, word
<1>2. /\ Fail(cache) \in Migrations /\ Fail(cache).attempts = cache.attempts
      /\ Fail(cache).job = cache.job /\ Fail(cache).cond.clone = cache.cond.clone
      /\ Fail(cache).cond.caught = cache.cond.caught /\ Fail(cache).cond.cutover = cache.cond.cutover
  BY <1>0 DEF Fail, Migrations, Conditions
<1>3. /\ attempt >= worker.attempt /\ UNCHANGED <<worker, verify, reown, cleanup, compare>>
      /\ \/ Exists(attempt) /\ Continue("write", started)
         \/ ~Exists(attempt) /\ Continue("write", Fail(cache))
         \/ /\ Continue("create", started) /\ ~Exists(attempt) /\ cache.attempts < MaxAttempts
            /\ attempt = 1 \/ (fresh /\ worker.state # "ending")
  BY DEF StartAttempt, Finish, started, finishJobs
<1>4. CASE Exists(attempt) /\ Continue("write", started)
  BY <1>0, <1>1, <1>3, <1>4, ContinueType DEF Steps, word
<1>5. CASE ~Exists(attempt) /\ Continue("write", Fail(cache))
  BY <1>0, <1>2, <1>3, <1>5, ContinueType DEF Steps
<1>6. CASE /\ Continue("create", started) /\ ~Exists(attempt) /\ cache.attempts < MaxAttempts
           /\ attempt = 1 \/ (fresh /\ worker.state # "ending")
  BY <1>0, <1>1, <1>3, <1>6, ContinueType DEF Steps, word
<1> QED BY <1>3, <1>4, <1>5, <1>6

\* Which operation a pass runs.
LEMMA ReconcileCases ==
  ASSUME Reconcile
  PROVE  /\ UNCHANGED <<apiVars, dataVars, lastLow, bounds>>
         /\ pass.step = "idle" /\ (CacheLags \/ fresh) /\ ~cache.cond.failed
         /\ \/ SuspendPass
            \/ ~cache.suspend /\ ~Exists(cache.job) /\ OnlyFinishRemains /\ FinishFollow
            \/ ~cache.suspend /\ ~Exists(cache.job) /\ ~OnlyFinishRemains /\ StartAttempt
            \/ ~cache.suspend /\ Exists(cache.job) /\ worker.state = "ok" /\ FinishFollow
            \/ ~cache.suspend /\ HandleFailedJob
            \/ ~cache.suspend /\ ObserveRunningJob
BY DEF Reconcile, NextAttempt, WorkerSucceeded, Terminal

-----------------------------------------------------------------------------
(* Type correctness. *)

LEMMA TypeInit == Init => TypeOK
<1> SUFFICES ASSUME Init PROVE TypeOK
  OBVIOUS
<1>1. mig \in Migrations /\ cache \in Migrations /\ fresh \in BOOLEAN /\ pass \in Passes
  BY NewMigrationType, IdleType DEF Init
<1>2. WorkTypeOK
  BY DEF Init, WorkTypeOK, WorkerStates, JobStates, Failures, Setups, NoStream
<1>3. JobsTypeOK /\ BoundsTypeOK
  BY DEF Init, JobsTypeOK, BoundsTypeOK, JobStates
<1> QED BY <1>1, <1>2, <1>3, TypeParts DEF ApiTypeOK

LEMMA ReconcileType == ASSUME TypeOK, Reconcile PROVE TypeOK'
<1>1. /\ ApiTypeOK' /\ BoundsTypeOK' /\ {endpos, drained, slot}' \subseteq BOOLEAN
      /\ copy' = copy /\ stream' = stream
  BY ReconcileCases, TypeParts DEF apiVars, dataVars, bounds, ApiTypeOK, BoundsTypeOK, JobsTypeOK
<1>2. /\ pass' \in Passes /\ worker' \in [attempt: Nat, state: WorkerStates, setup: Setups]
      /\ {verify, reown, cleanup, compare}' \subseteq JobStates
  <2>1. CASE SuspendPass
    BY <2>1, SuspendShape DEF Begun, TypeOK, WorkerStates, JobStates, Deleted
  <2>2. CASE FinishFollow
    BY <2>2, FinishShape DEF Begun, TypeOK, WorkerStates, JobStates, Ensured
  <2>3. CASE StartAttempt
    BY <2>3, StartShape DEF TypeOK
  <2>4. CASE HandleFailedJob
    BY <2>4, FailedShape DEF Begun, TypeOK
  <2>5. CASE ObserveRunningJob
    BY <2>5, ObserveShape DEF TypeOK
  <2> QED BY <2>1, <2>2, <2>3, <2>4, <2>5, ReconcileCases
<1>3. WorkTypeOK' /\ JobsTypeOK'
  BY <1>1, <1>2 DEF WorkTypeOK, JobsTypeOK, TypeOK
<1> QED BY <1>1, <1>2, <1>3 DEF TypeOK, ApiTypeOK, WorkTypeOK, JobsTypeOK, BoundsTypeOK

\* The status write: what it stores, and the end of the pass.
LEMMA UpdateShape ==
  ASSUME TypeOK, UpdateStatus
  PROVE  /\ pass.step = "write" /\ pass' = Idle
         /\ mig' \in Migrations /\ mig'.suspend = mig.suspend
         /\ mig'.attempts = IF pass.m.attempts = pass.base.attempts THEN mig.attempts ELSE pass.m.attempts
         /\ mig'.job = IF pass.m.job = pass.base.job THEN mig.job ELSE pass.m.job
         /\ mig'.cond = IF pass.m.cond = pass.base.cond THEN mig.cond ELSE pass.m.cond
         /\ fresh' = (fresh /\ mig' = mig)
         /\ lastLow' = IF pass.read \in {"low", "high"} THEN pass.read = "low" ELSE lastLow
         /\ UNCHANGED <<cache, worker, copy, stream, endpos, drained, slot, verify, reown, cleanup,
                        compare, edits, aborts>>
<1>1. mig \in Migrations /\ pass.base \in Migrations /\ pass.m \in Migrations
  BY DEF TypeOK, Passes
<1>2. mig' = Merge(mig, pass.base, pass.m)
  BY DEF UpdateStatus
<1> QED BY <1>1, <1>2, MergeType DEF UpdateStatus, dataVars, finishJobs, bounds

LEMMA EditShape ==
  ASSUME TypeOK, EditSpec
  PROVE  /\ mig' \in Migrations /\ mig'.attempts = mig.attempts /\ mig'.job = mig.job
         /\ mig'.cond = mig.cond /\ (~Suspends => mig'.suspend = mig.suspend)
         /\ fresh' = FALSE /\ edits' \in Nat
         /\ UNCHANGED <<cache, pass, worker, copy, stream, endpos, drained, slot, verify, reown,
                        cleanup, compare, lastLow, aborts>>
<1>1. mig \in Migrations /\ edits \in Nat
  BY DEF TypeOK
<1>2. /\ mig' \in Migrations /\ mig'.attempts = mig.attempts /\ mig'.job = mig.job
      /\ mig'.cond = mig.cond /\ (~Suspends => mig'.suspend = mig.suspend)
  <2>1. CASE mig' = [mig EXCEPT !.approved = ~@]
    BY <1>1, <2>1 DEF Migrations
  <2>2. CASE Suspends /\ mig' = [mig EXCEPT !.suspend = ~@]
    BY <1>1, <2>2 DEF Migrations
  <2> QED BY <2>1, <2>2 DEF EditSpec
<1> QED BY <1>1, <1>2 DEF EditSpec, dataVars, finishJobs

\* endpos is set, answered or not.
LEMMA EndposShape ==
  ASSUME TypeOK, SetEndposCurrent
  PROVE  /\ pass.step = "endpos" /\ pass' \in Passes /\ pass'.step = "write" /\ pass'.base = pass.base
         /\ pass'.m.attempts = pass.m.attempts /\ pass'.m.job = pass.m.job
         /\ pass'.m.cond = pass.m.cond /\ pass'.read = pass.read
         /\ endpos \in BOOLEAN /\ endpos' \in {endpos, TRUE} /\ drained' \in {drained, FALSE}
         /\ endpos' # endpos \/ drained' # drained => Live
         /\ UNCHANGED <<mig, cache, fresh, worker, copy, stream, slot, verify, reown, cleanup, compare,
                        lastLow, edits, aborts>>
<1>1. PICK set \in BOOLEAN, answered \in BOOLEAN :
        /\ set => Live
        /\ endpos' = (endpos \/ set)
        /\ drained' \in (IF set THEN {FALSE, drained} ELSE {drained})
        /\ pass' = [pass EXCEPT !.step = "write", !.m.endpos = answered]
  BY DEF SetEndposCurrent
<1>2. /\ pass' \in Passes /\ pass'.step = "write" /\ pass'.base = pass.base
      /\ pass'.m.attempts = pass.m.attempts /\ pass'.m.job = pass.m.job
      /\ pass'.m.cond = pass.m.cond /\ pass'.read = pass.read
  BY <1>1 DEF TypeOK, Passes, Migrations
<1>3. endpos \in BOOLEAN
  BY DEF TypeOK
<1> QED BY <1>1, <1>2, <1>3 DEF SetEndposCurrent, apiVars, finishJobs, bounds

LEMMA CreateShape ==
  ASSUME TypeOK, CreateWorker
  PROVE  /\ pass.step = "create" /\ pass' \in Passes /\ pass'.step = "write"
         /\ pass'.m = pass.m /\ pass'.base = pass.base /\ pass'.read = pass.read
         /\ pass.m \in Migrations
         /\ worker' \in [attempt: Nat, state: WorkerStates, setup: Setups]
         /\ worker'.attempt = pass.m.attempts /\ worker'.state = "running"
         /\ worker'.setup \in {"cleanup", "restart", "resume"}
         /\ worker'.setup = "restart" => pass.m.attempts = 1
         /\ worker'.setup = "cleanup" => pass.base.cond.clone = "lost"
         /\ copy' = [copy EXCEPT !.marker = "none"]
         /\ copy'.marker = "none" /\ copy'.done = copy.done /\ copy'.loaded = copy.loaded
         /\ stream' = NoStream /\ lastLow' = FALSE
         /\ UNCHANGED <<mig, cache, fresh, endpos, drained, slot, verify, reown, cleanup, compare,
                        edits, aborts>>
<1>1. pass.m \in Migrations /\ pass.m.attempts \in Nat
  BY DEF TypeOK, Passes, Migrations
<1>2. worker' = [attempt |-> pass.m.attempts, state |-> "running", setup |-> Setup]
  BY DEF CreateWorker
<1>3. /\ Setup \in {"cleanup", "restart", "resume"}
      /\ Setup = "restart" => pass.m.attempts = 1
      /\ Setup = "cleanup" => pass.base.cond.clone = "lost"
  BY DEF Setup
<1>4. copy' = [copy EXCEPT !.marker = "none"] /\ copy'.marker = "none"
      /\ copy'.done = copy.done /\ copy'.loaded = copy.loaded
  BY DEF CreateWorker, TypeOK
<1> HIDE DEF Setup
<1>5. /\ worker' \in [attempt: Nat, state: WorkerStates, setup: Setups]
      /\ worker'.attempt = pass.m.attempts /\ worker'.state = "running" /\ worker'.setup = Setup
  BY <1>1, <1>2, <1>3 DEF WorkerStates, JobStates, Setups
<1> QED BY <1>1, <1>3, <1>4, <1>5 DEF CreateWorker, TypeOK, Passes, apiVars, finishJobs, bounds

\* A worker sets up: it drops the slot, wipes what is in its way, and gets to work or is
\* refused.
LEMMA SetUpShape ==
  ASSUME TypeOK, SetsUp
  PROVE  /\ WorkTypeOK' /\ JobsTypeOK' /\ Live
         /\ worker'.attempt = worker.attempt /\ copy'.marker = copy.marker
         /\ UNCHANGED <<apiVars, pass, stream, finishJobs, lastLow, bounds>>
         /\ \/ /\ worker.setup = "cleanup" /\ worker'.setup = "restart" /\ slot' = FALSE
               /\ UNCHANGED <<copy, endpos, drained>> /\ worker'.state = worker.state
            \/ /\ worker.setup = "restart" /\ worker'.setup = "resume" /\ worker'.state = worker.state
               /\ ~copy'.done /\ ~copy'.loaded /\ endpos' = FALSE /\ drained' = FALSE
               /\ UNCHANGED slot
            \/ /\ worker.setup = "resume" /\ worker'.setup = "up" /\ worker'.state = worker.state
               /\ copy.done \/ ~slot
               /\ slot' = IF copy.done THEN slot ELSE TRUE
               /\ UNCHANGED <<copy, endpos, drained>>
            \/ /\ worker.setup = "resume" /\ worker'.setup = "resume" /\ ~copy.done
               /\ worker.state = "running" /\ worker'.state = "lost"
               /\ UNCHANGED <<copy, endpos, drained, slot>>
<1> USE DEF WorkTypeOK, JobsTypeOK, WorkerStates, JobStates, Failures, Setups
<1>0. WorkTypeOK /\ JobsTypeOK
  BY TypeParts
<1>1. CASE DropsSlot
  BY <1>0, <1>1 DEF DropsSlot, finishJobs
<1>2. CASE Wipes
  <2>1. /\ copy' = [copy EXCEPT !.done = FALSE, !.loaded = FALSE]
        /\ worker' = [worker EXCEPT !.setup = "restart"] \/ worker' = [worker EXCEPT !.setup = "resume"]
    BY <1>2 DEF Wipes
  <2>2. /\ copy' \in [marker: {"none", "logged", "scrolled"}, done: BOOLEAN, loaded: BOOLEAN]
        /\ ~copy'.done /\ ~copy'.loaded /\ copy'.marker = copy.marker
    BY <1>0, <2>1
  <2> QED BY <1>0, <1>2, <2>2 DEF Wipes, finishJobs
<1>3. CASE Begins
  BY <1>0, <1>3 DEF Begins, finishJobs
<1> QED BY <1>1, <1>2, <1>3 DEF SetsUp

\* A worker's pod ends: well behind a finished copy, or not.
LEMMA ExitShape ==
  ASSUME TypeOK, WorkerExits
  PROVE  /\ WorkTypeOK' /\ JobsTypeOK' /\ Live
         /\ worker'.attempt = worker.attempt /\ worker'.setup = worker.setup
         /\ \/ worker.state = "ending" /\ worker'.state = "gone"
            \/ worker.state = "running" /\ worker'.state \in {"ok", "failed", "denied"}
         /\ worker'.state = "ok" => worker.setup = "up" /\ copy.done /\ (endpos \/ EarlyExits)
         /\ copy'.marker = "none" /\ copy'.done = copy.done /\ copy'.loaded = copy.loaded
         /\ drained => drained'
         /\ drained' # drained => worker.setup = "up" /\ worker'.state \in {"ok", "gone"}
         /\ UNCHANGED <<apiVars, pass, endpos, slot, finishJobs, lastLow, bounds>>
<1> USE DEF WorkTypeOK, JobsTypeOK
<1>0. WorkTypeOK /\ JobsTypeOK
  BY TypeParts
<1>1. /\ copy' = [copy EXCEPT !.marker = "none"] /\ stream' = NoStream
      /\ UNCHANGED <<apiVars, pass, endpos, slot, finishJobs, lastLow, bounds>>
  BY DEF WorkerExits
<1>2. /\ copy' \in [marker: {"none", "logged", "scrolled"}, done: BOOLEAN, loaded: BOOLEAN]
      /\ copy'.marker = "none" /\ copy'.done = copy.done /\ copy'.loaded = copy.loaded
      /\ stream' \in [synced: BOOLEAN, backlog: {"low", "high"}]
  BY <1>0, <1>1 DEF NoStream
<1>3. CASE EndsWell /\ worker' = [worker EXCEPT !.state = IF @ = "ending" THEN "gone" ELSE "ok"]
           /\ drained' \in {TRUE, drained}
  <2>1. /\ Live /\ worker.setup = "up" /\ copy.done /\ (endpos \/ EarlyExits)
    BY <1>3 DEF EndsWell, Working
  <2>2. /\ worker' \in [attempt: Nat, state: WorkerStates, setup: Setups]
        /\ worker'.attempt = worker.attempt /\ worker'.setup = worker.setup
        /\ worker'.state = IF worker.state = "ending" THEN "gone" ELSE "ok"
    BY <1>0, <1>3 DEF WorkerStates, JobStates
  <2>3. worker.state \in {"running", "ending"}
    BY <2>1 DEF Live, Unfinished
  <2>0. drained \in BOOLEAN /\ (drained' = TRUE \/ drained' = drained)
    BY <1>0, <1>3
  <2>4. drained' \in BOOLEAN /\ (drained => drained')
    BY <2>0
  <2> QED BY <1>0, <1>1, <1>2, <2>1, <2>2, <2>3, <2>4 DEF finishJobs
<1>4. CASE /\ worker.state = "running" /\ UNCHANGED drained
           /\ \E cause \in {"failed", "denied"} : worker' = [worker EXCEPT !.state = cause]
  BY <1>0, <1>1, <1>2, <1>4 DEF finishJobs, Live, Unfinished, WorkerStates, Failures
<1>5. CASE worker.state = "ending" /\ worker' = [worker EXCEPT !.state = "gone"] /\ UNCHANGED drained
  BY <1>0, <1>1, <1>2, <1>5 DEF finishJobs, Live, Unfinished, WorkerStates
<1> QED BY <1>3, <1>4, <1>5 DEF WorkerExits

\* What else the cluster moves: the worker's log, and the Jobs, which end or, where the TTL
\* is short, go.  Rows only ever arrive, and the slot goes with the cleanup Job.
LEMMA ClusterShape ==
  ASSUME TypeOK, Cluster, ~SetsUp, ~WorkerExits
  PROVE  /\ UNCHANGED <<mig, cache, fresh, pass, endpos, drained, lastLow, edits, aborts>>
         /\ WorkTypeOK' /\ JobsTypeOK'
         /\ worker'.attempt = worker.attempt /\ worker'.setup = worker.setup
         /\ \/ worker'.state = worker.state
            \/ JobsVanish /\ worker.state \in {"ok"} \cup Failures /\ worker'.state = "gone"
         /\ copy.loaded => copy'.loaded
         /\ copy' # copy => Working
         /\ copy.done => copy'.done
         /\ copy'.marker # "none" => copy.marker # "none" \/ (Working /\ copy.done)
         /\ \/ verify' = verify
            \/ /\ verify = "running" /\ verify' \in {"ok", "failed"}
               /\ verify' = "ok" => drained /\ (endpos \/ copy.loaded)
            \/ JobsVanish /\ verify' = "none"
         /\ \/ reown' = reown
            \/ reown = "running" /\ reown' \in {"ok", "failed"}
            \/ reown = "ending" /\ reown' = "none"
         /\ \/ cleanup' = cleanup
            \/ cleanup = "running" /\ cleanup' \in {"ok", "failed"}
            \/ JobsVanish /\ cleanup' = "none"
         /\ slot' = slot \/ (cleanup = "running" /\ slot' = FALSE)
<1> USE DEF WorkTypeOK, JobsTypeOK, WorkerStates, JobStates, Failures, apiVars, dataVars, finishJobs,
            bounds
<1>0. WorkTypeOK /\ JobsTypeOK
  BY TypeParts
<1>1. CASE Logs
  <2>1. /\ copy' \in [marker: {"none", "logged", "scrolled"}, done: BOOLEAN, loaded: BOOLEAN]
        /\ copy.loaded => copy'.loaded
        /\ copy.done => copy'.done
        /\ copy'.marker # "none" => copy.marker # "none" \/ copy.done
    BY <1>0, <1>1 DEF Logs
  <2> QED BY <1>0, <1>1, <2>1 DEF Logs
<1>2. CASE Streams
  BY <1>0, <1>2 DEF Streams
<1>4. CASE VerifyEnds
  BY <1>0, <1>4 DEF VerifyEnds, Shown
<1>5. CASE ReownEnds
  BY <1>0, <1>5 DEF ReownEnds
<1>6. CASE CleanupEnds
  BY <1>0, <1>6 DEF CleanupEnds
<1>7. CASE CompareEnds
  BY <1>0, <1>7 DEF CompareEnds
<1>8. CASE JobVanishes
  BY <1>0, <1>8 DEF JobVanishes, Finished
<1> QED BY <1>1, <1>2, <1>4, <1>5, <1>6, <1>7, <1>8 DEF Cluster, FinishJobEnds

\* Nothing the cluster does reaches the Migration or the pass, and a worker that is over
\* stays so.
LEMMA ClusterQuiet ==
  ASSUME TypeOK, Cluster
  PROVE  /\ UNCHANGED <<mig, cache, fresh, pass, lastLow, edits, aborts>>
         /\ worker'.attempt = worker.attempt
         /\ \/ worker'.state = worker.state
            \/ worker.state = "running" /\ worker'.state \in {"ok"} \cup Failures
            \/ worker.state = "ending" /\ worker'.state = "gone"
            \/ JobsVanish /\ worker.state \in {"ok"} \cup Failures /\ worker'.state = "gone"
         /\ worker'.state = "ok" =>
              worker.state = "ok" \/ (worker.setup = "up" /\ copy.done /\ (endpos \/ EarlyExits))
         /\ \/ verify' = verify
            \/ /\ verify = "running" /\ verify' \in {"ok", "failed"}
               /\ verify' = "ok" => drained /\ (endpos \/ copy.loaded)
            \/ JobsVanish /\ verify' = "none"
         /\ \/ reown' = reown
            \/ reown = "running" /\ reown' \in {"ok", "failed"}
            \/ reown = "ending" /\ reown' = "none"
         /\ \/ cleanup' = cleanup
            \/ cleanup = "running" /\ cleanup' \in {"ok", "failed"}
            \/ JobsVanish /\ cleanup' = "none"
<1> USE DEF Live, Unfinished, Failures
<1>1. CASE SetsUp
  BY <1>1, SetUpShape DEF apiVars, bounds, finishJobs
<1>2. CASE WorkerExits
  BY <1>2, ExitShape DEF apiVars, bounds, finishJobs
<1>3. CASE ~SetsUp /\ ~WorkerExits
  BY <1>3, ClusterShape
<1> QED BY <1>1, <1>2, <1>3

LEMMA NextType == ASSUME TypeOK, [Next]_vars PROVE TypeOK'
<1> USE DEF ApiTypeOK, WorkTypeOK, JobsTypeOK, BoundsTypeOK
<1>0. ApiTypeOK /\ pass \in Passes /\ WorkTypeOK /\ JobsTypeOK /\ BoundsTypeOK
  BY TypeParts
<1>1. CASE Reconcile
  BY <1>1, ReconcileType
<1>2. CASE SetEndposCurrent
  <2>1. ApiTypeOK' /\ pass' \in Passes
    BY <1>0, <1>2, EndposShape
  <2>2. WorkTypeOK' /\ BoundsTypeOK'
    BY <1>0, <1>2, EndposShape
  <2>3. JobsTypeOK'
    <3>1. endpos' \in BOOLEAN /\ drained' \in BOOLEAN /\ slot' \in BOOLEAN
      BY <1>0, <1>2, EndposShape
    <3>2. UNCHANGED <<verify, reown, cleanup, compare>>
      BY <1>2, EndposShape
    <3> QED BY <1>0, <3>1, <3>2
  <2> QED BY ONLY <2>1, <2>2, <2>3, TypePartsNext
<1>3. CASE CreateWorker
  <2>1. worker' \in [attempt: Nat, state: WorkerStates, setup: Setups]
    BY <1>0, <1>3, CreateShape
  <2>a. copy' \in [marker: {"none", "logged", "scrolled"}, done: BOOLEAN, loaded: BOOLEAN]
    <3>1. copy \in [marker: {"none", "logged", "scrolled"}, done: BOOLEAN, loaded: BOOLEAN]
      BY <1>0
    <3>2. copy' = [copy EXCEPT !.marker = "none"]
      BY <1>3 DEF CreateWorker
    <3> QED BY <3>1, <3>2
  <2>b. stream' \in [synced: BOOLEAN, backlog: {"low", "high"}]
    BY <1>3 DEF CreateWorker, NoStream
  <2>2. WorkTypeOK'
    BY <2>1, <2>a, <2>b
  <2>3. JobsTypeOK'
    BY <1>0, <1>3, <2>1, CreateShape
  <2>4. ApiTypeOK' /\ pass' \in Passes /\ BoundsTypeOK'
    BY <1>0, <1>3, CreateShape
  <2> QED BY <2>2, <2>3, <2>4 DEF TypeOK
<1>4. CASE UpdateStatus
  <2>1. ApiTypeOK' /\ pass' \in Passes
    BY <1>0, <1>4, UpdateShape, IdleType
  <2>2. WorkTypeOK'
    BY <1>0, <1>4, UpdateShape
  <2>3. JobsTypeOK'
    BY <1>0, <1>4, UpdateShape
  <2>4. BoundsTypeOK'
    BY <1>0, <1>4, UpdateShape
  <2> QED BY ONLY <2>1, <2>2, <2>3, <2>4, TypePartsNext
<1>5. CASE Abort
  BY <1>0, <1>5, IdleType DEF TypeOK, Abort, apiVars, dataVars, finishJobs
<1>6. CASE CacheSync
  BY <1>0, <1>6 DEF TypeOK, CacheSync, dataVars, finishJobs, bounds
<1>7. CASE EditSpec
  <2>1. ApiTypeOK' /\ pass' \in Passes
    BY <1>0, <1>7, EditShape
  <2>2. WorkTypeOK' /\ JobsTypeOK' /\ BoundsTypeOK'
    BY <1>0, <1>7, EditShape
  <2> QED BY <2>1, <2>2 DEF TypeOK
<1>8. CASE Cluster
  <2>1. CASE SetsUp
    BY <1>0, <2>1, SetUpShape DEF TypeOK, apiVars, bounds
  <2>2. CASE WorkerExits
    BY <1>0, <2>2, ExitShape DEF TypeOK, apiVars, bounds
  <2>3. CASE ~SetsUp /\ ~WorkerExits
    BY <1>0, <1>8, <2>3, ClusterShape DEF TypeOK
  <2> QED BY <2>1, <2>2, <2>3
<1>9. CASE UNCHANGED vars
  BY <1>0, <1>9 DEF TypeOK, vars, apiVars, dataVars, finishJobs, bounds
<1> QED BY <1>1, <1>2, <1>3, <1>4, <1>5, <1>6, <1>7, <1>8, <1>9 DEF Next, PassStep

\* Every variable keeps its type (TypeOK), for every budget and switch.
THEOREM CutoverTypeCorrect == Spec => []TypeOK
BY TypeInit, NextType, PTL DEF Spec

-----------------------------------------------------------------------------
(* Where the conditions come from. *)

\* Every copy of the condition list: the server's, the informer's and the pass's two.
Copies == {mig.cond, cache.cond, pass.m.cond, pass.base.cond}

\* A step brings no condition list into the world but the one a pass has just made of
\* the Migration it read.
LEMMA ConditionsFlow ==
  ASSUME TypeOK, [Next]_vars
  PROVE  \A c \in Copies' : c \in Copies \/ c = NewMigration.cond \/ (Reconcile /\ c = pass'.m.cond)
<1> USE DEF Copies
<1>1. CASE Reconcile
  <2>1. pass'.base = cache
    BY <1>1, ReconcileCases, SuspendShape, FinishShape, StartShape, FailedShape, ObserveShape DEF Begun
  <2> QED BY <1>1, <2>1, ReconcileCases DEF apiVars
<1>2. CASE SetEndposCurrent
  BY <1>2, EndposShape
<1>3. CASE CreateWorker
  BY <1>3, CreateShape
<1>4. CASE UpdateStatus
  BY <1>4, UpdateShape, IdleType
<1>5. CASE Abort
  BY <1>5, IdleType DEF Abort, apiVars
<1>6. CASE CacheSync
  BY <1>6 DEF CacheSync
<1>7. CASE EditSpec
  BY <1>7, EditShape
<1>8. CASE Cluster
  BY <1>8, ClusterQuiet
<1>9. CASE UNCHANGED vars
  BY <1>9 DEF vars, apiVars
<1> QED BY <1>1, <1>2, <1>3, <1>4, <1>5, <1>6, <1>7, <1>8, <1>9 DEF Next, PassStep

\* A copy that says cutover, or one of any word, was there before or is what a pass made.
LEMMA InitialCopies == ASSUME Init PROVE \A c \in Copies : c = NewMigration.cond
BY IdleType DEF Init, Copies

-----------------------------------------------------------------------------
(* No worker after a handover.  The handover Job is what tells a pass that only the  *)
(* finish path remains, so the argument is about it: while it exists no worker runs  *)
(* and no pass is about to create one, and a suspend removes it only unfinished,     *)
(* never once it is what a cutover was reported over.                                *)

HandoverInv ==
  /\ reown # "none" => ~Live /\ pass.step # "create"
  /\ \A c \in Copies : c.cutover = "true" => reown = "ok"

LEMMA HandoverStep ==
  ASSUME Handover, TypeOK, HandoverInv, [Next]_vars
  PROVE  HandoverInv'
<1> DEFINE Blocks == reown # "none" => ~Live /\ pass.step # "create"
           Reported == \A c \in Copies : c.cutover = "true" => reown = "ok"
<1> SUFFICES Blocks' /\ Reported'
  BY DEF HandoverInv
<1>0. Blocks /\ Reported
  BY DEF HandoverInv
<1>a. ASSUME ~Reconcile, reown = "ok" => reown' = "ok" PROVE Reported'
  BY <1>0, <1>a, ConditionsFlow, NewMigrationType
<1>1. CASE Reconcile
  <2>0. pass.step = "idle" /\ cache.cond \in Copies
    BY <1>1, ReconcileCases DEF Copies
  <2>a. ASSUME reown = "ok" => reown' = "ok",
               pass'.m.cond.cutover = "true" => cache.cond.cutover = "true" \/ reown = "ok"
        PROVE  Reported'
    BY <1>0, <2>0, <2>a, ConditionsFlow, NewMigrationType
  <2>1. CASE SuspendPass
    <3>1. reown = "ok" => reown' = "ok"
      BY <2>1, SuspendShape DEF Unfinished
    <3>2. Reported'
      BY <2>1, <3>1, <2>a, SuspendShape
    <3>3. Blocks'
      BY <1>0, <2>1, SuspendShape DEF Begun, TypeOK, Exists, Deleted, Live, Unfinished
    <3> QED BY <3>2, <3>3
  <2>2. CASE FinishFollow /\ (OnlyFinishRemains \/ worker.state = "ok")
    <3>1. ~Live
      BY <1>0, <2>2 DEF OnlyFinishRemains, Live, Unfinished
    <3>2. Reported'
      BY <2>2, <2>a, FinishShape
    <3>3. Blocks'
      BY <2>2, <3>1, FinishShape DEF Begun, Live
    <3> QED BY <3>2, <3>3
  <2>3. CASE StartAttempt /\ ~OnlyFinishRemains
    <3>1. reown = "none" /\ reown' = "none"
      BY <2>3, StartShape DEF OnlyFinishRemains
    <3>2. Reported'
      BY <2>3, <3>1, <2>a, StartShape
    <3> QED BY <3>1, <3>2
  <2>4. CASE HandleFailedJob
    <3>1. Reported'
      BY <2>4, <2>a, FailedShape
    <3>2. Blocks'
      BY <1>0, <2>4, FailedShape DEF Begun, Live
    <3> QED BY <3>1, <3>2
  <2>5. CASE ObserveRunningJob
    <3>1. Reported'
      BY <2>5, <2>a, ObserveShape
    <3>2. Blocks'
      BY <1>0, <2>5, ObserveShape DEF Live
    <3> QED BY <3>1, <3>2
  <2> QED BY <1>1, <2>1, <2>2, <2>3, <2>4, <2>5, ReconcileCases
<1>2. CASE SetEndposCurrent
  BY <1>0, <1>2, <1>a, EndposShape, ReconcileCases DEF Live
<1>3. CASE CreateWorker
  BY <1>0, <1>3, <1>a, CreateShape, ReconcileCases
<1>4. CASE UpdateStatus
  BY <1>0, <1>4, <1>a, UpdateShape, IdleType, ReconcileCases DEF Live
<1>5. CASE Abort
  BY <1>0, <1>5, <1>a, IdleType, ReconcileCases DEF Abort, finishJobs, Live
<1>6. CASE ~Reconcile /\ CacheSync
  BY <1>0, <1>6, <1>a DEF CacheSync, finishJobs, Live
<1>7. CASE ~Reconcile /\ EditSpec
  BY <1>0, <1>7, <1>a, EditShape DEF Live
<1>8. CASE ~Reconcile /\ Cluster
  <2>1. reown = "ok" => reown' = "ok"
    BY <1>8, ClusterQuiet
  <2>2. Blocks'
    BY <1>0, <1>8, ClusterQuiet DEF Live, Unfinished, Failures
  <2> QED BY <1>8, <1>a, <2>1, <2>2
<1>9. CASE ~Reconcile /\ UNCHANGED vars
  BY <1>0, <1>9, <1>a DEF vars, finishJobs, Live
<1> QED BY <1>1, <1>2, <1>3, <1>4, <1>5, <1>6, <1>7, <1>8, <1>9 DEF Next, PassStep

\* With clone.ownerAfterRestore set, a Migration that says CutoverCompleted True has no
\* pgcopydb running (NoWorkerAfterCutover), however old the copy a pass reads, wherever a
\* pass is cut and however often spec.suspend changes: nextAttempt goes back to the finish
\* path, never to a second writer (migration_controller.go:843).
THEOREM HandoverEndsWriting == ASSUME Handover PROVE Spec => []NoWorkerAfterCutover
<1>1. Init => HandoverInv
  BY InitialCopies, NewMigrationType DEF Init, HandoverInv
<1>2. TypeOK /\ HandoverInv /\ [Next]_vars => HandoverInv'
  BY HandoverStep
<1>3. HandoverInv => NoWorkerAfterCutover
  BY DEF HandoverInv, NoWorkerAfterCutover, Copies
<1> QED BY CutoverTypeCorrect, <1>1, <1>2, <1>3, PTL DEF Spec

-----------------------------------------------------------------------------
(* What a cutover is reported over, where spec.suspend stays unset and no finished    *)
(* Job is collected.  A proof is worth what it proves only while no worker is started *)
(* after it, and what decides that is whether a pass can take a live worker for one   *)
(* that is gone.  It cannot: attempts are recorded one behind the newest worker at    *)
(* most, the Job's name is dropped only over a failed one, and past the first attempt *)
(* a worker is created from a current Migration.  Nor does a start-over reach a copy  *)
(* that finished: a worker is refused only over one that did not, and the latch that  *)
(* says so is gone once the attempt begun over it is recorded.                        *)

NoSuspend == ~mig.suspend /\ ~cache.suspend
InformerInv == fresh => cache = mig

AttemptInv ==
  /\ worker.state \notin {"gone", "ending"} /\ (worker.attempt = 0 <=> worker.state = "none")
  /\ mig.attempts <= worker.attempt
  /\ cache.attempts <= mig.attempts /\ pass.base.attempts <= mig.attempts
  /\ mig.job <= mig.attempts /\ cache.job <= cache.attempts
  /\ pass.base.job <= pass.base.attempts
  /\ mig.attempts = worker.attempt /\ mig.job # worker.attempt =>
       worker.state \in {"none"} \cup Failures

\* What the pass will write: the attempt it created or found, or the end of a failed Job.
Recorded == pass.m.attempts # pass.base.attempts
WrittenInv ==
  /\ Recorded => /\ pass.m.job = pass.m.attempts /\ pass.m.attempts = pass.base.attempts + 1
                 /\ pass.step \in {"create", "write"}
  /\ Recorded /\ pass.step = "write" => pass.m.attempts = worker.attempt
  /\ pass.step = "create" => /\ Recorded /\ pass.m.attempts = worker.attempt + 1
                             /\ worker.state \in {"none"} \cup Failures
  /\ pass.m.job # pass.base.job => Recorded \/ (pass.m.job = 0 /\ worker.state \in Failures)

\* The latch of a start-over is about the newest worker: it was refused, and nothing has
\* begun since, or the attempt begun over it is not recorded yet.
LatchInv ==
  /\ \A m \in {mig, cache} : m.cond.clone = "lost" /\ m.attempts = worker.attempt => worker.state = "lost"
  /\ mig.cond.clone = "lost" /\ (mig.attempts < worker.attempt \/ pass.step = "create") =>
       cache.cond.clone = "lost" /\ (Recorded => pass.base.cond.clone = "lost")
  /\ Recorded => pass.m.cond.clone # "lost"
  /\ pass.step = "endpos" => pass.m.cond.clone # "lost"
  /\ pass.step = "create" /\ pass.base.cond.clone = "lost" => worker.state = "lost"
  /\ pass.step = "write" /\ ~Recorded /\ pass.m.cond.clone = "lost" =>
       worker.state = "lost" /\ mig.attempts = worker.attempt

Owned == verify = "ok" /\ (Handover => reown = "ok")
ProofInv ==
  /\ verify # "none" => worker.state = "ok"
  /\ verify = "ok" => drained
  /\ reown # "none" => verify = "ok"
  /\ cleanup # "none" => Owned

\* The copy a worker sets up over was never finished where it drops or wipes anything, and
\* behind a finished one the slot is there until the cleanup Job.
Wiping == Live /\ worker.setup \in {"cleanup", "restart"}
CopyInv ==
  /\ worker.attempt = 0 \/ worker.state = "lost" \/ Wiping => ~copy.done
  /\ worker.state = "ok" \/ copy.marker # "none" => copy.done
  /\ drained => worker.state = "ok"
  /\ Working => slot
  /\ copy.done /\ ~slot => cleanup # "none"
ReportInv ==
  \A c \in Copies : /\ c.cutover = "true" => Owned
                    /\ c.cutover = "refuted" => verify = "failed"

DrainInv ==
  /\ NoSuspend /\ InformerInv /\ AttemptInv /\ WrittenInv /\ LatchInv
  /\ ProofInv /\ CopyInv /\ ReportInv

LEMMA NumberTypes ==
  ASSUME TypeOK
  PROVE  /\ mig.attempts \in Nat /\ mig.job \in Nat /\ cache.attempts \in Nat /\ cache.job \in Nat
         /\ pass.m.attempts \in Nat /\ pass.m.job \in Nat
         /\ pass.base.attempts \in Nat /\ pass.base.job \in Nat
         /\ worker.attempt \in Nat /\ worker.state \in WorkerStates
BY DEF TypeOK, Migrations, Passes

\* The informer holds the newest version exactly when it says so.
LEMMA InformerStep == ASSUME TypeOK, InformerInv, [Next]_vars PROVE InformerInv'
<1> USE DEF InformerInv
<1>1. CASE Reconcile
  BY <1>1, ReconcileCases DEF apiVars
<1>2. CASE SetEndposCurrent
  BY <1>2, EndposShape
<1>3. CASE CreateWorker
  BY <1>3, CreateShape
<1>4. CASE UpdateStatus
  BY <1>4, UpdateShape
<1>5. CASE Abort
  BY <1>5 DEF Abort, apiVars
<1>6. CASE CacheSync
  BY <1>6 DEF CacheSync
<1>7. CASE EditSpec
  BY <1>7, EditShape
<1>8. CASE Cluster
  BY <1>8, ClusterQuiet
<1>9. CASE UNCHANGED vars
  BY <1>9 DEF vars, apiVars
<1> QED BY <1>1, <1>2, <1>3, <1>4, <1>5, <1>6, <1>7, <1>8, <1>9 DEF Next, PassStep

\* A pass that no suspend cuts short leaves the worker as it is, and creates one only
\* over a worker that failed, or where there was none.
LEMMA PassShape ==
  ASSUME TypeOK, NoSuspend, InformerInv, AttemptInv, Reconcile
  PROVE  /\ worker' = worker /\ pass'.base = cache /\ WrittenInv'
<1> USE DEF WrittenInv, Recorded
<1>0. ~cache.suspend
  BY DEF NoSuspend
<1>1. CASE FinishFollow
  BY <1>1, FinishShape DEF Begun
<1>2. CASE StartAttempt /\ ~Exists(cache.job)
  <2> DEFINE Recording ==
        /\ pass'.step = "write" /\ Exists(cache.attempts + 1)
        /\ pass'.m.attempts = cache.attempts + 1 /\ pass'.m.job = cache.attempts + 1
      Refusing ==
        /\ pass'.step = "write" /\ pass'.m.attempts = cache.attempts /\ pass'.m.job = cache.job
      Creating ==
        /\ pass'.step = "create" /\ ~Exists(cache.attempts + 1) /\ (cache.attempts = 0 \/ fresh)
        /\ pass'.m.attempts = cache.attempts + 1 /\ pass'.m.job = cache.attempts + 1
  <2>1. /\ pass'.base = cache /\ worker' = worker /\ cache.attempts + 1 >= worker.attempt
        /\ Recording \/ Refusing \/ Creating
    BY <1>2, StartShape
  <2>2. CASE Recording
    BY <2>1, <2>2, NumberTypes DEF Exists
  <2>3. CASE Refusing
    BY <2>1, <2>3
  <2>4. CASE Creating
    <3>1. cache.attempts <= worker.attempt /\ worker.attempt # cache.attempts + 1
      <4>1. worker.attempt = cache.attempts + 1 => worker.state \notin {"none", "gone"}
        BY NumberTypes DEF AttemptInv
      <4> QED BY <2>4, <4>1, NumberTypes DEF AttemptInv, Exists
    <3>2. cache.attempts = worker.attempt /\ mig.attempts = worker.attempt
      BY <2>1, <3>1, NumberTypes DEF AttemptInv
    <3>3. worker.state \in {"none"} \cup Failures
      <4>1. CASE cache.attempts = 0
        BY <3>2, <4>1 DEF AttemptInv
      <4>2. CASE fresh /\ cache.job = worker.attempt
        BY <1>2, <4>2, NumberTypes DEF AttemptInv, Exists
      <4>3. CASE fresh /\ cache.job # worker.attempt
        BY <3>2, <4>3 DEF AttemptInv, InformerInv
      <4> QED BY <2>4, <4>1, <4>2, <4>3
    <3> QED BY <2>1, <2>4, <3>2, <3>3, NumberTypes
  <2> QED BY <2>1, <2>2, <2>3, <2>4
<1>3. CASE HandleFailedJob
  BY <1>3, FailedShape DEF Begun
<1>4. CASE ObserveRunningJob
  BY <1>4, ObserveShape
<1> QED BY <1>0, <1>1, <1>2, <1>3, <1>4, ReconcileCases DEF SuspendPass

\* Attempts are recorded in the order in which workers are created.
LEMMA AttemptStep ==
  ASSUME ~JobsVanish, TypeOK, NoSuspend, InformerInv, AttemptInv, WrittenInv, [Next]_vars
  PROVE  AttemptInv' /\ WrittenInv'
<1> USE NumberTypes, IdleType, NewMigrationType
<1>1. CASE Reconcile
  <2>1. worker' = worker /\ pass'.base = cache /\ WrittenInv' /\ mig' = mig /\ cache' = cache
    BY <1>1, PassShape, ReconcileCases DEF apiVars
  <2> QED BY <2>1 DEF AttemptInv
<1>2. CASE SetEndposCurrent
  BY <1>2, EndposShape DEF AttemptInv, WrittenInv, Recorded
<1>3. CASE CreateWorker
  <2>1. /\ pass.step = "create" /\ pass'.step = "write" /\ pass'.m = pass.m /\ pass'.base = pass.base
        /\ worker'.attempt = pass.m.attempts /\ worker'.state = "running"
        /\ mig' = mig /\ cache' = cache
    BY <1>3, CreateShape
  <2>2. Recorded /\ pass.m.attempts = worker.attempt + 1
    BY <2>1 DEF WrittenInv
  <2>3. AttemptInv'
    BY <2>1, <2>2 DEF AttemptInv, Failures
  <2>4. WrittenInv'
    BY <2>1, <2>2 DEF WrittenInv, Recorded
  <2> QED BY <2>3, <2>4
<1>4. CASE UpdateStatus
  <2>1. /\ pass.step = "write" /\ worker' = worker /\ cache' = cache
        /\ mig'.attempts = IF pass.m.attempts = pass.base.attempts THEN mig.attempts ELSE pass.m.attempts
        /\ mig'.job = IF pass.m.job = pass.base.job THEN mig.job ELSE pass.m.job
        /\ pass' = Idle
    BY <1>4, UpdateShape
  <2>2. CASE Recorded
    <3>1. /\ pass.m.attempts = worker.attempt /\ pass.m.job = worker.attempt
          /\ pass.m.job # pass.base.job
      BY <2>1, <2>2 DEF WrittenInv, AttemptInv
    <3>2. mig'.attempts = worker.attempt /\ mig'.job = worker.attempt
      BY <2>1, <2>2, <3>1 DEF Recorded
    <3> QED BY <2>1, <3>2 DEF AttemptInv, WrittenInv, Recorded
  <2>3. CASE ~Recorded
    <3>1. /\ mig'.attempts = mig.attempts
          /\ mig'.job = mig.job \/ (mig'.job = 0 /\ worker.state \in Failures)
      BY <2>1, <2>3 DEF WrittenInv, Recorded
    <3> QED BY <2>1, <3>1 DEF AttemptInv, WrittenInv, Recorded
  <2> QED BY <2>2, <2>3
<1>5. CASE Abort
  <2>1. pass' = Idle /\ worker' = worker /\ mig' = mig /\ cache' = cache
    BY <1>5 DEF Abort, apiVars
  <2> QED BY <2>1 DEF AttemptInv, WrittenInv, Recorded
<1>6. CASE CacheSync
  <2>1. cache' = mig /\ mig' = mig /\ pass' = pass /\ worker' = worker
    BY <1>6 DEF CacheSync
  <2> QED BY <2>1 DEF AttemptInv, WrittenInv, Recorded
<1>7. CASE EditSpec
  <2>1. /\ cache' = cache /\ pass' = pass /\ worker' = worker
        /\ mig'.attempts = mig.attempts /\ mig'.job = mig.job
    BY <1>7, EditShape
  <2> QED BY <2>1 DEF AttemptInv, WrittenInv, Recorded
<1>8. CASE Cluster
  <2>1. /\ cache' = cache /\ pass' = pass /\ mig' = mig /\ worker'.attempt = worker.attempt
        /\ \/ worker'.state = worker.state
           \/ worker.state = "running" /\ worker'.state \in {"ok"} \cup Failures
    BY <1>8, ClusterQuiet DEF AttemptInv
  <2> QED BY <2>1 DEF AttemptInv, WrittenInv, Recorded, Failures
<1>9. CASE UNCHANGED vars
  BY <1>9 DEF vars, apiVars, AttemptInv, WrittenInv, Recorded
<1> QED BY <1>1, <1>2, <1>3, <1>4, <1>5, <1>6, <1>7, <1>8, <1>9 DEF Next, PassStep

\* The Jobs of the finish path, one over the other: a handover over a proven drain, the
\* slot's cleanup over both, and none of them beside a worker that could undo it.
LEMMA ProofStep ==
  ASSUME ~JobsVanish, TypeOK, NoSuspend, InformerInv, AttemptInv, WrittenInv, ProofInv, [Next]_vars
  PROVE  ProofInv'
<1> USE NumberTypes DEF ProofInv, Owned
<1>1. CASE Reconcile
  <2>0. /\ worker' = worker /\ UNCHANGED <<drained, slot>> /\ ~cache.suspend
    BY <1>1, PassShape, ReconcileCases DEF dataVars, NoSuspend
  <2>1. CASE FinishFollow /\ (OnlyFinishRemains \/ worker.state = "ok")
    <3>1. worker.state = "ok"
      BY <2>1 DEF OnlyFinishRemains
    <3>2. /\ verify' = IF verify = "none" THEN "running" ELSE verify
          /\ reown' # reown => verify = "ok" /\ reown = "none" /\ reown' = "running"
          /\ cleanup' # cleanup =>
               verify = "ok" /\ (Handover => reown = "ok") /\ cleanup = "none" /\ cleanup' = "running"
      BY <2>1, FinishShape DEF Ensured
    <3>3. verify # "none" => verify' = verify
      BY <3>2
    <3>4. reown' # "none" => verify' = "ok"
      BY <3>2, <3>3
    <3>5. cleanup' # "none" => Owned'
      BY <3>2, <3>3
    <3> QED BY <2>0, <3>1, <3>2, <3>3, <3>4, <3>5
  <2>2. CASE StartAttempt
    BY <2>0, <2>2, StartShape
  <2>3. CASE HandleFailedJob
    BY <2>0, <2>3, FailedShape
  <2>4. CASE ObserveRunningJob
    BY <2>0, <2>4, ObserveShape
  <2> QED BY <1>1, <2>0, <2>1, <2>2, <2>3, <2>4, ReconcileCases DEF SuspendPass
<1>2. CASE SetEndposCurrent
  <2>1. drained' # drained => verify = "none"
    BY <1>2, EndposShape DEF Live, Unfinished
  <2> QED BY <1>2, <2>1, EndposShape
<1>3. CASE CreateWorker
  <2>1. worker.state \in {"none"} \cup Failures /\ UNCHANGED <<drained, verify, reown, cleanup>>
    BY <1>3, CreateShape DEF WrittenInv
  <2> QED BY <2>1 DEF Failures
<1>4. CASE UpdateStatus
  BY <1>4, UpdateShape
<1>5. CASE Abort
  BY <1>5 DEF Abort, dataVars, finishJobs
<1>6. CASE CacheSync
  BY <1>6 DEF CacheSync, dataVars, finishJobs
<1>7. CASE EditSpec
  BY <1>7, EditShape
<1>8. CASE Cluster
  <2>1. CASE SetsUp \/ WorkerExits
    <3>1. worker.state = "running" /\ UNCHANGED <<verify, reown, cleanup>>
      BY <2>1, SetUpShape, ExitShape DEF Live, Unfinished, finishJobs, AttemptInv
    <3> QED BY <3>1
  <2>2. CASE ~SetsUp /\ ~WorkerExits
    BY <1>8, <2>2, ClusterShape
  <2> QED BY <2>1, <2>2
<1>9. CASE UNCHANGED vars
  BY <1>9 DEF vars, dataVars, finishJobs
<1> QED BY <1>1, <1>2, <1>3, <1>4, <1>5, <1>6, <1>7, <1>8, <1>9 DEF Next, PassStep

\* A pass begins from a copy whose latch is about the worker it sees.
LEMMA LatchPass ==
  ASSUME TypeOK, NoSuspend, InformerInv, AttemptInv, LatchInv, Reconcile
  PROVE  LatchInv'
<1> USE NumberTypes DEF Recorded
<1>1. /\ worker' = worker /\ mig' = mig /\ cache' = cache /\ pass'.base = cache /\ WrittenInv'
      /\ ~cache.suspend
  BY PassShape, ReconcileCases DEF apiVars, NoSuspend
<1>2. /\ \A m \in {mig, cache} : m.cond.clone = "lost" /\ m.attempts = worker.attempt => worker.state = "lost"
      /\ mig.cond.clone = "lost" /\ mig.attempts < worker.attempt => cache.cond.clone = "lost"
  BY DEF LatchInv
<1>3. ASSUME pass'.step = "write", pass'.m.attempts = cache.attempts,
             pass'.m.cond.clone = "lost" => worker.state = "lost" /\ mig.attempts = worker.attempt
      PROVE  LatchInv'
  BY <1>1, <1>2, <1>3 DEF LatchInv
<1>4. Exists(cache.job) => cache.attempts = worker.attempt /\ mig.attempts = worker.attempt
  BY DEF AttemptInv, Exists
<1>5. CASE FinishFollow
  BY <1>3, <1>5, FinishShape DEF Begun
<1>6. CASE StartAttempt
  <2>1. CASE pass'.m.attempts = cache.attempts
    <3>1. pass'.step = "write" /\ pass'.m.cond.clone = cache.cond.clone
          /\ cache.attempts + 1 >= worker.attempt
      BY <1>6, <2>1, StartShape
    <3>2. CASE cache.cond.clone # "lost"
      BY <1>3, <2>1, <3>1, <3>2
    <3>3. CASE cache.attempts = worker.attempt
      BY <1>2, <1>3, <2>1, <3>1, <3>3 DEF AttemptInv
    <3>4. CASE cache.cond.clone = "lost" /\ cache.attempts # worker.attempt
      <4>1. worker.attempt = cache.attempts + 1 /\ worker.attempt > 0
        BY <3>1, <3>4 DEF AttemptInv
      <4>2. Exists(cache.attempts + 1)
        BY <4>1 DEF AttemptInv, Exists
      <4>3. ~Exists(cache.attempts + 1)
        BY <1>6, <2>1, StartShape
      <4> QED BY <4>2, <4>3
    <3> QED BY <3>2, <3>3, <3>4
  <2>2. CASE pass'.m.attempts # cache.attempts
    <3>1. pass'.m.cond.clone # "lost" /\ pass'.step \in {"create", "write"}
      BY <1>6, <2>2, StartShape
    <3>2. CASE pass'.step = "write"
      BY <1>1, <1>2, <2>2, <3>1, <3>2 DEF LatchInv
    <3>3. CASE pass'.step = "create"
      <4>1. cache.attempts = worker.attempt /\ (cache.attempts = 0 \/ fresh)
        <5>1. pass'.m.attempts = cache.attempts + 1 /\ (cache.attempts = 0 \/ fresh)
          BY <1>6, <2>2, <3>3, StartShape
        <5>2. pass'.m.attempts = worker.attempt + 1
          BY <1>1, <3>3 DEF WrittenInv
        <5> QED BY <5>1, <5>2
      <4>2. mig.cond.clone = "lost" => cache.cond.clone = "lost"
        <5>1. CASE fresh
          BY <5>1 DEF InformerInv
        <5>2. CASE cache.attempts = 0
          <6>1. mig.attempts = worker.attempt /\ worker.state = "none"
            BY <4>1, <5>2 DEF AttemptInv
          <6> QED BY <1>2, <6>1
        <5> QED BY <4>1, <5>1, <5>2
      <4> QED BY <1>1, <1>2, <3>1, <3>3, <4>1, <4>2 DEF LatchInv
    <3> QED BY <3>1, <3>2, <3>3
  <2> QED BY <2>1, <2>2
<1>7. CASE HandleFailedJob
  BY <1>2, <1>3, <1>4, <1>7, FailedShape DEF Begun
<1>8. CASE ObserveRunningJob
  <2>1. /\ pass'.step \in {"endpos", "write"} /\ pass'.m.attempts = cache.attempts
        /\ pass'.m.cond.clone = cache.cond.clone \/ pass'.m.cond.clone \in {"refused", "done"}
        /\ pass'.step = "endpos" => pass'.m.cond.clone = "done"
        /\ Exists(cache.job)
    BY <1>8, ObserveShape
  <2>2. pass'.m.cond.clone = "lost" => worker.state = "lost" /\ mig.attempts = worker.attempt
    BY <1>2, <1>4, <2>1
  <2> QED BY <1>1, <1>2, <2>1, <2>2 DEF LatchInv
<1> QED BY <1>1, <1>5, <1>6, <1>7, <1>8, ReconcileCases DEF SuspendPass

LEMMA LatchStep ==
  ASSUME ~JobsVanish, TypeOK, NoSuspend, InformerInv, AttemptInv, WrittenInv, LatchInv, [Next]_vars
  PROVE  LatchInv'
<1> USE NumberTypes, IdleType, NewMigrationType DEF Recorded
<1>1. CASE Reconcile
  BY <1>1, LatchPass
<1>2. CASE SetEndposCurrent
  BY <1>2, EndposShape DEF LatchInv
<1>3. CASE CreateWorker
  <2>1. /\ pass.step = "create" /\ pass'.step = "write" /\ pass'.m = pass.m /\ pass'.base = pass.base
        /\ worker'.attempt = pass.m.attempts /\ mig' = mig /\ cache' = cache
    BY <1>3, CreateShape
  <2>2. Recorded /\ pass.m.attempts = worker.attempt + 1
    BY <2>1 DEF WrittenInv
  <2>3. mig.attempts < worker'.attempt /\ cache.attempts < worker'.attempt
    BY <2>1, <2>2 DEF AttemptInv
  <2> QED BY <2>1, <2>2, <2>3 DEF LatchInv
<1>4. CASE UpdateStatus
  <2>1. /\ pass.step = "write" /\ pass' = Idle /\ worker' = worker /\ cache' = cache
        /\ mig'.attempts = IF pass.m.attempts = pass.base.attempts THEN mig.attempts ELSE pass.m.attempts
        /\ mig'.cond = IF pass.m.cond = pass.base.cond THEN mig.cond ELSE pass.m.cond
    BY <1>4, UpdateShape
  <2>2. CASE Recorded
    <3>1. mig'.attempts = worker.attempt /\ pass.m.cond.clone # "lost"
      BY <2>1, <2>2 DEF WrittenInv, LatchInv
    <3>2. mig'.cond.clone = "lost" => worker.state = "lost"
      <4> SUFFICES ASSUME mig'.cond.clone = "lost" PROVE worker.state = "lost"
        OBVIOUS
      <4>1. mig.cond.clone = "lost" /\ pass.base.cond.clone # "lost"
        BY <2>1, <3>1
      <4>2. mig.attempts = worker.attempt
        BY <2>2, <4>1 DEF LatchInv, AttemptInv
      <4> QED BY <4>1, <4>2 DEF LatchInv
    <3> QED BY <2>1, <3>1, <3>2 DEF LatchInv
  <2>3. CASE ~Recorded /\ mig'.cond = mig.cond
    BY <2>1, <2>3 DEF LatchInv
  <2>4. CASE ~Recorded /\ mig'.cond = pass.m.cond
    BY <2>1, <2>4 DEF LatchInv
  <2> QED BY <2>1, <2>2, <2>3, <2>4
<1>5. CASE Abort
  <2>1. pass' = Idle /\ worker' = worker /\ mig' = mig /\ cache' = cache
    BY <1>5 DEF Abort, apiVars
  <2> QED BY <2>1 DEF LatchInv
<1>6. CASE CacheSync
  <2>1. cache' = mig /\ mig' = mig /\ pass' = pass /\ worker' = worker
    BY <1>6 DEF CacheSync
  <2> QED BY <2>1 DEF LatchInv
<1>7. CASE EditSpec
  <2>1. /\ cache' = cache /\ pass' = pass /\ worker' = worker
        /\ mig'.attempts = mig.attempts /\ mig'.cond = mig.cond
    BY <1>7, EditShape
  <2> QED BY <2>1 DEF LatchInv
<1>8. CASE Cluster
  <2>1. /\ cache' = cache /\ pass' = pass /\ mig' = mig /\ worker'.attempt = worker.attempt
        /\ worker.state = "lost" => worker'.state = "lost"
    BY <1>8, ClusterQuiet
  <2> QED BY <2>1 DEF LatchInv
<1>9. CASE UNCHANGED vars
  BY <1>9 DEF vars, apiVars, LatchInv
<1> QED BY <1>1, <1>2, <1>3, <1>4, <1>5, <1>6, <1>7, <1>8, <1>9 DEF Next, PassStep

\* A finished copy is wiped by no worker, and keeps its slot until the cleanup Job.
LEMMA CopyStep ==
  ASSUME ~JobsVanish, TypeOK, NoSuspend, InformerInv, AttemptInv, WrittenInv, LatchInv, ProofInv, CopyInv,
         [Next]_vars
  PROVE  CopyInv'
<1> USE NumberTypes DEF CopyInv
<1>0. ProofInv' /\ AttemptInv'
  BY ProofStep, AttemptStep
<1>a. ASSUME worker' = worker, copy' = copy, drained' = drained, slot' = slot,
             cleanup = "none" \/ cleanup' # "none"
      PROVE  CopyInv'
  BY <1>a DEF Wiping, Working, Live
<1>1. CASE Reconcile
  <2>0. worker' = worker /\ UNCHANGED <<copy, drained, slot>> /\ ~cache.suspend
    BY <1>1, PassShape, ReconcileCases DEF dataVars, NoSuspend
  <2>1. cleanup' = cleanup \/ cleanup = "none"
    BY <1>1, <2>0, ReconcileCases, FinishShape, StartShape, FailedShape, ObserveShape DEF SuspendPass
  <2> QED BY <1>a, <2>0, <2>1
<1>2. CASE SetEndposCurrent
  <2>1. drained' => drained
    BY <1>2, EndposShape
  <2> QED BY <1>2, <2>1, EndposShape DEF Wiping, Working, Live
<1>3. CASE CreateWorker
  <2>1. /\ worker.state \in {"none"} \cup Failures /\ pass.m.attempts = worker.attempt + 1
        /\ pass.base.cond.clone = "lost" => worker.state = "lost"
    BY <1>3, CreateShape DEF WrittenInv, LatchInv
  <2>2. /\ worker'.attempt = worker.attempt + 1 /\ worker'.state = "running" /\ copy'.marker = "none"
        /\ worker'.setup \in {"cleanup", "restart", "resume"}
        /\ worker'.setup = "restart" => worker.attempt = 0
        /\ worker'.setup = "cleanup" => worker.state = "lost"
        /\ UNCHANGED <<drained, slot, cleanup>> /\ copy'.done = copy.done
    BY <1>3, <2>1, CreateShape
  <2>3. ~drained
    BY <2>1 DEF Failures
  <2> QED BY <2>2, <2>3 DEF Wiping, Working
<1>4. CASE UpdateStatus
  BY <1>4, <1>a, UpdateShape
<1>5. CASE Abort
  BY <1>5, <1>a DEF Abort, dataVars, finishJobs
<1>6. CASE CacheSync
  BY <1>6, <1>a DEF CacheSync, dataVars, finishJobs
<1>7. CASE EditSpec
  BY <1>7, <1>a, EditShape
<1>8. CASE SetsUp
  <2>1. worker.state = "running" /\ ~drained /\ cleanup = "none"
    BY <1>8, SetUpShape DEF Live, Unfinished, AttemptInv, ProofInv, Owned
  <2>2. worker.attempt > 0 /\ worker'.attempt = worker.attempt /\ copy'.marker = copy.marker
    BY <1>8, <2>1, SetUpShape DEF AttemptInv
  <2>3. /\ \/ worker'.setup = "restart" /\ worker.setup = "cleanup"
           \/ worker'.setup = "resume"
           \/ worker'.setup = "up" /\ (copy.done \/ ~slot) /\ slot' = (IF copy.done THEN slot ELSE TRUE)
        /\ worker'.state = "running" \/ (worker'.state = "lost" /\ ~copy'.done)
        /\ copy'.done => copy.done /\ copy' = copy
        /\ copy.done /\ ~copy'.done => worker.setup = "restart"
        /\ ~drained'
        /\ slot /\ ~slot' => worker.setup = "cleanup"
    <3>1. CASE worker'.setup = "restart"
      BY <1>8, <2>1, <3>1, SetUpShape
    <3>2. CASE worker'.setup = "resume" /\ worker.setup = "restart"
      BY <1>8, <2>1, <3>2, SetUpShape
    <3>3. CASE worker'.setup = "up"
      <4>1. /\ worker'.state = worker.state /\ UNCHANGED <<copy, drained>>
            /\ copy.done \/ ~slot
            /\ slot' = IF copy.done THEN slot ELSE TRUE
        BY <1>8, <3>3, SetUpShape
      <4>2. slot => slot'
        BY <4>1
      <4> QED BY <2>1, <3>3, <4>1, <4>2
    <3>4. CASE worker'.setup = "resume" /\ worker.setup = "resume"
      BY <1>8, <2>1, <3>4, SetUpShape
    <3> QED BY <1>8, <3>1, <3>2, <3>3, <3>4, SetUpShape
  <2>4. worker.setup \in {"cleanup", "restart"} => ~copy.done
    BY <1>8, SetUpShape DEF Wiping
  <2>5. copy'.done => slot'
    BY <2>1, <2>3, <2>4
  <2>6. worker'.setup = "up" => slot'
    BY <2>1, <2>3
  <2>7. copy.marker # "none" => copy'.done
    BY <2>3, <2>4
  <2> QED BY <2>2, <2>3, <2>4, <2>5, <2>6, <2>7 DEF Wiping, Working
<1>9. CASE WorkerExits
  <2>1. worker.state = "running"
    BY <1>9, ExitShape DEF Live, Unfinished, AttemptInv
  <2> QED BY <1>9, <2>1, ExitShape DEF Wiping, Working, Live, Unfinished, AttemptInv, finishJobs
<1>10. CASE Cluster /\ ~SetsUp /\ ~WorkerExits
  <2>1. /\ worker'.attempt = worker.attempt /\ worker'.setup = worker.setup
        /\ worker'.state = worker.state /\ UNCHANGED drained
        /\ copy' # copy => Working
        /\ copy.done => copy'.done
        /\ copy'.marker # "none" => copy.marker # "none" \/ copy.done
        /\ cleanup' = cleanup \/ cleanup' # "none"
        /\ slot' = slot \/ cleanup # "none"
    BY <1>10, ClusterShape
  <2>2. Live' = Live /\ Working' = Working /\ Wiping' = Wiping
    BY <2>1 DEF Live, Working, Wiping
  <2>3. Working => cleanup = "none"
    BY DEF Working, Live, Unfinished, ProofInv, Owned
  <2>4. /\ worker.attempt = 0 \/ worker.state = "lost" \/ Wiping => ~Working
    BY DEF AttemptInv, Working, Wiping, Live, Unfinished
  <2>5. copy'.done => copy.done \/ Working
    BY <2>1
  <2>6. Working => slot'
    BY <2>1, <2>3
  <2>7. copy'.done /\ ~slot' => cleanup' # "none"
    BY <2>1, <2>5, <2>6
  <2> QED BY <2>1, <2>2, <2>4, <2>5, <2>6, <2>7
<1>11. CASE UNCHANGED vars
  BY <1>11, <1>a DEF vars, dataVars, finishJobs
<1> QED BY <1>1, <1>2, <1>3, <1>4, <1>5, <1>6, <1>7, <1>8, <1>9, <1>10, <1>11 DEF Next, PassStep, Cluster

\* A verdict on the cutover stands for as long as the Jobs it was read from.
LEMMA ReportStep ==
  ASSUME ~JobsVanish, TypeOK, NoSuspend, InformerInv, AttemptInv, ProofInv, ReportInv, [Next]_vars
  PROVE  ReportInv'
<1>1. /\ verify \in {"ok", "failed"} => verify' = verify
      /\ Owned => reown' = reown \/ ~Handover
  <2>1. CASE Reconcile
    <3>1. ~cache.suspend
      BY DEF NoSuspend
    <3>2. CASE FinishFollow
      BY <3>2, FinishShape DEF Ensured, Owned
    <3> QED BY <2>1, <3>1, <3>2, ReconcileCases, StartShape, FailedShape, ObserveShape DEF SuspendPass
  <2>2. CASE Cluster
    BY <2>2, ClusterQuiet DEF Owned
  <2>3. CASE SetEndposCurrent
    BY <2>3, EndposShape
  <2>4. CASE CreateWorker
    BY <2>4, CreateShape
  <2>5. CASE UpdateStatus
    BY <2>5, UpdateShape
  <2>6. CASE EditSpec
    BY <2>6, EditShape
  <2>7. CASE Abort \/ CacheSync \/ UNCHANGED vars
    BY <2>7 DEF Abort, CacheSync, vars, finishJobs
  <2> QED BY <2>1, <2>2, <2>3, <2>4, <2>5, <2>6, <2>7 DEF Next, PassStep
<1>2. (Owned => Owned') /\ (verify = "failed" => verify' = "failed")
  BY <1>1 DEF Owned
<1>3. Reconcile => \/ pass'.m.cond.cutover = cache.cond.cutover
                   \/ pass'.m.cond.cutover = "true" /\ Owned
                   \/ pass'.m.cond.cutover = "refuted" /\ verify = "failed"
  BY ReconcileCases, SuspendShape, FinishShape, StartShape, FailedShape, ObserveShape DEF Owned
<1> QED BY <1>2, <1>3, ConditionsFlow, NewMigrationType DEF ReportInv, Copies

LEMMA DrainInit == ASSUME Init, ~Suspends PROVE DrainInv
<1>1. NoSuspend /\ InformerInv
  BY NewMigrationType DEF Init, NoSuspend, InformerInv
<1>2. AttemptInv /\ WrittenInv /\ LatchInv
  BY NewMigrationType, IdleType DEF Init, AttemptInv, WrittenInv, LatchInv, Recorded
<1>3. ProofInv /\ CopyInv /\ ReportInv
  BY InitialCopies, NewMigrationType
     DEF Init, ProofInv, CopyInv, Wiping, Working, Live, Unfinished, ReportInv
<1> QED BY <1>1, <1>2, <1>3 DEF DrainInv

LEMMA DrainStep ==
  ASSUME ~Suspends, ~JobsVanish, TypeOK, DrainInv, [Next]_vars
  PROVE  DrainInv'
<1> USE DEF DrainInv
<1>1. NoSuspend'
  <2> USE DEF NoSuspend
  <2>1. CASE UpdateStatus
    BY <2>1, UpdateShape
  <2>2. CASE EditSpec
    BY <2>2, EditShape
  <2>3. CASE Reconcile \/ SetEndposCurrent \/ CreateWorker \/ Cluster
    BY <2>3, ReconcileCases, EndposShape, CreateShape, ClusterQuiet DEF apiVars
  <2>4. CASE Abort \/ CacheSync \/ UNCHANGED vars
    BY <2>4 DEF Abort, CacheSync, vars, apiVars
  <2> QED BY <2>1, <2>2, <2>3, <2>4 DEF Next, PassStep
<1>2. InformerInv' /\ AttemptInv' /\ WrittenInv' /\ LatchInv' /\ ProofInv' /\ CopyInv' /\ ReportInv'
  BY InformerStep, AttemptStep, LatchStep, ProofStep, CopyStep, ReportStep
<1> QED BY <1>1, <1>2

LEMMA DrainCorrect == ASSUME ~Suspends, ~JobsVanish PROVE Spec => [](TypeOK /\ DrainInv)
<1>1. Init => DrainInv
  BY DrainInit
<1>2. TypeOK /\ DrainInv /\ [Next]_vars => DrainInv'
  BY DrainStep
<1> QED BY CutoverTypeCorrect, <1>1, <1>2, PTL DEF Spec

\* Where spec.suspend stays unset and no TTL collects a finished Job, CutoverCompleted True
\* is reported only over a target that holds every change and whose objects were handed
\* over (CutoverProven), whatever the age of the copy a pass reads and wherever it is cut.
THEOREM CutoverIsProven == ASSUME ~Suspends, ~JobsVanish PROVE Spec => []CutoverProven
<1>1. DrainInv => CutoverProven
  BY DEF DrainInv, ReportInv, ProofInv, Owned, CutoverProven, Copies
<1> QED BY DrainCorrect, <1>1, PTL

\* Under the same switches the slot of a finished copy is dropped only once the target is
\* drained and handed over (SlotKeptUntilProven): the cleanup Job is created over both, no
\* worker that could unprove the drain is created after it, and the worker of a start-over
\* never finds a copy that finished (handleFailedJob, buildJob), however old the copy of the
\* Migration it was decided on.
THEOREM SlotKept == ASSUME ~Suspends, ~JobsVanish PROVE Spec => []SlotKeptUntilProven
<1>1. DrainInv => SlotKeptUntilProven
  BY DEF DrainInv, CopyInv, ProofInv, Owned, SlotKeptUntilProven
<1> QED BY DrainCorrect, <1>1, PTL

\* Under the same switches a drain that was refuted is reported beside a slot that is
\* still on the source, as the message says (RefutedKeepsSlot): a verify Job that failed
\* lets no cleanup Job be created, before the report or after.
THEOREM RefutationKeepsSlot == ASSUME ~Suspends, ~JobsVanish PROVE Spec => []RefutedKeepsSlot
<1>1. DrainInv => RefutedKeepsSlot
  <2> SUFFICES ASSUME DrainInv, mig.cond.cutover = "refuted" PROVE slot
    BY DEF RefutedKeepsSlot
  <2>1. verify = "failed" /\ worker.state = "ok"
    BY DEF DrainInv, ReportInv, ProofInv, Copies
  <2> QED BY <2>1 DEF DrainInv, CopyInv, ProofInv, Owned
<1> QED BY DrainCorrect, <1>1, PTL

-----------------------------------------------------------------------------
(* A refused marker, where a pass reads a current Migration.  What a pass writes is    *)
(* then judged against what is on the server, a refusal is lifted only by counts, and  *)
(* an endpos is set only over a copy that was confirmed: so a cutover reported beside  *)
(* a refusal was verified by the compare, not by the origin.  A worker that wipes the  *)
(* target's rows takes nothing back, since nothing was said of the copy before it.     *)

NumbersInv ==
  /\ worker.attempt = 0 => worker.state = "none"
  /\ mig.job <= mig.attempts /\ pass.m.job <= pass.m.attempts
  /\ pass.step # "idle" => mig.attempts = pass.base.attempts /\ mig.job = pass.base.job
  /\ pass.m.attempts >= pass.base.attempts
  /\ pass.step = "create" => pass.m.attempts = pass.base.attempts + 1

\* A confirmed copy is taken back only by the end of the Migration.
Kept(c) == c.clone = "done" \/ (c.clone = "running" /\ c.failed)
CatchUpInv == \A c \in Copies : c.caught # "lagging" => Kept(c)
CurrentInv ==
  /\ pass.step # "idle" => mig.cond = pass.base.cond /\ ~pass.base.cond.failed
  /\ pass.step = "endpos" => pass.base.cond.caught # "lagging"
  /\ pass.base.cond.clone = "done" => Kept(pass.m.cond)
  /\ pass.step # "idle" /\ pass.base.cond.clone = "refused" /\ pass.m.cond.clone = "done" => copy.loaded

\* Before the first attempt is recorded, while a start-over is latched, before the copy is
\* finished and while a worker has yet to wipe, nothing is concluded of the copy.
Blank ==
  \/ mig.attempts = 0 \/ mig.cond.clone = "lost" \/ (pass.step # "idle" /\ pass.m.cond.clone = "lost")
  \/ ~copy.done \/ Wiping
Unconcluded ==
  /\ ~endpos /\ verify = "none" /\ reown = "none"
  /\ \A c \in Copies : c.clone \notin {"refused", "done"} /\ c.cutover # "true"
BlankInv ==
  /\ mig.cond.clone = "lost" => mig.job = 0
  /\ pass.m.cond.clone = "lost" => pass.m.job = 0
  /\ worker.state = "ok" => copy.done
  /\ worker.state = "lost" => ~copy.done
  /\ copy.marker # "none" => Working /\ copy.done
  /\ Blank => Unconcluded
ContentInv ==
  /\ endpos => Kept(mig.cond)
  /\ verify = "ok" => endpos \/ copy.loaded
  /\ \A c \in Copies : c.cutover = "true" => endpos \/ copy.loaded

RefusalInv == InformerInv /\ NumbersInv /\ BlankInv /\ CatchUpInv /\ CurrentInv /\ ContentInv

LEMMA NumbersStep ==
  ASSUME ~CacheLags, TypeOK, InformerInv, NumbersInv, [Next]_vars
  PROVE  NumbersInv'
<1> USE NumberTypes, IdleType, NewMigrationType DEF NumbersInv
<1>1. CASE Reconcile
  <2>1. cache = mig /\ mig' = mig /\ (worker' = worker \/ SuspendPass)
    BY <1>1, ReconcileCases, FinishShape, StartShape, FailedShape, ObserveShape
       DEF InformerInv, apiVars
  <2>2. CASE SuspendPass
    BY <2>1, <2>2, SuspendShape DEF Begun, TypeOK, Exists, Deleted
  <2>3. CASE FinishFollow
    BY <2>1, <2>3, FinishShape DEF Begun
  <2>4. CASE StartAttempt
    BY <2>1, <2>4, StartShape
  <2>5. CASE HandleFailedJob
    BY <2>1, <2>5, FailedShape DEF Begun
  <2>6. CASE ObserveRunningJob
    BY <2>1, <2>6, ObserveShape
  <2> QED BY <1>1, <2>2, <2>3, <2>4, <2>5, <2>6, ReconcileCases
<1>2. CASE SetEndposCurrent
  BY <1>2, EndposShape
<1>3. CASE CreateWorker
  BY <1>3, CreateShape
<1>4. CASE UpdateStatus
  BY <1>4, UpdateShape
<1>5. CASE Abort
  BY <1>5 DEF Abort, apiVars
<1>6. CASE CacheSync
  BY <1>6 DEF CacheSync
<1>7. CASE EditSpec
  BY <1>7, EditShape
<1>8. CASE Cluster
  BY <1>8, ClusterQuiet DEF Failures
<1>9. CASE UNCHANGED vars
  BY <1>9 DEF vars, apiVars
<1> QED BY <1>1, <1>2, <1>3, <1>4, <1>5, <1>6, <1>7, <1>8, <1>9 DEF Next, PassStep

\* Rows that reached the target stay until a worker wipes them, and so does an endpos.
LEMMA RowsStay ==
  ASSUME TypeOK, ~Wiping, [Next]_vars
  PROVE  (copy.loaded => copy'.loaded) /\ (endpos => endpos')
<1>1. CASE Reconcile
  BY <1>1, ReconcileCases DEF dataVars
<1>2. CASE SetEndposCurrent
  BY <1>2, EndposShape
<1>3. CASE CreateWorker
  BY <1>3, CreateShape
<1>4. CASE UpdateStatus
  BY <1>4, UpdateShape
<1>5. CASE EditSpec
  BY <1>5, EditShape
<1>6. CASE Cluster
  <2>1. CASE SetsUp
    <3>1. worker.setup # "restart"
      BY <2>1, SetUpShape DEF Wiping
    <3>2. copy' = copy /\ endpos' = endpos
      BY <2>1, <3>1, SetUpShape
    <3> QED BY <3>2
  <2>2. CASE WorkerExits
    BY <2>2, ExitShape
  <2>3. CASE ~SetsUp /\ ~WorkerExits
    BY <1>6, <2>3, ClusterShape
  <2> QED BY <2>1, <2>2, <2>3
<1>7. CASE Abort \/ CacheSync \/ UNCHANGED vars
  BY <1>7 DEF Abort, CacheSync, vars, dataVars
<1> QED BY <1>1, <1>2, <1>3, <1>4, <1>5, <1>6, <1>7 DEF Next, PassStep

\* Only a worker that wipes takes an endpos away.
LEMMA EndposStays == ASSUME TypeOK, ~SetsUp, [Next]_vars PROVE endpos => endpos'
<1>1. CASE Reconcile
  BY <1>1, ReconcileCases DEF dataVars
<1>2. CASE SetEndposCurrent
  BY <1>2, EndposShape
<1>3. CASE CreateWorker \/ UpdateStatus \/ EditSpec
  BY <1>3, CreateShape, UpdateShape, EditShape
<1>4. CASE WorkerExits
  BY <1>4, ExitShape
<1>5. CASE Cluster /\ ~WorkerExits
  BY <1>5, ClusterShape
<1>6. CASE Abort \/ CacheSync \/ UNCHANGED vars
  BY <1>6 DEF Abort, CacheSync, vars, dataVars
<1> QED BY <1>1, <1>2, <1>3, <1>4, <1>5, <1>6 DEF Next, PassStep

\* What a pass makes of the conditions it read: the latch over the copy, and a cutover
\* over a proof.
LEMMA PassConditions ==
  ASSUME TypeOK, CatchUpInv, BlankInv, Reconcile
  PROVE  /\ pass'.base = cache /\ ~cache.cond.failed
         /\ pass'.m.cond.caught # "lagging" => Kept(pass'.m.cond)
         /\ cache.cond.clone = "done" => Kept(pass'.m.cond)
         /\ cache.cond.clone = "refused" /\ pass'.m.cond.clone = "done" => copy.loaded
         /\ pass'.step = "endpos" => cache.cond.caught # "lagging"
         /\ pass'.m.cond.cutover = "true" => cache.cond.cutover = "true" \/ verify = "ok"
<1> USE DEF Kept
<1>0. /\ ~cache.cond.failed
      /\ cache.cond.caught # "lagging" => cache.cond.clone = "done"
  BY ReconcileCases DEF CatchUpInv, Copies
<1>1. CASE SuspendPass
  BY <1>0, <1>1, SuspendShape DEF Begun
<1>2. CASE FinishFollow
  BY <1>0, <1>2, FinishShape DEF Begun
<1>3. CASE StartAttempt
  BY <1>0, <1>3, StartShape
<1>4. CASE HandleFailedJob
  <2>1. worker.state = "lost" => cache.cond.clone # "done"
    BY DEF BlankInv, Blank, Unconcluded, Copies
  <2> QED BY <1>0, <1>4, <2>1, FailedShape DEF Begun
<1>5. CASE ObserveRunningJob
  BY <1>0, <1>5, ObserveShape
<1> QED BY <1>1, <1>2, <1>3, <1>4, <1>5, ReconcileCases

\* A pass concludes nothing where nothing is to be concluded.
LEMMA BlankPass ==
  ASSUME ~CacheLags, TypeOK, InformerInv, NumbersInv, BlankInv, Reconcile
  PROVE  BlankInv'
<1> USE NumberTypes
<1>1. /\ cache = mig /\ mig' = mig /\ cache' = cache /\ copy' = copy /\ endpos' = endpos
      /\ pass.step = "idle" /\ pass'.base = cache
      /\ \/ worker' = worker
         \/ /\ worker'.attempt = worker.attempt /\ worker'.setup = worker.setup
            /\ Live' = Live /\ worker'.state \in {"ending", "gone"}
  <2>1. SuspendPass => \/ worker' = worker
                       \/ /\ worker'.attempt = worker.attempt /\ worker'.setup = worker.setup
                          /\ Live' = Live /\ worker'.state \in {"ending", "gone"}
    BY SuspendShape DEF TypeOK, Deleted, Live, Unfinished
  <2> QED BY <2>1, ReconcileCases, SuspendShape, FinishShape, StartShape, FailedShape, ObserveShape
          DEF InformerInv, apiVars, dataVars, Begun
<1>2. /\ worker'.state \in {"ok", "lost"} => worker' = worker
      /\ Working' = Working /\ Wiping' = Wiping
  BY <1>1 DEF Working, Wiping, Live
<1>3. Exists(cache.job) => mig.attempts > 0 /\ mig.job > 0
  BY <1>1 DEF NumbersInv, Exists
<1>4. /\ pass'.m.cond.clone = "lost" => pass'.m.job = 0 /\ (mig.cond.clone = "lost" \/ worker.state = "lost")
  <2>1. CASE SuspendPass
    BY <1>1, <2>1, SuspendShape
  <2>2. CASE FinishFollow
    BY <2>2, FinishShape
  <2>3. CASE StartAttempt
    BY <1>1, <2>3, StartShape DEF BlankInv
  <2>4. CASE HandleFailedJob
    BY <1>1, <2>4, FailedShape
  <2>5. CASE ObserveRunningJob
    BY <1>1, <2>5, ObserveShape DEF BlankInv
  <2> QED BY <2>1, <2>2, <2>3, <2>4, <2>5, ReconcileCases
<1>5. ASSUME Blank' PROVE Unconcluded'
  <2>1. Blank
    BY <1>1, <1>2, <1>4, <1>5 DEF Blank, BlankInv
  <2>2. /\ Unconcluded /\ cache.cond.clone \notin {"refused", "done"} /\ cache.cond.cutover # "true"
    BY <2>1 DEF BlankInv, Unconcluded, Copies
  <2>3. Exists(cache.job) => (copy.marker = "none" \/ ~Live) /\ worker.state # "ok"
    BY <1>1, <1>3, <2>1 DEF Blank, BlankInv, Wiping, Working, Live, Unfinished
  <2>4. /\ verify' = "none" /\ reown' = "none"
        /\ pass'.m.cond.clone \notin {"refused", "done"} /\ pass'.m.cond.cutover # "true"
    <3>1. CASE SuspendPass
      BY <2>2, <3>1, SuspendShape DEF Unconcluded, Unfinished
    <3>2. CASE StartAttempt
      BY <2>2, <3>2, StartShape DEF Unconcluded
    <3>3. CASE HandleFailedJob
      BY <2>2, <3>3, FailedShape DEF Unconcluded
    <3>4. CASE ObserveRunningJob
      BY <2>2, <2>3, <3>4, ObserveShape DEF Unconcluded
    <3>5. ~OnlyFinishRemains
      BY <2>2 DEF Unconcluded, OnlyFinishRemains
    <3> QED BY <2>3, <3>1, <3>2, <3>3, <3>4, <3>5, ReconcileCases
  <2> QED BY <1>1, <2>2, <2>4 DEF Unconcluded, Copies
<1> QED BY <1>1, <1>2, <1>4, <1>5 DEF BlankInv

LEMMA BlankStep ==
  ASSUME ~CacheLags, TypeOK, InformerInv, NumbersInv, BlankInv, CatchUpInv, CurrentInv, [Next]_vars
  PROVE  BlankInv'
<1> USE NumberTypes, IdleType, NewMigrationType
<1>a. ASSUME UNCHANGED <<worker, copy, endpos, verify, reown>>, Blank' => Blank,
             \A c \in Copies' : c \in Copies \/ c = NewMigration.cond,
             mig'.cond.clone = "lost" => mig'.job = 0,
             pass'.m.cond.clone = "lost" => pass'.m.job = 0
      PROVE  BlankInv'
  BY <1>a DEF BlankInv, Unconcluded, Working, Live
<1>1. CASE Reconcile
  BY <1>1, BlankPass
<1>2. CASE SetEndposCurrent
  <2>1. /\ pass.step = "endpos" /\ pass.base.cond.clone = "done"
    BY <1>2, EndposShape DEF CurrentInv, CatchUpInv, Kept, Copies
  <2>2. ~Blank
    BY <2>1 DEF BlankInv, Unconcluded, Copies
  <2>3. /\ pass'.m.cond = pass.m.cond /\ pass'.m.job = pass.m.job
        /\ UNCHANGED <<mig, worker, copy, verify, reown>>
    BY <1>2, EndposShape
  <2>4. ~Blank'
    BY <2>1, <2>2, <2>3 DEF Blank, Wiping, Live
  <2> QED BY <2>3, <2>4 DEF BlankInv, Working, Live
<1>3. CASE CreateWorker
  <2>1. /\ pass.step = "create" /\ mig.attempts = pass.base.attempts /\ mig.cond = pass.base.cond
        /\ pass.m.attempts = pass.base.attempts + 1
    BY <1>3, CreateShape DEF NumbersInv, CurrentInv
  <2>2. /\ worker'.state = "running" /\ worker'.setup \in {"cleanup", "restart", "resume"}
        /\ worker'.setup = "restart" => mig.attempts = 0
        /\ worker'.setup = "cleanup" => mig.cond.clone = "lost"
        /\ copy'.marker = "none" /\ copy'.done = copy.done /\ pass'.step = "write"
        /\ pass'.m = pass.m /\ pass'.base = pass.base /\ UNCHANGED <<mig, cache, endpos, verify, reown>>
    BY <1>3, <2>1, CreateShape
  <2>3. Blank' => Blank
    BY <2>1, <2>2 DEF Blank, Wiping
  <2> QED BY <2>2, <2>3 DEF BlankInv, Unconcluded, Copies
<1>4. CASE UpdateStatus
  <2>1. /\ pass.step = "write" /\ pass' = Idle
        /\ mig'.attempts = IF pass.m.attempts = pass.base.attempts THEN mig.attempts ELSE pass.m.attempts
        /\ mig'.job = IF pass.m.job = pass.base.job THEN mig.job ELSE pass.m.job
        /\ mig'.cond = IF pass.m.cond = pass.base.cond THEN mig.cond ELSE pass.m.cond
        /\ mig.attempts = pass.base.attempts /\ mig.job = pass.base.job /\ mig.cond = pass.base.cond
        /\ UNCHANGED <<cache, worker, copy, endpos, verify, reown>>
    BY <1>4, UpdateShape DEF NumbersInv, CurrentInv
  <2>2. mig'.cond = pass.m.cond /\ mig'.attempts = pass.m.attempts /\ mig'.job = pass.m.job
    BY <2>1
  <2>3. mig'.attempts = 0 => mig.attempts = 0
    BY <2>1, <2>2 DEF NumbersInv
  <2>4. Blank' => Blank
    BY <2>1, <2>2, <2>3 DEF Blank, Wiping, Live
  <2> QED BY <1>a, <2>1, <2>2, <2>4 DEF BlankInv, Copies
<1>5. CASE Abort
  <2>1. pass' = Idle /\ UNCHANGED <<mig, cache, worker, copy, endpos, verify, reown>>
    BY <1>5 DEF Abort, apiVars, dataVars, finishJobs
  <2> QED BY <1>a, <2>1 DEF Blank, Wiping, Live, Copies, BlankInv
<1>6. CASE CacheSync
  <2>1. cache' = mig /\ UNCHANGED <<mig, pass, worker, copy, endpos, verify, reown>>
    BY <1>6 DEF CacheSync, dataVars, finishJobs
  <2> QED BY <1>a, <2>1 DEF Blank, Wiping, Live, Copies, BlankInv
<1>7. CASE EditSpec
  <2>1. /\ mig'.attempts = mig.attempts /\ mig'.job = mig.job /\ mig'.cond = mig.cond
        /\ UNCHANGED <<cache, pass, worker, copy, endpos, verify, reown>>
    BY <1>7, EditShape
  <2> QED BY <1>a, <2>1 DEF Blank, Wiping, Live, Copies, BlankInv
<1>8. CASE SetsUp
  <2>0. UNCHANGED <<mig, cache, pass, verify, reown>>
    BY <1>8, SetUpShape DEF apiVars, finishJobs
  <2>1. /\ Live /\ ~Working /\ copy.marker = "none" /\ copy'.marker = "none"
    BY <1>8, SetUpShape DEF BlankInv, Working
  <2>2. /\ worker'.state # "ok"
        /\ worker'.state = "lost" => ~copy'.done
        /\ endpos' => endpos
        /\ worker'.setup \in {"cleanup", "restart"} => Wiping
        /\ copy.done /\ ~copy'.done => Wiping
    <3>1. worker.state \in {"running", "ending"}
      BY <2>1 DEF Live, Unfinished
    <3>2. worker.setup \in {"cleanup", "restart"} => Wiping
      BY <2>1 DEF Wiping
    <3>3. CASE worker.setup = "restart"
      BY <1>8, <3>1, <3>2, <3>3, SetUpShape
    <3>4. CASE worker.setup # "restart"
      <4>1. /\ copy' = copy /\ endpos' = endpos
            /\ worker'.state = worker.state \/ (worker'.state = "lost" /\ ~copy.done)
            /\ worker'.setup \in {"cleanup", "restart"} => worker.setup = "cleanup"
        BY <1>8, <3>4, SetUpShape
      <4> QED BY <3>1, <3>2, <4>1
    <3> QED BY <3>3, <3>4
  <2>3. Blank' => Blank
    BY <2>0, <2>2 DEF Blank, Wiping
  <2> QED BY <2>0, <2>1, <2>2, <2>3 DEF BlankInv, Unconcluded, Copies
<1>9. CASE WorkerExits
  <2>0. UNCHANGED <<mig, cache, pass, endpos, verify, reown>>
    BY <1>9, ExitShape DEF apiVars, finishJobs
  <2>1. /\ ~Live' /\ copy'.marker = "none" /\ copy'.done = copy.done /\ worker'.state # "lost"
        /\ worker'.state = "ok" => copy.done
    BY <1>9, ExitShape DEF Live, Unfinished
  <2>2. Blank' => Blank
    BY <2>0, <2>1 DEF Blank, Wiping
  <2> QED BY <2>0, <2>1, <2>2 DEF BlankInv, Unconcluded, Copies
<1>10. CASE Cluster /\ ~SetsUp /\ ~WorkerExits
  <2>1. /\ UNCHANGED <<mig, cache, pass, endpos>> /\ worker'.setup = worker.setup
        /\ worker'.state = worker.state \/ (worker'.state = "gone" /\ ~Live)
        /\ copy.done => copy'.done
        /\ copy' # copy => Working
        /\ copy'.marker # "none" => copy.marker # "none" \/ (Working /\ copy.done)
        /\ verify = "none" => verify' = "none"
        /\ reown = "none" => reown' = "none"
    BY <1>10, ClusterShape DEF Live, Unfinished, Failures
  <2>2. Live' = Live /\ Working' = Working /\ Wiping' = Wiping
    BY <2>1 DEF Live, Unfinished, Working, Wiping
  <2>3. Blank' => Blank
    BY <2>1, <2>2 DEF Blank
  <2>4. worker.state = "lost" => ~copy'.done
    BY <2>1 DEF BlankInv, Working, Live, Unfinished
  <2> QED BY <2>1, <2>2, <2>3, <2>4 DEF BlankInv, Unconcluded, Copies
<1>11. CASE UNCHANGED vars
  BY <1>11, <1>a DEF vars, apiVars, dataVars, finishJobs, Blank, Wiping, Live, Copies, BlankInv
<1> QED BY <1>1, <1>2, <1>3, <1>4, <1>5, <1>6, <1>7, <1>8, <1>9, <1>10, <1>11 DEF Next, PassStep, Cluster

\* Where a worker wipes, nothing is concluded that could be taken back.
LEMMA WipedUntold == ASSUME BlankInv, Wiping PROVE Unconcluded
BY DEF BlankInv, Blank

LEMMA RefusalStep ==
  ASSUME ~CacheLags, TypeOK, RefusalInv, [Next]_vars
  PROVE  /\ RefusalInv'
         /\ mig.cond.clone = "refused" /\ mig'.cond.clone = "done" => copy.loaded
<1> USE DEF RefusalInv
<1>1. InformerInv' /\ NumbersInv' /\ BlankInv'
  BY InformerStep, NumbersStep, BlankStep
<1>2. CatchUpInv'
  BY ConditionsFlow, PassConditions, NewMigrationType DEF CatchUpInv, Kept
<1>r. \/ (copy.loaded => copy'.loaded) /\ (endpos => endpos')
      \/ Unconcluded
  BY RowsStay, WipedUntold
<1>3. /\ CurrentInv' /\ (endpos' => Kept(mig.cond)')
      /\ mig.cond.clone = "refused" /\ mig'.cond.clone = "done" => copy.loaded
  <2> USE DEF CurrentInv, ContentInv, Kept
  <2>1. CASE Reconcile
    BY <2>1, PassConditions, ReconcileCases DEF InformerInv, apiVars, dataVars
  <2>2. CASE SetEndposCurrent
    <3>1. /\ pass.step = "endpos" /\ pass'.step = "write" /\ pass'.base = pass.base
          /\ pass'.m.cond = pass.m.cond /\ mig' = mig /\ copy' = copy
      BY <2>2, EndposShape
    <3>2. mig.cond.clone = "done"
      BY <3>1 DEF CatchUpInv, Copies
    <3> QED BY <3>1, <3>2
  <2>3. CASE CreateWorker
    BY <2>3, CreateShape
  <2>4. CASE UpdateStatus
    <3>1. /\ pass.step = "write" /\ pass' = Idle /\ UNCHANGED <<endpos, copy>>
          /\ mig'.cond = mig.cond \/ mig'.cond = pass.m.cond
      BY <2>4, UpdateShape
    <3> QED BY <3>1, IdleType
  <2>5. CASE Abort
    BY <2>5, IdleType DEF Abort, apiVars, dataVars
  <2>6. CASE CacheSync
    BY <2>6 DEF CacheSync, dataVars
  <2>7. CASE EditSpec
    BY <2>7, EditShape
  <2>8. CASE Cluster
    <3>0. endpos' => endpos
      <4>1. CASE SetsUp
        BY <4>1, SetUpShape
      <4>2. CASE WorkerExits
        BY <4>2, ExitShape
      <4>3. CASE ~SetsUp /\ ~WorkerExits
        BY <2>8, <4>3, ClusterShape
      <4> QED BY <4>1, <4>2, <4>3
    <3>1. UNCHANGED <<mig, pass>> /\ (endpos' => endpos)
      BY <2>8, <3>0, ClusterQuiet
    <3>2. pass.m.cond.clone = "done" => ~Unconcluded
      BY DEF Unconcluded, Copies
    <3> QED BY <1>r, <3>1, <3>2
  <2>9. CASE UNCHANGED vars
    BY <2>9 DEF vars, apiVars, dataVars
  <2> QED BY <2>1, <2>2, <2>3, <2>4, <2>5, <2>6, <2>7, <2>8, <2>9 DEF Next, PassStep
<1>4. verify' = "ok" => endpos' \/ copy'.loaded
  <2>1. verify' = "ok" => verify = "ok" \/ (verify = "running" /\ (endpos \/ copy.loaded))
    <3>1. CASE Reconcile
      BY <3>1, ReconcileCases, SuspendShape, FinishShape, StartShape, FailedShape, ObserveShape
         DEF Ensured
    <3>2. CASE Cluster
      BY <3>2, ClusterQuiet
    <3>3. CASE SetEndposCurrent \/ CreateWorker \/ UpdateStatus \/ EditSpec
      BY <3>3, EndposShape, CreateShape, UpdateShape, EditShape
    <3>4. CASE Abort \/ CacheSync \/ UNCHANGED vars
      BY <3>4 DEF Abort, CacheSync, vars, finishJobs
    <3> QED BY <3>1, <3>2, <3>3, <3>4 DEF Next, PassStep
  <2> QED BY <1>r, <2>1 DEF ContentInv, Unconcluded
<1>5. \A c \in Copies' : c.cutover = "true" => endpos' \/ copy'.loaded
  <2>1. ASSUME NEW c \in Copies', c.cutover = "true"
        PROVE  (endpos \/ copy.loaded) /\ ~Unconcluded
    <3>1. CASE c \in Copies
      BY <2>1, <3>1 DEF ContentInv, Unconcluded
    <3>2. CASE Reconcile /\ c = pass'.m.cond
      BY <2>1, <3>2, PassConditions DEF ContentInv, Unconcluded, Copies
    <3> QED BY <2>1, <3>1, <3>2, ConditionsFlow, NewMigrationType
  <2> QED BY <1>r, <2>1
<1> QED BY <1>1, <1>2, <1>3, <1>4, <1>5 DEF ContentInv

LEMMA RefusalCorrect == ASSUME ~CacheLags PROVE Spec => [](TypeOK /\ RefusalInv)
<1>1. Init => RefusalInv
  <2> SUFFICES ASSUME Init PROVE RefusalInv
    OBVIOUS
  <2>1. \A c \in Copies : c = NewMigration.cond
    BY InitialCopies
  <2>2. InformerInv /\ NumbersInv /\ CurrentInv
    BY NewMigrationType, IdleType DEF Init, InformerInv, NumbersInv, CurrentInv
  <2>3. BlankInv /\ CatchUpInv /\ ContentInv
    BY <2>1, NewMigrationType, IdleType DEF Init, BlankInv, Unconcluded, CatchUpInv, ContentInv
  <2> QED BY <2>2, <2>3 DEF RefusalInv
<1>2. TypeOK /\ RefusalInv /\ [Next]_vars => RefusalInv'
  BY RefusalStep
<1> QED BY CutoverTypeCorrect, <1>1, <1>2, PTL DEF Spec

\* Where passes read a current Migration, a cutover reported beside a refused marker is
\* over a target with rows in every table (RefusedDecidedByContent): no endpos is set
\* while the copy is unconfirmed, so the verify Job had only the compare to go by.
THEOREM ContentDecides == ASSUME ~CacheLags PROVE Spec => []RefusedDecidedByContent
<1>1. RefusalInv => RefusedDecidedByContent
  BY DEF RefusalInv, ContentInv, Kept, RefusedDecidedByContent, Copies
<1> QED BY RefusalCorrect, <1>1, PTL

\* Where passes read a current Migration, no step turns a refusal into a confirmed copy
\* without rows in every table (RefusalLatches): not a sample that brings no counts, not
\* a retry, and not a worker's exit 0 (confirmBaseCopy, finishFollow).
THEOREM RefusalIsLatched == ASSUME ~CacheLags PROVE Spec => RefusalLatches
<1>1. TypeOK /\ RefusalInv /\ [Next]_vars =>
        [mig.cond.clone = "refused" /\ mig'.cond.clone = "done" => copy.loaded]_vars
  BY RefusalStep
<1> QED BY RefusalCorrect, <1>1, PTL DEF Spec, RefusalLatches

-----------------------------------------------------------------------------
(* A confirmed copy, where samples bring their counts: a clone is called complete on   *)
(* counts that owe nothing or on an exit 0, and after an exit 0 no worker runs again.   *)

LoadedInv ==
  \A c \in Copies : /\ c.clone \in {"refused", "done"} => copy.done
                    /\ c.clone = "done" => copy.loaded \/ worker.state = "ok"

LEMMA LoadedStep ==
  ASSUME ~SamplesFail, ~Suspends, ~JobsVanish, TypeOK, DrainInv, LoadedInv, [Next]_vars
  PROVE  LoadedInv'
<1> USE DEF LoadedInv
<1>1. CASE Reconcile
  <2>1. worker' = worker /\ copy' = copy /\ ~cache.suspend /\ cache.cond \in Copies
    BY <1>1, PassShape, ReconcileCases DEF DrainInv, NoSuspend, dataVars, Copies
  <2>2. /\ pass'.m.cond.clone \in {"refused", "done"} => copy.done
        /\ pass'.m.cond.clone = "done" =>
             cache.cond.clone = "done" \/ copy.loaded \/ worker.state = "ok"
    <3>0. worker.state = "ok" \/ copy.marker # "none" => copy.done
      BY DEF DrainInv, CopyInv
    <3>1. CASE FinishFollow /\ (OnlyFinishRemains \/ worker.state = "ok")
      BY <3>0, <3>1 DEF OnlyFinishRemains, DrainInv, ProofInv
    <3>2. CASE StartAttempt
      BY <2>1, <3>2, StartShape
    <3>3. CASE HandleFailedJob
      BY <2>1, <3>3, FailedShape
    <3>4. CASE ObserveRunningJob
      BY <2>1, <3>0, <3>4, ObserveShape
    <3> QED BY <1>1, <2>1, <3>1, <3>2, <3>3, <3>4, ReconcileCases DEF SuspendPass
  <2> QED BY <2>1, <2>2, ConditionsFlow, NewMigrationType
<1>2. CASE CreateWorker
  <2>1. /\ worker.state # "ok" /\ copy'.loaded = copy.loaded /\ copy'.done = copy.done
        /\ Copies' = Copies
    BY <1>2, CreateShape DEF DrainInv, WrittenInv, Copies, Failures
  <2> QED BY <2>1
<1>3. CASE ~Reconcile /\ ~CreateWorker
  <2>1. /\ worker.state = "ok" => worker'.state = "ok"
        /\ copy.done => copy'.done \/ Wiping
    <3>1. CASE SetsUp
      <4>1. worker.state = "ok" => worker'.state = "ok"
        BY <3>1, SetUpShape DEF Live, Unfinished
      <4>2. CASE worker.setup = "restart"
        BY <3>1, <4>1, <4>2, SetUpShape DEF Wiping
      <4>3. CASE worker.setup # "restart"
        BY <3>1, <4>1, <4>3, SetUpShape
      <4> QED BY <4>2, <4>3
    <3>2. CASE WorkerExits
      BY <3>2, ExitShape DEF Live, Unfinished
    <3>3. CASE Cluster /\ ~SetsUp /\ ~WorkerExits
      BY <3>3, ClusterShape
    <3>4. CASE SetEndposCurrent \/ UpdateStatus \/ EditSpec
      BY <3>4, EndposShape, UpdateShape, EditShape
    <3>5. CASE Abort \/ CacheSync \/ UNCHANGED vars
      BY <3>5 DEF Abort, CacheSync, vars, dataVars
    <3> QED BY <1>3, <3>1, <3>2, <3>3, <3>4, <3>5 DEF Next, PassStep
  <2>2. CASE ~Wiping
    BY <1>3, <2>1, <2>2, RowsStay, ConditionsFlow, NewMigrationType
  <2>3. CASE Wiping
    <3>1. \A c \in Copies : c.clone \notin {"refused", "done"}
      BY <2>3 DEF DrainInv, CopyInv
    <3> QED BY <1>3, <3>1, ConditionsFlow, NewMigrationType
  <2> QED BY <2>2, <2>3
<1> QED BY <1>1, <1>2, <1>3

\* Where samples bring their counts, spec.suspend stays unset and no TTL collects a
\* finished Job, CloneCompleted True beside a running worker means rows in every table
\* (CopyConfirmed), whatever the marker in its log says and whichever attempt it is.
THEOREM CopyIsConfirmed ==
  ASSUME ~SamplesFail, ~Suspends, ~JobsVanish PROVE Spec => []CopyConfirmed
<1>1. Init => LoadedInv
  BY InitialCopies, NewMigrationType DEF LoadedInv
<1>2. TypeOK /\ DrainInv /\ LoadedInv /\ [Next]_vars => LoadedInv'
  BY LoadedStep
<1>3. LoadedInv => CopyConfirmed
  BY DEF LoadedInv, CopyConfirmed, Live, Unfinished, Copies
<1> QED BY DrainCorrect, <1>1, <1>2, <1>3, PTL DEF Spec

-----------------------------------------------------------------------------
(* The measured lag of a worker that is the only one, where passes read a current      *)
(* Migration and every sample brings the replay position: the latch moves with what    *)
(* is recorded of the lag, so it is past "lagging" only beside a low one.               *)

LagInv ==
  /\ mig.cond.caught # "lagging" => lastLow /\ mig.attempts > 0
  /\ pass.step = "create" => mig.cond.caught = "lagging" /\ pass.m.cond.caught = "lagging"
  /\ pass.step = "endpos" => pass.read = "low" /\ lastLow
  /\ pass.step # "idle" /\ pass.m.cond.caught # "lagging" =>
       /\ pass.m.attempts > 0
       /\ pass.read = "low" \/ (pass.read # "high" /\ mig.cond.caught # "lagging")

LEMMA LagStep ==
  ASSUME ~CacheLags, ~SamplesFail, MaxAttempts = 1, TypeOK, RefusalInv, LagInv, [Next]_vars
  PROVE  LagInv'
<1> USE NumberTypes, IdleType, NewMigrationType DEF LagInv
<1>1. CASE Reconcile
  <2>1. /\ pass.step = "idle" /\ cache = mig /\ mig' = mig /\ lastLow' = lastLow
        /\ cache.cond.caught # "lagging" => cache.cond.clone = "done"
    BY <1>1, ReconcileCases DEF RefusalInv, InformerInv, CatchUpInv, Kept, Copies, apiVars
  <2>2. ASSUME pass' \in Passes, pass'.step = "write", pass'.read = "missed",
               pass'.m.attempts >= cache.attempts, pass'.m.cond.caught = cache.cond.caught
        PROVE  LagInv'
    <3>1. pass'.m.attempts \in Nat
      BY <2>2 DEF Passes, Migrations
    <3>2. pass'.m.cond.caught # "lagging" => pass'.m.attempts > 0
      BY <2>1, <2>2, <3>1
    <3> QED BY <2>1, <2>2, <3>2
  <2>3. CASE SuspendPass
    BY <2>1, <2>2, <2>3, SuspendShape DEF Begun
  <2>4. CASE FinishFollow
    BY <2>1, <2>2, <2>4, FinishShape DEF Begun
  <2>5. CASE StartAttempt
    <3>1. CASE pass'.step = "write"
      BY <2>1, <2>2, <2>5, <3>1, StartShape
    <3>2. CASE pass'.step = "create"
      <4>1. cache.attempts < 1 /\ pass'.m.cond.caught = cache.cond.caught
        BY <2>5, <3>2, StartShape
      <4> QED BY <2>1, <3>2, <4>1
    <3> QED BY <2>5, <3>1, <3>2, StartShape
  <2>6. CASE HandleFailedJob
    BY <2>1, <2>2, <2>6, FailedShape DEF Begun
  <2>7. CASE ObserveRunningJob
    <3>1. /\ pass'.step \in {"endpos", "write"} /\ pass'.m.attempts = cache.attempts
          /\ pass'.m.cond.clone # "done" =>
               cache.cond.clone # "done" /\ pass'.m.cond.caught = cache.cond.caught
          /\ pass'.read \in {"low", "high"} /\ pass'.m.cond.clone = "done" =>
               pass'.m.cond.caught = CaughtUp(cache.cond.caught, pass'.read = "low")
          /\ pass'.read = "missed" => pass'.m.cond.caught = cache.cond.caught
          /\ pass'.read \in {"low", "high", "missed"}
          /\ pass'.step = "endpos" =>
               /\ pass'.m.cond.clone = "done" /\ pass'.m.cond.caught = "true"
               /\ pass'.read # "missed" /\ cache.cond.caught # "lagging"
      BY <2>7, ObserveShape DEF Passes
    <3>2. cache.attempts > 0
      BY <2>1, <2>7, ObserveShape DEF RefusalInv, NumbersInv, Exists
    <3>3. pass'.read = "high" => pass'.m.cond.caught = "lagging"
      BY <2>1, <3>1 DEF CaughtUp
    <3>4. pass'.step = "endpos" => pass'.read = "low" /\ lastLow'
      BY <2>1, <3>1, <3>3
    <3> QED BY <2>1, <3>1, <3>2, <3>3, <3>4
  <2> QED BY <1>1, <2>3, <2>4, <2>5, <2>6, <2>7, ReconcileCases
<1>2. CASE SetEndposCurrent
  BY <1>2, EndposShape
<1>3. CASE CreateWorker
  BY <1>3, CreateShape
<1>4. CASE UpdateStatus
  <2>1. /\ pass.step = "write" /\ pass' = Idle /\ mig.cond = pass.base.cond
        /\ mig'.cond = IF pass.m.cond = pass.base.cond THEN mig.cond ELSE pass.m.cond
        /\ mig'.attempts = IF pass.m.attempts = pass.base.attempts THEN mig.attempts ELSE pass.m.attempts
        /\ lastLow' = IF pass.read \in {"low", "high"} THEN pass.read = "low" ELSE lastLow
        /\ mig.attempts = pass.base.attempts
    BY <1>4, UpdateShape DEF RefusalInv, CurrentInv, NumbersInv
  <2>2. mig'.cond = pass.m.cond /\ mig'.attempts = pass.m.attempts
    BY <2>1
  <2> QED BY <2>1, <2>2
<1>5. CASE Abort
  BY <1>5 DEF Abort, apiVars
<1>6. CASE CacheSync
  BY <1>6 DEF CacheSync
<1>7. CASE EditSpec
  BY <1>7, EditShape
<1>8. CASE Cluster
  BY <1>8, ClusterQuiet
<1>9. CASE UNCHANGED vars
  BY <1>9 DEF vars, apiVars
<1> QED BY <1>1, <1>2, <1>3, <1>4, <1>5, <1>6, <1>7, <1>8, <1>9 DEF Next, PassStep

\* Where passes read a current Migration, samples bring the replay position and the budget
\* is one attempt, the stream is frozen only by a pass that read a low lag after another
\* had recorded one of the same worker (CutoverMeasured): the raw receive position before
\* the first sync counts once at most.
THEOREM CutoverIsMeasured ==
  ASSUME ~CacheLags, ~SamplesFail, MaxAttempts = 1 PROVE Spec => []CutoverMeasured
<1>1. Init => LagInv
  BY NewMigrationType, IdleType DEF Init, LagInv
<1>2. TypeOK /\ RefusalInv /\ LagInv /\ [Next]_vars => LagInv'
  BY LagStep
<1>3. LagInv => CutoverMeasured
  BY DEF LagInv, CutoverMeasured
<1> QED BY RefusalCorrect, <1>1, <1>2, <1>3, PTL DEF Spec

-----------------------------------------------------------------------------
(* A confirmed copy through suspends, where passes read a current Migration, samples    *)
(* bring their counts and the budget is one attempt: the worker whose exit 0 a clone is *)
(* called complete on is the last one, however it leaves the cluster afterwards.        *)

WorkerOver == mig.attempts > 0 /\ worker.state \notin {"none", "running", "ending"}
OnceInv ==
  /\ mig.attempts > 0 => pass.step # "create"
  /\ \A c \in Copies : c.clone = "done" => mig.attempts > 0 /\ (copy.loaded \/ WorkerOver)
  /\ verify # "none" \/ reown # "none" => WorkerOver

\* The numbers only grow, and a worker that is over stays so: nothing creates another.
LEMMA OverStays ==
  ASSUME ~CacheLags, TypeOK, RefusalInv, OnceInv, [Next]_vars
  PROVE  (mig.attempts > 0 => mig'.attempts > 0) /\ (WorkerOver => WorkerOver')
<1> USE NumberTypes DEF WorkerOver, OnceInv
<1>1. CASE Reconcile
  BY <1>1, ReconcileCases, SuspendShape, FinishShape, StartShape, FailedShape, ObserveShape
     DEF apiVars, TypeOK, Exists, Deleted, Unfinished
<1>2. CASE UpdateStatus
  BY <1>2, UpdateShape DEF RefusalInv, NumbersInv
<1>3. CASE SetEndposCurrent \/ CreateWorker \/ EditSpec
  BY <1>3, EndposShape, CreateShape, EditShape
<1>4. CASE Cluster
  BY <1>4, ClusterQuiet DEF Failures
<1>5. CASE Abort \/ CacheSync \/ UNCHANGED vars
  BY <1>5 DEF Abort, CacheSync, vars, apiVars
<1> QED BY <1>1, <1>2, <1>3, <1>4, <1>5 DEF Next, PassStep

\* A pass reaches the finish path only over a worker that is over, and confirms a copy
\* there or on counts.
LEMMA OncePass ==
  ASSUME ~CacheLags, ~SamplesFail, MaxAttempts = 1, TypeOK, RefusalInv, OnceInv, Reconcile
  PROVE  /\ mig' = mig /\ copy' = copy /\ cache = mig
         /\ mig.attempts > 0 => pass'.step # "create"
         /\ pass'.m.cond.clone = "done" => mig.attempts > 0 /\ (copy.loaded \/ WorkerOver)
         /\ verify' # verify \/ reown' \notin {reown, "none"} => WorkerOver
<1> USE NumberTypes
<1>1. mig' = mig /\ copy' = copy /\ cache = mig
  BY ReconcileCases DEF RefusalInv, InformerInv, apiVars, dataVars
<1>2. mig.cond.clone = "done" => mig.attempts > 0 /\ (copy.loaded \/ WorkerOver)
  BY DEF OnceInv, Copies
<1>3. Exists(cache.job) => mig.attempts > 0
  BY <1>1 DEF RefusalInv, NumbersInv, Exists
<1>4. CASE SuspendPass
  BY <1>1, <1>2, <1>4, SuspendShape DEF Begun, OnceInv, Unfinished
<1>5. CASE FinishFollow /\ (OnlyFinishRemains \/ (Exists(cache.job) /\ worker.state = "ok"))
  <2>1. WorkerOver
    BY <1>3, <1>5 DEF OnlyFinishRemains, OnceInv, WorkerOver
  <2> QED BY <1>1, <1>5, <2>1, FinishShape DEF Begun, WorkerOver
<1>6. CASE StartAttempt
  BY <1>1, <1>2, <1>6, StartShape
<1>7. CASE HandleFailedJob
  BY <1>1, <1>2, <1>7, FailedShape DEF Begun
<1>8. CASE ObserveRunningJob
  BY <1>1, <1>2, <1>3, <1>8, ObserveShape
<1> QED BY <1>1, <1>4, <1>5, <1>6, <1>7, <1>8, ReconcileCases

LEMMA OnceStep ==
  ASSUME ~CacheLags, ~SamplesFail, MaxAttempts = 1, TypeOK, RefusalInv, OnceInv, [Next]_vars
  PROVE  OnceInv'
<1> USE NumberTypes, IdleType, NewMigrationType
<1>1. mig.attempts > 0 => pass.step # "create"
  BY DEF OnceInv
<1>2. mig'.attempts > 0 => pass'.step # "create"
  <2>1. CASE Reconcile
    BY <2>1, OncePass
  <2>2. CASE SetEndposCurrent \/ CreateWorker
    BY <1>1, <2>2, EndposShape, CreateShape
  <2>3. CASE UpdateStatus
    BY <2>3, UpdateShape
  <2>4. CASE Abort
    BY <2>4 DEF Abort
  <2>5. CASE EditSpec \/ Cluster
    BY <1>1, <2>5, EditShape, ClusterQuiet
  <2>6. CASE CacheSync \/ UNCHANGED vars
    BY <1>1, <2>6 DEF CacheSync, vars, apiVars
  <2> QED BY <2>1, <2>2, <2>3, <2>4, <2>5, <2>6 DEF Next, PassStep
<1>3. ASSUME NEW c \in Copies', c.clone = "done"
      PROVE  mig'.attempts > 0 /\ (copy'.loaded \/ WorkerOver')
  <2>1. mig.attempts > 0 /\ (copy.loaded \/ WorkerOver)
    <3>1. CASE c \in Copies
      BY <1>3, <3>1 DEF OnceInv
    <3>2. CASE Reconcile /\ c = pass'.m.cond
      BY <1>3, <3>2, OncePass
    <3> QED BY <1>3, <3>1, <3>2, ConditionsFlow
  <2>2. CASE Reconcile
    BY <2>1, <2>2, OncePass, OverStays
  <2>3. CASE ~Reconcile
    <3>1. c \in Copies
      BY <1>3, <2>3, ConditionsFlow, NewMigrationType
    <3>2. ~Wiping
      BY <1>3, <3>1, WipedUntold DEF RefusalInv, Unconcluded
    <3> QED BY <2>1, <3>2, OverStays, RowsStay
  <2> QED BY <2>2, <2>3
<1>4. verify' # "none" \/ reown' # "none" => WorkerOver'
  <2>1. verify' # "none" \/ reown' # "none" => WorkerOver
    <3>1. CASE Reconcile
      BY <3>1, OncePass DEF OnceInv
    <3>2. CASE SetEndposCurrent \/ CreateWorker \/ UpdateStatus \/ EditSpec
      BY <3>2, EndposShape, CreateShape, UpdateShape, EditShape DEF OnceInv
    <3>3. CASE Cluster
      BY <3>3, ClusterQuiet DEF OnceInv
    <3>4. CASE Abort \/ CacheSync \/ UNCHANGED vars
      BY <3>4 DEF Abort, CacheSync, vars, finishJobs, OnceInv
    <3> QED BY <3>1, <3>2, <3>3, <3>4 DEF Next, PassStep
  <2> QED BY <2>1, OverStays
<1> QED BY <1>2, <1>3, <1>4 DEF OnceInv

\* Where passes read a current Migration, samples bring their counts and the budget is one
\* attempt, CloneCompleted True beside a running worker means rows in every table
\* (CopyConfirmed), whatever suspends it and whichever finished Job a TTL collects: a
\* worker that a suspend deleted is not started again, and an exit 0 is the last word.
THEOREM CopyIsConfirmedOnce ==
  ASSUME ~CacheLags, ~SamplesFail, MaxAttempts = 1 PROVE Spec => []CopyConfirmed
<1>1. Init => OnceInv
  <2> SUFFICES ASSUME Init PROVE OnceInv
    OBVIOUS
  <2>1. \A c \in Copies : c.clone # "done"
    BY InitialCopies, NewMigrationType
  <2> QED BY <2>1, NewMigrationType, IdleType DEF Init, OnceInv
<1>2. TypeOK /\ RefusalInv /\ OnceInv /\ [Next]_vars => OnceInv'
  BY OnceStep
<1>3. OnceInv => CopyConfirmed
  BY DEF OnceInv, WorkerOver, CopyConfirmed, Live, Unfinished, Copies
<1> QED BY RefusalCorrect, <1>1, <1>2, <1>3, PTL DEF Spec

\* Where pgcopydb ends well only at an endpos, the argument holds for every budget: an
\* endpos is set over a confirmed copy, so what an exit 0 adds was known before it.
ExitInv ==
  /\ \A c \in Copies : c.clone = "done" => copy.loaded
  /\ worker.state = "ok" \/ reown # "none" => endpos

LEMMA ExitStep ==
  ASSUME ~CacheLags, ~SamplesFail, ~EarlyExits, TypeOK, RefusalInv, ExitInv, [Next]_vars
  PROVE  ExitInv'
<1> USE NewMigrationType
<1>0. \/ (copy.loaded => copy'.loaded) /\ (endpos => endpos')
      \/ Unconcluded /\ Live
  BY RowsStay, WipedUntold DEF RefusalInv, Wiping
<1>2. Reconcile => /\ pass'.m.cond.clone = "done" => copy.loaded
                   /\ worker'.state = "ok" \/ reown' # "none" => endpos
  <2> SUFFICES ASSUME Reconcile
               PROVE  /\ pass'.m.cond.clone = "done" => copy.loaded
                      /\ worker'.state = "ok" \/ reown' # "none" => endpos
    OBVIOUS
  <2>0. cache = mig /\ ~mig.cond.failed
    BY ReconcileCases DEF RefusalInv, InformerInv
  <2>1. cache.cond.clone = "done" => copy.loaded
    BY DEF ExitInv, Copies
  <2>a. endpos => copy.loaded
    BY <2>0, <2>1 DEF RefusalInv, ContentInv, Kept
  <2>2. CASE SuspendPass
    BY <2>1, <2>2, SuspendShape DEF TypeOK, ExitInv, Deleted, Unfinished
  <2>3. CASE FinishFollow /\ (OnlyFinishRemains \/ worker.state = "ok")
    BY <2>a, <2>3, FinishShape DEF OnlyFinishRemains, ExitInv
  <2>4. CASE StartAttempt
    BY <2>1, <2>4, StartShape DEF ExitInv
  <2>5. CASE HandleFailedJob
    BY <2>1, <2>5, FailedShape DEF ExitInv
  <2>6. CASE ObserveRunningJob
    BY <2>1, <2>6, ObserveShape DEF ExitInv
  <2> QED BY <2>2, <2>3, <2>4, <2>5, <2>6, ReconcileCases
<1>3. \A c \in Copies' : c.clone = "done" => copy'.loaded
  <2>1. CASE Reconcile
    <3>1. copy' = copy
      BY <2>1, ReconcileCases DEF dataVars
    <3> QED BY <1>2, <2>1, <3>1, ConditionsFlow DEF ExitInv
  <2>2. CASE ~Reconcile
    BY <1>0, <2>2, ConditionsFlow DEF ExitInv, Unconcluded
  <2> QED BY <2>1, <2>2
<1>4. worker'.state = "ok" \/ reown' # "none" => endpos
  <2>1. CASE Cluster
    BY <2>1, ClusterQuiet DEF ExitInv
  <2>2. CASE SetEndposCurrent
    BY <2>2, EndposShape DEF ExitInv
  <2>3. CASE CreateWorker
    <3>1. worker'.state = "running" /\ reown' = reown
      BY <2>3, CreateShape
    <3> QED BY <3>1 DEF ExitInv
  <2>4. CASE UpdateStatus \/ EditSpec
    BY <2>4, UpdateShape, EditShape DEF ExitInv
  <2>5. CASE Abort \/ CacheSync \/ UNCHANGED vars
    BY <2>5 DEF Abort, CacheSync, vars, finishJobs, ExitInv
  <2> QED BY <1>2, <2>1, <2>2, <2>3, <2>4, <2>5 DEF Next, PassStep
<1>5. ~(worker'.state = "ok" \/ reown' # "none") \/ (endpos => endpos')
  <2>1. CASE Unconcluded /\ Live /\ SetsUp
    <3>1. worker'.state # "ok" /\ reown' = "none"
      <4>1. UNCHANGED reown /\ worker'.state \in {worker.state, "lost"}
        BY <2>1, SetUpShape DEF finishJobs
      <4> QED BY <2>1, <4>1 DEF Live, Unfinished, Unconcluded
    <3> QED BY <3>1
  <2>2. CASE ~SetsUp
    BY <2>2, EndposStays
  <2> QED BY <1>0, <2>1, <2>2
<1> QED BY <1>3, <1>4, <1>5 DEF ExitInv

\* Where passes read a current Migration, samples bring their counts and pgcopydb exits 0
\* only at an endpos, CloneCompleted True beside a running worker means rows in every
\* table (CopyConfirmed), on every attempt and through every suspend.
THEOREM CopyIsConfirmedAtEndpos ==
  ASSUME ~CacheLags, ~SamplesFail, ~EarlyExits PROVE Spec => []CopyConfirmed
<1>1. Init => ExitInv
  <2> SUFFICES ASSUME Init PROVE ExitInv
    OBVIOUS
  <2>1. \A c \in Copies : c.clone # "done"
    BY InitialCopies, NewMigrationType
  <2> QED BY <2>1 DEF Init, ExitInv
<1>2. TypeOK /\ RefusalInv /\ ExitInv /\ [Next]_vars => ExitInv'
  BY ExitStep
<1>3. ExitInv => CopyConfirmed
  BY DEF ExitInv, CopyConfirmed, Copies
<1> QED BY RefusalCorrect, <1>1, <1>2, <1>3, PTL DEF Spec

-----------------------------------------------------------------------------
(* The refinement of CutoverContract, where spec.suspend stays unset and no finished   *)
(* Job is collected: each step is one of the contract or leaves it as it is.            *)

Handed == Handover => reown = "ok"

LEMMA ContractStutter ==
  ASSUME UNCHANGED <<worker, drained, verify, reown, slot>>, copy'.done = copy.done,
         mig'.cond.cutover = mig.cond.cutover
  PROVE  UNCHANGED Contract!contractVars
BY DEF Contract!contractVars, Phase, Working, Live, Proof

\* A pass creates the Jobs of the finish path, none of which has happened yet.
LEMMA ReconcileKeepsContract ==
  ASSUME TypeOK, DrainInv, Reconcile
  PROVE  UNCHANGED Contract!contractVars
<1>1. /\ worker' = worker /\ UNCHANGED <<mig, copy, drained, slot>> /\ ~cache.suspend
  BY PassShape, ReconcileCases DEF apiVars, dataVars, NoSuspend, DrainInv
<1>2. /\ verify' = verify \/ (verify = "none" /\ verify' = "running")
      /\ reown' = reown \/ (reown = "none" /\ reown' = "running")
  <2>1. CASE FinishFollow
    BY <2>1, FinishShape DEF Ensured
  <2>2. CASE StartAttempt \/ HandleFailedJob \/ ObserveRunningJob
    BY <2>2, StartShape, FailedShape, ObserveShape
  <2> QED BY <1>1, <2>1, <2>2, ReconcileCases DEF SuspendPass
<1>3. Phase' = Phase /\ Proof' = Proof /\ Handed' = Handed
  BY <1>1, <1>2 DEF Phase, Working, Live, Proof, Handed
<1> QED BY <1>1, <1>3 DEF Contract!contractVars, Handed

\* A worker is created over none or a failed one, and begins nothing before it is set up.
LEMMA CreateKeepsContract ==
  ASSUME TypeOK, DrainInv, CreateWorker
  PROVE  UNCHANGED Contract!contractVars
<1>1. /\ pass.step = "create" /\ worker'.state = "running" /\ worker'.setup # "up"
      /\ copy'.done = copy.done
      /\ UNCHANGED <<mig, drained, slot, verify, reown>>
  BY CreateShape
<1>2. worker.state \in {"none"} \cup Failures
  BY <1>1 DEF DrainInv, WrittenInv
<1>3. Phase = "idle" /\ Phase' = "idle"
  BY <1>1, <1>2 DEF Phase, Working, Live, Unfinished, Failures
<1>4. Proof' = Proof
  BY <1>1 DEF Proof
<1> QED BY <1>1, <1>3, <1>4 DEF Contract!contractVars

\* endpos is set beside a worker that runs, whose drain is not complete yet.
LEMMA EndposKeepsContract ==
  ASSUME TypeOK, DrainInv, SetEndposCurrent
  PROVE  UNCHANGED Contract!contractVars
<1>1. /\ drained' \in {drained, FALSE} /\ (drained' # drained => Live)
      /\ UNCHANGED <<mig, worker, copy, slot, verify, reown>>
  BY EndposShape
<1>2. drained' = drained
  BY <1>1 DEF DrainInv, CopyInv, Live, Unfinished, TypeOK
<1> QED BY <1>1, <1>2, ContractStutter

\* A status write tells what has happened, or takes a report back.
LEMMA UpdateKeepsContract ==
  ASSUME TypeOK, DrainInv, UpdateStatus
  PROVE  Contract!Tell \/ UNCHANGED Contract!contractVars
<1>1. UNCHANGED <<worker, copy, drained, verify, reown, slot>>
  BY UpdateShape
<1>2. CASE mig'.cond.cutover = mig.cond.cutover
  BY <1>1, <1>2, ContractStutter
<1>3. CASE mig'.cond.cutover # mig.cond.cutover
  <2>1. mig.cond \in Copies /\ pass.m.cond \in Copies /\ mig'.cond = pass.m.cond
    BY <1>3, UpdateShape DEF Copies
  <2>2. mig.cond.cutover \in CutoverWords /\ mig'.cond.cutover \in CutoverWords
    BY UpdateShape DEF TypeOK, Migrations, Conditions, CutoverWords
  <2>3. /\ mig.cond.cutover = "true" \/ mig'.cond.cutover = "true" => verify = "ok" /\ Handed
        /\ mig.cond.cutover = "refuted" \/ mig'.cond.cutover = "refuted" => verify = "failed"
    BY <2>1 DEF DrainInv, ReportInv, Owned, Handed
  <2>4. /\ verify = "ok" => Proof = "proved"
        /\ verify = "failed" => Proof = "refuted"
        /\ Phase' = Phase /\ Proof' = Proof /\ Handed' = Handed
    BY <1>1 DEF Phase, Working, Live, Proof, Handed
  <2>5. \/ mig.cond.cutover = "none" /\ mig'.cond.cutover = "true" /\ Proof = "proved" /\ Handed
        \/ mig.cond.cutover = "none" /\ mig'.cond.cutover = "refuted" /\ Proof = "refuted"
        \/ mig.cond.cutover # "none" /\ mig'.cond.cutover = "none"
    BY <1>3, <2>2, <2>3, <2>4 DEF CutoverWords
  <2> QED BY <1>1, <2>4, <2>5 DEF Contract!Tell, Handed
<1> QED BY <1>2, <1>3

\* Setting up, a worker drops the slot of an unfinished copy and wipes no finished one; it
\* starts behind the slot it made, or the slot its finished copy still has.
LEMMA SetUpKeepsContract ==
  ASSUME TypeOK, DrainInv, SetsUp
  PROVE  Contract!Start \/ Contract!StartOver \/ UNCHANGED Contract!contractVars
<1>0. /\ Live /\ worker.state = "running" /\ worker.setup # "up" /\ ~drained
      /\ UNCHANGED <<mig, verify, reown>>
  BY SetUpShape DEF DrainInv, AttemptInv, CopyInv, Live, Unfinished, apiVars, finishJobs
<1>1. Phase = "idle" /\ Proof' = Proof /\ Handed' = Handed
  BY <1>0 DEF Phase, Working, Proof, Handed
<1>2. CASE /\ worker.setup = "cleanup" /\ worker'.setup = "restart" /\ slot' = FALSE
           /\ UNCHANGED <<copy, drained>> /\ worker'.state = worker.state
  <2>1. ~copy.done
    BY <1>0, <1>2 DEF DrainInv, CopyInv, Wiping
  <2>2. Phase' = "idle"
    BY <1>0, <1>2 DEF Phase, Working
  <2> QED BY <1>0, <1>1, <1>2, <2>1, <2>2 DEF Contract!StartOver, Handed
<1>3. CASE /\ worker.setup = "restart" /\ worker'.setup = "resume" /\ worker'.state = worker.state
           /\ ~copy'.done /\ drained' = FALSE /\ UNCHANGED slot
  <2>1. ~copy.done
    BY <1>0, <1>3 DEF DrainInv, CopyInv, Wiping
  <2>2. copy.done \in BOOLEAN /\ copy'.done \in BOOLEAN /\ drained \in BOOLEAN
    BY SetUpShape DEF TypeOK, WorkTypeOK
  <2>3. Phase' = "idle"
    BY <1>0, <1>3 DEF Phase, Working
  <2> QED BY <1>0, <1>1, <1>3, <2>1, <2>2, <2>3 DEF Contract!contractVars, Handed
<1>4. CASE /\ worker.setup = "resume" /\ worker'.setup = "up" /\ worker'.state = worker.state
           /\ slot' = (IF copy.done THEN slot ELSE TRUE) /\ UNCHANGED <<copy, drained>>
  <2>1. slot' = TRUE
    BY <1>0, <1>4 DEF DrainInv, CopyInv, ProofInv, Owned, TypeOK
  <2>2. Phase' = "streaming"
    BY <1>0, <1>4 DEF Phase, Working, Live, Unfinished
  <2> QED BY <1>0, <1>1, <1>4, <2>1, <2>2 DEF Contract!Start, Handed
<1>5. CASE /\ worker'.setup = "resume" /\ worker'.state = "lost" /\ UNCHANGED <<copy, drained, slot>>
  <2>1. Phase' = "idle"
    BY <1>5 DEF Phase, Working
  <2> QED BY <1>0, <1>1, <1>5, <2>1 DEF Contract!contractVars, Handed
<1> QED BY <1>2, <1>3, <1>4, <1>5, SetUpShape

\* A worker at work ends behind a finished copy, or fails; one that has not begun fails.
LEMMA ExitKeepsContract ==
  ASSUME TypeOK, DrainInv, WorkerExits
  PROVE  Contract!Stream \/ UNCHANGED Contract!contractVars
<1>1. /\ worker.state = "running" /\ worker'.state \in {"ok", "failed", "denied"}
      /\ worker'.setup = worker.setup /\ copy'.done = copy.done
      /\ worker'.state = "ok" => worker.setup = "up" /\ copy.done
      /\ drained' # drained => worker.setup = "up"
      /\ UNCHANGED <<mig, slot, verify, reown>>
  BY ExitShape DEF DrainInv, AttemptInv, Live, Unfinished, apiVars, finishJobs
<1>2. Proof' = Proof /\ Handed' = Handed
  BY <1>1 DEF Proof, Handed
<1>3. Phase' = IF worker'.state = "ok" THEN "ended" ELSE "idle"
  BY <1>1 DEF Phase, Working, Live, Unfinished
<1>4. CASE worker.setup = "up"
  <2>1. Phase = "streaming"
    BY <1>1, <1>4 DEF Phase, Working, Live, Unfinished
  <2>2. drained' \in BOOLEAN
    BY ExitShape DEF JobsTypeOK
  <2>3. worker'.state = "ok" => copy'.done = TRUE
    BY <1>1, ExitShape DEF WorkTypeOK
  <2> QED BY <1>1, <1>2, <1>3, <2>1, <2>2, <2>3 DEF Contract!Stream, Handed
<1>5. CASE worker.setup # "up"
  <2>1. Phase = "idle" /\ Phase' = "idle" /\ drained' = drained
    BY <1>1, <1>3, <1>5 DEF Phase, Working
  <2> QED BY <1>1, <1>2, <2>1 DEF Contract!contractVars, Handed
<1> QED BY <1>4, <1>5

\* What the cluster moves beside the worker's pod: the copy, and each Job what it stands for.
LEMMA ClusterKeepsContract ==
  ASSUME ~JobsVanish, TypeOK, DrainInv, Cluster
  PROVE  Contract!Next \/ UNCHANGED Contract!contractVars
<1>0. mig' = mig
  BY ClusterQuiet
<1>1. CASE Logs
  <2>1. UNCHANGED <<worker, drained, verify, reown, slot>> /\ Working
    BY <1>1 DEF Logs, finishJobs
  <2>2. CASE copy'.done = copy.done
    BY <1>0, <2>1, <2>2, ContractStutter
  <2>3. CASE copy'.done # copy.done
    <3>1. copy'.done = TRUE
      BY <1>1, <2>3 DEF Logs, TypeOK
    <3>2. Phase = "streaming" /\ Phase' = "streaming"
      BY <2>1 DEF Phase, Working, Live, Unfinished
    <3>3. Proof' = Proof /\ drained' \in BOOLEAN
      BY <2>1 DEF Proof, TypeOK
    <3>4. Contract!Stream
      BY <1>0, <2>1, <3>1, <3>2, <3>3 DEF Contract!Stream
    <3> QED BY <3>4 DEF Contract!Next
  <2> QED BY <2>2, <2>3
<1>2. CASE Streams \/ CompareEnds
  <2>1. UNCHANGED <<worker, copy, drained, verify, reown, slot>>
    BY <1>2 DEF Streams, CompareEnds, finishJobs, dataVars
  <2> QED BY <1>0, <2>1, ContractStutter
<1>3. CASE VerifyEnds
  <2>1. /\ verify = "running" /\ verify' \in {"failed"} \cup (IF Shown THEN {"ok"} ELSE {})
        /\ UNCHANGED <<worker, copy, drained, reown, slot>>
    BY <1>3 DEF VerifyEnds, dataVars
  <2>2. worker.state = "ok"
    BY <2>1 DEF DrainInv, ProofInv
  <2>3. /\ Phase = "ended" /\ Phase' = Phase /\ Proof = "none"
        /\ Proof' \in {"refuted"} \cup (IF drained THEN {"proved"} ELSE {})
    BY <2>1, <2>2 DEF Phase, Working, Live, Unfinished, Proof, Shown
  <2>4. Contract!Judge
    BY <1>0, <2>1, <2>3 DEF Contract!Judge
  <2> QED BY <2>4 DEF Contract!Next
<1>4. CASE ReownEnds
  <2>1. /\ \/ reown = "running" /\ reown' \in {"ok", "failed"}
           \/ reown = "ending" /\ reown' = "none"
        /\ UNCHANGED <<worker, copy, drained, verify, slot>>
    BY <1>4 DEF ReownEnds, dataVars
  <2>2. Proof = "proved" /\ Proof' = Proof /\ Phase' = Phase
    BY <2>1 DEF DrainInv, ProofInv, Proof, Phase, Working, Live
  <2>3. CASE Handed' = Handed
    BY <1>0, <2>1, <2>2, <2>3 DEF Contract!contractVars, Handed
  <2>4. CASE Handed' # Handed
    <3>1. ~Handed /\ Handed' = TRUE
      BY <2>1, <2>4 DEF Handed
    <3>2. Contract!HandOver
      BY <1>0, <2>1, <2>2, <3>1 DEF Contract!HandOver, Handed
    <3> QED BY <3>2 DEF Contract!Next
  <2> QED BY <2>3, <2>4
<1>5. CASE CleanupEnds
  <2>1. /\ cleanup = "running" /\ UNCHANGED <<worker, copy, drained, verify, reown>>
        /\ slot' = FALSE \/ slot' = slot
    BY <1>5 DEF CleanupEnds
  <2>2. CASE slot' = slot
    BY <1>0, <2>1, <2>2, ContractStutter
  <2>3. CASE slot' = FALSE
    <3>1. verify = "ok" /\ Handed
      BY <2>1 DEF DrainInv, ProofInv, Owned, Handed
    <3>2. Proof = "proved" /\ Proof' = Proof /\ Phase' = Phase
      BY <2>1, <3>1 DEF Proof, Phase, Working, Live
    <3>3. Contract!DropSlot
      BY <1>0, <2>1, <2>3, <3>1, <3>2 DEF Contract!DropSlot, Handed
    <3> QED BY <3>3 DEF Contract!Next
  <2> QED BY <2>1, <2>2, <2>3
<1>6. CASE JobVanishes
  BY <1>6 DEF JobVanishes
<1>7. CASE SetsUp
  BY <1>7, SetUpKeepsContract DEF Contract!Next
<1>8. CASE WorkerExits
  BY <1>8, ExitKeepsContract DEF Contract!Next
<1> QED BY <1>1, <1>2, <1>3, <1>4, <1>5, <1>6, <1>7, <1>8 DEF Cluster, FinishJobEnds

LEMMA StepKeepsContract ==
  ASSUME ~JobsVanish, TypeOK, DrainInv, [Next]_vars
  PROVE  [Contract!Next]_(Contract!contractVars)
<1>1. CASE Reconcile
  BY <1>1, ReconcileKeepsContract
<1>2. CASE SetEndposCurrent
  BY <1>2, EndposKeepsContract
<1>3. CASE CreateWorker
  BY <1>3, CreateKeepsContract
<1>4. CASE UpdateStatus
  BY <1>4, UpdateKeepsContract DEF Contract!Next
<1>5. CASE EditSpec
  BY <1>5, EditShape, ContractStutter
<1>6. CASE Cluster
  BY <1>6, ClusterKeepsContract
<1>7. CASE Abort \/ CacheSync \/ UNCHANGED vars
  <2>1. UNCHANGED <<mig, worker, copy, drained, verify, reown, slot>>
    BY <1>7 DEF Abort, CacheSync, vars, apiVars, dataVars, finishJobs
  <2> QED BY <2>1, ContractStutter
<1> QED BY <1>1, <1>2, <1>3, <1>4, <1>5, <1>6, <1>7 DEF Next, PassStep

\* FollowCutover implements its contract (KeepsContract; follow.go:228, follow.go:272,
\* resources.go:142) where spec.suspend stays unset and no finished Job is collected, for
\* every budget and bound, with caches of any age and passes cut anywhere: no worker after
\* one that exited 0, no start-over of a finished copy, one judgement of its drain,
\* ownership on a proven drain, the slot after both, and no report before what it tells.
THEOREM CutoverKeepsContract == ASSUME ~Suspends, ~JobsVanish PROVE Spec => KeepsContract
<1>1. Init => Contract!Init
  <2> SUFFICES ASSUME Init PROVE Contract!Init
    OBVIOUS
  <2>1. /\ worker.state = "none" /\ verify = "none" /\ drained = FALSE /\ slot = FALSE
        /\ copy.done = FALSE /\ mig.cond.cutover = "none"
    BY NewMigrationType DEF Init
  <2>2. Phase = "idle" /\ Proof = "none"
    BY <2>1 DEF Phase, Working, Live, Unfinished, Proof
  <2>3. (Handover => reown = "ok") \in BOOLEAN
    OBVIOUS
  <2> QED BY <2>1, <2>2, <2>3 DEF Contract!Init
<1>2. TypeOK /\ DrainInv /\ [Next]_vars => [Contract!Next]_(Contract!contractVars)
  BY StepKeepsContract
<1> QED BY DrainCorrect, <1>1, <1>2, PTL DEF Spec, KeepsContract, Contract!Spec

=============================================================================
