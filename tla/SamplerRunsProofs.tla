-------------------------- MODULE SamplerRunsProofs --------------------------
(***************************************************************************)
(* The sampler of one Migration, for any number of Jobs, runs and samples: *)
(* what is published and handed out stays in order, is of the copy it is   *)
(* said to be of, and is gone when the Migration is.                       *)
(***************************************************************************)
EXTENDS SamplerRuns, TLAPS

(* What the helpers on samples, runs, gauges and statuses return. *)

\* A marker was judged: believed, or refused.
Finished(s) == s.clone \in {"refused", "done"}

GaugeRecords == [source : Nat, target : Sizes, sync : Waits, status : BOOLEAN]

LEMMA Records ==
  /\ Zero \in Samples /\ Zero.at = 0 /\ Zero.target = "none" /\ ~Zero.copySeen /\ ~Zero.confirmed
  /\ NoRun \in Runs /\ NoRun.id = 0 /\ NoRun.job = 0 /\ ~NoRun.hint /\ ~NoRun.copySeen
  /\ NoRun.last = Zero /\ ~NoRun.over
  /\ NewMigration \in Statuses /\ NewMigration.job = 0 /\ NewMigration.clone = "running"
  /\ NewMigration.blocked = "none"
  /\ Idle \in Passes /\ Idle.step = "idle" /\ ~Idle.observing /\ ~Idle.judge /\ ~Idle.self
  /\ Idle.got = Zero /\ Idle.m = NewMigration
  /\ NoSeries \in GaugeRecords /\ NoSeries.source = 0 /\ NoSeries.target = "none"
BY BoundsAssumption
   DEF Zero, Samples, Sizes, Waits, NoRun, Runs, NewMigration, Statuses, CloneStates, Idle, Passes,
       Steps, NoSeries, GaugeRecords

\* What psql brings of a job is of that job's running worker, and "old" of one whose copy
\* has not begun.
LEMMA ReadingShape ==
  ASSUME TypeOK, NEW job, NEW got \in Readings(job)
  PROVE  /\ got \in Samples /\ got.at = 0 /\ ~got.confirmed
         /\ got.target = "old" =>
              ~got.copySeen /\ worker.running /\ worker.job = job /\ worker.copy = "before"
         /\ got.copySeen => worker.running /\ worker.job = job /\ worker.copy = "moving"
<1>1. CASE got = Zero
  BY <1>1, Records
<1>2. CASE got # Zero
  <2>1. /\ worker.job = job /\ worker.running
        /\ got \in {Read(c, w) : c \in CopyInSight, w \in Waits}
    BY <1>2 DEF Readings
  <2>2. PICK c \in CopyInSight, w \in Waits : got = Read(c, w)
    BY <2>1
  <2>3. c \in BOOLEAN /\ (c => worker.copy = "moving")
    BY DEF CopyInSight
  <2>4. /\ got \in Samples /\ got.at = 0 /\ ~got.confirmed /\ got.copySeen = c
        /\ got.target = "old" => worker.copy = "before"
    BY <2>2, <2>3 DEF Read, Zero, Samples, Sizes
  <2>5. got.copySeen => worker.copy = "moving"
    BY <2>3, <2>4
  <2> QED BY <2>1, <2>4, <2>5
<1> QED BY <1>1, <1>2

LEMMA StampShape ==
  ASSUME NEW got \in Samples, NEW at \in Nat
  PROVE  /\ [got EXCEPT !.at = at] \in Samples /\ [got EXCEPT !.at = at].at = at
         /\ [got EXCEPT !.at = at].target = got.target
         /\ [got EXCEPT !.at = at].copySeen = got.copySeen
         /\ [got EXCEPT !.at = at].confirmed = got.confirmed
BY DEF Samples

LEMMA SeenShape ==
  ASSUME NEW got \in Samples, NEW seen \in BOOLEAN
  PROVE  /\ [got EXCEPT !.copySeen = seen] \in Samples
         /\ [got EXCEPT !.copySeen = seen].at = got.at
         /\ [got EXCEPT !.copySeen = seen].target = got.target
         /\ [got EXCEPT !.copySeen = seen].copySeen = seen
         /\ [got EXCEPT !.copySeen = seen].sync = got.sync
         /\ [got EXCEPT !.copySeen = seen].confirmed = got.confirmed
BY DEF Samples

\* A sample that was superseded leaves the run its last one; one that was not becomes it,
\* confirmed by the one before.
LEMMA KeptShape ==
  ASSUME NEW r \in Runs, NEW got \in Samples
  PROVE  /\ KeepLocked(r, got) \in Runs
         /\ KeepLocked(r, got).id = r.id /\ KeepLocked(r, got).job = r.job
         /\ KeepLocked(r, got).hint = r.hint
         /\ KeepLocked(r, got).copySeen = (r.copySeen \/ got.copySeen)
         /\ got.at < r.last.at =>
              KeepLocked(r, got).last = r.last /\ KeepLocked(r, got).over = r.over
         /\ ~(got.at < r.last.at) =>
              /\ KeepLocked(r, got).last.at = got.at
              /\ KeepLocked(r, got).last.sync = got.sync
              /\ KeepLocked(r, got).last.copySeen = (r.copySeen \/ got.copySeen)
              /\ KeepLocked(r, got).last.confirmed = (SyncRepOver(got) /\ r.over)
              /\ KeepLocked(r, got).over = SyncRepOver(got)
<1> DEFINE seen == r.copySeen \/ got.copySeen
           confirmed == SyncRepOver(got) /\ r.over
           kept == [got EXCEPT !.copySeen = seen, !.confirmed = confirmed]
<1>1. /\ r.copySeen \in BOOLEAN /\ got.copySeen \in BOOLEAN /\ r.over \in BOOLEAN
      /\ SyncRepOver(got) \in BOOLEAN
  BY DEF Runs, Samples, SyncRepOver
<1>2. seen \in BOOLEAN /\ confirmed \in BOOLEAN
  BY <1>1
<1>3. KeepLocked(r, got) = IF got.at < r.last.at THEN [r EXCEPT !.copySeen = seen]
        ELSE [r EXCEPT !.copySeen = seen, !.over = SyncRepOver(got), !.last = kept]
  BY DEF KeepLocked
<1> HIDE DEF seen, confirmed
<1>4. /\ kept \in Samples /\ kept.at = got.at /\ kept.sync = got.sync /\ kept.confirmed = confirmed
      /\ kept.copySeen = seen
  BY <1>2 DEF Samples
<1> HIDE DEF kept
<1>5. CASE got.at < r.last.at
  <2>1. KeepLocked(r, got) = [r EXCEPT !.copySeen = seen]
    BY <1>3, <1>5
  <2>2. KeepLocked(r, got).copySeen = seen
    BY <2>1 DEF Runs
  <2> QED BY <1>2, <1>5, <2>1, <2>2 DEF Runs, seen
<1>6. CASE ~(got.at < r.last.at)
  <2>1. KeepLocked(r, got) = [r EXCEPT !.copySeen = seen, !.over = SyncRepOver(got), !.last = kept]
    BY <1>3, <1>6
  <2>2. /\ KeepLocked(r, got).copySeen = seen /\ KeepLocked(r, got).over = SyncRepOver(got)
        /\ KeepLocked(r, got).last = kept
    BY <2>1 DEF Runs
  <2>3. KeepLocked(r, got) \in Runs
    BY <1>1, <1>2, <1>4, <2>1 DEF Runs
  <2>4. /\ KeepLocked(r, got).id = r.id /\ KeepLocked(r, got).job = r.job
        /\ KeepLocked(r, got).hint = r.hint
    BY <2>1 DEF Runs
  <2> QED BY <1>4, <1>6, <2>2, <2>3, <2>4 DEF seen, confirmed
<1> QED BY <1>5, <1>6

LEMMA PublishShape ==
  ASSUME NEW g \in GaugeRecords, NEW s \in Samples, NEW started \in BOOLEAN
  PROVE  /\ Publish(g, s, started) \in GaugeRecords
         /\ Publish(g, s, started).source \in {g.source, s.at}
         /\ Publish(g, s, started).target = g.target \/ (started /\ Publish(g, s, started).target = s.target)
<1> DEFINE source == IF s.target = "none" THEN g.source ELSE s.at
           target == IF s.target = "none" \/ ~started THEN g.target ELSE s.target
<1>1. source \in Nat /\ target \in Sizes /\ s.sync \in Waits /\ source \in {g.source, s.at}
  BY DEF GaugeRecords, Samples
<1>2. target = g.target \/ (started /\ target = s.target)
  OBVIOUS
<1>3. Publish(g, s, started) = [g EXCEPT !.source = source, !.target = target, !.sync = s.sync]
  BY DEF Publish, GaugeRecords
<1> HIDE DEF source, target
<1> QED BY <1>1, <1>2, <1>3 DEF GaugeRecords

LEMMA QuietShape ==
  ASSUME NEW g \in GaugeRecords
  PROVE  /\ [g EXCEPT !.sync = "unknown"] \in GaugeRecords
         /\ [g EXCEPT !.sync = "unknown"].source = g.source
         /\ [g EXCEPT !.sync = "unknown"].target = g.target
         /\ [g EXCEPT !.sync = "unknown"].sync = "unknown"
BY DEF GaugeRecords, Waits

\* A status that a pass makes of a sample: of the same Job, with a copy begun only if it
\* was, or the sample caught it, or a marker was judged, and CommitsBlocked raised only by
\* a confirmed wait.
LEMMA AppliedShape ==
  ASSUME NEW s \in Statuses, NEW got \in Samples, NEW judge \in BOOLEAN, NEW out \in Applied(s, got, judge)
  PROVE  /\ out \in Statuses /\ out.job = s.job
         /\ CopyStarted(out) => CopyStarted(s) \/ got.copySeen \/ judge
         /\ Finished(out) => Finished(s) \/ judge
         /\ out.blocked = "true" => s.blocked = "true" \/ got.confirmed
<1> DEFINE b == ApplyCommitsBlocked(s, got)
           caught == got.target # "none" /\ got.copySeen /\ s.clone = "running"
           c == IF caught THEN [b EXCEPT !.clone = "copying"] ELSE b
           word == CASE got.sync = "over" -> "true"
                     [] got.sync = "under" -> "false"
                     [] got.sync = "unknown" -> IF s.blocked = "true" THEN s.blocked ELSE "unknown"
<1>1. /\ b \in Statuses /\ b.job = s.job /\ b.clone = s.clone
      /\ b.blocked = "true" => s.blocked = "true" \/ got.confirmed
  <2>1. CASE got.at = 0 \/ (got.sync = "over" /\ ~got.confirmed)
    BY <2>1 DEF ApplyCommitsBlocked
  <2>2. CASE ~(got.at = 0 \/ (got.sync = "over" /\ ~got.confirmed))
    <3>1. word \in {"none", "false", "true", "unknown"}
      BY DEF Samples, Waits, Statuses
    <3>2. word = "true" => s.blocked = "true" \/ got.confirmed
      BY <2>2 DEF Samples, Waits
    <3>3. b = [s EXCEPT !.blocked = word]
      BY <2>2 DEF ApplyCommitsBlocked, Statuses
    <3> HIDE DEF b, word
    <3> QED BY <3>1, <3>2, <3>3 DEF Statuses
  <2> QED BY <2>1, <2>2
<1> HIDE DEF b
<1>2. /\ c \in Statuses /\ c.job = s.job /\ c.blocked = b.blocked
      /\ CopyStarted(c) => CopyStarted(s) \/ got.copySeen
      /\ Finished(c) => Finished(s)
  BY <1>1 DEF Statuses, CloneStates, CopyStarted, Finished
<1>3. out = c \/ (judge /\ \E x \in {"refused", "done"} : out = [c EXCEPT !.clone = x])
  BY DEF Applied, b
<1> HIDE DEF c
<1>4. CASE out = c
  BY <1>1, <1>2, <1>4
<1>5. CASE judge /\ out # c
  <2>1. PICK x \in {"refused", "done"} : out = [c EXCEPT !.clone = x]
    BY <1>3, <1>5
  <2> QED BY <1>1, <1>2, <1>5, <2>1 DEF Statuses, CloneStates
<1> QED BY <1>3, <1>4, <1>5

-----------------------------------------------------------------------------
(* What each step does, operation by operation. *)

LoopRecords == [run : 1..runs, job : 1..MaxJobs, step : {"wait", "begun", "read"}, got : Samples]

LEMMA LandShape ==
  ASSUME TypeOK, NEW got \in Samples, Land(run, got)
  PROVE  /\ run' = KeepLocked(run, got)
         /\ gauges' \in GaugeRecords /\ gauges'.source \in {gauges.source, got.at}
         /\ got.at < run.last.at => gauges' = gauges
         /\ \/ gauges'.target = gauges.target
            \/ /\ run.hint \/ run.copySeen \/ got.copySeen
               /\ ~(got.at < run.last.at) /\ gauges'.target = got.target
         /\ overs' = IF SyncRepOver(got) THEN overs \cup {<<run.id, got.at>>} ELSE overs
<1> DEFINE started == run.hint \/ run.copySeen \/ got.copySeen
<1>1. gauges \in GaugeRecords /\ run \in Runs
  BY DEF TypeOK, GaugeRecords
<1>2. started \in BOOLEAN
  BY <1>1 DEF Runs, Samples
<1>3. gauges' = IF got.at < run.last.at THEN gauges ELSE Publish(gauges, got, started)
  BY DEF Land, KeptGauges
<1> HIDE DEF started
<1>4. gauges' = gauges \/ (~(got.at < run.last.at) /\ gauges' = Publish(gauges, got, started))
  BY <1>3
<1>5. /\ gauges' \in GaugeRecords /\ gauges'.source \in {gauges.source, got.at}
      /\ got.at < run.last.at => gauges' = gauges
      /\ \/ gauges'.target = gauges.target
         \/ started /\ ~(got.at < run.last.at) /\ gauges'.target = got.target
  BY <1>1, <1>2, <1>4, PublishShape
<1> QED BY <1>5 DEF Land, started

LEMMA StopShape ==
  ASSUME TypeOK, StopLocked
  PROVE  /\ run' = NoRun /\ gauges' \in GaugeRecords
         /\ gauges'.source = gauges.source /\ gauges'.target = gauges.target
         /\ gauges'.sync = "unknown" /\ (gauges = NoSeries => gauges' = NoSeries)
<1>1. gauges \in GaugeRecords /\ gauges' = [gauges EXCEPT !.sync = "unknown"]
  BY DEF TypeOK, GaugeRecords, StopLocked
<1>2. [NoSeries EXCEPT !.sync = "unknown"] = NoSeries
  BY DEF NoSeries
<1> QED BY <1>1, <1>2, QuietShape DEF StopLocked

\* A pass that hands a sample on to the status write.
LEMMA WriteShape ==
  ASSUME TypeOK, NEW got \in Samples, NEW judge \in BOOLEAN, Write(got, judge)
  PROVE  /\ pass' \in Passes /\ pass'.step = "write" /\ pass'.observing /\ pass'.got = got
         /\ pass'.m.job = m.job
         /\ CopyStarted(pass'.m) => CopyStarted(m) \/ got.copySeen \/ judge
         /\ Finished(pass'.m) => Finished(m) \/ judge
         /\ pass'.m.blocked = "true" => m.blocked = "true" \/ got.confirmed
         /\ handed' = IF got.at = 0 THEN handed ELSE got.at
<1>1. PICK s \in Applied(m, got, judge) :
        pass' = [Idle EXCEPT !.step = "write", !.observing = TRUE, !.got = got, !.m = s]
  BY DEF Write
<1>2. m \in Statuses
  BY DEF TypeOK
<1>3. /\ s \in Statuses /\ s.job = m.job
      /\ CopyStarted(s) => CopyStarted(m) \/ got.copySeen \/ judge
      /\ Finished(s) => Finished(m) \/ judge
      /\ s.blocked = "true" => m.blocked = "true" \/ got.confirmed
  BY <1>1, <1>2, AppliedShape
<1>4. /\ pass' \in Passes /\ pass'.step = "write" /\ pass'.observing = TRUE /\ pass'.got = got
      /\ pass'.m = s
  BY <1>1, <1>3 DEF Idle, Passes, Steps
<1> QED BY <1>3, <1>4 DEF Write, HandOver

\* A pass that takes a sample: it judges a marker the worker logged, or a refusal.
TakesSample ==
  /\ pass' \in Passes /\ pass'.step = "sample" /\ pass'.got = Zero /\ pass'.m = m /\ handed' = handed
  /\ pass'.judge => worker.copy = "done" \/ Finished(m)
HandsOut ==
  /\ pass' \in Passes /\ pass'.step = "write" /\ pass'.m.job = m.job
  /\ pass'.got.at = run'.last.at
  /\ CopyStarted(pass'.m) => CopyStarted(m) \/ run'.copySeen
  /\ Finished(pass'.m) => Finished(m)
  /\ pass'.m.blocked = "true" => m.blocked = "true" \/ run'.last.confirmed
  /\ handed' = IF run'.last.at = 0 THEN handed ELSE run'.last.at

\* Observe keeps the run it has, or starts one.
SameRun ==
  /\ run.job = m.job /\ run'.id = run.id /\ run'.last = run.last
  /\ run'.copySeen = run.copySeen /\ run'.over = run.over
  /\ UNCHANGED <<loops, gauges, runs>>
NewRun ==
  /\ run.job # m.job /\ runs < MaxRuns /\ runs' = runs + 1
  /\ run'.id = runs' /\ run'.last = Zero /\ ~run'.copySeen /\ ~run'.over
  /\ loops' = loops \cup {[run |-> runs', job |-> m.job, step |-> "wait", got |-> Zero]}
  /\ gauges' \in GaugeRecords /\ gauges'.source = gauges.source /\ gauges'.target = gauges.target

LEMMA KeepShape ==
  ASSUME TypeOK, Keep(m.job, CopyStarted(m))
  PROVE  run' \in Runs /\ run'.job = m.job /\ run'.hint = CopyStarted(m) /\ (SameRun \/ NewRun)
<1>1. /\ run \in Runs /\ gauges \in GaugeRecords /\ m.job \in 0..MaxJobs /\ runs \in Nat
      /\ CopyStarted(m) \in BOOLEAN
  BY BoundsAssumption DEF TypeOK, GaugeRecords, Statuses, CopyStarted
<1>2. CASE run.job = m.job
  BY <1>1, <1>2 DEF Keep, SameRun, Runs
<1>3. CASE run.job # m.job
  <2>1. /\ run' = [NoRun EXCEPT !.id = runs', !.job = m.job, !.hint = CopyStarted(m)]
        /\ runs < MaxRuns /\ runs' = runs + 1
        /\ loops' = loops \cup {[run |-> runs', job |-> m.job, step |-> "wait", got |-> Zero]}
        /\ gauges' = gauges \/ gauges' = [gauges EXCEPT !.sync = "unknown"]
    BY <1>3 DEF Keep
  <2>2. /\ run' \in Runs /\ run'.id = runs' /\ run'.job = m.job /\ run'.hint = CopyStarted(m)
        /\ run'.last = Zero /\ ~run'.copySeen /\ ~run'.over
    <3> DEFINE hint == CopyStarted(m)
               id == runs'
               job == m.job
    <3>1. id \in Nat /\ job \in 0..MaxJobs /\ hint \in BOOLEAN
      BY <1>1, <2>1
    <3>2. run' = [NoRun EXCEPT !.id = id, !.job = job, !.hint = hint]
      BY <2>1
    <3> HIDE DEF id, job, hint
    <3>3. /\ run' \in Runs /\ run'.id = id /\ run'.job = job
          /\ run'.last = Zero /\ ~run'.copySeen /\ ~run'.over
      BY <3>1, <3>2, Records DEF Runs
    <3>4. run'.hint = hint
      BY <3>2, Records DEF Runs
    <3> QED BY <3>3, <3>4 DEF id, job, hint
  <2>3. gauges' \in GaugeRecords /\ gauges'.source = gauges.source /\ gauges'.target = gauges.target
    BY <1>1, <2>1, QuietShape
  <2> QED BY <1>3, <2>1, <2>2, <2>3 DEF NewRun
<1> QED BY <1>2, <1>3

LEMMA ObserveShape ==
  ASSUME TypeOK, Observe
  PROVE  /\ pass.step = "idle" /\ object \in {"there", "gone"}
         /\ worker.running /\ m.job = worker.job
         /\ UNCHANGED <<worker, m, object, ctx, clock, overs>>
         /\ \/ /\ ctx = "live" /\ run' \in Runs /\ run'.job = m.job /\ run'.hint = CopyStarted(m)
               /\ SameRun \/ NewRun
               /\ (TakesSample /\ pass'.judge /\ ~pass'.self) \/ HandsOut
            \/ /\ ctx # "live" /\ UNCHANGED <<run, loops, gauges, runs>>
               /\ TakesSample /\ pass'.self
<1>1. /\ pass.step = "idle" /\ object \in {"there", "gone"}
      /\ worker.running /\ m.job = worker.job
      /\ UNCHANGED <<worker, m, object, ctx, clock, overs>>
  BY DEF Observe, Cached, PassStarts
<1>2. PICK marker \in {FALSE, worker.copy = "done"} :
        \/ /\ ctx = "live" /\ Keep(m.job, CopyStarted(m))
           /\ IF Judges(marker)
              THEN /\ pass' = [Idle EXCEPT !.step = "sample", !.judge = TRUE, !.m = m]
                   /\ UNCHANGED handed
              ELSE Write([run'.last EXCEPT !.copySeen = run'.copySeen], FALSE)
        \/ /\ ctx # "live"
           /\ pass' = [Idle EXCEPT !.step = "sample", !.judge = Judges(marker), !.self = TRUE, !.m = m]
           /\ UNCHANGED <<run, loops, gauges, runs, handed>>
  BY DEF Observe
<1>3. /\ Judges(marker) \in BOOLEAN /\ m \in Statuses
      /\ Judges(marker) => worker.copy = "done" \/ Finished(m)
  BY DEF Judges, Finished, TypeOK
<1>4. CASE ctx = "live"
  <2>1. run' \in Runs /\ run'.job = m.job /\ run'.hint = CopyStarted(m) /\ (SameRun \/ NewRun)
    BY <1>2, <1>4, KeepShape
  <2>2. CASE Judges(marker)
    <3>1. pass' = [Idle EXCEPT !.step = "sample", !.judge = TRUE, !.m = m] /\ handed' = handed
      BY <1>2, <1>4, <2>2
    <3>2. TakesSample /\ pass'.judge /\ ~pass'.self
      BY <1>3, <2>2, <3>1, Records DEF TakesSample, Idle, Passes, Steps
    <3> QED BY <1>1, <1>4, <2>1, <3>2
  <2>3. CASE ~Judges(marker)
    <3> DEFINE got == [run'.last EXCEPT !.copySeen = run'.copySeen]
    <3>1. Write(got, FALSE)
      BY <1>2, <1>4, <2>3
    <3>2. /\ got \in Samples /\ got.at = run'.last.at /\ got.copySeen = run'.copySeen
          /\ got.confirmed = run'.last.confirmed
      BY <2>1, SeenShape DEF Runs
    <3> HIDE DEF got
    <3>3. HandsOut
      BY <3>1, <3>2, WriteShape DEF HandsOut
    <3> QED BY <1>1, <1>4, <2>1, <3>3
  <2> QED BY <2>2, <2>3
<1>5. CASE ctx # "live"
  <2>1. /\ pass' = [Idle EXCEPT !.step = "sample", !.judge = Judges(marker), !.self = TRUE, !.m = m]
        /\ UNCHANGED <<run, loops, gauges, runs, handed>>
    BY <1>2, <1>5
  <2>2. TakesSample /\ pass'.self
    BY <1>3, <2>1, Records DEF TakesSample, Idle, Passes, Steps
  <2> QED BY <1>1, <1>5, <2>1, <2>2
<1> QED BY <1>4, <1>5

LEMMA BeginsShape ==
  ASSUME TypeOK, SampleBegins
  PROVE  /\ pass.step = "sample" /\ clock < MaxSamples /\ clock' = clock + 1
         /\ pass' \in Passes /\ pass'.step = "begun" /\ pass'.got.at = clock'
         /\ pass'.got.target = pass.got.target /\ pass'.got.copySeen = pass.got.copySeen
         /\ pass'.got.confirmed = pass.got.confirmed
         /\ pass'.m = pass.m /\ pass'.judge = pass.judge /\ pass'.self = pass.self
         /\ pass'.observing = pass.observing
         /\ UNCHANGED <<worker, m, object, ctx, run, loops, gauges, runs, overs, handed>>
<1>1. clock \in Nat /\ pass \in Passes /\ pass.got \in Samples
  BY BoundsAssumption DEF TypeOK, Passes
<1>2. clock' \in Nat /\ pass' = [pass EXCEPT !.step = "begun", !.got.at = clock'] /\ clock' = clock + 1
  BY <1>1 DEF SampleBegins
<1>3. pass' = [pass EXCEPT !.step = "begun", !.got = [pass.got EXCEPT !.at = clock']]
  BY <1>1, <1>2 DEF Passes
<1> DEFINE got == [pass.got EXCEPT !.at = clock']
<1>4. /\ got \in Samples /\ got.at = clock' /\ got.target = pass.got.target
      /\ got.copySeen = pass.got.copySeen /\ got.confirmed = pass.got.confirmed
  BY <1>1, <1>2, StampShape
<1> HIDE DEF got
<1>5. /\ pass' \in Passes /\ pass'.step = "begun" /\ pass'.got = got /\ pass'.m = pass.m
      /\ pass'.judge = pass.judge /\ pass'.self = pass.self /\ pass'.observing = pass.observing
  BY <1>1, <1>3, <1>4 DEF got, Passes, Steps
<1> QED BY <1>2, <1>4, <1>5 DEF SampleBegins, sampler

LEMMA ReadsShape ==
  ASSUME TypeOK, SampleReads
  PROVE  /\ pass.step = "begun" /\ pass' \in Passes /\ pass'.step = "read"
         /\ pass'.got.at = pass.got.at /\ ~pass'.got.confirmed
         /\ pass'.got.target = "old" => /\ ~pass'.got.copySeen /\ worker.running
                                        /\ worker.job = m.job /\ worker.copy = "before"
         /\ pass'.got.copySeen => worker.running /\ worker.job = m.job /\ worker.copy = "moving"
         /\ pass'.m = pass.m /\ pass'.judge = pass.judge /\ pass'.self = pass.self
         /\ pass'.observing = pass.observing
         /\ UNCHANGED <<worker, m, object, ctx, run, loops, gauges, clock, runs, overs, handed>>
<1>1. PICK read \in Readings(m.job) :
        pass' = [pass EXCEPT !.step = "read", !.got = [read EXCEPT !.at = pass.got.at]]
  BY DEF SampleReads
<1> DEFINE got == [read EXCEPT !.at = pass.got.at]
<1>2. pass \in Passes /\ pass.got.at \in Nat
  BY DEF TypeOK, Passes, Samples
<1>3. /\ got \in Samples /\ got.at = pass.got.at /\ ~got.confirmed
      /\ got.target = "old" => /\ ~got.copySeen /\ worker.running
                               /\ worker.job = m.job /\ worker.copy = "before"
      /\ got.copySeen => worker.running /\ worker.job = m.job /\ worker.copy = "moving"
  BY <1>1, <1>2, ReadingShape, StampShape
<1>4. pass' = [pass EXCEPT !.step = "read", !.got = got]
  BY <1>1
<1> HIDE DEF got
<1>5. /\ pass' \in Passes /\ pass'.step = "read" /\ pass'.got = got /\ pass'.m = pass.m
      /\ pass'.judge = pass.judge /\ pass'.self = pass.self /\ pass'.observing = pass.observing
  BY <1>2, <1>3, <1>4 DEF Passes, Steps
<1> QED BY <1>3, <1>5 DEF SampleReads, sampler

\* A sample of the pass lands in the run of its Job, is only handed out where the run is
\* gone, or is published by the pass where no sampler is.
LEMMA NowShape ==
  ASSUME TypeOK, SampleNow
  PROVE  /\ pass.step = "read" /\ pass.got \in Samples
         /\ pass' \in Passes /\ pass'.step = "write" /\ pass'.observing
         /\ pass'.m.job = m.job /\ pass'.got.at = pass.got.at
         /\ Finished(pass'.m) => Finished(m) \/ pass.judge
         /\ handed' = IF pass.got.at = 0 THEN handed ELSE pass.got.at
         /\ UNCHANGED <<worker, m, object, ctx, loops, clock, runs>>
         /\ \/ /\ ~pass.self /\ run.job = m.job /\ Land(run, pass.got)
               /\ CopyStarted(pass'.m) => CopyStarted(m) \/ run'.copySeen \/ pass.judge
               /\ pass'.m.blocked = "true" =>
                    \/ m.blocked = "true" \/ pass.got.confirmed
                    \/ run'.last.at = pass.got.at /\ run'.last.confirmed
            \/ /\ (~pass.self /\ run.job # m.job /\ gauges' = gauges) \/
                  (pass.self /\ gauges' = Publish(gauges, pass.got, CopyStarted(m) \/ pass.got.copySeen))
               /\ UNCHANGED <<run, overs>>
               /\ CopyStarted(pass'.m) => CopyStarted(m) \/ pass.got.copySeen \/ pass.judge
               /\ pass'.m.blocked = "true" => m.blocked = "true" \/ pass.got.confirmed
<1> DEFINE own == [pass.got EXCEPT !.copySeen = run'.copySeen]
           handedOut == IF run'.last.at = pass.got.at THEN run'.last ELSE own
           Landing == ~pass.self /\ run.job = m.job /\ Land(run, pass.got)
           Aside ==
             /\ (~pass.self /\ run.job # m.job /\ gauges' = gauges) \/
                (pass.self /\ gauges' = Publish(gauges, pass.got, CopyStarted(m) \/ pass.got.copySeen))
             /\ UNCHANGED <<run, overs>>
<1>1. pass.got \in Samples /\ pass.judge \in BOOLEAN /\ run \in Runs
  BY DEF TypeOK, Passes
<1>2. /\ pass.step = "read" /\ UNCHANGED <<worker, m, object, ctx, loops, clock, runs>>
      /\ (Landing /\ Write(handedOut, pass.judge)) \/ (Aside /\ Write(pass.got, pass.judge))
  BY DEF SampleNow
<1>3. ASSUME NEW got \in Samples, got.at = pass.got.at, Write(got, pass.judge)
      PROVE  /\ pass' \in Passes /\ pass'.step = "write" /\ pass'.observing
             /\ pass'.m.job = m.job /\ pass'.got.at = pass.got.at
             /\ Finished(pass'.m) => Finished(m) \/ pass.judge
             /\ handed' = IF pass.got.at = 0 THEN handed ELSE pass.got.at
             /\ CopyStarted(pass'.m) => CopyStarted(m) \/ got.copySeen \/ pass.judge
             /\ pass'.m.blocked = "true" => m.blocked = "true" \/ got.confirmed
  BY <1>1, <1>3, WriteShape
<1>4. CASE Landing /\ Write(handedOut, pass.judge)
  <2>1. /\ run' \in Runs /\ run'.last \in Samples /\ run'.copySeen \in BOOLEAN
        /\ run'.last.at = pass.got.at => run'.last.copySeen = run'.copySeen
    <3>1. run' = KeepLocked(run, pass.got)
      BY <1>1, <1>4, LandShape
    <3>2. /\ run' \in Runs
          /\ run'.copySeen = (run.copySeen \/ pass.got.copySeen)
          /\ pass.got.at < run.last.at => run'.last.at = run.last.at
          /\ ~(pass.got.at < run.last.at) =>
               run'.last.copySeen = (run.copySeen \/ pass.got.copySeen)
      BY <1>1, <3>1, KeptShape
    <3>3. pass.got.at \in Nat /\ run.last.at \in Nat
      BY <1>1 DEF Samples, Runs
    <3> QED BY <3>2, <3>3 DEF Runs
  <2>2. /\ own \in Samples /\ own.at = pass.got.at /\ own.copySeen = run'.copySeen
        /\ own.confirmed = pass.got.confirmed
    BY <1>1, <2>1, SeenShape
  <2> HIDE DEF own
  <2>3. /\ handedOut \in Samples /\ handedOut.at = pass.got.at
        /\ handedOut.copySeen = run'.copySeen
    BY <2>1, <2>2
  <2>4. handedOut.confirmed =>
          pass.got.confirmed \/ (run'.last.at = pass.got.at /\ run'.last.confirmed)
    BY <2>2
  <2> HIDE DEF handedOut, Landing, Aside
  <2>5. /\ pass' \in Passes /\ pass'.step = "write" /\ pass'.observing
        /\ pass'.m.job = m.job /\ pass'.got.at = pass.got.at
        /\ Finished(pass'.m) => Finished(m) \/ pass.judge
        /\ handed' = IF pass.got.at = 0 THEN handed ELSE pass.got.at
        /\ CopyStarted(pass'.m) => CopyStarted(m) \/ run'.copySeen \/ pass.judge
        /\ pass'.m.blocked = "true" => m.blocked = "true" \/ handedOut.confirmed
    BY <1>3, <1>4, <2>3
  <2>6. pass'.m.blocked = "true" =>
          \/ m.blocked = "true" \/ pass.got.confirmed
          \/ run'.last.at = pass.got.at /\ run'.last.confirmed
    BY <2>4, <2>5
  <2>7. ~pass.self /\ run.job = m.job /\ Land(run, pass.got)
    BY <1>4 DEF Landing
  <2> QED BY <1>1, <1>2, <2>5, <2>6, <2>7
<1>5. CASE Aside /\ Write(pass.got, pass.judge)
  <2> HIDE DEF Landing
  <2>1. /\ pass' \in Passes /\ pass'.step = "write" /\ pass'.observing
        /\ pass'.m.job = m.job /\ pass'.got.at = pass.got.at
        /\ Finished(pass'.m) => Finished(m) \/ pass.judge
        /\ handed' = IF pass.got.at = 0 THEN handed ELSE pass.got.at
        /\ CopyStarted(pass'.m) => CopyStarted(m) \/ pass.got.copySeen \/ pass.judge
        /\ pass'.m.blocked = "true" => m.blocked = "true" \/ pass.got.confirmed
    BY <1>1, <1>3, <1>5
  <2>2. Aside
    BY <1>5
  <2> QED BY <1>1, <1>2, <2>1, <2>2
<1> QED BY <1>2, <1>4, <1>5

\* A pass that judges an exit, or starts the next attempt as a Job of its own.
LEMMA EndedShape ==
  ASSUME TypeOK, WorkerEnded
  PROVE  /\ pass.step = "idle" /\ object \in {"there", "gone"} /\ ~worker.running
         /\ pass' \in Passes /\ pass'.step = "write" /\ ~pass'.observing /\ ~pass'.judge /\ ~pass'.self
         /\ pass'.got = Zero /\ (pass'.m.blocked = "true" => m.blocked = "true")
         /\ \/ worker' = worker /\ pass'.m.job = m.job /\ pass'.m.clone = m.clone
            \/ /\ worker.job = m.job /\ m.job < MaxJobs
               /\ worker' \in [job : 0..MaxJobs, running : BOOLEAN, ok : BOOLEAN,
                               copy : {"before", "moving", "done"}]
               /\ worker'.job = worker.job + 1 /\ worker'.running /\ worker'.copy = worker.copy
               /\ pass'.m.job = worker'.job
               /\ pass'.m.clone = IF m.clone = "done" THEN "done" ELSE "running"
         /\ UNCHANGED <<m, object, ctx, run, loops, gauges, runs, overs, clock, handed>>
<1>0. m \in Statuses /\ m.job \in Nat
  BY DEF TypeOK, Statuses
<1>1. ASSUME NEW s \in Statuses, pass' = [Idle EXCEPT !.step = "write", !.m = s]
      PROVE  /\ pass' \in Passes /\ pass'.step = "write" /\ ~pass'.observing /\ ~pass'.judge
             /\ ~pass'.self /\ pass'.got = Zero /\ pass'.m = s
  BY <1>1, Records DEF Passes, Steps
<1> DEFINE same == IF worker.ok /\ m.blocked # "none" THEN [m EXCEPT !.blocked = "false"] ELSE m
           word == IF m.clone = "done" THEN "done" ELSE "running"
           next == NextAttempt(m)
<1>2. same \in Statuses /\ same.job = m.job /\ same.clone = m.clone
      /\ (same.blocked = "true" => m.blocked = "true")
  BY <1>0 DEF Statuses
<1>3. m.job < MaxJobs => next \in Statuses /\ next.job = m.job + 1 /\ next.clone = word
                         /\ next.blocked = m.blocked
  <2> SUFFICES ASSUME m.job < MaxJobs
               PROVE  next \in Statuses /\ next.job = m.job + 1 /\ next.clone = word
                      /\ next.blocked = m.blocked
    OBVIOUS
  <2>1. m.job + 1 \in 0..MaxJobs
    BY <1>0, BoundsAssumption
  <2>2. next = [m EXCEPT !.job = m.job + 1, !.clone = word]
    BY <1>0 DEF Statuses, NextAttempt
  <2>3. word \in {"done", "running"}
    OBVIOUS
  <2> HIDE DEF next, word
  <2> QED BY <1>0, <2>1, <2>2, <2>3 DEF Statuses, CloneStates
<1>4. /\ pass.step = "idle" /\ object \in {"there", "gone"} /\ ~worker.running
      /\ UNCHANGED <<m, object, ctx, run, loops, gauges, runs, overs, clock, handed>>
      /\ \/ pass' = [Idle EXCEPT !.step = "write", !.m = same] /\ worker' = worker
         \/ /\ worker.job = m.job /\ m.job < MaxJobs
            /\ pass' = [Idle EXCEPT !.step = "write", !.m = next]
            /\ worker' = [worker EXCEPT !.job = @ + 1, !.running = TRUE]
  BY DEF WorkerEnded, Cached, PassStarts, sampler
<1> HIDE DEF same, next
<1>5. CASE pass' = [Idle EXCEPT !.step = "write", !.m = same] /\ worker' = worker
  <2>1. /\ pass' \in Passes /\ pass'.step = "write" /\ ~pass'.observing /\ ~pass'.judge
        /\ ~pass'.self /\ pass'.got = Zero /\ pass'.m = same
    BY <1>1, <1>2, <1>5
  <2> QED BY <1>2, <1>4, <1>5, <2>1
<1>6. CASE /\ worker.job = m.job /\ m.job < MaxJobs
           /\ pass' = [Idle EXCEPT !.step = "write", !.m = next]
           /\ worker' = [worker EXCEPT !.job = @ + 1, !.running = TRUE]
  <2>1. /\ worker' \in [job : 0..MaxJobs, running : BOOLEAN, ok : BOOLEAN,
                        copy : {"before", "moving", "done"}]
        /\ worker'.job = worker.job + 1 /\ worker'.running /\ worker'.copy = worker.copy
    <3> DEFINE W == [job : 0..MaxJobs, running : BOOLEAN, ok : BOOLEAN,
                     copy : {"before", "moving", "done"}]
    <3>0. worker \in W
      BY DEF TypeOK
    <3>1. worker.job + 1 \in 0..MaxJobs
      BY <1>0, <1>6, BoundsAssumption
    <3>2. worker' = [worker EXCEPT !.job = worker.job + 1, !.running = TRUE]
      BY <1>6, <3>0
    <3>3. ASSUME NEW w \in W, NEW j \in 0..MaxJobs
          PROVE  /\ [w EXCEPT !.job = j, !.running = TRUE] \in W
                 /\ [w EXCEPT !.job = j, !.running = TRUE].job = j
                 /\ [w EXCEPT !.job = j, !.running = TRUE].running
                 /\ [w EXCEPT !.job = j, !.running = TRUE].copy = w.copy
      OBVIOUS
    <3> HIDE DEF W
    <3>4. /\ worker' \in W /\ worker'.job = worker.job + 1 /\ worker'.running
          /\ worker'.copy = worker.copy
      BY <3>0, <3>1, <3>2, <3>3
    <3> QED BY <3>4 DEF W
  <2>2. next \in Statuses /\ next.job = m.job + 1 /\ next.clone = word /\ next.blocked = m.blocked
    BY <1>3, <1>6
  <2>3. /\ pass' \in Passes /\ pass'.step = "write" /\ ~pass'.observing /\ ~pass'.judge
        /\ ~pass'.self /\ pass'.got = Zero /\ pass'.m = next
    BY <1>1, <1>6, <2>2
  <2> QED BY <1>4, <1>6, <2>1, <2>2, <2>3
<1> QED BY <1>4, <1>5, <1>6

LEMMA StatusShape ==
  ASSUME TypeOK, UpdateStatus
  PROVE  /\ pass.step = "write" /\ pass' \in Passes /\ pass'.step \in {"idle", "stop"}
         /\ pass'.step = "idle" => pass'.observing
         /\ pass'.got = Zero /\ pass'.m = NewMigration
         /\ m' = IF object = "there" THEN pass.m ELSE m
         /\ m' \in Statuses
         /\ gauges' \in GaugeRecords /\ gauges'.source = gauges.source /\ gauges'.target = gauges.target
         /\ UNCHANGED <<worker, object, ctx, run, loops, clock, runs, overs, handed>>
<1>1. pass' \in Passes /\ pass'.step \in {"idle", "stop"} /\ (pass'.step = "idle" => pass'.observing)
      /\ pass'.got = Zero /\ pass'.m = NewMigration
  BY Records DEF UpdateStatus, Passes, Steps
<1>2. m' = (IF object = "there" THEN pass.m ELSE m) /\ m' \in Statuses
  BY DEF UpdateStatus, TypeOK, Passes
<1>3. gauges' \in GaugeRecords /\ gauges'.source = gauges.source /\ gauges'.target = gauges.target
  BY DEF UpdateStatus, TypeOK, GaugeRecords
<1> QED BY <1>1, <1>2, <1>3 DEF UpdateStatus

LEMMA TeardownShape ==
  ASSUME TypeOK, NotFound \/ Forget \/ Stop
  PROVE  /\ \/ pass.step = "idle" /\ object = "unseen" /\ object' = "handled" /\ pass'.step = "forget"
               /\ StopLocked
            \/ pass.step = "forget" /\ object' = object /\ pass'.step = "stop"
               /\ gauges' = NoSeries /\ run' = run
            \/ pass.step = "stop" /\ object' = object /\ pass' = Idle /\ StopLocked
         /\ pass' \in Passes /\ pass'.got = Zero /\ pass'.m = NewMigration
         /\ run' \in {run, NoRun} /\ gauges' \in GaugeRecords
         /\ gauges'.target \in {gauges.target, "none"}
         /\ gauges'.source = gauges.source \/ gauges' = NoSeries
         /\ UNCHANGED <<worker, m, ctx, loops, clock, runs, overs, handed>>
<1>1. CASE NotFound
  BY <1>1, Records, StopShape DEF NotFound, PassStarts, Passes, Steps
<1>2. CASE Forget
  BY <1>2, Records DEF Forget, Passes, Steps
<1>3. CASE Stop
  BY <1>3, Records, StopShape DEF Stop
<1> QED BY <1>1, <1>2, <1>3

LEMMA StartShape ==
  ASSUME TypeOK, Start
  PROVE  /\ ctx' \in {"live", "ended"} /\ run' \in {run, NoRun}
         /\ ctx' = "live" => ctx = "new" /\ run' = run
         /\ ctx' = "ended" => run' = NoRun
         /\ gauges' \in GaugeRecords /\ gauges'.source = gauges.source /\ gauges'.target = gauges.target
         /\ run = NoRun => gauges' = gauges
         /\ UNCHANGED <<worker, m, object, pass, loops, clock, runs, overs, handed>>
<1>1. gauges \in GaugeRecords
  BY DEF TypeOK, GaugeRecords
<1> QED BY <1>1, StopShape DEF Start

\* The worker and its copy move, or the Migration is deleted: nothing the sampler keeps.
LEMMA WorldShape ==
  ASSUME TypeOK, CopyMoves \/ WorkerEnds \/ Deleted
  PROVE  /\ worker' \in [job : 0..MaxJobs, running : BOOLEAN, ok : BOOLEAN,
                         copy : {"before", "moving", "done"}]
         /\ worker'.job = worker.job /\ (worker'.running => worker.running)
         /\ worker'.running /\ worker'.copy # worker.copy => worker'.copy \in {"moving", "done"}
         /\ worker.copy = "done" => worker'.copy = "done"
         /\ object # "handled" /\ object' \in {object, "gone", "unseen"}
         /\ UNCHANGED <<m, pass, ctx, run, loops, gauges, runs, overs, clock, handed>>
<1>1. CASE CopyMoves
  BY <1>1 DEF CopyMoves, TypeOK, sampler
<1>2. CASE WorkerEnds
  BY <1>2 DEF WorkerEnds, TypeOK, sampler
<1>3. CASE Deleted
  BY <1>3 DEF Deleted, TypeOK, sampler
<1> QED BY <1>1, <1>2, <1>3

\* The goroutine of the run that the sampler keeps, while it has a sample in flight.
Live(l) == l.run = run.id
Flying(l) == Live(l) /\ l.step # "wait"

\* What the goroutine l becomes when it goes on.
Becomes(l, n) == n.run = l.run /\ n.job = l.job /\ n \in LoopRecords /\ loops' = (loops \ {l}) \cup {n}

LEMMA LoopShape ==
  ASSUME TypeOK, NEW l \in loops, LoopBegins(l) \/ LoopReads(l) \/ LoopLands(l) \/ LoopEnds(l)
  PROVE  /\ l \in LoopRecords /\ UNCHANGED <<worker, m, object, pass, ctx, runs, handed>>
         /\ \/ /\ clock < MaxSamples /\ clock' = clock + 1 /\ UNCHANGED <<run, gauges, overs>>
               /\ \E n : /\ Becomes(l, n) /\ n.step = "begun" /\ n.got.at = clock'
                         /\ n.got.target = "none" /\ ~n.got.copySeen
            \/ /\ l.step = "begun" /\ UNCHANGED <<run, gauges, overs, clock>>
               /\ \E n : /\ Becomes(l, n) /\ n.step = "read" /\ n.got.at = l.got.at
                         /\ n.got.target = "old" => /\ ~n.got.copySeen /\ worker.running
                                                    /\ worker.job = l.job /\ worker.copy = "before"
                         /\ n.got.copySeen =>
                              worker.running /\ worker.job = l.job /\ worker.copy = "moving"
            \/ /\ l.step = "read" /\ Live(l) /\ Land(run, l.got) /\ clock' = clock
               /\ \E n : Becomes(l, n) /\ n.step = "wait" /\ n.got = Zero
            \/ ~Live(l) /\ loops' = loops \ {l} /\ UNCHANGED <<run, gauges, overs, clock>>
<1>1. l \in LoopRecords /\ l.got \in Samples /\ l.got.at \in Nat /\ clock \in Nat
  BY BoundsAssumption DEF TypeOK, LoopRecords, Samples
<1>2. CASE LoopBegins(l)
  <2> DEFINE got == [Zero EXCEPT !.at = clock']
             n == [l EXCEPT !.step = "begun", !.got = got]
  <2>1. /\ got \in Samples /\ got.at = clock' /\ got.target = "none" /\ ~got.copySeen
        /\ clock < MaxSamples /\ clock' = clock + 1
        /\ loops' = (loops \ {l}) \cup {n}
    BY <1>1, <1>2, Records, StampShape DEF LoopBegins, Step
  <2> HIDE DEF got
  <2>2. /\ n \in LoopRecords /\ n.run = l.run /\ n.job = l.job /\ n.step = "begun" /\ n.got = got
    BY <1>1, <2>1 DEF LoopRecords
  <2> HIDE DEF n
  <2> QED BY <1>1, <1>2, <2>1, <2>2 DEF Becomes, LoopBegins
<1>3. CASE LoopReads(l)
  <2>1. PICK read \in (IF Canceled(l) THEN {Zero} ELSE Readings(l.job)) :
          Step(l, [l EXCEPT !.step = "read", !.got = [read EXCEPT !.at = l.got.at]])
    BY <1>3 DEF LoopReads
  <2> DEFINE got == [read EXCEPT !.at = l.got.at]
             n == [l EXCEPT !.step = "read", !.got = got]
  <2>2. read \in Readings(l.job)
    BY <2>1 DEF Readings
  <2>3. /\ got \in Samples /\ got.at = l.got.at
        /\ got.target = "old" => /\ ~got.copySeen /\ worker.running
                                 /\ worker.job = l.job /\ worker.copy = "before"
        /\ got.copySeen => worker.running /\ worker.job = l.job /\ worker.copy = "moving"
    BY <1>1, <2>2, ReadingShape, StampShape
  <2>4. loops' = (loops \ {l}) \cup {n}
    BY <2>1 DEF Step
  <2> HIDE DEF got
  <2>5. /\ n \in LoopRecords /\ n.run = l.run /\ n.job = l.job /\ n.step = "read" /\ n.got = got
    BY <1>1, <2>3 DEF LoopRecords
  <2> HIDE DEF n
  <2>6. l.step = "begun" /\ UNCHANGED <<worker, m, object, pass, ctx, run, gauges, clock, runs, overs, handed>>
    BY <1>3 DEF LoopReads
  <2> QED BY <1>1, <2>3, <2>4, <2>5, <2>6 DEF Becomes
<1>4. CASE LoopLands(l) /\ Live(l)
  <2> DEFINE n == [l EXCEPT !.step = "wait", !.got = Zero]
  <2>1. /\ l.step = "read" /\ Land(run, l.got) /\ loops' = (loops \ {l}) \cup {n}
        /\ UNCHANGED <<worker, m, object, pass, ctx, clock, runs, handed>>
    BY <1>4 DEF LoopLands, Canceled, Live, Step
  <2>2. /\ n \in LoopRecords /\ n.run = l.run /\ n.job = l.job /\ n.step = "wait" /\ n.got = Zero
    BY <1>1, Records DEF LoopRecords
  <2> HIDE DEF n
  <2> QED BY <1>1, <1>4, <2>1, <2>2 DEF Becomes
<1>5. CASE LoopEnds(l) \/ (LoopLands(l) /\ ~Live(l))
  BY <1>1, <1>5 DEF LoopEnds, LoopLands, Canceled, Live
<1> QED BY <1>2, <1>3, <1>4, <1>5

\* The steps, one at a time.
LEMMA NextCases ==
  ASSUME [Next]_vars
  PROVE  \/ Observe \/ SampleBegins \/ SampleReads \/ SampleNow \/ WorkerEnded \/ UpdateStatus
         \/ NotFound \/ Forget \/ Stop \/ Start \/ CopyMoves \/ WorkerEnds \/ Deleted
         \/ \E l \in loops : LoopBegins(l) \/ LoopReads(l) \/ LoopLands(l) \/ LoopEnds(l)
         \/ UNCHANGED vars
BY DEF Next, Loop

-----------------------------------------------------------------------------
(* Type correctness.  A sample over the threshold is noted under the run that kept it  *)
(* and the time it began, so that it takes the bounds of both, and what a pass that is *)
(* sampling knows of the run.                                                          *)

\* A pass that takes a sample of its own, and the steps at which it has begun one.
Sampling == pass.step \in {"sample", "begun", "read"}
Holding == pass.step \in {"begun", "read"}

BoundsInv ==
  /\ worker.running => worker.job >= 1
  /\ m.job <= worker.job /\ pass.m.job <= worker.job /\ run.job <= worker.job
  /\ \A l \in loops : l.job <= worker.job
  /\ run.id <= runs /\ run.last.at <= clock /\ pass.got.at <= clock
  /\ \A l \in loops : l.got.at <= clock /\ (l.step # "wait" => l.got.at >= 1)
  /\ Holding => pass.got.at >= 1

RunInv ==
  /\ run.id = 0 \/ run.job = 0 \/ ctx # "live" => run = NoRun
  /\ \A l1, l2 \in loops : l1.run = l2.run => l1 = l2
  /\ \A l \in loops : Live(l) => l.job = run.job
  /\ Sampling => /\ m.job >= 1 /\ pass.m = m
                 /\ run = NoRun \/ (~pass.self /\ run.job = m.job)
                 /\ ~pass.self => pass.judge
  /\ object = "handled" => run = NoRun /\ pass.step \in {"forget", "stop", "idle"}

WorldOK ==
  /\ worker \in [job : 0..MaxJobs, running : BOOLEAN, ok : BOOLEAN, copy : {"before", "moving", "done"}]
  /\ m \in Statuses /\ object \in {"there", "gone", "unseen", "handled"} /\ pass \in Passes
  /\ ctx \in {"new", "live", "ended"}
SamplerOK == run \in Runs /\ loops \subseteq LoopRecords /\ gauges \in GaugeRecords /\ runs \in 0..MaxRuns
CountOK == clock \in 0..MaxSamples /\ handed \in 0..clock /\ overs \subseteq (1..runs) \X (1..clock)

LEMMA TypeParts == TypeOK <=> WorldOK /\ SamplerOK /\ CountOK
BY DEF TypeOK, WorldOK, SamplerOK, CountOK, LoopRecords, GaugeRecords

LEMMA Numbers ==
  ASSUME TypeOK
  PROVE  /\ clock \in Nat /\ runs \in Nat /\ handed \in Nat /\ run.id \in Nat /\ run.job \in Nat
         /\ run.last.at \in Nat /\ pass.got.at \in Nat /\ m.job \in Nat /\ pass.m.job \in Nat
         /\ worker.job \in Nat /\ gauges.source \in Nat
         /\ run \in Runs /\ pass \in Passes /\ pass.got \in Samples /\ gauges \in GaugeRecords
         /\ \A l \in loops : /\ l \in LoopRecords /\ l.run \in Nat /\ l.run >= 1 /\ l.run <= runs
                             /\ l.job \in Nat /\ l.job >= 1 /\ l.got.at \in Nat
BY BoundsAssumption DEF TypeOK, Runs, Samples, Passes, Statuses, LoopRecords, GaugeRecords

\* A sample that lands is noted of a run and a time that there are.
LEMMA LandType ==
  ASSUME TypeOK, BoundsInv, NEW got \in Samples, Land(run, got),
         got.at >= 1, got.at <= clock, run.id >= 1, clock' = clock, runs' = runs
  PROVE  /\ run' \in Runs /\ gauges' \in GaugeRecords
         /\ overs' \subseteq (1..runs') \X (1..clock')
<1>1. <<run.id, got.at>> \in (1..runs) \X (1..clock)
  BY Numbers DEF BoundsInv, Samples
<1>2. overs \subseteq (1..runs) \X (1..clock)
  BY DEF TypeOK
<1>3. overs' = overs \/ overs' = overs \cup {<<run.id, got.at>>}
  BY LandShape
<1>4. overs' \subseteq (1..runs) \X (1..clock)
  BY <1>1, <1>2, <1>3
<1> QED BY <1>4, Numbers, LandShape, KeptShape

LEMMA TypeStep == ASSUME TypeOK, BoundsInv, RunInv, [Next]_vars PROVE TypeOK'
<1>0. WorldOK /\ SamplerOK /\ CountOK
  BY TypeParts
<1> USE DEF WorldOK, SamplerOK, CountOK
<1>t. ASSUME WorldOK', SamplerOK', CountOK' PROVE TypeOK'
  BY <1>t DEF TypeOK, LoopRecords, GaugeRecords
<1>1. CASE Observe
  <2>1. WorldOK'
    BY <1>0, <1>1, ObserveShape DEF TakesSample, HandsOut
  <2>2. SamplerOK'
    <3>1. CASE UNCHANGED <<run, loops, gauges, runs>>
      BY <1>0, <3>1 DEF LoopRecords
    <3>2. CASE run' \in Runs /\ run'.job = m.job /\ SameRun
      BY <1>0, <3>2 DEF SameRun, LoopRecords
    <3>3. CASE run' \in Runs /\ NewRun
      <4> DEFINE l == [run |-> runs', job |-> m.job, step |-> "wait", got |-> Zero]
      <4>1. m.job \in 1..MaxJobs /\ runs' \in 0..MaxRuns /\ runs' \in 1..runs' /\ runs \in Nat
            /\ runs' = runs + 1
        BY <1>0, <1>1, <3>3, Numbers, ObserveShape, BoundsAssumption DEF BoundsInv, NewRun, Statuses
      <4>2. l \in LoopRecords'
        BY <4>1, Records DEF LoopRecords
      <4>3. LoopRecords \subseteq LoopRecords'
        BY <4>1 DEF LoopRecords
      <4> HIDE DEF l
      <4> QED BY <1>0, <3>3, <4>1, <4>2, <4>3 DEF NewRun, l
    <3> QED BY <1>1, <3>1, <3>2, <3>3, ObserveShape
  <2>3. CountOK'
    <3>1. clock' = clock /\ overs' = overs /\ runs' \in Nat /\ runs' >= runs
      BY <1>1, Numbers, ObserveShape DEF SameRun, NewRun
    <3>2. handed' \in 0..clock
      <4>1. CASE handed' = handed
        BY <1>0, <4>1
      <4>2. CASE handed' = run'.last.at
        BY <1>1, <4>2, Numbers, Records, ObserveShape DEF SameRun, NewRun, BoundsInv
      <4> QED BY <1>1, <4>1, <4>2, ObserveShape DEF TakesSample, HandsOut
    <3>3. (1..runs) \X (1..clock) \subseteq (1..runs') \X (1..clock)
      BY <3>1, Numbers
    <3> QED BY <1>0, <3>1, <3>2, <3>3
  <2> QED BY <2>1, <2>2, <2>3, <1>t
<1>2. CASE SampleBegins
  <2>1. WorldOK' /\ SamplerOK'
    BY <1>0, <1>2, BeginsShape DEF LoopRecords
  <2>2. clock' \in 0..MaxSamples /\ handed' \in 0..clock' /\ overs' = overs /\ runs' = runs
        /\ clock' = clock + 1
    BY <1>0, <1>2, BeginsShape, BoundsAssumption
  <2>3. (1..runs) \X (1..clock) \subseteq (1..runs) \X (1..clock')
    BY <2>2, Numbers
  <2>4. CountOK'
    BY <1>0, <2>2, <2>3
  <2> QED BY <2>1, <2>4, <1>t
<1>3. CASE SampleReads
  BY <1>0, <1>3, <1>t, ReadsShape DEF LoopRecords
<1>4. CASE SampleNow
  <2>1. WorldOK' /\ clock' = clock /\ runs' = runs /\ loops' = loops
    BY <1>0, <1>4, NowShape
  <2>2. handed' \in 0..clock
    BY <1>0, <1>4, Numbers, NowShape DEF BoundsInv
  <2>3. run' \in Runs /\ gauges' \in GaugeRecords /\ overs' \subseteq (1..runs') \X (1..clock')
    <3>1. CASE run.job = m.job /\ Land(run, pass.got)
      <4>1. /\ pass.got \in Samples /\ pass.got.at >= 1 /\ pass.got.at <= clock /\ m.job >= 1
        BY <1>4, NowShape DEF BoundsInv, RunInv, Holding, Sampling
      <4>2. run.id >= 1
        BY <3>1, <4>1, Numbers, Records DEF RunInv
      <4> QED BY <2>1, <3>1, <4>1, <4>2, LandType
    <3>2. CASE gauges' = gauges /\ UNCHANGED <<run, overs>>
      BY <1>0, <2>1, <3>2
    <3>3. CASE /\ gauges' = Publish(gauges, pass.got, CopyStarted(m) \/ pass.got.copySeen)
               /\ UNCHANGED <<run, overs>>
      <4>1. (CopyStarted(m) \/ pass.got.copySeen) \in BOOLEAN
        BY Numbers DEF CopyStarted, Samples
      <4> QED BY <1>0, <2>1, <3>3, <4>1, Numbers, PublishShape
    <3> QED BY <1>4, <3>1, <3>2, <3>3, NowShape
  <2> QED BY <1>0, <2>1, <2>2, <2>3, <1>t DEF LoopRecords
<1>5. CASE WorkerEnded
  BY <1>0, <1>5, <1>t, EndedShape DEF LoopRecords
<1>6. CASE UpdateStatus
  BY <1>0, <1>6, <1>t, StatusShape DEF LoopRecords
<1>7. CASE NotFound \/ Forget \/ Stop
  BY <1>0, <1>7, <1>t, TeardownShape, Records DEF LoopRecords
<1>8. CASE Start
  BY <1>0, <1>8, <1>t, StartShape, Records DEF LoopRecords
<1>9. CASE CopyMoves \/ WorkerEnds \/ Deleted
  BY <1>0, <1>9, <1>t, WorldShape DEF LoopRecords
<1>10. ASSUME NEW l \in loops, LoopBegins(l) \/ LoopReads(l) \/ LoopLands(l) \/ LoopEnds(l)
       PROVE  TypeOK'
  <2>1. WorldOK' /\ runs' = runs /\ handed' = handed
    BY <1>0, <1>10, LoopShape
  <2>2. loops' \subseteq LoopRecords
    BY <1>0, <1>10, LoopShape DEF Becomes
  <2>3. CASE clock < MaxSamples /\ clock' = clock + 1 /\ UNCHANGED <<run, gauges, overs>>
    <3>1. (1..runs) \X (1..clock) \subseteq (1..runs) \X (1..clock')
      BY <2>3, Numbers
    <3>2. clock' \in 0..MaxSamples /\ handed \in 0..clock'
      BY <1>0, <2>3, BoundsAssumption
    <3> QED BY <1>0, <2>1, <2>2, <2>3, <3>1, <3>2, <1>t DEF LoopRecords
  <2>4. CASE UNCHANGED <<run, gauges, overs, clock>>
    BY <1>0, <2>1, <2>2, <2>4, <1>t DEF LoopRecords
  <2>5. CASE l.step = "read" /\ Live(l) /\ Land(run, l.got) /\ clock' = clock
    <3>1. l.got \in Samples /\ l.got.at >= 1 /\ l.got.at <= clock /\ run.id >= 1
      BY <2>5, Numbers DEF BoundsInv, LoopRecords, Live
    <3>2. run' \in Runs /\ gauges' \in GaugeRecords /\ overs' \subseteq (1..runs') \X (1..clock')
      BY <2>1, <2>5, <3>1, LandType
    <3> QED BY <1>0, <2>1, <2>2, <2>5, <3>2, <1>t DEF LoopRecords
  <2> QED BY <1>10, <2>3, <2>4, <2>5, LoopShape
<1>11. CASE UNCHANGED vars
  BY <1>0, <1>11, <1>t DEF vars, LoopRecords
<1> QED BY <1>1, <1>2, <1>3, <1>4, <1>5, <1>6, <1>7, <1>8, <1>9, <1>10, <1>11, NextCases

\* The run that a sample lands in stays the same run, and its last sample the newest of it.
LEMMA LandedRun ==
  ASSUME TypeOK, NEW got \in Samples, Land(run, got)
  PROVE  /\ run' \in Runs /\ run'.id = run.id /\ run'.job = run.job /\ run'.hint = run.hint
         /\ run'.last.at = (IF got.at < run.last.at THEN run.last.at ELSE got.at)
         /\ run'.last.at \in {run.last.at, got.at}
         /\ run'.last.at >= run.last.at /\ run'.last.at >= got.at
         /\ run'.copySeen = (run.copySeen \/ got.copySeen)
<1>1. run \in Runs /\ run.last.at \in Nat /\ got.at \in Nat /\ run' = KeepLocked(run, got)
  BY LandShape, Numbers DEF Samples
<1>2. /\ run' \in Runs /\ run'.id = run.id /\ run'.job = run.job /\ run'.hint = run.hint
      /\ run'.copySeen = (run.copySeen \/ got.copySeen)
      /\ got.at < run.last.at => run'.last.at = run.last.at
      /\ ~(got.at < run.last.at) => run'.last.at = got.at
  BY <1>1, KeptShape
<1> QED BY <1>1, <1>2

LEMMA BoundsStep == ASSUME TypeOK, BoundsInv, RunInv, [Next]_vars PROVE BoundsInv'
<1> USE Numbers, Records DEF BoundsInv, Holding
<1>1. CASE Observe
  <2>1. /\ worker' = worker /\ clock' = clock /\ m' = m
        /\ pass'.m.job = m.job /\ pass'.step \notin {"begun", "read"}
    BY <1>1, ObserveShape DEF TakesSample, HandsOut
  <2>2. CASE UNCHANGED <<run, loops, gauges, runs>>
    BY <1>1, <2>1, <2>2, ObserveShape DEF TakesSample, HandsOut
  <2>3. CASE run' \in Runs /\ run'.job = m.job /\ SameRun
    BY <1>1, <2>1, <2>3, ObserveShape DEF TakesSample, HandsOut, SameRun
  <2>4. CASE run' \in Runs /\ run'.job = m.job /\ NewRun
    BY <1>1, <2>1, <2>4, ObserveShape DEF TakesSample, HandsOut, NewRun
  <2> QED BY <1>1, <2>2, <2>3, <2>4, ObserveShape
<1>2. CASE SampleBegins
  BY <1>2, BeginsShape
<1>3. CASE SampleReads
  BY <1>3, ReadsShape
<1>4. CASE SampleNow
  <2>1. run'.id = run.id /\ run'.job = run.job /\ run'.last.at <= clock
    <3>1. CASE Land(run, pass.got) /\ pass.got \in Samples
      BY <3>1, LandShape, KeptShape
    <3> QED BY <1>4, <3>1, NowShape
  <2> QED BY <1>4, <2>1, NowShape
<1>5. CASE WorkerEnded
  BY <1>5, EndedShape
<1>6. CASE UpdateStatus
  BY <1>6, StatusShape
<1>7. CASE NotFound \/ Forget \/ Stop
  BY <1>7, TeardownShape
<1>8. CASE Start
  BY <1>8, StartShape
<1>9. CASE CopyMoves \/ WorkerEnds \/ Deleted
  BY <1>9, WorldShape
<1>10. ASSUME NEW l \in loops, LoopBegins(l) \/ LoopReads(l) \/ LoopLands(l) \/ LoopEnds(l)
       PROVE  BoundsInv'
  <2>1. UNCHANGED <<worker, m, pass, runs>> /\ clock' \in {clock, clock + 1}
    BY <1>10, LoopShape
  <2>2. run'.id = run.id /\ run'.job = run.job /\ run'.last.at <= clock /\ run'.last.at \in Nat
    <3>1. CASE Land(run, l.got)
      <4>1. l.got \in Samples /\ l.got.at <= clock
        BY DEF LoopRecords
      <4> QED BY <3>1, <4>1, LandedRun
    <3> QED BY <1>10, <3>1, LoopShape
  <2>3. \A x \in loops' : /\ x.job <= worker.job /\ x.got.at <= clock'
                          /\ x.step # "wait" => x.got.at >= 1
    BY <1>10, <2>1, LoopShape DEF Becomes
  <2>4. run'.last.at <= clock' /\ pass.got.at <= clock'
    BY <2>1, <2>2
  <2> QED BY <2>1, <2>2, <2>3, <2>4
<1>11. CASE UNCHANGED vars
  BY <1>11 DEF vars
<1> QED BY <1>1, <1>2, <1>3, <1>4, <1>5, <1>6, <1>7, <1>8, <1>9, <1>10, <1>11, NextCases

LEMMA RunStep == ASSUME TypeOK, BoundsInv, RunInv, [Next]_vars PROVE RunInv'
<1> USE Numbers, Records DEF RunInv, Sampling, Live
<1>1. CASE Observe
  <2>1. /\ UNCHANGED <<m, object, ctx>> /\ object # "handled" /\ m.job >= 1
        /\ pass'.step = "sample" => pass'.m = m
        /\ pass'.step \in {"sample", "write"}
    BY <1>1, ObserveShape DEF TakesSample, HandsOut, BoundsInv
  <2>2. CASE ctx # "live" /\ UNCHANGED <<run, loops, gauges, runs>> /\ TakesSample /\ pass'.self
    BY <2>1, <2>2 DEF TakesSample
  <2>3. CASE /\ ctx = "live" /\ run' \in Runs /\ run'.job = m.job
             /\ (TakesSample /\ pass'.judge /\ ~pass'.self) \/ HandsOut
             /\ SameRun
    <3>1. run # NoRun /\ run.id >= 1
      BY <2>1, <2>3 DEF SameRun
    <3> QED BY <2>1, <2>3, <3>1 DEF SameRun, HandsOut
  <2>4. CASE /\ ctx = "live" /\ run' \in Runs /\ run'.job = m.job
             /\ (TakesSample /\ pass'.judge /\ ~pass'.self) \/ HandsOut
             /\ NewRun
    <3>1. \A l \in loops' : l \in loops \/ (l.run = runs' /\ l.job = m.job)
      BY <2>4 DEF NewRun
    <3>2. \A l1, l2 \in loops' : l1.run = l2.run => l1 = l2
      BY <2>4 DEF NewRun
    <3>3. \A l \in loops' : l.run = run'.id => l.job = run'.job
      BY <2>4, <3>1 DEF NewRun
    <3> QED BY <2>1, <2>4, <3>2, <3>3 DEF NewRun, HandsOut
  <2> QED BY <1>1, <2>2, <2>3, <2>4, ObserveShape
<1>2. CASE SampleBegins
  BY <1>2, BeginsShape
<1>3. CASE SampleReads
  BY <1>3, ReadsShape
<1>4. CASE SampleNow
  <2>1. /\ run'.id = run.id /\ run'.job = run.job /\ (run = NoRun => run' = NoRun)
    <3>1. CASE Land(run, pass.got) /\ pass.got \in Samples /\ run.job = m.job
      <4>1. m.job >= 1
        BY <1>4, NowShape
      <4> QED BY <3>1, <4>1, LandShape, KeptShape
    <3> QED BY <1>4, <3>1, NowShape
  <2> QED BY <1>4, <2>1, NowShape
<1>5. CASE WorkerEnded
  BY <1>5, EndedShape
<1>6. CASE UpdateStatus
  BY <1>6, StatusShape
<1>7. CASE NotFound \/ Forget \/ Stop
  BY <1>7, TeardownShape DEF StopLocked
<1>8. CASE Start
  BY <1>8, StartShape
<1>9. CASE CopyMoves \/ WorkerEnds \/ Deleted
  BY <1>9, WorldShape
<1>10. ASSUME NEW l \in loops, LoopBegins(l) \/ LoopReads(l) \/ LoopLands(l) \/ LoopEnds(l)
       PROVE  RunInv'
  <2>1. UNCHANGED <<m, pass, ctx, object>>
    BY <1>10, LoopShape
  <2>2. /\ run'.id = run.id /\ run'.job = run.job /\ (run = NoRun => run' = NoRun)
    <3>1. CASE Land(run, l.got) /\ Live(l)
      <4>1. l \in LoopRecords /\ l.got \in Samples /\ run \in Runs
        BY DEF TypeOK, LoopRecords
      <4>2. run' = KeepLocked(run, l.got)
        BY <3>1, <4>1, LandShape
      <4>3. run'.id = run.id /\ run'.job = run.job
        BY <4>1, <4>2, KeptShape
      <4>4. run # NoRun
        <5>1. l.run >= 1 /\ run.id = l.run
          BY <3>1, <4>1 DEF LoopRecords
        <5>2. NoRun.id = 0
          BY DEF NoRun
        <5> QED BY <5>1, <5>2
      <4> QED BY <4>3, <4>4
    <3> QED BY <1>10, <3>1, LoopShape
  <2>3. /\ \A l1, l2 \in loops' : l1.run = l2.run => l1 = l2
        /\ \A x \in loops' : x.run = run'.id => x.job = run'.job
    <3>1. CASE loops' = loops \ {l}
      BY <2>2, <3>1
    <3>2. ASSUME NEW n, Becomes(l, n)
          PROVE  /\ \A l1, l2 \in loops' : l1.run = l2.run => l1 = l2
                 /\ \A x \in loops' : x.run = run'.id => x.job = run'.job
      <4>1. /\ n.run = l.run /\ n.job = l.job
            /\ \A x \in loops' : x = n \/ (x \in loops /\ x # l)
        BY <3>2 DEF Becomes
      <4>2. ASSUME NEW l1 \in loops', NEW l2 \in loops', l1.run = l2.run
            PROVE  l1 = l2
        <5>1. CASE l1 = n /\ l2 = n
          BY <5>1
        <5>2. CASE l1 = n /\ l2 # n
          BY <4>1, <4>2, <5>2
        <5>3. CASE l1 # n /\ l2 = n
          BY <4>1, <4>2, <5>3
        <5>4. CASE l1 # n /\ l2 # n
          BY <4>1, <4>2, <5>4
        <5> QED BY <5>1, <5>2, <5>3, <5>4
      <4>3. ASSUME NEW x \in loops', x.run = run'.id
            PROVE  x.job = run'.job
        <5>1. CASE x = n
          BY <2>2, <4>1, <4>3, <5>1
        <5>2. CASE x # n
          BY <2>2, <4>1, <4>3, <5>2
        <5> QED BY <5>1, <5>2
      <4> QED BY <4>2, <4>3
    <3> QED BY <1>10, <3>1, <3>2, LoopShape
  <2> QED BY <2>1, <2>2, <2>3
<1>11. CASE UNCHANGED vars
  BY <1>11 DEF vars
<1> QED BY <1>1, <1>2, <1>3, <1>4, <1>5, <1>6, <1>7, <1>8, <1>9, <1>10, <1>11, NextCases

CoreInv == TypeOK /\ BoundsInv /\ RunInv

LEMMA CoreInit == Init => CoreInv
<1> SUFFICES ASSUME Init PROVE CoreInv
  OBVIOUS
<1>1. WorldOK /\ SamplerOK /\ CountOK
  BY Records, BoundsAssumption DEF Init, WorldOK, SamplerOK, CountOK
<1>2. TypeOK
  BY <1>1, TypeParts
<1>3. BoundsInv /\ RunInv
  BY Records DEF Init, BoundsInv, RunInv, Holding, Sampling
<1> QED BY <1>2, <1>3 DEF CoreInv

LEMMA CoreCorrect == Spec => []CoreInv
<1>1. CoreInv /\ [Next]_vars => CoreInv'
  BY TypeStep, BoundsStep, RunStep DEF CoreInv
<1> QED BY CoreInit, <1>1, PTL DEF Spec

\* Every variable keeps its type (TypeOK), for any number of Jobs, runs and samples.
THEOREM SamplerTypeCorrect == Spec => []TypeOK
<1>1. CoreInv => TypeOK
  BY DEF CoreInv
<1> QED BY CoreCorrect, <1>1, PTL

-----------------------------------------------------------------------------
(* Forgetting.  A deleted Migration has no run, so that no goroutine may publish, and  *)
(* no pass under way that would: its series stay away.  A pass that ends without a     *)
(* worker has stopped the sampler, and only a pass starts it again.                    *)

TeardownInv ==
  /\ object = "handled" /\ pass.step \in {"stop", "idle"} => gauges = NoSeries
  /\ pass.step = "idle" /\ ~pass.observing => gauges.sync = "unknown" /\ run = NoRun

LEMMA TeardownStep == ASSUME CoreInv, TeardownInv, [Next]_vars PROVE TeardownInv'
<1> USE DEF CoreInv, TeardownInv
<1>0. TypeOK /\ (object = "handled" => run = NoRun /\ pass.step \in {"forget", "stop", "idle"})
  BY DEF RunInv
<1>1. CASE Observe
  BY <1>0, <1>1, ObserveShape DEF TakesSample, HandsOut
<1>2. CASE SampleBegins \/ SampleReads \/ SampleNow
  BY <1>0, <1>2, BeginsShape, ReadsShape, NowShape
<1>3. CASE WorkerEnded
  BY <1>0, <1>3, EndedShape
<1>4. CASE UpdateStatus
  BY <1>0, <1>4, StatusShape
<1>5. CASE NotFound \/ Forget \/ Stop
  <2>1. CASE pass.step = "idle" /\ pass'.step = "forget"
    BY <2>1
  <2>2. CASE pass.step = "forget" /\ pass'.step = "stop" /\ gauges' = NoSeries
    BY <2>2
  <2>3. CASE pass.step = "stop" /\ object' = object /\ pass' = Idle /\ StopLocked
    BY <1>0, <2>3, Records, StopShape
  <2> QED BY <1>0, <1>5, <2>1, <2>2, <2>3, TeardownShape
<1>6. CASE Start
  BY <1>0, <1>6, StartShape
<1>7. CASE CopyMoves \/ WorkerEnds \/ Deleted
  BY <1>0, <1>7, WorldShape
<1>8. ASSUME NEW l \in loops, LoopBegins(l) \/ LoopReads(l) \/ LoopLands(l) \/ LoopEnds(l)
      PROVE  TeardownInv'
  <2>1. UNCHANGED <<object, pass>> /\ (run = NoRun => UNCHANGED <<run, gauges>>)
    BY <1>0, <1>8, LoopShape, Records DEF Live, LoopRecords
  <2> QED BY <1>0, <2>1
<1>9. CASE UNCHANGED vars
  BY <1>9 DEF vars
<1> QED BY <1>1, <1>2, <1>3, <1>4, <1>5, <1>6, <1>7, <1>8, <1>9, NextCases

LEMMA TeardownCorrect == Spec => []TeardownInv
<1>1. Init => TeardownInv
  BY Records DEF Init, TeardownInv, NoSeries
<1>2. CoreInv /\ TeardownInv /\ [Next]_vars => TeardownInv'
  BY TeardownStep
<1> QED BY <1>1, <1>2, CoreCorrect, PTL DEF Spec

\* "Once it returns the run writes no gauge, so a following metrics.Forget stays final"
\* (sampler.go:171): a deleted Migration's series never come back.
THEOREM ForgettingIsFinal == Spec => []ForgetStaysFinal
<1>1. TeardownInv => ForgetStaysFinal
  BY DEF TeardownInv, ForgetStaysFinal
<1> QED BY <1>1, TeardownCorrect, PTL

\* A pass that observed no worker leaves no wait of one behind, and no goroutine that
\* could publish one (sampler.go:178).
THEOREM IdleSamplerIsQuiet == Spec => []NoStaleWaits
<1>1. TeardownInv => NoStaleWaits
  BY DEF TeardownInv, NoStaleWaits
<1> QED BY <1>1, TeardownCorrect, PTL

-----------------------------------------------------------------------------
(* Order.  Passes and goroutines take samples that overlap, and each of them lands     *)
(* when it gets the mutex.  What keeps the gauges and the status from stepping back is *)
(* that a sample in flight began after whatever was handed out or published, unless    *)
(* the run keeps a later one, which supersedes it.                                     *)

OrderInv ==
  /\ gauges.source <= clock
  /\ run.last.at = 0 \/ run.last.at >= handed
  /\ Holding => pass.got.at > handed
  /\ \A l \in loops : Flying(l) /\ run.last.at = 0 => l.got.at > handed
  /\ \/ gauges.source <= run.last.at
     \/ /\ \A l \in loops : Flying(l) => l.got.at > gauges.source
        /\ Holding /\ (pass.self \/ run.job = m.job) => pass.got.at > gauges.source

\* A sample that lands moves the size gauges on, or is superseded and leaves them.
LEMMA LandOrder ==
  ASSUME TypeOK, BoundsInv, NEW got \in Samples, Land(run, got), got.at <= clock, gauges.source <= clock,
         gauges.source <= run.last.at \/ got.at > gauges.source
  PROVE  /\ gauges'.source >= gauges.source /\ gauges'.source <= clock
         /\ \/ gauges'.source <= run'.last.at
            \/ gauges' = gauges /\ run'.last.at = run.last.at
<1>1. /\ gauges.source \in Nat /\ run.last.at \in Nat /\ got.at \in Nat /\ clock \in Nat
  BY Numbers DEF Samples
<1>2. CASE got.at < run.last.at
  BY <1>1, <1>2, LandShape, LandedRun
<1>3. CASE ~(got.at < run.last.at)
  <2>1. gauges'.source \in {gauges.source, got.at} /\ run'.last.at = got.at
    BY <1>3, LandShape, LandedRun
  <2> QED BY <1>1, <1>3, <2>1
<1> QED BY <1>2, <1>3

\* Without a run no goroutine is live, and a pass that samples has none or the run of its Job.
LEMMA RunFacts ==
  ASSUME CoreInv
  PROVE  /\ run = NoRun => \A l \in loops : ~Live(l)
         /\ Holding => /\ pass.got.at >= 1 /\ m.job >= 1 /\ pass.m = m
                       /\ run = NoRun \/ (~pass.self /\ run.job = m.job)
         /\ pass.got.at <= clock /\ run.last.at <= clock
         /\ \A l \in loops : l.got.at <= clock /\ (l.step # "wait" => l.got.at >= 1)
BY Numbers, Records DEF CoreInv, BoundsInv, RunInv, Sampling, Holding, Live

LEMMA OrderStep ==
  ASSUME CoreInv, OrderInv, [Next]_vars
  PROVE  /\ OrderInv'
         /\ handed' >= handed /\ (gauges'.source >= gauges.source \/ gauges' = NoSeries)
<1> DEFINE Forward == handed' >= handed /\ (gauges'.source >= gauges.source \/ gauges' = NoSeries)
<1>0. TypeOK /\ BoundsInv /\ RunInv
  BY DEF CoreInv
<1> USE <1>0, Numbers, Records, RunFacts DEF OrderInv, Flying
<1>1. CASE Observe
  <2>1. /\ clock' = clock /\ m' = m /\ ~Holding' /\ handed \in Nat /\ run.last.at \in Nat
    BY <1>1, ObserveShape DEF TakesSample, HandsOut, Holding
  <2>2. CASE UNCHANGED <<run, loops, gauges>> /\ TakesSample
    BY <2>1, <2>2 DEF TakesSample, Live
  <2>3. CASE SameRun /\ (TakesSample \/ HandsOut)
    <3>1. /\ run'.id = run.id /\ run'.last = run.last /\ UNCHANGED <<loops, gauges>>
          /\ handed' = handed \/ (handed' = run.last.at /\ run.last.at # 0)
      BY <2>3 DEF SameRun, TakesSample, HandsOut
    <3> QED BY <2>1, <3>1 DEF Live
  <2>4. CASE NewRun /\ (TakesSample \/ HandsOut)
    <3>1. /\ run'.last.at = 0 /\ handed' = handed /\ gauges'.source = gauges.source
      BY <2>4 DEF NewRun, TakesSample, HandsOut
    <3>2. \A l \in loops' : ~Flying(l)'
      BY <2>4 DEF NewRun, Live
    <3> QED BY <2>1, <3>1, <3>2
  <2> QED BY <1>1, <2>2, <2>3, <2>4, ObserveShape
<1>2. CASE SampleBegins
  <2>1. /\ clock' = clock + 1 /\ pass'.got.at = clock' /\ UNCHANGED <<m, run, loops, gauges, handed>>
        /\ handed <= clock
    BY <1>2, BeginsShape DEF TypeOK
  <2> QED BY <2>1 DEF Live
<1>3. CASE SampleReads
  <2>1. /\ Holding /\ pass'.got.at = pass.got.at /\ pass'.self = pass.self
        /\ UNCHANGED <<m, run, loops, gauges, handed, clock>>
    BY <1>3, ReadsShape DEF Holding
  <2> QED BY <2>1 DEF Live
<1>4. CASE SampleNow
  <2>1. /\ Holding /\ ~Holding' /\ handed' = pass.got.at /\ UNCHANGED <<m, loops, clock>>
        /\ pass.got \in Samples
    BY <1>4, NowShape DEF Holding
  <2>2. CASE ~pass.self /\ run.job = m.job /\ Land(run, pass.got)
    <3>1. gauges.source <= run.last.at \/ pass.got.at > gauges.source
      BY <2>1, <2>2
    <3>2. /\ run'.last.at >= pass.got.at /\ run'.last.at \in Nat /\ run'.id = run.id
      BY <2>1, <2>2, LandedRun
    <3>3. /\ gauges'.source >= gauges.source /\ gauges'.source <= clock
          /\ \/ gauges'.source <= run'.last.at
             \/ gauges' = gauges /\ run'.last.at = run.last.at
      BY <2>1, <2>2, <3>1, LandOrder
    <3> QED BY <2>1, <3>2, <3>3 DEF Live
  <2>3. CASE /\ run' = run
             /\ (~pass.self /\ run.job # m.job /\ gauges' = gauges) \/
                (pass.self /\ gauges' = Publish(gauges, pass.got, CopyStarted(m) \/ pass.got.copySeen))
    <3>1. run = NoRun
      BY <2>1, <2>3
    <3>2. CASE gauges' = gauges
      BY <2>1, <2>3, <3>1, <3>2 DEF Live
    <3>3. CASE pass.self /\ gauges' = Publish(gauges, pass.got, CopyStarted(m) \/ pass.got.copySeen)
      <4>1. (CopyStarted(m) \/ pass.got.copySeen) \in BOOLEAN
        BY DEF CopyStarted, Samples
      <4>2. gauges'.source \in {gauges.source, pass.got.at}
        BY <3>3, <4>1, PublishShape
      <4>3. gauges.source < pass.got.at
        BY <2>1, <3>1, <3>3
      <4> QED BY <2>1, <2>3, <3>1, <4>2, <4>3 DEF Live
    <3> QED BY <2>3, <3>2, <3>3
  <2> QED BY <1>4, <2>2, <2>3, NowShape
<1>5. CASE WorkerEnded
  BY <1>5, EndedShape DEF Holding, Live
<1>6. CASE UpdateStatus
  BY <1>6, StatusShape DEF Holding, Live
<1>7. CASE NotFound \/ Forget \/ Stop
  <2>1. /\ ~Holding' /\ UNCHANGED <<loops, clock, handed>> /\ run' \in {run, NoRun}
        /\ gauges'.source = gauges.source \/ (gauges' = NoSeries /\ gauges'.source = 0)
    BY <1>7, TeardownShape DEF Holding
  <2>2. CASE run' = run
    BY <2>1, <2>2 DEF Live
  <2>3. CASE run' = NoRun
    <3>1. \A l \in loops : ~Live(l)'
      BY <2>1, <2>3 DEF Live
    <3> QED BY <2>1, <2>3, <3>1
  <2> QED BY <2>1, <2>2, <2>3
<1>8. CASE Start
  <2>1. /\ UNCHANGED <<pass, m, loops, clock, handed>> /\ run' \in {run, NoRun}
        /\ gauges'.source = gauges.source /\ (Holding' <=> Holding)
    BY <1>8, StartShape DEF Holding
  <2>2. CASE run' = run
    BY <2>1, <2>2 DEF Live
  <2>3. CASE run' = NoRun /\ run # NoRun
    <3>1. \A l \in loops : ~Live(l)'
      BY <2>1, <2>3 DEF Live
    <3>2. Holding => ~pass.self /\ run'.job # m.job
      BY <2>1, <2>3
    <3> QED BY <2>1, <2>3, <3>1, <3>2
  <2> QED BY <2>1, <2>2, <2>3
<1>9. CASE CopyMoves \/ WorkerEnds \/ Deleted
  BY <1>9, WorldShape DEF Holding, Live
<1>10. ASSUME NEW l \in loops, LoopBegins(l) \/ LoopReads(l) \/ LoopLands(l) \/ LoopEnds(l)
       PROVE  OrderInv' /\ Forward
  <2>1. UNCHANGED <<m, pass, handed>> /\ (Holding' <=> Holding) /\ handed <= clock
    BY <1>10, LoopShape DEF Holding, TypeOK
  <2>2. CASE /\ clock' = clock + 1 /\ UNCHANGED <<run, gauges>>
             /\ \E n : Becomes(l, n) /\ n.got.at = clock'
    BY <2>1, <2>2 DEF Becomes, Live
  <2>3. CASE /\ l.step = "begun" /\ UNCHANGED <<run, gauges, clock>>
             /\ \E n : Becomes(l, n) /\ n.got.at = l.got.at
    BY <2>1, <2>3 DEF Becomes, Live
  <2>4. CASE /\ l.step = "read" /\ Live(l) /\ Land(run, l.got) /\ clock' = clock
             /\ \E n : Becomes(l, n) /\ n.step = "wait"
    <3>1. l.got \in Samples /\ l.got.at >= 1 /\ l.got.at <= clock
      BY <2>4 DEF LoopRecords
    <3>2. gauges.source <= run.last.at \/ l.got.at > gauges.source
      BY <2>4
    <3>3. /\ run'.last.at >= l.got.at /\ run'.last.at >= run.last.at /\ run'.last.at \in Nat
          /\ run'.id = run.id /\ run'.job = run.job
      BY <2>4, <3>1, LandedRun
    <3>4. /\ gauges'.source >= gauges.source /\ gauges'.source <= clock
          /\ \/ gauges'.source <= run'.last.at
             \/ gauges' = gauges /\ run'.last.at = run.last.at
      BY <2>4, <3>1, <3>2, LandOrder
    <3>5. run'.last.at >= handed
      BY <2>1, <2>4, <3>1, <3>3
    <3>6. \A x \in loops' : Flying(x)' => x \in loops /\ Flying(x)
      BY <2>4, <3>3 DEF Becomes, Live
    <3> QED BY <2>1, <2>4, <3>1, <3>3, <3>4, <3>5, <3>6
  <2>5. CASE loops' = loops \ {l} /\ UNCHANGED <<run, gauges, clock>>
    BY <2>1, <2>5 DEF Live
  <2> QED BY <1>10, <2>2, <2>3, <2>4, <2>5, LoopShape
<1>11. CASE UNCHANGED vars
  BY <1>11 DEF vars, Holding, Live
<1> QED BY <1>1, <1>2, <1>3, <1>4, <1>5, <1>6, <1>7, <1>8, <1>9, <1>10, <1>11, NextCases

LEMMA OrderCorrect == Spec => []OrderInv
<1>1. Init => OrderInv
  BY Records DEF Init, OrderInv, Holding
<1>2. CoreInv /\ OrderInv /\ [Next]_vars => OrderInv'
  BY OrderStep
<1> QED BY <1>1, <1>2, CoreCorrect, PTL DEF Spec

\* "status and the gauges never step back" (sampler.go:147): a pass is never handed a
\* sample that began before one it had, and the size gauges never return to an older one
\* unless they were forgotten.
THEOREM SamplesStayInOrder == Spec => NeverStepsBack
<1>1. CoreInv /\ OrderInv /\ [Next]_vars =>
        [handed' >= handed /\ (gauges'.source >= gauges.source \/ gauges' = NoSeries)]_vars
  BY OrderStep
<1> QED BY <1>1, CoreCorrect, OrderCorrect, PTL DEF Spec, NeverStepsBack

-----------------------------------------------------------------------------
(* Confirmation.  Handing the same sample out twice must not confirm a wait.  Every    *)
(* sample lands once: one in flight is none of those that landed, so that the sample a *)
(* run confirms is a second one, after the one that put the run over the threshold.    *)

\* A run got a sample over the threshold that began at "at", and one that began before.
TwiceIn(noted, now, id, at) == \E first \in 1..now : first < at /\ {<<id, first>>, <<id, at>>} \subseteq noted
Twice(id, at) == TwiceIn(overs, clock, id, at)
TwiceNext(id, at) == TwiceIn(overs', clock', id, at)

ConfirmInv ==
  /\ \A l \in loops : Flying(l) => l.got.at # run.last.at /\ (Holding => l.got.at # pass.got.at)
  /\ Holding => pass.got.at # run.last.at
  /\ Sampling => ~pass.got.confirmed
  /\ run.over => <<run.id, run.last.at>> \in overs
  /\ run.last.confirmed => Twice(run.id, run.last.at)
  /\ pass.step = "write" /\ pass.m.blocked = "true" /\ m.blocked # "true" =>
       \E id \in 1..runs : Twice(id, pass.got.at)

LEMMA TwiceKeeps ==
  ASSUME overs \subseteq overs', clock \in Nat, clock' \in Nat, clock <= clock',
         NEW id, NEW at, Twice(id, at)
  PROVE  TwiceNext(id, at)
BY DEF Twice, TwiceNext, TwiceIn

\* What a run is said to have confirmed, once another sample has landed in it.
LEMMA LandConfirm ==
  ASSUME TypeOK, BoundsInv, NEW got \in Samples, Land(run, got), clock' = clock,
         got.at # run.last.at, got.at >= 1, got.at <= clock,
         run.over => <<run.id, run.last.at>> \in overs,
         run.last.confirmed => Twice(run.id, run.last.at)
  PROVE  /\ overs \subseteq overs' /\ run'.id = run.id
         /\ run'.over => <<run'.id, run'.last.at>> \in overs'
         /\ run'.last.confirmed => TwiceNext(run.id, run'.last.at)
<1>1. /\ run.last.at \in Nat /\ got.at \in Nat /\ clock \in Nat /\ run \in Runs
      /\ SyncRepOver(got) \in BOOLEAN /\ run.over \in BOOLEAN
  BY Numbers DEF Samples, SyncRepOver, Runs
<1>2. /\ overs' = (IF SyncRepOver(got) THEN overs \cup {<<run.id, got.at>>} ELSE overs)
      /\ run' = KeepLocked(run, got) /\ run'.id = run.id
  BY LandShape, LandedRun
<1>3. overs \subseteq overs'
  BY <1>2
<1>4. CASE got.at < run.last.at
  <2>1. run'.last = run.last /\ run'.over = run.over
    BY <1>1, <1>2, <1>4, KeptShape
  <2>2. run.last.confirmed => TwiceNext(run.id, run.last.at)
    BY <1>1, <1>3, TwiceKeeps
  <2> QED BY <1>2, <1>3, <2>1, <2>2
<1>5. CASE ~(got.at < run.last.at)
  <2>1. /\ run'.last.at = got.at /\ run'.over = SyncRepOver(got)
        /\ run'.last.confirmed = (SyncRepOver(got) /\ run.over)
    BY <1>1, <1>2, <1>5, KeptShape
  <2>2. SyncRepOver(got) => <<run.id, got.at>> \in overs'
    BY <1>2
  <2>3. run.over => <<run.id, run.last.at>> \in overs' /\ run.last.at \in 1..clock
    BY <1>3 DEF TypeOK
  <2>4. SyncRepOver(got) /\ run.over => TwiceNext(run.id, got.at)
    BY <1>1, <1>5, <2>2, <2>3 DEF TwiceNext, TwiceIn
  <2> QED BY <1>2, <1>3, <2>1, <2>2, <2>4
<1> QED BY <1>4, <1>5

LEMMA ConfirmStep == ASSUME CoreInv, ConfirmInv, [Next]_vars PROVE ConfirmInv'
<1>0. TypeOK /\ BoundsInv /\ RunInv
  BY DEF CoreInv
<1> USE <1>0, Numbers, Records, RunFacts DEF ConfirmInv, Flying, Twice, TwiceNext
<1>k. ASSUME overs \subseteq overs', clock <= clock', clock' \in Nat, runs' = runs
      PROVE  /\ \A id, at : Twice(id, at) => TwiceNext(id, at)
             /\ (\E id \in 1..runs : Twice(id, pass.got.at)) =>
                  \E id \in 1..runs' : TwiceNext(id, pass.got.at)
  BY <1>k, TwiceKeeps
<1>r. run.last.confirmed => run.id \in 1..runs
  BY DEF BoundsInv, RunInv
<1>1. CASE Observe
  <2>1. /\ m' = m /\ overs' = overs /\ clock' = clock /\ ~Holding'
        /\ \A id, at : Twice(id, at) => TwiceNext(id, at)
    BY <1>1, ObserveShape DEF TakesSample, HandsOut, Holding, Twice, TwiceNext
  <2>2. CASE UNCHANGED <<run, loops>> /\ TakesSample
    BY <2>1, <2>2 DEF TakesSample, Live, Sampling
  <2>3. CASE SameRun /\ (TakesSample \/ HandsOut)
    <3>1. run'.id = run.id /\ run'.last = run.last /\ run'.over = run.over /\ UNCHANGED <<loops, runs>>
      BY <2>3 DEF SameRun
    <3>2. Sampling' => ~pass'.got.confirmed
      BY <2>3 DEF TakesSample, HandsOut, Sampling
    <3>3. pass'.step = "write" /\ pass'.m.blocked = "true" /\ m'.blocked # "true" =>
            run.last.confirmed /\ pass'.got.at = run.last.at
      BY <2>1, <2>3, <3>1 DEF TakesSample, HandsOut
    <3> QED BY <1>r, <2>1, <3>1, <3>2, <3>3 DEF Live
  <2>4. CASE NewRun /\ (TakesSample \/ HandsOut)
    <3>1. run'.last = Zero /\ ~run'.over
      BY <2>4 DEF NewRun
    <3>2. \A l \in loops' : ~Flying(l)'
      BY <2>4 DEF NewRun, Live
    <3>3. Sampling' => ~pass'.got.confirmed
      BY <2>4 DEF TakesSample, HandsOut, Sampling
    <3>4. ~(pass'.step = "write" /\ pass'.m.blocked = "true" /\ m'.blocked # "true")
      BY <2>1, <2>4, <3>1 DEF TakesSample, HandsOut
    <3> QED BY <2>1, <3>1, <3>2, <3>3, <3>4
  <2> QED BY <1>1, <2>2, <2>3, <2>4, ObserveShape
<1>2. CASE SampleBegins
  <2>1. /\ Sampling /\ clock' = clock + 1 /\ pass'.got.at = clock' /\ pass'.step = "begun"
        /\ pass'.got.confirmed = pass.got.confirmed /\ UNCHANGED <<run, loops, overs, runs>>
    BY <1>2, BeginsShape DEF Sampling
  <2> QED BY <1>k, <2>1 DEF Live
<1>3. CASE SampleReads
  <2>1. /\ Holding /\ pass'.got.at = pass.got.at /\ pass'.step = "read" /\ ~pass'.got.confirmed
        /\ UNCHANGED <<run, loops, overs, runs, clock>>
    BY <1>3, ReadsShape DEF Holding
  <2> QED BY <1>k, <2>1 DEF Live
<1>4. CASE SampleNow
  <2>1. /\ Holding /\ ~Holding' /\ ~Sampling' /\ Sampling /\ pass'.got.at = pass.got.at
        /\ UNCHANGED <<m, loops, clock, runs>> /\ pass.got \in Samples
    BY <1>4, NowShape DEF Holding, Sampling
  <2>2. CASE /\ run.job = m.job /\ Land(run, pass.got)
             /\ pass'.m.blocked = "true" =>
                    \/ m.blocked = "true" \/ pass.got.confirmed
                    \/ run'.last.at = pass.got.at /\ run'.last.confirmed
    <3>1. /\ overs \subseteq overs' /\ run'.id = run.id
          /\ run'.over => <<run'.id, run'.last.at>> \in overs'
          /\ run'.last.confirmed => TwiceNext(run.id, run'.last.at)
      BY <2>1, <2>2, LandConfirm
    <3>2. run'.last.at \in {run.last.at, pass.got.at}
      BY <2>1, <2>2, LandedRun
    <3>3. run.id \in 1..runs
      BY <2>1, <2>2 DEF BoundsInv, RunInv
    <3> QED BY <2>1, <2>2, <3>1, <3>2, <3>3 DEF Live
  <2>3. CASE UNCHANGED <<run, overs>> /\ (pass'.m.blocked = "true" => m.blocked = "true" \/ pass.got.confirmed)
    BY <1>k, <2>1, <2>3 DEF Live
  <2> QED BY <1>4, <2>2, <2>3, NowShape
<1>5. CASE WorkerEnded
  BY <1>5, <1>k, EndedShape DEF Holding, Sampling, Live
<1>6. CASE UpdateStatus
  BY <1>6, <1>k, StatusShape DEF Holding, Sampling, Live
<1>7. CASE NotFound \/ Forget \/ Stop
  <2>1. /\ ~Holding' /\ ~Sampling' /\ pass'.step # "write"
        /\ UNCHANGED <<loops, clock, overs, runs>> /\ run' \in {run, NoRun}
    BY <1>7, TeardownShape DEF Holding, Sampling
  <2> QED BY <1>k, <2>1 DEF Live
<1>8. CASE Start
  <2>1. /\ UNCHANGED <<pass, m, loops, clock, overs, runs>> /\ run' \in {run, NoRun}
        /\ (Holding' <=> Holding) /\ (Sampling' <=> Sampling)
    BY <1>8, StartShape DEF Holding, Sampling
  <2> QED BY <1>k, <2>1 DEF Live
<1>9. CASE CopyMoves \/ WorkerEnds \/ Deleted
  BY <1>9, <1>k, WorldShape DEF Holding, Sampling, Live
<1>10. ASSUME NEW l \in loops, LoopBegins(l) \/ LoopReads(l) \/ LoopLands(l) \/ LoopEnds(l)
       PROVE  ConfirmInv'
  <2>1. UNCHANGED <<m, pass, runs>> /\ (Holding' <=> Holding) /\ (Sampling' <=> Sampling)
    BY <1>10, LoopShape DEF Holding, Sampling
  <2>2. CASE /\ clock' = clock + 1 /\ UNCHANGED <<run, overs>>
             /\ \E n : Becomes(l, n) /\ n.got.at = clock'
    BY <1>k, <2>1, <2>2 DEF Becomes, Live
  <2>3. CASE /\ l.step = "begun" /\ UNCHANGED <<run, overs, clock>>
             /\ \E n : Becomes(l, n) /\ n.got.at = l.got.at
    BY <1>k, <2>1, <2>3 DEF Becomes, Live
  <2>4. CASE /\ l.step = "read" /\ Live(l) /\ Land(run, l.got) /\ clock' = clock
             /\ \E n : Becomes(l, n) /\ n.step = "wait"
    <3>1. l.got \in Samples /\ l.got.at >= 1 /\ l.got.at <= clock /\ l.got.at # run.last.at
          /\ (Holding => l.got.at # pass.got.at)
      BY <2>4 DEF LoopRecords
    <3>2. /\ overs \subseteq overs' /\ run'.id = run.id
          /\ run'.over => <<run'.id, run'.last.at>> \in overs'
          /\ run'.last.confirmed => TwiceNext(run.id, run'.last.at)
      BY <2>4, <3>1, LandConfirm
    <3>3. run'.last.at \in {run.last.at, l.got.at}
      BY <2>4, <3>1, LandedRun
    <3>4. \A x \in loops' : ~Flying(x)'
      BY <2>4, <3>2 DEF Becomes, Live, RunInv
    <3> QED BY <1>k, <2>1, <2>4, <3>1, <3>2, <3>3, <3>4
  <2>5. CASE loops' = loops \ {l} /\ UNCHANGED <<run, overs, clock>>
    BY <1>k, <2>1, <2>5 DEF Live
  <2> QED BY <1>10, <2>2, <2>3, <2>4, <2>5, LoopShape
<1>11. CASE UNCHANGED vars
  BY <1>11, <1>k DEF vars, Holding, Sampling, Live
<1> QED BY <1>1, <1>2, <1>3, <1>4, <1>5, <1>6, <1>7, <1>8, <1>9, <1>10, <1>11, NextCases

LEMMA ConfirmCorrect == Spec => []ConfirmInv
<1>1. Init => ConfirmInv
  BY Records DEF Init, ConfirmInv, Holding, Sampling
<1>2. CoreInv /\ ConfirmInv /\ [Next]_vars => ConfirmInv'
  BY ConfirmStep
<1> QED BY <1>1, <1>2, CoreCorrect, PTL DEF Spec

\* CommitsBlocked is raised by two samples of one run that were both over the threshold,
\* never by one that was handed out twice (syncrep.go:33).
THEOREM BlockedIsConfirmed == Spec => BlockedNeedsTwo
<1> DEFINE Raised ==
      m'.blocked = "true" /\ m.blocked # "true" =>
        \E id \in 1..runs, at \in 1..clock :
          at < pass.got.at /\ {<<id, at>>, <<id, pass.got.at>>} \subseteq overs
<1>1. ASSUME CoreInv, ConfirmInv, [Next]_vars PROVE [Raised]_vars
  <2>1. CASE m' = m
    BY <2>1
  <2>2. CASE UpdateStatus
    <3>1. SUFFICES ASSUME m'.blocked = "true", m.blocked # "true" PROVE Raised
      OBVIOUS
    <3>2. pass.step = "write" /\ pass.m.blocked = "true"
      BY <2>2, <3>1 DEF UpdateStatus
    <3>3. PICK id \in 1..runs : Twice(id, pass.got.at)
      BY <1>1, <3>1, <3>2 DEF ConfirmInv
    <3> QED BY <3>3 DEF Twice, TwiceIn
  <2>3. m' = m \/ UpdateStatus
    BY <1>1, NextCases, ObserveShape, BeginsShape, ReadsShape, NowShape, EndedShape, TeardownShape,
       StartShape, WorldShape, LoopShape DEF CoreInv, vars
  <2> QED BY <2>1, <2>2, <2>3
<1>2. CoreInv /\ ConfirmInv /\ [Next]_vars => [Raised]_vars
  BY <1>1
<1> QED BY <1>2, CoreCorrect, ConfirmCorrect, PTL DEF Spec, BlockedNeedsTwo

-----------------------------------------------------------------------------
(* The target's size.  A run that knows of the copy, by its hint, a sample or the      *)
(* status a pass is about to write, is one whose worker's copy has begun: what it      *)
(* reads from then on is not what an earlier run left.  A sample that did read that is *)
(* older than the one that told, which supersedes it.                                  *)

\* What is known of the copy of a job, by its run or by a status.
Known(job) ==
  \/ run.job = job /\ (run.hint \/ run.copySeen)
  \/ m.job = job /\ CopyStarted(m)
  \/ pass.m.job = job /\ CopyStarted(pass.m)

\* A copy that a sample of job caught has begun, unless its worker is gone.
Caught(job, got) == got.copySeen => (worker.running /\ worker.job = job => worker.copy # "before")

\* A judged marker is of a copy that is finished, for good.
FinishedInv ==
  /\ Finished(m) \/ Finished(pass.m) => worker.copy = "done"
  /\ Sampling /\ pass.judge => worker.copy = "done"

BegunInv ==
  /\ worker.running /\ Known(worker.job) => worker.copy # "before"
  /\ Sampling /\ pass.judge /\ worker.running /\ worker.job = m.job => worker.copy # "before"
  /\ \A l \in loops : Caught(l.job, l.got)
  /\ Holding => Caught(m.job, pass.got)

OldInv ==
  /\ \A l \in loops : l.got.target = "old" => ~l.got.copySeen
  /\ pass.step = "sample" => pass.got = Zero
  /\ Holding /\ pass.got.target = "old" => ~pass.got.copySeen /\ ~pass.judge /\ ~CopyStarted(m)
  /\ \A l \in loops : Live(l) /\ l.got.target = "old" =>
       /\ Known(run.job) => l.got.at < run.last.at
       /\ Holding /\ run.job = m.job => l.got.at < pass.got.at
  /\ gauges.target # "old"

LEMMA FinishedStep == ASSUME CoreInv, FinishedInv, [Next]_vars PROVE FinishedInv'
<1>0. TypeOK /\ RunInv
  BY DEF CoreInv
<1> USE <1>0, Records DEF FinishedInv
<1>1. CASE Observe
  <2>1. UNCHANGED <<worker, m>> /\ (TakesSample \/ HandsOut)
    BY <1>1, ObserveShape
  <2> QED BY <2>1 DEF TakesSample, HandsOut, Sampling
<1>2. CASE SampleBegins
  BY <1>2, BeginsShape DEF Sampling, RunInv
<1>3. CASE SampleReads
  BY <1>3, ReadsShape DEF Sampling
<1>4. CASE SampleNow
  BY <1>4, NowShape DEF Sampling
<1>5. CASE WorkerEnded
  <2>1. /\ UNCHANGED m /\ ~Sampling' /\ worker'.copy = worker.copy
        /\ pass'.m.clone \in {m.clone, "running"}
    BY <1>5, EndedShape DEF Sampling
  <2> QED BY <2>1 DEF Finished
<1>6. CASE UpdateStatus
  BY <1>6, StatusShape DEF Sampling, Finished
<1>7. CASE NotFound \/ Forget \/ Stop
  BY <1>7, TeardownShape DEF Sampling, Finished
<1>8. CASE Start
  BY <1>8, StartShape DEF Sampling
<1>9. CASE CopyMoves \/ WorkerEnds \/ Deleted
  BY <1>9, WorldShape DEF Sampling
<1>10. ASSUME NEW l \in loops, LoopBegins(l) \/ LoopReads(l) \/ LoopLands(l) \/ LoopEnds(l)
       PROVE  FinishedInv'
  BY <1>10, LoopShape DEF Sampling
<1>11. CASE UNCHANGED vars
  BY <1>11 DEF vars, Sampling
<1> QED BY <1>1, <1>2, <1>3, <1>4, <1>5, <1>6, <1>7, <1>8, <1>9, <1>10, <1>11, NextCases

LEMMA BegunStep == ASSUME CoreInv, FinishedInv, BegunInv, OldInv, [Next]_vars PROVE BegunInv'
<1>0. TypeOK /\ BoundsInv /\ RunInv
  BY DEF CoreInv
<1> USE <1>0, Numbers, Records, RunFacts DEF BegunInv, Known, Caught, CopyStarted
<1>1. CASE Observe
  <2>1. /\ m.job = worker.job /\ worker.running /\ UNCHANGED <<worker, m>> /\ ~Holding'
    BY <1>1, ObserveShape DEF TakesSample, HandsOut, Holding
  <2>2. CASE UNCHANGED <<run, loops>> /\ TakesSample
    BY <2>1, <2>2 DEF TakesSample, Sampling, Finished
  <2>3. CASE /\ run'.job = m.job /\ run'.hint = CopyStarted(m)
             /\ SameRun \/ NewRun
             /\ TakesSample \/ HandsOut
    <3>1. run'.copySeen => run.copySeen /\ run.job = m.job
      BY <2>3 DEF SameRun, NewRun
    <3>2. \A l \in loops' : l \in loops \/ ~l.got.copySeen
      BY <2>3 DEF SameRun, NewRun
    <3>3. pass'.m.job = m.job /\ (CopyStarted(pass'.m) => CopyStarted(m) \/ run'.copySeen)
      BY <2>3 DEF TakesSample, HandsOut
    <3>4. Sampling' /\ pass'.judge => worker.copy = "done" \/ CopyStarted(m)
      BY <2>3 DEF TakesSample, HandsOut, Sampling, Finished
    <3>5. CopyStarted(m) \/ run'.copySeen => worker.copy # "before"
      BY <2>1, <3>1
    <3>6. worker'.copy # "before" \/ ~Known(worker.job)'
      <4>1. run'.hint => CopyStarted(m)
        BY <2>3
      <4>2. CASE worker.copy # "before"
        BY <2>1, <4>2
      <4>3. CASE ~CopyStarted(m) /\ ~run'.copySeen
        <5>1. ~CopyStarted(m') /\ ~CopyStarted(pass'.m) /\ ~run'.hint
          BY <2>1, <3>3, <4>1, <4>3
        <5> QED BY <4>3, <5>1
      <4> QED BY <3>5, <4>2, <4>3
    <3>7. Sampling' /\ pass'.judge => worker'.copy # "before"
      BY <2>1, <3>4, <3>5
    <3>8. \A l \in loops' : Caught(l.job, l.got)'
      BY <2>1, <3>2
    <3> QED BY <2>1, <3>6, <3>7, <3>8
  <2> QED BY <1>1, <2>2, <2>3, ObserveShape
<1>2. CASE SampleBegins
  BY <1>2, BeginsShape DEF Sampling, Holding, OldInv
<1>3. CASE SampleReads
  BY <1>3, ReadsShape DEF Sampling, Holding
<1>4. CASE SampleNow
  <2>1. /\ Holding /\ Sampling /\ ~Holding' /\ ~Sampling' /\ UNCHANGED <<worker, m, loops>>
        /\ pass'.m.job = m.job /\ pass.got \in Samples
    BY <1>4, NowShape DEF Holding, Sampling
  <2>2. CASE /\ run.job = m.job /\ Land(run, pass.got)
             /\ CopyStarted(pass'.m) => CopyStarted(m) \/ run'.copySeen \/ pass.judge
    <3>1. run'.job = run.job /\ run'.hint = run.hint /\ run'.copySeen = (run.copySeen \/ pass.got.copySeen)
      BY <2>1, <2>2, LandedRun
    <3> QED BY <2>1, <2>2, <3>1
  <2>3. CASE /\ run' = run
             /\ CopyStarted(pass'.m) => CopyStarted(m) \/ pass.got.copySeen \/ pass.judge
    BY <2>1, <2>3
  <2> QED BY <1>4, <2>2, <2>3, NowShape
<1>5. CASE WorkerEnded
  <2>1. ~Sampling' /\ ~Holding' /\ UNCHANGED <<m, run, loops>>
    BY <1>5, EndedShape DEF Sampling, Holding
  <2>2. CASE worker' = worker
    BY <1>5, <2>1, <2>2, EndedShape
  <2>3. CASE /\ worker'.job = worker.job + 1 /\ worker'.copy = worker.copy
             /\ pass'.m.clone = IF m.clone = "done" THEN "done" ELSE "running"
    <3>1. m.clone = "done" => worker'.copy = "done"
      BY <2>3 DEF FinishedInv, Finished
    <3> QED BY <2>1, <2>3, <3>1 DEF BoundsInv
  <2> QED BY <1>5, <2>2, <2>3, EndedShape
<1>6. CASE UpdateStatus
  BY <1>6, StatusShape DEF Sampling, Holding
<1>7. CASE NotFound \/ Forget \/ Stop
  BY <1>7, TeardownShape DEF Sampling, Holding
<1>8. CASE Start
  BY <1>8, StartShape DEF Sampling, Holding
<1>9. CASE CopyMoves \/ WorkerEnds \/ Deleted
  <2>1. /\ worker'.job = worker.job /\ (worker'.running => worker.running)
        /\ worker'.running /\ worker'.copy = "before" => worker.copy = "before"
        /\ UNCHANGED <<m, pass, run, loops>>
    BY <1>9, WorldShape
  <2> QED BY <2>1 DEF Sampling, Holding
<1>10. ASSUME NEW l \in loops, LoopBegins(l) \/ LoopReads(l) \/ LoopLands(l) \/ LoopEnds(l)
       PROVE  BegunInv'
  <2>1. UNCHANGED <<worker, m, pass>> /\ (Holding' <=> Holding) /\ (Sampling' <=> Sampling)
    BY <1>10, LoopShape DEF Holding, Sampling
  <2>2. \A x \in loops' : Caught(x.job, x.got)'
    BY <1>10, <2>1, LoopShape DEF Becomes
  <2>3. /\ run'.job = run.job /\ run'.hint = run.hint
        /\ run'.copySeen => run.copySeen \/ (l.got.copySeen /\ l.job = run.job)
    <3>1. CASE Live(l) /\ Land(run, l.got)
      <4>1. l.got \in Samples /\ l.job = run.job
        BY <3>1 DEF LoopRecords, RunInv
      <4> QED BY <3>1, <4>1, LandedRun
    <3> QED BY <1>10, <3>1, LoopShape
  <2> QED BY <2>1, <2>2, <2>3
<1>11. CASE UNCHANGED vars
  BY <1>11 DEF vars, Holding, Sampling
<1> QED BY <1>1, <1>2, <1>3, <1>4, <1>5, <1>6, <1>7, <1>8, <1>9, <1>10, <1>11, NextCases

LEMMA OldStep == ASSUME CoreInv, BegunInv, OldInv, [Next]_vars PROVE OldInv'
<1>0. TypeOK /\ BoundsInv /\ RunInv
  BY DEF CoreInv
<1> USE <1>0, Numbers, Records, RunFacts DEF OldInv, Known, CopyStarted
<1>1. CASE Observe
  <2>1. /\ UNCHANGED m /\ ~Holding' /\ (pass'.step = "sample" => pass'.got = Zero)
        /\ pass'.m.job = m.job
    BY <1>1, ObserveShape DEF TakesSample, HandsOut, Holding
  <2>2. CASE UNCHANGED <<run, loops, gauges>> /\ TakesSample
    BY <2>1, <2>2 DEF TakesSample, Live
  <2>3. CASE SameRun /\ run'.job = m.job /\ run'.hint = CopyStarted(m) /\ (TakesSample \/ HandsOut)
    <3>1. /\ run'.id = run.id /\ run.job = m.job /\ run'.last = run.last /\ run'.copySeen = run.copySeen
          /\ UNCHANGED <<loops, gauges>>
          /\ CopyStarted(pass'.m) => CopyStarted(m) \/ run.copySeen
      BY <2>3 DEF SameRun, TakesSample, HandsOut
    <3> QED BY <2>1, <2>3, <3>1 DEF Live
  <2>4. CASE NewRun /\ (TakesSample \/ HandsOut)
    <3>1. \A l \in loops' : l \in loops \/ l.got = Zero
      BY <2>4 DEF NewRun
    <3>2. \A l \in loops' : Live(l)' => l.got = Zero
      BY <2>4 DEF NewRun, Live
    <3>3. gauges'.target = gauges.target
      BY <2>4 DEF NewRun
    <3> QED BY <2>1, <3>1, <3>2, <3>3
  <2> QED BY <1>1, <2>2, <2>3, <2>4, ObserveShape
<1>2. CASE SampleBegins
  BY <1>2, BeginsShape DEF Holding, Live
<1>3. CASE SampleReads
  <2>1. /\ Holding /\ Sampling /\ pass'.step = "read" /\ pass'.got.at = pass.got.at
        /\ pass'.got.target = "old" => /\ ~pass'.got.copySeen /\ worker.running
                                       /\ worker.job = m.job /\ worker.copy = "before"
        /\ pass'.m = pass.m /\ pass'.judge = pass.judge /\ UNCHANGED <<m, run, loops, gauges>>
    BY <1>3, ReadsShape DEF Holding, Sampling
  <2>2. pass'.got.target = "old" => ~pass'.got.copySeen /\ ~pass'.judge /\ ~CopyStarted(m)
    BY <2>1 DEF BegunInv
  <2> QED BY <2>1, <2>2 DEF Live
<1>4. CASE SampleNow
  <2>1. /\ Holding /\ Sampling /\ ~Holding' /\ pass'.step = "write" /\ UNCHANGED <<m, loops>>
        /\ pass'.m.job = m.job /\ pass.got \in Samples
    BY <1>4, NowShape DEF Holding, Sampling
  <2>2. CASE ~pass.self /\ run.job = m.job /\ Land(run, pass.got)
    <3>1. run'.id = run.id /\ run'.job = run.job /\ run'.last.at >= pass.got.at /\ run'.last.at \in Nat
      BY <2>1, <2>2, LandedRun
    <3>2. \A l \in loops : Live(l) /\ l.got.target = "old" => l.got.at < run'.last.at
      BY <2>1, <2>2, <3>1
    <3>3. gauges'.target # "old"
      <4>1. pass.judge
        BY <2>1, <2>2 DEF RunInv
      <4> QED BY <2>1, <2>2, <4>1, LandShape
    <3> QED BY <2>1, <3>1, <3>2, <3>3 DEF Live
  <2>3. CASE /\ run' = run
             /\ (~pass.self /\ run.job # m.job /\ gauges' = gauges) \/
                (pass.self /\ gauges' = Publish(gauges, pass.got, CopyStarted(m) \/ pass.got.copySeen))
    <3>1. \A l \in loops : ~Live(l)
      BY <2>1, <2>3
    <3>2. gauges'.target # "old"
      <4>1. (CopyStarted(m) \/ pass.got.copySeen) \in BOOLEAN
        BY DEF Samples
      <4>2. CASE gauges' = Publish(gauges, pass.got, CopyStarted(m) \/ pass.got.copySeen)
        <5>1. \/ gauges'.target = gauges.target
              \/ (CopyStarted(m) \/ pass.got.copySeen) /\ gauges'.target = pass.got.target
          BY <4>1, <4>2, PublishShape
        <5> QED BY <2>1, <5>1
      <4> QED BY <2>3, <4>2
    <3> QED BY <2>1, <2>3, <3>1, <3>2 DEF Live
  <2> QED BY <1>4, <2>2, <2>3, NowShape
<1>5. CASE WorkerEnded
  <2>1. /\ ~Holding' /\ pass'.step # "sample" /\ UNCHANGED <<m, run, loops, gauges>>
        /\ \/ pass'.m.job = m.job /\ pass'.m.clone = m.clone
           \/ pass'.m.job > run.job
    BY <1>5, EndedShape DEF Holding, BoundsInv
  <2> QED BY <2>1 DEF Live
<1>6. CASE UpdateStatus
  <2>1. /\ ~Holding' /\ pass'.step # "sample" /\ pass'.m = NewMigration /\ m' \in {m, pass.m}
        /\ gauges'.target = gauges.target /\ UNCHANGED <<run, loops>>
    BY <1>6, StatusShape DEF Holding
  <2> QED BY <2>1 DEF Live
<1>7. CASE NotFound \/ Forget \/ Stop
  <2>1. /\ ~Holding' /\ pass'.step # "sample" /\ pass'.m = NewMigration /\ run' \in {run, NoRun}
        /\ gauges'.target \in {gauges.target, "none"} /\ UNCHANGED <<m, loops>>
    BY <1>7, TeardownShape DEF Holding
  <2> QED BY <2>1 DEF Live
<1>8. CASE Start
  <2>1. /\ UNCHANGED <<m, pass, loops>> /\ run' \in {run, NoRun} /\ (Holding' <=> Holding)
        /\ gauges'.target = gauges.target
    BY <1>8, StartShape DEF Holding
  <2> QED BY <2>1 DEF Live
<1>9. CASE CopyMoves \/ WorkerEnds \/ Deleted
  BY <1>9, WorldShape DEF Holding, Live
<1>10. ASSUME NEW l \in loops, LoopBegins(l) \/ LoopReads(l) \/ LoopLands(l) \/ LoopEnds(l)
       PROVE  OldInv'
  <2>1. UNCHANGED <<m, pass>> /\ (Holding' <=> Holding)
    BY <1>10, LoopShape DEF Holding
  <2>2. CASE /\ UNCHANGED <<run, gauges>>
             /\ \E n : Becomes(l, n) /\ n.got.target = "none" /\ ~n.got.copySeen
    BY <2>1, <2>2 DEF Becomes, Live
  <2>3. CASE /\ UNCHANGED <<run, gauges>>
             /\ \E n : /\ Becomes(l, n) /\ n.got.at = l.got.at
                       /\ n.got.target = "old" => /\ ~n.got.copySeen /\ worker.running
                                                  /\ worker.job = l.job /\ worker.copy = "before"
    <3>1. PICK n : /\ Becomes(l, n) /\ n.got.at = l.got.at
                   /\ n.got.target = "old" => /\ ~n.got.copySeen /\ worker.running
                                              /\ worker.job = l.job /\ worker.copy = "before"
      BY <2>3
    <3>2. n.run = l.run /\ n.job = l.job /\ loops' = (loops \ {l}) \cup {n}
      BY <3>1 DEF Becomes
    <3>3. Live(n) /\ n.got.target = "old" => ~Known(run.job) /\ ~(Holding /\ run.job = m.job)
      <4>1. SUFFICES ASSUME Live(n), n.got.target = "old"
                     PROVE  ~Known(run.job) /\ ~(Holding /\ run.job = m.job)
        OBVIOUS
      <4>2. worker.running /\ worker.job = run.job /\ worker.copy = "before" /\ run # NoRun
        BY <3>1, <3>2, <4>1 DEF Live, RunInv
      <4>3. ~(Holding /\ run.job = m.job)
        BY <4>2 DEF BegunInv, RunInv, Holding, Sampling
      <4> QED BY <4>2, <4>3 DEF BegunInv
    <3> QED BY <2>1, <2>3, <3>1, <3>2, <3>3 DEF Live
  <2>4. CASE /\ Live(l) /\ Land(run, l.got)
             /\ \E n : Becomes(l, n) /\ n.got = Zero
    <3>1. l.got \in Samples
      BY DEF LoopRecords
    <3>2. run'.id = run.id
      BY <2>4, <3>1, LandedRun
    <3>3. \A x \in loops' : /\ x.got.target = "old" => ~x.got.copySeen
                            /\ Live(x)' => x.got = Zero
      BY <2>4, <3>2 DEF Becomes, Live, RunInv
    <3>4. gauges'.target # "old"
      BY <2>4, <3>1, LandShape
    <3> QED BY <2>1, <3>3, <3>4
  <2>5. CASE loops' = loops \ {l} /\ UNCHANGED <<run, gauges>>
    BY <2>1, <2>5 DEF Live
  <2> QED BY <1>10, <2>2, <2>3, <2>4, <2>5, LoopShape
<1>11. CASE UNCHANGED vars
  BY <1>11 DEF vars, Holding, Live
<1> QED BY <1>1, <1>2, <1>3, <1>4, <1>5, <1>6, <1>7, <1>8, <1>9, <1>10, <1>11, NextCases

\* "until then the target holds whatever an earlier run left there" (sampler.go:214): what
\* is published is of the copy the worker makes or goes on from, however the samples
\* overlap and over every attempt, one that finds the copy finished included.
THEOREM SizeIsOfTheCopy == Spec => []TargetSizeIsOfTheCopy
<1>1. Init => FinishedInv /\ BegunInv /\ OldInv
  BY Records DEF Init, FinishedInv, BegunInv, OldInv, Finished, Holding, Sampling, NoSeries
<1>2. CoreInv /\ FinishedInv /\ BegunInv /\ OldInv /\ [Next]_vars => FinishedInv' /\ BegunInv' /\ OldInv'
  BY FinishedStep, BegunStep, OldStep
<1>3. OldInv => TargetSizeIsOfTheCopy
  BY DEF OldInv, TargetSizeIsOfTheCopy
<1> QED BY <1>1, <1>2, <1>3, CoreCorrect, PTL DEF Spec
=============================================================================
