---------------------------- MODULE SamplerRuns ----------------------------
(***************************************************************************)
(* The sampler of one Migration (sampler.go): a goroutine per run reads    *)
(* the databases on its own timer while passes of the reconciler observe   *)
(* it, take a sample of their own, or stop it. Both publish gauges under   *)
(* one mutex; only the pass writes the status. CommitsBlocked (syncrep.go) *)
(* is what a pass makes of the samples.                                    *)
(*                                                                         *)
(* A sample begins (its time), reads the databases, and lands under the    *)
(* mutex: three steps, so that two samples overlap in every way. What a    *)
(* caller does while it holds the mutex is one step.                       *)
(***************************************************************************)
EXTENDS Integers, FiniteSets

CONSTANTS
  MaxJobs,     \* worker Jobs the Migration gets
  MaxRuns,     \* runs of the sampler
  MaxSamples   \* samples that begin

ASSUME BoundsAssumption == MaxJobs \in Nat \ {0} /\ MaxRuns \in Nat /\ MaxSamples \in Nat

VARIABLES
  worker,   \* the worker Job: its number, whether it runs, how it ended, its copy
  m,        \* the Migration's status
  object,   \* the Migration: there, gone from the server, gone from the cache, looked at
  pass,     \* the pass under way
  ctx,      \* the sampler's context: not started, live, ended
  run,      \* the run the sampler keeps for the Migration
  loops,    \* goroutines, those of canceled runs included
  gauges,   \* the Migration's series
  clock, runs, \* samples begun, runs started
  overs,    \* the samples over the threshold that a run got, for the properties
  handed    \* when the newest sample that a pass was handed began, for the properties

vars == <<worker, m, object, pass, ctx, run, loops, gauges, clock, runs, overs, handed>>
sampler == <<ctx, run, loops, gauges, runs, overs>>

-----------------------------------------------------------------------------
(* Samples. "old" is what an earlier run or attempt left on the target, "own" what the   *)
(* copy that the worker made or goes on from put there. *)

Waits == {"unknown", "under", "over"}
Sizes == {"none", "old", "own"}
Samples == [at : Nat, target : Sizes, copySeen : BOOLEAN, sync : Waits, confirmed : BOOLEAN]

Zero == [at |-> 0, target |-> "none", copySeen |-> FALSE, sync |-> "unknown", confirmed |-> FALSE]
SyncRepOver(s) == s.sync = "over"

\* What a sample of job may read: nothing when psql or the pod fails, the copy only when
\* it catches a copy worker, and any wait of any session.
CopyInSight == IF worker.copy = "moving" THEN BOOLEAN ELSE {FALSE}
Read(copySeen, wait) ==
  [Zero EXCEPT !.target = IF worker.copy = "before" THEN "old" ELSE "own",
               !.copySeen = copySeen, !.sync = wait]
Readings(job) ==
  {Zero} \cup
  IF worker.job = job /\ worker.running
  THEN {Read(copySeen, wait) : copySeen \in CopyInSight, wait \in Waits}
  ELSE {}

NoRun == [id |-> 0, job |-> 0, hint |-> FALSE, last |-> Zero, copySeen |-> FALSE, over |-> FALSE]
Runs == [id : Nat, job : 0..MaxJobs, hint : BOOLEAN, last : Samples, copySeen : BOOLEAN, over : BOOLEAN]

\* Faulty variant: one sample over the threshold confirms a wait.
OneOverConfirms(r, got) ==
  LET seen == r.copySeen \/ got.copySeen IN
  IF got.at < r.last.at THEN [r EXCEPT !.copySeen = seen]
  ELSE [r EXCEPT !.copySeen = seen, !.over = SyncRepOver(got),
                 !.last = [got EXCEPT !.copySeen = seen, !.confirmed = SyncRepOver(got)]]

\* Faulty variant: the newest to land wins.
LastLandedWins(r, got) ==
  LET seen == r.copySeen \/ got.copySeen IN
  [r EXCEPT !.copySeen = seen, !.over = SyncRepOver(got),
            !.last = [got EXCEPT !.copySeen = seen, !.confirmed = SyncRepOver(got) /\ r.over]]

\* The run and the sample it hands out once got has landed.
KeepLocked(r, got) ==
  LET seen == r.copySeen \/ got.copySeen
      kept == [got EXCEPT !.copySeen = seen, !.confirmed = SyncRepOver(got) /\ r.over]
  IN IF got.at < r.last.at THEN [r EXCEPT !.copySeen = seen]
     ELSE [r EXCEPT !.copySeen = seen, !.over = SyncRepOver(got), !.last = kept]

\* Faulty variant: the target's size does not wait for the copy.
PublishesAnyTarget(g, s, copyStarted) ==
  [g EXCEPT !.source = IF s.target = "none" THEN @ ELSE s.at,
            !.target = IF s.target = "none" THEN @ ELSE s.target,
            !.sync = s.sync]

\* The gauges after a sample: an unread size keeps the last one, an unread wait deletes it.
Publish(g, s, copyStarted) ==
  [g EXCEPT !.source = IF s.target = "none" THEN @ ELSE s.at,
            !.target = IF s.target = "none" \/ ~copyStarted THEN @ ELSE s.target,
            !.sync = s.sync]

\* What keepLocked publishes: nothing of a superseded sample.
KeptGauges(r, got) ==
  IF got.at < r.last.at THEN gauges
  ELSE Publish(gauges, got, r.hint \/ r.copySeen \/ got.copySeen)

Land(r, got) ==
  /\ run' = KeepLocked(r, got)
  /\ gauges' = KeptGauges(r, got)
  /\ overs' = IF SyncRepOver(got) THEN overs \cup {<<r.id, got.at>>} ELSE overs

NoSeries == [source |-> 0, target |-> "none", sync |-> "unknown", status |-> FALSE]

\* Faulty variant: without a run there is nothing to clear.
StopsOwnRun ==
  /\ run' = NoRun
  /\ gauges' = IF run = NoRun THEN gauges ELSE [gauges EXCEPT !.sync = "unknown"]

StopLocked == run' = NoRun /\ gauges' = [gauges EXCEPT !.sync = "unknown"]

-----------------------------------------------------------------------------
(* The pass. *)

CloneStates == {"running", "copying", "refused", "done"}
Statuses == [job : 0..MaxJobs, clone : CloneStates, blocked : {"none", "false", "true", "unknown"}]
Steps == {"idle", "sample", "begun", "read", "write", "stop", "forget"}
Passes == [step : Steps, observing : BOOLEAN, judge : BOOLEAN, self : BOOLEAN, got : Samples, m : Statuses]

NewMigration == [job |-> 0, clone |-> "running", blocked |-> "none"]
Idle == [step |-> "idle", observing |-> FALSE, judge |-> FALSE, self |-> FALSE, got |-> Zero,
         m |-> NewMigration]

\* A pass may start until the manager stops, which it does with the sampler's context, and
\* may read a deleted Migration from a cache that has not heard.
PassStarts == pass.step = "idle" /\ ctx # "ended"
Cached == PassStarts /\ object \in {"there", "gone"}

\* hintFor: what status knows of the copy.
CopyStarted(s) == s.clone # "running"

\* A sample is judged by when the worker logged its marker, or a refusal stands.
Judges(marker) == m.clone # "done" /\ (marker \/ m.clone = "refused")

\* Faulty variant: the reading itself is stored as the condition.
WaitAsStatus(s, got) ==
  IF got.at = 0 \/ (got.sync = "over" /\ ~got.confirmed) THEN s ELSE [s EXCEPT !.blocked = got.sync]

\* CommitsBlocked, from the sample the pass got.
ApplyCommitsBlocked(s, got) ==
  IF got.at = 0 \/ (got.sync = "over" /\ ~got.confirmed) THEN s
  ELSE [s EXCEPT !.blocked = CASE got.sync = "over" -> "true"
                               [] got.sync = "under" -> "false"
                               [] got.sync = "unknown" -> IF @ = "true" THEN @ ELSE "unknown"]

\* The statuses a pass may make of its sample; a judged marker is believed or refused by
\* counts the sample need not have.
Applied(s, got, judge) ==
  LET b == ApplyCommitsBlocked(s, got)
      c == IF got.target # "none" /\ got.copySeen /\ s.clone = "running"
           THEN [b EXCEPT !.clone = "copying"] ELSE b
  IN {c} \cup (IF judge THEN {[c EXCEPT !.clone = x] : x \in {"refused", "done"}} ELSE {})

HandOver(got) == handed' = IF got.at = 0 THEN handed ELSE got.at

Write(got, judge) ==
  /\ HandOver(got)
  /\ \E s \in Applied(m, got, judge) :
       pass' = [Idle EXCEPT !.step = "write", !.observing = TRUE, !.got = got, !.m = s]

\* Observe keeps a run going for the worker's Job.
Keep(job, hint) ==
  IF run.job = job THEN
    /\ run' = [run EXCEPT !.hint = hint]
    /\ UNCHANGED <<loops, gauges, runs>>
  ELSE
    /\ runs < MaxRuns /\ runs' = runs + 1
    /\ run' = [NoRun EXCEPT !.id = runs', !.job = job, !.hint = hint]
    /\ loops' = loops \cup {[run |-> runs', job |-> job, step |-> "wait", got |-> Zero]}
    /\ gauges' = IF run = NoRun THEN gauges ELSE [gauges EXCEPT !.sync = "unknown"]

\* A pass that finds its worker running: the sampler's latest sample, or one of its own
\* when a marker is to be judged or no sampler is live.
Observe ==
  /\ Cached /\ worker.running /\ m.job = worker.job
  /\ \E marker \in {FALSE, worker.copy = "done"} :
       LET judge == Judges(marker) IN
       \/ /\ ctx = "live"
          /\ Keep(m.job, CopyStarted(m))
          /\ IF judge
             THEN /\ pass' = [Idle EXCEPT !.step = "sample", !.judge = TRUE, !.m = m]
                  /\ UNCHANGED handed
             ELSE Write([run'.last EXCEPT !.copySeen = run'.copySeen], FALSE)
       \/ /\ ctx # "live"
          /\ pass' = [Idle EXCEPT !.step = "sample", !.judge = judge, !.self = TRUE, !.m = m]
          /\ UNCHANGED <<run, loops, gauges, runs, handed>>
  /\ UNCHANGED <<worker, m, object, ctx, clock, overs>>

SampleBegins ==
  /\ pass.step = "sample" /\ clock < MaxSamples
  /\ clock' = clock + 1
  /\ pass' = [pass EXCEPT !.step = "begun", !.got.at = clock']
  /\ UNCHANGED <<worker, m, object, sampler, handed>>

SampleReads ==
  /\ pass.step = "begun"
  /\ \E got \in Readings(m.job) :
       pass' = [pass EXCEPT !.step = "read", !.got = [got EXCEPT !.at = pass.got.at]]
  /\ UNCHANGED <<worker, m, object, sampler, clock, handed>>

\* SampleNow keeps the sample as the run's own and returns it, superseded or not; without
\* a sampler the pass publishes it.
SampleNow ==
  /\ pass.step = "read"
  /\ \/ /\ ~pass.self /\ run.job = m.job
        /\ Land(run, pass.got)
        /\ Write(IF run'.last.at = pass.got.at THEN run'.last
                 ELSE [pass.got EXCEPT !.copySeen = run'.copySeen], pass.judge)
     \/ /\ ~pass.self /\ run.job # m.job
        /\ Write(pass.got, pass.judge)
        /\ UNCHANGED <<run, gauges, overs>>
     \/ /\ pass.self
        /\ gauges' = Publish(gauges, pass.got, CopyStarted(m) \/ pass.got.copySeen)
        /\ Write(pass.got, pass.judge)
        /\ UNCHANGED <<run, overs>>
  /\ UNCHANGED <<worker, m, object, ctx, loops, clock, runs>>

\* recordAttempt: "A finished base copy does not un-happen", one still owed begins again.
NextAttempt(s) == [s EXCEPT !.job = @ + 1, !.clone = IF @ = "done" THEN @ ELSE "running"]

\* A pass that finds no running worker: it may judge an exit, or start the next attempt.
WorkerEnded ==
  /\ Cached /\ ~worker.running
  /\ \/ /\ pass' = [Idle EXCEPT !.step = "write",
                    !.m = IF worker.ok /\ m.blocked # "none" THEN [m EXCEPT !.blocked = "false"] ELSE m]
        /\ UNCHANGED worker
     \/ /\ ~worker.ok /\ worker.job = m.job /\ m.job < MaxJobs
        /\ pass' = [Idle EXCEPT !.step = "write", !.m = NextAttempt(m)]
        /\ worker' = [worker EXCEPT !.job = @ + 1, !.running = TRUE]
  /\ UNCHANGED <<m, object, sampler, clock, handed>>

\* The status write: the series first, then the patch, which a deleted Migration refuses.
UpdateStatus ==
  /\ pass.step = "write"
  /\ gauges' = [gauges EXCEPT !.status = TRUE]
  /\ m' = IF object = "there" THEN pass.m ELSE m
  /\ pass' = IF pass.observing THEN [Idle EXCEPT !.observing = TRUE] ELSE [Idle EXCEPT !.step = "stop"]
  /\ UNCHANGED <<worker, object, ctx, run, loops, clock, runs, overs, handed>>

\* Faulty variant: the series go before the sampler that writes them.
ForgetsFirst ==
  /\ PassStarts /\ object = "unseen"
  /\ object' = "handled"
  /\ pass' = [Idle EXCEPT !.step = "forget"]
  /\ UNCHANGED <<worker, m, ctx, run, loops, gauges, clock, runs, overs, handed>>

\* A pass on a Migration that is gone: Stop, then Forget, then the deferred Stop.
NotFound ==
  /\ PassStarts /\ object = "unseen"
  /\ object' = "handled"
  /\ StopLocked
  /\ pass' = [Idle EXCEPT !.step = "forget"]
  /\ UNCHANGED <<worker, m, ctx, loops, clock, runs, overs, handed>>

Forget ==
  /\ pass.step = "forget"
  /\ gauges' = NoSeries
  /\ pass' = [Idle EXCEPT !.step = "stop"]
  /\ UNCHANGED <<worker, m, object, ctx, run, loops, clock, runs, overs, handed>>

Stop ==
  /\ pass.step = "stop"
  /\ StopLocked
  /\ pass' = Idle
  /\ UNCHANGED <<worker, m, object, ctx, loops, clock, runs, overs, handed>>

-----------------------------------------------------------------------------
(* The goroutines, and the manager that starts and ends the sampler. *)

Canceled(l) == run.id # l.run
Step(l, next) == loops' = (loops \ {l}) \cup {next}

\* A sample at once, then one per period; a canceled loop may still see its timer first.
LoopBegins(l) ==
  /\ l.step = "wait" /\ clock < MaxSamples
  /\ clock' = clock + 1
  /\ Step(l, [l EXCEPT !.step = "begun", !.got = [Zero EXCEPT !.at = clock']])
  /\ UNCHANGED <<worker, m, object, pass, ctx, run, gauges, runs, overs, handed>>

LoopReads(l) ==
  /\ l.step = "begun"
  /\ \E got \in IF Canceled(l) THEN {Zero} ELSE Readings(l.job) :
       Step(l, [l EXCEPT !.step = "read", !.got = [got EXCEPT !.at = l.got.at]])
  /\ UNCHANGED <<worker, m, object, pass, ctx, run, gauges, clock, runs, overs, handed>>

\* The mutex is taken: a canceled loop keeps nothing and ends.
LoopLands(l) ==
  /\ l.step = "read"
  /\ IF Canceled(l)
     THEN loops' = loops \ {l} /\ UNCHANGED <<run, gauges, overs>>
     ELSE Land(run, l.got) /\ Step(l, [l EXCEPT !.step = "wait", !.got = Zero])
  /\ UNCHANGED <<worker, m, object, pass, ctx, clock, runs, handed>>

LoopEnds(l) ==
  /\ l.step = "wait" /\ Canceled(l)
  /\ loops' = loops \ {l}
  /\ UNCHANGED <<worker, m, object, pass, ctx, run, gauges, clock, runs, overs, handed>>

\* Start, and the end of its context, which ends every run.
Start ==
  /\ \/ ctx = "new" /\ ctx' = "live" /\ UNCHANGED <<run, gauges>>
     \/ /\ ctx = "live" /\ ctx' = "ended"
        /\ IF run = NoRun THEN UNCHANGED <<run, gauges>> ELSE StopLocked
  /\ UNCHANGED <<worker, m, object, pass, loops, clock, runs, overs, handed>>

-----------------------------------------------------------------------------
(* The worker, the databases, and the user. *)

CopyMoves ==
  /\ worker.running /\ object # "handled"
  /\ \/ worker.copy = "before" /\ worker' = [worker EXCEPT !.copy = "moving"]
     \/ worker.copy = "moving" /\ worker' = [worker EXCEPT !.copy = "done"]
  /\ UNCHANGED <<m, object, pass, sampler, clock, handed>>

\* The next worker resumes: it does not copy again what was copied, but what it still owes
\* begins again, over what the attempt before left.
WorkerEnds ==
  /\ worker.running /\ object # "handled"
  /\ \E ok \in BOOLEAN :
       worker' = [worker EXCEPT !.running = FALSE, !.ok = ok,
                                !.copy = IF @ = "done" THEN @ ELSE "before"]
  /\ UNCHANGED <<m, object, pass, sampler, clock, handed>>

\* Deleted on the server, then in the cache, which queues the Migration once more.
Deleted ==
  /\ \/ object = "there" /\ object' = "gone"
     \/ object = "gone" /\ object' = "unseen"
  /\ UNCHANGED <<worker, m, pass, sampler, clock, handed>>

-----------------------------------------------------------------------------
Init ==
  /\ worker = [job |-> 0, running |-> FALSE, ok |-> FALSE, copy |-> "before"]
  /\ m = NewMigration /\ object = "there" /\ pass = Idle
  /\ ctx = "new" /\ run = NoRun /\ loops = {} /\ gauges = NoSeries
  /\ clock = 0 /\ runs = 0 /\ overs = {} /\ handed = 0

Loop == \E l \in loops : LoopReads(l) \/ LoopLands(l) \/ LoopEnds(l)

Next ==
  \/ Observe \/ SampleBegins \/ SampleReads \/ SampleNow \/ WorkerEnded \/ UpdateStatus
  \/ NotFound \/ Forget \/ Stop
  \/ (\E l \in loops : LoopBegins(l)) \/ Loop \/ Start
  \/ CopyMoves \/ WorkerEnds \/ Deleted

Spec == Init /\ [][Next]_vars

-----------------------------------------------------------------------------
(* What must hold. *)

\* Every variable keeps its type.
TypeOK ==
  /\ worker \in [job : 0..MaxJobs, running : BOOLEAN, ok : BOOLEAN,
                 copy : {"before", "moving", "done"}]
  /\ m \in Statuses /\ object \in {"there", "gone", "unseen", "handled"} /\ pass \in Passes
  /\ ctx \in {"new", "live", "ended"} /\ run \in Runs
  /\ \A l \in loops : l \in [run : 1..runs, job : 1..MaxJobs, step : {"wait", "begun", "read"}, got : Samples]
  /\ gauges \in [source : Nat, target : Sizes, sync : Waits, status : BOOLEAN]
  /\ clock \in 0..MaxSamples /\ runs \in 0..MaxRuns /\ handed \in 0..clock
  /\ overs \subseteq (1..runs) \X (1..clock)

\* "status and the gauges never step back" (sampler.go:147): a pass is never handed a
\* sample that began before one it had, and the size gauges never return to an older one
\* unless they were forgotten.
NeverStepsBack ==
  [][handed' >= handed /\ (gauges'.source >= gauges.source \/ gauges' = NoSeries)]_vars

\* "Once it returns the run writes no gauge, so a following metrics.Forget stays final"
\* (sampler.go:171): a deleted Migration's series never come back.
ForgetStaysFinal == object = "handled" /\ pass.step \in {"stop", "idle"} => gauges = NoSeries

\* "until then the target holds whatever an earlier run left there" (sampler.go:214): the
\* target's size is published only of the copy that the worker makes, or that a worker
\* before it finished, though a finished copy is known from its first sample on.
TargetSizeIsOfTheCopy == gauges.target # "old"

\* A pass that observed no worker leaves no wait of one behind (sampler.go:178).
NoStaleWaits ==
  pass.step = "idle" /\ ~pass.observing => gauges.sync = "unknown" /\ run = NoRun

\* CommitsBlocked is raised by two samples of one run that were both over the threshold,
\* never by one that was handed out twice (syncrep.go:33).
BlockedNeedsTwo ==
  [][m'.blocked = "true" /\ m.blocked # "true" =>
       \E id \in 1..runs, at \in 1..clock :
         at < pass.got.at /\ {<<id, at>>, <<id, pass.got.at>>} \subseteq overs]_vars
=============================================================================
