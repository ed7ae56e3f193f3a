-------------------------- MODULE CloneFinishProofs --------------------------
(***************************************************************************)
(* The preflight of CloneFinish, for every set of specs and every bound:   *)
(* a script that has passed was earned.                                    *)
(***************************************************************************)
EXTENDS CloneFinish, SequenceTheorems, TLAPS

(* The script of a spec is a sequence, and never empty. *)

\* Every check that a script of sp may have.
Checks(sp) ==
  {Connect("source"), Connect("target"), Gate("direct source"), Gate("direct target"),
   Gate("commits local"), Warn("temporary"), Gate("runner defers"), GateStop("same major"),
   GateAlone("restores into target")} \cup
  {Gate("source is superuser"), GateStop("target is superuser"), GateStop("databases listed"),
   GateStop("extensions available"), GateStop("extensions owned"), GateStop("owner exists"),
   FixCommand(sp, "can set role", "target")} \cup
  {Fix(sp, "create in database", "target"), Fix(sp, "create in schemas", "target"),
   Gate("owns database"), RowSecurityAudit,
   Connect("superuser source"), Connect("superuser target")} \cup
  {Gate("wal logical"), Gate("slot free"), Warn("sender timeout"),
   Fix(sp, "replication", "source"), Fix(sp, "origin functions", "target"),
   FixCommand(sp, "replica role", "target"), UnloggedAudit, ReplicaIdentityAudit}

LEMMA WhenType ==
  ASSUME NEW S, NEW cond, NEW checks \in Seq(S)
  PROVE  When(cond, checks) \in Seq(S)
BY DEF When

LEMMA ConcatType ==
  ASSUME NEW S, NEW s \in Seq(S), NEW t \in Seq(S)
  PROVE  s \o t \in Seq(S) /\ (Len(s) > 0 \/ Len(t) > 0 => Len(s \o t) > 0)
BY ConcatProperties, LenProperties

LEMMA TupleTypes ==
  ASSUME NEW S, NEW a \in S, NEW b \in S, NEW c \in S, NEW d \in S
  PROVE  /\ <<a>> \in Seq(S) /\ Len(<<a>>) = 1 /\ <<a, b>> \in Seq(S)
         /\ <<a, b, c>> \in Seq(S) /\ <<a, b, c, d>> \in Seq(S)
OBVIOUS

LEMMA EightType ==
  ASSUME NEW S, NEW a \in S, NEW b \in S, NEW c \in S, NEW d \in S,
         NEW e \in S, NEW f \in S, NEW g \in S, NEW h \in S
  PROVE  <<a, b, c, d, e, f, g, h>> \in Seq(S)
OBVIOUS

LEMMA PreludeType ==
  ASSUME NEW sp
  PROVE  Prelude(sp) \in Seq(Checks(sp)) /\ Len(Prelude(sp)) > 0
<1> DEFINE first == <<Connect("source"), Connect("target"), Gate("direct source"), Gate("direct target")>>
           commits == When("synchronousCommit" \in sp.flags, <<Gate("commits local")>>)
           temp == <<Warn("temporary")>>
           defers == When("deferIndexes" \in sp.flags, <<Gate("runner defers")>>)
           major == When("sameMajor" \in sp.flags, <<GateStop("same major")>>)
           restores == <<GateAlone("restores into target")>>
<1>1. /\ Connect("source") \in Checks(sp) /\ Connect("target") \in Checks(sp)
      /\ Gate("direct source") \in Checks(sp) /\ Gate("direct target") \in Checks(sp)
      /\ Warn("temporary") \in Checks(sp) /\ GateAlone("restores into target") \in Checks(sp)
      /\ Gate("commits local") \in Checks(sp) /\ Gate("runner defers") \in Checks(sp) /\ GateStop("same major") \in Checks(sp)
  BY DEF Checks
<1>2. Prelude(sp) = (((((first \o commits) \o temp) \o defers) \o major) \o restores)
  BY DEF Prelude
<1>3. first \in Seq(Checks(sp)) /\ temp \in Seq(Checks(sp))
  BY <1>1, TupleTypes
<1>4. restores \in Seq(Checks(sp)) /\ Len(restores) = 1
  BY <1>1, TupleTypes
<1>5. commits \in Seq(Checks(sp)) /\ defers \in Seq(Checks(sp)) /\ major \in Seq(Checks(sp))
  <2>1. /\ <<Gate("commits local")>> \in Seq(Checks(sp))
        /\ <<Gate("runner defers")>> \in Seq(Checks(sp))
        /\ <<GateStop("same major")>> \in Seq(Checks(sp))
    BY <1>1, TupleTypes
  <2> QED BY <2>1, WhenType
<1> DEFINE before == ((((first \o commits) \o temp) \o defers) \o major)
<1> HIDE DEF first, commits, temp, defers, major, restores
<1>6. before \in Seq(Checks(sp))
  BY <1>3, <1>5, ConcatType
<1>7. Prelude(sp) = before \o restores
  BY <1>2
<1> HIDE DEF before
<1>8. before \o restores \in Seq(Checks(sp)) /\ Len(before \o restores) > 0
  BY <1>4, <1>6, ConcatType
<1> QED BY <1>7, <1>8

LEMMA AllDatabasesType == ASSUME NEW sp PROVE AllDatabasesChecks(sp) \in Seq(Checks(sp))
<1> DEFINE first == <<Gate("source is superuser"), GateStop("target is superuser"), GateStop("databases listed")>>
           available == <<GateStop("extensions available")>>
<1>1. /\ Gate("source is superuser") \in Checks(sp) /\ GateStop("target is superuser") \in Checks(sp)
      /\ GateStop("databases listed") \in Checks(sp) /\ GateStop("extensions available") \in Checks(sp)
  BY DEF Checks
<1>2. first \in Seq(Checks(sp)) /\ available \in Seq(Checks(sp))
  BY <1>1, TupleTypes
<1>3. AllDatabasesChecks(sp) = first \o When("extensions" \in sp.flags, available)
  BY DEF AllDatabasesChecks
<1> HIDE DEF first, available
<1>4. When("extensions" \in sp.flags, available) \in Seq(Checks(sp))
  BY <1>2, WhenType
<1> QED BY <1>2, <1>3, <1>4, ConcatType

LEMMA ExtensionType == ASSUME NEW sp PROVE ExtensionChecks(sp) \in Seq(Checks(sp))
<1> DEFINE available == <<GateStop("extensions available")>>
           owned == When(sp.flags \cap {"dropIfExists", "comments"} # {}, <<GateStop("extensions owned")>>)
<1>1. GateStop("extensions available") \in Checks(sp) /\ GateStop("extensions owned") \in Checks(sp)
  BY DEF Checks
<1>2. available \in Seq(Checks(sp)) /\ <<GateStop("extensions owned")>> \in Seq(Checks(sp))
  BY <1>1, TupleTypes
<1>3. owned \in Seq(Checks(sp))
  BY <1>2, WhenType
<1>4. ExtensionChecks(sp) = When("extensions" \in sp.flags, available \o owned)
  BY DEF ExtensionChecks
<1> HIDE DEF available, owned
<1>5. available \o owned \in Seq(Checks(sp))
  BY <1>2, <1>3, ConcatType
<1> QED BY <1>4, <1>5, WhenType

LEMMA OwnerType == ASSUME NEW sp PROVE OwnerChecks(sp) \in Seq(Checks(sp))
<1>1. GateStop("owner exists") \in Checks(sp) /\ FixCommand(sp, "can set role", "target") \in Checks(sp)
  BY DEF Checks
<1>2. <<GateStop("owner exists"), FixCommand(sp, "can set role", "target")>> \in Seq(Checks(sp))
  BY <1>1, TupleTypes
<1> QED BY <1>2, WhenType DEF OwnerChecks

LEMMA CloneType == ASSUME NEW sp PROVE CloneChecks(sp) \in Seq(Checks(sp))
<1> DEFINE creates == <<Fix(sp, "create in database", "target"), Fix(sp, "create in schemas", "target")>>
           owns == When("dbProperties" \in sp.flags, <<Gate("owns database")>>)
           rows == <<RowSecurityAudit>>
<1>1. /\ Fix(sp, "create in database", "target") \in Checks(sp)
      /\ Fix(sp, "create in schemas", "target") \in Checks(sp)
      /\ Gate("owns database") \in Checks(sp) /\ RowSecurityAudit \in Checks(sp)
  BY DEF Checks
<1>2. creates \in Seq(Checks(sp)) /\ rows \in Seq(Checks(sp)) /\ <<Gate("owns database")>> \in Seq(Checks(sp))
  BY <1>1, TupleTypes
<1>3. owns \in Seq(Checks(sp))
  BY <1>2, WhenType
<1>4. CloneChecks(sp) = (creates \o owns) \o rows
  BY DEF CloneChecks
<1> HIDE DEF creates, owns, rows
<1>5. creates \o owns \in Seq(Checks(sp))
  BY <1>2, <1>3, ConcatType
<1>6. (creates \o owns) \o rows \in Seq(Checks(sp))
  BY <1>2, <1>5, ConcatType
<1> QED BY <1>4, <1>6

LEMMA FollowType == ASSUME NEW sp PROVE FollowChecks(sp) \in Seq(Checks(sp))
<1>1. /\ Gate("wal logical") \in Checks(sp) /\ Gate("slot free") \in Checks(sp)
      /\ Warn("sender timeout") \in Checks(sp)
      /\ Fix(sp, "replication", "source") \in Checks(sp)
      /\ Fix(sp, "origin functions", "target") \in Checks(sp)
      /\ FixCommand(sp, "replica role", "target") \in Checks(sp)
      /\ UnloggedAudit \in Checks(sp) /\ ReplicaIdentityAudit \in Checks(sp)
  BY DEF Checks
<1> QED BY <1>1, EightType DEF FollowChecks

\* A script of the whole; what follows knows nothing else of it.
LEMMA ScriptType ==
  ASSUME NEW sp
  PROVE  Script(sp) \in Seq(Checks(sp)) /\ Len(Script(sp)) > 0
<1> DEFINE source == When(Super("source") \in sp.flags, <<Connect("superuser source")>>)
           target == When(Super("target") \in sp.flags, <<Connect("superuser target")>>)
           follow == When("follow" \in sp.flags, FollowChecks(sp))
           one == ((((source \o target) \o ExtensionChecks(sp)) \o OwnerChecks(sp)) \o CloneChecks(sp)) \o follow
           rest == IF "allDatabases" \in sp.flags THEN AllDatabasesChecks(sp) ELSE one
<1>1. Connect("superuser source") \in Checks(sp) /\ Connect("superuser target") \in Checks(sp)
  BY DEF Checks
<1>2. <<Connect("superuser source")>> \in Seq(Checks(sp)) /\ <<Connect("superuser target")>> \in Seq(Checks(sp))
  BY <1>1, TupleTypes
<1>3. source \in Seq(Checks(sp)) /\ target \in Seq(Checks(sp)) /\ follow \in Seq(Checks(sp))
  BY <1>2, WhenType, FollowType
<1>4. Script(sp) = Prelude(sp) \o rest
  BY DEF Script
<1> HIDE DEF source, target, follow
<1>5. (source \o target) \o ExtensionChecks(sp) \in Seq(Checks(sp))
  BY <1>3, ExtensionType, ConcatType
<1>6. (((source \o target) \o ExtensionChecks(sp)) \o OwnerChecks(sp)) \o CloneChecks(sp) \in Seq(Checks(sp))
  BY <1>5, OwnerType, CloneType, ConcatType
<1>7. one \in Seq(Checks(sp))
  BY <1>3, <1>6, ConcatType
<1> HIDE DEF one
<1>8. rest \in Seq(Checks(sp))
  BY <1>7, AllDatabasesType
<1> HIDE DEF rest
<1>9. Prelude(sp) \o rest \in Seq(Checks(sp)) /\ Len(Prelude(sp) \o rest) > 0
  BY <1>8, PreludeType, ConcatType
<1> QED BY <1>4, <1>9

-----------------------------------------------------------------------------
(* The invariant. *)

\* A check that must hold does, or a dry run has listed what would put it right.
Settled(c) == c.kind # "warn" => c.fact \in facts \/ ("dryRun" \in spec.flags /\ c.fix # "none")

\* The pod is at one of the script's checks.
PodInv ==
  /\ spec \in Specs
  /\ script \in [state: {"none", "live", "ok", "failed"}, at: Nat, fail: BOOLEAN, tries: Int]
  /\ script.at \in 1..Len(Scripts[spec])

\* Without a failure so far, every check before the pod's is settled, and all of them
\* when it has passed.
EarnedInv ==
  /\ ~script.fail => \A i \in 1..(script.at - 1) : Settled(Scripts[spec][i])
  /\ script.state = "ok" => \A i \in 1..Len(Scripts[spec]) : Settled(Scripts[spec][i])

PreflightInv == PodInv /\ (~AuditBlind => EarnedInv)

LEMMA ScriptLength == ASSUME NEW sp \in Specs PROVE Scripts[sp] = Script(sp) /\ Len(Scripts[sp]) \in Nat \ {0}
<1>1. Scripts[sp] = Script(sp)
  BY DEF Scripts
<1> QED BY <1>1, ScriptType, LenProperties

LEMMA InitInv == Init => PreflightInv
BY ScriptLength DEF Init, PreflightInv, PodInv, EarnedInv, NoPod

\* What a check leaves: a pod at the next one, or at its end.
LEMMA AfterType ==
  ASSUME PodInv, NEW c, NEW failed \in BOOLEAN, script' = After(script, c, failed), UNCHANGED spec
  PROVE  /\ PodInv'
         /\ script'.fail = (script.fail \/ failed)
         /\ script'.at = script.at \/ (script'.at = script.at + 1 /\ script'.state # "ok")
         /\ script'.state = "ok" => script.at = Len(Scripts[spec]) /\ ~script'.fail
<1> DEFINE fail == script.fail \/ failed
           last == script.at = Len(Scripts[spec])
           at == IF last THEN script.at ELSE script.at + 1
           state == IF Stops(c, failed, fail) \/ (last /\ fail) THEN "failed"
                    ELSE IF last THEN "ok" ELSE "live"
<1>1. script' = [script EXCEPT !.fail = fail, !.at = at, !.state = state]
  BY DEF After
<1>2. fail \in BOOLEAN /\ state \in {"live", "ok", "failed"} /\ (state = "ok" => last /\ ~fail)
  BY DEF PodInv
<1>3. /\ at \in 1..Len(Scripts[spec]) /\ Len(Scripts[spec]) \in Nat
      /\ at = script.at \/ (at = script.at + 1 /\ ~last)
  BY ScriptLength DEF PodInv
<1> HIDE DEF state, at, fail
<1>4. /\ script' \in [state: {"none", "live", "ok", "failed"}, at: Nat, fail: BOOLEAN, tries: Int]
      /\ script'.fail = fail /\ script'.at = at /\ script'.state = state
  <2>1. script \in [state: {"none", "live", "ok", "failed"}, at: Nat, fail: BOOLEAN, tries: Int]
    BY DEF PodInv
  <2>2. at \in Nat /\ fail \in BOOLEAN /\ state \in {"live", "ok", "failed"}
    BY <1>2, <1>3
  <2> QED BY <1>1, <2>1, <2>2
<1>5. PodInv'
  BY <1>3, <1>4 DEF PodInv, Scripts
<1> QED BY <1>2, <1>3, <1>4, <1>5 DEF fail

\* A check that is settled, or has failed, keeps the invariant.
LEMMA AfterInv ==
  ASSUME PreflightInv, script.state = "live", UNCHANGED spec, facts \subseteq facts',
         NEW c, c = Scripts[spec][script.at],
         NEW failed \in BOOLEAN, script' = After(script, c, failed),
         ~AuditBlind /\ ~failed => Settled(c)'
  PROVE  PreflightInv'
<1> DEFINE checks == Scripts[spec]
<1>1. PodInv
  BY DEF PreflightInv
<1>2. /\ PodInv'
      /\ script'.fail = (script.fail \/ failed)
      /\ script'.at = script.at \/ (script'.at = script.at + 1 /\ script'.state # "ok")
      /\ script'.state = "ok" => script.at = Len(checks) /\ ~script'.fail
  BY <1>1, AfterType
<1>3. script.at \in 1..Len(checks) /\ Len(checks) \in Nat /\ checks' = checks
  BY <1>1, ScriptLength DEF PodInv, Scripts
<1>4. ASSUME ~AuditBlind, ~script'.fail, NEW i \in 1..script.at
      PROVE  Settled(checks[i])'
  <2>1. ~script.fail /\ ~failed
    BY <1>2, <1>4
  <2>2. CASE i = script.at
    BY <1>4, <2>1, <2>2
  <2>3. CASE i # script.at
    <3>1. i \in 1..(script.at - 1)
      BY <1>3, <2>3
    <3>2. Settled(checks[i])
      BY <1>4, <2>1, <3>1 DEF PreflightInv, EarnedInv
    <3> QED BY <1>3, <3>2 DEF Settled
  <2> QED BY <2>2, <2>3
<1>5. ASSUME ~AuditBlind PROVE EarnedInv'
  <2>1. ASSUME ~script'.fail, NEW i \in 1..(script'.at - 1) PROVE Settled(checks[i])'
    <3>1. i \in 1..script.at
      BY <1>2, <1>3, <2>1
    <3> QED BY <1>4, <1>5, <2>1, <3>1
  <2>2. ASSUME script'.state = "ok", NEW i \in 1..Len(checks) PROVE Settled(checks[i])'
    BY <1>2, <1>4, <1>5, <2>2
  <2> QED BY <1>3, <2>1, <2>2 DEF EarnedInv
<1> QED BY <1>2, <1>5 DEF PreflightInv

\* One check of the script, whatever branch it takes.
LEMMA RunCheckInv == ASSUME PreflightInv, RunCheck, UNCHANGED spec PROVE PreflightInv'
<1>0. script.state = "live"
  BY DEF RunCheck
<1>1. PICK c : c = Scripts[spec][script.at]
  OBVIOUS
<1>2. ASSUME NEW failed \in BOOLEAN, script' = After(script, c, failed), facts \subseteq facts',
             ~AuditBlind /\ ~failed =>
               \/ c.kind = "warn" \/ c.fact \in facts'
               \/ "dryRun" \in spec.flags /\ c.fix # "none"
      PROVE  PreflightInv'
  <2>1. ~AuditBlind /\ ~failed => Settled(c)'
    BY <1>2 DEF Settled
  <2> QED BY <1>0, <1>1, <1>2, <2>1, AfterInv
<1>3. CASE Holds(c)
  BY <1>2, <1>3 DEF Holds
<1>4. CASE ProbeFails(c)
  BY <1>2, <1>4 DEF ProbeFails, FailsOnError
<1>5. CASE Missing(c)
  BY <1>2, <1>5 DEF Missing
<1>6. CASE Lists(c)
  BY <1>2, <1>6 DEF Lists, Applies
<1>7. CASE Remediates(c)
  BY <1>2, <1>7 DEF Remediates
<1>8. CASE CommandFails(c)
  BY <1>2, <1>8 DEF CommandFails
<1> QED BY <1>1, <1>3, <1>4, <1>5, <1>6, <1>7, <1>8 DEF RunCheck

\* A pod that starts, or one that is gone.
LEMMA NewPodInv ==
  ASSUME PreflightInv, UNCHANGED spec, script' = NewPod(script) \/ script' = NoPod
  PROVE  PreflightInv'
<1>1. /\ spec \in Specs /\ script.tries + 1 \in Int
      /\ Len(Scripts[spec]) \in Nat \ {0} /\ Scripts' = Scripts
  BY ScriptLength DEF PreflightInv, PodInv, Scripts
<1>2. /\ script' \in [state: {"none", "live", "ok", "failed"}, at: Nat, fail: BOOLEAN, tries: Int]
      /\ script'.at = 1 /\ script'.state # "ok"
  <2> DEFINE tries == script.tries + 1
  <2>1. /\ NoPod \in [state: {"none", "live", "ok", "failed"}, at: Nat, fail: BOOLEAN, tries: Int]
        /\ NoPod.at = 1 /\ NoPod.state = "none"
    BY DEF NoPod
  <2>2. tries \in Int /\ NewPod(script) = [NoPod EXCEPT !.state = "live", !.tries = tries]
    BY <1>1 DEF NewPod
  <2> HIDE DEF tries
  <2>3. CASE script' = NewPod(script)
    BY <2>1, <2>2, <2>3
  <2>4. CASE script' = NoPod
    BY <2>1, <2>4
  <2> QED BY <2>3, <2>4
<1> QED BY <1>1, <1>2 DEF PreflightInv, PodInv, EarnedInv

\* What else leaves the pod alone, or changes the databases without it.
LEMMA SamePodInv ==
  ASSUME PreflightInv, UNCHANGED <<spec, script>>, facts \subseteq facts'
  PROVE  PreflightInv'
BY DEF PreflightInv, PodInv, EarnedInv, Settled, Scripts

\* A pass leaves the script alone, or the Job of its pods goes or is new.
LEMMA ReconcileScript ==
  ASSUME Reconcile
  PROVE  UNCHANGED <<spec, facts, blips>> /\ script' \in {script, NoPod}
  BY DEF Reconcile, PreflightGate, ReconcileSuspended

LEMMA ReconcileInv == ASSUME PreflightInv, Reconcile PROVE PreflightInv'
<1>1. UNCHANGED <<spec, facts>> /\ script' \in {script, NoPod}
  BY ReconcileScript
<1>2. CASE script' = script
  BY <1>1, <1>2, SamePodInv
<1>3. CASE script' = NoPod
  BY <1>1, <1>3, NewPodInv
<1> QED BY <1>1, <1>2, <1>3

\* Every other step leaves the script, and what the databases say to it, alone.
LEMMA OtherSteps ==
  ASSUME Next, ~StartScript, ~ScriptStep, ~StrayWorks, ~StrayStops, ~Reconcile
  PROVE  UNCHANGED preflightVars
<1>2. CASE PreflightEnds \/ CatalogEnds \/ HandoverStarts \/ Alter \/ HandoverEnds
  BY <1>2 DEF PreflightEnds, CatalogEnds, HandoverStarts, Alter, HandoverEnds
<1>3. ASSUME NEW n \in Attempts, WorkerExits(n) \/ WorkerStops(n) PROVE UNCHANGED preflightVars
  BY <1>3 DEF WorkerExits, WorkerStops
<1>4. ASSUME NEW check \in Compares, CompareEnds(check) PROVE UNCHANGED preflightVars
  BY <1>4 DEF CompareEnds
<1>5. CASE HandoverStops \/ CacheSync \/ JobSync \/ Collect \/ Edit
  BY <1>5 DEF HandoverStops, CacheSync, JobSync, Collect, Edit
<1> QED BY <1>2, <1>3, <1>4, <1>5 DEF Next, PodsProceed, DeletedPodsStop

\* The databases are only ever changed for the better.
LEMMA NextInv == ASSUME PreflightInv, [Next]_vars PROVE PreflightInv' /\ facts \subseteq facts' /\ spec' = spec
<1>1. CASE StartScript
  BY <1>1, NewPodInv DEF StartScript
<1>2. CASE ScriptStep
  <2>1. facts \subseteq facts' /\ spec' = spec
    BY <1>2 DEF ScriptStep, RunCheck, Holds, ProbeFails, Missing, Lists, Remediates, CommandFails
  <2> QED BY <1>2, <2>1, RunCheckInv DEF ScriptStep
<1>3. CASE StrayWorks
  BY <1>3, SamePodInv DEF StrayWorks
<1>4. CASE StrayStops \/ UNCHANGED vars
  BY <1>4, SamePodInv DEF StrayStops, vars, preflightVars, scriptVars
<1>5. CASE Reconcile
  BY <1>5, ReconcileInv, ReconcileScript
<1>6. CASE Next /\ ~StartScript /\ ~ScriptStep /\ ~StrayWorks /\ ~StrayStops /\ ~Reconcile
  BY <1>6, OtherSteps, SamePodInv DEF preflightVars, scriptVars
<1> QED BY <1>1, <1>2, <1>3, <1>4, <1>5, <1>6

LEMMA EarnedPass == ASSUME ~AuditBlind, PreflightInv PROVE PassIsEarned
<1> SUFFICES ASSUME script.state = "ok", NEW fact \in Needed[spec]
             PROVE  fact \in facts \/ ("dryRun" \in spec.flags /\ fact \in Fixable[spec])
  BY DEF PassIsEarned
<1>1. spec \in Specs /\ Scripts[spec] = Script(spec)
  BY ScriptLength DEF PreflightInv, PodInv
<1>2. PICK c \in ChecksIn(spec) : c.kind # "warn" /\ c.fact = fact
  BY <1>1 DEF Needed
<1>3. PICK i \in DOMAIN Script(spec) : c = Script(spec)[i]
  BY <1>2 DEF ChecksIn
<1>4. i \in 1..Len(Scripts[spec])
  BY <1>1, <1>3, ScriptType, LenProperties
<1>5. Settled(c)
  BY <1>1, <1>3, <1>4 DEF PreflightInv, EarnedInv
<1>6. c.fix # "none" => fact \in Fixable[spec]
  BY <1>1, <1>2 DEF Fixable
<1> QED BY <1>2, <1>5, <1>6 DEF Settled

\* When the script has passed, every fact that it checks holds, or a dry run has listed
\* what would put it right (PassIsEarned; resources.go:620), for any specs, with any
\* number of missing facts, failed calls, pods, suspends and attempts, as long as the
\* query of the replica identity audit does not fail.
THEOREM PassEarned == ASSUME ~AuditBlind PROVE Spec => []PassIsEarned
<1>1. PreflightInv => PassIsEarned
  BY EarnedPass
<1> QED BY <1>1, InitInv, NextInv, PTL DEF Spec
=============================================================================
