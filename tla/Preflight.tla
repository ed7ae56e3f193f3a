------------------------------- MODULE Preflight -------------------------------
(***************************************************************************)
(* The preflight of a Migration: the check script that preflightScriptFor  *)
(* puts together from the spec, and the pod that runs it (resources.go).   *)
(*                                                                         *)
(* A check asks whether one fact holds on the databases.  A missing fact   *)
(* is noted, or only warned about, or, where a superuserSecretRef is set,  *)
(* put right by a statement the check composes: applied and checked again, *)
(* or only listed in a dry run.  The script fails closed: a probe that     *)
(* cannot run is a failure with a name, never an ok.  One audit does not:  *)
(* see AuditBlind.                                                         *)
(*                                                                         *)
(* Abstractions.  A fact is a name; the texts of notes, hints and          *)
(* statements are left out.  A statement that composes always composes.    *)
(* The connect ladder is its outcome: a side that is up is reached.        *)
(***************************************************************************)
EXTENDS Integers, Sequences

CONSTANTS
  Specs,        \* the specs a Migration may have
  MaxMissing,   \* bound: facts that do not hold at first
  MaxBlips,     \* bound: psql calls that fail for no lasting reason
  AuditBlind    \* may the query of the replica identity audit fail?

ASSUME PreflightBounds == MaxMissing \in Nat /\ MaxBlips \in Nat /\ AuditBlind \in BOOLEAN

VARIABLES
  spec,     \* the Migration's spec, as [flags |-> the options that are on]
  facts,    \* what holds on the two databases
  script,   \* the pod that runs the script
  blips

scriptVars == <<facts, script, blips>>

-----------------------------------------------------------------------------
(* The script, put together from the spec. *)

Sides == {"source", "target"}
Super(side) == IF side = "source" THEN "superuser source" ELSE "superuser target"

\* kind: what a missing fact does.  fix: the side whose superuser can put it right.
\* stop: whether the script ends here when this check, or any so far, has failed.
Check(fact, kind, fix, stop) == [fact |-> fact, kind |-> kind, fix |-> fix, stop |-> stop]
Connect(fact) == Check(fact, "connect", "none", "own")
Gate(fact) == Check(fact, "value", "none", "no")
GateAlone(fact) == Check(fact, "value", "none", "own")
GateStop(fact) == Check(fact, "value", "none", "any")
Warn(fact) == Check(fact, "warn", "none", "no")

\* riAuditBlock takes the empty output of a failed query for no offender.
ReplicaIdentityAudit == Check("replica identity", "audit", "none", "no")

\* The table audits ask about the tables that clone.filters leaves in; an entry that has
\* no exact match widens that scope.
RowSecurityAudit == Gate("sees all rows")
UnloggedAudit == Gate("all logged")

\* remSingle and remAggregate: without a superuser on that side only a note is left.
Fix(sp, fact, side) == Check(fact, "value", IF Super(side) \in sp.flags THEN side ELSE "none", "no")

\* cmdProbe: the probe is the privileged command, so its failure is the missing right.
FixCommand(sp, fact, side) == [Fix(sp, fact, side) EXCEPT !.kind = "command"]

When(cond, checks) == IF cond THEN checks ELSE <<>>

\* preflightPrelude, and the gate on pg_restore that every script has.
Prelude(sp) ==
  <<Connect("source"), Connect("target"), Gate("direct source"), Gate("direct target")>>
  \o When("synchronousCommit" \in sp.flags, <<Gate("commits local")>>)
  \o <<Warn("temporary")>>
  \o When("deferIndexes" \in sp.flags, <<Gate("runner defers")>>)
  \o When("sameMajor" \in sp.flags, <<GateStop("same major")>>)
  \o <<GateAlone("restores into target")>>

\* allDatabasesPreflightBlock; the required superuser owns every extension.
AllDatabasesChecks(sp) ==
  <<Gate("source is superuser"), GateStop("target is superuser"), GateStop("databases listed")>>
  \o When("extensions" \in sp.flags, <<GateStop("extensions available")>>)

ExtensionChecks(sp) ==
  When("extensions" \in sp.flags,
       <<GateStop("extensions available")>>
       \o When(sp.flags \cap {"dropIfExists", "comments"} # {}, <<GateStop("extensions owned")>>))

OwnerChecks(sp) ==
  When("owner" \in sp.flags, <<GateStop("owner exists"), FixCommand(sp, "can set role", "target")>>)

CloneChecks(sp) ==
  <<Fix(sp, "create in database", "target"), Fix(sp, "create in schemas", "target")>>
  \o When("dbProperties" \in sp.flags, <<Gate("owns database")>>)
  \o <<RowSecurityAudit>>

FollowChecks(sp) ==
  <<Gate("wal logical"), Gate("slot free"), Warn("sender timeout"),
    Fix(sp, "replication", "source"), Fix(sp, "origin functions", "target"),
    FixCommand(sp, "replica role", "target"), UnloggedAudit, ReplicaIdentityAudit>>

\* preflightScriptFor.
Script(sp) ==
  Prelude(sp)
  \o IF "allDatabases" \in sp.flags THEN AllDatabasesChecks(sp)
     ELSE When(Super("source") \in sp.flags, <<Connect("superuser source")>>)
          \o When(Super("target") \in sp.flags, <<Connect("superuser target")>>)
          \o ExtensionChecks(sp) \o OwnerChecks(sp) \o CloneChecks(sp)
          \o When("follow" \in sp.flags, FollowChecks(sp))

Scripts == [sp \in Specs |-> Script(sp)]

\* What is checked, what must hold for the worker, and what a configured superuser could
\* put right.
ChecksIn(sp) == {Script(sp)[i] : i \in DOMAIN Script(sp)}
Checked == [sp \in Specs |-> {c.fact : c \in ChecksIn(sp)}]
Needed == [sp \in Specs |-> {c.fact : c \in {d \in ChecksIn(sp) : d.kind # "warn"}}]
Fixable == [sp \in Specs |-> {c.fact : c \in {d \in ChecksIn(sp) : d.fix # "none"}}]

-----------------------------------------------------------------------------
(* The pod. *)

\* at: the check that runs next.  tries: pods this Job has started.
Pods == [state: {"none", "live", "ok", "failed"}, at: Nat, fail: BOOLEAN, tries: 0..2]

NoPod == [state |-> "none", at |-> 1, fail |-> FALSE, tries |-> 0]

\* backoffLimit 1: a second pod runs the script from its start.
NewPod(pod) == [NoPod EXCEPT !.state = "live", !.tries = pod.tries + 1]

\* Whether the script ends here, given that c has failed or not.
Stops(c, failed, fail) ==
  \/ c.stop = "own" /\ failed
  \/ c.stop = "any" /\ fail

\* The pod after check c, which has failed or not.
After(pod, c, failed) ==
  LET fail == pod.fail \/ failed
      last == pod.at = Len(Scripts[spec])
  IN [pod EXCEPT !.fail = fail, !.at = IF last THEN pod.at ELSE pod.at + 1,
                 !.state = IF Stops(c, failed, fail) \/ (last /\ fail) THEN "failed"
                           ELSE IF last THEN "ok" ELSE "live"]

Blip == blips < MaxBlips /\ blips' = blips + 1

\* Faulty variant: a probe that could not run counts as an ok.
OkOnError(c) == FALSE

\* A probe that cannot run fails its check, unless it only warns.
FailsOnError(c) == c.kind \notin {"warn", "audit"}

\* report: a dry run only lists what a superuser would apply.
Applies(sp, c) == c.fix # "none" /\ "dryRun" \notin sp.flags

\* What a pod of the script may change, wherever it is in it.
Remedies == [sp \in Specs |-> {c.fact : c \in {d \in ChecksIn(sp) : Applies(sp, d)}}]

Holds(c) ==
  /\ c.fact \in facts
  /\ script' = After(script, c, FALSE) /\ UNCHANGED <<facts, blips>>

ProbeFails(c) ==
  /\ c.kind \in {"value", "warn"} \/ (c.kind = "audit" /\ AuditBlind)
  /\ Blip
  /\ script' = After(script, c, FailsOnError(c)) /\ UNCHANGED facts

\* A missing fact that nobody may put right.
Missing(c) ==
  /\ c.fact \notin facts /\ c.fix = "none"
  /\ script' = After(script, c, c.kind # "warn") /\ UNCHANGED <<facts, blips>>

Lists(c) ==
  /\ c.fact \notin facts /\ c.fix # "none" /\ ~Applies(spec, c)
  /\ script' = After(script, c, FALSE) /\ UNCHANGED <<facts, blips>>

\* The statement is applied and checked again; the superuser may lack the right to
\* give it, the second probe may fail, and a command probe that failed for no lasting
\* reason has a statement applied that was not needed.
Remediates(c) ==
  /\ Applies(spec, c)
  /\ \/ c.fact \notin facts /\ UNCHANGED blips
     \/ c.fact \in facts /\ c.kind = "command" /\ Blip
  /\ \/ /\ facts' = facts \cup {c.fact}
        /\ \E rechecked \in BOOLEAN : script' = After(script, c, ~rechecked)
     \/ script' = After(script, c, TRUE) /\ UNCHANGED facts

CommandFails(c) ==
  /\ c.kind = "command" /\ ~Applies(spec, c) /\ c.fact \in facts /\ Blip
  /\ script' = After(script, c, c.fix = "none") /\ UNCHANGED facts

RunCheck ==
  /\ script.state = "live"
  /\ LET c == Scripts[spec][script.at]
     IN Holds(c) \/ ProbeFails(c) \/ Missing(c) \/ Lists(c) \/ Remediates(c) \/ CommandFails(c)

-----------------------------------------------------------------------------
(* Properties. *)

\* An admitted worker finds what it needs: when the script has passed, every fact it
\* checks holds, or, in a dry run, a configured superuser would put it right, whatever
\* probes failed on the way (the fail-closed blocks of resources.go:620).
PassIsEarned ==
  script.state = "ok" =>
    \A fact \in Needed[spec] : fact \in facts \/ ("dryRun" \in spec.flags /\ fact \in Fixable[spec])
=============================================================================
