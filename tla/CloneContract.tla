---------------------------- MODULE CloneContract ----------------------------
(***************************************************************************)
(* What a plain clone promises about the target database, whatever Jobs,   *)
(* passes, caches and crashes bring it about: one preflight, worker or     *)
(* handover at a time, the copy before the handover of ownership, and a    *)
(* verdict that is given once and, when it is Complete, only for a target  *)
(* that is as the spec asks.  A preflight that is stopped may leave a      *)
(* stray pod, which may still grant what it would have granted, beside     *)
(* whoever comes next.  CloneFinish implements it.                         *)
(***************************************************************************)
VARIABLES
  asked,     \* what the spec asks of the target: [whole, handed]
  writers,   \* who may be writing to it: "preflight", "worker", "handover" or "stray"
  whole,     \* every row is on the target
  handed,    \* everything the migration role may hand over has its new owner
  verdict    \* "none", "complete" or "failed"

contractVars == <<asked, writers, whole, handed, verdict>>

Init ==
  /\ asked \in [whole : BOOLEAN, handed : BOOLEAN]
  /\ writers = {} /\ ~whole /\ ~handed /\ verdict = "none"

\* Nobody starts to write beside anyone but a stray, after the verdict, or hands over part
\* of a copy.
Start(w) ==
  /\ writers \subseteq {"stray"} /\ verdict = "none"
  /\ w = "handover" => asked.handed /\ (asked.whole => whole)
  /\ writers' = writers \cup {w}
  /\ UNCHANGED <<asked, whole, handed, verdict>>

\* A writer works in any number of steps, the last of which may be its end.
Write(w) ==
  /\ w \in writers
  /\ whole' \in {whole, whole \/ w = "worker"}
  /\ handed' \in {handed, handed \/ w = "handover"}
  /\ writers' \in {writers, writers \ {w}}
  /\ UNCHANGED <<asked, verdict>>

\* A preflight is given up while its pod runs.
Orphan ==
  /\ "preflight" \in writers /\ writers' = (writers \ {"preflight"}) \cup {"stray"}
  /\ UNCHANGED <<asked, whole, handed, verdict>>

\* A failed Migration may leave a writer that is being stopped.
Decide ==
  /\ verdict = "none" /\ verdict' \in {"complete", "failed"}
  /\ verdict' = "complete" => writers \subseteq {"stray"} /\ (asked.whole => whole) /\ (asked.handed => handed)
  /\ UNCHANGED <<asked, writers, whole, handed>>

Next ==
  \/ \E w \in {"preflight", "worker", "handover"} : Start(w)
  \/ \E w \in {"preflight", "worker", "handover", "stray"} : Write(w)
  \/ Orphan \/ Decide

Spec == Init /\ [][Next]_contractVars
=============================================================================
