--------------------------- MODULE AttemptContract ---------------------------
(***************************************************************************)
(* What the retry engine promises about a Migration's worker attempts,     *)
(* whatever passes, caches, retry probes and crashes bring it about: one   *)
(* worker at a time, beside which no pod ends but what a deleted Job of    *)
(* the same attempt left, no more counted attempts than the budget, and no *)
(* new attempt while the failure of the last one waits for its verdict,    *)
(* which is given once and may take that one failure off the count.        *)
(* MigrationAttempts implements it.                                        *)
(***************************************************************************)
EXTENDS Integers

CONSTANT Budget     \* the attempts that may count

VARIABLES
  workers,   \* the attempts whose Job has a pod
  leftovers, \* the pods whose Job was deleted under them
  created,   \* the attempts that ever had a worker
  failed,    \* those whose worker failed
  recorded,  \* the last attempt on record
  notice,    \* its failure is unknown ("none"), "noted" or "judged"
  refunds    \* the attempts that do not count

contractVars == <<workers, leftovers, created, failed, recorded, notice, refunds>>

Init ==
  /\ workers = {} /\ leftovers = {} /\ created = {} /\ failed = {}
  /\ recorded = 0 /\ notice = "none" /\ refunds = 0

\* The attempt after the recorded one, beside no other, and within the budget.  Until its
\* attempt is on record, and the first one even once it is, a worker whose Job was deleted
\* is replaced beside what it left.
Start(n) ==
  /\ n = recorded + 1 \/ (n = 1 /\ recorded = 1)
  /\ workers = {} /\ \A l \in leftovers : l.attempt = n
  /\ n - refunds <= Budget /\ notice # "noted"
  /\ workers' = {n} /\ created' = created \cup {n}
  /\ UNCHANGED <<leftovers, failed, recorded, notice, refunds>>

\* A worker fails, ends, or both.
Work(n) ==
  /\ n \in workers
  /\ failed' \in {failed, failed \cup {n}} /\ workers' \in {workers, workers \ {n}}
  /\ UNCHANGED <<leftovers, created, recorded, notice, refunds>>

\* The Job of a worker is deleted under its pod, one more that is left, and ends.
Leave(n) ==
  /\ n \in workers /\ workers' = workers \ {n}
  /\ \E l \in leftovers' \ leftovers : l.attempt = n /\ leftovers' = leftovers \cup {l}
  /\ UNCHANGED <<created, failed, recorded, notice, refunds>>
LeftoverEnds ==
  /\ \E l \in leftovers : leftovers' = leftovers \ {l}
  /\ UNCHANGED <<workers, created, failed, recorded, notice, refunds>>

Record ==
  /\ recorded' = recorded + 1 /\ recorded' \in created /\ notice' = "none"
  /\ UNCHANGED <<workers, leftovers, created, failed, refunds>>

Note ==
  /\ notice = "none" /\ recorded \in failed /\ notice' = "noted"
  /\ UNCHANGED <<workers, leftovers, created, failed, recorded, refunds>>

Judge ==
  /\ notice = "noted" /\ notice' = "judged" /\ refunds' \in {refunds, refunds + 1}
  /\ UNCHANGED <<workers, leftovers, created, failed, recorded>>

Next ==
  \/ \E n \in {recorded, recorded + 1} : Start(n) \/ Work(n) \/ Leave(n)
  \/ LeftoverEnds \/ Record \/ Note \/ Judge

Spec == Init /\ [][Next]_contractVars
=============================================================================
