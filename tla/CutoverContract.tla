--------------------------- MODULE CutoverContract ---------------------------
(***************************************************************************)
(* What a live Migration promises to whoever points applications at its    *)
(* target, whatever passes, caches and crashes bring it about: a worker    *)
(* that has ended is never followed by another, a copy that is finished is *)
(* never begun again, its drain is judged once, ownership is handed over   *)
(* only on a proven drain, the replication slot of a finished copy goes    *)
(* after both, and the report says no more than what has happened.         *)
(* FollowCutover implements it where no Job is lost to a suspend or the    *)
(* TTL.                                                                    *)
(***************************************************************************)

VARIABLES
  worker,    \* "idle" before it and between attempts, "streaming", or "ended" with exit 0
  copied,    \* pgcopydb calls the base copy finished
  drained,   \* the target holds every change it must
  proof,     \* the drain's judgement: "none", "proved" or "refuted"
  handed,    \* ownership is handed over, from the start where nobody asked for it
  slot,      \* the replication slot is on the source
  told       \* the report on the cutover: "none", "true" or "refuted"

contractVars == <<worker, copied, drained, proof, handed, slot, told>>

Init ==
  /\ worker = "idle" /\ copied = FALSE /\ drained = FALSE /\ proof = "none"
  /\ handed \in BOOLEAN /\ slot = FALSE /\ told = "none"

\* A worker starts where none runs and none has ended, and makes sure of its slot.
Start ==
  /\ worker = "idle" /\ worker' = "streaming" /\ slot' = TRUE
  /\ UNCHANGED <<copied, drained, proof, handed, told>>

\* Between attempts the slot of an unfinished copy may go: nothing was streamed from it
\* that the copy begun anew would lack.
StartOver ==
  /\ worker = "idle" /\ ~copied /\ slot' = FALSE
  /\ UNCHANGED <<worker, copied, drained, proof, handed, told>>

\* Only a worker finishes the copy and moves the drain, and it fails or ends.
Stream ==
  /\ worker = "streaming" /\ worker' \in {"streaming", "idle", "ended"}
  /\ copied' \in {copied, TRUE} /\ (worker' = "ended" => copied')
  /\ drained' \in BOOLEAN
  /\ UNCHANGED <<proof, handed, slot, told>>

Judge ==
  /\ worker = "ended" /\ proof = "none"
  /\ proof' \in {"refuted"} \cup (IF drained THEN {"proved"} ELSE {})
  /\ UNCHANGED <<worker, copied, drained, handed, slot, told>>

HandOver ==
  /\ proof = "proved" /\ ~handed /\ handed' = TRUE
  /\ UNCHANGED <<worker, copied, drained, proof, slot, told>>

DropSlot ==
  /\ proof = "proved" /\ handed /\ slot' = FALSE
  /\ UNCHANGED <<worker, copied, drained, proof, handed, told>>

\* What is reported has happened.  A write on an old copy may take a report back.
Tell ==
  /\ \/ told = "none" /\ told' = "true" /\ proof = "proved" /\ handed
     \/ told = "none" /\ told' = "refuted" /\ proof = "refuted"
     \/ told # "none" /\ told' = "none"
  /\ UNCHANGED <<worker, copied, drained, proof, handed, slot>>

Next == Start \/ StartOver \/ Stream \/ Judge \/ HandOver \/ DropSlot \/ Tell

Spec == Init /\ [][Next]_contractVars
=============================================================================
