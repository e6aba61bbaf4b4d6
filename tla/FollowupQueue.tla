---------------------------- MODULE FollowupQueue ----------------------------
(***************************************************************************)
(* What the queue of exec follow-ups promises: a follow-up is queued once, *)
(* marked delivered once in a batch of pending ones, and only after that   *)
(* shown to the run: at least once, at most once by each of the readers    *)
(* that are delivering at the same time (src/exec/followup.ts).            *)
(***************************************************************************)
EXTENDS Naturals

CONSTANTS Followups, Readers

VARIABLES queue, shown

qvars == <<queue, shown>>

Status == {"none", "pending", "delivered"}

Init ==
  /\ queue = [f \in Followups |-> "none"]
  /\ shown = [f \in Followups |-> 0]

Inject(f) ==
  /\ queue[f] = "none"
  /\ queue' = [queue EXCEPT ![f] = "pending"]
  /\ UNCHANGED shown

Deliver(batch) ==
  /\ batch # {} /\ \A f \in batch : queue[f] = "pending"
  /\ queue' = [f \in Followups |-> IF f \in batch THEN "delivered" ELSE queue[f]]
  /\ UNCHANGED shown

Show(batch) ==
  /\ batch # {} /\ \A f \in batch : queue[f] = "delivered" /\ shown[f] < Readers
  /\ shown' = [f \in Followups |-> IF f \in batch THEN shown[f] + 1 ELSE shown[f]]
  /\ UNCHANGED queue

Next ==
  \/ \E f \in Followups : Inject(f)
  \/ \E batch \in SUBSET Followups : Deliver(batch) \/ Show(batch)

(* What is marked delivered is shown in the end.                           *)
Shown(f) == queue[f] = "delivered" ~> shown[f] > 0

Spec == Init /\ [][Next]_qvars /\ \A f \in Followups : Shown(f)
=============================================================================
