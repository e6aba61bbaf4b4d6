----------------------------- MODULE LaneRegistry -----------------------------
(***************************************************************************)
(* What the rest of the program may take from the subagent tracker: a      *)
(* thread recorded as a leader or as a subagent is so for ever, though a   *)
(* subagent may change its role, and the leader of the session stays and   *)
(* is no subagent.  SubagentTracker implements this; the consensus gate of *)
(* Planning rests on it.                                                   *)
(***************************************************************************)
CONSTANTS Threads, Nobody

VARIABLES
  leader,  \* the session's leader_thread_id
  lane     \* "none", "leader", or the role of a subagent

lanes == <<leader, lane>>

Roles == {"architect", "critic"}
Someone == Threads \cup {Nobody}

LaneInit ==
  /\ leader = Nobody
  /\ lane = [t \in Threads |-> "none"]

(* A hook reports a turn of t; a leader may be established with it.        *)
LaneStep ==
  \E t \in Threads :
    /\ leader' \in IF leader = Nobody THEN Someone ELSE {leader}
    /\ \E r \in Roles \cup {"leader", "none"} :
         /\ lane[t] # "none" => (r \in Roles <=> lane[t] \in Roles) /\ r # "none"
         /\ lane' = [lane EXCEPT ![t] = r]
    /\ leader' # Nobody => lane'[leader'] \notin Roles

LaneSpec == LaneInit /\ [][LaneStep]_lanes
=============================================================================
