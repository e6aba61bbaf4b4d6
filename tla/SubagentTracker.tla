---------------------------- MODULE SubagentTracker ----------------------------
(***************************************************************************)
(* subagent-tracking.json: which threads of a session are native subagents *)
(* and which one leads (src/subagents/tracker.ts), as the native hook      *)
(* feeds it.  A SessionStart of a subagent records its parent and then the *)
(* child, each under the tracker's lock and each allowed to fail; a        *)
(* PreToolUse without an agent role attests the leader.  The hooks of      *)
(* different threads run as separate processes in any order.  One session  *)
(* is modelled; the lock is taken to exclude (it is broken only after a    *)
(* minute).                                                                *)
(***************************************************************************)
EXTENDS Naturals, FiniteSets

CONSTANTS
  Threads, Nobody,
  MaxHooks  \* SessionStart hooks under way at once

VARIABLES
  leader,    \* leader_thread_id
  kind,      \* threads[t].kind, "none" when t is not recorded
  role,      \* threads[t].mode
  native,    \* session.json: the native session that leads, as the hook was told
  spawning   \* SessionStart hooks of subagents under way

tracker == <<native, leader, kind, role, spawning>>

Kinds == {"leader", "subagent"}
Roles == {"architect", "critic"}
Someone == Threads \cup {Nobody}

Spawn == [parent : Threads, child : Threads, role : Roles, at : {"parent", "child"}]

TrackerInit ==
  /\ native = Nobody /\ leader = Nobody
  /\ kind = [t \in Threads |-> "none"]
  /\ role = [t \in Threads |-> "none"]
  /\ spawning = {}

-----------------------------------------------------------------------------
(* recordSubagentTurn of thread t, said to be of kind k under leader l.    *)

(* A recorded leader is not turned into a subagent by a late claim.        *)
KnownLeader(t, k) == k = "subagent" /\ (kind[t] = "leader" \/ leader = t)

(* A known subagent is not taken for the leader of its children.           *)
AskedLeader(l) == IF l \in Threads /\ kind[l] = "subagent" THEN Nobody ELSE l

LeaderAfter(t, k, l) ==
  IF leader # Nobody THEN leader
  ELSE IF KnownLeader(t, k) THEN t
  ELSE IF AskedLeader(l) # Nobody THEN AskedLeader(l)
  ELSE IF k = "subagent" \/ kind[t] = "subagent" THEN Nobody
  ELSE t

(* Fault: the claim of the turn wins over what is recorded.                *)
KindAfterFault(t, k) == k

KindAfter(t, k) ==
  IF KnownLeader(t, k) THEN "leader"
  ELSE IF kind[t] = "subagent" THEN "subagent" ELSE k

Record(t, k, l) ==
  LET lead == LeaderAfter(t, k, l) IN
  /\ leader' = lead
  /\ kind' = [u \in Threads |->
               IF u = t THEN KindAfter(t, k)
               ELSE IF u = lead /\ kind[u] # "none" THEN "leader" ELSE kind[u]]

-----------------------------------------------------------------------------
(* The native session that starts or reconciles session.json.              *)
StartSession(t) ==
  /\ native = Nobody
  /\ native' = t
  /\ UNCHANGED <<leader, kind, role, spawning>>

(* attestLeaderThread: refused for a known subagent and beside a leader.   *)
Attest(t) ==
  /\ kind[t] # "subagent" /\ leader \in {Nobody, t}
  /\ Record(t, "leader", Nobody)
  /\ UNCHANGED <<native, role, spawning>>

(* SessionStart of child c: only under a parent the session knows.         *)
BeginSpawn(p, c, r) ==
  /\ Cardinality(spawning) < MaxHooks
  /\ p # c /\ \A s \in spawning : s.child # c
  /\ p \in {native, leader} \/ kind[p] # "none"
  /\ spawning' = spawning \cup {[parent |-> p, child |-> c, role |-> r, at |-> "parent"]}
  /\ UNCHANGED <<native, leader, kind, role>>

RecordParent(s) ==
  /\ s.at = "parent"
  /\ spawning' = (spawning \ {s}) \cup {[s EXCEPT !.at = "child"]}
  /\ \/ Record(s.parent, "leader", Nobody)
     \/ UNCHANGED <<leader, kind>>        \* the write failed and is passed over
  /\ UNCHANGED <<native, role>>

RecordChild(s) ==
  /\ s.at = "child"
  /\ spawning' = spawning \ {s}
  /\ \/ /\ Record(s.child, "subagent", s.parent)
        /\ role' = [role EXCEPT ![s.child] = s.role]
     \/ UNCHANGED <<leader, kind, role>>
  /\ UNCHANGED native

TrackerNext ==
  \/ \E t \in Threads : StartSession(t) \/ Attest(t)
  \/ \E p, c \in Threads, r \in Roles : BeginSpawn(p, c, r)
  \/ \E s \in spawning : RecordParent(s) \/ RecordChild(s)

-----------------------------------------------------------------------------
(* Every part of the tracker has its shape.                                *)
TrackerTypeOK ==
  /\ native \in Someone /\ leader \in Someone
  /\ kind \in [Threads -> Kinds \cup {"none"}]
  /\ role \in [Threads -> Roles \cup {"none"}]
  /\ spawning \in SUBSET Spawn

(* The leader of a session is never a thread recorded as a subagent.       *)
LeaderNoSubagent == leader # Nobody => kind[leader] # "subagent"

TrackerSpec == TrackerInit /\ [][TrackerNext]_tracker

(* The tracker keeps what the registry promises: whatever the order in     *)
(* which the hooks of the session report and whichever of their writes     *)
(* fail, no subagent is ever recorded as anything else, the leader stays   *)
(* the leader and is no subagent.                                          *)
Lane(t) == IF kind[t] = "subagent" THEN role[t] ELSE kind[t]
Registry == INSTANCE LaneRegistry WITH lane <- [t \in Threads |-> Lane(t)]
LanesHold == Registry!LaneSpec
=============================================================================
