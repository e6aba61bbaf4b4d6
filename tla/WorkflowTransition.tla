-------------------------- MODULE WorkflowTransition --------------------------
(***************************************************************************)
(* Which workflow modes may be active together, and how a request for one  *)
(* mode is answered when others are active (evaluateWorkflowTransition),   *)
(* as pure operators and as the abstract machine they promise: in every    *)
(* scope (the root and each session) modes are switched on and off one at  *)
(* a time, and a mode is switched on only beside modes it may overlap.     *)
(***************************************************************************)
CONSTANTS
  Scopes,  \* the root and the sessions
  Modes    \* the tracked modes in use

Tracked == {"autopilot", "autoresearch", "ultragoal", "ralph", "ultrawork",
            "ultraqa", "ralplan", "deep-interview"}

AutoComplete ==
  ({"deep-interview"} \X {"autopilot", "autoresearch", "ralph", "ultragoal", "ultrawork"})
    \cup ({"ralplan"} \X {"ultragoal", "ralph", "autopilot", "autoresearch"})
    \cup {<<"ultragoal", "ultraqa">>}

EvidenceGated == {<<"deep-interview", "ralplan">>}

PlanningLike == {"deep-interview", "ralplan"}
ExecutionLike == Tracked \ PlanningLike

Overlaps(a, b) == "ultrawork" \in {a, b}

Completed(current, mode) == {c \in current : <<c, mode>> \in AutoComplete \cup EvidenceGated}

Kind(current, mode) ==
  IF mode \in current \/ current = {} THEN "allow"
  ELSE IF /\ Completed(current, mode) # {}
          /\ \A c \in current \ Completed(current, mode) : Overlaps(c, mode)
       THEN "auto-complete"
  ELSE IF \A c \in current : Overlaps(c, mode) THEN "overlap"
  ELSE "deny"

Allowed(current, mode) == Kind(current, mode) # "deny"

(* The sources completed on the way to mode.                               *)
Sources(current, mode) ==
  IF Kind(current, mode) = "auto-complete" THEN Completed(current, mode) ELSE {}

(* A request for planning while something is executed.                     *)
Rollback(current, mode) ==
  /\ ~Allowed(current, mode)
  /\ mode \in PlanningLike /\ current \cap ExecutionLike # {}

-----------------------------------------------------------------------------
VARIABLE active  \* the active modes of each scope

Init == active = [s \in Scopes |-> {}]

Activate(s, mode) ==
  /\ Kind(active[s], mode) \in {"allow", "overlap"}
  /\ active' = [active EXCEPT ![s] = @ \cup {mode}]

Deactivate(s, mode) == active' = [active EXCEPT ![s] = @ \ {mode}]

Next == \E s \in Scopes, mode \in Modes : Activate(s, mode) \/ Deactivate(s, mode)

Spec == Init /\ [][Next]_active
-----------------------------------------------------------------------------
TypeOK == active \in [Scopes -> SUBSET Modes]

(* At most one mode of a scope is active beside ultrawork.                 *)
OneAtATime ==
  \A s \in Scopes : \A a, b \in active[s] : a = b \/ Overlaps(a, b)

(* Planning is not entered from an execution that ultrawork does not       *)
(* cover: that would throw away work under way.                            *)
NoRollback ==
  [][\A s \in Scopes : \A mode \in (active'[s] \ active[s]) \cap PlanningLike :
       active[s] \cap ExecutionLike \subseteq {"ultrawork"}]_active
=============================================================================
