---------------------------- MODULE UltragoalPlan ----------------------------
(***************************************************************************)
(* The durable ultragoal plan (.owx/ultragoal/goals.json) and its ledger   *)
(* (.owx/ultragoal/ledger.jsonl) as values: what each field means, the     *)
(* predicates the handlers read from them, and the plan each handler       *)
(* writes.  No variables: Ultragoal runs these operators atomically,       *)
(* UltragoalStore runs them step by step under the mutation lock.          *)
(*                                                                         *)
(* A goal is identified by the number its id starts with ("G003-..." is    *)
(* 3); a plan with no goal stands for an absent goals.json.  Titles,       *)
(* objectives, evidence texts and time stamps are left out, except for     *)
(* what a handler decides from them, which is an input of the operator.    *)
(***************************************************************************)
EXTENDS Integers, FiniteSets

CONSTANTS
  MaxGoals,    \* bound on the goals of a plan (the code has none)
  Keys,        \* idempotency keys a steering proposal may carry
  NoKey,       \* a proposal without a key
  Signatures,  \* blocker signatures an evidence text classifies to
  NoSig        \* evidence that names no external authorization blocker

ASSUME BoundsAssumption == MaxGoals \in Nat \ {0}
ASSUME InputsAssumption == NoKey \notin Keys /\ NoSig \notin Signatures

GoalId == 1 .. MaxGoals
NoGoal == 0

Status == {"pending", "in_progress", "complete", "failed",
           "review_blocked", "needs_user_decision"}
SteeringStatus == {"none", "superseded", "blocked"}

Item == [status       : Status,
         steering     : SteeringStatus,
         supersededBy : SUBSET GoalId,
         signature    : Signatures \cup {NoSig},
         nonRetriable : BOOLEAN]

NewItem == [status |-> "pending", steering |-> "none", supersededBy |-> {},
            signature |-> NoSig, nonRetriable |-> FALSE]

Mode == {"aggregate", "per_story"}

(* plan.goals is split in two: the items, by id, and the list order.       *)
Plan(n) == [size          : {n},
            mode          : Mode,
            legacy        : BOOLEAN,  \* codexObjective is an enumerated one
            alias         : BOOLEAN,  \* codexObjectiveAliases holds it
            aggregateDone : BOOLEAN,  \* aggregateCompletion.status = complete
            active        : 0 .. n,
            goals         : [1 .. n -> Item],
            order         : [1 .. n -> 1 .. n]]

IsPlan(p) == p.size \in 0 .. MaxGoals /\ p \in Plan(p.size)

(* A new plan of n pending goals                                           *)
Created(mode, n) ==
  [size |-> n, mode |-> mode, legacy |-> FALSE, alias |-> FALSE,
   aggregateDone |-> FALSE, active |-> NoGoal,
   goals |-> [g \in 1 .. n |-> NewItem], order |-> [i \in 1 .. n |-> i]]

NoPlan == Created("aggregate", 0)

Ids(p) == 1 .. p.size
Exists(p) == p.size > 0

-----------------------------------------------------------------------------
(* Predicates on a plan                                                    *)

Resolved(status) == status \in {"complete", "review_blocked"}

Eligible(item) == item.steering = "none"

ReplacementResolved(p, r) == r \in Ids(p) /\ Resolved(p.goals[r].status)

SupersededResolved(p, g) ==
  /\ p.goals[g].supersededBy # {}
  /\ \A r \in p.goals[g].supersededBy : ReplacementResolved(p, r)

CompletionBlocking(p, g) ==
  \/ p.goals[g].steering = "superseded" /\ ~SupersededResolved(p, g)
  \/ p.goals[g].steering = "blocked"
  \/ p.goals[g].steering = "none" /\ ~Resolved(p.goals[g].status)

(* Fault: the candidate itself is not counted among the replacements.      *)
BlockingForFinalFault(p, g, f) == g # f /\ CompletionBlocking(p, g)

(* Would g still block completion once the final candidate f is complete?  *)
BlockingForFinal(p, g, f) ==
  /\ g # f
  /\ IF p.goals[g].steering = "superseded"
     THEN \/ p.goals[g].supersededBy = {}
          \/ \E r \in p.goals[g].supersededBy \ {f} : ~ReplacementResolved(p, r)
     ELSE CompletionBlocking(p, g)

(* Fault: only stories in progress count against the candidate.            *)
FinalCandidateFault(p, f) ==
  \A g \in Ids(p) : BlockingForFinal(p, g, f) => p.goals[g].status # "in_progress"

FinalCandidate(p, f) == \A g \in Ids(p) : ~BlockingForFinal(p, g, f)

(* i is the last position whose goal is neither review-blocked nor superseded. *)
Counts(item) == item.status # "review_blocked" /\ item.steering # "superseded"
LatestCounting(p, i) ==
  /\ Counts(p.goals[p.order[i]])
  /\ \A j \in i + 1 .. p.size : ~Counts(p.goals[p.order[j]])

Done(p) ==
  \/ p.aggregateDone
  \/ p.size = 0
  \/ /\ \A g \in Ids(p) : ~CompletionBlocking(p, g)
     /\ \E i \in Ids(p) : LatestCounting(p, i) /\ p.goals[p.order[i]].status = "complete"

Position(p, g) == CHOOSE i \in Ids(p) : p.order[i] = g

(* g is the first goal of the list, in plan order, that satisfies Test.    *)
First(p, g, Test(_)) ==
  /\ g \in Ids(p) /\ Test(g)
  /\ \A h \in Ids(p) : Test(h) => Position(p, g) <= Position(p, h)

Running(p, g) == p.goals[g].status = "in_progress" /\ Eligible(p.goals[g])
(* Fault: the scheduler does not look at the steering status.              *)
WaitingFault(p, g) == p.goals[g].status = "pending"
Waiting(p, g) == p.goals[g].status = "pending" /\ Eligible(p.goals[g])
Retriable(p, g) ==
  p.goals[g].status = "failed" /\ ~p.goals[g].nonRetriable /\ Eligible(p.goals[g])

Resumable(p, g) == Exists(p) /\ ~p.aggregateDone /\ First(p, g, LAMBDA h : Running(p, h))

(* Fault: the running story is looked up through activeGoalId.             *)
NothingRunningFault(p) ==
  Exists(p) /\ ~p.aggregateDone /\ (p.active # NoGoal => ~Running(p, p.active))
NothingRunning(p) == Exists(p) /\ ~p.aggregateDone /\ \A g \in Ids(p) : ~Running(p, g)

CanStart(p, g) == NothingRunning(p) /\ First(p, g, LAMBDA h : Waiting(p, h))

CanRetry(p, g) ==
  /\ NothingRunning(p)
  /\ \A h \in Ids(p) : ~Waiting(p, h)
  /\ First(p, g, LAMBDA h : Retriable(p, h))

-----------------------------------------------------------------------------
(* The Codex get_goal snapshot a checkpoint is reconciled with             *)

Unavailable == {"absent", "db_error"}
Available == {"active", "paused", "complete", "other"}
(* The objective text is the one the plan expects, an alias the migration  *)
(* kept, another one that maps to the brief, an unrelated one, or missing. *)
Objective == {"expected", "alias", "mapped", "foreign", "missing"}
Snapshot == [status : Unavailable, objective : {"missing"}]
            \cup [status : Available, objective : Objective]
Evidence == {"plain", "completion_proof", "aggregate_loop"}

AcceptedObjectives(p) ==
  {"expected"} \cup (IF p.mode = "aggregate" /\ p.alias THEN {"alias"} ELSE {})

Reconciled(p, snap, statuses) ==
  snap.objective \in AcceptedObjectives(p) /\ snap.status \in statuses

(* The statuses a completion checkpoint of g accepts; allowActive is the   *)
(* allowActiveFinalCodexGoal option of the library (the CLI never sets it). *)
CompletionStatuses(p, g, allowActive) ==
  IF p.mode = "aggregate" /\ (allowActive \/ ~FinalCandidate(p, g))
  THEN {"active", "paused"} ELSE {"complete"}

GateRequired(p, g, allowActive) == FinalCandidate(p, g) /\ ~allowActive

(* The task-scoped fallback: a complete snapshot with another objective    *)
(* completes the whole aggregate plan.                                     *)
TaskScopedCompletion(p, g, snap, evidence) ==
  /\ p.mode = "aggregate"
  /\ p.goals[g].status = "in_progress" /\ p.active = g
  /\ snap.status = "complete" /\ snap.objective \in {"alias", "mapped"}
  /\ evidence = "completion_proof"

(* A blocked checkpoint needs an unavailable get_goal, a different         *)
(* completed Codex goal, or the completed aggregate goal of this plan.     *)
BlockedCheckpointAllowed(p, g, snap, evidence) ==
  /\ p.goals[g].status = "in_progress"
  /\ \/ snap.status = "db_error"
     \/ /\ snap.status = "complete" /\ snap.objective # "missing"
        /\ \/ snap.objective \notin AcceptedObjectives(p)
           \/ p.mode = "aggregate" /\ p.active = g /\ evidence = "aggregate_loop"

ReviewSnapshotStatuses(p) == IF p.mode = "aggregate" THEN {"active", "paused"} ELSE {"active"}

(* The evidence a final quality gate must carry; a gate is the set of the  *)
(* checks it passes.                                                       *)
GateChecks == {"aiSlopCleaner", "verification", "commands", "recommendation",
               "architectStatus", "codeReviewer", "architect"}
CleanGate(gate) == GateChecks \subseteq gate

-----------------------------------------------------------------------------
(* The plan each handler writes                                            *)

(* readUltragoalPlan rewrites a plan with a legacy enumerated objective.   *)
Migrated(p) == IF p.legacy THEN [p EXCEPT !.legacy = FALSE, !.alias = TRUE] ELSE p

(* k new pending goals after position i of the list: appendGoalToPlan puts *)
(* them last, moveGoalsAfterTarget moves the children behind their target. *)
Inserted(p, k, i) ==
  [p EXCEPT !.size = p.size + k,
            !.goals = [g \in 1 .. p.size + k |->
                         IF g <= p.size THEN p.goals[g] ELSE NewItem],
            !.order = [j \in 1 .. p.size + k |->
                         IF j <= i THEN p.order[j]
                         ELSE IF j <= i + k THEN p.size + (j - i)
                         ELSE p.order[j - k]]]

(* Faults: the goal is numbered by the length of the list, not one more;   *)
(* the size is not updated.                                                *)
AppendedColliding(p) == [Inserted(p, 1, p.size) EXCEPT !.order[p.size + 1] = p.size]
AppendedUncounted(p) == [Inserted(p, 1, p.size) EXCEPT !.size = p.size]
Appended(p) == Inserted(p, 1, p.size)

Deactivated(p, g) == IF p.active = g THEN NoGoal ELSE p.active

Started(p, g) ==
  [p EXCEPT !.active = g,
            !.goals[g] = [@ EXCEPT !.status = "in_progress", !.signature = NoSig,
                                   !.nonRetriable = FALSE]]

(* Fault: the completed goal stays active.                                 *)
CompletedFault(p, g) == [p EXCEPT !.goals[g].status = "complete"]

Completed(p, g) ==
  [p EXCEPT !.active = Deactivated(p, g),
            !.goals[g] = [@ EXCEPT !.status = "complete", !.signature = NoSig,
                                   !.nonRetriable = FALSE]]

AggregateCompleted(p, g) ==
  [p EXCEPT !.aggregateDone = TRUE, !.active = Deactivated(p, g)]

(* A failed checkpoint; the third ledger record of one blocker breaks the  *)
(* circuit.                                                                *)
CircuitLimit == 3
Failed(p, g, signature, occurrences) ==
  LET broken == signature # NoSig /\ occurrences >= CircuitLimit IN
  [p EXCEPT !.active = Deactivated(p, g),
            !.goals[g] = [@ EXCEPT
               !.status = IF broken THEN "needs_user_decision" ELSE "failed",
               !.signature = signature,
               !.nonRetriable = broken]]

Reactivated(p, g) == [p EXCEPT !.active = g]

(* Fault: the blocker story is not appended.                               *)
ReviewBlockedFault(p, g) ==
  [p EXCEPT !.active = Deactivated(p, g), !.goals[g].status = "review_blocked"]

ReviewBlocked(p, g) ==
  [Appended(p) EXCEPT !.active = Deactivated(p, g), !.goals[g].status = "review_blocked"]

(* Fault: the replacements are numbered one too low.                       *)
SupersededFault(p, g, k) ==
  [Inserted(p, k, Position(p, g)) EXCEPT
     !.goals[g] = [@ EXCEPT !.steering = "superseded",
                            !.supersededBy = p.size .. p.size + k - 1]]

(* split_subgoal, and mark_blocked_superseded with k > 0 replacements      *)
Superseded(p, g, k) ==
  [Inserted(p, k, Position(p, g)) EXCEPT
     !.active = Deactivated(p, g),
     !.goals[g] = [@ EXCEPT !.steering = "superseded",
                            !.supersededBy = p.size + 1 .. p.size + k]]

(* mark_blocked_superseded without replacements                            *)
SteeringBlocked(p, g) ==
  [p EXCEPT !.active = Deactivated(p, g), !.goals[g].steering = "blocked"]

(* reorder_pending: the requested goals, in the requested order, and then  *)
(* the rest of the list in its old order.                                  *)
Requests(p) ==
  UNION {{r \in [1 .. k -> {g \in Ids(p) : Waiting(p, g)}] :
            \A i, j \in 1 .. k : r[i] = r[j] => i = j} :
         k \in 1 .. Cardinality({g \in Ids(p) : Waiting(p, g)})}

Orders(p) == {order \in [Ids(p) -> Ids(p)] : \A g \in Ids(p) : \E i \in Ids(p) : order[i] = g}

MovedToFront(p, request, order) ==
  LET n == Cardinality(DOMAIN request) IN
  /\ \A i \in 1 .. n : order[i] = request[i]
  /\ \A i, j \in n + 1 .. p.size :
       i < j => Position(p, order[i]) < Position(p, order[j])

Reordered(p, order) == [p EXCEPT !.order = order]

-----------------------------------------------------------------------------
(* The ledger, by what the code reads back from it: the idempotency keys   *)
(* of accepted steering, the failure records of each goal and blocker      *)
(* signature, and whether its last entry carries a final quality gate.     *)

Event == {"plan_created", "goal_started", "goal_retried", "goal_resumed", "goal_completed",
          "goal_blocked", "goal_failed", "goal_needs_user_decision", "aggregate_completed",
          "aggregate_objective_migrated", "goal_added", "steering_accepted",
          "steering_rejected", "goal_review_blocked"}

Entry == [event : Event, goal : 0 .. MaxGoals, key : Keys \cup {NoKey},
          signature : Signatures \cup {NoSig}, gate : BOOLEAN]

EntryOf(event, goal) ==
  [event |-> event, goal |-> goal, key |-> NoKey, signature |-> NoSig, gate |-> FALSE]

Ledger == [accepted : SUBSET Keys,
           blockers : [GoalId -> [Signatures -> Nat]],
           gated    : BOOLEAN]

EmptyLedger == [accepted |-> {},
                blockers |-> [g \in GoalId |-> [s \in Signatures |-> 0]],
                gated    |-> FALSE]

(* Fault: a record that already breaks the circuit is not counted.         *)
IsBlockerRecordFault(e) == e.event = "goal_failed" /\ e.signature # NoSig

IsBlockerRecord(e) ==
  e.event \in {"goal_failed", "goal_needs_user_decision"} /\ e.signature # NoSig

Logged(ledger, e) ==
  [accepted |-> ledger.accepted \cup
                  (IF e.event = "steering_accepted" THEN {e.key} \ {NoKey} ELSE {}),
   blockers |-> IF IsBlockerRecord(e)
                THEN [ledger.blockers EXCEPT ![e.goal][e.signature] = @ + 1]
                ELSE ledger.blockers,
   gated    |-> e.gate]

SameBlockerOccurrences(ledger, g, signature) ==
  IF signature = NoSig THEN 0 ELSE ledger.blockers[g][signature]

(* Fault: the ledger is not consulted.                                     *)
DeduplicatedFault(ledger, key) == key = NoKey /\ key \in ledger.accepted

Deduplicated(ledger, key) == key \in ledger.accepted
=============================================================================
