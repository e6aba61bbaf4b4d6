------------------------------ MODULE Ultragoal ------------------------------
(***************************************************************************)
(* The ultragoal plan and ledger as one state machine: every command of    *)
(* `owx ultragoal` (and the steering directive of the prompt-submit hook)  *)
(* runs to its end under the mutation lock, so it is one action here.      *)
(* UltragoalStore refines the actions into the reads and writes they are.  *)
(***************************************************************************)
EXTENDS UltragoalPlan

CONSTANTS
  Modes,        \* codexGoalMode of the plans the run creates
  Legacy,       \* may an earlier version have left a plan?
  MaxInitial,   \* bound on the goals a plan is created with
  MaxChildren,  \* bound on the replacement goals of one steering proposal
  MaxBlockers,  \* bound on the ledger records of one blocker
  AllowActive   \* values of allowActiveFinalCodexGoal the callers pass

ASSUME CallerAssumption ==
  /\ Modes \subseteq Mode /\ Legacy \in BOOLEAN
  /\ MaxInitial \in 1 .. MaxGoals
  /\ MaxChildren \in Nat /\ MaxBlockers \in Nat
  /\ AllowActive \subseteq BOOLEAN

VARIABLES
  plan,    \* goals.json
  ledger   \* ledger.jsonl

vars == <<plan, ledger>>

(* A handler works on the plan readUltragoalPlan returns.                  *)
Read == Migrated(plan)

Log(e) == ledger' = Logged(ledger, e)

(* Plans an earlier version wrote keep an enumerated aggregate objective.  *)
LegacyPlans ==
  {[Created("aggregate", n) EXCEPT !.legacy = TRUE] :
     n \in {m \in 1 .. MaxInitial : Legacy}}

Init ==
  /\ plan \in {NoPlan} \cup LegacyPlans
  /\ ledger = IF plan = NoPlan THEN EmptyLedger
              ELSE Logged(EmptyLedger, EntryOf("plan_created", NoGoal))

-----------------------------------------------------------------------------
(* owx ultragoal create-goals [--force]                                    *)
CreateUltragoalPlan(mode, n, force) ==
  /\ force \/ ~Exists(plan)
  /\ plan' = Created(mode, n)
  /\ ledger' = Logged(EmptyLedger, EntryOf("plan_created", NoGoal))

(* Any command that reads a legacy plan migrates it, and may then do       *)
(* nothing else: owx ultragoal status, or a command that throws.           *)
ReadUltragoalPlan ==
  /\ plan.legacy
  /\ plan' = Migrated(plan)
  /\ Log(EntryOf("aggregate_objective_migrated", NoGoal))

AddUltragoalGoal ==
  /\ Exists(plan) /\ plan.size < MaxGoals
  /\ plan' = Appended(Read)
  /\ Log(EntryOf("goal_added", plan.size + 1))

(* startNextUltragoal: resume the running goal, else start the first       *)
(* pending one, else (--retry-failed) the first failed one, whose          *)
(* goal_retried entry is followed by goal_started.                         *)
ResumeUltragoal(g) ==
  /\ Resumable(Read, g)
  /\ plan' = Read
  /\ Log(EntryOf("goal_resumed", g))

StartNextUltragoal(g, retryFailed) ==
  /\ CanStart(Read, g) \/ (retryFailed /\ CanRetry(Read, g))
  /\ plan' = Started(Read, g)
  /\ Log(EntryOf("goal_started", g))

-----------------------------------------------------------------------------
(* checkpointUltragoal                                                     *)
CompleteGoal(g, snap, gate, allowActive) ==
  /\ g \in Ids(plan)
  /\ Reconciled(Read, snap, CompletionStatuses(Read, g, allowActive))
  /\ GateRequired(Read, g, allowActive) => CleanGate(gate)
  /\ plan' = Completed(Read, g)
  /\ Log([EntryOf("goal_completed", g) EXCEPT !.gate = GateRequired(Read, g, allowActive)])

CompleteAggregate(g, snap, evidence, gate, allowActive) ==
  /\ g \in Ids(plan)
  /\ TaskScopedCompletion(Read, g, snap, evidence)
  /\ ~Reconciled(Read, snap, CompletionStatuses(Read, g, allowActive))
  /\ CleanGate(gate)
  /\ plan' = AggregateCompleted(Read, g)
  /\ Log([EntryOf("aggregate_completed", g) EXCEPT !.gate = TRUE])

FailGoal(g, signature) ==
  LET occurrences == SameBlockerOccurrences(ledger, g, signature) + 1
      failed == Failed(Read, g, signature, occurrences)
  IN
  /\ g \in Ids(plan)
  /\ signature # NoSig => occurrences <= MaxBlockers
  /\ plan' = failed
  /\ Log([EntryOf(IF failed.goals[g].status = "failed"
                  THEN "goal_failed" ELSE "goal_needs_user_decision", g)
            EXCEPT !.signature = signature])

RecordBlocked(g, snap, evidence) ==
  /\ g \in Ids(plan)
  /\ BlockedCheckpointAllowed(Read, g, snap, evidence)
  /\ plan' = Reactivated(Read, g)
  /\ Log(EntryOf("goal_blocked", g))

(* owx ultragoal record-review-blockers                                    *)
RecordFinalReviewBlockers(g, snap) ==
  /\ g \in Ids(plan) /\ plan.size < MaxGoals
  /\ Read.goals[g].status = "in_progress" /\ FinalCandidate(Read, g)
  /\ Reconciled(Read, snap, ReviewSnapshotStatuses(Read))
  /\ plan' = ReviewBlocked(Read, g)
  /\ Log(EntryOf("goal_review_blocked", g))

-----------------------------------------------------------------------------
(* steerUltragoal: an accepted proposal is applied and then logged with    *)
(* its idempotency key; a repeated key changes nothing.                    *)
Accepted(key, g) ==
  /\ Exists(plan) /\ ~plan.aggregateDone /\ ~Deduplicated(ledger, key)
  /\ Log([EntryOf("steering_accepted", g) EXCEPT !.key = key])

SteerAddSubgoal(key) ==
  /\ plan.size < MaxGoals
  /\ plan' = Appended(Read)
  /\ Accepted(key, NoGoal)

SteerSplit(g, k, key) ==
  /\ g \in Ids(plan) /\ plan.size + k <= MaxGoals
  /\ Read.goals[g].status = "pending"
  /\ plan' = Superseded(Read, g, k)
  /\ Accepted(key, g)

SteerReorder(request, key) ==
  /\ request \in Requests(Read)
  /\ \E order \in Orders(Read) :
       MovedToFront(Read, request, order) /\ plan' = Reordered(Read, order)
  /\ Accepted(key, NoGoal)

SteerSupersede(g, k, key) ==
  /\ g \in Ids(plan) /\ plan.size + k <= MaxGoals
  /\ plan' = Superseded(Read, g, k)
  /\ Accepted(key, g)

SteerBlock(g, key) ==
  /\ g \in Ids(plan)
  /\ plan' = SteeringBlocked(Read, g)
  /\ Accepted(key, g)

(* revise_pending_wording and annotate_ledger change no field kept here.   *)
SteerWording(key) ==
  /\ plan' = Read
  /\ Accepted(key, NoGoal)

SteerRejected ==
  /\ Exists(plan)
  /\ plan' = Read
  /\ Log(EntryOf("steering_rejected", NoGoal))

Steer(key) ==
  \/ SteerAddSubgoal(key)
  \/ \E g \in GoalId, k \in 1 .. MaxChildren : SteerSplit(g, k, key)
  \/ \E request \in Requests(Read) : SteerReorder(request, key)
  \/ \E g \in GoalId, k \in 1 .. MaxChildren : SteerSupersede(g, k, key)
  \/ \E g \in GoalId : SteerBlock(g, key)
  \/ SteerWording(key)

-----------------------------------------------------------------------------
Gates == {{}, GateChecks}

Create == \E mode \in Modes, n \in 1 .. MaxInitial, force \in BOOLEAN :
            CreateUltragoalPlan(mode, n, force)
StartNext == \E g \in GoalId, retryFailed \in BOOLEAN : StartNextUltragoal(g, retryFailed)
Resume == \E g \in GoalId : ResumeUltragoal(g)
Complete == \E g \in GoalId, snap \in Snapshot, gate \in Gates, a \in AllowActive :
              CompleteGoal(g, snap, gate, a)
CompleteTask == \E g \in GoalId, snap \in Snapshot, e \in Evidence, gate \in Gates,
                   a \in AllowActive : CompleteAggregate(g, snap, e, gate, a)
Fail == \E g \in GoalId, s \in Signatures \cup {NoSig} : FailGoal(g, s)
Blocked == \E g \in GoalId, snap \in Snapshot, e \in Evidence : RecordBlocked(g, snap, e)
ReviewBlockers == \E g \in GoalId, snap \in Snapshot : RecordFinalReviewBlockers(g, snap)
Steering == \E key \in Keys \cup {NoKey} : Steer(key)

Next ==
  \/ Create \/ ReadUltragoalPlan \/ AddUltragoalGoal
  \/ StartNext \/ Resume
  \/ Complete \/ CompleteTask \/ Fail \/ Blocked \/ ReviewBlockers
  \/ Steering \/ SteerRejected

Spec == Init /\ [][Next]_vars
-----------------------------------------------------------------------------
(* Properties                                                              *)

TypeOK == IsPlan(plan) /\ ledger \in Ledger

(* One story at a time: among the goals the scheduler still considers, at  *)
(* most one is in progress, although steering leaves the status of a       *)
(* running goal alone and a checkpoint may name any goal.                  *)
OneStoryAtATime ==
  \A g, h \in Ids(plan) : Running(plan, g) /\ Running(plan, h) => g = h

(* The list order is a permutation of the ids: no reorder, split or append *)
(* loses or repeats a goal.  normalizeGoalId numbers a new goal by the     *)
(* length of the list, so a lost goal would also make ids collide.         *)
EveryGoalListed == {plan.order[i] : i \in Ids(plan)} = Ids(plan)

(* Replacements are younger than the goal they replace, so the chain of    *)
(* replacements a completed plan relies on is never circular.              *)
ReplacementsYounger ==
  \A g \in Ids(plan) : \A r \in plan.goals[g].supersededBy : g < r /\ r \in Ids(plan)

(* The circuit breaker: a goal waits for a user decision exactly when the  *)
(* ledger holds CircuitLimit or more failures with its blocker; a goal     *)
(* that --retry-failed may start again has fewer.                          *)
CircuitBreaker ==
  \A g \in Ids(plan) :
    LET item == plan.goals[g]
        failures == SameBlockerOccurrences(ledger, g, item.signature) IN
    /\ item.status = "needs_user_decision" => item.nonRetriable /\ failures >= CircuitLimit
    /\ item.status = "failed" => ~item.nonRetriable /\ failures < CircuitLimit

(* The findings of a final review are resolved: when the stories complete  *)
(* the plan (and not a task-scoped Codex goal), the youngest goal, the     *)
(* last work anybody appended, is complete.                                *)
YoungestComplete ==
  Done(plan) /\ ~plan.aggregateDone /\ Exists(plan) => plan.goals[plan.size].status = "complete"

(* The plan can be done only through a checkpoint that recorded a clean    *)
(* final quality gate: no failed checkpoint, review, steering, reorder or  *)
(* retry completes the remaining work on the side.                         *)
DoneThroughGate ==
  [][~Done(plan) /\ Done(plan') => ledger'.gated]_vars

(* After the final review is recorded as not clean, the next story that    *)
(* complete-goals hands out is the blocker story just appended (unless a   *)
(* task-scoped Codex goal has already completed the whole plan).           *)
BlockerStoryNext ==
  [][plan'.size > plan.size /\ ~plan.aggregateDone /\ ReviewBlockers =>
       CanStart(plan', plan'.size) /\ ~Done(plan')]_vars

(* Off the schedule for good: a goal that steering superseded or blocked   *)
(* stays so and is never started, unless the whole plan is recreated.      *)
SteeringSticks ==
  [][\A g \in Ids(plan) \cap Ids(plan') :
       ~Eligible(plan.goals[g]) /\ plan'.goals[g] # NewItem =>
         /\ ~Eligible(plan'.goals[g])
         /\ plan'.goals[g].status = "in_progress" =>
              plan.goals[g].status = "in_progress"]_vars

(* active names a goal that is in progress; nothing but a blocked          *)
(* checkpoint may point it at a goal steering took off the schedule.       *)
ActiveInProgress ==
  plan.active # NoGoal => plan.goals[plan.active].status = "in_progress"

(* Claimed by the skill: only unfinished, blocked or undecided goals keep  *)
(* a plan from being done.                                                 *)
OnlyOpenWorkBlocks ==
  (\A g \in Ids(plan) :
      /\ plan.goals[g].steering # "blocked"
      /\ plan.goals[g].steering = "none" => plan.goals[g].status = "complete")
  => Done(plan)
=============================================================================
