--------------------------- MODULE UltragoalProofs ---------------------------
(***************************************************************************)
(* Theorems about the ultragoal state machine, for every number of goals,  *)
(* replacements, blockers, keys and signatures: first its invariants, then *)
(* what a command may never do to a plan that satisfies them.              *)
(***************************************************************************)
EXTENDS Ultragoal, TLAPS

-----------------------------------------------------------------------------
(* What the plan transformers return                                       *)

Listed(p) == \A g \in Ids(p) : \E i \in Ids(p) : p.order[i] = g

GoodPlan(p) == IsPlan(p) /\ Listed(p)

LEMMA PositionType ==
  ASSUME NEW p, GoodPlan(p), NEW g \in Ids(p)
  PROVE  Position(p, g) \in Ids(p)
BY DEF GoodPlan, Listed, Position

LEMMA MigratedGood ==
  ASSUME NEW p, GoodPlan(p)
  PROVE  /\ GoodPlan(Migrated(p))
         /\ Migrated(p).size = p.size
         /\ Migrated(p).goals = p.goals
BY DEF GoodPlan, IsPlan, Plan, Migrated, Listed, Ids

LEMMA NewItemType == NewItem \in Item
BY DEF NewItem, Item, Status, SteeringStatus

LEMMA CreatedGood ==
  ASSUME NEW mode \in Mode, NEW n \in 0 .. MaxGoals
  PROVE  GoodPlan(Created(mode, n))
<1> DEFINE p == Created(mode, n)
<1>1. /\ p = [size |-> n, mode |-> mode, legacy |-> FALSE, alias |-> FALSE,
              aggregateDone |-> FALSE, active |-> 0,
              goals |-> [g \in 1 .. n |-> NewItem], order |-> [i \in 1 .. n |-> i]]
  BY DEF Created, NoGoal
<1>2. [g \in 1 .. n |-> NewItem] \in [1 .. n -> Item]
  BY NewItemType
<1>3. p \in Plan(n) /\ n \in 0 .. MaxGoals
  BY <1>1, <1>2, BoundsAssumption DEF Plan
<1>4. IsPlan(p)
  BY <1>1, <1>3 DEF IsPlan
<1>5. Listed(p)
  BY <1>1 DEF Listed, Ids
<1> QED BY <1>4, <1>5 DEF GoodPlan

LEMMA InsertedGood ==
  ASSUME NEW p, GoodPlan(p), NEW k \in Nat, p.size + k <= MaxGoals, NEW i \in 0 .. p.size
  PROVE  /\ GoodPlan(Inserted(p, k, i))
         /\ Inserted(p, k, i).size = p.size + k
         /\ Inserted(p, k, i).active = p.active
         /\ Inserted(p, k, i).aggregateDone = p.aggregateDone
         /\ \A g \in Ids(p) : Inserted(p, k, i).goals[g] = p.goals[g]
         /\ \A g \in p.size + 1 .. p.size + k : Inserted(p, k, i).goals[g] = NewItem
<1> DEFINE q == Inserted(p, k, i)
<1>1. IsPlan(q)
  <2> DEFINE n == p.size
             m == n + k
             goals == [g \in 1 .. m |-> IF g <= n THEN p.goals[g] ELSE NewItem]
             order == [j \in 1 .. m |-> IF j <= i THEN p.order[j]
                                        ELSE IF j <= i + k THEN n + (j - i)
                                        ELSE p.order[j - k]]
  <2>1. /\ n \in Nat /\ p \in Plan(n) /\ m \in 0 .. MaxGoals /\ n <= m
        /\ p.goals \in [1 .. n -> Item] /\ p.order \in [1 .. n -> 1 .. n]
    BY BoundsAssumption DEF GoodPlan, IsPlan, Plan
  <2>2. goals \in [1 .. m -> Item]
    <3> HIDE DEF n
    <3> QED BY <2>1, NewItemType
  <2>3. order \in [1 .. m -> 1 .. m]
    <3> SUFFICES ASSUME NEW j \in 1 .. m PROVE order[j] \in 1 .. m
      OBVIOUS
    <3>1. i \in 0 .. n /\ k \in Nat /\ n \in Nat
      BY <2>1
    <3> HIDE DEF n
    <3>2. CASE j <= i
      BY <2>1, <3>1, <3>2
    <3>3. CASE j > i /\ j <= i + k
      BY <2>1, <3>1, <3>3
    <3>4. CASE j > i + k
      <4>1. j - k \in 1 .. n
        BY <3>1, <3>4
      <4> QED BY <2>1, <3>1, <3>4, <4>1
    <3> QED BY <3>1, <3>2, <3>3, <3>4
  <2>4. q = [p EXCEPT !.size = m, !.goals = goals, !.order = order]
    BY DEF Inserted
  <2>5. q.size = m /\ q \in Plan(m)
    <3>1. p.active \in 0 .. m
      BY <2>1 DEF Plan
    <3> HIDE DEF goals, order, m, n, q
    <3>2. q.size = m
      BY <2>1, <2>4 DEF Plan
    <3>3. q \in Plan(m)
      BY <2>1, <2>2, <2>3, <2>4, <3>1 DEF Plan
    <3> QED BY <3>2, <3>3
  <2> QED BY <2>1, <2>5 DEF IsPlan
<1>2. Listed(q)
  <2> SUFFICES ASSUME NEW g \in 1 .. p.size + k
               PROVE  \E j \in 1 .. p.size + k : q.order[j] = g
    BY DEF Listed, Ids, Inserted
  <2>1. p.size \in Nat /\ p.order \in [1 .. p.size -> 1 .. p.size]
    BY BoundsAssumption DEF GoodPlan, IsPlan, Plan
  <2>2. CASE g > p.size
    <3>1. i + (g - p.size) \in 1 .. p.size + k /\ q.order[i + (g - p.size)] = g
      BY <2>1, <2>2 DEF Inserted
    <3> QED BY <3>1
  <2>3. CASE g <= p.size
    <3>1. PICK j \in 1 .. p.size : p.order[j] = g
      BY <2>1, <2>3 DEF GoodPlan, Listed, Ids
    <3>2. CASE j <= i
      BY <2>1, <3>1, <3>2 DEF Inserted
    <3>3. CASE j > i
      <4>1. j + k \in 1 .. p.size + k /\ q.order[j + k] = g
        BY <2>1, <3>1, <3>3 DEF Inserted
      <4> QED BY <4>1
    <3> QED BY <2>1, <3>2, <3>3
  <2> QED BY <2>1, <2>2, <2>3
<1>3. /\ q.size = p.size + k /\ q.active = p.active /\ q.aggregateDone = p.aggregateDone
      /\ \A g \in Ids(p) : q.goals[g] = p.goals[g]
      /\ \A g \in p.size + 1 .. p.size + k : q.goals[g] = NewItem
  BY BoundsAssumption DEF GoodPlan, IsPlan, Plan, Inserted, Ids
<1> QED BY <1>1, <1>2, <1>3 DEF GoodPlan

(* Started, Completed, Failed, SteeringBlocked and the first halves of     *)
(* ReviewBlocked and Superseded change one goal and the active id.         *)
Updated(p, g, item, active) == [p EXCEPT !.active = active, !.goals[g] = item]

LEMMA UpdatedGood ==
  ASSUME NEW p, GoodPlan(p), NEW g \in Ids(p), NEW item \in Item, NEW active \in 0 .. p.size
  PROVE  LET q == Updated(p, g, item, active) IN
         /\ GoodPlan(q)
         /\ q.size = p.size /\ q.active = active
         /\ q.order = p.order /\ q.aggregateDone = p.aggregateDone
         /\ q.goals[g] = item
         /\ \A h \in Ids(p) : h # g => q.goals[h] = p.goals[h]
<1> DEFINE q == Updated(p, g, item, active)
<1>1. p \in Plan(p.size) /\ p.size \in 0 .. MaxGoals /\ g \in 1 .. p.size
  BY DEF GoodPlan, IsPlan, Ids
<1>2. q = [p EXCEPT !.active = active, !.goals = [p.goals EXCEPT ![g] = item]]
  BY <1>1 DEF Updated, Plan
<1>3. [p.goals EXCEPT ![g] = item] \in [1 .. p.size -> Item]
  BY <1>1 DEF Plan
<1>4. /\ q.size = p.size /\ q.active = active /\ q.order = p.order
      /\ q.aggregateDone = p.aggregateDone /\ q.goals = [p.goals EXCEPT ![g] = item]
  BY <1>1, <1>2 DEF Plan
<1>5. q \in Plan(p.size)
  <2> HIDE DEF q
  <2> QED BY <1>1, <1>2, <1>3, <1>4 DEF Plan
<1>6. GoodPlan(q)
  BY <1>1, <1>4, <1>5 DEF GoodPlan, IsPlan, Listed, Ids
<1>7. q.goals[g] = item /\ \A h \in Ids(p) : h # g => q.goals[h] = p.goals[h]
  BY <1>1, <1>4 DEF Plan, Ids
<1> QED BY <1>4, <1>6, <1>7

-----------------------------------------------------------------------------
(* The invariant of a plan, and that every transformer keeps it            *)

OneRunning(p) == \A g, h \in Ids(p) : Running(p, g) /\ Running(p, h) => g = h

Younger(p) == \A g \in Ids(p) : \A r \in p.goals[g].supersededBy : g < r /\ r \in Ids(p)

ActiveRuns(p) == p.active # NoGoal => p.goals[p.active].status = "in_progress"

(* Whoever takes the youngest goal off the list of work appends a younger one. *)
YoungestCounts(p) == Exists(p) => Counts(p.goals[p.size])

PlanInv(p) ==
  GoodPlan(p) /\ OneRunning(p) /\ Younger(p) /\ ActiveRuns(p) /\ YoungestCounts(p)

LEMMA CreatedInv ==
  ASSUME NEW mode \in Mode, NEW n \in 0 .. MaxGoals
  PROVE  PlanInv(Created(mode, n))
<1> DEFINE p == Created(mode, n)
<1>1. /\ p.size = n /\ p.active = NoGoal
      /\ \A g \in 1 .. n : p.goals[g] = NewItem
  BY DEF Created
<1>2. OneRunning(p) /\ Younger(p) /\ ActiveRuns(p) /\ YoungestCounts(p)
  <2> HIDE DEF p
  <2> QED BY <1>1, BoundsAssumption
       DEF OneRunning, Younger, ActiveRuns, YoungestCounts, Exists, Counts, NewItem, Running, Ids
<1> QED BY <1>2, CreatedGood DEF PlanInv

(* q differs from p in goal g and the active id only.                      *)
Only(p, q, g) ==
  /\ q.size = p.size /\ q.order = p.order /\ q.aggregateDone = p.aggregateDone
  /\ \A h \in Ids(p) : h # g => q.goals[h] = p.goals[h]

(* q keeps p's goals except g and has new ones, the last of them pending.  *)
Grown(p, q, g) ==
  /\ q.size > p.size /\ q.aggregateDone = p.aggregateDone
  /\ \A h \in Ids(p) : h # g => q.goals[h] = p.goals[h]
  /\ \A h \in p.size + 1 .. q.size : q.goals[h] = NewItem

LEMMA UpdatedInv ==
  ASSUME NEW p, PlanInv(p), NEW g \in Ids(p), NEW item \in Item, NEW active \in 0 .. p.size,
         item.steering = p.goals[g].steering,
         item.supersededBy = p.goals[g].supersededBy,
         item.status = "review_blocked" => g # p.size,
         item.status = "in_progress" => Running(p, g) \/ \A h \in Ids(p) : ~Running(p, h),
         active # NoGoal =>
           IF active = g THEN item.status = "in_progress"
                         ELSE p.goals[active].status = "in_progress"
  PROVE  LET q == Updated(p, g, item, active) IN
         PlanInv(q) /\ Only(p, q, g) /\ q.goals[g] = item
<1> DEFINE q == Updated(p, g, item, active)
<1>0. Only(p, q, g) /\ q.goals[g] = item
  BY UpdatedGood DEF PlanInv, Only
<1>1. /\ GoodPlan(q) /\ q.size = p.size /\ q.active = active /\ q.goals[g] = item
      /\ \A h \in Ids(p) : h # g => q.goals[h] = p.goals[h]
  BY UpdatedGood DEF PlanInv
<1>2. p.size \in Nat /\ Ids(q) = Ids(p) /\ g \in 1 .. p.size
  BY <1>1, BoundsAssumption DEF Ids, PlanInv, GoodPlan, IsPlan
<1> HIDE DEF q
<1>3. OneRunning(q)
  BY <1>1, <1>2 DEF PlanInv, OneRunning, Running, Eligible
<1>4. Younger(q)
  BY <1>1, <1>2 DEF PlanInv, Younger
<1>5. ActiveRuns(q)
  BY <1>1, <1>2 DEF ActiveRuns, Ids, NoGoal
<1>6. YoungestCounts(q)
  BY <1>1, <1>2 DEF PlanInv, YoungestCounts, Exists, Counts, Ids
<1> QED BY <1>0, <1>1, <1>3, <1>4, <1>5, <1>6 DEF PlanInv, q

LEMMA PlanInvFacts ==
  ASSUME NEW p, PlanInv(p)
  PROVE  /\ p.size \in 0 .. MaxGoals /\ p.size \in Nat /\ p \in Plan(p.size)
         /\ \A g \in Ids(p) : /\ p.goals[g] \in Item
                              /\ g \in 1 .. p.size
                              /\ Deactivated(p, g) \in 0 .. p.size
                              /\ Deactivated(p, g) # g
                              /\ Deactivated(p, g) # NoGoal =>
                                   p.goals[Deactivated(p, g)].status = "in_progress"
BY BoundsAssumption
   DEF PlanInv, GoodPlan, IsPlan, Plan, Ids, Deactivated, NoGoal, ActiveRuns

LEMMA StartedInv ==
  ASSUME NEW p, PlanInv(p), NEW g \in Ids(p), NothingRunning(p)
  PROVE  LET q == Started(p, g) IN
         /\ PlanInv(q) /\ Only(p, q, g)
         /\ q.goals[g].status = "in_progress" /\ q.goals[g].steering = p.goals[g].steering
<1> DEFINE item == [p.goals[g] EXCEPT !.status = "in_progress", !.signature = NoSig,
                                      !.nonRetriable = FALSE]
<1>1. p.goals[g] \in Item /\ g \in 0 .. p.size
  BY PlanInvFacts
<1>2. /\ item \in Item
      /\ item.status = "in_progress"
      /\ item.steering = p.goals[g].steering /\ item.supersededBy = p.goals[g].supersededBy
  BY <1>1 DEF Item, Status
<1>3. Started(p, g) = Updated(p, g, item, g)
  BY DEF Started, Updated
<1> HIDE DEF item
<1> QED BY <1>1, <1>2, <1>3, UpdatedInv DEF NothingRunning

LEMMA CompletedInv ==
  ASSUME NEW p, PlanInv(p), NEW g \in Ids(p)
  PROVE  LET q == Completed(p, g) IN
         /\ PlanInv(q) /\ Only(p, q, g)
         /\ q.goals[g].status = "complete" /\ q.goals[g].steering = p.goals[g].steering
<1> DEFINE item == [p.goals[g] EXCEPT !.status = "complete", !.signature = NoSig,
                                      !.nonRetriable = FALSE]
<1>1. p.goals[g] \in Item
  BY PlanInvFacts
<1>2. /\ item \in Item
      /\ item.status = "complete"
      /\ item.steering = p.goals[g].steering /\ item.supersededBy = p.goals[g].supersededBy
  BY <1>1 DEF Item, Status
<1>3. Completed(p, g) = Updated(p, g, item, Deactivated(p, g))
  BY DEF Completed, Updated
<1> HIDE DEF item
<1> QED BY <1>2, <1>3, UpdatedInv, PlanInvFacts

LEMMA FailedInv ==
  ASSUME NEW p, PlanInv(p), NEW g \in Ids(p), NEW s \in Signatures \cup {NoSig}, NEW n
  PROVE  LET q == Failed(p, g, s, n) IN
         /\ PlanInv(q) /\ Only(p, q, g)
         /\ q.goals[g].steering = p.goals[g].steering /\ q.goals[g].signature = s
         /\ q.goals[g].supersededBy = p.goals[g].supersededBy
         /\ IF s # NoSig /\ n >= CircuitLimit
            THEN q.goals[g].status = "needs_user_decision" /\ q.goals[g].nonRetriable
            ELSE q.goals[g].status = "failed" /\ ~q.goals[g].nonRetriable
<1> DEFINE broken == s # NoSig /\ n >= CircuitLimit
           status == IF broken THEN "needs_user_decision" ELSE "failed"
           item == [p.goals[g] EXCEPT !.status = status, !.signature = s,
                                      !.nonRetriable = broken]
<1>1. p.goals[g] \in Item
  BY PlanInvFacts
<1>2. /\ item \in Item
      /\ item.status \in {"needs_user_decision", "failed"}
      /\ item.steering = p.goals[g].steering /\ item.supersededBy = p.goals[g].supersededBy
  <2>1. broken \in BOOLEAN /\ status \in {"needs_user_decision", "failed"}
    OBVIOUS
  <2> HIDE DEF broken, status
  <2> QED BY <1>1, <2>1 DEF Item, Status
<1>4. /\ item.signature = s /\ item.nonRetriable = broken /\ item.status = status
  BY <1>1 DEF Item
<1>3. Failed(p, g, s, n) = Updated(p, g, item, Deactivated(p, g))
  BY DEF Failed, Updated
<1> HIDE DEF item
<1> DEFINE q == Failed(p, g, s, n)
<1>5. PlanInv(q) /\ Only(p, q, g) /\ q.goals[g] = item
  BY <1>2, <1>3, UpdatedInv, PlanInvFacts
<1> HIDE DEF q
<1> QED BY <1>2, <1>4, <1>5 DEF q

LEMMA SteeringBlockedInv ==
  ASSUME NEW p, PlanInv(p), NEW g \in Ids(p)
  PROVE  LET q == SteeringBlocked(p, g) IN
         /\ PlanInv(q) /\ Only(p, q, g)
         /\ q.goals[g].steering = "blocked" /\ q.goals[g].status = p.goals[g].status
         /\ q.goals[g].signature = p.goals[g].signature
         /\ q.goals[g].nonRetriable = p.goals[g].nonRetriable
<1> DEFINE item == [p.goals[g] EXCEPT !.steering = "blocked"]
           q == SteeringBlocked(p, g)
<1>1. p.goals[g] \in Item
  BY PlanInvFacts
<1>2. /\ item \in Item
      /\ item.steering = "blocked" /\ item.status = p.goals[g].status
      /\ item.supersededBy = p.goals[g].supersededBy
      /\ item.signature = p.goals[g].signature
      /\ item.nonRetriable = p.goals[g].nonRetriable
  BY <1>1 DEF Item, SteeringStatus
<1>3. q = Updated(p, g, item, Deactivated(p, g))
  BY DEF SteeringBlocked, Updated
<1> HIDE DEF item, q
<1>4. /\ GoodPlan(q) /\ Only(p, q, g) /\ q.size = p.size
      /\ q.active = Deactivated(p, g) /\ q.goals[g] = item
      /\ \A h \in Ids(p) : h # g => q.goals[h] = p.goals[h]
  BY <1>2, <1>3, UpdatedGood, PlanInvFacts DEF PlanInv, Only
<1>5. OneRunning(q)
  BY <1>2, <1>4 DEF OneRunning, Running, Eligible, PlanInv, Ids
<1>6. Younger(q)
  BY <1>2, <1>4 DEF Younger, PlanInv, Ids
<1>7. ActiveRuns(q)
  BY <1>2, <1>4, PlanInvFacts DEF ActiveRuns, Ids, NoGoal
<1>8. YoungestCounts(q)
  BY <1>2, <1>4, PlanInvFacts DEF YoungestCounts, Counts, Exists, PlanInv, Ids
<1> QED BY <1>2, <1>4, <1>5, <1>6, <1>7, <1>8 DEF PlanInv, q

SameGoals(p, q) == q.size = p.size /\ q.goals = p.goals

LEMMA SameGoalsInv ==
  ASSUME NEW p, PlanInv(p), NEW q, GoodPlan(q), q.size = p.size, q.goals = p.goals,
         q.active # NoGoal => p.goals[q.active].status = "in_progress"
  PROVE  PlanInv(q)
BY DEF PlanInv, OneRunning, Running, Younger, ActiveRuns, YoungestCounts, Exists, Ids

LEMMA MigratedInv ==
  ASSUME NEW p, PlanInv(p)
  PROVE  LET q == Migrated(p) IN
         PlanInv(q) /\ SameGoals(p, q) /\ q.aggregateDone = p.aggregateDone
<1>1. Migrated(p).active = p.active /\ Migrated(p).aggregateDone = p.aggregateDone
  BY PlanInvFacts DEF Migrated, Plan
<1> QED BY <1>1, MigratedGood, SameGoalsInv DEF PlanInv, ActiveRuns, SameGoals

LEMMA AggregateCompletedInv ==
  ASSUME NEW p, PlanInv(p), NEW g \in Ids(p)
  PROVE  LET q == AggregateCompleted(p, g) IN
         PlanInv(q) /\ SameGoals(p, q) /\ q.aggregateDone
<1> DEFINE q == AggregateCompleted(p, g)
           a == Deactivated(p, g)
<1>1. a \in 0 .. p.size /\ (a # NoGoal => p.goals[a].status = "in_progress")
  BY PlanInvFacts
<1> HIDE DEF a
<1>2. /\ q.size = p.size /\ q.goals = p.goals /\ q.order = p.order /\ q.active = a
      /\ q.aggregateDone /\ q \in Plan(p.size)
  BY <1>1, PlanInvFacts DEF AggregateCompleted, Plan, a
<1>3. GoodPlan(q)
  BY <1>2, PlanInvFacts DEF PlanInv, GoodPlan, IsPlan, Listed, Ids
<1> QED BY <1>1, <1>2, <1>3, SameGoalsInv DEF SameGoals

LEMMA ReactivatedInv ==
  ASSUME NEW p, PlanInv(p), NEW g \in Ids(p), p.goals[g].status = "in_progress"
  PROVE  LET q == Reactivated(p, g) IN
         PlanInv(q) /\ SameGoals(p, q) /\ q.aggregateDone = p.aggregateDone
<1> DEFINE q == Reactivated(p, g)
<1>1. g \in 0 .. p.size
  BY PlanInvFacts
<1>2. /\ q.size = p.size /\ q.goals = p.goals /\ q.order = p.order /\ q.active = g
      /\ q.aggregateDone = p.aggregateDone /\ q \in Plan(p.size)
  BY <1>1, PlanInvFacts DEF Reactivated, Plan
<1>3. GoodPlan(q)
  BY <1>2, PlanInvFacts DEF PlanInv, GoodPlan, IsPlan, Listed, Ids
<1> QED BY <1>2, <1>3, SameGoalsInv DEF SameGoals

LEMMA ReorderedInv ==
  ASSUME NEW p, PlanInv(p), NEW order \in Orders(p)
  PROVE  LET q == Reordered(p, order) IN
         PlanInv(q) /\ SameGoals(p, q) /\ q.aggregateDone = p.aggregateDone
<1> DEFINE q == Reordered(p, order)
<1>1. order \in [Ids(p) -> Ids(p)] /\ \A g \in Ids(p) : \E i \in Ids(p) : order[i] = g
  BY DEF Orders
<1>2. /\ q.size = p.size /\ q.goals = p.goals /\ q.order = order /\ q.active = p.active
      /\ q.aggregateDone = p.aggregateDone /\ q \in Plan(p.size)
  BY <1>1, PlanInvFacts DEF Reordered, Plan, Ids
<1>3. GoodPlan(q)
  BY <1>1, <1>2, PlanInvFacts DEF GoodPlan, IsPlan, Listed, Ids
<1> QED BY <1>2, <1>3, SameGoalsInv DEF PlanInv, ActiveRuns, SameGoals

(* New goals are pending, so they run nothing and replace nothing.         *)
LEMMA InsertedInv ==
  ASSUME NEW p, PlanInv(p), NEW k \in Nat, p.size + k <= MaxGoals, NEW i \in 0 .. p.size
  PROVE  PlanInv(Inserted(p, k, i))
<1> DEFINE q == Inserted(p, k, i)
           n == p.size
<1>1. /\ GoodPlan(q) /\ q.size = n + k /\ q.active = p.active
      /\ \A g \in 1 .. n : q.goals[g] = p.goals[g]
      /\ \A g \in n + 1 .. n + k : q.goals[g] = NewItem
  BY InsertedGood DEF PlanInv, Ids
<1>2. n \in Nat /\ p.active \in 0 .. n
  BY PlanInvFacts DEF Plan
<1> HIDE DEF q
<1>3. \A g \in 1 .. n + k : Running(q, g) => g \in 1 .. n /\ Running(p, g)
  BY <1>1, <1>2 DEF Running, NewItem
<1>4. OneRunning(q)
  BY <1>1, <1>3 DEF OneRunning, PlanInv, Ids
<1>5. Younger(q)
  BY <1>1, <1>2 DEF Younger, PlanInv, Ids, NewItem
<1>6. ActiveRuns(q)
  BY <1>1, <1>2 DEF ActiveRuns, NoGoal, PlanInv
<1>7. YoungestCounts(q)
  <2>1. CASE k = 0
    BY <1>1, <1>2, <2>1 DEF YoungestCounts, Exists, PlanInv
  <2>2. CASE k > 0
    BY <1>1, <1>2, <2>2 DEF YoungestCounts, Exists, Counts, NewItem
  <2> QED BY <2>1, <2>2
<1> QED BY <1>1, <1>4, <1>5, <1>6, <1>7 DEF PlanInv, q

LEMMA AppendedInv ==
  ASSUME NEW p, PlanInv(p), p.size < MaxGoals
  PROVE  LET q == Appended(p) IN
         PlanInv(q) /\ Grown(p, q, NoGoal) /\ q.size = p.size + 1
<1> DEFINE q == Appended(p)
<1>1. p.size \in Nat /\ p.size + 1 <= MaxGoals /\ p.size \in 0 .. p.size
  BY PlanInvFacts, BoundsAssumption
<1>2. PlanInv(q)
  BY <1>1, InsertedInv DEF Appended
<1>3. /\ q.size = p.size + 1 /\ q.aggregateDone = p.aggregateDone
      /\ \A h \in Ids(p) : q.goals[h] = p.goals[h]
      /\ \A h \in p.size + 1 .. p.size + 1 : q.goals[h] = NewItem
  BY <1>1, InsertedGood DEF PlanInv, Appended
<1> HIDE DEF q
<1>4. Grown(p, q, NoGoal)
  BY <1>1, <1>3 DEF Grown
<1> QED BY <1>2, <1>3, <1>4 DEF q

LEMMA ReviewBlockedInv ==
  ASSUME NEW p, PlanInv(p), NEW g \in Ids(p), p.size < MaxGoals
  PROVE  LET q == ReviewBlocked(p, g) IN
         /\ PlanInv(q) /\ Grown(p, q, g)
         /\ q.size = p.size + 1
         /\ q.goals[g].status = "review_blocked"
         /\ q.goals[g].steering = p.goals[g].steering
<1> DEFINE r == Appended(p)
           a == Deactivated(p, g)
           item == [r.goals[g] EXCEPT !.status = "review_blocked"]
           q == ReviewBlocked(p, g)
<1>1. PlanInv(r) /\ Grown(p, r, NoGoal) /\ r.size = p.size + 1
  BY AppendedInv
<1>2. /\ p.size \in Nat /\ g \in 1 .. p.size /\ a \in 0 .. p.size /\ a # g
      /\ a # NoGoal => p.goals[a].status = "in_progress"
  BY PlanInvFacts
<1>3. q = Updated(r, g, item, a)
  BY DEF ReviewBlocked, Updated
<1> HIDE DEF r, a, q
<1>4. g \in Ids(r) /\ g # r.size /\ r.goals[g] = p.goals[g]
  BY <1>1, <1>2 DEF Ids, Grown, NoGoal
<1>5. a \in 0 .. r.size /\ (a # NoGoal => r.goals[a].status = "in_progress")
  BY <1>1, <1>2 DEF Ids, Grown, NoGoal
<1>6. r.goals[g] \in Item
  BY <1>1, <1>4, PlanInvFacts
<1>7. /\ item \in Item /\ item.status = "review_blocked"
      /\ item.steering = r.goals[g].steering
      /\ item.supersededBy = r.goals[g].supersededBy
  BY <1>6 DEF Item, Status
<1> HIDE DEF item
<1>8. PlanInv(q) /\ Only(r, q, g) /\ q.goals[g] = item
  BY <1>1, <1>2, <1>3, <1>4, <1>5, <1>7, UpdatedInv
<1>9. Grown(p, q, g)
  BY <1>1, <1>2, <1>8 DEF Grown, Only, Ids, NoGoal
<1> QED BY <1>1, <1>4, <1>7, <1>8, <1>9 DEF q, Only

LEMMA SupersededInv ==
  ASSUME NEW p, PlanInv(p), NEW g \in Ids(p), NEW k \in Nat \ {0}, p.size + k <= MaxGoals
  PROVE  LET q == Superseded(p, g, k) IN
         /\ PlanInv(q) /\ Grown(p, q, g)
         /\ ~Eligible(q.goals[g]) /\ q.goals[g].status = p.goals[g].status
         /\ q.goals[g].signature = p.goals[g].signature
         /\ q.goals[g].nonRetriable = p.goals[g].nonRetriable
<1> DEFINE n == p.size
           r == Inserted(p, k, Position(p, g))
           a == Deactivated(p, g)
           item == [r.goals[g] EXCEPT !.steering = "superseded",
                                      !.supersededBy = n + 1 .. n + k]
           q == Superseded(p, g, k)
<1>1. /\ PlanInv(r) /\ r.size = n + k /\ g \in 1 .. n /\ n \in Nat
      /\ r.aggregateDone = p.aggregateDone
      /\ \A h \in 1 .. n : r.goals[h] = p.goals[h]
      /\ \A h \in n + 1 .. n + k : r.goals[h] = NewItem
  <2>1. Position(p, g) \in 0 .. n /\ n \in Nat /\ g \in 1 .. n
    <3>1. Position(p, g) \in 1 .. n /\ n \in Nat /\ g \in 1 .. n
      BY PositionType, PlanInvFacts DEF PlanInv, Ids
    <3> QED BY <3>1
  <2> QED BY <2>1, InsertedInv, InsertedGood DEF PlanInv, Ids
<1>2. /\ a \in 0 .. n /\ a # g /\ (a # NoGoal => p.goals[a].status = "in_progress")
  BY PlanInvFacts
<1>3. q = Updated(r, g, item, a)
  BY DEF Superseded, Updated
<1> HIDE DEF r, a, q
<1>4. r.goals[g] \in Item /\ r.goals[g] = p.goals[g]
  BY <1>1, PlanInvFacts DEF Ids
<1>5. /\ item \in Item /\ item.steering = "superseded" /\ item.status = p.goals[g].status
      /\ item.signature = p.goals[g].signature
      /\ item.nonRetriable = p.goals[g].nonRetriable
      /\ item.supersededBy = n + 1 .. n + k
  <2>1. n + 1 .. n + k \in SUBSET GoalId
    <3>1. n \in Nat /\ k \in Nat /\ n + k <= MaxGoals /\ MaxGoals \in Nat
      BY <1>1, BoundsAssumption
    <3> HIDE DEF n
    <3> QED BY <3>1 DEF GoalId
  <2> HIDE DEF n
  <2> QED BY <1>4, <2>1 DEF Item, SteeringStatus
<1> HIDE DEF item
<1>6. /\ GoodPlan(q) /\ q.size = n + k /\ q.active = a /\ q.goals[g] = item
      /\ q.aggregateDone = r.aggregateDone
      /\ \A h \in 1 .. n + k : h # g => q.goals[h] = r.goals[h]
  <2>1. r.size = n + k /\ a \in 0 .. r.size /\ g \in Ids(r) /\ GoodPlan(r)
    BY <1>1, <1>2 DEF PlanInv, Ids
  <2>2. item \in Item
    BY <1>5
  <2>3. /\ GoodPlan(q) /\ q.size = r.size /\ q.active = a /\ q.goals[g] = item
        /\ q.aggregateDone = r.aggregateDone
        /\ \A h \in Ids(r) : h # g => q.goals[h] = r.goals[h]
    BY <1>3, <2>1, <2>2, UpdatedGood
  <2> QED BY <2>1, <2>3 DEF Ids
<1> HIDE DEF n
<1>7. /\ \A h \in 1 .. n : h # g => q.goals[h] = p.goals[h]
      /\ \A h \in n + 1 .. n + k : q.goals[h] = NewItem
  BY <1>1, <1>6
<1>8. OneRunning(q)
  <2>1. \A h \in 1 .. n + k : Running(q, h) => Running(r, h)
    BY <1>5, <1>6 DEF Running, Eligible
  <2> QED BY <1>1, <1>6, <2>1 DEF OneRunning, PlanInv, Ids
<1>9. Younger(q)
  <2> SUFFICES ASSUME NEW h \in 1 .. n + k, NEW c \in q.goals[h].supersededBy
               PROVE  h < c /\ c \in 1 .. n + k
    BY <1>6 DEF Younger, Ids
  <2>1. CASE h = g
    BY <1>1, <1>5, <1>6, <2>1
  <2>2. CASE h # g
    BY <1>1, <1>6, <2>2 DEF PlanInv, Younger, Ids
  <2> QED BY <2>1, <2>2
<1>10. ActiveRuns(q)
  BY <1>1, <1>2, <1>6, <1>7 DEF ActiveRuns, NoGoal
<1>11. YoungestCounts(q)
  BY <1>1, <1>6, <1>7 DEF YoungestCounts, Counts, Exists, NewItem
<1>12. PlanInv(q)
  BY <1>6, <1>8, <1>9, <1>10, <1>11 DEF PlanInv
<1>13. Grown(p, q, g)
  BY <1>1, <1>6, <1>7 DEF Grown, Ids, n
<1> QED BY <1>5, <1>6, <1>12, <1>13 DEF q, Eligible

-----------------------------------------------------------------------------
(* The ledger                                                              *)

LEMMA EmptyLedgerType == EmptyLedger \in Ledger
<1>1. [g \in GoalId |-> [s \in Signatures |-> 0]] \in [GoalId -> [Signatures -> Nat]]
  OBVIOUS
<1> QED BY <1>1 DEF EmptyLedger, Ledger

LEMMA EntryType ==
  ASSUME NEW event \in Event, NEW goal \in 0 .. MaxGoals
  PROVE  LET e == EntryOf(event, goal) IN
         /\ e \in Entry /\ e.signature = NoSig /\ e.goal = goal /\ e.event = event
         /\ \A key \in Keys \cup {NoKey} :
              [e EXCEPT !.key = key] \in Entry /\ [e EXCEPT !.key = key].signature = NoSig
         /\ \A gate \in BOOLEAN :
              /\ [e EXCEPT !.gate = gate] \in Entry
              /\ [e EXCEPT !.gate = gate].signature = NoSig
              /\ [e EXCEPT !.gate = gate].gate = gate
         /\ \A s \in Signatures \cup {NoSig} :
              /\ [e EXCEPT !.signature = s] \in Entry
              /\ [e EXCEPT !.signature = s].signature = s
              /\ [e EXCEPT !.signature = s].event = event
              /\ [e EXCEPT !.signature = s].goal = goal
BY DEF EntryOf, Entry

(* An entry without a signature adds no blocker record.                    *)
LEMMA PlainLogged ==
  ASSUME NEW l \in Ledger, NEW e \in Entry, e.signature = NoSig
  PROVE  Logged(l, e) \in Ledger /\ Logged(l, e).blockers = l.blockers
<1>1. ~IsBlockerRecord(e)
  BY DEF IsBlockerRecord
<1>2. l.accepted \cup (IF e.event = "steering_accepted" THEN {e.key} \ {NoKey} ELSE {})
        \in SUBSET Keys
  BY DEF Ledger, Entry
<1> QED BY <1>1, <1>2 DEF Logged, Ledger, Entry

LEMMA BlockerLogged ==
  ASSUME NEW l \in Ledger, NEW e \in Entry, e.goal \in GoalId, e.signature \in Signatures,
         e.event \in {"goal_failed", "goal_needs_user_decision"}
  PROVE  /\ Logged(l, e) \in Ledger
         /\ Logged(l, e).blockers =
              [l.blockers EXCEPT ![e.goal] = [l.blockers[e.goal] EXCEPT
                 ![e.signature] = l.blockers[e.goal][e.signature] + 1]]
<1> DEFINE b == [l.blockers EXCEPT ![e.goal] = [l.blockers[e.goal] EXCEPT
                   ![e.signature] = l.blockers[e.goal][e.signature] + 1]]
<1>1. IsBlockerRecord(e)
  BY InputsAssumption DEF IsBlockerRecord
<1>2. b \in [GoalId -> [Signatures -> Nat]]
  BY DEF Ledger
<1>3. Logged(l, e) = [accepted |-> l.accepted, blockers |-> b, gated |-> e.gate]
  <2>1. l.accepted \cup {} = l.accepted
    OBVIOUS
  <2> QED BY <1>1, <2>1 DEF Logged, Ledger
<1> HIDE DEF b
<1>4. Logged(l, e) \in Ledger /\ Logged(l, e).blockers = b
  BY <1>2, <1>3 DEF Ledger, Entry
<1> QED BY <1>4 DEF b

-----------------------------------------------------------------------------
(* The circuit breaker relates the plan to the ledger.                     *)

CircuitOK(p, l) ==
  \A g \in Ids(p) :
    LET item == p.goals[g]
        failures == SameBlockerOccurrences(l, g, item.signature) IN
    /\ item.status = "needs_user_decision" => item.nonRetriable /\ failures >= CircuitLimit
    /\ item.status = "failed" => ~item.nonRetriable /\ failures < CircuitLimit

Stuck(item) == item.status \in {"failed", "needs_user_decision"}

(* The step from p to q does not make g fail.                              *)
FailureKept(p, q, g) ==
  Stuck(q.goals[g]) =>
    /\ q.goals[g].status = p.goals[g].status
    /\ q.goals[g].signature = p.goals[g].signature
    /\ q.goals[g].nonRetriable = p.goals[g].nonRetriable

(* Neither new failure records nor newly failed goals                      *)
LEMMA CircuitKept ==
  ASSUME NEW p, NEW l, CircuitOK(p, l), NEW q, NEW m,
         m.blockers = l.blockers,
         \A g \in Ids(q) : Stuck(q.goals[g]) => g \in Ids(p) /\ FailureKept(p, q, g)
  PROVE  CircuitOK(q, m)
BY DEF CircuitOK, Stuck, FailureKept, SameBlockerOccurrences

LEMMA CircuitOnly ==
  ASSUME NEW p, NEW l, CircuitOK(p, l), NEW q, NEW g \in Ids(p), Only(p, q, g),
         NEW m, m.blockers = l.blockers, FailureKept(p, q, g)
  PROVE  CircuitOK(q, m)
BY CircuitKept DEF Only, Ids, FailureKept

LEMMA CircuitGrown ==
  ASSUME NEW p, PlanInv(p), NEW l, CircuitOK(p, l), NEW q, PlanInv(q), NEW g, Grown(p, q, g),
         NEW m, m.blockers = l.blockers,
         g \in Ids(p) => FailureKept(p, q, g)
  PROVE  CircuitOK(q, m)
<1>1. p.size \in Nat /\ q.size \in Nat
  BY PlanInvFacts
<1>2. SUFFICES ASSUME NEW h \in Ids(q), Stuck(q.goals[h])
               PROVE  h \in Ids(p) /\ FailureKept(p, q, h)
  BY CircuitKept
<1>3. h \in Ids(p)
  BY <1>1, <1>2 DEF Grown, Ids, Stuck, NewItem
<1> QED BY <1>2, <1>3 DEF Grown, FailureKept

(* The failing goal waits for the user exactly when the record that is     *)
(* being written is at least the third of its blocker.                     *)
LEMMA CircuitFailed ==
  ASSUME NEW p, PlanInv(p), NEW l \in Ledger, CircuitOK(p, l), NEW g \in Ids(p),
         NEW s \in Signatures \cup {NoSig}, NEW e \in Entry, e.goal = g, e.signature = s,
         e.event \in {"goal_failed", "goal_needs_user_decision"}
  PROVE  CircuitOK(Failed(p, g, s, SameBlockerOccurrences(l, g, s) + 1), Logged(l, e))
<1> DEFINE n == SameBlockerOccurrences(l, g, s) + 1
           q == Failed(p, g, s, n)
           m == Logged(l, e)
<1>1. g \in GoalId
  <2>1. g \in 1 .. p.size /\ p.size \in 0 .. MaxGoals /\ MaxGoals \in Nat
    BY PlanInvFacts, BoundsAssumption
  <2> QED BY <2>1 DEF GoalId
<1>2. /\ Only(p, q, g) /\ q.goals[g].signature = s
      /\ IF s # NoSig /\ n >= CircuitLimit
         THEN q.goals[g].status = "needs_user_decision" /\ q.goals[g].nonRetriable
         ELSE q.goals[g].status = "failed" /\ ~q.goals[g].nonRetriable
  BY FailedInv
<1>3. CASE s = NoSig
  <2>1. m.blockers = l.blockers
    BY <1>3, PlainLogged
  <2>2. SameBlockerOccurrences(m, g, s) = 0
    BY <1>3 DEF SameBlockerOccurrences
  <2> HIDE DEF q, m, n
  <2>3. CircuitOK(q, m)
    BY <1>2, <1>3, <2>1, <2>2 DEF CircuitOK, SameBlockerOccurrences, Only, Ids, CircuitLimit
  <2> QED BY <2>3 DEF q, m, n
<1>4. CASE s # NoSig
  <2>1. m.blockers = [l.blockers EXCEPT ![g] = [l.blockers[g] EXCEPT
                        ![s] = l.blockers[g][s] + 1]]
    BY <1>1, <1>4, BlockerLogged
  <2>2. n = l.blockers[g][s] + 1 /\ n \in Nat
    BY <1>1, <1>4 DEF SameBlockerOccurrences, Ledger
  <2>3. SameBlockerOccurrences(m, g, s) = n
    BY <1>1, <1>4, <2>1, <2>2 DEF SameBlockerOccurrences, Ledger
  <2>4. \A h \in Ids(p), t \in Signatures \cup {NoSig} :
          h # g => SameBlockerOccurrences(m, h, t) = SameBlockerOccurrences(l, h, t)
    BY <1>1, <1>4, <2>1 DEF SameBlockerOccurrences, Ledger
  <2>5. \A h \in Ids(p) : p.goals[h].signature \in Signatures \cup {NoSig}
    BY PlanInvFacts DEF Item
  <2> HIDE DEF q, m, n
  <2> SUFFICES ASSUME NEW h \in Ids(p)
               PROVE  LET item == q.goals[h]
                          failures == SameBlockerOccurrences(m, h, item.signature) IN
                      /\ item.status = "needs_user_decision" =>
                           item.nonRetriable /\ failures >= CircuitLimit
                      /\ item.status = "failed" =>
                           ~item.nonRetriable /\ failures < CircuitLimit
    BY <1>2 DEF CircuitOK, Only, Ids, q, m, n
  <2>6. CASE h = g
    BY <1>2, <1>4, <2>2, <2>3, <2>6 DEF CircuitLimit
  <2>7. CASE h # g
    <3>1. q.goals[h] = p.goals[h]
      BY <1>2, <2>7 DEF Only
    <3> QED BY <2>4, <2>5, <2>7, <3>1 DEF CircuitOK
  <2> QED BY <2>6, <2>7
<1> QED BY <1>3, <1>4

-----------------------------------------------------------------------------
(* The inductive invariant of the state machine                            *)

IInv == PlanInv(plan) /\ ledger \in Ledger /\ CircuitOK(plan, ledger)

LEMMA ReadInv ==
  ASSUME IInv
  PROVE  /\ PlanInv(Read) /\ SameGoals(plan, Read) /\ Ids(Read) = Ids(plan)
         /\ Read.aggregateDone = plan.aggregateDone
         /\ CircuitOK(Read, ledger)
         /\ plan.size \in Nat
<1>1. /\ PlanInv(Read) /\ SameGoals(plan, Read)
      /\ Read.aggregateDone = plan.aggregateDone /\ plan.size \in Nat
  BY MigratedInv, PlanInvFacts DEF Read, IInv
<1> QED BY <1>1 DEF SameGoals, Ids, CircuitOK, IInv

LEMMA InitInv == Init => IInv
<1> SUFFICES ASSUME Init PROVE IInv
  OBVIOUS
<1>1. CASE plan = NoPlan /\ ledger = EmptyLedger
  <2>1. "aggregate" \in Mode /\ 0 \in 0 .. MaxGoals
    BY BoundsAssumption DEF Mode
  <2>2. PlanInv(NoPlan)
    BY <2>1, CreatedInv DEF NoPlan
  <2>3. CircuitOK(NoPlan, ledger)
    BY DEF CircuitOK, NoPlan, Created, Ids
  <2> QED BY <1>1, <2>2, <2>3, EmptyLedgerType DEF IInv
<1>2. CASE /\ plan # NoPlan /\ plan \in LegacyPlans
           /\ ledger = Logged(EmptyLedger, EntryOf("plan_created", NoGoal))
  <2>1. PICK n \in 1 .. MaxInitial : plan = [Created("aggregate", n) EXCEPT !.legacy = TRUE]
    BY <1>2 DEF LegacyPlans
  <2> DEFINE c == Created("aggregate", n)
  <2>2. n \in 0 .. MaxGoals /\ "aggregate" \in Mode
    BY CallerAssumption, BoundsAssumption DEF Mode
  <2>3. PlanInv(c)
    BY <2>2, CreatedInv
  <2>4. \A g \in 1 .. n : c.goals[g] = NewItem
    BY DEF Created
  <2>5. c.size = n
    BY DEF Created
  <2> HIDE DEF c
  <2>6. /\ plan.size = n /\ plan.goals = c.goals /\ plan.order = c.order
        /\ plan.active = c.active /\ plan \in Plan(n)
    BY <2>1, <2>3, <2>5, PlanInvFacts DEF Plan, c
  <2>7. GoodPlan(plan)
    BY <2>2, <2>3, <2>5, <2>6 DEF PlanInv, GoodPlan, IsPlan, Listed, Ids
  <2>8. PlanInv(plan)
    BY <2>3, <2>5, <2>6, <2>7, SameGoalsInv DEF PlanInv, ActiveRuns
  <2>9. ledger \in Ledger
    <3>1. "plan_created" \in Event /\ NoGoal \in 0 .. MaxGoals
      BY BoundsAssumption DEF Event, NoGoal
    <3>2. LET e == EntryOf("plan_created", NoGoal) IN e \in Entry /\ e.signature = NoSig
      BY <3>1, EntryType
    <3> QED BY <1>2, <3>2, EmptyLedgerType, PlainLogged
  <2>10. CircuitOK(plan, ledger)
    BY <2>4, <2>6 DEF CircuitOK, Ids, NewItem
  <2> QED BY <2>8, <2>9, <2>10 DEF IInv
<1> QED BY <1>1, <1>2 DEF Init

(* A step that logs an entry without signature keeps the invariant if it   *)
(* turns the plan it read into a good one with no newly failed goal.       *)
LEMMA PlainStep ==
  ASSUME IInv, NEW e \in Entry, e.signature = NoSig, ledger' = Logged(ledger, e),
         PlanInv(plan'),
         \/ SameGoals(Read, plan')
         \/ \E g \in Ids(Read) : Only(Read, plan', g) /\ FailureKept(Read, plan', g)
         \/ Grown(Read, plan', NoGoal)
         \/ \E g \in Ids(Read) : Grown(Read, plan', g) /\ FailureKept(Read, plan', g)
  PROVE  IInv'
<1>1. ledger' \in Ledger /\ ledger'.blockers = ledger.blockers
  BY PlainLogged DEF IInv
<1>2. PlanInv(Read) /\ CircuitOK(Read, ledger) /\ Read.size \in Nat
  BY ReadInv, PlanInvFacts
<1>3. CircuitOK(plan', ledger')
  <2>1. CASE SameGoals(Read, plan')
    BY <1>1, <1>2, <2>1, CircuitKept DEF SameGoals, Ids, FailureKept
  <2>2. CASE \E g \in Ids(Read) : Only(Read, plan', g) /\ FailureKept(Read, plan', g)
    BY <1>1, <1>2, <2>2, CircuitOnly
  <2>3. CASE Grown(Read, plan', NoGoal)
    BY <1>1, <1>2, <2>3, CircuitGrown DEF Ids, NoGoal
  <2>4. CASE \E g \in Ids(Read) : Grown(Read, plan', g) /\ FailureKept(Read, plan', g)
    BY <1>1, <1>2, <2>4, CircuitGrown
  <2> QED BY <2>1, <2>2, <2>3, <2>4
<1> QED BY <1>1, <1>3 DEF IInv

LEMMA ChildrenInBounds ==
  ASSUME NEW k \in 1 .. MaxChildren PROVE k \in Nat \ {0}
BY CallerAssumption

LEMMA SteeringInv == IInv /\ Steering => IInv'
<1> SUFFICES ASSUME IInv, NEW key \in Keys \cup {NoKey}, Steer(key) PROVE IInv'
  BY DEF Steering
<1>1. /\ PlanInv(Read) /\ SameGoals(plan, Read) /\ Ids(Read) = Ids(plan)
      /\ Read.size = plan.size /\ plan.size \in Nat /\ Read.size \in 0 .. MaxGoals
  BY ReadInv, PlanInvFacts DEF SameGoals
<1>2. /\ NoGoal \in 0 .. MaxGoals
      /\ \A g \in Ids(plan) : g \in 0 .. MaxGoals
  BY <1>1, BoundsAssumption DEF NoGoal, Ids
<1>3. ASSUME NEW g \in 0 .. MaxGoals, Accepted(key, g)
      PROVE  \E e \in Entry : e.signature = NoSig /\ ledger' = Logged(ledger, e)
  <2>1. "steering_accepted" \in Event
    BY DEF Event
  <2>2. LET e == [EntryOf("steering_accepted", g) EXCEPT !.key = key] IN
        e \in Entry /\ e.signature = NoSig
    BY <2>1, EntryType
  <2> QED BY <1>3, <2>2 DEF Accepted, Log
<1>4. CASE SteerAddSubgoal(key)
  <2>1. Read.size < MaxGoals /\ plan' = Appended(Read) /\ Accepted(key, NoGoal)
    BY <1>1, <1>4 DEF SteerAddSubgoal
  <2> QED BY <1>1, <1>2, <1>3, <2>1, AppendedInv, PlainStep
<1>5. ASSUME NEW g \in Ids(Read), NEW k \in 1 .. MaxChildren, Read.size + k <= MaxGoals,
             plan' = Superseded(Read, g, k), Accepted(key, g)
      PROVE  IInv'
  <2>1. /\ PlanInv(plan') /\ Grown(Read, plan', g)
        /\ FailureKept(Read, plan', g)
    BY <1>1, <1>5, ChildrenInBounds, SupersededInv DEF FailureKept
  <2> QED BY <1>1, <1>2, <1>3, <1>5, <2>1, PlainStep
<1>6. CASE \E g \in GoalId, k \in 1 .. MaxChildren : SteerSplit(g, k, key)
  BY <1>1, <1>5, <1>6 DEF SteerSplit
<1>7. CASE \E request \in Requests(Read) : SteerReorder(request, key)
  <2>1. PICK order \in Orders(Read) : plan' = Reordered(Read, order)
    BY <1>7 DEF SteerReorder
  <2>2. Accepted(key, NoGoal)
    BY <1>7 DEF SteerReorder
  <2> QED BY <1>1, <1>2, <1>3, <2>1, <2>2, ReorderedInv, PlainStep
<1>8. CASE \E g \in GoalId, k \in 1 .. MaxChildren : SteerSupersede(g, k, key)
  BY <1>1, <1>5, <1>8 DEF SteerSupersede
<1>9. CASE \E g \in GoalId : SteerBlock(g, key)
  <2>1. PICK g \in Ids(Read) : plan' = SteeringBlocked(Read, g) /\ Accepted(key, g)
    BY <1>1, <1>9 DEF SteerBlock
  <2>2. PlanInv(plan') /\ Only(Read, plan', g) /\ FailureKept(Read, plan', g)
    BY <1>1, <2>1, SteeringBlockedInv DEF FailureKept
  <2> QED BY <1>1, <1>2, <1>3, <2>1, <2>2, PlainStep
<1>10. CASE SteerWording(key)
  BY <1>1, <1>2, <1>3, <1>10, PlainStep DEF SteerWording, SameGoals
<1> QED BY <1>4, <1>6, <1>7, <1>8, <1>9, <1>10 DEF Steer

LEMMA NextInv == IInv /\ [Next]_vars => IInv'
<1> SUFFICES ASSUME IInv, [Next]_vars PROVE IInv'
  OBVIOUS
<1>1. /\ PlanInv(Read) /\ SameGoals(plan, Read) /\ Ids(Read) = Ids(plan)
      /\ Read.size = plan.size /\ plan.size \in Nat /\ Read.size \in 0 .. MaxGoals
      /\ CircuitOK(Read, ledger)
  BY ReadInv, PlanInvFacts DEF SameGoals
<1>2. /\ NoGoal \in 0 .. MaxGoals
      /\ \A g \in Ids(plan) : g \in 0 .. MaxGoals
      /\ plan.size < MaxGoals => plan.size + 1 \in 0 .. MaxGoals
  BY <1>1, BoundsAssumption DEF NoGoal, Ids
<1>3. ASSUME NEW event \in Event, NEW goal \in 0 .. MaxGoals, NEW gate \in BOOLEAN,
             \/ Log(EntryOf(event, goal))
             \/ Log([EntryOf(event, goal) EXCEPT !.gate = gate])
      PROVE  \E e \in Entry : e.signature = NoSig /\ ledger' = Logged(ledger, e)
  <2> DEFINE e == EntryOf(event, goal)
             d == [e EXCEPT !.gate = gate]
  <2>1. e \in Entry /\ e.signature = NoSig /\ d \in Entry /\ d.signature = NoSig
    BY EntryType
  <2>2. ledger' = Logged(ledger, e) \/ ledger' = Logged(ledger, d)
    BY <1>3 DEF Log
  <2> HIDE DEF e, d
  <2> QED BY <2>1, <2>2
<1>4. Event = {"plan_created", "goal_started", "goal_retried", "goal_resumed", "goal_completed",
          "goal_blocked", "goal_failed", "goal_needs_user_decision", "aggregate_completed",
          "aggregate_objective_migrated", "goal_added", "steering_accepted",
          "steering_rejected", "goal_review_blocked"}
  BY DEF Event
<1>5. CASE Create
  <2>1. PICK mode \in Modes, n \in 1 .. MaxInitial :
          /\ plan' = Created(mode, n)
          /\ ledger' = Logged(EmptyLedger, EntryOf("plan_created", NoGoal))
    BY <1>5 DEF Create, CreateUltragoalPlan
  <2>2. mode \in Mode /\ n \in 0 .. MaxGoals
    BY CallerAssumption, BoundsAssumption
  <2>3. PlanInv(plan')
    BY <2>1, <2>2, CreatedInv
  <2>4. LET e == EntryOf("plan_created", NoGoal) IN e \in Entry /\ e.signature = NoSig
    BY <1>2, <1>4, EntryType
  <2>5. ledger' \in Ledger
    BY <2>1, <2>4, PlainLogged, EmptyLedgerType
  <2>6. plan'.size = n /\ \A g \in 1 .. n : plan'.goals[g] = NewItem
    BY <2>1 DEF Created
  <2>7. CircuitOK(plan', ledger')
    BY <2>6 DEF CircuitOK, Ids, NewItem
  <2> QED BY <2>3, <2>5, <2>7 DEF IInv
<1>6. CASE ReadUltragoalPlan
  <2>1. plan' = Read /\ \E e \in Entry : e.signature = NoSig /\ ledger' = Logged(ledger, e)
    BY <1>2, <1>3, <1>4, <1>6 DEF ReadUltragoalPlan, Read
  <2> QED BY <1>1, <2>1, PlainStep DEF SameGoals
<1>7. CASE AddUltragoalGoal
  <2>1. Read.size < MaxGoals /\ plan' = Appended(Read)
    BY <1>1, <1>7 DEF AddUltragoalGoal
  <2>2. \E e \in Entry : e.signature = NoSig /\ ledger' = Logged(ledger, e)
    BY <1>2, <1>3, <1>4, <1>7 DEF AddUltragoalGoal
  <2> QED BY <1>1, <2>1, <2>2, AppendedInv, PlainStep
<1>8. CASE StartNext
  <2>1. PICK g \in GoalId : /\ CanStart(Read, g) \/ CanRetry(Read, g)
                            /\ plan' = Started(Read, g)
                            /\ Log(EntryOf("goal_started", g))
    BY <1>8 DEF StartNext, StartNextUltragoal
  <2>2. g \in Ids(Read) /\ NothingRunning(Read)
    BY <2>1 DEF CanStart, CanRetry, First
  <2>3. \E e \in Entry : e.signature = NoSig /\ ledger' = Logged(ledger, e)
    BY <1>1, <1>2, <1>3, <1>4, <2>1, <2>2
  <2>4. PlanInv(plan') /\ Only(Read, plan', g) /\ FailureKept(Read, plan', g)
    BY <1>1, <2>1, <2>2, StartedInv DEF FailureKept, Stuck
  <2> QED BY <2>2, <2>3, <2>4, PlainStep
<1>9. CASE Resume
  <2>1. PICK g \in GoalId : Resumable(Read, g) /\ plan' = Read /\ Log(EntryOf("goal_resumed", g))
    BY <1>9 DEF Resume, ResumeUltragoal
  <2>2. g \in Ids(Read)
    BY <2>1 DEF Resumable, First
  <2>3. \E e \in Entry : e.signature = NoSig /\ ledger' = Logged(ledger, e)
    BY <1>1, <1>2, <1>3, <1>4, <2>1, <2>2
  <2> QED BY <1>1, <2>1, <2>3, PlainStep DEF SameGoals
<1>10. CASE Complete
  <2>1. PICK g \in Ids(plan), a \in AllowActive :
          /\ plan' = Completed(Read, g)
          /\ Log([EntryOf("goal_completed", g) EXCEPT !.gate = GateRequired(Read, g, a)])
    BY <1>10 DEF Complete, CompleteGoal
  <2>2. GateRequired(Read, g, a) \in BOOLEAN
    BY DEF GateRequired
  <2>3. \E e \in Entry : e.signature = NoSig /\ ledger' = Logged(ledger, e)
    BY <1>2, <1>3, <1>4, <2>1, <2>2
  <2>4. PlanInv(plan') /\ Only(Read, plan', g) /\ FailureKept(Read, plan', g)
    BY <1>1, <2>1, CompletedInv DEF FailureKept, Stuck
  <2> QED BY <1>1, <2>3, <2>4, PlainStep
<1>11. CASE CompleteTask
  <2>1. PICK g \in Ids(plan) :
          /\ plan' = AggregateCompleted(Read, g)
          /\ Log([EntryOf("aggregate_completed", g) EXCEPT !.gate = TRUE])
    BY <1>11 DEF CompleteTask, CompleteAggregate
  <2>2. \E e \in Entry : e.signature = NoSig /\ ledger' = Logged(ledger, e)
    BY <1>2, <1>3, <1>4, <2>1
  <2> QED BY <1>1, <2>1, <2>2, AggregateCompletedInv, PlainStep
<1>12. CASE Fail
  <2>1. PICK g \in Ids(plan), s \in Signatures \cup {NoSig} : FailGoal(g, s)
    BY <1>12 DEF Fail, FailGoal
  <2> DEFINE n == SameBlockerOccurrences(ledger, g, s) + 1
             event == IF plan'.goals[g].status = "failed"
                      THEN "goal_failed" ELSE "goal_needs_user_decision"
             e == [EntryOf(event, g) EXCEPT !.signature = s]
  <2>2. plan' = Failed(Read, g, s, n) /\ ledger' = Logged(ledger, e)
    BY <2>1 DEF FailGoal, Log
  <2>3. event \in {"goal_failed", "goal_needs_user_decision"} /\ event \in Event
    BY <1>4
  <2> HIDE DEF event
  <2>4. e \in Entry /\ e.goal = g /\ e.signature = s /\ e.event = event
    BY <1>2, <2>3, EntryType
  <2> HIDE DEF e
  <2>5. PlanInv(plan') /\ CircuitOK(plan', ledger')
    BY <1>1, <2>2, <2>3, <2>4, FailedInv, CircuitFailed DEF IInv
  <2>6. ledger' \in Ledger
    <3>1. CASE s = NoSig
      BY <2>2, <2>4, <3>1, PlainLogged DEF IInv
    <3>2. CASE s # NoSig
      <4>1. g \in GoalId /\ s \in Signatures
        BY <1>2, <3>2, BoundsAssumption DEF Ids, GoalId
      <4> QED BY <2>2, <2>3, <2>4, <4>1, BlockerLogged DEF IInv
    <3> QED BY <3>1, <3>2
  <2> QED BY <2>5, <2>6 DEF IInv
<1>13. CASE Blocked
  <2>1. PICK g \in Ids(plan) : /\ Read.goals[g].status = "in_progress"
                               /\ plan' = Reactivated(Read, g)
                               /\ Log(EntryOf("goal_blocked", g))
    BY <1>13 DEF Blocked, RecordBlocked, BlockedCheckpointAllowed
  <2>2. \E e \in Entry : e.signature = NoSig /\ ledger' = Logged(ledger, e)
    BY <1>2, <1>3, <1>4, <2>1
  <2> QED BY <1>1, <2>1, <2>2, ReactivatedInv, PlainStep
<1>14. CASE ReviewBlockers
  <2>1. PICK g \in Ids(plan) : /\ plan.size < MaxGoals
                               /\ plan' = ReviewBlocked(Read, g)
                               /\ Log(EntryOf("goal_review_blocked", g))
    BY <1>14 DEF ReviewBlockers, RecordFinalReviewBlockers
  <2>2. \E e \in Entry : e.signature = NoSig /\ ledger' = Logged(ledger, e)
    BY <1>2, <1>3, <1>4, <2>1
  <2>3. PlanInv(plan') /\ Grown(Read, plan', g) /\ FailureKept(Read, plan', g)
    BY <1>1, <2>1, ReviewBlockedInv DEF FailureKept, Stuck
  <2> QED BY <1>1, <2>2, <2>3, PlainStep
<1>15. CASE Steering
  BY <1>15, SteeringInv
<1>16. CASE SteerRejected
  <2>1. plan' = Read /\ \E e \in Entry : e.signature = NoSig /\ ledger' = Logged(ledger, e)
    BY <1>2, <1>3, <1>4, <1>16 DEF SteerRejected
  <2> QED BY <1>1, <2>1, PlainStep DEF SameGoals
<1>17. CASE UNCHANGED vars
  BY <1>17 DEF vars, IInv
<1> QED BY <1>5, <1>6, <1>7, <1>8, <1>9, <1>10, <1>11, <1>12, <1>13, <1>14, <1>15, <1>16, <1>17
     DEF Next

-----------------------------------------------------------------------------
THEOREM Invariant == Spec => []IInv
<1>1. IInv /\ [Next]_vars => IInv'
  BY NextInv
<1> QED BY InitInv, <1>1, PTL DEF Spec

(* The plan and the ledger are always well-formed: no command leaves a     *)
(* goal without an item, a position or a legal status.                     *)
THEOREM TypeCorrect == Spec => []TypeOK
<1>1. IInv => TypeOK
  BY DEF IInv, PlanInv, GoodPlan, TypeOK
<1> QED BY <1>1, Invariant, PTL

(* Every goal is in the list, whatever is appended, split and reordered.   *)
THEOREM GoalsListed == Spec => []EveryGoalListed
<1>1. ASSUME IInv PROVE EveryGoalListed
  <2>1. /\ plan.order \in [Ids(plan) -> Ids(plan)]
        /\ \A g \in Ids(plan) : \E i \in Ids(plan) : plan.order[i] = g
    BY <1>1, PlanInvFacts DEF IInv, PlanInv, GoodPlan, Listed, Plan, Ids
  <2> QED BY <2>1 DEF EveryGoalListed
<1> QED BY <1>1, Invariant, PTL

(* At most one story the scheduler considers is in progress.               *)
THEOREM OneStory == Spec => []OneStoryAtATime
<1>1. IInv => OneStoryAtATime
  BY DEF IInv, PlanInv, OneRunning, OneStoryAtATime
<1> QED BY <1>1, Invariant, PTL

(* A goal is replaced by younger goals only.                               *)
THEOREM NoReplacementCycle == Spec => []ReplacementsYounger
<1>1. IInv => ReplacementsYounger
  BY DEF IInv, PlanInv, Younger, ReplacementsYounger
<1> QED BY <1>1, Invariant, PTL

(* The active goal is in progress.                                         *)
THEOREM ActiveRunning == Spec => []ActiveInProgress
<1>1. IInv => ActiveInProgress
  BY DEF IInv, PlanInv, ActiveRuns, ActiveInProgress
<1> QED BY <1>1, Invariant, PTL

(* A goal waits for the user exactly from the third record of its blocker. *)
THEOREM CircuitBroken == Spec => []CircuitBreaker
<1>1. IInv => CircuitBreaker
  BY DEF IInv, CircuitOK, CircuitBreaker
<1> QED BY <1>1, Invariant, PTL

(* The youngest story of a plan its stories completed is complete: a final *)
(* review cannot be got round by blocking, splitting or superseding it.    *)
THEOREM YoungestDone == Spec => []YoungestComplete
<1>1. ASSUME IInv PROVE YoungestComplete
  <2> SUFFICES ASSUME Done(plan), ~plan.aggregateDone, Exists(plan)
               PROVE  plan.goals[plan.size].status = "complete"
    BY DEF YoungestComplete
  <2> DEFINE youngest == plan.goals[plan.size]
  <2>1. plan.size \in Nat /\ plan.size \in Ids(plan) /\ youngest \in Item
    BY <1>1, PlanInvFacts DEF IInv, Exists, Ids
  <2>2. Counts(youngest)
    BY <1>1 DEF IInv, PlanInv, YoungestCounts
  <2>3. ~CompletionBlocking(plan, plan.size)
    BY <2>1 DEF Done, Exists
  <2>4. youngest.steering = "none" /\ Resolved(youngest.status)
    BY <2>1, <2>2, <2>3 DEF CompletionBlocking, Counts, Item, SteeringStatus
  <2> QED BY <2>2, <2>4 DEF Resolved, Counts
<1> QED BY <1>1, Invariant, PTL

-----------------------------------------------------------------------------
(* The kinds of step, by what they do to the plan p the command read       *)

Recreates(q) == \E mode \in Mode, n \in 1 .. MaxGoals : q = Created(mode, n)

Keeps(p, q) == SameGoals(p, q) /\ q.order = p.order /\ q.aggregateDone = p.aggregateDone

Reorders(p, q) ==
  /\ SameGoals(p, q) /\ q.aggregateDone = p.aggregateDone
  /\ \E g \in Ids(p) : Waiting(p, g)

Starts(p, q, g) ==
  Only(p, q, g) /\ Eligible(p.goals[g]) /\ Eligible(q.goals[g])
  /\ q.goals[g].status = "in_progress"

Completes(p, q, g, gated) ==
  /\ Only(p, q, g)
  /\ q.goals[g].status = "complete" /\ q.goals[g].steering = p.goals[g].steering
  /\ gated \/ ~FinalCandidate(p, g)

Fails(p, q, g) ==
  /\ Only(p, q, g) /\ Stuck(q.goals[g])
  /\ q.goals[g].steering = p.goals[g].steering
  /\ q.goals[g].supersededBy = p.goals[g].supersededBy

Blocks(p, q, g) ==
  /\ Only(p, q, g)
  /\ q.goals[g].steering = "blocked" /\ q.goals[g].status = p.goals[g].status

Extends(p, q, g) ==
  /\ Grown(p, q, g)
  /\ g \in Ids(p) =>
       /\ q.goals[g].status \in {p.goals[g].status, "review_blocked"}
       /\ Eligible(q.goals[g]) => Eligible(p.goals[g])

Shape(p, q, gated) ==
  \/ Recreates(q)
  \/ Keeps(p, q) \/ Reorders(p, q)
  \/ SameGoals(p, q) /\ gated
  \/ \E g \in Ids(p) : Starts(p, q, g) \/ Completes(p, q, g, gated)
                       \/ Fails(p, q, g) \/ Blocks(p, q, g)
  \/ \E g \in Ids(p) \cup {NoGoal} : Extends(p, q, g)

LEMMA ReadKeeps == ASSUME IInv PROVE Keeps(plan, Read)
<1>1. Read.order = plan.order
  BY PlanInvFacts DEF IInv, Read, Migrated, Plan
<1> QED BY <1>1, ReadInv DEF Keeps

LEMMA SteeringShape ==
  ASSUME IInv, NEW key \in Keys \cup {NoKey}, Steer(key), NEW gated
  PROVE  Shape(Read, plan', gated)
<1>1. /\ PlanInv(Read) /\ SameGoals(plan, Read) /\ Ids(Read) = Ids(plan)
      /\ Read.size = plan.size /\ plan.size \in Nat
  BY ReadInv DEF SameGoals
<1>2. CASE SteerAddSubgoal(key)
  <2>1. Read.size < MaxGoals /\ plan' = Appended(Read)
    BY <1>1, <1>2 DEF SteerAddSubgoal
  <2>2. Grown(Read, plan', NoGoal)
    BY <1>1, <2>1, AppendedInv
  <2>3. NoGoal \notin Ids(Read)
    BY <1>1 DEF NoGoal, Ids
  <2> QED BY <2>2, <2>3 DEF Shape, Extends
<1>3. ASSUME NEW g \in Ids(Read), NEW k \in 1 .. MaxChildren, Read.size + k <= MaxGoals,
             plan' = Superseded(Read, g, k)
      PROVE  Extends(Read, plan', g)
  BY <1>1, <1>3, ChildrenInBounds, SupersededInv DEF Extends
<1>4. CASE \E g \in GoalId, k \in 1 .. MaxChildren : SteerSplit(g, k, key)
  BY <1>1, <1>3, <1>4 DEF SteerSplit, Shape
<1>5. CASE \E request \in Requests(Read) : SteerReorder(request, key)
  <2>1. PICK request \in Requests(Read) : SteerReorder(request, key)
    BY <1>5
  <2>2. PICK order \in Orders(Read) : plan' = Reordered(Read, order)
    BY <2>1 DEF SteerReorder
  <2>3. \E g \in Ids(Read) : Waiting(Read, g)
    <3> DEFINE W == {g \in Ids(Read) : Waiting(Read, g)}
    <3>1. PICK k \in 1 .. Cardinality(W) : request \in [1 .. k -> W]
      BY <2>1 DEF Requests
    <3>2. k \in 1 .. k
      BY <3>1
    <3> QED BY <3>1, <3>2
  <2> QED BY <1>1, <2>2, <2>3, ReorderedInv DEF Shape, Reorders
<1>6. CASE \E g \in GoalId, k \in 1 .. MaxChildren : SteerSupersede(g, k, key)
  BY <1>1, <1>3, <1>6 DEF SteerSupersede, Shape
<1>7. CASE \E g \in GoalId : SteerBlock(g, key)
  <2>1. PICK g \in Ids(Read) : plan' = SteeringBlocked(Read, g)
    BY <1>1, <1>7 DEF SteerBlock
  <2> QED BY <1>1, <2>1, SteeringBlockedInv DEF Shape, Blocks
<1>8. CASE SteerWording(key)
  BY <1>8 DEF SteerWording, Shape, Keeps, SameGoals
<1> QED BY <1>2, <1>4, <1>5, <1>6, <1>7, <1>8 DEF Steer

LEMMA LoggedGate ==
  ASSUME NEW event, NEW goal, NEW gate,
         Log([EntryOf(event, goal) EXCEPT !.gate = gate])
  PROVE  ledger'.gated = gate
BY DEF Log, Logged, EntryOf

(* The ledger records the gate of a completion if no caller sets           *)
(* allowActiveFinalCodexGoal, as no command does.                          *)
LEMMA NextShape ==
  ASSUME IInv, Next, NEW gated,
         \/ gated
         \/ AllowActive \subseteq {FALSE} /\ gated = ledger'.gated
  PROVE  Shape(Read, plan', gated)
<1>1. /\ PlanInv(Read) /\ SameGoals(plan, Read) /\ Ids(Read) = Ids(plan)
      /\ Read.size = plan.size /\ plan.size \in Nat
  BY ReadInv DEF SameGoals
<1>2. CASE Create
  <2>1. PICK mode \in Modes, n \in 1 .. MaxInitial : plan' = Created(mode, n)
    BY <1>2 DEF Create, CreateUltragoalPlan
  <2>2. mode \in Mode /\ n \in 1 .. MaxGoals
    BY CallerAssumption, BoundsAssumption
  <2> QED BY <2>1, <2>2 DEF Shape, Recreates
<1>3. CASE ReadUltragoalPlan \/ Resume \/ SteerRejected
  <2>1. plan' = Read
    BY <1>3 DEF ReadUltragoalPlan, Read, Resume, ResumeUltragoal, SteerRejected
  <2> QED BY <2>1 DEF Shape, Keeps, SameGoals
<1>4. CASE AddUltragoalGoal
  <2>1. Read.size < MaxGoals /\ plan' = Appended(Read)
    BY <1>1, <1>4 DEF AddUltragoalGoal
  <2>2. Grown(Read, plan', NoGoal)
    BY <1>1, <2>1, AppendedInv
  <2>3. NoGoal \notin Ids(Read)
    BY <1>1 DEF NoGoal, Ids
  <2> QED BY <2>2, <2>3 DEF Shape, Extends
<1>5. CASE StartNext
  <2>1. PICK g \in GoalId : /\ CanStart(Read, g) \/ CanRetry(Read, g)
                            /\ plan' = Started(Read, g)
    BY <1>5 DEF StartNext, StartNextUltragoal
  <2>2. g \in Ids(Read) /\ NothingRunning(Read) /\ Eligible(Read.goals[g])
    BY <2>1 DEF CanStart, CanRetry, First, Waiting, Retriable
  <2>3. Starts(Read, plan', g)
    BY <1>1, <2>1, <2>2, StartedInv DEF Starts, Eligible
  <2> QED BY <2>2, <2>3 DEF Shape
<1>6. CASE Complete
  <2>1. PICK g \in Ids(plan), a \in AllowActive :
          /\ plan' = Completed(Read, g)
          /\ Log([EntryOf("goal_completed", g) EXCEPT !.gate = GateRequired(Read, g, a)])
    BY <1>6 DEF Complete, CompleteGoal
  <2>2. ledger'.gated = GateRequired(Read, g, a)
    BY <2>1, LoggedGate
  <2>3. gated \/ ~FinalCandidate(Read, g)
    BY <2>2 DEF GateRequired
  <2>4. Completes(Read, plan', g, gated)
    BY <1>1, <2>1, <2>3, CompletedInv DEF Completes
  <2> QED BY <1>1, <2>4 DEF Shape
<1>7. CASE CompleteTask
  <2>1. PICK g \in Ids(plan) :
          /\ plan' = AggregateCompleted(Read, g)
          /\ Log([EntryOf("aggregate_completed", g) EXCEPT !.gate = TRUE])
    BY <1>7 DEF CompleteTask, CompleteAggregate
  <2>2. gated
    BY <2>1, LoggedGate
  <2>3. SameGoals(Read, plan')
    BY <1>1, <2>1, AggregateCompletedInv
  <2> QED BY <2>2, <2>3 DEF Shape
<1>8. CASE Fail
  <2>1. PICK g \in Ids(plan), s \in Signatures \cup {NoSig}, n \in {
               SameBlockerOccurrences(ledger, h, t) + 1 :
                 h \in Ids(plan), t \in Signatures \cup {NoSig}} :
          plan' = Failed(Read, g, s, n)
    BY <1>8 DEF Fail, FailGoal
  <2>2. Fails(Read, plan', g)
    BY <1>1, <2>1, FailedInv DEF Fails, Stuck
  <2> QED BY <1>1, <2>2 DEF Shape
<1>9. CASE Blocked
  <2>1. PICK g \in Ids(plan) : /\ Read.goals[g].status = "in_progress"
                               /\ plan' = Reactivated(Read, g)
    BY <1>9 DEF Blocked, RecordBlocked, BlockedCheckpointAllowed
  <2>2. plan'.order = Read.order
    BY <1>1, <2>1, PlanInvFacts DEF Reactivated, Plan
  <2> QED BY <1>1, <2>1, <2>2, ReactivatedInv DEF Shape, Keeps
<1>10. CASE ReviewBlockers
  <2>1. PICK g \in Ids(plan) : plan.size < MaxGoals /\ plan' = ReviewBlocked(Read, g)
    BY <1>10 DEF ReviewBlockers, RecordFinalReviewBlockers
  <2>2. Extends(Read, plan', g)
    BY <1>1, <2>1, ReviewBlockedInv DEF Extends, Eligible
  <2> QED BY <1>1, <2>2 DEF Shape
<1>11. CASE Steering
  BY <1>11, SteeringShape DEF Steering
<1> QED BY <1>2, <1>3, <1>4, <1>5, <1>6, <1>7, <1>8, <1>9, <1>10, <1>11 DEF Next

-----------------------------------------------------------------------------
(* Steering sticks: a goal steering took off the schedule never comes back *)
(* and never starts, in any plan derived from this one.                    *)
THEOREM SteeringHolds == Spec => SteeringSticks
<1> DEFINE Sticks ==
      \A g \in Ids(plan) \cap Ids(plan') :
        ~Eligible(plan.goals[g]) /\ plan'.goals[g] # NewItem =>
          /\ ~Eligible(plan'.goals[g])
          /\ plan'.goals[g].status = "in_progress" =>
               plan.goals[g].status = "in_progress"
<1>1. ASSUME IInv, Next PROVE Sticks
  <2> SUFFICES ASSUME NEW g \in Ids(plan) \cap Ids(plan'),
                      ~Eligible(plan.goals[g]), plan'.goals[g] # NewItem
               PROVE  /\ ~Eligible(plan'.goals[g])
                      /\ plan'.goals[g].status = "in_progress" =>
                           plan.goals[g].status = "in_progress"
    OBVIOUS
  <2>1. /\ g \in Ids(Read) /\ Read.goals[g] = plan.goals[g]
        /\ plan'.size \in Nat /\ Read.size \in Nat
    BY <1>1, ReadInv, NextInv, PlanInvFacts DEF SameGoals, IInv
  <2>2. Shape(Read, plan', TRUE)
    BY <1>1, NextShape
  <2>3. CASE Recreates(plan')
    BY <2>3 DEF Recreates, Created, Ids
  <2>4. CASE SameGoals(Read, plan')
    BY <2>1, <2>4 DEF SameGoals
  <2>5. CASE \E h \in Ids(Read) : Starts(Read, plan', h) \/ Completes(Read, plan', h, TRUE)
                                  \/ Fails(Read, plan', h) \/ Blocks(Read, plan', h)
    BY <2>1, <2>5 DEF Starts, Completes, Fails, Blocks, Only, Eligible, Stuck
  <2>6. CASE \E h \in Ids(Read) \cup {NoGoal} : Extends(Read, plan', h)
    BY <2>1, <2>6 DEF Extends, Grown
  <2> QED BY <2>2, <2>3, <2>4, <2>5, <2>6 DEF Shape, Keeps, Reorders
<1>2. IInv /\ [Next]_vars => [Sticks]_vars
  BY <1>1
<1> QED BY <1>2, Invariant, PTL DEF Spec, SteeringSticks

-----------------------------------------------------------------------------
LEMMA OpenBlocksDone ==
  ASSUME NEW q, ~q.aggregateDone, NEW g \in Ids(q), CompletionBlocking(q, g)
  PROVE  ~Done(q)
BY DEF Done, Ids

LEMMA NewItemBlocks ==
  ASSUME NEW q, NEW g, q.goals[g] = NewItem
  PROVE  CompletionBlocking(q, g)
BY DEF CompletionBlocking, NewItem, Resolved

(* A failed checkpoint resolves nothing: what it names was not resolved or *)
(* is unresolved by it.                                                    *)
LEMMA FailsKeepsOpen ==
  ASSUME NEW p, PlanInv(p), NEW q, NEW g \in Ids(p), Fails(p, q, g), Done(q), ~q.aggregateDone
  PROVE  Done(p)
<1>1. /\ q.size = p.size /\ q.order = p.order /\ Ids(q) = Ids(p) /\ p.size # 0
      /\ \A h \in Ids(p) : h # g => q.goals[h] = p.goals[h]
      /\ ~Resolved(q.goals[g].status)
      /\ q.goals[g].steering = p.goals[g].steering
      /\ q.goals[g].supersededBy = p.goals[g].supersededBy
  BY DEF Fails, Only, Ids, Stuck, Resolved
<1>2. \A h \in Ids(p) : ~CompletionBlocking(q, h)
  BY <1>1 DEF Done
<1>3. \A r : ReplacementResolved(q, r) => ReplacementResolved(p, r)
  BY <1>1 DEF ReplacementResolved
<1>4. p.goals[g].steering = "superseded"
  BY <1>1, <1>2, PlanInvFacts DEF CompletionBlocking, Item, SteeringStatus
<1>5. \A h \in Ids(p) : ~CompletionBlocking(p, h)
  <2> SUFFICES ASSUME NEW h \in Ids(p) PROVE ~CompletionBlocking(p, h)
    OBVIOUS
  <2>1. ~CompletionBlocking(q, h) /\ q.goals[h].steering = p.goals[h].steering
        /\ q.goals[h].supersededBy = p.goals[h].supersededBy
    BY <1>1, <1>2
  <2>2. CASE p.goals[h].steering = "superseded"
    BY <1>3, <2>1, <2>2 DEF CompletionBlocking, SupersededResolved
  <2>3. CASE p.goals[h].steering # "superseded"
    BY <1>1, <1>4, <2>1, <2>3 DEF CompletionBlocking
  <2> QED BY <2>2, <2>3
<1>6. PICK i \in Ids(p) : LatestCounting(q, i) /\ q.goals[q.order[i]].status = "complete"
  BY <1>1 DEF Done
<1>7. \A j \in Ids(p) : p.order[j] \in Ids(p)
  BY PlanInvFacts DEF Plan, Ids
<1>8. \A h \in Ids(p) : Counts(q.goals[h]) <=> Counts(p.goals[h])
  BY <1>1, <1>4 DEF Counts
<1>9. LatestCounting(p, i) /\ p.goals[p.order[i]].status = "complete"
  <2>1. \A j \in i + 1 .. p.size : j \in Ids(p)
    BY <1>6, PlanInvFacts DEF Ids
  <2>2. p.order[i] # g
    BY <1>1, <1>4, <1>6 DEF LatestCounting, Counts
  <2> QED BY <1>1, <1>6, <1>7, <1>8, <2>1, <2>2 DEF LatestCounting
<1> QED BY <1>5, <1>9 DEF Done

(* A completion without the gate leaves the goal that made it not final.   *)
LEMMA CompletesUngated ==
  ASSUME NEW p, PlanInv(p), NEW q, NEW g \in Ids(p), Completes(p, q, g, FALSE),
         ~q.aggregateDone
  PROVE  ~Done(q)
<1>1. PICK h \in Ids(p) : BlockingForFinal(p, h, g)
  BY DEF Completes, FinalCandidate
<1>2. /\ q.size = p.size /\ h # g /\ q.goals[h] = p.goals[h]
      /\ \A r \in Ids(p) : r # g => q.goals[r] = p.goals[r]
  BY <1>1 DEF Completes, Only, BlockingForFinal
<1>3. CompletionBlocking(q, h)
  <2>1. CASE p.goals[h].steering = "superseded"
    BY <1>1, <1>2, <2>1
       DEF BlockingForFinal, CompletionBlocking, SupersededResolved, ReplacementResolved, Ids
  <2>2. CASE p.goals[h].steering # "superseded"
    BY <1>1, <1>2, <2>2 DEF BlockingForFinal, CompletionBlocking
  <2> QED BY <2>1, <2>2
<1> QED BY <1>2, <1>3, OpenBlocksDone DEF Ids

(* The plan becomes done only by a checkpoint with a clean final gate.     *)
THEOREM GatedCompletion ==
  ASSUME AllowActive \subseteq {FALSE}
  PROVE  Spec => DoneThroughGate
<1>1. ASSUME IInv, Next, ~Done(plan), Done(plan') PROVE ledger'.gated
  <2> SUFFICES ASSUME ~ledger'.gated PROVE FALSE
    OBVIOUS
  <2> DEFINE p == Read
  <2>1. /\ PlanInv(p) /\ Keeps(plan, p) /\ p.size \in Nat
        /\ PlanInv(plan') /\ plan'.size \in Nat
    BY <1>1, ReadInv, ReadKeeps, NextInv, PlanInvFacts DEF IInv
  <2>2. ~Done(p) /\ ~p.aggregateDone
    BY <1>1, <2>1 DEF Keeps, SameGoals, Done, Ids, CompletionBlocking, SupersededResolved,
                      ReplacementResolved, LatestCounting
  <2>3. Shape(p, plan', FALSE)
    <3>1. ledger'.gated = FALSE
      BY <1>1, NextInv DEF IInv, Ledger
    <3> QED BY <1>1, <3>1, NextShape
  <2> HIDE DEF p
  <2>4. CASE Recreates(plan')
    <3>1. PICK mode \in Mode, n \in 1 .. MaxGoals : plan' = Created(mode, n)
      BY <2>4 DEF Recreates
    <3>2. 1 \in Ids(plan') /\ plan'.goals[1] = NewItem /\ ~plan'.aggregateDone
      BY <3>1 DEF Created, Ids
    <3> QED BY <1>1, <3>2, NewItemBlocks, OpenBlocksDone
  <2>5. CASE Keeps(p, plan')
    BY <1>1, <2>2, <2>5 DEF Keeps, SameGoals, Done, Ids, CompletionBlocking,
                            SupersededResolved, ReplacementResolved, LatestCounting
  <2>6. CASE Reorders(p, plan')
    <3>1. PICK g \in Ids(p) : Waiting(p, g)
      BY <2>6 DEF Reorders
    <3>2. CompletionBlocking(plan', g) /\ g \in Ids(plan') /\ ~plan'.aggregateDone
      BY <2>2, <2>6, <3>1
         DEF Reorders, SameGoals, Waiting, Eligible, CompletionBlocking, Resolved, Ids
    <3> QED BY <1>1, <3>2, OpenBlocksDone
  <2>7. ASSUME NEW g \in Ids(p) PROVE ~Starts(p, plan', g)
    <3> SUFFICES ASSUME Starts(p, plan', g) PROVE FALSE
      OBVIOUS
    <3>1. CompletionBlocking(plan', g) /\ g \in Ids(plan') /\ ~plan'.aggregateDone
      BY <2>2 DEF Starts, Only, Eligible, CompletionBlocking, Resolved, Ids
    <3> QED BY <1>1, <3>1, OpenBlocksDone
  <2>8. ASSUME NEW g \in Ids(p) PROVE ~Completes(p, plan', g, FALSE)
    BY <1>1, <2>1, <2>2, CompletesUngated DEF Completes, Only
  <2>9. ASSUME NEW g \in Ids(p) PROVE ~Fails(p, plan', g)
    BY <1>1, <2>1, <2>2, FailsKeepsOpen DEF Fails, Only
  <2>10. ASSUME NEW g \in Ids(p) PROVE ~Blocks(p, plan', g)
    <3> SUFFICES ASSUME Blocks(p, plan', g) PROVE FALSE
      OBVIOUS
    <3>1. CompletionBlocking(plan', g) /\ g \in Ids(plan') /\ ~plan'.aggregateDone
      BY <2>2 DEF Blocks, Only, CompletionBlocking, Ids
    <3> QED BY <1>1, <3>1, OpenBlocksDone
  <2>11. ASSUME NEW g PROVE ~Extends(p, plan', g)
    <3> SUFFICES ASSUME Extends(p, plan', g) PROVE FALSE
      OBVIOUS
    <3>1. /\ plan'.size \in Ids(plan') /\ plan'.goals[plan'.size] = NewItem
          /\ ~plan'.aggregateDone
      BY <2>1, <2>2 DEF Extends, Grown, Ids
    <3> QED BY <1>1, <3>1, NewItemBlocks, OpenBlocksDone
  <2> QED BY <2>3, <2>4, <2>5, <2>6, <2>7, <2>8, <2>9, <2>10, <2>11 DEF Shape
<1>2. IInv /\ [Next]_vars => [~Done(plan) /\ Done(plan') => ledger'.gated]_vars
  BY <1>1
<1> QED BY <1>2, Invariant, PTL DEF Spec, DoneThroughGate

(* After a final review that is not clean, complete-goals hands out the    *)
(* blocker story next.                                                     *)
THEOREM BlockersScheduled == Spec => BlockerStoryNext
<1>1. ASSUME IInv, ReviewBlockers, ~plan.aggregateDone
      PROVE  CanStart(plan', plan'.size) /\ ~Done(plan')
  <2> DEFINE p == Read
             q == plan'
             n == plan'.size
  <2>1. PICK g \in Ids(plan) :
          plan.size < MaxGoals /\ FinalCandidate(p, g) /\ q = ReviewBlocked(p, g)
    BY <1>1 DEF ReviewBlockers, RecordFinalReviewBlockers
  <2>2. /\ PlanInv(p) /\ g \in Ids(p) /\ p.size < MaxGoals /\ p.size \in Nat
        /\ ~p.aggregateDone
    BY <1>1, <2>1, ReadInv DEF SameGoals
  <2> HIDE DEF p
  <2>3. /\ PlanInv(q) /\ Grown(p, q, g) /\ n = p.size + 1
        /\ q.goals[g].status = "review_blocked"
    BY <2>1, <2>2, ReviewBlockedInv
  <2>4. q.goals[n] = NewItem /\ n \in Ids(q) /\ ~q.aggregateDone
    BY <2>2, <2>3 DEF Grown, Ids
  <2>5. ASSUME NEW h \in Ids(q), Running(q, h) \/ Waiting(q, h) PROVE h = n
    <3> SUFFICES ASSUME h # n PROVE FALSE
      OBVIOUS
    <3>1. h \in Ids(p) /\ h # g /\ q.goals[h] = p.goals[h]
      BY <2>2, <2>3, <2>5 DEF Grown, Ids, Running, Waiting
    <3>2. BlockingForFinal(p, h, g)
      BY <2>5, <3>1
         DEF Running, Waiting, Eligible, BlockingForFinal, CompletionBlocking, Resolved
    <3> QED BY <2>1, <3>1, <3>2 DEF FinalCandidate
  <2>6. Waiting(q, n) /\ ~Running(q, n)
    BY <2>4 DEF Waiting, Running, Eligible, NewItem
  <2>7. Position(q, n) <= Position(q, n)
    BY <2>3, <2>4, PositionType, PlanInvFacts DEF PlanInv, Ids
  <2>8. CanStart(q, n)
    BY <2>2, <2>3, <2>4, <2>5, <2>6, <2>7 DEF CanStart, NothingRunning, First, Exists
  <2> QED BY <2>4, <2>8, NewItemBlocks, OpenBlocksDone
<1>2. IInv /\ [Next]_vars =>
        [ReviewBlockers /\ ~plan.aggregateDone =>
           CanStart(plan', plan'.size) /\ ~Done(plan')]_vars
  BY <1>1
<1> QED BY <1>2, Invariant, PTL DEF Spec, BlockerStoryNext
=============================================================================
