------------------------- MODULE UltragoalStoreProofs -------------------------
(***************************************************************************)
(* Theorems about the processes that share goals.json, ledger.jsonl and    *)
(* .mutation.lock, for any number of processes, goals, keys and attempts.  *)
(* The invariant has four parts: who holds the lock, what the holder has   *)
(* read and is about to write, how often each key was applied, and that an *)
(* accepted key was applied.                                               *)
(***************************************************************************)
EXTENDS UltragoalStore, TLAPS

-----------------------------------------------------------------------------
(* The invariant                                                           *)

PlanSet == UNION {Plan(n) : n \in 0 .. MaxGoals}

Mine == [kind : Kind, key : Keys \cup {NoKey}, next : PlanSet, entry : Entry]

TypeInv ==
  /\ setting \in Settings
  /\ plan \in PlanSet /\ ledger \in Ledger /\ lock \in BOOLEAN
  /\ pc \in [Procs -> Label]
  /\ attempts \in [Procs -> 0 .. MaxAttempts - 1]
  /\ mine \in [Procs -> Mine]
  /\ times \in [Keys -> Nat]
  /\ abandoned \in BOOLEAN

(* At most one process holds the lock; only its holder writes what the     *)
(* plan becomes and logs it.                                               *)
LockInv ==
  /\ \A p, q \in Procs : Holds(p) /\ Holds(q) => p = q
  /\ \A p \in Procs : Holds(p) => lock
  /\ lock => abandoned \/ \E p \in Procs : Holds(p)
  /\ abandoned => lock /\ \A p \in Procs : ~Holds(p)
  /\ \A p \in Procs : /\ pc[p] \in {"acquire", "stamp", "write", "truncate", "append", "log", "release"}
                           => Locks(mine[p].kind)
                      /\ pc[p] # "idle" => mine[p].kind \in setting.kinds
                      /\ mine[p].kind # "steer" => mine[p].key = NoKey
                      /\ pc[p] = "truncate" => mine[p].kind = "create"

(* The entry a process is about to log accepts a key only if the process   *)
(* has applied that key.                                                   *)
EntryInv ==
  \A p \in Procs :
    /\ pc[p] \in {"write", "append", "log"} /\ mine[p].entry.event = "steering_accepted"
         => pc[p] # "log" /\ mine[p].kind = "steer" /\ mine[p].entry.key = mine[p].key
    /\ pc[p] \in {"write", "append"} /\ mine[p].kind = "steer"
         => mine[p].entry.event = "steering_accepted"
    /\ pc[p] = "truncate" \/ (pc[p] = "write" /\ mine[p].kind = "create")
         => mine[p].entry.event = "plan_created"

(* The lock file was left behind by a process that died.                   *)
Orphaned == lock /\ \A p \in Procs : ~Holds(p)

(* A key that was applied is in the ledger, or the holder is about to log  *)
(* it, or nobody will take the lock again; nobody is about to apply it.    *)
KeyInv ==
  \A k \in Keys :
    /\ times[k] <= 1
    /\ times[k] = 1 => \/ k \in ledger.accepted \/ Orphaned
                       \/ \E p \in Procs : /\ pc[p] = "append" /\ mine[p].kind = "steer"
                                           /\ mine[p].key = k
    /\ \A p \in Procs : /\ pc[p] = "write" /\ mine[p].kind = "steer" /\ mine[p].key = k
                             => times[k] = 0
                        /\ pc[p] = "truncate" => times[k] = 0

(* What is accepted, or about to be logged as accepted, was applied.       *)
AppliedInv ==
  /\ \A k \in ledger.accepted : times[k] >= 1
  /\ \A p \in Procs : pc[p] = "append" /\ mine[p].kind = "steer" /\ mine[p].key \in Keys
                        => times[mine[p].key] >= 1

(* What a command writes and logs when it has seen a plan                  *)
Writes(me, seen) ==
  /\ me.kind \in {"create", "add", "steer", "start"}
  /\ me.kind = "create" => /\ me.next = Created("aggregate", 1)
                           /\ me.entry = EntryOf("plan_created", NoGoal)
  /\ me.kind \in {"add", "steer"} => seen.size < MaxGoals /\ me.next = Appended(seen)
  /\ me.kind = "add" => me.entry = EntryOf("goal_added", seen.size + 1)
  /\ me.kind = "steer" => /\ me.key \notin ledger.accepted
                          /\ me.entry = [EntryOf("steering_accepted", NoGoal) EXCEPT !.key = me.key]
  /\ me.kind = "start" =>
       \E g \in Ids(seen) : /\ CanStart(seen, g) /\ me.next = Started(seen, g)
                            /\ me.entry = EntryOf("goal_started", g)

Resumes(me, seen) ==
  /\ me.kind = "start"
  /\ \E g \in Ids(seen) : Resumable(seen, g) /\ me.entry = EntryOf("goal_resumed", g)

(* What the holder is about to do is what its command does to the plan     *)
(* that is there now: nobody has changed it since it was read.             *)
PlanInv ==
  /\ ~plan.aggregateDone /\ (~setting.legacy => ~plan.legacy)
  /\ \A p \in Procs :
       /\ pc[p] = "migrate" => /\ Locks(mine[p].kind) /\ Exists(plan) /\ plan.legacy
                               /\ mine[p].next = Migrated(plan)
       /\ pc[p] = "migrated" => Locks(mine[p].kind)
       /\ pc[p] \in {"migrated", "decide"} /\ Locks(mine[p].kind) /\ mine[p].kind # "create"
            => Exists(plan) /\ ~plan.legacy /\ mine[p].next = plan
       /\ pc[p] = "write" => /\ Writes(mine[p], plan)
                             /\ mine[p].kind # "create" => Exists(plan) /\ ~plan.legacy
       /\ pc[p] = "log" => Resumes(mine[p], plan) /\ ~plan.legacy

-----------------------------------------------------------------------------
(* Plans: what the commands read and write is a plan                       *)

LEMMA PlanSetIs == \A p : IsPlan(p) <=> p \in PlanSet
<1>1. ASSUME NEW p, IsPlan(p) PROVE p \in PlanSet
  BY <1>1 DEF IsPlan, PlanSet
<1>2. ASSUME NEW p \in PlanSet PROVE IsPlan(p)
  <2>1. PICK n \in 0 .. MaxGoals : p \in Plan(n)
    BY DEF PlanSet
  <2>2. p.size = n
    BY <2>1 DEF Plan
  <2> QED BY <2>1, <2>2 DEF IsPlan
<1> QED BY <1>1, <1>2

LEMMA NewItemIs == NewItem \in Item
BY DEF NewItem, Item, Status, SteeringStatus

LEMMA CreatedPlan ==
  ASSUME NEW mode \in Mode, NEW n \in 0 .. MaxGoals
  PROVE  /\ Created(mode, n) \in PlanSet
         /\ [Created(mode, n) EXCEPT !.legacy = TRUE] \in PlanSet
         /\ Created(mode, n).size = n
         /\ ~Created(mode, n).legacy /\ ~Created(mode, n).aggregateDone
<1> DEFINE p == Created(mode, n)
<1>1. p = [size |-> n, mode |-> mode, legacy |-> FALSE, alias |-> FALSE,
           aggregateDone |-> FALSE, active |-> 0,
           goals |-> [g \in 1 .. n |-> NewItem], order |-> [i \in 1 .. n |-> i]]
  BY DEF Created, NoGoal
<1>2. [g \in 1 .. n |-> NewItem] \in [1 .. n -> Item]
  BY NewItemIs
<1>3. p \in Plan(n)
  BY <1>1, <1>2, BoundsAssumption DEF Plan
<1>4. p.size = n /\ ~p.legacy /\ ~p.aggregateDone
  BY <1>1
<1> HIDE DEF p
<1>5. [p EXCEPT !.legacy = TRUE] \in Plan(n)
  BY <1>3 DEF Plan
<1> QED BY <1>3, <1>4, <1>5 DEF PlanSet, p

LEMMA MigratedPlan ==
  ASSUME NEW p \in PlanSet
  PROVE  /\ Migrated(p) \in PlanSet /\ Migrated(p).size = p.size
         /\ ~Migrated(p).legacy /\ (~p.legacy => Migrated(p) = p)
         /\ Migrated(p).aggregateDone = p.aggregateDone
<1> PICK n \in 0 .. MaxGoals : p \in Plan(n)
  BY DEF PlanSet
<1>1. /\ Migrated(p) \in Plan(n) /\ Migrated(p).size = p.size
      /\ ~Migrated(p).legacy /\ (~p.legacy => Migrated(p) = p)
      /\ Migrated(p).aggregateDone = p.aggregateDone
  BY DEF Plan, Migrated
<1> QED BY <1>1 DEF PlanSet

LEMMA AppendedPlan ==
  ASSUME NEW p \in PlanSet, p.size < MaxGoals
  PROVE  /\ Appended(p) \in PlanSet /\ Appended(p).size = p.size + 1
         /\ Appended(p).legacy = p.legacy /\ Appended(p).aggregateDone = p.aggregateDone
<1> PICK n \in 0 .. MaxGoals : p \in Plan(n)
  BY DEF PlanSet
<1> DEFINE goals == [g \in 1 .. n + 1 |-> IF g <= n THEN p.goals[g] ELSE NewItem]
           order == [j \in 1 .. n + 1 |-> IF j <= n THEN p.order[j]
                                          ELSE IF j <= n + 1 THEN n + (j - n) ELSE p.order[j - 1]]
<1>1. p.size = n /\ n + 1 \in 0 .. MaxGoals /\ p.active \in 0 .. n + 1
  BY BoundsAssumption DEF Plan
<1>2. goals \in [1 .. n + 1 -> Item]
  BY NewItemIs DEF Plan
<1>3. order \in [1 .. n + 1 -> 1 .. n + 1]
  BY DEF Plan
<1>4. Appended(p) = [p EXCEPT !.size = n + 1, !.goals = goals, !.order = order]
  BY <1>1 DEF Appended, Inserted
<1> HIDE DEF goals, order
<1>5. Appended(p) \in Plan(n + 1)
  BY <1>1, <1>2, <1>3, <1>4 DEF Plan
<1>6. /\ Appended(p).size = n + 1
      /\ Appended(p).legacy = p.legacy /\ Appended(p).aggregateDone = p.aggregateDone
  BY <1>4 DEF Plan
<1> QED BY <1>1, <1>5, <1>6 DEF PlanSet

LEMMA StartedPlan ==
  ASSUME NEW p \in PlanSet, NEW g \in Ids(p)
  PROVE  /\ Started(p, g) \in PlanSet /\ Started(p, g).size = p.size
         /\ Started(p, g).legacy = p.legacy /\ Started(p, g).aggregateDone = p.aggregateDone
<1> PICK n \in 0 .. MaxGoals : p \in Plan(n)
  BY DEF PlanSet
<1> DEFINE item == [p.goals[g] EXCEPT !.status = "in_progress", !.signature = NoSig,
                                      !.nonRetriable = FALSE]
           goals == [p.goals EXCEPT ![g] = item]
<1>1. p.size = n /\ g \in 1 .. n /\ p.goals \in [1 .. n -> Item]
  BY DEF Plan, Ids
<1>2. item \in Item
  BY <1>1 DEF Item, Status
<1>3. goals \in [1 .. n -> Item] /\ g \in 0 .. n
  BY <1>1, <1>2
<1>4. Started(p, g) = [p EXCEPT !.active = g, !.goals = goals]
  BY DEF Started, Plan
<1> HIDE DEF goals
<1>5. Started(p, g) \in Plan(n) /\ Started(p, g).size = p.size
      /\ Started(p, g).legacy = p.legacy /\ Started(p, g).aggregateDone = p.aggregateDone
  BY <1>3, <1>4 DEF Plan
<1> QED BY <1>5 DEF PlanSet

-----------------------------------------------------------------------------
(* What each step does to the memory of its process                        *)

LEMMA EntryIs ==
  ASSUME NEW event \in Event, NEW goal \in 0 .. MaxGoals
  PROVE  EntryOf(event, goal) \in Entry /\ EntryOf(event, goal).event = event
BY DEF EntryOf, Entry

LEMMA KeyEntryIs ==
  ASSUME NEW event \in Event, NEW goal \in 0 .. MaxGoals, NEW key \in Keys \cup {NoKey}
  PROVE  /\ [EntryOf(event, goal) EXCEPT !.key = key] \in Entry
         /\ [EntryOf(event, goal) EXCEPT !.key = key].event = event
         /\ [EntryOf(event, goal) EXCEPT !.key = key].key = key
BY DEF EntryOf, Entry

LEMMA NothingIs == Nothing \in Mine /\ NoPlan \in PlanSet
<1>1. 0 \in 0 .. MaxGoals /\ "aggregate" \in Mode /\ "plan_created" \in Event
  BY BoundsAssumption DEF Mode, Event
<1>2. NoPlan \in PlanSet
  BY <1>1, CreatedPlan DEF NoPlan
<1>3. EntryOf("plan_created", NoGoal) \in Entry
  BY <1>1, EntryIs DEF NoGoal
<1> QED BY <1>2, <1>3 DEF Nothing, Mine, Kind

(* A command puts down what it will write and log, and goes on.            *)
LEMMA DecidesDoes ==
  ASSUME TypeInv, NEW p \in Procs, NEW next \in PlanSet, NEW entry \in Entry,
         NEW label \in Label, Decides(p, next, entry, label)
  PROVE  /\ pc[p] = "decide" /\ pc' = [pc EXCEPT ![p] = label]
         /\ mine' \in [Procs -> Mine]
         /\ mine'[p].kind = mine[p].kind /\ mine'[p].key = mine[p].key
         /\ mine'[p].next = next /\ mine'[p].entry = entry
         /\ \A q \in Procs \ {p} : mine'[q] = mine[q]
         /\ UNCHANGED <<plan, ledger, lock, times, attempts>>
BY DEF Decides, TypeInv, Mine, At, Goto, files

LEMMA ReadDoes ==
  ASSUME TypeInv, NEW p \in Procs, Read(p)
  PROVE  /\ pc[p] = "read" /\ Exists(plan)
         /\ pc' = [pc EXCEPT ![p] = IF plan.legacy THEN "migrate" ELSE "decide"]
         /\ mine' \in [Procs -> Mine]
         /\ mine'[p].kind = mine[p].kind /\ mine'[p].key = mine[p].key
         /\ mine'[p].next = Migrated(plan)
         /\ \A q \in Procs \ {p} : mine'[q] = mine[q]
         /\ UNCHANGED <<plan, ledger, lock, times, attempts>>
<1>1. Migrated(plan) \in PlanSet
  BY MigratedPlan DEF TypeInv
<1> QED BY <1>1 DEF Read, TypeInv, Mine, At, Goto, files

LEMMA BeginDoes ==
  ASSUME TypeInv, NEW p \in Procs, NEW kind \in Kind, NEW key \in Keys \cup {NoKey},
         Begin(p, kind, key)
  PROVE  /\ pc[p] = "idle"
         /\ pc' = [pc EXCEPT ![p] = IF Locks(kind) THEN "acquire" ELSE "read"]
         /\ mine' \in [Procs -> Mine]
         /\ mine'[p].kind = kind /\ mine'[p].key = key
         /\ kind # "steer" => key = NoKey
         /\ \A q \in Procs \ {p} : mine'[q] = mine[q]
         /\ UNCHANGED <<plan, ledger, lock, times, attempts>>
<1>1. [Nothing EXCEPT !.kind = kind, !.key = key] \in Mine
      /\ [Nothing EXCEPT !.kind = kind, !.key = key].kind = kind
      /\ [Nothing EXCEPT !.kind = kind, !.key = key].key = key
  BY NothingIs DEF Mine
<1> QED BY <1>1 DEF Begin, TypeInv, At, Goto, files

LEMMA EndsDoes ==
  ASSUME TypeInv, NEW p \in Procs, Ends(p)
  PROVE  /\ pc' = [pc EXCEPT ![p] = "idle"]
         /\ attempts' \in [Procs -> 0 .. MaxAttempts - 1]
         /\ mine' \in [Procs -> Mine]
         /\ mine'[p].kind = "status" /\ mine'[p].key = NoKey
         /\ \A q \in Procs \ {p} : mine'[q] = mine[q]
         /\ UNCHANGED <<plan, ledger, times>>
<1>1. 0 \in 0 .. MaxAttempts - 1
  BY StoreAssumption
<1>2. Nothing.kind = "status" /\ Nothing.key = NoKey
  BY DEF Nothing
<1> QED BY <1>1, <1>2, NothingIs DEF Ends, TypeInv, Goto, files

LEMMA DecideDoes ==
  ASSUME TypeInv, NEW p \in Procs, Decide(p)
  PROVE  /\ pc[p] = "decide"
         /\ UNCHANGED <<plan, ledger, lock, times, attempts>>
         /\ mine' \in [Procs -> Mine]
         /\ mine'[p].kind = mine[p].kind /\ mine'[p].key = mine[p].key
         /\ \A q \in Procs \ {p} : mine'[q] = mine[q]
         /\ \/ pc' = [pc EXCEPT ![p] = "write"] /\ Writes(mine'[p], mine[p].next)
            \/ pc' = [pc EXCEPT ![p] = "log"] /\ Resumes(mine'[p], mine[p].next)
            \/ pc' = [pc EXCEPT ![p] = Leave(p)]
<1> DEFINE seen == mine[p].next
<1>1. /\ mine[p] \in Mine /\ seen \in PlanSet /\ mine[p].entry \in Entry
      /\ mine[p].key \in Keys \cup {NoKey}
      /\ seen.size \in 0 .. MaxGoals /\ Ids(seen) \subseteq 1 .. MaxGoals
      /\ 0 \in 0 .. MaxGoals /\ 1 \in 0 .. MaxGoals /\ "aggregate" \in Mode
      /\ {"plan_created", "goal_added", "steering_accepted", "goal_resumed", "goal_started"}
           \subseteq Event
      /\ {"write", "log", "idle", "release"} \subseteq Label
  <2>1. mine[p] \in Mine
    BY DEF TypeInv
  <2>2. seen \in PlanSet
    BY <2>1 DEF Mine
  <2>3. seen.size \in 0 .. MaxGoals
    BY <2>2, PlanSetIs DEF IsPlan
  <2> QED BY <2>1, <2>2, <2>3, BoundsAssumption DEF Mine, Event, Label, Mode, Ids
<1> DEFINE Does(label) ==
             /\ pc[p] = "decide" /\ pc' = [pc EXCEPT ![p] = label]
             /\ UNCHANGED <<plan, ledger, lock, times, attempts>>
             /\ mine' \in [Procs -> Mine]
             /\ mine'[p].kind = mine[p].kind /\ mine'[p].key = mine[p].key
             /\ \A q \in Procs \ {p} : mine'[q] = mine[q]
<1>2. ASSUME NEW next \in PlanSet, NEW entry \in Entry, NEW label \in Label,
             Decides(p, next, entry, label)
      PROVE  Does(label) /\ mine'[p].next = next /\ mine'[p].entry = entry
  BY <1>2, DecidesDoes
<1> HIDE DEF Does
<1>3. ASSUME DecideNothing(p) PROVE Does(Leave(p))
  <2>1. Leave(p) \in Label
    BY <1>1 DEF Leave
  <2> QED BY <1>1, <1>2, <1>3, <2>1 DEF DecideNothing
<1>4. ASSUME DecideCreate(p) PROVE Does(Leave(p)) \/ (Does("write") /\ Writes(mine'[p], seen))
  <2>1. CASE DecideNothing(p)
    BY <1>3, <2>1
  <2>2. CASE Decides(p, Created("aggregate", 1), EntryOf("plan_created", NoGoal), "write")
    <3>1. Created("aggregate", 1) \in PlanSet /\ EntryOf("plan_created", NoGoal) \in Entry
      BY <1>1, CreatedPlan, EntryIs DEF NoGoal
    <3>2. /\ Does("write") /\ mine'[p].next = Created("aggregate", 1)
          /\ mine'[p].entry = EntryOf("plan_created", NoGoal)
      BY <1>1, <1>2, <2>2, <3>1
    <3> QED BY <1>4, <3>2 DEF DecideCreate, Does, Writes
  <2> QED BY <1>4, <2>1, <2>2 DEF DecideCreate
<1>5. ASSUME DecideAdd(p) PROVE Does("write") /\ Writes(mine'[p], seen)
  <2>1. seen.size < MaxGoals /\ seen.size + 1 \in 0 .. MaxGoals
    BY <1>1, <1>5, BoundsAssumption DEF DecideAdd
  <2>2. Appended(seen) \in PlanSet /\ EntryOf("goal_added", seen.size + 1) \in Entry
    BY <1>1, <2>1, AppendedPlan, EntryIs
  <2>3. /\ Does("write") /\ mine'[p].next = Appended(seen)
        /\ mine'[p].entry = EntryOf("goal_added", seen.size + 1)
    BY <1>1, <1>2, <1>5, <2>2 DEF DecideAdd
  <2> QED BY <1>5, <2>1, <2>3 DEF DecideAdd, Does, Writes
<1>6. ASSUME DecideSteer(p) PROVE Does(Leave(p)) \/ (Does("write") /\ Writes(mine'[p], seen))
  <2>1. CASE DecideNothing(p)
    BY <1>3, <2>1
  <2>2. CASE ~DecideNothing(p)
    <3> DEFINE entry == [EntryOf("steering_accepted", NoGoal) EXCEPT !.key = mine[p].key]
    <3>1. /\ mine[p].kind = "steer" /\ seen.size < MaxGoals
          /\ mine[p].key \notin ledger.accepted
          /\ Decides(p, Appended(seen), entry, "write")
      BY <1>6, <2>2 DEF DecideSteer, Deduplicated
    <3>2. Appended(seen) \in PlanSet /\ entry \in Entry
      BY <1>1, <3>1, AppendedPlan, KeyEntryIs DEF NoGoal
    <3> HIDE DEF entry
    <3>3. Does("write") /\ mine'[p].next = Appended(seen) /\ mine'[p].entry = entry
      BY <1>1, <1>2, <3>1, <3>2
    <3> QED BY <3>1, <3>3 DEF Does, Writes, entry
  <2> QED BY <2>1, <2>2
<1>7. ASSUME DecideStart(p)
      PROVE  \/ Does(Leave(p)) \/ (Does("write") /\ Writes(mine'[p], seen))
             \/ Does("log") /\ Resumes(mine'[p], seen)
  <2>1. ASSUME NEW g \in Ids(seen), Resumable(seen, g),
               Decides(p, seen, EntryOf("goal_resumed", g), "log")
        PROVE  Does("log") /\ Resumes(mine'[p], seen)
    <3>1. EntryOf("goal_resumed", g) \in Entry
      BY <1>1, EntryIs
    <3>2. Does("log") /\ mine'[p].entry = EntryOf("goal_resumed", g)
      BY <1>1, <1>2, <2>1, <3>1
    <3> QED BY <1>7, <2>1, <3>2 DEF DecideStart, Does, Resumes
  <2>2. ASSUME NEW g \in Ids(seen), CanStart(seen, g),
               Decides(p, Started(seen, g), EntryOf("goal_started", g), "write")
        PROVE  Does("write") /\ Writes(mine'[p], seen)
    <3>1. EntryOf("goal_started", g) \in Entry /\ Started(seen, g) \in PlanSet
      BY <1>1, EntryIs, StartedPlan
    <3>2. /\ Does("write") /\ mine'[p].next = Started(seen, g)
          /\ mine'[p].entry = EntryOf("goal_started", g)
      BY <1>1, <1>2, <2>2, <3>1
    <3> QED BY <1>7, <2>2, <3>2 DEF DecideStart, Does, Writes
  <2>3. CASE DecideNothing(p)
    BY <1>3, <2>3
  <2> QED BY <1>7, <2>1, <2>2, <2>3 DEF DecideStart
<1>8. ASSUME DecideStatus(p) PROVE Does(Leave(p))
  BY <1>3, <1>8 DEF DecideStatus
<1> QED BY <1>4, <1>5, <1>6, <1>7, <1>8 DEF Decide, Does


LEMMA Counted ==
  ASSUME NEW b \in [GoalId -> [Signatures -> Nat]], NEW g, NEW s \in Signatures
  PROVE  [b EXCEPT ![g][s] = @ + 1] \in [GoalId -> [Signatures -> Nat]]
<1>1. CASE g \in GoalId
  <2>1. b[g] \in [Signatures -> Nat]
    BY <1>1
  <2>2. [b[g] EXCEPT ![s] = @ + 1] \in [Signatures -> Nat]
    BY <2>1
  <2> QED BY <1>1, <2>2
<1>2. CASE g \notin GoalId
  <2>1. [b EXCEPT ![g][s] = @ + 1] = b
    BY <1>2
  <2> QED BY <2>1
<1> QED BY <1>1, <1>2

(* The ledger after an entry is a ledger.                                  *)
LEMMA LoggedLedger ==
  ASSUME NEW l \in Ledger, NEW e \in Entry
  PROVE  Logged(l, e) \in Ledger
<1> DEFINE counted == [l.blockers EXCEPT ![e.goal][e.signature] = @ + 1]
<1>1. ASSUME IsBlockerRecord(e) PROVE counted \in [GoalId -> [Signatures -> Nat]]
  <2>1. l.blockers \in [GoalId -> [Signatures -> Nat]] /\ e.signature \in Signatures
    BY <1>1 DEF Ledger, Entry, IsBlockerRecord
  <2> QED BY <2>1, Counted
<1>2. l.accepted \cup (IF e.event = "steering_accepted" THEN {e.key} \ {NoKey} ELSE {})
        \subseteq Keys
  BY DEF Ledger, Entry
<1> QED BY <1>1, <1>2 DEF Logged, Ledger, Entry

LEMMA EmptyLedgerIs == EmptyLedger \in Ledger
BY DEF EmptyLedger, Ledger

LEMMA InitType == Init => TypeInv
<1> SUFFICES ASSUME Init PROVE TypeInv
  OBVIOUS
<1>1. plan \in PlanSet
  <2>1. 1 \in 0 .. MaxGoals /\ "aggregate" \in Mode
    BY BoundsAssumption DEF Mode
  <2> QED BY <2>1, CreatedPlan, NothingIs DEF Init
<1>2. 0 \in 0 .. MaxAttempts - 1
  BY StoreAssumption
<1> QED BY <1>1, <1>2, NothingIs, EmptyLedgerIs DEF Init, TypeInv, Label

LEMMA TypeNext == TypeInv /\ [Next]_vars => TypeInv'
<1> SUFFICES ASSUME TypeInv, [Next]_vars PROVE TypeInv'
  OBVIOUS
<1>1. CASE UNCHANGED vars
  BY <1>1 DEF vars, TypeInv
<1>2. ASSUME NEW p \in Procs, Step(p) PROVE TypeInv'
  <2>1. mine[p].next \in PlanSet /\ mine[p].entry \in Entry /\ UNCHANGED <<abandoned, setting>>
    BY <1>2 DEF TypeInv, Mine, Step
  <2>2. {"stamp", "decide", "read", "release", "idle", "migrate", "migrated", "write", "truncate",
         "append", "log"} \subseteq Label
    BY DEF Label
  <2>3. CASE Acquire(p) \/ Stamp(p) \/ ReadMissing(p)
    BY <2>1, <2>2, <2>3 DEF Acquire, Stamp, ReadMissing, TypeInv, Goto, files, Leave
  <2>4. CASE Retry(p)
    <3>1. attempts[p] + 1 \in 0 .. MaxAttempts - 1
      BY <2>4, StoreAssumption DEF Retry, TypeInv
    <3> QED BY <2>1, <2>4, <3>1 DEF Retry, TypeInv, files
  <2>5. CASE TimeOut(p) \/ Release(p)
    <3>1. Ends(p) /\ lock' \in BOOLEAN
      BY <2>5 DEF TimeOut, Release, TypeInv
    <3> QED BY <2>1, <2>2, <3>1, EndsDoes DEF TypeInv
  <2>6. CASE Read(p)
    BY <2>1, <2>2, <2>6, ReadDoes DEF TypeInv
  <2>7. CASE MigrateWrite(p)
    BY <2>1, <2>2, <2>7 DEF MigrateWrite, TypeInv, Goto
  <2>8. CASE MigrateAppend(p)
    <3>1. EntryOf("aggregate_objective_migrated", NoGoal) \in Entry
      BY EntryIs, BoundsAssumption DEF NoGoal, Event
    <3> QED BY <2>1, <2>2, <2>8, <3>1, LoggedLedger DEF MigrateAppend, TypeInv, Goto
  <2>9. CASE Decide(p)
    BY <2>1, <2>2, <2>9, DecideDoes DEF TypeInv, Leave
  <2>10. CASE WritePlan(p)
    <3>1. times' \in [Keys -> Nat]
      BY <2>10 DEF WritePlan, TypeInv
    <3> QED BY <2>1, <2>2, <2>10, <3>1 DEF WritePlan, TypeInv, Goto
  <2>11. CASE TruncateLedger(p)
    BY <2>1, <2>2, <2>11, EmptyLedgerIs DEF TruncateLedger, TypeInv, Goto
  <2>12. CASE AppendLedger(p)
    BY <2>1, <2>2, <2>12, LoggedLedger DEF AppendLedger, TypeInv, Goto
  <2> QED BY <1>2, <2>3, <2>4, <2>5, <2>6, <2>7, <2>8, <2>9, <2>10, <2>11, <2>12 DEF Step
<1>3. ASSUME NEW p \in Procs, NEW kind \in setting.kinds, NEW key \in Keys \cup {NoKey},
             Begin(p, kind, key), UNCHANGED <<abandoned, setting>>
      PROVE  TypeInv'
  <2>1. kind \in Kind /\ "acquire" \in Label /\ "read" \in Label
    BY StoreAssumption DEF TypeInv, Label
  <2> QED BY <1>3, <2>1, BeginDoes DEF TypeInv
<1>4. ASSUME NEW p \in Procs, Fail(p), UNCHANGED <<abandoned, setting>> PROVE TypeInv'
  BY <1>4 DEF Fail, TypeInv, Goto, Leave, Label, files
<1>5. ASSUME NEW p \in Procs, FailLock(p) \/ Crash(p), abandoned' = (abandoned \/ Holds(p)),
             UNCHANGED setting
      PROVE  TypeInv'
  BY <1>5, EndsDoes DEF FailLock, Crash, TypeInv, Label, Holds
<1> QED BY <1>1, <1>2, <1>3, <1>4, <1>5 DEF Next


-----------------------------------------------------------------------------
(* A step, by what it does to the process that takes it and to the files:  *)
(* the cases every invariant is proved along                               *)

Begun(p) ==
  /\ pc[p] = "idle" /\ pc'[p] \in {"acquire", "read"}
  /\ pc'[p] = "acquire" <=> Locks(mine'[p].kind)
  /\ mine'[p].kind \in setting.kinds
  /\ mine'[p].kind # "steer" => mine'[p].key = NoKey
  /\ UNCHANGED <<files, lock, times, abandoned>>

Taken(p) ==
  /\ pc[p] = "acquire" /\ ~lock /\ lock'
  /\ pc'[p] = "stamp"
  /\ UNCHANGED <<files, times, mine, abandoned>>

Stamped(p) ==
  /\ pc[p] = "stamp"
  /\ pc'[p] = IF mine[p].kind = "create" THEN "decide" ELSE "read"
  /\ UNCHANGED <<files, lock, times, mine, abandoned>>

HasRead(p) ==
  /\ pc[p] = "read" /\ Exists(plan)
  /\ pc'[p] = IF plan.legacy THEN "migrate" ELSE "decide"
  /\ mine'[p].kind = mine[p].kind /\ mine'[p].key = mine[p].key
  /\ mine'[p].next = Migrated(plan)
  /\ UNCHANGED <<files, lock, times, abandoned>>

HasDecided(p) ==
  /\ pc[p] = "decide"
  /\ mine'[p].kind = mine[p].kind /\ mine'[p].key = mine[p].key
  /\ \/ pc'[p] = "write" /\ Writes(mine'[p], mine[p].next)
     \/ pc'[p] = "log" /\ Resumes(mine'[p], mine[p].next)
     \/ pc'[p] = Leave(p)
  /\ UNCHANGED <<files, lock, times, abandoned>>

(* The command is left: a missing plan or a failure                        *)
Left(p) ==
  /\ \/ pc[p] = "read"
     \/ /\ "failure" \in setting.faults
        /\ pc[p] \in {"migrate", "migrated", "decide", "write", "truncate", "append", "log"}
  /\ pc'[p] = Leave(p)
  /\ UNCHANGED <<files, lock, times, mine, abandoned>>

(* The command is over, by a release or a time-out.                        *)
Over(p) ==
  /\ pc'[p] = "idle"
  /\ \/ pc[p] = "release" /\ ~lock'
     \/ pc[p] = "acquire" /\ lock' = lock
  /\ mine'[p].kind = "status" /\ mine'[p].key = NoKey
  /\ UNCHANGED <<files, times, abandoned>>

(* The command is over without a release: the process died, or the stamp   *)
(* or the removal of the lock file failed.                                 *)
Dropped(p) ==
  /\ pc[p] # "idle" /\ pc'[p] = "idle"
  /\ \/ "crash" \in setting.faults
     \/ "failure" \in setting.faults /\ pc[p] \in {"acquire", "stamp", "release"}
  /\ mine'[p].kind = "status" /\ mine'[p].key = NoKey
  /\ abandoned' = (abandoned \/ Holds(p))
  /\ UNCHANGED <<files, lock, times>>

Retried(p) ==
  pc[p] = "acquire" /\ lock /\ UNCHANGED <<files, lock, times, mine, pc, abandoned>>

(* What p does, and what its step leaves alone                             *)
Does(p) ==
  /\ UNCHANGED setting
  /\ \A q \in Procs \ {p} : pc'[q] = pc[q] /\ mine'[q] = mine[q]
  /\ \/ Begun(p) \/ Taken(p) \/ Stamped(p) \/ HasRead(p) \/ HasDecided(p)
     \/ Left(p) \/ Over(p) \/ Dropped(p) \/ Retried(p)
     \/ /\ UNCHANGED abandoned
        /\ \/ MigrateWrite(p) \/ MigrateAppend(p)
           \/ WritePlan(p) \/ TruncateLedger(p) \/ AppendLedger(p)

LEMMA StepDoes == TypeInv /\ [Next]_vars => UNCHANGED vars \/ \E p \in Procs : Does(p)
<1> SUFFICES ASSUME TypeInv, [Next]_vars, ~UNCHANGED vars PROVE \E p \in Procs : Does(p)
  OBVIOUS
<1>1. ASSUME NEW p \in Procs, Step(p) PROVE Does(p)
  <2> USE DEF TypeInv
  <2>1. CASE Acquire(p)
    BY <1>1, <2>1 DEF Acquire, Step, Does, Taken, At, Goto
  <2>1a. CASE Stamp(p)
    BY <1>1, <2>1a DEF Stamp, Step, Does, Stamped, At, Goto
  <2>2. CASE Retry(p)
    BY <1>1, <2>2 DEF Retry, Step, Does, Retried, At
  <2>3. CASE TimeOut(p)
    BY <1>1, <2>3, EndsDoes DEF TimeOut, Step, Does, Over, At, files
  <2>4. CASE ReadMissing(p)
    BY <1>1, <2>4 DEF ReadMissing, Step, Does, Left, At, Goto
  <2>5. CASE Read(p)
    BY <1>1, <2>5, ReadDoes DEF Step, Does, HasRead, files
  <2>6. CASE MigrateWrite(p) \/ MigrateAppend(p)
    BY <1>1, <2>6 DEF Step, Does, MigrateWrite, MigrateAppend, Goto
  <2>7. CASE Decide(p)
    BY <1>1, <2>7, DecideDoes DEF Step, Does, HasDecided, files
  <2>8. CASE WritePlan(p) \/ TruncateLedger(p) \/ AppendLedger(p)
    BY <1>1, <2>8 DEF Step, Does, WritePlan, TruncateLedger, AppendLedger, Goto
  <2>9. CASE Release(p)
    BY <1>1, <2>9, EndsDoes DEF Release, Step, Does, Over, At, files
  <2> QED BY <1>1, <2>1, <2>1a, <2>2, <2>3, <2>4, <2>5, <2>6, <2>7, <2>8, <2>9 DEF Step
<1>2. ASSUME NEW p \in Procs, NEW kind \in setting.kinds, NEW key \in Keys \cup {NoKey},
             Begin(p, kind, key), UNCHANGED <<abandoned, setting>>
      PROVE  Does(p)
  <2>1. kind \in Kind
    BY StoreAssumption DEF TypeInv
  <2> QED BY <1>2, <2>1, BeginDoes DEF TypeInv, Does, Begun, files
<1>3. ASSUME NEW p \in Procs, Fail(p), UNCHANGED <<abandoned, setting>> PROVE Does(p)
  BY <1>3 DEF Fail, Does, Left, TypeInv, Goto
<1>4. ASSUME NEW p \in Procs, FailLock(p) \/ Crash(p), abandoned' = (abandoned \/ Holds(p)),
             UNCHANGED setting
      PROVE  Does(p)
  BY <1>4, EndsDoes DEF FailLock, Crash, Does, Dropped, TypeInv, At, files
<1> QED BY <1>1, <1>2, <1>3, <1>4 DEF Next


-----------------------------------------------------------------------------
(* The lock                                                                *)

LEMMA InitLock == Init => LockInv /\ EntryInv
BY DEF Init, LockInv, EntryInv, Holds, Nothing

LEMMA LockNext == TypeInv /\ LockInv /\ [Next]_vars => LockInv'
<1> SUFFICES ASSUME TypeInv, LockInv, [Next]_vars PROVE LockInv'
  OBVIOUS
<1>1. CASE UNCHANGED vars
  BY <1>1 DEF vars, LockInv, Holds
<1>2. ASSUME NEW p \in Procs, Does(p) PROVE LockInv'
  <2> USE DEF TypeInv, Holds, LockInv
  <2>0. UNCHANGED setting /\ \A q \in Procs \ {p} : pc'[q] = pc[q] /\ mine'[q] = mine[q]
    BY <1>2 DEF Does
  <2>1. CASE Begun(p)
    BY <2>0, <2>1 DEF Begun
  <2>2. CASE Taken(p)
    BY <2>0, <2>2 DEF Taken
  <2>2a. CASE Stamped(p)
    BY <2>0, <2>2a DEF Stamped
  <2>3. CASE HasRead(p)
    BY <2>0, <2>3 DEF HasRead
  <2>4. CASE HasDecided(p)
    <3>1. \/ Locks(mine[p].kind) /\ pc'[p] \in {"write", "log", "release"}
          \/ ~Locks(mine[p].kind) /\ pc'[p] = "idle"
      BY <2>4 DEF HasDecided, Writes, Resumes, Leave, Locks
    <3> QED BY <2>0, <2>4, <3>1 DEF HasDecided
  <2>5. CASE Left(p)
    BY <2>0, <2>5 DEF Left, Leave
  <2>6. CASE Over(p)
    BY <2>0, <2>6 DEF Over, Locks
  <2>6a. CASE Dropped(p)
    BY <2>0, <2>6a DEF Dropped, Locks
  <2>7. CASE Retried(p)
    BY <2>0, <2>7 DEF Retried
  <2>8. CASE UNCHANGED abandoned /\ (MigrateWrite(p) \/ MigrateAppend(p))
    BY <2>0, <2>8 DEF MigrateWrite, MigrateAppend, Goto, At
  <2>9. CASE UNCHANGED abandoned /\ WritePlan(p)
    BY <2>0, <2>9 DEF WritePlan, Goto, At
  <2>10. CASE UNCHANGED abandoned /\ TruncateLedger(p)
    BY <2>0, <2>10 DEF TruncateLedger, Goto, At
  <2>11. CASE UNCHANGED abandoned /\ AppendLedger(p)
    BY <2>0, <2>11 DEF AppendLedger, Goto, At
  <2> QED BY <1>2, <2>1, <2>2, <2>2a, <2>3, <2>4, <2>5, <2>6, <2>6a, <2>7, <2>8, <2>9, <2>10, <2>11
          DEF Does
<1> QED BY <1>1, <1>2, StepDoes

LEMMA EventOfEntry ==
  \A event, goal, key : /\ EntryOf(event, goal).event = event
                        /\ [EntryOf(event, goal) EXCEPT !.key = key].event = event
                        /\ [EntryOf(event, goal) EXCEPT !.key = key].key = key
BY DEF EntryOf

(* The entry of a steering directive carries its key.                      *)
LEMMA EntryNext == TypeInv /\ LockInv /\ EntryInv /\ [Next]_vars => EntryInv'
<1> SUFFICES ASSUME TypeInv, LockInv, EntryInv, [Next]_vars PROVE EntryInv'
  OBVIOUS
<1>1. CASE UNCHANGED vars
  BY <1>1 DEF vars, EntryInv
<1>2. ASSUME NEW p \in Procs, Does(p) PROVE EntryInv'
  <2> USE DEF TypeInv, EntryInv
  <2>0. UNCHANGED setting /\ \A q \in Procs \ {p} : pc'[q] = pc[q] /\ mine'[q] = mine[q]
    BY <1>2 DEF Does
  <2>1. CASE \/ Begun(p) \/ Taken(p) \/ Stamped(p) \/ HasRead(p)
            \/ Left(p) \/ Over(p) \/ Dropped(p) \/ Retried(p)
    BY <2>0, <2>1 DEF Begun, Taken, Stamped, HasRead, Left, Over, Dropped, Retried, Leave
  <2>2. CASE HasDecided(p)
    <3>1. \/ /\ pc'[p] = "write"
             /\ mine'[p].kind = "steer" => /\ mine'[p].entry.event = "steering_accepted"
                                           /\ mine'[p].entry.key = mine'[p].key
             /\ mine'[p].kind # "steer" => mine'[p].entry.event # "steering_accepted"
             /\ mine'[p].kind = "create" => mine'[p].entry.event = "plan_created"
          \/ pc'[p] = "log" /\ mine'[p].entry.event # "steering_accepted"
          \/ pc'[p] \in {"idle", "release"}
      <4>1. CASE pc'[p] = "write" /\ Writes(mine'[p], mine[p].next)
        <5> DEFINE me == mine'[p]
        <5>1. me.kind \in {"create", "add", "steer", "start"}
          BY <4>1 DEF Writes
        <5>2. CASE me.kind = "create"
          BY <4>1, <5>2, EventOfEntry DEF Writes
        <5>3. CASE me.kind = "add"
          BY <4>1, <5>3, EventOfEntry DEF Writes
        <5>4. CASE me.kind = "steer"
          <6>1. me.entry = [EntryOf("steering_accepted", NoGoal) EXCEPT !.key = me.key]
            BY <4>1, <5>4 DEF Writes
          <6> QED BY <4>1, <5>4, <6>1, EventOfEntry
        <5>5. CASE me.kind = "start"
          BY <4>1, <5>5, EventOfEntry DEF Writes
        <5> QED BY <5>1, <5>2, <5>3, <5>4, <5>5
      <4>2. CASE pc'[p] = "log" /\ Resumes(mine'[p], mine[p].next)
        BY <4>2, EventOfEntry DEF Resumes
      <4>3. CASE pc'[p] = Leave(p)
        BY <4>3 DEF Leave
      <4> QED BY <2>2, <4>1, <4>2, <4>3 DEF HasDecided
    <3> QED BY <2>0, <3>1
  <2>3. CASE MigrateWrite(p) \/ MigrateAppend(p) \/ TruncateLedger(p) \/ AppendLedger(p)
    BY <2>0, <2>3 DEF MigrateWrite, MigrateAppend, TruncateLedger, AppendLedger,
                       Goto, At, LockInv
  <2>4. CASE WritePlan(p)
    BY <2>0, <2>4 DEF WritePlan, Goto, At
  <2> QED BY <1>2, <2>1, <2>2, <2>3, <2>4 DEF Does
<1> QED BY <1>1, <1>2, StepDoes

(* At any time at most one process is past the lock and not yet out of the *)
(* finally block, crashes and failed writes included.                      *)


LEMMA LoggedAccepts ==
  \A l, e : Logged(l, e).accepted =
              l.accepted \cup (IF e.event = "steering_accepted" THEN {e.key} \ {NoKey} ELSE {})
BY DEF Logged

(* A process that is about to write is the one that holds the lock.        *)
LEMMA WriterHolds ==
  ASSUME TypeInv, LockInv
  PROVE  /\ \A p \in Procs : pc[p] \in {"write", "truncate", "append", "log", "release"}
              => Holds(p) /\ lock /\ ~Orphaned /\ \A q \in Procs \ {p} : ~Holds(q)
         /\ \A p \in Procs : mine[p].key \in Keys \cup {NoKey}
<1>1. ASSUME NEW p \in Procs, pc[p] \in {"write", "truncate", "append", "log", "release"}
      PROVE  Holds(p) /\ lock /\ ~Orphaned /\ \A q \in Procs \ {p} : ~Holds(q)
  BY <1>1 DEF LockInv, Holds, Orphaned
<1> QED BY <1>1 DEF TypeInv, Mine

LEMMA InitKey == Init => KeyInv /\ AppliedInv
BY DEF Init, KeyInv, AppliedInv, EmptyLedger

LEMMA KeyNext ==
  ASSUME TypeInv, LockInv, EntryInv, KeyInv, [Next]_vars, "failure" \notin setting.faults
  PROVE  KeyInv'
<1>1. CASE UNCHANGED vars
  BY <1>1 DEF vars, KeyInv, Orphaned, Holds
<1>2. ASSUME NEW p \in Procs, Does(p) PROVE KeyInv'
  <2>0. UNCHANGED setting /\ \A q \in Procs \ {p} : pc'[q] = pc[q] /\ mine'[q] = mine[q]
    BY <1>2 DEF Does
  <2> SUFFICES ASSUME NEW k \in Keys
               PROVE  /\ times'[k] <= 1
                      /\ times'[k] = 1 =>
                           \/ k \in ledger'.accepted \/ Orphaned'
                           \/ \E q \in Procs : /\ pc'[q] = "append" /\ mine'[q].kind = "steer"
                                               /\ mine'[q].key = k
                      /\ \A q \in Procs :
                           /\ pc'[q] = "write" /\ mine'[q].kind = "steer" /\ mine'[q].key = k
                                => times'[k] = 0
                           /\ pc'[q] = "truncate" => times'[k] = 0
    BY DEF KeyInv
  <2>1. /\ times[k] \in Nat /\ times[k] <= 1
        /\ times[k] = 1 => \/ k \in ledger.accepted \/ Orphaned
                           \/ \E q \in Procs : /\ pc[q] = "append" /\ mine[q].kind = "steer"
                                               /\ mine[q].key = k
        /\ \A q \in Procs :
             /\ pc[q] = "write" /\ mine[q].kind = "steer" /\ mine[q].key = k => times[k] = 0
             /\ pc[q] = "truncate" => times[k] = 0
    BY DEF KeyInv, TypeInv
  <2>2. CASE Begun(p)
    BY <2>0, <2>1, <2>2 DEF Begun, Orphaned, Holds, files
  <2>3. CASE Taken(p)
    BY <2>0, <2>1, <2>3 DEF Taken, Orphaned, files
  <2>3a. CASE Stamped(p)
    BY <2>0, <2>1, <2>3a DEF Stamped, Orphaned, Holds, files
  <2>4. CASE HasRead(p)
    BY <2>0, <2>1, <2>4 DEF HasRead, Orphaned, Holds, files
  <2>5. CASE HasDecided(p)
    <3>1. /\ pc[p] = "decide" /\ UNCHANGED <<ledger, lock, times>>
          /\ mine'[p].kind = mine[p].kind /\ pc'[p] \in {"write", "log", "release", "idle"}
          /\ pc'[p] = "write" /\ mine'[p].kind = "steer" => mine'[p].key \notin ledger.accepted
          /\ pc'[p] \in {"write", "log"} => Locks(mine[p].kind)
          /\ pc'[p] = "idle" => ~Locks(mine[p].kind)
      BY <2>5 DEF HasDecided, Leave, Writes, Resumes, files, Locks
    <3>2. Orphaned => Orphaned'
      BY <2>0, <3>1 DEF Orphaned, Holds
    <3>3. Locks(mine[p].kind) =>
            ~Orphaned /\ \A q \in Procs : ~(pc[q] = "append" /\ mine[q].kind = "steer")
      BY <3>1, WriterHolds DEF Holds, Orphaned
    <3>4. CASE ~Locks(mine[p].kind)
      BY <2>0, <2>1, <3>1, <3>2, <3>4
    <3>5. CASE Locks(mine[p].kind)
      BY <2>0, <2>1, <3>1, <3>3, <3>5
    <3> QED BY <3>4, <3>5
  <2>6. CASE Left(p)
    <3>1. pc[p] = "read" /\ pc'[p] = Leave(p)
      BY <2>6 DEF Left
    <3> QED BY <2>0, <2>1, <2>6, <3>1 DEF Left, Leave, Orphaned, Holds, files
  <2>7. CASE Over(p)
    <3>1. /\ pc[p] = "release" => ~Orphaned
          /\ \A q \in Procs : pc[q] = "append" => \A r \in Procs \ {q} : ~Holds(r)
      BY WriterHolds
    <3>2. pc[p] = "append" => lock
      BY WriterHolds
    <3>3. (Orphaned => Orphaned') \/ pc[p] = "release"
      BY <2>0, <2>7 DEF Over, Orphaned, Holds
    <3>4. pc[p] = "append" => Orphaned'
      BY <2>0, <2>7, <3>1, <3>2 DEF Over, Orphaned, Holds
    <3> QED BY <2>0, <2>1, <2>7, <3>1, <3>3, <3>4 DEF Over, files
  <2>7a. CASE Dropped(p)
    <3>1. \A q \in Procs : pc[q] = "append" => Holds(q) /\ lock /\ \A r \in Procs \ {q} : ~Holds(r)
      BY WriterHolds
    <3>2. Orphaned => Orphaned'
      BY <2>0, <2>7a DEF Dropped, Orphaned, Holds
    <3>3. pc[p] = "append" => Orphaned'
      BY <2>0, <2>7a, <3>1 DEF Dropped, Orphaned, Holds
    <3> QED BY <2>0, <2>1, <2>7a, <3>1, <3>2, <3>3 DEF Dropped, files
  <2>8. CASE Retried(p)
    BY <2>0, <2>1, <2>8 DEF Retried, Orphaned, Holds, files
  <2>9. CASE MigrateWrite(p)
    BY <2>0, <2>1, <2>9 DEF MigrateWrite, Orphaned, Holds, Goto, At, TypeInv
  <2>10. CASE MigrateAppend(p)
    <3>1. ledger.accepted \subseteq ledger'.accepted
      BY <2>10, LoggedAccepts DEF MigrateAppend
    <3> QED BY <2>0, <2>1, <2>10, <3>1 DEF MigrateAppend, Orphaned, Holds, Goto, At, TypeInv
  <2>11. CASE WritePlan(p)
    <3>1. /\ pc[p] = "write" /\ pc'[p] \in {"truncate", "append"} /\ mine' = mine
          /\ UNCHANGED <<ledger, lock>>
          /\ times'[k] = IF mine[p].kind = "create" THEN 0
                         ELSE IF k = mine[p].key THEN times[k] + 1 ELSE times[k]
          /\ mine[p].kind # "create" => pc'[p] = "append"
      BY <2>11 DEF WritePlan, Goto, At, TypeInv
    <3>2. ~Orphaned /\ \A q \in Procs : pc[q] \notin {"append", "truncate"}
      BY <3>1, WriterHolds
    <3>3. \A q \in Procs \ {p} : pc[q] # "write"
      BY <3>1, WriterHolds
    <3>4. k = mine[p].key => mine[p].kind = "steer" \/ mine[p].kind = "create"
      BY <3>1, InputsAssumption DEF LockInv
    <3>5. CASE mine[p].kind = "create"
      BY <2>0, <3>1, <3>5
    <3>6. CASE mine[p].kind # "create"
      BY <2>0, <2>1, <3>1, <3>2, <3>3, <3>4, <3>6
    <3> QED BY <3>5, <3>6
  <2>12. CASE TruncateLedger(p)
    <3>1. /\ times[k] = 0 /\ times' = times /\ mine' = mine /\ pc'[p] = "append"
      BY <2>1, <2>12 DEF TruncateLedger, Goto, At, TypeInv
    <3> QED BY <2>0, <2>1, <3>1
  <2>13. CASE AppendLedger(p)
    <3>1. /\ pc[p] \in {"append", "log"} /\ pc'[p] = "release" /\ mine' = mine
          /\ UNCHANGED <<lock, times>>
          /\ ledger' = Logged(ledger, mine[p].entry)
      BY <2>13 DEF AppendLedger, Goto, At, TypeInv
    <3>2. ledger.accepted \subseteq ledger'.accepted
      BY <3>1, LoggedAccepts
    <3>3. pc[p] = "append" /\ mine[p].kind = "steer" /\ mine[p].key = k => k \in ledger'.accepted
      BY <3>1, LoggedAccepts, InputsAssumption DEF EntryInv
    <3>4. ~Orphaned
      BY <3>1, WriterHolds
    <3> QED BY <2>0, <2>1, <3>1, <3>2, <3>3, <3>4
  <2> QED BY <1>2, <2>2, <2>3, <2>3a, <2>4, <2>5, <2>6, <2>7, <2>7a, <2>8, <2>9, <2>10, <2>11,
             <2>12, <2>13
          DEF Does
<1> QED BY <1>1, <1>2, StepDoes

(* What is accepted was applied, as long as no command recreates the plan. *)
LEMMA AppliedNext ==
  ASSUME TypeInv, LockInv, EntryInv, AppliedInv, [Next]_vars, "create" \notin setting.kinds
  PROVE  AppliedInv'
<1>1. CASE UNCHANGED vars
  BY <1>1 DEF vars, AppliedInv
<1>2. ASSUME NEW p \in Procs, Does(p) PROVE AppliedInv'
  <2>0. UNCHANGED setting /\ \A q \in Procs \ {p} : pc'[q] = pc[q] /\ mine'[q] = mine[q]
    BY <1>2 DEF Does
  <2>1. CASE \/ Begun(p) \/ Taken(p) \/ Stamped(p) \/ HasRead(p)
            \/ Left(p) \/ Over(p) \/ Dropped(p) \/ Retried(p)
    BY <2>0, <2>1 DEF Begun, Taken, Stamped, HasRead, Left, Over, Dropped, Retried, Leave,
                       AppliedInv, files
  <2>2. CASE HasDecided(p)
    <3>1. pc'[p] # "append" /\ UNCHANGED <<ledger, times>>
      BY <2>2 DEF HasDecided, Leave, files
    <3> QED BY <2>0, <3>1 DEF AppliedInv
  <2>3. CASE MigrateWrite(p)
    BY <2>3 DEF MigrateWrite, Goto, At, TypeInv, AppliedInv
  <2>4. CASE MigrateAppend(p)
    <3> DEFINE e == EntryOf("aggregate_objective_migrated", NoGoal)
    <3>1. ledger'.accepted = ledger.accepted
      <4>1. e.event = "aggregate_objective_migrated" /\ ledger' = Logged(ledger, e)
        BY <2>4, EventOfEntry DEF MigrateAppend
      <4> HIDE DEF e
      <4> QED BY <4>1, LoggedAccepts
    <3> QED BY <2>4, <3>1 DEF MigrateAppend, Goto, At, TypeInv, AppliedInv
  <2>5. CASE WritePlan(p)
    <3>1. /\ pc[p] = "write" /\ mine[p].kind # "create" /\ mine' = mine /\ ledger' = ledger
          /\ \A k \in Keys : times'[k] = IF k = mine[p].key THEN times[k] + 1 ELSE times[k]
          /\ \A k \in Keys : times[k] \in Nat
      BY <2>5 DEF WritePlan, At, LockInv, TypeInv
    <3>2. \A k \in Keys : times'[k] >= times[k] /\ times'[k] \in Nat
      BY <3>1
    <3>3. \A k \in Keys : k = mine[p].key => times'[k] >= 1
      BY <3>1
    <3>4. ledger.accepted \subseteq Keys
      BY DEF TypeInv, Ledger
    <3> QED BY <2>0, <3>1, <3>2, <3>3, <3>4 DEF AppliedInv
  <2>6. CASE TruncateLedger(p)
    BY <2>6 DEF TruncateLedger, At, LockInv
  <2>7. CASE AppendLedger(p)
    <3>1. /\ pc[p] \in {"append", "log"} /\ pc'[p] = "release" /\ mine' = mine /\ times' = times
          /\ ledger' = Logged(ledger, mine[p].entry)
      BY <2>7 DEF AppendLedger, Goto, At, TypeInv
    <3>2. \A k \in ledger'.accepted \ ledger.accepted :
            /\ k \in Keys /\ k = mine[p].key /\ pc[p] = "append" /\ mine[p].kind = "steer"
      BY <3>1, LoggedAccepts DEF EntryInv, TypeInv, Mine, Entry
    <3> QED BY <2>0, <3>1, <3>2 DEF AppliedInv
  <2> QED BY <1>2, <2>1, <2>2, <2>3, <2>4, <2>5, <2>6, <2>7 DEF Does
<1> QED BY <1>1, <1>2, StepDoes


-----------------------------------------------------------------------------
(* What the holder knows of the plan                                       *)

(* The status command migrates the plan of an earlier version without the  *)
(* lock; where it may do so, a holder's plan may be stale.                 *)
MigrationsLocked == \A s \in Settings : "status" \in s.kinds => ~s.legacy

LEMMA InitPlan == Init => PlanInv
<1> SUFFICES ASSUME Init PROVE PlanInv
  OBVIOUS
<1>1. 1 \in 0 .. MaxGoals /\ 0 \in 0 .. MaxGoals /\ "aggregate" \in Mode
  BY BoundsAssumption DEF Mode
<1>2. ~NoPlan.legacy /\ ~NoPlan.aggregateDone
  BY <1>1, CreatedPlan DEF NoPlan
<1>3. ~[Created("aggregate", 1) EXCEPT !.legacy = TRUE].aggregateDone
  BY DEF Created
<1> QED BY <1>2, <1>3 DEF Init, PlanInv

(* What a command writes is a plan that is neither of an earlier version   *)
(* nor completed by a task-scoped goal.                                    *)
LEMMA WrittenPlan ==
  ASSUME NEW me \in Mine, NEW seen \in PlanSet, Writes(me, seen),
         me.kind = "create" \/ ~seen.legacy, ~seen.aggregateDone
  PROVE  me.next \in PlanSet /\ ~me.next.legacy /\ ~me.next.aggregateDone
<1>1. 1 \in 0 .. MaxGoals /\ "aggregate" \in Mode
  BY BoundsAssumption DEF Mode
<1>2. CASE me.kind = "create"
  BY <1>1, <1>2, CreatedPlan DEF Writes
<1>3. CASE me.kind \in {"add", "steer"}
  BY <1>3, AppendedPlan DEF Writes
<1>4. CASE me.kind = "start"
  BY <1>4, StartedPlan DEF Writes
<1> QED BY <1>2, <1>3, <1>4 DEF Writes

LEMMA PlanNext ==
  ASSUME TypeInv, LockInv, PlanInv, [Next]_vars, MigrationsLocked
  PROVE  PlanInv'
<1>1. CASE UNCHANGED vars
  BY <1>1 DEF vars, PlanInv, Writes, Resumes
<1>2. ASSUME NEW p \in Procs, Does(p) PROVE PlanInv'
  <2>0. UNCHANGED setting /\ \A q \in Procs \ {p} : pc'[q] = pc[q] /\ mine'[q] = mine[q]
    BY <1>2 DEF Does
  <2> DEFINE PlanGood == ~plan.aggregateDone /\ (~setting.legacy => ~plan.legacy)
             Good(q) ==
               /\ pc[q] = "migrate" => /\ Locks(mine[q].kind) /\ Exists(plan) /\ plan.legacy
                                       /\ mine[q].next = Migrated(plan)
               /\ pc[q] = "migrated" => Locks(mine[q].kind)
               /\ pc[q] \in {"migrated", "decide"} /\ Locks(mine[q].kind) /\ mine[q].kind # "create"
                    => Exists(plan) /\ ~plan.legacy /\ mine[q].next = plan
               /\ pc[q] = "write" => /\ Writes(mine[q], plan)
                                     /\ mine[q].kind # "create" => Exists(plan) /\ ~plan.legacy
               /\ pc[q] = "log" => Resumes(mine[q], plan) /\ ~plan.legacy
  <2>1. PlanGood /\ \A q \in Procs : Good(q)
    BY DEF PlanInv
  <2>2. plan \in PlanSet /\ mine[p] \in Mine /\ setting \in Settings
    BY DEF TypeInv
  <2>3. ASSUME PlanGood', \A q \in Procs : Good(q)' PROVE PlanInv'
    BY <2>3 DEF PlanInv
  <2>4. ASSUME plan' = plan, ledger' = ledger PROVE PlanGood' /\ \A q \in Procs \ {p} : Good(q)'
    BY <2>0, <2>1, <2>4 DEF Writes
  (* A process without the lock is at none of the labels above.            *)
  <2>5. ASSUME NEW q \in Procs, ~Holds(q)', pc'[q] \notin {"migrate", "migrated"},
               pc'[q] \in {"write", "truncate", "append", "log", "release"} => Locks(mine'[q].kind)
        PROVE  Good(q)'
    BY <2>5 DEF Holds
  <2>6. CASE \/ Begun(p) \/ Taken(p) \/ Stamped(p)
            \/ Left(p) \/ Over(p) \/ Dropped(p) \/ Retried(p)
    <3>1. plan' = plan /\ ledger' = ledger
      BY <2>6 DEF Begun, Taken, Stamped, Left, Over, Dropped, Retried, files
    <3>2. \/ Retried(p)
          \/ pc'[p] \in {"acquire", "stamp", "idle", "release", "read"}
          \/ pc'[p] = "decide" /\ mine'[p].kind = "create"
      BY <2>6 DEF Begun, Taken, Stamped, Left, Over, Dropped, Leave
    <3>3. Good(p)'
      BY <2>1, <3>1, <3>2 DEF Retried, Writes
    <3> QED BY <2>3, <2>4, <3>1, <3>3
  <2>7. CASE HasRead(p)
    <3>1. plan' = plan /\ ledger' = ledger
      BY <2>7 DEF HasRead, files
    <3>2. plan.legacy => Locks(mine[p].kind)
      BY <2>1, <2>2, <2>7 DEF MigrationsLocked, HasRead, LockInv, Locks
    <3>3. Good(p)'
      BY <2>2, <2>7, <3>1, <3>2, MigratedPlan DEF HasRead
    <3> QED BY <2>3, <2>4, <3>1, <3>3
  <2>8. CASE HasDecided(p)
    <3>1. plan' = plan /\ ledger' = ledger
      BY <2>8 DEF HasDecided, files
    <3>2. pc'[p] \in {"write", "log"} => Locks(mine[p].kind)
      BY <2>8 DEF HasDecided, Writes, Resumes, Locks, Leave
    <3>3. Good(p)'
      BY <2>1, <2>8, <3>1, <3>2 DEF HasDecided, Leave, Writes, Resumes
    <3> QED BY <2>3, <2>4, <3>1, <3>3
  (* Whoever changes the files holds the lock.                             *)
  <2>9. ASSUME Holds(p), \A q \in Procs : q # p => pc'[q] = pc[q] /\ mine'[q] = mine[q]
        PROVE  \A q \in Procs \ {p} : Good(q)'
    <3>1. \A q \in Procs \ {p} : ~Holds(q)
      BY <2>9 DEF LockInv
    <3>2. \A q \in Procs : /\ pc[q] \in {"migrate", "migrated"} => Locks(mine[q].kind)
                           /\ pc[q] \in {"write", "truncate", "append", "log", "release"}
                                => Locks(mine[q].kind)
      BY <2>1 DEF LockInv
    <3> QED BY <2>5, <2>9, <3>1, <3>2 DEF Holds
  <2>10. CASE MigrateWrite(p)
    <3>1. /\ pc[p] = "migrate" /\ pc'[p] = "migrated" /\ mine' = mine /\ plan' = mine[p].next
      BY <2>10 DEF MigrateWrite, Goto, At, TypeInv
    <3>2. /\ Holds(p) /\ Locks(mine[p].kind) /\ Exists(plan) /\ mine[p].next = Migrated(plan)
      BY <2>1, <3>1 DEF Holds
    <3>3. ~plan'.legacy /\ Exists(plan') /\ ~plan'.aggregateDone
      BY <2>1, <2>2, <3>1, <3>2, MigratedPlan DEF Exists
    <3> QED BY <2>0, <2>3, <2>9, <3>1, <3>2, <3>3
  <2>11. CASE MigrateAppend(p)
    <3>1. pc[p] = "migrated" /\ pc'[p] = "decide" /\ mine' = mine /\ plan' = plan
      BY <2>11 DEF MigrateAppend, Goto, At, TypeInv
    <3>2. Holds(p) /\ Good(p)'
      BY <2>1, <3>1 DEF Holds
    <3> QED BY <2>0, <2>1, <2>3, <2>9, <3>1, <3>2
  <2>12. CASE WritePlan(p)
    <3>1. /\ pc[p] = "write" /\ pc'[p] \in {"truncate", "append"} /\ mine' = mine
          /\ plan' = mine[p].next
      BY <2>12 DEF WritePlan, Goto, At, TypeInv
    <3>2. Holds(p)
      BY <3>1, WriterHolds
    <3>3. ~plan'.legacy /\ ~plan'.aggregateDone
      BY <2>1, <2>2, <3>1, WrittenPlan
    <3> QED BY <2>0, <2>3, <2>9, <3>1, <3>2, <3>3
  <2>13. CASE TruncateLedger(p) \/ AppendLedger(p)
    <3>1. /\ pc[p] \in {"truncate", "append", "log"} /\ pc'[p] \in {"append", "release"}
          /\ mine' = mine /\ plan' = plan
      BY <2>13 DEF TruncateLedger, AppendLedger, Goto, At, TypeInv
    <3>2. Holds(p)
      BY <3>1, WriterHolds
    <3> QED BY <2>0, <2>1, <2>3, <2>9, <3>1, <3>2
  <2> QED BY <1>2, <2>6, <2>7, <2>8, <2>10, <2>11, <2>12, <2>13 DEF Does
<1> QED BY <1>1, <1>2, StepDoes


-----------------------------------------------------------------------------
(* The theorems                                                            *)

IInv ==
  /\ TypeInv /\ LockInv /\ EntryInv
  /\ "failure" \notin setting.faults => KeyInv
  /\ "create" \notin setting.kinds => AppliedInv

LEMMA InvNext == IInv /\ [Next]_vars => IInv'
<1> SUFFICES ASSUME IInv, [Next]_vars PROVE IInv'
  OBVIOUS
<1>1. setting' = setting
  BY DEF Next, Step, vars
<1> QED BY <1>1, TypeNext, LockNext, EntryNext, KeyNext, AppliedNext DEF IInv

THEOREM StoreInvariant == Spec => []IInv
<1>1. Init => IInv
  BY InitType, InitLock, InitKey DEF IInv
<1> QED BY <1>1, InvNext, PTL DEF Spec

(* The files hold a plan and a ledger, every process is at a label of its  *)
(* command and has made fewer attempts than it may, whatever dies or fails.*)
THEOREM StoreTypeCorrect == Spec => []TypeOK
<1>1. IInv => TypeOK
  BY PlanSetIs DEF IInv, TypeInv, TypeOK, Mine
<1> QED BY <1>1, StoreInvariant, PTL

(* .mutation.lock: at any time at most one command is past its exclusive   *)
(* create and not yet out of the finally block, and the lock file is there *)
(* as long; a lock file that no running command holds was left by one that *)
(* died or could not stamp or remove it, and nobody holds it ever again.   *)
MutualExclusion ==
  /\ \A p, q \in Procs : Holds(p) /\ Holds(q) => p = q
  /\ (\E p \in Procs : Holds(p)) => lock /\ ~abandoned
  /\ (lock /\ \A p \in Procs : ~Holds(p)) <=> abandoned

THEOREM OneHolder == Spec => []MutualExclusion
<1>1. IInv => MutualExclusion
  BY DEF IInv, LockInv, MutualExclusion
<1> QED BY <1>1, StoreInvariant, PTL

(* A directive that is submitted again and again changes a plan once, as   *)
(* long as no write fails: a process may die after any step.               *)
THEOREM KeysAppliedOnce == Spec => []KeyAppliedOnceByWrites
<1>1. IInv => KeyAppliedOnceByWrites
  BY DEF IInv, KeyInv, KeyAppliedOnceByWrites, KeyAppliedOnce
<1> QED BY <1>1, StoreInvariant, PTL

(* A key the ledger lists as accepted has changed the plan, whatever dies  *)
(* or fails, unless a command creates the plan anew.                       *)
THEOREM AcceptedKeysApplied == Spec => []AcceptedApplied
<1>1. IInv => AcceptedApplied
  BY DEF IInv, AppliedInv, AcceptedApplied
<1> QED BY <1>1, StoreInvariant, PTL

(* No command loses a goal another command added, whatever dies or fails,  *)
(* where the plan of an earlier version is migrated under the lock.        *)
THEOREM NoGoalLost ==
  ASSUME MigrationsLocked
  PROVE  Spec => GoalsKept
<1> DEFINE Inv == IInv /\ PlanInv
<1>1. Init => Inv
  BY InitType, InitLock, InitKey, InitPlan DEF IInv
<1>2. Inv /\ [Next]_vars => Inv'
  BY InvNext, PlanNext DEF IInv
<1>3. Inv /\ [Next]_vars => [plan'.size >= plan.size \/ \E p \in Procs : mine[p].kind = "create"]_vars
  <2> SUFFICES ASSUME Inv, [Next]_vars, NEW p \in Procs, Does(p), mine[p].kind # "create"
               PROVE  plan'.size >= plan.size
    BY StepDoes DEF IInv
  <2>1. plan \in PlanSet /\ plan.size \in Nat
    <3>1. plan \in PlanSet
      BY DEF IInv, TypeInv
    <3> QED BY <3>1, PlanSetIs, BoundsAssumption DEF IsPlan
  <2>2. CASE plan' = plan
    BY <2>1, <2>2
  <2>3. CASE MigrateWrite(p)
    <3>1. plan' = Migrated(plan)
      BY <2>3 DEF MigrateWrite, At, PlanInv
    <3> QED BY <2>1, <3>1, MigratedPlan
  <2>4. CASE WritePlan(p)
    <3>1. plan' = mine[p].next /\ Writes(mine[p], plan)
      BY <2>4 DEF WritePlan, At, PlanInv
    <3> QED BY <2>1, <3>1, AppendedPlan, StartedPlan DEF Writes
  <2> QED BY <2>2, <2>3, <2>4 DEF Does, Begun, Taken, Stamped, HasRead, HasDecided, Left, Over,
             Dropped, Retried, MigrateAppend, TruncateLedger, AppendLedger, files
<1> QED BY <1>1, <1>2, <1>3, PTL DEF Spec, GoalsKept


-----------------------------------------------------------------------------
(* The refinement: where nothing fails, the files change as if every       *)
(* command were one step of Ultragoal                                      *)

(* The ledger Ultragoal sees                                               *)
InTheMiddle(p) == pc[p] \in {"truncate", "append", "migrated"}

PendingInv ==
  /\ \A p \in Procs :
       /\ pc[p] = "truncate" => PendingLedger = Logged(EmptyLedger, mine[p].entry)
       /\ pc[p] = "append" => PendingLedger = Logged(ledger, mine[p].entry)
       /\ pc[p] = "migrated" =>
            PendingLedger = Logged(ledger, EntryOf("aggregate_objective_migrated", NoGoal))
  /\ (\A p \in Procs : ~InTheMiddle(p)) => PendingLedger = ledger

LEMMA PendingIs == TypeInv /\ LockInv /\ PlanInv => PendingInv
<1> SUFFICES ASSUME TypeInv, LockInv, PlanInv PROVE PendingInv
  OBVIOUS
<1> DEFINE written == {p \in Procs : pc[p] \in {"truncate", "append"}}
           migrating == {p \in Procs : At(p, "migrated")}
           chosen == CHOOSE p \in written : TRUE
<1>1. \A p \in Procs : pc[p] \in {"truncate", "append", "migrated"} => Holds(p)
  BY DEF LockInv, PlanInv, Holds
<1>2. ASSUME NEW p \in written PROVE written # {} /\ chosen = p
  <2>1. \A q \in written : q = p
    BY <1>1, <1>2 DEF LockInv
  <2> QED BY <1>2, <2>1
<1>3. ASSUME NEW p \in migrating PROVE written = {} /\ migrating # {}
  BY <1>1, <1>3 DEF LockInv, At
<1>4. PendingLedger =
        IF written # {}
        THEN Logged(IF At(chosen, "truncate") THEN EmptyLedger ELSE ledger, mine[chosen].entry)
        ELSE IF migrating # {}
             THEN Logged(ledger, EntryOf("aggregate_objective_migrated", NoGoal))
             ELSE ledger
  BY DEF PendingLedger
<1>5. ASSUME NEW p \in Procs, pc[p] \in {"truncate", "append"} PROVE p \in written
  BY <1>5
<1>6. ASSUME NEW p \in Procs, pc[p] = "migrated" PROVE p \in migrating
  BY <1>6 DEF At
<1>7. (\A p \in Procs : ~InTheMiddle(p)) => written = {} /\ migrating = {}
  BY DEF At, InTheMiddle
<1> HIDE DEF written, migrating, chosen
<1>8. ASSUME NEW p \in Procs, pc[p] = "truncate"
      PROVE  PendingLedger = Logged(EmptyLedger, mine[p].entry)
  BY <1>2, <1>4, <1>5, <1>8 DEF At
<1>9. ASSUME NEW p \in Procs, pc[p] = "append"
      PROVE  PendingLedger = Logged(ledger, mine[p].entry)
  BY <1>2, <1>4, <1>5, <1>9 DEF At
<1>10. ASSUME NEW p \in Procs, pc[p] = "migrated"
       PROVE  PendingLedger = Logged(ledger, EntryOf("aggregate_objective_migrated", NoGoal))
  BY <1>3, <1>4, <1>6, <1>10
<1> QED BY <1>4, <1>7, <1>8, <1>9, <1>10 DEF PendingInv

LEMMA PendingIsNext == TypeInv' /\ LockInv' /\ PlanInv' => PendingInv'
BY PendingIs, PTL

(* The operators Ultragoal uses are those used here.                       *)
LEMMA SameOperators ==
  /\ \A p : Abstract!Migrated(p) = Migrated(p)
  /\ \A p : Abstract!Appended(p) = Appended(p)
  /\ \A m, n : Abstract!Created(m, n) = Created(m, n)
  /\ \A p, g : Abstract!Started(p, g) = Started(p, g)
  /\ \A p, g : Abstract!CanStart(p, g) <=> CanStart(p, g)
  /\ \A p, g : Abstract!Resumable(p, g) <=> Resumable(p, g)
  /\ \A p : Abstract!Exists(p) <=> Exists(p)
  /\ \A l, e : Abstract!Logged(l, e) = Logged(l, e)
  /\ \A ev, g : Abstract!EntryOf(ev, g) = EntryOf(ev, g)
  /\ Abstract!EmptyLedger = EmptyLedger /\ Abstract!NoGoal = NoGoal
  /\ Abstract!NoPlan = NoPlan /\ Abstract!GoalId = GoalId
<1>1. \A p : Abstract!Migrated(p) = Migrated(p)
  BY DEF Abstract!Migrated, Migrated
<1>2. \A p : Abstract!Appended(p) = Appended(p)
  BY DEF Abstract!Appended, Appended, Abstract!Inserted, Inserted, Abstract!NewItem, NewItem
<1>3. \A m, n : Abstract!Created(m, n) = Created(m, n)
  BY DEF Abstract!Created, Created, Abstract!NewItem, NewItem, Abstract!NoGoal, NoGoal
<1>4. \A p, g : Abstract!Started(p, g) = Started(p, g)
  BY DEF Abstract!Started, Started
<1>5. \A p, g : Abstract!CanStart(p, g) <=> CanStart(p, g)
  BY DEF Abstract!CanStart, CanStart, Abstract!NothingRunning, NothingRunning, Abstract!First,
         First, Abstract!Waiting, Waiting, Abstract!Running, Running, Abstract!Position, Position,
         Abstract!Ids, Ids, Abstract!Exists, Exists, Abstract!Eligible, Eligible
<1>6. \A p, g : Abstract!Resumable(p, g) <=> Resumable(p, g)
  BY DEF Abstract!Resumable, Resumable, Abstract!First, First, Abstract!Running, Running,
         Abstract!Position, Position, Abstract!Ids, Ids, Abstract!Exists, Exists,
         Abstract!Eligible, Eligible
<1>7. \A p : Abstract!Exists(p) <=> Exists(p)
  BY DEF Abstract!Exists, Exists
<1>8. \A l, e : Abstract!Logged(l, e) = Logged(l, e)
  BY DEF Abstract!Logged, Logged, Abstract!IsBlockerRecord, IsBlockerRecord
<1>9. \A ev, g : Abstract!EntryOf(ev, g) = EntryOf(ev, g)
  BY DEF Abstract!EntryOf, EntryOf
<1>10. Abstract!EmptyLedger = EmptyLedger /\ Abstract!NoGoal = NoGoal
  BY DEF Abstract!EmptyLedger, EmptyLedger, Abstract!NoGoal, NoGoal, Abstract!GoalId, GoalId
<1>11. Abstract!NoPlan = NoPlan /\ Abstract!GoalId = GoalId
  BY <1>3 DEF Abstract!NoPlan, NoPlan, Abstract!GoalId, GoalId
<1> QED BY <1>1, <1>2, <1>3, <1>4, <1>5, <1>6, <1>7, <1>8, <1>9, <1>10, <1>11


LEMMA InitImplements == Init => Abstract!Init
<1> SUFFICES ASSUME Init PROVE Abstract!Init
  OBVIOUS
<1>1. PendingLedger = EmptyLedger
  <2>1. TypeInv /\ LockInv /\ PlanInv
    BY InitType, InitLock, InitPlan
  <2>2. \A p \in Procs : ~InTheMiddle(p)
    BY DEF Init, InTheMiddle
  <2> QED BY <2>1, <2>2, PendingIs DEF Init, PendingInv
<1>2. Logged(EmptyLedger, EntryOf("plan_created", NoGoal)) = EmptyLedger
  BY DEF Logged, EmptyLedger, EntryOf, IsBlockerRecord
<1>3. plan \in {NoPlan, [Created("aggregate", 1) EXCEPT !.legacy = TRUE]}
  BY DEF Init
<1>4. [Abstract!Created("aggregate", 1) EXCEPT !.legacy = TRUE] \in Abstract!LegacyPlans
  <2>1. 1 \in {m \in 1 .. 1 : TRUE}
    OBVIOUS
  <2> QED BY <2>1, Zenon DEF Abstract!LegacyPlans
<1>5. plan \in {Abstract!NoPlan} \cup Abstract!LegacyPlans
  BY <1>3, <1>4, SameOperators
<1>6. PendingLedger = IF plan = Abstract!NoPlan THEN Abstract!EmptyLedger
                      ELSE Abstract!Logged(Abstract!EmptyLedger,
                                           Abstract!EntryOf("plan_created", Abstract!NoGoal))
  BY <1>1, <1>2, SameOperators
<1> QED BY <1>5, <1>6 DEF Abstract!Init

(* A command that writes a plan is the action of Ultragoal that writes it. *)
LEMMA WriteImplements ==
  ASSUME NEW me \in Mine, plan \in PlanSet, Exists(plan) \/ me.kind = "create",
         ~plan.legacy \/ me.kind = "create", ~plan.aggregateDone,
         Writes(me, plan), plan' = me.next, PendingLedger = ledger,
         PendingLedger' = Logged(IF me.kind = "create" THEN EmptyLedger ELSE ledger, me.entry)
  PROVE  Abstract!Next
<1>1. CASE me.kind = "create"
  <2>1. Abstract!CreateUltragoalPlan("aggregate", 1, TRUE)
    BY <1>1, SameOperators DEF Writes, Abstract!CreateUltragoalPlan
  <2>2. 1 \in 1 .. 1
    OBVIOUS
  <2>3. Abstract!Create
    BY <2>1, <2>2, Zenon DEF Abstract!Create
  <2> QED BY <2>3 DEF Abstract!Next
<1>2. ASSUME me.kind # "create" PROVE Abstract!Read = plan /\ Exists(plan)
  BY <1>2, SameOperators DEF Abstract!Read, Migrated
<1>3. CASE me.kind = "add"
  <2>1. Abstract!AddUltragoalGoal
    BY <1>2, <1>3, SameOperators DEF Writes, Abstract!AddUltragoalGoal, Abstract!Log
  <2> QED BY <2>1 DEF Abstract!Next
<1>4. CASE me.kind = "steer"
  <2>1. Abstract!Accepted(me.key, Abstract!NoGoal)
    BY <1>2, <1>4, SameOperators DEF Writes, Abstract!Accepted, Abstract!Log,
       Abstract!Deduplicated
  <2>2. Abstract!SteerAddSubgoal(me.key)
    BY <1>2, <1>4, <2>1, SameOperators DEF Writes, Abstract!SteerAddSubgoal
  <2>3. me.key \in Keys \cup {NoKey}
    BY DEF Mine
  <2> QED BY <2>2, <2>3 DEF Abstract!Next, Abstract!Steering, Abstract!Steer
<1>5. CASE me.kind = "start"
  <2>1. PICK g \in Ids(plan) : /\ CanStart(plan, g) /\ me.next = Started(plan, g)
                               /\ me.entry = EntryOf("goal_started", g)
    BY <1>5 DEF Writes
  <2>2. g \in GoalId
    BY <2>1, PlanSetIs, BoundsAssumption DEF IsPlan, Ids, GoalId
  <2>3. Abstract!StartNextUltragoal(g, FALSE)
    BY <1>2, <1>5, <2>1, SameOperators DEF Abstract!StartNextUltragoal, Abstract!Log
  <2> QED BY <2>2, <2>3, SameOperators DEF Abstract!Next, Abstract!StartNext
<1> QED BY <1>1, <1>3, <1>4, <1>5 DEF Writes

LEMMA NextImplements ==
  ASSUME TypeInv, LockInv, PlanInv, [Next]_vars, TypeInv', LockInv', PlanInv',
         setting.faults = {}
  PROVE  Abstract!Next \/ UNCHANGED <<plan, PendingLedger>>
<1>1. PendingInv /\ PendingInv'
  BY PendingIs, PendingIsNext
<1>2. CASE UNCHANGED vars
  BY <1>2 DEF vars, PendingLedger, At
<1>3. ASSUME NEW p \in Procs, Does(p) PROVE Abstract!Next \/ UNCHANGED <<plan, PendingLedger>>
  <2>0. /\ plan \in PlanSet /\ mine[p] \in Mine
        /\ \A q \in Procs \ {p} : pc'[q] = pc[q] /\ mine'[q] = mine[q]
    BY <1>3 DEF Does, TypeInv
  (* Only the holder is in the middle of a change to the files.            *)
  <2>1. ASSUME Holds(p)
        PROVE  /\ \A q \in Procs \ {p} : ~InTheMiddle(q) /\ ~InTheMiddle(q)'
               /\ ~InTheMiddle(p) => PendingLedger = ledger
               /\ ~InTheMiddle(p)' => PendingLedger' = ledger'
    <3>1. \A q \in Procs \ {p} : ~InTheMiddle(q)
      BY <2>1 DEF LockInv, PlanInv, InTheMiddle, Holds
    <3>2. \A q \in Procs \ {p} : ~InTheMiddle(q)'
      BY <2>0, <3>1 DEF InTheMiddle
    <3> QED BY <1>1, <3>1, <3>2 DEF PendingInv
  <2>2. CASE /\ UNCHANGED files /\ ~InTheMiddle(p) /\ ~InTheMiddle(p)'
    <3>1. CASE \A q \in Procs : ~InTheMiddle(q)
      <4>1. \A q \in Procs : ~InTheMiddle(q)'
        BY <2>0, <2>2, <3>1 DEF InTheMiddle
      <4> QED BY <1>1, <2>2, <3>1, <4>1 DEF PendingInv, files
    <3>2. ASSUME NEW q \in Procs, InTheMiddle(q) PROVE UNCHANGED <<plan, PendingLedger>>
      <4>1. q # p /\ pc'[q] = pc[q] /\ mine'[q] = mine[q]
        BY <2>0, <2>2, <3>2
      <4> QED BY <1>1, <2>2, <3>2, <4>1 DEF PendingInv, InTheMiddle, files
    <3> QED BY <3>1, <3>2
  <2>3. CASE \/ Begun(p) \/ Taken(p) \/ Stamped(p) \/ HasRead(p) \/ HasDecided(p)
            \/ Left(p) \/ Over(p) \/ Retried(p)
    <3>1. UNCHANGED files /\ ~InTheMiddle(p) /\ ~InTheMiddle(p)'
      BY <2>3 DEF Begun, Taken, Stamped, HasRead, HasDecided, Left, Over, Retried, InTheMiddle, Leave
    <3> QED BY <2>2, <3>1
  <2>4. CASE MigrateWrite(p)
    <3> DEFINE e == EntryOf("aggregate_objective_migrated", NoGoal)
    <3>1. /\ pc[p] = "migrate" /\ pc'[p] = "migrated" /\ plan' = Migrated(plan)
          /\ plan.legacy /\ ledger' = ledger /\ Holds(p)
      BY <2>4 DEF MigrateWrite, Goto, At, TypeInv, PlanInv, Holds
    <3>2. PendingLedger = ledger /\ PendingLedger' = Logged(ledger, e)
      BY <1>1, <2>1, <3>1 DEF InTheMiddle, PendingInv
    <3>3. Abstract!ReadUltragoalPlan
      BY <3>1, <3>2, SameOperators DEF Abstract!ReadUltragoalPlan, Abstract!Log
    <3> QED BY <3>3 DEF Abstract!Next
  <2>5. CASE MigrateAppend(p)
    <3>1. /\ pc[p] = "migrated" /\ pc'[p] = "decide" /\ plan' = plan /\ Holds(p)
          /\ ledger' = Logged(ledger, EntryOf("aggregate_objective_migrated", NoGoal))
      BY <2>5 DEF MigrateAppend, Goto, At, TypeInv, PlanInv, Holds
    <3> QED BY <1>1, <2>1, <3>1 DEF InTheMiddle, PendingInv
  <2>6. CASE WritePlan(p)
    <3>1. /\ pc[p] = "write" /\ plan' = mine[p].next /\ mine'[p] = mine[p] /\ ledger' = ledger
          /\ pc'[p] = IF mine[p].kind = "create" THEN "truncate" ELSE "append"
          /\ Writes(mine[p], plan) /\ ~plan.aggregateDone
          /\ mine[p].kind # "create" => Exists(plan) /\ ~plan.legacy
      BY <2>6 DEF WritePlan, Goto, At, TypeInv, PlanInv
    <3>2. Holds(p)
      BY <3>1, WriterHolds
    <3>3. /\ PendingLedger = ledger
          /\ PendingLedger' = Logged(IF mine[p].kind = "create" THEN EmptyLedger ELSE ledger,
                                     mine[p].entry)
      BY <1>1, <2>1, <3>1, <3>2 DEF InTheMiddle, PendingInv
    <3>4. Abstract!Next
      BY <2>0, <3>1, <3>3, WriteImplements
    <3> QED BY <3>4
  <2>7. CASE TruncateLedger(p)
    <3>1. /\ pc[p] = "truncate" /\ pc'[p] = "append" /\ plan' = plan /\ mine' = mine
          /\ ledger' = EmptyLedger
      BY <2>7 DEF TruncateLedger, Goto, At, TypeInv
    <3> QED BY <1>1, <3>1 DEF PendingInv
  <2>8. CASE AppendLedger(p)
    <3>1. /\ pc[p] \in {"append", "log"} /\ pc'[p] = "release" /\ plan' = plan
          /\ ledger' = Logged(ledger, mine[p].entry)
      BY <2>8 DEF AppendLedger, Goto, At, TypeInv
    <3>2. Holds(p) /\ PendingLedger' = ledger'
      BY <2>1, <3>1, WriterHolds DEF InTheMiddle
    <3>3. CASE pc[p] = "append"
      BY <1>1, <3>1, <3>2, <3>3 DEF PendingInv
    <3>4. CASE pc[p] = "log"
      <4>1. PendingLedger = ledger /\ Resumes(mine[p], plan) /\ Migrated(plan) = plan
        BY <2>0, <2>1, <3>2, <3>4, MigratedPlan DEF InTheMiddle, PlanInv
      <4>2. PICK g \in Ids(plan) : Resumable(plan, g) /\ mine[p].entry = EntryOf("goal_resumed", g)
        BY <4>1 DEF Resumes
      <4>3. g \in GoalId
        BY <2>0, <4>2, PlanSetIs, BoundsAssumption DEF IsPlan, Ids, GoalId
      <4>4. Abstract!ResumeUltragoal(g)
        BY <3>1, <3>2, <4>1, <4>2, SameOperators
           DEF Abstract!ResumeUltragoal, Abstract!Log, Abstract!Read
      <4>5. Abstract!Resume
        BY <4>3, <4>4, SameOperators DEF Abstract!Resume
      <4> QED BY <4>5 DEF Abstract!Next
    <3> QED BY <3>1, <3>3, <3>4
  <2>9. ~Dropped(p)
    BY DEF Dropped
  <2> QED BY <1>3, <2>3, <2>4, <2>5, <2>6, <2>7, <2>8, <2>9 DEF Does
<1> QED BY <1>2, <1>3, StepDoes

(* The commands under the lock are atomic: whatever the interleaving of    *)
(* any number of processes, goals.json and the ledger change as if each    *)
(* command ran alone when it renamed its plan (where the plan of an        *)
(* earlier version is migrated under the lock, and nothing fails).         *)
THEOREM StoreImplements ==
  ASSUME MigrationsLocked
  PROVE  Spec => Implements
<1> DEFINE Inv == IInv /\ PlanInv
<1>1. Init => Inv /\ Abstract!Init
  BY InitType, InitLock, InitKey, InitPlan, InitImplements DEF IInv
<1>2. Inv /\ [Next]_vars => Inv'
  BY InvNext, PlanNext DEF IInv
<1>3. Inv /\ Inv' /\ [Next]_vars
        => [setting.faults # {} \/ Abstract!Next \/ UNCHANGED <<plan, PendingLedger>>]_vars
  BY NextImplements DEF IInv
<1> QED BY <1>1, <1>2, <1>3, PTL DEF Spec, Implements
=============================================================================
