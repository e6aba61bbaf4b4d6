---------------------------- MODULE ServiceProofs ----------------------------
(***************************************************************************)
(* What the queue of exec follow-ups keeps (ExecFollowups), the gates of   *)
(* goals (GoalGates), updates (Update), the tracker of subagents, which    *)
(* implements the registry of lanes (SubagentTracker), and the             *)
(* announcements and turns (Notifications): for any number of processes,   *)
(* hooks, threads, goals and versions, with any of them dying anywhere.    *)
(***************************************************************************)
EXTENDS ExecFollowups, GoalGates, Update, SubagentTracker, Notifications, FiniteSetTheorems, TLAPS

Critical == {"owner", "read", "write", "release", "undo"}

(* The lock belongs to the process between its mkdir and its rm.           *)
LockOwned == \A p \in Procs : pc[p] \in Critical <=> lock.owner = p

(* Without orphans nobody has a reason to take a lock over.                *)
NoTakeover == ~lock.stale /\ \A p \in Procs : pc[p] \notin {"break", "dead"}

(* What a process is about to write was read under the lock it holds.      *)
FreshCopy == \A p \in Procs : At(p, "write") => mine[p] = queue

Queued ==
  \A f \in Injectors : pc[f] \in {"release", "audit", "done"} => queue[f] # "none"

FollowupsIInv ==
  /\ TypeOK /\ LockOwned /\ NoTakeover /\ FreshCopy /\ Queued /\ DeliveredInHand

USE FollowupAssumption DEF Procs

LEMMA FollowupsBegin == Init => FollowupsIInv
  BY DEF Init, FollowupsIInv, TypeOK, LockOwned, NoTakeover, FreshCopy, Queued,
     DeliveredInHand, Empty, Unlocked, Status, Label, Critical, At

(* The steps that change neither the queue nor what was printed, and take  *)
(* nobody into or out of the critical section.                             *)
LEMMA WaitingInv ==
  ASSUME FollowupsIInv, NEW p \in Procs, NEW label \in Label,
         pc[p] \in {"idle", "lock", "stat", "audit"},
         label \in {"idle", "lock", "stat", "audit", "failed", "done"},
         label \in {"audit", "done"} => pc[p] \in {"audit", "done"},
         Goto(p, label), UNCHANGED <<queue, lock, shown, mine>>,
         attempts' \in [Procs -> 0 .. MaxAttempts],
         picked' \in [Hooks -> SUBSET Injectors],
         \A h \in Hooks \ {p} : picked'[h] = picked[h]
  PROVE  FollowupsIInv'
  <1> USE DEF FollowupsIInv, Goto
  <1>1. TypeOK'
    BY DEF TypeOK
  <1>2. LockOwned' /\ NoTakeover' /\ FreshCopy' /\ Queued'
    BY DEF TypeOK, LockOwned, NoTakeover, FreshCopy, Queued, At, Critical
  <1>3. DeliveredInHand'
    BY DEF TypeOK, DeliveredInHand
  <1> QED  BY <1>1, <1>2, <1>3

(* The steps inside the critical section that change no file.              *)
LEMMA CriticalInv ==
  ASSUME FollowupsIInv, NEW p \in Procs, NEW label \in {"read", "write", "undo"},
         pc[p] \in {"owner", "read", "write"},
         Goto(p, label), UNCHANGED <<queue, lock, shown, attempts, picked>>,
         mine' \in [Procs -> [Injectors -> Status]],
         label = "write" => mine'[p] = queue,
         \A q \in Procs \ {p} : mine'[q] = mine[q]
  PROVE  FollowupsIInv'
  <1> USE DEF FollowupsIInv, Goto
  <1>1. TypeOK'
    BY DEF TypeOK, Label
  <1>2. LockOwned' /\ NoTakeover' /\ FreshCopy' /\ Queued'
    BY DEF TypeOK, LockOwned, NoTakeover, FreshCopy, Queued, At, Critical
  <1>3. DeliveredInHand'
    BY DEF TypeOK, DeliveredInHand
  <1> QED  BY <1>1, <1>2, <1>3

(* The holder removes the lock.                                            *)
LEMMA UnlockInv ==
  ASSUME FollowupsIInv, NEW p \in Procs, NEW label \in Label \ Critical,
         pc[p] \in {"release", "undo"}, label \notin {"break", "dead"},
         label \in {"audit", "done"} => pc[p] = "release",
         (p \in Hooks /\ pc[p] = "release") => label = "show",
         lock' = Unlocked, Goto(p, label), UNCHANGED <<queue, local, shown>>
  PROVE  FollowupsIInv'
  <1> USE DEF FollowupsIInv, Goto, local
  <1>1. TypeOK'
    BY DEF TypeOK, Unlocked
  <1>2. lock.owner = p
    BY DEF LockOwned, Critical
  <1>3. LockOwned'
    <2> SUFFICES ASSUME NEW q \in Procs  PROVE pc'[q] \notin Critical /\ lock'.owner # q
      BY DEF LockOwned
    <2> QED  BY <1>2 DEF TypeOK, LockOwned, Unlocked
  <1>4. NoTakeover' /\ FreshCopy' /\ Queued'
    BY DEF TypeOK, NoTakeover, FreshCopy, Queued, At, Critical, Unlocked
  <1>5. DeliveredInHand'
    BY DEF TypeOK, DeliveredInHand, Label
  <1> QED  BY <1>1, <1>3, <1>4, <1>5

LEMMA MakeLockInv ==
  ASSUME FollowupsIInv, NEW p \in Procs, MakeLock(p)  PROVE FollowupsIInv'
  <1> USE DEF FollowupsIInv, MakeLock, Goto, At, local
  <1>1. TypeOK'
    BY DEF TypeOK, Label
  <1>2. LockOwned'
    BY DEF TypeOK, LockOwned, Held, Critical
  <1>3. NoTakeover' /\ FreshCopy' /\ Queued'
    BY DEF TypeOK, NoTakeover, FreshCopy, Queued
  <1>4. DeliveredInHand'
    BY DEF TypeOK, DeliveredInHand
  <1> QED  BY <1>1, <1>2, <1>3, <1>4

(* The only step that writes the queue: no other process is about to       *)
(* write, so no copy becomes stale and nothing is overwritten.             *)
LEMMA WriteQueueInv ==
  ASSUME FollowupsIInv, NEW p \in Procs, WriteQueue(p)  PROVE FollowupsIInv'
  <1> USE DEF FollowupsIInv, WriteQueue, Goto, At, local
  <1>1. mine[p] = queue /\ queue' = Changed(p)
    BY DEF FreshCopy, TypeOK
  <1>2. queue' \in [Injectors -> Status]
    BY <1>1 DEF Changed, TypeOK, Status
  <1>3. \A f \in Injectors : queue[f] # "none" => queue'[f] # "none"
    BY <1>1 DEF Changed, TypeOK
  <1>4. p \in Injectors => queue'[p] # "none"
    BY <1>1 DEF Changed, TypeOK
  <1>5. \A f \in Injectors :
          queue'[f] = "delivered" => queue[f] = "delivered" \/ (p \in Hooks /\ f \in picked[p])
    BY <1>1 DEF Changed, TypeOK
  <1>6. TypeOK'
    BY <1>2 DEF TypeOK, Label
  <1>7. LockOwned' /\ NoTakeover'
    BY DEF TypeOK, LockOwned, NoTakeover, Critical
  <1>8. FreshCopy'
    BY DEF TypeOK, FreshCopy, LockOwned, Critical
  <1>9. Queued'
    BY <1>3, <1>4 DEF TypeOK, Queued
  <1>10. DeliveredInHand'
    BY <1>5 DEF TypeOK, DeliveredInHand
  <1> QED  BY <1>6, <1>7, <1>8, <1>9, <1>10

LEMMA ShowInv ==
  ASSUME FollowupsIInv, NEW h \in Procs, Show(h)  PROVE FollowupsIInv'
  <1> USE DEF FollowupsIInv, Show, Goto, At, local
  <1>1. TypeOK'
    BY DEF TypeOK, Label
  <1>2. LockOwned' /\ NoTakeover' /\ FreshCopy' /\ Queued'
    BY DEF TypeOK, LockOwned, NoTakeover, FreshCopy, Queued, Critical
  <1>3. DeliveredInHand'
    BY DEF TypeOK, DeliveredInHand
  <1> QED  BY <1>1, <1>2, <1>3

LEMMA FollowupsKept == ASSUME FollowupsIInv, [Next]_vars  PROVE FollowupsIInv'
  <1> USE DEF Goto, At, local
  <1>0. CASE UNCHANGED vars
    BY <1>0 DEF vars, FollowupsIInv, TypeOK, LockOwned, NoTakeover, FreshCopy, Queued, DeliveredInHand
  <1>1. ASSUME NEW p \in Procs, Inject(p)  PROVE FollowupsIInv'
    BY <1>1, WaitingInv DEF Inject, Label, FollowupsIInv, TypeOK
  <1>2. ASSUME NEW p \in Procs, Peek(p)  PROVE FollowupsIInv'
    <2>1. p \in Hooks /\ At(p, "idle") /\ Goto(p, "lock") /\ UNCHANGED <<queue, lock, shown, mine>>
      BY <1>2 DEF Peek
    <2>2. /\ attempts' \in [Procs -> 0 .. MaxAttempts]
          /\ picked' \in [Hooks -> SUBSET Injectors]
          /\ \A h \in Hooks \ {p} : picked'[h] = picked[h]
      BY <1>2 DEF Peek, FollowupsIInv, TypeOK
    <2> QED  BY <2>1, <2>2, WaitingInv DEF Label
  <1>3. ASSUME NEW p \in Procs, MakeLock(p)  PROVE FollowupsIInv'
    BY <1>3, MakeLockInv
  <1>4. ASSUME NEW p \in Procs, Exists(p) \/ Vanished(p)  PROVE FollowupsIInv'
    <2>1. CASE Exists(p)
      BY <2>1, WaitingInv DEF Exists, Label, FollowupsIInv, TypeOK
    <2>2. CASE Vanished(p)
      BY <2>2, WaitingInv DEF Vanished, Label, FollowupsIInv, TypeOK
    <2> QED  BY <1>4, <2>1, <2>2
  <1>6. ASSUME NEW p \in Procs, Wait(p)  PROVE FollowupsIInv'
    <2>1. CASE attempts[p] < MaxAttempts
      <3>1. /\ attempts' \in [Procs -> 0 .. MaxAttempts]
            /\ pc[p] = "stat" /\ Goto(p, "lock") /\ UNCHANGED <<queue, lock, shown, mine, picked>>
        BY <1>6, <2>1 DEF Wait, FollowupsIInv, TypeOK
      <3> QED  BY <3>1, WaitingInv DEF Label, FollowupsIInv, TypeOK
    <2>2. CASE ~(attempts[p] < MaxAttempts)
      <3> DEFINE label == IF p \in Hooks THEN "idle" ELSE "failed"
      <3>1. /\ pc[p] = "stat" /\ Goto(p, label)
            /\ UNCHANGED <<queue, lock, shown, mine, attempts, picked>>
        BY <1>6, <2>2 DEF Wait, Throws
      <3> QED  BY <3>1, WaitingInv DEF Label, FollowupsIInv, TypeOK
    <2> QED  BY <2>1, <2>2
  <1>8. ASSUME NEW p \in Procs, WriteOwner(p)  PROVE FollowupsIInv'
    BY <1>8, CriticalInv DEF WriteOwner, FollowupsIInv, TypeOK
  <1>10. ASSUME NEW p \in Procs, ReadQueue(p)  PROVE FollowupsIInv'
    BY <1>10, CriticalInv DEF ReadQueue, FollowupsIInv, TypeOK
  <1>11. ASSUME NEW p \in Procs, WriteQueue(p)  PROVE FollowupsIInv'
    BY <1>11, WriteQueueInv
  <1>12. ASSUME NEW p \in Procs, Fail(p)  PROVE FollowupsIInv'
    BY <1>12, CriticalInv DEF Fail, FollowupsIInv, TypeOK
  <1>13. ASSUME NEW p \in Procs, Release(p)  PROVE FollowupsIInv'
    <2> DEFINE label == IF p \in Hooks THEN "show" ELSE "audit"
    <2>1. label \in Label \ Critical /\ label \notin {"break", "dead", "done"}
      BY DEF Label, Critical
    <2>2. pc[p] = "release" /\ lock' = Unlocked /\ Goto(p, label) /\ UNCHANGED <<queue, local, shown>>
      BY <1>13 DEF Release
    <2> QED  BY <2>1, <2>2, UnlockInv
  <1>14. ASSUME NEW p \in Procs, Undo(p)  PROVE FollowupsIInv'
    <2> DEFINE label == IF p \in Hooks THEN "idle" ELSE "failed"
    <2>1. label \in Label \ Critical /\ label \notin {"break", "dead", "audit", "done"}
      BY DEF Label, Critical
    <2>2. pc[p] = "undo" /\ lock' = Unlocked /\ Goto(p, label) /\ UNCHANGED <<queue, local, shown>>
      BY <1>14 DEF Undo, Throws
    <2> QED  BY <2>1, <2>2, UnlockInv
  <1>15. ASSUME NEW p \in Procs, Show(p)  PROVE FollowupsIInv'
    BY <1>15, ShowInv
  <1>16. ASSUME NEW p \in Procs, Report(p)  PROVE FollowupsIInv'
    BY <1>16, WaitingInv DEF Report, Label, FollowupsIInv, TypeOK
  <1> QED
    BY <1>0, <1>1, <1>2, <1>3, <1>4, <1>6, <1>8, <1>10, <1>11,
       <1>12, <1>13, <1>14, <1>15, <1>16 DEF Next, Step

THEOREM FollowupsInvariant == Spec => []FollowupsIInv
  <1>1. ASSUME FollowupsIInv, [Next]_vars  PROVE FollowupsIInv'
    BY <1>1, FollowupsKept
  <1> QED  BY <1>1, FollowupsBegin, PTL DEF Spec

(* No update of the queue is lost: a follow-up reported as queued stays.   *)
THEOREM NoneLost == Spec => []QueuedKept
  <1>1. FollowupsIInv => QueuedKept
    BY DEF FollowupsIInv, Queued, QueuedKept, At
  <1> QED  BY <1>1, FollowupsInvariant, PTL

(* No hook marks a follow-up delivered that nobody prints.                 *)
THEOREM NoneSwallowed == Spec => []DeliveredInHand
  <1>1. FollowupsIInv => DeliveredInHand
    BY DEF FollowupsIInv
  <1> QED  BY <1>1, FollowupsInvariant, PTL

-----------------------------------------------------------------------------
(* The refinement: the file and the output change as FollowupQueue says.   *)
(* A follow-up is in the queue only once its process has written it; what  *)
(* a hook goes on to print was pending when it looked, and is delivered    *)
(* when it prints.                                                         *)
Before == {"idle", "lock", "stat", "owner", "read", "write"}

Unqueued == \A f \in Injectors : pc[f] \in Before => queue[f] = "none"

Batches ==
  \A h \in Hooks : pc[h] # "idle" =>
    /\ picked[h] # {}
    /\ \A f \in picked[h] : queue[f] # "none"
    /\ pc[h] \in {"release", "show"} => \A f \in picked[h] : queue[f] = "delivered"

(* Every hook that will still print a follow-up looked while it was        *)
(* pending, so none of them has printed it before.                         *)
Printing(f) == {h \in Hooks : f \in picked[h] /\ pc[h] # "idle"}

Printed ==
  \A f \in Injectors :
    /\ queue[f] # "delivered" => shown[f] = 0
    /\ queue[f] = "delivered" => shown[f] + Cardinality(Printing(f)) <= Cardinality(Hooks)

QInv == FollowupsIInv /\ Unqueued /\ Batches /\ Printed

LEMMA PrintingCount ==
  ASSUME IsFiniteSet(Hooks), NEW f
  PROVE  /\ IsFiniteSet(Printing(f)) /\ Cardinality(Printing(f)) \in Nat
         /\ Cardinality(Hooks) \in Nat /\ Cardinality(Printing(f)) <= Cardinality(Hooks)
  <1>1. Printing(f) \in SUBSET Hooks
    BY DEF Printing
  <1> QED  BY <1>1, FS_Subset, FS_CardinalityType

LEMMA QInit == IsFiniteSet(Hooks) /\ Init => QInv
  <1> SUFFICES ASSUME IsFiniteSet(Hooks), Init  PROVE QInv
    OBVIOUS
  <1>1. Unqueued /\ Batches
    BY DEF Init, Unqueued, Batches, Empty, Before
  <1>2. Printed
    BY DEF Init, Printed, Empty
  <1> QED  BY FollowupsBegin, <1>1, <1>2 DEF QInv

(* The steps that write neither the queue nor the output.                  *)
LEMMA QuietQueue ==
  ASSUME IsFiniteSet(Hooks), QInv, NEW p \in Procs, NEW label \in Label,
         pc[p] # "idle" \/ p \in Injectors,
         label # "release", label = "show" => pc[p] = "release",
         (p \in Injectors /\ label \in Before) => pc[p] \in Before,
         Goto(p, label), UNCHANGED <<queue, shown, picked>>
  PROVE  Unqueued' /\ Batches' /\ Printed'
  <1> USE DEF QInv, FollowupsIInv, TypeOK, Goto
  <1>1. Unqueued'
    BY DEF Unqueued, Before
  <1>2. Batches'
    BY DEF Batches
  <1>3. ASSUME NEW f \in Injectors  PROVE Cardinality(Printing(f)') <= Cardinality(Printing(f))
    <2>1. Printing(f)' \in SUBSET Printing(f)
      BY DEF Printing
    <2> QED  BY <2>1, PrintingCount, FS_Subset
  <1>4. Printed'
    <2> SUFFICES ASSUME NEW f \in Injectors, queue[f] = "delivered"
                 PROVE  shown[f] + Cardinality(Printing(f)') <= Cardinality(Hooks)
      BY DEF Printed
    <2>1. Cardinality(Printing(f)') \in Nat
      <3>1. Printing(f)' \in SUBSET Hooks
        BY DEF Printing
      <3> QED  BY <3>1, FS_Subset, FS_CardinalityType
    <2> QED  BY <1>3, <2>1, PrintingCount DEF Printed
  <1> QED  BY <1>1, <1>2, <1>4

LEMMA PeekQueue ==
  ASSUME IsFiniteSet(Hooks), QInv, NEW h \in Procs, Peek(h)
  PROVE  Unqueued' /\ Batches' /\ Printed'
  <1> USE DEF QInv, FollowupsIInv, TypeOK, Goto, Peek, At
  <1>1. Unqueued'
    BY DEF Unqueued, Before
  <1>2. Batches'
    BY DEF Batches
  <1>3. ASSUME NEW f \in Injectors, queue[f] = "delivered"  PROVE Printing(f)' = Printing(f)
    BY <1>3 DEF Printing
  <1>4. Printed'
    BY <1>3 DEF Printed
  <1> QED  BY <1>1, <1>2, <1>4

(* What a process writes: its record at the end, or its batch.             *)
LEMMA Writes ==
  ASSUME QInv, NEW p \in Procs, WriteQueue(p)
  PROVE  /\ p \in Injectors => queue[p] = "none" /\ queue' = [queue EXCEPT ![p] = "pending"]
         /\ p \in Hooks =>
              queue' = [f \in Injectors |-> IF f \in picked[p] /\ queue[f] = "pending"
                                            THEN "delivered" ELSE queue[f]]
  <1> USE DEF QInv, FollowupsIInv, TypeOK, WriteQueue, At
  <1>1. mine[p] = queue /\ queue' = Changed(p)
    BY DEF FreshCopy
  <1>2. p \in Injectors => queue[p] = "none"
    BY DEF Unqueued, Before
  <1> QED  BY <1>1, <1>2 DEF Changed

LEMMA WriteQueueQueue ==
  ASSUME IsFiniteSet(Hooks), QInv, NEW p \in Procs, WriteQueue(p)
  PROVE  Unqueued' /\ Batches' /\ Printed'
  <1> USE DEF QInv, FollowupsIInv, TypeOK
  <1>1. /\ pc[p] = "write" /\ pc' = [pc EXCEPT ![p] = "release"] /\ picked' = picked
        /\ shown' = shown
    BY DEF WriteQueue, At, Goto, local
  <1>2. Unqueued'
    BY <1>1, Writes DEF Unqueued, Before
  <1>3. /\ \A f \in Injectors : queue[f] # "none" => queue'[f] # "none"
        /\ \A f \in Injectors : queue[f] = "delivered" => queue'[f] = "delivered"
        /\ p \in Hooks => \A f \in picked[p] : queue[f] # "none" => queue'[f] = "delivered"
    BY Writes DEF Status
  <1>4. Batches'
    BY <1>1, <1>3 DEF Batches
  <1>5. ASSUME NEW f \in Injectors  PROVE Printing(f)' = Printing(f)
    BY <1>1 DEF Printing
  <1>6. ASSUME NEW f \in Injectors, queue'[f] # "delivered"  PROVE shown'[f] = 0
    BY <1>1, <1>3, <1>6 DEF Printed
  <1>7. ASSUME NEW f \in Injectors, queue'[f] = "delivered"
        PROVE  shown'[f] + Cardinality(Printing(f)') <= Cardinality(Hooks)
    BY <1>1, <1>3, <1>5, PrintingCount DEF Printed
  <1> QED  BY <1>2, <1>4, <1>6, <1>7 DEF Printed

LEMMA ShowQueue ==
  ASSUME IsFiniteSet(Hooks), QInv, NEW h \in Procs, Show(h)
  PROVE  Unqueued' /\ Batches' /\ Printed'
  <1> USE DEF QInv, FollowupsIInv, TypeOK
  <1>1. /\ h \in Hooks /\ pc[h] = "show" /\ pc' = [pc EXCEPT ![h] = "idle"]
        /\ picked' = picked /\ queue' = queue
        /\ shown' = [f \in Injectors |-> IF f \in picked[h] THEN shown[f] + 1 ELSE shown[f]]
    BY DEF Show, At, Goto, local
  <1>2. Unqueued'
    BY <1>1 DEF Unqueued, Before
  <1>3. Batches'
    BY <1>1 DEF Batches
  <1>4. ASSUME NEW f \in Injectors, queue[f] # "delivered"  PROVE shown'[f] = 0
    BY <1>1, <1>4 DEF Printed, Batches
  <1>5. ASSUME NEW f \in Injectors, queue[f] = "delivered"
        PROVE  shown'[f] + Cardinality(Printing(f)') <= Cardinality(Hooks)
    <2>1. Printing(f)' = Printing(f) \ {h} /\ (h \in Printing(f) <=> f \in picked[h])
      BY <1>1 DEF Printing
    <2>2. Cardinality(Printing(f) \ {h}) =
            IF h \in Printing(f) THEN Cardinality(Printing(f)) - 1 ELSE Cardinality(Printing(f))
      BY PrintingCount, FS_RemoveElement
    <2>3. shown[f] + Cardinality(Printing(f)) <= Cardinality(Hooks)
      BY <1>5 DEF Printed
    <2>4. shown'[f] = IF f \in picked[h] THEN shown[f] + 1 ELSE shown[f]
      BY <1>1
    <2> QED  BY <2>1, <2>2, <2>3, <2>4, PrintingCount
  <1> QED  BY <1>1, <1>2, <1>3, <1>4, <1>5 DEF Printed

LEMMA QNext == ASSUME IsFiniteSet(Hooks), QInv, [Next]_vars  PROVE QInv'
  <1> USE DEF Goto, At
  <1>1. FollowupsIInv'
    BY FollowupsKept DEF QInv
  <1>2. CASE UNCHANGED vars
    <2>1. \A f \in Injectors : Printing(f)' = Printing(f)
      BY <1>2 DEF vars, Printing
    <2> QED  BY <1>1, <1>2, <2>1 DEF vars, QInv, Unqueued, Batches, Printed
  <1>3. ASSUME NEW p \in Procs, Inject(p)  PROVE QInv'
    BY <1>1, <1>3, QuietQueue DEF Inject, local, Label, Before, QInv
  <1>4. ASSUME NEW p \in Procs, Peek(p)  PROVE QInv'
    BY <1>1, <1>4, PeekQueue DEF QInv
  <1>5. ASSUME NEW p \in Procs, MakeLock(p) \/ Exists(p) \/ Vanished(p) \/ WriteOwner(p)
        PROVE  QInv'
    <2>1. PICK label \in {"owner", "stat", "lock", "read"} :
            /\ Goto(p, label) /\ UNCHANGED <<queue, shown, picked>>
            /\ pc[p] # "idle" /\ pc[p] \in Before
      BY <1>5 DEF MakeLock, Exists, Vanished, WriteOwner, local, Before
    <2> QED  BY <1>1, <2>1, QuietQueue DEF Label, Before, QInv
  <1>6. ASSUME NEW p \in Procs, Wait(p) \/ Undo(p) \/ Report(p) \/ ReadQueue(p)  PROVE QInv'
    <2>1. PICK label \in {"lock", "idle", "failed", "done", "write"} :
            /\ Goto(p, label) /\ UNCHANGED <<queue, shown, picked>> /\ pc[p] # "idle"
            /\ p \in Injectors /\ label \in Before => pc[p] \in Before
      BY <1>6 DEF Wait, Throws, Undo, Report, ReadQueue, local, Before
    <2> QED  BY <1>1, <2>1, QuietQueue DEF Label, QInv
  <1>7. ASSUME NEW p \in Procs, WriteQueue(p)  PROVE QInv'
    BY <1>1, <1>7, WriteQueueQueue DEF QInv
  <1>8. ASSUME NEW p \in Procs, Fail(p) \/ Release(p)  PROVE QInv'
    <2>1. PICK label \in {"undo", "show", "audit"} :
            /\ Goto(p, label) /\ UNCHANGED <<queue, shown, picked>> /\ pc[p] # "idle"
            /\ label = "show" => pc[p] = "release"
      BY <1>8 DEF Fail, Release, local
    <2> QED  BY <1>1, <2>1, QuietQueue DEF Label, Before, QInv
  <1>9. ASSUME NEW p \in Procs, Show(p)  PROVE QInv'
    BY <1>1, <1>9, ShowQueue DEF QInv
  <1> QED  BY <1>2, <1>3, <1>4, <1>5, <1>6, <1>7, <1>8, <1>9 DEF Next, Step

(* An injection is one abstract step, when the file is renamed; so is a    *)
(* hook's marking of its batch, unless another hook has marked all of it;  *)
(* and so is its answer.  No other step can be seen.                       *)
LEMMA StepRefines ==
  ASSUME IsFiniteSet(Hooks), QInv, [Next]_vars
  PROVE  [Abstract!Next]_(Abstract!qvars)
  <1> USE DEF QInv, FollowupsIInv, TypeOK
  <1>1. ASSUME NEW p \in Injectors, WriteQueue(p)  PROVE Abstract!Inject(p)
    <2>1. shown' = shown
      BY <1>1 DEF WriteQueue
    <2> QED  BY <1>1, <2>1, Writes DEF Abstract!Inject
  <1>2. ASSUME NEW h \in Hooks, WriteQueue(h), queue' # queue
        PROVE  \E batch \in SUBSET Injectors : Abstract!Deliver(batch)
    <2> DEFINE batch == {f \in picked[h] : queue[f] = "pending"}
    <2>1. shown' = shown
      BY <1>2 DEF WriteQueue
    <2>2. queue' = [f \in Injectors |-> IF f \in batch THEN "delivered" ELSE queue[f]]
      <3>1. queue' = [f \in Injectors |-> IF f \in picked[h] /\ queue[f] = "pending"
                                         THEN "delivered" ELSE queue[f]]
        BY <1>2, Writes
      <3>2. \A f \in Injectors : f \in batch <=> f \in picked[h] /\ queue[f] = "pending"
        OBVIOUS
      <3> QED  BY <3>1, <3>2
    <2>3. batch # {}
      <3> SUFFICES ASSUME batch = {}  PROVE queue' = queue
        BY <1>2
      <3>1. queue' = [f \in Injectors |-> queue[f]]
        BY <2>2
      <3> QED  BY <3>1
    <2>4. batch \in SUBSET Injectors
      OBVIOUS
    <2>5. Abstract!Deliver(batch)
      BY <2>1, <2>3, <2>2 DEF Abstract!Deliver
    <2> QED  BY <2>4, <2>5
  <1>3. ASSUME NEW h \in Procs, Show(h)
        PROVE  \E batch \in SUBSET Injectors : Abstract!Show(batch)
    <2>1. /\ h \in Hooks /\ pc[h] = "show" /\ queue' = queue
          /\ shown' = [f \in Injectors |-> IF f \in picked[h] THEN shown[f] + 1 ELSE shown[f]]
      BY <1>3 DEF Show, At
    <2>2. picked[h] # {} /\ \A f \in picked[h] : queue[f] = "delivered"
      BY <2>1 DEF Batches
    <2>3. ASSUME NEW f \in picked[h]  PROVE shown[f] < Cardinality(Hooks)
      <3>1. h \in Printing(f)
        BY <2>1 DEF Printing
      <3>2. Cardinality(Printing(f)) # 0
        BY <3>1, PrintingCount, FS_EmptySet
      <3>3. shown[f] + Cardinality(Printing(f)) <= Cardinality(Hooks) /\ shown[f] \in Nat
        BY <2>1, <2>2 DEF Printed
      <3>4. Cardinality(Printing(f)) \in Nat /\ Cardinality(Hooks) \in Nat
        BY PrintingCount
      <3> HIDE DEF QInv, FollowupsIInv, TypeOK
      <3> QED  BY <3>2, <3>3, <3>4, SMT
    <2>4. Abstract!Show(picked[h])
      BY <2>1, <2>2, <2>3 DEF Abstract!Show
    <2> QED  BY <2>1, <2>4
  <1>4. ASSUME NEW p \in Procs,
               \/ Inject(p) \/ Peek(p) \/ MakeLock(p) \/ Exists(p) \/ Vanished(p) \/ Wait(p)
               \/ WriteOwner(p) \/ ReadQueue(p) \/ Release(p) \/ Undo(p) \/ Report(p) \/ Fail(p)
        PROVE  UNCHANGED <<queue, shown>>
    BY <1>4 DEF Inject, Peek, MakeLock, Exists, Vanished, Wait, WriteOwner, ReadQueue,
                Release, Undo, Report, Fail, Throws, local
  <1>5. CASE UNCHANGED vars
    BY <1>5 DEF vars, Abstract!qvars
  <1>6. ASSUME NEW p \in Procs, WriteQueue(p)  PROVE [Abstract!Next]_(Abstract!qvars)
    <2>1. CASE p \in Injectors
      BY <1>1, <1>6, <2>1 DEF Abstract!Next
    <2>2. CASE p \in Hooks /\ queue' # queue
      BY <1>2, <1>6, <2>2 DEF Abstract!Next
    <2>3. CASE queue' = queue
      BY <1>6, <2>3 DEF WriteQueue, Abstract!qvars
    <2> QED  BY <2>1, <2>2, <2>3
  <1>7. ASSUME NEW p \in Procs, Show(p)  PROVE Abstract!Next
    BY <1>3, <1>7 DEF Abstract!Next
  <1> QED  BY <1>4, <1>5, <1>6, <1>7 DEF Next, Step, Abstract!qvars

(* The safety part of Implements: the file and the output behave as        *)
(* FollowupQueue, for any number of injecting processes and of hooks.  In  *)
(* particular no follow-up is marked delivered twice or printed unmarked,  *)
(* and no hook prints it twice (src/exec/followup.ts).                     *)
THEOREM QueueRefines ==
  ASSUME IsFiniteSet(Hooks)
  PROVE  Spec => Abstract!Init /\ [][Abstract!Next]_(Abstract!qvars)
  <1>1. Init => QInv /\ Abstract!Init
    BY QInit DEF Init, Abstract!Init, Empty
  <1>2. QInv /\ [Next]_vars => QInv'
    BY QNext
  <1>3. QInv /\ [Next]_vars => [Abstract!Next]_(Abstract!qvars)
    BY StepRefines
  <1> QED  BY <1>1, <1>2, <1>3, PTL DEF Spec

-----------------------------------------------------------------------------
(* When a goal that waits for a verdict is complete only on a pass of its  *)
(* own: for performance-goal always, whatever the processes do and however *)
(* often the goal is created again, because its verdict is in the goal     *)
(* file; for autoresearch-goal as long as one process works at a time and  *)
(* no goal is created in the place of another.  The run goal_stale shows   *)
(* that the second condition is needed.                                    *)

(* A goal about to be written as complete was read with its pass.          *)
VerdictInGoal ==
  /\ goal.status = "complete" => goal.verdict = "pass"
  /\ \A p \in Processes :
       command[p].pc \in {"gate", "write"} /\ command[p].goal.status = "complete"
         => command[p].goal.verdict = "pass"

Goals == [status : Statuses \cup {"none"}, verdict : Verdicts \cup {"none"}, made : Nat,
          proof : Nat, alone : BOOLEAN]
Asks == [pc : {"idle", "gate", "write", "completion", "append"}, goal : Goals,
         verdict : Verdicts \cup {"none"}, alone : BOOLEAN]

GateShape ==
  /\ goal \in Goals
  /\ command \in [Processes -> Asks]
  /\ completion \in [verdict : Verdicts \cup {"none"}, made : Nat]
  /\ past \in [made : Nat, passed : SUBSET Nat]

(* What the commands put in the place of a process is a command.           *)
LEMMA AskedShapes ==
  /\ NoGoal \in Goals /\ Quiet \in Asks
  /\ \A status \in Statuses \cup {"none"} : LastWrite(status) \in Asks
<1>1. NoGoal \in Goals
  BY DEF NoGoal, Goals, Verdicts
<1>2. Quiet \in Asks
  BY <1>1 DEF Quiet, Asks, Verdicts
<1>3. ASSUME NEW status \in Statuses \cup {"none"} PROVE LastWrite(status) \in Asks
  <2>1. [NoGoal EXCEPT !.status = status] \in Goals
    BY <1>1 DEF Goals
  <2> QED BY <1>2, <2>1 DEF LastWrite, Asks
<1> QED BY <1>1, <1>2, <1>3

LEMMA BegunShape ==
  ASSUME GateShape, NEW p \in Processes, NEW call \in Asks, Begin(p, call)
  PROVE  command' \in [Processes -> Asks]
<1>1. \A q \in Processes : [command[q] EXCEPT !.alone = FALSE] \in Asks
  BY DEF GateShape, Asks
<1> QED BY <1>1 DEF Begin

LEMMA ShapeKept == GateShape /\ [GateNext]_gateVars => GateShape'
<1> SUFFICES ASSUME GateShape, [GateNext]_gateVars PROVE GateShape'
  OBVIOUS
<1>0. goal \in Goals /\ command \in [Processes -> Asks] /\ past.made \in Nat /\ past.passed \in SUBSET Nat
  BY DEF GateShape
<1>1. ASSUME NEW p \in Processes, NEW force \in Forces, Create(p, force) PROVE GateShape'
  <2> DEFINE made == [NoGoal EXCEPT !.status = "created", !.made = past.made + 1]
             call == [Quiet EXCEPT !.pc = "write", !.goal = made]
  <2>0. past.made + 1 \in Nat /\ "created" \in Statuses \cup {"none"} /\ NoGoal \in Goals
    BY <1>0, AskedShapes DEF Statuses
  <2>1. made \in Goals
    <3> HIDE DEF NoGoal, Statuses, Verdicts
    <3> QED BY <2>0 DEF Goals
  <2>2. call \in Asks
    BY <2>1, AskedShapes DEF Asks
  <2>3. Begin(p, call) /\ past' = [past EXCEPT !.made = @ + 1] /\ UNCHANGED <<goal, completion>>
    BY <1>1 DEF Create
  <2> HIDE DEF call
  <2>4. command' \in [Processes -> Asks]
    BY <2>2, <2>3, BegunShape
  <2> QED BY <2>3, <2>4 DEF GateShape
<1>2. ASSUME NEW p \in Processes, Handoff(p) PROVE GateShape'
  <2> DEFINE first == [Quiet EXCEPT !.pc = "write", !.goal = [goal EXCEPT !.status = "in_progress"]]
             call == IF goal.status = "created" THEN first ELSE LastWrite(goal.status)
  <2>1. [goal EXCEPT !.status = "in_progress"] \in Goals /\ goal.status \in Statuses \cup {"none"}
    BY <1>0 DEF Goals, Statuses
  <2>2. first \in Asks
    BY <2>1, AskedShapes DEF Asks
  <2>3. call \in Asks
    <3> HIDE DEF first
    <3> QED BY <2>1, <2>2, AskedShapes
  <2>4. Begin(p, call) /\ UNCHANGED <<goal, completion, past>>
    BY <1>2 DEF Handoff
  <2> HIDE DEF call
  <2> QED BY <2>3, <2>4, BegunShape DEF GateShape
<1>3. ASSUME NEW p \in Processes, NEW verdict \in Verdicts, Checkpoint(p, verdict) PROVE GateShape'
  <2> DEFINE kept == IF Workflow = "performance" THEN verdict ELSE goal.verdict
             judged == [goal EXCEPT !.status = StatusOf(verdict), !.verdict = kept]
             call == [pc |-> "write", verdict |-> verdict, alone |-> FALSE, goal |-> judged]
  <2>1. StatusOf(verdict) \in Statuses \cup {"none"} /\ kept \in Verdicts \cup {"none"}
    BY <1>0 DEF StatusOf, Statuses, Goals
  <2> HIDE DEF kept
  <2>2. judged \in Goals
    BY <1>0, <2>1 DEF Goals
  <2>3. call \in Asks
    <3> HIDE DEF judged
    <3> QED BY <2>2 DEF Asks
  <2>4. Begin(p, call) /\ UNCHANGED <<goal, completion, past>>
    BY <1>3 DEF Checkpoint, kept
  <2> HIDE DEF call
  <2> QED BY <2>3, <2>4, BegunShape DEF GateShape
<1>4. ASSUME NEW p \in Processes, ReadForCompletion(p) PROVE GateShape'
  <2> DEFINE others == \A q \in Processes \ {p} : Does(q, "idle")
             call == [pc |-> "gate", goal |-> goal, verdict |-> "none", alone |-> others]
  <2>1. others \in BOOLEAN
    OBVIOUS
  <2>2. call \in Asks
    <3> HIDE DEF others
    <3> QED BY <1>0, <2>1 DEF Asks
  <2>3. Begin(p, call) /\ UNCHANGED <<goal, completion, past>>
    BY <1>4 DEF ReadForCompletion
  <2> HIDE DEF call
  <2> QED BY <2>2, <2>3, BegunShape DEF GateShape
<1>5. ASSUME NEW p \in Processes, Complete(p) PROVE GateShape'
  <2> DEFINE passed == [command[p] EXCEPT !.pc = "write", !.goal.status = "complete", !.goal.proof = completion.made]
             new == IF Passed(p) THEN passed ELSE Quiet
  <2>1. command[p] \in Asks /\ command[p].goal \in Goals /\ completion.made \in Nat
    BY <1>0 DEF GateShape, Asks
  <2>2. passed \in Asks
    BY <2>1 DEF Asks, Goals, Statuses
  <2>3. new \in Asks
    <3> HIDE DEF passed
    <3> QED BY <2>2, AskedShapes
  <2>4. command' = [command EXCEPT ![p] = new] /\ UNCHANGED <<goal, completion, past>>
    BY <1>5 DEF Complete
  <2> HIDE DEF new
  <2> QED BY <1>0, <2>3, <2>4 DEF GateShape
<1>6. ASSUME NEW p \in Processes, WriteGoal(p) PROVE GateShape'
  <2> DEFINE next == IF Workflow = "autoresearch" /\ command[p].verdict # "none"
                     THEN [command[p] EXCEPT !.pc = "completion"]
                     ELSE LastWrite(command[p].goal.status)
  <2>1. command[p] \in Asks /\ command[p].goal \in Goals /\ command[p].alone \in BOOLEAN
        /\ command[p].goal.status \in Statuses \cup {"none"}
    BY <1>0 DEF Asks, Goals
  <2>2. [command[p] EXCEPT !.pc = "completion"] \in Asks
    BY <2>1 DEF Asks
  <2>3. next \in Asks
    BY <2>1, <2>2, AskedShapes
  <2>4. command' = [command EXCEPT ![p] = next] /\ UNCHANGED <<completion, past>>
        /\ goal' = [command[p].goal EXCEPT !.alone = command[p].alone]
    BY <1>6 DEF WriteGoal
  <2>5. goal' \in Goals
    BY <2>1, <2>4 DEF Goals
  <2> HIDE DEF next
  <2> QED BY <1>0, <2>3, <2>4, <2>5 DEF GateShape
<1>7. ASSUME NEW p \in Processes, WriteCompletion(p) PROVE GateShape'
  <2>1. command[p].goal.status \in Statuses \cup {"none"} /\ command[p].goal.made \in Nat
        /\ command[p].verdict \in Verdicts \cup {"none"}
    BY <1>0 DEF Asks, Goals
  <2> DEFINE next == LastWrite(command[p].goal.status)
             recorded == IF command[p].verdict = "pass" THEN past.passed \cup {command[p].goal.made} ELSE past.passed
  <2>2. next \in Asks
    BY <2>1, AskedShapes
  <2>3. recorded \in SUBSET Nat
    BY <1>0, <2>1
  <2>4. command' = [command EXCEPT ![p] = next] /\ goal' = goal /\ past' = [past EXCEPT !.passed = recorded]
        /\ completion' = [verdict |-> command[p].verdict, made |-> command[p].goal.made]
    BY <1>7 DEF WriteCompletion
  <2> HIDE DEF next, recorded
  <2>5. past' \in [made : Nat, passed : SUBSET Nat]
    BY <2>3, <2>4 DEF GateShape
  <2> QED BY <1>0, <2>1, <2>2, <2>4, <2>5 DEF GateShape
<1>8. ASSUME NEW p \in Processes, AppendLedger(p) \/ Killed(p) PROVE GateShape'
  BY <1>0, <1>8, AskedShapes DEF AppendLedger, Killed, GateShape
<1>9. CASE UNCHANGED gateVars
  BY <1>9 DEF gateVars, GateShape
<1> QED BY <1>1, <1>2, <1>3, <1>4, <1>5, <1>6, <1>7, <1>8, <1>9 DEF GateNext, Asked

-----------------------------------------------------------------------------
(* performance-goal.                                                       *)
LEMMA VerdictKept ==
  ASSUME Workflow = "performance"
  PROVE  GateShape /\ VerdictInGoal /\ [GateNext]_gateVars => VerdictInGoal'
<1> SUFFICES ASSUME GateShape, VerdictInGoal, [GateNext]_gateVars PROVE VerdictInGoal'
  OBVIOUS
<1>0. goal \in Goals /\ command \in [Processes -> Asks]
  BY DEF GateShape
<1>1. ASSUME NEW p \in Processes, NEW call \in Asks, Begin(p, call), goal' = goal,
             call.pc \in {"gate", "write"} /\ call.goal.status = "complete" => call.goal.verdict = "pass"
      PROVE  VerdictInGoal'
  BY <1>0, <1>1 DEF VerdictInGoal, Begin, Asks
<1>2. ASSUME NEW p \in Processes, NEW call, command' = [command EXCEPT ![p] = call], goal' = goal,
             call.pc \in {"gate", "write"} /\ call.goal.status = "complete" => call.goal.verdict = "pass"
      PROVE  VerdictInGoal'
  BY <1>0, <1>2 DEF VerdictInGoal
<1>3. ASSUME NEW p \in Processes, Asked(p) PROVE VerdictInGoal'
  <2>1. ASSUME NEW force \in Forces, Create(p, force) PROVE VerdictInGoal'
    BY <1>0, <2>1 DEF Create, Begin, VerdictInGoal, Quiet, NoGoal, Asks
  <2>2. CASE Handoff(p)
    BY <1>0, <2>2 DEF Handoff, Begin, VerdictInGoal, Quiet, LastWrite, Asks, Goals
  <2>3. ASSUME NEW verdict \in Verdicts, Checkpoint(p, verdict) PROVE VerdictInGoal'
    BY <1>0, <2>3 DEF Checkpoint, Begin, VerdictInGoal, StatusOf, Verdicts, Asks, Goals
  <2>4. CASE ReadForCompletion(p)
    BY <1>0, <2>4 DEF ReadForCompletion, Begin, VerdictInGoal, Asks
  <2> QED BY <1>3, <2>1, <2>2, <2>3, <2>4 DEF Asked
<1>4. ASSUME NEW p \in Processes, Complete(p) PROVE VerdictInGoal'
  <2>1. command[p] \in Asks /\ command[p].goal \in Goals
    BY <1>0 DEF Asks
  <2>2. CASE Passed(p)
    <3> DEFINE call == [command[p] EXCEPT !.pc = "write", !.goal.status = "complete", !.goal.proof = completion.made]
    <3>1. call.goal.verdict = "pass"
      BY <2>1, <2>2 DEF Passed, Asks, Goals
    <3>2. command' = [command EXCEPT ![p] = call] /\ goal' = goal
      BY <1>4, <2>2 DEF Complete
    <3> HIDE DEF call
    <3> QED BY <1>2, <3>1, <3>2
  <2>3. CASE ~Passed(p)
    <3>1. command' = [command EXCEPT ![p] = Quiet] /\ goal' = goal /\ Quiet.pc = "idle"
      BY <1>4, <2>3 DEF Complete, Quiet
    <3> HIDE DEF Quiet
    <3> QED BY <1>2, <3>1
  <2> QED BY <2>2, <2>3
<1>5. ASSUME NEW p \in Processes, WriteGoal(p) PROVE VerdictInGoal'
  <2>1. /\ command[p] \in Asks /\ command[p].goal \in Goals /\ command[p].pc = "write"
        /\ goal' = [command[p].goal EXCEPT !.alone = command[p].alone]
        /\ command' = [command EXCEPT ![p] = LastWrite(command[p].goal.status)]
    BY <1>0, <1>5 DEF WriteGoal, Does, Asks
  <2>2. goal'.status = "complete" => goal'.verdict = "pass"
    BY <2>1 DEF VerdictInGoal, Goals
  <2>3. LastWrite(command[p].goal.status).pc = "append"
    BY DEF LastWrite, Quiet
  <2> QED BY <1>0, <2>1, <2>2, <2>3 DEF VerdictInGoal
<1>6. ASSUME NEW p \in Processes, AppendLedger(p) \/ Killed(p) PROVE VerdictInGoal'
  <2>1. command' = [command EXCEPT ![p] = Quiet] /\ goal' = goal /\ Quiet.pc = "idle"
    BY <1>6 DEF AppendLedger, Killed, Quiet
  <2> HIDE DEF Quiet
  <2> QED BY <1>2, <2>1
<1>7. CASE UNCHANGED gateVars
  BY <1>7 DEF gateVars, VerdictInGoal
<1> QED BY <1>3, <1>4, <1>5, <1>6, <1>7 DEF GateNext

LEMMA GateBegins == GateInit => GateShape /\ VerdictInGoal
BY AskedShapes DEF GateInit, GateShape, VerdictInGoal, NoGoal, Quiet, Verdicts

(* A performance goal is complete only on its own passing checkpoint       *)
(* (completePerformanceGoal, src/performance-goal/artifacts.ts:258).       *)
THEOREM PerformanceGate ==
  ASSUME Workflow = "performance"
  PROVE  GateSpec => []GateHolds
<1>1. VerdictInGoal => GateHolds
  BY DEF VerdictInGoal, GateHolds
<1> QED BY <1>1, GateBegins, ShapeKept, VerdictKept, PTL DEF GateSpec

-----------------------------------------------------------------------------
(* autoresearch-goal, by any number of processes, with and without --force. *)

(* Every goal has a number that was given out, a pass in completion.json   *)
(* was recorded, and a complete goal was completed on a recorded pass.     *)
Recorded ==
  /\ goal.status # "none" => goal.made \in 1..past.made
  /\ completion.verdict # "none" => completion.made \in 1..past.made
  /\ past.passed \subseteq 1..past.made
  /\ completion.verdict = "pass" => completion.made \in past.passed
  /\ goal.status = "complete" => goal.proof \in past.passed
  /\ \A p \in Processes :
       command[p].pc \in {"gate", "write", "completion"} =>
         /\ command[p].goal.status # "none" /\ command[p].goal.made \in 1..past.made
         /\ command[p].goal.status = "complete" => command[p].goal.proof \in past.passed

(* A complete that is alone meets no other command, and as long as its     *)
(* goal stands no verdict is under way.                                    *)
Undisturbed ==
  /\ \A p \in Processes :
       /\ command[p].alone => \A q \in Processes \ {p} : Does(q, "idle")
       /\ Does(p, "write") /\ command[p].goal.status = "complete" /\ command[p].alone
            => completion.verdict = "pass" /\ completion.made = command[p].goal.proof
       /\ command[p].pc \in {"write", "completion"} /\ command[p].goal.status = "complete"
            => command[p].verdict = "none"
       /\ Does(p, "completion") => command[p].verdict # "none"
       /\ Does(p, "gate") => command[p].verdict = "none"
  /\ goal.status = "complete" /\ goal.alone =>
       /\ completion.verdict = "pass" /\ completion.made = goal.proof
       /\ \A p \in Processes : command[p].pc \in {"write", "completion"} => command[p].verdict = "none"

LEMMA RecordedKept ==
  ASSUME Workflow = "autoresearch"
  PROVE  GateShape /\ Recorded /\ [GateNext]_gateVars => Recorded'
<1> SUFFICES ASSUME GateShape, Recorded, [GateNext]_gateVars PROVE Recorded'
  OBVIOUS
<1>0. /\ goal \in Goals /\ command \in [Processes -> Asks] /\ past.made \in Nat
      /\ past \in [made : Nat, passed : SUBSET Nat]
      /\ completion \in [verdict : Verdicts \cup {"none"}, made : Nat]
  BY DEF GateShape
<1> DEFINE Good(call) ==
      call.pc \in {"gate", "write", "completion"} =>
         /\ call.goal.status # "none" /\ call.goal.made \in 1..past.made
         /\ call.goal.status = "complete" => call.goal.proof \in past.passed
<1>1. ASSUME NEW p \in Processes, NEW call, Begin(p, call), Good(call), UNCHANGED <<goal, completion, past>>
      PROVE  Recorded'
  BY <1>0, <1>1 DEF Recorded, Begin, Asks
<1>2. ASSUME NEW p \in Processes, NEW call, command' = [command EXCEPT ![p] = call], Good(call),
             UNCHANGED <<goal, completion, past>>
      PROVE  Recorded'
  BY <1>0, <1>2 DEF Recorded
<1>3. ASSUME NEW p \in Processes, NEW force \in Forces, Create(p, force) PROVE Recorded'
  <2> DEFINE call == [Quiet EXCEPT !.pc = "write",
                       !.goal = [NoGoal EXCEPT !.status = "created", !.made = past.made + 1]]
  <2>1. /\ Begin(p, call) /\ UNCHANGED <<goal, completion>>
        /\ past' = [past EXCEPT !.made = @ + 1]
    BY <1>3 DEF Create
  <2>2. past'.made = past.made + 1 /\ past'.passed = past.passed
    BY <1>0, <2>1
  <2>3. call.goal.status = "created" /\ call.goal.made = past.made + 1
    BY DEF Quiet, NoGoal
  <2> HIDE DEF call
  <2>4. \A q \in Processes : IF q = p THEN command'[q] = call
                             ELSE command'[q].pc = command[q].pc /\ command'[q].goal = command[q].goal
    BY <1>0, <2>1 DEF Begin, Asks
  <2>5. 1..past.made \subseteq 1..past'.made /\ past.made + 1 \in 1..past'.made
    BY <1>0, <2>2
  <2> QED BY <1>0, <2>1, <2>2, <2>3, <2>4, <2>5 DEF Recorded
<1>4. ASSUME NEW p \in Processes, Handoff(p) PROVE Recorded'
  <2> DEFINE call == IF goal.status = "created"
              THEN [Quiet EXCEPT !.pc = "write", !.goal = [goal EXCEPT !.status = "in_progress"]]
              ELSE LastWrite(goal.status)
  <2>1. Begin(p, call) /\ UNCHANGED <<goal, completion, past>> /\ goal.status # "none"
    BY <1>4 DEF Handoff
  <2>2. Good(call)
    BY <1>0, <2>1 DEF Recorded, Quiet, LastWrite, Goals
  <2> HIDE DEF call, Good
  <2> QED BY <1>1, <2>1, <2>2
<1>5. ASSUME NEW p \in Processes, NEW verdict \in Verdicts, Checkpoint(p, verdict) PROVE Recorded'
  <2> DEFINE judged == [goal EXCEPT !.status = StatusOf(verdict),
                             !.verdict = IF Workflow = "performance" THEN verdict ELSE @]
             call == [pc |-> "write", verdict |-> verdict, alone |-> FALSE, goal |-> judged]
  <2>1. Begin(p, call) /\ UNCHANGED <<goal, completion, past>> /\ goal.status # "none"
    BY <1>5 DEF Checkpoint
  <2>2. judged.status \notin {"none", "complete"} /\ judged.made = goal.made
    BY <1>0 DEF StatusOf, Goals
  <2> HIDE DEF judged
  <2>3. Good(call)
    BY <2>1, <2>2 DEF Recorded
  <2> HIDE DEF call, Good
  <2> QED BY <1>1, <2>1, <2>3
<1>6. ASSUME NEW p \in Processes, ReadForCompletion(p) PROVE Recorded'
  <2> DEFINE call == [pc |-> "gate", goal |-> goal, verdict |-> "none",
                      alone |-> \A q \in Processes \ {p} : Does(q, "idle")]
  <2>1. Begin(p, call) /\ UNCHANGED <<goal, completion, past>> /\ goal.status # "none"
    BY <1>6 DEF ReadForCompletion
  <2>2. Good(call)
    BY <2>1 DEF Recorded
  <2> HIDE DEF call, Good
  <2> QED BY <1>1, <2>1, <2>2
<1>7. ASSUME NEW p \in Processes, Complete(p) PROVE Recorded'
  <2>1. command[p] \in Asks /\ command[p].goal \in Goals /\ command[p].pc = "gate"
    BY <1>0, <1>7 DEF Asks, Complete, Does
  <2>2. CASE Passed(p)
    <3> DEFINE call == [command[p] EXCEPT !.pc = "write", !.goal.status = "complete", !.goal.proof = completion.made]
    <3>1. call.goal.made = command[p].goal.made /\ call.goal.status = "complete" /\ call.goal.proof = completion.made
      BY <2>1 DEF Asks, Goals
    <3>2. command' = [command EXCEPT ![p] = call] /\ UNCHANGED <<goal, completion, past>>
      BY <1>7, <2>2 DEF Complete
    <3>3. completion.made \in past.passed
      BY <1>7, <2>2 DEF Passed, Recorded
    <3> HIDE DEF call
    <3>4. Good(call)
      BY <2>1, <3>1, <3>3 DEF Recorded
    <3> HIDE DEF Good
    <3> QED BY <1>2, <3>2, <3>4
  <2>3. CASE ~Passed(p)
    <3>1. command' = [command EXCEPT ![p] = Quiet] /\ UNCHANGED <<goal, completion, past>> /\ Good(Quiet)
      BY <1>7, <2>3 DEF Complete, Quiet
    <3> HIDE DEF Quiet, Good
    <3> QED BY <1>2, <3>1
  <2> QED BY <2>2, <2>3
<1>8. ASSUME NEW p \in Processes, WriteGoal(p) PROVE Recorded'
  <2>1. /\ command[p] \in Asks /\ command[p].goal \in Goals /\ command[p].pc = "write"
        /\ goal' = [command[p].goal EXCEPT !.alone = command[p].alone]
        /\ UNCHANGED <<completion, past>>
    BY <1>0, <1>8 DEF WriteGoal, Does, Asks
  <2>2. goal'.status = command[p].goal.status /\ goal'.made = command[p].goal.made /\ goal'.proof = command[p].goal.proof
    BY <2>1 DEF Goals
  <2> DEFINE call == IF Workflow = "autoresearch" /\ command[p].verdict # "none"
                     THEN [command[p] EXCEPT !.pc = "completion"] ELSE LastWrite(command[p].goal.status)
  <2>3. command' = [command EXCEPT ![p] = call]
    BY <1>8 DEF WriteGoal
  <2>4. Good(call)
    BY <2>1 DEF Recorded, LastWrite, Quiet, Asks
  <2> HIDE DEF call
  <2>5. \A q \in Processes : Good(command'[q])
    BY <1>0, <2>3, <2>4 DEF Recorded
  <2> QED BY <2>1, <2>2, <2>5 DEF Recorded
<1>9. ASSUME NEW p \in Processes, WriteCompletion(p) PROVE Recorded'
  <2>1. /\ command[p].goal.made \in 1..past.made /\ command[p].verdict \in Verdicts \cup {"none"}
        /\ completion' = [verdict |-> command[p].verdict, made |-> command[p].goal.made]
        /\ goal' = goal /\ command' = [command EXCEPT ![p] = LastWrite(command[p].goal.status)]
    BY <1>0, <1>9 DEF WriteCompletion, Does, Asks, Recorded
  <2>2. /\ past'.made = past.made
        /\ past'.passed = IF command[p].verdict = "pass" THEN past.passed \cup {command[p].goal.made}
                          ELSE past.passed
    BY <1>0, <1>9 DEF WriteCompletion
  <2>3. LastWrite(command[p].goal.status).pc = "append"
    BY DEF LastWrite, Quiet
  <2>4. past.passed \subseteq past'.passed /\ past'.passed \subseteq 1..past.made
    BY <2>1, <2>2 DEF Recorded
  <2>5. completion'.verdict = "pass" => completion'.made \in past'.passed
    BY <2>1, <2>2
  <2> QED BY <1>0, <2>1, <2>2, <2>3, <2>4, <2>5 DEF Recorded
<1>10. ASSUME NEW p \in Processes, AppendLedger(p) \/ Killed(p) PROVE Recorded'
  <2>1. command' = [command EXCEPT ![p] = Quiet] /\ UNCHANGED <<goal, completion, past>> /\ Good(Quiet)
    BY <1>10 DEF AppendLedger, Killed, Quiet
  <2> HIDE DEF Quiet, Good
  <2> QED BY <1>2, <2>1
<1>11. CASE UNCHANGED gateVars
  BY <1>11 DEF gateVars, Recorded
<1> QED BY <1>3, <1>4, <1>5, <1>6, <1>7, <1>8, <1>9, <1>10, <1>11 DEF GateNext, Asked

LEMMA UndisturbedKept ==
  ASSUME Workflow = "autoresearch"
  PROVE  GateShape /\ Undisturbed /\ [GateNext]_gateVars => Undisturbed'
<1> SUFFICES ASSUME GateShape, Undisturbed, [GateNext]_gateVars PROVE Undisturbed'
  OBVIOUS
<1>0. /\ goal \in Goals /\ command \in [Processes -> Asks]
      /\ completion \in [verdict : Verdicts \cup {"none"}, made : Nat]
  BY DEF GateShape
(* A command that begins leaves no other one alone.                        *)
<1>1. ASSUME NEW p \in Processes, NEW call, Begin(p, call), UNCHANGED <<goal, completion>>,
             call.pc \in {"gate", "write", "append"},
             call.alone => \A q \in Processes \ {p} : Does(q, "idle"),
             call.pc = "write" => ~call.alone /\ call.goal.status # "complete",
             call.pc = "gate" => call.verdict = "none",
             call.pc = "write" => call.verdict = "none" \/ goal.status # "complete"
      PROVE  Undisturbed'
  <2>1. \A q \in Processes : IF q = p THEN command'[q] = call
          ELSE /\ command'[q].pc = command[q].pc /\ command'[q].goal = command[q].goal
               /\ command'[q].verdict = command[q].verdict /\ command'[q].alone = FALSE
    BY <1>0, <1>1 DEF Begin, Asks
  <2> QED BY <1>1, <2>1 DEF Undisturbed, Does
<1>2. ASSUME NEW p \in Processes, NEW call, command' = [command EXCEPT ![p] = call],
             UNCHANGED <<goal, completion>>, call.pc \in {"idle", "append"}, ~call.alone,
             ~Does(p, "idle")
      PROVE  Undisturbed'
  <2>1. \A q \in Processes : command'[q] = IF q = p THEN call ELSE command[q]
    BY <1>0, <1>2
  <2>2. ASSUME NEW q \in Processes, command'[q].alone
        PROVE  \A r \in Processes \ {q} : command'[r].pc = "idle"
    <3>1. q # p /\ command[q].alone
      BY <1>2, <2>1, <2>2
    <3>2. \A r \in Processes \ {q} : command[r].pc = "idle"
      BY <3>1 DEF Undisturbed, Does
    <3>3. FALSE
      BY <1>2, <3>1, <3>2 DEF Does
    <3> QED BY <3>3
  <2>3. \A q \in Processes : command'[q].alone => \A r \in Processes \ {q} : command'[r].pc = "idle"
    BY <2>2
  <2> QED BY <1>2, <2>1, <2>3 DEF Undisturbed, Does
<1>3. ASSUME NEW p \in Processes, NEW force \in Forces, Create(p, force) PROVE Undisturbed'
  <2> DEFINE call == [Quiet EXCEPT !.pc = "write",
                       !.goal = [NoGoal EXCEPT !.status = "created", !.made = past.made + 1]]
  <2>1. Begin(p, call) /\ UNCHANGED <<goal, completion>>
    BY <1>3 DEF Create
  <2>2. call.pc = "write" /\ ~call.alone /\ call.goal.status = "created" /\ call.verdict = "none"
    BY DEF Quiet, NoGoal
  <2> HIDE DEF call
  <2> QED BY <1>1, <2>1, <2>2
<1>4. ASSUME NEW p \in Processes, Handoff(p) PROVE Undisturbed'
  <2> DEFINE call == IF goal.status = "created"
              THEN [Quiet EXCEPT !.pc = "write", !.goal = [goal EXCEPT !.status = "in_progress"]]
              ELSE LastWrite(goal.status)
  <2>1. Begin(p, call) /\ UNCHANGED <<goal, completion>>
    BY <1>4 DEF Handoff
  <2>2. /\ call.pc \in {"write", "append"} /\ ~call.alone /\ call.verdict = "none"
        /\ call.pc = "write" => call.goal.status = "in_progress"
    BY <1>0 DEF Quiet, LastWrite, Goals
  <2> HIDE DEF call
  <2> QED BY <1>1, <2>1, <2>2
<1>5. ASSUME NEW p \in Processes, NEW verdict \in Verdicts, Checkpoint(p, verdict) PROVE Undisturbed'
  <2> DEFINE judged == [goal EXCEPT !.status = StatusOf(verdict),
                             !.verdict = IF Workflow = "performance" THEN verdict ELSE @]
             call == [pc |-> "write", verdict |-> verdict, alone |-> FALSE, goal |-> judged]
  <2>1. Begin(p, call) /\ UNCHANGED <<goal, completion>> /\ goal.status # "complete"
    BY <1>5 DEF Checkpoint
  <2>2. judged.status # "complete"
    BY <1>0 DEF StatusOf, Goals
  <2> HIDE DEF judged
  <2>3. call.pc = "write" /\ call.alone = FALSE /\ call.goal.status # "complete"
    BY <2>2
  <2> HIDE DEF call
  <2> QED BY <1>1, <2>1, <2>3
<1>6. ASSUME NEW p \in Processes, ReadForCompletion(p) PROVE Undisturbed'
  <2> DEFINE call == [pc |-> "gate", goal |-> goal, verdict |-> "none",
                      alone |-> \A q \in Processes \ {p} : Does(q, "idle")]
  <2>1. Begin(p, call) /\ UNCHANGED <<goal, completion>>
    BY <1>6 DEF ReadForCompletion
  <2>2. call.pc = "gate" /\ call.verdict = "none"
        /\ (call.alone => \A q \in Processes \ {p} : Does(q, "idle"))
    OBVIOUS
  <2> HIDE DEF call
  <2> QED BY <1>1, <2>1, <2>2
<1>7. ASSUME NEW p \in Processes, Complete(p) PROVE Undisturbed'
  <2>1. command[p] \in Asks /\ command[p].goal \in Goals /\ Does(p, "gate")
    BY <1>0, <1>7 DEF Asks, Complete
  <2>2. CASE Passed(p)
    <3> DEFINE call == [command[p] EXCEPT !.pc = "write", !.goal.status = "complete", !.goal.proof = completion.made]
    <3>1. /\ call.pc = "write" /\ call.goal.status = "complete" /\ call.goal.proof = completion.made
          /\ call.alone = command[p].alone /\ call.verdict = command[p].verdict
      BY <2>1 DEF Asks, Goals
    <3>2. command' = [command EXCEPT ![p] = call] /\ UNCHANGED <<goal, completion>>
      BY <1>7, <2>2 DEF Complete
    <3>3. completion.verdict = "pass"
      BY <2>2 DEF Passed
    <3> HIDE DEF call
    <3>4. \A q \in Processes : command'[q] = IF q = p THEN call ELSE command[q]
      BY <1>0, <3>2
    <3> QED BY <2>1, <3>1, <3>2, <3>3, <3>4 DEF Undisturbed, Does
  <2>3. CASE ~Passed(p)
    <3>1. command' = [command EXCEPT ![p] = Quiet] /\ UNCHANGED <<goal, completion>>
          /\ Quiet.pc = "idle" /\ ~Quiet.alone /\ ~Does(p, "idle")
      BY <1>7, <2>3 DEF Complete, Quiet, Does
    <3> HIDE DEF Quiet
    <3> QED BY <1>2, <3>1
  <2> QED BY <2>2, <2>3
<1>8. ASSUME NEW p \in Processes, WriteGoal(p) PROVE Undisturbed'
  <2>1. /\ command[p] \in Asks /\ command[p].goal \in Goals /\ Does(p, "write")
        /\ goal' = [command[p].goal EXCEPT !.alone = command[p].alone]
        /\ completion' = completion /\ command[p].alone \in BOOLEAN
    BY <1>0, <1>8 DEF WriteGoal, Asks
  <2>2. /\ goal'.status = command[p].goal.status /\ goal'.alone = command[p].alone
        /\ goal'.proof = command[p].goal.proof
    BY <2>1 DEF Goals
  <2> DEFINE call == IF Workflow = "autoresearch" /\ command[p].verdict # "none"
                     THEN [command[p] EXCEPT !.pc = "completion"] ELSE LastWrite(command[p].goal.status)
  <2>3. command' = [command EXCEPT ![p] = call]
    BY <1>8 DEF WriteGoal
  <2>4. IF command[p].verdict # "none"
        THEN /\ call.pc = "completion" /\ call.verdict = command[p].verdict
             /\ call.goal = command[p].goal /\ call.alone = command[p].alone
        ELSE call.pc = "append" /\ ~call.alone
    BY <2>1 DEF LastWrite, Quiet, Asks
  <2> HIDE DEF call
  <2>5. \A q \in Processes : command'[q] = IF q = p THEN call ELSE command[q]
    BY <1>0, <2>3
  <2>6. ASSUME goal'.status = "complete", goal'.alone
        PROVE  /\ completion.verdict = "pass" /\ completion.made = goal'.proof
               /\ \A q \in Processes : command'[q].pc \in {"write", "completion"} => command'[q].verdict = "none"
    BY <2>1, <2>2, <2>4, <2>5, <2>6 DEF Undisturbed, Does
  <2> QED BY <2>1, <2>2, <2>4, <2>5, <2>6 DEF Undisturbed, Does
<1>9. ASSUME NEW p \in Processes, WriteCompletion(p) PROVE Undisturbed'
  <2>1. /\ Does(p, "completion") /\ command[p].verdict # "none"
        /\ goal' = goal /\ command' = [command EXCEPT ![p] = LastWrite(command[p].goal.status)]
    BY <1>9 DEF WriteCompletion, Undisturbed
  <2>2. LastWrite(command[p].goal.status).pc = "append" /\ ~LastWrite(command[p].goal.status).alone
    BY DEF LastWrite, Quiet
  <2>3. ~(goal.status = "complete" /\ goal.alone)
    BY <2>1 DEF Undisturbed, Does
  <2>4. ASSUME NEW q \in Processes \ {p} PROVE ~command[q].alone
    BY <2>1, <2>4 DEF Undisturbed, Does
  <2>5. \A q \in Processes : command'[q] = IF q = p THEN LastWrite(command[p].goal.status) ELSE command[q]
    BY <1>0, <2>1
  <2> HIDE DEF LastWrite
  <2> QED BY <2>1, <2>2, <2>3, <2>4, <2>5 DEF Undisturbed, Does
<1>10. ASSUME NEW p \in Processes, AppendLedger(p) \/ Killed(p) PROVE Undisturbed'
  <2>1. command' = [command EXCEPT ![p] = Quiet] /\ UNCHANGED <<goal, completion>>
        /\ Quiet.pc = "idle" /\ ~Quiet.alone /\ ~Does(p, "idle")
    BY <1>10 DEF AppendLedger, Killed, Quiet, Does
  <2> HIDE DEF Quiet
  <2> QED BY <1>2, <2>1
<1>11. CASE UNCHANGED gateVars
  BY <1>11 DEF gateVars, Undisturbed, Does
<1> QED BY <1>3, <1>4, <1>5, <1>6, <1>7, <1>8, <1>9, <1>10, <1>11 DEF GateNext, Asked

(* Any number of processes, with and without --force and killed anywhere:  *)
(* an autoresearch goal is complete only on a pass that a verdict command  *)
(* recorded, its own where no other goal was created under the slug, and   *)
(* the one completion.json still holds where no command overlapped         *)
(* (completeAutoresearchGoal, src/autoresearch/goal.ts:230-262).           *)
THEOREM AutoresearchGate ==
  ASSUME Workflow = "autoresearch"
  PROVE  GateSpec => []GateEarned
<1>1. GateInit => Recorded /\ Undisturbed
  BY DEF GateInit, Recorded, Undisturbed, NoGoal, Quiet, Does
<1>2. GateShape /\ Recorded /\ Undisturbed => GateEarned
  <2> SUFFICES ASSUME GateShape, Recorded, Undisturbed, goal.status = "complete"
               PROVE  /\ goal.proof \in past.passed
                      /\ past.made = 1 => goal.proof = goal.made
                      /\ goal.alone => completion.verdict = "pass" /\ completion.made = goal.proof
    BY DEF GateEarned
  <2>1. goal.proof \in past.passed /\ past.passed \subseteq 1..past.made /\ goal.made \in 1..past.made
    BY DEF Recorded
  <2>2. past.made = 1 => goal.proof = goal.made
    BY <2>1
  <2> QED BY <2>1, <2>2 DEF Undisturbed
<1> QED BY <1>1, <1>2, GateBegins, ShapeKept, RecordedKept, UndisturbedKept, PTL DEF GateSpec

-----------------------------------------------------------------------------
(* What the stamp of an installation may claim, for any number of updates, *)
(* releases and installations.  The stamp is written from what was learned *)
(* two steps before; it is true all the same because either nothing moved  *)
(* in between or its writer counts as outrun.                              *)

Run == [channel : Channels \cup {"none"}, at : {"rest", "install", "setup", "stamp"},
           latest : Nat, outrun : BOOLEAN]

(* What an update that was not outrun may rely on: the version it was told *)
(* is the one npm installs, then the installed one, and that was set up.   *)
Learned(u) ==
  /\ u.channel = "stable" /\ u.latest # Unknown =>
       /\ u.at = "install" => u.latest = released
       /\ u.at \in {"setup", "stamp"} => u.latest = installed
  /\ u.at = "stamp" => installed \in completed

Claims ==
  ~stamp.doubt =>
    /\ stamp.setup \in completed \cup {Unknown}
    /\ stamp.installed \in {installed, Unknown}

StampInv ==
  /\ updater \in [Updaters -> Run]
  /\ released \in Nat
  /\ stamp = [installed |-> stamp.installed, setup |-> stamp.setup, doubt |-> stamp.doubt]
  /\ \A p \in Updaters : ~updater[p].outrun => Learned(updater[p])
  /\ Claims

LEMMA UpdatesBegin == UpdateInit => StampInv
BY DEF UpdateInit, StampInv, Run, NoUpdate, Learned, Claims, Unknown

-----------------------------------------------------------------------------
(* Whoever is under way while the package moves is outrun.                 *)
LEMMA OutrunKnows ==
  ASSUME updater \in [Updaters -> Run], NEW others \in SUBSET Updaters
  PROVE  /\ Outrun(others) \in [Updaters -> Run]
         /\ \A q \in Updaters :
              /\ Outrun(others)[q].channel = updater[q].channel
              /\ Outrun(others)[q].latest = updater[q].latest
              /\ Outrun(others)[q].at = updater[q].at
              /\ ~Outrun(others)[q].outrun => ~updater[q].outrun /\ (q \in others => updater[q].at = "rest")
              /\ q \notin others => Outrun(others)[q] = updater[q]
BY DEF Outrun, Run

(* A step of one update, and what it does to the others.                   *)
LEMMA StepKnows ==
  ASSUME updater \in [Updaters -> Run], NEW p \in Updaters,
         NEW at \in {"rest", "install", "setup", "stamp"}, NEW moved \in BOOLEAN, UpdateStep(p, at, moved)
  PROVE  /\ updater' \in [Updaters -> Run]
         /\ updater'[p] = [updater[p] EXCEPT !.at = at]
         /\ \A q \in Updaters \ {p} :
              /\ updater'[q].channel = updater[q].channel
              /\ updater'[q].latest = updater[q].latest
              /\ updater'[q].at = updater[q].at
              /\ ~updater'[q].outrun => ~updater[q].outrun /\ (moved => updater[q].at = "rest")
<1> DEFINE base == IF moved THEN Outrun(Updaters \ {p}) ELSE updater
<1>1. base \in [Updaters -> Run] /\ base[p] = updater[p]
  BY OutrunKnows
<1>2. updater' = [base EXCEPT ![p].at = at]
  BY DEF UpdateStep
<1>3. updater' \in [Updaters -> Run] /\ updater'[p] = [updater[p] EXCEPT !.at = at]
      /\ \A q \in Updaters \ {p} : updater'[q] = base[q]
  <2> HIDE DEF base
  <2> QED BY <1>1, <1>2 DEF Run
<1> QED BY <1>3, OutrunKnows

-----------------------------------------------------------------------------
LEMMA UpdateKeeps == StampInv /\ [UpdateNext]_updateVars => StampInv'
<1> SUFFICES ASSUME StampInv, [UpdateNext]_updateVars PROVE StampInv'
  OBVIOUS
<1>0. /\ updater \in [Updaters -> Run]
      /\ \A p \in Updaters : updater[p] \in Run /\ (~updater[p].outrun => Learned(updater[p]))
      /\ released \in Nat /\ Claims
      /\ stamp = [installed |-> stamp.installed, setup |-> stamp.setup, doubt |-> stamp.doubt]
  BY DEF StampInv
<1>1. ASSUME NEW p \in Updaters, NEW channel \in Channels, NEW latest \in {Unknown, released},
             BeginUpdate(p, channel, latest)
      PROVE  StampInv'
  <2>1. updater' = [updater EXCEPT ![p] = [channel |-> channel, at |-> "install", latest |-> latest,
                                          outrun |-> FALSE]]
    BY <1>1 DEF BeginUpdate
  <2>2. UNCHANGED <<released, installed, stamp, completed>>
    BY <1>1 DEF BeginUpdate
  <2> QED BY <1>0, <2>1, <2>2 DEF StampInv, Run, Learned, Claims, Unknown, Channels
<1>2. ASSUME NEW p \in Updaters, InstallPackage(p) PROVE StampInv'
  <2>1. UpdateStep(p, "setup", TRUE) /\ UNCHANGED <<released, completed>>
        /\ installed' = Wanted(updater[p].channel) /\ updater[p].at = "install"
    BY <1>2 DEF InstallPackage
  <2>2. stamp' = IF stamp.installed = installed' THEN stamp ELSE [stamp EXCEPT !.installed = installed']
    BY <1>2 DEF InstallPackage, Postinstalled
  <2>3. updater' \in [Updaters -> Run] /\ updater'[p] = [updater[p] EXCEPT !.at = "setup"]
    BY <1>0, <2>1, StepKnows
  <2>4. \A q \in Updaters \ {p} : ~updater'[q].outrun => updater'[q].at = "rest"
    BY <1>0, <2>1, StepKnows
  <2>5. ~updater'[p].outrun => Learned(updater[p])'
    BY <1>0, <2>1, <2>3 DEF Learned, Wanted, Run
  <2>6. Claims' /\ stamp' = [installed |-> stamp'.installed, setup |-> stamp'.setup, doubt |-> stamp'.doubt]
    BY <1>0, <2>1, <2>2 DEF Claims
  <2> QED BY <1>0, <2>1, <2>3, <2>4, <2>5, <2>6 DEF StampInv, Learned
<1>3. ASSUME NEW p \in Updaters, RefreshSetup(p) PROVE StampInv'
  <2>1. UpdateStep(p, "stamp", FALSE) /\ UNCHANGED <<released, installed, stamp>>
        /\ completed' = completed \cup {installed} /\ updater[p].at = "setup"
    BY <1>3 DEF RefreshSetup
  <2>2. /\ updater' \in [Updaters -> Run] /\ updater'[p] = [updater[p] EXCEPT !.at = "stamp"]
        /\ \A q \in Updaters \ {p} : /\ updater'[q].channel = updater[q].channel
                                     /\ updater'[q].latest = updater[q].latest
                                     /\ updater'[q].at = updater[q].at
                                     /\ ~updater'[q].outrun => ~updater[q].outrun
    BY <1>0, <2>1, StepKnows
  <2> QED BY <1>0, <2>1, <2>2 DEF StampInv, Learned, Claims, Run
<1>4. ASSUME NEW p \in Updaters, WriteStamp(p) PROVE StampInv'
  <2>1. UpdateStep(p, "rest", FALSE) /\ UNCHANGED <<released, installed, completed>> /\ updater[p].at = "stamp"
        /\ stamp' = [installed |-> StampOf(updater[p]), setup |-> StampOf(updater[p]),
                     doubt |-> updater[p].outrun]
    BY <1>4 DEF WriteStamp
  <2>2. /\ updater' \in [Updaters -> Run] /\ updater'[p] = [updater[p] EXCEPT !.at = "rest"]
        /\ \A q \in Updaters \ {p} : /\ updater'[q].channel = updater[q].channel
                                     /\ updater'[q].latest = updater[q].latest
                                     /\ updater'[q].at = updater[q].at
                                     /\ ~updater'[q].outrun => ~updater[q].outrun
    BY <1>0, <2>1, StepKnows
  <2>3. ~updater[p].outrun => StampOf(updater[p]) = installed /\ installed \in completed
    BY <1>0, <2>1 DEF StampOf, Learned
  <2>4. Claims'
    BY <2>1, <2>3 DEF Claims
  <2> QED BY <1>0, <2>1, <2>2, <2>4 DEF StampInv, Learned, Run
<1>5. ASSUME NEW p \in Updaters, UpdateStep(p, "rest", FALSE), UNCHANGED <<released, installed, stamp, completed>>
      PROVE  StampInv'
  <2>1. /\ updater' \in [Updaters -> Run] /\ updater'[p] = [updater[p] EXCEPT !.at = "rest"]
        /\ \A q \in Updaters \ {p} : /\ updater'[q].channel = updater[q].channel
                                     /\ updater'[q].latest = updater[q].latest
                                     /\ updater'[q].at = updater[q].at
                                     /\ ~updater'[q].outrun => ~updater[q].outrun
    BY <1>0, <1>5, StepKnows
  <2> QED BY <1>0, <1>5, <2>1 DEF StampInv, Learned, Claims, Run
<1>6. ASSUME NEW p \in Updaters, InstallFails(p) PROVE StampInv'
  <2>1. CASE UpdateStep(p, "rest", FALSE) /\ UNCHANGED <<installed, stamp>>
    BY <1>5, <1>6, <2>1 DEF InstallFails
  <2>2. CASE UpdateStep(p, "rest", TRUE) /\ stamp' = [stamp EXCEPT !.doubt = TRUE]
    <3>1. /\ updater' \in [Updaters -> Run] /\ updater'[p] = [updater[p] EXCEPT !.at = "rest"]
          /\ \A q \in Updaters \ {p} : ~updater'[q].outrun => updater'[q].at = "rest"
      BY <1>0, <2>2, StepKnows
    <3>2. UNCHANGED <<released, completed>>
      BY <1>6 DEF InstallFails
    <3>3. /\ stamp' = [installed |-> stamp'.installed, setup |-> stamp'.setup, doubt |-> stamp'.doubt]
          /\ stamp'.doubt = TRUE
      BY <1>0, <2>2
    <3>4. \A q \in Updaters : ~updater'[q].outrun => updater'[q].at = "rest"
      BY <3>1, <1>0 DEF Run
    <3> QED BY <1>0, <3>1, <3>2, <3>3, <3>4 DEF StampInv, Learned, Claims
  <2> QED BY <1>6, <2>1, <2>2 DEF InstallFails
<1>7. ASSUME NEW p \in Updaters, SetupFails(p) \/ UpdateDies(p) PROVE StampInv'
  BY <1>5, <1>7 DEF SetupFails, UpdateDies
<1>8. CASE NewRelease
  <2>1. updater' = Outrun(Updaters) /\ released' = released + 1 /\ UNCHANGED <<installed, stamp, completed>>
    BY <1>8 DEF NewRelease
  <2>2. /\ updater' \in [Updaters -> Run]
        /\ \A q \in Updaters : ~updater'[q].outrun => updater'[q].at = "rest"
    BY <1>0, <2>1, OutrunKnows
  <2> QED BY <1>0, <2>1, <2>2 DEF StampInv, Learned, Claims
<1>9. ASSUME NEW version \in Versions, InstallByHand(version) PROVE StampInv'
  <2>1. updater' = Outrun(Updaters) /\ installed' = version /\ UNCHANGED <<released, completed>>
        /\ stamp' = IF stamp.installed = version THEN stamp ELSE [stamp EXCEPT !.installed = version]
    BY <1>9 DEF InstallByHand, Postinstalled
  <2>2. /\ updater' \in [Updaters -> Run]
        /\ \A q \in Updaters : ~updater'[q].outrun => updater'[q].at = "rest"
    BY <1>0, <2>1, OutrunKnows
  <2>3. Claims' /\ stamp' = [installed |-> stamp'.installed, setup |-> stamp'.setup, doubt |-> stamp'.doubt]
    BY <1>0, <2>1 DEF Claims
  <2> QED BY <1>0, <2>1, <2>2, <2>3 DEF StampInv, Learned
<1>10. CASE UNCHANGED updateVars
  BY <1>10 DEF updateVars, StampInv, Learned, Claims
<1> QED BY <1>1, <1>2, <1>3, <1>4, <1>6, <1>7, <1>8, <1>9, <1>10 DEF UpdateNext

(* The stamp claims a setup only of a version whose setup ran, and names   *)
(* what is installed, unless its writer was outrun or npm was killed       *)
(* (writeSuccessfulInstallStamp, src/cli/update.ts:570; runPostinstall).   *)
THEOREM StampsTrue == UpdateSpec => []StampTrue
<1>1. StampInv => StampTrue
  BY DEF StampInv, Claims, StampTrue
<1> QED BY <1>1, UpdatesBegin, UpdateKeeps, PTL DEF UpdateSpec

-----------------------------------------------------------------------------
(* The subagent tracker implements the registry of lanes for any threads   *)
(* and any number of hooks at once.  What a recorded turn does is shown    *)
(* once (TurnRecorded), for all the claims a hook makes; the actions of    *)
(* the tracker record turns or none.                                       *)

(* What one turn relies on: a hook of a child names another thread as its  *)
(* parent, and a subagent has a role.                                      *)
TrackerInv ==
  /\ leader \in Someone
  /\ kind \in [Threads -> Kinds \cup {"none"}]
  /\ role \in [Threads -> Roles \cup {"none"}]
  /\ spawning \in SUBSET Spawn
  /\ \A s \in spawning : s.parent # s.child
  /\ \A t \in Threads : kind[t] = "subagent" => role[t] \in Roles
  /\ LeaderNoSubagent

TurnShape == leader' \in Someone /\ kind' \in [Threads -> Kinds \cup {"none"}] /\ LeaderNoSubagent'

-----------------------------------------------------------------------------
(* A turn leaves the kinds of the other threads alone.                     *)
LEMMA OthersKeep ==
  ASSUME Nobody \notin Threads, TrackerInv, NEW t \in Threads, NEW k \in Kinds, NEW l \in Someone, l # t,
         Record(t, k, l)
  PROVE  /\ TurnShape
         /\ kind'[t] = KindAfter(t, k)
         /\ \A u \in Threads \ {t} : kind'[u] = kind[u]
<1> DEFINE lead == LeaderAfter(t, k, l)
<1>1. kind[t] \in Kinds \cup {"none"} /\ \A u \in Threads : kind[u] \in Kinds \cup {"none"}
  BY DEF TrackerInv
<1>2. lead \in Someone /\ (lead \in Threads \ {t} => kind[lead] # "subagent")
  <2>1. CASE leader # Nobody
    BY <2>1 DEF TrackerInv, LeaderNoSubagent, LeaderAfter, Someone
  <2>2. CASE leader = Nobody
    BY <2>2 DEF TrackerInv, LeaderAfter, Someone, AskedLeader
  <2> QED BY <2>1, <2>2
<1>3. kind' = [u \in Threads |-> IF u = t THEN KindAfter(t, k)
                                 ELSE IF u = lead /\ kind[u] # "none" THEN "leader" ELSE kind[u]]
      /\ leader' = lead
  BY DEF Record
<1>4. KindAfter(t, k) \in Kinds
  BY DEF KindAfter, Kinds
<1>5. \A u \in Threads \ {t} : kind'[u] = kind[u]
  BY <1>1, <1>2, <1>3 DEF Kinds
<1>6. kind'[t] = KindAfter(t, k)
  BY <1>3
<1>7. lead = t => KindAfter(t, k) # "subagent"
  <2>1. CASE leader = t
    BY <2>1 DEF TrackerInv, LeaderNoSubagent, KindAfter, KnownLeader, Kinds
  <2>2. CASE leader # t /\ leader # Nobody
    BY <2>2 DEF LeaderAfter
  <2>3. CASE leader = Nobody
    BY <2>3 DEF LeaderAfter, KindAfter, KnownLeader, AskedLeader, Kinds
  <2> QED BY <2>1, <2>2, <2>3
<1>8. LeaderNoSubagent'
  BY <1>2, <1>3, <1>5, <1>6, <1>7 DEF LeaderNoSubagent, Someone
<1>9. kind' \in [Threads -> Kinds \cup {"none"}]
  BY <1>1, <1>3, <1>4 DEF Kinds
<1> QED BY <1>2, <1>3, <1>5, <1>6, <1>8, <1>9 DEF TurnShape

(* A recorded turn is a step of the registry.                              *)
LEMMA TurnRecorded ==
  ASSUME Nobody \notin Threads, TrackerInv, NEW t \in Threads, NEW k \in Kinds, NEW l \in Someone, l # t,
         Record(t, k, l), role' \in [Threads -> Roles \cup {"none"}],
         \A u \in Threads \ {t} : role'[u] = role[u],
         k = "subagent" \/ role' = role,
         k = "subagent" => role'[t] \in Roles
  PROVE  /\ TurnShape
         /\ \A u \in Threads : kind'[u] = "subagent" => role'[u] \in Roles
         /\ Registry!LaneStep
<1>1. /\ TurnShape
      /\ kind'[t] = KindAfter(t, k)
      /\ \A u \in Threads \ {t} : kind'[u] = kind[u]
  BY OthersKeep
<1>2. kind[t] \in Kinds \cup {"none"} /\ (kind[t] = "subagent" => role[t] \in Roles /\ leader # t)
  BY DEF TrackerInv, LeaderNoSubagent
<1>3. KindAfter(t, k) = "subagent" => role'[t] \in Roles
  BY <1>2 DEF KindAfter, Kinds
<1>4. \A u \in Threads : kind'[u] = "subagent" => role'[u] \in Roles
  BY <1>1, <1>3 DEF TrackerInv
<1>5. leader' \in IF leader = Nobody THEN Someone ELSE {leader}
  BY <1>1 DEF TurnShape, Record, LeaderAfter
<1> DEFINE r == IF kind'[t] = "subagent" THEN role'[t] ELSE kind'[t]
<1>6. r \in Roles \cup {"leader", "none"}
  BY <1>1, <1>3 DEF KindAfter, Kinds
<1>7. Lane(t) # "none" => (r \in Roles <=> Lane(t) \in Roles) /\ r # "none"
  BY <1>1, <1>2, <1>3 DEF Lane, KindAfter, KnownLeader, Kinds, Roles
<1>8. [u \in Threads |-> IF kind'[u] = "subagent" THEN role'[u] ELSE kind'[u]]
        = [[u \in Threads |-> Lane(u)] EXCEPT ![t] = r]
  BY <1>1 DEF Lane
<1>9. leader' # Nobody => (IF kind'[leader'] = "subagent" THEN role'[leader'] ELSE kind'[leader']) \notin Roles
  BY <1>1 DEF TurnShape, LeaderNoSubagent, Someone, Kinds, Roles
<1>10. Registry!LaneStep
  <2> SUFFICES /\ leader' \in IF leader = Nobody THEN Registry!Someone ELSE {leader}
               /\ \E q \in Registry!Roles \cup {"leader", "none"} :
                    /\ [u \in Threads |-> Lane(u)][t] # "none"
                         => (q \in Registry!Roles <=> [u \in Threads |-> Lane(u)][t] \in Registry!Roles)
                            /\ q # "none"
                    /\ [u \in Threads |-> Lane(u)]' = [[u \in Threads |-> Lane(u)] EXCEPT ![t] = q]
               /\ leader' # Nobody => [u \in Threads |-> Lane(u)]'[leader'] \notin Registry!Roles
    BY DEF Registry!LaneStep
  <2>1. Registry!Roles = Roles /\ Registry!Someone = Someone
    BY DEF Registry!Roles, Roles, Registry!Someone, Someone
  <2>2. [u \in Threads |-> Lane(u)]'
          = [u \in Threads |-> IF kind'[u] = "subagent" THEN role'[u] ELSE kind'[u]]
    BY DEF Lane
  <2>3. leader' # Nobody => leader' \in Threads
    BY <1>1 DEF TurnShape, Someone
  <2> QED BY <2>1, <2>2, <2>3, <1>5, <1>6, <1>7, <1>8, <1>9
<1> QED BY <1>1, <1>4, <1>10

-----------------------------------------------------------------------------
LEMMA InitInv == TrackerInit => TrackerInv
BY DEF TrackerInit, TrackerInv, Someone, LeaderNoSubagent, Spawn

(* Every action keeps the invariant and steps the registry, or not at all. *)
LEMMA NextInv ==
  ASSUME Nobody \notin Threads, TrackerInv, TrackerNext \/ UNCHANGED tracker
  PROVE  TrackerInv' /\ (Registry!LaneStep \/ UNCHANGED Registry!lanes)
<1> DEFINE Same == UNCHANGED <<leader, kind, role>>
<1>0. ASSUME Same, spawning' \in SUBSET Spawn, \A s \in spawning' : s.parent # s.child
      PROVE  TrackerInv' /\ UNCHANGED Registry!lanes
  <2>1. TrackerInv'
    BY <1>0 DEF TrackerInv, LeaderNoSubagent
  <2>2. UNCHANGED Registry!lanes
    BY <1>0 DEF Registry!lanes, Lane
  <2> QED BY <2>1, <2>2
<1>1. ASSUME NEW t \in Threads, StartSession(t)
      PROVE  TrackerInv' /\ UNCHANGED Registry!lanes
  BY <1>0, <1>1 DEF StartSession, TrackerInv
<1>2. ASSUME NEW t \in Threads, Attest(t)
      PROVE  TrackerInv' /\ Registry!LaneStep
  <2>1. TurnShape /\ (\A u \in Threads : kind'[u] = "subagent" => role'[u] \in Roles) /\ Registry!LaneStep
    <3>1. Record(t, "leader", Nobody) /\ role' = role
      BY <1>2 DEF Attest
    <3>2. "leader" \in Kinds /\ Nobody \in Someone /\ Nobody # t /\ "leader" # "subagent"
      BY DEF Kinds, Someone
    <3>3. role' \in [Threads -> Roles \cup {"none"}]
      BY <3>1 DEF TrackerInv
    <3> QED BY <3>1, <3>2, <3>3, TurnRecorded
  <2> QED BY <2>1, <1>2 DEF TrackerInv, TurnShape, Attest
<1>3. ASSUME NEW p \in Threads, NEW c \in Threads, NEW r \in Roles, BeginSpawn(p, c, r)
      PROVE  TrackerInv' /\ UNCHANGED Registry!lanes
  BY <1>0, <1>3 DEF BeginSpawn, TrackerInv, Spawn
<1>4. ASSUME NEW s \in spawning, RecordParent(s)
      PROVE  TrackerInv' /\ (Registry!LaneStep \/ UNCHANGED Registry!lanes)
  <2>1. s \in Spawn /\ s.parent \in Threads /\ s.parent # s.child
    BY DEF TrackerInv, Spawn
  <2>2. /\ spawning' \in SUBSET Spawn /\ \A q \in spawning' : q.parent # q.child
        /\ role' = role
    BY <1>4, <2>1 DEF RecordParent, TrackerInv, Spawn
  <2>3. CASE UNCHANGED <<leader, kind>>
    BY <1>0, <2>2, <2>3
  <2>4. CASE Record(s.parent, "leader", Nobody)
    <3>1. "leader" \in Kinds /\ Nobody \in Someone /\ Nobody # s.parent /\ "leader" # "subagent"
      BY <2>1 DEF Kinds, Someone
    <3>2. role' \in [Threads -> Roles \cup {"none"}]
      BY <2>2 DEF TrackerInv
    <3>3. TurnShape /\ (\A u \in Threads : kind'[u] = "subagent" => role'[u] \in Roles) /\ Registry!LaneStep
      BY <2>1, <2>2, <2>4, <3>1, <3>2, TurnRecorded
    <3> QED BY <3>2, <3>3, <2>2 DEF TrackerInv, TurnShape
  <2> QED BY <1>4, <2>3, <2>4 DEF RecordParent
<1>5. ASSUME NEW s \in spawning, RecordChild(s)
      PROVE  TrackerInv' /\ (Registry!LaneStep \/ UNCHANGED Registry!lanes)
  <2>1. s \in Spawn /\ s.parent \in Threads /\ s.child \in Threads /\ s.role \in Roles
        /\ s.parent # s.child
    BY DEF TrackerInv, Spawn
  <2>2. spawning' \in SUBSET Spawn /\ \A q \in spawning' : q.parent # q.child
    BY <1>5, <2>1 DEF RecordChild, TrackerInv, Spawn
  <2>3. CASE UNCHANGED <<leader, kind, role>>
    BY <1>0, <2>2, <2>3
  <2>4. CASE Record(s.child, "subagent", s.parent) /\ role' = [role EXCEPT ![s.child] = s.role]
    <3>1. "subagent" \in Kinds /\ s.parent \in Someone
      BY <2>1 DEF Kinds, Someone
    <3>2. /\ role' \in [Threads -> Roles \cup {"none"}]
          /\ \A u \in Threads \ {s.child} : role'[u] = role[u]
          /\ role'[s.child] \in Roles
      BY <2>1, <2>4 DEF TrackerInv
    <3>3. TurnShape /\ (\A u \in Threads : kind'[u] = "subagent" => role'[u] \in Roles) /\ Registry!LaneStep
      BY <2>1, <2>4, <3>1, <3>2, TurnRecorded
    <3> QED BY <3>2, <3>3, <2>2 DEF TrackerInv, TurnShape
  <2> QED BY <1>5, <2>3, <2>4 DEF RecordChild
<1>6. CASE UNCHANGED tracker
  BY <1>0, <1>6 DEF tracker, TrackerInv
<1> QED BY <1>1, <1>2, <1>3, <1>4, <1>5, <1>6 DEF TrackerNext

(* The tracker implements the registry: whatever the order in which hooks  *)
(* report and whichever of their writes fail, no subagent is ever recorded *)
(* as anything else, the leader stays and is no subagent                   *)
(* (recordSubagentTurn and attestLeaderThread, src/subagents/tracker.ts).  *)
THEOREM LanesKept ==
  ASSUME Nobody \notin Threads
  PROVE  TrackerSpec => LanesHold
<1>1. TrackerInit => Registry!LaneInit
  BY DEF TrackerInit, Registry!LaneInit, Lane
<1>2. TrackerInv /\ [TrackerNext]_tracker => TrackerInv' /\ [Registry!LaneStep]_(Registry!lanes)
  BY NextInv
<1> QED BY <1>1, <1>2, InitInv, PTL DEF TrackerSpec, LanesHold, Registry!LaneSpec

-----------------------------------------------------------------------------
(* What is announced, and turn by turn (Notifications).                    *)

(* As long as no announcements overlapped, what was taken within the       *)
(* window is noted, or is about to be by whoever sent it; and nobody sends *)
(* what is noted.                                                          *)
Noted(b, t) == entry[b].text = t /\ entry[b].recent

AnnounceShape ==
  /\ entry \in [Buckets -> [text : Texts \cup {"none"}, recent : BOOLEAN]]
  /\ announcer \in [Announcers -> [at : {"rest", "look", "send", "note"},
                                   bucket : Buckets, text : Texts]]
  /\ heard \in SUBSET (Buckets \X Texts)

OneAnnounces ==
  \A p, q \in Announcers : announcer[p].at # "rest" /\ announcer[q].at # "rest" => p = q

HeardNoted ==
  \A b \in Buckets, t \in Texts :
    <<b, t>> \in heard =>
      Noted(b, t) \/ \E p \in Announcers : announcer[p].at = "note" /\ What(p) = <<b, t>>

SentUnnoted ==
  \A p \in Announcers :
    announcer[p].at = "send" => ~Noted(announcer[p].bucket, announcer[p].text)

HeardLast ==
  \A p \in Announcers, t \in Texts :
    announcer[p].at = "note" /\ <<announcer[p].bucket, t>> \in heard => t = announcer[p].text

AnnounceInv ==
  ~excused =>
    /\ twice = {}
    /\ OneAnnounces /\ HeardNoted /\ SentUnnoted /\ HeardLast

LEMMA AnnounceShapeKept == AnnounceShape /\ [AnnounceNext]_announceVars => AnnounceShape'
<1> SUFFICES ASSUME AnnounceShape, [AnnounceNext]_announceVars PROVE AnnounceShape'
  OBVIOUS
<1> USE DEF AnnounceShape, Resting, AnnouncerAt, Taken, What
<1>1. ASSUME NEW p \in Announcers, Announce(p) PROVE AnnounceShape'
  BY <1>1 DEF Announce
<1>2. ASSUME NEW p \in Announcers, Look(p) PROVE AnnounceShape'
  BY <1>2 DEF Look, Buckets, Texts
<1>3. ASSUME NEW p \in Announcers, Send(p) \/ SendTimesOut(p) PROVE AnnounceShape'
  BY <1>3 DEF Send, SendTimesOut, Buckets, Texts
<1>4. ASSUME NEW p \in Announcers, SendFails(p) PROVE AnnounceShape'
  BY <1>4 DEF SendFails, Buckets, Texts
<1>5. ASSUME NEW p \in Announcers, Note(p) PROVE AnnounceShape'
  BY <1>5 DEF Note, Buckets, Texts
<1>6. CASE WindowPasses
  BY <1>6 DEF WindowPasses
<1>7. CASE UNCHANGED announceVars
  BY <1>7 DEF announceVars
<1> QED BY <1>1, <1>2, <1>3, <1>4, <1>5, <1>6, <1>7 DEF AnnounceNext

LEMMA AnnounceKeeps == AnnounceShape /\ AnnounceInv /\ [AnnounceNext]_announceVars => AnnounceInv'
<1> SUFFICES ASSUME AnnounceShape, AnnounceInv, [AnnounceNext]_announceVars, ~excused'
             PROVE  twice' = {} /\ OneAnnounces' /\ HeardNoted' /\ SentUnnoted' /\ HeardLast'
  BY DEF AnnounceInv
<1>0. ~excused /\ twice = {} /\ OneAnnounces /\ HeardNoted /\ SentUnnoted /\ HeardLast
  <2>1. ASSUME excused PROVE excused'
    BY <2>1 DEF AnnounceNext, Announce, Look, Send, SendFails, SendTimesOut, Note,
                WindowPasses, announceVars
  <2> QED BY <2>1 DEF AnnounceInv
<1> DEFINE others(p) == \A q \in Announcers \ {p} : announcer'[q] = announcer[q]
<1> DEFINE kept == twice' = {} /\ OneAnnounces' /\ HeardNoted' /\ SentUnnoted' /\ HeardLast'
<1>1. ASSUME NEW p \in Announcers, Announce(p) PROVE kept
  <2>1. PICK b \in Buckets, t \in Texts :
          announcer' = [announcer EXCEPT ![p] = [at |-> "look", bucket |-> b, text |-> t]]
    BY <1>1 DEF Announce
  <2>2. announcer'[p].at = "look" /\ others(p)
    BY <2>1 DEF AnnounceShape
  <2>3. /\ announcer[p].at = "rest" /\ UNCHANGED <<entry, heard, twice>>
        /\ \A q \in Announcers \ {p} : announcer[q].at = "rest"
    BY <1>1 DEF Announce
  <2> QED BY <1>0, <2>2, <2>3 DEF OneAnnounces, HeardNoted, SentUnnoted, HeardLast, Noted, What
<1>2. ASSUME NEW p \in Announcers, Look(p) PROVE kept
  <2>1. announcer[p].at = "look" /\ others(p) /\ UNCHANGED <<entry, heard, twice>>
    BY <1>2 DEF Look, AnnouncerAt, AnnounceShape
  <2>2. /\ announcer'[p].at \in {"rest", "send"}
        /\ announcer'[p].at = "send" =>
             /\ announcer'[p].bucket = announcer[p].bucket
             /\ announcer'[p].text = announcer[p].text
             /\ ~Noted(announcer[p].bucket, announcer[p].text)
    BY <1>2 DEF Look, AnnouncerAt, Resting, Noted, AnnounceShape
  <2> QED BY <1>0, <2>1, <2>2 DEF OneAnnounces, HeardNoted, SentUnnoted, HeardLast, Noted, What
<1>3. ASSUME NEW p \in Announcers, Send(p) PROVE kept
  <2>1. /\ announcer[p].at = "send" /\ others(p) /\ UNCHANGED entry /\ Taken(p)
        /\ announcer'[p].at = "note" /\ What(p)' = What(p)
    BY <1>3 DEF Send, AnnouncerAt, AnnounceShape, What
  <2>2. What(p) \notin heard
    BY <1>0, <2>1 DEF HeardNoted, SentUnnoted, OneAnnounces, What, AnnounceShape
  <2>3. twice' = {}
    BY <1>0, <2>1, <2>2 DEF Taken
  <2>4. HeardNoted'
    BY <1>0, <2>1 DEF HeardNoted, OneAnnounces, Taken, Noted
  <2>5. HeardLast'
    BY <1>0, <2>1 DEF HeardLast, OneAnnounces, Taken, What
  <2> QED BY <1>0, <2>1, <2>3, <2>4, <2>5 DEF OneAnnounces, SentUnnoted, Noted
<1>4. ASSUME NEW p \in Announcers, SendFails(p) PROVE kept
  <2>1. /\ announcer[p].at = "send" /\ others(p) /\ UNCHANGED <<entry, heard, twice>>
        /\ announcer'[p].at = "rest"
    BY <1>4 DEF SendFails, Resting, AnnounceShape
  <2> QED BY <1>0, <2>1 DEF OneAnnounces, HeardNoted, SentUnnoted, HeardLast, Noted, What
<1>5. ASSUME NEW p \in Announcers, Note(p) PROVE kept
  <2>1. /\ announcer[p].at = "note" /\ others(p) /\ UNCHANGED <<heard, twice>>
        /\ announcer'[p].at = "rest"
    BY <1>5 DEF Note, Resting, AnnounceShape
  <2>2. /\ entry'[announcer[p].bucket].text = announcer[p].text
        /\ entry'[announcer[p].bucket].recent
        /\ \A b \in Buckets \ {announcer[p].bucket} : entry'[b] = entry[b]
    <3>1. entry' = [entry EXCEPT ![announcer[p].bucket] =
                      [text |-> announcer[p].text, recent |-> TRUE]]
      BY <1>5 DEF Note
    <3>2. announcer[p].bucket \in Buckets
      BY DEF AnnounceShape
    <3>3. entry'[announcer[p].bucket] = [text |-> announcer[p].text, recent |-> TRUE]
      BY <3>1, <3>2 DEF AnnounceShape
    <3>4. \A b \in Buckets \ {announcer[p].bucket} : entry'[b] = entry[b]
      BY <3>1 DEF AnnounceShape
    <3> QED BY <3>3, <3>4
  <2>3. HeardNoted'
    <3> SUFFICES ASSUME NEW b \in Buckets, NEW t \in Texts, <<b, t>> \in heard
                 PROVE  Noted(b, t)'
      BY <2>1 DEF HeardNoted
    <3>1. CASE b = announcer[p].bucket
      BY <1>0, <2>1, <2>2, <3>1 DEF HeardLast, Noted
    <3>2. CASE b # announcer[p].bucket
      <4>1. Noted(b, t)
        BY <1>0, <2>1, <3>2 DEF HeardNoted, OneAnnounces, What
      <4> QED BY <2>2, <3>2, <4>1 DEF Noted
    <3> QED BY <3>1, <3>2
  <2> QED BY <1>0, <2>1, <2>3 DEF OneAnnounces, SentUnnoted, HeardLast
<1>6. CASE WindowPasses
  BY <1>0, <1>6 DEF WindowPasses, OneAnnounces, HeardNoted, SentUnnoted, HeardLast, Noted, AnnounceShape
<1>7. CASE UNCHANGED announceVars
  BY <1>0, <1>7 DEF announceVars, OneAnnounces, HeardNoted, SentUnnoted, HeardLast, Noted, What
<1>8. ASSUME NEW p \in Announcers, SendTimesOut(p) PROVE FALSE
  BY <1>8 DEF SendTimesOut
<1> QED BY <1>1, <1>2, <1>3, <1>4, <1>5, <1>6, <1>7, <1>8 DEF AnnounceNext

(* A lifecycle event is announced once within the window, for any number   *)
(* of processes, unless two announce at once or somebody takes it after    *)
(* its announcer gave up (src/notifications/lifecycle-dedupe.ts).          *)
THEOREM AnnouncedOnce == AnnounceInit /\ [][AnnounceNext]_announceVars => []ToldOnce
<1>1. AnnounceInit => AnnounceShape /\ AnnounceInv
  BY DEF AnnounceInit, AnnounceShape, AnnounceInv, OneAnnounces, HeardNoted, SentUnnoted, HeardLast,
         None, Resting, Buckets, Texts
<1>2. AnnounceInv => ToldOnce
  BY DEF AnnounceInv, ToldOnce
<1> QED BY <1>1, <1>2, AnnounceShapeKept, AnnounceKeeps, PTL

(* The lock of the dispatcher: while nobody dies and none is slow, it      *)
(* belongs to the dispatcher between its open and its release.             *)
Guarding == {"guard", "previous", "owx", "note", "release"}

TurnInv ==
  /\ turn \in [Turns -> {"new", "unlink", "open", "dropped", "told", "dead"} \cup Guarding]
  /\ ~slow => /\ ~guard.stale
              /\ \A t \in Turns : turn[t] \notin {"unlink", "dead"}
              /\ \A t \in Turns : turn[t] \in Guarding => guard.by = {t}

LEMMA TurnKeeps == TurnInv /\ [TurnNext]_turnVars => TurnInv'
<1> SUFFICES ASSUME TurnInv, [TurnNext]_turnVars PROVE TurnInv'
  OBVIOUS
<1> USE DEF TurnInv, TurnAt, Guarding, Unguarded
<1>1. ASSUME NEW t \in Turns, TurnEnds(t) PROVE TurnInv'
  BY <1>1 DEF TurnEnds
<1>2. ASSUME NEW t \in Turns, UnlinkStale(t) PROVE TurnInv'
  BY <1>2 DEF UnlinkStale
<1>3. ASSUME NEW t \in Turns, OpenLock(t) PROVE TurnInv'
  BY <1>3 DEF OpenLock
<1>4. ASSUME NEW t \in Turns, ReadGuard(t) PROVE TurnInv'
  BY <1>4 DEF ReadGuard
<1>5. ASSUME NEW t \in Turns, RunPrevious(t) \/ RunOwx(t) \/ NoteTurn(t) PROVE TurnInv'
  BY <1>5 DEF RunPrevious, RunOwx, NoteTurn
<1>6. ASSUME NEW t \in Turns, ReleaseGuard(t) PROVE TurnInv'
  BY <1>6 DEF ReleaseGuard
<1>7. ASSUME NEW t \in Turns, Dies(t) PROVE TurnInv'
  BY <1>7 DEF Dies
<1>8. CASE LockAges \/ IntervalPasses \/ UNCHANGED turnVars
  BY <1>8 DEF LockAges, IntervalPasses, turnVars
<1> QED BY <1>1, <1>2, <1>3, <1>4, <1>5, <1>6, <1>7, <1>8 DEF TurnNext, TurnStep

(* As long as no dispatch dies or outlasts the lock, one turn at a time    *)
(* runs the notify commands, whatever turns end meanwhile                  *)
(* (src/scripts/notify-dispatcher.ts).                                     *)
THEOREM OneTurnAtATime == TurnInit /\ [][TurnNext]_turnVars => []TurnsApart
<1>1. TurnInit => TurnInv
  BY DEF TurnInit, TurnInv, Unguarded, Guarding
<1>2. TurnInv => TurnsApart
  <2> SUFFICES ASSUME TurnInv, ~slow PROVE TurnsApart
    BY DEF TurnsApart
  <2> DEFINE notifying == {t \in Turns : turn[t] \in Dispatching \cup {"note"}}
  <2>1. \A t, u \in notifying : t = u /\ t \in Turns
    BY DEF TurnInv, Dispatching, Guarding
  <2>2. notifying = {} \/ \E t : notifying = {t}
    <3>1. ASSUME NEW t \in notifying PROVE notifying = {t}
      <4> HIDE DEF notifying
      <4> QED BY <2>1
    <3> QED BY <3>1
  <2>3. Cardinality(notifying) <= 1
    <3> HIDE DEF notifying
    <3>1. CASE notifying = {}
      BY <3>1, FS_EmptySet
    <3>2. ASSUME NEW t, notifying = {t} PROVE Cardinality(notifying) = 1
      BY <3>2, FS_Singleton
    <3> QED BY <2>2, <3>1, <3>2
  <2> QED BY <2>3 DEF TurnsApart, TurnInv, Dispatching, Guarding
<1> QED BY <1>1, <1>2, TurnKeeps, PTL

-----------------------------------------------------------------------------
(* The shapes of the variables and the bounds of their counters.           *)

(* Every process of the queue is where the code can be, dead ones and      *)
(* takers of their locks included.                                         *)
LEMMA FollowupTypes == TypeOK /\ [OrphanNext]_vars => TypeOK'
<1> SUFFICES ASSUME TypeOK, [OrphanNext]_vars PROVE TypeOK'
  OBVIOUS
<1>0. /\ queue \in [Injectors -> Status] /\ lock \in [owner : Procs \cup {Free}, stale : BOOLEAN]
      /\ pc \in [Procs -> Label] /\ attempts \in [Procs -> 0 .. MaxAttempts]
      /\ mine \in [Procs -> [Injectors -> Status]] /\ picked \in [Hooks -> SUBSET Injectors]
      /\ shown \in [Injectors -> Nat]
  BY DEF TypeOK
<1>1. \A p \in Procs, label \in Label : Goto(p, label) => pc' \in [Procs -> Label]
  BY <1>0 DEF Goto
<1>2. /\ {"idle", "lock", "stat", "break", "owner", "read", "write", "release", "undo", "show", "audit",
           "failed", "done", "dead"} \subseteq Label
      /\ Unlocked \in [owner : Procs \cup {Free}, stale : BOOLEAN]
      /\ \A p \in Procs : Throws(p) => pc' \in [Procs -> Label] /\ UNCHANGED <<queue, local, shown>>
  BY <1>1 DEF Label, Unlocked, Throws
<1> USE DEF TypeOK, local
<1>3. ASSUME NEW p \in Procs, Inject(p) \/ Fail(p) \/ Exists(p) \/ Vanished(p) \/ WriteOwner(p)
                              \/ Report(p) \/ Crash(p) \/ SeeStale(p)
      PROVE  TypeOK'
  <2>1. pc' \in [Procs -> Label] /\ UNCHANGED <<queue, lock, local, shown>>
    BY <1>1, <1>2, <1>3 DEF Inject, Fail, Exists, Vanished, WriteOwner, Report, Crash, SeeStale
  <2> QED BY <1>0, <2>1
<1>4. ASSUME NEW p \in Procs, Peek(p) PROVE TypeOK'
  <2>1. pc' \in [Procs -> Label] /\ UNCHANGED <<queue, lock, mine, shown>>
    BY <1>1, <1>2, <1>4 DEF Peek
  <2>2. attempts' \in [Procs -> 0 .. MaxAttempts] /\ picked' \in [Hooks -> SUBSET Injectors]
    BY <1>0, <1>4 DEF Peek
  <2> QED BY <1>0, <2>1, <2>2
<1>5. ASSUME NEW p \in Procs, MakeLock(p) PROVE TypeOK'
  <2>1. pc' \in [Procs -> Label] /\ UNCHANGED <<queue, local, shown>>
    BY <1>1, <1>2, <1>5 DEF MakeLock
  <2> QED BY <1>0, <1>5, <2>1 DEF MakeLock
<1>6. ASSUME NEW p \in Procs, Wait(p) PROVE TypeOK'
  <2>1. pc' \in [Procs -> Label] /\ UNCHANGED <<queue, lock, mine, picked, shown>>
    BY <1>1, <1>2, <1>6 DEF Wait
  <2>2. attempts' \in [Procs -> 0 .. MaxAttempts]
    <3>1. CASE attempts[p] < MaxAttempts
      <4>1. attempts[p] + 1 \in 0 .. MaxAttempts
        BY <1>0, <3>1
      <4> QED BY <1>0, <1>6, <3>1, <4>1 DEF Wait
    <3>2. CASE ~(attempts[p] < MaxAttempts)
      BY <1>0, <1>6, <3>2 DEF Wait, Throws
    <3> QED BY <3>1, <3>2
  <2> QED BY <1>0, <2>1, <2>2
<1>7. ASSUME NEW p \in Procs, ReadQueue(p) PROVE TypeOK'
  <2>1. pc' \in [Procs -> Label] /\ UNCHANGED <<queue, lock, attempts, picked, shown>>
    BY <1>1, <1>2, <1>7 DEF ReadQueue
  <2> QED BY <1>0, <1>7, <2>1 DEF ReadQueue
<1>8. ASSUME NEW p \in Procs, WriteQueue(p) PROVE TypeOK'
  <2>1. Changed(p) \in [Injectors -> Status]
    BY <1>0 DEF Changed, Status
  <2>2. pc' \in [Procs -> Label] /\ UNCHANGED <<lock, local, shown>>
    BY <1>1, <1>2, <1>8 DEF WriteQueue
  <2> QED BY <1>0, <1>8, <2>1, <2>2 DEF WriteQueue
<1>9. ASSUME NEW p \in Procs, Release(p) \/ Undo(p) \/ Break(p) \/ OwnerFails(p) PROVE TypeOK'
  <2>1. pc' \in [Procs -> Label] /\ UNCHANGED <<queue, local, shown>>
    BY <1>1, <1>2, <1>9 DEF Release, Undo, Break, OwnerFails
  <2>2. lock' \in {lock, Unlocked}
    BY <1>9 DEF Release, Undo, Break, OwnerFails
  <2> QED BY <1>0, <1>2, <2>1, <2>2
<1>10. ASSUME NEW p \in Procs, Show(p) PROVE TypeOK'
  <2>1. pc' \in [Procs -> Label] /\ UNCHANGED <<queue, lock, local>>
    BY <1>1, <1>2, <1>10 DEF Show
  <2>2. shown' \in [Injectors -> Nat]
    BY <1>0, <1>10 DEF Show
  <2> QED BY <1>0, <2>1, <2>2
<1>11. CASE Age
  BY <1>0, <1>11 DEF Age
<1>12. CASE UNCHANGED vars
  BY <1>12 DEF vars
<1> QED BY <1>3, <1>4, <1>5, <1>6, <1>7, <1>8, <1>9, <1>10, <1>11, <1>12
        DEF OrphanNext, OrphanStep, Next, Step

LEMMA FollowupTypesHold == Init /\ [][OrphanNext]_vars => []TypeOK
<1>1. Init => TypeOK
  BY DEF Init, TypeOK, Empty, Unlocked, Status, Label
<1> QED BY <1>1, FollowupTypes, PTL

(* The goals that a file or a process speaks of have numbers in bounds.   *)
GateBounds ==
  /\ past.made \in 0..MaxMade /\ past.passed \in SUBSET (0..MaxMade)
  /\ goal.made \in 0..MaxMade /\ goal.proof \in 0..MaxMade /\ completion.made \in 0..MaxMade
  /\ \A p \in Processes : command[p].goal.made \in 0..MaxMade /\ command[p].goal.proof \in 0..MaxMade
  /\ ledger \in Statuses \cup {"none"}

LEMMA GateBounded ==
  ASSUME MaxMade \in Nat PROVE GateShape /\ GateBounds /\ [GateNext]_gateVars => GateBounds'
<1> SUFFICES ASSUME GateShape, GateBounds, [GateNext]_gateVars PROVE GateBounds'
  OBVIOUS
<1>0. /\ goal \in Goals /\ command \in [Processes -> Asks]
      /\ past \in [made : Nat, passed : SUBSET Nat] /\ 0 \in 0..MaxMade
  BY DEF GateShape
<1> DEFINE Small(call) == call.goal.made \in 0..MaxMade /\ call.goal.proof \in 0..MaxMade
<1>1. \A status : Small(LastWrite(status))
  BY <1>0 DEF LastWrite, Quiet, NoGoal
<1>2. Small(Quiet)
  BY <1>0 DEF Quiet, NoGoal
<1>3. ASSUME NEW p \in Processes, NEW call, Begin(p, call), Small(call), UNCHANGED <<goal, completion>>,
             past'.made \in 0..MaxMade, past'.passed = past.passed, ledger' \in Statuses \cup {"none"}
      PROVE  GateBounds'
  <2>1. \A q \in Processes : command'[q].goal = IF q = p THEN call.goal ELSE command[q].goal
    BY <1>0, <1>3 DEF Begin, Asks
  <2> QED BY <1>3, <2>1 DEF GateBounds
<1>4. ASSUME NEW p \in Processes, NEW call, command' = [command EXCEPT ![p] = call], Small(call),
             UNCHANGED <<goal, completion, past>>, ledger' \in Statuses \cup {"none"}
      PROVE  GateBounds'
  BY <1>0, <1>4 DEF GateBounds
<1>5. ASSUME NEW p \in Processes, NEW force \in Forces, Create(p, force) PROVE GateBounds'
  <2> DEFINE call == [Quiet EXCEPT !.pc = "write",
                       !.goal = [NoGoal EXCEPT !.status = "created", !.made = past.made + 1]]
  <2>1. /\ Begin(p, call) /\ UNCHANGED <<goal, completion>> /\ past.made < MaxMade
        /\ past' = [past EXCEPT !.made = @ + 1] /\ ledger' = "none"
    BY <1>5 DEF Create
  <2>2. past'.made = past.made + 1 /\ past'.passed = past.passed
    BY <1>0, <2>1
  <2>3. past'.made \in 0..MaxMade
    BY <1>0, <2>1, <2>2
  <2>4. call.goal.made = past.made + 1 /\ call.goal.proof = 0
    BY DEF Quiet, NoGoal
  <2>5. Small(call)
    <3> HIDE DEF call
    <3> QED BY <1>0, <2>2, <2>3, <2>4
  <2> HIDE DEF call, Small
  <2> QED BY <1>3, <2>1, <2>2, <2>3, <2>5
<1>6. ASSUME NEW p \in Processes, Handoff(p) PROVE GateBounds'
  <2> DEFINE call == IF goal.status = "created"
              THEN [Quiet EXCEPT !.pc = "write", !.goal = [goal EXCEPT !.status = "in_progress"]]
              ELSE LastWrite(goal.status)
  <2>1. Begin(p, call) /\ UNCHANGED <<goal, completion, ledger, past>>
    BY <1>6 DEF Handoff
  <2>2. [goal EXCEPT !.status = "in_progress"].made \in 0..MaxMade
        /\ [goal EXCEPT !.status = "in_progress"].proof \in 0..MaxMade
    BY <1>0 DEF GateBounds, Goals
  <2>3. Small(call)
    BY <1>1, <2>2 DEF Quiet
  <2> HIDE DEF call, Small
  <2> QED BY <1>3, <2>1, <2>3 DEF GateBounds
<1>7. ASSUME NEW p \in Processes, NEW verdict \in Verdicts, Checkpoint(p, verdict) PROVE GateBounds'
  <2> DEFINE judged == [goal EXCEPT !.status = StatusOf(verdict),
                             !.verdict = IF Workflow = "performance" THEN verdict ELSE @]
             call == [pc |-> "write", verdict |-> verdict, alone |-> FALSE, goal |-> judged]
  <2>1. Begin(p, call) /\ UNCHANGED <<goal, completion, ledger, past>>
    BY <1>7 DEF Checkpoint
  <2>2. judged.made = goal.made /\ judged.proof = goal.proof
    BY <1>0 DEF Goals
  <2> HIDE DEF judged
  <2>3. Small(call)
    BY <2>2 DEF GateBounds
  <2> HIDE DEF call, Small
  <2> QED BY <1>3, <2>1, <2>3 DEF GateBounds
<1>8. ASSUME NEW p \in Processes, ReadForCompletion(p) PROVE GateBounds'
  <2> DEFINE call == [pc |-> "gate", goal |-> goal, verdict |-> "none",
                      alone |-> \A q \in Processes \ {p} : Does(q, "idle")]
  <2>1. Begin(p, call) /\ UNCHANGED <<goal, completion, ledger, past>>
    BY <1>8 DEF ReadForCompletion
  <2>2. Small(call)
    BY DEF GateBounds
  <2> HIDE DEF call, Small
  <2> QED BY <1>3, <2>1, <2>2 DEF GateBounds
<1>9. ASSUME NEW p \in Processes, Complete(p) PROVE GateBounds'
  <2> DEFINE passed == [command[p] EXCEPT !.pc = "write", !.goal.status = "complete", !.goal.proof = completion.made]
             call == IF Passed(p) THEN passed ELSE Quiet
  <2>1. command[p] \in Asks /\ command[p].goal \in Goals
    BY <1>0 DEF Asks
  <2>2. passed.goal.made = command[p].goal.made /\ passed.goal.proof = completion.made
    BY <2>1 DEF Asks, Goals
  <2> HIDE DEF passed
  <2>3. Small(call)
    BY <1>2, <2>2 DEF GateBounds
  <2>4. command' = [command EXCEPT ![p] = call] /\ UNCHANGED <<goal, completion, ledger, past>>
    BY <1>9 DEF Complete, passed
  <2> HIDE DEF call, Small
  <2> QED BY <1>4, <2>3, <2>4 DEF GateBounds
<1>10. ASSUME NEW p \in Processes, WriteGoal(p) PROVE GateBounds'
  <2> DEFINE call == IF Workflow = "autoresearch" /\ command[p].verdict # "none"
                     THEN [command[p] EXCEPT !.pc = "completion"] ELSE LastWrite(command[p].goal.status)
  <2>1. /\ command[p] \in Asks /\ command[p].goal \in Goals
        /\ goal' = [command[p].goal EXCEPT !.alone = command[p].alone]
        /\ command' = [command EXCEPT ![p] = call] /\ UNCHANGED <<completion, ledger, past>>
    BY <1>0, <1>10 DEF WriteGoal, Asks
  <2>2. goal'.made = command[p].goal.made /\ goal'.proof = command[p].goal.proof
    BY <2>1 DEF Goals
  <2>3. Small(call)
    BY <1>1, <2>1 DEF GateBounds, Asks
  <2> HIDE DEF call
  <2>4. \A q \in Processes : Small(command'[q])
    BY <1>0, <2>1, <2>3 DEF GateBounds
  <2> QED BY <2>1, <2>2, <2>4 DEF GateBounds
<1>11. ASSUME NEW p \in Processes, WriteCompletion(p) PROVE GateBounds'
  <2>1. /\ completion'.made = command[p].goal.made /\ UNCHANGED <<goal, ledger>>
        /\ command' = [command EXCEPT ![p] = LastWrite(command[p].goal.status)]
        /\ past'.made = past.made
        /\ past'.passed \subseteq past.passed \cup {command[p].goal.made}
    BY <1>0, <1>11 DEF WriteCompletion
  <2>2. \A q \in Processes : Small(command'[q])
    BY <1>0, <1>1, <2>1 DEF GateBounds
  <2>3. past'.passed \in SUBSET (0..MaxMade)
    BY <2>1 DEF GateBounds
  <2> QED BY <2>1, <2>2, <2>3 DEF GateBounds
<1>12. ASSUME NEW p \in Processes, AppendLedger(p) \/ Killed(p) PROVE GateBounds'
  <2>1. command[p].goal.status \in Statuses \cup {"none"}
    BY <1>0 DEF Asks, Goals
  <2>2. command' = [command EXCEPT ![p] = Quiet] /\ UNCHANGED <<goal, completion, past>>
        /\ ledger' \in {ledger, command[p].goal.status}
    BY <1>12 DEF AppendLedger, Killed
  <2>3. ledger' \in Statuses \cup {"none"}
    BY <2>1, <2>2 DEF GateBounds
  <2> HIDE DEF Small
  <2> QED BY <1>2, <1>4, <2>2, <2>3
<1>13. CASE UNCHANGED gateVars
  BY <1>13 DEF gateVars, GateBounds
<1> QED BY <1>5, <1>6, <1>7, <1>8, <1>9, <1>10, <1>11, <1>12, <1>13 DEF GateNext, Asked

LEMMA GateTypes ==
  ASSUME MaxMade \in Nat PROVE GateInit /\ [][GateNext]_gateVars => []GateTypeOK
<1>1. GateInit => GateBounds
  BY DEF GateInit, GateBounds, NoGoal, Quiet
<1>2. GateShape /\ GateBounds => GateTypeOK
  <2> SUFFICES ASSUME GateShape, GateBounds PROVE GateTypeOK
    OBVIOUS
  <2>1. goal \in [status : Statuses \cup {"none"}, verdict : Verdicts \cup {"none"}, made : 0..MaxMade,
                  proof : 0..MaxMade, alone : BOOLEAN]
    <3> HIDE DEF Statuses, Verdicts
    <3> QED BY DEF GateShape, GateBounds, Goals
  <2>2. /\ completion \in [verdict : Verdicts \cup {"none"}, made : 0..MaxMade]
        /\ past \in [made : 0..MaxMade, passed : SUBSET (0..MaxMade)]
    <3> HIDE DEF Statuses, Verdicts
    <3> QED BY DEF GateShape, GateBounds
  <2>3. \A p \in Processes : command[p].pc \in {"idle", "gate", "write", "completion", "append"}
    BY DEF GateShape, Asks
  <2> QED BY <2>1, <2>2, <2>3 DEF GateTypeOK, GateBounds
<1> QED BY <1>1, <1>2, GateBegins, ShapeKept, GateBounded, PTL

(* An update knows only versions that were released.                       *)
UpdateBounds ==
  /\ UpdateTypeOK
  /\ updater \in [Updaters -> Run]
  /\ \A p \in Updaters : updater[p].latest \in 0..MaxReleases

LEMMA UpdateBounded ==
  ASSUME MaxReleases \in Nat \ {0} PROVE UpdateBounds /\ [UpdateNext]_updateVars => UpdateBounds'
<1> SUFFICES ASSUME UpdateBounds, [UpdateNext]_updateVars PROVE UpdateBounds'
  OBVIOUS
<1> USE DEF UpdateBounds
<1>0. /\ updater \in [Updaters -> Run]
      /\ released \in 1..MaxReleases /\ installed \in Versions /\ completed \subseteq Versions
      /\ stamp \in [installed : Versions \cup {0}, setup : Versions \cup {0}, doubt : BOOLEAN]
      /\ \A p \in Updaters : /\ updater[p] \in Run /\ updater[p].latest \in 0..MaxReleases
                             /\ Wanted(updater[p].channel) \in Versions /\ StampOf(updater[p]) \in Versions
                             /\ updater[p].outrun \in BOOLEAN
  <2>1. updater \in [Updaters -> Run] /\ \A p \in Updaters : updater[p] \in Run /\ updater[p].outrun \in BOOLEAN
    BY DEF Run
  <2>2. /\ released \in 1..MaxReleases /\ installed \in Versions /\ completed \subseteq Versions
        /\ stamp \in [installed : Versions \cup {0}, setup : Versions \cup {0}, doubt : BOOLEAN]
    BY DEF UpdateTypeOK, Unknown
  <2>3. \A p \in Updaters : Wanted(updater[p].channel) \in Versions
    BY <2>2 DEF Wanted, Versions
  <2>4. \A p \in Updaters : StampOf(updater[p]) \in Versions
    BY <2>2 DEF StampOf, Versions, Unknown
  <2> QED BY <2>1, <2>2, <2>3, <2>4
<1>1. ASSUME /\ updater' \in [Updaters -> Run]
             /\ \A p \in Updaters : updater'[p].latest \in 0..MaxReleases
             /\ released' \in 1..MaxReleases, installed' \in Versions, completed' \subseteq Versions,
             stamp' \in [installed : Versions \cup {0}, setup : Versions \cup {0}, doubt : BOOLEAN]
      PROVE  UpdateBounds'
  <2>1. \A p \in Updaters : updater'[p].at \in {"rest", "install", "setup", "stamp"}
    BY <1>1 DEF Run
  <2> QED BY <1>1, <2>1 DEF UpdateTypeOK, Unknown, Versions
<1>2. \A others \in SUBSET Updaters :
        /\ Outrun(others) \in [Updaters -> Run]
        /\ \A p \in Updaters : Outrun(others)[p].latest \in 0..MaxReleases
  BY <1>0, OutrunKnows
<1>3. ASSUME NEW p \in Updaters, NEW at \in {"rest", "install", "setup", "stamp"}, NEW moved \in BOOLEAN,
             UpdateStep(p, at, moved)
      PROVE  /\ updater' \in [Updaters -> Run]
             /\ \A q \in Updaters : updater'[q].latest \in 0..MaxReleases
  <2>1. /\ updater' \in [Updaters -> Run]
        /\ updater'[p] = [updater[p] EXCEPT !.at = at]
        /\ \A q \in Updaters \ {p} : updater'[q].latest = updater[q].latest
    <3>1. CASE moved = TRUE
      BY <1>0, <1>3, <3>1, StepKnows
    <3>2. CASE moved = FALSE
      BY <1>0, <1>3, <3>2, StepKnows
    <3> QED BY <3>1, <3>2
  <2>2. updater'[p].latest = updater[p].latest
    BY <1>0, <2>1 DEF Run
  <2> QED BY <1>0, <2>1, <2>2
<1>4. \A version \in Versions :
        Postinstalled(version) \in [installed : Versions \cup {0}, setup : Versions \cup {0}, doubt : BOOLEAN]
  <2> HIDE DEF Versions
  <2> QED BY <1>0 DEF Postinstalled
<1>5. ASSUME NEW p \in Updaters, NEW channel \in Channels, NEW latest \in {Unknown, released},
             BeginUpdate(p, channel, latest)
      PROVE  UpdateBounds'
  <2>1. updater' = [updater EXCEPT ![p] = [channel |-> channel, at |-> "install", latest |-> latest,
                                          outrun |-> FALSE]]
        /\ UNCHANGED <<released, installed, stamp, completed>>
    BY <1>5 DEF BeginUpdate
  <2>2. latest \in 0..MaxReleases /\ latest \in Nat
    BY <1>0 DEF Unknown
  <2>3. /\ updater' \in [Updaters -> Run]
        /\ \A q \in Updaters : updater'[q].latest \in 0..MaxReleases
    BY <1>0, <2>1, <2>2 DEF Run, Channels
  <2> QED BY <1>0, <1>1, <2>1, <2>3
<1>6. ASSUME NEW p \in Updaters, InstallPackage(p) PROVE UpdateBounds'
  BY <1>0, <1>1, <1>3, <1>4, <1>6 DEF InstallPackage
<1>7. ASSUME NEW p \in Updaters, RefreshSetup(p) PROVE UpdateBounds'
  BY <1>0, <1>1, <1>3, <1>7 DEF RefreshSetup
<1>8. ASSUME NEW p \in Updaters, WriteStamp(p) PROVE UpdateBounds'
  <2> HIDE DEF Versions
  <2> QED BY <1>0, <1>1, <1>3, <1>8 DEF WriteStamp
<1>9. ASSUME NEW p \in Updaters, InstallFails(p) PROVE UpdateBounds'
  <2> HIDE DEF Versions
  <2>1. CASE UpdateStep(p, "rest", FALSE) /\ UNCHANGED <<installed, stamp>>
    BY <1>0, <1>1, <1>3, <1>9, <2>1 DEF InstallFails
  <2>2. CASE /\ UpdateStep(p, "rest", TRUE) /\ installed' = Wanted(updater[p].channel)
             /\ stamp' = [stamp EXCEPT !.doubt = TRUE]
    <3>1. stamp' \in [installed : Versions \cup {0}, setup : Versions \cup {0}, doubt : BOOLEAN]
      BY <1>0, <2>2
    <3> QED BY <1>0, <1>1, <1>3, <1>9, <2>2, <3>1 DEF InstallFails
  <2> QED BY <1>9, <2>1, <2>2 DEF InstallFails
<1>10. ASSUME NEW p \in Updaters, SetupFails(p) \/ UpdateDies(p) PROVE UpdateBounds'
  BY <1>0, <1>1, <1>3, <1>10 DEF SetupFails, UpdateDies
<1>11. CASE NewRelease
  BY <1>0, <1>1, <1>2, <1>11 DEF NewRelease
<1>12. ASSUME NEW version \in Versions, InstallByHand(version) PROVE UpdateBounds'
  BY <1>0, <1>1, <1>2, <1>4, <1>12 DEF InstallByHand
<1>13. CASE UNCHANGED updateVars
  BY <1>0, <1>1, <1>13 DEF updateVars
<1> QED BY <1>5, <1>6, <1>7, <1>8, <1>9, <1>10, <1>11, <1>12, <1>13 DEF UpdateNext

LEMMA UpdateTypes ==
  ASSUME MaxReleases \in Nat \ {0} PROVE UpdateInit /\ [][UpdateNext]_updateVars => []UpdateTypeOK
<1>1. UpdateInit => UpdateBounds
  <2> SUFFICES ASSUME UpdateInit PROVE UpdateBounds
    OBVIOUS
  <2>1. 1 \in Versions
    BY DEF Versions
  <2>2. stamp \in [installed : Versions \cup {Unknown}, setup : Versions \cup {Unknown}, doubt : BOOLEAN]
    <3> HIDE DEF Versions
    <3> QED BY <2>1 DEF UpdateInit
  <2>3. updater \in [Updaters -> Run] /\ \A p \in Updaters : updater[p] = NoUpdate
    BY DEF UpdateInit, NoUpdate, Run, Unknown
  <2> QED BY <2>1, <2>2, <2>3 DEF UpdateInit, UpdateBounds, UpdateTypeOK, NoUpdate, Unknown
<1>2. UpdateBounds => UpdateTypeOK
  BY DEF UpdateBounds
<1> QED BY <1>1, <1>2, UpdateBounded, PTL

(* The native session is that of a thread, or of nobody.                   *)
LEMMA TrackerTypes ==
  ASSUME Nobody \notin Threads PROVE TrackerInit /\ [][TrackerNext]_tracker => []TrackerTypeOK
<1> DEFINE Led == native \in Someone
<1>1. TrackerInit => Led
  BY DEF TrackerInit, Someone
<1>2. Led /\ [TrackerNext]_tracker => Led'
  BY DEF TrackerNext, StartSession, Attest, BeginSpawn, RecordParent, RecordChild, Someone, tracker
<1>3. TrackerInv /\ Led => TrackerTypeOK
  BY DEF TrackerInv, TrackerTypeOK
<1>4. TrackerInv /\ [TrackerNext]_tracker => TrackerInv'
  BY NextInv
<1> HIDE DEF Led
<1> QED BY <1>1, <1>2, <1>3, <1>4, InitInv, PTL

(* Announcements do not touch the turns, and turns not the announcements.  *)
AnnounceTypes ==
  /\ AnnounceShape /\ twice \in SUBSET (Buckets \X Texts) /\ announcements \in 0..MaxAnnouncements
TurnTypes ==
  /\ guard \in [by : SUBSET Turns, stale : BOOLEAN]
  /\ lastTurns \subseteq {ThreadOf[t] : t \in Turns}
  /\ seen \in [Turns -> SUBSET {ThreadOf[t] : t \in Turns}]

LEMMA AnnounceTypesHold ==
  ASSUME MaxAnnouncements \in Nat
  PROVE  AnnounceInit /\ [][AnnounceNext]_announceVars => []AnnounceTypes
<1>1. AnnounceInit => AnnounceTypes
  BY DEF AnnounceInit, AnnounceTypes, AnnounceShape, None, Resting, Buckets, Texts
<1>2. AnnounceTypes /\ [AnnounceNext]_announceVars => AnnounceTypes'
  <2> SUFFICES ASSUME AnnounceTypes, [AnnounceNext]_announceVars PROVE AnnounceTypes'
    OBVIOUS
  <2>1. AnnounceShape'
    BY AnnounceShapeKept DEF AnnounceTypes
  <2>2. \A p \in Announcers : What(p) \in Buckets \X Texts
    BY DEF AnnounceTypes, AnnounceShape, What
  <2>3. ASSUME NEW p \in Announcers, Announce(p)
        PROVE  twice' = twice /\ announcements' \in 0..MaxAnnouncements
    BY <2>3 DEF Announce, AnnounceTypes
  <2>4. ASSUME NEW p \in Announcers, Send(p) \/ SendTimesOut(p)
        PROVE  twice' \in SUBSET (Buckets \X Texts) /\ announcements' = announcements
    BY <2>2, <2>4 DEF Send, SendTimesOut, Taken, AnnounceTypes
  <2>5. ASSUME NEW p \in Announcers, Look(p) \/ SendFails(p) \/ Note(p)
        PROVE  twice' = twice /\ announcements' = announcements
    BY <2>5 DEF Look, SendFails, Note
  <2>6. CASE WindowPasses \/ UNCHANGED announceVars
    BY <2>1, <2>6 DEF WindowPasses, announceVars, AnnounceTypes
  <2> QED BY <2>1, <2>3, <2>4, <2>5, <2>6 DEF AnnounceTypes, AnnounceNext
<1> QED BY <1>1, <1>2, PTL

LEMMA TurnTypesHold == TurnInit /\ [][TurnNext]_turnVars => []TurnTypes
<1>1. TurnInit => TurnTypes
  BY DEF TurnInit, TurnTypes, Unguarded
<1>2. TurnTypes /\ [TurnNext]_turnVars => TurnTypes'
  <2> SUFFICES ASSUME TurnTypes, [TurnNext]_turnVars PROVE TurnTypes'
    OBVIOUS
  <2>0. /\ Unguarded \in [by : SUBSET Turns, stale : BOOLEAN]
        /\ \A t \in Turns : [by |-> {t}, stale |-> FALSE] \in [by : SUBSET Turns, stale : BOOLEAN]
    BY DEF Unguarded
  <2> USE DEF TurnTypes
  <2>1. ASSUME NEW t \in Turns, TurnEnds(t) \/ RunPrevious(t) \/ RunOwx(t) \/ Dies(t) PROVE TurnTypes'
    BY <2>1 DEF TurnEnds, RunPrevious, RunOwx, Dies
  <2>2. ASSUME NEW t \in Turns, UnlinkStale(t) \/ OpenLock(t) \/ ReleaseGuard(t) PROVE TurnTypes'
    BY <2>0, <2>2 DEF UnlinkStale, OpenLock, ReleaseGuard
  <2>3. ASSUME NEW t \in Turns, ReadGuard(t) PROVE TurnTypes'
    BY <2>0, <2>3 DEF ReadGuard
  <2>4. ASSUME NEW t \in Turns, NoteTurn(t) PROVE TurnTypes'
    BY <2>4 DEF NoteTurn
  <2>5. CASE LockAges \/ IntervalPasses \/ UNCHANGED turnVars
    BY <2>5 DEF LockAges, IntervalPasses, turnVars
  <2> QED BY <2>1, <2>2, <2>3, <2>4, <2>5 DEF TurnNext, TurnStep
<1> QED BY <1>1, <1>2, PTL

LEMMA NotificationTypes == AnnounceTypes /\ TurnTypes => NotificationsTypeOK
  BY DEF AnnounceTypes, AnnounceShape, TurnTypes, NotificationsTypeOK, Buckets
=============================================================================
