---------------------------- MODULE ExecFollowups ----------------------------
(***************************************************************************)
(* The queue of follow-up instructions of one exec session, as the         *)
(* processes that share it see it (src/exec/followup.ts).  "owx exec       *)
(* inject" appends a record, a Stop hook reads the pending ones, marks     *)
(* them delivered and then prints them.  Both change the file under a lock *)
(* that is a directory: mkdir takes it, rm removes it, whoever it belongs  *)
(* to, and a lock older than 30 s is removed by any process that waits.    *)
(* An injecting process injects one follow-up and is named like it.        *)
(***************************************************************************)
EXTENDS Naturals, FiniteSets

CONSTANTS
  Injectors,    \* the processes that inject, and their follow-ups
  Hooks,        \* the Stop hooks, each of which runs again and again
  MaxAttempts,  \* looks at a held lock before a process gives up (5 s)
  Failures,     \* may an operation under the lock fail?
  Free          \* nobody's lock

Procs == Injectors \cup Hooks

ASSUME FollowupAssumption ==
  /\ Injectors \cap Hooks = {} /\ Free \notin Injectors \cup Hooks
  /\ MaxAttempts \in Nat
  /\ Failures \in BOOLEAN

VARIABLES
  queue,     \* exec-followups.json: the status of each record
  lock,      \* who made the lock directory, and is it older than 30 s?
  pc,        \* where each process is
  attempts,  \* its looks at a held lock
  mine,      \* the queue it has read
  picked,    \* the follow-ups a hook is delivering
  shown      \* how often each follow-up was printed (history)

vars == <<queue, lock, pc, attempts, mine, picked, shown>>
local == <<attempts, mine, picked>>

Status == {"none", "pending", "delivered"}
Empty == [f \in Injectors |-> "none"]
Unlocked == [owner |-> Free, stale |-> FALSE]

Label == {"idle", "lock", "stat", "break", "owner", "read", "write",
          "release", "undo", "show", "audit", "failed", "done", "dead"}

Init ==
  /\ queue = Empty
  /\ lock = Unlocked
  /\ pc = [p \in Procs |-> "idle"]
  /\ attempts = [p \in Procs |-> 0]
  /\ mine = [p \in Procs |-> Empty]
  /\ picked = [h \in Hooks |-> {}]
  /\ shown = [f \in Injectors |-> 0]

At(p, label) == pc[p] = label
Goto(p, label) == pc' = [pc EXCEPT ![p] = label]
Held == lock.owner # Free

(* The queue p writes: its record appended, or its batch marked.           *)
(* Fault: the batch is rendered but the records are not marked.            *)
ChangedFault(p) ==
  IF p \in Injectors THEN [mine[p] EXCEPT ![p] = "pending"] ELSE mine[p]

Changed(p) ==
  IF p \in Injectors
  THEN [mine[p] EXCEPT ![p] = "pending"]
  ELSE [f \in Injectors |->
         IF f \in picked[p] /\ mine[p][f] = "pending" THEN "delivered" ELSE mine[p][f]]

-----------------------------------------------------------------------------
Inject(f) ==
  /\ f \in Injectors /\ At(f, "idle")
  /\ Goto(f, "lock")
  /\ UNCHANGED <<queue, lock, local, shown>>

(* readPendingExecFollowups takes no lock; nothing pending, nothing to do. *)
Peek(h) ==
  LET pending == {f \in Injectors : queue[f] = "pending"} IN
  /\ h \in Hooks /\ At(h, "idle") /\ pending # {}
  /\ picked' = [picked EXCEPT ![h] = pending]
  /\ attempts' = [attempts EXCEPT ![h] = 0]
  /\ Goto(h, "lock")
  /\ UNCHANGED <<queue, lock, mine, shown>>

(* withQueueLock: mkdir, and what follows when the directory exists        *)
(* Fault: mkdir accepts an existing directory, as recursive mkdir does.    *)
MakeLockFault(p) ==
  /\ At(p, "lock")
  /\ lock' = [owner |-> p, stale |-> FALSE]
  /\ Goto(p, "owner")
  /\ UNCHANGED <<queue, local, shown>>

MakeLock(p) ==
  /\ At(p, "lock") /\ ~Held
  /\ lock' = [owner |-> p, stale |-> FALSE]
  /\ Goto(p, "owner")
  /\ UNCHANGED <<queue, local, shown>>

Exists(p) ==
  /\ At(p, "lock") /\ Held
  /\ Goto(p, "stat")
  /\ UNCHANGED <<queue, lock, local, shown>>

Vanished(p) ==
  /\ At(p, "stat") /\ ~Held
  /\ Goto(p, "lock")
  /\ UNCHANGED <<queue, lock, local, shown>>

SeeStale(p) ==
  /\ At(p, "stat") /\ lock.stale
  /\ Goto(p, "break")
  /\ UNCHANGED <<queue, lock, local, shown>>

Break(p) ==
  /\ At(p, "break")
  /\ lock' = Unlocked
  /\ Goto(p, "lock")
  /\ UNCHANGED <<queue, local, shown>>

(* The process throws; a hook process is over, the next Stop starts anew.  *)
Throws(p) ==
  /\ Goto(p, IF p \in Hooks THEN "idle" ELSE "failed")
  /\ UNCHANGED <<queue, local, shown>>

(* It waits and tries again, or gives up.                                 *)
Wait(p) ==
  /\ At(p, "stat") /\ Held /\ ~lock.stale
  /\ IF attempts[p] < MaxAttempts
     THEN /\ attempts' = [attempts EXCEPT ![p] = @ + 1]
          /\ Goto(p, "lock")
          /\ UNCHANGED <<queue, mine, picked, shown>>
     ELSE Throws(p)
  /\ UNCHANGED lock

(* owner.json is written into the directory, if that is still there; the   *)
(* finally block is not in force yet.                                      *)
WriteOwner(p) ==
  /\ At(p, "owner") /\ Held
  /\ Goto(p, "read")
  /\ UNCHANGED <<queue, lock, local, shown>>

OwnerFails(p) ==
  /\ At(p, "owner") /\ ~Held
  /\ Throws(p)
  /\ UNCHANGED lock

-----------------------------------------------------------------------------
(* The operation under the lock                                            *)
ReadQueue(p) ==
  /\ At(p, "read")
  /\ mine' = [mine EXCEPT ![p] = queue]
  /\ Goto(p, "write")
  /\ UNCHANGED <<queue, lock, attempts, picked, shown>>

(* writeQueue renames; a hook writes nothing if it has nothing to mark.    *)
WriteQueue(p) ==
  /\ At(p, "write")
  /\ queue' = IF Changed(p) = mine[p] THEN queue ELSE Changed(p)
  /\ Goto(p, "release")
  /\ UNCHANGED <<lock, local, shown>>

(* A read, an audit entry or a write fails: the finally block still runs.  *)
Fail(p) ==
  /\ Failures /\ pc[p] \in {"read", "write"}
  /\ Goto(p, "undo")
  /\ UNCHANGED <<queue, lock, local, shown>>

(* Fault: a hook that has marked something has nothing left to print.      *)
ReleaseFault(p) ==
  /\ At(p, "release")
  /\ lock' = Unlocked
  /\ Goto(p, IF p \in Hooks THEN "idle" ELSE "audit")
  /\ UNCHANGED <<queue, local, shown>>

Release(p) ==
  /\ At(p, "release")
  /\ lock' = Unlocked
  /\ Goto(p, IF p \in Hooks THEN "show" ELSE "audit")
  /\ UNCHANGED <<queue, local, shown>>

Undo(p) ==
  /\ At(p, "undo")
  /\ lock' = Unlocked
  /\ Throws(p)

(* The hook answers the Stop event with the batch it read before the lock. *)
Show(h) ==
  /\ h \in Hooks /\ At(h, "show")
  /\ shown' = [f \in Injectors |-> IF f \in picked[h] THEN shown[f] + 1 ELSE shown[f]]
  /\ Goto(h, "idle")
  /\ UNCHANGED <<queue, lock, local>>

(* The audit entry after the lock: if it fails the injection is reported   *)
(* as failed although the record is in the queue.                          *)
Report(f) ==
  /\ f \in Injectors /\ At(f, "audit")
  /\ \/ Goto(f, "done")
     \/ Failures /\ Goto(f, "failed")
  /\ UNCHANGED <<queue, lock, local, shown>>

-----------------------------------------------------------------------------
(* A process dies, or cannot write owner.json into the directory it has    *)
(* made: the lock stays, and ages.                                         *)
Crash(p) ==
  /\ pc[p] \notin {"idle", "failed", "done", "dead"}
  /\ Goto(p, "dead")
  /\ UNCHANGED <<queue, lock, local, shown>>

Age ==
  /\ Held /\ ~lock.stale /\ At(lock.owner, "dead")
  /\ lock' = [lock EXCEPT !.stale = TRUE]
  /\ UNCHANGED <<queue, pc, local, shown>>

Step(p) ==
  \/ MakeLock(p) \/ Exists(p) \/ Vanished(p) \/ Wait(p) \/ WriteOwner(p)
  \/ ReadQueue(p) \/ WriteQueue(p) \/ Release(p) \/ Undo(p) \/ Show(p) \/ Report(p)

Next == \E p \in Procs : Inject(p) \/ Peek(p) \/ Step(p) \/ Fail(p)

(* A running process goes on; nobody is obliged to inject or to stop.      *)
Spec == Init /\ [][Next]_vars /\ \A p \in Procs : WF_vars(Step(p))

(* With processes that leave their locks behind.                           *)
OrphanStep(p) == Step(p) \/ SeeStale(p) \/ Break(p) \/ OwnerFails(p)
OrphanNext == Next \/ (\E p \in Procs : OrphanStep(p) \/ Crash(p)) \/ Age
OrphanSpec == Init /\ [][OrphanNext]_vars /\ \A p \in Procs : WF_vars(OrphanStep(p))
-----------------------------------------------------------------------------
TypeOK ==
  /\ queue \in [Injectors -> Status]
  /\ lock \in [owner : Procs \cup {Free}, stale : BOOLEAN]
  /\ pc \in [Procs -> Label]
  /\ attempts \in [Procs -> 0 .. MaxAttempts]
  /\ mine \in [Procs -> [Injectors -> Status]]
  /\ picked \in [Hooks -> SUBSET Injectors]
  /\ shown \in [Injectors -> Nat]

(* No update is lost: a follow-up whose injection was reported as queued   *)
(* stays in the queue, whatever other injections and hooks write.          *)
QueuedKept == \A f \in Injectors : At(f, "done") => queue[f] # "none"

(* A follow-up that is marked delivered was printed or is in the hands of  *)
(* a hook that has yet to print it: no hook swallows an instruction.       *)
DeliveredInHand ==
  \A f \in Injectors : queue[f] = "delivered" =>
    \/ shown[f] > 0
    \/ \E h \in Hooks : f \in picked[h] /\ pc[h] \in {"release", "show"}

(* Without an orphaned lock, whatever the interleaving and the failures,   *)
(* the file and the output behave as FollowupQueue: no record is lost or   *)
(* marked twice, none is printed unmarked, each is printed in the end, and *)
(* by each hook at most once: exactly once if one hook runs at a time.     *)
Abstract == INSTANCE FollowupQueue WITH
  Followups <- Injectors, Readers <- Cardinality(Hooks)
Implements == Abstract!Spec

(* Every process ends, also when another has left the lock behind: the     *)
(* wait for a lock is bounded, and so is the number of times it is free.   *)
Over == {"idle", "failed", "done", "dead"}
EveryProcessEnds == \A p \in Procs : pc[p] \notin Over ~> pc[p] \in Over
=============================================================================
