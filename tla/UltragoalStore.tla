---------------------------- MODULE UltragoalStore ----------------------------
(***************************************************************************)
(* The two files behind Ultragoal, and the processes that read and write   *)
(* them: each owx command is a process that takes .mutation.lock by an     *)
(* exclusive create, stamps it with its pid, reads goals.json, renames a   *)
(* new goals.json into place, appends to ledger.jsonl and removes the      *)
(* lock.  A process may crash between any two of these, and each of these  *)
(* may fail, the stamp and the removal of the lock included.  Four commands*)
(* stand for all: one that replaces both files, one that appends a goal,   *)
(* one that also reads the ledger, and one that may log without writing    *)
(* the plan; the status command reads, and may migrate, without the lock.  *)
(***************************************************************************)
EXTENDS UltragoalPlan

CONSTANTS
  Procs,        \* processes that run commands, one after another
  Settings,     \* the commands run, what may go wrong, and whether a plan of
                \* an earlier version exists at the start
  MaxAttempts   \* tries to take the lock before a command gives up

Kind == {"create", "add", "steer", "start", "status"}

(* A process crashes, an operation on a file fails.                        *)
Fault == {"crash", "failure"}

ASSUME StoreAssumption ==
  /\ Settings \subseteq [kinds : SUBSET Kind, faults : SUBSET Fault, legacy : BOOLEAN]
  /\ MaxAttempts \in Nat \ {0}

VARIABLES
  plan, ledger,  \* goals.json and ledger.jsonl
  lock,          \* does .mutation.lock exist?
  pc,            \* where each process is in its command
  attempts,      \* its failed attempts to take the lock
  mine,          \* what it has read and is about to write
  times,         \* how often each key was applied to this plan (history)
  abandoned,     \* was the lock file left behind by its command? (history)
  setting        \* which of the settings this is

vars == <<plan, ledger, lock, pc, attempts, mine, times, abandoned, setting>>
files == <<plan, ledger>>

Label == {"idle", "acquire", "stamp", "read", "migrate", "migrated", "decide",
          "write", "truncate", "append", "log", "release"}

Nothing == [kind |-> "status", key |-> NoKey, next |-> NoPlan,
            entry |-> EntryOf("plan_created", NoGoal)]

Init ==
  /\ setting \in Settings
  /\ plan = IF setting.legacy THEN [Created("aggregate", 1) EXCEPT !.legacy = TRUE] ELSE NoPlan
  /\ ledger = EmptyLedger
  /\ lock = FALSE
  /\ pc = [p \in Procs |-> "idle"]
  /\ attempts = [p \in Procs |-> 0]
  /\ mine = [p \in Procs |-> Nothing]
  /\ times = [k \in Keys |-> 0]
  /\ abandoned = FALSE

At(p, label) == pc[p] = label
Goto(p, label) == pc' = [pc EXCEPT ![p] = label]
Locks(kind) == kind # "status"

(* p created the lock file and has not removed it yet.                     *)
Holds(p) == Locks(mine[p].kind) /\ pc[p] \notin {"idle", "acquire"}

(* The command ends, with a result or by throwing: the finally block of    *)
(* withUltragoalMutationLock comes next if the process holds the lock.     *)
Leave(p) == IF Locks(mine[p].kind) THEN "release" ELSE "idle"

(* What the process keeps in memory is forgotten when its command is over. *)
Ends(p) ==
  /\ Goto(p, "idle")
  /\ attempts' = [attempts EXCEPT ![p] = 0]
  /\ mine' = [mine EXCEPT ![p] = Nothing]
  /\ UNCHANGED <<files, times>>

-----------------------------------------------------------------------------
Begin(p, kind, key) ==
  /\ At(p, "idle")
  /\ kind # "steer" => key = NoKey
  /\ mine' = [mine EXCEPT ![p] = [Nothing EXCEPT !.kind = kind, !.key = key]]
  /\ Goto(p, IF Locks(kind) THEN "acquire" ELSE "read")
  /\ UNCHANGED <<files, lock, attempts, times>>

(* Fault: the lock file is opened without the exclusive flag.              *)
AcquireFault(p) ==
  /\ At(p, "acquire")
  /\ lock' = TRUE
  /\ Goto(p, "stamp")
  /\ UNCHANGED <<files, attempts, mine, times>>

Acquire(p) ==
  /\ At(p, "acquire") /\ ~lock
  /\ lock' = TRUE
  /\ Goto(p, "stamp")
  /\ UNCHANGED <<files, attempts, mine, times>>

(* The pid goes into the new lock file; only then does the try block start *)
(* whose finally removes it.                                               *)
Stamp(p) ==
  /\ At(p, "stamp")
  /\ Goto(p, IF mine[p].kind = "create" THEN "decide" ELSE "read")
  /\ UNCHANGED <<files, lock, attempts, mine, times>>

(* Fault: the attempts are not counted.                                    *)
RetryUncounted(p) ==
  /\ At(p, "acquire") /\ lock /\ attempts[p] < MaxAttempts - 1
  /\ UNCHANGED <<files, lock, pc, attempts, mine, times>>

Retry(p) ==
  /\ At(p, "acquire") /\ lock /\ attempts[p] < MaxAttempts - 1
  /\ attempts' = [attempts EXCEPT ![p] = @ + 1]
  /\ UNCHANGED <<files, lock, pc, mine, times>>

TimeOut(p) ==
  /\ At(p, "acquire") /\ lock /\ attempts[p] = MaxAttempts - 1
  /\ Ends(p)
  /\ UNCHANGED lock

(* readUltragoalPlan                                                       *)
ReadMissing(p) ==
  /\ At(p, "read") /\ ~Exists(plan)
  /\ Goto(p, Leave(p))
  /\ UNCHANGED <<files, lock, attempts, mine, times>>

Read(p) ==
  /\ At(p, "read") /\ Exists(plan)
  /\ mine' = [mine EXCEPT ![p].next = Migrated(plan)]
  /\ Goto(p, IF plan.legacy THEN "migrate" ELSE "decide")
  /\ UNCHANGED <<files, lock, attempts, times>>

MigrateWrite(p) ==
  /\ At(p, "migrate")
  /\ plan' = mine[p].next
  /\ Goto(p, "migrated")
  /\ UNCHANGED <<ledger, lock, attempts, mine, times>>

MigrateAppend(p) ==
  /\ At(p, "migrated")
  /\ ledger' = Logged(ledger, EntryOf("aggregate_objective_migrated", NoGoal))
  /\ Goto(p, "decide")
  /\ UNCHANGED <<plan, lock, attempts, mine, times>>

-----------------------------------------------------------------------------
(* What each command does with the plan it has read                        *)
Decides(p, next, entry, label) ==
  /\ At(p, "decide")
  /\ mine' = [mine EXCEPT ![p].next = next, ![p].entry = entry]
  /\ Goto(p, label)
  /\ UNCHANGED <<files, lock, attempts, times>>

DecideNothing(p) == Decides(p, mine[p].next, mine[p].entry, Leave(p))

DecideCreate(p) ==
  /\ mine[p].kind = "create"
  /\ \E force \in BOOLEAN :
       IF force \/ ~Exists(plan)
       THEN Decides(p, Created("aggregate", 1), EntryOf("plan_created", NoGoal), "write")
       ELSE DecideNothing(p)

DecideAdd(p) ==
  /\ mine[p].kind = "add" /\ mine[p].next.size < MaxGoals
  /\ Decides(p, Appended(mine[p].next), EntryOf("goal_added", mine[p].next.size + 1), "write")

(* A proposal of kind add_subgoal; the ledger is read for its key.         *)
(* Fault: the acceptance is logged, the plan is not written.               *)
DecideSteerFault(p) ==
  /\ mine[p].kind = "steer" /\ ~Deduplicated(ledger, mine[p].key)
  /\ Decides(p, mine[p].next,
             [EntryOf("steering_accepted", NoGoal) EXCEPT !.key = mine[p].key], "log")

DecideSteer(p) ==
  /\ mine[p].kind = "steer"
  /\ IF Deduplicated(ledger, mine[p].key) THEN DecideNothing(p)
     ELSE /\ mine[p].next.size < MaxGoals
          /\ Decides(p, Appended(mine[p].next),
                     [EntryOf("steering_accepted", NoGoal) EXCEPT !.key = mine[p].key], "write")

DecideStart(p) ==
  LET seen == mine[p].next IN
  /\ mine[p].kind = "start"
  /\ \/ \E g \in Ids(seen) :
          Resumable(seen, g) /\ Decides(p, seen, EntryOf("goal_resumed", g), "log")
     \/ \E g \in Ids(seen) :
          CanStart(seen, g) /\ Decides(p, Started(seen, g), EntryOf("goal_started", g), "write")
     \/ /\ \A g \in Ids(seen) : ~Resumable(seen, g) /\ ~CanStart(seen, g)
        /\ DecideNothing(p)

(* Status prints; a command that meets the bound on goals is abandoned.    *)
DecideStatus(p) ==
  /\ \/ mine[p].kind = "status"
     \/ /\ mine[p].kind \in {"add", "steer"} /\ mine[p].next.size = MaxGoals
        /\ ~Deduplicated(ledger, mine[p].key)
  /\ DecideNothing(p)

Decide(p) ==
  DecideCreate(p) \/ DecideAdd(p) \/ DecideSteer(p) \/ DecideStart(p) \/ DecideStatus(p)

-----------------------------------------------------------------------------
(* writePlan: the rename makes the new plan visible at once.               *)
WritePlan(p) ==
  /\ At(p, "write")
  /\ plan' = mine[p].next
  /\ times' = IF mine[p].kind = "create" THEN [k \in Keys |-> 0]
              ELSE [k \in Keys |-> IF k = mine[p].key THEN times[k] + 1 ELSE times[k]]
  /\ Goto(p, IF mine[p].kind = "create" THEN "truncate" ELSE "append")
  /\ UNCHANGED <<ledger, lock, attempts, mine>>

TruncateLedger(p) ==
  /\ At(p, "truncate")
  /\ ledger' = EmptyLedger
  /\ Goto(p, "append")
  /\ UNCHANGED <<plan, lock, attempts, mine, times>>

AppendLedger(p) ==
  /\ At(p, "append") \/ At(p, "log")
  /\ ledger' = Logged(ledger, mine[p].entry)
  /\ Goto(p, "release")
  /\ UNCHANGED <<plan, lock, attempts, mine, times>>

Release(p) ==
  /\ At(p, "release")
  /\ lock' = FALSE
  /\ Ends(p)

(* A read, a rename, a truncation or an append fails: the command throws.  *)
(* Fault: the command throws past the finally block.                       *)
FailFault(p) ==
  /\ "failure" \in setting.faults
  /\ pc[p] \in {"read", "migrate", "migrated", "decide", "write", "truncate", "append", "log"}
  /\ Goto(p, "idle")
  /\ UNCHANGED <<files, lock, attempts, mine, times>>

Fail(p) ==
  /\ "failure" \in setting.faults
  /\ pc[p] \in {"read", "migrate", "migrated", "decide", "write", "truncate", "append", "log"}
  /\ Goto(p, Leave(p))
  /\ UNCHANGED <<files, lock, attempts, mine, times>>

(* The lock's own file: it cannot be created, for another reason than that *)
(* it exists; it cannot be stamped, so the command throws before the try   *)
(* block; its removal fails, which the finally block swallows.             *)
FailLock(p) ==
  /\ "failure" \in setting.faults
  /\ pc[p] \in {"acquire", "stamp", "release"}
  /\ Ends(p)
  /\ UNCHANGED lock

(* The process dies: nobody removes the lock file it created.              *)
Crash(p) ==
  /\ "crash" \in setting.faults /\ ~At(p, "idle")
  /\ Ends(p)
  /\ UNCHANGED lock

Step(p) ==
  /\ \/ Acquire(p) \/ Stamp(p) \/ Retry(p) \/ TimeOut(p)
     \/ ReadMissing(p) \/ Read(p) \/ MigrateWrite(p) \/ MigrateAppend(p)
     \/ Decide(p) \/ WritePlan(p) \/ TruncateLedger(p) \/ AppendLedger(p) \/ Release(p)
  /\ UNCHANGED <<abandoned, setting>>

Next ==
  \E p \in Procs :
    \/ Step(p)
    \/ /\ (\E kind \in setting.kinds, key \in Keys \cup {NoKey} : Begin(p, kind, key)) \/ Fail(p)
       /\ UNCHANGED <<abandoned, setting>>
    \/ /\ FailLock(p) \/ Crash(p)
       /\ abandoned' = (abandoned \/ Holds(p))
       /\ UNCHANGED setting

(* A running process goes on; nobody is obliged to start a command.        *)
Spec == Init /\ [][Next]_vars /\ \A p \in Procs : WF_vars(Step(p))
-----------------------------------------------------------------------------
TypeOK ==
  /\ IsPlan(plan) /\ ledger \in Ledger /\ {lock, abandoned} \subseteq BOOLEAN
  /\ pc \in [Procs -> Label] /\ attempts \in [Procs -> 0 .. MaxAttempts - 1]
  /\ \A p \in Procs : IsPlan(mine[p].next) /\ mine[p].entry \in Entry

(* The ledger as Ultragoal knows it holds the entry of a command from the  *)
(* moment its plan is in place.                                            *)
PendingLedger ==
  LET written == {p \in Procs : pc[p] \in {"truncate", "append"}}
      migrating == {p \in Procs : At(p, "migrated")} IN
  IF written # {}
  THEN LET p == CHOOSE p \in written : TRUE IN
       Logged(IF At(p, "truncate") THEN EmptyLedger ELSE ledger, mine[p].entry)
  ELSE IF migrating # {}
       THEN Logged(ledger, EntryOf("aggregate_objective_migrated", NoGoal))
       ELSE ledger

Abstract == INSTANCE Ultragoal WITH
  ledger <- PendingLedger, Legacy <- TRUE, Modes <- {"aggregate"}, MaxInitial <- 1,
  MaxChildren <- 0, MaxBlockers <- 0, AllowActive <- {FALSE}

(* Under the lock the commands are atomic: whatever the interleaving, the  *)
(* files change as if each command ran alone when it renamed its plan.     *)
Implements ==
  /\ Abstract!Init
  /\ [][setting.faults # {} \/ Abstract!Next \/ UNCHANGED <<plan, PendingLedger>>]_vars

(* No command loses a goal another command added.                          *)
GoalsKept ==
  [][plan'.size >= plan.size \/ \E p \in Procs : mine[p].kind = "create"]_vars

(* A steering directive is applied to a plan once, however often it is     *)
(* submitted: the same key never changes the plan a second time.           *)
KeyAppliedOnce == \A k \in Keys : times[k] <= 1

(* That much holds wherever no write fails, crashes included.              *)
KeyAppliedOnceByWrites == "failure" \notin setting.faults => KeyAppliedOnce

(* The ledger tells the truth: a key it lists as accepted has changed the  *)
(* plan, so a deduplicated directive is one whose effect is there.  Only   *)
(* a command that creates the plan anew may die before the old ledger goes. *)
AcceptedApplied ==
  "create" \notin setting.kinds => \A k \in ledger.accepted : times[k] >= 1

(* Every command ends, with a result or an error, even when another one    *)
(* left the lock file behind.                                              *)
EveryCommandEnds == \A p \in Procs : ~At(p, "idle") ~> At(p, "idle")

(* The lock file goes again, however the command that created it ends: it  *)
(* stays only where the process died, or the stamp or the removal of the   *)
(* lock file itself failed.  Where it stays every later command times out. *)
LockReleased == lock ~> (~lock \/ abandoned)
=============================================================================
