----------------------------- MODULE GoalGates -----------------------------
(***************************************************************************)
(* The two goal workflows that wait for a verdict, performance-goal        *)
(* (src/performance-goal/artifacts.ts) and autoresearch-goal               *)
(* (src/autoresearch/goal.ts).  Both keep a goal file and a ledger under   *)
(* one slug; performance-goal keeps the last verdict in the goal file,     *)
(* autoresearch-goal in a file of its own, completion.json.                *)
(*                                                                         *)
(* Every process runs one command of the CLI after the other, without a    *)
(* lock, and may be killed between two writes.  That the Codex goal        *)
(* matches (a fresh, complete snapshot) is an input, and a refused command *)
(* changes nothing.                                                        *)
(*                                                                         *)
(* History, of which the code keeps nothing: `made' numbers the goals      *)
(* created under the slug, so that a verdict tells which goal it is about; *)
(* `proof' is the goal whose verdict a goal was completed on, `alone' that *)
(* no other command was under way while the goal was last written.         *)
(***************************************************************************)
EXTENDS Naturals

CONSTANTS
  Workflow,     \* "performance" or "autoresearch"
  Processes,
  Forces,       \* whether create may be given --force: a set of booleans
  MaxMade       \* bound on the goals created under the slug

VARIABLES
  goal,         \* the goal file: status, verdict (performance only), made, proof, alone
  completion,   \* completion.json: verdict and the goal it was given for
  ledger,       \* the status in the last event of the ledger
  command,      \* what each process is doing, with the goal it has read
  past          \* the goals created, those a passing completion.json was written for

gateVars == <<goal, completion, ledger, command, past>>

Verdicts == {"pass", "fail", "blocked"}
Statuses == {"created", "in_progress", "passed", "failed", "blocked", "complete"}
NoGoal == [status |-> "none", verdict |-> "none", made |-> 0, proof |-> 0, alone |-> FALSE]
Quiet == [pc |-> "idle", goal |-> NoGoal, verdict |-> "none", alone |-> FALSE]

StatusOf(verdict) ==
  CASE verdict = "pass" -> "passed" [] verdict = "fail" -> "failed" [] OTHER -> "blocked"

Does(p, pc) == command[p].pc = pc

\* The last write of a command is the event in the ledger.
LastWrite(status) == [Quiet EXCEPT !.pc = "append", !.goal = [NoGoal EXCEPT !.status = status]]

\* A command begins with what it has read; a complete that is under way then
\* is not alone any more.
Begin(p, call) ==
  command' = [q \in Processes |->
    IF q = p THEN call ELSE [command[q] EXCEPT !.alone = FALSE]]

\* create: without --force an existing goal file refuses it.  The ledger is
\* emptied before the goal file is written, and completion.json is left alone.
Create(p, force) ==
  /\ Does(p, "idle")
  /\ goal.status # "none" => force
  /\ past.made < MaxMade
  /\ past' = [past EXCEPT !.made = @ + 1]
  /\ ledger' = "none"
  /\ Begin(p, [Quiet EXCEPT !.pc = "write",
                 !.goal = [NoGoal EXCEPT !.status = "created", !.made = past.made + 1]])
  /\ UNCHANGED <<goal, completion>>

\* start / handoff: the first one takes the goal in progress.
Handoff(p) ==
  /\ Does(p, "idle") /\ goal.status # "none"
  /\ Begin(p, IF goal.status = "created"
              THEN [Quiet EXCEPT !.pc = "write", !.goal = [goal EXCEPT !.status = "in_progress"]]
              ELSE LastWrite(goal.status))
  /\ UNCHANGED <<goal, completion, ledger, past>>

\* checkpoint / verdict: refused once the goal is complete.
Checkpoint(p, verdict) ==
  /\ Does(p, "idle") /\ goal.status \notin {"none", "complete"}
  /\ Begin(p, [pc |-> "write", verdict |-> verdict, alone |-> FALSE,
       goal |-> [goal EXCEPT !.status = StatusOf(verdict),
                             !.verdict = IF Workflow = "performance" THEN verdict ELSE @]])
  /\ UNCHANGED <<goal, completion, ledger, past>>

\* complete reads the goal file, then the verdict where its workflow keeps it.
ReadForCompletion(p) ==
  /\ Does(p, "idle") /\ goal.status # "none"
  /\ Begin(p, [pc |-> "gate", goal |-> goal, verdict |-> "none",
               alone |-> \A q \in Processes \ {p} : Does(q, "idle")])
  /\ UNCHANGED <<goal, completion, ledger, past>>

\* Fault: a goal whose status says that it passed needs no verdict.
PassedFault(p) == command[p].goal.status = "passed" \/ completion.verdict = "pass"

Passed(p) ==
  IF Workflow = "performance" THEN command[p].goal.verdict = "pass"
  ELSE completion.verdict = "pass"

Complete(p) ==
  /\ Does(p, "gate")
  /\ command' = [command EXCEPT ![p] =
       IF Passed(p)
       THEN [@ EXCEPT !.pc = "write", !.goal.status = "complete", !.goal.proof = completion.made]
       ELSE Quiet]
  /\ UNCHANGED <<goal, completion, ledger, past>>

\* The writes of every command: the goal file, completion.json, the ledger.
WriteGoal(p) ==
  /\ Does(p, "write")
  /\ goal' = [command[p].goal EXCEPT !.alone = command[p].alone]
  /\ command' = [command EXCEPT ![p] =
       IF Workflow = "autoresearch" /\ @.verdict # "none" THEN [@ EXCEPT !.pc = "completion"]
       ELSE LastWrite(@.goal.status)]
  /\ UNCHANGED <<completion, ledger, past>>

WriteCompletion(p) ==
  /\ Does(p, "completion")
  /\ completion' = [verdict |-> command[p].verdict, made |-> command[p].goal.made]
  /\ past' = [past EXCEPT !.passed = IF command[p].verdict = "pass"
                                     THEN @ \cup {command[p].goal.made} ELSE @]
  /\ command' = [command EXCEPT ![p] = LastWrite(@.goal.status)]
  /\ UNCHANGED <<goal, ledger>>

AppendLedger(p) ==
  /\ Does(p, "append")
  /\ ledger' = command[p].goal.status
  /\ command' = [command EXCEPT ![p] = Quiet]
  /\ UNCHANGED <<goal, completion, past>>

Killed(p) ==
  /\ ~Does(p, "idle")
  /\ command' = [command EXCEPT ![p] = Quiet]
  /\ UNCHANGED <<goal, completion, ledger, past>>

GateInit ==
  /\ goal = NoGoal
  /\ completion = [verdict |-> "none", made |-> 0]
  /\ ledger = "none"
  /\ command = [p \in Processes |-> Quiet]
  /\ past = [made |-> 0, passed |-> {}]

\* The commands of the CLI.
Asked(p) ==
  \/ \E force \in Forces : Create(p, force)
  \/ Handoff(p)
  \/ \E verdict \in Verdicts : Checkpoint(p, verdict)
  \/ ReadForCompletion(p)

GateNext ==
  \E p \in Processes :
    \/ Asked(p) \/ Complete(p)
    \/ WriteGoal(p)
    \/ Workflow = "autoresearch" /\ WriteCompletion(p)
    \/ AppendLedger(p) \/ Killed(p)

GateSpec == GateInit /\ [][GateNext]_gateVars

-----------------------------------------------------------------------------
GateTypeOK ==
  /\ goal \in [status : Statuses \cup {"none"}, verdict : Verdicts \cup {"none"}, made : 0..MaxMade,
               proof : 0..MaxMade, alone : BOOLEAN]
  /\ completion \in [verdict : Verdicts \cup {"none"}, made : 0..MaxMade]
  /\ ledger \in Statuses \cup {"none"}
  /\ past \in [made : 0..MaxMade, passed : SUBSET (0..MaxMade)]
  /\ \A p \in Processes :
       command[p].pc \in {"idle", "gate", "write", "completion", "append"}

(***************************************************************************)
(* A goal is complete only on a passing verdict that was given for it: the *)
(* goal that was created last under the slug, not one it replaced          *)
(* (performance-goal/artifacts.ts:258, autoresearch/goal.ts:233, and "     *)
(* Completion is blocked until professor-critic validation records         *)
(* verdict=pass" in skills/autoresearch-goal/SKILL.md:31).                 *)
(* performance-goal keeps to it; autoresearch-goal keeps to GateEarned.    *)
(***************************************************************************)
GateHolds == goal.status = "complete" =>
  IF Workflow = "performance" THEN goal.verdict = "pass"
  ELSE completion.verdict = "pass" /\ completion.made = goal.made

(***************************************************************************)
(* With any number of processes, with and without --force and killed       *)
(* anywhere, an autoresearch goal is complete only on a pass that a        *)
(* verdict command recorded (autoresearch/goal.ts:233): one of its own, if *)
(* it is the only goal ever created under the slug, and the verdict that   *)
(* completion.json still holds, if no other command was under way while it *)
(* was completed.                                                          *)
(***************************************************************************)
GateEarned == goal.status = "complete" =>
  /\ goal.proof \in past.passed
  /\ past.made = 1 => goal.proof = goal.made
  /\ goal.alone => completion.verdict = "pass" /\ completion.made = goal.proof
=============================================================================
