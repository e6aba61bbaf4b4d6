# A TLA+ verification project for owen-codex (`owx`)

`owx` wraps the Codex CLI with workflow modes (autopilot, ralph, ralplan,
ultragoal, ...), durable plans, hooks, MCP servers and account rotation. It has
no daemon and no database: every `owx` command, hook invocation and MCP server is
a process of its own, and they all share JSON and JSONL files under `.owx/`. What
makes it correct is therefore the order in which short-lived processes read and
write a few files, and what one command may do to a plan that another one left.
This directory models that, in TLA+, checks it with TLC and proves the most
important parts with TLAPS.

## 1. Inventory

Paths are relative to the repository root; the TypeScript lives in `src/`.

| Component | State it keeps | Operations | What is hard about it |
| --- | --- | --- | --- |
| Ultragoal: `src/ultragoal/artifacts.ts` (CLI `src/cli/ultragoal.ts`, prompt-submit steering) | `.owx/ultragoal/goals.json` (plan), `ledger.jsonl` (audit), `.mutation.lock` | create, add-goal, complete-goals (start next), checkpoint complete / failed / blocked, record-review-blockers, steer (six kinds), status | concurrent commands, a lock file, two files changed one after the other, long legal sequences of steering and checkpoints |
| Codex goal snapshots: `src/goal-workflows/codex-goal-snapshot.ts` | none | parse and reconcile a `get_goal` answer | decides which checkpoints are refused |
| Workflow state: `src/state/*.ts`, `src/modes/base.ts` | one `<mode>-state.json` per mode, in the root and in each session directory; `skill-active-state.json`, in the root and in each session directory | state_write, state_clear, startMode, updateModeState, cancelMode, transition reconciliation | a queue per path in memory only, several files per operation, session and root copies that must agree |
| Run outcome: `src/runtime/run-outcome.ts`, `run-state.ts`, `run-loop.ts` | `run-state.json` | normalise and infer outcomes, run until terminal | legacy aliases, contradictory fields |
| Autopilot: `src/autopilot/*.ts` | the autopilot mode file | child-phase transitions, deep-interview and ralplan gates | gates evaluated on evidence that may be stale |
| Pipeline: `src/pipeline/*.ts` | the autopilot mode file | run stages, skip, return to ralplan, fail, resume | a review that is never clean, one cycle counter for two gates |
| Ralplan: `src/ralplan/*.ts` | the ralplan mode file | draft, architect review, critic review, iterate | order and freshness of the two reviews |
| Subagent tracker: `src/subagents/tracker.ts` | `subagent-tracking.json`, a lock file | record a turn, attest the leader, summarise | who is leader depends on the order of events; stale lock takeover |
| Exec follow-ups: `src/exec/followup.ts` | `exec-followups.json` of a session, a lock directory | inject, deliver at the Stop hook | read before lock, stale lock takeover, delivered before printed |
| Account slots: `src/auth/*.ts` | slot files, `metadata.json`, the live `auth.json` | add, use, mark quota, hot swap | rotation over slots that run out, metadata written without a lock |
| Autoresearch: `src/autoresearch/*.ts` | active-run file, manifest, ledger, git worktree | prepare, process a candidate, decide keep / discard, stop, resume | check-then-write lock, reset to the last kept commit after failures |
| Performance goal: `src/performance-goal/artifacts.ts` | `state.json`, `ledger.jsonl` | create, start, checkpoint, complete | completion only after a passing validation |
| Session pointer: `src/hooks/session.ts` | `session.json` | start, reconcile with the native session, end | an end event that does not own the pointer, dead processes and reused pids |
| MCP lifecycle: `src/mcp/bootstrap.ts` | process table, traffic time stamps | watchdog: duplicate sibling, hard cap, parent death | every server decides alone which one survives |
| Notifications and hook broadcast: `src/notifications/*.ts`, `src/hooks/extensibility/*.ts` | cooldown and fingerprint files | check, send, record | check and record are apart |
| Wiki: `src/wiki/*.ts` | pages, index, log, lock directory | write, delete, ingest, query | a lock that a crash leaves behind |
| Ralph: `src/ralph/*.ts` | PRD, progress ledger | migrate, audit completion | mostly texts |
| Keyword detection and native hook: `src/hooks/*.ts`, `src/scripts/codex-native-hook.ts` | the session copy of skill-active, the last Stop signature | switch modes by prompt, guard edits, decide Stops | decisions by a copy, a cascade of checks, repeats |
| Setup, uninstall, update, doctor, configuration: `src/cli/*.ts`, `src/config/*.ts` | `config.toml`, `hooks.json`, AGENTS.md, catalog files, backups, the install stamp | generate, merge, remove, diagnose | files the user owns too, sequences of writes cut anywhere, advice that must heal |
| MCP tool servers: `src/mcp/*.ts` | `.owx/notepad.md`, `.owx/project-memory.json` (memory server) | note, prune, remember | overlapping calls, writes in place |
| Rollout watcher: `src/scripts/hook-derived-watcher.ts` | offsets of rollout files | tick, flush at a signal | lines cut anywhere, a flush beside a tick |
| Standalone hook of the plugin: `plugins/owen-codex/hooks/codex-native-hook.mjs` | `session.json`, the tracker, marks of sent notifications | every hook event | waits between its checks and its answer |
| HUD, planning, agents, catalog, surface, session history, visual, adapters | none of their own | read, render, translate | none |
| Rust: `crates/owx-api`, `owx-explore`, `owx-sparkshell` | none | one request or command per process | none between actors |

How they interact. Hooks (`src/scripts/codex-native-hook.ts`) run on every prompt,
tool call and stop of a Codex session; they detect keywords, start workflow modes,
apply ultragoal steering directives, record subagent turns and deliver exec
follow-ups. The MCP state server and the CLI run the same state operations. All of
them are separate processes, so the only protection is what the files offer: an
exclusive create (ultragoal, tracker), an exclusive mkdir (follow-ups, wiki), an
atomic rename, or nothing.

What makes each component correct:

- Ultragoal: no goal is lost, one story runs at a time, failed work is retried at
  most until the third identical blocker, a plan becomes done only through a clean
  final gate, a steering directive is applied once, every command ends.
- Workflow state: at most the allowed combinations of modes are active; a mode that
  was completed or cleared stays so; the copies of skill-active agree with the mode
  files once nothing is under way.
- Run outcome: normalisation is idempotent and its three fields do not contradict
  each other.
- Autopilot, pipeline, ralplan: no later phase without the gate of the earlier one;
  the loops end.
- Subagent tracker: a thread known as a subagent never becomes the leader, and the
  leader never a subagent.
- Follow-ups: none is lost, none delivered twice.
- Account slots: a slot is not tried again after it ran out; the live credentials
  are those of the current slot.
- Autoresearch: one active run, and the worktree is at the last kept commit.
- Session pointer, MCP lifecycle, notifications: the newest owner survives, an old
  one does not remove its state.
- Native hook: a Stop passes over no active mode it should hold, planning edits no code,
  and the turn of a session ends.
- Installation: no command costs the user a text or a setting, and the doctor's advice
  heals what it complains of.
- Wiki and notes: what was answered to be stored is there.

## 2. Plan

What was planned, in the order in which the behaviour matters to a user, is done:

1. `UltragoalPlan`, `Ultragoal` (abstract: one action per command), `UltragoalStore`
   (concurrent processes; implements `Ultragoal`), `UltragoalProofs`,
   `UltragoalStoreProofs`.
2. `FollowupQueue` (abstract), `ExecFollowups` (implements it), `ServiceProofs`.
3. `WorkflowTransition` (the table, and the machine it promises), `WorkflowState`
   (implements it), `WorkflowStateProofs`, `NativeHook` (what prompts and Stops do with
   the modes), `HookProofs`.
4. `LaneRegistry` (abstract), `SubagentTracker` (implements it), `Planning` (rests on
   it), `HarnessProofs` (the table of 3 and the gate of `Planning`).
5. `Install`, `Settings`, `Diagnosis`, `Update`: what the commands of the CLI do to
   a user's installation.
6. `AuthSlots`, `Autoresearch`, `GoalGates`, `McpSiblings`, `PluginHook`,
   `RolloutWatcher`, `Notifications`, `Wiki`, `MemoryServer`. The theorems about 5 and 6 are in
   `ServiceProofs` (beside the queue of 2: goals, updates, announcements and the tracker of 4),
   `RuntimeProofs` (accounts, autoresearch, the plugin's hook, notes, the doctor) and
   `HarnessProofs` (the rollout watcher, MCP siblings, the wiki, setup and settings).
7. `MCServices`, which composes the modules of 4 to 6 and the queue of 2 for TLC, and
   `ServicesProofs`, which says of the composition what the modules' theorems say of each.

Left, in the order in which it would add most: the contents of `CopiesAgree` for overlapping
operations of several sessions, which the code does not keep and which would first need a
statement of what it does keep; the root copy of skill-active under `NativeHook`; the takeover
of the tracker's lock; and what `src/scripts/codex-native-pre-post.ts` advises about tools.

## 3. Ultragoal

### UltragoalPlan: the plan as a value

A goal is the number its id starts with, a plan is a record with the items by id,
the list order, `activeGoalId`, the mode, `aggregateCompletion` and two flags for
the migration of plans written by an earlier version. `CompletionBlocking`,
`BlockingForFinal`, `FinalCandidate`, `Done` and the scheduler's choices are the
predicates of `artifacts.ts` under the names used there where possible; `Started`,
`Completed`, `Failed`, `Superseded`, `Inserted`, ... are the plans the handlers
write. A Codex snapshot is its status and how its objective relates to the plan's
objective; an evidence text is what the code recognises in it; a quality gate is
the set of checks it passes; a blocker text is its signature. The ledger is kept by
what the code reads back from it: accepted idempotency keys, the number of failure
records per goal and signature, and whether the last entry carries a clean gate.

Operators whose name ends in `Fault` (and `AppendedColliding`,
`AppendedUncounted`, `RetryUncounted`, `RetryUnbounded`) are mistaken versions of
the definition that follows them. No specification uses them; they serve to see
that each property notices the mistake.

### Ultragoal: every command is one action

| Action | Code (`src/ultragoal/artifacts.ts`) |
| --- | --- |
| `CreateUltragoalPlan` | `createUltragoalPlan` |
| `ReadUltragoalPlan` | the migration in `readUltragoalPlan`, when nothing else follows |
| `AddUltragoalGoal` | `addUltragoalGoal` |
| `StartNextUltragoal`, `ResumeUltragoal` | `startNextUltragoal` |
| `CompleteGoal`, `CompleteAggregate`, `FailGoal`, `RecordBlocked` | `checkpointUltragoal` |
| `RecordFinalReviewBlockers` | `recordFinalReviewBlockers` |
| `SteerAddSubgoal` ... `SteerWording`, `SteerRejected` | `steerUltragoal`, `validateUltragoalSteeringProposal`, `applySteeringMutation` |

A command that throws changes nothing and is not an action. An accepted steering
proposal may name several targets for a pure annotation; the model keeps the
targets that change the plan. Commands take their arguments from all goal ids, all
snapshots, all evidence kinds and the empty and the full gate, so guards, and not
the enumeration, decide what is refused.

### UltragoalStore: the same commands, step by step

A process takes `.mutation.lock` by an exclusive create (`Acquire`, `Retry`,
`TimeOut`), stamps it with its pid (`Stamp`), reads, possibly migrates, decides, renames
the plan into place, appends to the ledger and removes the lock. `Fail` is a read or a
write that throws, `FailLock` an operation on the lock file itself that does: a stamp that
fails throws before the `try` whose `finally` removes the file (`artifacts.ts:872-877`),
and a removal that fails is swallowed (`artifacts.ts:888`). `Crash` is a process that dies.
`abandoned` is a history variable: whether the lock file was left behind. The four locked kinds of command are the four shapes there are: one that
replaces both files, one that appends a goal, one that reads the ledger to
deduplicate, one that may log without writing. `owx ultragoal status` reads without
the lock. `times` is a history variable: how often each key was applied to the
current plan.

`Implements` states the refinement: with `PendingLedger` (the ledger plus the entry
of the process that has renamed its plan and not yet appended), every behaviour of
the store is one of `Ultragoal`. It holds while no process dies and no write fails; with
faults the weaker properties of the run remain. One setting of `MCStore` is without
faults, one with deaths, one with failing writes; the run explores all three.

### Runs

| Run | Shows |
| --- | --- |
| `ultragoal_steering` | plans of up to three goals, splits into two, every command in every order: `TypeOK`, `OneStoryAtATime`, `EveryGoalListed`, `ReplacementsYounger`, `YoungestComplete`, `ActiveInProgress`, `DoneThroughGate`, `BlockerStoryNext`, `SteeringSticks` |
| `ultragoal_blockers` | two goals, two blocker signatures (symmetric: `MCUltragoal`), up to three records of each, the per-story mode, an aggregate plan of an earlier version, `allowActiveFinalCodexGoal`: `CircuitBreaker` |
| `store_faults` | two processes, every kind of command, a new plan and one of an earlier version, without faults, with deaths anywhere, with writes that fail: `Implements` (without faults), `KeyAppliedOnceByWrites`, `AcceptedApplied`, `GoalsKept`, `EveryCommandEnds`, and `LockReleased`: the lock file goes again however its command ends, but for a death, a failed stamp and a failed removal |
| `ultragoal_replaced` | a claim of the documentation that the code does not keep (see Findings) |

Bounds. Three goals are enough for a chain of replacements (a goal, its
replacement, the replacement's replacement) and for a two-way split; the circuit
breaker needs three records and two goals, so that a failure of one goal can come
between two of the other; two processes and two attempts at the lock give every
order of two critical sections and a time-out. `MaxGoals`, `MaxInitial`,
`MaxChildren`, `MaxBlockers` and `MaxAttempts` (100 in the code) are bounds of the
model; the proofs do not depend on their values.

Deadlock. `Ultragoal` runs disable the deadlock check: a plan whose size has reached
`MaxGoals` and which is done really may have no further command. The store runs
keep it.

Fairness. `Ultragoal` assumes none: nobody is obliged to run a command. In
`UltragoalStore` each process has weak fairness on its own steps once its command
has begun (the operating system goes on running it, and the retry loop sleeps for a
bounded time and counts its attempts), and none on beginning a command, failing or
dying.

## 4. Exec follow-ups

`FollowupQueue` is what the queue of one exec session promises: a follow-up is
queued once, marked delivered once, and after that printed, by each hook that is
delivering at that time at most once. `ExecFollowups` is the code (`src/exec/followup.ts`), one action per file
operation. A record is its status, the queue a function from follow-ups to status;
the order of records is only the order of the printed texts. An injecting process
injects one follow-up and carries its name; a hook constant stands for the Stop
hooks of one thread, one after the other.

| Action | Code |
| --- | --- |
| `Inject` | `injectExecFollowup` up to the lock |
| `Peek` | `readPendingExecFollowups`, without the lock |
| `MakeLock`, `Exists`, `Vanished`, `SeeStale`, `Break`, `Wait`, `TimeOut`, `WriteOwner`, `OwnerFails` | `withQueueLock`: mkdir, stat after EEXIST, rm of a lock older than 30 s, the 5 s limit, `owner.json` |
| `ReadQueue`, `WriteQueue`, `Fail` | the operation under the lock; `markExecFollowupsDelivered` writes only if a record changes |
| `Release`, `Undo` | the finally block, which removes the directory whoever made it |
| `Report` | the audit entry after an injection |
| `Show` | the answer of `buildExecFollowupStopOutput` |
| `Crash`, `Age` | a process that leaves its lock; the lock passing 30 s |

A lock ages only when the process that made it is gone: the critical section takes
milliseconds, and a machine that is suspended for half a minute inside it is not
modelled. A process that cannot write `owner.json` leaves the directory behind like
one that dies there. `MaxAttempts` stands for the five seconds of waiting.

| Run | Shows |
| --- | --- |
| `followups_queue` | two injections, two hooks at once, operations fail: `QueuedKept`, `DeliveredInHand`, `Implements` (the refinement, with the liveness of delivery) |
| `services_ends` | processes die anywhere, locks are taken over (`OrphanSpec`): the follow-up part of `EverythingEnds` |
| `followups_takeover` | what a message of the code promises and a death breaks (see Findings) |

Bounds. Two injections and two hooks give a batch that grows between peek and lock,
two deliveries of one follow-up, and several processes around one lock; the
takeover needs a dead process and two that wait. `followups_queue` gives up at the
first look at a held lock (`MaxAttempts = 0`), which keeps it small; that a process
gets the lock after having seen it held is still there, through `Vanished`, and the
other runs wait. Deadlock is not checked: when every
follow-up has been delivered the system stops. Fairness: a running process goes on
(weak fairness on `Step`); nobody is obliged to inject, to stop, to fail or to die,
and no lock is obliged to age, so the time-out is what ends a wait.

Two hooks at once may print one follow-up twice, since both read before the lock.
No document says they must not; with one hook at a time the refinement says exactly
once. A hook that dies between marking and printing loses the follow-up for good
(`OrphanSpec` violates `DeliveredInHand`); the code errs on the side of
at most once there, and no document says it should not.

## 5. Workflow modes

### WorkflowTransition and WorkflowState: the files

`WorkflowTransition` is `evaluateWorkflowTransition` (`src/state/workflow-transition.ts`):
which modes may overlap, which transition completes its source, which is a rollback.
Beside the operators it states the machine they promise: in every scope modes are
switched on and off one at a time, and on only beside modes they may overlap.

`WorkflowState` is the code that is meant to keep this promise: `state_write` and
`state_clear` (`src/state/operations.ts`), `startMode`, `updateModeState` and
`cancelMode` (`src/modes/base.ts`). An operation decides by what the skill-active copies
show (`Visible`, `Current`), completes source modes one after the other
(`CompleteSource`, with the interview's evidence where `EvidenceGated` asks for it),
writes or unlinks the mode file, and then brings the copies up to date: reads root and
session copy, writes the root's, the session's and the mirrors (`ReadCopies`,
`WriteRoot`, `WriteCopy`, `WriteMirror`). Each is a step, `Crash` a death between two.
Whether the reviews of a ralplan child phase suffice is an input.

`workflow_serial` runs operations one after another, with a death anywhere in one of
them: `Implements` (the mode files change as the machine does), `CopiesAgree`,
`ClearRecovers`. Four modes have every kind of pair (excluded, overlapping, completed
automatically, gated by evidence). With `Overlap` the copies do diverge: nothing keeps
two processes apart (`src/state/operations.ts:166` serialises within one process only),
and no document says they agree, so the run does without it. No fairness is assumed.

### NativeHook: prompts, edits and Stops of a session

| Action | Code |
| --- | --- |
| `Prompt` | `recordSkillActivation` (`src/hooks/keyword-detector.ts`): a prompt starts, completes, re-seeds or cancels modes |
| `WriteState`, `StartMode` | the agent's own state writes and starts of modes |
| `EditProduct` | the planning boundary of PreToolUse (`Guarded`) |
| `Spawn`, `SubagentEnds` | native subagents; their Stop is exempt |
| `Stop` | `buildStopHookOutput` (`src/scripts/codex-native-hook.ts`): the checks in the order of the code, the suppression of a repeated block by its signature, the no-progress guard, the audit of the diff |
| `Inject`, `Reconcile`, `DiffChanges` | a follow-up, a goal to reconcile, what the audit finds in the diff (ungrounded fallback code): outer reasons to block |

`hook_turns` runs two prompts, each naming up to two modes (`MaxRequest`), over eight
families of modes, one of them in a repository whose diff is audited. `HeldWhileActive` says which
mode at work a Stop may pass over and why; `NoCodeWhilePlanning` and
`PlanningEndsByHandoff` are about the boundary; `StopsEnd` is the liveness of the
turn: under weak fairness of `Stop` once nobody prompts or edits any more (`calm`; Codex
asks the hook each time the model stops) the turn ends unless something is there that
blocks for ever by intent (`Persistent`): a diff that keeps its findings blocks every Stop
(`src/scripts/codex-native-hook.ts:4053`), and so does an agent that goes on saying the same.
`MaxRepeats` is 2 in the run and 8 in the code; the proofs hold for any value. `Remembers` restricts the properties to sessions whose copy is not
overwritten as a whole: a keyword that is no workflow does that, and so does
`deep-interview` beside `ultrawork` (see section 9). `HandedOver` excepts a plan in a
session in which a prompt handed an autopilot's work to ultragoal: the hook reads the note
as leave to execute, and the note outlives the autopilot. How text is matched and how a shell
command is recognised as a write are left out, and so is the root copy.

## 6. Planning, the tracker and the other services

`MCServices` runs these modules for TLC, one at a time (`service` chooses): they share
no state but the lanes of threads, and what one module promises to another is a
refinement: `SubagentTracker` implements `LaneRegistry`, on which `Planning` rests.

| Module | Code | What a step is |
| --- | --- | --- |
| `SubagentTracker` | `src/subagents/tracker.ts`, its use by the native hook | one locked update, or one that failed; hooks of several threads interleave |
| `Planning` | `src/ralplan/runtime.ts`, `consensus-gate.ts`, `src/pipeline/` | a stage from its start to the write of its result; hooks, reviews, cancels, clears and a second pipeline in between |
| `AuthSlots` | `src/auth/*.ts`, `src/cli/auth.ts` | one read or write of slot files, `slots.json` or `auth.json`; terminals interleave |
| `Autoresearch` | `src/autoresearch/runtime.ts` | one write of the supervisor, a move of the agent, a stop by the operator, a death |
| `GoalGates` | `src/performance-goal/artifacts.ts`, `src/autoresearch/goal.ts` | one read or write of a command, `create --force` included; processes interleave and die |
| `McpSiblings` | `src/mcp/bootstrap.ts` | a watchdog's read of the process table, its decision, a unit of time |
| `PluginHook` | `plugins/owen-codex/hooks/codex-native-hook.mjs` | observe, notify, decide; hooks of several sessions interleave |
| `RolloutWatcher` | `src/scripts/hook-derived-watcher.ts` | one `stat`, read or dispatch of a tick or a flush; the file grows in halves of lines |
| `Notifications` | `src/notifications/lifecycle-dedupe.ts`, `src/hooks/extensibility/dispatcher.ts`, `src/scripts/notify-dispatcher.ts` | check, send, record; lock, run, release |
| `Wiki` | `src/wiki/*.ts`, `src/mcp/wiki-server.ts` | one step of a call; the lock; failing writes, deaths, edits by hand |
| `MemoryServer` | `src/mcp/memory-server.ts` | read, open, fill, rename of one call; notes that hold a heading; servers die |
| `Install` | `src/cli/setup.ts`, `uninstall.ts`, `src/config/generator.ts`, `codex-hooks.ts` | one write of a command, a cut, an edit of the user's |
| `Settings` | `src/config/generator.ts` | one rewrite of `config.toml` by setup, uninstall or the repair before a launch |
| `Diagnosis` | `src/cli/doctor.ts`, `plugin-marketplace.ts`, `src/agents/native-config.ts` | one step of a setup, a cut, what spoils an installation; the checks are operators |
| `Update` | `src/cli/update.ts`, `src/scripts/postinstall.ts` | install, setup, stamp; releases and npm by hand in between |

The run `services` checks what they keep:

- `SetupKeeps`: no setup, finished or cut anywhere, costs the user a text that is then
  neither in place nor in a backup, but for what `Forfeit` lists: in legacy mode the hard
  deprecated skill and the prompt shims, with `--force` every skill that is not installed any
  more and the HUD's settings (section 9); the notify command that runs is the user's; installed hooks
  are switched on; a rewrite of `config.toml` keeps what the user wrote but for what
  `TakenOut` lists; a setup run again changes nothing; a stamp claims no setup that did
  not run.
- `KnowledgeKept`: what a tool brought to a wiki page stays until a call deletes the page,
  the index names the pages, the legacy wiki stays in view until something replaces it;
  what a note tool answered to have stored is there unless calls on the file overlapped, a
  write in place was cut, or a priority note or a prune took it for its section. Sections are
  found by the text of their headers; once a note holds a heading of its own (`headed`), those
  two may take any piece of the file, while the other tools still lose nothing.
- `LanesHold`: the tracker implements the registry; past ralplan the pipeline holds the
  approvals of two subagents.
- `EarnedByEvidence`: what autoresearch keeps is in the worktree and the ledger, its score
  never falls. A performance goal is complete only on its own verdict (`GateHolds`). An
  autoresearch goal is complete only on a pass that a verdict command recorded
  (`GateEarned`): its own if no other goal was ever created under the slug, and the one still
  in `completion.json` if no command overlapped its completion. More the code does not keep:
  `goal_stale` is one case. Two processes, with and without `--force`; three history fields
  (`past`, `proof`, `alone`) say which verdict a goal was completed on.
- `PluginHonest`: a Stop of the plugin's hook does not end on another mode's run-state,
  and marks are lost only to overlapping hooks.
- `RotationSound`: no slot is tried twice, and without a second command the blamed slot
  is the one the child ran on.
- `ToldOnceInOrder`: lines of a rollout, lifecycle events and turns arrive once, in order,
  but for the overlaps named in the modules.
- `DoctorHonest`: what the doctor advises removes the complaint (`Excused` lists the
  exceptions), and a doctor without complaints means hooks that fire.

`services_ends` checks that what was begun ends (`EverythingEnds`), under the weak
fairness of the modules' own specifications: a run, a command or a call that has begun
goes on, timers fire, a user who follows the doctor goes on asking. Nobody is obliged to
begin, to edit, to die or to release; so an orphaned wiki lock and an orphaned
follow-up lock are survived by time-outs alone.

Bounds. Two processes, terminals, servers or hooks everywhere, because each hazard of
these modules is one process between two steps of another; three slots in the liveness
run, because a rotation over two never skips one; two lines of a rollout (a line cut
in the middle and its successor); two edits of the doctor's installation (`MaxBefallen`;
three have been explored for each half of the spoils); two iterations and two cycles of
planning; one mishap each in `Update` and `Wiki`. `services` has about 1,440,000 states,
`services_ends` about 36,000. `services` tells states apart by the variables of the one
service a behaviour is about (`VIEW ServiceView`): the others keep their initial values.

Deadlock is not checked there, nor in `goal_stale`: when the bounds are used up, nothing is left to do.

## 7. Proofs

`UltragoalProofs` proves, for every number of goals, every set of keys and
signatures and every bound, that
`IInv == PlanInv(plan) /\ ledger \in Ledger /\ CircuitOK` is an invariant.
`PlanInv` joins what no single property is inductive without: the plan is
well-formed; the order is a permutation (`Position` is defined, so list insertions
keep it one); replacements are younger than what they replace; only one eligible
goal is in progress; the active goal is in progress; and a goal that awaits review
fixes has a younger one, which is what makes the youngest goal the last piece of
work. `CircuitOK` ties the blocker a goal carries to the number of records in the
ledger. The argument: one lemma per plan a handler writes (`Started`, `Completed`,
`Inserted`, ...) states that it preserves `PlanInv`; one lemma per shape of ledger
entry states that it preserves the counts; `NextInv` has one step per action that
cites them. The theorems `TypeCorrect`, `GoalsListed`, `OneStory`,
`NoReplacementCycle`, `ActiveRunning`, `CircuitBroken` and `YoungestDone` follow
from `Invariant`.

The module also proves the three action properties: `SteeringHolds` (by the
shape of each step), `GatedCompletion` and `BlockersScheduled`. `GatedCompletion`
assumes `AllowActive \subseteq {FALSE}`: the option `allowActiveFinalCodexGoal` is
an argument of the library function that no command of `owx` sets, and with it a
final story is completed without a gate by design.

`UltragoalStoreProofs` is about the processes, for any number of them, of keys and of
attempts, with deaths and failing writes wherever the settings allow them. Every action is
first reduced to one of a few shapes (`Does`): begin, take the lock, read, decide, one write
of one file, leave. `LockInv` says that the process between its exclusive create and its
finally block is the only one there and has the lock file: `OneHolder`. `KeyInv` and
`AppliedInv` count: a key is applied once when it is in the ledger or the process that
renamed its plan is about to append it; so `KeysAppliedOnce` and `AcceptedKeysApplied`.
`PlanInv` says what a process has in its hands: from its read to its rename the plan it
read is the file, and what it will write is a plan one command makes of it. From it follow
`NoGoalLost` and the refinement `StoreImplements`, whose mapping is the one the run checks
(`PendingLedger`); that it is well-defined (one process at most has renamed and not yet
appended) is `PendingIs`. Both assume `MigrationsLocked`: no setting has a plan of an
earlier version beside the reader without the lock (`owx ultragoal status`), which migrates
such a plan and may overwrite a newer one (section 9); TLC shows the same, for in
`store_faults` the two never meet.

`ServiceProofs` proves, for any number of injecting processes, hooks and attempts
and with failing operations, that without an orphaned lock no follow-up is lost
(`NoneLost`) and none is marked without being printed (`NoneSwallowed`). The
invariant says what the lock is good for: it belongs to the process between its
mkdir and its rm (`LockOwned`), nobody is about to take it over (`NoTakeover`), and
the copy a process is about to write is the file (`FreshCopy`); then a write adds
or marks and never overwrites. `QueueRefines` is the safety part of `Implements`: every step
of the files, locks and hooks is a step of `FollowupQueue` or cannot be seen. What it adds
to the invariant is a count (`Printed`): a hook that will still print a follow-up had looked
while it was pending, so the times it was printed and the hooks that will still print it are
together no more than the hooks there are. The run `followups_takeover` shows that orphaned locks
have to be excluded.

`HarnessProofs` proves of the machine of `WorkflowTransition`, for every set of scopes
and modes, that at most one mode is active beside ultrawork (`OneModeAtATime`) and that
planning is not entered from an execution (`PlanningKept`).

`WorkflowStateProofs` is about the files and copies, for any number of processes, sessions
and modes. The invariant (`IInv`) follows an operation through its steps: what it decided
by is what the copies show, the modes it has still to complete are those the table names,
and each copy it has written shows the modes of the scope as they are after its write
(`CleanInv`, as long as nobody died in the middle). From it follow `CopiesDescribeFiles`,
`FilesOneAtATime` and the refinement `FilesImplementMachine`: the mode files change as the
machine does. They assume `~Fallback`, as the run does: when a session updates a mode that
only the root has, the update writes a file of the session that no table was asked about.
`ClearingRecovers` holds also after deaths; it assumes `~Overlap`, since a clear is kept apart
from other operations within one process only.

`HookProofs` is about `NativeHook` for every family of modes, any number of prompts and any
number of modes in one prompt. The invariant is `Faithful`: the copy lists the modes at work,
they may all be at work together, and the primary skill may stand beside each of them. The
hard step is a prompt with several modes, each of which may complete others and a later one
of which may be refused: `Reached` says that a mode completed on the way is not let in again
(`Gone`: the rest of the prompt asks for the other kind of mode only, or what completed it
excludes it), so that files and copy agree also when the prompt is refused in the middle.
From the invariant follow `ModesApart`, `CopyDescribesModes` and `PlanningEditsNothing`, and
as an action property `PlanningHandsOver`; `StopsHold` goes through the cascade
check by check (`FirstIs`, `UncheckedFree`, `RepeatPasses`). The recursion over the prompt's
modes is a function, and induction over its index is proved from the well-foundedness of
finite sets (`LeastNumber`, `NumberInduction`, which `RuntimeProofs` uses too).

`ServiceProofs` also proves the refinement `LanesKept`: for any number of threads and hooks
under way the tracker implements the lane registry. The invariant is that a leader is recorded
as one and is no subagent; `TurnRecorded` shows once, for every kind and leader a turn
may claim, that a recorded turn is a step of the registry, and every action either
records a turn or leaves the lanes alone.

`HarnessProofs` also proves `ApprovalsStand` from the registry alone: past ralplan the
pipeline holds two approvals of different subagents that do not lead. The
invariant adds that the two are recorded threads and the leader is recorded as one
(`Handed`); `LaneKeeps` shows that no turn the registry allows takes this away, and
`StageOrder` that there is no way past ralplan but through its gate. With `LanesKept` it
holds of the tracker's files.

Another part of `ServiceProofs` proves `PerformanceGate` for any number of processes killed
anywhere: the verdict travels in the goal file, so a completion that is about to be written carries
its own pass. `AutoresearchGate` is about the verdict in a file of its own, with
`--force` too: what a completion was decided on was recorded by a verdict command
(`Recorded`), and no other command has been at work since a completion that was alone began
(`Undisturbed`), so what it read is still there. That it was recorded for the same goal
follows only where there is one goal; the run `goal_stale` has two. Both give the invariants
that `services` checks (`EarnedByEvidence`).

Its theorem `StampsTrue` says: the stamp is true unless its writer was outrun or npm
was killed. The invariant (`Learned`, `Claims`) says what an update knows at each of its
steps: that the version it was told is the one npm installs, then the installed one,
then one that was set up.

The last two of its theorems are about `Notifications`. `AnnouncedOnce`: unless
announcements overlapped, whatever was heard within the window is noted, or is about to be
noted by the one that sent it (`HeardNoted`), and nobody sends what is noted
(`SentUnnoted`). `OneTurnAtATime`: the guard file belongs to the one turn that dispatches.

`RuntimeProofs` has a part for each of five modules.

- `PluginHook` (`StopsHonestly`, `MarksStay`): a hook beside which no hook of another session
  ran still has the pointer it began with and the marks as it read them (`HookAlone`).
- `MemoryServer` (`NotesStay`): a document that nothing disturbed has one call on it at most,
  and what that call has read is the document, except while it fills the document in place:
  then what was promised is in the copy it writes (`Holds`, `Undisturbed`). Of what the call
  leaves out, nothing is promised any more once it has answered (`Waives`).
- `AuthSlots` (`RotationHolds`), for every finite set of slots: a launch is at a slot of its
  plan that it has not tried (`Orderly`), and a command that runs alone knows what the files
  say (`AloneInv`). It rests on three facts about the code's list operations: every set of
  names can be sorted (`SortExists`), the plan of a non-empty set of slots is not empty and
  names slots (`PlanNamesSlots`), and counting on from the current slot goes round the whole
  plan, so that no answer means that all were tried (`NextIsFree`). `SortedSlots` is
  therefore defined by what a sorted list is, and not by a sorting operator of the library.
- `Autoresearch` (`KeptInHistory`, `ScoresRise`), for every number of candidates: commits
  have rising numbers, and the manifest on disk keeps one that is no younger than that of the
  supervisor, so a reset to the latter never loses the former (`ResetKeeps`); the same holds
  of their scores. The ledger is written before the manifest, hence what is kept is in it.
- `Diagnosis` (the lemma `DoctorKept`; `ServicesDiagnose` states it), for any MCP servers, any
  of the events and any commands: advice that is followed removes its complaint. `DoctorInv` says
  three things. What a step of a setup has written stays until the setup ends (`Progress`). A
  setup that follows an advice keeps on the way what its last step will need: which models the
  prompts name (`ModelsPromise`), whose AGENTS.md it is (`MdPromise`), which servers were
  chosen (`McpPromise`). And the record of the installation has only parts that occur together
  (`NoConfig`, `NoMd`). Each step of a setup is a lemma on what it writes, and each complaint
  one on what its check reads (`StepsFollow` is the order of the steps).

`HarnessProofs` has five more parts:

- `RolloutWatcher` (`LinesInOrder`), for any number of lines and any moment of a signal: the
  part of the file before `offset` has been told or is in the hands of the one poller at work,
  and `partial` is the half line at its end (`FileRead`, `LinesRead`); the flush reads on to
  what was there when the signal came (`DueRead`). A truncation, or a signal beside a tick,
  ends the promise (`Undisturbed`). Positions are halves of lines; `Halves` and `StretchLines` say
  what a stretch of the file from one position to another is as lines.
- `McpSiblings` (`OneServesAlways`), for any processes and times: as long as nobody left for
  another reason, a younger server than one that gave way is up, perhaps not the one it saw
  (`Superseding`). A table that a server decides by names only processes that were born.
- `Wiki` (`KnowledgeStays`), for any callers and pages: the lock belongs to the call that is
  between taking it and giving it back (`HolderInside`), what a call is about to write covers
  what is in the page (`CopiesCover`), and an index that is not true has its writer still to come
  (`IndexComes`). The order of a call's steps is a sequence; `MayFollow` and `Links` reduce it to
  which step may follow which.
- `Install` (`InstalledCoherent`, `SetupLosesNothing`), for any number of commands and edits:
  what a setup changes is backed up first or in `Forfeit`; the
  backups of the command under way hold no text newer than the file (`ConfigCopies`), of two
  notify commands of the user's the older is nowhere in front (`NotifyOrder`), and a command
  that is past the hooks has switched them on, or will (`HooksReady`).
- `Settings` (`SettingsSettled`, `SettingsAreKept`): besides the shape of a config, that of
  two `[tui]` tables the one outside OWX's block is the user's (`TableBeside`). The steps are pure
  rewrites, so most of the proof is what each rewrite does to each setting.

`ServicesProofs` is about the composition: its theorems state the properties that the run
`services` checks (`TypeOK`, `RotationSound`, `ToldOnceInOrder`, `SetupKeeps`, `KnowledgeKept`,
`LanesHold`, `EarnedByEvidence`, `PluginHonest`, `DoctorHonest`) of `Spec` in `MCServices`,
for any terminals, slots and critics and for any value of the bounds that are left open there.
The module instantiates the modules of proofs as `MCServices` instantiates the modules of the
services. A step of the composition is a step of a service or leaves it alone (`TurnOf`), and
each definition of a service means the same in both instances (`AuthSame`, `WikiSame`, ...: by
expanding both); then a theorem about a service carries over.
`ServicesTypeCorrect` also needs the bounds of counters. These are at the end of each module
of proofs, and some say more than a type: a hook of the plugin marks as sent only what somebody
was told (`HookTells`), and no plan is drafted more often than allowed, nor reviewed more often
by the critic than by the architect (`RunShape`).

Assumptions on constants are those of the modules (`BoundsAssumption`,
`InputsAssumption`, `CallerAssumption`, `ServicesAssumption`, ...), which TLC evaluates in the
runs, and those stated in a theorem's `ASSUME`: `Nobody \notin Threads`, slots that are a finite
set of positive numbers (`RotationHolds`), finitely many hooks (`QueueRefines`), `MaxScore \in
Nat`, and the ones named `Base`: bounds are natural numbers; process ids are numbers
(`SiblingsBase`); no caller of the wiki is the free or the orphaned lock (`WikiBase`); what
befalls an installation is in `Befallings` and its commands are requests for a setup
(`DoctorBase`); a plan may be drafted once, and reviews are those of threads (`PlanningBase`).

Only model-checked: liveness and `ENABLED`, which the prover does not reach (`LockReleased`,
`EveryCommandEnds`, `StopsEnd`, `EverythingEnds`, and the delivery in the refinement of the
follow-up queue: `Implements` without `QueueRefines`). Every other property of a passing run is
stated by a theorem.

## 8. Findings

Each is a run of its own, in which TLC finds the claim violated.

- `ultragoal_replaced`: a replacement that is itself replaced never becomes
  complete, so its ancestor goes on blocking the plan although all scheduled work is
  complete.
- `followups_takeover`: the removal of a stale lock does not check that the lock is
  still the stale one, so two waiting processes can both enter, and a follow-up
  that was reported as queued disappears.
- `goal_stale`: `create --force` of an autoresearch goal leaves the verdict of the goal it
  replaces, and the new one is completed on it.
- `launch_repair`: the repair of a config before a launch makes the user's notify command
  OWX's, without a backup, also in a config OWX never set up.

## 9. What the code does beyond the checks

Observations from modelling that no run is about: either no document says
otherwise, or the case is one the properties name as an exception.

Ultragoal. A failed append to the ledger after the plan's rename (`artifacts.ts:1366`)
makes the retry of a directive apply it twice (`KeyAppliedOnce` with the setting
`MCRetry`). `create-goals --force` truncates the ledger after the plan is in place
(`artifacts.ts:972`): if that fails, old records stand beside the new plan. A story added
after a task-scoped Codex goal completed the aggregate plan is never scheduled.
`owx ultragoal status` migrates an old plan without the lock and can overwrite a newer
one. Where the stamp of the lock file fails, or its removal, the file stays without a death,
and every later command times out until somebody removes it (`artifacts.ts:872`).

Workflow modes. A prompt with several modes completes the sources of the first before a
later one is refused, and then says "Current state is unchanged."
(`RefusedUnchanged` with `MCRefusedFamilies`). A cancel and a re-activation leave the old
terminal run-state, and Stop then never blocks for the mode. A keyword that is no
workflow overwrites the copy of skill-active. A child that a prompt notes under an autopilot
(`supervised_child_skill`, `src/scripts/codex-native-hook.ts:2167`) is kept when the autopilot
ends, so after a hand-over to ultragoal a later plan of the session is no longer guarded. Beside `ralplan`, the second Stop of
`ultrawork` passes. Cancelling a locked interview leaves an overlapping `ultrawork`
active. `updateModeState` of a mode that only the root has writes the session's file without
asking the table (`Fallback`; `src/modes/base.ts:254`).

Planning. A pipeline's start is not stopped by a cancel of the mode, nor a running
`runRalplanConsensus`. After a review that is not clean, ralplan passes again on
the same consensus. After a draft that the Architect sent back without a Critic's
review, no later approval by both ends the loop, since the two lists of reviews differ in
length (`ApprovalEndsLoop` with three iterations; `src/ralplan/runtime.ts:138`). The tracker forgets `leader_attested_at` at the leader's
next turn.

Installation. A legacy setup removes without a copy the directory of a hard-deprecated
skill (`web-clone`) and every prompt that reads like an old skill shim; with `--force` it
removes the directories of all skills that are deprecated, merged or aliases, whatever the
user has in them (`src/cli/setup.ts:3285`), and any mode with `--force` overwrites
`hud-config.json` (`src/cli/setup.ts:2596`). These are the texts of `Forfeit`. Uninstall removes any `notify` and `developer_instructions` unless the
dispatcher wraps the former; a cut between `config.toml` and `notify-dispatch.json` drops
the notify command at the next setup, except in the backup (both are `gap`). A second
backup of one file in one command overwrites the first. An AGENTS.md that
`setup --merge-agents` merged and the user edited is deleted whole by uninstall
(`src/cli/uninstall.ts:391`). `--force` resets the managed status line. Uninstall leaves agent
limits, the shared registry block and the trust fence. Foreign root fields in
`hooks.json` make every setup throw although the doctor says `setup --force` repairs it
(`src/cli/doctor.ts:1028`); a root model without the wanted effort does too (these two are
`Stuck`). A setup back to legacy mode leaves the plugin's hooks switched on beside the
native ones. An update whose target is released meanwhile claims a setup that never ran;
`owx setup` by hand does not mention itself in the stamp.

Accounts. All launches share one `auth.json`: beside a second launch or `auth use`
the blamed slot may not be the one that ran out. Tokens that Codex refreshes are never
copied back to the slot. `exhaustedAt` is written and never read.

Goals. `create --force` keeps the verdict of the autoresearch goal it replaces
(`goal_stale`), and a completion that reads a pass while another command withdraws it, or
replaces the goal, writes its own copy of the goal over theirs (`src/autoresearch/goal.ts:230`):
neither shows in `GateEarned`.

Autoresearch. After a death in `finalizeRun` the lock stays and refuses later runs until
the state is cleared; a crashed run cannot be resumed while its lock is active; a stop
beside a working supervisor is overwritten by it; a death before the baseline is
stored makes score 0 the one to beat.

Hooks, notifications, watcher. While the plugin's Stop hook waits for plugins, a hook of
another session can rewrite `session.json`, and the Stop passes over active work. A signal
during a tick makes two polls read from the same offset. A turn that finds
the notify lock taken is dropped, also one of another thread. The lock goes stale
after 45 s, the two commands under it may take 60.

Wiki and memory. A death under the wiki lock disables all writes for good, for nobody reaps it
(every call is answered after 5 s). An ingest replaces a hand-written page without
frontmatter. A failed index or log write reports an error after the page was written,
and the retry appends twice. Overlapping calls of one memory server share a temporary file,
and `notepad_prune` and project memory are written in place, so that an overlap or a death
can lose the whole file, manual notes included (`disturbed`). A note whose text holds
`## PRIORITY` or another heading moves the bounds of the sections: the next priority note, or
a prune, cuts what follows it (`src/mcp/memory-server.ts:429`).

## 10. Not modelled

- Components marked `not_modelled` in `PROJECT.json`: ralph's one-shot migration and its checks
  of texts, readers and renderers (HUD, planning artifacts, catalog, session history, visual
  verdict), the OpenClaw and Hermes adapters and the Rust helpers. Each handles one
  request in one process, or has no state.
- Code without a caller outside the tests: the update check at launch and the deferred update
  (`src/cli/update.ts`), `applyOverlay` and `stripOverlay`, `writeSessionEnd` and
  `resetSessionMetrics`, `idle-cooldown.ts`, the wiki's `onSessionEnd` and `onPostCompact`, and
  the trust synchronisation of `src/config/generator.ts:1015`.
- In modelled components: wording, evidence texts beyond what the code recognises in them, time stamps,
  the recognition of keywords and of shell commands, corrupt JSON files (but for those a
  write in place tears), the quarantine of a damaged follow-up queue, the contents of the wiki's
  log, the takeover of the tracker's lock after a minute, sessions and homes beyond the one
  modelled, and the fields that no decision looks at.

Each definition that stands for code is listed with its lines in `PROJECT.json` (`map`).
Operators whose name ends in `Fault` are mistaken versions of the definition after them; no
specification uses them, and each property is shown to notice one.
