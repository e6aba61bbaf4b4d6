----------------------------- MODULE MCServices -----------------------------
(***************************************************************************)
(* The services beside the workflow state, one at a time, for TLC.  They   *)
(* share no state but the lanes: Planning relies on what LaneRegistry      *)
(* promises, and SubagentTracker is shown to keep it.  `service' is the    *)
(* one a behaviour is about; the others stay in their initial states.      *)
(***************************************************************************)
EXTENDS Naturals, Sequences, FiniteSets

CONSTANTS
  Services,                   \* the services whose behaviours are explored
  Terminals, Slots,           \* of AuthSlots
  Critics,                    \* the critics a review may name
  MaxIterations, MaxCycles,   \* of Planning
  LanesKnown,                 \* whether its subagents took part before
  MaxRolloutLines,            \* of RolloutWatcher
  MaxBefallen,                \* of Diagnosis
  MaxByHand,                  \* of Wiki
  boss, arch, crit, none, f1, f2, h1, unheld, p1, p2, s1, s2

VARIABLES
  service,
  scope, home, saved, fresh, owned, i_pc, i_opt, gap, cut, runs, edits,
  conf, compat, last, half, commands, changes,
  ral, run, auto, pipe, p_leader, lane,
  leader, kind, role, native, spawning,
  pointer, tracked, copy, modes, runstate, sent, told, hook, hooks, writes,
  file, meta, live, job,
  session, work, candidate, manifest, memory, ledger, active, r_pc, stop,
  goal, completion, events, command, created,
  rgoal, rcompletion, revents, rcommand, rcreated,
  server, table, parent, failures,
  written, followed, offset, partial, dispatched, poll, phase, due, truncates, clean,
  entry, announcer, heard, twice, excused, announcements,
  guard, lastTurns, turn, seen, slow,
  queue, lock, f_pc, attempts, mine, picked, shown,
  disk, scoped, setup, befallen,
  legacy, wiki, env, wlock, known, caller, bounds, stale,
  doc, tmp, handler, promised, headed, disturbed, entries, cuts,
  released, installed, stamp, completed, updater, counts

Known == {"install", "settings", "planning", "tracker", "plugin", "auth", "research", "gates",
          "verdicts", "siblings", "watcher", "announcing", "turns", "followups", "doctor", "wiki",
          "notes", "updates"}

\* The services are known, no process is nobody, a review is that of a thread, the
\* bounds and slots are numbers, and a plan is drafted at least once.
ASSUME ServicesAssumption ==
  /\ Services \subseteq Known
  /\ {unheld, none} \cap {p1, p2} = {} /\ unheld # none
  /\ none \notin {boss, arch, crit}
  /\ {f1, f2} \cap {h1} = {} /\ unheld \notin {f1, f2, h1}
  /\ IsFiniteSet(Slots) /\ Slots \subseteq Nat \ {0}
  /\ MaxRolloutLines \in Nat /\ MaxByHand \in Nat /\ MaxBefallen \in Nat
  /\ MaxIterations \in Nat \ {0} /\ MaxCycles \in Nat
  /\ Critics \subseteq {boss, arch, crit}

\* Named, so that TLC evaluates them once.
Members == {boss, arch, crit}
Reviews == [architect : {arch}, critic : Critics]
Persons == {s1, s2}
Spawned == {crit}
SpawnedBy == [x \in Spawned |-> s1]
Both == {p1, p2}
Calls == {f1, f2}
OneServer == [h \in Calls |-> s1]

Setup == [mode |-> "unset", mcp |-> "unset", force |-> FALSE, merge |-> FALSE]

I == INSTANCE Install WITH MaxRuns <- 2, MaxEdits <- 1, pc <- i_pc, opt <- i_opt
C == INSTANCE Settings WITH MaxCommands <- 2, MaxChanges <- 2
P == INSTANCE Planning WITH Threads <- Members, Nobody <- none, Native <- boss,
       Claims <- Reviews, leader <- p_leader
T == INSTANCE SubagentTracker WITH Threads <- Members, Nobody <- none, MaxHooks <- 2
H == INSTANCE PluginHook WITH Roots <- Persons, Workers <- {s1}, Children <- Spawned,
       ParentOf <- SpawnedBy, Nobody <- none, MaxHooks <- 2, MaxWrites <- 3
A == INSTANCE AuthSlots WITH Fresh <- 9
R == INSTANCE Autoresearch WITH KeepPolicy <- "score_improvement", MaxScore <- 2,
       MaxIterations <- 2, MaxCommits <- 2, pc <- r_pc
G == INSTANCE GoalGates WITH Workflow <- "performance", Processes <- Both,
       Forces <- BOOLEAN, MaxMade <- 2, ledger <- events, past <- created
V == INSTANCE GoalGates WITH Workflow <- "autoresearch", Processes <- Both,
       Forces <- BOOLEAN, MaxMade <- 2, goal <- rgoal, completion <- rcompletion,
       ledger <- revents, command <- rcommand, past <- rcreated
M == INSTANCE McpSiblings WITH Pids <- {1, 2}, Grace <- 1, Idle <- 2, Cap <- 1,
       MaxFailures <- 1
W == INSTANCE RolloutWatcher WITH Once <- FALSE, MaxLines <- MaxRolloutLines, MaxTruncates <- 0,
       tracked <- followed
N == INSTANCE Notifications WITH Announcers <- Both, MaxAnnouncements <- 3,
       Turns <- {1, 2, 3}, ThreadOf <- <<"one", "one", "two">>
F == INSTANCE ExecFollowups WITH Injectors <- {f1, f2}, Hooks <- {h1}, MaxAttempts <- 1,
       Failures <- FALSE, Free <- unheld, pc <- f_pc
D == INSTANCE Diagnosis WITH McpServers <- {"state", "memory"}, MaxEvents <- MaxBefallen,
       Commands <- {Setup, [Setup EXCEPT !.mode = "legacy"],
                    [Setup EXCEPT !.mode = "plugin", !.force = TRUE],
                    [Setup EXCEPT !.mode = "plugin", !.mcp = "compat"]},
       Spoils <- {"no config", "legacy model", "seeded", "explore on", "direct servers",
                  "a server on", "plugin disabled", "no hooks", "unreadable hooks",
                  "foreign hooks", "package upgraded", "package moved", "no preferences",
                  "own role", "effort max", "md replaced", "md markers lost",
                  "table edited", "table lost", "overlap"}

K == INSTANCE Wiki WITH Callers <- Both, Files <- {"page"}, Free <- unheld, Orphan <- none,
       MaxCalls <- 2, MaxTroubles <- 1, MaxHand <- MaxByHand, memory <- known
E == INSTANCE MemoryServer WITH Handlers <- Calls, ServerOf <- OneServer,
       MaxEntries <- 3, MaxCuts <- 1
U == INSTANCE Update WITH Updaters <- Both, Dev <- 9, MaxReleases <- 2, MaxInstalls <- 2,
       MaxMishaps <- 1

install == <<scope, home, saved, fresh, owned, i_pc, i_opt, gap, cut, runs, edits>>
settings == <<conf, compat, last, half, commands, changes>>
planning == <<ral, run, auto, pipe, p_leader, lane>>
tracker == <<leader, kind, role, native, spawning>>
plugin == <<pointer, tracked, copy, modes, runstate, sent, told, hook, hooks, writes>>
auth == <<file, meta, live, job>>
research == <<session, work, candidate, manifest, memory, ledger, active, r_pc, stop>>
gates == <<goal, completion, events, command, created>>
verdicts == <<rgoal, rcompletion, revents, rcommand, rcreated>>
siblings == <<server, table, parent, failures>>
watcher == <<written, followed, offset, partial, dispatched, poll, phase, due, truncates, clean>>
announcing == <<entry, announcer, heard, twice, excused, announcements>>
turns == <<guard, lastTurns, turn, seen, slow>>
followups == <<queue, lock, f_pc, attempts, mine, picked, shown>>
doctor == <<disk, scoped, setup, befallen>>
pages == <<legacy, wiki, env, wlock, known, caller, bounds, stale>>
notes == <<doc, tmp, handler, promised, headed, disturbed, entries, cuts>>
updates == <<released, installed, stamp, completed, updater, counts>>
vars == <<service, doctor, pages, notes, updates, install, settings, planning, tracker, plugin, auth, research, gates,
          verdicts, siblings, watcher, announcing, turns, followups>>

Init ==
  /\ service \in Services
  /\ IF service = "install" THEN I!InstallInit
     ELSE I!InstallInit /\ scope = "user"
  /\ C!SettingsInit /\ (service = "settings" \/ conf.limits["context"] = "none")
  /\ P!PlanningInit
  /\ IF LanesKnown /\ service = "planning"
     THEN p_leader = boss /\ lane = [t \in {boss, arch, crit} |-> CASE t = boss -> "leader"
                                        [] t = arch -> "architect" [] t = crit -> "critic"]
     ELSE P!LaneInit
  /\ T!TrackerInit
  /\ H!PluginInit
  /\ A!AuthInit /\ (service = "auth" \/ (meta.listed = {} /\ meta.current = 0))
  /\ R!ResearchInit /\ (service = "research" \/ session)
  /\ G!GateInit /\ V!GateInit
  /\ M!SiblingsInit
  /\ W!WatcherInit
  /\ N!AnnounceInit /\ N!TurnInit
  /\ F!Init
  /\ K!WikiInit /\ (service = "wiki" \/ legacy)
  /\ E!MemoryInit
  /\ U!UpdateInit /\ (service = "updates" \/ stamp.installed = 1)
  /\ D!DoctorInit /\ (service = "doctor" \/ (scoped /\ disk.mode = "none"))

\* It is the turn of one service; the others do nothing.
Turn(s) ==
  /\ service = s /\ UNCHANGED service
  /\ IF s = "install" THEN TRUE ELSE UNCHANGED install
  /\ IF s = "settings" THEN TRUE ELSE UNCHANGED settings
  /\ IF s = "planning" THEN TRUE ELSE UNCHANGED planning
  /\ IF s = "tracker" THEN TRUE ELSE UNCHANGED tracker
  /\ IF s = "plugin" THEN TRUE ELSE UNCHANGED plugin
  /\ IF s = "auth" THEN TRUE ELSE UNCHANGED auth
  /\ IF s = "research" THEN TRUE ELSE UNCHANGED research
  /\ IF s = "gates" THEN TRUE ELSE UNCHANGED gates
  /\ IF s = "verdicts" THEN TRUE ELSE UNCHANGED verdicts
  /\ IF s = "siblings" THEN TRUE ELSE UNCHANGED siblings
  /\ IF s = "watcher" THEN TRUE ELSE UNCHANGED watcher
  /\ IF s = "announcing" THEN TRUE ELSE UNCHANGED announcing
  /\ IF s = "turns" THEN TRUE ELSE UNCHANGED turns
  /\ IF s = "doctor" THEN TRUE ELSE UNCHANGED doctor
  /\ IF s = "wiki" THEN TRUE ELSE UNCHANGED pages
  /\ IF s = "notes" THEN TRUE ELSE UNCHANGED notes
  /\ IF s = "updates" THEN TRUE ELSE UNCHANGED updates
  /\ IF s = "followups" THEN TRUE ELSE UNCHANGED followups

Next ==
  \/ Turn("install") /\ I!InstallNext
  \/ Turn("settings") /\ C!SettingsNext
  \/ Turn("planning") /\ P!PlanningNext
  \/ Turn("tracker") /\ T!TrackerNext
  \/ Turn("plugin") /\ H!PluginNext
  \/ Turn("auth") /\ A!AuthNext
  \/ Turn("research") /\ R!ResearchNext
  \/ Turn("gates") /\ G!GateNext
  \/ Turn("verdicts") /\ V!GateNext
  \/ Turn("siblings") /\ M!SiblingsNext
  \/ Turn("watcher") /\ W!WatcherNext
  \/ Turn("announcing") /\ N!AnnounceNext
  \/ Turn("turns") /\ N!TurnNext
  \/ Turn("doctor") /\ D!DoctorNext
  \/ Turn("wiki") /\ K!WikiNext
  \/ Turn("notes") /\ E!MemoryNext
  \/ Turn("updates") /\ U!UpdateNext
  \/ Turn("followups") /\ F!OrphanNext

Spec == Init /\ [][Next]_vars

(* What TLC tells states apart by: the variables of the service whose turn *)
(* it is.  The others keep their initial values, of which the service's    *)
(* steps and properties know nothing.                                      *)
ServiceView ==
  <<service,
    CASE service = "install" -> install
      [] service = "settings" -> settings
      [] service = "planning" -> planning
      [] service = "tracker" -> tracker
      [] service = "plugin" -> plugin
      [] service = "auth" -> auth
      [] service = "research" -> research
      [] service = "gates" -> gates
      [] service = "verdicts" -> verdicts
      [] service = "siblings" -> siblings
      [] service = "watcher" -> watcher
      [] service = "announcing" -> announcing
      [] service = "turns" -> turns
      [] service = "doctor" -> doctor
      [] service = "wiki" -> pages
      [] service = "notes" -> notes
      [] service = "updates" -> updates
      [] service = "followups" -> followups>>

(* With the fairness of the services' own specifications.                  *)
LiveSpec ==
  /\ Spec
  /\ WF_planning(service = "planning" /\ P!RunStep /\ UNCHANGED <<p_leader, lane>>)
  /\ WF_planning(service = "planning" /\ P!PipeStep /\ UNCHANGED <<p_leader, lane>>)
  /\ \A t \in Terminals : WF_auth(service = "auth" /\ A!Work(t))
  /\ WF_siblings(service = "siblings" /\ M!Tick)
  /\ \A p \in {1, 2} :
       /\ WF_siblings(service = "siblings" /\ (M!ReadTable(p) \/ M!Decide(p)))
       /\ WF_siblings(service = "siblings" /\ M!ParentWatchdog(p))
  /\ WF_watcher(service = "watcher" /\ W!PollTick)
  /\ \A p \in {"tick", "flush"} : WF_watcher(service = "watcher" /\ W!Polls(p))
  /\ WF_doctor(service = "doctor" /\ (D!SetupStep \/ D!SetupThrows))
  /\ WF_doctor(service = "doctor" /\ D!FollowFirst)
  /\ \A p \in {p1, p2} : WF_pages(service = "wiki" /\ K!CallStep(p))
  /\ \A p \in {f1, f2, h1} : WF_followups(service = "followups" /\ F!OrphanStep(p))

-----------------------------------------------------------------------------
(* Every variable of the service has its shape.                            *)
TypeOK ==
  CASE service = "install" -> I!InstallTypeOK
    [] service = "settings" -> C!SettingsTypeOK
    [] service = "planning" -> P!PlanningTypeOK
    [] service = "tracker" -> T!TrackerTypeOK
    [] service = "plugin" -> H!PluginTypeOK
    [] service = "auth" -> A!AuthTypeOK
    [] service = "research" -> R!ResearchTypeOK
    [] service = "gates" -> G!GateTypeOK
    [] service = "verdicts" -> V!GateTypeOK
    [] service = "siblings" -> M!SiblingsTypeOK
    [] service = "watcher" -> W!WatcherTypeOK
    [] service = "announcing" -> N!NotificationsTypeOK
    [] service = "turns" -> N!NotificationsTypeOK
    [] service = "followups" -> F!TypeOK
    [] service = "doctor" -> D!DoctorTypeOK
    [] service = "wiki" -> K!WikiTypeOK
    [] service = "notes" -> E!MemoryTypeOK
    [] service = "updates" -> U!UpdateTypeOK

(* No setup, in any mode and with any answers, finished or cut anywhere,   *)
(* costs the user a text they wrote, and no command a setting of           *)
(* config.toml but those listed; the notify command that runs is the       *)
(* user's as long as they want it, installed hooks are switched on, and a  *)
(* setup leaves a config that Codex can parse and the same setup would not *)
(* change (Install, Settings).  The stamp of the installation claims no    *)
(* setup that did not run (Update).                                        *)
SetupKeeps ==
  /\ I!SetupKeeps /\ C!SettingsKept
  /\ [](CASE service = "install" -> I!SetupCoherent
        [] service = "settings" -> C!SettingsSettle
        [] service = "updates" -> U!StampTrue
        [] OTHER -> TRUE)

(* What the wiki tools brought to a page stays in it, the index names the  *)
(* pages there are, and the legacy wiki stays in view until something is   *)
(* written in its place (Wiki); what a note tool answered to have stored   *)
(* is there (MemoryServer) - but for the overlaps the modules name, and    *)
(* for what a priority note or a prune takes for its section once a note   *)
(* has a heading of its own.                                               *)
KnowledgeKept == K!WikiKept /\ [](service = "notes" => E!NotesKept)

(* The tracker implements the registry of lanes, its leader is never       *)
(* recorded as a subagent (SubagentTracker), and past ralplan the pipeline *)
(* holds the approvals of two different subagents, neither of them the     *)
(* leader (Planning).                                                      *)
LanesHold == T!LanesHold /\ [](service = "planning" => P!LanesIndependent)

(* The Stop hook of the plugin does not let a mode at work end for what    *)
(* another mode's run-state says, and loses a mark only to a hook beside   *)
(* it (PluginHook).                                                        *)
PluginHonest == [][service = "plugin" => H!StopHonest /\ H!MarkKept]_plugin

(* The rotation of account slots tries none twice and blames the right one *)
(* (AuthSlots).                                                            *)
RotationSound == A!RotationSound

(* What the autoresearch run keeps is in the worktree and in the ledger,   *)
(* its score never falls; a performance goal is complete only on a pass of *)
(* its own, an autoresearch goal only on one that was recorded under its   *)
(* slug: of its own unless goals replaced each other, and of the last      *)
(* verdict unless a command overlapped (Autoresearch, GoalGates).          *)
EarnedByEvidence ==
  /\ R!ScoreNeverFalls
  /\ [](CASE service = "research" -> R!KeptSupported
        [] service = "gates" -> G!GateHolds
        [] service = "verdicts" -> V!GateEarned
        [] OTHER -> TRUE)

(* Lines of a rollout, lifecycle announcements and turns reach the plugins *)
(* and the person once, in order, and one turn at a time, but for the      *)
(* overlaps the modules name (RolloutWatcher, Notifications).              *)
ToldOnceInOrder ==
  CASE service = "watcher" -> W!LinesOnce
    [] service = "announcing" -> N!ToldOnce
    [] service = "turns" -> N!TurnsApart
    [] OTHER -> TRUE

(* A setup run for a complaint of the doctor's removes it, and a doctor    *)
(* without complaints means hooks that fire (Diagnosis).                   *)
DoctorHonest == D!AdviceHeals /\ [](service = "doctor" => D!PassIsWired)

(* What was begun ends: ralplan runs and pipelines, auth commands, MCP     *)
(* servers without a parent or with a newer sibling, and the processes of  *)
(* the follow-up queue and the wiki calls beside a lock nobody will give   *)
(* back; a line of a rollout is told; and a user who follows the doctor    *)
(* has a sound installation in the end.                                    *)
EverythingEnds ==
  /\ P!RunEnds /\ P!PipeEnds /\ A!CommandsEnd /\ M!DuplicatesEnd /\ F!EveryProcessEnds
  /\ W!LinesTold /\ K!CallsAnswered
  /\ (service = "doctor" => D!AdviceConverges)
=============================================================================
