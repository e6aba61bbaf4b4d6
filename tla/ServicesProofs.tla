---------------------------- MODULE ServicesProofs ----------------------------
(***************************************************************************)
(* What the theorems about the services say of their composition: the      *)
(* properties of MCServices, for any terminals, slots, critics and bounds. *)
(* Each service is read twice, by MCServices as its own module and here as *)
(* the module of its proofs; the lemmas named Same say that the two        *)
(* readings are one.                                                       *)
(***************************************************************************)
EXTENDS MCServices, TLAPS

RP == INSTANCE RuntimeProofs WITH Fresh <- 9,
        KeepPolicy <- "score_improvement", MaxScore <- 2, MaxIterations <- 2, MaxCommits <- 2,
        pc <- r_pc,
        Handlers <- Calls, ServerOf <- OneServer, MaxEntries <- 3, MaxCuts <- 1,
        Roots <- Persons, Workers <- {s1}, Children <- Spawned, ParentOf <- SpawnedBy,
        Nobody <- none, MaxHooks <- 2, MaxWrites <- 3,
        McpServers <- {"state", "memory"}, MaxEvents <- MaxBefallen,
        Commands <- {Setup, [Setup EXCEPT !.mode = "legacy"],
                     [Setup EXCEPT !.mode = "plugin", !.force = TRUE],
                     [Setup EXCEPT !.mode = "plugin", !.mcp = "compat"]},
        Spoils <- {"no config", "legacy model", "seeded", "explore on", "direct servers",
                   "a server on", "plugin disabled", "no hooks", "unreadable hooks",
                   "foreign hooks", "package upgraded", "package moved", "no preferences",
                   "own role", "effort max", "md replaced", "md markers lost",
                   "table edited", "table lost", "overlap"}

HP == INSTANCE HarnessProofs WITH Scopes <- {}, Modes <- {},
        Threads <- Members, Nobody <- none, Native <- boss, Claims <- Reviews, leader <- p_leader,
        Once <- FALSE, MaxLines <- MaxRolloutLines, MaxTruncates <- 0, tracked <- followed,
        Pids <- {1, 2}, Grace <- 1, Idle <- 2, Cap <- 1, MaxFailures <- 1,
        Callers <- Both, Files <- {"page"}, Free <- unheld, Orphan <- none,
        MaxCalls <- 2, MaxTroubles <- 1, MaxHand <- MaxByHand, memory <- known,
        MaxRuns <- 2, MaxEdits <- 1, pc <- i_pc, opt <- i_opt,
        MaxCommands <- 2, MaxChanges <- 2

SP == INSTANCE ServiceProofs WITH
        Injectors <- {f1, f2}, Hooks <- {h1}, MaxAttempts <- 1, Failures <- FALSE, Free <- unheld,
        pc <- f_pc,
        Workflow <- "performance", Processes <- Both, Forces <- BOOLEAN, MaxMade <- 2,
        ledger <- events, past <- created,
        Updaters <- Both, Dev <- 9, MaxReleases <- 2, MaxInstalls <- 2, MaxMishaps <- 1,
        Threads <- Members, Nobody <- none, MaxHooks <- 2,
        Announcers <- Both, MaxAnnouncements <- 3, Turns <- {1, 2, 3},
        ThreadOf <- <<"one", "one", "two">>

\* The same modules for the other goal, whose verdict is in a file of its own.
VP == INSTANCE ServiceProofs WITH
        Injectors <- {f1, f2}, Hooks <- {h1}, MaxAttempts <- 1, Failures <- FALSE, Free <- unheld,
        pc <- f_pc,
        Workflow <- "autoresearch", Processes <- Both, Forces <- BOOLEAN, MaxMade <- 2,
        goal <- rgoal, completion <- rcompletion, ledger <- revents, command <- rcommand,
        past <- rcreated,
        Updaters <- Both, Dev <- 9, MaxReleases <- 2, MaxInstalls <- 2, MaxMishaps <- 1,
        Threads <- Members, Nobody <- none, MaxHooks <- 2,
        Announcers <- Both, MaxAnnouncements <- 3, Turns <- {1, 2, 3},
        ThreadOf <- <<"one", "one", "two">>

-----------------------------------------------------------------------------
(* A step of the services is one of a service's own or leaves it alone.     *)
LEMMA TurnOf ==
  ASSUME [Next]_vars
  PROVE  /\ [A!AuthNext]_(A!authVars)
         /\ [R!ResearchNext]_(R!runVars)
         /\ [H!PluginNext]_(H!pluginVars)
         /\ [E!MemoryNext]_(E!memoryVars)
         /\ [G!GateNext]_(G!gateVars)
         /\ [V!GateNext]_(V!gateVars)
         /\ [U!UpdateNext]_(U!updateVars)
         /\ [T!TrackerNext]_(T!tracker)
         /\ [M!SiblingsNext]_(M!serverVars)
         /\ [F!OrphanNext]_(F!vars)
         /\ [N!AnnounceNext]_(N!announceVars)
         /\ [N!TurnNext]_(N!turnVars)
         /\ [P!PlanningNext]_<<P!lanes, P!planning>>
         /\ [W!WatcherNext]_(W!watcherVars)
         /\ [K!WikiNext]_(K!wikiVars)
         /\ [D!DoctorNext]_(D!doctorVars)
         /\ [I!InstallNext]_(I!installVars)
         /\ [C!SettingsNext]_(C!settingsVars)
<1>1. [A!AuthNext]_(A!authVars)
  BY DEF Next, Turn, vars, auth, A!authVars
<1>2. [R!ResearchNext]_(R!runVars)
  BY DEF Next, Turn, vars, research, R!runVars
<1>3. [H!PluginNext]_(H!pluginVars)
  BY DEF Next, Turn, vars, plugin, H!pluginVars
<1>4. [E!MemoryNext]_(E!memoryVars)
  BY DEF Next, Turn, vars, notes, E!memoryVars
<1>5. [G!GateNext]_(G!gateVars)
  BY DEF Next, Turn, vars, gates, G!gateVars
<1>6. [V!GateNext]_(V!gateVars)
  BY DEF Next, Turn, vars, verdicts, V!gateVars
<1>7. [U!UpdateNext]_(U!updateVars)
  BY DEF Next, Turn, vars, updates, U!updateVars
<1>8. [T!TrackerNext]_(T!tracker)
  BY DEF Next, Turn, vars, tracker, T!tracker
<1>9. [M!SiblingsNext]_(M!serverVars)
  BY DEF Next, Turn, vars, siblings, M!serverVars
<1>10. [F!OrphanNext]_(F!vars)
  BY DEF Next, Turn, vars, followups, F!vars
<1>11. [N!AnnounceNext]_(N!announceVars)
  BY DEF Next, Turn, vars, announcing, N!announceVars
<1>12. [N!TurnNext]_(N!turnVars)
  BY DEF Next, Turn, vars, turns, N!turnVars
<1>13. [P!PlanningNext]_<<P!lanes, P!planning>>
  BY DEF Next, Turn, vars, planning, P!lanes, P!planning
<1>14. [W!WatcherNext]_(W!watcherVars)
  BY DEF Next, Turn, vars, watcher, W!watcherVars
<1>15. [K!WikiNext]_(K!wikiVars)
  BY DEF Next, Turn, vars, pages, K!wikiVars
<1>16. [D!DoctorNext]_(D!doctorVars)
  BY DEF Next, Turn, vars, doctor, D!doctorVars
<1>17. [I!InstallNext]_(I!installVars)
  BY DEF Next, Turn, vars, install, I!installVars
<1>18. [C!SettingsNext]_(C!settingsVars)
  BY DEF Next, Turn, vars, settings, C!settingsVars
<1> QED BY <1>1, <1>2, <1>3, <1>4, <1>5, <1>6, <1>7, <1>8, <1>9, <1>10, <1>11, <1>12, <1>13, <1>14, <1>15, <1>16, <1>17, <1>18

LEMMA AuthSame ==
  /\ A!AuthInit <=> RP!AuthInit
  /\ [A!AuthNext]_(A!authVars) <=> [RP!AuthNext]_(RP!authVars)
  /\ A!AuthTypeOK <=> RP!AuthTypeOK
  /\ A!RotationSound <=> RP!RotationSound
<1>1. A!AuthInit <=> RP!AuthInit
  BY ZenonT(60) DEF A!AuthInit, RP!AuthInit, A!NoJob, RP!NoJob, A!NoMetadata, RP!NoMetadata
<1>2. A!AuthNext <=> RP!AuthNext
  BY ZenonT(60) DEF A!AuthNext, RP!AuthNext, A!Interrupt, RP!Interrupt, A!Launch, RP!Launch,
     A!Login, RP!Login, A!Rotations, RP!Rotations, A!Use, RP!Use, A!Work, RP!Work, A!End,
     RP!End, A!ListSlots, RP!ListSlots, A!NoJob, RP!NoJob, A!SortedSlots, RP!SortedSlots,
     A!Start, RP!Start, A!ChildEnds, RP!ChildEnds, A!MarkSlotQuota, RP!MarkSlotQuota, A!Plan,
     RP!Plan, A!ReadMetadata, RP!ReadMetadata, A!Resumable, RP!Resumable, A!SaveMetadata,
     RP!SaveMetadata, A!StoreSlot, RP!StoreSlot, A!SwapLive, RP!SwapLive, A!NoMetadata,
     RP!NoMetadata, A!Cardinality, RP!Cardinality, A!Goto, RP!Goto, A!NextSlots, RP!NextSlots,
     A!RotationPlan, RP!RotationPlan, A!ToSet, RP!ToSet, A!SelectInSeq, RP!SelectInSeq,
     A!Listed, RP!Listed, A!Min, RP!Min
<1>3. A!authVars = RP!authVars /\ A!authVars' = RP!authVars'
  BY DEF A!authVars, RP!authVars
<1>4. A!AuthTypeOK <=> RP!AuthTypeOK
  BY ZenonT(60) DEF A!AuthTypeOK, RP!AuthTypeOK, A!Metadata, RP!Metadata
<1>5. A!RotationSound <=> RP!RotationSound
  BY ZenonT(60) DEF A!RotationSound, RP!RotationSound, A!BlamesTheRightSlot,
     RP!BlamesTheRightSlot, A!NoSecondTry, RP!NoSecondTry, A!ToSet, RP!ToSet
<1> QED BY <1>1, <1>2, <1>3, <1>4, <1>5

LEMMA ResearchSame ==
  /\ R!ResearchInit <=> RP!ResearchInit
  /\ [R!ResearchNext]_(R!runVars) <=> [RP!ResearchNext]_(RP!runVars)
  /\ R!ResearchTypeOK <=> RP!ResearchTypeOK
  /\ R!KeptSupported <=> RP!KeptSupported
<1>1. R!ResearchInit <=> RP!ResearchInit
  BY ZenonT(60) DEF R!ResearchInit, RP!ResearchInit, R!Baseline, RP!Baseline, R!NoCandidate,
     RP!NoCandidate, R!NoManifest, RP!NoManifest
<1>2. R!ResearchNext <=> RP!ResearchNext
  BY ZenonT(60) DEF R!ResearchNext, RP!ResearchNext, R!Activate, RP!Activate, R!AgentCommits,
     RP!AgentCommits, R!AgentEdits, RP!AgentEdits, R!AgentReports, RP!AgentReports, R!Baseline,
     RP!Baseline, R!CleanWorktree, RP!CleanWorktree, R!Dies, RP!Dies, R!EndLock, RP!EndLock,
     R!EndManifest, RP!EndManifest, R!EndMode, RP!EndMode, R!Evaluate, RP!Evaluate, R!HeadOf,
     RP!HeadOf, R!LogKept, RP!LogKept, R!Prepare, RP!Prepare, R!Process, RP!Process, R!Results,
     RP!Results, R!Resume, RP!Resume, R!SaveManifest, RP!SaveManifest, R!SeedBaseline,
     RP!SeedBaseline, R!StartMode, RP!StartMode, R!StopLock, RP!StopLock, R!StopMode,
     RP!StopMode, R!StopRun, RP!StopRun, R!LockSet, RP!LockSet, R!Clean, RP!Clean,
     R!NoCandidate, RP!NoCandidate, R!NoManifest, RP!NoManifest, R!ModeEnded, RP!ModeEnded,
     R!Keeps, RP!Keeps, R!SelectInSeq, RP!SelectInSeq, R!Last, RP!Last, R!Ends, RP!Ends,
     R!Valid, RP!Valid, R!ModeStarted, RP!ModeStarted, R!Min, RP!Min
<1>3. R!runVars = RP!runVars /\ R!runVars' = RP!runVars'
  BY DEF R!runVars, RP!runVars
<1>4. R!ResearchTypeOK <=> RP!ResearchTypeOK
  BY ZenonT(60) DEF R!ResearchTypeOK, RP!ResearchTypeOK, R!Terminal, RP!Terminal
<1>5. R!KeptSupported <=> RP!KeptSupported
  BY ZenonT(60) DEF R!KeptSupported, RP!KeptSupported, R!Baseline, RP!Baseline
<1> QED BY <1>1, <1>2, <1>3, <1>4, <1>5

LEMMA PluginSame ==
  /\ H!PluginInit <=> RP!PluginInit
  /\ [H!PluginNext]_(H!pluginVars) <=> [RP!PluginNext]_(RP!pluginVars)
  /\ H!PluginTypeOK <=> RP!PluginTypeOK
  /\ H!StopHonest <=> RP!StopHonest
  /\ H!MarkKept <=> RP!MarkKept
<1>1. H!PluginInit <=> RP!PluginInit
  BY ZenonT(60) DEF H!PluginInit, RP!PluginInit, H!Idle, RP!Idle, H!Sessions, RP!Sessions
<1>2. H!PluginNext <=> RP!PluginNext
  BY ZenonT(60) DEF H!PluginNext, RP!PluginNext, H!AfterPlugins, RP!AfterPlugins, H!Begin,
     RP!Begin, H!Events, RP!Events, H!Mark, RP!Mark, H!PostToolUse, RP!PostToolUse,
     H!PreToolUse, RP!PreToolUse, H!Prompt, RP!Prompt, H!ReadSent, RP!ReadSent, H!Send, RP!Send,
     H!Sessions, RP!Sessions, H!Skills, RP!Skills, H!Started, RP!Started, H!StateWrite,
     RP!StateWrite, H!Stop, RP!Stop, H!Notified, RP!Notified, H!Began, RP!Began, H!CloseChild,
     RP!CloseChild, H!Idle, RP!Idle, H!Observe, RP!Observe, H!RecordSessionStart,
     RP!RecordSessionStart, H!Answer, RP!Answer, H!Tracked, RP!Tracked, H!Planning, RP!Planning,
     H!Authoritative, RP!Authoritative, H!Attached, RP!Attached, H!EndedMode, RP!EndedMode
<1>3. H!pluginVars = RP!pluginVars /\ H!pluginVars' = RP!pluginVars'
  BY DEF H!pluginVars, RP!pluginVars
<1>4. H!PluginTypeOK <=> RP!PluginTypeOK
  BY ZenonT(60) DEF H!PluginTypeOK, RP!PluginTypeOK, H!Notified, RP!Notified, H!Sessions,
     RP!Sessions, H!Skills, RP!Skills, H!Trackers, RP!Trackers, H!Kinds, RP!Kinds
<1>5. H!StopHonest <=> RP!StopHonest
  BY ZenonT(60) DEF H!StopHonest, RP!StopHonest
<1>6. H!MarkKept <=> RP!MarkKept
  BY ZenonT(60) DEF H!MarkKept, RP!MarkKept
<1> QED BY <1>1, <1>2, <1>3, <1>4, <1>5, <1>6

LEMMA MemorySame ==
  /\ E!MemoryInit <=> RP!MemoryInit
  /\ [E!MemoryNext]_(E!memoryVars) <=> [RP!MemoryNext]_(RP!memoryVars)
  /\ E!MemoryTypeOK <=> RP!MemoryTypeOK
  /\ E!NotesKept <=> RP!NotesKept
<1>1. E!MemoryInit <=> RP!MemoryInit
  BY ZenonT(60) DEF E!MemoryInit, RP!MemoryInit, E!AtRest, RP!AtRest, E!Documents, RP!Documents,
     E!NoFile, RP!NoFile, E!Servers, RP!Servers
<1>2. E!MemoryNext <=> RP!MemoryNext
  BY ZenonT(60) DEF E!MemoryNext, RP!MemoryNext, E!BeginTool, RP!BeginTool, E!DocumentOf,
     RP!DocumentOf, E!FillFile, RP!FillFile, E!NothingToPrune, RP!NothingToPrune, E!OpenFile,
     RP!OpenFile, E!ReadDocument, RP!ReadDocument, E!RenameFails, RP!RenameFails, E!RenameFile,
     RP!RenameFile, E!ServerDies, RP!ServerDies, E!Servers, RP!Servers, E!Tools, RP!Tools,
     E!AtRest, RP!AtRest, E!OnDocument, RP!OnDocument, E!Renames, RP!Renames, E!Promises,
     RP!Promises, E!Written, RP!Written, E!Replaced, RP!Replaced, E!NoFile, RP!NoFile,
     E!Documents, RP!Documents, E!InPlace, RP!InPlace, E!Brought, RP!Brought, E!Waives,
     RP!Waives, E!Of, RP!Of
<1>3. E!memoryVars = RP!memoryVars /\ E!memoryVars' = RP!memoryVars'
  BY DEF E!memoryVars, RP!memoryVars
<1>4. E!MemoryTypeOK <=> RP!MemoryTypeOK
  BY ZenonT(60) DEF E!MemoryTypeOK, RP!MemoryTypeOK, E!Documents, RP!Documents, E!Tools,
     RP!Tools
<1>5. E!NotesKept <=> RP!NotesKept
  BY ZenonT(60) DEF E!NotesKept, RP!NotesKept, E!Documents, RP!Documents, E!OnDocument,
     RP!OnDocument, E!DocumentOf, RP!DocumentOf
<1> QED BY <1>1, <1>2, <1>3, <1>4, <1>5

LEMMA GateSame ==
  /\ G!GateInit <=> SP!GateInit
  /\ [G!GateNext]_(G!gateVars) <=> [SP!GateNext]_(SP!gateVars)
  /\ G!GateTypeOK <=> SP!GateTypeOK
  /\ G!GateHolds <=> SP!GateHolds
<1>1. G!GateInit <=> SP!GateInit
  BY ZenonT(60) DEF G!GateInit, SP!GateInit, G!NoGoal, SP!NoGoal, G!Quiet, SP!Quiet
<1>2. G!GateNext <=> SP!GateNext
  BY ZenonT(60) DEF G!GateNext, SP!GateNext, G!AppendLedger, SP!AppendLedger, G!Asked, SP!Asked,
     G!Complete, SP!Complete, G!Killed, SP!Killed, G!WriteCompletion, SP!WriteCompletion,
     G!WriteGoal, SP!WriteGoal, G!Does, SP!Does, G!Quiet, SP!Quiet, G!Checkpoint, SP!Checkpoint,
     G!Create, SP!Create, G!Handoff, SP!Handoff, G!ReadForCompletion, SP!ReadForCompletion,
     G!Verdicts, SP!Verdicts, G!Passed, SP!Passed, G!LastWrite, SP!LastWrite, G!NoGoal,
     SP!NoGoal, G!Begin, SP!Begin, G!StatusOf, SP!StatusOf
<1>3. G!gateVars = SP!gateVars /\ G!gateVars' = SP!gateVars'
  BY DEF G!gateVars, SP!gateVars
<1>4. G!GateTypeOK <=> SP!GateTypeOK
  BY ZenonT(60) DEF G!GateTypeOK, SP!GateTypeOK, G!Statuses, SP!Statuses, G!Verdicts,
     SP!Verdicts
<1>5. G!GateHolds <=> SP!GateHolds
  BY ZenonT(60) DEF G!GateHolds, SP!GateHolds
<1> QED BY <1>1, <1>2, <1>3, <1>4, <1>5

LEMMA VerdictSame ==
  /\ V!GateInit <=> VP!GateInit
  /\ [V!GateNext]_(V!gateVars) <=> [VP!GateNext]_(VP!gateVars)
  /\ V!GateTypeOK <=> VP!GateTypeOK
  /\ V!GateEarned <=> VP!GateEarned
<1>1. V!GateInit <=> VP!GateInit
  BY ZenonT(60) DEF V!GateInit, VP!GateInit, V!NoGoal, VP!NoGoal, V!Quiet, VP!Quiet
<1>2. V!GateNext <=> VP!GateNext
  BY ZenonT(60) DEF V!GateNext, VP!GateNext, V!AppendLedger, VP!AppendLedger, V!Asked, VP!Asked,
     V!Complete, VP!Complete, V!Killed, VP!Killed, V!WriteCompletion, VP!WriteCompletion,
     V!WriteGoal, VP!WriteGoal, V!Does, VP!Does, V!Quiet, VP!Quiet, V!Checkpoint, VP!Checkpoint,
     V!Create, VP!Create, V!Handoff, VP!Handoff, V!ReadForCompletion, VP!ReadForCompletion,
     V!Verdicts, VP!Verdicts, V!Passed, VP!Passed, V!LastWrite, VP!LastWrite, V!NoGoal,
     VP!NoGoal, V!Begin, VP!Begin, V!StatusOf, VP!StatusOf
<1>3. V!gateVars = VP!gateVars /\ V!gateVars' = VP!gateVars'
  BY DEF V!gateVars, VP!gateVars
<1>4. V!GateTypeOK <=> VP!GateTypeOK
  BY ZenonT(60) DEF V!GateTypeOK, VP!GateTypeOK, V!Statuses, VP!Statuses, V!Verdicts,
     VP!Verdicts
<1>5. V!GateEarned <=> VP!GateEarned
  BY ZenonT(60) DEF V!GateEarned, VP!GateEarned
<1> QED BY <1>1, <1>2, <1>3, <1>4, <1>5

LEMMA UpdateSame ==
  /\ U!UpdateInit <=> SP!UpdateInit
  /\ [U!UpdateNext]_(U!updateVars) <=> [SP!UpdateNext]_(SP!updateVars)
  /\ U!UpdateTypeOK <=> SP!UpdateTypeOK
  /\ U!StampTrue <=> SP!StampTrue
<1>1. U!UpdateInit <=> SP!UpdateInit
  BY ZenonT(60) DEF U!UpdateInit, SP!UpdateInit, U!NoUpdate, SP!NoUpdate, U!Unknown, SP!Unknown
<1>2. U!UpdateNext <=> SP!UpdateNext
  BY ZenonT(60) DEF U!UpdateNext, SP!UpdateNext, U!BeginUpdate, SP!BeginUpdate, U!Channels,
     SP!Channels, U!InstallByHand, SP!InstallByHand, U!InstallFails, SP!InstallFails,
     U!InstallPackage, SP!InstallPackage, U!NewRelease, SP!NewRelease, U!RefreshSetup,
     SP!RefreshSetup, U!SetupFails, SP!SetupFails, U!Unknown, SP!Unknown, U!UpdateDies,
     SP!UpdateDies, U!Versions, SP!Versions, U!WriteStamp, SP!WriteStamp, U!Outrun, SP!Outrun,
     U!Postinstalled, SP!Postinstalled, U!Mishap, SP!Mishap, U!UpdateStep, SP!UpdateStep,
     U!Wanted, SP!Wanted, U!StampOf, SP!StampOf
<1>3. U!updateVars = SP!updateVars /\ U!updateVars' = SP!updateVars'
  BY DEF U!updateVars, SP!updateVars
<1>4. U!UpdateTypeOK <=> SP!UpdateTypeOK
  BY ZenonT(60) DEF U!UpdateTypeOK, SP!UpdateTypeOK, U!Unknown, SP!Unknown, U!Versions,
     SP!Versions
<1>5. U!StampTrue <=> SP!StampTrue
  BY ZenonT(60) DEF U!StampTrue, SP!StampTrue, U!Unknown, SP!Unknown
<1> QED BY <1>1, <1>2, <1>3, <1>4, <1>5

LEMMA TrackerSame ==
  /\ T!TrackerInit <=> SP!TrackerInit
  /\ [T!TrackerNext]_(T!tracker) <=> [SP!TrackerNext]_(SP!tracker)
  /\ T!TrackerTypeOK <=> SP!TrackerTypeOK
<1>1. T!TrackerInit <=> SP!TrackerInit
  BY ZenonT(60) DEF T!TrackerInit, SP!TrackerInit
<1>2. T!TrackerNext <=> SP!TrackerNext
  BY ZenonT(60) DEF T!TrackerNext, SP!TrackerNext, T!Attest, SP!Attest, T!BeginSpawn,
     SP!BeginSpawn, T!RecordChild, SP!RecordChild, T!RecordParent, SP!RecordParent, T!Roles,
     SP!Roles, T!StartSession, SP!StartSession, T!Record, SP!Record, T!Cardinality,
     SP!Cardinality, T!KindAfter, SP!KindAfter, T!LeaderAfter, SP!LeaderAfter, T!KnownLeader,
     SP!KnownLeader, T!AskedLeader, SP!AskedLeader
<1>3. T!tracker = SP!tracker /\ T!tracker' = SP!tracker'
  BY DEF T!tracker, SP!tracker
<1>4. T!TrackerTypeOK <=> SP!TrackerTypeOK
  BY ZenonT(60) DEF T!TrackerTypeOK, SP!TrackerTypeOK, T!Kinds, SP!Kinds, T!Roles, SP!Roles,
     T!Someone, SP!Someone, T!Spawn, SP!Spawn
<1> QED BY <1>1, <1>2, <1>3, <1>4

LEMMA SiblingsSame ==
  /\ M!SiblingsInit <=> HP!SiblingsInit
  /\ [M!SiblingsNext]_(M!serverVars) <=> [HP!SiblingsNext]_(HP!serverVars)
  /\ M!SiblingsTypeOK <=> HP!SiblingsTypeOK
<1>1. M!SiblingsInit <=> HP!SiblingsInit
  BY ZenonT(60) DEF M!SiblingsInit, HP!SiblingsInit, M!NoTable, HP!NoTable, M!Unborn, HP!Unborn,
     M!Never, HP!Never
<1>2. M!SiblingsNext <=> HP!SiblingsNext
  BY ZenonT(60) DEF M!SiblingsNext, HP!SiblingsNext, M!ClientCloses, HP!ClientCloses, M!Decide,
     HP!Decide, M!ParentEnds, HP!ParentEnds, M!ParentWatchdog, HP!ParentWatchdog, M!ReadFails,
     HP!ReadFails, M!ReadTable, HP!ReadTable, M!StartServer, HP!StartServer, M!Tick, HP!Tick,
     M!Traffic, HP!Traffic, M!IsUp, HP!IsUp, M!NoTable, HP!NoTable, M!Shutdown, HP!Shutdown,
     M!Never, HP!Never, M!NewerSiblings, HP!NewerSiblings, M!OverCap, HP!OverCap, M!Set, HP!Set,
     M!Superseded, HP!Superseded, M!Unborn, HP!Unborn, M!Older, HP!Older, M!Matching,
     HP!Matching, M!Cardinality, HP!Cardinality, M!Longest, HP!Longest
<1>3. M!serverVars = HP!serverVars /\ M!serverVars' = HP!serverVars'
  BY DEF M!serverVars, HP!serverVars
<1>4. M!SiblingsTypeOK <=> HP!SiblingsTypeOK
  BY ZenonT(60) DEF M!SiblingsTypeOK, HP!SiblingsTypeOK, M!Longest, HP!Longest, M!Never,
     HP!Never
<1> QED BY <1>1, <1>2, <1>3, <1>4

LEMMA FollowupSame ==
  /\ F!Init <=> SP!Init
  /\ [F!OrphanNext]_(F!vars) <=> [SP!OrphanNext]_(SP!vars)
  /\ F!TypeOK <=> SP!TypeOK
<1>1. F!Init <=> SP!Init
  BY ZenonT(60) DEF F!Init, SP!Init, F!Empty, SP!Empty, F!Procs, SP!Procs, F!Unlocked,
     SP!Unlocked
<1>2. F!OrphanNext <=> SP!OrphanNext
  BY ZenonT(60) DEF F!OrphanNext, SP!OrphanNext, F!Age, SP!Age, F!Crash, SP!Crash, F!Next,
     SP!Next, F!OrphanStep, SP!OrphanStep, F!Procs, SP!Procs, F!At, SP!At, F!Held, SP!Held,
     F!local, SP!local, F!Goto, SP!Goto, F!Fail, SP!Fail, F!Inject, SP!Inject, F!Peek, SP!Peek,
     F!Step, SP!Step, F!Break, SP!Break, F!OwnerFails, SP!OwnerFails, F!SeeStale, SP!SeeStale,
     F!Exists, SP!Exists, F!MakeLock, SP!MakeLock, F!ReadQueue, SP!ReadQueue, F!Release,
     SP!Release, F!Report, SP!Report, F!Show, SP!Show, F!Undo, SP!Undo, F!Vanished, SP!Vanished,
     F!Wait, SP!Wait, F!WriteOwner, SP!WriteOwner, F!WriteQueue, SP!WriteQueue, F!Unlocked,
     SP!Unlocked, F!Throws, SP!Throws, F!Changed, SP!Changed
<1>3. F!vars = SP!vars /\ F!vars' = SP!vars'
  BY DEF F!vars, SP!vars
<1>4. F!TypeOK <=> SP!TypeOK
  BY ZenonT(60) DEF F!TypeOK, SP!TypeOK, F!Label, SP!Label, F!Procs, SP!Procs, F!Status,
     SP!Status
<1> QED BY <1>1, <1>2, <1>3, <1>4

LEMMA NoticeSame ==
  /\ N!AnnounceInit <=> SP!AnnounceInit
  /\ [N!AnnounceNext]_(N!announceVars) <=> [SP!AnnounceNext]_(SP!announceVars)
  /\ N!TurnInit <=> SP!TurnInit
  /\ [N!TurnNext]_(N!turnVars) <=> [SP!TurnNext]_(SP!turnVars)
  /\ N!NotificationsTypeOK <=> SP!NotificationsTypeOK
  /\ N!ToldOnce <=> SP!ToldOnce
  /\ N!TurnsApart <=> SP!TurnsApart
<1>1. N!AnnounceInit <=> SP!AnnounceInit
  BY ZenonT(60) DEF N!AnnounceInit, SP!AnnounceInit, N!Buckets, SP!Buckets, N!None, SP!None,
     N!Resting, SP!Resting
<1>2. N!AnnounceNext <=> SP!AnnounceNext
  BY ZenonT(60) DEF N!AnnounceNext, SP!AnnounceNext, N!Announce, SP!Announce, N!Look, SP!Look,
     N!Note, SP!Note, N!Send, SP!Send, N!SendFails, SP!SendFails, N!SendTimesOut,
     SP!SendTimesOut, N!WindowPasses, SP!WindowPasses, N!Buckets, SP!Buckets, N!Texts, SP!Texts,
     N!AnnouncerAt, SP!AnnouncerAt, N!Resting, SP!Resting, N!Taken, SP!Taken, N!What, SP!What
<1>3. N!announceVars = SP!announceVars /\ N!announceVars' = SP!announceVars'
  BY DEF N!announceVars, SP!announceVars
<1>4. N!TurnInit <=> SP!TurnInit
  BY ZenonT(60) DEF N!TurnInit, SP!TurnInit, N!Unguarded, SP!Unguarded
<1>5. N!TurnNext <=> SP!TurnNext
  BY ZenonT(60) DEF N!TurnNext, SP!TurnNext, N!Dies, SP!Dies, N!IntervalPasses,
     SP!IntervalPasses, N!LockAges, SP!LockAges, N!TurnEnds, SP!TurnEnds, N!TurnStep,
     SP!TurnStep, N!Dispatching, SP!Dispatching, N!TurnAt, SP!TurnAt, N!NoteTurn, SP!NoteTurn,
     N!OpenLock, SP!OpenLock, N!ReadGuard, SP!ReadGuard, N!ReleaseGuard, SP!ReleaseGuard,
     N!RunOwx, SP!RunOwx, N!RunPrevious, SP!RunPrevious, N!UnlinkStale, SP!UnlinkStale,
     N!Unguarded, SP!Unguarded
<1>6. N!turnVars = SP!turnVars /\ N!turnVars' = SP!turnVars'
  BY DEF N!turnVars, SP!turnVars
<1>7. N!NotificationsTypeOK <=> SP!NotificationsTypeOK
  BY ZenonT(60) DEF N!NotificationsTypeOK, SP!NotificationsTypeOK, N!Buckets, SP!Buckets,
     N!Texts, SP!Texts
<1>8. N!ToldOnce <=> SP!ToldOnce
  BY ZenonT(60) DEF N!ToldOnce, SP!ToldOnce
<1>9. N!TurnsApart <=> SP!TurnsApart
  BY ZenonT(60) DEF N!TurnsApart, SP!TurnsApart, N!Cardinality, SP!Cardinality, N!Dispatching,
     SP!Dispatching
<1> QED BY <1>1, <1>2, <1>3, <1>4, <1>5, <1>6, <1>7, <1>8, <1>9

LEMMA PlanningSame ==
  /\ P!PlanningInit <=> HP!PlanningInit
  /\ [P!PlanningNext]_<<P!lanes, P!planning>> <=> [HP!PlanningNext]_<<HP!lanes, HP!planning>>
  /\ P!PlanningTypeOK <=> HP!PlanningTypeOK
  /\ P!LanesIndependent <=> HP!LanesIndependent
<1>1. P!PlanningInit <=> HP!PlanningInit
  BY ZenonT(60) DEF P!PlanningInit, HP!PlanningInit, P!NoPipe, HP!NoPipe, P!NoRun, HP!NoRun,
     P!None, HP!None
<1>2. P!PlanningNext <=> HP!PlanningNext
  BY ZenonT(60) DEF P!PlanningNext, HP!PlanningNext, P!LaneStep, HP!LaneStep, P!Others,
     HP!Others, P!PipeStep, HP!PipeStep, P!RunStep, HP!RunStep, P!lanes, HP!lanes, P!planning,
     HP!planning, P!Roles, HP!Roles, P!Someone, HP!Someone, P!Cancel, HP!Cancel, P!Clear,
     HP!Clear, P!RecordReviews, HP!RecordReviews, P!StartPipeline, HP!StartPipeline, P!StartRun,
     HP!StartRun, P!LosePipe, HP!LosePipe, P!PassiveStage, HP!PassiveStage, P!QualityGate,
     HP!QualityGate, P!RalplanStage, HP!RalplanStage, P!ArchitectReview, HP!ArchitectReview,
     P!CriticReview, HP!CriticReview, P!Draft, HP!Draft, P!LoseRun, HP!LoseRun, P!RunThrows,
     HP!RunThrows, P!None, HP!None, P!Ended, HP!Ended, P!NoPipe, HP!NoPipe, P!Stages, HP!Stages,
     P!NoRun, HP!NoRun, P!NextStage, HP!NextStage, P!CycleAfter, HP!CycleAfter, P!EndPipe,
     HP!EndPipe, P!Consensus, HP!Consensus, P!NextDraft, HP!NextDraft, P!Updated, HP!Updated,
     P!Backed, HP!Backed, P!EndRun, HP!EndRun, P!Over, HP!Over, P!SequentialApproval,
     HP!SequentialApproval, P!Exhausted, HP!Exhausted, P!Approves, HP!Approves
<1>3. <<P!lanes, P!planning>> = <<HP!lanes, HP!planning>> /\ <<P!lanes, P!planning>>' = <<HP!lanes, HP!planning>>'
  BY DEF P!lanes, HP!lanes, P!planning, HP!planning
<1>4. P!PlanningTypeOK <=> HP!PlanningTypeOK
  BY ZenonT(60) DEF P!PlanningTypeOK, HP!PlanningTypeOK, P!Ended, HP!Ended, P!Evidence,
     HP!Evidence, P!File, HP!File, P!Stage, HP!Stage, P!Someone, HP!Someone, P!Stages, HP!Stages
<1>5. P!LanesIndependent <=> HP!LanesIndependent
  BY ZenonT(60) DEF P!LanesIndependent, HP!LanesIndependent, P!Roles, HP!Roles
<1> QED BY <1>1, <1>2, <1>3, <1>4, <1>5

LEMMA WatcherSame ==
  /\ W!WatcherInit <=> HP!WatcherInit
  /\ [W!WatcherNext]_(W!watcherVars) <=> [HP!WatcherNext]_(HP!watcherVars)
  /\ W!WatcherTypeOK <=> HP!WatcherTypeOK
  /\ W!LinesOnce <=> HP!LinesOnce
<1>1. W!WatcherInit <=> HP!WatcherInit
  BY ZenonT(60) DEF W!WatcherInit, HP!WatcherInit, W!Pollers, HP!Pollers, W!Resting, HP!Resting
<1>2. W!WatcherNext <=> HP!WatcherNext
  BY ZenonT(60) DEF W!WatcherNext, HP!WatcherNext, W!PollTick, HP!PollTick, W!Pollers,
     HP!Pollers, W!Polls, HP!Polls, W!SecondSignal, HP!SecondSignal, W!Signal, HP!Signal,
     W!Truncate, HP!Truncate, W!Write, HP!Write, W!Goto, HP!Goto, W!ProcessLine, HP!ProcessLine,
     W!ReadDelta, HP!ReadDelta, W!Stat, HP!Stat, W!Track, HP!Track, W!WriteState, HP!WriteState,
     W!Rest, HP!Rest, W!Smaller, HP!Smaller, W!WholeLines, HP!WholeLines, W!Resting, HP!Resting,
     W!Whole, HP!Whole
<1>3. W!watcherVars = HP!watcherVars /\ W!watcherVars' = HP!watcherVars'
  BY DEF W!watcherVars, HP!watcherVars
<1>4. W!WatcherTypeOK <=> HP!WatcherTypeOK
  BY ZenonT(60) DEF W!WatcherTypeOK, HP!WatcherTypeOK, W!Pollers, HP!Pollers
<1>5. W!LinesOnce <=> HP!LinesOnce
  BY ZenonT(60) DEF W!LinesOnce, HP!LinesOnce, W!Skipped, HP!Skipped
<1> QED BY <1>1, <1>2, <1>3, <1>4, <1>5

LEMMA WikiSame ==
  /\ K!WikiInit <=> HP!WikiInit
  /\ [K!WikiNext]_(K!wikiVars) <=> [HP!WikiNext]_(HP!wikiVars)
  /\ K!WikiTypeOK <=> HP!WikiTypeOK
  /\ K!IndexTrue <=> HP!IndexTrue
  /\ K!EnvironmentTrue <=> HP!EnvironmentTrue
  /\ K!Fallback <=> HP!Fallback
<1>1. K!WikiInit <=> HP!WikiInit
  BY ZenonT(60) DEF K!WikiInit, HP!WikiInit, K!NoCall, HP!NoCall, K!NoIndex, HP!NoIndex,
     K!NoPage, HP!NoPage, K!Reserved, HP!Reserved
<1>2. K!WikiNext <=> HP!WikiNext
  BY ZenonT(60) DEF K!WikiNext, HP!WikiNext, K!BeginCall, HP!BeginCall, K!CallStep, HP!CallStep,
     K!Crash, HP!Crash, K!Reserved, HP!Reserved, K!WikiOps, HP!WikiOps, K!WriteByHand,
     HP!WriteByHand, K!WriteFails, HP!WriteFails, K!WriteMemory, HP!WriteMemory, K!Continue,
     HP!Continue, K!NoCall, HP!NoCall, K!Program, HP!Program, K!AskFallback, HP!AskFallback,
     K!FeedMemory, HP!FeedMemory, K!GiveLock, HP!GiveLock, K!LockTimesOut, HP!LockTimesOut,
     K!LookFirst, HP!LookFirst, K!ReadPage, HP!ReadPage, K!RemovePage, HP!RemovePage,
     K!StartSession, HP!StartSession, K!TakeLock, HP!TakeLock, K!TakeTime, HP!TakeTime,
     K!WriteEnvironment, HP!WriteEnvironment, K!WriteIndex, HP!WriteIndex, K!WriteLog,
     HP!WriteLog, K!WritePage, HP!WritePage, K!Troubled, HP!Troubled, K!ByHand, HP!ByHand,
     K!Listed, HP!Listed, K!At, HP!At, K!Throws, HP!Throws, K!NoPage, HP!NoPage, K!Locked,
     HP!Locked, K!Fallback, HP!Fallback, K!Goes, HP!Goes, K!Parsed, HP!Parsed, K!Advance,
     HP!Advance, K!Then, HP!Then, K!NoIndex, HP!NoIndex, K!MergedPage, HP!MergedPage, K!RankOf,
     HP!RankOf
<1>3. K!wikiVars = HP!wikiVars /\ K!wikiVars' = HP!wikiVars'
  BY DEF K!wikiVars, HP!wikiVars
<1>4. K!WikiTypeOK <=> HP!WikiTypeOK
  BY ZenonT(60) DEF K!WikiTypeOK, HP!WikiTypeOK, K!NoIndex, HP!NoIndex, K!WikiOps, HP!WikiOps
<1>5. K!IndexTrue <=> HP!IndexTrue
  BY ZenonT(60) DEF K!IndexTrue, HP!IndexTrue, K!NoIndex, HP!NoIndex, K!Parsed, HP!Parsed
<1>6. K!EnvironmentTrue <=> HP!EnvironmentTrue
  BY ZenonT(60) DEF K!EnvironmentTrue, HP!EnvironmentTrue
<1>7. K!Fallback <=> HP!Fallback
  BY ZenonT(60) DEF K!Fallback, HP!Fallback
<1> QED BY <1>1, <1>2, <1>3, <1>4, <1>5, <1>6, <1>7

LEMMA DoctorSame ==
  /\ D!DoctorInit <=> RP!DoctorInit
  /\ [D!DoctorNext]_(D!doctorVars) <=> [RP!DoctorNext]_(RP!doctorVars)
  /\ D!DoctorTypeOK <=> RP!DoctorTypeOK
  /\ D!PassIsWired <=> RP!PassIsWired
<1>1. D!DoctorInit <=> RP!DoctorInit
  BY ZenonT(60) DEF D!DoctorInit, RP!DoctorInit, D!Bare, RP!Bare, D!NoSetup, RP!NoSetup, D!None,
     RP!None, D!Roles, RP!Roles
<1>2. D!DoctorNext <=> RP!DoctorNext
  BY ZenonT(60) DEF D!DoctorNext, RP!DoctorNext, D!Complaints, RP!Complaints, D!Cut, RP!Cut,
     D!Follow, RP!Follow, D!FollowFirst, RP!FollowFirst, D!OtherCodex, RP!OtherCodex,
     D!RunSetup, RP!RunSetup, D!SetupStep, RP!SetupStep, D!SetupThrows, RP!SetupThrows, D!Spoil,
     RP!Spoil, D!AgentsMdCheck, RP!AgentsMdCheck, D!ConfigCheck, RP!ConfigCheck, D!ExploreCheck,
     RP!ExploreCheck, D!HooksCheck, RP!HooksCheck, D!HostCheck, RP!HostCheck, D!LoreCheck,
     RP!LoreCheck, D!McpCheck, RP!McpCheck, D!PostCompactCheck, RP!PostCompactCheck,
     D!PromptsCheck, RP!PromptsCheck, D!RolesCheck, RP!RolesCheck, D!RootsCheck, RP!RootsCheck,
     D!RoutingCheck, RP!RoutingCheck, D!SeededCheck, RP!SeededCheck, D!SkillsCheck,
     RP!SkillsCheck, D!SmokeCheck, RP!SmokeCheck, D!SparkCheck, RP!SparkCheck, D!TriageCheck,
     RP!TriageCheck, D!Befalls, RP!Befalls, D!NoSetup, RP!NoSetup, D!ByHand, RP!ByHand, D!Heed,
     RP!Heed, D!First, RP!First, D!MendByHand, RP!MendByHand, D!BeginSetup, RP!BeginSetup,
     D!None, RP!None, D!After, RP!After, D!Throws, RP!Throws, D!WrittenBy, RP!WrittenBy,
     D!Spoiled, RP!Spoiled, D!Contract, RP!Contract, D!Says, RP!Says, D!PluginHooks,
     RP!PluginHooks, D!PluginHooksCheck, RP!PluginHooksCheck, D!On, RP!On, D!FirstTable,
     RP!FirstTable, D!Generated, RP!Generated, D!Roles, RP!Roles, D!Table, RP!Table,
     D!Unsupported, RP!Unsupported, D!MarketCheck, RP!MarketCheck, D!Advice, RP!Advice,
     D!Printed, RP!Printed, D!Excused, RP!Excused, D!McpFor, RP!McpFor, D!ModeFor, RP!ModeFor,
     D!Registered, RP!Registered, D!StepsOf, RP!StepsOf, D!UsesHooksFile, RP!UsesHooksFile,
     D!Agents, RP!Agents, D!Cache, RP!Cache, D!Flags, RP!Flags, D!HooksFile, RP!HooksFile,
     D!LegacyConfig, RP!LegacyConfig, D!LegacyMd, RP!LegacyMd, D!Market, RP!Market,
     D!PluginConfig, RP!PluginConfig, D!PluginMd, RP!PluginMd, D!Prefs, RP!Prefs, D!Prompts,
     RP!Prompts, D!Refresh, RP!Refresh, D!WriteSkills, RP!WriteSkills, D!Bare, RP!Bare, D!Kept,
     RP!Kept, D!Strayed, RP!Strayed, D!WithoutConfig, RP!WithoutConfig, D!Lane, RP!Lane,
     D!Frontier, RP!Frontier, D!Forced, RP!Forced, D!Merging, RP!Merging, D!Plain, RP!Plain,
     D!PluginForced, RP!PluginForced, D!Managed, RP!Managed, D!LegacySteps, RP!LegacySteps,
     D!PluginSteps, RP!PluginSteps, D!Preserves, RP!Preserves, D!Refreshed, RP!Refreshed,
     D!Synced, RP!Synced, D!Whole, RP!Whole, D!Removes, RP!Removes, D!Cleaned, RP!Cleaned,
     D!HoldsOwx, RP!HoldsOwx
<1>3. D!doctorVars = RP!doctorVars /\ D!doctorVars' = RP!doctorVars'
  BY DEF D!doctorVars, RP!doctorVars
<1>4. D!DoctorTypeOK <=> RP!DoctorTypeOK
  BY ZenonT(60) DEF D!DoctorTypeOK, RP!DoctorTypeOK, D!Bare, RP!Bare, D!NoSetup, RP!NoSetup,
     D!WithoutConfig, RP!WithoutConfig, D!None, RP!None, D!Roles, RP!Roles
<1>5. D!PassIsWired <=> RP!PassIsWired
  BY ZenonT(60) DEF D!PassIsWired, RP!PassIsWired, D!Complaints, RP!Complaints, D!Wired,
     RP!Wired, D!AgentsMdCheck, RP!AgentsMdCheck, D!ConfigCheck, RP!ConfigCheck, D!ExploreCheck,
     RP!ExploreCheck, D!HooksCheck, RP!HooksCheck, D!HostCheck, RP!HostCheck, D!LoreCheck,
     RP!LoreCheck, D!McpCheck, RP!McpCheck, D!PostCompactCheck, RP!PostCompactCheck,
     D!PromptsCheck, RP!PromptsCheck, D!RolesCheck, RP!RolesCheck, D!RootsCheck, RP!RootsCheck,
     D!RoutingCheck, RP!RoutingCheck, D!SeededCheck, RP!SeededCheck, D!SkillsCheck,
     RP!SkillsCheck, D!SmokeCheck, RP!SmokeCheck, D!SparkCheck, RP!SparkCheck, D!TriageCheck,
     RP!TriageCheck, D!Contract, RP!Contract, D!Says, RP!Says, D!PluginHooks, RP!PluginHooks,
     D!PluginHooksCheck, RP!PluginHooksCheck, D!On, RP!On, D!None, RP!None, D!FirstTable,
     RP!FirstTable, D!Generated, RP!Generated, D!Roles, RP!Roles, D!Table, RP!Table,
     D!Unsupported, RP!Unsupported, D!MarketCheck, RP!MarketCheck, D!Lane, RP!Lane, D!Frontier,
     RP!Frontier
<1> QED BY <1>1, <1>2, <1>3, <1>4, <1>5

LEMMA InstallSame ==
  /\ I!InstallInit <=> HP!InstallInit
  /\ [I!InstallNext]_(I!installVars) <=> [HP!InstallNext]_(HP!installVars)
  /\ I!InstallTypeOK <=> HP!InstallTypeOK
  /\ I!SetupCoherent <=> HP!SetupCoherent
<1>1. I!InstallInit <=> HP!InstallInit
  BY ZenonT(60) DEF I!InstallInit, HP!InstallInit, I!Kinds, HP!Kinds, I!NoOptions, HP!NoOptions
<1>2. I!InstallNext <=> HP!InstallNext
  BY ZenonT(60) DEF I!InstallNext, HP!InstallNext, I!BeginSetup, HP!BeginSetup,
     I!BeginUninstall, HP!BeginUninstall, I!Cut, HP!Cut, I!DropNotify, HP!DropNotify, I!Edit,
     HP!Edit, I!Items, HP!Items, I!SetupEnds, HP!SetupEnds, I!SetupStep, HP!SetupStep,
     I!UninstallEnds, HP!UninstallEnds, I!UninstallStep, HP!UninstallStep, I!Asked, HP!Asked,
     I!Begin, HP!Begin, I!Options, HP!Options, I!NoOptions, HP!NoOptions, I!Aged, HP!Aged,
     I!Edited, HP!Edited, I!Kinds, HP!Kinds, I!Finish, HP!Finish, I!WriteHud, HP!WriteHud,
     I!Step, HP!Step, I!Generated, HP!Generated, I!CleanConfig, HP!CleanConfig, I!CleanHooks,
     HP!CleanHooks, I!RemoveFiles, HP!RemoveFiles, I!Answers, HP!Answers, I!Chosen, HP!Chosen,
     I!CleanLegacyConfig, HP!CleanLegacyConfig, I!WriteConfig, HP!WriteConfig, I!WriteFiles,
     HP!WriteFiles, I!WriteFlags, HP!WriteFlags, I!WriteGuidance, HP!WriteGuidance,
     I!WriteHooks, HP!WriteHooks, I!WriteInstructions, HP!WriteInstructions, I!WriteMetadata,
     HP!WriteMetadata, I!FlagsOff, HP!FlagsOff, I!RestoredNotify, HP!RestoredNotify, I!Stripped,
     HP!Stripped, I!RemainingHooks, HP!RemainingHooks, I!BackupConfig, HP!BackupConfig,
     I!LegacyConfigRemoved, HP!LegacyConfigRemoved, I!MergedConfig, HP!MergedConfig, I!After,
     HP!After, I!BackedUp, HP!BackedUp, I!Backup, HP!Backup, I!PluginFlags, HP!PluginFlags,
     I!LegacyGuidance, HP!LegacyGuidance, I!PluginGuidance, HP!PluginGuidance, I!MergedHooks,
     HP!MergedHooks, I!Held, HP!Held, I!FlagsOn, HP!FlagsOn, I!NotifyPlan, HP!NotifyPlan,
     I!AgentAfter, HP!AgentAfter, I!PromptAfter, HP!PromptAfter, I!ShimAfter, HP!ShimAfter,
     I!SkillAfter, HP!SkillAfter, I!BackupGuidance, HP!BackupGuidance, I!MergedGuidance,
     HP!MergedGuidance, I!Synced, HP!Synced, I!Managed, HP!Managed, I!Untouched, HP!Untouched
<1>3. I!installVars = HP!installVars /\ I!installVars' = HP!installVars'
  BY DEF I!installVars, HP!installVars
<1>4. I!InstallTypeOK <=> HP!InstallTypeOK
  BY ZenonT(60) DEF I!InstallTypeOK, HP!InstallTypeOK, I!Items, HP!Items, I!Kinds, HP!Kinds,
     I!Options, HP!Options, I!Setup, HP!Setup, I!Uninstall, HP!Uninstall, I!Answers, HP!Answers
<1>5. I!SetupCoherent <=> HP!SetupCoherent
  BY ZenonT(60) DEF I!SetupCoherent, HP!SetupCoherent, I!HooksEnabled, HP!HooksEnabled,
     I!NotifyKept, HP!NotifyKept
<1> QED BY <1>1, <1>2, <1>3, <1>4, <1>5

LEMMA SettingsSame ==
  /\ C!SettingsInit <=> HP!SettingsInit
  /\ [C!SettingsNext]_(C!settingsVars) <=> [HP!SettingsNext]_(HP!settingsVars)
  /\ C!SettingsTypeOK <=> HP!SettingsTypeOK
  /\ C!SettingsSettle <=> HP!SettingsSettle
<1>1. C!SettingsInit <=> HP!SettingsInit
  BY ZenonT(60) DEF C!SettingsInit, HP!SettingsInit, C!Absent, HP!Absent, C!Limits, HP!Limits,
     C!NoChoice, HP!NoChoice
<1>2. C!SettingsNext <=> HP!SettingsNext
  BY ZenonT(60) DEF C!SettingsNext, HP!SettingsNext, C!Change, HP!Change, C!Choices, HP!Choices,
     C!Launch, HP!Launch, C!LegacySetup, HP!LegacySetup, C!PluginApplies, HP!PluginApplies,
     C!PluginCleans, HP!PluginCleans, C!PluginIsCut, HP!PluginIsCut, C!Uninstalls,
     HP!Uninstalls, C!Changed, HP!Changed, C!NoChoice, HP!NoChoice, C!Command, HP!Command,
     C!Merged, HP!Merged, C!NeedsRepair, HP!NeedsRepair, C!SharedAfter, HP!SharedAfter,
     C!TrustStripped, HP!TrustStripped, C!Timed, HP!Timed, C!TrustAfter, HP!TrustAfter,
     C!Absent, HP!Absent, C!EffortStripped, HP!EffortStripped, C!LimitsStripped,
     HP!LimitsStripped, C!Limits, HP!Limits, C!Unset, HP!Unset, C!EffortAfter, HP!EffortAfter,
     C!FirstPartyAfter, HP!FirstPartyAfter, C!NotifyAfter, HP!NotifyAfter, C!ShellAfter,
     HP!ShellAfter, C!StatusAfter, HP!StatusAfter, C!ThreadsAfter, HP!ThreadsAfter,
     C!ManagedLine, HP!ManagedLine
<1>3. C!settingsVars = HP!settingsVars /\ C!settingsVars' = HP!settingsVars'
  BY DEF C!settingsVars, HP!settingsVars
<1>4. C!SettingsTypeOK <=> HP!SettingsTypeOK
  BY ZenonT(60) DEF C!SettingsTypeOK, HP!SettingsTypeOK, C!Choices, HP!Choices, C!Limits,
     HP!Limits, C!Lines, HP!Lines, C!NoChoice, HP!NoChoice
<1>5. C!SettingsSettle <=> HP!SettingsSettle
  BY ZenonT(60) DEF C!SettingsSettle, HP!SettingsSettle, C!Absent, HP!Absent, C!Merged,
     HP!Merged, C!Settings, HP!Settings, C!EffortAfter, HP!EffortAfter, C!FirstPartyAfter,
     HP!FirstPartyAfter, C!LimitsStripped, HP!LimitsStripped, C!NotifyAfter, HP!NotifyAfter,
     C!SharedAfter, HP!SharedAfter, C!ShellAfter, HP!ShellAfter, C!StatusAfter, HP!StatusAfter,
     C!ThreadsAfter, HP!ThreadsAfter, C!Timed, HP!Timed, C!TrustAfter, HP!TrustAfter, C!Limits,
     HP!Limits, C!ManagedLine, HP!ManagedLine
<1> QED BY <1>1, <1>2, <1>3, <1>4, <1>5
(* What their action properties read.                                      *)
LEMMA InstallReads ==
  /\ I!Setup = HP!Setup /\ I!Recoverable = HP!Recoverable /\ I!Recoverable' = HP!Recoverable'
  /\ I!installVars = HP!installVars /\ I!installVars' = HP!installVars'
  /\ I!Forfeit = HP!Forfeit
<1>1. I!Setup = HP!Setup
  BY ZenonT(60) DEF I!Setup, HP!Setup
<1>2. I!Recoverable = HP!Recoverable
  BY ZenonT(60) DEF I!Recoverable, HP!Recoverable, I!InPlace, HP!InPlace, I!Kinds, HP!Kinds
<1>3. I!Recoverable' = HP!Recoverable'
  BY ZenonT(60) DEF I!Recoverable, HP!Recoverable, I!InPlace, HP!InPlace, I!Kinds, HP!Kinds
<1>4. I!installVars = HP!installVars /\ I!installVars' = HP!installVars'
  BY DEF I!installVars, HP!installVars
<1>5. I!Forfeit = HP!Forfeit
  BY ZenonT(60) DEF I!Forfeit, HP!Forfeit
<1> QED BY <1>1, <1>2, <1>3, <1>4, <1>5

LEMMA SettingsReads ==
  /\ C!Mine(conf) = HP!Mine(conf) /\ C!Mine(conf') = HP!Mine(conf')
  /\ C!TakenOut(conf, C!By) = HP!TakenOut(conf, HP!By)
  /\ C!settingsVars = HP!settingsVars /\ C!settingsVars' = HP!settingsVars'
<1>1. \A c : C!Mine(c) = HP!Mine(c)
  BY ZenonT(60) DEF C!Mine, HP!Mine, C!Limits, HP!Limits
<1>2. C!TakenOut(conf, C!By) = HP!TakenOut(conf, HP!By)
  BY ZenonT(60) DEF C!TakenOut, HP!TakenOut, C!By, HP!By, C!Mine, HP!Mine, C!NoChoice,
     HP!NoChoice, C!Limits, HP!Limits
<1>3. C!settingsVars = HP!settingsVars /\ C!settingsVars' = HP!settingsVars'
  BY DEF C!settingsVars, HP!settingsVars
<1> QED BY <1>1, <1>2, <1>3

LEMMA WikiReads ==
  /\ \A p : K!At(p, "remove") = HP!At(p, "remove") /\ K!At(p, "lock") = HP!At(p, "lock")
  /\ K!Fallback <=> HP!Fallback
  /\ K!wikiVars = HP!wikiVars /\ K!wikiVars' = HP!wikiVars'
<1>1. \A p : K!At(p, "remove") = HP!At(p, "remove") /\ K!At(p, "lock") = HP!At(p, "lock")
  BY ZenonT(60) DEF K!At, HP!At
<1>2. K!wikiVars = HP!wikiVars /\ K!wikiVars' = HP!wikiVars'
  BY DEF K!wikiVars, HP!wikiVars
<1> QED BY <1>1, <1>2, WikiSame

LEMMA DoctorReads ==
  /\ D!SetupStep <=> RP!SetupStep
  /\ D!Complaints(disk') = RP!Complaints(disk')
<1>1. D!SetupStep <=> RP!SetupStep
  BY ZenonT(60) DEF D!SetupStep, RP!SetupStep, D!After, RP!After, D!NoSetup, RP!NoSetup,
     D!Throws, RP!Throws, D!WrittenBy, RP!WrittenBy, D!StepsOf, RP!StepsOf, D!None, RP!None,
     D!Unsupported, RP!Unsupported, D!UsesHooksFile, RP!UsesHooksFile, D!Agents, RP!Agents,
     D!Cache, RP!Cache, D!Flags, RP!Flags, D!HooksFile, RP!HooksFile, D!LegacyConfig,
     RP!LegacyConfig, D!LegacyMd, RP!LegacyMd, D!Market, RP!Market, D!PluginConfig,
     RP!PluginConfig, D!PluginMd, RP!PluginMd, D!Prefs, RP!Prefs, D!Prompts, RP!Prompts,
     D!Refresh, RP!Refresh, D!WriteSkills, RP!WriteSkills, D!LegacySteps, RP!LegacySteps,
     D!PluginSteps, RP!PluginSteps, D!Frontier, RP!Frontier, D!Generated, RP!Generated, D!Roles,
     RP!Roles, D!Preserves, RP!Preserves, D!FirstTable, RP!FirstTable, D!Managed, RP!Managed,
     D!Refreshed, RP!Refreshed, D!Synced, RP!Synced, D!Table, RP!Table, D!Whole, RP!Whole,
     D!Removes, RP!Removes, D!Cleaned, RP!Cleaned, D!HoldsOwx, RP!HoldsOwx, D!Bare, RP!Bare,
     D!Contract, RP!Contract, D!Lane, RP!Lane
<1>2. \A d : D!Complaints(d) = RP!Complaints(d)
  BY ZenonT(60) DEF D!Complaints, RP!Complaints, D!AgentsMdCheck, RP!AgentsMdCheck,
     D!ConfigCheck, RP!ConfigCheck, D!ExploreCheck, RP!ExploreCheck, D!HooksCheck,
     RP!HooksCheck, D!HostCheck, RP!HostCheck, D!LoreCheck, RP!LoreCheck, D!McpCheck,
     RP!McpCheck, D!PostCompactCheck, RP!PostCompactCheck, D!PromptsCheck, RP!PromptsCheck,
     D!RolesCheck, RP!RolesCheck, D!RootsCheck, RP!RootsCheck, D!RoutingCheck, RP!RoutingCheck,
     D!SeededCheck, RP!SeededCheck, D!SkillsCheck, RP!SkillsCheck, D!SmokeCheck, RP!SmokeCheck,
     D!SparkCheck, RP!SparkCheck, D!TriageCheck, RP!TriageCheck, D!Contract, RP!Contract,
     D!Says, RP!Says, D!PluginHooks, RP!PluginHooks, D!PluginHooksCheck, RP!PluginHooksCheck,
     D!On, RP!On, D!None, RP!None, D!FirstTable, RP!FirstTable, D!Generated, RP!Generated,
     D!Roles, RP!Roles, D!Table, RP!Table, D!Unsupported, RP!Unsupported, D!MarketCheck,
     RP!MarketCheck, D!Lane, RP!Lane, D!Frontier, RP!Frontier
<1> QED BY <1>1, <1>2


(* The rotation of account slots tries none twice and blames the right one *)
(* (src/auth/rotation.ts), for any terminals and any finite set of slots.  *)
THEOREM ServicesRotate == Spec => []RotationSound
<1>1. Init => RP!AuthInit
  BY AuthSame DEF Init
<1>2. [Next]_vars => [RP!AuthNext]_(RP!authVars)
  BY TurnOf, AuthSame
<1>3. RP!IsFiniteSet(Slots) /\ Slots \subseteq Nat \ {0}
  BY ServicesAssumption DEF IsFiniteSet, RP!IsFiniteSet
<1>4. RP!AuthInit /\ [][RP!AuthNext]_(RP!authVars) => []RP!RotationSound
  BY <1>3, RP!RotationKept
<1>5. RP!RotationSound => RotationSound
  BY AuthSame DEF RotationSound
<1> QED BY <1>1, <1>2, <1>4, <1>5, PTL DEF Spec

(* The assumption of ExecFollowups, which its proofs share a module with.  *)
LEMMA FollowupsApart ==
  /\ {f1, f2} \cap {h1} = {} /\ unheld \notin {f1, f2} \cup {h1} /\ 1 \in Nat /\ FALSE \in BOOLEAN
  BY ServicesAssumption

(* Lines of a rollout, announcements and turns reach the plugins and the   *)
(* person once, in order, one turn at a time                               *)
(* (src/scripts/hook-derived-watcher.ts, src/notifications).               *)
THEOREM ServicesTell == Spec => []ToldOnceInOrder
<1>1. Init => HP!WatcherInit /\ SP!AnnounceInit /\ SP!TurnInit
  BY WatcherSame, NoticeSame DEF Init
<1>2. [Next]_vars => /\ [HP!WatcherNext]_(HP!watcherVars)
                     /\ [SP!AnnounceNext]_(SP!announceVars) /\ [SP!TurnNext]_(SP!turnVars)
  BY TurnOf, WatcherSame, NoticeSame
<1>3. HP!WatcherBase
  BY ServicesAssumption DEF HP!WatcherBase
<1>4. HP!WatcherInit /\ [][HP!WatcherNext]_(HP!watcherVars) => [](HP!WatcherTypeOK /\ HP!LinesOnce)
  BY <1>3, HP!LinesKept
<1>5. SP!AnnounceInit /\ [][SP!AnnounceNext]_(SP!announceVars) => []SP!ToldOnce
  BY FollowupsApart, SP!AnnouncedOnce
<1>6. SP!TurnInit /\ [][SP!TurnNext]_(SP!turnVars) => []SP!TurnsApart
  BY FollowupsApart, SP!OneTurnAtATime
<1>7. HP!LinesOnce /\ SP!ToldOnce /\ SP!TurnsApart => ToldOnceInOrder
  BY WatcherSame, NoticeSame DEF ToldOnceInOrder
<1> QED BY <1>1, <1>2, <1>4, <1>5, <1>6, <1>7, PTL DEF Spec

(* No setup costs the user a text they wrote and no command a setting but  *)
(* those listed; what is installed fits together, a config settles, and    *)
(* the stamp claims no setup that did not run (src/cli/setup.ts,           *)
(* src/config/generator.ts, src/cli/update.ts).                            *)
THEOREM ServicesSetUp == Spec => SetupKeeps
<1>1. Init => I!InstallInit /\ C!SettingsInit /\ U!UpdateInit
  BY DEF Init
<1>2. Init => HP!InstallInit /\ HP!SettingsInit /\ SP!UpdateInit
  BY <1>1, InstallSame, SettingsSame, UpdateSame
<1>3. [Next]_vars => /\ [HP!InstallNext]_(HP!installVars) /\ [HP!SettingsNext]_(HP!settingsVars)
                     /\ [SP!UpdateNext]_(SP!updateVars)
  BY TurnOf, InstallSame, SettingsSame, UpdateSame
<1>4. HP!InstallBase /\ HP!SettingsBase
  BY DEF HP!InstallBase, HP!SettingsBase
<1>5. HP!InstallSpec => [](HP!InstallTypeOK /\ HP!SetupCoherent)
  BY <1>4, HP!InstalledCoherent
<1>6. HP!InstallSpec => HP!SetupKeeps
  BY <1>4, HP!SetupLosesNothing
<1>7. HP!SettingsSpec => [](HP!SettingsTypeOK /\ HP!SettingsSettle)
  BY <1>4, HP!SettingsSettled
<1>8. HP!SettingsSpec => HP!SettingsKept
  BY <1>4, HP!SettingsAreKept
<1>9. SP!UpdateSpec => []SP!StampTrue
  BY FollowupsApart, SP!StampsTrue
<1>10. HP!SetupKeeps => I!SetupKeeps
  <2>1. [(i_pc \in HP!Setup) => HP!Recoverable \subseteq HP!Recoverable' \cup HP!Forfeit]_(HP!installVars)
        => [(i_pc \in I!Setup) => I!Recoverable \subseteq I!Recoverable' \cup I!Forfeit]_(I!installVars)
    BY InstallReads
  <2> QED BY <2>1, PTL DEF HP!SetupKeeps, I!SetupKeeps
<1>11. HP!SettingsKept => C!SettingsKept
  <2>1. [(changes' = changes) => HP!Mine(conf) \subseteq HP!Mine(conf') \cup HP!TakenOut(conf, HP!By)]_(HP!settingsVars)
        => [(changes' = changes) => C!Mine(conf) \subseteq C!Mine(conf') \cup C!TakenOut(conf, C!By)]_(C!settingsVars)
    BY SettingsReads
  <2> QED BY <2>1, PTL DEF HP!SettingsKept, C!SettingsKept
<1>12. HP!SetupCoherent /\ HP!SettingsSettle /\ SP!StampTrue =>
         CASE service = "install" -> I!SetupCoherent
           [] service = "settings" -> C!SettingsSettle
           [] service = "updates" -> U!StampTrue
           [] OTHER -> TRUE
  BY InstallSame, SettingsSame, UpdateSame
<1> QED BY <1>2, <1>3, <1>5, <1>6, <1>7, <1>8, <1>9, <1>10, <1>11, <1>12, PTL
        DEF Spec, SetupKeeps, HP!InstallSpec, HP!SettingsSpec, SP!UpdateSpec

(* What a wiki tool brought to a page stays in it, the index names the     *)
(* pages there are and the legacy wiki stays in view; what a note tool     *)
(* answered to have stored is there, unless an overlapping write or one    *)
(* over a note with a heading in it took it (src/wiki,                     *)
(* src/mcp/memory-server.ts).                                              *)
THEOREM ServicesRemember == Spec => KnowledgeKept
<1>1. Init => HP!WikiInit /\ RP!MemoryInit
  <2>1. Init => K!WikiInit /\ E!MemoryInit
    BY DEF Init
  <2> QED BY <2>1, WikiSame, MemorySame
<1>2. [Next]_vars => [HP!WikiNext]_(HP!wikiVars) /\ [RP!MemoryNext]_(RP!memoryVars)
  BY TurnOf, WikiSame, MemorySame
<1>3. HP!WikiBase
  BY ServicesAssumption DEF HP!WikiBase, Both
<1>4. HP!WikiInit /\ [][HP!WikiNext]_(HP!wikiVars) => HP!WikiKept
  BY <1>3, HP!KnowledgeOnly
<1>5. RP!MemorySpec => []RP!NotesKept
  BY RP!NotesStay
<1>6. HP!KnowledgeKept => K!KnowledgeKept
  <2>1. [\A f \in {"page"} :
           \/ /\ wiki.page[f].items \ {0} \subseteq wiki'.page[f].items
              /\ wiki.page[f].rank <= wiki'.page[f].rank
           \/ \E p \in Both : wlock = p /\ HP!At(p, "remove") /\ caller[p].file = f]_(HP!wikiVars)
        => [\A f \in {"page"} :
              \/ /\ wiki.page[f].items \ {0} \subseteq wiki'.page[f].items
                 /\ wiki.page[f].rank <= wiki'.page[f].rank
              \/ \E p \in Both : wlock = p /\ K!At(p, "remove") /\ caller[p].file = f]_(K!wikiVars)
    BY WikiReads
  <2> QED BY <2>1, PTL DEF HP!KnowledgeKept, K!KnowledgeKept
<1>7. HP!LegacyShown => K!LegacyShown
  <2>1. [HP!Fallback /\ wiki'.there
           => \E p \in Both : HP!At(p, "lock") /\ caller[p].op \in {"ingest", "add"}]_(HP!wikiVars)
        => [K!Fallback /\ wiki'.there
              => \E p \in Both : K!At(p, "lock") /\ caller[p].op \in {"ingest", "add"}]_(K!wikiVars)
    BY WikiReads
  <2> QED BY <2>1, PTL DEF HP!LegacyShown, K!LegacyShown
<1>8. HP!IndexTrue /\ HP!EnvironmentTrue => K!IndexTrue /\ K!EnvironmentTrue
  BY WikiSame
<1>9. RP!NotesKept => (service = "notes" => E!NotesKept)
  BY MemorySame
<1> QED BY <1>1, <1>2, <1>4, <1>5, <1>6, <1>7, <1>8, <1>9, PTL
        DEF Spec, KnowledgeKept, RP!MemorySpec, HP!WikiKept, K!WikiKept

(* The tracker implements the registry of lanes, and past ralplan the      *)
(* pipeline holds the approvals of two different subagents, neither of     *)
(* them the leader (src/subagents/tracker.ts, src/pipeline).               *)
THEOREM ServicesKeepLanes == Spec => LanesHold
<1>1. Init => SP!TrackerInit
  BY TrackerSame DEF Init
<1>2. Init => /\ HP!PlanningInit /\ p_leader \in HP!Someone
              /\ lane \in [Members -> HP!Roles \cup {"leader", "none"}]
  <2>1. Init => HP!PlanningInit
    BY PlanningSame DEF Init
  <2>2. P!LaneInit => p_leader \in HP!Someone /\ lane \in [Members -> HP!Roles \cup {"leader", "none"}]
    BY DEF P!LaneInit, HP!Someone, HP!Roles
  <2>3. ASSUME p_leader = boss,
               lane = [t \in {boss, arch, crit} |-> CASE t = boss -> "leader"
                         [] t = arch -> "architect" [] t = crit -> "critic"]
        PROVE  p_leader \in HP!Someone /\ lane \in [Members -> HP!Roles \cup {"leader", "none"}]
    <3>1. \A t \in Members : lane[t] \in {"leader", "architect", "critic"}
      BY <2>3 DEF Members
    <3>2. lane = [t \in Members |-> lane[t]]
      BY <2>3 DEF Members
    <3> QED BY <2>3, <3>1, <3>2 DEF HP!Someone, HP!Roles, Members
  <2> QED BY <2>1, <2>2, <2>3 DEF Init
<1>3. [Next]_vars => [SP!TrackerNext]_(SP!tracker) /\ [HP!PlanningNext]_<<HP!lanes, HP!planning>>
  BY TurnOf, TrackerSame, PlanningSame
<1>4. none \notin Members
  BY ServicesAssumption DEF Members
<1>5. SP!TrackerSpec => SP!LanesHold
  BY <1>4, FollowupsApart, SP!LanesKept
<1>6. /\ HP!PlanningInit /\ p_leader \in HP!Someone
      /\ lane \in [Members -> HP!Roles \cup {"leader", "none"}]
      /\ [][HP!PlanningNext]_<<HP!lanes, HP!planning>>
      => []HP!LanesIndependent
  BY <1>4, HP!ApprovalsKept
<1>7. SP!LanesHold => T!LanesHold
  <2>1. SP!Registry!LaneInit => T!Registry!LaneInit
    BY DEF SP!Registry!LaneInit, T!Registry!LaneInit, SP!Lane, T!Lane
  <2>2. [SP!Registry!LaneStep]_(SP!Registry!lanes) => [T!Registry!LaneStep]_(T!Registry!lanes)
    BY DEF SP!Registry!LaneStep, T!Registry!LaneStep, SP!Registry!lanes, T!Registry!lanes,
           SP!Lane, T!Lane, SP!Registry!Someone, T!Registry!Someone,
           SP!Registry!Roles, T!Registry!Roles
  <2> QED BY <2>1, <2>2, PTL DEF SP!LanesHold, T!LanesHold, SP!Registry!LaneSpec, T!Registry!LaneSpec
<1>8. HP!LanesIndependent => (service = "planning" => P!LanesIndependent)
  BY PlanningSame
<1> QED BY <1>1, <1>2, <1>3, <1>5, <1>6, <1>7, <1>8, PTL DEF Spec, LanesHold, SP!TrackerSpec

(* What the autoresearch run keeps is supported and its score never falls, *)
(* a performance goal is complete only on a pass of its own, and an        *)
(* autoresearch goal only on a recorded one: its own if no other goal was  *)
(* created under the slug, the one still on disk if no command overlapped  *)
(* (src/autoresearch, src/performance-goal, src/goal-workflows).           *)
THEOREM ServicesEarn == Spec => EarnedByEvidence
<1>1. Init => RP!ResearchInit /\ SP!GateInit /\ VP!GateInit
  <2>1. Init => R!ResearchInit /\ G!GateInit /\ V!GateInit
    BY DEF Init
  <2> QED BY <2>1, ResearchSame, GateSame, VerdictSame
<1>2. [Next]_vars => /\ [RP!ResearchNext]_(RP!runVars)
                     /\ [SP!GateNext]_(SP!gateVars) /\ [VP!GateNext]_(VP!gateVars)
  BY TurnOf, ResearchSame, GateSame, VerdictSame
<1>3. RP!ResearchSpec => []RP!KeptSupported
  BY RP!KeptInHistory
<1>4. RP!ResearchSpec => RP!ScoreNeverFalls
  BY RP!ScoresRise
<1>5. SP!GateSpec => []SP!GateHolds
  BY FollowupsApart, SP!PerformanceGate
<1>6. VP!GateSpec => []VP!GateEarned
  BY FollowupsApart, VP!AutoresearchGate
<1>7. RP!ScoreNeverFalls => R!ScoreNeverFalls
  <2>1. R!runVars = RP!runVars /\ R!runVars' = RP!runVars'
    BY DEF R!runVars, RP!runVars
  <2>2. ["score_improvement" = "score_improvement" =>
           /\ manifest'.score >= manifest.score
           /\ manifest'.kept # manifest.kept => manifest'.score > manifest.score]_(RP!runVars)
        => ["score_improvement" = "score_improvement" =>
              /\ manifest'.score >= manifest.score
              /\ manifest'.kept # manifest.kept => manifest'.score > manifest.score]_(R!runVars)
    BY <2>1
  <2> QED BY <2>2, PTL DEF RP!ScoreNeverFalls, R!ScoreNeverFalls
<1>8. RP!KeptSupported /\ SP!GateHolds /\ VP!GateEarned =>
        CASE service = "research" -> R!KeptSupported
          [] service = "gates" -> G!GateHolds
          [] service = "verdicts" -> V!GateEarned
          [] OTHER -> TRUE
  BY ResearchSame, GateSame, VerdictSame
<1> QED BY <1>1, <1>2, <1>3, <1>4, <1>5, <1>6, <1>7, <1>8, PTL
        DEF Spec, EarnedByEvidence, RP!ResearchSpec, SP!GateSpec, VP!GateSpec

(* The plugin's Stop hook lets no mode at work end for what another mode's *)
(* run-state says, and loses a mark only to a hook beside it               *)
(* (plugins/owen-codex/hooks/codex-native-hook.mjs).                      *)
THEOREM ServicesStopHonestly == Spec => PluginHonest
<1>1. Init => RP!PluginInit
  BY PluginSame DEF Init
<1>2. [Next]_vars => [RP!PluginNext]_(RP!pluginVars)
  BY TurnOf, PluginSame
<1>3. RP!PluginSpec => RP!StopsHonest
  BY RP!StopsHonestly
<1>4. RP!PluginSpec => RP!MarksKept
  BY RP!MarksStay
<1>5. [RP!StopHonest]_(RP!pluginVars) /\ [RP!MarkKept]_(RP!pluginVars)
      => [service = "plugin" => H!StopHonest /\ H!MarkKept]_plugin
  BY PluginSame DEF plugin, RP!pluginVars
<1> QED BY <1>1, <1>2, <1>3, <1>4, <1>5, PTL
        DEF Spec, PluginHonest, RP!PluginSpec, RP!StopsHonest, RP!MarksKept

(* The setups that are run and what befalls an installation are those the  *)
(* proofs are about.                                                       *)
LEMMA DoctorBased == RP!DoctorBase
<1> DEFINE Asked == [mode : {"unset", "legacy", "plugin"}, mcp : {"unset", "none", "compat"},
                     force : BOOLEAN, merge : BOOLEAN]
<1>1. Setup \in Asked
  BY DEF Setup
<1>2. /\ [Setup EXCEPT !.mode = "legacy"] \in Asked
      /\ [Setup EXCEPT !.mode = "plugin", !.force = TRUE] \in Asked
      /\ [Setup EXCEPT !.mode = "plugin", !.mcp = "compat"] \in Asked
  BY <1>1
<1>3. {"no config", "legacy model", "seeded", "explore on", "direct servers", "a server on",
       "plugin disabled", "no hooks", "unreadable hooks", "foreign hooks", "package upgraded",
       "package moved", "no preferences", "own role", "effort max", "md replaced",
       "md markers lost", "table edited", "table lost", "overlap"} \subseteq RP!Befallings
  BY DEF RP!Befallings
<1> QED BY <1>1, <1>2, <1>3, ServicesAssumption DEF RP!DoctorBase

(* A setup run for a complaint of the doctor's removes it, and a doctor    *)
(* without complaints means hooks that fire (src/cli/doctor.ts,            *)
(* src/cli/setup.ts).                                                      *)
THEOREM ServicesDiagnose == Spec => DoctorHonest
<1>1. Init => RP!DoctorInit
  BY DoctorSame DEF Init
<1>2. [Next]_vars => [RP!DoctorNext]_(RP!doctorVars)
  BY TurnOf, DoctorSame
<1>3. RP!DoctorBase
  BY DoctorBased
<1>4. RP!DoctorInit /\ [][RP!DoctorNext]_(RP!doctorVars)
      => []RP!DoctorTypeOK /\ []RP!PassIsWired /\ RP!AdviceHeals
  BY <1>3, RP!DoctorKept
<1>5. RP!AdviceHeals => D!AdviceHeals
  <2>1. [(/\ setup.at # "idle" /\ RP!SetupStep /\ setup'.at = "idle"
          /\ setup.about # RP!None /\ ~setup.excused)
         => setup.about[1] \notin RP!Complaints(disk')]_(RP!doctorVars)
        => [(/\ setup.at # "idle" /\ D!SetupStep /\ setup'.at = "idle"
             /\ setup.about # D!None /\ ~setup.excused)
            => setup.about[1] \notin D!Complaints(disk')]_(D!doctorVars)
    BY DoctorReads DEF RP!None, D!None, RP!doctorVars, D!doctorVars
  <2> QED BY <2>1, PTL DEF RP!AdviceHeals, D!AdviceHeals
<1>6. RP!PassIsWired => (service = "doctor" => D!PassIsWired)
  BY DoctorSame
<1> QED BY <1>1, <1>2, <1>4, <1>5, <1>6, PTL DEF Spec, DoctorHonest

(* Every service keeps its shape, for any terminals, slots and critics and *)
(* whatever the bounds.                                                    *)
THEOREM ServicesTypeCorrect == Spec => []TypeOK
<1>1. Init =>
        /\ HP!InstallInit /\ HP!SettingsInit /\ HP!PlanningInit /\ HP!SiblingsInit
        /\ HP!WatcherInit /\ HP!WikiInit
        /\ RP!PluginInit /\ RP!AuthInit /\ RP!ResearchInit /\ RP!DoctorInit /\ RP!MemoryInit
        /\ SP!TrackerInit /\ SP!GateInit /\ VP!GateInit /\ SP!AnnounceInit /\ SP!TurnInit
        /\ SP!Init /\ SP!UpdateInit
  <2>1. Init =>
          /\ I!InstallInit /\ C!SettingsInit /\ P!PlanningInit /\ M!SiblingsInit
          /\ W!WatcherInit /\ K!WikiInit
          /\ H!PluginInit /\ A!AuthInit /\ R!ResearchInit /\ D!DoctorInit /\ E!MemoryInit
          /\ T!TrackerInit /\ G!GateInit /\ V!GateInit /\ N!AnnounceInit /\ N!TurnInit
          /\ F!Init /\ U!UpdateInit
    BY DEF Init
  <2> QED BY <2>1, InstallSame, SettingsSame, PlanningSame, SiblingsSame, WatcherSame, WikiSame,
             PluginSame, AuthSame, ResearchSame, DoctorSame, MemorySame, TrackerSame, GateSame,
             VerdictSame, NoticeSame, FollowupSame, UpdateSame
<1>2. [Next]_vars =>
        /\ [HP!InstallNext]_(HP!installVars) /\ [HP!SettingsNext]_(HP!settingsVars)
        /\ [HP!PlanningNext]_<<HP!lanes, HP!planning>> /\ [HP!SiblingsNext]_(HP!serverVars)
        /\ [HP!WatcherNext]_(HP!watcherVars) /\ [HP!WikiNext]_(HP!wikiVars)
        /\ [RP!PluginNext]_(RP!pluginVars) /\ [RP!AuthNext]_(RP!authVars)
        /\ [RP!ResearchNext]_(RP!runVars) /\ [RP!DoctorNext]_(RP!doctorVars)
        /\ [RP!MemoryNext]_(RP!memoryVars) /\ [SP!TrackerNext]_(SP!tracker)
        /\ [SP!GateNext]_(SP!gateVars) /\ [VP!GateNext]_(VP!gateVars)
        /\ [SP!AnnounceNext]_(SP!announceVars) /\ [SP!TurnNext]_(SP!turnVars)
        /\ [SP!OrphanNext]_(SP!vars) /\ [SP!UpdateNext]_(SP!updateVars)
  BY TurnOf, InstallSame, SettingsSame, PlanningSame, SiblingsSame, WatcherSame, WikiSame,
     PluginSame, AuthSame, ResearchSame, DoctorSame, MemorySame, TrackerSame, GateSame,
     VerdictSame, NoticeSame, FollowupSame, UpdateSame
<1>3. HP!InstallInit /\ [][HP!InstallNext]_(HP!installVars) => []HP!InstallTypeOK
  <2>1. HP!InstallBase
    BY DEF HP!InstallBase
  <2>2. HP!InstallSpec => [](HP!InstallTypeOK /\ HP!SetupCoherent)
    BY <2>1, HP!InstalledCoherent
  <2> QED BY <2>2, PTL DEF HP!InstallSpec
<1>4. HP!SettingsInit /\ [][HP!SettingsNext]_(HP!settingsVars) => []HP!SettingsTypeOK
  <2>1. HP!SettingsBase
    BY DEF HP!SettingsBase
  <2>2. HP!SettingsSpec => [](HP!SettingsTypeOK /\ HP!SettingsSettle)
    BY <2>1, HP!SettingsSettled
  <2> QED BY <2>2, PTL DEF HP!SettingsSpec
<1>5. HP!PlanningInit /\ [][HP!PlanningNext]_<<HP!lanes, HP!planning>> => []HP!PlanningTypeOK
  <2>1. HP!PlanningBase
    BY ServicesAssumption DEF HP!PlanningBase, HP!Evidence, HP!Someone, Reviews, Members
  <2> QED BY <2>1, HP!PlanningTypes
<1>6. HP!SiblingsInit /\ [][HP!SiblingsNext]_(HP!serverVars) => []HP!SiblingsTypeOK
  <2>1. HP!SiblingsBase
    BY DEF HP!SiblingsBase
  <2>2. HP!SiblingsInit /\ [][HP!SiblingsNext]_(HP!serverVars) => [](HP!SiblingsTypeOK /\ HP!OneServes)
    BY <2>1, HP!ServerKept
  <2> QED BY <2>2, PTL
<1>7. HP!WatcherInit /\ [][HP!WatcherNext]_(HP!watcherVars) => []HP!WatcherTypeOK
  <2>1. HP!WatcherBase
    BY ServicesAssumption DEF HP!WatcherBase
  <2>2. HP!WatcherInit /\ [][HP!WatcherNext]_(HP!watcherVars) => [](HP!WatcherTypeOK /\ HP!LinesOnce)
    BY <2>1, HP!LinesKept
  <2> QED BY <2>2, PTL
<1>8. HP!WikiInit /\ [][HP!WikiNext]_(HP!wikiVars) => []HP!WikiTypeOK
  <2>1. HP!WikiBase
    BY ServicesAssumption DEF HP!WikiBase, Both
  <2>2. HP!WikiInit /\ [][HP!WikiNext]_(HP!wikiVars)
        => [](HP!WikiTypeOK /\ HP!IndexTrue /\ HP!EnvironmentTrue)
    BY <2>1, HP!PagesKept
  <2> QED BY <2>2, PTL
<1>9. RP!PluginSpec => []RP!PluginTypeOK
  BY RP!PluginTypes
<1>10. RP!AuthInit /\ [][RP!AuthNext]_(RP!authVars) => []RP!AuthTypeOK
  <2>1. RP!IsFiniteSet(Slots) /\ Slots \subseteq Nat \ {0}
    BY ServicesAssumption DEF IsFiniteSet, RP!IsFiniteSet
  <2> QED BY <2>1, RP!AuthTypes
<1>11. RP!ResearchInit /\ [][RP!ResearchNext]_(RP!runVars) => []RP!ResearchTypeOK
  <2>1. RP!ResearchBase
    BY DEF RP!ResearchBase
  <2> QED BY <2>1, RP!ResearchTypes
<1>12. RP!DoctorInit /\ [][RP!DoctorNext]_(RP!doctorVars) => []RP!DoctorTypeOK
  <2>1. RP!DoctorInit /\ [][RP!DoctorNext]_(RP!doctorVars)
        => []RP!DoctorTypeOK /\ []RP!PassIsWired /\ RP!AdviceHeals
    BY DoctorBased, RP!DoctorKept
  <2> QED BY <2>1, PTL
<1>13. RP!MemoryInit /\ [][RP!MemoryNext]_(RP!memoryVars) => []RP!MemoryTypeOK
  BY RP!MemoryTypes
<1>14. SP!TrackerInit /\ [][SP!TrackerNext]_(SP!tracker) => []SP!TrackerTypeOK
  <2>1. none \notin Members
    BY ServicesAssumption DEF Members
  <2> QED BY <2>1, FollowupsApart, SP!TrackerTypes
<1>15. /\ SP!GateInit /\ [][SP!GateNext]_(SP!gateVars) => []SP!GateTypeOK
       /\ VP!GateInit /\ [][VP!GateNext]_(VP!gateVars) => []VP!GateTypeOK
  <2>1. SP!GateInit /\ [][SP!GateNext]_(SP!gateVars) => []SP!GateTypeOK
    BY FollowupsApart, SP!GateTypes
  <2>2. VP!GateInit /\ [][VP!GateNext]_(VP!gateVars) => []VP!GateTypeOK
    BY FollowupsApart, VP!GateTypes
  <2> QED BY <2>1, <2>2
<1>16. SP!AnnounceInit /\ [][SP!AnnounceNext]_(SP!announceVars) => []SP!AnnounceTypes
  BY FollowupsApart, SP!AnnounceTypesHold
<1>17. SP!TurnInit /\ [][SP!TurnNext]_(SP!turnVars) => []SP!TurnTypes
  BY FollowupsApart, SP!TurnTypesHold
<1>18. SP!AnnounceTypes /\ SP!TurnTypes => SP!NotificationsTypeOK
  BY FollowupsApart, SP!NotificationTypes
<1>19. SP!Init /\ [][SP!OrphanNext]_(SP!vars) => []SP!TypeOK
  BY FollowupsApart, SP!FollowupTypesHold
<1>20. SP!UpdateInit /\ [][SP!UpdateNext]_(SP!updateVars) => []SP!UpdateTypeOK
  BY FollowupsApart, SP!UpdateTypes
<1>21. /\ HP!InstallTypeOK /\ HP!SettingsTypeOK /\ HP!PlanningTypeOK /\ HP!SiblingsTypeOK
       /\ HP!WatcherTypeOK /\ HP!WikiTypeOK
       /\ RP!PluginTypeOK /\ RP!AuthTypeOK /\ RP!ResearchTypeOK /\ RP!DoctorTypeOK
       /\ RP!MemoryTypeOK /\ SP!TrackerTypeOK /\ SP!GateTypeOK /\ VP!GateTypeOK
       /\ SP!NotificationsTypeOK /\ SP!TypeOK /\ SP!UpdateTypeOK
       /\ service \in Known
       => TypeOK
  BY InstallSame, SettingsSame, PlanningSame, SiblingsSame, WatcherSame, WikiSame,
     PluginSame, AuthSame, ResearchSame, DoctorSame, MemorySame, TrackerSame, GateSame,
     VerdictSame, NoticeSame, FollowupSame, UpdateSame DEF TypeOK, Known
<1>22. Init => service \in Known
  BY ServicesAssumption DEF Init
<1>23. service \in Known /\ [Next]_vars => (service \in Known)'
  BY DEF Next, Turn, vars, Known
<1>24. Spec => []HP!InstallTypeOK /\ []HP!SettingsTypeOK /\ []HP!PlanningTypeOK
  BY <1>1, <1>2, <1>3, <1>4, <1>5, PTL DEF Spec
<1>25. Spec => []HP!SiblingsTypeOK /\ []HP!WatcherTypeOK /\ []HP!WikiTypeOK
  BY <1>1, <1>2, <1>6, <1>7, <1>8, PTL DEF Spec
<1>26. Spec => []RP!PluginTypeOK /\ []RP!AuthTypeOK /\ []RP!ResearchTypeOK
  BY <1>1, <1>2, <1>9, <1>10, <1>11, PTL DEF Spec, RP!PluginSpec
<1>27. Spec => []RP!DoctorTypeOK /\ []RP!MemoryTypeOK /\ []SP!TrackerTypeOK
  BY <1>1, <1>2, <1>12, <1>13, <1>14, PTL DEF Spec
<1>28. Spec => []SP!GateTypeOK /\ []VP!GateTypeOK
  BY <1>1, <1>2, <1>15, PTL DEF Spec
<1>29. Spec => []SP!NotificationsTypeOK
  BY <1>1, <1>2, <1>16, <1>17, <1>18, PTL DEF Spec
<1>30. Spec => []SP!TypeOK /\ []SP!UpdateTypeOK
  BY <1>1, <1>2, <1>19, <1>20, PTL DEF Spec
<1>31. Spec => [](service \in Known)
  BY <1>22, <1>23, PTL DEF Spec
<1> QED BY <1>21, <1>24, <1>25, <1>26, <1>27, <1>28, <1>29, <1>30, <1>31, PTL
=============================================================================
