------------------------------ MODULE Install ------------------------------
(***************************************************************************)
(* `owx setup` and `owx uninstall` over one Codex home and the AGENTS.md   *)
(* of its scope: config.toml (the notify command, developer_instructions   *)
(* and the hook feature flags), notify-dispatch.json, hooks.json, the      *)
(* files of the catalog (prompts, skills, native agents), AGENTS.md, the   *)
(* settings of the HUD, and the backups that setup takes.  A command is a  *)
(* sequence of writes with nothing that joins them: it can be interrupted  *)
(* between any two, and the user edits these files between commands.       *)
(*                                                                         *)
(* Of the catalog there are also the names that are not installed any      *)
(* more: the "dropped" skill (web-clone), the "retired" ones (deprecated,  *)
(* merged or an alias), which may be the names of skills of the user's,    *)
(* and the "shim", a prompt that still sends Codex to a skill.             *)
(*                                                                         *)
(* Of a text only its origin is kept.  "mine" is what the user wrote last, *)
(* "old" what the user wrote before, "mixed" an AGENTS.md that holds the   *)
(* user's text beside a block of OWX's, "edited" a generated one that the  *)
(* user changed; the rest is what OWX generates.                           *)
(***************************************************************************)
EXTENDS Naturals, FiniteSets

CONSTANTS
  MaxRuns,   \* bound on the commands of a behaviour
  MaxEdits   \* bound on the edits of the user

VARIABLES
  scope,     \* "user" or "project": whose home this is
  home,      \* the files, as a record
  saved,     \* the user's texts that a finished command left in a backup
  fresh,     \* those in the backups of the command that runs
  owned,     \* the texts that the user has written
  pc, opt,   \* the next write of the command that runs, and its options
  gap,       \* the user's notify command was dropped on the way: a setup was
             \* cut before notify-dispatch.json, or uninstall met it unwrapped
  cut,       \* the last command was interrupted
  runs, edits

installVars == <<scope, home, saved, fresh, owned, pc, opt, gap, cut, runs, edits>>

Kinds == {"prompt", "skill", "agent", "dropped", "retired", "shim", "hud"}
Items == {"notify", "instructions", "hooks", "guidance"} \cup Kinds

Answers == {"force", "merge", "overwrite", "defaults", "live"}
Options ==
  [mode : {"legacy", "plugin", "fallback"}, answers : SUBSET Answers,
   previous : {"none", "mine", "old"}]
NoOptions == [mode |-> "legacy", answers |-> {}, previous |-> "none"]
Chosen(a) == a \in opt.answers

Setup == {"files", "config", "metadata", "flags", "instructions", "hooks", "guidance", "hud"}
Uninstall == {"u_config", "u_hooks", "u_files", "u_guidance"}

InstallTypeOK ==
  /\ scope \in {"user", "project"}
  /\ home \in [notify : {"none", "mine", "old", "owx", "dispatcher"},
               previous : {"none", "mine", "old"},
               instructions : {"none", "mine", "owx", "plugin"},
               flags : SUBSET {"hooks", "plugin_hooks"},
               hooks : SUBSET {"mine", "owx"},
               guidance : {"none", "mine", "owx", "edited", "mixed"},
               files : [Kinds -> {"none", "mine", "owx"}]]
  /\ saved \subseteq Items /\ fresh \subseteq Items /\ owned \subseteq Items
  /\ pc \in Setup \cup Uninstall \cup {"idle"}
  /\ opt \in Options
  /\ gap \in BOOLEAN /\ cut \in BOOLEAN
  /\ runs \in 0..MaxRuns /\ edits \in 0..MaxEdits

(***************************************************************************)
(* A machine on which OWX was never set up.                                *)
(***************************************************************************)
InstallInit ==
  /\ scope \in {"user", "project"}
  /\ home = [notify |-> "none", previous |-> "none", instructions |-> "none",
             flags |-> {}, hooks |-> {}, guidance |-> "none",
             files |-> [k \in Kinds |-> "none"]]
  /\ saved = {} /\ fresh = {} /\ owned = {}
  /\ pc = "idle" /\ opt = NoOptions
  /\ gap = FALSE /\ cut = FALSE /\ runs = 0 /\ edits = 0

(***************************************************************************)
(* config.toml                                                             *)
(***************************************************************************)
Managed(n) == n \in {"owx", "dispatcher"}

\* The user's texts a copy of this config.toml holds.
Held(h) == {i \in {"notify", "instructions"} : h[i] = "mine"}

\* ensureBackup: the whole file is copied to the directory of this command's
\* backups, over the copy of an earlier write of the same command.
Backup(items, all) == fresh' = (fresh \ all) \cup items
BackupConfig(h) ==
  IF h = home THEN UNCHANGED fresh
  ELSE Backup(Held(home), {"notify", "instructions"})

\* Fault: a command of the user's is not taken over by the dispatcher.
NotifyPlanFault == IF scope = "project" THEN home.notify ELSE "owx"

\* buildNotifyMergePlan: what setup writes as the notify command.
NotifyPlan ==
  CASE scope = "project" -> IF Managed(home.notify) THEN "none" ELSE home.notify
    [] scope = "user" /\ home.notify = "none" -> "owx"
    [] scope = "user" /\ home.notify = "owx" -> "owx"
    [] scope = "user" /\ home.notify = "dispatcher" ->
         IF home.previous = "none" THEN "owx" ELSE "dispatcher"
    [] OTHER -> "dispatcher"

\* stripOmxTopLevelKeys takes a notify command and developer_instructions out
\* whoever wrote them; stripOmxFeatureFlags may leave the hooks on.
Stripped(h) == [h EXCEPT !.notify = "none", !.instructions = "none"]
FlagsOn(flags) == flags \cup {"hooks"}
FlagsOff(flags, preserve) == IF preserve THEN flags ELSE flags \ {"hooks"}

\* buildMergedConfig: all that OWX manages is taken out and written anew.
MergedConfig ==
  [Stripped(home) EXCEPT !.notify = NotifyPlan, !.instructions = "owx", !.flags = FlagsOn(@)]

\* updateManagedConfig: a notify command of the user's is replaced by the
\* dispatcher here, and written to notify-dispatch.json afterwards.
WriteConfig ==
  /\ home' = MergedConfig
  /\ BackupConfig(MergedConfig)
  /\ IF MergedConfig.notify = "dispatcher" /\ home.notify # "dispatcher"
     THEN pc' = "metadata" /\ opt' = [opt EXCEPT !.previous = home.notify]
     ELSE pc' = "hooks" /\ UNCHANGED opt

WriteMetadata ==
  /\ home' = [home EXCEPT !.previous = opt.previous]
  /\ pc' = "hooks"
  /\ UNCHANGED <<fresh, opt>>

\* cleanupPluginModeLegacyConfig: only what the legacy mode wrote goes; the
\* dispatcher and the plugin text are not recognised as such, and stay.
LegacyConfigRemoved ==
  [home EXCEPT !.notify = IF @ = "owx" THEN "none" ELSE @,
               !.instructions = IF @ = "owx" THEN "none" ELSE @,
               !.flags = @ \ {"hooks"}]

\* upsertPluginModeRuntimeFeatureFlags
PluginFlags(flags) == IF opt.mode = "plugin" THEN {"plugin_hooks"} ELSE FlagsOn(flags)

CleanLegacyConfig ==
  /\ home' = LegacyConfigRemoved
  /\ BackupConfig(LegacyConfigRemoved)
  /\ pc' = "flags"

WriteFlags ==
  LET h == [home EXCEPT !.flags = PluginFlags(@)]
  IN  home' = h /\ BackupConfig(h) /\ pc' = "hooks"

\* applyPluginDeveloperInstructionsDefault
WriteInstructions ==
  LET keep == ~Chosen("defaults") \/ (home.instructions # "none" /\ ~Chosen("overwrite"))
      h == [home EXCEPT !.instructions = IF keep THEN @ ELSE "plugin"]
  IN  home' = h /\ BackupConfig(h) /\ pc' = "guidance"

(***************************************************************************)
(* hooks.json and the files of the catalog                                 *)
(***************************************************************************)
\* mergeManagedCodexHooksConfig and removeManagedCodexHooks keep the entries
\* that are not OWX's.
MergedHooks == home.hooks \cup {"owx"}
RemainingHooks == home.hooks \ {"owx"}

WriteHooks ==
  /\ home' = [home EXCEPT !.hooks = IF opt.mode = "plugin" THEN RemainingHooks ELSE MergedHooks]
  /\ pc' = IF opt.mode = "legacy" THEN "guidance" ELSE "instructions"
  /\ UNCHANGED fresh

\* The files of the catalog after a setup.  The legacy mode overwrites all that
\* differ, and removes the dropped skill and the shims, with --force the retired
\* skills too; the other modes remove the prompts, and the skills that are still
\* as OWX installed them.
Untouched(f) == IF f = "mine" THEN "mine" ELSE "none"
PromptAfter(f) == IF opt.mode = "legacy" THEN "owx" ELSE "none"
ShimAfter(f) == IF opt.mode = "legacy" THEN "none" ELSE f
SkillAfter(k, f) ==
  CASE k = "skill" -> IF opt.mode = "legacy" THEN "owx" ELSE Untouched(f)
    [] k = "dropped" -> IF opt.mode = "legacy" THEN "none" ELSE f
    [] k = "retired" -> IF opt.mode = "legacy" /\ Chosen("force") THEN "none" ELSE f
AgentAfter(f) == "owx"
After(k, f) ==
  CASE k = "prompt" -> PromptAfter(f)
    [] k \in {"skill", "dropped", "retired"} -> SkillAfter(k, f)
    [] k = "shim" -> ShimAfter(f)
    [] k = "agent" -> AgentAfter(f)
    [] k = "hud" -> f

\* syncManagedFileFromDisk, syncManagedContent and most removals back up what is
\* about to change; the skills that are not installed any more, and the shims,
\* are removed as they are - but with --force a shim goes as any stale prompt.
BackedUp(k) == k \in {"prompt", "skill", "agent"} \/ (k = "shim" /\ Chosen("force"))

WriteFiles ==
  LET next == [k \in Kinds |-> After(k, home.files[k])]
      copied == {k \in Kinds : home.files[k] = "mine" /\ next[k] # "mine" /\ BackedUp(k)}
  IN  /\ home' = [home EXCEPT !.files = next]
      /\ Backup(copied, copied)
      /\ pc' = "config"

(***************************************************************************)
(* AGENTS.md                                                               *)
(***************************************************************************)
Generated(g) == g \in {"owx", "edited", "mixed"}      \* holds the marker of a generated text

\* Fault: a text that is about to be removed is not copied.
BackupGuidanceFault(next) ==
  IF next \notin {"none", home.guidance} /\ home.guidance \in {"mine", "edited", "mixed"}
  THEN Backup({"guidance"}, {"guidance"}) ELSE UNCHANGED fresh

BackupGuidance(next) ==
  IF next # home.guidance /\ home.guidance \in {"mine", "edited", "mixed"}
  THEN Backup({"guidance"}, {"guidance"}) ELSE UNCHANGED fresh

\* syncManagedAgentsContent: an existing text is replaced if the user says so.
Synced(g) == IF g \in {"none", "owx"} \/ Chosen("force") \/ Chosen("overwrite") THEN "owx" ELSE g

\* upsertManagedAgentsBlock
MergedGuidance(g) == IF g \in {"mine", "edited"} THEN "mixed" ELSE g

\* The legacy mode leaves the AGENTS.md of a project with a live session
\* alone.  A refresh of the model table changes a generated text in place.
LegacyGuidance ==
  \E next \in
      IF scope = "project" /\ Chosen("live") /\ home.guidance # "none" THEN {home.guidance}
      ELSE IF Chosen("merge") /\ home.guidance # "none" THEN {MergedGuidance(home.guidance)}
      ELSE {Synced(home.guidance)}
             \cup (IF Generated(home.guidance) THEN {home.guidance} ELSE {}) :
    home' = [home EXCEPT !.guidance = next] /\ BackupGuidance(next)

\* cleanupPluginModeLegacyAgentsMd, then the default text if it was chosen.
PluginGuidance ==
  LET left == IF Generated(home.guidance) THEN "none" ELSE home.guidance
      next == IF Chosen("defaults") THEN Synced(left) ELSE left
  IN  home' = [home EXCEPT !.guidance = next] /\ BackupGuidance(next)

WriteGuidance ==
  /\ IF opt.mode = "legacy" THEN LegacyGuidance ELSE PluginGuidance
  /\ pc' = "hud"

(***************************************************************************)
(* setup                                                                   *)
(***************************************************************************)
Begin(first, options) ==
  /\ pc = "idle" /\ runs < MaxRuns
  /\ pc' = first /\ runs' = runs + 1 /\ fresh' = {}
  /\ opt' \in options
  /\ UNCHANGED <<scope, home, saved, owned, gap, cut, edits>>

\* The flags and answers that a mode reads.
Asked(mode) ==
  IF mode = "legacy" THEN {"force", "merge", "overwrite", "live"}
  ELSE {"force", "overwrite", "defaults"}

BeginSetup ==
  Begin("files", {o \in Options : o.previous = "none" /\ o.answers \subseteq Asked(o.mode)
                                  /\ (scope = "user" => "live" \notin o.answers)})

Step ==
  \/ pc = "files" /\ WriteFiles /\ UNCHANGED opt
  \/ pc = "config" /\ opt.mode = "legacy" /\ WriteConfig
  \/ pc = "config" /\ opt.mode # "legacy" /\ CleanLegacyConfig /\ UNCHANGED opt
  \/ pc = "metadata" /\ WriteMetadata
  \/ pc = "flags" /\ WriteFlags /\ UNCHANGED opt
  \/ pc = "hooks" /\ WriteHooks /\ UNCHANGED opt
  \/ pc = "instructions" /\ WriteInstructions /\ UNCHANGED opt
  \/ pc = "guidance" /\ WriteGuidance /\ UNCHANGED opt

SetupStep == Step /\ UNCHANGED <<scope, saved, owned, gap, cut, runs, edits>>

\* Every command ends by a write; its backups stay.
Finish ==
  /\ pc' = "idle" /\ opt' = NoOptions
  /\ saved' = saved \cup fresh' /\ cut' = FALSE
  /\ UNCHANGED <<scope, owned, gap, runs, edits>>

\* The settings of the HUD: with --force the default ones, and no copy is made.
WriteHud ==
  /\ home' = [home EXCEPT !.files["hud"] = IF @ = "none" \/ Chosen("force") THEN "owx" ELSE @]
  /\ UNCHANGED fresh

SetupEnds == pc = "hud" /\ WriteHud /\ Finish

(***************************************************************************)
(* uninstall                                                               *)
(***************************************************************************)
BeginUninstall == Begin("u_config", {NoOptions})

\* restorePreviousNotifyIfDispatcher
RestoredNotify == IF home.notify = "dispatcher" THEN home.previous ELSE "none"

\* cleanConfig: any notify command and developer_instructions go, the user's
\* too; the flag of the hooks stays on for the user's own hooks.
CleanConfig ==
  /\ home' = [Stripped(home) EXCEPT !.notify = RestoredNotify,
                                    !.flags = FlagsOff(@, "mine" \in home.hooks)]
  /\ gap' = (gap \/ home.notify \in {"mine", "old"})
  /\ pc' = "u_hooks"

\* removeHooksFile
CleanHooks == home' = [home EXCEPT !.hooks = RemainingHooks] /\ pc' = "u_files"

\* removeInstalledPrompts, removeAgentConfigs, removeInstalledSkills: by the names
\* of the package, which has the skills that are not installed any more.
RemoveFiles ==
  /\ home' = [home EXCEPT !.files = [k \in Kinds |-> IF k \in {"shim", "hud"} THEN @[k] ELSE "none"]]
  /\ pc' = "u_guidance"

UninstallStep ==
  /\ \/ pc = "u_config" /\ CleanConfig
     \/ pc = "u_hooks" /\ CleanHooks /\ UNCHANGED gap
     \/ pc = "u_files" /\ RemoveFiles /\ UNCHANGED gap
  /\ UNCHANGED <<scope, saved, fresh, owned, opt, cut, runs, edits>>

\* removeAgentsMd
UninstallEnds ==
  /\ pc = "u_guidance"
  /\ home' = [home EXCEPT !.guidance = IF Generated(@) THEN "none" ELSE @]
  /\ UNCHANGED fresh
  /\ Finish

(***************************************************************************)
(* An interruption between two writes, and the user's edits.               *)
(***************************************************************************)
Cut ==
  /\ pc # "idle"
  /\ pc' = "idle" /\ opt' = NoOptions
  /\ saved' = saved \cup fresh
  /\ cut' = TRUE /\ gap' = (gap \/ pc = "metadata")
  /\ UNCHANGED <<scope, home, fresh, owned, runs, edits>>

Aged(p) == IF p = "mine" THEN "old" ELSE p

Edited(i) ==
  CASE i = "notify" -> [home EXCEPT !.notify = "mine", !.previous = Aged(@)]
    [] i = "instructions" -> [home EXCEPT !.instructions = "mine"]
    [] i = "hooks" -> [home EXCEPT !.hooks = @ \cup {"mine"}]
    [] i = "guidance" -> [home EXCEPT !.guidance = CASE @ = "owx" -> "edited" [] @ = "none" -> "mine" [] OTHER -> @]
    [] OTHER -> [home EXCEPT !.files[i] = "mine"]

Edit(i) ==
  /\ pc = "idle" /\ edits < MaxEdits
  /\ home' = Edited(i) /\ owned' = owned \cup {i}
  /\ saved' = saved \ {i} /\ fresh' = {}
  /\ gap' = (gap /\ i # "notify") /\ edits' = edits + 1
  /\ UNCHANGED <<scope, pc, opt, cut, runs>>

\* The user takes the notify command out of config.toml, whoever wrote it.
DropNotify ==
  /\ pc = "idle" /\ edits < MaxEdits /\ home.notify # "none"
  /\ home' = [home EXCEPT !.notify = "none", !.previous = Aged(@)]
  /\ owned' = owned \ {"notify"} /\ saved' = saved \ {"notify"} /\ fresh' = {}
  /\ edits' = edits + 1
  /\ UNCHANGED <<scope, pc, opt, gap, cut, runs>>

InstallNext ==
  \/ BeginSetup \/ SetupStep \/ SetupEnds
  \/ BeginUninstall \/ UninstallStep \/ UninstallEnds
  \/ Cut \/ DropNotify \/ \E i \in Items : Edit(i)

InstallSpec == InstallInit /\ [][InstallNext]_installVars

(***************************************************************************)
(* Properties                                                              *)
(***************************************************************************)
InPlace ==
  {i \in {"notify", "instructions"} : home[i] = "mine"}
    \cup (IF home.previous = "mine" THEN {"notify"} ELSE {})
    \cup (IF "mine" \in home.hooks THEN {"hooks"} ELSE {})
    \cup (IF home.guidance \in {"mine", "edited", "mixed"} THEN {"guidance"} ELSE {})
    \cup {k \in Kinds : home.files[k] = "mine"}

Recoverable == InPlace \cup saved \cup fresh

\* What a setup takes from the user without a copy: in the legacy mode what bears
\* the name of the dropped skill, and a shim or with --force the retired skills;
\* with --force also the settings of the HUD.
Forfeit ==
  (CASE opt.mode # "legacy" -> {}
     [] "force" \in opt.answers -> {"dropped", "retired"}
     [] OTHER -> {"dropped", "shim"})
    \cup (IF "force" \in opt.answers THEN {"hud"} ELSE {})

\* No setup, in any mode and with any answers, finished or cut anywhere, costs
\* the user a text but those: what was in place or in a backup still is.
SetupKeeps == [][(pc \in Setup) => Recoverable \subseteq Recoverable' \cup Forfeit]_installVars

\* Between commands the user's own notify command is the one that runs, by
\* itself or behind the dispatcher, and one the user gave up never comes back.
NotifyKept ==
  pc = "idle" /\ ~gap =>
    IF "notify" \in owned
    THEN home.notify = "mine" \/ (home.notify = "dispatcher" /\ home.previous = "mine")
    ELSE home.notify \in {"none", "owx"}

\* After a command that finished, the hooks that OWX installed are switched on.
HooksEnabled == pc = "idle" /\ ~cut /\ "owx" \in home.hooks => "hooks" \in home.flags

SetupCoherent == NotifyKept /\ HooksEnabled
=============================================================================
