------------------------------ MODULE Settings ------------------------------
(***************************************************************************)
(* The settings of a user's config.toml beside those of Install, as setup, *)
(* uninstall and the repair before a launch rewrite them: the root keys,   *)
(* the seeded limits, the environment, the [agents] and [tui] tables, the  *)
(* MCP servers and the trust of hooks.  All three take out what they think *)
(* is OWX's and write it anew; "mine" is what the user wrote.              *)
(***************************************************************************)
EXTENDS Naturals

CONSTANTS
  MaxCommands,   \* bound on the commands of a behaviour
  MaxChanges     \* bound on the user's changes between them

VARIABLES
  conf,          \* config.toml, a record
  compat,        \* the MCP mode of setup-scope.json is "compat"
  last,          \* the command that finished last, with its options
  half,          \* a plugin setup is between its writes, with its options
  commands, changes

settingsVars == <<conf, compat, last, half, commands, changes>>

Limits == {"context", "compact"}
Absent == [marked |-> FALSE, line |-> "absent"]
Unset == [marked |-> FALSE, line |-> "none"]
Lines == [marked : BOOLEAN, line : {"absent", "none", "focused", "minimal", "own"}]

\* The options of setup; the preset is that of hud-config.json.
Choices == [command : {"legacy", "plugin"}, force : BOOLEAN, compat : BOOLEAN,
            remove : BOOLEAN, preset : {"focused", "minimal"}]
NoChoice == [command |-> "none", force |-> FALSE, compat |-> FALSE, remove |-> FALSE,
             preset |-> "focused"]

(***************************************************************************)
(* What a rewrite does to each setting                                     *)
(***************************************************************************)
\* getOmxTopLevelLines and stripOmxTopLevelKeys
NotifyAfter(n) == CASE n \in {"mine", "wrapped"} -> "wrapped" [] OTHER -> "owx"
EffortAfter(e) == IF e = "none" THEN "medium" ELSE e
EffortStrippedFault(e) == "none"
EffortStripped(e) == IF e = "medium" THEN "none" ELSE e

\* stripOmxSeededBehavioralDefaults: the two seeded limits go as long as they are
\* as seeded, one if the user wrote the other outside; else only the markers go.
LimitsStripped(lim) ==
  CASE \A k \in Limits : lim[k] = "seeded" -> [k \in Limits |-> "none"]
    [] \E k, j \in Limits : lim[k] = "seeded" /\ lim[j] = "outside" ->
         [k \in Limits |-> IF lim[k] = "seeded" THEN "none" ELSE lim[k]]
    [] OTHER -> [k \in Limits |-> IF lim[k] = "none" THEN "none" ELSE "outside"]

\* upsertEnvSettings: the keys of [env] move to [shell_environment_policy.set]
\* unless it has them.
ShellAfter(c) ==
  IF c.shell # "none" THEN c.shell ELSE IF c.env = "mine" THEN "mine" ELSE "zero"

\* upsertAgentsSettings
ThreadsAfter(t) == IF t = "none" THEN "six" ELSE t

\* A status line is OWX's if its marker is above a line that OWX can write, or if
\* it has no marker and is the line that was written before there was one.
ManagedLine(l) ==
  \/ l.marked /\ l.line \in {"focused", "minimal"}
  \/ ~l.marked /\ l.line = "focused"

\* extractCustomizedTuiSectionsFromOmxBlocks and upsertTuiStatusLine: the user's
\* [tui] and one that the user changed inside OWX's block become one table.
StatusAfter(c, o) ==
  LET custom == c.block.line \notin {"absent", "none"} /\ ~ManagedLine(c.block)
      kept(l) == l.line \notin {"absent", "none"} /\ ~(o.force /\ ManagedLine(l))
      written == [marked |-> TRUE, line |-> IF o.force THEN "focused" ELSE o.preset]
      plain(l) == [marked |-> FALSE, line |-> l.line]
  IN  IF c.table.line = "absent" /\ ~custom THEN [table |-> Absent, block |-> written]
      ELSE IF kept(c.table) THEN [table |-> plain(c.table), block |-> Absent]
      ELSE IF custom /\ kept(c.block) THEN [table |-> plain(c.block), block |-> Absent]
      ELSE [table |-> written, block |-> Absent]

\* addDefaultLauncherMcpStartupTimeouts
Timed(s) == IF s = "launcher" THEN "timed" ELSE s

\* getSharedMcpRegistryBlock: not a server that the config has already.
SharedAfter(c, sync) == sync /\ c.server = "none"

\* stripManagedCodexHookTrustState: only entries with the hash of OWX's own hooks.
TrustStripped(t) == IF t = "owx" THEN "none" ELSE t
TrustAfter(t) == IF t = "mine" THEN "mine" ELSE "owx"

\* The first-party servers: in the block, kept where they are, or gone.
FirstPartyAfter(c, o) ==
  IF o.compat THEN {"block"} ELSE IF c.mcp # {} /\ ~o.remove THEN {"own"} ELSE {}

\* buildMergedConfig
Merged(c, o) ==
  LET status == StatusAfter(c, o) IN
  [c EXCEPT !.notify = NotifyAfter(@), !.effort = EffortAfter(@),
            !.limits = LimitsStripped(@),
            !.env = "none", !.shell = ShellAfter(c), !.threads = ThreadsAfter(@),
            !.table = status.table, !.block = status.block,
            !.mcp = FirstPartyAfter(c, o), !.shared = SharedAfter(c, o.compat),
            !.server = Timed(@), !.trust = TrustAfter(@)]

(***************************************************************************)
(* The commands                                                            *)
(***************************************************************************)
Command(name) ==
  /\ half = NoChoice /\ commands < MaxCommands
  /\ commands' = commands + 1
  /\ last' = [NoChoice EXCEPT !.command = name]

LegacySetup(o) ==
  /\ half = NoChoice /\ commands < MaxCommands /\ o.command = "legacy"
  /\ conf' = Merged(conf, o)
  /\ compat' = o.compat /\ last' = o /\ commands' = commands + 1
  /\ UNCHANGED <<half, changes>>

\* cleanupPluginModeLegacyConfig
PluginCleans(o) ==
  /\ half = NoChoice /\ commands < MaxCommands /\ o.command = "plugin"
  /\ conf' = [conf EXCEPT !.notify = IF @ = "owx" THEN "none" ELSE @,
                          !.effort = EffortStripped(@), !.limits = LimitsStripped(@),
                          !.env = "none", !.shell = "none", !.block = Absent,
                          !.shared = FALSE, !.trust = TrustStripped(@),
                          !.mcp = IF @ # {} /\ ~o.compat /\ ~o.remove THEN {"own"} ELSE {}]
  /\ half' = o /\ commands' = commands + 1
  /\ last' = NoChoice
  /\ UNCHANGED <<compat, changes>>

\* applyPluginModeHooksConfig and syncSharedMcpRegistryIntoConfig; or a cut.
PluginApplies ==
  /\ half # NoChoice
  /\ conf' = [conf EXCEPT !.trust = TrustAfter(@), !.shared = SharedAfter(conf, half.compat),
                          !.server = IF half.compat THEN Timed(@) ELSE @]
  /\ last' = half /\ compat' = half.compat /\ half' = NoChoice
  /\ UNCHANGED <<commands, changes>>

PluginIsCut ==
  /\ half # NoChoice /\ half' = NoChoice
  /\ UNCHANGED <<conf, compat, last, commands, changes>>

\* cleanConfig of uninstall
Uninstalls ==
  /\ Command("uninstall")
  /\ conf' = [conf EXCEPT !.notify = IF @ = "wrapped" THEN "mine" ELSE "none",
                          !.effort = EffortStripped(@), !.limits = LimitsStripped(@),
                          !.env = "none", !.shell = "none", !.block = Absent,
                          !.trust = TrustStripped(@), !.mcp = @ \ {"block"}]
  /\ UNCHANGED <<compat, half, changes>>

\* repairConfigIfNeeded: two [tui] tables, or a launcher without a time-out, and
\* everything is merged anew, with what resolveLaunchConfigRepairOptions finds:
\* neither the notify command nor the hooks are among it.
NeedsRepair(c) == (c.table # Absent /\ c.block # Absent) \/ c.server = "launcher"
Launch ==
  LET o == [NoChoice EXCEPT !.compat = compat \/ conf.mcp # {}] IN
  /\ Command("launch") /\ NeedsRepair(conf)
  /\ conf' = [Merged(conf, o) EXCEPT !.notify = "owx", !.trust = TrustStripped(conf.trust),
                                     !.shared = SharedAfter(conf, conf.shared)]
  /\ UNCHANGED <<compat, half, changes>>

\* The user writes a setting.
Changed ==
  {[conf EXCEPT !.notify = "mine"], [conf EXCEPT !.effort = "mine"],
   [conf EXCEPT !.env = "mine"], [conf EXCEPT !.shell = "mine"],
   [conf EXCEPT !.threads = "mine"], [conf EXCEPT !.trust = "mine"],
   [conf EXCEPT !.table = Unset], [conf EXCEPT !.table = [@ EXCEPT !.line = "own"]]}
    \cup {[conf EXCEPT !.limits[k] = IF @ \in {"seeded", "inside"} THEN "inside" ELSE "outside"] :
            k \in Limits}
    \cup {[conf EXCEPT !.limits[k] = "none"] : k \in Limits}
    \cup {[conf EXCEPT !.server = s] : s \in {"plain", "launcher"}}
    \cup (IF conf.block.line = "absent" THEN {}
          ELSE {[conf EXCEPT !.block.line = "own"]})

Change ==
  /\ half = NoChoice /\ changes < MaxChanges
  /\ conf' \in Changed \ {conf}
  /\ last' = [NoChoice EXCEPT !.command = "change"] /\ changes' = changes + 1
  /\ UNCHANGED <<compat, half, commands>>

\* A config without OWX, or one of a version that seeded the limits and [env].
SettingsInit ==
  /\ conf \in {[notify |-> "none", effort |-> "none", limits |-> [k \in Limits |-> seed],
                env |-> "none", shell |-> "none", threads |-> "none",
                table |-> Absent, block |-> Absent, mcp |-> {}, shared |-> FALSE,
                server |-> "none", trust |-> "none"] : seed \in {"none", "seeded"}}
  /\ compat = FALSE /\ last = NoChoice /\ half = NoChoice
  /\ commands = 0 /\ changes = 0

SettingsNext ==
  \/ \E o \in Choices : LegacySetup(o) \/ PluginCleans(o)
  \/ PluginApplies \/ PluginIsCut \/ Uninstalls \/ Launch \/ Change

SettingsSpec == SettingsInit /\ [][SettingsNext]_settingsVars

-----------------------------------------------------------------------------
SettingsTypeOK ==
  /\ conf.table \in Lines /\ conf.block \in Lines
  /\ conf.notify \in {"none", "mine", "owx", "wrapped"}
  /\ \A k \in Limits : conf.limits[k] \in {"none", "seeded", "inside", "outside"}
  /\ conf.mcp \subseteq {"block", "own"}
  /\ half \in Choices \cup {NoChoice} /\ commands \in 0..MaxCommands

\* What the user wrote and the config still says.
Mine(c) ==
  {i \in {"effort", "threads", "trust"} : c[i] = "mine"}
    \cup {k \in Limits : c.limits[k] \in {"inside", "outside"}}
    \cup (IF c.notify \in {"mine", "wrapped"} THEN {"notify"} ELSE {})
    \cup (IF c.shell = "mine" \/ (c.shell = "none" /\ c.env = "mine") THEN {"explore"} ELSE {})
    \cup (IF c.table.line = "own" \/ c.block.line = "own" THEN {"status line"} ELSE {})
    \cup (IF c.server # "none" THEN {"server"} ELSE {})

\* What uninstall and the plugin mode take out although the user wrote it: the
\* switch of explore, a notify command that nothing wraps, and what the user
\* changed inside OWX's block.  A launch is left to LaunchKeeps.
TakenOut(c, by) ==
  CASE by = "launch" -> Mine(c)
    [] by \in {"uninstall", "plugin"} ->
         {"explore"} \cup (IF c.notify = "mine" /\ by = "uninstall" THEN {"notify"} ELSE {})
                     \cup (IF c.table.line # "own" THEN {"status line"} ELSE {})
    [] OTHER -> {}
By == IF half' # NoChoice \/ half # NoChoice THEN "plugin" ELSE last'.command

(***************************************************************************)
(* A rewrite of config.toml keeps what the user wrote, whichever command   *)
(* wrote the file before and wherever it was cut (generator.ts:2534,       *)
(* setup.ts:1636, uninstall.ts:194).                                       *)
(***************************************************************************)
SettingsKept ==
  [][(changes' = changes) => Mine(conf) \subseteq Mine(conf') \cup TakenOut(conf, By)]_settingsVars

(***************************************************************************)
(* After a setup Codex can parse config.toml: no table stands twice.  And  *)
(* the same setup, run again, writes the same settings, so that the backup *)
(* it would take is not worth more than the file (setup.ts:3497-3578).     *)
(***************************************************************************)
Settings(c) == [c EXCEPT !.table.marked = FALSE, !.block.marked = FALSE]
SettingsSettle ==
  last.command = "legacy" =>
    /\ conf.table = Absent \/ conf.block = Absent
    /\ ~(conf.shared /\ conf.server # "none")
    /\ Settings(Merged(conf, last)) = Settings(conf)

(***************************************************************************)
(* The repair before a launch keeps what the user wrote (generator.ts:2525 *)
(* "Preserves existing user settings").  It does not: see the README.      *)
(***************************************************************************)
LaunchKeeps ==
  [][(last'.command = "launch" /\ changes' = changes) => Mine(conf) \subseteq Mine(conf')]_settingsVars
=============================================================================
