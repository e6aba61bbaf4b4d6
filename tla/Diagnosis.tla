----------------------------- MODULE Diagnosis -----------------------------
(***************************************************************************)
(* What `owx doctor' says of an installation and what the setup it advises *)
(* makes of it: src/cli/doctor.ts, src/cli/plugin-marketplace.ts,          *)
(* src/agents/native-config.ts, and the steps of src/cli/setup.ts that     *)
(* write what the doctor looks at.  One user scope; the user, another tool *)
(* or an upgrade spoils the installation (Spoil); the user asks the doctor *)
(* and runs what a line of it advises, or a setup of their own; a setup is *)
(* a sequence of writes and may be cut between two of them.                *)
(*                                                                         *)
(* The backups a setup takes, notify and the user's texts are in Install,  *)
(* the other settings of config.toml in Settings.                          *)
(***************************************************************************)
EXTENDS Naturals, Sequences, FiniteSets

CONSTANTS
  McpServers,    \* OWX_FIRST_PARTY_MCP_SERVER_NAMES
  MaxEvents,     \* bound on what befalls the installation
  Commands,      \* setups the user runs of their own accord
  Spoils         \* the changes explored

VARIABLES
  disk,          \* the installation
  scoped,        \* whether this Codex supports plugin-scoped hooks
  setup,         \* the setup at work
  befallen       \* how much befell the installation

doctorVars == <<disk, scoped, setup, befallen>>

Roles == {"critic", "explorer"}
None == <<>>                    \* no file, no table, no complaint

\* A fresh Codex home.
Bare == [mode |-> "none", mcp |-> "none", config |-> "absent", model |-> "none",
         seeded |-> FALSE, flag |-> FALSE, hooks |-> "absent", market |-> "none",
         enabled |-> FALSE, cache |-> "none", mcps |-> [s \in McpServers |-> "unset"],
         direct |-> FALSE, agents |-> [r \in Roles |-> None], effort |-> "own",
         spark |-> "luna", prompts |-> FALSE, skills |-> FALSE,
         md |-> [there |-> FALSE, ours |-> FALSE, outer |-> None, block |-> None],
         explore |-> "unset", lore |-> "unset", env |-> "unset", triage |-> "fine",
         host |-> "fine", roots |-> "apart", mirrors |-> 0]

(***************************************************************************)
(* Models.                                                                 *)
(***************************************************************************)
\* resolveFrontierModel, resolveAgentModelFromLanes.
Frontier(d) == IF d.model = "none" THEN "current" ELSE d.model
Lane(d, role) == IF role = "explorer" THEN d.spark ELSE Frontier(d)

\* resolveNativeAgentConfig: the agents' efforts are checked against what is
\* known of the model, and the critic's can be overridden.
Unsupported(d) == d.effort = "max" /\ Frontier(d) = "legacy"
Generated(d, role) == <<Lane(d, role), IF role = "critic" THEN d.effort ELSE "own">>

\* renderAgentsModelTableBlock, readManagedModelTableBlock.
Table(d) == <<Frontier(d), d.spark, d.effort>>
FirstTable(md) == IF md.outer # None THEN md.outer ELSE md.block

\* isOmxGeneratedAgentsMd, hasOmxAgentsContract; hasOmxManagedAgentsSections.
Contract(md) == md.there /\ (md.ours \/ md.block # None)
Managed(md) == Contract(md) \/ FirstTable(md) # None

(***************************************************************************)
(* The checks: each is the set of complaints it makes.                     *)
(***************************************************************************)
Says(name, condition) == IF condition THEN {name} ELSE {}

ConfigCheck(d) == Says("config", d.config # "owx")
SeededCheck(d) == Says("seeded", d.config # "absent" /\ d.seeded)
HostCheck(d) == Says("host", d.host = "lacking")
SmokeCheck(d) == Says("smoke", d.host = "broken dist")
PostCompactCheck(d) == Says("mirrors", d.mirrors > 0 /\ d.hooks # "absent")
RootsCheck(d) == Says("roots", d.roots = "overlap")
TriageCheck(d) == Says("triage", d.triage # "fine")

\* The environment decides, then config.toml.
ExploreCheck(d) ==
  Says("explore", "on" = IF d.env # "unset" THEN d.env ELSE d.explore)
LoreCheck(d) == Says("lore", d.lore = "bad")

\* checkNativeHooks, checkPluginScopedNativeHooks.
PluginHooks(d) == d.mode = "plugin" /\ d.config # "absent" /\ d.flag
PluginHooksCheck(d) == Says("hooks", d.cache # "current")
HooksCheck(d) ==
  IF PluginHooks(d) THEN PluginHooksCheck(d)
  ELSE IF d.hooks = "absent" THEN Says("hooks", d.config = "owx")
  ELSE Says("hooks", d.hooks # "full")

PromptsCheck(d) == Says("prompts", d.mode # "plugin" /\ ~d.prompts)
MarketCheck(d) ==
  Says("skills", \/ d.config = "absent" \/ d.market # "here" \/ ~d.enabled
                 \/ d.cache # "current")
SkillsCheck(d) == IF d.mode = "plugin" THEN MarketCheck(d) ELSE Says("skills", ~d.skills)

RolesCheck(d) == Says("roles", d.mode = "plugin" /\ d.agents["critic"] = None)
SparkCheck(d) == Says("spark", d.agents["explorer"] # Generated(d, "explorer"))

\* checkNativeAgentModelRouting: roles of the user's own are passed over.
RoutingCheck(d) ==
  Says("models",
    \/ \E r \in Roles : d.agents[r] \notin {Generated(d, r), <<"users">>}
    \/ Unsupported(d) /\ d.agents["critic"] \notin {None, <<"users">>}
    \/ d.md.there /\ FirstTable(d.md) # None /\ FirstTable(d.md) # Table(d)
    \/ Contract(d.md) /\ FirstTable(d.md) = None)

AgentsMdCheck(d) == Says("agents.md", d.mode # "plugin" /\ ~Contract(d.md))

\* checkMcpServers, describePluginMcpState.
On(d) == {s \in McpServers : d.mcps[s] = "on"}
McpCheck(d) ==
  IF d.config = "absent" THEN {"mcp"}
  ELSE Says("mcp", /\ d.mode = "plugin"
                   /\ IF d.mcp = "compat" THEN On(d) # McpServers ELSE On(d) # {})

Complaints(d) ==
  UNION {ConfigCheck(d), SeededCheck(d), HostCheck(d), SmokeCheck(d), PostCompactCheck(d),
         RootsCheck(d), TriageCheck(d), ExploreCheck(d), LoreCheck(d), HooksCheck(d),
         PromptsCheck(d), SkillsCheck(d), RolesCheck(d), SparkCheck(d), RoutingCheck(d),
         AgentsMdCheck(d), McpCheck(d)}

\* What no setup looks after.
ByHand == {"host", "smoke", "mirrors", "roots", "triage", "explore", "lore"}

Plain == [mode |-> "unset", mcp |-> "unset", force |-> FALSE, merge |-> FALSE]
Forced == [Plain EXCEPT !.force = TRUE]
PluginForced == [Forced EXCEPT !.mode = "plugin"]
Merging == [Plain EXCEPT !.merge = TRUE]

\* The commands a complaint's message names; the last line's `owx setup' if none.
Advice(d, c) ==
  CASE c = "config" -> {IF d.config = "bare" THEN Forced ELSE Plain}
    [] c = "hooks" -> {IF PluginHooks(d) \/ (d.mode = "plugin" /\ d.hooks = "absent")
                       THEN PluginForced ELSE Forced}
    [] c = "skills" -> {IF d.mode = "plugin" THEN PluginForced ELSE Plain}
    [] c = "spark" -> {Forced}
    [] c = "models" -> {IF Contract(d.md) /\ FirstTable(d.md) = None THEN Merging ELSE Forced}
    [] c = "agents.md" -> IF d.md.there THEN {Merging, Forced} ELSE {Plain}
    [] c = "mcp" -> {IF d.mode # "plugin" THEN Plain
                     ELSE [PluginForced EXCEPT !.mcp = d.mcp]}
    [] OTHER -> {Plain}

(***************************************************************************)
(* Setup.  What it was asked for, what it found persisted, and the step it *)
(* is at; `about' is the complaint whose advice it follows.                *)
(***************************************************************************)
NoSetup == [at |-> "idle", mode |-> "legacy", mcp |-> "none", force |-> FALSE, merge |-> FALSE,
            yes |-> FALSE, offered |-> FALSE, about |-> None, excused |-> FALSE]

LegacySteps == <<"prefs", "prompts", "skills", "agents", "config", "hooks", "md", "idle">>
PluginSteps == <<"prefs", "prompts", "skills", "agents", "config", "flags", "hooks",
                 "market", "refresh", "cache", "md", "idle">>
StepsOf(mode) == IF mode = "plugin" THEN PluginSteps ELSE LegacySteps
After(at, mode) ==
  LET steps == StepsOf(mode) IN
  steps[1 + CHOOSE i \in 1..(Len(steps) - 1) : steps[i] = at]

\* resolveSetupInstallMode, resolveSetupMcpMode: what is asked for, what was
\* persisted, what the plugin cache says.
ModeFor(d, command) ==
  IF command.mode # "unset" THEN command.mode
  ELSE IF d.mode # "none" THEN d.mode
  ELSE IF d.cache # "none" THEN "plugin" ELSE "legacy"
McpFor(d, command) == IF command.mcp # "unset" THEN command.mcp ELSE d.mcp

\* shouldOfferFirstPartyMcpRemoval.
Registered(d) == d.direct \/ \E s \in McpServers : d.mcps[s] # "unset"

\* Advice that the same setup does not live up to: the prompts are declined, the
\* roles are written before the root model is upgraded, or a stale table is all
\* that a forced setup replaces in AGENTS.md.
Excused(d, c, command, yes) ==
  LET mode == ModeFor(d, command)
      upgraded == mode = "legacy" /\ yes /\ d.model = "legacy" IN
  \/ c = "mcp" /\ d.mode = "plugin" /\ d.mcp # "compat" /\ ~yes
  \/ c \in {"spark", "models"} /\ upgraded
  \/ c = "models" /\ mode = "plugin" /\ ~yes /\ ~Contract(d.md) /\ d.md.there
  \/ /\ c = "agents.md" /\ command = Forced /\ Managed(d.md)
     /\ upgraded \/ FirstTable(d.md) # Table(d)

BeginSetup(command, yes, about) ==
  LET mcp == McpFor(disk, command) IN
  /\ setup.at = "idle"
  /\ setup' = [at |-> "prefs", mode |-> ModeFor(disk, command), mcp |-> mcp,
                force |-> command.force, merge |-> command.merge, yes |-> yes,
                offered |-> mcp # "compat" /\ Registered(disk), about |-> about,
                excused |-> about # None /\ Excused(disk, about[1], command, yes)]
  /\ UNCHANGED <<disk, scoped>>

\* removeFirstPartyMcpRegistrations, preserveExistingFirstPartyMcp.
Removes == setup.offered /\ setup.yes
Preserves == setup.offered /\ ~setup.yes

(***************************************************************************)
(* What each step writes.                                                  *)
(***************************************************************************)
Prefs(d) == [d EXCEPT !.mode = setup.mode, !.mcp = setup.mcp]

\* installPrompts, installSkills; cleanupPluginModeLegacyPrompts,
\* cleanupLegacyManagedSkills.
Prompts(d) == [d EXCEPT !.prompts = setup.mode = "legacy"]
WriteSkills(d) == [d EXCEPT !.skills = setup.mode = "legacy"]

\* refreshNativeAgentConfigs: every role is written over.
Agents(d) == [d EXCEPT !.agents = [r \in Roles |-> Generated(d, r)]]

\* updateManagedConfig, one write; cleanupPluginModeLegacyConfig, which
\* removes a file it leaves empty.
LegacyConfig(d) ==
  [d EXCEPT !.config = "owx", !.seeded = FALSE,
            !.model = IF setup.yes /\ @ = "legacy" THEN "current" ELSE @,
            !.direct = setup.mcp = "compat" \/ (@ /\ Preserves),
            !.explore = IF @ = "unset" THEN "off" ELSE @]

Cleaned(d) ==
  [d EXCEPT !.seeded = FALSE, !.explore = "unset", !.direct = @ /\ Preserves]

HoldsOwx(d) == \/ d.market # "none" \/ d.enabled \/ d.direct
               \/ \E s \in McpServers : d.mcps[s] # "unset"

PluginConfig(d) ==
  LET clean == Cleaned(d) IN
  [clean EXCEPT !.config = IF @ = "absent" THEN "absent"
                           ELSE IF HoldsOwx(clean) THEN "owx"
                           ELSE IF clean.model # "none" \/ clean.flag \/ clean.lore # "unset" THEN "bare"
                           ELSE "absent"]

\* applyPluginModeHooksConfig: the feature flags, then hooks.json.
Flags(d) ==
  [d EXCEPT !.flag = @ \/ scoped, !.config = IF scoped /\ @ = "absent" THEN "bare"
                                            ELSE IF scoped THEN @ ELSE "owx"]

UsesHooksFile == setup.mode = "legacy" \/ ~scoped
HooksFile(d) ==
  [d EXCEPT !.hooks = IF UsesHooksFile THEN "full" ELSE IF @ = "full" THEN "absent" ELSE @]

\* ensurePluginMarketplaceRegistration.
MarketFault(d) ==
  [d EXCEPT !.config = "owx", !.market = "here",
            !.mcps = IF setup.mcp = "compat" THEN [s \in McpServers |-> "on"] ELSE @]

Market(d) ==
  [d EXCEPT !.config = "owx", !.market = "here", !.enabled = TRUE,
            !.mcps = IF setup.mcp = "compat" THEN [s \in McpServers |-> "on"]
                     ELSE IF Removes THEN [s \in McpServers |-> "unset"] ELSE @]

\* refreshOmxPluginDiscoveryCache removes a stale cache,
\* materializePackagedOmxPluginCache puts the packaged one in place.
Refresh(d) == [d EXCEPT !.cache = IF @ = "stale" THEN "none" ELSE @]
Cache(d) == [d EXCEPT !.cache = "current"]

\* Step 6: a file of the user's is kept unless it is forced, agreed to or
\* merged into; one with OWX sections gets its table refreshed instead.
Whole(d) == [there |-> TRUE, ours |-> TRUE, outer |-> Table(d), block |-> None]
Refreshed(d) ==
  IF d.md.outer # None \/ d.md.block = None THEN [d.md EXCEPT !.outer = Table(d)]
  ELSE [d.md EXCEPT !.block = Table(d)]
Synced(d, md) == IF ~md.there \/ setup.force \/ setup.yes THEN Whole(d) ELSE md

LegacyMd(d) ==
  IF ~d.md.there THEN Whole(d)
  ELSE IF setup.merge THEN [d.md EXCEPT !.block = Table(d)]
  ELSE IF Managed(d.md) /\ FirstTable(d.md) # Table(d) THEN Refreshed(d)
  ELSE Synced(d, d.md)

\* cleanupPluginModeLegacyAgentsMd, and the defaults if they are selected.
PluginMd(d) ==
  LET left == IF Contract(d.md) THEN Bare.md ELSE d.md IN
  IF setup.yes THEN Synced(d, left) ELSE left

WrittenBy(at, d) ==
  CASE at = "prefs" -> Prefs(d)
    [] at = "prompts" -> Prompts(d)
    [] at = "skills" -> WriteSkills(d)
    [] at = "agents" -> Agents(d)
    [] at = "config" -> IF setup.mode = "plugin" THEN PluginConfig(d) ELSE LegacyConfig(d)
    [] at = "flags" -> Flags(d)
    [] at = "hooks" -> HooksFile(d)
    [] at = "market" -> Market(d)
    [] at = "refresh" -> Refresh(d)
    [] at = "cache" -> Cache(d)
    [] at = "md" -> [d EXCEPT !.md = IF setup.mode = "plugin" THEN PluginMd(d) ELSE LegacyMd(d)]

\* What stops a setup: a model that lacks an agent's effort; root fields in
\* hooks.json that setup does not know.
Throws(at) ==
  \/ at = "agents" /\ Unsupported(disk)
  \/ at = "hooks" /\ UsesHooksFile /\ disk.hooks = "foreign"

SetupStep ==
  /\ setup.at # "idle" /\ ~Throws(setup.at)
  /\ disk' = WrittenBy(setup.at, disk)
  /\ LET next == After(setup.at, setup.mode) IN
     setup' = IF next = "idle" THEN NoSetup ELSE [setup EXCEPT !.at = next]
  /\ UNCHANGED <<scoped, befallen>>

SetupThrows ==
  /\ setup.at # "idle" /\ Throws(setup.at)
  /\ setup' = NoSetup
  /\ UNCHANGED <<disk, scoped, befallen>>

(***************************************************************************)
(* What befalls an installation.                                           *)
(***************************************************************************)
WithoutConfig(d) ==
  [d EXCEPT !.config = "absent", !.model = "none", !.seeded = FALSE, !.flag = FALSE,
            !.market = "none", !.enabled = FALSE, !.mcps = Bare.mcps, !.direct = FALSE,
            !.explore = "unset", !.lore = "unset"]
Kept(config) == IF config = "absent" THEN "bare" ELSE config
Strayed(md) == [md EXCEPT !.there = TRUE, !.ours = FALSE, !.block = None]

Spoiled(d, x) ==
  CASE x = "no config" -> WithoutConfig(d)
    [] x = "legacy model" -> [d EXCEPT !.model = "legacy", !.config = Kept(@)]
    [] x = "seeded" -> [d EXCEPT !.seeded = TRUE, !.config = Kept(@)]
    [] x = "explore on" -> [d EXCEPT !.explore = "on", !.config = Kept(@)]
    [] x = "bad lore" -> [d EXCEPT !.lore = "bad", !.config = Kept(@)]
    [] x = "direct servers" -> [d EXCEPT !.direct = TRUE, !.config = "owx"]
    [] x = "a server off" -> [d EXCEPT !.mcps[CHOOSE s \in McpServers : TRUE] = "off",
                                       !.config = "owx"]
    [] x = "a server on" -> [d EXCEPT !.mcps[CHOOSE s \in McpServers : TRUE] = "on",
                                      !.config = "owx"]
    [] x = "plugin disabled" -> [d EXCEPT !.enabled = FALSE]
    [] x = "no hooks" -> [d EXCEPT !.hooks = "absent"]
    [] x = "partial hooks" -> [d EXCEPT !.hooks = "partial"]
    [] x = "unreadable hooks" -> [d EXCEPT !.hooks = "unreadable"]
    [] x = "foreign hooks" -> [d EXCEPT !.hooks = "foreign"]
    [] x = "package upgraded" -> [d EXCEPT !.cache = IF @ = "none" THEN @ ELSE "stale"]
    [] x = "package moved" -> [d EXCEPT !.market = IF @ = "none" THEN @ ELSE "elsewhere"]
    [] x = "no cache" -> [d EXCEPT !.cache = "none"]
    [] x = "no preferences" -> [d EXCEPT !.mode = "none", !.mcp = "none"]
    [] x = "own role" -> [d EXCEPT !.agents["explorer"] = <<"users">>]
    [] x = "no role" -> [d EXCEPT !.agents["critic"] = None]
    [] x = "effort max" -> [d EXCEPT !.effort = "max"]
    [] x = "own spark" -> [d EXCEPT !.spark = "own"]
    [] x = "no prompts" -> [d EXCEPT !.prompts = FALSE]
    [] x = "no skills" -> [d EXCEPT !.skills = FALSE]
    [] x = "md replaced" -> [d EXCEPT !.md = [Strayed(@) EXCEPT !.outer = None]]
    [] x = "md markers lost" -> [d EXCEPT !.md = Strayed(@)]
    [] x = "table edited" -> [d EXCEPT !.md.outer = IF @ = None THEN @ ELSE <<"edited">>]
    [] x = "table lost" -> [d EXCEPT !.md.outer = None]
    [] x = "no md" -> [d EXCEPT !.md = Bare.md]
    [] x = "host lacking" -> [d EXCEPT !.host = "lacking"]
    [] x = "broken dist" -> [d EXCEPT !.host = "broken dist"]
    [] x = "mirrors" -> [d EXCEPT !.mirrors = 1]
    [] x = "overlap" -> [d EXCEPT !.roots = "overlap"]
    [] x = "triage" -> [d EXCEPT !.triage = "bad"]
    [] x = "explore in env" -> [d EXCEPT !.env = "on"]

Befalls == befallen < MaxEvents /\ befallen' = befallen + 1

Spoil(x) ==
  /\ setup.at = "idle" /\ Befalls
  /\ Spoiled(disk, x) # disk
  /\ disk' = Spoiled(disk, x)
  /\ UNCHANGED <<scoped, setup>>

\* Another Codex is installed.
OtherCodex ==
  /\ setup.at = "idle" /\ Befalls
  /\ scoped' = ~scoped
  /\ UNCHANGED <<disk, setup>>

Cut ==
  /\ setup.at # "idle" /\ Befalls
  /\ setup' = NoSetup
  /\ UNCHANGED <<disk, scoped>>

\* The user runs setup of their own accord, or follows one line of the doctor.
RunSetup(command, yes) == BeginSetup(command, yes, None) /\ Befalls

Heed(c, yes) == \E command \in Advice(disk, c) : BeginSetup(command, yes, <<c>>)
Follow(c, yes) == c \notin ByHand /\ Heed(c, yes) /\ Befalls

\* What the messages without a command ask for.
MendByHand ==
  /\ setup.at = "idle"
  /\ disk' = [disk EXCEPT !.host = "fine", !.mirrors = 0, !.roots = "apart",
                          !.triage = "fine", !.env = "unset", !.lore = "unset",
                          !.explore = IF @ = "on" THEN "off" ELSE @]
  /\ UNCHANGED <<scoped, setup, befallen>>

\* A user who follows the first line of the doctor's that asks for something,
\* and agrees to what setup offers.
Printed == <<"host", "config", "seeded", "hooks", "smoke", "mirrors", "explore", "lore",
             "prompts", "skills", "roles", "spark", "models", "roots", "agents.md", "mcp",
             "triage">>
First(d) ==
  LET complaints == Complaints(d)
      said == {i \in 1..Len(Printed) : Printed[i] \in complaints} IN
  Printed[CHOOSE i \in said : \A j \in said : i <= j]

FollowFirst ==
  /\ setup.at = "idle" /\ Complaints(disk) # {}
  /\ IF First(disk) \in ByHand THEN MendByHand
     ELSE Heed(First(disk), TRUE) /\ UNCHANGED befallen

\* A fresh home, or one whose first setup was cut at once.
DoctorInit ==
  /\ \E mode \in {"none", "plugin"} : disk = [Bare EXCEPT !.mode = mode]
  /\ scoped \in BOOLEAN
  /\ setup = NoSetup
  /\ befallen = 0

DoctorNext ==
  \/ \E command \in Commands, yes \in BOOLEAN : RunSetup(command, yes)
  \/ \E yes \in BOOLEAN : \E c \in Complaints(disk) : Follow(c, yes)
  \/ \E x \in Spoils : Spoil(x)
  \/ OtherCodex \/ SetupStep \/ SetupThrows \/ Cut \/ FollowFirst

\* A setup that runs goes on, and the user goes on asking.
DoctorFairness == WF_doctorVars(SetupStep \/ SetupThrows) /\ WF_doctorVars(FollowFirst)
DoctorSpec == DoctorInit /\ [][DoctorNext]_doctorVars /\ DoctorFairness

-----------------------------------------------------------------------------
DoctorTypeOK ==
  /\ disk.mode \in {"none", "legacy", "plugin"} /\ disk.mcp \in {"none", "compat"}
  /\ disk.config \in {"absent", "bare", "owx"}
  /\ disk.config = "absent" => disk = WithoutConfig(disk)
  /\ disk.hooks \in {"absent", "partial", "unreadable", "foreign", "full"}
  /\ disk.cache \in {"none", "stale", "current"}
  /\ DOMAIN disk = DOMAIN Bare /\ DOMAIN setup = DOMAIN NoSetup
  /\ disk.md.there \/ disk.md = Bare.md
  /\ befallen \in 0..MaxEvents

(***************************************************************************)
(* The doctor's advice heals: a setup the user runs for a complaint, as    *)
(* the message says, leaves that complaint behind when it finishes, but    *)
(* for the cases of Excused (doctor.ts:163-312).                           *)
(***************************************************************************)
AdviceHeals ==
  [][(/\ setup.at # "idle" /\ SetupStep /\ setup'.at = "idle"
      /\ setup.about # None /\ ~setup.excused)
     => setup.about[1] \notin Complaints(disk')]_doctorVars

(***************************************************************************)
(* A doctor without complaints means hooks that fire: the plugin's, or all *)
(* of hooks.json; unless the plugin's hooks are switched on in a Codex     *)
(* that no longer knows them, which the doctor does not ask                *)
(* (doctor.ts:969-1053).                                                   *)
(***************************************************************************)
Wired == \/ scoped /\ disk.flag /\ disk.enabled /\ disk.cache = "current"
         \/ disk.hooks = "full"
PassIsWired ==
  (setup.at = "idle" /\ Complaints(disk) = {} /\ (scoped \/ ~disk.flag)) => Wired

(***************************************************************************)
(* A user who always follows the first complaint comes to an end: no       *)
(* complaint is left, whatever was spoiled or cut, unless setup itself     *)
(* stops at an effort the model lacks or a hooks.json it does not          *)
(* understand.                                                             *)
(***************************************************************************)
Stuck == Unsupported(disk) \/ disk.hooks = "foreign"
AdviceConverges == <>[](Complaints(disk) = {} \/ Stuck)
=============================================================================
