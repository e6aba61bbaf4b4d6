----------------------------- MODULE PluginHook -----------------------------
(***************************************************************************)
(* The standalone hook of plugin mode:                                     *)
(* plugins/owen-codex/hooks/codex-native-hook.mjs.  Codex runs one process *)
(* per hook event; those of one session follow each other, those of other  *)
(* sessions in the same directory run beside them.  All share session.json *)
(* (`pointer'), the tracker, and the file of notifications already sent.   *)
(*                                                                         *)
(* A hook observes the session, waits for the project's plugins, notifies  *)
(* if its event asks for it, and only then decides.  `alone' remembers     *)
(* that no hook of another session ran beside this one.                    *)
(***************************************************************************)
EXTENDS Naturals, FiniteSets

CONSTANTS
  Roots,       \* sessions started by a person
  Workers,     \* those of them whose agents write state
  Children,    \* sessions of native subagents
  ParentOf,    \* their parents, a function from Children to Roots
  Nobody,
  MaxHooks,    \* bound on the hook events
  MaxWrites    \* bound on the agent's own writes of state

VARIABLES
  pointer,     \* session.json: the session last observed
  tracked,     \* subagent-tracking.json: per session the leader, and the kinds of threads
  copy,        \* skill-active-state.json of a root: the skills named in it
  modes,       \* the modes of a root whose own file is active
  runstate,    \* run-state.json of a root: the mode it speaks of, and whether that runs
  sent,        \* notification-lifecycle.json: the events marked as sent
  told,        \* the events some platform has accepted
  hook, hooks, writes

pluginVars == <<pointer, tracked, copy, modes, runstate, sent, told, hook, hooks, writes>>

Sessions == Roots \cup Children
Kinds == {"unknown", "leader", "subagent"}
Events == {"SessionStart", "UserPromptSubmit", "PreToolUse", "PostToolUse", "Stop"}
Notified == {"SessionStart", "Stop"}
Skills == {"ralplan", "ultrawork"}
Idle == [at |-> "idle", event |-> "Stop", alone |-> TRUE, seen |-> {}, answer |-> "none"]

Trackers == [leader : Sessions \cup {Nobody}, kind : [Sessions -> Kinds]]

\* recordTrackedThread: what is claimed replaces what was known.
Tracked(session, thread, kind) ==
  [tracked EXCEPT ![session].kind[thread] = kind,
                  ![session].leader = IF kind = "leader" THEN thread ELSE @]

\* readNativeSubagentMetadata and recordSessionStart: a child belongs to the
\* current session if its parent leads that session.
Attached(x) ==
  /\ x \in Children /\ pointer # Nobody
  /\ tracked[pointer].leader = ParentOf[x]
  /\ tracked[pointer].kind[ParentOf[x]] = "leader"

RecordSessionStart(x) ==
  IF Attached(x)
  THEN tracked' = Tracked(pointer, x, "subagent") /\ UNCHANGED pointer
  ELSE tracked' = Tracked(x, x, "leader") /\ pointer' = x

\* A child that stops is closed under the session current at that time.
CloseChild(x) ==
  /\ tracked' = IF pointer = Nobody THEN tracked ELSE Tracked(pointer, x, "subagent")
  /\ UNCHANGED pointer

\* resolveSessionObservation: any other event switches the pointer.
Observe(x) == pointer' = x /\ UNCHANGED tracked

Began(x, h) ==
  [s \in Sessions |-> IF s # x THEN [hook[s] EXCEPT !.alone = @ /\ hook[s].at = "idle"]
                     ELSE [h EXCEPT !.alone = \A o \in Sessions \ {x} : hook[o].at = "idle"]]

Begin(x, event) ==
  /\ hook[x].at = "idle" /\ hooks < MaxHooks
  /\ hooks' = hooks + 1
  /\ CASE event = "SessionStart" -> RecordSessionStart(x)
       [] event = "Stop" /\ x \in Children -> CloseChild(x)
       [] OTHER -> Observe(x)
  /\ hook' = Began(x, IF event = "Stop" /\ x \in Children THEN [Idle EXCEPT !.answer = "allow"]
                      ELSE [Idle EXCEPT !.at = "plugins", !.event = event])
  /\ UNCHANGED <<copy, modes, runstate, sent, told, writes>>

\* runProjectHookPlugin: plugins end or are killed; the hook goes on.
AfterPlugins(x) ==
  /\ hook[x].at = "plugins"
  /\ hook' = [hook EXCEPT ![x].at = IF x \in Roots /\ hook[x].event \in Notified THEN "notify"
                                    ELSE "act"]
  /\ UNCHANGED <<pointer, tracked, copy, modes, runstate, sent, told, hooks, writes>>

\* dispatchLifecycleNotification: the file is read, the platforms are tried,
\* and one success marks the event in the copy that was read.
ReadSent(x) ==
  /\ hook[x].at = "notify"
  /\ hook' = [hook EXCEPT ![x].seen = sent,
                          ![x].at = IF <<x, hook[x].event>> \in sent THEN "act" ELSE "send"]
  /\ UNCHANGED <<pointer, tracked, copy, modes, runstate, sent, told, hooks, writes>>

Send(x) ==
  /\ hook[x].at = "send"
  /\ \/ /\ told' = told \cup {<<x, hook[x].event>>}
        /\ hook' = [hook EXCEPT ![x].at = "mark"]
     \/ hook' = [hook EXCEPT ![x].at = "act"] /\ UNCHANGED told
  /\ UNCHANGED <<pointer, tracked, copy, modes, runstate, sent, hooks, writes>>

Mark(x) ==
  /\ hook[x].at = "mark"
  /\ sent' = hook[x].seen \cup {<<x, hook[x].event>>}
  /\ hook' = [hook EXCEPT ![x].at = "act"]
  /\ UNCHANGED <<pointer, tracked, copy, modes, runstate, told, hooks, writes>>

Answer(x, answer) == hook' = [hook EXCEPT ![x] = [Idle EXCEPT !.answer = answer]]

Started(x) ==
  /\ hook[x].at = "act" /\ hook[x].event = "SessionStart"
  /\ Answer(x, "none")
  /\ UNCHANGED <<pointer, tracked, copy, modes, runstate, sent, told, hooks, writes>>

\* recordWorkflowActivation: the named skill is added to the copy, and no mode
\* file is written.
Prompt(x) ==
  /\ hook[x].at = "act" /\ hook[x].event = "UserPromptSubmit"
  /\ \/ UNCHANGED copy
     \/ \E s \in Skills : x \in Roots /\ copy' = [copy EXCEPT ![x] = @ \cup {s}]
  /\ Answer(x, "none")
  /\ UNCHANGED <<pointer, tracked, modes, runstate, sent, told, hooks, writes>>

\* recordPostToolUse: an agent tool names the thread it worked with.
PostToolUse(x) ==
  /\ hook[x].at = "act" /\ hook[x].event = "PostToolUse"
  /\ \/ UNCHANGED tracked
     \/ \E c \in Children : ParentOf[c] = x /\ tracked' = Tracked(x, c, "subagent")
  /\ Answer(x, "none")
  /\ UNCHANGED <<pointer, copy, modes, runstate, sent, told, hooks, writes>>

\* readActivePlanningMode and buildPlanningBoundaryOutput, for a tool that writes
\* code.  A child has no workflow in the session of its own.
Planning(x) == x \in Roots /\ "ralplan" \in copy[x] \cap modes[x] /\ "ultrawork" \notin copy[x]

PreToolUse(x) ==
  /\ hook[x].at = "act" /\ hook[x].event = "PreToolUse"
  /\ Answer(x, IF Planning(x) THEN "block" ELSE "allow")
  /\ UNCHANGED <<pointer, tracked, copy, modes, runstate, sent, told, hooks, writes>>

\* readAuthoritativeWorkflow: what runs in the session the pointer names now, if
\* it is still this one; a run-state that ended speaks for its own mode only.
EndedModeFault(x) == {m \in Skills : runstate[x] \in {<<n, FALSE>> : n \in Skills}}
EndedMode(x) == {m \in Skills : runstate[x] = <<m, FALSE>>}

Authoritative(x) ==
  /\ x \in Roots /\ pointer = x
  /\ \/ \E m \in Skills : runstate[x] = <<m, TRUE>>
     \/ modes[x] \ EndedMode(x) # {}

Stop(x) ==
  /\ hook[x].at = "act" /\ hook[x].event = "Stop"
  /\ Answer(x, IF Authoritative(x) THEN "block" ELSE "allow")
  /\ UNCHANGED <<pointer, tracked, copy, modes, runstate, sent, told, hooks, writes>>

\* `owx state write', run by the agent between hooks: a mode file changes, and
\* run-state.json with it unless it is left behind.
StateWrite(x, m) ==
  /\ x \in Workers /\ hook[x].at = "idle" /\ writes < MaxWrites
  /\ writes' = writes + 1
  /\ modes' = [modes EXCEPT ![x] = IF m \in @ THEN @ \ {m} ELSE @ \cup {m}]
  /\ \/ runstate' = [runstate EXCEPT ![x] = <<m, m \in modes'[x]>>]
     \/ UNCHANGED runstate
  /\ UNCHANGED <<pointer, tracked, copy, sent, told, hook, hooks>>

PluginInit ==
  /\ pointer = Nobody
  /\ tracked = [s \in Sessions |-> [leader |-> Nobody, kind |-> [t \in Sessions |-> "unknown"]]]
  /\ copy = [r \in Roots |-> {}] /\ modes = [r \in Roots |-> {}]
  /\ runstate = [r \in Roots |-> <<>>]
  /\ sent = {} /\ told = {}
  /\ hook = [s \in Sessions |-> Idle] /\ hooks = 0 /\ writes = 0

PluginNext ==
  \E x \in Sessions :
    \/ \E e \in Events : Begin(x, e)
    \/ AfterPlugins(x) \/ ReadSent(x) \/ Send(x) \/ Mark(x)
    \/ Started(x) \/ Prompt(x) \/ PostToolUse(x) \/ PreToolUse(x) \/ Stop(x)
    \/ \E m \in Skills : StateWrite(x, m)

PluginSpec == PluginInit /\ [][PluginNext]_pluginVars

-----------------------------------------------------------------------------
PluginTypeOK ==
  /\ pointer \in Sessions \cup {Nobody}
  /\ tracked \in [Sessions -> Trackers]
  /\ copy \in [Roots -> SUBSET Skills] /\ modes \in [Roots -> SUBSET Skills]
  /\ runstate \in [Roots -> {<<>>} \cup (Skills \X BOOLEAN)]
  /\ sent \subseteq told /\ told \subseteq Roots \X Notified
  /\ hooks \in 0..MaxHooks /\ writes \in 0..MaxWrites

(***************************************************************************)
(* A Stop lets a session end with a mode still at work only when its       *)
(* run-state says that this mode ended, or when a hook of another session, *)
(* perhaps of its own subagent, took session.json while this one waited    *)
(* for its plugins (codex-native-hook.mjs:943-983, :1087-1115).            *)
(***************************************************************************)
StopHonest ==
  \A x \in Roots :
    (/\ hook[x].at = "act" /\ hook[x].event = "Stop" /\ hook[x].alone
     /\ hook'[x].at = "idle" /\ hook'[x].answer = "allow")
    => \A m \in modes[x] : runstate[x] = <<m, FALSE>>
StopsHonest == [][StopHonest]_pluginVars

(***************************************************************************)
(* A mark in the file of sent events is lost only to a hook that ran       *)
(* beside another: otherwise an event is announced once (:893-935).        *)
(***************************************************************************)
MarkKept == sent \subseteq sent' \/ \E x \in Roots : hook[x].at = "mark" /\ ~hook[x].alone
MarksKept == [][MarkKept]_pluginVars
=============================================================================
