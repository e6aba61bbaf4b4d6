----------------------------- MODULE NativeHook -----------------------------
(***************************************************************************)
(* The native hook of one Codex session.  A prompt may switch workflow     *)
(* modes on and off (recordSkillActivation), the agent may write and start *)
(* modes and edit files (PreToolUse), and every attempt to end the turn    *)
(* goes through a cascade of checks (buildStopHookOutput) that decides     *)
(* from mode files, the session copy of skill-active, run-state.json and   *)
(* the signature of the last block.                                        *)
(***************************************************************************)
EXTENDS Naturals, Sequences, FiniteSets, SequencesExt

CONSTANTS
  Families,    \* which modes and other skills a session uses, with a goal or not
  MaxRequest,  \* modes named in one prompt
  MaxPrompts,
  MaxRepeats   \* ORDINARY_STOP_NO_PROGRESS_DEFAULT_MAX_REPEATS

ASSUME HookAssumption == MaxRequest \in Nat /\ MaxPrompts \in Nat /\ MaxRepeats \in Nat

VARIABLES
  modes,     \* the modes of this session
  others,    \* its skills that are not workflows
  file,      \* mode files of the session
  skill,     \* skill-active-state.json of the session
  run,       \* run-state.json: the mode whose terminal state it holds, or none
  turn,      \* is a turn under way?
  again,     \* stop_hook_active
  cache,     \* the last signature in native-stop-state.json
  guard,     \* the ordinary no-progress guard
  children,  \* subagents under way
  followup,  \* is a follow-up pending?
  goal,      \* does a goal workflow await its snapshot?
  diff,      \* what the audit finds in the diff: no ungrounded fallback code,
             \* some, or nothing because the session is outside git
  prompts,
  last,      \* was the last event of the leader a prompt that was refused, an
             \* edit or a Stop that went through? (history)
  calm       \* nothing but the turn's end is left to happen

vars == <<modes, others, file, skill, run, turn, again, cache, guard, children,
          followup, goal, diff, prompts, last, calm>>

(* A mode file: the phase it was seeded with, at work, in the ralplan phase *)
(* of autopilot, paused, with validator evidence, or ended; a ralph may be  *)
(* complete without its audit.                                              *)
On == {"initial", "running", "planning", "paused", "proved"}
Ended == {"complete", "unproved", "cancelled"}
Life == On \cup Ended \cup {"absent"}

Active == {m \in modes : file[m] \in On}
ActiveModes == [s \in {"session"} |-> Active]
Machine == INSTANCE WorkflowTransition
             WITH active <- ActiveModes, Scopes <- {"session"},
                  Modes <- UNION {f.modes : f \in Families}

Diffs == {"unaudited", "clean", "sloppy"}

(* A session uses tracked modes; its other skills are none of them.        *)
ASSUME FamiliesAssumption ==
  \A f \in Families :
    /\ f.modes \subseteq Machine!Tracked /\ f.goal \in BOOLEAN /\ f.diff \in Diffs
    /\ f.others \cap (Machine!Tracked \cup {"none", "cancel"}) = {}

NoSignature == [kind |-> "none", detail |-> "none", said |-> "none"]
NoSkill == [exists |-> FALSE, active |-> FALSE, primary |-> "none", entries |-> {},
            lock |-> FALSE, child |-> "none"]

Init ==
  /\ \E f \in Families :
       modes = f.modes /\ others = f.others /\ goal = f.goal /\ diff = f.diff
  /\ file = [m \in Machine!Tracked |-> "absent"]
  /\ skill = NoSkill /\ run = "none"
  /\ turn = FALSE /\ again = FALSE
  /\ cache = NoSignature /\ guard = [said |-> "none", count |-> 0]
  /\ children = 0 /\ followup = FALSE
  /\ prompts = 0
  /\ last = "none" /\ calm = FALSE
-----------------------------------------------------------------------------
(* Prompts                                                                 *)
Opens ==
  /\ ~turn /\ ~calm /\ prompts < MaxPrompts
  /\ turn' = TRUE /\ again' = FALSE /\ prompts' = prompts + 1
  (* only an autopilot signature leaves out the turn *)
  /\ cache' = IF cache.kind = "autopilot" THEN cache ELSE NoSignature
  /\ UNCHANGED <<modes, others, guard, children, followup, goal, diff, calm>>

PromptPlain == Opens /\ last' = "none" /\ UNCHANGED <<file, skill, run>>

(* Planning goes first; the execution asked for with it is deferred.       *)
Resolved(request) ==
  LET planning == {i \in DOMAIN request : request[i] \in Machine!PlanningLike} IN
  IF planning # {} /\ \E i \in DOMAIN request : request[i] \in Machine!ExecutionLike
  THEN <<request[CHOOSE i \in planning : \A j \in planning : i <= j]>>
  ELSE request

Complete(files, from) ==
  [m \in DOMAIN files |-> IF m \in from /\ files[m] \in On THEN "complete" ELSE files[m]]

(* Fault: the sources are not completed.                                   *)
RequestedFault(evidence, state, mode) ==
  IF ~state.ok \/ ~Machine!Allowed(state.entries, mode) THEN [state EXCEPT !.ok = FALSE]
  ELSE [state EXCEPT !.entries = @ \cup {mode}]

(* One requested mode: the transition, with its sources completed on disk; *)
(* an interview lets planning begin only with evidence in its active file. *)
Requested(evidence, state, mode) ==
  LET from == Machine!Sources(state.entries, mode)
      proved == evidence /\ \A c \in from : state.files[c] \in On IN
  IF ~state.ok \/ ~Machine!Allowed(state.entries, mode)
       \/ (~proved /\ from \X {mode} \cap Machine!EvidenceGated # {})
  THEN [state EXCEPT !.ok = FALSE]
  ELSE [state EXCEPT !.entries = (@ \ from) \cup {mode}, !.files = Complete(@, from)]

Transition(request, evidence) ==
  LET requested == Resolved(request)
      after[n \in 0..Len(requested)] ==
        IF n = 0 THEN [entries |-> skill.entries, files |-> file, ok |-> TRUE]
        ELSE Requested(evidence, after[n - 1], requested[n]) IN
  after[Len(requested)]

(* persistStatefulSkillSeedState (fault: a file that has ended goes on):    *)
(* the file of the previous primary skill   *)
(* goes on if it has not ended, every other one starts anew.               *)
SeededFault(files, entries) ==
  [m \in DOMAIN files |->
     IF m \notin entries THEN files[m]
     ELSE IF skill.active /\ skill.primary = m /\ files[m] # "absent" THEN files[m]
     ELSE "initial"]

Seeded(files, entries) ==
  [m \in DOMAIN files |->
     IF m \notin entries THEN files[m]
     ELSE IF skill.active /\ skill.primary = m /\ files[m] \in On THEN files[m]
     ELSE "initial"]

(* persistDeepInterviewModeState: an interview that is not the primary     *)
(* skill any more is completed.                                            *)
InterviewKept(files, primary) ==
  IF primary = "deep-interview" THEN files
  ELSE [files EXCEPT !["deep-interview"] =
          IF @ \in On \/ (skill.active /\ skill.primary = "deep-interview" /\ @ # "complete")
          THEN "complete" ELSE @]

Supervised == {"ralplan", "ultragoal", "ultraqa", "deep-interview"}
Child(m) == skill.active /\ skill.primary = "autopilot" /\ m \in Supervised \cup {"code-review"}

(* The skill of the prompt or, if it is deferred or completed, the first of *)
(* the entries, which begin with those that were there                     *)
Primaries(request, entries) ==
  LET kept == skill.entries \cap entries IN
  IF request[1] \in entries THEN {request[1]} ELSE IF kept # {} THEN kept ELSE entries

(* Workflow keywords.  A prompt that goes on with the active skill names   *)
(* no mode: it stands for the primary one.                                 *)
PromptWorkflow(request, evidence) ==
  LET next == Transition(request, evidence) IN
  /\ Opens /\ ~Child(request[1])
  /\ UNCHANGED run
  /\ IF next.ok
     THEN \E primary \in Primaries(request, next.entries) :
          /\ last' = "none"
          /\ file' = InterviewKept(Seeded(next.files, next.entries), primary)
          /\ skill' = [exists |-> TRUE, active |-> TRUE, primary |-> primary,
                       entries |-> next.entries, child |-> "none",
                       lock |-> "deep-interview" \in {request[1]} \cup ToSet(Resolved(request))]
     ELSE /\ last' = "refused"
          /\ file' = next.files
          /\ skill' = IF skill.entries \subseteq next.entries THEN skill
                      ELSE [skill EXCEPT !.entries = @ \cap next.entries,
                                         !.active = @ /\ skill.entries \cap next.entries # {}]

(* Under autopilot a child is noted in the copy and not started.           *)
PromptChild(m) ==
  LET open == Active \cap Supervised
      allowed == m = "code-review" \/ Machine!Allowed(open, m) IN
  /\ Opens /\ Child(m)
  /\ last' = "none" /\ UNCHANGED run
  /\ file' = IF allowed /\ m \in Supervised THEN Complete(file, Machine!Sources(open, m)) ELSE file
  /\ skill' = IF allowed THEN [skill EXCEPT !.child = m] ELSE skill

(* Any other skill takes the copy over.                                    *)
PromptOther(name) ==
  /\ Opens /\ ~Child(name)
  /\ skill' = [NoSkill EXCEPT !.exists = TRUE, !.active = TRUE, !.primary = name]
  /\ file' = InterviewKept(file, name)
  /\ last' = "none" /\ UNCHANGED run

(* Faults: the files are left as they are; the run state is not written.   *)
PromptCancelFault ==
  /\ Opens /\ skill.active
  /\ last' = "none" /\ UNCHANGED <<file, run>>
  /\ skill' = [skill EXCEPT !.active = FALSE, !.entries = {}]

PromptCancel ==
  /\ Opens /\ last' = "none"
  /\ IF skill.primary = "deep-interview" /\ skill.lock
     THEN /\ file' = InterviewKept(file, "none")
          /\ skill' = [skill EXCEPT !.active = FALSE, !.entries = {}, !.lock = FALSE]
          /\ UNCHANGED run
     ELSE IF skill.active
     THEN /\ file' = [m \in DOMAIN file |-> IF m \in skill.entries THEN "cancelled" ELSE file[m]]
          /\ \E m \in IF skill.entries = {} THEN {run} ELSE skill.entries : run' = m
          /\ skill' = [skill EXCEPT !.active = FALSE, !.entries = {}]
     ELSE /\ skill' = [NoSkill EXCEPT !.exists = TRUE, !.active = TRUE, !.primary = "cancel"]
          /\ UNCHANGED <<file, run>>

Requests == UNION {[1..n -> modes] : n \in 1..MaxRequest}

Prompt ==
  \/ PromptPlain
  \/ PromptCancel
  \/ \E request \in Requests, evidence \in BOOLEAN : PromptWorkflow(request, evidence)
  \/ \E m \in modes \cup others : PromptChild(m)
  \/ \E name \in others : PromptOther(name)
  \/ /\ skill.active /\ skill.primary \in modes  \* "continue"
     /\ PromptWorkflow(<<skill.primary>>, FALSE)
-----------------------------------------------------------------------------
(* The planning boundary of PreToolUse                                     *)
Cancelled(m) == run = m

(* The work of an autopilot went to ultragoal; nothing takes the note back  *)
(* when the autopilot ends.                                                *)
HandedOver == skill.active /\ skill.child = "ultragoal"

Handoff ==
  skill.entries \cap (Machine!ExecutionLike \ {"autopilot"}) # {} \/ HandedOver

InterviewGuard == "deep-interview" \in Active /\ "deep-interview" \in skill.entries

(* Fault: a paused plan lets the agent begin.                              *)
RalplanGuardFault ==
  /\ ~Handoff
  /\ "ralplan" \in Active /\ "ralplan" \in skill.entries /\ file["ralplan"] # "paused"

RalplanGuard ==
  /\ ~Handoff
  /\ \/ "ralplan" \in Active /\ "ralplan" \in skill.entries
     \/ file["autopilot"] = "planning" /\ "autopilot" \in skill.entries /\ ~Cancelled("autopilot")

Guarded == InterviewGuard \/ RalplanGuard

Works(entries, m) ==
  skill' = [skill EXCEPT !.exists = TRUE, !.active = entries # {}, !.entries = entries,
                         !.primary = IF @ \in entries THEN @ ELSE m]

Audited == IF diff = "unaudited" THEN {diff} ELSE {"clean", "sloppy"}

Agent ==
  turn /\ ~calm /\ UNCHANGED <<modes, others, run, turn, cache, guard, again, prompts, calm>>

Acts == Agent /\ last' = "none" /\ UNCHANGED diff

(* An edit to the product by the leader                                    *)
EditProduct ==
  /\ Agent /\ ~Guarded /\ last' = "edited"
  /\ diff' \in Audited
  /\ UNCHANGED <<file, skill, children, followup, goal>>

Lives(m) ==
  {"running", "complete"}
    \cup CASE m = "ralplan" -> {"paused"}
           [] m = "autopilot" -> {"planning"}
           [] m = "ralph" -> {"unproved"}
           [] m = "autoresearch" -> {"proved"}
           [] OTHER -> {}

(* Fault: planning may end itself.                                         *)
WriteStateFault(m, life) ==
  /\ Acts
  /\ m \in Active /\ life \in Lives(m)
  /\ life \in On => Machine!Allowed(skill.entries, m)
  /\ file' = [file EXCEPT ![m] = life]
  /\ Works((skill.entries \ {m}) \cup (IF life \in On THEN {m} ELSE {}), m)
  /\ UNCHANGED <<children, followup, goal>>

(* owx state write, which planning lets through as long as the mode stays  *)
(* on; an autopilot is not complete before its later phases.               *)
WriteState(m, life) ==
  /\ Acts
  /\ m \in Active /\ life \in Lives(m)
  /\ life \in On \/ ~Guarded
  /\ (m = "autopilot" /\ file[m] \in {"initial", "planning"}) => life # "complete"
  /\ life \in On => Machine!Allowed(skill.entries, m)
  /\ file' = [file EXCEPT ![m] = life]
  /\ Works((skill.entries \ {m}) \cup (IF life \in On THEN {m} ELSE {}), m)
  /\ UNCHANGED <<children, followup, goal>>

StartMode(m) ==
  LET from == Machine!Sources(skill.entries, m) IN
  /\ Acts
  /\ m \in modes \ Active /\ Machine!Allowed(skill.entries, m)
  /\ file' = [Complete(file, from) EXCEPT ![m] = "running"]
  /\ Works((skill.entries \ from) \cup {m}, m)
  /\ UNCHANGED <<children, followup, goal>>

Spawn ==
  /\ Acts /\ children = 0 /\ children' = 1
  /\ UNCHANGED <<file, skill, followup, goal>>

Reconcile ==
  /\ Acts /\ goal /\ goal' = FALSE
  /\ UNCHANGED <<file, skill, children, followup>>

Inject ==
  /\ turn /\ ~calm /\ ~followup /\ followup' = TRUE
  /\ UNCHANGED <<modes, others, file, skill, run, turn, cache, guard, again, children, goal, diff,
                 prompts, last, calm>>

(* A commit, the user or a subagent changes what the diff shows.           *)
DiffChanges ==
  /\ ~calm /\ diff' \in Audited \ {diff}
  /\ UNCHANGED <<modes, others, file, skill, run, turn, cache, guard, again, children, followup,
                 goal, prompts, last, calm>>
-----------------------------------------------------------------------------
(* The Stop cascade: the first check that holds decides.                   *)
Check(kind, holds, detail, repeats) ==
  [kind |-> kind, holds |-> holds, detail |-> detail, repeats |-> repeats]

Waits(m) == m \in Active /\ ~Cancelled(m)

RalplanWaits ==
  /\ Waits("ralplan")
  /\ skill.exists => "ralplan" \in skill.entries
  /\ children > 0 \/ file["ralplan"] # "paused"

(* Fault: autopilot is asked before ralph and may hide it.                 *)
CascadeFault(leader, said) ==
  << Check("autopilot", Waits("autopilot"), file["autopilot"], FALSE),
     Check("ultrawork", Waits("ultrawork"), file["ultrawork"], FALSE),
     Check("ralph", leader /\ Waits("ralph"), file["ralph"], TRUE),
     Check("autoresearch", "autoresearch" \in Active /\ file["autoresearch"] # "proved",
           file["autoresearch"], TRUE),
     Check("ultraqa", Waits("ultraqa"), file["ultraqa"], TRUE),
     Check("ralplan", RalplanWaits, file["ralplan"], TRUE),
     Check("goal", goal /\ said = "done", "goal", TRUE) >>

Cascade(leader, said) ==
  << Check("audit", leader /\ file["ralph"] = "unproved", "unproved", TRUE),
     Check("ralph", /\ leader /\ Waits("ralph")
                    /\ file["ralph"] = "initial" => "ralph" \in skill.entries,
           file["ralph"], TRUE),
     Check("autoresearch", "autoresearch" \in Active /\ file["autoresearch"] # "proved",
           file["autoresearch"], TRUE),
     Check("autopilot", Waits("autopilot"), file["autopilot"], FALSE),
     Check("ultrawork", Waits("ultrawork"), file["ultrawork"], FALSE),
     Check("ultraqa", Waits("ultraqa"), file["ultraqa"], TRUE),
     Check("ralplan", RalplanWaits, file["ralplan"], TRUE),
     Check("goal", goal /\ said = "done", "goal", TRUE) >>

First(checks) ==
  LET held == {i \in DOMAIN checks : checks[i].holds} IN
  IF held = {} THEN Check("ordinary", FALSE, "none", TRUE)
  ELSE checks[CHOOSE i \in held : \A j \in held : i <= j]

(* Fault: the last message is part of every signature.                     *)
SignatureFault(who, check, said) ==
  [kind |-> check.kind, detail |-> <<who, check.detail>>, said |-> said]

Signature(who, check, said) ==
  [kind |-> check.kind, detail |-> <<who, check.detail>>,
   said |-> IF check.kind = "autopilot" THEN "any" ELSE said]

(* clearTerminalRalplanStopCache                                           *)
Forgets == file["ralplan"] \in Ended
Cache == IF Forgets THEN NoSignature ELSE cache
Guard == IF Forgets THEN [said |-> "none", count |-> 0] ELSE guard

Suppressed(check, signature) == again /\ ~check.repeats /\ Cache = signature

PassedFault(how) == turn' = FALSE /\ UNCHANGED again /\ last' = how
Blocked == turn' = TRUE /\ again' = TRUE /\ last' = "none"
Passed(how) == turn' = FALSE /\ again' = FALSE /\ last' = how

StopUnchanged == UNCHANGED <<modes, others, file, skill, run, children, goal, diff, prompts, calm>>

(* A reason that is exempt, or a side conversation                         *)
StopExempt ==
  /\ turn /\ ~calm /\ Passed("none")
  /\ cache' \in {cache, Cache} /\ guard' \in {guard, Guard}
  /\ UNCHANGED followup /\ StopUnchanged

StopFollowup ==
  /\ turn /\ followup /\ followup' = FALSE
  /\ Blocked
  /\ cache' = Cache /\ guard' = Guard
  /\ StopUnchanged

(* The ordinary guard counts equal last messages and blocks when there are *)
(* many over a long time.                                                  *)
Count(said) == IF Guard.said = said THEN Guard.count + 1 ELSE 1
Counted(said) ==
  [said |-> said, count |-> IF Count(said) > MaxRepeats THEN MaxRepeats ELSE Count(said)]
Nags(said, long) == long /\ Count(said) >= MaxRepeats

(* After it comes the audit of the diff, which blocks again and again.     *)
Sloppy == Check("sloppy", diff = "sloppy", "diff", TRUE)

StopOrdinary(said, long) ==
  /\ turn /\ ~followup /\ First(Cascade(TRUE, said)).kind = "ordinary"
  /\ guard' = Counted(said)
  /\ IF Nags(said, long) THEN Blocked /\ cache' = Cache
     ELSE IF Sloppy.holds THEN Blocked /\ cache' = Signature("leader", Sloppy, said)
     ELSE Passed("passed") /\ cache' = Cache
  /\ UNCHANGED followup /\ StopUnchanged

StopChecked(said) ==
  LET check == First(Cascade(TRUE, said))
      signature == Signature("leader", check, said) IN
  /\ turn /\ ~followup /\ check.kind # "ordinary"
  /\ guard' = Guard
  /\ IF Suppressed(check, signature) THEN Passed("passed") /\ cache' = Cache
     ELSE Blocked /\ cache' = signature
  /\ UNCHANGED followup /\ StopUnchanged

Stop == StopFollowup \/ \E said \in {"done", "status"} :
          StopChecked(said) \/ \E long \in BOOLEAN : StopOrdinary(said, long)

(* The Stop of a subagent skips ralph, and writes the same signature and   *)
(* the same guard.                                                         *)
SubagentStop(said, repeated, long) ==
  LET check == First(Cascade(FALSE, said))
      signature == Signature("subagent", check, said)
      ordinary == check.kind = "ordinary" IN
  /\ turn /\ ~calm /\ children = 1
  /\ IF followup THEN followup' = FALSE /\ cache' = Cache /\ UNCHANGED children
     ELSE /\ UNCHANGED followup
          /\ \/ /\ IF ordinary THEN ~Nags(said, long) /\ ~Sloppy.holds
                   ELSE repeated /\ ~check.repeats /\ Cache = signature
                /\ children' = 0 /\ cache' = Cache
             \/ /\ ordinary /\ Nags(said, long)
                /\ cache' = Cache /\ UNCHANGED children
             \/ /\ ordinary /\ ~Nags(said, long) /\ Sloppy.holds
                /\ cache' = Signature("subagent", Sloppy, said) /\ UNCHANGED children
             \/ /\ ~ordinary /\ ~(repeated /\ ~check.repeats /\ Cache = signature)
                /\ cache' = signature /\ UNCHANGED children
  /\ guard' = IF ~followup /\ ordinary THEN Counted(said) ELSE Guard
  /\ UNCHANGED <<modes, others, file, skill, run, turn, again, goal, diff, prompts, last, calm>>

(* A subagent may end without its Stop.                                    *)
SubagentEnds ==
  /\ ~calm /\ children = 1 /\ children' = 0
  /\ UNCHANGED <<modes, others, file, skill, run, turn, again, cache, guard, followup, goal,
                 diff, prompts, last, calm>>

(* From now on the session only tries to end its turn.                     *)
Calms ==
  /\ turn /\ ~calm /\ calm' = TRUE
  /\ UNCHANGED <<modes, others, file, skill, run, turn, again, cache, guard, children,
                 followup, goal, diff, prompts, last>>

Next ==
  \/ Prompt
  \/ EditProduct \/ Spawn \/ Reconcile \/ Inject \/ DiffChanges
  \/ \E m \in modes : StartMode(m) \/ \E life \in Life : WriteState(m, life)
  \/ Stop \/ StopExempt \/ Calms \/ SubagentEnds
  \/ \E said \in {"done", "status"}, repeated, long \in BOOLEAN : SubagentStop(said, repeated, long)

Spec == Init /\ [][Next]_vars /\ WF_vars(calm /\ Stop)
-----------------------------------------------------------------------------
Signatures ==
  [kind : {"none", "audit", "ralph", "autoresearch", "autopilot", "ultrawork", "ultraqa",
           "ralplan", "goal", "sloppy"},
   detail : {"none"} \cup ({"leader", "subagent"} \X (Life \cup {"goal", "diff"})),
   said : {"none", "any", "done", "status"}]

(* The files, the copy and the caches hold what their readers expect, and  *)
(* no Stop is a repeat once the turn is over.                               *)
TypeOK ==
  /\ modes \subseteq Machine!Tracked
  /\ file \in [Machine!Tracked -> Life]
  /\ skill \in [exists : BOOLEAN, active : BOOLEAN, primary : modes \cup others \cup {"none", "cancel"},
                entries : SUBSET modes, lock : BOOLEAN,
                child : modes \cup others \cup {"none"}]
  /\ run \in modes \cup {"none"}
  /\ turn \in BOOLEAN /\ again \in BOOLEAN /\ followup \in BOOLEAN /\ goal \in BOOLEAN
  /\ diff \in Diffs
  /\ calm \in BOOLEAN /\ children \in 0..1 /\ prompts \in 0..MaxPrompts
  /\ guard \in [said : {"none", "done", "status"}, count : 0..MaxRepeats]
  /\ cache \in Signatures
  /\ last \in {"none", "refused", "edited", "passed"}
  /\ again => turn

(* Only what replaces the copy as a whole makes it forget a mode.          *)
Remembers == others = {} /\ ~({"deep-interview", "ultrawork"} \subseteq modes)

(* Prompts, agent writes and cancellations together never leave two modes   *)
(* at work that may not overlap.                                           *)
OneAtATime == Remembers => Machine!OneAtATime

(* The copy of skill-active, by which the hook decides what is planning and *)
(* what a Stop must hold, lists exactly the modes whose files are at work. *)
CopyAgrees == Remembers /\ skill.exists => skill.entries = Active

(* A Stop passes over a mode at work only where the code means it to: the  *)
(* mode has no check, waits or has its evidence, was cancelled, or it or a *)
(* mode that is asked before it blocked a Stop before with this signature. *)
LetsGo(m) ==
  \/ m \in {"deep-interview", "ultragoal"} \/ Cancelled(m)
  \/ m = "autoresearch" /\ file[m] = "proved"
  \/ m = "ralplan" /\ file[m] = "paused" /\ children = 0
  \/ m \in {"autopilot", "ultrawork"} /\ cache.kind = m
  \/ "autopilot" \in Active /\ cache.kind = "autopilot" /\ m = "ultrawork"
  \/ "ultrawork" \in Active /\ cache.kind = "ultrawork" /\ m \in {"ultraqa", "ralplan"}

(* A Stop of the leader goes through only when no ralph lacks its audit and *)
(* every mode at work has a reason to let it go.                           *)
HeldWhileActive ==
  last = "passed" /\ Remembers => file["ralph"] # "unproved" /\ \A m \in Active : LetsGo(m)

(* The leader edits the product only when no interview is at work and no    *)
(* plan that is not handed over, ultrawork beside it excepted.             *)
NoCodeWhilePlanning ==
  last = "edited" /\ Remembers
    => \/ "ultrawork" \in Active
       \/ "deep-interview" \notin Active /\ ("ralplan" \in Active => HandedOver)

(* Planning that nothing is executed beside does not end itself: it ends by *)
(* a prompt of the user, with the start of another mode or handed over.    *)
PlanningEndsByHandoff ==
  [][\A m \in {"deep-interview", "ralplan"} :
       m \in Active \ Active' /\ Remembers
         => \/ ~turn \/ Active' \ Active # {} \/ Active \cap Machine!ExecutionLike # {}
            \/ m = "ralplan" /\ HandedOver]_vars

(* What blocks Stop after Stop by intent, the audit of a diff that keeps   *)
(* its findings included; a terminal ralplan file beside an autopilot does *)
(* too, because clearing the cache also clears the memory of autopilot's   *)
(* own block.                                                              *)
Persistent ==
  \/ goal \/ diff = "sloppy" \/ file["ralph"] = "unproved"
  \/ \E m \in Active : m \notin {"autopilot", "deep-interview", "ultragoal"}
  \/ "autopilot" \in Active /\ file["ralplan"] \in Ended
  \/ guard.count = MaxRepeats

(* A session that only tries to end its turn ends it, unless it has         *)
(* something that persists.                                                *)
StopsEnd == calm ~> ~turn \/ Persistent

(* A request that is denied leaves the current state unchanged              *)
(* (buildWorkflowTransitionError says so).                                 *)
RefusedUnchanged ==
  [][last' = "refused" /\ turn' # turn => UNCHANGED <<file, skill>>]_vars
=============================================================================
