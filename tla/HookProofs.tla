------------------------------ MODULE HookProofs ------------------------------
(***************************************************************************)
(* What NativeHook keeps for every set of modes a session may use, any     *)
(* number of prompts and any number of modes named in one of them.  The    *)
(* invariant is that the copy of skill-active, by which the hook decides,  *)
(* lists the modes at work, and that no two of them exclude each other;    *)
(* from it follow what a Stop lets go and what an edit may meet.           *)
(***************************************************************************)
EXTENDS NativeHook, FiniteSetTheorems, WellFoundedInduction, TLAPS

(* The least of a set of numbers, and induction, which rests on it         *)
LEMMA LeastNumber ==
  ASSUME NEW T, T \subseteq Nat, T # {}
  PROVE  \E x \in T : \A y \in T : x <= y
<1> DEFINE D == {1 .. n : n \in T}
<1>1. IsWellFoundedOn(StrictSubsetOrdering(Nat), FiniteSubsetsOf(Nat))
  BY FS_StrictSubsetOrderingWellFounded
<1>2. D \subseteq FiniteSubsetsOf(Nat) /\ D # {}
  <2>1. \A n \in T : IsFiniteSet(1 .. n)
    BY FS_Interval
  <2>2. \A n \in T : 1 .. n \in SUBSET Nat
    OBVIOUS
  <2> QED BY <2>1, <2>2 DEF FiniteSubsetsOf
<1>3. \E d \in D : \A e \in D : <<e, d>> \notin StrictSubsetOrdering(Nat)
  BY <1>1, <1>2, WFMin, Zenon
<1>4. PICK x \in T : \A y \in T : <<1 .. y, 1 .. x>> \notin StrictSubsetOrdering(Nat)
  BY <1>3
<1> HIDE DEF D
<1>5. \A y \in T : y < x => <<1 .. y, 1 .. x>> \in StrictSubsetOrdering(Nat)
  BY DEF StrictSubsetOrdering
<1>6. \A y \in T : ~(y < x)
  BY <1>4, <1>5
<1> QED BY <1>6

LEMMA NumberInduction ==
  ASSUME NEW S, 0 \in S, \A n \in Nat : n \in S => n + 1 \in S
  PROVE  Nat \subseteq S
<1> SUFFICES ASSUME Nat \ S # {} PROVE FALSE
  OBVIOUS
<1>1. PICK x \in Nat \ S : \A y \in Nat \ S : x <= y
  BY LeastNumber
<1>2. x # 0 /\ x - 1 \in Nat /\ x - 1 \notin Nat \ S
  BY <1>1
<1> QED BY <1>1, <1>2
-----------------------------------------------------------------------------
(* The table of transitions                                                *)
Apart(set) == \A a, b \in set : a = b \/ Machine!Overlaps(a, b)

(* What one allowed request does to modes that may all be at work together: *)
(* they stay so, and what it completes is one of three.                    *)
LEMMA RequestKeeps ==
  ASSUME NEW current \in SUBSET Machine!Tracked, NEW mode \in Machine!Tracked,
         Apart(current), Machine!Allowed(current, mode)
  PROVE  /\ Machine!Sources(current, mode) \subseteq current \ {mode}
         /\ Apart((current \ Machine!Sources(current, mode)) \cup {mode})
         /\ \A c \in Machine!Sources(current, mode) :
              \/ c \in Machine!PlanningLike /\ mode \in Machine!ExecutionLike
              \/ c = "deep-interview" /\ mode = "ralplan"
              \/ c = "ultragoal" /\ mode = "ultraqa"
<1> DEFINE kind == Machine!Kind(current, mode)
           done == Machine!Completed(current, mode)
<1>1. done \subseteq current /\ \A c \in done :
              \/ c \in Machine!PlanningLike /\ mode \in Machine!ExecutionLike
              \/ c = "deep-interview" /\ mode = "ralplan"
              \/ c = "ultragoal" /\ mode = "ultraqa"
  BY DEF Machine!Completed, Machine!AutoComplete, Machine!EvidenceGated, Machine!PlanningLike,
         Machine!ExecutionLike, Machine!Tracked
<1>2. kind \in {"allow", "auto-complete", "overlap"}
  BY DEF Machine!Allowed, Machine!Kind
<1>3. CASE kind = "allow"
  <2>1. mode \in current \/ current = {}
    BY <1>3 DEF Machine!Kind
  <2>2. Machine!Sources(current, mode) = {}
    BY <1>3 DEF Machine!Sources
  <2> QED BY <2>1, <2>2 DEF Apart
<1>4. CASE kind = "auto-complete"
  <2>1. mode \notin current /\ \A c \in current \ done : Machine!Overlaps(c, mode)
    BY <1>4 DEF Machine!Kind
  <2>2. Machine!Sources(current, mode) = done
    BY <1>4 DEF Machine!Sources
  <2> QED BY <1>1, <2>1, <2>2 DEF Apart, Machine!Overlaps
<1>5. CASE kind = "overlap"
  <2>1. \A c \in current : Machine!Overlaps(c, mode)
    BY <1>5 DEF Machine!Kind
  <2>2. Machine!Sources(current, mode) = {}
    BY <1>5 DEF Machine!Sources
  <2> QED BY <2>1, <2>2 DEF Apart, Machine!Overlaps
<1> QED BY <1>2, <1>3, <1>4, <1>5

-----------------------------------------------------------------------------
(* The modes a prompt names, one after the other                           *)

Start == [entries |-> skill.entries, files |-> file, ok |-> TRUE]

(* after[n] is where the first n of the requested modes have led to.       *)
Runs(after, count, requested, evidence) ==
  after = [n \in 0 .. count |->
             IF n = 0 THEN Start ELSE Requested(evidence, after[n - 1], requested[n])]

LEMMA TransitionRuns ==
  ASSUME NEW request, NEW evidence, NEW requested, requested = Resolved(request),
         Len(requested) \in Nat
  PROVE  \E after : /\ Runs(after, Len(requested), requested, evidence)
                    /\ Transition(request, evidence) = after[Len(requested)]
<1> DEFINE S == {k \in Nat : \E f : Runs(f, k, requested, evidence)}
<1>1. 0 \in S
  <2> DEFINE f == [n \in 0 .. 0 |-> Start]
  <2>1. f = [n \in 0 .. 0 |-> IF n = 0 THEN Start
                               ELSE Requested(evidence, f[n - 1], requested[n])]
    OBVIOUS
  <2> QED BY <2>1 DEF Runs
<1>2. ASSUME NEW k \in Nat, k \in S PROVE k + 1 \in S
  <2>1. PICK f : Runs(f, k, requested, evidence)
    BY <1>2
  <2> DEFINE Value(h, n) == IF n = 0 THEN Start ELSE Requested(evidence, h[n - 1], requested[n])
             g == [n \in 0 .. k + 1 |-> IF n = k + 1 THEN Value(f, n) ELSE f[n]]
  <2>2. \A n \in 0 .. k : f[n] = Value(f, n)
    BY <2>1 DEF Runs
  <2>3. \A n \in 0 .. k : g[n] = f[n]
    OBVIOUS
  <2>4. \A n \in 0 .. k + 1 : n = 0 \/ n - 1 \in 0 .. k
    OBVIOUS
  <2>5. \A n \in 0 .. k + 1 : Value(g, n) = Value(f, n)
    BY <2>3, <2>4
  <2>6. \A n \in 0 .. k + 1 : g[n] = Value(g, n)
    <3> SUFFICES ASSUME NEW n \in 0 .. k + 1 PROVE g[n] = Value(f, n)
      BY <2>5
    <3>1. n = k + 1 \/ n \in 0 .. k
      OBVIOUS
    <3> HIDE DEF Value
    <3> QED BY <2>2, <3>1
  <2> HIDE DEF Value
  <2>7. g = [n \in 0 .. k + 1 |-> Value(g, n)]
    BY <2>6
  <2>8. Runs(g, k + 1, requested, evidence)
    BY <2>7 DEF Runs, Value
  <2> QED BY <2>8
<1>3. Nat \subseteq S
  <2> HIDE DEF S
  <2> QED BY <1>1, <1>2, NumberInduction
<1>4. \E f : Runs(f, Len(requested), requested, evidence)
  BY <1>3
<1> DEFINE chosen == CHOOSE f : Runs(f, Len(requested), requested, evidence)
<1>5. Runs(chosen, Len(requested), requested, evidence)
  BY <1>4
<1>6. Transition(request, evidence) = chosen[Len(requested)]
  BY DEF Transition, Runs, Start
<1> QED BY <1>5, <1>6


(* The copy lists the modes at work, which may all be at work together;    *)
(* its primary skill may stand beside each of them.                        *)
Faithful(copy, files, used) ==
  /\ copy.entries = {m \in used : files[m] \in On}
  /\ ~copy.active => copy.entries = {}
  /\ Apart(copy.entries)
  /\ copy.primary \in used => \A c \in copy.entries : c = copy.primary \/ Machine!Overlaps(c, copy.primary)

States == [entries : SUBSET modes, files : [Machine!Tracked -> Life], ok : BOOLEAN]

OnlyPlanning(requested) == \A i \in DOMAIN requested : requested[i] \in Machine!PlanningLike
OnlyExecution(requested) == \A i \in DOMAIN requested : requested[i] \in Machine!ExecutionLike

(* Why a mode that the prompt completed is not asked for or not let in     *)
(* again by the modes that follow.                                         *)
Gone(c, entries, requested) ==
  \/ c = "ultragoal" /\ "ultraqa" \in entries
  \/ c = "deep-interview" /\ "ralplan" \in entries /\ OnlyPlanning(requested)
  \/ c \in Machine!PlanningLike /\ OnlyExecution(requested)

Reached(state, requested) ==
  /\ Apart(state.entries)
  /\ {m \in modes : state.files[m] \in On} = skill.entries \cap state.entries
  /\ \A c \in skill.entries \ state.entries : Gone(c, state.entries, requested)

LEMMA GoneStays ==
  ASSUME TypeOK, NEW entries \in SUBSET modes, Apart(entries), NEW requested \in Seq(modes),
         NEW c \in Machine!Tracked, Gone(c, entries, requested), c \notin entries,
         NEW i \in DOMAIN requested, Machine!Allowed(entries, requested[i])
  PROVE  /\ requested[i] # c
         /\ Gone(c, (entries \ Machine!Sources(entries, requested[i])) \cup {requested[i]}, requested)
<1> DEFINE mode == requested[i]
           from == Machine!Sources(entries, mode)
<1>1. mode \in Machine!Tracked /\ entries \in SUBSET Machine!Tracked
  BY DEF TypeOK
<1>2. \A d \in from : \/ d \in Machine!PlanningLike /\ mode \in Machine!ExecutionLike
                      \/ d = "deep-interview" /\ mode = "ralplan"
                      \/ d = "ultragoal" /\ mode = "ultraqa"
  BY <1>1, RequestKeeps
<1>3. ASSUME mode = c PROVE FALSE
  <2>1. mode \notin entries /\ entries # {} => Machine!Kind(entries, mode) \in {"auto-complete", "overlap"}
    BY DEF Machine!Allowed, Machine!Kind
  <2>2. ASSUME mode \notin entries, entries # {}, NEW d \in entries,
               <<d, mode>> \notin Machine!AutoComplete \cup Machine!EvidenceGated
        PROVE  Machine!Overlaps(d, mode)
    BY <2>1, <2>2 DEF Machine!Kind, Machine!Completed
  <2>3. c # "ultragoal" \/ "ultraqa" \notin entries
    BY <1>3, <2>2 DEF Machine!AutoComplete, Machine!EvidenceGated, Machine!Overlaps
  <2>4. c # "deep-interview" \/ "ralplan" \notin entries
    BY <1>3, <2>2 DEF Machine!AutoComplete, Machine!EvidenceGated, Machine!Overlaps
  <2> QED BY <1>3, <2>3, <2>4 DEF Gone, OnlyExecution, Machine!PlanningLike, Machine!ExecutionLike
<1>4. "ultraqa" \notin from
  BY <1>2 DEF Machine!PlanningLike
<1>5. OnlyPlanning(requested) => "ralplan" \notin from
  BY <1>2 DEF OnlyPlanning, Machine!PlanningLike, Machine!ExecutionLike
<1> QED BY <1>3, <1>4, <1>5 DEF Gone

LEMMA RequestedTyped ==
  ASSUME TypeOK, NEW state \in States, NEW mode \in modes, NEW evidence \in BOOLEAN
  PROVE  /\ Requested(evidence, state, mode) \in States
         /\ Requested(evidence, state, mode).ok => mode \in Requested(evidence, state, mode).entries
<1> DEFINE from == Machine!Sources(state.entries, mode)
<1>1. Complete(state.files, from) \in [Machine!Tracked -> Life]
  BY DEF States, Complete, Life, Ended
<1>2. (state.entries \ from) \cup {mode} \in SUBSET modes
  BY DEF States
<1> HIDE DEF from
<1>3. Requested(evidence, state, mode) \in
        {[state EXCEPT !.ok = FALSE],
         [state EXCEPT !.entries = (@ \ from) \cup {mode}, !.files = Complete(@, from)]}
  BY DEF Requested, from
<1> QED BY <1>1, <1>2, <1>3 DEF States

LEMMA RequestedReaches ==
  ASSUME TypeOK, NEW state \in States, NEW requested \in Seq(modes), NEW i \in DOMAIN requested,
         NEW evidence \in BOOLEAN, OnlyPlanning(requested) \/ OnlyExecution(requested),
         Reached(state, requested)
  PROVE  Reached(Requested(evidence, state, requested[i]), requested)
<1> DEFINE mode == requested[i]
           from == Machine!Sources(state.entries, mode)
           next == Requested(evidence, state, mode)
<1>1. CASE next = [state EXCEPT !.ok = FALSE]
  <2>1. next.entries = state.entries /\ next.files = state.files
    BY <1>1 DEF States
  <2> HIDE DEF next
  <2>2. Reached(next, requested)
    BY <2>1 DEF Reached
  <2> QED BY <2>2 DEF next, mode
<1>2. CASE /\ next = [state EXCEPT !.entries = (@ \ from) \cup {mode}, !.files = Complete(@, from)]
           /\ Machine!Allowed(state.entries, mode)
  <2>1. /\ next.entries = (state.entries \ from) \cup {mode}
        /\ next.files = Complete(state.files, from)
    BY <1>2 DEF States
  <2>2. /\ mode \in modes /\ mode \in Machine!Tracked /\ modes \subseteq Machine!Tracked
        /\ state.entries \in SUBSET modes /\ state.entries \in SUBSET Machine!Tracked
        /\ skill.entries \in SUBSET modes
        /\ DOMAIN state.files = Machine!Tracked
    BY DEF TypeOK, States
  <2>3. /\ from \subseteq state.entries \ {mode}
        /\ Apart((state.entries \ from) \cup {mode})
        /\ \A d \in from : \/ d \in Machine!PlanningLike /\ mode \in Machine!ExecutionLike
                           \/ d = "deep-interview" /\ mode = "ralplan"
                           \/ d = "ultragoal" /\ mode = "ultraqa"
    BY <1>2, <2>2, RequestKeeps DEF Reached
  <2>4. ASSUME NEW c \in skill.entries \ state.entries
        PROVE  c # mode /\ Gone(c, (state.entries \ from) \cup {mode}, requested)
    <3>1. Apart(state.entries) /\ Gone(c, state.entries, requested) /\ c \in Machine!Tracked
      BY <2>2 DEF Reached
    <3> QED BY <1>2, <2>2, <3>1, GoneStays
  <2> HIDE DEF from, next, mode
  <2>5. \A c \in from : Gone(c, next.entries, requested)
    BY <2>1, <2>3 DEF Gone, OnlyPlanning, OnlyExecution, mode, Machine!PlanningLike,
       Machine!ExecutionLike
  <2>6. {m \in modes : next.files[m] \in On} = {m \in modes : state.files[m] \in On} \ from
    BY <2>1, <2>2 DEF Complete, On
  <2>7. skill.entries \cap next.entries = (skill.entries \cap state.entries) \ from
    BY <2>1, <2>3, <2>4
  <2>8. \A c \in skill.entries \ next.entries : Gone(c, next.entries, requested)
    BY <2>1, <2>4, <2>5
  <2>9. Reached(next, requested)
    BY <2>1, <2>3, <2>6, <2>7, <2>8 DEF Reached
  <2> QED BY <2>9 DEF next, mode
<1> QED BY <1>1, <1>2 DEF Requested


LEMMA ResolvedIs ==
  ASSUME TypeOK, NEW request \in Seq(modes), request # << >>
  PROVE  /\ Resolved(request) \in Seq(modes) /\ Len(Resolved(request)) >= 1
         /\ OnlyPlanning(Resolved(request)) \/ OnlyExecution(Resolved(request))
<1> DEFINE planning == {i \in DOMAIN request : request[i] \in Machine!PlanningLike}
           first == CHOOSE i \in planning : \A j \in planning : i <= j
<1>1. \A i \in DOMAIN request : request[i] \in Machine!PlanningLike \cup Machine!ExecutionLike
  BY DEF TypeOK, Machine!ExecutionLike
<1>2. CASE planning # {} /\ \E i \in DOMAIN request : request[i] \in Machine!ExecutionLike
  <2>1. \E i \in planning : \A j \in planning : i <= j
    <3>1. planning \subseteq Nat
      OBVIOUS
    <3> HIDE DEF planning
    <3> QED BY <1>2, <3>1, LeastNumber
  <2>2. first \in planning
    BY <2>1
  <2>3. Resolved(request) = <<request[first]>>
    BY <1>2 DEF Resolved
  <2>4. request[first] \in modes /\ request[first] \in Machine!PlanningLike
    BY <2>2
  <2> HIDE DEF first
  <2> QED BY <2>3, <2>4 DEF OnlyPlanning
<1>3. CASE ~(planning # {} /\ \E i \in DOMAIN request : request[i] \in Machine!ExecutionLike)
  <2>1. Resolved(request) = request
    BY <1>3 DEF Resolved
  <2>2. OnlyPlanning(request) \/ OnlyExecution(request)
    BY <1>1, <1>3 DEF OnlyPlanning, OnlyExecution
  <2> QED BY <2>1, <2>2
<1> QED BY <1>2, <1>3

LEMMA TransitionReaches ==
  ASSUME TypeOK, NEW request \in Seq(modes), request # << >>, NEW evidence \in BOOLEAN
  PROVE  /\ Transition(request, evidence) \in States
         /\ Transition(request, evidence).ok => Transition(request, evidence).entries # {}
         /\ Faithful(skill, file, modes)
              => Reached(Transition(request, evidence), Resolved(request))
<1> DEFINE requested == Resolved(request)
<1>1. /\ requested \in Seq(modes) /\ Len(requested) >= 1 /\ Len(requested) \in Nat
      /\ DOMAIN requested = 1 .. Len(requested)
      /\ OnlyPlanning(requested) \/ OnlyExecution(requested)
  BY ResolvedIs
<1>2. PICK after : /\ Runs(after, Len(requested), requested, evidence)
                   /\ Transition(request, evidence) = after[Len(requested)]
  BY <1>1, TransitionRuns
<1> HIDE DEF requested
<1> DEFINE Good(k) == /\ after[k] \in States
                      /\ k > 0 /\ after[k].ok => after[k].entries # {}
                      /\ Faithful(skill, file, modes) => Reached(after[k], requested)
           S == {k \in Nat : k <= Len(requested) => Good(k)}
<1>3. 0 \in S
  <2>1. after[0] = Start
    BY <1>1, <1>2 DEF Runs
  <2>2. Start \in States
    BY DEF Start, States, TypeOK
  <2>3. Faithful(skill, file, modes) => Reached(Start, requested)
    BY DEF Start, Faithful, Reached
  <2> QED BY <2>1, <2>2, <2>3
<1>4. ASSUME NEW k \in Nat, k \in S PROVE k + 1 \in S
  <2> SUFFICES ASSUME k + 1 <= Len(requested) PROVE Good(k + 1)
    OBVIOUS
  <2>1. k + 1 \in DOMAIN requested /\ k + 1 \in 0 .. Len(requested) /\ k <= Len(requested)
    BY <1>1
  <2>2. after[k + 1] = Requested(evidence, after[k], requested[k + 1])
    BY <1>2, <2>1 DEF Runs
  <2>3. Good(k) /\ requested[k + 1] \in modes
    BY <1>1, <1>4, <2>1
  <2>4. after[k] \in States
    BY <2>3
  <2>5. after[k + 1] \in States /\ (after[k + 1].ok => requested[k + 1] \in after[k + 1].entries)
    BY <2>2, <2>3, <2>4, RequestedTyped
  <2>6. ASSUME Faithful(skill, file, modes) PROVE Reached(after[k + 1], requested)
    <3>1. Reached(after[k], requested)
      BY <2>3, <2>6
    <3> QED BY <1>1, <2>1, <2>2, <2>4, <3>1, RequestedReaches
  <2> QED BY <2>5, <2>6
<1>5. Len(requested) \in S
  <2> HIDE DEF S
  <2> QED BY <1>1, <1>3, <1>4, NumberInduction
<1>6. Good(Len(requested))
  BY <1>1, <1>5
<1> QED BY <1>1, <1>2, <1>6 DEF requested

-----------------------------------------------------------------------------
(* Prompts                                                                 *)

Copies == [exists : BOOLEAN, active : BOOLEAN, primary : modes \cup others \cup {"none", "cancel"},
           entries : SUBSET modes, lock : BOOLEAN, child : modes \cup others \cup {"none"}]

CopyInv == Remembers => Faithful(skill, file, modes)

LEMMA InterviewKeptIs ==
  ASSUME NEW files \in [Machine!Tracked -> Life], NEW primary
  PROVE  LET kept == InterviewKept(files, primary) IN
         /\ kept \in [Machine!Tracked -> Life]
         /\ \A m \in Machine!Tracked \ {"deep-interview"} : kept[m] = files[m]
         /\ IF primary = "deep-interview" THEN kept = files ELSE kept["deep-interview"] \notin On
<1>1. CASE primary = "deep-interview"
  BY <1>1 DEF InterviewKept
<1>2. CASE primary # "deep-interview"
  <2> DEFINE value == IF files["deep-interview"] \in On
                           \/ (skill.active /\ skill.primary = "deep-interview"
                               /\ files["deep-interview"] # "complete")
                      THEN "complete" ELSE files["deep-interview"]
  <2>1. InterviewKept(files, primary) = [files EXCEPT !["deep-interview"] = value]
    BY <1>2 DEF InterviewKept
  <2>2. "deep-interview" \in Machine!Tracked
    BY DEF Machine!Tracked
  <2>3. value \in Life /\ value \notin On
    BY <2>2 DEF Life, Ended, On
  <2> HIDE DEF value
  <2> QED BY <1>2, <2>1, <2>2, <2>3
<1> QED BY <1>1, <1>2

LEMMA SeededIs ==
  ASSUME NEW files \in [Machine!Tracked -> Life], NEW entries
  PROVE  /\ Seeded(files, entries) \in [Machine!Tracked -> Life]
         /\ \A m \in Machine!Tracked :
              IF m \in entries THEN Seeded(files, entries)[m] \in On
              ELSE Seeded(files, entries)[m] = files[m]
BY DEF Seeded, Life, On

(* The files after a prompt that is let through are at work exactly where  *)
(* the entries say.                                                        *)
LEMMA SeedsFollowEntries ==
  ASSUME TypeOK, Remembers, NEW files \in [Machine!Tracked -> Life], NEW entries \in SUBSET modes,
         NEW primary \in entries, Apart(entries), {m \in modes : files[m] \in On} \subseteq entries
  PROVE  {m \in modes : InterviewKept(Seeded(files, entries), primary)[m] \in On} = entries
<1> DEFINE seeded == Seeded(files, entries)
           kept == InterviewKept(seeded, primary)
<1>1. modes \subseteq Machine!Tracked /\ entries \subseteq Machine!Tracked
  BY DEF TypeOK
<1>2. /\ seeded \in [Machine!Tracked -> Life]
      /\ \A m \in Machine!Tracked : IF m \in entries THEN seeded[m] \in On ELSE seeded[m] = files[m]
  BY SeededIs
<1>3. /\ \A m \in Machine!Tracked \ {"deep-interview"} : kept[m] = seeded[m]
      /\ IF primary = "deep-interview" THEN kept = seeded ELSE kept["deep-interview"] \notin On
  BY <1>2, InterviewKeptIs
<1>4. "deep-interview" \in entries => primary = "deep-interview"
  BY DEF Apart, Machine!Overlaps, Remembers
<1> HIDE DEF kept, seeded
<1>5. \A m \in modes : kept[m] \in On <=> m \in entries
  BY <1>1, <1>2, <1>3, <1>4
<1>6. {m \in modes : kept[m] \in On} = entries
  BY <1>5
<1> QED BY <1>6 DEF kept, seeded

LEMMA WorkflowPrompt ==
  ASSUME TypeOK, CopyInv, NEW request \in Seq(modes), request # << >>, NEW evidence \in BOOLEAN,
         PromptWorkflow(request, evidence)
  PROVE  /\ file' \in [Machine!Tracked -> Life] /\ skill' \in Copies /\ run' = run
         /\ CopyInv' /\ last' \in {"none", "refused"}
<1> DEFINE next == Transition(request, evidence)
<1>1. /\ next \in States
      /\ next.ok => next.entries # {}
      /\ Faithful(skill, file, modes) => Reached(next, Resolved(request))
  BY TransitionReaches
<1>2. next.entries \in SUBSET modes /\ next.files \in [Machine!Tracked -> Life]
  BY <1>1 DEF States
<1>3. modes' = modes /\ others' = others /\ run' = run /\ skill \in Copies
  BY DEF PromptWorkflow, Opens, TypeOK, Copies
<1>4. request[1] \in modes
  OBVIOUS
<1>5. CASE next.ok
  <2>1. PICK primary \in Primaries(request, next.entries) :
          /\ last' = "none"
          /\ file' = InterviewKept(Seeded(next.files, next.entries), primary)
          /\ skill' = [exists |-> TRUE, active |-> TRUE, primary |-> primary,
                       entries |-> next.entries, child |-> "none",
                       lock |-> "deep-interview" \in {request[1]} \cup ToSet(Resolved(request))]
    BY <1>5 DEF PromptWorkflow
  <2>2. primary \in next.entries
    BY <2>1 DEF Primaries
  <2> HIDE DEF next
  <2>3. file' \in [Machine!Tracked -> Life] /\ skill' \in Copies
    BY <1>2, <2>1, <2>2, SeededIs, InterviewKeptIs DEF Copies
  <2>4. ASSUME Remembers PROVE Faithful(skill', file', modes)
    <3>1. Apart(next.entries) /\ {m \in modes : next.files[m] \in On} \subseteq next.entries
      BY <1>1, <2>4 DEF CopyInv, Reached
    <3>2. {m \in modes : file'[m] \in On} = next.entries
      BY <1>2, <2>1, <2>2, <2>4, <3>1, SeedsFollowEntries
    <3> QED BY <2>1, <2>2, <3>1, <3>2 DEF Faithful, Apart
  <2> QED BY <1>3, <2>1, <2>3, <2>4 DEF CopyInv, Remembers
<1>6. CASE ~next.ok
  <2>1. /\ last' = "refused" /\ file' = next.files
        /\ skill' = IF skill.entries \subseteq next.entries THEN skill
                    ELSE [skill EXCEPT !.entries = @ \cap next.entries,
                                       !.active = @ /\ skill.entries \cap next.entries # {}]
    BY <1>6 DEF PromptWorkflow
  <2>2. skill.active \in BOOLEAN
    BY <1>3 DEF Copies
  <2> HIDE DEF next
  <2>3. /\ skill' \in Copies /\ skill'.entries = skill.entries \cap next.entries
        /\ skill'.primary = skill.primary
        /\ ~skill'.active => ~skill.active \/ skill'.entries = {}
    <3>1. CASE skill.entries \subseteq next.entries
      BY <1>3, <2>1, <3>1 DEF Copies
    <3>2. CASE ~(skill.entries \subseteq next.entries)
      <4> DEFINE rest == skill.entries \cap next.entries
                 on == skill.active /\ rest # {}
      <4>1. skill' = [skill EXCEPT !.entries = rest, !.active = on]
        BY <2>1, <3>2
      <4>2. rest \in SUBSET modes /\ on \in BOOLEAN
        BY <1>2
      <4> HIDE DEF on, rest
      <4>3. skill' \in Copies /\ skill'.entries = rest /\ skill'.primary = skill.primary /\ skill'.active = on
        BY <1>3, <4>1, <4>2 DEF Copies
      <4> QED BY <4>3 DEF on, rest
    <3> QED BY <3>1, <3>2
  <2>4. ASSUME Remembers PROVE Faithful(skill', file', modes)
    BY <1>1, <2>1, <2>3, <2>4 DEF CopyInv, Reached, Faithful, Apart
  <2> QED BY <1>2, <1>3, <2>1, <2>3, <2>4 DEF CopyInv, Remembers
<1> QED BY <1>5, <1>6


LEMMA CancelPrompt ==
  ASSUME TypeOK, CopyInv, PromptCancel
  PROVE  /\ file' \in [Machine!Tracked -> Life] /\ skill' \in Copies /\ run' \in modes \cup {"none"}
         /\ CopyInv' /\ last' = "none"
<1>1. /\ modes' = modes /\ others' = others /\ skill \in Copies /\ last' = "none"
      /\ modes \subseteq Machine!Tracked /\ file \in [Machine!Tracked -> Life]
      /\ run \in modes \cup {"none"} /\ skill.entries \in SUBSET modes
  BY DEF PromptCancel, Opens, TypeOK, Copies
<1>2. CASE skill.primary = "deep-interview" /\ skill.lock
  <2>1. /\ file' = InterviewKept(file, "none") /\ run' = run
        /\ skill' = [skill EXCEPT !.active = FALSE, !.entries = {}, !.lock = FALSE]
    BY <1>2 DEF PromptCancel
  <2>2. /\ skill' \in Copies /\ skill'.entries = {}
    BY <1>1, <2>1 DEF Copies
  <2>3. /\ file' \in [Machine!Tracked -> Life] /\ file'["deep-interview"] \notin On
        /\ \A m \in modes \ {"deep-interview"} : file'[m] = file[m]
    BY <1>1, <2>1, InterviewKeptIs
  <2>4. ASSUME Remembers PROVE \A m \in modes : file'[m] \notin On
    <3>1. "deep-interview" \in modes
      BY <1>1, <1>2, <2>4 DEF Copies, Remembers
    <3>2. skill.entries \subseteq {"deep-interview"}
      BY <1>1, <1>2, <2>4, <3>1 DEF CopyInv, Faithful, Remembers, Machine!Overlaps
    <3> QED BY <2>3, <2>4, <3>2 DEF CopyInv, Faithful
  <2> QED BY <1>1, <2>1, <2>2, <2>3, <2>4 DEF CopyInv, Faithful, Apart, Remembers
<1>3. CASE ~(skill.primary = "deep-interview" /\ skill.lock) /\ skill.active
  <2>1. /\ file' = [m \in DOMAIN file |-> IF m \in skill.entries THEN "cancelled" ELSE file[m]]
        /\ \E m \in IF skill.entries = {} THEN {run} ELSE skill.entries : run' = m
        /\ skill' = [skill EXCEPT !.active = FALSE, !.entries = {}]
    BY <1>3 DEF PromptCancel
  <2>2. skill' \in Copies /\ skill'.entries = {}
    BY <1>1, <2>1 DEF Copies
  <2>3. file' \in [Machine!Tracked -> Life]
    BY <1>1, <2>1 DEF Life, Ended
  <2>4. ASSUME Remembers PROVE \A m \in modes : file'[m] \notin On
    BY <1>1, <2>1, <2>4 DEF CopyInv, Faithful, On
  <2> QED BY <1>1, <2>1, <2>2, <2>3, <2>4 DEF CopyInv, Faithful, Apart, Remembers
<1>4. CASE ~(skill.primary = "deep-interview" /\ skill.lock) /\ ~skill.active
  <2>1. /\ file' = file /\ run' = run
        /\ skill' = [NoSkill EXCEPT !.exists = TRUE, !.active = TRUE, !.primary = "cancel"]
    BY <1>4 DEF PromptCancel
  <2>2. /\ skill' \in Copies /\ skill'.entries = {} /\ skill'.active
    BY <2>1 DEF Copies, NoSkill
  <2> QED BY <1>1, <1>4, <2>1, <2>2 DEF CopyInv, Faithful, Apart, Remembers
<1> QED BY <1>2, <1>3, <1>4

(* Under an autopilot no mode is at work that a child could complete.      *)
LEMMA ChildPrompt ==
  ASSUME TypeOK, CopyInv, NEW m \in modes \cup others, PromptChild(m)
  PROVE  /\ file' \in [Machine!Tracked -> Life] /\ skill' \in Copies /\ run' = run
         /\ CopyInv' /\ last' = "none"
<1> DEFINE open == Active \cap Supervised
           allowed == m = "code-review" \/ Machine!Allowed(open, m)
<1>1. /\ modes' = modes /\ others' = others /\ skill \in Copies /\ last' = "none" /\ run' = run
      /\ modes \subseteq Machine!Tracked /\ file \in [Machine!Tracked -> Life]
      /\ skill.active /\ skill.primary = "autopilot" /\ m \in Supervised \cup {"code-review"}
  BY DEF PromptChild, Opens, TypeOK, Copies, Child
<1>2. /\ file' = IF allowed /\ m \in Supervised THEN Complete(file, Machine!Sources(open, m)) ELSE file
      /\ skill' = IF allowed THEN [skill EXCEPT !.child = m] ELSE skill
  BY DEF PromptChild
<1>3. /\ skill' \in Copies /\ skill'.entries = skill.entries /\ skill'.active = skill.active
      /\ skill'.primary = skill.primary
  BY <1>1, <1>2 DEF Copies
<1>4. file' \in [Machine!Tracked -> Life]
  BY <1>1, <1>2 DEF Complete, Life, Ended
<1>5. ASSUME Remembers PROVE file' = file
  <2>1. "autopilot" \in modes
    BY <1>1, <1>5 DEF Copies, Remembers
  <2>2. open = {}
    BY <1>1, <1>5, <2>1 DEF CopyInv, Faithful, Active, Supervised, Machine!Overlaps
  <2>3. Machine!Sources(open, m) = {}
    BY <2>2 DEF Machine!Sources, Machine!Kind
  <2>4. Complete(file, {}) = file
    BY <1>1 DEF Complete
  <2> QED BY <1>2, <2>3, <2>4
<1> QED BY <1>1, <1>3, <1>4, <1>5 DEF CopyInv, Faithful, Remembers

LEMMA OtherPrompt ==
  ASSUME TypeOK, NEW name \in others, PromptOther(name)
  PROVE  /\ file' \in [Machine!Tracked -> Life] /\ skill' \in Copies /\ run' = run
         /\ CopyInv' /\ last' = "none"
<1>1. /\ file' = InterviewKept(file, name) /\ others' = others /\ modes' = modes
      /\ skill' = [NoSkill EXCEPT !.exists = TRUE, !.active = TRUE, !.primary = name]
      /\ file \in [Machine!Tracked -> Life] /\ last' = "none" /\ run' = run
  BY DEF PromptOther, Opens, TypeOK
<1>2. skill' \in Copies
  BY <1>1 DEF Copies, NoSkill
<1> QED BY <1>1, <1>2, InterviewKeptIs DEF CopyInv, Remembers

Prompted ==
  /\ file' \in [Machine!Tracked -> Life] /\ skill' \in Copies /\ run' \in modes \cup {"none"}
  /\ CopyInv' /\ last' \in {"none", "refused"}

LEMMA PromptKeeps ==
  ASSUME TypeOK, CopyInv, Prompt
  PROVE  TypeOK' /\ CopyInv' /\ last' \in {"none", "refused"}
<1>1. /\ turn' = TRUE /\ again' = FALSE /\ prompts' \in 0 .. MaxPrompts /\ cache' \in Signatures
      /\ UNCHANGED <<modes, others, guard, children, followup, goal, diff, calm>>
  <2>1. Opens
    BY Zenon DEF Prompt, PromptPlain, PromptCancel, PromptWorkflow, PromptChild, PromptOther
  <2>2. NoSignature \in Signatures
    BY DEF NoSignature, Signatures
  <2>3. prompts + 1 \in 0 .. MaxPrompts
    BY <2>1, HookAssumption DEF Opens, TypeOK
  <2> QED BY <2>1, <2>2, <2>3 DEF Opens, TypeOK
<1>2. Prompted
  <2>1. CASE PromptPlain
    BY <1>1, <2>1 DEF PromptPlain, TypeOK, Copies, CopyInv, Faithful, Remembers, Prompted
  <2>2. CASE PromptCancel
    BY <2>2, CancelPrompt DEF Prompted
  <2>3. ASSUME NEW request \in Requests, NEW evidence \in BOOLEAN, PromptWorkflow(request, evidence)
        PROVE  request \in Seq(modes) /\ request # << >>
    <3>1. PICK n \in 1 .. MaxRequest : request \in [1 .. n -> modes]
      BY <2>3 DEF Requests
    <3> QED BY <3>1, HookAssumption
  <2>4. ASSUME NEW request \in Requests, NEW evidence \in BOOLEAN, PromptWorkflow(request, evidence)
        PROVE  Prompted
    BY <2>3, <2>4, WorkflowPrompt DEF TypeOK, Prompted
  <2>5. ASSUME NEW m \in modes \cup others, PromptChild(m) PROVE Prompted
    BY <2>5, ChildPrompt DEF TypeOK, Prompted
  <2>6. ASSUME NEW name \in others, PromptOther(name) PROVE Prompted
    BY <2>6, OtherPrompt DEF TypeOK, Prompted
  <2>7. CASE skill.primary \in modes /\ PromptWorkflow(<<skill.primary>>, FALSE)
    <3>1. <<skill.primary>> \in Seq(modes) /\ <<skill.primary>> # << >>
      BY <2>7
    <3> QED BY <2>7, <3>1, WorkflowPrompt DEF TypeOK, Prompted
  <2> QED BY <2>1, <2>2, <2>4, <2>5, <2>6, <2>7 DEF Prompt
<1> QED BY <1>1, <1>2 DEF TypeOK, Copies, Prompted

-----------------------------------------------------------------------------
(* The agent                                                               *)

LEMMA WorksIs ==
  ASSUME skill \in Copies, NEW entries \in SUBSET modes, NEW m \in modes, Works(entries, m)
  PROVE  /\ skill' \in Copies /\ skill'.entries = entries /\ skill'.active = (entries # {})
         /\ skill'.primary \in entries \/ skill'.primary = m
<1> DEFINE on == entries # {}
           first == IF skill.primary \in entries THEN skill.primary ELSE m
<1>1. skill' = [skill EXCEPT !.exists = TRUE, !.active = on, !.entries = entries, !.primary = first]
  BY DEF Works
<1>2. on \in BOOLEAN /\ first \in modes \cup others \cup {"none", "cancel"}
  BY DEF Copies
<1>3. first \in entries \/ first = m
  OBVIOUS
<1> HIDE DEF on, first
<1>4. skill' \in Copies /\ skill'.entries = entries /\ skill'.active = on /\ skill'.primary = first
  BY <1>1, <1>2 DEF Copies
<1> QED BY <1>3, <1>4 DEF on

LEMMA WriteStateKeeps ==
  ASSUME TypeOK, CopyInv, NEW m \in modes, NEW life \in Life, WriteState(m, life)
  PROVE  TypeOK' /\ CopyInv' /\ last' = "none"
<1> DEFINE entries == (skill.entries \ {m}) \cup (IF life \in On THEN {m} ELSE {})
<1>1. /\ UNCHANGED <<modes, others, run, turn, cache, guard, again, prompts, calm, children, followup, goal, diff>>
      /\ last' = "none" /\ file' = [file EXCEPT ![m] = life] /\ Works(entries, m) /\ m \in Active
  BY DEF WriteState, Acts, Agent
<1>2. /\ skill \in Copies /\ skill.entries \in SUBSET modes /\ modes \subseteq Machine!Tracked
      /\ file \in [Machine!Tracked -> Life]
  BY DEF TypeOK, Copies
<1>3. entries \in SUBSET modes
  BY <1>2
<1> HIDE DEF entries
<1>4. /\ skill' \in Copies /\ skill'.entries = entries /\ skill'.active = (entries # {})
      /\ skill'.primary \in entries \/ skill'.primary = m
  BY <1>1, <1>2, <1>3, WorksIs
<1>5. file' \in [Machine!Tracked -> Life]
  BY <1>1, <1>2
<1>6. TypeOK'
  BY <1>1, <1>4, <1>5 DEF TypeOK, Copies
<1>7. ASSUME Remembers PROVE Faithful(skill', file', modes)
  <2>1. /\ skill.entries = {c \in modes : file[c] \in On} /\ Apart(skill.entries) /\ m \in skill.entries
    BY <1>1, <1>7 DEF CopyInv, Faithful, Active
  <2>2. {c \in modes : file'[c] \in On} = entries
    BY <1>1, <1>2, <2>1 DEF entries
  <2>3. entries \subseteq skill.entries
    BY <2>1 DEF entries
  <2>4. Apart(entries) /\ \A c \in entries : c = skill'.primary \/ Machine!Overlaps(c, skill'.primary)
    BY <1>4, <2>1, <2>3 DEF Apart
  <2> QED BY <1>4, <2>2, <2>4 DEF Faithful
<1> QED BY <1>1, <1>6, <1>7 DEF CopyInv, Remembers

LEMMA StartModeKeeps ==
  ASSUME TypeOK, CopyInv, NEW m \in modes, StartMode(m)
  PROVE  TypeOK' /\ CopyInv' /\ last' = "none"
<1> DEFINE from == Machine!Sources(skill.entries, m)
           entries == (skill.entries \ from) \cup {m}
<1>1. /\ UNCHANGED <<modes, others, run, turn, cache, guard, again, prompts, calm, children, followup, goal, diff>>
      /\ last' = "none" /\ file' = [Complete(file, from) EXCEPT ![m] = "running"]
      /\ Works(entries, m) /\ m \notin Active /\ Machine!Allowed(skill.entries, m)
  BY DEF StartMode, Acts, Agent
<1>2. /\ skill \in Copies /\ skill.entries \in SUBSET modes /\ modes \subseteq Machine!Tracked
      /\ file \in [Machine!Tracked -> Life] /\ m \in Machine!Tracked
  BY DEF TypeOK, Copies
<1>3. entries \in SUBSET modes
  BY <1>2
<1>4. ASSUME Apart(skill.entries) PROVE from \subseteq skill.entries \ {m} /\ Apart(entries)
  <2>1. skill.entries \in SUBSET Machine!Tracked
    BY <1>2
  <2> QED BY <1>1, <1>2, <1>4, <2>1, RequestKeeps
<1> HIDE DEF entries
<1>5. /\ skill' \in Copies /\ skill'.entries = entries /\ skill'.active = (entries # {})
      /\ skill'.primary \in entries \/ skill'.primary = m
  BY <1>1, <1>2, <1>3, WorksIs
<1> HIDE DEF from
<1>6. Complete(file, from) \in [Machine!Tracked -> Life]
  BY <1>2 DEF Complete, Life, Ended
<1>7. file' \in [Machine!Tracked -> Life]
  BY <1>1, <1>2, <1>6 DEF Life, On
<1>8. TypeOK'
  BY <1>1, <1>5, <1>7 DEF TypeOK, Copies
<1>9. ASSUME Remembers PROVE Faithful(skill', file', modes)
  <2>1. /\ skill.entries = {c \in modes : file[c] \in On} /\ Apart(skill.entries)
    BY <1>9 DEF CopyInv, Faithful
  <2>2. {c \in modes : file'[c] \in On} = entries
    <3>1. \A c \in modes : Complete(file, from)[c] \in On <=> file[c] \in On /\ c \notin from
      BY <1>2 DEF Complete, On
    <3>2. \A c \in modes : file'[c] \in On <=> c = m \/ Complete(file, from)[c] \in On
      BY <1>1, <1>2, <1>6 DEF On
    <3> QED BY <1>2, <1>4, <2>1, <3>1, <3>2 DEF entries
  <2>3. m \in entries /\ Apart(entries)
    BY <1>4, <2>1 DEF entries
  <2>4. \A c \in entries : c = skill'.primary \/ Machine!Overlaps(c, skill'.primary)
    BY <1>5, <2>3 DEF Apart
  <2> QED BY <1>5, <2>2, <2>3, <2>4 DEF Faithful
<1> QED BY <1>1, <1>8, <1>9 DEF CopyInv, Remembers

(* What leaves files and copy as they are                                  *)
Idle == UNCHANGED <<modes, others, file, skill, run>>

LEMMA IdleKeeps == ASSUME CopyInv, Idle PROVE CopyInv'
BY DEF CopyInv, Idle, Remembers, Faithful

LEMMA AuditedIs == ASSUME TypeOK PROVE Audited \subseteq Diffs
BY DEF Audited, Diffs, TypeOK

LEMMA RestKeeps ==
  ASSUME TypeOK, EditProduct \/ Spawn \/ Reconcile \/ Inject \/ Calms \/ SubagentEnds \/ DiffChanges
  PROVE  TypeOK' /\ Idle /\ (turn \/ SubagentEnds \/ DiffChanges)
<1>1. CASE EditProduct
  <2>1. diff' \in Diffs
    BY <1>1, AuditedIs DEF EditProduct
  <2> QED BY <1>1, <2>1 DEF EditProduct, Agent, TypeOK, Idle
<1>2. CASE Spawn
  BY <1>2 DEF Spawn, Acts, Agent, TypeOK, Idle
<1>3. CASE Reconcile
  <2>1. /\ UNCHANGED <<modes, others, run, turn, cache, guard, again, prompts, calm, file, skill, children, followup, diff>>
        /\ goal' = FALSE /\ last' = "none" /\ turn
    BY <1>3 DEF Reconcile, Acts, Agent
  <2>2. goal' \in BOOLEAN
    BY <2>1
  <2>3. last' \in {"none", "refused", "edited", "passed"}
    BY <2>1
  <2> QED BY <2>1, <2>2, <2>3 DEF TypeOK, Idle
<1>4. CASE Inject
  BY <1>4 DEF Inject, TypeOK, Idle
<1>5. CASE Calms
  BY <1>5 DEF Calms, TypeOK, Idle
<1>6. CASE SubagentEnds
  BY <1>6 DEF SubagentEnds, TypeOK, Idle
<1>7. CASE DiffChanges
  <2>1. diff' \in Diffs
    BY <1>7, AuditedIs DEF DiffChanges
  <2> QED BY <1>7, <2>1 DEF DiffChanges, TypeOK, Idle
<1> QED BY <1>1, <1>2, <1>3, <1>4, <1>5, <1>6, <1>7
-----------------------------------------------------------------------------
(* Stops                                                                   *)

Kinds == {"audit", "ralph", "autoresearch", "autopilot", "ultrawork", "ultraqa", "ralplan", "goal"}

Checks == [kind : Kinds, holds : BOOLEAN, detail : Life \cup {"goal"}, repeats : BOOLEAN]

LEMMA CascadeIs ==
  ASSUME TypeOK, NEW leader \in BOOLEAN, NEW said
  PROVE  LET checks == Cascade(leader, said) IN
         /\ checks \in [1 .. 8 -> Checks]
         /\ checks[1].kind = "audit" /\ checks[1].repeats
         /\ checks[1].holds <=> leader /\ file["ralph"] = "unproved"
         /\ checks[2].kind = "ralph" /\ checks[2].repeats
         /\ checks[2].holds <=> /\ leader /\ Waits("ralph")
                                /\ file["ralph"] = "initial" => "ralph" \in skill.entries
         /\ checks[3].kind = "autoresearch" /\ checks[3].repeats
         /\ checks[3].holds <=> "autoresearch" \in Active /\ file["autoresearch"] # "proved"
         /\ checks[4].kind = "autopilot" /\ (checks[4].holds <=> Waits("autopilot"))
         /\ checks[5].kind = "ultrawork" /\ (checks[5].holds <=> Waits("ultrawork"))
         /\ checks[6].kind = "ultraqa" /\ checks[6].repeats /\ (checks[6].holds <=> Waits("ultraqa"))
         /\ checks[7].kind = "ralplan" /\ checks[7].repeats /\ (checks[7].holds <=> RalplanWaits)
         /\ checks[8].kind = "goal" /\ checks[8].repeats
<1>1. \A m \in Machine!Tracked : file[m] \in Life
  BY DEF TypeOK
<1>2. {"ralph", "autoresearch", "autopilot", "ultrawork", "ultraqa", "ralplan"} \subseteq Machine!Tracked
  BY DEF Machine!Tracked
<1>3. "unproved" \in Life
  BY DEF Life, Ended
<1> DEFINE audit == leader /\ file["ralph"] = "unproved"
           ralph == leader /\ Waits("ralph") /\ (file["ralph"] = "initial" => "ralph" \in skill.entries)
           autoresearch == "autoresearch" \in Active /\ file["autoresearch"] # "proved"
           pending == goal /\ said = "done"
           checks == Cascade(leader, said)
           c1 == Check("audit", audit, "unproved", TRUE)
           c2 == Check("ralph", ralph, file["ralph"], TRUE)
           c3 == Check("autoresearch", autoresearch, file["autoresearch"], TRUE)
           c4 == Check("autopilot", Waits("autopilot"), file["autopilot"], FALSE)
           c5 == Check("ultrawork", Waits("ultrawork"), file["ultrawork"], FALSE)
           c6 == Check("ultraqa", Waits("ultraqa"), file["ultraqa"], TRUE)
           c7 == Check("ralplan", RalplanWaits, file["ralplan"], TRUE)
           c8 == Check("goal", pending, "goal", TRUE)
<1>4. /\ audit \in BOOLEAN /\ ralph \in BOOLEAN /\ autoresearch \in BOOLEAN /\ pending \in BOOLEAN
      /\ Waits("autopilot") \in BOOLEAN /\ Waits("ultrawork") \in BOOLEAN /\ Waits("ultraqa") \in BOOLEAN
      /\ RalplanWaits \in BOOLEAN
  BY DEF Waits, RalplanWaits
<1>5. checks = << c1, c2, c3, c4, c5, c6, c7, c8 >>
  BY DEF Cascade
<1> HIDE DEF audit, ralph, autoresearch, pending, checks, c1, c2, c3, c4, c5, c6, c7, c8
<1>6. /\ "unproved" \in Life \cup {"goal"} /\ "goal" \in Life \cup {"goal"} /\ TRUE \in BOOLEAN /\ FALSE \in BOOLEAN
      /\ \A m \in {"ralph", "autoresearch", "autopilot", "ultrawork", "ultraqa", "ralplan"} :
           file[m] \in Life \cup {"goal"}
  BY <1>1, <1>2, <1>3
<1>7. c1 \in Checks /\ c1.kind = "audit" /\ c1.holds = audit /\ c1.repeats
  BY <1>4, <1>6 DEF c1, Check, Checks, Kinds
<1>8. c2 \in Checks /\ c2.kind = "ralph" /\ c2.holds = ralph /\ c2.repeats
  BY <1>4, <1>6 DEF c2, Check, Checks, Kinds
<1>9. c3 \in Checks /\ c3.kind = "autoresearch" /\ c3.holds = autoresearch /\ c3.repeats
  BY <1>4, <1>6 DEF c3, Check, Checks, Kinds
<1>10. c4 \in Checks /\ c4.kind = "autopilot" /\ c4.holds = Waits("autopilot")
  BY <1>4, <1>6 DEF c4, Check, Checks, Kinds
<1>11. c5 \in Checks /\ c5.kind = "ultrawork" /\ c5.holds = Waits("ultrawork")
  BY <1>4, <1>6 DEF c5, Check, Checks, Kinds
<1>12. c6 \in Checks /\ c6.kind = "ultraqa" /\ c6.holds = Waits("ultraqa") /\ c6.repeats
  BY <1>4, <1>6 DEF c6, Check, Checks, Kinds
<1>13. c7 \in Checks /\ c7.kind = "ralplan" /\ c7.holds = RalplanWaits /\ c7.repeats
  BY <1>4, <1>6 DEF c7, Check, Checks, Kinds
<1>14. c8 \in Checks /\ c8.kind = "goal" /\ c8.holds = pending /\ c8.repeats
  BY <1>4, <1>6 DEF c8, Check, Checks, Kinds
<1>15. /\ checks \in [1 .. 8 -> Checks]
       /\ checks[1] = c1 /\ checks[2] = c2 /\ checks[3] = c3 /\ checks[4] = c4
       /\ checks[5] = c5 /\ checks[6] = c6 /\ checks[7] = c7 /\ checks[8] = c8
  BY <1>5, <1>7, <1>8, <1>9, <1>10, <1>11, <1>12, <1>13, <1>14
<1> QED BY <1>7, <1>8, <1>9, <1>10, <1>11, <1>12, <1>13, <1>14, <1>15 DEF audit, ralph, autoresearch, checks

(* The check that decides holds, and none before it does.                  *)
LEMMA FirstIs ==
  ASSUME NEW checks \in [1 .. 8 -> Checks]
  PROVE  \/ /\ First(checks) = Check("ordinary", FALSE, "none", TRUE)
            /\ \A i \in 1 .. 8 : ~checks[i].holds
         \/ \E i \in 1 .. 8 : /\ First(checks) = checks[i] /\ checks[i].holds
                              /\ \A j \in 1 .. 8 : j < i => ~checks[j].holds
<1> DEFINE held == {i \in DOMAIN checks : checks[i].holds}
           first == CHOOSE i \in held : \A j \in held : i <= j
<1>1. held = {i \in 1 .. 8 : checks[i].holds}
  OBVIOUS
<1>2. First(checks) = IF held = {} THEN Check("ordinary", FALSE, "none", TRUE) ELSE checks[first]
  BY DEF First
<1>3. CASE held = {}
  BY <1>1, <1>2, <1>3
<1>4. CASE held # {}
  <2>1. held \subseteq Nat
    BY <1>1
  <2>2. \E i \in held : \A j \in held : i <= j
    <3> HIDE DEF held
    <3> QED BY <1>4, <2>1, LeastNumber
  <2>3. first \in held /\ \A j \in held : first <= j
    BY <2>2
  <2> HIDE DEF first, held
  <2>4. first \in 1 .. 8 /\ checks[first].holds /\ First(checks) = checks[first]
    BY <1>1, <1>2, <1>4, <2>3
  <2>5. ASSUME NEW j \in 1 .. 8, j < first, checks[j].holds PROVE FALSE
    <3>1. j \in held
      BY <1>1, <2>5
    <3> QED BY <2>3, <2>4, <2>5, <3>1
  <2> QED BY <2>4, <2>5
<1> QED BY <1>3, <1>4


LEMMA SignatureIs ==
  ASSUME TypeOK, NEW checks \in [1 .. 8 -> Checks], First(checks).kind # "ordinary",
         NEW who \in {"leader", "subagent"}, NEW said \in {"done", "status"}
  PROVE  Signature(who, First(checks), said) \in Signatures
<1>1. First(checks) \in Checks
  BY FirstIs DEF Check
<1> DEFINE check == First(checks)
<1> HIDE DEF check
<1>2. check.kind \in Kinds /\ <<who, check.detail>> \in {"leader", "subagent"} \X (Life \cup {"goal"})
  BY <1>1 DEF Checks, check
<1>3. (IF check.kind = "autopilot" THEN "any" ELSE said) \in {"none", "any", "done", "status"}
  OBVIOUS
<1> QED BY <1>2, <1>3 DEF Signature, Signatures, Kinds, check

(* Modes that have no check, or a reason that no signature is part of      *)
Free(m) ==
  \/ m \in {"deep-interview", "ultragoal"} \/ Cancelled(m)
  \/ m = "autoresearch" /\ file[m] = "proved"
  \/ m = "ralplan" /\ file[m] = "paused" /\ children = 0

(* Where none of a mode's checks holds, the mode is free.                  *)
LEMMA UncheckedFree ==
  ASSUME TypeOK, CopyInv, Remembers, NEW said, NEW checks, checks = Cascade(TRUE, said),
         NEW m \in Active
  PROVE  /\ ~checks[1].holds => file["ralph"] # "unproved"
         /\ m = "ralph" /\ ~checks[2].holds => Free(m)
         /\ m = "autoresearch" /\ ~checks[3].holds => Free(m)
         /\ m = "autopilot" /\ ~checks[4].holds => Free(m)
         /\ m = "ultrawork" /\ ~checks[5].holds => Free(m)
         /\ m = "ultraqa" /\ ~checks[6].holds => Free(m)
         /\ m = "ralplan" /\ ~checks[7].holds => Free(m)
         /\ m \notin {"ralph", "autoresearch", "autopilot", "ultrawork", "ultraqa", "ralplan"} => Free(m)
<1>1. m \in skill.entries
  BY DEF CopyInv, Faithful, Active
<1>2. m \in Machine!Tracked
  BY DEF TypeOK, Active
<1>3. children \in 0 .. 1
  BY DEF TypeOK
<1>4. /\ checks[1].holds <=> file["ralph"] = "unproved"
      /\ checks[2].holds <=> Waits("ralph") /\ (file["ralph"] = "initial" => "ralph" \in skill.entries)
      /\ checks[3].holds <=> "autoresearch" \in Active /\ file["autoresearch"] # "proved"
      /\ checks[4].holds <=> Waits("autopilot")
      /\ checks[5].holds <=> Waits("ultrawork")
      /\ checks[6].holds <=> Waits("ultraqa")
      /\ checks[7].holds <=> RalplanWaits
  BY CascadeIs
<1>5. m \notin {"ralph", "autoresearch", "autopilot", "ultrawork", "ultraqa", "ralplan"} => Free(m)
  BY <1>2 DEF Machine!Tracked, Free
<1>6. ASSUME m = "ralplan", ~RalplanWaits PROVE Free(m)
  <2>1. ~Waits("ralplan") \/ (~(children > 0) /\ file["ralplan"] = "paused")
    BY <1>1, <1>6 DEF RalplanWaits
  <2>2. ~(children > 0) => children = 0
    BY <1>3
  <2> QED BY <1>6, <2>1, <2>2 DEF Waits, Free
<1> QED BY <1>1, <1>4, <1>5, <1>6 DEF Waits, Free

(* A Stop that no check decides passes free modes only.                    *)
LEMMA OrdinaryPasses ==
  ASSUME TypeOK, CopyInv, Remembers, NEW said, First(Cascade(TRUE, said)).kind = "ordinary"
  PROVE  file["ralph"] # "unproved" /\ \A m \in Active : Free(m)
<1> DEFINE checks == Cascade(TRUE, said)
<1>1. checks \in [1 .. 8 -> Checks] /\ (checks[1].holds <=> file["ralph"] = "unproved")
  BY CascadeIs
<1> HIDE DEF checks
<1>2. \A i \in 1 .. 8 : checks[i].kind # "ordinary"
  BY <1>1 DEF Checks, Kinds
<1>3. \A i \in 1 .. 8 : ~checks[i].holds
  BY <1>1, <1>2, FirstIs DEF checks
<1>4. ~checks[1].holds /\ ~checks[2].holds /\ ~checks[3].holds /\ ~checks[4].holds
      /\ ~checks[5].holds /\ ~checks[6].holds /\ ~checks[7].holds
  BY <1>3
<1>5. ASSUME NEW m \in Active PROVE Free(m)
  BY <1>4, <1>5, UncheckedFree DEF checks
<1> QED BY <1>1, <1>4, <1>5

(* A Stop that passes as a repeat: only the checks of autopilot and        *)
(* ultrawork do not repeat, and what they hide has the signature they left.*)
LEMMA RepeatPasses ==
  ASSUME TypeOK, CopyInv, Remembers, NEW said, NEW check, check = First(Cascade(TRUE, said)),
         check.kind # "ordinary", ~check.repeats
  PROVE  /\ file["ralph"] # "unproved"
         /\ \A m \in Active :
              \/ Free(m)
              \/ m \in {"autopilot", "ultrawork"} /\ check.kind = m
              \/ "autopilot" \in Active /\ check.kind = "autopilot" /\ m = "ultrawork"
              \/ "ultrawork" \in Active /\ check.kind = "ultrawork" /\ m \in {"ultraqa", "ralplan"}
<1> DEFINE checks == Cascade(TRUE, said)
<1>1. /\ checks \in [1 .. 8 -> Checks]
      /\ checks[1].holds <=> file["ralph"] = "unproved"
      /\ checks[1].repeats /\ checks[2].repeats /\ checks[3].repeats
      /\ checks[4].kind = "autopilot" /\ (checks[4].holds <=> Waits("autopilot"))
      /\ checks[5].kind = "ultrawork" /\ (checks[5].holds <=> Waits("ultrawork"))
      /\ checks[6].repeats /\ checks[7].repeats /\ checks[8].repeats
  BY CascadeIs
<1>2. \A m \in Active : 
        /\ m = "ralph" /\ ~checks[2].holds => Free(m)
        /\ m = "autoresearch" /\ ~checks[3].holds => Free(m)
        /\ m = "autopilot" /\ ~checks[4].holds => Free(m)
        /\ m \notin {"ralph", "autoresearch", "autopilot", "ultrawork", "ultraqa", "ralplan"} => Free(m)
  BY UncheckedFree
<1>3. \A a, b \in Active : a = b \/ Machine!Overlaps(a, b)
  BY DEF CopyInv, Faithful, Active, Apart
<1> HIDE DEF checks
<1>4. PICK i \in 1 .. 8 : /\ check = checks[i] /\ checks[i].holds
                          /\ \A j \in 1 .. 8 : j < i => ~checks[j].holds
  <2>1. Check("ordinary", FALSE, "none", TRUE).kind = "ordinary"
    BY DEF Check
  <2>2. check = First(checks) /\ check # Check("ordinary", FALSE, "none", TRUE)
    BY <2>1 DEF checks
  <2> QED BY <1>1, <2>2, FirstIs
<1>5. i \in {4, 5}
  <2>1. ~checks[i].repeats
    BY <1>4
  <2>2. i \notin {1, 2, 3, 6, 7, 8}
    BY <1>1, <2>1
  <2> QED BY <2>2
<1>6. ~checks[1].holds /\ ~checks[2].holds /\ ~checks[3].holds
  BY <1>4, <1>5
<1>7. CASE i = 4
  <2>1. check.kind = "autopilot" /\ "autopilot" \in Active
    BY <1>1, <1>4, <1>7 DEF Waits
  <2>2. \A m \in Active : m \in {"autopilot", "ultrawork"}
    BY <1>3, <2>1 DEF Machine!Overlaps
  <2> QED BY <1>1, <1>6, <2>1, <2>2
<1>8. CASE i = 5
  <2>1. check.kind = "ultrawork" /\ "ultrawork" \in Active /\ ~checks[4].holds
    <3>1. \A j \in 1 .. 8 : j < 5 => ~checks[j].holds
      BY <1>4, <1>8
    <3>2. check = checks[5] /\ checks[5].holds
      BY <1>4, <1>8
    <3>3. ~checks[4].holds
      BY <3>1
    <3>4. Waits("ultrawork") /\ check.kind = "ultrawork"
      BY <1>1, <3>2
    <3> QED BY <3>3, <3>4 DEF Waits
  <2>2. ASSUME NEW m \in Active, m \notin {"ultrawork", "ultraqa", "ralplan"} PROVE Free(m)
    BY <1>2, <1>6, <2>1, <2>2
  <2> QED BY <1>1, <1>6, <2>1, <2>2
<1> QED BY <1>5, <1>7, <1>8


LEMMA CacheTyped ==
  ASSUME TypeOK
  PROVE  Cache \in Signatures /\ Guard \in [said : {"none", "done", "status"}, count : 0 .. MaxRepeats]
<1>1. NoSignature \in Signatures
  BY DEF NoSignature, Signatures
<1>2. [said |-> "none", count |-> 0] \in [said : {"none", "done", "status"}, count : 0 .. MaxRepeats]
  BY HookAssumption
<1> QED BY <1>1, <1>2 DEF Cache, Guard, TypeOK

Stopped ==
  /\ Idle /\ UNCHANGED <<goal, diff, prompts>> /\ cache' \in Signatures
  /\ guard' \in [said : {"none", "done", "status"}, count : 0 .. MaxRepeats]
  /\ turn' \in BOOLEAN /\ again' \in BOOLEAN /\ (again' => turn')
  /\ followup' \in BOOLEAN /\ calm' \in BOOLEAN /\ children' \in 0 .. 1
  /\ last' \in {"none", "refused", "edited", "passed"}

LEMMA StoppedTyped == ASSUME TypeOK, Stopped PROVE TypeOK'
BY DEF TypeOK, Stopped, Idle

(* What a Stop leaves for the invariants on the last event                 *)
Released ==
  \/ last' = "none"
  \/ turn /\ UNCHANGED <<last, turn>>
  \/ last' = "passed" /\ turn' = FALSE /\ (Remembers => HeldWhileActive')

LEMMA FollowupStops ==
  ASSUME TypeOK, StopFollowup \/ StopExempt PROVE Stopped /\ Released
<1>1. Cache \in Signatures /\ Guard \in [said : {"none", "done", "status"}, count : 0 .. MaxRepeats]
  BY CacheTyped
<1>2. CASE StopFollowup
  BY <1>1, <1>2 DEF StopFollowup, Blocked, StopUnchanged, TypeOK, Stopped, Idle, Released
<1>3. CASE StopExempt
  BY <1>1, <1>3 DEF StopExempt, Passed, StopUnchanged, TypeOK, Stopped, Idle, Released
<1> QED BY <1>2, <1>3

(* What the audit of the diff leaves in the cache, and the guard after it   *)
LEMMA SloppySigned ==
  ASSUME NEW who \in {"leader", "subagent"}, NEW said \in {"done", "status"}
  PROVE  Signature(who, Sloppy, said) \in Signatures
<1>1. /\ Sloppy.kind = "sloppy" /\ Sloppy.detail = "diff"
      /\ <<who, "diff">> \in {"leader", "subagent"} \X (Life \cup {"goal", "diff"})
  BY DEF Sloppy, Check
<1>2. Signature(who, Sloppy, said) = [kind |-> "sloppy", detail |-> <<who, "diff">>, said |-> said]
  BY <1>1 DEF Signature
<1> QED BY <1>1, <1>2 DEF Signatures

LEMMA CountedTyped ==
  ASSUME TypeOK, NEW said \in {"done", "status"}
  PROVE  Counted(said) \in [said : {"none", "done", "status"}, count : 0 .. MaxRepeats]
<1>1. Count(said) \in Nat /\ MaxRepeats \in Nat
  BY CacheTyped, HookAssumption DEF Count
<1>2. (IF Count(said) > MaxRepeats THEN MaxRepeats ELSE Count(said)) \in 0 .. MaxRepeats
  BY <1>1
<1> QED BY <1>2 DEF Counted

LEMMA OrdinaryStops ==
  ASSUME TypeOK, CopyInv, NEW said \in {"done", "status"}, NEW long \in BOOLEAN,
         StopOrdinary(said, long)
  PROVE  Stopped /\ Released
<1>1. /\ UNCHANGED <<followup, modes, others, file, skill, run, children, goal, diff, prompts, calm>>
      /\ guard' = Counted(said)
      /\ First(Cascade(TRUE, said)).kind = "ordinary"
      /\ \/ Blocked /\ cache' \in {Cache, Signature("leader", Sloppy, said)}
         \/ Passed("passed") /\ cache' = Cache
  BY DEF StopOrdinary, StopUnchanged
<1>2. cache' \in Signatures
  BY <1>1, CacheTyped, SloppySigned
<1>3. guard' \in [said : {"none", "done", "status"}, count : 0 .. MaxRepeats]
  BY <1>1, CountedTyped
<1>4. Stopped
  BY <1>1, <1>2, <1>3 DEF Blocked, Passed, TypeOK, Stopped, Idle
<1>5. CASE Blocked
  BY <1>5, <1>4 DEF Blocked, Released
<1>6. CASE Passed("passed")
  <2>1. ASSUME Remembers PROVE file["ralph"] # "unproved" /\ \A m \in Active : Free(m)
    BY <1>1, <2>1, OrdinaryPasses
  <2>2. ASSUME Remembers PROVE HeldWhileActive'
    BY <1>1, <2>1, <2>2 DEF HeldWhileActive, LetsGo, Free, Cancelled, Active
  <2> QED BY <1>4, <1>6, <2>2 DEF Passed, Released
<1> QED BY <1>1, <1>4, <1>5, <1>6

LEMMA CheckedStops ==
  ASSUME TypeOK, CopyInv, NEW said \in {"done", "status"}, StopChecked(said)
  PROVE  Stopped /\ Released
<1> DEFINE check == First(Cascade(TRUE, said))
           signature == Signature("leader", check, said)
<1>1. /\ UNCHANGED <<followup, modes, others, file, skill, run, children, goal, diff, prompts, calm>>
      /\ guard' = Guard /\ check.kind # "ordinary"
      /\ \/ Suppressed(check, signature) /\ Passed("passed") /\ cache' = Cache
         \/ Blocked /\ cache' = signature
  BY DEF StopChecked, StopUnchanged
<1>2. Cache \in Signatures /\ Guard \in [said : {"none", "done", "status"}, count : 0 .. MaxRepeats]
  BY CacheTyped
<1>3. signature \in Signatures
  <2>1. Cascade(TRUE, said) \in [1 .. 8 -> Checks]
    BY CascadeIs
  <2> QED BY <1>1, <2>1, SignatureIs
<1>4. signature.kind = check.kind
  BY DEF Signature
<1>5. ASSUME Remembers, Suppressed(check, signature)
      PROVE  /\ file["ralph"] # "unproved" /\ Cache.kind = check.kind
             /\ \A m \in Active :
                  \/ Free(m)
                  \/ m \in {"autopilot", "ultrawork"} /\ check.kind = m
                  \/ "autopilot" \in Active /\ check.kind = "autopilot" /\ m = "ultrawork"
                  \/ "ultrawork" \in Active /\ check.kind = "ultrawork" /\ m \in {"ultraqa", "ralplan"}
  <2>1. ~check.repeats /\ Cache = signature
    BY <1>5 DEF Suppressed
  <2> QED BY <1>1, <1>4, <1>5, <2>1, RepeatPasses
<1> HIDE DEF check, signature
<1>6. Stopped
  BY <1>1, <1>2, <1>3 DEF Blocked, Passed, TypeOK, Stopped, Idle
<1>7. CASE Blocked
  BY <1>6, <1>7 DEF Blocked, Released
<1>8. CASE Suppressed(check, signature) /\ Passed("passed") /\ cache' = Cache
  <2>1. ASSUME Remembers PROVE HeldWhileActive'
    BY <1>1, <1>5, <1>8, <2>1 DEF HeldWhileActive, LetsGo, Free, Cancelled, Active
  <2> QED BY <1>6, <1>8, <2>1 DEF Passed, Released
<1> QED BY <1>1, <1>6, <1>7, <1>8

LEMMA SubagentStops ==
  ASSUME TypeOK, NEW said \in {"done", "status"}, NEW repeated \in BOOLEAN, NEW long \in BOOLEAN,
         SubagentStop(said, repeated, long)
  PROVE  Stopped /\ Released
<1> DEFINE check == First(Cascade(FALSE, said))
           signature == Signature("subagent", check, said)
           sloppy == Signature("subagent", Sloppy, said)
<1>1. /\ UNCHANGED <<modes, others, file, skill, run, turn, again, goal, diff, prompts, last, calm>>
      /\ guard' \in {Guard, Counted(said)} /\ turn /\ children = 1
      /\ followup' \in {FALSE, followup} /\ children' \in {0, children}
      /\ \/ cache' \in {Cache, sloppy}
         \/ check.kind # "ordinary" /\ cache' = signature
  BY DEF SubagentStop
<1>2. Cache \in Signatures /\ sloppy \in Signatures
  BY CacheTyped, SloppySigned
<1>3. check.kind # "ordinary" => signature \in Signatures
  <2>1. Cascade(FALSE, said) \in [1 .. 8 -> Checks]
    BY CascadeIs
  <2> QED BY <2>1, SignatureIs
<1>4. guard' \in [said : {"none", "done", "status"}, count : 0 .. MaxRepeats]
  BY <1>1, CacheTyped, CountedTyped
<1> HIDE DEF check, signature, sloppy
<1>5. cache' \in Signatures /\ followup' \in BOOLEAN /\ children' \in 0 .. 1
  <2>1. cache' \in Signatures
    BY <1>1, <1>2, <1>3
  <2>2. followup \in BOOLEAN /\ children \in 0 .. 1
    BY DEF TypeOK
  <2>3. followup' = FALSE \/ followup' = followup
    BY <1>1
  <2>4. followup' \in BOOLEAN
    BY <2>2, <2>3
  <2>5. children' = 0 \/ children' = children
    BY <1>1
  <2> QED BY <2>1, <2>2, <2>4, <2>5
<1> QED BY <1>1, <1>4, <1>5 DEF TypeOK, Stopped, Idle, Released

-----------------------------------------------------------------------------
(* The invariant: the copy is faithful, and what the last event promised   *)
(* still holds because nothing but a prompt follows a Stop that passed and *)
(* an edit is the last event only until files or copy change.              *)
IInv ==
  /\ TypeOK /\ CopyInv
  /\ last = "passed" => turn = FALSE
  /\ HeldWhileActive
  /\ NoCodeWhilePlanning

LEMMA InitInv == Init => IInv
<1> SUFFICES ASSUME Init PROVE IInv
  OBVIOUS
<1>1. /\ modes \subseteq Machine!Tracked /\ goal \in BOOLEAN /\ diff \in Diffs
      /\ file = [m \in Machine!Tracked |-> "absent"] /\ skill = NoSkill /\ run = "none"
      /\ turn = FALSE /\ again = FALSE /\ cache = NoSignature /\ guard = [said |-> "none", count |-> 0]
      /\ children = 0 /\ followup = FALSE /\ prompts = 0 /\ last = "none" /\ calm = FALSE
  BY FamiliesAssumption DEF Init
<1>2. NoSignature \in Signatures
  BY DEF NoSignature, Signatures
<1>3. skill \in Copies
  BY <1>1 DEF NoSkill, Copies
<1>4. file \in [Machine!Tracked -> Life]
  BY <1>1 DEF Life
<1>5. TypeOK
  <2>1. /\ turn \in BOOLEAN /\ again \in BOOLEAN /\ followup \in BOOLEAN /\ calm \in BOOLEAN /\ ~again
        /\ last \in {"none", "refused", "edited", "passed"}
    BY <1>1
  <2>2. /\ children \in 0 .. 1 /\ prompts \in 0 .. MaxPrompts
        /\ guard \in [said : {"none", "done", "status"}, count : 0 .. MaxRepeats]
    BY <1>1, HookAssumption
  <2> QED BY <1>1, <1>2, <1>3, <1>4, <2>1, <2>2 DEF TypeOK, Copies
<1>6. CopyInv
  <2>1. skill.entries = {} /\ \A m \in modes : file[m] \notin On
    BY <1>1 DEF NoSkill, On
  <2> QED BY <2>1 DEF CopyInv, Faithful, Apart
<1> QED BY <1>1, <1>5, <1>6 DEF IInv, HeldWhileActive, NoCodeWhilePlanning

(* An edit that is let through meets no interview, and a plan only where   *)
(* it is handed over or ultrawork is at work.                              *)
LEMMA EditMeets ==
  ASSUME TypeOK, CopyInv, Remembers, ~Guarded
  PROVE  \/ "ultrawork" \in Active
         \/ "deep-interview" \notin Active /\ ("ralplan" \in Active => HandedOver)
<1>1. skill.entries = Active /\ Apart(skill.entries)
  BY DEF CopyInv, Faithful, Active
<1>2. "deep-interview" \notin Active
  BY <1>1 DEF Guarded, InterviewGuard
<1>3. ASSUME "ralplan" \in Active, ~HandedOver PROVE "ultrawork" \in Active
  <2>1. Handoff
    BY <1>1, <1>3 DEF Guarded, RalplanGuard
  <2>2. PICK c \in skill.entries : c \in Machine!ExecutionLike
    BY <1>3, <2>1 DEF Handoff
  <2>3. c # "ralplan"
    BY <2>2 DEF Machine!ExecutionLike, Machine!PlanningLike
  <2> QED BY <1>1, <1>3, <2>2, <2>3 DEF Apart, Machine!Overlaps
<1> QED BY <1>2, <1>3

StopStep ==
  \/ Stop \/ StopExempt
  \/ \E said \in {"done", "status"}, repeated, long \in BOOLEAN : SubagentStop(said, repeated, long)

LEMMA StopKeeps ==
  ASSUME TypeOK, CopyInv, StopStep PROVE TypeOK' /\ Idle /\ Released
<1>1. ASSUME NEW said \in {"done", "status"}, StopChecked(said) PROVE Stopped /\ Released
  BY <1>1, CheckedStops
<1>2. ASSUME NEW said \in {"done", "status"}, NEW long \in BOOLEAN, StopOrdinary(said, long)
      PROVE  Stopped /\ Released
  BY <1>2, OrdinaryStops
<1>3. ASSUME NEW said \in {"done", "status"}, NEW repeated \in BOOLEAN, NEW long \in BOOLEAN,
             SubagentStop(said, repeated, long)
      PROVE  Stopped /\ Released
  BY <1>3, SubagentStops
<1>4. Stopped /\ Released
  BY <1>1, <1>2, <1>3, FollowupStops DEF StopStep, Stop
<1>5. TypeOK'
  BY <1>4, StoppedTyped
<1> QED BY <1>4, <1>5 DEF Stopped

LEMMA StepIs ==
  ASSUME Next
  PROVE  \/ Prompt \/ StopStep
         \/ EditProduct \/ Spawn \/ Reconcile \/ Inject \/ Calms \/ SubagentEnds \/ DiffChanges
         \/ \E m \in modes : StartMode(m)
         \/ \E m \in modes, life \in Life : WriteState(m, life)
BY Zenon DEF Next, StopStep

LEMMA NextInv == IInv /\ [Next]_vars => IInv'
<1> SUFFICES ASSUME IInv, [Next]_vars PROVE IInv'
  OBVIOUS
<1>1. TypeOK /\ CopyInv /\ HeldWhileActive /\ NoCodeWhilePlanning /\ (last = "passed" => turn = FALSE)
  BY DEF IInv
<1>2. ASSUME TypeOK', CopyInv', last' \notin {"passed", "edited"} PROVE IInv'
  BY <1>2 DEF IInv, HeldWhileActive, NoCodeWhilePlanning
<1>3. CASE UNCHANGED vars
  BY <1>3, <1>1 DEF vars, IInv, TypeOK, CopyInv, Faithful, Remembers, HeldWhileActive, LetsGo,
     Cancelled, Active, NoCodeWhilePlanning, HandedOver, Signatures
<1>4. CASE Prompt
  BY <1>1, <1>2, <1>4, PromptKeeps
<1>5. ASSUME NEW m \in modes, StartMode(m) PROVE IInv'
  BY <1>1, <1>2, <1>5, StartModeKeeps
<1>6. ASSUME NEW m \in modes, NEW life \in Life, WriteState(m, life) PROVE IInv'
  BY <1>1, <1>2, <1>6, WriteStateKeeps
<1>7. ASSUME Idle, last' = last PROVE NoCodeWhilePlanning'
  BY <1>1, <1>7 DEF Idle, NoCodeWhilePlanning, Remembers, Active, HandedOver
<1>8. CASE StopStep
  <2>1. TypeOK' /\ CopyInv' /\ Idle /\ Released
    BY <1>1, <1>8, StopKeeps, IdleKeeps
  <2>2. CASE last' = "none"
    BY <1>2, <2>1, <2>2
  <2>3. CASE turn /\ UNCHANGED <<last, turn>>
    <3>1. last' # "passed"
      BY <1>1, <2>3 DEF TypeOK
    <3> QED BY <1>7, <2>1, <2>3, <3>1 DEF IInv, HeldWhileActive
  <2>4. CASE last' = "passed" /\ turn' = FALSE /\ (Remembers => HeldWhileActive')
    <3>1. HeldWhileActive'
      <4>1. Remembers' => Remembers
        BY <2>1 DEF Idle, Remembers
      <4> QED BY <2>4, <4>1 DEF HeldWhileActive
    <3> QED BY <2>1, <2>4, <3>1 DEF IInv, NoCodeWhilePlanning
  <2> QED BY <2>1, <2>2, <2>3, <2>4 DEF Released
<1>9. CASE EditProduct \/ Spawn \/ Reconcile \/ Inject \/ Calms \/ SubagentEnds \/ DiffChanges
  <2>1. TypeOK' /\ CopyInv' /\ Idle /\ (turn \/ SubagentEnds \/ DiffChanges)
    BY <1>1, <1>9, RestKeeps, IdleKeeps
  <2>2. CASE Spawn \/ Reconcile
    <3>1. last' = "none"
      BY <2>2 DEF Spawn, Reconcile, Acts
    <3> QED BY <1>2, <2>1, <3>1
  <2>3. CASE EditProduct
    <3>1. last' = "edited" /\ ~Guarded
      BY <2>3 DEF EditProduct
    <3>2. NoCodeWhilePlanning'
      BY <1>1, <2>1, <3>1, EditMeets DEF NoCodeWhilePlanning, Idle, Remembers, Active, HandedOver
    <3> QED BY <2>1, <3>1, <3>2 DEF IInv, HeldWhileActive
  <2>4. CASE Inject \/ Calms
    <3>1. last' = last /\ turn' = turn /\ turn
      BY <2>4 DEF Inject, Calms
    <3>2. last' # "passed"
      BY <1>1, <3>1 DEF TypeOK
    <3> QED BY <1>7, <2>1, <3>1, <3>2 DEF IInv, HeldWhileActive
  <2>5. CASE SubagentEnds
    <3>1. last' = last /\ turn' = turn /\ children' = 0 /\ cache' = cache
      BY <2>5 DEF SubagentEnds
    <3>2. HeldWhileActive'
      BY <1>1, <2>1, <3>1 DEF HeldWhileActive, LetsGo, Cancelled, Active, Remembers, Idle
    <3> QED BY <1>1, <1>7, <2>1, <3>1, <3>2 DEF IInv
  <2>6. CASE DiffChanges
    <3>1. UNCHANGED <<last, turn, children, cache>>
      BY <2>6 DEF DiffChanges
    <3>2. HeldWhileActive'
      BY <1>1, <2>1, <3>1 DEF HeldWhileActive, LetsGo, Cancelled, Active, Remembers, Idle
    <3> QED BY <1>1, <1>7, <2>1, <3>1, <3>2 DEF IInv
  <2> QED BY <1>9, <2>2, <2>3, <2>4, <2>5, <2>6
<1> QED BY <1>3, <1>4, <1>5, <1>6, <1>8, <1>9, StepIs
-----------------------------------------------------------------------------
(* The copy, by which PreToolUse and Stop decide, and the mode files agree  *)
(* after every prompt, write, start, cancellation and Stop.                *)
THEOREM HookInvariant == Spec => []IInv
<1> QED BY InitInv, NextInv, PTL DEF Spec

(* Whatever prompts name, and however often, no hook leaves a file, a copy *)
(* or a cache its readers do not expect, or a Stop a repeat of no turn.    *)
THEOREM HookTypeCorrect == Spec => []TypeOK
<1>1. IInv => TypeOK
  BY DEF IInv
<1> QED BY <1>1, HookInvariant, PTL

(* recordSkillActivation, the agent's own writes and cancellations never   *)
(* leave two modes at work that may not overlap, with any number of modes  *)
(* named in one prompt.                                                    *)
THEOREM ModesApart == Spec => []OneAtATime
<1>1. IInv => OneAtATime
  BY DEF IInv, CopyInv, Faithful, Apart, OneAtATime, Machine!OneAtATime, ActiveModes, Active
<1> QED BY <1>1, HookInvariant, PTL

(* The copy of skill-active lists exactly the modes at work.               *)
THEOREM CopyDescribesModes == Spec => []CopyAgrees
<1>1. IInv => CopyAgrees
  BY DEF IInv, CopyInv, Faithful, CopyAgrees, Active
<1> QED BY <1>1, HookInvariant, PTL

(* A Stop of the leader passes over a mode at work only with its reason.   *)
THEOREM StopsHold == Spec => []HeldWhileActive
<1>1. IInv => HeldWhileActive
  BY DEF IInv
<1> QED BY <1>1, HookInvariant, PTL

(* While a plan or an interview is at work the leader edits no code, but   *)
(* beside ultrawork and after a hand-over.                                 *)
THEOREM PlanningEditsNothing == Spec => []NoCodeWhilePlanning
<1>1. IInv => NoCodeWhilePlanning
  BY DEF IInv
<1> QED BY <1>1, HookInvariant, PTL

(* Planning does not end itself: the agent's own state write ends it only  *)
(* beside an execution or after a hand-over.                               *)
THEOREM PlanningHandsOver == Spec => PlanningEndsByHandoff
<1> DEFINE Ends(m) == m \in Active \ Active' /\ Remembers
           Excused(m) == \/ ~turn \/ Active' \ Active # {} \/ Active \cap Machine!ExecutionLike # {}
                         \/ m = "ralplan" /\ HandedOver
<1>1. ASSUME IInv, [Next]_vars, NEW m \in {"deep-interview", "ralplan"}, Ends(m) PROVE Excused(m)
  <2>1. TypeOK /\ CopyInv /\ Remembers /\ m \in Active /\ m \notin Active'
    BY <1>1 DEF IInv
  <2>2. ~Idle /\ ~UNCHANGED vars
    BY <2>1 DEF Idle, Active, vars
  <2>3. CASE Prompt
    BY <2>3, Zenon DEF Prompt, PromptPlain, PromptCancel, PromptWorkflow, PromptChild, PromptOther, Opens
  <2>4. ASSUME NEW s \in modes, StartMode(s) PROVE Active' \ Active # {}
    <3>1. s \in modes \ Active /\ modes' = modes
      BY <2>4 DEF StartMode, Acts, Agent
    <3>2. file'[s] = "running"
      <4>1. s \in Machine!Tracked /\ DOMAIN file = Machine!Tracked
        BY <2>1, <2>4 DEF TypeOK
      <4> QED BY <2>4, <4>1 DEF StartMode, Complete
    <3>3. s \in Active'
      BY <3>1, <3>2 DEF Active, On
    <3> QED BY <3>1, <3>3
  <2>5. ASSUME NEW s \in modes, NEW life \in Life, WriteState(s, life) PROVE Excused(m)
    <3>1. /\ modes' = modes /\ file' = [file EXCEPT ![s] = life] /\ (life \in On \/ ~Guarded)
          /\ s \in Active
      BY <2>5 DEF WriteState, Acts, Agent
    <3>2. ~Guarded
      BY <2>1, <3>1 DEF Active, TypeOK
    <3>3. \/ "ultrawork" \in Active
          \/ "deep-interview" \notin Active /\ ("ralplan" \in Active => HandedOver)
      BY <2>1, <3>2, EditMeets
    <3> QED BY <1>1, <2>1, <3>3 DEF Machine!ExecutionLike, Machine!PlanningLike, Machine!Tracked
  <2>6. ~StopStep /\ ~(EditProduct \/ Spawn \/ Reconcile \/ Inject \/ Calms \/ SubagentEnds
                        \/ DiffChanges)
    BY <2>1, <2>2, StopKeeps, RestKeeps
  <2> QED BY <1>1, <2>2, <2>3, <2>4, <2>5, <2>6, StepIs
<1>2. IInv /\ [Next]_vars =>
        [\A m \in {"deep-interview", "ralplan"} : Ends(m) => Excused(m)]_vars
  BY <1>1
<1> QED BY <1>2, HookInvariant, PTL DEF Spec, PlanningEndsByHandoff
=============================================================================
