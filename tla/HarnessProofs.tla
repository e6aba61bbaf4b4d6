---------------------------- MODULE HarnessProofs ----------------------------
(***************************************************************************)
(* What the harness around a workflow keeps, for any number of whoever     *)
(* takes part and of whatever befalls them: the transition table           *)
(* (WorkflowTransition) and the consensus gate (Planning), the rollout     *)
(* that is read beside Codex (RolloutWatcher), the siblings of an MCP      *)
(* server (McpSiblings), the wiki (Wiki), and what setup, uninstall and a  *)
(* launch leave of the user's own (Install, Settings).                     *)
(***************************************************************************)
EXTENDS WorkflowTransition, Planning, RolloutWatcher, McpSiblings, Wiki, Install, Settings,
        FiniteSetTheorems, WellFoundedInduction, SequenceTheorems, TLAPS

(* A mode that is answered with "allow" or "overlap" joins modes it may    *)
(* overlap, or is there already, or is alone.                              *)
LEMMA JoinsOverlapping ==
  ASSUME NEW current \in SUBSET Modes, NEW mode \in Modes,
         Kind(current, mode) \in {"allow", "overlap"}
  PROVE  mode \in current \/ current = {} \/ \A c \in current : Overlaps(c, mode)
<1>1. CASE mode \in current \/ current = {}
  BY <1>1
<1>2. CASE ~(mode \in current \/ current = {})
  <2>1. Kind(current, mode) = "overlap"
    BY <1>2 DEF Kind
  <2>2. QED
    BY <1>2, <2>1 DEF Kind
<1>3. QED
  BY <1>1, <1>2

(* Every scope has a set of tracked modes.                                 *)
THEOREM ModesTypeCorrect == Spec => []TypeOK
<1>1. Init => TypeOK
  BY DEF Init, TypeOK
<1>2. TypeOK /\ [Next]_active => TypeOK'
  <2> SUFFICES ASSUME TypeOK, [Next]_active PROVE TypeOK'
    OBVIOUS
  <2>1. ASSUME NEW s \in Scopes, NEW mode \in Modes, Activate(s, mode) PROVE TypeOK'
    BY <2>1 DEF TypeOK, Activate
  <2>2. ASSUME NEW s \in Scopes, NEW mode \in Modes, Deactivate(s, mode) PROVE TypeOK'
    BY <2>2 DEF TypeOK, Deactivate
  <2>3. CASE UNCHANGED active
    BY <2>3 DEF TypeOK
  <2>4. QED
    BY <2>1, <2>2, <2>3 DEF Next
<1>3. QED
  BY <1>1, <1>2, PTL DEF Spec

(* At most one mode of a scope is active beside ultrawork.                 *)
THEOREM OneModeAtATime == Spec => []OneAtATime
<1>1. Init => OneAtATime
  BY DEF Init, OneAtATime
<1>2. TypeOK /\ OneAtATime /\ [Next]_active => OneAtATime'
  <2> SUFFICES ASSUME TypeOK, OneAtATime, [Next]_active PROVE OneAtATime'
    OBVIOUS
  <2>1. ASSUME NEW s \in Scopes, NEW mode \in Modes, Activate(s, mode) PROVE OneAtATime'
    <3>1. active[s] \in SUBSET Modes
      BY DEF TypeOK
    <3>2. active'[s] = active[s] \cup {mode}
      BY <2>1 DEF TypeOK, Activate
    <3>3. \A t \in Scopes \ {s} : active'[t] = active[t]
      BY <2>1 DEF TypeOK, Activate
    <3>4. mode \in active[s] \/ active[s] = {} \/ \A c \in active[s] : Overlaps(c, mode)
      BY <2>1, <3>1, JoinsOverlapping DEF Activate
    <3>5. \A a, b \in active'[s] : a = b \/ Overlaps(a, b)
      BY <3>2, <3>4 DEF OneAtATime, Overlaps
    <3>6. QED
      BY <3>3, <3>5 DEF OneAtATime
  <2>2. ASSUME NEW s \in Scopes, NEW mode \in Modes, Deactivate(s, mode) PROVE OneAtATime'
    <3>1. \A t \in Scopes : active'[t] \subseteq active[t]
      BY <2>2 DEF TypeOK, Deactivate
    <3>2. QED
      BY <3>1 DEF OneAtATime
  <2>3. CASE UNCHANGED active
    BY <2>3 DEF OneAtATime
  <2>4. QED
    BY <2>1, <2>2, <2>3 DEF Next
<1>3. QED
  BY <1>1, <1>2, ModesTypeCorrect, PTL DEF Spec

(* Planning is entered only from rest, from planning or beside ultrawork.  *)
THEOREM PlanningKept == Spec => NoRollback
<1>1. TypeOK /\ [Next]_active =>
        [\A s \in Scopes : \A mode \in (active'[s] \ active[s]) \cap PlanningLike :
           active[s] \cap ExecutionLike \subseteq {"ultrawork"}]_active
  <2> SUFFICES ASSUME TypeOK, [Next]_active, NEW s \in Scopes,
                      NEW new \in (active'[s] \ active[s]) \cap PlanningLike
               PROVE  active[s] \cap ExecutionLike \subseteq {"ultrawork"}
    OBVIOUS
  <2>1. ASSUME NEW t \in Scopes, NEW mode \in Modes, Activate(t, mode)
        PROVE  active[s] \cap ExecutionLike \subseteq {"ultrawork"}
    <3>1. s = t /\ new = mode
      BY <2>1 DEF TypeOK, Activate
    <3>2. active[s] = {} \/ \A c \in active[s] : Overlaps(c, new)
      BY <2>1, <3>1, JoinsOverlapping DEF Activate, TypeOK
    <3>3. QED
      BY <3>2 DEF Overlaps, PlanningLike
  <2>2. ASSUME NEW t \in Scopes, NEW mode \in Modes, Deactivate(t, mode) PROVE FALSE
    BY <2>2 DEF TypeOK, Deactivate
  <2>3. CASE UNCHANGED active
    BY <2>3
  <2>4. QED
    BY <2>1, <2>2, <2>3 DEF Next
<1>2. QED
  BY <1>1, ModesTypeCorrect, PTL DEF Spec, NoRollback

-----------------------------------------------------------------------------
(* What the consensus gate is for, for any threads, any claims, any number *)
(* of iterations and cycles: past ralplan the pipeline holds the approvals *)
(* of two different subagents, neither of them the leader.  The gate looks *)
(* once, when ralplan is left; that its answer stays true is owed to the   *)
(* registry of lanes, whose leader stays and whose subagents stay          *)
(* subagents - which ServiceProofs shows of the tracker.                   *)
PastRalplan == {"ultragoal", "code-review", "ultraqa"}

(* Between the gate and the end of the pipeline, more than the property    *)
(* says: the two are recorded threads and the leader is recorded as one.   *)
Handed ==
  pipe.pc \in PastRalplan =>
    /\ pipe.handed.architect # pipe.handed.critic
    /\ \A t \in {pipe.handed.architect, pipe.handed.critic} : t \in Threads /\ lane[t] \in Roles
    /\ leader \in Threads /\ lane[leader] = "leader"

PlanningIInv ==
  /\ leader \in Someone
  /\ lane \in [Threads -> Roles \cup {"leader", "none"}]
  /\ pipe = [pc |-> pipe.pc, cycle |-> pipe.cycle, handed |-> pipe.handed]
  /\ pipe.pc \in Stage \cup Ended
  /\ Handed

-----------------------------------------------------------------------------
LEMMA PlanningBegins ==
  ASSUME PlanningInit, leader \in Someone, lane \in [Threads -> Roles \cup {"leader", "none"}]
  PROVE  PlanningIInv
BY DEF PlanningInit, LaneInit, PlanningIInv, Handed, PastRalplan, NoPipe, Someone, Ended

(* A turn of some thread, reported to the tracker: nothing that was taken  *)
(* from it changes.                                                        *)
LEMMA LaneKeeps ==
  ASSUME Nobody \notin Threads, PlanningIInv, LaneStep, UNCHANGED planning
  PROVE  PlanningIInv'
<1> PICK t \in Threads, r \in Roles \cup {"leader", "none"} :
      /\ leader' \in IF leader = Nobody THEN Someone ELSE {leader}
      /\ lane[t] # "none" => (r \in Roles <=> lane[t] \in Roles) /\ r # "none"
      /\ lane' = [lane EXCEPT ![t] = r]
  BY DEF LaneStep
<1>1. lane' \in [Threads -> Roles \cup {"leader", "none"}] /\ leader' \in Someone
  BY DEF PlanningIInv
<1>2. UNCHANGED pipe
  BY DEF planning
<1>3. Handed'
  BY <1>2 DEF PlanningIInv, Handed, Roles, Someone
<1> QED BY <1>1, <1>2, <1>3 DEF PlanningIInv

(* The five stages follow each other.                                      *)
LEMMA StageOrder ==
  /\ Stage = {"deep-interview", "ralplan", "ultragoal", "code-review", "ultraqa"}
  /\ pipe.pc = "deep-interview" => NextStage = "ralplan"
  /\ pipe.pc = "ultragoal" => NextStage = "code-review"
  /\ pipe.pc = "code-review" => NextStage = "ultraqa"
<1>1. /\ Stages[1] = "deep-interview" /\ Stages[2] = "ralplan" /\ Stages[3] = "ultragoal"
      /\ Stages[4] = "code-review" /\ Stages[5] = "ultraqa"
  BY DEF Stages
<1>2. \A i \in 1..5 : i = 1 \/ i = 2 \/ i = 3 \/ i = 4 \/ i = 5
  OBVIOUS
<1>3. Stage = {"deep-interview", "ralplan", "ultragoal", "code-review", "ultraqa"}
  BY <1>1, <1>2 DEF Stage
<1>4. ASSUME NEW k \in 1..4, pipe.pc = Stages[k] PROVE NextStage = Stages[k + 1]
  <2>1. \A i \in 1..5 : Stages[i] = pipe.pc => i = k
    BY <1>1, <1>2, <1>4
  <2>2. (CHOOSE i \in 1..5 : Stages[i] = pipe.pc) = k
    BY <1>4, <2>1
  <2> QED BY <2>2 DEF NextStage
<1> QED BY <1>1, <1>3, <1>4

-----------------------------------------------------------------------------
(* A step that leaves the pipeline alone, and one that takes it where      *)
(* nothing is handed on, or on with what it was handed.                    *)
LEMMA PipeKeeps ==
  ASSUME PlanningIInv, UNCHANGED lanes,
         pipe' = [pc |-> pipe'.pc, cycle |-> pipe'.cycle, handed |-> pipe'.handed],
         pipe'.pc \in Stage \cup Ended,
         \/ pipe'.pc \notin PastRalplan
         \/ pipe.pc \in PastRalplan /\ pipe'.handed = pipe.handed
  PROVE  PlanningIInv'
BY DEF PlanningIInv, lanes, Handed

(* What the gate lets through is backed by the tracker.                    *)
LEMMA Gate ==
  ASSUME Nobody \notin Threads, Consensus # None
  PROVE  Backed(Consensus)
BY DEF Consensus

LEMMA NextKeeps ==
  ASSUME Nobody \notin Threads, PlanningIInv, [PlanningNext]_<<lanes, planning>>
  PROVE  PlanningIInv'
<1>0. ASSUME UNCHANGED lanes, UNCHANGED pipe PROVE PlanningIInv'
  BY <1>0 DEF PlanningIInv, lanes, Handed
<1>1. ASSUME UNCHANGED lanes, RunStep PROVE PlanningIInv'
  BY <1>0, <1>1 DEF RunStep, LoseRun, RunThrows, Draft, ArchitectReview, CriticReview
<1>2. ASSUME UNCHANGED lanes, PassiveStage PROVE PlanningIInv'
  <2>1. pipe' = [pipe EXCEPT !.pc = NextStage] /\ pipe.pc \in {"deep-interview", "ultragoal"}
    BY <1>2 DEF PassiveStage
  <2>2. /\ pipe' = [pc |-> pipe'.pc, cycle |-> pipe'.cycle, handed |-> pipe'.handed]
        /\ pipe'.pc = NextStage /\ pipe'.handed = pipe.handed
    BY <2>1 DEF PlanningIInv
  <2> QED BY <1>2, <2>1, <2>2, StageOrder, PipeKeeps DEF PastRalplan
<1>3. ASSUME UNCHANGED lanes, LosePipe PROVE PlanningIInv'
  BY <1>3, PipeKeeps DEF LosePipe, NoPipe, PastRalplan, Ended
<1>4. ASSUME UNCHANGED lanes, NEW how \in {"completed", "failed"}, EndPipe(how) PROVE PlanningIInv'
  BY <1>4, PipeKeeps DEF EndPipe, NoPipe, PastRalplan, Ended
<1>5. ASSUME UNCHANGED lanes, NEW ok \in BOOLEAN, RalplanStage(ok) PROVE PlanningIInv'
  <2>1. CASE EndPipe("failed")
    BY <1>4, <1>5, <2>1
  <2>2. CASE Consensus # None /\ pipe' = [pipe EXCEPT !.pc = "ultragoal", !.handed = Consensus]
    <3>1. Backed(Consensus)
      BY <2>2, Gate
    <3>2. /\ pipe' = [pc |-> "ultragoal", cycle |-> pipe.cycle, handed |-> Consensus]
          /\ pipe'.pc = "ultragoal" /\ pipe'.handed = Consensus
      BY <2>2 DEF PlanningIInv
    <3>3. Handed'
      BY <1>5, <3>1, <3>2 DEF Handed, Backed, lanes, PlanningIInv, Someone, Roles
    <3> QED BY <1>5, <3>2, <3>3, StageOrder DEF PlanningIInv, lanes
  <2> QED BY <1>5, <2>1, <2>2 DEF RalplanStage
<1>6. ASSUME UNCHANGED lanes, NEW ok \in BOOLEAN, QualityGate(ok) PROVE PlanningIInv'
  <2> DEFINE cycle == CycleAfter(pipe.pc)
  <2>1. pipe.pc \in {"code-review", "ultraqa"}
    BY <1>6 DEF QualityGate
  <2>2. CASE EndPipe("completed") \/ EndPipe("failed")
    BY <1>4, <1>6, <2>2
  <2>3. CASE pipe.pc = "code-review" /\ pipe' = [pipe EXCEPT !.pc = NextStage]
    <3>1. /\ pipe' = [pc |-> pipe'.pc, cycle |-> pipe'.cycle, handed |-> pipe'.handed]
          /\ pipe'.pc = NextStage /\ pipe'.handed = pipe.handed
      BY <2>3 DEF PlanningIInv
    <3> QED BY <1>6, <2>3, <3>1, StageOrder, PipeKeeps DEF PastRalplan
  <2>4. CASE pipe' = [[pipe EXCEPT !.cycle = CycleAfter(pipe.pc)] EXCEPT !.pc = "ralplan"]
    <3>1. /\ pipe' = [pc |-> pipe'.pc, cycle |-> pipe'.cycle, handed |-> pipe'.handed]
          /\ pipe'.pc = "ralplan"
      BY <2>4 DEF PlanningIInv
    <3> QED BY <1>6, <3>1, StageOrder, PipeKeeps DEF PastRalplan
  <2> QED BY <1>6, <2>1, <2>2, <2>3, <2>4 DEF QualityGate
<1>7. ASSUME UNCHANGED lanes, StartPipeline PROVE PlanningIInv'
  <2>1. pipe' = [pc |-> "deep-interview", cycle |-> 0, handed |-> None]
    BY <1>7 DEF StartPipeline, NoPipe, Stages
  <2> QED BY <1>7, <2>1, StageOrder, PipeKeeps DEF PastRalplan
<1>8. ASSUME UNCHANGED lanes, Others PROVE PlanningIInv'
  BY <1>0, <1>7, <1>8 DEF Others, StartRun, RecordReviews, Cancel, Clear
<1>9. CASE UNCHANGED <<lanes, planning>>
  BY <1>0, <1>9 DEF planning
<1> QED BY <1>1, <1>2, <1>3, <1>5, <1>6, <1>8, <1>9, LaneKeeps DEF PlanningNext, PipeStep

LEMMA ApprovalsKept ==
  ASSUME Nobody \notin Threads
  PROVE  /\ PlanningInit /\ leader \in Someone /\ lane \in [Threads -> Roles \cup {"leader", "none"}]
         /\ [][PlanningNext]_<<lanes, planning>>
         => []LanesIndependent
<1>1. PlanningIInv => LanesIndependent
  BY DEF PlanningIInv, Handed, LanesIndependent, PastRalplan, Roles, Someone
<1> QED BY <1>1, PlanningBegins, NextKeeps, PTL

(* "Do not hand off to execution until durable Architect approval followed *)
(* by Critic approval" (src/pipeline/stages/ralplan.ts:158): past ralplan  *)
(* the pipeline holds approvals of two subagents that are not the leader,  *)
(* whatever hooks, reviews, cancels and returns to ralplan do              *)
(* (runPipeline, src/pipeline/orchestrator.ts).                            *)
THEOREM ApprovalsStand ==
  ASSUME Nobody \notin Threads
  PROVE  PlanningSpec => []LanesIndependent
<1>1. PlanningInit /\ LaneInit => /\ leader \in Someone
                                 /\ lane \in [Threads -> Roles \cup {"leader", "none"}]
  BY DEF LaneInit, Someone
<1> QED BY <1>1, ApprovalsKept, PTL DEF PlanningSpec
-----------------------------------------------------------------------------
LEMMA LeastNumber ==
  ASSUME NEW T, T \subseteq Nat, T # {}
  PROVE  \E x \in T : \A y \in T : x <= y
<1> DEFINE D == {1 .. n : n \in T}
<1>1. IsWellFoundedOn(StrictSubsetOrdering(Nat), FiniteSubsetsOf(Nat))
  BY FS_StrictSubsetOrderingWellFounded
<1>2. D \subseteq FiniteSubsetsOf(Nat) /\ D # {}
  <2>1. \A n \in T : IsFiniteSet(1 .. n)
    BY FS_Interval
  <2>2. \A n \in T : 1 .. n \in SUBSET Nat
    OBVIOUS
  <2> QED BY <2>1, <2>2 DEF FiniteSubsetsOf
<1>3. \E d \in D : \A e \in D : <<e, d>> \notin StrictSubsetOrdering(Nat)
  BY <1>1, <1>2, WFMin, Zenon
<1>4. PICK x \in T : \A y \in T : <<1 .. y, 1 .. x>> \notin StrictSubsetOrdering(Nat)
  BY <1>3
<1> HIDE DEF D
<1>5. \A y \in T : y < x => <<1 .. y, 1 .. x>> \in StrictSubsetOrdering(Nat)
  BY DEF StrictSubsetOrdering
<1>6. \A y \in T : ~(y < x)
  BY <1>4, <1>5
<1> QED BY <1>6

LEMMA NumberInduction ==
  ASSUME NEW S, 0 \in S, \A n \in Nat : n \in S => n + 1 \in S
  PROVE  Nat \subseteq S
<1> SUFFICES ASSUME Nat \ S # {} PROVE FALSE
  OBVIOUS
<1>1. PICK x \in Nat \ S : \A y \in Nat \ S : x <= y
  BY LeastNumber
<1>2. x # 0 /\ x - 1 \in Nat /\ x - 1 \notin Nat \ S
  BY <1>1
<1> QED BY <1>1, <1>2


(***************************************************************************)
(* The watcher of a rollout                                                *)
(***************************************************************************)
LEMMA Halves ==
  ASSUME NEW k \in Nat
  PROVE  /\ (k + 1) \div 2 = IF (k + 1) % 2 = 0 THEN k \div 2 + 1 ELSE k \div 2
         /\ k \div 2 \in Nat
         /\ \A h \in 0..k : h \div 2 <= k \div 2
  OBVIOUS

Stretch(first, n) == [i \in 1..n |-> first - 1 + i]
Following(k, n) == [i \in 1..n |-> k + i]      \* the n lines after line k

LEMMA OneMoreLine ==
  ASSUME NEW k \in Nat, NEW n \in Nat
  PROVE  Following(k, n) \in Seq(Nat) /\ Append(Following(k, n), k + n + 1) = Following(k, n + 1)
<1>1. Following(k, n) \in Seq(Nat) /\ Len(Following(k, n)) = n
  BY DEF Following
<1>2. Append(Following(k, n), k + n + 1) = [i \in 1..n + 1 |-> IF i = n + 1 THEN k + n + 1 ELSE Following(k, n)[i]]
  BY <1>1
<1>3. \A i \in 1..n + 1 : (IF i = n + 1 THEN k + n + 1 ELSE Following(k, n)[i]) = k + i
  BY DEF Following
<1> QED BY <1>1, <1>2, <1>3 DEF Following

(* Of a stretch of the file, the lines that are whole in it.               *)
LEMMA StretchLines ==
  ASSUME NEW first \in Nat \ {0}, NEW n \in Nat \ {0}
  PROVE  WholeLines(Stretch(first, n)) = Following(first \div 2, (first - 1 + n) \div 2 - first \div 2)
<1> DEFINE text == Stretch(first, n)
           lines(i) == IF i = 0 THEN <<>> ELSE Following(first \div 2, (first - 1 + i) \div 2 - first \div 2)
           body(f) == [i \in 0..n |-> IF i = 0 THEN <<>>
                                      ELSE IF Whole(text, i) THEN Append(f[i - 1], text[i] \div 2) ELSE f[i - 1]]
           told == [i \in 0..n |-> lines(i)]
<1>1. Len(text) = n /\ \A i \in 1..n : text[i] = first - 1 + i
  BY DEF Stretch
<1>2. \A i \in 1..n : Whole(text, i) <=> (first - 1 + i) % 2 = 0 /\ i > 1
  BY <1>1 DEF Whole
<1> HIDE DEF text
<1>3. Following(first \div 2, 0) = <<>> /\ Following(first \div 2, -1) = <<>>
  BY DEF Following
<1>4. ASSUME NEW i \in 1..n
      PROVE  lines(i) = IF Whole(text, i) THEN Append(lines(i - 1), text[i] \div 2) ELSE lines(i - 1)
  <2> DEFINE m == (first - 1 + i) \div 2 - first \div 2
  <2>1. CASE Whole(text, i)
    <3> DEFINE k == first - 2 + i
    <3>0. k \in Nat /\ k + 1 = first - 1 + i /\ (k + 1) % 2 = 0 /\ i > 1 /\ first \in 0..k /\ text[i] = k + 1
          /\ first - 1 + (i - 1) = k
      BY <1>1, <1>2, <2>1
    <3> HIDE DEF k
    <3>a. (k + 1) \div 2 = k \div 2 + 1 /\ k \div 2 \in Nat /\ first \div 2 \in Nat /\ first \div 2 <= k \div 2
      BY <3>0, Halves
    <3>1. (first - 1 + (i - 1)) \div 2 - first \div 2 = m - 1 /\ m \in Nat \ {0} /\ text[i] \div 2 = first \div 2 + m
          /\ i - 1 # 0 /\ first \div 2 \in Nat
      BY <3>0, <3>a
    <3> HIDE DEF m
    <3>2. Append(Following(first \div 2, m - 1), first \div 2 + (m - 1) + 1) = Following(first \div 2, (m - 1) + 1)
      <4>1. m - 1 \in Nat /\ first \div 2 \in Nat
        BY <3>1
      <4> HIDE DEF Following
      <4> QED BY <4>1, OneMoreLine
    <3>3. (m - 1) + 1 = m /\ first \div 2 + (m - 1) + 1 = text[i] \div 2
      BY <3>1
    <3> QED BY <2>1, <3>1, <3>2, <3>3 DEF m
  <2>2. CASE ~Whole(text, i) /\ i > 1
    <3>1. (first - 2 + i) \div 2 = (first - 1 + i) \div 2
      BY <1>2, <2>2
    <3> QED BY <2>2, <3>1
  <2>3. CASE i = 1
    <3>1. first - 1 + i = first
      BY <2>3
    <3>2. m = 0
      BY <3>1, Halves
    <3> QED BY <1>2, <1>3, <2>3, <3>2
  <2> QED BY <2>1, <2>2, <2>3
<1> HIDE DEF lines
<1>5. told = body(told)
  <2>1. \A i \in 0..n : told[i] = body(told)[i]
    <3> TAKE i \in 0..n
    <3>1. CASE i = 0
      BY <3>1 DEF lines
    <3>2. CASE i \in 1..n
      <4>1. i - 1 \in 0..n /\ i # 0
        BY <3>2
      <4>2. told[i - 1] = lines(i - 1) /\ told[i] = lines(i)
        BY <4>1
      <4>3. body(told)[i] = IF Whole(text, i) THEN Append(told[i - 1], text[i] \div 2) ELSE told[i - 1]
        BY <4>1
      <4>4. lines(i) = IF Whole(text, i) THEN Append(lines(i - 1), text[i] \div 2) ELSE lines(i - 1)
        BY <1>4, <3>2
      <4> HIDE DEF told, body
      <4> QED BY <4>2, <4>3, <4>4
    <3>3. i = 0 \/ i \in 1..n
      OBVIOUS
    <3> HIDE DEF told, body
    <3> QED BY <3>1, <3>2, <3>3
  <2> QED BY <2>1
<1> DEFINE upto == CHOOSE f : f = body(f)
<1>6. upto = body(upto)
  <2>1. \E f : f = body(f)
    BY <1>5, Zenon
  <2> HIDE DEF body, told
  <2> QED BY <2>1, Zenon
<1>7. WholeLines(text) = upto[n]
  BY <1>1 DEF WholeLines
<1>8. upto[n] = told[n]
  <2> HIDE DEF upto
  <2>1. \A i \in 0..n : upto[i] = IF i = 0 THEN <<>>
                                 ELSE IF Whole(text, i) THEN Append(upto[i - 1], text[i] \div 2) ELSE upto[i - 1]
    BY <1>6
  <2>2. \A i \in 0..n : told[i] = IF i = 0 THEN <<>>
                                 ELSE IF Whole(text, i) THEN Append(told[i - 1], text[i] \div 2) ELSE told[i - 1]
    BY <1>5
  <2> HIDE DEF told, body
  <2> DEFINE S == {i \in Nat : i \in 0..n => upto[i] = told[i]}
  <2>3. 0 \in S
    BY <2>1, <2>2
  <2>4. ASSUME NEW i \in Nat, i \in S PROVE i + 1 \in S
    <3> SUFFICES ASSUME i + 1 \in 0..n PROVE upto[i + 1] = told[i + 1]
      OBVIOUS
    <3>1. upto[i] = told[i] /\ i + 1 # 0 /\ (i + 1) - 1 = i
      BY <2>4
    <3> QED BY <2>1, <2>2, <3>1
  <2> HIDE DEF S
  <2>5. Nat \subseteq S
    BY <2>3, <2>4, NumberInduction
  <2> QED BY <2>5 DEF S
<1> QED BY <1>7, <1>8 DEF text, lines

LEMMA StretchRest ==
  ASSUME NEW first \in Nat \ {0}, NEW n \in Nat \ {0}
  PROVE  Rest(Stretch(first, n)) = IF (first - 1 + n) % 2 = 1 THEN <<first - 1 + n>> ELSE <<>>
<1> DEFINE text == Stretch(first, n)
           ends(i) == (i = 0 \/ text[i] % 2 = 0) /\ \A j \in i + 1..Len(text) : text[j] % 2 = 1
           shorter == CHOOSE i \in 0..Len(text) - 1 : ends(i)
<1>1. Len(text) = n /\ text # <<>> /\ text \in Seq(Nat) /\ \A i \in 1..n : text[i] = first - 1 + i
  BY DEF Stretch
<1> HIDE DEF text
<1>2. CASE (first - 1 + n) % 2 = 0
  BY <1>1, <1>2 DEF Rest, text
<1>3. CASE (first - 1 + n) % 2 = 1
  <2>1. n - 1 \in 0..n - 1 /\ ends(n - 1)
    <3>1. (n - 1) + 1 = n /\ n - 1 \in 0..n - 1
      OBVIOUS
    <3>2. n - 1 = 0 \/ text[n - 1] % 2 = 0
      BY <1>1, <1>3
    <3>3. \A j \in n..n : text[j] % 2 = 1
      BY <1>1, <1>3
    <3> QED BY <1>1, <3>1, <3>2, <3>3
  <2>2. ASSUME NEW i \in 0..n - 1, ends(i) PROVE i = n - 1
    <3> SUFFICES ASSUME i + 1 \in 1..n - 1 PROVE FALSE
      BY <1>1
    <3>1. text[i + 1] % 2 = 1 /\ text[i + 2] % 2 = 1
      BY <1>1, <2>2
    <3>2. i + 1 \in 1..n /\ i + 2 \in 1..n /\ i \in Nat
      BY <2>2
    <3>3. text[i + 1] = first + i /\ text[i + 2] = first + i + 1
      BY <1>1, <3>2
    <3>4. (first + i) % 2 = 1 /\ (first + i + 1) % 2 = 1 /\ first + i \in Nat
      BY <3>1, <3>2, <3>3
    <3> QED BY <3>4
  <2>3. shorter = n - 1
    BY <1>1, <2>1, <2>2
  <2>4. Rest(text) = SubSeq(text, shorter + 1, Len(text))
    <3>1. text # <<>> /\ text[Len(text)] % 2 = 1
      BY <1>1, <1>3
    <3> QED BY <3>1 DEF Rest
  <2> HIDE DEF shorter
  <2>5. Rest(text) = SubSeq(text, n, n)
    BY <1>1, <2>3, <2>4
  <2>6. SubSeq(text, n, n) = <<text[n]>>
    <3>1. SubSeq(text, n, n) \in Seq(Nat) /\ Len(SubSeq(text, n, n)) = 1 /\ SubSeq(text, n, n)[1] = text[n]
      BY <1>1, SubSeqProperties
    <3>2. <<text[n]>> \in Seq(Nat) /\ Len(<<text[n]>>) = 1 /\ <<text[n]>>[1] = text[n]
      BY <1>1
    <3> DEFINE one == SubSeq(text, n, n)
               two == <<text[n]>>
    <3>3. Len(one) = Len(two) /\ \A i \in 1..Len(one) : one[i] = two[i]
      BY <3>1, <3>2
    <3> HIDE DEF one, two
    <3>4. one \in Seq(Nat) /\ two \in Seq(Nat)
      BY <3>1, <3>2 DEF one, two
    <3>5. one = two
      BY <3>3, <3>4, SeqEqual
    <3> QED BY <3>5 DEF one, two
  <2> QED BY <1>1, <1>3, <2>5, <2>6 DEF text
<1> QED BY <1>2, <1>3

-----------------------------------------------------------------------------
Sizes == 0..2 * MaxLines
Places == {"rest", "track", "stat", "read", "lines", "state"}
AtStep(p) == poll[p].at

(* A poller is a record, and holds lines only while it hands them out.     *)
PollShape ==
  /\ poll = [p \in Pollers |-> [at |-> poll[p].at, from |-> poll[p].from,
                                size |-> poll[p].size, lines |-> poll[p].lines]]
  /\ \A p \in Pollers : /\ AtStep(p) \in Places
                        /\ poll[p].from \in Sizes /\ poll[p].size \in Sizes
                        /\ AtStep(p) # "lines" => poll[p].lines = <<>>

(* The flush works between the signal and the end, and then alone.         *)
OnePoller ==
  /\ clean \in BOOLEAN /\ due \in Nat
  /\ phase = "running" => clean /\ AtStep("flush") = "rest"
  /\ clean /\ phase # "running" => AtStep("tick") = "rest"
  /\ clean /\ phase # "stopping" => AtStep("flush") = "rest"

(* How far the file was read, and what of the last line is held back.      *)
Untracked ==
  tracked = -1 => /\ offset = 0 /\ dispatched = <<>>
                  /\ \A p \in Pollers : AtStep(p) \in {"rest", "track"}
HeldBack == IF tracked >= 0 /\ offset > tracked /\ offset % 2 = 1 THEN <<offset>> ELSE <<>>
FileRead == Untracked /\ tracked <= offset /\ offset <= written /\ partial = HeldBack

(* The lines that were read: told, or about to be.                         *)
Told == Len(dispatched)
Reached == IF offset \div 2 > Skipped THEN offset \div 2 - Skipped ELSE 0
LinesRead ==
  /\ Told \in Nat /\ dispatched = Following(Skipped, Told)
  /\ \A p \in Pollers : AtStep(p) = "read" =>
       poll[p].from = offset /\ offset < poll[p].size /\ poll[p].size <= written
  /\ \A p \in Pollers : AtStep(p) = "lines" =>
       Told <= Reached /\ poll[p].lines = Following(Skipped + Told, Reached - Told)
  /\ (\A p \in Pollers : AtStep(p) # "lines") => Told = Reached

(* The flush reads on to what was in the file when the signal came.        *)
DueRead ==
  /\ phase # "running" => 2 * due <= written
  /\ AtStep("flush") = "read" => 2 * due <= poll["flush"].size
  /\ AtStep("flush") \in {"lines", "state"} \/ phase = "over" => 2 * due <= offset

Undisturbed == clean /\ truncates = 0
WatcherIInv ==
  /\ WatcherTypeOK /\ PollShape /\ OnePoller
  /\ Undisturbed => FileRead /\ LinesRead /\ DueRead

WatcherBase == MaxLines \in Nat /\ MaxTruncates \in Nat

(* The record of a poller that moves.                                      *)
LEMMA PollerMoves ==
  ASSUME PollShape, NEW p \in Pollers, NEW r,
         r = [at |-> r.at, from |-> r.from, size |-> r.size, lines |-> r.lines],
         r.at \in Places, r.from \in Sizes, r.size \in Sizes, r.at # "lines" => r.lines = <<>>,
         poll' = [poll EXCEPT ![p] = r]
  PROVE  /\ PollShape'
         /\ poll'[p] = r
         /\ \A q \in Pollers \ {p} : poll'[q] = poll[q]
<1>1. poll = [q \in Pollers |-> [at |-> poll[q].at, from |-> poll[q].from,
                                 size |-> poll[q].size, lines |-> poll[q].lines]]
  BY DEF PollShape
<1>3. DOMAIN poll = Pollers
  BY <1>1
<1>4. poll'[p] = r /\ (\A q \in Pollers \ {p} : poll'[q] = poll[q]) /\ DOMAIN poll' = Pollers
      /\ poll' = [q \in Pollers |-> poll'[q]]
  BY <1>3
<1>5. \A q \in Pollers : poll'[q] = [at |-> poll'[q].at, from |-> poll'[q].from,
                                     size |-> poll'[q].size, lines |-> poll'[q].lines]
  <2> TAKE q \in Pollers
  <2>1. CASE q = p
    BY <1>4, <2>1
  <2>2. CASE q # p
    <3>1. poll[q] = [at |-> poll[q].at, from |-> poll[q].from, size |-> poll[q].size, lines |-> poll[q].lines]
      BY <1>1
    <3> QED BY <1>4, <2>2, <3>1
  <2> QED BY <2>1, <2>2
<1>6. poll' = [q \in Pollers |-> [at |-> poll'[q].at, from |-> poll'[q].from,
                                  size |-> poll'[q].size, lines |-> poll'[q].lines]]
  BY <1>4, <1>5
<1>7. \A q \in Pollers : /\ poll'[q].at \in Places
                         /\ poll'[q].from \in Sizes /\ poll'[q].size \in Sizes
                         /\ poll'[q].at # "lines" => poll'[q].lines = <<>>
  BY <1>4 DEF PollShape, AtStep
<1>8. PollShape'
  BY <1>6, <1>7 DEF PollShape, AtStep, Sizes
<1> QED BY <1>4, <1>8

LEMMA PollerAt ==
  ASSUME PollShape, NEW p \in Pollers
  PROVE  poll[p] = [at |-> AtStep(p), from |-> poll[p].from, size |-> poll[p].size, lines |-> poll[p].lines]
  BY DEF PollShape, AtStep

LEMMA PollerGoes ==
  ASSUME PollShape, NEW p \in Pollers, NEW at \in Places,
         at # "lines" => poll[p].lines = <<>>, Goto(p, at)
  PROVE  /\ PollShape'
         /\ poll'[p] = [at |-> at, from |-> poll[p].from, size |-> poll[p].size, lines |-> poll[p].lines]
         /\ \A q \in Pollers \ {p} : poll'[q] = poll[q]
<1>1. DOMAIN poll = Pollers /\ poll[p].from \in Sizes /\ poll[p].size \in Sizes
  BY DEF PollShape
<1> DEFINE old == poll[p]
           there == AtStep(p)
           from == poll[p].from
           size == poll[p].size
           lines == poll[p].lines
<1>a. old = [at |-> there, from |-> from, size |-> size, lines |-> lines]
  BY PollerAt
<1> HIDE DEF old, there, from, size, lines
<1>b. [old EXCEPT !.at = at] = [at |-> at, from |-> from, size |-> size, lines |-> lines]
  BY <1>a
<1>2. [poll[p] EXCEPT !.at = at] = [at |-> at, from |-> poll[p].from, size |-> poll[p].size, lines |-> poll[p].lines]
  BY <1>b DEF old, from, size, lines
<1>3. poll' = [poll EXCEPT ![p] = [at |-> at, from |-> poll[p].from, size |-> poll[p].size, lines |-> poll[p].lines]]
  BY <1>2 DEF Goto
<1> DEFINE r == [at |-> at, from |-> from, size |-> size, lines |-> lines]
<1>4. r = [at |-> r.at, from |-> r.from, size |-> r.size, lines |-> r.lines]
      /\ r.at \in Places /\ r.from \in Sizes /\ r.size \in Sizes /\ (r.at # "lines" => r.lines = <<>>)
  BY <1>1 DEF from, size, lines
<1>5. poll' = [poll EXCEPT ![p] = r]
  BY <1>3 DEF from, size, lines
<1> HIDE DEF r
<1>6. PollShape' /\ poll'[p] = r /\ \A q \in Pollers \ {p} : poll'[q] = poll[q]
  BY <1>4, <1>5, PollerMoves
<1> QED BY <1>6 DEF r, from, size, lines

(* What is told does not depend on the pollers' moves that read nothing.   *)
LEMMA Bounds ==
  ASSUME WatcherBase, WatcherIInv
  PROVE  /\ written \in Nat /\ written \in Sizes /\ offset \in Nat /\ offset \in Sizes
         /\ tracked \in Int /\ (tracked = -1 \/ tracked \in Nat) /\ truncates \in Nat /\ due \in Nat
         /\ tracked \in -1..2 * MaxLines /\ MaxLines \in Nat /\ Sizes \subseteq Nat
  BY DEF WatcherBase, WatcherIInv, WatcherTypeOK, OnePoller, Sizes

LEMMA WriteKept ==
  ASSUME WatcherBase, WatcherIInv, Write
  PROVE  WatcherIInv'
<1>1. written' = written + 1 /\ written < 2 * MaxLines
      /\ UNCHANGED <<tracked, offset, partial, dispatched, poll, phase, due, truncates, clean>>
  BY DEF Write
<1>2. written' \in 0..2 * MaxLines
  BY <1>1, Bounds
<1>3. WatcherTypeOK' /\ PollShape' /\ OnePoller'
  BY <1>1, <1>2 DEF WatcherIInv, WatcherTypeOK, PollShape, OnePoller, AtStep, Sizes
<1>4. ASSUME Undisturbed' PROVE FileRead' /\ LinesRead' /\ DueRead'
  <2>1. FileRead /\ LinesRead /\ DueRead
    BY <1>1, <1>4 DEF Undisturbed, WatcherIInv
  <2>2. FileRead'
    BY <1>1, <2>1, Bounds DEF FileRead, Untracked, HeldBack, AtStep
  <2>3. \A p \in Pollers : poll[p].size <= written => poll[p].size <= written'
    <3>1. \A p \in Pollers : poll[p].size \in Nat
      BY Bounds DEF WatcherIInv, PollShape
    <3> QED BY <1>1, <3>1, Bounds
  <2>4. LinesRead'
    BY <1>1, <2>1, <2>3 DEF LinesRead, Reached, Told, Skipped, AtStep
  <2>5. DueRead'
    BY <1>1, <2>1, Bounds DEF DueRead, AtStep
  <2> QED BY <2>2, <2>4, <2>5
<1> QED BY <1>3, <1>4 DEF WatcherIInv

LEMMA TruncateKept ==
  ASSUME WatcherBase, WatcherIInv, Truncate
  PROVE  WatcherIInv'
<1>1. written' = 0 /\ truncates' = truncates + 1 /\ truncates < MaxTruncates
      /\ UNCHANGED <<tracked, offset, partial, dispatched, poll, phase, due, clean>>
  BY DEF Truncate
<1>2. written' \in 0..2 * MaxLines /\ truncates' \in 0..MaxTruncates /\ truncates' # 0
  BY <1>1, Bounds DEF WatcherBase
<1>3. WatcherTypeOK' /\ PollShape' /\ OnePoller'
  BY <1>1, <1>2 DEF WatcherIInv, WatcherTypeOK, PollShape, OnePoller, AtStep, Sizes
<1> QED BY <1>2, <1>3 DEF WatcherIInv, Undisturbed

(* A poller at work is alone, unless a signal came beside it.              *)
LEMMA Alone ==
  ASSUME OnePoller, clean, NEW p \in Pollers, AtStep(p) # "rest"
  PROVE  \A q \in Pollers \ {p} : AtStep(q) = "rest"
  BY DEF OnePoller, Pollers

LEMMA TickKept ==
  ASSUME WatcherBase, WatcherIInv, PollTick
  PROVE  WatcherIInv'
<1>1. phase = "running" /\ AtStep("tick") = "rest" /\ Goto("tick", "track") /\ "tick" \in Pollers
      /\ UNCHANGED <<written, tracked, offset, partial, dispatched, phase, due, truncates, clean>>
  BY DEF PollTick, AtStep, Pollers
<1>2. /\ PollShape' /\ poll'["tick"].at = "track" /\ poll'["flush"] = poll["flush"]
      /\ poll'["tick"].from = poll["tick"].from /\ poll'["tick"].size = poll["tick"].size
  <2>1. poll["tick"].lines = <<>> /\ "track" \in Places
    BY <1>1 DEF WatcherIInv, PollShape, Places
  <2>2. /\ PollShape' /\ \A q \in Pollers \ {"tick"} : poll'[q] = poll[q]
        /\ poll'["tick"] = [at |-> "track", from |-> poll["tick"].from, size |-> poll["tick"].size, lines |-> poll["tick"].lines]
    BY <1>1, <2>1, PollerGoes DEF WatcherIInv
  <2> QED BY <2>2 DEF Pollers
<1>3. WatcherTypeOK' /\ OnePoller'
  BY <1>1, <1>2 DEF WatcherIInv, WatcherTypeOK, OnePoller, AtStep, Pollers
<1>4. ASSUME Undisturbed' PROVE FileRead' /\ LinesRead' /\ DueRead'
  <2>1. FileRead /\ LinesRead /\ DueRead /\ AtStep("flush") = "rest"
    BY <1>1, <1>4 DEF Undisturbed, WatcherIInv, OnePoller
  <2>2. FileRead'
    BY <1>1, <1>2, <2>1 DEF FileRead, Untracked, HeldBack, AtStep, Pollers
  <2>3. LinesRead'
    BY <1>1, <1>2, <2>1 DEF LinesRead, Reached, Told, Skipped, AtStep, Pollers
  <2>4. DueRead'
    BY <1>1, <1>2, <2>1 DEF DueRead, AtStep
  <2> QED BY <2>2, <2>3, <2>4
<1> QED BY <1>2, <1>3, <1>4 DEF WatcherIInv

LEMMA SignalKept ==
  ASSUME WatcherBase, WatcherIInv, Signal
  PROVE  WatcherIInv'
<1>1. /\ phase = "running" /\ phase' = "stopping" /\ Goto("flush", "track") /\ "flush" \in Pollers
      /\ due' = written \div 2 /\ clean' = (AtStep("tick") = "rest")
      /\ UNCHANGED <<written, tracked, offset, partial, dispatched, truncates>>
  BY DEF Signal, AtStep, Pollers
<1>a. clean /\ AtStep("flush") = "rest"
  BY <1>1 DEF WatcherIInv, OnePoller
<1>2. /\ PollShape' /\ poll'["flush"].at = "track" /\ poll'["tick"] = poll["tick"]
      /\ poll'["flush"].from = poll["flush"].from /\ poll'["flush"].size = poll["flush"].size
  <2>1. poll["flush"].lines = <<>> /\ "track" \in Places
    BY <1>1, <1>a DEF WatcherIInv, PollShape, Places
  <2>2. /\ PollShape' /\ \A q \in Pollers \ {"flush"} : poll'[q] = poll[q]
        /\ poll'["flush"] = [at |-> "track", from |-> poll["flush"].from, size |-> poll["flush"].size, lines |-> poll["flush"].lines]
    BY <1>1, <2>1, PollerGoes DEF WatcherIInv
  <2> QED BY <2>2 DEF Pollers
<1>b. due' \in Nat /\ 2 * due' <= written
  BY <1>1, Bounds
<1>3. WatcherTypeOK' /\ OnePoller'
  <2>1. OnePoller'
    BY <1>1, <1>2, <1>b DEF OnePoller, AtStep
  <2> QED BY <1>1, <1>2, <2>1 DEF WatcherIInv, WatcherTypeOK, Pollers
<1>4. ASSUME Undisturbed' PROVE FileRead' /\ LinesRead' /\ DueRead'
  <2>1. FileRead /\ LinesRead /\ DueRead /\ AtStep("flush") = "rest" /\ AtStep("tick") = "rest"
    BY <1>1, <1>a, <1>4 DEF Undisturbed, WatcherIInv
  <2>2. FileRead'
    BY <1>1, <1>2, <2>1 DEF FileRead, Untracked, HeldBack, AtStep, Pollers
  <2>3. LinesRead'
    BY <1>1, <1>2, <2>1 DEF LinesRead, Reached, Told, Skipped, AtStep, Pollers
  <2>4. DueRead'
    BY <1>1, <1>2, <1>b, <2>1 DEF DueRead, AtStep
  <2> QED BY <2>2, <2>3, <2>4
<1> QED BY <1>2, <1>3, <1>4 DEF WatcherIInv

LEMMA SecondSignalKept ==
  ASSUME WatcherBase, WatcherIInv, SecondSignal
  PROVE  WatcherIInv'
<1>1. /\ phase' = "over" /\ clean' = FALSE
      /\ UNCHANGED <<written, tracked, offset, partial, dispatched, poll, due, truncates>>
  BY DEF SecondSignal
<1>2. WatcherTypeOK' /\ PollShape' /\ OnePoller'
  BY <1>1 DEF WatcherIInv, WatcherTypeOK, PollShape, OnePoller, AtStep, Sizes
<1> QED BY <1>1, <1>2 DEF WatcherIInv, Undisturbed

(* A step of a poller that neither ends nor begins its poll.               *)
LEMMA OnePollerKept ==
  ASSUME OnePoller, NEW p \in Pollers, AtStep(p) # "rest", poll'[p].at # "rest",
         \A q \in Pollers \ {p} : poll'[q] = poll[q], UNCHANGED <<phase, due, clean>>
  PROVE  OnePoller'
  BY DEF OnePoller, AtStep, Pollers

LEMMA TrackKept ==
  ASSUME WatcherBase, WatcherIInv, NEW p \in Pollers, phase # "over", Track(p)
  PROVE  WatcherIInv'
<1>1. /\ AtStep(p) = "track" /\ Goto(p, "stat")
      /\ UNCHANGED <<written, partial, dispatched, phase, due, truncates, clean>>
      /\ IF tracked >= 0 THEN UNCHANGED <<tracked, offset>>
         ELSE tracked' = (IF Once THEN 0 ELSE written) /\ offset' = tracked'
  BY DEF Track, AtStep
<1>2. /\ PollShape' /\ poll'[p].at = "stat" /\ (\A q \in Pollers \ {p} : poll'[q] = poll[q])
      /\ poll'[p].from = poll[p].from /\ poll'[p].size = poll[p].size
  <2>1. poll[p].lines = <<>> /\ "stat" \in Places
    BY <1>1 DEF WatcherIInv, PollShape, Places
  <2>2. /\ PollShape' /\ \A q \in Pollers \ {p} : poll'[q] = poll[q]
        /\ poll'[p] = [at |-> "stat", from |-> poll[p].from, size |-> poll[p].size, lines |-> poll[p].lines]
    BY <1>1, <2>1, PollerGoes DEF WatcherIInv
  <2> QED BY <2>2
<1>3. tracked' \in -1..2 * MaxLines /\ offset' \in Sizes
  BY <1>1, Bounds DEF Sizes
<1>4. WatcherTypeOK' /\ OnePoller'
  <2>1. OnePoller'
    BY <1>1, <1>2, OnePollerKept DEF WatcherIInv
  <2>2. \A q \in Pollers : {poll'[q].from, poll'[q].size} \subseteq Sizes
    BY <1>2 DEF PollShape
  <2> QED BY <1>1, <1>3, <2>1, <2>2 DEF WatcherIInv, WatcherTypeOK, Sizes
<1>5. ASSUME Undisturbed' PROVE FileRead' /\ LinesRead' /\ DueRead'
  <2>1. FileRead /\ LinesRead /\ DueRead /\ \A q \in Pollers \ {p} : AtStep(q) = "rest"
    BY <1>1, <1>5, Alone DEF Undisturbed, WatcherIInv
  <2>2. DueRead'
    BY <1>1, <1>2, <2>1 DEF DueRead, AtStep, Pollers
  <2>3. CASE tracked >= 0
    <3>1. tracked' = tracked /\ offset' = offset /\ tracked # -1
      BY <1>1, <2>3
    <3>2. FileRead'
      BY <1>1, <2>1, <3>1 DEF FileRead, Untracked, HeldBack
    <3>3. LinesRead'
      BY <1>1, <1>2, <2>1, <3>1 DEF LinesRead, Reached, Told, Skipped, AtStep
    <3> QED BY <2>2, <3>2, <3>3
  <2>4. CASE ~(tracked >= 0)
    <3>1. tracked = -1 /\ tracked' \in Nat /\ tracked' <= written /\ offset' = tracked' /\ written \in Nat
      BY <1>1, <2>4, Bounds
    <3>2. dispatched = <<>> /\ partial = <<>>
      BY <2>1, <3>1 DEF FileRead, Untracked, HeldBack
    <3>3. FileRead'
      <4>1. tracked' # -1 /\ ~(offset' > tracked') /\ tracked' <= offset' /\ offset' <= written'
        BY <1>1, <3>1
      <4> QED BY <1>1, <3>2, <4>1 DEF FileRead, Untracked, HeldBack
    <3>4. Told' = 0 /\ Reached' = 0
      <4>1. offset' \div 2 <= (tracked' + 1) \div 2
        BY <3>1
      <4> QED BY <1>1, <3>1, <3>2, <4>1 DEF Told, Reached, Skipped
    <3>5. dispatched' = Following(Skipped', 0)
      BY <1>1, <3>2 DEF Following
    <3>6. \A q \in Pollers : poll'[q].at \in {"rest", "stat"}
      BY <1>2, <2>1 DEF AtStep
    <3>7. LinesRead'
      BY <3>4, <3>5, <3>6 DEF LinesRead, AtStep
    <3> QED BY <2>2, <3>3, <3>7
  <2> QED BY <2>3, <2>4
<1> QED BY <1>2, <1>4, <1>5 DEF WatcherIInv

LEMMA StatKept ==
  ASSUME WatcherBase, WatcherIInv, NEW p \in Pollers, phase # "over", Stat(p)
  PROVE  WatcherIInv'
<1> DEFINE at == IF written <= offset' THEN "state" ELSE "read"
<1>1. /\ AtStep(p) = "stat" /\ UNCHANGED <<written, tracked, dispatched, phase, due, truncates, clean>>
      /\ IF written < offset THEN offset' = 0 /\ partial' = <<>> ELSE UNCHANGED <<offset, partial>>
      /\ poll' = [poll EXCEPT ![p].from = offset', ![p].size = written, ![p].at = at]
  BY DEF Stat, AtStep
<1>2. offset' \in Sizes /\ at \in Places /\ at \notin {"lines", "rest"} /\ poll[p].lines = <<>>
  BY <1>1, Bounds DEF Sizes, Places, WatcherIInv, PollShape
<1> HIDE DEF at
<1>3. /\ PollShape' /\ (\A q \in Pollers \ {p} : poll'[q] = poll[q])
      /\ poll'[p] = [at |-> at, from |-> offset', size |-> written, lines |-> <<>>]
  <2> DEFINE old == poll[p]
  <2>1. old = [at |-> old.at, from |-> old.from, size |-> old.size, lines |-> <<>>]
    BY <1>2, PollerAt DEF WatcherIInv, AtStep
  <2>2. poll' = [poll EXCEPT ![p] = [[[old EXCEPT !.from = offset'] EXCEPT !.size = written] EXCEPT !.at = at]]
    BY <1>1 DEF WatcherIInv, PollShape
  <2> HIDE DEF old
  <2>3. [[[old EXCEPT !.from = offset'] EXCEPT !.size = written] EXCEPT !.at = at]
          = [at |-> at, from |-> offset', size |-> written, lines |-> <<>>]
    <3> DEFINE a == old.at
               b == old.from
               c == old.size
               now == offset'
    <3>1. old = [at |-> a, from |-> b, size |-> c, lines |-> <<>>]
      BY <2>1
    <3> HIDE DEF a, b, c, now
    <3> DEFINE x == [old EXCEPT !.from = now]
               y == [x EXCEPT !.size = written]
    <3>2. x = [at |-> a, from |-> now, size |-> c, lines |-> <<>>]
      BY <3>1
    <3> HIDE DEF x
    <3>3. y = [at |-> a, from |-> now, size |-> written, lines |-> <<>>]
      BY <3>2
    <3> HIDE DEF y
    <3>4. [y EXCEPT !.at = at] = [at |-> at, from |-> now, size |-> written, lines |-> <<>>]
      BY <3>3
    <3> QED BY <3>4 DEF now, x, y
  <2> DEFINE r == [at |-> at, from |-> offset', size |-> written, lines |-> <<>>]
  <2>4. poll' = [poll EXCEPT ![p] = r]
    BY <2>2, <2>3
  <2>5. r = [at |-> r.at, from |-> r.from, size |-> r.size, lines |-> r.lines]
        /\ r.at \in Places /\ r.from \in Sizes /\ r.size \in Sizes /\ (r.at # "lines" => r.lines = <<>>)
    BY <1>2, Bounds
  <2>6. PollShape
    BY DEF WatcherIInv
  <2> HIDE DEF r
  <2>7. PollShape' /\ poll'[p] = r /\ \A q \in Pollers \ {p} : poll'[q] = poll[q]
    BY <2>4, <2>5, <2>6, PollerMoves
  <2> QED BY <2>7 DEF r
<1>4. poll'[p].at = at /\ poll'[p].from = offset' /\ poll'[p].size = written
  BY <1>3
<1>5. WatcherTypeOK' /\ OnePoller'
  <2>1. OnePoller'
    BY <1>1, <1>2, <1>3, <1>4, OnePollerKept DEF WatcherIInv
  <2>2. \A q \in Pollers : {poll'[q].from, poll'[q].size} \subseteq Sizes
    BY <1>3 DEF PollShape
  <2> QED BY <1>1, <1>2, <2>1, <2>2 DEF WatcherIInv, WatcherTypeOK, Sizes
<1>6. ASSUME Undisturbed' PROVE FileRead' /\ LinesRead' /\ DueRead'
  <2>1. FileRead /\ LinesRead /\ DueRead /\ \A q \in Pollers \ {p} : AtStep(q) = "rest"
    BY <1>1, <1>6, Alone DEF Undisturbed, WatcherIInv
  <2>2. offset' = offset /\ partial' = partial /\ tracked # -1 /\ offset <= written
    BY <1>1, <2>1, Bounds DEF FileRead, Untracked
  <2>3. FileRead'
    BY <1>1, <2>1, <2>2 DEF FileRead, Untracked, HeldBack
  <2>4. at = "read" => offset < written
    BY <2>2, Bounds DEF at
  <2>5. LinesRead'
    <3>1. Told' = Told /\ Reached' = Reached /\ Skipped' = Skipped /\ Told = Reached
      BY <1>1, <2>1, <2>2 DEF Told, Reached, Skipped, LinesRead, AtStep
    <3>2. \A q \in Pollers : poll'[q].at # "lines" /\ (poll'[q].at = "read" => q = p)
      BY <1>2, <1>3, <1>4, <2>1 DEF AtStep
    <3>3. written \in Nat
      BY Bounds
    <3>4. Told' \in Nat /\ dispatched' = Following(Skipped', Told')
      BY <1>1, <2>1, <3>1 DEF LinesRead
    <3>5. \A q \in Pollers : poll'[q].at = "read" =>
            poll'[q].from = offset' /\ offset' < poll'[q].size /\ poll'[q].size <= written'
      <4>1. written <= written
        BY <3>3
      <4> QED BY <1>1, <1>4, <2>2, <2>4, <3>2, <4>1
    <3> QED BY <3>1, <3>2, <3>4, <3>5 DEF LinesRead, AtStep
  <2>6. DueRead'
    <3>1. at = "state" => written <= offset'
      BY DEF at
    <3>2. p = "flush" => phase # "running"
      BY <1>1 DEF WatcherIInv, OnePoller
    <3>3. p # "flush" => poll'["flush"].at = "rest"
      BY <1>3, <2>1 DEF AtStep, Pollers
    <3>4. phase # "running" => 2 * due <= written
      BY <2>1 DEF DueRead
    <3>5. poll'["flush"].at = "read" => 2 * due <= poll'["flush"].size
      BY <1>4, <3>2, <3>3, <3>4, <1>1
    <3>6. poll'["flush"].at = "state" => 2 * due <= offset'
      <4>1. offset' \in Nat /\ written \in Nat /\ due \in Nat
        BY <1>2, Bounds
      <4>2. CASE p = "flush"
        BY <1>1, <1>4, <3>1, <3>2, <3>4, <4>1, <4>2
      <4>3. CASE p # "flush"
        BY <3>3, <4>3
      <4> QED BY <4>2, <4>3
    <3>7. poll'["flush"].at # "lines"
      BY <1>2, <1>4, <3>3
    <3> QED BY <1>1, <3>4, <3>5, <3>6, <3>7 DEF DueRead, AtStep
  <2> QED BY <2>3, <2>5, <2>6
<1> QED BY <1>3, <1>5, <1>6 DEF WatcherIInv

LEMMA FollowingLine ==
  ASSUME NEW k \in Nat, NEW n \in Nat
  PROVE  /\ Following(k, n) \in Seq(Nat) /\ Len(Following(k, n)) = n
         /\ n # 0 => Following(k, n) # <<>> /\ Head(Following(k, n)) = k + 1
                     /\ Tail(Following(k, n)) = Following(k + 1, n - 1)
         /\ n = 0 => Following(k, n) = <<>>
<1>1. Following(k, n) \in Seq(Nat) /\ Len(Following(k, n)) = n
  BY DEF Following
<1>2. n = 0 => Following(k, n) = <<>>
  BY DEF Following
<1>3. ASSUME n # 0 PROVE Following(k, n) # <<>> /\ Head(Following(k, n)) = k + 1
  BY <1>1, <1>3 DEF Following
<1>4. ASSUME n # 0 PROVE Tail(Following(k, n)) = Following(k + 1, n - 1)
  <2>1. Tail(Following(k, n)) = [i \in 1..n - 1 |-> Following(k, n)[i + 1]]
    <3> DEFINE lines == Following(k, n)
               rest == Tail(lines)
    <3>1. lines \in Seq(Nat) /\ lines # <<>> /\ Len(lines) = n
      BY <1>1, <1>3, <1>4
    <3> HIDE DEF lines
    <3>2. rest \in Seq(Nat) /\ Len(rest) = n - 1 /\ \A i \in 1..n - 1 : rest[i] = lines[i + 1]
      BY <3>1, HeadTailProperties
    <3> HIDE DEF rest
    <3>3. rest = [i \in 1..n - 1 |-> rest[i]]
      BY <3>2
    <3> QED BY <3>2, <3>3 DEF rest, lines
  <2>2. \A i \in 1..n - 1 : Following(k, n)[i + 1] = k + 1 + i
    BY <1>4 DEF Following
  <2> QED BY <2>1, <2>2 DEF Following
<1> QED BY <1>1, <1>2, <1>3, <1>4

LEMMA WriteStateKept ==
  ASSUME WatcherBase, WatcherIInv, NEW p \in Pollers, phase # "over", WriteState(p)
  PROVE  WatcherIInv'
<1>1. /\ AtStep(p) = "state" /\ UNCHANGED <<written, tracked, offset, partial, dispatched, due, truncates, clean>>
      /\ poll' = [poll EXCEPT ![p] = Resting]
      /\ phase' = IF p = "flush" THEN "over" ELSE phase
  BY DEF WriteState, AtStep
<1>2. /\ PollShape' /\ (\A q \in Pollers \ {p} : poll'[q] = poll[q])
      /\ poll'[p] = Resting
  <2>1. 0 \in Sizes /\ "rest" \in Places
    BY Bounds DEF Sizes, Places
  <2>2. Resting = [at |-> Resting.at, from |-> Resting.from, size |-> Resting.size, lines |-> Resting.lines]
        /\ Resting.at \in Places /\ Resting.from \in Sizes /\ Resting.size \in Sizes
        /\ (Resting.at # "lines" => Resting.lines = <<>>)
    BY <2>1 DEF Resting
  <2>3. PollShape
    BY DEF WatcherIInv
  <2> QED BY <1>1, <2>2, <2>3, PollerMoves
<1>3. poll'[p].at = "rest"
  BY <1>2 DEF Resting
<1>4. WatcherTypeOK' /\ OnePoller'
  <2>1. OnePoller'
    BY <1>1, <1>2, <1>3 DEF WatcherIInv, OnePoller, AtStep, Pollers
  <2>2. \A q \in Pollers : {poll'[q].from, poll'[q].size} \subseteq Sizes
    BY <1>2 DEF PollShape
  <2> QED BY <1>1, <2>1, <2>2 DEF WatcherIInv, WatcherTypeOK, Sizes
<1>5. ASSUME Undisturbed' PROVE FileRead' /\ LinesRead' /\ DueRead'
  <2>1. FileRead /\ LinesRead /\ DueRead /\ \A q \in Pollers \ {p} : AtStep(q) = "rest"
    BY <1>1, <1>5, Alone DEF Undisturbed, WatcherIInv
  <2>2. FileRead'
    BY <1>1, <2>1 DEF FileRead, Untracked, HeldBack
  <2>3. \A q \in Pollers : poll'[q].at = "rest"
    BY <1>2, <1>3, <2>1 DEF AtStep
  <2>4. Told = Reached
    BY <1>1, <2>1 DEF LinesRead, AtStep
  <2>5. LinesRead'
    BY <1>1, <2>1, <2>3, <2>4 DEF LinesRead, Told, Reached, Skipped, AtStep
  <2>6. DueRead'
    <3>1. p = "flush" => phase # "running"
      BY <1>1 DEF WatcherIInv, OnePoller
    <3> QED BY <1>1, <2>1, <2>3, <3>1 DEF DueRead, AtStep, Pollers
  <2> QED BY <2>2, <2>5, <2>6
<1> QED BY <1>2, <1>4, <1>5 DEF WatcherIInv

LEMMA ProcessLineKept ==
  ASSUME WatcherBase, WatcherIInv, NEW p \in Pollers, phase # "over", ProcessLine(p)
  PROVE  WatcherIInv'
<1>1. /\ AtStep(p) = "lines" /\ UNCHANGED <<written, tracked, offset, partial, phase, due, truncates, clean>>
      /\ IF poll[p].lines = <<>> THEN Goto(p, "state") /\ UNCHANGED dispatched
         ELSE /\ dispatched' = Append(dispatched, Head(poll[p].lines))
              /\ poll' = [poll EXCEPT ![p].lines = Tail(@)]
  BY DEF ProcessLine, AtStep
<1>2. /\ PollShape' /\ (\A q \in Pollers \ {p} : poll'[q] = poll[q])
      /\ poll'[p].at = IF poll[p].lines = <<>> THEN "state" ELSE "lines"
      /\ poll'[p].size = poll[p].size
      /\ poll[p].lines # <<>> => poll'[p].lines = Tail(poll[p].lines)
  <2>1. CASE poll[p].lines = <<>>
    <3>1. "state" \in Places
      BY DEF Places
    <3>2. /\ PollShape' /\ \A q \in Pollers \ {p} : poll'[q] = poll[q]
          /\ poll'[p] = [at |-> "state", from |-> poll[p].from, size |-> poll[p].size, lines |-> poll[p].lines]
      BY <1>1, <2>1, <3>1, PollerGoes DEF WatcherIInv
    <3> QED BY <2>1, <3>2
  <2>2. CASE poll[p].lines # <<>>
    <3> DEFINE old == poll[p]
               rest == Tail(poll[p].lines)
    <3>1. old = [at |-> "lines", from |-> old.from, size |-> old.size, lines |-> old.lines]
      BY <1>1, PollerAt DEF WatcherIInv
    <3>2. poll' = [poll EXCEPT ![p] = [old EXCEPT !.lines = rest]]
      BY <1>1, <2>2 DEF WatcherIInv, PollShape
    <3>3. old.from \in Sizes /\ old.size \in Sizes /\ "lines" \in Places
      BY DEF WatcherIInv, PollShape, Places
    <3> HIDE DEF old, rest
    <3>4. [old EXCEPT !.lines = rest] = [at |-> "lines", from |-> old.from, size |-> old.size, lines |-> rest]
      BY <3>1
    <3> DEFINE r == [at |-> "lines", from |-> old.from, size |-> old.size, lines |-> rest]
    <3>5. PollShape /\ poll' = [poll EXCEPT ![p] = r]
      BY <3>2, <3>4 DEF WatcherIInv
    <3>6. r = [at |-> r.at, from |-> r.from, size |-> r.size, lines |-> r.lines]
          /\ r.at \in Places /\ r.from \in Sizes /\ r.size \in Sizes /\ (r.at # "lines" => r.lines = <<>>)
      BY <3>3
    <3> HIDE DEF r
    <3>7. PollShape' /\ poll'[p] = r /\ \A q \in Pollers \ {p} : poll'[q] = poll[q]
      BY <3>5, <3>6, PollerMoves
    <3> QED BY <2>2, <3>7 DEF r, old, rest
  <2> QED BY <2>1, <2>2
<1>3. WatcherTypeOK' /\ OnePoller'
  <2>1. OnePoller'
    BY <1>1, <1>2, OnePollerKept DEF WatcherIInv
  <2>2. \A q \in Pollers : {poll'[q].from, poll'[q].size} \subseteq Sizes
    BY <1>2 DEF PollShape
  <2> QED BY <1>1, <2>1, <2>2 DEF WatcherIInv, WatcherTypeOK, Sizes
<1>4. ASSUME Undisturbed' PROVE FileRead' /\ LinesRead' /\ DueRead'
  <2>1. FileRead /\ LinesRead /\ DueRead /\ \A q \in Pollers \ {p} : AtStep(q) = "rest"
    BY <1>1, <1>4, Alone DEF Undisturbed, WatcherIInv
  <2>2. tracked # -1 /\ tracked \in Nat
    BY <1>1, <2>1, Bounds DEF FileRead, Untracked
  <2>3. FileRead'
    BY <1>1, <2>1, <2>2 DEF FileRead, Untracked, HeldBack
  <2>4. DueRead'
    <3>1. p # "flush" => poll'["flush"].at = "rest"
      BY <1>2, <2>1 DEF AtStep, Pollers
    <3> QED BY <1>1, <1>2, <2>1, <3>1 DEF DueRead, AtStep
  <2>5. Told \in Nat /\ Told <= Reached /\ poll[p].lines = Following(Skipped + Told, Reached - Told)
        /\ dispatched = Following(Skipped, Told) /\ Skipped \in Nat /\ Reached \in Nat
        /\ Skipped' = Skipped /\ Reached' = Reached
    <3>1. Told \in Nat /\ Told <= Reached /\ poll[p].lines = Following(Skipped + Told, Reached - Told)
          /\ dispatched = Following(Skipped, Told)
      BY <1>1, <2>1 DEF LinesRead
    <3>2. Skipped \in Nat /\ Reached \in Nat
      BY <2>2, Bounds DEF Reached, Skipped
    <3>3. Skipped' = Skipped /\ Reached' = Reached
      BY <1>1 DEF Reached, Skipped
    <3> QED BY <3>1, <3>2, <3>3
  <2> DEFINE k == Skipped + Told
             n == Reached - Told
  <2>6. k \in Nat /\ n \in Nat /\ poll[p].lines = Following(k, n)
    BY <2>5
  <2> HIDE DEF k, n
  <2>7. \A q \in Pollers \ {p} : poll'[q].at = "rest"
    BY <1>2, <2>1 DEF AtStep
  <2>8. CASE poll[p].lines = <<>>
    <3>1. n = 0
      BY <2>6, <2>8, FollowingLine
    <3>2. Told' = Told /\ poll'[p].at = "state" /\ dispatched' = dispatched
      BY <1>1, <1>2, <2>8 DEF Told
    <3>3. LinesRead'
      BY <2>5, <2>7, <3>1, <3>2 DEF LinesRead, AtStep, n
    <3> QED BY <2>3, <2>4, <3>3
  <2>9. CASE poll[p].lines # <<>>
    <3>1. n # 0 /\ Head(poll[p].lines) = k + 1 /\ Tail(poll[p].lines) = Following(k + 1, n - 1)
      BY <2>6, <2>9, FollowingLine
    <3>2. dispatched' = Following(Skipped, Told + 1)
      BY <1>1, <2>5, <2>9, <3>1, OneMoreLine DEF k
    <3>3. Told' = Told + 1
      <4>1. Told + 1 \in Nat /\ Skipped \in Nat
        BY <2>5
      <4> DEFINE m == Told + 1
      <4>2. Len(Following(Skipped, m)) = m
        BY <4>1, FollowingLine
      <4> QED BY <3>2, <4>2 DEF Told
    <3>4. k + 1 = Skipped + (Told + 1) /\ n - 1 = Reached - (Told + 1) /\ Told + 1 <= Reached /\ Told + 1 \in Nat
      BY <2>5, <2>6, <3>1 DEF k, n
    <3>5. poll'[p].lines = Following(Skipped + (Told + 1), Reached - (Told + 1)) /\ poll'[p].at = "lines"
      BY <1>2, <2>9, <3>1, <3>4
    <3>6. LinesRead'
      BY <2>5, <2>7, <3>2, <3>3, <3>4, <3>5 DEF LinesRead, AtStep
    <3> QED BY <2>3, <2>4, <3>6
  <2> QED BY <2>8, <2>9
<1> QED BY <1>2, <1>3, <1>4 DEF WatcherIInv

(* What is read begins where the last line told ends.                      *)
LEMMA TextRead ==
  ASSUME NEW from \in Nat, NEW end \in Nat, from < end, tracked \in Nat, tracked <= from, offset = from,
         partial = HeldBack
  PROVE  LET text == partial \o [i \in 1..(end - from) |-> from + i]
         IN  /\ WholeLines(text) = Following(Skipped + Reached, end \div 2 - (Skipped + Reached))
             /\ Rest(text) = IF end % 2 = 1 THEN <<end>> ELSE <<>>
             /\ Skipped + Reached <= end \div 2 /\ Skipped \in Nat /\ Reached \in Nat
<1> DEFINE new == [i \in 1..(end - from) |-> from + i]
           text == partial \o new
<1>1. new \in Seq(Nat) /\ Len(new) = end - from /\ \A i \in 1..(end - from) : new[i] = from + i
  BY DEF new
<1> HIDE DEF new
<1>2. Skipped \in Nat /\ Reached \in Nat /\ Skipped = (tracked + 1) \div 2
  BY DEF Skipped, Reached
<1>3. CASE from > tracked /\ from % 2 = 1
  <2>1. partial = <<from>>
    BY <1>3 DEF HeldBack
  <2>2. text = Stretch(from, end - from + 1)
    <3>1. text \in Seq(Nat) /\ Len(text) = end - from + 1
          /\ \A i \in 1..Len(text) : text[i] = IF i <= 1 THEN from ELSE new[i - 1]
      <4>1. <<from>> \in Seq(Nat) /\ Len(<<from>>) = 1 /\ <<from>>[1] = from
        OBVIOUS
      <4> QED BY <1>1, <2>1, <4>1, ConcatProperties, SMTT(30)
    <3>2. \A i \in 1..Len(text) : text[i] = from - 1 + i
      <4> TAKE i \in 1..Len(text)
      <4>1. CASE i <= 1
        BY <3>1, <4>1
      <4>2. CASE ~(i <= 1)
        <5>1. i - 1 \in 1..(end - from)
          BY <3>1, <4>2
        <5> HIDE DEF text
        <5> QED BY <1>1, <3>1, <4>2, <5>1
      <4> QED BY <4>1, <4>2
    <3>3. Stretch(from, end - from + 1) \in Seq(Nat) /\ Len(Stretch(from, end - from + 1)) = end - from + 1
          /\ \A i \in 1..Len(text) : Stretch(from, end - from + 1)[i] = from - 1 + i
      BY <1>3, <3>1 DEF Stretch
    <3> DEFINE other == Stretch(from, end - from + 1)
    <3> HIDE DEF text, other
    <3>4. text \in Seq(Nat) /\ other \in Seq(Nat) /\ Len(text) = Len(other)
          /\ \A i \in 1..Len(text) : text[i] = other[i]
      BY <3>1, <3>2, <3>3 DEF other
    <3>5. text = other
      BY <3>4, SeqEqual
    <3> QED BY <3>5 DEF other
  <2>3. Skipped + Reached = from \div 2
    <3>1. tracked + 1 <= from
      BY <1>3
    <3>2. (tracked + 1) \div 2 <= from \div 2
      BY <3>1
    <3> QED BY <1>2, <3>2 DEF Reached
  <2> DEFINE n == end - from + 1
  <2>4. from \in Nat \ {0} /\ n \in Nat \ {0} /\ from - 1 + n = end
    BY <1>3
  <2> HIDE DEF text, n
  <2>5. WholeLines(text) = Following(from \div 2, end \div 2 - from \div 2)
        /\ Rest(text) = IF end % 2 = 1 THEN <<end>> ELSE <<>>
    <3>1. text = Stretch(from, n)
      BY <2>2 DEF n
    <3> QED BY <2>4, <3>1, StretchLines, StretchRest
  <2>6. from \div 2 <= end \div 2
    BY Halves
  <2> QED BY <1>2, <2>3, <2>5, <2>6 DEF text, new
<1>4. CASE ~(from > tracked /\ from % 2 = 1)
  <2>1. partial = <<>>
    BY <1>4 DEF HeldBack
  <2>2. text = Stretch(from + 1, end - from)
    <3>1. text = new
      BY <1>1, <2>1, ConcatEmptySeq
    <3>2. \A i \in 1..Len(new) : new[i] = from + 1 - 1 + i
      BY <1>1
    <3>3. Stretch(from + 1, end - from) \in Seq(Nat) /\ Len(Stretch(from + 1, end - from)) = end - from
          /\ \A i \in 1..Len(new) : Stretch(from + 1, end - from)[i] = from + 1 - 1 + i
      BY <1>1 DEF Stretch
    <3>4. new = Stretch(from + 1, end - from)
      <4> HIDE DEF Stretch
      <4> QED BY <1>1, <3>2, <3>3, SeqEqual
    <3> QED BY <3>1, <3>4
  <2>3. Skipped + Reached = (from + 1) \div 2
    <3>1. CASE from = tracked
      <4>1. from \div 2 <= (from + 1) \div 2
        OBVIOUS
      <4>2. offset \div 2 <= Skipped
        BY <1>2, <3>1, <4>1
      <4>3. Reached = 0
        BY <1>2, <4>2 DEF Reached
      <4> QED BY <1>2, <3>1, <4>3
    <3>2. CASE from > tracked
      <4>1. (from + 1) \div 2 = from \div 2 /\ tracked + 1 <= from
        BY <1>4, <3>2
      <4>2. (tracked + 1) \div 2 <= from \div 2
        BY <4>1
      <4> QED BY <1>2, <4>1, <4>2 DEF Reached
    <3> QED BY <3>1, <3>2
  <2> DEFINE n == end - from
             first == from + 1
  <2>4. first \in Nat \ {0} /\ n \in Nat \ {0} /\ first - 1 + n = end
    OBVIOUS
  <2>5. first \div 2 <= end \div 2
    BY Halves
  <2> HIDE DEF text, n, first
  <2>6. WholeLines(text) = Following(first \div 2, end \div 2 - first \div 2)
        /\ Rest(text) = IF end % 2 = 1 THEN <<end>> ELSE <<>>
    <3>1. text = Stretch(first, n)
      BY <2>2 DEF n, first
    <3> QED BY <2>4, <3>1, StretchLines, StretchRest
  <2> QED BY <1>2, <2>3, <2>5, <2>6 DEF text, new, first
<1> QED BY <1>3, <1>4

LEMMA ReadDeltaKept ==
  ASSUME WatcherBase, WatcherIInv, NEW p \in Pollers, phase # "over", ReadDelta(p)
  PROVE  WatcherIInv'
<1> DEFINE end == Smaller(poll[p].size, written)
           from == poll[p].from
           size == poll[p].size
           text == partial \o [i \in 1..(end - from) |-> from + i]
<1>1. /\ AtStep(p) = "read" /\ UNCHANGED <<written, tracked, dispatched, phase, due, truncates, clean>>
      /\ IF end <= from THEN Goto(p, "state") /\ UNCHANGED <<offset, partial>>
         ELSE /\ offset' = end /\ partial' = Rest(text)
              /\ poll' = [poll EXCEPT ![p].at = "lines", ![p].lines = WholeLines(text)]
  BY DEF ReadDelta, AtStep
<1>2. size \in Nat /\ from \in Nat /\ end \in Nat /\ end \in Sizes /\ size \in Sizes /\ from \in Sizes
      /\ (size <= written => end = size)
  <2>1. size \in Sizes /\ from \in Sizes /\ size \in Nat /\ from \in Nat /\ written \in Nat /\ written \in Sizes
    BY Bounds DEF WatcherIInv, PollShape
  <2>2. end = IF size < written THEN size ELSE written
    BY DEF Smaller
  <2> HIDE DEF size, from, end
  <2> QED BY <2>1, <2>2
<1>3. poll[p].lines = <<>> /\ PollShape /\ OnePoller
  BY <1>1 DEF WatcherIInv, PollShape
<1>4. CASE end <= from
  <2>1. /\ PollShape' /\ (\A q \in Pollers \ {p} : poll'[q] = poll[q])
        /\ poll'[p] = [at |-> "state", from |-> from, size |-> size, lines |-> poll[p].lines]
    <3>1. "state" \in Places /\ Goto(p, "state")
      BY <1>1, <1>4 DEF Places
    <3> QED BY <1>3, <3>1, PollerGoes
  <2>2. WatcherTypeOK' /\ OnePoller'
    <3>1. OnePoller'
      BY <1>1, <1>3, <2>1, OnePollerKept
    <3>2. \A q \in Pollers : {poll'[q].from, poll'[q].size} \subseteq Sizes
      BY <2>1 DEF PollShape
    <3> QED BY <1>1, <1>4, <3>1, <3>2 DEF WatcherIInv, WatcherTypeOK, Sizes
  <2>3. ~Undisturbed'
    <3> SUFFICES ASSUME Undisturbed' PROVE FALSE
      OBVIOUS
    <3>1. LinesRead
      BY <1>1 DEF Undisturbed, WatcherIInv
    <3>2. from = offset /\ offset < size /\ size <= written
      BY <1>1, <3>1 DEF LinesRead
    <3> QED BY <1>2, <1>4, <3>2, Bounds
  <2> QED BY <2>1, <2>2, <2>3 DEF WatcherIInv
<1>5. CASE ~(end <= from)
  <2> DEFINE lines == WholeLines(text)
             r == [at |-> "lines", from |-> from, size |-> size, lines |-> lines]
             rest == Rest(text)
  <2>1. offset' = end /\ partial' = rest /\ poll' = [poll EXCEPT ![p] = [[poll[p] EXCEPT !.at = "lines"] EXCEPT !.lines = lines]]
    BY <1>1, <1>3, <1>5 DEF PollShape
  <2> HIDE DEF end, from, size, text, lines, rest
  <2>2. poll' = [poll EXCEPT ![p] = r]
    <3> DEFINE old == poll[p]
               a == AtStep(p)
               now == [old EXCEPT !.at = "lines"]
    <3>1. old = [at |-> a, from |-> from, size |-> size, lines |-> <<>>]
      BY <1>3, PollerAt DEF from, size
    <3> HIDE DEF old, a
    <3>2. now = [at |-> "lines", from |-> from, size |-> size, lines |-> <<>>]
      BY <3>1
    <3> HIDE DEF now
    <3>3. [now EXCEPT !.lines = lines] = [at |-> "lines", from |-> from, size |-> size, lines |-> lines]
      BY <3>2
    <3> QED BY <2>1, <3>3 DEF old, now
  <2>3. r = [at |-> r.at, from |-> r.from, size |-> r.size, lines |-> r.lines]
        /\ r.at = "lines" /\ r.from = from /\ r.size = size /\ r.lines = lines
    OBVIOUS
  <2>4. r.at \in Places /\ r.from \in Sizes /\ r.size \in Sizes
    BY <1>2, <2>3 DEF Places
  <2> HIDE DEF r
  <2>5. PollShape' /\ poll'[p] = r /\ \A q \in Pollers \ {p} : poll'[q] = poll[q]
    BY <1>3, <2>2, <2>3, <2>4, PollerMoves
  <2>6. WatcherTypeOK' /\ OnePoller'
    <3>1. OnePoller'
      BY <1>1, <1>3, <2>3, <2>5, OnePollerKept
    <3>2. \A q \in Pollers : {poll'[q].from, poll'[q].size} \subseteq Sizes
      BY <2>5 DEF PollShape
    <3> QED BY <1>1, <1>2, <2>1, <3>1, <3>2 DEF WatcherIInv, WatcherTypeOK, Sizes
  <2>7. ASSUME Undisturbed' PROVE FileRead' /\ LinesRead' /\ DueRead'
    <3>1. FileRead /\ LinesRead /\ DueRead /\ \A q \in Pollers \ {p} : AtStep(q) = "rest"
      BY <1>1, <1>3, <2>7, Alone DEF Undisturbed, WatcherIInv
    <3>2. from = offset /\ offset < size /\ size <= written /\ end = size /\ tracked \in Nat /\ tracked <= offset
      BY <1>1, <1>2, <3>1, Bounds DEF LinesRead, FileRead, Untracked, from, size
    <3>3. Told = Reached /\ Told \in Nat /\ dispatched = Following(Skipped, Told)
      BY <1>1, <3>1 DEF LinesRead, AtStep
    <3>4. /\ lines = Following(Skipped + Reached, end \div 2 - (Skipped + Reached))
          /\ rest = IF end % 2 = 1 THEN <<end>> ELSE <<>>
          /\ Skipped + Reached <= end \div 2 /\ Skipped \in Nat /\ Reached \in Nat
      BY <1>2, <3>1, <3>2, TextRead DEF FileRead, text, lines, rest
    <3>5. FileRead'
      BY <1>1, <1>2, <2>1, <3>2, <3>4 DEF FileRead, Untracked, HeldBack
    <3>6. Skipped' = Skipped /\ Told' = Told /\ Reached' = end \div 2 - Skipped /\ Reached' \in Nat
      <4>1. end \div 2 \in Nat
        BY <1>2
      <4> QED BY <1>1, <2>1, <3>4, <4>1 DEF Skipped, Told, Reached
    <3>7. end \div 2 - (Skipped + Reached) = Reached' - Told' /\ Told' <= Reached'
      BY <3>3, <3>4, <3>6, <1>2
    <3>8. LinesRead'
      BY <1>1, <2>3, <2>5, <3>1, <3>3, <3>4, <3>6, <3>7 DEF LinesRead, AtStep
    <3>9. DueRead'
      <4>1. p # "flush" => poll'["flush"].at = "rest"
        BY <2>5, <3>1 DEF AtStep, Pollers
      <4>2. p = "flush" => 2 * due <= end
        BY <1>1, <3>1, <3>2 DEF DueRead, size
      <4> QED BY <1>1, <2>1, <2>3, <2>5, <3>1, <4>1, <4>2 DEF DueRead, AtStep
    <3> QED BY <3>5, <3>8, <3>9
  <2> QED BY <2>5, <2>6, <2>7 DEF WatcherIInv
<1> QED BY <1>4, <1>5

LEMMA WatcherStep ==
  ASSUME WatcherBase, WatcherIInv, [WatcherNext]_watcherVars
  PROVE  WatcherIInv'
<1>1. CASE UNCHANGED watcherVars
  BY <1>1 DEF watcherVars, WatcherIInv, WatcherTypeOK, PollShape, OnePoller, Undisturbed, FileRead, Untracked,
              HeldBack, LinesRead, Reached, Told, Skipped, DueRead, AtStep
<1>2. CASE \E p \in Pollers : Polls(p)
  BY <1>2, TrackKept, StatKept, ReadDeltaKept, ProcessLineKept, WriteStateKept DEF Polls
<1> QED BY <1>1, <1>2, WriteKept, TruncateKept, TickKept, SignalKept, SecondSignalKept DEF WatcherNext

LEMMA WatcherBegins == ASSUME WatcherBase, WatcherInit PROVE WatcherIInv
<1>1. 0 \in Sizes /\ -1 \in -1..2 * MaxLines /\ 0 \in 0..MaxTruncates
  BY DEF WatcherBase, Sizes
<1>2. \A p \in Pollers : poll[p] = [at |-> "rest", from |-> 0, size |-> 0, lines |-> <<>>]
  BY DEF WatcherInit, Resting
<1>3. PollShape
  BY <1>1, <1>2 DEF WatcherInit, PollShape, Resting, AtStep, Places
<1>4. WatcherTypeOK /\ OnePoller
  BY <1>1, <1>2 DEF WatcherInit, WatcherTypeOK, OnePoller, AtStep, Sizes, Pollers
<1>5. FileRead /\ DueRead
  BY <1>2 DEF WatcherInit, FileRead, Untracked, HeldBack, DueRead, AtStep, Pollers
<1>6. LinesRead
  BY <1>2 DEF WatcherInit, LinesRead, Told, Reached, Skipped, Following, AtStep, Pollers
<1> QED BY <1>3, <1>4, <1>5, <1>6 DEF WatcherIInv

LEMMA ReadInOrder == ASSUME WatcherBase, WatcherIInv PROVE LinesOnce
<1> SUFFICES ASSUME Undisturbed
             PROVE  /\ dispatched = [i \in DOMAIN dispatched |-> Skipped + i]
                    /\ phase = "over" => Skipped + Len(dispatched) >= due
  BY DEF LinesOnce, Undisturbed
<1>1. LinesRead /\ DueRead /\ FileRead
  BY DEF WatcherIInv
<1>2. dispatched = Following(Skipped, Told) /\ Told \in Nat /\ Skipped \in Nat
  BY <1>1, Bounds DEF LinesRead, Skipped
<1>3. dispatched = [i \in DOMAIN dispatched |-> Skipped + i]
  BY <1>2 DEF Following
<1>4. ASSUME phase = "over" PROVE Skipped + Told >= due
  <2>1. Told = Reached
    BY <1>1, <1>4 DEF LinesRead, WatcherIInv, OnePoller, Undisturbed, Pollers
  <2>2. due <= offset \div 2
    BY <1>1, <1>4, Bounds DEF DueRead
  <2> QED BY <1>2, <2>1, <2>2, Bounds DEF Reached
<1> QED BY <1>3, <1>4 DEF Told

LEMMA LinesKept ==
  ASSUME WatcherBase
  PROVE  WatcherInit /\ [][WatcherNext]_watcherVars => [](WatcherTypeOK /\ LinesOnce)
<1>1. WatcherInit => WatcherIInv
  BY WatcherBegins
<1>2. WatcherIInv /\ [WatcherNext]_watcherVars => WatcherIInv'
  BY WatcherStep
<1>3. WatcherIInv => WatcherTypeOK /\ LinesOnce
  BY ReadInOrder DEF WatcherIInv
<1> QED BY <1>1, <1>2, <1>3, PTL

(***************************************************************************)
(* The complete lines of a rollout are told once each and in their order,  *)
(* however much was written at each poll, as long as the file was not cut  *)
(* and no second signal came: the offset, the unread rest and the lines    *)
(* that are being told are together what was written.                      *)
(***************************************************************************)
THEOREM LinesInOrder ==
  ASSUME WatcherBase
  PROVE  WatcherSpec => [](WatcherTypeOK /\ LinesOnce)
BY LinesKept, PTL DEF WatcherSpec
-----------------------------------------------------------------------------
(***************************************************************************)
(* The siblings of an MCP server                                           *)
(***************************************************************************)
Servers == [state : {"unborn", "up", "closed", "parent_gone", "superseded"},
            traffic : Never..Longest, duplicate : Never..Longest, marked : BOOLEAN]

SiblingsBase ==
  Pids \subseteq Nat /\ Grace \in Nat /\ Idle \in Nat /\ MaxFailures \in Nat

SiblingsShape ==
  /\ server \in [Pids -> Servers] /\ table \in [Pids -> SUBSET Pids]
  /\ failures \in 0..MaxFailures

(* Only a server that is up holds a table, of servers that were up.        *)
TablesOfTheBorn ==
  \A p \in Pids : table[p] # NoTable =>
    IsUp(p) /\ \A q \in table[p] : server[q].state # "unborn"

(* Where no client left and the parent lives, whoever is superseded is     *)
(* superseded by a server that is up, if not the one it saw.               *)
NoneLeft == \A p \in Pids : server[p].state \in {"unborn", "up", "superseded"}
Superseding ==
  NoneLeft => \A p \in Pids : server[p].state = "superseded" => \E q \in Pids : q > p /\ IsUp(q)

SiblingsIInv == SiblingsShape /\ TablesOfTheBorn /\ Superseding

LEMMA AgesStay ==
  ASSUME SiblingsBase
  PROVE  /\ Never \in Never..Longest /\ 0 \in Never..Longest /\ Longest \in Nat
         /\ \A age \in Never..Longest : Older(age) \in Never..Longest
  BY DEF SiblingsBase, Never, Longest, Older

(* Nobody changes its state but to come up or, while it is up, to end.     *)
LEMMA StatesKept ==
  ASSUME SiblingsIInv, SiblingsShape',
         \A p \in Pids : \/ server'[p].state = server[p].state
                         \/ server[p].state = "unborn" /\ server'[p].state = "up"
                         \/ server[p].state = "up" /\ server'[p].state \in {"closed", "parent_gone"},
         \A p \in Pids : table'[p] = NoTable
                         \/ (table'[p] = table[p] /\ (IsUp(p) => server'[p].state = "up"))
                         \/ (IsUp(p) /\ server'[p].state = "up" /\ \A q \in table'[p] : IsUp(q))
  PROVE  SiblingsIInv'
<1>1. TablesOfTheBorn'
  <2> SUFFICES ASSUME NEW p \in Pids, table'[p] # NoTable
               PROVE  IsUp(p)' /\ \A q \in table'[p] : server'[q].state # "unborn"
    BY DEF TablesOfTheBorn
  <2>1. \A q \in table'[p] : q \in Pids
    BY DEF SiblingsShape
  <2> QED BY <2>1 DEF SiblingsIInv, TablesOfTheBorn, IsUp
<1>2. Superseding'
  <2> SUFFICES ASSUME NoneLeft', NEW p \in Pids, server'[p].state = "superseded"
               PROVE  \E q \in Pids : q > p /\ server'[q].state = "up"
    BY DEF Superseding, IsUp
  <2>1. NoneLeft /\ server[p].state = "superseded"
    BY DEF NoneLeft
  <2>2. PICK q \in Pids : q > p /\ server[q].state = "up"
    BY <2>1 DEF SiblingsIInv, Superseding, IsUp
  <2>3. server'[q].state = "up"
    BY <2>2 DEF NoneLeft
  <2> QED BY <2>2, <2>3
<1> QED BY <1>1, <1>2 DEF SiblingsIInv

LEMMA SetShape ==
  ASSUME SiblingsIInv, NEW p \in Pids, NEW s \in Servers, Set(p, s)
  PROVE  server' \in [Pids -> Servers] /\ server'[p] = s
         /\ \A q \in Pids \ {p} : server'[q] = server[q]
  BY DEF Set, SiblingsIInv, SiblingsShape

LEMMA ShutdownShape ==
  ASSUME SiblingsBase, SiblingsIInv, NEW p \in Pids,
         NEW reason \in {"closed", "parent_gone", "superseded"}
  PROVE  /\ [Unborn EXCEPT !.state = reason, !.marked = server[p].marked] \in Servers
         /\ [Unborn EXCEPT !.state = reason, !.marked = server[p].marked].state = reason
  BY AgesStay DEF Unborn, Servers, SiblingsIInv, SiblingsShape

LEMMA DecideKept ==
  ASSUME SiblingsBase, SiblingsIInv, NEW p \in Pids, Decide(p)
  PROVE  SiblingsIInv'
<1> DEFINE observed == IF server[p].duplicate = Never THEN 0 ELSE server[p].duplicate
           gone == [Unborn EXCEPT !.state = "superseded", !.marked = server[p].marked]
<1>1. table[p] # NoTable /\ IsUp(p) /\ server[p] \in Servers
      /\ \A q \in table[p] : q \in Pids /\ server[q].state # "unborn"
  BY DEF Decide, SiblingsIInv, TablesOfTheBorn, SiblingsShape
<1>2. table' \in [Pids -> SUBSET Pids] /\ table'[p] = NoTable
      /\ \A q \in Pids \ {p} : table'[q] = table[q]
  BY DEF Decide, SiblingsIInv, SiblingsShape, NoTable
<1>3. UNCHANGED failures
  BY DEF Decide
<1>4. observed \in Never..Longest
  BY <1>1, AgesStay DEF Servers
<1>5. CASE Set(p, [server[p] EXCEPT !.duplicate = Never])
           \/ Set(p, [server[p] EXCEPT !.duplicate = observed])
  <2>1. PICK age \in Never..Longest : Set(p, [server[p] EXCEPT !.duplicate = age])
    BY <1>4, <1>5, AgesStay
  <2>2. [server[p] EXCEPT !.duplicate = age] \in Servers
        /\ [server[p] EXCEPT !.duplicate = age].state = server[p].state
    BY <1>1 DEF Servers
  <2>3. server' \in [Pids -> Servers] /\ \A q \in Pids : server'[q].state = server[q].state
    BY <2>1, <2>2, SetShape
  <2>4. SiblingsShape'
    BY <1>2, <1>3, <2>3 DEF SiblingsIInv, SiblingsShape
  <2> QED BY <1>2, <2>3, <2>4, StatesKept DEF IsUp
<1>6. CASE Set(p, gone) /\ NewerSiblings(p) # {}
  <2>1. gone \in Servers /\ gone.state = "superseded"
    BY ShutdownShape
  <2> HIDE DEF gone
  <2>2. server' \in [Pids -> Servers] /\ server'[p].state = "superseded"
        /\ \A q \in Pids \ {p} : server'[q] = server[q]
    BY <1>6, <2>1, SetShape
  <2>3. SiblingsShape'
    BY <1>2, <1>3, <2>2 DEF SiblingsIInv, SiblingsShape
  <2>4. TablesOfTheBorn'
    <3>1. \A q \in Pids : server[q].state # "unborn" => server'[q].state # "unborn"
      BY <2>2
    <3>2. \A r \in Pids : \A q \in table[r] : q \in Pids
      BY DEF SiblingsIInv, SiblingsShape
    <3> QED BY <1>2, <2>2, <3>1, <3>2 DEF SiblingsIInv, TablesOfTheBorn, IsUp
  <2>5. Superseding'
    <3> SUFFICES ASSUME NoneLeft', NEW s \in Pids, server'[s].state = "superseded"
                 PROVE  \E q \in Pids : q > s /\ server'[q].state = "up"
      BY DEF Superseding, IsUp
    <3>1. NoneLeft
      BY <1>1, <2>2 DEF NoneLeft, IsUp
    <3>2. PICK n \in table[p] : n > p
      BY <1>6 DEF NewerSiblings, Matching
    <3>3. n \in Pids /\ server[n].state \in {"up", "superseded"}
      BY <1>1, <3>1, <3>2 DEF NoneLeft
    <3>4. PICK u \in Pids : u > p /\ server[u].state = "up"
      <4>1. CASE server[n].state = "up"
        BY <3>2, <3>3, <4>1
      <4>2. CASE server[n].state = "superseded"
        <5>1. PICK u \in Pids : u > n /\ server[u].state = "up"
          BY <3>1, <3>3, <4>2 DEF SiblingsIInv, Superseding, IsUp
        <5> QED BY <3>2, <3>3, <5>1 DEF SiblingsBase
      <4> QED BY <3>3, <4>1, <4>2
    <3>5. server'[u].state = "up"
      BY <3>4, <2>2 DEF SiblingsBase
    <3>6. CASE s = p
      BY <3>4, <3>5, <3>6
    <3>7. CASE s # p
      <4>1. PICK v \in Pids : v > s /\ server[v].state = "up"
        BY <3>1, <3>7, <2>2 DEF SiblingsIInv, Superseding, IsUp
      <4>2. CASE v = p
        BY <3>4, <3>5, <4>1, <4>2 DEF SiblingsBase
      <4>3. CASE v # p
        BY <2>2, <4>1, <4>3
      <4> QED BY <4>2, <4>3
    <3> QED BY <3>6, <3>7
  <2> QED BY <2>3, <2>4, <2>5 DEF SiblingsIInv
<1> QED BY <1>5, <1>6 DEF Decide, Shutdown

LEMMA SiblingStepKept ==
  ASSUME SiblingsBase, SiblingsIInv, [SiblingsNext]_serverVars
  PROVE  SiblingsIInv'
<1>0. SiblingsShape /\ NoTable \subseteq Pids
  BY DEF SiblingsIInv, NoTable
<1>1. CASE UNCHANGED serverVars
  BY <1>1 DEF serverVars, SiblingsIInv, SiblingsShape, TablesOfTheBorn, Superseding, NoneLeft, IsUp
<1>2. ASSUME NEW p \in Pids, NEW marked \in BOOLEAN, StartServer(p, marked) PROVE SiblingsIInv'
  <2> DEFINE new == [Unborn EXCEPT !.state = "up", !.marked = marked]
  <2>1. new \in Servers /\ new.state = "up"
    BY AgesStay DEF Unborn, Servers
  <2> HIDE DEF new
  <2>2. server' \in [Pids -> Servers] /\ server'[p].state = "up"
        /\ \A q \in Pids \ {p} : server'[q] = server[q]
    BY <1>2, <2>1, SetShape DEF StartServer, new
  <2>3. server[p].state = "unborn" /\ UNCHANGED <<table, failures>>
    BY <1>2 DEF StartServer
  <2>4. SiblingsShape'
    BY <1>0, <2>2, <2>3 DEF SiblingsShape
  <2> QED BY <2>2, <2>3, <2>4, StatesKept DEF IsUp
<1>3. ASSUME NEW p \in Pids, Traffic(p) \/ ReadFails(p) PROVE SiblingsIInv'
  <2>1. PICK new \in Servers : Set(p, new) /\ new.state = server[p].state
    <3>1. [server[p] EXCEPT !.traffic = 0] \in Servers
          /\ [server[p] EXCEPT !.duplicate = Never] \in Servers
          /\ [server[p] EXCEPT !.traffic = 0].state = server[p].state
          /\ [server[p] EXCEPT !.duplicate = Never].state = server[p].state
      BY <1>0, AgesStay DEF SiblingsShape, Servers
    <3> QED BY <1>3, <3>1 DEF Traffic, ReadFails
  <2>2. UNCHANGED table /\ failures' \in 0..MaxFailures
    BY <1>0, <1>3 DEF Traffic, ReadFails, SiblingsShape, SiblingsBase
  <2>3. server' \in [Pids -> Servers] /\ \A q \in Pids : server'[q].state = server[q].state
    BY <2>1, SetShape
  <2>4. SiblingsShape'
    BY <1>0, <2>2, <2>3 DEF SiblingsShape
  <2> QED BY <2>2, <2>3, <2>4, StatesKept DEF IsUp
<1>4. ASSUME NEW p \in Pids, ClientCloses(p) \/ ParentWatchdog(p) PROVE SiblingsIInv'
  <2>1. PICK reason \in {"closed", "parent_gone"} : Shutdown(p, reason)
    BY <1>4 DEF ClientCloses, ParentWatchdog
  <2>2. server' \in [Pids -> Servers] /\ server'[p].state = reason
        /\ \A q \in Pids \ {p} : server'[q] = server[q]
    BY <2>1, ShutdownShape, SetShape DEF Shutdown
  <2>3. IsUp(p) /\ table[p] = NoTable /\ UNCHANGED <<table, failures>>
    BY <1>4 DEF ClientCloses, ParentWatchdog
  <2>4. SiblingsShape'
    BY <1>0, <2>2, <2>3 DEF SiblingsShape
  <2> QED BY <2>2, <2>3, <2>4, StatesKept DEF IsUp
<1>5. ASSUME NEW p \in Pids, ReadTable(p) PROVE SiblingsIInv'
  <2>1. UNCHANGED <<server, failures>> /\ IsUp(p)
        /\ table' = [table EXCEPT ![p] = {q \in Pids : IsUp(q)}]
    BY <1>5 DEF ReadTable
  <2>2. SiblingsShape' /\ table'[p] = {q \in Pids : IsUp(q)}
        /\ \A q \in Pids \ {p} : table'[q] = table[q]
    BY <1>0, <2>1 DEF SiblingsShape
  <2> QED BY <2>1, <2>2, StatesKept DEF IsUp
<1>6. CASE ParentEnds
  <2>1. UNCHANGED <<server, table, failures>>
    BY <1>6 DEF ParentEnds
  <2> QED BY <2>1 DEF SiblingsIInv, SiblingsShape, TablesOfTheBorn, Superseding, NoneLeft, IsUp
<1>7. CASE Tick
  <2>1. UNCHANGED <<table, failures>>
        /\ server' = [p \in Pids |-> [server[p] EXCEPT !.traffic = Older(@), !.duplicate = Older(@)]]
    BY <1>7 DEF Tick
  <2>2. \A p \in Pids :
          LET s == [server[p] EXCEPT !.traffic = Older(@), !.duplicate = Older(@)] IN
          s \in Servers /\ s.state = server[p].state
    BY <1>0, AgesStay DEF SiblingsShape, Servers
  <2>3. server' \in [Pids -> Servers] /\ \A p \in Pids : server'[p].state = server[p].state
    BY <2>1, <2>2
  <2>4. SiblingsShape'
    BY <1>0, <2>1, <2>3 DEF SiblingsShape
  <2> QED BY <2>1, <2>3, <2>4, StatesKept DEF IsUp
<1> QED BY <1>1, <1>2, <1>3, <1>4, <1>5, <1>6, <1>7, DecideKept DEF SiblingsNext

LEMMA ServerKept ==
  ASSUME SiblingsBase
  PROVE  SiblingsInit /\ [][SiblingsNext]_serverVars => [](SiblingsTypeOK /\ OneServes)
<1>1. SiblingsInit => SiblingsIInv
  <2>1. Unborn \in Servers /\ Unborn.state = "unborn"
    BY AgesStay DEF Unborn, Servers
  <2> QED BY <2>1 DEF SiblingsInit, SiblingsIInv, SiblingsShape, TablesOfTheBorn, Superseding,
                      NoTable, SiblingsBase
<1>2. SiblingsIInv /\ [SiblingsNext]_serverVars => SiblingsIInv'
  BY SiblingStepKept
<1>3. SiblingsIInv => SiblingsTypeOK /\ OneServes
  <2>1. SiblingsIInv => SiblingsTypeOK
    BY DEF SiblingsIInv, SiblingsShape, Servers, SiblingsTypeOK
  <2>2. SiblingsIInv => OneServes
    BY DEF SiblingsIInv, Superseding, NoneLeft, OneServes, IsUp
  <2> QED BY <2>1, <2>2
<1> QED BY <1>1, <1>2, <1>3, PTL

(* A server is superseded only beside one that serves: as long as no       *)
(* client left and no parent ended, one is up once one was started.        *)
THEOREM OneServesAlways ==
  ASSUME SiblingsBase
  PROVE  SiblingsSpec => [](SiblingsTypeOK /\ OneServes)
BY ServerKept, PTL DEF SiblingsSpec
-----------------------------------------------------------------------------
(***************************************************************************)
(* The steps of a call, and which may follow which.                        *)
(***************************************************************************)
CallSteps == {"absent", "exists", "fallback", "start", "feed", "stamp", "lock", "unlock",
              "read", "page", "remove", "index", "log", "env"}
Inside == {"unlock", "read", "page", "remove", "index", "log", "env"}

MayFollow(a, b) ==
  \/ a \in {"absent", "exists", "fallback", "stamp"} /\ b = "lock"
  \/ a = "lock" /\ b \in {"read", "remove", "index", "log", "env"}
  \/ a = "read" /\ b = "page"
  \/ a \in {"page", "remove", "env"} /\ b = "index"
  \/ a = "index" /\ b \in {"log", "unlock"}
  \/ a = "log" /\ b = "unlock"
  \/ a = "unlock" /\ b \in {"lock", "feed", "none"}
  \/ a \in {"feed", "start"} /\ b = "none"

StepAt(s, i) == IF i \in 1..Len(s) THEN s[i] ELSE "none"
Chain(s) ==
  /\ s \in Seq(CallSteps)
  /\ \A i \in 1..Len(s) : MayFollow(s[i], StepAt(s, i + 1))

Pages == [state : {"none", "text", "page"}, items : SUBSET (0..MaxCalls), rank : 0..2]
CallRecords ==
  [op : WikiOps \cup {"none"}, file : Files \cup {Reserved}, n : 0..MaxCalls, todo : Seq(CallSteps),
   seen : Pages, memory : 0..MaxHand, stamp : 0..MaxHand]
WellFormed == {c \in CallRecords : Chain(c.todo)}

\* The step a call is at.
Now(c) == StepAt(c.todo, 1)

LEMMA TailChain ==
  ASSUME NEW s, Chain(s), s # <<>>
  PROVE  /\ Chain(Tail(s)) /\ Len(s) > 0 /\ Len(Tail(s)) = Len(s) - 1
         /\ Head(s) = StepAt(s, 1) /\ Head(s) \in CallSteps
         /\ MayFollow(StepAt(s, 1), StepAt(Tail(s), 1))
<1>1. s \in Seq(CallSteps) /\ Len(s) \in Nat /\ Len(s) > 0
  BY DEF Chain
<1>2. Tail(s) \in Seq(CallSteps) /\ Len(Tail(s)) = Len(s) - 1
  BY <1>1
<1>3. \A i \in 1..Len(Tail(s)) : Tail(s)[i] = s[i + 1]
  BY <1>1
<1>4. \A i \in 1..Len(s) : StepAt(Tail(s), i) = StepAt(s, i + 1)
  BY <1>1, <1>2, <1>3 DEF StepAt
<1>5. \A i \in 1..Len(Tail(s)) : MayFollow(Tail(s)[i], StepAt(Tail(s), i + 1))
  <2>1. TAKE i \in 1..Len(Tail(s))
  <2>2. i + 1 \in 1..Len(s) /\ i \in Nat
    BY <1>1, <1>2
  <2>3. MayFollow(s[i + 1], StepAt(s, (i + 1) + 1))
    BY <2>2 DEF Chain
  <2>4. StepAt(Tail(s), i + 1) = StepAt(s, (i + 1) + 1)
    BY <1>4, <2>2
  <2> QED
    BY <1>3, <2>3, <2>4
<1>6. MayFollow(s[1], StepAt(s, 1 + 1))
  BY <1>1 DEF Chain
<1>7. StepAt(s, 1) = s[1] /\ Head(s) = s[1] /\ s[1] \in CallSteps
  BY <1>1 DEF StepAt
<1>8. StepAt(Tail(s), 1) = StepAt(s, 1 + 1)
  BY <1>4, <1>1
<1> QED
  BY <1>1, <1>2, <1>5, <1>6, <1>7, <1>8 DEF Chain

LEMMA NowNone ==
  ASSUME NEW c, Chain(c.todo)
  PROVE  /\ c.todo # <<>> <=> Now(c) # "none"
         /\ c.todo # <<>> => Now(c) = Head(c.todo)
  <1>1. c.todo \in Seq(CallSteps) /\ Len(c.todo) \in Nat
    BY DEF Chain
  <1>2. CASE c.todo = <<>>
    BY <1>2 DEF Now, StepAt
  <1>3. CASE c.todo # <<>>
    <2>1. Now(c) = Head(c.todo) /\ Head(c.todo) \in CallSteps
      BY <1>3, TailChain DEF Now
    <2> QED
      BY <2>1, <1>3 DEF CallSteps
  <1> QED
    BY <1>2, <1>3

(* Steps that follow one another, and what may come behind them.           *)
Links(s, ending) ==
  /\ s \in Seq(CallSteps) /\ s # <<>>
  /\ \A i \in 1..Len(s) : MayFollow(s[i], IF i = Len(s) THEN ending ELSE s[i + 1])

LEMMA LinksJoin ==
  ASSUME NEW s, NEW t, NEW ending, Links(t, ending), Links(s, t[1])
  PROVE  Links(s \o t, ending) /\ (s \o t)[1] = s[1]
<1> DEFINE m == Len(s)
           n == Len(t)
           st == s \o t
<1>1. m \in Nat \ {0} /\ n \in Nat \ {0} /\ s \in Seq(CallSteps) /\ t \in Seq(CallSteps)
  BY DEF Links
<1>2. st \in Seq(CallSteps) /\ Len(st) = m + n
  BY <1>1
<1>3. \A i \in 1..(m + n) : st[i] = IF i <= m THEN s[i] ELSE t[i - m]
  BY <1>1
<1>4. st # <<>>
  BY <1>2, <1>1
<1>5. ASSUME NEW i \in 1..Len(st)
      PROVE  MayFollow(st[i], IF i = Len(st) THEN ending ELSE st[i + 1])
  <2>1. i \in Nat /\ i > 0 /\ i <= m + n
    BY <1>1, <1>2
  <2>2. CASE i < m
    <3>1. i \in 1..m /\ i # m /\ i # m + n /\ i + 1 \in 1..(m + n) /\ i + 1 <= m
      BY <2>1, <2>2, <1>1
    <3>2. st[i] = s[i] /\ st[i + 1] = s[i + 1]
      BY <3>1, <1>1, <1>3
    <3>3. MayFollow(s[i], s[i + 1])
      BY <3>1 DEF Links
    <3> QED BY <3>1, <3>2, <3>3, <1>2
  <2>3. CASE i = m
    <3>1. i \in 1..m /\ i # m + n /\ i + 1 \in 1..(m + n) /\ ~(i + 1 <= m) /\ (i + 1) - m = 1
      BY <2>1, <2>3, <1>1
    <3>2. st[i] = s[i] /\ st[i + 1] = t[1]
      BY <3>1, <2>3, <1>1, <1>3
    <3>3. MayFollow(s[i], t[1])
      BY <3>1, <2>3 DEF Links
    <3> QED BY <3>1, <3>2, <3>3, <1>2
  <2>4. CASE i > m
    <3>1. i - m \in 1..n /\ ~(i <= m) /\ (i = m + n <=> i - m = n)
      BY <2>1, <2>4, <1>1
    <3>2. st[i] = t[i - m]
      BY <3>1, <2>1, <1>1, <1>3
    <3>3. CASE i = m + n
      BY <3>1, <3>2, <3>3, <1>2 DEF Links
    <3>4. CASE i # m + n
      <4>1. i + 1 \in 1..(m + n) /\ ~(i + 1 <= m) /\ (i + 1) - m = (i - m) + 1
        BY <2>1, <2>4, <3>4, <1>1
      <4>2. st[i + 1] = t[(i - m) + 1]
        BY <4>1, <1>3
      <4>3. MayFollow(t[i - m], t[(i - m) + 1])
        BY <3>1, <3>4 DEF Links
      <4> QED BY <3>2, <4>2, <4>3, <3>4, <1>2
    <3> QED BY <3>3, <3>4
  <2> QED BY <2>1, <2>2, <2>3, <2>4, <1>1
<1>6. st[1] = s[1]
  BY <1>1, <1>3
<1> HIDE DEF st
<1> QED BY <1>2, <1>4, <1>5, <1>6 DEF Links, st

LEMMA LinksLock ==
  ASSUME NEW s, NEW ending, ending \in {"lock", "feed", "none"},
         Links(s, "unlock"), MayFollow("lock", s[1])
  PROVE  Links(Locked(s), ending) /\ Locked(s)[1] = "lock"
<1>1. Links(<<"unlock">>, ending) /\ <<"unlock">>[1] = "unlock"
  BY DEF Links, MayFollow, CallSteps
<1>2. Links(<<"lock">>, s[1]) /\ <<"lock">>[1] = "lock"
  BY DEF Links, CallSteps
<1>3. Links(<<"lock">> \o s, "unlock") /\ (<<"lock">> \o s)[1] = "lock"
  BY <1>2, LinksJoin
<1>4. Links((<<"lock">> \o s) \o <<"unlock">>, ending)
      /\ ((<<"lock">> \o s) \o <<"unlock">>)[1] = "lock"
  BY <1>1, <1>3, LinksJoin
<1> QED BY <1>4 DEF Locked

LEMMA LinksChain ==
  ASSUME NEW s, Links(s, "none")
  PROVE  Chain(s) /\ s # <<>> /\ StepAt(s, 1) = s[1]
<1>1. Len(s) \in Nat \ {0} /\ s \in Seq(CallSteps)
  BY DEF Links
<1>2. \A i \in 1..Len(s) : StepAt(s, i + 1) = IF i = Len(s) THEN "none" ELSE s[i + 1]
  BY <1>1 DEF StepAt
<1>3. 1 \in 1..Len(s)
  BY <1>1
<1> QED BY <1>1, <1>2, <1>3 DEF Links, Chain, StepAt

(* The programs of the calls are chains, with the step they begin with.    *)
Sections ==
  /\ Links(Locked(<<"log">>), "none") /\ Locked(<<"log">>)[1] = "lock"
  /\ \A e \in {"lock", "feed", "none"} : Links(Locked(<<"index">>), e)
  /\ Locked(<<"index">>)[1] = "lock"
  /\ \A e \in {"lock", "none"} : Links(Locked(<<"read", "page", "index", "log">>), e)
  /\ Locked(<<"read", "page", "index", "log">>)[1] = "lock"
  /\ Links(Locked(<<"remove", "index">>), "lock") /\ Locked(<<"remove", "index">>)[1] = "lock"
  /\ Links(Locked(<<"env", "index", "log">>), "none")
  /\ Locked(<<"env", "index", "log">>)[1] = "lock"

LEMMA SectionsLinked == Sections
<1>1. Links(<<"log">>, "unlock") /\ MayFollow("lock", <<"log">>[1])
  BY DEF Links, MayFollow, CallSteps
<1>2. Links(<<"index">>, "unlock") /\ MayFollow("lock", <<"index">>[1])
  BY DEF Links, MayFollow, CallSteps
<1>3. Links(<<"read", "page", "index", "log">>, "unlock")
      /\ MayFollow("lock", <<"read", "page", "index", "log">>[1])
  BY DEF Links, MayFollow, CallSteps
<1>4. Links(<<"remove", "index">>, "unlock") /\ MayFollow("lock", <<"remove", "index">>[1])
  BY DEF Links, MayFollow, CallSteps
<1>5. Links(<<"env", "index", "log">>, "unlock")
      /\ MayFollow("lock", <<"env", "index", "log">>[1])
  BY DEF Links, MayFollow, CallSteps
<1> QED BY <1>1, <1>2, <1>3, <1>4, <1>5, LinksLock DEF Sections

LEMMA ProgramChain ==
  ASSUME NEW op \in WikiOps
  PROVE  /\ Chain(Program(op)) /\ Program(op) # <<>>
         /\ StepAt(Program(op), 1) =
              CASE op = "ingest" -> "lock" [] op = "add" -> "absent" [] op = "delete" -> "exists"
                [] op = "start" -> "start" [] OTHER -> "fallback"
<1>0. Sections
  BY SectionsLinked
<1>1. CASE op = "ingest"
  <2>1. Program(op) = Locked(<<"read", "page", "index", "log">>)
    BY <1>1 DEF Program
  <2> QED BY <2>1, <1>0, <1>1, LinksChain DEF Sections
<1>2. CASE op = "add"
  <2> DEFINE body == Locked(<<"read", "page", "index", "log">>)
             log == Locked(<<"log">>)
  <2>1. Program(op) = (<<"absent">> \o body) \o log
    BY <1>2 DEF Program
  <2>2. Links(body, "lock") /\ body[1] = "lock" /\ Links(log, "none") /\ log[1] = "lock"
    BY <1>0 DEF Sections
  <2> HIDE DEF body, log
  <2>3. Links(<<"absent">>, "lock") /\ <<"absent">>[1] = "absent"
    BY DEF Links, MayFollow, CallSteps
  <2>4. Links(<<"absent">> \o body, "lock") /\ (<<"absent">> \o body)[1] = "absent"
    BY <2>2, <2>3, LinksJoin
  <2>5. Links(Program(op), "none") /\ Program(op)[1] = "absent"
    BY <2>1, <2>2, <2>4, LinksJoin
  <2> QED BY <2>5, <1>2, LinksChain
<1>3. CASE op = "delete"
  <2> DEFINE body == Locked(<<"remove", "index">>)
             log == Locked(<<"log">>)
  <2>1. Program(op) = (<<"exists">> \o body) \o log
    BY <1>3 DEF Program
  <2>2. Links(body, "lock") /\ body[1] = "lock" /\ Links(log, "none") /\ log[1] = "lock"
    BY <1>0 DEF Sections
  <2> HIDE DEF body, log
  <2>3. Links(<<"exists">>, "lock") /\ <<"exists">>[1] = "exists"
    BY DEF Links, MayFollow, CallSteps
  <2>4. Links(<<"exists">> \o body, "lock") /\ (<<"exists">> \o body)[1] = "exists"
    BY <2>2, <2>3, LinksJoin
  <2>5. Links(Program(op), "none") /\ Program(op)[1] = "exists"
    BY <2>1, <2>2, <2>4, LinksJoin
  <2> QED BY <2>5, <1>3, LinksChain
<1>4. CASE op = "refresh"
  <2> DEFINE body == Locked(<<"index">>)
             log == Locked(<<"log">>)
  <2>1. Program(op) = (<<"fallback">> \o body) \o log
    BY <1>4 DEF Program
  <2>2. Links(body, "lock") /\ body[1] = "lock" /\ Links(log, "none") /\ log[1] = "lock"
    BY <1>0 DEF Sections
  <2> HIDE DEF body, log
  <2>3. Links(<<"fallback">>, "lock") /\ <<"fallback">>[1] = "fallback"
    BY DEF Links, MayFollow, CallSteps
  <2>4. Links(<<"fallback">> \o body, "lock") /\ (<<"fallback">> \o body)[1] = "fallback"
    BY <2>2, <2>3, LinksJoin
  <2>5. Links(Program(op), "none") /\ Program(op)[1] = "fallback"
    BY <2>1, <2>2, <2>4, LinksJoin
  <2> QED BY <2>5, <1>4, LinksChain
<1>5. CASE op = "search"
  <2> DEFINE log == Locked(<<"log">>)
  <2>1. Program(op) = <<"fallback">> \o log
    BY <1>5 DEF Program
  <2>2. Links(log, "none") /\ log[1] = "lock"
    BY <1>0 DEF Sections
  <2> HIDE DEF log
  <2>3. Links(<<"fallback">>, "lock") /\ <<"fallback">>[1] = "fallback"
    BY DEF Links, MayFollow, CallSteps
  <2>4. Links(Program(op), "none") /\ Program(op)[1] = "fallback"
    BY <2>1, <2>2, <2>3, LinksJoin
  <2> QED BY <2>4, <1>5, LinksChain
<1>6. CASE op = "start"
  <2>1. Program(op) = <<"start">>
    BY <1>6 DEF Program
  <2>2. Links(<<"start">>, "none") /\ <<"start">>[1] = "start"
    BY DEF Links, MayFollow, CallSteps
  <2> QED BY <2>1, <2>2, <1>6, LinksChain
<1> QED BY <1>1, <1>2, <1>3, <1>4, <1>5, <1>6 DEF WikiOps

(***************************************************************************)
(* What holds whenever a call takes a step.                                *)
(***************************************************************************)
WikiRecords ==
  [there : BOOLEAN, page : [Files -> Pages], index : (SUBSET Files) \cup {NoIndex}]
WikiBounds == [calls : 0..MaxCalls, troubles : Nat, hand : 0..MaxHand]
Environments == [there : BOOLEAN, of : 0..MaxHand, fresh : BOOLEAN, blurred : BOOLEAN]

WikiShape ==
  /\ legacy \in BOOLEAN /\ stale \in BOOLEAN
  /\ bounds \in WikiBounds /\ memory \in 0..bounds.hand
  /\ wiki \in WikiRecords /\ env \in Environments
  /\ wlock \in Callers \cup {Free, Orphan}
  /\ caller \in [Callers -> WellFormed]

(* The lock belongs to the call that is between taking and giving it.      *)
HolderInside == \A p \in Callers : wlock = p <=> Now(caller[p]) \in Inside

(* What a call is about to merge with has all that the page has, but for   *)
(* what the user wrote there by hand in the meantime.                      *)
Covers(page, copy) ==
  page.items \ {0} \subseteq copy.items /\ (page.rank <= copy.rank \/ page.rank = 0)
CopyOf(c) == Now(c) = "page" /\ c.file \in Files => Covers(wiki.page[c.file], c.seen)
CopiesCover == \A p \in Callers : CopyOf(caller[p])
TextsBare == \A f \in Files : wiki.page[f].state # "page" => Covers(wiki.page[f], NoPage)

(* An index that is not true has its writer still to come, or it failed.   *)
IndexShows == wiki.index = Parsed \/ (wiki.index = NoIndex /\ Parsed = {})
IndexComes ==
  wlock # Orphan /\ ~stale => IndexShows \/ \E p \in Callers : Now(caller[p]) = "index"

(* Past its first step, a call that brings no knowledge has seen that the  *)
(* legacy wiki is not the one in use.                                      *)
ViewOf(c) ==
  /\ Now(c) = "absent" => c.op = "add"
  /\ c.op \notin {"ingest", "add"} /\ Now(c) \notin {"exists", "fallback", "start", "none"}
       => ~Fallback
ViewsSeen == \A p \in Callers : ViewOf(caller[p])

WikiIInv ==
  /\ WikiShape /\ HolderInside /\ CopiesCover /\ TextsBare /\ IndexComes
  /\ EnvironmentTrue /\ ViewsSeen

WikiBase == MaxCalls \in Nat /\ MaxHand \in Nat /\ Free \notin Callers /\ Orphan \notin Callers
            /\ Free # Orphan

LEMMA AbsentPage == NoPage \in Pages /\ NoPage.items = {} /\ NoPage.rank = 0
  BY DEF NoPage, Pages

LEMMA NoCallShape ==
  ASSUME WikiBase
  PROVE  NoCall \in WellFormed /\ Now(NoCall) = "none" /\ NoCall.op = "none"
<1>1. Chain(NoCall.todo) /\ Now(NoCall) = "none"
  BY DEF NoCall, Chain, Now, StepAt
<1>2. NoCall.seen \in Pages /\ NoCall.todo \in Seq(CallSteps)
  BY AbsentPage DEF NoCall
<1> QED
  BY <1>1, <1>2 DEF WikiBase, WellFormed, CallRecords, NoCall

(* A call that goes on keeps all but the step it is at.                    *)
SameCall(c, d) ==
  /\ d.op = c.op /\ d.file = c.file /\ d.n = c.n /\ d.seen = c.seen
  /\ d.memory = c.memory /\ d.stamp = c.stamp

LEMMA GoesOn ==
  ASSUME NEW c \in WellFormed, NEW s, Chain(s)
  PROVE  LET d == [c EXCEPT !.todo = s] IN
         d \in WellFormed /\ SameCall(c, d) /\ Now(d) = StepAt(s, 1)
  BY DEF WellFormed, CallRecords, SameCall, Now, Chain

LEMMA AdvanceShape ==
  ASSUME WikiBase, NEW c \in WellFormed, Now(c) # "none"
  PROVE  /\ Advance(c) \in WellFormed /\ MayFollow(Now(c), Now(Advance(c)))
         /\ Advance(c) = NoCall \/ SameCall(c, Advance(c))
<1>1. Chain(c.todo) /\ c.todo # <<>>
  BY NowNone DEF WellFormed
<1>2. Chain(Tail(c.todo)) /\ Len(Tail(c.todo)) = Len(c.todo) - 1
      /\ MayFollow(Now(c), StepAt(Tail(c.todo), 1))
  BY <1>1, TailChain DEF Now
<1>3. Len(c.todo) \in Nat
  BY <1>1 DEF Chain
<1>4. CASE Len(c.todo) = 1
  <2>1. StepAt(Tail(c.todo), 1) = "none"
    BY <1>2, <1>4 DEF StepAt
  <2> QED BY <2>1, <1>2, <1>4, NoCallShape DEF Advance
<1>5. CASE Len(c.todo) # 1
  <2>1. Advance(c) = [c EXCEPT !.todo = Tail(c.todo)]
    BY <1>5 DEF Advance
  <2> QED BY <2>1, <1>2, GoesOn
<1> QED BY <1>4, <1>5

LEMMA ThenShape ==
  ASSUME WikiBase, NEW c \in WellFormed, NEW s, Chain(s)
  PROVE  /\ Then(c, s) \in WellFormed /\ Now(Then(c, s)) = StepAt(s, 1)
         /\ Then(c, s) = NoCall \/ SameCall(c, Then(c, s))
<1>1. CASE s = <<>>
  BY <1>1, NoCallShape DEF Then, StepAt
<1>2. CASE s # <<>>
  BY <1>2, GoesOn DEF Then
<1> QED BY <1>1, <1>2

LEMMA UnlockChain == Chain(<<"unlock">>) /\ StepAt(<<"unlock">>, 1) = "unlock"
  BY DEF Chain, StepAt, MayFollow, CallSteps

LEMMA ThrowsShape ==
  ASSUME WikiBase, NEW c \in WellFormed, Now(c) # "none", wlock # Free
  PROVE  Throws(c) \in WellFormed /\ Now(Throws(c)) = "unlock" /\ SameCall(c, Throws(c))
<1>1. c.todo # <<>>
  BY NowNone DEF WellFormed
<1>2. Throws(c) = [c EXCEPT !.todo = <<"unlock">>]
  BY <1>1 DEF Throws
<1> QED BY <1>2, UnlockChain, GoesOn

LEMMA AtNow ==
  ASSUME WikiShape, NEW p \in Callers, NEW step \in CallSteps
  PROVE  /\ At(p, step) <=> Now(caller[p]) = step
         /\ step # "none" /\ caller[p] \in WellFormed
  BY NowNone DEF WikiShape, WellFormed, At, CallSteps

(* A step of one call that leaves the pages, the index and the environment *)
(* as they are.                                                            *)
LEMMA QuietStep ==
  ASSUME WikiBase, WikiIInv, NEW p \in Callers, NEW d \in WellFormed, Continue(p, d),
         UNCHANGED <<legacy, env, memory>>,
         bounds' \in WikiBounds, bounds'.hand = bounds.hand,
         wiki' \in WikiRecords, wiki'.page = wiki.page, wiki'.index = wiki.index,
         wiki.there => wiki'.there,
         stale' \in BOOLEAN, stale => stale',
         wlock' \in Callers \cup {Free, Orphan}, wlock = Orphan => wlock' = Orphan,
         \A q \in Callers \ {p} : wlock' = q <=> wlock = q,
         wlock' = p <=> Now(d) \in Inside,
         Now(caller[p]) = "index" => Now(d) = "index" \/ wlock' = Orphan \/ stale',
         CopyOf(d), ViewOf(d) \/ ViewOf(d)'
  PROVE  WikiIInv'
<1>1. caller' \in [Callers -> WellFormed] /\ caller'[p] = d
      /\ \A q \in Callers \ {p} : caller'[q] = caller[q]
  BY DEF Continue, WikiIInv, WikiShape
<1>2. WikiShape'
  BY <1>1 DEF WikiIInv, WikiShape
<1>3. HolderInside'
  BY <1>1 DEF WikiIInv, HolderInside, Now
<1>4. CopiesCover' /\ TextsBare'
  <2>1. \A q \in Callers : CopyOf(caller'[q])
    BY <1>1 DEF WikiIInv, CopiesCover
  <2>2. \A q \in Callers : CopyOf(caller'[q]) => CopyOf(caller[q])'
    BY DEF CopyOf, Now, Covers
  <2> QED BY <2>1, <2>2 DEF CopiesCover, WikiIInv, TextsBare, Covers
<1>5. IndexComes'
  <2>1. Parsed' = Parsed /\ IndexShows' = IndexShows
    BY DEF Parsed, IndexShows
  <2>2. SUFFICES ASSUME wlock' # Orphan, ~stale', ~IndexShows
                 PROVE  \E q \in Callers : Now(caller'[q]) = "index"
    BY <2>1 DEF IndexComes, Now
  <2>3. PICK q \in Callers : Now(caller[q]) = "index"
    BY <2>2 DEF WikiIInv, IndexComes
  <2>4. Now(caller'[q]) = "index"
    BY <1>1, <2>2, <2>3
  <2> QED BY <2>4
<1>6. EnvironmentTrue'
  BY DEF WikiIInv, EnvironmentTrue
<1>7. ViewsSeen'
  <2>1. Fallback' => Fallback
    BY DEF Fallback, WikiIInv, WikiShape, WikiRecords
  <2>2. \A c : ViewOf(c) => (ViewOf(c))'
    BY <2>1 DEF ViewOf, Now
  <2>3. \A q \in Callers : (ViewOf(caller[q]))'
    BY <1>1, <2>1, <2>2 DEF WikiIInv, ViewsSeen, ViewOf, Now
  <2> QED BY <2>3 DEF ViewsSeen
<1> QED BY <1>2, <1>3, <1>4, <1>5, <1>6, <1>7 DEF WikiIInv

(* Where the next step of a call leads.                                    *)
LEMMA AdvanceViews ==
  ASSUME WikiBase, WikiIInv, NEW p \in Callers, NEW c \in WellFormed,
         SameCall(caller[p], c), c.todo = caller[p].todo,
         Now(c) \notin {"none", "absent", "exists", "fallback", "start"}
  PROVE  ViewOf(Advance(c))
<1>1. MayFollow(Now(c), Now(Advance(c))) /\ (Advance(c) = NoCall \/ SameCall(c, Advance(c)))
  BY AdvanceShape
<1>2. Now(Advance(c)) # "absent"
  BY <1>1 DEF MayFollow
<1>3. ViewOf(caller[p]) /\ Now(caller[p]) = Now(c)
  BY DEF WikiIInv, ViewsSeen, Now
<1>4. CASE Advance(c) = NoCall
  BY <1>4, NoCallShape DEF ViewOf
<1>5. CASE SameCall(c, Advance(c))
  BY <1>2, <1>3, <1>5 DEF ViewOf, SameCall
<1> QED BY <1>1, <1>4, <1>5

LEMMA CopyElsewhere ==
  ASSUME NEW c, Now(c) # "page"
  PROVE  CopyOf(c)
  BY DEF CopyOf

LEMMA WikiSame ==
  ASSUME WikiIInv
  PROVE  /\ bounds \in WikiBounds /\ wiki \in WikiRecords /\ stale \in BOOLEAN
         /\ wlock \in Callers \cup {Free, Orphan} /\ wiki.there \in BOOLEAN
         /\ caller \in [Callers -> WellFormed]
         /\ \A p \in Callers : wlock = p <=> Now(caller[p]) \in Inside
  BY DEF WikiIInv, WikiShape, HolderInside, WikiRecords

LEMMA BeginCallKept ==
  ASSUME WikiBase, WikiIInv, NEW p \in Callers, NEW op \in WikiOps,
         NEW f \in Files \cup {Reserved}, BeginCall(p, op, f)
  PROVE  WikiIInv'
<1> DEFINE d == [NoCall EXCEPT !.op = op, !.file = f, !.n = bounds.calls + 1, !.todo = Program(op)]
<1>1. NoCall \in WellFormed /\ Now(NoCall) = "none"
  BY NoCallShape
<1>2. Continue(p, d) /\ caller[p] = NoCall /\ bounds.calls < MaxCalls
      /\ UNCHANGED <<legacy, wiki, env, wlock, memory, stale>>
      /\ bounds' = [bounds EXCEPT !.calls = @ + 1]
  BY DEF BeginCall
<1>3. bounds.calls + 1 \in 0..MaxCalls /\ bounds' \in WikiBounds /\ bounds'.hand = bounds.hand
  BY <1>2, WikiSame DEF WikiBase, WikiBounds
<1>4. Chain(Program(op)) /\ StepAt(Program(op), 1) \in {"lock", "absent", "exists", "start", "fallback"}
      /\ (StepAt(Program(op), 1) = "absent" => op = "add")
      /\ (StepAt(Program(op), 1) = "lock" => op = "ingest")
  BY ProgramChain DEF WikiOps
<1>5. d \in WellFormed /\ Now(d) = StepAt(Program(op), 1) /\ d.op = op
  <2> HIDE DEF Program
  <2>1. NoCall \in CallRecords
    BY <1>1 DEF WellFormed
  <2>2. d.todo = Program(op) /\ d.op = op
    BY <2>1 DEF CallRecords
  <2>3. d \in CallRecords
    BY <2>1, <1>3, <1>4 DEF CallRecords, Chain
  <2> QED BY <2>2, <2>3, <1>4 DEF WellFormed, Now
<1> HIDE DEF d
<1>6. wlock # p
  BY <1>1, <1>2, WikiSame DEF Inside
<1>7. Now(d) \notin Inside /\ Now(d) # "page" /\ ViewOf(d)
  BY <1>4, <1>5 DEF Inside, ViewOf
<1> QED BY <1>1, <1>2, <1>3, <1>5, <1>6, <1>7, CopyElsewhere, WikiSame, QuietStep

LEMMA LookFirstKept ==
  ASSUME WikiBase, WikiIInv, NEW p \in Callers, LookFirst(p)
  PROVE  WikiIInv'
<1>1. UNCHANGED <<legacy, wiki, env, wlock, memory, bounds, stale>>
      /\ (Now(caller[p]) = "absent" \/ (Now(caller[p]) = "exists"))
      /\ (Continue(p, NoCall) \/ (Goes(p) /\ (Now(caller[p]) = "exists" => wiki.there)))
  BY AtNow DEF LookFirst, WikiIInv, CallSteps
<1>2. wlock # p /\ caller[p] \in WellFormed
  BY <1>1, WikiSame DEF Inside
<1>3. CASE Continue(p, NoCall)
  <2>1. Now(NoCall) = "none" /\ NoCall \in WellFormed /\ ViewOf(NoCall)
    BY NoCallShape DEF ViewOf
  <2> QED BY <1>1, <1>2, <1>3, <2>1, CopyElsewhere, WikiSame, QuietStep DEF Inside
<1>4. CASE Goes(p) /\ (Now(caller[p]) = "exists" => wiki.there)
  <2> DEFINE d == Advance(caller[p])
  <2>1. d \in WellFormed /\ Now(d) = "lock" /\ (d = NoCall \/ SameCall(caller[p], d))
    BY <1>1, <1>2, AdvanceShape DEF MayFollow
  <2>2. d # NoCall
    BY <2>1, NoCallShape
  <2>3. ViewOf(d)
    BY <1>1, <1>4, <2>1, <2>2 DEF ViewOf, SameCall, WikiIInv, ViewsSeen, Fallback
  <2>4. Continue(p, d)
    BY <1>4 DEF Goes
  <2> HIDE DEF d
  <2> QED BY <1>1, <1>2, <2>1, <2>3, <2>4, CopyElsewhere, WikiSame, QuietStep DEF Inside
<1> QED BY <1>1, <1>3, <1>4

LEMMA AskFallbackKept ==
  ASSUME WikiBase, WikiIInv, NEW p \in Callers, AskFallback(p)
  PROVE  WikiIInv'
<1>1. UNCHANGED <<legacy, wiki, env, wlock, memory, bounds, stale>>
      /\ Now(caller[p]) = "fallback"
      /\ (Continue(p, NoCall) \/ (Goes(p) /\ ~Fallback))
  BY AtNow DEF AskFallback, WikiIInv, CallSteps
<1>2. wlock # p /\ caller[p] \in WellFormed
  BY <1>1, WikiSame DEF Inside
<1>3. CASE Continue(p, NoCall)
  <2>1. Now(NoCall) = "none" /\ NoCall \in WellFormed /\ ViewOf(NoCall)
    BY NoCallShape DEF ViewOf
  <2> QED BY <1>1, <1>2, <1>3, <2>1, CopyElsewhere, WikiSame, QuietStep DEF Inside
<1>4. CASE Goes(p) /\ ~Fallback
  <2> DEFINE d == Advance(caller[p])
  <2>1. d \in WellFormed /\ Now(d) = "lock"
    BY <1>1, <1>2, AdvanceShape DEF MayFollow
  <2>2. ViewOf(d) /\ Continue(p, d)
    BY <1>4, <2>1 DEF ViewOf, Goes
  <2> HIDE DEF d
  <2> QED BY <1>1, <1>2, <2>1, <2>2, CopyElsewhere, WikiSame, QuietStep DEF Inside
<1> QED BY <1>1, <1>3, <1>4

LEMMA LockKept ==
  ASSUME WikiBase, WikiIInv, NEW p \in Callers, TakeLock(p) \/ LockTimesOut(p)
  PROVE  WikiIInv'
<1>1. Now(caller[p]) = "lock" /\ caller[p] \in WellFormed
  BY AtNow DEF TakeLock, LockTimesOut, WikiIInv, CallSteps
<1>2. wlock # p
  BY <1>1, WikiSame DEF Inside
<1>3. CASE TakeLock(p)
  <2> DEFINE d == Advance(caller[p])
  <2>1. d \in WellFormed /\ Now(d) \in Inside /\ Now(d) # "page"
    BY <1>1, AdvanceShape DEF MayFollow, Inside
  <2>2. ViewOf(d)
    BY <1>1, AdvanceViews DEF SameCall
  <2>3. wiki' \in WikiRecords /\ wiki'.page = wiki.page /\ wiki'.index = wiki.index /\ wiki'.there
    BY <1>3, WikiSame DEF TakeLock, WikiRecords
  <2>4. Continue(p, d) /\ UNCHANGED <<legacy, env, memory, bounds, stale>> /\ wlock = Free /\ wlock' = p
    BY <1>3 DEF TakeLock, Goes
  <2>5. \A q \in Callers \ {p} : wlock' = q <=> wlock = q
    BY <2>4 DEF WikiBase
  <2> HIDE DEF d
  <2> QED BY <1>1, <2>1, <2>2, <2>3, <2>4, <2>5, CopyElsewhere, WikiSame, QuietStep DEF WikiBase
<1>4. CASE LockTimesOut(p)
  <2>1. Now(NoCall) = "none" /\ NoCall \in WellFormed /\ ViewOf(NoCall)
    BY NoCallShape DEF ViewOf
  <2>2. Continue(p, NoCall) /\ UNCHANGED <<legacy, wiki, env, wlock, memory, bounds, stale>>
    BY <1>4 DEF LockTimesOut
  <2> QED BY <1>1, <1>2, <2>1, <2>2, CopyElsewhere, WikiSame, QuietStep DEF Inside
<1> QED BY <1>3, <1>4

LEMMA GiveLockKept ==
  ASSUME WikiBase, WikiIInv, NEW p \in Callers, GiveLock(p)
  PROVE  WikiIInv'
<1> DEFINE d == Advance(caller[p])
<1>1. Now(caller[p]) = "unlock" /\ caller[p] \in WellFormed
  BY AtNow DEF GiveLock, WikiIInv, CallSteps
<1>2. wlock = p
  BY <1>1, WikiSame DEF Inside
<1>3. d \in WellFormed /\ Now(d) \in {"lock", "feed", "none"}
  BY <1>1, AdvanceShape DEF MayFollow
<1>4. ViewOf(d)
  BY <1>1, AdvanceViews DEF SameCall
<1>5. Continue(p, d) /\ UNCHANGED <<legacy, wiki, env, memory, bounds, stale>> /\ wlock' = Free
  BY DEF GiveLock, Goes
<1>6. \A q \in Callers \ {p} : wlock' = q <=> wlock = q
  BY <1>2, <1>5 DEF WikiBase
<1> HIDE DEF d
<1> QED BY <1>1, <1>2, <1>3, <1>4, <1>5, <1>6, CopyElsewhere, WikiSame, QuietStep DEF Inside, WikiBase

LEMMA ReadPageKept ==
  ASSUME WikiBase, WikiIInv, NEW p \in Callers, ReadPage(p)
  PROVE  WikiIInv'
<1> DEFINE seen == IF caller[p].file \in Parsed THEN wiki.page[caller[p].file] ELSE NoPage
           c == [caller[p] EXCEPT !.seen = seen]
           d == Advance(c)
<1>1. Now(caller[p]) = "read" /\ caller[p] \in WellFormed
  BY AtNow DEF ReadPage, WikiIInv, CallSteps
<1>2. wlock = p
  BY <1>1, WikiSame DEF Inside
<1>3. seen \in Pages /\ (caller[p].file \in Files => Covers(wiki.page[caller[p].file], seen))
  <2>1. CASE caller[p].file \in Parsed
    <3>1. wiki.page[caller[p].file] \in Pages
      BY <2>1, WikiSame DEF Parsed, WikiRecords
    <3> QED BY <2>1, <3>1 DEF Covers, Pages
  <2>2. CASE caller[p].file \notin Parsed
    BY <2>2, AbsentPage DEF Parsed, WikiIInv, TextsBare
  <2> QED BY <2>1, <2>2
<1> HIDE DEF seen
<1>4. c \in WellFormed /\ c.todo = caller[p].todo /\ c.op = caller[p].op /\ c.file = caller[p].file
      /\ c.seen = seen /\ Now(c) = "read"
  BY <1>1, <1>3 DEF WellFormed, CallRecords, Now
<1>5. Continue(p, d) /\ UNCHANGED <<legacy, wiki, env, wlock, memory, bounds, stale>>
  BY DEF ReadPage, seen
<1> HIDE DEF c
<1>6. d \in WellFormed /\ Now(d) = "page" /\ (d = NoCall \/ SameCall(c, d))
  BY <1>4, AdvanceShape DEF MayFollow
<1> HIDE DEF d
<1>7. SameCall(c, d)
  BY <1>6, NoCallShape
<1>8. CopyOf(d)
  BY <1>3, <1>4, <1>7 DEF CopyOf, SameCall
<1>9. ViewOf(d)
  BY <1>1, <1>4, <1>6, <1>7 DEF ViewOf, SameCall, WikiIInv, ViewsSeen
<1> QED BY <1>1, <1>2, <1>5, <1>6, <1>8, <1>9, WikiSame, QuietStep DEF Inside

LEMMA WriteLogKept ==
  ASSUME WikiBase, WikiIInv, NEW p \in Callers, WriteLog(p)
  PROVE  WikiIInv'
<1> DEFINE d == Advance(caller[p])
<1>1. Now(caller[p]) = "log" /\ caller[p] \in WellFormed
  BY AtNow DEF WriteLog, WikiIInv, CallSteps
<1>2. wlock = p
  BY <1>1, WikiSame DEF Inside
<1>3. d \in WellFormed /\ Now(d) = "unlock" /\ ViewOf(d)
  BY <1>1, AdvanceShape, AdvanceViews DEF MayFollow, SameCall
<1>4. Continue(p, d) /\ UNCHANGED <<legacy, wiki, env, wlock, memory, bounds, stale>>
  BY DEF WriteLog, Goes
<1> HIDE DEF d
<1> QED BY <1>1, <1>2, <1>3, <1>4, CopyElsewhere, WikiSame, QuietStep DEF Inside

LEMMA StartSessionKept ==
  ASSUME WikiBase, WikiIInv, NEW p \in Callers, NEW feed \in BOOLEAN, StartSession(p, feed)
  PROVE  WikiIInv'
<1> DEFINE index == IF wiki.index = NoIndex THEN Locked(<<"index">>) ELSE <<>>
           after == IF feed THEN <<"feed">> ELSE <<>>
           d == Then(caller[p], index \o after)
<1>1. Now(caller[p]) = "start" /\ caller[p] \in WellFormed
  BY AtNow DEF StartSession, WikiIInv, CallSteps
<1>2. wlock # p
  BY <1>1, WikiSame DEF Inside
<1>3. UNCHANGED <<legacy, wiki, env, wlock, memory, bounds, stale>>
      /\ (Continue(p, NoCall) \/ (Continue(p, d) /\ ~Fallback))
  BY DEF StartSession
<1>4. CASE Continue(p, NoCall)
  <2>1. Now(NoCall) = "none" /\ NoCall \in WellFormed /\ ViewOf(NoCall)
    BY NoCallShape DEF ViewOf
  <2> QED BY <1>1, <1>2, <1>3, <1>4, <2>1, CopyElsewhere, WikiSame, QuietStep DEF Inside
<1>5. CASE Continue(p, d) /\ ~Fallback
  <2>1. Chain(index \o after) /\ StepAt(index \o after, 1) \in {"lock", "feed", "none"}
    <3>1. Links(<<"feed">>, "none") /\ <<"feed">>[1] = "feed"
      BY DEF Links, MayFollow, CallSteps
    <3>2. \A e \in {"feed", "none"} : Links(Locked(<<"index">>), e)
      BY SectionsLinked DEF Sections
    <3>3. Locked(<<"index">>)[1] = "lock" /\ Locked(<<"index">>) \in Seq(CallSteps)
      BY <3>2, SectionsLinked DEF Sections, Links
    <3>4. CASE wiki.index = NoIndex /\ feed
      <4>1. Links(Locked(<<"index">>) \o <<"feed">>, "none")
            /\ (Locked(<<"index">>) \o <<"feed">>)[1] = "lock"
        BY <3>1, <3>2, <3>3, LinksJoin
      <4> QED BY <4>1, <3>4, LinksChain
    <3>5. CASE wiki.index = NoIndex /\ ~feed
      <4>1. index \o after = Locked(<<"index">>)
        BY <3>3, <3>5
      <4> QED BY <4>1, <3>2, <3>3, LinksChain
    <3>6. CASE wiki.index # NoIndex /\ feed
      <4>1. index \o after = <<"feed">>
        BY <3>6
      <4> QED BY <4>1, <3>1, LinksChain
    <3>7. CASE wiki.index # NoIndex /\ ~feed
      <4>1. index = <<>> /\ after = <<>>
        BY <3>7
      <4>2. <<>> \o <<>> = <<>>
        OBVIOUS
      <4>3. index \o after = <<>>
        BY <4>1, <4>2, Zenon
      <4> HIDE DEF index, after
      <4> QED BY <4>3 DEF Chain, StepAt
    <3> QED BY <3>4, <3>5, <3>6, <3>7
  <2> HIDE DEF index, after
  <2>2. d \in WellFormed /\ Now(d) \in {"lock", "feed", "none"}
    BY <1>1, <2>1, ThenShape
  <2> HIDE DEF d
  <2>3. ViewOf(d)
    BY <1>5, <2>2 DEF ViewOf
  <2> QED BY <1>1, <1>2, <1>3, <1>5, <2>2, <2>3, CopyElsewhere, WikiSame, QuietStep DEF Inside
<1> QED BY <1>3, <1>4, <1>5

LEMMA FeedMemoryKept ==
  ASSUME WikiBase, WikiIInv, NEW p \in Callers, FeedMemory(p)
  PROVE  WikiIInv'
<1> DEFINE steps == <<"stamp">> \o Locked(<<"env", "index", "log">>)
           d == [caller[p] EXCEPT !.memory = memory, !.todo = steps]
<1>1. Now(caller[p]) = "feed" /\ caller[p] \in WellFormed
  BY AtNow DEF FeedMemory, WikiIInv, CallSteps
<1>2. wlock # p
  BY <1>1, WikiSame DEF Inside
<1>3. UNCHANGED <<legacy, wiki, env, wlock, memory, bounds, stale>>
      /\ (Continue(p, NoCall) \/ Continue(p, d))
  BY DEF FeedMemory
<1>4. CASE Continue(p, NoCall)
  <2>1. Now(NoCall) = "none" /\ NoCall \in WellFormed /\ ViewOf(NoCall)
    BY NoCallShape DEF ViewOf
  <2> QED BY <1>1, <1>2, <1>3, <1>4, <2>1, CopyElsewhere, WikiSame, QuietStep DEF Inside
<1>5. CASE Continue(p, d)
  <2>1. Links(<<"stamp">>, "lock") /\ <<"stamp">>[1] = "stamp"
    BY DEF Links, MayFollow, CallSteps
  <2>2. Links(steps, "none") /\ steps[1] = "stamp"
    BY <2>1, SectionsLinked, LinksJoin DEF Sections
  <2> HIDE DEF steps
  <2>3. Chain(steps) /\ StepAt(steps, 1) = "stamp"
    BY <2>2, LinksChain
  <2>4. memory \in 0..MaxHand
    BY DEF WikiIInv, WikiShape, WikiBounds, WikiBase
  <2>5. d \in WellFormed /\ Now(d) = "stamp" /\ d.op = caller[p].op
    <3>1. caller[p] \in CallRecords
      BY <1>1 DEF WellFormed
    <3>2. d.todo = steps /\ d.op = caller[p].op
      BY <3>1 DEF CallRecords
    <3>3. d \in CallRecords
      BY <3>1, <2>3, <2>4 DEF CallRecords, Chain
    <3> QED BY <3>2, <3>3, <2>3 DEF WellFormed, Now
  <2> HIDE DEF d
  <2>6. ViewOf(d)
    BY <1>1, <2>5 DEF ViewOf, WikiIInv, ViewsSeen
  <2> QED BY <1>1, <1>2, <1>3, <1>5, <2>5, <2>6, CopyElsewhere, WikiSame, QuietStep DEF Inside
<1> QED BY <1>3, <1>4, <1>5

LEMMA TakeTimeKept ==
  ASSUME WikiBase, WikiIInv, NEW p \in Callers, TakeTime(p)
  PROVE  WikiIInv'
<1> DEFINE c == [caller[p] EXCEPT !.stamp = memory]
           d == Advance(c)
<1>1. Now(caller[p]) = "stamp" /\ caller[p] \in WellFormed
  BY AtNow DEF TakeTime, WikiIInv, CallSteps
<1>2. wlock # p
  BY <1>1, WikiSame DEF Inside
<1>3. memory \in 0..MaxHand
  BY DEF WikiIInv, WikiShape, WikiBounds, WikiBase
<1>4. c \in WellFormed /\ c.op = caller[p].op /\ Now(c) = "stamp"
  BY <1>1, <1>3 DEF WellFormed, CallRecords, Now
<1>5. Continue(p, d) /\ UNCHANGED <<legacy, wiki, env, wlock, memory, bounds, stale>>
  BY DEF TakeTime
<1> HIDE DEF c
<1>6. d \in WellFormed /\ Now(d) = "lock" /\ (d = NoCall \/ SameCall(c, d))
  BY <1>4, AdvanceShape DEF MayFollow
<1> HIDE DEF d
<1>7. ViewOf(d)
  BY <1>1, <1>4, <1>6, NoCallShape DEF ViewOf, SameCall, WikiIInv, ViewsSeen
<1> QED BY <1>1, <1>2, <1>5, <1>6, <1>7, CopyElsewhere, WikiSame, QuietStep DEF Inside

(* A call that throws gives its lock back.                                 *)
LEMMA ThrowsKept ==
  ASSUME WikiBase, WikiIInv, NEW p \in Callers,
         Now(caller[p]) \in {"page", "remove", "index", "log", "env"},
         NEW d, d = Throws(caller[p])
                \/ (Now(caller[p]) # "index" /\ d = Then(caller[p], <<"unlock">>)),
         Continue(p, d), UNCHANGED <<legacy, wiki, env, wlock, memory>>,
         bounds' \in WikiBounds, bounds'.hand = bounds.hand,
         stale' = (stale \/ Now(caller[p]) = "index") \/ (UNCHANGED stale /\ Now(caller[p]) # "index")
  PROVE  WikiIInv'
<1>1. wlock = p /\ caller[p] \in WellFormed /\ wlock # Free
  BY WikiSame DEF Inside, WikiBase
<1>2. d \in WellFormed /\ Now(d) = "unlock" /\ (d = NoCall \/ SameCall(caller[p], d))
  BY <1>1, ThrowsShape, ThenShape, UnlockChain
<1>3. ViewOf(d)
  BY <1>2, NoCallShape DEF ViewOf, SameCall, WikiIInv, ViewsSeen
<1>4. stale' \in BOOLEAN /\ (stale => stale') /\ (Now(caller[p]) = "index" => stale')
  <2>1. stale \in BOOLEAN
    BY WikiSame
  <2>2. CASE stale' = (stale \/ Now(caller[p]) = "index")
    BY <2>1, <2>2, Zenon
  <2>3. CASE UNCHANGED stale /\ Now(caller[p]) # "index"
    BY <2>1, <2>3, Zenon
  <2> QED BY <2>2, <2>3
<1> QED BY <1>1, <1>2, <1>3, <1>4, CopyElsewhere, WikiSame, QuietStep DEF Inside

LEMMA WriteFailsKept ==
  ASSUME WikiBase, WikiIInv, NEW p \in Callers, WriteFails(p)
  PROVE  WikiIInv'
<1>1. PICK step \in {"page", "remove", "index", "log", "env"} :
        At(p, step) /\ stale' = (stale \/ step = "index")
  BY DEF WriteFails
<1>2. Now(caller[p]) = step
  BY <1>1, AtNow DEF WikiIInv, CallSteps
<1>3. bounds' \in WikiBounds /\ bounds'.hand = bounds.hand
  BY WikiSame DEF WriteFails, Troubled, WikiBounds
<1> QED BY <1>1, <1>2, <1>3, ThrowsKept DEF WriteFails

LEMMA CrashKept ==
  ASSUME WikiBase, WikiIInv, NEW p \in Callers, Crash(p)
  PROVE  WikiIInv'
<1>1. bounds' \in WikiBounds /\ bounds'.hand = bounds.hand
  BY WikiSame DEF Crash, Troubled, WikiBounds
<1>2. Now(NoCall) = "none" /\ NoCall \in WellFormed /\ ViewOf(NoCall)
  BY NoCallShape DEF ViewOf
<1>3. Continue(p, NoCall) /\ UNCHANGED <<legacy, wiki, env, memory, stale>>
      /\ wlock' = (IF wlock = p THEN Orphan ELSE wlock)
  BY DEF Crash
<1>4. /\ wlock' \in Callers \cup {Free, Orphan} /\ (wlock = Orphan => wlock' = Orphan)
      /\ wlock' # p /\ \A q \in Callers \ {p} : wlock' = q <=> wlock = q
  BY <1>3, WikiSame DEF WikiBase
<1>5. Now(caller[p]) = "index" => wlock' = Orphan
  BY <1>3, WikiSame DEF Inside
<1> QED BY <1>1, <1>2, <1>3, <1>4, <1>5, CopyElsewhere, WikiSame, QuietStep DEF Inside

(***************************************************************************)
(* The steps that change pages, index and environment.                     *)
(***************************************************************************)
LEMMA MergedShape ==
  ASSUME MaxCalls \in Nat, NEW old \in Pages, NEW n \in 0..MaxCalls
  PROVE  /\ MergedPage(old, n) \in Pages /\ MergedPage(old, n).state = "page"
         /\ \A page \in Pages : Covers(page, old) =>
              /\ page.items \ {0} \subseteq MergedPage(old, n).items
              /\ page.rank <= MergedPage(old, n).rank
<1> DEFINE r == RankOf(n)
           m == IF r >= old.rank THEN r ELSE old.rank
<1>1. r \in {1, 2}
  BY DEF RankOf
<1> HIDE DEF r
<1>2. old.items \in SUBSET (0..MaxCalls) /\ old.rank \in 0..2
  BY DEF Pages
<1>3. m \in 0..2 /\ m >= old.rank /\ m >= 1
  BY <1>1, <1>2
<1>4. MergedPage(old, n) = [state |-> "page", items |-> old.items \cup {n}, rank |-> m]
  BY DEF MergedPage, r
<1> HIDE DEF m
<1>5. MergedPage(old, n) \in Pages
  BY <1>2, <1>3, <1>4 DEF Pages
<1>6. \A page \in Pages : page.rank \in 0..2
  BY DEF Pages
<1> QED BY <1>2, <1>3, <1>4, <1>5, <1>6 DEF Covers

LEMMA PageWritten ==
  ASSUME WikiBase, WikiIInv, NEW p \in Callers, WritePage(p), caller[p].file # Reserved
  PROVE  /\ Now(caller[p]) = "page" /\ wlock = p /\ caller[p].file \in Files
         /\ caller[p] \in WellFormed
         /\ wiki' = [wiki EXCEPT !.page[caller[p].file] = MergedPage(caller[p].seen, caller[p].n)]
         /\ wiki' \in WikiRecords /\ wiki'.there = wiki.there /\ wiki'.index = wiki.index
         /\ \A f \in Files : wiki'.page[f] =
              IF f = caller[p].file THEN MergedPage(caller[p].seen, caller[p].n) ELSE wiki.page[f]
<1>1. Now(caller[p]) = "page" /\ caller[p] \in WellFormed
  BY AtNow DEF WritePage, WikiIInv, CallSteps
<1>2. wlock = p /\ caller[p].file \in Files /\ caller[p].seen \in Pages /\ caller[p].n \in 0..MaxCalls
  BY <1>1, WikiSame DEF Inside, WellFormed, CallRecords
<1>3. wiki' = [wiki EXCEPT !.page[caller[p].file] = MergedPage(caller[p].seen, caller[p].n)]
  BY DEF WritePage
<1>4. MergedPage(caller[p].seen, caller[p].n) \in Pages
  BY <1>2, MergedShape DEF WikiBase
<1> QED BY <1>1, <1>2, <1>3, <1>4, WikiSame DEF WikiRecords

LEMMA WritePageKept ==
  ASSUME WikiBase, WikiIInv, NEW p \in Callers, WritePage(p)
  PROVE  WikiIInv'
<1>0. Now(caller[p]) = "page" /\ caller[p] \in WellFormed /\ wlock = p
      /\ UNCHANGED <<legacy, env, wlock, memory, bounds, stale>>
  BY AtNow, WikiSame DEF WritePage, WikiIInv, CallSteps, Inside
<1>1. CASE caller[p].file = Reserved
  <2>1. Continue(p, Throws(caller[p])) /\ UNCHANGED wiki
    BY <1>1 DEF WritePage
  <2> QED BY <1>0, <2>1, ThrowsKept, WikiSame
<1>2. CASE caller[p].file # Reserved
  <2> DEFINE d == Advance(caller[p])
             new == MergedPage(caller[p].seen, caller[p].n)
  <2>1. d \in WellFormed /\ Now(d) = "index" /\ ViewOf(d)
    BY <1>0, AdvanceShape, AdvanceViews DEF MayFollow, SameCall
  <2>2. Continue(p, d)
    BY <1>2 DEF WritePage, Goes
  <2> HIDE DEF d
  <2>3. caller' \in [Callers -> WellFormed] /\ caller'[p] = d
        /\ \A q \in Callers \ {p} : caller'[q] = caller[q]
    BY <2>1, <2>2 DEF Continue, WikiIInv, WikiShape
  <2>4. new.state = "page"
    BY <1>0, MergedShape DEF WikiBase, WellFormed, CallRecords
  <2> HIDE DEF new
  <2>5. wiki' \in WikiRecords /\ wiki'.there = wiki.there
        /\ \A f \in Files : wiki'.page[f] = IF f = caller[p].file THEN new ELSE wiki.page[f]
    BY <1>2, PageWritten DEF new
  <2>6. WikiShape'
    BY <1>0, <2>3, <2>5 DEF WikiIInv, WikiShape
  <2>7. HolderInside'
    BY <1>0, <2>1, <2>3 DEF WikiIInv, HolderInside, Now, Inside
  <2>8. CopiesCover'
    <3>1. \A q \in Callers \ {p} : Now(caller'[q]) # "page"
      BY <1>0, <2>3, WikiSame DEF Inside
    <3>2. \A q \in Callers : Now(caller'[q]) # "page"
      BY <3>1, <2>1, <2>3
    <3> QED BY <3>2 DEF CopiesCover, CopyOf, Now
  <2>9. TextsBare'
    BY <2>4, <2>5 DEF WikiIInv, TextsBare, Covers
  <2>10. IndexComes'
    <3>1. Now(caller'[p]) = "index"
      BY <2>1, <2>3
    <3> QED BY <3>1 DEF IndexComes, Now
  <2>11. EnvironmentTrue' /\ ViewsSeen'
    <3>1. Fallback' = Fallback
      BY <1>0, <2>5 DEF Fallback
    <3>2. \A q \in Callers : ViewOf(caller'[q])
      BY <2>1, <2>3 DEF WikiIInv, ViewsSeen
    <3>3. \A q \in Callers : (ViewOf(caller[q]))'
      BY <3>1, <3>2 DEF ViewOf, Now
    <3> QED BY <1>0, <3>3 DEF WikiIInv, EnvironmentTrue, ViewsSeen
  <2> QED BY <2>6, <2>7, <2>8, <2>9, <2>10, <2>11 DEF WikiIInv
<1> QED BY <1>1, <1>2

LEMMA RemovePageKept ==
  ASSUME WikiBase, WikiIInv, NEW p \in Callers, RemovePage(p)
  PROVE  WikiIInv'
<1>0. Now(caller[p]) = "remove" /\ caller[p] \in WellFormed /\ wlock = p
      /\ UNCHANGED <<legacy, env, wlock, memory, bounds, stale>>
  BY AtNow, WikiSame DEF RemovePage, WikiIInv, CallSteps, Inside
<1>1. CASE caller[p].file \notin Listed
  <2>1. Continue(p, Then(caller[p], <<"unlock">>)) /\ UNCHANGED wiki
    BY <1>1 DEF RemovePage
  <2> QED BY <1>0, <2>1, ThrowsKept, WikiSame
<1>2. CASE caller[p].file \in Listed
  <2> DEFINE d == Advance(caller[p])
  <2>1. d \in WellFormed /\ Now(d) = "index" /\ ViewOf(d)
    BY <1>0, AdvanceShape, AdvanceViews DEF MayFollow, SameCall
  <2>2. Continue(p, d)
    BY <1>2 DEF RemovePage, Goes
  <2> HIDE DEF d
  <2>3. caller' \in [Callers -> WellFormed] /\ caller'[p] = d
        /\ \A q \in Callers \ {p} : caller'[q] = caller[q]
    BY <2>1, <2>2 DEF Continue, WikiIInv, WikiShape
  <2>5. wiki' \in WikiRecords /\ wiki'.there = wiki.there
        /\ \A f \in Files : wiki'.page[f] = IF f = caller[p].file THEN NoPage ELSE wiki.page[f]
    <3>1. wiki' = [wiki EXCEPT !.page[caller[p].file] = NoPage] /\ caller[p].file \in Files
      BY <1>2 DEF RemovePage, Listed
    <3> QED BY <3>1, AbsentPage, WikiSame DEF WikiRecords
  <2>6. WikiShape'
    BY <1>0, <2>3, <2>5 DEF WikiIInv, WikiShape
  <2>7. HolderInside'
    BY <1>0, <2>1, <2>3 DEF WikiIInv, HolderInside, Now, Inside
  <2>8. CopiesCover'
    <3>1. \A q \in Callers \ {p} : Now(caller'[q]) # "page"
      BY <1>0, <2>3, WikiSame DEF Inside
    <3>2. \A q \in Callers : Now(caller'[q]) # "page"
      BY <3>1, <2>1, <2>3
    <3> QED BY <3>2 DEF CopiesCover, CopyOf, Now
  <2>9. TextsBare'
    BY <2>5, AbsentPage DEF WikiIInv, TextsBare, Covers
  <2>10. IndexComes'
    <3>1. Now(caller'[p]) = "index"
      BY <2>1, <2>3
    <3> QED BY <3>1 DEF IndexComes, Now
  <2>11. EnvironmentTrue' /\ ViewsSeen'
    <3>1. Fallback' = Fallback
      BY <1>0, <2>5 DEF Fallback
    <3>2. \A q \in Callers : ViewOf(caller'[q])
      BY <2>1, <2>3 DEF WikiIInv, ViewsSeen
    <3>3. \A q \in Callers : (ViewOf(caller[q]))'
      BY <3>1, <3>2 DEF ViewOf, Now
    <3> QED BY <1>0, <3>3 DEF WikiIInv, EnvironmentTrue, ViewsSeen
  <2> QED BY <2>6, <2>7, <2>8, <2>9, <2>10, <2>11 DEF WikiIInv
<1> QED BY <1>1, <1>2

LEMMA WriteIndexKept ==
  ASSUME WikiBase, WikiIInv, NEW p \in Callers, WriteIndex(p)
  PROVE  WikiIInv'
<1> DEFINE d == Advance(caller[p])
<1>0. Now(caller[p]) = "index" /\ caller[p] \in WellFormed /\ wlock = p
      /\ UNCHANGED <<legacy, env, wlock, memory, bounds>>
  BY AtNow, WikiSame DEF WriteIndex, WikiIInv, CallSteps, Inside
<1>1. d \in WellFormed /\ Now(d) \in {"log", "unlock"} /\ ViewOf(d) /\ Continue(p, d)
  BY <1>0, AdvanceShape, AdvanceViews DEF MayFollow, SameCall, WriteIndex, Goes
<1> HIDE DEF d
<1>2. caller' \in [Callers -> WellFormed] /\ caller'[p] = d
      /\ \A q \in Callers \ {p} : caller'[q] = caller[q]
  BY <1>1 DEF Continue, WikiIInv, WikiShape
<1>3. wiki' \in WikiRecords /\ wiki'.there = wiki.there /\ wiki'.page = wiki.page
      /\ wiki'.index = Parsed
  BY WikiSame DEF WriteIndex, WikiRecords, Parsed
<1>4. WikiShape'
  BY <1>0, <1>2, <1>3 DEF WikiIInv, WikiShape, WriteIndex
<1>5. HolderInside'
  BY <1>0, <1>1, <1>2 DEF WikiIInv, HolderInside, Now, Inside
<1>6. CopiesCover' /\ TextsBare'
  <2>1. \A q \in Callers : CopyOf(caller'[q])
    BY <1>1, <1>2 DEF WikiIInv, CopiesCover, CopyOf
  <2>2. \A q \in Callers : CopyOf(caller'[q]) => CopyOf(caller[q])'
    BY <1>3 DEF CopyOf, Now, Covers
  <2> QED BY <1>3, <2>1, <2>2 DEF CopiesCover, WikiIInv, TextsBare, Covers
<1>7. IndexComes'
  BY <1>3 DEF IndexComes, IndexShows, Parsed
<1>8. EnvironmentTrue' /\ ViewsSeen'
  <2>1. Fallback' = Fallback
    BY <1>0, <1>3 DEF Fallback
  <2>2. \A q \in Callers : ViewOf(caller'[q])
    BY <1>1, <1>2 DEF WikiIInv, ViewsSeen
  <2>3. \A q \in Callers : (ViewOf(caller[q]))'
    BY <2>1, <2>2 DEF ViewOf, Now
  <2> QED BY <1>0, <2>3 DEF WikiIInv, EnvironmentTrue, ViewsSeen
<1> QED BY <1>4, <1>5, <1>6, <1>7, <1>8 DEF WikiIInv

LEMMA WriteEnvironmentKept ==
  ASSUME WikiBase, WikiIInv, NEW p \in Callers, WriteEnvironment(p)
  PROVE  WikiIInv'
<1> DEFINE d == Advance(caller[p])
<1>0. Now(caller[p]) = "env" /\ caller[p] \in WellFormed /\ wlock = p
      /\ UNCHANGED <<legacy, wiki, wlock, memory, bounds, stale>>
      /\ env' = [there |-> TRUE, of |-> caller[p].memory, fresh |-> caller[p].stamp = memory,
                 blurred |-> caller[p].memory # caller[p].stamp]
  BY AtNow, WikiSame DEF WriteEnvironment, WikiIInv, CallSteps, Inside
<1>1. d \in WellFormed /\ Now(d) = "index" /\ ViewOf(d) /\ Continue(p, d)
  BY <1>0, AdvanceShape, AdvanceViews DEF MayFollow, SameCall, WriteEnvironment, Goes
<1> HIDE DEF d
<1>2. caller' \in [Callers -> WellFormed] /\ caller'[p] = d
      /\ \A q \in Callers \ {p} : caller'[q] = caller[q]
  BY <1>1 DEF Continue, WikiIInv, WikiShape
<1>3. WikiShape'
  <2>1. caller[p].memory \in 0..MaxHand
    BY <1>0 DEF WellFormed, CallRecords
  <2>2. env' \in Environments
    BY <1>0, <2>1 DEF Environments
  <2> QED BY <1>0, <1>2, <2>2 DEF WikiIInv, WikiShape
<1>5. HolderInside'
  BY <1>0, <1>1, <1>2 DEF WikiIInv, HolderInside, Now, Inside
<1>6. CopiesCover' /\ TextsBare'
  <2>1. \A q \in Callers : CopyOf(caller'[q])
    BY <1>1, <1>2 DEF WikiIInv, CopiesCover, CopyOf
  <2>2. \A q \in Callers : CopyOf(caller'[q]) => CopyOf(caller[q])'
    BY <1>0 DEF CopyOf, Now, Covers
  <2> QED BY <1>0, <2>1, <2>2 DEF CopiesCover, WikiIInv, TextsBare, Covers
<1>7. IndexComes'
  <2>1. Now(caller'[p]) = "index"
    BY <1>1, <1>2
  <2> QED BY <2>1 DEF IndexComes, Now
<1>8. EnvironmentTrue'
  BY <1>0 DEF EnvironmentTrue
<1>9. ViewsSeen'
  <2>1. Fallback' = Fallback
    BY <1>0 DEF Fallback
  <2>2. \A q \in Callers : ViewOf(caller'[q])
    BY <1>1, <1>2 DEF WikiIInv, ViewsSeen
  <2>3. \A q \in Callers : (ViewOf(caller[q]))'
    BY <2>1, <2>2 DEF ViewOf, Now
  <2> QED BY <2>3 DEF ViewsSeen
<1> QED BY <1>3, <1>5, <1>6, <1>7, <1>8, <1>9 DEF WikiIInv

LEMMA WriteByHandKept ==
  ASSUME WikiBase, WikiIInv, NEW f \in Files, NEW state \in {"text", "page"}, WriteByHand(f, state)
  PROVE  WikiIInv'
<1> DEFINE new == [state |-> state, items |-> {0}, rank |-> 0]
<1>0. wiki.there /\ f \notin Listed /\ bounds.hand < MaxHand
      /\ bounds' = [bounds EXCEPT !.hand = @ + 1]
      /\ wiki' = [wiki EXCEPT !.page[f] = new] /\ stale' = (stale \/ state = "page")
      /\ UNCHANGED <<legacy, env, wlock, memory, caller>>
  BY DEF WriteByHand, ByHand
<1>1. new \in Pages /\ new.items = {0} /\ new.rank = 0 /\ new.state = state
  BY DEF Pages, WikiBase
<1> HIDE DEF new
<1>2. wiki' \in WikiRecords /\ wiki'.there = wiki.there /\ wiki'.index = wiki.index
      /\ \A g \in Files : wiki'.page[g] = IF g = f THEN new ELSE wiki.page[g]
  BY <1>0, <1>1, WikiSame DEF WikiRecords
<1>3. bounds' \in WikiBounds /\ memory \in 0..bounds'.hand
  <2>1. bounds \in WikiBounds /\ bounds.hand \in 0..MaxHand /\ memory \in 0..bounds.hand
    BY DEF WikiIInv, WikiShape, WikiBounds
  <2>2. bounds'.hand = bounds.hand + 1 /\ bounds' \in WikiBounds
    BY <1>0, <2>1 DEF WikiBounds, WikiBase
  <2> QED BY <2>1, <2>2
<1>4. WikiShape'
  BY <1>0, <1>2, <1>3 DEF WikiIInv, WikiShape
<1>5. HolderInside'
  BY <1>0 DEF WikiIInv, HolderInside, Now
<1>6. TextsBare' /\ CopiesCover'
  <2>1. \A copy : Covers(new, copy)
    BY <1>1 DEF Covers
  <2>2. TextsBare'
    BY <1>2, <2>1 DEF WikiIInv, TextsBare, Covers
  <2>3. \A q \in Callers : (CopyOf(caller[q]))'
    BY <1>0, <1>2, <2>1 DEF WikiIInv, CopiesCover, CopyOf, Covers, Now
  <2> QED BY <2>2, <2>3 DEF CopiesCover
<1>7. IndexComes'
  <2>1. CASE state = "page"
    BY <1>0, <2>1 DEF IndexComes
  <2>2. CASE state # "page"
    <3>1. wiki.page[f].state # "page"
      BY <1>0 DEF Listed
    <3>2. Parsed' = Parsed
      BY <1>1, <1>2, <2>2, <3>1 DEF Parsed
    <3>3. IndexShows' = IndexShows
      BY <1>2, <3>2 DEF IndexShows
    <3> QED BY <1>0, <2>2, <3>3 DEF WikiIInv, IndexComes, Now
  <2> QED BY <2>1, <2>2
<1>8. EnvironmentTrue' /\ ViewsSeen'
  <2>1. Fallback' = Fallback
    BY <1>0, <1>2 DEF Fallback
  <2> QED BY <1>0, <2>1 DEF WikiIInv, EnvironmentTrue, ViewsSeen, ViewOf, Now
<1> QED BY <1>4, <1>5, <1>6, <1>7, <1>8 DEF WikiIInv

LEMMA WriteMemoryKept ==
  ASSUME WikiBase, WikiIInv, WriteMemory
  PROVE  WikiIInv'
<1>0. bounds.hand < MaxHand /\ bounds' = [bounds EXCEPT !.hand = @ + 1] /\ memory' = memory + 1
      /\ env' = [env EXCEPT !.fresh = FALSE]
      /\ UNCHANGED <<legacy, wiki, wlock, caller, stale>>
  BY DEF WriteMemory, ByHand
<1>1. bounds' \in WikiBounds /\ memory' \in 0..bounds'.hand
  <2>1. bounds \in WikiBounds /\ bounds.hand \in 0..MaxHand /\ memory \in 0..bounds.hand
    BY DEF WikiIInv, WikiShape, WikiBounds
  <2>2. bounds'.hand = bounds.hand + 1 /\ bounds' \in WikiBounds
    BY <1>0, <2>1 DEF WikiBounds, WikiBase
  <2> QED BY <1>0, <2>1, <2>2
<1>2. env' \in Environments /\ ~env'.fresh
  BY <1>0 DEF WikiIInv, WikiShape, Environments
<1>3. WikiShape'
  BY <1>0, <1>1, <1>2 DEF WikiIInv, WikiShape
<1>4. EnvironmentTrue'
  BY <1>2 DEF EnvironmentTrue
<1>5. HolderInside' /\ CopiesCover' /\ TextsBare' /\ IndexComes' /\ ViewsSeen'
  BY <1>0 DEF WikiIInv, HolderInside, CopiesCover, CopyOf, TextsBare, Covers, IndexComes, IndexShows,
              Parsed, ViewsSeen, ViewOf, Fallback, Now
<1> QED BY <1>3, <1>4, <1>5 DEF WikiIInv

LEMMA WikiStepKept ==
  ASSUME WikiBase, WikiIInv, [WikiNext]_wikiVars
  PROVE  WikiIInv'
<1>1. CASE UNCHANGED wikiVars
  BY <1>1 DEF wikiVars, WikiIInv, WikiShape, HolderInside, CopiesCover, CopyOf, TextsBare, Covers,
              IndexComes, IndexShows, Parsed, EnvironmentTrue, ViewsSeen, ViewOf, Fallback, Now
<1>2. ASSUME NEW p \in Callers, CallStep(p) PROVE WikiIInv'
  BY <1>2, LookFirstKept, AskFallbackKept, LockKept, GiveLockKept, ReadPageKept, WritePageKept,
     RemovePageKept, WriteIndexKept, WriteLogKept, StartSessionKept, FeedMemoryKept, TakeTimeKept,
     WriteEnvironmentKept DEF CallStep
<1> QED BY <1>1, <1>2, BeginCallKept, WriteFailsKept, CrashKept, WriteByHandKept, WriteMemoryKept
        DEF WikiNext

LEMMA WikiInitKept ==
  ASSUME WikiBase, WikiInit
  PROVE  WikiIInv
<1>1. wiki \in WikiRecords /\ wiki.there = FALSE /\ wiki.index = NoIndex
      /\ \A f \in Files : wiki.page[f] = NoPage
  BY AbsentPage DEF WikiInit, WikiRecords
<1>2. WikiShape
  <2>1. bounds \in WikiBounds /\ memory \in 0..bounds.hand /\ env \in Environments
    BY DEF WikiInit, WikiBounds, Environments, WikiBase
  <2>2. caller \in [Callers -> WellFormed]
    BY NoCallShape DEF WikiInit
  <2> QED BY <1>1, <2>1, <2>2 DEF WikiInit, WikiShape
<1>3. \A p \in Callers : Now(caller[p]) = "none"
  BY NoCallShape DEF WikiInit
<1>4. HolderInside /\ CopiesCover
  BY <1>3 DEF WikiInit, WikiBase, HolderInside, CopiesCover, CopyOf, Inside
<1>5. TextsBare
  BY <1>1, AbsentPage DEF TextsBare, Covers
<1>6. IndexComes
  BY <1>1 DEF IndexComes, IndexShows, Parsed, NoPage
<1>7. EnvironmentTrue /\ ViewsSeen
  BY <1>3, NoCallShape DEF WikiInit, EnvironmentTrue, ViewsSeen, ViewOf
<1> QED BY <1>2, <1>4, <1>5, <1>6, <1>7 DEF WikiIInv

LEMMA KnowledgeStep ==
  ASSUME WikiBase, WikiIInv, [WikiNext]_wikiVars, NEW f \in Files
  PROVE  \/ /\ wiki.page[f].items \ {0} \subseteq wiki'.page[f].items
            /\ wiki.page[f].rank <= wiki'.page[f].rank
         \/ \E p \in Callers : wlock = p /\ At(p, "remove") /\ caller[p].file = f
<1>0. wiki.page[f] \in Pages /\ wiki.page[f].rank \in 0..2 /\ wiki.page \in [Files -> Pages]
  BY WikiSame DEF WikiRecords, Pages
<1>1. CASE wiki'.page[f] = wiki.page[f]
  BY <1>0, <1>1
<1>2. CASE \E p \in Callers : WritePage(p) /\ wiki'.page[f] # wiki.page[f]
  <2>1. PICK p \in Callers : WritePage(p) /\ wiki'.page[f] # wiki.page[f]
    BY <1>2
  <2>2. caller[p].file # Reserved
    BY <2>1 DEF WritePage
  <2>3. Now(caller[p]) = "page" /\ caller[p].file = f /\ caller[p] \in WellFormed
        /\ wiki'.page[f] = MergedPage(caller[p].seen, caller[p].n)
    BY <2>1, <2>2, PageWritten
  <2>4. Covers(wiki.page[f], caller[p].seen)
    BY <2>3 DEF WikiIInv, CopiesCover, CopyOf
  <2> QED BY <1>0, <2>3, <2>4, MergedShape DEF WikiBase, WellFormed, CallRecords
<1>3. CASE \E p \in Callers : RemovePage(p) /\ wiki'.page[f] # wiki.page[f]
  <2>1. PICK p \in Callers : RemovePage(p) /\ wiki'.page[f] # wiki.page[f]
    BY <1>3
  <2>2. At(p, "remove") /\ caller[p].file = f
    BY <1>0, <2>1, WikiSame DEF RemovePage, WikiRecords, Listed
  <2>3. wlock = p
    BY <2>2, AtNow, WikiSame DEF WikiIInv, CallSteps, Inside
  <2> QED BY <2>2, <2>3
<1>4. CASE \E g \in Files, state \in {"text", "page"} :
             WriteByHand(g, state) /\ wiki'.page[f] # wiki.page[f]
  <2>1. PICK g \in Files, state \in {"text", "page"} :
          WriteByHand(g, state) /\ wiki'.page[f] # wiki.page[f]
    BY <1>4
  <2>2. g = f /\ f \notin Listed /\ wiki'.page[f].items = {0} /\ wiki'.page[f].rank = 0
    BY <1>0, <2>1, WikiSame DEF WriteByHand, WikiRecords
  <2>3. Covers(wiki.page[f], NoPage)
    BY <2>2 DEF Listed, WikiIInv, TextsBare
  <2> QED BY <1>0, <2>2, <2>3, AbsentPage DEF Covers
<1>5. CASE ~(\E p \in Callers : WritePage(p) \/ RemovePage(p))
           /\ ~(\E g \in Files, state \in {"text", "page"} : WriteByHand(g, state))
  <2>1. wiki'.page = wiki.page
    BY <1>5, WikiSame DEF WikiNext, wikiVars, BeginCall, CallStep, LookFirst, AskFallback, TakeLock,
       LockTimesOut, GiveLock, ReadPage, WriteIndex, WriteLog, StartSession, FeedMemory, TakeTime,
       WriteEnvironment, WriteFails, Crash, WriteMemory, WikiRecords
  <2> QED BY <2>1, <1>1
<1> QED BY <1>1, <1>2, <1>3, <1>4, <1>5

LEMMA LegacyStep ==
  ASSUME WikiBase, WikiIInv, [WikiNext]_wikiVars, Fallback, wiki'.there
  PROVE  \E p \in Callers : At(p, "lock") /\ caller[p].op \in {"ingest", "add"}
<1>1. CASE \E p \in Callers : TakeLock(p)
  <2>1. PICK p \in Callers : TakeLock(p)
    BY <1>1
  <2>2. At(p, "lock") /\ Now(caller[p]) = "lock"
    BY <2>1, AtNow DEF TakeLock, WikiIInv, CallSteps
  <2>3. caller[p].op \in {"ingest", "add"}
    BY <2>2 DEF WikiIInv, ViewsSeen, ViewOf
  <2> QED BY <2>2, <2>3
<1>2. CASE ~\E p \in Callers : TakeLock(p)
  <2>1. wiki'.there = wiki.there
    BY <1>2, WikiSame DEF WikiNext, wikiVars, BeginCall, CallStep, LookFirst, AskFallback, WritePage,
       LockTimesOut, GiveLock, ReadPage, RemovePage, WriteIndex, WriteLog, StartSession, FeedMemory,
       TakeTime, WriteEnvironment, WriteFails, Crash, WriteByHand, WriteMemory, WikiRecords
  <2> QED BY <2>1 DEF Fallback
<1> QED BY <1>1, <1>2

LEMMA PagesKept ==
  ASSUME WikiBase
  PROVE  WikiInit /\ [][WikiNext]_wikiVars => [](WikiTypeOK /\ IndexTrue /\ EnvironmentTrue)
<1>1. WikiIInv => WikiTypeOK /\ IndexTrue /\ EnvironmentTrue
  <2> SUFFICES ASSUME WikiIInv PROVE WikiTypeOK /\ IndexTrue /\ EnvironmentTrue
    OBVIOUS
  <2>1. WikiTypeOK
    <3>1. memory \in 0..MaxHand
      BY DEF WikiIInv, WikiShape, WikiBounds, WikiBase
    <3>2. \A p \in Callers : caller[p].op \in WikiOps \cup {"none"} /\ caller[p].n \in 0..MaxCalls
      BY DEF WikiIInv, WikiShape, WellFormed, CallRecords
    <3> QED BY <3>1, <3>2 DEF WikiIInv, WikiShape, WikiTypeOK, WikiRecords, Pages, Environments
  <2>2. IndexTrue
    <3>1. wlock = Free => \A p \in Callers : Now(caller[p]) # "index"
      BY WikiSame DEF Inside, WikiBase
    <3> QED BY <3>1 DEF WikiBase, WikiIInv, IndexComes, IndexShows, IndexTrue
  <2> QED BY <2>1, <2>2 DEF WikiIInv
<1>2. WikiInit => WikiIInv
  BY WikiInitKept
<1>3. WikiIInv /\ [WikiNext]_wikiVars => WikiIInv'
  BY WikiStepKept
<1> QED BY <1>1, <1>2, <1>3, PTL

LEMMA KnowledgeOnly ==
  ASSUME WikiBase
  PROVE  WikiInit /\ [][WikiNext]_wikiVars => WikiKept
<1>1. WikiInit => WikiIInv
  BY WikiInitKept
<1>2. WikiIInv /\ [WikiNext]_wikiVars => WikiIInv'
  BY WikiStepKept
<1>3. WikiIInv /\ [WikiNext]_wikiVars =>
        [\A f \in Files :
           \/ /\ wiki.page[f].items \ {0} \subseteq wiki'.page[f].items
              /\ wiki.page[f].rank <= wiki'.page[f].rank
           \/ \E p \in Callers : wlock = p /\ At(p, "remove") /\ caller[p].file = f]_wikiVars
  BY KnowledgeStep
<1>4. WikiIInv /\ [WikiNext]_wikiVars =>
        [Fallback /\ wiki'.there
           => \E p \in Callers : At(p, "lock") /\ caller[p].op \in {"ingest", "add"}]_wikiVars
  BY LegacyStep
<1>5. WikiInit /\ [][WikiNext]_wikiVars => [](WikiTypeOK /\ IndexTrue /\ EnvironmentTrue)
  BY PagesKept
<1>6. WikiInit /\ [][WikiNext]_wikiVars => KnowledgeKept
  BY <1>1, <1>2, <1>3, PTL DEF KnowledgeKept
<1>7. WikiInit /\ [][WikiNext]_wikiVars => LegacyShown
  BY <1>1, <1>2, <1>4, PTL DEF LegacyShown
<1> QED BY <1>5, <1>6, <1>7, PTL DEF WikiKept

(* The index is true and the environment page shows the memory, whatever   *)
(* processes, calls and hands write at the same time.                      *)
THEOREM PagesSound ==
  ASSUME WikiBase
  PROVE  WikiSpec => [](WikiTypeOK /\ IndexTrue /\ EnvironmentTrue)
BY PagesKept, PTL DEF WikiSpec

(* What the wiki tools brought to a page stays in it, and the legacy wiki  *)
(* is in view until something is written in the place of it.               *)
THEOREM KnowledgeStays ==
  ASSUME WikiBase
  PROVE  WikiSpec => WikiKept
BY KnowledgeOnly, PTL DEF WikiSpec
-----------------------------------------------------------------------------
(***************************************************************************)
(* Setup and uninstall                                                     *)
(***************************************************************************)
InstallBase == MaxRuns \in Nat /\ MaxEdits \in Nat

Homes ==
  [notify : {"none", "mine", "old", "owx", "dispatcher"},
   previous : {"none", "mine", "old"},
   instructions : {"none", "mine", "owx", "plugin"},
   flags : SUBSET {"hooks", "plugin_hooks"},
   hooks : SUBSET {"mine", "owx"},
   guidance : {"none", "mine", "owx", "edited", "mixed"},
   files : [Kinds -> {"none", "mine", "owx"}]]

(* The backups of config.toml in this command hold no text that the file   *)
(* does not hold, as long as the command may write it again.               *)
ConfigCopies ==
  /\ pc \in {"files", "config"} => fresh \cap {"notify", "instructions"} = {}
  /\ pc \in {"flags", "hooks", "instructions"} /\ opt.mode # "legacy" =>
       fresh \cap {"notify", "instructions"} \subseteq Held(home)

(* A notify command that the user gave up is nowhere newer than the one    *)
(* the user has, and the dispatcher is for user scope.                     *)
NotifyOrder ==
  /\ home.notify = "old" => home.previous # "mine"
  /\ pc = "metadata" => /\ home.notify = "dispatcher" /\ opt.previous \in {"mine", "old"}
                        /\ opt.previous = "old" => home.previous # "mine"
  /\ scope = "project" => home.notify \notin {"owx", "dispatcher"}

(* The notify command runs, with what the dispatcher is about to be told.  *)
NotifyRuns ==
  ~gap =>
    IF "notify" \in owned
    THEN \/ home.notify = "mine"
         \/ home.notify = "dispatcher"
            /\ "mine" = IF pc = "metadata" THEN opt.previous ELSE home.previous
    ELSE home.notify \in {"none", "owx"}

(* Where a command stands, the hooks are switched on or will be.           *)
HooksOn == "hooks" \in home.flags
HooksReady ==
  /\ pc \in {"metadata", "flags", "instructions"} => (pc = "metadata" <=> opt.mode = "legacy")
  /\ pc = "metadata" => HooksOn
  /\ pc = "hooks" /\ opt.mode # "plugin" => HooksOn
  /\ pc \in {"instructions", "guidance", "hud", "u_files", "u_guidance"} /\ "owx" \in home.hooks => HooksOn
  /\ pc = "idle" /\ ~cut /\ "owx" \in home.hooks => HooksOn

InstallIInv == InstallTypeOK /\ ConfigCopies /\ NotifyOrder /\ NotifyRuns /\ HooksReady

LEMMA TypeShape ==
  InstallTypeOK <=>
    /\ scope \in {"user", "project"} /\ home \in Homes
    /\ saved \subseteq Items /\ fresh \subseteq Items /\ owned \subseteq Items
    /\ pc \in Setup \cup Uninstall \cup {"idle"} /\ opt \in Options
    /\ gap \in BOOLEAN /\ cut \in BOOLEAN
    /\ runs \in 0..MaxRuns /\ edits \in 0..MaxEdits
  BY DEF InstallTypeOK, Homes

(* A step of setup before the last: the type of what it writes is kept.    *)
LEMMA SetupTypes ==
  ASSUME InstallTypeOK, home' \in Homes, fresh' \subseteq Items, pc' \in Setup, opt' \in Options,
         UNCHANGED <<scope, saved, owned, gap, cut, runs, edits>>
  PROVE  InstallTypeOK'
  BY TypeShape, TypeShape DEF InstallTypeOK, Homes

LEMMA WriteFilesKept ==
  ASSUME InstallIInv, pc = "files", WriteFiles, UNCHANGED <<opt, scope, saved, owned, gap, cut, runs, edits>>
  PROVE  InstallIInv' /\ Recoverable \subseteq Recoverable' \cup Forfeit
<1> DEFINE next == [k \in Kinds |-> After(k, home.files[k])]
           copied == {k \in Kinds : home.files[k] = "mine" /\ next[k] # "mine" /\ BackedUp(k)}
<1>1. home' = [home EXCEPT !.files = next] /\ fresh' = (fresh \ copied) \cup copied /\ pc' = "config"
  BY DEF WriteFiles, Backup
<1>2. home \in Homes /\ fresh \subseteq Items /\ opt \in Options
  BY TypeShape DEF InstallIInv
<1>3. next \in [Kinds -> {"none", "mine", "owx"}]
  <2>1. \A k \in Kinds : home.files[k] \in {"none", "mine", "owx"}
    BY <1>2 DEF Homes
  <2>2. \A k \in Kinds, f \in {"none", "mine", "owx"} : After(k, f) \in {"none", "mine", "owx"}
    BY DEF Kinds, After, PromptAfter, ShimAfter, SkillAfter, AgentAfter, Untouched
  <2> HIDE DEF copied
  <2> QED BY <2>1, <2>2
<1>4. /\ copied \subseteq Kinds
      /\ \A k \in Kinds : home.files[k] = "mine" => next[k] = "mine" \/ k \in copied \/ k \in Forfeit
  <2>1. \A k \in Kinds : After(k, "mine") = "mine" \/ BackedUp(k) \/ k \in Forfeit
    BY <1>2 DEF Kinds, After, PromptAfter, ShimAfter, SkillAfter, AgentAfter, Untouched, BackedUp,
                Forfeit, Chosen
  <2> QED BY <2>1
<1> HIDE DEF next, copied
<1>5. /\ home' \in Homes /\ home'.files = next /\ home'.notify = home.notify
      /\ home'.previous = home.previous /\ home'.instructions = home.instructions
      /\ home'.flags = home.flags /\ home'.hooks = home.hooks /\ home'.guidance = home.guidance
  BY <1>1, <1>2, <1>3 DEF Homes
<1>6. fresh' = fresh \cup copied /\ fresh' \subseteq Items
  BY <1>1, <1>2, <1>4 DEF Items
<1>7. InstallTypeOK'
  BY <1>1, <1>2, <1>5, <1>6, SetupTypes DEF InstallIInv, Setup
<1>8. ConfigCopies'
  BY <1>1, <1>4, <1>6 DEF InstallIInv, ConfigCopies, Kinds
<1>9. NotifyOrder' /\ NotifyRuns' /\ HooksReady'
  BY <1>1, <1>5 DEF InstallIInv, NotifyOrder, NotifyRuns, HooksReady, HooksOn
<1>10. Recoverable \subseteq Recoverable' \cup Forfeit
  <2>1. InPlace \subseteq InPlace' \cup copied \cup Forfeit
    BY <1>4, <1>5 DEF InPlace
  <2> QED BY <2>1, <1>6 DEF Recoverable
<1> QED BY <1>7, <1>8, <1>9, <1>10 DEF InstallIInv

(* A write that leaves the texts of the user in their places.              *)
LEMMA PlacesKept ==
  ASSUME home'.notify = home.notify, home'.instructions = home.instructions,
         home'.guidance = home.guidance, home'.files = home.files,
         home.previous = "mine" => home'.previous = "mine",
         "mine" \in home.hooks => "mine" \in home'.hooks,
         UNCHANGED <<saved, fresh>>
  PROVE  Recoverable \subseteq Recoverable'
<1>1. \A i \in {"notify", "instructions"} : home'[i] = home[i]
  OBVIOUS
<1>2. {i \in {"notify", "instructions"} : home[i] = "mine"}
        \subseteq {i \in {"notify", "instructions"} : home'[i] = "mine"}
  BY <1>1
<1>3. InPlace \subseteq InPlace'
  BY <1>2 DEF InPlace
<1> QED BY <1>3 DEF Recoverable

LEMMA BackupConfigKeeps ==
  ASSUME InstallTypeOK, NEW h \in Homes, BackupConfig(h)
  PROVE  /\ fresh' \subseteq Items
         /\ \A i \in {"notify", "instructions"} : home[i] = "mine" /\ h[i] # "mine" => i \in fresh'
         /\ \A i \in fresh : i \in fresh' \/ i \in {"notify", "instructions"}
         /\ fresh' \cap {"notify", "instructions"} \subseteq (fresh \cup Held(home))
         /\ \A i \in fresh : i \in {"notify", "instructions"} /\ i \in Held(home) => i \in fresh'
<1>1. fresh \subseteq Items
  BY DEF InstallTypeOK
<1>2. CASE h = home
  BY <1>1, <1>2 DEF BackupConfig
<1>3. CASE h # home
  <2>1. fresh' = (fresh \ {"notify", "instructions"}) \cup Held(home)
    BY <1>3 DEF BackupConfig, Backup
  <2> QED BY <1>1, <2>1 DEF Held, Items
<1> QED BY <1>2, <1>3

(* A write of config.toml costs no text: it stays or is copied.            *)
LEMMA ConfigWritten ==
  ASSUME InstallIInv, NEW h \in Homes, home' = h, BackupConfig(h), UNCHANGED saved,
         pc = "config" \/ (pc \in {"flags", "hooks", "instructions"} /\ opt.mode # "legacy"),
         h.previous = home.previous, h.hooks = home.hooks, h.guidance = home.guidance,
         h.files = home.files
  PROVE  Recoverable \subseteq Recoverable'
<1>1. \A i \in {"notify", "instructions"} : home[i] = "mine" => h[i] = "mine" \/ i \in fresh'
  BY BackupConfigKeeps DEF InstallIInv
<1>2. \A i \in fresh : i \in fresh' \/ (i \in {"notify", "instructions"} /\ home[i] = "mine")
  BY BackupConfigKeeps DEF InstallIInv, ConfigCopies, Held
<1>3. InPlace \subseteq InPlace' \cup fresh'
  BY <1>1 DEF InPlace
<1>4. fresh \subseteq InPlace' \cup fresh'
  BY <1>1, <1>2 DEF InPlace
<1> QED BY <1>3, <1>4 DEF Recoverable

LEMMA WriteConfigKept ==
  ASSUME InstallIInv, pc = "config", opt.mode = "legacy", WriteConfig,
         UNCHANGED <<scope, saved, owned, gap, cut, runs, edits>>
  PROVE  InstallIInv' /\ Recoverable \subseteq Recoverable'
<1> DEFINE h == MergedConfig
<1>1. home \in Homes /\ opt \in Options /\ scope \in {"user", "project"}
  BY TypeShape DEF InstallIInv
<1>2. NotifyPlan \in {"none", "mine", "old", "owx", "dispatcher"}
      /\ (scope = "project" => NotifyPlan = IF Managed(home.notify) THEN "none" ELSE home.notify)
      /\ (scope = "user" => NotifyPlan =
            IF home.notify \in {"none", "owx"} THEN "owx"
            ELSE IF home.notify = "dispatcher" /\ home.previous = "none" THEN "owx"
            ELSE "dispatcher")
  BY <1>1 DEF NotifyPlan, Managed, Homes
<1>3. /\ h \in Homes /\ h.notify = NotifyPlan /\ h.instructions = "owx" /\ "hooks" \in h.flags
      /\ h.previous = home.previous /\ h.hooks = home.hooks /\ h.guidance = home.guidance
      /\ h.files = home.files
  BY <1>1, <1>2 DEF MergedConfig, Stripped, FlagsOn, Homes
<1>4. home' = h /\ BackupConfig(h)
      /\ IF h.notify = "dispatcher" /\ home.notify # "dispatcher"
         THEN pc' = "metadata" /\ opt' = [opt EXCEPT !.previous = home.notify]
         ELSE pc' = "hooks" /\ UNCHANGED opt
  BY DEF WriteConfig
<1> HIDE DEF h
<1>5. fresh' \subseteq Items
  BY <1>3, <1>4, BackupConfigKeeps DEF InstallIInv
<1>6. CASE h.notify = "dispatcher" /\ home.notify # "dispatcher"
  <2>1. scope = "user" /\ home.notify \in {"mine", "old"}
    BY <1>1, <1>2, <1>3, <1>6 DEF Homes, Managed
  <2>2. pc' = "metadata" /\ opt' \in Options /\ opt'.previous = home.notify /\ opt'.mode = "legacy"
    BY <1>1, <1>4, <1>6, <2>1 DEF Options
  <2>3. InstallTypeOK'
    BY <1>3, <1>4, <1>5, <2>2, SetupTypes DEF InstallIInv, Setup
  <2>4. ConfigCopies' /\ NotifyOrder' /\ HooksReady'
    BY <1>3, <1>4, <1>6, <2>1, <2>2 DEF InstallIInv, ConfigCopies, NotifyOrder, HooksReady, HooksOn
  <2>5. NotifyRuns'
    BY <1>3, <1>4, <1>6, <2>1, <2>2 DEF InstallIInv, NotifyRuns
  <2> QED BY <2>3, <2>4, <2>5, <1>3, <1>4, ConfigWritten DEF InstallIInv
<1>7. CASE ~(h.notify = "dispatcher" /\ home.notify # "dispatcher")
  <2>1. pc' = "hooks" /\ UNCHANGED opt
    BY <1>4, <1>7
  <2>2. InstallTypeOK'
    BY <1>1, <1>3, <1>4, <1>5, <2>1, SetupTypes DEF InstallIInv, Setup
  <2>3. ConfigCopies' /\ HooksReady'
    BY <1>3, <1>4, <2>1 DEF InstallIInv, ConfigCopies, HooksReady, HooksOn
  <2>4. NotifyOrder'
    BY <1>1, <1>2, <1>3, <1>4, <1>7, <2>1 DEF InstallIInv, NotifyOrder, Managed
  <2>5. NotifyRuns'
    BY <1>1, <1>2, <1>3, <1>4, <1>7, <2>1 DEF InstallIInv, NotifyRuns, NotifyOrder, Managed
  <2> QED BY <2>2, <2>3, <2>4, <2>5, <1>3, <1>4, ConfigWritten DEF InstallIInv
<1> QED BY <1>6, <1>7

LEMMA WriteMetadataKept ==
  ASSUME InstallIInv, pc = "metadata", WriteMetadata,
         UNCHANGED <<scope, saved, owned, gap, cut, runs, edits>>
  PROVE  InstallIInv' /\ Recoverable \subseteq Recoverable'
<1>1. home \in Homes /\ opt \in Options /\ fresh \subseteq Items
  BY TypeShape DEF InstallIInv
<1>2. home' = [home EXCEPT !.previous = opt.previous] /\ pc' = "hooks" /\ UNCHANGED <<fresh, opt>>
  BY DEF WriteMetadata
<1>3. opt.previous \in {"none", "mine", "old"}
  BY <1>1 DEF Options
<1>4. /\ home' \in Homes /\ home'.previous = opt.previous
      /\ home'.notify = home.notify /\ home'.instructions = home.instructions
      /\ home'.flags = home.flags /\ home'.hooks = home.hooks /\ home'.guidance = home.guidance
      /\ home'.files = home.files
  BY <1>1, <1>2, <1>3 DEF Homes
<1>5. InstallTypeOK'
  BY <1>1, <1>2, <1>4, SetupTypes DEF InstallIInv, Setup
<1>6. ConfigCopies' /\ HooksReady' /\ NotifyOrder' /\ NotifyRuns'
  BY <1>2, <1>4 DEF InstallIInv, ConfigCopies, HooksReady, HooksOn, NotifyOrder, NotifyRuns
<1>7. home.previous = "mine" => home'.previous = "mine"
  BY <1>3, <1>4 DEF InstallIInv, NotifyOrder
<1>8. Recoverable \subseteq Recoverable'
  BY <1>2, <1>4, <1>7, PlacesKept
<1> QED BY <1>5, <1>6, <1>8 DEF InstallIInv

LEMMA CleanLegacyConfigKept ==
  ASSUME InstallIInv, pc = "config", opt.mode # "legacy", CleanLegacyConfig,
         UNCHANGED <<opt, scope, saved, owned, gap, cut, runs, edits>>
  PROVE  InstallIInv' /\ Recoverable \subseteq Recoverable'
<1> DEFINE h == LegacyConfigRemoved
<1>1. home \in Homes /\ opt \in Options
  BY TypeShape DEF InstallIInv
<1>2. /\ h \in Homes /\ h.notify = (IF home.notify = "owx" THEN "none" ELSE home.notify)
      /\ h.instructions = (IF home.instructions = "owx" THEN "none" ELSE home.instructions)
      /\ h.previous = home.previous /\ h.hooks = home.hooks /\ h.guidance = home.guidance
      /\ h.files = home.files
  BY <1>1 DEF LegacyConfigRemoved, Homes
<1>3. home' = h /\ BackupConfig(h) /\ pc' = "flags"
  BY DEF CleanLegacyConfig
<1> HIDE DEF h
<1>4. fresh' \subseteq Items /\ fresh' \cap {"notify", "instructions"} \subseteq (fresh \cup Held(home))
  BY <1>2, <1>3, BackupConfigKeeps DEF InstallIInv
<1>5. InstallTypeOK'
  BY <1>1, <1>2, <1>3, <1>4, SetupTypes DEF InstallIInv, Setup
<1>6. ConfigCopies'
  <2>1. Held(home) \subseteq Held(h)
    BY <1>2 DEF Held
  <2> QED BY <1>3, <1>4, <2>1 DEF InstallIInv, ConfigCopies
<1>7. HooksReady' /\ NotifyOrder' /\ NotifyRuns'
  BY <1>2, <1>3 DEF InstallIInv, HooksReady, NotifyOrder, NotifyRuns
<1> QED BY <1>2, <1>3, <1>5, <1>6, <1>7, ConfigWritten DEF InstallIInv

LEMMA WriteFlagsKept ==
  ASSUME InstallIInv, pc = "flags", WriteFlags,
         UNCHANGED <<opt, scope, saved, owned, gap, cut, runs, edits>>
  PROVE  InstallIInv' /\ Recoverable \subseteq Recoverable'
<1> DEFINE h == [home EXCEPT !.flags = PluginFlags(@)]
<1>1. home \in Homes /\ opt \in Options /\ opt.mode # "legacy"
  BY TypeShape DEF InstallIInv, HooksReady
<1>2. /\ h \in Homes /\ h.notify = home.notify /\ h.instructions = home.instructions
      /\ h.previous = home.previous /\ h.hooks = home.hooks /\ h.guidance = home.guidance
      /\ h.files = home.files /\ (opt.mode # "plugin" => "hooks" \in h.flags)
  BY <1>1 DEF PluginFlags, FlagsOn, Homes
<1>3. home' = h /\ BackupConfig(h) /\ pc' = "hooks"
  BY DEF WriteFlags
<1> HIDE DEF h
<1>4. fresh' \subseteq Items /\ fresh' \cap {"notify", "instructions"} \subseteq (fresh \cup Held(home))
  BY <1>2, <1>3, BackupConfigKeeps DEF InstallIInv
<1>5. InstallTypeOK'
  BY <1>1, <1>2, <1>3, <1>4, SetupTypes DEF InstallIInv, Setup
<1>6. ConfigCopies'
  BY <1>1, <1>2, <1>3, <1>4 DEF InstallIInv, ConfigCopies, Held
<1>7. HooksReady' /\ NotifyOrder' /\ NotifyRuns'
  BY <1>2, <1>3 DEF InstallIInv, HooksReady, HooksOn, NotifyOrder, NotifyRuns
<1> QED BY <1>1, <1>2, <1>3, <1>5, <1>6, <1>7, ConfigWritten DEF InstallIInv

LEMMA WriteInstructionsKept ==
  ASSUME InstallIInv, pc = "instructions", WriteInstructions,
         UNCHANGED <<opt, scope, saved, owned, gap, cut, runs, edits>>
  PROVE  InstallIInv' /\ Recoverable \subseteq Recoverable'
<1> DEFINE keep == ~Chosen("defaults") \/ (home.instructions # "none" /\ ~Chosen("overwrite"))
           h == [home EXCEPT !.instructions = IF keep THEN @ ELSE "plugin"]
<1>1. home \in Homes /\ opt \in Options /\ opt.mode # "legacy"
  BY TypeShape DEF InstallIInv, HooksReady
<1>2. home' = h /\ BackupConfig(h) /\ pc' = "guidance"
  BY DEF WriteInstructions
<1> HIDE DEF keep
<1>3. /\ h \in Homes /\ h.notify = home.notify /\ h.flags = home.flags
      /\ h.previous = home.previous /\ h.hooks = home.hooks /\ h.guidance = home.guidance
      /\ h.files = home.files
  BY <1>1 DEF Homes
<1> HIDE DEF h
<1>4. fresh' \subseteq Items
  BY <1>2, <1>3, BackupConfigKeeps DEF InstallIInv
<1>5. InstallTypeOK'
  BY <1>1, <1>2, <1>3, <1>4, SetupTypes DEF InstallIInv, Setup
<1>6. ConfigCopies' /\ HooksReady' /\ NotifyOrder' /\ NotifyRuns'
  BY <1>2, <1>3 DEF InstallIInv, ConfigCopies, HooksReady, HooksOn, NotifyOrder, NotifyRuns
<1> QED BY <1>1, <1>2, <1>3, <1>5, <1>6, ConfigWritten DEF InstallIInv

LEMMA WriteHooksKept ==
  ASSUME InstallIInv, pc = "hooks", WriteHooks,
         UNCHANGED <<opt, scope, saved, owned, gap, cut, runs, edits>>
  PROVE  InstallIInv' /\ Recoverable \subseteq Recoverable'
<1> DEFINE after == IF opt.mode = "plugin" THEN RemainingHooks ELSE MergedHooks
<1>1. home \in Homes /\ opt \in Options /\ fresh \subseteq Items
  BY TypeShape DEF InstallIInv
<1>2. after \in SUBSET {"mine", "owx"} /\ ("mine" \in home.hooks => "mine" \in after)
      /\ (opt.mode = "plugin" => "owx" \notin after)
  BY <1>1 DEF Homes, RemainingHooks, MergedHooks
<1>3. home' = [home EXCEPT !.hooks = after] /\ UNCHANGED fresh
      /\ pc' = IF opt.mode = "legacy" THEN "guidance" ELSE "instructions"
  BY DEF WriteHooks
<1> HIDE DEF after
<1>4. /\ home' \in Homes /\ home'.hooks = after /\ home'.previous = home.previous
      /\ home'.notify = home.notify /\ home'.instructions = home.instructions
      /\ home'.flags = home.flags /\ home'.guidance = home.guidance /\ home'.files = home.files
  BY <1>1, <1>2, <1>3 DEF Homes
<1>5. InstallTypeOK'
  BY <1>1, <1>3, <1>4, SetupTypes DEF InstallIInv, Setup
<1>6. ConfigCopies' /\ HooksReady' /\ NotifyOrder' /\ NotifyRuns'
  BY <1>2, <1>3, <1>4 DEF InstallIInv, ConfigCopies, Held, HooksReady, HooksOn, NotifyOrder, NotifyRuns
<1>7. Recoverable \subseteq Recoverable'
  BY <1>2, <1>3, <1>4, PlacesKept
<1> QED BY <1>5, <1>6, <1>7 DEF InstallIInv

LEMMA NoOptionsShape == NoOptions \in Options
  BY DEF NoOptions, Options

LEMMA WriteGuidanceKept ==
  ASSUME InstallIInv, pc = "guidance", WriteGuidance,
         UNCHANGED <<opt, scope, saved, owned, gap, cut, runs, edits>>
  PROVE  InstallIInv' /\ Recoverable \subseteq Recoverable'
<1>1. home \in Homes /\ opt \in Options /\ fresh \subseteq Items /\ saved \subseteq Items
  BY TypeShape DEF InstallIInv
<1>2. PICK next : home' = [home EXCEPT !.guidance = next] /\ BackupGuidance(next)
                  /\ next \in {"none", "mine", "owx", "edited", "mixed"}
  <2>1. \A a \in {"force", "overwrite"} : Chosen(a) \in BOOLEAN
    BY DEF Chosen
  <2>2. \A g \in {"none", "mine", "owx", "edited", "mixed"} :
          Synced(g) \in {"none", "mine", "owx", "edited", "mixed"}
          /\ MergedGuidance(g) \in {"none", "mine", "owx", "edited", "mixed"}
    BY DEF Synced, MergedGuidance
  <2>3. home.guidance \in {"none", "mine", "owx", "edited", "mixed"}
    BY <1>1 DEF Homes
  <2>4. CASE LegacyGuidance
    BY <2>2, <2>3, <2>4 DEF LegacyGuidance
  <2>5. CASE PluginGuidance
    BY <2>2, <2>3, <2>5 DEF PluginGuidance
  <2> QED BY <2>4, <2>5 DEF WriteGuidance
<1>3. /\ home' \in Homes /\ home'.guidance = next /\ home'.previous = home.previous
      /\ home'.notify = home.notify /\ home'.instructions = home.instructions
      /\ home'.flags = home.flags /\ home'.hooks = home.hooks /\ home'.files = home.files
  BY <1>1, <1>2 DEF Homes
<1>4. fresh' \subseteq Items /\ fresh \subseteq fresh'
      /\ (home.guidance \in {"mine", "edited", "mixed"} =>
            next \in {"mine", "edited", "mixed"} \/ "guidance" \in fresh')
  BY <1>1, <1>2 DEF BackupGuidance, Backup, Items
<1>5. pc' = "hud"
  BY DEF WriteGuidance
<1>6. InstallTypeOK'
  BY <1>1, <1>3, <1>4, <1>5, SetupTypes DEF InstallIInv, Setup
<1>7. ConfigCopies' /\ HooksReady' /\ NotifyOrder' /\ NotifyRuns'
  BY <1>3, <1>5 DEF InstallIInv, ConfigCopies, HooksReady, HooksOn, NotifyOrder, NotifyRuns
<1>8. Recoverable \subseteq Recoverable'
  BY <1>3, <1>4 DEF Recoverable, InPlace
<1> QED BY <1>6, <1>7, <1>8 DEF InstallIInv

LEMMA SetupStepKept ==
  ASSUME InstallIInv, SetupStep
  PROVE  InstallIInv' /\ Recoverable \subseteq Recoverable' \cup Forfeit
  BY WriteFilesKept, WriteConfigKept, WriteMetadataKept, CleanLegacyConfigKept, WriteFlagsKept,
     WriteInstructionsKept, WriteHooksKept, WriteGuidanceKept DEF SetupStep, Step

LEMMA SetupEndsKept ==
  ASSUME InstallIInv, SetupEnds
  PROVE  InstallIInv' /\ Recoverable \subseteq Recoverable' \cup Forfeit
<1> DEFINE h == IF home.files["hud"] = "none" \/ Chosen("force") THEN "owx" ELSE home.files["hud"]
<1>1. home \in Homes /\ fresh \subseteq Items /\ saved \subseteq Items /\ "hud" \in Kinds
  BY TypeShape DEF InstallIInv, Kinds
<1>2. home.files \in [Kinds -> {"none", "mine", "owx"}] /\ h \in {"none", "mine", "owx"}
  BY <1>1 DEF Homes
<1>3. home.files["hud"] = "mine" => h = "mine" \/ "hud" \in Forfeit
  BY DEF Forfeit, Chosen
<1>4. home' = [home EXCEPT !.files = [@ EXCEPT !["hud"] = h]] /\ UNCHANGED fresh
  BY DEF SetupEnds, WriteHud
<1>5. pc = "hud" /\ pc' = "idle" /\ opt' = NoOptions /\ saved' = saved \cup fresh' /\ cut' = FALSE
      /\ UNCHANGED <<scope, owned, gap, runs, edits>>
  BY DEF SetupEnds, Finish
<1> HIDE DEF h
<1>6. /\ home' \in Homes /\ home'.guidance = home.guidance /\ home'.previous = home.previous
      /\ home'.notify = home.notify /\ home'.instructions = home.instructions
      /\ home'.flags = home.flags /\ home'.hooks = home.hooks
      /\ home'.files = [home.files EXCEPT !["hud"] = h]
  BY <1>1, <1>2, <1>4 DEF Homes
<1>7. InstallTypeOK'
  BY <1>1, <1>4, <1>5, <1>6, NoOptionsShape DEF InstallIInv, InstallTypeOK, Homes
<1>8. ConfigCopies' /\ HooksReady' /\ NotifyOrder' /\ NotifyRuns'
  BY <1>5, <1>6 DEF InstallIInv, ConfigCopies, HooksReady, HooksOn, NotifyOrder, NotifyRuns
<1>9. Recoverable \subseteq Recoverable' \cup Forfeit
  <2>1. \A k \in Kinds : home.files[k] = "mine" => home'.files[k] = "mine" \/ k \in Forfeit
    BY <1>2, <1>3, <1>6
  <2>2. InPlace \subseteq InPlace' \cup Forfeit
    BY <1>6, <2>1 DEF InPlace
  <2> QED BY <1>4, <1>5, <2>2 DEF Recoverable
<1> QED BY <1>7, <1>8, <1>9 DEF InstallIInv

LEMMA BeginKept ==
  ASSUME InstallBase, InstallIInv, BeginSetup \/ BeginUninstall
  PROVE  InstallIInv'
<1>1. PICK first \in {"files", "u_config"}, options \in SUBSET Options : Begin(first, options)
  BY NoOptionsShape DEF BeginSetup, BeginUninstall
<1>2. pc' = first /\ runs' = runs + 1 /\ runs < MaxRuns /\ fresh' = {} /\ opt' \in Options
      /\ pc = "idle" /\ UNCHANGED <<scope, home, saved, owned, gap, cut, edits>>
  BY <1>1 DEF Begin
<1>3. InstallTypeOK'
  <2>1. runs \in 0..MaxRuns
    BY DEF InstallIInv, InstallTypeOK
  <2>2. runs' \in 0..MaxRuns
    BY <1>2, <2>1 DEF InstallBase
  <2> QED BY <1>2, <2>2 DEF InstallIInv, InstallTypeOK, Setup, Uninstall
<1>4. ConfigCopies' /\ HooksReady' /\ NotifyOrder' /\ NotifyRuns'
  BY <1>2 DEF InstallIInv, ConfigCopies, HooksReady, HooksOn, NotifyOrder, NotifyRuns
<1> QED BY <1>3, <1>4 DEF InstallIInv

LEMMA UninstallStepKept ==
  ASSUME InstallIInv, UninstallStep
  PROVE  InstallIInv'
<1>1. home \in Homes /\ pc' \in Uninstall /\ UNCHANGED <<scope, saved, fresh, owned, opt, cut, runs, edits>>
  BY TypeShape DEF InstallIInv, UninstallStep, CleanConfig, CleanHooks, RemoveFiles, Uninstall
<1>2. CASE pc = "u_config" /\ CleanConfig
  <2> DEFINE flags == FlagsOff(home.flags, "mine" \in home.hooks)
  <2>1. RestoredNotify \in {"none", "mine", "old"} /\ flags \in SUBSET {"hooks", "plugin_hooks"}
    BY <1>1 DEF RestoredNotify, Homes, FlagsOff
  <2>2. home' = [Stripped(home) EXCEPT !.notify = RestoredNotify, !.flags = flags]
        /\ gap' = (gap \/ home.notify \in {"mine", "old"}) /\ pc' = "u_hooks"
    BY <1>2 DEF CleanConfig, Stripped
  <2> HIDE DEF flags
  <2>3. home' \in Homes /\ home'.notify = RestoredNotify /\ home'.previous = home.previous
    BY <1>1, <2>1, <2>2 DEF Homes, Stripped
  <2>4. InstallTypeOK'
    BY <1>1, <2>2, <2>3 DEF InstallIInv, InstallTypeOK, Homes
  <2>5. ConfigCopies' /\ HooksReady'
    BY <2>2 DEF ConfigCopies, HooksReady
  <2>6. NotifyOrder'
    BY <1>1, <2>2, <2>3 DEF InstallIInv, NotifyOrder, RestoredNotify
  <2>7. ~gap' => ~gap /\ home.notify \notin {"mine", "old"}
    BY <2>2
  <2>8. pc = "u_config" /\ pc' = "u_hooks" /\ owned' = owned
    BY <1>1, <1>2, <2>2
  <2>9. ASSUME ~gap' PROVE IF "notify" \in owned THEN home'.notify = "mine" ELSE home'.notify = "none"
    <3>1. ~gap /\ home.notify \notin {"mine", "old"}
      BY <2>7, <2>9
    <3>2. IF "notify" \in owned THEN home.notify = "dispatcher" /\ home.previous = "mine"
          ELSE home.notify \in {"none", "owx"}
      BY <2>8, <3>1 DEF InstallIInv, NotifyRuns
    <3> QED BY <2>3, <3>2 DEF RestoredNotify
  <2>10. NotifyRuns'
    BY <2>8, <2>9 DEF NotifyRuns
  <2> QED BY <2>4, <2>5, <2>6, <2>10 DEF InstallIInv
<1>3. CASE pc = "u_hooks" /\ CleanHooks /\ UNCHANGED gap
  <2>1. /\ home' \in Homes /\ "owx" \notin home'.hooks /\ home'.notify = home.notify
        /\ home'.previous = home.previous /\ pc' = "u_files"
    BY <1>1, <1>3 DEF CleanHooks, RemainingHooks, Homes
  <2>2. InstallTypeOK'
    BY <1>1, <1>3, <2>1 DEF InstallIInv, InstallTypeOK, Homes
  <2>3. ConfigCopies' /\ HooksReady' /\ NotifyOrder' /\ NotifyRuns'
    BY <1>1, <1>3, <2>1 DEF InstallIInv, ConfigCopies, HooksReady, NotifyOrder, NotifyRuns
  <2> QED BY <2>2, <2>3 DEF InstallIInv
<1>4. CASE pc = "u_files" /\ RemoveFiles /\ UNCHANGED gap
  <2> DEFINE left == [k \in Kinds |-> IF k \in {"shim", "hud"} THEN home.files[k] ELSE "none"]
  <2>4. home' = [home EXCEPT !.files = left] /\ pc' = "u_guidance"
    BY <1>4 DEF RemoveFiles
  <2>5. left \in [Kinds -> {"none", "mine", "owx"}]
    BY <1>1 DEF Homes
  <2> HIDE DEF left
  <2>1. /\ home' \in Homes /\ home'.hooks = home.hooks /\ home'.notify = home.notify
        /\ home'.previous = home.previous /\ home'.flags = home.flags /\ pc' = "u_guidance"
    BY <1>1, <2>4, <2>5 DEF Homes
  <2>2. InstallTypeOK'
    BY <1>1, <1>4, <2>1 DEF InstallIInv, InstallTypeOK, Homes
  <2>3. ConfigCopies' /\ HooksReady' /\ NotifyOrder' /\ NotifyRuns'
    BY <1>1, <1>4, <2>1 DEF InstallIInv, ConfigCopies, HooksReady, HooksOn, NotifyOrder, NotifyRuns
  <2> QED BY <2>2, <2>3 DEF InstallIInv
<1> QED BY <1>2, <1>3, <1>4 DEF UninstallStep

LEMMA UninstallEndsKept ==
  ASSUME InstallIInv, UninstallEnds
  PROVE  InstallIInv'
<1>1. home \in Homes /\ fresh \subseteq Items /\ saved \subseteq Items
  BY TypeShape DEF InstallIInv
<1>2. home' \in Homes /\ home'.hooks = home.hooks /\ home'.notify = home.notify
      /\ home'.previous = home.previous /\ home'.flags = home.flags
  BY <1>1 DEF UninstallEnds, Homes
<1>3. pc = "u_guidance" /\ pc' = "idle" /\ opt' = NoOptions /\ saved' = saved \cup fresh /\ cut' = FALSE
      /\ UNCHANGED <<scope, fresh, owned, gap, runs, edits>>
  BY DEF UninstallEnds, Finish
<1>4. InstallTypeOK'
  BY <1>1, <1>2, <1>3, NoOptionsShape DEF InstallIInv, InstallTypeOK, Homes
<1>5. ConfigCopies' /\ HooksReady' /\ NotifyOrder' /\ NotifyRuns'
  BY <1>2, <1>3 DEF InstallIInv, ConfigCopies, HooksReady, HooksOn, NotifyOrder, NotifyRuns
<1> QED BY <1>4, <1>5 DEF InstallIInv

LEMMA CutKept ==
  ASSUME InstallIInv, Cut
  PROVE  InstallIInv' /\ Recoverable \subseteq Recoverable'
<1>1. /\ pc' = "idle" /\ opt' = NoOptions /\ saved' = saved \cup fresh /\ cut' = TRUE
      /\ gap' = (gap \/ pc = "metadata") /\ UNCHANGED <<scope, home, fresh, owned, runs, edits>>
  BY DEF Cut
<1>2. InstallTypeOK'
  BY <1>1, NoOptionsShape DEF InstallIInv, InstallTypeOK
<1>3. ConfigCopies' /\ HooksReady' /\ NotifyOrder' /\ NotifyRuns'
  BY <1>1 DEF InstallIInv, ConfigCopies, HooksReady, NotifyOrder, NotifyRuns
<1>4. Recoverable \subseteq Recoverable'
  BY <1>1 DEF Recoverable, InPlace
<1> QED BY <1>2, <1>3, <1>4 DEF InstallIInv

LEMMA EditKept ==
  ASSUME InstallBase, InstallIInv, NEW i \in Items, Edit(i)
  PROVE  InstallIInv'
<1>1. home \in Homes
  BY TypeShape DEF InstallIInv
<1>2. home' = Edited(i) /\ owned' = owned \cup {i} /\ saved' = saved \ {i} /\ fresh' = {}
      /\ gap' = (gap /\ i # "notify") /\ edits' = edits + 1 /\ edits < MaxEdits /\ pc = "idle"
      /\ UNCHANGED <<scope, pc, opt, cut, runs>>
  BY DEF Edit
<1>3. /\ home' \in Homes /\ home'.flags = home.flags
      /\ ("owx" \in home'.hooks => "owx" \in home.hooks)
      /\ IF i = "notify" THEN home'.notify = "mine" /\ home'.previous = Aged(home.previous)
         ELSE home'.notify = home.notify /\ home'.previous = home.previous
  <2>1. CASE i = "notify"
    BY <1>1, <1>2, <2>1 DEF Edited, Homes, Aged
  <2>2. CASE i = "instructions"
    BY <1>1, <1>2, <2>2 DEF Edited, Homes
  <2>3. CASE i = "hooks"
    BY <1>1, <1>2, <2>3 DEF Edited, Homes
  <2>4. CASE i = "guidance"
    <3>1. PICK g \in {"none", "mine", "owx", "edited", "mixed"} : home' = [home EXCEPT !.guidance = g]
      BY <1>1, <1>2, <2>4 DEF Edited, Homes
    <3> QED BY <1>1, <3>1, <2>4 DEF Homes
  <2>5. CASE i \in Kinds
    <3>1. home' = [home EXCEPT !.files[i] = "mine"]
      BY <1>2, <2>5 DEF Edited, Kinds
    <3> QED BY <1>1, <3>1, <2>5 DEF Homes, Kinds
  <2> QED BY <2>1, <2>2, <2>3, <2>4, <2>5 DEF Items
<1>4. InstallTypeOK'
  <2>1. edits' \in 0..MaxEdits
    BY <1>2 DEF InstallBase, InstallIInv, InstallTypeOK
  <2> QED BY <1>2, <1>3, <2>1 DEF InstallIInv, InstallTypeOK, Homes
<1>5. ConfigCopies' /\ HooksReady' /\ NotifyOrder' /\ NotifyRuns'
  BY <1>2, <1>3 DEF InstallIInv, ConfigCopies, HooksReady, HooksOn, NotifyOrder, NotifyRuns
<1> QED BY <1>4, <1>5 DEF InstallIInv

LEMMA DropNotifyKept ==
  ASSUME InstallBase, InstallIInv, DropNotify
  PROVE  InstallIInv'
<1>1. home \in Homes
  BY TypeShape DEF InstallIInv
<1>2. owned' = owned \ {"notify"} /\ saved' = saved \ {"notify"} /\ fresh' = {}
      /\ edits' = edits + 1 /\ edits < MaxEdits /\ pc = "idle"
      /\ UNCHANGED <<scope, pc, opt, gap, cut, runs>>
      /\ home' = [home EXCEPT !.notify = "none", !.previous = Aged(@)]
  BY DEF DropNotify
<1>3. /\ home' \in Homes /\ home'.flags = home.flags /\ home'.hooks = home.hooks
      /\ home'.notify = "none"
  BY <1>1, <1>2 DEF Homes, Aged
<1>4. InstallTypeOK'
  <2>1. edits' \in 0..MaxEdits
    BY <1>2 DEF InstallBase, InstallIInv, InstallTypeOK
  <2> QED BY <1>2, <1>3, <2>1 DEF InstallIInv, InstallTypeOK, Homes
<1>5. ConfigCopies' /\ HooksReady' /\ NotifyOrder' /\ NotifyRuns'
  BY <1>2, <1>3 DEF InstallIInv, ConfigCopies, HooksReady, HooksOn, NotifyOrder, NotifyRuns
<1> QED BY <1>4, <1>5 DEF InstallIInv

LEMMA InstallStepKept ==
  ASSUME InstallBase, InstallIInv, [InstallNext]_installVars
  PROVE  InstallIInv'
<1>1. CASE UNCHANGED installVars
  BY <1>1 DEF installVars, InstallIInv, InstallTypeOK, ConfigCopies, Held, HooksReady, HooksOn, NotifyOrder, NotifyRuns
<1> QED BY <1>1, SetupStepKept, SetupEndsKept, BeginKept, UninstallStepKept, UninstallEndsKept,
           CutKept, EditKept, DropNotifyKept DEF InstallNext

LEMMA InstallInitKept ==
  ASSUME InstallBase
  PROVE  InstallInit => InstallIInv
<1> SUFFICES ASSUME InstallInit PROVE InstallIInv
  OBVIOUS
<1> DEFINE none == [k \in Kinds |-> "none"]
<1>1. none \in [Kinds -> {"none", "mine", "owx"}]
  OBVIOUS
<1>2. home = [notify |-> "none", previous |-> "none", instructions |-> "none",
              flags |-> {}, hooks |-> {}, guidance |-> "none", files |-> none]
  BY DEF InstallInit
<1> HIDE DEF none
<1>3. home \in Homes
  BY <1>1, <1>2 DEF Homes
<1>4. InstallTypeOK
  <2>1. runs \in 0..MaxRuns /\ edits \in 0..MaxEdits
    BY DEF InstallBase, InstallInit
  <2>2. scope \in {"user", "project"} /\ pc = "idle" /\ opt \in Options /\ gap \in BOOLEAN /\ cut \in BOOLEAN
        /\ saved \subseteq Items /\ fresh \subseteq Items /\ owned \subseteq Items
    BY NoOptionsShape DEF InstallInit
  <2> QED BY <1>3, <2>1, <2>2, TypeShape
<1> QED BY <1>2, <1>4 DEF InstallInit, InstallIInv, ConfigCopies, HooksReady, NotifyOrder, NotifyRuns

(* The user's own notify command is the one that runs, and what is         *)
(* installed is switched on, after any commands, cuts and edits.           *)
THEOREM InstalledCoherent ==
  ASSUME InstallBase
  PROVE  InstallSpec => [](InstallTypeOK /\ SetupCoherent)
<1>1. InstallIInv => InstallTypeOK /\ SetupCoherent
  BY DEF InstallIInv, NotifyRuns, HooksReady, HooksOn, SetupCoherent, NotifyKept, HooksEnabled
<1> QED BY <1>1, InstallInitKept, InstallStepKept, PTL DEF InstallSpec

(* A setup costs the user no text, finished or cut anywhere, but what      *)
(* bears a name that is not installed any more, and with --force the       *)
(* settings of the HUD.                                                    *)
THEOREM SetupLosesNothing ==
  ASSUME InstallBase
  PROVE  InstallSpec => SetupKeeps
<1>1. InstallIInv /\ [InstallNext]_installVars => [(pc \in Setup) => Recoverable \subseteq Recoverable' \cup Forfeit]_installVars
  <2> SUFFICES ASSUME InstallIInv, InstallNext, pc \in Setup
               PROVE  Recoverable \subseteq Recoverable' \cup Forfeit
    OBVIOUS
  <2>1. pc # "idle" /\ pc \notin Uninstall
    BY DEF Setup, Uninstall
  <2>2. SetupStep \/ SetupEnds \/ Cut
    BY <2>1 DEF InstallNext, BeginSetup, BeginUninstall, Begin, UninstallStep, UninstallEnds, DropNotify,
                Edit, Uninstall
  <2> QED BY <2>2, SetupStepKept, SetupEndsKept, CutKept
<1> QED BY <1>1, InstallInitKept, InstallStepKept, PTL DEF InstallSpec, SetupKeeps
-----------------------------------------------------------------------------
(***************************************************************************)
(* The settings of config.toml                                             *)
(***************************************************************************)
SettingsBase == MaxCommands \in Nat /\ MaxChanges \in Nat

LimitValues == {"none", "seeded", "inside", "outside"}
Confs ==
  [notify : {"none", "mine", "owx", "wrapped"}, effort : {"none", "medium", "mine"},
   limits : [Limits -> LimitValues], env : {"none", "mine"}, shell : {"none", "zero", "mine"},
   threads : {"none", "six", "mine"}, table : Lines, block : Lines, mcp : SUBSET {"block", "own"},
   shared : BOOLEAN, server : {"none", "plain", "launcher", "timed"}, trust : {"none", "mine", "owx"}]

(* The options of a setup, and those that a launch merges with.            *)
Orders == [command : {"none", "legacy", "plugin"}, force : BOOLEAN, compat : BOOLEAN,
           remove : BOOLEAN, preset : {"focused", "minimal"}]

(* A [tui] table beside one in OWX's block is the user's.                  *)
TableBeside ==
  /\ conf.table.line = "absent" => conf.table = Absent
  /\ conf.block.line = "absent" => conf.block = Absent
  /\ conf.block # Absent => conf.block.line # "none" /\ conf.table.line \in {"absent", "none", "own"}

SettingsShape ==
  /\ conf \in Confs /\ compat \in BOOLEAN
  /\ last.command \in {"none", "legacy", "plugin", "uninstall", "launch", "change"}
  /\ half \in Orders /\ half \in Choices \cup {NoChoice} /\ (half # NoChoice => half.command = "plugin")
  /\ commands \in 0..MaxCommands /\ changes \in 0..MaxChanges

SettingsIInv == SettingsShape /\ TableBeside /\ SettingsSettle

LEMMA ConfTypes ==
  ASSUME SettingsShape
  PROVE  SettingsTypeOK
  BY DEF SettingsShape, SettingsTypeOK, Confs, LimitValues

LEMMA StatusTypes ==
  ASSUME NEW c \in Confs, NEW o \in Orders
  PROVE  /\ StatusAfter(c, o).table \in Lines /\ StatusAfter(c, o).block \in Lines
         /\ StatusAfter(c, o).table = Absent \/ StatusAfter(c, o).block = Absent
         /\ StatusAfter(c, o).table.line = "absent" => StatusAfter(c, o).table = Absent
         /\ StatusAfter(c, o).block.line = "absent" => StatusAfter(c, o).block = Absent
         /\ StatusAfter(c, o).block.line # "none"
  BY DEF StatusAfter, Lines, Absent, Confs, Orders

LEMMA LimitsTypes ==
  ASSUME NEW lim \in [Limits -> LimitValues]
  PROVE  /\ LimitsStripped(lim) \in [Limits -> LimitValues]
         /\ LimitsStripped(LimitsStripped(lim)) = LimitsStripped(lim)
         /\ \A k \in Limits : lim[k] \in {"inside", "outside"} => LimitsStripped(lim)[k] \in {"inside", "outside"}
  BY DEF LimitsStripped, Limits, LimitValues

(* What a merge makes of the record, setting by setting.                   *)
LEMMA MergedFields ==
  ASSUME NEW c \in Confs, NEW o \in Orders
  PROVE  LET m == Merged(c, o)
         IN  /\ m \in Confs
             /\ m.notify = NotifyAfter(c.notify) /\ m.effort = EffortAfter(c.effort)
             /\ m.limits = LimitsStripped(c.limits) /\ m.env = "none" /\ m.shell = ShellAfter(c)
             /\ m.threads = ThreadsAfter(c.threads)
             /\ m.table = StatusAfter(c, o).table /\ m.block = StatusAfter(c, o).block
             /\ m.mcp = FirstPartyAfter(c, o) /\ m.shared = SharedAfter(c, o.compat)
             /\ m.server = Timed(c.server) /\ m.trust = TrustAfter(c.trust)
<1> DEFINE tui == StatusAfter(c, o).table
           block == StatusAfter(c, o).block
           limits == LimitsStripped(c.limits)
           shared == SharedAfter(c, o.compat)
           notify == NotifyAfter(c.notify)
           effort == EffortAfter(c.effort)
           shell == ShellAfter(c)
           threads == ThreadsAfter(c.threads)
           mcp == FirstPartyAfter(c, o)
           servers == Timed(c.server)
           trust == TrustAfter(c.trust)
           m == [notify |-> notify, effort |-> effort, limits |-> limits, env |-> "none", shell |-> shell,
                 threads |-> threads, table |-> tui, block |-> block, mcp |-> mcp, shared |-> shared,
                 server |-> servers, trust |-> trust]
<1>1. tui \in Lines /\ block \in Lines
  BY StatusTypes
<1>2. limits \in [Limits -> LimitValues]
  BY LimitsTypes DEF Confs
<1>3. shared \in BOOLEAN
  BY DEF SharedAfter, Orders
<1>4. notify \in {"owx", "wrapped"} /\ effort \in {"medium", "mine"} /\ shell \in {"zero", "mine"}
      /\ threads \in {"six", "mine"} /\ mcp \in SUBSET {"block", "own"}
      /\ servers \in {"none", "plain", "launcher", "timed"} /\ trust \in {"mine", "owx"}
  BY DEF NotifyAfter, EffortAfter, ShellAfter, ThreadsAfter, FirstPartyAfter, Timed, TrustAfter, Confs
<1>5. Merged(c, o) = m
  <2> HIDE DEF tui, block, limits, shared, notify, effort, shell, threads, mcp, servers, trust
  <2>1. Merged(c, o) = [c EXCEPT !.notify = notify, !.effort = effort, !.limits = limits, !.env = "none",
                                 !.shell = shell, !.threads = threads, !.table = tui, !.block = block,
                                 !.mcp = mcp, !.shared = shared, !.server = servers, !.trust = trust]
    BY DEF Merged, tui, block, limits, shared, notify, effort, shell, threads, mcp, servers, trust, Confs
  <2> QED BY <2>1 DEF Confs
<1> HIDE DEF tui, block, limits, shared, notify, effort, shell, threads, mcp, servers, trust
<1>6. m \in Confs
  BY <1>1, <1>2, <1>3, <1>4 DEF Confs
<1>7. m.notify = notify /\ m.effort = effort /\ m.limits = limits /\ m.env = "none" /\ m.shell = shell
      /\ m.threads = threads /\ m.table = tui /\ m.block = block /\ m.mcp = mcp /\ m.shared = shared
      /\ m.server = servers /\ m.trust = trust
  OBVIOUS
<1> QED BY <1>5, <1>6, <1>7 DEF tui, block, limits, shared, notify, effort, shell, threads, mcp, servers, trust

(* What the user wrote is read off setting by setting.                     *)
LEMMA MineGrows ==
  ASSUME NEW c, NEW d, NEW out,
         c.effort = "mine" => d.effort = "mine",
         c.threads = "mine" => d.threads = "mine",
         c.trust = "mine" => d.trust = "mine",
         c.notify \in {"mine", "wrapped"} => d.notify \in {"mine", "wrapped"} \/ "notify" \in out,
         c.shell = "mine" \/ (c.shell = "none" /\ c.env = "mine") =>
           d.shell = "mine" \/ (d.shell = "none" /\ d.env = "mine") \/ "explore" \in out,
         c.server # "none" => d.server # "none",
         \A k \in Limits : c.limits[k] \in {"inside", "outside"} => d.limits[k] \in {"inside", "outside"},
         c.table.line = "own" \/ c.block.line = "own" =>
           d.table.line = "own" \/ d.block.line = "own" \/ "status line" \in out
  PROVE  Mine(c) \subseteq Mine(d) \cup out
<1>1. \A i \in {"effort", "threads", "trust"} : c[i] = "mine" => d[i] = "mine"
  OBVIOUS
<1>2. {i \in {"effort", "threads", "trust"} : c[i] = "mine"} \subseteq {i \in {"effort", "threads", "trust"} : d[i] = "mine"}
  BY <1>1
<1>3. {k \in Limits : c.limits[k] \in {"inside", "outside"}} \subseteq {k \in Limits : d.limits[k] \in {"inside", "outside"}}
  OBVIOUS
<1> DEFINE theirs(e) == {i \in {"effort", "threads", "trust"} : e[i] = "mine"}
                           \cup {k \in Limits : e.limits[k] \in {"inside", "outside"}}
           notify(e) == IF e.notify \in {"mine", "wrapped"} THEN {"notify"} ELSE {}
           explore(e) == IF e.shell = "mine" \/ (e.shell = "none" /\ e.env = "mine") THEN {"explore"} ELSE {}
           status(e) == IF e.table.line = "own" \/ e.block.line = "own" THEN {"status line"} ELSE {}
           servers(e) == IF e.server # "none" THEN {"server"} ELSE {}
<1>4. Mine(c) = theirs(c) \cup notify(c) \cup explore(c) \cup status(c) \cup servers(c)
      /\ Mine(d) = theirs(d) \cup notify(d) \cup explore(d) \cup status(d) \cup servers(d)
  BY DEF Mine
<1>5. theirs(c) \subseteq theirs(d)
  BY <1>2, <1>3
<1>6. notify(c) \subseteq notify(d) \cup out
  OBVIOUS
<1>7. explore(c) \subseteq explore(d) \cup out
  OBVIOUS
<1>8. status(c) \subseteq status(d) \cup out
  OBVIOUS
<1>9. servers(c) \subseteq servers(d)
  OBVIOUS
<1> HIDE DEF theirs, notify, explore, status, servers
<1> QED BY <1>4, <1>5, <1>6, <1>7, <1>8, <1>9

(* The status line settles: of a line written anew only the marker differs.*)
LEMMA StatusSettles ==
  ASSUME NEW c \in Confs, NEW d \in Confs, NEW o \in Orders,
         d.table = StatusAfter(c, o).table, d.block = StatusAfter(c, o).block,
         c.table.line = "absent" => c.table = Absent, c.block.line = "absent" => c.block = Absent,
         c.block # Absent => c.block.line # "none" /\ c.table.line \in {"absent", "none", "own"}
  PROVE  /\ StatusAfter(d, o).table.line = d.table.line
         /\ StatusAfter(d, o).block.line = d.block.line
<1> DEFINE custom == c.block.line \notin {"absent", "none"} /\ ~ManagedLine(c.block)
           kept(l) == l.line \notin {"absent", "none"} /\ ~(o.force /\ ManagedLine(l))
           anew == [marked |-> TRUE, line |-> IF o.force THEN "focused" ELSE o.preset]
           plain(l) == [marked |-> FALSE, line |-> l.line]
<1>1. anew.line \in {"focused", "minimal"} /\ ManagedLine(anew) /\ (o.force => anew.line = "focused")
      /\ (~o.force => kept(anew))
  BY DEF ManagedLine, Orders
<1>2. CASE c.table.line = "absent" /\ ~custom
  <2>1. d.table = Absent /\ d.block = anew
    BY <1>2 DEF StatusAfter
  <2> QED BY <1>1, <2>1 DEF StatusAfter, Absent
<1>3. CASE ~(c.table.line = "absent" /\ ~custom) /\ kept(c.table)
  <2>1. d.table = plain(c.table) /\ d.block = Absent
    BY <1>3 DEF StatusAfter
  <2> QED BY <1>1, <1>3, <2>1 DEF StatusAfter, Absent, ManagedLine, Confs, Lines
<1>4. CASE ~(c.table.line = "absent" /\ ~custom) /\ ~kept(c.table) /\ custom /\ kept(c.block)
  <2>1. d.table = plain(c.block) /\ d.block = Absent
    BY <1>4 DEF StatusAfter
  <2> QED BY <1>1, <1>4, <2>1 DEF StatusAfter, Absent, ManagedLine, Confs, Lines
<1>5. CASE ~(c.table.line = "absent" /\ ~custom) /\ ~kept(c.table) /\ ~(custom /\ kept(c.block))
  <2>1. d.table = anew /\ d.block = Absent
    BY <1>5 DEF StatusAfter
  <2> QED BY <1>1, <2>1 DEF StatusAfter, Absent, ManagedLine
<1> QED BY <1>2, <1>3, <1>4, <1>5

(* Settings that agree but for the markers are the same settings.          *)
LEMMA SameSettings ==
  ASSUME NEW c \in Confs, NEW d \in Confs,
         c.notify = d.notify, c.effort = d.effort, c.limits = d.limits, c.env = d.env, c.shell = d.shell,
         c.threads = d.threads, c.mcp = d.mcp, c.shared = d.shared, c.server = d.server, c.trust = d.trust,
         c.table.line = d.table.line, c.block.line = d.block.line
  PROVE  Settings(c) = Settings(d)
<1>1. \A e \in Confs : Settings(e) =
        [notify |-> e.notify, effort |-> e.effort, limits |-> e.limits, env |-> e.env, shell |-> e.shell,
         threads |-> e.threads, table |-> [marked |-> FALSE, line |-> e.table.line],
         block |-> [marked |-> FALSE, line |-> e.block.line], mcp |-> e.mcp, shared |-> e.shared,
         server |-> e.server, trust |-> e.trust]
  <2> TAKE e \in Confs
  <2> DEFINE tui == [e.table EXCEPT !.marked = FALSE]
             block == [e.block EXCEPT !.marked = FALSE]
  <2>1. tui = [marked |-> FALSE, line |-> e.table.line] /\ block = [marked |-> FALSE, line |-> e.block.line]
    <3>1. \A l \in Lines : [l EXCEPT !.marked = FALSE] = [marked |-> FALSE, line |-> l.line]
      <4> TAKE l \in Lines
      <4> DEFINE a == l.marked
                 b == l.line
                 no == FALSE
      <4>1. l = [marked |-> a, line |-> b]
        BY DEF Lines
      <4> HIDE DEF a, b, no
      <4>2. [l EXCEPT !.marked = no] = [marked |-> no, line |-> b]
        BY <4>1
      <4> QED BY <4>2 DEF b, no
    <3> QED BY <3>1 DEF Confs
  <2>2. Settings(e) = [e EXCEPT !.table = tui, !.block = block]
    BY DEF Settings, Confs
  <2> HIDE DEF tui, block
  <2> QED BY <2>1, <2>2 DEF Confs
<1> QED BY <1>1

LEMMA MergeSettles ==
  ASSUME NEW c \in Confs, NEW o \in Orders,
         c.table.line = "absent" => c.table = Absent, c.block.line = "absent" => c.block = Absent,
         c.block # Absent => c.block.line # "none" /\ c.table.line \in {"absent", "none", "own"}
  PROVE  Settings(Merged(Merged(c, o), o)) = Settings(Merged(c, o))
<1> DEFINE m == Merged(c, o)
           n == Merged(m, o)
<1>1. /\ m \in Confs
      /\ m.notify = NotifyAfter(c.notify) /\ m.effort = EffortAfter(c.effort)
      /\ m.limits = LimitsStripped(c.limits) /\ m.env = "none" /\ m.shell = ShellAfter(c)
      /\ m.threads = ThreadsAfter(c.threads)
      /\ m.table = StatusAfter(c, o).table /\ m.block = StatusAfter(c, o).block
      /\ m.mcp = FirstPartyAfter(c, o) /\ m.shared = SharedAfter(c, o.compat)
      /\ m.server = Timed(c.server) /\ m.trust = TrustAfter(c.trust)
  BY MergedFields
<1> HIDE DEF m
<1>2. /\ n \in Confs
      /\ n.notify = NotifyAfter(m.notify) /\ n.effort = EffortAfter(m.effort)
      /\ n.limits = LimitsStripped(m.limits) /\ n.env = "none" /\ n.shell = ShellAfter(m)
      /\ n.threads = ThreadsAfter(m.threads)
      /\ n.table = StatusAfter(m, o).table /\ n.block = StatusAfter(m, o).block
      /\ n.mcp = FirstPartyAfter(m, o) /\ n.shared = SharedAfter(m, o.compat)
      /\ n.server = Timed(m.server) /\ n.trust = TrustAfter(m.trust)
  BY <1>1, MergedFields
<1> HIDE DEF n
<1>3. n.table.line = m.table.line /\ n.block.line = m.block.line
  BY <1>1, <1>2, StatusSettles
<1>4. n.limits = m.limits
  BY <1>1, <1>2, LimitsTypes DEF Confs
<1>5. n.notify = m.notify /\ n.effort = m.effort /\ n.shell = m.shell /\ n.threads = m.threads
      /\ n.trust = m.trust /\ n.server = m.server
  BY <1>1, <1>2 DEF NotifyAfter, EffortAfter, ShellAfter, ThreadsAfter, TrustAfter, Timed, Confs
<1>6. n.mcp = m.mcp
  BY <1>1, <1>2 DEF FirstPartyAfter
<1>7. n.shared = m.shared
  <2>1. m.server = "none" <=> c.server = "none"
    BY <1>1 DEF Timed
  <2> QED BY <1>1, <1>2, <2>1 DEF SharedAfter
<1> QED BY <1>1, <1>2, <1>3, <1>4, <1>5, <1>6, <1>7, SameSettings DEF m, n

(* A merge keeps what the user wrote.                                      *)
LEMMA MergeKeeps ==
  ASSUME NEW c \in Confs, NEW o \in Orders,
         c.block # Absent => c.block.line # "none" /\ c.table.line \in {"absent", "none", "own"},
         c.block.line = "absent" => c.block = Absent
  PROVE  Mine(c) \subseteq Mine(Merged(c, o))
<1> DEFINE m == Merged(c, o)
<1>1. /\ m \in Confs
      /\ m.notify = NotifyAfter(c.notify) /\ m.effort = EffortAfter(c.effort)
      /\ m.limits = LimitsStripped(c.limits) /\ m.env = "none" /\ m.shell = ShellAfter(c)
      /\ m.threads = ThreadsAfter(c.threads)
      /\ m.table = StatusAfter(c, o).table /\ m.block = StatusAfter(c, o).block
      /\ m.server = Timed(c.server) /\ m.trust = TrustAfter(c.trust)
  BY MergedFields
<1> HIDE DEF m
<1>2. /\ c.effort = "mine" => m.effort = "mine"
      /\ c.threads = "mine" => m.threads = "mine"
      /\ c.trust = "mine" => m.trust = "mine"
      /\ c.notify \in {"mine", "wrapped"} => m.notify \in {"mine", "wrapped"}
      /\ c.shell = "mine" \/ (c.shell = "none" /\ c.env = "mine") => m.shell = "mine"
      /\ c.server # "none" => m.server # "none"
  BY <1>1 DEF NotifyAfter, EffortAfter, ShellAfter, ThreadsAfter, TrustAfter, Timed
<1>3. \A k \in Limits : c.limits[k] \in {"inside", "outside"} => m.limits[k] \in {"inside", "outside"}
  BY <1>1, LimitsTypes DEF Confs
<1>4. c.table.line = "own" \/ c.block.line = "own" => m.table.line = "own"
  BY <1>1 DEF StatusAfter, ManagedLine, Absent, Confs, Lines
<1> QED BY <1>2, <1>3, <1>4, MineGrows DEF m

LEMMA OrdersShape ==
  /\ Choices \subseteq Orders
  /\ NoChoice \in Orders /\ NoChoice \notin Choices /\ NoChoice.command = "none"
  /\ \A x \in BOOLEAN : [NoChoice EXCEPT !.compat = x] \in Orders
<1>1. Choices \subseteq Orders
  BY DEF Choices, Orders
<1>2. NoChoice \in Orders /\ NoChoice \notin Choices /\ NoChoice.command = "none"
  BY DEF NoChoice, Choices, Orders
<1>3. \A x \in BOOLEAN : [NoChoice EXCEPT !.compat = x] \in Orders
  BY <1>2 DEF Orders
<1> QED BY <1>1, <1>2, <1>3

(* The mark of an action on the properties: what it takes out.             *)
Keeps == changes' = changes => Mine(conf) \subseteq Mine(conf') \cup TakenOut(conf, By)

LEMMA LegacySetupKept ==
  ASSUME SettingsBase, SettingsIInv, NEW o \in Choices, LegacySetup(o)
  PROVE  SettingsIInv' /\ Keeps
<1>1. /\ half = NoChoice /\ commands < MaxCommands /\ o.command = "legacy" /\ conf' = Merged(conf, o)
      /\ compat' = o.compat /\ last' = o /\ commands' = commands + 1 /\ UNCHANGED <<half, changes>>
  BY DEF LegacySetup
<1>2. conf \in Confs /\ o \in Orders /\ conf' \in Confs
  BY <1>1, OrdersShape, MergedFields DEF SettingsIInv, SettingsShape
<1>3. SettingsShape'
  BY <1>1, <1>2 DEF SettingsBase, SettingsIInv, SettingsShape, Choices
<1>4. conf'.table = StatusAfter(conf, o).table /\ conf'.block = StatusAfter(conf, o).block
      /\ conf'.shared = SharedAfter(conf, o.compat) /\ conf'.server = Timed(conf.server)
  BY <1>1, <1>2, MergedFields
<1>5. TableBeside'
  BY <1>2, <1>4, StatusTypes DEF TableBeside, Absent
<1>6. SettingsSettle'
  <2>1. conf'.table = Absent \/ conf'.block = Absent
    BY <1>2, <1>4, StatusTypes
  <2>2. ~(conf'.shared /\ conf'.server # "none")
    BY <1>4 DEF SharedAfter, Timed
  <2>3. Settings(Merged(conf', last')) = Settings(conf')
    BY <1>1, <1>2, MergeSettles DEF SettingsIInv, TableBeside
  <2> QED BY <2>1, <2>2, <2>3 DEF SettingsSettle
<1>7. Mine(conf) \subseteq Mine(conf')
  BY <1>1, <1>2, MergeKeeps DEF SettingsIInv, TableBeside
<1> QED BY <1>3, <1>5, <1>6, <1>7 DEF SettingsIInv, Keeps

(* A rewrite that touches the settings of OWX.                             *)
Rewrite(c, notify, effort, limits, environment, shell, block, mcp, shared, servers, trust) ==
  [c EXCEPT !.notify = notify, !.effort = effort, !.limits = limits, !.env = environment, !.shell = shell,
            !.block = block, !.mcp = mcp, !.shared = shared, !.server = servers, !.trust = trust]

(* The values fit, and the rewritten config says them.                     *)
Fitting(notify, effort, limits, environment, shell, block, mcp, shared, servers, trust) ==
  /\ notify \in {"none", "mine", "owx", "wrapped"} /\ effort \in {"none", "medium", "mine"}
  /\ limits \in [Limits -> LimitValues] /\ environment \in {"none", "mine"} /\ shell \in {"none", "zero", "mine"}
  /\ block \in Lines /\ mcp \in SUBSET {"block", "own"} /\ shared \in BOOLEAN
  /\ servers \in {"none", "plain", "launcher", "timed"} /\ trust \in {"none", "mine", "owx"}
Says(c, d, notify, effort, limits, environment, shell, block, mcp, shared, servers, trust) ==
  /\ d \in Confs
  /\ d.notify = notify /\ d.effort = effort /\ d.limits = limits /\ d.env = environment /\ d.shell = shell
  /\ d.block = block /\ d.mcp = mcp /\ d.shared = shared /\ d.server = servers /\ d.trust = trust
  /\ d.threads = c.threads /\ d.table = c.table

(* The record is rewritten in two halves: twelve fields are too many at once. *)
FirstHalf(c, notify, effort, limits, environment, shell, block) ==
  [c EXCEPT !.notify = notify, !.effort = effort, !.limits = limits, !.env = environment, !.shell = shell,
            !.block = block]
SecondHalf(c, mcp, shared, servers, trust) ==
  [c EXCEPT !.mcp = mcp, !.shared = shared, !.server = servers, !.trust = trust]

LEMMA FirstTypes ==
  ASSUME NEW c \in Confs, NEW notify \in {"none", "mine", "owx", "wrapped"}, NEW effort \in {"none", "medium", "mine"},
         NEW limits \in [Limits -> LimitValues], NEW shell \in {"none", "zero", "mine"}, NEW block \in Lines,
         NEW environment \in {"none", "mine"}
  PROVE  FirstHalf(c, notify, effort, limits, environment, shell, block) \in Confs
  BY DEF Confs, FirstHalf

LEMMA SecondTypes ==
  ASSUME NEW c \in Confs,
         NEW mcp \in SUBSET {"block", "own"}, NEW shared \in BOOLEAN,
         NEW servers \in {"none", "plain", "launcher", "timed"}, NEW trust \in {"none", "mine", "owx"}
  PROVE  SecondHalf(c, mcp, shared, servers, trust) \in Confs
  BY DEF Confs, SecondHalf

LEMMA Rewritten ==
  ASSUME NEW c \in Confs, NEW notify, NEW effort, NEW limits, NEW environment, NEW shell, NEW block, NEW mcp,
         NEW shared, NEW servers, NEW trust,
         Fitting(notify, effort, limits, environment, shell, block, mcp, shared, servers, trust)
  PROVE  Says(c, Rewrite(c, notify, effort, limits, environment, shell, block, mcp, shared, servers, trust),
              notify, effort, limits, environment, shell, block, mcp, shared, servers, trust)
<1> DEFINE d == Rewrite(c, notify, effort, limits, environment, shell, block, mcp, shared, servers, trust)
           first == FirstHalf(c, notify, effort, limits, environment, shell, block)
           second == SecondHalf(first, mcp, shared, servers, trust)
<1>1. first \in Confs
  BY FirstTypes DEF Fitting
<1>2. second \in Confs
  <2> HIDE DEF first
  <2> QED BY <1>1, SecondTypes DEF Fitting
<1>3. d = second
  BY DEF Rewrite, FirstHalf, SecondHalf, Confs
<1>4. /\ d.notify = notify /\ d.effort = effort /\ d.limits = limits /\ d.env = environment /\ d.shell = shell
      /\ d.block = block /\ d.mcp = mcp /\ d.shared = shared /\ d.server = servers /\ d.trust = trust
      /\ d.threads = c.threads /\ d.table = c.table
  BY DEF Rewrite, Confs
<1> HIDE DEF d, second
<1>5. d \in Confs
  BY <1>2, <1>3
<1> QED BY <1>4, <1>5 DEF d, Says

LEMMA StrippedValues ==
  ASSUME NEW c \in Confs
  PROVE  /\ EffortStripped(c.effort) \in {"none", "mine"} /\ (c.effort = "mine" => EffortStripped(c.effort) = "mine")
         /\ TrustStripped(c.trust) \in {"none", "mine"} /\ (c.trust = "mine" => TrustStripped(c.trust) = "mine")
         /\ TrustAfter(c.trust) \in {"owx", "mine"} /\ (c.trust = "mine" => TrustAfter(c.trust) = "mine")
         /\ Timed(c.server) \in {"none", "plain", "launcher", "timed"}
         /\ (c.server # "none" => Timed(c.server) # "none")
         /\ c.limits \in [Limits -> LimitValues]
         /\ LimitsStripped(c.limits) \in [Limits -> LimitValues]
         /\ \A k \in Limits : c.limits[k] \in {"inside", "outside"} =>
                                LimitsStripped(c.limits)[k] \in {"inside", "outside"}
<1>1. c.limits \in [Limits -> LimitValues]
  BY DEF Confs
<1> QED BY <1>1, LimitsTypes DEF EffortStripped, TrustStripped, TrustAfter, Timed, Confs

LEMMA PluginCleansKept ==
  ASSUME SettingsBase, SettingsIInv, NEW o \in Choices, PluginCleans(o)
  PROVE  SettingsIInv' /\ Keeps
<1> DEFINE notify == IF conf.notify = "owx" THEN "none" ELSE conf.notify
           effort == EffortStripped(conf.effort)
           limits == LimitsStripped(conf.limits)
           trust == TrustStripped(conf.trust)
           mcp == IF conf.mcp # {} /\ ~o.compat /\ ~o.remove THEN {"own"} ELSE {}
           no == FALSE
           none == "none"
<1>0. conf \in Confs /\ TableBeside
  BY DEF SettingsIInv, SettingsShape
<1>1. /\ half = NoChoice /\ commands < MaxCommands /\ o.command = "plugin"
      /\ conf' = Rewrite(conf, notify, effort, limits, none, none, Absent, mcp, no, conf.server, trust)
      /\ half' = o /\ commands' = commands + 1 /\ last' = NoChoice /\ UNCHANGED <<compat, changes>>
  BY <1>0 DEF PluginCleans, Confs, Rewrite
<1>2. Fitting(notify, effort, limits, none, none, Absent, mcp, no, conf.server, trust)
  BY <1>0, StrippedValues DEF Confs, Absent, Lines, Fitting
<1> HIDE DEF notify, effort, limits, trust, mcp, no, none
<1>3. Says(conf, conf', notify, effort, limits, none, none, Absent, mcp, no, conf.server, trust)
  BY <1>0, <1>1, <1>2, Rewritten
<1>4. SettingsShape'
  BY <1>1, <1>3, OrdersShape DEF SettingsBase, SettingsIInv, SettingsShape, Says
<1>5. TableBeside' /\ SettingsSettle'
  BY <1>0, <1>1, <1>3, OrdersShape DEF TableBeside, SettingsSettle, Absent, Says
<1>6. Mine(conf) \subseteq Mine(conf') \cup TakenOut(conf, By)
  <2>1. By = "plugin"
    BY <1>1, OrdersShape DEF By
  <2>2. "explore" \in TakenOut(conf, By) /\ (conf.table.line # "own" => "status line" \in TakenOut(conf, By))
    BY <2>1 DEF TakenOut
  <2>3. /\ conf.effort = "mine" => effort = "mine"
        /\ conf.trust = "mine" => trust = "mine"
        /\ conf.notify \in {"mine", "wrapped"} => notify \in {"mine", "wrapped"}
        /\ \A k \in Limits : conf.limits[k] \in {"inside", "outside"} => limits[k] \in {"inside", "outside"}
    BY <1>0, StrippedValues DEF effort, trust, notify, limits
  <2> DEFINE out == TakenOut(conf, By)
             next == conf'
  <2> HIDE DEF out, next
  <2>4. Mine(conf) \subseteq Mine(next) \cup out
    BY <1>3, <2>2, <2>3, MineGrows DEF out, next, Says
  <2> QED BY <2>4 DEF out, next
<1> QED BY <1>4, <1>5, <1>6 DEF SettingsIInv, Keeps

LEMMA PluginAppliesKept ==
  ASSUME SettingsBase, SettingsIInv, PluginApplies
  PROVE  SettingsIInv' /\ Keeps
<1> DEFINE trust == TrustAfter(conf.trust)
           shared == SharedAfter(conf, half.compat)
           servers == IF half.compat THEN Timed(conf.server) ELSE conf.server
<1>0. conf \in Confs /\ TableBeside /\ half \in Orders /\ half # NoChoice /\ half.command = "plugin"
  BY DEF PluginApplies, SettingsIInv, SettingsShape
<1>1. /\ conf' = SecondHalf(conf, conf.mcp, shared, servers, trust)
      /\ last' = half /\ compat' = half.compat /\ half' = NoChoice /\ UNCHANGED <<commands, changes>>
  BY <1>0 DEF PluginApplies, SecondHalf, Confs
<1>2. trust \in {"none", "mine", "owx"} /\ shared \in BOOLEAN /\ servers \in {"none", "plain", "launcher", "timed"}
      /\ conf.mcp \in SUBSET {"block", "own"} /\ (conf.trust = "mine" => trust = "mine")
      /\ (conf.server # "none" => servers # "none")
  BY <1>0, StrippedValues DEF Confs, SharedAfter, Orders
<1> HIDE DEF trust, shared, servers
<1>3. conf' \in Confs
  BY <1>0, <1>1, <1>2, SecondTypes
<1>4. /\ conf'.trust = trust /\ conf'.server = servers /\ conf'.notify = conf.notify /\ conf'.effort = conf.effort
      /\ conf'.limits = conf.limits /\ conf'.env = conf.env /\ conf'.shell = conf.shell
      /\ conf'.threads = conf.threads /\ conf'.table = conf.table /\ conf'.block = conf.block
  BY <1>0, <1>1 DEF SecondHalf, Confs
<1>5. SettingsShape'
  BY <1>0, <1>1, <1>3, OrdersShape DEF SettingsBase, SettingsIInv, SettingsShape, Orders
<1>6. TableBeside' /\ SettingsSettle'
  BY <1>0, <1>1, <1>4 DEF TableBeside, SettingsSettle, Absent
<1>7. Mine(conf) \subseteq Mine(conf') \cup TakenOut(conf, By)
  <2> DEFINE out == TakenOut(conf, By)
             next == conf'
  <2> HIDE DEF out, next
  <2>1. Mine(conf) \subseteq Mine(next) \cup out
    BY <1>2, <1>4, MineGrows DEF next
  <2> QED BY <2>1 DEF out, next
<1> QED BY <1>5, <1>6, <1>7 DEF SettingsIInv, Keeps

LEMMA PluginIsCutKept ==
  ASSUME SettingsBase, SettingsIInv, PluginIsCut
  PROVE  SettingsIInv' /\ Keeps
<1>1. SettingsIInv'
  BY OrdersShape DEF PluginIsCut, SettingsIInv, SettingsShape, TableBeside, SettingsSettle
<1> QED BY <1>1 DEF PluginIsCut, Keeps

LEMMA UninstallsKept ==
  ASSUME SettingsBase, SettingsIInv, Uninstalls
  PROVE  SettingsIInv' /\ Keeps
<1> DEFINE notify == IF conf.notify = "wrapped" THEN "mine" ELSE "none"
           effort == EffortStripped(conf.effort)
           limits == LimitsStripped(conf.limits)
           trust == TrustStripped(conf.trust)
           mcp == conf.mcp \ {"block"}
           none == "none"
           command == "uninstall"
<1>0. conf \in Confs /\ TableBeside
  BY DEF SettingsIInv, SettingsShape
<1>1. /\ half = NoChoice /\ half' = half /\ commands < MaxCommands /\ commands' = commands + 1
      /\ last' = [NoChoice EXCEPT !.command = command] /\ UNCHANGED <<compat, changes>>
  BY DEF Uninstalls, Command
<1>2. conf' = Rewrite(conf, notify, effort, limits, none, none, Absent, mcp, conf.shared, conf.server, trust)
  BY <1>0 DEF Uninstalls, Confs, Rewrite
<1>3. Fitting(notify, effort, limits, none, none, Absent, mcp, conf.shared, conf.server, trust)
  BY <1>0, StrippedValues DEF Confs, Absent, Lines, Fitting
<1>4. last'.command = "uninstall"
  BY <1>1 DEF NoChoice
<1> HIDE DEF notify, effort, limits, trust, mcp, none, command
<1>5. Says(conf, conf', notify, effort, limits, none, none, Absent, mcp, conf.shared, conf.server, trust)
  BY <1>0, <1>2, <1>3, Rewritten
<1>6. SettingsShape'
  BY <1>1, <1>4, <1>5 DEF SettingsBase, SettingsIInv, SettingsShape, Says
<1>7. TableBeside' /\ SettingsSettle'
  BY <1>0, <1>4, <1>5 DEF TableBeside, SettingsSettle, Absent, Says
<1>8. Mine(conf) \subseteq Mine(conf') \cup TakenOut(conf, By)
  <2>1. By = "uninstall"
    BY <1>1, <1>4 DEF By
  <2>2. "explore" \in TakenOut(conf, By) /\ (conf.table.line # "own" => "status line" \in TakenOut(conf, By))
        /\ (conf.notify = "mine" => "notify" \in TakenOut(conf, By))
    BY <2>1 DEF TakenOut
  <2>3. /\ conf.effort = "mine" => effort = "mine"
        /\ conf.trust = "mine" => trust = "mine"
        /\ conf.notify = "wrapped" => notify = "mine"
        /\ \A k \in Limits : conf.limits[k] \in {"inside", "outside"} => limits[k] \in {"inside", "outside"}
    BY <1>0, StrippedValues DEF effort, trust, notify, limits
  <2> DEFINE out == TakenOut(conf, By)
             next == conf'
  <2> HIDE DEF out, next
  <2>4. Mine(conf) \subseteq Mine(next) \cup out
    BY <1>5, <2>2, <2>3, MineGrows DEF out, next, Says
  <2> QED BY <2>4 DEF out, next
<1> QED BY <1>6, <1>7, <1>8 DEF SettingsIInv, Keeps

LEMMA LaunchKept ==
  ASSUME SettingsBase, SettingsIInv, Launch
  PROVE  SettingsIInv' /\ Keeps
<1> DEFINE o == [NoChoice EXCEPT !.compat = compat \/ conf.mcp # {}]
           m == Merged(conf, o)
           notify == "owx"
           trust == TrustStripped(conf.trust)
           shared == SharedAfter(conf, conf.shared)
           command == "launch"
<1>0. conf \in Confs /\ TableBeside /\ compat \in BOOLEAN
  BY DEF SettingsIInv, SettingsShape
<1>1. /\ half = NoChoice /\ half' = half /\ commands < MaxCommands /\ commands' = commands + 1
      /\ last' = [NoChoice EXCEPT !.command = command] /\ UNCHANGED <<compat, changes>>
      /\ conf' = [m EXCEPT !.notify = notify, !.trust = trust, !.shared = shared]
  BY DEF Launch, Command
<1>2. last'.command = "launch"
  BY <1>1 DEF NoChoice
<1>3. o \in Orders
  BY <1>0, OrdersShape
<1>4. trust \in {"none", "mine", "owx"} /\ shared \in BOOLEAN /\ notify \in {"none", "mine", "owx", "wrapped"}
  BY <1>0, StrippedValues DEF SharedAfter, Confs
<1> HIDE DEF o, notify, trust, shared, command
<1>5. m \in Confs /\ m.table = StatusAfter(conf, o).table /\ m.block = StatusAfter(conf, o).block
  BY <1>0, <1>3, MergedFields
<1> HIDE DEF m
<1>6. conf' \in Confs /\ conf'.table = m.table /\ conf'.block = m.block
  BY <1>1, <1>4, <1>5 DEF Confs
<1>7. SettingsShape'
  BY <1>1, <1>2, <1>6 DEF SettingsBase, SettingsIInv, SettingsShape
<1>8. TableBeside'
  BY <1>0, <1>3, <1>5, <1>6, StatusTypes DEF TableBeside, Absent
<1>9. SettingsSettle'
  BY <1>2 DEF SettingsSettle
<1>10. By = "launch"
  BY <1>1, <1>2 DEF By
<1> QED BY <1>7, <1>8, <1>9, <1>10 DEF SettingsIInv, Keeps, TakenOut

LEMMA ChangeKept ==
  ASSUME SettingsBase, SettingsIInv, Change
  PROVE  SettingsIInv' /\ Keeps
<1> DEFINE command == "change"
<1>0. conf \in Confs /\ TableBeside /\ changes \in Nat
  BY DEF SettingsIInv, SettingsShape
<1>1. /\ half = NoChoice /\ changes < MaxChanges /\ conf' \in Changed /\ changes' = changes + 1
      /\ last' = [NoChoice EXCEPT !.command = command] /\ UNCHANGED <<compat, half, commands>>
  BY DEF Change
<1>2. last'.command = "change"
  BY <1>1 DEF NoChoice
<1> HIDE DEF command
<1>3. conf.table \in Lines /\ conf.block \in Lines /\ conf.limits \in [Limits -> LimitValues]
  BY <1>0 DEF Confs
<1> DEFINE Fine(c) ==
             /\ c \in Confs
             /\ c.table.line = "absent" => c.table = Absent
             /\ c.block.line = "absent" => c.block = Absent
             /\ c.block # Absent => c.block.line # "none" /\ c.table.line \in {"absent", "none", "own"}
<1>4. Fine([conf EXCEPT !.notify = "mine"]) /\ Fine([conf EXCEPT !.effort = "mine"])
      /\ Fine([conf EXCEPT !.env = "mine"]) /\ Fine([conf EXCEPT !.shell = "mine"])
      /\ Fine([conf EXCEPT !.threads = "mine"]) /\ Fine([conf EXCEPT !.trust = "mine"])
      /\ \A s \in {"plain", "launcher"} : Fine([conf EXCEPT !.server = s])
  <2> DEFINE Same(c) == c \in Confs /\ c.table = conf.table /\ c.block = conf.block
  <2>1. Same([conf EXCEPT !.notify = "mine"])
    BY <1>0 DEF Confs
  <2>2. Same([conf EXCEPT !.effort = "mine"])
    BY <1>0 DEF Confs
  <2>3. Same([conf EXCEPT !.env = "mine"])
    BY <1>0 DEF Confs
  <2>4. Same([conf EXCEPT !.shell = "mine"])
    BY <1>0 DEF Confs
  <2>5. Same([conf EXCEPT !.threads = "mine"])
    BY <1>0 DEF Confs
  <2>6. Same([conf EXCEPT !.trust = "mine"])
    BY <1>0 DEF Confs
  <2>7. \A s \in {"plain", "launcher"} : Same([conf EXCEPT !.server = s])
    BY <1>0 DEF Confs
  <2>8. \A c : Same(c) => Fine(c)
    BY <1>0 DEF TableBeside
  <2> HIDE DEF Same, Fine
  <2> QED BY <2>1, <2>2, <2>3, <2>4, <2>5, <2>6, <2>7, <2>8
<1>5. Fine([conf EXCEPT !.table = Unset])
  BY <1>0, <1>3 DEF TableBeside, Confs, Absent, Unset, Lines
<1>6. Fine([conf EXCEPT !.table = [@ EXCEPT !.line = "own"]])
  <2> DEFINE t == [conf.table EXCEPT !.line = "own"]
  <2>1. t \in Lines /\ t.line = "own"
    BY <1>3 DEF Lines
  <2> HIDE DEF t
  <2>2. Fine([conf EXCEPT !.table = t])
    BY <1>0, <1>3, <2>1 DEF TableBeside, Confs, Absent
  <2> QED BY <2>2 DEF t
<1>7. conf.block.line # "absent" => Fine([conf EXCEPT !.block.line = "own"])
  <2> DEFINE b == [conf.block EXCEPT !.line = "own"]
  <2>1. b \in Lines /\ b.line = "own"
    BY <1>3 DEF Lines
  <2>2. conf.block.line # "absent" => conf.block # Absent
    BY DEF Absent
  <2>3. [conf EXCEPT !.block.line = "own"] = [conf EXCEPT !.block = b]
    OBVIOUS
  <2> HIDE DEF b
  <2>4. conf.block.line # "absent" => Fine([conf EXCEPT !.block = b])
    BY <1>0, <1>3, <2>1, <2>2 DEF TableBeside, Confs
  <2> HIDE DEF Fine
  <2> QED BY <2>3, <2>4
<1>8. ASSUME NEW k \in Limits, NEW v \in LimitValues
      PROVE  Fine([conf EXCEPT !.limits[k] = v])
  <2> DEFINE l == [conf.limits EXCEPT ![k] = v]
  <2>1. l \in [Limits -> LimitValues]
    BY <1>3
  <2>2. [conf EXCEPT !.limits[k] = v] = [conf EXCEPT !.limits = l]
    OBVIOUS
  <2> HIDE DEF l
  <2>3. Fine([conf EXCEPT !.limits = l])
    BY <1>0, <1>3, <2>1 DEF TableBeside, Confs
  <2> HIDE DEF Fine
  <2> QED BY <2>2, <2>3
<1>9. Fine(conf')
  <2> HIDE DEF Fine
  <2>1. CASE conf' \in {[conf EXCEPT !.notify = "mine"], [conf EXCEPT !.effort = "mine"],
                        [conf EXCEPT !.env = "mine"], [conf EXCEPT !.shell = "mine"],
                        [conf EXCEPT !.threads = "mine"], [conf EXCEPT !.trust = "mine"],
                        [conf EXCEPT !.table = Unset], [conf EXCEPT !.table = [@ EXCEPT !.line = "own"]]}
    BY <2>1, <1>4, <1>5, <1>6
  <2>2. CASE conf' \in {[conf EXCEPT !.limits[k] = IF @ \in {"seeded", "inside"} THEN "inside" ELSE "outside"] :
                          k \in Limits}
    <3>1. PICK k \in Limits :
            conf' = [conf EXCEPT !.limits[k] = IF @ \in {"seeded", "inside"} THEN "inside" ELSE "outside"]
      BY <2>2
    <3> DEFINE v == IF conf.limits[k] \in {"seeded", "inside"} THEN "inside" ELSE "outside"
    <3>2. v \in LimitValues
      BY DEF LimitValues
    <3>3. conf' = [conf EXCEPT !.limits[k] = v]
      BY <3>1
    <3> HIDE DEF v
    <3> QED BY <3>2, <3>3, <1>8
  <2>3. CASE conf' \in {[conf EXCEPT !.limits[k] = "none"] : k \in Limits}
    <3>1. PICK k \in Limits : conf' = [conf EXCEPT !.limits[k] = "none"]
      BY <2>3
    <3>2. "none" \in LimitValues
      BY DEF LimitValues
    <3> QED BY <3>1, <3>2, <1>8
  <2>4. CASE conf' \in {[conf EXCEPT !.server = s] : s \in {"plain", "launcher"}}
    <3>1. PICK s \in {"plain", "launcher"} : conf' = [conf EXCEPT !.server = s]
      BY <2>4
    <3> QED BY <3>1, <1>4
  <2>5. CASE conf' \in IF conf.block.line = "absent" THEN {} ELSE {[conf EXCEPT !.block.line = "own"]}
    BY <2>5, <1>7
  <2> QED BY <1>1, <2>1, <2>2, <2>3, <2>4, <2>5 DEF Changed
<1>10. SettingsShape'
  BY <1>1, <1>2, <1>9 DEF SettingsBase, SettingsIInv, SettingsShape
<1>11. TableBeside' /\ SettingsSettle'
  BY <1>2, <1>9 DEF TableBeside, SettingsSettle
<1>12. changes' # changes
  BY <1>0, <1>1
<1> QED BY <1>10, <1>11, <1>12 DEF SettingsIInv, Keeps

LEMMA SettingsBegin ==
  ASSUME SettingsBase, SettingsInit
  PROVE  SettingsIInv
<1>1. PICK seed \in {"none", "seeded"} :
        conf = [notify |-> "none", effort |-> "none", limits |-> [k \in Limits |-> seed],
                env |-> "none", shell |-> "none", threads |-> "none",
                table |-> Absent, block |-> Absent, mcp |-> {}, shared |-> FALSE,
                server |-> "none", trust |-> "none"]
  BY DEF SettingsInit
<1> DEFINE limits == [k \in Limits |-> seed]
           none == "none"
           no == FALSE
<1>2. limits \in [Limits -> LimitValues] /\ Absent \in Lines /\ no \in BOOLEAN
  BY DEF LimitValues, Absent, Lines
<1>3. conf = [notify |-> none, effort |-> none, limits |-> limits, env |-> none, shell |-> none, threads |-> none,
              table |-> Absent, block |-> Absent, mcp |-> {}, shared |-> no, server |-> none, trust |-> none]
  BY <1>1
<1>4. none \in {"none", "mine", "owx", "wrapped"} /\ none \in {"none", "medium", "mine"} /\ none \in {"none", "mine"}
      /\ none \in {"none", "zero", "mine"} /\ none \in {"none", "six", "mine"}
      /\ none \in {"none", "plain", "launcher", "timed"}
  OBVIOUS
<1> HIDE DEF limits, none, no
<1>5. conf \in Confs /\ conf.table = Absent /\ conf.block = Absent
  BY <1>2, <1>3, <1>4 DEF Confs
<1>6. SettingsShape
  <2>1. compat \in BOOLEAN /\ last.command = "none" /\ half = NoChoice /\ half \in Orders
    BY OrdersShape DEF SettingsInit
  <2>2. commands \in 0..MaxCommands /\ changes \in 0..MaxChanges
    BY DEF SettingsInit, SettingsBase
  <2> QED BY <1>5, <2>1, <2>2 DEF SettingsShape
<1>7. TableBeside /\ SettingsSettle
  BY <1>5, OrdersShape DEF SettingsInit, TableBeside, SettingsSettle
<1> QED BY <1>6, <1>7 DEF SettingsIInv

LEMMA SettingsStep ==
  ASSUME SettingsBase, SettingsIInv, [SettingsNext]_settingsVars
  PROVE  SettingsIInv' /\ [Keeps]_settingsVars
<1>1. ASSUME NEW o \in Choices, LegacySetup(o)
      PROVE  SettingsIInv' /\ [Keeps]_settingsVars
  BY <1>1, LegacySetupKept
<1>2. ASSUME NEW o \in Choices, PluginCleans(o)
      PROVE  SettingsIInv' /\ [Keeps]_settingsVars
  BY <1>2, PluginCleansKept
<1>3. CASE PluginApplies
  BY <1>3, PluginAppliesKept
<1>4. CASE PluginIsCut
  BY <1>4, PluginIsCutKept
<1>5. CASE Uninstalls
  BY <1>5, UninstallsKept
<1>6. CASE Launch
  BY <1>6, LaunchKept
<1>7. CASE Change
  BY <1>7, ChangeKept
<1>8. CASE UNCHANGED settingsVars
  <2>1. SettingsIInv'
    BY <1>8 DEF settingsVars, SettingsIInv, SettingsShape, TableBeside, SettingsSettle
  <2> QED BY <1>8, <2>1
<1> QED BY <1>1, <1>2, <1>3, <1>4, <1>5, <1>6, <1>7, <1>8 DEF SettingsNext

(***************************************************************************)
(* After every setup Codex can parse config.toml, no table standing twice, *)
(* and the same setup would write the same settings again; and the config  *)
(* has its types at every step of setup, uninstall, launch and the user.   *)
(***************************************************************************)
THEOREM SettingsSettled ==
  ASSUME SettingsBase
  PROVE  SettingsSpec => [](SettingsTypeOK /\ SettingsSettle)
<1>1. SettingsInit => SettingsIInv
  BY SettingsBegin
<1>2. SettingsIInv /\ [SettingsNext]_settingsVars => SettingsIInv'
  BY SettingsStep
<1>3. SettingsIInv => SettingsTypeOK /\ SettingsSettle
  BY ConfTypes DEF SettingsIInv
<1> QED BY <1>1, <1>2, <1>3, PTL DEF SettingsSpec

(***************************************************************************)
(* No rewrite of config.toml loses what the user wrote, but for what       *)
(* uninstall, the plugin mode and a launch are known to take out.          *)
(***************************************************************************)
THEOREM SettingsAreKept ==
  ASSUME SettingsBase
  PROVE  SettingsSpec => SettingsKept
<1>1. SettingsInit => SettingsIInv
  BY SettingsBegin
<1>2. SettingsIInv /\ [SettingsNext]_settingsVars => SettingsIInv' /\ [Keeps]_settingsVars
  BY SettingsStep
<1>3. SettingsSpec => [][Keeps]_settingsVars
  BY <1>1, <1>2, PTL DEF SettingsSpec
<1> QED BY <1>3 DEF SettingsKept, Keeps

-----------------------------------------------------------------------------
(* The shape of the planning state.                                        *)

(* A run drafts no more often than its bound allows; each draft has one    *)
(* review of the architect's and one of the critic's at most.              *)
Verdicts == {"approve", "iterate"}
Runs == [pc : {"draft", "architect", "critic"} \cup Ended, natives : BOOLEAN,
         architects : Seq(Verdicts), critics : Seq(Verdicts), lane : Someone]
RunShape ==
  /\ run \in Runs
  /\ Len(run.critics) <= Len(run.architects) /\ Len(run.architects) <= MaxIterations
  /\ run.pc # "critic" => Len(run.architects) < MaxIterations
  /\ run.pc = "critic" => Len(run.critics) < Len(run.architects)

PlanShape ==
  /\ ral \in [file : File, evidence : Evidence]
  /\ auto \in File
  /\ pipe \in [pc : Stage \cup Ended, cycle : 0..MaxCycles, handed : Evidence]

(* Plans are drafted at least once, and reviews are those of threads.      *)
PlanningBase ==
  /\ MaxIterations \in Nat \ {0} /\ MaxCycles \in Nat
  /\ Claims \subseteq Evidence

LEMMA EndedRun ==
  ASSUME MaxIterations \in Nat \ {0}, NEW how \in Ended, EndRun(how)
  PROVE  RunShape'
<1>1. run' = [pc |-> how, natives |-> FALSE, architects |-> <<>>, critics |-> <<>>, lane |-> Nobody]
  BY DEF EndRun, NoRun
<1>2. <<>> \in Seq(Verdicts) /\ Len(<<>>) = 0 /\ how # "critic"
  BY DEF Ended
<1> QED BY <1>1, <1>2 DEF RunShape, Runs, Someone

LEMMA OverShape ==
  ASSUME NEW r \in [file : File, evidence : Evidence], NEW e \in Evidence
  PROVE  /\ Over(r, e) \in [file : File, evidence : Evidence]
         /\ Updated(r, e) \in [file : File, evidence : Evidence]
BY DEF Over, Updated, File

LEMMA NoneShape == None \in Evidence
BY DEF None, Evidence, Someone

LEMMA NextDraftKept ==
  ASSUME PlanningBase, PlanShape, NEW r \in Runs, Len(r.critics) <= Len(r.architects),
         NextDraft(r)
  PROVE  RunShape' /\ ral' \in [file : File, evidence : Evidence]
<1>1. ral' \in [file : File, evidence : Evidence]
  BY OverShape, NoneShape DEF NextDraft, PlanShape
<1>2. CASE Exhausted(r)
  BY <1>1, <1>2, EndedRun DEF NextDraft, PlanningBase, Ended
<1>3. CASE ~Exhausted(r)
  <2>1. /\ run' \in Runs /\ run'.pc = "draft"
        /\ run'.architects = r.architects /\ run'.critics = r.critics
    BY <1>3 DEF NextDraft, Runs
  <2>2. Len(r.architects) \in Nat /\ Len(r.critics) \in Nat /\ ~(Len(r.architects) >= MaxIterations)
    BY <1>3 DEF Exhausted, Runs
  <2> QED BY <1>1, <2>1, <2>2 DEF RunShape, PlanningBase
<1> QED BY <1>2, <1>3

LEMMA RunStepKept ==
  ASSUME PlanningBase, PlanShape, RunShape, RunStep
  PROVE  RunShape' /\ PlanShape'
<1> USE DEF PlanningBase
<1>1. ASSUME LoseRun PROVE RunShape' /\ PlanShape'
  BY <1>1, EndedRun DEF LoseRun, PlanShape, Ended
<1>2. ASSUME RunThrows PROVE RunShape' /\ PlanShape'
  BY <1>2, EndedRun, OverShape, NoneShape DEF RunThrows, PlanShape, Ended
<1>3. ASSUME Draft PROVE RunShape' /\ PlanShape'
  <2>1. ral' \in [file : File, evidence : Evidence] /\ UNCHANGED <<auto, pipe>>
    BY <1>3, OverShape, NoneShape DEF Draft, PlanShape
  <2>2. /\ run' \in Runs /\ run'.pc = "architect" /\ run.pc = "draft"
        /\ run'.architects = run.architects /\ run'.critics = run.critics
    BY <1>3 DEF Draft, RunShape, Runs
  <2> QED BY <2>1, <2>2 DEF RunShape, PlanShape
<1>4. ASSUME NEW v \in Verdicts, NEW t \in Someone, ArchitectReview(v, t)
      PROVE  RunShape' /\ PlanShape'
  <2> DEFINE r == [run EXCEPT !.architects = Append(@, v), !.lane = t]
  <2>1. /\ run.pc = "architect"
        /\ Append(run.architects, v) \in Seq(Verdicts)
        /\ Len(Append(run.architects, v)) = Len(run.architects) + 1
        /\ Len(run.architects) \in Nat /\ Len(run.critics) \in Nat
    BY <1>4 DEF RunShape, Runs, ArchitectReview
  <2>2. r \in Runs /\ r.architects = Append(run.architects, v) /\ r.critics = run.critics
    <3> DEFINE a == Append(run.architects, v)
    <3>1. r = [run EXCEPT !.architects = a, !.lane = t] /\ a \in Seq(Verdicts)
      BY <2>1
    <3> HIDE DEF r, a
    <3>2. r \in Runs /\ r.architects = a /\ r.critics = run.critics
      BY <3>1 DEF RunShape, Runs
    <3> QED BY <3>2 DEF a
  <2>3. /\ IF v = "approve"
           THEN run' = [r EXCEPT !.pc = "critic"] /\ ral' = Updated(ral, None)
           ELSE NextDraft(r)
        /\ UNCHANGED <<auto, pipe>>
    BY <1>4 DEF ArchitectReview
  <2> HIDE DEF r
  <2>4. CASE v = "approve"
    <3>1. /\ run' \in Runs /\ run'.pc = "critic"
          /\ run'.architects = Append(run.architects, v) /\ run'.critics = run.critics
      BY <2>2, <2>3, <2>4 DEF Runs
    <3>2. ral' \in [file : File, evidence : Evidence]
      BY <2>3, <2>4, OverShape, NoneShape DEF PlanShape
    <3>3. RunShape'
      BY <2>1, <2>2, <3>1 DEF RunShape
    <3> QED BY <2>3, <3>2, <3>3 DEF PlanShape
  <2>5. CASE v # "approve"
    <3>1. Len(r.critics) <= Len(r.architects)
      BY <2>1, <2>2 DEF RunShape
    <3>2. RunShape' /\ ral' \in [file : File, evidence : Evidence]
      BY <2>2, <2>3, <2>5, <3>1, NextDraftKept
    <3> QED BY <2>3, <3>2 DEF PlanShape
  <2> QED BY <2>4, <2>5
<1>5. ASSUME NEW v \in Verdicts, NEW t \in Someone, NEW plans \in BOOLEAN, CriticReview(v, t, plans)
      PROVE  RunShape' /\ PlanShape'
  <2> DEFINE r == [run EXCEPT !.critics = Append(@, v)]
             e == [architect |-> run.lane, critic |-> t]
  <2>1. /\ run.pc = "critic"
        /\ Append(run.critics, v) \in Seq(Verdicts)
        /\ Len(Append(run.critics, v)) = Len(run.critics) + 1
        /\ Len(run.architects) \in Nat /\ Len(run.critics) \in Nat
    BY <1>5 DEF RunShape, Runs, CriticReview
  <2>2. r \in Runs /\ r.critics = Append(run.critics, v) /\ r.architects = run.architects
    <3> DEFINE c == Append(run.critics, v)
    <3>1. r = [run EXCEPT !.critics = c] /\ c \in Seq(Verdicts)
      BY <2>1
    <3> HIDE DEF r, c
    <3>2. r \in Runs /\ r.critics = c /\ r.architects = run.architects
      BY <3>1 DEF RunShape, Runs
    <3> QED BY <3>2 DEF c
  <2>3. /\ \/ NextDraft(r)
           \/ EndRun("failed") /\ ral' = Over(ral, None)
           \/ EndRun(IF plans THEN "completed" ELSE "failed") /\ ral' = Over(ral, e)
        /\ UNCHANGED <<auto, pipe>>
    BY <1>5 DEF CriticReview
  <2>e. e \in Evidence
    BY DEF RunShape, Runs, Evidence
  <2> HIDE DEF r, e
  <2>4. CASE NextDraft(r)
    <3>1. Len(r.critics) <= Len(r.architects)
      BY <2>1, <2>2 DEF RunShape
    <3>2. RunShape' /\ ral' \in [file : File, evidence : Evidence]
      BY <2>2, <2>4, <3>1, NextDraftKept
    <3> QED BY <2>3, <3>2 DEF PlanShape
  <2>5. CASE EndRun("failed") /\ ral' = Over(ral, None)
    BY <2>3, <2>5, EndedRun, OverShape, NoneShape DEF PlanShape, Ended
  <2>6. CASE EndRun(IF plans THEN "completed" ELSE "failed") /\ ral' = Over(ral, e)
    BY <2>3, <2>6, <2>e, EndedRun, OverShape DEF PlanShape, Ended
  <2> QED BY <2>3, <2>4, <2>5, <2>6
<1>6. \A e \in Claims : e.architect \in Someone /\ e.critic \in Someone
  BY DEF Evidence
<1> QED BY <1>1, <1>2, <1>3, <1>4, <1>5, <1>6 DEF RunStep, Verdicts

LEMMA PipeStepKept ==
  ASSUME PlanningBase, PlanShape, RunShape, PipeStep
  PROVE  RunShape' /\ PlanShape'
<1> USE DEF PlanningBase
<1>1. UNCHANGED <<ral, run>>
  BY DEF PipeStep, PassiveStage, LosePipe, RalplanStage, QualityGate
<1>2. RunShape'
  BY <1>1 DEF RunShape
<1> DEFINE Pipes == [pc : Stage \cup Ended, cycle : 0..MaxCycles, handed : Evidence]
<1>3. ASSUME NEW how \in Ended PROVE EndPipe(how) => pipe' \in Pipes /\ auto' \in File
  BY <1>3, NoneShape DEF EndPipe, NoPipe, File
<1>4. ASSUME PassiveStage PROVE pipe' \in Pipes /\ auto' \in File
  BY <1>4, StageOrder DEF PassiveStage, PlanShape
<1>5. ASSUME LosePipe PROVE pipe' \in Pipes /\ auto' \in File
  BY <1>5, NoneShape DEF LosePipe, NoPipe, PlanShape, Ended
<1>6. ASSUME NEW ok \in BOOLEAN, RalplanStage(ok) PROVE pipe' \in Pipes /\ auto' \in File
  <2>1. Consensus \in Evidence
    BY NoneShape DEF Consensus, PlanShape
  <2> QED BY <1>3, <1>6, <2>1, StageOrder DEF RalplanStage, PlanShape, Ended
<1>7. ASSUME NEW ok \in BOOLEAN, QualityGate(ok) PROVE pipe' \in Pipes /\ auto' \in File
  <2>1. /\ pipe.pc \in {"code-review", "ultraqa"}
        /\ \/ EndPipe("completed") \/ EndPipe("failed")
           \/ pipe.pc = "code-review" /\ pipe' = [pipe EXCEPT !.pc = NextStage] /\ UNCHANGED auto
           \/ /\ ~(pipe.cycle + 1 >= MaxCycles)
              /\ pipe' = [pc |-> "ralplan", cycle |-> pipe.cycle + 1, handed |-> pipe.handed]
              /\ UNCHANGED auto
    BY <1>7 DEF QualityGate, CycleAfter, PlanShape
  <2> QED BY <1>3, <2>1, StageOrder DEF PlanShape, Ended
<1> QED BY <1>1, <1>2, <1>4, <1>5, <1>6, <1>7 DEF PipeStep, PlanShape

LEMMA OthersKept ==
  ASSUME PlanningBase, PlanShape, RunShape, Others
  PROVE  RunShape' /\ PlanShape'
<1> USE DEF PlanningBase
<1>1. ASSUME StartPipeline PROVE RunShape' /\ PlanShape'
  <2>1. pipe' = [pc |-> "deep-interview", cycle |-> 0, handed |-> None]
    BY <1>1 DEF StartPipeline, NoPipe, Stages
  <2>2. ral' \in [file : File, evidence : Evidence] /\ auto' \in File /\ UNCHANGED run
    BY <1>1 DEF StartPipeline, PlanShape, File
  <2> QED BY <2>1, <2>2, StageOrder, NoneShape DEF PlanShape, RunShape
<1>2. ASSUME NEW natives \in BOOLEAN, StartRun(natives) PROVE RunShape' /\ PlanShape'
  <2>1. run' = [pc |-> "draft", natives |-> natives, architects |-> <<>>, critics |-> <<>>,
                lane |-> Nobody]
    BY <1>2 DEF StartRun, NoRun
  <2>2. RunShape'
    BY <2>1 DEF RunShape, Runs, Someone
  <2> QED BY <1>2, <2>2, NoneShape DEF StartRun, PlanShape, File
<1>3. ASSUME NEW e \in Claims, RecordReviews(e) PROVE RunShape' /\ PlanShape'
  BY <1>3 DEF RecordReviews, PlanShape, RunShape, File
<1>4. ASSUME NEW mode \in {"ralplan", "autopilot"}, Cancel(mode) \/ Clear(mode)
      PROVE  RunShape' /\ PlanShape'
  BY <1>4, NoneShape DEF Cancel, Clear, PlanShape, RunShape, File
<1> QED BY <1>1, <1>2, <1>3, <1>4 DEF Others

(* No plan is drafted more often than allowed, no critic reviews more often *)
(* than the architect, and the returns of a pipeline stay within their bound *)
(* (src/ralplan/runtime.ts, src/pipeline/orchestrator.ts).                 *)
LEMMA PlanningTypes ==
  ASSUME PlanningBase
  PROVE  PlanningInit /\ [][PlanningNext]_<<lanes, planning>> => []PlanningTypeOK
<1>1. PlanningInit => RunShape /\ PlanShape
  BY NoneShape DEF PlanningInit, PlanningBase, NoRun, NoPipe, RunShape, Runs, PlanShape, File, Ended, Someone
<1>2. RunShape /\ PlanShape /\ [PlanningNext]_<<lanes, planning>> => RunShape' /\ PlanShape'
  BY RunStepKept, PipeStepKept, OthersKept DEF PlanningNext, planning, RunShape, PlanShape
<1>3. RunShape /\ PlanShape => PlanningTypeOK
  BY DEF RunShape, Runs, PlanShape, PlanningTypeOK
<1> QED BY <1>1, <1>2, <1>3, PTL
=============================================================================
