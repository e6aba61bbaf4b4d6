------------------------------- MODULE Planning -------------------------------
(***************************************************************************)
(* Planning by consensus and the autopilot pipeline that rests on it: the  *)
(* ralplan runtime (src/ralplan/runtime.ts), the evidence of a consensus   *)
(* (src/ralplan/consensus-gate.ts) checked against the subagent tracker,   *)
(* and runPipeline with its stages (src/pipeline/).  A run of the runtime, *)
(* a run of the pipeline, the ralplan skill, the hooks that feed the       *)
(* tracker and a user who cancels or clears a mode interleave freely.  A   *)
(* stage, from its start to the write of its result, is one step.          *)
(***************************************************************************)
EXTENDS LaneRegistry, Naturals, Sequences

CONSTANTS
  Native,         \* the native session of session.json
  Claims,         \* the pairs of reviews the model may record
  MaxIterations,  \* ralplan: drafts before it gives up (5 by default)
  MaxCycles       \* pipeline: returns to ralplan before it fails (10 by default)

VARIABLES
  ral,   \* ralplan-state.json
  run,   \* the run of runRalplanConsensus
  auto,  \* autopilot-state.json
  pipe   \* the run of runPipeline

planning == <<ral, run, auto, pipe>>

None == [architect |-> Nobody, critic |-> Nobody]
Evidence == [architect : Someone, critic : Someone]
File == {"absent", "active", "over"}
Stages == <<"deep-interview", "ralplan", "ultragoal", "code-review", "ultraqa">>
Stage == {Stages[i] : i \in 1..5}
Ended == {"idle", "completed", "failed", "missing"}
NoRun == [pc |-> "idle", natives |-> FALSE,
          architects |-> <<>>, critics |-> <<>>, lane |-> Nobody]
NoPipe == [pc |-> "idle", cycle |-> 0, handed |-> None]

PlanningInit ==
  /\ ral = [file |-> "absent", evidence |-> None]
  /\ run = NoRun
  /\ auto = "absent"
  /\ pipe = NoPipe

-----------------------------------------------------------------------------
(* Two reviews count as those of native lanes only if the tracker knows    *)
(* two different subagents in the two roles under an established leader.   *)
(* Fault: any recorded thread will do.                                     *)
BackedFault(e) == \A t \in {e.architect, e.critic} : t \in Threads /\ lane[t] # "none"

Backed(e) ==
  /\ {e.architect, e.critic} \subseteq Threads /\ e.architect # e.critic
  /\ {e.architect, e.critic} \cap {leader, Native} = {}
  /\ lane[e.architect] = "architect" /\ lane[e.critic] = "critic"
  /\ leader # Nobody /\ lane[leader] = "leader"

(* buildRalplanConsensusGate: the last reviews of both lanes approve, and  *)
(* the lanes have reviewed equally often.                                  *)
Approves(reviews) == reviews # <<>> /\ reviews[Len(reviews)] = "approve"
SequentialApproval(r) ==
  /\ Approves(r.architects) /\ Approves(r.critics)
  /\ Len(r.architects) = Len(r.critics)

(* updateModeState merges into the file that is there.                     *)
Over(r, e) == IF r.file = "absent" THEN r ELSE [file |-> "over", evidence |-> e]
Updated(r, e) == IF r.file = "absent" THEN r ELSE [r EXCEPT !.evidence = e]

EndRun(how) == run' = [NoRun EXCEPT !.pc = how]

-----------------------------------------------------------------------------
(* startMode denies the way back from autopilot to planning.               *)
StartRun(natives) ==
  /\ run.pc \in Ended /\ ral.file # "active" /\ auto # "active"
  /\ ral' = [file |-> "active", evidence |-> None]
  /\ run' = [NoRun EXCEPT !.pc = "draft", !.natives = natives]
  /\ UNCHANGED <<auto, pipe>>

(* A write to a state file that was cleared throws, in the catch as well.  *)
LoseRun ==
  /\ run.pc \notin Ended /\ ral.file = "absent"
  /\ EndRun("missing")
  /\ UNCHANGED <<ral, auto, pipe>>

Draft ==
  /\ run.pc = "draft" /\ ral.file # "absent"
  /\ run' = [run EXCEPT !.pc = "architect"]
  /\ ral' = Updated(ral, None)
  /\ UNCHANGED <<auto, pipe>>

(* Fault: one draft more than allowed.                                     *)
ExhaustedFault(r) == Len(r.architects) > MaxIterations

Exhausted(r) == Len(r.architects) >= MaxIterations

(* The next draft, or the end of the patience.                             *)
NextDraft(r) ==
  IF Exhausted(r)
  THEN /\ EndRun("failed")
       /\ ral' = Over(ral, None)
  ELSE /\ run' = [r EXCEPT !.pc = "draft"]
       /\ ral' = Updated(ral, None)

ArchitectReview(verdict, t) ==
  LET r == [run EXCEPT !.architects = Append(@, verdict), !.lane = t] IN
  /\ run.pc = "architect" /\ ral.file # "absent"
  /\ IF verdict = "approve"
     THEN run' = [r EXCEPT !.pc = "critic"] /\ ral' = Updated(ral, None)
     ELSE NextDraft(r)
  /\ UNCHANGED <<auto, pipe>>

(* plans: are a PRD and its test spec in .owx/plans when it looks?         *)
CriticReview(verdict, t, plans) ==
  LET r == [run EXCEPT !.critics = Append(@, verdict)]
      e == [architect |-> run.lane, critic |-> t] IN
  /\ run.pc = "critic" /\ ral.file # "absent"
  /\ CASE ~SequentialApproval(r) -> NextDraft(r)
       [] SequentialApproval(r) /\ r.natives /\ ~Backed(e) ->
            EndRun("failed") /\ ral' = Over(ral, None)
       [] OTHER ->
            /\ EndRun(IF plans THEN "completed" ELSE "failed")
            /\ ral' = Over(ral, e)
  /\ UNCHANGED <<auto, pipe>>

(* The executor throws, or a review comes from the wrong role.             *)
RunThrows ==
  /\ run.pc \notin Ended /\ ral.file # "absent"
  /\ EndRun("failed")
  /\ ral' = Over(ral, None)
  /\ UNCHANGED <<auto, pipe>>

(* The ralplan skill: the model records reviews with state_write.          *)
RecordReviews(e) ==
  /\ run.pc \in Ended
  /\ ral' = [file |-> IF ral.file = "absent" THEN "active" ELSE ral.file, evidence |-> e]
  /\ UNCHANGED <<run, auto, pipe>>

Cancel(mode) ==
  /\ \/ /\ mode = "ralplan" /\ ral.file = "active"
        /\ ral' = [ral EXCEPT !.file = "over"] /\ UNCHANGED auto
     \/ /\ mode = "autopilot" /\ auto = "active"
        /\ auto' = "over" /\ UNCHANGED ral
  /\ UNCHANGED <<run, pipe>>

Clear(mode) ==
  /\ \/ /\ mode = "ralplan" /\ ral.file # "absent"
        /\ ral' = [file |-> "absent", evidence |-> None] /\ UNCHANGED auto
     \/ /\ mode = "autopilot" /\ auto # "absent"
        /\ auto' = "absent" /\ UNCHANGED ral
  /\ UNCHANGED <<run, pipe>>

-----------------------------------------------------------------------------
(* startMode("autopilot") completes an active ralplan.                     *)
StartPipeline ==
  /\ pipe.pc \in Ended
  /\ auto' = "active"
  /\ ral' = IF ral.file = "active" THEN [ral EXCEPT !.file = "over"] ELSE ral
  /\ pipe' = [NoPipe EXCEPT !.pc = Stages[1]]
  /\ UNCHANGED <<run>>

EndPipe(how) == auto' = "over" /\ pipe' = [NoPipe EXCEPT !.pc = how]

NextStage ==
  LET i == CHOOSE i \in 1..5 : Stages[i] = pipe.pc IN Stages[i + 1]

(* The first backed evidence: what the pipeline was handed in an earlier   *)
(* cycle, then the file.                                                   *)
Consensus == IF Backed(pipe.handed) THEN pipe.handed
             ELSE IF Backed(ral.evidence) THEN ral.evidence ELSE None

(* Skipped or run as an adapter, the stage hands on the evidence or fails. *)
(* ready: the plan files are there, and no tool answer has said that there *)
(* are no subagents.                                                       *)
RalplanStage(ready) ==
  /\ pipe.pc = "ralplan" /\ auto # "absent"
  /\ IF ready /\ Consensus # None
     THEN /\ pipe' = [pipe EXCEPT !.pc = "ultragoal", !.handed = Consensus]
          /\ UNCHANGED auto
     ELSE EndPipe("failed")
  /\ UNCHANGED <<ral, run>>

(* The interview and the execution hand an instruction on.                 *)
PassiveStage ==
  /\ pipe.pc \in {"deep-interview", "ultragoal"} /\ auto # "absent"
  /\ pipe' = [pipe EXCEPT !.pc = NextStage]
  /\ UNCHANGED <<ral, run, auto>>

(* A verdict that is not clean goes back to ralplan, a bounded number of   *)
(* times, whichever gate gave it.                                          *)
(* Fault: only the code review's returns are counted.                      *)
CycleAfter(stage) == pipe.cycle + 1

QualityGate(clean) ==
  LET p == [pipe EXCEPT !.cycle = CycleAfter(pipe.pc)] IN
  /\ pipe.pc \in {"code-review", "ultraqa"} /\ auto # "absent"
  /\ IF clean
     THEN IF pipe.pc = "ultraqa"
          THEN EndPipe("completed")
          ELSE pipe' = [pipe EXCEPT !.pc = NextStage] /\ UNCHANGED auto
     ELSE IF p.cycle >= MaxCycles
          THEN EndPipe("failed")
          ELSE pipe' = [p EXCEPT !.pc = "ralplan"] /\ UNCHANGED auto
  /\ UNCHANGED <<ral, run>>

LosePipe ==
  /\ pipe.pc \notin Ended /\ auto = "absent"
  /\ pipe' = [NoPipe EXCEPT !.pc = "missing"]
  /\ UNCHANGED <<ral, run, auto>>

-----------------------------------------------------------------------------
RunStep ==
  \/ LoseRun \/ RunThrows \/ Draft
  \/ \E v \in {"approve", "iterate"}, e \in Claims :
       \/ ArchitectReview(v, e.architect)
       \/ \E plans \in BOOLEAN : CriticReview(v, e.critic, plans)

PipeStep ==
  \/ PassiveStage \/ LosePipe
  \/ \E ok \in BOOLEAN : RalplanStage(ok) \/ QualityGate(ok)

Others ==
  \/ StartPipeline
  \/ \E natives \in BOOLEAN : StartRun(natives)
  \/ \E e \in Claims : RecordReviews(e)
  \/ \E mode \in {"ralplan", "autopilot"} : Cancel(mode) \/ Clear(mode)

PlanningNext ==
  \/ (RunStep \/ PipeStep \/ Others) /\ UNCHANGED lanes
  \/ LaneStep /\ lanes' # lanes /\ UNCHANGED planning

(* Runs and pipelines are processes that go on by themselves.              *)
PlanningFairness ==
  /\ WF_<<lanes, planning>>(RunStep /\ UNCHANGED lanes)
  /\ WF_<<lanes, planning>>(PipeStep /\ UNCHANGED lanes)

-----------------------------------------------------------------------------
(* Every part of the planning state has its shape.                         *)
PlanningTypeOK ==
  /\ ral \in [file : File, evidence : Evidence]
  /\ auto \in File
  /\ run.pc \in {"draft", "architect", "critic"} \cup Ended
  /\ Len(run.critics) \leq Len(run.architects) /\ Len(run.architects) \leq MaxIterations
  /\ pipe \in [pc : Stage \cup Ended, cycle : 0..MaxCycles, handed : Evidence]

(* "Do not hand off to execution until durable Architect approval followed *)
(* by Critic approval": past ralplan, the pipeline holds the approvals of  *)
(* two different subagents, and neither is the thread that leads, however  *)
(* hooks, reviews, cancels and returns to ralplan interleave.              *)
LanesIndependent ==
  pipe.pc \in {"ultragoal", "code-review", "ultraqa"} =>
    /\ pipe.handed.architect # pipe.handed.critic
    /\ \A t \in {pipe.handed.architect, pipe.handed.critic} : t # leader /\ lane[t] \in Roles
    /\ leader # Nobody

(* A plan whose Architect and then Critic approve is the end of the loop   *)
(* (skills/plan/SKILL.md: "Repeat until Critic approves OR max 5           *)
(* iterations reached").                                                   *)
ApprovalEndsLoop ==
  [][(run.pc = "critic" /\ run'.pc = "draft") => ~Approves(run'.critics)]_<<lanes, planning>>

(* Every run of the runtime and every pipeline ends.                       *)
RunEnds == (run.pc \notin Ended) ~> (run.pc \in Ended)
PipeEnds == (pipe.pc \notin Ended) ~> (pipe.pc \in Ended)

PlanningSpec == PlanningInit /\ LaneInit /\ [][PlanningNext]_<<lanes, planning>> /\ PlanningFairness
=============================================================================
