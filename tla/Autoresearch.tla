---------------------------- MODULE Autoresearch ----------------------------
(***************************************************************************)
(* The autoresearch runtime, src/autoresearch/runtime.ts: one run of a     *)
(* mission.  The supervisor prepares or resumes the run, an agent session  *)
(* works in the worktree and leaves a candidate artifact, the supervisor   *)
(* judges it with the mission's evaluator and keeps or resets it.  The run *)
(* lives in a manifest and a ledger; a mode file and a lock file say that  *)
(* it is active.  Outside of a session the two are one file.               *)
(*                                                                         *)
(* The supervisor works on a manifest in memory, may die between any two   *)
(* writes, and may be stopped by the operator from another process.  The   *)
(* worktree is the sequence of commits up to HEAD.  What the agent and the *)
(* evaluator do is free.                                                   *)
(***************************************************************************)
EXTENDS Integers, Sequences, SequencesExt

CONSTANTS
  KeepPolicy,       \* "score_improvement" or "pass_only"
  MaxScore,         \* scores are 1..MaxScore, 0 when the evaluator gives none
  MaxIterations,    \* bound on the iterations of the run
  MaxCommits        \* bound on the commits made in the worktree

VARIABLES
  session,    \* whether the commands run in a session
  work,       \* the worktree: commits from the baseline to HEAD, whether it is
              \* dirty, and how many commits were ever made in it
  candidate,  \* the candidate artifact, while the supervisor validates it
  manifest,   \* the manifest on disk
  memory,     \* the manifest in the supervisor's memory
  ledger,     \* the evaluated iterations in the ledger
  active,     \* the active flags of the mode file and of the lock file
  pc,         \* the supervisor's next write
  stop        \* the operator's next write

runVars == <<session, work, candidate, manifest, memory, ledger, active, pc, stop>>

Baseline == 0
HeadOf(w) == Last(w.commits)
\* assertResetSafeWorktree
Clean(w) == ~w.dirty
Terminal == {"stopped", "failed"}
NoManifest == [status |-> "none", iteration |-> 0, kept |-> Baseline, score |-> 0]
NoCandidate == [status |-> "noop", commit |-> Baseline, base |-> Baseline]

\* The files say active: outside of a session the mode file is the lock file.
\* startMode writes the mode file anew, without the run id the lock looks for.
ModeStarted == active' = [mode |-> TRUE, lock |-> session /\ active.lock]
ModeEnded == active' = [mode |-> FALSE, lock |-> session /\ active.lock]
LockSet(on) == active' = [mode |-> IF session THEN active.mode ELSE on, lock |-> on]

\* prepareAutoresearchRuntime: no active run, a clean worktree, a new manifest.
Prepare ==
  /\ pc = "none" /\ manifest = NoManifest
  /\ ~active.lock /\ Clean(work)
  /\ memory' = [NoManifest EXCEPT !.status = "running", !.kept = HeadOf(work)]
  /\ manifest' = memory'
  /\ pc' = IF active.mode THEN "none" ELSE "start"
  /\ UNCHANGED <<session, work, candidate, ledger, active, stop>>

\* resumeAutoresearchRuntime: only a running manifest, from its file.
Resume ==
  /\ pc = "none" /\ manifest.status = "running"
  /\ ~active.lock /\ Clean(work)
  /\ memory' = manifest
  /\ pc' = "restart"
  /\ UNCHANGED <<session, work, candidate, manifest, ledger, active, stop>>

StartMode ==
  /\ pc \in {"start", "restart"}
  /\ ModeStarted
  /\ pc' = IF pc = "start" THEN "activate" ELSE "reactivate"
  /\ UNCHANGED <<session, work, candidate, manifest, memory, ledger, stop>>

Activate ==
  /\ pc \in {"activate", "reactivate"}
  /\ LockSet(TRUE)
  /\ pc' = IF pc = "activate" THEN "baseline" ELSE "ready"
  /\ UNCHANGED <<session, work, candidate, manifest, memory, ledger, stop>>

Results == {[status |-> "error", score |-> 0]} \cup [status : {"pass", "fail"}, score : 0..MaxScore]

\* seedBaseline: the first score is the baseline's, if it passes.
SeedBaseline(result) ==
  /\ pc = "baseline"
  /\ memory' = [memory EXCEPT !.score = IF result.status = "pass" THEN result.score ELSE 0]
  /\ pc' = "save"
  /\ UNCHANGED <<session, work, candidate, manifest, ledger, active, stop>>

\* The agent's session: commits, edits, and an artifact that may claim anything.
AgentCommits ==
  /\ pc = "ready" /\ work.made < MaxCommits
  /\ work' = [commits |-> Append(work.commits, work.made + 1), dirty |-> FALSE,
              made |-> work.made + 1]
  /\ UNCHANGED <<session, candidate, manifest, memory, ledger, active, pc, stop>>

AgentEdits ==
  /\ pc = "ready" /\ Clean(work)
  /\ work' = [work EXCEPT !.dirty = TRUE]
  /\ UNCHANGED <<session, candidate, manifest, memory, ledger, active, pc, stop>>

AgentReports(status, commit, base) ==
  /\ pc = "ready" /\ memory.iteration < MaxIterations
  /\ candidate' = [status |-> status, commit |-> commit, base |-> base]
  /\ memory' = [memory EXCEPT !.iteration = @ + 1]
  /\ pc' = "validate"
  /\ UNCHANGED <<session, work, manifest, ledger, active, stop>>

\* processAutoresearchCandidate: validateAutoresearchCandidate, then the
\* statuses that need no evaluation.
Valid ==
  /\ candidate.base = memory.kept
  /\ candidate.status = "candidate" => candidate.commit = HeadOf(work)

Ends(status) == memory' = [memory EXCEPT !.status = status] /\ pc' = "end"

Process ==
  /\ pc = "validate"
  /\ IF ~Valid THEN Ends("failed")
     ELSE CASE candidate.status = "abort" -> Ends("stopped")
            [] candidate.status = "interrupted" /\ ~Clean(work) -> Ends("failed")
            [] candidate.status = "candidate" -> pc' = "evaluate" /\ UNCHANGED memory
            [] OTHER -> pc' = "save" /\ UNCHANGED memory
  /\ candidate' = NoCandidate
  /\ UNCHANGED <<session, work, manifest, ledger, active, stop>>

\* Fault: an equal score is kept, and one with nothing to compare it with.
KeepsFault(result) == result.status = "pass" /\ result.score <= memory.score + 1

\* decideAutoresearchOutcome, for a candidate.
Keeps(result) ==
  /\ result.status = "pass"
  /\ \/ KeepPolicy = "pass_only"
     \/ memory.score > 0 /\ result.score > memory.score

\* The verdict and what it does to the worktree.  The reset refuses a dirty
\* worktree: the supervisor throws and leaves the run as it is.
Evaluate(result) ==
  /\ pc = "evaluate"
  /\ IF Keeps(result)
     THEN /\ memory' = [memory EXCEPT !.kept = HeadOf(work),
                                      !.score = IF result.score = 0 THEN @ ELSE result.score]
          /\ pc' = "log" /\ UNCHANGED work
     ELSE IF ~Clean(work)
     THEN pc' = "none" /\ memory' = NoManifest /\ UNCHANGED work
     ELSE /\ work' = [work EXCEPT !.commits = SubSeq(@, 1, SelectInSeq(@, LAMBDA c : c = memory.kept))]
          /\ pc' = "save" /\ UNCHANGED memory
  /\ UNCHANGED <<session, candidate, manifest, ledger, active, stop>>

\* recordAutoresearchIteration of a kept candidate, then the manifest's file.
LogKept ==
  /\ pc = "log"
  /\ ledger' = Append(ledger, [commit |-> memory.kept, score |-> memory.score])
  /\ pc' = "save"
  /\ UNCHANGED <<session, work, candidate, manifest, memory, active, stop>>

SaveManifest ==
  /\ pc = "save"
  /\ manifest' = memory
  /\ pc' = "ready"
  /\ UNCHANGED <<session, work, candidate, memory, ledger, active, stop>>

\* finalizeRun: the manifest, the mode file, the lock file, in this order; the
\* supervisor's from its memory, the operator's from the file.
EndManifest ==
  /\ pc = "end"
  /\ manifest' = memory
  /\ pc' = "end mode"
  /\ UNCHANGED <<session, work, candidate, memory, ledger, active, stop>>

EndMode ==
  /\ pc = "end mode"
  /\ ModeEnded
  /\ pc' = "end lock"
  /\ UNCHANGED <<session, work, candidate, manifest, memory, ledger, stop>>

EndLock ==
  /\ pc = "end lock"
  /\ LockSet(FALSE)
  /\ pc' = "none" /\ memory' = NoManifest
  /\ UNCHANGED <<session, work, candidate, manifest, ledger, stop>>

\* stopAutoresearchRuntime: nothing is done for a mode that is not active or a
\* manifest that is already terminal; without a run id the mode is cancelled.
StopRun ==
  /\ stop = "none" /\ active.mode
  /\ IF active.lock
     THEN /\ manifest.status = "running"
          /\ manifest' = [manifest EXCEPT !.status = "stopped"]
          /\ stop' = "mode" /\ UNCHANGED active
     ELSE ModeEnded /\ UNCHANGED <<manifest, stop>>
  /\ UNCHANGED <<session, work, candidate, memory, ledger, pc>>

StopMode ==
  /\ stop = "mode"
  /\ ModeEnded /\ stop' = "lock"
  /\ UNCHANGED <<session, work, candidate, manifest, memory, ledger, pc>>

StopLock ==
  /\ stop = "lock"
  /\ LockSet(FALSE) /\ stop' = "none"
  /\ UNCHANGED <<session, work, candidate, manifest, memory, ledger, pc>>

\* The supervisor dies; the person at the terminal may clean the worktree.
Dies ==
  /\ pc # "none"
  /\ pc' = "none" /\ memory' = NoManifest /\ candidate' = NoCandidate
  /\ UNCHANGED <<session, work, manifest, ledger, active, stop>>

CleanWorktree ==
  /\ pc = "none" /\ ~Clean(work)
  /\ work' = [work EXCEPT !.dirty = FALSE]
  /\ UNCHANGED <<session, candidate, manifest, memory, ledger, active, pc, stop>>

ResearchInit ==
  /\ session \in BOOLEAN
  /\ work = [commits |-> <<Baseline>>, dirty |-> FALSE, made |-> 0]
  /\ candidate = NoCandidate
  /\ manifest = NoManifest /\ memory = NoManifest
  /\ ledger = <<>>
  /\ active = [mode |-> FALSE, lock |-> FALSE]
  /\ pc = "none" /\ stop = "none"

ResearchNext ==
  \/ Prepare \/ Resume \/ StartMode \/ Activate
  \/ \E result \in Results : SeedBaseline(result) \/ Evaluate(result)
  \/ AgentCommits \/ AgentEdits
  \/ \E status \in {"candidate", "noop", "abort", "interrupted"},
        commit, base \in {HeadOf(work), memory.kept, Baseline} :
       AgentReports(status, commit, base)
  \/ Process \/ LogKept \/ SaveManifest
  \/ EndManifest \/ EndMode \/ EndLock
  \/ StopRun \/ StopMode \/ StopLock
  \/ Dies \/ CleanWorktree

ResearchSpec == ResearchInit /\ [][ResearchNext]_runVars

-----------------------------------------------------------------------------
ResearchTypeOK ==
  /\ session \in BOOLEAN
  /\ work.commits \in Seq(0..MaxCommits) /\ work.dirty \in BOOLEAN
  /\ \A m \in {manifest, memory} :
       /\ m.status \in {"none", "running"} \cup Terminal
       /\ m.iteration \in 0..MaxIterations /\ m.kept \in 0..MaxCommits /\ m.score \in 0..MaxScore
  /\ active \in [mode : BOOLEAN, lock : BOOLEAN]

(***************************************************************************)
(* The commit the run keeps is never lost and never taken on trust: it is  *)
(* in the worktree's history, and, once it is not the baseline, the ledger *)
(* has the iteration that kept it (the ledger is written before the        *)
(* manifest, runtime.ts:1272-1289), for every order of deaths, resumes,    *)
(* stops and false claims of the agent.                                    *)
(***************************************************************************)
KeptSupported ==
  \A m \in {manifest, memory} : m.status # "none" =>
    /\ \E i \in DOMAIN work.commits : work.commits[i] = m.kept
    /\ m.kept # Baseline /\ pc # "log" => \E i \in DOMAIN ledger : ledger[i].commit = m.kept

(***************************************************************************)
(* Under score_improvement the score on disk never falls, not even when a  *)
(* run is resumed from a manifest older than the supervisor's memory, and  *)
(* nothing is kept until the baseline has a score (runtime.ts:553-625).    *)
(***************************************************************************)
ScoreNeverFalls == [][KeepPolicy = "score_improvement" =>
  /\ manifest'.score >= manifest.score
  /\ manifest'.kept # manifest.kept => manifest'.score > manifest.score]_runVars
=============================================================================
