--------------------------- MODULE RolloutWatcher ---------------------------
(***************************************************************************)
(* The watcher that tells plugins what a Codex session writes to its       *)
(* rollout file: src/scripts/hook-derived-watcher.ts.  The file grows line *)
(* by line; a tick looks how long it is, reads what is new, and dispatches *)
(* the complete lines one after the other.  A signal starts a flush, which *)
(* polls once more and ends the process, whatever a tick is just doing.    *)
(*                                                                         *)
(* A line is two pieces of text, 2k-1 and 2k for line k, and the even one  *)
(* carries the newline: a line that is not these two pieces parses as      *)
(* nothing.                                                                *)
(***************************************************************************)
EXTENDS Integers, Sequences

CONSTANTS
  Once,          \* --once: the file is read from its start, by the flush alone
  MaxLines,      \* bound on the lines of the file
  MaxTruncates   \* bound on how often the file is cut

VARIABLES
  written,       \* pieces in the file
  tracked,       \* whether the file is tracked, and from which piece on
  offset, partial,   \* FileMeta
  dispatched,    \* the lines told to the plugins, in order
  poll,          \* the two pollers: tick and flush
  phase,         \* "running", "stopping", "over"
  due,           \* history: the complete lines in the file when the flush began
  truncates,
  clean          \* history: no flush began beside a tick, and no second signal came

watcherVars == <<written, tracked, offset, partial, dispatched, poll, phase, due, truncates, clean>>

Pollers == {"tick", "flush"}
Resting == [at |-> "rest", from |-> 0, size |-> 0, lines |-> <<>>]

\* merged.split('\n'): the lines that can be parsed, and the rest.
Whole(text, i) ==
  /\ text[i] % 2 = 0 /\ i > 1 /\ text[i - 1] = text[i] - 1
  /\ i = 2 \/ text[i - 2] % 2 = 0
WholeLines(text) ==
  LET upto[i \in 0..Len(text)] ==
        IF i = 0 THEN <<>>
        ELSE IF Whole(text, i) THEN Append(upto[i - 1], text[i] \div 2) ELSE upto[i - 1]
  IN  upto[Len(text)]
Rest(text) ==
  IF text # <<>> /\ text[Len(text)] % 2 = 1
  THEN LET cut == CHOOSE i \in 0..Len(text) - 1 :
                    /\ i = 0 \/ text[i] % 2 = 0
                    /\ \A j \in i + 1..Len(text) : text[j] % 2 = 1
       IN SubSeq(text, cut + 1, Len(text))
  ELSE <<>>

\* Codex writes; the file may be cut.
Write ==
  /\ phase # "over" /\ written < 2 * MaxLines
  /\ written' = written + 1
  /\ UNCHANGED <<tracked, offset, partial, dispatched, poll, phase, due, truncates, clean>>

Truncate ==
  /\ phase # "over" /\ truncates < MaxTruncates /\ written > 0
  /\ truncates' = truncates + 1
  /\ written' = 0
  /\ UNCHANGED <<tracked, offset, partial, dispatched, poll, phase, due, clean>>

Goto(p, at) == poll' = [poll EXCEPT ![p].at = at]

\* ensureTrackedFiles: a file is followed from where it ends, or from its start.
Track(p) ==
  /\ poll[p].at = "track"
  /\ IF tracked >= 0 THEN UNCHANGED <<tracked, offset>>
     ELSE tracked' = (IF Once THEN 0 ELSE written) /\ offset' = tracked'
  /\ Goto(p, "stat")
  /\ UNCHANGED <<written, partial, dispatched, phase, due, truncates, clean>>

\* pollFiles: the size is asked; a file shorter than the offset is read anew.
Stat(p) ==
  /\ poll[p].at = "stat"
  /\ IF written < offset THEN offset' = 0 /\ partial' = <<>> ELSE UNCHANGED <<offset, partial>>
  /\ poll' = [poll EXCEPT ![p].from = offset', ![p].size = written,
                          ![p].at = IF written <= offset' THEN "state" ELSE "read"]
  /\ UNCHANGED <<written, tracked, dispatched, phase, due, truncates, clean>>

\* readFileDelta, awaited, from the offset to the size that Stat saw; then the
\* offset moves, and the lines are handed out one by one.
Smaller(a, b) == IF a < b THEN a ELSE b
ReadDeltaFault(p) ==
  LET end == Smaller(poll[p].size, written)
      text == [i \in 1..(end - poll[p].from) |-> poll[p].from + i]
  IN
  /\ poll[p].at = "read"
  /\ IF end <= poll[p].from THEN Goto(p, "state") /\ UNCHANGED <<offset, partial>>
     ELSE /\ offset' = end
          /\ partial' = Rest(text)
          /\ poll' = [poll EXCEPT ![p].at = "lines", ![p].lines = WholeLines(text)]
  /\ UNCHANGED <<written, tracked, dispatched, phase, due, truncates, clean>>

ReadDelta(p) ==
  LET end == Smaller(poll[p].size, written)
      text == partial \o [i \in 1..(end - poll[p].from) |-> poll[p].from + i]
  IN
  /\ poll[p].at = "read"
  /\ IF end <= poll[p].from THEN Goto(p, "state") /\ UNCHANGED <<offset, partial>>
     ELSE /\ offset' = end
          /\ partial' = Rest(text)
          /\ poll' = [poll EXCEPT ![p].at = "lines", ![p].lines = WholeLines(text)]
  /\ UNCHANGED <<written, tracked, dispatched, phase, due, truncates, clean>>

\* processLine, awaited.
ProcessLine(p) ==
  /\ poll[p].at = "lines"
  /\ IF poll[p].lines = <<>> THEN Goto(p, "state") /\ UNCHANGED dispatched
     ELSE /\ dispatched' = Append(dispatched, Head(poll[p].lines))
          /\ poll' = [poll EXCEPT ![p].lines = Tail(@)]
  /\ UNCHANGED <<written, tracked, offset, partial, phase, due, truncates, clean>>

\* writeState ends a poll; the one of the flush ends the process.
WriteState(p) ==
  /\ poll[p].at = "state"
  /\ poll' = [poll EXCEPT ![p] = Resting]
  /\ phase' = IF p = "flush" THEN "over" ELSE phase
  /\ UNCHANGED <<written, tracked, offset, partial, dispatched, due, truncates, clean>>

PollTick ==
  /\ phase = "running" /\ ~Once /\ poll["tick"].at = "rest"
  /\ Goto("tick", "track")
  /\ UNCHANGED <<written, tracked, offset, partial, dispatched, phase, due, truncates, clean>>

\* shutdown: only the first call of flushOnce flushes; a second signal finds
\* nothing to wait for.
Signal ==
  /\ phase = "running"
  /\ phase' = "stopping"
  /\ Goto("flush", "track")
  /\ due' = written \div 2
  /\ clean' = (poll["tick"].at = "rest")
  /\ UNCHANGED <<written, tracked, offset, partial, dispatched, truncates>>

SecondSignal ==
  /\ phase = "stopping"
  /\ phase' = "over"
  /\ clean' = FALSE
  /\ UNCHANGED <<written, tracked, offset, partial, dispatched, poll, due, truncates>>

WatcherInit ==
  /\ written = 0 /\ tracked = -1 /\ offset = 0 /\ partial = <<>>
  /\ dispatched = <<>> /\ due = 0 /\ truncates = 0 /\ clean = TRUE
  /\ poll = [p \in Pollers |-> Resting]
  /\ phase = "running"

Polls(p) ==
  /\ phase # "over"
  /\ Track(p) \/ Stat(p) \/ ReadDelta(p) \/ ProcessLine(p) \/ WriteState(p)

WatcherNext ==
  \/ Write \/ Truncate \/ PollTick \/ Signal \/ SecondSignal
  \/ \E p \in Pollers : Polls(p)

WatcherSpec ==
  /\ WatcherInit /\ [][WatcherNext]_watcherVars
  /\ WF_watcherVars(PollTick) /\ \A p \in Pollers : WF_watcherVars(Polls(p))

-----------------------------------------------------------------------------
WatcherTypeOK ==
  /\ written \in 0..2 * MaxLines /\ tracked \in -1..2 * MaxLines
  /\ offset \in 0..2 * MaxLines /\ truncates \in 0..MaxTruncates
  /\ phase \in {"running", "stopping", "over"}
  /\ \A p \in Pollers : {poll[p].from, poll[p].size} \subseteq 0..2 * MaxLines

Skipped == (tracked + 1) \div 2

(***************************************************************************)
(* Unless the file was cut, or a signal came while a tick was at work, the *)
(* plugins hear every line that began after the file was tracked once and  *)
(* in order, however the writes fall between the looks at the file, and a  *)
(* flush that is let finish leaves none behind that was complete when it   *)
(* began (hook-derived-watcher.ts:541-608).                                *)
(***************************************************************************)
LinesOnce ==
  (clean /\ truncates = 0) =>
    /\ dispatched = [i \in DOMAIN dispatched |-> Skipped + i]
    /\ phase = "over" => Skipped + Len(dispatched) >= due

(***************************************************************************)
(* A line is told or the watcher ends, and a signal ends it.               *)
(***************************************************************************)
LinesTold ==
  /\ \A k \in 1..MaxLines :
       (written >= 2 * k /\ truncates = 0)
         ~> (Skipped + Len(dispatched) >= k \/ phase = "over" \/ truncates > 0)
  /\ phase = "stopping" ~> phase = "over"
=============================================================================
