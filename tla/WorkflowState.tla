---------------------------- MODULE WorkflowState ----------------------------
(***************************************************************************)
(* The files behind the workflow modes and the processes that change them: *)
(* one detail file per scope and mode, one skill-active copy per session   *)
(* and one for the root, which lists active modes of the root and of       *)
(* sessions.  An operation reads, decides by the copies, completes source  *)
(* modes, writes the detail file and then brings the copies up to date,    *)
(* one file after the other, without a lock between processes.             *)
(***************************************************************************)
EXTENDS Naturals

CONSTANTS
  Procs,      \* processes: MCP servers, CLI commands, runners
  Sessions, Root,
  Modes,      \* the canonical modes in use
  Uses,       \* the scopes in which each mode is requested
  Evidences,  \* what a detail file may say of the interview
  Overlap,    \* may operations of different sessions overlap?
  Crashes,    \* may a process die in the middle of an operation (once)?
  MaxAfter,   \* operations begun after a death or an overlap
  Fallback    \* may a session update a mode that only the root has?

Scopes == Sessions \cup {Root}

(* The deep_interview_gate, and the execution contract where one is needed *)
Evidence == [gate : {"none", "open", "complete", "skipped"},
             required : BOOLEAN, contract : {"absent", "valid", "invalid"}]
NoEvidence == [gate |-> "none", required |-> FALSE, contract |-> "absent"]

Phase == {"none", "deep-interview", "ralplan", "ultragoal"}
File == [exists : BOOLEAN, active : BOOLEAN, phase : Phase, evidence : Evidence]
NoFile == [exists |-> FALSE, active |-> FALSE, phase |-> "none", evidence |-> NoEvidence]
Tombstone == [NoFile EXCEPT !.exists = TRUE]
NoCopy == [exists |-> FALSE, entries |-> {}]
CopyOf(entries) == [exists |-> TRUE, entries |-> entries]

VARIABLES
  file,   \* the detail file of each scope and mode
  root,   \* the root copy of skill-active: pairs of a mode and a scope
  copy,   \* the session copies of skill-active
  op,     \* the operation each process is in
  trouble \* 0, or 1 and the operations begun since a death or an overlap (history)

vars == <<file, root, copy, op, trouble>>

Active(s) == {m \in Modes : file[s][m].active}

(* The machine the operations are to implement, on the detail files.       *)
ActiveModes == [s \in Scopes |-> Active(s)]
Machine == INSTANCE WorkflowTransition WITH active <- ActiveModes

ASSUME StateAssumption ==
  /\ Modes \subseteq Machine!Tracked \ {"ultragoal"}
  /\ Root \notin Sessions /\ Uses \subseteq Scopes \X Modes
  /\ NoEvidence \in Evidences /\ Evidences \subseteq Evidence
  /\ MaxAfter \in Nat /\ {Overlap, Crashes, Fallback} \subseteq BOOLEAN

Label == {"idle", "source", "unlink", "file", "read", "root", "copy", "mirrors"}
Idle == [at |-> "idle", kind |-> "none", scope |-> Root, mode |-> "none",
         next |-> NoFile, from |-> {}, about |-> "none", newRoot |-> {},
         newCopy |-> {}, seen |-> {}, todo |-> {}]

Init ==
  /\ file = [s \in Scopes |-> [m \in Modes |-> NoFile]]
  /\ root = NoCopy
  /\ copy = [s \in Sessions |-> NoCopy]
  /\ op = [p \in Procs |-> Idle]
  /\ trouble = 0

clean == trouble = 0

At(p, label) == op[p].at = label
Busy == {p \in Procs : ~At(p, "idle")}
RootEntries(entries, s) == {m \in Modes : <<m, s>> \in entries}

(* readCanonicalActiveWorkflowModes: a session sees its own copy only.     *)
Visible(s) == IF s = Root THEN RootEntries(root.entries, Root) ELSE copy[s].entries

(* readSessionDetailTransitionModes: ralplan also heeds detail files.      *)
Current(s, m) ==
  IF m # "ralplan" \/ Visible(s) # {} \/ s = Root THEN Visible(s)
  ELSE IF "autopilot" \in Active(s) THEN {"autopilot"}
  ELSE Active(s) \cap {"deep-interview"}

(* canAdvanceAutopilotDeepInterviewToRalplan, over the states that may     *)
(* carry evidence in the order in which their contracts count              *)
CanAdvance(states) ==
  LET all == {states[i] : i \in DOMAIN states}
      stated == {i \in DOMAIN states : states[i].contract # "absent"} IN
  /\ \E e \in all : e.gate \in {"complete", "skipped"}
  /\ (\E e \in all : e.required) =>
       \E i \in stated : states[i].contract = "valid" /\ \A j \in stated : i <= j

-----------------------------------------------------------------------------
(* An operation begins when nothing else runs, or with Overlap when no     *)
(* other operation of its scope runs.                                      *)
Begins(p, s, m, record) ==
  /\ At(p, "idle")
  /\ <<s, m>> \in Uses
  /\ Busy = {} \/ (Overlap /\ \A q \in Busy : op[q].scope # s)
  /\ op' = [op EXCEPT ![p] = record]
  /\ trouble <= MaxAfter
  /\ trouble' = IF clean /\ Busy = {} THEN 0 ELSE trouble + 1
  /\ UNCHANGED <<file, root, copy>>

Operation(kind, s, m, next, from, label) ==
  [Idle EXCEPT !.kind = kind, !.scope = s, !.mode = m, !.next = next,
               !.from = from, !.at = label]

(* The gates of an autopilot write: from the interview only to ralplan,    *)
(* from ralplan only to ultragoal, each with its evidence: given is the    *)
(* evidence in the request, reviews that of the ralplan consensus.         *)
Forward(phase, from) ==
  \/ from = "deep-interview" /\ phase \in {"ralplan", "ultragoal"}
  \/ from = "ralplan" /\ phase = "ultragoal"

AutopilotAllows(now, next, given, completes, reviews) ==
  now.active =>
    /\ now.phase \in {"deep-interview", "ralplan"} => ~completes
    /\ (now.phase = "deep-interview" /\ next.active /\ Forward(next.phase, now.phase)) =>
         next.phase = "ralplan" /\ CanAdvance(<<given, now.evidence>>)
    /\ (now.phase = "ralplan" /\ next.active /\ Forward(next.phase, now.phase)) => reviews

(* What a write may leave in the file: an active autopilot has a phase, and *)
(* evidence is kept as long as a gate may look at it.                      *)
Kept(m, phase, active) ==
  active /\ (m = "deep-interview" \/ (m = "autopilot" /\ phase = "deep-interview"))

Inputs(m) ==
  {f \in [exists : {TRUE}, active : BOOLEAN, phase : Phase, evidence : Evidences] :
     /\ ~Kept(m, f.phase, f.active) => f.evidence = NoEvidence
     /\ (m # "autopilot" \/ ~f.active) => f.phase = "none"}

(* state_write: validation and decision before anything is written         *)
(* Fault: a mode is activated whatever else is active.                     *)
BeginWriteFault(p) ==
  \E s \in Scopes, m \in Modes : \E next \in Inputs(m) :
    Begins(p, s, m, Operation("write", s, m, next, {}, "file"))

BeginWrite(p) ==
  \E s \in Scopes, m \in Modes :
  \E next \in Inputs(m), given \in Evidences, completes, reviews \in BOOLEAN :
    /\ completes => ~next.active
    /\ m # "autopilot" => given = NoEvidence /\ ~completes /\ ~reviews
    /\ m = "autopilot" => AutopilotAllows(file[s][m], next, given, completes, reviews)
    /\ next.active => /\ ~Machine!Rollback(Visible(s), m)
                      /\ Machine!Allowed(Current(s, m), m)
    /\ LET from == IF next.active THEN Machine!Sources(Current(s, m), m) ELSE {} IN
       Begins(p, s, m, Operation("write", s, m, next, from,
                                 IF from = {} THEN "file" ELSE "source"))

(* startMode                                                               *)
BeginStart(p) ==
  \E s \in Scopes, m \in Modes :
    LET from == Machine!Sources(Visible(s), m) IN
    /\ Machine!Allowed(Visible(s), m)
    /\ Begins(p, s, m, Operation("start", s, m, [Tombstone EXCEPT !.active = TRUE], from,
                                 IF from = {} THEN "file" ELSE "source"))

(* updateModeState and cancelMode: a session without a file of its own     *)
(* reads that of the root, and writes its own.                             *)
BeginUpdate(p) ==
  \E s \in Scopes, m \in Modes : \E active \in BOOLEAN :
    LET now == IF file[s][m].exists THEN file[s][m] ELSE file[Root][m] IN
    /\ now.exists /\ (Fallback \/ file[s][m].exists)
    /\ active => now.active
    /\ Begins(p, s, m, Operation("update", s, m,
         IF active THEN now ELSE Tombstone, {}, "file"))

(* state_clear: in a session a file of the root is covered by a tombstone. *)
BeginClear(p) ==
  \E s \in Scopes, m \in Modes :
    Begins(p, s, m, Operation("clear", s, m,
      IF s # Root /\ file[Root][m].exists THEN Tombstone ELSE NoFile, {}, "file"))

BeginClearAll(p) ==
  \E s \in Scopes, m \in Modes :
    Begins(p, s, m, [Operation("clearAll", Root, m, NoFile, {}, "unlink") EXCEPT
      !.todo = {t \in Scopes : file[t][m].exists}])

-----------------------------------------------------------------------------
Goes(p, label) == op' = [op EXCEPT ![p].at = label]
Ends(p) == op' = [op EXCEPT ![p] = Idle]

(* completeSourceModeState, and the gate of deep-interview -> ralplan      *)
SourceOpen(p, c) ==
  LET f == file[op[p].scope][c] IN
  <<c, op[p].mode>> \in Machine!EvidenceGated => f.active /\ CanAdvance(<<f.evidence>>)

(* Fault: only the flag is changed; what the mode was doing stays.         *)
CompleteSourceFault(p) ==
  /\ At(p, "source")
  /\ \E c \in op[p].from :
       /\ SourceOpen(p, c)
       /\ file' = [file EXCEPT ![op[p].scope][c].active = FALSE]
       /\ op' = [op EXCEPT ![p].at = "read", ![p].about = c]
  /\ UNCHANGED <<root, copy, trouble>>

CompleteSource(p) ==
  /\ At(p, "source")
  /\ \E c \in op[p].from :
       LET s == op[p].scope IN
       /\ SourceOpen(p, c)
       /\ file' = IF file[s][c].active
                  THEN [file EXCEPT ![s][c] = Tombstone] ELSE file
       /\ op' = [op EXCEPT ![p].at = "read", ![p].about = c]
  /\ UNCHANGED <<root, copy, trouble>>

SourceThrows(p) ==
  /\ At(p, "source") /\ \E c \in op[p].from : ~SourceOpen(p, c)
  /\ Ends(p)
  /\ UNCHANGED <<file, root, copy, trouble>>

WriteFile(p) ==
  /\ At(p, "file")
  /\ file' = [file EXCEPT ![op[p].scope][op[p].mode] = op[p].next]
  /\ op' = [op EXCEPT ![p].at = "read", ![p].about = op[p].mode]
  /\ UNCHANGED <<root, copy, trouble>>

Unlink(p) ==
  /\ At(p, "unlink")
  /\ IF op[p].todo = {}
     THEN /\ op' = [op EXCEPT ![p].at = "read", ![p].about = op[p].mode]
          /\ UNCHANGED file
     ELSE \E s \in op[p].todo :
            /\ file' = [file EXCEPT ![s][op[p].mode] = NoFile]
            /\ op' = [op EXCEPT ![p].todo = @ \ {s}]
  /\ UNCHANGED <<root, copy, trouble>>
-----------------------------------------------------------------------------
(* syncCanonicalSkillStateForMode                                          *)
Activates(p) == op[p].about = op[p].mode /\ op[p].next.active

(* Faults: the other modes of the session are forgotten; a mode that ends  *)
(* is still taken over from the root copy.                                 *)
SessionSyncForgets(p) ==
  LET s == op[p].scope
      on == IF Activates(p) THEN {op[p].about} ELSE {} IN
  [visible |-> copy[s].entries, newCopy |-> on,
   newRoot |-> root.entries \ {<<op[p].about, s>>}]

SessionSyncStale(p) ==
  LET s == op[p].scope
      m == op[p].about
      on == IF Activates(p) THEN {m} ELSE {} IN
  [visible |-> RootEntries(root.entries, s) \cup copy[s].entries,
   newCopy |-> RootEntries(root.entries, s) \cup (copy[s].entries \ {m}) \cup on,
   newRoot |-> (root.entries \ {<<m, s>>}) \cup (on \X {s})]

SessionSync(p) ==
  LET s == op[p].scope
      m == op[p].about
      mirrored == RootEntries(root.entries, s)
      only == copy[s].entries \ mirrored
      nextOnly == (only \ {m}) \cup (IF Activates(p) THEN {m} ELSE {})
      rest == root.entries \ {<<m, s>>} IN
  [visible |-> mirrored \cup only,
   newCopy |-> (mirrored \ {m}) \cup nextOnly,
   newRoot |-> IF rest # {} THEN rest
               ELSE IF Activates(p) THEN nextOnly \X {s} ELSE {}]

RootSync(p) ==
  LET m == op[p].about
      own == {e \in root.entries : e[2] = Root} IN
  [visible |-> RootEntries(root.entries, Root),
   newCopy |-> {},
   newRoot |-> IF op[p].kind = "clearAll" THEN {e \in root.entries : e[1] # m}
               ELSE (root.entries \ own) \cup (own \ {<<m, Root>>})
                      \cup (IF Activates(p) THEN {<<m, Root>>} ELSE {})]

Sync(p) == IF op[p].scope = Root THEN RootSync(p) ELSE SessionSync(p)

(* After a source the request goes on with the next source or its file.    *)
Continues(p) ==
  LET left == op[p].from \ {op[p].about} IN
  IF op[p].about = op[p].mode THEN Ends(p)
  ELSE op' = [op EXCEPT ![p] = [Operation(op[p].kind, op[p].scope, op[p].mode, op[p].next,
                                          left, IF left = {} THEN "file" ELSE "source")
                                EXCEPT !.about = op[p].about]]

NothingToSync(p) ==
  /\ ~root.exists /\ (op[p].scope = Root \/ ~copy[op[p].scope].exists)
  /\ ~Activates(p) /\ op[p].kind # "clearAll"

LateDenial(p) ==
  /\ At(p, "read") /\ Activates(p)
  /\ ~Machine!Allowed(Sync(p).visible, op[p].about)

ReadCopies(p) ==
  /\ At(p, "read") /\ ~LateDenial(p)
  /\ IF NothingToSync(p) THEN Continues(p)
     ELSE op' = [op EXCEPT ![p].at = "root", ![p].newRoot = Sync(p).newRoot,
                           ![p].newCopy = Sync(p).newCopy, ![p].seen = root.entries]
  /\ UNCHANGED <<file, root, copy, trouble>>

(* The assertion in the synchronisation throws: the file is written.       *)
Deny(p) ==
  /\ LateDenial(p)
  /\ Ends(p)
  /\ UNCHANGED <<file, root, copy, trouble>>

WriteRoot(p) ==
  /\ At(p, "root")
  /\ root' = CopyOf(op[p].newRoot)
  /\ op' = [op EXCEPT ![p].at = IF op[p].scope = Root THEN "mirrors" ELSE "copy",
                      ![p].todo = IF op[p].scope = Root
                                  THEN {s \in Sessions : copy[s].exists} ELSE {}]
  /\ UNCHANGED <<file, copy, trouble>>

WriteCopy(p) ==
  /\ At(p, "copy")
  /\ copy' = [copy EXCEPT ![op[p].scope] = CopyOf(op[p].newCopy)]
  /\ Continues(p)
  /\ UNCHANGED <<file, root, trouble>>

(* Each session copy is read, rewritten or removed; a rewrite writes the   *)
(* root copy again.                                                        *)
WriteMirror(p) ==
  /\ At(p, "mirrors") /\ op[p].todo # {}
  /\ \E s \in op[p].todo :
       LET dropped == IF op[p].kind = "clearAll" THEN {op[p].about} ELSE {}
           next == RootEntries(op[p].newRoot, s)
                     \cup ((copy[s].entries \ RootEntries(op[p].seen, s)) \ dropped) IN
       /\ copy' = [copy EXCEPT ![s] = IF next = {} THEN NoCopy ELSE CopyOf(next)]
       /\ root' = IF next = {} THEN root ELSE CopyOf(op[p].newRoot)
       /\ op' = [op EXCEPT ![p].todo = @ \ {s}]
  /\ UNCHANGED <<file, trouble>>

MirrorsDone(p) ==
  /\ At(p, "mirrors") /\ op[p].todo = {}
  /\ Continues(p)
  /\ UNCHANGED <<file, root, copy, trouble>>

(* A process dies between two writes of an operation; before the first     *)
(* write it is as if the operation had not begun.                          *)
Crash(p) ==
  /\ Crashes /\ clean /\ (op[p].about # "none" \/ At(p, "unlink"))
  /\ Ends(p)
  /\ trouble' = 1
  /\ UNCHANGED <<file, root, copy>>

Begin(p) ==
  /\ At(p, "idle")
  /\ BeginWrite(p) \/ BeginStart(p) \/ BeginUpdate(p) \/ BeginClear(p) \/ BeginClearAll(p)

Step(p) ==
  \/ CompleteSource(p) \/ SourceThrows(p) \/ WriteFile(p) \/ Unlink(p)
  \/ ReadCopies(p) \/ Deny(p) \/ WriteRoot(p) \/ WriteCopy(p)
  \/ WriteMirror(p) \/ MirrorsDone(p)

Next == \E p \in Procs : Begin(p) \/ Step(p) \/ Crash(p)

Spec == Init /\ [][Next]_vars
-----------------------------------------------------------------------------
TypeOK ==
  /\ file \in [Scopes -> [Modes -> File]]
  /\ \A s \in Scopes, m \in Modes : ~file[s][m].active => file[s][m] \in {NoFile, Tombstone}
  /\ root.entries \subseteq Modes \X Scopes /\ (root.exists \/ root.entries = {})
  /\ \A s \in Sessions : copy[s].entries \subseteq Modes /\ (copy[s].exists \/ copy[s].entries = {})
  /\ \A p \in Procs : op[p].at \in Label /\ op[p].next \in File /\ op[p].from \subseteq Modes

(* Operations that run one after another keep to the table of transitions: *)
(* the detail files change as the abstract machine does, mode by mode,     *)
(* whatever reads, copies and rewrites lie between.                        *)
Implements ==
  [][(clean' /\ ActiveModes' # ActiveModes) => Machine!Next]_vars

(* The decisions are made by the copies: between operations they list      *)
(* exactly the modes whose detail files are active.                        *)
CopiesAgree ==
  (clean /\ Busy = {}) =>
    /\ \A s \in Sessions : /\ copy[s].entries = Active(s)
                           /\ RootEntries(root.entries, s) \subseteq Active(s)
    /\ RootEntries(root.entries, Root) = Active(Root)

(* Clearing a mode is the way out of whatever a dead process left behind:  *)
(* when state_clear returns, no file and no copy of the scope names the    *)
(* mode any more.                                                          *)
ClearRecovers ==
  [][\A p \in Procs : \A s \in Scopes :
       (/\ ~At(p, "idle") /\ op'[p] = Idle /\ ~(clean /\ ~clean')
        /\ (op[p].kind = "clearAll" \/ (op[p].kind = "clear" /\ op[p].scope = s)))
       => /\ ~file'[s][op[p].mode].active
          /\ s # Root => op[p].mode \notin copy'[s].entries
          /\ op[p].mode \notin RootEntries(root'.entries, s)]_vars
=============================================================================
