-------------------------- MODULE WorkflowStateProofs --------------------------
(***************************************************************************)
(* Theorems about the files of the workflow modes and the processes that   *)
(* change them, for any number of processes and sessions, any of the modes *)
(* and any scopes they are requested in.  The invariant says, label by     *)
(* label of an operation, how far the copies of skill-active agree with    *)
(* the detail files and what is still to be written.                       *)
(***************************************************************************)
EXTENDS WorkflowState, TLAPS

-----------------------------------------------------------------------------
(* The invariant                                                           *)

OpKind == {"none", "write", "start", "update", "clear", "clearAll"}
Entries == Modes \X Scopes

Op == [at : Label, kind : OpKind, scope : Scopes, mode : Modes \cup {"none"}, next : File,
       from : SUBSET Modes, about : Modes \cup {"none"}, newRoot : SUBSET Entries,
       newCopy : SUBSET Modes, seen : SUBSET Entries, todo : SUBSET Scopes]

RootCopy == [exists : BOOLEAN, entries : SUBSET Entries]
SessionCopy == [exists : BOOLEAN, entries : SUBSET Modes]

TypeInv ==
  /\ file \in [Scopes -> [Modes -> File]]
  /\ root \in RootCopy /\ copy \in [Sessions -> SessionCopy]
  /\ op \in [Procs -> Op]
  /\ trouble \in Nat

(* An active file exists, one that is not holds nothing.                   *)
Proper(f) == IF f.active THEN f.exists ELSE f \in {NoFile, Tombstone}

FileInv ==
  /\ \A s \in Scopes, m \in Modes : Proper(file[s][m])
  /\ root.exists \/ root.entries = {}
  /\ \A s \in Sessions : copy[s].exists \/ copy[s].entries = {}

Syncing == {"read", "root", "copy", "mirrors"}

(* An operation at each of its labels                                      *)
OpInv ==
  \A p \in Procs :
    LET o == op[p] IN
    /\ Proper(o.next) /\ o.mode \notin o.from
    /\ IF o.at = "idle" THEN o.about = "none" ELSE o.mode \in Modes
    /\ o.at \in Syncing => o.about \in Modes /\ (o.about = o.mode \/ o.about \in o.from)
    /\ o.at \in Syncing /\ o.about = o.mode => o.from = {}
    /\ (o.at = "file" => o.from = {}) /\ (o.at = "source" => o.from # {})
    /\ o.from # {} => o.next.active
    /\ o.kind \in {"clear", "clearAll"} => ~o.next.active
    /\ o.at = "unlink" => o.kind = "clearAll"
    /\ o.kind = "clearAll" => o.scope = Root /\ o.at # "file"
    /\ o.at = "copy" => o.scope # Root
    /\ o.at = "mirrors" => o.scope = Root

(* Operations that do not overlap run one at a time.                       *)
SerialInv == ~Overlap \/ clean => \A p, q \in Busy : p = q

(* The copies agree with the detail files: act says which modes are active *)
(* in each scope, entries what the root copy lists, copies the others.     *)
RootAgreeOn(act, entries) ==
  /\ \A s \in Sessions : RootEntries(entries, s) \subseteq act[s]
  /\ RootEntries(entries, Root) = act[Root]

AgreeOn(act, entries, copies) ==
  /\ RootAgreeOn(act, entries)
  /\ \A s \in Sessions : copies[s].entries = act[s]

(* ... but for the mode an operation is about, in the scopes it touches    *)
Touches(o) == IF o.kind = "clearAll" THEN Scopes ELSE {o.scope}
But(o, m, t) == IF t \in Touches(o) THEN {m} ELSE {}

AgreeBut(o, m, act, entries, copies) ==
  /\ \A s \in Sessions :
       /\ copies[s].entries \ But(o, m, s) = act[s] \ But(o, m, s)
       /\ RootEntries(entries, s) \ But(o, m, s) \subseteq act[s]
  /\ RootEntries(entries, Root) \ But(o, m, Root) = act[Root] \ But(o, m, Root)

(* What the copy of a session becomes when the root is synchronised        *)
Dropped(o) == IF o.kind = "clearAll" THEN {o.about} ELSE {}
MirroredOf(o, copies, s) ==
  RootEntries(o.newRoot, s)
    \cup ((copies[s].entries \ RootEntries(o.seen, s)) \ Dropped(o))
Mirrored(p, s) == MirroredOf(op[p], copy, s)

Switches(o) == o.about = o.mode /\ o.next.active

(* The mode may be switched on once its sources are completed.             *)
FitsOn(o, act) == Machine!Kind(act[o.scope] \ o.from, o.mode) \in {"allow", "overlap"}

(* An operation under way, by its label: what is still to be written       *)
GoingOn(o, act, entries, copies) ==
  /\ o.next.active /\ (o.at \in {"source", "file"} \/ (o.at \in Syncing /\ o.about # o.mode))
       => FitsOn(o, act)
  /\ o.at \in {"source", "file"} => AgreeOn(act, entries, copies)
  /\ o.at = "unlink" => /\ AgreeBut(o, o.mode, act, entries, copies)
                        /\ \A t \in Scopes \ o.todo : o.mode \notin act[t]
  /\ o.at \in Syncing => \A t \in Touches(o) : o.about \in act[t] <=> Switches(o)
  /\ o.at = "read" => AgreeBut(o, o.about, act, entries, copies)
  /\ o.at \in {"root", "copy", "mirrors"} => RootAgreeOn(act, o.newRoot)
  /\ o.at \in {"copy", "mirrors"} => entries = o.newRoot
  /\ o.at \in {"root", "copy"} /\ o.scope # Root =>
       /\ o.newCopy = act[o.scope]
       /\ \A s \in Sessions \ {o.scope} : copies[s].entries = act[s]
  /\ o.at = "root" /\ o.scope = Root =>
       \A s \in Sessions : /\ MirroredOf(o, copies, s) = act[s]
                           /\ copies[s].exists \/ act[s] = {}
  /\ o.at = "mirrors" =>
       \A s \in Sessions : IF s \in o.todo THEN MirroredOf(o, copies, s) = act[s]
                           ELSE copies[s].entries = act[s]

Agree == AgreeOn(ActiveModes, root.entries, copy)
Going(p) == GoingOn(op[p], ActiveModes, root.entries, copy)

CleanInv ==
  clean /\ ~Fallback =>
    /\ Busy = {} => Agree
    /\ \A p \in Busy : Going(p)
    /\ Machine!OneAtATime

(* What a clear has already done, whatever was there before                *)
Clearing(p) ==
  LET o == op[p] IN
  /\ o.at = "unlink" => \A t \in Scopes \ o.todo : ~file[t][o.mode].active
  /\ o.at \in Syncing => \A t \in Touches(op[p]) : ~file[t][o.mode].active
  /\ o.at \in {"root", "copy", "mirrors"} =>
       /\ \A t \in Touches(op[p]) : <<o.mode, t>> \notin o.newRoot
       /\ o.scope # Root => o.mode \notin o.newCopy
  /\ o.at \in {"copy", "mirrors"} => root.entries = o.newRoot
  /\ o.at = "mirrors" /\ o.kind = "clearAll" =>
       \A s \in Sessions \ o.todo : o.mode \notin copy[s].entries

ClearInv ==
  ~Overlap => \A p \in Busy : op[p].kind \in {"clear", "clearAll"} => Clearing(p)

-----------------------------------------------------------------------------
(* Files and operations                                                    *)

LEMMA FilesAre ==
  /\ NoFile \in File /\ Tombstone \in File /\ [Tombstone EXCEPT !.active = TRUE] \in File
  /\ ~NoFile.active /\ ~NoFile.exists /\ ~Tombstone.active
  /\ [Tombstone EXCEPT !.active = TRUE].active /\ [Tombstone EXCEPT !.active = TRUE].exists
<1>1. NoEvidence \in Evidence
  BY DEF NoEvidence, Evidence
<1>2. NoFile \in File /\ ~NoFile.active /\ ~NoFile.exists
  BY <1>1 DEF NoFile, File, Phase
<1>3. Tombstone \in File /\ ~Tombstone.active /\ Tombstone.exists
  BY <1>2 DEF Tombstone, File
<1>4. /\ [Tombstone EXCEPT !.active = TRUE] \in File
      /\ [Tombstone EXCEPT !.active = TRUE].active /\ [Tombstone EXCEPT !.active = TRUE].exists
  BY <1>3 DEF File
<1> QED BY <1>2, <1>3, <1>4

LEMMA IdleIs ==
  /\ Idle \in Op /\ Idle.at = "idle" /\ Idle.kind = "none" /\ Idle.from = {}
  /\ Idle.next = NoFile /\ Idle.scope = Root
<1>1. Root \in Scopes
  BY DEF Scopes
<1> QED BY <1>1, FilesAre DEF Idle, Op, OpKind, Label

LEMMA OperationIs ==
  ASSUME NEW kind \in OpKind, NEW s \in Scopes, NEW m \in Modes, NEW next \in File,
         NEW from \in SUBSET Modes, NEW label \in Label
  PROVE  LET o == Operation(kind, s, m, next, from, label) IN
         /\ o \in Op /\ o.at = label /\ o.kind = kind /\ o.scope = s /\ o.mode = m
         /\ o.next = next /\ o.from = from /\ o.about = "none"
<1>1. Idle \in Op /\ Idle.about = "none"
  BY IdleIs DEF Idle
<1> QED BY <1>1 DEF Operation, Op

(* Nothing but the operation of p changes among the operations.            *)
Alone(p) == op' \in [Procs -> Op] /\ \A q \in Procs \ {p} : op'[q] = op[q]

(* The request of an operation stays as it is.                             *)
SameRequest(p) ==
  /\ op'[p].kind = op[p].kind /\ op'[p].scope = op[p].scope /\ op'[p].mode = op[p].mode
  /\ op'[p].next = op[p].next

LEMMA EndsDoes ==
  ASSUME TypeInv, NEW p \in Procs, Ends(p)
  PROVE  Alone(p) /\ op'[p] = Idle
BY IdleIs DEF TypeInv, Ends, Alone

LEMMA ContinuesDoes ==
  ASSUME TypeInv, OpInv, NEW p \in Procs, Continues(p), op[p].at \in Syncing
  PROVE  /\ Alone(p)
         /\ op[p].about = op[p].mode => op'[p] = Idle
         /\ op[p].about # op[p].mode =>
              /\ SameRequest(p) /\ op'[p].from = op[p].from \ {op[p].about}
              /\ op'[p].at = IF op'[p].from = {} THEN "file" ELSE "source"
<1>1. CASE op[p].about = op[p].mode
  BY <1>1, EndsDoes DEF Continues
<1>2. CASE op[p].about # op[p].mode
  <2> DEFINE o == op[p]
             left == o.from \ {o.about}
             label == IF left = {} THEN "file" ELSE "source"
             next == Operation(o.kind, o.scope, o.mode, o.next, left, label)
  <2>1. /\ o.kind \in OpKind /\ o.scope \in Scopes /\ o.mode \in Modes /\ o.next \in File
        /\ left \in SUBSET Modes /\ label \in Label /\ o.about \in Modes
    BY DEF TypeInv, Op, OpInv, Label, Syncing
  <2>2. /\ next \in Op /\ next.at = label /\ next.kind = o.kind /\ next.scope = o.scope
        /\ next.mode = o.mode /\ next.next = o.next /\ next.from = left
    BY <2>1, OperationIs
  <2>3. op' = [op EXCEPT ![p] = [next EXCEPT !.about = o.about]]
    BY <1>2 DEF Continues
  <2> HIDE DEF next, label, left
  <2>4. /\ [next EXCEPT !.about = o.about] \in Op
        /\ [next EXCEPT !.about = o.about].at = label
        /\ [next EXCEPT !.about = o.about].kind = o.kind
        /\ [next EXCEPT !.about = o.about].scope = o.scope
        /\ [next EXCEPT !.about = o.about].mode = o.mode
        /\ [next EXCEPT !.about = o.about].next = o.next
        /\ [next EXCEPT !.about = o.about].from = left
    BY <2>1, <2>2 DEF Op
  <2>5. Alone(p) /\ op'[p] = [next EXCEPT !.about = o.about]
    BY <2>3, <2>4 DEF TypeInv, Alone
  <2> QED BY <1>2, <2>4, <2>5 DEF SameRequest, left, label
<1> QED BY <1>1, <1>2


-----------------------------------------------------------------------------
(* The table of transitions                                                *)

(* Once its sources are completed a mode may be switched on.               *)
LEMMA SourcesAre ==
  ASSUME NEW current \in SUBSET Modes, NEW m \in Modes
  PROVE  /\ Machine!Sources(current, m) \subseteq current /\ m \notin Machine!Sources(current, m)
         /\ Machine!Allowed(current, m) =>
              Machine!Kind(current \ Machine!Sources(current, m), m) \in {"allow", "overlap"}
<1> DEFINE done == Machine!Completed(current, m)
           rest == current \ done
<1>1. done \subseteq current /\ Machine!Completed(rest, m) = {}
  BY DEF Machine!Completed
<1>2. CASE Machine!Kind(current, m) = "auto-complete"
  <2>1. /\ Machine!Sources(current, m) = done /\ m \notin current
        /\ \A c \in rest : Machine!Overlaps(c, m)
    BY <1>2 DEF Machine!Sources, Machine!Kind
  <2>2. Machine!Kind(rest, m) \in {"allow", "overlap"}
    BY <1>1, <2>1 DEF Machine!Kind
  <2> QED BY <1>1, <2>1, <2>2
<1>3. CASE Machine!Kind(current, m) # "auto-complete"
  <2>1. Machine!Sources(current, m) = {}
    BY <1>3 DEF Machine!Sources
  <2>2. Machine!Kind(current, m) \in {"allow", "auto-complete", "overlap", "deny"}
    BY DEF Machine!Kind
  <2> QED BY <1>3, <2>1, <2>2 DEF Machine!Allowed
<1> QED BY <1>2, <1>3

LEMMA ScopesAre == Root \in Scopes /\ Sessions \subseteq Scopes /\ Root \notin Sessions
BY StateAssumption DEF Scopes

LEMMA ActiveIs ==
  ASSUME TypeInv, NEW s \in Scopes
  PROVE  /\ Active(s) \subseteq Modes /\ Visible(s) \subseteq Modes
         /\ \A m \in Modes : Current(s, m) \subseteq Modes
         /\ \A m \in Modes : m \in Active(s) <=> file[s][m].active
         /\ s # Root => s \in Sessions
<1>1. Active(s) \subseteq Modes
  BY DEF Active
<1>2. Visible(s) \subseteq Modes /\ (s # Root => s \in Sessions)
  BY DEF Visible, RootEntries, TypeInv, SessionCopy, Scopes
<1>3. ASSUME NEW m \in Modes PROVE Current(s, m) \subseteq Modes
  BY <1>1, <1>2 DEF Current, Active
<1> QED BY <1>1, <1>2, <1>3 DEF Active

-----------------------------------------------------------------------------
(* A step, by what it does to the operation of its process and to the      *)
(* files: the cases every invariant is proved along                        *)

(* What an operation that switches a mode on has decided                   *)
Decided(o) ==
  \/ /\ o.from = {} /\ (Fallback \/ file[o.scope][o.mode].active)
  \/ \E current \in {Visible(o.scope), Current(o.scope, o.mode)} :
       Machine!Allowed(current, o.mode) /\ o.from = Machine!Sources(current, o.mode)

Begun(p) ==
  /\ op[p].at = "idle" /\ (Busy = {} \/ Overlap)
  /\ trouble' = IF clean /\ Busy = {} THEN 0 ELSE trouble + 1
  /\ UNCHANGED <<file, root, copy>>
  /\ LET o == op'[p] IN
     /\ o.mode \in Modes /\ Proper(o.next) /\ o.mode \notin o.from
     /\ o.from # {} => o.next.active
     /\ o.kind \in {"clear", "clearAll"} => ~o.next.active
     /\ IF o.kind = "clearAll"
        THEN /\ o.scope = Root /\ o.at = "unlink" /\ o.from = {}
             /\ o.todo = {t \in Scopes : file[t][o.mode].exists}
        ELSE o.at = IF o.from = {} THEN "file" ELSE "source"
     /\ o.next.active => Decided(o)

LEMMA BeginDoes ==
  ASSUME TypeInv, NEW p \in Procs, NEW s \in Scopes, NEW m \in Modes, NEW o \in Op, Begins(p, s, m, o)
  PROVE  /\ Alone(p) /\ op'[p] = o /\ op[p].at = "idle" /\ (Busy = {} \/ Overlap)
         /\ trouble' = IF clean /\ Busy = {} THEN 0 ELSE trouble + 1
         /\ UNCHANGED <<file, root, copy>>
BY DEF Begins, TypeInv, Alone, At

LEMMA BeginWriteDoes ==
  ASSUME TypeInv, FileInv, NEW p \in Procs, BeginWrite(p)
  PROVE  Alone(p) /\ Begun(p)
<1>0. PICK s \in Scopes, m \in Modes :
        \E next \in Inputs(m) :
          /\ next.active => Machine!Allowed(Current(s, m), m)
          /\ LET from == IF next.active THEN Machine!Sources(Current(s, m), m) ELSE {} IN
             Begins(p, s, m, Operation("write", s, m, next, from,
                                       IF from = {} THEN "file" ELSE "source"))
  BY DEF BeginWrite
<1>1. PICK next \in Inputs(m) :
        /\ next.active => Machine!Allowed(Current(s, m), m)
        /\ LET from == IF next.active THEN Machine!Sources(Current(s, m), m) ELSE {} IN
           Begins(p, s, m, Operation("write", s, m, next, from,
                                     IF from = {} THEN "file" ELSE "source"))
  BY <1>0
<1> DEFINE from == IF next.active THEN Machine!Sources(Current(s, m), m) ELSE {}
           label == IF from = {} THEN "file" ELSE "source"
           o == Operation("write", s, m, next, from, label)
<1>2. next \in File /\ Proper(next)
  <2>1. /\ next \in [exists : {TRUE}, active : BOOLEAN, phase : Phase, evidence : Evidences]
        /\ ~next.active => next.phase = "none" /\ next.evidence = NoEvidence
    BY DEF Inputs, Kept
  <2>2. next \in File
    BY <2>1, StateAssumption DEF File
  <2>3. ~next.active => next = Tombstone
    <3>1. Tombstone.exists /\ ~Tombstone.active /\ Tombstone.phase = "none"
          /\ Tombstone.evidence = NoEvidence /\ Tombstone \in File
      BY FilesAre DEF Tombstone, NoFile
    <3>2. \A f \in File : f = [exists |-> f.exists, active |-> f.active, phase |-> f.phase,
                               evidence |-> f.evidence]
      BY DEF File
    <3>3. ~next.active => /\ next.exists = Tombstone.exists /\ next.active = Tombstone.active
                          /\ next.phase = Tombstone.phase /\ next.evidence = Tombstone.evidence
      BY <2>1, <2>2, <3>1 DEF File
    <3> QED BY <2>2, <3>1, <3>2, <3>3
  <2> QED BY <2>1, <2>2, <2>3 DEF Proper
<1>3. Current(s, m) \in SUBSET Modes /\ from \in SUBSET Modes /\ m \notin from /\ label \in Label
      /\ "write" \in OpKind
  BY ActiveIs, SourcesAre DEF Label, OpKind
<1> HIDE DEF from, label
<1>4. /\ o \in Op /\ o.at = label /\ o.kind = "write" /\ o.scope = s /\ o.mode = m
      /\ o.next = next /\ o.from = from
  BY <1>2, <1>3, OperationIs
<1>5. Begins(p, s, m, o)
  BY <1>1 DEF from, label
<1> HIDE DEF o
<1>6. next.active => Decided(o)
  BY <1>1, <1>4 DEF Decided, from
<1> QED BY <1>2, <1>3, <1>4, <1>5, <1>6, BeginDoes DEF Begun, from, label

LEMMA BeginStartDoes ==
  ASSUME TypeInv, NEW p \in Procs, BeginStart(p)
  PROVE  Alone(p) /\ Begun(p)
<1> DEFINE next == [Tombstone EXCEPT !.active = TRUE]
<1>1. PICK s \in Scopes, m \in Modes :
        LET from == Machine!Sources(Visible(s), m) IN
        /\ Machine!Allowed(Visible(s), m)
        /\ Begins(p, s, m, Operation("start", s, m, next, from,
                                     IF from = {} THEN "file" ELSE "source"))
  BY DEF BeginStart
<1> DEFINE from == Machine!Sources(Visible(s), m)
           label == IF from = {} THEN "file" ELSE "source"
           o == Operation("start", s, m, next, from, label)
<1>2. next \in File /\ Proper(next) /\ next.active
  BY FilesAre DEF Proper
<1>3. Visible(s) \in SUBSET Modes /\ from \in SUBSET Modes /\ m \notin from /\ label \in Label
      /\ "start" \in OpKind
  BY ActiveIs, SourcesAre DEF Label, OpKind
<1> HIDE DEF next
<1>4. Machine!Allowed(Visible(s), m) /\ Begins(p, s, m, o)
  BY <1>1
<1> HIDE DEF label
<1>5. /\ o \in Op /\ o.at = label /\ o.kind = "start" /\ o.scope = s /\ o.mode = m
      /\ o.next = next /\ o.from = from
  BY <1>2, <1>3, OperationIs
<1> HIDE DEF o
<1>6. Decided(o)
  BY <1>4, <1>5 DEF Decided
<1> HIDE DEF from
<1> QED BY <1>2, <1>3, <1>4, <1>5, <1>6, BeginDoes DEF Begun, label


LEMMA BeginUpdateDoes ==
  ASSUME TypeInv, FileInv, NEW p \in Procs, BeginUpdate(p)
  PROVE  Alone(p) /\ Begun(p)
<1>1. PICK s \in Scopes, m \in Modes, active \in BOOLEAN :
        LET now == IF file[s][m].exists THEN file[s][m] ELSE file[Root][m] IN
        /\ now.exists /\ (Fallback \/ file[s][m].exists)
        /\ active => now.active
        /\ Begins(p, s, m, Operation("update", s, m, IF active THEN now ELSE Tombstone, {}, "file"))
  BY DEF BeginUpdate
<1> DEFINE now == IF file[s][m].exists THEN file[s][m] ELSE file[Root][m]
           next == IF active THEN now ELSE Tombstone
           o == Operation("update", s, m, next, {}, "file")
<1>2. now \in File /\ Proper(now) /\ Tombstone \in File /\ Proper(Tombstone) /\ ~Tombstone.active
  BY FilesAre, ScopesAre DEF TypeInv, FileInv, Proper
<1>3. next \in File /\ Proper(next) /\ (next.active => Fallback \/ file[s][m].active)
  BY <1>1, <1>2
<1>4. Begins(p, s, m, o)
  BY <1>1
<1>5. {} \in SUBSET Modes /\ "file" \in Label /\ "update" \in OpKind
  BY DEF Label, OpKind
<1> HIDE DEF next, now
<1>6. /\ o \in Op /\ o.at = "file" /\ o.kind = "update" /\ o.scope = s /\ o.mode = m
      /\ o.next = next /\ o.from = {}
  BY <1>3, <1>5, OperationIs
<1> HIDE DEF o
<1>7. next.active => Decided(o)
  BY <1>3, <1>6 DEF Decided
<1> QED BY <1>3, <1>4, <1>6, <1>7, BeginDoes DEF Begun

LEMMA BeginClearDoes ==
  ASSUME TypeInv, NEW p \in Procs, BeginClear(p)
  PROVE  Alone(p) /\ Begun(p)
<1>1. PICK s \in Scopes, m \in Modes :
        Begins(p, s, m, Operation("clear", s, m,
          IF s # Root /\ file[Root][m].exists THEN Tombstone ELSE NoFile, {}, "file"))
  BY DEF BeginClear
<1> DEFINE next == IF s # Root /\ file[Root][m].exists THEN Tombstone ELSE NoFile
           o == Operation("clear", s, m, next, {}, "file")
<1>2. next \in File /\ Proper(next) /\ ~next.active
  BY FilesAre DEF Proper
<1>3. Begins(p, s, m, o)
  BY <1>1
<1>4. {} \in SUBSET Modes /\ "file" \in Label /\ "clear" \in OpKind
  BY DEF Label, OpKind
<1> HIDE DEF next
<1>5. /\ o \in Op /\ o.at = "file" /\ o.kind = "clear" /\ o.scope = s /\ o.mode = m
      /\ o.next = next /\ o.from = {}
  BY <1>2, <1>4, OperationIs
<1> HIDE DEF o
<1> QED BY <1>2, <1>3, <1>5, BeginDoes DEF Begun

LEMMA BeginClearAllDoes ==
  ASSUME TypeInv, NEW p \in Procs, BeginClearAll(p)
  PROVE  Alone(p) /\ Begun(p)
<1>1. PICK s \in Scopes, m \in Modes :
        Begins(p, s, m, [Operation("clearAll", Root, m, NoFile, {}, "unlink") EXCEPT
          !.todo = {t \in Scopes : file[t][m].exists}])
  BY DEF BeginClearAll
<1> DEFINE todo == {t \in Scopes : file[t][m].exists}
           base == Operation("clearAll", Root, m, NoFile, {}, "unlink")
           o == [base EXCEPT !.todo = todo]
<1>2. NoFile \in File /\ Proper(NoFile) /\ ~NoFile.active /\ todo \in SUBSET Scopes
  BY FilesAre DEF Proper
<1>3. Begins(p, s, m, o)
  BY <1>1
<1>4. {} \in SUBSET Modes /\ "unlink" \in Label /\ "clearAll" \in OpKind /\ Root \in Scopes
  BY ScopesAre DEF Label, OpKind
<1>5. /\ base \in Op /\ base.at = "unlink" /\ base.kind = "clearAll" /\ base.scope = Root
      /\ base.mode = m /\ base.next = NoFile /\ base.from = {}
  BY <1>2, <1>4, OperationIs
<1> HIDE DEF base, todo
<1>6. /\ o \in Op /\ o.at = "unlink" /\ o.kind = "clearAll" /\ o.scope = Root
      /\ o.mode = m /\ o.next = NoFile /\ o.from = {} /\ o.todo = todo
  BY <1>2, <1>5 DEF Op
<1> HIDE DEF o
<1> QED BY <1>2, <1>3, <1>6, BeginDoes DEF Begun, todo

SameSync(p) ==
  /\ op'[p].newRoot = op[p].newRoot /\ op'[p].newCopy = op[p].newCopy
  /\ op'[p].seen = op[p].seen

DidSource(p) ==
  /\ op[p].at = "source" /\ op'[p].at = "read" /\ SameRequest(p) /\ op'[p].from = op[p].from
  /\ \E c \in op[p].from :
       /\ op'[p].about = c
       /\ file' = IF file[op[p].scope][c].active
                  THEN [file EXCEPT ![op[p].scope][c] = Tombstone] ELSE file
  /\ UNCHANGED <<root, copy, trouble>>

DidFile(p) ==
  /\ op[p].at = "file" /\ op'[p].at = "read" /\ SameRequest(p) /\ op'[p].from = op[p].from
  /\ op'[p].about = op[p].mode
  /\ file' = [file EXCEPT ![op[p].scope][op[p].mode] = op[p].next]
  /\ UNCHANGED <<root, copy, trouble>>

DidUnlink(p) ==
  /\ op[p].at = "unlink" /\ SameRequest(p) /\ op'[p].from = op[p].from
  /\ \/ /\ op[p].todo = {} /\ op'[p].at = "read" /\ op'[p].about = op[p].mode /\ file' = file
     \/ \E s \in op[p].todo :
          /\ op'[p].at = "unlink" /\ op'[p].todo = op[p].todo \ {s}
          /\ file' = [file EXCEPT ![s][op[p].mode] = NoFile]
  /\ UNCHANGED <<root, copy, trouble>>

DidRead(p) ==
  /\ op[p].at = "read" /\ ~LateDenial(p)
  /\ \/ NothingToSync(p) /\ Continues(p)
     \/ /\ ~NothingToSync(p) /\ op'[p].at = "root" /\ SameRequest(p)
        /\ op'[p].from = op[p].from /\ op'[p].about = op[p].about
        /\ op'[p].newRoot = Sync(p).newRoot /\ op'[p].newCopy = Sync(p).newCopy
        /\ op'[p].seen = root.entries
  /\ UNCHANGED <<file, root, copy, trouble>>

DidRoot(p) ==
  /\ op[p].at = "root" /\ SameRequest(p) /\ SameSync(p)
  /\ op'[p].from = op[p].from /\ op'[p].about = op[p].about
  /\ op'[p].at = IF op[p].scope = Root THEN "mirrors" ELSE "copy"
  /\ op'[p].todo = IF op[p].scope = Root THEN {s \in Sessions : copy[s].exists} ELSE {}
  /\ root' = CopyOf(op[p].newRoot)
  /\ UNCHANGED <<file, copy, trouble>>

DidMirror(p) ==
  /\ op[p].at = "mirrors" /\ op'[p].at = "mirrors" /\ SameRequest(p) /\ SameSync(p)
  /\ op'[p].from = op[p].from /\ op'[p].about = op[p].about
  /\ \E s \in op[p].todo :
       LET next == Mirrored(p, s) IN
       /\ op'[p].todo = op[p].todo \ {s}
       /\ copy' = [copy EXCEPT ![s] = IF next = {} THEN NoCopy ELSE CopyOf(next)]
       /\ root' = IF next = {} THEN root ELSE CopyOf(op[p].newRoot)
  /\ UNCHANGED <<file, trouble>>

Ended(p) ==
  /\ op'[p] = Idle
  /\ \/ op[p].at = "source" /\ trouble' = trouble
     \/ LateDenial(p) /\ trouble' = trouble
     \/ op[p].at # "idle" /\ clean /\ trouble' = 1
  /\ UNCHANGED <<file, root, copy>>

Does(p) ==
  /\ Alone(p)
  /\ \/ Begun(p) \/ DidSource(p) \/ DidFile(p) \/ DidUnlink(p) \/ DidRead(p) \/ DidRoot(p)
     \/ WriteCopy(p) \/ DidMirror(p) \/ MirrorsDone(p) \/ Ended(p)


LEMMA Changed ==
  ASSUME TypeInv, NEW p \in Procs, NEW o \in Op, op' = [op EXCEPT ![p] = o]
  PROVE  Alone(p) /\ op'[p] = o
BY DEF TypeInv, Alone

LEMMA SyncType ==
  ASSUME TypeInv, NEW p \in Procs, op[p].about \in Modes
  PROVE  Sync(p).newRoot \subseteq Entries /\ Sync(p).newCopy \subseteq Modes
<1>1. /\ root.entries \subseteq Entries /\ op[p].scope \in Scopes
      /\ op[p].scope # Root => copy[op[p].scope].entries \subseteq Modes
  BY ActiveIs DEF TypeInv, RootCopy, SessionCopy, Op
<1>2. \A s : RootEntries(root.entries, s) \subseteq Modes
  BY DEF RootEntries
<1>3. CASE op[p].scope = Root
  <2>1. Sync(p) = RootSync(p) /\ <<op[p].about, Root>> \in Entries
    BY <1>3, ScopesAre DEF Sync, Entries
  <2> QED BY <1>1, <2>1 DEF RootSync
<1>4. CASE op[p].scope # Root
  <2> DEFINE s == op[p].scope
             m == op[p].about
             nextOnly == ((copy[s].entries \ RootEntries(root.entries, s)) \ {m})
                           \cup (IF Activates(p) THEN {m} ELSE {})
             rest == root.entries \ {<<m, s>>}
  <2>1. /\ Sync(p).newCopy = (RootEntries(root.entries, s) \ {m}) \cup nextOnly
        /\ Sync(p).newRoot = IF rest # {} THEN rest ELSE IF Activates(p) THEN nextOnly \X {s} ELSE {}
    BY <1>4 DEF Sync, SessionSync
  <2>2. nextOnly \subseteq Modes
    BY <1>1, <1>4
  <2>3. nextOnly \X {s} \subseteq Entries
    BY <1>1, <2>2 DEF Entries
  <2> QED BY <1>1, <1>2, <2>1, <2>2, <2>3
<1> QED BY <1>3, <1>4

LEMMA ReadCopiesDoes ==
  ASSUME TypeInv, OpInv, NEW p \in Procs, ReadCopies(p)
  PROVE  Alone(p) /\ DidRead(p)
<1>1. op[p].at = "read" /\ op[p].at \in Syncing /\ op[p].about \in Modes
  BY DEF ReadCopies, OpInv, Syncing, At
<1>2. CASE NothingToSync(p)
  BY <1>1, <1>2, ContinuesDoes DEF ReadCopies, DidRead
<1>3. CASE ~NothingToSync(p)
  <2> DEFINE sync == Sync(p)
  <2>1. sync.newRoot \subseteq Entries /\ sync.newCopy \subseteq Modes /\ "root" \in Label
        /\ root.entries \subseteq Entries
    BY <1>1, SyncType DEF Label, TypeInv, RootCopy
  <2>2. op' = [op EXCEPT ![p].at = "root", ![p].newRoot = sync.newRoot,
                         ![p].newCopy = sync.newCopy, ![p].seen = root.entries]
    BY <1>3 DEF ReadCopies
  <2> HIDE DEF sync
  <2>3. Alone(p)
    <3> DEFINE o == [op[p] EXCEPT !.at = "root", !.newRoot = sync.newRoot,
                                  !.newCopy = sync.newCopy, !.seen = root.entries]
    <3>1. o \in Op
      BY <2>1 DEF TypeInv, Op
    <3>2. op' = [op EXCEPT ![p] = o]
      BY <2>2 DEF TypeInv
    <3> HIDE DEF o
    <3> QED BY <3>1, <3>2, Changed
  <2>4. /\ op'[p].at = "root" /\ op'[p].newRoot = sync.newRoot /\ op'[p].newCopy = sync.newCopy
        /\ op'[p].seen = root.entries /\ op'[p].from = op[p].from /\ op'[p].about = op[p].about
        /\ SameRequest(p)
    BY <2>2 DEF TypeInv, Op, SameRequest
  <2> QED BY <1>1, <1>3, <2>3, <2>4 DEF ReadCopies, DidRead, sync
<1> QED BY <1>2, <1>3

LEMMA AboutChanged ==
  ASSUME TypeInv, NEW p \in Procs, NEW label \in Label, NEW c \in Modes,
         op' = [op EXCEPT ![p].at = label, ![p].about = c]
  PROVE  Alone(p)
<1> DEFINE o == [op[p] EXCEPT !.at = label, !.about = c]
<1>1. o \in Op
  BY DEF TypeInv, Op
<1>2. op' = [op EXCEPT ![p] = o]
  BY DEF TypeInv
<1> HIDE DEF o
<1> QED BY <1>1, <1>2, Changed

LEMMA TodoChanged ==
  ASSUME TypeInv, NEW p \in Procs, NEW s, op' = [op EXCEPT ![p].todo = @ \ {s}]
  PROVE  Alone(p)
<1> DEFINE o == [op[p] EXCEPT !.todo = @ \ {s}]
<1>1. o \in Op
  BY DEF TypeInv, Op
<1>2. op' = [op EXCEPT ![p] = o]
  BY DEF TypeInv
<1> HIDE DEF o
<1> QED BY <1>1, <1>2, Changed

LEMMA StepDoes == TypeInv /\ FileInv /\ OpInv /\ [Next]_vars => UNCHANGED vars \/ \E p \in Procs : Does(p)
<1> SUFFICES ASSUME TypeInv, FileInv, OpInv, [Next]_vars, ~UNCHANGED vars
             PROVE  \E p \in Procs : Does(p)
  OBVIOUS
<1>1. PICK p \in Procs : Begin(p) \/ Step(p) \/ Crash(p)
  BY DEF Next
<1>2. CASE Begin(p)
  BY <1>2, BeginWriteDoes, BeginStartDoes, BeginUpdateDoes, BeginClearDoes, BeginClearAllDoes
     DEF Begin, Does
<1>3. CASE CompleteSource(p)
  <2>1. PICK c \in op[p].from :
          /\ file' = IF file[op[p].scope][c].active
                     THEN [file EXCEPT ![op[p].scope][c] = Tombstone] ELSE file
          /\ op' = [op EXCEPT ![p].at = "read", ![p].about = c]
    BY <1>3 DEF CompleteSource
  <2>2. c \in Modes /\ "read" \in Label
    BY DEF TypeInv, Op, Label
  <2>3. Alone(p)
    BY <2>1, <2>2, AboutChanged
  <2>4. op'[p].at = "read" /\ op'[p].about = c /\ op'[p].from = op[p].from /\ SameRequest(p)
    BY <2>1 DEF TypeInv, Op, SameRequest
  <2> QED BY <1>3, <2>1, <2>3, <2>4 DEF CompleteSource, At, Does, DidSource
<1>4. CASE WriteFile(p)
  <2>1. op' = [op EXCEPT ![p].at = "read", ![p].about = op[p].mode] /\ op[p].at = "file"
    BY <1>4 DEF WriteFile, At
  <2>2. op[p].mode \in Modes /\ "read" \in Label
    BY <2>1 DEF OpInv, Label
  <2>3. Alone(p)
    BY <2>1, <2>2, AboutChanged
  <2>4. /\ op'[p].at = "read" /\ op'[p].about = op[p].mode /\ op'[p].from = op[p].from
        /\ SameRequest(p)
    BY <2>1 DEF TypeInv, Op, SameRequest
  <2> QED BY <1>4, <2>1, <2>3, <2>4 DEF WriteFile, Does, DidFile
<1>5. CASE Unlink(p)
  <2>0. op[p].at = "unlink" /\ op[p].mode \in Modes /\ "read" \in Label
    BY <1>5 DEF Unlink, At, OpInv, Label
  <2>1. CASE op[p].todo = {}
    <3>1. op' = [op EXCEPT ![p].at = "read", ![p].about = op[p].mode]
      BY <1>5, <2>1 DEF Unlink
    <3>2. Alone(p)
      BY <2>0, <3>1, AboutChanged
    <3>3. /\ op'[p].at = "read" /\ op'[p].about = op[p].mode /\ op'[p].from = op[p].from
          /\ SameRequest(p)
      BY <3>1 DEF TypeInv, Op, SameRequest
    <3> QED BY <1>5, <2>0, <2>1, <3>2, <3>3 DEF Unlink, Does, DidUnlink
  <2>2. CASE op[p].todo # {}
    <3>1. PICK s \in op[p].todo : /\ file' = [file EXCEPT ![s][op[p].mode] = NoFile]
                                  /\ op' = [op EXCEPT ![p].todo = @ \ {s}]
      BY <1>5, <2>2 DEF Unlink
    <3>2. Alone(p)
      BY <3>1, TodoChanged
    <3>3. /\ op'[p].at = op[p].at /\ op'[p].todo = op[p].todo \ {s} /\ op'[p].from = op[p].from
          /\ SameRequest(p)
      BY <3>1 DEF TypeInv, Op, SameRequest
    <3> QED BY <1>5, <2>0, <3>1, <3>2, <3>3 DEF Unlink, Does, DidUnlink
  <2> QED BY <2>1, <2>2
<1>6. CASE ReadCopies(p)
  BY <1>6, ReadCopiesDoes DEF Does
<1>7. CASE WriteRoot(p)
  <2> DEFINE todo == IF op[p].scope = Root THEN {s \in Sessions : copy[s].exists} ELSE {}
             label == IF op[p].scope = Root THEN "mirrors" ELSE "copy"
  <2>1. op' = [op EXCEPT ![p].at = label, ![p].todo = todo]
    BY <1>7 DEF WriteRoot
  <2>2. label \in Label /\ todo \in SUBSET Scopes
    BY ScopesAre DEF Label
  <2> HIDE DEF todo, label
  <2>3. Alone(p)
    <3> DEFINE o == [op[p] EXCEPT !.at = label, !.todo = todo]
    <3>1. o \in Op
      BY <2>2 DEF TypeInv, Op
    <3>2. op' = [op EXCEPT ![p] = o]
      BY <2>1 DEF TypeInv
    <3> HIDE DEF o
    <3> QED BY <3>1, <3>2, Changed
  <2>4. /\ op'[p].at = label /\ op'[p].todo = todo /\ op'[p].from = op[p].from
        /\ op'[p].about = op[p].about /\ SameRequest(p) /\ SameSync(p)
    BY <2>1 DEF TypeInv, Op, SameRequest, SameSync
  <2> QED BY <1>7, <2>3, <2>4 DEF WriteRoot, At, Does, DidRoot, todo, label
<1>8. CASE WriteCopy(p) \/ MirrorsDone(p)
  <2>1. op[p].at \in Syncing /\ Continues(p)
    BY <1>8 DEF WriteCopy, MirrorsDone, At, Syncing
  <2> QED BY <1>8, <2>1, ContinuesDoes DEF Does
<1>9. CASE WriteMirror(p)
  <2>1. PICK s \in op[p].todo :
          /\ copy' = [copy EXCEPT ![s] = IF Mirrored(p, s) = {} THEN NoCopy
                                         ELSE CopyOf(Mirrored(p, s))]
          /\ root' = IF Mirrored(p, s) = {} THEN root ELSE CopyOf(op[p].newRoot)
          /\ op' = [op EXCEPT ![p].todo = @ \ {s}]
    BY <1>9 DEF WriteMirror, Mirrored, MirroredOf, Dropped
  <2>2. Alone(p)
    BY <2>1, TodoChanged
  <2>3. /\ op'[p].at = op[p].at /\ op'[p].todo = op[p].todo \ {s} /\ op'[p].from = op[p].from
        /\ op'[p].about = op[p].about /\ SameRequest(p) /\ SameSync(p)
    BY <2>1 DEF TypeInv, Op, SameRequest, SameSync
  <2> QED BY <1>9, <2>1, <2>2, <2>3 DEF WriteMirror, At, Does, DidMirror
<1>10. CASE SourceThrows(p) \/ Deny(p) \/ Crash(p)
  <2>1. Alone(p) /\ op'[p] = Idle
    BY <1>10, EndsDoes DEF SourceThrows, Deny, Crash
  <2>2. Crash(p) => op[p].at # "idle"
    <3>1. op[p].at = "idle" => op[p].about = "none"
      BY DEF OpInv
    <3> QED BY <3>1 DEF Crash, At
  <2> QED BY <1>10, <2>1, <2>2 DEF SourceThrows, Deny, Crash, At, Does, Ended
<1> QED BY <1>1, <1>2, <1>3, <1>4, <1>5, <1>6, <1>7, <1>8, <1>9, <1>10 DEF Step


-----------------------------------------------------------------------------
(* Types, files, operations                                                *)

LEMMA InitShape == Init => TypeInv /\ FileInv /\ OpInv /\ SerialInv /\ ClearInv
<1> SUFFICES ASSUME Init PROVE TypeInv /\ FileInv /\ OpInv /\ SerialInv /\ ClearInv
  OBVIOUS
<1>1. TypeInv
  <2>1. NoCopy \in RootCopy /\ NoCopy \in SessionCopy
    BY DEF NoCopy, RootCopy, SessionCopy
  <2> QED BY <2>1, FilesAre, IdleIs DEF Init, TypeInv
<1>2. FileInv
  BY FilesAre, ScopesAre DEF Init, FileInv, Proper, NoCopy
<1>3. OpInv
  <2>1. Idle.mode = "none" /\ Idle.about = "none"
    BY DEF Idle
  <2> QED BY <2>1, IdleIs, FilesAre DEF Init, OpInv, Proper, Syncing
<1>4. Busy = {}
  BY IdleIs DEF Init, Busy, At
<1> QED BY <1>1, <1>2, <1>3, <1>4 DEF SerialInv, ClearInv

LEMMA CopyOfIs ==
  /\ \A e \in SUBSET Entries : CopyOf(e) \in RootCopy
  /\ \A e \in SUBSET Modes : CopyOf(e) \in SessionCopy
  /\ NoCopy \in SessionCopy /\ NoCopy.entries = {}
  /\ \A e : CopyOf(e).exists /\ CopyOf(e).entries = e
BY DEF CopyOf, NoCopy, RootCopy, SessionCopy

LEMMA MirroredType ==
  ASSUME TypeInv, NEW p \in Procs, NEW s \in Sessions
  PROVE  Mirrored(p, s) \subseteq Modes
BY DEF Mirrored, MirroredOf, RootEntries, TypeInv, SessionCopy

LEMMA ShapeNext ==
  ASSUME TypeInv, FileInv, OpInv, NEW p \in Procs, Does(p)
  PROVE  TypeInv' /\ FileInv'
<1>1. op' \in [Procs -> Op]
  BY DEF Does, Alone
<1>2. /\ op[p] \in Op /\ op[p].next \in File /\ Proper(op[p].next) /\ op[p].scope \in Scopes
      /\ NoFile \in File /\ Tombstone \in File /\ Proper(NoFile) /\ Proper(Tombstone)
  BY FilesAre DEF TypeInv, Op, OpInv, Proper
<1>3. ASSUME NEW f \in File, Proper(f), NEW s \in Scopes, NEW m \in Modes,
             file' = [file EXCEPT ![s][m] = f]
      PROVE  /\ file' \in [Scopes -> [Modes -> File]]
             /\ \A t \in Scopes, n \in Modes : Proper(file'[t][n])
  <2>1. [file[s] EXCEPT ![m] = f] \in [Modes -> File]
    BY <1>3 DEF TypeInv
  <2>2. file' = [file EXCEPT ![s] = [file[s] EXCEPT ![m] = f]]
    BY <1>3 DEF TypeInv
  <2>3. file' \in [Scopes -> [Modes -> File]]
    BY <2>1, <2>2 DEF TypeInv
  <2>4. \A t \in Scopes, n \in Modes : file'[t][n] = IF t = s /\ n = m THEN f ELSE file[t][n]
    BY <2>2 DEF TypeInv
  <2> QED BY <1>3, <2>3, <2>4 DEF FileInv
<1>4. CASE UNCHANGED <<root, copy, trouble>>
  <2>1. ASSUME file' = file PROVE TypeInv' /\ FileInv'
    BY <1>1, <1>4, <2>1 DEF TypeInv, FileInv
  <2>2. ASSUME NEW f \in File, Proper(f), NEW s \in Scopes, NEW m \in Modes,
               file' = [file EXCEPT ![s][m] = f]
        PROVE  TypeInv' /\ FileInv'
    BY <1>1, <1>3, <1>4, <2>2 DEF TypeInv, FileInv
  <2>3. CASE DidSource(p)
    <3>1. PICK c \in op[p].from : file' = IF file[op[p].scope][c].active
                                          THEN [file EXCEPT ![op[p].scope][c] = Tombstone] ELSE file
      BY <2>3 DEF DidSource
    <3>2. c \in Modes
      BY <1>2 DEF Op
    <3> QED BY <1>2, <2>1, <2>2, <3>1, <3>2
  <2>4. CASE DidFile(p)
    <3>1. op[p].mode \in Modes
      BY <2>4 DEF DidFile, OpInv
    <3> QED BY <1>2, <2>2, <2>4, <3>1 DEF DidFile
  <2>5. CASE DidUnlink(p)
    <3>1. op[p].mode \in Modes /\ op[p].todo \subseteq Scopes
      BY <1>2, <2>5 DEF DidUnlink, OpInv, Op
    <3> QED BY <1>2, <2>1, <2>2, <2>5, <3>1 DEF DidUnlink
  <2>6. CASE DidRead(p) \/ MirrorsDone(p) \/ Ended(p)
    BY <2>1, <2>6 DEF DidRead, MirrorsDone, Ended
  <2>7. CASE Begun(p)
    BY <2>1, <2>7 DEF Begun
  <2>8. CASE WriteCopy(p) \/ DidRoot(p) \/ DidMirror(p)
    BY <1>1, <1>4, <2>8 DEF WriteCopy, DidRoot, DidMirror, TypeInv, FileInv
  <2> QED BY <2>3, <2>4, <2>5, <2>6, <2>7, <2>8 DEF Does
<1>5. CASE Begun(p) \/ Ended(p)
  <2>1. trouble' \in Nat /\ UNCHANGED <<file, root, copy>>
    BY <1>5 DEF Begun, Ended, TypeInv
  <2> QED BY <1>1, <2>1 DEF TypeInv, FileInv
<1>6. CASE DidRoot(p)
  <2>1. root' \in RootCopy /\ root'.exists /\ UNCHANGED <<file, copy, trouble>>
    BY <1>2, <1>6, CopyOfIs DEF DidRoot, Op
  <2> QED BY <1>1, <2>1 DEF TypeInv, FileInv
<1>7. CASE WriteCopy(p)
  <2> DEFINE c == CopyOf(op[p].newCopy)
  <2>1. c \in SessionCopy /\ c.exists
    BY <1>2, CopyOfIs DEF Op
  <2>2. copy' = [copy EXCEPT ![op[p].scope] = c] /\ UNCHANGED <<file, root, trouble>>
    BY <1>7 DEF WriteCopy
  <2> HIDE DEF c
  <2> QED BY <1>1, <2>1, <2>2 DEF TypeInv, FileInv
<1>8. CASE DidMirror(p)
  <2>1. PICK s \in op[p].todo :
          /\ copy' = [copy EXCEPT ![s] = IF Mirrored(p, s) = {} THEN NoCopy ELSE CopyOf(Mirrored(p, s))]
          /\ root' = IF Mirrored(p, s) = {} THEN root ELSE CopyOf(op[p].newRoot)
    BY <1>8 DEF DidMirror
  <2> DEFINE c == IF Mirrored(p, s) = {} THEN NoCopy ELSE CopyOf(Mirrored(p, s))
  <2>2. s \in Sessions => c \in SessionCopy /\ (c.exists \/ c.entries = {})
    BY MirroredType, CopyOfIs
  <2>3. root' \in RootCopy /\ (root'.exists \/ root'.entries = {})
    BY <1>2, <2>1, CopyOfIs DEF TypeInv, FileInv, Op
  <2>4. copy' = [copy EXCEPT ![s] = c] /\ UNCHANGED <<file, trouble>>
    BY <1>8, <2>1 DEF DidMirror
  <2> HIDE DEF c
  <2> QED BY <1>1, <2>2, <2>3, <2>4 DEF TypeInv, FileInv
<1>9. CASE DidSource(p) \/ DidFile(p) \/ DidUnlink(p) \/ DidRead(p) \/ MirrorsDone(p)
  BY <1>4, <1>9 DEF DidSource, DidFile, DidUnlink, DidRead, MirrorsDone
<1> QED BY <1>5, <1>6, <1>7, <1>8, <1>9 DEF Does


(* Where Continues leads: the operation is over, or goes on with the next  *)
(* source or its file.                                                     *)
Resumed(p) ==
  IF op[p].about = op[p].mode THEN op'[p] = Idle
  ELSE /\ SameRequest(p) /\ op'[p].from = op[p].from \ {op[p].about}
       /\ op'[p].at = IF op'[p].from = {} THEN "file" ELSE "source"

LEMMA Resumes ==
  ASSUME TypeInv, OpInv, NEW p \in Procs,
         WriteCopy(p) \/ MirrorsDone(p) \/ (DidRead(p) /\ NothingToSync(p))
  PROVE  Resumed(p) /\ op[p].at \in Syncing
<1>1. Continues(p) /\ op[p].at \in Syncing
  BY DEF WriteCopy, MirrorsDone, DidRead, At, Syncing
<1> QED BY <1>1, ContinuesDoes DEF Resumed

LEMMA OpNext ==
  ASSUME TypeInv, OpInv, NEW p \in Procs, Does(p)
  PROVE  OpInv'
<1> DEFINE Good(o) ==
             /\ Proper(o.next) /\ o.mode \notin o.from
             /\ IF o.at = "idle" THEN o.about = "none" ELSE o.mode \in Modes
             /\ o.at \in Syncing => o.about \in Modes /\ (o.about = o.mode \/ o.about \in o.from)
             /\ o.at \in Syncing /\ o.about = o.mode => o.from = {}
             /\ (o.at = "file" => o.from = {}) /\ (o.at = "source" => o.from # {})
             /\ o.from # {} => o.next.active
             /\ o.kind \in {"clear", "clearAll"} => ~o.next.active
             /\ o.at = "unlink" => o.kind = "clearAll"
             /\ o.kind = "clearAll" => o.scope = Root /\ o.at # "file"
             /\ o.at = "copy" => o.scope # Root
             /\ o.at = "mirrors" => o.scope = Root
<1>1. Good(op[p]) /\ op[p] \in Op
  BY DEF OpInv, TypeInv
<1>2. ASSUME Good(op'[p]) PROVE OpInv'
  BY <1>2 DEF OpInv, Does, Alone, Proper
<1> DEFINE o == op[p]
           n == op'[p]
<1>3. Good(Idle)
  BY IdleIs, FilesAre DEF Proper, Idle, Syncing
<1>4. CASE Begun(p)
  BY <1>2, <1>4 DEF Begun, Proper, Syncing
<1>5. CASE DidSource(p)
  <2>1. /\ n.at = "read" /\ n.about \in o.from /\ o.at = "source" /\ n.from = o.from
        /\ n.kind = o.kind /\ n.scope = o.scope /\ n.mode = o.mode /\ n.next = o.next
    BY <1>5 DEF DidSource, SameRequest
  <2>2. o.from \subseteq Modes
    BY <1>1 DEF Op
  <2> QED BY <1>1, <1>2, <2>1, <2>2 DEF Syncing
<1>6. CASE DidFile(p)
  BY <1>1, <1>2, <1>6 DEF DidFile, SameRequest, Syncing
<1>7. CASE DidUnlink(p)
  BY <1>1, <1>2, <1>7 DEF DidUnlink, SameRequest, Syncing
<1>8. CASE WriteCopy(p) \/ MirrorsDone(p) \/ (DidRead(p) /\ NothingToSync(p))
  <2>1. Resumed(p) /\ o.at \in Syncing
    BY <1>8, Resumes
  <2>2. CASE o.about = o.mode
    BY <1>2, <1>3, <2>1, <2>2 DEF Resumed
  <2>3. CASE o.about # o.mode
    BY <1>1, <1>2, <2>1, <2>3 DEF Resumed, SameRequest, Syncing
  <2> QED BY <2>2, <2>3
<1>9. CASE DidRead(p) /\ ~NothingToSync(p)
  BY <1>1, <1>2, <1>9 DEF DidRead, SameRequest, Syncing
<1>10. CASE DidRoot(p) \/ DidMirror(p)
  BY <1>1, <1>2, <1>10 DEF DidRoot, DidMirror, SameRequest, Syncing
<1>11. CASE Ended(p)
  BY <1>2, <1>3, <1>11 DEF Ended
<1> QED BY <1>4, <1>5, <1>6, <1>7, <1>8, <1>9, <1>10, <1>11 DEF Does

(* An operation that is under way keeps its request until it is over.      *)
LEMMA KeepsRequest ==
  ASSUME TypeInv, OpInv, NEW p \in Procs, Does(p), op[p].at # "idle", op'[p].at # "idle"
  PROVE  SameRequest(p) /\ trouble' = trouble
<1>1. Idle.at = "idle"
  BY IdleIs
<1>2. CASE WriteCopy(p) \/ MirrorsDone(p) \/ (DidRead(p) /\ NothingToSync(p))
  BY <1>1, <1>2, Resumes DEF Resumed, WriteCopy, MirrorsDone, DidRead
<1> QED BY <1>1, <1>2 DEF Does, Begun, DidSource, DidFile, DidUnlink, DidRead, DidRoot, DidMirror,
           Ended

LEMMA SerialNext ==
  ASSUME TypeInv, SerialInv, NEW p \in Procs, Does(p)
  PROVE  SerialInv'
<1>1. \A q \in Procs \ {p} : op'[q] = op[q]
  BY DEF Does, Alone
<1>2. CASE Begun(p)
  <2>1. /\ Busy = {} \/ (Overlap /\ ~clean')
        /\ Busy' \subseteq Busy \cup {p}
    BY <1>1, <1>2 DEF Begun, Busy, At, clean, TypeInv
  <2> QED BY <2>1 DEF SerialInv
<1>3. CASE ~Begun(p)
  <2>1. op[p].at # "idle" /\ (clean' => clean)
    BY <1>3 DEF Does, DidSource, DidFile, DidUnlink, DidRead, DidRoot, DidMirror, Ended,
       WriteCopy, MirrorsDone, At, LateDenial, clean
  <2>2. Busy' \subseteq Busy
    BY <1>1, <2>1 DEF Busy, At
  <2> QED BY <2>1, <2>2 DEF SerialInv
<1> QED BY <1>2, <1>3


-----------------------------------------------------------------------------
(* Clearing                                                                *)

(* A mode that is not switched on is left out of what is written.          *)
LEMMA SyncClears ==
  ASSUME NEW p \in Procs, ~Activates(p)
  PROVE  /\ <<op[p].about, op[p].scope>> \notin Sync(p).newRoot
         /\ op[p].scope # Root => op[p].about \notin Sync(p).newCopy
         /\ op[p].scope = Root /\ op[p].kind = "clearAll" =>
              \A t : <<op[p].about, t>> \notin Sync(p).newRoot
<1> DEFINE m == op[p].about
           s == op[p].scope
<1>1. CASE s = Root
  <2>1. Sync(p) = RootSync(p)
    BY <1>1 DEF Sync
  <2>2. CASE op[p].kind = "clearAll"
    <3>1. Sync(p).newRoot = {e \in root.entries : e[1] # m}
      BY <2>1, <2>2 DEF RootSync
    <3> QED BY <1>1, <3>1
  <2>3. CASE op[p].kind # "clearAll"
    <3> DEFINE own == {e \in root.entries : e[2] = Root}
    <3>1. Sync(p).newRoot = (root.entries \ own) \cup (own \ {<<m, Root>>}) \cup {}
      BY <2>1, <2>3 DEF RootSync
    <3>2. <<m, Root>> \notin Sync(p).newRoot
      BY <3>1
    <3> QED BY <1>1, <2>3, <3>2
  <2> QED BY <2>2, <2>3
<1>2. CASE s # Root
  <2> DEFINE nextOnly == ((copy[s].entries \ RootEntries(root.entries, s)) \ {m}) \cup {}
             rest == root.entries \ {<<m, s>>}
  <2>1. /\ Sync(p).newCopy = (RootEntries(root.entries, s) \ {m}) \cup nextOnly
        /\ Sync(p).newRoot = IF rest # {} THEN rest ELSE {}
    BY <1>2 DEF Sync, SessionSync
  <2> QED BY <1>2, <2>1
<1> QED BY <1>1, <1>2

(* A process that clears is alone, and it clears one mode after it has     *)
(* removed or replaced its file.                                           *)
LEMMA ClearNext ==
  ASSUME TypeInv, FileInv, OpInv, SerialInv, ClearInv, ~Overlap, NEW p \in Procs, Does(p)
  PROVE  ClearInv'
<1> SUFFICES ASSUME NEW q \in Busy', op'[q].kind \in {"clear", "clearAll"}
             PROVE  Clearing(q)'
  BY DEF ClearInv
<1>1. q = p /\ op'[p].at # "idle"
  <2>1. ASSUME q # p PROVE FALSE
    <3>1. q \in Busy /\ op'[q] = op[q]
      BY <2>1 DEF Busy, Does, Alone, At
    <3>2. p \notin Busy
      BY <2>1, <3>1 DEF SerialInv
    <3>3. op[p].at = "idle"
      BY <3>2 DEF Busy, At
    <3> QED BY <3>1, <3>3 DEF Does, Begun, DidSource, DidFile, DidUnlink, DidRead, DidRoot,
               DidMirror, WriteCopy, MirrorsDone, Ended, LateDenial, At
  <2> QED BY <2>1 DEF Busy, At
<1> DEFINE o == op[p]
           n == op'[p]
<1>2. CASE Begun(p)
  <2>1. n.at \in {"file", "source", "unlink"} /\ file' = file
    BY <1>2 DEF Begun
  <2>2. n.at = "unlink" => /\ n.mode \in Modes
                           /\ n.todo = {t \in Scopes : file[t][n.mode].exists}
    BY <1>2 DEF Begun
  <2>3. n.at = "unlink" => \A t \in Scopes \ n.todo : ~file[t][n.mode].active
    BY <2>2 DEF FileInv, Proper
  <2> QED BY <1>1, <2>1, <2>3 DEF Clearing, Syncing
<1>3. CASE o.at # "idle"
  <2>1. /\ SameRequest(p) /\ o.kind \in {"clear", "clearAll"} /\ p \in Busy /\ Clearing(p)
        /\ o.from = {} /\ o.mode \in Modes /\ ~o.next.active
    BY <1>1, <1>3, KeepsRequest DEF SameRequest, ClearInv, Busy, At, OpInv
  <2>2. o.at \in Syncing => o.about = o.mode
    BY <2>1 DEF OpInv
  <2>3. Touches(op'[p]) = Touches(op[p]) /\ Touches(op[p]) \subseteq Scopes
    BY <2>1 DEF Touches, SameRequest, TypeInv, Op
  <2>4. CASE DidSource(p)
    BY <2>1, <2>4 DEF DidSource
  <2>5. CASE DidFile(p)
    <3>1. n.at = "read" /\ file' = [file EXCEPT ![o.scope][o.mode] = o.next] /\ o.at = "file"
      BY <2>5 DEF DidFile
    <3>2. o.scope \in Scopes /\ Touches(op[p]) = {o.scope}
      BY <2>1, <3>1 DEF TypeInv, Op, Touches, OpInv
    <3>3. ~file'[o.scope][o.mode].active
      BY <2>1, <3>1, <3>2 DEF TypeInv
    <3> QED BY <1>1, <2>1, <2>3, <3>1, <3>2, <3>3 DEF Clearing, SameRequest, Syncing
  <2>6. CASE DidUnlink(p)
    <3>1. o.at = "unlink" /\ \A t \in Scopes \ o.todo : ~file[t][o.mode].active
      BY <2>1, <2>6 DEF DidUnlink, Clearing
    <3>2. CASE o.todo = {} /\ n.at = "read" /\ file' = file
      BY <1>1, <2>1, <2>3, <3>1, <3>2 DEF Clearing, SameRequest, Syncing
    <3>3. CASE \E s \in o.todo : /\ n.at = "unlink" /\ n.todo = o.todo \ {s}
                                 /\ file' = [file EXCEPT ![s][o.mode] = NoFile]
      <4>1. PICK s \in o.todo : /\ n.at = "unlink" /\ n.todo = o.todo \ {s}
                                /\ file' = [file EXCEPT ![s][o.mode] = NoFile]
        BY <3>3
      <4>2. s \in Scopes /\ ~NoFile.active
        BY FilesAre DEF TypeInv, Op
      <4>3. \A t \in Scopes : ~file[t][o.mode].active => ~file'[t][o.mode].active
        BY <2>1, <4>1, <4>2 DEF TypeInv
      <4>4. ~file'[s][o.mode].active
        BY <2>1, <4>1, <4>2 DEF TypeInv
      <4> QED BY <1>1, <2>1, <3>1, <4>1, <4>3, <4>4 DEF Clearing, SameRequest, Syncing
    <3> QED BY <2>6, <3>2, <3>3 DEF DidUnlink
  <2>7. CASE WriteCopy(p) \/ MirrorsDone(p) \/ (DidRead(p) /\ NothingToSync(p))
    <3>1. n = Idle
      BY <2>2, <2>7, Resumes DEF Resumed
    <3> QED BY <1>1, <3>1, IdleIs
  <2>8. CASE DidRead(p) /\ ~NothingToSync(p)
    <3>1. /\ o.at = "read" /\ n.at = "root" /\ n.newRoot = Sync(p).newRoot
          /\ n.newCopy = Sync(p).newCopy /\ file' = file
      BY <2>8 DEF DidRead
    <3>2. ~Activates(p) /\ o.about = o.mode
      BY <2>1, <2>2, <3>1 DEF Activates, Syncing
    <3>3. \A t \in Touches(op[p]) : <<o.mode, t>> \notin n.newRoot
      BY <3>1, <3>2, SyncClears DEF Touches, OpInv
    <3>4. o.scope # Root => o.mode \notin n.newCopy
      BY <3>1, <3>2, SyncClears
    <3>5. \A t \in Touches(op[p]) : ~file'[t][o.mode].active
      BY <2>1, <3>1 DEF Clearing, Syncing
    <3> QED BY <1>1, <2>1, <2>3, <3>1, <3>3, <3>4, <3>5 DEF Clearing, SameRequest, Syncing
  <2>9. CASE DidRoot(p)
    <3>1. /\ o.at = "root" /\ n.at \in {"copy", "mirrors"} /\ n.newRoot = o.newRoot
          /\ n.newCopy = o.newCopy /\ root'.entries = o.newRoot /\ file' = file /\ copy' = copy
          /\ n.at = "mirrors" => n.todo = {s \in Sessions : copy[s].exists}
      BY <2>9, CopyOfIs DEF DidRoot, SameSync
    <3>2. \A s \in Sessions : copy[s].exists \/ copy[s].entries = {}
      BY DEF FileInv
    <3> QED BY <1>1, <2>1, <2>3, <3>1, <3>2 DEF Clearing, SameRequest, Syncing
  <2>10. CASE DidMirror(p)
    <3>1. PICK s \in o.todo :
            /\ o.at = "mirrors" /\ n.at = "mirrors" /\ n.newRoot = o.newRoot
            /\ n.newCopy = o.newCopy /\ file' = file /\ n.todo = o.todo \ {s}
            /\ copy' = [copy EXCEPT ![s] = IF Mirrored(p, s) = {} THEN NoCopy
                                           ELSE CopyOf(Mirrored(p, s))]
            /\ root' = IF Mirrored(p, s) = {} THEN root ELSE CopyOf(o.newRoot)
      BY <2>10 DEF DidMirror, SameSync
    <3>2. root'.entries = o.newRoot
      BY <2>1, <3>1, CopyOfIs DEF Clearing
    <3>3. ASSUME o.kind = "clearAll", NEW t \in Sessions \ n.todo
          PROVE  o.mode \notin copy'[t].entries
      <4>1. CASE t # s
        <5>1. copy'[t] = copy[t] /\ t \notin o.todo
          BY <3>1, <3>3, <4>1 DEF TypeInv
        <5> QED BY <2>1, <3>1, <3>3, <5>1 DEF Clearing
      <4>2. CASE t = s
        <5>1. copy'[t].entries = Mirrored(p, s)
          BY <3>1, <3>3, <4>2, CopyOfIs DEF TypeInv
        <5>2. o.about = o.mode /\ <<o.mode, s>> \notin o.newRoot
          BY <2>1, <2>2, <3>1, <3>3, <4>2, ScopesAre DEF Syncing, Clearing, Touches
        <5> QED BY <3>3, <5>1, <5>2 DEF Mirrored, MirroredOf, Dropped, RootEntries
      <4> QED BY <4>1, <4>2
    <3> QED BY <1>1, <2>1, <2>3, <3>1, <3>2, <3>3 DEF Clearing, SameRequest, Syncing
  <2>11. CASE Ended(p)
    BY <1>1, <2>11, IdleIs DEF Ended
  <2>12. CASE Begun(p)
    BY <1>3, <2>12 DEF Begun
  <2> QED BY <2>4, <2>5, <2>6, <2>7, <2>8, <2>9, <2>10, <2>11, <2>12 DEF Does
<1>4. CASE o.at = "idle" /\ ~Begun(p)
  BY <1>4 DEF Does, DidSource, DidFile, DidUnlink, DidRead, DidRoot, DidMirror, WriteCopy,
     MirrorsDone, Ended, LateDenial, At
<1> QED BY <1>2, <1>3, <1>4


(* When a clear returns, no file and no copy of its scope names the mode.  *)
Recovered(q, s) ==
  /\ ~file'[s][op[q].mode].active
  /\ s # Root => op[q].mode \notin copy'[s].entries
  /\ op[q].mode \notin RootEntries(root'.entries, s)

LEMMA Recovers ==
  ASSUME TypeInv, FileInv, OpInv, ClearInv, ~Overlap, NEW p \in Procs, Does(p),
         NEW q \in Procs, NEW s \in Scopes, op[q].at # "idle", op'[q] = Idle, ~(clean /\ ~clean'),
         op[q].kind = "clearAll" \/ (op[q].kind = "clear" /\ op[q].scope = s)
  PROVE  Recovered(q, s)
<1> DEFINE o == op[q]
<1>1. q = p
  BY IdleIs DEF Does, Alone
<1>2. /\ o.from = {} /\ o.mode \in Modes /\ ~o.next.active /\ ~Activates(q)
      /\ o.at \in Syncing => o.about = o.mode
      /\ q \in Busy /\ Clearing(q) /\ s \in Touches(o)
  BY DEF OpInv, Activates, Busy, At, ClearInv, Touches, Syncing
<1>3. CASE DidRead(p)
  <2>1. NothingToSync(p)
    BY <1>1, <1>3, IdleIs DEF DidRead
  <2>2. /\ root.entries = {} /\ o.scope = s /\ (s # Root => copy[s].entries = {})
        /\ UNCHANGED <<file, root, copy>> /\ o.at = "read"
    BY <1>1, <1>3, <2>1, ActiveIs DEF NothingToSync, FileInv, DidRead
  <2> QED BY <1>2, <2>2 DEF Clearing, Syncing, RootEntries, Recovered
<1>4. CASE WriteCopy(p)
  <2>1. /\ o.at = "copy" /\ o.scope # Root /\ o.scope = s /\ s \in Sessions
        /\ copy' = [copy EXCEPT ![s] = CopyOf(o.newCopy)] /\ UNCHANGED <<file, root>>
    BY <1>1, <1>4, ActiveIs DEF WriteCopy, At, OpInv
  <2>2. copy'[s].entries = o.newCopy
    BY <2>1, CopyOfIs DEF TypeInv
  <2> QED BY <1>2, <2>1, <2>2 DEF Clearing, Syncing, RootEntries, Recovered
<1>5. CASE MirrorsDone(p)
  <2>1. /\ o.at = "mirrors" /\ o.todo = {} /\ UNCHANGED <<file, root, copy>> /\ o.scope = Root
    BY <1>1, <1>5 DEF MirrorsDone, At, OpInv
  <2>2. s # Root => o.mode \notin copy[s].entries
    BY <1>2, <2>1, ActiveIs DEF Clearing
  <2> QED BY <1>2, <2>1, <2>2 DEF Clearing, Syncing, RootEntries, Recovered
<1>6. CASE Ended(p)
  <2>1. trouble' # 0 \/ ~clean \/ o.at = "source" \/ LateDenial(p)
    BY <1>1, <1>6 DEF Ended
  <2>2. o.at # "source" /\ ~LateDenial(p)
    BY <1>1, <1>2 DEF OpInv, LateDenial
  <2> QED BY <1>1, <1>6, <2>1, <2>2 DEF Ended, clean
<1> QED BY <1>1, <1>3, <1>4, <1>5, <1>6, IdleIs DEF Does, Begun, DidSource, DidFile, DidUnlink,
           DidRoot, DidMirror



-----------------------------------------------------------------------------
(* Operations one after another                                            *)

(* The active modes as a function, and what writing one file makes of it   *)
Acts == [Scopes -> SUBSET Modes]
Switched(act, s, m, on) == [act EXCEPT ![s] = IF on THEN @ \cup {m} ELSE @ \ {m}]

LEMMA ActsAre ==
  /\ ActiveModes \in Acts
  /\ \A s \in Scopes : ActiveModes[s] = Active(s)
  /\ \A s \in Scopes, m \in Modes : m \in ActiveModes[s] <=> file[s][m].active
BY DEF ActiveModes, Acts, Active

LEMMA ActsNext ==
  ASSUME TypeInv, NEW s \in Scopes, NEW m \in Modes, NEW f, file' = [file EXCEPT ![s][m] = f]
  PROVE  ActiveModes' = Switched(ActiveModes, s, m, f.active)
<1>1. file' = [file EXCEPT ![s] = [file[s] EXCEPT ![m] = f]]
  BY DEF TypeInv
<1>2. \A t \in Scopes, n \in Modes : file'[t][n] = IF t = s /\ n = m THEN f ELSE file[t][n]
  BY <1>1 DEF TypeInv
<1>3. ActiveModes' = [t \in Scopes |-> {n \in Modes : file'[t][n].active}]
  BY DEF ActiveModes, Active
<1>4. ActiveModes = [t \in Scopes |-> {n \in Modes : file[t][n].active}]
  BY DEF ActiveModes, Active
<1>5. \A t \in Scopes \ {s} : ActiveModes'[t] = ActiveModes[t]
  BY <1>2, <1>3, <1>4
<1>6. ActiveModes'[s] = IF f.active THEN ActiveModes[s] \cup {m} ELSE ActiveModes[s] \ {m}
  BY <1>2, <1>3, <1>4
<1> QED BY <1>3, <1>4, <1>5, <1>6 DEF Switched

LEMMA JoinsOverlapping ==
  ASSUME NEW current \in SUBSET Modes, NEW mode \in Modes,
         Machine!Kind(current, mode) \in {"allow", "overlap"}
  PROVE  mode \in current \/ current = {} \/ \A c \in current : Machine!Overlaps(c, mode)
BY DEF Machine!Kind

(* Where the copies list what is active, both ways of reading them give    *)
(* the active modes, and what is decided by them fits the detail files.    *)
LEMMA DecidedFits ==
  ASSUME TypeInv, Agree, ~Fallback, NEW o \in Op, o.mode \in Modes, Decided(o)
  PROVE  FitsOn(o, ActiveModes)
<1>1. o.scope \in Scopes /\ ActiveModes[o.scope] \in SUBSET Modes
      /\ ActiveModes[o.scope] = Active(o.scope)
  BY ActsAre DEF Op, Acts
<1>2. Visible(o.scope) = ActiveModes[o.scope]
  BY <1>1, ActiveIs DEF Visible, Agree, AgreeOn, RootAgreeOn
<1>3. Current(o.scope, o.mode) = ActiveModes[o.scope]
  BY <1>1, <1>2 DEF Current
<1>4. CASE o.from = {} /\ file[o.scope][o.mode].active
  <2>1. o.mode \in ActiveModes[o.scope] \ o.from
    BY <1>1, <1>4, ActsAre
  <2> QED BY <2>1 DEF FitsOn, Machine!Kind
<1>5. CASE /\ Machine!Allowed(ActiveModes[o.scope], o.mode)
           /\ o.from = Machine!Sources(ActiveModes[o.scope], o.mode)
  BY <1>1, <1>5, SourcesAre DEF FitsOn
<1> QED BY <1>2, <1>3, <1>4, <1>5 DEF Decided

(* ... so the assertion inside the synchronisation does not fail.          *)
LEMMA NotLate ==
  ASSUME TypeInv, OpInv, Machine!OneAtATime, NEW p \in Procs, Going(p)
  PROVE  ~LateDenial(p)
<1> SUFFICES ASSUME op[p].at = "read", Activates(p),
                    ~Machine!Allowed(Sync(p).visible, op[p].about)
             PROVE  FALSE
  BY DEF LateDenial, At
<1> DEFINE o == op[p]
           s == o.scope
           m == o.about
           visible == Sync(p).visible
<1>1. o.kind # "clearAll" /\ s \in Scopes /\ m \in Modes
  BY DEF OpInv, Activates, TypeInv, Op, Syncing
<1>2. m \in ActiveModes[s] /\ AgreeBut(o, m, ActiveModes, root.entries, copy) /\ s \in Touches(o)
  BY <1>1 DEF Going, GoingOn, Switches, Activates, Syncing, Touches
<1>3. visible = IF s = Root THEN RootEntries(root.entries, Root)
                ELSE RootEntries(root.entries, s) \cup copy[s].entries
  BY DEF Sync, RootSync, SessionSync
<1>4. visible \ {m} \subseteq ActiveModes[s]
  BY <1>1, <1>2, <1>3, ActiveIs DEF AgreeBut, But
<1>5. \A c \in visible : c = m \/ Machine!Overlaps(c, m)
  BY <1>1, <1>2, <1>4 DEF Machine!OneAtATime
<1>6. Machine!Kind(visible, m) # "deny"
  BY <1>5 DEF Machine!Kind
<1> QED BY <1>6 DEF Machine!Allowed


(* What holds after a step of p                                            *)
After(p) ==
  IF op'[p].at = "idle" THEN AgreeOn(ActiveModes', root'.entries, copy')
  ELSE GoingOn(op'[p], ActiveModes', root'.entries, copy')

LEMMA SameActs ==
  ASSUME file' = file PROVE ActiveModes' = ActiveModes
BY DEF ActiveModes, Active

LEMMA AfterBegun ==
  ASSUME TypeInv, FileInv, Agree, ~Fallback, NEW p \in Procs, Alone(p), Begun(p)
  PROVE  After(p)
<1> DEFINE o == op'[p]
<1>1. ActiveModes' = ActiveModes /\ root' = root /\ copy' = copy /\ file' = file
  BY SameActs DEF Begun
<1>2. o \in Op /\ o.mode \in Modes /\ o.at \in {"file", "source", "unlink"}
  BY DEF Alone, Begun
<1>3. o.next.active => FitsOn(o, ActiveModes)
  BY <1>2, DecidedFits DEF Begun
<1>4. AgreeBut(o, o.mode, ActiveModes, root.entries, copy)
  BY DEF Agree, AgreeOn, RootAgreeOn, AgreeBut, But
<1>5. o.at = "unlink" => o.todo = {t \in Scopes : file[t][o.mode].exists}
  BY DEF Begun
<1>6. \A t \in Scopes : o.mode \in ActiveModes[t] => file[t][o.mode].exists
  BY <1>2, ActsAre DEF FileInv, Proper
<1>7. o.at = "unlink" => \A t \in Scopes \ o.todo : o.mode \notin ActiveModes[t]
  BY <1>5, <1>6
<1> QED BY <1>1, <1>2, <1>3, <1>4, <1>7 DEF After, GoingOn, Agree, Syncing

LEMMA AfterSource ==
  ASSUME TypeInv, OpInv, NEW p \in Procs, Going(p), DidSource(p)
  PROVE  /\ After(p)
         /\ \E s \in Scopes, c \in Modes : ActiveModes' = Switched(ActiveModes, s, c, FALSE)
<1> DEFINE o == op[p]
           n == op'[p]
           s == o.scope
           act == ActiveModes
<1>1. PICK c \in o.from :
        /\ n.about = c
        /\ file' = IF file[s][c].active THEN [file EXCEPT ![s][c] = Tombstone] ELSE file
  BY DEF DidSource
<1>2. /\ s \in Scopes /\ c \in Modes /\ c # o.mode /\ o.mode \in Modes /\ o.next.active
      /\ o.kind # "clearAll" /\ act \in Acts /\ o.from \subseteq Modes
  BY <1>1, ActsAre DEF TypeInv, Op, OpInv, DidSource
<1>3. ActiveModes' = Switched(act, s, c, FALSE)
  <2>1. CASE file[s][c].active
    <3>1. file' = [file EXCEPT ![s][c] = Tombstone] /\ ~Tombstone.active
      BY <1>1, <2>1, FilesAre
    <3>2. Tombstone.active = FALSE
      BY <3>1 DEF Tombstone, NoFile
    <3> QED BY <1>2, <3>1, <3>2, ActsNext
  <2>2. CASE ~file[s][c].active
    BY <1>1, <1>2, <2>2, SameActs, ActsAre DEF Switched, Acts
  <2> QED BY <2>1, <2>2
<1>4. /\ n.at = "read" /\ n.from = o.from /\ n.scope = s /\ n.kind = o.kind /\ n.mode = o.mode
      /\ n.next = o.next /\ n.about = c /\ root' = root /\ copy' = copy /\ o.at = "source"
  BY <1>1 DEF DidSource, SameRequest
<1> DEFINE new == Switched(act, s, c, FALSE)
<1>5. new[s] = act[s] \ {c} /\ \A t \in Scopes \ {s} : new[t] = act[t]
  BY <1>2 DEF Switched, Acts
<1> HIDE DEF new
<1>6. FitsOn(o, act) /\ AgreeOn(act, root.entries, copy)
  BY <1>2, <1>4 DEF Going, GoingOn
<1>7. FitsOn(n, new)
  <2>1. new[s] \ n.from = act[s] \ o.from
    BY <1>1, <1>4, <1>5
  <2> QED BY <1>4, <1>6, <2>1 DEF FitsOn
<1>8. Touches(n) = {s}
  BY <1>2, <1>4 DEF Touches
<1>9. AgreeBut(n, c, new, root.entries, copy)
  BY <1>5, <1>6, <1>8, ScopesAre DEF AgreeOn, RootAgreeOn, AgreeBut, But
<1>10. n.about \notin new[s] /\ ~Switches(n)
  BY <1>2, <1>4, <1>5 DEF Switches
<1>11. GoingOn(n, new, root.entries, copy)
  BY <1>4, <1>7, <1>8, <1>9, <1>10 DEF GoingOn, Syncing
<1> QED BY <1>2, <1>3, <1>4, <1>11 DEF After, new

LEMMA AfterFile ==
  ASSUME TypeInv, OpInv, NEW p \in Procs, Going(p), DidFile(p)
  PROVE  /\ After(p)
         /\ LET s == op[p].scope
                m == op[p].mode
                on == op[p].next.active IN
            /\ s \in Scopes /\ m \in Modes /\ on \in BOOLEAN
            /\ ActiveModes' = Switched(ActiveModes, s, m, on)
            /\ on => Machine!Kind(ActiveModes[s], m) \in {"allow", "overlap"}
<1> DEFINE o == op[p]
           n == op'[p]
           s == o.scope
           m == o.mode
           on == o.next.active
           act == ActiveModes
<1>1. /\ s \in Scopes /\ m \in Modes /\ on \in BOOLEAN /\ o.from = {} /\ o.kind # "clearAll"
      /\ o.at = "file" /\ act \in Acts
  BY ActsAre DEF TypeInv, Op, File, OpInv, DidFile
<1>2. ActiveModes' = Switched(act, s, m, on)
  BY <1>1, ActsNext DEF DidFile
<1>3. /\ n.at = "read" /\ n.from = o.from /\ n.scope = s /\ n.kind = o.kind /\ n.mode = m
      /\ n.next = o.next /\ n.about = m /\ root' = root /\ copy' = copy
  BY DEF DidFile, SameRequest
<1> DEFINE new == Switched(act, s, m, on)
<1>4. /\ new[s] = IF on THEN act[s] \cup {m} ELSE act[s] \ {m}
      /\ \A t \in Scopes \ {s} : new[t] = act[t]
  BY <1>1 DEF Switched, Acts
<1> HIDE DEF new
<1>5. AgreeOn(act, root.entries, copy) /\ (on => FitsOn(o, act))
  BY <1>1 DEF Going, GoingOn
<1>6. Touches(n) = {s} /\ (Switches(n) <=> on)
  BY <1>1, <1>3 DEF Touches, Switches
<1>7. AgreeBut(n, m, new, root.entries, copy)
  BY <1>4, <1>5, <1>6, ScopesAre DEF AgreeOn, RootAgreeOn, AgreeBut, But
<1>8. m \in new[s] <=> on
  BY <1>4
<1>9. GoingOn(n, new, root.entries, copy)
  BY <1>3, <1>6, <1>7, <1>8 DEF GoingOn, Syncing
<1>10. on => Machine!Kind(act[s], m) \in {"allow", "overlap"}
  <2>1. act[s] \ o.from = act[s]
    BY <1>1
  <2> QED BY <1>5, <2>1 DEF FitsOn
<1> QED BY <1>1, <1>2, <1>3, <1>9, <1>10 DEF After, new

LEMMA AfterUnlink ==
  ASSUME TypeInv, OpInv, NEW p \in Procs, Going(p), DidUnlink(p)
  PROVE  /\ After(p)
         /\ \/ ActiveModes' = ActiveModes
            \/ \E s \in Scopes, c \in Modes : ActiveModes' = Switched(ActiveModes, s, c, FALSE)
<1> DEFINE o == op[p]
           n == op'[p]
           m == o.mode
           act == ActiveModes
<1>1. /\ o.at = "unlink" /\ m \in Modes /\ o.kind = "clearAll" /\ ~o.next.active /\ o.from = {}
      /\ act \in Acts /\ o.todo \subseteq Scopes
  BY ActsAre DEF TypeInv, Op, OpInv, DidUnlink
<1>2. /\ n.scope = o.scope /\ n.kind = o.kind /\ n.mode = m /\ n.next = o.next
      /\ root' = root /\ copy' = copy
  BY DEF DidUnlink, SameRequest
<1>3. /\ AgreeBut(o, m, act, root.entries, copy)
      /\ \A t \in Scopes \ o.todo : m \notin act[t]
  BY <1>1 DEF Going, GoingOn
<1>4. Touches(o) = Scopes /\ Touches(n) = Scopes
  BY <1>1, <1>2 DEF Touches
<1>5. CASE o.todo = {} /\ n.at = "read" /\ n.about = m /\ file' = file
  <2>1. ActiveModes' = act
    BY <1>5, SameActs
  <2>2. AgreeBut(n, m, act, root.entries, copy)
    BY <1>3, <1>4 DEF AgreeBut, But
  <2>3. ~Switches(n) /\ \A t \in Scopes : m \notin act[t]
    BY <1>1, <1>2, <1>3, <1>5 DEF Switches
  <2>4. GoingOn(n, act, root.entries, copy)
    BY <1>1, <1>2, <1>4, <1>5, <2>2, <2>3 DEF GoingOn, Syncing
  <2> QED BY <1>2, <1>5, <2>1, <2>4 DEF After
<1>6. CASE \E s \in o.todo : /\ n.at = "unlink" /\ n.todo = o.todo \ {s}
                             /\ file' = [file EXCEPT ![s][m] = NoFile]
  <2>1. PICK s \in o.todo : /\ n.at = "unlink" /\ n.todo = o.todo \ {s}
                            /\ file' = [file EXCEPT ![s][m] = NoFile]
    BY <1>6
  <2>2. s \in Scopes /\ NoFile.active = FALSE
    BY <1>1 DEF NoFile
  <2> DEFINE new == Switched(act, s, m, FALSE)
  <2>3. ActiveModes' = new
    BY <1>1, <2>1, <2>2, ActsNext
  <2>4. new[s] = act[s] \ {m} /\ \A t \in Scopes \ {s} : new[t] = act[t]
    BY <1>1, <2>2 DEF Switched, Acts
  <2> HIDE DEF new
  <2>5. AgreeBut(n, m, new, root.entries, copy)
    <3>1. \A t \in Scopes : new[t] \ {m} = act[t] \ {m}
      BY <2>4
    <3>2. \A t \in Scopes : But(n, m, t) = {m} /\ But(o, m, t) = {m}
      BY <1>4 DEF But
    <3> QED BY <1>3, <3>1, <3>2, ScopesAre DEF AgreeBut
  <2>6. \A t \in Scopes \ n.todo : m \notin new[t]
    BY <1>3, <2>1, <2>4
  <2>7. GoingOn(n, new, root.entries, copy)
    BY <1>1, <1>2, <2>1, <2>5, <2>6 DEF GoingOn, Syncing
  <2> QED BY <1>1, <1>2, <2>1, <2>2, <2>3, <2>7 DEF After, new
<1> QED BY <1>5, <1>6 DEF DidUnlink


(* What Continues leads to, once the copies agree again                    *)
LEMMA AfterResumed ==
  ASSUME TypeInv, OpInv, NEW p \in Procs, Going(p), op[p].at \in Syncing, Resumed(p), file' = file,
         AgreeOn(ActiveModes, root'.entries, copy')
  PROVE  After(p)
<1> DEFINE o == op[p]
           n == op'[p]
           act == ActiveModes
<1>1. ActiveModes' = act
  BY SameActs
<1>2. CASE o.about = o.mode
  BY <1>1, <1>2, IdleIs DEF After, Resumed
<1>3. CASE o.about # o.mode
  <2>1. /\ n.scope = o.scope /\ n.mode = o.mode /\ n.next = o.next /\ n.from = o.from \ {o.about}
        /\ n.at \in {"file", "source"}
    BY <1>3 DEF Resumed, SameRequest
  <2>2. o.next.active /\ o.kind # "clearAll" /\ o.about \in o.from
    BY <1>3 DEF OpInv
  <2>3. FitsOn(o, act)
    BY <1>3, <2>2 DEF Going, GoingOn
  <2>4. o.about \notin act[o.scope]
    BY <1>3, <2>2 DEF Going, GoingOn, Touches, Switches
  <2>5. act[n.scope] \ n.from = act[o.scope] \ o.from
    BY <2>1, <2>4
  <2>6. FitsOn(n, act)
    BY <2>1, <2>3, <2>5 DEF FitsOn
  <2> QED BY <1>1, <2>1, <2>6 DEF After, GoingOn, Syncing
<1> QED BY <1>2, <1>3

LEMMA AfterNothing ==
  ASSUME TypeInv, FileInv, OpInv, NEW p \in Procs, Going(p), DidRead(p), NothingToSync(p)
  PROVE  After(p)
<1> DEFINE o == op[p]
           s == o.scope
           act == ActiveModes
<1>1. o.at = "read" /\ o.at \in Syncing /\ UNCHANGED <<file, root, copy>>
  BY DEF DidRead, Syncing
<1>2. /\ o.kind # "clearAll" /\ ~Switches(o) /\ s \in Scopes /\ act \in Acts
      /\ root.entries = {} /\ (s # Root => s \in Sessions /\ copy[s].entries = {})
  BY ActiveIs, ActsAre DEF NothingToSync, FileInv, Switches, Activates, TypeInv, Op
<1>3. AgreeBut(o, o.about, act, root.entries, copy) /\ o.about \notin act[s] /\ Touches(o) = {s}
  BY <1>1, <1>2 DEF Going, GoingOn, Touches
<1>4. s # Root => act[s] = {}
  BY <1>2, <1>3 DEF AgreeBut, But
<1>5. AgreeOn(act, root.entries, copy)
  <2>1. \A t : RootEntries(root.entries, t) = {}
    BY <1>2 DEF RootEntries
  <2>2. act[Root] = {}
    BY <1>3, <2>1 DEF AgreeBut, But
  <2>3. ASSUME NEW t \in Sessions PROVE copy[t].entries = act[t]
    <3>1. CASE t = s
      BY <1>2, <1>4, <2>3, <3>1, ScopesAre
    <3>2. CASE t # s
      <4>1. But(o, o.about, t) = {}
        BY <1>3, <3>2 DEF But
      <4>2. copy[t].entries \ {} = act[t] \ {}
        BY <1>3, <2>3, <4>1 DEF AgreeBut
      <4> QED BY <4>2
    <3> QED BY <3>1, <3>2
  <2> QED BY <2>1, <2>2, <2>3 DEF AgreeOn, RootAgreeOn
<1> QED BY <1>1, <1>5, Resumes, AfterResumed

LEMMA AfterRoot ==
  ASSUME TypeInv, FileInv, OpInv, NEW p \in Procs, Going(p), DidRoot(p)
  PROVE  After(p)
<1> DEFINE o == op[p]
           n == op'[p]
           act == ActiveModes
<1>1. /\ ActiveModes' = act /\ copy' = copy /\ root'.entries = o.newRoot
  BY SameActs, CopyOfIs DEF DidRoot
<1>2. /\ n.scope = o.scope /\ n.kind = o.kind /\ n.mode = o.mode /\ n.next = o.next
      /\ n.from = o.from /\ n.about = o.about /\ n.newRoot = o.newRoot /\ n.newCopy = o.newCopy
      /\ n.seen = o.seen /\ o.at = "root"
      /\ n.at = IF o.scope = Root THEN "mirrors" ELSE "copy"
      /\ n.todo = IF o.scope = Root THEN {s \in Sessions : copy[s].exists} ELSE {}
  BY DEF DidRoot, SameRequest, SameSync
<1>3. Touches(n) = Touches(o) /\ Switches(n) = Switches(o) /\ (FitsOn(o, act) <=> FitsOn(n, act))
  BY <1>2 DEF Touches, Switches, FitsOn
<1>4. \A s \in Sessions : MirroredOf(n, copy, s) = MirroredOf(o, copy, s)
  BY <1>2 DEF MirroredOf, Dropped
<1>5. o.scope = Root => \A s \in Sessions : IF s \in n.todo THEN MirroredOf(n, copy, s) = act[s]
                                           ELSE copy[s].entries = act[s]
  <2>1. \A s \in Sessions : copy[s].exists \/ copy[s].entries = {}
    BY DEF FileInv
  <2> SUFFICES ASSUME o.scope = Root, NEW s \in Sessions
               PROVE  IF s \in n.todo THEN MirroredOf(n, copy, s) = act[s]
                      ELSE copy[s].entries = act[s]
    OBVIOUS
  <2>2. MirroredOf(o, copy, s) = act[s] /\ (copy[s].exists \/ act[s] = {})
    BY <1>2 DEF Going, GoingOn
  <2>3. s \in n.todo <=> copy[s].exists
    BY <1>2
  <2>4. MirroredOf(n, copy, s) = act[s]
    BY <1>4, <2>2
  <2>5. ~copy[s].exists => copy[s].entries = act[s]
    BY <2>1, <2>2
  <2> QED BY <2>3, <2>4, <2>5
<1>6. GoingOn(n, act, o.newRoot, copy)
  BY <1>2, <1>3, <1>5 DEF Going, GoingOn, Syncing
<1> QED BY <1>1, <1>2, <1>6 DEF After

LEMMA AfterCopy ==
  ASSUME TypeInv, OpInv, NEW p \in Procs, Going(p), WriteCopy(p)
  PROVE  After(p)
<1> DEFINE o == op[p]
           s == o.scope
           act == ActiveModes
<1>1. /\ o.at = "copy" /\ s # Root /\ s \in Sessions /\ UNCHANGED <<file, root>>
      /\ copy' = [copy EXCEPT ![s] = CopyOf(o.newCopy)]
  BY ActiveIs DEF WriteCopy, At, OpInv, TypeInv, Op
<1>2. copy'[s].entries = o.newCopy /\ \A t \in Sessions \ {s} : copy'[t] = copy[t]
  BY <1>1, CopyOfIs DEF TypeInv
<1>3. /\ RootAgreeOn(act, o.newRoot) /\ root.entries = o.newRoot /\ o.newCopy = act[s]
      /\ \A t \in Sessions \ {s} : copy[t].entries = act[t]
  BY <1>1 DEF Going, GoingOn
<1>4. AgreeOn(act, root'.entries, copy')
  BY <1>1, <1>2, <1>3 DEF AgreeOn
<1> QED BY <1>1, <1>4, Resumes, AfterResumed

LEMMA AfterMirror ==
  ASSUME TypeInv, OpInv, NEW p \in Procs, Going(p), DidMirror(p)
  PROVE  After(p)
<1> DEFINE o == op[p]
           n == op'[p]
           act == ActiveModes
<1>1. PICK s \in o.todo :
        /\ n.todo = o.todo \ {s}
        /\ copy' = [copy EXCEPT ![s] = IF Mirrored(p, s) = {} THEN NoCopy
                                       ELSE CopyOf(Mirrored(p, s))]
        /\ root' = IF Mirrored(p, s) = {} THEN root ELSE CopyOf(o.newRoot)
  BY DEF DidMirror
<1>2. /\ n.scope = o.scope /\ n.kind = o.kind /\ n.mode = o.mode /\ n.next = o.next
      /\ n.from = o.from /\ n.about = o.about /\ n.newRoot = o.newRoot /\ n.newCopy = o.newCopy
      /\ n.seen = o.seen /\ o.at = "mirrors" /\ n.at = "mirrors"
  BY DEF DidMirror, SameRequest, SameSync
<1>3. ActiveModes' = act /\ o.scope = Root
  BY SameActs, <1>2 DEF DidMirror, OpInv
<1>4. /\ RootAgreeOn(act, o.newRoot) /\ root.entries = o.newRoot
      /\ \A t \in Sessions : IF t \in o.todo THEN MirroredOf(o, copy, t) = act[t]
                             ELSE copy[t].entries = act[t]
  BY <1>2 DEF Going, GoingOn
<1>5. root'.entries = o.newRoot
  BY <1>1, <1>4, CopyOfIs
<1>6. \A t \in Sessions : MirroredOf(n, copy, t) = MirroredOf(o, copy, t)
  BY <1>2 DEF MirroredOf, Dropped
<1>7. ASSUME NEW t \in Sessions
      PROVE  IF t \in n.todo THEN MirroredOf(n, copy', t) = act[t] ELSE copy'[t].entries = act[t]
  <2>1. CASE t = s
    <3>1. copy'[t].entries = Mirrored(p, s)
      BY <1>1, <2>1, CopyOfIs DEF TypeInv
    <3> QED BY <1>1, <1>4, <2>1, <3>1 DEF Mirrored
  <2>2. CASE t # s
    <3>1. copy'[t] = copy[t] /\ (t \in n.todo <=> t \in o.todo)
      BY <1>1, <2>2 DEF TypeInv
    <3>2. MirroredOf(n, copy', t) = MirroredOf(n, copy, t)
      BY <3>1 DEF MirroredOf
    <3> QED BY <1>4, <1>6, <3>1, <3>2
  <2> QED BY <2>1, <2>2
<1>8. Touches(n) = Touches(o) /\ Switches(n) = Switches(o) /\ (FitsOn(o, act) <=> FitsOn(n, act))
  BY <1>2 DEF Touches, Switches, FitsOn
<1>9. GoingOn(n, act, o.newRoot, copy')
  BY <1>2, <1>3, <1>4, <1>7, <1>8 DEF Going, GoingOn, Syncing
<1> QED BY <1>2, <1>3, <1>5, <1>9 DEF After

LEMMA AfterMirrors ==
  ASSUME TypeInv, OpInv, NEW p \in Procs, Going(p), MirrorsDone(p)
  PROVE  After(p)
<1>1. op[p].at = "mirrors" /\ op[p].todo = {} /\ UNCHANGED <<file, root, copy>>
  BY DEF MirrorsDone, At
<1>2. AgreeOn(ActiveModes, root.entries, copy)
  BY <1>1 DEF Going, GoingOn, AgreeOn
<1> QED BY <1>1, <1>2, Resumes, AfterResumed DEF Syncing


(* What a session or the root computes from the copies it reads            *)
LEMMA SessionSyncs ==
  ASSUME TypeInv, OpInv, NEW p \in Procs, Going(p), op[p].at = "read", op[p].scope # Root
  PROVE  /\ RootAgreeOn(ActiveModes, Sync(p).newRoot)
         /\ Sync(p).newCopy = ActiveModes[op[p].scope]
         /\ \A t \in Sessions \ {op[p].scope} : copy[t].entries = ActiveModes[t]
<1> DEFINE o == op[p]
           s == o.scope
           m == o.about
           act == ActiveModes
           r == root.entries
           mirrored == RootEntries(r, s)
           on == IF Switches(o) THEN {m} ELSE {}
           nextOnly == ((copy[s].entries \ mirrored) \ {m}) \cup on
           rest == r \ {<<m, s>>}
<1>1. /\ s \in Sessions /\ s # Root /\ m \in Modes /\ o.kind # "clearAll" /\ act \in Acts
      /\ r \subseteq Entries /\ Root \notin Sessions
  BY ActiveIs, ActsAre, ScopesAre DEF OpInv, TypeInv, Op, Syncing, RootCopy
<1>2. AgreeBut(o, m, act, r, copy) /\ (m \in act[s] <=> Switches(o))
  BY <1>1 DEF Going, GoingOn, Syncing, Touches
<1>3. But(o, m, s) = {m} /\ \A t \in Scopes \ {s} : But(o, m, t) = {}
  BY <1>1 DEF But, Touches
<1>4. /\ copy[s].entries \ {m} = act[s] \ {m} /\ mirrored \ {m} \subseteq act[s]
  BY <1>1, <1>2, <1>3 DEF AgreeBut
<1>5. ASSUME NEW t \in Sessions \ {s}
      PROVE  copy[t].entries = act[t] /\ RootEntries(r, t) \subseteq act[t]
  <2>1. copy[t].entries \ {} = act[t] \ {} /\ RootEntries(r, t) \ {} \subseteq act[t]
    BY <1>2, <1>3, ScopesAre DEF AgreeBut
  <2> QED BY <2>1
<1>6. RootEntries(r, Root) = act[Root]
  <2>1. RootEntries(r, Root) \ {} = act[Root] \ {}
    BY <1>1, <1>2, <1>3, ScopesAre DEF AgreeBut
  <2> QED BY <2>1
<1>7. /\ Sync(p).newCopy = (mirrored \ {m}) \cup nextOnly
      /\ Sync(p).newRoot = IF rest # {} THEN rest ELSE IF Switches(o) THEN nextOnly \X {s} ELSE {}
  BY <1>1 DEF Sync, SessionSync, Switches, Activates
<1>8. (mirrored \ {m}) \cup nextOnly = act[s]
  <2> DEFINE listed == copy[s].entries
  <2>1. (mirrored \ {m}) \cup nextOnly = (mirrored \ {m}) \cup (listed \ {m}) \cup on
    OBVIOUS
  <2>2. (act[s] \ {m}) \cup on = act[s]
    BY <1>2
  <2>3. (mirrored \ {m}) \cup (act[s] \ {m}) = act[s] \ {m}
    BY <1>4
  <2> HIDE DEF on, nextOnly, mirrored
  <2> QED BY <1>4, <2>1, <2>2, <2>3
<1>9. RootAgreeOn(act, Sync(p).newRoot)
  <2>1. CASE rest # {}
    <3>1. \A t : t # s => RootEntries(rest, t) = RootEntries(r, t)
      BY DEF RootEntries
    <3>2. RootEntries(rest, s) = mirrored \ {m}
      BY DEF RootEntries
    <3> QED BY <1>1, <1>4, <1>5, <1>6, <1>7, <2>1, <3>1, <3>2 DEF RootAgreeOn
  <2>2. CASE rest = {}
    <3> DEFINE new == IF Switches(o) THEN nextOnly \X {s} ELSE {}
    <3>1. Sync(p).newRoot = new
      BY <1>7, <2>2
    <3>2. \A t : t # s => RootEntries(r, t) = {} /\ RootEntries(new, t) = {}
      <4> SUFFICES ASSUME NEW t, t # s PROVE RootEntries(r, t) = {} /\ RootEntries(new, t) = {}
        OBVIOUS
      <4>1. \A x : <<x, t>> \notin r
        BY <2>2
      <4>2. \A x : <<x, t>> \notin new
        <5> HIDE DEF nextOnly
        <5> QED OBVIOUS
      <4> HIDE DEF new
      <4> QED BY <4>1, <4>2 DEF RootEntries
    <3>3. RootEntries(new, s) \subseteq nextOnly
      BY DEF RootEntries
    <3>4. nextOnly \subseteq act[s]
      BY <1>8
    <3> HIDE DEF new, nextOnly
    <3> QED BY <1>1, <1>6, <3>1, <3>2, <3>3, <3>4 DEF RootAgreeOn
  <2> QED BY <2>1, <2>2
<1> QED BY <1>5, <1>7, <1>8, <1>9

LEMMA RootSyncs ==
  ASSUME TypeInv, FileInv, OpInv, NEW p \in Procs, Going(p), op[p].at = "read", op[p].scope = Root
  PROVE  /\ RootAgreeOn(ActiveModes, Sync(p).newRoot)
         /\ \A t \in Sessions :
              /\ RootEntries(Sync(p).newRoot, t)
                   \cup ((copy[t].entries \ RootEntries(root.entries, t)) \ Dropped(op[p]))
                 = ActiveModes[t]
              /\ copy[t].exists \/ ActiveModes[t] = {}
<1> DEFINE o == op[p]
           m == o.about
           act == ActiveModes
           r == root.entries
           new == Sync(p).newRoot
<1>1. /\ m \in Modes /\ act \in Acts /\ Root \in Touches(o) /\ Root \notin Sessions
      /\ o.kind = "clearAll" => ~Switches(o)
  BY ActsAre, ScopesAre DEF OpInv, Syncing, Touches, Switches
<1>2. AgreeBut(o, m, act, r, copy) /\ \A t \in Touches(o) : m \in act[t] <=> Switches(o)
  BY DEF Going, GoingOn, Syncing
<1>3. CASE o.kind = "clearAll"
  <2>1. \A t \in Scopes : But(o, m, t) = {m} /\ m \notin act[t]
    BY <1>1, <1>2, <1>3 DEF But, Touches
  <2>2. new = {e \in r : e[1] # m}
    BY <1>3 DEF Sync, RootSync
  <2>3. \A t : RootEntries(new, t) = RootEntries(r, t) \ {m}
    BY <2>2 DEF RootEntries
  <2>4. /\ RootEntries(r, Root) \ {m} = act[Root] \ {m}
        /\ \A t \in Sessions : /\ copy[t].entries \ {m} = act[t] \ {m}
                               /\ RootEntries(r, t) \ {m} \subseteq act[t]
    BY <1>2, <2>1, ScopesAre DEF AgreeBut
  <2>5. RootAgreeOn(act, new)
    BY <2>1, <2>3, <2>4, ScopesAre DEF RootAgreeOn
  <2>6. ASSUME NEW t \in Sessions
        PROVE  /\ RootEntries(new, t) \cup ((copy[t].entries \ RootEntries(r, t)) \ {m}) = act[t]
               /\ copy[t].exists \/ act[t] = {}
    <3> DEFINE listed == RootEntries(r, t)
    <3>1. m \notin act[t] /\ copy[t].entries \ {m} = act[t] /\ listed \ {m} \subseteq act[t]
      BY <2>1, <2>4, ScopesAre
    <3>2. RootEntries(new, t) = listed \ {m}
      BY <2>3
    <3>3. copy[t].exists \/ copy[t].entries = {}
      BY DEF FileInv
    <3> HIDE DEF listed, new
    <3> QED BY <3>1, <3>2, <3>3 DEF listed
  <2>7. Dropped(o) = {m}
    BY <1>3 DEF Dropped
  <2> QED BY <2>5, <2>6, <2>7
<1>4. CASE o.kind # "clearAll"
  <2> DEFINE own == {e \in r : e[2] = Root}
             on == IF Switches(o) THEN {<<m, Root>>} ELSE {}
  <2>1. But(o, m, Root) = {m} /\ \A t \in Scopes \ {Root} : But(o, m, t) = {}
    BY <1>1, <1>4 DEF But, Touches
  <2>2. new = (r \ own) \cup (own \ {<<m, Root>>}) \cup on
    BY <1>4 DEF Sync, RootSync, Switches, Activates
  <2>3. new = (r \ {<<m, Root>>}) \cup on
    BY <2>2
  <2> HIDE DEF new, own
  <2>4. \A t : t # Root => RootEntries(new, t) = RootEntries(r, t)
    BY <2>3 DEF RootEntries
  <2>5. RootEntries(new, Root) = (RootEntries(r, Root) \ {m}) \cup (IF Switches(o) THEN {m} ELSE {})
    BY <1>1, <2>3 DEF RootEntries
  <2>6. RootEntries(new, Root) = act[Root]
    <3>1. RootEntries(r, Root) \ {m} = act[Root] \ {m}
      BY <1>2, <2>1 DEF AgreeBut
    <3> QED BY <1>1, <1>2, <2>5, <3>1
  <2>7. ASSUME NEW t \in Sessions
        PROVE  copy[t].entries = act[t] /\ RootEntries(r, t) \subseteq act[t]
    <3>1. copy[t].entries \ {} = act[t] \ {} /\ RootEntries(r, t) \ {} \subseteq act[t]
      BY <1>1, <1>2, <2>1, ScopesAre DEF AgreeBut
    <3> QED BY <3>1
  <2>8. RootAgreeOn(act, new)
    BY <1>1, <2>4, <2>6, <2>7 DEF RootAgreeOn
  <2>9. ASSUME NEW t \in Sessions
        PROVE  /\ RootEntries(new, t) \cup ((copy[t].entries \ RootEntries(r, t)) \ {}) = act[t]
               /\ copy[t].exists \/ act[t] = {}
    <3> DEFINE listed == RootEntries(r, t)
    <3>1. copy[t].entries = act[t] /\ listed \subseteq act[t] /\ RootEntries(new, t) = listed
      BY <1>1, <2>4, <2>7
    <3>2. copy[t].exists \/ copy[t].entries = {}
      BY DEF FileInv
    <3> HIDE DEF listed
    <3> QED BY <3>1, <3>2 DEF listed
  <2>10. Dropped(o) = {}
    BY <1>4 DEF Dropped
  <2> QED BY <2>8, <2>9, <2>10 DEF new
<1> QED BY <1>3, <1>4

LEMMA AfterRead ==
  ASSUME TypeInv, FileInv, OpInv, NEW p \in Procs, Going(p), DidRead(p), ~NothingToSync(p)
  PROVE  After(p)
<1> DEFINE o == op[p]
           n == op'[p]
           act == ActiveModes
<1>1. /\ n.scope = o.scope /\ n.kind = o.kind /\ n.mode = o.mode /\ n.next = o.next
      /\ n.from = o.from /\ n.about = o.about /\ n.newRoot = Sync(p).newRoot
      /\ n.newCopy = Sync(p).newCopy /\ n.seen = root.entries /\ o.at = "read" /\ n.at = "root"
      /\ UNCHANGED <<file, root, copy>>
  BY DEF DidRead, SameRequest
<1>2. ActiveModes' = act
  BY <1>1, SameActs
<1>3. Touches(n) = Touches(o) /\ Switches(n) = Switches(o) /\ (FitsOn(o, act) <=> FitsOn(n, act))
  BY <1>1 DEF Touches, Switches, FitsOn
<1>4. CASE o.scope = Root
  <2>1. /\ RootAgreeOn(act, n.newRoot)
        /\ \A s \in Sessions : /\ MirroredOf(n, copy, s) = act[s]
                               /\ copy[s].exists \/ act[s] = {}
    BY <1>1, <1>4, RootSyncs DEF MirroredOf, Dropped
  <2>2. GoingOn(n, act, root.entries, copy)
    BY <1>1, <1>3, <1>4, <2>1 DEF Going, GoingOn, Syncing
  <2> QED BY <1>1, <1>2, <2>2 DEF After
<1>5. CASE o.scope # Root
  <2>1. /\ RootAgreeOn(act, n.newRoot) /\ n.newCopy = act[n.scope]
        /\ \A t \in Sessions \ {n.scope} : copy[t].entries = act[t]
    BY <1>1, <1>5, SessionSyncs
  <2>2. GoingOn(n, act, root.entries, copy)
    BY <1>1, <1>3, <1>5, <2>1 DEF Going, GoingOn, Syncing
  <2> QED BY <1>1, <1>2, <2>2 DEF After
<1> QED BY <1>4, <1>5


(* The abstract machine takes a step whenever the detail files change.     *)
Moves == ActiveModes' # ActiveModes => Machine!Next

LEMMA MovesOff ==
  ASSUME NEW s \in Scopes, NEW c \in Modes, ActiveModes' = Switched(ActiveModes, s, c, FALSE),
         Machine!OneAtATime
  PROVE  Moves /\ Machine!OneAtATime'
<1>1. ActiveModes' = [ActiveModes EXCEPT ![s] = @ \ {c}]
  BY DEF Switched
<1>2. Moves
  BY <1>1 DEF Moves, Machine!Next, Machine!Deactivate
<1>3. ASSUME NEW t \in Scopes PROVE ActiveModes'[t] \subseteq ActiveModes[t]
  <2>1. ActiveModes \in Acts
    BY ActsAre
  <2>2. ActiveModes'[t] = IF t = s THEN ActiveModes[t] \ {c} ELSE ActiveModes[t]
    BY <1>1, <2>1 DEF Acts
  <2> QED BY <2>2
<1> QED BY <1>2, <1>3 DEF Machine!OneAtATime

LEMMA MovesOn ==
  ASSUME NEW s \in Scopes, NEW m \in Modes, ActiveModes' = Switched(ActiveModes, s, m, TRUE),
         Machine!Kind(ActiveModes[s], m) \in {"allow", "overlap"}, Machine!OneAtATime
  PROVE  Moves /\ Machine!OneAtATime'
<1>1. ActiveModes' = [ActiveModes EXCEPT ![s] = @ \cup {m}]
  BY DEF Switched
<1>2. Moves
  BY <1>1 DEF Moves, Machine!Next, Machine!Activate
<1>3. /\ ActiveModes'[s] = ActiveModes[s] \cup {m} /\ ActiveModes[s] \in SUBSET Modes
      /\ \A t \in Scopes \ {s} : ActiveModes'[t] = ActiveModes[t]
  BY <1>1, ActsAre DEF Acts
<1>4. m \in ActiveModes[s] \/ ActiveModes[s] = {}
        \/ \A c \in ActiveModes[s] : Machine!Overlaps(c, m)
  BY <1>3, JoinsOverlapping
<1>5. \A a, b \in ActiveModes'[s] : a = b \/ Machine!Overlaps(a, b)
  BY <1>3, <1>4 DEF Machine!OneAtATime, Machine!Overlaps
<1>6. Machine!OneAtATime'
  BY <1>3, <1>5 DEF Machine!OneAtATime
<1> QED BY <1>2, <1>6

LEMMA MovesNot ==
  ASSUME ActiveModes' = ActiveModes, Machine!OneAtATime
  PROVE  Moves /\ Machine!OneAtATime'
BY DEF Moves, Machine!OneAtATime

LEMMA CleanStep ==
  ASSUME TypeInv, FileInv, OpInv, SerialInv, CleanInv, ~Fallback, NEW p \in Procs, Does(p), clean'
  PROVE  /\ After(p) /\ Moves /\ Machine!OneAtATime'
         /\ Busy' \subseteq {p}
<1>1. /\ clean
      /\ Begun(p) => Busy = {}
      /\ ~Begun(p) => p \in Busy /\ trouble' = trouble
  <2>1. trouble \in Nat /\ trouble' = 0
    BY DEF TypeInv, clean
  <2>2. CASE Begun(p)
    BY <2>1, <2>2 DEF Begun, clean
  <2>3. CASE ~Begun(p)
    <3>1. op[p].at # "idle" /\ (trouble' = trouble \/ trouble' = 1)
      BY <2>3 DEF Does, DidSource, DidFile, DidUnlink, DidRead, DidRoot, DidMirror,
         WriteCopy, MirrorsDone, Ended, LateDenial, At
    <3> QED BY <2>1, <2>3, <3>1 DEF Busy, At, clean
  <2> QED BY <2>2, <2>3
<1>2. Machine!OneAtATime /\ (Busy = {} => Agree) /\ \A q \in Busy : Going(q)
  BY <1>1 DEF CleanInv
<1>3. Busy' \subseteq {p}
  <2>1. \A q \in Procs \ {p} : q \in Busy' => q \in Busy
    BY DEF Does, Alone, Busy, At
  <2>2. Busy' \subseteq Procs
    BY DEF Busy
  <2> QED BY <1>1, <2>1, <2>2 DEF SerialInv
<1>4. file' = file => Moves /\ Machine!OneAtATime'
  BY <1>2, SameActs, MovesNot
<1>5. CASE Begun(p)
  <2>1. file' = file
    BY <1>5 DEF Begun
  <2> QED BY <1>1, <1>2, <1>3, <1>4, <1>5, <2>1, AfterBegun DEF Does
<1>6. CASE ~Begun(p) /\ DidSource(p)
  BY <1>1, <1>2, <1>3, <1>6, AfterSource, MovesOff
<1>7. CASE ~Begun(p) /\ DidFile(p)
  <2> DEFINE s == op[p].scope
             m == op[p].mode
             on == op[p].next.active
  <2>1. /\ After(p) /\ s \in Scopes /\ m \in Modes /\ on \in BOOLEAN
        /\ ActiveModes' = Switched(ActiveModes, s, m, on)
        /\ on => Machine!Kind(ActiveModes[s], m) \in {"allow", "overlap"}
    BY <1>1, <1>2, <1>7, AfterFile
  <2>2. CASE on = TRUE
    BY <1>2, <1>3, <2>1, <2>2, MovesOn
  <2>3. CASE on = FALSE
    BY <1>2, <1>3, <2>1, <2>3, MovesOff
  <2> QED BY <2>1, <2>2, <2>3
<1>8. CASE ~Begun(p) /\ DidUnlink(p)
  BY <1>1, <1>2, <1>3, <1>8, AfterUnlink, MovesOff, MovesNot
<1>9. CASE ~Begun(p) /\ DidRead(p)
  <2>1. After(p)
    BY <1>1, <1>2, <1>9, AfterNothing, AfterRead
  <2> QED BY <1>3, <1>4, <1>9, <2>1 DEF DidRead
<1>10. CASE ~Begun(p) /\ (DidRoot(p) \/ WriteCopy(p) \/ DidMirror(p) \/ MirrorsDone(p))
  <2>1. After(p)
    BY <1>1, <1>2, <1>10, AfterRoot, AfterCopy, AfterMirror, AfterMirrors
  <2>2. file' = file
    BY <1>10 DEF DidRoot, WriteCopy, DidMirror, MirrorsDone
  <2> QED BY <1>3, <1>4, <2>1, <2>2
<1>11. CASE ~Begun(p) /\ Ended(p)
  <2>1. op[p].at = "source" /\ op'[p] = Idle /\ UNCHANGED <<file, root, copy>>
    BY <1>1, <1>2, <1>11, NotLate DEF Ended, clean
  <2>2. AgreeOn(ActiveModes', root'.entries, copy')
    BY <1>1, <1>2, <1>11, <2>1, SameActs DEF Going, GoingOn
  <2>3. After(p)
    BY <2>1, <2>2, IdleIs DEF After
  <2> QED BY <1>3, <1>4, <2>1, <2>3
<1> QED BY <1>5, <1>6, <1>7, <1>8, <1>9, <1>10, <1>11 DEF Does

LEMMA CleanNext ==
  ASSUME TypeInv, FileInv, OpInv, SerialInv, CleanInv, NEW p \in Procs, Does(p)
  PROVE  CleanInv'
<1> SUFFICES ASSUME clean', ~Fallback
             PROVE  /\ Busy' = {} => Agree'
                    /\ \A q \in Busy' : Going(q)'
                    /\ Machine!OneAtATime'
  BY DEF CleanInv
<1>1. After(p) /\ Machine!OneAtATime' /\ Busy' \subseteq {p}
  BY CleanStep
<1>2. p \in Busy' <=> op'[p].at # "idle"
  BY DEF Busy, At
<1>3. Busy' = {} => Agree'
  BY <1>1, <1>2 DEF After, Agree
<1>4. \A q \in Busy' : Going(q)'
  BY <1>1, <1>2 DEF After, Going
<1> QED BY <1>1, <1>3, <1>4

-----------------------------------------------------------------------------
(* The theorems                                                            *)

IInv ==
  TypeInv /\ FileInv /\ OpInv /\ SerialInv /\ ClearInv /\ CleanInv

LEMMA InitInv == Init => IInv
<1> SUFFICES ASSUME Init PROVE IInv
  OBVIOUS
<1>1. TypeInv /\ FileInv /\ OpInv /\ SerialInv /\ ClearInv
  BY InitShape
<1>2. Busy = {}
  BY IdleIs DEF Init, Busy, At
<1>3. ActiveModes = [s \in Scopes |-> {}]
  BY FilesAre DEF Init, ActiveModes, Active
<1>4. Agree
  BY <1>3, ScopesAre DEF Init, Agree, AgreeOn, RootAgreeOn, RootEntries, NoCopy
<1>5. Machine!OneAtATime
  BY <1>3 DEF Machine!OneAtATime
<1> QED BY <1>1, <1>2, <1>4, <1>5 DEF IInv, CleanInv

LEMMA SameVars == IInv /\ UNCHANGED vars => IInv'
<1> SUFFICES ASSUME IInv, UNCHANGED vars PROVE IInv'
  OBVIOUS
<1> USE DEF vars
<1>1. TypeInv' /\ FileInv' /\ OpInv' /\ SerialInv'
  BY DEF IInv, TypeInv, FileInv, OpInv, SerialInv, Busy, At, clean
<1>2. ClearInv'
  BY DEF IInv, ClearInv, Busy, At, Clearing
<1>3. ActiveModes' = ActiveModes
  BY SameActs
<1>4. CleanInv'
  BY <1>3 DEF IInv, CleanInv, clean, Busy, At, Agree, Going, Machine!OneAtATime
<1> QED BY <1>1, <1>2, <1>4 DEF IInv

LEMMA NextInv == IInv /\ [Next]_vars => IInv'
<1> SUFFICES ASSUME IInv, [Next]_vars PROVE IInv'
  OBVIOUS
<1>1. CASE UNCHANGED vars
  BY <1>1, SameVars
<1>2. ASSUME NEW p \in Procs, Does(p) PROVE IInv'
  <2>1. TypeInv' /\ FileInv' /\ OpInv' /\ SerialInv' /\ CleanInv'
    BY <1>2, ShapeNext, OpNext, SerialNext, CleanNext DEF IInv
  <2>2. ClearInv'
    <3>1. CASE Overlap
      BY <3>1 DEF ClearInv
    <3>2. CASE ~Overlap
      BY <1>2, <3>2, ClearNext DEF IInv
    <3> QED BY <3>1, <3>2
  <2> QED BY <2>1, <2>2 DEF IInv
<1> QED BY <1>1, <1>2, StepDoes DEF IInv


(* The invariant: whatever labels the operations are at.                   *)
THEOREM StateInvariant == Spec => []IInv
BY InitInv, NextInv, PTL DEF Spec

LEMMA ImpliesTypeOK == IInv => TypeOK
<1> SUFFICES ASSUME IInv PROVE TypeOK
  OBVIOUS
<1>1. /\ file \in [Scopes -> [Modes -> File]]
      /\ \A s \in Scopes, m \in Modes : ~file[s][m].active => file[s][m] \in {NoFile, Tombstone}
  BY DEF IInv, TypeInv, FileInv, Proper
<1>2. /\ root.entries \subseteq Modes \X Scopes /\ (root.exists \/ root.entries = {})
      /\ \A s \in Sessions : copy[s].entries \subseteq Modes /\ (copy[s].exists \/ copy[s].entries = {})
  BY DEF IInv, TypeInv, FileInv, RootCopy, SessionCopy, Entries
<1>3. \A p \in Procs : op[p].at \in Label /\ op[p].next \in File /\ op[p].from \subseteq Modes
  BY DEF IInv, TypeInv, Op
<1> QED BY <1>1, <1>2, <1>3 DEF TypeOK

(* The files and the operations keep their shape: an inactive detail file  *)
(* is missing or a tombstone, whatever crashes or overlaps.                *)
THEOREM StateTypeCorrect == Spec => []TypeOK
BY StateInvariant, ImpliesTypeOK, PTL

LEMMA ImpliesCopiesAgree == ~Fallback /\ IInv => CopiesAgree
<1> SUFFICES ASSUME ~Fallback, IInv, clean, Busy = {} PROVE Agree
  BY ScopesAre, ActsAre DEF CopiesAgree, Agree, AgreeOn, RootAgreeOn
<1> QED BY DEF IInv, CleanInv

(* Between operations that neither overlapped nor died, every session copy *)
(* lists exactly the modes whose detail files are active, and the root     *)
(* copy lists exactly those of the root and no inactive one of a session:  *)
(* what is decided by the copies is decided by the files.                  *)
THEOREM CopiesDescribeFiles == ASSUME ~Fallback PROVE Spec => []CopiesAgree
<1>1. IInv => CopiesAgree
  BY ImpliesCopiesAgree
<1> QED BY <1>1, StateInvariant, PTL

FilesApart == clean => Machine!OneAtATime

LEMMA ImpliesFilesApart == ~Fallback /\ IInv => FilesApart
BY DEF IInv, CleanInv, FilesApart

(* Operations one after another, however many, never leave two modes of a  *)
(* scope active that do not overlap: also not in the middle of one.        *)
THEOREM FilesOneAtATime == ASSUME ~Fallback PROVE Spec => []FilesApart
<1>1. IInv => FilesApart
  BY ImpliesFilesApart
<1> QED BY <1>1, StateInvariant, PTL

ImplementsStep == clean' /\ ActiveModes' # ActiveModes => Machine!Next

LEMMA StepImplements == ~Fallback /\ IInv /\ [Next]_vars => [ImplementsStep]_vars
<1> SUFFICES ASSUME ~Fallback, IInv, [Next]_vars, ~UNCHANGED vars, clean',
                    ActiveModes' # ActiveModes
             PROVE  Machine!Next
  BY DEF ImplementsStep
<1>1. PICK p \in Procs : Does(p)
  BY StepDoes DEF IInv
<1> QED BY <1>1, CleanStep DEF Moves, IInv

(* The detail files change as the abstract machine of the transition table *)
(* does, one mode at a time and only to modes that fit, although the code  *)
(* decides by the copies and long before it writes.                        *)
THEOREM FilesImplementMachine == ASSUME ~Fallback PROVE Spec => Implements
<1>1. IInv /\ [Next]_vars => [ImplementsStep]_vars
  BY StepImplements
<1>2. Spec => [][ImplementsStep]_vars
  BY <1>1, StateInvariant, PTL DEF Spec
<1> QED BY <1>2 DEF Implements, ImplementsStep

ClearStep ==
  \A p \in Procs : \A s \in Scopes :
    (/\ ~At(p, "idle") /\ op'[p] = Idle /\ ~(clean /\ ~clean')
     /\ (op[p].kind = "clearAll" \/ (op[p].kind = "clear" /\ op[p].scope = s)))
    => /\ ~file'[s][op[p].mode].active
       /\ s # Root => op[p].mode \notin copy'[s].entries
       /\ op[p].mode \notin RootEntries(root'.entries, s)

LEMMA StepClears == ~Overlap /\ IInv /\ [Next]_vars => [ClearStep]_vars
<1> SUFFICES ASSUME ~Overlap, IInv, [Next]_vars, ~UNCHANGED vars,
                    NEW q \in Procs, NEW s \in Scopes,
                    ~At(q, "idle"), op'[q] = Idle, ~(clean /\ ~clean'),
                    op[q].kind = "clearAll" \/ (op[q].kind = "clear" /\ op[q].scope = s)
             PROVE  Recovered(q, s)
  BY DEF ClearStep, Recovered
<1>1. PICK p \in Procs : Does(p)
  BY StepDoes DEF IInv
<1> QED BY <1>1, Recovers DEF IInv, At

(* A clear that returns has removed the mode from every file and copy of   *)
(* its scope, whatever an operation that died had left there; two          *)
(* operations at the same time are excluded.                               *)
THEOREM ClearingRecovers == ASSUME ~Overlap PROVE Spec => ClearRecovers
<1>1. IInv /\ [Next]_vars => [ClearStep]_vars
  BY StepClears
<1>2. Spec => [][ClearStep]_vars
  BY <1>1, StateInvariant, PTL DEF Spec
<1> QED BY <1>2 DEF ClearRecovers, ClearStep
=============================================================================
