----------------------------- MODULE AuthSlots -----------------------------
(***************************************************************************)
(* The account slots of `owx auth` and the launcher that swaps them when   *)
(* an account runs out of quota: src/auth/storage.ts, src/auth/rotation.ts *)
(* and src/auth/hotswap.ts, with the commands of src/cli/auth.ts.          *)
(*                                                                         *)
(* Every terminal runs one command; all of them share the slot files, the  *)
(* metadata file slots.json and the auth.json of one Codex home, and no    *)
(* lock guards any of the three.  A slot is named by a number, and the     *)
(* order of the numbers is the order of the names.  What a file holds is   *)
(* the account whose tokens are in it.                                     *)
(***************************************************************************)
EXTENDS Integers, SequencesExt

CONSTANTS
  Terminals,    \* where the commands are typed
  Slots,        \* a set of numbers: the names a slot may have
  Fresh         \* an account that is in no slot yet

VARIABLES
  file,         \* the account each slot file holds, 0 when there is no file
  meta,         \* slots.json
  live,         \* the account in auth.json, 0 when there is no file
  job           \* the command each terminal runs

authVars == <<file, meta, live, job>>

Rotations == {"manual", "priority", "round-robin"}
Metadata == [current : Slots \cup {0}, listed : SUBSET Slots, exhausted : SUBSET Slots]
NoMetadata == [current |-> 0, listed |-> {}, exhausted |-> {}]

NoJob == [pc |-> "idle", why |-> "none", mode |-> "none", slot |-> 0,
          order |-> <<>>, tried |-> {}, seen |-> NoMetadata, alone |-> TRUE]

\* listSlots: a slot is listed when it has both a record and a file.
ListSlots == {s \in meta.listed : file[s] # 0}

\* buildRotationPlan.  Names are sorted; a priority that names no slot is dropped,
\* one that is repeated stays repeated.  What is sorted is said here by what it is:
\* RuntimeProofs shows that there is such a sequence.
SortedSlots(S) ==
  CHOOSE q \in [1..Cardinality(S) -> S] : \A i, j \in 1..Cardinality(S) : i < j => q[i] < q[j]
Listed(first, S) ==
  LET kept == SortedSlots({i \in DOMAIN first : first[i] \in S})
  IN  [k \in DOMAIN kept |-> first[kept[k]]]
RotationPlan(mode, S, first, current) ==
  CASE mode = "manual" ->
         IF current # 0 THEN <<current>> ELSE SubSeq(SortedSlots(S), 1, 1)
    [] mode = "priority" ->
         Listed(first, S) \o SortedSlots(S \ ToSet(first))
    [] OTHER ->
         IF current \in S
         THEN SortedSlots({s \in S : s >= current}) \o SortedSlots({s \in S : s < current})
         ELSE SortedSlots(S)

\* Fault: the test of the exhausted set is forgotten.
NextSlotsFault(order, current, tried) ==
  LET k == SelectInSeq(order, LAMBDA s : s = current)
  IN  {order[(k % Len(order)) + 1]}

\* nextSlotAfter: the slots that follow the current one, taken round the order.
NextSlots(order, current, tried) ==
  LET k == SelectInSeq(order, LAMBDA s : s = current)
      from(j) == order[((k + j - 1) % Len(order)) + 1]
      free == {j \in 1..Len(order) : from(j) \notin tried}
  IN  {from(j) : j \in {j \in free : \A i \in free : j <= i}}

\* Neither this terminal nor any other can still disturb a command that runs alone.
Start(t, j) ==
  LET alone == \A u \in Terminals \ {t} : job[u].pc = "idle"
  IN  job' = [u \in Terminals |->
        IF u = t THEN [j EXCEPT !.alone = alone] ELSE [job[u] EXCEPT !.alone = FALSE]]

Goto(t, pc) == job' = [job EXCEPT ![t].pc = pc]
End(t, why) == job' = [job EXCEPT ![t] = [NoJob EXCEPT !.pc = "done", !.why = why]]

\* runAuthHotswap up to the plan: the configuration is read, then the slots.
Launch(t, mode) ==
  /\ job[t].pc = "idle"
  /\ Start(t, IF ListSlots = {}
              THEN [NoJob EXCEPT !.pc = "done", !.why = "no slots"]
              ELSE [NoJob EXCEPT !.pc = "plan", !.why = "launch", !.mode = mode,
                                !.order = SortedSlots(ListSlots)])
  /\ UNCHANGED <<file, meta, live>>

\* The metadata is read a second time, for the current slot.
Plan(t, first) ==
  /\ job[t].pc = "plan"
  /\ LET order == RotationPlan(job[t].mode, ToSet(job[t].order), first, meta.current)
     IN  job' = [job EXCEPT ![t].order = order, ![t].slot = order[1], ![t].pc = "swap"]
  /\ UNCHANGED <<file, meta, live>>

\* `owx auth use <slot>` and `owx auth add <slot>`, the second after a login
\* that leaves its account in auth.json.
Use(t, s) ==
  /\ job[t].pc = "idle"
  /\ Start(t, [NoJob EXCEPT !.pc = "swap", !.why = "use", !.slot = s])
  /\ UNCHANGED <<file, meta, live>>

Login(t, s) ==
  /\ job[t].pc = "idle"
  /\ Start(t, [NoJob EXCEPT !.pc = "store", !.why = "add", !.slot = s])
  /\ live' = Fresh
  /\ UNCHANGED <<file, meta>>

\* addSlotFromAuthFile: whatever auth.json holds by now is the slot's account.
StoreSlot(t) ==
  /\ job[t].pc = "store"
  /\ file' = [file EXCEPT ![job[t].slot] = live]
  /\ Goto(t, "read")
  /\ UNCHANGED <<meta, live>>

\* useSlot, in the order of its writes: auth.json, then the metadata, read and
\* written back.
SwapLive(t) ==
  /\ job[t].pc = "swap"
  /\ IF file[job[t].slot] = 0
     THEN End(t, "threw") /\ UNCHANGED live
     ELSE live' = file[job[t].slot] /\ Goto(t, "read")
  /\ UNCHANGED <<file, meta>>

ReadMetadata(t) ==
  /\ job[t].pc \in {"read", "blame"}
  /\ job' = [job EXCEPT ![t].seen = meta,
                        ![t].pc = IF @ = "read" THEN "save" ELSE "mark"]
  /\ UNCHANGED <<file, meta, live>>

SaveMetadata(t) ==
  /\ job[t].pc = "save"
  /\ LET s == job[t].slot
         seen == job[t].seen
         listed == seen.listed \cup {s}
     IN  meta' = IF job[t].why = "add"
                 THEN [seen EXCEPT !.listed = listed]
                 ELSE [current |-> s, listed |-> listed, exhausted |-> seen.exhausted \ {s}]
  /\ IF job[t].why = "launch"
     THEN job' = [job EXCEPT ![t].seen = NoMetadata, ![t].pc = "run"]
     ELSE End(t, job[t].why)
  /\ UNCHANGED <<file, live>>

\* The child: it ends well, with an error, or with a message that names a quota.
ChildEnds(t, outcome) ==
  /\ job[t].pc = "run"
  /\ IF outcome = "quota" THEN Goto(t, "blame") ELSE End(t, outcome)
  /\ UNCHANGED <<file, meta, live>>

\* findLatestRolloutSession: sessions are written elsewhere.
Resumable == BOOLEAN

\* markSlotQuota and what follows it: the next slot, if the rotation has one and
\* there is a session to resume.
MarkSlotQuota(t, resumable) ==
  /\ job[t].pc = "mark"
  /\ LET s == job[t].slot
         seen == job[t].seen
         tried == job[t].tried \cup {s}
         next == NextSlots(job[t].order, s, tried)
         why == IF job[t].mode = "manual" THEN "manual"
                ELSE IF next = {} THEN "all exhausted"
                ELSE IF ~resumable THEN "nothing to resume"
                ELSE "launch"
     IN  /\ meta' = [seen EXCEPT !.listed = @ \cup {s}, !.exhausted = @ \cup {s}]
         /\ job' = [job EXCEPT ![t].tried = tried, ![t].why = why, ![t].seen = NoMetadata,
              ![t].slot = IF why = "launch" THEN CHOOSE n \in next : TRUE ELSE s,
              ![t].pc = IF why = "launch" THEN "swap" ELSE "done"]
  /\ UNCHANGED <<file, live>>

\* Any command may be interrupted between two of its writes.
Interrupt(t) ==
  /\ job[t].pc \notin {"idle", "done"}
  /\ End(t, "interrupted")
  /\ UNCHANGED <<file, meta, live>>

Work(t) ==
  \/ \E first \in {<<>>} \cup {<<s, s>> : s \in Slots} : Plan(t, first)
  \/ StoreSlot(t) \/ SwapLive(t) \/ ReadMetadata(t) \/ SaveMetadata(t)
  \/ \E outcome \in {"exit 0", "exit 1", "quota"} : ChildEnds(t, outcome)
  \/ \E resumable \in Resumable : MarkSlotQuota(t, resumable)

AuthInit ==
  /\ file \in {[s \in Slots |-> IF s \in S THEN s ELSE 0] : S \in SUBSET Slots}
  /\ LET listed == {s \in Slots : file[s] # 0}
     IN  meta \in [current : listed \cup {0}, listed : {listed}, exhausted : {{}}]
  /\ live = Fresh
  /\ job = [t \in Terminals |-> NoJob]

AuthNext ==
  \E t \in Terminals :
    \/ \E mode \in Rotations : Launch(t, mode)
    \/ \E s \in Slots : Use(t, s) \/ Login(t, s)
    \/ Work(t)
    \/ Interrupt(t)

AuthSpec == AuthInit /\ [][AuthNext]_authVars /\ \A t \in Terminals : WF_authVars(Work(t))

-----------------------------------------------------------------------------
AuthTypeOK ==
  /\ file \in [Slots -> Slots \cup {0, Fresh}]
  /\ meta \in Metadata
  /\ live \in Slots \cup {0, Fresh}
  /\ \A t \in Terminals :
       /\ job[t].pc \in {"idle", "plan", "swap", "store", "read", "save", "run", "blame",
                         "mark", "done"}
       /\ job[t].slot \in Slots \cup {0} /\ job[t].tried \subseteq Slots
       /\ job[t].seen \in Metadata

(***************************************************************************)
(* The rotation, whatever other terminals do to the metadata meanwhile:    *)
(* an account that ran out is never given to the child again by the same   *)
(* launch (hotswap.ts:189-229), manual rotation leaves the first slot only *)
(* by ending, and "all slots exhausted" is said only when the child ran    *)
(* out on every slot of the plan.                                          *)
(***************************************************************************)
NoSecondTry == \A t \in Terminals :
  LET j == job[t] IN
  /\ j.pc \in {"swap", "read", "save", "run"} => j.slot \notin j.tried
  /\ j.mode = "manual" /\ j.pc # "plan" => j.tried \subseteq {Head(j.order)}
  /\ j.why = "all exhausted" => j.tried = ToSet(j.order)

(***************************************************************************)
(* A launch that no other command ran beside blames the right account: the *)
(* slot it is about to mark, and the current slot of the metadata, are the *)
(* ones whose account the child ran with (storage.ts:122-159).             *)
(***************************************************************************)
BlamesTheRightSlot == \A t \in Terminals :
  job[t].alone /\ job[t].pc \in {"run", "blame", "mark"} =>
    live = file[job[t].slot] /\ meta.current = job[t].slot

RotationSound == NoSecondTry /\ BlamesTheRightSlot

\* Every command comes to an end: the rotation is bounded by the plan.
CommandsEnd == \A t \in Terminals : (job[t].pc # "idle") ~> (job[t].pc = "done")
=============================================================================
