----------------------------- MODULE RuntimeProofs -----------------------------
(***************************************************************************)
(* Theorems about what runs beside the workflow and keeps files of its     *)
(* own, one part each: the hook of plugin mode (PluginHook), the notes and *)
(* the memory (MemoryServer), the rotation of accounts (AuthSlots), the    *)
(* supervisor of autoresearch (Autoresearch), and the doctor with the      *)
(* setup it advises (Diagnosis).  Two lemmas about numbers come first.     *)
(***************************************************************************)
EXTENDS AuthSlots, Autoresearch, Diagnosis, MemoryServer, PluginHook,
        FiniteSetTheorems, SequenceTheorems, TLAPS

(* A set of numbers has a least one, and one that has 0 and the successor  *)
(* of each of its members has all of them: the intervals from 1 are well   *)
(* founded under inclusion.                                                *)
LEMMA LeastNumber ==
  ASSUME NEW T, T \subseteq Nat, T # {}
  PROVE  \E x \in T : \A y \in T : x <= y
<1> DEFINE D == {1 .. n : n \in T}
<1>1. IsWellFoundedOn(StrictSubsetOrdering(Nat), FiniteSubsetsOf(Nat))
  BY FS_StrictSubsetOrderingWellFounded
<1>2. D \subseteq FiniteSubsetsOf(Nat) /\ D # {}
  <2>1. \A n \in T : IsFiniteSet(1 .. n)
    BY FS_Interval
  <2>2. \A n \in T : 1 .. n \in SUBSET Nat
    OBVIOUS
  <2> QED BY <2>1, <2>2 DEF FiniteSubsetsOf
<1>3. \E d \in D : \A e \in D : <<e, d>> \notin StrictSubsetOrdering(Nat)
  BY <1>1, <1>2, WFMin, Zenon
<1>4. PICK x \in T : \A y \in T : <<1 .. y, 1 .. x>> \notin StrictSubsetOrdering(Nat)
  BY <1>3
<1> HIDE DEF D
<1>5. \A y \in T : y < x => <<1 .. y, 1 .. x>> \in StrictSubsetOrdering(Nat)
  BY DEF StrictSubsetOrdering
<1>6. \A y \in T : ~(y < x)
  BY <1>4, <1>5
<1> QED BY <1>6

LEMMA NumberInduction ==
  ASSUME NEW S, 0 \in S, \A n \in Nat : n \in S => n + 1 \in S
  PROVE  Nat \subseteq S
<1> SUFFICES ASSUME Nat \ S # {} PROVE FALSE
  OBVIOUS
<1>1. PICK x \in Nat \ S : \A y \in Nat \ S : x <= y
  BY LeastNumber
<1>2. x # 0 /\ x - 1 \in Nat /\ x - 1 \notin Nat \ S
  BY <1>1
<1> QED BY <1>1, <1>2

-----------------------------------------------------------------------------
(* The hook of plugin mode (PluginHook).  A hook beside which no hook of   *)
(* another session ran has the pointer, and the marks as it read them.     *)
HookShape ==
  /\ hook \in [Sessions -> [at : {"idle", "plugins", "notify", "send", "mark", "act"},
                            event : Events, alone : BOOLEAN,
                            seen : SUBSET (Sessions \X Events),
                            answer : {"none", "allow", "block"}]]
  /\ sent \in SUBSET (Sessions \X Events)
  /\ \A x \in Sessions : hook[x].at \in {"notify", "send", "mark"} => x \in Roots

HookAlone ==
  \A x \in Sessions : hook[x].at # "idle" /\ hook[x].alone =>
    /\ \A s \in Sessions \ {x} : hook[s].at = "idle"
    /\ hook[x].event # "SessionStart" => pointer = x
    /\ hook[x].at \in {"send", "mark"} => hook[x].seen = sent

PluginInv == HookShape /\ HookAlone

LEMMA PluginShapeKept == HookShape /\ [PluginNext]_pluginVars => HookShape'
<1> SUFFICES ASSUME HookShape, [PluginNext]_pluginVars PROVE HookShape'
  OBVIOUS
<1> USE DEF HookShape, Sessions, Events, Answer, Idle
<1>1. ASSUME NEW x \in Sessions, NEW e \in Events, Begin(x, e) PROVE HookShape'
  <2> DEFINE h == IF e = "Stop" /\ x \in Children THEN [Idle EXCEPT !.answer = "allow"]
                  ELSE [Idle EXCEPT !.at = "plugins", !.event = e]
             alone == \A o \in Sessions \ {x} : hook[o].at = "idle"
  <2>1. /\ sent' = sent
        /\ hook' = [s \in Sessions |->
             IF s # x THEN [hook[s] EXCEPT !.alone = @ /\ hook[s].at = "idle"]
             ELSE [h EXCEPT !.alone = alone]]
    BY <1>1 DEF Begin, Began
  <2>2. [h EXCEPT !.alone = alone]
          \in [at : {"idle", "plugins"}, event : Events, alone : BOOLEAN,
               seen : SUBSET (Sessions \X Events), answer : {"none", "allow", "block"}]
    <3>1. alone \in BOOLEAN
      OBVIOUS
    <3> HIDE DEF alone
    <3> QED BY <3>1
  <2>3. ASSUME NEW s \in Sessions
        PROVE  [hook[s] EXCEPT !.alone = @ /\ hook[s].at = "idle"]
                 \in [at : {hook[s].at}, event : Events, alone : BOOLEAN,
                      seen : SUBSET (Sessions \X Events), answer : {"none", "allow", "block"}]
    <3> DEFINE b == hook[s].alone /\ hook[s].at = "idle"
    <3>1. b \in BOOLEAN
      OBVIOUS
    <3>2. [hook[s] EXCEPT !.alone = @ /\ hook[s].at = "idle"] = [hook[s] EXCEPT !.alone = b]
      OBVIOUS
    <3> HIDE DEF b
    <3>3. [hook[s] EXCEPT !.alone = b]
            \in [at : {hook[s].at}, event : Events, alone : BOOLEAN,
                 seen : SUBSET (Sessions \X Events), answer : {"none", "allow", "block"}]
      BY <3>1
    <3> QED BY <3>2, <3>3
  <2> HIDE DEF h, alone
  <2> QED BY <2>1, <2>2, <2>3
<1>2. ASSUME NEW x \in Sessions, AfterPlugins(x) PROVE HookShape'
  BY <1>2 DEF AfterPlugins
<1>3. ASSUME NEW x \in Sessions, ReadSent(x) PROVE HookShape'
  BY <1>3 DEF ReadSent
<1>4. ASSUME NEW x \in Sessions, Send(x) PROVE HookShape'
  BY <1>4 DEF Send
<1>5. ASSUME NEW x \in Sessions, Mark(x) PROVE HookShape'
  BY <1>5 DEF Mark
<1>6. ASSUME NEW x \in Sessions,
             \/ Started(x) \/ Prompt(x) \/ PostToolUse(x) \/ PreToolUse(x) \/ Stop(x)
      PROVE  HookShape'
  <2>1. PICK answer \in {"none", "allow", "block"} :
          hook' = [hook EXCEPT ![x] = [Idle EXCEPT !.answer = answer]] /\ sent' = sent
    BY <1>6 DEF Started, Prompt, PostToolUse, PreToolUse, Stop
  <2>2. [Idle EXCEPT !.answer = answer]
          \in [at : {"idle"}, event : Events, alone : BOOLEAN,
               seen : SUBSET (Sessions \X Events), answer : {"none", "allow", "block"}]
    OBVIOUS
  <2> HIDE DEF Idle
  <2> QED BY <2>1, <2>2
<1>8. ASSUME NEW x \in Sessions, NEW m \in Skills, StateWrite(x, m) PROVE HookShape'
  BY <1>8 DEF StateWrite
<1>9. CASE UNCHANGED pluginVars
  BY <1>9 DEF pluginVars
<1> QED BY <1>1, <1>2, <1>3, <1>4, <1>5, <1>6, <1>8, <1>9 DEF PluginNext

LEMMA PluginAloneKept == PluginInv /\ [PluginNext]_pluginVars => HookAlone'
<1> SUFFICES ASSUME HookShape, HookAlone, [PluginNext]_pluginVars PROVE HookAlone'
  BY DEF PluginInv
<1> USE DEF HookShape, HookAlone, Answer, Idle
<1>1. ASSUME NEW x \in Sessions, NEW e \in Events, Begin(x, e) PROVE HookAlone'
  <2>1. /\ sent' = sent /\ hook[x].at = "idle"
        /\ \A s \in Sessions \ {x} :
             /\ hook'[s].at = hook[s].at
             /\ hook'[s].alone => hook[s].at = "idle"
        /\ hook'[x].at \in {"idle", "plugins"}
        /\ hook'[x].at # "idle" => hook'[x].event = e /\ ~(e = "Stop" /\ x \in Children)
        /\ hook'[x].alone => \A o \in Sessions \ {x} : hook[o].at = "idle"
    <3> DEFINE h == IF e = "Stop" /\ x \in Children THEN [Idle EXCEPT !.answer = "allow"]
                    ELSE [Idle EXCEPT !.at = "plugins", !.event = e]
    <3>1. /\ sent' = sent /\ hook[x].at = "idle"
          /\ hook' = [s \in Sessions |->
               IF s # x THEN [hook[s] EXCEPT !.alone = @ /\ hook[s].at = "idle"]
               ELSE [h EXCEPT !.alone = \A o \in Sessions \ {x} : hook[o].at = "idle"]]
      BY <1>1 DEF Begin, Began
    <3>2. ASSUME NEW s \in Sessions \ {x}
          PROVE  hook'[s].at = hook[s].at /\ (hook'[s].alone => hook[s].at = "idle")
      <4> DEFINE b == hook[s].alone /\ hook[s].at = "idle"
      <4>1. b \in BOOLEAN /\ (b => hook[s].at = "idle") /\ hook'[s] = [hook[s] EXCEPT !.alone = b]
        BY <3>1
      <4> HIDE DEF b
      <4>2. hook'[s].alone = b /\ hook'[s].at = hook[s].at
        BY <4>1
      <4> QED BY <4>1, <4>2
    <3>3. /\ h.at \in {"idle", "plugins"}
          /\ h.at # "idle" => h.event = e /\ ~(e = "Stop" /\ x \in Children)
      OBVIOUS
    <3>4. /\ hook'[x].at = h.at /\ hook'[x].event = h.event
          /\ hook'[x].alone => \A o \in Sessions \ {x} : hook[o].at = "idle"
      <4>1. h \in [at : {"idle", "plugins"}, event : Events \cup {"Stop"}, alone : BOOLEAN, seen : {{}},
                   answer : {"none", "allow"}]
        OBVIOUS
      <4> HIDE DEF h
      <4> QED BY <3>1, <4>1
    <3> HIDE DEF h
    <3> QED BY <3>1, <3>2, <3>3, <3>4
  <2>2. e # "SessionStart" /\ ~(e = "Stop" /\ x \in Children) => pointer' = x
    BY <1>1 DEF Begin, Observe
  <2> QED BY <2>1, <2>2
<1>2. ASSUME NEW x \in Sessions, AfterPlugins(x) PROVE HookAlone'
  BY <1>2 DEF AfterPlugins
<1>3. ASSUME NEW x \in Sessions, ReadSent(x) PROVE HookAlone'
  BY <1>3 DEF ReadSent
<1>4. ASSUME NEW x \in Sessions, Send(x) PROVE HookAlone'
  BY <1>4 DEF Send
<1>5. ASSUME NEW x \in Sessions, Mark(x) PROVE HookAlone'
  BY <1>5 DEF Mark
<1>6. ASSUME NEW x \in Sessions, Started(x) \/ Prompt(x) \/ PostToolUse(x) PROVE HookAlone'
  BY <1>6 DEF Started, Prompt, PostToolUse
<1>7. ASSUME NEW x \in Sessions, PreToolUse(x) \/ Stop(x) PROVE HookAlone'
  BY <1>7 DEF PreToolUse, Stop
<1>8. ASSUME NEW x \in Sessions, NEW m \in Skills, StateWrite(x, m) PROVE HookAlone'
  BY <1>8 DEF StateWrite
<1>9. CASE UNCHANGED pluginVars
  BY <1>9 DEF pluginVars
<1> QED BY <1>1, <1>2, <1>3, <1>4, <1>5, <1>6, <1>7, <1>8, <1>9 DEF PluginNext

LEMMA PluginInvariant == PluginSpec => []PluginInv
<1>1. PluginInit => PluginInv
  BY DEF PluginInit, PluginInv, HookShape, HookAlone, Idle, Events
<1> QED BY <1>1, PluginShapeKept, PluginAloneKept, PTL DEF PluginSpec, PluginInv

(* A session beside which no other hook runs stops with a mode at work     *)
(* only when the run-state says that this mode ended, for any sessions,    *)
(* workers and subagents (codex-native-hook.mjs:1087).                     *)
THEOREM StopsHonestly == PluginSpec => StopsHonest
<1>1. ASSUME PluginInv, [PluginNext]_pluginVars, NEW x \in Roots,
             hook[x].at = "act", hook[x].event = "Stop", hook[x].alone,
             hook'[x].at = "idle", hook'[x].answer = "allow"
      PROVE  \A m \in modes[x] : runstate[x] = <<m, FALSE>>
  <2> USE DEF PluginInv, HookShape, Sessions
  <2>1. x \in Sessions /\ pointer = x
    BY <1>1 DEF HookAlone
  <2>2. Stop(x)
    <3>1. ASSUME NEW y \in Sessions, NEW e \in Events, Begin(y, e) PROVE FALSE
      BY <1>1, <2>1, <3>1 DEF Begin, Began, HookAlone
    <3>2. ASSUME NEW y \in Sessions, y # x,
                 \/ AfterPlugins(y) \/ ReadSent(y) \/ Send(y) \/ Mark(y) \/ Started(y)
                 \/ Prompt(y) \/ PostToolUse(y) \/ PreToolUse(y) \/ Stop(y)
          PROVE  FALSE
      BY <1>1, <2>1, <3>2 DEF AfterPlugins, ReadSent, Send, Mark, Started, Prompt, PostToolUse,
         PreToolUse, Stop, HookAlone
    <3>3. ~(\/ AfterPlugins(x) \/ ReadSent(x) \/ Send(x) \/ Mark(x) \/ Started(x)
            \/ Prompt(x) \/ PostToolUse(x) \/ PreToolUse(x))
      BY <1>1 DEF AfterPlugins, ReadSent, Send, Mark, Started, Prompt, PostToolUse, PreToolUse
    <3>4. ASSUME NEW y \in Sessions, NEW m \in Skills, StateWrite(y, m) PROVE FALSE
      BY <1>1, <3>4 DEF StateWrite
    <3>5. hook' # hook
      BY <1>1
    <3> QED BY <1>1, <3>1, <3>2, <3>3, <3>4, <3>5 DEF PluginNext, pluginVars
  <2>3. ~Authoritative(x)
    BY <1>1, <2>1, <2>2 DEF Stop, Answer, Idle
  <2>4. modes[x] \ EndedMode(x) = {}
    BY <1>1, <2>1, <2>3 DEF Authoritative
  <2> QED BY <2>4 DEF EndedMode
<1>2. PluginInv /\ [PluginNext]_pluginVars =>
        [\A x \in Roots :
           (/\ hook[x].at = "act" /\ hook[x].event = "Stop" /\ hook[x].alone
            /\ hook'[x].at = "idle" /\ hook'[x].answer = "allow")
           => \A m \in modes[x] : runstate[x] = <<m, FALSE>>]_pluginVars
  BY <1>1
<1> QED BY <1>2, PluginInvariant, PTL DEF PluginSpec, StopsHonest, StopHonest

(* An event marked as sent stays marked, but for a hook that ran beside    *)
(* another (codex-native-hook.mjs:893-935).                                *)
THEOREM MarksStay == PluginSpec => MarksKept
<1>1. ASSUME PluginInv, [PluginNext]_pluginVars
      PROVE  sent \subseteq sent' \/ \E x \in Roots : hook[x].at = "mark" /\ ~hook[x].alone
  <2>1. ASSUME NEW x \in Sessions, Mark(x)
        PROVE  sent \subseteq sent' \/ (x \in Roots /\ hook[x].at = "mark" /\ ~hook[x].alone)
    BY <1>1, <2>1 DEF Mark, PluginInv, HookShape, HookAlone
  <2>2. ASSUME sent' # sent PROVE \E x \in Sessions : Mark(x)
    BY <1>1, <2>2 DEF PluginNext, pluginVars, Begin, AfterPlugins, ReadSent, Send, Started,
       Prompt, PostToolUse, PreToolUse, Stop, StateWrite
  <2> QED BY <2>1, <2>2
<1> QED BY <1>1, PluginInvariant, PTL DEF PluginSpec, MarksKept, MarkKept

-----------------------------------------------------------------------------
(* The notes and the memory (MemoryServer).  A document that nothing       *)
(* disturbed has at most one call on it, and what it promises is in the    *)
(* document, or in what the call has read and is about to write in place.  *)
Entry == Tools \X Nat
Call == {c \in [tool : Tools \cup {"none"}, at : {"rest", "read", "open", "fill", "rename"},
                n : Nat, heads : BOOLEAN, read : SUBSET Entry, gone : SUBSET Entry,
                file : {"none", "tmp", "doc"}] :
           /\ c.at # "rest" => c.tool \in Tools
           /\ c.file = "tmp" \/ c.at = "rename" => Renames(c.tool)}

MemoryShape ==
  /\ doc \in [Documents -> SUBSET Entry] /\ promised \in [Documents -> SUBSET Entry]
  /\ tmp \in [Servers -> (SUBSET Entry) \cup {NoFile}]
  /\ handler \in [Handlers -> Call]
  /\ headed \in BOOLEAN /\ disturbed \in [Documents -> BOOLEAN] /\ entries \in Nat

(* What the call h on document d has in its hands.                         *)
Holds(h, d) ==
  LET c == handler[h] IN
  /\ c.at \in {"open", "rename"} \/ (c.at = "fill" /\ Renames(c.tool)) => c.read = doc[d]
  /\ c.at = "fill" => c.file = IF Renames(c.tool) THEN "tmp" ELSE "doc"
  /\ c.at \in {"open", "fill", "rename"} => \A e \in c.gone : Waives(c, e)
  /\ c.at = "rename" => tmp[ServerOf[h]] = Written(h)
  /\ promised[d] \subseteq IF InPlace(h) THEN c.read ELSE doc[d]

Undisturbed(d) ==
  /\ OnDocument(d) = {} => promised[d] \subseteq doc[d]
  /\ \A g, h \in OnDocument(d) : g = h
  /\ \A h \in OnDocument(d) : Holds(h, d)

MemoryInv == MemoryShape /\ \A d \in Documents : ~disturbed[d] => Undisturbed(d)

LEMMA DocumentKnown ==
  ASSUME NEW tool \in Tools
  PROVE  /\ DocumentOf(tool) \in Documents
         /\ Renames(tool) => DocumentOf(tool) = "notepad"
BY DEF Tools, Documents, DocumentOf, Renames

(* A call waives what it leaves out.                                       *)
LEMMA Waived ==
  ASSUME NEW c, NEW content, c.gone \in Replaced(c.tool, content)
  PROVE  \A e \in c.gone : Waives(c, e)
<1>1. CASE c.tool = "priority"
  BY <1>1 DEF Replaced, Of, Waives
<1>2. CASE c.tool = "rewrite"
  BY <1>2 DEF Waives
<1>3. CASE c.tool = "prune"
  BY <1>3 DEF Replaced, Of, Waives
<1>4. CASE c.tool \notin {"priority", "rewrite", "prune"}
  BY <1>4 DEF Replaced
<1> QED BY <1>1, <1>2, <1>3, <1>4

(* What a call of the right shape writes and promises has one, too.        *)
LEMMA WrittenShape ==
  ASSUME MemoryShape, NEW h \in Handlers, handler[h].at # "rest"
  PROVE  /\ Written(h) \in SUBSET Entry /\ Promises(h) \in SUBSET Entry
         /\ DocumentOf(handler[h].tool) \in Documents
<1>1. handler[h] \in Call
  BY DEF MemoryShape
<1>2. /\ handler[h].read \in SUBSET Entry /\ Brought(handler[h]) \in SUBSET Entry
      /\ DocumentOf(handler[h].tool) \in Documents
  BY <1>1, DocumentKnown DEF Call, Entry, Brought
<1>3. promised[DocumentOf(handler[h].tool)] \in SUBSET Entry
  BY <1>2 DEF MemoryShape
<1> QED BY <1>2, <1>3 DEF Written, Promises

(* A call that waives what it leaves out keeps what it promises.           *)
LEMMA PromiseWritten ==
  ASSUME NEW h, promised[DocumentOf(handler[h].tool)] \subseteq handler[h].read,
         \A e \in handler[h].gone : Waives(handler[h], e)
  PROVE  Promises(h) \subseteq Written(h)
BY DEF Promises, Written

(* The steps of a call that keep it one.                                   *)
LEMMA CallSteps ==
  /\ AtRest \in Call
  /\ \A tool \in Tools, n \in Nat, heads \in BOOLEAN :
       [AtRest EXCEPT !.tool = tool, !.at = "read", !.n = n, !.heads = heads] \in Call
  /\ \A c \in Call, content \in SUBSET Entry, gone \in SUBSET Entry :
       c.at # "rest" => [c EXCEPT !.read = content, !.gone = gone, !.at = "open"] \in Call
  /\ \A c \in Call :
       /\ c.at # "rest" =>
            [c EXCEPT !.at = "fill", !.file = IF Renames(c.tool) THEN "tmp" ELSE "doc"] \in Call
       /\ c.at # "rest" /\ Renames(c.tool) => [c EXCEPT !.at = "rename"] \in Call
       /\ [c EXCEPT !.file = "doc"] \in Call
       /\ [c EXCEPT !.file = "none"] \in Call
BY DEF Call, AtRest, Renames

LEMMA MemoryShapeKept == MemoryShape /\ [MemoryNext]_memoryVars => MemoryShape'
<1> SUFFICES ASSUME MemoryShape, [MemoryNext]_memoryVars PROVE MemoryShape'
  OBVIOUS
<1>1. ASSUME NEW h \in Handlers, NEW tool \in Tools, NEW heads \in BOOLEAN, BeginTool(h, tool, heads) PROVE MemoryShape'
  <2>1. entries + 1 \in Nat
    BY DEF MemoryShape
  <2> DEFINE c == [AtRest EXCEPT !.tool = tool, !.at = "read", !.n = entries + 1, !.heads = heads]
  <2>2. c \in Call
    BY <2>1, CallSteps
  <2>3. /\ handler' = [handler EXCEPT ![h] = c] /\ UNCHANGED <<doc, tmp, headed>>
        /\ entries' = entries + 1
    BY <1>1 DEF BeginTool
  <2> HIDE DEF c
  <2>4. handler' \in [Handlers -> Call]
    BY <2>2, <2>3 DEF MemoryShape
  <2> DEFINE d == DocumentOf(tool)
             kept == promised[d] \cap doc[d]
  <2>5. /\ \/ disturbed' = [disturbed EXCEPT ![d] = TRUE] 
           \/ disturbed' = [disturbed EXCEPT ![d] = FALSE]
        /\ promised' = promised \/ promised' = [promised EXCEPT ![d] = kept]
    BY <1>1 DEF BeginTool
  <2>6. d \in Documents
    BY DocumentKnown
  <2>7. kept \in SUBSET Entry
    BY <2>6 DEF MemoryShape
  <2> HIDE DEF d, kept
  <2>8. promised' \in [Documents -> SUBSET Entry] /\ disturbed' \in [Documents -> BOOLEAN]
    BY <2>5, <2>6, <2>7 DEF MemoryShape
  <2> QED BY <2>1, <2>3, <2>4, <2>8 DEF MemoryShape
<1>2. ASSUME NEW h \in Handlers, NEW gone \in SUBSET doc[DocumentOf(handler[h].tool)], ReadDocument(h, gone)
      PROVE  MemoryShape'
  <2> DEFINE content == doc[DocumentOf(handler[h].tool)]
             c == [handler[h] EXCEPT !.read = content, !.gone = gone, !.at = "open"]
  <2>1. handler[h] \in Call /\ handler[h].at = "read"
    BY <1>2 DEF ReadDocument, MemoryShape
  <2>2. handler[h].tool \in Tools
    BY <2>1 DEF Call
  <2>3. content \in SUBSET Entry /\ gone \in SUBSET Entry
    BY <2>2, DocumentKnown DEF MemoryShape
  <2>4. c \in Call
    <3> HIDE DEF content
    <3> QED BY <2>1, <2>3, CallSteps
  <2>5. handler' = [handler EXCEPT ![h] = c]
    BY <1>2 DEF ReadDocument
  <2> HIDE DEF c
  <2>6. handler' \in [Handlers -> Call]
    BY <2>4, <2>5 DEF MemoryShape
  <2> QED BY <1>2, <2>6 DEF ReadDocument, MemoryShape
<1>3. ASSUME NEW h \in Handlers, OpenFile(h) PROVE MemoryShape'
  <2> DEFINE c == [handler[h] EXCEPT !.at = "fill",
                                     !.file = IF Renames(handler[h].tool) THEN "tmp" ELSE "doc"]
             d == DocumentOf(handler[h].tool)
  <2>1. handler[h] \in Call /\ handler[h].at = "open"
    BY <1>3 DEF OpenFile, MemoryShape
  <2>2. c \in Call
    BY <2>1, CallSteps
  <2>3. d \in Documents
    BY <2>1, DocumentKnown DEF Call
  <2>4. /\ handler' = [handler EXCEPT ![h] = c]
        /\ tmp' = tmp \/ tmp' = [tmp EXCEPT ![ServerOf[h]] = {}]
        /\ doc' = doc \/ doc' = [doc EXCEPT ![d] = {}]
        /\ UNCHANGED <<promised, headed, disturbed, entries>>
    BY <1>3 DEF OpenFile
  <2> HIDE DEF c, d
  <2>5. handler' \in [Handlers -> Call]
    BY <2>2, <2>4 DEF MemoryShape
  <2>6. doc' \in [Documents -> SUBSET Entry] /\ tmp' \in [Servers -> (SUBSET Entry) \cup {NoFile}]
    BY <2>3, <2>4 DEF MemoryShape, Servers
  <2> QED BY <2>4, <2>5, <2>6 DEF MemoryShape
<1>4. ASSUME NEW h \in Handlers, FillFile(h) PROVE MemoryShape'
  <2> DEFINE c == [handler[h] EXCEPT !.at = "rename"]
             d == DocumentOf(handler[h].tool)
             w == Written(h)
             p == Promises(h)
  <2>1. handler[h] \in Call /\ handler[h].at = "fill" /\ handler[h].heads \in BOOLEAN
    BY <1>4 DEF FillFile, MemoryShape, Call
  <2>2. d \in Documents /\ w \in SUBSET Entry /\ p \in SUBSET Entry
    BY <2>1, WrittenShape
  <2>3. /\ tmp' = tmp \/ tmp' = [tmp EXCEPT ![ServerOf[h]] = w]
        /\ doc' = doc \/ doc' = [doc EXCEPT ![d] = w]
        /\ \/ handler' = [handler EXCEPT ![h] = c] /\ Renames(handler[h].tool) /\ promised' = promised
           \/ handler' = [handler EXCEPT ![h] = AtRest] /\ promised' = [promised EXCEPT ![d] = p]
        /\ headed' = (headed \/ handler[h].heads) /\ UNCHANGED <<disturbed, entries>>
    BY <1>4 DEF FillFile
  <2>4. Renames(handler[h].tool) => c \in Call
    BY <2>1, CallSteps
  <2> HIDE DEF c, d, w, p
  <2>5. handler' \in [Handlers -> Call]
    BY <2>3, <2>4, CallSteps DEF MemoryShape
  <2>6. /\ doc' \in [Documents -> SUBSET Entry] /\ tmp' \in [Servers -> (SUBSET Entry) \cup {NoFile}]
        /\ promised' \in [Documents -> SUBSET Entry]
    BY <2>2, <2>3 DEF MemoryShape, Servers
  <2>7. headed' \in BOOLEAN
    BY <2>3
  <2> QED BY <2>3, <2>5, <2>6, <2>7 DEF MemoryShape
<1>5. ASSUME NEW h \in Handlers, RenameFile(h) PROVE MemoryShape'
  <2> DEFINE s == ServerOf[h]
             w == tmp[s]
             p == Promises(h)
  <2>1. handler[h] \in Call /\ handler[h].at = "rename"
    BY <1>5 DEF RenameFile, MemoryShape
  <2>2. "notepad" \in Documents /\ s \in Servers /\ w \in SUBSET Entry
    <3>1. "notepad" \in Documents /\ s \in Servers
      BY DEF Documents, Servers
    <3>2. w # NoFile
      BY <1>5 DEF RenameFile
    <3>3. w \in (SUBSET Entry) \cup {NoFile}
      BY <3>1 DEF MemoryShape
    <3> QED BY <3>1, <3>2, <3>3
  <2>3. p \in SUBSET Entry
    BY <2>1, WrittenShape
  <2>4. /\ doc' = [doc EXCEPT !["notepad"] = w] /\ tmp' = [tmp EXCEPT ![s] = NoFile]
        /\ promised' = [promised EXCEPT !["notepad"] = p] /\ UNCHANGED <<headed, disturbed, entries>>
    BY <1>5 DEF RenameFile
  <2>5. handler' \in [Handlers -> Call]
    <3>1. ASSUME NEW g \in Handlers
          PROVE  /\ AtRest \in Call /\ handler[g] \in Call
                 /\ [handler[g] EXCEPT !.file = "doc"] \in Call
                 /\ [handler[g] EXCEPT !.file = "none"] \in Call
      BY CallSteps DEF MemoryShape
    <3> QED BY <1>5, <3>1 DEF RenameFile
  <2> HIDE DEF s, w, p
  <2>6. doc' \in [Documents -> SUBSET Entry] /\ promised' \in [Documents -> SUBSET Entry]
    BY <2>2, <2>3, <2>4 DEF MemoryShape
  <2>7. tmp' \in [Servers -> (SUBSET Entry) \cup {NoFile}]
    <3>1. NoFile \in (SUBSET Entry) \cup {NoFile}
      OBVIOUS
    <3> QED BY <2>2, <2>4, <3>1 DEF MemoryShape
  <2> QED BY <2>4, <2>5, <2>6, <2>7 DEF MemoryShape
<1>6. ASSUME NEW h \in Handlers, RenameFails(h) PROVE MemoryShape'
  BY <1>6, CallSteps DEF RenameFails, MemoryShape
<1>9. ASSUME NEW h \in Handlers, NothingToPrune(h) PROVE MemoryShape'
  BY <1>9, CallSteps DEF NothingToPrune, MemoryShape
<1>7. ASSUME NEW s \in Servers, ServerDies(s) PROVE MemoryShape'
  <2>1. disturbed' \in [Documents -> BOOLEAN]
    <3> DEFINE b(d) == disturbed[d] \/ \E h \in OnDocument(d) : ServerOf[h] = s /\ InPlace(h)
    <3>1. disturbed' = [d \in Documents |-> b(d)]
      BY <1>7 DEF ServerDies
    <3>2. \A d \in Documents : b(d) \in BOOLEAN
      OBVIOUS
    <3> HIDE DEF b
    <3> QED BY <3>1, <3>2
  <2> QED BY <1>7, <2>1, CallSteps DEF ServerDies, MemoryShape
<1>8. CASE UNCHANGED memoryVars
  BY <1>8 DEF memoryVars, MemoryShape
<1> QED BY <1>1, <1>2, <1>3, <1>4, <1>5, <1>6, <1>7, <1>8, <1>9 DEF MemoryNext

(* A call elsewhere leaves a document alone.                               *)
LEMMA ElsewhereUndisturbed ==
  ASSUME MemoryShape, NEW d \in Documents, Undisturbed(d),
         doc'[d] = doc[d], promised'[d] = promised[d], headed => headed',
         \A h \in Handlers : h \in OnDocument(d) \/ h \in OnDocument(d)' => handler'[h] = handler[h],
         \A h \in OnDocument(d) : tmp'[ServerOf[h]] = tmp[ServerOf[h]] \/ handler[h].at # "rename"
  PROVE  Undisturbed(d)'
<1>1. OnDocument(d)' = OnDocument(d)
  BY DEF OnDocument
<1>2. ASSUME NEW h \in OnDocument(d) PROVE Holds(h, d)'
  <2>1. handler'[h] = handler[h]
    BY DEF OnDocument
  <2>2. Holds(h, d)
    BY DEF Undisturbed
  <2>3. \A e : Waives(handler[h], e) => Waives(handler[h], e)'
    BY <2>1 DEF Waives
  <2> QED BY <2>1, <2>2, <2>3 DEF Holds, InPlace, Written, Brought
<1> QED BY <1>1, <1>2 DEF Undisturbed

(* The only call on a document moves on or ends.                           *)
LEMMA AloneMoves ==
  ASSUME MemoryShape, NEW d \in Documents, Undisturbed(d),
         NEW h \in OnDocument(d),
         \A g \in Handlers : g # h /\ g \in OnDocument(d)' => g \in OnDocument(d),
         \/ handler'[h].at = "rest" /\ promised'[d] \subseteq doc'[d]
         \/ h \in OnDocument(d)' /\ Holds(h, d)'
  PROVE  Undisturbed(d)'
<1>1. \A g \in OnDocument(d)' : g \in Handlers /\ g = h
  BY DEF OnDocument, Undisturbed
<1>2. h \in Handlers
  BY DEF OnDocument
<1>3. CASE handler'[h].at = "rest" /\ promised'[d] \subseteq doc'[d]
  <2>1. OnDocument(d)' = {}
    BY <1>1, <1>3 DEF OnDocument
  <2> QED BY <1>3, <2>1 DEF Undisturbed
<1>4. CASE h \in OnDocument(d)' /\ Holds(h, d)'
  BY <1>1, <1>4 DEF Undisturbed
<1> QED BY <1>3, <1>4

LEMMA BeginUndisturbed ==
  ASSUME MemoryInv, NEW h \in Handlers, NEW tool \in Tools, NEW heads \in BOOLEAN, BeginTool(h, tool, heads),
         NEW d \in Documents, ~disturbed'[d]
  PROVE  Undisturbed(d)'
<1> DEFINE c == [AtRest EXCEPT !.tool = tool, !.at = "read", !.n = entries + 1, !.heads = heads]
<1>1. /\ handler' = [handler EXCEPT ![h] = c] /\ handler[h].at = "rest"
      /\ doc' = doc /\ tmp' = tmp /\ headed' = headed
      /\ c.at = "read" /\ c.tool = tool /\ c.file = "none"
  BY DEF BeginTool, AtRest
<1> HIDE DEF c
<1>2. handler'[h] = c /\ \A g \in Handlers : g # h => handler'[g] = handler[g]
  BY <1>1 DEF MemoryInv, MemoryShape
<1>3. CASE DocumentOf(tool) = d
  <2>1. OnDocument(d) = {} /\ promised' = [promised EXCEPT ![d] = @ \cap doc[d]]
    <3>1. disturbed' # [disturbed EXCEPT ![d] = TRUE]
      BY DEF MemoryInv, MemoryShape
    <3> QED BY <1>3, <3>1 DEF BeginTool
  <2>2. promised'[d] \subseteq doc'[d]
    BY <1>1, <2>1 DEF MemoryInv, MemoryShape
  <2>3. \A g \in OnDocument(d)' : g = h
    BY <1>2, <2>1 DEF OnDocument
  <2>4. h \in OnDocument(d)' /\ Holds(h, d)'
    BY <1>1, <1>2, <1>3, <2>2 DEF OnDocument, Holds, InPlace
  <2> QED BY <2>3, <2>4 DEF Undisturbed
<1>4. CASE DocumentOf(tool) # d
  <2>1. promised'[d] = promised[d] /\ disturbed'[d] = disturbed[d]
    <3>1. DocumentOf(tool) \in Documents
      BY DocumentKnown
    <3> QED BY <1>4, <3>1 DEF BeginTool, MemoryInv, MemoryShape
  <2>2. Undisturbed(d)
    BY <2>1 DEF MemoryInv
  <2>3. h \notin OnDocument(d) /\ h \notin OnDocument(d)'
    BY <1>1, <1>2, <1>4 DEF OnDocument
  <2> QED BY <1>1, <1>2, <2>1, <2>2, <2>3, ElsewhereUndisturbed DEF MemoryInv, OnDocument
<1> QED BY <1>3, <1>4

LEMMA ReadUndisturbed ==
  ASSUME MemoryInv, NEW h \in Handlers, NEW gone \in SUBSET doc[DocumentOf(handler[h].tool)],
         ReadDocument(h, gone), NEW d \in Documents, ~disturbed'[d]
  PROVE  Undisturbed(d)'
<1> DEFINE content == doc[DocumentOf(handler[h].tool)]
           c == [handler[h] EXCEPT !.read = content, !.gone = gone, !.at = "open"]
<1>1. /\ handler' = [handler EXCEPT ![h] = c] /\ headed' = headed
      /\ doc' = doc /\ tmp' = tmp /\ promised' = promised /\ disturbed' = disturbed
      /\ handler[h].at = "read" /\ gone \in Replaced(handler[h].tool, content)
  BY DEF ReadDocument
<1>2. /\ c.tool = handler[h].tool /\ c.at = "open" /\ c.read = content /\ c.gone = gone
      /\ handler[h].tool \in Tools /\ handler[h] \in Call
  BY <1>1 DEF MemoryInv, MemoryShape, Call
<1>3. Undisturbed(d)
  BY <1>1 DEF MemoryInv
<1> HIDE DEF c
<1>6. \A e \in c.gone : Waives(c, e)
  <2> HIDE DEF content
  <2> QED BY <1>1, <1>2, Waived
<1>7. handler'[h] = c /\ \A g \in Handlers : g # h => handler'[g] = handler[g]
  BY <1>1 DEF MemoryInv, MemoryShape
<1>8. CASE h \in OnDocument(d)
  <2>1. promised'[d] \subseteq doc'[d] /\ DocumentOf(handler[h].tool) = d
    BY <1>1, <1>3, <1>8 DEF Undisturbed, Holds, InPlace, OnDocument
  <2>2. \A e \in handler'[h].gone : Waives(handler[h], e)'
    BY <1>1, <1>6, <1>7 DEF Waives
  <2>3. h \in OnDocument(d)' /\ Holds(h, d)'
    BY <1>1, <1>2, <1>7, <2>1, <2>2 DEF OnDocument, Holds, InPlace
  <2> QED BY <1>3, <1>7, <1>8, <2>3, AloneMoves DEF OnDocument, MemoryInv
<1>9. CASE h \notin OnDocument(d)
  <2>1. DocumentOf(handler[h].tool) # d
    BY <1>1, <1>9 DEF OnDocument
  <2>2. h \notin OnDocument(d)'
    BY <1>2, <1>7, <2>1 DEF OnDocument
  <2> QED BY <1>1, <1>3, <1>7, <1>9, <2>2, ElsewhereUndisturbed DEF MemoryInv, OnDocument
<1> QED BY <1>8, <1>9

(* What a call does to files of its own document only.                     *)
LEMMA OwnDocument ==
  ASSUME MemoryInv, NEW h \in Handlers, handler[h].at # "rest",
         NEW d \in Documents, Undisturbed(d), h \notin OnDocument(d),
         NEW c, DocumentOf(c.tool) # d \/ c.at = "rest",
         handler' = [handler EXCEPT ![h] = c],
         doc'[d] = doc[d], promised'[d] = promised[d], headed => headed',
         NEW w, tmp' = tmp \/ (Renames(handler[h].tool) /\ tmp' = [tmp EXCEPT ![ServerOf[h]] = w])
  PROVE  Undisturbed(d)'
<1>1. handler'[h] = c /\ \A g \in Handlers : g # h => handler'[g] = handler[g]
  BY DEF MemoryInv, MemoryShape
<1>2. DocumentOf(handler[h].tool) # d /\ handler[h].tool \in Tools
  BY DEF OnDocument, MemoryInv, MemoryShape, Call
<1>3. ASSUME NEW g \in OnDocument(d)
      PROVE  tmp'[ServerOf[g]] = tmp[ServerOf[g]] \/ handler[g].at # "rename"
  <2>1. CASE tmp' = tmp
    BY <2>1
  <2>2. CASE Renames(handler[h].tool)
    <3>1. handler[g] \in Call /\ DocumentOf(handler[g].tool) = d /\ d # "notepad"
      BY <1>2, <2>2, DocumentKnown DEF OnDocument, MemoryInv, MemoryShape
    <3> QED BY <3>1 DEF Call, DocumentOf, Renames
  <2> QED BY <2>1, <2>2
<1>4. h \notin OnDocument(d)'
  BY <1>1 DEF OnDocument
<1> QED BY <1>1, <1>3, <1>4, ElsewhereUndisturbed DEF MemoryInv

LEMMA OpenUndisturbed ==
  ASSUME MemoryInv, NEW h \in Handlers, OpenFile(h),
         NEW d \in Documents, ~disturbed'[d]
  PROVE  Undisturbed(d)'
<1> DEFINE c == [handler[h] EXCEPT !.at = "fill",
                                   !.file = IF Renames(handler[h].tool) THEN "tmp" ELSE "doc"]
           e == DocumentOf(handler[h].tool)
<1>1. /\ handler' = [handler EXCEPT ![h] = c] /\ handler[h].at = "open"
      /\ promised' = promised /\ disturbed' = disturbed /\ headed' = headed
      /\ IF Renames(handler[h].tool)
         THEN tmp' = [tmp EXCEPT ![ServerOf[h]] = {}] /\ doc' = doc
         ELSE doc' = [doc EXCEPT ![e] = {}] /\ tmp' = tmp
  BY DEF OpenFile
<1>2. /\ c.tool = handler[h].tool /\ c.at = "fill" /\ c.read = handler[h].read
      /\ c.gone = handler[h].gone /\ c.file = IF Renames(handler[h].tool) THEN "tmp" ELSE "doc"
  BY DEF MemoryInv, MemoryShape, Call
<1>3. Undisturbed(d) /\ e \in Documents
  <2>1. handler[h].tool \in Tools
    BY <1>1 DEF MemoryInv, MemoryShape, Call
  <2> QED BY <1>1, <2>1, DocumentKnown DEF MemoryInv
<1> HIDE DEF c
<1>4. handler'[h] = c /\ \A g \in Handlers : g # h => handler'[g] = handler[g]
  BY <1>1 DEF MemoryInv, MemoryShape
<1>5. CASE h \in OnDocument(d)
  <2>1. e = d /\ promised[d] \subseteq doc[d] /\ handler[h].read = doc[d]
    BY <1>1, <1>3, <1>5 DEF Undisturbed, Holds, InPlace, OnDocument
  <2>2. Renames(handler[h].tool) => doc'[d] = doc[d]
    BY <1>1
  <2>4. \A x \in handler[h].gone : Waives(handler[h], x)
    BY <1>1, <1>3, <1>5 DEF Undisturbed, Holds
  <2>5. \A x \in handler'[h].gone : Waives(handler[h], x)'
    BY <1>1, <1>2, <1>4, <2>4 DEF Waives
  <2>3. h \in OnDocument(d)' /\ Holds(h, d)'
    BY <1>1, <1>2, <1>4, <2>1, <2>2, <2>5 DEF OnDocument, Holds, InPlace
  <2> QED BY <1>3, <1>4, <1>5, <2>3, AloneMoves DEF OnDocument, MemoryInv
<1>6. CASE h \notin OnDocument(d)
  <2>1. DocumentOf(c.tool) # d /\ doc'[d] = doc[d]
    BY <1>1, <1>2, <1>3, <1>6 DEF OnDocument, MemoryInv, MemoryShape
  <2> QED BY <1>1, <1>3, <1>6, <2>1, OwnDocument
<1> QED BY <1>5, <1>6

LEMMA FillUndisturbed ==
  ASSUME MemoryInv, NEW h \in Handlers, FillFile(h),
         NEW d \in Documents, ~disturbed'[d]
  PROVE  Undisturbed(d)'
<1> DEFINE c == [handler[h] EXCEPT !.at = "rename"]
           e == DocumentOf(handler[h].tool)
           w == Written(h)
           p == Promises(h)
<1>1. /\ handler[h].at = "fill" /\ disturbed' = disturbed /\ (headed => headed')
      /\ tmp' = IF handler[h].file = "tmp" THEN [tmp EXCEPT ![ServerOf[h]] = w] ELSE tmp
      /\ doc' = IF handler[h].file = "doc" THEN [doc EXCEPT ![e] = w] ELSE doc
      /\ IF Renames(handler[h].tool)
         THEN handler' = [handler EXCEPT ![h] = c] /\ promised' = promised
         ELSE handler' = [handler EXCEPT ![h] = AtRest] /\ promised' = [promised EXCEPT ![e] = p]
  BY DEF FillFile
<1>2. /\ c.tool = handler[h].tool /\ c.at = "rename" /\ c.read = handler[h].read
      /\ c.n = handler[h].n /\ c.gone = handler[h].gone
      /\ handler[h] \in Call /\ ServerOf[h] \in Servers
  BY DEF MemoryInv, MemoryShape, Call, Servers
<1>3. Undisturbed(d) /\ e \in Documents
  <2>1. handler[h].tool \in Tools
    BY <1>1, <1>2 DEF Call
  <2> QED BY <1>1, <2>1, DocumentKnown DEF MemoryInv
<1>4. h \in OnDocument(d) => \A x \in handler[h].gone : Waives(handler[h], x)
  BY <1>1, <1>3 DEF Undisturbed, Holds
<1>5. w = (c.read \ c.gone) \cup Brought(c)
  BY <1>2 DEF Written, Brought
<1> HIDE DEF c, w, p
<1>6. CASE h \in OnDocument(d) /\ Renames(handler[h].tool)
  <2>1. /\ e = d /\ promised[d] \subseteq doc[d] /\ handler[h].read = doc[d]
        /\ handler[h].file = "tmp"
    BY <1>1, <1>3, <1>6 DEF Undisturbed, Holds, InPlace, OnDocument
  <2>2. /\ handler'[h] = c /\ \A g \in Handlers : g # h => handler'[g] = handler[g]
        /\ doc' = doc /\ promised' = promised /\ tmp'[ServerOf[h]] = w
    BY <1>1, <1>2, <1>6, <2>1 DEF MemoryInv, MemoryShape
  <2>3. w = Written(h)'
    BY <1>5, <2>2 DEF Written, Brought
  <2>4. \A x \in handler'[h].gone : Waives(handler[h], x)'
    BY <1>1, <1>2, <1>4, <1>6, <2>2 DEF Waives
  <2>5. h \in OnDocument(d)' /\ Holds(h, d)'
    BY <1>2, <2>1, <2>2, <2>3, <2>4 DEF OnDocument, Holds, InPlace
  <2> QED BY <1>3, <1>6, <2>2, <2>5, AloneMoves DEF OnDocument, MemoryInv
<1>7. CASE h \in OnDocument(d) /\ ~Renames(handler[h].tool)
  <2>1. /\ e = d /\ promised[d] \subseteq handler[h].read /\ handler[h].file = "doc"
    BY <1>1, <1>3, <1>7 DEF Undisturbed, Holds, InPlace, OnDocument
  <2>2. /\ handler'[h] = AtRest /\ \A g \in Handlers : g # h => handler'[g] = handler[g]
        /\ doc'[d] = w /\ promised'[d] = p
    BY <1>1, <1>7, <2>1 DEF MemoryInv, MemoryShape
  <2>3. p \subseteq w
    BY <1>4, <1>7, <2>1, PromiseWritten DEF p, w
  <2>4. handler'[h].at = "rest"
    BY <2>2 DEF AtRest
  <2> QED BY <1>3, <1>7, <2>2, <2>3, <2>4, AloneMoves DEF OnDocument, MemoryInv
<1>8. CASE h \notin OnDocument(d)
  <2>1. e # d
    BY <1>1, <1>8 DEF OnDocument
  <2>2. doc'[d] = doc[d] /\ promised'[d] = promised[d]
    BY <1>1, <1>3, <2>1 DEF MemoryInv, MemoryShape
  <2>3. handler[h].file = "tmp" => Renames(handler[h].tool)
    BY <1>2 DEF Call
  <2>4. CASE Renames(handler[h].tool)
    BY <1>1, <1>2, <1>3, <1>8, <2>1, <2>2, <2>3, <2>4, OwnDocument
  <2>5. CASE ~Renames(handler[h].tool)
    <3>1. AtRest.at = "rest"
      BY DEF AtRest
    <3> QED BY <1>1, <1>3, <1>8, <2>2, <2>3, <2>5, <3>1, OwnDocument
  <2> QED BY <2>4, <2>5
<1> QED BY <1>6, <1>7, <1>8

LEMMA RenameUndisturbed ==
  ASSUME MemoryInv, NEW h \in Handlers, RenameFile(h),
         NEW d \in Documents, ~disturbed'[d]
  PROVE  Undisturbed(d)'
<1> DEFINE s == ServerOf[h]
           c == handler[h]
<1>1. /\ c.at = "rename" /\ disturbed' = disturbed
      /\ doc' = [doc EXCEPT !["notepad"] = tmp[s]]
      /\ promised' = [promised EXCEPT !["notepad"] = Promises(h)] /\ headed' = headed
      /\ tmp' = [tmp EXCEPT ![s] = NoFile]
  BY DEF RenameFile
<1>2. Undisturbed(d) /\ c \in Call /\ Renames(c.tool) /\ c.tool \in Tools
  BY <1>1 DEF MemoryInv, MemoryShape, Call
<1>3. h \in OnDocument("notepad") /\ "notepad" \in Documents
  BY <1>1, <1>2, DocumentKnown DEF OnDocument, Documents
<1>4. ASSUME NEW g \in Handlers, g # h
      PROVE  /\ handler'[g].tool = handler[g].tool /\ handler'[g].at = handler[g].at
             /\ handler[g].file = "none" => handler'[g] = handler[g]
             /\ handler[g].file = "doc" /\ g \notin OnDocument("notepad") => handler'[g] = handler[g]
  <2>1. handler'[g] \in {[handler[g] EXCEPT !.file = "doc"], [handler[g] EXCEPT !.file = "none"],
                         handler[g]}
    BY <1>4 DEF RenameFile
  <2>2. handler[g] \in Call
    BY DEF MemoryInv, MemoryShape
  <2>3. /\ handler'[g].tool = handler[g].tool /\ handler'[g].at = handler[g].at
    BY <2>1, <2>2 DEF Call
  <2> QED BY <1>4, <2>3 DEF RenameFile
<1>5. handler'[h].at = "rest"
  BY DEF RenameFile, AtRest
<1>6. CASE d = "notepad"
  <2>1. /\ promised[d] \subseteq doc[d] /\ c.read = doc[d] /\ tmp[s] = Written(h)
        /\ \A x \in c.gone : Waives(c, x)
    BY <1>1, <1>2, <1>3, <1>6 DEF Undisturbed, Holds, InPlace
  <2>2. doc'[d] = tmp[s] /\ promised'[d] = Promises(h)
    BY <1>1, <1>6 DEF MemoryInv, MemoryShape
  <2>3. Promises(h) \subseteq Written(h)
    BY <1>3, <1>6, <2>1, PromiseWritten DEF OnDocument
  <2>4. promised'[d] \subseteq doc'[d]
    BY <2>1, <2>2, <2>3
  <2>5. \A g \in Handlers : g # h /\ g \in OnDocument(d)' => g \in OnDocument(d)
    BY <1>4 DEF OnDocument
  <2> QED BY <1>2, <1>3, <1>5, <1>6, <2>4, <2>5, AloneMoves DEF MemoryInv
<1>7. CASE d # "notepad"
  <2>1. doc'[d] = doc[d] /\ promised'[d] = promised[d] /\ h \notin OnDocument(d)
    BY <1>1, <1>2, <1>7, DocumentKnown DEF MemoryInv, MemoryShape, OnDocument
  <2>2. ASSUME NEW g \in Handlers, g \in OnDocument(d) \/ g \in OnDocument(d)'
        PROVE  handler'[g] = handler[g] /\ handler[g].at # "rename"
    <3>1. g # h
      BY <1>5, <2>1, <2>2 DEF OnDocument
    <3>2. DocumentOf(handler[g].tool) = d /\ handler[g].at # "rest" /\ handler[g] \in Call
      BY <1>4, <2>2, <3>1 DEF OnDocument, MemoryInv, MemoryShape
    <3>3. ~Renames(handler[g].tool)
      BY <1>7, <3>2, DocumentKnown DEF Call
    <3>4. handler[g].file \in {"none", "doc"} /\ handler[g].at # "rename"
      BY <3>2, <3>3 DEF Call
    <3>5. g \notin OnDocument("notepad")
      BY <1>7, <3>2 DEF OnDocument
    <3> QED BY <1>4, <3>1, <3>4, <3>5
  <2>3. OnDocument(d) \subseteq Handlers
    BY DEF OnDocument
  <2> QED BY <1>1, <1>2, <2>1, <2>2, <2>3, ElsewhereUndisturbed DEF MemoryInv
<1> QED BY <1>6, <1>7

LEMMA FailUndisturbed ==
  ASSUME MemoryInv, NEW h \in Handlers, RenameFails(h),
         NEW d \in Documents, ~disturbed'[d]
  PROVE  Undisturbed(d)'
<1>1. /\ handler' = [handler EXCEPT ![h] = AtRest] /\ handler[h].at = "rename"
      /\ UNCHANGED <<doc, tmp, promised, headed, disturbed>> /\ AtRest.at = "rest"
  BY DEF RenameFails, AtRest
<1>2. Undisturbed(d)
  BY <1>1 DEF MemoryInv
<1>3. handler'[h] = AtRest /\ \A g \in Handlers : g # h => handler'[g] = handler[g]
  BY <1>1 DEF MemoryInv, MemoryShape
<1>4. CASE h \in OnDocument(d)
  <2>1. promised'[d] \subseteq doc'[d]
    BY <1>1, <1>2, <1>4 DEF Undisturbed, Holds, InPlace
  <2> QED BY <1>1, <1>2, <1>3, <1>4, <2>1, AloneMoves DEF MemoryInv, OnDocument
<1>5. CASE h \notin OnDocument(d)
  BY <1>1, <1>2, <1>5, OwnDocument
<1> QED BY <1>4, <1>5

LEMMA PruneUndisturbed ==
  ASSUME MemoryInv, NEW h \in Handlers, NothingToPrune(h),
         NEW d \in Documents, ~disturbed'[d]
  PROVE  Undisturbed(d)'
<1>1. /\ handler' = [handler EXCEPT ![h] = AtRest] /\ handler[h].at = "read"
      /\ UNCHANGED <<doc, tmp, promised, headed, disturbed>> /\ AtRest.at = "rest"
  BY DEF NothingToPrune, AtRest
<1>2. Undisturbed(d)
  BY <1>1 DEF MemoryInv
<1>3. handler'[h] = AtRest /\ \A g \in Handlers : g # h => handler'[g] = handler[g]
  BY <1>1 DEF MemoryInv, MemoryShape
<1>4. CASE h \in OnDocument(d)
  <2>1. promised'[d] \subseteq doc'[d]
    BY <1>1, <1>2, <1>4 DEF Undisturbed, Holds, InPlace
  <2> QED BY <1>1, <1>2, <1>3, <1>4, <2>1, AloneMoves DEF MemoryInv, OnDocument
<1>5. CASE h \notin OnDocument(d)
  BY <1>1, <1>2, <1>5, OwnDocument
<1> QED BY <1>4, <1>5

LEMMA DeathUndisturbed ==
  ASSUME MemoryInv, NEW s \in Servers, ServerDies(s),
         NEW d \in Documents, ~disturbed'[d]
  PROVE  Undisturbed(d)'
<1>1. /\ \A h \in Handlers : handler'[h] = IF ServerOf[h] = s THEN AtRest ELSE handler[h]
      /\ UNCHANGED <<doc, tmp, promised, headed>>
  BY DEF ServerDies
<1>2. Undisturbed(d) /\ \A h \in OnDocument(d) : ServerOf[h] = s => ~InPlace(h)
  BY DEF ServerDies, MemoryInv
<1>3. AtRest.at = "rest"
  BY DEF AtRest
<1>4. CASE \E h \in OnDocument(d) : ServerOf[h] = s
  <2>1. PICK h \in OnDocument(d) : ServerOf[h] = s
    BY <1>4
  <2>2. handler'[h].at = "rest" /\ promised'[d] \subseteq doc'[d]
    BY <1>1, <1>2, <1>3, <2>1 DEF Undisturbed, Holds, OnDocument
  <2>3. \A g \in Handlers : g # h /\ g \in OnDocument(d)' => g \in OnDocument(d)
    BY <1>1, <1>3 DEF OnDocument
  <2> QED BY <1>2, <2>2, <2>3, AloneMoves DEF MemoryInv
<1>5. CASE ~\E h \in OnDocument(d) : ServerOf[h] = s
  BY <1>1, <1>2, <1>3, <1>5, ElsewhereUndisturbed DEF MemoryInv, OnDocument
<1> QED BY <1>4, <1>5

LEMMA MemoryKept == MemoryInv /\ [MemoryNext]_memoryVars => MemoryInv'
<1> SUFFICES ASSUME MemoryInv, [MemoryNext]_memoryVars,
                    NEW d \in Documents, ~disturbed'[d]
             PROVE  Undisturbed(d)'
  BY MemoryShapeKept DEF MemoryInv
<1>1. CASE UNCHANGED memoryVars
  <2>1. Undisturbed(d)
    BY <1>1 DEF memoryVars, MemoryInv
  <2> QED
    BY <1>1, <2>1 DEF memoryVars, Undisturbed, OnDocument, Holds, InPlace, Written, Brought, Waives
<1> QED
  BY <1>1, BeginUndisturbed, ReadUndisturbed, OpenUndisturbed, FillUndisturbed,
     RenameUndisturbed, FailUndisturbed, PruneUndisturbed, DeathUndisturbed DEF MemoryNext

(* What a tool answered to have stored is in the file whenever no call on  *)
(* it is under way and nothing disturbed it, for any number of calls and   *)
(* servers, and wherever the servers die - but for what it was pruned of,  *)
(* for what a newer note replaced, and, once a note has a heading of its   *)
(* own, for the piece a priority note took for its section.                *)
THEOREM NotesStay == MemorySpec => []NotesKept
<1>1. MemoryInit => MemoryInv
  <2> SUFFICES ASSUME MemoryInit PROVE MemoryInv
    OBVIOUS
  <2>1. MemoryShape
    <3>1. NoFile \in (SUBSET Entry) \cup {NoFile}
      OBVIOUS
    <3>2. doc \in [Documents -> SUBSET Entry] /\ promised \in [Documents -> SUBSET Entry]
      BY DEF MemoryInit
    <3> QED BY <3>1, <3>2, CallSteps DEF MemoryInit, MemoryShape
  <2>2. \A d \in Documents : OnDocument(d) = {} /\ promised[d] \subseteq doc[d]
    BY DEF MemoryInit, OnDocument, AtRest
  <2> QED BY <2>1, <2>2 DEF MemoryInv, Undisturbed
<1>2. MemoryInv => NotesKept
  BY DEF MemoryInv, NotesKept, Undisturbed
<1> QED BY <1>1, <1>2, MemoryKept, PTL DEF MemorySpec

-----------------------------------------------------------------------------
(* The rotation of accounts (AuthSlots).  Arithmetic first: counting on    *)
(* from a place goes round the whole order.                                *)
LEMMA Wrap ==
  ASSUME NEW n \in Nat \ {0}, NEW a \in 0..(n-1)
  PROVE  (a + n) % n = a
<1> DEFINE q == (a + n) \div n
           r == (a + n) % n
<1>1. q \in Int /\ r \in 0..(n-1) /\ a + n = n * q + r
  OBVIOUS
<1> HIDE DEF q, r
<1>2. CASE q <= 0
  <2>1. n * q <= 0
    BY <1>1, <1>2
  <2> QED BY <1>1, <2>1
<1>3. CASE q = 1
  BY <1>1, <1>3 DEF r
<1>4. CASE q >= 2
  <2>1. n * q >= n * 2
    BY <1>1, <1>4
  <2> QED BY <1>1, <2>1
<1> QED BY <1>1, <1>2, <1>3, <1>4

LEMMA Around ==
  ASSUME NEW n \in Nat \ {0}, NEW k \in 0..n, NEW i \in 1..n
  PROVE  \E j \in 1..n : ((k + j - 1) % n) + 1 = i
<1>1. CASE i > k
  <2> DEFINE j == i - k
  <2>1. j \in 1..n /\ k + j - 1 = i - 1
    BY <1>1
  <2>2. (i - 1) % n = i - 1
    OBVIOUS
  <2> HIDE DEF j
  <2>3. ((k + j - 1) % n) + 1 = i
    BY <2>1, <2>2
  <2> QED BY <2>1, <2>3
<1>2. CASE i <= k
  <2> DEFINE j == i - k + n
  <2>1. j \in 1..n /\ k + j - 1 = i - 1 + n
    BY <1>2
  <2>2. (i - 1 + n) % n = i - 1
    <3>1. i - 1 \in 0..(n - 1)
      OBVIOUS
    <3> QED BY <3>1, Wrap
  <2> HIDE DEF j
  <2>3. ((k + j - 1) % n) + 1 = i
    BY <2>1, <2>2
  <2> QED BY <2>1, <2>3
<1> QED BY <1>1, <1>2

(* Every set of names can be sorted, so SortedSlots is that sequence.      *)
Sorts(q, S) ==
  /\ q \in [1..Cardinality(S) -> S]
  /\ \A i, j \in 1..Cardinality(S) : i < j => q[i] < q[j]

LEMMA SortExists ==
  ASSUME NEW S \in SUBSET Nat, IsFiniteSet(S)
  PROVE  \E q : Sorts(q, S)
<1> DEFINE Sortable == {n \in Nat : \A T \in SUBSET Nat :
                          IsFiniteSet(T) /\ Cardinality(T) = n => \E q : Sorts(q, T)}
<1>1. 0 \in Sortable
  <2> SUFFICES ASSUME NEW T \in SUBSET Nat, IsFiniteSet(T), Cardinality(T) = 0
               PROVE  \E q : Sorts(q, T)
    OBVIOUS
  <2>1. [i \in 1..0 |-> 0] \in [1..0 -> T]
    OBVIOUS
  <2>2. Sorts([i \in 1..0 |-> 0], T)
    BY <2>1 DEF Sorts
  <2> QED BY <2>2
<1>2. ASSUME NEW n \in Nat, n \in Sortable PROVE n + 1 \in Sortable
  <2> SUFFICES ASSUME NEW T \in SUBSET Nat, IsFiniteSet(T), Cardinality(T) = n + 1
               PROVE  \E q : Sorts(q, T)
    OBVIOUS
  <2>1. T # {}
    BY FS_EmptySet
  <2>2. PICK m \in T : \A y \in T : m <= y
    BY <2>1, LeastNumber
  <2> DEFINE U == T \ {m}
  <2>3. U \in SUBSET Nat /\ IsFiniteSet(U) /\ Cardinality(U) = n
    <3>1. IsFiniteSet(U) /\ Cardinality(U) = Cardinality(T) - 1
      BY <2>2, FS_RemoveElement
    <3> QED BY <3>1
  <2>4. PICK p : Sorts(p, U)
    BY <1>2, <2>3
  <2> DEFINE q == [i \in 1..(n + 1) |-> IF i = 1 THEN m ELSE p[i - 1]]
  <2>5. p \in [1..n -> U] /\ \A i, j \in 1..n : i < j => p[i] < p[j]
    BY <2>3, <2>4 DEF Sorts
  <2>6. \A i \in 1..n : p[i] \in T /\ p[i] \in Nat /\ m < p[i]
    <3>1. \A u \in U : u \in T /\ u \in Nat /\ m < u
      BY <2>2
    <3> HIDE DEF U
    <3> QED BY <2>5, <3>1
  <2> HIDE DEF U
  <2>7. q \in [1..(n + 1) -> T]
    BY <2>2, <2>6
  <2>8. ASSUME NEW i \in 1..(n + 1), NEW j \in 1..(n + 1), i < j PROVE q[i] < q[j]
    <3>1. j - 1 \in 1..n /\ q[j] = p[j - 1]
      BY <2>8
    <3>2. CASE i = 1
      BY <2>6, <3>1, <3>2
    <3>3. CASE i # 1
      <4>1. i - 1 \in 1..n /\ q[i] = p[i - 1] /\ i - 1 < j - 1
        BY <2>8, <3>3
      <4> QED BY <2>5, <3>1, <4>1
    <3> QED BY <3>2, <3>3
  <2> HIDE DEF q
  <2> QED BY <2>7, <2>8 DEF Sorts
<1>3. Nat \subseteq Sortable
  <2> HIDE DEF Sortable
  <2> QED BY <1>1, <1>2, NumberInduction
<1>4. Cardinality(S) \in Nat
  BY FS_CardinalityType
<1> QED BY <1>3, <1>4

LEMMA SortedIs ==
  ASSUME NEW S \in SUBSET Nat, IsFiniteSet(S)
  PROVE  /\ SortedSlots(S) \in Seq(S)
         /\ DOMAIN SortedSlots(S) = 1..Len(SortedSlots(S))
         /\ S # {} => Len(SortedSlots(S)) > 0
<1> DEFINE q == SortedSlots(S)
<1>1. \E p \in [1..Cardinality(S) -> S] : \A i, j \in 1..Cardinality(S) : i < j => p[i] < p[j]
  BY SortExists DEF Sorts
<1>2. q \in [1..Cardinality(S) -> S]
  BY <1>1 DEF SortedSlots
<1>3. Cardinality(S) \in Nat /\ (S # {} => Cardinality(S) # 0)
  BY FS_CardinalityType, FS_EmptySet
<1> HIDE DEF q
<1>4. q \in Seq(S) /\ Len(q) = Cardinality(S)
  BY <1>2, <1>3
<1> QED BY <1>2, <1>3, <1>4 DEF q

LEMMA ListedIs ==
  ASSUME NEW first \in Seq(Slots), NEW S \in SUBSET Slots
  PROVE  /\ Listed(first, S) \in Seq(S)
         /\ S \cap ToSet(first) # {} => Len(Listed(first, S)) > 0
<1> DEFINE I == {i \in DOMAIN first : first[i] \in S}
           kept == SortedSlots(I)
           q == Listed(first, S)
<1>1. I \in SUBSET Nat /\ IsFiniteSet(I)
  <2>1. IsFiniteSet(1..Len(first)) /\ I \in SUBSET (1..Len(first))
    BY FS_Interval
  <2> QED BY <2>1, FS_Subset
<1>2. kept \in Seq(I) /\ DOMAIN kept = 1..Len(kept) /\ (I # {} => Len(kept) > 0)
  BY <1>1, SortedIs
<1>3. \A i \in I : first[i] \in S
  OBVIOUS
<1>4. S \cap ToSet(first) # {} => I # {}
  BY DEF ToSet
<1>5. q = [k \in DOMAIN kept |-> first[kept[k]]]
  BY DEF Listed
<1> HIDE DEF I, kept, q
<1>6. q \in [1..Len(kept) -> S] /\ Len(kept) \in Nat
  BY <1>2, <1>3, <1>5
<1>7. q \in Seq(S) /\ Len(q) = Len(kept)
  BY <1>6
<1> QED BY <1>2, <1>4, <1>7 DEF q

SlotNames == IsFiniteSet(Slots) /\ Slots \subseteq Nat \ {0}

(* The plan of a rotation names slots, and one at least when there are any. *)
LEMMA PlanNamesSlots ==
  ASSUME SlotNames, NEW S \in SUBSET Slots, S # {}, NEW first \in Seq(Slots),
         NEW current \in Slots \cup {0}, NEW mode
  PROVE  /\ RotationPlan(mode, S, first, current) \in Seq(Slots)
         /\ Len(RotationPlan(mode, S, first, current)) > 0
<1>1. ASSUME NEW T \in SUBSET Slots
      PROVE  /\ SortedSlots(T) \in Seq(Slots)
             /\ T # {} => Len(SortedSlots(T)) > 0
  <2>1. IsFiniteSet(T) /\ T \in SUBSET Nat
    BY FS_Subset DEF SlotNames
  <2>2. SortedSlots(T) \in Seq(T) /\ (T # {} => Len(SortedSlots(T)) > 0)
    BY <2>1, SortedIs
  <2> QED BY <2>2
<1>2. ASSUME NEW p \in Seq(Slots), NEW q \in Seq(Slots), Len(p) > 0 \/ Len(q) > 0
      PROVE  p \o q \in Seq(Slots) /\ Len(p \o q) > 0
  BY <1>2
<1>3. CASE mode = "manual"
  <2>1. CASE current # 0
    <3>1. RotationPlan(mode, S, first, current) = <<current>>
      BY <1>3, <2>1 DEF RotationPlan
    <3> QED BY <2>1, <3>1
  <2>2. CASE current = 0
    <3> DEFINE q == SortedSlots(S)
    <3>1. q \in Seq(Slots) /\ Len(q) > 0
      BY <1>1
    <3>2. RotationPlan(mode, S, first, current) = SubSeq(q, 1, 1)
      BY <1>3, <2>2 DEF RotationPlan
    <3> HIDE DEF q
    <3> QED BY <3>1, <3>2
  <2> QED BY <2>1, <2>2
<1>4. CASE mode = "priority"
  <2> DEFINE p == Listed(first, S)
             q == SortedSlots(S \ ToSet(first))
  <2>1. p \in Seq(Slots) /\ q \in Seq(Slots) /\ (Len(p) > 0 \/ Len(q) > 0)
    <3>1. p \in Seq(S) /\ (S \cap ToSet(first) # {} => Len(p) > 0)
      BY ListedIs
    <3>2. q \in Seq(Slots) /\ (S \ ToSet(first) # {} => Len(q) > 0)
      BY <1>1
    <3> QED BY <3>1, <3>2
  <2>2. RotationPlan(mode, S, first, current) = p \o q
    BY <1>4 DEF RotationPlan
  <2> HIDE DEF p, q
  <2> QED BY <1>2, <2>1, <2>2
<1>5. CASE mode \notin {"manual", "priority"} /\ current \in S
  <2> DEFINE T == {s \in S : s >= current}
             U == {s \in S : s < current}
  <2>1. current \in T /\ T \in SUBSET Slots /\ U \in SUBSET Slots
    <3>1. current \in S /\ current \in Nat
      BY <1>5 DEF SlotNames
    <3>2. T \subseteq Slots /\ U \subseteq Slots
      OBVIOUS
    <3>3. current >= current
      BY <3>1
    <3> QED BY <3>1, <3>2, <3>3
  <2>2. RotationPlan(mode, S, first, current) = SortedSlots(T) \o SortedSlots(U)
    BY <1>5 DEF RotationPlan
  <2> HIDE DEF T, U
  <2>3. SortedSlots(T) \in Seq(Slots) /\ SortedSlots(U) \in Seq(Slots) /\ Len(SortedSlots(T)) > 0
    BY <1>1, <2>1
  <2> QED BY <1>2, <2>2, <2>3
<1>6. CASE mode \notin {"manual", "priority"} /\ current \notin S
  <2>1. RotationPlan(mode, S, first, current) = SortedSlots(S)
    BY <1>6 DEF RotationPlan
  <2> QED BY <1>1, <2>1
<1> QED BY <1>3, <1>4, <1>5, <1>6

(* The slot after the current one is one of the plan that was not tried;   *)
(* there is none only when all were.                                       *)
LEMMA NextIsFree ==
  ASSUME NEW order \in Seq(Slots), Len(order) > 0, NEW current, NEW tried
  PROVE  /\ NextSlots(order, current, tried) \subseteq ToSet(order) \ tried
         /\ NextSlots(order, current, tried) = {} => ToSet(order) \subseteq tried
<1> DEFINE n == Len(order)
           k == SelectInSeq(order, LAMBDA s : s = current)
           from(j) == order[((k + j - 1) % n) + 1]
           free == {j \in 1..n : from(j) \notin tried}
           N == NextSlots(order, current, tried)
<1>1. n \in Nat \ {0} /\ DOMAIN order = 1..n
  OBVIOUS
<1>2. k \in 0..n
  <2> DEFINE I == {i \in 1..Len(order) : order[i] = current}
  <2>1. k = IF I # {} THEN Min(I) ELSE 0
    BY DEF SelectInSeq
  <2>2. I # {} => Min(I) \in I
    <3>1. I \subseteq Nat
      OBVIOUS
    <3> HIDE DEF I
    <3> SUFFICES ASSUME I # {} PROVE Min(I) \in I
      OBVIOUS
    <3>2. \E x \in I : \A y \in I : x <= y
      BY <3>1, LeastNumber
    <3> QED BY <3>2 DEF Min
  <2> QED BY <2>1, <2>2
<1>3. N = {from(j) : j \in {j \in free : \A i \in free : j <= i}}
  BY DEF NextSlots
<1> HIDE DEF k, n, N
<1>4. \A j \in 1..n : from(j) \in ToSet(order)
  <2> TAKE j \in 1..n
  <2>1. ((k + j - 1) % n) + 1 \in 1..n
    BY <1>1, <1>2
  <2> QED BY <1>1, <2>1 DEF ToSet
<1>5. N \subseteq ToSet(order) \ tried
  BY <1>3, <1>4
<1>6. ASSUME N = {} PROVE ToSet(order) \subseteq tried
  <2>1. free = {}
    <3>1. free \subseteq Nat
      BY <1>1
    <3> HIDE DEF free
    <3> SUFFICES ASSUME free # {} PROVE FALSE
      OBVIOUS
    <3>2. PICK j \in free : \A i \in free : j <= i
      BY <3>1, LeastNumber
    <3> QED BY <1>3, <1>6, <3>2
  <2> SUFFICES ASSUME NEW i \in 1..n PROVE order[i] \in tried
    BY <1>1 DEF ToSet
  <2>2. PICK j \in 1..n : ((k + j - 1) % n) + 1 = i
    BY <1>1, <1>2, Around
  <2> QED BY <2>1, <2>2
<1> QED BY <1>5, <1>6 DEF N

(* A launch has a plan, its slot is one of the plan it has not tried, and  *)
(* manual rotation is at the first.                                        *)
Whys == {"none", "no slots", "launch", "use", "add", "threw", "interrupted", "exit 0", "exit 1",
         "manual", "all exhausted", "nothing to resume"}
Underway == {"plan", "swap", "store", "read", "save", "run", "blame", "mark"}
JobRecord ==
  [pc : Underway \cup {"idle", "done"}, why : Whys, mode : Rotations \cup {"none"},
   slot : Slots \cup {0}, order : Seq(Slots), tried : SUBSET Slots, seen : Metadata,
   alone : BOOLEAN]
Orderly(j) ==
  /\ j.why = "launch" =>
       /\ j.pc \in Underway \ {"store"} /\ Len(j.order) > 0 /\ j.tried \subseteq ToSet(j.order)
       /\ j.pc # "plan" => j.slot \in ToSet(j.order) \ j.tried
       /\ j.mode = "manual" => j.tried = {} /\ (j.pc # "plan" => j.slot = Head(j.order))
  /\ j.pc \in {"plan", "run", "blame", "mark"} => j.why = "launch"
  /\ j.pc = "store" => j.why = "add"
  /\ j.pc \in Underway => j.why \in {"launch", "use", "add"} /\ (j.pc # "plan" => j.slot \in Slots)
  /\ j.pc = "plan" \/ (j.pc \in Underway /\ j.why # "launch") => j.tried = {}
  /\ j.mode = "manual" => j.tried \subseteq {Head(j.order)}
  /\ j.why = "all exhausted" => j.tried = ToSet(j.order)
Job == {j \in JobRecord : Orderly(j)}

AuthShape ==
  /\ file \in [Slots -> Slots \cup {0, Fresh}] /\ live \in Slots \cup {0, Fresh}
  /\ meta \in Metadata /\ job \in [Terminals -> Job]

(* A command that runs alone knows what the files say.                     *)
AloneInv == \A t \in Terminals :
  job[t].alone /\ job[t].pc \in Underway =>
    /\ \A u \in Terminals \ {t} : job[u].pc = "idle"
    /\ job[t].pc \in {"read", "save", "run", "blame", "mark"} /\ job[t].why # "add" =>
         live = file[job[t].slot]
    /\ job[t].pc \in {"run", "blame", "mark"} => meta.current = job[t].slot

LEMMA NoJobShape ==
  /\ NoJob.pc = "idle" /\ NoJob.why = "none" /\ NoJob.mode = "none" /\ NoJob.slot = 0
  /\ NoJob.order = <<>> /\ NoJob.tried = {} /\ NoJob.seen = NoMetadata /\ NoJob.alone = TRUE
  /\ NoMetadata \in Metadata
  /\ NoJob \in Job
<1>1. NoMetadata \in Metadata
  BY DEF NoMetadata, Metadata
<1>2. <<>> \in Seq(Slots)
  OBVIOUS
<1> QED BY <1>1, <1>2 DEF NoJob, Job, JobRecord, Orderly, Whys, Underway, Rotations

LEMMA JobEnds ==
  ASSUME NEW why \in Whys \ {"launch", "all exhausted"}
  PROVE  [NoJob EXCEPT !.pc = "done", !.why = why] \in Job
BY NoJobShape DEF NoJob, Job, JobRecord, Orderly, Whys, Underway, Rotations

LEMMA JobAlone ==
  ASSUME NEW j \in Job, NEW a \in BOOLEAN
  PROVE  [j EXCEPT !.alone = a] \in Job
BY DEF Job, JobRecord, Orderly

LEMMA JobLaunched ==
  ASSUME NEW mode \in Rotations, NEW order \in Seq(Slots), Len(order) > 0
  PROVE  [NoJob EXCEPT !.pc = "plan", !.why = "launch", !.mode = mode, !.order = order] \in Job
BY NoJobShape DEF NoJob, Job, JobRecord, Orderly, Whys, Underway, Rotations

LEMMA JobNamed ==
  ASSUME NEW s \in Slots
  PROVE  /\ [NoJob EXCEPT !.pc = "swap", !.why = "use", !.slot = s] \in Job
         /\ [NoJob EXCEPT !.pc = "store", !.why = "add", !.slot = s] \in Job
BY NoJobShape DEF NoJob, Job, JobRecord, Orderly, Whys, Underway, Rotations

LEMMA JobGoesOn ==
  ASSUME NEW j \in Job, NEW seen \in Metadata
  PROVE  /\ j.pc \in {"store", "swap"} => [j EXCEPT !.pc = "read"] \in Job
         /\ j.pc = "run" => [j EXCEPT !.pc = "blame"] \in Job
         /\ j.pc = "read" => [j EXCEPT !.seen = seen, !.pc = "save"] \in Job
         /\ j.pc = "blame" => [j EXCEPT !.seen = seen, !.pc = "mark"] \in Job
         /\ j.pc = "save" /\ j.why = "launch" => [j EXCEPT !.seen = seen, !.pc = "run"] \in Job
BY DEF Job, JobRecord, Orderly, Underway, Whys

LEMMA JobPlanned ==
  ASSUME NEW j \in Job, j.pc = "plan", NEW order \in Seq(Slots), Len(order) > 0
  PROVE  [j EXCEPT !.order = order, !.slot = order[1], !.pc = "swap"] \in Job
<1>1. order[1] \in Slots /\ order[1] \in ToSet(order) /\ Head(order) = order[1]
  BY DEF ToSet
<1>2. j.tried = {}
  BY DEF Job, JobRecord, Orderly
<1> QED BY <1>1, <1>2 DEF Job, JobRecord, Orderly, Underway, Whys

LEMMA NamesIn ==
  ASSUME NEW q \in Seq(Slots)
  PROVE  ToSet(q) \subseteq Slots
<1>1. DOMAIN q = 1..Len(q) /\ \A i \in 1..Len(q) : q[i] \in Slots
  OBVIOUS
<1> QED BY <1>1 DEF ToSet

LEMMA JobMarks ==
  ASSUME NEW j \in Job, j.pc = "mark", NEW why, NEW slot, NEW at,
         NEW tried, tried = j.tried \cup {j.slot},
         \/ why \in {"manual", "nothing to resume"} /\ slot = j.slot /\ at = "done"
         \/ why = "all exhausted" /\ slot = j.slot /\ ToSet(j.order) \subseteq tried /\ at = "done"
         \/ why = "launch" /\ j.mode # "manual" /\ slot \in ToSet(j.order) \ tried /\ at = "swap"
  PROVE  [j EXCEPT !.tried = tried, !.why = why, !.seen = NoMetadata, !.slot = slot, !.pc = at]
           \in Job
<1>1. /\ j.why = "launch" /\ j.slot \in ToSet(j.order) /\ j.slot \in Slots
      /\ j.tried \subseteq ToSet(j.order) /\ Len(j.order) > 0 /\ j.tried \in SUBSET Slots
      /\ j.order \in Seq(Slots) /\ (j.mode = "manual" => j.tried = {} /\ j.slot = Head(j.order))
  BY DEF Job, JobRecord, Orderly, Underway
<1>2. ToSet(j.order) \subseteq Slots
  BY <1>1, NamesIn
<1>3. tried \in SUBSET Slots /\ tried \subseteq ToSet(j.order) /\ slot \in Slots
      /\ (j.mode = "manual" => tried = {Head(j.order)})
  BY <1>1, <1>2
<1>4. why \in {"manual", "nothing to resume"} \/ why \in {"all exhausted", "launch"}
  OBVIOUS
<1>5. NoMetadata \in Metadata
  BY NoJobShape
<1> DEFINE new == [j EXCEPT !.tried = tried, !.why = why, !.seen = NoMetadata, !.slot = slot, !.pc = at]
<1>6. /\ new.pc = at /\ new.why = why /\ new.mode = j.mode /\ new.slot = slot
      /\ new.order = j.order /\ new.tried = tried
      /\ new \in JobRecord
  BY <1>3, <1>4, <1>5 DEF Job, JobRecord, Whys, Underway
<1> HIDE DEF new
<1>7. ASSUME why \in {"manual", "nothing to resume"} PROVE Orderly(new)
  BY <1>1, <1>3, <1>6, <1>7 DEF Orderly, Underway
<1>8. ASSUME why = "all exhausted" PROVE Orderly(new)
  BY <1>1, <1>3, <1>6, <1>8 DEF Orderly, Underway
<1>9. ASSUME why = "launch" PROVE Orderly(new)
  BY <1>1, <1>3, <1>6, <1>9 DEF Orderly, Underway
<1>10. new \in Job
  BY <1>4, <1>6, <1>7, <1>8, <1>9 DEF Job
<1> QED BY <1>10 DEF new

(* A command of another terminal begins, or this one goes on.              *)
AuthMoves(t) ==
  \/ \A u \in Terminals \ {t} : job'[u] = job[u]
  \/ /\ \A u \in Terminals \ {t} : job'[u] = [job[u] EXCEPT !.alone = FALSE]
     /\ job[t].pc = "idle"
     /\ job'[t].alone => \A u \in Terminals \ {t} : job[u].pc = "idle"
     /\ job'[t].pc \in {"done", "plan", "swap", "store"}

LEMMA StartShape ==
  ASSUME AuthShape, NEW t \in Terminals, job[t].pc = "idle", NEW j \in Job, Start(t, j),
         j.pc \in {"done", "plan", "swap", "store"}
  PROVE  job' \in [Terminals -> Job] /\ AuthMoves(t)
<1> DEFINE alone == \A u \in Terminals \ {t} : job[u].pc = "idle"
<1>1. job' = [u \in Terminals |->
        IF u = t THEN [j EXCEPT !.alone = alone] ELSE [job[u] EXCEPT !.alone = FALSE]]
  BY DEF Start
<1>2. alone \in BOOLEAN
  OBVIOUS
<1>3. /\ job'[t] = [j EXCEPT !.alone = alone]
      /\ \A u \in Terminals \ {t} : job'[u] = [job[u] EXCEPT !.alone = FALSE]
  BY <1>1
<1>4. job' = [u \in Terminals |-> job'[u]]
  BY <1>1
<1>5. [j EXCEPT !.alone = alone] \in Job
  <2> HIDE DEF alone
  <2> QED BY <1>2, JobAlone
<1>6. \A u \in Terminals : job'[u] \in Job
  <2> TAKE u \in Terminals
  <2>1. CASE u = t
    BY <1>3, <1>5, <2>1
  <2>2. CASE u # t
    <3>1. job[u] \in Job
      BY DEF AuthShape
    <3>2. [job[u] EXCEPT !.alone = FALSE] \in Job
      BY <3>1, JobAlone
    <3> QED BY <1>3, <2>2, <3>2
  <2> QED BY <2>1, <2>2
<1>7. job'[t].alone = alone /\ job'[t].pc = j.pc
  <2> HIDE DEF alone
  <2> QED BY <1>3 DEF Job, JobRecord
<1> HIDE DEF alone
<1>8. AuthMoves(t)
  BY <1>3, <1>7 DEF AuthMoves, alone
<1> QED BY <1>4, <1>6, <1>8

LEMMA StepShape ==
  ASSUME AuthShape, NEW t \in Terminals, NEW j \in Job, job' = [job EXCEPT ![t] = j]
  PROVE  job' \in [Terminals -> Job] /\ job'[t] = j /\ \A u \in Terminals \ {t} : job'[u] = job[u]
BY DEF AuthShape

AuthIInv == AuthShape /\ AloneInv

LEMMA AloneStarts ==
  ASSUME AuthIInv, NEW t \in Terminals, NEW j \in Job, Start(t, j), job[t].pc = "idle",
         j.pc \in {"done", "plan", "swap", "store"},
         file' = file, meta' = meta, live' \in Slots \cup {0, Fresh}
  PROVE  AuthIInv'
<1>1. job' \in [Terminals -> Job] /\ AuthMoves(t)
  BY StartShape DEF AuthIInv
<1>2. AuthShape'
  BY <1>1 DEF AuthIInv, AuthShape
<1>3. \A u \in Terminals : job'[u] \in Job
  BY <1>1
<1>4. ASSUME NEW u \in Terminals, job'[u].alone, job'[u].pc \in Underway
      PROVE  u = t /\ (\A w \in Terminals \ {u} : job'[w].pc = "idle")
             /\ job'[u].pc \in {"plan", "swap", "store"}
  <2>1. \A w \in Terminals \ {t} : job'[w].alone = FALSE /\ job'[w].pc = job[w].pc
    <3>1. \A w \in Terminals \ {t} : job'[w] = [job[w] EXCEPT !.alone = FALSE]
      <4> DEFINE a == \A v \in Terminals \ {t} : job[v].pc = "idle"
      <4> HIDE DEF a
      <4>1. job' = [v \in Terminals |->
              IF v = t THEN [j EXCEPT !.alone = a] ELSE [job[v] EXCEPT !.alone = FALSE]]
        BY DEF Start, a
      <4> QED BY <4>1
    <3>2. \A w \in Terminals : job[w] \in JobRecord
      BY DEF AuthIInv, AuthShape, Job
    <3>3. \A i \in JobRecord : LET k == [i EXCEPT !.alone = FALSE]
                              IN  k.alone = FALSE /\ k.pc = i.pc
      BY DEF JobRecord
    <3> QED BY <3>1, <3>2, <3>3
  <2>2. u = t
    BY <1>4, <2>1
  <2>3. job'[t].pc = j.pc /\ (job'[t].alone => \A w \in Terminals \ {t} : job[w].pc = "idle")
    <3> DEFINE a == \A v \in Terminals \ {t} : job[v].pc = "idle"
    <3>1. job'[t] = [j EXCEPT !.alone = a]
      BY DEF Start
    <3> HIDE DEF a
    <3>2. job'[t].pc = j.pc /\ job'[t].alone = a
      BY <3>1 DEF Job, JobRecord
    <3> QED BY <3>2 DEF a
  <2> QED BY <1>4, <2>1, <2>2, <2>3 DEF Underway
<1>5. AloneInv'
  BY <1>4 DEF AloneInv
<1> QED BY <1>2, <1>5 DEF AuthIInv

(* While a command runs alone nobody else is under way.                    *)
LEMMA AloneGoes ==
  ASSUME AuthIInv, NEW t \in Terminals, job[t].pc \in Underway,
         NEW j \in Job, job' = [job EXCEPT ![t] = j],
         file' \in [Slots -> Slots \cup {0, Fresh}], live' \in Slots \cup {0, Fresh},
         meta' \in Metadata,
         job[t].alone /\ j.pc \in Underway =>
           /\ j.pc \in {"read", "save", "run", "blame", "mark"} /\ j.why # "add" =>
                live' = file'[j.slot]
           /\ j.pc \in {"run", "blame", "mark"} => meta'.current = j.slot,
         j.pc = "done" \/ j.alone = job[t].alone
  PROVE  AuthIInv'
<1>1. job' \in [Terminals -> Job] /\ job'[t] = j /\ \A u \in Terminals \ {t} : job'[u] = job[u]
  BY DEF AuthIInv, AuthShape
<1>2. AuthShape'
  BY <1>1 DEF AuthShape
<1>3. ASSUME NEW u \in Terminals \ {t}, job'[u].alone, job'[u].pc \in Underway PROVE FALSE
  <2>1. job[t].pc = "idle"
    BY <1>1, <1>3 DEF AuthIInv, AloneInv
  <2> QED BY <2>1 DEF Underway
<1>4. ASSUME job'[t].alone, job'[t].pc \in Underway
      PROVE  job[t].alone /\ \A u \in Terminals \ {t} : job'[u].pc = "idle"
  <2>1. job[t].alone
    BY <1>1, <1>4 DEF Underway
  <2> QED BY <1>1, <2>1 DEF AuthIInv, AloneInv
<1>5. AloneInv'
  BY <1>1, <1>3, <1>4 DEF AloneInv
<1> QED BY <1>2, <1>5 DEF AuthIInv

LEMMA BeginsKept ==
  ASSUME SlotNames, AuthIInv, NEW t \in Terminals,
         \/ \E mode \in Rotations : Launch(t, mode)
         \/ \E s \in Slots : Use(t, s) \/ Login(t, s)
  PROVE  AuthIInv'
<1>1. ASSUME NEW mode \in Rotations, Launch(t, mode) PROVE AuthIInv'
  <2>1. ListSlots \in SUBSET Slots /\ IsFiniteSet(ListSlots) /\ ListSlots \in SUBSET Nat
    <3>1. ListSlots \in SUBSET Slots
      BY DEF ListSlots, AuthIInv, AuthShape, Metadata
    <3> QED BY <3>1, FS_Subset DEF SlotNames
  <2> DEFINE order == SortedSlots(ListSlots)
             j == IF ListSlots = {}
                  THEN [NoJob EXCEPT !.pc = "done", !.why = "no slots"]
                  ELSE [NoJob EXCEPT !.pc = "plan", !.why = "launch", !.mode = mode,
                                    !.order = order]
  <2>2. order \in Seq(Slots) /\ (ListSlots # {} => Len(order) > 0)
    <3>1. SortedSlots(ListSlots) \in Seq(ListSlots)
          /\ (ListSlots # {} => Len(SortedSlots(ListSlots)) > 0)
      BY <2>1, SortedIs
    <3>2. \A L \in SUBSET Slots : \A q \in Seq(L) : q \in Seq(Slots)
      OBVIOUS
    <3> QED BY <2>1, <3>1, <3>2
  <2>3. Start(t, j) /\ job[t].pc = "idle" /\ UNCHANGED <<file, meta, live>>
    BY <1>1 DEF Launch
  <2> HIDE DEF order
  <2>4. j \in Job
    BY <2>2, JobLaunched, JobEnds DEF Whys
  <2>5. j.pc \in {"done", "plan", "swap", "store"}
    BY DEF NoJob
  <2> HIDE DEF j
  <2> QED BY <2>3, <2>4, <2>5, AloneStarts DEF AuthIInv, AuthShape
<1>2. ASSUME NEW s \in Slots, Use(t, s) PROVE AuthIInv'
  <2> DEFINE j == [NoJob EXCEPT !.pc = "swap", !.why = "use", !.slot = s]
  <2>1. j \in Job
    BY JobNamed
  <2>2. j.pc = "swap"
    BY DEF NoJob
  <2>3. Start(t, j) /\ job[t].pc = "idle" /\ UNCHANGED <<file, meta, live>>
    BY <1>2 DEF Use
  <2> HIDE DEF j
  <2> QED BY <2>1, <2>2, <2>3, AloneStarts DEF AuthIInv, AuthShape
<1>3. ASSUME NEW s \in Slots, Login(t, s) PROVE AuthIInv'
  <2> DEFINE j == [NoJob EXCEPT !.pc = "store", !.why = "add", !.slot = s]
  <2>1. j \in Job
    BY JobNamed
  <2>2. j.pc = "store"
    BY DEF NoJob
  <2>3. Start(t, j) /\ job[t].pc = "idle" /\ UNCHANGED <<file, meta>> /\ live' = Fresh
    BY <1>3 DEF Login
  <2> HIDE DEF j
  <2> QED BY <2>1, <2>2, <2>3, AloneStarts
<1> QED BY <1>1, <1>2, <1>3

LEMMA EndsKept ==
  ASSUME AuthIInv, NEW t \in Terminals, job[t].pc \in Underway,
         NEW why \in Whys \ {"launch", "all exhausted"}, End(t, why),
         file' = file, live' = live, meta' \in Metadata
  PROVE  AuthIInv'
<1> DEFINE j == [NoJob EXCEPT !.pc = "done", !.why = why]
<1>1. j \in Job /\ job' = [job EXCEPT ![t] = j]
  BY JobEnds DEF End
<1>2. j.pc = "done"
  BY DEF NoJob
<1> HIDE DEF j
<1> QED BY <1>1, <1>2, AloneGoes DEF AuthIInv, AuthShape, Underway

(* The plan names slots, because there were some when the launch began.    *)
LEMMA PlanKept ==
  ASSUME SlotNames, AuthIInv, NEW t \in Terminals,
         NEW first \in {<<>>} \cup {<<s, s>> : s \in Slots}, Plan(t, first)
  PROVE  AuthIInv'
<1> DEFINE S == ToSet(job[t].order)
           order == RotationPlan(job[t].mode, S, first, meta.current)
           j == [job[t] EXCEPT !.order = order, !.slot = order[1], !.pc = "swap"]
<1>1. job[t] \in Job /\ job[t].pc = "plan" /\ UNCHANGED <<file, meta, live>>
  BY DEF Plan, AuthIInv, AuthShape
<1>2. job[t].order \in Seq(Slots) /\ Len(job[t].order) > 0
  BY <1>1 DEF Job, JobRecord, Orderly
<1>3. S \in SUBSET Slots /\ S # {}
  <2>1. job[t].order[1] \in S
    BY <1>2 DEF ToSet
  <2> QED BY <1>2, <2>1, NamesIn
<1>4. meta.current \in Slots \cup {0} /\ first \in Seq(Slots)
  <2>1. meta.current \in Slots \cup {0}
    BY DEF AuthIInv, AuthShape, Metadata
  <2>2. <<>> \in Seq(Slots) /\ \A s \in Slots : <<s, s>> \in Seq(Slots)
    OBVIOUS
  <2> QED BY <2>1, <2>2
<1>5. order \in Seq(Slots) /\ Len(order) > 0
  <2> HIDE DEF S
  <2> QED BY <1>3, <1>4, PlanNamesSlots
<1>6. job' = [job EXCEPT ![t] = j]
  <2>1. job' = [job EXCEPT ![t].order = order, ![t].slot = order[1], ![t].pc = "swap"]
    BY DEF Plan
  <2> HIDE DEF order
  <2> QED BY <2>1 DEF AuthIInv, AuthShape
<1> HIDE DEF order
<1>7. j \in Job
  BY <1>1, <1>5, JobPlanned
<1>8. j.pc = "swap" /\ j.alone = job[t].alone
  BY <1>1 DEF Job, JobRecord
<1> HIDE DEF j
<1> QED BY <1>1, <1>6, <1>7, <1>8, AloneGoes DEF AuthIInv, AuthShape, Underway

LEMMA StoreKept ==
  ASSUME AuthIInv, NEW t \in Terminals, StoreSlot(t)
  PROVE  AuthIInv'
<1> DEFINE j == [job[t] EXCEPT !.pc = "read"]
<1>1. job[t] \in Job /\ job[t].pc = "store" /\ UNCHANGED <<meta, live>>
      /\ job' = [job EXCEPT ![t] = j] /\ file' = [file EXCEPT ![job[t].slot] = live]
  BY DEF StoreSlot, Goto, AuthIInv, AuthShape
<1>2. j \in Job /\ job[t].why = "add"
  BY <1>1, JobGoesOn, NoJobShape DEF Job, Orderly
<1>3. j.pc = "read" /\ j.alone = job[t].alone /\ j.why = job[t].why
  BY <1>1 DEF Job, JobRecord
<1> HIDE DEF j
<1>4. file' \in [Slots -> Slots \cup {0, Fresh}]
  BY <1>1 DEF AuthIInv, AuthShape
<1> QED BY <1>1, <1>2, <1>3, <1>4, AloneGoes DEF AuthIInv, AuthShape, Underway

LEMMA SwapKept ==
  ASSUME AuthIInv, NEW t \in Terminals, SwapLive(t)
  PROVE  AuthIInv'
<1> DEFINE j == [job[t] EXCEPT !.pc = "read"]
<1>1. job[t] \in Job /\ job[t].pc = "swap" /\ UNCHANGED <<file, meta>>
  BY DEF SwapLive, AuthIInv, AuthShape
<1>2. CASE file[job[t].slot] = 0
  <2>1. End(t, "threw") /\ live' = live /\ "threw" \in Whys \ {"launch", "all exhausted"}
    BY <1>2 DEF SwapLive, Whys
  <2> QED BY <1>1, <2>1, EndsKept DEF AuthIInv, AuthShape, Underway
<1>3. CASE file[job[t].slot] # 0
  <2>1. live' = file[job[t].slot] /\ job' = [job EXCEPT ![t] = j]
    BY <1>3 DEF SwapLive, Goto, AuthIInv, AuthShape
  <2>2. j \in Job
    BY <1>1, JobGoesOn, NoJobShape
  <2>4. job[t].slot \in Slots
    BY <1>1 DEF Job, Orderly, Underway
  <2>3. j.pc = "read" /\ j.alone = job[t].alone /\ j.slot = job[t].slot
    BY <1>1 DEF Job, JobRecord
  <2> HIDE DEF j
  <2> QED BY <1>1, <2>1, <2>2, <2>3, <2>4, AloneGoes DEF AuthIInv, AuthShape, Underway
<1> QED BY <1>2, <1>3

LEMMA ReadKept ==
  ASSUME AuthIInv, NEW t \in Terminals, ReadMetadata(t)
  PROVE  AuthIInv'
<1> DEFINE at == IF job[t].pc = "read" THEN "save" ELSE "mark"
           j == [job[t] EXCEPT !.seen = meta, !.pc = at]
<1>1. job[t] \in Job /\ job[t].pc \in {"read", "blame"} /\ UNCHANGED <<file, meta, live>>
      /\ job' = [job EXCEPT ![t] = j] /\ meta \in Metadata
  BY DEF ReadMetadata, AuthIInv, AuthShape
<1>2. j \in Job
  BY <1>1, JobGoesOn
<1>3. j.pc = at /\ j.alone = job[t].alone /\ j.slot = job[t].slot /\ j.why = job[t].why
  BY <1>1 DEF Job, JobRecord
<1> HIDE DEF j
<1> QED BY <1>1, <1>2, <1>3, AloneGoes DEF AuthIInv, AuthShape, AloneInv, Underway

LEMMA SaveKept ==
  ASSUME AuthIInv, NEW t \in Terminals, SaveMetadata(t)
  PROVE  AuthIInv'
<1> DEFINE j == [job[t] EXCEPT !.seen = NoMetadata, !.pc = "run"]
<1>1. job[t] \in Job /\ job[t].pc = "save" /\ UNCHANGED <<file, live>>
  BY DEF SaveMetadata, AuthIInv, AuthShape
<1>2. job[t].slot \in Slots /\ job[t].seen \in Metadata /\ job[t].why \in {"launch", "use", "add"}
  BY <1>1 DEF Job, JobRecord, Orderly, Underway
<1>3. meta' \in Metadata /\ (job[t].why # "add" => meta'.current = job[t].slot)
  BY <1>2 DEF SaveMetadata, Metadata
<1>4. CASE job[t].why = "launch"
  <2>1. job' = [job EXCEPT ![t] = j]
    BY <1>4 DEF SaveMetadata, AuthIInv, AuthShape
  <2>2. j \in Job
    BY <1>1, <1>4, JobGoesOn, NoJobShape
  <2>3. j.pc = "run" /\ j.alone = job[t].alone /\ j.slot = job[t].slot
    BY <1>1 DEF Job, JobRecord
  <2> HIDE DEF j
  <2> QED BY <1>1, <1>3, <1>4, <2>1, <2>2, <2>3, AloneGoes DEF AuthIInv, AuthShape, AloneInv, Underway
<1>5. CASE job[t].why # "launch"
  <2>1. End(t, job[t].why) /\ job[t].why \in Whys \ {"launch", "all exhausted"}
    BY <1>2, <1>5 DEF SaveMetadata, Whys
  <2> QED BY <1>1, <1>3, <2>1, EndsKept DEF Underway
<1> QED BY <1>4, <1>5

LEMMA ChildKept ==
  ASSUME AuthIInv, NEW t \in Terminals, NEW outcome \in {"exit 0", "exit 1", "quota"},
         ChildEnds(t, outcome)
  PROVE  AuthIInv'
<1> DEFINE j == [job[t] EXCEPT !.pc = "blame"]
<1>1. job[t] \in Job /\ job[t].pc = "run" /\ UNCHANGED <<file, meta, live>>
  BY DEF ChildEnds, AuthIInv, AuthShape
<1>2. CASE outcome = "quota"
  <2>1. job' = [job EXCEPT ![t] = j]
    BY <1>2 DEF ChildEnds, Goto, AuthIInv, AuthShape
  <2>2. j \in Job
    BY <1>1, JobGoesOn, NoJobShape
  <2>3. j.pc = "blame" /\ j.alone = job[t].alone /\ j.slot = job[t].slot
    BY <1>1 DEF Job, JobRecord
  <2>4. job[t].why # "add"
    BY <1>1 DEF Job, Orderly
  <2>5. job[t].alone => live = file[job[t].slot] /\ meta.current = job[t].slot
    BY <1>1, <2>4 DEF AuthIInv, AloneInv, Underway
  <2> HIDE DEF j
  <2> QED BY <1>1, <2>1, <2>2, <2>3, <2>5, AloneGoes DEF AuthIInv, AuthShape, Underway
<1>3. CASE outcome # "quota"
  <2>1. End(t, outcome) /\ outcome \in Whys \ {"launch", "all exhausted"}
    BY <1>3 DEF ChildEnds, Whys
  <2> QED BY <1>1, <2>1, EndsKept DEF AuthIInv, AuthShape, Underway
<1> QED BY <1>2, <1>3

LEMMA BlameKept ==
  ASSUME AuthIInv, NEW t \in Terminals, NEW resumable \in Resumable, MarkSlotQuota(t, resumable)
  PROVE  AuthIInv'
<1> DEFINE s == job[t].slot
           tried == job[t].tried \cup {s}
           next == NextSlots(job[t].order, s, tried)
           why == IF job[t].mode = "manual" THEN "manual"
                  ELSE IF next = {} THEN "all exhausted"
                  ELSE IF ~resumable THEN "nothing to resume"
                  ELSE "launch"
           slot == IF why = "launch" THEN CHOOSE n \in next : TRUE ELSE s
           at == IF why = "launch" THEN "swap" ELSE "done"
           j == [job[t] EXCEPT !.tried = tried, !.why = why, !.seen = NoMetadata, !.slot = slot,
                               !.pc = at]
<1>1. job[t] \in Job /\ job[t].pc = "mark" /\ UNCHANGED <<file, live>>
  BY DEF MarkSlotQuota, AuthIInv, AuthShape
<1>2. job[t].seen \in Metadata /\ s \in Slots /\ job[t].order \in Seq(Slots)
      /\ Len(job[t].order) > 0
  BY <1>1 DEF Job, JobRecord, Orderly, Underway
<1>3. meta' \in Metadata
  <2>1. meta' = [job[t].seen EXCEPT !.listed = @ \cup {s}, !.exhausted = @ \cup {s}]
    BY DEF MarkSlotQuota
  <2> HIDE DEF s
  <2> QED BY <1>2, <2>1 DEF Metadata
<1>4. next \subseteq ToSet(job[t].order) \ tried
      /\ (next = {} => ToSet(job[t].order) \subseteq tried)
  BY <1>2, NextIsFree
<1>5. job' = [job EXCEPT ![t] = j]
  <2>1. job' = [job EXCEPT ![t].tried = tried, ![t].why = why, ![t].seen = NoMetadata,
                           ![t].slot = slot, ![t].pc = at]
    BY DEF MarkSlotQuota
  <2> HIDE DEF tried, why, slot, at
  <2> QED BY <2>1 DEF AuthIInv, AuthShape
<1> HIDE DEF next
<1>6. \/ why \in {"manual", "nothing to resume"} /\ slot = s /\ at = "done"
      \/ why = "all exhausted" /\ slot = s /\ ToSet(job[t].order) \subseteq tried /\ at = "done"
      \/ why = "launch" /\ job[t].mode # "manual" /\ slot \in ToSet(job[t].order) \ tried
           /\ at = "swap"
  <2>1. next # {} => (CHOOSE n \in next : TRUE) \in next
    OBVIOUS
  <2> QED BY <1>4, <2>1
<1> HIDE DEF why, slot, at
<1>7. j \in Job
  BY <1>1, <1>6, JobMarks
<1>8. j.pc = at /\ j.alone = job[t].alone
  BY <1>1 DEF Job, JobRecord
<1> HIDE DEF j
<1> QED BY <1>1, <1>3, <1>5, <1>6, <1>7, <1>8, AloneGoes DEF AuthIInv, AuthShape, Underway

LEMMA JobsKept ==
  ASSUME IsFiniteSet(Slots), Slots \subseteq Nat \ {0}
  PROVE  AuthInit /\ [][AuthNext]_authVars => []AuthIInv
<1> SlotNames
  BY DEF SlotNames
<1>1. AuthInit => AuthIInv
  <2> SUFFICES ASSUME AuthInit PROVE AuthIInv
    OBVIOUS
  <2>1. file \in [Slots -> Slots \cup {0, Fresh}] /\ live \in Slots \cup {0, Fresh}
    BY DEF AuthInit
  <2>2. meta \in Metadata
    BY DEF AuthInit, Metadata
  <2>3. job \in [Terminals -> Job] /\ \A t \in Terminals : job[t].pc = "idle"
    BY NoJobShape DEF AuthInit
  <2> QED BY <2>1, <2>2, <2>3 DEF AuthIInv, AuthShape, AloneInv, Underway
<1>2. AuthIInv /\ [AuthNext]_authVars => AuthIInv'
  <2> SUFFICES ASSUME AuthIInv, [AuthNext]_authVars PROVE AuthIInv'
    OBVIOUS
  <2>1. ASSUME NEW t \in Terminals, Interrupt(t) PROVE AuthIInv'
    <3>1. job[t] \in Job /\ job[t].pc \in Underway
      BY <2>1 DEF Interrupt, AuthIInv, AuthShape, Job, JobRecord
    <3>2. /\ End(t, "interrupted") /\ "interrupted" \in Whys \ {"launch", "all exhausted"}
          /\ file' = file /\ live' = live /\ meta' \in Metadata
      BY <2>1 DEF Interrupt, Whys, AuthIInv, AuthShape
    <3> QED BY <3>1, <3>2, EndsKept
  <2>2. ASSUME NEW t \in Terminals, Work(t) PROVE AuthIInv'
    BY <2>2, PlanKept, StoreKept, SwapKept, ReadKept, SaveKept, ChildKept, BlameKept DEF Work
  <2>3. CASE UNCHANGED authVars
    <3>1. AuthShape'
      BY <2>3 DEF authVars, AuthIInv, AuthShape
    <3>2. AloneInv'
      BY <2>3 DEF authVars, AuthIInv, AloneInv
    <3> QED BY <3>1, <3>2 DEF AuthIInv
  <2> QED BY <2>1, <2>2, <2>3, BeginsKept DEF AuthNext
<1> QED BY <1>1, <1>2, PTL

LEMMA RotationKept ==
  ASSUME IsFiniteSet(Slots), Slots \subseteq Nat \ {0}
  PROVE  AuthInit /\ [][AuthNext]_authVars => []RotationSound
<1>1. AuthIInv => RotationSound
  <2> SUFFICES ASSUME AuthIInv, NEW t \in Terminals
               PROVE  /\ job[t].pc \in {"swap", "read", "save", "run"} => job[t].slot \notin job[t].tried
                      /\ job[t].mode = "manual" /\ job[t].pc # "plan"
                           => job[t].tried \subseteq {Head(job[t].order)}
                      /\ job[t].why = "all exhausted" => job[t].tried = ToSet(job[t].order)
                      /\ job[t].alone /\ job[t].pc \in {"run", "blame", "mark"} =>
                           live = file[job[t].slot] /\ meta.current = job[t].slot
    BY DEF RotationSound, NoSecondTry, BlamesTheRightSlot
  <2>1. job[t] \in Job
    BY DEF AuthIInv, AuthShape
  <2>2. Orderly(job[t])
    BY <2>1 DEF Job
  <2> QED BY <2>2 DEF Orderly, AuthIInv, AloneInv, Underway
<1> QED BY <1>1, JobsKept, PTL

(* The rotation never returns to an account that ran out, says that all    *)
(* are exhausted only when they are, and a launch that no other command    *)
(* ran beside marks the account its child ran with.                        *)
THEOREM RotationHolds ==
  ASSUME IsFiniteSet(Slots), Slots \subseteq Nat \ {0}
  PROVE  AuthSpec => []RotationSound
BY RotationKept, PTL DEF AuthSpec

-----------------------------------------------------------------------------
(* The autoresearch runtime (Autoresearch).  Commits are numbered in the   *)
(* order in which they are made, so what the manifest on disk keeps is     *)
(* never younger than what the supervisor keeps, and a reset to the latter *)
(* leaves the former in the history.                                       *)
Manifests == [status : {"none", "running"} \cup Terminal, iteration : Nat, kept : Nat, score : Nat]

ResearchShape ==
  /\ work.commits \in Seq(Nat) /\ Len(work.commits) > 0
  /\ work = [commits |-> work.commits, dirty |-> work.dirty, made |-> work.made]
  /\ work.made \in Nat
  /\ manifest \in Manifests /\ memory \in Manifests
  /\ ledger \in Seq([commit : Nat, score : Nat])

InOrder(commits, made) ==
  /\ \A i, j \in 1..Len(commits) : i < j => commits[i] < commits[j]
  /\ \A i \in 1..Len(commits) : commits[i] <= made

InHistory(m) == \E i \in 1..Len(work.commits) : work.commits[i] = m.kept
InLedger(m) == m.kept # Baseline => \E i \in 1..Len(ledger) : ledger[i].commit = m.kept

KeptInv ==
  /\ InOrder(work.commits, work.made)
  /\ manifest.status = "none" => /\ manifest = NoManifest /\ work.commits = <<Baseline>>
                                 /\ pc = "none" /\ memory.status = "none"
  /\ manifest.status # "none" => InHistory(manifest) /\ InLedger(manifest)
  /\ memory.status # "none" =>
       /\ InHistory(memory) /\ (pc # "log" => InLedger(memory))
       /\ manifest.kept <= memory.kept
  /\ pc # "none" => memory.status # "none"

(* Under score_improvement: what the supervisor keeps scores higher than   *)
(* what the manifest keeps, or is the same.                                *)
ScoreInv ==
  /\ memory.status # "none" =>
       /\ memory.score >= manifest.score
       /\ memory.kept # manifest.kept => memory.score > manifest.score
  /\ pc \in {"start", "activate", "baseline"} => manifest.score = 0 /\ memory.kept = manifest.kept

ResearchInv ==
  ResearchShape /\ KeptInv /\ (KeepPolicy = "score_improvement" => ScoreInv)

(* A manifest's record changes in one field.                               *)
LEMMA ManifestSteps ==
  /\ NoManifest \in Manifests /\ NoManifest.status = "none" /\ NoManifest.score = 0
  /\ NoManifest.kept = Baseline /\ Baseline = 0
  /\ \A m \in Manifests :
       /\ \A n \in Nat : LET k == [m EXCEPT !.score = n]
                         IN  /\ k \in Manifests /\ k.score = n /\ k.kept = m.kept /\ k.status = m.status
       /\ \A n, c \in Nat : LET k == [m EXCEPT !.kept = c, !.score = n]
                            IN  /\ k \in Manifests /\ k.score = n /\ k.kept = c /\ k.status = m.status
       /\ LET k == [m EXCEPT !.iteration = @ + 1]
          IN  /\ k \in Manifests /\ k.score = m.score /\ k.kept = m.kept /\ k.status = m.status
       /\ \A s \in Terminal :
            LET k == [m EXCEPT !.status = s]
            IN  /\ k \in Manifests /\ k.score = m.score /\ k.kept = m.kept /\ k.status = s
<1>1. /\ NoManifest \in Manifests /\ NoManifest.status = "none" /\ NoManifest.score = 0
      /\ NoManifest.kept = Baseline /\ Baseline = 0
  BY DEF Manifests, NoManifest, Baseline, Terminal
<1>2. ASSUME NEW m \in Manifests
      PROVE  /\ \A n \in Nat : LET k == [m EXCEPT !.score = n]
                   IN  /\ k \in Manifests /\ k.score = n /\ k.kept = m.kept /\ k.status = m.status
             /\ \A n, c \in Nat : LET k == [m EXCEPT !.kept = c, !.score = n]
                   IN  /\ k \in Manifests /\ k.score = n /\ k.kept = c /\ k.status = m.status
             /\ LET k == [m EXCEPT !.iteration = @ + 1]
                IN  /\ k \in Manifests /\ k.score = m.score /\ k.kept = m.kept /\ k.status = m.status
             /\ \A s \in Terminal : LET k == [m EXCEPT !.status = s]
                   IN  /\ k \in Manifests /\ k.score = m.score /\ k.kept = m.kept /\ k.status = s
  <2>1. m.iteration \in Nat /\ m.iteration + 1 \in Nat
    BY DEF Manifests
  <2> QED BY <2>1 DEF Manifests, Terminal
<1> QED BY <1>1, <1>2

(* Steps that leave worktree, ledger and manifest, and of the memory what  *)
(* matters.                                                                *)
LEMMA ResearchQuiet ==
  ASSUME ResearchInv, ledger' = ledger,
         work'.commits = work.commits, work'.made = work.made,
         work' = [commits |-> work'.commits, dirty |-> work'.dirty, made |-> work'.made],
         memory' \in Manifests, manifest' \in Manifests,
         manifest'.kept = manifest.kept, manifest'.score = manifest.score,
         manifest'.status = "none" <=> manifest.status = "none",
         \/ memory' = NoManifest /\ pc' = "none" 
         \/ /\ memory'.kept = memory.kept /\ memory'.score = memory.score
            /\ memory'.status = "none" <=> memory.status = "none"
            /\ pc' = "log" <=> pc = "log"
            /\ pc' # "none" => pc # "none"
            /\ pc' \in {"start", "activate", "baseline"} => pc \in {"start", "activate", "baseline"},
         manifest.status = "none" => manifest' = manifest
  PROVE  ResearchInv'
<1>1. ResearchShape'
  BY DEF ResearchInv, ResearchShape
<1>2. KeptInv'
  <2>1. InOrder(work.commits, work.made)'
    BY DEF ResearchInv, KeptInv, InOrder
  <2>2. (manifest.status # "none" => InHistory(manifest) /\ InLedger(manifest))'
    BY DEF ResearchInv, KeptInv, InHistory, InLedger
  <2>3. (memory.status # "none" =>
           /\ InHistory(memory) /\ (pc # "log" => InLedger(memory))
           /\ manifest.kept <= memory.kept)'
    <3>1. CASE memory' = NoManifest
      BY <3>1, ManifestSteps
    <3>2. CASE memory' # NoManifest
      <4>1. memory'.status # "none" => memory.status # "none"
        BY <3>2
      <4> QED BY <3>2, <4>1 DEF ResearchInv, KeptInv, InHistory, InLedger
    <3> QED BY <3>1, <3>2
  <2>4. (manifest.status = "none" => /\ manifest = NoManifest /\ work.commits = <<Baseline>>
                                 /\ pc = "none" /\ memory.status = "none")'
    BY ManifestSteps DEF ResearchInv, KeptInv
  <2> QED BY <2>1, <2>2, <2>3, <2>4 DEF ResearchInv, KeptInv
<1>3. KeepPolicy = "score_improvement" => ScoreInv'
  BY ManifestSteps DEF ResearchInv, ScoreInv
<1> QED BY <1>1, <1>2, <1>3 DEF ResearchInv

LEMMA ResearchQuietSteps ==
  ASSUME ResearchInv,
         \/ StartMode \/ Activate \/ AgentEdits \/ Process
         \/ EndMode \/ EndLock \/ StopRun \/ StopMode \/ StopLock \/ Dies \/ CleanWorktree
         \/ \E status, commit, base : AgentReports(status, commit, base)
         \/ UNCHANGED runVars
  PROVE  ResearchInv'
<1>1. /\ work = [commits |-> work.commits, dirty |-> work.dirty, made |-> work.made]
      /\ memory \in Manifests /\ manifest \in Manifests
  BY DEF ResearchInv, ResearchShape
<1>2. /\ NoManifest \in Manifests /\ NoManifest.status = "none"
      /\ manifest.status = "none" => manifest = NoManifest
  BY ManifestSteps DEF ResearchInv, KeptInv
<1>3. CASE StartMode \/ Activate
  <2>1. /\ UNCHANGED <<work, memory, manifest, ledger>>
        /\ pc \in {"start", "restart", "activate", "reactivate"}
        /\ pc' \in {"activate", "reactivate", "baseline", "ready"}
        /\ pc' \in {"start", "activate", "baseline"} => pc \in {"start", "activate", "baseline"}
    BY <1>3 DEF StartMode, Activate
  <2> QED BY <1>1, <1>2, <2>1, ResearchQuiet
<1>4. CASE AgentEdits \/ CleanWorktree
  <2>1. /\ UNCHANGED <<memory, manifest, ledger, pc>>
        /\ \/ work' = [work EXCEPT !.dirty = TRUE]
           \/ work' = [work EXCEPT !.dirty = FALSE]
    BY <1>4 DEF AgentEdits, CleanWorktree
  <2>2. /\ work'.commits = work.commits /\ work'.made = work.made
        /\ work' = [commits |-> work'.commits, dirty |-> work'.dirty, made |-> work'.made]
    BY <1>1, <2>1
  <2> QED BY <1>1, <1>2, <2>1, <2>2, ResearchQuiet
<1>5. CASE Process
  <2>1. /\ UNCHANGED <<work, manifest, ledger>> /\ pc = "validate"
        /\ pc' \in {"end", "evaluate", "save"}
        /\ \/ memory' = memory
           \/ \E s \in Terminal : memory' = [memory EXCEPT !.status = s]
    BY <1>5 DEF Process, Ends, Terminal
  <2>2. memory' \in Manifests /\ memory'.kept = memory.kept /\ memory'.score = memory.score
        /\ (memory'.status = "none" <=> memory.status = "none")
    <3>1. CASE memory' = memory
      BY <1>1, <3>1
    <3>2. ASSUME NEW s \in Terminal, memory' = [memory EXCEPT !.status = s]
          PROVE  /\ memory' \in Manifests /\ memory'.kept = memory.kept /\ memory'.score = memory.score
                 /\ memory'.status = s
      BY <1>1, <3>2, ManifestSteps
    <3>3. memory.status # "none"
      BY <2>1 DEF ResearchInv, KeptInv
    <3> QED BY <2>1, <3>1, <3>2, <3>3 DEF Terminal
  <2> QED BY <1>1, <1>2, <2>1, <2>2, ResearchQuiet
<1>6. CASE EndMode \/ EndLock \/ Dies
  <2>1. /\ UNCHANGED <<work, manifest, ledger>>
        /\ \/ memory' = NoManifest /\ pc' = "none"
           \/ memory' = memory /\ pc = "end mode" /\ pc' = "end lock"
    BY <1>6 DEF EndMode, EndLock, Dies
  <2> QED BY <1>1, <1>2, <2>1, ResearchQuiet
<1>7. CASE StopRun
  <2>1. /\ UNCHANGED <<work, memory, ledger, pc>>
        /\ \/ manifest' = manifest
           \/ manifest.status = "running" /\ manifest' = [manifest EXCEPT !.status = "stopped"]
    BY <1>7 DEF StopRun
  <2>2. /\ manifest' \in Manifests
        /\ manifest'.kept = manifest.kept /\ manifest'.score = manifest.score
        /\ manifest'.status = "none" <=> manifest.status = "none"
    <3>1. "stopped" \in Terminal
      BY DEF Terminal
    <3>2. CASE manifest' = manifest
      BY <1>1, <3>2
    <3>3. CASE manifest.status = "running" /\ manifest' = [manifest EXCEPT !.status = "stopped"]
      BY <1>1, <3>1, <3>3, ManifestSteps
    <3> QED BY <2>1, <3>2, <3>3
  <2> QED BY <1>1, <1>2, <2>1, <2>2, ResearchQuiet
<1>8. CASE StopMode \/ StopLock \/ UNCHANGED runVars
  <2>1. UNCHANGED <<work, memory, manifest, ledger, pc>>
    BY <1>8 DEF StopMode, StopLock, runVars
  <2> QED BY <1>1, <1>2, <2>1, ResearchQuiet
<1>9. ASSUME NEW status, NEW commit, NEW base, AgentReports(status, commit, base)
      PROVE  ResearchInv'
  <2>1. /\ UNCHANGED <<work, manifest, ledger>> /\ pc = "ready" /\ pc' = "validate"
        /\ memory' = [memory EXCEPT !.iteration = @ + 1]
    BY <1>9 DEF AgentReports
  <2>2. memory' \in Manifests /\ memory'.kept = memory.kept /\ memory'.score = memory.score
        /\ memory'.status = memory.status
    BY <1>1, <2>1, ManifestSteps
  <2> QED BY <1>1, <1>2, <2>1, <2>2, ResearchQuiet
<1> QED BY <1>3, <1>4, <1>5, <1>6, <1>7, <1>8, <1>9

LEMMA PrepareKept ==
  ASSUME ResearchInv, Prepare \/ Resume
  PROVE  ResearchInv'
<1>1. CASE Prepare
  <2>1. work.commits = <<Baseline>> /\ manifest = NoManifest /\ UNCHANGED <<work, ledger>>
    BY <1>1, ManifestSteps DEF Prepare, ResearchInv, KeptInv
  <2>2. HeadOf(work) = 0
    <3>1. Len(work.commits) = 1 /\ work.commits[1] = 0
      BY <2>1 DEF Baseline
    <3> QED BY <3>1 DEF HeadOf, Last
  <2>3. memory' = [NoManifest EXCEPT !.status = "running", !.kept = 0] /\ manifest' = memory'
    BY <1>1, <2>2 DEF Prepare
  <2>4. memory' \in Manifests /\ memory'.kept = 0 /\ memory'.score = 0 /\ memory'.status = "running"
    BY <2>3 DEF NoManifest, Manifests
  <2>5. pc' \in {"none", "start"}
    BY <1>1 DEF Prepare
  <2>6. ResearchShape'
    BY <2>1, <2>3, <2>4 DEF ResearchInv, ResearchShape
  <2>7. work'.commits = <<Baseline>> /\ work' = work
    BY <2>1
  <2>8. InHistory(memory)' /\ InLedger(memory)' /\ InHistory(manifest)' /\ InLedger(manifest)'
    <3>1. Len(work'.commits) = 1 /\ work'.commits[1] = 0
      BY <2>7 DEF Baseline
    <3> QED BY <2>3, <2>4, <3>1 DEF InHistory, InLedger, Baseline
  <2>9. KeptInv'
    BY <2>3, <2>4, <2>5, <2>7, <2>8 DEF KeptInv, InOrder, ResearchInv
  <2>10. ScoreInv'
    BY <2>3, <2>4, <2>5 DEF ScoreInv
  <2> QED BY <2>6, <2>9, <2>10 DEF ResearchInv
<1>2. CASE Resume
  <2>1. /\ memory' = manifest /\ pc' = "restart" /\ manifest.status = "running"
        /\ UNCHANGED <<work, manifest, ledger>>
    BY <1>2 DEF Resume
  <2>2. ResearchShape'
    BY <2>1 DEF ResearchInv, ResearchShape
  <2>3. manifest.kept \in Nat /\ manifest.score \in Nat
    BY DEF ResearchInv, ResearchShape, Manifests
  <2>4. KeptInv'
    BY <2>1, <2>3 DEF ResearchInv, KeptInv, InOrder, InHistory, InLedger
  <2>5. ScoreInv'
    BY <2>1, <2>3 DEF ScoreInv
  <2> QED BY <2>2, <2>4, <2>5 DEF ResearchInv
<1> QED BY <1>1, <1>2

LEMMA SeedKept ==
  ASSUME MaxScore \in Nat, ResearchInv, NEW result \in Results, SeedBaseline(result)
  PROVE  ResearchInv'
<1> DEFINE n == IF result.status = "pass" THEN result.score ELSE 0
<1>1. n \in Nat
  BY DEF Results
<1>2. /\ memory' = [memory EXCEPT !.score = n] /\ pc = "baseline" /\ pc' = "save"
      /\ UNCHANGED <<work, manifest, ledger>>
  BY DEF SeedBaseline
<1> HIDE DEF n
<1>3. memory' \in Manifests /\ memory'.score = n /\ memory'.kept = memory.kept
      /\ memory'.status = memory.status
  BY <1>1, <1>2, ManifestSteps DEF ResearchInv, ResearchShape
<1>4. ResearchShape'
  BY <1>2, <1>3 DEF ResearchInv, ResearchShape
<1>5. KeptInv'
  BY <1>2, <1>3 DEF ResearchInv, KeptInv, InOrder, InHistory, InLedger
<1>6. KeepPolicy = "score_improvement" => ScoreInv'
  BY <1>1, <1>2, <1>3 DEF ResearchInv, ScoreInv
<1> QED BY <1>4, <1>5, <1>6 DEF ResearchInv

LEMMA CommitKept ==
  ASSUME ResearchInv, AgentCommits
  PROVE  ResearchInv'
<1> DEFINE c == work.commits
           d == Append(c, work.made + 1)
<1>1. /\ work' = [commits |-> d, dirty |-> FALSE, made |-> work.made + 1]
      /\ UNCHANGED <<memory, manifest, ledger, pc>> /\ pc = "ready"
  BY DEF AgentCommits
<1>2. c \in Seq(Nat) /\ Len(c) > 0 /\ work.made \in Nat /\ InOrder(c, work.made)
  BY DEF ResearchInv, ResearchShape, KeptInv
<1>3. /\ d \in Seq(Nat) /\ Len(d) = Len(c) + 1
      /\ \A i \in 1..Len(d) : d[i] = IF i <= Len(c) THEN c[i] ELSE work.made + 1
  BY <1>2
<1>4. work'.commits = d /\ work'.made = work.made + 1 /\ work'.made \in Nat
      /\ work' = [commits |-> work'.commits, dirty |-> work'.dirty, made |-> work'.made]
  BY <1>1, <1>2
<1> HIDE DEF c, d
<1>5. InOrder(d, work.made + 1)
  <2>1. \A i \in 1..Len(c) : c[i] \in Nat /\ c[i] <= work.made
    BY <1>2 DEF InOrder
  <2>2. \A i, j \in 1..Len(c) : i < j => c[i] < c[j]
    BY <1>2 DEF InOrder
  <2>3. Len(c) \in Nat
    BY <1>2
  <2>4. ASSUME NEW i \in 1..Len(d), NEW j \in 1..Len(d), i < j PROVE d[i] < d[j]
    <3>1. i \in 1..Len(c) /\ d[i] = c[i]
      BY <1>3, <2>3, <2>4
    <3>2. CASE j <= Len(c)
      BY <1>3, <2>2, <2>3, <2>4, <3>1, <3>2
    <3>3. CASE ~(j <= Len(c))
      BY <1>2, <1>3, <2>1, <2>3, <2>4, <3>1, <3>3
    <3> QED BY <3>2, <3>3
  <2>5. ASSUME NEW i \in 1..Len(d) PROVE d[i] <= work.made + 1
    <3>1. CASE i <= Len(c)
      <4>1. i \in 1..Len(c) /\ d[i] = c[i]
        BY <1>3, <2>3, <3>1
      <4>2. c[i] \in Nat /\ c[i] <= work.made
        BY <2>1, <4>1
      <4> QED BY <1>2, <4>1, <4>2
    <3>2. CASE ~(i <= Len(c))
      BY <1>2, <1>3, <3>2
    <3> QED BY <3>1, <3>2
  <2> QED BY <2>4, <2>5 DEF InOrder
<1>6. ResearchShape'
  BY <1>1, <1>3, <1>4 DEF ResearchInv, ResearchShape
<1>7. ASSUME NEW m, InHistory(m) PROVE \E i \in 1..Len(d) : d[i] = m.kept
  <2>1. PICK i \in 1..Len(c) : c[i] = m.kept
    BY <1>7 DEF InHistory, c
  <2>2. Len(c) \in Nat
    BY <1>2
  <2>3. i \in 1..Len(d) /\ d[i] = m.kept
    BY <1>3, <2>1, <2>2
  <2> QED BY <2>3
<1>8. manifest.status # "none"
  BY <1>1 DEF ResearchInv, KeptInv
<1>9. KeptInv'
  BY <1>1, <1>4, <1>5, <1>7, <1>8 DEF ResearchInv, KeptInv, InHistory, InLedger
<1>10. KeepPolicy = "score_improvement" => ScoreInv'
  BY <1>1 DEF ResearchInv, ScoreInv
<1> QED BY <1>6, <1>9, <1>10 DEF ResearchInv

LEMMA LoggedKept ==
  ASSUME ResearchInv, LogKept \/ SaveManifest \/ EndManifest
  PROVE  ResearchInv'
<1>1. CASE LogKept
  <2> DEFINE e == [commit |-> memory.kept, score |-> memory.score]
  <2>1. /\ ledger' = Append(ledger, e) /\ pc = "log" /\ pc' = "save"
        /\ UNCHANGED <<work, manifest, memory>>
    BY <1>1 DEF LogKept
  <2>2. e \in [commit : Nat, score : Nat] /\ e.commit = memory.kept
    BY DEF ResearchInv, ResearchShape, Manifests
  <2> HIDE DEF e
  <2>3. ledger' \in Seq([commit : Nat, score : Nat]) /\ Len(ledger') = Len(ledger) + 1
        /\ Len(ledger) \in Nat /\ (\A i \in 1..Len(ledger) : ledger'[i] = ledger[i])
        /\ ledger'[Len(ledger) + 1] = e
    BY <2>1, <2>2 DEF ResearchInv, ResearchShape
  <2>4. ResearchShape'
    BY <2>1, <2>3 DEF ResearchInv, ResearchShape
  <2>5. InLedger(memory)' /\ (InLedger(manifest) => InLedger(manifest)')
    <3>1. \A i \in 1..Len(ledger) : i \in 1..Len(ledger') /\ ledger'[i] = ledger[i]
      BY <2>3
    <3>2. Len(ledger) + 1 \in 1..Len(ledger') /\ ledger'[Len(ledger) + 1].commit = memory'.kept
      BY <2>1, <2>2, <2>3
    <3>3. InLedger(memory)'
      BY <3>2 DEF InLedger
    <3>4. InLedger(manifest) => InLedger(manifest)'
      BY <2>1, <3>1 DEF InLedger
    <3> QED BY <3>3, <3>4
  <2>6. manifest.status # "none"
    BY <2>1 DEF ResearchInv, KeptInv
  <2>7. KeptInv'
    BY <2>1, <2>5, <2>6 DEF ResearchInv, KeptInv, InOrder, InHistory
  <2>8. KeepPolicy = "score_improvement" => ScoreInv'
    BY <2>1 DEF ResearchInv, ScoreInv
  <2> QED BY <2>4, <2>7, <2>8 DEF ResearchInv
<1>2. CASE SaveManifest \/ EndManifest
  <2>1. /\ manifest' = memory /\ UNCHANGED <<work, memory, ledger>>
        /\ pc \in {"save", "end"} /\ pc' \in {"ready", "end mode"}
    BY <1>2 DEF SaveManifest, EndManifest
  <2>2. memory.kept \in Nat /\ memory.score \in Nat
    BY DEF ResearchInv, ResearchShape, Manifests
  <2>3. ResearchShape'
    BY <2>1 DEF ResearchInv, ResearchShape
  <2>4. memory.status # "none"
    BY <2>1 DEF ResearchInv, KeptInv
  <2>5. InHistory(memory) /\ InLedger(memory) /\ InOrder(work.commits, work.made)
    BY <2>1, <2>4 DEF ResearchInv, KeptInv
  <2>6. KeptInv'
    <3>1. InHistory(memory)' /\ InLedger(memory)' /\ InHistory(manifest)' /\ InLedger(manifest)'
      BY <2>1, <2>5 DEF InHistory, InLedger
    <3>2. pc' # "none" /\ memory'.status # "none" /\ manifest'.status # "none"
          /\ manifest'.kept <= memory'.kept
      <4>1. memory'.kept = memory.kept /\ manifest'.kept = memory.kept
        BY <2>1
      <4>2. manifest'.kept <= memory'.kept
        BY <2>2, <4>1
      <4> QED BY <2>1, <2>4, <4>2
    <3>3. InOrder(work.commits, work.made)'
      BY <2>1, <2>5
    <3> QED BY <3>1, <3>2, <3>3 DEF KeptInv
  <2>7. ScoreInv'
    <3>1. manifest' = memory' /\ memory'.score >= manifest'.score
      <4>1. memory'.score = memory.score /\ manifest'.score = memory.score /\ manifest' = memory'
        BY <2>1
      <4>2. memory.score >= memory.score
        BY <2>2
      <4> QED BY <4>1, <4>2
    <3> QED BY <2>1, <3>1 DEF ScoreInv
  <2> QED BY <2>3, <2>6, <2>7 DEF ResearchInv
<1> QED BY <1>1, <1>2

(* SelectInSeq finds what is there.                                        *)
LEMMA FoundInSeq ==
  ASSUME NEW commits \in Seq(Nat), NEW kept, \E i \in 1..Len(commits) : commits[i] = kept
  PROVE  LET k == SelectInSeq(commits, LAMBDA c : c = kept)
         IN  k \in 1..Len(commits) /\ commits[k] = kept
<1> DEFINE I == {i \in 1..Len(commits) : commits[i] = kept}
           k == SelectInSeq(commits, LAMBDA c : c = kept)
<1>1. k = IF I # {} THEN Min(I) ELSE 0
  BY DEF SelectInSeq
<1>2. I # {} /\ I \subseteq Nat
  OBVIOUS
<1>3. Min(I) \in I
  <2> HIDE DEF I
  <2>1. \E x \in I : \A y \in I : x <= y
    BY <1>2, LeastNumber
  <2> QED BY <2>1 DEF Min
<1> QED BY <1>1, <1>2, <1>3

(* A reset goes back to the commit the supervisor keeps, and not behind    *)
(* the one that the manifest keeps.                                        *)
LEMMA ResetKeeps ==
  ASSUME NEW commits \in Seq(Nat), NEW made, InOrder(commits, made),
         NEW k \in 1..Len(commits)
  PROVE  LET reset == SubSeq(commits, 1, k) IN
         /\ reset \in Seq(Nat) /\ Len(reset) > 0 /\ InOrder(reset, made)
         /\ \A i \in 1..Len(commits) : commits[i] <= commits[k] =>
              \E j \in 1..Len(reset) : reset[j] = commits[i]
<1> DEFINE reset == SubSeq(commits, 1, k)
<1>1. /\ Len(commits) \in Nat /\ k \in Nat /\ 1 <= k /\ k <= Len(commits)
      /\ \A i \in 1..k : i \in 1..Len(commits) /\ commits[i] \in Nat
      /\ k - 1 + 1 = k
  OBVIOUS
<1>2. /\ reset \in Seq(Nat) /\ Len(reset) = k
      /\ \A i \in 1..k : reset[i] = commits[i]
  <2>1. /\ reset \in Seq(Nat) /\ Len(reset) = IF 1 <= k THEN k - 1 + 1 ELSE 0
        /\ \A i \in 1..(k - 1 + 1) : reset[i] = commits[1 + i - 1]
    BY <1>1, SubSeqProperties
  <2> HIDE DEF reset
  <2>2. \A i \in 1..k : 1 + i - 1 = i
    BY <1>1
  <2> QED BY <1>1, <2>1, <2>2
<1> HIDE DEF reset
<1>3. InOrder(reset, made)
  BY <1>1, <1>2 DEF InOrder
<1>4. ASSUME NEW i \in 1..Len(commits), commits[i] <= commits[k]
      PROVE  \E j \in 1..Len(reset) : reset[j] = commits[i]
  <2>1. i <= k
    <3> SUFFICES ASSUME k < i PROVE FALSE
      BY <1>1
    <3>1. commits[k] < commits[i] /\ commits[k] \in Nat /\ commits[i] \in Nat
      BY <1>1 DEF InOrder
    <3> QED BY <1>4, <3>1
  <2>2. i \in 1..k
    BY <1>1, <2>1
  <2> QED BY <1>2, <2>2
<1>5. Len(reset) > 0
  BY <1>1, <1>2
<1> QED BY <1>2, <1>3, <1>4, <1>5 DEF reset

LEMMA EvaluateKept ==
  ASSUME MaxScore \in Nat, ResearchInv, NEW result \in Results, Evaluate(result)
  PROVE  ResearchInv'
<1>1. /\ pc = "evaluate" /\ UNCHANGED <<manifest, ledger>>
      /\ memory.status # "none" /\ manifest.status # "none"
      /\ memory \in Manifests /\ manifest \in Manifests /\ InOrder(work.commits, work.made)
      /\ InHistory(memory) /\ InHistory(manifest) /\ InLedger(memory) /\ InLedger(manifest)
      /\ manifest.kept <= memory.kept
  BY DEF Evaluate, ResearchInv, ResearchShape, KeptInv
<1>2. /\ work.commits \in Seq(Nat) /\ Len(work.commits) > 0 /\ work.made \in Nat
      /\ manifest.kept \in Nat /\ memory.kept \in Nat /\ memory.score \in Nat /\ manifest.score \in Nat
      /\ result.score \in Nat
  BY DEF ResearchInv, ResearchShape, Manifests, Results
<1>3. CASE Keeps(result)
  <2> DEFINE n == IF result.score = 0 THEN memory.score ELSE result.score
             h == HeadOf(work)
             l == Len(work.commits)
  <2>1. /\ memory' = [memory EXCEPT !.kept = h, !.score = n] /\ pc' = "log" /\ work' = work
    BY <1>3 DEF Evaluate
  <2>2. /\ n \in Nat /\ h \in Nat /\ l \in 1..Len(work.commits) /\ work.commits[l] = h
    BY <1>2 DEF HeadOf, Last
  <2>3. memory.kept <= h
    <3>1. PICK i \in 1..l : work.commits[i] = memory.kept
      BY <1>1 DEF InHistory
    <3>2. CASE i = l
      BY <1>2, <2>2, <3>1, <3>2
    <3>3. CASE i < l
      <4>1. work.commits[i] < work.commits[l]
        BY <1>1, <2>2, <3>1, <3>3 DEF InOrder
      <4> QED BY <1>2, <2>2, <3>1, <4>1
    <3> QED BY <1>2, <3>2, <3>3
  <2>4. KeepPolicy = "score_improvement" => n > memory.score
    BY <1>2, <1>3 DEF Keeps
  <2> HIDE DEF n, h, l
  <2>5. memory' \in Manifests /\ memory'.score = n /\ memory'.kept = h /\ memory'.status # "none"
    BY <1>1, <2>1, <2>2 DEF Manifests
  <2>6. ResearchShape'
    BY <1>1, <2>1, <2>5 DEF ResearchInv, ResearchShape
  <2>7. InHistory(memory)' /\ InHistory(manifest)' /\ InLedger(manifest)'
    BY <1>1, <2>1, <2>2, <2>5 DEF InHistory, InLedger
  <2>8. manifest'.kept <= memory'.kept
    BY <1>1, <1>2, <2>2, <2>3, <2>5
  <2>9. KeptInv'
    BY <1>1, <2>1, <2>5, <2>7, <2>8 DEF KeptInv, InOrder
  <2>10. ASSUME KeepPolicy = "score_improvement" PROVE ScoreInv'
    <3>1. memory.score >= manifest.score
      BY <1>1, <2>10 DEF ResearchInv, ScoreInv
    <3>2. memory'.score > manifest'.score
      BY <1>1, <1>2, <2>2, <2>4, <2>5, <2>10, <3>1
    <3>3. memory'.score >= manifest'.score
      BY <1>1, <1>2, <2>2, <2>5, <3>2
    <3> QED BY <2>1, <3>2, <3>3 DEF ScoreInv
  <2> QED BY <2>6, <2>9, <2>10 DEF ResearchInv
<1>4. CASE ~Keeps(result) /\ ~Clean(work)
  <2>1. pc' = "none" /\ memory' = NoManifest /\ work' = work
    BY <1>4 DEF Evaluate
  <2>2. work = [commits |-> work.commits, dirty |-> work.dirty, made |-> work.made]
    BY DEF ResearchInv, ResearchShape
  <2> QED BY <1>1, <2>1, <2>2, ManifestSteps, ResearchQuiet
<1>5. CASE ~Keeps(result) /\ Clean(work)
  <2> DEFINE k == SelectInSeq(work.commits, LAMBDA c : c = memory.kept)
             reset == SubSeq(work.commits, 1, k)
  <2>1. work' = [work EXCEPT !.commits = reset] /\ pc' = "save" /\ memory' = memory
    BY <1>5 DEF Evaluate
  <2>2. k \in 1..Len(work.commits) /\ work.commits[k] = memory.kept
    <3>1. \E i \in 1..Len(work.commits) : work.commits[i] = memory.kept
      BY <1>1 DEF InHistory
    <3> QED BY <1>2, <3>1, FoundInSeq
  <2> HIDE DEF k
  <2>8. /\ reset \in Seq(Nat) /\ Len(reset) > 0 /\ InOrder(reset, work.made)
        /\ \A i \in 1..Len(work.commits) : work.commits[i] <= memory.kept =>
              \E j \in 1..Len(reset) : reset[j] = work.commits[i]
    BY <1>1, <1>2, <2>2, ResetKeeps
  <2> HIDE DEF reset
  <2>3. /\ work'.commits = reset /\ work'.made = work.made
        /\ work' = [commits |-> work'.commits, dirty |-> work'.dirty, made |-> work'.made]
    BY <2>1 DEF ResearchInv, ResearchShape
  <2>4. ResearchShape'
    BY <1>1, <2>1, <2>3, <2>8 DEF ResearchInv, ResearchShape
  <2>5. InHistory(memory)' /\ InHistory(manifest)'
    <3>1. \E i \in 1..Len(reset) : reset[i] = memory.kept
      <4>1. memory.kept <= memory.kept
        BY <1>2
      <4> QED BY <1>1, <1>2, <2>8, <4>1 DEF InHistory
    <3>2. \E i \in 1..Len(reset) : reset[i] = manifest.kept
      BY <1>1, <1>2, <2>8 DEF InHistory
    <3> QED BY <1>1, <2>1, <2>3, <3>1, <3>2 DEF InHistory
  <2>6. KeptInv'
    BY <1>1, <2>1, <2>3, <2>5, <2>8 DEF KeptInv, InLedger
  <2>7. KeepPolicy = "score_improvement" => ScoreInv'
    BY <1>1, <2>1 DEF ResearchInv, ScoreInv
  <2> QED BY <2>4, <2>6, <2>7 DEF ResearchInv
<1> QED BY <1>3, <1>4, <1>5

LEMMA ResearchBegins == ResearchInit => ResearchInv
<1> SUFFICES ASSUME ResearchInit PROVE ResearchInv
  OBVIOUS
<1>1. /\ work = [commits |-> <<Baseline>>, dirty |-> FALSE, made |-> 0]
      /\ manifest = NoManifest /\ memory = NoManifest /\ ledger = <<>> /\ pc = "none"
  BY DEF ResearchInit
<1>2. work.commits = <<0>> /\ work.made = 0 /\ work.dirty = FALSE
  BY <1>1 DEF Baseline
<1>3. work.commits \in Seq(Nat) /\ Len(work.commits) = 1 /\ work.commits[1] = 0
  BY <1>2
<1>4. ledger \in Seq([commit : Nat, score : Nat])
  BY <1>1
<1>5. ResearchShape
  <2>1. work = [commits |-> work.commits, dirty |-> work.dirty, made |-> work.made]
    BY <1>1, <1>2
  <2>2. manifest \in Manifests /\ memory \in Manifests
    BY <1>1, ManifestSteps
  <2>3. work.made \in Nat /\ Len(work.commits) > 0
    BY <1>2, <1>3
  <2> QED BY <1>3, <1>4, <2>1, <2>2, <2>3 DEF ResearchShape
<1>6. InOrder(work.commits, work.made)
  BY <1>2, <1>3 DEF InOrder
<1>7. KeptInv
  BY <1>1, <1>2, <1>6, ManifestSteps DEF KeptInv, Baseline
<1>8. ScoreInv
  BY <1>1, ManifestSteps DEF ScoreInv
<1> QED BY <1>5, <1>7, <1>8 DEF ResearchInv

LEMMA ResearchKept ==
  ASSUME MaxScore \in Nat
  PROVE  ResearchInv /\ [ResearchNext]_runVars => ResearchInv'
<1> SUFFICES ASSUME ResearchInv, [ResearchNext]_runVars PROVE ResearchInv'
  OBVIOUS
<1>1. CASE Prepare \/ Resume
  BY <1>1, PrepareKept
<1>2. ASSUME NEW result \in Results, SeedBaseline(result) \/ Evaluate(result) PROVE ResearchInv'
  BY <1>2, SeedKept, EvaluateKept
<1>3. CASE AgentCommits
  BY <1>3, CommitKept
<1>4. CASE LogKept \/ SaveManifest \/ EndManifest
  BY <1>4, LoggedKept
<1>5. CASE \/ StartMode \/ Activate \/ AgentEdits \/ Process
           \/ EndMode \/ EndLock \/ StopRun \/ StopMode \/ StopLock \/ Dies \/ CleanWorktree
           \/ \E status, commit, base : AgentReports(status, commit, base)
           \/ UNCHANGED runVars
  BY <1>5, ResearchQuietSteps
<1> QED BY <1>1, <1>2, <1>3, <1>4, <1>5 DEF ResearchNext

(* The commit a run keeps is in the worktree's history, and the ledger has *)
(* the iteration that kept it, for any number of commits, iterations and   *)
(* deaths and whatever the agent claims.                                   *)
THEOREM KeptInHistory ==
  ASSUME MaxScore \in Nat
  PROVE  ResearchSpec => []KeptSupported
<1>1. ResearchInv => KeptSupported
  <2> SUFFICES ASSUME ResearchInv PROVE KeptSupported
    OBVIOUS
  <2>1. work.commits \in Seq(Nat) /\ ledger \in Seq([commit : Nat, score : Nat])
    BY DEF ResearchInv, ResearchShape
  <2>2. DOMAIN work.commits = 1..Len(work.commits) /\ DOMAIN ledger = 1..Len(ledger)
    BY <2>1
  <2>3. \A m \in {manifest, memory} : m.status # "none" =>
          InHistory(m) /\ (pc # "log" => InLedger(m))
    BY DEF ResearchInv, KeptInv
  <2> QED BY <2>2, <2>3 DEF KeptSupported, InHistory, InLedger
<1> QED BY <1>1, ResearchBegins, ResearchKept, PTL DEF ResearchSpec

(* Under score_improvement the score on disk never falls, and rises with   *)
(* every commit that is kept.                                              *)
THEOREM ScoresRise ==
  ASSUME MaxScore \in Nat
  PROVE  ResearchSpec => ScoreNeverFalls
<1>1. ResearchInv /\ [ResearchNext]_runVars =>
        [KeepPolicy = "score_improvement" =>
           /\ manifest'.score >= manifest.score
           /\ manifest'.kept # manifest.kept => manifest'.score > manifest.score]_runVars
  <2> SUFFICES ASSUME ResearchInv, ResearchNext, KeepPolicy = "score_improvement"
               PROVE  /\ manifest'.score >= manifest.score
                      /\ manifest'.kept # manifest.kept => manifest'.score > manifest.score
    OBVIOUS
  <2>1. manifest \in Manifests /\ manifest.score \in Nat /\ memory.score \in Nat
    BY DEF ResearchInv, ResearchShape, Manifests
  <2>2. CASE manifest' = manifest
    BY <2>1, <2>2
  <2>3. CASE Prepare
    <3>1. work.commits = <<Baseline>> /\ manifest = NoManifest
      BY <2>3, ManifestSteps DEF Prepare, ResearchInv, KeptInv
    <3>2. Len(work.commits) = 1 /\ work.commits[1] = 0
      BY <3>1 DEF Baseline
    <3>3. manifest' = [NoManifest EXCEPT !.status = "running", !.kept = 0]
      BY <2>3, <3>2 DEF Prepare, HeadOf, Last
    <3>4. manifest'.kept = 0 /\ manifest'.score = 0
      BY <3>3 DEF NoManifest
    <3>5. manifest.kept = 0 /\ manifest.score = 0
      BY <3>1, ManifestSteps
    <3> QED BY <3>4, <3>5
  <2>4. CASE SaveManifest \/ EndManifest
    <3>1. manifest' = memory /\ memory.status # "none"
      BY <2>4 DEF SaveManifest, EndManifest, ResearchInv, KeptInv
    <3> QED BY <3>1 DEF ResearchInv, ScoreInv
  <2>5. CASE StopRun
    <3>1. manifest' = manifest \/ manifest' = [manifest EXCEPT !.status = "stopped"]
      BY <2>5 DEF StopRun
    <3>2. manifest'.kept = manifest.kept /\ manifest'.score = manifest.score
      BY <2>1, <3>1 DEF Manifests
    <3> QED BY <2>1, <3>2
  <2>6. CASE ~(Prepare \/ SaveManifest \/ EndManifest \/ StopRun)
    <3>1. manifest' = manifest
      BY <2>6 DEF ResearchNext, Resume, StartMode, Activate, SeedBaseline, Evaluate, AgentCommits,
         AgentEdits, AgentReports, Process, LogKept, EndMode, EndLock, StopMode, StopLock, Dies,
         CleanWorktree
    <3> QED BY <2>1, <3>1
  <2> QED BY <2>3, <2>4, <2>5, <2>6
<1> QED BY <1>1, ResearchBegins, ResearchKept, PTL DEF ResearchSpec, ScoreNeverFalls

-----------------------------------------------------------------------------
(* The doctor and the setup it advises (Diagnosis).  At each step of a     *)
(* setup, what it has written is as it wrote it, and what its advice rests *)
(* on still holds.                                                         *)
(* The cases of Spoiled.                                                   *)
Befallings ==
  {"no config", "legacy model", "seeded", "explore on", "bad lore", "direct servers",
   "a server off", "a server on", "plugin disabled", "no hooks", "partial hooks",
   "unreadable hooks", "foreign hooks", "package upgraded", "package moved", "no cache",
   "no preferences", "own role", "no role", "effort max", "own spark", "no prompts",
   "no skills", "md replaced", "md markers lost", "table edited", "table lost", "no md",
   "host lacking", "broken dist", "mirrors", "overlap", "triage", "explore in env"}

DoctorBase ==
  /\ MaxEvents \in Nat /\ Spoils \subseteq Befallings
  /\ Commands \subseteq [mode : {"unset", "legacy", "plugin"}, mcp : {"unset", "none", "compat"},
                         force : BOOLEAN, merge : BOOLEAN]

Models == {"current", "legacy", "luna", "own"}
Efforts == {"own", "max"}
Tables == {None, <<"edited">>} \cup Models \X Models \X Efforts
Mds == [there : BOOLEAN, ours : BOOLEAN, outer : Tables, block : Tables]
Disks ==
  [mode : {"none", "legacy", "plugin"}, mcp : {"none", "compat"},
   config : {"absent", "bare", "owx"}, model : {"none", "legacy", "current"}, seeded : BOOLEAN,
   flag : BOOLEAN, hooks : {"absent", "partial", "unreadable", "foreign", "full"},
   market : {"none", "here", "elsewhere"}, enabled : BOOLEAN, cache : {"none", "stale", "current"},
   mcps : [McpServers -> {"unset", "on", "off"}], direct : BOOLEAN,
   agents : [Roles -> {None, <<"users">>} \cup Models \X Efforts], effort : Efforts,
   spark : {"luna", "own"}, prompts : BOOLEAN, skills : BOOLEAN, md : Mds,
   explore : {"unset", "off", "on"}, lore : {"unset", "bad"}, env : {"unset", "on"},
   triage : {"fine", "bad"}, host : {"fine", "lacking", "broken dist"},
   roots : {"apart", "overlap"}, mirrors : 0..1]

(* Without config.toml nothing is in it, and no text is no file.           *)
NoConfig(d) ==
  d.config = "absent" =>
    /\ d.model = "none" /\ ~d.seeded /\ ~d.flag /\ d.market = "none" /\ ~d.enabled
    /\ d.mcps = [s \in McpServers |-> "unset"] /\ ~d.direct /\ d.explore = "unset"
    /\ d.lore = "unset"
NoMd(d) == d.md.there \/ d.md = [there |-> FALSE, ours |-> FALSE, outer |-> None, block |-> None]

(* The steps of a setup, by what is behind them.                           *)
PastCache == {"md"}
PastMarket == {"refresh", "cache", "md"}
PastHooks == {"market"} \cup PastMarket
PastFlags == {"hooks"} \cup PastHooks
PastConfig == {"flags"} \cup PastFlags
PastAgents == {"config"} \cup PastConfig
PastSkills == {"agents"} \cup PastAgents
PastPrompts == {"skills"} \cup PastSkills
PastPrefs == {"prompts"} \cup PastPrompts

SetupShape ==
  /\ setup.at \in {"idle", "prefs"} \cup PastPrefs
  /\ setup.mode \in {"legacy", "plugin"} /\ setup.mcp \in {"none", "compat"}
  /\ setup.force \in BOOLEAN /\ setup.merge \in BOOLEAN /\ setup.yes \in BOOLEAN
  /\ setup.offered \in BOOLEAN /\ setup.excused \in BOOLEAN
  /\ DOMAIN setup = DOMAIN NoSetup
  /\ setup.mode = "legacy" => setup.at \notin {"flags", "market", "refresh", "cache"}
  /\ setup.about # None => setup.about = <<setup.about[1]>> /\ setup.about[1] \notin ByHand

(* What a setup has written stays as it wrote it until it ends.            *)
Progress(d) ==
  /\ setup.at \in PastPrefs => d.mode = setup.mode /\ d.mcp = setup.mcp
  /\ setup.at \in PastPrompts => d.prompts = (setup.mode = "legacy")
  /\ setup.at \in PastSkills => d.skills = (setup.mode = "legacy")
  /\ setup.at \in PastAgents => d.agents["critic"] # None
                                /\ d.agents["explorer"] = <<d.spark, "own">>
  /\ setup.at \in PastConfig => ~d.seeded /\ (setup.mode = "legacy" => d.config = "owx")
  /\ setup.at \in PastFlags /\ setup.mode = "plugin" /\ scoped => d.flag
  /\ setup.at \in PastHooks /\ UsesHooksFile => d.hooks = "full"
  /\ setup.at \in PastMarket /\ setup.mode = "plugin" =>
       /\ d.config = "owx" /\ d.market = "here" /\ d.enabled
       /\ setup.mcp = "compat" => On(d) = McpServers
  /\ setup.at \in PastCache /\ setup.mode = "plugin" => d.cache = "current"

(* What a setup needs to make good the advice it follows.                  *)
Promised(c) == setup.at # "idle" /\ setup.about = <<c>> /\ ~setup.excused
Upgrades(d) == setup.mode = "legacy" /\ setup.yes /\ d.model = "legacy"
ModelsPromise(d) ==
  Promised("models") =>
    /\ ~Upgrades(d)
    /\ setup.at \in PastAgents => (\A r \in Roles : d.agents[r] = Generated(d, r)) /\ ~Unsupported(d)
    /\ setup.mode = "legacy" => (setup.merge => d.md.outer = None) /\ (setup.merge \/ setup.force)
    /\ setup.mode = "plugin" => setup.yes \/ Contract(d.md) \/ ~d.md.there
MdPromise(d) ==
  Promised("agents.md") /\ setup.mode = "legacy" =>
    \/ setup.merge \/ ~d.md.there
    \/ setup.force /\ (Managed(d.md) => FirstTable(d.md) = Table(d) /\ ~Upgrades(d))
McpPromise(d) ==
  Promised("mcp") /\ setup.mode = "plugin" =>
    \/ setup.mcp = "compat" \/ On(d) = {}
    \/ setup.at \notin PastMarket /\ Removes

DoctorInv ==
  /\ disk \in Disks /\ NoConfig(disk) /\ NoMd(disk) /\ scoped \in BOOLEAN /\ befallen \in 0..MaxEvents
  /\ SetupShape /\ Progress(disk)
  /\ ModelsPromise(disk) /\ MdPromise(disk) /\ McpPromise(disk)

LEMMA StepsFollow ==
  /\ After("prefs", "legacy") = "prompts" /\ After("prompts", "legacy") = "skills"
  /\ After("skills", "legacy") = "agents" /\ After("agents", "legacy") = "config"
  /\ After("config", "legacy") = "hooks" /\ After("hooks", "legacy") = "md"
  /\ After("md", "legacy") = "idle"
  /\ After("prefs", "plugin") = "prompts" /\ After("prompts", "plugin") = "skills"
  /\ After("skills", "plugin") = "agents" /\ After("agents", "plugin") = "config"
  /\ After("config", "plugin") = "flags" /\ After("flags", "plugin") = "hooks"
  /\ After("hooks", "plugin") = "market" /\ After("market", "plugin") = "refresh"
  /\ After("refresh", "plugin") = "cache" /\ After("cache", "plugin") = "md"
  /\ After("md", "plugin") = "idle"
<1>1. ASSUME NEW i \in 1..7 PROVE After(LegacySteps[i], "legacy") = LegacySteps[1 + i]
  <2>1. Len(LegacySteps) = 8 /\ \A k, j \in 1..7 : LegacySteps[k] = LegacySteps[j] => k = j
    BY DEF LegacySteps
  <2>2. (CHOOSE k \in 1..7 : LegacySteps[k] = LegacySteps[i]) = i
    BY <2>1
  <2>3. StepsOf("legacy") = LegacySteps /\ 1..(Len(LegacySteps) - 1) = 1..7
    BY <2>1 DEF StepsOf
  <2> QED BY <2>2, <2>3 DEF After
<1>2. ASSUME NEW i \in 1..11 PROVE After(PluginSteps[i], "plugin") = PluginSteps[1 + i]
  <2>1. Len(PluginSteps) = 12 /\ \A k, j \in 1..11 : PluginSteps[k] = PluginSteps[j] => k = j
    BY DEF PluginSteps
  <2>2. (CHOOSE k \in 1..11 : PluginSteps[k] = PluginSteps[i]) = i
    BY <2>1
  <2>3. StepsOf("plugin") = PluginSteps /\ 1..(Len(PluginSteps) - 1) = 1..11
    BY <2>1 DEF StepsOf
  <2> QED BY <2>2, <2>3 DEF After
<1>3. /\ After("prefs", "legacy") = "prompts" /\ After("prompts", "legacy") = "skills"
      /\ After("skills", "legacy") = "agents" /\ After("agents", "legacy") = "config"
      /\ After("config", "legacy") = "hooks" /\ After("hooks", "legacy") = "md"
      /\ After("md", "legacy") = "idle"
  BY <1>1 DEF LegacySteps
<1>4. /\ After("prefs", "plugin") = "prompts" /\ After("prompts", "plugin") = "skills"
      /\ After("skills", "plugin") = "agents" /\ After("agents", "plugin") = "config"
      /\ After("config", "plugin") = "flags" /\ After("flags", "plugin") = "hooks"
      /\ After("hooks", "plugin") = "market" /\ After("market", "plugin") = "refresh"
      /\ After("refresh", "plugin") = "cache" /\ After("cache", "plugin") = "md"
      /\ After("md", "plugin") = "idle"
  BY <1>2 DEF PluginSteps
<1> QED BY <1>3, <1>4

LEMMA Values ==
  /\ \A d \in Disks : Frontier(d) \in Models /\ Table(d) \in Tables /\ Table(d) # None
                      /\ \A r \in Roles : Generated(d, r) \in Models \X Efforts /\ Generated(d, r) # None
  /\ <<"users">> # None /\ <<"edited">> # None /\ None \in Tables
<1>1. \A d \in Disks : d.model \in {"none", "legacy", "current"} /\ d.spark \in {"luna", "own"} /\ d.effort \in Efforts
  BY DEF Disks
<1>2. ASSUME NEW d \in Disks
      PROVE  /\ Frontier(d) \in Models /\ Table(d) \in Models \X Models \X Efforts
             /\ \A r \in Roles : Generated(d, r) \in Models \X Efforts
  BY <1>1 DEF Frontier, Lane, Generated, Table, Models, Efforts
<1>3. \A x, y : <<x, y>> # None
  BY DEF None
<1>4. \A x, y, z : <<x, y, z>> # None
  BY DEF None
<1>5. <<"users">> # None /\ <<"edited">> # None
  BY DEF None
<1> QED BY <1>2, <1>3, <1>4, <1>5 DEF Tables, Generated, Table


(* What a write leaves alone.                                              *)
Fields == DOMAIN Bare
Spares(d, e, F) == \A f \in Fields \ F : e[f] = d[f]

LEMMA FieldsAre ==
  Fields = {"mode", "mcp", "config", "model", "seeded", "flag", "hooks", "market", "enabled",
            "cache", "mcps", "direct", "agents", "effort", "spark", "prompts", "skills", "md",
            "explore", "lore", "env", "triage", "host", "roots", "mirrors"}
  BY DEF Fields, Bare

LEMMA DiskFields == \A d \in Disks : DOMAIN d = Fields
  BY FieldsAre DEF Disks

LEMMA KeptFields ==
  ASSUME NEW d, NEW e, NEW F, Spares(d, e, F)
  PROVE  /\ "mode" \notin F => e.mode = d.mode
         /\ "mcp" \notin F => e.mcp = d.mcp
         /\ "config" \notin F => e.config = d.config
         /\ "model" \notin F => e.model = d.model
         /\ "seeded" \notin F => e.seeded = d.seeded
         /\ "flag" \notin F => e.flag = d.flag
         /\ "hooks" \notin F => e.hooks = d.hooks
         /\ "market" \notin F => e.market = d.market
         /\ "enabled" \notin F => e.enabled = d.enabled
         /\ "cache" \notin F => e.cache = d.cache
         /\ "mcps" \notin F => e.mcps = d.mcps
         /\ "direct" \notin F => e.direct = d.direct
         /\ "agents" \notin F => e.agents = d.agents
         /\ "effort" \notin F => e.effort = d.effort
         /\ "spark" \notin F => e.spark = d.spark
         /\ "prompts" \notin F => e.prompts = d.prompts
         /\ "skills" \notin F => e.skills = d.skills
         /\ "md" \notin F => e.md = d.md
         /\ "explore" \notin F => e.explore = d.explore
         /\ "lore" \notin F => e.lore = d.lore
         /\ "env" \notin F => e.env = d.env
         /\ "triage" \notin F => e.triage = d.triage
         /\ "host" \notin F => e.host = d.host
         /\ "roots" \notin F => e.roots = d.roots
         /\ "mirrors" \notin F => e.mirrors = d.mirrors
  BY FieldsAre DEF Spares

LEMMA SameModels ==
  ASSUME NEW d, NEW e, e.model = d.model, e.spark = d.spark, e.effort = d.effort
  PROVE  /\ \A r \in Roles : Generated(e, r) = Generated(d, r)
         /\ Table(e) = Table(d) /\ Unsupported(e) = Unsupported(d)
         /\ Upgrades(e) = Upgrades(d)
  BY DEF Generated, Table, Unsupported, Upgrades, Frontier, Lane

LEMMA SameServers == ASSUME NEW d, NEW e, e.mcps = d.mcps PROVE On(e) = On(d)
  BY DEF On

(* A setup that goes on to its next step.                                  *)
GoesOn(x) ==
  /\ SetupShape' /\ setup'.at = x
  /\ setup'.mode = setup.mode /\ setup'.mcp = setup.mcp /\ setup'.force = setup.force
  /\ setup'.merge = setup.merge /\ setup'.yes = setup.yes
  /\ UsesHooksFile' = UsesHooksFile /\ Removes' = Removes /\ scoped' = scoped
  /\ \A c : Promised(c)' = Promised(c)
  /\ \A d : Upgrades(d)' = Upgrades(d)

LEMMA SetupMoves ==
  ASSUME SetupShape, setup.at # "idle", UNCHANGED scoped, NEW x \in {"prefs"} \cup PastPrefs,
         setup' = [setup EXCEPT !.at = x],
         setup.mode = "legacy" => x \notin {"flags", "market", "refresh", "cache"}
  PROVE  GoesOn(x)
<1>1. /\ setup'.at = x /\ DOMAIN setup' = DOMAIN setup
      /\ setup'.mode = setup.mode /\ setup'.mcp = setup.mcp /\ setup'.force = setup.force
      /\ setup'.merge = setup.merge /\ setup'.yes = setup.yes /\ setup'.offered = setup.offered
      /\ setup'.about = setup.about /\ setup'.excused = setup.excused
  BY DEF SetupShape, NoSetup
<1>2. SetupShape'
  BY <1>1 DEF SetupShape
<1>3. UsesHooksFile' = UsesHooksFile /\ Removes' = Removes /\ x # "idle"
  BY <1>1 DEF UsesHooksFile, Removes, PastPrefs, PastPrompts, PastSkills, PastAgents, PastConfig,
     PastFlags, PastHooks, PastMarket
<1>4. \A d : (Upgrades(d)') = Upgrades(d)
  BY <1>1 DEF Upgrades
<1>5. \A c : Promised(c)' = Promised(c)
  BY <1>1, <1>3 DEF Promised
<1> QED BY <1>1, <1>2, <1>3, <1>4, <1>5 DEF GoesOn

(* A disk is one as long as what is written belongs there.                 *)
LEMMA DiskWritten ==
  ASSUME NEW d \in Disks, NEW e, NEW F, e = [f \in Fields |-> e[f]], Spares(d, e, F),
         "mode" \in F => e.mode \in {"none", "legacy", "plugin"},
         "mcp" \in F => e.mcp \in {"none", "compat"},
         "config" \in F => e.config \in {"absent", "bare", "owx"},
         "model" \in F => e.model \in {"none", "legacy", "current"},
         "seeded" \in F => e.seeded \in BOOLEAN,
         "flag" \in F => e.flag \in BOOLEAN,
         "hooks" \in F => e.hooks \in {"absent", "partial", "unreadable", "foreign", "full"},
         "market" \in F => e.market \in {"none", "here", "elsewhere"},
         "enabled" \in F => e.enabled \in BOOLEAN,
         "cache" \in F => e.cache \in {"none", "stale", "current"},
         "mcps" \in F => e.mcps \in [McpServers -> {"unset", "on", "off"}],
         "direct" \in F => e.direct \in BOOLEAN,
         "agents" \in F => e.agents \in [Roles -> {None, <<"users">>} \cup Models \X Efforts],
         "effort" \in F => e.effort \in Efforts,
         "spark" \in F => e.spark \in {"luna", "own"},
         "prompts" \in F => e.prompts \in BOOLEAN,
         "skills" \in F => e.skills \in BOOLEAN,
         "md" \in F => e.md \in Mds,
         "explore" \in F => e.explore \in {"unset", "off", "on"},
         "lore" \in F => e.lore \in {"unset", "bad"},
         "env" \in F => e.env \in {"unset", "on"},
         "triage" \in F => e.triage \in {"fine", "bad"},
         "host" \in F => e.host \in {"fine", "lacking", "broken dist"},
         "roots" \in F => e.roots \in {"apart", "overlap"},
         "mirrors" \in F => e.mirrors \in 0..1
  PROVE  e \in Disks
<1>0. \A f \in Fields : f \notin F => e[f] = d[f]
  BY DEF Spares
<1>1. /\ d.mode \in {"none", "legacy", "plugin"} /\ d.mcp \in {"none", "compat"}
      /\ d.config \in {"absent", "bare", "owx"} /\ d.model \in {"none", "legacy", "current"}
      /\ d.seeded \in BOOLEAN /\ d.flag \in BOOLEAN
      /\ d.hooks \in {"absent", "partial", "unreadable", "foreign", "full"}
      /\ d.market \in {"none", "here", "elsewhere"}
  BY DEF Disks
<1>2. /\ d.enabled \in BOOLEAN /\ d.cache \in {"none", "stale", "current"}
      /\ d.mcps \in [McpServers -> {"unset", "on", "off"}] /\ d.direct \in BOOLEAN
      /\ d.agents \in [Roles -> {None, <<"users">>} \cup Models \X Efforts]
      /\ d.effort \in Efforts /\ d.spark \in {"luna", "own"} /\ d.prompts \in BOOLEAN
  BY DEF Disks
<1>3. /\ d.skills \in BOOLEAN /\ d.md \in Mds /\ d.explore \in {"unset", "off", "on"}
      /\ d.lore \in {"unset", "bad"} /\ d.env \in {"unset", "on"}
      /\ d.triage \in {"fine", "bad"} /\ d.host \in {"fine", "lacking", "broken dist"}
      /\ d.roots \in {"apart", "overlap"} /\ d.mirrors \in 0..1
  BY DEF Disks
<1>4. /\ e.mode \in {"none", "legacy", "plugin"} /\ e.mcp \in {"none", "compat"}
      /\ e.config \in {"absent", "bare", "owx"} /\ e.model \in {"none", "legacy", "current"}
      /\ e.seeded \in BOOLEAN /\ e.flag \in BOOLEAN
      /\ e.hooks \in {"absent", "partial", "unreadable", "foreign", "full"}
      /\ e.market \in {"none", "here", "elsewhere"}
  BY <1>0, <1>1, FieldsAre
<1>5. /\ e.enabled \in BOOLEAN /\ e.cache \in {"none", "stale", "current"}
      /\ e.mcps \in [McpServers -> {"unset", "on", "off"}] /\ e.direct \in BOOLEAN
      /\ e.agents \in [Roles -> {None, <<"users">>} \cup Models \X Efforts]
      /\ e.effort \in Efforts /\ e.spark \in {"luna", "own"} /\ e.prompts \in BOOLEAN
  BY <1>0, <1>2, FieldsAre
<1>6. /\ e.skills \in BOOLEAN /\ e.md \in Mds /\ e.explore \in {"unset", "off", "on"}
      /\ e.lore \in {"unset", "bad"} /\ e.env \in {"unset", "on"}
      /\ e.triage \in {"fine", "bad"} /\ e.host \in {"fine", "lacking", "broken dist"}
      /\ e.roots \in {"apart", "overlap"} /\ e.mirrors \in 0..1
  BY <1>0, <1>3, FieldsAre
<1> QED BY <1>4, <1>5, <1>6, FieldsAre DEF Disks

LEMMA DoctorBegins == ASSUME DoctorBase PROVE DoctorInit => DoctorInv
<1> SUFFICES ASSUME DoctorInit PROVE DoctorInv
  OBVIOUS
<1>1. Bare \in Disks
  <2>1. /\ [s \in McpServers |-> "unset"] \in [McpServers -> {"unset", "on", "off"}]
        /\ [r \in Roles |-> None] \in [Roles -> {None, <<"users">>} \cup Models \X Efforts]
    OBVIOUS
  <2>2. [there |-> FALSE, ours |-> FALSE, outer |-> None, block |-> None] \in Mds
    BY Values DEF Mds
  <2> HIDE DEF None
  <2> QED BY <2>1, <2>2 DEF Bare, Disks, Efforts
<1>2. disk \in Disks /\ disk.md = Bare.md /\ disk.config = "absent"
  <2>1. PICK mode \in {"none", "plugin"} : disk = [Bare EXCEPT !.mode = mode]
    BY DEF DoctorInit
  <2>2. disk = [f \in Fields |-> disk[f]] /\ Spares(Bare, disk, {"mode"}) /\ disk.mode = mode
    BY <2>1, FieldsAre DEF Fields, Spares, Bare
  <2>3. disk \in Disks
    BY <1>1, <2>2, DiskWritten
  <2>4. disk.md = Bare.md /\ disk.config = Bare.config
    BY <2>2, KeptFields
  <2> QED BY <2>3, <2>4 DEF Bare
<1>3. NoConfig(disk)
  BY DEF DoctorInit, Bare, NoConfig
<1>4. setup.at = "idle" /\ SetupShape /\ scoped \in BOOLEAN /\ befallen \in 0..MaxEvents
  BY DEF DoctorInit, NoSetup, SetupShape, DoctorBase
<1> QED BY <1>2, <1>3, <1>4 DEF DoctorInv, NoMd, Bare, Progress, Promised, ModelsPromise, MdPromise, McpPromise,
     PastPrefs, PastPrompts, PastSkills, PastAgents, PastConfig, PastFlags, PastHooks, PastMarket, PastCache

(* The first three steps and the agents.                                   *)
LEMMA PrefsWritten ==
  ASSUME DoctorInv, setup.at = "prefs", disk' = Prefs(disk), setup' = [setup EXCEPT !.at = "prompts"],
         UNCHANGED <<scoped, befallen>>
  PROVE  DoctorInv'
<1> USE DEF DoctorInv
<1>2. Spares(disk, disk', {"mode", "mcp"})
  BY DiskFields DEF Spares, Prefs
<1>3. disk'.mode = setup.mode /\ disk'.mcp = setup.mcp
  BY DiskFields, FieldsAre DEF Prefs
<1>1. disk' \in Disks
  BY <1>2, <1>3, DiskFields, DiskWritten DEF Prefs, SetupShape
<1>4. GoesOn("prompts")
  BY SetupMoves DEF PastPrefs
<1> USE DEF PastPrefs, PastPrompts, PastSkills, PastAgents, PastConfig, PastFlags, PastHooks, PastMarket, PastCache
<1>5. NoConfig(disk') /\ NoMd(disk')
  BY <1>2, KeptFields DEF NoConfig, NoMd
<1>6. Progress(disk)'
  BY <1>3, <1>4 DEF Progress, GoesOn
<1>7. ModelsPromise(disk)'
  BY <1>2, <1>4, KeptFields, SameModels DEF ModelsPromise, GoesOn
<1>8. MdPromise(disk)'
  BY <1>2, <1>4, KeptFields, SameModels DEF MdPromise, GoesOn
<1>9. McpPromise(disk)'
  BY <1>2, <1>4, KeptFields, SameServers DEF McpPromise, GoesOn
<1> QED BY <1>1, <1>4, <1>5, <1>6, <1>7, <1>8, <1>9 DEF GoesOn
LEMMA PromptsWritten ==
  ASSUME DoctorInv, setup.at = "prompts", disk' = Prompts(disk),
         setup' = [setup EXCEPT !.at = "skills"], UNCHANGED <<scoped, befallen>>
  PROVE  DoctorInv'
<1> USE DEF DoctorInv
<1>1. Spares(disk, disk', {"prompts"})
  BY DiskFields DEF Spares, Prompts
<1>2. disk \in Disks /\ DOMAIN disk = Fields
  BY DiskFields
<1>3. disk'.prompts = (setup.mode = "legacy")
  BY <1>2, FieldsAre DEF Prompts
<1>4. disk' \in Disks
  <2>1. disk' = [f \in Fields |-> disk'[f]]
    BY <1>2 DEF Prompts
  <2> QED BY <1>1, <1>2, <1>3, <2>1, FieldsAre, DiskWritten DEF SetupShape
<1>5. GoesOn("skills")
  BY SetupMoves DEF PastPrefs, PastPrompts, PastSkills, PastAgents, PastConfig, PastFlags,
     PastHooks, PastMarket, PastCache
<1> USE DEF PastPrefs, PastPrompts, PastSkills, PastAgents, PastConfig, PastFlags, PastHooks, PastMarket,
    PastCache
<1>6. NoConfig(disk') /\ NoMd(disk')
  BY <1>1, KeptFields DEF NoConfig, NoMd
<1>7. Progress(disk)'
  BY <1>1, <1>3, <1>5, KeptFields, SameServers DEF Progress, GoesOn
<1>8. ModelsPromise(disk)'
  BY <1>1, <1>5, KeptFields, SameModels DEF ModelsPromise, GoesOn
<1>9. MdPromise(disk)'
  BY <1>1, <1>5, KeptFields, SameModels DEF MdPromise, GoesOn
<1>10. McpPromise(disk)'
  BY <1>1, <1>5, KeptFields, SameServers DEF McpPromise, GoesOn
<1> QED BY <1>4, <1>5, <1>6, <1>7, <1>8, <1>9, <1>10 DEF GoesOn

LEMMA SkillsWritten ==
  ASSUME DoctorInv, setup.at = "skills", disk' = WriteSkills(disk),
         setup' = [setup EXCEPT !.at = "agents"], UNCHANGED <<scoped, befallen>>
  PROVE  DoctorInv'
<1> USE DEF DoctorInv
<1>1. Spares(disk, disk', {"skills"})
  BY DiskFields DEF Spares, WriteSkills
<1>2. disk \in Disks /\ DOMAIN disk = Fields
  BY DiskFields
<1>3. disk'.skills = (setup.mode = "legacy")
  BY <1>2, FieldsAre DEF WriteSkills
<1>4. disk' \in Disks
  <2>1. disk' = [f \in Fields |-> disk'[f]]
    BY <1>2 DEF WriteSkills
  <2> QED BY <1>1, <1>2, <1>3, <2>1, FieldsAre, DiskWritten DEF SetupShape
<1>5. GoesOn("agents")
  BY SetupMoves DEF PastPrefs, PastPrompts, PastSkills, PastAgents, PastConfig, PastFlags,
     PastHooks, PastMarket, PastCache
<1> USE DEF PastPrefs, PastPrompts, PastSkills, PastAgents, PastConfig, PastFlags, PastHooks, PastMarket,
    PastCache
<1>6. NoConfig(disk') /\ NoMd(disk')
  BY <1>1, KeptFields DEF NoConfig, NoMd
<1>7. Progress(disk)'
  BY <1>1, <1>3, <1>5, KeptFields, SameServers DEF Progress, GoesOn
<1>8. ModelsPromise(disk)'
  BY <1>1, <1>5, KeptFields, SameModels DEF ModelsPromise, GoesOn
<1>9. MdPromise(disk)'
  BY <1>1, <1>5, KeptFields, SameModels DEF MdPromise, GoesOn
<1>10. McpPromise(disk)'
  BY <1>1, <1>5, KeptFields, SameServers DEF McpPromise, GoesOn
<1> QED BY <1>4, <1>5, <1>6, <1>7, <1>8, <1>9, <1>10 DEF GoesOn

LEMMA AgentsWritten ==
  ASSUME DoctorInv, setup.at = "agents",
         ~Unsupported(disk), disk' = Agents(disk),
         setup' = [setup EXCEPT !.at = "config"], UNCHANGED <<scoped, befallen>>
  PROVE  DoctorInv'
<1> USE DEF DoctorInv
<1>1. Spares(disk, disk', {"agents"})
  BY DiskFields DEF Spares, Agents
<1>2. disk \in Disks /\ DOMAIN disk = Fields
  BY DiskFields
<1>3. /\ disk'.agents = [r \in Roles |-> Generated(disk, r)]
      /\ disk'.agents \in [Roles -> {None, <<"users">>} \cup Models \X Efforts]
      /\ disk'.agents["critic"] # None /\ disk'.agents["explorer"] = <<disk.spark, "own">>
  <2>1. disk'.agents = [r \in Roles |-> Generated(disk, r)]
    BY <1>2, FieldsAre DEF Agents
  <2>2. "critic" \in Roles /\ "explorer" \in Roles
    BY DEF Roles
  <2>3. Generated(disk, "explorer") = <<disk.spark, "own">>
    BY DEF Generated, Lane
  <2> QED BY <1>2, <2>1, <2>2, <2>3, Values
<1>4. disk' \in Disks
  <2>1. disk' = [f \in Fields |-> disk'[f]]
    BY <1>2 DEF Agents
  <2> QED BY <1>1, <1>2, <1>3, <2>1, FieldsAre, DiskWritten DEF SetupShape
<1>5. GoesOn("config")
  BY SetupMoves DEF PastPrefs, PastPrompts, PastSkills, PastAgents, PastConfig, PastFlags,
     PastHooks, PastMarket, PastCache
<1> USE DEF PastPrefs, PastPrompts, PastSkills, PastAgents, PastConfig, PastFlags, PastHooks, PastMarket,
    PastCache
<1>6. NoConfig(disk') /\ NoMd(disk')
  BY <1>1, KeptFields DEF NoConfig, NoMd
<1>7. Progress(disk)'
  BY <1>1, <1>3, <1>5, KeptFields, SameServers DEF Progress, GoesOn
<1>8. ModelsPromise(disk)'
  <2>1. \A r \in Roles : disk'.agents[r] = Generated(disk, r)
    BY <1>3
  <2> QED BY <1>1, <1>5, <2>1, KeptFields, SameModels DEF ModelsPromise, GoesOn
<1>9. MdPromise(disk)'
  BY <1>1, <1>5, KeptFields, SameModels DEF MdPromise, GoesOn
<1>10. McpPromise(disk)'
  BY <1>1, <1>5, KeptFields, SameServers DEF McpPromise, GoesOn
<1> QED BY <1>4, <1>5, <1>6, <1>7, <1>8, <1>9, <1>10 DEF GoesOn

(* updateManagedConfig.                                                    *)
LEMMA LegacyConfigWritten ==
  ASSUME DoctorInv, setup.at = "config",
         setup.mode = "legacy", disk' = LegacyConfig(disk),
         setup' = [setup EXCEPT !.at = "hooks"], UNCHANGED <<scoped, befallen>>
  PROVE  DoctorInv'
<1> USE DEF DoctorInv
<1>1. Spares(disk, disk', {"config", "seeded", "model", "direct", "explore"})
  BY DiskFields DEF Spares, LegacyConfig
<1>2. disk \in Disks /\ DOMAIN disk = Fields
  BY DiskFields
<1>3. /\ disk'.config = "owx" /\ disk'.seeded = FALSE
      /\ disk'.model = IF setup.yes /\ disk.model = "legacy" THEN "current" ELSE disk.model
      /\ disk'.direct \in BOOLEAN
      /\ disk'.explore = IF disk.explore = "unset" THEN "off" ELSE disk.explore
      /\ disk'.model \in {"none", "legacy", "current"} /\ disk'.explore \in {"unset", "off", "on"}
  <2>1. /\ disk.direct \in BOOLEAN /\ disk.model \in {"none", "legacy", "current"}
        /\ disk.explore \in {"unset", "off", "on"}
    BY <1>2 DEF Disks
  <2> QED BY <1>2, <2>1, FieldsAre DEF LegacyConfig, Preserves, SetupShape
<1>4. disk' \in Disks
  <2>1. disk' = [f \in Fields |-> disk'[f]]
    BY <1>2 DEF LegacyConfig
  <2> QED BY <1>1, <1>2, <1>3, <2>1, FieldsAre, DiskWritten DEF SetupShape
<1>5. GoesOn("hooks")
  BY SetupMoves DEF PastPrefs, PastPrompts, PastSkills, PastAgents, PastConfig, PastFlags,
     PastHooks, PastMarket, PastCache
<1> USE DEF PastPrefs, PastPrompts, PastSkills, PastAgents, PastConfig, PastFlags, PastHooks, PastMarket,
    PastCache
<1>6. NoConfig(disk') /\ NoMd(disk')
  BY <1>1, <1>3, KeptFields DEF NoConfig, NoMd
<1>7. Progress(disk)'
  BY <1>1, <1>3, <1>5, KeptFields, SameServers DEF Progress, GoesOn
<1>8. ModelsPromise(disk)'
  <2> SUFFICES ASSUME Promised("models") PROVE ModelsPromise(disk)'
    BY <1>5 DEF ModelsPromise, GoesOn
  <2>1. disk'.model = disk.model
    BY <1>3 DEF ModelsPromise, Upgrades
  <2> QED BY <1>1, <1>5, <2>1, KeptFields, SameModels DEF ModelsPromise, GoesOn
<1>9. MdPromise(disk)'
  <2> SUFFICES ASSUME Promised("agents.md"), ~setup.merge, disk.md.there
               PROVE  setup.force /\ (Managed(disk.md) => FirstTable(disk.md) = Table(disk') /\ ~Upgrades(disk'))
    BY <1>1, <1>5, KeptFields DEF MdPromise, GoesOn
  <2>1. ~Upgrades(disk) => disk'.model = disk.model
    BY <1>3 DEF Upgrades
  <2> QED BY <1>1, <2>1, KeptFields, SameModels DEF MdPromise
<1>10. McpPromise(disk)'
  BY <1>1, <1>5, KeptFields, SameServers DEF McpPromise, GoesOn
<1> QED BY <1>4, <1>5, <1>6, <1>7, <1>8, <1>9, <1>10 DEF GoesOn

(* cleanupPluginModeLegacyConfig.                                          *)
LEMMA PluginConfigWritten ==
  ASSUME DoctorInv, setup.at = "config",
         setup.mode = "plugin", disk' = PluginConfig(disk),
         setup' = [setup EXCEPT !.at = "flags"], UNCHANGED <<scoped, befallen>>
  PROVE  DoctorInv'
<1> USE DEF DoctorInv
<1>1. Spares(disk, disk', {"config", "seeded", "explore", "direct"})
  BY DiskFields DEF Spares, PluginConfig, Cleaned
<1>2. disk \in Disks /\ DOMAIN disk = Fields
  BY DiskFields
<1>3. /\ disk'.config \in {"absent", "bare", "owx"} /\ disk'.seeded = FALSE
      /\ disk'.explore = "unset" /\ disk'.direct \in BOOLEAN
      /\ disk'.config = "absent" =>
           \/ disk.config = "absent" /\ ~disk'.direct
           \/ /\ disk.market = "none" /\ ~disk.enabled /\ ~disk'.direct
              /\ \A s \in McpServers : disk.mcps[s] = "unset"
              /\ disk.model = "none" /\ ~disk.flag /\ disk.lore = "unset"
  <2>1. disk.direct \in BOOLEAN /\ disk.config \in {"absent", "bare", "owx"}
    BY <1>2 DEF Disks
  <2>2. /\ Cleaned(disk).seeded = FALSE /\ Cleaned(disk).explore = "unset"
        /\ Cleaned(disk).direct = (disk.direct /\ Preserves)
        /\ Cleaned(disk).market = disk.market /\ Cleaned(disk).enabled = disk.enabled
        /\ Cleaned(disk).mcps = disk.mcps /\ Cleaned(disk).model = disk.model
        /\ Cleaned(disk).flag = disk.flag /\ Cleaned(disk).lore = disk.lore
        /\ Cleaned(disk).config = disk.config
        /\ DOMAIN Cleaned(disk) = Fields
    BY <1>2, FieldsAre DEF Cleaned
  <2>3. /\ disk'.seeded = FALSE /\ disk'.explore = "unset"
        /\ disk'.direct = (disk.direct /\ Preserves)
        /\ disk'.config = IF disk.config = "absent" THEN "absent"
                          ELSE IF HoldsOwx(Cleaned(disk)) THEN "owx"
                          ELSE IF disk.model # "none" \/ disk.flag \/ disk.lore # "unset" THEN "bare"
                          ELSE "absent"
    BY <2>2, FieldsAre DEF PluginConfig
  <2>4. disk.config = "absent" => ~disk.direct
    BY DEF NoConfig
  <2>5. disk'.direct \in BOOLEAN
    BY <2>1, <2>3 DEF Preserves, SetupShape
  <2>6. ~HoldsOwx(Cleaned(disk)) => /\ disk.market = "none" /\ ~disk.enabled /\ ~disk'.direct
                                    /\ \A s \in McpServers : disk.mcps[s] = "unset"
    BY <2>2, <2>3 DEF HoldsOwx
  <2> QED BY <2>1, <2>3, <2>4, <2>5, <2>6
<1>4. disk' \in Disks
  <2>1. disk' = [f \in Fields |-> disk'[f]]
    BY <1>2 DEF PluginConfig, Cleaned
  <2> QED BY <1>1, <1>2, <1>3, <2>1, FieldsAre, DiskWritten DEF SetupShape
<1>5. GoesOn("flags")
  BY SetupMoves DEF PastPrefs, PastPrompts, PastSkills, PastAgents, PastConfig, PastFlags,
     PastHooks, PastMarket, PastCache
<1> USE DEF PastPrefs, PastPrompts, PastSkills, PastAgents, PastConfig, PastFlags, PastHooks, PastMarket,
    PastCache
<1>6. NoConfig(disk') /\ NoMd(disk')
  <2>1. disk.mcps \in [McpServers -> {"unset", "on", "off"}]
    BY <1>2 DEF Disks
  <2>2. (\A s \in McpServers : disk.mcps[s] = "unset") => disk.mcps = [s \in McpServers |-> "unset"]
    BY <2>1
  <2> QED BY <1>1, <1>3, <2>2, KeptFields DEF NoConfig, NoMd
<1>7. Progress(disk)'
  BY <1>1, <1>3, <1>5, KeptFields, SameServers DEF Progress, GoesOn
<1>8. ModelsPromise(disk)'
  BY <1>1, <1>5, KeptFields, SameModels DEF ModelsPromise, GoesOn
<1>9. MdPromise(disk)'
  BY <1>1, <1>5, KeptFields, SameModels DEF MdPromise, GoesOn
<1>10. McpPromise(disk)'
  BY <1>1, <1>5, KeptFields, SameServers DEF McpPromise, GoesOn
<1> QED BY <1>4, <1>5, <1>6, <1>7, <1>8, <1>9, <1>10 DEF GoesOn

(* applyPluginModeHooksConfig.                                             *)
LEMMA FlagsWritten ==
  ASSUME DoctorInv, setup.at = "flags", disk' = Flags(disk),
         setup' = [setup EXCEPT !.at = "hooks"], UNCHANGED <<scoped, befallen>>
  PROVE  DoctorInv'
<1> USE DEF DoctorInv
<1>1. Spares(disk, disk', {"flag", "config"})
  BY DiskFields DEF Spares, Flags
<1>2. disk \in Disks /\ DOMAIN disk = Fields
  BY DiskFields
<1>3. /\ disk'.flag = (disk.flag \/ scoped) /\ disk'.flag \in BOOLEAN
      /\ disk'.config \in {"bare", "owx"} /\ setup.mode = "plugin"
  <2>1. disk.flag \in BOOLEAN /\ disk.config \in {"absent", "bare", "owx"}
    BY <1>2 DEF Disks
  <2> QED BY <1>2, <2>1, FieldsAre DEF Flags, SetupShape
<1>4. disk' \in Disks
  <2>1. disk' = [f \in Fields |-> disk'[f]]
    BY <1>2 DEF Flags
  <2> QED BY <1>1, <1>2, <1>3, <2>1, FieldsAre, DiskWritten DEF SetupShape
<1>5. GoesOn("hooks")
  BY SetupMoves DEF PastPrefs, PastPrompts, PastSkills, PastAgents, PastConfig, PastFlags,
     PastHooks, PastMarket, PastCache
<1> USE DEF PastPrefs, PastPrompts, PastSkills, PastAgents, PastConfig, PastFlags, PastHooks, PastMarket,
    PastCache
<1>6. NoConfig(disk') /\ NoMd(disk')
  BY <1>1, <1>3, KeptFields DEF NoConfig, NoMd
<1>7. Progress(disk)'
  BY <1>1, <1>3, <1>5, KeptFields, SameServers DEF Progress, GoesOn
<1>8. ModelsPromise(disk)'
  BY <1>1, <1>5, KeptFields, SameModels DEF ModelsPromise, GoesOn
<1>9. MdPromise(disk)'
  BY <1>1, <1>5, KeptFields, SameModels DEF MdPromise, GoesOn
<1>10. McpPromise(disk)'
  BY <1>1, <1>5, KeptFields, SameServers DEF McpPromise, GoesOn
<1> QED BY <1>4, <1>5, <1>6, <1>7, <1>8, <1>9, <1>10 DEF GoesOn

(* hooks.json.                                                             *)
LEMMA LegacyHooksWritten ==
  ASSUME DoctorInv, setup.at = "hooks",
         setup.mode = "legacy", disk' = HooksFile(disk),
         setup' = [setup EXCEPT !.at = "md"], UNCHANGED <<scoped, befallen>>
  PROVE  DoctorInv'
<1> USE DEF DoctorInv
<1>1. Spares(disk, disk', {"hooks"})
  BY DiskFields DEF Spares, HooksFile
<1>2. disk \in Disks /\ DOMAIN disk = Fields
  BY DiskFields
<1>3. /\ disk'.hooks \in {"absent", "partial", "unreadable", "foreign", "full"}
      /\ UsesHooksFile => disk'.hooks = "full"
  <2>1. disk.hooks \in {"absent", "partial", "unreadable", "foreign", "full"}
    BY <1>2 DEF Disks
  <2> QED BY <1>2, <2>1, FieldsAre DEF HooksFile
<1>4. disk' \in Disks
  <2>1. disk' = [f \in Fields |-> disk'[f]]
    BY <1>2 DEF HooksFile
  <2> QED BY <1>1, <1>2, <1>3, <2>1, FieldsAre, DiskWritten DEF SetupShape
<1>5. GoesOn("md")
  BY SetupMoves DEF PastPrefs, PastPrompts, PastSkills, PastAgents, PastConfig, PastFlags,
     PastHooks, PastMarket, PastCache
<1> USE DEF PastPrefs, PastPrompts, PastSkills, PastAgents, PastConfig, PastFlags, PastHooks, PastMarket,
    PastCache
<1>6. NoConfig(disk') /\ NoMd(disk')
  BY <1>1, KeptFields DEF NoConfig, NoMd
<1>7. Progress(disk)'
  BY <1>1, <1>3, <1>5, KeptFields, SameServers DEF Progress, GoesOn
<1>8. ModelsPromise(disk)'
  BY <1>1, <1>5, KeptFields, SameModels DEF ModelsPromise, GoesOn
<1>9. MdPromise(disk)'
  BY <1>1, <1>5, KeptFields, SameModels DEF MdPromise, GoesOn
<1>10. McpPromise(disk)'
  BY <1>1, <1>5, KeptFields, SameServers DEF McpPromise, GoesOn
<1> QED BY <1>4, <1>5, <1>6, <1>7, <1>8, <1>9, <1>10 DEF GoesOn

LEMMA PluginHooksWritten ==
  ASSUME DoctorInv, setup.at = "hooks",
         setup.mode = "plugin", disk' = HooksFile(disk),
         setup' = [setup EXCEPT !.at = "market"], UNCHANGED <<scoped, befallen>>
  PROVE  DoctorInv'
<1> USE DEF DoctorInv
<1>1. Spares(disk, disk', {"hooks"})
  BY DiskFields DEF Spares, HooksFile
<1>2. disk \in Disks /\ DOMAIN disk = Fields
  BY DiskFields
<1>3. /\ disk'.hooks \in {"absent", "partial", "unreadable", "foreign", "full"}
      /\ UsesHooksFile => disk'.hooks = "full"
  <2>1. disk.hooks \in {"absent", "partial", "unreadable", "foreign", "full"}
    BY <1>2 DEF Disks
  <2> QED BY <1>2, <2>1, FieldsAre DEF HooksFile
<1>4. disk' \in Disks
  <2>1. disk' = [f \in Fields |-> disk'[f]]
    BY <1>2 DEF HooksFile
  <2> QED BY <1>1, <1>2, <1>3, <2>1, FieldsAre, DiskWritten DEF SetupShape
<1>5. GoesOn("market")
  BY SetupMoves DEF PastPrefs, PastPrompts, PastSkills, PastAgents, PastConfig, PastFlags,
     PastHooks, PastMarket, PastCache
<1> USE DEF PastPrefs, PastPrompts, PastSkills, PastAgents, PastConfig, PastFlags, PastHooks, PastMarket,
    PastCache
<1>6. NoConfig(disk') /\ NoMd(disk')
  BY <1>1, KeptFields DEF NoConfig, NoMd
<1>7. Progress(disk)'
  BY <1>1, <1>3, <1>5, KeptFields, SameServers DEF Progress, GoesOn
<1>8. ModelsPromise(disk)'
  BY <1>1, <1>5, KeptFields, SameModels DEF ModelsPromise, GoesOn
<1>9. MdPromise(disk)'
  BY <1>1, <1>5, KeptFields, SameModels DEF MdPromise, GoesOn
<1>10. McpPromise(disk)'
  BY <1>1, <1>5, KeptFields, SameServers DEF McpPromise, GoesOn
<1> QED BY <1>4, <1>5, <1>6, <1>7, <1>8, <1>9, <1>10 DEF GoesOn

(* ensurePluginMarketplaceRegistration.                                    *)
LEMMA MarketWritten ==
  ASSUME DoctorInv, setup.at = "market",
         setup.mode = "plugin", disk' = Market(disk),
         setup' = [setup EXCEPT !.at = "refresh"], UNCHANGED <<scoped, befallen>>
  PROVE  DoctorInv'
<1> USE DEF DoctorInv
<1>1. Spares(disk, disk', {"config", "market", "enabled", "mcps"})
  BY DiskFields DEF Spares, Market
<1>2. disk \in Disks /\ DOMAIN disk = Fields
  BY DiskFields
<1>3. /\ disk'.config = "owx" /\ disk'.market = "here" /\ disk'.enabled = TRUE
      /\ disk'.mcps \in [McpServers -> {"unset", "on", "off"}]
      /\ setup.mcp = "compat" => On(disk') = McpServers
      /\ setup.mcp # "compat" /\ (Removes \/ On(disk) = {}) => On(disk') = {}
  <2>1. disk.mcps \in [McpServers -> {"unset", "on", "off"}]
    BY <1>2 DEF Disks
  <2>2. /\ disk'.config = "owx" /\ disk'.market = "here" /\ disk'.enabled = TRUE
        /\ disk'.mcps = IF setup.mcp = "compat" THEN [s \in McpServers |-> "on"]
                        ELSE IF Removes THEN [s \in McpServers |-> "unset"] ELSE disk.mcps
    BY <1>2, FieldsAre DEF Market
  <2> QED BY <2>1, <2>2 DEF On
<1>4. disk' \in Disks
  <2>1. disk' = [f \in Fields |-> disk'[f]]
    BY <1>2 DEF Market
  <2> QED BY <1>1, <1>2, <1>3, <2>1, FieldsAre, DiskWritten DEF SetupShape
<1>5. GoesOn("refresh")
  BY SetupMoves DEF PastPrefs, PastPrompts, PastSkills, PastAgents, PastConfig, PastFlags,
     PastHooks, PastMarket, PastCache
<1> USE DEF PastPrefs, PastPrompts, PastSkills, PastAgents, PastConfig, PastFlags, PastHooks, PastMarket,
    PastCache
<1>6. NoConfig(disk') /\ NoMd(disk')
  BY <1>1, <1>3, KeptFields DEF NoConfig, NoMd
<1>7. Progress(disk)'
  BY <1>1, <1>3, <1>5, KeptFields, SameServers DEF Progress, GoesOn
<1>8. ModelsPromise(disk)'
  BY <1>1, <1>5, KeptFields, SameModels DEF ModelsPromise, GoesOn
<1>9. MdPromise(disk)'
  BY <1>1, <1>5, KeptFields, SameModels DEF MdPromise, GoesOn
<1>10. McpPromise(disk)'
  BY <1>3, <1>5 DEF McpPromise, GoesOn
<1> QED BY <1>4, <1>5, <1>6, <1>7, <1>8, <1>9, <1>10 DEF GoesOn

(* The plugin cache.                                                       *)
LEMMA RefreshWritten ==
  ASSUME DoctorInv, setup.at = "refresh",
         setup.mode = "plugin", disk' = Refresh(disk),
         setup' = [setup EXCEPT !.at = "cache"], UNCHANGED <<scoped, befallen>>
  PROVE  DoctorInv'
<1> USE DEF DoctorInv
<1>1. Spares(disk, disk', {"cache"})
  BY DiskFields DEF Spares, Refresh
<1>2. disk \in Disks /\ DOMAIN disk = Fields
  BY DiskFields
<1>3. disk'.cache \in {"none", "stale", "current"}
  <2>1. disk.cache \in {"none", "stale", "current"}
    BY <1>2 DEF Disks
  <2> QED BY <1>2, <2>1, FieldsAre DEF Refresh
<1>4. disk' \in Disks
  <2>1. disk' = [f \in Fields |-> disk'[f]]
    BY <1>2 DEF Refresh
  <2> QED BY <1>1, <1>2, <1>3, <2>1, FieldsAre, DiskWritten DEF SetupShape
<1>5. GoesOn("cache")
  BY SetupMoves DEF PastPrefs, PastPrompts, PastSkills, PastAgents, PastConfig, PastFlags,
     PastHooks, PastMarket, PastCache
<1> USE DEF PastPrefs, PastPrompts, PastSkills, PastAgents, PastConfig, PastFlags, PastHooks, PastMarket,
    PastCache
<1>6. NoConfig(disk') /\ NoMd(disk')
  BY <1>1, KeptFields DEF NoConfig, NoMd
<1>7. Progress(disk)'
  BY <1>1, <1>3, <1>5, KeptFields, SameServers DEF Progress, GoesOn
<1>8. ModelsPromise(disk)'
  BY <1>1, <1>5, KeptFields, SameModels DEF ModelsPromise, GoesOn
<1>9. MdPromise(disk)'
  BY <1>1, <1>5, KeptFields, SameModels DEF MdPromise, GoesOn
<1>10. McpPromise(disk)'
  BY <1>1, <1>5, KeptFields, SameServers DEF McpPromise, GoesOn
<1> QED BY <1>4, <1>5, <1>6, <1>7, <1>8, <1>9, <1>10 DEF GoesOn

LEMMA CacheWritten ==
  ASSUME DoctorInv, setup.at = "cache",
         setup.mode = "plugin", disk' = Cache(disk),
         setup' = [setup EXCEPT !.at = "md"], UNCHANGED <<scoped, befallen>>
  PROVE  DoctorInv'
<1> USE DEF DoctorInv
<1>1. Spares(disk, disk', {"cache"})
  BY DiskFields DEF Spares, Cache
<1>2. disk \in Disks /\ DOMAIN disk = Fields
  BY DiskFields
<1>3. disk'.cache = "current"
  BY <1>2, FieldsAre DEF Cache
<1>4. disk' \in Disks
  <2>1. disk' = [f \in Fields |-> disk'[f]]
    BY <1>2 DEF Cache
  <2> QED BY <1>1, <1>2, <1>3, <2>1, FieldsAre, DiskWritten DEF SetupShape
<1>5. GoesOn("md")
  BY SetupMoves DEF PastPrefs, PastPrompts, PastSkills, PastAgents, PastConfig, PastFlags,
     PastHooks, PastMarket, PastCache
<1> USE DEF PastPrefs, PastPrompts, PastSkills, PastAgents, PastConfig, PastFlags, PastHooks, PastMarket,
    PastCache
<1>6. NoConfig(disk') /\ NoMd(disk')
  BY <1>1, KeptFields DEF NoConfig, NoMd
<1>7. Progress(disk)'
  BY <1>1, <1>3, <1>5, KeptFields, SameServers DEF Progress, GoesOn
<1>8. ModelsPromise(disk)'
  BY <1>1, <1>5, KeptFields, SameModels DEF ModelsPromise, GoesOn
<1>9. MdPromise(disk)'
  BY <1>1, <1>5, KeptFields, SameModels DEF MdPromise, GoesOn
<1>10. McpPromise(disk)'
  BY <1>1, <1>5, KeptFields, SameServers DEF McpPromise, GoesOn
<1> QED BY <1>4, <1>5, <1>6, <1>7, <1>8, <1>9, <1>10 DEF GoesOn

(* Where no setup is at work, the installation is all there is.            *)
LEMMA Rests ==
  ASSUME setup'.at = "idle", SetupShape', disk' \in Disks, NoConfig(disk'), NoMd(disk'),
         scoped' \in BOOLEAN, befallen' \in 0..MaxEvents
  PROVE  DoctorInv'
  BY DEF DoctorInv, Progress, Promised, ModelsPromise, MdPromise, McpPromise, PastPrefs,
     PastPrompts, PastSkills, PastAgents, PastConfig, PastFlags, PastHooks, PastMarket, PastCache

LEMMA SetupGone == setup' = NoSetup => setup'.at = "idle" /\ SetupShape'
  BY DEF SetupShape, NoSetup

(* Step 6: AGENTS.md.                                                      *)
LEMMA MdFields ==
  ASSUME NEW m \in Mds, NEW t \in Tables
  PROVE  /\ m.there \in BOOLEAN /\ m.ours \in BOOLEAN /\ m.outer \in Tables /\ m.block \in Tables
         /\ [m EXCEPT !.block = t] \in Mds
         /\ [m EXCEPT !.block = t].block = t /\ [m EXCEPT !.block = t].outer = m.outer
         /\ [m EXCEPT !.block = t].there = m.there /\ [m EXCEPT !.block = t].ours = m.ours
         /\ [m EXCEPT !.outer = t] \in Mds
         /\ [m EXCEPT !.outer = t].outer = t /\ [m EXCEPT !.outer = t].block = m.block
         /\ [m EXCEPT !.outer = t].there = m.there /\ [m EXCEPT !.outer = t].ours = m.ours
<1> HIDE DEF Tables
<1> QED BY DEF Mds

LEMMA WholeIs ==
  ASSUME NEW d \in Disks
  PROVE  /\ Whole(d) \in Mds /\ Whole(d).there /\ Contract(Whole(d)) /\ FirstTable(Whole(d)) = Table(d)
<1>1. Table(d) \in Tables /\ Table(d) # None /\ None \in Tables
  BY Values
<1>2. /\ Whole(d).there = TRUE /\ Whole(d).ours = TRUE /\ Whole(d).outer = Table(d)
      /\ Whole(d).block = None
  BY DEF Whole
<1>3. Whole(d) \in Mds
  BY <1>1 DEF Whole, Mds
<1> QED BY <1>1, <1>2, <1>3 DEF Contract, FirstTable

(* What a legacy setup makes of AGENTS.md: its table is the present one    *)
(* where there is one, and it is a whole one unless a text of the user's   *)
(* was neither forced nor merged into.                                     *)
LEMMA LegacyMdIs ==
  ASSUME NEW d \in Disks, NoMd(d), setup.force \in BOOLEAN, setup.yes \in BOOLEAN, setup.merge \in BOOLEAN
  PROVE  /\ LegacyMd(d) \in Mds /\ LegacyMd(d).there
         /\ (setup.merge => d.md.outer = None) /\ (setup.merge \/ setup.force)
              => FirstTable(LegacyMd(d)) = Table(d)
         /\ (\/ setup.merge \/ ~d.md.there
             \/ setup.force /\ (Managed(d.md) => FirstTable(d.md) = Table(d)))
              => Contract(LegacyMd(d))
<1>1. Table(d) \in Tables /\ Table(d) # None /\ d.md \in Mds
  BY Values DEF Disks
<1>2. CASE ~d.md.there
  BY <1>2, WholeIs DEF LegacyMd
<1>3. CASE d.md.there /\ setup.merge
  <2>1. LegacyMd(d) = [d.md EXCEPT !.block = Table(d)]
    BY <1>3 DEF LegacyMd
  <2> DEFINE m == [d.md EXCEPT !.block = Table(d)]
  <2>0. m \in Mds /\ m.outer = d.md.outer /\ m.block = Table(d)
    BY <1>1, MdFields
  <2> HIDE DEF m
  <2>2. LegacyMd(d) \in Mds /\ LegacyMd(d).outer = d.md.outer /\ LegacyMd(d).block = Table(d)
    BY <2>0, <2>1 DEF m
  <2>3. LegacyMd(d).there = d.md.there
    BY <1>1, <2>1, MdFields
  <2>4. LegacyMd(d).there
    BY <1>3, <2>3
  <2>5. Contract(LegacyMd(d))
    BY <1>1, <2>2, <2>4 DEF Contract
  <2>6. setup.merge /\ d.md.outer = None => FirstTable(LegacyMd(d)) = Table(d)
    BY <1>1, <2>2 DEF FirstTable
  <2> QED BY <1>3, <2>2, <2>4, <2>5, <2>6
<1>4. CASE d.md.there /\ ~setup.merge /\ Managed(d.md) /\ FirstTable(d.md) # Table(d)
  <2>1. LegacyMd(d) = IF d.md.outer # None \/ d.md.block = None THEN [d.md EXCEPT !.outer = Table(d)]
                      ELSE [d.md EXCEPT !.block = Table(d)]
    BY <1>4 DEF LegacyMd, Refreshed
  <2> QED BY <1>1, <1>4, <2>1, MdFields DEF FirstTable
<1>5. CASE d.md.there /\ ~setup.merge /\ ~(Managed(d.md) /\ FirstTable(d.md) # Table(d))
  <2>1. LegacyMd(d) = IF setup.force \/ setup.yes THEN Whole(d) ELSE d.md
    BY <1>5 DEF LegacyMd, Synced
  <2> QED BY <1>1, <1>5, <2>1, WholeIs
<1> QED BY <1>2, <1>3, <1>4, <1>5, <1>1, MdFields

LEMMA PluginMdIs ==
  ASSUME NEW d \in Disks, NoMd(d), setup.force \in BOOLEAN, setup.yes \in BOOLEAN
  PROVE  /\ PluginMd(d) \in Mds
         /\ PluginMd(d).there \/ PluginMd(d) = Bare.md
         /\ setup.yes \/ Contract(d.md) \/ ~d.md.there =>
              \/ FirstTable(PluginMd(d)) = Table(d)
              \/ ~Contract(PluginMd(d)) /\ FirstTable(PluginMd(d)) = None
<1>1. d.md \in Mds
  BY DEF Disks
<1>2. Bare.md = [there |-> FALSE, ours |-> FALSE, outer |-> None, block |-> None]
  BY DEF Bare
<1>3. Bare.md \in Mds
  BY <1>2, Values DEF Mds
<1>4. ~Contract(Bare.md) /\ FirstTable(Bare.md) = None
  BY <1>2 DEF Contract, FirstTable
<1>5. d.md.there \/ d.md = Bare.md
  BY <1>2 DEF NoMd
<1>6. PluginMd(d) \in {Whole(d), Bare.md, d.md}
      /\ (PluginMd(d) = d.md => (~Contract(d.md) /\ ~setup.yes) \/ PluginMd(d) \in {Whole(d), Bare.md})
  <2>1. CASE setup.yes
    BY <1>1, <1>5, <2>1 DEF PluginMd, Synced
  <2>2. CASE ~setup.yes
    BY <2>2 DEF PluginMd
  <2> QED BY <2>1, <2>2
<1> QED BY <1>1, <1>3, <1>4, <1>5, <1>6, WholeIs

LEMMA MdWritten ==
  ASSUME DoctorInv, setup.at = "md", setup' = NoSetup, UNCHANGED <<scoped, befallen>>,
         disk' = [disk EXCEPT !.md = IF setup.mode = "plugin" THEN PluginMd(disk) ELSE LegacyMd(disk)]
  PROVE  DoctorInv'
<1> USE DEF DoctorInv
<1>1. disk \in Disks /\ DOMAIN disk = Fields /\ NoMd(disk)
  BY DiskFields
<1>2. setup.force \in BOOLEAN /\ setup.yes \in BOOLEAN /\ setup.merge \in BOOLEAN
  BY DEF SetupShape
<1>3. disk'.md = IF setup.mode = "plugin" THEN PluginMd(disk) ELSE LegacyMd(disk)
  BY <1>1, FieldsAre
<1>4. disk'.md \in Mds /\ NoMd(disk')
  BY <1>1, <1>2, <1>3, LegacyMdIs, PluginMdIs DEF NoMd, Bare
<1>5. Spares(disk, disk', {"md"})
  BY <1>1 DEF Spares
<1>6. disk' \in Disks
  <2>1. disk' = [f \in Fields |-> disk'[f]]
    BY <1>1
  <2>2. disk' = [f \in Fields |-> disk'[f]] /\ Spares(disk, disk', {"md"}) /\ disk'.md \in Mds
    BY <1>4, <1>5, <2>1
  <2> QED BY <1>1, <2>2, DiskWritten
<1>7. NoConfig(disk')
  BY <1>5, KeptFields DEF NoConfig
<1> QED BY <1>4, <1>6, <1>7, Rests, SetupGone

LEMMA SetupGoesOn == ASSUME DoctorInv, SetupStep PROVE DoctorInv'
<1>1. setup.at \in {"prefs"} \cup PastPrefs /\ setup.mode \in {"legacy", "plugin"}
      /\ (setup.mode = "legacy" => setup.at \notin {"flags", "market", "refresh", "cache"})
  BY DEF DoctorInv, SetupShape, SetupStep
<1>2. /\ disk' = WrittenBy(setup.at, disk) /\ ~Throws(setup.at) /\ UNCHANGED <<scoped, befallen>>
      /\ setup' = IF After(setup.at, setup.mode) = "idle" THEN NoSetup
                  ELSE [setup EXCEPT !.at = After(setup.at, setup.mode)]
  BY DEF SetupStep
<1>3. CASE setup.at = "prefs"
  BY <1>1, <1>2, <1>3, StepsFollow, PrefsWritten DEF WrittenBy
<1>4. CASE setup.at = "prompts"
  BY <1>1, <1>2, <1>4, StepsFollow, PromptsWritten DEF WrittenBy
<1>5. CASE setup.at = "skills"
  BY <1>1, <1>2, <1>5, StepsFollow, SkillsWritten DEF WrittenBy
<1>6. CASE setup.at = "agents"
  BY <1>1, <1>2, <1>6, StepsFollow, AgentsWritten DEF WrittenBy, Throws
<1>7. CASE setup.at = "config"
  BY <1>1, <1>2, <1>7, StepsFollow, LegacyConfigWritten, PluginConfigWritten DEF WrittenBy
<1>8. CASE setup.at = "flags"
  BY <1>1, <1>2, <1>8, StepsFollow, FlagsWritten DEF WrittenBy
<1>9. CASE setup.at = "hooks"
  BY <1>1, <1>2, <1>9, StepsFollow, LegacyHooksWritten, PluginHooksWritten DEF WrittenBy
<1>10. CASE setup.at = "market"
  BY <1>1, <1>2, <1>10, StepsFollow, MarketWritten DEF WrittenBy
<1>11. CASE setup.at = "refresh"
  BY <1>1, <1>2, <1>11, StepsFollow, RefreshWritten DEF WrittenBy
<1>12. CASE setup.at = "cache"
  BY <1>1, <1>2, <1>12, StepsFollow, CacheWritten DEF WrittenBy
<1>13. CASE setup.at = "md"
  BY <1>1, <1>2, <1>13, StepsFollow, MdWritten DEF WrittenBy
<1> QED BY <1>1, <1>3, <1>4, <1>5, <1>6, <1>7, <1>8, <1>9, <1>10, <1>11, <1>12, <1>13
        DEF PastPrefs, PastPrompts, PastSkills, PastAgents, PastConfig, PastFlags, PastHooks, PastMarket, PastCache

(* What befalls an installation leaves one.                                *)
Proper(d) == d \in Disks /\ NoConfig(d) /\ NoMd(d)
Rewritten(d, e, F) == e = [f \in Fields |-> e[f]] /\ Spares(d, e, F)

(* One field, config.toml apart.                                           *)
LEMMA OneField ==
  ASSUME NEW d, Proper(d), NEW e \in Disks,
         NEW f \in {"hooks", "cache", "market", "enabled", "agents", "effort", "spark", "prompts",
                    "skills", "md", "host", "mirrors", "roots", "triage", "env"},
         Rewritten(d, e, {f}),
         f = "market" => (d.config = "absent" => e.market = "none"),
         f = "enabled" => ~e.enabled,
         f = "md" => e.md.there \/ e.md = Bare.md
  PROVE  Proper(e)
<1>1. NoConfig(d) /\ NoMd(d)
  BY DEF Proper
<1>2. \A g \in Fields : g # f => e[g] = d[g]
  BY DEF Rewritten, Spares
<1>3. e.config = d.config /\ e.model = d.model /\ e.seeded = d.seeded /\ e.flag = d.flag
      /\ e.mcps = d.mcps /\ e.direct = d.direct /\ e.explore = d.explore /\ e.lore = d.lore
      /\ (e.market = d.market \/ f = "market") /\ (e.enabled = d.enabled \/ f = "enabled")
      /\ (e.md = d.md \/ f = "md")
  BY <1>2, FieldsAre
<1>4. NoConfig(e)
  BY <1>1, <1>3 DEF NoConfig
<1>5. NoMd(e)
  BY <1>1, <1>3 DEF NoMd, Bare
<1> QED BY <1>4, <1>5 DEF Proper

(* config.toml is there once something was written to it.                  *)
LEMMA ConfigField ==
  ASSUME NEW d, Proper(d), NEW e \in Disks,
         NEW f \in {"model", "seeded", "explore", "lore", "direct", "mcps"},
         Rewritten(d, e, {f, "config"}), e.config \in {"bare", "owx"}
  PROVE  Proper(e)
<1>1. e.md = d.md
  BY KeptFields DEF Rewritten
<1> QED BY <1>1 DEF Proper, NoConfig, NoMd

LEMMA ConfigGone == ASSUME NEW d, Proper(d) PROVE Proper(WithoutConfig(d))
<1> DEFINE e == WithoutConfig(d)
           F == {"config", "model", "seeded", "flag", "market", "enabled", "mcps", "direct", "explore", "lore"}
<1>1. d \in Disks /\ NoMd(d) /\ DOMAIN d = Fields
  BY DiskFields DEF Proper
<1>2. Bare.mcps = [s \in McpServers |-> "unset"]
  BY DEF Bare
<1>3. /\ e = [g \in Fields |-> e[g]] /\ e.config = "absent" /\ e.model = "none"
      /\ e.seeded = FALSE /\ e.flag = FALSE /\ e.market = "none" /\ e.enabled = FALSE
      /\ e.mcps = Bare.mcps /\ e.direct = FALSE /\ e.explore = "unset" /\ e.lore = "unset"
  BY <1>1, FieldsAre DEF WithoutConfig
<1>4. Spares(d, e, F)
  BY <1>1 DEF WithoutConfig, Spares
<1> HIDE DEF e
<1>5. e \in Disks
  <2>1. Bare.mcps \in [McpServers -> {"unset", "on", "off"}]
    BY <1>2
  <2> HIDE DEF F
  <2>2. \A f \in F : f \in {"config", "model", "seeded", "flag", "market", "enabled", "mcps", "direct",
                          "explore", "lore"}
    BY DEF F
  <2> QED BY <1>1, <1>3, <1>4, <2>1, <2>2, DiskWritten
<1>6. NoConfig(e) /\ NoMd(e)
  BY <1>1, <1>2, <1>3, <1>4, KeptFields DEF NoConfig, NoMd
<1> QED BY <1>5, <1>6 DEF Proper, e

LEMMA Befalling ==
  ASSUME NEW d, Proper(d), NEW x \in Befallings
  PROVE  Proper(Spoiled(d, x))
<1> DEFINE e == Spoiled(d, x)
<1>0. d \in Disks /\ NoConfig(d) /\ NoMd(d) /\ DOMAIN d = Fields
  BY DiskFields DEF Proper
<1>1. /\ d.config \in {"absent", "bare", "owx"} /\ Kept(d.config) \in {"bare", "owx"}
      /\ d.cache \in {"none", "stale", "current"} /\ d.market \in {"none", "here", "elsewhere"}
      /\ d.mcps \in [McpServers -> {"unset", "on", "off"}] /\ d.md \in Mds
      /\ d.agents \in [Roles -> {None, <<"users">>} \cup Models \X Efforts]
  BY <1>0 DEF Disks, Kept
<1>2. CASE x = "no config"
  BY <1>2, ConfigGone DEF Spoiled
<1>3. CASE x \in {"legacy model"}
  <2>1. PICK v \in {"legacy"} : e = [d EXCEPT !.model = v, !.config = Kept(d.config)]
    BY <1>3 DEF Spoiled
  <2>2. Rewritten(d, e, {"model", "config"}) /\ e.model = v /\ e.config = Kept(d.config)
    BY <1>0, <2>1, FieldsAre DEF Rewritten, Spares
  <2> HIDE DEF e
  <2>4. e \in Disks
    BY <1>0, <1>1, <2>2, DiskWritten DEF Rewritten
  <2>5. Proper(e)
    BY <1>0, <1>1, <2>2, <2>4, ConfigField
  <2> QED BY <2>5 DEF e
<1>4. CASE x \in {"seeded"}
  <2>1. PICK v \in {TRUE} : e = [d EXCEPT !.seeded = v, !.config = Kept(d.config)]
    BY <1>4 DEF Spoiled
  <2>2. Rewritten(d, e, {"seeded", "config"}) /\ e.seeded = v /\ e.config = Kept(d.config)
    BY <1>0, <2>1, FieldsAre DEF Rewritten, Spares
  <2> HIDE DEF e
  <2>4. e \in Disks
    BY <1>0, <1>1, <2>2, DiskWritten DEF Rewritten
  <2>5. Proper(e)
    BY <1>0, <1>1, <2>2, <2>4, ConfigField
  <2> QED BY <2>5 DEF e
<1>5. CASE x \in {"explore on"}
  <2>1. PICK v \in {"on"} : e = [d EXCEPT !.explore = v, !.config = Kept(d.config)]
    BY <1>5 DEF Spoiled
  <2>2. Rewritten(d, e, {"explore", "config"}) /\ e.explore = v /\ e.config = Kept(d.config)
    BY <1>0, <2>1, FieldsAre DEF Rewritten, Spares
  <2> HIDE DEF e
  <2>4. e \in Disks
    BY <1>0, <1>1, <2>2, DiskWritten DEF Rewritten
  <2>5. Proper(e)
    BY <1>0, <1>1, <2>2, <2>4, ConfigField
  <2> QED BY <2>5 DEF e
<1>6. CASE x \in {"bad lore"}
  <2>1. PICK v \in {"bad"} : e = [d EXCEPT !.lore = v, !.config = Kept(d.config)]
    BY <1>6 DEF Spoiled
  <2>2. Rewritten(d, e, {"lore", "config"}) /\ e.lore = v /\ e.config = Kept(d.config)
    BY <1>0, <2>1, FieldsAre DEF Rewritten, Spares
  <2> HIDE DEF e
  <2>4. e \in Disks
    BY <1>0, <1>1, <2>2, DiskWritten DEF Rewritten
  <2>5. Proper(e)
    BY <1>0, <1>1, <2>2, <2>4, ConfigField
  <2> QED BY <2>5 DEF e
<1>7. CASE x \in {"direct servers"}
  <2>1. PICK v \in {TRUE} : e = [d EXCEPT !.direct = v, !.config = "owx"]
    BY <1>7 DEF Spoiled
  <2>2. Rewritten(d, e, {"direct", "config"}) /\ e.direct = v /\ e.config = "owx"
    BY <1>0, <2>1, FieldsAre DEF Rewritten, Spares
  <2> HIDE DEF e
  <2>4. e \in Disks
    BY <1>0, <1>1, <2>2, DiskWritten DEF Rewritten
  <2>5. Proper(e)
    BY <1>0, <1>1, <2>2, <2>4, ConfigField
  <2> QED BY <2>5 DEF e
<1>8. CASE x \in {"a server off", "a server on"}
  <2> DEFINE one == CHOOSE s \in McpServers : TRUE
  <2>1. PICK v \in {[d.mcps EXCEPT ![one] = "off"], [d.mcps EXCEPT ![one] = "on"]} : e = [d EXCEPT !.mcps = v, !.config = "owx"]
    BY <1>8 DEF Spoiled
  <2>2. Rewritten(d, e, {"mcps", "config"}) /\ e.mcps = v /\ e.config = "owx"
    BY <1>0, <2>1, FieldsAre DEF Rewritten, Spares
  <2> HIDE DEF e
  <2>3. v \in [McpServers -> {"unset", "on", "off"}]
    BY <1>1
  <2>4. e \in Disks
    BY <1>0, <1>1, <2>2, <2>3, DiskWritten DEF Rewritten
  <2>5. Proper(e)
    BY <1>0, <1>1, <2>2, <2>3, <2>4, ConfigField
  <2> QED BY <2>5 DEF e
<1>9. CASE x \in {"no hooks", "partial hooks", "unreadable hooks", "foreign hooks"}
  <2>1. PICK v \in {"absent", "partial", "unreadable", "foreign"} : e = [d EXCEPT !.hooks = v]
    BY <1>9 DEF Spoiled
  <2>2. Rewritten(d, e, {"hooks"}) /\ e.hooks = v
    BY <1>0, <2>1, FieldsAre DEF Rewritten, Spares
  <2> HIDE DEF e
  <2>4. e \in Disks
    BY <1>0, <1>1, <2>2, DiskWritten DEF Rewritten
  <2>5. Proper(e)
    BY <1>0, <1>1, <2>2, <2>4, OneField
  <2> QED BY <2>5 DEF e
<1>10. CASE x \in {"package upgraded", "no cache"}
  <2>1. PICK v \in {"none", "stale"} : e = [d EXCEPT !.cache = v]
    BY <1>10 DEF Spoiled
  <2>2. Rewritten(d, e, {"cache"}) /\ e.cache = v
    BY <1>0, <2>1, FieldsAre DEF Rewritten, Spares
  <2> HIDE DEF e
  <2>4. e \in Disks
    BY <1>0, <1>1, <2>2, DiskWritten DEF Rewritten
  <2>5. Proper(e)
    BY <1>0, <1>1, <2>2, <2>4, OneField
  <2> QED BY <2>5 DEF e
<1>11. CASE x \in {"plugin disabled"}
  <2>1. PICK v \in {FALSE} : e = [d EXCEPT !.enabled = v]
    BY <1>11 DEF Spoiled
  <2>2. Rewritten(d, e, {"enabled"}) /\ e.enabled = v
    BY <1>0, <2>1, FieldsAre DEF Rewritten, Spares
  <2> HIDE DEF e
  <2>4. e \in Disks
    BY <1>0, <1>1, <2>2, DiskWritten DEF Rewritten
  <2>5. Proper(e)
    BY <1>0, <1>1, <2>2, <2>4, OneField
  <2> QED BY <2>5 DEF e
<1>12. CASE x \in {"package moved"}
  <2>1. PICK v \in {IF d.market = "none" THEN "none" ELSE "elsewhere"} : e = [d EXCEPT !.market = v]
    BY <1>12 DEF Spoiled
  <2>2. Rewritten(d, e, {"market"}) /\ e.market = v
    BY <1>0, <2>1, FieldsAre DEF Rewritten, Spares
  <2> HIDE DEF e
  <2>3. d.config = "absent" => d.market = "none"
    BY <1>0 DEF NoConfig
  <2>4. e \in Disks
    BY <1>0, <1>1, <2>2, <2>3, DiskWritten DEF Rewritten
  <2>5. Proper(e)
    BY <1>0, <1>1, <2>2, <2>3, <2>4, OneField
  <2> QED BY <2>5 DEF e
<1>13. CASE x = "no preferences"
  <2>1. e = [d EXCEPT !.mode = "none", !.mcp = "none"]
    BY <1>13 DEF Spoiled
  <2>2. Rewritten(d, e, {"mode", "mcp"}) /\ e.mode = "none" /\ e.mcp = "none"
    BY <1>0, <2>1, FieldsAre DEF Rewritten, Spares
  <2> HIDE DEF e
  <2>3. e \in Disks
    BY <1>0, <2>2, DiskWritten DEF Rewritten
  <2>4. NoConfig(e) /\ NoMd(e)
    BY <1>0, <2>2, KeptFields DEF Rewritten, NoConfig, NoMd
  <2> QED BY <2>3, <2>4 DEF Proper, e
<1>14. CASE x \in {"own role", "no role"}
  <2>1. PICK v \in {[d.agents EXCEPT !["explorer"] = <<"users">>], [d.agents EXCEPT !["critic"] = None]} : e = [d EXCEPT !.agents = v]
    BY <1>14 DEF Spoiled
  <2>2. Rewritten(d, e, {"agents"}) /\ e.agents = v
    BY <1>0, <2>1, FieldsAre DEF Rewritten, Spares
  <2> HIDE DEF e
  <2>3. v \in [Roles -> {None, <<"users">>} \cup Models \X Efforts]
    BY <1>1 DEF Roles
  <2>4. e \in Disks
    BY <1>0, <1>1, <2>2, <2>3, DiskWritten DEF Rewritten
  <2>5. Proper(e)
    BY <1>0, <1>1, <2>2, <2>3, <2>4, OneField
  <2> QED BY <2>5 DEF e
<1>15. CASE x \in {"effort max"}
  <2>1. PICK v \in {"max"} : e = [d EXCEPT !.effort = v]
    BY <1>15 DEF Spoiled
  <2>2. Rewritten(d, e, {"effort"}) /\ e.effort = v
    BY <1>0, <2>1, FieldsAre DEF Rewritten, Spares
  <2> HIDE DEF e
  <2>4. e \in Disks
    BY <1>0, <1>1, <2>2, DiskWritten DEF Rewritten, Efforts
  <2>5. Proper(e)
    BY <1>0, <1>1, <2>2, <2>4, OneField
  <2> QED BY <2>5 DEF e
<1>16. CASE x \in {"own spark"}
  <2>1. PICK v \in {"own"} : e = [d EXCEPT !.spark = v]
    BY <1>16 DEF Spoiled
  <2>2. Rewritten(d, e, {"spark"}) /\ e.spark = v
    BY <1>0, <2>1, FieldsAre DEF Rewritten, Spares
  <2> HIDE DEF e
  <2>4. e \in Disks
    BY <1>0, <1>1, <2>2, DiskWritten DEF Rewritten
  <2>5. Proper(e)
    BY <1>0, <1>1, <2>2, <2>4, OneField
  <2> QED BY <2>5 DEF e
<1>17. CASE x \in {"no prompts"}
  <2>1. PICK v \in {FALSE} : e = [d EXCEPT !.prompts = v]
    BY <1>17 DEF Spoiled
  <2>2. Rewritten(d, e, {"prompts"}) /\ e.prompts = v
    BY <1>0, <2>1, FieldsAre DEF Rewritten, Spares
  <2> HIDE DEF e
  <2>4. e \in Disks
    BY <1>0, <1>1, <2>2, DiskWritten DEF Rewritten
  <2>5. Proper(e)
    BY <1>0, <1>1, <2>2, <2>4, OneField
  <2> QED BY <2>5 DEF e
<1>18. CASE x \in {"no skills"}
  <2>1. PICK v \in {FALSE} : e = [d EXCEPT !.skills = v]
    BY <1>18 DEF Spoiled
  <2>2. Rewritten(d, e, {"skills"}) /\ e.skills = v
    BY <1>0, <2>1, FieldsAre DEF Rewritten, Spares
  <2> HIDE DEF e
  <2>4. e \in Disks
    BY <1>0, <1>1, <2>2, DiskWritten DEF Rewritten
  <2>5. Proper(e)
    BY <1>0, <1>1, <2>2, <2>4, OneField
  <2> QED BY <2>5 DEF e
<1>19. CASE x \in {"md replaced", "md markers lost", "table edited", "table lost", "no md"}
  <2>1. PICK v \in {[Strayed(d.md) EXCEPT !.outer = None], Strayed(d.md), Bare.md,
               [d.md EXCEPT !.outer = None],
               [d.md EXCEPT !.outer = IF d.md.outer = None THEN None ELSE <<"edited">>]} : e = [d EXCEPT !.md = v]
    BY <1>19 DEF Spoiled
  <2>2. Rewritten(d, e, {"md"}) /\ e.md = v
    BY <1>0, <2>1, FieldsAre DEF Rewritten, Spares
  <2> HIDE DEF e
  <2>3. v \in Mds /\ (v.there \/ v = Bare.md)
    <3>1. None \in Tables /\ <<"edited">> \in Tables
      BY DEF Tables
    <3>2. Bare.md \in Mds /\ Bare.md = [there |-> FALSE, ours |-> FALSE, outer |-> None, block |-> None]
      BY <3>1 DEF Bare, Mds
    <3>3. Strayed(d.md) \in Mds /\ Strayed(d.md).there = TRUE
      BY <1>1, <3>1 DEF Strayed, Mds
    <3>4. /\ [Strayed(d.md) EXCEPT !.outer = None] \in Mds
          /\ [Strayed(d.md) EXCEPT !.outer = None].there = Strayed(d.md).there
      BY <3>1, <3>3, MdFields
    <3>5. /\ [d.md EXCEPT !.outer = None] \in Mds
          /\ [d.md EXCEPT !.outer = None].there = d.md.there
      BY <1>1, <3>1, MdFields
    <3>6. /\ [d.md EXCEPT !.outer = <<"edited">>] \in Mds
          /\ [d.md EXCEPT !.outer = <<"edited">>].there = d.md.there
      BY <1>1, <3>1, MdFields
    <3>7. ~d.md.there => [d.md EXCEPT !.outer = None] = Bare.md /\ d.md.outer = None
      BY <1>0, <3>2 DEF NoMd
    <3> QED BY <3>2, <3>3, <3>4, <3>5, <3>6, <3>7
  <2>4. e \in Disks
    BY <1>0, <1>1, <2>2, <2>3, DiskWritten DEF Rewritten
  <2>5. Proper(e)
    BY <1>0, <1>1, <2>2, <2>3, <2>4, OneField
  <2> QED BY <2>5 DEF e
<1>20. CASE x \in {"host lacking", "broken dist"}
  <2>1. PICK v \in {"lacking", "broken dist"} : e = [d EXCEPT !.host = v]
    BY <1>20 DEF Spoiled
  <2>2. Rewritten(d, e, {"host"}) /\ e.host = v
    BY <1>0, <2>1, FieldsAre DEF Rewritten, Spares
  <2> HIDE DEF e
  <2>4. e \in Disks
    BY <1>0, <1>1, <2>2, DiskWritten DEF Rewritten
  <2>5. Proper(e)
    BY <1>0, <1>1, <2>2, <2>4, OneField
  <2> QED BY <2>5 DEF e
<1>21. CASE x \in {"mirrors"}
  <2>1. PICK v \in {1} : e = [d EXCEPT !.mirrors = v]
    BY <1>21 DEF Spoiled
  <2>2. Rewritten(d, e, {"mirrors"}) /\ e.mirrors = v
    BY <1>0, <2>1, FieldsAre DEF Rewritten, Spares
  <2> HIDE DEF e
  <2>3. 1 \in 0..1
    OBVIOUS
  <2>4. e \in Disks
    BY <1>0, <1>1, <2>2, <2>3, DiskWritten DEF Rewritten
  <2>5. Proper(e)
    BY <1>0, <1>1, <2>2, <2>3, <2>4, OneField
  <2> QED BY <2>5 DEF e
<1>22. CASE x \in {"overlap"}
  <2>1. PICK v \in {"overlap"} : e = [d EXCEPT !.roots = v]
    BY <1>22 DEF Spoiled
  <2>2. Rewritten(d, e, {"roots"}) /\ e.roots = v
    BY <1>0, <2>1, FieldsAre DEF Rewritten, Spares
  <2> HIDE DEF e
  <2>4. e \in Disks
    BY <1>0, <1>1, <2>2, DiskWritten DEF Rewritten
  <2>5. Proper(e)
    BY <1>0, <1>1, <2>2, <2>4, OneField
  <2> QED BY <2>5 DEF e
<1>23. CASE x \in {"triage"}
  <2>1. PICK v \in {"bad"} : e = [d EXCEPT !.triage = v]
    BY <1>23 DEF Spoiled
  <2>2. Rewritten(d, e, {"triage"}) /\ e.triage = v
    BY <1>0, <2>1, FieldsAre DEF Rewritten, Spares
  <2> HIDE DEF e
  <2>4. e \in Disks
    BY <1>0, <1>1, <2>2, DiskWritten DEF Rewritten
  <2>5. Proper(e)
    BY <1>0, <1>1, <2>2, <2>4, OneField
  <2> QED BY <2>5 DEF e
<1>24. CASE x \in {"explore in env"}
  <2>1. PICK v \in {"on"} : e = [d EXCEPT !.env = v]
    BY <1>24 DEF Spoiled
  <2>2. Rewritten(d, e, {"env"}) /\ e.env = v
    BY <1>0, <2>1, FieldsAre DEF Rewritten, Spares
  <2> HIDE DEF e
  <2>4. e \in Disks
    BY <1>0, <1>1, <2>2, DiskWritten DEF Rewritten
  <2>5. Proper(e)
    BY <1>0, <1>1, <2>2, <2>4, OneField
  <2> QED BY <2>5 DEF e
<1> QED BY <1>2, <1>3, <1>4, <1>5, <1>6, <1>7, <1>8, <1>9, <1>10, <1>11, <1>12, <1>13, <1>14, <1>15, <1>16, <1>17, <1>18, <1>19, <1>20, <1>21, <1>22, <1>23, <1>24 DEF Befallings

LEMMA Mended == ASSUME DoctorInv, MendByHand PROVE DoctorInv'
<1> DEFINE F == {"host", "mirrors", "roots", "triage", "env", "lore", "explore"}
<1>1. disk \in Disks /\ NoConfig(disk) /\ NoMd(disk) /\ DOMAIN disk = Fields
  BY DiskFields DEF DoctorInv
<1>2. disk.explore \in {"unset", "off", "on"}
  BY <1>1 DEF Disks
<1>3. /\ disk' = [g \in Fields |-> disk'[g]] /\ Spares(disk, disk', F)
      /\ disk'.host = "fine" /\ disk'.mirrors = 0 /\ disk'.roots = "apart" /\ disk'.triage = "fine"
      /\ disk'.env = "unset" /\ disk'.lore = "unset"
      /\ disk'.explore = IF disk.explore = "on" THEN "off" ELSE disk.explore
  BY <1>1, FieldsAre DEF MendByHand, Spares
<1>4. disk'.explore \in {"unset", "off", "on"} /\ disk'.mirrors \in 0..1
  BY <1>2, <1>3
<1>5. disk' \in Disks
  BY <1>1, <1>3, <1>4, DiskWritten
<1>6. NoConfig(disk') /\ NoMd(disk')
  BY <1>1, <1>3, KeptFields DEF NoConfig, NoMd
<1> QED BY <1>5, <1>6, Rests DEF MendByHand, DoctorInv, SetupShape

(* What is asked of a setup and what it was told.                          *)
SetupRequests ==
  [mode : {"unset", "legacy", "plugin"}, mcp : {"unset", "none", "compat"},
   force : BOOLEAN, merge : BOOLEAN]

LEMMA AdviceIs ==
  ASSUME NEW d \in Disks, NEW c, NEW command \in Advice(d, c)
  PROVE  command \in SetupRequests
<1>1. /\ Plain \in SetupRequests /\ Forced \in SetupRequests /\ PluginForced \in SetupRequests
      /\ Merging \in SetupRequests
  BY DEF Plain, Forced, PluginForced, Merging, SetupRequests
<1>2. [PluginForced EXCEPT !.mcp = d.mcp] \in SetupRequests
  BY DEF Disks, Plain, Forced, PluginForced, SetupRequests
<1>3. command \in {Plain, Forced, PluginForced, Merging, [PluginForced EXCEPT !.mcp = d.mcp]}
  BY DEF Advice
<1> QED BY <1>1, <1>2, <1>3

(* Each check complains of one thing.                                      *)
LEMMA ChecksSay ==
  ASSUME NEW d
  PROVE  /\ ConfigCheck(d) \subseteq {"config"} /\ SeededCheck(d) \subseteq {"seeded"}
         /\ HostCheck(d) \subseteq {"host"} /\ SmokeCheck(d) \subseteq {"smoke"}
         /\ PostCompactCheck(d) \subseteq {"mirrors"} /\ RootsCheck(d) \subseteq {"roots"}
         /\ TriageCheck(d) \subseteq {"triage"} /\ ExploreCheck(d) \subseteq {"explore"}
         /\ LoreCheck(d) \subseteq {"lore"} /\ HooksCheck(d) \subseteq {"hooks"}
         /\ PromptsCheck(d) \subseteq {"prompts"} /\ SkillsCheck(d) \subseteq {"skills"}
         /\ RolesCheck(d) \subseteq {"roles"} /\ SparkCheck(d) \subseteq {"spark"}
         /\ RoutingCheck(d) \subseteq {"models"} /\ AgentsMdCheck(d) \subseteq {"agents.md"}
         /\ McpCheck(d) \subseteq {"mcp"}
<1>1. \A name, condition : Says(name, condition) \subseteq {name}
  BY DEF Says
<1>2. /\ ConfigCheck(d) \subseteq {"config"} /\ SeededCheck(d) \subseteq {"seeded"}
      /\ HostCheck(d) \subseteq {"host"} /\ SmokeCheck(d) \subseteq {"smoke"}
      /\ PostCompactCheck(d) \subseteq {"mirrors"} /\ RootsCheck(d) \subseteq {"roots"}
      /\ TriageCheck(d) \subseteq {"triage"} /\ ExploreCheck(d) \subseteq {"explore"}
  BY <1>1 DEF ConfigCheck, SeededCheck, HostCheck, SmokeCheck, PostCompactCheck, RootsCheck,
     TriageCheck, ExploreCheck
<1>3. /\ LoreCheck(d) \subseteq {"lore"} /\ HooksCheck(d) \subseteq {"hooks"}
      /\ PromptsCheck(d) \subseteq {"prompts"} /\ SkillsCheck(d) \subseteq {"skills"}
      /\ RolesCheck(d) \subseteq {"roles"} /\ SparkCheck(d) \subseteq {"spark"}
  BY <1>1 DEF LoreCheck, HooksCheck, PluginHooksCheck, PromptsCheck, SkillsCheck, MarketCheck,
     RolesCheck, SparkCheck
<1>4. /\ RoutingCheck(d) \subseteq {"models"} /\ AgentsMdCheck(d) \subseteq {"agents.md"}
      /\ McpCheck(d) \subseteq {"mcp"}
  BY <1>1 DEF RoutingCheck, AgentsMdCheck, McpCheck
<1> QED BY <1>2, <1>3, <1>4

LEMMA ComplaintIs ==
  ASSUME NEW d, NEW c \in Complaints(d)
  PROVE  /\ c \in {"host", "config", "seeded", "hooks", "smoke", "mirrors", "explore", "lore",
                   "prompts", "skills", "roles", "spark", "models", "roots", "agents.md", "mcp",
                   "triage"}
         /\ c = "config" => "config" \in ConfigCheck(d)
         /\ c = "seeded" => "seeded" \in SeededCheck(d)
         /\ c = "hooks" => "hooks" \in HooksCheck(d)
         /\ c = "prompts" => "prompts" \in PromptsCheck(d)
         /\ c = "skills" => "skills" \in SkillsCheck(d)
         /\ c = "roles" => "roles" \in RolesCheck(d)
         /\ c = "spark" => "spark" \in SparkCheck(d)
         /\ c = "models" => "models" \in RoutingCheck(d)
         /\ c = "agents.md" => "agents.md" \in AgentsMdCheck(d)
         /\ c = "mcp" => "mcp" \in McpCheck(d)
<1>1. c \in ConfigCheck(d) \/ c \in SeededCheck(d) \/ c \in HostCheck(d) \/ c \in SmokeCheck(d)
      \/ c \in PostCompactCheck(d) \/ c \in RootsCheck(d) \/ c \in TriageCheck(d)
      \/ c \in ExploreCheck(d) \/ c \in LoreCheck(d) \/ c \in HooksCheck(d)
      \/ c \in PromptsCheck(d) \/ c \in SkillsCheck(d) \/ c \in RolesCheck(d)
      \/ c \in SparkCheck(d) \/ c \in RoutingCheck(d) \/ c \in AgentsMdCheck(d) \/ c \in McpCheck(d)
  BY DEF Complaints
<1> QED BY <1>1, ChecksSay

(* A setup begins with what it needs to make good the advice it follows.   *)
LEMMA SetupBegins ==
  ASSUME DoctorInv, NEW command \in SetupRequests, NEW yes \in BOOLEAN, NEW about,
         BeginSetup(command, yes, about), befallen' \in 0..MaxEvents,
         \/ about = None
         \/ \E c : /\ about = <<c>> /\ c \in Complaints(disk) /\ c \notin ByHand
                   /\ command \in Advice(disk, c)
  PROVE  DoctorInv'
<1>1. disk \in Disks /\ NoConfig(disk) /\ NoMd(disk) /\ scoped \in BOOLEAN
  BY DEF DoctorInv
<1>2. disk' = disk /\ scoped' = scoped
  BY DEF BeginSetup
<1>3. /\ disk.mode \in {"none", "legacy", "plugin"} /\ disk.mcp \in {"none", "compat"}
      /\ disk.mcps \in [McpServers -> {"unset", "on", "off"}]
  BY <1>1 DEF Disks
<1>4. /\ command.mode \in {"unset", "legacy", "plugin"} /\ command.mcp \in {"unset", "none", "compat"}
      /\ command.force \in BOOLEAN /\ command.merge \in BOOLEAN
  BY DEF SetupRequests
<1>5. ModeFor(disk, command) \in {"legacy", "plugin"} /\ McpFor(disk, command) \in {"none", "compat"}
  BY <1>3, <1>4 DEF ModeFor, McpFor
<1>6. /\ setup'.at = "prefs" /\ setup'.mode = ModeFor(disk, command)
      /\ setup'.mcp = McpFor(disk, command) /\ setup'.force = command.force
      /\ setup'.merge = command.merge /\ setup'.yes = yes /\ setup'.about = about
      /\ setup'.offered = (McpFor(disk, command) # "compat" /\ Registered(disk))
      /\ setup'.excused = (about # None /\ Excused(disk, about[1], command, yes))
      /\ DOMAIN setup' = {"at", "mode", "mcp", "force", "merge", "yes", "offered", "about", "excused"}
  BY DEF BeginSetup
<1>7. setup'.offered \in BOOLEAN /\ setup'.excused \in BOOLEAN
  BY <1>6
<1>8. \A c : <<c>> # None /\ <<c>>[1] = c
  BY DEF None
<1>9. SetupShape'
  <2>1. DOMAIN NoSetup = {"at", "mode", "mcp", "force", "merge", "yes", "offered", "about", "excused"}
    BY DEF NoSetup
  <2>2. about # None => about = <<about[1]>> /\ about[1] \notin ByHand
    BY <1>8
  <2> QED BY <1>4, <1>5, <1>6, <1>7, <2>1, <2>2 DEF SetupShape
<1>10. "prefs" \notin PastPrefs
  BY DEF PastPrefs, PastPrompts, PastSkills, PastAgents, PastConfig, PastFlags, PastHooks, PastMarket, PastCache
<1>11. Progress(disk)'
  BY <1>6, <1>10 DEF Progress, PastPrefs, PastPrompts, PastSkills, PastAgents, PastConfig, PastFlags,
     PastHooks, PastMarket, PastCache
<1>12. ASSUME NEW c, Promised(c)'
       PROVE  /\ about = <<c>> /\ ~Excused(disk, c, command, yes)
              /\ c \in Complaints(disk) /\ command \in Advice(disk, c)
  <2>1. about = <<c>> /\ ~setup'.excused
    BY <1>6, <1>12 DEF Promised
  <2>2. about # None
    BY <1>8, <2>1
  <2>3. PICK b : about = <<b>> /\ b \in Complaints(disk) /\ command \in Advice(disk, b)
    BY <2>2
  <2>4. b = c
    BY <1>8, <2>1, <2>3
  <2>5. about[1] = c
    BY <1>8, <2>1
  <2> QED BY <1>6, <2>1, <2>2, <2>3, <2>4, <2>5
<1>13. /\ Plain.mode = "unset" /\ Plain.mcp = "unset" /\ ~Plain.force /\ ~Plain.merge
       /\ Forced.mode = "unset" /\ Forced.mcp = "unset" /\ Forced.force /\ ~Forced.merge
       /\ Merging.mode = "unset" /\ Merging.mcp = "unset" /\ ~Merging.force /\ Merging.merge
       /\ [PluginForced EXCEPT !.mcp = disk.mcp].mcp = disk.mcp
  BY DEF Plain, Forced, Merging, PluginForced
<1>14. Upgrades(disk)' = (ModeFor(disk, command) = "legacy" /\ yes /\ disk.model = "legacy")
  BY <1>2, <1>6 DEF Upgrades
<1>15. ModelsPromise(disk)'
  <2> SUFFICES ASSUME Promised("models")' PROVE ModelsPromise(disk)'
    BY DEF ModelsPromise
  <2>1. command = IF Contract(disk.md) /\ FirstTable(disk.md) = None THEN Merging ELSE Forced
    BY <1>12 DEF Advice
  <2>2. /\ ~(ModeFor(disk, command) = "legacy" /\ yes /\ disk.model = "legacy")
        /\ ~(ModeFor(disk, command) = "plugin" /\ ~yes /\ ~Contract(disk.md) /\ disk.md.there)
    BY <1>12 DEF Excused
  <2>3. FirstTable(disk.md) = None => disk.md.outer = None
    BY DEF FirstTable
  <2>4. setup'.at \notin PastAgents
    BY <1>6, <1>10 DEF PastPrefs, PastPrompts, PastSkills
  <2> QED BY <1>2, <1>6, <1>13, <1>14, <2>1, <2>2, <2>3, <2>4 DEF ModelsPromise
<1>16. MdPromise(disk)'
  <2> SUFFICES ASSUME Promised("agents.md")', setup'.mode = "legacy" PROVE MdPromise(disk)'
    BY DEF MdPromise
  <2>1. command \in IF disk.md.there THEN {Merging, Forced} ELSE {Plain}
    BY <1>12 DEF Advice
  <2>2. command = Forced /\ Managed(disk.md) =>
          /\ ~(ModeFor(disk, command) = "legacy" /\ yes /\ disk.model = "legacy")
          /\ FirstTable(disk.md) = Table(disk)
    BY <1>12 DEF Excused
  <2> QED BY <1>2, <1>6, <1>13, <1>14, <2>1, <2>2 DEF MdPromise
<1>17. McpPromise(disk)'
  <2> SUFFICES ASSUME Promised("mcp")', setup'.mode = "plugin" PROVE McpPromise(disk)'
    BY DEF McpPromise
  <2>1. command = IF disk.mode # "plugin" THEN Plain ELSE [PluginForced EXCEPT !.mcp = disk.mcp]
    BY <1>12 DEF Advice
  <2>2. disk.mode = "plugin" /\ disk.mcp # "compat" => yes
    BY <1>12 DEF Excused
  <2>3. (\A s \in McpServers : disk.mcps[s] = "unset") => On(disk) = {}
    BY DEF On
  <2>4. CASE disk.mode # "plugin"
    <3>1. disk.config = "absent"
      <4>1. "mcp" \in McpCheck(disk)
        BY <1>12, ComplaintIs
      <4> QED BY <2>4, <4>1 DEF McpCheck, Says
    <3>2. \A s \in McpServers : disk.mcps[s] = "unset"
      BY <1>1, <3>1 DEF NoConfig
    <3> QED BY <1>2, <2>3, <3>2 DEF McpPromise
  <2>5. CASE disk.mode = "plugin"
    <3>1. McpFor(disk, command) = disk.mcp
      BY <1>3, <1>13, <2>1, <2>5 DEF McpFor
    <3>2. ~Registered(disk) => On(disk) = {}
      BY <2>3 DEF Registered
    <3>3. setup'.at \notin PastMarket
      BY <1>6 DEF PastMarket, PastCache
    <3> QED BY <1>2, <1>6, <2>2, <2>5, <3>1, <3>2, <3>3 DEF McpPromise, Removes
  <2> QED BY <2>4, <2>5
<1> QED BY <1>1, <1>2, <1>9, <1>11, <1>15, <1>16, <1>17 DEF DoctorInv

(* The first complaint is one.                                             *)
LEMMA FirstIs == ASSUME NEW d, Complaints(d) # {} PROVE First(d) \in Complaints(d)
<1> DEFINE said == {i \in 1..Len(Printed) : Printed[i] \in Complaints(d)}
<1>1. Len(Printed) = 17
  BY DEF Printed
<1>2. \A c \in Complaints(d) : \E i \in 1..17 : Printed[i] = c
  <2>1. Complaints(d) \subseteq {"host", "config", "seeded", "hooks", "smoke", "mirrors", "explore",
                                "lore", "prompts", "skills", "roles", "spark", "models", "roots",
                                "agents.md", "mcp", "triage"}
    BY ComplaintIs
  <2>2. /\ Printed[1] = "host" /\ Printed[2] = "config" /\ Printed[3] = "seeded"
        /\ Printed[4] = "hooks" /\ Printed[5] = "smoke" /\ Printed[6] = "mirrors"
        /\ Printed[7] = "explore" /\ Printed[8] = "lore" /\ Printed[9] = "prompts"
        /\ Printed[10] = "skills" /\ Printed[11] = "roles" /\ Printed[12] = "spark"
        /\ Printed[13] = "models" /\ Printed[14] = "roots" /\ Printed[15] = "agents.md"
        /\ Printed[16] = "mcp" /\ Printed[17] = "triage"
    BY DEF Printed
  <2>3. \A i \in {1, 2, 3, 4, 5, 6, 7, 8, 9, 10, 11, 12, 13, 14, 15, 16, 17} : i \in 1..17
    OBVIOUS
  <2> QED BY <2>1, <2>2, <2>3
<1>3. said \subseteq Nat /\ said # {}
  BY <1>1, <1>2
<1>4. \E i \in said : \A j \in said : i <= j
  BY <1>3, LeastNumber
<1>5. First(d) = Printed[CHOOSE i \in said : \A j \in said : i <= j]
  BY DEF First
<1> QED BY <1>4, <1>5

LEMMA DoctorSteps == ASSUME DoctorBase, DoctorInv, [DoctorNext]_doctorVars PROVE DoctorInv'
<1> USE DEF DoctorBase
<1>1. disk \in Disks /\ NoConfig(disk) /\ NoMd(disk) /\ scoped \in BOOLEAN /\ befallen \in 0..MaxEvents
  BY DEF DoctorInv
<1>2. Befalls => befallen' \in 0..MaxEvents
  BY <1>1 DEF Befalls
<1>3. ASSUME NEW command \in Commands, NEW yes \in BOOLEAN, RunSetup(command, yes)
      PROVE  DoctorInv'
  BY <1>2, <1>3, SetupBegins DEF RunSetup, SetupRequests
<1>4. ASSUME NEW yes \in BOOLEAN, NEW c \in Complaints(disk), Heed(c, yes), c \notin ByHand,
             befallen' \in 0..MaxEvents
      PROVE  DoctorInv'
  <2>1. PICK command \in Advice(disk, c) : BeginSetup(command, yes, <<c>>)
    BY <1>4 DEF Heed
  <2> QED BY <1>1, <1>4, <2>1, AdviceIs, SetupBegins
<1>5. ASSUME NEW yes \in BOOLEAN, NEW c \in Complaints(disk), Follow(c, yes)
      PROVE  DoctorInv'
  BY <1>2, <1>4, <1>5 DEF Follow
<1>6. ASSUME NEW x \in Spoils, Spoil(x) PROVE DoctorInv'
  <2>1. Proper(Spoiled(disk, x))
    BY <1>1, Befalling DEF Proper
  <2>2. setup' = setup /\ setup.at = "idle" /\ disk' = Spoiled(disk, x) /\ scoped' = scoped
        /\ befallen' \in 0..MaxEvents
    BY <1>2, <1>6 DEF Spoil
  <2>3. SetupShape'
    BY <2>2 DEF DoctorInv, SetupShape
  <2> QED BY <1>1, <2>1, <2>2, <2>3, Rests DEF Proper
<1>7. CASE OtherCodex
  <2>1. /\ setup' = setup /\ setup.at = "idle" /\ disk' = disk /\ scoped' \in BOOLEAN
        /\ befallen' \in 0..MaxEvents
    BY <1>1, <1>2, <1>7 DEF OtherCodex
  <2>2. SetupShape'
    BY <2>1 DEF DoctorInv, SetupShape
  <2> QED BY <1>1, <2>1, <2>2, Rests
<1>8. CASE SetupStep
  BY <1>8, SetupGoesOn
<1>9. CASE SetupThrows \/ Cut
  <2>1. /\ setup' = NoSetup /\ disk' = disk /\ scoped' = scoped /\ befallen' \in 0..MaxEvents
    BY <1>1, <1>2, <1>9 DEF SetupThrows, Cut
  <2> QED BY <1>1, <2>1, SetupGone, Rests
<1>10. CASE FollowFirst
  <2>1. CASE First(disk) \in ByHand
    BY <1>10, <2>1, Mended DEF FollowFirst
  <2>2. CASE First(disk) \notin ByHand
    BY <1>1, <1>4, <1>10, <2>2, FirstIs DEF FollowFirst
  <2> QED BY <2>1, <2>2
<1>11. CASE UNCHANGED doctorVars
  <2>1. disk' = disk /\ scoped' = scoped /\ setup' = setup /\ befallen' = befallen
    BY <1>11 DEF doctorVars
  <2> QED BY <2>1 DEF DoctorInv, SetupShape, Progress, Promised, Upgrades, ModelsPromise, MdPromise,
        McpPromise, UsesHooksFile, Removes
<1> QED BY <1>3, <1>5, <1>6, <1>7, <1>8, <1>9, <1>10, <1>11 DEF DoctorNext

(* The last step of a setup leaves no complaint that its advice was about. *)
LEMMA LastStepHeals ==
  ASSUME DoctorInv, SetupStep, setup'.at = "idle", setup.about # None, ~setup.excused
  PROVE  setup.about[1] \notin Complaints(disk')
<1> DEFINE c == setup.about[1]
<1>1. disk \in Disks /\ NoConfig(disk) /\ NoMd(disk) /\ DOMAIN disk = Fields
  BY DiskFields DEF DoctorInv
<1>2. setup.at \in {"prefs"} \cup PastPrefs /\ setup.mode \in {"legacy", "plugin"}
      /\ (setup.mode = "legacy" => setup.at \notin {"flags", "market", "refresh", "cache"})
      /\ setup.force \in BOOLEAN /\ setup.merge \in BOOLEAN /\ setup.yes \in BOOLEAN
      /\ setup.about = <<c>> /\ c \notin ByHand /\ setup.mcp \in {"none", "compat"}
  BY DEF DoctorInv, SetupShape, SetupStep
<1>3. setup.at = "md"
  <2> SUFFICES ASSUME setup.at # "md" PROVE FALSE
    OBVIOUS
  <2>1. After(setup.at, setup.mode) # "idle"
    BY <1>2, StepsFollow DEF PastPrefs, PastPrompts, PastSkills, PastAgents, PastConfig, PastFlags,
       PastHooks, PastMarket, PastCache
  <2>2. setup' = [setup EXCEPT !.at = After(setup.at, setup.mode)]
    BY <2>1 DEF SetupStep
  <2>3. "at" \in DOMAIN setup
    BY DEF DoctorInv, SetupShape, NoSetup
  <2> QED BY <2>1, <2>2, <2>3
<1>4. /\ setup.at \in PastPrefs /\ setup.at \in PastPrompts /\ setup.at \in PastSkills
      /\ setup.at \in PastAgents /\ setup.at \in PastConfig /\ setup.at \in PastFlags
      /\ setup.at \in PastHooks /\ setup.at \in PastMarket /\ setup.at \in PastCache
  BY <1>3 DEF PastPrefs, PastPrompts, PastSkills, PastAgents, PastConfig, PastFlags, PastHooks,
     PastMarket, PastCache
<1>5. disk' = [disk EXCEPT !.md = IF setup.mode = "plugin" THEN PluginMd(disk) ELSE LegacyMd(disk)]
  BY <1>3 DEF SetupStep, WrittenBy
<1>6. disk'.md = IF setup.mode = "plugin" THEN PluginMd(disk) ELSE LegacyMd(disk)
  BY <1>1, <1>5, FieldsAre
<1>7. \A f \in Fields : f # "md" => disk'[f] = disk[f]
  BY <1>1, <1>5
<1>8. /\ disk'.mode = disk.mode /\ disk'.mcp = disk.mcp /\ disk'.config = disk.config
      /\ disk'.seeded = disk.seeded /\ disk'.flag = disk.flag /\ disk'.hooks = disk.hooks
      /\ disk'.market = disk.market /\ disk'.enabled = disk.enabled /\ disk'.cache = disk.cache
      /\ disk'.mcps = disk.mcps /\ disk'.agents = disk.agents /\ disk'.prompts = disk.prompts
      /\ disk'.skills = disk.skills
      /\ disk'.model = disk.model /\ disk'.spark = disk.spark /\ disk'.effort = disk.effort
  BY <1>7, FieldsAre
<1>9. /\ disk.mode = setup.mode /\ disk.mcp = setup.mcp
      /\ disk.prompts = (setup.mode = "legacy") /\ disk.skills = (setup.mode = "legacy")
      /\ disk.agents["critic"] # None /\ disk.agents["explorer"] = <<disk.spark, "own">>
      /\ ~disk.seeded /\ (setup.mode = "legacy" => disk.config = "owx")
      /\ (setup.mode = "plugin" /\ scoped => disk.flag)
      /\ (UsesHooksFile => disk.hooks = "full")
      /\ (setup.mode = "plugin" => /\ disk.config = "owx" /\ disk.market = "here" /\ disk.enabled
                                   /\ disk.cache = "current"
                                   /\ setup.mcp = "compat" => On(disk) = McpServers)
  BY <1>4 DEF DoctorInv, Progress
<1>10. \A b : Says(b, FALSE) = {} /\ \A p : b \in Says(b, p) => p
  BY DEF Says
<1>11. disk'.config = "owx"
  BY <1>2, <1>8, <1>9
<1>12. ASSUME c = "config" PROVE "config" \notin ConfigCheck(disk')
  BY <1>10, <1>11 DEF ConfigCheck
<1>13. ASSUME c = "seeded" PROVE "seeded" \notin SeededCheck(disk')
  BY <1>8, <1>9, <1>10 DEF SeededCheck
<1>14. ASSUME c = "hooks" PROVE "hooks" \notin HooksCheck(disk')
  <2>1. CASE PluginHooks(disk')
    <3>1. disk'.cache = "current"
      BY <1>8, <1>9, <2>1 DEF PluginHooks
    <3> QED BY <1>10, <2>1, <3>1 DEF HooksCheck, PluginHooksCheck
  <2>2. CASE ~PluginHooks(disk')
    <3>1. UsesHooksFile
      BY <1>2, <1>8, <1>9, <1>11, <2>2 DEF PluginHooks, UsesHooksFile
    <3>2. disk'.hooks = "full"
      BY <1>8, <1>9, <3>1
    <3> QED BY <1>10, <2>2, <3>2 DEF HooksCheck
  <2> QED BY <2>1, <2>2
<1>15. ASSUME c = "prompts" PROVE "prompts" \notin PromptsCheck(disk')
  BY <1>2, <1>8, <1>9, <1>10 DEF PromptsCheck
<1>16. ASSUME c = "skills" PROVE "skills" \notin SkillsCheck(disk')
  BY <1>2, <1>8, <1>9, <1>10, <1>11 DEF SkillsCheck, MarketCheck
<1>17. ASSUME c = "roles" PROVE "roles" \notin RolesCheck(disk')
  BY <1>8, <1>9, <1>10 DEF RolesCheck
<1>18. ASSUME c = "spark" PROVE "spark" \notin SparkCheck(disk')
  BY <1>8, <1>9, <1>10 DEF SparkCheck, Generated, Lane
<1>19. Table(disk') = Table(disk) /\ Unsupported(disk') = Unsupported(disk)
       /\ \A r \in Roles : Generated(disk', r) = Generated(disk, r)
  BY <1>8, SameModels
<1>20. ASSUME c = "models" PROVE "models" \notin RoutingCheck(disk')
  <2>1. Promised("models")
    BY <1>2, <1>3, <1>20 DEF Promised
  <2>2. /\ \A r \in Roles : disk.agents[r] = Generated(disk, r)
        /\ ~Unsupported(disk)
        /\ setup.mode = "legacy" => (setup.merge => disk.md.outer = None) /\ (setup.merge \/ setup.force)
        /\ setup.mode = "plugin" => setup.yes \/ Contract(disk.md) \/ ~disk.md.there
    BY <1>4, <2>1 DEF DoctorInv, ModelsPromise
  <2>3. \/ FirstTable(disk'.md) = Table(disk')
        \/ ~Contract(disk'.md) /\ FirstTable(disk'.md) = None
    <3>1. CASE setup.mode = "legacy"
      BY <1>1, <1>2, <1>6, <1>19, <2>2, <3>1, LegacyMdIs
    <3>2. CASE setup.mode = "plugin"
      BY <1>1, <1>2, <1>6, <1>19, <2>2, <3>2, PluginMdIs
    <3> QED BY <1>2, <3>1, <3>2
  <2>4. Table(disk') # None
    BY <1>1, <1>19, Values
  <2>5. \A r \in Roles : disk'.agents[r] = Generated(disk', r)
    BY <1>8, <1>19, <2>2
  <2>6. ~Unsupported(disk')
    BY <1>19, <2>2
  <2> QED BY <1>10, <2>3, <2>4, <2>5, <2>6 DEF RoutingCheck
<1>21. ASSUME c = "agents.md" PROVE "agents.md" \notin AgentsMdCheck(disk')
  <2>1. CASE setup.mode = "plugin"
    BY <1>8, <1>9, <1>10, <2>1 DEF AgentsMdCheck
  <2>2. CASE setup.mode = "legacy"
    <3>1. Promised("agents.md")
      BY <1>2, <1>3, <1>21 DEF Promised
    <3>2. \/ setup.merge \/ ~disk.md.there
          \/ setup.force /\ (Managed(disk.md) => FirstTable(disk.md) = Table(disk))
      BY <2>2, <3>1 DEF DoctorInv, MdPromise
    <3>3. Contract(disk'.md)
      BY <1>1, <1>2, <1>6, <2>2, <3>2, LegacyMdIs
    <3> QED BY <1>10, <3>3 DEF AgentsMdCheck
  <2> QED BY <1>2, <2>1, <2>2
<1>22. ASSUME c = "mcp" PROVE "mcp" \notin McpCheck(disk')
  <2>1. CASE setup.mode = "legacy"
    BY <1>8, <1>9, <1>10, <1>11, <2>1 DEF McpCheck
  <2>2. CASE setup.mode = "plugin"
    <3>1. Promised("mcp")
      BY <1>2, <1>3, <1>22 DEF Promised
    <3>2. setup.mcp = "compat" \/ On(disk) = {}
      BY <1>4, <2>2, <3>1 DEF DoctorInv, McpPromise
    <3>3. On(disk') = On(disk)
      BY <1>8, SameServers
    <3>4. setup.mcp = "compat" => On(disk) = McpServers
      BY <1>9, <2>2
    <3> QED BY <1>8, <1>9, <1>10, <1>11, <3>2, <3>3, <3>4 DEF McpCheck
  <2> QED BY <1>2, <2>1, <2>2
<1> SUFFICES ASSUME c \in Complaints(disk') PROVE FALSE
  OBVIOUS
<1>23. c \in {"config", "seeded", "hooks", "prompts", "skills", "roles", "spark", "models", "agents.md", "mcp"}
  BY <1>2, ComplaintIs DEF ByHand
<1> HIDE DEF c
<1> QED BY <1>12, <1>13, <1>14, <1>15, <1>16, <1>17, <1>18, <1>20, <1>21, <1>22, <1>23, ComplaintIs

LEMMA NoComplaintIsWired == PassIsWired
<1> SUFFICES ASSUME Complaints(disk) = {}, scoped \/ ~disk.flag PROVE Wired
  BY DEF PassIsWired
<1>1. ConfigCheck(disk) = {} /\ HooksCheck(disk) = {} /\ SkillsCheck(disk) = {}
  BY DEF Complaints
<1>2. \A b, p : Says(b, p) = {} => ~p
  BY DEF Says
<1>3. disk.config = "owx"
  BY <1>1, <1>2 DEF ConfigCheck
<1>4. CASE PluginHooks(disk)
  <2>1. disk.mode = "plugin" /\ disk.flag
    BY <1>4 DEF PluginHooks
  <2>2. disk.cache = "current"
    BY <1>1, <1>2, <1>4 DEF HooksCheck, PluginHooksCheck
  <2>3. disk.enabled
    BY <1>1, <1>2, <2>1 DEF SkillsCheck, MarketCheck
  <2> QED BY <2>1, <2>2, <2>3 DEF Wired
<1>5. CASE ~PluginHooks(disk)
  BY <1>1, <1>2, <1>3, <1>5 DEF HooksCheck, Wired
<1> QED BY <1>4, <1>5

LEMMA DoctorShape == DoctorInv => DoctorTypeOK
<1> SUFFICES ASSUME DoctorInv PROVE DoctorTypeOK
  OBVIOUS
<1>1. disk \in Disks /\ NoConfig(disk) /\ NoMd(disk) /\ DOMAIN disk = Fields /\ befallen \in 0..MaxEvents
      /\ DOMAIN setup = DOMAIN NoSetup
  BY DiskFields DEF DoctorInv, SetupShape
<1>2. /\ disk.mode \in {"none", "legacy", "plugin"} /\ disk.mcp \in {"none", "compat"}
      /\ disk.config \in {"absent", "bare", "owx"}
      /\ disk.hooks \in {"absent", "partial", "unreadable", "foreign", "full"}
      /\ disk.cache \in {"none", "stale", "current"}
      /\ disk.seeded \in BOOLEAN /\ disk.flag \in BOOLEAN /\ disk.enabled \in BOOLEAN
      /\ disk.direct \in BOOLEAN
  BY <1>1 DEF Disks
<1>3. disk.config = "absent" => disk = WithoutConfig(disk)
  <2> SUFFICES ASSUME disk.config = "absent" PROVE disk = WithoutConfig(disk)
    OBVIOUS
  <2>1. /\ disk.model = "none" /\ disk.seeded = FALSE /\ disk.flag = FALSE /\ disk.market = "none"
        /\ disk.enabled = FALSE /\ disk.mcps = Bare.mcps /\ disk.direct = FALSE
        /\ disk.explore = "unset" /\ disk.lore = "unset"
    BY <1>1, <1>2 DEF NoConfig, Bare
  <2>2. \A f \in Fields : WithoutConfig(disk)[f] = disk[f]
    BY <1>1, <2>1, FieldsAre DEF WithoutConfig
  <2>3. DOMAIN WithoutConfig(disk) = Fields /\ WithoutConfig(disk) = [f \in Fields |-> WithoutConfig(disk)[f]]
        /\ disk = [f \in Fields |-> disk[f]]
    BY <1>1 DEF WithoutConfig, Disks
  <2> QED BY <2>2, <2>3
<1> QED BY <1>1, <1>2, <1>3 DEF DoctorTypeOK, NoMd, Bare, Fields

(* The doctor's advice heals, a doctor without complaints means hooks that *)
(* fire, and what the doctor looks at is well-formed                       *)
(* (src/cli/doctor.ts, src/cli/setup.ts).                                  *)
LEMMA DoctorKept ==
  ASSUME DoctorBase
  PROVE  DoctorInit /\ [][DoctorNext]_doctorVars => []DoctorTypeOK /\ []PassIsWired /\ AdviceHeals
<1>1. DoctorInit => DoctorInv
  BY DoctorBegins
<1>2. DoctorInv /\ [DoctorNext]_doctorVars => DoctorInv'
  BY DoctorSteps
<1>3. DoctorInv => [/\ setup.at # "idle" /\ SetupStep /\ setup'.at = "idle"
                    /\ setup.about # None /\ ~setup.excused
                    => setup.about[1] \notin Complaints(disk')]_doctorVars
  BY LastStepHeals
<1> QED BY <1>1, <1>2, <1>3, DoctorShape, NoComplaintIsWired, PTL DEF AdviceHeals

(* For any servers, any setups of the user's own and any number of things  *)
(* that befall the installation: a setup that the user runs for a          *)
(* complaint as the doctor's message says leaves that complaint behind,    *)
(* but for the cases of Excused, and a doctor without complaints means     *)
(* hooks that fire (src/cli/doctor.ts, src/cli/setup.ts).                  *)
THEOREM DoctorHolds ==
  ASSUME DoctorBase
  PROVE  DoctorSpec => []PassIsWired /\ AdviceHeals
BY DoctorKept, PTL DEF DoctorSpec

-----------------------------------------------------------------------------
(* The shapes of the variables and the bounds of their counters.           *)

(* What the rotation's invariant says of a command includes its shape.     *)
LEMMA AuthShapes == AuthIInv => AuthTypeOK
<1> SUFFICES ASSUME AuthIInv PROVE AuthTypeOK
  OBVIOUS
<1>1. ASSUME NEW t \in Terminals
      PROVE  /\ job[t].pc \in {"idle", "plan", "swap", "store", "read", "save", "run", "blame", "mark", "done"}
             /\ job[t].slot \in Slots \cup {0} /\ job[t].tried \subseteq Slots
             /\ job[t].seen \in Metadata
  <2>1. job[t] \in JobRecord
    BY DEF AuthIInv, AuthShape, Job
  <2> QED BY <2>1 DEF JobRecord, Underway
<1> QED BY <1>1 DEF AuthIInv, AuthShape, AuthTypeOK

LEMMA AuthTypes ==
  ASSUME IsFiniteSet(Slots), Slots \subseteq Nat \ {0}
  PROVE  AuthInit /\ [][AuthNext]_authVars => []AuthTypeOK
BY JobsKept, AuthShapes, PTL

-----------------------------------------------------------------------------
(* The calls are numbered within their bound, and so are their entries.    *)
Few == Tools \X (1..MaxEntries)
MemoryBounds ==
  /\ entries <= MaxEntries
  /\ \A d \in Documents : doc[d] \subseteq Few /\ promised[d] \subseteq Few
  /\ \A s \in Servers : tmp[s] = NoFile \/ tmp[s] \subseteq Few
  /\ \A h \in Handlers : /\ handler[h].read \subseteq Few
                         /\ handler[h].at # "rest" => <<handler[h].tool, handler[h].n>> \in Few

LEMMA MemoryBounded ==
  ASSUME MaxEntries \in Nat
  PROVE  MemoryShape /\ MemoryBounds /\ [MemoryNext]_memoryVars => MemoryBounds'
<1> SUFFICES ASSUME MemoryShape, MemoryBounds, [MemoryNext]_memoryVars PROVE MemoryBounds'
  OBVIOUS
<1> USE DEF MemoryShape, MemoryBounds
<1>0. /\ AtRest.at = "rest" /\ AtRest.read = {} /\ AtRest.n = 0 /\ AtRest.tool = "none"
      /\ \A h \in Handlers : handler[h] \in Call /\ ServerOf[h] \in Servers
      /\ \A h \in Handlers : handler[h].at # "rest" => Written(h) \subseteq Few
  BY DEF AtRest, Servers, Written, Brought
<1>1. ASSUME NEW h \in Handlers, NEW tool \in Tools, NEW heads \in BOOLEAN, BeginTool(h, tool, heads) PROVE MemoryBounds'
  <2> DEFINE c == [AtRest EXCEPT !.tool = tool, !.at = "read", !.n = entries + 1, !.heads = heads]
  <2>1. c.read = {} /\ c.tool = tool /\ c.n = entries + 1
    BY DEF AtRest
  <2>2. entries' = entries + 1 /\ entries + 1 \in 1..MaxEntries /\ UNCHANGED <<doc, tmp>>
    BY <1>1 DEF BeginTool
  <2>3. <<c.tool, c.n>> \in Few
    BY <2>1, <2>2 DEF Few
  <2>4. handler' = [handler EXCEPT ![h] = c]
    BY <1>1 DEF BeginTool
  <2> HIDE DEF c
  <2>5. \A d \in Documents : promised'[d] \subseteq promised[d]
    BY <1>1 DEF BeginTool
  <2>6. \A g \in Handlers : handler'[g] = IF g = h THEN c ELSE handler[g]
    BY <2>4
  <2> QED BY <2>1, <2>2, <2>3, <2>5, <2>6
<1>2. ASSUME NEW h \in Handlers, NEW gone \in SUBSET doc[DocumentOf(handler[h].tool)], ReadDocument(h, gone)
      PROVE  MemoryBounds'
  <2>1. handler[h].at = "read" /\ UNCHANGED <<doc, tmp, promised, entries>>
    BY <1>2 DEF ReadDocument
  <2>2. doc[DocumentOf(handler[h].tool)] \subseteq Few
    BY <1>0, <2>1, DocumentKnown DEF Call
  <2>3. \A g \in Handlers : \/ handler'[g] = handler[g] \/ handler'[g] = AtRest
                            \/ g = h /\ /\ handler'[g].tool = handler[g].tool /\ handler'[g].n = handler[g].n
                                        /\ handler'[g].read = doc[DocumentOf(handler[h].tool)]
    BY <1>0, <1>2 DEF ReadDocument, Call
  <2> QED BY <1>0, <2>1, <2>2, <2>3
<1>3. ASSUME NEW h \in Handlers, OpenFile(h) PROVE MemoryBounds'
  <2>1. UNCHANGED <<promised, entries>> /\ handler[h].at = "open"
    BY <1>3 DEF OpenFile
  <2>2. \A g \in Handlers : /\ handler'[g].tool = handler[g].tool /\ handler'[g].n = handler[g].n
                            /\ handler'[g].read = handler[g].read
                            /\ handler'[g].at # "rest" => handler[g].at # "rest"
    BY <1>0, <1>3 DEF OpenFile, Call
  <2>3. \A s \in Servers : tmp'[s] = tmp[s] \/ tmp'[s] = {}
    BY <1>3 DEF OpenFile
  <2>4. \A d \in Documents : doc'[d] = doc[d] \/ doc'[d] = {}
    BY <1>3 DEF OpenFile
  <2> QED BY <2>1, <2>2, <2>3, <2>4
<1>4. ASSUME NEW h \in Handlers, FillFile(h) PROVE MemoryBounds'
  <2> DEFINE d == DocumentOf(handler[h].tool)
  <2>1. /\ handler[h].at = "fill" /\ entries' = entries
        /\ \/ handler' = [handler EXCEPT ![h].at = "rename"] /\ UNCHANGED promised
           \/ /\ handler' = [handler EXCEPT ![h] = AtRest]
              /\ promised' = [promised EXCEPT ![d] = Promises(h)]
    BY <1>4 DEF FillFile
  <2>2. Written(h) \subseteq Few /\ <<handler[h].tool, handler[h].n>> \in Few
    BY <1>0, <2>1
  <2>3. \A s \in Servers : tmp'[s] = tmp[s] \/ tmp'[s] = Written(h)
    BY <1>4 DEF FillFile
  <2>4. \A e \in Documents : doc'[e] = doc[e] \/ doc'[e] = Written(h)
    BY <1>4 DEF FillFile
  <2>5. \A e \in Documents : promised'[e] \subseteq promised[e] \cup {<<handler[h].tool, handler[h].n>>}
    <3>1. Promises(h) \subseteq promised[d] \cup {<<handler[h].tool, handler[h].n>>}
      BY DEF Promises, Brought
    <3> HIDE DEF d
    <3> QED BY <2>1, <3>1
  <2>6. \A g \in Handlers : \/ handler'[g] = AtRest
                            \/ /\ handler'[g].tool = handler[g].tool /\ handler'[g].n = handler[g].n
                               /\ handler'[g].read = handler[g].read
                               /\ handler'[g].at # "rest" => handler[g].at # "rest"
    BY <1>0, <2>1 DEF Call
  <2> HIDE DEF d
  <2> QED BY <1>0, <2>1, <2>2, <2>3, <2>4, <2>5, <2>6
<1>5. ASSUME NEW h \in Handlers, RenameFile(h) PROVE MemoryBounds'
  <2>1. /\ handler[h].at = "rename" /\ tmp[ServerOf[h]] # NoFile /\ entries' = entries
        /\ doc' = [doc EXCEPT !["notepad"] = tmp[ServerOf[h]]]
        /\ tmp' = [tmp EXCEPT ![ServerOf[h]] = NoFile]
        /\ promised' = [promised EXCEPT !["notepad"] = Promises(h)]
    BY <1>5 DEF RenameFile
  <2>4. Promises(h) \subseteq promised["notepad"] \cup {<<handler[h].tool, handler[h].n>>}
    <3>1. DocumentOf(handler[h].tool) = "notepad"
      BY <1>0, <2>1, DocumentKnown DEF Call
    <3> QED BY <3>1 DEF Promises, Brought
  <2>2. /\ \A e \in Documents : doc'[e] \subseteq Few
        /\ \A s \in Servers : tmp'[s] = tmp[s] \/ tmp'[s] = NoFile
        /\ \A e \in Documents : promised'[e] \subseteq promised[e] \cup {<<handler[h].tool, handler[h].n>>}
    BY <1>0, <2>1, <2>4
  <2>3. \A g \in Handlers : \/ handler'[g] = AtRest
                            \/ /\ handler'[g].tool = handler[g].tool /\ handler'[g].n = handler[g].n
                               /\ handler'[g].read = handler[g].read /\ handler'[g].at = handler[g].at
    BY <1>0, <1>5 DEF RenameFile, Call
  <2> QED BY <1>0, <2>1, <2>2, <2>3
<1>6. ASSUME NEW h \in Handlers, RenameFails(h) PROVE MemoryBounds'
  <2>1. \A g \in Handlers : handler'[g] = AtRest \/ handler'[g] = handler[g]
    BY <1>6 DEF RenameFails
  <2> QED BY <1>0, <1>6, <2>1 DEF RenameFails
<1>9. ASSUME NEW h \in Handlers, NothingToPrune(h) PROVE MemoryBounds'
  <2>1. \A g \in Handlers : handler'[g] = AtRest \/ handler'[g] = handler[g]
    BY <1>9 DEF NothingToPrune
  <2> QED BY <1>0, <1>9, <2>1 DEF NothingToPrune
<1>7. ASSUME NEW s \in Servers, ServerDies(s) PROVE MemoryBounds'
  <2>1. \A g \in Handlers : handler'[g] = AtRest \/ handler'[g] = handler[g]
    BY <1>7 DEF ServerDies
  <2> QED BY <1>0, <1>7, <2>1 DEF ServerDies
<1>8. CASE UNCHANGED memoryVars
  BY <1>8 DEF memoryVars
<1> QED BY <1>1, <1>2, <1>3, <1>4, <1>5, <1>6, <1>7, <1>8, <1>9 DEF MemoryNext

LEMMA MemoryTypes ==
  ASSUME MaxEntries \in Nat
  PROVE  MemoryInit /\ [][MemoryNext]_memoryVars => []MemoryTypeOK
<1>1. MemoryInit => MemoryShape /\ MemoryBounds
  <2> SUFFICES ASSUME MemoryInit PROVE MemoryShape /\ MemoryBounds
    OBVIOUS
  <2>1. AtRest \in Call /\ AtRest.at = "rest" /\ AtRest.read = {}
    BY CallSteps DEF AtRest
  <2>2. MemoryShape
    BY <2>1 DEF MemoryInit, MemoryShape
  <2>3. MemoryBounds
    BY <2>1 DEF MemoryInit, MemoryBounds
  <2> QED BY <2>2, <2>3
<1>2. MemoryShape /\ MemoryBounds => MemoryTypeOK
  <2> SUFFICES ASSUME MemoryShape, MemoryBounds PROVE MemoryTypeOK
    OBVIOUS
  <2>1. \A h \in Handlers : handler[h] \in Call
    BY DEF MemoryShape
  <2> QED BY <2>1 DEF MemoryBounds, MemoryTypeOK, Few, Call
<1> QED BY <1>1, <1>2, MemoryShapeKept, MemoryBounded, PTL

-----------------------------------------------------------------------------
(* Commits, candidates and scores stay within their bounds: what is kept is *)
(* a commit of the history, which is no longer than the agent makes it.    *)
FewManifests ==
  [status : {"none", "running"} \cup Terminal, iteration : 0..MaxIterations, kept : 0..MaxCommits,
   score : 0..MaxScore]
ResearchBounds ==
  /\ session \in BOOLEAN /\ active \in [mode : BOOLEAN, lock : BOOLEAN]
  /\ work.dirty \in BOOLEAN /\ work.made \in 0..MaxCommits
  /\ manifest \in FewManifests /\ memory \in FewManifests

ResearchBase == MaxScore \in Nat /\ MaxIterations \in Nat /\ MaxCommits \in Nat

LEMMA CommitsBounded ==
  ASSUME ResearchBase, ResearchInv, ResearchBounds
  PROVE  work.commits \in Seq(0..MaxCommits) /\ HeadOf(work) \in 0..MaxCommits
<1>1. /\ work.commits \in Seq(Nat) /\ Len(work.commits) > 0 /\ work.made \in 0..MaxCommits
      /\ \A i \in 1..Len(work.commits) : work.commits[i] <= work.made
  BY DEF ResearchInv, ResearchShape, KeptInv, InOrder, ResearchBounds
<1>2. \A i \in 1..Len(work.commits) : work.commits[i] \in 0..MaxCommits
  <2> SUFFICES ASSUME NEW i \in 1..Len(work.commits) PROVE work.commits[i] \in 0..MaxCommits
    OBVIOUS
  <2>1. work.commits[i] \in Nat /\ work.commits[i] <= work.made
    BY <1>1
  <2> QED BY <1>1, <2>1 DEF ResearchBase
<1>3. Len(work.commits) \in 1..Len(work.commits)
  BY <1>1
<1>4. work.commits \in [1..Len(work.commits) -> 0..MaxCommits] /\ Len(work.commits) \in Nat
  BY <1>1, <1>2
<1>5. work.commits \in Seq(0..MaxCommits)
  BY <1>4, SeqDef
<1> QED BY <1>1, <1>2, <1>3, <1>5 DEF HeadOf, Last

LEMMA FewSteps ==
  ASSUME ResearchBase
  PROVE  /\ NoManifest \in FewManifests
         /\ \A m \in FewManifests :
              /\ \A n \in 0..MaxScore, c \in 0..MaxCommits :
                   [m EXCEPT !.score = n] \in FewManifests /\ [m EXCEPT !.kept = c, !.score = n] \in FewManifests
              /\ m.iteration < MaxIterations => [m EXCEPT !.iteration = @ + 1] \in FewManifests
              /\ \A s \in Terminal : [m EXCEPT !.status = s] \in FewManifests
<1>1. NoManifest \in FewManifests
  BY DEF ResearchBase, NoManifest, FewManifests, Baseline
<1>2. ASSUME NEW m \in FewManifests
      PROVE  /\ \A n \in 0..MaxScore, c \in 0..MaxCommits :
                   [m EXCEPT !.score = n] \in FewManifests /\ [m EXCEPT !.kept = c, !.score = n] \in FewManifests
             /\ m.iteration < MaxIterations => [m EXCEPT !.iteration = @ + 1] \in FewManifests
             /\ \A s \in Terminal : [m EXCEPT !.status = s] \in FewManifests
  <2>1. m.iteration \in Nat /\ (m.iteration < MaxIterations => m.iteration + 1 \in 0..MaxIterations)
    BY DEF FewManifests, ResearchBase
  <2> QED BY <2>1 DEF FewManifests
<1> QED BY <1>1, <1>2

LEMMA ResearchBounded ==
  ASSUME ResearchBase
  PROVE  ResearchInv /\ ResearchBounds /\ [ResearchNext]_runVars => ResearchBounds'
<1> SUFFICES ASSUME ResearchInv, ResearchBounds, [ResearchNext]_runVars PROVE ResearchBounds'
  OBVIOUS
<1>0. /\ session \in BOOLEAN /\ active \in [mode : BOOLEAN, lock : BOOLEAN]
      /\ work.dirty \in BOOLEAN /\ work.made \in 0..MaxCommits
      /\ manifest \in FewManifests /\ memory \in FewManifests /\ NoManifest \in FewManifests
      /\ work = [commits |-> work.commits, dirty |-> work.dirty, made |-> work.made]
      /\ HeadOf(work) \in 0..MaxCommits
  BY CommitsBounded, FewSteps DEF ResearchBounds, ResearchInv, ResearchShape
<1>1. /\ ModeStarted => active' \in [mode : BOOLEAN, lock : BOOLEAN]
      /\ ModeEnded => active' \in [mode : BOOLEAN, lock : BOOLEAN]
      /\ \A on \in BOOLEAN : LockSet(on) => active' \in [mode : BOOLEAN, lock : BOOLEAN]
  <2> DEFINE Actives == [mode : BOOLEAN, lock : BOOLEAN]
  <2>1. \A m, l \in BOOLEAN : [mode |-> m, lock |-> l] \in Actives
    OBVIOUS
  <2>2. active.mode \in BOOLEAN /\ active.lock \in BOOLEAN
    BY <1>0
  <2>3. (session /\ active.lock) \in BOOLEAN /\ TRUE \in BOOLEAN /\ FALSE \in BOOLEAN
    OBVIOUS
  <2>4. [mode |-> TRUE, lock |-> session /\ active.lock] \in Actives
        /\ [mode |-> FALSE, lock |-> session /\ active.lock] \in Actives
    <3> HIDE DEF Actives
    <3> QED BY <2>1, <2>3, Zenon
  <2>5. \A on \in BOOLEAN : [mode |-> IF session THEN active.mode ELSE on, lock |-> on] \in Actives
    <3> HIDE DEF Actives
    <3>1. \A on \in BOOLEAN : (IF session THEN active.mode ELSE on) \in BOOLEAN
      BY <2>2
    <3> QED BY <2>1, <3>1, Zenon
  <2> HIDE DEF Actives
  <2>6. \A on \in BOOLEAN : LockSet(on) => active' \in Actives
    BY <2>5, Zenon DEF LockSet
  <2> QED BY <2>4, <2>6, Zenon DEF ModeStarted, ModeEnded, Actives
<1>2. CASE Prepare
  <2>1. memory' \in FewManifests
    <3>1. [NoManifest EXCEPT !.status = "running", !.kept = HeadOf(work)] \in FewManifests
      BY <1>0 DEF FewManifests
    <3> QED BY <1>2, <3>1 DEF Prepare
  <2> QED BY <1>0, <1>2, <2>1 DEF Prepare, ResearchBounds
<1>3. CASE Resume
  BY <1>0, <1>3 DEF Resume, ResearchBounds
<1>4. CASE StartMode \/ EndMode \/ StopMode
  BY <1>0, <1>1, <1>4 DEF StartMode, EndMode, StopMode, ResearchBounds
<1>5. CASE Activate \/ EndLock \/ StopLock
  BY <1>0, <1>1, <1>5 DEF Activate, EndLock, StopLock, ResearchBounds
<1>6. ASSUME NEW result \in Results, SeedBaseline(result) PROVE ResearchBounds'
  <2>1. (IF result.status = "pass" THEN result.score ELSE 0) \in 0..MaxScore
    BY DEF Results, ResearchBase
  <2>2. memory' \in FewManifests
    BY <1>0, <1>6, <2>1, FewSteps DEF SeedBaseline
  <2> QED BY <1>0, <1>6, <2>2 DEF SeedBaseline, ResearchBounds
<1>7. ASSUME NEW result \in Results, Evaluate(result) PROVE ResearchBounds'
  <2>1. result.score \in 0..MaxScore /\ memory.score \in 0..MaxScore
    BY <1>0 DEF Results, ResearchBase, FewManifests
  <2>2. work'.dirty = work.dirty /\ work'.made = work.made /\ UNCHANGED <<session, manifest, active>>
    BY <1>0, <1>7 DEF Evaluate
  <2>3. memory' \in FewManifests
    <3> DEFINE n == IF result.score = 0 THEN memory.score ELSE result.score
    <3>1. n \in 0..MaxScore
      BY <2>1
    <3>2. [memory EXCEPT !.kept = HeadOf(work), !.score = IF result.score = 0 THEN @ ELSE result.score]
            = [memory EXCEPT !.kept = HeadOf(work), !.score = n]
      BY <1>0 DEF FewManifests
    <3>3. [memory EXCEPT !.kept = HeadOf(work), !.score = n] \in FewManifests
      <4> HIDE DEF n
      <4> QED BY <1>0, <3>1, FewSteps
    <3> HIDE DEF n
    <3> QED BY <1>0, <1>7, <3>2, <3>3 DEF Evaluate
  <2> QED BY <1>0, <2>2, <2>3 DEF ResearchBounds
<1>8. CASE AgentCommits
  BY <1>0, <1>8 DEF AgentCommits, ResearchBounds, ResearchBase
<1>9. CASE AgentEdits \/ CleanWorktree
  BY <1>0, <1>9 DEF AgentEdits, CleanWorktree, ResearchBounds
<1>10. ASSUME NEW status, NEW commit, NEW base, AgentReports(status, commit, base) PROVE ResearchBounds'
  BY <1>0, <1>10, FewSteps DEF AgentReports, ResearchBounds
<1>11. CASE Process
  <2>1. memory' = memory \/ \E s \in Terminal : memory' = [memory EXCEPT !.status = s]
    BY <1>11 DEF Process, Ends, Terminal
  <2>2. memory' \in FewManifests
    <3>1. ASSUME NEW s \in Terminal, memory' = [memory EXCEPT !.status = s] PROVE memory' \in FewManifests
      BY <1>0, <3>1, FewSteps
    <3> QED BY <1>0, <2>1, <3>1
  <2> QED BY <1>0, <1>11, <2>2 DEF Process, ResearchBounds
<1>12. CASE LogKept \/ SaveManifest \/ EndManifest
  BY <1>0, <1>12 DEF LogKept, SaveManifest, EndManifest, ResearchBounds
<1>13. CASE StopRun
  <2>1. manifest' \in FewManifests
    BY <1>0, <1>13, FewSteps DEF StopRun, Terminal
  <2> QED BY <1>0, <1>1, <1>13, <2>1 DEF StopRun, ResearchBounds
<1>14. CASE Dies
  BY <1>0, <1>14 DEF Dies, ResearchBounds
<1>15. CASE UNCHANGED runVars
  BY <1>15 DEF runVars, ResearchBounds
<1> QED BY <1>2, <1>3, <1>4, <1>5, <1>6, <1>7, <1>8, <1>9, <1>10, <1>11, <1>12, <1>13, <1>14, <1>15 DEF ResearchNext

LEMMA ResearchTypes ==
  ASSUME ResearchBase
  PROVE  ResearchInit /\ [][ResearchNext]_runVars => []ResearchTypeOK
<1>1. ResearchInit => ResearchBounds
  <2> SUFFICES ASSUME ResearchInit PROVE ResearchBounds
    OBVIOUS
  <2>1. active \in [mode : BOOLEAN, lock : BOOLEAN] /\ session \in BOOLEAN
    BY DEF ResearchInit
  <2>2. work.dirty \in BOOLEAN /\ work.made \in 0..MaxCommits
    BY DEF ResearchInit, ResearchBase
  <2>3. manifest \in FewManifests /\ memory \in FewManifests
    BY FewSteps DEF ResearchInit
  <2> QED BY <2>1, <2>2, <2>3 DEF ResearchBounds
<1>2. ResearchInv /\ ResearchBounds => ResearchTypeOK
  <2> SUFFICES ASSUME ResearchInv, ResearchBounds PROVE ResearchTypeOK
    OBVIOUS
  <2>1. ASSUME NEW m \in FewManifests
        PROVE  /\ m.status \in {"none", "running"} \cup Terminal
               /\ m.iteration \in 0..MaxIterations /\ m.kept \in 0..MaxCommits /\ m.score \in 0..MaxScore
    BY DEF FewManifests
  <2> QED BY <2>1, CommitsBounded DEF ResearchBounds, ResearchTypeOK
<1>3. ResearchInv /\ [ResearchNext]_runVars => ResearchInv'
  BY ResearchKept DEF ResearchBase
<1> QED BY <1>1, <1>2, <1>3, ResearchBegins, ResearchBounded, PTL

(* A hook that is about to mark an event as sent has told somebody of it,  *)
(* and what it read of the marks has been told.                            *)
HookTells ==
  /\ sent \subseteq told /\ told \subseteq Roots \X Notified
  /\ \A x \in Sessions :
       /\ hook[x].seen \subseteq told
       /\ hook[x].at \in {"notify", "send", "mark"} => hook[x].event \in Notified
       /\ hook[x].at = "mark" => <<x, hook[x].event>> \in told

LEMMA HookTellsKept == HookShape /\ HookTells /\ [PluginNext]_pluginVars => HookTells'
<1> SUFFICES ASSUME HookShape, HookTells, [PluginNext]_pluginVars PROVE HookTells'
  OBVIOUS
<1> USE DEF HookShape, HookTells
<1>1. ASSUME NEW x \in Sessions, NEW e \in Events, Begin(x, e) PROVE HookTells'
  <2>1. UNCHANGED <<sent, told>>
    BY <1>1 DEF Begin
  <2>2. \A s \in Sessions :
          /\ hook'[s].seen = IF s = x THEN {} ELSE hook[s].seen
          /\ s # x => hook'[s].at = hook[s].at /\ hook'[s].event = hook[s].event
          /\ hook'[x].at \in {"idle", "plugins"}
    BY <1>1 DEF Begin, Began, Idle
  <2> QED BY <2>1, <2>2
<1>2. ASSUME NEW x \in Sessions, AfterPlugins(x) PROVE HookTells'
  BY <1>2 DEF AfterPlugins
<1>3. ASSUME NEW x \in Sessions, ReadSent(x) PROVE HookTells'
  BY <1>3 DEF ReadSent
<1>4. ASSUME NEW x \in Sessions, Send(x) PROVE HookTells'
  <2>1. x \in Roots /\ hook[x].event \in Notified
    BY <1>4 DEF Send
  <2> QED BY <1>4, <2>1 DEF Send
<1>5. ASSUME NEW x \in Sessions, Mark(x) PROVE HookTells'
  BY <1>5 DEF Mark
<1>6. ASSUME NEW x \in Sessions,
             \/ Started(x) \/ Prompt(x) \/ PostToolUse(x) \/ PreToolUse(x) \/ Stop(x)
      PROVE  HookTells'
  <2>1. PICK answer \in {"none", "allow", "block"} :
          hook' = [hook EXCEPT ![x] = [Idle EXCEPT !.answer = answer]] /\ UNCHANGED <<sent, told>>
    BY <1>6 DEF Started, Prompt, PostToolUse, PreToolUse, Stop, Answer
  <2> QED BY <2>1 DEF Idle
<1>7. ASSUME NEW x \in Sessions, NEW m \in Skills, StateWrite(x, m) PROVE HookTells'
  BY <1>7 DEF StateWrite
<1>8. CASE UNCHANGED pluginVars
  BY <1>8 DEF pluginVars
<1> QED BY <1>1, <1>2, <1>3, <1>4, <1>5, <1>6, <1>7, <1>8 DEF PluginNext

(* What a hook records of a thread leaves the tracker in shape.            *)
LEMMA TrackedKept ==
  ASSUME tracked \in [Sessions -> Trackers], NEW s \in Sessions, NEW t \in Sessions,
         NEW k \in Kinds
  PROVE  Tracked(s, t, k) \in [Sessions -> Trackers]
<1> DEFINE r == [tracked[s] EXCEPT !.kind[t] = k, !.leader = IF k = "leader" THEN t ELSE @]
<1>1. r \in Trackers
  BY DEF Trackers
<1>2. Tracked(s, t, k) = [tracked EXCEPT ![s] = r]
  BY DEF Tracked
<1> HIDE DEF r
<1> QED BY <1>1, <1>2

(* What the hooks and the agents' writes leave on disk.                    *)
PluginFiles ==
  /\ pointer \in Sessions \cup {Nobody}
  /\ tracked \in [Sessions -> Trackers]
  /\ copy \in [Roots -> SUBSET Skills] /\ modes \in [Roots -> SUBSET Skills]
  /\ runstate \in [Roots -> {<<>>} \cup (Skills \X BOOLEAN)]
  /\ hooks \in 0..MaxHooks /\ writes \in 0..MaxWrites

LEMMA PluginFilesKept ==
  MaxHooks \in Nat /\ MaxWrites \in Nat /\ PluginFiles /\ [PluginNext]_pluginVars => PluginFiles'
<1> SUFFICES ASSUME MaxHooks \in Nat, MaxWrites \in Nat, PluginFiles, [PluginNext]_pluginVars
             PROVE  PluginFiles'
  OBVIOUS
<1>1. ASSUME NEW x \in Sessions, NEW e \in Events, Begin(x, e) PROVE PluginFiles'
  <2>1. pointer' \in Sessions \cup {Nobody} /\ tracked' \in [Sessions -> Trackers]
    BY <1>1, TrackedKept DEF Begin, RecordSessionStart, Attached, CloseChild, Observe, PluginFiles,
       Sessions, Kinds
  <2> QED BY <1>1, <2>1 DEF Begin, PluginFiles
<1>2. ASSUME NEW x \in Sessions, AfterPlugins(x) \/ ReadSent(x) \/ Send(x) \/ Mark(x)
      PROVE  PluginFiles'
  BY <1>2 DEF AfterPlugins, ReadSent, Send, Mark, PluginFiles
<1>3. ASSUME NEW x \in Sessions, Started(x) \/ PreToolUse(x) \/ Stop(x) PROVE PluginFiles'
  BY <1>3 DEF Started, PreToolUse, Stop, PluginFiles
<1>4. ASSUME NEW x \in Sessions, Prompt(x) PROVE PluginFiles'
  BY <1>4 DEF Prompt, PluginFiles
<1>5. ASSUME NEW x \in Sessions, PostToolUse(x) PROVE PluginFiles'
  BY <1>5, TrackedKept DEF PostToolUse, PluginFiles, Sessions, Kinds
<1>6. ASSUME NEW x \in Sessions, NEW m \in Skills, StateWrite(x, m) PROVE PluginFiles'
  <2> DEFINE runs == m \in modes'[x]
  <2>1. runs \in BOOLEAN
    OBVIOUS
  <2>2. \/ runstate' = [runstate EXCEPT ![x] = <<m, runs>>]
        \/ UNCHANGED runstate
    BY <1>6 DEF StateWrite
  <2>3. modes' \in [Roots -> SUBSET Skills]
    BY <1>6 DEF StateWrite, PluginFiles
  <2> HIDE DEF runs
  <2>4. runstate' \in [Roots -> {<<>>} \cup (Skills \X BOOLEAN)]
    BY <2>1, <2>2 DEF PluginFiles
  <2>5. writes' \in 0..MaxWrites /\ UNCHANGED <<pointer, tracked, copy, hooks>>
    BY <1>6 DEF StateWrite, PluginFiles
  <2> QED BY <2>3, <2>4, <2>5 DEF PluginFiles
<1>7. CASE UNCHANGED pluginVars
  BY <1>7 DEF pluginVars, PluginFiles
<1> QED BY <1>1, <1>2, <1>3, <1>4, <1>5, <1>6, <1>7 DEF PluginNext

(* Every file of the plugin's hooks has its shape, and an event is marked  *)
(* as sent only after somebody was told of it                              *)
(* (codex-native-hook.mjs:893-935).                                        *)
LEMMA PluginTypes ==
  ASSUME MaxHooks \in Nat, MaxWrites \in Nat
  PROVE  PluginSpec => []PluginTypeOK
<1>1. PluginInit => HookShape /\ HookTells /\ PluginFiles
  BY DEF PluginInit, HookShape, HookTells, PluginFiles, Idle, Events, Trackers, Kinds
<1>2. HookTells /\ PluginFiles => PluginTypeOK
  BY DEF HookTells, PluginFiles, PluginTypeOK
<1> QED BY <1>1, <1>2, PluginShapeKept, HookTellsKept, PluginFilesKept, PTL DEF PluginSpec
=============================================================================
