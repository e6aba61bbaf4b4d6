----------------------------- MODULE MemoryServer -----------------------------
(***************************************************************************)
(* The tools of src/mcp/memory-server.ts on .owx/notepad.md and            *)
(* .owx/project-memory.json.  Nothing serialises them: Codex may have      *)
(* several calls of one server under way, and several servers run.         *)
(*                                                                         *)
(* The note tools write a file named after the pid of their server and     *)
(* rename it; notepad_prune and the memory tools write in place, which is  *)
(* a truncation and then the content.  An unreadable file counts as empty. *)
(* A file is the set of its entries, numbered by the calls that brought    *)
(* them; an open file stays the same one when it is renamed.               *)
(*                                                                         *)
(* The sections of the notepad are found by the text of their headers,     *)
(* which a note may hold as well.  From then on a priority note and a      *)
(* prune may take any piece of the file for the section they replace; a    *)
(* note that is appended lands elsewhere, but removes nothing.             *)
(***************************************************************************)
EXTENDS Naturals, FiniteSets

CONSTANTS
  Handlers,    \* tool calls that may be under way together
  ServerOf,    \* the server that handles each
  MaxEntries,  \* bound on tool calls
  MaxCuts      \* bound on servers that die

VARIABLES
  doc,         \* the two files
  tmp,         \* per server: the file it is about to rename
  handler,     \* per handler: its tool, what it read, where its open file is
  promised,    \* entries a call has answered for, not pruned or replaced since
  headed,      \* whether a note with a heading of its own has been written
  disturbed,   \* whether calls on a file overlapped or a write in place was cut,
               \* since it last was at rest before a call
  entries, cuts

memoryVars == <<doc, tmp, handler, promised, headed, disturbed, entries, cuts>>

Documents == {"notepad", "memory"}
Tools == {"priority", "working", "manual", "prune", "note", "rewrite"}
Servers == {ServerOf[h] : h \in Handlers}
NoFile == {"no file"}
AtRest == [tool |-> "none", at |-> "rest", n |-> 0, heads |-> FALSE, read |-> {}, gone |-> {},
           file |-> "none"]

DocumentOf(tool) == IF tool \in {"note", "rewrite"} THEN "memory" ELSE "notepad"
Renames(tool) == tool \in {"priority", "working", "manual"}

OnDocument(d) == {h \in Handlers : handler[h].at # "rest" /\ DocumentOf(handler[h].tool) = d}

MemoryInit ==
  /\ doc = [d \in Documents |-> {}] /\ promised = doc
  /\ tmp = [s \in Servers |-> NoFile]
  /\ handler = [h \in Handlers |-> AtRest]
  /\ disturbed = [d \in Documents |-> FALSE]
  /\ headed = FALSE /\ entries = 0 /\ cuts = 0

-----------------------------------------------------------------------------
(* What a tool may leave out of what it read: the section that             *)
(* replaceSection finds, nothing in appendToSection, the memory that is    *)
(* written anew, and some dated lines for notepad_prune.                   *)
Of(section, content) == {e \in content : e[1] = section}
\* A note would replace its section, where it is added to it.
ReplacedFault(tool, content) == {Of(tool, content)}
Replaced(tool, content) ==
  CASE tool = "priority" -> IF headed THEN SUBSET content ELSE {Of("priority", content)}
    [] tool = "rewrite" -> {content}
    [] tool = "prune" -> (SUBSET IF headed THEN content ELSE Of("working", content)) \ {{}}
    [] OTHER -> {{}}
Brought(c) == IF c.tool = "prune" THEN {} ELSE {<<c.tool, c.n>>}
Written(h) == (handler[h].read \ handler[h].gone) \cup Brought(handler[h])

\* handleMemoryToolCall, up to its first read.
BeginTool(h, tool, heads) ==
  /\ handler[h].at = "rest" /\ entries < MaxEntries /\ (heads => Renames(tool))
  /\ entries' = entries + 1
  /\ handler' = [handler EXCEPT ![h] = [AtRest EXCEPT !.tool = tool, !.at = "read", !.n = entries + 1,
                                                      !.heads = heads]]
  /\ LET d == DocumentOf(tool) IN
     IF OnDocument(d) # {}
     THEN disturbed' = [disturbed EXCEPT ![d] = TRUE] /\ UNCHANGED promised
     ELSE /\ disturbed' = [disturbed EXCEPT ![d] = FALSE]
          /\ promised' = [promised EXCEPT ![d] = @ \cap doc[d]]
  /\ UNCHANGED <<doc, tmp, headed, cuts>>

\* A prune that finds no entry old enough is over.
ReadDocument(h, gone) ==
  LET c == handler[h]  content == doc[DocumentOf(c.tool)] IN
  /\ c.at = "read" /\ gone \in Replaced(c.tool, content)
  /\ handler' = [handler EXCEPT ![h] = [@ EXCEPT !.read = content, !.gone = gone, !.at = "open"]]
  /\ UNCHANGED <<doc, tmp, promised, headed, disturbed, entries, cuts>>

NothingToPrune(h) ==
  /\ handler[h].at = "read" /\ handler[h].tool = "prune"
  /\ handler' = [handler EXCEPT ![h] = AtRest]
  /\ UNCHANGED <<doc, tmp, promised, headed, disturbed, entries, cuts>>

\* writeFile opens and truncates the file, then writes it.
OpenFile(h) ==
  LET c == handler[h] IN
  /\ c.at = "open"
  /\ IF Renames(c.tool)
     THEN tmp' = [tmp EXCEPT ![ServerOf[h]] = {}] /\ UNCHANGED doc
     ELSE doc' = [doc EXCEPT ![DocumentOf(c.tool)] = {}] /\ UNCHANGED tmp
  /\ handler' = [handler EXCEPT ![h].at = "fill",
                                ![h].file = IF Renames(c.tool) THEN "tmp" ELSE "doc"]
  /\ UNCHANGED <<promised, headed, disturbed, entries, cuts>>

(* What the caller asked to be rid of: the priority notes, for a new one;  *)
(* the memory, for a new one; the working notes that are pruned - and,     *)
(* where a note has a heading of its own, the piece that was taken for the *)
(* section.                                                                *)
Waives(c, e) ==
  CASE c.tool = "priority" -> e[1] = "priority" \/ (headed /\ e \in c.gone)
    [] c.tool = "rewrite" -> TRUE
    [] c.tool = "prune" -> (e[1] = "working" \/ headed) /\ e \in c.gone
    [] OTHER -> FALSE
Promises(h) == {e \in promised[DocumentOf(handler[h].tool)] : ~Waives(handler[h], e)} \cup Brought(handler[h])

FillFile(h) ==
  LET c == handler[h] IN
  /\ c.at = "fill"
  /\ tmp' = IF c.file = "tmp" THEN [tmp EXCEPT ![ServerOf[h]] = Written(h)] ELSE tmp
  /\ doc' = IF c.file = "doc" THEN [doc EXCEPT ![DocumentOf(c.tool)] = Written(h)] ELSE doc
  /\ headed' = (headed \/ c.heads)
  /\ IF Renames(c.tool)
     THEN handler' = [handler EXCEPT ![h].at = "rename"] /\ UNCHANGED promised
     ELSE /\ handler' = [handler EXCEPT ![h] = AtRest]
          /\ promised' = [promised EXCEPT ![DocumentOf(c.tool)] = Promises(h)]
  /\ UNCHANGED <<disturbed, entries, cuts>>

\* Another call of the server may have renamed the file away: then the tool
\* fails, although its content may have arrived.
RenameFile(h) ==
  LET s == ServerOf[h] IN
  /\ handler[h].at = "rename" /\ tmp[s] # NoFile
  /\ doc' = [doc EXCEPT !["notepad"] = tmp[s]]
  /\ tmp' = [tmp EXCEPT ![s] = NoFile]
  /\ promised' = [promised EXCEPT !["notepad"] = Promises(h)]
  /\ handler' = [g \in Handlers |->
       IF g = h THEN AtRest
       ELSE IF handler[g].file = "tmp" /\ ServerOf[g] = s THEN [handler[g] EXCEPT !.file = "doc"]
       ELSE IF handler[g].file = "doc" /\ g \in OnDocument("notepad")
            THEN [handler[g] EXCEPT !.file = "none"]
       ELSE handler[g]]
  /\ UNCHANGED <<headed, disturbed, entries, cuts>>

RenameFails(h) ==
  /\ handler[h].at = "rename" /\ tmp[ServerOf[h]] = NoFile
  /\ handler' = [handler EXCEPT ![h] = AtRest]
  /\ UNCHANGED <<doc, tmp, promised, headed, disturbed, entries, cuts>>

\* A server dies with the calls it has under way; what it was about to rename
\* stays, for a later server may get its pid.
InPlace(h) == handler[h].at = "fill" /\ ~Renames(handler[h].tool)
ServerDies(s) ==
  /\ cuts < MaxCuts /\ cuts' = cuts + 1
  /\ \E h \in Handlers : ServerOf[h] = s /\ handler[h].at # "rest"
  /\ disturbed' = [d \in Documents |->
       disturbed[d] \/ \E h \in OnDocument(d) : ServerOf[h] = s /\ InPlace(h)]
  /\ handler' = [h \in Handlers |-> IF ServerOf[h] = s THEN AtRest ELSE handler[h]]
  /\ UNCHANGED <<doc, tmp, promised, headed, entries>>

MemoryNext ==
  \/ \E h \in Handlers :
       \/ \E tool \in Tools, heads \in BOOLEAN : BeginTool(h, tool, heads)
       \/ \E gone \in SUBSET doc[DocumentOf(handler[h].tool)] : ReadDocument(h, gone)
       \/ NothingToPrune(h) \/ OpenFile(h) \/ FillFile(h)
       \/ RenameFile(h) \/ RenameFails(h)
  \/ \E s \in Servers : ServerDies(s)

MemorySpec == MemoryInit /\ [][MemoryNext]_memoryVars

-----------------------------------------------------------------------------
MemoryTypeOK ==
  /\ \A d \in Documents : doc[d] \subseteq Tools \X (1..MaxEntries) /\ promised[d] \subseteq Tools \X (1..MaxEntries)
  /\ \A h \in Handlers : handler[h].at \in {"rest", "read", "open", "fill", "rename"}
                         /\ handler[h].tool \in Tools \cup {"none"}

(* What a tool answered to have stored is in the file whenever no call on  *)
(* it is under way, until it is pruned or replaced - a server that dies in *)
(* a note tool included - unless two calls on the file overlapped or a     *)
(* write in place was cut short: then the whole file may be gone.  Once a  *)
(* note has a heading of its own, a priority note and a prune also cost    *)
(* what they take for their section; nothing else costs an entry then.     *)
NotesKept ==
  \A d \in Documents :
    (OnDocument(d) = {} /\ ~disturbed[d]) => promised[d] \subseteq doc[d]
=============================================================================
