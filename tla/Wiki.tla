--------------------------------- MODULE Wiki ---------------------------------
(***************************************************************************)
(* The project wiki: the pages, index and log of owx_wiki/ (src/wiki), as  *)
(* the wiki tools (src/mcp/wiki-server.ts) and the SessionStart hook use   *)
(* it from several processes at once.  Writers are serialised by a lock    *)
(* directory that nobody reaps; what is checked before the lock is taken   *)
(* may have changed when it is held.                                       *)
(*                                                                         *)
(* A tool call is the sequence of its steps, `todo': code between two      *)
(* steps touches no shared file.  Knowledge is the number of the call that *)
(* brought it.  A page the user wrote without frontmatter is "text": it is *)
(* listed, and does not parse.                                             *)
(***************************************************************************)
EXTENDS Naturals, Sequences, FiniteSets

CONSTANTS
  Callers,      \* processes: MCP servers, CLI calls, hooks
  Files,        \* page names that are not reserved
  Free, Orphan, \* the lock given back, and left by a crash; no callers
  MaxCalls,     \* bound on tool calls
  MaxTroubles,  \* bound on crashes and failed writes
  MaxHand       \* bound on what the user writes by hand, memory included

VARIABLES
  legacy,       \* whether .owx/wiki, the old place, holds pages
  wiki,         \* owx_wiki: its pages and its index
  env,          \* environment.md: the memory it shows, and whether it is dated after it
  wlock,        \* .wiki-lock.lock
  memory,       \* how often project-memory.json was written
  caller,       \* per process: the call and the steps it has still to take
  bounds, stale \* stale: an index write failed, or a page was put there by hand

wikiVars == <<legacy, wiki, env, wlock, memory, caller, bounds, stale>>

Reserved == "index"
NoPage == [state |-> "none", items |-> {}, rank |-> 0]
NoIndex == {"no index"}
NoCall == [op |-> "none", file |-> Reserved, n |-> 0, todo |-> <<>>,
         seen |-> NoPage, memory |-> 0, stamp |-> 0]

\* The confidence a call gives its knowledge: low, or high.
RankOf(n) == 1 + (n % 2)

Fallback == legacy /\ ~wiki.there
Listed == {f \in Files : wiki.page[f].state # "none"}
Parsed == {f \in Files : wiki.page[f].state = "page"}

WikiInit ==
  /\ legacy \in BOOLEAN
  /\ wiki = [there |-> FALSE, page |-> [f \in Files |-> NoPage], index |-> NoIndex]
  /\ env = [there |-> FALSE, of |-> 0, fresh |-> FALSE, blurred |-> FALSE]
  /\ wlock = Free /\ memory = 0 /\ stale = FALSE
  /\ caller = [p \in Callers |-> NoCall]
  /\ bounds = [calls |-> 0, troubles |-> 0, hand |-> 0]

-----------------------------------------------------------------------------
(* Steps.                                                                  *)
\* withWikiLock, and a fault: a writer that forgets it.
LockedFault(steps) == steps
Locked(steps) == <<"lock">> \o steps \o <<"unlock">>

At(p, step) == caller[p].todo # <<>> /\ Head(caller[p].todo) = step
Continue(p, c) == caller' = [caller EXCEPT ![p] = c]
Advance(c) == IF Len(c.todo) = 1 THEN NoCall ELSE [c EXCEPT !.todo = Tail(@)]
Then(c, steps) == IF steps = <<>> THEN NoCall ELSE [c EXCEPT !.todo = steps]
Goes(p) == Continue(p, Advance(caller[p]))

\* A throw leaves the critical section through the finally of the lock.
Throws(c) == IF wlock # Free /\ c.todo # <<>> THEN [c EXCEPT !.todo = <<"unlock">>] ELSE NoCall

Program(op) ==
  CASE op = "ingest"  -> Locked(<<"read", "page", "index", "log">>)
    [] op = "add"     -> <<"absent">> \o Locked(<<"read", "page", "index", "log">>) \o Locked(<<"log">>)
    [] op = "delete"  -> <<"exists">> \o Locked(<<"remove", "index">>) \o Locked(<<"log">>)
    [] op = "refresh" -> <<"fallback">> \o Locked(<<"index">>) \o Locked(<<"log">>)
    [] op = "search"  -> <<"fallback">> \o Locked(<<"log">>)
    [] op = "start"   -> <<"start">>

WikiOps == {"ingest", "add", "delete", "refresh", "search", "start"}

\* handleWikiToolCall and onSessionStart.
BeginCall(p, op, f) ==
  /\ caller[p] = NoCall /\ bounds.calls < MaxCalls
  /\ (op \in {"refresh", "search", "start"} => f = Reserved)
  /\ bounds' = [bounds EXCEPT !.calls = @ + 1]
  /\ Continue(p, [NoCall EXCEPT !.op = op, !.file = f, !.n = bounds.calls + 1, !.todo = Program(op)])
  /\ UNCHANGED <<legacy, wiki, env, wlock, memory, stale>>

\* wiki_add looks for the page before the lock; deletePage for the directory.
LookFirst(p) ==
  /\ \/ /\ At(p, "absent")
        /\ IF caller[p].file \in Parsed THEN Continue(p, NoCall) ELSE Goes(p)
     \/ /\ At(p, "exists")
        /\ IF wiki.there THEN Goes(p) ELSE Continue(p, NoCall)
  /\ UNCHANGED <<legacy, wiki, env, wlock, memory, bounds, stale>>

\* wiki_refresh, queryWiki and lintWiki write nothing beside the legacy pages.
AskFallback(p) ==
  /\ At(p, "fallback")
  /\ IF Fallback THEN Continue(p, NoCall) ELSE Goes(p)
  /\ UNCHANGED <<legacy, wiki, env, wlock, memory, bounds, stale>>

\* withWikiLock: the directory, then the lock, for five seconds.
TakeLock(p) ==
  /\ At(p, "lock") /\ wlock = Free
  /\ wlock' = p /\ wiki' = [wiki EXCEPT !.there = TRUE] /\ Goes(p)
  /\ UNCHANGED <<legacy, env, memory, bounds, stale>>

LockTimesOut(p) ==
  /\ At(p, "lock") /\ wlock # Free
  /\ Continue(p, NoCall)
  /\ UNCHANGED <<legacy, wiki, env, wlock, memory, bounds, stale>>

GiveLock(p) ==
  /\ At(p, "unlock")
  /\ wlock' = Free /\ Goes(p)
  /\ UNCHANGED <<legacy, wiki, env, memory, bounds, stale>>

\* ingestKnowledge: what parses is merged with, anything else is replaced.
ReadPage(p) ==
  LET c == caller[p] IN
  /\ At(p, "read")
  /\ Continue(p, Advance([c EXCEPT !.seen = IF c.file \in Parsed THEN wiki.page[c.file] ELSE NoPage]))
  /\ UNCHANGED <<legacy, wiki, env, wlock, memory, bounds, stale>>

\* mergePage and createPage.
MergedPage(old, n) == [state |-> "page", items |-> old.items \cup {n},
                   rank |-> IF RankOf(n) >= old.rank THEN RankOf(n) ELSE old.rank]

WritePage(p) ==
  LET c == caller[p] IN
  /\ At(p, "page")
  /\ IF c.file = Reserved
     THEN Continue(p, Throws(c)) /\ UNCHANGED wiki
     ELSE wiki' = [wiki EXCEPT !.page[c.file] = MergedPage(c.seen, c.n)] /\ Goes(p)
  /\ UNCHANGED <<legacy, env, wlock, memory, bounds, stale>>

\* deletePageUnsafe, and deletePage of what is not there.
RemovePage(p) ==
  LET c == caller[p] IN
  /\ At(p, "remove")
  /\ IF c.file \in Listed
     THEN wiki' = [wiki EXCEPT !.page[c.file] = NoPage] /\ Goes(p)
     ELSE Continue(p, Then(c, <<"unlock">>)) /\ UNCHANGED wiki
  /\ UNCHANGED <<legacy, env, wlock, memory, bounds, stale>>

\* updateIndexUnsafe.
WriteIndex(p) ==
  /\ At(p, "index")
  /\ wiki' = [wiki EXCEPT !.index = Parsed] /\ stale' = FALSE /\ Goes(p)
  /\ UNCHANGED <<legacy, env, wlock, memory, bounds>>

\* appendLogUnsafe: another write under the lock that may fail; what the log
\* holds is left out.
WriteLog(p) ==
  /\ At(p, "log") /\ Goes(p)
  /\ UNCHANGED <<legacy, wiki, env, wlock, memory, bounds, stale>>

-----------------------------------------------------------------------------
(* The start of a session.                                                 *)
StartSession(p, feed) ==
  /\ At(p, "start")
  /\ IF Fallback \/ Listed = {}
     THEN Continue(p, NoCall)
     ELSE Continue(p, Then(caller[p],
            (IF wiki.index = NoIndex THEN Locked(<<"index">>) ELSE <<>>)
            \o IF feed THEN <<"feed">> ELSE <<>>))
  /\ UNCHANGED <<legacy, wiki, env, wlock, memory, bounds, stale>>

\* feedProjectMemory reads the memory and its date, then takes the time, then
\* waits for the lock.
FeedMemory(p) ==
  /\ At(p, "feed")
  /\ IF memory = 0 \/ (env.there /\ env.fresh)
     THEN Continue(p, NoCall)
     ELSE Continue(p, [caller[p] EXCEPT !.memory = memory,
                         !.todo = <<"stamp">> \o Locked(<<"env", "index", "log">>)])
  /\ UNCHANGED <<legacy, wiki, env, wlock, memory, bounds, stale>>

TakeTime(p) ==
  /\ At(p, "stamp")
  /\ Continue(p, Advance([caller[p] EXCEPT !.stamp = memory]))
  /\ UNCHANGED <<legacy, wiki, env, wlock, memory, bounds, stale>>

WriteEnvironment(p) ==
  LET c == caller[p] IN
  /\ At(p, "env")
  /\ env' = [there |-> TRUE, of |-> c.memory, fresh |-> c.stamp = memory, blurred |-> c.memory # c.stamp]
  /\ Goes(p)
  /\ UNCHANGED <<legacy, wiki, wlock, memory, bounds, stale>>

-----------------------------------------------------------------------------
(* What goes wrong, and what the user does by hand.                        *)
Troubled == bounds.troubles < MaxTroubles /\ bounds' = [bounds EXCEPT !.troubles = @ + 1]
ByHand == bounds.hand < MaxHand /\ bounds' = [bounds EXCEPT !.hand = @ + 1]

WriteFails(p) ==
  /\ \E step \in {"page", "remove", "index", "log", "env"} :
       At(p, step) /\ stale' = (stale \/ step = "index")
  /\ Troubled /\ Continue(p, Throws(caller[p]))
  /\ UNCHANGED <<legacy, wiki, env, wlock, memory>>

Crash(p) ==
  /\ caller[p] # NoCall /\ Troubled /\ Continue(p, NoCall)
  /\ wlock' = IF wlock = p THEN Orphan ELSE wlock
  /\ UNCHANGED <<legacy, wiki, env, memory, stale>>

WriteByHand(f, state) ==
  /\ wiki.there /\ f \notin Listed /\ ByHand
  /\ wiki' = [wiki EXCEPT !.page[f] = [state |-> state, items |-> {0}, rank |-> 0]]
  /\ stale' = (stale \/ state = "page")
  /\ UNCHANGED <<legacy, env, wlock, memory, caller>>

\* project_memory_write, by anyone.
WriteMemory ==
  /\ ByHand /\ memory' = memory + 1
  /\ env' = [env EXCEPT !.fresh = FALSE]
  /\ UNCHANGED <<legacy, wiki, wlock, caller, stale>>

CallStep(p) ==
  \/ LookFirst(p) \/ AskFallback(p) \/ TakeLock(p) \/ LockTimesOut(p) \/ GiveLock(p)
  \/ ReadPage(p) \/ WritePage(p) \/ RemovePage(p) \/ WriteIndex(p) \/ WriteLog(p)
  \/ \E feed \in BOOLEAN : StartSession(p, feed)
  \/ FeedMemory(p) \/ TakeTime(p) \/ WriteEnvironment(p)

WikiNext ==
  \/ \E p \in Callers :
       \/ \E op \in WikiOps, f \in Files \cup {Reserved} : BeginCall(p, op, f)
       \/ CallStep(p) \/ WriteFails(p) \/ Crash(p)
  \/ \E f \in Files, state \in {"text", "page"} : WriteByHand(f, state)
  \/ WriteMemory

WikiSpec == WikiInit /\ [][WikiNext]_wikiVars /\ \A p \in Callers : WF_wikiVars(CallStep(p))

-----------------------------------------------------------------------------
WikiTypeOK ==
  /\ legacy \in BOOLEAN /\ stale \in BOOLEAN /\ memory \in 0..MaxHand
  /\ wiki.there \in BOOLEAN
  /\ wiki.page \in [Files -> [state : {"none", "text", "page"}, items : SUBSET (0..MaxCalls), rank : 0..2]]
  /\ wiki.index = NoIndex \/ wiki.index \subseteq Files
  /\ env \in [there : BOOLEAN, of : 0..MaxHand, fresh : BOOLEAN, blurred : BOOLEAN]
  /\ wlock \in Callers \cup {Free, Orphan}
  /\ \A p \in Callers : caller[p].op \in WikiOps \cup {"none"} /\ caller[p].n \in 0..MaxCalls

(* What a tool brought to a page stays in it, with no less confidence,     *)
(* until a call deletes the page, whoever else works on it: "append        *)
(* strategy - never replaces content" (src/wiki/ingest.ts).  A text of the *)
(* user's own is replaced, when it does not parse or came between the read *)
(* and the write.                                                          *)
KnowledgeKept ==
  [][\A f \in Files :
       \/ /\ wiki.page[f].items \ {0} \subseteq wiki'.page[f].items
          /\ wiki.page[f].rank <= wiki'.page[f].rank
       \/ \E p \in Callers : wlock = p /\ At(p, "remove") /\ caller[p].file = f]_wikiVars

(* The index names the pages that parse, whenever nobody is writing, but   *)
(* for a failed index write or a page put there by hand.                   *)
IndexTrue ==
  (wlock = Free /\ ~stale) => wiki.index = Parsed \/ (wiki.index = NoIndex /\ Parsed = {})

(* An environment page that no session will write again shows the present  *)
(* memory, unless the memory changed while it was being read.              *)
EnvironmentTrue == (env.there /\ env.fresh /\ ~env.blurred) => env.of = memory

(* Only a call that brings knowledge puts the new wiki in the place of the *)
(* legacy one, whose pages nobody sees from then on: searching, listing,   *)
(* deleting and refreshing beside it leave it in view.                     *)
LegacyShown ==
  [][Fallback /\ wiki'.there
     => \E p \in Callers : At(p, "lock") /\ caller[p].op \in {"ingest", "add"}]_wikiVars

WikiKept == KnowledgeKept /\ LegacyShown /\ [](IndexTrue /\ EnvironmentTrue)

(* Every call is answered, beside an orphaned lock too.                    *)
CallsAnswered == \A p \in Callers : caller[p] # NoCall ~> caller[p] = NoCall
=============================================================================
