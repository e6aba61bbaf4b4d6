---------------------------- MODULE McpSiblings ----------------------------
(***************************************************************************)
(* The life of the stdio MCP servers one Codex process starts for the same *)
(* entrypoint: src/mcp/bootstrap.ts.  A server ends when its client closes *)
(* the transport, when the parent is gone, or when its watchdog finds it   *)
(* superseded by a sibling with a higher pid.                              *)
(*                                                                         *)
(* Time is kept as ages: how long ago the last byte came from the client,  *)
(* and how long ago the watchdog first saw a newer sibling.  An age stops  *)
(* growing at the longest delay the code compares it with; Never is the    *)
(* null of the code.  Pids are numbers, given out in no particular order,  *)
(* for they wrap.  The process table is read by `ps', the decision follows *)
(* in the same turn of the event loop, and siblings move in between.       *)
(***************************************************************************)
EXTENDS Integers, FiniteSets

CONSTANTS
  Pids,          \* a set of positive numbers
  Grace,         \* duplicateSiblingPreTrafficGraceMs
  Idle,          \* duplicateSiblingPostTrafficIdleMs
  Cap,           \* maxSiblingsPerEntrypoint, 0 for no cap
  MaxFailures    \* bound on the failures of ps

VARIABLES
  server,        \* per pid: state, ages of traffic and of the duplicate, marker
  table,         \* what ps showed the server whose watchdog is running
  parent,        \* whether the parent is alive
  failures

serverVars == <<server, table, parent, failures>>

Never == -1
Unborn == [state |-> "unborn", traffic |-> Never, duplicate |-> Never, marked |-> TRUE]
NoTable == {}

Longest == IF Grace > Idle THEN Grace ELSE Idle
Older(age) == IF age = Never \/ age = Longest THEN age ELSE age + 1

IsUp(p) == server[p].state = "up"
Set(p, s) == server' = [server EXCEPT ![p] = s]
Shutdown(p, reason) == Set(p, [Unborn EXCEPT !.state = reason, !.marked = server[p].marked])

\* autoStartStdioMcpServer.  A server whose own command line does not show the
\* entrypoint finds its place among its siblings ambiguous.
StartServer(p, marked) ==
  /\ parent /\ server[p].state = "unborn"
  /\ Set(p, [Unborn EXCEPT !.state = "up", !.marked = marked])
  /\ UNCHANGED <<table, parent, failures>>

\* handleStdinData, and the handlers that end the server with its client.
Traffic(p) ==
  /\ IsUp(p) /\ table[p] = NoTable
  /\ Set(p, [server[p] EXCEPT !.traffic = 0])
  /\ UNCHANGED <<table, parent, failures>>

ClientCloses(p) ==
  /\ IsUp(p) /\ table[p] = NoTable
  /\ Shutdown(p, "closed")
  /\ UNCHANGED <<table, parent, failures>>

\* The parent ends; the watchdog on it ends the server.
ParentEnds ==
  /\ parent
  /\ parent' = FALSE
  /\ UNCHANGED <<server, table, failures>>

ParentWatchdog(p) ==
  /\ ~parent /\ IsUp(p) /\ table[p] = NoTable
  /\ Shutdown(p, "parent_gone")
  /\ UNCHANGED <<table, parent, failures>>

Tick ==
  /\ server' = [p \in Pids |-> [server[p] EXCEPT !.traffic = Older(@), !.duplicate = Older(@)]]
  /\ UNCHANGED <<table, parent, failures>>

\* runDuplicateSiblingWatchdog: the table, or nothing when ps fails, which
\* forgets the duplicate.  Without the parent a server does not find itself
\* among the parent's children and decides nothing.
ReadTable(p) ==
  /\ parent /\ IsUp(p) /\ table[p] = NoTable
  /\ table' = [table EXCEPT ![p] = {q \in Pids : IsUp(q)}]
  /\ UNCHANGED <<server, parent, failures>>

ReadFails(p) ==
  /\ IsUp(p) /\ table[p] = NoTable /\ failures < MaxFailures
  /\ failures' = failures + 1
  /\ Set(p, [server[p] EXCEPT !.duplicate = Never])
  /\ UNCHANGED <<table, parent>>

\* analyzeDuplicateSiblingState: the newer siblings in the table, none for a
\* server that is not sure of its own place.
Matching(p) == {q \in table[p] : server[q].marked}
NewerSiblings(p) == IF p \in Matching(p) THEN {q \in Matching(p) : q > p} ELSE {}

\* shouldSelfExitForPreTrafficSiblingHardCap and shouldSelfExitForDuplicateSibling.
OverCap(p) ==
  /\ Cap > 0 /\ server[p].traffic = Never
  /\ Cardinality(NewerSiblings(p)) >= Cap

SupersededFault(p, observed) == server[p].traffic = Never /\ observed >= Grace

Superseded(p, observed) ==
  IF server[p].traffic = Never THEN observed >= Grace
  ELSE observed >= Idle /\ server[p].traffic >= Idle

Decide(p) ==
  LET observed == IF server[p].duplicate = Never THEN 0 ELSE server[p].duplicate IN
  /\ table[p] # NoTable
  /\ table' = [table EXCEPT ![p] = NoTable]
  /\ IF NewerSiblings(p) = {} THEN Set(p, [server[p] EXCEPT !.duplicate = Never])
     ELSE IF OverCap(p) \/ Superseded(p, observed) THEN Shutdown(p, "superseded")
     ELSE Set(p, [server[p] EXCEPT !.duplicate = observed])
  /\ UNCHANGED <<parent, failures>>

SiblingsInit ==
  /\ server = [p \in Pids |-> Unborn]
  /\ table = [p \in Pids |-> NoTable]
  /\ parent = TRUE
  /\ failures = 0

SiblingsNext ==
  \/ \E p \in Pids :
       \/ \E marked \in BOOLEAN : StartServer(p, marked)
       \/ Traffic(p) \/ ClientCloses(p) \/ ParentWatchdog(p)
       \/ ReadTable(p) \/ ReadFails(p) \/ Decide(p)
  \/ ParentEnds \/ Tick

\* The intervals fire and time passes.
SiblingsFairness ==
  /\ WF_serverVars(Tick)
  /\ \A p \in Pids : /\ WF_serverVars(ReadTable(p) \/ Decide(p))
                     /\ WF_serverVars(ParentWatchdog(p))

SiblingsSpec == SiblingsInit /\ [][SiblingsNext]_serverVars /\ SiblingsFairness

-----------------------------------------------------------------------------
SiblingsTypeOK ==
  /\ \A p \in Pids :
       /\ server[p].state \in {"unborn", "up", "closed", "parent_gone", "superseded"}
       /\ server[p].traffic \in Never..Longest /\ server[p].duplicate \in Never..Longest
       /\ table[p] \subseteq Pids
  /\ failures \in 0..MaxFailures

(***************************************************************************)
(* A superseded server leaves a sibling behind: as long as the parent is   *)
(* alive and no client closed a transport, one server is up once one was   *)
(* started (bootstrap.ts:222-290).                                         *)
(***************************************************************************)
OneServes ==
  /\ \A p \in Pids : server[p].state \in {"unborn", "up", "superseded"}
  /\ \E p \in Pids : server[p].state # "unborn"
  => \E p \in Pids : IsUp(p)

(***************************************************************************)
(* No server outlives its parent, and an older duplicate whose client says *)
(* nothing more ends, whether it was once used or not, but never the last  *)
(* of them (bootstrap.ts:338-395).                                         *)
(***************************************************************************)
DuplicatesEnd ==
  /\ []OneServes
  /\ ~parent ~> \A p \in Pids : ~IsUp(p)
  /\ \A d \in {d \in Pids \X Pids : d[1] < d[2]} :
       (\A p \in {d[1], d[2]} : IsUp(p) /\ server[p].marked)
         ~> (~IsUp(d[1]) \/ ~IsUp(d[2]) \/ server[d[1]].traffic = 0 \/ ~parent)
=============================================================================
