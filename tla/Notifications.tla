---------------------------- MODULE Notifications ----------------------------
(***************************************************************************)
(* How events reach the person and the plugins.                            *)
(*                                                                         *)
(* Announcements: notifyLifecycle sends a lifecycle event to the platforms *)
(* and dispatchHookEvent hands it to the plugins.  Each first looks in the *)
(* session's lifecycle-notif-state.json whether the same was announced     *)
(* within five seconds, and notes it there once somebody has taken it: two *)
(* buckets of one file, which processes read and write without a lock.     *)
(*                                                                         *)
(* Turns: the notify command of Codex runs scripts/notify-dispatcher.ts,   *)
(* which runs the notify command the user had, then that of OWX, under a   *)
(* lock file; a turn that finds it taken, or follows another of its thread *)
(* too soon, is dropped.                                                   *)
(***************************************************************************)
EXTENDS Naturals, FiniteSets

CONSTANTS
  Announcers,         \* processes that announce
  MaxAnnouncements,   \* bound on the announcements
  Turns,              \* turns that end, a process each
  ThreadOf            \* their threads

Buckets == {"events", "hookEvents"}
Texts == {"first", "second"}     \* two fingerprints of one event
None == [text |-> "none", recent |-> FALSE]

VARIABLES
  entry,       \* lifecycle-notif-state.json: the last announcement of each bucket
  announcer,   \* where each announcer is, and what it announces
  heard,       \* history: each bucket's last announcement taken within the window
  twice,       \* history: the announcements taken again within it
  excused,     \* history: two announcements overlapped, or one was taken late
  announcements

announceVars == <<entry, announcer, heard, twice, excused, announcements>>

Resting == [at |-> "rest", bucket |-> "events", text |-> "first"]
What(p) == <<announcer[p].bucket, announcer[p].text>>
AnnouncerAt(p, at) == announcer' = [announcer EXCEPT ![p].at = at]

Announce(p) ==
  /\ announcer[p].at = "rest" /\ announcements < MaxAnnouncements
  /\ announcements' = announcements + 1
  /\ \E b \in Buckets, t \in Texts :
       announcer' = [announcer EXCEPT ![p] = [at |-> "look", bucket |-> b, text |-> t]]
  /\ excused' = (excused \/ \E q \in Announcers \ {p} : announcer[q].at # "rest")
  /\ UNCHANGED <<entry, heard, twice>>

\* shouldSendFingerprint
Look(p) ==
  LET last == entry[announcer[p].bucket] IN
  /\ announcer[p].at = "look"
  /\ IF last.text = announcer[p].text /\ last.recent
     THEN announcer' = [announcer EXCEPT ![p] = Resting]
     ELSE AnnouncerAt(p, "send")
  /\ UNCHANGED <<entry, heard, twice, excused, announcements>>

\* dispatchNotifications and runPluginRunner: somebody takes it, or nobody does,
\* or the wait is over and it is taken all the same.
Taken(p) ==
  /\ heard' = {h \in heard : h[1] # announcer[p].bucket} \cup {What(p)}
  /\ twice' = IF What(p) \in heard THEN twice \cup {What(p)} ELSE twice

Send(p) ==
  /\ announcer[p].at = "send"
  /\ Taken(p) /\ AnnouncerAt(p, "note")
  /\ UNCHANGED <<entry, excused, announcements>>

SendFails(p) ==
  /\ announcer[p].at = "send"
  /\ announcer' = [announcer EXCEPT ![p] = Resting]
  /\ UNCHANGED <<entry, heard, twice, excused, announcements>>

SendTimesOut(p) ==
  /\ announcer[p].at = "send"
  /\ Taken(p) /\ excused' = TRUE
  /\ announcer' = [announcer EXCEPT ![p] = Resting]
  /\ UNCHANGED <<entry, announcements>>

\* recordScopedLifecycleBroadcastSent: the entry of the event's own bucket.
NoteFault(p) ==
  /\ announcer[p].at = "note"
  /\ entry' = [b \in Buckets |-> IF b = announcer[p].bucket
                               THEN [text |-> announcer[p].text, recent |-> TRUE] ELSE None]
  /\ announcer' = [announcer EXCEPT ![p] = Resting]
  /\ UNCHANGED <<heard, twice, excused, announcements>>

Note(p) ==
  /\ announcer[p].at = "note"
  /\ entry' = [entry EXCEPT ![announcer[p].bucket] = [text |-> announcer[p].text, recent |-> TRUE]]
  /\ announcer' = [announcer EXCEPT ![p] = Resting]
  /\ UNCHANGED <<heard, twice, excused, announcements>>

\* Five seconds later.
WindowPasses ==
  /\ heard # {} /\ \A p \in Announcers : announcer[p].at # "note"
  /\ entry' = [b \in Buckets |-> [entry[b] EXCEPT !.recent = FALSE]]
  /\ heard' = {}
  /\ UNCHANGED <<announcer, twice, excused, announcements>>

AnnounceInit ==
  /\ entry = [b \in Buckets |-> None]
  /\ announcer = [p \in Announcers |-> Resting]
  /\ heard = {} /\ twice = {} /\ excused = FALSE /\ announcements = 0

AnnounceNext ==
  \/ \E p \in Announcers : \/ Announce(p) \/ Look(p) \/ Send(p) \/ SendFails(p)
                           \/ SendTimesOut(p) \/ Note(p)
  \/ WindowPasses

-----------------------------------------------------------------------------
VARIABLES
  guard,       \* notify-dispatch.lock: its holder, and whether it is older than 45 s
  lastTurns,   \* notify-dispatch.guard.json: the threads dispatched a moment ago
  turn,        \* where each dispatcher is
  seen,        \* the guard file as each dispatcher read it
  slow         \* history: a dispatch took longer than the lock may, or died

turnVars == <<guard, lastTurns, turn, seen, slow>>

Unguarded == [by |-> {}, stale |-> FALSE]
TurnAt(t, at) == turn' = [turn EXCEPT ![t] = at]
Dispatching == {"previous", "owx"}

\* acquireTurnDispatchGuard: a stale lock is unlinked, whoever made it.
TurnEnds(t) ==
  /\ turn[t] = "new"
  /\ TurnAt(t, IF guard.stale THEN "unlink" ELSE "open")
  /\ UNCHANGED <<guard, lastTurns, seen, slow>>

UnlinkStale(t) ==
  /\ turn[t] = "unlink"
  /\ guard' = Unguarded /\ TurnAt(t, "open")
  /\ UNCHANGED <<lastTurns, seen, slow>>

OpenLock(t) ==
  /\ turn[t] = "open"
  /\ IF guard.by # {} THEN TurnAt(t, "dropped") /\ UNCHANGED guard
     ELSE guard' = [by |-> {t}, stale |-> FALSE] /\ TurnAt(t, "guard")
  /\ UNCHANGED <<lastTurns, seen, slow>>

ReadGuard(t) ==
  /\ turn[t] = "guard"
  /\ IF ThreadOf[t] \in lastTurns
     THEN TurnAt(t, "dropped") /\ guard' = Unguarded /\ UNCHANGED seen
     ELSE TurnAt(t, "previous") /\ seen' = [seen EXCEPT ![t] = lastTurns] /\ UNCHANGED guard
  /\ UNCHANGED <<lastTurns, slow>>

\* runNotify, twice, each for at most thirty seconds.
RunPrevious(t) ==
  /\ turn[t] = "previous" /\ TurnAt(t, "owx")
  /\ UNCHANGED <<guard, lastTurns, seen, slow>>

RunOwx(t) ==
  /\ turn[t] = "owx" /\ TurnAt(t, "note")
  /\ UNCHANGED <<guard, lastTurns, seen, slow>>

\* The guard file, then the lock file.
NoteTurn(t) ==
  /\ turn[t] = "note" /\ TurnAt(t, "release")
  /\ lastTurns' = seen[t] \cup {ThreadOf[t]}
  /\ UNCHANGED <<guard, seen, slow>>

ReleaseGuard(t) ==
  /\ turn[t] = "release" /\ TurnAt(t, "told")
  /\ guard' = Unguarded
  /\ UNCHANGED <<lastTurns, seen, slow>>

Dies(t) ==
  /\ turn[t] \in Dispatching
  /\ TurnAt(t, "dead") /\ slow' = TRUE
  /\ UNCHANGED <<guard, lastTurns, seen>>

LockAges ==
  /\ \E t \in guard.by : turn[t] \in {"owx", "dead"}
  /\ guard' = [guard EXCEPT !.stale = TRUE] /\ slow' = TRUE
  /\ UNCHANGED <<lastTurns, turn, seen>>

IntervalPasses ==
  /\ lastTurns # {} /\ lastTurns' = {}
  /\ UNCHANGED <<guard, turn, seen, slow>>

TurnInit ==
  /\ guard = Unguarded /\ lastTurns = {} /\ slow = FALSE
  /\ turn = [t \in Turns |-> "new"] /\ seen = [t \in Turns |-> {}]

TurnStep(t) ==
  \/ UnlinkStale(t) \/ OpenLock(t) \/ ReadGuard(t) \/ RunPrevious(t) \/ RunOwx(t)
  \/ NoteTurn(t) \/ ReleaseGuard(t)

TurnNext ==
  \/ \E t \in Turns : TurnEnds(t) \/ TurnStep(t) \/ Dies(t)
  \/ LockAges \/ IntervalPasses

-----------------------------------------------------------------------------
NotificationsTypeOK ==
  /\ \A b \in Buckets : entry[b].text \in Texts \cup {"none"}
  /\ heard \cup twice \subseteq Buckets \X Texts
  /\ guard.by \subseteq Turns /\ lastTurns \subseteq {ThreadOf[t] : t \in Turns}
  /\ announcements \in 0..MaxAnnouncements

(***************************************************************************)
(* Nobody is told the same twice within the window, unless announcements   *)
(* overlapped, another text came between, or one was taken after the       *)
(* announcer had given up (lifecycle-dedupe.ts:95-160, dispatcher.ts).     *)
(***************************************************************************)
ToldOnce == excused \/ twice = {}

(***************************************************************************)
(* As long as no dispatch dies or outlasts the lock, the user's notify     *)
(* command runs for one turn at a time, and the turns of a thread that     *)
(* end within the interval are noted (notify-dispatcher.ts:128-208).       *)
(***************************************************************************)
TurnsApart ==
  ~slow => /\ Cardinality({t \in Turns : turn[t] \in Dispatching \cup {"note"}}) <= 1
           /\ \A t \in Turns : turn[t] \in Dispatching => guard.by = {t}
=============================================================================
