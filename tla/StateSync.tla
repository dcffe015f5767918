------------------------------ MODULE StateSync ------------------------------
(***************************************************************************)
(* How a window follows the core's state: CoreState::publish and           *)
(* apply_live_codec (core/src/state.rs), the connection's session          *)
(* (core/src/server.rs), the pipe and the window's backend                 *)
(* (ui/src-tauri/src/connection.rs) and the window's copy                  *)
(* (ui/src/ipc/store.ts).                                                  *)
(*                                                                         *)
(* Every event replaces one part of the state and carries its revision.    *)
(* What a part holds is abstracted to the number of the change that wrote  *)
(* it.  The answer to state.snapshot reaches the window apart from the     *)
(* events (the reply of an invoke, not an emitted event), so it may        *)
(* overtake them or be overtaken.                                          *)
(***************************************************************************)
EXTENDS Naturals, Sequences, FiniteSets

CONSTANTS
    Publisher,   \* threads of the core that publish events
    Part,        \* parts of the snapshot
    Null,        \* null
    Capacity,    \* of the broadcast channel (256 in the code)
    PipeSize,    \* messages between the session and the window
    MaxChange,   \* bound: changes of the state
    MaxAsk,      \* bound: state.snapshot requests
    MaxBreak     \* bound: broken connections and restarts of the core

ASSUME SizesType == Capacity \in Nat \ {0} /\ PipeSize \in Nat \ {0}
ASSUME SyncBounds == MaxChange \in Nat /\ MaxAsk \in Nat /\ MaxBreak \in Nat

Event == [type : {"event"}, rev : Nat, part : Part, value : Nat, odd : BOOLEAN]
Parts == [Part -> Nat]
Message == Event \cup [type : {"snapshot"}, rev : Nat, state : Parts]
                 \cup [type : {"welcome", "bye", "broken"}]
Waiting == [id : 1..MaxAsk, from : Nat \cup {Null}, events : Seq(Event)]

\* null is none of the values it stands for the absence of
ASSUME NullIsNull == Null \notin Nat \cup BOOLEAN \cup Event \cup Parts \cup Waiting

VARIABLES
    rev,       \* CoreState.snapshot.0
    core,      \* CoreState.snapshot.1
    changes,   \* number of the last change
    sending,   \* the event each publisher is about to send
    server,    \* the session of the connection
    chan,      \* its events.recv(): the events kept for it
    lagged,    \* ... and whether one was overwritten
    pipe,      \* messages written to the window, not handled yet
    status,    \* Ipc.status of the backend is Connected
    window,    \* "closed", "listening" (start) or "open"
    read,      \* the status the opening window read, not handled yet
    conn,      \* state.conn of the window is connected
    wrev,      \* state.rev
    snap,      \* state.snap
    pending,   \* the snapshot the window waits for
    asks,      \* state.snapshot requests on their way
    lastAsk,   \* number of the last one
    breaks,    \* broken connections so far
    sent,      \* history: the highest revision sent
    late       \* history: an event out of turn met a window that cannot tell

coreVars == <<rev, core, changes, sending, sent>>
serverVars == <<server, chan, lagged>>
winVars == <<window, read, conn, wrev, snap, pending, late>>
syncVars == <<coreVars, serverVars, pipe, status, winVars, asks, lastAsk, breaks>>

SyncInit ==
    /\ rev = 0 /\ changes = 0 /\ sent = 0
    /\ core = [p \in Part |-> 0]
    /\ sending = [t \in Publisher |-> Null]
    /\ server = "down" /\ chan = <<>> /\ lagged = FALSE
    /\ pipe = <<>>
    /\ status = FALSE
    /\ window = "closed" /\ read = Null /\ conn = FALSE
    /\ wrev = Null /\ snap = Null /\ pending = Null
    /\ asks = {} /\ lastAsk = 0
    /\ breaks = 0
    /\ late = FALSE

-----------------------------------------------------------------------------
(* The core.                                                               *)

\* broadcast::Sender::send: without a receiver nothing is kept; a full
\* channel overwrites the oldest event, and the receiver has lagged
Broadcast(e) ==
    /\ sent' = IF e.rev > sent THEN e.rev ELSE sent
    /\ LET m == [e EXCEPT !.odd = e.rev # sent + 1] IN
       IF server \in {"down", "welcome"} THEN UNCHANGED <<chan, lagged>>
       ELSE IF Len(chan) < Capacity THEN chan' = Append(chan, m) /\ UNCHANGED lagged
       ELSE chan' = Append(Tail(chan), m) /\ lagged' = TRUE

Change(p) == [type |-> "event", rev |-> rev + 1, part |-> p, value |-> changes + 1,
              odd |-> FALSE]

\* The part and the revision change under the snapshot's lock
Apply(p) ==
    /\ changes < MaxChange
    /\ changes' = changes + 1
    /\ rev' = rev + 1
    /\ core' = [core EXCEPT ![p] = changes + 1]

\* publish: the event is sent after the lock is released
Publish(t, p) ==
    /\ sending[t] = Null
    /\ Apply(p)
    /\ sending' = [sending EXCEPT ![t] = Change(p)]
    /\ UNCHANGED <<sent, serverVars, pipe, status, winVars, asks, lastAsk, breaks>>

SendEvent(t) ==
    /\ sending[t] # Null
    /\ Broadcast(sending[t])
    /\ sending' = [sending EXCEPT ![t] = Null]
    /\ UNCHANGED <<rev, core, changes, server, pipe, status, winVars, asks, lastAsk, breaks>>

\* apply_live_codec: the event is sent under the lock.  (Of any part here, of
\* the stream in the code: for the others it is Publish and SendEvent at once)
PublishLive(t, p) ==
    /\ sending[t] = Null
    /\ Apply(p)
    /\ Broadcast(Change(p))
    /\ UNCHANGED <<sending, server, pipe, status, winVars, asks, lastAsk, breaks>>

-----------------------------------------------------------------------------
(* The session of the connection.                                          *)

Write(m) == Len(pipe) < PipeSize /\ pipe' = Append(pipe, m)

Snapshot == [type |-> "snapshot", rev |-> rev, state |-> core]

\* Hello was read: Welcome
Accept ==
    /\ server = "down"
    /\ server' = "welcome"
    /\ Write([type |-> "welcome"])
    /\ UNCHANGED <<coreVars, chan, lagged, status, winVars, asks, lastAsk, breaks>>

\* "Subscribe before the snapshot so no change falls in between"
Subscribe ==
    /\ server = "welcome"
    /\ server' = "subscribed"
    /\ chan' = <<>> /\ lagged' = FALSE
    /\ UNCHANGED <<coreVars, pipe, status, winVars, asks, lastAsk, breaks>>

FirstSnapshot ==
    /\ server = "subscribed"
    /\ server' = "up"
    /\ Write(Snapshot)
    /\ UNCHANGED <<coreVars, chan, lagged, status, winVars, asks, lastAsk, breaks>>

\* events.recv() is an event
Forward ==
    /\ server = "up" /\ ~lagged /\ chan # <<>>
    /\ Write(Head(chan))
    /\ chan' = Tail(chan)
    /\ UNCHANGED <<coreVars, server, lagged, status, winVars, asks, lastAsk, breaks>>

\* ... or Lagged: a new snapshot instead of the events that were lost
Lagged ==
    /\ server = "up" /\ lagged
    /\ Write(Snapshot)
    /\ lagged' = FALSE
    /\ UNCHANGED <<coreVars, server, chan, status, winVars, asks, lastAsk, breaks>>

\* Method::StateSnapshot in a task of its own (refresh_crashes before it is a
\* Publish)
TakeSnapshot(a) ==
    /\ server = "up" /\ a.answer = "awaited"
    /\ asks' = (asks \ {a}) \cup {[a EXCEPT !.answer = "taken", !.state = core]}
    /\ UNCHANGED <<coreVars, serverVars, pipe, status, winVars, lastAsk, breaks>>

\* fail_pending: requests without an answer fail, one the backend already
\* passed on is still delivered
Failed(kept) == kept \cup {[a EXCEPT !.answer = "failed", !.state = Null] : a \in asks \ kept}

\* The pipe breaks: the window sees what the backend had forwarded, then the
\* status
Break(last) ==
    /\ server # "down" /\ breaks < MaxBreak
    /\ breaks' = breaks + 1
    /\ server' = "down"
    /\ chan' = <<>> /\ lagged' = FALSE
    /\ \E n \in 0..Len(pipe) : pipe' = SubSeq(pipe, 1, n) \o last
    /\ \E kept \in SUBSET {a \in asks : a.answer # "awaited"} : asks' = Failed(kept)
    /\ UNCHANGED <<status, winVars, lastAsk>>

\* The connection breaks; the core goes on
BreakPipe == Break(<<[type |-> "broken"]>>) /\ UNCHANGED coreVars

\* The core ends, with or without a Bye, and starts again: revisions from 0
\* (a window outlives a Bye only during an update)
RestartCore ==
    /\ Break(<<[type |-> "broken"]>>) \/ Break(<<[type |-> "bye"], [type |-> "broken"]>>)
    /\ changes < MaxChange
    /\ changes' = changes + 1
    /\ rev' = 0
    /\ core' = [p \in Part |-> changes + 1]
    /\ sending' = [t \in Publisher |-> Null]
    /\ sent' = 0

-----------------------------------------------------------------------------
(* The window.                                                             *)

\* state.snapshot is sent, or fails at once without a connection; from the
\* Hello on it is kept for the new one
Ask(events) ==
    /\ lastAsk < MaxAsk
    /\ lastAsk' = lastAsk + 1
    /\ \E answer \in {"awaited"} \cup (IF server = "down" THEN {"failed"} ELSE {}) :
           asks' = asks \cup {[id |-> lastAsk + 1, answer |-> answer, state |-> Null]}
    /\ pending' = [id |-> lastAsk + 1, from |-> wrev, events |-> events]

\* resync: nothing while a snapshot is on its way
Resync == IF pending # Null THEN UNCHANGED <<pending, asks, lastAsk>> ELSE Ask(<<>>)

\* onStatus with "connected": only a change of it asks for the snapshot
OnConnected ==
    /\ conn' = TRUE
    /\ IF conn THEN UNCHANGED <<pending, asks, lastAsk>> ELSE Resync

LastOf(places) == CHOOSE i \in places : \A j \in places : j <= i

\* Replays the events at some places on a state: the newest one of each part
\* ends up in place
Replay(state, events, places) ==
    [p \in Part |->
        LET of == {i \in places : events[i].part = p} IN
        IF of = {} THEN state[p] ELSE events[LastOf(of)].value]

\* start: listens ...
OpenWindow ==
    /\ window = "closed"
    /\ window' = "listening"
    /\ UNCHANGED <<coreVars, serverVars, pipe, status, read, conn, wrev, snap, pending, late, asks,
                   lastAsk, breaks>>

\* Ipc.status once the backend has passed on n messages
StatusAfter(n) ==
    LET of == {i \in 1..n : pipe[i].type \in {"welcome", "broken"}} IN
    IF of = {} THEN status ELSE pipe[LastOf(of)].type = "welcome"

\* ... then asks the backend, which may be ahead of the window, for the status
ReadStatus ==
    /\ window = "listening" /\ read = Null
    /\ \E n \in 0..Len(pipe) : read' = StatusAfter(n)
    /\ UNCHANGED <<coreVars, serverVars, pipe, status, window, conn, wrev, snap, pending, late, asks,
                   lastAsk, breaks>>

OnStatus ==
    /\ window = "listening" /\ read # Null
    /\ window' = "open"
    /\ read' = Null
    /\ IF read THEN OnConnected ELSE conn' = FALSE /\ UNCHANGED <<pending, asks, lastAsk>>
    /\ UNCHANGED <<coreVars, serverVars, pipe, status, wrev, snap, late, breaks>>

\* A window closed for good, with its page: its answers reach nobody
CloseWindow ==
    /\ window # "closed" /\ lastAsk < MaxAsk
    /\ window' = "closed"
    /\ read' = Null /\ conn' = FALSE
    /\ wrev' = Null /\ snap' = Null /\ pending' = Null
    /\ asks' = {}
    /\ UNCHANGED <<coreVars, serverVars, pipe, status, late, lastAsk, breaks>>

Receive(type) == pipe # <<>> /\ Head(pipe).type = type /\ pipe' = Tail(pipe)

\* Nobody listens: only the backend takes note
Unheard ==
    /\ window = "closed"
    /\ pipe # <<>> /\ pipe' = Tail(pipe)
    /\ status' = CASE Head(pipe).type = "welcome" -> TRUE
                   [] Head(pipe).type = "broken" -> FALSE
                   [] OTHER -> status
    /\ UNCHANGED <<coreVars, serverVars, winVars, asks, lastAsk, breaks>>

OnWelcome ==
    /\ window # "closed" /\ Receive("welcome")
    /\ status' = TRUE
    /\ OnConnected
    /\ UNCHANGED <<coreVars, serverVars, window, read, wrev, snap, late, breaks>>

OnBroken ==
    /\ window # "closed" /\ Receive("broken")
    /\ status' = FALSE
    /\ conn' = FALSE
    /\ UNCHANGED <<coreVars, serverVars, window, read, wrev, snap, pending, late, asks, lastAsk, breaks>>

OnBye ==
    /\ window # "closed" /\ Receive("bye")
    /\ snap' = Null
    /\ UNCHANGED <<coreVars, serverVars, status, window, read, conn, wrev, pending, late, asks, lastAsk, breaks>>

\* The core's own snapshot: a requested one is not needed
OnSnapshot ==
    /\ window # "closed" /\ Receive("snapshot")
    /\ pending' = Null
    /\ snap' = Head(pipe).state
    /\ wrev' = Head(pipe).rev
    /\ UNCHANGED <<coreVars, serverVars, status, window, read, conn, late, asks, lastAsk, breaks>>

\* History: whether an event sent out of turn met a window that cannot tell
Judge(e) == late' = (late \/ (e.odd /\ (pending # Null \/ wrev = Null)))

\* applyEvent: known already
DropEvent ==
    /\ window # "closed" /\ Receive("event")
    /\ wrev # Null /\ Head(pipe).rev <= wrev
    /\ Judge(Head(pipe))
    /\ UNCHANGED <<coreVars, serverVars, status, window, read, conn, wrev, snap, pending, asks,
                   lastAsk, breaks>>

\* mutant: a gap is not noticed
GapNever(e) == FALSE

\* applyEvent: one before it was lost
Gap(e) == wrev # Null /\ e.rev > wrev + 1

\* An event is kept while a snapshot is on its way, or asked for with it
Keep(e) ==
    IF pending # Null
      THEN /\ pending' = [pending EXCEPT !.events = Append(@, e)]
           /\ UNCHANGED <<asks, lastAsk>>
      ELSE IF Gap(e)
        THEN Ask(<<e>>)
        ELSE UNCHANGED <<pending, asks, lastAsk>>

\* applyEvent: applied; before the first snapshot there is nothing to patch
ApplyEvent ==
    /\ window # "closed" /\ Receive("event")
    /\ wrev # Null => Head(pipe).rev > wrev
    /\ Keep(Head(pipe))
    /\ wrev' = Head(pipe).rev
    /\ snap' = IF snap = Null THEN Null ELSE [snap EXCEPT ![Head(pipe).part] = Head(pipe).value]
    /\ Judge(Head(pipe))
    /\ UNCHANGED <<coreVars, serverVars, status, window, read, conn, breaks>>

\* The answer to state.snapshot: the events kept since are applied again (they
\* were kept in the order of their revisions: the last one sets the window's)
OnAnswer(a) ==
    /\ a.answer # "awaited"
    /\ asks' = asks \ {a}
    /\ IF pending = Null \/ pending.id # a.id
         THEN UNCHANGED <<wrev, snap, pending>>
         ELSE /\ pending' = Null
              /\ IF a.answer = "failed"
                   THEN UNCHANGED <<wrev, snap>>
                   ELSE LET since == {i \in DOMAIN pending.events :
                                       pending.from = Null \/ pending.events[i].rev > pending.from} IN
                        /\ snap' = Replay(a.state, pending.events, since)
                        /\ wrev' = IF since = {} THEN pending.from ELSE pending.events[LastOf(since)].rev
    /\ UNCHANGED <<coreVars, serverVars, pipe, status, window, read, conn, late, lastAsk, breaks>>

-----------------------------------------------------------------------------
CoreStep == \E t \in Publisher : SendEvent(t) \/ \E p \in Part : Publish(t, p) \/ PublishLive(t, p)

ServerStep == Accept \/ Subscribe \/ FirstSnapshot \/ Forward \/ Lagged \/ \E a \in asks : TakeSnapshot(a)

WindowStep ==
    \/ OpenWindow \/ ReadStatus \/ OnStatus \/ CloseWindow \/ Unheard
    \/ OnWelcome \/ OnBroken \/ OnBye \/ OnSnapshot \/ DropEvent \/ ApplyEvent
    \/ \E a \in asks : OnAnswer(a)

SyncNext == CoreStep \/ ServerStep \/ WindowStep \/ BreakPipe \/ RestartCore

SyncSpec == SyncInit /\ [][SyncNext]_syncVars

-----------------------------------------------------------------------------
\* Types of the variables.
SyncTypeOK ==
    /\ rev \in Nat /\ changes \in Nat /\ sent \in Nat /\ core \in Parts
    /\ sending \in [Publisher -> Event \cup {Null}]
    /\ server \in {"down", "welcome", "subscribed", "up"}
    /\ chan \in Seq(Event) /\ Len(chan) <= Capacity /\ lagged \in BOOLEAN
    /\ pipe \in Seq(Message)
    /\ status \in BOOLEAN /\ conn \in BOOLEAN /\ late \in BOOLEAN
    /\ window \in {"closed", "listening", "open"}
    /\ read \in BOOLEAN \cup {Null}
    /\ wrev \in Nat \cup {Null} /\ snap \in Parts \cup {Null}
    /\ pending \in Waiting \cup {Null} /\ (pending # Null => pending.id <= lastAsk)
    /\ \A a \in asks : a.id \in 1..lastAsk /\ a.answer \in {"awaited", "failed", "taken"}
                       /\ IF a.answer = "taken" THEN a.state \in Parts ELSE a.state = Null
    /\ lastAsk \in 0..MaxAsk /\ breaks \in Nat

\* Nothing is on its way to the open window
Still ==
    /\ window = "open" /\ server = "up"
    /\ \A t \in Publisher : sending[t] = Null
    /\ chan = <<>> /\ ~lagged /\ pipe = <<>> /\ asks = {}

\* store.ts: "the newest one of each part ends up in place": once nothing is
\* on its way the window shows the state of the core, whatever was lost,
\* reordered, asked for again or restarted meanwhile.
Settles == Still => snap = core

\* The same, and the window's revision is the core's, so that the next gap is
\* noticed (or unknown), unless an event sent out of turn met the window while
\* it waited for a snapshot or had no revision: the only way it is left behind.
SettlesInOrder == ~late => Settles /\ (Still => wrev \in {Null, rev})

\* What the window shows is safe: a bounded channel may drop events, never the
\* order they settle in.
SyncSafe == SyncTypeOK /\ SettlesInOrder
=============================================================================
