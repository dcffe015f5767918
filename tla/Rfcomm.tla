------------------------------- MODULE Rfcomm -------------------------------
(***************************************************************************)
(* RFCOMM channels for IPC clients: the opens and channels of the BTstack  *)
(* thread (bt-host/src/rfcomm.rs), the calls that post to it               *)
(* (bt-host/src/lib.rs), and the channels of one client connection         *)
(* (core/src/rfcomm.rs), whose open requests are answered by tasks of      *)
(* their own.  An open is answered by the run loop, by its deadline, by    *)
(* the end of the A2DP connection, by a stop of the stack, or by nobody in *)
(* time; the channel it asked for may come up after any of them.           *)
(*                                                                         *)
(* One device.  Data is counted in pieces; a channel is the open that made *)
(* it.                                                                     *)
(***************************************************************************)
EXTENDS Naturals, Sequences, FiniteSets

CONSTANTS
    Opening,     \* channel ids, in the order of the opens: 1..n
    MaxChannels, \* MAX_CHANNELS
    MaxPending,  \* MAX_PENDING_BYTES, in pieces
    MaxData,     \* bound: pieces received per channel
    MaxSend,     \* bound: pieces the client sends, on all channels
    MayHang      \* the run loop may be held up past RFCOMM_OPEN_TIMEOUT

ASSUME RfcommConstants ==
    /\ Opening \subseteq Nat /\ IsFiniteSet(Opening)
    /\ MaxChannels \in Nat /\ MaxPending \in Nat
    /\ MaxData \in Nat /\ MaxSend \in Nat

VARIABLES
    jobs,        \* posted to the BTstack thread, in order
    opens,       \* Rfcomm::opens: the first one runs
    channels,    \* Rfcomm::channels, by id
    air,         \* channels up in RFCOMM
    a2dp,        \* connected to the device
    running,     \* the stack runs
    task,        \* the open request of each id, on the client's side
    owned,       \* Inner::owned
    closed,      \* Inner::closed
    held,        \* Inner::held, by id
    ended,       \* Inner::ended
    pendingData, \* Channels::pending, in pieces
    log,         \* messages to the client's writer
    written,     \* how many of them it wrote
    sends,       \* pieces sent by the client
    got,         \* pieces received per channel
    raced        \* ids answered between the caller's time-out and its end

inner == <<owned, closed, held, ended, pendingData>>
client == <<task, inner, log, written, sends>>
rfcommVars == <<jobs, opens, channels, air, a2dp, running, client, got, raced>>

NoChannel == [st |-> "none", queue |-> 0, asked |-> FALSE]

RfcommInit ==
    /\ jobs = <<>> /\ opens = <<>>
    /\ channels = [i \in Opening |-> NoChannel] /\ air = {}
    /\ a2dp = TRUE /\ running = TRUE
    /\ task = [i \in Opening |-> "none"]
    /\ owned = {} /\ closed = {} /\ held = [i \in Opening |-> <<>>] /\ ended = FALSE
    /\ pendingData = 0 /\ log = <<>> /\ written = 0 /\ sends = 0
    /\ got = [i \in Opening |-> 0] /\ raced = {}

Msg(i, k) == [id |-> i, kind |-> k]
Job(o, i) == [op |-> o, id |-> i]
Post(j) == jobs' = Append(jobs, j)

----------------------------------------------------------------------------
(* The client connection.                                                  *)

\* Channels::open: a task posts the open and waits for its answer.
RequestOpen ==
    /\ running /\ ~ended
    /\ \E i \in Opening :
          /\ task[i] = "none" /\ \A k \in Opening : k < i => task[k] # "none"
          /\ task' = [task EXCEPT ![i] = "wait"]
          /\ Post(Job("open", i))
    /\ UNCHANGED <<opens, channels, air, a2dp, running, inner, log, written, sends, got, raced>>

\* rfcomm.send and rfcomm.close, of a channel of this connection.
RequestSend ==
    /\ running /\ ~ended /\ sends < MaxSend
    /\ \E i \in owned : Post(Job("send", i))
    /\ sends' = sends + 1
    /\ UNCHANGED <<opens, channels, air, a2dp, running, task, inner, log, written, got, raced>>

RequestClose ==
    /\ running /\ ~ended
    /\ \E i \in owned :
          /\ owned' = owned \ {i} /\ closed' = closed \cup {i}
          /\ log' = Append(log, Msg(i, "close"))
          /\ Post(Job("close", i))
    /\ UNCHANGED <<opens, channels, air, a2dp, running, task, held, ended, pendingData,
                   written, sends, got, raced>>

EndIsIn(evs) == \E k \in DOMAIN evs : evs[k].kind = "closed"

\* The answer goes out, and behind it what the channel sent before (its end
\* ends the ownership again).
HandOver(i) ==
    /\ log' = log \o (<<Msg(i, "opened")>> \o held[i])
    /\ owned' = IF EndIsIn(held[i]) THEN owned \ {i} ELSE owned \cup {i}
    /\ held' = [held EXCEPT ![i] = <<>>]

\* mutant: the connection that ended meanwhile is forgotten.
OpenedLeaks ==
    \E i \in Opening :
       /\ task[i] = "ok" /\ task' = [task EXCEPT ![i] = "done"]
       /\ IF ended THEN UNCHANGED <<owned, held, log>> ELSE HandOver(i)
       /\ UNCHANGED <<jobs, opens, channels, air, a2dp, running, closed, ended, pendingData,
                      written, sends, got, raced>>

\* The open was answered: the channel is the connection's.  Nobody is left
\* to own it: closed.
Opened ==
    \E i \in Opening :
       /\ task[i] = "ok" /\ task' = [task EXCEPT ![i] = "done"]
       /\ IF ended
          THEN Post(Job("close", i)) /\ UNCHANGED <<owned, held, log>>
          ELSE HandOver(i) /\ UNCHANGED jobs
       /\ UNCHANGED <<opens, channels, air, a2dp, running, closed, ended, pendingData,
                      written, sends, got, raced>>

NotOpened ==
    \E i \in Opening :
       /\ task[i] \in {"err", "timed", "timedOk"}
       /\ task' = [task EXCEPT ![i] = "done"]
       /\ log' = Append(log, Msg(i, "failed"))
       /\ UNCHANGED <<jobs, opens, channels, air, a2dp, running, inner, written, sends, got, raced>>

\* RFCOMM_OPEN_TIMEOUT: the caller's receiver is dropped a moment later.
TimesOut ==
    /\ MayHang
    /\ \E i \in Opening : task[i] = "wait" /\ task' = [task EXCEPT ![i] = "timed"]
    /\ UNCHANGED <<jobs, opens, channels, air, a2dp, running, inner, log, written, sends, got, raced>>

\* The connection's writer; Channels::written.
Writes ==
    /\ written < Len(log) /\ ~ended /\ written' = written + 1
    /\ pendingData' = IF log[written + 1].kind = "data" THEN pendingData - 1 ELSE pendingData
    /\ UNCHANGED <<jobs, opens, channels, air, a2dp, running, task, owned, closed, held, ended,
                   log, sends, got, raced>>

\* The orders in which HashSet::drain may give the members of S.
Drained(S) ==
    {f \in [1..Cardinality(S) -> S] : \A x \in S : \E k \in DOMAIN f : f[k] = x}

\* Channels::drop: the channels it owns are closed.
ConnectionEnds ==
    /\ ~ended /\ ended' = TRUE
    /\ owned' = {} /\ held' = [i \in Opening |-> <<>>]
    /\ IF running
       THEN \E ids \in Drained(owned) :
               jobs' = jobs \o [k \in 1..Cardinality(owned) |-> Job("close", ids[k])]
       ELSE UNCHANGED jobs
    /\ UNCHANGED <<opens, channels, air, a2dp, running, task, closed, pendingData, log, written,
                   sends, got, raced>>

----------------------------------------------------------------------------
(* The BTstack thread.                                                     *)

\* Open::answer of the opens in S: taken by a caller that still waits.
Answered(S, how) ==
    [i \in Opening |-> IF i \in S /\ task[i] = "wait" THEN how
                       ELSE IF i \in S /\ task[i] = "timed" /\ how = "ok" THEN "timedOk"
                       ELSE task[i]]

IdsOf(os) == {os[k].id : k \in {n \in DOMAIN os : os[n].reply}}

\* Rfcomm::next of the opens `os`: the first one starts, those BTstack refuses
\* at once have failed.
Begins(os, failed) ==
    IF os = <<>> \/ Head(os).stage # "waiting"
    THEN opens' = os /\ failed = {}
    ELSE \/ opens' = <<>> /\ failed = IdsOf(os)
         \/ \E k \in 0..(Len(os) - 1), s \in {"sdp", "connecting"} :
               /\ opens' = <<[os[k + 1] EXCEPT !.stage = s]>> \o SubSeq(os, k + 2, Len(os))
               /\ failed = IdsOf(SubSeq(os, 1, k))

\* The opens after a handler that leaves `os` and answers those in S with an
\* error.
Go(os, S) ==
    \E failed \in SUBSET Opening : Begins(os, failed) /\ task' = Answered(S \cup failed, "err")

Present == {i \in Opening : channels[i].st # "none"}

RunOpen(i) ==
    /\ UNCHANGED <<channels, air>>
    /\ IF ~a2dp \/ Len(opens) + Cardinality(Present) >= MaxChannels
       THEN task' = Answered({i}, "err") /\ UNCHANGED opens
       ELSE Go(Append(opens, [id |-> i, stage |-> "waiting", reply |-> TRUE]), {})

\* Channel::send_next: as many pieces as RFCOMM takes, then it is asked.
SendNext(c, n) ==
    IF c.asked THEN {[c EXCEPT !.queue = n]}
    ELSE {[c EXCEPT !.queue = m, !.asked = m > 0] : m \in 0..n}

RunSend(i) ==
    /\ channels[i].st = "open"
    /\ \E c \in SendNext(channels[i], channels[i].queue + 1) : channels' = [channels EXCEPT ![i] = c]
    /\ UNCHANGED <<opens, air, task>>

RunClose(i) ==
    /\ channels[i].st = "open"
    /\ IF channels[i].queue = 0
       THEN channels' = [channels EXCEPT ![i] = NoChannel] /\ air' = air \ {i}
       ELSE channels' = [channels EXCEPT ![i].st = "closing"] /\ UNCHANGED air
    /\ UNCHANGED <<opens, task>>

\* No such channel (any more).
RunNothing(i) == channels[i].st # "open" /\ UNCHANGED <<opens, channels, air, task>>

RunJob ==
    /\ running /\ jobs # <<>> /\ jobs' = Tail(jobs)
    /\ LET j == Head(jobs)
       IN  \/ j.op = "open" /\ RunOpen(j.id)
           \/ j.op = "send" /\ RunSend(j.id)
           \/ j.op = "close" /\ RunClose(j.id)
           \/ j.op \in {"send", "close"} /\ RunNothing(j.id)
    /\ UNCHANGED <<a2dp, running, inner, log, written, sends, got, raced>>

\* mutant: the open that runs has no deadline.
OnTimerWaiting ==
    /\ running
    /\ \E n \in 2..Len(opens) :
          Go(<<opens[1]>> \o SubSeq(opens, n + 1, Len(opens)), IdsOf(SubSeq(opens, 2, n)))
    /\ UNCHANGED <<jobs, channels, air, a2dp, running, inner, log, written, sends, got, raced>>

\* TIMER_RFCOMM: the opens past their deadline, the n oldest, are answered.
\* Those that wait (all but the first) are dropped, the one that runs goes on.
OnTimer ==
    /\ running
    /\ \E n \in 1..Len(opens) :
          /\ opens[1].reply \/ n > 1
          /\ Go(<<[opens[1] EXCEPT !.reply = FALSE]>> \o SubSeq(opens, n + 1, Len(opens)),
                IdsOf(SubSeq(opens, 1, n)))
    /\ UNCHANGED <<jobs, channels, air, a2dp, running, inner, log, written, sends, got, raced>>

\* SDP_EVENT_QUERY_COMPLETE of the open that runs.
OnSdp ==
    /\ running /\ opens # <<>> /\ opens[1].stage = "sdp"
    /\ \/ /\ opens[1].reply
          /\ opens' = [opens EXCEPT ![1].stage = "connecting"] /\ UNCHANGED task
       \/ Go(Tail(opens), IdsOf(<<opens[1]>>))
    /\ UNCHANGED <<jobs, channels, air, a2dp, running, inner, log, written, sends, got, raced>>

\* RFCOMM_EVENT_CHANNEL_OPENED: the channel is handed to the caller that
\* still waits, else it is closed at once; or the device refused it.
ChannelOpened ==
    /\ running /\ opens # <<>> /\ opens[1].stage = "connecting"
    /\ LET i == opens[1].id
           taken == opens[1].reply /\ task[i] \in {"wait", "timed"}
       IN  \/ /\ taken
              /\ \E failed \in SUBSET Opening :
                    /\ Begins(Tail(opens), failed)
                    /\ task' = [Answered(failed, "err") EXCEPT ![i] = Answered({i}, "ok")[i]]
              /\ channels' = [channels EXCEPT ![i].st = "open"] /\ air' = air \cup {i}
              /\ raced' = IF task[i] = "timed" THEN raced \cup {i} ELSE raced
           \/ /\ ~taken /\ Go(Tail(opens), {})
              /\ UNCHANGED <<channels, air, raced>>
           \/ Go(Tail(opens), IdsOf(<<opens[1]>>)) /\ UNCHANGED <<channels, air, raced>>
    /\ UNCHANGED <<jobs, a2dp, running, inner, log, written, sends, got>>

\* Inner::put, with the connection's lock held: an event of a channel that is
\* not owned yet waits for the answer to its open.
Put(i, kind) ==
    IF i \in owned
    THEN /\ log' = Append(log, Msg(i, kind)) /\ UNCHANGED held
         /\ owned' = IF kind = "closed" THEN owned \ {i} ELSE owned
    ELSE held' = [held EXCEPT ![i] = Append(@, Msg(i, kind))] /\ UNCHANGED <<owned, log>>

\* Data of a channel: too much that is not written yet closes it.
Data ==
    /\ running
    /\ \E i \in Present \cap air :
          /\ got[i] < MaxData /\ got' = [got EXCEPT ![i] = @ + 1]
          /\ \/ /\ channels[i].st = "closing" \/ ended \/ i \in closed
                /\ UNCHANGED <<inner, log, channels, air>>
             \/ /\ channels[i].st = "open" /\ ~ended /\ i \notin closed
                /\ pendingData < MaxPending /\ pendingData' = pendingData + 1
                /\ Put(i, "data") /\ UNCHANGED <<closed, ended, channels, air>>
             \/ /\ channels[i].st = "open" /\ ~ended /\ i \notin closed
                /\ pendingData >= MaxPending
                /\ closed' = closed \cup {i} /\ Put(i, "closed")
                /\ channels' = [channels EXCEPT ![i] = NoChannel] /\ air' = air \ {i}
                /\ UNCHANGED <<ended, pendingData>>
    /\ UNCHANGED <<jobs, opens, a2dp, running, task, written, sends, raced>>

\* RFCOMM_EVENT_CHANNEL_CLOSED: by the device, or with the link.
RemoteCloses ==
    /\ running
    /\ \E i \in Present \cap air :
          /\ air' = air \ {i} /\ channels' = [channels EXCEPT ![i] = NoChannel]
          /\ IF channels[i].st = "closing" \/ ended \/ i \in closed
             THEN UNCHANGED <<inner, log>>
             ELSE Put(i, "closed") /\ UNCHANGED <<closed, ended, pendingData>>
    /\ UNCHANGED <<jobs, opens, a2dp, running, task, written, sends, got, raced>>

\* RFCOMM_EVENT_CAN_SEND_NOW.
CanSend ==
    /\ running
    /\ \E i \in Present \cap air :
          /\ channels[i].asked
          /\ \E c \in SendNext([channels[i] EXCEPT !.asked = FALSE], channels[i].queue) :
                IF c.st = "closing" /\ c.queue = 0
                THEN channels' = [channels EXCEPT ![i] = NoChannel] /\ air' = air \ {i}
                ELSE channels' = [channels EXCEPT ![i] = c] /\ UNCHANGED air
    /\ UNCHANGED <<jobs, opens, a2dp, running, client, got, raced>>

\* The sink of every channel that its client did not close is told of its
\* end, in the order the channels were opened.
TellAll ==
    LET told == {i \in Present : channels[i].st = "open"} \ closed
        mine == told \cap owned
    IN  IF ended THEN UNCHANGED <<inner, log>>
        ELSE /\ \E ids \in Drained(mine) :
                   /\ \A a, b \in DOMAIN ids : a < b => ids[a] < ids[b]
                   /\ log' = log \o [k \in 1..Cardinality(mine) |-> Msg(ids[k], "closed")]
             /\ owned' = owned \ mine
             /\ held' = [i \in Opening |-> IF i \in told \ owned
                                           THEN Append(held[i], Msg(i, "closed")) ELSE held[i]]
             /\ UNCHANGED <<closed, ended, pendingData>>

\* close_device: the A2DP connection ended.
A2dpEnds ==
    /\ running /\ a2dp /\ a2dp' = FALSE
    /\ TellAll /\ channels' = [i \in Opening |-> NoChannel] /\ air' = {}
    /\ Go(IF opens = <<>> THEN <<>> ELSE <<[opens[1] EXCEPT !.reply = FALSE]>>, IdsOf(opens))
    /\ UNCHANGED <<jobs, running, written, sends, got, raced>>

\* Connected again; an open of before may still run.
A2dpStarts ==
    /\ running /\ ~a2dp /\ a2dp' = TRUE
    /\ UNCHANGED <<jobs, opens, channels, air, running, client, got, raced>>

\* The run loop exits: Rfcomm::stop; posted jobs are dropped, which ends the
\* waits of their callers.
StackStops ==
    /\ running /\ running' = FALSE
    /\ TellAll /\ channels' = [i \in Opening |-> NoChannel] /\ air' = {}
    /\ opens' = <<>> /\ jobs' = <<>>
    /\ task' = Answered(Opening, "err")
    /\ UNCHANGED <<a2dp, written, sends, got, raced>>

----------------------------------------------------------------------------
Client == RequestOpen \/ RequestSend \/ RequestClose \/ ConnectionEnds

Tasks == Opened \/ NotOpened \/ TimesOut

RunLoop == RunJob \/ OnTimer \/ OnSdp \/ ChannelOpened \/ CanSend

Remote == Data \/ RemoteCloses \/ A2dpEnds \/ A2dpStarts \/ StackStops

RfcommNext == Client \/ Tasks \/ Writes \/ RunLoop \/ Remote

RfcommSpec == RfcommInit /\ [][RfcommNext]_rfcommVars

----------------------------------------------------------------------------
(* Properties.                                                             *)

RfcommTypeOK ==
    /\ \A i \in Opening :
          /\ channels[i] \in [st : {"none", "open", "closing"}, queue : 0..MaxSend, asked : BOOLEAN]
          /\ task[i] \in {"none", "wait", "ok", "err", "timed", "timedOk", "done"}
    /\ Len(opens) + Cardinality(Present) <= MaxChannels
    /\ \A k \in DOMAIN opens : opens[k].stage = "waiting" <=> k > 1
    /\ owned \subseteq Opening /\ closed \subseteq Opening
    /\ ended => owned = {} /\ \A i \in Opening : held[i] = <<>>
    /\ pendingData \in 0..MaxPending

DataIn(evs) == {k \in DOMAIN evs : evs[k].kind = "data"}
Unread == {k \in DataIn(log) : k > written}
DataHeld == UNION {{i} \X DataIn(held[i]) : i \in Opening}

\* The limit of what the client does not read counts it right: data goes in
\* once, by whatever way, and out when it is written.
PendingIsCounted ==
    ~ended => pendingData = Cardinality(Unread) + Cardinality(DataHeld)

Closes(i) == \E k \in DOMAIN jobs : jobs[k] = Job("close", i)

\* No channel is left without an owner: one that is open belongs to the
\* connection, or its open is about to be handed over, or its close is
\* posted.  Only an answer that falls between the caller's time-out and the
\* end of its wait escapes, and RFCOMM has no channel the app does not know.
NoOrphan ==
    /\ air \subseteq Present
    /\ \A i \in Present \ raced : channels[i].st = "open" =>
          \/ i \in owned \/ task[i] = "ok"
          \/ Closes(i)

\* A channel the client was given is open: its end, whoever ends it, is told
\* in the same step or held for the answer to its open.
OwnedIsOpen == \A i \in owned : channels[i].st = "open"

\* A channel its client closed goes once its queue is sent: RFCOMM owes it
\* the moment to send.
ClosingDrains ==
    \A i \in Opening : channels[i].st = "closing" => channels[i].queue > 0 /\ channels[i].asked

\* What the client reads of a channel: nothing before the answer to its
\* open, nothing after its end or after the client's own close, and one end
\* at most.
ToldInOrder ==
    \A k \in DOMAIN log : log[k].kind \in {"data", "closed"} =>
        /\ \E j \in 1..(k - 1) : log[j] = Msg(log[k].id, "opened")
        /\ \A j \in 1..(k - 1) : log[j] \notin {Msg(log[k].id, "closed"), Msg(log[k].id, "close")}

\* Every open request is answered, whatever the device, the A2DP connection
\* and the stack do meanwhile: time and again none waits (each id is opened
\* once).
OpenAnswered == []<>(\A i \in Opening : task[i] # "wait")

\* The channels of clients are safe: none without an owner, none owned that is
\* gone, none that closes for ever, each told of in order, and the data that
\* waits for the client counted right.
ChannelsSafe == RfcommTypeOK /\ NoOrphan /\ OwnedIsOpen /\ ClosingDrains /\ ToldInOrder
                /\ PendingIsCounted
=============================================================================
