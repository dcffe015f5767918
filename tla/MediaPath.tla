------------------------------ MODULE MediaPath ------------------------------
(***************************************************************************)
(* The audio path of an A2DP stream: capture thread, encode thread and     *)
(* BTstack thread, joined by two single-producer single-consumer rings     *)
(* (pipeline/src/lib.rs, pipeline/src/packetizer.rs, bt-host/src/media.rs  *)
(* and the media half of bt-host/src/app.rs).  No lock is held anywhere on *)
(* this path: the encode thread reads the stream's flag, then queues, then *)
(* wakes the BTstack thread, and the stream may stop and start again in    *)
(* between.                                                                *)
(*                                                                         *)
(* Audio is counted in units; PerEncode of them make an encoder block, a   *)
(* block makes one codec frame, PackMax frames fill a packet.  A packet is *)
(* the sequence of its units and the start of the stream (`gen`) whose     *)
(* flag the encode thread read before it queued the packet.                *)
(***************************************************************************)
EXTENDS Naturals, Sequences, FiniteSets, SequencesExt

CONSTANTS
    MaxUnit,      \* bound: units captured
    RingSize,     \* units the capture ring holds
    Round,        \* units the encode thread reads at a time
    PerEncode,    \* units per encoder block
    PackMax,      \* codec frames per packet
    Kinds,        \* packetizing: "merged", "single" (one output per packet)
                  \* or "faststream" (only full packets leave)
    Hold,         \* encode at send time
    HoldDepth,    \* HOLD_DEPTH
    QueueSize,    \* MEDIA_QUEUE_PACKETS
    MaxRestarts,     \* bound: starts of the stream
    MaxReset      \* bound: resets and restarts of the pipeline

ASSUME SizeAssumption ==
    /\ \A n \in {RingSize, Round, PerEncode, PackMax, QueueSize, HoldDepth} :
          n \in Nat \ {0}
    /\ MaxUnit \in Nat /\ MaxRestarts \in Nat /\ MaxReset \in Nat
    /\ Kinds \subseteq {"merged", "single", "faststream"}
    /\ Hold \in BOOLEAN

VARIABLES
    captured,   \* units captured
    ring,       \* the capture ring
    pcm,        \* encode thread: converted units, less than a block kept
    pack,       \* encode thread: the packetizer's packet
    out,        \* encode thread: the packet in `send`, and the start seen
    kind,       \* how this pipeline's codec is packetized
    step,         \* encode thread: where it is
    control,    \* the pipeline's stop and reset flags
    queue,      \* the media queue
    wake,       \* a wake of the BTstack thread is on its way
    streaming,  \* the stream is started (app.streaming, media_streaming)
    requested,  \* can_send_requested
    awaited,      \* BTstack holds a can-send request of ours
    gen,        \* starts of the stream so far
    epoch,      \* resets of the pipeline so far
    mark,       \* the last unit captured when the last reset was asked for
    last        \* the last unit sent

NoPacket == [units |-> <<>>, gen |-> 0]

encoder == <<pcm, pack, out, kind, step>>
radio   == <<streaming, requested, awaited, gen>>
mediaVars    == <<captured, ring, encoder, control, queue, wake, radio, epoch, mark, last>>

MediaInit ==
    /\ captured = 0 /\ ring = <<>> /\ pcm = <<>> /\ pack = <<>>
    /\ out = NoPacket /\ kind \in Kinds /\ step = "off"
    /\ control = [stop |-> FALSE, reset |-> FALSE]
    /\ queue = <<>> /\ wake = FALSE
    /\ streaming = FALSE /\ requested = FALSE /\ awaited = FALSE
    /\ gen = 0 /\ epoch = 0 /\ mark = 0 /\ last = 0

----------------------------------------------------------------------------
(* The capture thread.                                                     *)

\* CaptureInput::push: the whole buffer or nothing, when the ring is full.
Capture ==
    /\ step # "off" /\ captured < MaxUnit
    /\ captured' = captured + 1
    /\ ring' = IF Len(ring) < RingSize THEN Append(ring, captured + 1) ELSE ring
    /\ UNCHANGED <<encoder, control, queue, wake, radio, epoch, mark, last>>

----------------------------------------------------------------------------
(* The session: pipelines are started, reset after a reconnection and      *)
(* stopped.  A new pipeline has a new ring and a new encode thread.        *)

StartPipeline ==
    /\ step = "off" /\ epoch < MaxReset
    /\ step' = "top" /\ ring' = <<>> /\ pcm' = <<>> /\ pack' = <<>>
    /\ out' = NoPacket /\ kind' \in Kinds
    /\ control' = [stop |-> FALSE, reset |-> FALSE]
    /\ epoch' = epoch + 1 /\ mark' = captured
    /\ UNCHANGED <<captured, queue, wake, radio, last>>

ResetPipeline ==
    /\ step # "off" /\ ~control.reset /\ ~control.stop /\ epoch < MaxReset
    /\ control' = [control EXCEPT !.reset = TRUE]
    /\ mark' = captured /\ epoch' = epoch + 1
    /\ UNCHANGED <<captured, ring, encoder, queue, wake, radio, last>>

StopPipeline ==
    /\ step # "off" /\ ~control.stop
    /\ control' = [control EXCEPT !.stop = TRUE]
    /\ UNCHANGED <<captured, ring, encoder, queue, wake, radio, epoch, mark, last>>

----------------------------------------------------------------------------
(* The encode thread.                                                      *)

Ended ==
    /\ step = "top" /\ control.stop
    /\ step' = "off" /\ ring' = <<>> /\ pcm' = <<>> /\ pack' = <<>>
    /\ UNCHANGED <<captured, out, kind, control, queue, wake, radio, epoch, mark, last>>

\* A reset drops what is buffered: the ring, the rest of a block, the packet.
TakeReset ==
    /\ step = "top" /\ ~control.stop /\ control.reset
    /\ control' = [control EXCEPT !.reset = FALSE]
    /\ ring' = <<>> /\ pcm' = <<>> /\ pack' = <<>>
    /\ UNCHANGED <<captured, out, kind, step, queue, wake, radio, epoch, mark, last>>

\* The thread goes round.
Running == step = "top" /\ ~control.stop /\ ~control.reset

\* Encode at send time: audio held back too long is dropped, oldest first.
DropHeld ==
    /\ Running /\ Hold /\ streaming /\ Len(ring) > 1
    /\ ring' = Tail(ring)
    /\ UNCHANGED <<captured, encoder, control, queue, wake, radio, epoch, mark, last>>

\* A round: at most Round units are read and converted.  Encode at send time
\* leaves them in the ring while enough packets wait.
Read ==
    /\ Running /\ ring # <<>>
    /\ ~(Hold /\ streaming /\ Len(queue) >= HoldDepth)
    /\ LET n == IF Len(ring) < Round THEN Len(ring) ELSE Round
       IN  /\ pcm' = pcm \o SubSeq(ring, 1, n)
           /\ ring' = SubSeq(ring, n + 1, Len(ring))
    /\ step' = "encode"
    /\ UNCHANGED <<captured, pack, out, kind, control, queue, wake, radio, epoch, mark, last>>

Block == SubSeq(pcm, 1, PerEncode)
Rest  == SubSeq(pcm, PerEncode + 1, Len(pcm))
Full(p) == Len(p) + PerEncode > PackMax * PerEncode

\* A packet handed to `send`.
Emit(units) == out' = [units |-> units, gen |-> 0]

\* Packetizer::push of one encoder output: a packet the output does not fit
\* is sent first; some codecs send every output on its own.  An encoder
\* error, or an output of no bytes, adds nothing.
Encode ==
    /\ step = "encode" /\ Len(pcm) >= PerEncode
    /\ pcm' = Rest
    /\ \/ kind = "single" /\ Emit(Block) /\ step' = "send" /\ UNCHANGED pack
       \/ kind # "single" /\ Full(pack) /\ Emit(pack) /\ pack' = Block /\ step' = "send"
       \/ kind # "single" /\ ~Full(pack) /\ pack' = pack \o Block /\ UNCHANGED <<out, step>>
       \/ UNCHANGED <<pack, out, step>>
    /\ UNCHANGED <<captured, ring, kind, control, queue, wake, radio, epoch, mark, last>>

\* mutant: a packet flushed at the end of a round is not emptied.
EndRoundRepeats ==
    /\ step = "encode" /\ Len(pcm) < PerEncode
    /\ IF pack = <<>> \/ (kind = "faststream" /\ ~Full(pack))
       THEN step' = "top" /\ UNCHANGED <<pack, out>>
       ELSE Emit(pack) /\ step' = "last" /\ UNCHANGED pack
    /\ UNCHANGED <<captured, ring, pcm, kind, control, queue, wake, radio, epoch, mark, last>>

\* Packetizer::end_round: what is collected is sent, but not a FastStream
\* packet with room for more.
EndRound ==
    /\ step = "encode" /\ Len(pcm) < PerEncode
    /\ IF pack = <<>> \/ (kind = "faststream" /\ ~Full(pack))
       THEN step' = "top" /\ UNCHANGED <<pack, out>>
       ELSE Emit(pack) /\ pack' = <<>> /\ step' = "last"
    /\ UNCHANGED <<captured, ring, pcm, kind, control, queue, wake, radio, epoch, mark, last>>

\* Where the round goes on after a packet.
After(p) == IF p \in {"last", "pushLast", "wakeLast"} THEN "top" ELSE "encode"

\* MediaSink::send reads the flag: nothing is queued while the stream is not
\* started.  What it read may be outdated when it queues.
Check ==
    /\ step \in {"send", "last"}
    /\ IF streaming
       THEN /\ step' = IF step = "send" THEN "push" ELSE "pushLast"
            /\ out' = [out EXCEPT !.gen = gen]
       ELSE step' = After(step) /\ out' = NoPacket
    /\ UNCHANGED <<captured, ring, pcm, pack, kind, control, queue, wake, radio, epoch, mark, last>>

\* A packet that finds the queue full is dropped, and wakes nobody.
Push ==
    /\ step \in {"push", "pushLast"}
    /\ IF Len(queue) < QueueSize
       THEN /\ queue' = Append(queue, out)
            /\ step' = IF step = "push" THEN "wake" ELSE "wakeLast"
       ELSE step' = After(step) /\ UNCHANGED queue
    /\ out' = NoPacket
    /\ UNCHANGED <<captured, ring, pcm, pack, kind, control, wake, radio, epoch, mark, last>>

Wake ==
    /\ step \in {"wake", "wakeLast"}
    /\ wake' = TRUE /\ step' = After(step)
    /\ UNCHANGED <<captured, ring, pcm, pack, out, kind, control, queue, radio, epoch, mark, last>>

----------------------------------------------------------------------------
(* The BTstack thread.  Its handlers run one at a time.                    *)

pipeline == <<captured, ring, encoder, control, epoch, mark>>

\* media::drop_stale: the oldest of a full queue goes, and so does every
\* packet that waited too long (any number of the oldest ones: time is not
\* modelled).  Nothing is dropped while the stream is not started.
Kept(q) ==
    IF ~streaming THEN {q}
    ELSE {SubSeq(q, n + 1, Len(q)) : n \in (IF Len(q) < QueueSize THEN 0 ELSE 1)..Len(q)}

\* kick_media, with the streaming flag and the queue after the handler.
Kick(on, req, held) ==
    IF on /\ ~req /\ queue' # <<>>
    THEN requested' = TRUE /\ awaited' = TRUE
    ELSE requested' = req /\ awaited' = held

\* on_wake.
SendOnWake ==
    /\ wake /\ wake' = FALSE
    /\ queue' \in Kept(queue)
    /\ Kick(streaming, requested, awaited)
    /\ UNCHANGED <<pipeline, streaming, gen, last>>

\* can_send_now.  BTstack refuses the packet when it no longer streams, or
\* when it does not fit: it is gone then too.
CanSend ==
    /\ awaited
    /\ \E q \in Kept(queue) :
          \/ q = <<>> /\ queue' = q /\ UNCHANGED last
          \/ /\ q # <<>> /\ queue' = Tail(q)
             /\ \/ last' = Last(Head(q).units)
                \/ UNCHANGED last
    /\ Kick(streaming, FALSE, FALSE)
    /\ UNCHANGED <<pipeline, wake, streaming, gen>>

\* A start of a stopped stream is a new one.
NewStart ==
    IF streaming THEN UNCHANGED gen ELSE gen < MaxRestarts /\ gen' = gen + 1

\* mutant: a can-send request of before the start is taken for pending.
StartedStillAsked ==
    /\ NewStart /\ streaming' = TRUE
    /\ queue' = IF streaming THEN queue ELSE <<>>
    /\ Kick(TRUE, requested, awaited)
    /\ UNCHANGED <<pipeline, wake, last>>

\* A2DP_SUBEVENT_STREAM_STARTED: set_streaming(true) drops what is queued,
\* unless the stream was already started.
Started ==
    /\ NewStart /\ streaming' = TRUE
    /\ queue' = IF streaming THEN queue ELSE <<>>
    /\ Kick(TRUE, FALSE, awaited)
    /\ UNCHANGED <<pipeline, wake, last>>

\* pause_stream, STREAM_SUSPENDED and STREAM_RELEASED: the request is left as
\* it was; BTstack forgets it with the stream.
StreamStopped ==
    /\ streaming /\ streaming' = FALSE
    /\ awaited' \in {awaited, FALSE}
    /\ UNCHANGED <<pipeline, queue, wake, requested, gen, last>>

\* forget_connection, SIGNALING_CONNECTION_RELEASED, DISCONNECTION_COMPLETE:
\* the connection is gone, and BTstack's request with it.
Lost ==
    /\ streaming' = FALSE /\ requested' = FALSE /\ awaited' = FALSE
    /\ UNCHANGED <<pipeline, queue, wake, gen, last>>

\* establish, of a new connection: empties the queue.
Establish ==
    /\ ~streaming /\ queue' = <<>> /\ requested' = FALSE
    /\ UNCHANGED <<pipeline, wake, streaming, awaited, gen, last>>

----------------------------------------------------------------------------
Encoding ==
    \/ Ended \/ TakeReset \/ DropHeld \/ Read \/ Encode \/ EndRound
    \/ Check \/ Push \/ Wake

Stack == SendOnWake \/ CanSend \/ Started \/ StreamStopped \/ Lost \/ Establish

MediaNext ==
    \/ Capture \/ StartPipeline \/ ResetPipeline \/ StopPipeline
    \/ Encoding \/ Stack

MediaSpec == MediaInit /\ [][MediaNext]_mediaVars

----------------------------------------------------------------------------
(* Properties.                                                             *)

Units == 1..MaxUnit

MediaTypeOK ==
    /\ captured \in 0..MaxUnit
    /\ ring \in Seq(Units) /\ Len(ring) <= RingSize
    /\ pcm \in Seq(Units) /\ Len(pcm) < PerEncode + Round
    /\ pack \in Seq(Units) /\ Len(pack) <= PackMax * PerEncode
    /\ out.units \in Seq(Units) /\ out.gen \in 0..gen
    /\ kind \in Kinds
    /\ step \in {"off", "top", "encode", "send", "last", "push", "pushLast", "wake", "wakeLast"}
    /\ control \in [stop : BOOLEAN, reset : BOOLEAN]
    /\ Len(queue) <= QueueSize
    /\ \A p \in ToSet(queue) : p.units \in Seq(Units) \ {<<>>} /\ p.gen \in 1..gen
    /\ {wake, streaming, requested, awaited} \subseteq BOOLEAN
    /\ gen \in 0..MaxRestarts /\ epoch \in 0..MaxReset
    /\ mark \in 0..captured /\ last \in 0..captured

\* Audio of before a suspend or a lost link does not go out after it: of the
\* packets queued for an earlier start of the stream at most the one whose
\* flag the encode thread had read when the stream stopped is left.
StaleAtMostOne ==
    streaming => Cardinality({i \in DOMAIN queue : queue[i].gen < gen}) <= 1

\* A reset of the pipeline (after a reconnection) loses everything captured
\* before it: once the encode thread took the reset nothing older is left
\* anywhere ahead of the queue, a half-filled packet included.
ResetDrops ==
    step # "off" /\ ~control.reset =>
        \A u \in ToSet(ring) \cup ToSet(pcm) \cup ToSet(pack) \cup ToSet(out.units) : u > mark

\* No packet is left behind: while the stream is started a queued packet has
\* a wake on its way, or BTstack holds our request to send.  (`requested`
\* that outlives the request would silence the stream until its next start.)
QueueServed ==
    streaming /\ queue # <<>> =>
        wake \/ step \in {"wake", "wakeLast"} \/ (requested /\ awaited)

UnitsOf(q) == UNION {ToSet(p.units) : p \in ToSet(q)}

Fifo == INSTANCE AudioFifo WITH
    pending <- ToSet(ring) \cup ToSet(pcm) \cup ToSet(pack)
               \cup ToSet(out.units) \cup UnitsOf(queue)

\* The audio path implements the lossy FIFO: across the three threads, the
\* two rings, the resets and restarts, nothing is repeated or reordered.
FifoSpec == Fifo!Spec

\* The media path is safe: across stops, starts and resets little stale audio
\* is left, none survives a reset, and no packet is left behind.
MediaSafe == MediaTypeOK /\ StaleAtMostOne /\ ResetDrops /\ QueueServed
=============================================================================
