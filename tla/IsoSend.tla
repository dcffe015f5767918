------------------------------- MODULE IsoSend -------------------------------
(***************************************************************************)
(* The audio of one LE Audio stream on its way to the controller: the LE   *)
(* encode thread puts SDU sets (one SDU per CIS for the same interval) into *)
(* the jitter buffer (le-audio/src/sdu_queue.rs), and on the BTstack thread *)
(* the sender (bt-host/src/le/iso_send.rs) takes one set per round, sends  *)
(* each CIS its SDU, and asks for the next round unless the send guard     *)
(* makes it wait.                                                          *)
(*                                                                         *)
(* A set is the number the encode thread gave it; 0 is the silence set.    *)
(* Time is counted in milliseconds, as the run loop does; the interval is  *)
(* counted in half milliseconds, because 7.5 ms is one of the intervals.   *)
(***************************************************************************)
EXTENDS Integers, Sequences, FiniteSets, FiniteSetsExt

CONSTANTS
    NumCis,         \* the CIS (or BIS) of the stream, 1..NumCis in plan order
    IsoPackets,     \* the controller's ISO buffers
    QueueMax,       \* QUEUE_DEPTH
    Capacity,       \* CAPACITY
    PrefillExtra,   \* PREFILL_EXTRA
    PrefillGrowth,  \* PREFILL_GROWTH
    SpareExtra,     \* SPARE_EXTRA
    Frame,          \* the interval of a set, in half milliseconds
    MaxSets,        \* bound: sets encoded
    MaxMs           \* bound: time

\* What the constants of the code are, and what the controller reports
ASSUME IsoConstants ==
    /\ {NumCis, QueueMax, Capacity, Frame} \subseteq Nat \ {0}
    /\ {IsoPackets, PrefillExtra, PrefillGrowth, SpareExtra, MaxSets, MaxMs} \subseteq Nat
    /\ SpareExtra >= 3

VARIABLES
    jitter,     \* the SduQueue
    encoding,   \* the set the encode thread fills, 0: none
    snd,        \* the IsoSender
    ctl,        \* BTstack and the controller: room asked for, CIS to be told, SDUs queued
    ms,         \* Stack::time_ms
    encoded,    \* sets taken to be encoded so far
    heard       \* [LeCis -> the last set of audio sent on it]
isoVars == <<jitter, encoding, snd, ctl, ms, encoded, heard>>

LeCis == 1..NumCis
None == -1

(***************************************************************************)
(* The jitter buffer                                                       *)
(***************************************************************************)

\* queue_depth, and the .max(1) of its callers
QueueDepth == Max({Min({IsoPackets \div NumCis, QueueMax}), 1})

\* SduQueue::configure
Configured ==
    [sets |-> <<>>, spares |-> Capacity + SpareExtra, buffering |-> TRUE,
     prefill |-> QueueDepth + PrefillExtra, most |-> QueueDepth + PrefillExtra + PrefillGrowth]

\* SduQueue::recycle
Recycle(q) == [q EXCEPT !.spares = Min({q.spares + 1, Capacity + SpareExtra})]

\* SduQueue::spare; an encoder that finds none allocates a set
Spare(q) == [q EXCEPT !.spares = Max({q.spares - 1, 0})]

\* SduQueue::push
QPush(q, set) ==
    IF Len(q.sets) >= Capacity
    THEN [Recycle(q) EXCEPT !.sets = Append(Tail(q.sets), set)]
    ELSE [q EXCEPT !.sets = Append(q.sets, set)]

\* SduQueue::pop: the next set, or silence (0) while the queue fills up
Pop(q) ==
    LET b == q.buffering /\ Len(q.sets) < q.prefill
    IN  IF ~b /\ q.sets # <<>>
        THEN <<Head(q.sets), [q EXCEPT !.buffering = FALSE, !.sets = Tail(q.sets)]>>
        ELSE <<0, [q EXCEPT !.buffering = TRUE,
                            !.prefill = IF ~b THEN Min({q.prefill + 1, q.most}) ELSE q.prefill]>>

(***************************************************************************)
(* The send guard                                                          *)
(***************************************************************************)
Lead == QueueDepth + 2

MaySend(rounds, elapsed) == rounds < (2 * elapsed) \div Frame + Lead

\* next_due_us, in whole milliseconds
NextDue(rounds) == (Max({rounds + 1 - Lead, 0}) * Frame) \div 2

(***************************************************************************)
(* The sender                                                              *)
(***************************************************************************)
NewSender ==
    [sending |-> FALSE, seq |-> [c \in LeCis |-> 0], alive |-> [c \in LeCis |-> TRUE],
     served |-> [c \in LeCis |-> FALSE], open |-> FALSE, current |-> None, rounds |-> 0,
     t0 |-> None, timer |-> None]

\* request_events: BTstack gives the event to every CIS of the group
RequestEvents(s, k) == IF \E c \in LeCis : s.alive[c] THEN [k EXCEPT !.asked = TRUE] ELSE k

\* request_next
RequestNext(s, k) ==
    LET t0 == IF s.t0 = None THEN ms ELSE s.t0
        due == NextDue(s.rounds)
        wait == Max({IF due > ms - t0 THEN due - (ms - t0) ELSE Frame \div 2, 1})
        begun == [s EXCEPT !.t0 = t0]
    IN  IF MaySend(s.rounds, ms - t0)
        THEN <<begun, RequestEvents(s, k)>>
        ELSE <<[begun EXCEPT !.timer = ms + wait], k>>

\* mutant: the newest set first
StartRoundNewest(s, q) ==
    LET b == q.buffering /\ Len(q.sets) < q.prefill
        n == Len(q.sets)
        none == b \/ n = 0
        taken == IF none THEN Spare(q) ELSE [q EXCEPT !.sets = SubSeq(q.sets, 1, n - 1)]
    IN  <<[s EXCEPT !.current = IF none THEN 0 ELSE q.sets[n], !.rounds = s.rounds + 1, !.open = TRUE,
                    !.served = [c \in LeCis |-> FALSE]],
          IF s.current = None THEN [taken EXCEPT !.buffering = none]
                              ELSE Recycle([taken EXCEPT !.buffering = none])>>

\* start_round: the silence of an underrun is copied into a spare set, the
\* set of the last round goes back to the pool
StartRound(s, q) ==
    LET p == Pop(q)
        spared == IF p[1] = 0 THEN Spare(p[2]) ELSE p[2]
    IN  <<[s EXCEPT !.current = p[1], !.rounds = s.rounds + 1, !.open = TRUE,
                    !.served = [c \in LeCis |-> FALSE]],
          IF s.current = None THEN spared ELSE Recycle(spared)>>

\* mutant: the first CIS that has its SDU ends the round
RoundDoneEarly(s) == \E c \in LeCis : s.alive[c] /\ s.served[c]

\* round_done
RoundDone(s) == \A c \in LeCis : s.alive[c] => s.served[c]

\* stop
StopSending(s, q) ==
    IF ~s.sending THEN <<s, q>>
    ELSE <<[s EXCEPT !.sending = FALSE, !.timer = None, !.current = None],
           IF s.current = None THEN q ELSE Recycle(q)>>

(***************************************************************************)
(* The BTstack thread                                                      *)
(***************************************************************************)
IsoInit ==
    /\ jitter = Configured
    /\ encoding = 0
    /\ snd = NewSender
    /\ ctl = [asked |-> FALSE, tell |-> {}, queued |-> [c \in LeCis |-> 0]]
    /\ ms = 0
    /\ encoded = 0
    /\ heard = [c \in LeCis |-> 0]

\* begin, once every CIS is up
Begin ==
    /\ ~snd.sending /\ snd.t0 = None
    /\ LET r == RequestNext([NewSender EXCEPT !.sending = TRUE], ctl)
       IN  snd' = r[1] /\ ctl' = r[2]
    /\ UNCHANGED <<jitter, encoding, ms, encoded, heard>>

\* on_cis_can_send_now / on_bis_can_send_now: the event comes in the order of
\* the CIS, and the last one completes the group.  BTstack may refuse the SDU.
OnCanSend ==
    /\ ctl.tell # {}
    /\ LET c == Min(ctl.tell)
           k == [ctl EXCEPT !.tell = @ \ {c}]
           r == IF ~snd.open \/ snd.served[c] THEN StartRound(snd, jitter) ELSE <<snd, jitter>>
           s == [r[1] EXCEPT !.seq[c] = @ + 1, !.served[c] = TRUE]
       IN  IF ~snd.sending
           THEN ctl' = k /\ UNCHANGED <<snd, jitter, heard>>
           ELSE \E ok \in BOOLEAN :
                  LET sent == IF ok THEN [k EXCEPT !.queued[c] = @ + 1] ELSE k
                      n == RequestNext([s EXCEPT !.open = FALSE], sent)
                      over == c = NumCis \/ RoundDone(s)
                  IN  /\ jitter' = r[2]
                      /\ heard' = IF ok /\ s.current > 0 THEN [heard EXCEPT ![c] = s.current] ELSE heard
                      /\ snd' = IF over THEN n[1] ELSE s
                      /\ ctl' = IF over THEN n[2] ELSE sent
    /\ UNCHANGED <<encoding, ms, encoded>>

\* on_timer
OnTimer ==
    /\ snd.timer # None
    /\ ms >= snd.timer
    /\ snd' = [snd EXCEPT !.timer = None]
    /\ ctl' = RequestEvents(snd, ctl)
    /\ UNCHANGED <<jitter, encoding, ms, encoded, heard>>

\* stop_unicast, stop_broadcast: stop
StopStream ==
    /\ snd.sending
    /\ LET r == StopSending(snd, jitter) IN snd' = r[1] /\ jitter' = r[2]
    /\ UNCHANGED <<encoding, ctl, ms, encoded, heard>>

\* on_link_lost of a CIS while streaming: on_cis_down, which may ask for the
\* next round, and then stream_lost, which stops the sender
CisLost(c) ==
    /\ snd.sending
    /\ LET down == [snd EXCEPT !.alive[c] = FALSE]
           again == (\E d \in LeCis : down.alive[d]) /\ down.open /\ RoundDone(down)
           gone == [ctl EXCEPT !.tell = @ \ {c}, !.queued[c] = 0]
           n == IF again THEN RequestNext([down EXCEPT !.open = FALSE], gone) ELSE <<down, gone>>
           r == StopSending(n[1], jitter)
       IN  snd' = r[1] /\ ctl' = n[2] /\ jitter' = r[2]
    /\ UNCHANGED <<encoding, ms, encoded, heard>>

(***************************************************************************)
(* The encode thread: encode_frame takes a spare set, encodes, pushes it   *)
(***************************************************************************)
TakeSpare ==
    /\ encoding = 0
    /\ encoded < MaxSets
    /\ encoded' = encoded + 1
    /\ encoding' = encoded + 1
    /\ jitter' = Spare(jitter)
    /\ UNCHANGED <<snd, ctl, ms, heard>>

PushSet ==
    /\ encoding # 0
    /\ jitter' = QPush(jitter, encoding)
    /\ encoding' = 0
    /\ UNCHANGED <<snd, ctl, ms, encoded, heard>>

(***************************************************************************)
(* BTstack and the controller                                              *)
(***************************************************************************)
\* Once every CIS that is up has room for an SDU, each is told.
RoomForAll ==
    /\ ctl.asked /\ ctl.tell = {}
    /\ \A c \in LeCis : snd.alive[c] => ctl.queued[c] < QueueDepth
    /\ ctl' = [ctl EXCEPT !.asked = FALSE, !.tell = {c \in LeCis : snd.alive[c]}]
    /\ UNCHANGED <<jitter, encoding, snd, ms, encoded, heard>>

\* Number Of Completed Packets
Completed(c) ==
    /\ ctl.queued[c] > 0
    /\ ctl' = [ctl EXCEPT !.queued[c] = @ - 1]
    /\ UNCHANGED <<jitter, encoding, snd, ms, encoded, heard>>

Tick ==
    /\ ms < MaxMs
    /\ ms' = ms + 1
    /\ UNCHANGED <<jitter, encoding, snd, ctl, encoded, heard>>

IsoNext ==
    \/ Begin \/ OnCanSend \/ OnTimer \/ StopStream
    \/ \E c \in LeCis : CisLost(c) \/ Completed(c)
    \/ TakeSpare \/ PushSet
    \/ RoomForAll \/ Tick

IsoSpec == IsoInit /\ [][IsoNext]_isoVars

(***************************************************************************)
(* Properties                                                              *)
(***************************************************************************)
\* Types and ranges; the queue and the prefill stay within their limits.
IsoTypeOK ==
    /\ jitter.sets \in UNION {[1..n -> 1..MaxSets] : n \in 0..Capacity}
    /\ jitter.spares \in 0..Capacity + SpareExtra
    /\ jitter.buffering \in BOOLEAN
    /\ jitter.prefill \in 1..jitter.most
    /\ encoding \in 0..MaxSets
    /\ snd.current \in None..MaxSets
    /\ snd.rounds \in Nat
    /\ \A c \in LeCis : snd.seq[c] \in Nat /\ ctl.queued[c] \in 0..QueueDepth
    /\ ms \in 0..MaxMs

\* The controller places SDUs by sequence number only, so the left and the
\* right channel stay together only as long as every CIS takes part in every
\* round: a CIS is one number behind exactly while the round still owes it
\* its SDU (iso_send.rs, on_can_send and start_round).
InStep ==
    snd.sending =>
        \A c \in LeCis : snd.seq[c] = snd.rounds - (IF snd.open /\ ~snd.served[c] THEN 1 ELSE 0)

\* A stream that is sending always has something that brings the next round:
\* events asked for, CIS about to be told, or the timer of the guard.
RoundsGoOn == snd.sending => ctl.asked \/ ctl.tell # {} \/ snd.timer # None

\* The guard: the rounds started are at most queue depth + 2 intervals ahead
\* of real time, but for the part of a millisecond that the timer cannot
\* wait (iso_send.rs:13, sdu_queue.rs:17).
NotTooFarAhead ==
    snd.t0 # None => (snd.rounds - Lead) * Frame <= 2 * (ms - snd.t0) + 1

\* No round allocates (sdu_queue.rs:20): whatever the encode thread, the
\* sender and a full queue hold, a spare set is left when one is asked for.
PoolHolds == jitter.spares > 0

\* The SDUs queued never exceed the ISO buffers of the controller, which all
\* CIS share (iso_send.rs:39-43), if it has one for each CIS at all.
QueuedUpTo[c \in 0..NumCis] == IF c = 0 THEN 0 ELSE QueuedUpTo[c - 1] + ctl.queued[c]

BuffersFit == IsoPackets >= NumCis => QueuedUpTo[NumCis] <= IsoPackets

\* Each CIS hears the sets of audio in the order they were encoded, none
\* twice: the path of one CIS implements the lossy FIFO of AudioFifo (stated
\* for the first and the last CIS of the plan).
OnItsWay(c) ==
    {jitter.sets[i] : i \in DOMAIN jitter.sets}
    \cup ({encoding} \ {0})
    \cup (IF snd.open /\ ~snd.served[c] THEN {snd.current} \ {0, None} ELSE {})

Left == INSTANCE AudioFifo WITH captured <- encoded, pending <- OnItsWay(1), last <- heard[1]
Right == INSTANCE AudioFifo WITH captured <- encoded, pending <- OnItsWay(NumCis), last <- heard[NumCis]

HeardInOrder == Left!Spec /\ Right!Spec

\* The sender of SDUs is safe: the earbuds stay in step, rounds go on and never
\* too far ahead, and neither the pool nor the controller's buffers run out.
RoundsSafe == IsoTypeOK /\ InStep /\ RoundsGoOn /\ NotTooFarAhead /\ PoolHolds /\ BuffersFit
=============================================================================
