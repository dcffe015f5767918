----------------------------- MODULE VolumeSync -----------------------------
(***************************************************************************)
(* The headphones' volume and the volume of a Windows output device kept   *)
(* as one (core/src/volume_sync.rs), through the AVRCP half of the BTstack *)
(* thread (bt-host/src/app.rs: the volume request queue, the notifications *)
(* and the confirmations) and the headphones themselves.                   *)
(*                                                                         *)
(* Both ends take volumes in steps of their own, what one says of itself   *)
(* may be the echo of what it was just asked, and each is changed by its   *)
(* user at any time.  Volumes are small numbers; OutTakes and HeadTakes    *)
(* say what an output device and the headphones make of a volume asked of  *)
(* them.                                                                   *)
(***************************************************************************)
EXTENDS Naturals, Sequences, FiniteSets

CONSTANTS
    Output,     \* output devices
    Level,      \* volumes
    OutTakes,   \* [Level -> Level]
    HeadTakes,  \* [Level -> Level]
    Remember,   \* the headphones' volume is remembered (restore_volume >= 0)
    MaxVolume,  \* bound: changes by the user, of either end or of the default
    MaxAvrcp,   \* bound: AVRCP connections
    Nil

\* Each end takes a volume of its own scale for one it already has.
ASSUME VolumeScales ==
    /\ OutTakes \in [Level -> Level] /\ \E v \in Level : OutTakes[v] = v
    /\ HeadTakes \in [Level -> Level] /\ \E v \in Level : HeadTakes[v] = v
    /\ Nil \notin Level \cup Output

VARIABLES
    outVol,     \* the volume of each output device
    ownVol,     \* history: the volume each had while not synced
    default,    \* the default output device
    syncer,     \* VolumeSyncer
    volume,     \* Controls: volume, volume_request, restore_volume
    bt,         \* BTstack thread: connections, request in flight, where it is
    head,       \* the headphones
    wire,       \* commands and events on their way
    newest,     \* history: the newest request not sent yet
    ignored,    \* history: the headphones left a command unanswered
    turns,      \* changes so far
    links       \* AVRCP connections so far

volumeVars == <<outVol, ownVol, default, syncer, volume, bt, head, wire, newest,
                ignored, turns, links>>

Detached == [dev |-> Nil, orig |-> Nil, windows |-> Nil, phones |-> Nil, hold |-> FALSE]

VolumeInit ==
    /\ outVol = [d \in Output |-> CHOOSE v \in Level : OutTakes[v] = v]
    /\ ownVol = outVol /\ default \in Output
    /\ syncer = Detached
    /\ volume = [now |-> Nil, request |-> Nil,
                 restore |-> IF Remember THEN CHOOSE v \in Level : HeadTakes[v] = v ELSE Nil]
    /\ bt = [a2dp |-> FALSE, cid |-> FALSE, link |-> "none", flight |-> FALSE,
             at |-> "idle", held |-> Nil, posted |-> FALSE]
    /\ head \in [level : {v \in Level : HeadTakes[v] = v}, told : {Nil}, notify : {FALSE}]
    /\ wire = [cmd |-> <<>>, evt |-> <<>>]
    /\ newest = Nil /\ ignored = FALSE /\ turns = 0 /\ links = 0

----------------------------------------------------------------------------
(* The session thread: VolumeSyncer::tick and ::stop.                      *)

\* detach: the device gets the volume it had before it was synced.
Restored == IF syncer.orig = Nil THEN outVol ELSE [outVol EXCEPT ![syncer.dev] = syncer.orig]

\* mutant: the level asked for is remembered, not the one the device took.
SetWindowsAsked(out, s, v) ==
    /\ outVol' = [out EXCEPT ![s.dev] = OutTakes[v]]
    /\ syncer' = [s EXCEPT !.orig = IF @ = Nil THEN out[s.dev] ELSE @,
                           !.windows = v, !.phones = v]

\* set_windows of the attached device: its first change saves what it had;
\* what is remembered is what the device took.
SetWindows(out, s, v) ==
    /\ outVol' = [out EXCEPT ![s.dev] = OutTakes[v]]
    /\ syncer' = [s EXCEPT !.orig = IF @ = Nil THEN out[s.dev] ELSE @,
                           !.windows = OutTakes[v], !.phones = v]

\* The headphones' volume is not known (any more).
TickUnknown ==
    /\ volume.now = Nil /\ syncer.windows # Nil
    /\ syncer' = [syncer EXCEPT !.windows = Nil, !.phones = Nil]
    /\ UNCHANGED <<outVol, volume, bt, newest>>

\* attach, of another device than before: the old one gets its volume back.
\* The new one takes the headphones' volume, unless it cannot be opened.
TickAttach ==
    /\ volume.now # Nil /\ syncer.dev # default
    /\ \/ SetWindows(Restored, [Detached EXCEPT !.dev = default], volume.now)
       \/ syncer.dev # Nil /\ outVol' = Restored /\ syncer' = Detached
    /\ UNCHANGED <<volume, bt, newest>>

\* The headphones' volume became known: Windows takes it over.
TickFirst ==
    /\ volume.now # Nil /\ syncer.dev = default /\ syncer.windows = Nil
    /\ SetWindows(outVol, syncer, volume.now)
    /\ UNCHANGED <<volume, bt, newest>>

\* BtHost::request_volume.
Request(v) ==
    /\ volume' = [volume EXCEPT !.request = v] /\ newest' = v
    /\ bt' = [bt EXCEPT !.posted = TRUE]

\* The Windows volume was changed: the headphones follow.
TickWindows ==
    /\ volume.now # Nil /\ syncer.dev = default /\ syncer.windows # Nil
    /\ outVol[default] # syncer.windows
    /\ Request(outVol[default])
    /\ syncer' = [syncer EXCEPT !.windows = outVol[default], !.phones = outVol[default],
                                !.hold = TRUE]
    /\ UNCHANGED outVol

\* The headphones' volume changed, and they are not settling: Windows follows.
TickHeadphones ==
    /\ volume.now # Nil /\ syncer.dev = default /\ syncer.windows # Nil
    /\ outVol[default] = syncer.windows /\ ~syncer.hold
    /\ volume.now # syncer.phones
    /\ SetWindows(outVol, syncer, volume.now)
    /\ UNCHANGED <<volume, bt, newest>>

\* tick(false), stop, drop.
Stop ==
    /\ syncer.dev # Nil
    /\ outVol' = Restored /\ syncer' = Detached
    /\ UNCHANGED <<volume, bt, newest>>

\* HOLD has passed.
HoldEnds ==
    /\ syncer.hold /\ syncer' = [syncer EXCEPT !.hold = FALSE]
    /\ UNCHANGED <<outVol, volume, bt, newest>>

Tick == TickUnknown \/ TickAttach \/ TickFirst \/ TickWindows \/ TickHeadphones

Session ==
    /\ Tick \/ HoldEnds
    /\ UNCHANGED <<ownVol, default, head, wire, ignored, turns, links>>

----------------------------------------------------------------------------
(* The users: the Windows slider, the app's slider, the headphones'        *)
(* buttons, another default device, an end of the sync.                    *)

SlidesWindows ==
    \E d \in Output, v \in Level :
       /\ OutTakes[v] = v /\ v # outVol[d]
       /\ outVol' = [outVol EXCEPT ![d] = v]
       /\ ownVol' = IF syncer.dev = d /\ syncer.orig # Nil THEN ownVol
                    ELSE [ownVol EXCEPT ![d] = v]
       /\ UNCHANGED <<default, syncer, volume, bt, head, newest>>

SlidesApp ==
    /\ \E v \in Level : Request(v)
    /\ UNCHANGED <<outVol, ownVol, default, syncer, head>>

PressesButton ==
    /\ \E v \in Level : HeadTakes[v] = v /\ v # head.level /\ head' = [head EXCEPT !.level = v]
    /\ UNCHANGED <<outVol, ownVol, default, syncer, volume, bt, newest>>

ChangesDefault ==
    /\ default' \in Output \ {default}
    /\ UNCHANGED <<outVol, ownVol, syncer, volume, bt, head, newest>>

SwitchesOff == Stop /\ UNCHANGED <<ownVol, default, head>>

User ==
    /\ turns < MaxVolume /\ turns' = turns + 1
    /\ SlidesWindows \/ SlidesApp \/ PressesButton \/ ChangesDefault \/ SwitchesOff
    /\ UNCHANGED <<wire, ignored, links>>

----------------------------------------------------------------------------
(* The BTstack thread.  send_pending_volume takes the request, asks BTstack *)
(* and puts it back when AVRCP is busy: other threads store requests in    *)
(* between.                                                                *)

RunPosted ==
    /\ bt.at = "idle" /\ bt.posted
    /\ bt' = [bt EXCEPT !.posted = FALSE, !.at = "send"]
    /\ UNCHANGED <<volume, head, wire, newest, ignored>>

\* Not connected, one in flight that is not overdue, or nothing asked for.
NothingToSend ==
    /\ bt.at = "send" /\ (~bt.cid \/ bt.flight \/ volume.request = Nil)
    /\ bt' = [bt EXCEPT !.at = "idle"]
    /\ UNCHANGED <<volume, head, wire, newest, ignored>>

\* The volume counts as the headphones' as soon as it is sent.
Send ==
    /\ bt.at = "send" /\ bt.cid /\ volume.request # Nil /\ Len(wire.cmd) < 2
    /\ volume' = [volume EXCEPT !.request = Nil, !.now = volume.request]
    /\ wire' = [wire EXCEPT !.cmd = Append(@, volume.request)]
    /\ newest' = IF newest = volume.request THEN Nil ELSE newest
    /\ bt' = [bt EXCEPT !.at = "idle", !.flight = TRUE]
    /\ UNCHANGED <<head, ignored>>

SendBusy ==
    /\ bt.at = "send" /\ bt.cid /\ volume.request # Nil
    /\ volume' = [volume EXCEPT !.request = Nil]
    /\ bt' = [bt EXCEPT !.at = "busy", !.held = volume.request]
    /\ UNCHANGED <<head, wire, newest, ignored>>

\* mutant: the request is put back over a newer one.
KeepQueuedOver ==
    /\ bt.at = "busy"
    /\ volume' = [volume EXCEPT !.request = bt.held]
    /\ bt' = [bt EXCEPT !.at = "idle", !.held = Nil]
    /\ UNCHANGED <<head, wire, newest, ignored>>

\* compare_exchange: kept unless a newer one came.
KeepQueued ==
    /\ bt.at = "busy"
    /\ volume' = [volume EXCEPT !.request = IF @ = Nil THEN bt.held ELSE @]
    /\ bt' = [bt EXCEPT !.at = "idle", !.held = Nil]
    /\ UNCHANGED <<head, wire, newest, ignored>>

\* NOTIFICATION_VOLUME_CHANGED (registered again each time) and
\* SET_ABSOLUTE_VOLUME_RESPONSE.
OnVolume ==
    /\ bt.at = "idle" /\ wire.evt # <<>>
    /\ LET e == Head(wire.evt)
       IN  /\ volume' = [volume EXCEPT !.now = e.level]
           /\ bt' = [bt EXCEPT !.at = "send", !.flight = IF e.resp THEN FALSE ELSE @]
           /\ head' = [head EXCEPT !.notify = IF e.resp THEN @ ELSE TRUE]
    /\ wire' = [wire EXCEPT !.evt = Tail(@)]
    /\ UNCHANGED <<newest, ignored>>

\* The A2DP connection: AVRCP is asked for when the codecs are known, and
\* closed with the signaling connection.  BTstack refuses a second one.
A2dpUp ==
    /\ bt.at = "idle" /\ ~bt.a2dp /\ links < MaxAvrcp
    /\ bt' = [bt EXCEPT !.a2dp = TRUE, !.link = IF @ = "none" THEN "opening" ELSE @]
    /\ UNCHANGED <<volume, head, wire, newest, ignored>>

A2dpDown ==
    /\ bt.at = "idle" /\ bt.a2dp
    /\ bt' = [bt EXCEPT !.a2dp = FALSE, !.cid = FALSE, !.link = IF bt.cid THEN "closing" ELSE @]
    /\ UNCHANGED <<volume, head, wire, newest, ignored>>

AvrcpFails ==
    /\ bt.at = "idle" /\ bt.link = "opening"
    /\ bt' = [bt EXCEPT !.link = "none"]
    /\ UNCHANGED <<volume, head, wire, newest, ignored>>

\* AVRCP came up after A2DP went: closed again.
AvrcpOrphan ==
    /\ bt.at = "idle" /\ bt.link = "opening" /\ ~bt.a2dp
    /\ bt' = [bt EXCEPT !.link = "closing"]
    /\ UNCHANGED <<volume, head, wire, newest, ignored>>

\* The remembered volume is asked for first.
AvrcpUp ==
    /\ bt.at = "idle" /\ bt.link = "opening" /\ bt.a2dp
    /\ bt' = [bt EXCEPT !.cid = TRUE, !.link = "open", !.flight = FALSE,
                        !.at = IF volume.restore # Nil THEN "send" ELSE "idle"]
    /\ IF volume.restore # Nil
       THEN volume' = [volume EXCEPT !.request = volume.restore] /\ newest' = volume.restore
       ELSE UNCHANGED <<volume, newest>>
    /\ head' = [head EXCEPT !.told = Nil, !.notify = TRUE]
    /\ UNCHANGED <<wire, ignored>>

\* CONNECTION_RELEASED: the next connection restores the last volume known.
AvrcpDown ==
    /\ bt.at = "idle" /\ bt.link \in {"open", "closing"}
    /\ bt' = [bt EXCEPT !.cid = FALSE, !.link = "none"]
    /\ volume' = [now |-> Nil, request |-> Nil,
                  restore |-> IF volume.restore # Nil /\ volume.now # Nil
                              THEN volume.now ELSE volume.restore]
    /\ newest' = Nil
    /\ wire' = [cmd |-> <<>>, evt |-> <<>>]
    /\ UNCHANGED <<head, ignored>>

\* The headphones answer a command, or do not, and report a change once per
\* registration.
HeadAnswers ==
    /\ wire.cmd # <<>> /\ Len(wire.evt) < 3
    /\ LET v == HeadTakes[Head(wire.cmd)]
       IN  /\ head' = [head EXCEPT !.level = v, !.told = v]
           /\ wire' = [cmd |-> Tail(wire.cmd),
                       evt |-> Append(wire.evt, [level |-> v, resp |-> TRUE])]
    /\ UNCHANGED <<volume, bt, newest, ignored>>

HeadIgnores ==
    /\ ~ignored /\ ignored' = TRUE
    /\ wire.cmd # <<>> /\ wire' = [wire EXCEPT !.cmd = Tail(@)]
    /\ UNCHANGED <<volume, bt, head, newest>>

HeadReports ==
    /\ bt.link = "open" /\ head.notify /\ head.told # head.level /\ Len(wire.evt) < 3
    /\ wire' = [wire EXCEPT !.evt = Append(@, [level |-> head.level, resp |-> FALSE])]
    /\ head' = [head EXCEPT !.told = head.level, !.notify = FALSE]
    /\ UNCHANGED <<volume, bt, newest, ignored>>

Sending == RunPosted \/ NothingToSend \/ Send \/ SendBusy \/ KeepQueued \/ OnVolume

Avrcp == A2dpUp \/ A2dpDown \/ AvrcpFails \/ AvrcpOrphan \/ AvrcpUp \/ AvrcpDown

Phones == HeadAnswers \/ HeadIgnores \/ HeadReports

Stack ==
    /\ Sending \/ Avrcp \/ Phones
    /\ links' = IF bt.link = "none" /\ bt'.link = "opening" THEN links + 1 ELSE links
    /\ UNCHANGED <<outVol, ownVol, default, syncer, turns>>

----------------------------------------------------------------------------
VolumeNext == Session \/ User \/ Stack

VolumeSpec == VolumeInit /\ [][VolumeNext]_volumeVars

----------------------------------------------------------------------------
(* Properties.                                                             *)

LevelOrNil == Level \cup {Nil}

VolumeTypeOK ==
    /\ outVol \in [Output -> Level] /\ ownVol \in [Output -> Level]
    /\ default \in Output
    /\ syncer \in [dev : Output \cup {Nil}, orig : LevelOrNil, windows : LevelOrNil,
                   phones : LevelOrNil, hold : BOOLEAN]
    /\ (syncer.windows = Nil) = (syncer.phones = Nil)
    /\ volume \in [now : LevelOrNil, request : LevelOrNil, restore : LevelOrNil]
    /\ bt \in [a2dp : BOOLEAN, cid : BOOLEAN, link : {"none", "opening", "open", "closing"},
               flight : BOOLEAN, at : {"idle", "send", "busy"}, held : LevelOrNil,
               posted : BOOLEAN]
    /\ bt.cid => bt.link = "open" /\ bt.a2dp
    /\ head \in [level : Level, told : LevelOrNil, notify : BOOLEAN]
    /\ newest \in LevelOrNil

\* An output device that is not synced has the volume its user gave it: what
\* the sync changed is given back when it stops, when the default device
\* changes, and when the session ends, however often the volume changed.
GivenBack ==
    \A d \in Output : syncer.dev # d \/ syncer.orig = Nil => outVol[d] = ownVol[d]

\* The newest volume asked for is never lost to an older one: while AVRCP is
\* busy it waits, also when it came between the taking of an older request
\* and its return to the queue.
NewestKept ==
    newest # Nil => newest \in {volume.request} \cup (IF bt.at = "busy" THEN {bt.held} ELSE {})

Agree ==
    /\ volume.now = head.level
    /\ outVol[default] = OutTakes[head.level] \/ head.level = HeadTakes[outVol[default]]

\* Both ends come to rest: when the user stops changing volumes no request
\* goes back and forth for ever, although each end takes the other's volume
\* in its own steps, and then (with headphones that answered) the two agree.
VolumeSettles ==
    <>[](/\ wire.cmd = <<>> /\ wire.evt = <<>>
         /\ bt.cid /\ volume.now # Nil /\ syncer.dev = default =>
               /\ outVol[default] = syncer.windows /\ volume.now = syncer.phones
               /\ ~ignored => Agree)

\* The volume sync is safe: it gives back what it changed and never lets an
\* older volume win over a newer one.
VolumeSafe == VolumeTypeOK /\ GivenBack /\ NewestKept
=============================================================================
