---------------------------- MODULE BesideProofs ----------------------------
(***************************************************************************)
(* What runs beside the stream is safe: the volumes of both ends           *)
(* (VolumeSync), for every set of output devices and every scale of        *)
(* volumes, and the window's copy of the core's state (StateSync), for     *)
(* every number of threads and parts of the state and every size of the    *)
(* channel and the pipe.                                                   *)
(***************************************************************************)
EXTENDS VolumeSync, StateSync, Integers, SequenceTheorems, WellFoundedInduction, TLAPS

-----------------------------------------------------------------------------
(* The volumes (VolumeSync)                                                *)

\* The commands and events on their way carry volumes.
WireType ==
    wire \in [cmd : Seq(Level), evt : Seq([level : Level, resp : BOOLEAN])]

\* A device that was changed has its old volume kept, and it is its user's.
OrigIsOwn ==
    /\ syncer.dev = Nil => syncer.orig = Nil
    /\ syncer.orig # Nil => syncer.orig = ownVol[syncer.dev]

\* The newest request is the one in the queue, else the one that a busy AVRCP
\* gave back and that is not put back yet.
NewestIs ==
    newest = IF volume.request # Nil THEN volume.request
             ELSE IF bt.at = "busy" THEN bt.held ELSE Nil

VolumeInv == VolumeTypeOK /\ WireType /\ GivenBack /\ OrigIsOwn /\ NewestIs

\* No device is synced yet, and every device has the volume of its user.
LEMMA VolumeInitial == VolumeInit => VolumeInv
<1> SUFFICES ASSUME VolumeInit PROVE VolumeInv
  OBVIOUS
<1>1. (CHOOSE v \in Level : OutTakes[v] = v) \in Level /\ (CHOOSE v \in Level : HeadTakes[v] = v) \in Level
  BY VolumeScales
<1>2. outVol \in [Output -> Level] /\ ownVol = outVol
  BY <1>1 DEF VolumeInit
<1>3. /\ syncer = Detached /\ syncer.dev = Nil /\ syncer.orig = Nil /\ syncer.windows = Nil /\ syncer.phones = Nil
      /\ syncer \in [dev : Output \cup {Nil}, orig : LevelOrNil, windows : LevelOrNil, phones : LevelOrNil, hold : BOOLEAN]
  BY DEF VolumeInit, Detached, LevelOrNil
<1>4. volume \in [now : LevelOrNil, request : LevelOrNil, restore : LevelOrNil] /\ volume.request = Nil
  BY <1>1 DEF VolumeInit, LevelOrNil
<1>5. /\ bt \in [a2dp : BOOLEAN, cid : BOOLEAN, link : {"none", "opening", "open", "closing"},
               flight : BOOLEAN, at : {"idle", "send", "busy"}, held : LevelOrNil, posted : BOOLEAN]
      /\ ~bt.cid /\ bt.at = "idle"
  BY DEF VolumeInit, LevelOrNil
<1>6. head \in [level : Level, told : LevelOrNil, notify : BOOLEAN] /\ newest = Nil /\ default \in Output
  BY DEF VolumeInit, LevelOrNil
<1>7. WireType
  BY DEF VolumeInit, WireType
<1> QED BY <1>2, <1>3, <1>4, <1>5, <1>6, <1>7 DEF VolumeInv, VolumeTypeOK, GivenBack, OrigIsOwn, NewestIs, LevelOrNil

\* Giving back: every device then has the volume of its user.
LEMMA RestoredIsOwn ==
    ASSUME VolumeInv PROVE Restored = ownVol
<1>1. outVol \in [Output -> Level] /\ ownVol \in [Output -> Level]
  BY DEF VolumeInv, VolumeTypeOK
<1>2. CASE syncer.orig = Nil
  BY <1>1, <1>2 DEF Restored, VolumeInv, GivenBack
<1>3. CASE syncer.orig # Nil
  <2>1. Restored = [outVol EXCEPT ![syncer.dev] = ownVol[syncer.dev]]
    BY <1>3 DEF Restored, VolumeInv, OrigIsOwn
  <2>2. \A d \in Output : Restored[d] = ownVol[d]
    BY <1>1, <2>1 DEF VolumeInv, GivenBack
  <2> QED BY <1>1, <2>1, <2>2
<1> QED BY <1>2, <1>3

\* Setting a volume of a device whose syncer knows its own volume.
LEMMA SetIsSafe ==
    ASSUME VolumeTypeOK,
           NEW out \in [Output -> Level], NEW s, NEW v \in Level,
           s \in [dev : Output, orig : LevelOrNil, windows : LevelOrNil, phones : LevelOrNil, hold : BOOLEAN],
           s.orig = Nil => out[s.dev] = ownVol[s.dev],
           s.orig # Nil => s.orig = ownVol[s.dev],
           \A d \in Output : d # s.dev => out[d] = ownVol[d],
           SetWindows(out, s, v), UNCHANGED ownVol
    PROVE  /\ outVol' \in [Output -> Level]
           /\ syncer' \in [dev : Output \cup {Nil}, orig : LevelOrNil, windows : LevelOrNil, phones : LevelOrNil, hold : BOOLEAN]
           /\ (syncer'.windows = Nil) = (syncer'.phones = Nil)
           /\ GivenBack' /\ OrigIsOwn'
<1>1. OutTakes[v] \in Level /\ OutTakes[v] # Nil /\ v # Nil /\ s.dev \in Output /\ s.dev # Nil
  BY VolumeScales
<1>2. outVol' = [out EXCEPT ![s.dev] = OutTakes[v]] /\ outVol' \in [Output -> Level]
  BY <1>1 DEF SetWindows
<1>3. syncer' = [s EXCEPT !.orig = IF s.orig = Nil THEN out[s.dev] ELSE s.orig, !.windows = OutTakes[v], !.phones = v]
  BY DEF SetWindows
<1>4. out[s.dev] \in Level /\ ownVol[s.dev] \in Level /\ ownVol[s.dev] # Nil
  BY <1>1, VolumeScales DEF VolumeTypeOK
<1>5. /\ syncer'.dev = s.dev /\ syncer'.windows = OutTakes[v] /\ syncer'.phones = v
      /\ syncer'.orig = ownVol[s.dev]
      /\ syncer' \in [dev : Output, orig : LevelOrNil, windows : LevelOrNil, phones : LevelOrNil, hold : BOOLEAN]
  BY <1>1, <1>3, <1>4 DEF LevelOrNil
<1>6. (syncer'.windows = Nil) = (syncer'.phones = Nil)
  BY <1>1, <1>5
<1>7. GivenBack'
  BY <1>2, <1>4, <1>5 DEF GivenBack
<1>8. OrigIsOwn'
  BY <1>1, <1>5 DEF OrigIsOwn
<1> QED BY <1>2, <1>5, <1>6, <1>7, <1>8

\* The syncer takes a device up, follows it, moves to another and gives back.
LEMMA SyncerStep == ASSUME VolumeInv, Session PROVE VolumeInv'
<1> DEFINE SyncType == [dev : Output \cup {Nil}, orig : LevelOrNil, windows : LevelOrNil, phones : LevelOrNil, hold : BOOLEAN]
<1>1. UNCHANGED <<ownVol, default, head, wire>> /\ WireType'
  BY DEF Session, VolumeInv, WireType
<1>2. VolumeTypeOK /\ GivenBack /\ OrigIsOwn /\ NewestIs
  BY DEF VolumeInv
\* What is left to show of a step that changes the syncer alone
<1>3. ASSUME UNCHANGED <<volume, bt, newest>>, outVol' \in [Output -> Level], syncer' \in SyncType,
             (syncer'.windows = Nil) = (syncer'.phones = Nil), GivenBack', OrigIsOwn'
      PROVE  VolumeInv'
  BY <1>1, <1>2, <1>3 DEF VolumeInv, VolumeTypeOK, NewestIs
<1>4. CASE TickUnknown
  <2>1. syncer' = [syncer EXCEPT !.windows = Nil, !.phones = Nil] /\ UNCHANGED <<outVol, volume, bt, newest>>
    BY <1>4 DEF TickUnknown
  <2>2. syncer' \in SyncType /\ syncer'.windows = Nil /\ syncer'.phones = Nil /\ syncer'.dev = syncer.dev /\ syncer'.orig = syncer.orig
    BY <1>2, <2>1 DEF VolumeTypeOK, LevelOrNil
  <2>3. GivenBack' /\ OrigIsOwn'
    BY <1>1, <1>2, <2>1, <2>2 DEF GivenBack, OrigIsOwn
  <2>4. outVol' \in [Output -> Level]
    BY <1>2, <2>1 DEF VolumeTypeOK
  <2> QED BY <1>3, <2>1, <2>2, <2>3, <2>4
<1>5. ASSUME syncer' = Detached, outVol' = Restored, UNCHANGED <<volume, bt, newest>> PROVE VolumeInv'
  <2>1. syncer'.dev = Nil /\ syncer'.orig = Nil /\ syncer'.windows = Nil /\ syncer'.phones = Nil /\ syncer' \in SyncType
    BY <1>5 DEF Detached, LevelOrNil
  <2>2. outVol' = ownVol /\ outVol' \in [Output -> Level]
    BY <1>2, <1>5, RestoredIsOwn DEF VolumeTypeOK
  <2>3. GivenBack' /\ OrigIsOwn'
    BY <1>1, <2>1, <2>2 DEF GivenBack, OrigIsOwn
  <2> QED BY <1>3, <1>5, <2>1, <2>2, <2>3
<1>6. CASE TickAttach
  <2>1. CASE SetWindows(Restored, [Detached EXCEPT !.dev = default], volume.now)
    <3> DEFINE s == [Detached EXCEPT !.dev = default]
    <3>1. s.dev = default /\ s.orig = Nil
          /\ s \in [dev : Output, orig : LevelOrNil, windows : LevelOrNil, phones : LevelOrNil, hold : BOOLEAN]
      BY <1>2 DEF Detached, LevelOrNil, VolumeTypeOK
    <3>2. volume.now \in Level /\ Restored = ownVol /\ ownVol \in [Output -> Level]
      BY <1>2, <1>6, RestoredIsOwn DEF TickAttach, VolumeTypeOK, LevelOrNil
    <3>3. UNCHANGED <<volume, bt, newest>>
      BY <1>6 DEF TickAttach
    <3>4. /\ outVol' \in [Output -> Level] /\ syncer' \in SyncType
          /\ (syncer'.windows = Nil) = (syncer'.phones = Nil) /\ GivenBack' /\ OrigIsOwn'
      <4> HIDE DEF s
      <4>1. SetWindows(Restored, s, volume.now)
        BY <2>1 DEF s
      <4> QED BY <1>1, <1>2, <3>1, <3>2, <4>1, SetIsSafe
    <3> QED BY <1>3, <3>3, <3>4
  <2>2. CASE outVol' = Restored /\ syncer' = Detached
    BY <1>5, <1>6, <2>2 DEF TickAttach
  <2> QED BY <1>6, <2>1, <2>2 DEF TickAttach
<1>7. CASE TickFirst \/ TickHeadphones
  <2>1. SetWindows(outVol, syncer, volume.now) /\ volume.now \in Level /\ syncer.dev = default
        /\ UNCHANGED <<volume, bt, newest>>
    BY <1>2, <1>7 DEF TickFirst, TickHeadphones, VolumeTypeOK, LevelOrNil
  <2>2. /\ outVol \in [Output -> Level] /\ syncer.dev \in Output
        /\ syncer \in [dev : Output, orig : LevelOrNil, windows : LevelOrNil, phones : LevelOrNil, hold : BOOLEAN]
    BY <1>2, <2>1 DEF VolumeTypeOK
  <2>3. /\ syncer.orig = Nil => outVol[syncer.dev] = ownVol[syncer.dev]
        /\ syncer.orig # Nil => syncer.orig = ownVol[syncer.dev]
        /\ \A d \in Output : d # syncer.dev => outVol[d] = ownVol[d]
    BY <1>2, <2>2 DEF GivenBack, OrigIsOwn
  <2>4. /\ outVol' \in [Output -> Level] /\ syncer' \in SyncType
        /\ (syncer'.windows = Nil) = (syncer'.phones = Nil) /\ GivenBack' /\ OrigIsOwn'
    BY <1>1, <1>2, <2>1, <2>2, <2>3, SetIsSafe
  <2> QED BY <1>3, <2>1, <2>4
<1>8. CASE TickWindows
  <2> DEFINE v == outVol[default]
  <2>1. Request(v) /\ UNCHANGED outVol /\ v \in Level /\ v # Nil
        /\ syncer' = [syncer EXCEPT !.windows = v, !.phones = v, !.hold = TRUE]
    BY <1>2, <1>8, VolumeScales DEF TickWindows, VolumeTypeOK
  <2> HIDE DEF v
  <2>2. syncer' \in SyncType /\ syncer'.windows = v /\ syncer'.phones = v /\ syncer'.dev = syncer.dev /\ syncer'.orig = syncer.orig
    BY <1>2, <2>1 DEF VolumeTypeOK, LevelOrNil
  <2>3. GivenBack' /\ OrigIsOwn'
    BY <1>1, <1>2, <2>1, <2>2 DEF GivenBack, OrigIsOwn
  <2>4. volume' \in [now : LevelOrNil, request : LevelOrNil, restore : LevelOrNil] /\ volume'.request = v /\ newest' = v
    BY <1>2, <2>1 DEF Request, VolumeTypeOK, LevelOrNil
  <2>5. /\ bt' \in [a2dp : BOOLEAN, cid : BOOLEAN, link : {"none", "opening", "open", "closing"},
                    flight : BOOLEAN, at : {"idle", "send", "busy"}, held : LevelOrNil, posted : BOOLEAN]
        /\ bt'.cid => bt'.link = "open" /\ bt'.a2dp
    BY <1>2, <2>1 DEF Request, VolumeTypeOK
  <2>6. VolumeTypeOK'
    BY <1>1, <1>2, <2>1, <2>2, <2>4, <2>5 DEF VolumeTypeOK, LevelOrNil
  <2>7. NewestIs'
    BY <2>1, <2>4 DEF NewestIs
  <2> QED BY <1>1, <2>3, <2>6, <2>7 DEF VolumeInv
<1>9. CASE HoldEnds
  <2>1. syncer' = [syncer EXCEPT !.hold = FALSE] /\ UNCHANGED <<outVol, volume, bt, newest>>
    BY <1>9 DEF HoldEnds
  <2>2. /\ syncer' \in SyncType /\ syncer'.windows = syncer.windows /\ syncer'.phones = syncer.phones
        /\ syncer'.dev = syncer.dev /\ syncer'.orig = syncer.orig
    BY <1>2, <2>1 DEF VolumeTypeOK
  <2>3. GivenBack' /\ OrigIsOwn'
    BY <1>1, <1>2, <2>1, <2>2 DEF GivenBack, OrigIsOwn
  <2>4. outVol' \in [Output -> Level] /\ (syncer'.windows = Nil) = (syncer'.phones = Nil)
    BY <1>2, <2>1, <2>2 DEF VolumeTypeOK
  <2> QED BY <1>3, <2>1, <2>2, <2>3, <2>4
<1> QED BY <1>4, <1>6, <1>7, <1>8, <1>9 DEF Session, Tick

BtType == [a2dp : BOOLEAN, cid : BOOLEAN, link : {"none", "opening", "open", "closing"},
           flight : BOOLEAN, at : {"idle", "send", "busy"}, held : LevelOrNil, posted : BOOLEAN]

VolType == [now : LevelOrNil, request : LevelOrNil, restore : LevelOrNil]

\* The first of a sequence and what is behind it.
LEMMA HeadAndTail ==
    ASSUME NEW S, NEW q \in Seq(S), q # <<>> PROVE Head(q) \in S /\ Tail(q) \in Seq(S)
OBVIOUS

\* The user changes a volume, the default device or the volume of the headphones.
LEMMA UserStep == ASSUME VolumeInv, User PROVE VolumeInv'
<1>1. UNCHANGED wire /\ WireType'
  BY DEF User, VolumeInv, WireType
<1>2. VolumeTypeOK /\ GivenBack /\ OrigIsOwn /\ NewestIs
  BY DEF VolumeInv
<1>3. CASE SlidesWindows
  <2>1. PICK d \in Output, v \in Level :
           /\ outVol' = [outVol EXCEPT ![d] = v]
           /\ ownVol' = IF syncer.dev = d /\ syncer.orig # Nil THEN ownVol ELSE [ownVol EXCEPT ![d] = v]
    BY <1>3 DEF SlidesWindows
  <2>2. UNCHANGED <<default, syncer, volume, bt, head, newest>>
    BY <1>3 DEF SlidesWindows
  <2>3. outVol' \in [Output -> Level] /\ ownVol' \in [Output -> Level]
    BY <1>2, <2>1 DEF VolumeTypeOK
  <2>4. VolumeTypeOK'
    BY <1>2, <2>2, <2>3 DEF VolumeTypeOK
  <2>5. GivenBack'
    BY <1>2, <2>1, <2>2 DEF GivenBack, VolumeTypeOK
  <2>6. OrigIsOwn'
    BY <1>2, <2>1, <2>2 DEF OrigIsOwn, VolumeTypeOK
  <2> QED BY <1>1, <1>2, <2>2, <2>4, <2>5, <2>6 DEF VolumeInv, NewestIs
<1>4. CASE SlidesApp
  <2>1. PICK v \in Level : Request(v)
    BY <1>4 DEF SlidesApp
  <2>2. UNCHANGED <<outVol, ownVol, default, syncer, head>> /\ v # Nil
    BY <1>4, VolumeScales DEF SlidesApp
  <2>3. volume' \in VolType /\ volume'.request = v /\ newest' = v
    BY <1>2, <2>1 DEF Request, VolumeTypeOK, LevelOrNil, VolType
  <2>4. bt' \in BtType /\ (bt'.cid => bt'.link = "open" /\ bt'.a2dp)
    BY <1>2, <2>1 DEF Request, VolumeTypeOK, BtType
  <2>5. VolumeTypeOK'
    BY <1>2, <2>2, <2>3, <2>4 DEF VolumeTypeOK, LevelOrNil, VolType, BtType
  <2>6. NewestIs'
    BY <2>2, <2>3 DEF NewestIs
  <2> QED BY <1>1, <1>2, <2>2, <2>5, <2>6 DEF VolumeInv, GivenBack, OrigIsOwn
<1>5. CASE PressesButton
  <2>1. UNCHANGED <<outVol, ownVol, default, syncer, volume, bt, newest>>
    BY <1>5 DEF PressesButton
  <2>2. head' \in [level : Level, told : LevelOrNil, notify : BOOLEAN]
    BY <1>2, <1>5 DEF PressesButton, VolumeTypeOK
  <2> QED BY <1>1, <1>2, <2>1, <2>2 DEF VolumeInv, VolumeTypeOK, GivenBack, OrigIsOwn, NewestIs
<1>6. CASE ChangesDefault
  BY <1>1, <1>2, <1>6 DEF ChangesDefault, VolumeInv, VolumeTypeOK, GivenBack, OrigIsOwn, NewestIs
<1>7. CASE SwitchesOff
  <2>1. outVol' = Restored /\ syncer' = Detached /\ UNCHANGED <<volume, bt, newest, ownVol, default, head>>
    BY <1>7 DEF SwitchesOff, Stop
  <2>2. /\ syncer'.dev = Nil /\ syncer'.orig = Nil /\ syncer'.windows = Nil /\ syncer'.phones = Nil
        /\ syncer' \in [dev : Output \cup {Nil}, orig : LevelOrNil, windows : LevelOrNil, phones : LevelOrNil, hold : BOOLEAN]
    BY <2>1 DEF Detached, LevelOrNil
  <2>3. outVol' = ownVol /\ outVol' \in [Output -> Level]
    BY <1>2, <2>1, RestoredIsOwn DEF VolumeTypeOK
  <2>4. GivenBack' /\ OrigIsOwn'
    BY <2>1, <2>2, <2>3 DEF GivenBack, OrigIsOwn
  <2>5. VolumeTypeOK'
    BY <1>2, <2>1, <2>2, <2>3 DEF VolumeTypeOK
  <2> QED BY <1>1, <1>2, <2>1, <2>4, <2>5 DEF VolumeInv, NewestIs
<1> QED BY <1>3, <1>4, <1>5, <1>6, <1>7 DEF User

\* The BTstack thread sends the newest request, and keeps it when AVRCP is busy.
LEMMA StackStep == ASSUME VolumeInv, Stack PROVE VolumeInv'
<1>1. UNCHANGED <<outVol, ownVol, default, syncer>> /\ GivenBack' /\ OrigIsOwn'
  BY DEF Stack, VolumeInv, GivenBack, OrigIsOwn
<1>2. /\ VolumeTypeOK /\ NewestIs /\ bt \in BtType /\ volume \in VolType
      /\ head \in [level : Level, told : LevelOrNil, notify : BOOLEAN]
      /\ wire.cmd \in Seq(Level) /\ wire.evt \in Seq([level : Level, resp : BOOLEAN])
      /\ wire \in [cmd : Seq(Level), evt : Seq([level : Level, resp : BOOLEAN])]
      /\ bt.cid => bt.link = "open" /\ bt.a2dp
  BY DEF VolumeInv, VolumeTypeOK, BtType, VolType, WireType
<1>3. SUFFICES /\ bt' \in BtType /\ volume' \in VolType /\ WireType'
               /\ head' \in [level : Level, told : LevelOrNil, notify : BOOLEAN]
               /\ bt'.cid => bt'.link = "open" /\ bt'.a2dp
               /\ NewestIs'
  <2>1. newest' \in LevelOrNil
    BY <1>3 DEF NewestIs, BtType, VolType, LevelOrNil
  <2>2. VolumeTypeOK'
    BY <1>1, <1>2, <1>3, <2>1 DEF VolumeTypeOK, BtType, VolType, LevelOrNil
  <2> QED BY <1>1, <1>3, <2>2 DEF VolumeInv
<1>4. CASE RunPosted \/ NothingToSend
  <2>1. UNCHANGED <<volume, head, wire, newest>> /\ bt.at # "busy"
    BY <1>4 DEF RunPosted, NothingToSend
  <2>2. /\ bt' \in BtType /\ bt'.at # "busy" /\ bt'.cid = bt.cid /\ bt'.link = bt.link /\ bt'.a2dp = bt.a2dp
    BY ZenonT(40), <1>2, <1>4 DEF RunPosted, NothingToSend, BtType
  <2> QED BY <1>2, <2>1, <2>2 DEF NewestIs, WireType
<1>5. CASE Send
  <2>1. /\ bt.at = "send" /\ volume.request \in Level /\ UNCHANGED head
        /\ newest' = (IF newest = volume.request THEN Nil ELSE newest) /\ newest = volume.request
    BY <1>2, <1>5 DEF Send, VolType, LevelOrNil, NewestIs
  <2>2. volume' \in VolType /\ volume'.request = Nil
    BY <1>2, <1>5, <2>1 DEF Send, VolType, LevelOrNil
  <2>3. /\ bt' \in BtType /\ bt'.at = "idle" /\ bt'.cid = bt.cid /\ bt'.link = bt.link /\ bt'.a2dp = bt.a2dp
    BY <1>2, <1>5 DEF Send, BtType
  <2>4. WireType'
    <3>1. Append(wire.cmd, volume.request) \in Seq(Level)
      BY <1>2, <2>1
    <3>2. wire' = [wire EXCEPT !.cmd = Append(wire.cmd, volume.request)]
      BY <1>5 DEF Send
    <3> QED BY <1>2, <3>1, <3>2 DEF WireType
  <2> QED BY <1>2, <2>1, <2>2, <2>3, <2>4 DEF NewestIs
<1>6. CASE SendBusy
  <2>1. UNCHANGED <<head, wire, newest>> /\ volume.request # Nil /\ newest = volume.request
    BY <1>2, <1>6 DEF SendBusy, NewestIs
  <2>2. volume' \in VolType /\ volume'.request = Nil
    BY <1>2, <1>6 DEF SendBusy, VolType, LevelOrNil
  <2>3. /\ bt' \in BtType /\ bt'.at = "busy" /\ bt'.held = volume.request
        /\ bt'.cid = bt.cid /\ bt'.link = bt.link /\ bt'.a2dp = bt.a2dp
    BY <1>2, <1>6 DEF SendBusy, BtType, VolType
  <2> QED BY <1>2, <2>1, <2>2, <2>3 DEF NewestIs, WireType
<1>7. CASE KeepQueued
  <2>1. UNCHANGED <<head, wire, newest>> /\ bt.at = "busy" /\ bt.held \in LevelOrNil
    BY <1>2, <1>7 DEF KeepQueued, BtType
  <2>2. volume' \in VolType /\ volume'.request = IF volume.request = Nil THEN bt.held ELSE volume.request
    BY <1>2, <1>7, <2>1 DEF KeepQueued, VolType
  <2>3. /\ bt' \in BtType /\ bt'.at = "idle" /\ bt'.cid = bt.cid /\ bt'.link = bt.link /\ bt'.a2dp = bt.a2dp
    BY <1>2, <1>7 DEF KeepQueued, BtType, LevelOrNil
  <2> QED BY <1>2, <2>1, <2>2, <2>3 DEF NewestIs, WireType
<1>8. CASE OnVolume
  <2> DEFINE e == Head(wire.evt)
  <2>1. /\ e \in [level : Level, resp : BOOLEAN] /\ e.level \in Level /\ bt.at = "idle" /\ UNCHANGED newest
        /\ Tail(wire.evt) \in Seq([level : Level, resp : BOOLEAN])
    <3>1. wire.evt # <<>> /\ bt.at = "idle" /\ UNCHANGED newest
      BY <1>8 DEF OnVolume
    <3>2. e \in [level : Level, resp : BOOLEAN]
      BY <1>2, <3>1, HeadAndTail
    <3> QED BY <1>2, <3>1, <3>2
  <2>2. /\ volume' = [volume EXCEPT !.now = e.level]
        /\ bt' = [bt EXCEPT !.at = "send", !.flight = IF e.resp THEN FALSE ELSE bt.flight]
        /\ head' = [head EXCEPT !.notify = IF e.resp THEN head.notify ELSE TRUE]
        /\ wire' = [wire EXCEPT !.evt = Tail(wire.evt)]
    BY <1>8 DEF OnVolume
  <2> HIDE DEF e
  <2>3. volume' \in VolType /\ volume'.request = volume.request
    BY <1>2, <2>1, <2>2 DEF VolType, LevelOrNil
  <2>4. /\ bt' \in BtType /\ bt'.at = "send" /\ bt'.cid = bt.cid /\ bt'.link = bt.link /\ bt'.a2dp = bt.a2dp
    BY <1>2, <2>2 DEF BtType
  <2>5. head' \in [level : Level, told : LevelOrNil, notify : BOOLEAN]
    BY <1>2, <2>2
  <2>6. WireType'
    BY <1>2, <2>1, <2>2 DEF WireType
  <2> QED BY <1>2, <2>1, <2>3, <2>4, <2>5, <2>6 DEF NewestIs
<1>9. CASE A2dpUp \/ A2dpDown \/ AvrcpFails \/ AvrcpOrphan
  <2>1. UNCHANGED <<volume, head, wire, newest>> /\ bt.at = "idle"
    BY <1>9 DEF A2dpUp, A2dpDown, AvrcpFails, AvrcpOrphan
  <2>2. bt' \in BtType /\ bt'.at = "idle" /\ (bt'.cid => bt'.link = "open" /\ bt'.a2dp)
    <3>1. CASE A2dpUp
      BY <1>2, <3>1 DEF A2dpUp, BtType
    <3>2. CASE A2dpDown
      BY <1>2, <3>2 DEF A2dpDown, BtType
    <3>3. CASE AvrcpFails
      BY <1>2, <3>3 DEF AvrcpFails, BtType
    <3>4. CASE AvrcpOrphan
      BY <1>2, <3>4 DEF AvrcpOrphan, BtType
    <3> QED BY <1>9, <3>1, <3>2, <3>3, <3>4
  <2> QED BY <1>2, <2>1, <2>2 DEF NewestIs, WireType
<1>10. CASE AvrcpUp
  <2>1. /\ bt.at = "idle" /\ UNCHANGED wire /\ volume.restore \in LevelOrNil
        /\ head' = [head EXCEPT !.told = Nil, !.notify = TRUE]
    BY <1>2, <1>10 DEF AvrcpUp, VolType
  <2>2. bt' \in BtType /\ bt'.at # "busy" /\ bt'.link = "open" /\ bt'.a2dp
    BY <1>2, <1>10 DEF AvrcpUp, BtType
  <2>3. head' \in [level : Level, told : LevelOrNil, notify : BOOLEAN]
    BY <1>2, <2>1 DEF LevelOrNil
  <2>4. CASE volume.restore # Nil
    <3>1. volume' = [volume EXCEPT !.request = volume.restore] /\ newest' = volume.restore
      BY <1>10, <2>4 DEF AvrcpUp
    <3>2. volume' \in VolType /\ volume'.request = volume.restore
      BY <1>2, <3>1 DEF VolType
    <3> QED BY <1>2, <2>1, <2>2, <2>3, <2>4, <3>1, <3>2 DEF NewestIs, WireType
  <2>5. CASE volume.restore = Nil
    <3>1. UNCHANGED <<volume, newest>>
      BY <1>10, <2>5 DEF AvrcpUp
    <3> QED BY <1>2, <2>1, <2>2, <2>3, <3>1 DEF NewestIs, WireType
  <2> QED BY <2>4, <2>5
<1>11. CASE AvrcpDown
  <2>1. UNCHANGED head /\ newest' = Nil /\ bt.at = "idle" /\ wire' = [cmd |-> <<>>, evt |-> <<>>]
    BY <1>11 DEF AvrcpDown
  <2>2. bt' \in BtType /\ bt'.at = "idle" /\ ~bt'.cid
    BY <1>2, <1>11 DEF AvrcpDown, BtType
  <2>3. volume' \in VolType /\ volume'.request = Nil
    BY <1>2, <1>11 DEF AvrcpDown, VolType, LevelOrNil
  <2>4. WireType'
    BY <2>1 DEF WireType
  <2> QED BY <1>2, <2>1, <2>2, <2>3, <2>4 DEF NewestIs
<1>12. CASE Phones
  <2>1. UNCHANGED <<volume, bt, newest>>
    BY <1>12 DEF Phones, HeadAnswers, HeadIgnores, HeadReports
  <2>2. WireType' /\ head' \in [level : Level, told : LevelOrNil, notify : BOOLEAN]
    <3>1. CASE HeadAnswers
      <4> DEFINE v == HeadTakes[Head(wire.cmd)]
      <4>1. v \in Level /\ Tail(wire.cmd) \in Seq(Level)
        BY <1>2, <3>1, VolumeScales DEF HeadAnswers
      <4>2. /\ head' = [head EXCEPT !.level = v, !.told = v]
            /\ wire' = [cmd |-> Tail(wire.cmd), evt |-> Append(wire.evt, [level |-> v, resp |-> TRUE])]
        BY <3>1 DEF HeadAnswers
      <4> HIDE DEF v
      <4>3. Append(wire.evt, [level |-> v, resp |-> TRUE]) \in Seq([level : Level, resp : BOOLEAN])
        BY <1>2, <4>1
      <4> QED BY <1>2, <4>1, <4>2, <4>3 DEF WireType, LevelOrNil
    <3>2. CASE HeadIgnores
      <4>1. wire' = [wire EXCEPT !.cmd = Tail(wire.cmd)] /\ Tail(wire.cmd) \in Seq(Level) /\ UNCHANGED head
        BY <1>2, <3>2 DEF HeadIgnores
      <4> QED BY <1>2, <4>1 DEF WireType
    <3>3. CASE HeadReports
      <4>1. /\ wire' = [wire EXCEPT !.evt = Append(wire.evt, [level |-> head.level, resp |-> FALSE])]
            /\ head' = [head EXCEPT !.told = head.level, !.notify = FALSE] /\ head.level \in Level
        BY <1>2, <3>3 DEF HeadReports
      <4>2. Append(wire.evt, [level |-> head.level, resp |-> FALSE]) \in Seq([level : Level, resp : BOOLEAN])
        BY <1>2, <4>1
      <4> QED BY <1>2, <4>1, <4>2 DEF WireType, LevelOrNil
    <3> QED BY <1>12, <3>1, <3>2, <3>3 DEF Phones
  <2> QED BY <1>2, <2>1, <2>2 DEF NewestIs
<1> QED BY <1>4, <1>5, <1>6, <1>7, <1>8, <1>9, <1>10, <1>11, <1>12 DEF Stack, Sending, Avrcp

\* The volume sync is safe, whatever the user, the headphones and AVRCP do: a
\* device that is not synced has the volume its user gave it, and the newest
\* request is never lost to an older one.
THEOREM VolumeSafeAlways == VolumeSpec => []VolumeSafe
<1>1. VolumeInv /\ [VolumeNext]_volumeVars => VolumeInv'
  <2> SUFFICES ASSUME VolumeInv, [VolumeNext]_volumeVars PROVE VolumeInv'
    OBVIOUS
  <2>1. CASE VolumeNext
    BY <2>1, SyncerStep, UserStep, StackStep DEF VolumeNext
  <2>2. CASE UNCHANGED volumeVars
    BY <2>2 DEF volumeVars, VolumeInv, VolumeTypeOK, WireType, GivenBack, OrigIsOwn, NewestIs
  <2> QED BY <2>1, <2>2
<1>2. VolumeInv => VolumeSafe
  BY DEF VolumeInv, VolumeSafe, NewestIs, NewestKept
<1> QED BY <1>1, <1>2, VolumeInitial, PTL DEF VolumeSpec

-----------------------------------------------------------------------------
(* How a window follows the core (StateSync)                               *)

\* What the number of a change is more than its revision, in this run of the
\* core; and the revision of the last change of a part
Off == changes - rev
At(p) == core[p] - Off

\* An event of this run of the core
Own(e) ==
    /\ e.rev \in 1..rev /\ e.value = e.rev + Off
    /\ e.rev <= At(e.part)
    /\ \A q \in Part : core[q] = e.value => q = e.part
IsNewest(e, p) == e.part = p /\ e.rev = At(p)
ToSend(p) == \E t \in Publisher : sending[t] # Null /\ IsNewest(sending[t], p)

\* Of the events Q on their way: the newest of a part is among them or about to
\* be sent, and reaches the window before any later one ...
Ahead(Q, p) ==
    \/ \E i \in DOMAIN Q : IsNewest(Q[i], p) /\ \A j \in 1..(i - 1) : Q[j].rev < At(p)
    \/ sent < At(p) /\ ToSend(p)

\* ... or a later one does, but out of turn ...
Jumped(Q, p) ==
    \E i \in DOMAIN Q : Q[i].odd /\ Q[i].rev > At(p) /\ \A j \in 1..(i - 1) : Q[j].rev < At(p)

\* ... or a window at revision w is past it
Passed(Q, w, p) ==
    IF w # Null THEN w >= At(p)
    ELSE sent >= At(p) /\ \A i \in DOMAIN Q : Q[i].odd \/ Q[i].rev > At(p)

\* What a window that shows B at revision w does not have yet is on its way
Good(Q, B, w) ==
    \A p \in Part : \/ (w = Null \/ w < At(p)) /\ (Ahead(Q, p) \/ Jumped(Q, p))
                    \/ Passed(Q, w, p) /\ B[p] = core[p]

\* The events on their way that are not marked come in the order of their
\* revisions
InTurn(Q) ==
    \A i \in DOMAIN Q : /\ Own(Q[i]) /\ Q[i].rev <= sent
                        /\ ~Q[i].odd => \A j \in 1..(i - 1) : Q[j].rev < Q[i].rev

\* The events after the last snapshot in the pipe, and those on their way in all
Snaps(P) == {i \in DOMAIN P : P[i].type = "snapshot"}
Cut(P) == IF Snaps(P) = {} THEN 0 ELSE LastOf(Snaps(P))
Live(P) == SubSeq(P, Cut(P) + 1, Len(P))
Flight == IF server = "up" /\ ~lagged THEN Live(pipe) \o chan ELSE chan

\* What the core has changed it has sent or is about to send.
CoreInv ==
    /\ sent <= rev /\ rev <= changes
    /\ \A p \in Part : core[p] \in Off..changes
    /\ rev = 0 \/ \E p \in Part : core[p] = changes
    /\ \A t \in Publisher : sending[t] # Null => Own(sending[t])
    /\ \A p \in Part : sent < At(p) => ToSend(p)

\* The status the backend has, or will have, is Connected
Connects ==
    \/ \E i \in DOMAIN pipe : pipe[i].type = "welcome" /\ \A j \in (i + 1)..Len(pipe) : pipe[j].type # "broken"
    \/ status /\ \A j \in DOMAIN pipe : pipe[j].type # "broken"

\* After its snapshot a session writes events only.
ServerInv ==
    /\ server \in {"down", "welcome"} => chan = <<>>
    /\ lagged => server \in {"subscribed", "up"}
    /\ server = "up" => \A i \in (Cut(pipe) + 1)..Len(pipe) : pipe[i].type = "event"
    /\ server # "down" => Connects

\* A closed window has nothing, one that waits has kept the events since.
Since == {i \in DOMAIN pending.events : pending.from = Null \/ pending.events[i].rev > pending.from}
PendInv ==
    /\ window = "closed" => wrev = Null /\ snap = Null /\ pending = Null /\ read = Null /\ ~conn
    /\ pending # Null =>
        /\ wrev = IF pending.events = <<>> THEN pending.from ELSE pending.events[Len(pending.events)].rev
        /\ pending.from # Null =>
             wrev >= pending.from /\ \A i \in DOMAIN pending.events : pending.events[i].rev > pending.from
    /\ \A a, b \in asks : a.id = b.id => a = b

\* What is on its way brings a window that shows nothing, or the last snapshot
\* in the pipe, to the state of the core.
FlightInv ==
    /\ InTurn(Flight)
    /\ server \in {"subscribed", "up"} => Good(Flight, core, Null)
    /\ server = "up" /\ ~lagged /\ Snaps(pipe) # {} =>
         pipe[Cut(pipe)].rev <= rev /\ Good(Flight, pipe[Cut(pipe)].state, pipe[Cut(pipe)].rev)

\* Past the last snapshot it brings the window there: from what it shows, or
\* will once the snapshot it asked for is answered.
Shown == IF snap = Null THEN core ELSE snap
Replayed(a) == Replay(IF a.answer = "taken" THEN a.state ELSE core, pending.events, Since)
Fits ==
    /\ wrev # Null => wrev <= rev
    /\ pending = Null => Good(Flight, Shown, wrev)
    /\ pending # Null =>
         /\ \E a \in asks : a.id = pending.id
         /\ \A a \in asks : a.id = pending.id =>
              a.answer # "failed" /\ Good(Flight, Replayed(a), wrev)
Starts ==
    /\ window = "open" => snap # Null \/ pending # Null
    /\ window = "listening" /\ snap = Null /\ pending = Null => ~conn /\ read # FALSE
PastSnapshot == server = "up" /\ ~lagged /\ Snaps(pipe) = {}
WindowInv == PastSnapshot /\ ~late => Fits /\ Starts

SyncInv == SyncTypeOK /\ CoreInv /\ ServerInv /\ PendInv /\ FlightInv /\ WindowInv

-----------------------------------------------------------------------------
(* Sequences *)

\* The last of some places in a sequence
LEMMA LastIs ==
    ASSUME NEW n \in Nat, NEW T, T \subseteq 1..n, T # {}
    PROVE  LastOf(T) \in T /\ \A j \in T : j <= LastOf(T)
<1> DEFINE U == {n - i : i \in T}
<1>1. U \subseteq Nat /\ U # {}
  <2>1. \A i \in T : n - i \in Nat
    OBVIOUS
  <2>2. QED
    BY <2>1
<1>2. IsWellFoundedOn(OpToRel(<, Nat), Nat)
  BY NatLessThanWellFounded
<1>3. PICK x \in U : \A y \in U : ~ (<<y, x>> \in OpToRel(<, Nat))
  <2> HIDE DEF U
  <2>1. QED
    BY <1>1, <1>2, WFMin, Zenon
<1>4. \A y \in U : ~ (y < x)
  BY <1>1, <1>3 DEF OpToRel
<1>5. PICK i \in T : x = n - i
  OBVIOUS
<1>6. \A j \in T : n - j \in U
  OBVIOUS
<1>7. \A j \in T : j <= i
  BY <1>4, <1>5, <1>6
<1>8. QED
  BY <1>7 DEF LastOf

\* The last of some places, when one is known to be it
LEMMA LastIsThat ==
    ASSUME NEW T, T \subseteq Nat, NEW i \in T, \A j \in T : j <= i
    PROVE  LastOf(T) = i
<1>1. \A k \in T : (\A j \in T : j <= k) => k = i
  OBVIOUS
<1>2. QED
  BY <1>1 DEF LastOf

\* The last snapshot of the pipe
LEMMA CutIs ==
    ASSUME NEW P \in Seq(Message)
    PROVE  /\ Cut(P) \in 0..Len(P)
           /\ (Cut(P) = 0 <=> Snaps(P) = {})
           /\ Cut(P) # 0 => P[Cut(P)].type = "snapshot"
           /\ \A i \in (Cut(P) + 1)..Len(P) : P[i].type # "snapshot"
           /\ Live(P) \in Seq(Message) /\ Len(Live(P)) = Len(P) - Cut(P)
           /\ \A i \in 1..(Len(P) - Cut(P)) : Live(P)[i] = P[i + Cut(P)]
<1>1. Snaps(P) \subseteq 1..Len(P)
  BY DEF Snaps
<1>2. Snaps(P) # {} => LastOf(Snaps(P)) \in Snaps(P) /\ \A j \in Snaps(P) : j <= LastOf(Snaps(P))
  BY <1>1, LastIs
<1>3. /\ Cut(P) \in 0..Len(P)
      /\ (Cut(P) = 0 <=> Snaps(P) = {})
      /\ Cut(P) # 0 => P[Cut(P)].type = "snapshot"
  BY <1>1, <1>2 DEF Cut, Snaps
<1>4. \A i \in (Cut(P) + 1)..Len(P) : P[i].type # "snapshot"
  <2> SUFFICES ASSUME NEW i \in (Cut(P) + 1)..Len(P), P[i].type = "snapshot" PROVE FALSE
    OBVIOUS
  <2>1. i \in Snaps(P)
    BY <1>3 DEF Snaps
  <2>2. i <= Cut(P)
    BY <1>2, <2>1 DEF Cut
  <2>3. QED
    BY <1>3, <2>2
<1>5. /\ Live(P) \in Seq(Message) /\ Len(Live(P)) = Len(P) - Cut(P)
      /\ \A i \in 1..(Len(P) - Cut(P)) : Live(P)[i] = P[i + Cut(P)]
  BY <1>3 DEF Live
<1>6. QED
  BY <1>3, <1>4, <1>5

LEMMA CutIsThat ==
    ASSUME NEW P \in Seq(Message), NEW k \in 0..Len(P), k = 0 \/ P[k].type = "snapshot",
           \A i \in (k + 1)..Len(P) : P[i].type # "snapshot"
    PROVE  Cut(P) = k
<1>1. CASE k = 0
  <2>1. Snaps(P) = {}
    BY <1>1 DEF Snaps
  <2>2. QED
    BY <1>1, <2>1 DEF Cut
<1>2. CASE k # 0
  <2>1. k \in Snaps(P) /\ Snaps(P) \subseteq Nat /\ \A j \in Snaps(P) : j <= k
    BY <1>2 DEF Snaps
  <2>2. LastOf(Snaps(P)) = k
    BY <2>1, LastIsThat
  <2>3. QED
    BY <2>1, <2>2 DEF Cut
<1>3. QED
  BY <1>1, <1>2

\* A message is written to the pipe.
LEMMA CutAppend ==
    ASSUME NEW P \in Seq(Message), NEW m \in Message
    PROVE  /\ m.type = "snapshot" => Cut(Append(P, m)) = Len(P) + 1 /\ Live(Append(P, m)) = <<>>
                                     /\ Snaps(Append(P, m)) # {}
           /\ m.type # "snapshot" => Cut(Append(P, m)) = Cut(P) /\ Live(Append(P, m)) = Append(Live(P), m)
                                     /\ (Snaps(Append(P, m)) = {} <=> Snaps(P) = {})
<1> DEFINE R == Append(P, m)
<1>1. R \in Seq(Message) /\ Len(R) = Len(P) + 1 /\ R[Len(P) + 1] = m /\ \A i \in 1..Len(P) : R[i] = P[i]
  OBVIOUS
<1>2. CASE m.type = "snapshot"
  <2> HIDE DEF R
  <2>1. Len(P) + 1 \in 0..Len(R) /\ R[Len(P) + 1].type = "snapshot"
        /\ \A i \in (Len(P) + 1 + 1)..Len(R) : R[i].type # "snapshot"
    BY <1>1, <1>2
  <2>2. Cut(R) = Len(P) + 1
    BY <1>1, <2>1, CutIsThat
  <2>3. Live(R) = <<>>
    BY <1>1, <2>2, SubSeqEmpty DEF Live
  <2>4. Snaps(R) # {}
    <3>1. Cut(R) # 0
      BY <2>2
    <3>2. QED
      BY <1>1, <3>1, CutIs
  <2>5. QED
    BY <1>2, <2>2, <2>3, <2>4 DEF R
<1>3. CASE m.type # "snapshot"
  <2>1. Cut(P) \in 0..Len(P) /\ (Cut(P) = 0 \/ P[Cut(P)].type = "snapshot")
        /\ \A i \in (Cut(P) + 1)..Len(P) : P[i].type # "snapshot"
    BY CutIs
  <2>2. Cut(R) = Cut(P)
    <3>1. Cut(P) \in 0..Len(R) /\ (Cut(P) = 0 \/ R[Cut(P)].type = "snapshot")
      BY <1>1, <2>1
    <3>2. \A i \in (Cut(P) + 1)..Len(R) : R[i].type # "snapshot"
      BY <1>1, <1>3, <2>1
    <3>3. QED
      BY <1>1, <3>1, <3>2, CutIsThat
  <2>3. Live(R) = Append(Live(P), m)
    <3>1. /\ Live(P) \in Seq(Message) /\ Len(Live(P)) = Len(P) - Cut(P)
          /\ \A i \in 1..(Len(P) - Cut(P)) : Live(P)[i] = P[i + Cut(P)]
      BY CutIs
    <3>2. /\ Live(R) \in Seq(Message) /\ Len(Live(R)) = Len(R) - Cut(R)
          /\ \A i \in 1..(Len(R) - Cut(R)) : Live(R)[i] = R[i + Cut(R)]
      BY <1>1, CutIs
    <3> DEFINE S == Append(Live(P), m)
    <3>3. /\ S \in Seq(Message) /\ Len(S) = Len(P) - Cut(P) + 1
          /\ S[Len(P) - Cut(P) + 1] = m
          /\ \A i \in 1..(Len(P) - Cut(P)) : S[i] = P[i + Cut(P)]
      BY <3>1
    <3>4. Len(Live(R)) = Len(S) /\ \A i \in 1..Len(Live(R)) : Live(R)[i] = S[i]
      <4> HIDE DEF S, R
      <4>1. Len(Live(R)) = Len(S)
        BY <1>1, <2>1, <2>2, <3>2, <3>3
      <4>2. ASSUME NEW i \in 1..Len(Live(R)) PROVE Live(R)[i] = S[i]
        <5>1. Live(R)[i] = R[i + Cut(P)] /\ i + Cut(P) \in 1..(Len(P) + 1)
          BY <1>1, <2>1, <2>2, <3>2
        <5>2. CASE i = Len(P) - Cut(P) + 1
          <6>1. i + Cut(P) = Len(P) + 1
            BY <2>1, <5>2
          <6>2. QED
            BY <1>1, <3>3, <5>1, <5>2, <6>1
        <5>3. CASE i # Len(P) - Cut(P) + 1
          <6>1. i \in 1..(Len(P) - Cut(P)) /\ i + Cut(P) \in 1..Len(P)
            BY <1>1, <2>1, <2>2, <3>2, <5>1, <5>3
          <6>2. QED
            BY <1>1, <3>3, <5>1, <6>1
        <5>4. QED
          BY <5>2, <5>3
      <4>3. QED
        BY <4>1, <4>2
    <3>5. QED
      BY <3>2, <3>3, <3>4, SeqEqual
  <2>4. QED
    BY <1>1, <1>3, <2>1, <2>2, <2>3, CutIs
<1>4. QED
  BY <1>2, <1>3

\* A message is taken from the pipe.
LEMMA CutTail ==
    ASSUME NEW P \in Seq(Message), P # <<>>
    PROVE  /\ Tail(P) \in Seq(Message)
           /\ Cut(P) = 0 => /\ Cut(Tail(P)) = 0 /\ Snaps(P) = {} /\ Snaps(Tail(P)) = {}
                            /\ Live(P) = P /\ Live(Tail(P)) = Tail(P) /\ Head(P).type # "snapshot"
           /\ Cut(P) = 1 => /\ Cut(Tail(P)) = 0 /\ Snaps(Tail(P)) = {}
                            /\ Live(Tail(P)) = Live(P) /\ Head(P).type = "snapshot"
           /\ Cut(P) > 1 => /\ Cut(Tail(P)) = Cut(P) - 1 /\ Snaps(Tail(P)) # {}
                            /\ Live(Tail(P)) = Live(P) /\ Tail(P)[Cut(Tail(P))] = P[Cut(P)]
<1> DEFINE R == Tail(P)
<1>1. R \in Seq(Message) /\ Len(R) = Len(P) - 1 /\ \A i \in 1..Len(R) : R[i] = P[i + 1]
  OBVIOUS
<1>2. /\ Cut(P) \in 0..Len(P) /\ (Cut(P) = 0 <=> Snaps(P) = {})
      /\ Cut(P) = 0 \/ P[Cut(P)].type = "snapshot"
      /\ \A i \in (Cut(P) + 1)..Len(P) : P[i].type # "snapshot"
  BY CutIs
<1>3. Cut(R) = IF Cut(P) = 0 THEN 0 ELSE Cut(P) - 1
  <2> DEFINE k == IF Cut(P) = 0 THEN 0 ELSE Cut(P) - 1
  <2>1. k \in 0..Len(R) /\ (k = 0 \/ R[k].type = "snapshot")
    BY <1>1, <1>2
  <2>2. \A i \in (k + 1)..Len(R) : R[i].type # "snapshot"
    BY <1>1, <1>2
  <2>3. QED
    BY <1>1, <2>1, <2>2, CutIsThat
<1>4. Snaps(R) = {} <=> Cut(R) = 0
  BY <1>1, CutIs
<1>5. Cut(P) = 0 => Live(P) = P /\ Live(R) = R
  BY <1>1, <1>2, <1>3 DEF Live
<1>6. Cut(P) # 0 => Live(R) = Live(P)
  <2> SUFFICES ASSUME Cut(P) # 0 PROVE Live(R) = Live(P)
    OBVIOUS
  <2>1. /\ Live(P) \in Seq(Message) /\ Len(Live(P)) = Len(P) - Cut(P)
        /\ \A i \in 1..(Len(P) - Cut(P)) : Live(P)[i] = P[i + Cut(P)]
    BY CutIs
  <2>2. /\ Live(R) \in Seq(Message) /\ Len(Live(R)) = Len(R) - Cut(R)
        /\ \A i \in 1..(Len(R) - Cut(R)) : Live(R)[i] = R[i + Cut(R)]
    BY <1>1, CutIs
  <2> HIDE DEF R
  <2>3. Len(Live(R)) = Len(Live(P)) /\ \A i \in 1..Len(Live(P)) : Live(R)[i] = Live(P)[i]
    <3>1. Len(Live(R)) = Len(Live(P))
      BY <1>1, <1>2, <1>3, <2>1, <2>2
    <3>2. ASSUME NEW i \in 1..Len(Live(P)) PROVE Live(R)[i] = Live(P)[i]
      <4>1. Live(R)[i] = R[i + Cut(R)] /\ i + Cut(R) \in 1..Len(R) /\ i + Cut(R) + 1 = i + Cut(P)
        <5>1. Cut(R) = Cut(P) - 1 /\ Cut(P) \in 1..Len(P)
          BY <1>2, <1>3
        <5>2. i \in 1..(Len(P) - Cut(P)) /\ i \in 1..(Len(R) - Cut(R))
          BY <1>1, <2>1, <5>1
        <5>3. QED
          BY <1>1, <2>2, <5>1, <5>2
      <4>2. R[i + Cut(R)] = P[i + Cut(P)] /\ Live(P)[i] = P[i + Cut(P)]
        BY <1>1, <2>1, <4>1
      <4>3. QED
        BY <4>1, <4>2
    <3>3. QED
      BY <3>1, <3>2
  <2>4. QED
    BY <2>1, <2>2, <2>3, SeqEqual
<1>7. Cut(P) > 1 => R[Cut(R)] = P[Cut(P)]
  BY <1>1, <1>2, <1>3
<1>8. Cut(P) = 0 => Head(P).type # "snapshot"
  BY <1>2
<1>9. Cut(P) = 1 => Head(P).type = "snapshot"
  BY <1>2
<1>10. QED
  BY <1>1, <1>2, <1>3, <1>4, <1>5, <1>6, <1>7, <1>8, <1>9

-----------------------------------------------------------------------------
(* Events on their way                                                     *)

LEMMA AtIs ==
    ASSUME SyncTypeOK, CoreInv, NEW p \in Part
    PROVE  Off \in Nat /\ At(p) \in 0..rev /\ sent \in Nat /\ rev \in Nat /\ core[p] = At(p) + Off
<1>1. core[p] \in Nat /\ rev \in Nat /\ changes \in Nat /\ sent \in Nat
  BY DEF SyncTypeOK, Parts
<1>2. core[p] >= Off /\ core[p] <= changes /\ rev <= changes
  BY <1>1 DEF CoreInv, Off
<1>3. QED
  BY <1>1, <1>2 DEF At, Off

LEMMA TailIs ==
    ASSUME NEW Q \in Seq(Event), Q # <<>>
    PROVE  /\ Tail(Q) \in Seq(Event) /\ Len(Q) \in Nat /\ Len(Q) >= 1 /\ Len(Tail(Q)) = Len(Q) - 1
           /\ DOMAIN Q = 1..Len(Q) /\ DOMAIN Tail(Q) = 1..(Len(Q) - 1)
           /\ \A i \in 1..(Len(Q) - 1) : Tail(Q)[i] = Q[i + 1] /\ i + 1 \in 1..Len(Q)
           /\ Head(Q) = Q[1] /\ Head(Q) \in Event
           /\ \A i \in 1..Len(Q) : Q[i] \in Event /\ Q[i].rev \in Nat /\ Q[i].part \in Part /\ Q[i].value \in Nat
                                   /\ Q[i].odd \in BOOLEAN
<1>1. /\ Tail(Q) \in Seq(Event) /\ Len(Q) \in Nat /\ Len(Q) >= 1 /\ Len(Tail(Q)) = Len(Q) - 1
      /\ DOMAIN Q = 1..Len(Q) /\ DOMAIN Tail(Q) = 1..(Len(Q) - 1)
      /\ \A i \in 1..(Len(Q) - 1) : Tail(Q)[i] = Q[i + 1] /\ i + 1 \in 1..Len(Q)
      /\ Head(Q) = Q[1] /\ Head(Q) \in Event
  BY HeadTailProperties, LenProperties, EmptySeq
<1>2. \A i \in 1..Len(Q) : Q[i] \in Event
  BY ElementOfSeq
<1>3. QED
  BY <1>1, <1>2 DEF Event

\* The first event of those on their way reaches the window.
LEMMA FirstOf ==
    ASSUME SyncTypeOK, CoreInv, NEW Q \in Seq(Event), Q # <<>>, InTurn(Q)
    PROVE  /\ InTurn(Tail(Q))
           /\ \A p \in Part :
                /\ Ahead(Q, p) => IsNewest(Head(Q), p) \/ (Head(Q).rev < At(p) /\ Ahead(Tail(Q), p))
                /\ Jumped(Q, p) => (Head(Q).odd /\ Head(Q).rev > At(p))
                                   \/ (Head(Q).rev < At(p) /\ Jumped(Tail(Q), p))
                /\ Passed(Q, Null, p) => Passed(Tail(Q), Null, p) /\ (Head(Q).odd \/ Head(Q).rev > At(p))
                /\ IsNewest(Head(Q), p) => sent >= At(p)
           /\ \A i \in DOMAIN Tail(Q) : Tail(Q)[i].odd \/ Tail(Q)[i].rev > Head(Q).rev
           /\ Own(Head(Q)) /\ Head(Q).rev <= sent
<1> DEFINE R == Tail(Q)
<1>1. /\ R \in Seq(Event) /\ Len(Q) \in Nat /\ Len(Q) >= 1 /\ Len(R) = Len(Q) - 1
      /\ DOMAIN Q = 1..Len(Q) /\ DOMAIN R = 1..(Len(Q) - 1)
      /\ \A i \in 1..(Len(Q) - 1) : R[i] = Q[i + 1] /\ i + 1 \in 1..Len(Q)
      /\ Head(Q) = Q[1] /\ Head(Q) \in Event
      /\ \A i \in 1..Len(Q) : Q[i] \in Event /\ Q[i].rev \in Nat /\ Q[i].part \in Part /\ Q[i].value \in Nat
                              /\ Q[i].odd \in BOOLEAN
  BY TailIs
<1> HIDE DEF R
<1>2. Own(Head(Q)) /\ Head(Q).rev <= sent
  BY <1>1 DEF InTurn
<1>3. InTurn(R)
  <2> SUFFICES ASSUME NEW i \in 1..(Len(Q) - 1)
               PROVE  /\ Own(R[i]) /\ R[i].rev <= sent
                      /\ ~R[i].odd => \A j \in 1..(i - 1) : R[j].rev < R[i].rev
    BY <1>1 DEF InTurn
  <2>1. Own(R[i]) /\ R[i].rev <= sent
    BY <1>1 DEF InTurn
  <2>2. ASSUME ~R[i].odd, NEW j \in 1..(i - 1) PROVE R[j].rev < R[i].rev
    <3>1. j + 1 \in 1..((i + 1) - 1) /\ R[j] = Q[j + 1] /\ R[i] = Q[i + 1]
      BY <1>1
    <3>2. QED
      BY <1>1, <2>2, <3>1 DEF InTurn
  <2>3. QED
    BY <2>1, <2>2
<1>4. ASSUME NEW i \in 1..(Len(Q) - 1) PROVE R[i].odd \/ R[i].rev > Head(Q).rev
  <2>1. 1 \in 1..((i + 1) - 1) /\ R[i] = Q[i + 1]
    BY <1>1
  <2>2. Q[i + 1].odd \/ Q[1].rev < Q[i + 1].rev
    BY <1>1, <2>1 DEF InTurn
  <2>3. QED
    BY <1>1, <2>1, <2>2
<1>5. ASSUME NEW p \in Part
      PROVE  /\ Ahead(Q, p) => IsNewest(Head(Q), p) \/ (Head(Q).rev < At(p) /\ Ahead(R, p))
             /\ Jumped(Q, p) => (Head(Q).odd /\ Head(Q).rev > At(p)) \/ (Head(Q).rev < At(p) /\ Jumped(R, p))
             /\ Passed(Q, Null, p) => Passed(R, Null, p) /\ (Head(Q).odd \/ Head(Q).rev > At(p))
             /\ IsNewest(Head(Q), p) => sent >= At(p)
  <2>0. At(p) \in Nat /\ sent \in Nat
    BY AtIs
  <2>1. ASSUME NEW i \in 1..Len(Q), \A j \in 1..(i - 1) : Q[j].rev < At(p), i # 1
        PROVE  /\ i - 1 \in DOMAIN R /\ R[i - 1] = Q[i] /\ Head(Q).rev < At(p)
               /\ \A j \in 1..((i - 1) - 1) : R[j].rev < At(p)
    <3>1. i - 1 \in 1..(Len(Q) - 1) /\ (i - 1) + 1 = i /\ 1 \in 1..(i - 1)
      BY <1>1, <2>1
    <3>2. R[i - 1] = Q[i] /\ Head(Q).rev < At(p)
      BY <1>1, <2>1, <3>1
    <3>3. ASSUME NEW j \in 1..((i - 1) - 1) PROVE R[j].rev < At(p)
      <4>1. j \in 1..(Len(Q) - 1) /\ j + 1 \in 1..(i - 1)
        BY <1>1, <3>1
      <4>2. QED
        BY <1>1, <2>1, <4>1
    <3>4. QED
      BY <1>1, <3>1, <3>2, <3>3
  <2>2. Ahead(Q, p) => IsNewest(Head(Q), p) \/ (Head(Q).rev < At(p) /\ Ahead(R, p))
    <3>1. CASE sent < At(p) /\ ToSend(p)
      BY <1>1, <1>2, <2>0, <3>1 DEF Ahead
    <3>2. ASSUME NEW i \in DOMAIN Q, IsNewest(Q[i], p), \A j \in 1..(i - 1) : Q[j].rev < At(p)
          PROVE  IsNewest(Head(Q), p) \/ (Head(Q).rev < At(p) /\ Ahead(R, p))
      <4>1. CASE i = 1
        BY <1>1, <3>2, <4>1
      <4>2. CASE i # 1
        BY <1>1, <2>1, <3>2, <4>2 DEF Ahead
      <4>3. QED
        BY <4>1, <4>2
    <3>3. QED
      BY <3>1, <3>2 DEF Ahead
  <2>3. Jumped(Q, p) => (Head(Q).odd /\ Head(Q).rev > At(p)) \/ (Head(Q).rev < At(p) /\ Jumped(R, p))
    <3> SUFFICES ASSUME NEW i \in DOMAIN Q, Q[i].odd, Q[i].rev > At(p), \A j \in 1..(i - 1) : Q[j].rev < At(p)
                 PROVE  (Head(Q).odd /\ Head(Q).rev > At(p)) \/ (Head(Q).rev < At(p) /\ Jumped(R, p))
      BY DEF Jumped
    <3>1. CASE i = 1
      BY <1>1, <3>1
    <3>2. CASE i # 1
      BY <1>1, <2>1, <3>2 DEF Jumped
    <3>3. QED
      BY <3>1, <3>2
  <2>4. Passed(Q, Null, p) => Passed(R, Null, p) /\ (Head(Q).odd \/ Head(Q).rev > At(p))
    <3> SUFFICES ASSUME sent >= At(p), \A i \in DOMAIN Q : Q[i].odd \/ Q[i].rev > At(p)
                 PROVE  Passed(R, Null, p) /\ (Head(Q).odd \/ Head(Q).rev > At(p))
      BY DEF Passed
    <3>1. \A i \in DOMAIN R : R[i].odd \/ R[i].rev > At(p)
      BY <1>1
    <3>2. QED
      BY <1>1, <3>1 DEF Passed
  <2>5. IsNewest(Head(Q), p) => sent >= At(p)
    BY <1>1, <1>2, <2>0 DEF IsNewest
  <2>6. QED
    BY <2>2, <2>3, <2>4, <2>5
<1>6. QED
  BY <1>1, <1>2, <1>3, <1>4, <1>5 DEF R

\* The first n events reach nobody: a window that opens later gets the rest.
LEMMA Missed ==
    ASSUME SyncTypeOK, CoreInv, NEW Q \in Seq(Event), InTurn(Q),
           NEW R \in Seq(Event), NEW n \in Nat, Len(Q) = Len(R) + n, \A i \in 1..Len(R) : R[i] = Q[i + n]
    PROVE  InTurn(R) /\ (Good(Q, core, Null) => Good(R, core, Null))
<1>1. /\ Len(Q) \in Nat /\ Len(R) \in Nat /\ DOMAIN Q = 1..Len(Q) /\ DOMAIN R = 1..Len(R)
      /\ \A i \in 1..Len(Q) : Q[i] \in Event
  BY LenProperties, ElementOfSeq
<1>2. \A i \in 1..Len(Q) : Q[i].rev \in Nat
  BY <1>1 DEF Event
<1>3. \A i \in 1..Len(R) : i + n \in 1..Len(Q) /\ R[i] = Q[i + n]
  BY <1>1
<1>4. InTurn(R)
  <2> SUFFICES ASSUME NEW i \in 1..Len(R)
               PROVE  /\ Own(R[i]) /\ R[i].rev <= sent
                      /\ ~R[i].odd => \A j \in 1..(i - 1) : R[j].rev < R[i].rev
    BY <1>1 DEF InTurn
  <2>1. Own(R[i]) /\ R[i].rev <= sent
    BY <1>1, <1>3 DEF InTurn
  <2>2. ASSUME ~R[i].odd, NEW j \in 1..(i - 1) PROVE R[j].rev < R[i].rev
    <3>1. j \in 1..Len(R) /\ j + n \in 1..((i + n) - 1)
      BY <1>1
    <3>2. QED
      BY <1>1, <1>3, <2>2, <3>1 DEF InTurn
  <2>3. QED
    BY <2>1, <2>2
<1>5. ASSUME Good(Q, core, Null), NEW p \in Part
      PROVE  Ahead(R, p) \/ Jumped(R, p) \/ Passed(R, Null, p)
  <2>0. At(p) \in Nat /\ sent \in Nat
    BY AtIs
  <2>1. ASSUME NEW i \in 1..Len(Q), i <= n, Q[i].rev >= At(p) PROVE Passed(R, Null, p)
    <3>1. sent >= At(p)
      BY <1>1, <1>2, <2>0, <2>1 DEF InTurn
    <3>2. ASSUME NEW k \in 1..Len(R) PROVE R[k].odd \/ R[k].rev > At(p)
      <4>1. i \in 1..((k + n) - 1) /\ k + n \in 1..Len(Q) /\ R[k] = Q[k + n]
        BY <1>1, <1>3, <2>1
      <4>2. Q[k + n].odd \/ Q[i].rev < Q[k + n].rev
        BY <1>1, <4>1 DEF InTurn
      <4>3. QED
        BY <1>2, <2>0, <2>1, <4>1, <4>2
    <3>3. QED
      BY <1>1, <3>1, <3>2 DEF Passed
  <2>2. ASSUME NEW i \in 1..Len(Q), i > n, \A j \in 1..(i - 1) : Q[j].rev < At(p)
        PROVE  i - n \in 1..Len(R) /\ R[i - n] = Q[i] /\ \A j \in 1..((i - n) - 1) : R[j].rev < At(p)
    <3>1. i - n \in 1..Len(R) /\ (i - n) + n = i
      BY <1>1, <2>2
    <3>2. ASSUME NEW j \in 1..((i - n) - 1) PROVE R[j].rev < At(p)
      <4>1. j \in 1..Len(R) /\ j + n \in 1..(i - 1)
        BY <1>1, <3>1
      <4>2. QED
        BY <1>3, <2>2, <4>1
    <3>3. QED
      BY <1>3, <3>1, <3>2
  <2>3. CASE sent < At(p) /\ ToSend(p)
    BY <2>3 DEF Ahead
  <2>4. ASSUME NEW i \in 1..Len(Q), IsNewest(Q[i], p), \A j \in 1..(i - 1) : Q[j].rev < At(p)
        PROVE  Ahead(R, p) \/ Passed(R, Null, p)
    <3>1. CASE i <= n
      BY <1>2, <2>0, <2>1, <2>4, <3>1 DEF IsNewest
    <3>2. CASE i > n
      BY <1>1, <2>2, <2>4, <3>2 DEF Ahead
    <3>3. QED
      BY <3>1, <3>2
  <2>5. ASSUME NEW i \in 1..Len(Q), Q[i].odd, Q[i].rev > At(p), \A j \in 1..(i - 1) : Q[j].rev < At(p)
        PROVE  Jumped(R, p) \/ Passed(R, Null, p)
    <3>1. CASE i <= n
      BY <1>2, <2>0, <2>1, <2>5, <3>1
    <3>2. CASE i > n
      BY <1>1, <2>2, <2>5, <3>2 DEF Jumped
    <3>3. QED
      BY <3>1, <3>2
  <2>6. Passed(Q, Null, p) => Passed(R, Null, p)
    BY <1>1, <1>3 DEF Passed
  <2>7. Ahead(Q, p) \/ Jumped(Q, p) \/ Passed(Q, Null, p)
    BY <1>5 DEF Good
  <2>8. QED
    BY <1>1, <2>3, <2>4, <2>5, <2>6, <2>7 DEF Ahead, Jumped
<1>6. QED
  BY <1>4, <1>5 DEF Good

\* What a window shows need not be what it has: the state of the core will do.
LEMMA CoreWillDo ==
    ASSUME NEW Q, NEW B, NEW w, Good(Q, B, w)
    PROVE  Good(Q, core, w)
BY DEF Good

\* The window knows the first event already.
LEMMA Known ==
    ASSUME SyncTypeOK, CoreInv, NEW Q \in Seq(Event), Q # <<>>, InTurn(Q),
           NEW B, NEW w \in Nat, Good(Q, B, w), Head(Q).rev <= w
    PROVE  Good(Tail(Q), B, w)
<1> SUFFICES ASSUME NEW p \in Part
             PROVE  \/ w < At(p) /\ (Ahead(Tail(Q), p) \/ Jumped(Tail(Q), p))
                    \/ Passed(Tail(Q), w, p) /\ B[p] = core[p]
  BY DEF Good
<1> DEFINE e == Head(Q)
<1> DEFINE R == Tail(Q)
<1>1. At(p) \in Nat /\ e.rev \in Nat /\ w # Null
  BY AtIs, TailIs, NullIsNull
<1>2. /\ Ahead(Q, p) => IsNewest(e, p) \/ (e.rev < At(p) /\ Ahead(R, p))
      /\ Jumped(Q, p) => (e.odd /\ e.rev > At(p)) \/ (e.rev < At(p) /\ Jumped(R, p))
  BY FirstOf
<1>3. (w < At(p) /\ (Ahead(Q, p) \/ Jumped(Q, p))) \/ (w >= At(p) /\ B[p] = core[p])
  BY <1>1 DEF Good, Passed
<1> HIDE DEF e, R
<1>4. CASE w >= At(p)
  BY <1>1, <1>3, <1>4 DEF Passed, R
<1>5. CASE w < At(p)
  <2>1. e.rev < At(p)
    BY <1>1, <1>5 DEF e
  <2>2. Ahead(R, p) \/ Jumped(R, p)
    BY <1>1, <1>2, <1>3, <1>5, <2>1 DEF IsNewest
  <2>3. QED
    BY <1>5, <2>2 DEF R
<1>6. QED
  BY <1>1, <1>4, <1>5

\* The window applies the first event: it is not out of turn, or it is the next.
LEMMA Applied ==
    ASSUME SyncTypeOK, CoreInv, NEW Q \in Seq(Event), Q # <<>>, InTurn(Q),
           NEW B, NEW w \in Nat \cup {Null}, Good(Q, B, w),
           w # Null => Head(Q).rev > w,
           ~Head(Q).odd \/ (w # Null /\ Head(Q).rev = w + 1),
           NEW C, \A p \in Part : C[p] = IF p = Head(Q).part THEN Head(Q).value ELSE B[p]
    PROVE  Good(Tail(Q), C, Head(Q).rev)
<1> DEFINE e == Head(Q)
<1> DEFINE R == Tail(Q)
<1> SUFFICES ASSUME NEW p \in Part
             PROVE  \/ e.rev < At(p) /\ (Ahead(R, p) \/ Jumped(R, p))
                    \/ Passed(R, e.rev, p) /\ C[p] = core[p]
  BY DEF Good
<1>1. At(p) \in Nat /\ e.rev \in Nat /\ e.rev # Null /\ e.odd \in BOOLEAN /\ e.part \in Part
      /\ core[p] = At(p) + Off /\ Off \in Nat
  BY AtIs, TailIs, NullIsNull
<1>2. /\ Ahead(Q, p) => IsNewest(e, p) \/ (e.rev < At(p) /\ Ahead(R, p))
      /\ Jumped(Q, p) => (e.odd /\ e.rev > At(p)) \/ (e.rev < At(p) /\ Jumped(R, p))
      /\ Passed(Q, Null, p) => e.odd \/ e.rev > At(p)
      /\ Own(e)
  BY FirstOf
<1>3. /\ w # Null => w \in Nat /\ e.rev > w
      /\ ~e.odd \/ (w # Null /\ e.rev = w + 1)
      /\ C[p] = IF p = e.part THEN e.value ELSE B[p]
  BY DEF e
<1>4. \/ (w = Null \/ w < At(p)) /\ (Ahead(Q, p) \/ Jumped(Q, p))
      \/ Passed(Q, w, p) /\ B[p] = core[p]
  BY DEF Good
<1>5. p = e.part => e.rev <= At(p) /\ e.value = e.rev + Off
  BY <1>2 DEF Own
<1> HIDE DEF e, R
<1>6. CASE Passed(Q, w, p) /\ B[p] = core[p]
  <2>1. e.rev > At(p)
    BY <1>1, <1>2, <1>3, <1>6 DEF Passed
  <2>2. QED
    BY <1>1, <1>3, <1>5, <1>6, <2>1 DEF Passed
<1>7. CASE (w = Null \/ w < At(p)) /\ (Ahead(Q, p) \/ Jumped(Q, p))
  <2>1. ~ (e.odd /\ e.rev > At(p))
    BY <1>1, <1>3, <1>7
  <2>2. CASE IsNewest(e, p)
    BY <1>1, <1>3, <1>5, <2>2 DEF Passed, IsNewest
  <2>3. CASE ~IsNewest(e, p)
    BY <1>2, <1>7, <2>1, <2>3
  <2>4. QED
    BY <2>2, <2>3
<1>8. QED
  BY <1>4, <1>6, <1>7

\* One before the first event was lost: the window asks for the state, and
\* keeps the event.
LEMMA AskedAgain ==
    ASSUME SyncTypeOK, CoreInv, NEW Q \in Seq(Event), Q # <<>>, InTurn(Q),
           NEW B, NEW w \in Nat, Good(Q, B, w), Head(Q).rev > w,
           NEW C, \A p \in Part : C[p] = IF p = Head(Q).part THEN Head(Q).value ELSE core[p]
    PROVE  Good(Tail(Q), C, Head(Q).rev)
<1> DEFINE e == Head(Q)
<1> DEFINE R == Tail(Q)
<1> SUFFICES ASSUME NEW p \in Part
             PROVE  \/ e.rev < At(p) /\ (Ahead(R, p) \/ Jumped(R, p))
                    \/ Passed(R, e.rev, p) /\ C[p] = core[p]
  BY DEF Good
<1>1. At(p) \in Nat /\ e.rev \in Nat /\ e.rev # Null /\ e.part \in Part /\ w # Null
      /\ core[p] = At(p) + Off /\ Off \in Nat
  BY AtIs, TailIs, NullIsNull
<1>2. /\ Ahead(Q, p) => IsNewest(e, p) \/ (e.rev < At(p) /\ Ahead(R, p))
      /\ Jumped(Q, p) => (e.odd /\ e.rev > At(p)) \/ (e.rev < At(p) /\ Jumped(R, p))
      /\ Own(e)
  BY FirstOf
<1>3. e.rev > w /\ C[p] = IF p = e.part THEN e.value ELSE core[p]
  BY DEF e
<1>4. (w < At(p) /\ (Ahead(Q, p) \/ Jumped(Q, p))) \/ w >= At(p)
  BY <1>1 DEF Good, Passed
<1>5. p = e.part => e.rev <= At(p) /\ e.value = e.rev + Off
  BY <1>2 DEF Own
<1> HIDE DEF e, R
<1>6. CASE e.rev < At(p)
  <2>1. w < At(p)
    BY <1>1, <1>3, <1>6
  <2>2. QED
    BY <1>1, <1>2, <1>4, <1>6, <2>1 DEF IsNewest
<1>7. CASE e.rev >= At(p)
  BY <1>1, <1>3, <1>5, <1>7 DEF Passed
<1>8. QED
  BY <1>1, <1>6, <1>7

-----------------------------------------------------------------------------
(* The core changes, and sends                                             *)

LEMMA CoreNumbers ==
    ASSUME SyncTypeOK
    PROVE  /\ rev \in Nat /\ changes \in Nat /\ sent \in Nat /\ core \in [Part -> Nat]
           /\ sending \in [Publisher -> Event \cup {Null}]
           /\ \A t \in Publisher : sending[t] # Null => sending[t] \in Event
BY DEF SyncTypeOK, Parts

LEMMA EventIs ==
    ASSUME NEW e \in Event
    PROVE  /\ e.rev \in Nat /\ e.value \in Nat /\ e.part \in Part /\ e.odd \in BOOLEAN /\ e.type = "event"
           /\ e # Null
           /\ \A b \in BOOLEAN : [e EXCEPT !.odd = b] \in Event /\ [e EXCEPT !.odd = b].rev = e.rev
                 /\ [e EXCEPT !.odd = b].value = e.value /\ [e EXCEPT !.odd = b].part = e.part
                 /\ [e EXCEPT !.odd = b].odd = b
BY NullIsNull DEF Event

LEMMA ChangeIs ==
    ASSUME SyncTypeOK, NEW p \in Part
    PROVE  Change(p) \in Event /\ Change(p).rev = rev + 1 /\ Change(p).value = changes + 1 /\ Change(p).part = p
BY CoreNumbers DEF Change, Event

LEMMA QueueIs ==
    ASSUME NEW Q \in Seq(Event), NEW m \in Event
    PROVE  /\ Append(Q, m) \in Seq(Event) /\ Len(Q) \in Nat /\ Len(Append(Q, m)) = Len(Q) + 1
           /\ DOMAIN Q = 1..Len(Q) /\ DOMAIN Append(Q, m) = 1..(Len(Q) + 1)
           /\ \A i \in 1..Len(Q) : Append(Q, m)[i] = Q[i] /\ Q[i] \in Event /\ Q[i].rev \in Nat /\ Q[i].part \in Part
           /\ Append(Q, m)[Len(Q) + 1] = m
BY AppendProperties, LenProperties, ElementOfSeq, EventIs

\* One part changes: its newest event is the new one, the others keep theirs.
LEMMA Moved ==
    ASSUME SyncTypeOK, CoreInv, NEW p \in Part, Apply(p)
    PROVE  /\ Off' = Off /\ Off \in Nat /\ At(p)' = rev + 1 /\ rev' = rev + 1
           /\ \A q \in Part : q # p => At(q)' = At(q) /\ core'[q] = core[q]
           /\ core'[p] = changes + 1 /\ changes' = changes + 1
           /\ \A e : (e.part \in Part /\ Own(e)) => Own(e)'
           /\ \A e : (e.part = p /\ e.rev = rev + 1 /\ e.value = changes + 1) => Own(e)'
<1>1. /\ rev \in Nat /\ changes \in Nat /\ core \in [Part -> Nat]
      /\ rev' = rev + 1 /\ changes' = changes + 1 /\ core' = [core EXCEPT ![p] = changes + 1]
  BY CoreNumbers DEF Apply
<1>2. Off' = Off /\ Off \in Nat /\ changes = rev + Off
  BY <1>1 DEF Off, CoreInv
<1>3. /\ core'[p] = changes + 1
      /\ \A q \in Part : core'[q] \in Nat /\ core[q] \in Nat /\ core[q] <= changes /\ (q # p => core'[q] = core[q])
  BY <1>1 DEF CoreInv, Off
<1>4. At(p)' = rev + 1 /\ \A q \in Part : q # p => At(q)' = At(q)
  BY <1>1, <1>2, <1>3 DEF At
<1>5. ASSUME NEW e, e.part \in Part, Own(e) PROVE Own(e)'
  <2>1. e.rev \in 1..rev /\ e.value = e.rev + Off /\ e.rev <= At(e.part) /\ \A q \in Part : core[q] = e.value => q = e.part
    BY <1>5 DEF Own
  <2>2. e.rev \in 1..(rev + 1) /\ e.rev <= At(e.part)'
    BY <1>1, <1>4, <1>5, <2>1
  <2>3. \A q \in Part : core'[q] = e.value => q = e.part
    BY <1>1, <1>2, <1>3, <2>1
  <2>4. QED
    BY <1>1, <1>2, <2>1, <2>2, <2>3 DEF Own
<1>6. ASSUME NEW e, e.part = p, e.rev = rev + 1, e.value = changes + 1 PROVE Own(e)'
  <2>1. \A q \in Part : core'[q] = e.value => q = e.part
    BY <1>1, <1>3, <1>6
  <2>2. QED
    BY <1>1, <1>2, <1>4, <1>6, <2>1 DEF Own
<1>7. QED
  BY <1>1, <1>2, <1>3, <1>4, <1>5, <1>6

\* publish: the new event is about to be sent.
LEMMA PublishMoves ==
    ASSUME SyncTypeOK, CoreInv, NEW t \in Publisher, NEW p \in Part, Publish(t, p),
           NEW Q \in Seq(Event), InTurn(Q)
    PROVE  /\ CoreInv'
           /\ InTurn(Q)'
           /\ \A B, C, w : (/\ Good(Q, B, w) /\ w \in Nat \cup {Null} /\ (w # Null => w <= rev)
                            /\ \A q \in Part : q # p => C[q] = B[q]) => Good(Q, C, w)'
<1>1. /\ Apply(p) /\ sending[t] = Null /\ sent' = sent
      /\ sending' = [sending EXCEPT ![t] = Change(p)]
  BY DEF Publish
<1>2. /\ Off' = Off /\ Off \in Nat /\ At(p)' = rev + 1 /\ rev' = rev + 1
      /\ \A q \in Part : q # p => At(q)' = At(q) /\ core'[q] = core[q]
      /\ core'[p] = changes + 1 /\ changes' = changes + 1
      /\ \A e : (e.part \in Part /\ Own(e)) => Own(e)'
      /\ \A e : (e.part = p /\ e.rev = rev + 1 /\ e.value = changes + 1) => Own(e)'
  BY <1>1, Moved
<1>3. /\ rev \in Nat /\ changes \in Nat /\ sent \in Nat /\ core \in [Part -> Nat]
      /\ sending \in [Publisher -> Event \cup {Null}]
      /\ sent <= rev /\ rev <= changes /\ changes = rev + Off
      /\ \A q \in Part : At(q) \in 0..rev /\ core[q] = At(q) + Off
  BY CoreNumbers, AtIs DEF CoreInv, Off
<1>4. Change(p) \in Event /\ Change(p).rev = rev + 1 /\ Change(p).value = changes + 1 /\ Change(p).part = p /\ Change(p) # Null
  BY ChangeIs, EventIs
<1>5. /\ sending'[t] = Change(p) /\ sending'[t] # Null
      /\ \A u \in Publisher : u # t => sending'[u] = sending[u]
  BY <1>1, <1>3, <1>4
<1>6. ToSend(p)' /\ \A q \in Part : q # p /\ ToSend(q) => ToSend(q)'
  <2>1. ToSend(p)'
    BY <1>2, <1>4, <1>5 DEF ToSend, IsNewest
  <2>2. ASSUME NEW q \in Part, q # p, NEW u \in Publisher, sending[u] # Null, IsNewest(sending[u], q)
        PROVE  ToSend(q)'
    BY <1>1, <1>2, <1>5, <2>2 DEF ToSend, IsNewest
  <2>3. QED
    BY <2>1, <2>2 DEF ToSend
<1>7. InTurn(Q)'
  <2>1. \A i \in DOMAIN Q : Q[i].part \in Part
    BY EventIs
  <2>2. QED
    BY <1>1, <1>2, <2>1 DEF InTurn
<1>8. CoreInv'
  <2>1. sent' <= rev' /\ rev' <= changes'
    BY <1>1, <1>2, <1>3
  <2>2. \A q \in Part : core'[q] \in Off'..changes'
    BY <1>2, <1>3
  <2>3. \E q \in Part : core'[q] = changes'
    BY <1>2
  <2>4. \A u \in Publisher : sending'[u] # Null => Own(sending[u])'
    <3>1. \A e : (e.part = p /\ e.rev = rev + 1 /\ e.value = changes + 1) => Own(e)'
      BY <1>2
    <3>2. \A u \in Publisher : u # t /\ sending[u] # Null => Own(sending[u]) /\ sending[u].part \in Part
      BY CoreNumbers, EventIs DEF CoreInv
    <3>3. ASSUME NEW u \in Publisher, sending'[u] # Null PROVE Own(sending[u])'
      <4>1. CASE u = t
        <5>1. \E e : e = sending'[t] /\ Own(e)'
          BY <1>4, <1>5, <3>1
        <5>2. QED
          BY <4>1, <5>1 DEF Own
      <4>2. CASE u # t
        <5>1. \E e : e = sending'[u] /\ Own(e)'
          BY <1>2, <1>5, <3>2, <3>3, <4>2
        <5>2. QED
          BY <5>1 DEF Own
      <4>3. QED
        BY <4>1, <4>2
    <3>4. QED
      BY <3>3
  <2>5. \A q \in Part : sent' < At(q)' => ToSend(q)'
    BY <1>1, <1>2, <1>6 DEF CoreInv
  <2>6. QED
    BY <2>1, <2>2, <2>3, <2>4, <2>5 DEF CoreInv
<1>9. ASSUME NEW B, NEW C, NEW w, Good(Q, B, w), w \in Nat \cup {Null}, w # Null => w <= rev,
             \A q \in Part : q # p => C[q] = B[q]
      PROVE  Good(Q, C, w)'
  <2> SUFFICES ASSUME NEW q \in Part
               PROVE  \/ (w = Null \/ w < At(q)') /\ (Ahead(Q, q)' \/ Jumped(Q, q)')
                      \/ Passed(Q, w, q)' /\ C[q] = core'[q]
    BY DEF Good
  <2>1. CASE q = p
    <3>1. sent' < At(p)'
      BY <1>1, <1>2, <1>3
    <3>2. Ahead(Q, p)'
      BY <1>6, <3>1 DEF Ahead
    <3>3. w = Null \/ w < At(p)'
      BY <1>2, <1>3, <1>9
    <3>4. QED
      BY <2>1, <3>2, <3>3
  <2>2. CASE q # p
    <3>1. At(q)' = At(q) /\ core'[q] = core[q] /\ sent' = sent /\ C[q] = B[q] /\ (ToSend(q) => ToSend(q)')
      BY <1>1, <1>2, <1>6, <1>9, <2>2
    <3>2. Ahead(Q, q) => Ahead(Q, q)'
      BY <3>1 DEF Ahead, IsNewest
    <3>3. Jumped(Q, q) => Jumped(Q, q)'
      BY <3>1 DEF Jumped
    <3>4. Passed(Q, w, q) => Passed(Q, w, q)'
      BY <3>1 DEF Passed
    <3>5. \/ (w = Null \/ w < At(q)) /\ (Ahead(Q, q) \/ Jumped(Q, q))
          \/ Passed(Q, w, q) /\ B[q] = core[q]
      BY <1>9 DEF Good
    <3>6. QED
      BY <3>1, <3>2, <3>3, <3>4, <3>5
  <2>3. QED
    BY <2>1, <2>2
<1>10. QED
  BY <1>7, <1>8, <1>9

\* What is broadcast of an event
SentAs(e, m) ==
    /\ m \in Event /\ m.rev = e.rev /\ m.value = e.value /\ m.part = e.part
    /\ m.odd <=> e.rev # sent + 1

LEMMA BroadcastIs ==
    ASSUME NEW e \in Event, Broadcast(e)
    PROVE  /\ sent' = IF e.rev > sent THEN e.rev ELSE sent
           /\ \E m \in Event : /\ SentAs(e, m)
                               /\ IF server \in {"down", "welcome"} THEN UNCHANGED <<chan, lagged>>
                                  ELSE IF Len(chan) < Capacity THEN chan' = Append(chan, m) /\ lagged' = lagged
                                  ELSE chan' = Append(Tail(chan), m) /\ lagged' = TRUE
<1>1. \E b \in BOOLEAN : b = (e.rev # sent + 1)
  OBVIOUS
<1>2. PICK b \in BOOLEAN : b = (e.rev # sent + 1)
  BY <1>1
<1>3. SentAs(e, [e EXCEPT !.odd = b])
  <2> DEFINE m == [e EXCEPT !.odd = b]
  <2>1. m \in Event /\ m.rev = e.rev /\ m.value = e.value /\ m.part = e.part /\ m.odd = b
    BY EventIs
  <2> HIDE DEF m
  <2>2. m.odd <=> e.rev # sent + 1
    BY <1>2, <2>1, Zenon
  <2>3. QED
    BY <2>1, <2>2 DEF SentAs, m
<1>4. [e EXCEPT !.odd = b] \in Event
  BY EventIs
<1>5. sent' = IF e.rev > sent THEN e.rev ELSE sent
  BY DEF Broadcast
<1>6. IF server \in {"down", "welcome"} THEN UNCHANGED <<chan, lagged>>
      ELSE IF Len(chan) < Capacity THEN chan' = Append(chan, [e EXCEPT !.odd = b]) /\ UNCHANGED lagged
      ELSE chan' = Append(Tail(chan), [e EXCEPT !.odd = b]) /\ lagged' = TRUE
  BY <1>2, Zenon DEF Broadcast
<1>7. QED
  BY <1>3, <1>4, <1>5, <1>6

\* The sent event comes last: in turn, or marked.
LEMMA LastInTurn ==
    ASSUME SyncTypeOK, CoreInv, NEW e \in Event, NEW m, SentAs(e, m), Own(m)',
           NEW Q \in Seq(Event), InTurn(Q), \A f : (f.part \in Part /\ Own(f)) => Own(f)',
           sent' = IF e.rev > sent THEN e.rev ELSE sent
    PROVE  InTurn(Append(Q, m))'
<1> DEFINE R == Append(Q, m)
<1>1. m \in Event /\ m.rev = e.rev /\ m.rev \in Nat /\ (m.odd <=> e.rev # sent + 1)
  BY EventIs DEF SentAs
<1>2. /\ R \in Seq(Event) /\ Len(Q) \in Nat /\ Len(R) = Len(Q) + 1
      /\ DOMAIN Q = 1..Len(Q) /\ DOMAIN R = 1..(Len(Q) + 1)
      /\ \A i \in 1..Len(Q) : R[i] = Q[i] /\ Q[i] \in Event /\ Q[i].rev \in Nat /\ Q[i].part \in Part
      /\ R[Len(Q) + 1] = m
  BY <1>1, QueueIs
<1>3. sent \in Nat /\ sent' \in Nat /\ sent <= sent' /\ e.rev <= sent'
  BY <1>1, CoreNumbers
<1> HIDE DEF R
<1>4. ASSUME NEW i \in 1..(Len(Q) + 1)
      PROVE  /\ Own(R[i])' /\ R[i].rev <= sent'
             /\ ~R[i].odd => \A j \in 1..(i - 1) : R[j].rev < R[i].rev
  <2>1. CASE i \in 1..Len(Q)
    <3>1. Own(Q[i])' /\ Q[i].rev <= sent'
      BY <1>2, <1>3, <2>1 DEF InTurn
    <3>2. ~Q[i].odd => \A j \in 1..(i - 1) : Q[j].rev < Q[i].rev
      BY <1>2, <2>1 DEF InTurn
    <3>3. Own(R[i])'
      BY <1>2, <2>1, <3>1 DEF R
    <3>4. R[i].rev <= sent'
      BY <1>2, <2>1, <3>1
    <3>5. ~R[i].odd => \A j \in 1..(i - 1) : R[j].rev < R[i].rev
      BY <1>2, <2>1, <3>2
    <3>6. QED
      BY <3>3, <3>4, <3>5
  <2>2. CASE i = Len(Q) + 1
    <3>1. Own(R[i])'
      BY <1>2, <2>2 DEF R
    <3>2. \A j \in 1..Len(Q) : Q[j].rev <= sent
      BY <1>2 DEF InTurn
    <3>3. ~R[i].odd => \A j \in 1..(i - 1) : R[j].rev < R[i].rev
      BY <1>1, <1>2, <1>3, <2>2, <3>2
    <3>4. QED
      BY <1>1, <1>2, <1>3, <2>2, <3>1, <3>3
  <2>3. QED
    BY <2>1, <2>2
<1>5. InTurn(R)'
  BY <1>2, <1>4 DEF InTurn, R
<1>6. QED
  BY <1>5 DEF R

\* The events of the other senders are as new as before.
LEMMA SendMoves ==
    ASSUME SyncTypeOK, CoreInv, NEW t \in Publisher, SendEvent(t),
           NEW Q \in Seq(Event), InTurn(Q), NEW m \in Event, SentAs(sending[t], m)
    PROVE  /\ CoreInv'
           /\ InTurn(Append(Q, m))'
           /\ \A B, w : Good(Q, B, w) => Good(Append(Q, m), B, w)'
<1> DEFINE e == sending[t]
<1> DEFINE R == Append(Q, m)
<1>1. /\ e # Null /\ e \in Event /\ Broadcast(e) /\ sending' = [sending EXCEPT ![t] = Null]
      /\ rev' = rev /\ core' = core /\ changes' = changes
  BY CoreNumbers DEF SendEvent
<1>2. sent' = IF e.rev > sent THEN e.rev ELSE sent
  BY <1>1, BroadcastIs
<1>3. /\ rev \in Nat /\ changes \in Nat /\ sent \in Nat /\ core \in [Part -> Nat]
      /\ sending \in [Publisher -> Event \cup {Null}]
      /\ sent <= rev /\ rev <= changes
      /\ \A q \in Part : At(q) \in 0..rev /\ core[q] = At(q) + Off
      /\ e.rev \in Nat /\ e.part \in Part
  BY <1>1, CoreNumbers, AtIs, EventIs DEF CoreInv
<1>4. Off' = Off /\ (\A q \in Part : At(q)' = At(q)) /\ \A f : Own(f) <=> Own(f)'
  <2>1. Off' = Off
    BY <1>1 DEF Off
  <2>2. \A q \in Part : At(q)' = At(q)
    BY <1>1, <2>1 DEF At
  <2>3. \A f : Own(f) <=> Own(f)'
    <3>1. \A f : At(f.part)' = At(f.part)
      BY <1>1, <2>1 DEF At
    <3>2. QED
      BY <1>1, <2>1, <3>1 DEF Own
  <2>4. QED
    BY <2>1, <2>2, <2>3
<1>5. Own(e) /\ m.rev = e.rev /\ m.value = e.value /\ m.part = e.part /\ (m.odd <=> e.rev # sent + 1)
  BY <1>1 DEF CoreInv, SentAs
<1>6. Own(m) /\ Own(m)'
  <2>1. Own(m)
    BY <1>5 DEF Own
  <2>2. QED
    BY <1>4, <2>1
<1>7. e.rev \in 1..rev /\ sent' <= rev /\ sent <= sent' /\ sent' \in Nat /\ e.rev <= sent'
  BY <1>2, <1>3, <1>5 DEF Own
<1>8. \A q \in Part : e.rev = At(q) => e.part = q
  <2>1. \A q \in Part : core[q] = e.value => q = e.part
    BY <1>5 DEF Own
  <2>2. e.value = e.rev + Off
    BY <1>5 DEF Own
  <2>3. QED
    BY <1>3, <2>1, <2>2
<1>9. \A u \in Publisher : sending'[u] = IF u = t THEN Null ELSE sending[u]
  BY <1>1, <1>3
<1>10. \A q \in Part : ToSend(q) => ToSend(q)' \/ IsNewest(e, q)
  BY <1>4, <1>9 DEF ToSend, IsNewest
<1>11. CoreInv'
  <2>1. \A u \in Publisher : sending'[u] # Null => Own(sending[u])'
    <3> SUFFICES ASSUME NEW u \in Publisher, sending'[u] # Null PROVE Own(sending'[u])
      BY <1>4
    <3>1. QED
      BY <1>9 DEF CoreInv
  <2>2. \A q \in Part : sent' < At(q)' => ToSend(q)'
    <3> SUFFICES ASSUME NEW q \in Part, sent' < At(q) PROVE ToSend(q)'
      BY <1>4
    <3>1. sent < At(q) /\ ~IsNewest(e, q)
      BY <1>3, <1>7 DEF IsNewest
    <3>2. QED
      BY <3>1, <1>10 DEF CoreInv
  <2>3. (rev = 0 \/ \E q \in Part : core[q] = changes) /\ \A q \in Part : core[q] \in Off..changes
    BY DEF CoreInv
  <2>4. QED
    BY <1>1, <1>3, <1>4, <1>7, <2>1, <2>2, <2>3 DEF CoreInv
<1>12. InTurn(R)'
  BY <1>1, <1>2, <1>4, <1>6, LastInTurn
<1>13. ASSUME NEW B, NEW w, Good(Q, B, w) PROVE Good(R, B, w)'
  <2> SUFFICES ASSUME NEW q \in Part
               PROVE  \/ (w = Null \/ w < At(q)') /\ (Ahead(R, q)' \/ Jumped(R, q)')
                      \/ Passed(R, w, q)' /\ B[q] = core'[q]
    BY DEF Good
  <2>1. /\ DOMAIN Q = 1..Len(Q) /\ DOMAIN R = 1..(Len(Q) + 1) /\ Len(Q) \in Nat
        /\ \A i \in 1..Len(Q) : R[i] = Q[i] /\ Q[i] \in Event /\ Q[i].rev \in Nat
        /\ R[Len(Q) + 1] = m
    BY QueueIs
  <2>2. At(q)' = At(q) /\ core'[q] = core[q] /\ At(q) \in Nat
    BY <1>1, <1>3, <1>4
  <2> HIDE DEF R
  <2>3. Jumped(Q, q) => Jumped(R, q)'
    <3> SUFFICES ASSUME NEW i \in 1..Len(Q), Q[i].odd, Q[i].rev > At(q), \A j \in 1..(i - 1) : Q[j].rev < At(q)
                 PROVE  Jumped(R, q)'
      BY <2>1 DEF Jumped
    <3>1. i \in 1..(Len(Q) + 1) /\ R[i].odd /\ R[i].rev > At(q) /\ \A j \in 1..(i - 1) : R[j].rev < At(q)
      BY <2>1
    <3>2. QED
      BY <2>1, <2>2, <3>1 DEF Jumped, R
  <2>4. ASSUME NEW i \in 1..Len(Q), IsNewest(Q[i], q), \A j \in 1..(i - 1) : Q[j].rev < At(q)
        PROVE  Ahead(R, q)'
    <3>1. i \in 1..(Len(Q) + 1) /\ R[i].part = q /\ R[i].rev = At(q) /\ \A j \in 1..(i - 1) : R[j].rev < At(q)
      BY <2>1, <2>4 DEF IsNewest
    <3>2. QED
      BY <2>1, <2>2, <3>1 DEF Ahead, IsNewest, R
  <2>5. ASSUME sent < At(q), ToSend(q) PROVE Ahead(R, q)' \/ Jumped(R, q)'
    <3>1. \A j \in 1..Len(Q) : R[j].rev < At(q)
      BY <1>3, <2>1, <2>2, <2>5 DEF InTurn
    <3>2. CASE IsNewest(e, q)
      <4>1. Len(Q) + 1 \in 1..(Len(Q) + 1) /\ R[Len(Q) + 1].part = q /\ R[Len(Q) + 1].rev = At(q)
            /\ \A j \in 1..((Len(Q) + 1) - 1) : R[j].rev < At(q)
        BY <1>5, <2>1, <3>1, <3>2 DEF IsNewest
      <4>2. QED
        BY <2>1, <2>2, <4>1 DEF Ahead, IsNewest, R
    <3>3. CASE ~IsNewest(e, q) /\ e.rev > At(q)
      <4>1. Len(Q) + 1 \in 1..(Len(Q) + 1) /\ R[Len(Q) + 1].odd /\ R[Len(Q) + 1].rev > At(q)
            /\ \A j \in 1..((Len(Q) + 1) - 1) : R[j].rev < At(q)
        BY <1>3, <1>5, <2>1, <2>2, <2>5, <3>1, <3>3
      <4>2. QED
        BY <2>1, <2>2, <4>1 DEF Jumped, R
    <3>4. CASE ~IsNewest(e, q) /\ e.rev < At(q)
      <4>1. sent' < At(q)' /\ ToSend(q)'
        BY <1>2, <1>3, <1>10, <2>2, <2>5, <3>4
      <4>2. QED
        BY <4>1 DEF Ahead
    <3>5. QED
      BY <1>3, <1>8, <2>2, <3>2, <3>3, <3>4 DEF IsNewest
  <2>6. Passed(Q, w, q) => Passed(R, w, q)'
    <3>1. CASE w # Null
      BY <2>2, <3>1 DEF Passed
    <3>2. CASE w = Null
      <4> SUFFICES ASSUME sent >= At(q), \A i \in 1..Len(Q) : Q[i].odd \/ Q[i].rev > At(q)
                   PROVE  Passed(R, w, q)'
        BY <2>1, <3>2 DEF Passed
      <4>1. sent' >= At(q) /\ \A i \in 1..(Len(Q) + 1) : R[i].odd \/ R[i].rev > At(q)
        <5>1. sent' >= At(q)
          BY <1>3, <1>7, <2>2
        <5>2. R[Len(Q) + 1].odd \/ R[Len(Q) + 1].rev > At(q)
          BY <1>3, <1>5, <2>1, <2>2
        <5>3. \A i \in 1..Len(Q) : R[i].odd \/ R[i].rev > At(q)
          BY <2>1
        <5>4. \A i \in 1..(Len(Q) + 1) : i \in 1..Len(Q) \/ i = Len(Q) + 1
          BY <2>1
        <5>5. QED
          BY <5>1, <5>2, <5>3, <5>4
      <4>2. QED
        BY <2>1, <2>2, <3>2, <4>1 DEF Passed, R
    <3>3. QED
      BY <3>1, <3>2
  <2>7. \/ (w = Null \/ w < At(q)) /\ (Ahead(Q, q) \/ Jumped(Q, q))
        \/ Passed(Q, w, q) /\ B[q] = core[q]
    BY <1>13 DEF Good
  <2>8. Ahead(Q, q) => Ahead(R, q)' \/ Jumped(R, q)'
    BY <2>1, <2>4, <2>5 DEF Ahead
  <2>9. QED
    BY <2>2, <2>3, <2>6, <2>7, <2>8
<1>14. QED
  BY <1>11, <1>12, <1>13

\* apply_live_codec: the new event is sent at once.
LEMMA LiveMoves ==
    ASSUME SyncTypeOK, CoreInv, NEW t \in Publisher, NEW p \in Part, PublishLive(t, p),
           NEW Q \in Seq(Event), InTurn(Q), NEW m \in Event, SentAs(Change(p), m)
    PROVE  /\ CoreInv'
           /\ InTurn(Append(Q, m))'
           /\ \A B, C, w : (/\ Good(Q, B, w) /\ w \in Nat \cup {Null} /\ (w # Null => w <= rev)
                            /\ \A q \in Part : q # p => C[q] = B[q]) => Good(Append(Q, m), C, w)'
<1> DEFINE R == Append(Q, m)
<1>1. Apply(p) /\ sending' = sending /\ Change(p) \in Event /\ Broadcast(Change(p))
  BY ChangeIs DEF PublishLive
<1>2. /\ Off' = Off /\ Off \in Nat /\ At(p)' = rev + 1 /\ rev' = rev + 1
      /\ \A q \in Part : q # p => At(q)' = At(q) /\ core'[q] = core[q]
      /\ core'[p] = changes + 1 /\ changes' = changes + 1
      /\ \A e : (e.part \in Part /\ Own(e)) => Own(e)'
      /\ \A e : (e.part = p /\ e.rev = rev + 1 /\ e.value = changes + 1) => Own(e)'
  BY <1>1, Moved
<1>3. /\ rev \in Nat /\ changes \in Nat /\ sent \in Nat /\ core \in [Part -> Nat]
      /\ sent <= rev /\ rev <= changes /\ changes = rev + Off
      /\ \A q \in Part : At(q) \in 0..rev /\ core[q] = At(q) + Off
  BY CoreNumbers, AtIs DEF CoreInv, Off
<1>4. /\ m.rev = rev + 1 /\ m.value = changes + 1 /\ m.part = p /\ (m.odd <=> rev + 1 # sent + 1)
      /\ sent' = rev + 1 /\ sent' = IF Change(p).rev > sent THEN Change(p).rev ELSE sent
  <2>1. Change(p).rev = rev + 1 /\ Change(p).value = changes + 1 /\ Change(p).part = p
    BY ChangeIs
  <2>2. sent' = IF Change(p).rev > sent THEN Change(p).rev ELSE sent
    BY <1>1, BroadcastIs
  <2>3. sent' = rev + 1
    BY <1>3, <2>1, <2>2
  <2>4. m.rev = rev + 1 /\ m.value = changes + 1 /\ m.part = p /\ (m.odd <=> rev + 1 # sent + 1)
    BY <2>1, Zenon DEF SentAs
  <2>5. QED
    BY <2>2, <2>3, <2>4
<1>5. Own(m)'
  BY <1>2, <1>4
<1>6. InTurn(R)'
  BY <1>1, <1>2, <1>4, <1>5, LastInTurn
<1>7. /\ rev \in Nat /\ sent \in Nat /\ sent <= rev /\ At(p)' = rev + 1 /\ sent' = rev + 1 /\ rev' = rev + 1 /\ m.rev = rev + 1
      /\ changes' = changes + 1 /\ changes = rev + Off /\ Off' = Off /\ Off \in Nat /\ changes \in Nat
      /\ (m.odd <=> rev + 1 # sent + 1)
  BY <1>2, <1>3, <1>4
<1>8. CoreInv'
  <2>1. \A u \in Publisher : sending'[u] # Null => Own(sending[u])'
    <3> SUFFICES ASSUME NEW u \in Publisher, sending[u] # Null PROVE Own(sending[u])'
      BY <1>1
    <3>1. Own(sending[u]) /\ sending[u].part \in Part
      BY CoreNumbers, EventIs DEF CoreInv
    <3>2. \E e : e = sending'[u] /\ Own(e)'
      BY <1>1, <1>2, <3>1
    <3>3. QED
      BY <3>2 DEF Own
  <2>2. ASSUME NEW q \in Part PROVE ~ (sent' < At(q)') /\ core'[q] \in Off'..changes'
    <3>1. At(q) \in 0..rev /\ core[q] = At(q) + Off
      BY <1>3
    <3>2. CASE q = p
      <4>1. At(q)' = rev + 1 /\ core'[q] = changes + 1
        BY <1>2, <3>2
      <4>2. QED
        BY <1>7, <4>1
    <3>3. CASE q # p
      <4>1. At(q)' = At(q) /\ core'[q] = core[q]
        BY <1>2, <3>3
      <4>2. QED
        BY <1>7, <3>1, <4>1
    <3>4. QED
      BY <3>2, <3>3
  <2>3. \A q \in Part : ~ (sent' < At(q)') /\ core'[q] \in Off'..changes'
    BY <2>2
  <2>4. \E q \in Part : core'[q] = changes'
    BY <1>2
  <2>5. sent' <= rev' /\ rev' <= changes'
    BY <1>7
  <2>6. QED
    BY <2>1, <2>3, <2>4, <2>5 DEF CoreInv
<1>9. ASSUME NEW B, NEW C, NEW w, Good(Q, B, w), w \in Nat \cup {Null}, w # Null => w <= rev,
             \A q \in Part : q # p => C[q] = B[q]
      PROVE  Good(R, C, w)'
  <2> SUFFICES ASSUME NEW q \in Part
               PROVE  \/ (w = Null \/ w < At(q)') /\ (Ahead(R, q)' \/ Jumped(R, q)')
                      \/ Passed(R, w, q)' /\ C[q] = core'[q]
    BY DEF Good
  <2>1. /\ DOMAIN Q = 1..Len(Q) /\ DOMAIN R = 1..(Len(Q) + 1) /\ Len(Q) \in Nat
        /\ \A i \in 1..Len(Q) : R[i] = Q[i] /\ Q[i] \in Event /\ Q[i].rev \in Nat /\ Q[i].rev <= sent
        /\ R[Len(Q) + 1] = m
    BY QueueIs DEF InTurn
  <2> HIDE DEF R
  <2>2. CASE q = p
    <3>1. \A j \in 1..((Len(Q) + 1) - 1) : R[j].rev < rev + 1
      <4>1. \A j \in 1..((Len(Q) + 1) - 1) : j \in 1..Len(Q)
        BY <2>1
      <4>2. QED
        BY <1>7, <2>1, <4>1
    <3>2. Ahead(R, p)'
      BY <1>2, <1>4, <2>1, <3>1 DEF Ahead, IsNewest, R
    <3>3. w = Null \/ w < At(p)'
      BY <1>7, <1>9
    <3>4. QED
      BY <2>2, <3>2, <3>3
  <2>3. CASE q # p
    <3>1. At(q)' = At(q) /\ core'[q] = core[q] /\ C[q] = B[q] /\ At(q) \in Nat /\ At(q) <= rev
      <4>1. At(q)' = At(q) /\ core'[q] = core[q]
        BY <1>2, <2>3
      <4>2. At(q) \in 0..rev
        BY <1>3
      <4>3. C[q] = B[q]
        BY <1>9, <2>3
      <4>4. QED
        BY <1>7, <4>1, <4>2, <4>3
    <3>2. Jumped(Q, q) => Jumped(R, q)'
      <4> SUFFICES ASSUME NEW i \in 1..Len(Q), Q[i].odd, Q[i].rev > At(q), \A j \in 1..(i - 1) : Q[j].rev < At(q)
                   PROVE  Jumped(R, q)'
        BY <2>1 DEF Jumped
      <4>1. i \in 1..(Len(Q) + 1) /\ R[i].odd /\ R[i].rev > At(q) /\ \A j \in 1..(i - 1) : R[j].rev < At(q)
        BY <2>1
      <4>2. QED
        BY <2>1, <3>1, <4>1 DEF Jumped, R
    <3>3. ASSUME NEW i \in 1..Len(Q), IsNewest(Q[i], q), \A j \in 1..(i - 1) : Q[j].rev < At(q)
          PROVE  Ahead(R, q)'
      <4>1. i \in 1..(Len(Q) + 1) /\ R[i].part = q /\ R[i].rev = At(q) /\ \A j \in 1..(i - 1) : R[j].rev < At(q)
        BY <2>1, <3>3 DEF IsNewest
      <4>2. QED
        BY <2>1, <3>1, <4>1 DEF Ahead, IsNewest, R
    <3>4. ASSUME sent < At(q) PROVE Jumped(R, q)'
      <4>1. Len(Q) + 1 \in 1..(Len(Q) + 1) /\ R[Len(Q) + 1].rev > At(q)
            /\ \A j \in 1..((Len(Q) + 1) - 1) : R[j].rev < At(q)
        <5>1. R[Len(Q) + 1].rev = rev + 1 /\ Len(Q) + 1 \in 1..(Len(Q) + 1)
          BY <1>7, <2>1
        <5>2. ASSUME NEW j \in 1..((Len(Q) + 1) - 1) PROVE R[j].rev < At(q)
          <6>1. j \in 1..Len(Q)
            BY <2>1
          <6>2. R[j].rev \in Nat /\ R[j].rev <= sent
            BY <2>1, <6>1
          <6>3. QED
            BY <1>7, <3>1, <3>4, <6>2
        <5>3. QED
          BY <1>7, <3>1, <5>1, <5>2
      <4>2. R[Len(Q) + 1].odd
        BY <1>7, <2>1, <3>1, <3>4
      <4>3. QED
        BY <2>1, <3>1, <4>1, <4>2 DEF Jumped, R
    <3>5. Ahead(Q, q) => Ahead(R, q)' \/ Jumped(R, q)'
      BY <2>1, <3>3, <3>4 DEF Ahead
    <3>6. Passed(Q, w, q) => Passed(R, w, q)'
      <4>1. CASE w # Null
        BY <3>1, <4>1 DEF Passed
      <4>2. CASE w = Null
        <5> SUFFICES ASSUME \A i \in 1..Len(Q) : Q[i].odd \/ Q[i].rev > At(q)
                     PROVE  Passed(R, w, q)'
          BY <2>1, <4>2 DEF Passed
        <5>1. sent' >= At(q) /\ R[Len(Q) + 1].rev > At(q)
          BY <1>3, <1>4, <2>1, <3>1
        <5>2. \A i \in 1..(Len(Q) + 1) : i \in 1..Len(Q) \/ i = Len(Q) + 1
          BY <2>1
        <5>3. \A i \in 1..(Len(Q) + 1) : R[i].odd \/ R[i].rev > At(q)
          BY <2>1, <5>1, <5>2
        <5>4. QED
          BY <2>1, <3>1, <4>2, <5>1, <5>3 DEF Passed, R
      <4>3. QED
        BY <4>1, <4>2
    <3>7. \/ (w = Null \/ w < At(q)) /\ (Ahead(Q, q) \/ Jumped(Q, q))
          \/ Passed(Q, w, q) /\ B[q] = core[q]
      BY <1>9 DEF Good
    <3>8. QED
      BY <3>1, <3>2, <3>5, <3>6, <3>7
  <2>4. QED
    BY <2>2, <2>3
<1>10. QED
  BY <1>6, <1>8, <1>9

-----------------------------------------------------------------------------
(* Replayed events                                                         *)

LEMMA ReplayIs ==
    ASSUME NEW B \in Parts, NEW events \in Seq(Event), NEW places, places \subseteq DOMAIN events
    PROVE  Replay(B, events, places) \in Parts
<1> SUFFICES ASSUME NEW p \in Part PROVE Replay(B, events, places)[p] \in Nat
  BY DEF Replay, Parts
<1> DEFINE of == {i \in places : events[i].part = p}
<1>1. of \subseteq 1..Len(events) /\ Len(events) \in Nat
  BY LenProperties
<1>2. of # {} => LastOf(of) \in 1..Len(events)
  <2> HIDE DEF of
  <2>1. QED
    BY <1>1, LastIs
<1>3. of # {} => events[LastOf(of)].value \in Nat
  <2> HIDE DEF of
  <2>1. QED
    BY <1>2, ElementOfSeq, EventIs
<1>4. Replay(B, events, places)[p] = IF of = {} THEN B[p] ELSE events[LastOf(of)].value
  BY DEF Replay
<1>5. B[p] \in Nat
  BY DEF Parts
<1>6. QED
  BY <1>3, <1>4, <1>5

\* A part that is the same in two states is so after the same events.
LEMMA ReplaySame ==
    ASSUME NEW B, NEW C, NEW events, NEW places, NEW p \in Part, B[p] = C[p]
    PROVE  Replay(B, events, places)[p] = Replay(C, events, places)[p]
BY DEF Replay

LEMMA ReplayNone ==
    ASSUME NEW B, NEW events, NEW p \in Part
    PROVE  Replay(B, events, {})[p] = B[p]
BY DEF Replay

LEMMA ReplayMore ==
    ASSUME NEW B, NEW events \in Seq(Event), NEW e \in Event, NEW p \in Part
    PROVE  Replay(B, Append(events, e), 1..(Len(events) + 1))[p] =
               IF p = e.part THEN e.value ELSE Replay(B, events, 1..Len(events))[p]
<1> DEFINE n == Len(events)
<1> DEFINE E == Append(events, e)
<1> DEFINE of == {i \in 1..(n + 1) : E[i].part = p}
<1> DEFINE old == {i \in 1..n : events[i].part = p}
<1>1. n \in Nat /\ E[n + 1] = e /\ \A i \in 1..n : E[i] = events[i]
  BY LenProperties, AppendProperties
<1>2. /\ Replay(B, E, 1..(n + 1))[p] = IF of = {} THEN B[p] ELSE E[LastOf(of)].value
      /\ Replay(B, events, 1..n)[p] = IF old = {} THEN B[p] ELSE events[LastOf(old)].value
  BY DEF Replay
<1> HIDE DEF n, E
<1>3. CASE p = e.part
  <2>1. of \subseteq Nat /\ n + 1 \in of /\ \A j \in of : j <= n + 1
    BY <1>1, <1>3
  <2>2. LastOf(of) = n + 1
    <3> HIDE DEF of
    <3>1. QED
      BY <2>1, LastIsThat
  <2>3. QED
    BY <1>1, <1>2, <1>3, <2>1, <2>2 DEF n, E
<1>4. CASE p # e.part
  <2>1. of = old
    BY <1>1, <1>4
  <2>2. old # {} => LastOf(old) \in 1..n
    <3>1. old \subseteq 1..n
      OBVIOUS
    <3>2. QED
      <4> HIDE DEF old
      <4>1. QED
        BY <1>1, <3>1, LastIs
  <2>3. QED
    <3> HIDE DEF of, old
    <3>1. QED
      BY <1>1, <1>2, <1>4, <2>1, <2>2 DEF n, E
<1>5. QED
  BY <1>3, <1>4

-----------------------------------------------------------------------------
(* Types                                                                   *)

LEMMA MessageIs ==
    ASSUME NEW m \in Message
    PROVE  /\ m.type = "event" => m \in Event
           /\ m.type = "snapshot" => m.rev \in Nat /\ m.state \in Parts
           /\ m.type \in {"event", "snapshot", "welcome", "bye", "broken"}
BY DEF Message, Event

LEMMA MessagesAre ==
    /\ SyncTypeOK => Snapshot \in Message /\ Snapshot.type = "snapshot" /\ Snapshot.rev = rev /\ Snapshot.state = core
    /\ \A type \in {"welcome", "bye", "broken"} : [type |-> type] \in Message /\ [type |-> type].type = type
    /\ Event \subseteq Message
BY DEF Message, Snapshot, SyncTypeOK

LEMMA BrokenIs ==
    ASSUME SyncTypeOK,
           NEW last, last = <<[type |-> "broken"]>> \/ last = <<[type |-> "bye"], [type |-> "broken"]>>,
           NEW n \in 0..Len(pipe)
    PROVE  SubSeq(pipe, 1, n) \o last \in Seq(Message)
<1>1. pipe \in Seq(Message) /\ Len(pipe) \in Nat
  BY LenProperties DEF SyncTypeOK
<1>2. \A i \in 1..n : pipe[i] \in Message
  BY <1>1, ElementOfSeq
<1>3. SubSeq(pipe, 1, n) \in Seq(Message)
  BY <1>1, <1>2, SubSeqProperties
<1>4. last \in Seq(Message)
  <2>1. [type |-> "broken"] \in Message /\ [type |-> "bye"] \in Message
    BY MessagesAre
  <2> DEFINE broken == [type |-> "broken"]
  <2> DEFINE bye == [type |-> "bye"]
  <2> HIDE DEF broken, bye
  <2>2. <<broken>> \in Seq(Message) /\ <<bye, broken>> \in Seq(Message)
    <3>1. broken \in Message /\ bye \in Message
      BY <2>1 DEF broken, bye
    <3>2. QED
      BY <3>1
  <2>3. last = <<broken>> \/ last = <<bye, broken>>
    BY DEF broken, bye
  <2>4. QED
    BY <2>2, <2>3
<1>5. QED
  BY <1>3, <1>4, ConcatProperties

LEMMA AskTypes ==
    ASSUME SyncTypeOK, NEW events \in Seq(Event), Ask(events), wrev' \in Nat \cup {Null}
    PROVE  /\ pending' \in Waiting \cup {Null} /\ (pending' # Null => pending'.id <= lastAsk')
           /\ lastAsk' \in 0..MaxAsk
           /\ \A a \in asks' : a.id \in 1..lastAsk' /\ a.answer \in {"awaited", "failed", "taken"}
                       /\ IF a.answer = "taken" THEN a.state \in Parts ELSE a.state = Null
<1>1. lastAsk \in Nat /\ MaxAsk \in Nat /\ lastAsk < MaxAsk /\ lastAsk' = lastAsk + 1 /\ wrev \in Nat \cup {Null}
  BY SyncBounds DEF Ask, SyncTypeOK
<1>2. pending' = [id |-> lastAsk + 1, from |-> wrev, events |-> events] /\ pending' \in Waiting
  BY <1>1 DEF Ask, Waiting
<1>3. PICK answer \in {"awaited", "failed"} :
          asks' = asks \cup {[id |-> lastAsk + 1, answer |-> answer, state |-> Null]}
  BY DEF Ask
<1>4. \A a \in asks : a.id \in 1..lastAsk /\ a.answer \in {"awaited", "failed", "taken"}
                       /\ IF a.answer = "taken" THEN a.state \in Parts ELSE a.state = Null
  BY DEF SyncTypeOK
<1>5. QED
  BY <1>1, <1>2, <1>3, <1>4

LEMMA BroadcastTypes ==
    ASSUME SyncTypeOK, NEW e \in Event, Broadcast(e)
    PROVE  sent' \in Nat /\ chan' \in Seq(Event) /\ Len(chan') <= Capacity /\ lagged' \in BOOLEAN
<1>1. PICK m \in Event : /\ SentAs(e, m)
                         /\ IF server \in {"down", "welcome"} THEN UNCHANGED <<chan, lagged>>
                            ELSE IF Len(chan) < Capacity THEN chan' = Append(chan, m) /\ lagged' = lagged
                            ELSE chan' = Append(Tail(chan), m) /\ lagged' = TRUE
  BY BroadcastIs
<1>2. sent' \in Nat
  <2>1. sent' = IF e.rev > sent THEN e.rev ELSE sent
    BY BroadcastIs
  <2>2. QED
    BY <2>1, EventIs, CoreNumbers
<1>3. chan \in Seq(Event) /\ Len(chan) \in Nat /\ Len(chan) <= Capacity /\ Capacity \in Nat \ {0} /\ lagged \in BOOLEAN
  BY SizesType, LenProperties DEF SyncTypeOK
<1>4. CASE server \in {"down", "welcome"}
  BY <1>1, <1>2, <1>3, <1>4
<1>5. CASE server \notin {"down", "welcome"} /\ Len(chan) < Capacity
  BY <1>1, <1>2, <1>3, <1>5, AppendProperties
<1>6. CASE server \notin {"down", "welcome"} /\ ~ (Len(chan) < Capacity)
  <2>1. chan # <<>> /\ Len(chan) = Capacity
    BY <1>3, <1>6, EmptySeq
  <2>2. Tail(chan) \in Seq(Event) /\ Len(Tail(chan)) = Len(chan) - 1
    BY <1>3, <2>1, HeadTailProperties
  <2>3. QED
    BY <1>1, <1>2, <1>3, <1>6, <2>1, <2>2, AppendProperties
<1>7. QED
  BY <1>4, <1>5, <1>6

LEMMA NoEvents == <<>> \in Seq(Event) /\ Len(<<>>) = 0 /\ Len(<<>>) <= Capacity
<1>1. <<>> \in Seq(Event) /\ Len(<<>>) = 0
  BY EmptySeq
<1>2. QED
  BY <1>1, SizesType

LEMMA TypesCore ==
    ASSUME SyncTypeOK, CoreStep
    PROVE  SyncTypeOK'
<1>1. ASSUME NEW t \in Publisher, SendEvent(t) PROVE SyncTypeOK'
  <2>1. sent' \in Nat /\ chan' \in Seq(Event) /\ Len(chan') <= Capacity /\ lagged' \in BOOLEAN
    BY <1>1, BroadcastTypes, CoreNumbers DEF SendEvent
  <2>2. QED
    BY <1>1, <2>1 DEF SyncTypeOK, SendEvent, winVars
<1>2. ASSUME NEW t \in Publisher, NEW p \in Part, Publish(t, p) PROVE SyncTypeOK'
  BY <1>2, ChangeIs DEF SyncTypeOK, Publish, Apply, winVars, serverVars, Parts
<1>3. ASSUME NEW t \in Publisher, NEW p \in Part, PublishLive(t, p) PROVE SyncTypeOK'
  <2>1. sent' \in Nat /\ chan' \in Seq(Event) /\ Len(chan') <= Capacity /\ lagged' \in BOOLEAN
    BY <1>3, BroadcastTypes, ChangeIs DEF PublishLive
  <2>2. QED
    BY <1>3, <2>1 DEF SyncTypeOK, PublishLive, Apply, winVars, Parts
<1>4. QED
  BY <1>1, <1>2, <1>3 DEF CoreStep

LEMMA TypesServer ==
    ASSUME SyncTypeOK, ServerStep \/ BreakPipe \/ RestartCore
    PROVE  SyncTypeOK'
<1>1. CASE Accept
  BY <1>1, MessagesAre, AppendProperties DEF SyncTypeOK, Accept, Write, coreVars, winVars
<1>2. CASE Subscribe
  BY <1>2, NoEvents DEF SyncTypeOK, Subscribe, coreVars, winVars
<1>3. CASE FirstSnapshot
  BY <1>3, MessagesAre, AppendProperties DEF SyncTypeOK, FirstSnapshot, Write, coreVars, winVars
<1>4. CASE Forward
  <2>1. chan \in Seq(Event) /\ chan # <<>>
    BY <1>4 DEF SyncTypeOK, Forward
  <2>2. Head(chan) \in Message /\ Tail(chan) \in Seq(Event) /\ Len(Tail(chan)) = Len(chan) - 1 /\ Len(chan) \in Nat
    BY <2>1, HeadTailProperties, LenProperties, MessagesAre
  <2>3. QED
    BY <1>4, <2>2, SizesType DEF SyncTypeOK, Forward, Write, coreVars, winVars
<1>5. CASE Lagged
  BY <1>5, MessagesAre, AppendProperties DEF SyncTypeOK, Lagged, Write, coreVars, winVars
<1>6. ASSUME NEW a \in asks, TakeSnapshot(a) PROVE SyncTypeOK'
  <2>1. core \in Parts
    BY DEF SyncTypeOK
  <2>2. \A b \in asks' : b.id \in 1..lastAsk /\ b.answer \in {"awaited", "failed", "taken"}
                       /\ IF b.answer = "taken" THEN b.state \in Parts ELSE b.state = Null
    <3> SUFFICES ASSUME NEW b \in asks'
                 PROVE  b.id \in 1..lastAsk /\ b.answer \in {"awaited", "failed", "taken"}
                       /\ IF b.answer = "taken" THEN b.state \in Parts ELSE b.state = Null
      OBVIOUS
    <3>1. CASE b \in asks
      BY <3>1 DEF SyncTypeOK
    <3>2. CASE b = [a EXCEPT !.answer = "taken", !.state = core]
      BY <2>1, <3>2 DEF SyncTypeOK
    <3>3. QED
      BY <1>6, <3>1, <3>2 DEF TakeSnapshot
  <2>3. QED
    BY <1>6, <2>2 DEF SyncTypeOK, TakeSnapshot, coreVars, serverVars, winVars
<1>7. ASSUME NEW last, last = <<[type |-> "broken"]>> \/ last = <<[type |-> "bye"], [type |-> "broken"]>>, Break(last),
             rev' \in Nat /\ changes' \in Nat /\ sent' \in Nat /\ core' \in Parts,
             sending' \in [Publisher -> Event \cup {Null}]
      PROVE  SyncTypeOK'
  <2>1. pipe' \in Seq(Message)
    BY <1>7, BrokenIs DEF Break
  <2>2. \A b \in asks' : b.id \in 1..lastAsk /\ b.answer \in {"awaited", "failed", "taken"}
                       /\ IF b.answer = "taken" THEN b.state \in Parts ELSE b.state = Null
    <3>1. PICK kept \in SUBSET {a \in asks : a.answer # "awaited"} : asks' = Failed(kept)
      BY <1>7 DEF Break
    <3> SUFFICES ASSUME NEW b \in asks'
                 PROVE  b.id \in 1..lastAsk /\ b.answer \in {"awaited", "failed", "taken"}
                       /\ IF b.answer = "taken" THEN b.state \in Parts ELSE b.state = Null
      OBVIOUS
    <3>2. CASE b \in kept
      BY <3>2 DEF SyncTypeOK
    <3>3. ASSUME NEW a \in asks, b = [a EXCEPT !.answer = "failed", !.state = Null]
          PROVE  b.id \in 1..lastAsk /\ b.answer = "failed" /\ b.state = Null
      BY <3>3 DEF SyncTypeOK
    <3>4. QED
      BY <3>1, <3>2, <3>3 DEF Failed
  <2>3. /\ server' = "down" /\ chan' = <<>> /\ lagged' = FALSE /\ breaks' = breaks + 1
        /\ status' = status /\ lastAsk' = lastAsk
        /\ window' = window /\ read' = read /\ conn' = conn /\ wrev' = wrev /\ snap' = snap
        /\ pending' = pending /\ late' = late
    BY <1>7 DEF Break, winVars
  <2>4. chan' \in Seq(Event) /\ Len(chan') <= Capacity
    BY <2>3, NoEvents
  <2>5. QED
    <3>1. /\ server' \in {"down", "welcome", "subscribed", "up"} /\ lagged' \in BOOLEAN
          /\ status' \in BOOLEAN /\ conn' \in BOOLEAN /\ late' \in BOOLEAN
          /\ window' \in {"closed", "listening", "open"} /\ read' \in BOOLEAN \cup {Null}
      BY <2>3 DEF SyncTypeOK
    <3>2. /\ wrev' \in Nat \cup {Null} /\ snap' \in Parts \cup {Null}
          /\ pending' \in Waiting \cup {Null} /\ (pending' # Null => pending'.id <= lastAsk')
          /\ lastAsk' \in 0..MaxAsk /\ breaks' \in Nat
      BY <2>3 DEF SyncTypeOK
    <3>3. \A b \in asks' : b.id \in 1..lastAsk' /\ b.answer \in {"awaited", "failed", "taken"}
                       /\ IF b.answer = "taken" THEN b.state \in Parts ELSE b.state = Null
      BY <2>2, <2>3
    <3>4. QED
      BY <1>7, <2>1, <2>4, <3>1, <3>2, <3>3 DEF SyncTypeOK
<1>8. CASE BreakPipe
  BY <1>7, <1>8 DEF BreakPipe, coreVars, SyncTypeOK
<1>9. CASE RestartCore
  <2>1. rev' \in Nat /\ changes' \in Nat /\ sent' \in Nat /\ core' \in Parts /\ sending' \in [Publisher -> Event \cup {Null}]
    BY <1>9, CoreNumbers DEF RestartCore, Parts
  <2>2. QED
    BY <1>7, <1>9, <2>1 DEF RestartCore
<1>10. QED
  BY <1>1, <1>2, <1>3, <1>4, <1>5, <1>6, <1>8, <1>9 DEF ServerStep

\* What the handlers of the window do to its request
LEMMA ResyncTypes ==
    ASSUME SyncTypeOK, Resync, wrev' \in Nat \cup {Null}
    PROVE  /\ pending' \in Waiting \cup {Null} /\ (pending' # Null => pending'.id <= lastAsk')
           /\ lastAsk' \in 0..MaxAsk
           /\ \A a \in asks' : a.id \in 1..lastAsk' /\ a.answer \in {"awaited", "failed", "taken"}
                       /\ IF a.answer = "taken" THEN a.state \in Parts ELSE a.state = Null
<1>1. CASE pending # Null
  BY <1>1 DEF Resync, SyncTypeOK
<1>2. CASE pending = Null
  <2>1. Ask(<<>>) /\ <<>> \in Seq(Event)
    BY <1>2, EmptySeq DEF Resync
  <2>2. QED
    BY <2>1, AskTypes
<1>3. QED
  BY <1>1, <1>2

LEMMA ConnectedTypes ==
    ASSUME SyncTypeOK, OnConnected, wrev' \in Nat \cup {Null}
    PROVE  /\ conn' \in BOOLEAN
           /\ pending' \in Waiting \cup {Null} /\ (pending' # Null => pending'.id <= lastAsk')
           /\ lastAsk' \in 0..MaxAsk
           /\ \A a \in asks' : a.id \in 1..lastAsk' /\ a.answer \in {"awaited", "failed", "taken"}
                       /\ IF a.answer = "taken" THEN a.state \in Parts ELSE a.state = Null
<1>1. conn' = TRUE
  BY DEF OnConnected
<1>2. CASE conn
  BY <1>1, <1>2 DEF OnConnected, SyncTypeOK
<1>3. CASE ~conn
  BY <1>1, <1>3, ResyncTypes DEF OnConnected
<1>4. QED
  BY <1>2, <1>3

LEMMA PipeIs ==
    ASSUME SyncTypeOK, pipe # <<>>
    PROVE  Head(pipe) \in Message /\ Tail(pipe) \in Seq(Message)
BY HeadTailProperties DEF SyncTypeOK

LEMMA WaitingIs ==
    ASSUME SyncTypeOK, pending # Null
    PROVE  /\ pending.id \in 1..MaxAsk /\ pending.from \in Nat \cup {Null} /\ pending.events \in Seq(Event)
           /\ pending.id <= lastAsk
           /\ Len(pending.events) \in Nat /\ DOMAIN pending.events = 1..Len(pending.events)
           /\ \A i \in 1..Len(pending.events) : pending.events[i] \in Event /\ pending.events[i].rev \in Nat
<1>1. pending \in Waiting /\ pending.id <= lastAsk
  BY DEF SyncTypeOK
<1>2. pending.id \in 1..MaxAsk /\ pending.from \in Nat \cup {Null} /\ pending.events \in Seq(Event)
  BY <1>1 DEF Waiting
<1>3. QED
  BY <1>1, <1>2, LenProperties, ElementOfSeq, EventIs

LEMMA KeepTypes ==
    ASSUME SyncTypeOK, NEW e \in Event, Keep(e), wrev' \in Nat \cup {Null}
    PROVE  /\ pending' \in Waiting \cup {Null} /\ (pending' # Null => pending'.id <= lastAsk')
           /\ lastAsk' \in 0..MaxAsk
           /\ \A a \in asks' : a.id \in 1..lastAsk' /\ a.answer \in {"awaited", "failed", "taken"}
                       /\ IF a.answer = "taken" THEN a.state \in Parts ELSE a.state = Null
<1>1. CASE pending # Null
  <2>1. pending' = [pending EXCEPT !.events = Append(@, e)] /\ asks' = asks /\ lastAsk' = lastAsk
    BY <1>1 DEF Keep
  <2>2. pending' = [pending EXCEPT !.events = Append(pending.events, e)]
    BY <2>1
  <2>3. pending \in Waiting /\ Append(pending.events, e) \in Seq(Event) /\ pending.id <= lastAsk
    BY <1>1, WaitingIs, AppendProperties DEF SyncTypeOK
  <2>4. pending' \in Waiting /\ pending'.id <= lastAsk'
    BY <2>1, <2>2, <2>3 DEF Waiting
  <2>5. QED
    BY <2>1, <2>4 DEF SyncTypeOK
<1>2. CASE pending = Null /\ Gap(e)
  <2>1. Ask(<<e>>) /\ <<e>> \in Seq(Event)
    BY <1>2 DEF Keep
  <2>2. QED
    BY <2>1, AskTypes
<1>3. CASE pending = Null /\ ~Gap(e)
  BY <1>3 DEF Keep, SyncTypeOK
<1>4. QED
  BY <1>1, <1>2, <1>3

LEMMA TypesWindow ==
    ASSUME SyncTypeOK, WindowStep
    PROVE  SyncTypeOK'
<1>1. CASE OpenWindow \/ CloseWindow
  BY <1>1 DEF SyncTypeOK, OpenWindow, CloseWindow, coreVars, serverVars
<1>2. CASE ReadStatus
  <2>1. \A n \in 0..Len(pipe) : StatusAfter(n) \in BOOLEAN
    <3> SUFFICES ASSUME NEW n \in 0..Len(pipe) PROVE StatusAfter(n) \in BOOLEAN
      OBVIOUS
    <3>1. \A x, y : (x = y) \in BOOLEAN
      OBVIOUS
    <3>2. status \in BOOLEAN
      BY DEF SyncTypeOK
    <3>3. QED
      BY <3>1, <3>2, Zenon DEF StatusAfter
  <2>2. QED
    BY <1>2, <2>1 DEF SyncTypeOK, ReadStatus, coreVars, serverVars
<1>3. CASE OnStatus
  <2>1. wrev' \in Nat \cup {Null}
    BY <1>3 DEF OnStatus, SyncTypeOK
  <2>2. CASE read
    <3>1. OnConnected
      BY <1>3, <2>2 DEF OnStatus
    <3>2. QED
      BY <1>3, <2>1, <3>1, ConnectedTypes DEF OnStatus, SyncTypeOK, coreVars, serverVars
  <2>3. CASE ~read
    BY <1>3, <2>3 DEF OnStatus, SyncTypeOK, coreVars, serverVars
  <2>4. QED
    BY <2>2, <2>3
<1>4. CASE Unheard
  <2>1. status' \in BOOLEAN
    BY <1>4 DEF Unheard, SyncTypeOK
  <2>2. QED
    BY <1>4, <2>1, PipeIs DEF Unheard, SyncTypeOK, coreVars, serverVars, winVars
<1>5. CASE OnWelcome
  <2>1. wrev' \in Nat \cup {Null} /\ OnConnected
    BY <1>5 DEF OnWelcome, SyncTypeOK
  <2>2. QED
    BY <1>5, <2>1, PipeIs, ConnectedTypes DEF OnWelcome, Receive, SyncTypeOK, coreVars, serverVars
<1>6. CASE OnBroken \/ OnBye
  <2>1. Tail(pipe) \in Seq(Message)
    BY <1>6, PipeIs DEF OnBroken, OnBye, Receive
  <2>2. CASE OnBroken
    BY <2>1, <2>2 DEF OnBroken, Receive, SyncTypeOK, coreVars, serverVars
  <2>3. CASE OnBye
    BY <2>1, <2>3 DEF OnBye, Receive, SyncTypeOK, coreVars, serverVars
  <2>4. QED
    BY <1>6, <2>2, <2>3
<1>7. CASE OnSnapshot
  <2>1. Head(pipe).rev \in Nat /\ Head(pipe).state \in Parts /\ Tail(pipe) \in Seq(Message)
    BY <1>7, PipeIs, MessageIs DEF OnSnapshot, Receive
  <2>2. QED
    BY <1>7, <2>1 DEF OnSnapshot, Receive, SyncTypeOK, coreVars, serverVars
<1>8. CASE DropEvent
  <2>1. Head(pipe) \in Event /\ Tail(pipe) \in Seq(Message)
    BY <1>8, PipeIs, MessageIs DEF DropEvent, Receive
  <2>2. late' \in BOOLEAN
    BY <1>8, Zenon DEF DropEvent, Judge
  <2>3. QED
    BY <1>8, <2>1, <2>2 DEF DropEvent, Receive, SyncTypeOK, coreVars, serverVars
<1>9. CASE ApplyEvent
  <2>1. Head(pipe) \in Event /\ Tail(pipe) \in Seq(Message)
    BY <1>9, PipeIs, MessageIs DEF ApplyEvent, Receive
  <2>2. late' \in BOOLEAN
    BY <1>9, Zenon DEF ApplyEvent, Judge
  <2>3. wrev' \in Nat \cup {Null} /\ snap' \in Parts \cup {Null}
    <3>1. Head(pipe).rev \in Nat /\ Head(pipe).value \in Nat
      BY <2>1, EventIs
    <3>2. QED
      BY <1>9, <3>1 DEF ApplyEvent, SyncTypeOK, Parts
  <2>4. Keep(Head(pipe))
    BY <1>9 DEF ApplyEvent
  <2>5. QED
    BY <1>9, <2>1, <2>2, <2>3, <2>4, KeepTypes DEF ApplyEvent, Receive, SyncTypeOK, coreVars, serverVars
<1>10. ASSUME NEW a \in asks, OnAnswer(a) PROVE SyncTypeOK'
  <2>1. wrev' \in Nat \cup {Null} /\ snap' \in Parts \cup {Null} /\ pending' \in {pending, Null}
    <3>1. CASE pending = Null \/ pending.id # a.id \/ a.answer = "failed"
      BY <1>10, <3>1 DEF OnAnswer, SyncTypeOK
    <3>2. CASE pending # Null /\ pending.id = a.id /\ a.answer # "failed"
      <4>1. a.state \in Parts
        BY <1>10, <3>2 DEF OnAnswer, SyncTypeOK
      <4> DEFINE since == {i \in DOMAIN pending.events : pending.from = Null \/ pending.events[i].rev > pending.from}
      <4>2. pending' = Null /\ snap' = Replay(a.state, pending.events, since)
            /\ wrev' = IF since = {} THEN pending.from ELSE pending.events[LastOf(since)].rev
        BY <1>10, <3>2 DEF OnAnswer
      <4>3. since \subseteq 1..Len(pending.events)
        BY <3>2, WaitingIs
      <4> HIDE DEF since
      <4>4. since # {} => LastOf(since) \in 1..Len(pending.events)
        BY <3>2, <4>3, WaitingIs, LastIs
      <4>5. snap' \in Parts
        BY <3>2, <4>1, <4>2, <4>3, WaitingIs, ReplayIs
      <4>6. wrev' \in Nat \cup {Null}
        BY <3>2, <4>2, <4>4, WaitingIs
      <4>7. QED
        BY <4>2, <4>5, <4>6
    <3>3. QED
      BY <3>1, <3>2
  <2>2. asks' = asks \ {a}
    BY <1>10 DEF OnAnswer
  <2>3. QED
    BY <1>10, <2>1, <2>2 DEF OnAnswer, SyncTypeOK, coreVars, serverVars
<1>11. QED
  BY <1>1, <1>2, <1>3, <1>4, <1>5, <1>6, <1>7, <1>8, <1>9, <1>10 DEF WindowStep

-----------------------------------------------------------------------------
(* The events on their way, as the messages move                           *)

LEMMA FlightIs ==
    ASSUME SyncTypeOK, ServerInv
    PROVE  /\ chan \in Seq(Event) /\ Len(chan) \in Nat
           /\ server = "up" => Live(pipe) \in Seq(Event) /\ Len(Live(pipe)) \in Nat
           /\ Flight \in Seq(Event)
<1>1. chan \in Seq(Event) /\ Len(chan) \in Nat /\ pipe \in Seq(Message)
  BY LenProperties DEF SyncTypeOK
<1>2. ASSUME server = "up" PROVE Live(pipe) \in Seq(Event)
  <2>1. Cut(pipe) + 1 \in Int /\ Len(pipe) \in Int /\ Cut(pipe) \in 0..Len(pipe)
    BY <1>1, CutIs, LenProperties
  <2>2. \A i \in (Cut(pipe) + 1)..Len(pipe) : pipe[i] \in Event
    <3> SUFFICES ASSUME NEW i \in (Cut(pipe) + 1)..Len(pipe) PROVE pipe[i] \in Event
      OBVIOUS
    <3>1. i \in 1..Len(pipe) /\ pipe[i].type = "event"
      BY <1>2, <2>1 DEF ServerInv
    <3>2. QED
      BY <1>1, <3>1, ElementOfSeq, MessageIs
  <2>3. QED
    BY <2>1, <2>2, SubSeqProperties DEF Live
<1>3. Flight \in Seq(Event)
  BY <1>1, <1>2, ConcatProperties DEF Flight
<1>4. QED
  BY <1>1, <1>2, <1>3, LenProperties

LEMMA EventQueues ==
    /\ \A s \in Seq(Event), t \in Seq(Event), e \in Event : s \o Append(t, e) = Append(s \o t, e)
    /\ \A s \in Seq(Event), t \in Seq(Event) : t # <<>> => Append(s, Head(t)) \o Tail(t) = s \o t
    /\ \A s \in Seq(Event), t \in Seq(Event) : s # <<>> => Tail(s \o t) = Tail(s) \o t /\ Head(s \o t) = Head(s)
                                                           /\ s \o t # <<>>
    /\ \A t \in Seq(Event) : <<>> \o t = t
<1>1. ASSUME NEW s \in Seq(Event), NEW t \in Seq(Event), NEW e \in Event
      PROVE  s \o Append(t, e) = Append(s \o t, e)
  <2>1. <<e>> \in Seq(Event)
    OBVIOUS
  <2>2. s \o t \in Seq(Event)
    BY ConcatProperties
  <2>3. Append(t, e) = t \o <<e>> /\ Append(s \o t, e) = (s \o t) \o <<e>>
    BY <2>2, AppendIsConcat
  <2>4. QED
    BY <2>1, <2>3, ConcatAssociative
<1>2. ASSUME NEW s \in Seq(Event), NEW t \in Seq(Event), t # <<>>
      PROVE  Append(s, Head(t)) \o Tail(t) = s \o t
  <2>1. Head(t) \in Event /\ Tail(t) \in Seq(Event) /\ <<Head(t)>> \in Seq(Event)
    BY <1>2, HeadTailProperties
  <2>2. Append(s, Head(t)) = s \o <<Head(t)>>
    BY <2>1, AppendIsConcat
  <2>3. (s \o <<Head(t)>>) \o Tail(t) = s \o (<<Head(t)>> \o Tail(t))
    BY <2>1, ConcatAssociative
  <2>4. <<Head(t)>> \o Tail(t) = t
    <3>1. <<Head(t)>> \o Tail(t) \in Seq(Event)
      BY <2>1, ConcatProperties
    <3> DEFINE h == <<Head(t)>>
    <3>2. h \in Seq(Event) /\ Len(h) = 1 /\ h[1] = t[1]
      BY <1>2, <2>1, HeadTailProperties
    <3> HIDE DEF h
    <3>3. /\ Len(h \o Tail(t)) = 1 + Len(Tail(t))
          /\ \A i \in 1..(1 + Len(Tail(t))) : (h \o Tail(t))[i] = IF i <= 1 THEN h[i] ELSE Tail(t)[i - 1]
      <4>1. /\ Len(h \o Tail(t)) = Len(h) + Len(Tail(t))
            /\ \A i \in 1..(Len(h) + Len(Tail(t))) : (h \o Tail(t))[i] = IF i <= Len(h) THEN h[i] ELSE Tail(t)[i - Len(h)]
        BY <2>1, <3>2, ConcatProperties
      <4>2. QED
        BY <3>2, <4>1
    <3>4. Len(Tail(t)) = Len(t) - 1 /\ \A i \in 1..Len(Tail(t)) : Tail(t)[i] = t[i + 1]
      BY <1>2, HeadTailProperties
    <3>5. Len(t) \in Nat
      BY LenProperties
    <3>6. ASSUME NEW i \in 1..Len(t) PROVE (h \o Tail(t))[i] = t[i]
      <4>1. CASE i = 1
        BY <3>2, <3>3, <3>4, <3>5, <4>1
      <4>2. CASE i # 1
        <5>1. i - 1 \in 1..Len(Tail(t)) /\ (i - 1) + 1 = i /\ ~ (i <= 1)
          BY <3>4, <3>5, <4>2
        <5>2. QED
          BY <3>3, <3>4, <3>5, <5>1
      <4>3. QED
        BY <4>1, <4>2
    <3>7. h \o Tail(t) \in Seq(Event) /\ Len(h \o Tail(t)) = Len(t)
      BY <3>1, <3>3, <3>4, <3>5 DEF h
    <3>8. h \o Tail(t) = t
      BY <3>6, <3>7, SeqEqual
    <3>9. QED
      BY <3>8 DEF h
  <2>5. QED
    BY <2>2, <2>3, <2>4
<1>3. ASSUME NEW s \in Seq(Event), NEW t \in Seq(Event), s # <<>>
      PROVE  Tail(s \o t) = Tail(s) \o t /\ Head(s \o t) = Head(s) /\ s \o t # <<>>
  <2> DEFINE u == s \o t
  <2>1. /\ u \in Seq(Event) /\ Len(u) = Len(s) + Len(t) /\ Len(s) \in Nat /\ Len(t) \in Nat
        /\ \A i \in 1..(Len(s) + Len(t)) : u[i] = IF i <= Len(s) THEN s[i] ELSE t[i - Len(s)]
    BY ConcatProperties, LenProperties
  <2>2. Tail(s) \in Seq(Event) /\ Len(Tail(s)) = Len(s) - 1 /\ Len(s) >= 1 /\ \A i \in 1..Len(Tail(s)) : Tail(s)[i] = s[i + 1]
    BY <1>3, HeadTailProperties, EmptySeq
  <2> DEFINE v == Tail(s) \o t
  <2>3. /\ v \in Seq(Event) /\ Len(v) = Len(s) - 1 + Len(t)
        /\ \A i \in 1..(Len(s) - 1 + Len(t)) : v[i] = IF i <= Len(s) - 1 THEN Tail(s)[i] ELSE t[i - (Len(s) - 1)]
    BY <2>2, ConcatProperties
  <2> HIDE DEF u, v
  <2>4. u # <<>> /\ u[1] = s[1]
    BY <2>1, <2>2
  <2>5. Tail(u) \in Seq(Event) /\ Len(Tail(u)) = Len(u) - 1 /\ \A i \in 1..Len(Tail(u)) : Tail(u)[i] = u[i + 1]
    BY <2>1, <2>4, HeadTailProperties
  <2>6. ASSUME NEW i \in 1..Len(v) PROVE Tail(u)[i] = v[i]
    <3>1. i \in 1..Len(Tail(u)) /\ i + 1 \in 1..(Len(s) + Len(t)) /\ i \in 1..(Len(s) - 1 + Len(t))
      BY <2>1, <2>2, <2>3, <2>5
    <3>2. Tail(u)[i] = IF i + 1 <= Len(s) THEN s[i + 1] ELSE t[(i + 1) - Len(s)]
      BY <2>1, <2>5, <3>1
    <3>3. CASE i + 1 <= Len(s)
      BY <2>1, <2>2, <2>3, <3>1, <3>2, <3>3
    <3>4. CASE ~ (i + 1 <= Len(s))
      <4>1. i - (Len(s) - 1) = (i + 1) - Len(s) /\ ~ (i <= Len(s) - 1)
        BY <2>1, <3>1, <3>4
      <4>2. QED
        BY <2>3, <3>1, <3>2, <3>4, <4>1
    <3>5. QED
      BY <3>3, <3>4
  <2>7. Len(Tail(u)) = Len(v)
    BY <2>1, <2>3, <2>5
  <2>8. Tail(u) = v
    BY <2>3, <2>5, <2>6, <2>7, SeqEqual
  <2>9. QED
    BY <2>4, <2>8 DEF u, v
<1>4. QED
  BY <1>1, <1>2, <1>3, ConcatEmptySeq

-----------------------------------------------------------------------------
(* The steps of the core                                                   *)

LEMMA NoFlight == InTurn(<<>>) /\ InTurn(<<>>)'
BY DEF InTurn

\* What stays when the pipe, the requests and the window stay
LEMMA OthersKept ==
    ASSUME SyncInv, UNCHANGED <<server, pipe, status, winVars, asks>>,
           server \in {"down", "welcome"} => chan' = <<>>, lagged' => server \in {"subscribed", "up"}
    PROVE  PendInv' /\ ServerInv'
<1>1. /\ server' = server /\ pipe' = pipe /\ status' = status /\ asks' = asks
      /\ window' = window /\ read' = read /\ conn' = conn /\ wrev' = wrev /\ snap' = snap /\ pending' = pending
  BY DEF winVars
<1>2. PendInv'
  BY <1>1 DEF SyncInv, PendInv
<1>3. Cut(pipe)' = Cut(pipe)
  BY <1>1 DEF Cut, Snaps
<1>4. ServerInv'
  BY <1>1, <1>3 DEF SyncInv, ServerInv, Connects
<1>5. QED
  BY <1>2, <1>4

\* Everybody is brought on, when no window is past what the core had.
LEMMA CoreKeeps ==
    ASSUME SyncInv, UNCHANGED <<server, lagged, pipe, status, winVars, asks>>,
           NEW X, \A q \in Part : q \notin X => core'[q] = core[q],
           rev <= rev', rev' \in Nat, InTurn(Flight)',
           \A B, C, w : (/\ Good(Flight, B, w) /\ w \in Nat \cup {Null} /\ (w # Null => w <= rev)
                         /\ \A q \in Part : q \notin X => C[q] = B[q]) => Good(Flight, C, w)'
    PROVE  FlightInv' /\ WindowInv'
<1>1. /\ server' = server /\ lagged' = lagged /\ pipe' = pipe /\ status' = status /\ asks' = asks
      /\ window' = window /\ read' = read /\ conn' = conn /\ wrev' = wrev /\ snap' = snap /\ pending' = pending
      /\ late' = late /\ Cut(pipe)' = Cut(pipe) /\ Snaps(pipe)' = Snaps(pipe) /\ Since' = Since
  BY DEF winVars, Cut, Snaps, Since
<1>2. rev \in Nat /\ wrev \in Nat \cup {Null}
  BY DEF SyncInv, SyncTypeOK
<1>3. Good(Flight, core, Null) => Good(Flight, core, Null)'
  BY DEF Good
<1>4. ASSUME server = "up", ~lagged, Snaps(pipe) # {}
      PROVE  (pipe[Cut(pipe)].rev <= rev)' /\ Good(Flight, pipe[Cut(pipe)].state, pipe[Cut(pipe)].rev)'
  <2> DEFINE s == pipe[Cut(pipe)]
  <2>1. s.rev <= rev /\ Good(Flight, s.state, s.rev) /\ s.rev \in Nat
    <3>1. s.rev <= rev /\ Good(Flight, s.state, s.rev)
      BY <1>4 DEF SyncInv, FlightInv
    <3>2. Cut(pipe) \in 1..Len(pipe) /\ pipe[Cut(pipe)].type = "snapshot" /\ pipe \in Seq(Message)
      <4>1. pipe \in Seq(Message)
        BY DEF SyncInv, SyncTypeOK
      <4>2. Cut(pipe) \in 0..Len(pipe) /\ Cut(pipe) # 0 /\ pipe[Cut(pipe)].type = "snapshot" /\ Len(pipe) \in Nat
        BY <1>4, <4>1, CutIs, LenProperties
      <4>3. QED
        BY <4>1, <4>2
    <3>3. s \in Message /\ s.type = "snapshot"
      BY <3>2, ElementOfSeq
    <3>4. QED
      BY <3>1, <3>3, MessageIs
  <2>2. s' = s
    BY <1>1
  <2>3. \E B, w : B = s'.state /\ w = s'.rev /\ Good(Flight, B, w)'
    BY <1>2, <2>1, <2>2
  <2>4. Good(Flight, s.state, s.rev)'
    BY <2>3 DEF Good, Passed
  <2>5. QED
    BY <1>2, <2>1, <2>2, <2>4
<1>5. FlightInv'
  BY <1>1, <1>3, <1>4 DEF SyncInv, FlightInv
<1>6. ASSUME PastSnapshot, ~late PROVE Fits' /\ Starts'
  <2>1. Fits /\ Starts
    BY <1>6 DEF SyncInv, WindowInv
  <2>2. \A B, w : Good(Flight, B, w) /\ w = wrev =>
            \A C : (\A q \in Part : q \notin X => C[q] = B[q]) => Good(Flight, C, w)'
    BY <1>2, <2>1 DEF Fits
  <2>3. pending = Null => Good(Flight, Shown, wrev)'
    <3> SUFFICES ASSUME pending = Null PROVE Good(Flight, Shown, wrev)'
      OBVIOUS
    <3>1. Good(Flight, Shown, wrev)
      BY <2>1 DEF Fits
    <3>2. \A q \in Part : q \notin X => Shown'[q] = Shown[q]
      BY <1>1 DEF Shown
    <3>3. \E C, w : C = Shown' /\ w = wrev' /\ Good(Flight, C, w)'
      BY <1>1, <2>2, <3>1, <3>2
    <3>4. QED
      BY <3>3 DEF Good, Passed
  <2>4. ASSUME pending # Null, NEW a \in asks, a.id = pending.id PROVE Good(Flight, Replayed(a), wrev)'
    <3>1. Good(Flight, Replayed(a), wrev)
      BY <2>1, <2>4 DEF Fits
    <3>2. \A q \in Part : q \notin X => Replayed(a)'[q] = Replayed(a)[q]
      <4> SUFFICES ASSUME NEW q \in Part, q \notin X PROVE Replayed(a)'[q] = Replayed(a)[q]
        OBVIOUS
      <4>1. (IF a.answer = "taken" THEN a.state ELSE core)[q] = (IF a.answer = "taken" THEN a.state ELSE core')[q]
        OBVIOUS
      <4>2. QED
        BY <1>1, <4>1, ReplaySame DEF Replayed
    <3>3. \E C, w : C = Replayed(a)' /\ w = wrev' /\ Good(Flight, C, w)'
      BY <1>1, <2>2, <3>1, <3>2
    <3>4. QED
      BY <3>3 DEF Good, Passed
  <2>5. wrev' # Null => wrev' <= rev'
    BY <1>1, <1>2, <2>1 DEF Fits
  <2>6. (pending # Null =>
            /\ \E a \in asks : a.id = pending.id
            /\ \A a \in asks : a.id = pending.id => a.answer # "failed" /\ Good(Flight, Replayed(a), wrev))'
    <3> SUFFICES ASSUME pending # Null
                 PROVE  /\ \E a \in asks : a.id = pending.id
                        /\ \A a \in asks : a.id = pending.id => a.answer # "failed" /\ Good(Flight, Replayed(a), wrev)'
      BY <1>1
    <3>1. /\ \E a \in asks : a.id = pending.id
          /\ \A a \in asks : a.id = pending.id => a.answer # "failed"
      BY <2>1 DEF Fits
    <3>2. QED
      BY <2>4, <3>1
  <2>7. Fits'
    BY <1>1, <2>3, <2>5, <2>6 DEF Fits
  <2>8. Starts'
    BY <1>1, <2>1 DEF Starts
  <2>9. QED
    BY <2>7, <2>8
<1>7. WindowInv'
  BY <1>1, <1>6 DEF WindowInv, PastSnapshot
<1>8. QED
  BY <1>5, <1>7

\* The event is sent: it is the last on its way, or so many are lost that the
\* session will send a snapshot.
LEMMA SentFlight ==
    ASSUME SyncInv, UNCHANGED <<server, pipe>>, NEW m \in Event,
           IF server \in {"down", "welcome"} THEN UNCHANGED <<chan, lagged>>
           ELSE IF Len(chan) < Capacity THEN chan' = Append(chan, m) /\ lagged' = lagged
           ELSE chan' = Append(Tail(chan), m) /\ lagged' = TRUE
    PROVE  \/ server \in {"down", "welcome"} /\ lagged' = lagged /\ chan' = <<>> /\ Flight' = <<>>
           \/ server \in {"subscribed", "up"} /\ lagged' = lagged /\ Flight' = Append(Flight, m)
           \/ /\ server \in {"subscribed", "up"} /\ lagged' /\ Flight' = Append(Tail(chan), m)
              /\ chan # <<>> /\ Tail(chan) \in Seq(Event)
              /\ \E n \in Nat : /\ Len(Flight) = Len(Tail(chan)) + n
                                /\ \A i \in 1..Len(Tail(chan)) : Tail(chan)[i] = Flight[i + n]
<1>1. /\ chan \in Seq(Event) /\ Len(chan) \in Nat
      /\ server = "up" => Live(pipe) \in Seq(Event) /\ Len(Live(pipe)) \in Nat
      /\ Flight \in Seq(Event)
  BY FlightIs DEF SyncInv
<1>2. /\ server' = server /\ Live(pipe)' = Live(pipe) /\ lagged \in BOOLEAN
      /\ server \in {"down", "welcome", "subscribed", "up"}
      /\ server \in {"down", "welcome"} => chan = <<>>
  BY DEF Live, Cut, Snaps, SyncInv, SyncTypeOK, ServerInv
<1>3. CASE server \in {"down", "welcome"}
  BY <1>2, <1>3 DEF Flight
<1>4. CASE server \in {"subscribed", "up"} /\ Len(chan) < Capacity
  <2>1. chan' = Append(chan, m) /\ lagged' = lagged
    BY <1>4
  <2>2. CASE server = "up" /\ ~lagged
    BY <1>1, <1>2, <2>1, <2>2, EventQueues DEF Flight
  <2>3. CASE ~ (server = "up" /\ ~lagged)
    BY <1>2, <1>4, <2>1, <2>3 DEF Flight
  <2>4. QED
    BY <2>2, <2>3
<1>5. CASE server \in {"subscribed", "up"} /\ ~ (Len(chan) < Capacity)
  <2>1. chan' = Append(Tail(chan), m) /\ lagged' = TRUE
    BY <1>5
  <2>2. chan # <<>>
    BY <1>1, <1>5, SizesType, EmptySeq
  <2>3. Tail(chan) \in Seq(Event) /\ Len(Tail(chan)) = Len(chan) - 1 /\ \A i \in 1..Len(Tail(chan)) : Tail(chan)[i] = chan[i + 1]
    BY <1>1, <2>2, HeadTailProperties
  <2>4. Flight' = Append(Tail(chan), m)
    BY <2>1 DEF Flight
  <2>5. \E n \in Nat : /\ Len(Flight) = Len(Tail(chan)) + n
                       /\ \A i \in 1..Len(Tail(chan)) : Tail(chan)[i] = Flight[i + n]
    <3>1. CASE server = "up" /\ ~lagged
      <4> DEFINE L == Live(pipe)
      <4>1. L \in Seq(Event) /\ Len(L) \in Nat /\ Flight = L \o chan
        BY <1>1, <3>1 DEF Flight
      <4> HIDE DEF L
      <4>2. /\ Len(Flight) = Len(L) + Len(chan)
            /\ \A i \in 1..(Len(L) + Len(chan)) : Flight[i] = IF i <= Len(L) THEN L[i] ELSE chan[i - Len(L)]
        BY <1>1, <4>1, ConcatProperties
      <4>3. Len(Flight) = Len(Tail(chan)) + (Len(L) + 1) /\ Len(L) + 1 \in Nat
        BY <1>1, <2>3, <4>1, <4>2
      <4>4. ASSUME NEW i \in 1..Len(Tail(chan)) PROVE Tail(chan)[i] = Flight[i + (Len(L) + 1)]
        <5>1. i + (Len(L) + 1) \in 1..(Len(L) + Len(chan)) /\ ~ (i + (Len(L) + 1) <= Len(L))
              /\ (i + (Len(L) + 1)) - Len(L) = i + 1
          BY <1>1, <2>3, <4>1
        <5>2. QED
          BY <2>3, <4>2, <5>1
      <4>5. QED
        BY <4>3, <4>4
    <3>2. CASE ~ (server = "up" /\ ~lagged)
      <4>1. Flight = chan
        BY <3>2 DEF Flight
      <4>2. QED
        BY <1>1, <2>3, <4>1
    <3>3. QED
      BY <3>1, <3>2
  <2>6. QED
    BY <1>5, <2>1, <2>2, <2>3, <2>4, <2>5
<1>6. QED
  BY <1>2, <1>3, <1>4, <1>5

\* What holds of a queue that is then the one on its way
LEMMA FlightThen ==
    ASSUME NEW Q, Flight' = Q
    PROVE  /\ InTurn(Q)' => InTurn(Flight)'
           /\ \A C, w : Good(Q, C, w)' => Good(Flight, C, w)'
<1>1. InTurn(Q)' => InTurn(Flight)'
  BY DEF InTurn
<1>2. ASSUME NEW C, NEW w, Good(Q, C, w)' PROVE Good(Flight, C, w)'
  <2>1. \A p \in Part : Ahead(Q, p)' => Ahead(Flight, p)'
    BY DEF Ahead
  <2>2. \A p \in Part : Jumped(Q, p)' => Jumped(Flight, p)'
    BY DEF Jumped
  <2>3. \A p \in Part : Passed(Q, w, p)' => Passed(Flight, w, p)'
    BY DEF Passed
  <2>4. QED
    BY <1>2, <2>1, <2>2, <2>3 DEF Good
<1>3. QED
  BY <1>1, <1>2

LEMMA PublishStep == ASSUME SyncInv, NEW t \in Publisher, NEW p \in Part, Publish(t, p) PROVE SyncInv'
<1>1. SyncTypeOK /\ CoreInv /\ ServerInv /\ InTurn(Flight) /\ Flight \in Seq(Event)
  BY FlightIs DEF SyncInv, FlightInv
<1>2. PICK Q : Q = Flight
  OBVIOUS
<1>3. /\ CoreInv' /\ InTurn(Q)'
      /\ \A B, C, w : (/\ Good(Q, B, w) /\ w \in Nat \cup {Null} /\ (w # Null => w <= rev)
                       /\ \A q \in Part : q # p => C[q] = B[q]) => Good(Q, C, w)'
  BY <1>1, <1>2, PublishMoves
<1>4. UNCHANGED <<server, chan, lagged, pipe, status, winVars, asks>> /\ Apply(p)
  BY DEF Publish, serverVars
<1>5. Flight' = Q
  BY <1>2, <1>4 DEF Flight, Live, Cut, Snaps
<1>6. InTurn(Flight)' /\ \A C, w : Good(Q, C, w)' => Good(Flight, C, w)'
  BY <1>3, <1>5, FlightThen
<1>7. (\A q \in Part : q \notin {p} => core'[q] = core[q]) /\ rev' = rev + 1 /\ rev \in Nat
  BY <1>1, <1>4, Moved, CoreNumbers
<1>8. ASSUME NEW B, NEW C, NEW w, Good(Flight, B, w), w \in Nat \cup {Null}, w # Null => w <= rev,
             \A q \in Part : q \notin {p} => C[q] = B[q]
      PROVE  Good(Flight, C, w)'
  <2>1. Good(Q, B, w) /\ \A q \in Part : q # p => C[q] = B[q]
    BY <1>2, <1>8
  <2>2. Good(Q, C, w)'
    BY <1>3, <1>8, <2>1
  <2>3. QED
    BY <1>6, <2>2
<1>9. rev <= rev' /\ rev' \in Nat
  BY <1>7
<1>10. UNCHANGED <<server, lagged, pipe, status, winVars, asks>>
  BY <1>4
<1>11. FlightInv' /\ WindowInv'
  BY <1>6, <1>7, <1>8, <1>9, <1>10, CoreKeeps
<1>12. PendInv' /\ ServerInv'
  BY <1>1, <1>4, OthersKept DEF ServerInv
<1>13. SyncTypeOK'
  BY <1>1, TypesCore DEF CoreStep
<1>14. QED
  BY <1>3, <1>11, <1>12, <1>13 DEF SyncInv

\* An event is sent: what it brings on with the others, it brings on without
\* those that are lost, too.
LEMMA SendKeeps ==
    ASSUME SyncInv, UNCHANGED <<server, pipe, status, winVars, asks>>, NEW m \in Event,
           IF server \in {"down", "welcome"} THEN UNCHANGED <<chan, lagged>>
           ELSE IF Len(chan) < Capacity THEN chan' = Append(chan, m) /\ lagged' = lagged
           ELSE chan' = Append(Tail(chan), m) /\ lagged' = TRUE,
           NEW X, \A q \in Part : q \notin X => core'[q] = core[q], rev <= rev', rev' \in Nat,
           \A Q \in Seq(Event) : InTurn(Q) =>
               /\ InTurn(Append(Q, m))'
               /\ \A B, C, w : (/\ Good(Q, B, w) /\ w \in Nat \cup {Null} /\ (w # Null => w <= rev)
                                /\ \A q \in Part : q \notin X => C[q] = B[q]) => Good(Append(Q, m), C, w)'
    PROVE  FlightInv' /\ WindowInv' /\ PendInv' /\ ServerInv'
<1>1. SyncTypeOK /\ CoreInv /\ ServerInv /\ InTurn(Flight) /\ Flight \in Seq(Event)
  BY FlightIs DEF SyncInv, FlightInv
<1>2. /\ server' = server /\ pipe' = pipe
      /\ server \in {"down", "welcome", "subscribed", "up"}
  BY <1>1 DEF SyncTypeOK
<1>3. CASE server \in {"down", "welcome"} /\ lagged' = lagged /\ chan' = <<>> /\ Flight' = <<>>
  <2>1. PICK Q : Q = <<>>
    OBVIOUS
  <2>2. InTurn(Flight)'
    BY <1>3, <2>1, NoFlight DEF InTurn
  <2>3. server' \notin {"subscribed", "up"}
    BY <1>2, <1>3
  <2>4. FlightInv' /\ WindowInv'
    BY <2>2, <2>3 DEF FlightInv, WindowInv, PastSnapshot
  <2>5. lagged' => server \in {"subscribed", "up"}
    BY <1>1, <1>3 DEF ServerInv
  <2>6. PendInv' /\ ServerInv'
    BY <1>3, <2>5, OthersKept
  <2>7. QED
    BY <2>4, <2>6
<1>4. CASE server \in {"subscribed", "up"} /\ lagged' = lagged /\ Flight' = Append(Flight, m)
  <2>1. PICK Q : Q = Flight
    OBVIOUS
  <2>2. PICK R : R = Append(Q, m)
    OBVIOUS
  <2>3. InTurn(R)' /\ \A B, C, w : (/\ Good(Q, B, w) /\ w \in Nat \cup {Null} /\ (w # Null => w <= rev)
                                    /\ \A q \in Part : q \notin X => C[q] = B[q]) => Good(R, C, w)'
    BY <1>1, <2>1, <2>2
  <2>4. InTurn(Flight)' /\ \A C, w : Good(R, C, w)' => Good(Flight, C, w)'
    BY <1>4, <2>1, <2>2, <2>3, FlightThen
  <2>5. ASSUME NEW B, NEW C, NEW w, Good(Flight, B, w), w \in Nat \cup {Null}, w # Null => w <= rev,
               \A q \in Part : q \notin X => C[q] = B[q]
        PROVE  Good(Flight, C, w)'
    <3>1. Good(Q, B, w)
      BY <2>1, <2>5
    <3>2. Good(R, C, w)'
      BY <2>3, <2>5, <3>1
    <3>3. QED
      BY <2>4, <3>2
  <2>6. FlightInv' /\ WindowInv'
    BY <1>4, <2>4, <2>5, CoreKeeps
  <2>7. PendInv' /\ ServerInv'
    BY <1>2, <1>4, OthersKept
  <2>8. QED
    BY <2>6, <2>7
<1>5. CASE /\ server \in {"subscribed", "up"} /\ lagged' /\ Flight' = Append(Tail(chan), m)
           /\ chan # <<>> /\ Tail(chan) \in Seq(Event)
           /\ \E n \in Nat : /\ Len(Flight) = Len(Tail(chan)) + n
                             /\ \A i \in 1..Len(Tail(chan)) : Tail(chan)[i] = Flight[i + n]
  <2>1. PICK Q : Q = Tail(chan)
    OBVIOUS
  <2>2. PICK R : R = Append(Q, m)
    OBVIOUS
  <2>3. Good(Flight, core, Null)
    BY <1>5 DEF SyncInv, FlightInv
  <2>4. InTurn(Q) /\ Good(Q, core, Null) /\ Q \in Seq(Event)
    <3>1. PICK n \in Nat : /\ Len(Flight) = Len(Q) + n
                           /\ \A i \in 1..Len(Q) : Q[i] = Flight[i + n]
      BY <1>5, <2>1
    <3>2. Q \in Seq(Event)
      BY <1>5, <2>1
    <3>3. QED
      BY <1>1, <2>3, <3>1, <3>2, Missed
  <2>5. InTurn(R)' /\ \A C : (\A q \in Part : q \notin X => C[q] = core[q]) => Good(R, C, Null)'
    BY <2>2, <2>4
  <2>6. InTurn(Flight)' /\ \A C, w : Good(R, C, w)' => Good(Flight, C, w)'
    BY <1>5, <2>1, <2>2, <2>5, FlightThen
  <2>7. \E C : Good(Flight, C, Null)'
    BY <2>5, <2>6
  <2>8. Good(Flight, core, Null)'
    BY <2>7 DEF Good
  <2>9. FlightInv' /\ WindowInv'
    BY <1>5, <2>6, <2>8 DEF FlightInv, WindowInv, PastSnapshot
  <2>10. PendInv' /\ ServerInv'
    BY <1>2, <1>5, OthersKept
  <2>11. QED
    BY <2>9, <2>10
<1>6. QED
  BY <1>3, <1>4, <1>5, SentFlight

LEMMA SendStep == ASSUME SyncInv, NEW t \in Publisher, SendEvent(t) PROVE SyncInv'
<1>1. SyncTypeOK /\ CoreInv
  BY DEF SyncInv
<1>2. sending[t] \in Event /\ Broadcast(sending[t])
  BY <1>1, CoreNumbers DEF SendEvent
<1>3. PICK m \in Event : /\ SentAs(sending[t], m)
                         /\ IF server \in {"down", "welcome"} THEN UNCHANGED <<chan, lagged>>
                            ELSE IF Len(chan) < Capacity THEN chan' = Append(chan, m) /\ lagged' = lagged
                            ELSE chan' = Append(Tail(chan), m) /\ lagged' = TRUE
  BY <1>2, BroadcastIs
<1>4. ASSUME NEW Q \in Seq(Event), InTurn(Q)
      PROVE  /\ CoreInv' /\ InTurn(Append(Q, m))'
             /\ \A B, w : Good(Q, B, w) => Good(Append(Q, m), B, w)'
  BY <1>1, <1>3, <1>4, SendMoves
<1>5. UNCHANGED <<server, pipe, status, winVars, asks>>
  BY DEF SendEvent
<1>. PICK X : \A q \in Part : q \notin X
  <2>1. \E X : X = {}
    OBVIOUS
  <2>2. QED
    BY <2>1
<1>6. ASSUME NEW Q \in Seq(Event), InTurn(Q)
      PROVE  /\ InTurn(Append(Q, m))'
             /\ \A B, C, w : (/\ Good(Q, B, w) /\ w \in Nat \cup {Null} /\ (w # Null => w <= rev)
                              /\ \A q \in Part : q \notin X => C[q] = B[q]) => Good(Append(Q, m), C, w)'
  <2>1. InTurn(Append(Q, m))' /\ \A B, w : Good(Q, B, w) => Good(Append(Q, m), B, w)'
    BY <1>4, <1>6
  <2>2. ASSUME NEW B, NEW C, NEW w, Good(Q, B, w), \A q \in Part : C[q] = B[q] PROVE Good(Append(Q, m), C, w)'
    <3>1. Good(Q, C, w)
      BY <2>2 DEF Good
    <3>2. QED
      BY <2>1, <3>1
  <2>3. QED
    BY <2>1, <2>2
<1>7. FlightInv' /\ WindowInv' /\ PendInv' /\ ServerInv'
  <2>1. (\A q \in Part : q \notin X => core'[q] = core[q]) /\ rev <= rev' /\ rev' \in Nat
    BY <1>1, CoreNumbers DEF SendEvent
  <2>2. QED
    BY <1>3, <1>5, <1>6, <2>1, SendKeeps
<1>8. SyncTypeOK'
  BY <1>1, TypesCore DEF CoreStep
<1>9. CoreInv'
  BY <1>4, NoFlight, EmptySeq
<1>10. QED
  BY <1>7, <1>8, <1>9 DEF SyncInv

LEMMA LiveStep == ASSUME SyncInv, NEW t \in Publisher, NEW p \in Part, PublishLive(t, p) PROVE SyncInv'
<1>1. SyncTypeOK /\ CoreInv
  BY DEF SyncInv
<1>2. Change(p) \in Event /\ Broadcast(Change(p)) /\ Apply(p)
  BY <1>1, ChangeIs DEF PublishLive
<1>3. PICK m \in Event : /\ SentAs(Change(p), m)
                         /\ IF server \in {"down", "welcome"} THEN UNCHANGED <<chan, lagged>>
                            ELSE IF Len(chan) < Capacity THEN chan' = Append(chan, m) /\ lagged' = lagged
                            ELSE chan' = Append(Tail(chan), m) /\ lagged' = TRUE
  BY <1>2, BroadcastIs
<1>4. ASSUME NEW Q \in Seq(Event), InTurn(Q)
      PROVE  /\ CoreInv' /\ InTurn(Append(Q, m))'
             /\ \A B, C, w : (/\ Good(Q, B, w) /\ w \in Nat \cup {Null} /\ (w # Null => w <= rev)
                              /\ \A q \in Part : q # p => C[q] = B[q]) => Good(Append(Q, m), C, w)'
  BY <1>1, <1>3, <1>4, LiveMoves
<1>5. UNCHANGED <<server, pipe, status, winVars, asks>> /\ rev' = rev + 1 /\ rev \in Nat
      /\ \A q \in Part : q # p => core'[q] = core[q]
  <2>1. rev' = rev + 1 /\ rev \in Nat /\ \A q \in Part : q # p => core'[q] = core[q]
    BY <1>1, <1>2, Moved, CoreNumbers
  <2>2. QED
    BY <2>1 DEF PublishLive
<1>6. ASSUME NEW Q \in Seq(Event), InTurn(Q)
      PROVE  /\ InTurn(Append(Q, m))'
             /\ \A B, C, w : (/\ Good(Q, B, w) /\ w \in Nat \cup {Null} /\ (w # Null => w <= rev)
                              /\ \A q \in Part : q \notin {p} => C[q] = B[q]) => Good(Append(Q, m), C, w)'
  <2>1. /\ InTurn(Append(Q, m))'
        /\ \A B, C, w : (/\ Good(Q, B, w) /\ w \in Nat \cup {Null} /\ (w # Null => w <= rev)
                         /\ \A q \in Part : q # p => C[q] = B[q]) => Good(Append(Q, m), C, w)'
    BY <1>4, <1>6
  <2>2. ASSUME NEW B, NEW C, NEW w, Good(Q, B, w), w \in Nat \cup {Null}, w # Null => w <= rev,
               \A q \in Part : q \notin {p} => C[q] = B[q]
        PROVE  Good(Append(Q, m), C, w)'
    BY <2>1, <2>2
  <2>3. QED
    BY <2>1, <2>2
<1>7. FlightInv' /\ WindowInv' /\ PendInv' /\ ServerInv'
  <2>1. (\A q \in Part : q \notin {p} => core'[q] = core[q]) /\ rev <= rev' /\ rev' \in Nat
    BY <1>5
  <2>2. QED
    BY <1>3, <1>5, <1>6, <2>1, SendKeeps
<1>8. SyncTypeOK'
  BY <1>1, TypesCore DEF CoreStep
<1>9. CoreInv'
  BY <1>4, NoFlight, EmptySeq
<1>10. QED
  BY <1>7, <1>8, <1>9 DEF SyncInv

-----------------------------------------------------------------------------
(* The steps of the session                                                *)

\* The core, and so what an event means, is the same.
LEMMA SameCore ==
    ASSUME UNCHANGED coreVars
    PROVE  /\ CoreInv => CoreInv'
           /\ \A Q : InTurn(Q) => InTurn(Q)'
           /\ \A Q, B, w : Good(Q, B, w) => Good(Q, B, w)'
<1>1. rev' = rev /\ core' = core /\ changes' = changes /\ sending' = sending /\ sent' = sent
  BY DEF coreVars
<1>2. CoreInv => CoreInv'
  BY <1>1 DEF CoreInv, Off, At, Own, ToSend, IsNewest
<1>3. ASSUME NEW Q, InTurn(Q) PROVE InTurn(Q)'
  BY <1>1, <1>3 DEF InTurn, Own, At, Off
<1>4. ASSUME NEW Q, NEW B, NEW w, Good(Q, B, w) PROVE Good(Q, B, w)'
  <2>1. \A p \in Part : At(p)' = At(p)
    BY <1>1 DEF At, Off
  <2>2. \A p \in Part : Ahead(Q, p) => Ahead(Q, p)'
    BY <1>1, <2>1 DEF Ahead, IsNewest, ToSend
  <2>3. \A p \in Part : Jumped(Q, p) => Jumped(Q, p)'
    BY <2>1 DEF Jumped
  <2>4. \A p \in Part : Passed(Q, w, p) => Passed(Q, w, p)'
    BY <1>1, <2>1 DEF Passed
  <2>5. QED
    BY <1>1, <1>4, <2>1, <2>2, <2>3, <2>4 DEF Good
<1>5. QED
  BY <1>2, <1>3, <1>4

LEMMA SameFlight ==
    ASSUME UNCHANGED coreVars, NEW Q, Flight' = Q
    PROVE  /\ InTurn(Q) => InTurn(Flight)'
           /\ \A C, w : Good(Q, C, w) => Good(Flight, C, w)'
           /\ (\E C : Good(Q, C, Null)) => Good(Flight, core, Null)'
<1>1. /\ InTurn(Q) => InTurn(Flight)'
      /\ \A C, w : Good(Q, C, w) => Good(Flight, C, w)'
  BY SameCore, FlightThen
<1>2. ASSUME NEW C, Good(Q, C, Null) PROVE Good(Flight, core, Null)'
  <2>1. Good(Flight, C, Null)'
    BY <1>1, <1>2
  <2>2. QED
    BY <2>1 DEF Good
<1>3. QED
  BY <1>1, <1>2

\* The window goes on as before.
LEMMA FitsKept ==
    ASSUME Fits, UNCHANGED <<coreVars, wrev, snap, pending>>,
           \A C, w : w = wrev /\ Good(Flight, C, w) => Good(Flight, C, w)',
           pending # Null =>
             /\ \A x \in asks' : x.id = pending.id =>
                  \E y \in asks : /\ y.id = x.id /\ (x.answer = "failed" => y.answer = "failed")
                                  /\ (IF x.answer = "taken" THEN x.state ELSE core)
                                         = (IF y.answer = "taken" THEN y.state ELSE core)
             /\ \A y \in asks : y.id = pending.id => \E x \in asks' : x.id = y.id
    PROVE  Fits'
<1>1. wrev' = wrev /\ snap' = snap /\ pending' = pending /\ rev' = rev /\ core' = core
  BY DEF coreVars
<1>2. Shown' = Shown /\ Since' = Since
  BY <1>1 DEF Shown, Since
<1>3. ASSUME pending = Null PROVE Good(Flight, Shown, wrev)'
  <2>1. PICK C, w : C = Shown /\ w = wrev
    OBVIOUS
  <2>2. Good(Flight, C, w)'
    BY <1>3, <2>1 DEF Fits
  <2>3. Shown' = C /\ wrev' = w
    BY <1>1, <1>2, <2>1
  <2>4. QED
    BY <2>2, <2>3 DEF Good, Passed
<1>4. ASSUME pending # Null, NEW x \in asks', x.id = pending.id
      PROVE  x.answer # "failed" /\ Good(Flight, Replayed(x), wrev)'
  <2>1. PICK y \in asks : /\ y.id = x.id /\ (x.answer = "failed" => y.answer = "failed")
                          /\ (IF x.answer = "taken" THEN x.state ELSE core)
                                 = (IF y.answer = "taken" THEN y.state ELSE core)
    BY <1>4
  <2>2. y.answer # "failed" /\ Good(Flight, Replayed(y), wrev)
    BY <1>4, <2>1 DEF Fits
  <2>3. Replayed(x)' = Replayed(y)
    <3>1. (IF x.answer = "taken" THEN x.state ELSE core') = (IF y.answer = "taken" THEN y.state ELSE core)
      BY <1>1, <2>1
    <3>2. QED
      BY <1>1, <1>2, <3>1 DEF Replayed, Replay
  <2>4. PICK C, w : C = Replayed(y) /\ w = wrev
    OBVIOUS
  <2>5. Good(Flight, C, w)'
    BY <2>2, <2>4
  <2>6. Replayed(x)' = C /\ wrev' = w
    BY <1>1, <2>3, <2>4
  <2>7. QED
    BY <2>1, <2>2, <2>5, <2>6 DEF Good, Passed
<1>5. wrev' # Null => wrev' <= rev'
  BY <1>1 DEF Fits
<1>6. ASSUME pending # Null PROVE \E x \in asks' : x.id = pending.id
  <2>1. PICK y \in asks : y.id = pending.id
    BY <1>6 DEF Fits
  <2>2. QED
    BY <1>6, <2>1
<1>7. pending' # Null =>
            /\ \E x \in asks' : x.id = pending'.id
            /\ \A x \in asks' : x.id = pending'.id => x.answer # "failed" /\ Good(Flight, Replayed(x), wrev)'
  BY <1>1, <1>4, <1>6
<1>8. QED
  BY <1>1, <1>3, <1>5, <1>7 DEF Fits

\* What the session sends leaves the window alone.
LEMMA PendKept ==
    ASSUME PendInv, UNCHANGED <<winVars, asks>>
    PROVE  PendInv'
BY DEF PendInv, winVars

LEMMA ConnectsKept ==
    ASSUME Connects, pipe \in Seq(Message), NEW m \in Message, m.type # "broken",
           pipe' = Append(pipe, m), status' = status
    PROVE  Connects'
<1>1. /\ Len(pipe) \in Nat /\ DOMAIN pipe = 1..Len(pipe) /\ DOMAIN pipe' = 1..(Len(pipe) + 1) /\ Len(pipe') = Len(pipe) + 1
      /\ \A i \in 1..Len(pipe) : pipe'[i] = pipe[i]
      /\ pipe'[Len(pipe) + 1] = m
  BY AppendProperties, LenProperties
<1>2. ASSUME NEW i \in 1..Len(pipe), pipe[i].type = "welcome", \A j \in (i + 1)..Len(pipe) : pipe[j].type # "broken"
      PROVE  Connects'
  <2>1. i \in 1..(Len(pipe) + 1) /\ pipe'[i].type = "welcome"
    BY <1>1, <1>2
  <2>2. \A j \in (i + 1)..(Len(pipe) + 1) : pipe'[j].type # "broken"
    <3>1. \A j \in (i + 1)..(Len(pipe) + 1) : j = Len(pipe) + 1 \/ (j \in (i + 1)..Len(pipe) /\ j \in 1..Len(pipe))
      BY <1>1
    <3>2. QED
      BY <1>1, <1>2, <3>1
  <2>3. QED
    BY <1>1, <2>1, <2>2 DEF Connects
<1>3. ASSUME status, \A j \in 1..Len(pipe) : pipe[j].type # "broken"
      PROVE  Connects'
  <2>1. \A j \in 1..(Len(pipe) + 1) : j = Len(pipe) + 1 \/ j \in 1..Len(pipe)
    BY <1>1
  <2>2. \A j \in 1..(Len(pipe) + 1) : pipe'[j].type # "broken"
    BY <1>1, <1>3, <2>1
  <2>3. QED
    BY <1>1, <1>3, <2>2 DEF Connects
<1>4. QED
  BY <1>1, <1>2, <1>3 DEF Connects

LEMMA AcceptStep == ASSUME SyncInv, Accept PROVE SyncInv'
<1>1. SyncTypeOK /\ CoreInv /\ ServerInv /\ PendInv
  BY DEF SyncInv
<1> DEFINE m == [type |-> "welcome"]
<1>2. m \in Message /\ m.type = "welcome"
  BY MessagesAre
<1> HIDE DEF m
<1>3. /\ server = "down" /\ server' = "welcome" /\ pipe' = Append(pipe, m)
      /\ UNCHANGED coreVars /\ UNCHANGED <<winVars, asks>> /\ chan' = chan /\ lagged' = lagged /\ status' = status
  BY DEF Accept, Write, m
<1>4. chan = <<>> /\ ~lagged
  BY <1>1, <1>3 DEF ServerInv
<1>5. Flight' = <<>> /\ InTurn(<<>>)
  BY <1>3, <1>4, NoFlight DEF Flight
<1>6. InTurn(Flight)'
  BY <1>3, <1>5, SameFlight
<1>7. FlightInv' /\ WindowInv'
  BY <1>3, <1>6 DEF FlightInv, WindowInv, PastSnapshot
<1>8. Connects'
  <2>1. /\ pipe \in Seq(Message) /\ Len(pipe) \in Nat /\ DOMAIN pipe' = 1..(Len(pipe) + 1) /\ Len(pipe') = Len(pipe) + 1
        /\ pipe'[Len(pipe) + 1] = m
    BY <1>1, <1>2, <1>3, AppendProperties, LenProperties DEF SyncTypeOK
  <2>2. QED
    BY <1>2, <2>1 DEF Connects
<1>9. ServerInv'
  BY <1>3, <1>4, <1>8 DEF ServerInv
<1>10. PendInv' /\ SyncTypeOK' /\ CoreInv'
  BY <1>1, <1>3, PendKept, TypesServer, SameCore DEF ServerStep
<1>11. QED
  BY <1>7, <1>9, <1>10 DEF SyncInv

LEMMA SubscribeStep == ASSUME SyncInv, Subscribe PROVE SyncInv'
<1>1. SyncTypeOK /\ CoreInv /\ ServerInv /\ PendInv
  BY DEF SyncInv
<1>2. /\ server = "welcome" /\ server' = "subscribed" /\ pipe' = pipe /\ chan' = <<>> /\ lagged' = FALSE
      /\ UNCHANGED coreVars /\ UNCHANGED <<winVars, asks>> /\ status' = status
  BY DEF Subscribe
<1>3. Flight' = <<>> /\ InTurn(<<>>)
  BY <1>2, NoFlight DEF Flight
<1>4. Good(<<>>, core, Null)
  <2> SUFFICES ASSUME NEW p \in Part PROVE Ahead(<<>>, p) \/ Passed(<<>>, Null, p)
    BY DEF Good
  <2>1. sent < At(p) => ToSend(p)
    BY <1>1 DEF CoreInv
  <2>2. At(p) \in Nat /\ sent \in Nat
    BY <1>1, AtIs
  <2>3. QED
    BY <2>1, <2>2 DEF Ahead, Passed
<1>5. InTurn(Flight)' /\ Good(Flight, core, Null)'
  BY <1>2, <1>3, <1>4, SameFlight
<1>6. FlightInv' /\ WindowInv'
  BY <1>2, <1>5 DEF FlightInv, WindowInv, PastSnapshot
<1>7. Connects'
  BY <1>1, <1>2 DEF ServerInv, Connects
<1>8. ServerInv'
  BY <1>2, <1>7 DEF ServerInv
<1>9. PendInv' /\ SyncTypeOK' /\ CoreInv'
  BY <1>1, <1>2, PendKept, TypesServer, SameCore DEF ServerStep
<1>10. QED
  BY <1>6, <1>8, <1>9 DEF SyncInv

\* A snapshot is written: nothing before it counts any more.
LEMMA SnapshotWritten ==
    ASSUME SyncInv, server \in {"subscribed", "up"}, server' = "up", Write(Snapshot), chan' = chan, ~lagged', 
           server = "up" => lagged, UNCHANGED coreVars, UNCHANGED <<winVars, asks>>, status' = status
    PROVE  CoreInv' /\ ServerInv' /\ PendInv' /\ FlightInv' /\ WindowInv'
<1>1. SyncTypeOK /\ CoreInv /\ ServerInv /\ PendInv /\ FlightInv /\ pipe \in Seq(Message) /\ chan \in Seq(Event)
  BY DEF SyncInv, SyncTypeOK
<1> DEFINE m == Snapshot
<1>2. m \in Message /\ m.type = "snapshot" /\ m.rev = rev /\ m.state = core
  BY <1>1, MessagesAre
<1> HIDE DEF m
<1>3. pipe' = Append(pipe, m) /\ pipe' \in Seq(Message) /\ Len(pipe') = Len(pipe) + 1 /\ pipe'[Len(pipe) + 1] = m
      /\ Len(pipe) \in Nat
  BY <1>1, <1>2, AppendProperties, LenProperties DEF Write, m
<1>4. Cut(pipe)' = Len(pipe) + 1 /\ Live(pipe)' = <<>> /\ Snaps(pipe)' # {}
  BY <1>1, <1>2, <1>3, CutAppend
<1>5. Flight = chan /\ Flight' = chan
  BY <1>1, <1>4, EventQueues DEF Flight
<1>6. InTurn(chan) /\ Good(chan, core, Null)
  BY <1>1, <1>5 DEF FlightInv
<1>7. Good(chan, core, rev)
  <2>1. \A p \in Part : rev >= At(p) /\ rev # Null
    BY <1>1, AtIs, NullIsNull
  <2>2. QED
    BY <2>1 DEF Good, Passed
<1>8. InTurn(Flight)' /\ Good(Flight, core, Null)' /\ \E C, w : C = core /\ w = rev /\ Good(Flight, C, w)'
  <2>1. PICK Q, C, w : Q = chan /\ C = core /\ w = rev
    OBVIOUS
  <2>2. InTurn(Q) /\ Good(Q, core, Null) /\ Good(Q, C, w)
    BY <1>6, <1>7, <2>1
  <2>3. Flight' = Q
    BY <1>5, <2>1
  <2>4. QED
    BY <2>1, <2>2, <2>3, SameFlight
<1>9. (pipe[Cut(pipe)].rev <= rev)' /\ Good(Flight, pipe[Cut(pipe)].state, pipe[Cut(pipe)].rev)'
  <2>1. rev' = rev /\ rev \in Nat
    BY <1>1 DEF coreVars, SyncTypeOK
  <2>2. pipe[Cut(pipe)]' = m
    BY <1>3, <1>4
  <2>3. PICK C, w : C = core /\ w = rev /\ Good(Flight, C, w)'
    BY <1>8
  <2>4. (pipe[Cut(pipe)].state)' = C /\ (pipe[Cut(pipe)].rev)' = w
    BY <1>2, <2>2, <2>3
  <2>5. QED
    BY <1>2, <2>1, <2>2, <2>3, <2>4 DEF Good, Passed
<1>10. FlightInv'
  BY <1>8, <1>9 DEF FlightInv
<1>11. WindowInv'
  BY <1>4 DEF WindowInv, PastSnapshot
<1>12. ServerInv'
  <2>1. Connects'
    BY <1>1, <1>2, <1>3, ConnectsKept DEF ServerInv
  <2>2. \A i \in (Cut(pipe)' + 1)..Len(pipe') : pipe'[i].type = "event"
    BY <1>3, <1>4
  <2>3. QED
    BY <2>1, <2>2 DEF ServerInv
<1>13. QED
  BY <1>1, <1>10, <1>11, <1>12, PendKept, SameCore

LEMMA SnapshotStep == ASSUME SyncInv, FirstSnapshot \/ Lagged PROVE SyncInv'
<1>1. SyncTypeOK /\ ServerInv
  BY DEF SyncInv
<1>2. CASE FirstSnapshot /\ ~lagged
  <2>1. /\ server \in {"subscribed", "up"} /\ server' = "up" /\ Write(Snapshot) /\ chan' = chan /\ ~lagged'
        /\ (server = "up" => lagged) /\ UNCHANGED coreVars /\ UNCHANGED <<winVars, asks>> /\ status' = status
    BY <1>2 DEF FirstSnapshot
  <2>2. SyncTypeOK'
    BY <1>1, <1>2, TypesServer DEF ServerStep
  <2>3. QED
    BY <2>1, <2>2, SnapshotWritten DEF SyncInv
<1>3. CASE Lagged
  <2>1. /\ server \in {"subscribed", "up"} /\ server' = "up" /\ Write(Snapshot) /\ chan' = chan /\ ~lagged'
        /\ (server = "up" => lagged) /\ UNCHANGED coreVars /\ UNCHANGED <<winVars, asks>> /\ status' = status
    BY <1>3 DEF Lagged
  <2>2. SyncTypeOK'
    BY <1>1, <1>3, TypesServer DEF ServerStep
  <2>3. QED
    BY <2>1, <2>2, SnapshotWritten DEF SyncInv
<1>4. CASE FirstSnapshot /\ lagged
  <2>1. /\ server = "subscribed" /\ server' = "up" /\ Write(Snapshot) /\ chan' = chan /\ lagged'
        /\ UNCHANGED coreVars /\ UNCHANGED <<winVars, asks>> /\ status' = status
    BY <1>1, <1>4 DEF FirstSnapshot, SyncTypeOK
  <2> DEFINE m == Snapshot
  <2>2. m \in Message /\ m.type = "snapshot" /\ pipe \in Seq(Message)
    BY <1>1, MessagesAre DEF SyncTypeOK
  <2> HIDE DEF m
  <2>3. pipe' = Append(pipe, m) /\ pipe' \in Seq(Message) /\ Len(pipe') = Len(pipe) + 1 /\ Len(pipe) \in Nat
    BY <2>1, <2>2, AppendProperties, LenProperties DEF Write, m
  <2>4. Cut(pipe)' = Len(pipe) + 1
    BY <2>2, <2>3, CutAppend
  <2>5. PICK Q : Q = Flight
    OBVIOUS
  <2>6. InTurn(Q) /\ Good(Q, core, Null) /\ Flight' = Q
    BY <2>1, <2>5 DEF SyncInv, FlightInv, Flight
  <2>7. InTurn(Flight)' /\ Good(Flight, core, Null)'
    BY <2>1, <2>6, SameFlight
  <2>8. FlightInv' /\ WindowInv'
    BY <2>1, <2>7 DEF FlightInv, WindowInv, PastSnapshot
  <2>9. ServerInv'
    <3>1. Connects'
      BY <1>1, <2>1, <2>2, <2>3, ConnectsKept DEF ServerInv
    <3>2. \A i \in (Cut(pipe)' + 1)..Len(pipe') : pipe'[i].type = "event"
      BY <2>3, <2>4
    <3>3. QED
      BY <2>1, <3>1, <3>2 DEF ServerInv
  <2>10. SyncTypeOK' /\ CoreInv' /\ PendInv'
    BY <1>1, <1>4, <2>1, TypesServer, SameCore, PendKept DEF ServerStep, SyncInv
  <2>11. QED
    BY <2>8, <2>9, <2>10 DEF SyncInv
<1>5. QED
  BY <1>1, <1>2, <1>3, <1>4 DEF SyncTypeOK

LEMMA ForwardStep == ASSUME SyncInv, Forward PROVE SyncInv'
<1>1. SyncTypeOK /\ CoreInv /\ ServerInv /\ PendInv /\ FlightInv /\ pipe \in Seq(Message) /\ chan \in Seq(Event)
      /\ Len(pipe) \in Nat /\ WindowInv
  BY LenProperties DEF SyncInv, SyncTypeOK
<1> DEFINE e == Head(chan)
<1>2. /\ server = "up" /\ ~lagged /\ server' = server /\ lagged' = lagged /\ chan # <<>>
      /\ pipe' = Append(pipe, e) /\ chan' = Tail(chan) /\ UNCHANGED coreVars /\ UNCHANGED <<winVars, asks>> /\ status' = status
  BY DEF Forward, Write
<1>3. e \in Event /\ e \in Message /\ e.type = "event" /\ chan' \in Seq(Event)
  BY <1>1, <1>2, TailIs, EventIs, MessagesAre
<1>4. Live(pipe) \in Seq(Event) /\ Flight = Live(pipe) \o chan
  BY <1>1, <1>2, FlightIs DEF Flight
<1>5. Append(Live(pipe), e) \o Tail(chan) = Live(pipe) \o chan
  BY <1>1, <1>2, <1>4, EventQueues
<1> HIDE DEF e
<1>6. /\ pipe' \in Seq(Message) /\ Len(pipe') = Len(pipe) + 1 /\ pipe'[Len(pipe) + 1] = e
      /\ \A i \in 1..Len(pipe) : pipe'[i] = pipe[i]
  BY <1>1, <1>2, <1>3, AppendProperties
<1>7. Cut(pipe)' = Cut(pipe) /\ Live(pipe)' = Append(Live(pipe), e) /\ (Snaps(pipe)' = {} <=> Snaps(pipe) = {})
  BY <1>1, <1>2, <1>3, CutAppend
<1>8. PICK Q : Q = Flight
  OBVIOUS
<1>9. Flight' = Q
  BY <1>2, <1>4, <1>5, <1>7, <1>8 DEF Flight
<1>10. InTurn(Q) /\ (\A B, w : Good(Flight, B, w) => Good(Q, B, w))
  BY <1>1, <1>8 DEF FlightInv
<1>11. InTurn(Flight)' /\ Good(Flight, core, Null)' /\ \A C, w : Good(Flight, C, w) => Good(Flight, C, w)'
  <2>1. InTurn(Flight)' /\ \A C, w : Good(Q, C, w) => Good(Flight, C, w)'
    BY <1>2, <1>9, <1>10, SameFlight
  <2>2. Good(Q, core, Null)
    BY <1>1, <1>2, <1>10 DEF FlightInv
  <2>3. Good(Flight, core, Null)'
    BY <1>2, <1>9, <2>2, SameFlight
  <2>4. \A C, w : Good(Flight, C, w) => Good(Flight, C, w)'
    BY <1>10, <2>1
  <2>5. QED
    BY <2>1, <2>3, <2>4
<1>12. rev' = rev /\ core' = core
  BY <1>2 DEF coreVars
<1>13. ASSUME Snaps(pipe) # {} PROVE (pipe[Cut(pipe)].rev <= rev)' /\ Good(Flight, pipe[Cut(pipe)].state, pipe[Cut(pipe)].rev)'
  <2>1. Cut(pipe) \in 1..Len(pipe)
    <3>1. Cut(pipe) \in 0..Len(pipe) /\ Cut(pipe) # 0
      BY <1>1, <1>13, CutIs
    <3>2. QED
      BY <1>1, <3>1
  <2>2. PICK C, w : C = pipe[Cut(pipe)].state /\ w = pipe[Cut(pipe)].rev
    OBVIOUS
  <2>3. w <= rev /\ Good(Flight, C, w)
    BY <1>1, <1>2, <1>13, <2>2 DEF FlightInv
  <2>4. Good(Flight, C, w)'
    BY <1>11, <2>3
  <2>5. (pipe[Cut(pipe)].state)' = C /\ (pipe[Cut(pipe)].rev)' = w
    BY <1>6, <1>7, <2>1, <2>2
  <2>6. QED
    BY <1>12, <2>3, <2>4, <2>5 DEF Good, Passed
<1>14. FlightInv'
  BY <1>7, <1>11, <1>13 DEF FlightInv
<1>15. ServerInv'
  <2>1. Connects'
    BY <1>1, <1>2, <1>3, ConnectsKept DEF ServerInv
  <2>2. \A i \in (Cut(pipe)' + 1)..Len(pipe') : pipe'[i].type = "event"
    <3>1. \A i \in (Cut(pipe) + 1)..Len(pipe) : pipe[i].type = "event"
      BY <1>1, <1>2 DEF ServerInv
    <3>2. Cut(pipe) \in 0..Len(pipe)
      BY <1>1, CutIs
    <3>3. \A i \in (Cut(pipe) + 1)..(Len(pipe) + 1) : i = Len(pipe) + 1 \/ (i \in (Cut(pipe) + 1)..Len(pipe) /\ i \in 1..Len(pipe))
      BY <1>1, <3>2
    <3>4. QED
      BY <1>3, <1>6, <1>7, <3>1, <3>3
  <2>3. QED
    BY <1>2, <2>1, <2>2 DEF ServerInv
<1>16. ASSUME PastSnapshot', ~late' PROVE Fits' /\ Starts'
  <2>1. /\ UNCHANGED <<coreVars, wrev, snap, pending>> /\ asks' = asks /\ late' = late
        /\ window' = window /\ read' = read /\ conn' = conn /\ snap' = snap /\ pending' = pending
    BY <1>2 DEF winVars
  <2>2. Fits /\ Starts
    BY <1>1, <1>2, <1>7, <1>16, <2>1 DEF WindowInv, PastSnapshot
  <2>3. Fits'
    BY <1>11, <2>1, <2>2, FitsKept
  <2>4. Starts'
    BY <2>1, <2>2 DEF Starts
  <2>5. QED
    BY <2>3, <2>4
<1>17. SyncTypeOK' /\ CoreInv' /\ PendInv'
  BY <1>1, <1>2, TypesServer, PendKept, SameCore DEF ServerStep
<1>18. QED
  BY <1>14, <1>15, <1>16, <1>17 DEF SyncInv, WindowInv

\* state.snapshot is answered with the state as it is: what the window will
\* show with the events it has kept is the same.
LEMMA TakeStep == ASSUME SyncInv, NEW a \in asks, TakeSnapshot(a) PROVE SyncInv'
<1>1. SyncTypeOK /\ CoreInv /\ ServerInv /\ PendInv /\ FlightInv /\ WindowInv
  BY DEF SyncInv
<1> DEFINE b == [a EXCEPT !.answer = "taken", !.state = core]
<1>2. b.id = a.id /\ b.answer = "taken" /\ b.state = core
  BY <1>1 DEF SyncTypeOK
<1> HIDE DEF b
<1>3. /\ a.answer = "awaited" /\ asks' = (asks \ {a}) \cup {b}
      /\ UNCHANGED <<coreVars, winVars, status>> /\ server' = server /\ chan' = chan /\ lagged' = lagged /\ pipe' = pipe
      /\ late' = late
  BY DEF TakeSnapshot, serverVars, winVars, b
<1>4. PICK Q : Q = Flight
  OBVIOUS
<1>5. Flight' = Q /\ Cut(pipe)' = Cut(pipe) /\ Snaps(pipe)' = Snaps(pipe)
  BY <1>3, <1>4 DEF Flight, Live, Cut, Snaps
<1>6. /\ InTurn(Flight)' /\ \A C, w : Good(Flight, C, w) => Good(Flight, C, w)'
  <2>1. InTurn(Q) /\ \A B, w : Good(Flight, B, w) => Good(Q, B, w)
    BY <1>1, <1>4 DEF FlightInv
  <2>2. QED
    BY <1>3, <1>5, <2>1, SameFlight
<1>7. FlightInv'
  <2>1. Good(Flight, core, Null) => Good(Flight, core, Null)'
    BY <1>6 DEF Good
  <2>2. ASSUME server = "up", ~lagged, Snaps(pipe) # {}
        PROVE  (pipe[Cut(pipe)].rev <= rev)' /\ Good(Flight, pipe[Cut(pipe)].state, pipe[Cut(pipe)].rev)'
    <3>1. PICK C, w : C = pipe[Cut(pipe)].state /\ w = pipe[Cut(pipe)].rev
      OBVIOUS
    <3>2. w <= rev /\ Good(Flight, C, w)
      BY <1>1, <2>2, <3>1 DEF FlightInv
    <3>3. Good(Flight, C, w)'
      BY <1>6, <3>2
    <3>4. (pipe[Cut(pipe)].state)' = C /\ (pipe[Cut(pipe)].rev)' = w /\ rev' = rev
      BY <1>3, <1>5, <3>1 DEF coreVars
    <3>5. QED
      BY <3>2, <3>3, <3>4 DEF Good, Passed
  <2>3. QED
    BY <1>1, <1>3, <1>5, <1>6, <2>1, <2>2 DEF FlightInv
<1>8. ServerInv'
  BY <1>1, <1>3, <1>5 DEF ServerInv, Connects
<1>9. PendInv'
  <2>1. ASSUME NEW x \in asks', NEW y \in asks', x.id = y.id PROVE x = y
    <3>1. \A z \in asks : z.id = a.id => z = a
      BY <1>1 DEF PendInv
    <3>2. CASE x \in asks \ {a} /\ y \in asks \ {a}
      BY <1>1, <2>1, <3>2 DEF PendInv
    <3>3. CASE x = b /\ y \in asks \ {a}
      BY <1>2, <2>1, <3>1, <3>3
    <3>4. CASE y = b /\ x \in asks \ {a}
      BY <1>2, <2>1, <3>1, <3>4
    <3>5. QED
      BY <1>3, <2>1, <3>2, <3>3, <3>4
  <2>2. (window = "closed" => wrev = Null /\ snap = Null /\ pending = Null /\ read = Null /\ ~conn)'
    BY <1>1, <1>3 DEF PendInv, winVars
  <2>3. (pending # Null =>
           /\ wrev = IF pending.events = <<>> THEN pending.from ELSE pending.events[Len(pending.events)].rev
           /\ pending.from # Null =>
                wrev >= pending.from /\ \A i \in DOMAIN pending.events : pending.events[i].rev > pending.from)'
    BY <1>1, <1>3 DEF PendInv, winVars
  <2>4. QED
    BY <2>1, <2>2, <2>3 DEF PendInv
<1>10. ASSUME PastSnapshot', ~late' PROVE Fits' /\ Starts'
  <2>1. Fits /\ Starts
    BY <1>1, <1>3, <1>5, <1>10 DEF WindowInv, PastSnapshot
  <2>2. \A x \in asks' : \E y \in asks : /\ y.id = x.id /\ (x.answer = "failed" => y.answer = "failed")
                               /\ (IF x.answer = "taken" THEN x.state ELSE core)
                                      = (IF y.answer = "taken" THEN y.state ELSE core)
    BY <1>2, <1>3
  <2>3. \A y \in asks : \E x \in asks' : x.id = y.id
    BY <1>2, <1>3
  <2>4. /\ UNCHANGED <<coreVars, wrev, snap, pending>>
        /\ window' = window /\ read' = read /\ conn' = conn /\ snap' = snap /\ pending' = pending
    BY <1>3 DEF winVars
  <2>5. Fits'
    BY <1>6, <2>1, <2>2, <2>3, <2>4, FitsKept
  <2>6. Starts'
    BY <2>1, <2>4 DEF Starts
  <2>7. QED
    BY <2>5, <2>6
<1>11. SyncTypeOK' /\ CoreInv'
  BY <1>1, <1>3, TypesServer, SameCore DEF ServerStep
<1>12. QED
  BY <1>7, <1>8, <1>9, <1>10, <1>11 DEF SyncInv, WindowInv

\* The connection breaks: the window keeps what it has.
LEMMA BreakKeeps ==
    ASSUME SyncInv, NEW last, Break(last)
    PROVE  ServerInv' /\ PendInv' /\ FlightInv' /\ WindowInv'
<1>1. SyncTypeOK /\ PendInv
  BY DEF SyncInv
<1>2. server' = "down" /\ chan' = <<>> /\ lagged' = FALSE /\ UNCHANGED winVars
  BY DEF Break
<1>3. PICK kept \in SUBSET {a \in asks : a.answer # "awaited"} : asks' = Failed(kept)
  BY DEF Break
<1>4. ServerInv'
  BY <1>2 DEF ServerInv
<1>5. Flight' = <<>>
  BY <1>2 DEF Flight
<1>6. PICK Q : Q = <<>>
  OBVIOUS
<1>7. InTurn(Flight)'
  BY <1>5, <1>6, NoFlight, FlightThen
<1>8. FlightInv' /\ WindowInv'
  BY <1>2, <1>7 DEF FlightInv, WindowInv, PastSnapshot
<1>9. ASSUME NEW x \in asks', NEW y \in asks', x.id = y.id PROVE x = y
  <2>1. \A z \in asks' : \E a \in asks : /\ a.id = z.id
                                       /\ z = IF a \in kept THEN a ELSE [a EXCEPT !.answer = "failed", !.state = Null]
    <3> SUFFICES ASSUME NEW z \in asks'
                 PROVE  \E a \in asks : /\ a.id = z.id
                                        /\ z = IF a \in kept THEN a ELSE [a EXCEPT !.answer = "failed", !.state = Null]
      OBVIOUS
    <3>1. CASE z \in kept
      BY <1>3, <3>1
    <3>2. CASE z \notin kept
      <4>1. PICK a \in asks \ kept : z = [a EXCEPT !.answer = "failed", !.state = Null]
        BY <1>3, <3>2 DEF Failed
      <4>2. a.id = z.id
        BY <4>1
      <4>3. QED
        BY <4>1, <4>2
    <3>3. QED
      BY <3>1, <3>2
  <2>2. PICK a \in asks : a.id = x.id /\ x = IF a \in kept THEN a ELSE [a EXCEPT !.answer = "failed", !.state = Null]
    BY <2>1
  <2>3. PICK b \in asks : b.id = y.id /\ y = IF b \in kept THEN b ELSE [b EXCEPT !.answer = "failed", !.state = Null]
    BY <2>1
  <2>4. a = b
    BY <1>1, <1>9, <2>2, <2>3 DEF PendInv
  <2>5. QED
    BY <2>2, <2>3, <2>4
<1>10. PendInv'
  <2>1. (window = "closed" => wrev = Null /\ snap = Null /\ pending = Null /\ read = Null /\ ~conn)'
    BY <1>1, <1>2 DEF PendInv, winVars
  <2>2. (pending # Null =>
           /\ wrev = IF pending.events = <<>> THEN pending.from ELSE pending.events[Len(pending.events)].rev
           /\ pending.from # Null =>
                wrev >= pending.from /\ \A i \in DOMAIN pending.events : pending.events[i].rev > pending.from)'
    BY <1>1, <1>2 DEF PendInv, winVars
  <2>3. QED
    BY <1>9, <2>1, <2>2 DEF PendInv
<1>11. QED
  BY <1>4, <1>8, <1>10

LEMMA BreakStep == ASSUME SyncInv, BreakPipe \/ RestartCore PROVE SyncInv'
<1>1. SyncTypeOK /\ CoreInv
  BY DEF SyncInv
<1>2. ServerInv' /\ PendInv' /\ FlightInv' /\ WindowInv'
  BY BreakKeeps DEF BreakPipe, RestartCore
<1>3. SyncTypeOK'
  BY <1>1, TypesServer
<1>4. CASE BreakPipe
  BY <1>1, <1>2, <1>3, <1>4, SameCore DEF BreakPipe, SyncInv
<1>5. CASE RestartCore
  <2>1. /\ changes' = changes + 1 /\ rev' = 0 /\ core' = [p \in Part |-> changes + 1] /\ sent' = 0
        /\ sending' = [t \in Publisher |-> Null] /\ changes \in Nat
    BY <1>1, <1>5, CoreNumbers DEF RestartCore
  <2>2. Off' = changes + 1 /\ \A p \in Part : At(p)' = 0
    BY <2>1 DEF Off, At
  <2>3. CoreInv'
    <3>1. \A p \in Part : core'[p] \in Off'..changes'
      BY <2>1, <2>2
    <3>2. \A p \in Part : ~ (sent' < At(p)')
      BY <2>1, <2>2
    <3>3. \A t \in Publisher : sending'[t] = Null
      BY <2>1
    <3>4. sent' <= rev' /\ rev' <= changes'
      BY <2>1
    <3>5. QED
      BY <2>1, <3>1, <3>2, <3>3, <3>4 DEF CoreInv
  <2>4. QED
    BY <1>2, <1>3, <2>3 DEF SyncInv
<1>6. QED
  BY <1>4, <1>5

-----------------------------------------------------------------------------
(* The steps of the window                                                 *)

\* Past the last snapshot the pipe holds events only, and the backend is
\* connected.
LEMMA EventsOnly ==
    ASSUME SyncTypeOK, ServerInv, PastSnapshot
    PROVE  status /\ \A i \in DOMAIN pipe : pipe[i].type = "event"
<1>1. pipe \in Seq(Message) /\ DOMAIN pipe = 1..Len(pipe) /\ Len(pipe) \in Nat
  BY LenProperties DEF SyncTypeOK
<1>2. Cut(pipe) = 0
  BY <1>1, CutIs DEF PastSnapshot
<1>3. \A i \in DOMAIN pipe : pipe[i].type = "event"
  BY <1>1, <1>2 DEF ServerInv, PastSnapshot
<1>4. QED
  BY <1>3 DEF ServerInv, Connects, PastSnapshot

\* A closed window, or one that has nothing yet, will have the state of the core.
LEMMA NothingShown ==
    ASSUME FlightInv, server = "up", wrev = Null, snap = Null, pending = Null
    PROVE  Fits
BY DEF FlightInv, Fits, Shown

LEMMA PipeStays ==
    ASSUME SyncInv, UNCHANGED <<coreVars, serverVars, pipe, status>>
    PROVE  /\ CoreInv' /\ ServerInv' /\ FlightInv'
           /\ \A C, w : Good(Flight, C, w) => Good(Flight, C, w)'
           /\ PastSnapshot' => PastSnapshot
<1>1. /\ server' = server /\ chan' = chan /\ lagged' = lagged /\ pipe' = pipe /\ status' = status
      /\ Cut(pipe)' = Cut(pipe) /\ Snaps(pipe)' = Snaps(pipe) /\ Flight' = Flight
      /\ rev' = rev
  BY DEF serverVars, coreVars, Flight, Live, Cut, Snaps
<1>2. PICK Q : Q = Flight
  OBVIOUS
<1>3. InTurn(Q) /\ \A B, w : Good(Flight, B, w) => Good(Q, B, w)
  BY <1>2 DEF SyncInv, FlightInv
<1>4. InTurn(Flight)' /\ \A C, w : Good(Flight, C, w) => Good(Flight, C, w)'
  BY <1>1, <1>2, <1>3, SameFlight
<1>5. Good(Flight, core, Null) => Good(Flight, core, Null)'
  BY <1>4 DEF Good
<1>6. ASSUME server = "up", ~lagged, Snaps(pipe) # {}
      PROVE  (pipe[Cut(pipe)].rev <= rev)' /\ Good(Flight, pipe[Cut(pipe)].state, pipe[Cut(pipe)].rev)'
  <2>1. PICK C, w : C = pipe[Cut(pipe)].state /\ w = pipe[Cut(pipe)].rev
    OBVIOUS
  <2>2. w <= rev /\ Good(Flight, C, w)
    BY <1>6, <2>1 DEF SyncInv, FlightInv
  <2>3. Good(Flight, C, w)'
    BY <1>4, <2>2
  <2>4. (pipe[Cut(pipe)].state)' = C /\ (pipe[Cut(pipe)].rev)' = w
    BY <1>1, <2>1
  <2>5. QED
    BY <1>1, <2>2, <2>3, <2>4 DEF Good, Passed
<1>7. FlightInv'
  BY <1>1, <1>4, <1>5, <1>6 DEF SyncInv, FlightInv
<1>8. ServerInv'
  BY <1>1 DEF SyncInv, ServerInv, Connects
<1>9. CoreInv'
  BY SameCore DEF SyncInv
<1>10. QED
  BY <1>1, <1>4, <1>7, <1>8, <1>9 DEF PastSnapshot

\* The window takes a message from the pipe.
LEMMA PipeMoves ==
    ASSUME SyncInv, UNCHANGED <<coreVars, serverVars>>, pipe # <<>>, pipe' = Tail(pipe),
           status' = CASE Head(pipe).type = "welcome" -> TRUE
                       [] Head(pipe).type = "broken" -> FALSE
                       [] OTHER -> status
    PROVE  /\ CoreInv' /\ ServerInv' /\ FlightInv'
           /\ PastSnapshot' =>
                \/ /\ Head(pipe).type = "snapshot" /\ Head(pipe).rev <= rev
                   /\ \A C, w : C = Head(pipe).state /\ w = Head(pipe).rev => Good(Flight, C, w)'
                \/ /\ PastSnapshot /\ Head(pipe).type = "event"
                   /\ Flight # <<>> /\ Head(Flight) = Head(pipe)
                   /\ \A C, w : Good(Tail(Flight), C, w) => Good(Flight, C, w)'
<1>1. /\ SyncTypeOK /\ CoreInv /\ ServerInv /\ FlightInv /\ pipe \in Seq(Message) /\ chan \in Seq(Event)
      /\ Flight \in Seq(Event) /\ (server = "up" => Live(pipe) \in Seq(Event))
  BY FlightIs DEF SyncInv, SyncTypeOK
<1>2. server' = server /\ chan' = chan /\ lagged' = lagged /\ rev' = rev /\ core' = core
  BY DEF serverVars, coreVars
<1> DEFINE P == Tail(pipe)
<1>3. /\ Len(pipe) \in Nat /\ Len(pipe) >= 1 /\ P \in Seq(Message) /\ Len(P) = Len(pipe) - 1
      /\ DOMAIN pipe = 1..Len(pipe) /\ DOMAIN P = 1..(Len(pipe) - 1)
      /\ \A i \in 1..(Len(pipe) - 1) : P[i] = pipe[i + 1]
      /\ Head(pipe) = pipe[1]
  BY <1>1, HeadTailProperties, LenProperties, EmptySeq
<1>4. Cut(pipe) \in 0..Len(pipe) /\ (Cut(pipe) = 0 <=> Snaps(pipe) = {})
  BY <1>1, CutIs
<1>5. /\ Cut(pipe) = 0 => /\ Cut(P) = 0 /\ Snaps(P) = {} /\ Live(pipe) = pipe /\ Live(P) = P
      /\ Cut(pipe) = 1 => Cut(P) = 0 /\ Snaps(P) = {} /\ Live(P) = Live(pipe) /\ Head(pipe).type = "snapshot"
      /\ Cut(pipe) > 1 => Cut(P) = Cut(pipe) - 1 /\ Snaps(P) # {} /\ Live(P) = Live(pipe) /\ P[Cut(P)] = pipe[Cut(pipe)]
  BY <1>1, CutTail
<1>6. Cut(pipe)' = Cut(P) /\ Snaps(pipe)' = Snaps(P) /\ Live(pipe)' = Live(P) /\ pipe' = P
  BY DEF Cut, Snaps, Live
<1> HIDE DEF P
<1>7. CoreInv'
  BY <1>1, SameCore
<1>8. ServerInv'
  <2>1. ASSUME server = "up" PROVE \A i \in (Cut(P) + 1)..Len(P) : P[i].type = "event"
    <3>1. \A i \in (Cut(pipe) + 1)..Len(pipe) : pipe[i].type = "event"
      BY <1>1, <2>1 DEF ServerInv
    <3>2. Cut(P) \in Nat /\ Cut(P) + 1 >= Cut(pipe)
      BY <1>3, <1>4, <1>5
    <3>3. \A i \in (Cut(P) + 1)..Len(P) : i \in 1..(Len(pipe) - 1) /\ i + 1 \in (Cut(pipe) + 1)..Len(pipe)
      BY <1>3, <1>4, <3>2
    <3>4. QED
      BY <1>3, <3>1, <3>3
  <2>2. ASSUME Connects PROVE Connects'
    <3>1. ASSUME NEW i \in 1..Len(pipe), i > 1, pipe[i].type = "welcome", \A j \in (i + 1)..Len(pipe) : pipe[j].type # "broken"
          PROVE  Connects'
      <4>1. i - 1 \in 1..(Len(pipe) - 1) /\ P[i - 1].type = "welcome"
        BY <1>3, <3>1
      <4>2. \A j \in ((i - 1) + 1)..(Len(pipe) - 1) : P[j].type # "broken"
        <5>1. \A j \in ((i - 1) + 1)..(Len(pipe) - 1) : j \in 1..(Len(pipe) - 1) /\ j + 1 \in (i + 1)..Len(pipe)
          BY <1>3
        <5>2. QED
          BY <1>3, <3>1, <5>1
      <4>3. QED
        BY <1>3, <1>6, <4>1, <4>2 DEF Connects
    <3>2. ASSUME status', \A j \in 2..Len(pipe) : pipe[j].type # "broken"
          PROVE  Connects'
      <4>1. \A j \in 1..(Len(pipe) - 1) : j + 1 \in 2..Len(pipe)
        BY <1>3
      <4>2. \A j \in 1..(Len(pipe) - 1) : P[j].type # "broken"
        BY <1>3, <3>2, <4>1
      <4>3. QED
        BY <1>3, <1>6, <3>2, <4>2 DEF Connects
    <3>3. CASE pipe[1].type = "welcome" /\ \A j \in 2..Len(pipe) : pipe[j].type # "broken"
      BY <1>3, <3>2, <3>3
    <3>4. CASE status /\ \A j \in 1..Len(pipe) : pipe[j].type # "broken"
      <4>1. pipe[1].type # "broken" /\ \A j \in 2..Len(pipe) : pipe[j].type # "broken"
        BY <1>3, <3>4
      <4>2. status'
        BY <1>3, <3>4, <4>1
      <4>3. QED
        BY <3>2, <4>1, <4>2
    <3>5. QED
      BY <1>3, <2>2, <3>1, <3>3, <3>4 DEF Connects
  <2>3. (server \in {"down", "welcome"} => chan = <<>>)' /\ (lagged => server \in {"subscribed", "up"})'
    BY <1>1, <1>2 DEF ServerInv
  <2>4. (server = "up" => \A i \in (Cut(pipe) + 1)..Len(pipe) : pipe[i].type = "event")'
    BY <1>2, <1>6, <2>1
  <2>5. (server # "down" => Connects)'
    BY <1>1, <1>2, <2>2 DEF ServerInv
  <2>6. QED
    BY <2>3, <2>4, <2>5 DEF ServerInv
<1>9. CASE server = "up" /\ ~lagged /\ Cut(pipe) = 0
  <2>1. Flight = pipe \o chan /\ Flight' = P \o chan /\ pipe \in Seq(Event) /\ PastSnapshot
    BY <1>1, <1>2, <1>4, <1>5, <1>6, <1>9 DEF Flight, PastSnapshot
  <2>2. Flight # <<>> /\ Head(Flight) = Head(pipe) /\ Tail(Flight) = P \o chan
    BY <1>1, <2>1, EventQueues DEF P
  <2>3. Head(pipe).type = "event"
    BY <1>1, <1>3, <2>1, EventsOnly
  <2>4. PICK Q : Q = Tail(Flight)
    OBVIOUS
  <2>5. Flight' = Q
    BY <2>1, <2>2, <2>4
  <2>6. InTurn(Q) /\ Good(Q, core, Null)
    <3>1. Q \in Seq(Event) /\ InTurn(Flight) /\ Good(Flight, core, Null)
      BY <1>1, <1>9, <2>2, <2>4, TailIs DEF FlightInv
    <3>2. 1 \in Nat /\ Len(Flight) = Len(Q) + 1 /\ \A i \in 1..Len(Q) : Q[i] = Flight[i + 1]
      BY <1>1, <2>2, <2>4, TailIs
    <3>3. QED
      BY <1>1, <3>1, <3>2, Missed
  <2>7. InTurn(Flight)' /\ Good(Flight, core, Null)'
    BY <2>5, <2>6, SameFlight
  <2>8. \A C, w : Good(Tail(Flight), C, w) => Good(Flight, C, w)'
    <3>1. \A C, w : Good(Q, C, w) => Good(Flight, C, w)'
      BY <2>5, SameFlight
    <3>2. QED
      BY <2>4, <3>1
  <2>9. FlightInv'
    BY <1>5, <1>6, <1>9, <2>7 DEF FlightInv
  <2>10. QED
    BY <1>7, <1>8, <2>1, <2>2, <2>3, <2>8, <2>9
<1>10. CASE ~ (server = "up" /\ ~lagged /\ Cut(pipe) = 0)
  <2>1. Flight' = Flight
    BY <1>2, <1>4, <1>5, <1>6, <1>10 DEF Flight
  <2>2. PICK Q : Q = Flight
    OBVIOUS
  <2>3. InTurn(Q) /\ \A B, w : Good(Flight, B, w) => Good(Q, B, w)
    BY <1>1, <2>2 DEF FlightInv
  <2>4. InTurn(Flight)' /\ \A C, w : Good(Flight, C, w) => Good(Flight, C, w)'
    BY <2>1, <2>2, <2>3, SameFlight
  <2>5. Good(Flight, core, Null) => Good(Flight, core, Null)'
    BY <2>4 DEF Good
  <2>6. ASSUME server = "up", ~lagged, Cut(pipe) > 1
        PROVE  (pipe[Cut(pipe)].rev <= rev)' /\ Good(Flight, pipe[Cut(pipe)].state, pipe[Cut(pipe)].rev)'
    <3>1. PICK C, w : C = pipe[Cut(pipe)].state /\ w = pipe[Cut(pipe)].rev
      OBVIOUS
    <3>2. w <= rev /\ Good(Flight, C, w)
      BY <1>1, <1>4, <2>6, <3>1 DEF FlightInv
    <3>3. Good(Flight, C, w)'
      BY <2>4, <3>2
    <3>4. (pipe[Cut(pipe)].state)' = C /\ (pipe[Cut(pipe)].rev)' = w
      BY <1>5, <1>6, <2>6, <3>1
    <3>5. QED
      BY <1>2, <3>2, <3>3, <3>4 DEF Good, Passed
  <2>7. server = "up" /\ ~lagged => Cut(pipe) = 1 \/ Cut(pipe) > 1
    BY <1>3, <1>4, <1>10
  <2>8. FlightInv'
    BY <1>1, <1>2, <1>5, <1>6, <2>4, <2>5, <2>6, <2>7 DEF FlightInv
  <2>9. ASSUME server = "up", ~lagged, Cut(pipe) = 1, NEW C, NEW w, C = Head(pipe).state, w = Head(pipe).rev
        PROVE  w <= rev /\ Good(Flight, C, w)'
    <3>1. C = pipe[Cut(pipe)].state /\ w = pipe[Cut(pipe)].rev
      BY <1>3, <2>9
    <3>2. w <= rev /\ Good(Flight, C, w)
      BY <1>1, <1>4, <2>9, <3>1 DEF FlightInv
    <3>3. QED
      BY <2>4, <3>2
  <2>10. PastSnapshot' => server = "up" /\ ~lagged /\ Cut(pipe) = 1
    BY <1>2, <1>5, <1>6, <2>7 DEF PastSnapshot
  <2>11. QED
    BY <1>5, <1>7, <1>8, <2>8, <2>9, <2>10
<1>11. QED
  BY <1>9, <1>10

\* Nobody listens, or listens from now on.
LEMMA ClosedStep == ASSUME SyncInv, Unheard \/ CloseWindow \/ OpenWindow PROVE SyncInv'
<1>1. SyncTypeOK /\ PendInv
  BY DEF SyncInv
<1>2. SyncTypeOK'
  BY <1>1, TypesWindow DEF WindowStep
<1>3. CASE Unheard
  <2>1. /\ UNCHANGED <<coreVars, serverVars>> /\ pipe # <<>> /\ pipe' = Tail(pipe)
        /\ status' = CASE Head(pipe).type = "welcome" -> TRUE
                       [] Head(pipe).type = "broken" -> FALSE
                       [] OTHER -> status
    BY <1>3 DEF Unheard
  <2>2. CoreInv' /\ ServerInv' /\ FlightInv'
    BY <2>1, PipeMoves
  <2>3. /\ UNCHANGED <<winVars, asks>> /\ window' = "closed" /\ wrev' = Null /\ snap' = Null /\ pending' = Null
    BY <1>1, <1>3 DEF Unheard, PendInv, winVars
  <2>4. PendInv'
    BY <1>1, <2>3, PendKept
  <2>5. PastSnapshot' => Fits' /\ Starts'
    <3>1. PastSnapshot' => Fits'
      BY <2>2, <2>3, NothingShown DEF PastSnapshot, FlightInv, Fits, Shown
    <3>2. QED
      BY <2>3, <3>1 DEF Starts
  <2>6. QED
    BY <1>2, <2>2, <2>4, <2>5 DEF SyncInv, WindowInv
<1>4. CASE CloseWindow \/ OpenWindow
  <2>1. UNCHANGED <<coreVars, serverVars, pipe, status>>
    BY <1>4 DEF CloseWindow, OpenWindow
  <2>2. CoreInv' /\ ServerInv' /\ FlightInv'
    BY <2>1, PipeStays
  <2>3. /\ wrev' = Null /\ snap' = Null /\ pending' = Null /\ window' # "open" /\ read' = Null /\ ~conn'
        /\ asks' = {} \/ asks' = asks
    BY <1>1, <1>4 DEF CloseWindow, OpenWindow, PendInv
  <2>4. PendInv'
    BY <1>1, <2>3 DEF PendInv
  <2>5. PastSnapshot' => Fits' /\ Starts'
    <3>1. PastSnapshot' => Fits'
      BY <2>2, <2>3 DEF PastSnapshot, FlightInv, Fits, Shown
    <3>2. read' # FALSE
      BY <2>3, NullIsNull
    <3>3. QED
      BY <2>3, <3>1, <3>2 DEF Starts
  <2>6. QED
    BY <1>2, <2>2, <2>4, <2>5 DEF SyncInv, WindowInv
<1>5. QED
  BY <1>3, <1>4

\* A window that asks for the state has no other request with its number.
LEMMA AskIs ==
    ASSUME SyncTypeOK, PendInv, NEW events \in Seq(Event), Ask(events)
    PROVE  /\ pending' = [id |-> lastAsk + 1, from |-> wrev, events |-> events] /\ pending' # Null
           /\ \E a : /\ asks' = asks \cup {a} /\ a.id = lastAsk + 1
                     /\ (server # "down" => a.answer = "awaited") /\ a.answer # "taken"
           /\ \A a \in asks : a.id # lastAsk + 1
           /\ \A a, b \in asks' : a.id = b.id => a = b
<1>1. \A a \in asks : a.id \in 1..lastAsk
  BY DEF SyncTypeOK
<1>2. lastAsk \in Nat
  BY SyncBounds DEF SyncTypeOK
<1>3. PICK answer \in {"awaited"} \cup (IF server = "down" THEN {"failed"} ELSE {}) :
          asks' = asks \cup {[id |-> lastAsk + 1, answer |-> answer, state |-> Null]}
  BY DEF Ask
<1>4. PICK a : a = [id |-> lastAsk + 1, answer |-> answer, state |-> Null]
  OBVIOUS
<1>5. asks' = asks \cup {a} /\ a.id = lastAsk + 1 /\ (server # "down" => a.answer = "awaited") /\ a.answer # "taken"
  BY <1>3, <1>4
<1>6. \A b \in asks : b.id # lastAsk + 1
  BY <1>1, <1>2
<1>7. \A b, c \in asks' : b.id = c.id => b = c
  BY <1>5, <1>6 DEF PendInv
<1>8. pending' = [id |-> lastAsk + 1, from |-> wrev, events |-> events]
  BY DEF Ask
<1>9. pending' # Null
  <2>1. lastAsk + 1 \in 1..MaxAsk /\ wrev \in Nat \cup {Null}
    BY <1>2, SyncBounds DEF Ask, SyncTypeOK
  <2>2. pending' \in Waiting
    BY <1>8, <2>1 DEF Waiting
  <2>3. QED
    BY <2>2, NullIsNull
<1>10. QED
  BY <1>5, <1>6, <1>7, <1>8, <1>9

\* ... and has kept what has come since.
LEMMA AskPend ==
    ASSUME SyncTypeOK, PendInv, NEW events \in Seq(Event), Ask(events), window' # "closed",
           \/ events = <<>> /\ wrev' = wrev
           \/ \E e \in Event : events = <<e>> /\ wrev' = e.rev /\ (wrev # Null => e.rev > wrev)
    PROVE  PendInv'
<1>1. /\ pending' = [id |-> lastAsk + 1, from |-> wrev, events |-> events]
      /\ \A a, b \in asks' : a.id = b.id => a = b
  BY AskIs
<1>2. wrev \in Nat \cup {Null}
  BY DEF SyncTypeOK
<1>3. pending'.from = wrev /\ pending'.events = events
  BY <1>1
<1>4. CASE events = <<>> /\ wrev' = wrev
  BY <1>1, <1>2, <1>3, <1>4 DEF PendInv
<1>5. ASSUME NEW e \in Event, events = <<e>>, wrev' = e.rev, wrev # Null => e.rev > wrev PROVE PendInv'
  <2>1. e.rev \in Nat /\ events # <<>> /\ Len(events) = 1 /\ events[1] = e /\ DOMAIN events = {1}
    BY <1>5, EventIs
  <2>2. wrev' = events[Len(events)].rev
    BY <1>5, <2>1
  <2>3. wrev # Null => wrev' >= wrev /\ \A i \in DOMAIN events : events[i].rev > wrev
    BY <1>2, <1>5, <2>1
  <2>4. QED
    BY <1>1, <1>3, <2>1, <2>2, <2>3 DEF PendInv
<1>6. QED
  BY <1>4, <1>5

\* The backend is connected: the window asks when it did not know.
LEMMA ResyncPend ==
    ASSUME SyncTypeOK, PendInv, OnConnected, wrev' = wrev, snap' = snap, window' # "closed"
    PROVE  PendInv'
<1>1. CASE UNCHANGED <<pending, asks, lastAsk>>
  BY <1>1 DEF PendInv
<1>2. CASE Ask(<<>>)
  BY <1>2, AskPend, EmptySeq
<1>3. QED
  BY <1>1, <1>2 DEF OnConnected, Resync

\* A welcome, a Bye or a broken pipe is not past the session's snapshot.
LEMMA StatusMessages == ASSUME SyncInv, OnWelcome \/ OnBroken \/ OnBye PROVE SyncInv'
<1>1. SyncTypeOK /\ PendInv
  BY DEF SyncInv
<1>2. SyncTypeOK'
  BY <1>1, TypesWindow DEF WindowStep
<1>3. /\ UNCHANGED <<coreVars, serverVars>> /\ pipe # <<>> /\ pipe' = Tail(pipe)
      /\ status' = CASE Head(pipe).type = "welcome" -> TRUE
                     [] Head(pipe).type = "broken" -> FALSE
                     [] OTHER -> status
      /\ Head(pipe).type \in {"welcome", "broken", "bye"}
  BY DEF OnWelcome, OnBroken, OnBye, Receive
<1>4. CoreInv' /\ ServerInv' /\ FlightInv' /\ ~PastSnapshot'
  BY <1>3, PipeMoves
<1>5. window' = window /\ window # "closed" /\ wrev' = wrev
  BY DEF OnWelcome, OnBroken, OnBye
<1>6. PendInv'
  <2>1. CASE OnWelcome
    BY <1>1, <1>5, <2>1, ResyncPend DEF OnWelcome
  <2>2. CASE OnBroken \/ OnBye
    BY <1>1, <1>5, <2>2 DEF PendInv, OnBroken, OnBye
  <2>3. QED
    BY <2>1, <2>2
<1>7. QED
  BY <1>2, <1>4, <1>6 DEF SyncInv, WindowInv

\* The snapshot of the session
LEMMA OnSnapshotStep == ASSUME SyncInv, OnSnapshot PROVE SyncInv'
<1>1. SyncTypeOK /\ PendInv
  BY DEF SyncInv
<1>2. SyncTypeOK'
  BY <1>1, TypesWindow DEF WindowStep
<1>3. /\ UNCHANGED <<coreVars, serverVars>> /\ pipe # <<>> /\ pipe' = Tail(pipe)
      /\ status' = CASE Head(pipe).type = "welcome" -> TRUE
                     [] Head(pipe).type = "broken" -> FALSE
                     [] OTHER -> status
      /\ Head(pipe).type = "snapshot" /\ rev' = rev
  BY DEF OnSnapshot, Receive, coreVars
<1>4. Head(pipe).state \in Parts /\ Head(pipe).state # Null
  BY <1>1, <1>3, PipeIs, MessageIs, NullIsNull
<1>5. /\ CoreInv' /\ ServerInv' /\ FlightInv'
      /\ PastSnapshot' => Head(pipe).rev <= rev
                          /\ \A C, w : C = Head(pipe).state /\ w = Head(pipe).rev => Good(Flight, C, w)'
  BY <1>3, PipeMoves
<1>6. /\ pending' = Null /\ snap' = Head(pipe).state /\ wrev' = Head(pipe).rev /\ snap' # Null
      /\ window' = window /\ window # "closed" /\ asks' = asks
  BY <1>4 DEF OnSnapshot
<1>7. PendInv'
  BY <1>1, <1>6 DEF PendInv
<1>8. ASSUME PastSnapshot' PROVE Fits' /\ Starts'
  <2>1. PICK C, w : C = Head(pipe).state /\ w = Head(pipe).rev
    OBVIOUS
  <2>2. w <= rev /\ Good(Flight, C, w)'
    BY <1>5, <1>8, <2>1
  <2>3. Shown' = C /\ wrev' = w
    BY <1>6, <2>1 DEF Shown
  <2>4. Good(Flight, Shown, wrev)'
    BY <2>2, <2>3 DEF Good, Passed
  <2>5. Fits'
    BY <1>3, <1>6, <2>2, <2>3, <2>4 DEF Fits
  <2>6. QED
    BY <1>6, <2>5 DEF Starts
<1>9. QED
  BY <1>2, <1>5, <1>7, <1>8 DEF SyncInv, WindowInv

\* An event the window knows already
LEMMA DropStep == ASSUME SyncInv, DropEvent PROVE SyncInv'
<1>1. SyncTypeOK /\ CoreInv /\ ServerInv /\ PendInv /\ FlightInv
  BY DEF SyncInv
<1>2. SyncTypeOK'
  BY <1>1, TypesWindow DEF WindowStep
<1>3. /\ UNCHANGED <<coreVars, serverVars>> /\ pipe # <<>> /\ pipe' = Tail(pipe)
      /\ status' = CASE Head(pipe).type = "welcome" -> TRUE
                     [] Head(pipe).type = "broken" -> FALSE
                     [] OTHER -> status
      /\ Head(pipe).type = "event" /\ wrev # Null /\ Head(pipe).rev <= wrev
  BY DEF DropEvent, Receive
<1>4. /\ CoreInv' /\ ServerInv' /\ FlightInv'
      /\ PastSnapshot' => /\ PastSnapshot /\ Flight # <<>> /\ Head(Flight) = Head(pipe)
                          /\ \A C, w : Good(Tail(Flight), C, w) => Good(Flight, C, w)'
  BY <1>3, PipeMoves
<1>5. /\ UNCHANGED <<coreVars, wrev, snap, pending>> /\ asks' = asks
      /\ window' = window /\ read' = read /\ conn' = conn /\ wrev' = wrev /\ snap' = snap /\ pending' = pending
      /\ (late => late')
  BY DEF DropEvent, Judge
<1>6. PendInv'
  BY <1>1, <1>5 DEF PendInv
<1>7. ASSUME PastSnapshot', ~late' PROVE Fits' /\ Starts'
  <2>1. Fits /\ Starts
    BY <1>4, <1>5, <1>7 DEF SyncInv, WindowInv
  <2>2. ASSUME NEW C, NEW w, w = wrev, Good(Flight, C, w) PROVE Good(Flight, C, w)'
    <3>1. w \in Nat /\ Head(Flight).rev <= w /\ Flight \in Seq(Event) /\ InTurn(Flight)
      BY <1>1, <1>3, <1>4, <1>7, <2>2, FlightIs DEF SyncTypeOK, FlightInv
    <3>2. Good(Tail(Flight), C, w)
      BY <1>1, <1>4, <1>7, <2>2, <3>1, Known
    <3>3. QED
      BY <1>4, <1>7, <3>2
  <2>3. Fits'
    BY <1>5, <2>1, <2>2, FitsKept
  <2>4. Starts'
    BY <1>5, <2>1 DEF Starts
  <2>5. QED
    BY <2>3, <2>4
<1>8. QED
  BY <1>2, <1>4, <1>6, <1>7 DEF SyncInv, WindowInv

\* The events the window has kept are all after the revision it asked from.
LEMMA SinceIs ==
    ASSUME SyncTypeOK, PendInv, pending # Null
    PROVE  /\ Since = DOMAIN pending.events
           /\ wrev = IF Since = {} THEN pending.from ELSE pending.events[LastOf(Since)].rev
<1>1. /\ pending.events \in Seq(Event) /\ Len(pending.events) \in Nat /\ DOMAIN pending.events = 1..Len(pending.events)
  BY WaitingIs
<1>2. Since = DOMAIN pending.events
  BY DEF PendInv, Since
<1>3. wrev = IF pending.events = <<>> THEN pending.from ELSE pending.events[Len(pending.events)].rev
  BY DEF PendInv
<1>4. CASE pending.events = <<>>
  BY <1>1, <1>2, <1>3, <1>4, EmptySeq
<1>5. CASE pending.events # <<>>
  <2>1. Len(pending.events) # 0
    BY <1>1, <1>5, EmptySeq
  <2>2. Len(pending.events) \in Since /\ Since \subseteq Nat /\ \A j \in Since : j <= Len(pending.events)
    BY <1>1, <1>2, <2>1
  <2>3. LastOf(Since) = Len(pending.events)
    BY <2>2, LastIsThat
  <2>4. QED
    BY <1>2, <1>3, <1>5, <2>2, <2>3
<1>6. QED
  BY <1>4, <1>5

\* An answer: what it leaves the window with is what it was to be.
LEMMA AnswerStep == ASSUME SyncInv, NEW a \in asks, OnAnswer(a) PROVE SyncInv'
<1>1. SyncTypeOK /\ PendInv /\ WindowInv
  BY DEF SyncInv
<1>2. SyncTypeOK'
  BY <1>1, TypesWindow DEF WindowStep
<1>3. /\ UNCHANGED <<coreVars, serverVars, pipe, status>> /\ asks' = asks \ {a} /\ a.answer # "awaited"
      /\ window' = window /\ read' = read /\ conn' = conn /\ late' = late /\ rev' = rev
  BY DEF OnAnswer, coreVars
<1>4. /\ CoreInv' /\ ServerInv' /\ FlightInv' /\ (PastSnapshot' => PastSnapshot)
      /\ \A C, w : Good(Flight, C, w) => Good(Flight, C, w)'
  BY <1>3, PipeStays
<1>5. \A x, y \in asks' : x.id = y.id => x = y
  BY <1>1, <1>3 DEF PendInv
<1>6. CASE pending = Null \/ pending.id # a.id
  <2>1. wrev' = wrev /\ snap' = snap /\ pending' = pending
    BY <1>6 DEF OnAnswer
  <2>2. PendInv'
    BY <1>1, <1>3, <1>5, <2>1 DEF PendInv
  <2>3. ASSUME PastSnapshot', ~late' PROVE Fits' /\ Starts'
    <3>1. Fits /\ Starts
      BY <1>1, <1>3, <1>4, <2>3 DEF WindowInv
    <3>2. pending # Null => \A y \in asks : y.id = pending.id => y \in asks'
      BY <1>3, <1>6
    <3>3. Fits'
      BY <1>3, <1>4, <2>1, <3>1, <3>2, FitsKept
    <3>4. Starts'
      BY <1>3, <2>1, <3>1 DEF Starts
    <3>5. QED
      BY <3>3, <3>4
  <2>4. QED
    BY <1>2, <1>4, <2>2, <2>3 DEF SyncInv, WindowInv
<1>7. CASE pending # Null /\ pending.id = a.id
  <2>1. pending' = Null
    BY <1>7 DEF OnAnswer
  <2>2. PendInv'
    <3>1. window # "closed"
      BY <1>1, <1>7 DEF PendInv
    <3>2. QED
      BY <1>3, <1>5, <2>1, <3>1 DEF PendInv
  <2>3. ASSUME PastSnapshot', ~late' PROVE Fits' /\ Starts'
    <3>1. Fits /\ Starts
      BY <1>1, <1>3, <1>4, <2>3 DEF WindowInv
    <3>2. a.answer # "failed" /\ Good(Flight, Replayed(a), wrev) /\ (wrev # Null => wrev <= rev)
      BY <1>7, <3>1 DEF Fits
    <3>3. a.answer = "taken" /\ a.state \in Parts
      BY <1>1, <1>3, <3>2 DEF SyncTypeOK
    <3>4. /\ snap' = Replay(a.state, pending.events, Since)
          /\ wrev' = IF Since = {} THEN pending.from ELSE pending.events[LastOf(Since)].rev
      BY <1>7, <3>2 DEF OnAnswer, Since
    <3>5. snap' = Replayed(a) /\ wrev' = wrev
      BY <1>1, <1>7, <3>3, <3>4, SinceIs DEF Replayed
    <3>6. snap' \in Parts /\ snap' # Null
      <4>1. pending.events \in Seq(Event) /\ Since \subseteq DOMAIN pending.events
        BY <1>1, <1>7, WaitingIs, SinceIs
      <4>2. QED
        BY <3>3, <3>4, <4>1, ReplayIs, NullIsNull
    <3>7. PICK C, w : C = Replayed(a) /\ w = wrev
      OBVIOUS
    <3>8. Good(Flight, C, w)'
      BY <1>4, <3>2, <3>7
    <3>9. Shown' = C /\ wrev' = w
      BY <3>5, <3>6, <3>7 DEF Shown
    <3>10. Good(Flight, Shown, wrev)'
      BY <3>8, <3>9 DEF Good, Passed
    <3>11. Fits'
      BY <1>3, <2>1, <3>2, <3>5, <3>10 DEF Fits
    <3>12. QED
      BY <2>1, <3>6, <3>11 DEF Starts
  <2>4. QED
    BY <1>2, <1>4, <2>2, <2>3 DEF SyncInv, WindowInv
<1>8. QED
  BY <1>6, <1>7

\* The window reads the status: connected, when the pipe holds events only.
LEMMA ReadStep == ASSUME SyncInv, ReadStatus PROVE SyncInv'
<1>1. SyncTypeOK /\ PendInv /\ WindowInv /\ ServerInv
  BY DEF SyncInv
<1>2. SyncTypeOK'
  BY <1>1, TypesWindow DEF WindowStep
<1>3. /\ UNCHANGED <<coreVars, serverVars, pipe, status>> /\ asks' = asks /\ UNCHANGED <<coreVars, wrev, snap, pending>>
      /\ window' = window /\ conn' = conn /\ late' = late /\ wrev' = wrev /\ snap' = snap /\ pending' = pending
      /\ window = "listening"
  BY DEF ReadStatus
<1>4. /\ CoreInv' /\ ServerInv' /\ FlightInv' /\ (PastSnapshot' => PastSnapshot)
      /\ \A C, w : Good(Flight, C, w) => Good(Flight, C, w)'
  BY <1>3, PipeStays
<1>5. PendInv'
  BY <1>1, <1>3 DEF PendInv
<1>6. ASSUME PastSnapshot', ~late' PROVE Fits' /\ Starts'
  <2>1. Fits /\ Starts
    BY <1>1, <1>3, <1>4, <1>6 DEF WindowInv
  <2>2. Fits'
    BY <1>3, <1>4, <2>1, FitsKept
  <2>3. status /\ \A i \in DOMAIN pipe : pipe[i].type = "event"
    BY <1>1, <1>4, <1>6, EventsOnly
  <2>4. PICK n \in 0..Len(pipe) : read' = StatusAfter(n)
    BY DEF ReadStatus
  <2>5. \A i \in 1..n : pipe[i].type = "event"
    <3>1. DOMAIN pipe = 1..Len(pipe) /\ Len(pipe) \in Nat
      BY <1>1, LenProperties DEF SyncTypeOK
    <3>2. QED
      BY <2>3, <3>1
  <2>6. {i \in 1..n : pipe[i].type \in {"welcome", "broken"}} = {}
    BY <2>5
  <2>7. read' # FALSE
    BY <2>3, <2>4, <2>6 DEF StatusAfter
  <2>8. Starts'
    <3>1. window' = "listening" /\ (snap' = Null /\ pending' = Null => ~conn')
      BY <1>3, <2>1 DEF Starts
    <3>2. QED
      BY <2>7, <3>1 DEF Starts
  <2>9. QED
    BY <2>2, <2>8
<1>7. QED
  BY <1>2, <1>4, <1>5, <1>6 DEF SyncInv, WindowInv

\* The window asks for the state, which will be what it replays the events on.
LEMMA AskFits ==
    ASSUME SyncTypeOK, PendInv, NEW events \in Seq(Event), Ask(events), server # "down",
           wrev' # Null => wrev' <= rev',
           NEW C, C = Replay(core, pending.events, Since)', Good(Flight, C, wrev)'
    PROVE  Fits'
<1>1. /\ pending' # Null /\ pending'.id = lastAsk + 1
      /\ \E a : /\ asks' = asks \cup {a} /\ a.id = lastAsk + 1 /\ a.answer = "awaited"
      /\ \A a \in asks : a.id # lastAsk + 1
  BY AskIs
<1>2. \E a \in asks' : a.id = pending'.id
  BY <1>1
<1>3. ASSUME NEW a \in asks', a.id = pending'.id PROVE a.answer # "failed" /\ Good(Flight, Replayed(a), wrev)'
  <2>1. a.answer = "awaited"
    BY <1>1, <1>3
  <2>2. Replayed(a)' = C
    BY <2>1 DEF Replayed
  <2>3. QED
    BY <2>1, <2>2 DEF Good
<1>4. QED
  BY <1>1, <1>2, <1>3 DEF Fits

LEMMA OnStatusStep == ASSUME SyncInv, OnStatus PROVE SyncInv'
<1>1. SyncTypeOK /\ PendInv /\ WindowInv /\ ServerInv
  BY DEF SyncInv
<1>2. SyncTypeOK'
  BY <1>1, TypesWindow DEF WindowStep
<1>3. /\ UNCHANGED <<coreVars, serverVars, pipe, status>> /\ UNCHANGED coreVars
      /\ window = "listening" /\ window' = "open" /\ late' = late /\ wrev' = wrev /\ snap' = snap
      /\ read # Null /\ rev' = rev /\ core' = core
  BY DEF OnStatus, coreVars
<1>4. /\ CoreInv' /\ ServerInv' /\ FlightInv' /\ (PastSnapshot' => PastSnapshot)
      /\ \A C, w : Good(Flight, C, w) => Good(Flight, C, w)'
  BY <1>3, PipeStays
<1>5. CASE read = FALSE \/ conn \/ pending # Null
  <2>1. UNCHANGED <<pending, asks, lastAsk>>
    BY <1>1, <1>3, <1>5 DEF OnStatus, OnConnected, Resync, SyncTypeOK
  <2>2. PendInv'
    BY <1>1, <1>3, <2>1 DEF PendInv
  <2>3. ASSUME PastSnapshot', ~late' PROVE Fits' /\ Starts'
    <3>1. Fits /\ Starts
      BY <1>1, <1>3, <1>4, <2>3 DEF WindowInv
    <3>2. Fits'
      BY <1>3, <1>4, <2>1, <3>1, FitsKept
    <3>3. snap # Null \/ pending # Null
      BY <1>3, <1>5, <3>1 DEF Starts
    <3>4. QED
      BY <1>3, <2>1, <3>2, <3>3 DEF Starts
  <2>4. QED
    BY <1>2, <1>4, <2>2, <2>3 DEF SyncInv, WindowInv
<1>6. CASE ~ (read = FALSE \/ conn \/ pending # Null)
  <2>1. read = TRUE
    BY <1>1, <1>3, <1>6 DEF SyncTypeOK
  <2>2. OnConnected
    BY <2>1 DEF OnStatus
  <2>3. Ask(<<>>) /\ <<>> \in Seq(Event)
    BY <1>6, <2>2, EmptySeq DEF OnConnected, Resync
  <2>4. PendInv'
    BY <1>1, <1>3, <2>3, AskPend
  <2>5. ASSUME PastSnapshot', ~late' PROVE Fits' /\ Starts'
    <3>1. Fits /\ Starts /\ server # "down"
      BY <1>1, <1>3, <1>4, <2>5 DEF WindowInv, PastSnapshot
    <3>2. pending' # Null /\ pending'.events = <<>>
      <4>1. PICK events \in Seq(Event) : events = <<>> /\ Ask(events)
        BY <2>3
      <4>2. pending' = [id |-> lastAsk + 1, from |-> wrev, events |-> events] /\ pending' # Null
        BY <1>1, <4>1, AskIs
      <4>3. QED
        BY <4>1, <4>2
    <3>3. Since' = {}
      BY <3>2, EmptySeq DEF Since
    <3>4. PICK C : C = Replay(core, pending.events, Since)'
      OBVIOUS
    <3>5. PICK w : w = wrev
      OBVIOUS
    <3>6. Good(Flight, core, wrev) /\ (wrev # Null => wrev <= rev)
      <4>1. Good(Flight, Shown, wrev) /\ (wrev # Null => wrev <= rev)
        BY <1>6, <3>1 DEF Fits
      <4>2. QED
        BY <4>1, CoreWillDo
    <3>7. \A p \in Part : C[p] = core[p]
      BY <1>3, <3>2, <3>3, <3>4, ReplayNone DEF Replay
    <3>8. Good(Flight, C, w)
      BY <3>5, <3>6, <3>7 DEF Good
    <3>9. Good(Flight, C, w)'
      BY <1>4, <3>8
    <3>10. Good(Flight, C, wrev)'
      BY <1>3, <3>5, <3>9 DEF Good, Passed
    <3>11. Fits'
      BY <1>1, <1>3, <2>3, <3>1, <3>4, <3>6, <3>10, AskFits
    <3>12. QED
      BY <3>2, <3>11 DEF Starts
  <2>6. QED
    BY <1>2, <1>4, <2>4, <2>5 DEF SyncInv, WindowInv
<1>7. QED
  BY <1>5, <1>6

LEMMA OneEvent ==
    ASSUME NEW e \in Event
    PROVE  <<e>> \in Seq(Event) /\ Append(<<>>, e) = <<e>> /\ Len(<<e>>) = 1
OBVIOUS

\* An event: applied, kept while a snapshot is on its way, or with the request
\* when one before it was lost.
LEMMA ApplyStep == ASSUME SyncInv, ApplyEvent PROVE SyncInv'
<1>1. SyncTypeOK /\ CoreInv /\ ServerInv /\ PendInv /\ FlightInv /\ WindowInv
  BY DEF SyncInv
<1>2. SyncTypeOK'
  BY <1>1, TypesWindow DEF WindowStep
<1> DEFINE e == Head(pipe)
<1>3. /\ UNCHANGED <<coreVars, serverVars>> /\ pipe # <<>> /\ pipe' = Tail(pipe)
      /\ status' = CASE Head(pipe).type = "welcome" -> TRUE
                     [] Head(pipe).type = "broken" -> FALSE
                     [] OTHER -> status
      /\ e.type = "event" /\ (wrev # Null => e.rev > wrev) /\ Keep(e) /\ wrev' = e.rev /\ Judge(e)
      /\ snap' = (IF snap = Null THEN Null ELSE [snap EXCEPT ![e.part] = e.value])
      /\ window' = window /\ window # "closed" /\ read' = read /\ conn' = conn
  BY DEF ApplyEvent, Receive
<1>4. /\ CoreInv' /\ ServerInv' /\ FlightInv'
      /\ PastSnapshot' => /\ PastSnapshot /\ Flight # <<>> /\ Head(Flight) = e
                          /\ \A C, w : Good(Tail(Flight), C, w) => Good(Flight, C, w)'
  BY <1>3, PipeMoves
<1>5. e \in Event /\ e.rev \in Nat /\ e.part \in Part /\ e.value \in Nat /\ e.odd \in BOOLEAN
  BY <1>1, <1>3, PipeIs, MessageIs, EventIs
<1>6. rev' = rev /\ core' = core /\ wrev \in Nat \cup {Null}
  BY <1>1, <1>3 DEF coreVars, SyncTypeOK
<1> HIDE DEF e
<1>7. PendInv'
  <2>1. CASE pending # Null
    <3>1. /\ pending' = [pending EXCEPT !.events = Append(@, e)] /\ asks' = asks
      BY <1>3, <2>1 DEF Keep
    <3>2. /\ pending.events \in Seq(Event) /\ Len(pending.events) \in Nat /\ DOMAIN pending.events = 1..Len(pending.events)
          /\ pending \in Waiting /\ pending.from \in Nat \cup {Null}
      BY <1>1, <2>1, WaitingIs DEF SyncTypeOK
    <3>3. pending'.from = pending.from /\ pending'.events = Append(pending.events, e)
      BY <3>1, <3>2 DEF Waiting
    <3>4. /\ Append(pending.events, e) # <<>> /\ Len(Append(pending.events, e)) = Len(pending.events) + 1
          /\ DOMAIN Append(pending.events, e) = 1..(Len(pending.events) + 1)
          /\ \A i \in 1..Len(pending.events) : Append(pending.events, e)[i] = pending.events[i]
          /\ Append(pending.events, e)[Len(pending.events) + 1] = e
      BY <1>5, <3>2, QueueIs, EmptySeq
    <3>5. ASSUME pending.from # Null
          PROVE  e.rev > pending.from /\ \A i \in 1..(Len(pending.events) + 1) : Append(pending.events, e)[i].rev > pending.from
      <4>1. wrev >= pending.from /\ \A i \in 1..Len(pending.events) : pending.events[i].rev > pending.from
        BY <1>1, <2>1, <3>2, <3>5 DEF PendInv
      <4>2. wrev # Null
        <5>1. wrev = IF pending.events = <<>> THEN pending.from ELSE pending.events[Len(pending.events)].rev
          BY <1>1, <2>1 DEF PendInv
        <5>2. pending.events # <<>> => pending.events[Len(pending.events)].rev \in Nat
          <6>1. pending.events # <<>> => Len(pending.events) \in 1..Len(pending.events)
            BY <3>2, EmptySeq
          <6>2. QED
            BY <1>1, <2>1, <6>1, WaitingIs
        <5>3. QED
          BY <3>5, <5>1, <5>2, NullIsNull
      <4>3. e.rev > pending.from
        BY <1>3, <1>5, <1>6, <3>2, <3>5, <4>1, <4>2
      <4>4. \A i \in 1..(Len(pending.events) + 1) : i = Len(pending.events) + 1 \/ i \in 1..Len(pending.events)
        BY <3>2
      <4>5. QED
        BY <3>4, <4>1, <4>3, <4>4
    <3>6. wrev' = Append(pending.events, e)[Len(Append(pending.events, e))].rev
      BY <1>3, <3>4
    <3>7. pending.from # Null => wrev' >= pending.from
      BY <1>3, <1>5, <3>2, <3>5
    <3>8. \A a, b \in asks' : a.id = b.id => a = b
      BY <1>1, <3>1 DEF PendInv
    <3>9. QED
      BY <1>3, <3>3, <3>4, <3>5, <3>6, <3>7, <3>8 DEF PendInv
  <2>2. CASE pending = Null /\ Gap(e)
    <3>1. PICK events \in Seq(Event) : events = <<e>> /\ Ask(events)
      <4>1. <<e>> \in Seq(Event)
        BY <1>5, OneEvent
      <4>2. Ask(<<e>>)
        BY <1>3, <2>2 DEF Keep
      <4>3. QED
        BY <4>1, <4>2
    <3>2. QED
      BY <1>1, <1>3, <1>5, <3>1, AskPend
  <2>3. CASE pending = Null /\ ~Gap(e)
    BY <1>1, <1>3, <2>3 DEF Keep, PendInv
  <2>4. QED
    BY <2>1, <2>2, <2>3
<1>8. ASSUME PastSnapshot', ~late' PROVE Fits' /\ Starts'
  <2>1. Fits /\ Starts /\ ~late /\ ~ (e.odd /\ (pending # Null \/ wrev = Null))
    BY <1>1, <1>3, <1>4, <1>8 DEF WindowInv, Judge
  <2>2. Flight \in Seq(Event) /\ InTurn(Flight) /\ Flight # <<>> /\ Head(Flight) = e /\ server # "down"
    BY <1>1, <1>4, <1>8, FlightIs DEF FlightInv, PastSnapshot
  <2>3. e.rev <= rev
    BY <1>1, <1>5, <2>2, FirstOf, CoreNumbers DEF CoreInv
  <2>4. \A C, w : Good(Tail(Flight), C, w) => Good(Flight, C, w)'
    BY <1>4, <1>8
  <2>5. CASE pending # Null
    <3>1. /\ pending' = [pending EXCEPT !.events = Append(@, e)] /\ asks' = asks
      BY <1>3, <2>5 DEF Keep
    <3>2. /\ pending.events \in Seq(Event) /\ Len(pending.events) \in Nat /\ DOMAIN pending.events = 1..Len(pending.events)
          /\ pending \in Waiting
      BY <1>1, <2>5, WaitingIs DEF SyncTypeOK
    <3>3. pending'.id = pending.id /\ pending'.events = Append(pending.events, e) /\ pending' # Null
      <4>1. pending'.id = pending.id /\ pending'.events = Append(pending.events, e)
        BY <3>1, <3>2 DEF Waiting
      <4>2. pending' \in Waiting
        <5>1. Append(pending.events, e) \in Seq(Event)
          BY <1>5, <3>2, QueueIs
        <5>2. QED
          BY <3>1, <3>2, <5>1 DEF Waiting
      <4>3. QED
        BY <4>1, <4>2, NullIsNull
    <3>4. Since = 1..Len(pending.events) /\ Since' = 1..(Len(pending.events) + 1)
      <4>1. Since = 1..Len(pending.events)
        BY <1>1, <2>5, <3>2, SinceIs
      <4>2. Since' = DOMAIN pending'.events
        BY <1>7, <3>3 DEF PendInv, Since
      <4>3. QED
        BY <1>5, <3>2, <3>3, <4>1, <4>2, QueueIs
    <3>5. ASSUME NEW a \in asks', a.id = pending'.id PROVE a.answer # "failed" /\ Good(Flight, Replayed(a), wrev)'
      <4>1. a.answer # "failed" /\ Good(Flight, Replayed(a), wrev)
        BY <2>1, <2>5, <3>1, <3>3, <3>5 DEF Fits
      <4>2. PICK B, C, w, v : /\ B = Replayed(a) /\ w = wrev /\ v = e.rev
                              /\ C = Replay(IF a.answer = "taken" THEN a.state ELSE core, Append(pending.events, e), 1..(Len(pending.events) + 1))
        OBVIOUS
      <4>3. \A p \in Part : C[p] = IF p = e.part THEN e.value ELSE B[p]
        BY <1>5, <3>2, <3>4, <4>2, ReplayMore DEF Replayed
      <4>4. ~e.odd /\ (w # Null => e.rev > w) /\ w \in Nat \cup {Null} /\ Good(Flight, B, w)
        BY <1>3, <1>6, <2>1, <2>5, <4>1, <4>2
      <4>5. Good(Tail(Flight), C, v)
        BY <1>1, <2>2, <4>2, <4>3, <4>4, Applied
      <4>6. Good(Flight, C, v)'
        BY <2>4, <4>5
      <4>7. Replayed(a)' = C /\ wrev' = v
        BY <1>3, <1>6, <3>3, <3>4, <4>2 DEF Replayed
      <4>8. QED
        BY <4>1, <4>6, <4>7 DEF Good, Passed
    <3>6. \E a \in asks' : a.id = pending'.id
      BY <2>1, <2>5, <3>1, <3>3 DEF Fits
    <3>7. Fits'
      BY <1>3, <1>6, <2>3, <3>3, <3>5, <3>6 DEF Fits
    <3>8. QED
      BY <3>3, <3>7 DEF Starts
  <2>6. CASE pending = Null /\ Gap(e)
    <3>1. PICK events \in Seq(Event) : events = <<e>> /\ Ask(events)
      <4>1. <<e>> \in Seq(Event)
        BY <1>5, OneEvent
      <4>2. Ask(<<e>>)
        BY <1>3, <2>6 DEF Keep
      <4>3. QED
        BY <4>1, <4>2
    <3>2. pending' # Null /\ pending'.events = events /\ pending'.from = wrev
      <4>1. pending' = [id |-> lastAsk + 1, from |-> wrev, events |-> events] /\ pending' # Null
        BY <1>1, <3>1, AskIs
      <4>2. QED
        BY <4>1
    <3>3. wrev # Null /\ e.rev > wrev /\ wrev \in Nat
      BY <1>3, <1>6, <2>6 DEF Gap
    <3>4. Since' = 1..1
      BY <3>1, <3>2, <3>3 DEF Since
    <3>5. PICK C, w, v : C = Replay(core, pending.events, Since)' /\ w = wrev /\ v = e.rev
      OBVIOUS
    <3>6. \A p \in Part : C[p] = IF p = e.part THEN e.value ELSE core[p]
      <4> SUFFICES ASSUME NEW p \in Part PROVE C[p] = IF p = e.part THEN e.value ELSE core[p]
        OBVIOUS
      <4>1. C = Replay(core, events, 1..1)
        BY <1>6, <3>2, <3>4, <3>5 DEF Replay
      <4>2. PICK none \in Seq(Event) : none = <<>> /\ Append(none, e) = events /\ Len(none) = 0
        BY <1>5, <3>1, OneEvent, EmptySeq
      <4>3. Replay(core, Append(none, e), 1..(Len(none) + 1))[p] =
               IF p = e.part THEN e.value ELSE Replay(core, none, 1..Len(none))[p]
        <5>1. PICK X, Y : /\ X = Replay(core, Append(none, e), 1..(Len(none) + 1))
                          /\ Y = Replay(core, none, 1..Len(none))
          OBVIOUS
        <5>2. X[p] = IF p = e.part THEN e.value ELSE Y[p]
          BY <1>5, <5>1, ReplayMore
        <5>3. QED
          BY <5>1, <5>2
      <4>4. 1..Len(none) = {}
        BY <4>2
      <4>5. Replay(core, none, 1..Len(none))[p] = core[p]
        BY <4>4, ReplayNone
      <4>6. QED
        BY <4>1, <4>2, <4>3, <4>5
    <3>7. Good(Flight, Shown, w)
      BY <2>1, <2>6, <3>5 DEF Fits
    <3>8. Good(Tail(Flight), C, v)
      BY <1>1, <2>2, <3>3, <3>5, <3>6, <3>7, AskedAgain
    <3>9. Good(Flight, C, v)'
      BY <2>4, <3>8
    <3>10. Good(Flight, C, wrev)'
      BY <1>3, <3>5, <3>9 DEF Good, Passed
    <3>11. Fits'
      BY <1>1, <1>3, <1>6, <2>2, <2>3, <3>1, <3>5, <3>10, AskFits
    <3>12. QED
      BY <3>2, <3>11 DEF Starts
  <2>7. CASE pending = Null /\ ~Gap(e)
    <3>1. pending' = Null /\ asks' = asks
      BY <1>3, <2>7 DEF Keep
    <3>2. ~e.odd \/ (wrev # Null /\ e.rev = wrev + 1)
      BY <1>3, <1>5, <1>6, <2>1, <2>7 DEF Gap
    <3>3. PICK B, w, v : B = Shown /\ w = wrev /\ v = e.rev
      OBVIOUS
    <3>4. Good(Flight, B, w) /\ w \in Nat \cup {Null}
      BY <1>6, <2>1, <2>7, <3>3 DEF Fits
    <3>5. PICK C : C = [p \in Part |-> IF p = e.part THEN e.value ELSE B[p]]
      OBVIOUS
    <3>6. Good(Tail(Flight), C, v)
      BY <1>1, <1>3, <2>2, <3>2, <3>3, <3>4, <3>5, Applied
    <3>7. Good(Tail(Flight), core, v)
      BY <3>6, CoreWillDo
    <3>8. PICK D : D = core
      OBVIOUS
    <3>9. Good(Flight, C, v)' /\ Good(Flight, D, v)'
      BY <2>4, <3>6, <3>7, <3>8
    <3>10. CASE snap = Null
      <4>1. snap' = Null /\ Shown' = D /\ wrev' = v
        BY <1>3, <1>6, <3>3, <3>8, <3>10 DEF Shown
      <4>2. Good(Flight, Shown, wrev)'
        BY <3>9, <4>1 DEF Good, Passed
      <4>3. Fits'
        BY <1>3, <1>6, <2>3, <3>1, <4>2 DEF Fits
      <4>4. Starts'
        BY <1>3, <2>1, <2>7, <3>1, <3>10, <4>1 DEF Starts
      <4>5. QED
        BY <4>3, <4>4
    <3>11. CASE snap # Null
      <4>1. snap \in Parts /\ snap' = [snap EXCEPT ![e.part] = e.value] /\ B = snap
        BY <1>1, <1>3, <3>3, <3>11 DEF SyncTypeOK, Shown
      <4>2. snap' \in Parts /\ snap' = C
        BY <1>5, <3>5, <4>1 DEF Parts
      <4>3. snap' # Null /\ Shown' = C /\ wrev' = v
        BY <1>3, <3>3, <4>2, NullIsNull DEF Shown
      <4>4. Good(Flight, Shown, wrev)'
        BY <3>9, <4>3 DEF Good, Passed
      <4>5. Fits'
        BY <1>3, <1>6, <2>3, <3>1, <4>4 DEF Fits
      <4>6. QED
        BY <4>3, <4>5 DEF Starts
    <3>12. QED
      BY <3>10, <3>11
  <2>8. QED
    BY <2>5, <2>6, <2>7
<1>9. QED
  BY <1>2, <1>4, <1>7, <1>8 DEF SyncInv, WindowInv

-----------------------------------------------------------------------------
(* The window settles on the state of the core.                            *)

LEMMA SyncStutters == ASSUME SyncInv, UNCHANGED syncVars PROVE SyncInv'
<1>1. SyncTypeOK /\ PendInv /\ WindowInv
  BY DEF SyncInv
<1>2. /\ UNCHANGED <<coreVars, serverVars, pipe, status>> /\ UNCHANGED <<coreVars, wrev, snap, pending>>
      /\ asks' = asks /\ window' = window /\ read' = read /\ conn' = conn /\ late' = late
      /\ wrev' = wrev /\ snap' = snap /\ pending' = pending
  BY DEF syncVars, winVars
<1>3. SyncTypeOK'
  BY <1>1 DEF SyncTypeOK, syncVars, coreVars, serverVars, winVars
<1>4. /\ CoreInv' /\ ServerInv' /\ FlightInv' /\ (PastSnapshot' => PastSnapshot)
      /\ \A C, w : Good(Flight, C, w) => Good(Flight, C, w)'
  BY <1>2, PipeStays
<1>5. PendInv'
  BY <1>1, <1>2 DEF PendInv
<1>6. ASSUME PastSnapshot', ~late' PROVE Fits' /\ Starts'
  <2>1. Fits /\ Starts
    BY <1>1, <1>2, <1>4, <1>6 DEF WindowInv
  <2>2. Fits'
    BY <1>2, <1>4, <2>1, FitsKept
  <2>3. Starts'
    BY <1>2, <2>1 DEF Starts
  <2>4. QED
    BY <2>2, <2>3
<1>7. QED
  BY <1>3, <1>4, <1>5, <1>6 DEF SyncInv, WindowInv

LEMMA SyncStarts == SyncInit => SyncInv
<1> SUFFICES ASSUME SyncInit PROVE SyncInv
  OBVIOUS
<1>1. /\ rev = 0 /\ changes = 0 /\ sent = 0 /\ core = [p \in Part |-> 0] /\ sending = [t \in Publisher |-> Null]
      /\ server = "down" /\ chan = <<>> /\ lagged = FALSE /\ pipe = <<>> /\ status = FALSE
      /\ window = "closed" /\ read = Null /\ conn = FALSE /\ wrev = Null /\ snap = Null /\ pending = Null
      /\ asks = {} /\ lastAsk = 0 /\ breaks = 0 /\ late = FALSE
  BY DEF SyncInit
<1>2. SyncTypeOK
  <2>1. /\ rev \in Nat /\ changes \in Nat /\ sent \in Nat /\ core \in Parts
        /\ sending \in [Publisher -> Event \cup {Null}]
    BY <1>1 DEF Parts
  <2>2. /\ chan \in Seq(Event) /\ Len(chan) <= Capacity /\ lagged \in BOOLEAN /\ pipe \in Seq(Message)
    <3>1. chan \in Seq(Event) /\ Len(chan) = 0
      BY <1>1, EmptySeq
    <3>2. pipe \in Seq(Message)
      <4>1. <<>> \in Seq(Message)
        OBVIOUS
      <4>2. QED
        BY <1>1, <4>1
    <3>3. Len(chan) <= Capacity
      BY <3>1, SizesType
    <3>4. QED
      BY <1>1, <3>1, <3>2, <3>3
  <2>3. lastAsk \in 0..MaxAsk /\ breaks \in Nat
    BY <1>1, SyncBounds
  <2>4. QED
    BY <1>1, <2>1, <2>2, <2>3 DEF SyncTypeOK
<1>3. CoreInv
  <2>1. Off = 0 /\ \A p \in Part : At(p) = 0
    BY <1>1 DEF Off, At
  <2>2. QED
    BY <1>1, <2>1 DEF CoreInv
<1>4. ServerInv /\ PendInv
  BY <1>1 DEF ServerInv, PendInv
<1>5. Flight = <<>>
  BY <1>1 DEF Flight
<1>6. FlightInv /\ WindowInv
  BY <1>1, <1>5, NoFlight DEF FlightInv, WindowInv, PastSnapshot
<1>7. QED
  BY <1>2, <1>3, <1>4, <1>6 DEF SyncInv

LEMMA SyncSteps == SyncInv /\ [SyncNext]_syncVars => SyncInv'
<1> SUFFICES ASSUME SyncInv, [SyncNext]_syncVars PROVE SyncInv'
  OBVIOUS
<1>1. CASE CoreStep
  BY <1>1, PublishStep, SendStep, LiveStep DEF CoreStep
<1>2. CASE ServerStep
  BY <1>2, AcceptStep, SubscribeStep, SnapshotStep, ForwardStep, TakeStep DEF ServerStep
<1>3. CASE WindowStep
  BY <1>3, ClosedStep, ReadStep, OnStatusStep, StatusMessages, OnSnapshotStep, DropStep, ApplyStep, AnswerStep
     DEF WindowStep
<1>4. CASE BreakPipe \/ RestartCore
  BY <1>4, BreakStep
<1>5. CASE UNCHANGED syncVars
  BY <1>5, SyncStutters
<1>6. QED
  BY <1>1, <1>2, <1>3, <1>4, <1>5 DEF SyncNext

LEMMA Settled ==
    ASSUME SyncInv, ~late, Still
    PROVE  snap = core /\ wrev \in {Null, rev}
<1>1. SyncTypeOK /\ CoreInv /\ WindowInv
  BY DEF SyncInv
<1>2. /\ window = "open" /\ server = "up" /\ ~lagged /\ chan = <<>> /\ pipe = <<>> /\ asks = {}
      /\ \A t \in Publisher : sending[t] = Null
  BY DEF Still
<1>3. Snaps(pipe) = {}
  BY <1>2 DEF Snaps
<1>4. Cut(pipe) = 0
  BY <1>3 DEF Cut
<1>5. Live(pipe) = <<>>
  BY <1>2, <1>4, SubSeqEmpty, EmptySeq DEF Live
<1>6. Flight = <<>>
  BY <1>2, <1>5, EventQueues, EmptySeq DEF Flight
<1>7. Fits /\ Starts
  BY <1>1, <1>2, <1>3 DEF WindowInv, PastSnapshot
<1>8. pending = Null /\ snap # Null
  BY <1>2, <1>7 DEF Fits, Starts
<1>9. PICK Q : Q = <<>>
  OBVIOUS
<1>10. Good(Q, snap, wrev) /\ (wrev # Null => wrev <= rev)
  BY <1>6, <1>7, <1>8, <1>9 DEF Fits, Shown
<1>11. ASSUME NEW p \in Part PROVE snap[p] = core[p] /\ (wrev # Null => wrev >= At(p))
  <2>1. ~Ahead(Q, p) /\ ~Jumped(Q, p)
    BY <1>2, <1>9 DEF Ahead, Jumped, ToSend
  <2>2. QED
    BY <1>10, <2>1 DEF Good, Passed
<1>12. snap = core
  BY <1>1, <1>8, <1>11 DEF SyncTypeOK, Parts
<1>13. wrev # Null => wrev = rev
  <2>1. rev \in Nat /\ changes \in Nat /\ wrev \in Nat \cup {Null}
    BY <1>1 DEF SyncTypeOK
  <2>2. CASE rev = 0
    BY <1>10, <2>1, <2>2
  <2>3. ASSUME NEW p \in Part, core[p] = changes PROVE wrev # Null => wrev = rev
    <3>1. At(p) = rev
      BY <2>1, <2>3 DEF At, Off
    <3>2. QED
      BY <1>10, <1>11, <2>1, <3>1
  <2>4. QED
    BY <1>1, <2>2, <2>3 DEF CoreInv
<1>14. QED
  BY <1>12, <1>13

\* Once nothing is on its way an open window shows the state of the core at its
\* revision, whatever was lost, reordered, asked for again or restarted
\* meanwhile, unless an event sent out of turn met a window that cannot tell:
\* for any number of publishers and parts and any size of channel and pipe.
THEOREM SyncSafeAlways == SyncSpec => []SyncSafe
<1>1. SyncInv => SyncSafe
  BY Settled DEF SyncSafe, SyncInv, SettlesInOrder, Settles
<1>2. QED
  BY SyncStarts, SyncSteps, <1>1, PTL DEF SyncSpec
=============================================================================
