-------------------------- MODULE OwnershipProofs --------------------------
(***************************************************************************)
(* What is handed to somebody has an owner until it is given back: what    *)
(* sessions did to the output devices is undone (OutputDevice), for every  *)
(* number of devices, sessions and key presses, and the RFCOMM channels of *)
(* IPC clients are owned and told of in order (Rfcomm), for every number   *)
(* of opens and every limit of channels and of data.                       *)
(***************************************************************************)
EXTENDS OutputDevice, Rfcomm, Integers, SequenceTheorems, FiniteSetTheorems, FunctionTheorems,
        TLAPS

-----------------------------------------------------------------------------
(* The output devices (OutputDevice)                                       *)

\* Where a session has no OutputMute (any more)
Quiet == pc \in {"dead", "connecting", "source", "drop_guard", "unclaimed", "unclaimed_mute"}

\* Where it is, once its OutputMute left a device to the next session
LeavingMute == pc \in {"forget", "unmute", "inherited"} /\ then = "drop_guard"

\* The devices a session has to unmute, and those it left to the next one:
\* every device BlueCaster muted is one of them.
Holders ==
    /\ Quiet \/ pc = "waiting" => attached = None /\ inherited = None
    /\ ours => attached # None
    /\ pc = "attach" => attached = None
    /\ attached # None /\ inherited # None => pc = "inherited" /\ attached # inherited
    /\ left # None => Quiet \/ (LeavingMute /\ attached = None /\ inherited = None)
    /\ then = "attach" => pc \in {"forget", "unmute", "attach"} /\ opening \in Device
    /\ pc = "attach" => then = "attach"
    /\ pc = "inherited" /\ attached # None => then = "streaming"

MutedHasHolder ==
    \A d \in Device : muted[d] = "us" => (ours /\ attached = d) \/ inherited = d \/ left = d

\* A device the user muted is held only when it was left by a session before
HeldByUser ==
    /\ left # None => left \in kept
    /\ inherited # None => inherited \in kept
    /\ ours /\ muted[attached] = "user" => attached \in kept

\* What is expected of the next session, and what waits for it
Handover ==
    /\ nextMutes => starter = "join"
    /\ nextSwitch # None => starter # "idle"
    /\ pc = "dead" /\ left # None => starter = "join"
    /\ pc \in {"dead", "unclaimed_mute"} /\ restore # None => nextSwitch # None

\* The user's device is the default, or it is kept to become it again
DefaultKept ==
    /\ pc \in {"dead", "connecting", "unclaimed", "unclaimed_mute"} => guard = None
    /\ guard # None => guard \in picks
    /\ restore # None => restore \in picks
    /\ default \in picks \/ guard # None \/ restore # None

\* The watcher watches the device this session muted, and what it did not see
\* yet of the keys is in the mute and the volume
KeyHolder ==
    /\ watched = None => ~silence /\ ~moved
    /\ watched # None =>
          \/ attached = watched /\ ours /\ pc \in {"inherited", "streaming", "drop_mute", "forget"}
          \/ pc = "forget" /\ then = "drop_guard" /\ ~watch /\ attached = None

KeyPending ==
    watched # None /\ attached = watched =>
       /\ moved => muted[watched] = "no" /\ ~want
       /\ muted[watched] # "no" => silence = want
       /\ muted[watched] = "no" /\ ~moved => want = ~silence

\* The types of the flags, and of the rest
FlagTypes == \A b \in {nextMutes, again, ours, watch, moved, silence, want} : b \in BOOLEAN

OutputInv ==
    /\ TypeOK
    /\ Holders /\ MutedHasHolder /\ HeldByUser
    /\ Handover /\ DefaultKept
    /\ KeyHolder /\ KeyPending

\* One lemma per action: it keeps the invariant.

\* Service::start_session says which device the next session switches to.
LEMMA StartKeeps ==
    ASSUME OutputInv, NEW r \in Request, Start(r) PROVE OutputInv'
<1>1. TypeOK'
  BY NoDevice DEF Start, muteVars, keyVars, userVars, OutputInv, TypeOK, Request, Holders
<1>2. Handover'
  BY NoDevice DEF Start, muteVars, keyVars, userVars, OutputInv, TypeOK, Handover, Holders, Quiet,
                  LeavingMute
<1>3. Holders' /\ MutedHasHolder' /\ HeldByUser' /\ DefaultKept' /\ KeyHolder' /\ KeyPending'
  BY DEF Start, muteVars, keyVars, userVars, OutputInv, Holders, Quiet, LeavingMute,
         MutedHasHolder, HeldByUser, DefaultKept, KeyHolder, KeyPending
<1> QED BY <1>1, <1>2, <1>3 DEF OutputInv

\* expect_session: what the next session mutes is known only while it is awaited.
LEMMA ExpectKeeps ==
    ASSUME OutputInv, Expect PROVE OutputInv'
<1>1. TypeOK'
  BY NoDevice DEF Expect, muteVars, keyVars, userVars, OutputInv, TypeOK, Request, Holders
<1>2. Handover'
  BY NoDevice DEF Expect, muteVars, keyVars, userVars, OutputInv, TypeOK, Handover, Holders,
                  Quiet, LeavingMute
<1>3. Holders' /\ MutedHasHolder' /\ HeldByUser' /\ DefaultKept' /\ KeyHolder' /\ KeyPending'
  BY DEF Expect, muteVars, keyVars, userVars, OutputInv, Holders, Quiet, LeavingMute,
         MutedHasHolder, HeldByUser, DefaultKept, KeyHolder, KeyPending
<1> QED BY <1>1, <1>2, <1>3 DEF OutputInv

\* The new session is spawned once the one before is gone.
LEMMA LaunchKeeps ==
    ASSUME OutputInv, Launch PROVE OutputInv'
<1>1. TypeOK'
  <2>1. FlagTypes'
    BY NoDevice DEF Launch, muteVars, keyVars, userVars, OutputInv, TypeOK, FlagTypes
  <2> QED
    BY <2>1, NoDevice DEF Launch, muteVars, keyVars, userVars, OutputInv, TypeOK, Request,
                          Holders, FlagTypes
<1>2. Holders'
  BY NoDevice DEF Launch, muteVars, keyVars, userVars, OutputInv, TypeOK, Holders, Quiet,
                  LeavingMute
<1>3. Handover'
  BY NoDevice DEF Launch, muteVars, keyVars, userVars, OutputInv, TypeOK, Handover, Holders,
                  Quiet, LeavingMute
<1>4. DefaultKept'
  BY NoDevice DEF Launch, muteVars, keyVars, userVars, OutputInv, TypeOK, Handover, DefaultKept
<1>5. KeyHolder'
  BY NoDevice DEF Launch, muteVars, keyVars, userVars, OutputInv, TypeOK, KeyHolder, Holders,
                  Quiet, LeavingMute
<1>6. MutedHasHolder' /\ HeldByUser' /\ KeyPending'
  BY DEF Launch, muteVars, keyVars, userVars, OutputInv, MutedHasHolder, HeldByUser, KeyPending
<1> QED BY <1>1, <1>2, <1>3, <1>4, <1>5, <1>6 DEF OutputInv

\* A session that does not connect goes to what was left to it.
LEMMA ConnectFailedKeeps ==
    ASSUME OutputInv, ConnectFailed PROVE OutputInv'
<1>1. TypeOK'
  BY NoDevice DEF ConnectFailed, startVars, muteVars, keyVars, userVars, OutputInv, TypeOK,
                  Request, Holders
<1>2. Holders'
  BY NoDevice DEF ConnectFailed, startVars, muteVars, keyVars, userVars, OutputInv, TypeOK,
                  Holders, Quiet, LeavingMute
<1>3. Handover'
  BY NoDevice DEF ConnectFailed, startVars, muteVars, keyVars, userVars, OutputInv, TypeOK,
                  Handover, Holders, Quiet, LeavingMute
<1>4. DefaultKept'
  BY NoDevice DEF ConnectFailed, startVars, muteVars, keyVars, userVars, OutputInv, TypeOK,
                  Handover, DefaultKept
<1>5. KeyHolder'
  BY NoDevice DEF ConnectFailed, startVars, muteVars, keyVars, userVars, OutputInv, TypeOK,
                  KeyHolder, Holders, Quiet, LeavingMute
<1>6. MutedHasHolder' /\ HeldByUser' /\ KeyPending'
  BY DEF ConnectFailed, startVars, muteVars, keyVars, userVars, OutputInv, MutedHasHolder,
         HeldByUser, KeyPending
<1> QED BY <1>1, <1>2, <1>3, <1>4, <1>5, <1>6 DEF OutputInv

\* DefaultDeviceGuard::follow at the start of a session.
LEMMA ConnectedKeeps ==
    ASSUME OutputInv, Connected PROVE OutputInv'
<1>1. TypeOK'
  BY NoDevice DEF Connected, Follow, SwitchTo, Or, DropGuard, KeptForNext, startVars, muteVars,
                  keyVars, userVars, OutputInv, TypeOK, Request, Holders
<1>2. Holders'
  BY NoDevice DEF Connected, Follow, SwitchTo, Or, DropGuard, KeptForNext, startVars, muteVars,
                  keyVars, userVars, OutputInv, TypeOK, Holders, Quiet, LeavingMute
<1>3. Handover'
  BY NoDevice DEF Connected, Follow, SwitchTo, Or, DropGuard, KeptForNext, startVars, muteVars,
                  keyVars, userVars, OutputInv, TypeOK, Handover, Holders, Quiet, LeavingMute
<1>4. DefaultKept'
  BY NoDevice DEF Connected, Follow, SwitchTo, Or, DropGuard, KeptForNext, startVars, muteVars,
                  keyVars, userVars, OutputInv, TypeOK, Handover, DefaultKept
<1>5. KeyHolder'
  BY NoDevice DEF Connected, Follow, SwitchTo, Or, DropGuard, KeptForNext, startVars, muteVars,
                  keyVars, userVars, OutputInv, TypeOK, KeyHolder, Holders, Quiet, LeavingMute
<1>6. MutedHasHolder' /\ HeldByUser' /\ KeyPending'
  BY DEF Connected, Follow, SwitchTo, Or, DropGuard, KeptForNext, startVars, muteVars, keyVars,
         userVars, OutputInv, MutedHasHolder, HeldByUser, KeyPending
<1> QED BY <1>1, <1>2, <1>3, <1>4, <1>5, <1>6 DEF OutputInv

\* System Loopback stands in: the default goes back.
LEMMA StandInKeeps ==
    ASSUME OutputInv, StandIn PROVE OutputInv'
<1>1. TypeOK'
  BY NoDevice DEF StandIn, Follow, SwitchTo, Or, DropGuard, KeptForNext, startVars, muteVars,
                  keyVars, userVars, OutputInv, TypeOK, Request, Holders
<1>2. Handover'
  BY NoDevice DEF StandIn, Follow, SwitchTo, Or, DropGuard, KeptForNext, startVars, muteVars,
                  keyVars, userVars, OutputInv, TypeOK, Handover, Holders, Quiet, LeavingMute
<1>3. DefaultKept'
  BY NoDevice DEF StandIn, Follow, SwitchTo, Or, DropGuard, KeptForNext, startVars, muteVars,
                  keyVars, userVars, OutputInv, TypeOK, Handover, DefaultKept
<1>4. Holders' /\ MutedHasHolder' /\ HeldByUser' /\ KeyHolder' /\ KeyPending'
  BY DEF StandIn, Follow, SwitchTo, Or, DropGuard, KeptForNext, startVars, muteVars, keyVars,
         userVars, OutputInv, Holders, Quiet, LeavingMute, MutedHasHolder, HeldByUser, KeyHolder,
         KeyPending
<1> QED BY <1>1, <1>2, <1>3, <1>4 DEF OutputInv

\* A source that does not open ends the session before it mutes anything.
LEMMA SourceFailedKeeps ==
    ASSUME OutputInv, SourceFailed PROVE OutputInv'
<1>1. TypeOK'
  BY NoDevice DEF SourceFailed, startVars, muteVars, keyVars, userVars, OutputInv, TypeOK,
                  Request, Holders
<1>2. Holders'
  BY NoDevice DEF SourceFailed, startVars, muteVars, keyVars, userVars, OutputInv, TypeOK,
                  Holders, Quiet, LeavingMute
<1>3. Handover'
  BY NoDevice DEF SourceFailed, startVars, muteVars, keyVars, userVars, OutputInv, TypeOK,
                  Handover, Holders, Quiet, LeavingMute
<1>4. DefaultKept'
  BY NoDevice DEF SourceFailed, startVars, muteVars, keyVars, userVars, OutputInv, TypeOK,
                  Handover, DefaultKept
<1>5. KeyHolder'
  BY NoDevice DEF SourceFailed, startVars, muteVars, keyVars, userVars, OutputInv, TypeOK,
                  KeyHolder, Holders, Quiet, LeavingMute
<1>6. MutedHasHolder' /\ HeldByUser' /\ KeyPending'
  BY DEF SourceFailed, startVars, muteVars, keyVars, userVars, OutputInv, MutedHasHolder,
         HeldByUser, KeyPending
<1> QED BY <1>1, <1>2, <1>3, <1>4, <1>5, <1>6 DEF OutputInv

\* OutputMute::new takes over the device left muted.
LEMMA NewMuteKeeps ==
    ASSUME OutputInv, NewMute PROVE OutputInv'
<1>1. TypeOK'
  <2>1. FlagTypes'
    BY NoDevice DEF NewMute, startVars, userVars, OutputInv, TypeOK, FlagTypes
  <2> QED
    BY <2>1, NoDevice DEF NewMute, startVars, userVars, OutputInv, TypeOK, Request, Holders,
                          FlagTypes
<1>2. Holders'
  BY NoDevice DEF NewMute, startVars, userVars, OutputInv, TypeOK, Holders, Quiet, LeavingMute
<1>3. MutedHasHolder'
  BY NoDevice DEF NewMute, startVars, userVars, OutputInv, TypeOK, MutedHasHolder, Holders, Quiet,
                  LeavingMute
<1>4. HeldByUser'
  BY NoDevice DEF NewMute, startVars, userVars, OutputInv, TypeOK, HeldByUser, Holders, Quiet,
                  LeavingMute
<1>5. Handover'
  BY NoDevice DEF NewMute, startVars, userVars, OutputInv, TypeOK, Handover, Holders, Quiet,
                  LeavingMute
<1>6. DefaultKept'
  BY NoDevice DEF NewMute, startVars, userVars, OutputInv, TypeOK, Handover, DefaultKept
<1>7. KeyHolder'
  BY NoDevice DEF NewMute, startVars, userVars, OutputInv, TypeOK, KeyHolder, Holders, Quiet,
                  LeavingMute
<1>8. KeyPending'
  BY NoDevice DEF NewMute, startVars, userVars, OutputInv, TypeOK, KeyHolder, KeyPending, Holders,
                  Quiet, LeavingMute
<1> QED BY <1>1, <1>2, <1>3, <1>4, <1>5, <1>6, <1>7, <1>8 DEF OutputInv

\* change_source: another device to switch to, or the end of the session.
LEMMA ChangeSourceKeeps ==
    ASSUME OutputInv, NEW d \in Device \cup {None}, NEW m \in BOOLEAN, ChangeSource(d, m) PROVE OutputInv'
<1>1. TypeOK'
  BY NoDevice DEF ChangeSource, Follow, SwitchTo, Or, DropGuard, KeptForNext, startVars, muteVars,
                  keyVars, userVars, OutputInv, TypeOK, Request, Holders
<1>2. Holders'
  BY NoDevice DEF ChangeSource, Follow, SwitchTo, Or, DropGuard, KeptForNext, startVars, muteVars,
                  keyVars, userVars, OutputInv, TypeOK, Holders, Quiet, LeavingMute
<1>3. Handover'
  BY NoDevice DEF ChangeSource, Follow, SwitchTo, Or, DropGuard, KeptForNext, startVars, muteVars,
                  keyVars, userVars, OutputInv, TypeOK, Handover, Holders, Quiet, LeavingMute
<1>4. DefaultKept'
  BY NoDevice DEF ChangeSource, Follow, SwitchTo, Or, DropGuard, KeptForNext, startVars, muteVars,
                  keyVars, userVars, OutputInv, TypeOK, Handover, DefaultKept
<1>5. KeyHolder'
  BY NoDevice DEF ChangeSource, Follow, SwitchTo, Or, DropGuard, KeptForNext, startVars, muteVars,
                  keyVars, userVars, OutputInv, TypeOK, KeyHolder, Holders, Quiet, LeavingMute
<1>6. MutedHasHolder' /\ HeldByUser' /\ KeyPending'
  BY DEF ChangeSource, Follow, SwitchTo, Or, DropGuard, KeptForNext, startVars, muteVars, keyVars,
         userVars, OutputInv, MutedHasHolder, HeldByUser, KeyPending
<1> QED BY <1>1, <1>2, <1>3, <1>4, <1>5, <1>6 DEF OutputInv

\* Headphones turned off: default back, and nothing muted while waiting.
LEMMA TurnedOffKeeps ==
    ASSUME OutputInv, TurnedOff PROVE OutputInv'
<1>1. TypeOK'
  BY NoDevice DEF TurnedOff, DropGuard, Or, KeptForNext, startVars, keyVars, userVars, OutputInv,
                  TypeOK, Request, Holders
<1>2. Holders'
  BY NoDevice DEF TurnedOff, DropGuard, Or, KeptForNext, startVars, keyVars, userVars, OutputInv,
                  TypeOK, Holders, Quiet, LeavingMute
<1>3. Handover'
  BY NoDevice DEF TurnedOff, DropGuard, Or, KeptForNext, startVars, keyVars, userVars, OutputInv,
                  TypeOK, Handover, Holders, Quiet, LeavingMute
<1>4. DefaultKept'
  BY NoDevice DEF TurnedOff, DropGuard, Or, KeptForNext, startVars, keyVars, userVars, OutputInv,
                  TypeOK, Handover, DefaultKept
<1>5. KeyHolder'
  BY NoDevice DEF TurnedOff, DropGuard, Or, KeptForNext, startVars, keyVars, userVars, OutputInv,
                  TypeOK, KeyHolder, Holders, Quiet, LeavingMute
<1>6. MutedHasHolder' /\ HeldByUser' /\ KeyPending'
  BY DEF TurnedOff, DropGuard, Or, KeptForNext, startVars, keyVars, userVars, OutputInv,
         MutedHasHolder, HeldByUser, KeyPending
<1> QED BY <1>1, <1>2, <1>3, <1>4, <1>5, <1>6 DEF OutputInv

\* Headphones back: the default is switched again.
LEMMA BackOnKeeps ==
    ASSUME OutputInv, BackOn PROVE OutputInv'
<1>1. TypeOK'
  <2>1. FlagTypes'
    BY NoDevice DEF BackOn, SwitchTo, Or, startVars, muteVars, keyVars, userVars, OutputInv,
                    TypeOK, FlagTypes
  <2> QED
    BY <2>1, NoDevice DEF BackOn, SwitchTo, Or, startVars, muteVars, keyVars, userVars, OutputInv,
                          TypeOK, Request, Holders, FlagTypes
<1>2. Holders'
  BY NoDevice DEF BackOn, SwitchTo, Or, startVars, muteVars, keyVars, userVars, OutputInv, TypeOK,
                  Holders, Quiet, LeavingMute
<1>3. Handover'
  BY NoDevice DEF BackOn, SwitchTo, Or, startVars, muteVars, keyVars, userVars, OutputInv, TypeOK,
                  Handover, Holders, Quiet, LeavingMute
<1>4. DefaultKept'
  BY NoDevice DEF BackOn, SwitchTo, Or, startVars, muteVars, keyVars, userVars, OutputInv, TypeOK,
                  Handover, DefaultKept
<1>5. KeyHolder'
  BY NoDevice DEF BackOn, SwitchTo, Or, startVars, muteVars, keyVars, userVars, OutputInv, TypeOK,
                  KeyHolder, Holders, Quiet, LeavingMute
<1>6. MutedHasHolder' /\ HeldByUser' /\ KeyPending'
  BY DEF BackOn, SwitchTo, Or, startVars, muteVars, keyVars, userVars, OutputInv, MutedHasHolder,
         HeldByUser, KeyPending
<1> QED BY <1>1, <1>2, <1>3, <1>4, <1>5, <1>6 DEF OutputInv

\* The end of a session, from playing or waiting.
LEMMA EndKeeps ==
    ASSUME OutputInv, End PROVE OutputInv'
<1>1. TypeOK'
  BY NoDevice DEF End, startVars, muteVars, keyVars, userVars, OutputInv, TypeOK, Request, Holders
<1>2. Holders'
  BY NoDevice DEF End, startVars, muteVars, keyVars, userVars, OutputInv, TypeOK, Holders, Quiet,
                  LeavingMute
<1>3. Handover'
  BY NoDevice DEF End, startVars, muteVars, keyVars, userVars, OutputInv, TypeOK, Handover,
                  Holders, Quiet, LeavingMute
<1>4. DefaultKept'
  BY NoDevice DEF End, startVars, muteVars, keyVars, userVars, OutputInv, TypeOK, Handover,
                  DefaultKept
<1>5. KeyHolder'
  BY NoDevice DEF End, startVars, muteVars, keyVars, userVars, OutputInv, TypeOK, KeyHolder,
                  Holders, Quiet, LeavingMute
<1>6. MutedHasHolder' /\ HeldByUser' /\ KeyPending'
  BY DEF End, startVars, muteVars, keyVars, userVars, OutputInv, MutedHasHolder, HeldByUser,
         KeyPending
<1> QED BY <1>1, <1>2, <1>3, <1>4, <1>5, <1>6 DEF OutputInv

\* The guard is dropped: restored, or kept for the next session.
LEMMA EndGuardKeeps ==
    ASSUME OutputInv, EndGuard PROVE OutputInv'
<1>1. TypeOK'
  <2>1. FlagTypes'
    BY NoDevice DEF EndGuard, DropGuard, Or, KeptForNext, startVars, muteVars, keyVars, userVars,
                    OutputInv, TypeOK, FlagTypes
  <2> QED
    BY <2>1, NoDevice DEF EndGuard, DropGuard, Or, KeptForNext, startVars, muteVars, keyVars,
                          userVars, OutputInv, TypeOK, Request, Holders, FlagTypes
<1>2. Holders'
  BY NoDevice DEF EndGuard, DropGuard, Or, KeptForNext, startVars, muteVars, keyVars, userVars,
                  OutputInv, TypeOK, Holders, Quiet, LeavingMute
<1>3. Handover'
  BY NoDevice DEF EndGuard, DropGuard, Or, KeptForNext, startVars, muteVars, keyVars, userVars,
                  OutputInv, TypeOK, Handover, Holders, Quiet, LeavingMute
<1>4. DefaultKept'
  BY NoDevice DEF EndGuard, DropGuard, Or, KeptForNext, startVars, muteVars, keyVars, userVars,
                  OutputInv, TypeOK, Handover, DefaultKept
<1>5. KeyHolder'
  BY NoDevice DEF EndGuard, DropGuard, Or, KeptForNext, startVars, muteVars, keyVars, userVars,
                  OutputInv, TypeOK, KeyHolder, Holders, Quiet, LeavingMute
<1>6. MutedHasHolder' /\ HeldByUser' /\ KeyPending'
  BY DEF EndGuard, DropGuard, Or, KeptForNext, startVars, muteVars, keyVars, userVars, OutputInv,
         MutedHasHolder, HeldByUser, KeyPending
<1> QED BY <1>1, <1>2, <1>3, <1>4, <1>5, <1>6 DEF OutputInv

\* restore_unclaimed_default leaves nothing unless somebody is to come.
LEMMA RestoreUnclaimedKeeps ==
    ASSUME OutputInv, RestoreUnclaimed PROVE OutputInv'
<1>1. TypeOK'
  BY NoDevice DEF RestoreUnclaimed, Or, startVars, muteVars, keyVars, userVars, OutputInv, TypeOK,
                  Request, Holders
<1>2. Holders'
  BY NoDevice DEF RestoreUnclaimed, Or, startVars, muteVars, keyVars, userVars, OutputInv, TypeOK,
                  Holders, Quiet, LeavingMute
<1>3. Handover'
  BY NoDevice DEF RestoreUnclaimed, Or, startVars, muteVars, keyVars, userVars, OutputInv, TypeOK,
                  Handover, Holders, Quiet, LeavingMute
<1>4. DefaultKept'
  BY NoDevice DEF RestoreUnclaimed, Or, startVars, muteVars, keyVars, userVars, OutputInv, TypeOK,
                  Handover, DefaultKept
<1>5. KeyHolder'
  BY NoDevice DEF RestoreUnclaimed, Or, startVars, muteVars, keyVars, userVars, OutputInv, TypeOK,
                  KeyHolder, Holders, Quiet, LeavingMute
<1>6. MutedHasHolder' /\ HeldByUser' /\ KeyPending'
  BY DEF RestoreUnclaimed, Or, startVars, muteVars, keyVars, userVars, OutputInv, MutedHasHolder,
         HeldByUser, KeyPending
<1> QED BY <1>1, <1>2, <1>3, <1>4, <1>5, <1>6 DEF OutputInv

\* unmute_unclaimed: a device nobody takes over is unmuted.
LEMMA UnmuteUnclaimedKeeps ==
    ASSUME OutputInv, UnmuteUnclaimed PROVE OutputInv'
<1>1. TypeOK'
  BY NoDevice DEF UnmuteUnclaimed, startVars, muteVars, keyVars, userVars, OutputInv, TypeOK,
                  Request, Holders
<1>2. Holders'
  BY NoDevice DEF UnmuteUnclaimed, startVars, muteVars, keyVars, userVars, OutputInv, TypeOK,
                  Holders, Quiet, LeavingMute
<1>3. MutedHasHolder'
  BY NoDevice DEF UnmuteUnclaimed, startVars, muteVars, keyVars, userVars, OutputInv, TypeOK,
                  MutedHasHolder, Holders, Quiet, LeavingMute
<1>4. HeldByUser'
  BY NoDevice DEF UnmuteUnclaimed, startVars, muteVars, keyVars, userVars, OutputInv, TypeOK,
                  HeldByUser, Holders, Quiet, LeavingMute
<1>5. Handover'
  BY NoDevice DEF UnmuteUnclaimed, startVars, muteVars, keyVars, userVars, OutputInv, TypeOK,
                  Handover, Holders, Quiet, LeavingMute
<1>6. DefaultKept'
  BY NoDevice DEF UnmuteUnclaimed, startVars, muteVars, keyVars, userVars, OutputInv, TypeOK,
                  Handover, DefaultKept
<1>7. KeyHolder'
  BY NoDevice DEF UnmuteUnclaimed, startVars, muteVars, keyVars, userVars, OutputInv, TypeOK,
                  KeyHolder, Holders, Quiet, LeavingMute
<1>8. KeyPending'
  BY NoDevice DEF UnmuteUnclaimed, startVars, muteVars, keyVars, userVars, OutputInv, TypeOK,
                  KeyHolder, KeyPending, Holders, Quiet, LeavingMute
<1> QED BY <1>1, <1>2, <1>3, <1>4, <1>5, <1>6, <1>7, <1>8 DEF OutputInv

\* tick(false) begins a release.
LEMMA TickOffKeeps ==
    ASSUME OutputInv, TickOff PROVE OutputInv'
<1>1. TypeOK'
  BY NoDevice DEF TickOff, startVars, keyVars, userVars, OutputInv, TypeOK, Request, Holders
<1>2. Holders'
  BY NoDevice DEF TickOff, startVars, keyVars, userVars, OutputInv, TypeOK, Holders, Quiet,
                  LeavingMute
<1>3. Handover'
  BY NoDevice DEF TickOff, startVars, keyVars, userVars, OutputInv, TypeOK, Handover, Holders,
                  Quiet, LeavingMute
<1>4. DefaultKept'
  BY NoDevice DEF TickOff, startVars, keyVars, userVars, OutputInv, TypeOK, Handover, DefaultKept
<1>5. KeyHolder'
  BY NoDevice DEF TickOff, startVars, keyVars, userVars, OutputInv, TypeOK, KeyHolder, Holders,
                  Quiet, LeavingMute
<1>6. MutedHasHolder' /\ HeldByUser' /\ KeyPending'
  BY DEF TickOff, startVars, keyVars, userVars, OutputInv, MutedHasHolder, HeldByUser, KeyPending
<1> QED BY <1>1, <1>2, <1>3, <1>4, <1>5, <1>6 DEF OutputInv

\* tick(true) with another default begins a release and an attach.
LEMMA TickKeeps ==
    ASSUME OutputInv, Tick PROVE OutputInv'
<1>1. TypeOK'
  BY NoDevice DEF Tick, startVars, keyVars, userVars, OutputInv, TypeOK, Request, Holders
<1>2. Holders'
  BY NoDevice DEF Tick, startVars, keyVars, userVars, OutputInv, TypeOK, Holders, Quiet,
                  LeavingMute
<1>3. Handover'
  BY NoDevice DEF Tick, startVars, keyVars, userVars, OutputInv, TypeOK, Handover, Holders, Quiet,
                  LeavingMute
<1>4. DefaultKept'
  BY NoDevice DEF Tick, startVars, keyVars, userVars, OutputInv, TypeOK, Handover, DefaultKept
<1>5. KeyHolder'
  BY NoDevice DEF Tick, startVars, keyVars, userVars, OutputInv, TypeOK, KeyHolder, Holders,
                  Quiet, LeavingMute
<1>6. MutedHasHolder' /\ HeldByUser' /\ KeyPending'
  BY DEF Tick, startVars, keyVars, userVars, OutputInv, MutedHasHolder, HeldByUser, KeyPending
<1> QED BY <1>1, <1>2, <1>3, <1>4, <1>5, <1>6 DEF OutputInv

\* The watcher lets go first.
LEMMA ForgetKeeps ==
    ASSUME OutputInv, Forget PROVE OutputInv'
<1>1. TypeOK'
  <2>1. FlagTypes'
    BY NoDevice DEF Forget, startVars, muteVars, userVars, OutputInv, TypeOK, FlagTypes
  <2> QED
    BY <2>1, NoDevice DEF Forget, startVars, muteVars, userVars, OutputInv, TypeOK, Request,
                          Holders, FlagTypes
<1>2. Holders'
  BY NoDevice DEF Forget, startVars, muteVars, userVars, OutputInv, TypeOK, Holders, Quiet,
                  LeavingMute
<1>3. Handover'
  BY NoDevice DEF Forget, startVars, muteVars, userVars, OutputInv, TypeOK, Handover, Holders,
                  Quiet, LeavingMute
<1>4. DefaultKept'
  BY NoDevice DEF Forget, startVars, muteVars, userVars, OutputInv, TypeOK, Handover, DefaultKept
<1>5. KeyHolder'
  BY NoDevice DEF Forget, startVars, muteVars, userVars, OutputInv, TypeOK, KeyHolder, Holders,
                  Quiet, LeavingMute
<1>6. KeyPending'
  BY NoDevice DEF Forget, startVars, muteVars, userVars, OutputInv, TypeOK, KeyHolder, KeyPending,
                  Holders, Quiet, LeavingMute
<1>7. MutedHasHolder' /\ HeldByUser'
  BY DEF Forget, startVars, muteVars, userVars, OutputInv, MutedHasHolder, HeldByUser
<1> QED BY <1>1, <1>2, <1>3, <1>4, <1>5, <1>6, <1>7 DEF OutputInv

\* release_attached unmutes what this session muted.
LEMMA UnmuteKeeps ==
    ASSUME OutputInv, Unmute PROVE OutputInv'
<1>1. TypeOK'
  <2>1. FlagTypes'
    BY NoDevice DEF Unmute, startVars, keyVars, userVars, OutputInv, TypeOK, FlagTypes
  <2> QED
    BY <2>1, NoDevice DEF Unmute, startVars, keyVars, userVars, OutputInv, TypeOK, Request,
                          Holders, FlagTypes
<1>2. Holders'
  BY NoDevice DEF Unmute, startVars, keyVars, userVars, OutputInv, TypeOK, Holders, Quiet,
                  LeavingMute
<1>3. MutedHasHolder'
  BY NoDevice DEF Unmute, startVars, keyVars, userVars, OutputInv, TypeOK, MutedHasHolder,
                  Holders, Quiet, LeavingMute
<1>4. HeldByUser'
  BY NoDevice DEF Unmute, startVars, keyVars, userVars, OutputInv, TypeOK, HeldByUser, Holders,
                  Quiet, LeavingMute
<1>5. Handover'
  BY NoDevice DEF Unmute, startVars, keyVars, userVars, OutputInv, TypeOK, Handover, Holders,
                  Quiet, LeavingMute
<1>6. DefaultKept'
  BY NoDevice DEF Unmute, startVars, keyVars, userVars, OutputInv, TypeOK, Handover, DefaultKept
<1>7. KeyHolder'
  BY NoDevice DEF Unmute, startVars, keyVars, userVars, OutputInv, TypeOK, KeyHolder, Holders,
                  Quiet, LeavingMute
<1>8. KeyPending'
  BY NoDevice DEF Unmute, startVars, keyVars, userVars, OutputInv, TypeOK, KeyHolder, KeyPending,
                  Holders, Quiet, LeavingMute
<1> QED BY <1>1, <1>2, <1>3, <1>4, <1>5, <1>6, <1>7, <1>8 DEF OutputInv

\* attach mutes the device, or takes over one left muted.
LEMMA AttachKeeps ==
    ASSUME OutputInv, Attach PROVE OutputInv'
<1>1. TypeOK'
  <2>1. FlagTypes'
    BY NoDevice DEF Attach, startVars, userVars, OutputInv, TypeOK, FlagTypes
  <2> QED
    BY <2>1, NoDevice DEF Attach, startVars, userVars, OutputInv, TypeOK, Request, Holders,
                          FlagTypes
<1>2. Holders'
  BY NoDevice DEF Attach, startVars, userVars, OutputInv, TypeOK, Holders, Quiet, LeavingMute
<1>3. MutedHasHolder'
  BY NoDevice DEF Attach, startVars, userVars, OutputInv, TypeOK, MutedHasHolder, Holders, Quiet,
                  LeavingMute
<1>4. HeldByUser'
  BY NoDevice DEF Attach, startVars, userVars, OutputInv, TypeOK, HeldByUser, Holders, Quiet,
                  LeavingMute
<1>5. Handover'
  BY NoDevice DEF Attach, startVars, userVars, OutputInv, TypeOK, Handover, Holders, Quiet,
                  LeavingMute
<1>6. DefaultKept'
  BY NoDevice DEF Attach, startVars, userVars, OutputInv, TypeOK, Handover, DefaultKept
<1>7. KeyHolder'
  BY NoDevice DEF Attach, startVars, userVars, OutputInv, TypeOK, KeyHolder, Holders, Quiet,
                  LeavingMute
<1>8. KeyPending'
  BY NoDevice DEF Attach, startVars, userVars, OutputInv, TypeOK, KeyHolder, KeyPending, Holders,
                  Quiet, LeavingMute
<1> QED BY <1>1, <1>2, <1>3, <1>4, <1>5, <1>6, <1>7, <1>8 DEF OutputInv

\* release_inherited unmutes what was taken over and not attached.
LEMMA ReleaseInheritedKeeps ==
    ASSUME OutputInv, ReleaseInherited PROVE OutputInv'
<1>1. TypeOK'
  BY NoDevice DEF ReleaseInherited, startVars, keyVars, userVars, OutputInv, TypeOK, Request,
                  Holders
<1>2. Holders'
  BY NoDevice DEF ReleaseInherited, startVars, keyVars, userVars, OutputInv, TypeOK, Holders,
                  Quiet, LeavingMute
<1>3. MutedHasHolder'
  BY NoDevice DEF ReleaseInherited, startVars, keyVars, userVars, OutputInv, TypeOK,
                  MutedHasHolder, Holders, Quiet, LeavingMute
<1>4. HeldByUser'
  BY NoDevice DEF ReleaseInherited, startVars, keyVars, userVars, OutputInv, TypeOK, HeldByUser,
                  Holders, Quiet, LeavingMute
<1>5. Handover'
  BY NoDevice DEF ReleaseInherited, startVars, keyVars, userVars, OutputInv, TypeOK, Handover,
                  Holders, Quiet, LeavingMute
<1>6. DefaultKept'
  BY NoDevice DEF ReleaseInherited, startVars, keyVars, userVars, OutputInv, TypeOK, Handover,
                  DefaultKept
<1>7. KeyHolder'
  BY NoDevice DEF ReleaseInherited, startVars, keyVars, userVars, OutputInv, TypeOK, KeyHolder,
                  Holders, Quiet, LeavingMute
<1>8. KeyPending'
  BY NoDevice DEF ReleaseInherited, startVars, keyVars, userVars, OutputInv, TypeOK, KeyHolder,
                  KeyPending, Holders, Quiet, LeavingMute
<1> QED BY <1>1, <1>2, <1>3, <1>4, <1>5, <1>6, <1>7, <1>8 DEF OutputInv

\* Drop of OutputMute: left muted for the next session, or released.
LEMMA DropMuteKeeps ==
    ASSUME OutputInv, DropMute PROVE OutputInv'
<1>1. TypeOK'
  <2>1. FlagTypes'
    BY NoDevice DEF DropMute, Or, startVars, keyVars, userVars, OutputInv, TypeOK, FlagTypes
  <2> QED
    BY <2>1, NoDevice DEF DropMute, Or, startVars, keyVars, userVars, OutputInv, TypeOK, Request,
                          Holders, FlagTypes
<1>2. Holders'
  BY NoDevice DEF DropMute, Or, startVars, keyVars, userVars, OutputInv, TypeOK, Holders, Quiet,
                  LeavingMute
<1>3. MutedHasHolder'
  BY NoDevice DEF DropMute, Or, startVars, keyVars, userVars, OutputInv, TypeOK, MutedHasHolder,
                  Holders, Quiet, LeavingMute
<1>4. HeldByUser'
  BY NoDevice DEF DropMute, Or, startVars, keyVars, userVars, OutputInv, TypeOK, HeldByUser,
                  Holders, Quiet, LeavingMute
<1>5. Handover'
  BY NoDevice DEF DropMute, Or, startVars, keyVars, userVars, OutputInv, TypeOK, Handover,
                  Holders, Quiet, LeavingMute
<1>6. DefaultKept'
  BY NoDevice DEF DropMute, Or, startVars, keyVars, userVars, OutputInv, TypeOK, Handover,
                  DefaultKept
<1>7. KeyHolder'
  BY NoDevice DEF DropMute, Or, startVars, keyVars, userVars, OutputInv, TypeOK, KeyHolder,
                  Holders, Quiet, LeavingMute
<1>8. KeyPending'
  BY NoDevice DEF DropMute, Or, startVars, keyVars, userVars, OutputInv, TypeOK, KeyHolder,
                  KeyPending, Holders, Quiet, LeavingMute
<1> QED BY <1>1, <1>2, <1>3, <1>4, <1>5, <1>6, <1>7, <1>8 DEF OutputInv

\* key_pressed, by the watcher or the tick.
LEMMA WatchKeyKeeps ==
    ASSUME OutputInv, WatchKey PROVE OutputInv'
<1>1. TypeOK'
  <2>1. FlagTypes'
    BY NoDevice DEF WatchKey, Look, startVars, muteVars, userVars, OutputInv, TypeOK, FlagTypes
  <2> QED
    BY <2>1, NoDevice DEF WatchKey, Look, startVars, muteVars, userVars, OutputInv, TypeOK,
                          Request, Holders, FlagTypes
<1>2. MutedHasHolder'
  BY NoDevice DEF WatchKey, Look, startVars, muteVars, userVars, OutputInv, TypeOK,
                  MutedHasHolder, Holders, Quiet, LeavingMute, KeyHolder
<1>3. HeldByUser'
  BY NoDevice DEF WatchKey, Look, startVars, muteVars, userVars, OutputInv, TypeOK, HeldByUser,
                  Holders, Quiet, LeavingMute
<1>4. KeyHolder'
  BY NoDevice DEF WatchKey, Look, startVars, muteVars, userVars, OutputInv, TypeOK, KeyHolder,
                  Holders, Quiet, LeavingMute
<1>5. KeyPending'
  BY NoDevice DEF WatchKey, Look, startVars, muteVars, userVars, OutputInv, TypeOK, KeyHolder,
                  KeyPending, Holders, Quiet, LeavingMute
<1>6. Holders' /\ Handover' /\ DefaultKept'
  BY DEF WatchKey, Look, startVars, muteVars, userVars, OutputInv, Holders, Quiet, LeavingMute,
         Handover, DefaultKept
<1> QED BY <1>1, <1>2, <1>3, <1>4, <1>5, <1>6 DEF OutputInv

\* The user presses the mute key.
LEMMA PressMuteKeeps ==
    ASSUME OutputInv, PressMute PROVE OutputInv'
<1>1. TypeOK'
  <2>1. FlagTypes'
    BY NoDevice DEF PressMute, User, startVars, muteVars, OutputInv, TypeOK, FlagTypes
  <2> QED
    BY <2>1, NoDevice DEF PressMute, User, startVars, muteVars, OutputInv, TypeOK, Request,
                          Holders, FlagTypes
<1>2. MutedHasHolder'
  BY NoDevice DEF PressMute, User, startVars, muteVars, OutputInv, TypeOK, MutedHasHolder,
                  Holders, Quiet, LeavingMute
<1>3. HeldByUser'
  BY NoDevice DEF PressMute, User, startVars, muteVars, OutputInv, TypeOK, HeldByUser, Holders,
                  Quiet, LeavingMute
<1>4. KeyPending'
  BY NoDevice DEF PressMute, User, startVars, muteVars, OutputInv, TypeOK, KeyHolder, KeyPending,
                  Holders, Quiet, LeavingMute
<1>5. Holders' /\ Handover' /\ DefaultKept' /\ KeyHolder'
  BY DEF PressMute, User, startVars, muteVars, OutputInv, Holders, Quiet, LeavingMute, Handover,
         DefaultKept, KeyHolder
<1> QED BY <1>1, <1>2, <1>3, <1>4, <1>5 DEF OutputInv

\* The user presses a volume key.
LEMMA PressVolumeKeeps ==
    ASSUME OutputInv, PressVolume PROVE OutputInv'
<1>1. TypeOK'
  <2>1. FlagTypes'
    BY NoDevice DEF PressVolume, User, startVars, muteVars, OutputInv, TypeOK, FlagTypes
  <2> QED
    BY <2>1, NoDevice DEF PressVolume, User, startVars, muteVars, OutputInv, TypeOK, Request,
                          Holders, FlagTypes
<1>2. MutedHasHolder'
  BY NoDevice DEF PressVolume, User, startVars, muteVars, OutputInv, TypeOK, MutedHasHolder,
                  Holders, Quiet, LeavingMute
<1>3. HeldByUser'
  BY NoDevice DEF PressVolume, User, startVars, muteVars, OutputInv, TypeOK, HeldByUser, Holders,
                  Quiet, LeavingMute
<1>4. KeyHolder'
  BY NoDevice DEF PressVolume, User, startVars, muteVars, OutputInv, TypeOK, KeyHolder, Holders,
                  Quiet, LeavingMute
<1>5. KeyPending'
  BY NoDevice DEF PressVolume, User, startVars, muteVars, OutputInv, TypeOK, KeyHolder,
                  KeyPending, Holders, Quiet, LeavingMute
<1>6. Holders' /\ Handover' /\ DefaultKept'
  BY DEF PressVolume, User, startVars, muteVars, OutputInv, Holders, Quiet, LeavingMute, Handover,
         DefaultKept
<1> QED BY <1>1, <1>2, <1>3, <1>4, <1>5, <1>6 DEF OutputInv

\* The user chooses another default device.
LEMMA ChooseDefaultKeeps ==
    ASSUME OutputInv, NEW d \in Device, ChooseDefault(d) PROVE OutputInv'
<1>1. TypeOK'
  BY NoDevice DEF ChooseDefault, User, startVars, muteVars, OutputInv, TypeOK, Request, Holders
<1>2. DefaultKept'
  BY NoDevice DEF ChooseDefault, User, startVars, muteVars, OutputInv, TypeOK, Handover,
                  DefaultKept
<1>3. Holders' /\ MutedHasHolder' /\ HeldByUser' /\ Handover' /\ KeyHolder' /\ KeyPending'
  BY DEF ChooseDefault, User, startVars, muteVars, OutputInv, Holders, Quiet, LeavingMute,
         MutedHasHolder, HeldByUser, Handover, KeyHolder, KeyPending
<1> QED BY <1>1, <1>2, <1>3 DEF OutputInv

\* Before the first session nothing is switched, muted or watched.
LEMMA OutputInitial == Init => OutputInv
<1> SUFFICES ASSUME Init PROVE OutputInv
  OBVIOUS
<1>1. TypeOK
  BY DEF Init, TypeOK
<1>2. Holders /\ MutedHasHolder /\ HeldByUser
  BY DEF Init, Holders, Quiet, MutedHasHolder, HeldByUser
<1>3. Handover /\ DefaultKept
  BY DEF Init, Handover, DefaultKept
<1>4. KeyHolder /\ KeyPending
  BY DEF Init, KeyHolder, KeyPending
<1> QED BY <1>1, <1>2, <1>3, <1>4 DEF OutputInv

\* Every step keeps the invariant.
LEMMA OutputStep == ASSUME OutputInv, [Next]_vars PROVE OutputInv'
<1>1. CASE Next
  BY <1>1, StartKeeps, ExpectKeeps, LaunchKeeps, ConnectFailedKeeps, ConnectedKeeps, StandInKeeps,
     SourceFailedKeeps, NewMuteKeeps, ChangeSourceKeeps, TurnedOffKeeps, BackOnKeeps, EndKeeps,
     EndGuardKeeps, RestoreUnclaimedKeeps, UnmuteUnclaimedKeeps, TickOffKeeps, TickKeeps,
     ForgetKeeps, UnmuteKeeps, AttachKeeps, ReleaseInheritedKeeps, DropMuteKeeps, WatchKeyKeeps,
     PressMuteKeeps, PressVolumeKeeps, ChooseDefaultKeeps
     DEF Next
<1>2. CASE UNCHANGED vars
  BY <1>2 DEF vars, startVars, muteVars, keyVars, userVars, OutputInv, TypeOK, Holders, Quiet,
              LeavingMute, MutedHasHolder, HeldByUser, Handover, DefaultKept, KeyHolder, KeyPending
<1> QED BY <1>1, <1>2

\* However sessions replace each other, fail or are told of key presses: what
\* they did to the output devices is undone, the default is the user's again,
\* and no press of the mute key is lost.
THEOREM OutputSafeAlways == Spec => []OutputSafe
<1>1. OutputInv => OutputSafe
  <2> SUFFICES ASSUME OutputInv PROVE OutputSafe
    OBVIOUS
  <2>1. NothingLeft
    BY NoDevice DEF OutputInv, NothingLeft, AtRest, TypeOK, Holders, Quiet, MutedHasHolder,
                    Handover, KeyHolder
  <2>2. DefaultIsChosen
    BY DEF OutputInv, DefaultIsChosen, AtRest, Handover, DefaultKept
  <2>3. KeyTaken
    BY DEF OutputInv, KeyTaken, KeyHolder, KeyPending
  <2> QED BY <2>1, <2>2, <2>3 DEF OutputInv, OutputSafe
<1> QED BY <1>1, OutputInitial, OutputStep, PTL DEF Spec

\* No step of a session or of the watcher unmutes a device its user muted, but
\* for one a session left muted to the next.
THEOREM UserMuteKept == Spec => UserMuteStays
<1>1. ASSUME OutputInv, [Next]_vars
      PROVE  [\A d \in Device : muted[d] = "user" /\ muted'[d] = "no" => users' # users \/ d \in kept]_vars
  <2> SUFFICES ASSUME Next, NEW d \in Device, muted[d] = "user", muted'[d] = "no", users' = users
               PROVE  d \in kept
    BY <1>1
  <2>1. muted' # muted
    OBVIOUS
  <2>2. CASE UnmuteUnclaimed
    BY <1>1, <2>2, NoDevice DEF UnmuteUnclaimed, OutputInv, TypeOK, HeldByUser
  <2>3. CASE Unmute
    BY <1>1, <2>3, NoDevice DEF Unmute, OutputInv, TypeOK, HeldByUser
  <2>4. CASE Attach
    BY <1>1, <2>4, NoDevice DEF Attach, OutputInv, TypeOK
  <2>5. CASE ReleaseInherited
    BY <1>1, <2>5, NoDevice DEF ReleaseInherited, OutputInv, TypeOK, HeldByUser
  <2>6. CASE WatchKey
    BY <1>1, <2>6, NoDevice DEF WatchKey, Look, OutputInv, TypeOK
  <2>7. CASE User
    BY <1>1, <2>7 DEF User, OutputInv, TypeOK
  <2> QED BY <2>1, <2>2, <2>3, <2>4, <2>5, <2>6, <2>7
          DEF Next, Start, Expect, Launch, ConnectFailed, Connected, StandIn, SourceFailed, NewMute,
              ChangeSource, TurnedOff, BackOn, End, EndGuard, RestoreUnclaimed, TickOff, Tick, Forget,
              DropMute, PressMute, PressVolume, ChooseDefault
<1> QED BY <1>1, OutputInitial, OutputStep, PTL DEF Spec, UserMuteStays

-----------------------------------------------------------------------------
(* The channels of IPC clients (Rfcomm)                                    *)

\* What the jobs, the opens, the messages and the channels are.
JobType == [op : {"open", "send", "close"}, id : Opening]
OpenType == [id : Opening, stage : {"waiting", "sdp", "connecting"}, reply : BOOLEAN]
MsgType == [id : Opening, kind : {"opened", "failed", "close", "closed", "data"}]
ChannelType == [st : {"none", "open", "closing"}, queue : Nat, asked : BOOLEAN]
Answers == {"none", "wait", "ok", "err", "timed", "timedOk", "done"}

WireTypes ==
    /\ jobs \in Seq(JobType) /\ opens \in Seq(OpenType)
    /\ channels \in [Opening -> ChannelType] /\ air \subseteq Present
    /\ a2dp \in BOOLEAN /\ running \in BOOLEAN

ClientTypes ==
    /\ task \in [Opening -> Answers]
    /\ owned \subseteq Opening /\ closed \subseteq Opening
    /\ held \in [Opening -> Seq(MsgType)] /\ ended \in BOOLEAN
    /\ pendingData \in 0..MaxPending /\ log \in Seq(MsgType) /\ written \in 0..Len(log)
    /\ sends \in 0..MaxSend /\ raced \subseteq Opening

\* The first open runs, the others wait behind it, and the channels with them
\* are no more than the limit; a stack that stopped has no channel.
OpensInv ==
    /\ \A k \in DOMAIN opens : opens[k].stage = "waiting" <=> k > 1
    /\ Len(opens) + Cardinality(Present) <= MaxChannels
    /\ ~running => \A i \in Opening : channels[i].st = "none"

SendsOf(i) == {k \in DOMAIN jobs : jobs[k] = Job("send", i)}

\* What a channel has queued was sent by the client, with what is on its way;
\* while something is queued RFCOMM owes the moment to send it.
QueueOf(i) ==
    /\ channels[i].queue + Cardinality(SendsOf(i)) <= sends
    /\ channels[i].st = "none" => channels[i] = NoChannel
    /\ channels[i].queue > 0 => channels[i].asked
    /\ channels[i].st = "closing" => channels[i].queue > 0
QueueInv == \A i \in Opening : QueueOf(i)

Told(i, kinds) == \E k \in DOMAIN log : log[k].id = i /\ log[k].kind \in kinds

\* The life of an open: until it is answered there is no channel; until the
\* answer is handed over nobody closes the channel and the client hears nothing
\* of it.
LifeOf(i) ==
    /\ task[i] \in {"none", "wait", "timed"} =>
          channels[i].st = "none" /\ held[i] = <<>> /\ i \notin closed
    /\ task[i] # "done" =>
          /\ i \notin owned /\ ~Closes(i) /\ channels[i].st # "closing"
          /\ ~Told(i, {"opened", "data", "closed", "close"})
    /\ task[i] = "ok" /\ ~ended =>
          EndIsIn(held[i]) \/ (channels[i].st = "open" /\ i \notin closed)
LifeInv == \A i \in Opening : LifeOf(i)

\* What is held of a channel ends with its end.
HeldOf(i) ==
    /\ EndIsIn(held[i]) => channels[i].st = "none"
    /\ \A k \in DOMAIN held[i] :
          /\ held[i][k].id = i
          /\ \/ held[i][k].kind = "data"
             \/ held[i][k].kind = "closed" /\ k = Len(held[i])
HeldInv ==
    /\ ended => owned = {} /\ \A i \in Opening : held[i] = <<>>
    /\ \A i \in Opening : HeldOf(i)

\* A channel of the connection is open, and its client knows nothing else.
OwnedOf(i) ==
    /\ channels[i].st = "open" /\ i \notin closed /\ ~Closes(i)
    /\ Told(i, {"opened"}) /\ ~Told(i, {"closed", "close"})
OwnedInv == \A i \in owned : OwnedOf(i)

ChannelsInv ==
    /\ WireTypes /\ ClientTypes /\ OpensInv /\ QueueInv /\ LifeInv /\ HeldInv /\ OwnedInv
    /\ NoOrphan /\ ToldInOrder /\ PendingIsCounted

\* The channels there are, those of the connection, and the pieces on their way
\* are finitely many.
LEMMA FiniteParts ==
    ASSUME ChannelsInv
    PROVE /\ IsFiniteSet(Present) /\ Cardinality(Present) \in Nat
          /\ IsFiniteSet(owned)
          /\ \A i \in Opening : IsFiniteSet(SendsOf(i)) /\ Cardinality(SendsOf(i)) \in Nat
<1>1. Present \subseteq Opening /\ owned \subseteq Opening
  BY DEF ChannelsInv, ClientTypes, Present
<1>2. IsFiniteSet(Present) /\ IsFiniteSet(owned)
  BY <1>1, RfcommConstants, FS_Subset
<1>3. IsFiniteSet(1..Len(jobs))
  BY FS_Interval DEF ChannelsInv, WireTypes
<1>4. ASSUME NEW i \in Opening PROVE IsFiniteSet(SendsOf(i))
  <2>1. SendsOf(i) \subseteq 1..Len(jobs)
    BY DEF SendsOf, ChannelsInv, WireTypes
  <2> QED BY <2>1, <1>3, FS_Subset
<1> QED BY <1>2, <1>4, FS_CardinalityType

\* What a posted job changes, for the channel it is for.
LEMMA JobsPosted ==
    ASSUME ChannelsInv, NEW o \in {"open", "send", "close"}, NEW j \in Opening, Post(Job(o, j))
    PROVE /\ jobs' \in Seq(JobType)
          /\ \A i \in Opening :
                /\ Closes(i)' <=> (Closes(i) \/ (o = "close" /\ i = j))
                /\ Cardinality(SendsOf(i))' = IF o = "send" /\ i = j THEN Cardinality(SendsOf(i)) + 1
                                                                                 ELSE Cardinality(SendsOf(i))
<1>1. jobs \in Seq(JobType) /\ Job(o, j) \in JobType
  BY DEF ChannelsInv, WireTypes, JobType, Job
<1>2. /\ jobs' \in Seq(JobType) /\ Len(jobs') = Len(jobs) + 1
      /\ jobs'[Len(jobs) + 1] = Job(o, j) /\ \A k \in 1..Len(jobs) : jobs'[k] = jobs[k]
      /\ DOMAIN jobs = 1..Len(jobs) /\ DOMAIN jobs' = 1..(Len(jobs) + 1) /\ Len(jobs) \in Nat
  BY <1>1 DEF Post
<1>3. ASSUME NEW i \in Opening, NEW p \in {"send", "close"}
      PROVE Job(o, j) = Job(p, i) <=> (o = p /\ i = j)
  BY DEF Job
<1>4. ASSUME NEW i \in Opening PROVE Closes(i)' <=> (Closes(i) \/ (o = "close" /\ i = j))
  <2>1. Job(o, j) = Job("close", i) <=> (o = "close" /\ i = j)
    BY <1>3
  <2>2. \A k \in 1..(Len(jobs) + 1) : k \in 1..Len(jobs) \/ k = Len(jobs) + 1
    BY <1>2
  <2> QED BY <2>1, <2>2, <1>2 DEF Closes
<1>5. ASSUME NEW i \in Opening
      PROVE Cardinality(SendsOf(i))' = IF o = "send" /\ i = j THEN Cardinality(SendsOf(i)) + 1
                                                                                 ELSE Cardinality(SendsOf(i))
  <2>1. Job(o, j) = Job("send", i) <=> (o = "send" /\ i = j)
    BY <1>3
  <2>2. SendsOf(i)' = IF o = "send" /\ i = j THEN SendsOf(i) \cup {Len(jobs) + 1} ELSE SendsOf(i)
    BY <2>1, <1>2 DEF SendsOf
  <2>3. Len(jobs) + 1 \notin SendsOf(i)
    BY <1>2 DEF SendsOf
  <2>4. IsFiniteSet(SendsOf(i)) /\ Cardinality(SendsOf(i)) \in Nat
    BY FiniteParts
  <2> QED BY <2>2, <2>3, <2>4, FS_AddElement
<1> QED BY <1>2, <1>4, <1>5

\* What a job taken changes.
LEMMA JobsTaken ==
    ASSUME ChannelsInv, jobs # <<>>, jobs' = Tail(jobs)
    PROVE /\ jobs' \in Seq(JobType) /\ Head(jobs) \in JobType
          /\ Head(jobs).op = "close" => Closes(Head(jobs).id)
          /\ \A i \in Opening :
                /\ Closes(i)' => Closes(i)
                /\ Closes(i) => Closes(i)' \/ Head(jobs) = Job("close", i)
                /\ Cardinality(SendsOf(i))'
                      = IF Head(jobs) = Job("send", i) THEN Cardinality(SendsOf(i)) - 1 ELSE Cardinality(SendsOf(i))
<1>1. jobs \in Seq(JobType)
  BY DEF ChannelsInv, WireTypes
<1>2. /\ jobs' \in Seq(JobType) /\ Len(jobs') = Len(jobs) - 1 /\ Len(jobs) \in Nat \ {0}
      /\ \A k \in 1..(Len(jobs) - 1) : jobs'[k] = jobs[k + 1]
      /\ DOMAIN jobs = 1..Len(jobs) /\ DOMAIN jobs' = 1..(Len(jobs) - 1)
      /\ Head(jobs) = jobs[1] /\ jobs[1] \in JobType
  BY <1>1
<1>3. Head(jobs).op = "close" => Closes(Head(jobs).id)
  <2>1. SUFFICES ASSUME jobs[1].op = "close" PROVE jobs[1] = Job("close", jobs[1].id)
    BY <1>2 DEF Closes
  <2> QED BY <1>2, <2>1 DEF JobType, Job
<1>4. ASSUME NEW i \in Opening
      PROVE /\ Closes(i)' => Closes(i)
            /\ Closes(i) => Closes(i)' \/ Head(jobs) = Job("close", i)
  <2>1. Closes(i)' => Closes(i)
    <3>1. SUFFICES ASSUME NEW k \in 1..(Len(jobs) - 1), jobs'[k] = Job("close", i)' PROVE Closes(i)
      BY <1>2 DEF Closes
    <3>2. k + 1 \in 1..Len(jobs) /\ jobs[k + 1] = Job("close", i)
      BY <3>1, <1>2 DEF Job
    <3> QED BY <3>2, <1>2 DEF Closes
  <2>2. ASSUME Closes(i), Head(jobs) # Job("close", i) PROVE Closes(i)'
    <3>1. PICK k \in 1..Len(jobs) : jobs[k] = Job("close", i)
      BY <2>2, <1>2 DEF Closes
    <3>2. k # 1
      BY <3>1, <2>2, <1>2
    <3>3. k - 1 \in 1..(Len(jobs) - 1) /\ jobs'[k - 1] = jobs[(k - 1) + 1] /\ (k - 1) + 1 = k
      BY <3>2, <1>2
    <3>4. jobs'[k - 1] = Job("close", i)
      BY <3>1, <3>3
    <3> QED BY <3>3, <3>4, <1>2 DEF Closes, Job
  <2> QED BY <2>1, <2>2
<1>5. ASSUME NEW i \in Opening
      PROVE Cardinality(SendsOf(i))'
               = IF Head(jobs) = Job("send", i) THEN Cardinality(SendsOf(i)) - 1 ELSE Cardinality(SendsOf(i))
  <2>1. IsFiniteSet(SendsOf(i)) /\ Cardinality(SendsOf(i)) \in Nat
    BY FiniteParts
  <2> DEFINE R == SendsOf(i) \ {1}
  <2> DEFINE f == [k \in R |-> k - 1]
  <2>2. IsFiniteSet(R) /\ Cardinality(R) = IF Head(jobs) = Job("send", i) THEN Cardinality(SendsOf(i)) - 1 ELSE Cardinality(SendsOf(i))
    <3>1. 1 \in SendsOf(i) <=> Head(jobs) = Job("send", i)
      BY <1>2 DEF SendsOf
    <3>2. IsFiniteSet(R) /\ Cardinality(R) = IF 1 \in SendsOf(i) THEN Cardinality(SendsOf(i)) - 1 ELSE Cardinality(SendsOf(i))
      BY <2>1, FS_RemoveElement
    <3> HIDE DEF R
    <3> QED BY <3>1, <3>2, <2>1
  <2>3. \A k \in R : k - 1 \in SendsOf(i)'
    <3> SUFFICES ASSUME NEW k \in R PROVE k - 1 \in SendsOf(i)'
      OBVIOUS
    <3>1. k \in 1..Len(jobs) /\ k # 1 /\ jobs[k] = Job("send", i)
      BY <1>2 DEF SendsOf
    <3>2. k - 1 \in 1..(Len(jobs) - 1) /\ jobs'[k - 1] = jobs[(k - 1) + 1] /\ (k - 1) + 1 = k
      BY <3>1, <1>2
    <3> QED BY <3>1, <3>2, <1>2 DEF SendsOf, Job
  <2>4. \A n \in SendsOf(i)' : n + 1 \in R /\ (n + 1) - 1 = n
    <3> SUFFICES ASSUME NEW n \in SendsOf(i)' PROVE n + 1 \in R /\ (n + 1) - 1 = n
      OBVIOUS
    <3>1. n \in 1..(Len(jobs) - 1) /\ jobs'[n] = Job("send", i)
      BY <1>2 DEF SendsOf, Job
    <3>2. n + 1 \in 1..Len(jobs) /\ n + 1 # 1 /\ jobs[n + 1] = Job("send", i) /\ (n + 1) - 1 = n
      BY <3>1, <1>2
    <3> QED BY <3>2, <1>2 DEF SendsOf
  <2>5. R \subseteq Int
    BY <1>2 DEF SendsOf
  <2>6. f \in Bijection(R, SendsOf(i)')
    <3>1. f \in [R -> SendsOf(i)']
      BY <2>3
    <3>2. \A a, b \in R : f[a] = f[b] => a = b
      BY <2>5
    <3>3. \A n \in SendsOf(i)' : \E k \in R : f[k] = n
      BY <2>4
    <3> HIDE DEF f, R
    <3> QED BY <3>1, <3>2, <3>3, Fun_IsBij
  <2>7. Cardinality(SendsOf(i)') = Cardinality(R)
    <3> HIDE DEF f, R
    <3> QED BY <2>6, <2>2, FS_Bijection DEF ExistsBijection
  <2> QED BY <2>7, <2>2
<1> QED BY <1>2, <1>3, <1>4, <1>5

\* A message is its channel and its kind.
LEMMA MsgIs ==
    ASSUME NEW i \in Opening, NEW m \in MsgType
    PROVE \A k : m = Msg(i, k) <=> (m.id = i /\ m.kind = k)
BY DEF MsgType, Msg

\* What the messages of a step change, when the client hears each channel in
\* order.
InTurnAfter(t) ==
    \A k \in DOMAIN t : t[k].kind \in {"data", "closed"} =>
       /\ Told(t[k].id, {"opened"}) \/ \E j \in 1..(k - 1) : t[j] = Msg(t[k].id, "opened")
       /\ ~Told(t[k].id, {"closed", "close"})
       /\ \A j \in 1..(k - 1) : t[j] \notin {Msg(t[k].id, "closed"), Msg(t[k].id, "close")}

\* Messages that come in their turn leave the log in order.
LEMMA LogExtends ==
    ASSUME ChannelsInv, NEW t \in Seq(MsgType), log' = log \o t
    PROVE /\ log' \in Seq(MsgType) /\ Len(log') = Len(log) + Len(t)
          /\ written \in 0..Len(log')
          /\ \A k \in 1..Len(log) : log'[k] = log[k]
          /\ \A k \in 1..Len(t) : log'[Len(log) + k] = t[k]
          /\ \A i, K : Told(i, K)' <=> (Told(i, K) \/ \E k \in DOMAIN t : t[k].id = i /\ t[k].kind \in K)
          /\ InTurnAfter(t) => ToldInOrder'
<1>1. log \in Seq(MsgType) /\ written \in 0..Len(log)
  BY DEF ChannelsInv, ClientTypes
<1>2. /\ log' \in Seq(MsgType) /\ Len(log') = Len(log) + Len(t)
      /\ Len(log) \in Nat /\ Len(t) \in Nat
      /\ DOMAIN log = 1..Len(log) /\ DOMAIN t = 1..Len(t) /\ DOMAIN log' = 1..(Len(log) + Len(t))
  BY <1>1
<1>3. \A k \in 1..Len(log) : log'[k] = log[k]
  BY <1>1
<1>4. ASSUME NEW k \in 1..Len(t) PROVE log'[Len(log) + k] = t[k] /\ Len(log) + k \in 1..(Len(log) + Len(t))
  BY <1>1, <1>2
<1>5. ASSUME NEW k \in 1..(Len(log) + Len(t)), k \notin 1..Len(log)
      PROVE k - Len(log) \in 1..Len(t) /\ log'[k] = t[k - Len(log)]
  <2>1. k - Len(log) \in 1..Len(t) /\ Len(log) + (k - Len(log)) = k
    BY <1>2, <1>5
  <2> QED BY <2>1, <1>4
<1>6. ASSUME NEW i, NEW K
      PROVE Told(i, K)' <=> (Told(i, K) \/ \E k \in DOMAIN t : t[k].id = i /\ t[k].kind \in K)
  <2>1. ASSUME Told(i, K)', ~Told(i, K) PROVE \E k \in DOMAIN t : t[k].id = i /\ t[k].kind \in K
    <3>1. PICK k \in 1..(Len(log) + Len(t)) : log'[k].id = i /\ log'[k].kind \in K
      BY <2>1, <1>2 DEF Told
    <3>2. k \notin 1..Len(log)
      BY <3>1, <2>1, <1>2, <1>3 DEF Told
    <3> QED BY <3>1, <3>2, <1>5, <1>2
  <2>2. Told(i, K) => Told(i, K)'
    <3>1. \A k \in 1..Len(log) : k \in 1..(Len(log) + Len(t))
      BY <1>2
    <3> QED BY <3>1, <1>2, <1>3 DEF Told
  <2>3. ASSUME NEW k \in DOMAIN t, t[k].id = i /\ t[k].kind \in K PROVE Told(i, K)'
    BY <2>3, <1>4, <1>2 DEF Told
  <2> QED BY <2>1, <2>2, <2>3
<1>7. ASSUME InTurnAfter(t) PROVE ToldInOrder'
  <2> SUFFICES ASSUME NEW k \in 1..(Len(log) + Len(t)), log'[k].kind \in {"data", "closed"}
               PROVE /\ \E j \in 1..(k - 1) : log'[j] = Msg(log'[k].id, "opened")
                     /\ \A j \in 1..(k - 1) : log'[j] \notin {Msg(log'[k].id, "closed"), Msg(log'[k].id, "close")}
    BY <1>2 DEF ToldInOrder, Msg
  <2>1. CASE k \in 1..Len(log)
    <3>1. \A j \in 1..(k - 1) : j \in 1..Len(log) /\ log'[j] = log[j]
      BY <2>1, <1>2, <1>3
    <3>2. log'[k] = log[k]
      BY <2>1, <1>3
    <3> QED BY <3>1, <3>2, <2>1, <1>2 DEF ChannelsInv, ToldInOrder
  <2>2. CASE k \notin 1..Len(log)
    <3> DEFINE n == k - Len(log)
    <3>1. n \in 1..Len(t) /\ log'[k] = t[n] /\ t[n].kind \in {"data", "closed"} /\ t[n] \in MsgType
      BY <2>2, <1>5, <1>2
    <3> DEFINE i == t[n].id
    <3>2. i \in Opening
      BY <3>1 DEF MsgType
    <3>3. /\ Told(i, {"opened"}) \/ \E j \in 1..(n - 1) : t[j] = Msg(i, "opened")
          /\ ~Told(i, {"closed", "close"})
          /\ \A j \in 1..(n - 1) : t[j] \notin {Msg(i, "closed"), Msg(i, "close")}
      BY <3>1, <1>2, <1>7 DEF InTurnAfter
    <3>4. \A j \in 1..(k - 1) : \/ j \in 1..Len(log) /\ log'[j] = log[j]
                                \/ j - Len(log) \in 1..(n - 1) /\ log'[j] = t[j - Len(log)]
      <4>1. SUFFICES ASSUME NEW j \in 1..(k - 1), j \notin 1..Len(log)
                     PROVE j - Len(log) \in 1..(n - 1) /\ log'[j] = t[j - Len(log)]
        BY <1>3
      <4>2. j \in 1..(Len(log) + Len(t)) /\ j - Len(log) \in 1..(n - 1)
        BY <4>1, <1>2
      <4> QED BY <4>1, <4>2, <1>5
    <3>5. \E j \in 1..(k - 1) : log'[j] = Msg(i, "opened")
      <4>1. CASE Told(i, {"opened"})
        <5>1. PICK j \in 1..Len(log) : log[j].id = i /\ log[j].kind = "opened"
          BY <4>1, <1>2 DEF Told
        <5>2. log[j] = Msg(i, "opened") /\ j \in 1..(k - 1)
          BY <5>1, <1>1, <1>2, <2>2, <3>2, MsgIs
        <5> QED BY <5>2, <5>1, <1>3
      <4>2. CASE \E j \in 1..(n - 1) : t[j] = Msg(i, "opened")
        <5>1. PICK j \in 1..(n - 1) : t[j] = Msg(i, "opened")
          BY <4>2
        <5>2. Len(log) + j \in 1..(k - 1) /\ j \in 1..Len(t)
          BY <5>1, <3>1, <1>2
        <5> QED BY <5>1, <5>2, <1>4
      <4> QED BY <4>1, <4>2, <3>3
    <3>6. ASSUME NEW j \in 1..(k - 1) PROVE log'[j] \notin {Msg(i, "closed"), Msg(i, "close")}
      <4>1. CASE j \in 1..Len(log) /\ log'[j] = log[j]
        <5>1. Msg(i, "closed").id = i /\ Msg(i, "closed").kind = "closed" /\ Msg(i, "close").id = i /\ Msg(i, "close").kind = "close"
          BY DEF Msg
        <5> QED BY <5>1, <4>1, <3>3, <1>2 DEF Told
      <4>2. CASE j - Len(log) \in 1..(n - 1) /\ log'[j] = t[j - Len(log)]
        BY <4>2, <3>3
      <4> QED BY <4>1, <4>2, <3>4
    <3> HIDE DEF n, i
    <3> QED BY <3>1, <3>5, <3>6 DEF i
  <2> QED BY <2>1, <2>2
<1>8. written \in 0..Len(log')
  BY <1>1, <1>2
<1> QED BY <1>2, <1>3, <1>4, <1>6, <1>7, <1>8

\* One message.
LEMMA LogAppends ==
    ASSUME ChannelsInv, NEW i \in Opening, NEW kind \in {"opened", "failed", "close", "closed", "data"},
           log' = Append(log, Msg(i, kind))
    PROVE /\ log' \in Seq(MsgType) /\ written \in 0..Len(log')
          /\ \A j, K : Told(j, K)' <=> (Told(j, K) \/ (j = i /\ kind \in K))
          /\ kind \notin {"data", "closed"} \/ (Told(i, {"opened"}) /\ ~Told(i, {"closed", "close"})) => ToldInOrder'
          /\ {k \in DataIn(log') : k > written}
                = Unread \cup (IF kind = "data" THEN {Len(log) + 1} ELSE {})
          /\ Len(log) + 1 \notin Unread
<1> DEFINE t == <<Msg(i, kind)>>
<1>1. Msg(i, kind) \in MsgType /\ log \in Seq(MsgType) /\ Msg(i, kind).id = i /\ Msg(i, kind).kind = kind
  BY DEF Msg, MsgType, ChannelsInv, ClientTypes
<1>2. t \in Seq(MsgType) /\ log' = log \o t /\ DOMAIN t = {1} /\ t[1] = Msg(i, kind) /\ Len(t) = 1
  BY <1>1
<1>3. kind \notin {"data", "closed"} \/ (Told(i, {"opened"}) /\ ~Told(i, {"closed", "close"})) => InTurnAfter(t)
  BY <1>1, <1>2 DEF InTurnAfter
<1>4. /\ log' \in Seq(MsgType) /\ Len(log') = Len(log) + 1 /\ written \in 0..Len(log')
      /\ \A k \in 1..Len(log) : log'[k] = log[k]
      /\ \A k \in 1..1 : log'[Len(log) + k] = t[k]
      /\ \A j, K : Told(j, K)' <=> (Told(j, K) \/ \E k \in DOMAIN t : t[k].id = j /\ t[k].kind \in K)
      /\ InTurnAfter(t) => ToldInOrder'
  <2> HIDE DEF t
  <2> QED BY <1>2, LogExtends
<1>5. \A j, K : Told(j, K)' <=> (Told(j, K) \/ (j = i /\ kind \in K))
  BY <1>4, <1>1, <1>2
<1>6. log'[Len(log) + 1] = Msg(i, kind) /\ Len(log) \in Nat /\ written \in 0..Len(log)
      /\ DOMAIN log = 1..Len(log) /\ DOMAIN log' = 1..(Len(log) + 1)
  BY <1>4, <1>2, <1>1 DEF ChannelsInv, ClientTypes
<1>7. {k \in DataIn(log') : k > written} = Unread \cup (IF kind = "data" THEN {Len(log) + 1} ELSE {})
  BY <1>1, <1>4, <1>6 DEF DataIn, Unread
<1>8. Len(log) + 1 \notin Unread
  BY <1>6 DEF Unread, DataIn
<1> HIDE DEF t
<1> QED BY <1>3, <1>4, <1>5, <1>7, <1>8

\* The opens answered with an error by the way: none that does not wait.
OnlyErrs ==
    /\ task' \in [Opening -> Answers]
    /\ \A i \in Opening : task'[i] = task[i] \/ (task[i] = "wait" /\ task'[i] = "err")

\* An answer with an error leaves what does not wait.
LEMMA AnsweredErrs ==
    ASSUME ChannelsInv, NEW S, task' = Answered(S, "err")
    PROVE OnlyErrs
BY DEF Answered, OnlyErrs, ChannelsInv, ClientTypes, Answers

\* The opens from the m-th on.
LEMMA RestIs ==
    ASSUME NEW os \in Seq(OpenType), NEW m \in 1..(Len(os) + 1), NEW rest, rest = SubSeq(os, m, Len(os))
    PROVE /\ rest \in Seq(OpenType) /\ Len(rest) = Len(os) - m + 1
          /\ \A n \in 1..Len(rest) : rest[n] = os[m + n - 1] /\ m + n - 1 \in 1..Len(os)
<1>1. Len(os) \in Int /\ m \in Int /\ m <= Len(os) + 1 /\ m >= 1
  OBVIOUS
<1>2. \A i \in m..Len(os) : os[i] \in OpenType
  BY <1>1
<1>3. /\ rest \in Seq(OpenType) /\ Len(rest) = IF m <= Len(os) THEN Len(os) - m + 1 ELSE 0
      /\ \A n \in 1..(Len(os) - m + 1) : rest[n] = os[m + n - 1]
  BY <1>1, <1>2, SubSeqProperties
<1>4. Len(rest) = Len(os) - m + 1
  BY <1>1, <1>3
<1>5. ASSUME NEW n \in 1..Len(rest) PROVE m + n - 1 \in 1..Len(os)
  BY <1>1, <1>4
<1> QED BY <1>3, <1>4, <1>5

\* The n-th open followed by those that wait behind it.
LEMMA HeadedBy ==
    ASSUME NEW os \in Seq(OpenType), \A k \in DOMAIN os : k > 1 => os[k].stage = "waiting",
           NEW a \in OpenType, NEW m \in 2..(Len(os) + 1), NEW t, t = <<a>> \o SubSeq(os, m, Len(os))
    PROVE /\ t \in Seq(OpenType) /\ Len(t) = Len(os) - m + 2 /\ t[1] = a
          /\ \A k \in DOMAIN t : k > 1 => t[k].stage = "waiting"
<1> DEFINE rest == SubSeq(os, m, Len(os))
<1>1. m \in 1..(Len(os) + 1) /\ Len(os) \in Nat /\ DOMAIN os = 1..Len(os)
  OBVIOUS
<1>2. /\ rest \in Seq(OpenType) /\ Len(rest) = Len(os) - m + 1
      /\ \A n \in 1..Len(rest) : rest[n] = os[m + n - 1] /\ m + n - 1 \in 1..Len(os)
  BY <1>1, RestIs
<1>3. t = <<a>> \o rest
  OBVIOUS
<1> HIDE DEF rest
<1>4. /\ t \in Seq(OpenType) /\ Len(t) = 1 + Len(rest) /\ t[1] = a /\ DOMAIN t = 1..(1 + Len(rest))
      /\ \A n \in 2..(1 + Len(rest)) : t[n] = rest[n - 1]
  BY <1>2, <1>3
<1>5. ASSUME NEW k \in DOMAIN t, k > 1 PROVE t[k].stage = "waiting"
  <2>1. k \in 2..(1 + Len(rest)) /\ k - 1 \in 1..Len(rest) /\ m + (k - 1) - 1 > 1
    BY <1>2, <1>4, <1>5
  <2>2. t[k] = os[m + (k - 1) - 1] /\ m + (k - 1) - 1 \in 1..Len(os)
    BY <2>1, <1>2, <1>4
  <2> QED BY <2>1, <2>2, <1>1
<1> QED BY <1>1, <1>2, <1>4, <1>5

\* What Rfcomm::next leaves of opens that wait behind the first.
LEMMA BeginsIs ==
    ASSUME NEW os \in Seq(OpenType), \A k \in DOMAIN os : k > 1 => os[k].stage = "waiting",
           NEW failed, Begins(os, failed)
    PROVE /\ opens' \in Seq(OpenType) /\ Len(opens') <= Len(os)
          /\ \A k \in DOMAIN opens' : opens'[k].stage = "waiting" <=> k > 1
<1>1. CASE os = <<>> \/ Head(os).stage # "waiting"
  <2>1. opens' = os
    BY <1>1 DEF Begins
  <2>2. \A k \in DOMAIN os : os[k].stage = "waiting" <=> k > 1
    BY <1>1
  <2> QED BY <2>1, <2>2
<1>2. CASE ~(os = <<>> \/ Head(os).stage # "waiting")
  <2>1. CASE opens' = <<>>
    BY <2>1
  <2>2. CASE opens' # <<>>
    <3>1. PICK k \in 0..(Len(os) - 1), s \in {"sdp", "connecting"} :
             opens' = <<[os[k + 1] EXCEPT !.stage = s]>> \o SubSeq(os, k + 2, Len(os))
      BY <1>2, <2>2 DEF Begins
    <3> DEFINE a == [os[k + 1] EXCEPT !.stage = s]
    <3>2. opens' = <<a>> \o SubSeq(os, k + 2, Len(os))
      BY <3>1
    <3>3. k + 1 \in 1..Len(os) /\ Len(os) \in Nat /\ k + 2 \in 2..(Len(os) + 1)
      OBVIOUS
    <3>4. a \in OpenType /\ a.stage = s /\ s # "waiting"
      <4>1. os[k + 1] \in OpenType
        BY <3>3
      <4> QED BY <4>1 DEF OpenType
    <3> HIDE DEF a
    <3>5. /\ opens' \in Seq(OpenType) /\ Len(opens') = Len(os) - (k + 2) + 2 /\ opens'[1] = a
          /\ \A n \in DOMAIN opens' : n > 1 => opens'[n].stage = "waiting"
      BY <3>2, <3>3, <3>4, HeadedBy
    <3> QED BY <3>3, <3>4, <3>5
  <2> QED BY <2>1, <2>2
<1> QED BY <1>1, <1>2

\* What a handler leaves of the opens, and whom it answers.
LEMMA GoIs ==
    ASSUME ChannelsInv, NEW os \in Seq(OpenType), \A k \in DOMAIN os : k > 1 => os[k].stage = "waiting",
           NEW S, Go(os, S)
    PROVE /\ opens' \in Seq(OpenType) /\ Len(opens') <= Len(os) /\ OnlyErrs
          /\ \A k \in DOMAIN opens' : opens'[k].stage = "waiting" <=> k > 1
<1>1. PICK failed \in SUBSET Opening : Begins(os, failed) /\ task' = Answered(S \cup failed, "err")
  BY DEF Go
<1> QED BY <1>1, BeginsIs, AnsweredErrs

-----------------------------------------------------------------------------
\* What stays when the jobs, the messages or the data do.
LEMMA JobsKept ==
    ASSUME jobs' = jobs
    PROVE \A i \in Opening : (Closes(i)' <=> Closes(i)) /\ Cardinality(SendsOf(i))' = Cardinality(SendsOf(i))
BY DEF Closes, SendsOf, Job

\* A log that stays says what it said.
LEMMA LogKept ==
    ASSUME ChannelsInv, log' = log
    PROVE /\ \A i, K : Told(i, K)' <=> Told(i, K)
          /\ ToldInOrder'
BY DEF Told, ToldInOrder, ChannelsInv, Msg

\* Data that stays stays counted.
LEMMA DataKept ==
    ASSUME ChannelsInv, log' = log, written' = written, held' = held, ended' = ended, pendingData' = pendingData
    PROVE PendingIsCounted'
BY DEF PendingIsCounted, ChannelsInv, Unread, DataHeld, DataIn

\* Channels that stay are as many.
LEMMA ChannelsKept ==
    ASSUME ChannelsInv, channels' = channels
    PROVE Present' = Present /\ Cardinality(Present') = Cardinality(Present)
BY DEF Present

\* A message that is no data goes to the log.
LEMMA DataAppends ==
    ASSUME ChannelsInv, NEW i \in Opening, NEW kind \in {"opened", "failed", "close", "closed"},
           log' = Append(log, Msg(i, kind)),
           written' = written, held' = held, ended' = ended, pendingData' = pendingData
    PROVE PendingIsCounted'
<1>1. {k \in DataIn(log') : k > written} = Unread
  BY LogAppends
<1>2. Unread' = Unread /\ DataHeld' = DataHeld
  BY <1>1 DEF Unread, DataHeld, DataIn
<1> QED BY <1>2 DEF PendingIsCounted, ChannelsInv

-----------------------------------------------------------------------------
\* The steps of the client connection.

\* Channels::open posts an open that waits: no channel of its id is there yet.
LEMMA RequestOpenStep == ASSUME ChannelsInv, RequestOpen PROVE ChannelsInv'
<1>1. PICK i \in Opening : task[i] = "none" /\ task' = [task EXCEPT ![i] = "wait"] /\ Post(Job("open", i))
  BY DEF RequestOpen
<1>2. UNCHANGED <<opens, channels, air, a2dp, running, owned, closed, held, ended, pendingData, log, written, sends, got, raced>>
  BY DEF RequestOpen, inner
<1>3. /\ jobs' \in Seq(JobType)
      /\ \A j \in Opening : (Closes(j)' <=> Closes(j)) /\ Cardinality(SendsOf(j))' = Cardinality(SendsOf(j))
  BY <1>1, JobsPosted
<1>4. \A j, K : Told(j, K)' <=> Told(j, K)
  BY <1>2, LogKept
<1>5. task' \in [Opening -> Answers] /\ task'[i] = "wait" /\ \A j \in Opening : j # i => task'[j] = task[j]
  BY <1>1 DEF ChannelsInv, ClientTypes, Answers
<1>6. WireTypes' /\ ClientTypes'
  BY <1>2, <1>3, <1>5, ChannelsKept DEF ChannelsInv, WireTypes, ClientTypes
<1>7. OpensInv'
  BY <1>2, ChannelsKept DEF ChannelsInv, OpensInv
<1>8. QueueInv'
  BY <1>2, <1>3 DEF ChannelsInv, QueueInv, QueueOf
<1>9. LifeInv'
  <2> SUFFICES ASSUME NEW j \in Opening PROVE LifeOf(j)'
    BY DEF LifeInv
  <2>1. LifeOf(j)
    BY DEF ChannelsInv, LifeInv
  <2> QED BY <2>1, <1>1, <1>2, <1>3, <1>4, <1>5 DEF LifeOf
<1>10. HeldInv'
  BY <1>2 DEF ChannelsInv, HeldInv, HeldOf, EndIsIn
<1>11. OwnedInv'
  BY <1>2, <1>3, <1>4 DEF ChannelsInv, ClientTypes, OwnedInv, OwnedOf
<1>12. NoOrphan'
  BY <1>1, <1>2, <1>3, <1>5, ChannelsKept DEF ChannelsInv, NoOrphan, Present
<1> QED BY <1>2, <1>6, <1>7, <1>8, <1>9, <1>10, <1>11, <1>12, LogKept, DataKept DEF ChannelsInv

\* rfcomm.send posts one piece, of a channel of the connection.
LEMMA RequestSendStep == ASSUME ChannelsInv, RequestSend PROVE ChannelsInv'
<1>1. PICK i \in owned : Post(Job("send", i))
  BY DEF RequestSend
<1>2. /\ UNCHANGED <<opens, channels, air, a2dp, running, task, owned, closed, held, ended, pendingData, log, written, got, raced>>
      /\ sends' = sends + 1 /\ sends' \in 0..MaxSend
  BY RfcommConstants DEF RequestSend, inner, ChannelsInv, ClientTypes
<1>3. i \in Opening
  BY DEF ChannelsInv, ClientTypes
<1>4. /\ jobs' \in Seq(JobType)
      /\ \A j \in Opening : (Closes(j)' <=> Closes(j))
            /\ Cardinality(SendsOf(j))' = IF j = i THEN Cardinality(SendsOf(j)) + 1 ELSE Cardinality(SendsOf(j))
  BY <1>1, <1>3, JobsPosted
<1>5. \A j, K : Told(j, K)' <=> Told(j, K)
  BY <1>2, LogKept
<1>6. WireTypes' /\ ClientTypes'
  BY <1>2, <1>4, ChannelsKept DEF ChannelsInv, WireTypes, ClientTypes
<1>7. OpensInv'
  BY <1>2, ChannelsKept DEF ChannelsInv, OpensInv
<1>8. QueueInv'
  <2> SUFFICES ASSUME NEW j \in Opening PROVE QueueOf(j)'
    BY DEF QueueInv
  <2>1. QueueOf(j) /\ Cardinality(SendsOf(j)) \in Nat /\ channels[j].queue \in Nat /\ sends \in Nat
    BY FiniteParts DEF ChannelsInv, QueueInv, WireTypes, ChannelType, ClientTypes
  <2>2. Cardinality(SendsOf(j))' \in {Cardinality(SendsOf(j)), Cardinality(SendsOf(j)) + 1}
    BY <1>4
  <2> QED BY <2>1, <2>2, <1>2 DEF QueueOf
<1>9. LifeInv'
  <2> SUFFICES ASSUME NEW j \in Opening PROVE LifeOf(j)'
    BY DEF LifeInv
  <2>1. LifeOf(j)
    BY DEF ChannelsInv, LifeInv
  <2> QED BY <2>1, <1>2, <1>4, <1>5 DEF LifeOf
<1>10. HeldInv'
  BY <1>2 DEF ChannelsInv, HeldInv, HeldOf, EndIsIn
<1>11. OwnedInv'
  BY <1>2, <1>4, <1>5 DEF ChannelsInv, ClientTypes, OwnedInv, OwnedOf
<1>12. NoOrphan'
  BY <1>2, <1>4, ChannelsKept DEF ChannelsInv, NoOrphan, Present
<1> QED BY <1>2, <1>6, <1>7, <1>8, <1>9, <1>10, <1>11, <1>12, LogKept, DataKept DEF ChannelsInv

\* rfcomm.close ends the ownership with the job that closes the channel.
LEMMA RequestCloseStep == ASSUME ChannelsInv, RequestClose PROVE ChannelsInv'
<1>1. PICK i \in owned : /\ owned' = owned \ {i} /\ closed' = closed \cup {i}
                         /\ log' = Append(log, Msg(i, "close")) /\ Post(Job("close", i))
  BY DEF RequestClose
<1>2. ~ended /\ UNCHANGED <<opens, channels, air, a2dp, running, task, held, ended, pendingData, written, sends, got, raced>>
  BY DEF RequestClose
<1>3. i \in Opening
  BY DEF ChannelsInv, ClientTypes
<1>4. /\ jobs' \in Seq(JobType)
      /\ \A j \in Opening : (Closes(j)' <=> (Closes(j) \/ j = i)) /\ Cardinality(SendsOf(j))' = Cardinality(SendsOf(j))
  BY <1>1, <1>3, JobsPosted
<1>5. /\ log' \in Seq(MsgType) /\ written \in 0..Len(log') /\ ToldInOrder'
      /\ \A j, K : Told(j, K)' <=> (Told(j, K) \/ (j = i /\ "close" \in K))
  BY <1>1, <1>3, LogAppends
<1>6. WireTypes' /\ ClientTypes'
  BY <1>1, <1>2, <1>3, <1>4, <1>5, ChannelsKept DEF ChannelsInv, WireTypes, ClientTypes
<1>7. OpensInv'
  BY <1>2, ChannelsKept DEF ChannelsInv, OpensInv
<1>8. QueueInv'
  BY <1>2, <1>4 DEF ChannelsInv, QueueInv, QueueOf
<1>9. LifeInv'
  <2> SUFFICES ASSUME NEW j \in Opening PROVE LifeOf(j)'
    BY DEF LifeInv
  <2>1. LifeOf(j) /\ task[i] = "done"
    BY <1>3 DEF ChannelsInv, LifeInv, LifeOf
  <2> QED BY <2>1, <1>1, <1>2, <1>4, <1>5 DEF LifeOf
<1>10. HeldInv'
  BY <1>2 DEF ChannelsInv, HeldInv, HeldOf, EndIsIn
<1>11. OwnedInv'
  BY <1>1, <1>2, <1>4, <1>5 DEF ChannelsInv, ClientTypes, OwnedInv, OwnedOf
<1>12. NoOrphan'
  BY <1>1, <1>2, <1>3, <1>4, ChannelsKept DEF ChannelsInv, NoOrphan, Present
<1>13. PendingIsCounted'
  BY <1>1, <1>2, <1>3, DataAppends
<1> QED BY <1>2, <1>5, <1>6, <1>7, <1>8, <1>9, <1>10, <1>11, <1>12, <1>13 DEF ChannelsInv

\* An open that failed is told, and its channel is nobody's.
LEMMA NotOpenedStep == ASSUME ChannelsInv, NotOpened PROVE ChannelsInv'
<1>1. PICK i \in Opening : task[i] \in {"err", "timed", "timedOk"} /\ task' = [task EXCEPT ![i] = "done"]
                           /\ log' = Append(log, Msg(i, "failed"))
  BY DEF NotOpened
<1>2. UNCHANGED <<jobs, opens, channels, air, a2dp, running, owned, closed, held, ended, pendingData, written, sends, got, raced>>
  BY DEF NotOpened, inner
<1>4. \A j \in Opening : (Closes(j)' <=> Closes(j)) /\ Cardinality(SendsOf(j))' = Cardinality(SendsOf(j))
  BY <1>2, JobsKept
<1>5. /\ log' \in Seq(MsgType) /\ written \in 0..Len(log') /\ ToldInOrder'
      /\ \A j, K : "failed" \notin K => (Told(j, K)' <=> Told(j, K))
  BY <1>1, LogAppends
<1>51. task' \in [Opening -> Answers] /\ task'[i] = "done" /\ \A j \in Opening : j # i => task'[j] = task[j]
  BY <1>1 DEF ChannelsInv, ClientTypes, Answers
<1>6. WireTypes' /\ ClientTypes'
  BY <1>2, <1>5, <1>51, ChannelsKept DEF ChannelsInv, WireTypes, ClientTypes
<1>7. OpensInv'
  BY <1>2, ChannelsKept DEF ChannelsInv, OpensInv
<1>8. QueueInv'
  BY <1>2, <1>4 DEF ChannelsInv, QueueInv, QueueOf
<1>9. LifeInv'
  <2> SUFFICES ASSUME NEW j \in Opening PROVE LifeOf(j)'
    BY DEF LifeInv
  <2>1. LifeOf(j)
    BY DEF ChannelsInv, LifeInv
  <2> QED BY <2>1, <1>2, <1>4, <1>5, <1>51 DEF LifeOf
<1>10. HeldInv'
  BY <1>2 DEF ChannelsInv, HeldInv, HeldOf, EndIsIn
<1>11. OwnedInv'
  BY <1>2, <1>4, <1>5 DEF ChannelsInv, ClientTypes, OwnedInv, OwnedOf
<1>12. NoOrphan'
  BY <1>1, <1>2, <1>4, <1>51, ChannelsKept DEF ChannelsInv, NoOrphan, Present
<1>13. PendingIsCounted'
  BY <1>1, <1>2, DataAppends
<1> QED BY <1>2, <1>5, <1>6, <1>7, <1>8, <1>9, <1>10, <1>11, <1>12, <1>13 DEF ChannelsInv

\* A caller that gave up has no channel yet.
LEMMA TimesOutStep == ASSUME ChannelsInv, TimesOut PROVE ChannelsInv'
<1>1. PICK i \in Opening : task[i] = "wait" /\ task' = [task EXCEPT ![i] = "timed"]
  BY DEF TimesOut
<1>2. UNCHANGED <<jobs, opens, channels, air, a2dp, running, owned, closed, held, ended, pendingData, log, written, sends, got, raced>>
  BY DEF TimesOut, inner
<1>4. \A j \in Opening : (Closes(j)' <=> Closes(j)) /\ Cardinality(SendsOf(j))' = Cardinality(SendsOf(j))
  BY <1>2, JobsKept
<1>5. \A j, K : Told(j, K)' <=> Told(j, K)
  BY <1>2, LogKept
<1>51. task' \in [Opening -> Answers] /\ task'[i] = "timed" /\ \A j \in Opening : j # i => task'[j] = task[j]
  BY <1>1 DEF ChannelsInv, ClientTypes, Answers
<1>6. WireTypes' /\ ClientTypes'
  BY <1>2, <1>51, ChannelsKept DEF ChannelsInv, WireTypes, ClientTypes
<1>7. OpensInv'
  BY <1>2, ChannelsKept DEF ChannelsInv, OpensInv
<1>8. QueueInv'
  BY <1>2, <1>4 DEF ChannelsInv, QueueInv, QueueOf
<1>9. LifeInv'
  <2> SUFFICES ASSUME NEW j \in Opening PROVE LifeOf(j)'
    BY DEF LifeInv
  <2>1. LifeOf(j)
    BY DEF ChannelsInv, LifeInv
  <2> QED BY <2>1, <1>1, <1>2, <1>4, <1>5, <1>51 DEF LifeOf
<1>10. HeldInv'
  BY <1>2 DEF ChannelsInv, HeldInv, HeldOf, EndIsIn
<1>11. OwnedInv'
  BY <1>2, <1>4, <1>5 DEF ChannelsInv, ClientTypes, OwnedInv, OwnedOf
<1>12. NoOrphan'
  BY <1>1, <1>2, <1>4, <1>51, ChannelsKept DEF ChannelsInv, NoOrphan, Present
<1> QED BY <1>2, <1>6, <1>7, <1>8, <1>9, <1>10, <1>11, <1>12, LogKept, DataKept DEF ChannelsInv

\* The data that waits for the client is finitely many pieces.
LEMMA DataFinite ==
    ASSUME ChannelsInv
    PROVE /\ IsFiniteSet(Unread) /\ Cardinality(Unread) \in Nat
          /\ IsFiniteSet(DataHeld) /\ Cardinality(DataHeld) \in Nat
<1>1. IsFiniteSet(Unread)
  <2>1. Unread \subseteq 1..Len(log) /\ Len(log) \in Nat
    BY DEF Unread, DataIn, ChannelsInv, ClientTypes
  <2>2. IsFiniteSet(1..Len(log))
    BY <2>1, FS_Interval
  <2> QED BY <2>1, <2>2, FS_Subset
<1> DEFINE P(i) == {i} \X DataIn(held[i])
<1> DEFINE S == {P(i) : i \in Opening}
<1>2. IsFiniteSet(S)
  <2> DEFINE f == [i \in Opening |-> P(i)]
  <2>1. f \in [Opening -> S] /\ \A x \in S : \E i \in Opening : f[i] = x
    OBVIOUS
  <2>2. f \in Surjection(Opening, S)
    <3> HIDE DEF f, S, P
    <3> QED BY <2>1, Fun_IsSurj
  <2> HIDE DEF f, S, P
  <2> QED BY <2>2, RfcommConstants, FS_Surjection
<1>3. ASSUME NEW i \in Opening PROVE IsFiniteSet(P(i))
  <2>1. DataIn(held[i]) \subseteq 1..Len(held[i]) /\ Len(held[i]) \in Nat
    BY DEF DataIn, ChannelsInv, ClientTypes
  <2>2. IsFiniteSet(DataIn(held[i]))
    <3>1. IsFiniteSet(1..Len(held[i]))
      BY <2>1, FS_Interval
    <3> QED BY <2>1, <3>1, FS_Subset
  <2>3. IsFiniteSet({i})
    BY FS_Singleton
  <2> QED BY <2>2, <2>3, FS_Product
<1>4. \A T \in S : IsFiniteSet(T)
  BY <1>3
<1>5. DataHeld = UNION S
  BY DEF DataHeld
<1>6. IsFiniteSet(DataHeld)
  <2> HIDE DEF S, P
  <2> QED BY <1>2, <1>4, <1>5, FS_UNION
<1> QED BY <1>1, <1>6, FS_CardinalityType

\* What is in the data held.
LEMMA InHeld ==
    ASSUME NEW i \in Opening, NEW k
    PROVE /\ <<i, k>> \in DataHeld <=> k \in DataIn(held[i])
          /\ \A p \in DataHeld : p = <<p[1], p[2]>> /\ p[1] \in Opening /\ p[2] \in DataIn(held[p[1]])
BY DEF DataHeld

\* An answer handed over takes the data held with it, piece by piece.
LEMMA DataHandedOver ==
    ASSUME ChannelsInv, NEW i \in Opening, HandOver(i), ended' = ended, pendingData' = pendingData, written' = written
    PROVE PendingIsCounted'
<1> DEFINE n == Len(log) + 1
<1> DEFINE M == {p \in DataHeld : p[1] = i}
<1> DEFINE N == {n + k : k \in DataIn(held[i])}
<1>1. /\ log \in Seq(MsgType) /\ written \in 0..Len(log) /\ held \in [Opening -> Seq(MsgType)]
      /\ Len(log) \in Nat /\ DOMAIN log = 1..Len(log)
  BY DEF ChannelsInv, ClientTypes
<1> DEFINE h == held[i]
<1>2. h \in Seq(MsgType) /\ DOMAIN h = 1..Len(h) /\ Len(h) \in Nat /\ Msg(i, "opened") \in MsgType
  <2>1. h \in Seq(MsgType)
    BY <1>1
  <2>2. Msg(i, "opened") \in MsgType
    BY DEF Msg, MsgType
  <2> HIDE DEF h
  <2> QED BY <2>1, <2>2
<1>3. /\ log' = log \o (<<Msg(i, "opened")>> \o h)
      /\ held' = [held EXCEPT ![i] = <<>>]
  BY DEF HandOver
<1> DEFINE t == <<Msg(i, "opened")>> \o h
<1>4. /\ t \in Seq(MsgType) /\ Len(t) = 1 + Len(h) /\ t[1] = Msg(i, "opened")
      /\ \A k \in 1..Len(h) : t[1 + k] = h[k]
      /\ \A k \in 2..Len(t) : t[k] = h[k - 1] /\ k - 1 \in 1..Len(h)
  BY <1>2
<1>5. /\ log' \in Seq(MsgType) /\ Len(log') = Len(log) + Len(t)
      /\ \A k \in 1..Len(log) : log'[k] = log[k]
      /\ \A k \in 1..Len(t) : log'[Len(log) + k] = t[k]
  <2> HIDE DEF t
  <2> QED BY <1>3, <1>4, LogExtends DEF t
<1>6. Unread' = Unread \cup N
  <2>1. ASSUME NEW x \in Unread' PROVE x \in Unread \cup N
    <3>1. x \in 1..(Len(log) + 1 + Len(h)) /\ log'[x].kind = "data" /\ x > written
      BY <1>4, <1>5, <1>1 DEF Unread, DataIn
    <3>2. CASE x \in 1..Len(log)
      BY <3>1, <3>2, <1>5, <1>1 DEF Unread, DataIn
    <3>3. CASE x = n
      <4>1. log'[x] = t[1] /\ t[1].kind = "opened"
        <5>1. 1 \in 1..Len(t) /\ x = Len(log) + 1
          BY <1>4, <1>2, <3>3
        <5> QED BY <5>1, <1>5, <1>4 DEF Msg
      <4> QED BY <4>1, <3>1
    <3>4. CASE x \notin 1..Len(log) /\ x # n
      <4> DEFINE k == x - n
      <4>1. k \in 1..Len(h) /\ x = Len(log) + (1 + k) /\ 1 + k \in 1..Len(t) /\ x = n + k
        <5>1. x \in Int /\ Len(log) \in Int /\ Len(h) \in Int /\ x > Len(log) + 1 /\ x <= Len(log) + 1 + Len(h)
          BY <3>4, <3>1, <1>1, <1>2
        <5>2. Len(t) = 1 + Len(h) /\ k = x - (Len(log) + 1) /\ n = Len(log) + 1
          BY <1>4
        <5> HIDE DEF h, t, k, n
        <5>3. k \in Int /\ 1 <= k /\ k <= Len(h)
          BY <5>1, <5>2
        <5>4. x = Len(log) + (1 + k) /\ x = n + k
          BY <5>1, <5>2
        <5>5. k \in 1..Len(h) /\ 1 + k \in 1..(1 + Len(h))
          BY <5>1, <5>3
        <5> QED BY <5>2, <5>4, <5>5
      <4>2. log'[x] = h[k]
        BY <4>1, <1>4, <1>5
      <4> HIDE DEF k, n
      <4>3. k \in DataIn(h)
        BY <4>1, <4>2, <3>1, <1>2 DEF DataIn
      <4> QED BY <4>1, <4>3
    <3> QED BY <3>2, <3>3, <3>4
  <2>2. ASSUME NEW x \in Unread PROVE x \in Unread'
    <3>1. x \in 1..Len(log) /\ x \in 1..Len(log') /\ log'[x] = log[x]
      BY <1>1, <1>4, <1>5, <1>2 DEF Unread, DataIn
    <3> QED BY <3>1, <1>1, <1>5 DEF Unread, DataIn
  <2>3. ASSUME NEW k \in DataIn(h) PROVE n + k \in Unread'
    <3>1. k \in 1..Len(h) /\ h[k].kind = "data"
      BY <1>2 DEF DataIn
    <3>2. 1 + k \in 1..Len(t) /\ Len(log) + (1 + k) = n + k /\ n + k \in 1..Len(log') /\ n + k > written
      <4>1. /\ k \in Int /\ 1 <= k /\ k <= Len(h) /\ Len(h) \in Int /\ Len(log) \in Int
            /\ written \in Int /\ written <= Len(log)
        BY <3>1, <1>1, <1>2
      <4>2. Len(t) = 1 + Len(h) /\ Len(log') = Len(log) + Len(t)
        BY <1>4, <1>5
      <4> HIDE DEF h, t
      <4> QED BY <4>1, <4>2
    <3>3. log'[n + k] = h[k]
      BY <3>1, <3>2, <1>4, <1>5
    <3> QED BY <3>1, <3>2, <3>3, <1>5 DEF Unread, DataIn
  <2> HIDE DEF n, t
  <2> QED BY <2>1, <2>2, <2>3
<1>7. Unread \cap N = {}
  <2> SUFFICES ASSUME NEW k \in DataIn(h), n + k \in Unread PROVE FALSE
    BY DEF n
  <2>1. k \in 1..Len(h) /\ n + k \in 1..Len(log)
    BY <1>1, <1>2 DEF DataIn, Unread
  <2> QED BY <2>1, <1>1, <1>2
<1>8. DataHeld' = DataHeld \ M
  <2>1. \A j \in Opening : DataIn(held'[j]) = IF j = i THEN {} ELSE DataIn(held[j])
    BY <1>1, <1>3 DEF DataIn
  <2> QED BY <2>1 DEF DataHeld
<1>9. M \subseteq DataHeld
  OBVIOUS
<1>10. IsFiniteSet(M) /\ Cardinality(M) \in Nat /\ Cardinality(DataHeld') = Cardinality(DataHeld) - Cardinality(M)
  <2>1. DataHeld \cap M = M
    BY <1>9
  <2> HIDE DEF M
  <2>2. IsFiniteSet(M)
    BY <1>9, DataFinite, FS_Subset
  <2>3. Cardinality(M) \in Nat
    BY <2>2, FS_CardinalityType
  <2>4. Cardinality(DataHeld \ M) = Cardinality(DataHeld) - Cardinality(DataHeld \cap M)
    BY DataFinite, FS_Difference
  <2> QED BY <1>8, <2>1, <2>2, <2>3, <2>4
<1>11. IsFiniteSet(N) /\ Cardinality(N) = Cardinality(M)
  <2> DEFINE f == [p \in M |-> n + p[2]]
  <2>1. \A p \in M : p = <<i, p[2]>> /\ p[2] \in DataIn(h)
    BY InHeld
  <2>2. DataIn(h) \subseteq Nat
    BY <1>2 DEF DataIn
  <2>3. f \in [M -> N]
    BY <2>1
  <2>4. \A a, b \in M : f[a] = f[b] => a = b
    <3> SUFFICES ASSUME NEW a \in M, NEW b \in M, n + a[2] = n + b[2] PROVE a = b
      OBVIOUS
    <3>1. a[2] \in Nat /\ b[2] \in Nat /\ n \in Nat
      BY <2>1, <2>2, <1>1
    <3>2. a[2] = b[2]
      BY <3>1
    <3> HIDE DEF M
    <3> QED BY <2>1, <3>2
  <2>5. \A x \in N : \E p \in M : f[p] = x
    <3> SUFFICES ASSUME NEW k \in DataIn(h) PROVE \E p \in M : f[p] = n + k
      OBVIOUS
    <3>1. <<i, k>> \in M
      BY InHeld
    <3> QED BY <3>1
  <2>6. f \in Bijection(M, N)
    <3> HIDE DEF f, M, N
    <3> QED BY <2>3, <2>4, <2>5, Fun_IsBij
  <2> HIDE DEF f, M, N
  <2> QED BY <2>6, <1>10, FS_Bijection DEF ExistsBijection
<1>12. Cardinality(Unread') = Cardinality(Unread) + Cardinality(N)
  <2> HIDE DEF N, M
  <2>1. Cardinality(Unread \cap N) = 0
    BY <1>7, FS_EmptySet
  <2>2. Cardinality(Unread \cup N) = Cardinality(Unread) + Cardinality(N) - Cardinality(Unread \cap N)
    BY <1>11, DataFinite, FS_Union
  <2> QED BY <1>6, <1>10, <1>11, <2>1, <2>2, DataFinite
<1> HIDE DEF N, M, n, t, h
<1>13. SUFFICES ASSUME ~ended' PROVE pendingData' = Cardinality(Unread') + Cardinality(DataHeld')
  BY DEF PendingIsCounted
<1>14. pendingData = Cardinality(Unread) + Cardinality(DataHeld)
  BY <1>13 DEF ChannelsInv, PendingIsCounted
<1> QED BY <1>10, <1>11, <1>12, <1>14, DataFinite

\* What the client hears with an answer handed over.
LEMMA HandedOver ==
    ASSUME ChannelsInv, NEW i \in Opening, task[i] = "ok", ~ended, HandOver(i)
    PROVE /\ log' \in Seq(MsgType) /\ written \in 0..Len(log') /\ ToldInOrder'
          /\ \A j, K : j # i => (Told(j, K)' <=> Told(j, K))
          /\ \A K : Told(i, K)' <=> (Told(i, K) \/ "opened" \in K \/ \E k \in DOMAIN held[i] : held[i][k].kind \in K)
<1> DEFINE h == held[i]
<1> DEFINE t == <<Msg(i, "opened")>> \o h
<1>1. /\ h \in Seq(MsgType) /\ Msg(i, "opened") \in MsgType
      /\ Msg(i, "opened").id = i /\ Msg(i, "opened").kind = "opened"
  BY DEF ChannelsInv, ClientTypes, Msg, MsgType
<1>2. \A k \in DOMAIN h : h[k].id = i /\ (h[k].kind = "data" \/ (h[k].kind = "closed" /\ k = Len(h)))
  BY DEF ChannelsInv, HeldInv, HeldOf
<1> HIDE DEF h
<1>3. /\ t \in Seq(MsgType) /\ Len(t) = 1 + Len(h) /\ t[1] = Msg(i, "opened") /\ Len(h) \in Nat
      /\ DOMAIN t = 1..(1 + Len(h)) /\ DOMAIN h = 1..Len(h)
      /\ \A k \in 1..Len(h) : t[1 + k] = h[k]
      /\ \A k \in 2..(1 + Len(h)) : t[k] = h[k - 1] /\ k - 1 \in 1..Len(h)
  BY <1>1
<1>4. log' = log \o t
  BY DEF HandOver, h
<1> HIDE DEF t
<1>5. ~Told(i, {"opened", "data", "closed", "close"})
  BY DEF ChannelsInv, LifeInv, LifeOf
<1>6. ~Told(i, {"closed", "close"})
  BY <1>5 DEF Told
<1>7. ASSUME NEW k \in DOMAIN t PROVE t[k].id = i
  <2>1. k = 1 \/ k \in 2..(1 + Len(h))
    BY <1>3
  <2> QED BY <2>1, <1>1, <1>2, <1>3
<1>8. InTurnAfter(t)
  <2> SUFFICES ASSUME NEW k \in DOMAIN t, t[k].kind \in {"data", "closed"}
               PROVE /\ \E j \in 1..(k - 1) : t[j] = Msg(i, "opened")
                     /\ \A j \in 1..(k - 1) : t[j] \notin {Msg(i, "closed"), Msg(i, "close")}
    BY <1>6, <1>7 DEF InTurnAfter
  <2>1. k # 1 /\ k \in 2..(1 + Len(h)) /\ 1 \in 1..(k - 1)
    BY <1>1, <1>3
  <2>2. ASSUME NEW j \in 1..(k - 1) PROVE t[j].kind \notin {"closed", "close"}
    <3>1. CASE j = 1
      BY <3>1, <1>1, <1>3
    <3>2. CASE j # 1
      <4>1. j \in 2..(1 + Len(h)) /\ j - 1 # Len(h)
        BY <2>1, <3>2, <1>3
      <4> QED BY <4>1, <1>2, <1>3
    <3> QED BY <3>1, <3>2
  <2> QED BY <2>1, <2>2, <1>3 DEF Msg
<1>9. /\ log' \in Seq(MsgType) /\ written \in 0..Len(log') /\ ToldInOrder'
      /\ \A j, K : Told(j, K)' <=> (Told(j, K) \/ \E k \in DOMAIN t : t[k].id = j /\ t[k].kind \in K)
  BY <1>3, <1>4, <1>8, LogExtends
<1>10. \A j, K : j # i => (Told(j, K)' <=> Told(j, K))
  BY <1>7, <1>9
<1>11. ASSUME NEW K PROVE (\E k \in DOMAIN t : t[k].kind \in K) <=> ("opened" \in K \/ \E k \in DOMAIN h : h[k].kind \in K)
  <2>1. ASSUME NEW k \in DOMAIN t, t[k].kind \in K PROVE "opened" \in K \/ \E n \in DOMAIN h : h[n].kind \in K
    <3>1. k = 1 \/ k \in 2..(1 + Len(h))
      BY <1>3
    <3> QED BY <3>1, <2>1, <1>1, <1>3
  <2>2. "opened" \in K => \E k \in DOMAIN t : t[k].kind \in K
    <3>1. 1 \in DOMAIN t
      BY <1>3
    <3> QED BY <3>1, <1>1, <1>3
  <2>3. ASSUME NEW k \in DOMAIN h, h[k].kind \in K PROVE \E n \in DOMAIN t : t[n].kind \in K
    <3>1. 1 + k \in DOMAIN t /\ t[1 + k] = h[k]
      BY <1>3
    <3> QED BY <3>1, <2>3
  <2> QED BY <2>1, <2>2, <2>3
<1> QED BY <1>7, <1>9, <1>10, <1>11 DEF h

\* The task of an open that was answered hands the channel over, or closes it
\* when the connection ended meanwhile.
LEMMA OpenedStep == ASSUME ChannelsInv, Opened PROVE ChannelsInv'
<1>1. PICK i \in Opening :
         /\ task[i] = "ok" /\ task' = [task EXCEPT ![i] = "done"]
         /\ IF ended THEN Post(Job("close", i)) /\ UNCHANGED <<owned, held, log>> ELSE HandOver(i) /\ UNCHANGED jobs
  BY DEF Opened
<1>2. UNCHANGED <<opens, channels, air, a2dp, running, closed, ended, pendingData, written, sends, got, raced>>
  BY DEF Opened
<1>3. task' \in [Opening -> Answers] /\ task'[i] = "done" /\ \A j \in Opening : j # i => task'[j] = task[j]
  BY <1>1 DEF ChannelsInv, ClientTypes, Answers
<1>4. LifeOf(i) /\ i \notin owned /\ ~Closes(i) /\ ~Told(i, {"opened", "data", "closed", "close"})
  BY <1>1 DEF ChannelsInv, LifeInv, LifeOf
<1>5. OpensInv'
  BY <1>2, ChannelsKept DEF ChannelsInv, OpensInv
<1>6. CASE ended
  <2>1. Post(Job("close", i)) /\ UNCHANGED <<owned, held, log>>
    BY <1>1, <1>6
  <2>2. /\ jobs' \in Seq(JobType)
        /\ \A j \in Opening : (Closes(j)' <=> (Closes(j) \/ j = i)) /\ Cardinality(SendsOf(j))' = Cardinality(SendsOf(j))
    BY <2>1, JobsPosted
  <2>3. \A j, K : Told(j, K)' <=> Told(j, K)
    BY <2>1, LogKept
  <2>4. WireTypes' /\ ClientTypes'
    BY <1>2, <1>3, <2>1, <2>2, ChannelsKept DEF ChannelsInv, WireTypes, ClientTypes
  <2>5. QueueInv'
    BY <1>2, <2>2 DEF ChannelsInv, QueueInv, QueueOf
  <2>6. LifeInv'
    <3> SUFFICES ASSUME NEW j \in Opening PROVE LifeOf(j)'
      BY DEF LifeInv
    <3>1. LifeOf(j)
      BY DEF ChannelsInv, LifeInv
    <3> QED BY <3>1, <1>2, <1>3, <2>1, <2>2, <2>3 DEF LifeOf
  <2>7. HeldInv'
    BY <1>2, <2>1 DEF ChannelsInv, HeldInv, HeldOf, EndIsIn
  <2>8. OwnedInv'
    BY <1>2, <1>4, <2>1, <2>2, <2>3 DEF ChannelsInv, ClientTypes, OwnedInv, OwnedOf
  <2>9. NoOrphan'
    BY <1>2, <1>3, <2>1, <2>2, ChannelsKept DEF ChannelsInv, NoOrphan, Present
  <2> QED BY <1>2, <1>5, <2>1, <2>4, <2>5, <2>6, <2>7, <2>8, <2>9, LogKept, DataKept DEF ChannelsInv
<1>7. CASE ~ended
  <2>1. HandOver(i) /\ jobs' = jobs
    BY <1>1, <1>7
  <2>2. \A j \in Opening : (Closes(j)' <=> Closes(j)) /\ Cardinality(SendsOf(j))' = Cardinality(SendsOf(j))
    BY <2>1, JobsKept
  <2>3. /\ log' \in Seq(MsgType) /\ written \in 0..Len(log') /\ ToldInOrder'
        /\ \A j, K : j # i => (Told(j, K)' <=> Told(j, K))
        /\ \A K : Told(i, K)' <=> (Told(i, K) \/ "opened" \in K \/ \E k \in DOMAIN held[i] : held[i][k].kind \in K)
    BY <1>1, <1>7, <2>1, HandedOver
  <2>4. /\ owned' = IF EndIsIn(held[i]) THEN owned \ {i} ELSE owned \cup {i}
        /\ held' = [held EXCEPT ![i] = <<>>]
    BY <2>1 DEF HandOver
  <2>5. held' \in [Opening -> Seq(MsgType)] /\ held'[i] = <<>> /\ \A j \in Opening : j # i => held'[j] = held[j]
    BY <2>4 DEF ChannelsInv, ClientTypes
  <2>6. WireTypes' /\ ClientTypes'
    <3>1. owned' \subseteq Opening
      BY <2>4 DEF ChannelsInv, ClientTypes
    <3> QED BY <1>2, <1>3, <2>1, <2>3, <2>5, <3>1, ChannelsKept DEF ChannelsInv, WireTypes, ClientTypes
  <2>7. QueueInv'
    BY <1>2, <2>2 DEF ChannelsInv, QueueInv, QueueOf
  <2>8. LifeInv'
    <3> SUFFICES ASSUME NEW j \in Opening PROVE LifeOf(j)'
      BY DEF LifeInv
    <3>1. LifeOf(j)
      BY DEF ChannelsInv, LifeInv
    <3>2. CASE j = i
      BY <3>2, <1>3 DEF LifeOf
    <3>3. CASE j # i
      <4>1. j \in owned' <=> j \in owned
        BY <2>4, <3>3
      <4> QED BY <3>1, <3>3, <4>1, <1>2, <1>3, <2>2, <2>3, <2>5 DEF LifeOf
    <3> QED BY <3>2, <3>3
  <2>9. HeldInv'
    <3> SUFFICES ASSUME NEW j \in Opening PROVE HeldOf(j)'
      BY <1>2, <1>7 DEF HeldInv
    <3>1. HeldOf(j)
      BY DEF ChannelsInv, HeldInv
    <3>2. CASE j = i
      BY <3>2, <2>5 DEF HeldOf, EndIsIn
    <3>3. CASE j # i
      BY <3>1, <3>3, <2>5, <1>2 DEF HeldOf
    <3> QED BY <3>2, <3>3
  <2>10. OwnedInv'
    <3> SUFFICES ASSUME NEW j \in owned' PROVE OwnedOf(j)'
      BY DEF OwnedInv
    <3>1. CASE j = i
      <4>1. ~EndIsIn(held[i])
        BY <3>1, <1>4, <2>4
      <4>2. channels[i].st = "open" /\ i \notin closed
        BY <4>1, <1>1, <1>4, <1>7 DEF LifeOf
      <4>3. ~Told(i, {"closed", "close"})
        BY <1>4 DEF Told
      <4>4. \A k \in DOMAIN held[i] : held[i][k].kind = "data"
        BY <4>1 DEF EndIsIn, ChannelsInv, HeldInv, HeldOf
      <4>5. Told(i, {"opened"})' /\ ~Told(i, {"closed", "close"})'
        BY <4>3, <4>4, <2>3
      <4> QED BY <3>1, <4>2, <4>5, <1>2, <1>4, <2>2 DEF OwnedOf
    <3>2. CASE j # i
      <4>1. j \in owned /\ j \in Opening /\ OwnedOf(j)
        BY <3>2, <2>4 DEF ChannelsInv, OwnedInv, ClientTypes
      <4> QED BY <3>2, <4>1, <1>2, <2>2, <2>3 DEF OwnedOf
    <3> QED BY <3>1, <3>2
  <2>11. NoOrphan'
    <3>1. EndIsIn(held[i]) => channels[i].st # "open"
      BY DEF ChannelsInv, HeldInv, HeldOf
    <3> QED BY <1>2, <1>3, <2>2, <2>4, <3>1, ChannelsKept DEF ChannelsInv, NoOrphan, Present
  <2>12. PendingIsCounted'
    BY <1>2, <2>1, DataHandedOver
  <2> QED BY <1>2, <1>5, <2>3, <2>6, <2>7, <2>8, <2>9, <2>10, <2>11, <2>12 DEF ChannelsInv
<1> QED BY <1>6, <1>7

\* The writer takes a message: data is counted out.
LEMMA WritesStep == ASSUME ChannelsInv, Writes PROVE ChannelsInv'
<1>1. /\ written < Len(log) /\ ~ended /\ written' = written + 1
      /\ pendingData' = IF log[written + 1].kind = "data" THEN pendingData - 1 ELSE pendingData
      /\ UNCHANGED <<jobs, opens, channels, air, a2dp, running, task, owned, closed, held, ended, log, sends, got, raced>>
  BY DEF Writes
<1>2. log \in Seq(MsgType) /\ written \in 0..Len(log) /\ pendingData \in 0..MaxPending /\ Len(log) \in Nat /\ DOMAIN log = 1..Len(log)
  BY DEF ChannelsInv, ClientTypes
<1>3. Unread' = Unread \ {written + 1} /\ (written + 1 \in Unread <=> log[written + 1].kind = "data")
  BY <1>1, <1>2 DEF Unread, DataIn
<1>4. DataHeld' = DataHeld
  BY <1>1 DEF DataHeld, DataIn
<1>5. Cardinality(Unread') = IF written + 1 \in Unread THEN Cardinality(Unread) - 1 ELSE Cardinality(Unread)
  BY <1>3, DataFinite, FS_RemoveElement
<1>6. pendingData = Cardinality(Unread) + Cardinality(DataHeld)
  BY <1>1 DEF ChannelsInv, PendingIsCounted
<1>7. written + 1 \in Unread => Cardinality(Unread) > 0
  BY DataFinite, FS_EmptySet
<1>8. pendingData' = Cardinality(Unread') + Cardinality(DataHeld')
  BY <1>1, <1>3, <1>4, <1>5, <1>6, DataFinite
<1>9. pendingData' \in 0..MaxPending
  BY <1>1, <1>2, <1>3, <1>6, <1>7, DataFinite, RfcommConstants
<1>10. WireTypes' /\ ClientTypes'
  BY <1>1, <1>2, <1>9, ChannelsKept DEF ChannelsInv, WireTypes, ClientTypes
<1>11. OpensInv' /\ QueueInv'
  BY <1>1, ChannelsKept, JobsKept DEF ChannelsInv, OpensInv, QueueInv, QueueOf
<1>12. \A j, K : Told(j, K)' <=> Told(j, K)
  BY <1>1, LogKept
<1>13. LifeInv' /\ HeldInv'
  BY <1>1, <1>12, JobsKept DEF ChannelsInv, LifeInv, LifeOf, HeldInv, HeldOf
<1>14. OwnedInv'
  BY <1>1, <1>12, JobsKept DEF ChannelsInv, ClientTypes, OwnedInv, OwnedOf
<1>15. NoOrphan'
  BY <1>1, JobsKept, ChannelsKept DEF ChannelsInv, NoOrphan, Present
<1> QED BY <1>1, <1>8, <1>10, <1>11, <1>13, <1>14, <1>15, LogKept DEF ChannelsInv, PendingIsCounted

\* The jobs that close the channels of a connection that ended.
LEMMA ClosesPosted ==
    ASSUME ChannelsInv, NEW ids \in Drained(owned),
           jobs' = jobs \o [k \in 1..Cardinality(owned) |-> Job("close", ids[k])]
    PROVE /\ jobs' \in Seq(JobType)
          /\ \A i \in Opening :
                /\ Closes(i)' <=> (Closes(i) \/ i \in owned)
                /\ Cardinality(SendsOf(i))' = Cardinality(SendsOf(i))
<1> DEFINE n == Cardinality(owned)
<1> DEFINE t == [k \in 1..n |-> Job("close", ids[k])]
<1>1. n \in Nat /\ owned \subseteq Opening /\ jobs \in Seq(JobType)
  BY FiniteParts, FS_CardinalityType DEF ChannelsInv, ClientTypes, WireTypes
<1>2. ids \in [1..n -> owned] /\ \A x \in owned : \E k \in 1..n : ids[k] = x
  BY DEF Drained
<1> HIDE DEF n
<1>3. t \in Seq(JobType) /\ Len(t) = n /\ \A k \in 1..n : t[k] = Job("close", ids[k])
  <2>1. \A k \in 1..n : Job("close", ids[k]) \in JobType
    BY <1>1, <1>2 DEF Job, JobType
  <2> QED BY <2>1, <1>1
<1>4. jobs' = jobs \o t
  BY DEF n
<1> HIDE DEF t
<1>5. /\ jobs' \in Seq(JobType) /\ Len(jobs') = Len(jobs) + n /\ Len(jobs) \in Nat
      /\ DOMAIN jobs = 1..Len(jobs) /\ DOMAIN jobs' = 1..(Len(jobs) + n)
  <2>1. jobs \o t \in Seq(JobType) /\ Len(jobs \o t) = Len(jobs) + Len(t)
    BY <1>1, <1>3, ConcatProperties
  <2>2. DOMAIN jobs' = 1..Len(jobs') /\ DOMAIN jobs = 1..Len(jobs) /\ Len(jobs) \in Nat
    <3>1. jobs' \in Seq(JobType)
      BY <2>1, <1>4
    <3>2. DOMAIN jobs' = 1..Len(jobs')
      BY <3>1, LenProperties
    <3>3. DOMAIN jobs = 1..Len(jobs) /\ Len(jobs) \in Nat
      BY <1>1, LenProperties
    <3> QED BY <3>2, <3>3
  <2> QED BY <2>1, <2>2, <1>3, <1>4
<1>6. \A k \in 1..Len(jobs) : k \in 1..(Len(jobs) + n) /\ jobs'[k] = jobs[k]
  BY <1>1, <1>3, <1>4, <1>5
<1>7. \A k \in 1..n : Len(jobs) + k \in 1..(Len(jobs) + n) /\ jobs'[Len(jobs) + k] = t[k]
  <2> SUFFICES ASSUME NEW k \in 1..n PROVE Len(jobs) + k \in 1..(Len(jobs) + n) /\ jobs'[Len(jobs) + k] = t[k]
    OBVIOUS
  <2>1. Len(jobs) + k \in 1..(Len(jobs) + Len(t)) /\ ~(Len(jobs) + k <= Len(jobs)) /\ (Len(jobs) + k) - Len(jobs) = k
    BY <1>1, <1>3, <1>5
  <2>2. (jobs \o t)[Len(jobs) + k] = t[k]
    BY <2>1, <1>1, <1>3, ConcatProperties
  <2> QED BY <2>1, <2>2, <1>3, <1>4
<1>8. ASSUME NEW k \in 1..(Len(jobs) + n), k \notin 1..Len(jobs)
      PROVE \E m \in 1..n : jobs'[k] = Job("close", ids[m])
  <2>1. k - Len(jobs) \in 1..n /\ Len(jobs) + (k - Len(jobs)) = k
    BY <1>8, <1>1, <1>5
  <2> QED BY <2>1, <1>7, <1>3
<1>9. \A a, b : Job("close", a) = Job("close", b) => a = b
  BY DEF Job
<1>10. \A a, b : Job("close", a) # Job("send", b)
  BY DEF Job
<1>11. ASSUME NEW i \in Opening PROVE Closes(i)' <=> (Closes(i) \/ i \in owned)
  <2>1. ASSUME Closes(i)', ~Closes(i) PROVE i \in owned
    <3>1. PICK k \in 1..(Len(jobs) + n) : jobs'[k] = Job("close", i)
      BY <2>1, <1>5 DEF Closes, Job
    <3>2. k \notin 1..Len(jobs)
      BY <3>1, <2>1, <1>6, <1>5 DEF Closes
    <3>3. PICK m \in 1..n : jobs'[k] = Job("close", ids[m])
      BY <3>1, <3>2, <1>8
    <3>4. ids[m] = i
      BY <3>1, <3>3, <1>9
    <3> QED BY <3>4, <1>2
  <2>2. Closes(i) => Closes(i)'
    BY <1>5, <1>6 DEF Closes, Job
  <2>3. ASSUME i \in owned PROVE Closes(i)'
    <3>1. PICK k \in 1..n : ids[k] = i
      BY <2>3, <1>2
    <3>2. jobs'[Len(jobs) + k] = Job("close", i) /\ Len(jobs) + k \in DOMAIN jobs'
      BY <3>1, <1>3, <1>5, <1>7
    <3> QED BY <3>2 DEF Closes, Job
  <2> QED BY <2>1, <2>2, <2>3
<1>12. ASSUME NEW i \in Opening PROVE SendsOf(i)' = SendsOf(i)
  <2>1. ASSUME NEW k \in 1..(Len(jobs) + n), jobs'[k] = Job("send", i) PROVE k \in 1..Len(jobs) /\ jobs[k] = Job("send", i)
    BY <2>1, <1>6, <1>8, <1>10
  <2>2. SendsOf(i)' = {k \in 1..(Len(jobs) + n) : jobs'[k] = Job("send", i)}
    BY <1>5 DEF SendsOf, Job
  <2>3. SendsOf(i) = {k \in 1..Len(jobs) : jobs[k] = Job("send", i)}
    BY <1>5 DEF SendsOf
  <2> QED BY <2>1, <2>2, <2>3, <1>6
<1> QED BY <1>5, <1>11, <1>12

\* Channels::drop posts a close for every channel the connection owned.
LEMMA ConnectionEndsStep == ASSUME ChannelsInv, ConnectionEnds PROVE ChannelsInv'
<1>1. /\ ~ended /\ ended' = TRUE /\ owned' = {} /\ held' = [i \in Opening |-> <<>>]
      /\ UNCHANGED <<opens, channels, air, a2dp, running, task, closed, pendingData, log, written, sends, got, raced>>
  BY DEF ConnectionEnds
<1>2. /\ jobs' \in Seq(JobType)
      /\ \A i \in Opening :
            /\ Closes(i)' => Closes(i) \/ i \in owned
            /\ Closes(i) => Closes(i)'
            /\ running /\ i \in owned => Closes(i)'
            /\ Cardinality(SendsOf(i))' = Cardinality(SendsOf(i))
  <2>1. CASE running
    <3>1. PICK ids \in Drained(owned) : jobs' = jobs \o [k \in 1..Cardinality(owned) |-> Job("close", ids[k])]
      BY <2>1 DEF ConnectionEnds
    <3> QED BY <3>1, ClosesPosted
  <2>2. CASE ~running
    <3>1. jobs' = jobs
      BY <2>2 DEF ConnectionEnds
    <3> QED BY <3>1, <2>2, JobsKept DEF ChannelsInv, WireTypes
  <2> QED BY <2>1, <2>2
<1>3. \A j, K : Told(j, K)' <=> Told(j, K)
  BY <1>1, LogKept
<1>4. held' \in [Opening -> Seq(MsgType)] /\ \A i \in Opening : held'[i] = <<>>
  BY <1>1
<1>5. WireTypes' /\ ClientTypes'
  BY <1>1, <1>2, <1>4, ChannelsKept DEF ChannelsInv, WireTypes, ClientTypes
<1>6. OpensInv' /\ QueueInv'
  BY <1>1, <1>2, ChannelsKept DEF ChannelsInv, OpensInv, QueueInv, QueueOf
<1>7. LifeInv'
  <2> SUFFICES ASSUME NEW j \in Opening PROVE LifeOf(j)'
    BY DEF LifeInv
  <2>1. LifeOf(j)
    BY DEF ChannelsInv, LifeInv
  <2> QED BY <2>1, <1>1, <1>2, <1>3, <1>4 DEF LifeOf
<1>8. HeldInv'
  BY <1>1, <1>4 DEF HeldInv, HeldOf, EndIsIn
<1>9. OwnedInv'
  BY <1>1 DEF OwnedInv
<1>10. NoOrphan'
  <2>1. \A i \in owned : channels[i].st = "open" /\ i \in Opening
    BY DEF ChannelsInv, ClientTypes, OwnedInv, OwnedOf
  <2>2. ~running => \A i \in Opening : channels[i].st = "none"
    BY DEF ChannelsInv, OpensInv
  <2> QED BY <2>1, <2>2, <1>1, <1>2, ChannelsKept DEF ChannelsInv, NoOrphan, Present
<1>11. PendingIsCounted'
  BY <1>1 DEF PendingIsCounted
<1> QED BY <1>1, <1>5, <1>6, <1>7, <1>8, <1>9, <1>10, <1>11, LogKept DEF ChannelsInv

-----------------------------------------------------------------------------
\* The steps of the BTstack thread.

\* A channel may go without a word: nobody owns it, and nobody waits for it.
Loose(i) ==
    /\ channels[i].st # "none" /\ i \notin owned
    /\ \/ task[i] = "done" /\ channels'[i].st \in {"none", "closing"}
       \/ (ended \/ i \in closed) /\ channels'[i].st = "none"

\* A step of the stack that tells the connection nothing, but for opens that
\* fail.
LEMMA StackStepIs ==
    ASSUME ChannelsInv, OnlyErrs, QueueInv',
           UNCHANGED <<running, owned, closed, held, ended, pendingData, log, written, sends, raced>>,
           a2dp' \in BOOLEAN, jobs' \in Seq(JobType), opens' \in Seq(OpenType),
           \A k \in DOMAIN opens' : opens'[k].stage = "waiting" <=> k > 1,
           Len(opens') + Cardinality(Present) <= MaxChannels,
           channels' \in [Opening -> ChannelType], air' \subseteq Present',
           \A i \in Opening :
              /\ Closes(i)' => Closes(i)
              /\ Closes(i) => Closes(i)' \/ channels'[i].st # "open"
              /\ channels'[i].st = channels[i].st \/ Loose(i)
    PROVE ChannelsInv'
<1>1. task' \in [Opening -> Answers] /\ \A i \in Opening : task'[i] = task[i] \/ (task[i] = "wait" /\ task'[i] = "err")
  BY DEF OnlyErrs
<1>2. \A j, K : Told(j, K)' <=> Told(j, K)
  BY LogKept
<1>3. WireTypes' /\ ClientTypes'
  BY <1>1 DEF ChannelsInv, WireTypes, ClientTypes
<1>4. OpensInv'
  <2>1. Present' \subseteq Present
    BY DEF Present, Loose
  <2>2. IsFiniteSet(Present) /\ Cardinality(Present) \in Nat
    BY FiniteParts
  <2>3. Cardinality(Present') <= Cardinality(Present) /\ Cardinality(Present') \in Nat
    BY <2>1, <2>2, FS_Subset, FS_CardinalityType
  <2>4. Len(opens') + Cardinality(Present') <= MaxChannels
    <3>1. Len(opens') \in Nat
      OBVIOUS
    <3> QED BY <2>2, <2>3, <3>1, RfcommConstants
  <2>5. ~running' => \A i \in Opening : channels'[i].st = "none"
    BY DEF ChannelsInv, OpensInv, Loose
  <2> QED BY <2>4, <2>5 DEF OpensInv
<1>5. LifeInv'
  <2> SUFFICES ASSUME NEW i \in Opening PROVE LifeOf(i)'
    BY DEF LifeInv
  <2>1. LifeOf(i)
    BY DEF ChannelsInv, LifeInv
  <2>2. HeldOf(i)
    BY DEF ChannelsInv, HeldInv
  <2>3. CASE channels'[i].st = channels[i].st
    BY <2>1, <2>3, <1>1, <1>2 DEF LifeOf
  <2>4. CASE Loose(i)
    BY <2>1, <2>4, <1>1, <1>2 DEF LifeOf, Loose
  <2> QED BY <2>3, <2>4
<1>6. HeldInv'
  <2> SUFFICES ASSUME NEW i \in Opening PROVE HeldOf(i)'
    BY DEF HeldInv, ChannelsInv
  <2>1. HeldOf(i)
    BY DEF ChannelsInv, HeldInv
  <2> QED BY <2>1 DEF HeldOf, Loose
<1>7. OwnedInv'
  BY <1>2 DEF ChannelsInv, ClientTypes, OwnedInv, OwnedOf, Loose
<1>8. NoOrphan'
  <2> SUFFICES ASSUME NEW i \in Opening, i \notin raced, channels'[i].st = "open"
               PROVE i \in owned \/ task'[i] = "ok" \/ Closes(i)'
    BY DEF NoOrphan, Present
  <2>1. channels[i].st = "open"
    BY DEF Loose
  <2>2. i \in owned \/ task[i] = "ok" \/ Closes(i)
    BY <2>1 DEF ChannelsInv, NoOrphan, Present
  <2> QED BY <2>2, <1>1
<1> QED BY <1>3, <1>4, <1>5, <1>6, <1>7, <1>8, LogKept, DataKept DEF ChannelsInv

\* The facts of a channel and its queue.
LEMMA ChannelIs ==
    ASSUME ChannelsInv, NEW i \in Opening
    PROVE /\ channels[i] \in ChannelType /\ QueueOf(i) /\ LifeOf(i) /\ HeldOf(i)
          /\ Cardinality(SendsOf(i)) \in Nat /\ sends \in Nat
          /\ Closes(i) => task[i] = "done" /\ i \notin owned
          /\ channels[i].st = "closing" => task[i] = "done" /\ i \notin owned
<1>1. channels[i] \in ChannelType /\ QueueOf(i) /\ LifeOf(i) /\ HeldOf(i) /\ sends \in Nat
  BY DEF ChannelsInv, WireTypes, ClientTypes, QueueInv, LifeInv, HeldInv
<1>2. i \in owned => channels[i].st = "open" /\ ~Closes(i)
  BY DEF ChannelsInv, OwnedInv, OwnedOf
<1> QED BY <1>1, <1>2, FiniteParts DEF LifeOf

\* What Channel::send_next leaves of a queue: what RFCOMM did not take, and then
\* it is asked.
LEMMA NextIsTyped ==
    ASSUME NEW c \in ChannelType, NEW n \in Nat, NEW d \in SendNext(c, n)
    PROVE /\ d \in ChannelType /\ d.st = c.st /\ d.queue <= n
          /\ d.queue > 0 => d.asked
<1>1. CASE c.asked
  <2>1. d = [c EXCEPT !.queue = n]
    BY <1>1 DEF SendNext
  <2> QED BY <1>1, <2>1 DEF ChannelType
<1>2. CASE ~c.asked
  <2>1. PICK m \in 0..n : d = [c EXCEPT !.queue = m, !.asked = m > 0]
    BY <1>2 DEF SendNext
  <2>2. m \in Nat /\ m <= n /\ (m > 0) \in BOOLEAN
    OBVIOUS
  <2>3. d = [st |-> c.st, queue |-> m, asked |-> m > 0]
    BY <2>1 DEF ChannelType
  <2> QED BY <2>2, <2>3 DEF ChannelType
<1> QED BY <1>1, <1>2

\* The run loop takes a job: an open within the limit, a piece to send, a close.
LEMMA RunJobStep == ASSUME ChannelsInv, RunJob PROVE ChannelsInv'
<1>1. PICK j \in JobType : j = Head(jobs)
  BY JobsTaken DEF RunJob
<1>2. PICK i \in Opening : i = j.id
  BY DEF JobType
<1>3. /\ jobs # <<>> /\ jobs' = Tail(jobs)
      /\ UNCHANGED <<a2dp, running, owned, closed, held, ended, pendingData, log, written, sends, got, raced>>
      /\ \/ j.op = "open" /\ RunOpen(i)
         \/ j.op = "send" /\ RunSend(i)
         \/ j.op = "close" /\ RunClose(i)
         \/ j.op \in {"send", "close"} /\ RunNothing(i)
  BY <1>1, <1>2 DEF RunJob, inner
<1>4. /\ jobs' \in Seq(JobType) /\ j \in JobType
      /\ j.op = "close" => Closes(i)
      /\ \A x \in Opening :
            /\ Closes(x)' => Closes(x)
            /\ Closes(x) => Closes(x)' \/ j = Job("close", x)
            /\ Cardinality(SendsOf(x))'
                  = IF j = Job("send", x) THEN Cardinality(SendsOf(x)) - 1 ELSE Cardinality(SendsOf(x))
  BY <1>3, <1>1, <1>2, JobsTaken
<1>5. i \in Opening /\ j = Job(j.op, i) /\ a2dp' \in BOOLEAN
  BY <1>3, <1>2 DEF JobType, Job, ChannelsInv, WireTypes
<1>6. \A x \in Opening : (j = Job("close", x) <=> (j.op = "close" /\ x = i)) /\ (j = Job("send", x) <=> (j.op = "send" /\ x = i))
  BY <1>5 DEF Job
<1>7. /\ channels \in [Opening -> ChannelType] /\ opens \in Seq(OpenType) /\ air \subseteq Present
      /\ task \in [Opening -> Answers]
  BY DEF ChannelsInv, WireTypes, ClientTypes
<1>8. /\ \A k \in DOMAIN opens : opens[k].stage = "waiting" <=> k > 1
      /\ Len(opens) + Cardinality(Present) <= MaxChannels
  BY DEF ChannelsInv, OpensInv
<1>9. ASSUME task' = task PROVE OnlyErrs
  BY <1>7, <1>9 DEF OnlyErrs
<1>10. ASSUME channels' = channels PROVE QueueInv' /\ Present' = Present
  <2> SUFFICES ASSUME NEW x \in Opening PROVE QueueOf(x)'
    BY <1>10, ChannelsKept DEF QueueInv
  <2>1. Cardinality(SendsOf(x))' \in {Cardinality(SendsOf(x)) - 1, Cardinality(SendsOf(x))}
    BY <1>4
  <2>2. /\ channels[x].queue \in Nat /\ QueueOf(x)
        /\ Cardinality(SendsOf(x)) \in Nat /\ sends \in Nat
    BY ChannelIs DEF ChannelType
  <2>3. channels[x].queue + Cardinality(SendsOf(x))' <= sends
    BY <2>1, <2>2 DEF QueueOf
  <2> QED BY <2>2, <2>3, <1>3, <1>10 DEF QueueOf
<1>11. CASE j.op = "open" /\ RunOpen(i)
  <2>1. channels' = channels /\ air' = air
    BY <1>11 DEF RunOpen
  <2>2. \A x \in Opening : Closes(x)' <=> Closes(x)
    BY <1>4, <1>6, <1>11
  <2>3. /\ OnlyErrs /\ opens' \in Seq(OpenType)
        /\ \A k \in DOMAIN opens' : opens'[k].stage = "waiting" <=> k > 1
        /\ Len(opens') + Cardinality(Present) <= MaxChannels
    <3>1. CASE ~a2dp \/ Len(opens) + Cardinality(Present) >= MaxChannels
      BY <3>1, <1>7, <1>8, <1>11, AnsweredErrs DEF RunOpen
    <3>2. CASE ~(~a2dp \/ Len(opens) + Cardinality(Present) >= MaxChannels)
      <4> DEFINE o == [id |-> i, stage |-> "waiting", reply |-> TRUE]
      <4> DEFINE os == Append(opens, o)
      <4>1. o \in OpenType /\ o.stage = "waiting"
        BY <1>5 DEF OpenType
      <4> HIDE DEF o
      <4>2. os \in Seq(OpenType) /\ Len(os) = Len(opens) + 1 /\ \A k \in DOMAIN os : k > 1 => os[k].stage = "waiting"
        <5>1. os \in Seq(OpenType) /\ Len(os) = Len(opens) + 1 /\ os[Len(opens) + 1] = o /\ \A k \in 1..Len(opens) : os[k] = opens[k]
          BY <4>1, <1>7
        <5>2. DOMAIN os = 1..(Len(opens) + 1) /\ DOMAIN opens = 1..Len(opens) /\ Len(opens) \in Nat
          BY <5>1, <1>7
        <5>3. \A k \in 1..(Len(opens) + 1) : k \in 1..Len(opens) \/ k = Len(opens) + 1
          BY <5>2
        <5> HIDE DEF os
        <5> QED BY <5>1, <5>2, <5>3, <4>1, <1>8
      <4>3. Go(os, {})
        BY <3>2, <1>11 DEF RunOpen, o
      <4> HIDE DEF os
      <4>4. /\ opens' \in Seq(OpenType) /\ Len(opens') <= Len(os) /\ OnlyErrs
            /\ \A k \in DOMAIN opens' : opens'[k].stage = "waiting" <=> k > 1
        BY <4>2, <4>3, GoIs
      <4>5. Len(opens') \in Nat /\ Len(opens) \in Nat /\ Cardinality(Present) \in Nat
        BY <4>4, <1>7, FiniteParts
      <4> QED BY <4>2, <4>4, <4>5, <3>2, RfcommConstants
    <3> QED BY <3>1, <3>2
  <2> QED BY <2>1, <2>2, <2>3, <1>3, <1>4, <1>5, <1>7, <1>10, StackStepIs
<1>12. CASE j.op = "send" /\ RunSend(i)
  <2>1. /\ opens' = opens /\ air' = air /\ task' = task /\ channels[i].st = "open"
    BY <1>12 DEF RunSend
  <2>2. PICK d \in SendNext(channels[i], channels[i].queue + 1) : channels' = [channels EXCEPT ![i] = d]
    BY <1>12 DEF RunSend
  <2>3. channels[i].queue \in Nat /\ channels[i] \in ChannelType
    BY <1>5, <1>7 DEF ChannelType
  <2>5. d \in ChannelType /\ d.st = "open" /\ d.queue <= channels[i].queue + 1 /\ (d.queue > 0 => d.asked)
    BY <2>1, <2>2, <2>3, NextIsTyped
  <2>6. /\ channels' \in [Opening -> ChannelType] /\ channels'[i] = d
        /\ \A x \in Opening : x # i => channels'[x] = channels[x]
    BY <2>2, <2>5, <1>5, <1>7
  <2>7. Present' = Present
    BY <2>1, <2>5, <2>6, <1>5 DEF Present
  <2>8. QueueInv'
    <3> SUFFICES ASSUME NEW x \in Opening PROVE QueueOf(x)'
      BY DEF QueueInv
    <3>1. /\ channels[x].queue \in Nat /\ QueueOf(x)
          /\ Cardinality(SendsOf(x)) \in Nat /\ sends \in Nat
      BY ChannelIs DEF ChannelType
    <3>2. CASE x = i
      <4>1. Cardinality(SendsOf(i))' = Cardinality(SendsOf(i)) - 1
        BY <1>4, <1>5, <1>6, <1>12
      <4>2. d.queue \in Nat
        BY <2>5 DEF ChannelType
      <4>3. d.queue + Cardinality(SendsOf(i))' <= sends
        BY <4>1, <4>2, <3>1, <3>2, <2>5 DEF QueueOf
      <4> QED BY <4>3, <3>2, <2>5, <2>6, <1>3 DEF QueueOf
    <3>3. CASE x # i
      <4>1. Cardinality(SendsOf(x))' = Cardinality(SendsOf(x))
        BY <1>4, <1>6, <3>3
      <4> QED BY <4>1, <3>1, <3>3, <2>6, <1>3 DEF QueueOf
    <3> QED BY <3>2, <3>3
  <2>9. \A x \in Opening : (Closes(x)' <=> Closes(x)) /\ channels'[x].st = channels[x].st
    BY <1>4, <1>6, <1>12, <2>1, <2>5, <2>6
  <2> QED BY <2>1, <2>6, <2>7, <2>8, <2>9, <1>3, <1>4, <1>5, <1>7, <1>8, <1>9, StackStepIs
<1>13. CASE j.op = "close" /\ RunClose(i)
  <2>1. /\ opens' = opens /\ task' = task /\ channels[i].st = "open"
    BY <1>13 DEF RunClose
  <2>2. task[i] = "done" /\ i \notin owned
    BY <1>4, <1>5, <1>13, ChannelIs
  <2>3. /\ channels' \in [Opening -> ChannelType] /\ channels'[i].st \in {"none", "closing"}
        /\ \A x \in Opening : x # i => channels'[x] = channels[x]
        /\ air' \subseteq Present'
        /\ QueueInv'
    <3>1. /\ channels[i].queue \in Nat /\ channels[i] \in ChannelType /\ QueueOf(i)
          /\ Cardinality(SendsOf(i)) \in Nat /\ sends \in Nat
      BY <1>5, ChannelIs DEF ChannelType
    <3>2. \A x \in Opening : Cardinality(SendsOf(x))' = Cardinality(SendsOf(x))
      BY <1>4, <1>6, <1>13
    <3>3. CASE channels[i].queue = 0
      <4>1. channels' = [channels EXCEPT ![i] = NoChannel] /\ air' = air \ {i}
        BY <1>13, <3>3 DEF RunClose
      <4>2. NoChannel \in ChannelType /\ NoChannel.queue = 0 /\ NoChannel.st = "none"
        BY DEF NoChannel, ChannelType
      <4>3. channels' \in [Opening -> ChannelType] /\ channels'[i] = NoChannel /\ \A x \in Opening : x # i => channels'[x] = channels[x]
        BY <4>1, <4>2, <1>5, <1>7
      <4>4. air' \subseteq Present'
        BY <4>1, <4>3, <1>7 DEF Present
      <4>5. QueueOf(i)'
        BY <4>2, <4>3, <3>1, <3>2, <3>3, <1>3, <1>5 DEF QueueOf
      <4>6. QueueInv'
        BY <4>3, <4>5, <3>2, <1>3 DEF ChannelsInv, QueueInv, QueueOf
      <4> QED BY <4>2, <4>3, <4>4, <4>6
    <3>4. CASE channels[i].queue # 0
      <4>1. channels' = [channels EXCEPT ![i].st = "closing"] /\ air' = air
        BY <1>13, <3>4 DEF RunClose
      <4>2. /\ channels' \in [Opening -> ChannelType] /\ channels'[i] = [channels[i] EXCEPT !.st = "closing"]
            /\ \A x \in Opening : x # i => channels'[x] = channels[x]
        BY <4>1, <3>1, <1>5, <1>7 DEF ChannelType
      <4>3. channels'[i].st = "closing" /\ channels'[i].queue = channels[i].queue /\ channels'[i].asked = channels[i].asked
        BY <4>2, <3>1 DEF ChannelType
      <4>4. air' \subseteq Present'
        BY <4>1, <4>2, <4>3, <1>7 DEF Present
      <4>5. QueueOf(i)'
        BY <4>3, <3>1, <3>2, <3>4, <1>3, <1>5 DEF QueueOf
      <4>6. QueueInv'
        BY <4>2, <4>5, <3>2, <1>3 DEF ChannelsInv, QueueInv, QueueOf
      <4> QED BY <4>2, <4>3, <4>4, <4>6
    <3> QED BY <3>3, <3>4
  <2>4. \A x \in Opening :
           /\ Closes(x)' => Closes(x)
           /\ Closes(x) => Closes(x)' \/ channels'[x].st # "open"
           /\ channels'[x].st = channels[x].st \/ Loose(x)
    BY <1>4, <1>6, <2>1, <2>2, <2>3 DEF Loose
  <2> QED BY <2>1, <2>3, <2>4, <1>3, <1>4, <1>5, <1>7, <1>8, <1>9, StackStepIs
<1>14. CASE j.op \in {"send", "close"} /\ RunNothing(i)
  <2>1. UNCHANGED <<opens, channels, air, task>> /\ channels[i].st # "open"
    BY <1>14 DEF RunNothing
  <2>2. \A x \in Opening :
           /\ Closes(x)' => Closes(x)
           /\ Closes(x) => Closes(x)' \/ channels'[x].st # "open"
    BY <1>4, <1>6, <2>1
  <2> QED BY <2>1, <2>2, <1>3, <1>4, <1>5, <1>7, <1>8, <1>9, <1>10, StackStepIs
<1> QED BY <1>3, <1>11, <1>12, <1>13, <1>14

\* A step that leaves the channels, the jobs and the connection alone: opens
\* go on or fail.
LEMMA OpensGoOn ==
    ASSUME ChannelsInv, OnlyErrs, opens' \in Seq(OpenType), Len(opens') <= Len(opens),
           \A k \in DOMAIN opens' : opens'[k].stage = "waiting" <=> k > 1,
           UNCHANGED <<jobs, channels, air, a2dp, running, inner, log, written, sends, raced>>
    PROVE ChannelsInv'
<1>1. UNCHANGED <<owned, closed, held, ended, pendingData>>
  BY DEF inner
<1>2. QueueInv' /\ \A i \in Opening : Closes(i)' <=> Closes(i)
  BY JobsKept DEF ChannelsInv, QueueInv, QueueOf
<1>3. /\ jobs' \in Seq(JobType) /\ channels' \in [Opening -> ChannelType] /\ a2dp' \in BOOLEAN
      /\ opens \in Seq(OpenType) /\ air \subseteq Present
  BY DEF ChannelsInv, WireTypes
<1>4. Len(opens') + Cardinality(Present) <= MaxChannels
  <2>1. Len(opens) + Cardinality(Present) <= MaxChannels
    BY DEF ChannelsInv, OpensInv
  <2>2. Len(opens) \in Nat /\ Len(opens') \in Nat /\ Cardinality(Present) \in Nat
    BY <1>3, FiniteParts
  <2> QED BY <2>1, <2>2, RfcommConstants
<1>5. Present' = Present
  BY ChannelsKept
<1> QED BY <1>1, <1>2, <1>3, <1>4, <1>5, StackStepIs

\* The opens behind the first.
LEMMA BehindFirst ==
    ASSUME ChannelsInv, opens # <<>>
    PROVE /\ opens \in Seq(OpenType) /\ Len(opens) \in Nat \ {0} /\ opens[1] \in OpenType
          /\ Tail(opens) \in Seq(OpenType) /\ Len(Tail(opens)) = Len(opens) - 1
          /\ \A k \in DOMAIN opens : k > 1 => opens[k].stage = "waiting"
          /\ \A k \in DOMAIN Tail(opens) : Tail(opens)[k].stage = "waiting"
<1>1. opens \in Seq(OpenType) /\ Len(opens) \in Nat \ {0} /\ DOMAIN opens = 1..Len(opens)
  BY DEF ChannelsInv, WireTypes
<1>2. \A k \in DOMAIN opens : opens[k].stage = "waiting" <=> k > 1
  BY DEF ChannelsInv, OpensInv
<1>3. /\ Tail(opens) \in Seq(OpenType) /\ Len(Tail(opens)) = Len(opens) - 1
      /\ DOMAIN Tail(opens) = 1..(Len(opens) - 1)
      /\ \A k \in 1..(Len(opens) - 1) : Tail(opens)[k] = opens[k + 1]
  BY <1>1
<1>4. ASSUME NEW k \in DOMAIN Tail(opens) PROVE Tail(opens)[k].stage = "waiting"
  <2>1. k + 1 \in 1..Len(opens) /\ k + 1 > 1
    BY <1>1, <1>3
  <2> QED BY <2>1, <1>1, <1>2, <1>3
<1> QED BY <1>1, <1>2, <1>3, <1>4

\* The deadline answers the oldest opens; the one that runs goes on unheard.
LEMMA OnTimerStep == ASSUME ChannelsInv, OnTimer PROVE ChannelsInv'
<1>1. PICK n \in 1..Len(opens) :
         Go(<<[opens[1] EXCEPT !.reply = FALSE]>> \o SubSeq(opens, n + 1, Len(opens)), IdsOf(SubSeq(opens, 1, n)))
  BY DEF OnTimer
<1>2. UNCHANGED <<jobs, channels, air, a2dp, running, inner, log, written, sends, raced>>
  BY DEF OnTimer
<1> DEFINE a == [opens[1] EXCEPT !.reply = FALSE]
<1> DEFINE t == <<a>> \o SubSeq(opens, n + 1, Len(opens))
<1>3. opens # <<>> /\ opens \in Seq(OpenType) /\ Len(opens) \in Nat
  BY DEF ChannelsInv, WireTypes
<1>4. a \in OpenType
  BY <1>3, BehindFirst DEF OpenType
<1>5. n + 1 \in 2..(Len(opens) + 1) /\ Len(opens) - (n + 1) + 2 <= Len(opens)
  BY <1>3
<1> HIDE DEF a
<1>6. /\ t \in Seq(OpenType) /\ Len(t) = Len(opens) - (n + 1) + 2
      /\ \A k \in DOMAIN t : k > 1 => t[k].stage = "waiting"
  BY <1>3, <1>4, <1>5, BehindFirst, HeadedBy
<1>7. Go(t, IdsOf(SubSeq(opens, 1, n)))
  BY <1>1 DEF a
<1> HIDE DEF t
<1>8. /\ opens' \in Seq(OpenType) /\ Len(opens') <= Len(t) /\ OnlyErrs
      /\ \A k \in DOMAIN opens' : opens'[k].stage = "waiting" <=> k > 1
  BY <1>6, <1>7, GoIs
<1>9. Len(opens') <= Len(opens)
  <2>1. Len(opens') \in Nat
    BY <1>8
  <2> QED BY <2>1, <1>3, <1>5, <1>6, <1>8
<1> QED BY <1>2, <1>8, <1>9, OpensGoOn

\* The first open ends.
LEMMA FirstEnds ==
    ASSUME ChannelsInv, opens # <<>>, NEW S, Go(Tail(opens), S)
    PROVE /\ opens' \in Seq(OpenType) /\ Len(opens') <= Len(opens) /\ OnlyErrs
          /\ \A k \in DOMAIN opens' : opens'[k].stage = "waiting" <=> k > 1
<1> DEFINE t == Tail(opens)
<1>1. /\ t \in Seq(OpenType) /\ Len(t) = Len(opens) - 1 /\ Len(opens) \in Nat
      /\ \A k \in DOMAIN t : k > 1 => t[k].stage = "waiting"
  BY BehindFirst
<1>2. Go(t, S)
  OBVIOUS
<1> HIDE DEF t
<1>3. /\ opens' \in Seq(OpenType) /\ Len(opens') <= Len(t) /\ OnlyErrs
      /\ \A k \in DOMAIN opens' : opens'[k].stage = "waiting" <=> k > 1
  BY <1>1, <1>2, GoIs
<1>4. Len(opens') \in Nat
  BY <1>3
<1> QED BY <1>1, <1>3, <1>4

\* No open is answered.
LEMMA NoErrs == ASSUME ChannelsInv, task' = task PROVE OnlyErrs
BY DEF OnlyErrs, ChannelsInv, ClientTypes

\* The SDP query of the open that runs ended.
LEMMA OnSdpStep == ASSUME ChannelsInv, OnSdp PROVE ChannelsInv'
<1>1. /\ opens # <<>> /\ opens[1].stage = "sdp"
      /\ UNCHANGED <<jobs, channels, air, a2dp, running, inner, log, written, sends, raced>>
  BY DEF OnSdp
<1>2. CASE opens' = [opens EXCEPT ![1].stage = "connecting"] /\ UNCHANGED task
  <2>1. opens \in Seq(OpenType) /\ Len(opens) \in Nat \ {0} /\ DOMAIN opens = 1..Len(opens) /\ opens[1] \in OpenType
    BY <1>1, BehindFirst
  <2> DEFINE a == [opens[1] EXCEPT !.stage = "connecting"]
  <2>2. a \in OpenType /\ a.stage = "connecting"
    BY <2>1 DEF OpenType
  <2>3. opens' = [opens EXCEPT ![1] = a]
    BY <1>2, <2>1
  <2> HIDE DEF a
  <2>4. /\ opens' \in Seq(OpenType) /\ Len(opens') = Len(opens) /\ DOMAIN opens' = 1..Len(opens) /\ opens'[1] = a
        /\ \A k \in 1..Len(opens) : k # 1 => opens'[k] = opens[k]
    BY <2>1, <2>2, <2>3
  <2>5. \A k \in DOMAIN opens' : opens'[k].stage = "waiting" <=> k > 1
    BY <2>1, <2>2, <2>4 DEF ChannelsInv, OpensInv
  <2> QED BY <1>1, <1>2, <2>1, <2>4, <2>5, NoErrs, OpensGoOn
<1>3. CASE Go(Tail(opens), IdsOf(<<opens[1]>>))
  BY <1>1, <1>3, FirstEnds, OpensGoOn
<1> QED BY <1>2, <1>3 DEF OnSdp

\* RFCOMM takes more of a queue; a channel that closes goes with its last piece.
LEMMA CanSendStep == ASSUME ChannelsInv, CanSend PROVE ChannelsInv'
<1>1. PICK i \in Present \cap air :
         /\ channels[i].asked
         /\ \E c \in SendNext([channels[i] EXCEPT !.asked = FALSE], channels[i].queue) :
               IF c.st = "closing" /\ c.queue = 0
               THEN channels' = [channels EXCEPT ![i] = NoChannel] /\ air' = air \ {i}
               ELSE channels' = [channels EXCEPT ![i] = c] /\ UNCHANGED air
  BY DEF CanSend
<1>2. UNCHANGED <<jobs, opens, a2dp, running, task, owned, closed, held, ended, pendingData, log, written, sends, got, raced>>
  BY DEF CanSend, client, inner
<1>3. i \in Opening /\ channels[i].st # "none"
  BY <1>1 DEF Present
<1>4. /\ channels[i] \in ChannelType /\ channels[i].queue \in Nat /\ QueueOf(i) /\ Cardinality(SendsOf(i)) \in Nat /\ sends \in Nat
      /\ channels[i].st = "closing" => task[i] = "done" /\ i \notin owned
  BY <1>3, ChannelIs DEF ChannelType
<1>5. PICK c \in SendNext([channels[i] EXCEPT !.asked = FALSE], channels[i].queue) :
               IF c.st = "closing" /\ c.queue = 0
               THEN channels' = [channels EXCEPT ![i] = NoChannel] /\ air' = air \ {i}
               ELSE channels' = [channels EXCEPT ![i] = c] /\ UNCHANGED air
  BY <1>1
<1> DEFINE b == [channels[i] EXCEPT !.asked = FALSE]
<1>6. b \in ChannelType /\ b.st = channels[i].st
  BY <1>4 DEF ChannelType
<1> HIDE DEF b
<1>7. /\ c \in ChannelType /\ c.st = channels[i].st /\ c.queue <= channels[i].queue
      /\ c.queue > 0 => c.asked
  <2>1. c \in SendNext(b, channels[i].queue)
    BY <1>5 DEF b
  <2> QED BY <1>4, <1>6, <2>1, NextIsTyped
<1>8. /\ channels \in [Opening -> ChannelType] /\ air \subseteq Present
      /\ jobs \in Seq(JobType) /\ opens \in Seq(OpenType) /\ a2dp \in BOOLEAN
      /\ \A k \in DOMAIN opens : opens[k].stage = "waiting" <=> k > 1
      /\ Len(opens) + Cardinality(Present) <= MaxChannels
  BY DEF ChannelsInv, WireTypes, OpensInv
<1>9. NoChannel \in ChannelType /\ NoChannel.queue = 0 /\ NoChannel.st = "none"
  BY DEF NoChannel, ChannelType
<1>10. /\ channels' \in [Opening -> ChannelType] /\ air' \subseteq Present'
       /\ QueueOf(i)'
       /\ \A x \in Opening : x # i => channels'[x] = channels[x]
       /\ channels'[i].st = channels[i].st \/ (channels[i].st = "closing" /\ channels'[i].st = "none")
  <2>1. Cardinality(SendsOf(i))' = Cardinality(SendsOf(i)) /\ sends' = sends
    BY <1>2, <1>3, JobsKept
  <2>2. CASE c.st = "closing" /\ c.queue = 0
    <3>1. channels' = [channels EXCEPT ![i] = NoChannel] /\ air' = air \ {i}
      BY <1>5, <2>2
    <3>2. channels' \in [Opening -> ChannelType] /\ channels'[i] = NoChannel /\ \A x \in Opening : x # i => channels'[x] = channels[x]
      BY <3>1, <1>3, <1>8, <1>9
    <3>3. air' \subseteq Present'
      BY <3>1, <3>2, <1>8 DEF Present
    <3>4. QueueOf(i)'
      BY <3>2, <2>1, <1>4, <1>9 DEF QueueOf
    <3> QED BY <3>2, <3>3, <3>4, <2>2, <1>7, <1>9
  <2>3. CASE ~(c.st = "closing" /\ c.queue = 0)
    <3>1. channels' = [channels EXCEPT ![i] = c] /\ air' = air
      BY <1>5, <2>3
    <3>2. channels' \in [Opening -> ChannelType] /\ channels'[i] = c /\ \A x \in Opening : x # i => channels'[x] = channels[x]
      BY <3>1, <1>3, <1>7, <1>8
    <3>3. air' \subseteq Present'
      BY <3>1, <3>2, <1>3, <1>7, <1>8 DEF Present
    <3>4. c.queue \in Nat
      BY <1>7 DEF ChannelType
    <3>5. QueueOf(i)'
      BY <3>2, <3>4, <2>1, <2>3, <1>3, <1>4, <1>7 DEF QueueOf
    <3> QED BY <3>2, <3>3, <3>5, <1>7
  <2> QED BY <2>2, <2>3
<1>11. QueueInv'
  BY <1>2, <1>10, JobsKept DEF ChannelsInv, QueueInv, QueueOf
<1>12. \A x \in Opening : (Closes(x)' <=> Closes(x)) /\ (channels'[x].st = channels[x].st \/ Loose(x))
  BY <1>2, <1>3, <1>4, <1>10, JobsKept DEF Loose
<1> QED BY <1>2, <1>8, <1>10, <1>11, <1>12, NoErrs, StackStepIs

\* The channel comes up for the caller that still waits, or for nobody.
LEMMA ChannelOpenedStep == ASSUME ChannelsInv, ChannelOpened PROVE ChannelsInv'
<1>1. /\ opens # <<>> /\ UNCHANGED <<jobs, a2dp, running, inner, log, written, sends, got>>
      /\ UNCHANGED <<owned, closed, held, ended, pendingData>>
  BY DEF ChannelOpened, inner
<1>2. PICK i \in Opening : i = opens[1].id
  BY <1>1, BehindFirst DEF OpenType
<1>3. CASE \E S : Go(Tail(opens), S) /\ UNCHANGED <<channels, air, raced>>
  <2>1. PICK S : Go(Tail(opens), S) /\ UNCHANGED <<channels, air, raced>>
    BY <1>3
  <2> QED BY <2>1, <1>1, FirstEnds, OpensGoOn
<1>4. CASE /\ task[i] \in {"wait", "timed"}
           /\ \E failed \in SUBSET Opening :
                 /\ Begins(Tail(opens), failed)
                 /\ task' = [Answered(failed, "err") EXCEPT ![i] = Answered({i}, "ok")[i]]
           /\ channels' = [channels EXCEPT ![i].st = "open"] /\ air' = air \cup {i}
           /\ raced' = IF task[i] = "timed" THEN raced \cup {i} ELSE raced
  <2>1. PICK failed \in SUBSET Opening :
                 /\ Begins(Tail(opens), failed)
                 /\ task' = [Answered(failed, "err") EXCEPT ![i] = Answered({i}, "ok")[i]]
    BY <1>4
  <2>2. /\ opens' \in Seq(OpenType) /\ Len(opens') <= Len(opens) - 1 /\ Len(opens) \in Nat /\ Len(opens') \in Nat
        /\ \A k \in DOMAIN opens' : opens'[k].stage = "waiting" <=> k > 1
    <3> DEFINE t == Tail(opens)
    <3>1. /\ t \in Seq(OpenType) /\ Len(t) = Len(opens) - 1 /\ Len(opens) \in Nat
          /\ \A k \in DOMAIN t : k > 1 => t[k].stage = "waiting"
      BY <1>1, BehindFirst
    <3>2. Begins(t, failed)
      BY <2>1
    <3> HIDE DEF t
    <3>3. /\ opens' \in Seq(OpenType) /\ Len(opens') <= Len(t)
          /\ \A k \in DOMAIN opens' : opens'[k].stage = "waiting" <=> k > 1
      BY <3>1, <3>2, BeginsIs
    <3> QED BY <3>1, <3>3
  <2>3. /\ task' \in [Opening -> Answers]
        /\ task'[i] = IF task[i] = "wait" THEN "ok" ELSE "timedOk"
        /\ \A j \in Opening : j # i => task'[j] = task[j] \/ (task[j] = "wait" /\ task'[j] = "err")
    <3>1. task \in [Opening -> Answers]
      BY DEF ChannelsInv, ClientTypes
    <3>2. Answered({i}, "ok")[i] = IF task[i] = "wait" THEN "ok" ELSE "timedOk"
      BY <1>4 DEF Answered
    <3>3. /\ Answered(failed, "err") \in [Opening -> Answers]
          /\ \A j \in Opening : Answered(failed, "err")[j] = task[j] \/ (task[j] = "wait" /\ Answered(failed, "err")[j] = "err")
      BY <3>1 DEF Answered, Answers
    <3>4. Answered({i}, "ok")[i] \in Answers
      BY <3>2 DEF Answers
    <3> DEFINE A == Answered(failed, "err")
    <3> DEFINE b == Answered({i}, "ok")[i]
    <3> HIDE DEF A, b
    <3>5. task' = [A EXCEPT ![i] = b]
      BY <2>1 DEF A, b
    <3> QED BY <3>2, <3>3, <3>4, <3>5 DEF A, b
  <2>4. channels[i] = NoChannel /\ held[i] = <<>> /\ i \notin closed /\ QueueOf(i) /\ LifeOf(i)
    <3>1. QueueOf(i) /\ LifeOf(i)
      BY ChannelIs
    <3> QED BY <3>1, <1>4 DEF LifeOf, QueueOf
  <2> DEFINE c == [st |-> "open", queue |-> 0, asked |-> FALSE]
  <2>5. c \in ChannelType
    BY DEF ChannelType
  <2>6. channels' = [channels EXCEPT ![i] = c]
    <3>1. channels[i].st = "none" /\ channels[i].queue = 0 /\ channels[i].asked = FALSE /\ channels[i] = NoChannel
      BY <2>4 DEF NoChannel
    <3>2. [channels[i] EXCEPT !.st = "open"] = c
      <4>1. \A x \in ChannelType : [x EXCEPT !.st = "open"] = [st |-> "open", queue |-> x.queue, asked |-> x.asked]
        BY DEF ChannelType
      <4>2. channels[i] \in ChannelType
        BY ChannelIs
      <4> HIDE DEF c
      <4>3. [channels[i] EXCEPT !.st = "open"] = [st |-> "open", queue |-> 0, asked |-> FALSE]
        BY <3>1, <4>1, <4>2
      <4> QED BY <4>3 DEF c
    <3> QED BY <3>2, <1>4 DEF ChannelsInv, WireTypes
  <2>7. /\ channels' \in [Opening -> ChannelType] /\ channels'[i] = c
        /\ \A x \in Opening : x # i => channels'[x] = channels[x]
    BY <2>5, <2>6 DEF ChannelsInv, WireTypes
  <2>8. c.st = "open" /\ c.queue = 0
    OBVIOUS
  <2> HIDE DEF c
  <2>9. \A j \in Opening : (Closes(j)' <=> Closes(j)) /\ Cardinality(SendsOf(j))' = Cardinality(SendsOf(j))
    BY <1>1, JobsKept
  <2>10. \A j, K : Told(j, K)' <=> Told(j, K)
    BY <1>1, LogKept
  <2>11. Present' = Present \cup {i} /\ i \notin Present
    BY <2>4, <2>7, <2>8 DEF Present, NoChannel
  <2>12. WireTypes'
    BY <1>1, <1>4, <2>2, <2>7, <2>11 DEF ChannelsInv, WireTypes
  <2>13. ClientTypes'
    BY <1>1, <1>4, <2>3 DEF ChannelsInv, ClientTypes
  <2>14. OpensInv'
    <3>1. Cardinality(Present') = Cardinality(Present) + 1 /\ Cardinality(Present) \in Nat
      BY <2>11, FiniteParts, FS_AddElement
    <3>2. Len(opens) + Cardinality(Present) <= MaxChannels
      BY DEF ChannelsInv, OpensInv
    <3>3. running'
      BY DEF ChannelOpened
    <3> QED BY <3>1, <3>2, <3>3, <2>2, RfcommConstants DEF OpensInv
  <2>15. QueueInv'
    <3> SUFFICES ASSUME NEW j \in Opening PROVE QueueOf(j)'
      BY DEF QueueInv
    <3>1. QueueOf(j)
      BY ChannelIs
    <3>2. CASE j = i
      <4>1. channels[i].queue = 0
        BY <2>4 DEF NoChannel
      <4> QED BY <3>1, <3>2, <4>1, <2>7, <2>8, <2>9, <1>1 DEF QueueOf
    <3>3. CASE j # i
      BY <3>1, <3>3, <2>7, <2>9, <1>1 DEF QueueOf
    <3> QED BY <3>2, <3>3
  <2>16. LifeInv'
    <3> SUFFICES ASSUME NEW j \in Opening PROVE LifeOf(j)'
      BY DEF LifeInv
    <3>1. LifeOf(j)
      BY ChannelIs
    <3>2. CASE j = i
      <4>1. ~EndIsIn(held[i])
        BY <2>4 DEF EndIsIn
      <4>2. task[i] # "done"
        BY <1>4
      <4> QED BY <3>1, <3>2, <4>1, <4>2, <1>1, <2>3, <2>4, <2>7, <2>8, <2>9, <2>10 DEF LifeOf
    <3>3. CASE j # i
      BY <3>1, <3>3, <1>1, <2>3, <2>7, <2>9, <2>10 DEF LifeOf
    <3> QED BY <3>2, <3>3
  <2>17. HeldInv'
    <3> SUFFICES ASSUME NEW j \in Opening PROVE HeldOf(j)'
      BY <1>1 DEF HeldInv, ChannelsInv
    <3>1. HeldOf(j)
      BY ChannelIs
    <3>2. CASE j = i
      BY <3>2, <1>1, <2>4 DEF HeldOf, EndIsIn
    <3>3. CASE j # i
      BY <3>1, <3>3, <1>1, <2>7 DEF HeldOf
    <3> QED BY <3>2, <3>3
  <2>18. OwnedInv'
    <3> SUFFICES ASSUME NEW j \in owned PROVE OwnedOf(j)'
      BY <1>1 DEF OwnedInv
    <3>1. OwnedOf(j) /\ j \in Opening
      BY DEF ChannelsInv, OwnedInv, ClientTypes
    <3>2. j # i
      BY <3>1, <2>4 DEF OwnedOf, NoChannel
    <3> QED BY <3>1, <3>2, <1>1, <2>7, <2>9, <2>10 DEF OwnedOf
  <2>19. NoOrphan'
    <3>1. SUFFICES ASSUME NEW j \in Opening, j \notin raced', channels'[j].st = "open"
                 PROVE j \in owned' \/ task'[j] = "ok" \/ Closes(j)'
      BY <2>12 DEF NoOrphan, Present, WireTypes
    <3>2. CASE j = i
      BY <3>1, <3>2, <1>4, <2>3
    <3>3. CASE j # i
      <4>1. j \notin raced /\ channels[j].st = "open"
        BY <3>1, <3>3, <1>4, <2>7
      <4>2. j \in owned \/ task[j] = "ok" \/ Closes(j)
        BY <4>1 DEF ChannelsInv, NoOrphan, Present
      <4> QED BY <4>2, <3>3, <1>1, <2>3, <2>9
    <3> QED BY <3>2, <3>3
  <2> QED BY <1>1, <2>12, <2>13, <2>14, <2>15, <2>16, <2>17, <2>18, <2>19, LogKept, DataKept DEF ChannelsInv
<1> QED BY <1>2, <1>3, <1>4 DEF ChannelOpened

-----------------------------------------------------------------------------
\* The steps that the client hears.

\* No more channels and opens than before.
LEMMA StillFew ==
    ASSUME ChannelsInv, opens' \in Seq(OpenType), Len(opens') <= Len(opens), Present' \subseteq Present
    PROVE Len(opens') + Cardinality(Present') <= MaxChannels
<1>1. IsFiniteSet(Present) /\ Cardinality(Present) \in Nat
  BY FiniteParts
<1>2. Cardinality(Present') <= Cardinality(Present) /\ Cardinality(Present') \in Nat
  BY <1>1, FS_Subset, FS_CardinalityType
<1>3. Len(opens') \in Nat /\ Len(opens) \in Nat /\ Len(opens) + Cardinality(Present) <= MaxChannels
  BY DEF ChannelsInv, WireTypes, OpensInv
<1> QED BY <1>1, <1>2, <1>3, RfcommConstants

\* What is held of a channel with one message more.
LEMMA HeldAppends ==
    ASSUME ChannelsInv, NEW i \in Opening, NEW kind \in {"data", "closed"}, ~EndIsIn(held[i]),
           held' = [held EXCEPT ![i] = Append(@, Msg(i, kind))]
    PROVE /\ held' \in [Opening -> Seq(MsgType)] /\ \A j \in Opening : j # i => held'[j] = held[j]
          /\ \A k \in DOMAIN held'[i] :
                /\ held'[i][k].id = i
                /\ \/ held'[i][k].kind = "data"
                   \/ held'[i][k].kind = "closed" /\ k = Len(held'[i])
          /\ EndIsIn(held'[i]) <=> kind = "closed"
          /\ DataHeld' = DataHeld \cup (IF kind = "data" THEN {<<i, Len(held[i]) + 1>>} ELSE {})
          /\ <<i, Len(held[i]) + 1>> \notin DataHeld
<1> DEFINE h == held[i]
<1>1. held \in [Opening -> Seq(MsgType)] /\ h \in Seq(MsgType) /\ Msg(i, kind) \in MsgType
  BY DEF ChannelsInv, ClientTypes, Msg, MsgType
<1>2. \A k \in DOMAIN h : h[k].id = i /\ h[k].kind = "data"
  BY DEF ChannelsInv, HeldInv, HeldOf, EndIsIn
<1>3. held' \in [Opening -> Seq(MsgType)] /\ held'[i] = Append(h, Msg(i, kind)) /\ \A j \in Opening : j # i => held'[j] = held[j]
  BY <1>1
<1> HIDE DEF h
<1> DEFINE g == held'[i]
<1>4. /\ g \in Seq(MsgType) /\ Len(g) = Len(h) + 1 /\ Len(h) \in Nat
      /\ DOMAIN g = 1..(Len(h) + 1) /\ DOMAIN h = 1..Len(h)
      /\ g[Len(h) + 1] = Msg(i, kind) /\ \A k \in 1..Len(h) : g[k] = h[k]
      /\ \A k \in 1..(Len(h) + 1) : k \in 1..Len(h) \/ k = Len(h) + 1
  BY <1>1, <1>3
<1>5. Msg(i, kind).id = i /\ Msg(i, kind).kind = kind
  BY DEF Msg
<1> HIDE DEF g
<1>6. \A k \in DOMAIN g : /\ g[k].id = i
                          /\ g[k].kind = "data" \/ (g[k].kind = "closed" /\ k = Len(g))
  BY <1>2, <1>4, <1>5
<1>7. EndIsIn(g) <=> kind = "closed"
  BY <1>2, <1>4, <1>5 DEF EndIsIn
<1>8. DataIn(g) = DataIn(h) \cup (IF kind = "data" THEN {Len(h) + 1} ELSE {})
  BY <1>2, <1>4, <1>5 DEF DataIn
<1>9. \A j \in Opening : DataIn(held'[j]) = IF j = i THEN DataIn(h) \cup (IF kind = "data" THEN {Len(h) + 1} ELSE {})
                                                     ELSE DataIn(held[j])
  BY <1>3, <1>8 DEF g
<1>10. DataHeld' = DataHeld \cup (IF kind = "data" THEN {<<i, Len(h) + 1>>} ELSE {})
  <2>1. DataHeld' = UNION {{j} \X DataIn(held'[j]) : j \in Opening}
    BY DEF DataHeld, DataIn
  <2>2. ASSUME NEW p PROVE p \in DataHeld' <=> p \in DataHeld \cup (IF kind = "data" THEN {<<i, Len(h) + 1>>} ELSE {})
    <3>1. p \in DataHeld' <=> \E j \in Opening : \E k \in DataIn(held'[j]) : p = <<j, k>>
      BY <2>1
    <3>2. p \in DataHeld <=> \E j \in Opening : \E k \in DataIn(held[j]) : p = <<j, k>>
      BY DEF DataHeld
    <3> QED BY <3>1, <3>2, <1>9 DEF h
  <2> QED BY <2>2
<1>11. <<i, Len(h) + 1>> \notin DataHeld
  <2>1. Len(h) + 1 \notin DataIn(h)
    BY <1>4 DEF DataIn
  <2> QED BY <2>1, InHeld DEF h
<1> QED BY <1>3, <1>6, <1>7, <1>10, <1>11 DEF g, h

\* A channel that is open says something: data, or its end.
LEMMA HeardStep ==
    ASSUME ChannelsInv, NEW i \in Opening, channels[i].st = "open", ~ended, i \notin closed,
           NEW kind \in {"data", "closed"}, Put(i, kind),
           UNCHANGED <<jobs, opens, a2dp, running, task, ended, written, sends, raced>>,
           \/ /\ kind = "data" /\ pendingData < MaxPending /\ pendingData' = pendingData + 1
              /\ UNCHANGED <<closed, channels, air>>
           \/ /\ kind = "closed" /\ pendingData' = pendingData /\ closed' \in {closed, closed \cup {i}}
              /\ channels' = [channels EXCEPT ![i] = NoChannel] /\ air' = air \ {i}
    PROVE ChannelsInv'
<1>1. /\ channels \in [Opening -> ChannelType] /\ air \subseteq Present /\ owned \subseteq Opening /\ closed \subseteq Opening
      /\ held \in [Opening -> Seq(MsgType)] /\ log \in Seq(MsgType)
      /\ pendingData \in 0..MaxPending /\ MaxPending \in Nat
  BY RfcommConstants DEF ChannelsInv, WireTypes, ClientTypes
<1>2. NoChannel \in ChannelType /\ NoChannel.st = "none" /\ NoChannel.queue = 0
  BY DEF NoChannel, ChannelType
<1>3. /\ channels' \in [Opening -> ChannelType]
      /\ \A j \in Opening : j # i => channels'[j] = channels[j]
      /\ kind = "data" => channels'[i] = channels[i] /\ closed' = closed
      /\ kind = "closed" => channels'[i] = NoChannel
      /\ closed' \subseteq Opening /\ \A j \in Opening : j # i => (j \in closed' <=> j \in closed)
  BY <1>1, <1>2
<1>4. Present' \subseteq Present /\ air' \subseteq Present'
  BY <1>1, <1>2, <1>3 DEF Present
<1>5. \A j \in Opening : (Closes(j)' <=> Closes(j)) /\ Cardinality(SendsOf(j))' = Cardinality(SendsOf(j))
  BY JobsKept
<1>6. QueueInv'
  <2> SUFFICES ASSUME NEW j \in Opening PROVE QueueOf(j)'
    BY DEF QueueInv
  <2>1. QueueOf(j) /\ Cardinality(SendsOf(j)) \in Nat /\ sends \in Nat /\ channels[j].queue \in Nat
    BY ChannelIs DEF ChannelType
  <2>2. channels'[j] = channels[j] \/ channels'[j] = NoChannel
    BY <1>3
  <2> QED BY <2>1, <2>2, <1>2, <1>5 DEF QueueOf
<1>7. OpensInv'
  <2>1. opens \in Seq(OpenType) /\ Len(opens) \in Nat
    BY DEF ChannelsInv, WireTypes
  <2>2. ~running => \A j \in Opening : channels'[j].st = "none"
    BY DEF ChannelsInv, OpensInv
  <2> QED BY <1>4, <2>1, <2>2, StillFew DEF ChannelsInv, OpensInv
<1>8. pendingData' \in 0..MaxPending
  BY <1>1
<1>9. LifeOf(i) /\ HeldOf(i) /\ ~EndIsIn(held[i])
  BY ChannelIs DEF HeldOf
<1>10. pendingData = Cardinality(Unread) + Cardinality(DataHeld)
  BY DEF ChannelsInv, PendingIsCounted
<1>11. CASE i \in owned
  <2>1. /\ log' = Append(log, Msg(i, kind)) /\ held' = held
        /\ owned' = IF kind = "closed" THEN owned \ {i} ELSE owned
    BY <1>11 DEF Put
  <2>2. task[i] = "done" /\ OwnedOf(i)
    BY <1>9, <1>11 DEF LifeOf, ChannelsInv, OwnedInv
  <2>3. /\ log' \in Seq(MsgType) /\ written \in 0..Len(log') /\ ToldInOrder'
        /\ \A j, K : Told(j, K)' <=> (Told(j, K) \/ (j = i /\ kind \in K))
        /\ {k \in DataIn(log') : k > written} = Unread \cup (IF kind = "data" THEN {Len(log) + 1} ELSE {})
        /\ Len(log) + 1 \notin Unread
    BY <2>1, <2>2, LogAppends DEF OwnedOf
  <2>4. WireTypes' /\ ClientTypes'
    BY <1>1, <1>3, <1>4, <1>8, <2>1, <2>3 DEF ChannelsInv, WireTypes, ClientTypes
  <2>5. LifeInv'
    <3> SUFFICES ASSUME NEW j \in Opening PROVE LifeOf(j)'
      BY DEF LifeInv
    <3>1. LifeOf(j)
      BY ChannelIs
    <3>2. CASE j = i
      BY <3>2, <2>2 DEF LifeOf
    <3>3. CASE j # i
      BY <3>1, <3>3, <1>3, <1>5, <2>1, <2>3 DEF LifeOf
    <3> QED BY <3>2, <3>3
  <2>6. HeldInv'
    <3> SUFFICES ASSUME NEW j \in Opening PROVE HeldOf(j)'
      BY DEF HeldInv
    <3>1. HeldOf(j)
      BY ChannelIs
    <3> QED BY <3>1, <1>3, <1>9, <2>1 DEF HeldOf
  <2>7. OwnedInv'
    <3> SUFFICES ASSUME NEW j \in owned' PROVE OwnedOf(j)'
      BY DEF OwnedInv
    <3>1. OwnedOf(j) /\ j \in Opening /\ (j = i => kind = "data")
      BY <1>1, <2>1 DEF ChannelsInv, OwnedInv
    <3> QED BY <3>1, <1>3, <1>5, <2>3 DEF OwnedOf
  <2>8. NoOrphan'
    BY <1>2, <1>3, <1>4, <1>5, <2>1 DEF ChannelsInv, NoOrphan, Present
  <2>9. PendingIsCounted'
    <3>1. Unread' = Unread \cup (IF kind = "data" THEN {Len(log) + 1} ELSE {})
      BY <2>3 DEF Unread, DataIn
    <3>2. DataHeld' = DataHeld
      BY <2>1 DEF DataHeld, DataIn
    <3>3. Cardinality(Unread') = IF kind = "data" THEN Cardinality(Unread) + 1 ELSE Cardinality(Unread)
      BY <3>1, <2>3, DataFinite, FS_AddElement
    <3> QED BY <3>2, <3>3, <1>10, DataFinite DEF PendingIsCounted
  <2> QED BY <1>6, <1>7, <2>3, <2>4, <2>5, <2>6, <2>7, <2>8, <2>9 DEF ChannelsInv
<1>12. CASE i \notin owned
  <2>1. held' = [held EXCEPT ![i] = Append(@, Msg(i, kind))] /\ owned' = owned /\ log' = log
    BY <1>12 DEF Put
  <2>2. /\ held' \in [Opening -> Seq(MsgType)] /\ \A j \in Opening : j # i => held'[j] = held[j]
        /\ \A k \in DOMAIN held'[i] :
              /\ held'[i][k].id = i
              /\ \/ held'[i][k].kind = "data"
                 \/ held'[i][k].kind = "closed" /\ k = Len(held'[i])
        /\ EndIsIn(held'[i]) <=> kind = "closed"
        /\ DataHeld' = DataHeld \cup (IF kind = "data" THEN {<<i, Len(held[i]) + 1>>} ELSE {})
        /\ <<i, Len(held[i]) + 1>> \notin DataHeld
    BY <1>9, <2>1, HeldAppends
  <2>3. \A j, K : Told(j, K)' <=> Told(j, K)
    BY <2>1, LogKept
  <2>4. WireTypes' /\ ClientTypes'
    BY <1>1, <1>3, <1>4, <1>8, <2>1, <2>2 DEF ChannelsInv, WireTypes, ClientTypes
  <2>5. LifeInv'
    <3> SUFFICES ASSUME NEW j \in Opening PROVE LifeOf(j)'
      BY DEF LifeInv
    <3>1. LifeOf(j)
      BY ChannelIs
    <3>2. CASE j = i
      BY <3>1, <3>2, <1>2, <1>3, <1>5, <2>1, <2>2, <2>3 DEF LifeOf
    <3>3. CASE j # i
      BY <3>1, <3>3, <1>3, <1>5, <2>1, <2>2, <2>3 DEF LifeOf
    <3> QED BY <3>2, <3>3
  <2>6. HeldInv'
    <3> SUFFICES ASSUME NEW j \in Opening PROVE HeldOf(j)'
      BY DEF HeldInv
    <3>1. HeldOf(j)
      BY ChannelIs
    <3>2. CASE j = i
      BY <3>2, <1>2, <1>3, <2>2 DEF HeldOf
    <3>3. CASE j # i
      BY <3>1, <3>3, <1>3, <2>2 DEF HeldOf
    <3> QED BY <3>2, <3>3
  <2>7. OwnedInv'
    <3> SUFFICES ASSUME NEW j \in owned' PROVE OwnedOf(j)'
      BY DEF OwnedInv
    <3>1. OwnedOf(j) /\ j \in Opening /\ j # i
      BY <1>1, <1>12, <2>1 DEF ChannelsInv, OwnedInv
    <3> QED BY <3>1, <1>3, <1>5, <2>3 DEF OwnedOf
  <2>8. NoOrphan'
    BY <1>2, <1>3, <1>4, <1>5, <2>1 DEF ChannelsInv, NoOrphan, Present
  <2>9. PendingIsCounted'
    <3>1. Unread' = Unread
      BY <2>1 DEF Unread, DataIn
    <3>2. Cardinality(DataHeld') = IF kind = "data" THEN Cardinality(DataHeld) + 1 ELSE Cardinality(DataHeld)
      BY <2>2, DataFinite, FS_AddElement
    <3> QED BY <3>1, <3>2, <1>10, DataFinite DEF PendingIsCounted
  <2> QED BY <1>6, <1>7, <2>1, <2>4, <2>5, <2>6, <2>7, <2>8, <2>9, LogKept DEF ChannelsInv
<1> QED BY <1>11, <1>12

\* A piece comes in: dropped, told or held, or one too many, which closes the
\* channel.
LEMMA DataStep == ASSUME ChannelsInv, Data PROVE ChannelsInv'
<1>1. UNCHANGED <<jobs, opens, a2dp, running, task, written, sends, raced>>
  BY DEF Data
<1>2. PICK i \in Present \cap air :
          \/ UNCHANGED <<inner, log, channels, air>>
          \/ /\ channels[i].st = "open" /\ ~ended /\ i \notin closed
             /\ pendingData < MaxPending /\ pendingData' = pendingData + 1
             /\ Put(i, "data") /\ UNCHANGED <<closed, ended, channels, air>>
          \/ /\ channels[i].st = "open" /\ ~ended /\ i \notin closed
             /\ closed' = closed \cup {i} /\ Put(i, "closed")
             /\ channels' = [channels EXCEPT ![i] = NoChannel] /\ air' = air \ {i}
             /\ UNCHANGED <<ended, pendingData>>
  BY DEF Data
<1>3. i \in Opening
  BY DEF Present
<1>4. CASE UNCHANGED <<inner, log, channels, air>>
  <2>1. UNCHANGED <<owned, closed, held, ended, pendingData, log, channels, air>>
    BY <1>4 DEF inner
  <2>2. /\ opens \in Seq(OpenType) /\ Len(opens) \in Nat
        /\ \A k \in DOMAIN opens : opens[k].stage = "waiting" <=> k > 1
    BY DEF ChannelsInv, WireTypes, OpensInv
  <2>3. /\ opens' \in Seq(OpenType) /\ Len(opens') <= Len(opens)
        /\ \A k \in DOMAIN opens' : opens'[k].stage = "waiting" <=> k > 1
    BY <1>1, <2>2
  <2> QED BY <1>1, <1>4, <2>3, NoErrs, OpensGoOn
<1> QED BY <1>1, <1>2, <1>3, <1>4, HeardStep

\* The A2DP connection is back.
LEMMA A2dpStartsStep == ASSUME ChannelsInv, A2dpStarts PROVE ChannelsInv'
<1>1. /\ a2dp' \in BOOLEAN
      /\ UNCHANGED <<jobs, opens, channels, air, running, task, owned, closed, held, ended, pendingData, log, written, sends, raced>>
  BY DEF A2dpStarts, client, inner
<1>2. \A i \in Opening : (Closes(i)' <=> Closes(i)) /\ Cardinality(SendsOf(i))' = Cardinality(SendsOf(i))
  BY <1>1, JobsKept
<1>3. /\ jobs \in Seq(JobType) /\ opens \in Seq(OpenType) /\ channels \in [Opening -> ChannelType] /\ air \subseteq Present
      /\ \A k \in DOMAIN opens : opens[k].stage = "waiting" <=> k > 1
      /\ Len(opens) + Cardinality(Present) <= MaxChannels
  BY DEF ChannelsInv, WireTypes, OpensInv
<1>4. QueueInv'
  BY <1>1, <1>2 DEF ChannelsInv, QueueInv, QueueOf
<1>5. air' \subseteq Present'
  BY <1>1, <1>3, ChannelsKept
<1> QED BY <1>1, <1>2, <1>3, <1>4, <1>5, NoErrs, StackStepIs

\* A channel goes with the device: its client is told, if it did not close it.
LEMMA RemoteClosesStep == ASSUME ChannelsInv, RemoteCloses PROVE ChannelsInv'
<1>1. UNCHANGED <<jobs, opens, a2dp, running, task, written, sends, got, raced>>
  BY DEF RemoteCloses
<1>2. PICK i \in Present \cap air :
          /\ air' = air \ {i} /\ channels' = [channels EXCEPT ![i] = NoChannel]
          /\ IF channels[i].st = "closing" \/ ended \/ i \in closed
             THEN UNCHANGED <<inner, log>>
             ELSE Put(i, "closed") /\ UNCHANGED <<closed, ended, pendingData>>
  BY DEF RemoteCloses
<1>3. i \in Opening /\ channels[i].st # "none" /\ channels[i] \in ChannelType
  BY ChannelIs DEF Present
<1>4. CASE channels[i].st = "closing" \/ ended \/ i \in closed
  <2>1. UNCHANGED <<owned, closed, held, ended, pendingData, log>>
    BY <1>2, <1>4 DEF inner
  <2>2. NoChannel \in ChannelType /\ NoChannel.st = "none" /\ NoChannel.queue = 0
    BY DEF NoChannel, ChannelType
  <2>3. /\ jobs \in Seq(JobType) /\ opens \in Seq(OpenType) /\ channels \in [Opening -> ChannelType] /\ air \subseteq Present
        /\ \A k \in DOMAIN opens : opens[k].stage = "waiting" <=> k > 1
        /\ Len(opens) + Cardinality(Present) <= MaxChannels /\ a2dp \in BOOLEAN
    BY DEF ChannelsInv, WireTypes, OpensInv
  <2>4. /\ channels' \in [Opening -> ChannelType] /\ channels'[i] = NoChannel
        /\ \A j \in Opening : j # i => channels'[j] = channels[j]
    BY <1>2, <1>3, <2>2, <2>3
  <2>5. air' \subseteq Present'
    BY <1>2, <2>3, <2>4 DEF Present
  <2>6. \A j \in Opening : (Closes(j)' <=> Closes(j)) /\ Cardinality(SendsOf(j))' = Cardinality(SendsOf(j))
    BY <1>1, JobsKept
  <2>7. i \notin owned /\ (channels[i].st = "closing" => task[i] = "done")
    <3>1. channels[i].st = "closing" => task[i] = "done" /\ i \notin owned
      BY <1>3, ChannelIs
    <3>2. (ended => owned = {}) /\ (i \in owned => i \notin closed)
      BY DEF ChannelsInv, HeldInv, OwnedInv, OwnedOf
    <3> QED BY <3>1, <3>2, <1>4
  <2>8. Loose(i)
    BY <1>3, <1>4, <2>2, <2>4, <2>7 DEF Loose
  <2>9. QueueInv'
    <3> SUFFICES ASSUME NEW j \in Opening PROVE QueueOf(j)'
      BY DEF QueueInv
    <3>1. QueueOf(j) /\ Cardinality(SendsOf(j)) \in Nat /\ sends \in Nat /\ channels[j].queue \in Nat
      BY ChannelIs DEF ChannelType
    <3>2. channels'[j] = channels[j] \/ channels'[j] = NoChannel
      BY <2>4
    <3> QED BY <3>1, <3>2, <1>1, <2>2, <2>6 DEF QueueOf
  <2>10. \A j \in Opening : channels'[j].st = channels[j].st \/ Loose(j)
    BY <2>4, <2>8
  <2> QED BY <1>1, <2>1, <2>3, <2>4, <2>5, <2>6, <2>9, <2>10, NoErrs, StackStepIs
<1>5. CASE ~(channels[i].st = "closing" \/ ended \/ i \in closed)
  <2>1. channels[i].st = "open" /\ ~ended /\ i \notin closed
    BY <1>3, <1>5 DEF ChannelType
  <2> QED BY <1>1, <1>2, <1>3, <1>5, <2>1, HeardStep
<1> QED BY <1>4, <1>5

\* The end of a channel held behind its data.
LEMMA EndAppends ==
    ASSUME NEW i \in Opening, NEW h \in Seq(MsgType), NEW g, g = Append(h, Msg(i, "closed")),
           \A k \in DOMAIN h : h[k].id = i /\ h[k].kind = "data"
    PROVE /\ g \in Seq(MsgType) /\ EndIsIn(g) /\ DataIn(g) = DataIn(h)
          /\ \A k \in DOMAIN g : g[k].id = i /\ (g[k].kind = "data" \/ (g[k].kind = "closed" /\ k = Len(g)))
<1>1. Msg(i, "closed") \in MsgType /\ Msg(i, "closed").id = i /\ Msg(i, "closed").kind = "closed"
  BY DEF Msg, MsgType
<1>2. /\ g \in Seq(MsgType) /\ Len(g) = Len(h) + 1 /\ Len(h) \in Nat
      /\ DOMAIN g = 1..(Len(h) + 1) /\ DOMAIN h = 1..Len(h)
      /\ g[Len(h) + 1] = Msg(i, "closed") /\ \A k \in 1..Len(h) : g[k] = h[k]
      /\ \A k \in 1..(Len(h) + 1) : k \in 1..Len(h) \/ k = Len(h) + 1
  BY <1>1
<1>3. EndIsIn(g)
  <2>1. Len(h) + 1 \in DOMAIN g
    BY <1>2
  <2> QED BY <2>1, <1>1, <1>2 DEF EndIsIn
<1>4. DataIn(g) = DataIn(h)
  BY <1>1, <1>2 DEF DataIn
<1> QED BY <1>1, <1>2, <1>3, <1>4

\* Every channel of the connection is told of its end, in the order they were
\* opened; what is held gets its end behind it.
LEMMA TellAllIs ==
    ASSUME ChannelsInv, TellAll, written' = written
    PROVE /\ owned' = {} /\ closed' = closed /\ ended' = ended /\ pendingData' = pendingData
          /\ log' \in Seq(MsgType) /\ written \in 0..Len(log') /\ ToldInOrder'
          /\ \A j, K : Told(j, K)' <=> (Told(j, K) \/ (j \in owned /\ "closed" \in K))
          /\ held' \in [Opening -> Seq(MsgType)]
          /\ \A j \in Opening :
                /\ held'[j] = held[j] \/ (channels[j].st = "open" /\ EndIsIn(held'[j]))
                /\ ~ended /\ channels[j].st = "open" /\ j \notin closed /\ j \notin owned => EndIsIn(held'[j])
                /\ ended => held'[j] = held[j]
                /\ \A k \in DOMAIN held'[j] :
                      /\ held'[j][k].id = j
                      /\ held'[j][k].kind = "data" \/ (held'[j][k].kind = "closed" /\ k = Len(held'[j]))
          /\ PendingIsCounted'
<1>1. /\ held \in [Opening -> Seq(MsgType)] /\ owned \subseteq Opening /\ log \in Seq(MsgType)
      /\ written \in 0..Len(log) /\ Len(log) \in Nat
  BY DEF ChannelsInv, ClientTypes
<1>2. \A j \in Opening : HeldOf(j)
  BY DEF ChannelsInv, HeldInv
<1>3. \A j \in owned : OwnedOf(j)
  BY DEF ChannelsInv, OwnedInv
<1>4. CASE ended
  <2>1. UNCHANGED <<owned, closed, held, ended, pendingData, log>>
    BY <1>4 DEF TellAll, inner
  <2>2. owned = {} /\ \A j \in Opening : held[j] = <<>>
    BY <1>4 DEF ChannelsInv, HeldInv
  <2>3. PendingIsCounted'
    BY <2>1, DataKept
  <2>4. (\A i, K : Told(i, K)' <=> Told(i, K)) /\ ToldInOrder'
    BY <2>1, LogKept
  <2>5. \A j \in Opening : \A k \in DOMAIN held[j] :
           held[j][k].id = j /\ (held[j][k].kind = "data" \/ (held[j][k].kind = "closed" /\ k = Len(held[j])))
    BY <1>2 DEF HeldOf
  <2>6. \A j \in Opening : \A k \in DOMAIN held'[j] :
           held'[j][k].id = j /\ (held'[j][k].kind = "data" \/ (held'[j][k].kind = "closed" /\ k = Len(held'[j])))
    BY <2>1, <2>5
  <2> QED BY <1>1, <1>4, <2>1, <2>2, <2>3, <2>4, <2>6
<1>5. CASE ~ended
  <2> DEFINE told == {i \in Present : channels[i].st = "open"} \ closed
  <2>1. told \cap owned = owned
    BY <1>1, <1>3 DEF OwnedOf, Present
  <2>2. PICK ids \in Drained(owned) :
           /\ \A a, b \in DOMAIN ids : a < b => ids[a] < ids[b]
           /\ log' = log \o [k \in 1..Cardinality(owned) |-> Msg(ids[k], "closed")]
    BY <1>5, <2>1 DEF TellAll
  <2>3. /\ owned' = owned \ owned
        /\ held' = [i \in Opening |-> IF i \in told \ owned THEN Append(held[i], Msg(i, "closed")) ELSE held[i]]
        /\ UNCHANGED <<closed, ended, pendingData>>
    BY <1>5, <2>1 DEF TellAll
  <2> DEFINE n == Cardinality(owned)
  <2> DEFINE t == [k \in 1..n |-> Msg(ids[k], "closed")]
  <2>4. n \in Nat
    BY FiniteParts, FS_CardinalityType
  <2>5. ids \in [1..n -> owned] /\ \A x \in owned : \E k \in 1..n : ids[k] = x
    BY DEF Drained
  <2>6. \A i \in owned : Msg(i, "closed") \in MsgType /\ Msg(i, "closed").id = i /\ Msg(i, "closed").kind = "closed"
    BY <1>1 DEF Msg, MsgType
  <2> HIDE DEF n
  <2>7. /\ t \in Seq(MsgType) /\ Len(t) = n /\ DOMAIN t = 1..n
        /\ \A k \in 1..n : t[k] = Msg(ids[k], "closed") /\ t[k].id = ids[k] /\ t[k].kind = "closed" /\ ids[k] \in owned
    BY <2>4, <2>5, <2>6
  <2>8. log' = log \o t
    BY <2>2 DEF n
  <2> HIDE DEF t
  <2>9. InTurnAfter(t)
    <3> SUFFICES ASSUME NEW k \in 1..n
                 PROVE /\ Told(ids[k], {"opened"}) /\ ~Told(ids[k], {"closed", "close"})
                       /\ \A j \in 1..(k - 1) : t[j] \notin {Msg(ids[k], "closed"), Msg(ids[k], "close")}
      BY <2>7 DEF InTurnAfter
    <3>1. Told(ids[k], {"opened"}) /\ ~Told(ids[k], {"closed", "close"})
      BY <2>7, <1>3 DEF OwnedOf
    <3>2. ASSUME NEW j \in 1..(k - 1) PROVE t[j] \notin {Msg(ids[k], "closed"), Msg(ids[k], "close")}
      <4>1. j \in 1..n /\ j < k
        BY <2>4
      <4>2. ids[j] < ids[k] /\ ids[j] \in Nat /\ ids[k] \in Nat
        BY <4>1, <2>2, <2>5, <1>1, RfcommConstants
      <4>3. t[j].id # ids[k]
        BY <4>1, <4>2, <2>7
      <4> QED BY <4>3 DEF Msg
    <3> QED BY <3>1, <3>2
  <2>10. /\ log' \in Seq(MsgType) /\ Len(log') = Len(log) + Len(t) /\ written \in 0..Len(log')
         /\ \A k \in 1..Len(log) : log'[k] = log[k]
         /\ \A k \in 1..Len(t) : log'[Len(log) + k] = t[k]
         /\ \A i, K : Told(i, K)' <=> (Told(i, K) \/ \E k \in DOMAIN t : t[k].id = i /\ t[k].kind \in K)
         /\ ToldInOrder'
    BY <2>7, <2>8, <2>9, LogExtends
  <2>11. \A j, K : Told(j, K)' <=> (Told(j, K) \/ (j \in owned /\ "closed" \in K))
    <3>1. ASSUME NEW j, NEW K
          PROVE (\E k \in DOMAIN t : t[k].id = j /\ t[k].kind \in K) <=> (j \in owned /\ "closed" \in K)
      <4>1. ASSUME NEW k \in DOMAIN t, t[k].id = j /\ t[k].kind \in K PROVE j \in owned /\ "closed" \in K
        BY <4>1, <2>7
      <4>2. ASSUME j \in owned, "closed" \in K PROVE \E k \in DOMAIN t : t[k].id = j /\ t[k].kind \in K
        <5>1. PICK k \in 1..n : ids[k] = j
          BY <4>2, <2>5
        <5> QED BY <5>1, <4>2, <2>7
      <4> QED BY <4>1, <4>2
    <3> QED BY <3>1, <2>10
  <2>12. Unread' = Unread
    <3>1. ASSUME NEW k \in 1..(Len(log) + n), k \notin 1..Len(log) PROVE log'[k].kind = "closed"
      <4>1. k - Len(log) \in 1..n /\ Len(log) + (k - Len(log)) = k
        BY <1>1, <2>4, <3>1
      <4> QED BY <4>1, <2>7, <2>10
    <3>2. DOMAIN log' = 1..(Len(log) + n) /\ DOMAIN log = 1..Len(log) /\ \A k \in 1..Len(log) : k \in 1..(Len(log) + n)
      BY <1>1, <2>4, <2>7, <2>10
    <3>3. \A k : k \in DataIn(log') <=> k \in DataIn(log)
      BY <3>1, <3>2, <2>10 DEF DataIn
    <3> QED BY <3>3 DEF Unread, DataIn
  <2>13. ASSUME NEW j \in told \ owned
         PROVE /\ j \in Opening /\ channels[j].st = "open" /\ held'[j] = Append(held[j], Msg(j, "closed"))
               /\ held[j] \in Seq(MsgType) /\ \A k \in DOMAIN held[j] : held[j][k].id = j /\ held[j][k].kind = "data"
    <3>1. j \in Opening /\ channels[j].st = "open"
      BY DEF Present
    <3>2. ~EndIsIn(held[j])
      BY <3>1, <1>2 DEF HeldOf
    <3> QED BY <3>1, <3>2, <1>1, <1>2, <2>3 DEF HeldOf, EndIsIn
  <2>14. ASSUME NEW j \in told \ owned
         PROVE /\ held'[j] \in Seq(MsgType) /\ EndIsIn(held'[j]) /\ DataIn(held'[j]) = DataIn(held[j])
               /\ \A k \in DOMAIN held'[j] :
                     held'[j][k].id = j /\ (held'[j][k].kind = "data" \/ (held'[j][k].kind = "closed" /\ k = Len(held'[j])))
    <3> HIDE DEF told
    <3> QED BY <2>13, EndAppends
  <2>15. \A j \in Opening : j \in told \/ channels[j].st # "open" \/ j \in closed
    BY DEF Present
  <2>16. \A j \in Opening : j \in told \ owned \/ held'[j] = held[j]
    BY <2>3
  <2> HIDE DEF told
  <2>17. held' \in [Opening -> Seq(MsgType)]
    <3>1. DOMAIN held' = Opening /\ held' = [j \in Opening |-> held'[j]]
      BY <2>3
    <3>2. \A j \in Opening : held'[j] \in Seq(MsgType)
      BY <1>1, <2>14, <2>16
    <3> QED BY <3>1, <3>2
  <2>18. DataHeld' = DataHeld
    <3>1. \A j \in Opening : DataIn(held'[j]) = DataIn(held[j])
      BY <2>14, <2>16
    <3>2. DataHeld' = UNION {{j} \X DataIn(held'[j]) : j \in Opening}
      BY DEF DataHeld, DataIn
    <3>3. DataHeld = UNION {{j} \X DataIn(held[j]) : j \in Opening}
      BY DEF DataHeld
    <3> QED BY <3>1, <3>2, <3>3
  <2>19. PendingIsCounted'
    BY <2>3, <2>12, <2>18 DEF ChannelsInv, PendingIsCounted
  <2>20. ASSUME NEW j \in Opening
         PROVE /\ held'[j] = held[j] \/ (channels[j].st = "open" /\ EndIsIn(held'[j]))
               /\ channels[j].st = "open" /\ j \notin closed /\ j \notin owned => EndIsIn(held'[j])
               /\ \A k \in DOMAIN held'[j] :
                     /\ held'[j][k].id = j
                     /\ held'[j][k].kind = "data" \/ (held'[j][k].kind = "closed" /\ k = Len(held'[j]))
    <3>1. CASE j \in told \ owned
      BY <3>1, <2>13, <2>14
    <3>2. CASE j \notin told \ owned
      BY <3>2, <1>2, <2>15, <2>16 DEF HeldOf
    <3> QED BY <3>1, <3>2
  <2> QED BY <1>5, <2>3, <2>10, <2>11, <2>17, <2>19, <2>20
<1> QED BY <1>4, <1>5

\* Every channel ends at once, with the A2DP connection or with the stack.
LEMMA AllEnd ==
    ASSUME ChannelsInv, TellAll, channels' = [i \in Opening |-> NoChannel], air' = {}, OnlyErrs,
           a2dp' \in BOOLEAN, running' \in BOOLEAN,
           opens' \in Seq(OpenType), Len(opens') <= Len(opens),
           \A k \in DOMAIN opens' : opens'[k].stage = "waiting" <=> k > 1,
           jobs' \in {jobs, <<>>}, UNCHANGED <<written, sends, raced>>
    PROVE ChannelsInv'
<1>1. task' \in [Opening -> Answers] /\ \A i \in Opening : task'[i] = task[i] \/ (task[i] = "wait" /\ task'[i] = "err")
  BY DEF OnlyErrs
<1>2. NoChannel \in ChannelType /\ NoChannel.st = "none" /\ NoChannel.queue = 0
  BY DEF NoChannel, ChannelType
<1>3. channels' \in [Opening -> ChannelType] /\ \A i \in Opening : channels'[i] = NoChannel
  BY <1>2
<1>4. Present' = {}
  BY <1>2, <1>3 DEF Present
<1>5. /\ owned' = {} /\ closed' = closed /\ ended' = ended /\ pendingData' = pendingData
      /\ log' \in Seq(MsgType) /\ written \in 0..Len(log') /\ ToldInOrder'
      /\ \A j, K : Told(j, K)' <=> (Told(j, K) \/ (j \in owned /\ "closed" \in K))
      /\ held' \in [Opening -> Seq(MsgType)]
      /\ \A j \in Opening :
            /\ held'[j] = held[j] \/ (channels[j].st = "open" /\ EndIsIn(held'[j]))
            /\ ~ended /\ channels[j].st = "open" /\ j \notin closed /\ j \notin owned => EndIsIn(held'[j])
            /\ ended => held'[j] = held[j]
            /\ \A k \in DOMAIN held'[j] :
                  /\ held'[j][k].id = j
                  /\ held'[j][k].kind = "data" \/ (held'[j][k].kind = "closed" /\ k = Len(held'[j]))
      /\ PendingIsCounted'
  BY TellAllIs
<1>6. /\ jobs' \in Seq(JobType)
      /\ \A i \in Opening : (Closes(i)' => Closes(i)) /\ Cardinality(SendsOf(i))' \in {0, Cardinality(SendsOf(i))}
  <2>1. CASE jobs' = jobs
    BY <2>1, JobsKept DEF ChannelsInv, WireTypes
  <2>2. CASE jobs' = <<>>
    <3>1. jobs' \in Seq(JobType) /\ \A i \in Opening : ~Closes(i)' /\ SendsOf(i)' = {}
      BY <2>2 DEF Closes, SendsOf
    <3>2. Cardinality({}) = 0
      BY FS_EmptySet
    <3>3. \A i \in Opening : Cardinality(SendsOf(i))' = 0
      BY <3>1, <3>2
    <3> QED BY <3>1, <3>3
  <2> QED BY <2>1, <2>2
<1>7. WireTypes' /\ ClientTypes'
  BY <1>1, <1>3, <1>5, <1>6 DEF ChannelsInv, WireTypes, ClientTypes
<1>8. OpensInv'
  <2>1. Len(opens') + Cardinality(Present') <= MaxChannels
    BY <1>4, StillFew
  <2> QED BY <2>1, <1>2, <1>3 DEF OpensInv
<1>9. QueueInv'
  <2> SUFFICES ASSUME NEW i \in Opening PROVE QueueOf(i)'
    BY DEF QueueInv
  <2>1. QueueOf(i) /\ Cardinality(SendsOf(i)) \in Nat /\ sends \in Nat /\ channels[i].queue \in Nat
    BY ChannelIs DEF ChannelType
  <2>2. Cardinality(SendsOf(i))' \in Nat /\ NoChannel.queue + Cardinality(SendsOf(i))' <= sends
    BY <2>1, <1>2, <1>6 DEF QueueOf
  <2> QED BY <2>2, <1>2, <1>3, <1>6 DEF QueueOf
<1>10. LifeInv'
  <2> SUFFICES ASSUME NEW i \in Opening PROVE LifeOf(i)'
    BY DEF LifeInv
  <2>1. LifeOf(i)
    BY ChannelIs
  <2>2. HeldOf(i) 
    BY ChannelIs
  <2>3. task'[i] \in {"none", "wait", "timed"} => held'[i] = <<>> /\ i \notin closed
    BY <2>1, <1>1, <1>5 DEF LifeOf
  <2>4. task'[i] # "done" => /\ ~Closes(i)' /\ ~Told(i, {"opened", "data", "closed", "close"})'
    BY <2>1, <1>1, <1>5, <1>6 DEF LifeOf
  <2>5. task'[i] = "ok" /\ ~ended' => EndIsIn(held'[i])
    <3>1. SUFFICES ASSUME task[i] = "ok", ~ended PROVE EndIsIn(held'[i])
      BY <1>1, <1>5
    <3>2. i \notin owned /\ (EndIsIn(held[i]) \/ (channels[i].st = "open" /\ i \notin closed))
      BY <2>1, <3>1 DEF LifeOf
    <3> QED BY <3>1, <3>2, <1>5
  <2> QED BY <2>3, <2>4, <2>5, <1>2, <1>3, <1>5 DEF LifeOf
<1>11. HeldInv'
  <2>1. ended' => \A i \in Opening : held'[i] = <<>>
    BY <1>5 DEF ChannelsInv, HeldInv
  <2>2. \A i \in Opening : HeldOf(i)'
    BY <1>2, <1>3, <1>5 DEF HeldOf
  <2> QED BY <2>1, <2>2, <1>5 DEF HeldInv
<1>12. OwnedInv' /\ NoOrphan'
  BY <1>4, <1>5 DEF OwnedInv, NoOrphan
<1> QED BY <1>5, <1>7, <1>8, <1>9, <1>10, <1>11, <1>12 DEF ChannelsInv

\* close_device ends every channel and every open with the A2DP connection.
LEMMA A2dpEndsStep == ASSUME ChannelsInv, A2dpEnds PROVE ChannelsInv'
<1> DEFINE rest == IF opens = <<>> THEN <<>> ELSE <<[opens[1] EXCEPT !.reply = FALSE]>>
<1>1. /\ TellAll /\ channels' = [i \in Opening |-> NoChannel] /\ air' = {}
      /\ Go(rest, IdsOf(opens))
      /\ a2dp' \in BOOLEAN /\ UNCHANGED <<jobs, running, written, sends, raced>>
  BY DEF A2dpEnds
<1>2. running' \in BOOLEAN /\ opens \in Seq(OpenType) /\ Len(opens) \in Nat
  BY <1>1 DEF ChannelsInv, WireTypes
<1>3. rest \in Seq(OpenType) /\ Len(rest) <= Len(opens) /\ Len(rest) \in {0, 1}
  <2>1. CASE opens = <<>>
    BY <2>1
  <2>2. CASE opens # <<>>
    <3>1. opens[1] \in OpenType /\ Len(opens) >= 1
      BY <1>2, <2>2
    <3>2. [opens[1] EXCEPT !.reply = FALSE] \in OpenType
      BY <3>1 DEF OpenType
    <3> QED BY <3>1, <3>2, <2>2
  <2> QED BY <2>1, <2>2
<1> HIDE DEF rest
<1>4. \A k \in DOMAIN rest : k > 1 => rest[k].stage = "waiting"
  BY <1>3
<1>5. /\ opens' \in Seq(OpenType) /\ Len(opens') <= Len(rest) /\ OnlyErrs
      /\ \A k \in DOMAIN opens' : opens'[k].stage = "waiting" <=> k > 1
  BY <1>1, <1>3, <1>4, GoIs
<1>6. Len(opens') <= Len(opens)
  <2>1. Len(opens') \in Nat
    BY <1>5
  <2> QED BY <2>1, <1>2, <1>3, <1>5
<1> QED BY <1>1, <1>2, <1>5, <1>6, AllEnd

\* The stack stops: nothing is left of channels, opens and jobs.
LEMMA StackStopsStep == ASSUME ChannelsInv, StackStops PROVE ChannelsInv'
<1>1. /\ TellAll /\ channels' = [i \in Opening |-> NoChannel] /\ air' = {}
      /\ opens' = <<>> /\ jobs' = <<>> /\ task' = Answered(Opening, "err")
      /\ running' \in BOOLEAN /\ UNCHANGED <<a2dp, written, sends, raced>>
  BY DEF StackStops
<1>2. a2dp' \in BOOLEAN /\ opens \in Seq(OpenType) /\ Len(opens) \in Nat
  BY <1>1 DEF ChannelsInv, WireTypes
<1>3. /\ opens' \in Seq(OpenType) /\ Len(opens') <= Len(opens)
      /\ \A k \in DOMAIN opens' : opens'[k].stage = "waiting" <=> k > 1
  BY <1>1, <1>2
<1>4. OnlyErrs
  BY <1>1, AnsweredErrs
<1> QED BY <1>1, <1>2, <1>3, <1>4, AllEnd

-----------------------------------------------------------------------------
\* No channel is there yet, and nothing is asked or told.
LEMMA ChannelsInit == RfcommInit => ChannelsInv
<1> SUFFICES ASSUME RfcommInit PROVE ChannelsInv
  OBVIOUS
<1>1. /\ jobs = <<>> /\ opens = <<>> /\ air = {} /\ a2dp = TRUE /\ running = TRUE
      /\ owned = {} /\ closed = {} /\ ended = FALSE
      /\ pendingData = 0 /\ log = <<>> /\ written = 0 /\ sends = 0 /\ raced = {}
      /\ task \in [Opening -> {"none"}] /\ \A i \in Opening : task[i] = "none"
      /\ held \in [Opening -> Seq(MsgType)] /\ \A i \in Opening : held[i] = <<>>
  BY DEF RfcommInit
<1>2. NoChannel \in ChannelType /\ NoChannel.st = "none" /\ NoChannel.queue = 0
  BY DEF NoChannel, ChannelType
<1>3. channels \in [Opening -> ChannelType] /\ \A i \in Opening : channels[i] = NoChannel
  BY <1>2 DEF RfcommInit
<1>4. Present = {}
  BY <1>2, <1>3 DEF Present
<1>5. \A i \in Opening : ~Closes(i) /\ SendsOf(i) = {}
  BY <1>1 DEF Closes, SendsOf
<1>6. \A i, K : ~Told(i, K)
  BY <1>1 DEF Told
<1>7. WireTypes /\ ClientTypes
  <2>1. task \in [Opening -> Answers]
    BY <1>1 DEF Answers
  <2>2. pendingData \in 0..MaxPending /\ sends \in 0..MaxSend /\ written \in 0..Len(log)
    BY <1>1, RfcommConstants
  <2>3. jobs \in Seq(JobType) /\ opens \in Seq(OpenType) /\ log \in Seq(MsgType)
    BY <1>1
  <2> QED BY <2>1, <2>2, <2>3, <1>1, <1>3, <1>4 DEF WireTypes, ClientTypes
<1>8. OpensInv
  BY <1>1, <1>4, FS_EmptySet, RfcommConstants DEF OpensInv
<1>9. QueueInv
  <2>1. Cardinality({}) = 0
    BY FS_EmptySet
  <2>2. \A i \in Opening : Cardinality(SendsOf(i)) = 0
    BY <1>5, <2>1
  <2> QED BY <2>2, <1>1, <1>2, <1>3 DEF QueueInv, QueueOf
<1>10. LifeInv
  BY <1>1, <1>2, <1>3, <1>5, <1>6 DEF LifeInv, LifeOf
<1>11. HeldInv
  BY <1>1 DEF HeldInv, HeldOf, EndIsIn
<1>12. OwnedInv /\ NoOrphan /\ ToldInOrder
  BY <1>1, <1>4 DEF OwnedInv, NoOrphan, ToldInOrder
<1>13. PendingIsCounted
  <2>1. Unread = {} /\ DataHeld = {}
    BY <1>1 DEF Unread, DataHeld, DataIn
  <2> QED BY <2>1, <1>1, FS_EmptySet DEF PendingIsCounted
<1> QED BY <1>7, <1>8, <1>9, <1>10, <1>11, <1>12, <1>13 DEF ChannelsInv

\* A step that leaves the channels alone.
LEMMA ChannelsStutter == ASSUME ChannelsInv, UNCHANGED rfcommVars PROVE ChannelsInv'
<1>1. UNCHANGED <<jobs, opens, channels, air, a2dp, running, task, owned, closed, held, ended, pendingData,
                  log, written, sends, raced>>
  BY DEF rfcommVars, client, inner
<1>2. /\ opens' \in Seq(OpenType) /\ Len(opens') <= Len(opens)
      /\ \A k \in DOMAIN opens' : opens'[k].stage = "waiting" <=> k > 1
  <2>1. /\ opens \in Seq(OpenType) /\ Len(opens) \in Nat
        /\ \A k \in DOMAIN opens : opens[k].stage = "waiting" <=> k > 1
    BY DEF ChannelsInv, WireTypes, OpensInv
  <2> QED BY <1>1, <2>1
<1> QED BY <1>1, <1>2, NoErrs, OpensGoOn DEF inner

\* Every step of the client, of its tasks, of its writer, of the run loop and of
\* the device.
LEMMA ChannelsNext == ASSUME ChannelsInv, [RfcommNext]_rfcommVars PROVE ChannelsInv'
<1>1. CASE RfcommNext
  <2>1. CASE Client
    BY <2>1, RequestOpenStep, RequestSendStep, RequestCloseStep, ConnectionEndsStep DEF Client
  <2>2. CASE Tasks
    BY <2>2, OpenedStep, NotOpenedStep, TimesOutStep DEF Tasks
  <2>3. CASE Writes
    BY <2>3, WritesStep
  <2>4. CASE RunLoop
    BY <2>4, RunJobStep, OnTimerStep, OnSdpStep, ChannelOpenedStep, CanSendStep DEF RunLoop
  <2>5. CASE Remote
    BY <2>5, DataStep, RemoteClosesStep, A2dpEndsStep, A2dpStartsStep, StackStopsStep DEF Remote
  <2> QED BY <1>1, <2>1, <2>2, <2>3, <2>4, <2>5 DEF RfcommNext
<1>2. CASE UNCHANGED rfcommVars
  BY <1>2, ChannelsStutter
<1> QED BY <1>1, <1>2

\* The invariant says what the run checks: a queue is no longer than what the
\* client may send.
LEMMA ChannelsFollow == ChannelsInv => ChannelsSafe
<1> SUFFICES ASSUME ChannelsInv PROVE ChannelsSafe
  OBVIOUS
<1>1. RfcommTypeOK
  <2>1. ASSUME NEW i \in Opening
        PROVE /\ channels[i] \in [st : {"none", "open", "closing"}, queue : 0..MaxSend, asked : BOOLEAN]
              /\ task[i] \in Answers
    <3>1. /\ channels[i] \in ChannelType /\ QueueOf(i) /\ Cardinality(SendsOf(i)) \in Nat
          /\ sends \in 0..MaxSend /\ task[i] \in Answers
      BY ChannelIs DEF ChannelsInv, ClientTypes
    <3>2. channels[i].queue \in 0..MaxSend
      <4>1. channels[i].queue \in Nat
        BY <3>1 DEF ChannelType
      <4> QED BY <3>1, <4>1, RfcommConstants DEF QueueOf
    <3> QED BY <3>1, <3>2 DEF ChannelType
  <2> QED BY <2>1 DEF RfcommTypeOK, Answers, ChannelsInv, ClientTypes, OpensInv, HeldInv
<1>2. OwnedIsOpen
  BY DEF OwnedIsOpen, ChannelsInv, OwnedInv, OwnedOf
<1>3. ClosingDrains
  BY ChannelIs DEF ClosingDrains, QueueOf
<1> QED BY <1>1, <1>2, <1>3 DEF ChannelsSafe, ChannelsInv

\* The channels of IPC clients are safe, however many opens, channels and pieces
\* there are: an open answered by the device, its deadline, the end of the A2DP
\* connection or the stop of the stack, in whatever order, leaves no channel
\* without an owner, no owner without its channel, no end told twice or before
\* the answer, and no piece uncounted (core/rfcomm.rs, bt-host/rfcomm.rs).
THEOREM ChannelsSafeAlways == RfcommSpec => []ChannelsSafe
<1>1. ChannelsInv /\ [RfcommNext]_rfcommVars => ChannelsInv'
  BY ChannelsNext
<1> QED BY <1>1, ChannelsInit, ChannelsFollow, PTL DEF RfcommSpec
=============================================================================
