---------------------------- MODULE OutputDevice ----------------------------
(***************************************************************************)
(* What a session does to Windows' output devices, and how it is undone:   *)
(* the mute of the default output (crates/core/src/mute_output.rs), the    *)
(* switch of the default output to a virtual device (DefaultDeviceGuard    *)
(* and DefaultHandover of crates/core/src/stream.rs) and the handover of   *)
(* both to the session that replaces this one (Service::start_session).    *)
(*                                                                         *)
(* The actors are the thread that starts and stops sessions (one at a      *)
(* time: `control`), the session thread, the watcher of the mute key and   *)
(* the user.  Windows carries out what it is asked (set_muted and          *)
(* set_default_render_device succeed), and the user presses a key again    *)
(* only after the press before was taken (KEY_WATCH is 15 ms).             *)
(***************************************************************************)
EXTENDS Naturals, FiniteSets

CONSTANTS
    Device,      \* output devices
    None,        \* Rust's None
    MaxStart,    \* bound: sessions started
    MaxUser      \* bound: keys pressed and default devices chosen

ASSUME NoDevice == None \notin Device
ASSUME OutputBounds == MaxStart \in Nat /\ MaxUser \in Nat

\* A StreamRequest: the device it makes the default, and whether it mutes
Request == [switch : Device \cup {None}, mutes : BOOLEAN]

VARIABLES
    muted,      \* who muted each device: "no", "us" or "user"
    default,    \* the default output device
    starter,    \* what the caller of the service does
    asked,      \* the request it starts
    nextSwitch, \* DefaultHandover.next
    restore,    \* DefaultHandover.restore
    nextMutes,  \* MuteHandover.next
    left,       \* MuteHandover.device
    pc,         \* where the session is
    cur,        \* its request, with the source it has now
    guard,      \* its DefaultDeviceGuard
    again,      \* switch_default_again
    attached,   \* OutputMute.attached: the device
    ours,       \* ... and whether this session muted it
    inherited,  \* OutputMute.inherited
    opening,    \* the device tick attaches to
    then,       \* where a release goes on
    watch,      \* the watcher runs
    watched,    \* Watched.device
    moved,      \* the volume is not Watched.volume
    silence,    \* KEY_SILENCE
    starts,     \* sessions started so far
    users,      \* what the user did so far
    picks,      \* history: devices the user made the default
    kept,       \* history: devices a session left muted for the next
    want        \* history: the user wants the headphones silent

startVars == <<starter, asked, nextSwitch, nextMutes, starts>>
muteVars  == <<attached, ours, inherited, opening, then, watch>>
keyVars   == <<watched, moved, silence, want>>
userVars  == <<users, picks>>
vars == <<muted, default, startVars, restore, left, pc, cur, guard, again, muteVars, keyVars,
          userVars, kept>>

Init ==
    /\ muted \in [Device -> {"no", "user"}]
    /\ default \in Device
    /\ starter = "idle" /\ asked = None
    /\ nextSwitch = None /\ restore = None /\ nextMutes = FALSE /\ left = None
    /\ pc = "dead" /\ cur = None /\ guard = None /\ again = FALSE
    /\ attached = None /\ ours = FALSE /\ inherited = None /\ opening = None /\ then = "streaming"
    /\ watch = FALSE
    /\ watched = None /\ moved = FALSE /\ silence = FALSE
    /\ starts = 0 /\ users = 0
    /\ picks = {default} /\ kept = {} /\ want = FALSE

-----------------------------------------------------------------------------
(* Starting: Service::start_session.  (A stop alone expects nothing: End.) *)

\* expect_default_switch
Start(r) ==
    /\ starter = "idle" /\ starts < MaxStart
    /\ starts' = starts + 1
    /\ starter' = "expect" /\ asked' = r
    /\ nextSwitch' = r.switch
    /\ UNCHANGED <<muted, default, nextMutes, restore, left, pc, cur, guard, again, muteVars,
                   keyVars, userVars, kept>>

\* expect_session
Expect ==
    /\ starter = "expect"
    /\ starter' = "join"
    /\ nextMutes' = asked.mutes
    /\ UNCHANGED <<muted, default, asked, nextSwitch, starts, restore, left, pc, cur, guard, again,
                   muteVars, keyVars, userVars, kept>>

\* The running session has ended; nothing is expected any more; the new one
\* is spawned
Launch ==
    /\ starter = "join" /\ pc = "dead"
    /\ starter' = "idle" /\ asked' = None
    /\ nextSwitch' = None /\ nextMutes' = FALSE
    /\ pc' = "connecting" /\ cur' = asked
    /\ UNCHANGED <<muted, default, starts, restore, left, guard, again, muteVars, keyVars, userVars,
                   kept>>

-----------------------------------------------------------------------------
(* The default output device.                                              *)

Or(a, b) == IF a # None THEN a ELSE b

\* DefaultDeviceGuard::switch_to, keeping what the guard restores already
SwitchTo(id) ==
    /\ restore' = None
    /\ default' = id
    /\ guard' = Or(guard, Or(restore, IF default # id THEN default ELSE None))

\* DefaultHandover::end: the default stays switched for a session that
\* switches to the same device
KeptForNext == nextSwitch # None /\ nextSwitch = default

\* Drop of the guard
DropGuard ==
    /\ guard' = None
    /\ IF guard # None /\ KeptForNext
         THEN restore' = guard /\ UNCHANGED default
         ELSE default' = Or(guard, default) /\ UNCHANGED restore

\* DefaultDeviceGuard::follow
Follow(switch) == IF switch # None THEN SwitchTo(switch) ELSE DropGuard

-----------------------------------------------------------------------------
(* The session: stream::run.                                               *)

\* The device could not be connected, or the session was stopped before
ConnectFailed ==
    /\ pc = "connecting"
    /\ pc' = "unclaimed"
    /\ UNCHANGED <<muted, default, startVars, restore, left, cur, guard, again, muteVars, keyVars,
                   userVars, kept>>

Connected ==
    /\ pc = "connecting"
    /\ Follow(cur.switch)
    /\ pc' = "source"
    /\ UNCHANGED <<muted, startVars, left, cur, again, muteVars, keyVars, userVars, kept>>

\* The source cannot be opened: System Loopback stands in for it ...
StandIn ==
    /\ pc = "source" /\ cur.switch # None
    /\ cur' = [cur EXCEPT !.switch = None]
    /\ Follow(None)
    /\ UNCHANGED <<muted, startVars, left, pc, again, muteVars, keyVars, userVars, kept>>

\* ... or the session ends
SourceFailed ==
    /\ pc = "source"
    /\ pc' = "drop_guard"
    /\ UNCHANGED <<muted, default, startVars, restore, left, cur, guard, again, muteVars, keyVars,
                   userVars, kept>>

\* OutputMute::new
NewMute ==
    /\ pc = "source"
    /\ pc' = "streaming"
    /\ inherited' = left /\ left' = None
    /\ watch' \in BOOLEAN   \* its thread may not start
    /\ silence' = FALSE
    /\ UNCHANGED <<muted, default, startVars, restore, cur, guard, again, attached, ours, opening,
                   then, watched, moved, want, userVars, kept>>

\* Another source (change_source; a test tone is the one that does not mute),
\* or one that does not start
ChangeSource(switch, mutes) ==
    /\ pc = "streaming"
    /\ Follow(switch)
    /\ \/ cur' = [switch |-> switch, mutes |-> mutes] /\ pc' = "streaming"
       \/ pc' = "drop_mute" /\ UNCHANGED cur
    /\ UNCHANGED <<muted, startVars, left, again, muteVars, keyVars, userVars, kept>>

\* The headphones were turned off: the device before is the default again,
\* and nothing is muted
TurnedOff ==
    /\ pc = "streaming"
    /\ DropGuard
    /\ again' = (again \/ guard # None)
    /\ pc' = "forget" /\ then' = "waiting"
    /\ UNCHANGED <<muted, startVars, left, cur, attached, ours, inherited, opening, watch, keyVars,
                   userVars, kept>>

\* They are back, and connected again
BackOn ==
    /\ pc = "waiting"
    /\ pc' = "streaming"
    /\ IF again /\ cur.switch # None
         THEN SwitchTo(cur.switch) /\ again' = FALSE
         ELSE UNCHANGED <<default, restore, guard, again>>
    /\ UNCHANGED <<muted, startVars, left, cur, muteVars, keyVars, userVars, kept>>

\* Stopped (Service::stop_session), lost for good, or a panic
End ==
    /\ pc \in {"streaming", "waiting"}
    /\ pc' = "drop_mute"
    /\ UNCHANGED <<muted, default, startVars, restore, left, cur, guard, again, muteVars, keyVars,
                   userVars, kept>>

EndGuard ==
    /\ pc = "drop_guard"
    /\ DropGuard
    /\ again' = FALSE
    /\ pc' = "unclaimed"
    /\ UNCHANGED <<muted, startVars, left, cur, muteVars, keyVars, userVars, kept>>

\* mutant: what a session left to this one is forgotten with it
RestoreUnclaimedNever ==
    /\ pc = "unclaimed"
    /\ pc' = "unclaimed_mute"
    /\ UNCHANGED <<muted, default, restore, startVars, left, cur, guard, again, muteVars, keyVars, userVars, kept>>

\* restore_unclaimed_default
RestoreUnclaimed ==
    /\ pc = "unclaimed"
    /\ pc' = "unclaimed_mute"
    /\ IF nextSwitch = None
         THEN default' = Or(restore, default) /\ restore' = None
         ELSE UNCHANGED <<default, restore>>
    /\ UNCHANGED <<muted, startVars, left, cur, guard, again, muteVars, keyVars, userVars, kept>>

\* unmute_unclaimed; then the thread ends
UnmuteUnclaimed ==
    /\ pc = "unclaimed_mute"
    /\ pc' = "dead" /\ cur' = None
    /\ IF nextMutes \/ left = None
         THEN UNCHANGED <<muted, left>>
         ELSE muted' = [muted EXCEPT ![left] = "no"] /\ left' = None
    /\ UNCHANGED <<default, startVars, restore, guard, again, muteVars, keyVars, userVars, kept>>

-----------------------------------------------------------------------------
(* Muting: OutputMute on the session thread.                               *)

\* tick(false): release
TickOff ==
    /\ pc = "streaming" /\ ~cur.mutes
    /\ attached # None \/ inherited # None
    /\ pc' = "forget" /\ then' = "streaming"
    /\ UNCHANGED <<muted, default, startVars, restore, left, cur, guard, again, attached, ours,
                   inherited, opening, watch, keyVars, userVars, kept>>

\* tick(true) with another default device; one that cannot be opened changes
\* nothing
Tick ==
    /\ pc = "streaming" /\ cur.mutes /\ attached # default
    /\ opening' = default
    /\ pc' = "forget" /\ then' = "attach"
    /\ UNCHANGED <<muted, default, startVars, restore, left, cur, guard, again, attached, ours,
                   inherited, watch, keyVars, userVars, kept>>

\* release_attached: "The watcher lets go first, so it does not take the
\* unmute for the key" ...
Forget ==
    /\ pc = "forget"
    /\ pc' = "unmute"
    /\ watched' = None /\ moved' = FALSE
    /\ silence' = FALSE /\ want' = FALSE
    /\ UNCHANGED <<muted, default, startVars, restore, left, cur, guard, again, muteVars, userVars,
                   kept>>

\* ... then the device is unmuted if this session muted it
Unmute ==
    /\ pc = "unmute"
    /\ pc' = IF then = "attach" THEN "attach" ELSE "inherited"
    /\ muted' = IF attached # None /\ ours THEN [muted EXCEPT ![attached] = "no"] ELSE muted
    /\ attached' = None /\ ours' = FALSE
    /\ UNCHANGED <<default, startVars, restore, left, cur, guard, again, inherited, opening, then,
                   watch, keyVars, userVars, kept>>

\* mutant: a device that was muted already counts as muted by this session
AttachMuted ==
    /\ pc = "attach"
    /\ pc' = "inherited" /\ then' = "streaming"
    /\ attached' = opening /\ opening' = None
    /\ ours' = TRUE
    /\ inherited' = IF inherited = opening THEN None ELSE inherited
    /\ muted' = IF inherited # opening /\ muted[opening] = "no"
                  THEN [muted EXCEPT ![opening] = "us"] ELSE muted
    /\ watched' = opening /\ moved' = FALSE
    /\ want' = (inherited = opening /\ muted[opening] = "no")
    /\ UNCHANGED <<default, startVars, restore, left, cur, guard, again, watch, silence, userVars,
                   kept>>

\* The device is muted unless the session before left it so, and watched
Attach ==
    /\ pc = "attach"
    /\ pc' = "inherited" /\ then' = "streaming"
    /\ attached' = opening /\ opening' = None
    /\ inherited' = IF inherited = opening THEN None ELSE inherited
    /\ ours' = (inherited = opening \/ muted[opening] = "no")
    /\ muted' = IF inherited # opening /\ muted[opening] = "no"
                  THEN [muted EXCEPT ![opening] = "us"] ELSE muted
    /\ IF ours'
         THEN /\ watched' = opening /\ moved' = FALSE
              /\ want' = (inherited = opening /\ muted[opening] = "no")
         ELSE UNCHANGED <<watched, moved, want>>
    /\ UNCHANGED <<default, startVars, restore, left, cur, guard, again, watch, silence, userVars,
                   kept>>

\* release_inherited
ReleaseInherited ==
    /\ pc = "inherited"
    /\ pc' = then
    /\ muted' = IF inherited # None THEN [muted EXCEPT ![inherited] = "no"] ELSE muted
    /\ inherited' = None
    /\ UNCHANGED <<default, startVars, restore, left, cur, guard, again, attached, ours, opening, then,
                   watch, keyVars, userVars, kept>>

\* Drop of OutputMute: the watcher ends; for a session that mutes too the
\* device stays muted; the rest is released
DropMute ==
    /\ pc = "drop_mute"
    /\ pc' = "forget" /\ then' = "drop_guard"
    /\ watch' = FALSE
    /\ LET id == Or(IF ours THEN attached ELSE None, inherited) IN
       IF nextMutes /\ id # None
         THEN /\ left' = id
              /\ kept' = kept \cup {id}
              /\ inherited' = None /\ attached' = None /\ ours' = FALSE
         ELSE UNCHANGED <<left, kept, inherited, attached, ours>>
    /\ UNCHANGED <<muted, default, startVars, restore, cur, guard, again, opening, keyVars, userVars>>

-----------------------------------------------------------------------------
(* The mute key.                                                           *)

\* key_pressed, under the lock of Watched: an unmuted device is muted again;
\* with another volume it was a volume key, else the mute key
Look ==
    /\ moved' = FALSE
    /\ IF muted[watched] = "no"
         THEN /\ muted' = [muted EXCEPT ![watched] = "us"]
              /\ silence' = (~moved /\ ~silence)
         ELSE UNCHANGED <<muted, silence>>

\* The watcher, and the session's tick
WatchKey ==
    /\ watched # None
    /\ watch \/ (pc = "streaming" /\ cur.mutes /\ ours /\ attached = default)
    /\ muted[watched] = "no" \/ moved
    /\ Look
    /\ UNCHANGED <<default, startVars, restore, left, pc, cur, guard, again, muteVars, watched, want,
                   userVars, kept>>

\* The user does something (Windows acts on the default device), not while
\* the last press waits to be taken
User ==
    /\ users < MaxUser
    /\ users' = users + 1
    /\ UNCHANGED <<startVars, restore, left, pc, cur, guard, again, muteVars, watched, silence, kept>>

PressMute ==
    /\ User
    /\ ~(ours /\ attached = default /\ muted[default] = "no")
    /\ muted' = [muted EXCEPT ![default] = IF @ = "no" THEN "user" ELSE "no"]
    /\ want' = IF watched = default THEN ~want ELSE want
    /\ UNCHANGED <<default, moved, picks>>

PressVolume ==
    /\ User
    /\ muted[default] # "no"
    /\ muted' = [muted EXCEPT ![default] = "no"]
    /\ IF watched = default THEN moved' = TRUE /\ want' = FALSE ELSE UNCHANGED <<moved, want>>
    /\ UNCHANGED <<default, picks>>

ChooseDefault(d) ==
    /\ User
    /\ d # default
    /\ default' = d
    /\ picks' = picks \cup {d}
    /\ UNCHANGED <<muted, moved, want>>

-----------------------------------------------------------------------------
Next ==
    \/ \E r \in Request : Start(r)
    \/ Expect \/ Launch
    \/ ConnectFailed \/ Connected \/ StandIn \/ SourceFailed \/ NewMute
    \/ \E d \in Device \cup {None}, m \in BOOLEAN : ChangeSource(d, m)
    \/ TurnedOff \/ BackOn \/ End \/ EndGuard \/ RestoreUnclaimed \/ UnmuteUnclaimed
    \/ TickOff \/ Tick \/ Forget \/ Unmute \/ Attach \/ ReleaseInherited \/ DropMute
    \/ WatchKey \/ PressMute \/ PressVolume
    \/ \E d \in Device : ChooseDefault(d)

Spec == Init /\ [][Next]_vars

-----------------------------------------------------------------------------
\* Types of the variables.
TypeOK ==
    /\ muted \in [Device -> {"no", "us", "user"}] /\ default \in Device
    /\ starter \in {"idle", "expect", "join"} /\ asked \in Request \cup {None}
    /\ starter # "idle" => asked \in Request
    /\ nextSwitch \in Device \cup {None} /\ nextMutes \in BOOLEAN
    /\ restore \in Device \cup {None} /\ left \in Device \cup {None}
    /\ pc \in {"dead", "connecting", "source", "streaming", "waiting", "forget", "unmute", "attach",
               "inherited", "drop_mute", "drop_guard", "unclaimed", "unclaimed_mute"}
    /\ cur \in Request \cup {None}
    /\ pc # "dead" => cur \in Request
    /\ guard \in Device \cup {None} /\ again \in BOOLEAN
    /\ attached \in Device \cup {None} /\ ours \in BOOLEAN /\ inherited \in Device \cup {None}
    /\ opening \in Device \cup {None}
    /\ pc = "attach" => opening \in Device
    /\ then \in {"streaming", "waiting", "attach", "drop_guard"}
    /\ watch \in BOOLEAN /\ watched \in Device \cup {None} /\ moved \in BOOLEAN
    /\ silence \in BOOLEAN /\ want \in BOOLEAN
    /\ starts \in Nat /\ users \in Nat
    /\ picks \subseteq Device /\ kept \subseteq Device

\* No session runs and none is about to
AtRest == pc = "dead" /\ starter = "idle"

\* MuteHandover, KeyWatch: however sessions replace each other, fail before
\* they take over what was left to them, or are told of key presses while they
\* end, no device stays muted by BlueCaster without a session, nothing stays
\* in the handover, and the next headphones are not silent.
NothingLeft ==
    AtRest => /\ \A d \in Device : muted[d] # "us"
              /\ left = None /\ restore = None
              /\ ~silence

\* DefaultHandover: without a session the default output is a device the user
\* chose, never the one a session switched to.
DefaultIsChosen == AtRest => default \in picks

\* key_pressed: once a press is taken the headphones are silent exactly when
\* the user wants it, though two threads look for presses.
KeyTaken == pc = "streaming" /\ watched # None /\ muted[watched] # "no" => silence = want

\* "Only a device this session muted is unmuted: one the user had muted stays
\* so" (a device left muted for the next session aside: it is taken over
\* without a look at who muted it meanwhile).
UserMuteStays ==
    [][\A d \in Device :
          muted[d] = "user" /\ muted'[d] = "no" => users' # users \/ d \in kept]_vars

\* What sessions did to the output is undone however they replace each other,
\* and the mute keys pressed meanwhile are all taken.
OutputSafe == TypeOK /\ NothingLeft /\ DefaultIsChosen /\ KeyTaken
=============================================================================
