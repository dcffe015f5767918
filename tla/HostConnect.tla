---------------------------- MODULE HostConnect ----------------------------
(***************************************************************************)
(* The connection of BtHost (crates/bt-host/src/lib.rs) to its device and  *)
(* the half of it that runs on the BTstack thread (crates/bt-host/src/     *)
(* app.rs).  Two threads share `sh` (shared.rs, one mutex):                *)
(*                                                                         *)
(*   - the session thread calls connect_retrying, configure, start_stream, *)
(*     reconnect and disconnect.  Each is a sequence of jobs run on the    *)
(*     BTstack thread and of waits for a flag of `sh`, every one of which  *)
(*     ends by its flag, by the cancel of a stop or by its timeout;        *)
(*   - the BTstack thread delivers what the stack reports to handle_hci    *)
(*     and handle_a2dp, which set those flags.                             *)
(*                                                                         *)
(* BTstack itself (the AVDTP connections, the ACL links, the link key      *)
(* store) is external: `av`, `acl` and `key` hold what the code can see    *)
(* of it.  A dispatch that first closes the L2CAP channels of a link and   *)
(* then reports the disconnection is two steps: `gone` is the disconnection*)
(* still to be reported, and no job runs before it is.                     *)
(***************************************************************************)
EXTENDS Naturals, FiniteSets

CONSTANTS
    Device,      \* the devices in range
    Target,      \* the device of the sessions
    Opens,       \* the devices that open A2DP to the PC themselves
    MaxCid,      \* bound: AVDTP connections BTstack numbers
    MaxSession,  \* bound: sessions started
    Attempts,    \* CONNECT_ATTEMPTS
    MayDie,      \* the controller may stop answering
    Nil

ASSUME DeviceAssumption == Target \in Device /\ Opens \subseteq Device
ASSUME BoundAssumption ==
    MaxCid \in Nat \ {0} /\ MaxSession \in Nat \ {0} /\ Attempts \in Nat \ {0}
        /\ MayDie \in BOOLEAN
ASSUME NilAssumption == Nil \notin Device \cup {"old", "new"}

VARIABLES
    where,    \* where the session thread is
    l,        \* its locals
    stop,     \* the stop flag of the service, and whether the cancel followed
    sh,       \* shared.rs: State
    app,      \* app.rs: HostApp's a2dp_cid, 0 for none
    av,       \* BTstack: the AVDTP connection of each device
    acl,      \* BTstack: the ACL link of each device
    key,      \* BTstack: the link key stored for the target
    cids,     \* BTstack: AVDTP connections numbered so far
    gone,     \* the device whose disconnection is being dispatched
    dead,     \* the controller stopped answering
    begun,    \* sessions started
    losses,   \* ConnectionLost events sent for each AVDTP connection
    theirs,   \* history: the devices that opened A2DP themselves
    race      \* the link began to close after wait_for_closing_link looked

session == <<where, l, stop, begun>>
stack   == <<av, acl, cids, gone, dead>>
hostVars == <<session, sh, app, stack, key, losses, theirs, race>>

Cid     == 1 .. MaxCid
Failure == {"NoAnswer", "LinkLost", "Refused", "AuthFailed", "Stalled",
            "Cancelled", "Other"}
Done    == {Nil, TRUE, FALSE}
NoSignaling == [cid |-> 0, st |-> "none", caps |-> FALSE, stm |-> "none"]

\* A new BtHost: nothing known, nothing connected.
NewShared ==
    [connected |-> FALSE, streaming |-> FALSE, lost |-> FALSE,
     connectDone |-> Nil, streamDone |-> Nil, startDone |-> Nil,
     cancel |-> FALSE, fail |-> Nil, con |-> Nil, config |-> FALSE,
     stalled |-> FALSE]
Fresh ==
    [mode |-> "connect", err |-> Nil, attempt |-> 1, repaired |-> FALSE,
     collided |-> FALSE, dropped |-> Nil, next |-> "failed"]

HostInit ==
    /\ where = "idle" /\ l = Fresh /\ begun = 0
    /\ stop = [asked |-> FALSE, cancelled |-> FALSE]
    /\ sh = NewShared /\ app = 0
    /\ av = [d \in Device |-> NoSignaling]
    /\ acl = [d \in Device |-> "none"]
    /\ key \in {Nil, "old"}
    /\ cids = 0 /\ gone = Nil /\ dead = FALSE
    /\ losses = [c \in Cid |-> 0] /\ theirs = {} /\ race = FALSE

----------------------------------------------------------------------------
(* The session thread: helpers.                                            *)

Goto(p) == where' = p
With(p, f) == where' = p /\ l' = f

\* A job runs on the BTstack thread, between two dispatches.
Job == gone = Nil

\* Shared::wait: the flag first, then the cancel, then the timeout.
Cancelled(done) == ~done /\ sh.cancel

\* A connection attempt that ended: connect_retrying decides about the next
\* one, a reconnection attempt goes back to the session's loop.
AbortThen(next, err) == With("abort", [l EXCEPT !.next = next, !.err = err])

----------------------------------------------------------------------------
(* connect, establish_and_wait                                             *)

Start ==
    /\ where = "idle" /\ begun < MaxSession
    /\ begun' = begun + 1
    /\ stop' = [asked |-> FALSE, cancelled |-> FALSE]
    /\ With("begin", Fresh)
    /\ UNCHANGED <<sh, app, stack, key, losses, theirs, race>>

\* connect: refused on a stalled stack; else the flags of an earlier
\* connection, and the cancel of an earlier stop, are cleared.
Begin ==
    /\ where = "begin"
    /\ IF sh.stalled
       THEN /\ With("failed", [l EXCEPT !.err = "Stalled"])
            /\ sh' = [sh EXCEPT !.fail = "Stalled"]
       ELSE /\ Goto("leftover") /\ UNCHANGED l
            /\ sh' = [sh EXCEPT !.lost = FALSE, !.fail = Nil, !.cancel = FALSE,
                                !.connectDone = Nil, !.streamDone = Nil]
    /\ UNCHANGED <<stop, begun, app, stack, key, losses, theirs, race>>

\* a2dp_disconnect of an open connection: its release follows.
Closing(a) == [a EXCEPT !.st = "closing"]
IsOpen(a)  == a.st \in {"open", "closing"}

\* release_leftover_avdtp: an AVDTP connection BTstack still has with the
\* target would make the establish fail.  One that never opened is freed at
\* once, with the failed CONNECTION_ESTABLISHED that OnEstablished takes.
Failing(c, why) ==
    IF app \in {0, c}
    THEN /\ app' = c
         /\ sh' = [sh EXCEPT !.fail = why, !.connectDone = FALSE]
    ELSE UNCHANGED <<app, sh>>

Leftover ==
    /\ where = "leftover" /\ Job
    /\ \/ /\ av[Target].st = "none"
          /\ Goto("closing") /\ UNCHANGED <<l, av, app, sh>>
       \/ /\ IsOpen(av[Target])
          /\ av' = [av EXCEPT ![Target] = Closing(@)]
          /\ With("relWait", [l EXCEPT !.next = "closing"])
          /\ UNCHANGED <<app, sh>>
       \/ /\ av[Target].st = "pending"
          /\ av' = [av EXCEPT ![Target] = NoSignaling]
          /\ Failing(av[Target].cid, "LinkLost")
          /\ With("forget", [l EXCEPT !.next = "closing"])
    /\ UNCHANGED <<stop, begun, acl, cids, gone, dead, key, losses, theirs, race>>

\* mutant: the wait for the release has no timeout.
RelWaitForever ==
    /\ where = "relWait" /\ av[Target].st = "none"
    /\ Goto("forget")
    /\ UNCHANGED <<l, stop, begun, sh, app, stack, key, losses, theirs, race>>

\* Not cancellable: the cleanup finishes even when a stop latched the cancel.
RelWait ==
    /\ where = "relWait"
    /\ Goto("forget")
    /\ UNCHANGED <<l, stop, begun, sh, app, stack, key, losses, theirs, race>>

Forget ==
    /\ where = "forget" /\ Job
    /\ app' = 0
    /\ Goto("reset")
    /\ UNCHANGED <<l, stop, begun, sh, stack, key, losses, theirs, race>>

ResetShared ==
    /\ where = "reset"
    /\ sh' = [sh EXCEPT !.connected = FALSE, !.streaming = FALSE, !.lost = FALSE,
                        !.connectDone = Nil, !.streamDone = Nil]
    /\ With(l.next, [l EXCEPT !.next = "failed"])
    /\ UNCHANGED <<stop, begun, app, stack, key, losses, theirs, race>>

\* mutant: the link is not looked at.
NoWaitClosing ==
    /\ where = "closing" /\ Job
    /\ Goto("establish") /\ race' = FALSE
    /\ UNCHANGED <<l, sh, stop, begun, app, stack, key, losses, theirs>>

\* wait_for_closing_link: BTstack drops a page of a link that is going down.
WaitClosing ==
    /\ where = "closing" /\ Job
    /\ \/ acl[Target] # "closing" /\ Goto("establish") /\ UNCHANGED <<l, sh>>
       \/ /\ acl[Target] = "closing"
          /\ \E f \in {"Cancelled", "LinkLost"} :
                /\ f = "Cancelled" => sh.cancel
                /\ With("failed", [l EXCEPT !.err = f])
                /\ sh' = [sh EXCEPT !.fail = f]
    /\ race' = FALSE
    /\ UNCHANGED <<stop, begun, app, stack, key, losses, theirs>>

\* a2dp_source_establish_stream: refused while BTstack has a connection with
\* the device or none to give; pages when there is no link.
Establish ==
    /\ where = "establish" /\ Job
    /\ IF av[Target].st = "none" /\ cids < MaxCid
       THEN /\ cids' = cids + 1
            /\ av' = [av EXCEPT ![Target] = [NoSignaling EXCEPT !.cid = cids + 1,
                                                           !.st = "pending"]]
            /\ app' = cids + 1
            /\ acl' = [acl EXCEPT ![Target] = IF @ = "none" THEN "paging" ELSE @]
            /\ Goto("wait") /\ UNCHANGED <<l, sh>>
       ELSE /\ With("failed", [l EXCEPT !.err = "Other"])
            /\ sh' = [sh EXCEPT !.fail = "Other"]
            /\ UNCHANGED <<app, av, acl, cids>>
    /\ UNCHANGED <<stop, begun, gone, dead, key, losses, theirs, race>>

ConnectAnswered ==
    /\ where = "wait" /\ sh.connectDone # Nil
    /\ IF sh.connectDone
       THEN With("configure", [Fresh EXCEPT !.mode = l.mode,
                    !.attempt = IF l.mode = "connect" THEN 1 ELSE l.attempt])
       ELSE With("classify", [l EXCEPT !.next = "failed"])
    /\ UNCHANGED <<stop, begun, sh, app, stack, key, losses, theirs, race>>

ConnectCancelled ==
    /\ where = "wait" /\ Cancelled(sh.connectDone # Nil)
    /\ AbortThen("failed", "Cancelled")
    /\ UNCHANGED <<stop, begun, sh, app, stack, key, losses, theirs, race>>

ConnectTimedOut ==
    /\ where = "wait" /\ sh.connectDone = Nil /\ ~sh.cancel
    /\ Goto("check")
    /\ UNCHANGED <<l, stop, begun, sh, app, stack, key, losses, theirs, race>>

\* check_stalled: the controller answers no command, or the stack neither
\* pages nor has a link (it never paged): only a new stack helps.
CheckStalled ==
    /\ where = "check" /\ Job
    /\ IF sh.stalled \/ dead \/ acl[Target] = "none"
       THEN sh' = [sh EXCEPT !.stalled = TRUE] /\ AbortThen("failed", "Stalled")
       ELSE sh' = [sh EXCEPT !.fail = "LinkLost"]
            /\ With("classify", [l EXCEPT !.next = "outlived"])
    /\ UNCHANGED <<stop, begun, app, stack, key, losses, theirs, race>>

\* classify_link_lost: the reason the link went down for, reported a moment
\* after L2CAP gave up or not in time; a link the device ended is a refusal.
Classify ==
    /\ where = "classify"
    /\ \E why \in {sh.fail} \cup (IF sh.fail = "LinkLost" THEN {"Refused"} ELSE {}) :
           /\ sh' = [sh EXCEPT !.fail = why]
           /\ AbortThen(l.next, IF why = Nil THEN "Other" ELSE why)
    /\ UNCHANGED <<stop, begun, app, stack, key, losses, theirs, race>>

\* app.rs abort: nothing left; an open connection is closed, its release
\* awaited; a pending one is freed at once, its link dropped or its page
\* cancelled.
Abort ==
    /\ where = "abort" /\ Job
    /\ \/ /\ app = 0 \/ ~\E d \in Device : av[d].st # "none" /\ av[d].cid = app
          /\ Goto("forget") /\ UNCHANGED <<av, acl, app, sh>>
       \/ \E d \in Device :
            /\ app # 0 /\ av[d].cid = app /\ IsOpen(av[d])
            /\ av' = [av EXCEPT ![d] = Closing(@)]
            /\ Goto("relWait") /\ UNCHANGED <<acl, app, sh>>
       \/ /\ app # 0 /\ av[Target].cid = app /\ av[Target].st = "pending"
          /\ av' = [av EXCEPT ![Target] = NoSignaling]
          /\ Failing(app, "LinkLost")
          /\ \E cancelled \in BOOLEAN :     \* the page may outlive its cancel
                acl' = [acl EXCEPT ![Target] =
                          CASE @ = "open" -> "closing"
                            [] @ = "paging" /\ cancelled -> "none"
                            [] OTHER -> @]
          /\ Goto("forget")
    /\ UNCHANGED <<l, stop, begun, cids, gone, dead, key, losses, theirs, race>>

\* page_outlived_cancel: a page that its cancel did not end is in the way of
\* every retry.
Outlived ==
    /\ where = "outlived" /\ Job
    /\ IF acl[Target] = "paging"
       THEN /\ sh' = [sh EXCEPT !.stalled = TRUE]
            /\ With("failed", [l EXCEPT !.err = "Stalled"])
       ELSE Goto("failed") /\ UNCHANGED <<l, sh>>
    /\ UNCHANGED <<stop, begun, app, stack, key, losses, theirs, race>>

----------------------------------------------------------------------------
(* connect_retrying                                                        *)

Transient(f) == f \in {"NoAnswer", "LinkLost"}

\* One attempt failed.  A failed authentication first finds out why; a
\* transient failure is tried again; the rest ends the call.
Failed ==
    /\ where = "failed" /\ l.mode = "connect"
    /\ sh' = [sh EXCEPT !.fail = l.err]
    /\ \/ stop.asked /\ With("restore", [l EXCEPT !.err = "Cancelled"])
       \/ ~stop.asked /\ l.err = "AuthFailed" /\ ~l.repaired /\ Goto("auth") /\ UNCHANGED l
       \/ /\ ~stop.asked /\ ~(l.err = "AuthFailed" /\ ~l.repaired)
          /\ IF Transient(l.err) /\ l.attempt < Attempts
             THEN With("dropAcl", [l EXCEPT !.attempt = @ + 1, !.next = "pause"])
             ELSE Goto("restore") /\ UNCHANGED l
    /\ UNCHANGED <<stop, begun, app, stack, key, losses, theirs, race>>

\* target_auth_status, any status or none in time: a collision with the
\* device's own is tried again with the key, once; else the key is dropped.
AuthStatus ==
    /\ where = "auth" /\ Job
    /\ \/ /\ ~l.collided
          /\ With("dropAcl", [l EXCEPT !.collided = TRUE, !.next = "pause"])
          /\ UNCHANGED key
       \/ /\ With("dropAcl", [l EXCEPT !.repaired = TRUE, !.dropped = key,
                                       !.next = "begin"])
          /\ key' = Nil
    /\ UNCHANGED <<stop, begun, sh, app, stack, losses, theirs, race>>

\* drop_acl_link: HCI Disconnect of the target's link; the wait ends with the
\* next disconnection of any link, or by its timeout.
DropAcl ==
    /\ where = "dropAcl" /\ Job
    /\ IF acl[Target] = "open"
       THEN acl' = [acl EXCEPT ![Target] = "closing"] /\ Goto("aclWait")
       ELSE UNCHANGED acl /\ Goto(l.next)
    /\ UNCHANGED <<l, stop, begun, sh, app, av, cids, gone, dead, key, losses, theirs, race>>

AclWait ==
    /\ where = "aclWait"
    /\ Goto(l.next)
    /\ UNCHANGED <<l, stop, begun, sh, app, stack, key, losses, theirs, race>>

Pause ==
    /\ where = "pause"
    /\ IF stop.asked THEN With("restore", [l EXCEPT !.err = "Cancelled"])
                     ELSE Goto("begin") /\ UNCHANGED l
    /\ UNCHANGED <<stop, begun, sh, app, stack, key, losses, theirs, race>>

\* mutant: a stop during the second pairing leaves the key dropped.
RestoreKeyUnlessStopped ==
    /\ where = "restore" /\ Job
    /\ key' = IF l.err # "Cancelled" /\ l.dropped # Nil /\ key = Nil
              THEN l.dropped ELSE key
    /\ With("idle", Fresh)
    /\ UNCHANGED <<stop, begun, sh, app, stack, losses, theirs, race>>

\* The key dropped for pairing again is stored again when that failed, unless
\* a pairing left a new one.
RestoreKey ==
    /\ where = "restore" /\ Job
    /\ key' = IF l.dropped # Nil /\ key = Nil THEN l.dropped ELSE key
    /\ With("idle", Fresh)
    /\ UNCHANGED <<stop, begun, sh, app, stack, losses, theirs, race>>

----------------------------------------------------------------------------
(* configure, start_stream, disconnect                                     *)

\* Where a session goes when a stream it set up failed: a first one ends it.
Gave == IF l.mode = "connect" THEN "idle" ELSE "between"

\* disconnect: suspends a running stream, then closes the connection.
DisconnectThen(next) == With("disconnect", [l EXCEPT !.next = next])

Configure ==
    /\ where = "configure" /\ Job
    /\ \/ ~sh.connected /\ DisconnectThen(Gave) /\ UNCHANGED <<sh, app, av>>
       \/ l.mode # "connect" /\ DisconnectThen("over") /\ UNCHANGED <<sh, app, av>>  \* CodecGone
       \/ /\ sh.connected
          /\ sh' = [sh EXCEPT !.streamDone = Nil]
          /\ UNCHANGED app
          /\ IF \E d \in Device : av[d].cid = app /\ av[d].st = "open" /\ av[d].stm = "none"
             THEN /\ av' = [d \in Device |-> IF av[d].cid = app /\ av[d].st = "open"
                                             THEN [av[d] EXCEPT !.stm = "configuring"]
                                             ELSE av[d]]
                  /\ Goto("confWait") /\ UNCHANGED l
             ELSE DisconnectThen(Gave) /\ UNCHANGED av
    /\ UNCHANGED <<stop, begun, acl, cids, gone, dead, key, losses, theirs, race>>

ConfWait ==
    /\ where = "confWait"
    /\ \/ sh.streamDone = TRUE /\ Goto("start") /\ UNCHANGED l
       \/ sh.streamDone # TRUE /\ DisconnectThen(Gave)   \* refused, cancelled, no answer
    /\ UNCHANGED <<stop, begun, sh, app, stack, key, losses, theirs, race>>

StartStream ==
    /\ where = "start" /\ Job
    /\ IF /\ sh.connected /\ app # 0
          /\ \E d \in Device : av[d].cid = app /\ av[d].st = "open" /\ av[d].stm = "opened"
       THEN /\ av' = [d \in Device |-> IF av[d].cid = app
                                       THEN [av[d] EXCEPT !.stm = "starting"] ELSE av[d]]
            /\ sh' = [sh EXCEPT !.startDone = Nil]
            /\ Goto("startWait") /\ UNCHANGED l
       ELSE /\ sh' = IF sh.connected THEN [sh EXCEPT !.startDone = Nil] ELSE sh
            /\ DisconnectThen(Gave) /\ UNCHANGED av
    /\ UNCHANGED <<stop, begun, app, acl, cids, gone, dead, key, losses, theirs, race>>

\* mutant: a started stream clears the flag of a loss.
StartWaitClears ==
    /\ where = "startWait"
    /\ \/ sh.startDone = TRUE /\ Goto("play") /\ UNCHANGED l
          /\ sh' = [sh EXCEPT !.lost = FALSE]
       \/ sh.startDone # TRUE /\ DisconnectThen(Gave) /\ UNCHANGED sh
    /\ UNCHANGED <<stop, begun, app, stack, key, losses, theirs, race>>

StartWait ==
    /\ where = "startWait"
    /\ \/ sh.startDone = TRUE /\ Goto("play") /\ UNCHANGED l
       \/ sh.startDone # TRUE /\ DisconnectThen(Gave)
    /\ UNCHANGED <<stop, begun, sh, app, stack, key, losses, theirs, race>>

Disconnect ==
    /\ where = "disconnect" /\ Job
    /\ IF sh.streaming
       THEN sh' = [sh EXCEPT !.streaming = FALSE] ELSE UNCHANGED sh
    /\ Goto("abort")
    /\ UNCHANGED <<l, stop, begun, app, stack, key, losses, theirs, race>>

----------------------------------------------------------------------------
(* The stream loop of the session, reconnect                               *)

Ask ==
    /\ where # "idle" /\ ~stop.asked
    /\ stop' = [stop EXCEPT !.asked = TRUE]
    /\ UNCHANGED <<where, l, begun, sh, app, stack, key, losses, theirs, race>>

CancelWaits ==
    /\ stop.asked /\ ~stop.cancelled /\ where # "idle"
    /\ stop' = [stop EXCEPT !.cancelled = TRUE]
    /\ sh' = [sh EXCEPT !.cancel = TRUE]
    /\ UNCHANGED <<where, l, begun, app, stack, key, losses, theirs, race>>

PlayStopped ==
    /\ where = "play" /\ stop.asked
    /\ DisconnectThen("idle")
    /\ UNCHANGED <<stop, begun, sh, app, stack, key, losses, theirs, race>>

\* check_disconnected: once per lost connection.
PlayLost ==
    /\ where = "play" /\ (sh.lost \/ sh.stalled)
    /\ sh' = [sh EXCEPT !.lost = FALSE]
    /\ With("between", [l EXCEPT !.mode = "reconnect", !.attempt = 1])
    /\ UNCHANGED <<stop, begun, app, stack, key, losses, theirs, race>>

GiveUp ==
    /\ where = "between" /\ (stop.asked \/ l.attempt > Attempts)
    /\ DisconnectThen("over")
    /\ UNCHANGED <<stop, begun, sh, app, stack, key, losses, theirs, race>>

\* restart_host on a stalled stack: the controller is reset, a new BtHost
\* knows neither the device nor the stream.
NewStack ==
    /\ where = "between" /\ Job /\ ~stop.asked /\ l.attempt <= Attempts /\ sh.stalled
    /\ With("begin", [l EXCEPT !.mode = "fresh", !.attempt = @ + 1])
    /\ sh' = NewShared /\ app' = 0
    /\ av' = [d \in Device |-> NoSignaling] /\ acl' = [d \in Device |-> "none"]
    /\ dead' = FALSE
    /\ UNCHANGED <<stop, begun, cids, gone, key, losses, theirs, race>>

\* reconnect: nothing after a cancel; a connection the device opened itself
\* is looked at first.
Reconnect ==
    /\ where = "between" /\ Job /\ ~stop.asked /\ l.attempt <= Attempts /\ ~sh.stalled
    /\ LET m == [l EXCEPT !.mode = "reconnect", !.attempt = @ + 1]
       IN  \/ sh.cancel /\ With("between", m)
           \/ /\ ~sh.cancel
              /\ IF app # 0 /\ av[Target].cid = app /\ IsOpen(av[Target])
                 THEN With("devWait", m) ELSE With("anew", m)
    /\ UNCHANGED <<stop, begun, sh, app, stack, key, losses, theirs, race>>

DeviceOpened == sh.streamDone = TRUE /\ sh.config

\* a2dp_from_device: its capabilities, or the stream it configured, or (by
\* the timeout, or the cancel) neither.
DevWait ==
    /\ where = "devWait"
    /\ \/ /\ sh.connected /\ Goto("device")
       \/ /\ ~sh.connected /\ DeviceOpened /\ Goto("adopt")
       \/ /\ ~sh.connected /\ ~DeviceOpened /\ Goto("anew")
    /\ UNCHANGED <<l, stop, begun, sh, app, stack, key, losses, theirs, race>>

OnDevice ==
    /\ where = "device"
    /\ sh' = [sh EXCEPT !.lost = FALSE, !.streamDone = Nil, !.startDone = Nil,
                        !.fail = Nil]
    /\ Goto("configure")
    /\ UNCHANGED <<l, stop, begun, app, stack, key, losses, theirs, race>>

\* start_device_stream: adopt_device_stream compares the stream with ours.
Adopt ==
    /\ where = "adopt" /\ Job
    /\ \E same \in BOOLEAN :
          IF same THEN Goto("adopted") ELSE Goto("anew")
    /\ UNCHANGED <<l, stop, begun, sh, app, stack, key, losses, theirs, race>>

Adopted ==
    /\ where = "adopted"
    /\ sh' = [sh EXCEPT !.connected = TRUE, !.lost = FALSE, !.startDone = Nil,
                        !.fail = Nil]
    /\ Goto("start")
    /\ UNCHANGED <<l, stop, begun, app, stack, key, losses, theirs, race>>

Anew ==
    /\ where = "anew"
    /\ sh' = [sh EXCEPT !.connected = FALSE, !.streaming = FALSE, !.lost = FALSE,
                        !.connectDone = Nil, !.streamDone = Nil,
                        !.startDone = Nil, !.fail = Nil]
    /\ Goto("leftover")
    /\ UNCHANGED <<l, stop, begun, app, stack, key, losses, theirs, race>>

FailedAgain ==
    /\ where = "failed" /\ l.mode # "connect"
    /\ sh' = [sh EXCEPT !.fail = l.err]
    /\ Goto("between")
    /\ UNCHANGED <<l, stop, begun, app, stack, key, losses, theirs, race>>

\* A session that lost its device for good drops the link, too.
Over ==
    /\ where = "over"
    /\ \/ Goto("idle") /\ UNCHANGED l
       \/ With("dropAcl", [l EXCEPT !.next = "idle"])
    /\ UNCHANGED <<stop, begun, sh, app, stack, key, losses, theirs, race>>

----------------------------------------------------------------------------
(* The BTstack thread                                                      *)

\* SIGNALING_CONNECTION_ESTABLISHED of connection c to d: an event of another
\* connection than the current one is ignored.
OnEstablished(d, c) ==
    IF app \in {0, c}
    THEN /\ app' = c
         /\ sh' = [sh EXCEPT !.con = d, !.config = FALSE, !.streamDone = Nil]
    ELSE UNCHANGED <<app, sh>>

\* SIGNALING_CONNECTION_RELEASED of connection c: the current one is reported
\* lost; with no current connection it only ends the wait of RelWait.
OnReleased(c) ==
    IF app = c
    THEN /\ app' = 0
         /\ sh' = [sh EXCEPT !.connected = FALSE, !.streaming = FALSE, !.lost = TRUE]
         /\ losses' = [losses EXCEPT ![c] = @ + 1]
    ELSE UNCHANGED <<app, sh, losses>>

\* Connection Complete: a page answered, or a link the device opened.
LinkUp(d) ==
    /\ Job /\ ~dead /\ acl[d] \in {"none", "paging"}
    /\ acl' = [acl EXCEPT ![d] = "open"]
    /\ UNCHANGED <<session, sh, app, av, cids, gone, dead, key, losses, theirs, race>>

\* A page not answered, or refused by the controller; the connection
\* waiting for it fails.
PageFails ==
    /\ Job /\ ~dead /\ acl[Target] = "paging"
    /\ acl' = [acl EXCEPT ![Target] = "none"]
    /\ IF av[Target].st = "pending"
       THEN /\ av' = [av EXCEPT ![Target] = NoSignaling]
            /\ \E f \in {"NoAnswer", "Other"} : Failing(av[Target].cid, f)
       ELSE UNCHANGED <<av, app, sh>>
    /\ UNCHANGED <<session, cids, gone, dead, key, losses, theirs, race>>

SignalingUp ==
    /\ Job /\ ~dead /\ acl[Target] = "open" /\ av[Target].st = "pending"
    /\ av' = [av EXCEPT ![Target].st = "open"]
    /\ OnEstablished(Target, av[Target].cid)
    /\ key' = IF key = Nil THEN "new" ELSE key      \* paired on the way
    /\ UNCHANGED <<session, acl, cids, gone, dead, losses, theirs, race>>

\* The SDP query, the authentication or L2CAP failed on a link that is up.
SignalingFails ==
    /\ Job /\ ~dead /\ acl[Target] = "open" /\ av[Target].st = "pending"
    /\ av' = [av EXCEPT ![Target] = NoSignaling]
    /\ \E f \in {"AuthFailed", "LinkLost", "Other"} : Failing(av[Target].cid, f)
    /\ UNCHANGED <<session, acl, cids, gone, dead, key, losses, theirs, race>>

\* The device opens A2DP itself on its link; without a key it pairs, with
\* bonding or without.
DeviceOpens(d) ==
    /\ Job /\ ~dead /\ acl[d] = "open" /\ av[d].st = "none" /\ cids < MaxCid
    /\ cids' = cids + 1
    /\ av' = [av EXCEPT ![d] = [NoSignaling EXCEPT !.cid = cids + 1, !.st = "open"]]
    /\ OnEstablished(d, cids + 1)
    /\ key' \in {key, IF d = Target /\ key = Nil THEN "new" ELSE key}
    /\ theirs' = theirs \cup {d}
    /\ UNCHANGED <<session, acl, gone, dead, losses, race>>

\* The capability discovery of a connection is complete.
Capabilities(d) ==
    /\ Job /\ ~dead /\ av[d].st = "open" /\ ~av[d].caps /\ av[d].stm = "none"
    /\ av' = [av EXCEPT ![d].caps = TRUE]
    /\ sh' = [sh EXCEPT !.connected = TRUE, !.connectDone = TRUE]
    /\ UNCHANGED <<session, app, acl, cids, gone, dead, key, losses, theirs, race>>

\* The device configures and opens the stream itself: no discovery then.
DeviceConfigures(d) ==
    /\ Job /\ ~dead /\ av[d].st = "open" /\ ~av[d].caps /\ av[d].stm = "none"
    /\ av' = [av EXCEPT ![d].stm = "opened"]
    /\ sh' = [sh EXCEPT !.config = TRUE, !.streamDone = TRUE]
    /\ UNCHANGED <<session, app, acl, cids, gone, dead, key, losses, theirs, race>>

\* STREAM_ESTABLISHED, or a refusal (its failure, COMMAND_REJECTED).
StreamAnswer(d) ==
    /\ Job /\ ~dead /\ av[d].st = "open" /\ av[d].stm = "configuring"
    /\ \E ok \in BOOLEAN :
          /\ av' = [av EXCEPT ![d].stm = IF ok THEN "opened" ELSE "refused"]
          /\ sh' = [sh EXCEPT !.streamDone = ok, !.config = ok \/ @]
    /\ UNCHANGED <<session, app, acl, cids, gone, dead, key, losses, theirs, race>>

\* STREAM_STARTED, or a rejected START: only a wait not yet answered.
StartAnswer(d) ==
    /\ Job /\ ~dead /\ av[d].st = "open" /\ av[d].stm = "starting"
    /\ \/ /\ av' = [av EXCEPT ![d].stm = "started"]
          /\ sh' = [sh EXCEPT !.streaming = TRUE, !.startDone = TRUE]
       \/ /\ av' = [av EXCEPT ![d].stm = "opened"]
          /\ sh' = [sh EXCEPT !.startDone = IF @ = Nil THEN FALSE ELSE @]
    /\ UNCHANGED <<session, app, acl, cids, gone, dead, key, losses, theirs, race>>

\* STREAM_SUSPENDED, STREAM_RELEASED: by the device, the connection stays.
Suspended(d) ==
    /\ Job /\ ~dead /\ av[d].stm = "started" /\ av[d].cid = app
    /\ av' = [av EXCEPT ![d].stm = "opened"]
    /\ sh' = [sh EXCEPT !.streaming = FALSE]
    /\ UNCHANGED <<session, app, acl, cids, gone, dead, key, losses, theirs, race>>

\* The release of a connection: asked for by us, or the device's own.
Released(d) ==
    /\ Job /\ ~dead /\ IsOpen(av[d])
    /\ av' = [av EXCEPT ![d] = NoSignaling]
    /\ OnReleased(av[d].cid)
    /\ UNCHANGED <<session, acl, cids, gone, dead, key, theirs, race>>

\* A link goes down: BTstack first closes what ran on it.
LinkDown(d) ==
    /\ Job /\ acl[d] \in {"open", "closing"} /\ ~dead
    /\ acl' = [acl EXCEPT ![d] = "none"]
    /\ av' = [av EXCEPT ![d] = NoSignaling]
    /\ gone' = d
    /\ CASE IsOpen(av[d]) -> OnReleased(av[d].cid)
         [] av[d].st = "pending" ->
               Failing(av[d].cid, "LinkLost") /\ UNCHANGED losses
         [] OTHER -> UNCHANGED <<app, sh, losses>>
    /\ UNCHANGED <<session, cids, dead, key, theirs, race>>

\* Disconnection Complete: another link than that of A2DP leaves the stream
\* alone; a live connection is reported lost.
Disconnection ==
    /\ gone # Nil
    /\ LET other == sh.con \notin {Nil, gone}
           live  == ~other /\ (sh.connected \/ sh.streaming)
       IN  /\ sh' = [sh EXCEPT
                 !.con = IF other THEN @ ELSE Nil,
                 !.connected = @ /\ ~live,
                 !.streaming = @ /\ ~live,
                 !.lost = @ \/ live]
           /\ losses' = IF live /\ app # 0
                        THEN [losses EXCEPT ![app] = @ + 1] ELSE losses
    /\ gone' = Nil
    /\ UNCHANGED <<session, app, av, acl, cids, dead, key, theirs, race>>

\* BTstack drops an idle link once, 10 s after it came up.
IdleClose ==
    /\ Job /\ ~dead /\ acl[Target] = "open" /\ av[Target].st = "none"
    /\ acl' = [acl EXCEPT ![Target] = "closing"]
    /\ race' = (race \/ where = "establish")
    /\ UNCHANGED <<session, sh, app, av, cids, gone, dead, key, losses, theirs>>

\* Nothing looks at it but check_stalled: a controller that died earlier is
\* one that did nothing since then and dies here.
ControllerDies ==
    /\ MayDie /\ ~dead /\ Job /\ where \in {"establish", "check"}
    /\ dead' = TRUE
    /\ UNCHANGED <<session, sh, app, av, acl, cids, gone, key, losses, theirs, race>>

----------------------------------------------------------------------------

Session ==
    \/ Begin \/ Leftover \/ RelWait \/ Forget \/ ResetShared \/ WaitClosing
    \/ Establish \/ ConnectAnswered \/ ConnectCancelled \/ ConnectTimedOut
    \/ CheckStalled \/ Classify \/ Abort \/ Outlived
    \/ Failed \/ AuthStatus \/ DropAcl \/ AclWait \/ Pause \/ RestoreKey
    \/ Configure \/ ConfWait \/ StartStream \/ StartWait \/ Disconnect
    \/ PlayStopped \/ PlayLost \/ GiveUp \/ NewStack \/ Reconnect \/ DevWait
    \/ OnDevice \/ Adopt \/ Adopted \/ Anew \/ FailedAgain \/ Over

Stack ==
    \/ PageFails \/ SignalingUp \/ SignalingFails
    \/ Disconnection \/ IdleClose \/ ControllerDies
    \/ \E d \in Device :
          LinkUp(d) \/ Capabilities(d) \/ DeviceConfigures(d) \/ StreamAnswer(d)
            \/ StartAnswer(d) \/ Suspended(d) \/ Released(d) \/ LinkDown(d)
    \/ \E d \in Opens : DeviceOpens(d)

HostNext == Start \/ Ask \/ CancelWaits \/ Session \/ Stack

HostSpec == HostInit /\ [][HostNext]_hostVars

----------------------------------------------------------------------------

Locals ==
    [mode : {"connect", "reconnect", "fresh"}, err : Failure \cup {Nil},
     attempt : 1 .. Attempts + 1, repaired : BOOLEAN, collided : BOOLEAN,
     dropped : {Nil, "old", "new"},
     next : {"closing", "outlived", "failed", "pause", "begin", "idle", "between", "over"}]

Shared ==
    [connected : BOOLEAN, streaming : BOOLEAN, lost : BOOLEAN,
     connectDone : Done, streamDone : Done, startDone : Done,
     cancel : BOOLEAN, fail : Failure \cup {Nil}, con : Device \cup {Nil},
     config : BOOLEAN, stalled : BOOLEAN]

Signaling ==
    [cid : 0 .. MaxCid, caps : BOOLEAN, st : {"none", "pending", "open", "closing"},
     stm : {"none", "configuring", "refused", "opened", "starting", "started"}]

HostTypeOK ==
    /\ where \in {"idle", "begin", "leftover", "relWait", "forget", "reset", "closing",
               "establish", "wait", "check", "classify", "abort",
               "outlived", "failed", "auth", "dropAcl", "aclWait", "pause",
               "restore", "configure", "confWait", "start", "startWait",
               "disconnect", "play", "between", "devWait", "device", "adopt",
               "adopted", "anew", "over"}
    /\ l \in Locals
    /\ stop \in [asked : BOOLEAN, cancelled : BOOLEAN]
    /\ sh \in Shared
    /\ app \in 0 .. MaxCid
    /\ av \in [Device -> Signaling]
    /\ acl \in [Device -> {"none", "paging", "open", "closing"}]
    /\ key \in {Nil, "old", "new"}
    /\ cids \in 0 .. MaxCid
    /\ gone \in {Nil} \cup Device
    /\ dead \in BOOLEAN /\ race \in BOOLEAN
    /\ begun \in 0 .. MaxSession
    /\ losses \in [Cid -> Nat] /\ theirs \subseteq Device

\* The connection of the target that the session believes it has.
Ours == app # 0 /\ av[Target].st = "open" /\ av[Target].cid = app

\* A session that plays learns of a lost connection: whatever order the
\* release, the disconnection and the session's own resets came in, the
\* connection is there or the loss is flagged (check_disconnected).  (Another
\* device that opened A2DP may be the current connection while a reconnect
\* waits for the target's own: a2dp_from_device then clears the flag.)
LossKnown ==
    (where = "play" /\ gone = Nil /\ ~sh.lost) => Ours \/ theirs \ {Target} # {}

\* And only of a lost one: an abort, another device's link or the release of
\* an older connection never makes a playing session think it lost its own.
\* (A connection the device opened itself and dropped while the session set
\* up its own may: its loss is flagged after the flag was cleared.)
LossIsReal == (where = "play" /\ sh.lost) => ~Ours \/ theirs # {}

\* ConnectionLost is sent at most once for a connection, though its release
\* and its link's disconnection both report it.  (A device that opened A2DP
\* itself may bring a second one: its capabilities set `connected` while the
\* number of a connection that failed is still the current one.)
LossOnce == \A c \in Cid : losses[c] > 1 => theirs # {}

\* A failed pairing costs no key: whatever the order of the stop, the
\* failures and a pairing of the device's own, a device that has a link key
\* keeps one, in the store or in the hands of the session that dropped it to
\* pair again (connect_retrying), and in the store when no session runs.  (A
\* connect that returns with the capabilities of another connection than its
\* own, see ConnectedIsTarget, forgets the key it dropped.)
KeyKept ==
    [][key # Nil \/ l.dropped # Nil =>
           \/ key' # Nil \/ (l'.dropped # Nil /\ where' # "idle")
           \/ where = "wait" /\ where' = "configure" /\ ~Ours]_hostVars

\* What the doc of connect_retrying says: a key that was dropped to pair again
\* is stored again when the pairing fails, whatever else the stack reports.
KeyStoredAgain ==
    [][key # Nil \/ l.dropped # Nil =>
           key' # Nil \/ (l'.dropped # Nil /\ where' # "idle")]_hostVars

\* A connection set up while its link goes down is never paged: only a link
\* that began to close between the last look and the establish can do that.
PageNotDropped ==
    (where = "wait" /\ av[Target].st = "pending" /\ acl[Target] = "closing") => race

\* connect returns the capabilities of the target: a session that goes on to
\* configure has the target's connection, not what another device reported.
ConnectedIsTarget == (where = "configure" /\ gone = Nil /\ sh.connected) => Ours

\* A stop ends the session: every wait ends by its timeout even when the
\* cancel was cleared by a connect that began after it.
StopEnds == []<>(stop.asked => where = "idle")

\* A session and the stack agree: each loss is known, real and told once,
\* whichever of the release and the disconnection comes first, and no page is
\* lost to a link that goes down.
HostSafe == HostTypeOK /\ LossKnown /\ LossIsReal /\ LossOnce /\ PageNotDropped
=============================================================================
