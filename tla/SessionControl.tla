--------------------------- MODULE SessionControl ---------------------------
(***************************************************************************)
(* The control plane of BlueCaster's core: crates/core/src/service.rs (the *)
(* Service and the Inner it shares with its threads) as core/src/state.rs  *)
(* calls it.                                                               *)
(*                                                                         *)
(* The threads are the callers ("clients": one per request of the window,  *)
(* the tray or the command line) and the session threads that              *)
(* Service::start_session spawns.  Every step is what a thread does        *)
(* between two points where another thread can be noticed: a lock, an      *)
(* atomic flag, a join, a wait on the Bluetooth stack.                     *)
(*                                                                         *)
(* A session's own work (stream.rs) appears here as far as the control     *)
(* plane can tell: which stack it uses, when it waits where a stop has to  *)
(* cancel it, when it is done.  BTstack is one per process                 *)
(* (btstack_sys::run refuses a second run loop), so one variable holds the *)
(* life cycle of the stack.                                                *)
(***************************************************************************)
EXTENDS Naturals, FiniteSets

CONSTANTS
    Client,      \* threads that call the service
    Session,     \* names for session threads
    Request,     \* what a session can be asked to play (a StreamRequest)
    None,        \* Rust's None
    OpsOf,       \* [Client -> SUBSET Operation]: what each client calls
    MaxTicket,   \* bound: no call that takes a ticket once this many are out
    MaxPower,    \* bound: resumes from sleep and changes of adapter settings
    SlowRadio    \* BOOLEAN: a stopped scan may outlast SCAN_END_WAIT

Operation == {"start", "disconnect", "restart", "release", "quit", "reload",
              "scan", "stop_scan", "probe", "source"}

Thread == Client \cup Session

ASSUME ThreadsDisjoint == Client \cap Session = {}
ASSUME NoneIsNone == None \notin Client \cup Session \cup Request
ASSUME OpsOfType == OpsOf \in [Client -> SUBSET Operation]
ASSUME BoundsType == MaxTicket \in Nat /\ MaxPower \in Nat /\ SlowRadio \in BOOLEAN

VARIABLES
    pc,         \* where each thread is
    op,         \* the call a client is making
    ticket,     \* its ticket; for a Bluetooth restart: the latest one then
    req,        \* what its call starts (None: nothing)
    held,       \* the JoinHandle it took out of `worker`
    control,    \* Service.control: the client holding it
    latest,     \* Service.latest
    worker,     \* Service.worker
    lastReq,    \* Service.last_request
    stop,       \* Inner.stop
    running,    \* Inner.running
    waiting,    \* Inner.waiting
    turnedOff,  \* Inner.turned_off
    scanning,   \* Inner.scanning
    change,     \* Inner.source_change
    state,      \* Inner.state
    early,      \* CoreState shows "connecting" before the service says so
    playing,    \* what each session plays
    slot,       \* Inner.host holds a stack
    slotLock,   \* the thread holding the lock of Inner.host across steps
    stack,      \* the life of the one BTstack run loop
    hosts,      \* threads holding the Arc of the stack that is up
    cancelled,  \* its State.cancel (bt-host)
    scanStop,   \* its State.scan_stop (bt-host)
    streamed,   \* Inner.streamed
    carried,    \* sessions past their first connection (StreamedMark)
    stale,      \* PowerState.stale
    reload,     \* Inner.reload
    power,      \* history: resumes and settings changes so far
    preSleep,   \* history: the stack was started before the last resume
    outdated,   \* history: the stack was started with other adapter settings
    used,       \* history: a session connected on the stack
    served,     \* history: ticket of the last start or stop carried out
    disc        \* history: ticket of the last Disconnect asked for

client  == <<op, ticket, req, held>>
shared  == <<worker, lastReq, stop, running, waiting, turnedOff, change, playing>>
ui      == <<state, early>>
stackVars == <<slot, slotLock, stack, hosts, cancelled, scanStop, streamed, used>>
powerVars == <<stale, reload, power, preSleep, outdated>>
vars == <<pc, client, control, latest, shared, scanning, ui, stackVars, carried,
          powerVars, served, disc>>

ClientPC == {"idle", "control", "end_scan", "scan_wait", "stop", "cancel", "join",
             "launch", "release_link", "take", "shut", "reconnect", "driver",
             "check", "mark", "ensure", "settle", "opening", "inquire", "inquiry",
             "tool_slot", "tool", "reload_check", "reload_mark"}
SessionPC == {"dead", "host", "take", "shut", "ensure", "settle", "opening", "got",
              "connect", "paging", "retry", "restart", "reconnect", "streaming", "waiting",
              "take_end", "shut_end", "closing", "ending"}
StreamState == {"Idle", "Connecting", "Streaming", "Reconnecting", "Error"}

Live(s) == pc[s] # "dead"

\* Inner::notify: the state, and with it what the windows show
Notify(s) == state' = s /\ early' = FALSE
\* What CoreState shows of the stream
Shown == IF early THEN "Connecting" ELSE state

Init ==
    /\ pc = [t \in Thread |-> IF t \in Client THEN "idle" ELSE "dead"]
    /\ op = [c \in Client |-> None]
    /\ ticket = [c \in Client |-> 0]
    /\ req = [c \in Client |-> None]
    /\ held = [c \in Client |-> None]
    /\ control = None
    /\ latest = 0
    /\ worker = None
    /\ lastReq = None
    /\ stop = FALSE
    /\ running = FALSE
    /\ waiting = FALSE
    /\ turnedOff = FALSE
    /\ scanning = FALSE
    /\ change = None
    /\ state = "Idle"
    /\ early = FALSE
    /\ playing = [s \in Session |-> None]
    /\ slot = FALSE
    /\ slotLock = None
    /\ stack = "none"
    /\ hosts = {}
    /\ cancelled = FALSE
    /\ scanStop = FALSE
    /\ streamed = FALSE
    /\ carried = {}
    /\ stale = FALSE
    /\ reload = FALSE
    /\ power = 0
    /\ preSleep = FALSE
    /\ outdated = FALSE
    /\ used = FALSE
    /\ served = 0
    /\ disc = 0

-----------------------------------------------------------------------------
(* Calls: the part of a request up to its first lock.                      *)

Go(t, to) == pc' = [pc EXCEPT ![t] = to]

\* A client's call returns: its locals are gone
Return(c) ==
    /\ op' = [op EXCEPT ![c] = None]
    /\ ticket' = [ticket EXCEPT ![c] = 0]
    /\ req' = [req EXCEPT ![c] = None]

\* The same for a step that may or may not be the last of a call
Leave(t, to) == Go(t, to) /\ IF to = "idle" THEN Return(t) ELSE UNCHANGED <<op, ticket, req>>

Call(c, what) ==
    /\ pc[c] = "idle"
    /\ what \in OpsOf[c]
    /\ op' = [op EXCEPT ![c] = what]

\* Service::ticket
TakeTicket(c) ==
    /\ latest' = latest + 1
    /\ ticket' = [ticket EXCEPT ![c] = latest + 1]

\* CoreState::begin_stream: "connecting" is shown at once, the ticket is
\* taken now, start_streaming_for runs on a thread of its own
CallStart(c, r) ==
    /\ Call(c, "start")
    /\ latest < MaxTicket
    /\ TakeTicket(c)
    /\ req' = [req EXCEPT ![c] = r]
    /\ early' = TRUE
    /\ Go(c, "control")
    /\ UNCHANGED <<held, control, shared, scanning, state, stackVars, carried,
                   powerVars, served, disc>>

\* CoreState::stop, then Service::disconnect_for on its own thread
CallDisconnect(c) ==
    /\ Call(c, "disconnect")
    /\ latest < MaxTicket
    /\ TakeTicket(c)
    /\ req' = [req EXCEPT ![c] = None]
    /\ disc' = latest + 1
    /\ Go(c, "control")
    /\ UNCHANGED <<held, control, shared, scanning, ui, stackVars, carried, powerVars, served>>

\* reconnect_after_restart
ReconnectAfterRestart(stopping, off, last) == IF stopping \/ off THEN None ELSE last

\* Service::restart_adapter reads what it will reconnect before it stops
\* anything
CallRestart(c) ==
    /\ Call(c, "restart")
    /\ latest < MaxTicket
    /\ ticket' = [ticket EXCEPT ![c] = latest]
    /\ req' = [req EXCEPT ![c] = ReconnectAfterRestart(running /\ stop, turnedOff, lastReq)]
    /\ Go(c, "control")
    /\ UNCHANGED <<held, control, latest, shared, scanning, ui, stackVars, carried,
                   powerVars, served, disc>>

\* Service::release_adapter forgets the session without `control` and
\* without a ticket; Service::shutdown (quitting) forgets nothing
CallShutdown(c, what) ==
    /\ what \in {"release", "quit"}
    /\ Call(c, what)
    /\ lastReq' = IF what = "release" THEN None ELSE lastReq
    /\ req' = [req EXCEPT ![c] = None]
    /\ Go(c, "control")
    /\ UNCHANGED <<ticket, held, control, latest, worker, stop, running, waiting, turnedOff,
                   change, playing, scanning, ui, stackVars, carried, powerVars, served, disc>>

\* Service::scan_devices, Service::probe_adapter: end_wait_for_device stops a
\* session only when it waits for its headphones
CallTool(c, what) ==
    /\ what \in {"scan", "probe"}
    /\ Call(c, what)
    /\ Go(c, IF waiting THEN "control" ELSE "check")
    /\ UNCHANGED <<ticket, req, held, control, latest, shared, scanning, ui, stackVars, carried,
                   powerVars, served, disc>>

\* Service::stop_scan: needs the slot's lock only when a scan runs
StopScan(c) ==
    /\ pc[c] = "idle"
    /\ "stop_scan" \in OpsOf[c]
    /\ scanning /\ slotLock = None /\ slot
    /\ scanStop' = TRUE
    /\ cancelled' = TRUE
    /\ UNCHANGED <<pc, client, control, latest, shared, scanning, ui, slot, slotLock, stack,
                   hosts, streamed, used, carried, powerVars, served, disc>>

\* Service::change_source: only while a session streams and no start or stop
\* is under way
ChangeSource(c, r) ==
    /\ pc[c] = "idle"
    /\ "source" \in OpsOf[c]
    /\ control = None
    /\ running /\ state = "Streaming"
    /\ lastReq # None
    /\ lastReq' = r
    /\ change' = r
    /\ UNCHANGED <<pc, client, control, latest, worker, stop, running, waiting, turnedOff,
                   playing, scanning, ui, stackVars, carried, powerVars, served, disc>>

\* The chip or firmware setting was saved; CoreState::restart_for_firmware
\* calls Service::reload_adapter
CallReload(c) ==
    /\ Call(c, "reload")
    /\ power < MaxPower
    /\ power' = power + 1
    /\ outdated' = (stack \in {"opening", "up"})
    /\ Go(c, "reload_check")
    /\ UNCHANGED <<ticket, req, held, control, latest, shared, scanning, ui, stackVars, carried,
                   stale, reload, preSleep, served, disc>>

\* The idle stack is released now, one in use at its next use
ReloadCheck(c) ==
    /\ pc[c] = "reload_check"
    /\ LET idle == ~scanning /\ Shown \in {"Idle", "Error"} IN
       IF idle /\ ~running
         THEN reload' = FALSE /\ Go(c, "take")
         ELSE reload' = reload /\ Go(c, "reload_mark")
    /\ UNCHANGED <<client, control, latest, shared, scanning, ui, stackVars, carried, stale,
                   power, preSleep, outdated, served, disc>>

\* mutant: looks at the slot without waiting for the thread that starts a stack
ReloadMarkUnlocked(c) ==
    /\ pc[c] = "reload_mark"
    /\ reload' = slot
    /\ Leave(c, "idle")
    /\ UNCHANGED <<held, control, latest, shared, scanning, ui, stackVars, carried, stale,
                   power, preSleep, outdated, served, disc>>

\* reload.store(self.host().is_some()): host() waits for the slot's lock
ReloadMark(c) ==
    /\ pc[c] = "reload_mark"
    /\ slotLock = None
    /\ reload' = slot
    /\ Leave(c, "idle")
    /\ UNCHANGED <<held, control, latest, shared, scanning, ui, stackVars, carried, stale,
                   power, preSleep, outdated, served, disc>>

-----------------------------------------------------------------------------
(* Under `control`: one start or stop at a time.                           *)

Ticketed(c) == op[c] \in {"start", "disconnect"}

\* mutant: the ticket is not compared again under the lock
SkippedNever(c) == FALSE

\* A newer start or stop was asked for meanwhile (it runs instead)
Skipped(c) == Ticketed(c) /\ ticket[c] # latest

\* Service::control_for, and stop_streaming for the calls without a ticket; a
\* start or stop that is no longer the latest is skipped
ControlFor(c) ==
    /\ pc[c] = "control"
    /\ control = None
    /\ IF Skipped(c)
         THEN Leave(c, "idle") /\ UNCHANGED <<control, lastReq>>
         ELSE /\ control' = c
              /\ Leave(c, IF op[c] = "start" THEN "end_scan" ELSE "stop")
              /\ lastReq' = IF op[c] = "disconnect" THEN None ELSE lastReq
    /\ UNCHANGED <<held, latest, worker, stop, running, waiting, turnedOff, change, playing,
                   scanning, ui, stackVars, carried, powerVars, served, disc>>

\* Service::end_scan: a running scan is told to stop ...
EndScan(c) ==
    /\ pc[c] = "end_scan"
    /\ \/ ~scanning /\ Go(c, "stop") /\ UNCHANGED <<scanStop, cancelled>>
       \/ /\ scanning /\ slotLock = None
          /\ scanStop' = (slot \/ scanStop)
          /\ cancelled' = (slot \/ cancelled)
          /\ Go(c, "scan_wait")
    /\ UNCHANGED <<client, control, latest, shared, scanning, ui, slot, slotLock, stack, hosts,
                   streamed, used, carried, powerVars, served, disc>>

\* ... and waited for, SCAN_END_WAIT at most: a scan that did not take the
\* stop outlasts it
ScanWait(c) ==
    /\ pc[c] = "scan_wait"
    /\ ~scanning \/ ~scanStop \/ SlowRadio
    /\ Go(c, "stop")
    /\ UNCHANGED <<client, control, latest, shared, scanning, ui, stackVars, carried, powerVars,
                   served, disc>>

\* What follows stop_session in each of its callers
AfterStop(c) ==
    CASE op[c] = "start" -> "launch"
      [] op[c] = "disconnect" -> "release_link"
      [] op[c] \in {"restart", "release", "quit"} -> "take"
      [] OTHER -> "check"

\* ... and whether the caller goes on holding `control`
ControlAfterStop(c) == IF Ticketed(c) THEN control ELSE None

\* mutant: the session that runs is not stopped
StopSessionNever(c) ==
    /\ pc[c] = "stop"
    /\ Go(c, AfterStop(c))
    /\ control' = ControlAfterStop(c)
    /\ UNCHANGED <<op, ticket, req, held, latest, shared, scanning, ui, stackVars, carried, powerVars,
                   served, disc>>

\* Service::stop_session: the worker's handle is taken and the session told
\* to stop.  Without a session, disconnect_for says Idle: a start skipped for
\* this stop left "connecting" shown
StopSession(c) ==
    /\ pc[c] = "stop"
    /\ IF worker = None
         THEN /\ Go(c, AfterStop(c))
              /\ control' = ControlAfterStop(c)
              /\ IF op[c] = "disconnect" THEN Notify("Idle") ELSE UNCHANGED ui
              /\ UNCHANGED <<held, worker, stop>>
         ELSE /\ held' = [held EXCEPT ![c] = worker]
              /\ worker' = None
              /\ stop' = TRUE
              /\ Go(c, "cancel")
              /\ UNCHANGED <<control, ui>>
    /\ UNCHANGED <<op, ticket, req, latest, lastReq, running, waiting, turnedOff, change, playing,
                   scanning, stackVars, carried, powerVars, served, disc>>

\* self.host() waits for the slot's lock; cancel_pending_waits on the stack
CancelWaits(c) ==
    /\ pc[c] = "cancel"
    /\ slotLock = None
    /\ cancelled' = (cancelled \/ slot)
    /\ Go(c, "join")
    /\ UNCHANGED <<client, control, latest, shared, scanning, ui, slot, slotLock, stack, hosts,
                   scanStop, streamed, used, carried, powerVars, served, disc>>

\* t.join()
Join(c) ==
    /\ pc[c] = "join"
    /\ ~Live(held[c])
    /\ held' = [held EXCEPT ![c] = None]
    /\ Go(c, AfterStop(c))
    /\ control' = ControlAfterStop(c)
    /\ UNCHANGED <<op, ticket, req, latest, shared, scanning, ui, stackVars, carried, powerVars,
                   served, disc>>

\* Service::release_link (host() and drop_acl_link), then `control` is free
ReleaseLink(c) ==
    /\ pc[c] = "release_link"
    /\ slotLock = None
    /\ control' = None
    /\ served' = ticket[c]
    /\ Leave(c, "idle")
    /\ UNCHANGED <<held, latest, shared, scanning, ui, stackVars, carried, powerVars, disc>>

\* mutant: a change the last session did not take is left for this one
LaunchKeepsChange(c, s) ==
    /\ pc[c] = "launch"
    /\ ~Live(s)
    /\ worker' = s
    /\ pc' = [pc EXCEPT ![c] = "idle", ![s] = "host"]
    /\ playing' = [playing EXCEPT ![s] = req[c]]
    /\ lastReq' = req[c]
    /\ turnedOff' = FALSE
    /\ stop' = FALSE
    /\ running' = TRUE
    /\ Notify("Connecting")
    /\ control' = None
    /\ Return(c)
    /\ served' = ticket[c]
    /\ UNCHANGED <<held, latest, waiting, change, scanning, stackVars, carried, powerVars, disc>>

\* mutant: the stop of the last session is not cleared
LaunchKeepsStop(c, s) ==
    /\ pc[c] = "launch"
    /\ ~Live(s)
    /\ worker' = s
    /\ pc' = [pc EXCEPT ![c] = "idle", ![s] = "host"]
    /\ playing' = [playing EXCEPT ![s] = req[c]]
    /\ change' = None
    /\ lastReq' = req[c]
    /\ turnedOff' = FALSE
    /\ running' = TRUE
    /\ Notify("Connecting")
    /\ control' = None
    /\ Return(c)
    /\ served' = ticket[c]
    /\ UNCHANGED <<held, latest, stop, waiting, scanning, stackVars, carried, powerVars, disc>>

\* The rest of Service::start_session: the new session thread s
Launch(c, s) ==
    /\ pc[c] = "launch"
    /\ ~Live(s)
    /\ worker' = s
    /\ pc' = [pc EXCEPT ![c] = "idle", ![s] = "host"]
    /\ playing' = [playing EXCEPT ![s] = req[c]]
    /\ change' = None
    /\ lastReq' = req[c]
    /\ turnedOff' = FALSE
    /\ stop' = FALSE
    /\ running' = TRUE
    /\ Notify("Connecting")
    /\ control' = None
    /\ Return(c)
    /\ served' = ticket[c]
    /\ UNCHANGED <<held, latest, waiting, scanning, stackVars, carried, powerVars, disc>>

-----------------------------------------------------------------------------
(* The slot of the stack: ensure_host, shutdown_host, the tools.           *)

\* What follows shutdown_host in each of its callers
AfterShut(t) ==
    IF t \in Session THEN IF pc[t] \in {"take", "shut"} THEN "ensure" ELSE "closing"
    ELSE CASE op[t] = "restart" -> "reconnect"
           [] op[t] = "release" -> "driver"
           [] OTHER -> "idle"

\* Inner::shutdown_host: the stack is taken out of the slot under its lock ...
TakeHost(t) ==
    /\ pc[t] \in {"take", "take_end"}
    /\ slotLock = None
    /\ IF slot
         THEN /\ slot' = FALSE
              /\ stack' = "closing"
              /\ hosts' = {}
              /\ used' = FALSE
              /\ Leave(t, IF pc[t] = "take" THEN "shut" ELSE "shut_end")
         ELSE Leave(t, AfterShut(t)) /\ UNCHANGED <<slot, stack, hosts, used>>
    /\ UNCHANGED <<held, control, latest, shared, scanning, ui, slotLock, cancelled, scanStop,
                   streamed, carried, powerVars, served, disc>>

\* ... and shut down without it
ShutDown(t) ==
    /\ pc[t] \in {"shut", "shut_end"}
    /\ stack' = "none"
    /\ Leave(t, AfterShut(t))
    /\ UNCHANGED <<held, control, latest, shared, scanning, ui, slot, slotLock, hosts, cancelled,
                   scanStop, streamed, used, carried, powerVars, served, disc>>

\* Where a thread goes with a stack, and without one
WithHost(t) == IF t \in Session THEN "got" ELSE "inquire"

\* mutant: a session returns as a caller does
WithoutHostIdle(t) == IF t \in carried THEN "restart" ELSE "idle"

WithoutHost(t) == IF t \in Client THEN "idle" ELSE IF t \in carried THEN "restart" ELSE "closing"

\* Inner::ensure_host, a running stack that is fine (the controller answers)
KeepHost(t) ==
    /\ pc[t] = "ensure"
    /\ slotLock = None
    /\ slot /\ ~stale /\ ~reload
    /\ hosts' = hosts \cup {t}
    /\ Go(t, WithHost(t))
    /\ UNCHANGED <<client, control, latest, shared, scanning, ui, slot, slotLock, stack, cancelled,
                   scanStop, streamed, used, carried, powerVars, served, disc>>

\* Inner::ensure_host, no stack or one that has to go (left from before
\* sleep, other adapter settings, LE Audio switched, no answer to the probe):
\* it is shut down, the flags are cleared, all under the slot's lock
RenewHost(t) ==
    /\ pc[t] = "ensure"
    /\ slotLock = None
    /\ slotLock' = t
    /\ slot' = FALSE
    /\ stack' = IF slot THEN "none" ELSE stack
    /\ hosts' = {}
    /\ stale' = FALSE
    /\ reload' = FALSE
    /\ Go(t, "settle")
    /\ UNCHANGED <<client, control, latest, shared, scanning, ui, cancelled, scanStop, streamed,
                   used, carried, power, preSleep, outdated, served, disc>>

\* A call that ends without a stack: the scan's guard clears its mark, a new
\* session reports the error
GiveUpHost(t) ==
    /\ slotLock' = None
    /\ Leave(t, WithoutHost(t))
    /\ scanning' = IF t \in Client THEN FALSE ELSE scanning
    /\ IF t \in Session \ carried THEN Notify("Error") ELSE UNCHANGED ui

\* After wait_after_resume, BtHost::start: btstack_sys::run refuses a second
\* run loop (Busy)
OpenStack(t) ==
    /\ pc[t] = "settle"
    /\ IF stack = "none"
         THEN /\ stack' = "opening"
              /\ preSleep' = FALSE /\ outdated' = FALSE
              /\ Leave(t, "opening")
              /\ UNCHANGED <<slotLock, scanning, ui>>
         ELSE GiveUpHost(t) /\ UNCHANGED <<stack, preSleep, outdated>>
    /\ UNCHANGED <<held, control, latest, shared, slot, hosts, cancelled, scanStop, streamed,
                   used, carried, stale, reload, power, served, disc>>

\* mutant: the flag of the resume is cleared once the stack is up
StackUpClearsStale(t) ==
    /\ pc[t] = "opening"
    /\ stack' = "up"
    /\ slot' = TRUE
    /\ slotLock' = None
    /\ hosts' = {t}
    /\ cancelled' = FALSE
    /\ scanStop' = FALSE
    /\ streamed' = FALSE
    /\ used' = FALSE
    /\ stale' = FALSE
    /\ Go(t, WithHost(t))
    /\ UNCHANGED <<client, control, latest, shared, scanning, ui, carried, reload, power, preSleep,
                   outdated, served, disc>>

\* Inner::start_host succeeded
StackUp(t) ==
    /\ pc[t] = "opening"
    /\ stack' = "up"
    /\ slot' = TRUE
    /\ slotLock' = None
    /\ hosts' = {t}
    /\ cancelled' = FALSE
    /\ scanStop' = FALSE
    /\ streamed' = FALSE
    /\ used' = FALSE
    /\ Go(t, WithHost(t))
    /\ UNCHANGED <<client, control, latest, shared, scanning, ui, carried, powerVars, served, disc>>

\* ... or failed (both of its attempts)
StackFailed(t) ==
    /\ pc[t] = "opening"
    /\ stack' = "none"
    /\ GiveUpHost(t)
    /\ UNCHANGED <<held, control, latest, shared, slot, hosts, cancelled, scanStop, streamed,
                   used, carried, powerVars, served, disc>>

\* A resume from sleep (PowerState::resume): the stack is left from before it
Resume ==
    /\ power < MaxPower
    /\ power' = power + 1
    /\ stale' = TRUE
    /\ preSleep' = (stack \in {"opening", "up"})
    /\ UNCHANGED <<pc, client, control, latest, shared, scanning, ui, stackVars, carried, reload,
                   outdated, served, disc>>

\* Method::AdapterRestart after restart_adapter: begin_stream with what it
\* returned, as for a new start (a ticket of its own, the latest)
Reconnect(c) ==
    /\ pc[c] = "reconnect" /\ c \in Client
    /\ IF req[c] = None
         THEN Leave(c, "idle") /\ UNCHANGED <<latest, early>>
         ELSE /\ op' = [op EXCEPT ![c] = "start"]
              /\ TakeTicket(c)
              /\ early' = TRUE
              /\ Go(c, "control")
              /\ UNCHANGED req
    /\ UNCHANGED <<held, control, shared, scanning, state, stackVars, carried, powerVars,
                   served, disc>>

\* driver::assign / driver::restore: the elevated helper is done
DriverDone(c) ==
    /\ pc[c] = "driver"
    /\ Leave(c, "idle")
    /\ UNCHANGED <<held, control, latest, shared, scanning, ui, stackVars, carried, powerVars,
                   served, disc>>

\* scan_devices and probe_adapter are refused while a session runs, the probe
\* also during a scan; nothing is held after the check
Check(c) ==
    /\ pc[c] = "check"
    /\ Leave(c, IF running \/ (op[c] = "probe" /\ scanning) THEN "idle"
                ELSE IF op[c] = "scan" THEN "mark" ELSE "tool_slot")
    /\ UNCHANGED <<held, control, latest, shared, scanning, ui, stackVars, carried, powerVars,
                   served, disc>>

\* ScanningGuard::new and "initializing scan" (reported as Idle)
MarkScan(c) ==
    /\ pc[c] = "mark"
    /\ scanning' = TRUE
    /\ Notify("Idle")
    /\ Go(c, "ensure")
    /\ UNCHANGED <<client, control, latest, shared, stackVars, carried, powerVars, served, disc>>

\* BtHost::scan_with clears what an earlier stop left
Inquire(c) ==
    /\ pc[c] = "inquire"
    /\ cancelled' = (cancelled /\ c \notin hosts)
    /\ scanStop' = (scanStop /\ c \notin hosts)
    /\ Notify("Idle")
    /\ Go(c, "inquiry")
    /\ UNCHANGED <<client, control, latest, shared, scanning, slot, slotLock, stack, hosts,
                   streamed, used, carried, powerVars, served, disc>>

\* The inquiry (and the LE scan) ends: over, stopped, or its stack is gone
InquiryDone(c) ==
    /\ pc[c] = "inquiry"
    /\ Notify("Idle")
    /\ scanning' = FALSE
    /\ hosts' = hosts \ {c}
    /\ Leave(c, "idle")
    /\ UNCHANGED <<held, control, latest, shared, slot, slotLock, stack, cancelled, scanStop,
                   streamed, used, carried, powerVars, served, disc>>

\* mutant: the tool lets go of the slot while it runs
ToolUnlocked(c) ==
    /\ pc[c] = "tool_slot"
    /\ slotLock = None
    /\ slot' = FALSE
    /\ hosts' = {}
    /\ IF slot \/ stack = "none"
         THEN stack' = "tool" /\ Leave(c, "tool")
         ELSE Leave(c, "idle") /\ UNCHANGED stack
    /\ UNCHANGED <<held, control, latest, shared, scanning, ui, slotLock, cancelled, scanStop,
                   streamed, used, carried, powerVars, served, disc>>

\* Inner::tool: the stack in the slot is shut down and the tool runs in its
\* place, the slot's lock held throughout; Busy when a stack still closes
Tool(c) ==
    /\ pc[c] = "tool_slot"
    /\ slotLock = None
    /\ slot' = FALSE
    /\ hosts' = {}
    /\ IF slot \/ stack = "none"
         THEN stack' = "tool" /\ slotLock' = c /\ Leave(c, "tool")
         ELSE Leave(c, "idle") /\ UNCHANGED <<stack, slotLock>>
    /\ UNCHANGED <<held, control, latest, shared, scanning, ui, cancelled, scanStop, streamed,
                   used, carried, powerVars, served, disc>>

ToolDone(c) ==
    /\ pc[c] = "tool"
    /\ stack' = "none"
    /\ slotLock' = None
    /\ Leave(c, "idle")
    /\ UNCHANGED <<held, control, latest, shared, scanning, ui, slot, hosts, cancelled, scanStop,
                   streamed, used, carried, powerVars, served, disc>>

-----------------------------------------------------------------------------
(* The session thread (stream::run), as the control plane sees it.         *)

\* Inner::host_for_stream: a stack a stream ran on is replaced, unless the
\* device opened the link itself or the link is fresh (`keep`)
HostForStream(s, keep) ==
    /\ pc[s] = "host"
    /\ slotLock = None
    /\ streamed' = FALSE
    /\ Go(s, IF slot /\ streamed /\ ~keep THEN "take" ELSE "ensure")
    /\ UNCHANGED <<client, control, latest, shared, scanning, ui, slot, slotLock, stack, hosts,
                   cancelled, scanStop, used, carried, powerVars, served, disc>>

\* Asked to stop while the stack started: Idle, and nothing is connected
GotHost(s) ==
    /\ pc[s] = "got"
    /\ IF stop THEN Notify("Idle") /\ Go(s, "closing") ELSE Go(s, "connect") /\ UNCHANGED ui
    /\ UNCHANGED <<client, control, latest, shared, scanning, stackVars, carried, powerVars, served, disc>>

\* BtHost::connect: a cancel left by an earlier stop is cleared; fails at once
\* on a stack that was shut down
Connect(s) ==
    /\ pc[s] = "connect"
    /\ cancelled' = (cancelled /\ s \notin hosts)
    /\ Go(s, IF s \in hosts THEN "paging" ELSE "retry")
    /\ UNCHANGED <<client, control, latest, shared, scanning, ui, slot, slotLock, stack, hosts,
                   scanStop, streamed, used, carried, powerVars, served, disc>>

\* BtHost::reconnect on the same stack: a cancel stays in effect
ReconnectLink(s) ==
    /\ pc[s] = "reconnect" /\ s \in Session
    /\ Go(s, IF s \in hosts /\ ~cancelled THEN "paging" ELSE "retry")
    /\ UNCHANGED <<client, control, latest, shared, scanning, ui, stackVars, carried, powerVars, served, disc>>

\* Connected: the stream runs, the vendor or codec steps connect once more,
\* or the configuration fails
Connected(s) ==
    /\ pc[s] = "paging"
    /\ s \in hosts
    /\ carried' = carried \cup {s}
    /\ used' = TRUE
    /\ \/ Notify("Streaming") /\ Go(s, "streaming")
       \/ s \notin carried /\ Go(s, "connect") /\ UNCHANGED ui
       \/ s \notin carried /\ Notify(IF stop THEN "Idle" ELSE "Error") /\ Go(s, "closing")
    /\ UNCHANGED <<client, control, latest, shared, scanning, slot, slotLock, stack, hosts,
                   cancelled, scanStop, streamed, powerVars, served, disc>>

\* Refused, no answer in time, cancelled, or the stack is gone
NotConnected(s) ==
    /\ pc[s] = "paging"
    /\ Go(s, "retry")
    /\ UNCHANGED <<client, control, latest, shared, scanning, ui, stackVars, carried, powerVars, served, disc>>

\* A session lost for good: with reconnecting off its stack goes too (one
\* left running would accept the headphones when they are turned on)
GiveUp(s) == \E to \in {"closing", "take_end"} : Go(s, to)

\* mutant: no answer is tried again whether or not the session was stopped
RetryConnectStopped(s) ==
    /\ pc[s] = "retry" /\ s \notin carried
    /\ \/ s \in hosts /\ Go(s, "connect") /\ UNCHANGED ui
       \/ s \in hosts /\ Go(s, "take") /\ UNCHANGED ui
       \/ s \notin hosts /\ Notify("Error") /\ Go(s, "closing")
    /\ UNCHANGED <<client, control, latest, shared, scanning, stackVars, carried, powerVars, served, disc>>

\* Between two attempts of a first connection (connect_retrying): a stop ends
\* it, no answer is tried again, a stalled stack is replaced (restart_host); a
\* stack that was shut down fails at once
RetryConnect(s) ==
    /\ pc[s] = "retry" /\ s \notin carried
    /\ \/ stop /\ Notify("Idle") /\ Go(s, "closing")
       \/ ~stop /\ s \in hosts /\ Go(s, "connect") /\ UNCHANGED ui
       \/ ~stop /\ s \in hosts /\ Go(s, "take") /\ UNCHANGED ui
       \/ ~stop /\ Notify("Error") /\ Go(s, "closing")
    /\ UNCHANGED <<client, control, latest, shared, scanning, stackVars, carried, powerVars, served, disc>>

\* Between two attempts of a reconnect: a stack left from before sleep or
\* stalled is replaced first; on a new stack the connection is made in full
RetryReconnect(s) ==
    /\ pc[s] = "retry" /\ s \in carried
    /\ \/ stop /\ Notify("Idle") /\ Go(s, "closing")
       \/ ~stop /\ ~stale /\ (Go(s, "connect") \/ Go(s, "reconnect")) /\ UNCHANGED ui
       \/ ~stop /\ (stale \/ s \in hosts) /\ Go(s, "take") /\ UNCHANGED ui
       \/ ~stop /\ (Notify("Error") \/ Notify("Idle")) /\ GiveUp(s)
    /\ UNCHANGED <<client, control, latest, shared, scanning, stackVars, carried, powerVars, served, disc>>

\* The last restart of the stack failed: once more, or give up
RetryRestart(s) ==
    /\ pc[s] = "restart"
    /\ \/ stop /\ Notify("Idle") /\ Go(s, "closing")
       \/ ~stop /\ Go(s, "take") /\ UNCHANGED ui
       \/ ~stop /\ Notify("Error") /\ GiveUp(s)
    /\ UNCHANGED <<client, control, latest, shared, scanning, stackVars, carried, powerVars, served, disc>>

\* The streaming loop takes a source change, which may fail to start
TakeChange(s) ==
    /\ pc[s] = "streaming"
    /\ ~stop /\ change # None
    /\ change' = None
    /\ \/ playing' = [playing EXCEPT ![s] = change] /\ UNCHANGED <<pc, ui>>
       \/ Notify("Error") /\ GiveUp(s) /\ UNCHANGED playing
    /\ UNCHANGED <<client, control, latest, worker, lastReq, stop, running, waiting, turnedOff,
                   scanning, stackVars, carried, powerVars, served, disc>>

\* The streaming loop sees the stop
StreamStopped(s) ==
    /\ pc[s] = "streaming"
    /\ stop
    /\ Notify("Idle")
    /\ Go(s, "closing")
    /\ UNCHANGED <<client, control, latest, shared, scanning, stackVars, carried, powerVars, served, disc>>

\* The link check: the link is lost (connect again), the stack has to start
\* anew, or reconnecting is off and the session ends as for turned off
\* headphones, its stack with it
LinkLost(s) ==
    /\ pc[s] = "streaming"
    /\ ~stop
    /\ \/ Notify("Reconnecting") /\ Go(s, IF stale THEN "take" ELSE "reconnect") /\ UNCHANGED turnedOff
       \/ Notify("Reconnecting") /\ Go(s, "take") /\ UNCHANGED turnedOff
       \/ Notify("Idle") /\ GiveUp(s) /\ turnedOff' = TRUE
    /\ UNCHANGED <<client, control, latest, worker, lastReq, stop, running, waiting, change, playing,
                   scanning, stackVars, carried, powerVars, served, disc>>

\* The headphones were turned off (Inner::waiting_for_device)
TurnedOff(s) ==
    /\ pc[s] = "streaming"
    /\ ~stop
    /\ Notify("Idle")
    /\ waiting' = TRUE
    /\ turnedOff' = TRUE
    /\ Go(s, "waiting")
    /\ UNCHANGED <<client, control, latest, worker, lastReq, stop, running, change, playing,
                   scanning, stackVars, carried, powerVars, served, disc>>

\* wait_for_device: they connect again, or the session ends (stopped, sleep,
\* a stalled stack, reconnecting turned off)
WaitOver(s) ==
    /\ pc[s] = "waiting"
    /\ waiting' = FALSE
    /\ \/ ~stop /\ ~stale /\ s \in hosts /\ turnedOff' = FALSE
          /\ Notify("Connecting") /\ Go(s, "reconnect")
       \/ GiveUp(s) /\ UNCHANGED <<turnedOff, ui>>
    /\ UNCHANGED <<client, control, latest, worker, lastReq, stop, running, change, playing,
                   scanning, stackVars, carried, powerVars, served, disc>>

\* A panic is caught: the state says so
Panic(s) ==
    /\ pc[s] = "streaming"
    /\ Notify("Error")
    /\ Go(s, "closing")
    /\ UNCHANGED <<client, control, latest, shared, scanning, stackVars, carried, powerVars, served, disc>>

\* run() returns: StreamedMark (under the slot's lock) when it had connected
CloseSession(s) ==
    /\ pc[s] = "closing"
    /\ s \in carried => slotLock = None
    /\ streamed' = (streamed \/ s \in carried)
    /\ hosts' = hosts \ {s}
    /\ Go(s, "ending")
    /\ UNCHANGED <<client, control, latest, shared, scanning, ui, slot, slotLock, stack, cancelled,
                   scanStop, used, carried, powerVars, served, disc>>

\* mutant: the flag is cleared only by a session that was told to stop
EndSessionQuietly(s) ==
    /\ pc[s] = "ending"
    /\ running' = (running /\ ~stop)
    /\ Go(s, "dead")
    /\ playing' = [playing EXCEPT ![s] = None]
    /\ carried' = carried \ {s}
    /\ UNCHANGED <<client, control, latest, worker, lastReq, stop, waiting, turnedOff, change,
                   scanning, ui, stackVars, powerVars, served, disc>>

\* The last thing the session thread does
EndSession(s) ==
    /\ pc[s] = "ending"
    /\ running' = FALSE
    /\ Go(s, "dead")
    /\ playing' = [playing EXCEPT ![s] = None]
    /\ carried' = carried \ {s}
    /\ UNCHANGED <<client, control, latest, worker, lastReq, stop, waiting, turnedOff, change,
                   scanning, ui, stackVars, powerVars, served, disc>>

-----------------------------------------------------------------------------
ClientStep(c) ==
    \/ ControlFor(c) \/ EndScan(c) \/ ScanWait(c) \/ StopSession(c) \/ CancelWaits(c) \/ Join(c)
    \/ ReleaseLink(c) \/ (\E s \in Session : Launch(c, s))
    \/ Reconnect(c) \/ DriverDone(c) \/ Check(c) \/ MarkScan(c) \/ Inquire(c) \/ InquiryDone(c)
    \/ Tool(c) \/ ToolDone(c) \/ ReloadCheck(c) \/ ReloadMark(c)

HostStep(t) ==
    \/ TakeHost(t) \/ ShutDown(t) \/ KeepHost(t) \/ RenewHost(t) \/ OpenStack(t) \/ StackUp(t)
    \/ StackFailed(t)

CallStep(c) ==
    \/ \E r \in Request : CallStart(c, r) \/ ChangeSource(c, r)
    \/ CallDisconnect(c) \/ CallRestart(c) \/ CallReload(c) \/ StopScan(c)
    \/ \E w \in Operation : CallShutdown(c, w) \/ CallTool(c, w)

\* Steps a session takes by itself, whatever its device does
SessionStep(s) ==
    \/ (\E keep \in BOOLEAN : HostForStream(s, keep)) \/ GotHost(s) \/ Connect(s) \/ ReconnectLink(s)
    \/ NotConnected(s) \/ RetryConnect(s) \/ RetryReconnect(s) \/ RetryRestart(s)
    \/ TakeChange(s) \/ StreamStopped(s) \/ WaitOver(s)
    \/ CloseSession(s) \/ EndSession(s)

\* What the device, Windows or a fault does to it
SessionEvent(s) == Connected(s) \/ LinkLost(s) \/ TurnedOff(s) \/ Panic(s)

Next ==
    \/ \E c \in Client : CallStep(c) \/ ClientStep(c)
    \/ \E t \in Thread : HostStep(t)
    \/ \E s \in Session : SessionStep(s) \/ SessionEvent(s)
    \/ Resume

Spec == Init /\ [][Next]_vars

\* Every thread is scheduled, and every wait it makes ends: the waits on the
\* stack and on the scan have timeouts, the helper and the tools end.  The
\* slot's lock is granted to a thread that waits for it while the session
\* takes it again and again (strong fairness): between two attempts a session
\* waits for seconds without it.  Nothing is assumed of the callers, the
\* device or Windows.
Fairness ==
    /\ \A c \in Client : SF_vars(ClientStep(c))
    /\ \A t \in Thread : SF_vars(HostStep(t))
    /\ \A s \in Session : WF_vars(SessionStep(s))

FairSpec == Spec /\ Fairness

-----------------------------------------------------------------------------
Holding == {"end_scan", "scan_wait", "stop", "cancel", "join", "launch", "release_link"}

\* The flags of the session, the stack and the adapter are Booleans, ...
SessionFlagsOK ==
    /\ stop \in BOOLEAN /\ running \in BOOLEAN /\ waiting \in BOOLEAN
    /\ turnedOff \in BOOLEAN /\ scanning \in BOOLEAN /\ early \in BOOLEAN
StackFlagsOK ==
    /\ slot \in BOOLEAN /\ cancelled \in BOOLEAN /\ scanStop \in BOOLEAN
    /\ streamed \in BOOLEAN /\ used \in BOOLEAN
PowerFlagsOK ==
    /\ stale \in BOOLEAN /\ reload \in BOOLEAN /\ preSleep \in BOOLEAN /\ outdated \in BOOLEAN

\* ... each kind of thread is at a point of its own code, ...
ThreadsOK ==
    /\ pc \in [Thread -> ClientPC \cup SessionPC]
    /\ \A c \in Client : pc[c] \in ClientPC
    /\ \A s \in Session : pc[s] \in SessionPC

\* ... and the rest has its type
ValuesOK ==
    /\ op \in [Client -> Operation \cup {None}]
    /\ ticket \in [Client -> Nat]
    /\ req \in [Client -> Request \cup {None}]
    /\ held \in [Client -> Session \cup {None}]
    /\ control \in Client \cup {None}
    /\ latest \in Nat /\ served \in Nat /\ disc \in Nat /\ power \in Nat
    /\ worker \in Session \cup {None}
    /\ lastReq \in Request \cup {None} /\ change \in Request \cup {None}
    /\ playing \in [Session -> Request \cup {None}]
    /\ state \in StreamState
    /\ slotLock \in Thread \cup {None}
    /\ stack \in {"none", "opening", "up", "closing", "tool"}
    /\ hosts \in SUBSET Thread
    /\ carried \in SUBSET Session

\* Types of the variables: a caller is never where only a session can be.
TypeOK == SessionFlagsOK /\ StackFlagsOK /\ PowerFlagsOK /\ ThreadsOK /\ ValuesOK

\* Issue #86 (Service.control): however starts, stops, restarts and scans
\* interleave, at most one session thread is alive.
OneSession == \A s, t \in Session : Live(s) /\ Live(t) => s = t

\* Service::is_running, which scans, probes and a change of settings go by, is
\* true exactly while a session thread is alive; so a session that ended by
\* itself leaves nothing that refuses the next scan.
RunningIsLive == running <=> \E s \in Session : Live(s)

\* Inner.stop is one flag for all sessions, set and cleared by other threads:
\* a live session sees it exactly while a thread waits for this session to
\* end.  No start clears it before the session that has to see it is gone, and
\* no session starts with the stop of the one before it.
StopIsForItsSession == \A s \in Session : Live(s) => (stop <=> \E c \in Client : held[c] = s)

\* What a Bluetooth restart would connect again (last_request) is what the
\* session plays, or is about to: a source change is never lost to a restart,
\* nor applied to a session it was not meant for (one that is ending aside: a
\* source that did not start ended it).
PlaysLastRequest ==
    \A s \in Session :
        worker = s /\ pc[s] \notin {"dead", "take_end", "shut_end", "closing", "ending"} /\ lastReq # None
            => playing[s] = lastReq \/ change = lastReq

\* Nobody starts, stops or restarts
Quiet == \A c \in Client : pc[c] = "idle"

\* Service::ticket: once all calls have returned, the start or stop carried
\* out last is the latest one asked for.
LatestWins == Quiet => served = latest

\* "A start skipped for this stop left connecting shown": once all calls have
\* returned and no session is alive, no window shows a connection.
ShownSettles == Quiet /\ ~running => Shown \in {"Idle", "Error"}

\* PowerState.stale: a stack left from before sleep is never taken for a good
\* one, also when the resume comes while a stack starts.
StaleKnown == slot /\ preSleep => stale

\* Inner.reload: a stack started with other adapter settings is replaced at
\* its next use, unless a call that releases it is under way.
ReloadKnown ==
    slot /\ outdated =>
        reload \/ \E c \in Client : op[c] = "reload" /\ pc[c] \in {"reload_check", "reload_mark", "take"}

\* Inner::probe: "holds the stack slot meanwhile, so no stack starts on the
\* adapter during the probe".
ToolAlone ==
    \A c \in Client : pc[c] = "tool" =>
        stack = "tool" /\ ~slot /\ \A t \in Thread : pc[t] \notin {"settle", "opening"}

\* Every call returns: no cycle of `control`, the slot's lock, the join of the
\* session and the wait for the scan, and no session that misses its stop.
CallsReturn == \A c \in Client : pc[c] # "idle" ~> pc[c] = "idle"

-----------------------------------------------------------------------------
(* What comments in the code say, and interleavings break.                 *)

\* Service::end_scan: "A connection while the scan inquires and pages on the
\* same radio would be slow or fail: the scan ends first".
ScanEndsFirst == \A c \in Client, s \in Session : ~(pc[c] = "inquiry" /\ pc[s] = "paging")

\* Service::restart_adapter reconnects the last session, "Not after
\* Disconnect".
NotAfterDisconnect ==
    \A c \in Client : pc[c] = "reconnect" /\ req[c] # None => disc <= ticket[c]

\* driver::assign: "The stack must let go of the adapter", for as long as the
\* helper changes its driver.
DriverHasAdapter == \A c \in Client : pc[c] = "driver" => stack = "none"

\* Inner::shutdown_host: "the adapter must be free for the next stack".
FreeForNextStack == \A t \in Thread : pc[t] = "settle" => stack = "none"

\* Inner::host_for_stream: "Claimed by this stream either way: the next one
\* replaces the stack": with no session alive, a stack that carried one is
\* marked.
UsedIsMarked == slot /\ used /\ (\A s \in Session : ~Live(s)) => streamed

\* Service::stop_streaming: "blocking waits are cancelled".
StopCancels ==
    \A c \in Client : pc[c] = "join" => (pc[held[c]] = "paging" /\ held[c] \in hosts => cancelled)
=============================================================================
