----------------------------- MODULE Transport -----------------------------
(***************************************************************************)
(* The HCI transport: the queue between a backend's I/O threads and the    *)
(* BTstack thread (btstack-sys/src/transport.rs) over the USB backend      *)
(* (hci-transport/src/usb.rs) with its two readers and two writers, from   *)
(* the start of a run to its end, with the firmware loader that uses the   *)
(* transport before BTstack does.                                          *)
(*                                                                         *)
(* A step is what a thread does between two points where another one can   *)
(* be noticed: an atomic, the queue's lock, a channel, a transfer.  That a *)
(* posted wake brings the BTstack thread to bluecaster_rs_on_wake is what  *)
(* StackRun shows; here Pump is enabled whenever there is something to do. *)
(* BTstack and the controller are external: BTstack sends a command when   *)
(* the last one is answered and its packet buffer is free, HCI Reset first;*)
(* the controller answers commands in order.                               *)
(***************************************************************************)
EXTENDS Integers, Sequences, FiniteSets

CONSTANTS
    MaxRuns,      \* runs of BTstack, one after the other
    MaxCommands,  \* commands of the loader and of BTstack
    MaxData,      \* ACL packets each way, and commands answered locally
    MaxInErrors,  \* EVENT_IN_MAX_ERRORS and ACL_IN_MAX_ERRORS
    MaxUsbFaults  \* failed transfers

ASSUME TransportAssumption ==
    /\ MaxRuns \in Nat \ {0}
    /\ {MaxCommands, MaxData, MaxInErrors, MaxUsbFaults} \subseteq Nat

VARIABLES
    runs,      \* GENERATION
    rl,        \* where the BTstack thread is
    after,     \* where it goes on after a close
    raw,       \* RAW
    loader,    \* the app's loader waits for the controller
    hci,       \* BTstack's HCI: "off", "starting", "on" or "halted"
    opened,    \* UsbTransport.opened is there
    usb,       \* what its threads share: stop, bootloader, Upstream.generation
    th,        \* the four I/O threads
    held,      \* the packet a reader has read and not queued
    errs,      \* failed reads in a row
    cmdq,      \* command_tx to command_rx
    inFlight,  \* command_in_flight
    aclq,      \* acl_tx to acl_rx and the transfers in flight
    rx,        \* RX
    sent,      \* SENT
    failed,    \* FAILED
    wakeFlags, \* WAKE_APP in WAKE_FLAGS
    stalled,   \* the app has seen the failure
    reserved,  \* BTstack's packet buffer is taken until its packet is reported sent
    owed,      \* history: packets BTstack handed over less the ones reported to it
    waits,     \* BTstack waits for a command's answer
    ctl,       \* the controller: commands it has, events on the pipe, ACL data
    nth,       \* commands, data and faults so far (bounds)
    seen       \* history: "late", "unanswered", "overlap", "hung" and "lost"

transportVars == <<runs, rl, after, raw, loader, hci, opened, usb, th, held, errs, cmdq,
                   inFlight, aclq, rx, sent, failed, wakeFlags, stalled, reserved, owed, waits, ctl, nth, seen>>

bridge == <<rx, sent, failed, wakeFlags>>          \* transport.rs
pipes == <<usb, th, held, errs, cmdq, inFlight, aclq>>  \* usb.rs
btstack == <<hci, reserved, owed, waits>>

Readers == {"eventIn", "aclIn"}
Threads4 == Readers \cup {"cmdOut", "aclOut"}

Resets == {"btReset", "closeReset"}

TransportInit ==
    /\ runs = 0 /\ rl = "idle" /\ after = "idle" /\ raw = FALSE /\ loader = FALSE /\ hci = "off"
    /\ opened = FALSE /\ usb = [stop |-> FALSE, boot |-> FALSE, generation |-> 0]
    /\ th = [t \in Threads4 |-> "end"] /\ held = [t \in Readers |-> "none"]
    /\ errs = [t \in Readers |-> 0]
    /\ cmdq = <<>> /\ inFlight = FALSE /\ aclq = 0
    /\ rx = <<>> /\ sent = 0 /\ failed = FALSE /\ wakeFlags = FALSE
    /\ stalled = FALSE /\ reserved = FALSE /\ owed = 0 /\ waits = FALSE
    /\ ctl = [has |-> <<>>, events |-> <<>>, acl |-> 0, gone |-> FALSE]
    /\ nth = [cmd |-> 0, data |-> 0, fault |-> 0]
    /\ seen = {}

InLoop == rl \in {"loop", "pump"}

Fault == nth.fault < MaxUsbFaults
Counted(what) == nth' = [nth EXCEPT ![what] = @ + 1]

(***************************************************************************)
(* A run: btstack_sys::run                                                 *)
(***************************************************************************)

\* transport::reset with the new generation; the app and its handlers are new
StartRun ==
    /\ rl = "idle" /\ runs < MaxRuns
    /\ runs' = runs + 1 /\ rl' = "init"
    /\ rx' = <<>> /\ sent' = 0 /\ failed' = FALSE /\ wakeFlags' = FALSE
    /\ raw' = FALSE /\ loader' = FALSE /\ hci' = "off"
    /\ stalled' = FALSE /\ reserved' = FALSE /\ owed' = 0 /\ waits' = FALSE
    /\ seen' = seen \ {"late", "lost"}
    /\ UNCHANGED <<after, opened, pipes, ctl, nth>>

\* UsbTransport::open: the pipes are cleared, the threads start
OpenUsb ==
    /\ ~ctl.gone
    /\ opened' = TRUE
    /\ usb' = [stop |-> FALSE, boot |-> FALSE, generation |-> runs]
    /\ th' = [t \in Threads4 |-> "idle"] /\ held' = [t \in Readers |-> "none"]
    /\ errs' = [t \in Readers |-> 0]
    /\ cmdq' = <<>> /\ inFlight' = FALSE /\ aclq' = 0

\* install_transport and raw_begin: the loader reads the controller.  A
\* transport that does not open ends raw mode and the start of the stack
RawBegin ==
    /\ rl = "init" /\ rl' = "loop"
    /\ \/ OpenUsb /\ raw' = TRUE /\ loader' = TRUE
       \/ UNCHANGED <<opened, pipes, raw, loader>>
    /\ UNCHANGED <<runs, after, bridge, stalled, btstack, ctl, nth, seen>>

\* hci_init and power_on, which opens the transport
InitHci ==
    /\ rl = "init" /\ rl' = "loop"
    /\ \/ OpenUsb /\ hci' = "starting"
       \/ UNCHANGED <<opened, pipes, hci>>
    /\ UNCHANGED <<runs, after, raw, loader, bridge, stalled, reserved, owed, waits, ctl, nth, seen>>

\* hci_power_control(OFF): BTstack halts and closes the transport
PowerOff ==
    /\ rl = "loop" /\ hci \in {"starting", "on"}
    /\ hci' = "halted" /\ rl' = "close" /\ after' = "loop"
    /\ UNCHANGED <<runs, raw, loader, opened, pipes, bridge, stalled, reserved, owed, waits, ctl, nth, seen>>

\* The run loop is left: Stack::deinit and uninstall close what is open
ExitLoop ==
    /\ rl = "loop" /\ rl' = "close" /\ after' = "end"
    /\ UNCHANGED <<runs, raw, loader, opened, pipes, bridge, stalled, btstack, ctl, nth, seen>>

EndRun ==
    /\ rl = "end" /\ rl' = "idle"
    /\ rx' = <<>> /\ sent' = 0 /\ failed' = FALSE /\ raw' = FALSE
    /\ loader' = FALSE
    /\ UNCHANGED <<runs, after, hci, opened, pipes, wakeFlags, stalled, reserved, owed, waits, ctl, nth, seen>>

(***************************************************************************)
(* Closing: UsbTransport::close                                            *)
(***************************************************************************)

CloseUsb ==
    /\ rl = "close"
    /\ opened' = FALSE
    /\ IF opened THEN usb' = [usb EXCEPT !.stop = TRUE] /\ rl' = "join"
                 ELSE rl' = after /\ UNCHANGED usb
    /\ UNCHANGED <<runs, after, raw, loader, th, held, errs, cmdq, inFlight, aclq, bridge,
                   stalled, btstack, ctl, nth, seen>>

\* mutant: the threads are told to stop and not waited for
AllJoinedNot == TRUE

\* A thread that sees the stop flag between two packets does nothing more; the
\* command writer first finishes what it was handed
AllJoined ==
    /\ \A t \in Threads4 : th[t] \in {"idle", "end"}
    /\ th["cmdOut"] = "end" \/ cmdq = <<>>

JoinThreads ==
    /\ rl = "join" /\ AllJoined
    /\ th' = [t \in Threads4 |-> IF th[t] = "idle" THEN "end" ELSE th[t]]
    /\ rl' = IF usb.boot THEN after ELSE "reset"
    /\ ctl' \in {ctl, [ctl EXCEPT !.events = <<>>, !.acl = 0]}    \* drain drops what was read
    /\ UNCHANGED <<runs, after, raw, loader, opened, usb, held, errs, cmdq, inFlight, aclq, bridge,
                   stalled, btstack, nth, seen>>

\* What the controller makes of a command: one that comes while it resets may
\* leave it without a word
Receives(c, sawToo) ==
    /\ ctl' = [ctl EXCEPT !.has = Append(@, c)]
    /\ seen' = seen \cup sawToo
               \cup (IF \E i \in DOMAIN ctl.has : ctl.has[i] \in Resets THEN {"hung"} ELSE {})

\* The HCI Reset of the close.  "overlap": the stack's own HCI Reset is not
\* answered yet, or its answer not read
CloseReset ==
    /\ rl = "reset"
    /\ \/ /\ ~ctl.gone /\ rl' = "wait"
          /\ Receives("closeReset",
                      IF \E s \in {ctl.has, ctl.events} : \E i \in DOMAIN s : s[i] \in Resets
                      THEN {"overlap"} ELSE {})
          /\ UNCHANGED nth
       \/ /\ ctl.gone \/ Fault
          /\ rl' = after /\ seen' = seen \cup {"unanswered"}
          /\ (IF ctl.gone THEN UNCHANGED nth ELSE Counted("fault"))
          /\ UNCHANGED ctl
    /\ UNCHANGED <<runs, after, raw, loader, opened, pipes, bridge, stalled, btstack>>

\* reset_completed: other events are dropped; after CLOSE_RESET_WAIT, or when
\* the pipe fails, the close is over
CloseWait ==
    /\ rl = "wait"
    /\ \/ /\ ctl.events # <<>>
          /\ rl' = IF Head(ctl.events) \in Resets THEN after ELSE "wait"
          /\ ctl' = [ctl EXCEPT !.events = Tail(@)]
          /\ UNCHANGED <<nth, seen>>
       \/ /\ ctl.gone \/ Fault
          /\ rl' = after /\ seen' = seen \cup {"unanswered"}
          /\ (IF ctl.gone THEN UNCHANGED nth ELSE Counted("fault"))
          /\ UNCHANGED ctl
    /\ UNCHANGED <<runs, after, raw, loader, opened, pipes, bridge, stalled, btstack>>

(***************************************************************************)
(* The loader in raw mode, and its end                                     *)
(***************************************************************************)

\* UsbTransport::send of a command; nothing receives it once the writer ended
HandOver(c) ==
    /\ IF th["cmdOut"] = "end" THEN inFlight' = FALSE /\ UNCHANGED cmdq
                                ELSE inFlight' = TRUE /\ cmdq' = Append(cmdq, c)
    /\ UNCHANGED <<usb, th, held, errs, aclq>>

\* Not asked whether it can: a retry may be handed over behind the command
LoaderSends ==
    /\ InLoop /\ loader /\ nth.cmd < MaxCommands
    /\ HandOver("loader") /\ Counted("cmd")
    /\ UNCHANGED <<runs, rl, after, raw, loader, hci, opened, bridge, stalled, reserved, owed, waits, ctl, seen>>

\* Action::Bootloader
SetBootloader ==
    /\ InLoop /\ loader
    /\ usb' = [usb EXCEPT !.boot = ~@]
    /\ UNCHANGED <<runs, rl, after, raw, loader, hci, opened, th, held, errs, cmdq, inFlight, aclq,
                   bridge, stalled, reserved, owed, waits, ctl, nth, seen>>

\* loader_done with a result: raw_end forgets the reports of the loader's
\* packets, hci_init_installed and power_on follow, and the open closes first.
\* "late": a command is still with the writer
LoaderDone ==
    /\ InLoop /\ loader /\ loader' = FALSE
    /\ raw' = FALSE /\ sent' = 0 /\ hci' = "starting"
    /\ rl' = "close" /\ after' = IF rl = "pump" THEN "reopenInPump" ELSE "reopen"
    /\ seen' = IF cmdq # <<>> \/ th["cmdOut"] # "idle" THEN seen \cup {"late"} ELSE seen
    /\ UNCHANGED <<runs, opened, pipes, rx, failed, wakeFlags, stalled, reserved, owed, waits, ctl, nth>>

\* With an error raw mode stays to the end of the run; a timeout of the loader too
LoaderFails ==
    /\ InLoop /\ loader /\ loader' = FALSE
    /\ UNCHANGED <<runs, rl, after, raw, hci, opened, pipes, bridge, stalled, reserved, owed, waits, ctl, nth, seen>>

ReopenUsb ==
    /\ rl \in {"reopen", "reopenInPump"}
    /\ rl' = IF rl = "reopen" THEN "loop" ELSE "pump"
    /\ \/ OpenUsb /\ UNCHANGED hci
       \/ hci' = "off" /\ UNCHANGED <<opened, pipes>>
    /\ UNCHANGED <<runs, after, raw, loader, bridge, stalled, reserved, owed, waits, ctl, nth, seen>>

(***************************************************************************)
(* BTstack                                                                 *)
(***************************************************************************)

BtMaySend == InLoop /\ opened /\ ~reserved

\* One command at a time, HCI Reset first; can_send asks for command_in_flight
BtSendsCommand ==
    /\ BtMaySend /\ hci \in {"starting", "on"} /\ ~waits /\ ~inFlight /\ nth.cmd < MaxCommands
    /\ HandOver(IF hci = "starting" THEN "btReset" ELSE "bt") /\ hci' = "on"
    /\ owed' = owed + 1 /\ reserved' = TRUE /\ waits' = TRUE /\ Counted("cmd")
    /\ UNCHANGED <<runs, rl, after, raw, loader, opened, bridge, stalled, ctl, seen>>

\* An LE command while LE is hidden: answer_locally
BtSendsLeCommand ==
    /\ BtMaySend /\ hci = "on" /\ ~waits /\ ~inFlight /\ nth.data < MaxData
    /\ sent' = sent + 1
    /\ rx' = Append(rx, [run |-> runs, what |-> "local"])
    /\ owed' = owed + 1 /\ reserved' = TRUE /\ waits' = TRUE /\ Counted("data")
    /\ UNCHANGED <<runs, rl, after, raw, loader, hci, opened, pipes, failed, wakeFlags, stalled, ctl, seen>>

\* An ACL or ISO packet: copied, queued for the writer and reported at once
BtSendsData ==
    /\ BtMaySend /\ hci = "on" /\ nth.data < MaxData
    /\ IF th["aclOut"] = "end" THEN UNCHANGED <<aclq, sent>>
                                ELSE aclq' = aclq + 1 /\ sent' = sent + 1
    /\ owed' = owed + 1 /\ reserved' = TRUE /\ Counted("data")
    /\ UNCHANGED <<runs, rl, after, raw, loader, hci, opened, usb, th, held, errs, cmdq, inFlight,
                   rx, failed, wakeFlags, stalled, waits, ctl, seen>>

(***************************************************************************)
(* transport::pump and bluecaster_rs_on_wake                               *)
(***************************************************************************)

\* The reports, which raw mode drops
Pump ==
    /\ rl = "loop" /\ (rx # <<>> \/ sent > 0 \/ wakeFlags)
    /\ rl' = "pump" /\ sent' = 0
    /\ owed' = IF raw THEN owed ELSE owed - sent
    /\ reserved' = (reserved /\ (raw \/ sent = 0))
    /\ UNCHANGED <<runs, after, raw, loader, hci, opened, pipes, rx, failed, wakeFlags, stalled, waits, ctl,
                   nth, seen>>

\* One packet, to the loader or to BTstack
PumpPacket ==
    /\ rl = "pump" /\ rx # <<>>
    /\ rx' = Tail(rx)
    /\ waits' = IF ~raw /\ Head(rx).what \in {"bt", "btReset", "local"} THEN FALSE ELSE waits
    /\ UNCHANGED <<runs, rl, after, raw, loader, hci, opened, pipes, sent, failed, wakeFlags, stalled, reserved, owed,
                   ctl, nth, seen>>

\* The flags are taken; on_wake follows for WAKE_APP
PumpEnd ==
    /\ rl = "pump" /\ rx = <<>>
    /\ wakeFlags' = FALSE /\ rl' = IF wakeFlags THEN "woken" ELSE "loop"
    /\ UNCHANGED <<runs, after, raw, loader, hci, opened, pipes, rx, sent, failed, stalled, reserved, owed, waits,
                   ctl, nth, seen>>

\* HostApp::on_wake
OnWakeApp ==
    /\ rl = "woken" /\ rl' = "loop"
    /\ stalled' = (stalled \/ failed)
    /\ UNCHANGED <<runs, after, raw, loader, hci, opened, pipes, bridge, reserved, owed, waits, ctl, nth, seen>>

(***************************************************************************)
(* The I/O threads                                                         *)
(***************************************************************************)

Current == usb.generation = runs

\* event_loop and acl_in_loop: a whole packet was read, by a thread that looked
\* at the stop flag before it waited.  Upstream::deliver asks for the generation
\* before it queues
ReadPacket(t) ==
    /\ th[t] = "idle"
    /\ errs' = [errs EXCEPT ![t] = 0]
    /\ IF t = "eventIn"
       THEN /\ ctl.events # <<>>
            /\ held' = [held EXCEPT ![t] = Head(ctl.events)]
            /\ ctl' = [ctl EXCEPT !.events = Tail(@)]
       ELSE /\ ctl.acl > 0
            /\ held' = [held EXCEPT ![t] = IF usb.boot THEN "event" ELSE "acl"]
            /\ ctl' = [ctl EXCEPT !.acl = @ - 1]
    /\ th' = [th EXCEPT ![t] = IF Current THEN "queue" ELSE "idle"]
    /\ UNCHANGED <<runs, rl, after, raw, loader, hci, opened, usb, cmdq, inFlight, aclq, bridge, stalled,
                   reserved, owed, waits, nth, seen>>

QueuePacket(t) ==
    /\ th[t] = "queue"
    /\ rx' = Append(rx, [run |-> usb.generation, what |-> held[t]])
    /\ held' = [held EXCEPT ![t] = "none"] /\ th' = [th EXCEPT ![t] = "idle"]
    /\ UNCHANGED <<runs, rl, after, raw, loader, hci, opened, usb, errs, cmdq, inFlight, aclq, sent,
                   failed, wakeFlags, stalled, reserved, owed, waits, ctl, nth, seen>>

\* A bad read loses what it read, the pipe is reset; too many in a row, or a
\* device that is gone, are told with Upstream::fail
ReadError(t) ==
    /\ th[t] = "idle"
    /\ \/ ctl.gone /\ th' = [th EXCEPT ![t] = "fail"] /\ UNCHANGED <<errs, ctl, nth>>
       \/ /\ ~ctl.gone /\ Fault /\ Counted("fault")
          /\ errs' = [errs EXCEPT ![t] = @ + 1]
          /\ th' = [th EXCEPT ![t] = IF errs[t] + 1 > MaxInErrors THEN "fail" ELSE @]
          /\ ctl' = IF t = "eventIn" /\ ctl.events # <<>>
                    THEN [ctl EXCEPT !.events = Tail(@)] ELSE ctl
    /\ UNCHANGED <<runs, rl, after, raw, loader, hci, opened, usb, held, cmdq, inFlight, aclq, bridge,
                   stalled, reserved, owed, waits, seen>>

\* Upstream::fail: FAILED first, then WAKE_APP with the wake
Fails(t) ==
    /\ th[t] = "fail"
    /\ failed' = (failed \/ Current)
    /\ th' = [th EXCEPT ![t] = IF Current THEN "flag" ELSE "end"]
    /\ UNCHANGED <<runs, rl, after, raw, loader, hci, opened, usb, held, errs, cmdq, inFlight, aclq, rx,
                   sent, wakeFlags, stalled, reserved, owed, waits, ctl, nth, seen>>

\* Readers and the ACL writer end; so does the command writer of a gone device,
\* else it frees BTstack's packet buffer
FlagsFailure(t) ==
    /\ th[t] = "flag"
    /\ wakeFlags' = TRUE
    /\ th' = [th EXCEPT ![t] = IF t = "cmdOut" /\ ~ctl.gone THEN "report" ELSE "end"]
    /\ UNCHANGED <<runs, rl, after, raw, loader, hci, opened, usb, held, errs, cmdq, inFlight, aclq, rx,
                   sent, failed, stalled, reserved, owed, waits, ctl, nth, seen>>

\* writer_loop: a command is written to the control pipe, or lost.  At a stop
\* the writer still finishes what it was handed
WriteCommand ==
    /\ th["cmdOut"] = "idle" /\ cmdq # <<>>
    /\ cmdq' = Tail(cmdq) /\ inFlight' = FALSE
    /\ \/ /\ ~ctl.gone /\ Receives(Head(cmdq), {})
          /\ th' = [th EXCEPT !["cmdOut"] = "report"] /\ UNCHANGED nth
       \/ /\ ctl.gone \/ Fault
          /\ (IF ctl.gone THEN UNCHANGED nth ELSE Counted("fault"))
          /\ th' = [th EXCEPT !["cmdOut"] = IF usb.stop THEN "end" ELSE "fail"]
          /\ seen' = IF usb.stop \/ Head(cmdq) = "loader" THEN seen ELSE seen \cup {"lost"}
          /\ UNCHANGED ctl
    /\ UNCHANGED <<runs, rl, after, raw, loader, hci, opened, usb, held, errs, aclq, bridge, stalled, reserved, owed,
                   waits>>

\* Upstream::packet_sent
ReportSent ==
    /\ th["cmdOut"] = "report"
    /\ sent' = IF Current THEN sent + 1 ELSE sent
    /\ th' = [th EXCEPT !["cmdOut"] = "idle"]
    /\ UNCHANGED <<runs, rl, after, raw, loader, hci, opened, usb, held, errs, cmdq, inFlight, aclq, rx,
                   failed, wakeFlags, stalled, reserved, owed, waits, ctl, nth, seen>>

\* acl_writer_loop: a packet is out, or dropped; only a gone device is told
WriteData ==
    /\ th["aclOut"] = "idle" /\ ~usb.stop /\ aclq > 0
    /\ \/ ctl.gone /\ th' = [th EXCEPT !["aclOut"] = "fail"] /\ UNCHANGED aclq
       \/ ~ctl.gone /\ aclq' = aclq - 1 /\ UNCHANGED th
       \/ ~ctl.gone /\ aclq' = 0 /\ UNCHANGED th    \* a stall drops the ones behind too
    /\ UNCHANGED <<runs, rl, after, raw, loader, hci, opened, usb, held, errs, cmdq, inFlight, bridge,
                   stalled, reserved, owed, waits, ctl, nth, seen>>

(***************************************************************************)
(* The controller                                                          *)
(***************************************************************************)

\* Its answer; a bootloader that is told to, answers on the bulk pipe
Answers ==
    /\ ctl.has # <<>> /\ ~ctl.gone
    /\ ctl' = IF Head(ctl.has) = "loader" /\ usb.boot
              THEN [ctl EXCEPT !.has = Tail(@), !.acl = @ + 1]
              ELSE [ctl EXCEPT !.has = Tail(@), !.events = Append(@, Head(ctl.has))]
    /\ UNCHANGED <<runs, rl, after, raw, loader, hci, opened, pipes, bridge, stalled, reserved, owed, waits, nth, seen>>

SendsData ==
    /\ hci = "on" /\ ~ctl.gone /\ nth.data < MaxData /\ Counted("data")
    /\ ctl' = [ctl EXCEPT !.acl = @ + 1]
    /\ UNCHANGED <<runs, rl, after, raw, loader, hci, opened, pipes, bridge, stalled, reserved, owed, waits, seen>>

Unplugged ==
    /\ ~ctl.gone /\ Fault /\ Counted("fault")
    /\ ctl' = [has |-> <<>>, events |-> <<>>, acl |-> 0, gone |-> TRUE]
    /\ UNCHANGED <<runs, rl, after, raw, loader, hci, opened, pipes, bridge, stalled, reserved, owed, waits, seen>>

TransportNext ==
    \/ StartRun \/ RawBegin \/ InitHci \/ PowerOff \/ ExitLoop \/ EndRun
    \/ CloseUsb \/ JoinThreads \/ CloseReset \/ CloseWait
    \/ LoaderSends \/ SetBootloader \/ LoaderDone \/ LoaderFails \/ ReopenUsb
    \/ BtSendsCommand \/ BtSendsLeCommand \/ BtSendsData
    \/ Pump \/ PumpPacket \/ PumpEnd \/ OnWakeApp
    \/ \E t \in Readers : ReadPacket(t) \/ QueuePacket(t) \/ ReadError(t)
    \/ \E t \in Threads4 : Fails(t) \/ FlagsFailure(t)
    \/ WriteCommand \/ ReportSent \/ WriteData
    \/ Answers \/ SendsData \/ Unplugged

TransportSpec == TransportInit /\ [][TransportNext]_transportVars

(***************************************************************************)
(* Properties                                                              *)
(***************************************************************************)

TransportTypeOK ==
    /\ runs \in 0..MaxRuns
    /\ rl \in {"idle", "init", "loop", "pump", "woken", "close", "join", "reset", "wait", "reopen",
               "reopenInPump", "end"}
    /\ after \in {"idle", "loop", "reopen", "reopenInPump", "end"}
    /\ hci \in {"off", "starting", "on", "halted"} /\ {raw, loader, opened, inFlight, failed, wakeFlags} \subseteq BOOLEAN
    /\ th \in [Threads4 -> {"idle", "queue", "fail", "flag", "report", "end"}]
    /\ \A i \in DOMAIN rx : rx[i].run \in 1..MaxRuns
    /\ sent \in Nat /\ aclq \in Nat /\ owed \in Int
    /\ seen \subseteq {"late", "unanswered", "overlap", "hung", "lost"}

\* What is queued for BTstack was read in this run: the generation is asked
\* before a packet is queued and not under the queue's lock, so it is the join
\* of the threads in close that makes it so
OwnPackets == \A i \in DOMAIN rx : rl # "idle" => rx[i].run = runs

\* BTstack is told "packet sent" once per packet, no more (unless a command of
\* the loader was still with the writer when raw mode ended), and not less: a
\* taken packet buffer is freed by a report that is on its way, or the failure
\* is known
ReportsMatch ==
    /\ "late" \in seen \/ owed - (IF raw THEN 0 ELSE sent) >= 0
    /\ rl \in {"loop", "pump"} /\ hci = "on" /\ opened /\ reserved =>
           sent > 0 \/ cmdq # <<>> \/ th["cmdOut"] \in {"report", "fail", "flag"} \/ failed

\* A failure the transport has told is seen by the app, or will be at the next
\* wake; a command of BTstack that was not written is such a failure
FailureKnown ==
    /\ failed /\ rl \in {"loop", "pump"} => stalled \/ wakeFlags \/ \E t \in Threads4 : th[t] = "flag"
    /\ "lost" \in seen /\ rl \in {"loop", "pump"} /\ opened => failed \/ th["cmdOut"] = "fail"

\* The controller gets no command while it resets: close waits for the answer
\* to its HCI Reset.  Not when that takes longer than CLOSE_RESET_WAIT or could not
\* be sent, nor when the stack's own reset was unanswered as the close sent its own
ResetAlone == "hung" \in seen => seen \cap {"unanswered", "overlap"} # {}

TransportSafe ==
    /\ TransportTypeOK
    /\ OwnPackets
    /\ ReportsMatch
    /\ FailureKnown
    /\ ResetAlone

(***************************************************************************)
(* Said in the code, and not so                                            *)
(***************************************************************************)

\* set_raw: "The loader's 'packet sent' reports are not BTstack's: HCI would take
\* one for its first command".  The command writer reports after the controller
\* has the command: its answer may end raw mode before that
SentIsOwn == owed >= 0

\* usb.rs: "close waits for that reset's Command Complete, so the next session's
\* first command does not reach a controller that is still resetting".  A close
\* while the stack's HCI Reset is unanswered takes that answer for its own
ResetAnswerIsOwn == "hung" \in seen => "unanswered" \in seen
=============================================================================
