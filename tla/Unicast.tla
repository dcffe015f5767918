------------------------------ MODULE Unicast ------------------------------
(***************************************************************************)
(* The BAP unicast stream of LE Audio (bt-host/src/le/bap.rs, `Unicast`):  *)
(* one stream at a time, from Config Codec to Streaming and back through   *)
(* Disable, Release and the removal of the CIG.  Its handlers run on the   *)
(* BTstack thread, one at a time; a worker thread (the LE session) posts   *)
(* start and stop and waits for their completions (le/api.rs).             *)
(*                                                                         *)
(* Each CIS of the plan is one device with one sink ASE (earbuds).  `uni`  *)
(* is what the BTstack thread keeps: the state machine's fields, what the  *)
(* core knows of the devices, and BTstack's CIGs.  A handler is an         *)
(* operator from one value of `uni` to the next; `enter` calls itself only *)
(* for later steps, so the steps are defined from the last to the first.   *)
(***************************************************************************)
EXTENDS Naturals, Sequences, FiniteSets, FiniteSetsExt

CONSTANTS
    Cis,        \* the CIS of the plan: numbers, in the order of the plan
    CigIds,     \* the CIG ids the shim can hold: 1 .. BLUECASTER_CIG_SLOTS
    MaxStarts,  \* bound: le_start_stream calls
    MaxFaults   \* bound: failures of devices, links and controller, waits given up

VARIABLES
    uni,        \* the BTstack thread's state (UniType)
    srv,        \* [Cis -> AseState]: the ASE at its server
    due,        \* ASEs whose value is on its way: notified, or being read
    leJobs,     \* FIFO of posted jobs: <<"start" | "stop", whose signal>>
    wk,         \* the worker: "idle", "start", "streaming", "stop"
    again,      \* le_stop_stream calls the worker still makes after this one
    starts, faults
unicastVars == <<uni, srv, due, leJobs, wk, again, starts, faults>>

\* A sink ASE has no Disabling state; Unknown is what a lost link leaves
AseState == {"Unknown", "Idle", "Codec", "Qos", "Enabling", "Streaming", "Releasing"}
StopPhases == {"Disable", "Release", "RemoveCig"}
StartPhases == {"ConfigCodec", "CreateCig", "ConfigQos", "Enable", "CreateCis", "WaitStreaming"}
Phase == {"Idle", "Streaming"} \cup StartPhases \cup StopPhases
NoCis == [c \in Cis |-> "down"]

(***************************************************************************)
(* Helpers of the handlers.  `io` is what the calls a handler makes        *)
(* answer: "ok", the HCI is "busy" (can_send_command), or the one call     *)
(* that fails: "cig", "cis", "remove", "drop", or too few ISO "buffers".   *)
(***************************************************************************)
\* Phase change of enter(): the step timer and the refresh timer
To(m, p) ==
    [m EXCEPT !.phase = p, !.step = p \notin {"Idle", "Streaming"},
              !.refresh = p \in {"Disable", "Release"}]

AllAses(m, stopping, states) ==
    \A c \in Cis : IF c \in m.acl THEN m.ases[c] \in states ELSE stopping

\* One ASE Control Point write per device
Write(m, cs, op) ==
    [m EXCEPT !.cp = [c \in Cis |-> IF c \in cs THEN Append(m.cp[c], op) ELSE m.cp[c]]]

\* The devices written to before the loop meets one that is gone
Before(m) == {c \in Cis : \A d \in Cis : d <= c => d \in m.acl}

\* A completion: only the worker that still waits sees it
Signal(m, who, r) == IF who = "worker" THEN [m EXCEPT !.res = r] ELSE m

(***************************************************************************)
(* Stopping                                                                *)
(***************************************************************************)

FinishStop(m) ==
    LET n == [m EXCEPT !.phase = "Idle", !.step = FALSE, !.drop = FALSE, !.refresh = FALSE,
                       !.waiting = FALSE, !.conn = {}, !.toDrop = {}, !.dropping = {},
                       !.starting = FALSE, !.stops = {},
                       !.start = IF m.starting THEN "none" ELSE m.start]
        a == IF m.starting THEN Signal(n, m.start, "no") ELSE n
    IN  IF "worker" \in m.stops THEN Signal(a, "worker", "ok") ELSE a

\* BTstack still works on a command for this CIG
Busy(m) == m.ctl[m.cig].st = "creating" \/ \E c \in Cis : m.ctl[m.cig].cis[c] = "creating"

\* mutant: the CIG is removed while its CIS are still being created
TryRemoveCigEarly(m, io) ==
    CASE ~m.exists -> FinishStop(m)
      [] m.exists /\ (m.pending \/ m.toDrop # {} \/ m.dropping # {} \/ m.removing) -> m
      [] OTHER ->
           [m EXCEPT !.removing = TRUE, !.ctl[m.cig].st = "removing",
                     !.early = m.early \/ (Busy(m) /\ ~m.forced)]

TryRemoveCig(m, io) ==
    CASE ~m.exists -> FinishStop(m)
      [] m.exists /\ (m.pending \/ m.cisPending > 0 \/ m.toDrop # {} \/ m.dropping # {} \/ m.removing) -> m
      [] OTHER ->
           IF io = "remove"
           THEN FinishStop([m EXCEPT !.exists = FALSE])
           ELSE [m EXCEPT !.removing = TRUE, !.ctl[m.cig].st = "removing",
                          !.early = m.early \/ (Busy(m) /\ ~m.forced)]

EnterRemoveCig(m, io) == TryRemoveCig(To(m, "RemoveCig"), io)

DropCis(m, io) ==
    IF m.toDrop # {} /\ io = "busy"
    THEN [m EXCEPT !.drop = TRUE]
    ELSE [m EXCEPT !.drop = FALSE, !.toDrop = {},
                   !.dropping = IF io = "drop" THEN m.dropping ELSE m.dropping \cup m.toDrop]

AfterRelease(m, io) ==
    IF AllAses(m, TRUE, {"Idle", "Codec", "Unknown"}) THEN EnterRemoveCig(m, io) ELSE m

EnterRelease(m, io) ==
    LET n == DropCis([To(m, "Release") EXCEPT !.toDrop = m.toDrop \cup (m.conn \ m.dropping)], io)
        ids == {c \in m.acl : m.ases[c] \notin {"Idle", "Releasing", "Unknown"}}
    IN  IF ids = {} THEN EnterRemoveCig(n, io) ELSE AfterRelease(Write(n, ids, "Release"), io)

AfterDisable(m, io) ==
    IF AllAses(m, TRUE, AseState \ {"Enabling", "Streaming"}) THEN EnterRelease(m, io) ELSE m

EnterDisable(m, io) ==
    LET n == [To(m, "Disable") EXCEPT !.sending = {}]
        ids == {c \in m.acl : m.ases[c] \in {"Enabling", "Streaming"}}
    IN  IF ids = {} THEN EnterRelease(n, io) ELSE AfterDisable(Write(n, ids, "Disable"), io)

Fail(m, io) == IF m.fail THEN m ELSE EnterDisable([m EXCEPT !.fail = TRUE], io)

(***************************************************************************)
(* Starting: enter() of each step, then advance() for that step            *)
(***************************************************************************)
EnterStreaming(m, io) ==
    LET n == To(m, "Streaming")
    IN  IF io = "buffers"
        THEN Fail(n, io)
        ELSE Signal([n EXCEPT !.sending = Cis, !.starting = FALSE, !.start = "none"], m.start, "ok")

AfterWait(m, io) == IF AllAses(m, FALSE, {"Streaming"}) THEN EnterStreaming(m, io) ELSE m

AfterCreateCis(m, io) ==
    IF m.cisUp = Cardinality(Cis) THEN AfterWait(To(m, "WaitStreaming"), io) ELSE m

EnterCreateCis(m, io) ==
    LET n == [To(m, "CreateCis") EXCEPT !.cisUp = 0]
    IN  IF io = "cis"
        THEN Fail(n, io)
        ELSE AfterCreateCis([n EXCEPT !.cisPending = Cardinality(Cis),
                                      !.ctl[m.cig].cis = [c \in Cis |-> "creating"]], io)

AfterEnable(m, io) ==
    IF AllAses(m, FALSE, {"Enabling", "Streaming"}) THEN EnterCreateCis(m, io) ELSE m

SendEnable(m, io) ==
    CASE ~m.avail -> [m EXCEPT !.waiting = TRUE]
      [] m.avail /\ m.acl # Cis -> Fail(Write([m EXCEPT !.waiting = FALSE], Before(m), "Enable"), io)
      [] m.avail /\ m.acl = Cis -> AfterEnable(Write([m EXCEPT !.waiting = FALSE], Cis, "Enable"), io)

EnterEnable(m, io) == SendEnable([To(m, "Enable") EXCEPT !.waiting = FALSE], io)

AfterConfigQos(m, io) == IF AllAses(m, FALSE, {"Qos"}) THEN EnterEnable(m, io) ELSE m

EnterConfigQos(m, io) ==
    LET n == Write(To(m, "ConfigQos"), Before(m), "Qos")
    IN  IF m.acl # Cis THEN Fail(n, io) ELSE AfterConfigQos(n, io)

\* LE Set CIG Parameters; an id BTstack still holds is passed over
EnterCreateCig(m, io) ==
    LET n == To(m, "CreateCig")
        free == {i \in CigIds : m.ctl[i].st = "free"}
    IN  IF io = "cig" \/ free = {}
        THEN Fail(n, io)
        ELSE [n EXCEPT !.cig = Min(free), !.pending = TRUE, !.exists = TRUE,
                       !.ctl[Min(free)].st = "creating"]

AfterConfigCodec(m, io) == IF AllAses(m, FALSE, {"Codec"}) THEN EnterCreateCig(m, io) ELSE m

EnterConfigCodec(m, io) ==
    LET n == Write(To(m, "ConfigCodec"), Before(m), "Codec")
    IN  IF m.acl # Cis THEN Fail(n, io) ELSE AfterConfigCodec(n, io)

Advance(m, io) ==
    CASE m.phase = "ConfigCodec"   -> AfterConfigCodec(m, io)
      [] m.phase = "ConfigQos"     -> AfterConfigQos(m, io)
      [] m.phase = "Enable"        -> AfterEnable(m, io)
      [] m.phase = "CreateCis"     -> AfterCreateCis(m, io)
      [] m.phase = "WaitStreaming" -> AfterWait(m, io)
      [] m.phase = "Disable"       -> AfterDisable(m, io)
      [] m.phase = "Release"       -> AfterRelease(m, io)
      [] m.phase = "RemoveCig"     -> TryRemoveCig(m, io)
      [] OTHER                     -> m

(***************************************************************************)
(* The handlers                                                            *)
(***************************************************************************)
\* start_unicast, Unicast::start
StartUnicast(m, who, io) ==
    IF m.phase # "Idle"
    THEN Signal(m, who, "no")
    ELSE EnterConfigCodec([m EXCEPT !.start = who, !.starting = TRUE, !.fail = FALSE,
                                    !.cisUp = 0, !.cisPending = 0, !.waiting = FALSE,
                                    !.conn = {}, !.toDrop = {}, !.dropping = {}, !.drop = FALSE,
                                    !.forced = FALSE, !.recount = FALSE, !.early = FALSE], io)

\* stop_unicast, Unicast::stop
StopUnicast(m, who, io) ==
    LET n == [m EXCEPT !.sending = {}]
        q == [n EXCEPT !.stops = m.stops \cup {who}]
    IN  CASE m.phase = "Idle" -> Signal(n, who, "ok")
          [] m.phase \in StopPhases -> q
          [] OTHER -> EnterDisable([q EXCEPT !.fail = m.fail \/ m.starting], io)

\* mutant: the removal that timed out is waited for without a timer
OnTimeoutOnce(m, io) ==
    LET n == [m EXCEPT !.step = FALSE]
    IN  CASE m.phase = "Disable" -> EnterRelease(n, io)
          [] m.phase = "Release" -> EnterRemoveCig(n, io)
          [] m.phase = "RemoveCig" -> TryRemoveCig([n EXCEPT !.pending = FALSE, !.cisPending = 0], io)
          [] OTHER -> Fail(n, io)

OnTimeout(m, io) ==
    LET n == [m EXCEPT !.step = FALSE]
        forced == TryRemoveCig([n EXCEPT !.pending = FALSE, !.cisPending = 0, !.drop = FALSE,
                                         !.toDrop = {}, !.dropping = {}, !.forced = TRUE], io)
    IN  CASE m.phase = "Disable" -> EnterRelease(n, io)
          [] m.phase = "Release" -> EnterRemoveCig(n, io)
          [] m.phase = "RemoveCig" ->
               IF ~m.removing /\ m.exists
               THEN [forced EXCEPT !.step = forced.phase = "RemoveCig"]
               ELSE FinishStop([n EXCEPT !.removing = FALSE, !.exists = FALSE])
          [] OTHER -> Fail(n, io)

OnAvailableContexts(m, io) ==
    IF m.phase = "Enable" /\ m.waiting THEN SendEnable(m, io) ELSE m

StreamLost(m) == [m EXCEPT !.lost = TRUE, !.sending = {}]

OnAseUpdate(m, c, io) ==
    CASE m.phase = "Idle" -> m
      [] m.phase = "Streaming" /\ m.ases[c] # "Streaming" -> StreamLost(m)
      [] OTHER -> Advance(m, io)

\* A Control Point write was rejected: as a whole, or for its ASE
OnCpResponse(m, whole, io) ==
    IF m.phase \in (IF whole THEN StartPhases \cup {"Streaming"}
                    ELSE {"ConfigCodec", "CreateCig", "ConfigQos", "Enable"})
    THEN Fail(m, io) ELSE m

OnCigCreated(m, i, ok, io) ==
    LET n == [m EXCEPT !.pending = FALSE]
    IN  CASE ~m.pending \/ i # m.cig -> m
          [] m.pending /\ i = m.cig /\ ~ok -> Fail([n EXCEPT !.exists = FALSE], io)
          [] OTHER -> IF m.phase = "CreateCig" THEN EnterConfigQos(n, io) ELSE Advance(n, io)

OnCisCreated(m, i, c, ok, io) ==
    LET n == [m EXCEPT !.cisPending = m.cisPending - 1]
        f == IF m.phase = "CreateCis" THEN Fail(n, io) ELSE n
    IN  CASE i # m.cig \/ m.cisPending = 0 -> m
          [] i = m.cig /\ m.cisPending > 0 /\ ok ->
               Advance([n EXCEPT !.cisUp = m.cisUp + 1, !.conn = m.conn \cup {c}], io)
          [] OTHER -> Advance(f, io)

\* on_link_lost's last part, for an ACL and a CIS of the stream
LinkLost(m, io) ==
    CASE m.phase = "Idle" -> m
      [] m.phase = "Streaming" -> StreamLost(m)
      [] m.phase \in StopPhases -> Advance(m, io)
      [] m.phase \in StartPhases -> Fail(m, io)

OnCisDown(m, c, io) ==
    LET unasked == c \notin m.dropping \cup m.toDrop /\ m.phase = "CreateCis" /\ m.cisPending > 0
        n == [m EXCEPT !.cisPending = IF unasked THEN m.cisPending - 1 ELSE m.cisPending,
                       !.recount = m.recount \/ (unasked /\ c \in m.conn),
                       !.conn = m.conn \ {c}, !.toDrop = m.toDrop \ {c},
                       !.dropping = m.dropping \ {c}, !.sending = m.sending \ {c}]
    IN  IF m.phase = "Idle" THEN m ELSE LinkLost(n, io)

OnCigRemoved(m, io) ==
    LET n == [m EXCEPT !.removing = FALSE, !.exists = FALSE]
    IN  CASE ~m.removing -> m
          [] OTHER -> IF m.phase = "RemoveCig" THEN FinishStop(n) ELSE n

(***************************************************************************)
(* Steps of the BTstack thread: one event, one handler                     *)
(***************************************************************************)
UnicastInit ==
    /\ uni = [phase |-> "Idle", start |-> "none", stops |-> {}, starting |-> FALSE, fail |-> FALSE,
              exists |-> FALSE, pending |-> FALSE, removing |-> FALSE,
              cisPending |-> 0, cisUp |-> 0, waiting |-> FALSE,
              conn |-> {}, toDrop |-> {}, dropping |-> {}, sending |-> {}, cig |-> Min(CigIds),
              step |-> FALSE, drop |-> FALSE, refresh |-> FALSE, lost |-> FALSE, res |-> "none",
              acl |-> Cis, ases |-> [c \in Cis |-> "Idle"], cp |-> [c \in Cis |-> <<>>],
              avail |-> TRUE, ctl |-> [i \in CigIds |-> [st |-> "free", cis |-> NoCis]],
              early |-> FALSE, forced |-> FALSE, recount |-> FALSE]
    /\ srv = [c \in Cis |-> "Idle"] /\ due = {}
    /\ leJobs = <<>> /\ wk = "idle" /\ again = 0 /\ starts = 0 /\ faults = 0

Faulty == faults < MaxFaults

\* Which of the handler's calls into BTstack does not do what it was asked:
\* can_send_command_now, cig_create, cis_create, cig_remove, cmd_disconnect,
\* or a controller without ISO buffers
EnvAnswers == {"ok", "busy", "cig", "cis", "remove", "drop", "buffers"}

\* A handler, with what its calls answer; only an answer that matters is a fault
Handled(H(_)) ==
    \E io \in EnvAnswers :
        /\ io # "ok" => H(io) # H("ok")
        /\ io \notin {"ok", "busy"} => Faulty
        /\ uni' = H(io)
        /\ faults' = IF io \in {"ok", "busy"} THEN faults ELSE faults + 1

\* The same for an event that is a fault by itself
HandledFault(H(_)) ==
    /\ Faulty /\ faults' = faults + 1
    /\ uni' = H("ok")

RunUnicastJob ==
    /\ leJobs # <<>> /\ leJobs' = Tail(leJobs)
    /\ Handled(LAMBDA io : IF Head(leJobs)[1] = "start"
                           THEN StartUnicast(uni, Head(leJobs)[2], io)
                           ELSE StopUnicast(uni, Head(leJobs)[2], io))
    /\ UNCHANGED <<srv, due, wk, again, starts>>

StepTimeout ==
    /\ uni.step
    /\ Handled(LAMBDA io : OnTimeout(uni, io))
    /\ UNCHANGED <<srv, due, leJobs, wk, again, starts>>

DropTimer ==
    /\ uni.drop
    /\ Handled(LAMBDA io : DropCis(uni, io))
    /\ UNCHANGED <<srv, due, leJobs, wk, again, starts>>

\* on_refresh: the ASEs that are not there yet are read again
OnRefresh ==
    /\ uni.refresh
    /\ LET done == IF uni.phase = "Disable" THEN AseState \ {"Enabling", "Streaming"}
                   ELSE {"Idle", "Codec", "Unknown"}
       IN  due' = due \cup {c \in uni.acl : uni.ases[c] \notin done}
    /\ UNCHANGED <<uni, srv, leJobs, wk, again, starts, faults>>

\* An ASE value arrives: the core stores it, then on_ase_update
AseValue(c) ==
    /\ c \in due /\ due' = due \ {c}
    /\ Handled(LAMBDA io : OnAseUpdate([uni EXCEPT !.ases[c] = srv[c]], c, io))
    /\ UNCHANGED <<srv, leJobs, wk, again, starts>>

\* A server's notifications out of order: Releasing after the state it led to
StaleAseValue(c) ==
    /\ c \in uni.acl /\ c \notin due /\ srv[c] \in {"Idle", "Codec"}
    /\ uni.phase \in {"Disable", "Release"}
    /\ HandledFault(LAMBDA io : OnAseUpdate([uni EXCEPT !.ases[c] = "Releasing"], c, io))
    /\ UNCHANGED <<srv, due, leJobs, wk, again, starts>>

\* PACS Available Audio Contexts change
Contexts ==
    /\ \/ uni.avail /\ Faulty /\ faults' = faults + 1
          /\ uni' = OnAvailableContexts([uni EXCEPT !.avail = FALSE], "ok")
       \/ ~uni.avail /\ Handled(LAMBDA io : OnAvailableContexts([uni EXCEPT !.avail = TRUE], io))
    /\ UNCHANGED <<srv, due, leJobs, wk, again, starts>>

CigCreated(i) ==
    /\ uni.ctl[i].st = "creating"
    /\ \/ Handled(LAMBDA io : OnCigCreated([uni EXCEPT !.ctl[i].st = "up"], i, TRUE, io))
       \/ HandledFault(LAMBDA io : OnCigCreated([uni EXCEPT !.ctl[i].st = "free"], i, FALSE, io))
    /\ UNCHANGED <<srv, due, leJobs, wk, again, starts>>

CisCreated(i, c) ==
    /\ uni.ctl[i].cis[c] = "creating"
    /\ \/ Handled(LAMBDA io : OnCisCreated([uni EXCEPT !.ctl[i].cis[c] = "up"], i, c, TRUE, io))
       \/ HandledFault(LAMBDA io : OnCisCreated([uni EXCEPT !.ctl[i].cis[c] = "down"], i, c, FALSE, io))
    /\ UNCHANGED <<srv, due, leJobs, wk, again, starts>>

\* HCI Disconnection Complete of a CIS: asked for by us or by the removal of
\* its CIG, the end of its ACL, or its own loss
CisDown(i, c) ==
    LET H(io) == LET m == [uni EXCEPT !.ctl[i].cis[c] = "down"]
                 IN  IF i = uni.cig THEN OnCisDown(m, c, io) ELSE m
    IN  /\ uni.ctl[i].cis[c] = "up"
        /\ \/ /\ \/ c \in uni.dropping /\ i = uni.cig
                 \/ uni.ctl[i].st = "removing"
                 \/ c \notin uni.acl
              /\ Handled(H)
           \/ HandledFault(H)
        /\ IF srv[c] = "Streaming"
           THEN srv' = [srv EXCEPT ![c] = "Qos"] /\ due' = due \cup {c}
           ELSE UNCHANGED <<srv, due>>
        /\ UNCHANGED <<leJobs, wk, again, starts>>

\* on_disconnected: the core forgets what it knew of the device
AclDown(c) ==
    /\ c \in uni.acl
    /\ HandledFault(LAMBDA io :
         LinkLost([uni EXCEPT !.acl = uni.acl \ {c}, !.ases[c] = "Unknown", !.cp[c] = <<>>], io))
    /\ srv' = [srv EXCEPT ![c] = "Idle"] /\ due' = due \ {c}
    /\ UNCHANGED <<leJobs, wk, again, starts>>

\* LE Remove CIG completed (BTstack closed the CIS first)
CigRemoved(i) ==
    /\ uni.ctl[i].st = "removing" /\ uni.ctl[i].cis = NoCis
    /\ Handled(LAMBDA io : OnCigRemoved([uni EXCEPT !.ctl[i].st = "free"], io))
    /\ UNCHANGED <<srv, due, leJobs, wk, again, starts>>

(***************************************************************************)
(* The servers (external): what an ASE makes of a Control Point write      *)
(***************************************************************************)
Accepts(s, op) ==
    CASE op = "Codec"   -> s \in {"Idle", "Codec", "Qos"}
      [] op = "Qos"     -> s \in {"Codec", "Qos"}
      [] op = "Enable"  -> s = "Qos"
      [] op = "Disable" -> s \in {"Enabling", "Streaming"}
      [] op = "Release" -> s \notin {"Idle", "Releasing"}

Result(op) ==
    CASE op \in {"Codec", "Qos"} -> op
      [] op = "Enable"  -> "Enabling"
      [] op = "Disable" -> "Qos"
      [] op = "Release" -> "Releasing"

CpAnswer(c) ==
    /\ uni.cp[c] # <<>>
    /\ LET op == Head(uni.cp[c])
           m == [uni EXCEPT !.cp[c] = Tail(uni.cp[c])]
       IN  \/ /\ Accepts(srv[c], op)
              /\ srv' = [srv EXCEPT ![c] = Result(op)] /\ due' = due \cup {c}
              /\ uni' = m /\ UNCHANGED faults
           \/ /\ ~Accepts(srv[c], op)
              /\ Handled(LAMBDA io : OnCpResponse(m, FALSE, io)) /\ UNCHANGED <<srv, due>>
           \/ /\ Accepts(srv[c], op)
              /\ \E whole \in BOOLEAN : HandledFault(LAMBDA io : OnCpResponse(m, whole, io))
              /\ UNCHANGED <<srv, due>>
    /\ UNCHANGED <<leJobs, wk, again, starts>>

\* Receiver Start Ready, the end of Releasing, and a server that leaves by itself
ServerMoves(c) ==
    /\ c \in uni.acl
    /\ \E s \in AseState :
         /\ \/ srv[c] = "Enabling" /\ uni.ctl[uni.cig].cis[c] = "up" /\ s = "Streaming"
               /\ UNCHANGED faults
            \/ srv[c] = "Releasing" /\ s \in {"Idle", "Codec"} /\ UNCHANGED faults
            \/ srv[c] \in {"Enabling", "Streaming"} /\ s \in {"Qos", "Releasing"}
               /\ Faulty /\ faults' = faults + 1
         /\ srv' = [srv EXCEPT ![c] = s] /\ due' = due \cup {c}
    /\ UNCHANGED <<uni, leJobs, wk, again, starts>>

(***************************************************************************)
(* The worker: le_start_stream, le_stop_stream                             *)
(***************************************************************************)
\* Its connect_and_stream connects the devices that are gone first
LeStart ==
    /\ wk = "idle" /\ starts < MaxStarts /\ starts' = starts + 1
    /\ LET gone == Cis \ uni.acl
       IN  /\ uni' = [uni EXCEPT !.lost = FALSE, !.res = "none", !.acl = Cis,
                                 !.ases = [c \in Cis |-> IF c \in gone THEN "Idle" ELSE uni.ases[c]]]
           /\ due' = due \ gone
    /\ leJobs' = Append(leJobs, <<"start", "worker">>) /\ wk' = "start"
    /\ UNCHANGED <<srv, again, faults>>

\* The worker's wait is over: nobody listens to the old signal any more
Forgotten(m) ==
    [m EXCEPT !.res = "none", !.start = IF m.start = "worker" THEN "nobody" ELSE m.start,
              !.stops = {IF w = "worker" THEN "nobody" ELSE w : w \in m.stops}]
Abandoned(q) == [i \in DOMAIN q |-> <<q[i][1], "nobody">>]

PostStop(n) ==
    /\ uni' = Forgotten(uni)
    /\ leJobs' = Append(Abandoned(leJobs), <<"stop", "worker">>)
    /\ wk' = "stop" /\ again' = n

\* A wait that ends without its completion (time-out, cancel) counts as a fault
GivesUp == IF uni.res = "none" THEN Faulty /\ faults' = faults + 1 ELSE UNCHANGED faults

\* le_wait of the start: done(true), or done(false), a cancel or the time-out
LeStarted ==
    /\ wk = "start" /\ uni.res = "ok"
    /\ uni' = [uni EXCEPT !.res = "none"] /\ wk' = "streaming"
    /\ UNCHANGED <<srv, due, leJobs, again, starts, faults>>

\* le_start_stream stops the stream, then its caller does so again
LeNotStarted ==
    /\ wk = "start" /\ uni.res # "ok"
    /\ GivesUp
    /\ PostStop(1)
    /\ UNCHANGED <<srv, due, starts>>

\* The stream was lost, or the session ends
LeStop ==
    /\ wk = "streaming"
    /\ PostStop(0)
    /\ UNCHANGED <<srv, due, starts, faults>>

\* le_wait of the stop: done, or the time-out of 8 s
LeStopped ==
    /\ wk = "stop"
    /\ GivesUp
    /\ IF again > 0
       THEN PostStop(again - 1)
       ELSE /\ uni' = Forgotten(uni) /\ leJobs' = Abandoned(leJobs)
            /\ wk' = "idle" /\ UNCHANGED again
    /\ UNCHANGED <<srv, due, starts>>

Machine ==
    \/ RunUnicastJob \/ StepTimeout \/ DropTimer \/ OnRefresh \/ Contexts
    \/ \E c \in Cis : AseValue(c) \/ StaleAseValue(c) \/ AclDown(c) \/ CpAnswer(c) \/ ServerMoves(c)
    \/ \E i \in CigIds : CigCreated(i) \/ CigRemoved(i)
    \/ \E i \in CigIds, c \in Cis : CisCreated(i, c) \/ CisDown(i, c)
Worker == LeStart \/ LeStarted \/ LeNotStarted \/ LeStop \/ LeStopped
UnicastNext == Machine \/ Worker
UnicastSpec == UnicastInit /\ [][UnicastNext]_unicastVars

(***************************************************************************)
(* Properties                                                              *)
(***************************************************************************)
UniType ==
    [phase : Phase, start : {"none", "worker", "nobody"}, stops : SUBSET {"worker", "nobody"},
     starting : BOOLEAN, fail : BOOLEAN, exists : BOOLEAN, pending : BOOLEAN, removing : BOOLEAN,
     cisPending : 0..Cardinality(Cis), cisUp : 0..Cardinality(Cis), waiting : BOOLEAN,
     conn : SUBSET Cis, toDrop : SUBSET Cis, dropping : SUBSET Cis, sending : SUBSET Cis,
     cig : CigIds, step : BOOLEAN, drop : BOOLEAN, refresh : BOOLEAN, lost : BOOLEAN,
     res : {"none", "ok", "no"}, acl : SUBSET Cis, ases : [Cis -> AseState],
     cp : [Cis -> Seq({"Codec", "Qos", "Enable", "Disable", "Release"})], avail : BOOLEAN,
     ctl : [CigIds -> [st : {"free", "creating", "up", "removing"},
                       cis : [Cis -> {"down", "creating", "up"}]]],
     early : BOOLEAN, forced : BOOLEAN, recount : BOOLEAN]

\* The type of every variable of the unicast stream and its worker
UnicastTypeOK ==
    /\ uni \in UniType /\ srv \in [Cis -> AseState] /\ due \subseteq Cis
    /\ leJobs \in Seq({"start", "stop"} \X {"worker", "nobody"})
    /\ wk \in {"idle", "start", "streaming", "stop"} /\ again \in 0..1
    /\ starts \in 0..MaxStarts /\ faults \in 0..MaxFaults

\* enter(), on_timeout(): a step that is under way has a timer that ends it,
\* and nobody waits for a machine that rests: a start is unanswered only
\* before Streaming, a stop only while it stops
SomethingEndsIt ==
    /\ uni.phase \notin {"Idle", "Streaming"} => uni.step
    /\ uni.starting = (uni.start # "none")
    /\ uni.starting => uni.phase \notin {"Idle", "Streaming"}
    /\ uni.stops # {} => uni.phase \in StopPhases

\* Unicast::busy() refuses a start by the phase alone: whatever the machine
\* knew of the CIG and the CIS is gone when it is Idle, after a time-out too
IdleIsClean ==
    uni.phase = "Idle" =>
        /\ ~uni.exists /\ ~uni.pending /\ ~uni.removing /\ ~uni.drop
        /\ uni.conn = {} /\ uni.toDrop = {} /\ uni.dropping = {} /\ uni.sending = {}

\* try_remove_cig: gap_cig_remove waits for the CIG and the CIS BTstack still
\* creates, except when the removal timed out, or after a CIS that was
\* established went down while another was being created (counted twice)
RemovalWaits == uni.early => uni.recount

\* The same as bap.rs states it, without the exception
RemovalWaitsAlways == ~uni.early

\* Streaming: every link is up and every ASE streams, or the loss was
\* reported, or a stop is on its way; SDUs go to CIS that are up only
LossTold ==
    /\ uni.phase = "Streaming" =>
         \/ uni.lost
         \/ uni.acl = Cis /\ uni.conn = Cis /\ \A c \in Cis : uni.ases[c] = "Streaming"
         \/ \E i \in DOMAIN leJobs : leJobs[i][1] = "stop"
    /\ uni.sending # {} => uni.phase = "Streaming" /\ uni.sending \subseteq uni.conn

\* The worker and the BTstack thread agree: a worker that was told the stream
\* runs has it running until it stops it itself, unless the rejection of an
\* old Control Point write failed it (on_cp_response tells nobody then), and a
\* worker that is done has left nothing behind that no stop will end
WorkerAgrees ==
    /\ wk = "streaming" \/ (uni.res = "ok" /\ wk = "start") => uni.phase = "Streaming" \/ uni.fail
    /\ wk = "idle" =>
         \/ uni.phase \in StopPhases \cup {"Idle"}
         \/ \E i \in DOMAIN leJobs : leJobs[i][1] = "stop"

\* The step timers: the machine comes to rest, whatever the devices, the
\* controller and the worker do
ComesToRest == []<>(uni.phase \in {"Idle", "Streaming"})

\* The unicast stream is safe: every step has an end, the machine at rest has
\* forgotten everything, the CIG outlives what is being created, and the worker
\* knows of a loss.
UnicastSafe ==
    UnicastTypeOK /\ SomethingEndsIt /\ IdleIsClean /\ RemovalWaits /\ LossTold /\ WorkerAgrees
=============================================================================
