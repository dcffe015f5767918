----------------------------- MODULE LeConnect -----------------------------
(***************************************************************************)
(* Connections to LE Audio devices (bt-host/src/le/core.rs): the table of  *)
(* devices, the one connection attempt, pairing and encryption, GATT       *)
(* discovery, and the merge of a device that came back under an address    *)
(* nobody had resolved yet with the one known by its identity.  A worker   *)
(* thread (le/api.rs, le_connect) posts the attempt, waits for it, and     *)
(* abandons it when it gives up.                                           *)
(*                                                                         *)
(* An address is <<peer, "id">> (the identity) or <<peer, r>> with r one   *)
(* of the resolvable private addresses the peer uses in turn.  `lec` is    *)
(* what the BTstack thread keeps: the devices, the attempt, and BTstack's  *)
(* links and pages; a handler maps one value of `lec` to the next.         *)
(***************************************************************************)
EXTENDS Naturals, Sequences, FiniteSets, FiniteSetsExt

CONSTANTS
    Peer,          \* the LE Audio devices in reach
    Rpas,          \* the private addresses of each peer, used in turn
    MaxLinks,      \* bound: LE connections, each with a handle of its own
    MaxConnects,   \* bound: le_connect calls of the worker
    MaxTroubles    \* bound: failures of peers, links and discovery, silent losses
ASSUME LeConnectConstants ==
    Peer # {} /\ Rpas # {} /\ MaxLinks \in Nat /\ MaxConnects \in Nat /\ MaxTroubles \in Nat

VARIABLES
    lec,           \* the BTstack thread's state (LecType)
    current,       \* [Peer -> Rpas]: the address the peer answers to now
    bonds,         \* peers BTstack has a bond with
    theirs,        \* peers that have a bond with us
    lecJobs,       \* FIFO of posted jobs: <<job, argument, its signal is waited for>>
    lew,           \* what the worker waits for: <<>> or <<address>>
    given,         \* [Peer -> ids]: the device ids le_connect has returned
    connects, troubles
leConnectVars == <<lec, current, bonds, theirs, lecJobs, lew, given, connects, troubles>>

Handle == 1..MaxLinks
MaxDevices == MaxConnects
Addr == Peer \X (Rpas \cup {"id"})
NoLink == [st |-> "none", peer |-> CHOOSE p \in Peer : TRUE, rpa |-> CHOOSE r \in Rpas : TRUE, closing |-> FALSE,
           sec |-> "idle", told |-> FALSE, disc |-> 0]

\* LeDevice::new
Device(key, a, known) ==
    [addr |-> key, peerAddr |-> a, known |-> known, link |-> 0, enc |-> FALSE, pairing |-> FALSE,
     attempts |-> 0, secured |-> FALSE, ready |-> FALSE]

(***************************************************************************)
(* Helpers of the handlers                                                 *)
(***************************************************************************)
\* device_by_handle: 0 when no device has the link
Owner(s, h) == Max({d \in DOMAIN s.devs : s.devs[d].link = h} \cup {0})

\* HCI Disconnect; Disconnection Complete follows
Hangup(s, h) == IF h = 0 THEN s ELSE [s EXCEPT !.links[h].closing = TRUE]

\* gap_connect_cancel
CancelPage(s) == [s EXCEPT !.pages = {[pg EXCEPT !.cancelled = TRUE] : pg \in s.pages}]

\* sm_request_pairing
RequestPairing(s, h) == [s EXCEPT !.links[h].sec = "asked"]

FinishConnect(s, d, ok) ==
    IF s.att # d THEN s
    ELSE [s EXCEPT !.att = 0, !.resId = d,
                   !.res = IF s.live THEN (IF ok THEN "ok" ELSE "no") ELSE s.res]

FailConnect(s, d) == FinishConnect(Hangup(s, s.devs[d].link), d, FALSE)

\* mutant: discovery does not wait for the pairing
MaybeSecuredPairing(s, d) ==
    LET v == s.devs[d]
    IN  IF ~v.enc \/ v.secured \/ v.link = 0 THEN s
        ELSE [s EXCEPT !.devs[d].secured = TRUE, !.links[v.link].disc = d]

\* maybe_secured: GATT discovery starts once the link is encrypted and paired
MaybeSecured(s, d) ==
    LET v == s.devs[d]
    IN  IF ~v.enc \/ v.pairing \/ v.secured \/ v.link = 0 THEN s
        ELSE [s EXCEPT !.devs[d].secured = TRUE, !.links[v.link].disc = d]

\* device_for_addr: <<the devices, the id>>
DeviceForAddr(s, a) ==
    LET known == a \in s.resolved
        key == IF known THEN <<a[1], "id">> ELSE a
        found == {d \in DOMAIN s.devs : s.devs[d].addr = key \/ s.devs[d].peerAddr = a}
    IN  IF found # {} THEN <<s.devs, Min(found)>>
        ELSE <<Append(s.devs, Device(key, a, known)), Len(s.devs) + 1>>

(***************************************************************************)
(* The handlers                                                            *)
(***************************************************************************)
\* mutant: a device whose link is still being set up counts as connected
StartConnectEarly(s0, a, live, fresh, accepted) ==
    LET found == DeviceForAddr(s0, a)
        id == found[2]
        s == [s0 EXCEPT !.devs = found[1], !.resId = id, !.live = live]
    IN  CASE s0.att # 0 -> IF live THEN [s0 EXCEPT !.res = "no"] ELSE s0
          [] s0.att = 0 /\ s.devs[id].link # 0 -> IF live THEN [s EXCEPT !.res = "ok"] ELSE s
          [] OTHER -> [s EXCEPT !.att = id, !.tgt = a,
                                !.pages = s.pages \cup {[addr |-> a, cancelled |-> FALSE]}]

\* start_connect.  `fresh`: a scan saw the peer's address just before
\* (connect_address); `accepted`: what gap_connect answers
StartConnect(s0, a, live, fresh, accepted) ==
    LET found == DeviceForAddr(s0, a)
        id == found[2]
        s == [s0 EXCEPT !.devs = found[1], !.resId = id, !.live = live]
        d == s.devs[id]
        rpa == <<d.addr[1], current[d.addr[1]]>>
        target == IF fresh /\ rpa \in s.resolved /\ d.addr[2] = "id" THEN rpa ELSE a
        Answer(x, r) == IF live THEN [x EXCEPT !.res = r] ELSE x
    IN  CASE s0.att # 0 -> Answer([s0 EXCEPT !.resId = 0], "no")
          [] s0.att = 0 /\ d.link # 0 /\ d.ready -> Answer(s, "ok")
          [] s0.att = 0 /\ d.link # 0 /\ ~d.ready -> [s EXCEPT !.att = id, !.tgt = target]
          [] OTHER ->
               LET n == [s EXCEPT !.devs[id].attempts = 0]
               IN  IF accepted
                   THEN [n EXCEPT !.att = id, !.tgt = target,
                                  !.pages = s.pages \cup {[addr |-> target, cancelled |-> FALSE]}]
                   ELSE Answer(n, "no")

\* abandon_connect
AbandonConnect(s) ==
    LET id == s.resId
    IN  IF id = 0 THEN CancelPage(s)
        ELSE LET n == IF s.att = id THEN [s EXCEPT !.att = 0] ELSE s
             IN  IF n.devs[id].link # 0 THEN Hangup(n, n.devs[id].link) ELSE CancelPage(n)

\* on_le_connected, status 0
OnLeConnected(s, h, a) ==
    LET d == s.att
        stray == d = 0 \/ (d # 0 /\ (s.devs[d].link # 0 \/ s.tgt # a))
    IN  IF stray THEN Hangup(s, h)
        ELSE RequestPairing([s EXCEPT !.devs[d] =
                 [@ EXCEPT !.link = h, !.peerAddr = a, !.enc = FALSE, !.pairing = FALSE,
                           !.secured = FALSE, !.ready = FALSE]], h)

\* on_le_connected, any other status: whatever page it was of
OnLeConnectFailed(s) == IF s.att = 0 THEN s ELSE FailConnect(s, s.att)

\* on_identity: the link moves to the device already known under the identity
OnIdentity(s, d, identity) ==
    LET v == s.devs[d]
        others == {o \in DOMAIN s.devs : o # d /\ s.devs[o].addr = identity}
        o == Min(others)
    IN  CASE v.known /\ v.addr = identity -> s
          [] /\ ~(v.known /\ v.addr = identity)
             /\ IF others = {} THEN TRUE ELSE s.devs[o].link # 0 \/ v.secured ->
               [s EXCEPT !.devs[d].addr = identity, !.devs[d].known = TRUE,
                         !.twice = s.twice \/ others # {}]
          [] OTHER ->
               [s EXCEPT !.devs[o] = [@ EXCEPT !.known = TRUE, !.peerAddr = v.peerAddr, !.link = v.link,
                                               !.enc = v.enc, !.pairing = v.pairing,
                                               !.attempts = v.attempts, !.secured = FALSE, !.ready = FALSE],
                         !.devs[d] = [@ EXCEPT !.link = 0, !.enc = FALSE, !.pairing = FALSE,
                                               !.secured = FALSE, !.ready = FALSE],
                         !.att = IF s.att = d THEN o ELSE s.att,
                         !.resId = IF s.att = d THEN o ELSE s.resId]

\* on_disconnected
OnDisconnected(s, h) ==
    LET d == Owner(s, h)
        n == [s EXCEPT !.links[h].st = "gone", !.links[h].disc = 0]
    IN  IF d = 0 THEN n
        ELSE FinishConnect([n EXCEPT !.devs[d] = [@ EXCEPT !.link = 0, !.enc = FALSE, !.pairing = FALSE,
                                                           !.secured = FALSE, !.ready = FALSE]],
                           d, FALSE)

\* SM_EVENT_PAIRING_COMPLETE with an error, and a key that does not encrypt:
\* once more, then the attempt fails
TryAgain(s, d, h) ==
    LET n == [s EXCEPT !.devs[d].attempts = s.devs[d].attempts + 1]
    IN  IF n.devs[d].attempts < 2 THEN RequestPairing(n, h)
        ELSE FailConnect([n EXCEPT !.links[h].sec = "idle"], d)

(***************************************************************************)
(* Jobs of the worker on the BTstack thread                                *)
(***************************************************************************)
LeConnectInit ==
    /\ lec = [devs |-> <<>>, att |-> 0, tgt |-> CHOOSE a \in Addr : TRUE, live |-> FALSE,
              res |-> "none", resId |-> 0, resolved |-> {}, pages |-> {},
              links |-> [h \in Handle |-> NoLink], twice |-> FALSE]
    /\ current = [p \in Peer |-> CHOOSE r \in Rpas : TRUE]
    /\ bonds = {} /\ theirs = {} /\ lecJobs = <<>> /\ lew = <<>>
    /\ given = [p \in Peer |-> {}] /\ connects = 0 /\ troubles = 0

Troubled == troubles < MaxTroubles /\ troubles' = troubles + 1

RunConnectJob ==
    /\ lecJobs # <<>> /\ lecJobs' = Tail(lecJobs)
    /\ LET j == Head(lecJobs)
       IN  \/ /\ j[1] = "connect"
              /\ \E fresh, accepted \in BOOLEAN :
                   /\ accepted => \A pg \in lec.pages : pg.cancelled
                   /\ lec' = StartConnect(lec, j[2], j[3], fresh, accepted)
           \/ j[1] = "abandon" /\ lec' = AbandonConnect(lec)
           \/ j[1] = "disconnect" /\ lec' = Hangup(lec, lec.devs[j[2]].link)
    /\ UNCHANGED <<current, bonds, theirs, lew, given, connects, troubles>>

(***************************************************************************)
(* BTstack's events (the links, the security manager and the GATT client   *)
(* are external; the handlers above are the code's)                        *)
(***************************************************************************)
\* A page ends: connected (also when its cancel was too late), or not
PageSucceeds(pg) ==
    /\ pg \in lec.pages /\ pg.addr[2] = current[pg.addr[1]]
    /\ \A h \in Handle : ~(lec.links[h].st = "up" /\ lec.links[h].peer = pg.addr[1])
    /\ \E h \in Handle :
         /\ lec.links[h].st = "none" /\ \A g \in Handle : lec.links[g].st = "none" => h <= g
         /\ lec' = OnLeConnected(
                     [lec EXCEPT !.pages = lec.pages \ {pg},
                                 !.links[h] = [NoLink EXCEPT !.st = "up", !.peer = pg.addr[1],
                                                             !.rpa = pg.addr[2]]],
                     h, pg.addr)
    /\ UNCHANGED <<current, bonds, theirs, lecJobs, lew, given, connects, troubles>>

PageFails(pg) ==
    /\ pg \in lec.pages
    /\ IF pg.cancelled THEN UNCHANGED troubles ELSE Troubled
    /\ lec' = OnLeConnectFailed([lec EXCEPT !.pages = lec.pages \ {pg}])
    /\ UNCHANGED <<current, bonds, theirs, lecJobs, lew, given, connects>>

\* The peer or the radio ends the link; a loss may stay unnoticed for a while
LinkEnds(h) ==
    /\ lec.links[h].st \in {"up", "lost"}
    /\ \/ (lec.links[h].closing \/ lec.links[h].st = "lost") /\ UNCHANGED troubles
          /\ lec' = OnDisconnected(lec, h)
       \/ lec.links[h].st = "up" /\ ~lec.links[h].closing /\ Troubled
          /\ (lec' = OnDisconnected(lec, h) \/ lec' = [lec EXCEPT !.links[h].st = "lost"])
    /\ UNCHANGED <<current, bonds, theirs, lecJobs, lew, given, connects>>

Secures(h, from) == lec.links[h].st = "up" /\ lec.links[h].sec = from

\* SM_EVENT_IDENTITY_RESOLVING_SUCCEEDED for a link
IdentityResolved(h) ==
    LET p == lec.links[h].peer
        d == Owner(lec, h)
        s == [lec EXCEPT !.links[h].told = TRUE, !.resolved = @ \cup {<<p, lec.links[h].rpa>>}]
    IN  /\ Secures(h, "asked") /\ p \in bonds /\ ~lec.links[h].told
        /\ lec' = IF d = 0 THEN s ELSE OnIdentity(s, d, <<p, "id">>)
        /\ UNCHANGED <<current, bonds, theirs, lecJobs, lew, given, connects, troubles>>

\* The same for an address seen while scanning
AddressResolved(p) ==
    /\ p \in bonds /\ <<p, current[p]>> \notin lec.resolved
    /\ lec' = [lec EXCEPT !.resolved = @ \cup {<<p, current[p]>>}]
    /\ UNCHANGED <<current, bonds, theirs, lecJobs, lew, given, connects, troubles>>

\* The stored key encrypts the link, or SM_EVENT_REENCRYPTION_COMPLETE fails
Reencrypted(h) ==
    LET p == lec.links[h].peer
        d == Owner(lec, h)
    IN  /\ Secures(h, "asked") /\ p \in bonds /\ lec.links[h].told
        /\ IF p \in theirs
           THEN /\ LET s == [lec EXCEPT !.links[h].sec = "done"]
                   IN  lec' = IF d = 0 THEN s ELSE MaybeSecured([s EXCEPT !.devs[d].enc = TRUE], d)
                /\ UNCHANGED bonds
           ELSE /\ lec' = IF d = 0 THEN [lec EXCEPT !.links[h].sec = "idle"]
                          ELSE TryAgain([lec EXCEPT !.links[h].told = FALSE], d, h)
                /\ bonds' = IF d = 0 THEN bonds ELSE bonds \ {p}
        /\ UNCHANGED <<current, theirs, lecJobs, lew, given, connects, troubles>>

PairingStarted(h) ==
    LET d == Owner(lec, h)
        s == [lec EXCEPT !.links[h].sec = "pairing"]
    IN  /\ Secures(h, "asked") /\ lec.links[h].peer \notin bonds
        /\ lec' = IF d = 0 THEN s ELSE [s EXCEPT !.devs[d].pairing = TRUE]
        /\ UNCHANGED <<current, bonds, theirs, lecJobs, lew, given, connects, troubles>>

\* Encryption Change during the pairing, before its keys are distributed
PairingEncrypts(h) ==
    LET d == Owner(lec, h)
        s == [lec EXCEPT !.links[h].sec = "keys"]
    IN  /\ Secures(h, "pairing")
        /\ lec' = IF d = 0 THEN s ELSE MaybeSecured([s EXCEPT !.devs[d].enc = TRUE], d)
        /\ UNCHANGED <<current, bonds, theirs, lecJobs, lew, given, connects, troubles>>

\* SM_EVENT_IDENTITY_CREATED
IdentityCreated(h) ==
    LET p == lec.links[h].peer
        d == Owner(lec, h)
        s == [lec EXCEPT !.links[h].sec = "bonding", !.links[h].told = TRUE,
                         !.resolved = @ \cup {<<p, lec.links[h].rpa>>}]
    IN  /\ Secures(h, "keys")
        /\ bonds' = bonds \cup {p} /\ theirs' = theirs \cup {p}
        /\ lec' = IF d = 0 THEN s ELSE OnIdentity(s, d, <<p, "id">>)
        /\ UNCHANGED <<current, lecJobs, lew, given, connects, troubles>>

\* SM_EVENT_PAIRING_COMPLETE
PairingComplete(h) ==
    LET d == Owner(lec, h)
        s(x) == IF d = 0 THEN [lec EXCEPT !.links[h].sec = x]
                ELSE [lec EXCEPT !.links[h].sec = x, !.devs[d].pairing = FALSE]
    IN  /\ \/ /\ Secures(h, "bonding") /\ UNCHANGED troubles
              /\ lec' = IF d = 0 THEN s("done") ELSE MaybeSecured(s("done"), d)
           \/ /\ Secures(h, "pairing") \/ Secures(h, "keys")
              /\ Troubled
              /\ lec' = IF d = 0 THEN s("idle") ELSE TryAgain(s("idle"), d, h)
        /\ UNCHANGED <<current, bonds, theirs, lecJobs, lew, given, connects>>

\* discover_all and read_device end; their callbacks name the device and link
Discovered(h) ==
    LET d == lec.links[h].disc
        here == lec.devs[d].link = h
        s == [lec EXCEPT !.links[h].disc = 0]
    IN  /\ lec.links[h].st = "up" /\ d # 0
        /\ \/ /\ UNCHANGED troubles
              /\ lec' = IF here THEN FinishConnect([s EXCEPT !.devs[d].ready = TRUE], d, TRUE) ELSE s
           \/ Troubled /\ lec' = IF here THEN FailConnect(s, d) ELSE s
        /\ UNCHANGED <<current, bonds, theirs, lecJobs, lew, given, connects>>

\* The peer takes its next private address; it loses its bond (a reset)
PeerChanges(p) ==
    /\ Troubled
    /\ \/ \E r \in Rpas : r # current[p] /\ current' = [current EXCEPT ![p] = r] /\ UNCHANGED theirs
       \/ p \in theirs /\ theirs' = theirs \ {p} /\ UNCHANGED current
    /\ UNCHANGED <<lec, bonds, lecJobs, lew, given, connects>>

(***************************************************************************)
(* The worker: le_connect and le_disconnect                                *)
(***************************************************************************)
WorkerConnects(a) ==
    /\ lew = <<>> /\ connects < MaxConnects /\ connects' = connects + 1
    /\ lew' = <<a>> /\ lec' = [lec EXCEPT !.res = "none"]
    /\ lecJobs' = Append(lecJobs, <<"connect", a, TRUE>>)
    /\ UNCHANGED <<current, bonds, theirs, given, troubles>>

WorkerConnected ==
    /\ lew # <<>> /\ lec.res = "ok" /\ lew' = <<>>
    /\ given' = [given EXCEPT ![lew[1][1]] = @ \cup {lec.resId}]
    /\ lec' = [lec EXCEPT !.res = "none"]
    /\ UNCHANGED <<current, bonds, theirs, lecJobs, connects, troubles>>

\* done(false), the time-out or a cancel: the attempt is abandoned
WorkerGivesUp ==
    /\ lew # <<>> /\ lec.res # "ok" /\ lew' = <<>>
    /\ lec' = [lec EXCEPT !.live = FALSE, !.res = "none"]
    /\ lecJobs' = Append([i \in DOMAIN lecJobs |-> <<lecJobs[i][1], lecJobs[i][2], FALSE>>],
                         <<"abandon", 0, FALSE>>)
    /\ UNCHANGED <<current, bonds, theirs, given, connects, troubles>>

WorkerDisconnects ==
    /\ lew = <<>> /\ lecJobs = <<>>
    /\ \E d \in DOMAIN lec.devs : lec.devs[d].link # 0 /\ lecJobs' = Append(lecJobs, <<"disconnect", d, FALSE>>)
    /\ UNCHANGED <<lec, current, bonds, theirs, lew, given, connects, troubles>>

LeConnectNext ==
    \/ RunConnectJob \/ WorkerConnected \/ WorkerGivesUp \/ WorkerDisconnects
    \/ \E a \in Addr : WorkerConnects(a)
    \/ \E pg \in lec.pages : PageSucceeds(pg) \/ PageFails(pg)
    \/ \E p \in Peer : AddressResolved(p) \/ PeerChanges(p)
    \/ \E h \in Handle :
         \/ LinkEnds(h) \/ IdentityResolved(h) \/ Reencrypted(h) \/ PairingStarted(h)
         \/ PairingEncrypts(h) \/ IdentityCreated(h) \/ PairingComplete(h) \/ Discovered(h)
LeConnectSpec == LeConnectInit /\ [][LeConnectNext]_leConnectVars

(***************************************************************************)
(* Properties                                                              *)
(***************************************************************************)
DeviceType ==
    [addr : Addr, peerAddr : Addr, known : BOOLEAN, link : 0..MaxLinks, enc : BOOLEAN,
     pairing : BOOLEAN, attempts : 0..2, secured : BOOLEAN, ready : BOOLEAN]
LinkType ==
    [st : {"none", "up", "lost", "gone"}, peer : Peer, rpa : Rpas, closing : BOOLEAN,
     sec : {"idle", "asked", "pairing", "keys", "bonding", "done"}, told : BOOLEAN, disc : 0..MaxDevices]

LecType ==
    [devs : Seq(DeviceType), att : 0..MaxDevices, tgt : Addr, live : BOOLEAN,
     res : {"none", "ok", "no"}, resId : 0..MaxDevices, resolved : SUBSET Addr,
     pages : SUBSET [addr : Addr, cancelled : BOOLEAN], links : [Handle -> LinkType], twice : BOOLEAN]

\* A job and what it is about; only the signal of a connect may be waited for
LeJobs ==
    ({"connect"} \X Addr \X BOOLEAN) \cup {<<"abandon", 0, FALSE>>}
        \cup ({"disconnect"} \X (1..MaxDevices) \X {FALSE})

\* The type of every variable of the LE connections
LeConnectTypeOK ==
    /\ lec \in LecType /\ Len(lec.devs) <= MaxDevices
    /\ lec.att <= Len(lec.devs) /\ lec.resId <= Len(lec.devs)
    /\ lecJobs \in Seq(LeJobs)
    /\ \A i \in DOMAIN lecJobs : lecJobs[i][1] = "disconnect" => lecJobs[i][2] <= Len(lec.devs)
    /\ current \in [Peer -> Rpas] /\ bonds \subseteq Peer /\ theirs \subseteq Peer
    /\ given \in [Peer -> SUBSET (1..MaxDevices)]
    /\ connects \in 0..MaxConnects /\ troubles \in 0..MaxTroubles
    /\ lew \in {<<>>} \cup {<<a>> : a \in Addr}

\* on_le_connected, abandon_connect, fail_connect: a link is up for exactly
\* one device, or it is being disconnected; and a link that is not being
\* disconnected is of a device that is set up or that the attempt sets up
NoOrphanLink ==
    \A h \in Handle :
        LET owners == {d \in DOMAIN lec.devs : lec.devs[d].link = h}
        IN  /\ Cardinality(owners) <= 1
            /\ lec.links[h].st \in {"up", "lost"} /\ ~lec.links[h].closing =>
                 /\ owners # {}
                 /\ \A d \in owners : lec.devs[d].ready \/ lec.att = d

\* The attempt can always end: its page runs, or its link is being set up or
\* taken down
AttemptEnds ==
    lec.att # 0 =>
        LET h == lec.devs[lec.att].link
        IN  IF h = 0 THEN \E pg \in lec.pages : pg.addr = lec.tgt
            ELSE \/ lec.links[h].closing \/ lec.links[h].st = "lost"
                 \/ lec.links[h].sec \in {"asked", "pairing", "keys", "bonding"}
                 \/ lec.links[h].disc = lec.att

\* What a device has reached is true of the link it has now, through
\* reconnections and the move of a link to another device: discovery runs on
\* an encrypted link after the pairing only, and a ready device is discovered
ReachedOnThisLink ==
    \A d \in DOMAIN lec.devs :
        LET v == lec.devs[d]
        IN  /\ v.secured => v.link # 0 /\ lec.links[v.link].sec = "done"
            /\ v.ready => v.secured /\ lec.links[v.link].disc = 0

\* A step that answers le_connect with success names the device it was asked
\* for, connected and ready
ConnectedIsAsked ==
    [][lec.res = "none" /\ lec'.res = "ok" =>
          LET v == lec'.devs[lec'.resId]
          IN  v.ready /\ v.link # 0 /\ lec'.links[v.link].peer = lew[1][1]]_leConnectVars

\* le_connect, on_identity: one peer keeps one device id under all its
\* addresses, unless it came back while the link it had was not known to be
\* down
SameId == \A p \in Peer : Cardinality(given[p]) > 1 => lec.twice

\* The same as le_connect states it, without the exception
SameIdAlways == \A p \in Peer : Cardinality(given[p]) <= 1

\* The LE connections are safe: no link without a device, no attempt that cannot
\* end, and no device that believes of this link what was true of an older one.
LinksSafe == LeConnectTypeOK /\ NoOrphanLink /\ AttemptEnds /\ ReachedOnThisLink /\ SameId
=============================================================================
