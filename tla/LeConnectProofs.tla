-------------------------- MODULE LeConnectProofs --------------------------
(***************************************************************************)
(* Connecting LE devices is safe, for any number of peers, addresses,      *)
(* links, connects and failures.                                           *)
(*                                                                         *)
(* LinksSafe is not inductive: it says of the links and the attempt what   *)
(* the properties tell apart.  The invariant `Linked` says how far the     *)
(* set-up of each device and of its link has come, so that the two move    *)
(* together (DeviceInv, LinkInv), what the attempt waits for (AttemptInv), *)
(* and that no two devices share a link or an identity (OneOwner,          *)
(* OneIdentity).  CountInv bounds the devices by the connects that were    *)
(* asked for; AskInv says for whom an answer is, and GivenInv what the     *)
(* worker made of it.                                                      *)
(*                                                                         *)
(* Most events are of one of a few kinds, each with a lemma: of a link and *)
(* the device that has it (OwnerKeeps), of a link no device has            *)
(* (StrayKeeps), a link that moves to another device (LinkMoves), ends     *)
(* (LinkDrops), comes up (LinkComes, LinkStraysKeeps) or starts to close   *)
(* (CalmerKeeps), and an attempt that starts (StartsKeeps).                *)
(***************************************************************************)
EXTENDS LeConnect, FiniteSetTheorems, SequenceTheorems, WellFoundedInduction, TLAPS

-----------------------------------------------------------------------------
(* The inductive invariant of the links and the devices *)

\* The devices by their ids
Ids(s) == 1..Len(s.devs)

\* What a device has reached on link k: v is the device, k its link
Reached(v, k) ==
    /\ k.st \in {"up", "lost"} /\ k.peer = v.addr[1]
    /\ v.secured <=> k.sec = "done"
    /\ v.pairing <=> k.sec \in {"pairing", "keys", "bonding"}
    /\ k.sec \in {"keys", "bonding"} => v.enc
    /\ k.sec \in {"bonding", "done"} => k.told
    /\ k.told => v.addr = <<k.peer, "id">>
    /\ v.ready => v.secured /\ k.disc = 0
    /\ v.attempts = 2 => k.sec = "idle"

\* A device without a link has reached nothing
Nothing(v) == ~v.enc /\ ~v.pairing /\ ~v.secured /\ ~v.ready

\* What device d has reached is true of the link it has, and a link that is
\* not on its way down is of a device that is set up or that the attempt is of
DeviceInv(s, d) ==
    LET v == s.devs[d]
        k == s.links[v.link]
    IN  /\ v.peerAddr[1] = v.addr[1]
        /\ v.link = 0 => Nothing(v)
        /\ v.link # 0 => Reached(v, k) /\ (k.closing \/ v.ready \/ s.att = d)

\* A link that is up has a device, and discovery runs for that device
LinkInv(s, h) ==
    LET k == s.links[h]
    IN  /\ k.st \in {"up", "lost"} /\ ~k.closing => \E d \in Ids(s) : s.devs[d].link = h
        /\ k.disc # 0 => k.disc \in Ids(s) /\ s.devs[k.disc].link = h /\ s.devs[k.disc].secured

\* What the set-up of a link with state k by device d waits for
Waits(k, d) ==
    k.closing \/ k.st = "lost" \/ k.disc = d \/ k.sec \in {"asked", "pairing", "keys", "bonding"}

\* The attempt is for its device, and something it waits for will come
AttemptInv(s) ==
    s.att # 0 =>
        LET v == s.devs[s.att]
        IN  /\ s.tgt[1] = v.addr[1]
            /\ v.link = 0 => v.attempts = 0 /\ \E pg \in s.pages : pg.addr = s.tgt
            /\ v.link # 0 => Waits(s.links[v.link], s.att)

\* A link is of one device at most
OneOwner(s) == \A d, e \in Ids(s) : s.devs[d].link # 0 /\ s.devs[d].link = s.devs[e].link => d = e

\* A device that is known by its identity is the only one of that identity
OneIdentity(s) ==
    s.twice \/ \A d, e \in Ids(s) : s.devs[d].addr[2] = "id" /\ s.devs[d].addr = s.devs[e].addr => d = e

\* The type of the record of the BTstack thread
LecTypes(s) == s \in LecType /\ Len(s.devs) <= MaxDevices /\ s.att <= Len(s.devs) /\ s.resId <= Len(s.devs)

\* The invariant of the record of the BTstack thread
Linked(s) ==
    /\ LecTypes(s)
    /\ \A d \in Ids(s) : DeviceInv(s, d)
    /\ \A h \in Handle : LinkInv(s, h)
    /\ AttemptInv(s) /\ OneOwner(s) /\ OneIdentity(s)

\* The attempt's page is the same
Same(s, t) == t.tgt = s.tgt /\ t.pages = s.pages /\ t.live = s.live

\* From s to t, of the links only h changes, to k
OneLink(s, t, h, k) == t.links[h] = k /\ \A g \in Handle : g # h => t.links[g] = s.links[g]

\* From s to t, of the devices only d changes, to v
OneDevice(s, t, d, v) ==
    Len(t.devs) = Len(s.devs) /\ t.devs[d] = v /\ \A e \in Ids(s) : e # d => t.devs[e] = s.devs[e]

\* The attempt goes on, or it was of device d and ends
Answered(s, t, d) ==
    \/ t.att = s.att /\ t.res = s.res /\ t.resId = s.resId
    \/ s.att = d /\ t.att = 0 /\ t.resId = d /\ (t.res = s.res \/ s.live)

\* What a handler of an event does with the attempt and the devices' names
Moves(s, t) ==
    /\ Len(t.devs) = Len(s.devs) /\ t.live = s.live /\ (s.twice => t.twice)
    /\ \A d \in Ids(s) : /\ t.devs[d].addr[1] = s.devs[d].addr[1]
                         /\ s.devs[d].addr[2] = "id" => t.devs[d].addr = s.devs[d].addr
    /\ t.att # 0 => s.att # 0 /\ t.devs[t.att].addr[1] = s.devs[s.att].addr[1]
    /\ s.att = 0 => t.resId = s.resId /\ t.res = s.res
    /\ t.res # s.res => s.live /\ s.att # 0 /\ t.att = 0 /\ t.resId = s.att
    /\ t.res # s.res /\ t.res = "ok" => t.devs[s.att].ready

\* The types of the parts
LEMMA LecParts ==
    ASSUME NEW s, LecTypes(s)
    PROVE  /\ s.devs \in Seq(DeviceType) /\ Len(s.devs) \in Nat /\ DOMAIN s.devs = Ids(s)
           /\ \A d \in Ids(s) : s.devs[d] \in DeviceType /\ d # 0 /\ d \in 1..MaxDevices
           /\ \A h \in Handle : s.links[h] \in LinkType /\ h # 0
           /\ \A d \in Ids(s) : s.devs[d].link # 0 => s.devs[d].link \in Handle
           /\ s.links \in [Handle -> LinkType]
           /\ s.att \in Nat /\ (s.att # 0 => s.att \in Ids(s))
           /\ s.resId \in Nat /\ (s.resId # 0 => s.resId \in Ids(s))
<1>1. s.devs \in Seq(DeviceType) /\ s.links \in [Handle -> LinkType]
  BY DEF LecTypes, LecType
<1>2. Len(s.devs) \in Nat /\ DOMAIN s.devs = Ids(s)
  BY <1>1, LenProperties DEF Ids
<1>3. \A d \in Ids(s) : s.devs[d] \in DeviceType
  BY <1>1, ElementOfSeq DEF Ids
<1>4. \A d \in Ids(s) : d # 0 /\ d \in 1..MaxDevices
  BY <1>2, LeConnectConstants DEF Ids, LecTypes, MaxDevices
<1>5. \A d \in Ids(s) : s.devs[d].link # 0 => s.devs[d].link \in Handle
  BY <1>3, LeConnectConstants DEF DeviceType, Handle
<1>6. \A h \in Handle : s.links[h] \in LinkType /\ h # 0
  BY <1>1, LeConnectConstants DEF Handle
<1>7. s.att \in Nat /\ s.resId \in Nat
  BY LeConnectConstants DEF LecTypes, LecType, MaxDevices
<1>8. (s.att # 0 => s.att \in Ids(s)) /\ (s.resId # 0 => s.resId \in Ids(s))
  BY <1>7, <1>2 DEF LecTypes, Ids
<1>9. QED
  BY <1>1, <1>2, <1>3, <1>4, <1>5, <1>6, <1>7, <1>8

\* A step about a link and the device that has it
LEMMA OwnerKeeps ==
    ASSUME NEW s, Linked(s), NEW d \in Ids(s), NEW h \in Handle, s.devs[d].link = h,
           NEW t, LecTypes(t), NEW v, NEW k, Same(s, t), OneDevice(s, t, d, v), OneLink(s, t, h, k),
           v.link = h, v.peerAddr = s.devs[d].peerAddr, v.addr[1] = s.devs[d].addr[1],
           Reached(v, k), k.disc \in {0, d}, k.disc = d => v.secured,
           Answered(s, t, d), v.ready \/ t.res # "ok" \/ s.res = "ok",
           t.att = d => Waits(k, d),
           k.closing \/ v.ready \/ t.att = d,
           s.twice => t.twice,
           s.devs[d].addr[2] = "id" => v.addr = s.devs[d].addr,
           \/ v.addr = s.devs[d].addr
           \/ t.twice
           \/ \A e \in Ids(s) : e # d => s.devs[e].addr # v.addr
    PROVE  Linked(t) /\ Moves(s, t)
<1>0. Ids(t) = Ids(s)
  BY DEF Ids, OneDevice
<1>1. \A e \in Ids(t) : DeviceInv(t, e)
  <2>1. SUFFICES ASSUME NEW e \in Ids(s) PROVE DeviceInv(t, e)
    BY <1>0
  <2>2. CASE e = d
    <3>1. s.devs[d].peerAddr[1] = s.devs[d].addr[1]
      BY DEF Linked, DeviceInv
    <3>2. h # 0
      BY LeConnectConstants DEF Handle
    <3>3. QED
      BY <2>2, <3>1, <3>2 DEF DeviceInv, OneDevice, OneLink
  <2>3. CASE e # d
    <3>0. s.att = e => t.att = e
      BY <2>3 DEF Answered
    <3>1. t.devs[e] = s.devs[e] /\ DeviceInv(s, e)
      BY <2>3 DEF OneDevice, Linked
    <3>2. s.devs[e].link # 0 => s.devs[e].link \in Handle /\ s.devs[e].link # h
      BY <2>3, LecParts DEF Linked, OneOwner
    <3>3. s.devs[e].link # 0 => t.links[s.devs[e].link] = s.links[s.devs[e].link]
      BY <3>2 DEF OneLink
    <3>4. QED
      BY <3>0, <3>1, <3>3 DEF DeviceInv
  <2>4. QED
    BY <2>2, <2>3
<1>2. \A g \in Handle : LinkInv(t, g)
  <2>1. SUFFICES ASSUME NEW g \in Handle PROVE LinkInv(t, g)
    OBVIOUS
  <2>2. CASE g = h
    <3>1. t.devs[d] = v /\ d \in Ids(t) /\ t.links[g] = k
      BY <1>0, <2>2 DEF OneDevice, OneLink
    <3>2. QED
      BY <2>2, <3>1 DEF LinkInv
  <2>3. CASE g # h
    <3>1. t.links[g] = s.links[g] /\ LinkInv(s, g)
      BY <2>3 DEF OneLink, Linked
    <3>2. \A e \in Ids(s) : s.devs[e].link = g => t.devs[e] = s.devs[e]
      BY <2>3 DEF OneDevice
    <3>3. QED
      BY <3>1, <3>2, <1>0 DEF LinkInv
  <2>4. QED
    BY <2>2, <2>3
<1>3. AttemptInv(t)
  <2>1. SUFFICES ASSUME t.att # 0 PROVE AttemptInv(t)
    BY DEF AttemptInv
  <2>2. t.att = s.att /\ t.tgt = s.tgt /\ t.pages = s.pages /\ s.att \in Ids(s) /\ AttemptInv(s)
    BY <2>1, LecParts DEF Same, Linked, Answered
  <2>3. CASE s.att = d
    <3>1. s.tgt[1] = s.devs[d].addr[1]
      BY <2>1, <2>2, <2>3 DEF AttemptInv
    <3>2. t.devs[d] = v /\ t.links[h] = k /\ h # 0
      BY LeConnectConstants DEF OneDevice, OneLink, Handle
    <3>3. QED
      BY <2>1, <2>2, <2>3, <3>1, <3>2 DEF AttemptInv
  <2>4. CASE s.att # d
    <3>1. t.devs[s.att] = s.devs[s.att]
      BY <2>2, <2>4 DEF OneDevice
    <3>2. s.devs[s.att].link # 0 => s.devs[s.att].link \in Handle /\ s.devs[s.att].link # h
      BY <2>2, <2>4, LecParts DEF Linked, OneOwner
    <3>3. s.devs[s.att].link # 0 => t.links[s.devs[s.att].link] = s.links[s.devs[s.att].link]
      BY <3>2 DEF OneLink
    <3>4. QED
      BY <2>1, <2>2, <3>1, <3>3 DEF AttemptInv
  <2>5. QED
    BY <2>3, <2>4
<1>4. OneOwner(t)
  <2>1. \A e \in Ids(s) : t.devs[e].link = s.devs[e].link
    BY DEF OneDevice
  <2>2. QED
    BY <1>0, <2>1 DEF OneOwner, Linked
<1>5. OneIdentity(t)
  <2>1. t.devs[d] = v /\ \A e \in Ids(s) : e # d => t.devs[e] = s.devs[e]
    BY DEF OneDevice
  <2>2. QED
    BY <1>0, <2>1 DEF OneIdentity, Linked
<1>6. Moves(s, t)
  <2>1. t.devs[d] = v /\ \A e \in Ids(s) : e # d => t.devs[e] = s.devs[e]
    BY DEF OneDevice
  <2>2. \A e \in Ids(s) : /\ t.devs[e].addr[1] = s.devs[e].addr[1]
                          /\ s.devs[e].addr[2] = "id" => t.devs[e].addr = s.devs[e].addr
    BY <2>1
  <2>3. t.att # 0 => t.att = s.att /\ s.att \in Ids(s)
    BY LecParts DEF Answered, Linked
  <2>4. d # 0
    BY LecParts DEF Linked
  <2>5. t.res # s.res => s.att = d /\ (t.res = "ok" => v.ready)
    BY DEF Answered
  <2>6. QED
    BY <2>1, <2>2, <2>3, <2>4, <2>5 DEF Moves, Same, OneDevice, Answered
<1>7. QED
  BY <1>1, <1>2, <1>3, <1>4, <1>5, <1>6 DEF Linked

\* A step about a link no device has: it stays on its way down
LEMMA StrayKeeps ==
    ASSUME NEW s, Linked(s), NEW h \in Handle, \A d \in Ids(s) : s.devs[d].link # h,
           NEW t, LecTypes(t), NEW k, Same(s, t), OneLink(s, t, h, k), t.devs = s.devs,
           t.att = s.att, t.res = s.res, t.resId = s.resId, t.twice = s.twice,
           k.disc = 0, k.st \in {"up", "lost"} => k.closing
    PROVE  Linked(t) /\ Moves(s, t)
<1>1. \A e \in Ids(t) : DeviceInv(t, e)
  <2>1. SUFFICES ASSUME NEW e \in Ids(s) PROVE DeviceInv(t, e)
    BY DEF Ids
  <2>2. s.devs[e].link # 0 => s.devs[e].link \in Handle /\ s.devs[e].link # h
    BY LecParts DEF Linked
  <2>3. s.devs[e].link # 0 => t.links[s.devs[e].link] = s.links[s.devs[e].link]
    BY <2>2 DEF OneLink
  <2>4. QED
    BY <2>3 DEF Linked, DeviceInv
<1>2. \A g \in Handle : LinkInv(t, g)
  <2>1. SUFFICES ASSUME NEW g \in Handle PROVE LinkInv(t, g)
    OBVIOUS
  <2>2. CASE g = h
    BY <2>2 DEF LinkInv, OneLink
  <2>3. CASE g # h
    BY <2>3 DEF LinkInv, OneLink, Linked, Ids
  <2>4. QED
    BY <2>2, <2>3
<1>3. AttemptInv(t)
  <2>1. s.att # 0 /\ s.devs[s.att].link # 0 => s.devs[s.att].link \in Handle /\ s.devs[s.att].link # h
    BY LecParts DEF Linked
  <2>2. s.att # 0 /\ s.devs[s.att].link # 0 => t.links[s.devs[s.att].link] = s.links[s.devs[s.att].link]
    BY <2>1 DEF OneLink
  <2>3. QED
    BY <2>2 DEF AttemptInv, Linked, Same
<1>4. OneOwner(t) /\ OneIdentity(t)
  BY DEF OneOwner, OneIdentity, Linked, Ids
<1>5. QED
  BY <1>1, <1>2, <1>3, <1>4 DEF Linked, Moves, Same

\* A step that changes no device and no link, and drops no page
LEMMA SameKeeps ==
    ASSUME NEW s, Linked(s), NEW t, LecTypes(t), t.devs = s.devs, t.links = s.links,
           t.twice = s.twice, t.att = s.att, t.tgt = s.tgt,
           \A pg \in s.pages : \E q \in t.pages : q.addr = pg.addr
    PROVE  Linked(t)
<1>1. \A e \in Ids(t) : DeviceInv(t, e)
  BY DEF DeviceInv, Linked, Ids
<1>2. \A g \in Handle : LinkInv(t, g)
  BY DEF LinkInv, Linked, Ids
<1>3. AttemptInv(t)
  BY DEF AttemptInv, Linked
<1>4. OneOwner(t) /\ OneIdentity(t)
  BY DEF OneOwner, OneIdentity, Linked, Ids
<1>5. QED
  BY <1>1, <1>2, <1>3, <1>4 DEF Linked

\* device_by_handle finds the device of a link
LEMMA OwnerIs ==
    ASSUME NEW s, Linked(s), NEW h \in Handle
    PROVE  \/ Owner(s, h) = 0 /\ \A d \in Ids(s) : s.devs[d].link # h
           \/ Owner(s, h) # 0 /\ Owner(s, h) \in Ids(s) /\ s.devs[Owner(s, h)].link = h
<1> DEFINE found == {d \in DOMAIN s.devs : s.devs[d].link = h}
<1>1. DOMAIN s.devs = Ids(s) /\ Ids(s) \subseteq Nat /\ h # 0 /\ Len(s.devs) \in Nat
  BY LecParts DEF Linked, Ids
<1>2. CASE found = {}
  <2>1. found \cup {0} = {0}
    BY <1>2
  <2>2. Owner(s, h) = 0
    BY <2>1 DEF Owner, Max
  <2>3. QED
    BY <1>1, <1>2, <2>2
<1>3. CASE found # {}
  <2>1. PICK d \in Ids(s) : s.devs[d].link = h
    BY <1>1, <1>3
  <2>2. found = {d}
    BY <1>1, <2>1 DEF Linked, OneOwner
  <2>3. d # 0 /\ d \in Nat
    BY LecParts DEF Linked, Ids
  <2>4. Max({d} \cup {0}) = d
    BY <2>3 DEF Max
  <2>5. QED
    BY <2>1, <2>2, <2>3, <2>4 DEF Owner
<1>4. QED
  BY <1>2, <1>3

\* A changed device and a changed link
LEMMA Changed ==
    ASSUME NEW s, LecTypes(s), NEW d \in Ids(s), NEW v \in DeviceType, NEW h \in Handle, NEW k \in LinkType,
           NEW t, t.devs = [s.devs EXCEPT ![d] = v], t.links = [s.links EXCEPT ![h] = k]
    PROVE  /\ t.devs \in Seq(DeviceType) /\ t.links \in [Handle -> LinkType]
           /\ OneDevice(s, t, d, v) /\ OneLink(s, t, h, k)
<1>1. s.devs \in Seq(DeviceType) /\ s.links \in [Handle -> LinkType]
  BY LecParts
<1>2. t.devs \in Seq(DeviceType) /\ OneDevice(s, t, d, v)
  BY <1>1, ExceptSeq DEF Ids, OneDevice
<1>3. t.links \in [Handle -> LinkType] /\ OneLink(s, t, h, k)
  BY <1>1 DEF OneLink
<1>4. QED
  BY <1>2, <1>3

\* The record of the BTstack thread with other devices, links and resolved
\* addresses
With(s, devs, links, resolved) ==
    [s EXCEPT !.devs = devs, !.links = links, !.resolved = resolved]

\* Fields of the record written twice
LEMMA RewrittenDevices ==
    ASSUME NEW n \in LecType, NEW X, NEW Y, NEW t,
           t = [[[n EXCEPT !.devs = Y] EXCEPT !.devs = X] EXCEPT !.twice = n.twice]
    PROVE  t = [n EXCEPT !.devs = X]
BY DEF LecType

\* The same, of the devices and the links
LEMMA Rewritten ==
    ASSUME NEW s \in LecType, NEW X, NEW Y, NEW X2, NEW Y2, NEW n, NEW t,
           n = [[s EXCEPT !.links = Y] EXCEPT !.devs = X],
           t = [n EXCEPT !.devs = X2, !.links = Y2]
    PROVE  t = With(s, X2, Y2, s.resolved)
BY DEF LecType, With

\* The fields of With
LEMMA WithFields ==
    ASSUME NEW s \in LecType, NEW D \in Seq(DeviceType), NEW L \in [Handle -> LinkType], NEW R \in SUBSET Addr,
           NEW t, t = With(s, D, L, R)
    PROVE  /\ t \in LecType /\ Same(s, t) /\ t.twice = s.twice
           /\ t.att = s.att /\ t.res = s.res /\ t.resId = s.resId
           /\ t.devs = D /\ t.links = L /\ t.resolved = R
BY DEF With, LecType, Same

\* An event of a link no device has
LEMMA StrayEvent ==
    ASSUME NEW s, Linked(s), NEW h \in Handle, Owner(s, h) = 0, s.links[h].st \in {"up", "lost"},
           NEW k \in LinkType, NEW R \in SUBSET Addr, NEW t,
           t = With(s, s.devs, [s.links EXCEPT ![h] = k], R),
           k.disc = s.links[h].disc, k.closing = s.links[h].closing
    PROVE  Linked(t) /\ Moves(s, t)
<1>1. \A d \in Ids(s) : s.devs[d].link # h
  <2>1. 0 \notin Ids(s)
    BY DEF Ids
  <2>2. QED
    BY <2>1, OwnerIs
<1>2. k.disc = 0 /\ k.closing
  <2>1. LinkInv(s, h) /\ s.links[h] \in LinkType
    BY LecParts DEF Linked
  <2>2. QED
    BY <1>1, <2>1 DEF LinkInv, LinkType
<1>3. /\ s \in LecType /\ s.devs \in Seq(DeviceType) /\ s.links \in [Handle -> LinkType]
      /\ [s.links EXCEPT ![h] = k] \in [Handle -> LinkType]
  BY LecParts DEF Linked, LecTypes
<1>4. /\ t \in LecType /\ Same(s, t) /\ t.twice = s.twice
      /\ t.att = s.att /\ t.res = s.res /\ t.resId = s.resId
      /\ t.devs = s.devs /\ t.links = [s.links EXCEPT ![h] = k]
  BY <1>3, WithFields
<1>5. LecTypes(t) /\ OneLink(s, t, h, k)
  BY <1>3, <1>4 DEF LecTypes, Linked, OneLink
<1>6. QED
  BY <1>1, <1>2, <1>4, <1>5, StrayKeeps

\* An event of a link that device d has, and goes on to have; the link may name it
LEMMA NamedEvent ==
    ASSUME NEW s, Linked(s), NEW h \in Handle, NEW d \in Ids(s), s.devs[d].link = h,
           NEW k \in LinkType, NEW v \in DeviceType, NEW R \in SUBSET Addr, NEW t,
           t = With(s, [s.devs EXCEPT ![d] = v], [s.links EXCEPT ![h] = k], R),
           v.link = h, v.peerAddr = s.devs[d].peerAddr, v.addr[1] = s.devs[d].addr[1],
           s.devs[d].addr[2] = "id" => v.addr = s.devs[d].addr,
           v.addr = s.devs[d].addr \/ s.twice \/ \A e \in Ids(s) : e # d => s.devs[e].addr # v.addr,
           Reached(v, k), k.disc \in {0, d}, k.disc = d => v.secured,
           s.att = d => Waits(k, d), s.links[h].closing => k.closing,
           s.devs[d].ready => v.ready
    PROVE  Linked(t) /\ Moves(s, t)
<1>1. LecTypes(s) /\ DeviceInv(s, d) /\ h # 0 /\ s \in LecType
  BY LeConnectConstants DEF Linked, Handle, LecTypes
<1>2. s.devs \in Seq(DeviceType) /\ s.links \in [Handle -> LinkType]
  BY <1>1, LecParts
<1>3. /\ [s.devs EXCEPT ![d] = v] \in Seq(DeviceType) /\ [s.links EXCEPT ![h] = k] \in [Handle -> LinkType]
      /\ Len([s.devs EXCEPT ![d] = v]) = Len(s.devs) /\ [s.devs EXCEPT ![d] = v][d] = v
      /\ \A e \in Ids(s) : e # d => [s.devs EXCEPT ![d] = v][e] = s.devs[e]
  BY <1>2, ExceptSeq DEF Ids
<1>4. /\ t \in LecType /\ Same(s, t) /\ t.twice = s.twice
      /\ t.att = s.att /\ t.res = s.res /\ t.resId = s.resId
      /\ t.devs = [s.devs EXCEPT ![d] = v] /\ t.links = [s.links EXCEPT ![h] = k]
  BY <1>1, <1>3 DEF With, LecType, Same
<1>5. OneDevice(s, t, d, v) /\ OneLink(s, t, h, k)
  <2>1. t.devs = [s.devs EXCEPT ![d] = v] /\ t.links = [s.links EXCEPT ![h] = k]
    BY <1>4
  <2>2. QED
    BY <1>1, <2>1, Changed
<1>6. LecTypes(t)
  BY <1>1, <1>3, <1>4 DEF LecTypes
<1>7. k.closing \/ v.ready \/ t.att = d
  BY <1>1, <1>4 DEF DeviceInv
<1>8. Answered(s, t, d) /\ (t.att = d => Waits(k, d)) /\ (s.twice => t.twice)
  BY <1>4 DEF Answered
<1>9. QED
  BY <1>1, <1>4, <1>5, <1>6, <1>7, <1>8, OwnerKeeps

\* An event of a link that device d has, and goes on to have
LEMMA OwnerEvent ==
    ASSUME NEW s, Linked(s), NEW h \in Handle, NEW d \in Ids(s), s.devs[d].link = h,
           NEW k \in LinkType, NEW v \in DeviceType, NEW R \in SUBSET Addr, NEW t,
           t = With(s, [s.devs EXCEPT ![d] = v], [s.links EXCEPT ![h] = k], R),
           v.link = h, v.peerAddr = s.devs[d].peerAddr, v.addr = s.devs[d].addr,
           Reached(v, k), k.disc \in {0, d}, k.disc = d => v.secured,
           s.att = d => Waits(k, d), s.links[h].closing => k.closing,
           s.devs[d].ready => v.ready
    PROVE  Linked(t) /\ Moves(s, t)
<1>1. v.addr[1] = s.devs[d].addr[1]
  OBVIOUS
<1>2. QED
  BY <1>1, NamedEvent

\* An event that ends the attempt of device d, when it has one
LEMMA OwnerEnds ==
    ASSUME NEW s, Linked(s), NEW h \in Handle, NEW d \in Ids(s), s.devs[d].link = h,
           NEW k \in LinkType, NEW v \in DeviceType, NEW ok \in BOOLEAN, NEW n, NEW t,
           n = With(s, [s.devs EXCEPT ![d] = v], [s.links EXCEPT ![h] = k], s.resolved),
           t = FinishConnect(n, d, ok),
           v.link = h, v.peerAddr = s.devs[d].peerAddr, v.addr = s.devs[d].addr,
           Reached(v, k), k.disc \in {0, d}, k.disc = d => v.secured,
           k.closing \/ v.ready, ok => v.ready
    PROVE  Linked(t) /\ Moves(s, t)
<1>1. LecTypes(s) /\ DeviceInv(s, d) /\ h # 0 /\ s \in LecType /\ s.resolved \in SUBSET Addr
  BY LeConnectConstants DEF Linked, Handle, LecTypes, LecType
<1>2. s.devs \in Seq(DeviceType) /\ s.links \in [Handle -> LinkType] /\ d # 0 /\ d \in 0..MaxDevices
  BY <1>1, LecParts
<1>3. /\ [s.devs EXCEPT ![d] = v] \in Seq(DeviceType) /\ [s.links EXCEPT ![h] = k] \in [Handle -> LinkType]
      /\ Len([s.devs EXCEPT ![d] = v]) = Len(s.devs) /\ [s.devs EXCEPT ![d] = v][d] = v
      /\ \A e \in Ids(s) : e # d => [s.devs EXCEPT ![d] = v][e] = s.devs[e]
  BY <1>2, ExceptSeq DEF Ids
<1>4. /\ n \in LecType /\ Same(s, n) /\ n.twice = s.twice
      /\ n.att = s.att /\ n.res = s.res /\ n.resId = s.resId
      /\ n.devs = [s.devs EXCEPT ![d] = v] /\ n.links = [s.links EXCEPT ![h] = k]
  <2>1. PICK D : D = [s.devs EXCEPT ![d] = v]
    OBVIOUS
  <2>2. PICK L : L = [s.links EXCEPT ![h] = k]
    OBVIOUS
  <2>3. D \in Seq(DeviceType) /\ L \in [Handle -> LinkType] /\ n = With(s, D, L, s.resolved)
    BY <1>3, <2>1, <2>2
  <2>4. /\ n \in LecType /\ Same(s, n) /\ n.twice = s.twice
        /\ n.att = s.att /\ n.res = s.res /\ n.resId = s.resId /\ n.devs = D /\ n.links = L
    BY <1>1, <2>3, WithFields
  <2>5. QED
    BY <2>1, <2>2, <2>4
<1>5. /\ t \in LecType /\ Same(n, t) /\ t.twice = n.twice /\ t.devs = n.devs /\ t.links = n.links
      /\ \/ n.att # d /\ t.att = n.att /\ t.res = n.res /\ t.resId = n.resId
         \/ /\ n.att = d /\ t.att = 0 /\ t.resId = d
            /\ t.res = n.res \/ (n.live /\ (t.res = "ok" => ok))
  <2>1. CASE n.att # d
    <3>1. t = n
      BY <2>1 DEF FinishConnect
    <3>2. QED
      BY <1>4, <2>1, <3>1 DEF Same
  <2>2. CASE n.att = d
    <3>1. t = [n EXCEPT !.att = 0, !.resId = d,
                        !.res = IF n.live THEN (IF ok THEN "ok" ELSE "no") ELSE n.res]
      BY <2>2 DEF FinishConnect
    <3>2. 0 \in 0..MaxDevices
      BY LeConnectConstants DEF MaxDevices
    <3>3. QED
      BY <1>2, <1>4, <2>2, <3>1, <3>2 DEF LecType, Same
  <2>3. QED
    BY <2>1, <2>2
<1>6. OneDevice(s, t, d, v) /\ OneLink(s, t, h, k)
  <2>1. t.devs = [s.devs EXCEPT ![d] = v] /\ t.links = [s.links EXCEPT ![h] = k]
    BY <1>4, <1>5
  <2>2. QED
    BY <1>1, <2>1, Changed
<1>7. LecTypes(t)
  <2>1. t.devs = [s.devs EXCEPT ![d] = v] /\ Len(t.devs) = Len(s.devs) /\ d <= Len(s.devs)
    BY <1>2, <1>3, <1>4, <1>5 DEF Ids
  <2>2. Len(s.devs) \in Nat
    BY <1>1, LecParts
  <2>3. QED
    BY <1>1, <1>4, <1>5, <2>1, <2>2 DEF LecTypes
<1>8. /\ Answered(s, t, d) /\ t.att # d /\ (s.twice => t.twice) /\ Same(s, t)
      /\ v.ready \/ t.res # "ok" \/ s.res = "ok"
  BY <1>2, <1>4, <1>5 DEF Answered, Same
<1>9. QED
  BY <1>1, <1>6, <1>7, <1>8, OwnerKeeps

\* What is true of a link with a device
LEMMA OwnerHas ==
    ASSUME NEW s, Linked(s), NEW h \in Handle, Owner(s, h) # 0, NEW d, d = Owner(s, h)
    PROVE  /\ d \in Ids(s) /\ s.devs[d].link = h /\ s.devs[d] \in DeviceType /\ s.links[h] \in LinkType
           /\ Reached(s.devs[d], s.links[h]) /\ s.links[h].disc \in {0, d} /\ h # 0 /\ d # 0
           /\ s.att = d => Waits(s.links[h], d)
           /\ s.links[h].disc = d => s.devs[d].secured
           /\ s.devs[d].peerAddr[1] = s.devs[d].addr[1]
<1>1. LecTypes(s) /\ h # 0
  BY LeConnectConstants DEF Linked, Handle
<1>2. d \in Ids(s) /\ s.devs[d].link = h /\ s.devs[d] \in DeviceType /\ s.links[h] \in LinkType /\ d # 0
  BY <1>1, OwnerIs, LecParts
<1>3. DeviceInv(s, d) /\ LinkInv(s, h) /\ AttemptInv(s)
  BY <1>2 DEF Linked
<1>4. s.links[h].disc \in {0, d}
  BY <1>1, <1>2, <1>3 DEF LinkInv, Linked, OneOwner
<1>5. QED
  BY <1>1, <1>2, <1>3, <1>4 DEF DeviceInv, LinkInv, AttemptInv

\* SM_EVENT_PAIRING_STARTED
LEMMA PairingStartedKeeps ==
    ASSUME Linked(lec), NEW h \in Handle, PairingStarted(h)
    PROVE  Linked(lec') /\ Moves(lec, lec')
<1> DEFINE d == Owner(lec, h)
           k == [lec.links[h] EXCEPT !.sec = "pairing"]
           v == [lec.devs[d] EXCEPT !.pairing = TRUE]
           links == [lec.links EXCEPT ![h] = k]
<1>1. /\ lec.links[h].st = "up" /\ lec.links[h].sec = "asked" /\ lec \in LecType
      /\ lec.links[h] \in LinkType /\ lec.resolved \in SUBSET Addr
  BY LecParts DEF PairingStarted, Secures, Linked, LecTypes, LecType
<1>2. k \in LinkType /\ k.disc = lec.links[h].disc /\ k.closing = lec.links[h].closing
  BY <1>1 DEF LinkType
<1>3. CASE d = 0
  <2>1. lec' = With(lec, lec.devs, links, lec.resolved)
    BY <1>1, <1>3 DEF PairingStarted, With, LecType
  <2> HIDE DEF d, k, v
  <2>2. QED
    BY <1>1, <1>2, <1>3, <2>1, StrayEvent DEF d
<1>4. CASE d # 0
  <2>1. lec' = With(lec, [lec.devs EXCEPT ![d] = v], links, lec.resolved)
    BY <1>1, <1>4 DEF PairingStarted, With, LecType
  <2>2. /\ d \in Ids(lec) /\ lec.devs[d].link = h /\ lec.devs[d] \in DeviceType
        /\ Reached(lec.devs[d], lec.links[h]) /\ lec.links[h].disc \in {0, d}
        /\ (lec.links[h].disc = d => lec.devs[d].secured)
    BY <1>4, OwnerHas
  <2>3. /\ v \in DeviceType /\ v.link = h /\ v.peerAddr = lec.devs[d].peerAddr
        /\ v.addr = lec.devs[d].addr /\ v.ready = lec.devs[d].ready /\ v.secured = lec.devs[d].secured
    BY <2>2 DEF DeviceType
  <2>4. Reached(v, k) /\ Waits(k, d)
    BY <1>1, <2>2 DEF Reached, Waits, LinkType, DeviceType
  <2>5. k.disc \in {0, d} /\ (k.disc = d => v.secured) /\ (lec.links[h].closing => k.closing)
    BY <1>2, <2>2, <2>3
  <2> HIDE DEF d, k, v
  <2>6. QED
    BY <1>1, <1>2, <2>1, <2>2, <2>3, <2>4, <2>5, OwnerEvent
<1>5. QED
  BY <1>3, <1>4

\* Encryption Change during the pairing
LEMMA PairingEncryptsKeeps ==
    ASSUME Linked(lec), NEW h \in Handle, PairingEncrypts(h)
    PROVE  Linked(lec') /\ Moves(lec, lec')
<1> DEFINE d == Owner(lec, h)
           k == [lec.links[h] EXCEPT !.sec = "keys"]
           v == [lec.devs[d] EXCEPT !.enc = TRUE]
           links == [lec.links EXCEPT ![h] = k]
           n == [[lec EXCEPT !.links[h].sec = "keys"] EXCEPT !.devs[d].enc = TRUE]
<1>1. /\ lec.links[h].st = "up" /\ lec.links[h].sec = "pairing" /\ lec \in LecType
      /\ lec.links[h] \in LinkType /\ lec.resolved \in SUBSET Addr
  BY LecParts DEF PairingEncrypts, Secures, Linked, LecTypes, LecType
<1>2. k \in LinkType /\ k.disc = lec.links[h].disc /\ k.closing = lec.links[h].closing
  BY <1>1 DEF LinkType
<1>3. CASE d = 0
  <2>1. lec' = With(lec, lec.devs, links, lec.resolved)
    BY <1>1, <1>3 DEF PairingEncrypts, With, LecType
  <2> HIDE DEF d, k, v
  <2>2. QED
    BY <1>1, <1>2, <1>3, <2>1, StrayEvent DEF d
<1>4. CASE d # 0
  <2>1. /\ d \in Ids(lec) /\ lec.devs[d].link = h /\ lec.devs[d] \in DeviceType
        /\ Reached(lec.devs[d], lec.links[h]) /\ lec.links[h].disc \in {0, d}
        /\ (lec.links[h].disc = d => lec.devs[d].secured)
    BY <1>4, OwnerHas
  <2>2. /\ v \in DeviceType /\ v.link = h /\ v.peerAddr = lec.devs[d].peerAddr
        /\ v.addr = lec.devs[d].addr /\ v.ready = lec.devs[d].ready /\ v.secured = lec.devs[d].secured
    BY <2>1 DEF DeviceType
  <2>3. Reached(v, k) /\ Waits(k, d)
    BY <1>1, <2>1 DEF Reached, Waits, LinkType, DeviceType
  <2>4. lec' = n
    <3>1. lec' = MaybeSecured(n, d)
      BY <1>4 DEF PairingEncrypts
    <3>2. n.devs = [lec.devs EXCEPT ![d] = v] /\ DOMAIN lec.devs = Ids(lec)
      BY <1>1, LecParts DEF LecType, Linked
    <3>3. n.devs[d].pairing = TRUE
      BY <1>1, <2>1, <3>2 DEF Reached, DeviceType
    <3>4. QED
      BY <3>1, <3>3 DEF MaybeSecured
  <2>5. lec' = With(lec, [lec.devs EXCEPT ![d] = v], links, lec.resolved)
    BY <1>1, <2>4 DEF With, LecType
  <2>6. k.disc \in {0, d} /\ (k.disc = d => v.secured) /\ (lec.links[h].closing => k.closing)
    BY <1>2, <2>1, <2>2
  <2> HIDE DEF d, k, v, n
  <2>7. QED
    BY <1>1, <1>2, <2>1, <2>2, <2>3, <2>5, <2>6, OwnerEvent
<1>5. QED
  BY <1>3, <1>4

\* One more pairing, or the end of the attempt
LEMMA TryAgainKeeps ==
    ASSUME NEW s, Linked(s), NEW h \in Handle, NEW d \in Ids(s), s.devs[d].link = h,
           NEW k \in LinkType, NEW v \in DeviceType, NEW n, NEW t,
           n = With(s, [s.devs EXCEPT ![d] = v], [s.links EXCEPT ![h] = k], s.resolved),
           t = TryAgain(n, d, h),
           v.link = h, v.peerAddr = s.devs[d].peerAddr, v.addr = s.devs[d].addr,
           ~v.secured, ~v.ready, ~s.devs[d].ready, ~v.pairing, v.attempts < 2,
           k.st \in {"up", "lost"}, k.peer = v.addr[1], k.told => v.addr = <<k.peer, "id">>,
           k.disc = 0, k.closing = s.links[h].closing
    PROVE  Linked(t) /\ Moves(s, t)
<1> DEFINE more == v.attempts + 1
           v2 == [v EXCEPT !.attempts = more]
           k2 == [k EXCEPT !.sec = "asked"]
           k3 == [k EXCEPT !.sec = "idle", !.closing = TRUE]
           m == [n EXCEPT !.devs[d].attempts = n.devs[d].attempts + 1]
<1>1. /\ LecTypes(s) /\ h # 0 /\ s \in LecType /\ s.resolved \in SUBSET Addr
      /\ s.devs \in Seq(DeviceType) /\ s.links \in [Handle -> LinkType] /\ DOMAIN s.devs = Ids(s)
  BY LeConnectConstants, LecParts DEF Linked, Handle, LecTypes, LecType
<1>2. /\ [s.devs EXCEPT ![d] = v] \in Seq(DeviceType) /\ [s.links EXCEPT ![h] = k] \in [Handle -> LinkType]
  BY <1>1, ExceptSeq DEF Ids
<1>3. /\ n \in LecType /\ n.devs = [s.devs EXCEPT ![d] = v] /\ n.links = [s.links EXCEPT ![h] = k]
  BY <1>1, <1>2 DEF With, LecType
<1>4. n.devs[d] = v /\ more \in 0..2 /\ n.links[h] = k
  BY <1>1, <1>3 DEF DeviceType
<1>5. /\ v2 \in DeviceType /\ v2.link = h /\ v2.addr = v.addr /\ v2.peerAddr = v.peerAddr
      /\ v2.attempts = more /\ ~v2.secured /\ ~v2.ready /\ ~v2.pairing
  BY <1>4 DEF DeviceType
<1>6. /\ k2 \in LinkType /\ k2.st = k.st /\ k2.peer = k.peer /\ k2.told = k.told /\ k2.disc = 0
      /\ k2.closing = k.closing /\ k2.sec = "asked"
      /\ k3 \in LinkType /\ k3.st = k.st /\ k3.peer = k.peer /\ k3.told = k.told /\ k3.disc = 0
      /\ k3.closing /\ k3.sec = "idle"
  BY DEF LinkType
<1>7. m.devs = [s.devs EXCEPT ![d] = v2] /\ m.links = n.links /\ m.devs[d] = v2
  BY <1>1, <1>3, <1>4 DEF LecType
<1> DEFINE devs == [s.devs EXCEPT ![d] = v2]
<1>71. m = With(s, devs, [s.links EXCEPT ![h] = k], s.resolved)
  BY <1>1, <1>3, <1>7 DEF With, LecType
<1>8. CASE more < 2
  <2> DEFINE links == [s.links EXCEPT ![h] = k2]
  <2>1. t = RequestPairing(m, h)
    BY <1>5, <1>7, <1>8 DEF TryAgain
  <2>2. t = With(s, devs, links, s.resolved)
    <3>1. [[s.links EXCEPT ![h] = k] EXCEPT ![h] = k2] = links /\ m.links = [s.links EXCEPT ![h] = k]
          /\ m.links[h] = k
      BY <1>1, <1>3, <1>4, <1>7
    <3>2. t = [m EXCEPT !.links = [m.links EXCEPT ![h] = [m.links[h] EXCEPT !.sec = "asked"]]]
      BY <2>1 DEF RequestPairing
    <3>3. t = [m EXCEPT !.links = links]
      BY <3>1, <3>2
    <3> HIDE DEF links, m, devs
    <3>4. QED
      BY <1>1, <1>71, <3>3 DEF With, LecType
  <2> HIDE DEF v2, k2, k3, m, more
  <2>3. Reached(v2, k2) /\ Waits(k2, d)
    BY <1>5, <1>6, <1>8 DEF Reached, Waits
  <2>4. d # 0
    BY <1>1, LecParts
  <2>5. /\ v2.peerAddr = s.devs[d].peerAddr /\ v2.addr = s.devs[d].addr /\ k2.disc \in {0, d}
        /\ k2.disc # d /\ (s.links[h].closing => k2.closing)
    BY <1>5, <1>6, <2>4
  <2> HIDE DEF devs, links
  <2>6. QED
    BY <1>1, <1>5, <1>6, <2>2, <2>3, <2>5, OwnerEvent DEF devs, links
<1>9. CASE ~(more < 2)
  <2> DEFINE x == [m EXCEPT !.links[h].sec = "idle"]
             links == [s.links EXCEPT ![h] = k3]
             y == With(s, devs, links, s.resolved)
  <2>1. t = FailConnect(x, d)
    BY <1>5, <1>7, <1>9 DEF TryAgain
  <2>2. x.devs[d].link = h
    BY <1>3, <1>5, <1>7 DEF LecType
  <2>3. Hangup(x, h) = [x EXCEPT !.links[h].closing = TRUE]
    BY <1>1 DEF Hangup
  <2>4. Hangup(x, h) = y
    <3> DEFINE ki == [k EXCEPT !.sec = "idle"]
    <3>1. m.links = [s.links EXCEPT ![h] = k] /\ m.links[h] = k
      BY <1>1, <1>3, <1>4, <1>7
    <3>2. x = [m EXCEPT !.links = [m.links EXCEPT ![h] = [m.links[h] EXCEPT !.sec = "idle"]]]
      OBVIOUS
    <3>3. x = [m EXCEPT !.links = [s.links EXCEPT ![h] = ki]]
      BY <1>1, <3>1, <3>2
    <3>4. x.links = [s.links EXCEPT ![h] = ki] /\ x.links[h] = ki
      BY <1>1, <1>3, <1>71, <3>3 DEF With, LecType
    <3>5. [ki EXCEPT !.closing = TRUE] = k3
      BY DEF LinkType
    <3>6. Hangup(x, h) = [x EXCEPT !.links = [x.links EXCEPT ![h] = [x.links[h] EXCEPT !.closing = TRUE]]]
      BY <2>3
    <3>7. Hangup(x, h) = [x EXCEPT !.links = links]
      <4> HIDE DEF x, ki, m, k3
      <4>1. [x.links EXCEPT ![h] = [x.links[h] EXCEPT !.closing = TRUE]] = links
        BY <1>1, <3>4, <3>5
      <4>2. QED
        BY <3>6, <4>1
    <3>8. Hangup(x, h) = [m EXCEPT !.links = links]
      <4> HIDE DEF ki, m, k3, links
      <4>1. [[m EXCEPT !.links = [s.links EXCEPT ![h] = ki]] EXCEPT !.links = links] = [m EXCEPT !.links = links]
        BY <1>1, <1>71 DEF With, LecType
      <4>2. QED
        BY <3>3, <3>7, <4>1
    <3> HIDE DEF x, m, ki, links, devs
    <3>9. QED
      BY <1>1, <1>71, <3>8 DEF With, LecType, y
  <2>5. t = FinishConnect(y, d, FALSE)
    BY <2>1, <2>2, <2>4 DEF FailConnect
  <2> HIDE DEF v2, k2, k3, m, more
  <2>6. Reached(v2, k3)
    BY <1>5, <1>6, <1>9 DEF Reached
  <2>7. d # 0
    BY <1>1, LecParts
  <2>8. QED
    BY <1>1, <1>5, <1>6, <2>5, <2>6, <2>7, OwnerEnds
<1>10. QED
  BY <1>8, <1>9

\* The stored key encrypts the link, or it does not
LEMMA ReencryptedKeeps ==
    ASSUME Linked(lec), NEW h \in Handle, Reencrypted(h)
    PROVE  Linked(lec') /\ Moves(lec, lec')
<1> DEFINE d == Owner(lec, h)
           p == lec.links[h].peer
<1>1. /\ lec.links[h].st = "up" /\ lec.links[h].sec = "asked" /\ lec \in LecType /\ lec.links[h].told = TRUE
      /\ lec.links[h] \in LinkType /\ lec.resolved \in SUBSET Addr
  BY LecParts DEF Reencrypted, Secures, Linked, LecTypes, LecType, LinkType
<1>2. d # 0 =>
        /\ d \in Ids(lec) /\ lec.devs[d].link = h /\ lec.devs[d] \in DeviceType
        /\ Reached(lec.devs[d], lec.links[h]) /\ lec.links[h].disc \in {0, d}
        /\ (lec.links[h].disc = d => lec.devs[d].secured) /\ h # 0 /\ d \in 0..MaxDevices
        /\ DOMAIN lec.devs = Ids(lec)
  BY OwnerHas, LecParts DEF Linked
<1>3. CASE p \in theirs /\ d = 0
  <2> DEFINE k == [lec.links[h] EXCEPT !.sec = "done"]
  <2>1. lec' = With(lec, lec.devs, [lec.links EXCEPT ![h] = k], lec.resolved)
    BY <1>1, <1>3 DEF Reencrypted, With, LecType
  <2>2. k \in LinkType /\ k.disc = lec.links[h].disc /\ k.closing = lec.links[h].closing
    BY <1>1 DEF LinkType
  <2> HIDE DEF d, k
  <2>3. QED
    BY <1>1, <1>3, <2>1, <2>2, StrayEvent DEF d
<1>4. CASE p \in theirs /\ d # 0
  <2> DEFINE k == [lec.links[h] EXCEPT !.sec = "done", !.disc = d]
             v == [lec.devs[d] EXCEPT !.enc = TRUE, !.secured = TRUE]
             n == [[lec EXCEPT !.links[h].sec = "done"] EXCEPT !.devs[d].enc = TRUE]
  <2>1. lec' = MaybeSecured(n, d)
    BY <1>4 DEF Reencrypted
  <2>2. ~n.devs[d].pairing /\ ~n.devs[d].secured /\ n.devs[d].link = h /\ n.devs[d].enc
    BY <1>1, <1>2, <1>4 DEF Reached, DeviceType, LecType
  <2>3. lec' = [n EXCEPT !.devs[d].secured = TRUE, !.links[h].disc = d]
    BY <1>2, <1>4, <2>1, <2>2 DEF MaybeSecured
  <2>4. lec' = With(lec, [lec.devs EXCEPT ![d] = v], [lec.links EXCEPT ![h] = k], lec.resolved)
    <3> DEFINE v1 == [lec.devs[d] EXCEPT !.enc = TRUE]
               k1 == [lec.links[h] EXCEPT !.sec = "done"]
    <3>1. n = [[lec EXCEPT !.links = [lec.links EXCEPT ![h] = k1]] EXCEPT !.devs = [lec.devs EXCEPT ![d] = v1]]
      BY <1>1 DEF LecType
    <3>2. /\ n.devs = [lec.devs EXCEPT ![d] = v1] /\ n.links = [lec.links EXCEPT ![h] = k1]
          /\ n.devs[d] = v1 /\ n.links[h] = k1
      BY <1>1, <1>2, <1>4, <3>1 DEF LecType
    <3>3. [v1 EXCEPT !.secured = TRUE] = v /\ [k1 EXCEPT !.disc = d] = k
      BY <1>1, <1>2, <1>4 DEF DeviceType, LinkType
    <3>4. lec' = [n EXCEPT !.devs = [n.devs EXCEPT ![d] = [n.devs[d] EXCEPT !.secured = TRUE]],
                           !.links = [n.links EXCEPT ![h] = [n.links[h] EXCEPT !.disc = d]]]
      BY <2>3
    <3>5. lec' = [n EXCEPT !.devs = [[lec.devs EXCEPT ![d] = v1] EXCEPT ![d] = v],
                           !.links = [[lec.links EXCEPT ![h] = k1] EXCEPT ![h] = k]]
      <4> HIDE DEF n, v1, k1, v, k
      <4>1. QED
        BY <3>2, <3>3, <3>4
    <3>6. /\ [[lec.devs EXCEPT ![d] = v1] EXCEPT ![d] = v] = [lec.devs EXCEPT ![d] = v]
          /\ [[lec.links EXCEPT ![h] = k1] EXCEPT ![h] = k] = [lec.links EXCEPT ![h] = k]
      <4> HIDE DEF v1, k1, v, k
      <4>1. QED
        OBVIOUS
    <3>7. lec' = [n EXCEPT !.devs = [lec.devs EXCEPT ![d] = v], !.links = [lec.links EXCEPT ![h] = k]]
      <4> HIDE DEF n, v1, k1, v, k
      <4>1. QED
        BY <3>5, <3>6
    <3> HIDE DEF v1, k1, v, k, n
    <3>8. QED
      BY <1>1, <3>1, <3>7, Rewritten
  <2>5. k \in LinkType /\ k.disc = d /\ k.closing = lec.links[h].closing /\ v \in DeviceType
    BY <1>1, <1>2, <1>4 DEF LinkType, DeviceType
  <2>6. /\ v.link = h /\ v.peerAddr = lec.devs[d].peerAddr
        /\ v.addr = lec.devs[d].addr /\ v.ready = lec.devs[d].ready /\ v.secured
    BY <1>2, <1>4 DEF DeviceType
  <2>7. Reached(v, k) /\ Waits(k, d)
    <3>1. /\ ~lec.devs[d].ready /\ ~lec.devs[d].pairing /\ lec.devs[d].attempts # 2
          /\ lec.devs[d].addr = <<lec.links[h].peer, "id">> /\ lec.links[h].peer = lec.devs[d].addr[1]
      BY <1>1, <1>2, <1>4 DEF Reached, DeviceType
    <3>2. /\ ~v.ready /\ ~v.pairing /\ v.attempts # 2 /\ v.secured /\ v.enc
          /\ v.addr = lec.devs[d].addr
      BY <1>2, <1>4, <3>1 DEF DeviceType
    <3>3. k.st = "up" /\ k.sec = "done" /\ k.told = TRUE /\ k.peer = lec.links[h].peer /\ k.disc = d
      BY <1>1 DEF LinkType
    <3> HIDE DEF k, v
    <3>4. QED
      BY <3>1, <3>2, <3>3 DEF Reached, Waits
  <2> HIDE DEF d, k, v, n
  <2>8. QED
    BY <1>1, <1>2, <1>4, <2>4, <2>5, <2>6, <2>7, OwnerEvent
<1>5. CASE p \notin theirs /\ d = 0
  <2> DEFINE k == [lec.links[h] EXCEPT !.sec = "idle"]
  <2>1. lec' = With(lec, lec.devs, [lec.links EXCEPT ![h] = k], lec.resolved)
    BY <1>1, <1>5 DEF Reencrypted, With, LecType
  <2>2. k \in LinkType /\ k.disc = lec.links[h].disc /\ k.closing = lec.links[h].closing
    BY <1>1 DEF LinkType
  <2> HIDE DEF d, k
  <2>3. QED
    BY <1>1, <1>5, <2>1, <2>2, StrayEvent DEF d
<1>6. CASE p \notin theirs /\ d # 0
  <2> DEFINE n == [lec EXCEPT !.links[h].told = FALSE]
             k == [lec.links[h] EXCEPT !.told = FALSE]
             v == lec.devs[d]
  <2>1. lec' = TryAgain(n, d, h)
    BY <1>6 DEF Reencrypted
  <2>2. n = With(lec, [lec.devs EXCEPT ![d] = v], [lec.links EXCEPT ![h] = k], lec.resolved)
    <3>1. lec.devs \in [1..Len(lec.devs) -> DeviceType]
      BY <1>1, LenProperties DEF LecType
    <3>2. [lec.devs EXCEPT ![d] = v] = lec.devs
      BY <3>1
    <3>3. QED
      BY <1>1, <3>2 DEF With, LecType
  <2>3. /\ k \in LinkType /\ k.st = "up" /\ k.peer = lec.links[h].peer /\ k.told = FALSE
        /\ k.disc = lec.links[h].disc /\ k.closing = lec.links[h].closing
    BY <1>1 DEF LinkType
  <2>4. /\ v \in DeviceType /\ ~v.secured /\ ~v.ready /\ ~v.pairing /\ v.attempts < 2
        /\ lec.links[h].peer = v.addr[1] /\ lec.links[h].disc = 0
    BY <1>1, <1>2, <1>6 DEF Reached, DeviceType
  <2> HIDE DEF d, k, n
  <2>5. QED
    BY <1>1, <1>2, <1>6, <2>1, <2>2, <2>3, <2>4, TryAgainKeeps
<1>7. QED
  BY <1>3, <1>4, <1>5, <1>6

\* The pairing ends
LEMMA PairingCompleteKeeps ==
    ASSUME Linked(lec), NEW h \in Handle, PairingComplete(h)
    PROVE  Linked(lec') /\ Moves(lec, lec')
<1> DEFINE d == Owner(lec, h)
           stray(x) == [lec EXCEPT !.links[h].sec = x]
           free(x) == [lec EXCEPT !.links[h].sec = x, !.devs[d].pairing = FALSE]
<1>1. /\ lec.links[h].st = "up" /\ lec \in LecType /\ h # 0
      /\ lec.links[h] \in LinkType /\ lec.resolved \in SUBSET Addr
      /\ lec.links[h].sec \in {"pairing", "keys", "bonding"}
  BY LecParts DEF PairingComplete, Secures, Linked, LecTypes, LecType
<1>2. d # 0 =>
        /\ d \in Ids(lec) /\ lec.devs[d].link = h /\ lec.devs[d] \in DeviceType
        /\ Reached(lec.devs[d], lec.links[h]) /\ lec.links[h].disc \in {0, d}
        /\ (lec.links[h].disc = d => lec.devs[d].secured) /\ d \in 0..MaxDevices
        /\ DOMAIN lec.devs = Ids(lec)
  BY OwnerHas, LecParts DEF Linked
<1>3. CASE d = 0
  <2>1. PICK x \in {"done", "idle"} : lec' = stray(x)
    BY <1>3 DEF PairingComplete
  <2> DEFINE k == [lec.links[h] EXCEPT !.sec = x]
  <2>2. lec' = With(lec, lec.devs, [lec.links EXCEPT ![h] = k], lec.resolved)
    BY <1>1, <2>1 DEF With, LecType
  <2>3. k \in LinkType /\ k.disc = lec.links[h].disc /\ k.closing = lec.links[h].closing
    BY <1>1 DEF LinkType
  <2> HIDE DEF d, k
  <2>4. QED
    BY <1>1, <1>3, <2>2, <2>3, StrayEvent DEF d
<1>4. CASE d # 0 /\ lec' = MaybeSecured(free("done"), d) /\ lec.links[h].sec = "bonding"
  <2> DEFINE k == [lec.links[h] EXCEPT !.sec = "done", !.disc = d]
             v == [lec.devs[d] EXCEPT !.pairing = FALSE, !.secured = TRUE]
             n == free("done")
  <2>1. ~n.devs[d].pairing /\ ~n.devs[d].secured /\ n.devs[d].link = h /\ n.devs[d].enc
    BY <1>1, <1>2, <1>4 DEF Reached, DeviceType, LecType
  <2>2. lec' = [n EXCEPT !.devs[d].secured = TRUE, !.links[h].disc = d]
    BY <1>1, <1>4, <2>1 DEF MaybeSecured
  <2>3. lec' = With(lec, [lec.devs EXCEPT ![d] = v], [lec.links EXCEPT ![h] = k], lec.resolved)
    <3> DEFINE v1 == [lec.devs[d] EXCEPT !.pairing = FALSE]
               k1 == [lec.links[h] EXCEPT !.sec = "done"]
    <3>1. n.devs = [lec.devs EXCEPT ![d] = v1] /\ n.links = [lec.links EXCEPT ![h] = k1]
      BY <1>1 DEF LecType
    <3>2. n.devs[d] = v1 /\ n.links[h] = k1
      BY <1>1, <1>2, <1>4, <3>1 DEF LecType
    <3>3. [v1 EXCEPT !.secured = TRUE] = v /\ [k1 EXCEPT !.disc = d] = k
      BY <1>1, <1>2, <1>4 DEF DeviceType, LinkType
    <3>4. lec' = [n EXCEPT !.devs = [n.devs EXCEPT ![d] = [n.devs[d] EXCEPT !.secured = TRUE]],
                           !.links = [n.links EXCEPT ![h] = [n.links[h] EXCEPT !.disc = d]]]
      BY <2>2
    <3>5. [n.devs EXCEPT ![d] = v] = [lec.devs EXCEPT ![d] = v]
      BY <3>1
    <3>6. [n.links EXCEPT ![h] = k] = [lec.links EXCEPT ![h] = k]
      BY <3>1
    <3>7. lec' = [n EXCEPT !.devs = [lec.devs EXCEPT ![d] = v], !.links = [lec.links EXCEPT ![h] = k]]
      <4> HIDE DEF n, v, k, v1, k1
      <4>1. QED
        BY <3>2, <3>3, <3>4, <3>5, <3>6
    <3> HIDE DEF v, k
    <3>8. QED
      BY <1>1, <3>7 DEF With, LecType
  <2>4. k \in LinkType /\ k.disc = d /\ k.closing = lec.links[h].closing /\ v \in DeviceType
    BY <1>1, <1>2, <1>4 DEF LinkType, DeviceType
  <2>5. /\ v.link = h /\ v.peerAddr = lec.devs[d].peerAddr
        /\ v.addr = lec.devs[d].addr /\ v.ready = lec.devs[d].ready /\ v.secured
    BY <1>2, <1>4 DEF DeviceType
  <2>6. Reached(v, k) /\ Waits(k, d)
    <3>1. /\ ~lec.devs[d].ready /\ lec.devs[d].attempts # 2 /\ lec.devs[d].enc
          /\ lec.devs[d].addr = <<lec.links[h].peer, "id">> /\ lec.links[h].peer = lec.devs[d].addr[1]
          /\ lec.links[h].told
      BY <1>1, <1>2, <1>4 DEF Reached, DeviceType
    <3>2. /\ ~v.ready /\ ~v.pairing /\ v.attempts # 2 /\ v.secured /\ v.enc
          /\ v.addr = lec.devs[d].addr
      BY <1>2, <1>4, <3>1 DEF DeviceType
    <3>3. k.st = "up" /\ k.sec = "done" /\ k.told /\ k.peer = lec.links[h].peer /\ k.disc = d
      BY <1>1, <3>1 DEF LinkType
    <3> HIDE DEF k, v
    <3>4. QED
      BY <3>1, <3>2, <3>3 DEF Reached, Waits
  <2> HIDE DEF d, k, v, n
  <2>7. QED
    BY <1>1, <1>2, <1>4, <2>3, <2>4, <2>5, <2>6, OwnerEvent
<1>5. CASE d # 0 /\ lec' = TryAgain(free("idle"), d, h)
  <2> DEFINE n == free("idle")
             k == [lec.links[h] EXCEPT !.sec = "idle"]
             v == [lec.devs[d] EXCEPT !.pairing = FALSE]
  <2>1. n = With(lec, [lec.devs EXCEPT ![d] = v], [lec.links EXCEPT ![h] = k], lec.resolved)
    BY <1>1, <1>2, <1>5 DEF With, LecType
  <2>2. /\ k \in LinkType /\ k.st = "up" /\ k.peer = lec.links[h].peer /\ k.told = lec.links[h].told
        /\ k.disc = lec.links[h].disc /\ k.closing = lec.links[h].closing
    BY <1>1 DEF LinkType
  <2>3. /\ v \in DeviceType /\ ~v.secured /\ ~v.ready /\ ~lec.devs[d].ready /\ ~v.pairing
        /\ v.attempts < 2 /\ v.addr = lec.devs[d].addr /\ v.link = h /\ v.peerAddr = lec.devs[d].peerAddr
    <3>1. ~lec.devs[d].secured /\ ~lec.devs[d].ready /\ lec.devs[d].attempts # 2
      BY <1>1, <1>2, <1>5 DEF Reached
    <3>2. lec.devs[d].attempts < 2
      BY <1>2, <1>5, <3>1 DEF DeviceType
    <3>3. QED
      BY <1>2, <1>5, <3>1, <3>2 DEF DeviceType
  <2>4. /\ lec.links[h].peer = lec.devs[d].addr[1] /\ lec.links[h].disc = 0
        /\ lec.links[h].told => lec.devs[d].addr = <<lec.links[h].peer, "id">>
    BY <1>1, <1>2, <1>5 DEF Reached, DeviceType
  <2>5. lec' = TryAgain(n, d, h)
    BY <1>5
  <2>6. /\ k.peer = v.addr[1] /\ (k.told => v.addr = <<k.peer, "id">>) /\ k.disc = 0
        /\ k.st \in {"up", "lost"}
    <3> HIDE DEF d, k, v
    <3>1. QED
      BY <2>2, <2>3, <2>4
  <2> HIDE DEF d, k, n, v
  <2>7. QED
    BY <1>1, <1>2, <1>5, <2>1, <2>2, <2>3, <2>5, <2>6, TryAgainKeeps
<1>6. QED
  BY <1>3, <1>4, <1>5 DEF PairingComplete, Secures

\* Discovery ends
LEMMA DiscoveredKeeps ==
    ASSUME Linked(lec), NEW h \in Handle, Discovered(h)
    PROVE  Linked(lec') /\ Moves(lec, lec')
<1> DEFINE d == lec.links[h].disc
           k == [lec.links[h] EXCEPT !.disc = 0]
           n == [lec EXCEPT !.links[h].disc = 0]
<1>1. /\ lec.links[h].st = "up" /\ lec \in LecType /\ h # 0 /\ lec.links[h] \in LinkType
      /\ lec.resolved \in SUBSET Addr /\ d # 0 /\ DOMAIN lec.devs = Ids(lec)
  BY LecParts DEF Discovered, Linked, LecTypes, LecType
<1>2. d \in Ids(lec) /\ lec.devs[d].link = h /\ lec.devs[d].secured /\ lec.devs[d] \in DeviceType
  BY <1>1, LecParts DEF Linked, LinkInv
<1>3. Reached(lec.devs[d], lec.links[h])
  BY <1>1, <1>2 DEF Linked, DeviceInv
<1>4. /\ k \in LinkType /\ k.st = "up" /\ k.peer = lec.links[h].peer /\ k.told = lec.links[h].told
      /\ k.disc = 0 /\ k.closing = lec.links[h].closing /\ k.sec = lec.links[h].sec
  BY <1>1, LeConnectConstants DEF LinkType, MaxDevices
<1>5. lec.devs \in [1..Len(lec.devs) -> DeviceType]
  BY <1>1, LenProperties DEF LecType
<1>6. CASE lec' = FinishConnect([n EXCEPT !.devs[d].ready = TRUE], d, TRUE)
  <2> DEFINE v == [lec.devs[d] EXCEPT !.ready = TRUE]
             m == [n EXCEPT !.devs[d].ready = TRUE]
  <2>1. m = With(lec, [lec.devs EXCEPT ![d] = v], [lec.links EXCEPT ![h] = k], lec.resolved)
    BY <1>1, <1>2 DEF With, LecType
  <2>2. /\ v \in DeviceType /\ v.link = h /\ v.peerAddr = lec.devs[d].peerAddr
        /\ v.addr = lec.devs[d].addr /\ v.ready /\ v.secured = lec.devs[d].secured
        /\ v.pairing = lec.devs[d].pairing /\ v.enc = lec.devs[d].enc /\ v.attempts = lec.devs[d].attempts
    BY <1>2 DEF DeviceType
  <2> HIDE DEF d, k, n, v, m
  <2>3. Reached(v, k)
    BY <1>2, <1>3, <1>4, <2>2 DEF Reached
  <2>4. k.disc \in {0, d} /\ k.disc # d
    BY <1>1, <1>4
  <2>5. lec' = FinishConnect(m, d, TRUE)
    BY <1>6 DEF m
  <2>6. QED
    BY <1>2, <1>4, <2>1, <2>2, <2>3, <2>4, <2>5, OwnerEnds
<1>7. CASE lec' = FailConnect(n, d)
  <2> DEFINE k3 == [k EXCEPT !.closing = TRUE]
             v == lec.devs[d]
             y == With(lec, [lec.devs EXCEPT ![d] = v], [lec.links EXCEPT ![h] = k3], lec.resolved)
  <2>1. n.devs = lec.devs
    BY <1>1 DEF LecType
  <2>2. Hangup(n, h) = [n EXCEPT !.links[h].closing = TRUE]
    BY <1>1 DEF Hangup
  <2>3. [lec.devs EXCEPT ![d] = v] = lec.devs
    BY <1>5
  <2>4. Hangup(n, h) = y
    <3>1. n.links = [lec.links EXCEPT ![h] = k] /\ n.links[h] = k
      BY <1>1 DEF LecType
    <3>2. [n.links EXCEPT ![h] = k3] = [lec.links EXCEPT ![h] = k3]
      BY <3>1
    <3>3. Hangup(n, h) = [n EXCEPT !.links = [n.links EXCEPT ![h] = [n.links[h] EXCEPT !.closing = TRUE]]]
      BY <2>2
    <3>4. Hangup(n, h) = [n EXCEPT !.links = [lec.links EXCEPT ![h] = k3]]
      BY <3>1, <3>2, <3>3
    <3> HIDE DEF k3
    <3>5. QED
      BY <1>1, <2>3, <3>4 DEF With, LecType
  <2>5. lec' = FinishConnect(y, d, FALSE)
    BY <1>2, <1>7, <2>1, <2>4 DEF FailConnect
  <2>6. /\ k3 \in LinkType /\ k3.st = k.st /\ k3.peer = k.peer /\ k3.told = k.told /\ k3.disc = 0
        /\ k3.closing /\ k3.sec = k.sec
    BY <1>4 DEF LinkType
  <2> HIDE DEF d, k, n, k3
  <2>7. Reached(v, k3)
    BY <1>2, <1>3, <1>4, <2>6 DEF Reached
  <2>8. QED
    BY <1>1, <1>2, <2>5, <2>6, <2>7, OwnerEnds
<1>8. QED
  BY <1>2, <1>6, <1>7 DEF Discovered

\* The least element of a set of naturals
LEMMA Least ==
    ASSUME NEW T, T \subseteq Nat, T # {}
    PROVE  \E x \in T : \A y \in T : x <= y
<1>1. IsWellFoundedOn(OpToRel(<, Nat), Nat)
  BY NatLessThanWellFounded
<1>2. PICK x \in T : \A y \in T : ~ (<<y, x>> \in OpToRel(<, Nat))
  BY <1>1, WFMin, Zenon
<1>3. \A y \in T : ~ (y < x)
  BY <1>2 DEF OpToRel
<1>4. QED
  BY <1>3

\* The first of some devices
LEMMA FirstDevice ==
    ASSUME NEW s, LecTypes(s), NEW T, T \subseteq Ids(s), T # {}
    PROVE  Min(T) \in T /\ Min(T) \in Ids(s)
<1>1. T \subseteq Nat
  BY DEF Ids
<1>2. \E x \in T : \A y \in T : x <= y
  BY <1>1, Least
<1>3. QED
  BY <1>2 DEF Min

\* A link moves from device d to device o, which had none
LinkMove(s, t, h, k, d, w, o, u) ==
    /\ s.devs[d].link = h /\ o # d /\ s.devs[o].link = 0 /\ s.devs[o].addr[1] = s.devs[d].addr[1]
    /\ Same(s, t) /\ t.twice = s.twice /\ t.res = s.res
    /\ Len(t.devs) = Len(s.devs) /\ t.devs[d] = w /\ t.devs[o] = u
    /\ \A e \in Ids(s) : e # d /\ e # o => t.devs[e] = s.devs[e]
    /\ OneLink(s, t, h, k)
    /\ w.link = 0 /\ Nothing(w) /\ w.addr = s.devs[d].addr /\ w.peerAddr = s.devs[d].peerAddr
    /\ u.link = h /\ u.addr = s.devs[o].addr /\ u.peerAddr = s.devs[d].peerAddr /\ ~s.devs[d].ready
    /\ Reached(u, k) /\ k.disc = 0 /\ k.sec \in {"asked", "bonding"}
    /\ s.links[h].closing => k.closing
    /\ t.att = IF s.att = d THEN o ELSE s.att
    /\ t.resId = IF s.att = d THEN o ELSE s.resId

\* A link that moves to another device of the peer keeps the invariant
LEMMA LinkMoves ==
    ASSUME NEW s, Linked(s), NEW h \in Handle, NEW d \in Ids(s), NEW o \in Ids(s), NEW k, NEW u, NEW w,
           NEW t, LecTypes(t), LinkMove(s, t, h, k, d, w, o, u)
    PROVE  Linked(t) /\ Moves(s, t)
<1> USE DEF LinkMove
<1>0. Ids(t) = Ids(s) /\ h # 0 /\ LecTypes(s) /\ DeviceInv(s, d) /\ d # 0 /\ o # 0
  BY LeConnectConstants, LecParts DEF Ids, Handle, Linked
<1>1. \A e \in Ids(t) : DeviceInv(t, e)
  <2>1. SUFFICES ASSUME NEW e \in Ids(s) PROVE DeviceInv(t, e)
    BY <1>0
  <2>2. CASE e = d
    BY <1>0, <2>2 DEF DeviceInv
  <2>3. CASE e = o
    <3>1. k.closing \/ t.att = o
      BY <1>0 DEF DeviceInv
    <3>2. t.links[h] = k
      BY DEF OneLink
    <3>3. u.peerAddr[1] = u.addr[1]
      BY <1>0 DEF DeviceInv
    <3>4. QED
      BY <1>0, <2>3, <3>1, <3>2, <3>3 DEF DeviceInv
  <2>4. CASE e # d /\ e # o
    <3>1. t.devs[e] = s.devs[e] /\ DeviceInv(s, e)
      BY <2>4 DEF Linked
    <3>2. s.devs[e].link # 0 => s.devs[e].link \in Handle /\ s.devs[e].link # h
      BY <1>0, <2>4, LecParts DEF Linked, OneOwner
    <3>3. s.devs[e].link # 0 => t.links[s.devs[e].link] = s.links[s.devs[e].link]
      BY <3>2 DEF OneLink
    <3>4. s.att = e => t.att = e
      BY <2>4
    <3>5. QED
      BY <3>1, <3>3, <3>4 DEF DeviceInv
  <2>5. QED
    BY <2>2, <2>3, <2>4
<1>2. \A g \in Handle : LinkInv(t, g)
  <2>1. SUFFICES ASSUME NEW g \in Handle PROVE LinkInv(t, g)
    OBVIOUS
  <2>2. CASE g = h
    <3>1. t.devs[o] = u /\ o \in Ids(t) /\ t.links[g] = k
      BY <1>0, <2>2 DEF OneLink
    <3>2. QED
      BY <2>2, <3>1 DEF LinkInv
  <2>3. CASE g # h
    <3>1. t.links[g] = s.links[g] /\ LinkInv(s, g) /\ g # 0
      BY <2>3, LeConnectConstants DEF OneLink, Linked, Handle
    <3>2. \A e \in Ids(s) : s.devs[e].link = g => t.devs[e] = s.devs[e]
      BY <2>3, <3>1
    <3>3. QED
      BY <3>1, <3>2, <1>0 DEF LinkInv
  <2>4. QED
    BY <2>2, <2>3
<1>3. AttemptInv(t)
  <2>1. SUFFICES ASSUME t.att # 0 PROVE AttemptInv(t)
    BY DEF AttemptInv
  <2>2. s.att # 0 /\ s.att \in Ids(s) /\ AttemptInv(s) /\ t.tgt = s.tgt /\ t.pages = s.pages
    BY <1>0, <2>1, LecParts DEF Linked, Same
  <2>3. s.tgt[1] = s.devs[s.att].addr[1]
    BY <2>2 DEF AttemptInv
  <2>4. CASE t.att = o
    <3>1. t.devs[t.att] = u /\ t.links[h] = k /\ s.tgt[1] = u.addr[1]
      BY <2>3, <2>4 DEF OneLink
    <3>2. Waits(k, o)
      BY DEF Waits
    <3>3. QED
      BY <1>0, <2>2, <2>4, <3>1, <3>2 DEF AttemptInv
  <2>5. CASE t.att # o
    <3>1. t.att = s.att /\ s.att # d /\ s.att # o
      BY <2>5
    <3>2. t.devs[s.att] = s.devs[s.att]
      BY <2>2, <3>1
    <3>3. s.devs[s.att].link # 0 => s.devs[s.att].link \in Handle /\ s.devs[s.att].link # h
      BY <1>0, <2>2, <3>1, LecParts DEF Linked, OneOwner
    <3>4. s.devs[s.att].link # 0 => t.links[s.devs[s.att].link] = s.links[s.devs[s.att].link]
      BY <3>3 DEF OneLink
    <3>5. QED
      BY <2>1, <2>2, <3>1, <3>2, <3>4 DEF AttemptInv
  <2>6. QED
    BY <2>4, <2>5
<1>4. OneOwner(t)
  <2>1. \A e \in Ids(s) : t.devs[e].link # 0 => IF e = o THEN t.devs[e].link = h
                                              ELSE e # d /\ t.devs[e].link = s.devs[e].link
    OBVIOUS
  <2>2. \A e \in Ids(s) : e # d => s.devs[e].link # h
    BY <1>0 DEF Linked, OneOwner
  <2>3. QED
    BY <1>0, <2>1, <2>2 DEF OneOwner, Linked
<1>5. \A e \in Ids(s) : t.devs[e].addr = s.devs[e].addr
  OBVIOUS
<1>6. OneIdentity(t)
  BY <1>0, <1>5 DEF OneIdentity, Linked
<1>7. Moves(s, t)
  <2>1. t.att # 0 => s.att # 0 /\ t.devs[t.att].addr[1] = s.devs[s.att].addr[1]
    BY <1>0, <1>5, LecParts
  <2>2. QED
    BY <1>0, <1>5, <2>1 DEF Moves, Same
<1>8. QED
  BY <1>1, <1>2, <1>3, <1>4, <1>6, <1>7 DEF Linked

\* A devices that came back twice: only the record of it changes
LEMMA TwiceKeeps ==
    ASSUME NEW s, Linked(s), NEW n, n = [s EXCEPT !.twice = TRUE]
    PROVE  /\ Linked(n) /\ n \in LecType /\ n.devs = s.devs /\ n.links = s.links /\ n.twice = TRUE
           /\ n.att = s.att /\ n.resolved = s.resolved /\ Ids(n) = Ids(s)
           /\ \A t : Moves(n, t) => Moves(s, t)
<1>1. s \in LecType
  BY DEF Linked, LecTypes
<1>2. /\ n \in LecType /\ n.devs = s.devs /\ n.links = s.links /\ n.twice = TRUE /\ n.att = s.att
      /\ n.tgt = s.tgt /\ n.pages = s.pages /\ n.resolved = s.resolved /\ n.live = s.live
      /\ n.res = s.res /\ n.resId = s.resId
  BY <1>1 DEF LecType
<1>3. Ids(n) = Ids(s)
  BY <1>2 DEF Ids
<1>4. LecTypes(n)
  BY <1>2 DEF Linked, LecTypes
<1>5. \A e \in Ids(n) : DeviceInv(n, e)
  BY <1>2, <1>3 DEF DeviceInv, Linked
<1>6. \A g \in Handle : LinkInv(n, g)
  BY <1>2, <1>3 DEF LinkInv, Linked
<1>7. AttemptInv(n) /\ OneOwner(n) /\ OneIdentity(n)
  <2>1. AttemptInv(n)
    BY <1>2 DEF AttemptInv, Linked
  <2>2. OneOwner(n)
    BY <1>2, <1>3 DEF OneOwner, Linked
  <2>3. OneIdentity(n)
    BY <1>2 DEF OneIdentity
  <2>4. QED
    BY <2>1, <2>2, <2>3
<1>8. ASSUME NEW t, Moves(n, t) PROVE Moves(s, t)
  <2>1. t.twice
    BY <1>2, <1>8 DEF Moves
  <2>2. /\ n.devs = s.devs /\ n.att = s.att /\ n.live = s.live /\ n.res = s.res /\ n.resId = s.resId
    BY <1>2
  <2>3. Len(t.devs) = Len(s.devs) /\ t.live = s.live /\ (s.twice => t.twice)
    BY <1>8, <2>1, <2>2 DEF Moves
  <2>4. \A d \in Ids(s) : /\ t.devs[d].addr[1] = s.devs[d].addr[1]
                          /\ s.devs[d].addr[2] = "id" => t.devs[d].addr = s.devs[d].addr
    <3> SUFFICES ASSUME NEW d \in Ids(s)
                 PROVE  /\ t.devs[d].addr[1] = s.devs[d].addr[1]
                        /\ s.devs[d].addr[2] = "id" => t.devs[d].addr = s.devs[d].addr
      OBVIOUS
    <3>1. d \in Ids(n) /\ n.devs[d] = s.devs[d]
      BY <1>3, <2>2
    <3>2. QED
      BY <1>8, <3>1 DEF Moves
  <2>5. /\ t.att # 0 => s.att # 0 /\ t.devs[t.att].addr[1] = s.devs[s.att].addr[1]
        /\ s.att = 0 => t.resId = s.resId /\ t.res = s.res
    BY <1>8, <2>2 DEF Moves
  <2>6. /\ t.res # s.res => s.live /\ s.att # 0 /\ t.att = 0 /\ t.resId = s.att
        /\ t.res # s.res /\ t.res = "ok" => t.devs[s.att].ready
    BY <1>8, <2>2 DEF Moves
  <2>7. QED
    BY <2>3, <2>4, <2>5, <2>6 DEF Moves
<1>9. QED
  BY <1>2, <1>3, <1>4, <1>5, <1>6, <1>7, <1>8 DEF Linked

\* on_identity: the device of the link gets the identity, or the device that
\* has it gets the link
LEMMA OnIdentityKeeps ==
    ASSUME NEW s, Linked(s), NEW h \in Handle, NEW d \in Ids(s), s.devs[d].link = h,
           NEW k \in LinkType, NEW R \in SUBSET Addr, NEW n, NEW t, NEW identity,
           n = With(s, s.devs, [s.links EXCEPT ![h] = k], R),
           t = OnIdentity(n, d, identity), identity = <<s.links[h].peer, "id">>,
           k.peer = s.links[h].peer, k.told, k.st = s.links[h].st, k.closing = s.links[h].closing, k.disc = 0,
           s.links[h].disc = 0, k.sec \in {"asked", "bonding"}, ~s.devs[d].secured,
           s.devs[d].attempts # 2, s.devs[d].pairing <=> k.sec = "bonding",
           k.sec = "bonding" => s.devs[d].enc
    PROVE  Linked(t) /\ Moves(s, t)
<1> DEFINE v == s.devs[d]
           others == {o \in DOMAIN n.devs : o # d /\ n.devs[o].addr = identity}
           o == Min(others)
           links == [s.links EXCEPT ![h] = k]
           v2 == [v EXCEPT !.addr = identity, !.known = TRUE]
<1>1. /\ LecTypes(s) /\ h # 0 /\ s \in LecType /\ s.resolved \in SUBSET Addr /\ d # 0
      /\ s.devs \in Seq(DeviceType) /\ s.links \in [Handle -> LinkType] /\ DOMAIN s.devs = Ids(s)
      /\ v \in DeviceType /\ Ids(s) \subseteq 1..MaxDevices
  BY LeConnectConstants, LecParts DEF Linked, Handle, LecTypes, LecType
<1>2. links \in [Handle -> LinkType]
  BY <1>1
<1>3. /\ n \in LecType /\ Same(s, n) /\ n.twice = s.twice /\ n.att = s.att /\ n.res = s.res
      /\ n.resId = s.resId /\ n.devs = s.devs /\ n.links = links
  BY <1>1, <1>2 DEF With, LecType, Same
<1>4. DeviceInv(s, d) /\ Reached(v, s.links[h]) /\ v.link = h
  BY <1>1 DEF Linked, DeviceInv
<1>5. s.links[h].peer = v.addr[1] /\ s.links[h].st \in {"up", "lost"} /\ ~v.ready
  BY <1>4 DEF Reached
<1>6. identity \in Addr /\ identity[1] = v.addr[1] /\ identity[2] = "id"
      /\ (v.addr[2] = "id" => v.addr = identity)
  <2>1. v.addr \in Peer \X (Rpas \cup {"id"})
    BY <1>1 DEF DeviceType, Addr
  <2>2. identity = <<v.addr[1], "id">>
    BY <1>5
  <2>3. QED
    BY <2>1, <2>2 DEF Addr
<1>7. [s.devs EXCEPT ![d] = v] = s.devs
  <2>1. s.devs \in [1..Len(s.devs) -> DeviceType]
    BY <1>1, LenProperties
  <2>2. QED
    BY <2>1
<1>8. /\ v2 \in DeviceType /\ v2.addr = identity /\ v2.link = h /\ v2.peerAddr = v.peerAddr
      /\ v2.enc = v.enc /\ v2.pairing = v.pairing /\ v2.secured = v.secured /\ v2.ready = v.ready
      /\ v2.attempts = v.attempts
  BY <1>1, <1>4, <1>6 DEF DeviceType
<1>9. Reached(v2, k) /\ Waits(k, d)
  BY <1>5, <1>6, <1>8 DEF Reached, Waits
<1>10. others = {e \in Ids(s) : e # d /\ s.devs[e].addr = identity}
  BY <1>1, <1>3
<1>11. others # {} => o \in Ids(s) /\ o # d /\ s.devs[o].addr = identity
  <2>1. others \subseteq Ids(s)
    BY <1>10
  <2>2. others # {} => o \in others
    BY <1>1, <2>1, FirstDevice
  <2>3. QED
    BY <1>10, <2>2
<1>12. CASE v.known /\ v.addr = identity
  <2>1. t = n
    <3>1. n.devs[d].known /\ n.devs[d].addr = identity
      BY <1>3, <1>12
    <3>2. QED
      BY <3>1 DEF OnIdentity
  <2>2. Reached(v, k)
    BY <1>5, <1>6, <1>12 DEF Reached
  <2>3. t = With(s, [s.devs EXCEPT ![d] = v], [s.links EXCEPT ![h] = k], R)
    BY <1>7, <2>1
  <2>4. /\ v.peerAddr = s.devs[d].peerAddr /\ v.addr = s.devs[d].addr /\ k.disc \in {0, d} /\ k.disc # d
        /\ (s.links[h].closing => k.closing) /\ (s.devs[d].ready => v.ready)
    BY <1>1
  <2> HIDE DEF v, others, o, links, v2
  <2>5. QED
    BY <1>1, <1>4, <1>9, <2>2, <2>3, <2>4, OwnerEvent
<1>13. CASE ~(v.known /\ v.addr = identity) /\ others = {}
  <2>1. t = [n EXCEPT !.devs[d].addr = identity, !.devs[d].known = TRUE, !.twice = n.twice \/ FALSE]
    BY <1>3, <1>13 DEF OnIdentity
  <2>2. (n.twice \/ FALSE) = n.twice
    BY <1>3 DEF LecType
  <2>3. [n.devs EXCEPT ![d] = [[n.devs[d] EXCEPT !.addr = identity] EXCEPT !.known = TRUE]]
           = [s.devs EXCEPT ![d] = v2]
    BY <1>1, <1>3 DEF DeviceType
  <2>4. t = [n EXCEPT !.devs = [s.devs EXCEPT ![d] = v2]]
    <3> DEFINE v1 == [s.devs[d] EXCEPT !.addr = identity]
               m == [n EXCEPT !.devs = [n.devs EXCEPT ![d] = v1]]
    <3>1. m.devs = [s.devs EXCEPT ![d] = v1] /\ m.devs[d] = v1 /\ m.twice = n.twice
      BY <1>1, <1>3 DEF LecType
    <3>2. t = [[m EXCEPT !.devs = [m.devs EXCEPT ![d] = [m.devs[d] EXCEPT !.known = TRUE]]]
                  EXCEPT !.twice = n.twice \/ FALSE]
      BY <1>3, <2>1
    <3>3. [v1 EXCEPT !.known = TRUE] = v2
      BY <1>1 DEF DeviceType
    <3>4. [[s.devs EXCEPT ![d] = v1] EXCEPT ![d] = v2] = [s.devs EXCEPT ![d] = v2]
      OBVIOUS
    <3>5. t = [[m EXCEPT !.devs = [s.devs EXCEPT ![d] = v2]] EXCEPT !.twice = n.twice]
      <4> HIDE DEF m, v1, v2
      <4>1. QED
        BY <2>2, <3>1, <3>2, <3>3, <3>4
    <3> HIDE DEF v1, v2, v
    <3>6. QED
      BY <1>3, <3>5, RewrittenDevices
  <2>5. t = With(s, [s.devs EXCEPT ![d] = v2], [s.links EXCEPT ![h] = k], R)
    <3> HIDE DEF v2, v
    <3>1. QED
      BY <1>1, <2>4 DEF With, LecType
  <2>6. \A e \in Ids(s) : e # d => s.devs[e].addr # v2.addr
    BY <1>8, <1>10, <1>13
  <2>7. /\ v2.addr[1] = s.devs[d].addr[1] /\ (s.devs[d].addr[2] = "id" => v2.addr = s.devs[d].addr)
        /\ k.disc \in {0, d} /\ k.disc # d /\ v2.peerAddr = s.devs[d].peerAddr
        /\ (s.links[h].closing => k.closing) /\ (s.devs[d].ready => v2.ready)
    BY <1>1, <1>6, <1>8
  <2> HIDE DEF v, others, o, links, v2
  <2>8. QED
    BY <1>1, <1>8, <1>9, <2>5, <2>6, <2>7, NamedEvent
<1>14. CASE ~(v.known /\ v.addr = identity) /\ others # {} /\ s.devs[o].link # 0
  <2>1. t = [n EXCEPT !.devs[d].addr = identity, !.devs[d].known = TRUE, !.twice = n.twice \/ TRUE]
    <3>1. ~(n.devs[d].known /\ n.devs[d].addr = identity) /\ n.devs[o].link # 0 /\ others # {}
      BY <1>3, <1>14
    <3>2. t = [n EXCEPT !.devs[d].addr = identity, !.devs[d].known = TRUE, !.twice = n.twice \/ others # {}]
      BY <3>1 DEF OnIdentity
    <3>3. (n.twice \/ others # {}) = (n.twice \/ TRUE)
      BY <3>1
    <3> HIDE DEF others, o, v, v2, links
    <3>4. QED
      BY <3>2, <3>3
  <2>2. PICK m : m = [s EXCEPT !.twice = TRUE]
    OBVIOUS
  <2>3. /\ Linked(m) /\ m \in LecType /\ m.devs = s.devs /\ m.links = s.links /\ m.twice = TRUE
        /\ m.att = s.att /\ m.resolved = s.resolved /\ Ids(m) = Ids(s) /\ (Moves(m, t) => Moves(s, t))
    BY <2>2, TwiceKeeps
  <2>4. [n.devs EXCEPT ![d] = [[n.devs[d] EXCEPT !.addr = identity] EXCEPT !.known = TRUE]]
           = [s.devs EXCEPT ![d] = v2]
    BY <1>1, <1>3 DEF DeviceType
  <2>5. t = [n EXCEPT !.devs = [s.devs EXCEPT ![d] = v2], !.twice = TRUE]
    <3> DEFINE v1 == [s.devs[d] EXCEPT !.addr = identity]
               x == [n EXCEPT !.devs = [n.devs EXCEPT ![d] = v1]]
    <3>1. x.devs = [s.devs EXCEPT ![d] = v1] /\ x.devs[d] = v1 /\ x.twice = n.twice
      BY <1>1, <1>3 DEF LecType
    <3>2. t = [[x EXCEPT !.devs = [x.devs EXCEPT ![d] = [x.devs[d] EXCEPT !.known = TRUE]]]
                  EXCEPT !.twice = n.twice \/ TRUE]
      BY <1>3, <2>1
    <3>3. [v1 EXCEPT !.known = TRUE] = v2
      BY <1>1 DEF DeviceType
    <3>4. [[s.devs EXCEPT ![d] = v1] EXCEPT ![d] = v2] = [s.devs EXCEPT ![d] = v2]
      OBVIOUS
    <3>5. t = [[x EXCEPT !.devs = [s.devs EXCEPT ![d] = v2]] EXCEPT !.twice = TRUE]
      <4>1. (n.twice \/ TRUE) = TRUE
        OBVIOUS
      <4> HIDE DEF x, v1, v2
      <4>2. QED
        BY <3>1, <3>2, <3>3, <3>4, <4>1
    <3> HIDE DEF v1, v2, v
    <3>6. QED
      BY <1>3, <3>5 DEF LecType
  <2>6. t = With(m, [s.devs EXCEPT ![d] = v2], [s.links EXCEPT ![h] = k], R)
    <3> HIDE DEF v2, v
    <3>1. QED
      BY <1>1, <2>2, <2>5 DEF With, LecType
  <2>7. t = With(m, [m.devs EXCEPT ![d] = v2], [m.links EXCEPT ![h] = k], R)
    BY <2>3, <2>6
  <2>8. /\ v2.addr[1] = m.devs[d].addr[1] /\ (m.devs[d].addr[2] = "id" => v2.addr = m.devs[d].addr)
        /\ k.disc \in {0, d} /\ k.disc # d /\ v2.peerAddr = m.devs[d].peerAddr /\ m.devs[d].link = h
        /\ (m.links[h].closing => k.closing) /\ (m.devs[d].ready => v2.ready) /\ d \in Ids(m)
    BY <1>1, <1>6, <1>8, <2>3
  <2> HIDE DEF v, others, o, links, v2
  <2>9. Linked(t) /\ Moves(m, t)
    BY <1>8, <1>9, <2>3, <2>7, <2>8, NamedEvent
  <2>10. QED
    BY <2>3, <2>9
<1>15. CASE ~(v.known /\ v.addr = identity) /\ others # {} /\ s.devs[o].link = 0
  <2>1. t = [n EXCEPT !.devs[o] = [@ EXCEPT !.known = TRUE, !.peerAddr = v.peerAddr, !.link = v.link,
                                            !.enc = v.enc, !.pairing = v.pairing,
                                            !.attempts = v.attempts, !.secured = FALSE, !.ready = FALSE],
                      !.devs[d] = [@ EXCEPT !.link = 0, !.enc = FALSE, !.pairing = FALSE,
                                            !.secured = FALSE, !.ready = FALSE],
                      !.att = IF n.att = d THEN o ELSE n.att,
                      !.resId = IF n.att = d THEN o ELSE n.resId]
    BY <1>3, <1>15 DEF OnIdentity
  <2> DEFINE u == [s.devs[o] EXCEPT !.known = TRUE, !.peerAddr = v.peerAddr, !.link = h, !.enc = v.enc,
                                    !.pairing = v.pairing, !.attempts = v.attempts,
                                    !.secured = FALSE, !.ready = FALSE]
             w == [v EXCEPT !.link = 0, !.enc = FALSE, !.pairing = FALSE, !.secured = FALSE, !.ready = FALSE]
             D == [[s.devs EXCEPT ![o] = u] EXCEPT ![d] = w]
  <2>2. o \in Ids(s) /\ o # d /\ s.devs[o].addr = identity /\ s.devs[o] \in DeviceType /\ o \in 0..MaxDevices
    <3>1. o \in Ids(s) /\ o # d /\ s.devs[o].addr = identity
      BY <1>11, <1>15
    <3> HIDE DEF o
    <3>2. s.devs[o] \in DeviceType
      BY <1>1, <3>1, LecParts
    <3>3. o \in 1..MaxDevices /\ MaxDevices \in Nat
      BY <1>1, <3>1, LeConnectConstants DEF MaxDevices
    <3>4. QED
      BY <3>1, <3>2, <3>3
  <2>3. /\ u \in DeviceType /\ u.link = h /\ u.addr = identity /\ u.peerAddr = v.peerAddr /\ u.enc = v.enc
        /\ u.pairing = v.pairing /\ u.attempts = v.attempts /\ u.secured = FALSE /\ u.ready = FALSE
    BY <1>1, <1>4, <2>2 DEF DeviceType
  <2>4. 0 \in 0..MaxLinks
    BY LeConnectConstants
  <2>5. w \in DeviceType /\ w.link = 0 /\ Nothing(w) /\ w.addr = v.addr /\ w.peerAddr = v.peerAddr
    BY <1>1, <2>4 DEF DeviceType, Nothing
  <2>6. /\ D \in Seq(DeviceType) /\ Len(D) = Len(s.devs) /\ D[d] = w /\ D[o] = u
        /\ \A e \in Ids(s) : e # d /\ e # o => D[e] = s.devs[e]
    <3> HIDE DEF u, w, v, o
    <3>1. PICK E : E = [s.devs EXCEPT ![o] = u]
      OBVIOUS
    <3>2. /\ E \in Seq(DeviceType) /\ Len(E) = Len(s.devs) /\ E[o] = u
          /\ \A e \in Ids(s) : e # o => E[e] = s.devs[e]
      BY <1>1, <2>2, <2>3, <3>1, ExceptSeq DEF Ids
    <3>3. D = [E EXCEPT ![d] = w]
      BY <3>1
    <3>4. /\ D \in Seq(DeviceType) /\ Len(D) = Len(E)
          /\ \A e \in 1..Len(E) : D[e] = IF e = d THEN w ELSE E[e]
      <4>1. d \in 1..Len(E)
        BY <3>2 DEF Ids
      <4> HIDE DEF D
      <4>2. QED
        BY <2>5, <3>2, <3>3, <4>1, ExceptSeq
    <3> HIDE DEF D
    <3>5. QED
      BY <2>2, <3>2, <3>4 DEF Ids
  <2>61. n.att # 0 => n.att \in 0..MaxDevices
    BY <1>3 DEF LecType
  <2>62. t = [[[n EXCEPT !.devs = D] EXCEPT !.att = IF s.att = d THEN o ELSE s.att]
                 EXCEPT !.resId = IF s.att = d THEN o ELSE s.resId]
    <3> DEFINE m == [n EXCEPT !.devs = [n.devs EXCEPT ![o] = [n.devs[o] EXCEPT !.known = TRUE,
                                  !.peerAddr = v.peerAddr, !.link = v.link, !.enc = v.enc, !.pairing = v.pairing,
                                  !.attempts = v.attempts, !.secured = FALSE, !.ready = FALSE]]]
               x == [m EXCEPT !.devs = [m.devs EXCEPT ![d] = [n.devs[d] EXCEPT !.link = 0, !.enc = FALSE,
                                  !.pairing = FALSE, !.secured = FALSE, !.ready = FALSE]]]
    <3>1. t = [[x EXCEPT !.att = IF n.att = d THEN o ELSE n.att] EXCEPT !.resId = IF n.att = d THEN o ELSE n.resId]
      BY <2>1
    <3>2. n.att = s.att /\ n.resId = s.resId /\ n.devs = s.devs /\ n \in LecType
      BY <1>3
    <3>3. m = [n EXCEPT !.devs = [s.devs EXCEPT ![o] = u]]
      BY <1>4, <3>2
    <3>4. m.devs = [s.devs EXCEPT ![o] = u] /\ n.devs[d] = v
      BY <1>1, <2>2, <3>2, <3>3 DEF LecType
    <3>5. x = [m EXCEPT !.devs = D]
      BY <3>4
    <3> HIDE DEF x, D, u
    <3>6. [m EXCEPT !.devs = D] = [n EXCEPT !.devs = D]
      BY <3>2, <3>3 DEF LecType
    <3> HIDE DEF m
    <3>7. QED
      BY <3>1, <3>2, <3>5, <3>6
  <2> HIDE DEF others, o, v, u, w, D, links
  <2>7. /\ t.devs = D /\ t.links = links /\ t.tgt = s.tgt /\ t.pages = s.pages /\ t.live = s.live
        /\ t.twice = s.twice /\ t.res = s.res
        /\ t.att = (IF s.att = d THEN o ELSE s.att) /\ t.resId = (IF s.att = d THEN o ELSE s.resId)
    BY <1>3, <2>62 DEF LecType, Same
  <2>8. t \in LecType
    BY <1>3, <2>2, <2>6, <2>62 DEF LecType
  <2>9. LecTypes(t)
    BY <1>1, <2>2, <2>6, <2>7, <2>8 DEF LecTypes, Ids
  <2>10. OneLink(s, t, h, k)
    <3>1. s.links \in [Handle -> LinkType] /\ t.links = [s.links EXCEPT ![h] = k]
      BY <1>1, <2>7 DEF links
    <3>2. t.links[h] = k /\ \A g \in Handle : g # h => t.links[g] = s.links[g]
      BY <3>1
    <3>3. QED
      BY <3>2 DEF OneLink
  <2>11. /\ t.devs[d] = w /\ t.devs[o] = u /\ Len(t.devs) = Len(s.devs) /\ Same(s, t)
         /\ \A e \in Ids(s) : e # d /\ e # o => t.devs[e] = s.devs[e]
    BY <2>6, <2>7 DEF Same
  <2>12. Reached(u, k)
    BY <1>5, <1>6, <1>8, <2>3 DEF Reached, v
  <2>13. /\ s.devs[o].link = 0 /\ s.devs[o].addr[1] = s.devs[d].addr[1] /\ w.addr = s.devs[d].addr
         /\ w.peerAddr = s.devs[d].peerAddr /\ u.addr = s.devs[o].addr /\ u.peerAddr = s.devs[d].peerAddr
         /\ ~s.devs[d].ready /\ w.link = 0 /\ Nothing(w) /\ u.link = h
    BY <1>5, <1>6, <1>15, <2>2, <2>3, <2>5 DEF v
  <2>14. (s.links[h].closing => k.closing) /\ t.twice = s.twice /\ t.res = s.res
         /\ t.att = (IF s.att = d THEN o ELSE s.att) /\ t.resId = (IF s.att = d THEN o ELSE s.resId)
    BY <2>7
  <2>15. LinkMove(s, t, h, k, d, w, o, u)
    BY <2>2, <2>10, <2>11, <2>12, <2>13, <2>14 DEF LinkMove
  <2>16. QED
    BY <2>2, <2>9, <2>15, LinkMoves
<1>16. QED
  BY <1>12, <1>13, <1>14, <1>15

-----------------------------------------------------------------------------
(* The events of an identity *)

\* The identity of the peer of a link: told when it is resolved or created
IdentityStep(h, k, R) ==
    LET d == Owner(lec, h)
        n == With(lec, lec.devs, [lec.links EXCEPT ![h] = k], R)
    IN  lec' = IF d = 0 THEN n ELSE OnIdentity(n, d, <<lec.links[h].peer, "id">>)

\* on_identity keeps the invariant, whether or not the link has a device
LEMMA IdentityKeeps ==
    ASSUME Linked(lec), NEW h \in Handle, NEW k \in LinkType, NEW R \in SUBSET Addr, IdentityStep(h, k, R),
           lec.links[h].st = "up", k.peer = lec.links[h].peer, k.told, k.st = "up",
           k.closing = lec.links[h].closing, k.disc = lec.links[h].disc,
           \/ lec.links[h].sec = "asked" /\ k.sec = "asked"
           \/ lec.links[h].sec = "keys" /\ k.sec = "bonding"
    PROVE  Linked(lec') /\ Moves(lec, lec')
<1> DEFINE d == Owner(lec, h)
           n == With(lec, lec.devs, [lec.links EXCEPT ![h] = k], R)
<1>1. CASE d = 0
  <2>1. lec' = n
    BY <1>1 DEF IdentityStep
  <2>2. QED
    BY <1>1, <2>1, StrayEvent
<1>2. CASE d # 0
  <2>1. /\ d \in Ids(lec) /\ lec.devs[d].link = h /\ lec.devs[d] \in DeviceType
        /\ Reached(lec.devs[d], lec.links[h]) /\ lec.links[h].disc \in {0, d} /\ d # 0
        /\ (lec.links[h].disc = d => lec.devs[d].secured)
    BY <1>2, OwnerHas
  <2>2. ~lec.devs[d].secured /\ lec.devs[d].attempts # 2
    BY <2>1 DEF Reached
  <2>3. lec.links[h].disc = 0 /\ k.disc = 0 /\ k.sec \in {"asked", "bonding"} /\ k.st = lec.links[h].st
    BY <2>1, <2>2
  <2>4. (lec.devs[d].pairing <=> k.sec = "bonding") /\ (k.sec = "bonding" => lec.devs[d].enc)
    BY <2>1 DEF Reached
  <2>5. PICK i : i = <<lec.links[h].peer, "id">>
    OBVIOUS
  <2>6. PICK m : m = n
    OBVIOUS
  <2>7. lec' = OnIdentity(m, d, i)
    BY <1>2, <2>5, <2>6 DEF IdentityStep
  <2> HIDE DEF d
  <2>8. QED
    BY <2>1, <2>2, <2>3, <2>4, <2>5, <2>6, <2>7, OnIdentityKeeps
<1>3. QED
  BY <1>1, <1>2

\* SM_EVENT_IDENTITY_RESOLVING_SUCCEEDED for a link
LEMMA IdentityResolvedKeeps ==
    ASSUME Linked(lec), NEW h \in Handle, IdentityResolved(h)
    PROVE  Linked(lec') /\ Moves(lec, lec')
<1> DEFINE k == [lec.links[h] EXCEPT !.told = TRUE]
           R == lec.resolved \cup {<<lec.links[h].peer, lec.links[h].rpa>>}
<1>1. /\ lec.links[h].st = "up" /\ lec.links[h].sec = "asked" /\ lec \in LecType
      /\ lec.links[h] \in LinkType /\ lec.resolved \in SUBSET Addr
  BY LecParts DEF IdentityResolved, Secures, Linked, LecTypes, LecType
<1>2. /\ k \in LinkType /\ k.disc = lec.links[h].disc /\ k.closing = lec.links[h].closing /\ k.told
      /\ k.st = "up" /\ k.sec = "asked" /\ k.peer = lec.links[h].peer
  BY <1>1 DEF LinkType
<1>3. R \in SUBSET Addr
  BY <1>1 DEF LinkType, Addr
<1>4. [lec EXCEPT !.links[h].told = TRUE, !.resolved = @ \cup {<<lec.links[h].peer, lec.links[h].rpa>>}]
         = With(lec, lec.devs, [lec.links EXCEPT ![h] = k], R)
  BY <1>1 DEF With, LecType
<1>5. IdentityStep(h, k, R)
  BY <1>4 DEF IdentityResolved, IdentityStep
<1> HIDE DEF k, R
<1>6. QED
  BY <1>1, <1>2, <1>3, <1>5, IdentityKeeps

\* SM_EVENT_IDENTITY_CREATED
LEMMA IdentityCreatedKeeps ==
    ASSUME Linked(lec), NEW h \in Handle, IdentityCreated(h)
    PROVE  Linked(lec') /\ Moves(lec, lec')
<1> DEFINE k == [lec.links[h] EXCEPT !.sec = "bonding", !.told = TRUE]
           R == lec.resolved \cup {<<lec.links[h].peer, lec.links[h].rpa>>}
<1>1. /\ lec.links[h].st = "up" /\ lec.links[h].sec = "keys" /\ lec \in LecType
      /\ lec.links[h] \in LinkType /\ lec.resolved \in SUBSET Addr
  BY LecParts DEF IdentityCreated, Secures, Linked, LecTypes, LecType
<1>2. /\ k \in LinkType /\ k.disc = lec.links[h].disc /\ k.closing = lec.links[h].closing /\ k.told
      /\ k.st = "up" /\ k.sec = "bonding" /\ k.peer = lec.links[h].peer
  BY <1>1 DEF LinkType
<1>3. R \in SUBSET Addr
  BY <1>1 DEF LinkType, Addr
<1>4. [lec EXCEPT !.links[h].sec = "bonding", !.links[h].told = TRUE,
                  !.resolved = @ \cup {<<lec.links[h].peer, lec.links[h].rpa>>}]
         = With(lec, lec.devs, [lec.links EXCEPT ![h] = k], R)
  <2>1. [lec EXCEPT !.links[h].sec = "bonding", !.links[h].told = TRUE].links
           = [lec.links EXCEPT ![h] = k]
    BY <1>1 DEF LecType, LinkType
  <2>2. [lec EXCEPT !.links[h].sec = "bonding", !.links[h].told = TRUE]
           = [lec EXCEPT !.links = [lec.links EXCEPT ![h] = k]]
    BY <1>1, <2>1 DEF LecType
  <2> HIDE DEF k
  <2>3. QED
    BY <1>1, <2>2 DEF With, LecType
<1>5. IdentityStep(h, k, R)
  BY <1>4 DEF IdentityCreated, IdentityStep
<1> HIDE DEF k, R
<1>6. QED
  BY <1>1, <1>2, <1>3, <1>5, IdentityKeeps

\* A silent loss, and HCI Disconnect: the link only stops or starts to close
LEMMA LinkSinks ==
    ASSUME NEW s, Linked(s), NEW h \in Handle, s.links[h].st \in {"up", "lost"}, NEW k \in LinkType,
           k.st \in {"up", "lost"}, k.peer = s.links[h].peer, k.sec = s.links[h].sec,
           k.told = s.links[h].told, k.disc = s.links[h].disc,
           s.links[h].closing => k.closing, s.links[h].st = "lost" => k.st = "lost",
           NEW t, t = [s EXCEPT !.links = [s.links EXCEPT ![h] = k]]
    PROVE  Linked(t) /\ Moves(s, t)
<1> DEFINE d == Owner(s, h)
<1>1. s \in LecType /\ s.resolved \in SUBSET Addr /\ s.links[h] \in LinkType /\ h # 0
      /\ s.devs \in Seq(DeviceType)
  BY LecParts DEF Linked, LecTypes, LecType
<1>2. t = With(s, s.devs, [s.links EXCEPT ![h] = k], s.resolved)
  BY <1>1 DEF With, LecType
<1>3. CASE d = 0
  <2>1. \A e \in Ids(s) : s.devs[e].link # h
    BY <1>1, <1>3, OwnerIs
  <2>2. LinkInv(s, h)
    BY DEF Linked
  <2>3. k.closing <=> s.links[h].closing
    BY <1>1, <2>1, <2>2 DEF LinkInv, LinkType
  <2>31. k.closing = s.links[h].closing
    BY <1>1, <2>3 DEF LinkType
  <2>4. QED
    BY <1>1, <1>2, <1>3, <2>31, StrayEvent DEF d
<1>4. CASE d # 0
  <2>1. /\ d \in Ids(s) /\ s.devs[d].link = h /\ s.devs[d] \in DeviceType /\ d # 0
        /\ Reached(s.devs[d], s.links[h]) /\ s.links[h].disc \in {0, d}
        /\ (s.att = d => Waits(s.links[h], d))
        /\ (s.links[h].disc = d => s.devs[d].secured)
    BY <1>4, OwnerHas
  <2> HIDE DEF d
  <2>2. [s.devs EXCEPT ![d] = s.devs[d]] = s.devs
    <3>1. s.devs \in [1..Len(s.devs) -> DeviceType]
      BY <1>1, LenProperties
    <3>2. QED
      BY <3>1
  <2>3. PICK v : v = s.devs[d]
    OBVIOUS
  <2>4. t = With(s, [s.devs EXCEPT ![d] = v], [s.links EXCEPT ![h] = k], s.resolved)
    BY <1>2, <2>2, <2>3
  <2>5. Reached(v, k) /\ (s.att = d => Waits(k, d))
    BY <2>1, <2>3 DEF Reached, Waits
  <2>6. /\ v \in DeviceType /\ v.link = h /\ v.peerAddr = s.devs[d].peerAddr /\ v.addr = s.devs[d].addr
        /\ k.disc \in {0, d} /\ (k.disc = d => v.secured) /\ (s.devs[d].ready => v.ready)
    BY <2>1, <2>3
  <2>7. QED
    BY <1>1, <2>1, <2>4, <2>5, <2>6, OwnerEvent
<1>5. QED
  BY <1>3, <1>4

\* hangup
LEMMA HangupKeeps ==
    ASSUME NEW s, Linked(s), NEW h \in Handle \cup {0}, h # 0 => s.links[h].st \in {"up", "lost"},
           NEW t, t = Hangup(s, h)
    PROVE  Linked(t) /\ Moves(s, t) /\ t.devs = s.devs /\ t.att = s.att /\ t.res = s.res /\ t.live = s.live
           /\ t.resId = s.resId
<1>1. s \in LecType /\ s.devs \in Seq(DeviceType) /\ s.links \in [Handle -> LinkType] /\ LecTypes(s)
  BY LecParts DEF Linked, LecTypes
<1>2. CASE h = 0
  <2>1. t = s
    BY <1>2 DEF Hangup
  <2>2. Moves(s, s)
    BY <1>1, LecParts DEF Moves
  <2>3. QED
    BY <2>1, <2>2
<1>3. CASE h # 0
  <2> DEFINE k == [s.links[h] EXCEPT !.closing = TRUE]
  <2>1. h \in Handle /\ s.links[h] \in LinkType /\ s.links[h].st \in {"up", "lost"}
    BY <1>1, <1>3
  <2>2. /\ k \in LinkType /\ k.st = s.links[h].st /\ k.peer = s.links[h].peer /\ k.sec = s.links[h].sec
        /\ k.told = s.links[h].told /\ k.disc = s.links[h].disc /\ k.closing
    BY <2>1 DEF LinkType
  <2>3. t = [s EXCEPT !.links = [s.links EXCEPT ![h] = k]]
    BY <1>1, <1>3, <2>1 DEF Hangup, LecType
  <2> HIDE DEF k
  <2>4. Linked(t) /\ Moves(s, t)
    BY <2>1, <2>2, <2>3, LinkSinks
  <2>5. QED
    BY <1>1, <2>3, <2>4 DEF LecType
<1>4. QED
  BY <1>2, <1>3

-----------------------------------------------------------------------------
(* A link that closes or ends *)

\* Links only start to close, and the attempt of device s.att ends or goes on
Calmer(s, t) ==
    /\ t.devs = s.devs /\ t.twice = s.twice /\ t.tgt = s.tgt /\ t.att \in {0, s.att}
    /\ \A h \in Handle : \/ t.links[h] = s.links[h]
                         \/ t.links[h] = [s.links[h] EXCEPT !.closing = TRUE]
    /\ t.att # 0 => \A pg \in s.pages : \E q \in t.pages : q.addr = pg.addr
    /\ t.att = 0 /\ s.att # 0 /\ s.devs[s.att].link # 0 => t.links[s.devs[s.att].link].closing

\* A step that only starts to close links keeps the invariant
LEMMA CalmerKeeps ==
    ASSUME NEW s, Linked(s), NEW t, LecTypes(t), Calmer(s, t)
    PROVE  Linked(t)
<1>0. Ids(t) = Ids(s) /\ LecTypes(s)
  BY DEF Ids, Calmer, Linked
<1>1. \A h \in Handle : /\ t.links[h].st = s.links[h].st /\ t.links[h].peer = s.links[h].peer
                        /\ t.links[h].sec = s.links[h].sec /\ t.links[h].told = s.links[h].told
                        /\ t.links[h].disc = s.links[h].disc
                        /\ s.links[h].closing => t.links[h].closing
  <2>1. SUFFICES ASSUME NEW h \in Handle
                 PROVE  /\ t.links[h].st = s.links[h].st /\ t.links[h].peer = s.links[h].peer
                        /\ t.links[h].sec = s.links[h].sec /\ t.links[h].told = s.links[h].told
                        /\ t.links[h].disc = s.links[h].disc
                        /\ s.links[h].closing => t.links[h].closing
    OBVIOUS
  <2>2. s.links[h] \in LinkType
    BY <1>0, LecParts
  <2>3. t.links[h] = s.links[h] \/ t.links[h] = [s.links[h] EXCEPT !.closing = TRUE]
    BY DEF Calmer
  <2>4. QED
    BY <2>2, <2>3 DEF LinkType
<1>2. \A e \in Ids(t) : DeviceInv(t, e)
  <2>1. SUFFICES ASSUME NEW e \in Ids(s) PROVE DeviceInv(t, e)
    BY <1>0
  <2>2. t.devs[e] = s.devs[e] /\ DeviceInv(s, e)
    BY DEF Calmer, Linked
  <2>3. s.devs[e].link # 0 => s.devs[e].link \in Handle
    BY <1>0, LecParts
  <2>4. s.devs[e].link # 0 /\ s.att = e => t.att = e \/ t.links[s.devs[e].link].closing
    <3>1. e # 0
      BY <1>0, LecParts
    <3>2. QED
      BY <3>1 DEF Calmer
  <2>5. CASE s.devs[e].link = 0
    BY <2>2, <2>5 DEF DeviceInv
  <2>6. CASE s.devs[e].link # 0
    <3>1. Reached(s.devs[e], s.links[s.devs[e].link])
      BY <2>2, <2>6 DEF DeviceInv
    <3>2. Reached(s.devs[e], t.links[s.devs[e].link])
      BY <1>1, <2>3, <2>6, <3>1 DEF Reached
    <3>3. QED
      BY <1>1, <2>2, <2>3, <2>4, <2>6, <3>2 DEF DeviceInv
  <2>7. QED
    BY <2>5, <2>6
<1>3. \A g \in Handle : LinkInv(t, g)
  <2>1. SUFFICES ASSUME NEW g \in Handle PROVE LinkInv(t, g)
    OBVIOUS
  <2>2. LinkInv(s, g) /\ t.devs = s.devs
    BY DEF Linked, Calmer
  <2>3. QED
    BY <1>0, <1>1, <2>2 DEF LinkInv
<1>4. AttemptInv(t)
  <2>1. SUFFICES ASSUME t.att # 0 PROVE AttemptInv(t)
    BY DEF AttemptInv
  <2>2. t.att = s.att /\ t.tgt = s.tgt /\ t.devs = s.devs /\ s.att # 0 /\ AttemptInv(s) /\ s.att \in Ids(s)
    BY <1>0, <2>1, LecParts DEF Calmer, Linked
  <2>3. s.devs[s.att].link # 0 => s.devs[s.att].link \in Handle
    BY <1>0, <2>2, LecParts
  <2>4. s.devs[s.att].link # 0 => Waits(t.links[s.devs[s.att].link], s.att)
    BY <1>1, <2>2, <2>3 DEF AttemptInv, Waits
  <2>5. \A pg \in s.pages : \E q \in t.pages : q.addr = pg.addr
    BY <2>1 DEF Calmer
  <2>6. QED
    BY <2>2, <2>4, <2>5 DEF AttemptInv
<1>5. OneOwner(t) /\ OneIdentity(t)
  BY <1>0 DEF OneOwner, OneIdentity, Linked, Calmer
<1>6. QED
  BY <1>2, <1>3, <1>4, <1>5 DEF Linked

\* Device d loses its link h, and its attempt ends
LinkDrop(s, t, h, k, d, w) ==
    /\ s.devs[d].link = h
    /\ Same(s, t) /\ t.twice = s.twice /\ OneDevice(s, t, d, w) /\ OneLink(s, t, h, k)
    /\ w.link = 0 /\ Nothing(w) /\ w.addr = s.devs[d].addr /\ w.peerAddr = s.devs[d].peerAddr
    /\ k.st = "gone" /\ k.disc = 0
    /\ t.att # d /\ Answered(s, t, d) /\ (t.res = s.res \/ t.res = "no")

\* A device that loses its link keeps the invariant
LEMMA LinkDrops ==
    ASSUME NEW s, Linked(s), NEW h \in Handle, NEW d \in Ids(s), NEW k, NEW w,
           NEW t, LecTypes(t), LinkDrop(s, t, h, k, d, w)
    PROVE  Linked(t) /\ Moves(s, t)
<1> USE DEF LinkDrop
<1>0. Ids(t) = Ids(s) /\ h # 0 /\ LecTypes(s) /\ d # 0 /\ DeviceInv(s, d)
  BY LeConnectConstants, LecParts DEF Ids, Handle, Linked, OneDevice
<1>1. \A e \in Ids(t) : DeviceInv(t, e)
  <2>1. SUFFICES ASSUME NEW e \in Ids(s) PROVE DeviceInv(t, e)
    BY <1>0
  <2>2. CASE e = d
    <3>1. t.devs[e] = w
      BY <2>2 DEF OneDevice
    <3>2. QED
      BY <1>0, <2>2, <3>1 DEF DeviceInv
  <2>3. CASE e # d
    <3>1. t.devs[e] = s.devs[e] /\ DeviceInv(s, e) /\ (s.att = e => t.att = e)
      BY <2>3 DEF OneDevice, Linked, Answered
    <3>2. s.devs[e].link # 0 => s.devs[e].link \in Handle /\ s.devs[e].link # h
      BY <1>0, <2>3, LecParts DEF Linked, OneOwner
    <3>3. s.devs[e].link # 0 => t.links[s.devs[e].link] = s.links[s.devs[e].link]
      BY <3>2 DEF OneLink
    <3>4. QED
      BY <3>1, <3>3 DEF DeviceInv
  <2>4. QED
    BY <2>2, <2>3
<1>2. \A g \in Handle : LinkInv(t, g)
  <2>1. SUFFICES ASSUME NEW g \in Handle PROVE LinkInv(t, g)
    OBVIOUS
  <2>2. CASE g = h
    <3>1. t.links[g] = k
      BY <2>2 DEF OneLink
    <3>2. QED
      BY <3>1 DEF LinkInv
  <2>3. CASE g # h
    <3>1. t.links[g] = s.links[g] /\ LinkInv(s, g)
      BY <2>3 DEF OneLink, Linked
    <3>2. \A e \in Ids(s) : s.devs[e].link = g => t.devs[e] = s.devs[e]
      BY <2>3 DEF OneDevice
    <3>3. QED
      BY <1>0, <3>1, <3>2 DEF LinkInv
  <2>4. QED
    BY <2>2, <2>3
<1>3. AttemptInv(t)
  <2>1. SUFFICES ASSUME t.att # 0 PROVE AttemptInv(t)
    BY DEF AttemptInv
  <2>2. /\ t.att = s.att /\ s.att # d /\ t.tgt = s.tgt /\ t.pages = s.pages /\ s.att # 0
        /\ AttemptInv(s) /\ s.att \in Ids(s)
    BY <1>0, <2>1, LecParts DEF Linked, Same, Answered
  <2>3. t.devs[s.att] = s.devs[s.att]
    BY <2>2 DEF OneDevice
  <2>4. s.devs[s.att].link # 0 => s.devs[s.att].link \in Handle /\ s.devs[s.att].link # h
    BY <1>0, <2>2, LecParts DEF Linked, OneOwner
  <2>5. s.devs[s.att].link # 0 => t.links[s.devs[s.att].link] = s.links[s.devs[s.att].link]
    BY <2>4 DEF OneLink
  <2>6. QED
    BY <2>2, <2>3, <2>5 DEF AttemptInv
<1>4. t.devs[d] = w /\ \A e \in Ids(s) : e # d => t.devs[e] = s.devs[e]
  BY DEF OneDevice
<1>5. OneOwner(t)
  BY <1>0, <1>4 DEF OneOwner, Linked
<1>6. \A e \in Ids(s) : t.devs[e].addr = s.devs[e].addr
  BY <1>4
<1>7. OneIdentity(t)
  BY <1>0, <1>6 DEF OneIdentity, Linked
<1>8. Moves(s, t)
  <2>1. t.att # 0 => s.att # 0 /\ t.devs[t.att].addr[1] = s.devs[s.att].addr[1]
    BY <1>0, <1>6, LecParts DEF Answered
  <2>2. QED
    BY <1>0, <1>6, <2>1 DEF Moves, Same, OneDevice, Answered
<1>9. QED
  BY <1>1, <1>2, <1>3, <1>5, <1>7, <1>8 DEF Linked

\* on_disconnected
LEMMA DisconnectedKeeps ==
    ASSUME NEW s, Linked(s), NEW h \in Handle, s.links[h].st \in {"up", "lost"}, NEW t, t = OnDisconnected(s, h)
    PROVE  Linked(t) /\ Moves(s, t)
<1> DEFINE d == Owner(s, h)
           k == [s.links[h] EXCEPT !.st = "gone", !.disc = 0]
           w == [s.devs[d] EXCEPT !.link = 0, !.enc = FALSE, !.pairing = FALSE,
                                  !.secured = FALSE, !.ready = FALSE]
           n == [s EXCEPT !.links[h].st = "gone", !.links[h].disc = 0]
           L == [s.links EXCEPT ![h] = k]
<1>1. /\ LecTypes(s) /\ s \in LecType /\ s.resolved \in SUBSET Addr /\ s.links[h] \in LinkType /\ h # 0
      /\ s.devs \in Seq(DeviceType) /\ s.links \in [Handle -> LinkType] /\ DOMAIN s.devs = Ids(s)
  BY LecParts DEF Linked, LecTypes, LecType
<1>2. 0 \in 0..MaxDevices /\ 0 \in 0..MaxLinks
  BY LeConnectConstants DEF MaxDevices
<1>3. k \in LinkType /\ k.st = "gone" /\ k.disc = 0
  BY <1>1, <1>2 DEF LinkType
<1>4. L \in [Handle -> LinkType] /\ L[h] = k /\ \A g \in Handle : g # h => L[g] = s.links[g]
  BY <1>1, <1>3
<1>5. n = [s EXCEPT !.links = L]
  BY <1>1 DEF LecType, LinkType
<1>6. /\ n \in LecType /\ Same(s, n) /\ n.twice = s.twice /\ n.att = s.att /\ n.res = s.res
      /\ n.resId = s.resId /\ n.devs = s.devs /\ n.links = L
  <2> HIDE DEF L, n
  <2>1. QED
    BY <1>1, <1>4, <1>5 DEF LecType, Same
<1>7. CASE d = 0
  <2>1. t = n
    BY <1>7 DEF OnDisconnected
  <2>2. \A e \in Ids(s) : s.devs[e].link # h
    BY <1>1, <1>7, OwnerIs
  <2> HIDE DEF n, L, k, d
  <2>3. LecTypes(t) /\ OneLink(s, t, h, k)
    BY <1>1, <1>4, <1>6, <2>1 DEF LecTypes, OneLink
  <2>4. QED
    BY <1>3, <1>6, <2>1, <2>2, <2>3, StrayKeeps
<1>8. CASE d # 0
  <2> DEFINE D == [s.devs EXCEPT ![d] = w]
             m == [n EXCEPT !.devs = D]
  <2>1. d \in Ids(s) /\ s.devs[d].link = h /\ s.devs[d] \in DeviceType /\ d # 0 /\ d \in 0..MaxDevices
    <3>1. d \in Ids(s) /\ s.devs[d].link = h /\ s.devs[d] \in DeviceType
      BY <1>8, OwnerHas
    <3> HIDE DEF d
    <3>2. d # 0 /\ d \in 1..MaxDevices /\ MaxDevices \in Nat
      BY <1>1, <3>1, LecParts, LeConnectConstants DEF MaxDevices
    <3>3. QED
      BY <3>1, <3>2
  <2>2. /\ w \in DeviceType /\ w.link = 0 /\ Nothing(w) /\ w.addr = s.devs[d].addr
        /\ w.peerAddr = s.devs[d].peerAddr
    BY <1>2, <2>1 DEF DeviceType, Nothing
  <2>3. t = FinishConnect(m, d, FALSE)
    BY <1>6, <1>8 DEF OnDisconnected
  <2> HIDE DEF w, L, k, n, d
  <2>4. /\ D \in Seq(DeviceType) /\ Len(D) = Len(s.devs) /\ D[d] = w
        /\ \A e \in Ids(s) : e # d => D[e] = s.devs[e]
    BY <1>1, <2>1, <2>2, ExceptSeq DEF Ids
  <2> HIDE DEF D
  <2>5. /\ m \in LecType /\ Same(s, m) /\ m.twice = s.twice /\ m.att = s.att /\ m.res = s.res
        /\ m.resId = s.resId /\ m.devs = D /\ m.links = L
    BY <1>6, <2>4 DEF LecType, Same
  <2> HIDE DEF m
  <2>6. /\ t \in LecType /\ Same(m, t) /\ t.twice = m.twice /\ t.devs = m.devs /\ t.links = m.links
        /\ \/ m.att # d /\ t.att = m.att /\ t.res = m.res /\ t.resId = m.resId
           \/ m.att = d /\ t.att = 0 /\ t.resId = d /\ (t.res = m.res \/ (m.live /\ t.res = "no"))
    <3>1. CASE m.att # d
      <4>1. t = m
        BY <2>3, <3>1 DEF FinishConnect
      <4>2. QED
        BY <2>5, <3>1, <4>1 DEF Same
    <3>2. CASE m.att = d
      <4>1. t = [m EXCEPT !.att = 0, !.resId = d, !.res = IF m.live THEN "no" ELSE m.res]
        BY <2>3, <3>2 DEF FinishConnect
      <4>2. QED
        BY <1>2, <2>1, <2>5, <3>2, <4>1 DEF LecType, Same
    <3>3. QED
      BY <3>1, <3>2
  <2>7. LecTypes(t)
    <3>1. Len(s.devs) \in Nat /\ d <= Len(s.devs) /\ Len(s.devs) <= MaxDevices
      BY <1>1, <2>1, LecParts DEF Ids, LecTypes
    <3>2. QED
      BY <1>1, <2>4, <2>5, <2>6, <3>1 DEF LecTypes
  <2>8. Same(s, t) /\ t.att # d /\ Answered(s, t, d) /\ (t.res = s.res \/ t.res = "no")
    BY <2>1, <2>5, <2>6 DEF Same, Answered
  <2>9. OneDevice(s, t, d, w) /\ OneLink(s, t, h, k)
    BY <1>4, <2>4, <2>5, <2>6 DEF OneDevice, OneLink
  <2>10. LinkDrop(s, t, h, k, d, w)
    BY <1>3, <2>1, <2>2, <2>5, <2>6, <2>8, <2>9 DEF LinkDrop
  <2>11. QED
    BY <2>1, <2>7, <2>10, LinkDrops
<1>9. QED
  BY <1>7, <1>8

\* The peer or the radio ends the link
LEMMA LinkEndsKeeps ==
    ASSUME Linked(lec), NEW h \in Handle, LinkEnds(h)
    PROVE  Linked(lec') /\ Moves(lec, lec')
<1>1. /\ lec \in LecType /\ lec.links \in [Handle -> LinkType] /\ lec.links[h] \in LinkType
      /\ lec.links[h].st \in {"up", "lost"}
  BY LecParts DEF LinkEnds, Linked, LecTypes
<1>2. CASE lec' = OnDisconnected(lec, h)
  BY <1>1, <1>2, DisconnectedKeeps
<1>3. CASE lec' = [lec EXCEPT !.links[h].st = "lost"]
  <2> DEFINE k == [lec.links[h] EXCEPT !.st = "lost"]
  <2>1. lec' = [lec EXCEPT !.links = [lec.links EXCEPT ![h] = k]]
    BY <1>1, <1>3 DEF LecType
  <2>2. /\ k \in LinkType /\ k.st = "lost" /\ k.peer = lec.links[h].peer /\ k.sec = lec.links[h].sec
        /\ k.told = lec.links[h].told /\ k.disc = lec.links[h].disc /\ k.closing = lec.links[h].closing
    BY <1>1 DEF LinkType
  <2> HIDE DEF k
  <2>3. QED
    BY <1>1, <2>1, <2>2, LinkSinks
<1>4. QED
  BY <1>2, <1>3 DEF LinkEnds

-----------------------------------------------------------------------------
(* A link that comes up *)

\* A link that was free comes up for device d, the one the attempt is of
LinkCome(s, t, h, k, d, v) ==
    /\ s.att = d /\ s.devs[d].link = 0 /\ t.att = d /\ t.res = s.res /\ t.resId = s.resId
    /\ t.live = s.live /\ t.tgt = s.tgt /\ t.twice = s.twice
    /\ OneDevice(s, t, d, v) /\ OneLink(s, t, h, k) /\ s.links[h].st \in {"none", "gone"}
    /\ v.link = h /\ v.addr = s.devs[d].addr /\ v.peerAddr[1] = v.addr[1]
    /\ ~v.enc /\ ~v.pairing /\ ~v.secured /\ ~v.ready /\ v.attempts = 0
    /\ k.st = "up" /\ k.peer = v.addr[1] /\ k.sec = "asked" /\ ~k.told /\ k.disc = 0

\* A link that comes up for the attempt keeps the invariant
LEMMA LinkComes ==
    ASSUME NEW s, Linked(s), NEW h \in Handle, NEW d \in Ids(s), NEW k, NEW v,
           NEW t, LecTypes(t), LinkCome(s, t, h, k, d, v)
    PROVE  Linked(t) /\ Moves(s, t)
<1> USE DEF LinkCome
<1>0. Ids(t) = Ids(s) /\ h # 0 /\ LecTypes(s) /\ d # 0
  BY LeConnectConstants, LecParts DEF Ids, Handle, Linked, OneDevice
<1>01. \A e \in Ids(s) : s.devs[e].link # h
  <2>1. SUFFICES ASSUME NEW e \in Ids(s), s.devs[e].link = h PROVE FALSE
    OBVIOUS
  <2>2. DeviceInv(s, e)
    BY DEF Linked
  <2>3. s.links[h].st \in {"up", "lost"}
    BY <1>0, <2>1, <2>2 DEF DeviceInv, Reached
  <2>4. QED
    BY <2>3
<1>02. t.devs[d] = v /\ t.links[h] = k
       /\ (\A e \in Ids(s) : e # d => t.devs[e] = s.devs[e])
       /\ (\A g \in Handle : g # h => t.links[g] = s.links[g])
  BY DEF OneDevice, OneLink
<1>03. Reached(v, k) /\ Waits(k, d)
  BY DEF Reached, Waits
<1>1. \A e \in Ids(t) : DeviceInv(t, e)
  <2>1. SUFFICES ASSUME NEW e \in Ids(s) PROVE DeviceInv(t, e)
    BY <1>0
  <2>2. CASE e = d
    BY <1>0, <1>02, <1>03, <2>2 DEF DeviceInv
  <2>3. CASE e # d
    <3>1. t.devs[e] = s.devs[e] /\ DeviceInv(s, e) /\ s.att # e
      BY <1>02, <2>3 DEF Linked
    <3>2. s.devs[e].link # 0 => s.devs[e].link \in Handle /\ s.devs[e].link # h
      BY <1>0, <1>01, LecParts
    <3>3. s.devs[e].link # 0 => t.links[s.devs[e].link] = s.links[s.devs[e].link]
      BY <1>02, <3>2
    <3>4. QED
      BY <3>1, <3>3 DEF DeviceInv
  <2>4. QED
    BY <2>2, <2>3
<1>2. \A g \in Handle : LinkInv(t, g)
  <2>1. SUFFICES ASSUME NEW g \in Handle PROVE LinkInv(t, g)
    OBVIOUS
  <2>2. CASE g = h
    BY <1>0, <1>02, <2>2 DEF LinkInv
  <2>3. CASE g # h
    <3>1. t.links[g] = s.links[g] /\ LinkInv(s, g) /\ g # 0
      BY <1>02, <2>3, LeConnectConstants DEF Linked, Handle
    <3>2. \A e \in Ids(s) : s.devs[e].link = g => t.devs[e] = s.devs[e]
      BY <1>02, <3>1
    <3>3. QED
      BY <1>0, <3>1, <3>2 DEF LinkInv
  <2>4. QED
    BY <2>2, <2>3
<1>3. AttemptInv(t)
  <2>1. AttemptInv(s)
    BY DEF Linked
  <2>2. t.tgt[1] = v.addr[1]
    BY <1>0, <2>1 DEF AttemptInv
  <2>3. QED
    BY <1>0, <1>02, <1>03, <2>2 DEF AttemptInv
<1>4. OneOwner(t)
  <2>1. \A e \in Ids(s) : e # d => t.devs[e].link # h /\ t.devs[e].link = s.devs[e].link
    BY <1>01, <1>02
  <2>2. QED
    BY <1>0, <1>02, <2>1 DEF OneOwner, Linked
<1>5. \A e \in Ids(s) : t.devs[e].addr = s.devs[e].addr
  BY <1>02
<1>6. OneIdentity(t)
  BY <1>0, <1>5 DEF OneIdentity, Linked
<1>7. Moves(s, t)
  BY <1>0, <1>5 DEF Moves, OneDevice
<1>8. QED
  BY <1>1, <1>2, <1>3, <1>4, <1>6, <1>7 DEF Linked

\* A link that was free comes up, and is hung up: nobody waits for it
LinkStrays(s, t, h, k) ==
    /\ t.devs = s.devs /\ t.att = s.att /\ t.res = s.res /\ t.resId = s.resId
    /\ t.live = s.live /\ t.tgt = s.tgt /\ t.twice = s.twice
    /\ s.att # 0 /\ s.devs[s.att].link = 0 =>
          \A pg \in s.pages : pg.addr = s.tgt => pg \in t.pages
    /\ OneLink(s, t, h, k) /\ s.links[h].st \in {"none", "gone"}
    /\ k.closing /\ k.disc = 0

\* A link that comes up for nobody, and is closed at once, keeps the invariant
LEMMA LinkStraysKeeps ==
    ASSUME NEW s, Linked(s), NEW h \in Handle, NEW k, NEW t, LecTypes(t), LinkStrays(s, t, h, k)
    PROVE  Linked(t) /\ Moves(s, t)
<1> USE DEF LinkStrays
<1>0. Ids(t) = Ids(s) /\ h # 0 /\ LecTypes(s)
  BY LeConnectConstants DEF Ids, Handle, Linked
<1>01. \A e \in Ids(s) : s.devs[e].link # h
  <2>1. SUFFICES ASSUME NEW e \in Ids(s), s.devs[e].link = h PROVE FALSE
    OBVIOUS
  <2>2. DeviceInv(s, e)
    BY DEF Linked
  <2>3. s.links[h].st \in {"up", "lost"}
    BY <1>0, <2>1, <2>2 DEF DeviceInv, Reached
  <2>4. QED
    BY <2>3
<1>1. \A e \in Ids(t) : DeviceInv(t, e)
  <2>1. SUFFICES ASSUME NEW e \in Ids(s) PROVE DeviceInv(t, e)
    BY <1>0
  <2>2. s.devs[e].link # 0 => s.devs[e].link \in Handle /\ s.devs[e].link # h
    BY <1>0, <1>01, LecParts
  <2>3. s.devs[e].link # 0 => t.links[s.devs[e].link] = s.links[s.devs[e].link]
    BY <2>2 DEF OneLink
  <2>4. QED
    BY <2>3 DEF Linked, DeviceInv
<1>2. \A g \in Handle : LinkInv(t, g)
  <2>1. SUFFICES ASSUME NEW g \in Handle PROVE LinkInv(t, g)
    OBVIOUS
  <2>2. CASE g = h
    BY <2>2 DEF LinkInv, OneLink
  <2>3. CASE g # h
    BY <1>0, <2>3 DEF LinkInv, OneLink, Linked
  <2>4. QED
    BY <2>2, <2>3
<1>3. AttemptInv(t)
  <2>1. SUFFICES ASSUME s.att # 0 PROVE AttemptInv(t)
    BY DEF AttemptInv
  <2>2. AttemptInv(s) /\ s.att \in Ids(s)
    BY <1>0, <2>1, LecParts DEF Linked
  <2>3. s.devs[s.att].link # 0 => s.devs[s.att].link \in Handle /\ s.devs[s.att].link # h
    BY <1>0, <1>01, <2>2, LecParts
  <2>4. s.devs[s.att].link # 0 => t.links[s.devs[s.att].link] = s.links[s.devs[s.att].link]
    BY <2>3 DEF OneLink
  <2>5. s.devs[s.att].link = 0 => \E pg \in t.pages : pg.addr = t.tgt
    BY <2>1, <2>2 DEF AttemptInv
  <2>6. QED
    BY <2>1, <2>2, <2>4, <2>5 DEF AttemptInv
<1>4. OneOwner(t) /\ OneIdentity(t)
  BY <1>0 DEF OneOwner, OneIdentity, Linked
<1>5. Moves(s, t)
  BY <1>0 DEF Moves
<1>6. QED
  BY <1>1, <1>2, <1>3, <1>4, <1>5 DEF Linked

\* on_le_connected
LEMMA PageSucceedsKeeps ==
    ASSUME Linked(lec), current \in [Peer -> Rpas], NEW pg, PageSucceeds(pg)
    PROVE  Linked(lec') /\ Moves(lec, lec')
<1> DEFINE a == pg.addr
           d == lec.att
           up == [NoLink EXCEPT !.st = "up", !.peer = a[1], !.rpa = a[2]]
           m(h) == [lec EXCEPT !.pages = lec.pages \ {pg}, !.links[h] = up]
<1>1. PICK h \in Handle : lec.links[h].st = "none" /\ lec' = OnLeConnected(m(h), h, a)
  BY DEF PageSucceeds
<1> DEFINE L == [lec.links EXCEPT ![h] = up]
<1>2. /\ LecTypes(lec) /\ lec \in LecType /\ lec.links \in [Handle -> LinkType] /\ h # 0
      /\ lec.devs \in Seq(DeviceType) /\ DOMAIN lec.devs = Ids(lec)
      /\ pg \in lec.pages /\ a \in Addr /\ a[2] = current[a[1]]
  BY LeConnectConstants, LecParts DEF PageSucceeds, Linked, LecTypes, LecType, Handle
<1>3. 0 \in 0..MaxDevices
  BY LeConnectConstants DEF MaxDevices
<1>4. a[1] \in Peer /\ a[2] \in Rpas
  BY <1>2 DEF Addr
<1>5. /\ up \in LinkType /\ up.st = "up" /\ up.peer = a[1] /\ up.sec = "idle" /\ up.told = FALSE
      /\ up.disc = 0 /\ up.closing = FALSE
  <2>1. (CHOOSE p \in Peer : TRUE) \in Peer
    BY LeConnectConstants
  <2>2. (CHOOSE r \in Rpas : TRUE) \in Rpas
    BY LeConnectConstants
  <2>3. PICK p0 \in Peer, r0 \in Rpas :
           NoLink = [st |-> "none", peer |-> p0, rpa |-> r0, closing |-> FALSE, sec |-> "idle",
                     told |-> FALSE, disc |-> 0]
    BY <2>1, <2>2 DEF NoLink
  <2>4. /\ NoLink \in LinkType /\ NoLink.sec = "idle" /\ NoLink.told = FALSE
        /\ NoLink.disc = 0 /\ NoLink.closing = FALSE
    BY <1>3, <2>3 DEF LinkType
  <2>5. QED
    BY <1>4, <2>4 DEF LinkType
<1> HIDE DEF up
<1>6. L \in [Handle -> LinkType] /\ L[h] = up /\ \A g \in Handle : g # h => L[g] = lec.links[g]
  BY <1>2, <1>5
<1>7. m(h) = [lec EXCEPT !.pages = lec.pages \ {pg}, !.links = L]
  BY <1>2 DEF LecType
<1> HIDE DEF L
<1>8. PICK n : n = m(h)
  OBVIOUS
<1>9. /\ n \in LecType /\ n.devs = lec.devs /\ n.att = d /\ n.tgt = lec.tgt /\ n.live = lec.live
      /\ n.res = lec.res /\ n.resId = lec.resId /\ n.twice = lec.twice /\ n.links = L
      /\ n.pages = lec.pages \ {pg}
  BY <1>2, <1>6, <1>7, <1>8 DEF LecType
<1>10. lec' = OnLeConnected(n, h, a)
  BY <1>1, <1>8
<1> HIDE DEF m
<1>11. CASE d = 0 \/ lec.devs[d].link # 0 \/ lec.tgt # a
  <2> DEFINE k == [up EXCEPT !.closing = TRUE]
             M == [L EXCEPT ![h] = k]
  <2>1. lec' = [n EXCEPT !.links[h].closing = TRUE]
    BY <1>2, <1>9, <1>10, <1>11 DEF OnLeConnected, Hangup
  <2>2. k \in LinkType /\ k.disc = 0 /\ k.closing
    BY <1>5 DEF LinkType
  <2>3. lec' = [n EXCEPT !.links = M]
    BY <1>6, <1>9, <2>1 DEF LecType
  <2> HIDE DEF k
  <2>4. M \in [Handle -> LinkType] /\ M[h] = k /\ \A g \in Handle : g # h => M[g] = lec.links[g]
    BY <1>6, <2>2
  <2> HIDE DEF M
  <2>5. /\ lec' \in LecType /\ lec'.devs = lec.devs /\ lec'.att = lec.att /\ lec'.tgt = lec.tgt
        /\ lec'.live = lec.live /\ lec'.res = lec.res /\ lec'.resId = lec.resId
        /\ lec'.twice = lec.twice /\ lec'.links = M /\ lec'.pages = lec.pages \ {pg}
    BY <1>9, <2>3, <2>4 DEF LecType
  <2>6. LecTypes(lec') /\ OneLink(lec, lec', h, k)
    BY <1>2, <2>4, <2>5 DEF LecTypes, OneLink
  <2>7. LinkStrays(lec, lec', h, k)
    BY <1>1, <1>2, <1>11, <2>2, <2>5, <2>6 DEF LinkStrays
  <2>8. QED
    BY <2>6, <2>7, LinkStraysKeeps
<1>12. CASE ~(d = 0 \/ lec.devs[d].link # 0 \/ lec.tgt # a)
  <2> DEFINE k == [up EXCEPT !.sec = "asked"]
             M == [L EXCEPT ![h] = k]
             v == [lec.devs[d] EXCEPT !.link = h, !.peerAddr = a, !.enc = FALSE, !.pairing = FALSE,
                                      !.secured = FALSE, !.ready = FALSE]
             D == [lec.devs EXCEPT ![d] = v]
  <2>1. lec' = [[n EXCEPT !.devs[d] =
                   [@ EXCEPT !.link = h, !.peerAddr = a, !.enc = FALSE, !.pairing = FALSE,
                             !.secured = FALSE, !.ready = FALSE]] EXCEPT !.links[h].sec = "asked"]
    BY <1>9, <1>10, <1>12 DEF OnLeConnected, RequestPairing
  <2>2. /\ k \in LinkType /\ k.disc = 0 /\ k.st = "up" /\ k.peer = a[1] /\ k.sec = "asked" /\ ~k.told
    BY <1>5 DEF LinkType
  <2>3. d \in Ids(lec) /\ d # 0 /\ lec.devs[d] \in DeviceType /\ DeviceInv(lec, d) /\ AttemptInv(lec)
    BY <1>2, <1>12, LecParts DEF Linked
  <2>4. /\ lec.devs[d].link = 0 /\ lec.devs[d].attempts = 0 /\ lec.devs[d].addr[1] = a[1]
    BY <1>12, <2>3 DEF AttemptInv
  <2>5. /\ v \in DeviceType /\ v.link = h /\ v.addr = lec.devs[d].addr /\ v.peerAddr = a
        /\ ~v.enc /\ ~v.pairing /\ ~v.secured /\ ~v.ready /\ v.attempts = 0
    <3>1. h \in 0..MaxLinks
      BY LeConnectConstants DEF Handle
    <3>2. QED
      BY <1>2, <2>3, <2>4, <3>1 DEF DeviceType
  <2>6. lec' = [[n EXCEPT !.devs = D] EXCEPT !.links = M]
    <3> DEFINE x == [n EXCEPT !.devs[d] =
                   [@ EXCEPT !.link = h, !.peerAddr = a, !.enc = FALSE, !.pairing = FALSE,
                             !.secured = FALSE, !.ready = FALSE]]
    <3>1. x = [n EXCEPT !.devs = D]
      BY <1>9
    <3>2. x.links = L
      BY <1>9, <3>1 DEF LecType
    <3> HIDE DEF x
    <3>3. lec' = [x EXCEPT !.links = [x.links EXCEPT ![h] = [x.links[h] EXCEPT !.sec = "asked"]]]
      BY <2>1 DEF x
    <3>4. lec' = [x EXCEPT !.links = M]
      BY <1>6, <3>2, <3>3
    <3> HIDE DEF D, M
    <3>5. QED
      BY <3>1, <3>4
  <2> HIDE DEF k, v
  <2>7. M \in [Handle -> LinkType] /\ M[h] = k /\ \A g \in Handle : g # h => M[g] = lec.links[g]
    BY <1>6, <2>2
  <2>8. /\ D \in Seq(DeviceType) /\ Len(D) = Len(lec.devs) /\ D[d] = v
        /\ \A e \in Ids(lec) : e # d => D[e] = lec.devs[e]
    BY <1>2, <2>3, <2>5, ExceptSeq DEF Ids
  <2> HIDE DEF M, D
  <2>9. /\ lec' \in LecType /\ lec'.devs = D /\ lec'.att = lec.att /\ lec'.tgt = lec.tgt
        /\ lec'.live = lec.live /\ lec'.res = lec.res /\ lec'.resId = lec.resId
        /\ lec'.twice = lec.twice /\ lec'.links = M
    BY <1>9, <2>6, <2>7, <2>8 DEF LecType
  <2>10. LecTypes(lec') /\ OneLink(lec, lec', h, k) /\ OneDevice(lec, lec', d, v)
    BY <1>2, <2>7, <2>8, <2>9 DEF LecTypes, OneLink, OneDevice
  <2>11. LinkCome(lec, lec', h, k, d, v)
    BY <1>1, <2>2, <2>4, <2>5, <2>9, <2>10 DEF LinkCome
  <2>12. QED
    BY <2>3, <2>10, <2>11, LinkComes
<1>13. QED
  BY <1>11, <1>12

-----------------------------------------------------------------------------
(* An attempt that ends *)

\* gap_connect_cancel
LEMMA CancelKeeps ==
    ASSUME NEW s, Linked(s), NEW t, t = CancelPage(s)
    PROVE  /\ Linked(t) /\ Calmer(s, t) /\ t.devs = s.devs /\ t.live = s.live /\ t.res = s.res
           /\ t.att = s.att /\ t.resId = s.resId
<1>1. s \in LecType
  BY DEF Linked, LecTypes
<1> DEFINE P == {[pg EXCEPT !.cancelled = TRUE] : pg \in s.pages}
<1>2. P \in SUBSET [addr : Addr, cancelled : BOOLEAN]
  <2>1. s.pages \in SUBSET [addr : Addr, cancelled : BOOLEAN]
    BY <1>1 DEF LecType
  <2>2. QED
    BY <2>1
<1>3. \A pg \in s.pages : \E q \in P : q.addr = pg.addr
  <2>1. s.pages \in SUBSET [addr : Addr, cancelled : BOOLEAN]
    BY <1>1 DEF LecType
  <2>2. SUFFICES ASSUME NEW pg \in s.pages PROVE \E q \in P : q.addr = pg.addr
    OBVIOUS
  <2>3. [pg EXCEPT !.cancelled = TRUE] \in P /\ [pg EXCEPT !.cancelled = TRUE].addr = pg.addr
    BY <2>1
  <2>4. QED
    BY <2>3
<1>4. t = [s EXCEPT !.pages = P]
  BY DEF CancelPage
<1> HIDE DEF P
<1>5. /\ t \in LecType /\ t.devs = s.devs /\ t.live = s.live /\ t.res = s.res /\ t.att = s.att
      /\ t.resId = s.resId /\ t.links = s.links /\ t.twice = s.twice /\ t.tgt = s.tgt /\ t.pages = P
  BY <1>1, <1>2, <1>4 DEF LecType
<1>6. LecTypes(t)
  BY <1>5 DEF LecTypes, Linked
<1>7. Linked(t)
  BY <1>3, <1>5, <1>6, SameKeeps
<1>8. Calmer(s, t)
  <2>1. s.att # 0 => s.att \in Ids(s)
    BY LecParts DEF Linked
  <2>2. QED
    BY <1>3, <1>5, <2>1 DEF Calmer
<1>9. QED
  BY <1>5, <1>7, <1>8

\* HCI Disconnect changes the closing of one link
LEMMA HangupFields ==
    ASSUME NEW s \in LecType, NEW h \in Handle \cup {0}, NEW t, t = Hangup(s, h)
    PROVE  /\ t \in LecType /\ t.devs = s.devs /\ t.att = s.att /\ t.tgt = s.tgt /\ t.live = s.live
           /\ t.res = s.res /\ t.resId = s.resId /\ t.pages = s.pages /\ t.twice = s.twice
           /\ \A g \in Handle : \/ t.links[g] = s.links[g]
                               \/ t.links[g] = [s.links[g] EXCEPT !.closing = TRUE]
           /\ h # 0 => t.links[h].closing
<1>1. CASE h = 0
  BY <1>1 DEF Hangup
<1>2. CASE h # 0
  <2> DEFINE k == [s.links[h] EXCEPT !.closing = TRUE]
             L == [s.links EXCEPT ![h] = k]
  <2>1. h \in Handle /\ s.links \in [Handle -> LinkType] /\ s.links[h] \in LinkType
    BY <1>2 DEF LecType
  <2>2. t = [s EXCEPT !.links = L]
    BY <1>2 DEF Hangup
  <2>3. k \in LinkType /\ k.closing
    BY <2>1 DEF LinkType
  <2>4. PICK x : x = k
    OBVIOUS
  <2>5. L = [s.links EXCEPT ![h] = x]
    BY <2>4
  <2>6. /\ L \in [Handle -> LinkType] /\ L[h] = x /\ \A g \in Handle : g # h => L[g] = s.links[g]
    <3> HIDE DEF k, L
    <3>1. QED
      BY <2>1, <2>3, <2>4, <2>5
  <2>7. \A g \in Handle : L[g] = s.links[g] \/ L[g] = [s.links[g] EXCEPT !.closing = TRUE]
    <3>1. L[h] = [s.links[h] EXCEPT !.closing = TRUE]
      BY <2>4, <2>6
    <3> HIDE DEF L, k
    <3>2. QED
      BY <2>6, <3>1
  <2>8. L[h].closing
    BY <2>3, <2>4, <2>6
  <2> HIDE DEF L, k
  <2>9. QED
    BY <2>2, <2>6, <2>7, <2>8 DEF LecType
<1>3. QED
  BY <1>1, <1>2

\* on_le_connected with an error
LEMMA PageFailsKeeps ==
    ASSUME Linked(lec), NEW pg, PageFails(pg)
    PROVE  Linked(lec') /\ Moves(lec, lec')
<1> DEFINE d == lec.att
           l == lec.devs[d].link
           m == [lec EXCEPT !.pages = lec.pages \ {pg}]
<1>1. /\ LecTypes(lec) /\ lec \in LecType /\ Len(lec.devs) \in Nat /\ d \in Nat
      /\ (d # 0 => d \in Ids(lec) /\ l \in Handle \cup {0} /\ d \in 0..MaxDevices)
  <2>1. LecTypes(lec) /\ lec \in LecType
    BY DEF Linked, LecTypes
  <2>2. \A e \in Ids(lec) : lec.devs[e].link \in Handle \cup {0} /\ e \in 1..MaxDevices
    BY <2>1, LecParts
  <2>3. QED
    BY <2>1, <2>2, LecParts
<1>2. lec' = OnLeConnectFailed(m)
  BY DEF PageFails
<1>3. /\ m \in LecType /\ m.devs = lec.devs /\ m.att = d /\ m.tgt = lec.tgt /\ m.live = lec.live
      /\ m.res = lec.res /\ m.resId = lec.resId /\ m.links = lec.links /\ m.twice = lec.twice
  BY <1>1 DEF LecType
<1>4. CASE d = 0
  <2>1. lec' = m
    BY <1>2, <1>3, <1>4 DEF OnLeConnectFailed
  <2> HIDE DEF m
  <2>2. LecTypes(lec')
    BY <1>1, <1>3, <2>1 DEF LecTypes
  <2>3. Calmer(lec, lec')
    BY <1>3, <1>4, <2>1 DEF Calmer
  <2>4. Moves(lec, lec')
    BY <1>1, <1>3, <1>4, <2>1 DEF Moves
  <2>5. QED
    BY <2>2, <2>3, <2>4, CalmerKeeps
<1>5. CASE d # 0
  <2>1. PICK n : n = Hangup(m, l)
    OBVIOUS
  <2>2. lec' = FinishConnect(n, d, FALSE)
    BY <1>2, <1>3, <1>5, <2>1 DEF OnLeConnectFailed, FailConnect
  <2> HIDE DEF m
  <2>3. /\ n \in LecType /\ n.devs = m.devs /\ n.att = m.att /\ n.tgt = m.tgt /\ n.live = m.live
        /\ n.res = m.res /\ n.resId = m.resId /\ n.twice = m.twice
        /\ \A g \in Handle : \/ n.links[g] = m.links[g]
                            \/ n.links[g] = [m.links[g] EXCEPT !.closing = TRUE]
        /\ l # 0 => n.links[l].closing
    <3> HIDE DEF l
    <3>1. QED
      BY <1>1, <1>3, <1>5, <2>1, HangupFields
  <2>4. lec' = [n EXCEPT !.att = 0, !.resId = d, !.res = IF n.live THEN "no" ELSE n.res]
    BY <1>3, <2>2, <2>3 DEF FinishConnect
  <2>5. 0 \in 0..MaxDevices
    BY LeConnectConstants DEF MaxDevices
  <2>6. /\ lec' \in LecType /\ lec'.devs = lec.devs /\ lec'.att = 0 /\ lec'.tgt = lec.tgt
        /\ lec'.live = lec.live /\ lec'.resId = d /\ lec'.twice = lec.twice /\ lec'.links = n.links
        /\ lec'.res = lec.res \/ (lec.live /\ lec'.res = "no")
    BY <1>1, <1>3, <1>5, <2>3, <2>4, <2>5 DEF LecType
  <2>7. LecTypes(lec')
    BY <1>1, <1>5, <2>6 DEF LecTypes, Ids
  <2>8. Calmer(lec, lec')
    BY <1>3, <2>3, <2>6 DEF Calmer
  <2>9. Moves(lec, lec')
    BY <1>1, <1>5, <2>6 DEF Moves
  <2>10. QED
    BY <2>7, <2>8, <2>9, CalmerKeeps
<1>6. QED
  BY <1>4, <1>5

\* abandon_connect
LEMMA AbandonKeeps ==
    ASSUME NEW s, Linked(s), NEW t, t = AbandonConnect(s)
    PROVE  /\ Linked(t) /\ t.devs = s.devs /\ t.live = s.live /\ t.res = s.res /\ t.att \in {0, s.att}
           /\ t.resId = s.resId
<1> DEFINE id == s.resId
           n == IF s.att = id THEN [s EXCEPT !.att = 0] ELSE s
           l == s.devs[id].link
<1>1. s \in LecType /\ LecTypes(s) /\ 0 \in 0..MaxDevices
  BY LeConnectConstants DEF Linked, LecTypes, MaxDevices
<1>2. CASE id = 0
  <2>1. t = CancelPage(s)
    BY <1>2 DEF AbandonConnect
  <2>2. QED
    BY <2>1, CancelKeeps
<1>3. CASE id # 0
  <2>1. id \in Ids(s) /\ l \in Handle \cup {0}
    <3>1. id \in Ids(s)
      BY <1>1, <1>3, LecParts
    <3> HIDE DEF id
    <3>2. QED
      BY <1>1, <3>1, LecParts
  <2>2. /\ n \in LecType /\ n.devs = s.devs /\ n.att = (IF s.att = id THEN 0 ELSE s.att)
        /\ n.live = s.live /\ n.res = s.res /\ n.resId = s.resId /\ n.links = s.links
        /\ n.twice = s.twice /\ n.tgt = s.tgt /\ n.pages = s.pages
    BY <1>1, <1>3 DEF LecType
  <2>3. t = IF n.devs[id].link # 0 THEN Hangup(n, n.devs[id].link) ELSE CancelPage(n)
    BY <1>3 DEF AbandonConnect
  <2>4. LecTypes(n)
    BY <1>1, <2>2 DEF LecTypes
  <2> HIDE DEF n, l, id
  <2>5. CASE l # 0
    <3>1. t = Hangup(n, l)
      BY <2>2, <2>3, <2>5 DEF l
    <3>2. /\ t \in LecType /\ t.devs = n.devs /\ t.att = n.att /\ t.tgt = n.tgt /\ t.live = n.live
          /\ t.res = n.res /\ t.resId = n.resId /\ t.pages = n.pages /\ t.twice = n.twice
          /\ \A g \in Handle : \/ t.links[g] = n.links[g]
                              \/ t.links[g] = [n.links[g] EXCEPT !.closing = TRUE]
          /\ l # 0 => t.links[l].closing
      BY <2>1, <2>2, <3>1, HangupFields
    <3>3. LecTypes(t)
      BY <2>4, <3>2 DEF LecTypes
    <3>4. Calmer(s, t)
      <4>1. t.att = 0 /\ s.att # 0 => s.att = id
        BY <2>2, <3>2
      <4>2. QED
        BY <2>2, <2>5, <3>2, <4>1 DEF Calmer, l
    <3>5. QED
      BY <2>2, <3>2, <3>3, <3>4, CalmerKeeps DEF id
  <2>6. CASE l = 0
    <3>1. Calmer(s, n)
      <4>1. n.att = 0 /\ s.att # 0 => s.devs[s.att].link = 0
        BY <2>2, <2>6 DEF l
      <4>2. QED
        BY <2>2, <4>1 DEF Calmer
    <3>2. Linked(n)
      BY <2>4, <3>1, CalmerKeeps
    <3>3. t = CancelPage(n)
      BY <2>2, <2>3, <2>6 DEF l
    <3>4. /\ Linked(t) /\ t.devs = n.devs /\ t.live = n.live /\ t.res = n.res
          /\ t.att = n.att /\ t.resId = n.resId
      BY <3>2, <3>3, CancelKeeps
    <3>5. QED
      BY <2>2, <3>4 DEF id
  <2>7. QED
    BY <2>5, <2>6
<1>4. QED
  BY <1>2, <1>3

\* le_disconnect
LEMMA DisconnectJobKeeps ==
    ASSUME NEW s, Linked(s), NEW d \in Ids(s), NEW t, t = Hangup(s, s.devs[d].link)
    PROVE  /\ Linked(t) /\ t.devs = s.devs /\ t.live = s.live /\ t.res = s.res /\ t.att = s.att
           /\ t.resId = s.resId
<1>1. DeviceInv(s, d) /\ s.devs[d].link \in Handle \cup {0}
  BY LecParts DEF Linked
<1>2. s.devs[d].link # 0 => s.links[s.devs[d].link].st \in {"up", "lost"}
  BY <1>1 DEF DeviceInv, Reached
<1>3. PICK h : h = s.devs[d].link
  OBVIOUS
<1>4. QED
  BY <1>1, <1>2, <1>3, HangupKeeps

-----------------------------------------------------------------------------
(* An attempt that starts *)

\* device_for_addr: the device known under the address, or a new one
LEMMA DeviceIsFound ==
    ASSUME NEW s, Linked(s), NEW a \in Addr, Len(s.devs) < MaxDevices,
           NEW D, D = DeviceForAddr(s, a)[1], NEW id, id = DeviceForAddr(s, a)[2]
    PROVE  /\ D \in Seq(DeviceType) /\ Len(D) \in {Len(s.devs), Len(s.devs) + 1} /\ Len(D) <= MaxDevices
           /\ \A e \in Ids(s) : D[e] = s.devs[e]
           /\ id \in 1..Len(D) /\ D[id].addr[1] = a[1]
           /\ \A e \in 1..Len(D) : e \notin Ids(s) =>
                 /\ D[e].link = 0 /\ Nothing(D[e]) /\ D[e].peerAddr[1] = D[e].addr[1] /\ D[e].attempts = 0
                 /\ \A f \in Ids(s) : s.devs[f].addr # D[e].addr
<1> DEFINE known == a \in s.resolved
           key == IF known THEN <<a[1], "id">> ELSE a
           found == {d \in DOMAIN s.devs : s.devs[d].addr = key \/ s.devs[d].peerAddr = a}
           v == Device(key, a, known)
<1>1. /\ LecTypes(s) /\ s.devs \in Seq(DeviceType) /\ Len(s.devs) \in Nat /\ DOMAIN s.devs = Ids(s)
      /\ Ids(s) = 1..Len(s.devs) /\ MaxDevices \in Nat
  BY LecParts, LeConnectConstants DEF Linked, Ids, MaxDevices
<1>2. key \in Addr /\ key[1] = a[1]
  <2>1. a[1] \in Peer /\ <<a[1], "id">> \in Addr
    BY DEF Addr
  <2>2. QED
    BY <2>1
<1>3. CASE found # {}
  <2>1. D = s.devs /\ id = Min(found)
    BY <1>3 DEF DeviceForAddr
  <2>2. found \subseteq Ids(s)
    BY <1>1
  <2>3. Min(found) \in found /\ Min(found) \in Ids(s)
    BY <1>1, <1>3, <2>2, FirstDevice
  <2>4. s.devs[id].addr = key \/ s.devs[id].peerAddr = a
    BY <2>1, <2>3
  <2>5. DeviceInv(s, id)
    BY <2>1, <2>3 DEF Linked
  <2> HIDE DEF found, key
  <2>6. s.devs[id].addr[1] = a[1]
    BY <1>2, <2>4, <2>5 DEF DeviceInv
  <2>7. QED
    BY <1>1, <2>1, <2>3, <2>6
<1>4. CASE found = {}
  <2>1. D = Append(s.devs, v) /\ id = Len(s.devs) + 1
    BY <1>4 DEF DeviceForAddr
  <2>2. /\ v \in DeviceType /\ v.addr = key /\ v.peerAddr = a /\ v.link = 0 /\ Nothing(v) /\ v.attempts = 0
    <3>1. 0 \in 0..MaxLinks
      BY LeConnectConstants
    <3>2. known \in BOOLEAN
      OBVIOUS
    <3> HIDE DEF key, known
    <3>3. QED
      BY <1>2, <3>1, <3>2 DEF Device, DeviceType, Nothing
  <2>3. \A f \in Ids(s) : s.devs[f].addr # key
    BY <1>1, <1>4
  <2> HIDE DEF found, key, v
  <2>4. /\ D \in Seq(DeviceType) /\ Len(D) = Len(s.devs) + 1 /\ D[Len(s.devs) + 1] = v
        /\ \A e \in 1..Len(s.devs) : D[e] = s.devs[e]
    BY <1>1, <2>1, <2>2, AppendProperties
  <2>5. \A e \in 1..Len(D) : e \notin Ids(s) => e = Len(s.devs) + 1
    BY <1>1, <2>4
  <2>6. QED
    BY <1>1, <1>2, <2>1, <2>2, <2>3, <2>4, <2>5
<1>5. QED
  BY <1>3, <1>4

\* New devices, and an attempt that begins: t is s with devices D, of which d
\* is as found but for its attempts
Starts(s, t, D, d) ==
    /\ s.att = 0 /\ t.links = s.links /\ t.twice = s.twice /\ t.att \in {0, d}
    /\ Len(t.devs) = Len(D) /\ \A e \in 1..Len(D) : e # d => t.devs[e] = D[e]
    /\ LET v == t.devs[d]
       IN  /\ v.addr = D[d].addr /\ v.peerAddr = D[d].peerAddr /\ v.link = D[d].link
           /\ v.enc = D[d].enc /\ v.pairing = D[d].pairing /\ v.secured = D[d].secured /\ v.ready = D[d].ready
           /\ v.attempts = D[d].attempts \/ (v.link = 0 /\ v.attempts = 0)
           /\ t.att = d => /\ t.tgt[1] = v.addr[1] /\ ~v.ready
                           /\ v.link = 0 => v.attempts = 0 /\ \E pg \in t.pages : pg.addr = t.tgt

\* A start of an attempt keeps the invariant
LEMMA StartsKeeps ==
    ASSUME NEW s, Linked(s), NEW D, Len(D) \in Nat, Len(s.devs) <= Len(D),
           \A e \in Ids(s) : D[e] = s.devs[e],
           \A e \in 1..Len(D) : e \notin Ids(s) =>
                 /\ D[e].link = 0 /\ Nothing(D[e]) /\ D[e].peerAddr[1] = D[e].addr[1] /\ D[e].attempts = 0
                 /\ \A f \in Ids(s) : s.devs[f].addr # D[e].addr,
           Len(D) <= Len(s.devs) + 1,
           NEW d \in 1..Len(D), NEW t, LecTypes(t), Starts(s, t, D, d)
    PROVE  Linked(t)
<1> USE DEF Starts
<1>0. /\ Ids(t) = 1..Len(D) /\ LecTypes(s) /\ Ids(s) \subseteq Ids(t) /\ Len(s.devs) \in Nat /\ d # 0
      /\ Ids(s) = 1..Len(s.devs)
  <2>1. Len(s.devs) \in Nat /\ LecTypes(s)
    BY LecParts DEF Linked
  <2>2. QED
    BY <2>1 DEF Ids
<1>1. \A e \in Ids(t) : /\ t.devs[e].addr = D[e].addr /\ t.devs[e].peerAddr = D[e].peerAddr
                        /\ t.devs[e].link = D[e].link /\ t.devs[e].enc = D[e].enc
                        /\ t.devs[e].pairing = D[e].pairing /\ t.devs[e].secured = D[e].secured
                        /\ t.devs[e].ready = D[e].ready
                        /\ t.devs[e].attempts = D[e].attempts \/ (D[e].link = 0 /\ t.devs[e].attempts = 0)
  BY <1>0
<1>2. \A e \in Ids(t) : e \in Ids(s) \/ (e = Len(s.devs) + 1 /\ e \notin Ids(s))
  BY <1>0
<1>3. \A e \in Ids(t) : DeviceInv(t, e)
  <2>1. SUFFICES ASSUME NEW e \in Ids(t) PROVE DeviceInv(t, e)
    OBVIOUS
  <2>2. CASE e \in Ids(s)
    <3>1. DeviceInv(s, e) /\ D[e] = s.devs[e] /\ e # 0
      BY <2>2, LecParts DEF Linked
    <3>0. /\ t.devs[e].addr = s.devs[e].addr /\ t.devs[e].peerAddr = s.devs[e].peerAddr
          /\ t.devs[e].link = s.devs[e].link /\ t.devs[e].enc = s.devs[e].enc
          /\ t.devs[e].pairing = s.devs[e].pairing /\ t.devs[e].secured = s.devs[e].secured
          /\ t.devs[e].ready = s.devs[e].ready
          /\ t.devs[e].attempts = s.devs[e].attempts \/ (s.devs[e].link = 0 /\ t.devs[e].attempts = 0)
      BY <1>1, <3>1
    <3>2. CASE s.devs[e].link = 0
      <4> HIDE DEF Starts
      <4>1. QED
        BY <3>0, <3>1, <3>2 DEF DeviceInv, Nothing
    <3>3. CASE s.devs[e].link # 0
      <4>1. Reached(t.devs[e], s.links[s.devs[e].link])
        <5> HIDE DEF Starts
        <5>1. Reached(s.devs[e], s.links[s.devs[e].link])
          BY <3>1, <3>3 DEF DeviceInv
        <5>2. QED
          BY <3>0, <3>3, <5>1 DEF Reached
      <4>2. s.links[s.devs[e].link].closing \/ s.devs[e].ready
        BY <3>1, <3>3 DEF DeviceInv
      <4>3. /\ t.devs[e].link = s.devs[e].link /\ t.devs[e].peerAddr = s.devs[e].peerAddr
            /\ t.devs[e].addr = s.devs[e].addr /\ t.devs[e].ready = s.devs[e].ready
        BY <1>1, <3>1
      <4>4. s.devs[e].peerAddr[1] = s.devs[e].addr[1]
        BY <3>1 DEF DeviceInv
      <4>5. t.devs[e].peerAddr[1] = t.devs[e].addr[1]
        BY <4>3, <4>4
      <4>6. t.links[t.devs[e].link] = s.links[s.devs[e].link] /\ t.devs[e].link # 0
        BY <3>3, <4>3
      <4>7. t.links[t.devs[e].link].closing \/ t.devs[e].ready
        BY <4>2, <4>3, <4>6
      <4> HIDE DEF Starts
      <4>8. QED
        BY <4>1, <4>5, <4>6, <4>7 DEF DeviceInv
    <3>4. QED
      BY <3>2, <3>3
  <2>3. CASE e \notin Ids(s)
    BY <1>0, <1>1, <2>3 DEF DeviceInv, Nothing
  <2>4. QED
    BY <2>2, <2>3
<1>4. \A g \in Handle : LinkInv(t, g)
  <2>1. SUFFICES ASSUME NEW g \in Handle PROVE LinkInv(t, g)
    OBVIOUS
  <2>2. LinkInv(s, g)
    BY DEF Linked
  <2>3. \A e \in Ids(s) : t.devs[e].link = s.devs[e].link /\ (t.devs[e].secured <=> s.devs[e].secured)
    BY <1>0, <1>1
  <2>4. t.links[g] = s.links[g]
    OBVIOUS
  <2> HIDE DEF Starts
  <2>5. QED
    BY <1>0, <2>2, <2>3, <2>4 DEF LinkInv
<1>5. AttemptInv(t)
  <2>1. SUFFICES ASSUME t.att = d PROVE AttemptInv(t)
    BY DEF AttemptInv
  <2>2. t.devs[d].link # 0 => t.links[t.devs[d].link].closing
    <3>1. CASE d \in Ids(s)
      <4>1. DeviceInv(s, d) /\ D[d] = s.devs[d]
        BY <3>1 DEF Linked
      <4>2. QED
        BY <1>0, <2>1, <4>1 DEF DeviceInv
    <3>2. CASE d \notin Ids(s)
      BY <3>2
    <3>3. QED
      BY <3>1, <3>2
  <2>3. QED
    BY <2>1, <2>2 DEF AttemptInv, Waits
<1>6. OneOwner(t)
  <2>1. \A e \in Ids(t) : t.devs[e].link # 0 => e \in Ids(s) /\ t.devs[e].link = s.devs[e].link
    BY <1>0, <1>1
  <2>2. QED
    BY <2>1 DEF OneOwner, Linked
<1>7. OneIdentity(t)
  <2>1. \A e \in Ids(s) : t.devs[e].addr = s.devs[e].addr
    BY <1>0, <1>1
  <2>2. \A e \in Ids(t) : e \notin Ids(s) => \A f \in Ids(s) : s.devs[f].addr # t.devs[e].addr
    BY <1>0, <1>1
  <2>3. OneIdentity(s) /\ t.twice = s.twice
    BY DEF Linked
  <2> HIDE DEF Starts
  <2>4. SUFFICES ASSUME ~t.twice, NEW e \in Ids(t), NEW f \in Ids(t), t.devs[e].addr[2] = "id",
                        t.devs[e].addr = t.devs[f].addr
                 PROVE  e = f
    BY DEF OneIdentity
  <2>5. CASE e \in Ids(s) /\ f \in Ids(s)
    BY <2>1, <2>3, <2>4, <2>5 DEF OneIdentity
  <2>6. CASE e \notin Ids(s) /\ f \in Ids(s)
    BY <2>1, <2>2, <2>4, <2>6
  <2>7. CASE e \in Ids(s) /\ f \notin Ids(s)
    BY <2>1, <2>2, <2>4, <2>7
  <2>8. CASE e \notin Ids(s) /\ f \notin Ids(s)
    BY <1>2, <2>8
  <2>9. QED
    BY <2>5, <2>6, <2>7, <2>8
<1>8. QED
  BY <1>3, <1>4, <1>5, <1>6, <1>7 DEF Linked

\* start_connect: what the attempt and the jobs need of it
Started(s, t, a, live) ==
    /\ Len(t.devs) \in {Len(s.devs), Len(s.devs) + 1} /\ \A e \in Ids(s) : t.devs[e].addr = s.devs[e].addr
    /\ s.att # 0 => t.att = s.att /\ t.live = s.live
    /\ s.att = 0 => t.live = live /\ (t.att # 0 => t.devs[t.att].addr[1] = a[1])
    /\ t.res # s.res => live
    /\ t.res = "ok" /\ s.res # "ok" => /\ t.att = 0 /\ t.resId # 0 /\ t.devs[t.resId].ready
                                     /\ t.devs[t.resId].addr[1] = a[1]

\* connect_on_btstack_thread keeps the invariant, and what it answers is of the
\* device it was asked for
LEMMA StartConnectKeeps ==
    ASSUME NEW s0, Linked(s0), NEW a \in Addr, NEW live \in BOOLEAN, NEW fresh \in BOOLEAN,
           NEW accepted \in BOOLEAN, Len(s0.devs) < MaxDevices, current \in [Peer -> Rpas],
           NEW t, t = StartConnect(s0, a, live, fresh, accepted)
    PROVE  Linked(t) /\ Started(s0, t, a, live)
<1>1. PICK D : D = DeviceForAddr(s0, a)[1]
  OBVIOUS
<1>2. PICK id : id = DeviceForAddr(s0, a)[2]
  OBVIOUS
<1> DEFINE new == {e \in 1..Len(D) : e \notin Ids(s0)}
<1>3. /\ D \in Seq(DeviceType) /\ Len(D) \in {Len(s0.devs), Len(s0.devs) + 1} /\ Len(D) <= MaxDevices
      /\ \A e \in Ids(s0) : D[e] = s0.devs[e]
      /\ id \in 1..Len(D) /\ D[id].addr[1] = a[1]
      /\ \A e \in 1..Len(D) : e \notin Ids(s0) =>
            /\ D[e].link = 0 /\ Nothing(D[e]) /\ D[e].peerAddr[1] = D[e].addr[1] /\ D[e].attempts = 0
            /\ \A f \in Ids(s0) : s0.devs[f].addr # D[e].addr
  BY <1>1, <1>2, DeviceIsFound
<1> DEFINE s == [s0 EXCEPT !.devs = D, !.resId = id, !.live = live]
           d == D[id]
           rpa == <<d.addr[1], current[d.addr[1]]>>
           target == IF fresh /\ rpa \in s0.resolved /\ d.addr[2] = "id" THEN rpa ELSE a
           n == [s EXCEPT !.devs[id].attempts = 0]
           pages == s0.pages \cup {[addr |-> target, cancelled |-> FALSE]}
<1>4. /\ LecTypes(s0) /\ s0 \in LecType /\ 0 \in 0..MaxDevices /\ id \in 0..MaxDevices /\ id # 0
      /\ Len(D) \in Nat /\ Len(s0.devs) \in Nat /\ Ids(s0) = 1..Len(s0.devs) /\ Ids(s0) \subseteq 1..Len(D)
      /\ d \in DeviceType
  <2>1. LecTypes(s0) /\ s0 \in LecType /\ Len(s0.devs) \in Nat /\ Len(D) \in Nat /\ MaxDevices \in Nat
    BY <1>3, LecParts, LeConnectConstants, LenProperties DEF Linked, LecTypes, MaxDevices
  <2>2. d \in DeviceType
    BY <1>3, ElementOfSeq
  <2>3. QED
    BY <1>3, <2>1, <2>2 DEF Ids
<1>5. target \in Addr /\ target[1] = d.addr[1]
  <2>1. d.addr \in Peer \X (Rpas \cup {"id"})
    BY <1>4 DEF DeviceType, Addr
  <2>2. rpa \in Addr /\ rpa[1] = d.addr[1]
    BY <2>1 DEF Addr
  <2> HIDE DEF rpa
  <2>3. QED
    BY <1>3, <2>2
<1>6. /\ s \in LecType /\ s.devs = D /\ s.att = s0.att /\ s.tgt = s0.tgt /\ s.live = live /\ s.res = s0.res
      /\ s.resId = id /\ s.resolved = s0.resolved /\ s.pages = s0.pages /\ s.links = s0.links
      /\ s.twice = s0.twice
  BY <1>3, <1>4 DEF LecType
<1>7. t = CASE s0.att # 0 -> IF live THEN [[s0 EXCEPT !.resId = 0] EXCEPT !.res = "no"]
                             ELSE [s0 EXCEPT !.resId = 0]
            [] s0.att = 0 /\ d.link # 0 /\ d.ready -> IF live THEN [s EXCEPT !.res = "ok"] ELSE s
            [] s0.att = 0 /\ d.link # 0 /\ ~d.ready -> [s EXCEPT !.att = id, !.tgt = target]
            [] OTHER -> IF accepted
                        THEN [n EXCEPT !.att = id, !.tgt = target, !.pages = pages]
                        ELSE IF live THEN [n EXCEPT !.res = "no"] ELSE n
  BY <1>1, <1>2, <1>6 DEF StartConnect
<1>8. pages \in SUBSET [addr : Addr, cancelled : BOOLEAN] /\ \E pg \in pages : pg.addr = target
  <2>1. [addr |-> target, cancelled |-> FALSE] \in [addr : Addr, cancelled : BOOLEAN]
    BY <1>5
  <2>2. s0.pages \in SUBSET [addr : Addr, cancelled : BOOLEAN]
    BY <1>4 DEF LecType
  <2>3. [addr |-> target, cancelled |-> FALSE].addr = target
    OBVIOUS
  <2> HIDE DEF target
  <2>4. QED
    BY <2>1, <2>2, <2>3
<1>9. CASE s0.att # 0
  <2>1. t = IF live THEN [[s0 EXCEPT !.resId = 0] EXCEPT !.res = "no"] ELSE [s0 EXCEPT !.resId = 0]
    BY <1>7, <1>9
  <2>2. /\ t \in LecType /\ t.devs = s0.devs /\ t.att = s0.att /\ t.tgt = s0.tgt /\ t.live = s0.live
        /\ t.resId = 0 /\ t.pages = s0.pages /\ t.links = s0.links /\ t.twice = s0.twice
        /\ t.res = s0.res \/ (live /\ t.res = "no")
    BY <1>4, <2>1 DEF LecType
  <2>3. LecTypes(t)
    BY <1>4, <2>2 DEF LecTypes
  <2>4. Linked(t)
    BY <2>2, <2>3, SameKeeps
  <2>5. QED
    BY <1>9, <2>2, <2>4 DEF Started
<1> DEFINE x == [D[id] EXCEPT !.attempts = 0]
           E == [D EXCEPT ![id] = x]
<1> HIDE DEF d, target, pages
<1>10. ASSUME s0.att = 0, LecTypes(t), Starts(s0, t, D, id) PROVE Linked(t)
  <2>1. Len(s0.devs) <= Len(D) /\ Len(D) <= Len(s0.devs) + 1
    BY <1>3, <1>4
  <2>2. QED
    BY <1>3, <1>4, <1>10, <2>1, StartsKeeps
<1>11. CASE s0.att = 0 /\ d.link # 0 /\ d.ready
  <2>1. t = IF live THEN [s EXCEPT !.res = "ok"] ELSE s
    BY <1>7, <1>11
  <2> HIDE DEF s
  <2>2. /\ t \in LecType /\ t.devs = D /\ t.att = 0 /\ t.live = live /\ t.resId = id
        /\ t.links = s0.links /\ t.twice = s0.twice /\ (t.res = s0.res \/ live)
    BY <1>4, <1>6, <1>11, <2>1 DEF LecType
  <2>3. LecTypes(t)
    BY <1>3, <1>4, <2>2 DEF LecTypes
  <2>4. Starts(s0, t, D, id)
    BY <1>4, <1>11, <2>2 DEF Starts
  <2>5. QED
    BY <1>3, <1>4, <1>10, <1>11, <2>2, <2>3, <2>4 DEF Started, d
<1>12. CASE s0.att = 0 /\ d.link # 0 /\ ~d.ready
  <2>1. t = [s EXCEPT !.att = id, !.tgt = target]
    BY <1>7, <1>12
  <2> HIDE DEF s
  <2>2. /\ t \in LecType /\ t.devs = D /\ t.att = id /\ t.tgt = target /\ t.live = live /\ t.resId = id
        /\ t.links = s0.links /\ t.twice = s0.twice /\ t.res = s0.res
    BY <1>4, <1>5, <1>6, <1>12, <2>1 DEF LecType
  <2>3. LecTypes(t)
    BY <1>3, <1>4, <2>2 DEF LecTypes
  <2>4. Starts(s0, t, D, id)
    BY <1>4, <1>5, <1>12, <2>2 DEF Starts, d
  <2>5. QED
    BY <1>3, <1>4, <1>10, <1>12, <2>2, <2>3, <2>4 DEF Started, d
<1>13. CASE s0.att = 0 /\ d.link = 0
  <2>1. /\ x \in DeviceType /\ x.addr = d.addr /\ x.peerAddr = d.peerAddr /\ x.link = d.link /\ x.enc = d.enc
        /\ x.pairing = d.pairing /\ x.secured = d.secured /\ x.ready = d.ready /\ x.attempts = 0
    BY <1>4 DEF DeviceType, d
  <2>2. n = [s EXCEPT !.devs = E]
    BY <1>6
  <2> HIDE DEF x, s
  <2>3. /\ E \in Seq(DeviceType) /\ Len(E) = Len(D) /\ E[id] = x /\ \A e \in 1..Len(D) : e # id => E[e] = D[e]
    BY <1>3, <1>4, <2>1, ExceptSeq
  <2>4. ~d.ready
    <3>1. CASE id \in Ids(s0)
      <4>1. DeviceInv(s0, id) /\ D[id] = s0.devs[id]
        BY <1>3, <3>1 DEF Linked
      <4>2. QED
        BY <1>13, <4>1 DEF DeviceInv, Nothing, d
    <3>2. CASE id \notin Ids(s0)
      BY <1>3, <3>2 DEF Nothing, d
    <3>3. QED
      BY <3>1, <3>2
  <2> HIDE DEF E
  <2>5. /\ n \in LecType /\ n.devs = E /\ n.att = 0 /\ n.live = live /\ n.res = s0.res /\ n.resId = id
        /\ n.links = s0.links /\ n.twice = s0.twice
    BY <1>4, <1>6, <1>13, <2>2, <2>3 DEF LecType
  <2>6. t = IF accepted THEN [n EXCEPT !.att = id, !.tgt = target, !.pages = pages]
            ELSE IF live THEN [n EXCEPT !.res = "no"] ELSE n
    BY <1>7, <1>13
  <2> HIDE DEF n
  <2>7. /\ t \in LecType /\ t.devs = E /\ t.live = live /\ t.resId = id /\ t.links = s0.links /\ t.twice = s0.twice
        /\ t.res = s0.res \/ (live /\ t.res = "no")
        /\ t.att = 0 \/ (t.att = id /\ t.tgt = target /\ t.pages = pages)
    <3>1. CASE accepted
      <4>1. t = [n EXCEPT !.att = id, !.tgt = target, !.pages = pages]
        BY <2>6, <3>1 DEF n
      <4>2. QED
        BY <1>4, <1>5, <1>8, <2>5, <4>1 DEF LecType
    <3>2. CASE ~accepted
      <4>1. t = IF live THEN [n EXCEPT !.res = "no"] ELSE n
        BY <2>6, <3>2
      <4>2. QED
        BY <2>5, <4>1 DEF LecType
    <3>3. QED
      BY <3>1, <3>2
  <2>8. LecTypes(t)
    BY <1>3, <1>4, <2>3, <2>7 DEF LecTypes
  <2>9. Starts(s0, t, D, id)
    BY <1>4, <1>5, <1>8, <1>13, <2>1, <2>3, <2>4, <2>7 DEF Starts, d
  <2>10. Linked(t)
    BY <1>10, <1>13, <2>8, <2>9
  <2>11. \A e \in Ids(s0) : t.devs[e].addr = s0.devs[e].addr
    BY <1>3, <1>4, <2>1, <2>3, <2>7 DEF d
  <2>12. t.att # 0 => t.devs[t.att].addr[1] = a[1]
    BY <1>3, <1>4, <2>1, <2>3, <2>7 DEF d
  <2>13. QED
    BY <1>3, <1>13, <2>3, <2>7, <2>10, <2>11, <2>12 DEF Started
<1>14. QED
  BY <1>9, <1>11, <1>12, <1>13

-----------------------------------------------------------------------------
(* The worker, its jobs and who waits *)

\* The posted connects: each may bring a device of its own
Connecting(q) == {i \in 1..Len(q) : q[i][1] = "connect"}

\* Every device was asked for by a connect of its own
CountInv == Len(lec.devs) + Cardinality(Connecting(lecJobs)) <= connects

\* Who waits, for what: an answer is for the attempt the worker posted last
AskInv ==
    /\ lec.live /\ lec.att # 0 =>
          lew # <<>> /\ lecJobs = <<>> /\ lec.devs[lec.att].addr[1] = lew[1][1]
    /\ lec.res # "none" => lew # <<>> /\ lecJobs = <<>>
    /\ lec.res = "ok" =>
          lec.att = 0 /\ lec.resId # 0 /\ lec.devs[lec.resId].addr = <<lew[1][1], "id">>
    /\ \A i \in 1..Len(lecJobs) : lecJobs[i][3] => lew # <<>> /\ i = Len(lecJobs)
    /\ lew # <<>> /\ lecJobs # <<>> => lecJobs[Len(lecJobs)] = <<"connect", lew[1], TRUE>>

\* An id the worker was told is a device of that peer, known by its identity
GivenInv == \A p \in Peer : \A d \in given[p] : d \in Ids(lec) /\ lec.devs[d].addr = <<p, "id">>

\* The types of the worker, of its jobs and of the peers
RestTypes ==
    /\ lecJobs \in Seq(LeJobs)
    /\ \A i \in 1..Len(lecJobs) : lecJobs[i][1] = "disconnect" => lecJobs[i][2] <= Len(lec.devs)
    /\ current \in [Peer -> Rpas] /\ bonds \subseteq Peer /\ theirs \subseteq Peer
    /\ given \in [Peer -> SUBSET (1..MaxDevices)]
    /\ connects \in 0..MaxConnects /\ troubles \in 0..MaxTroubles
    /\ lew \in {<<>>} \cup {<<a>> : a \in Addr}

\* The inductive invariant of the LE connections
LinksInv == RestTypes /\ Linked(lec) /\ CountInv /\ AskInv /\ GivenInv

\* The jobs and the connects among them
LEMMA JobsTyped ==
    ASSUME NEW q \in Seq(LeJobs)
    PROVE  /\ Len(q) \in Nat /\ DOMAIN q = 1..Len(q)
           /\ IsFiniteSet(Connecting(q)) /\ Cardinality(Connecting(q)) \in Nat
           /\ \A i \in 1..Len(q) : q[i] \in LeJobs
<1>1. Len(q) \in Nat /\ DOMAIN q = 1..Len(q) /\ \A i \in 1..Len(q) : q[i] \in LeJobs
  BY LenProperties, ElementOfSeq
<1>2. IsFiniteSet(1..Len(q))
  BY <1>1, FS_Interval
<1>3. Connecting(q) \in SUBSET (1..Len(q))
  BY DEF Connecting
<1>4. IsFiniteSet(Connecting(q))
  BY <1>2, <1>3, FS_Subset
<1>5. QED
  BY <1>1, <1>4, FS_CardinalityType

\* A job taken, posted, or no longer waited for
LEMMA ConnectsTaken ==
    ASSUME NEW q \in Seq(LeJobs), q # <<>>
    PROVE  /\ Cardinality(Connecting(Tail(q))) <= Cardinality(Connecting(q))
           /\ Head(q)[1] = "connect" =>
                 Cardinality(Connecting(Tail(q))) + 1 <= Cardinality(Connecting(q))
<1> DEFINE S == Connecting(Tail(q))
           T == Connecting(q) \ {1}
           f == [i \in S |-> i + 1]
<1>1. /\ Tail(q) \in Seq(LeJobs) /\ Len(Tail(q)) = Len(q) - 1 /\ Len(q) \in Nat \ {0}
      /\ \A i \in 1..Len(Tail(q)) : Tail(q)[i] = q[i+1]
  BY HeadTailProperties, LenProperties, EmptySeq
<1>2. Head(q) = q[1]
  BY <1>1, HeadTailProperties
<1>3. IsFiniteSet(Connecting(q)) /\ Cardinality(Connecting(q)) \in Nat
  BY JobsTyped
<1>4. IsFiniteSet(T) /\ Cardinality(T) = IF 1 \in Connecting(q) THEN Cardinality(Connecting(q)) - 1
                                         ELSE Cardinality(Connecting(q))
  BY <1>3, FS_RemoveElement
<1>5. 1 \in Connecting(q) <=> Head(q)[1] = "connect"
  BY <1>1, <1>2 DEF Connecting
<1>6. f \in [S -> T] /\ \A i, j \in S : f[i] = f[j] => i = j
  <2>1. \A i \in S : i \in Nat /\ i # 0 /\ i + 1 \in T /\ i + 1 # 1
    BY <1>1 DEF Connecting
  <2>2. QED
    BY <2>1
<1>7. f \in Injection(S, T)
  BY <1>6 DEF Injection, IsInjective
<1>8. Cardinality(S) <= Cardinality(T) /\ IsFiniteSet(S)
  <2> HIDE DEF f, S, T
  <2>1. QED
    BY <1>4, <1>7, FS_Injection
<1>9. Cardinality(S) \in Nat
  BY <1>8, FS_CardinalityType
<1> HIDE DEF S, T
<1>10. QED
  BY <1>3, <1>4, <1>5, <1>8, <1>9 DEF S

\* A posted job is one more connect, or none
LEMMA ConnectsPosted ==
    ASSUME NEW q \in Seq(LeJobs), NEW j \in LeJobs
    PROVE  /\ Cardinality(Connecting(Append(q, j))) <= Cardinality(Connecting(q)) + 1
           /\ j[1] # "connect" => Cardinality(Connecting(Append(q, j))) <= Cardinality(Connecting(q))
<1> DEFINE m == Len(q) + 1
           C == Connecting(q)
<1>1. /\ Append(q, j) \in Seq(LeJobs) /\ Len(Append(q, j)) = m /\ Len(q) \in Nat /\ Append(q, j)[m] = j
      /\ \A i \in 1..Len(q) : Append(q, j)[i] = q[i]
  BY AppendProperties, LenProperties
<1>2. IsFiniteSet(C) /\ Cardinality(C) \in Nat
  BY JobsTyped
<1>3. IsFiniteSet(C \cup {m}) /\ Cardinality(C \cup {m}) <= Cardinality(C) + 1
  <2> HIDE DEF C, m
  <2>1. /\ IsFiniteSet(C \cup {m})
        /\ Cardinality(C \cup {m}) = IF m \in C THEN Cardinality(C) ELSE Cardinality(C) + 1
    BY <1>2, FS_AddElement
  <2>2. QED
    BY <1>2, <2>1
<1>4. Connecting(Append(q, j)) \in SUBSET (IF j[1] = "connect" THEN C \cup {m} ELSE C)
  BY <1>1 DEF Connecting
<1>5. CASE j[1] = "connect"
  <2>1. Cardinality(Connecting(Append(q, j))) <= Cardinality(C \cup {m})
    BY <1>3, <1>4, <1>5, FS_Subset
  <2>2. Cardinality(C \cup {m}) \in Nat /\ Cardinality(Connecting(Append(q, j))) \in Nat
    BY <1>1, <1>3, FS_CardinalityType, JobsTyped
  <2> HIDE DEF C, m
  <2>3. QED
    BY <1>2, <1>3, <1>5, <2>1, <2>2 DEF C
<1>6. CASE j[1] # "connect"
  <2>1. Cardinality(Connecting(Append(q, j))) <= Cardinality(C)
    BY <1>2, <1>4, <1>6, FS_Subset
  <2>2. Cardinality(Connecting(Append(q, j))) \in Nat
    BY <1>1, JobsTyped
  <2> HIDE DEF C, m
  <2>3. QED
    BY <1>2, <1>6, <2>1, <2>2 DEF C
<1>7. QED
  BY <1>5, <1>6

\* The events: what they keep of the attempt and the names keeps the rest
LEMMA EventKeeps ==
    ASSUME LinksInv, Linked(lec'), Moves(lec, lec'),
           UNCHANGED <<lecJobs, lew, given, connects>>,
           current' \in [Peer -> Rpas], bonds' \subseteq Peer, theirs' \subseteq Peer,
           troubles' \in 0..MaxTroubles
    PROVE  LinksInv'
<1>0. Len(lec'.devs) = Len(lec.devs) /\ Ids(lec)' = Ids(lec)
  BY DEF Moves, Ids
<1>1. RestTypes'
  BY <1>0 DEF LinksInv, RestTypes
<1>2. CountInv'
  BY <1>0 DEF LinksInv, CountInv
<1>3. GivenInv'
  <2>1. SUFFICES ASSUME NEW p \in Peer, NEW d \in given[p]
                 PROVE  d \in Ids(lec) /\ lec'.devs[d].addr = <<p, "id">>
    BY <1>0 DEF GivenInv
  <2>2. d \in Ids(lec) /\ lec.devs[d].addr = <<p, "id">>
    BY DEF LinksInv, GivenInv
  <2>3. lec.devs[d].addr[2] = "id"
    BY <2>2
  <2>4. lec'.devs[d].addr = lec.devs[d].addr
    BY <2>2, <2>3 DEF Moves
  <2>5. QED
    BY <2>2, <2>4
<1>4. AskInv'
  <2>0. AskInv /\ LecTypes(lec) /\ LecTypes(lec') /\ (lec.att # 0 => lec.att \in Ids(lec))
        /\ (lec.resId # 0 => lec.resId \in Ids(lec))
    BY LecParts DEF LinksInv, Linked
  <2>1. lec'.live /\ lec'.att # 0 =>
          lew # <<>> /\ lecJobs = <<>> /\ lec'.devs[lec'.att].addr[1] = lew[1][1]
    BY <2>0 DEF AskInv, Moves
  <2>2. lec'.res # "none" => lew # <<>> /\ lecJobs = <<>>
    BY <2>0 DEF AskInv, Moves
  <2>3. ASSUME lec'.res = "ok"
        PROVE  lec'.att = 0 /\ lec'.resId # 0 /\ lec'.devs[lec'.resId].addr = <<lew[1][1], "id">>
    <3>1. CASE lec.res = "ok"
      <4>1. lec.att = 0 /\ lec.resId # 0 /\ lec.devs[lec.resId].addr = <<lew[1][1], "id">>
        BY <2>0, <3>1 DEF AskInv
      <4>2. lec'.att = 0 /\ lec'.resId = lec.resId
        BY <4>1 DEF Moves
      <4>3. lec.devs[lec.resId].addr[2] = "id"
        BY <4>1
      <4>4. lec'.devs[lec.resId].addr = lec.devs[lec.resId].addr
        BY <2>0, <4>1, <4>3 DEF Moves
      <4>5. QED
        BY <4>1, <4>2, <4>4
    <3>2. CASE lec.res # "ok"
      <4>1. lec.live /\ lec.att # 0 /\ lec'.att = 0 /\ lec'.resId = lec.att /\ lec'.devs[lec.att].ready
        BY <2>3, <3>2 DEF Moves
      <4>2. lec.devs[lec.att].addr[1] = lew[1][1] /\ lec'.devs[lec.att].addr[1] = lec.devs[lec.att].addr[1]
        BY <2>0, <4>1 DEF AskInv, Moves
      <4>3. DeviceInv(lec', lec.att)
        BY <1>0, <2>0, <4>1 DEF Linked, Ids
      <4>4. lec'.devs[lec.att].addr = <<lec'.devs[lec.att].addr[1], "id">>
        BY <4>1, <4>3 DEF DeviceInv, Reached, Nothing
      <4>5. QED
        BY <4>1, <4>2, <4>4
    <3>3. QED
      BY <3>1, <3>2
  <2>4. QED
    BY <2>0, <2>1, <2>2, <2>3 DEF AskInv
<1>5. QED
  BY <1>1, <1>2, <1>3, <1>4 DEF LinksInv

-----------------------------------------------------------------------------
(* The jobs *)

\* A device set up on its link is known by its identity
LEMMA ReadyIsNamed ==
    ASSUME NEW s, Linked(s), NEW d \in Ids(s), s.devs[d].ready
    PROVE  /\ s.devs[d].addr = <<s.devs[d].addr[1], "id">> /\ s.devs[d].link # 0
           /\ s.links[s.devs[d].link].peer = s.devs[d].addr[1]
BY DEF Linked, DeviceInv, Reached, Nothing

\* What a job is
LEMMA JobIs ==
    ASSUME NEW j \in LeJobs
    PROVE  /\ j[3] \in BOOLEAN /\ (j[1] = "connect" => j[2] \in Addr)
           /\ (j[1] = "disconnect" => j[2] \in 1..MaxDevices)
<1>1. CASE j \in {"connect"} \X Addr \X BOOLEAN
  <2>1. PICK a \in Addr, b \in BOOLEAN : j = <<"connect", a, b>>
    BY <1>1
  <2>2. QED
    BY <2>1
<1>2. CASE j = <<"abandon", 0, FALSE>>
  BY <1>2
<1>3. CASE j \in {"disconnect"} \X (1..MaxDevices) \X {FALSE}
  <2>1. j[1] = "disconnect" /\ j[2] \in 1..MaxDevices /\ j[3] = FALSE
    BY <1>3
  <2>2. QED
    BY <2>1
<1>4. QED
  BY <1>1, <1>2, <1>3 DEF LeJobs

\* What is known of the job at the front
LEMMA FrontJob ==
    ASSUME LinksInv, lecJobs # <<>>, NEW j, j = Head(lecJobs)
    PROVE  /\ lec.res = "none" /\ ~(lec.live /\ lec.att # 0)
           /\ j \in LeJobs /\ Tail(lecJobs) \in Seq(LeJobs) /\ Len(Tail(lecJobs)) = Len(lecJobs) - 1
           /\ Len(lecJobs) \in Nat \ {0} /\ j = lecJobs[1]
           /\ \A i \in 1..Len(Tail(lecJobs)) : Tail(lecJobs)[i] = lecJobs[i+1]
           /\ j[3] => lew # <<>> /\ Tail(lecJobs) = <<>> /\ (j[1] = "connect" => j[2] = lew[1])
           /\ j[1] = "disconnect" => j[2] \in Ids(lec)
           /\ j[1] = "connect" => j[2] \in Addr /\ j[3] \in BOOLEAN
<1>1. AskInv /\ lecJobs \in Seq(LeJobs)
  BY DEF LinksInv, RestTypes
<1>2. /\ Tail(lecJobs) \in Seq(LeJobs) /\ Len(Tail(lecJobs)) = Len(lecJobs) - 1 /\ Len(lecJobs) \in Nat \ {0}
      /\ j = lecJobs[1] /\ \A i \in 1..Len(Tail(lecJobs)) : Tail(lecJobs)[i] = lecJobs[i+1]
  BY <1>1, HeadTailProperties, LenProperties, EmptySeq
<1>3. j \in LeJobs
  BY <1>1, <1>2, ElementOfSeq
<1>4. lec.res = "none" /\ ~(lec.live /\ lec.att # 0)
  BY <1>1 DEF AskInv
<1>5. j[3] => lew # <<>> /\ 1 = Len(lecJobs)
  <2>1. \A i \in 1..Len(lecJobs) : lecJobs[i][3] => lew # <<>> /\ i = Len(lecJobs)
    BY <1>1 DEF AskInv
  <2>2. 1 \in 1..Len(lecJobs)
    BY <1>2
  <2>3. lecJobs[1][3] => lew # <<>> /\ 1 = Len(lecJobs)
    BY <2>1, <2>2
  <2>4. QED
    BY <1>2, <2>3
<1>6. j[3] => j = <<"connect", lew[1], TRUE>>
  BY <1>1, <1>2, <1>5 DEF AskInv
<1>7. j[3] => Tail(lecJobs) = <<>>
  BY <1>2, <1>5, EmptySeq
<1>8. j[1] = "disconnect" => j[2] \in 1..MaxDevices /\ j[2] <= Len(lec.devs)
  <2>1. j[1] = "disconnect" => j[2] <= Len(lec.devs)
    BY <1>2 DEF LinksInv, RestTypes
  <2>2. j[1] = "disconnect" => j[2] \in 1..MaxDevices
    BY <1>3, JobIs
  <2>3. QED
    BY <2>1, <2>2
<1>9. j[1] = "disconnect" => j[2] \in Ids(lec)
  <2>1. Len(lec.devs) \in Nat /\ MaxDevices \in Nat
    BY LecParts, LeConnectConstants DEF LinksInv, Linked, MaxDevices
  <2>2. QED
    BY <1>8, <2>1 DEF Ids
<1>10. j[1] = "connect" => j[2] \in Addr /\ j[3] \in BOOLEAN
  BY <1>3, JobIs
<1>11. j[3] => (j[1] = "connect" => j[2] = lew[1])
  <2>1. <<"connect", lew[1], TRUE>>[2] = lew[1]
    OBVIOUS
  <2>2. QED
    BY <1>6, <2>1, Zenon
<1>12. QED
  BY <1>2, <1>3, <1>4, <1>5, <1>7, <1>9, <1>10, <1>11

\* What is left of the invariant when job j is done
JobDone(j) ==
    /\ lecJobs # <<>> /\ lecJobs' = Tail(lecJobs) /\ j = Head(lecJobs)
    /\ Len(lec.devs) <= Len(lec'.devs)
    /\ Len(lec'.devs) <= Len(lec.devs) \/ (j[1] = "connect" /\ Len(lec'.devs) <= Len(lec.devs) + 1)
    /\ \A e \in Ids(lec) : lec'.devs[e].addr = lec.devs[e].addr
    /\ lec'.live /\ lec'.att # 0 =>
          lew # <<>> /\ Tail(lecJobs) = <<>> /\ lec'.devs[lec'.att].addr[1] = lew[1][1]
    /\ lec'.res # "none" => lew # <<>> /\ Tail(lecJobs) = <<>>
    /\ lec'.res = "ok" =>
          lec'.att = 0 /\ lec'.resId # 0 /\ lec'.devs[lec'.resId].addr = <<lew[1][1], "id">>
    /\ UNCHANGED <<current, bonds, theirs, lew, given, connects, troubles>>

\* A job taken: what does not depend on what it did to the attempt
LEMMA JobRest ==
    ASSUME LinksInv, Linked(lec'), NEW j, JobDone(j)
    PROVE  LinksInv'
<1>0. /\ lecJobs # <<>> /\ lecJobs' = Tail(lecJobs) /\ j = Head(lecJobs)
      /\ UNCHANGED <<current, bonds, theirs, lew, given, connects, troubles>>
  BY DEF JobDone
<1>1. /\ Tail(lecJobs) \in Seq(LeJobs) /\ Len(Tail(lecJobs)) = Len(lecJobs) - 1
      /\ Len(lecJobs) \in Nat \ {0}
      /\ \A i \in 1..Len(Tail(lecJobs)) : Tail(lecJobs)[i] = lecJobs[i+1]
  BY <1>0, FrontJob
<1>2. Len(lec.devs) \in Nat /\ Len(lec'.devs) \in Nat /\ Len(lec.devs) <= Len(lec'.devs)
  BY LecParts DEF LinksInv, Linked, JobDone
<1>3. RestTypes'
  <2>1. \A i \in 1..Len(Tail(lecJobs)) : Tail(lecJobs)[i][1] = "disconnect" =>
                                            Tail(lecJobs)[i][2] <= Len(lec'.devs)
    <3>1. SUFFICES ASSUME NEW i \in 1..Len(Tail(lecJobs)), Tail(lecJobs)[i][1] = "disconnect"
                   PROVE  Tail(lecJobs)[i][2] <= Len(lec'.devs)
      OBVIOUS
    <3>2. i + 1 \in 1..Len(lecJobs) /\ Tail(lecJobs)[i] = lecJobs[i+1]
      BY <1>1
    <3>3. lecJobs[i+1][2] <= Len(lec.devs)
      BY <3>1, <3>2 DEF LinksInv, RestTypes
    <3>4. lecJobs[i+1] \in LeJobs
      BY <3>2, JobsTyped DEF LinksInv, RestTypes
    <3>5. lecJobs[i+1][2] \in 1..MaxDevices /\ MaxDevices \in Nat
      BY <3>1, <3>2, <3>4, JobIs, LeConnectConstants DEF MaxDevices
    <3>6. PICK x \in Nat : x = lecJobs[i+1][2]
      BY <3>5
    <3>7. QED
      BY <1>2, <3>2, <3>3, <3>6
  <2>2. QED
    BY <1>0, <1>1, <2>1 DEF LinksInv, RestTypes
<1>4. CountInv'
  <2>1. /\ Cardinality(Connecting(Tail(lecJobs))) <= Cardinality(Connecting(lecJobs))
        /\ j[1] = "connect" =>
              Cardinality(Connecting(Tail(lecJobs))) + 1 <= Cardinality(Connecting(lecJobs))
    BY <1>0, ConnectsTaken DEF LinksInv, RestTypes
  <2>2. Cardinality(Connecting(Tail(lecJobs))) \in Nat /\ Cardinality(Connecting(lecJobs)) \in Nat
    BY <1>1, JobsTyped DEF LinksInv, RestTypes
  <2>3. Len(lec.devs) + Cardinality(Connecting(lecJobs)) <= connects /\ connects \in Nat
    BY LeConnectConstants DEF LinksInv, CountInv, RestTypes
  <2>4. PICK x \in Nat : x = Cardinality(Connecting(Tail(lecJobs)))
    BY <2>2
  <2>5. PICK y \in Nat : y = Cardinality(Connecting(lecJobs))
    BY <2>2
  <2>6. Len(lec'.devs) <= Len(lec.devs) \/ (j[1] = "connect" /\ Len(lec'.devs) <= Len(lec.devs) + 1)
    BY DEF JobDone
  <2>7. Len(lec'.devs) + x <= connects
    BY <1>2, <2>1, <2>3, <2>4, <2>5, <2>6
  <2>8. QED
    BY <1>0, <2>4, <2>7 DEF CountInv
<1>5. GivenInv'
  <2>1. Ids(lec) \subseteq Ids(lec')
    BY <1>2 DEF Ids
  <2>2. QED
    BY <1>0, <2>1 DEF LinksInv, GivenInv, JobDone
<1>6. AskInv'
  <2>1. AskInv
    BY DEF LinksInv
  <2>2. \A i \in 1..Len(Tail(lecJobs)) : Tail(lecJobs)[i][3] => lew # <<>> /\ i = Len(Tail(lecJobs))
    <3>1. SUFFICES ASSUME NEW i \in 1..Len(Tail(lecJobs)), Tail(lecJobs)[i][3]
                   PROVE  lew # <<>> /\ i = Len(Tail(lecJobs))
      OBVIOUS
    <3>2. i + 1 \in 1..Len(lecJobs) /\ lecJobs[i+1][3]
      BY <1>1, <3>1
    <3>3. lew # <<>> /\ i + 1 = Len(lecJobs)
      BY <2>1, <3>2 DEF AskInv
    <3>4. i \in Nat /\ i + 1 = Len(lecJobs)
      BY <3>3
    <3>5. i = Len(Tail(lecJobs))
      <4>1. PICK m \in Nat : m = Len(lecJobs)
        BY <1>1
      <4>2. Len(Tail(lecJobs)) = m - 1
        BY <1>1, <4>1
      <4>3. i + 1 = m
        BY <3>4, <4>1
      <4>4. m - 1 = i
        BY <3>4, <4>1, <4>3
      <4>5. QED
        BY <4>2, <4>4
    <3>6. QED
      BY <3>3, <3>5
  <2>3. lew # <<>> /\ Tail(lecJobs) # <<>> => Tail(lecJobs)[Len(Tail(lecJobs))] = <<"connect", lew[1], TRUE>>
    <3>1. Tail(lecJobs) # <<>> => Len(Tail(lecJobs)) \in 1..Len(Tail(lecJobs))
      BY <1>1, EmptySeq
    <3>2. Tail(lecJobs) # <<>> => Tail(lecJobs)[Len(Tail(lecJobs))] = lecJobs[Len(lecJobs)]
      BY <1>1, <3>1
    <3>3. lew # <<>> => lecJobs[Len(lecJobs)] = <<"connect", lew[1], TRUE>>
      BY <1>0, <2>1 DEF AskInv
    <3>4. QED
      BY <3>2, <3>3
  <2>4. QED
    BY <1>0, <2>2, <2>3 DEF AskInv, JobDone
<1>7. QED
  BY <1>3, <1>4, <1>5, <1>6 DEF LinksInv

\* The jobs of the worker on the BTstack thread; what a success says
Told == lec.res = "none" /\ lec'.res = "ok" =>
           LET v == lec'.devs[lec'.resId] IN v.ready /\ lec'.resId \in Ids(lec') /\ v.addr[1] = lew[1][1]

\* A job run on the BTstack thread keeps the invariant and answers truly
LEMMA ConnectJobStep == ASSUME LinksInv, RunConnectJob PROVE LinksInv' /\ Told
<1>1. PICK j : j = Head(lecJobs)
  OBVIOUS
<1>2. /\ lecJobs # <<>> /\ lecJobs' = Tail(lecJobs)
      /\ UNCHANGED <<current, bonds, theirs, lew, given, connects, troubles>>
  BY DEF RunConnectJob
<1>3. /\ lec.res = "none" /\ ~(lec.live /\ lec.att # 0) /\ j \in LeJobs
      /\ j[3] => lew # <<>> /\ Tail(lecJobs) = <<>> /\ (j[1] = "connect" => j[2] = lew[1])
      /\ j[1] = "disconnect" => j[2] \in Ids(lec)
      /\ j[1] = "connect" => j[2] \in Addr /\ j[3] \in BOOLEAN
  BY <1>1, <1>2, FrontJob
<1>4. Linked(lec) /\ Len(lec.devs) \in Nat
  BY LecParts DEF LinksInv, Linked
<1>5. CASE j[1] = "connect" /\ \E fresh, accepted \in BOOLEAN : lec' = StartConnect(lec, j[2], j[3], fresh, accepted)
  <2>1. Len(lec.devs) < MaxDevices
    <3>1. Cardinality(Connecting(Tail(lecJobs))) + 1 <= Cardinality(Connecting(lecJobs))
      BY <1>1, <1>2, <1>5, ConnectsTaken DEF LinksInv, RestTypes
    <3>2. Cardinality(Connecting(Tail(lecJobs))) \in Nat /\ Cardinality(Connecting(lecJobs)) \in Nat
      <4>1. Tail(lecJobs) \in Seq(LeJobs)
        BY <1>1, <1>2, FrontJob
      <4>2. QED
        BY <4>1, JobsTyped DEF LinksInv, RestTypes
    <3>3. Len(lec.devs) + Cardinality(Connecting(lecJobs)) <= connects /\ connects \in 0..MaxConnects
      BY DEF LinksInv, CountInv, RestTypes
    <3>4. QED
      BY <1>4, <3>1, <3>2, <3>3, LeConnectConstants DEF MaxDevices
  <2>2. current \in [Peer -> Rpas]
    BY DEF LinksInv, RestTypes
  <2>3. Linked(lec') /\ Started(lec, lec', j[2], j[3])
    BY <1>3, <1>4, <1>5, <2>1, <2>2, StartConnectKeeps
  <2>4. lec'.res = "ok" => /\ lec'.att = 0 /\ lec'.resId # 0 /\ lec'.devs[lec'.resId].ready /\ j[3]
                           /\ lec'.devs[lec'.resId].addr[1] = lew[1][1]
    BY <1>3, <1>5, <2>3 DEF Started
  <2>5. lec'.resId # 0 => lec'.resId \in Ids(lec')
    BY <2>3, LecParts DEF Linked
  <2>6. lec'.res = "ok" => lec'.devs[lec'.resId].addr = <<lew[1][1], "id">>
    BY <2>3, <2>4, <2>5, ReadyIsNamed
  <2>7. lec'.live /\ lec'.att # 0 =>
              lew # <<>> /\ Tail(lecJobs) = <<>> /\ lec'.devs[lec'.att].addr[1] = lew[1][1]
    BY <1>3, <1>5, <2>3 DEF Started
  <2>8. lec'.res # "none" => lew # <<>> /\ Tail(lecJobs) = <<>>
    BY <1>3, <2>3 DEF Started
  <2>9. /\ Len(lec.devs) <= Len(lec'.devs) /\ (Len(lec'.devs) <= Len(lec.devs) \/ Len(lec'.devs) <= Len(lec.devs) + 1)
        /\ \A e \in Ids(lec) : lec'.devs[e].addr = lec.devs[e].addr
    BY <1>4, <1>5, <2>3 DEF Started
  <2>10. LinksInv'
    <3>1. JobDone(j)
      BY <1>1, <1>2, <1>5, <2>4, <2>6, <2>7, <2>8, <2>9 DEF JobDone
    <3>2. QED
      BY <2>3, <3>1, JobRest
  <2>11. QED
    BY <2>4, <2>5, <2>10 DEF Told
<1>6. CASE /\ Linked(lec') /\ lec'.devs = lec.devs /\ lec'.live = lec.live /\ lec'.res = lec.res
           /\ lec'.att \in {0, lec.att}
  <2>1. /\ Len(lec.devs) <= Len(lec'.devs) /\ (Len(lec'.devs) <= Len(lec.devs) \/ Len(lec'.devs) <= Len(lec.devs) + 1)
        /\ \A e \in Ids(lec) : lec'.devs[e].addr = lec.devs[e].addr
    <3>1. lec'.devs = lec.devs
      BY <1>6
    <3>2. QED
      BY <1>4, <3>1
  <2>2. lec'.res = "none" /\ ~(lec'.live /\ lec'.att # 0)
    BY <1>3, <1>6
  <2>3. LinksInv'
    <3>1. JobDone(j)
      BY <1>1, <1>2, <1>4, <1>6, <2>1, <2>2 DEF JobDone
    <3>2. QED
      BY <1>6, <3>1, JobRest
  <2>4. QED
    BY <2>2, <2>3 DEF Told
<1>7. CASE j[1] = "abandon" /\ lec' = AbandonConnect(lec)
  BY <1>4, <1>6, <1>7, AbandonKeeps
<1>8. CASE j[1] = "disconnect" /\ lec' = Hangup(lec, lec.devs[j[2]].link)
  BY <1>3, <1>4, <1>6, <1>8, DisconnectJobKeeps
<1>9. QED
  BY <1>1, <1>5, <1>7, <1>8 DEF RunConnectJob

-----------------------------------------------------------------------------
(* The events *)

\* An event answers le_connect with the device it was asked for
LEMMA EventTells ==
    ASSUME LinksInv, Linked(lec'), Moves(lec, lec')
    PROVE  Told
<1>1. SUFFICES ASSUME lec.res = "none", lec'.res = "ok"
               PROVE  /\ lec'.devs[lec'.resId].ready /\ lec'.resId \in Ids(lec')
                      /\ lec'.devs[lec'.resId].addr[1] = lew[1][1]
  BY DEF Told
<1>2. lec.live /\ lec.att # 0 /\ lec'.resId = lec.att /\ lec'.devs[lec.att].ready
  BY <1>1 DEF Moves
<1>3. lec.att \in Ids(lec) /\ Ids(lec') = Ids(lec)
  BY <1>2, LecParts DEF LinksInv, Linked, Moves, Ids
<1>4. lec.devs[lec.att].addr[1] = lew[1][1]
  BY <1>2 DEF LinksInv, AskInv
<1>5. lec'.devs[lec.att].addr[1] = lec.devs[lec.att].addr[1]
  BY <1>3 DEF Moves
<1>6. QED
  BY <1>2, <1>3, <1>4, <1>5

\* The events of links and pages
LinkEvent(h) ==
    \/ LinkEnds(h) \/ IdentityResolved(h) \/ Reencrypted(h) \/ PairingStarted(h)
    \/ PairingEncrypts(h) \/ IdentityCreated(h) \/ PairingComplete(h) \/ Discovered(h)

\* An event keeps the invariant and answers truly
LEMMA EventStep ==
    ASSUME LinksInv, \/ \E pg \in lec.pages : PageSucceeds(pg) \/ PageFails(pg)
                     \/ \E h \in Handle : LinkEvent(h)
    PROVE  LinksInv' /\ Told
<1>1. /\ Linked(lec) /\ current \in [Peer -> Rpas] /\ bonds \subseteq Peer /\ theirs \subseteq Peer
      /\ troubles \in 0..MaxTroubles /\ MaxTroubles \in Nat
  BY LeConnectConstants DEF LinksInv, RestTypes
<1>2. Troubled => troubles' \in 0..MaxTroubles
  BY <1>1 DEF Troubled
<1>3. ASSUME Linked(lec'), Moves(lec, lec'), UNCHANGED <<lecJobs, lew, given, connects>>,
             current' \in [Peer -> Rpas], bonds' \subseteq Peer, theirs' \subseteq Peer,
             troubles' \in 0..MaxTroubles
      PROVE  LinksInv' /\ Told
  BY <1>3, EventKeeps, EventTells
<1>4. ASSUME NEW pg \in lec.pages, PageSucceeds(pg) PROVE LinksInv' /\ Told
  <2>1. Linked(lec') /\ Moves(lec, lec')
    BY <1>1, <1>4, PageSucceedsKeeps
  <2>2. UNCHANGED <<current, bonds, theirs, lecJobs, lew, given, connects, troubles>>
    BY <1>4 DEF PageSucceeds
  <2>3. QED
    BY <1>1, <1>3, <2>1, <2>2
<1>5. ASSUME NEW pg \in lec.pages, PageFails(pg) PROVE LinksInv' /\ Told
  <2>1. Linked(lec') /\ Moves(lec, lec')
    BY <1>1, <1>5, PageFailsKeeps
  <2>2. UNCHANGED <<current, bonds, theirs, lecJobs, lew, given, connects>> /\ (Troubled \/ UNCHANGED troubles)
    BY <1>5 DEF PageFails
  <2>3. QED
    BY <1>1, <1>2, <1>3, <2>1, <2>2
<1>6. ASSUME NEW h \in Handle, LinkEvent(h) PROVE LinksInv' /\ Told
  <2>0. lec.links[h].peer \in Peer
    BY <1>1, LecParts DEF Linked, LinkType
  <2>1. CASE LinkEnds(h)
    <3>1. Linked(lec') /\ Moves(lec, lec')
      BY <1>1, <2>1, LinkEndsKeeps
    <3>2. UNCHANGED <<current, bonds, theirs, lecJobs, lew, given, connects>> /\ (Troubled \/ UNCHANGED troubles)
      BY <2>1 DEF LinkEnds
    <3>3. QED
      BY <1>1, <1>2, <1>3, <3>1, <3>2
  <2>2. CASE IdentityResolved(h)
    <3>1. Linked(lec') /\ Moves(lec, lec')
      BY <1>1, <2>2, IdentityResolvedKeeps
    <3>2. UNCHANGED <<current, bonds, theirs, lecJobs, lew, given, connects, troubles>>
      BY <2>2 DEF IdentityResolved
    <3>3. QED
      BY <1>1, <1>3, <3>1, <3>2
  <2>3. CASE Reencrypted(h)
    <3>1. Linked(lec') /\ Moves(lec, lec')
      BY <1>1, <2>3, ReencryptedKeeps
    <3>2. UNCHANGED <<current, theirs, lecJobs, lew, given, connects, troubles>>
      BY <2>3 DEF Reencrypted
    <3>3. bonds' \subseteq bonds
      BY <2>3 DEF Reencrypted
    <3>4. QED
      BY <1>1, <1>3, <3>1, <3>2, <3>3
  <2>4. CASE PairingStarted(h)
    <3>1. Linked(lec') /\ Moves(lec, lec')
      BY <1>1, <2>4, PairingStartedKeeps
    <3>2. UNCHANGED <<current, bonds, theirs, lecJobs, lew, given, connects, troubles>>
      BY <2>4 DEF PairingStarted
    <3>3. QED
      BY <1>1, <1>3, <3>1, <3>2
  <2>5. CASE PairingEncrypts(h)
    <3>1. Linked(lec') /\ Moves(lec, lec')
      BY <1>1, <2>5, PairingEncryptsKeeps
    <3>2. UNCHANGED <<current, bonds, theirs, lecJobs, lew, given, connects, troubles>>
      BY <2>5 DEF PairingEncrypts
    <3>3. QED
      BY <1>1, <1>3, <3>1, <3>2
  <2>6. CASE IdentityCreated(h)
    <3>1. Linked(lec') /\ Moves(lec, lec')
      BY <1>1, <2>6, IdentityCreatedKeeps
    <3>2. UNCHANGED <<current, lecJobs, lew, given, connects, troubles>>
      BY <2>6 DEF IdentityCreated
    <3>3. bonds' \subseteq Peer /\ theirs' \subseteq Peer
      BY <1>1, <2>0, <2>6 DEF IdentityCreated
    <3>4. QED
      BY <1>1, <1>3, <3>1, <3>2, <3>3
  <2>7. CASE PairingComplete(h)
    <3>1. Linked(lec') /\ Moves(lec, lec')
      BY <1>1, <2>7, PairingCompleteKeeps
    <3>2. UNCHANGED <<current, bonds, theirs, lecJobs, lew, given, connects>> /\ (Troubled \/ UNCHANGED troubles)
      BY <2>7 DEF PairingComplete
    <3>3. QED
      BY <1>1, <1>2, <1>3, <3>1, <3>2
  <2>8. CASE Discovered(h)
    <3>1. Linked(lec') /\ Moves(lec, lec')
      BY <1>1, <2>8, DiscoveredKeeps
    <3>2. UNCHANGED <<current, bonds, theirs, lecJobs, lew, given, connects>> /\ (Troubled \/ UNCHANGED troubles)
      BY <2>8 DEF Discovered
    <3>3. QED
      BY <1>1, <1>2, <1>3, <3>1, <3>2
  <2>9. QED
    BY <1>6, <2>1, <2>2, <2>3, <2>4, <2>5, <2>6, <2>7, <2>8 DEF LinkEvent
<1>7. QED
  BY <1>4, <1>5, <1>6

\* SM_EVENT_IDENTITY_RESOLVING_SUCCEEDED while scanning, and the peers
LEMMA PeerStep ==
    ASSUME LinksInv, NEW p \in Peer, AddressResolved(p) \/ PeerChanges(p)
    PROVE  LinksInv' /\ Told
<1>1. /\ Linked(lec) /\ current \in [Peer -> Rpas] /\ bonds \subseteq Peer /\ theirs \subseteq Peer
      /\ troubles \in 0..MaxTroubles /\ MaxTroubles \in Nat /\ lec \in LecType /\ LecTypes(lec)
  BY LeConnectConstants DEF LinksInv, RestTypes, Linked, LecTypes
<1>2. CASE AddressResolved(p)
  <2>1. /\ lec' = [lec EXCEPT !.resolved = @ \cup {<<p, current[p]>>}]
        /\ UNCHANGED <<current, bonds, theirs, lecJobs, lew, given, connects, troubles>>
    BY <1>2 DEF AddressResolved
  <2>2. lec.resolved \cup {<<p, current[p]>>} \in SUBSET Addr
    <3>1. <<p, current[p]>> \in Addr
      BY <1>1 DEF Addr
    <3>2. lec.resolved \in SUBSET Addr
      BY <1>1 DEF LecType
    <3>3. QED
      BY <3>1, <3>2
  <2>3. /\ lec' \in LecType /\ lec'.devs = lec.devs /\ lec'.links = lec.links /\ lec'.twice = lec.twice
        /\ lec'.att = lec.att /\ lec'.tgt = lec.tgt /\ lec'.pages = lec.pages /\ lec'.live = lec.live
        /\ lec'.res = lec.res /\ lec'.resId = lec.resId
    BY <1>1, <2>1, <2>2 DEF LecType
  <2>4. LecTypes(lec')
    BY <1>1, <2>3 DEF LecTypes
  <2>5. Linked(lec')
    BY <1>1, <2>3, <2>4, SameKeeps
  <2>6. Moves(lec, lec')
    BY <2>3 DEF Moves
  <2>7. QED
    BY <1>1, <2>1, <2>5, <2>6, EventKeeps, EventTells
<1>3. CASE PeerChanges(p)
  <2>1. /\ UNCHANGED <<lec, bonds, lecJobs, lew, given, connects>> /\ troubles' \in 0..MaxTroubles
        /\ current' \in [Peer -> Rpas] /\ theirs' \subseteq Peer
    BY <1>1, <1>3 DEF PeerChanges, Troubled
  <2>2. Linked(lec')
    BY <1>1, <2>1
  <2>3. Moves(lec, lec')
    BY <2>1 DEF Moves
  <2>4. QED
    BY <1>1, <2>1, <2>2, <2>3, EventKeeps, EventTells
<1>4. QED
  BY <1>2, <1>3

-----------------------------------------------------------------------------
(* The steps of the worker *)

\* Only what the worker reads and writes of the attempt changes
LEMMA ResultKeeps ==
    ASSUME NEW s, Linked(s), NEW t, \/ t = [s EXCEPT !.res = "none"]
                                    \/ t = [s EXCEPT !.live = FALSE, !.res = "none"]
    PROVE  /\ Linked(t) /\ t.devs = s.devs /\ t.att = s.att /\ t.res = "none"
           /\ t.resId = s.resId /\ Ids(t) = Ids(s) /\ (t.live => s.live)
<1>1. s \in LecType /\ LecTypes(s)
  BY DEF Linked, LecTypes
<1>2. /\ t \in LecType /\ t.devs = s.devs /\ t.links = s.links /\ t.twice = s.twice /\ t.att = s.att
      /\ t.tgt = s.tgt /\ t.pages = s.pages /\ t.res = "none" /\ t.resId = s.resId /\ (t.live => s.live)
  <2>1. CASE t = [s EXCEPT !.res = "none"]
    BY <1>1, <2>1 DEF LecType
  <2>2. CASE t = [s EXCEPT !.live = FALSE, !.res = "none"]
    BY <1>1, <2>2 DEF LecType
  <2>3. QED
    BY <2>1, <2>2
<1>4. LecTypes(t)
  BY <1>1, <1>2 DEF LecTypes
<1>5. Linked(t)
  BY <1>2, <1>4, SameKeeps
<1>6. QED
  BY <1>2, <1>5 DEF Ids

\* A job is posted to the BTstack thread
LEMMA JobPosted ==
    ASSUME NEW q \in Seq(LeJobs), NEW j \in LeJobs, NEW r, r = Append(q, j)
    PROVE  /\ r \in Seq(LeJobs) /\ Len(r) = Len(q) + 1 /\ Len(q) \in Nat /\ r # <<>> /\ r[Len(r)] = j
           /\ \A i \in 1..Len(q) : r[i] = q[i]
           /\ \A i \in 1..Len(r) : i \in 1..Len(q) \/ i = Len(r)
<1>1. /\ r \in Seq(LeJobs) /\ Len(r) = Len(q) + 1 /\ Len(q) \in Nat /\ r # <<>> /\ r[Len(q) + 1] = j
      /\ \A i \in 1..Len(q) : r[i] = q[i]
  BY AppendProperties, LenProperties
<1>2. \A i \in 1..Len(r) : i \in 1..Len(q) \/ i = Len(r)
  BY <1>1
<1>3. QED
  BY <1>1, <1>2

\* le_connect
LEMMA WorkerConnectsStep == ASSUME LinksInv, NEW a \in Addr, WorkerConnects(a) PROVE LinksInv' /\ Told
<1>1. /\ lew = <<>> /\ connects < MaxConnects /\ connects' = connects + 1 /\ lew' = <<a>>
      /\ lec' = [lec EXCEPT !.res = "none"] /\ lecJobs' = Append(lecJobs, <<"connect", a, TRUE>>)
      /\ UNCHANGED <<current, bonds, theirs, given, troubles>>
  BY DEF WorkerConnects
<1>2. /\ Linked(lec) /\ lec \in LecType /\ lecJobs \in Seq(LeJobs) /\ AskInv /\ lec.live \in BOOLEAN
      /\ connects \in Nat
  BY LeConnectConstants DEF LinksInv, RestTypes, Linked, LecTypes, LecType
<1>4. /\ Linked(lec') /\ lec'.devs = lec.devs /\ lec'.att = lec.att /\ (lec'.live => lec.live)
      /\ lec'.res = "none" /\ lec'.resId = lec.resId /\ Ids(lec') = Ids(lec)
  BY <1>1, <1>2, ResultKeeps
<1>5. PICK j : j = <<"connect", a, TRUE>>
  OBVIOUS
<1>6. j \in LeJobs /\ j[1] = "connect"
  BY <1>5 DEF LeJobs
<1>7. /\ lecJobs' \in Seq(LeJobs) /\ Len(lecJobs') = Len(lecJobs) + 1 /\ Len(lecJobs) \in Nat
      /\ lecJobs' # <<>> /\ lecJobs'[Len(lecJobs')] = j
      /\ \A i \in 1..Len(lecJobs) : lecJobs'[i] = lecJobs[i]
      /\ \A i \in 1..Len(lecJobs') : i \in 1..Len(lecJobs) \/ i = Len(lecJobs')
  <2>1. lecJobs' = Append(lecJobs, j)
    BY <1>1, <1>5
  <2>2. QED
    BY <1>2, <1>6, <2>1, JobPosted
<1>8. RestTypes'
  <2>1. \A i \in 1..Len(lecJobs') : lecJobs'[i][1] = "disconnect" => lecJobs'[i][2] <= Len(lec'.devs)
    BY <1>4, <1>6, <1>7 DEF LinksInv, RestTypes
  <2>2. connects' \in 0..MaxConnects
    BY <1>1, <1>2, LeConnectConstants
  <2>3. QED
    BY <1>1, <1>7, <2>1, <2>2 DEF LinksInv, RestTypes
<1>9. CountInv'
  <2>1. Cardinality(Connecting(lecJobs')) <= Cardinality(Connecting(lecJobs)) + 1
    BY <1>1, <1>2, <1>5, <1>6, ConnectsPosted
  <2>2. PICK x \in Nat : x = Cardinality(Connecting(lecJobs))
    BY <1>2, JobsTyped
  <2>3. PICK y \in Nat : y = Cardinality(Connecting(lecJobs'))
    BY <1>7, JobsTyped
  <2>4. PICK n \in Nat : n = Len(lec.devs)
    BY <1>2, LecParts DEF Linked
  <2>5. n + x <= connects
    BY <2>2, <2>4 DEF LinksInv, CountInv
  <2>6. n + y <= connects + 1
    BY <1>2, <2>1, <2>2, <2>3, <2>5
  <2>7. QED
    BY <1>1, <1>4, <2>3, <2>4, <2>6 DEF CountInv
<1>10. GivenInv'
  BY <1>1, <1>4 DEF LinksInv, GivenInv
<1>11. AskInv'
  <2>1. ~(lec'.live /\ lec'.att # 0)
    BY <1>1, <1>2, <1>4 DEF AskInv
  <2>2. \A i \in 1..Len(lecJobs) : ~lecJobs[i][3]
    BY <1>1, <1>2 DEF AskInv
  <2>3. \A i \in 1..Len(lecJobs') : lecJobs'[i][3] => lew' # <<>> /\ i = Len(lecJobs')
    BY <1>1, <1>7, <2>2
  <2>4. lecJobs'[Len(lecJobs')] = <<"connect", lew'[1], TRUE>>
    BY <1>1, <1>5, <1>7
  <2>5. QED
    BY <1>4, <2>1, <2>3, <2>4 DEF AskInv
<1>12. QED
  BY <1>4, <1>8, <1>9, <1>10, <1>11 DEF LinksInv, Told

\* le_connect returns the device
LEMMA WorkerConnectedStep == ASSUME LinksInv, WorkerConnected PROVE LinksInv' /\ Told
<1>1. /\ lew # <<>> /\ lec.res = "ok" /\ lew' = <<>>
      /\ given' = [given EXCEPT ![lew[1][1]] = @ \cup {lec.resId}]
      /\ lec' = [lec EXCEPT !.res = "none"]
      /\ UNCHANGED <<current, bonds, theirs, lecJobs, connects, troubles>>
  BY DEF WorkerConnected
<1>2. /\ Linked(lec) /\ lec \in LecType /\ AskInv /\ lec.live \in BOOLEAN /\ LecTypes(lec)
      /\ lew \in {<<>>} \cup {<<a>> : a \in Addr} /\ given \in [Peer -> SUBSET (1..MaxDevices)]
  BY DEF LinksInv, RestTypes, Linked, LecTypes, LecType
<1>4. /\ Linked(lec') /\ lec'.devs = lec.devs /\ lec'.att = lec.att /\ (lec'.live => lec.live)
      /\ lec'.res = "none" /\ lec'.resId = lec.resId /\ Ids(lec') = Ids(lec)
  BY <1>1, <1>2, ResultKeeps
<1>5. /\ lecJobs = <<>> /\ lec.att = 0 /\ lec.resId # 0
      /\ lec.devs[lec.resId].addr = <<lew[1][1], "id">>
  BY <1>1, <1>2 DEF AskInv
<1>6. lec.resId \in Ids(lec) /\ lec.resId \in 1..MaxDevices
  BY <1>2, <1>5, LecParts
<1>7. PICK a \in Addr : lew = <<a>>
  BY <1>1, <1>2
<1>8. PICK p \in Peer : p = lew[1][1]
  BY <1>7 DEF Addr
<1>9. given' \in [Peer -> SUBSET (1..MaxDevices)]
      /\ \A o \in Peer : given'[o] = IF o = p THEN given[p] \cup {lec.resId} ELSE given[o]
  BY <1>1, <1>2, <1>6, <1>8
<1>10. RestTypes'
  BY <1>1, <1>4, <1>9 DEF LinksInv, RestTypes
<1>11. CountInv'
  BY <1>1, <1>4 DEF LinksInv, CountInv
<1>12. GivenInv'
  BY <1>4, <1>5, <1>6, <1>8, <1>9 DEF LinksInv, GivenInv
<1>13. AskInv'
  BY <1>1, <1>4, <1>5, EmptySeq DEF AskInv
<1>14. QED
  BY <1>4, <1>10, <1>11, <1>12, <1>13 DEF LinksInv, Told

\* done(false), the time-out or a cancel
LEMMA WorkerGivesUpStep == ASSUME LinksInv, WorkerGivesUp PROVE LinksInv' /\ Told
<1> DEFINE q == [i \in DOMAIN lecJobs |-> <<lecJobs[i][1], lecJobs[i][2], FALSE>>]
<1>1. /\ lew # <<>> /\ lec.res # "ok" /\ lew' = <<>> /\ lec' = [lec EXCEPT !.live = FALSE, !.res = "none"]
      /\ lecJobs' = Append(q, <<"abandon", 0, FALSE>>)
      /\ UNCHANGED <<current, bonds, theirs, given, connects, troubles>>
  BY DEF WorkerGivesUp
<1>2. Linked(lec) /\ lecJobs \in Seq(LeJobs) /\ AskInv
  BY DEF LinksInv, RestTypes
<1>3. /\ Linked(lec') /\ lec'.devs = lec.devs /\ lec'.att = lec.att /\ lec'.live = FALSE
      /\ lec'.res = "none" /\ lec'.resId = lec.resId /\ Ids(lec') = Ids(lec)
  <2>1. lec' = [lec EXCEPT !.live = FALSE, !.res = "none"]
    BY <1>1
  <2> HIDE DEF q
  <2>2. /\ Linked(lec') /\ lec'.devs = lec.devs /\ lec'.att = lec.att /\ lec'.res = "none"
        /\ lec'.resId = lec.resId /\ Ids(lec') = Ids(lec)
    <3>1. PICK t : t = lec'
      OBVIOUS
    <3>2. t = [lec EXCEPT !.live = FALSE, !.res = "none"]
      BY <2>1, <3>1
    <3>3. /\ Linked(t) /\ t.devs = lec.devs /\ t.att = lec.att /\ t.res = "none"
          /\ t.resId = lec.resId /\ Ids(t) = Ids(lec)
      BY <1>2, <3>2, ResultKeeps
    <3>4. QED
      BY <3>1, <3>3
  <2>3. lec'.live = FALSE
    BY <1>2, <2>1 DEF Linked, LecTypes, LecType
  <2>4. QED
    BY <2>2, <2>3
<1>4. Len(lecJobs) \in Nat /\ DOMAIN lecJobs = 1..Len(lecJobs) /\ \A i \in 1..Len(lecJobs) : lecJobs[i] \in LeJobs
  BY <1>2, JobsTyped
<1>5. \A j \in LeJobs : <<j[1], j[2], FALSE>> \in LeJobs
  <2>1. SUFFICES ASSUME NEW j \in LeJobs PROVE <<j[1], j[2], FALSE>> \in LeJobs
    OBVIOUS
  <2>2. CASE j \in {"connect"} \X Addr \X BOOLEAN
    BY <2>2 DEF LeJobs
  <2>3. CASE j = <<"abandon", 0, FALSE>>
    BY <2>3 DEF LeJobs
  <2>4. CASE j \in {"disconnect"} \X (1..MaxDevices) \X {FALSE}
    BY <2>4 DEF LeJobs
  <2>5. QED
    BY <2>2, <2>3, <2>4 DEF LeJobs
<1>6. /\ q \in Seq(LeJobs) /\ Len(q) = Len(lecJobs)
      /\ \A i \in 1..Len(q) : q[i] = <<lecJobs[i][1], lecJobs[i][2], FALSE>>
  <2>1. q \in [1..Len(lecJobs) -> LeJobs]
    BY <1>4, <1>5
  <2>2. q \in Seq(LeJobs)
    <3> HIDE DEF q
    <3>1. QED
      BY <1>4, <2>1
  <2>3. DOMAIN q = 1..Len(lecJobs)
    BY <1>4
  <2>4. Len(q) = Len(lecJobs)
    <3> HIDE DEF q
    <3>1. PICK m \in Nat : m = Len(q) /\ DOMAIN q = 1..m
      BY <2>2, LenProperties
    <3>2. PICK n \in Nat : n = Len(lecJobs)
      BY <1>4
    <3>3. 1..m = 1..n
      BY <2>3, <3>1, <3>2
    <3>4. (m > 0 => m \in 1..n) /\ (n > 0 => n \in 1..m)
      <4>1. (m > 0 => m \in 1..m) /\ (n > 0 => n \in 1..n)
        OBVIOUS
      <4>2. QED
        BY <3>3, <4>1
    <3>5. m = n
      BY <3>4
    <3>6. QED
      BY <3>1, <3>2, <3>5
  <2>5. QED
    BY <1>4, <2>2, <2>4
<1> HIDE DEF q
<1>7. PICK j : j = <<"abandon", 0, FALSE>>
  OBVIOUS
<1>8. j \in LeJobs /\ j[1] = "abandon" /\ ~j[3]
  BY <1>7 DEF LeJobs
<1>9. /\ lecJobs' \in Seq(LeJobs) /\ Len(lecJobs') = Len(q) + 1 /\ Len(q) \in Nat
      /\ lecJobs' # <<>> /\ lecJobs'[Len(lecJobs')] = j
      /\ \A i \in 1..Len(q) : lecJobs'[i] = q[i]
      /\ \A i \in 1..Len(lecJobs') : i \in 1..Len(q) \/ i = Len(lecJobs')
  <2>1. lecJobs' = Append(q, j)
    BY <1>1, <1>7
  <2>2. QED
    BY <1>6, <1>8, <2>1, JobPosted
<1>10. \A i \in 1..Len(q) : /\ lecJobs'[i][1] = lecJobs[i][1] /\ lecJobs'[i][2] = lecJobs[i][2]
                            /\ ~lecJobs'[i][3] /\ i \in 1..Len(lecJobs)
  <2>1. SUFFICES ASSUME NEW i \in 1..Len(q)
                 PROVE  /\ lecJobs'[i][1] = lecJobs[i][1] /\ lecJobs'[i][2] = lecJobs[i][2]
                        /\ ~lecJobs'[i][3] /\ i \in 1..Len(lecJobs)
    OBVIOUS
  <2>2. lecJobs'[i] = <<lecJobs[i][1], lecJobs[i][2], FALSE>> /\ i \in 1..Len(lecJobs)
    BY <1>6, <1>9
  <2>3. QED
    BY <2>2
<1>11. RestTypes'
  <2>1. \A i \in 1..Len(lecJobs') : lecJobs'[i][1] = "disconnect" => lecJobs'[i][2] <= Len(lec'.devs)
    BY <1>3, <1>8, <1>9, <1>10 DEF LinksInv, RestTypes
  <2>2. QED
    BY <1>1, <1>9, <2>1 DEF LinksInv, RestTypes
<1>12. CountInv'
  <2>1. Connecting(q) = Connecting(lecJobs)
    <3>1. ASSUME NEW i \in 1..Len(q) PROVE q[i][1] = lecJobs[i][1]
      <4>1. q[i] = <<lecJobs[i][1], lecJobs[i][2], FALSE>>
        BY <1>6
      <4>2. QED
        BY <4>1
    <3>2. QED
      BY <1>6, <3>1 DEF Connecting
  <2>2. Cardinality(Connecting(lecJobs')) <= Cardinality(Connecting(q))
    BY <1>1, <1>6, <1>7, <1>8, ConnectsPosted
  <2>3. PICK x \in Nat : x = Cardinality(Connecting(lecJobs))
    BY <1>2, JobsTyped
  <2>4. PICK y \in Nat : y = Cardinality(Connecting(lecJobs'))
    BY <1>9, JobsTyped
  <2>5. PICK n \in Nat : n = Len(lec.devs)
    BY <1>2, LecParts DEF Linked
  <2>6. n + x <= connects /\ connects \in Nat
    BY <2>3, <2>5, LeConnectConstants DEF LinksInv, CountInv, RestTypes
  <2>7. n + y <= connects
    BY <2>1, <2>2, <2>3, <2>4, <2>6
  <2>8. QED
    BY <1>1, <1>3, <2>4, <2>5, <2>7 DEF CountInv
<1>13. GivenInv'
  BY <1>1, <1>3 DEF LinksInv, GivenInv
<1>14. AskInv'
  <2>1. \A i \in 1..Len(lecJobs') : ~lecJobs'[i][3]
    BY <1>8, <1>9, <1>10
  <2>2. QED
    BY <1>1, <1>3, <2>1 DEF AskInv
<1>15. QED
  BY <1>3, <1>11, <1>12, <1>13, <1>14 DEF LinksInv, Told

\* le_disconnect
LEMMA WorkerDisconnectsStep == ASSUME LinksInv, WorkerDisconnects PROVE LinksInv' /\ Told
<1>1. PICK d \in DOMAIN lec.devs :
         /\ lew = <<>> /\ lecJobs = <<>> /\ lecJobs' = Append(lecJobs, <<"disconnect", d, FALSE>>)
         /\ UNCHANGED <<lec, current, bonds, theirs, lew, given, connects, troubles>>
  BY DEF WorkerDisconnects
<1>2. Linked(lec) /\ lecJobs \in Seq(LeJobs) /\ AskInv
  BY DEF LinksInv, RestTypes
<1>3. d \in Ids(lec) /\ d \in 1..MaxDevices /\ Len(lec.devs) \in Nat /\ d <= Len(lec.devs)
  BY <1>2, LecParts DEF Linked, Ids
<1>4. PICK j : j = <<"disconnect", d, FALSE>>
  OBVIOUS
<1>5. j \in LeJobs /\ j[1] = "disconnect" /\ j[2] = d /\ ~j[3]
  BY <1>3, <1>4 DEF LeJobs
<1>6. /\ lecJobs' \in Seq(LeJobs) /\ Len(lecJobs') = Len(lecJobs) + 1 /\ Len(lecJobs) \in Nat
      /\ lecJobs' # <<>> /\ lecJobs'[Len(lecJobs')] = j
      /\ \A i \in 1..Len(lecJobs) : lecJobs'[i] = lecJobs[i]
      /\ \A i \in 1..Len(lecJobs') : i \in 1..Len(lecJobs) \/ i = Len(lecJobs')
  <2>1. lecJobs' = Append(lecJobs, j)
    BY <1>1, <1>4
  <2>2. QED
    BY <1>2, <1>5, <2>1, JobPosted
<1>7. RestTypes'
  <2>1. \A i \in 1..Len(lecJobs') : lecJobs'[i][1] = "disconnect" => lecJobs'[i][2] <= Len(lec'.devs)
    BY <1>1, <1>3, <1>5, <1>6 DEF LinksInv, RestTypes
  <2>2. QED
    BY <1>1, <1>6, <2>1 DEF LinksInv, RestTypes
<1>8. CountInv'
  <2>1. Cardinality(Connecting(lecJobs')) <= Cardinality(Connecting(lecJobs))
    BY <1>1, <1>2, <1>4, <1>5, ConnectsPosted
  <2>2. PICK x \in Nat : x = Cardinality(Connecting(lecJobs))
    BY <1>2, JobsTyped
  <2>3. PICK y \in Nat : y = Cardinality(Connecting(lecJobs'))
    BY <1>6, JobsTyped
  <2>4. Len(lec.devs) + x <= connects /\ connects \in Nat
    BY <2>2, LeConnectConstants DEF LinksInv, CountInv, RestTypes
  <2>5. Len(lec.devs) + y <= connects
    BY <1>3, <2>1, <2>2, <2>3, <2>4
  <2>6. QED
    BY <1>1, <2>3, <2>5 DEF CountInv
<1>9. AskInv'
  <2>1. \A i \in 1..Len(lecJobs') : ~lecJobs'[i][3]
    <3>1. \A i \in 1..Len(lecJobs) : ~lecJobs[i][3]
      BY <1>1, <1>2 DEF AskInv
    <3>2. QED
      BY <1>5, <1>6, <3>1
  <2>2. ~(lec.live /\ lec.att # 0) /\ lec.res = "none"
    BY <1>1, <1>2 DEF AskInv
  <2>3. QED
    BY <1>1, <2>1, <2>2 DEF AskInv
<1>10. Linked(lec') /\ GivenInv' /\ Told
  BY <1>1, <1>2 DEF LinksInv, GivenInv, Told
<1>11. QED
  BY <1>7, <1>8, <1>9, <1>10 DEF LinksInv

-----------------------------------------------------------------------------
(* The theorems *)

\* The invariant holds at the start
LEMMA LinksInitial == ASSUME LeConnectInit PROVE LinksInv
<1>1. (CHOOSE p \in Peer : TRUE) \in Peer /\ (CHOOSE r \in Rpas : TRUE) \in Rpas
  <2>1. (CHOOSE p \in Peer : TRUE) \in Peer
    BY LeConnectConstants
  <2>2. (CHOOSE r \in Rpas : TRUE) \in Rpas
    BY LeConnectConstants
  <2>3. QED
    BY <2>1, <2>2
<1>2. (CHOOSE a \in Addr : TRUE) \in Addr
  <2>1. <<CHOOSE p \in Peer : TRUE, "id">> \in Addr
    BY <1>1 DEF Addr
  <2>2. QED
    BY <2>1
<1>3. 0 \in 0..MaxDevices /\ 0 \in 0..MaxConnects /\ 0 \in 0..MaxTroubles /\ MaxDevices \in Nat
  BY LeConnectConstants DEF MaxDevices
<1>4. NoLink \in LinkType /\ NoLink.st = "none" /\ NoLink.disc = 0
  <2>1. PICK p0 \in Peer, r0 \in Rpas :
           NoLink = [st |-> "none", peer |-> p0, rpa |-> r0, closing |-> FALSE, sec |-> "idle",
                     told |-> FALSE, disc |-> 0]
    BY <1>1 DEF NoLink
  <2>2. QED
    BY <1>3, <2>1 DEF LinkType
<1>5. PICK a0 \in Addr : lec = [devs |-> <<>>, att |-> 0, tgt |-> a0, live |-> FALSE,
              res |-> "none", resId |-> 0, resolved |-> {}, pages |-> {},
              links |-> [h \in Handle |-> NoLink], twice |-> FALSE]
  BY <1>2 DEF LeConnectInit
<1>6. [h \in Handle |-> NoLink] \in [Handle -> LinkType]
  BY <1>4
<1>7. <<>> \in Seq(DeviceType) /\ Len(<<>>) = 0 /\ <<>> \in Seq(LeJobs)
  BY EmptySeq
<1>8. lec \in LecType
  BY <1>3, <1>5, <1>6, <1>7 DEF LecType
<1>9. /\ lec.devs = <<>> /\ lec.att = 0 /\ lec.live = FALSE /\ lec.res = "none" /\ lec.resId = 0
      /\ lec.links = [h \in Handle |-> NoLink]
  BY <1>5
<1>10. LecTypes(lec) /\ Ids(lec) = {}
  BY <1>3, <1>7, <1>8, <1>9 DEF LecTypes, Ids
<1>11. Linked(lec)
  BY <1>4, <1>9, <1>10 DEF Linked, LinkInv, AttemptInv, OneOwner, OneIdentity
<1>12. RestTypes
  BY <1>1, <1>3, <1>7 DEF RestTypes, LeConnectInit
<1>13. CountInv
  <2>1. lecJobs = <<>> /\ connects = 0
    BY DEF LeConnectInit
  <2>2. Connecting(lecJobs) = {}
    BY <1>7, <2>1 DEF Connecting
  <2>3. Cardinality(Connecting(lecJobs)) = 0
    BY <2>2, FS_EmptySet
  <2>4. Len(lec.devs) = 0
    BY <1>7, <1>9
  <2>5. QED
    BY <1>9, <2>1, <2>3, <2>4 DEF CountInv
<1>14. AskInv
  BY <1>7, <1>9 DEF AskInv, LeConnectInit
<1>15. GivenInv
  BY DEF GivenInv, LeConnectInit
<1>16. QED
  BY <1>11, <1>12, <1>13, <1>14, <1>15 DEF LinksInv

\* Every step keeps the invariant and answers truly
LEMMA LinksStep == ASSUME LinksInv, [LeConnectNext]_leConnectVars PROVE LinksInv' /\ Told
<1>1. CASE RunConnectJob
  BY <1>1, ConnectJobStep
<1>2. CASE WorkerConnected
  BY <1>2, WorkerConnectedStep
<1>3. CASE WorkerGivesUp
  BY <1>3, WorkerGivesUpStep
<1>4. CASE WorkerDisconnects
  BY <1>4, WorkerDisconnectsStep
<1>5. ASSUME NEW a \in Addr, WorkerConnects(a) PROVE LinksInv' /\ Told
  BY <1>5, WorkerConnectsStep
<1>6. CASE \E pg \in lec.pages : PageSucceeds(pg) \/ PageFails(pg)
  BY <1>6, EventStep
<1>7. ASSUME NEW p \in Peer, AddressResolved(p) \/ PeerChanges(p) PROVE LinksInv' /\ Told
  BY <1>7, PeerStep
<1>8. ASSUME NEW h \in Handle, LinkEvent(h) PROVE LinksInv' /\ Told
  BY <1>8, EventStep
<1>9. CASE UNCHANGED leConnectVars
  BY <1>9 DEF leConnectVars, LinksInv, RestTypes, CountInv, AskInv, GivenInv, Told
<1>10. QED
  BY <1>1, <1>2, <1>3, <1>4, <1>5, <1>6, <1>7, <1>8, <1>9 DEF LeConnectNext, LinkEvent

\* A set without two elements has one at most
LEMMA AtMostOne ==
    ASSUME NEW T, \A x, y \in T : x = y
    PROVE  Cardinality(T) <= 1
<1>1. CASE T = {}
  BY <1>1, FS_EmptySet
<1>2. CASE T # {}
  <2>1. PICK x : T = {x}
    BY <1>2
  <2>2. Cardinality({x}) = 1
    BY FS_Singleton
  <2>3. Cardinality(T) = 1
    BY <2>1, <2>2
  <2>4. QED
    BY <2>3
<1>3. QED
  BY <1>1, <1>2

\* The invariant implies what the run checks
LEMMA LinksInvSafe == ASSUME LinksInv PROVE LinksSafe
<1>1. /\ Linked(lec) /\ LecTypes(lec) /\ lec \in LecType /\ DOMAIN lec.devs = Ids(lec) /\ DOMAIN lecJobs = 1..Len(lecJobs)
      /\ (lec.att # 0 => lec.att \in Ids(lec))
  BY LecParts, JobsTyped DEF LinksInv, RestTypes, Linked, LecTypes
<1>2. LeConnectTypeOK
  BY <1>1 DEF LeConnectTypeOK, LecTypes, LinksInv, RestTypes
<1>3. NoOrphanLink
  <2>1. SUFFICES ASSUME NEW h \in Handle, NEW owners, owners = {d \in DOMAIN lec.devs : lec.devs[d].link = h}
                 PROVE  /\ Cardinality(owners) <= 1
                        /\ lec.links[h].st \in {"up", "lost"} /\ ~lec.links[h].closing =>
                             owners # {} /\ \A d \in owners : lec.devs[d].ready \/ lec.att = d
    BY DEF NoOrphanLink
  <2>2. h # 0
    BY LeConnectConstants DEF Handle
  <2>3. \A d \in owners : d \in Ids(lec) /\ lec.devs[d].link = h
    BY <1>1, <2>1
  <2>4. \A d, e \in owners : d = e
    BY <1>1, <2>2, <2>3 DEF Linked, OneOwner
  <2>5. LinkInv(lec, h)
    BY <1>1 DEF Linked
  <2>6. lec.links[h].st \in {"up", "lost"} /\ ~lec.links[h].closing => owners # {}
    BY <1>1, <2>1, <2>5 DEF LinkInv
  <2>7. \A d \in owners : lec.links[h].closing \/ lec.devs[d].ready \/ lec.att = d
    BY <1>1, <2>2, <2>3 DEF Linked, DeviceInv
  <2>8. QED
    BY <2>4, <2>6, <2>7, AtMostOne
<1>4. AttemptEnds
  <2>1. AttemptInv(lec)
    BY <1>1 DEF Linked
  <2>2. QED
    BY <2>1 DEF AttemptInv, AttemptEnds, Waits
<1>5. ReachedOnThisLink
  BY <1>1 DEF ReachedOnThisLink, Linked, DeviceInv, Reached, Nothing
<1>6. SameId
  <2>1. SUFFICES ASSUME NEW p \in Peer, Cardinality(given[p]) > 1 PROVE lec.twice
    BY DEF SameId
  <2>2. \A d \in given[p] : d \in Ids(lec) /\ lec.devs[d].addr = <<p, "id">>
    BY DEF LinksInv, GivenInv
  <2>3. ~lec.twice => \A d, e \in given[p] : d = e
    BY <1>1, <2>2 DEF Linked, OneIdentity
  <2>4. ~lec.twice => Cardinality(given[p]) <= 1
    BY <2>3, AtMostOne
  <2>5. given[p] \in SUBSET (1..MaxDevices)
    BY DEF LinksInv, RestTypes
  <2>6. IsFiniteSet(given[p])
    <3>1. MaxDevices \in Int /\ 1 \in Int
      BY LeConnectConstants DEF MaxDevices
    <3>2. IsFiniteSet(1..MaxDevices)
      BY <3>1, FS_Interval
    <3>3. QED
      BY <2>5, <3>2, FS_Subset
  <2>7. Cardinality(given[p]) \in Nat
    BY <2>6, FS_CardinalityType
  <2>8. QED
    BY <2>1, <2>4, <2>7
<1>7. QED
  BY <1>2, <1>3, <1>4, <1>5, <1>6 DEF LinksSafe

\* le_connect and its events: for any number of peers, addresses, links,
\* connects and failures, a link is up for one device at most; one that is not
\* being disconnected is of a device that is set up or that the attempt sets up;
\* an attempt always has something to wait for; a device is secured and ready
\* on the link it has now only; and one peer keeps one id
THEOREM LinksSafeAlways == LeConnectSpec => []LinksSafe
<1>1. LeConnectInit => LinksInv
  BY LinksInitial
<1>2. LinksInv /\ [LeConnectNext]_leConnectVars => LinksInv'
  BY LinksStep
<1>3. LinksInv => LinksSafe
  BY LinksInvSafe
<1>4. QED
  BY <1>1, <1>2, <1>3, PTL DEF LeConnectSpec

\* done(true) of le_connect: the device whose id it carries is ready, and its
\* link is with the peer the worker asked for
THEOREM ConnectedIsAskedAlways == LeConnectSpec => ConnectedIsAsked
<1> DEFINE Asked == lec.res = "none" /\ lec'.res = "ok" =>
                       LET v == lec'.devs[lec'.resId]
                       IN  v.ready /\ v.link # 0 /\ lec'.links[v.link].peer = lew[1][1]
<1>1. LeConnectInit => LinksInv
  BY LinksInitial
<1>2. LinksInv /\ [LeConnectNext]_leConnectVars => LinksInv'
  BY LinksStep
<1>3. LinksInv /\ [LeConnectNext]_leConnectVars => [Asked]_leConnectVars
  <2>1. SUFFICES ASSUME LinksInv, [LeConnectNext]_leConnectVars, lec.res = "none", lec'.res = "ok"
                 PROVE  LET v == lec'.devs[lec'.resId]
                        IN  v.ready /\ v.link # 0 /\ lec'.links[v.link].peer = lew[1][1]
    OBVIOUS
  <2>2. LinksInv' /\ Told
    BY <2>1, LinksStep
  <2>3. /\ lec'.devs[lec'.resId].ready /\ lec'.resId \in Ids(lec')
        /\ lec'.devs[lec'.resId].addr[1] = lew[1][1]
    BY <2>1, <2>2 DEF Told
  <2>4. Linked(lec')
    BY <2>2 DEF LinksInv
  <2>5. /\ lec'.devs[lec'.resId].link # 0
        /\ lec'.links[lec'.devs[lec'.resId].link].peer = lec'.devs[lec'.resId].addr[1]
    BY <2>3, <2>4, ReadyIsNamed
  <2>6. QED
    BY <2>3, <2>5
<1>4. QED
  BY <1>1, <1>2, <1>3, PTL DEF LeConnectSpec, ConnectedIsAsked
=============================================================================
