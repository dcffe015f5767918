-------------------------- MODULE HostConnectProofs --------------------------
(***************************************************************************)
(* The connection to the device is safe, for every set of devices and      *)
(* every number of connections, sessions and attempts.                     *)
(***************************************************************************)
EXTENDS HostConnect, TLAPS

(***************************************************************************)
(* The inductive invariant                                                 *)
(***************************************************************************)

\* BTstack numbers its connections, and forgets all of one that is gone.
CidInv ==
    /\ app <= cids
    /\ \A d \in Device : /\ av[d].cid <= cids
                         /\ av[d].st = "none" => av[d] = NoSignaling
                         /\ av[d].st # "none" => av[d].cid >= 1
    /\ \A c \in Cid : c > cids => losses[c] = 0
    /\ gone # Nil => av[gone] = NoSignaling
    /\ \A d \in Device : d # Target /\ d \notin theirs => av[d] = NoSignaling

\* Where the steps that several calls share go on.
NextInv ==
    /\ where \in {"dropAcl", "aclWait"} => l.next \in {"pause", "begin", "idle"}
    /\ where \in {"abort", "classify", "disconnect"} => l.next # "closing"
    /\ where \in {"leftover", "closing", "establish", "wait", "configure", "confWait", "start",
                  "startWait", "play", "devWait", "device", "adopt", "adopted", "anew"} =>
           sh.stalled = FALSE
    /\ where \in {"relWait", "forget", "reset"} /\ l.next = "closing" => sh.stalled = FALSE

\* A page of a link that goes down.
PageInv ==
    /\ PageNotDropped
    /\ where = "establish" /\ acl[Target] = "closing" => race = TRUE

\* From the start of the stream on its connection is there, or its loss flagged.
KnownInv ==
    where \in {"startWait", "play"} /\ sh.lost = FALSE => Ours \/ theirs \ {Target} # {}

\* The states of the session in which it has no connection of its own
Calm == {"idle", "begin", "leftover", "closing", "establish", "failed", "auth", "dropAcl",
         "aclWait", "pause", "restore", "between", "anew", "over", "outlived"}

\* While no device opened a connection itself, there is only the session's.
RealInv ==
    theirs = {} =>
      /\ sh.lost \/ av[Target].st = "pending" => sh.connected = FALSE /\ sh.streaming = FALSE
      /\ sh.lost => av[Target].st \in {"none", "closing"}
      /\ av[Target].st \in {"pending", "open"} => av[Target].cid = app
      /\ av[Target].st \in {"open", "closing"} /\ av[Target].cid = app => sh.con = Target
      /\ av[Target].st = "closing" /\ av[Target].cid = app => where \in {"relWait", "forget"}
      /\ where \in Calm => /\ av[Target].st \in {"none", "closing"}
                           /\ sh.connected = FALSE /\ sh.streaming = FALSE
      /\ where \in {"relWait", "forget", "reset"} => av[Target].st \in {"none", "closing"}
      /\ where \in {"leftover", "closing", "establish"} => sh.lost = FALSE
      /\ where \notin {"devWait", "device", "adopt", "adopted"}

\* And each loss is told once.
OnceInv ==
    theirs = {} =>
      /\ \A c \in Cid : losses[c] <= 1
      /\ app # 0 /\ losses[app] = 1 =>
            sh.connected = FALSE /\ sh.streaming = FALSE /\ av[Target].cid # app

\* Where a session may be that dropped the key to pair again
Pairing == {"begin", "leftover", "relWait", "forget", "reset", "closing", "establish", "wait",
            "check", "classify", "abort", "outlived", "failed", "dropAcl", "aclWait", "pause",
            "restore"}

KeyInv ==
    /\ l.dropped # Nil =>
          where \in Pairing /\ l.mode = "connect" /\ l.next \notin {"idle", "between", "over"}
    /\ l.dropped # Nil => l.repaired = TRUE
    /\ where = "wait" /\ key = Nil =>
          app # 0 /\ \A d \in Device : av[d].st \in {"open", "closing"} => av[d].cid # app
    /\ where = "auth" => l.mode = "connect" /\ l.repaired = FALSE

\* What a step may not do to the key
KeySafe ==
    key # Nil \/ l.dropped # Nil =>
       \/ key' # Nil \/ (l'.dropped # Nil /\ where' # "idle")
       \/ where = "wait" /\ where' = "configure" /\ ~Ours

HostInv ==
    /\ HostTypeOK /\ CidInv /\ NextInv /\ PageInv /\ KnownInv /\ RealInv /\ OnceInv /\ KeyInv

\* The answers a flag may hold, and the failures.
LEMMA Values ==
    /\ Nil \in Done /\ \A b \in BOOLEAN : b \in Done
    /\ \A f \in {Nil, "NoAnswer", "LinkLost", "Refused", "AuthFailed", "Stalled", "Cancelled",
                 "Other"} : f \in Failure \cup {Nil}
BY DEF Done, Failure

\* The constants.
LEMMA Bounds ==
    /\ Attempts \in Nat /\ Attempts >= 1 /\ MaxCid \in Nat /\ MaxCid >= 1 /\ MaxSession \in Nat
    /\ MaxSession >= 1 /\ Target \in Device /\ Opens \subseteq Device
    /\ Nil \notin Device /\ Nil # "old" /\ Nil # "new"
BY DeviceAssumption, BoundAssumption, NilAssumption

(***************************************************************************)
(* What the steps do to the records                                        *)
(***************************************************************************)

\* The connection of d becomes r, the others stay.
Put(d, r) ==
    /\ av' \in [Device -> Signaling] /\ av'[d] = r
    /\ \A e \in Device : e # d => av'[e] = av[e]

\* Of the shared state only answers, failures and the cancel change.
SameLive ==
    /\ sh' \in Shared /\ sh'.connected = sh.connected /\ sh'.streaming = sh.streaming
    /\ sh'.lost = sh.lost /\ sh'.stalled = sh.stalled

SameShared == SameLive /\ sh'.con = sh.con

\* Of the locals only the error, the attempt and the way on change.
SameLocals ==
    /\ l' \in Locals /\ l'.mode = l.mode /\ l'.repaired = l.repaired
    /\ l'.dropped = l.dropped

\* Of the connections only the streams on them change.
Streams ==
    /\ av' \in [Device -> Signaling]
    /\ \A e \in Device : /\ av'[e].cid = av[e].cid /\ av'[e].st = av[e].st
                         /\ av[e].st = "none" => av'[e] = av[e]

\* Connection c is released: if it is the current one, it is reported lost.
Lost(c) ==
    \/ /\ app = c /\ app' = 0 /\ losses' = [losses EXCEPT ![c] = @ + 1]
       /\ sh' \in Shared /\ sh'.connected = FALSE /\ sh'.streaming = FALSE /\ sh'.lost = TRUE
       /\ sh'.con = sh.con /\ sh'.stalled = sh.stalled
    \/ app # c /\ SameShared /\ UNCHANGED <<app, losses>>

\* NoSignaling is a connection record.
LEMMA NoSignalingTyped ==
    NoSignaling \in Signaling /\ NoSignaling.cid = 0 /\ NoSignaling.st = "none"
<1>1. 0 \in 0 .. MaxCid
  BY Bounds
<1> QED BY <1>1 DEF NoSignaling, Signaling

\* The connections of the stack are numbered; a connection that closes keeps
\* its number.
LEMMA Typed ==
    ASSUME HostInv
    PROVE  /\ app \in Nat /\ app <= MaxCid /\ cids \in Nat /\ cids <= MaxCid
           /\ \A d \in Device : /\ av[d] \in Signaling /\ av[d].cid \in Nat /\ av[d].cid <= MaxCid
                                /\ av[d].st \in {"none", "pending", "open", "closing"}
                                /\ Closing(av[d]).cid = av[d].cid
                                /\ Closing(av[d]).st = "closing"
BY Bounds DEF HostInv, HostTypeOK, Signaling, Closing

\* One more loss of a connection.
LEMMA LossesTyped ==
    ASSUME HostInv, NEW c \in Cid, losses' = [losses EXCEPT ![c] = @ + 1]
    PROVE  losses'[c] = losses[c] + 1 /\ \A e \in Cid : e # c => losses'[e] = losses[e]
BY DEF HostInv, HostTypeOK

\* A failed connection ends the wait for it, and nothing else.
LEMMA FailingFacts ==
    ASSUME sh \in Shared, NEW c, NEW why \in Failure \cup {Nil}, Failing(c, why)
    PROVE  SameShared /\ (app' = app \/ (app = 0 /\ app' = c))
<1>1. CASE app \in {0, c}
  <2>1. app' = c /\ sh' = [sh EXCEPT !.fail = why, !.connectDone = FALSE]
    BY <1>1 DEF Failing
  <2>2. SameShared
    BY <2>1, Values DEF SameShared, SameLive, Shared
  <2> QED BY <1>1, <2>1, <2>2
<1>2. CASE app \notin {0, c}
  BY <1>2 DEF Failing, SameShared, SameLive
<1> QED BY <1>1, <1>2

\* An established connection becomes the current one unless there is another.
LEMMA EstablishedFacts ==
    ASSUME sh \in Shared, NEW d \in Device, NEW c, OnEstablished(d, c)
    PROVE  /\ SameLive
           /\ \/ app \in {0, c} /\ app' = c /\ sh'.con = d
              \/ app \notin {0, c} /\ app' = app /\ sh'.con = sh.con
<1>1. CASE app \in {0, c}
  <2>1. app' = c /\ sh' = [sh EXCEPT !.con = d, !.config = FALSE, !.streamDone = Nil]
    BY <1>1 DEF OnEstablished
  <2>2. SameLive /\ sh'.con = d
    BY <2>1, Values DEF SameLive, Shared
  <2> QED BY <1>1, <2>1, <2>2
<1>2. CASE app \notin {0, c}
  BY <1>2 DEF OnEstablished, SameLive
<1> QED BY <1>1, <1>2

\* The release of a connection.
LEMMA ReleasedFacts ==
    ASSUME sh \in Shared, NEW c, OnReleased(c) PROVE Lost(c)
<1>1. CASE app = c
  <2>1. /\ app' = 0 /\ losses' = [losses EXCEPT ![c] = @ + 1]
        /\ sh' = [sh EXCEPT !.connected = FALSE, !.streaming = FALSE, !.lost = TRUE]
    BY <1>1 DEF OnReleased
  <2>2. /\ sh' \in Shared /\ sh'.connected = FALSE /\ sh'.streaming = FALSE /\ sh'.lost = TRUE
        /\ sh'.con = sh.con /\ sh'.stalled = sh.stalled
    BY <2>1 DEF Shared
  <2> QED BY <1>1, <2>1, <2>2 DEF Lost
<1>2. CASE app # c
  BY <1>2 DEF OnReleased, SameShared, SameLive, Lost
<1> QED BY <1>1, <1>2

\* A release is told at most once, and only of a connection there was.
LEMMA LostKeeps ==
    ASSUME HostInv, NEW d \in Device, IsOpen(av[d]), Put(d, NoSignaling), Lost(av[d].cid),
           theirs' = theirs, cids' = cids
    PROVE  OnceInv' /\ app' <= cids /\ \A c \in Cid : c > cids => losses'[c] = 0
<1>1. av[d].st # "none" /\ av[d].cid >= 1 /\ av[d].cid <= cids
  BY Typed DEF HostInv, CidInv, IsOpen
<1>2. theirs = {} => d = Target
  BY <1>1, NoSignalingTyped DEF HostInv, CidInv
<1>3. \A c \in Cid : losses[c] \in Nat
  BY DEF HostInv, HostTypeOK
<1>4. CASE app = av[d].cid
  <2>1. app \in Cid /\ app' = 0 /\ losses' = [losses EXCEPT ![app] = @ + 1]
    BY <1>1, <1>4, Typed, Bounds DEF Lost, Cid
  <2>2. losses'[app] = losses[app] + 1 /\ \A e \in Cid : e # app => losses'[e] = losses[e]
    BY <2>1, LossesTyped
  <2>3. \A c \in Cid : c > cids => losses'[c] = 0
    BY <1>1, <1>4, <2>1, <2>2, Typed, Bounds DEF HostInv, CidInv, Cid
  <2>4. theirs = {} => losses[app] = 0
    BY <1>1, <1>2, <1>3, <1>4, <2>1, Typed DEF HostInv, OnceInv
  <2>5. OnceInv'
    BY <1>3, <2>1, <2>2, <2>4 DEF HostInv, OnceInv
  <2> QED BY <2>1, <2>3, <2>5, Typed
<1>5. CASE app # av[d].cid
  <2>1. app' = app /\ losses' = losses /\ SameShared
    BY <1>5 DEF Lost
  <2>2. \A c \in Cid : c > cids => losses'[c] = 0
    BY <2>1 DEF HostInv, CidInv
  <2>3. OnceInv'
    BY <1>2, <2>1, NoSignalingTyped DEF HostInv, OnceInv, Put, SameShared, SameLive
  <2> QED BY <2>1, <2>2, <2>3 DEF HostInv, CidInv
<1> QED BY <1>4, <1>5

\* One lemma per step: it keeps the invariant, and the key.

\* A new session starts with fresh locals.
LEMMA StartKeeps ==
    ASSUME HostInv, Start PROVE HostInv' /\ KeySafe
<1>1. HostTypeOK'
  <2>1. l' \in Locals
    BY Bounds, Values
       DEF Start, Fresh, With, stack, HostInv, HostTypeOK, Locals, Shared, Signaling
  <2>2. stop' \in [asked : BOOLEAN, cancelled : BOOLEAN]
    BY DEF Start, HostInv, HostTypeOK
  <2> QED
    BY <2>1, <2>2, Bounds, Values
       DEF Start, Fresh, With, stack, HostInv, HostTypeOK, Locals, Cid, Signaling
<1>2. NextInv'
  BY Bounds
     DEF Start, Fresh, With, stack, HostInv, HostTypeOK, Done, Locals, Shared, Signaling, NextInv
<1>3. PageInv'
  BY Bounds
     DEF Start, Fresh, With, stack, HostInv, HostTypeOK, Done, Locals, Shared, Signaling, PageInv,
         PageNotDropped
<1>4. KnownInv'
  BY Bounds
     DEF Start, Fresh, With, stack, HostInv, HostTypeOK, Done, Locals, Shared, Signaling,
         KnownInv, Ours, CidInv, NoSignaling
<1>5. RealInv'
  BY Bounds
     DEF Start, Fresh, With, stack, HostInv, HostTypeOK, Done, Locals, Shared, Signaling, RealInv,
         Calm, CidInv, NoSignaling, NextInv
<1>6. KeyInv'
  BY Bounds
     DEF Start, Fresh, With, stack, HostInv, HostTypeOK, Done, Locals, Shared, Signaling, KeyInv,
         Pairing, CidInv, NoSignaling
<1>7. CidInv' /\ OnceInv'
  BY Bounds
     DEF Start, Fresh, With, stack, HostInv, CidInv, OnceInv
<1>8. KeySafe
  BY Bounds
     DEF Start, Fresh, With, stack, HostInv, HostTypeOK, Locals, KeyInv, KeySafe, Pairing, Ours
<1> QED BY <1>1, <1>2, <1>3, <1>4, <1>5, <1>6, <1>7, <1>8 DEF HostInv

\* A stop only raises its flag.
LEMMA AskKeeps ==
    ASSUME HostInv, Ask PROVE HostInv' /\ KeySafe
<1>1. HostTypeOK'
  <2>1. stop' \in [asked : BOOLEAN, cancelled : BOOLEAN]
    BY DEF Ask, HostInv, HostTypeOK
  <2> QED
    BY <2>1, Bounds, Values
       DEF Ask, stack, HostInv, HostTypeOK, Locals, Cid, Signaling
<1>2. CidInv' /\ NextInv' /\ PageInv' /\ KnownInv' /\ RealInv' /\ OnceInv' /\ KeyInv'
  BY Bounds
     DEF Ask, stack, HostInv, CidInv, NextInv, PageInv, KnownInv, RealInv, OnceInv, KeyInv,
         PageNotDropped, Ours
<1>3. KeySafe
  BY Bounds
     DEF Ask, stack, HostInv, HostTypeOK, Locals, KeyInv, KeySafe, Pairing, Ours
<1> QED BY <1>1, <1>2, <1>3 DEF HostInv

\* The cancel of a stop ends waits, and changes nothing that is live.
LEMMA CancelWaitsKeeps ==
    ASSUME HostInv, CancelWaits PROVE HostInv' /\ KeySafe
<1>1. HostTypeOK'
  <2>1. sh' \in Shared
    BY Bounds, Values
       DEF CancelWaits, stack, HostInv, HostTypeOK, Locals, Shared, Signaling
  <2>2. stop' \in [asked : BOOLEAN, cancelled : BOOLEAN]
    BY DEF CancelWaits, HostInv, HostTypeOK
  <2> QED
    BY <2>1, <2>2, Bounds, Values
       DEF CancelWaits, stack, HostInv, HostTypeOK, Locals, Cid, Signaling
<1>2. NextInv'
  BY Bounds
     DEF CancelWaits, stack, HostInv, HostTypeOK, Done, Locals, Shared, Signaling, NextInv
<1>3. KnownInv'
  BY Bounds
     DEF CancelWaits, stack, HostInv, HostTypeOK, Done, Locals, Shared, Signaling, KnownInv, Ours,
         CidInv, NoSignaling
<1>4. RealInv'
  BY Bounds
     DEF CancelWaits, stack, HostInv, HostTypeOK, Done, Locals, Shared, Signaling, RealInv, Calm,
         CidInv, NoSignaling, NextInv
<1>5. OnceInv'
  BY Bounds
     DEF CancelWaits, stack, HostInv, HostTypeOK, Done, Locals, Shared, Signaling, OnceInv,
         RealInv, CidInv, NoSignaling, Cid
<1>6. CidInv' /\ PageInv' /\ KeyInv'
  BY Bounds
     DEF CancelWaits, stack, HostInv, CidInv, PageInv, KeyInv, PageNotDropped
<1>7. KeySafe
  BY Bounds
     DEF CancelWaits, stack, HostInv, HostTypeOK, Locals, KeyInv, KeySafe, Pairing, Ours
<1> QED BY <1>1, <1>2, <1>3, <1>4, <1>5, <1>6, <1>7 DEF HostInv

\* connect clears the flags of an earlier connection, or refuses on a stalled stack.
LEMMA BeginKeeps ==
    ASSUME HostInv, Begin PROVE HostInv' /\ KeySafe
<1>0. /\ where = "begin" /\ UNCHANGED <<stop, begun, app, stack, key, losses, theirs, race>>
      /\ sh' \in Shared /\ sh'.connected = sh.connected /\ sh'.streaming = sh.streaming
      /\ sh'.con = sh.con /\ sh'.stalled = sh.stalled /\ l' \in Locals
      /\ l'.mode = l.mode /\ l'.repaired = l.repaired /\ l'.dropped = l.dropped
      /\ l'.next = l.next
      /\ \/ where' = "failed" /\ sh'.lost = sh.lost
         \/ where' = "leftover" /\ sh'.lost = FALSE /\ sh.stalled = FALSE
  <2>1. /\ sh \in Shared /\ l \in Locals
        /\ UNCHANGED <<stop, begun, app, stack, key, losses, theirs, race>>
    BY DEF Begin, HostInv, HostTypeOK
  <2>2. CASE sh.stalled
    <3>1. /\ where' = "failed" /\ l' = [l EXCEPT !.err = "Stalled"]
          /\ sh' = [sh EXCEPT !.fail = "Stalled"] /\ where = "begin"
      BY <2>2 DEF Begin, With
    <3>2. /\ l' \in Locals /\ l'.mode = l.mode /\ l'.repaired = l.repaired
          /\ l'.dropped = l.dropped /\ l'.next = l.next
      BY <2>1, <3>1, Values DEF Locals
    <3>3. /\ sh' \in Shared /\ sh'.connected = sh.connected /\ sh'.streaming = sh.streaming
          /\ sh'.con = sh.con /\ sh'.stalled = sh.stalled /\ sh'.lost = sh.lost
      BY <2>1, <3>1, Values DEF Shared
    <3> QED BY <2>1, <3>1, <3>2, <3>3
  <2>3. CASE ~sh.stalled
    <3>1. /\ where' = "leftover" /\ l' = l /\ where = "begin"
          /\ sh' = [sh EXCEPT !.lost = FALSE, !.fail = Nil, !.cancel = FALSE,
                              !.connectDone = Nil, !.streamDone = Nil]
      BY <2>3 DEF Begin, Goto
    <3>2. /\ sh' \in Shared /\ sh'.connected = sh.connected /\ sh'.streaming = sh.streaming
          /\ sh'.con = sh.con /\ sh'.stalled = sh.stalled /\ sh'.lost = FALSE
      BY <2>1, <3>1, Values DEF Shared
    <3>3. sh.stalled = FALSE
      BY <2>1, <2>3 DEF Shared
    <3> QED BY <2>1, <3>1, <3>2, <3>3
  <2> QED BY <2>2, <2>3
<1>1. HostTypeOK'
  BY <1>0, Bounds
     DEF stack, HostInv, HostTypeOK, Cid
<1>2. NextInv'
  BY <1>0, Bounds
     DEF stack, HostInv, HostTypeOK, Locals, Shared, Signaling, NextInv
<1>3. PageInv'
  BY <1>0, Bounds
     DEF stack, HostInv, HostTypeOK, Locals, Shared, Signaling, PageInv, PageNotDropped
<1>4. KnownInv'
  BY <1>0, Bounds
     DEF stack, HostInv, HostTypeOK, Locals, Shared, Signaling, KnownInv, Ours, CidInv,
         NoSignaling
<1>5. RealInv'
  BY <1>0, Bounds
     DEF stack, HostInv, HostTypeOK, Locals, Shared, Signaling, RealInv, Calm, CidInv,
         NoSignaling, NextInv
<1>6. OnceInv'
  BY <1>0, Bounds
     DEF stack, HostInv, HostTypeOK, Locals, Shared, Signaling, OnceInv, RealInv, CidInv,
         NoSignaling, Cid
<1>7. KeyInv'
  BY <1>0, Bounds
     DEF stack, HostInv, HostTypeOK, Locals, Shared, Signaling, KeyInv, Pairing, CidInv,
         NoSignaling
<1>8. CidInv'
  BY <1>0, Bounds
     DEF stack, HostInv, CidInv
<1>9. KeySafe
  BY <1>0, Bounds
     DEF stack, HostInv, HostTypeOK, Locals, KeyInv, KeySafe, Pairing, Ours
<1> QED BY <1>1, <1>2, <1>3, <1>4, <1>5, <1>6, <1>7, <1>8, <1>9 DEF HostInv

\* release_leftover_avdtp closes or frees the connection that was left.
LEMMA LeftoverKeeps ==
    ASSUME HostInv, Leftover PROVE HostInv' /\ KeySafe
<1>0. /\ where = "leftover" /\ gone = Nil
      /\ UNCHANGED <<stop, begun, acl, cids, gone, dead, key, losses, theirs, race>>
      /\ SameShared /\ SameLocals
      /\ \/ /\ where' = "closing" /\ av[Target].st = "none" /\ av' = av /\ app' = app
            /\ l'.next = l.next
         \/ /\ where' = "relWait" /\ IsOpen(av[Target]) /\ app' = app /\ l'.next = "closing"
            /\ Put(Target, Closing(av[Target]))
         \/ /\ where' = "forget" /\ av[Target].st = "pending" /\ l'.next = "closing"
            /\ Put(Target, NoSignaling) /\ (app' = app \/ (app = 0 /\ app' = av[Target].cid))
  <2>1. sh \in Shared /\ l \in Locals /\ av \in [Device -> Signaling] /\ app \in 0..MaxCid
    BY DEF HostInv, HostTypeOK
  <2>2. /\ where = "leftover" /\ gone = Nil
        /\ UNCHANGED <<stop, begun, acl, cids, gone, dead, key, losses, theirs, race>>
    BY DEF Leftover, Job
  <2>3. CASE /\ av[Target].st = "none"
             /\ Goto("closing") /\ UNCHANGED <<l, av, app, sh>>
    BY <2>1, <2>2, <2>3 DEF Goto, SameShared, SameLive, SameLocals
  <2>4. CASE /\ IsOpen(av[Target])
             /\ av' = [av EXCEPT ![Target] = Closing(@)]
             /\ With("relWait", [l EXCEPT !.next = "closing"])
             /\ UNCHANGED <<app, sh>>
    <3>1. Put(Target, Closing(av[Target]))
      BY <2>1, <2>4, Bounds DEF Put, Closing, Signaling
    <3>2. SameLocals /\ l'.next = "closing" /\ where' = "relWait"
      BY <2>1, <2>4 DEF With, Locals, SameLocals
    <3> QED BY <2>1, <2>2, <2>4, <3>1, <3>2 DEF SameShared, SameLive
  <2>5. CASE /\ av[Target].st = "pending"
             /\ av' = [av EXCEPT ![Target] = NoSignaling]
             /\ Failing(av[Target].cid, "LinkLost")
             /\ With("forget", [l EXCEPT !.next = "closing"])
    <3>1. Put(Target, NoSignaling)
      BY <2>1, <2>5, NoSignalingTyped, Bounds DEF Put
    <3>2. SameLocals /\ l'.next = "closing" /\ where' = "forget"
      BY <2>1, <2>5 DEF With, Locals, SameLocals
    <3>3. SameShared /\ (app' = app \/ (app = 0 /\ app' = av[Target].cid))
      BY <2>1, <2>5, FailingFacts, Values
    <3> QED BY <2>2, <2>5, <3>1, <3>2, <3>3
  <2> QED BY <2>3, <2>4, <2>5 DEF Leftover
<1>1. HostTypeOK'
  BY <1>0, Bounds, Typed
     DEF Put, SameShared, SameLocals, SameLive, HostInv, HostTypeOK
<1>2. CidInv'
  BY <1>0, Bounds, Typed, NoSignalingTyped
     DEF IsOpen, Put, SameShared, SameLocals, SameLive, HostInv, CidInv, Cid
<1>3. NextInv'
  BY <1>0, Bounds
     DEF IsOpen, Closing, Put, SameShared, SameLocals, SameLive, HostInv, HostTypeOK, Locals,
         Shared, Signaling, NextInv
<1>4. PageInv'
  BY <1>0, Bounds
     DEF IsOpen, Closing, Put, SameShared, SameLocals, SameLive, HostInv, HostTypeOK, Locals,
         Shared, Signaling, PageInv, PageNotDropped
<1>5. KnownInv'
  BY <1>0, Bounds
     DEF IsOpen, Closing, Put, SameShared, SameLocals, SameLive, HostInv, HostTypeOK, Locals,
         Shared, Signaling, KnownInv, Ours, CidInv
<1>6. RealInv'
  BY <1>0, Bounds
     DEF IsOpen, Closing, Put, SameShared, SameLocals, SameLive, HostInv, HostTypeOK, Locals,
         Shared, Signaling, RealInv, Calm, CidInv, NextInv
<1>7. OnceInv'
  BY <1>0, Bounds
     DEF IsOpen, Closing, Put, SameShared, SameLocals, SameLive, HostInv, HostTypeOK, Locals,
         Shared, Signaling, OnceInv, RealInv, CidInv, Cid
<1>8. KeyInv'
  BY <1>0, Bounds
     DEF IsOpen, Closing, Put, SameShared, SameLocals, SameLive, HostInv, HostTypeOK, Locals,
         Shared, Signaling, KeyInv, Pairing, CidInv
<1>9. KeySafe
  BY <1>0, Bounds
     DEF IsOpen, Closing, Put, SameShared, SameLocals, SameLive, HostInv, HostTypeOK, Locals,
         KeyInv, KeySafe, Pairing, Ours
<1> QED BY <1>1, <1>2, <1>3, <1>4, <1>5, <1>6, <1>7, <1>8, <1>9 DEF HostInv

\* The release came, or did not in time.
LEMMA RelWaitKeeps ==
    ASSUME HostInv, RelWait PROVE HostInv' /\ KeySafe
<1>1. HostTypeOK'
  <2> QED
    BY Bounds, Values
       DEF RelWait, Goto, stack, HostInv, HostTypeOK, Locals, Cid, Signaling
<1>2. NextInv'
  BY Bounds
     DEF RelWait, Goto, stack, HostInv, HostTypeOK, Done, Locals, Shared, Signaling, NextInv
<1>3. PageInv'
  BY Bounds
     DEF RelWait, Goto, stack, HostInv, HostTypeOK, Done, Locals, Shared, Signaling, PageInv,
         PageNotDropped
<1>4. KnownInv'
  BY Bounds
     DEF RelWait, Goto, stack, HostInv, HostTypeOK, Done, Locals, Shared, Signaling, KnownInv,
         Ours, CidInv, NoSignaling
<1>5. RealInv'
  BY Bounds
     DEF RelWait, Goto, stack, HostInv, HostTypeOK, Done, Locals, Shared, Signaling, RealInv,
         Calm, CidInv, NoSignaling, NextInv
<1>6. KeyInv'
  BY Bounds
     DEF RelWait, Goto, stack, HostInv, HostTypeOK, Done, Locals, Shared, Signaling, KeyInv,
         Pairing, CidInv, NoSignaling
<1>7. CidInv' /\ OnceInv'
  BY Bounds
     DEF RelWait, Goto, stack, HostInv, CidInv, OnceInv
<1>8. KeySafe
  BY Bounds
     DEF RelWait, Goto, stack, HostInv, HostTypeOK, Locals, KeyInv, KeySafe, Pairing, Ours
<1> QED BY <1>1, <1>2, <1>3, <1>4, <1>5, <1>6, <1>7, <1>8 DEF HostInv

\* The current connection is forgotten.
LEMMA ForgetKeeps ==
    ASSUME HostInv, Forget PROVE HostInv' /\ KeySafe
<1>1. HostTypeOK'
  <2> QED
    BY Bounds, Values
       DEF Forget, Goto, Job, stack, HostInv, HostTypeOK, Locals, Cid, Signaling
<1>2. CidInv'
  BY Bounds
     DEF Forget, Goto, Job, stack, HostInv, HostTypeOK, Done, Locals, Shared, Signaling, CidInv,
         NoSignaling, Cid
<1>3. NextInv'
  BY Bounds
     DEF Forget, Goto, Job, stack, HostInv, HostTypeOK, Done, Locals, Shared, Signaling, NextInv
<1>4. PageInv'
  BY Bounds
     DEF Forget, Goto, Job, stack, HostInv, HostTypeOK, Done, Locals, Shared, Signaling, PageInv,
         PageNotDropped
<1>5. KnownInv'
  BY Bounds
     DEF Forget, Goto, Job, stack, HostInv, HostTypeOK, Done, Locals, Shared, Signaling, KnownInv,
         Ours, CidInv, NoSignaling
<1>6. RealInv'
  BY Bounds
     DEF Forget, Goto, Job, stack, HostInv, HostTypeOK, Done, Locals, Shared, Signaling, RealInv,
         Calm, CidInv, NoSignaling, NextInv
<1>7. OnceInv'
  BY Bounds
     DEF Forget, Goto, Job, stack, HostInv, HostTypeOK, Done, Locals, Shared, Signaling, OnceInv,
         RealInv, CidInv, NoSignaling, Cid
<1>8. KeyInv'
  BY Bounds
     DEF Forget, Goto, Job, stack, HostInv, HostTypeOK, Done, Locals, Shared, Signaling, KeyInv,
         Pairing, CidInv, NoSignaling
<1>9. KeySafe
  BY Bounds
     DEF Forget, Goto, Job, stack, HostInv, HostTypeOK, Locals, KeyInv, KeySafe, Pairing, Ours
<1> QED BY <1>1, <1>2, <1>3, <1>4, <1>5, <1>6, <1>7, <1>8, <1>9 DEF HostInv

\* The flags of a forgotten connection are cleared.
LEMMA ResetSharedKeeps ==
    ASSUME HostInv, ResetShared PROVE HostInv' /\ KeySafe
<1>1. HostTypeOK'
  <2>1. l' \in Locals
    BY Bounds, Values
       DEF ResetShared, With, stack, HostInv, HostTypeOK, Locals, Shared, Signaling
  <2>2. sh' \in Shared
    BY Bounds, Values
       DEF ResetShared, With, stack, HostInv, HostTypeOK, Locals, Shared, Signaling
  <2> QED
    BY <2>1, <2>2, Bounds, Values
       DEF ResetShared, With, stack, HostInv, HostTypeOK, Locals, Cid, Signaling
<1>2. NextInv'
  BY Bounds
     DEF ResetShared, With, stack, HostInv, HostTypeOK, Done, Locals, Shared, Signaling, NextInv
<1>3. PageInv'
  BY Bounds
     DEF ResetShared, With, stack, HostInv, HostTypeOK, Done, Locals, Shared, Signaling, PageInv,
         PageNotDropped
<1>4. KnownInv'
  BY Bounds
     DEF ResetShared, With, stack, HostInv, HostTypeOK, Done, Locals, Shared, Signaling, KnownInv,
         Ours, CidInv, NoSignaling
<1>5. RealInv'
  BY Bounds
     DEF ResetShared, With, stack, HostInv, HostTypeOK, Done, Locals, Shared, Signaling, RealInv,
         Calm, CidInv, NoSignaling, NextInv
<1>6. OnceInv'
  BY Bounds
     DEF ResetShared, With, stack, HostInv, HostTypeOK, Done, Locals, Shared, Signaling, OnceInv,
         RealInv, CidInv, NoSignaling, Cid
<1>7. KeyInv'
  BY Bounds
     DEF ResetShared, With, stack, HostInv, HostTypeOK, Done, Locals, Shared, Signaling, KeyInv,
         Pairing, CidInv, NoSignaling
<1>8. CidInv'
  BY Bounds
     DEF ResetShared, With, stack, HostInv, CidInv
<1>9. KeySafe
  BY Bounds
     DEF ResetShared, With, stack, HostInv, HostTypeOK, Locals, KeyInv, KeySafe, Pairing, Ours
<1> QED BY <1>1, <1>2, <1>3, <1>4, <1>5, <1>6, <1>7, <1>8, <1>9 DEF HostInv

\* wait_for_closing_link looked: the link is not closing, or the attempt failed.
LEMMA WaitClosingKeeps ==
    ASSUME HostInv, WaitClosing PROVE HostInv' /\ KeySafe
<1>1. HostTypeOK'
  <2>1. l' \in Locals
    BY Bounds, Values
       DEF WaitClosing, Goto, With, Job, Cancelled, stack, HostInv, HostTypeOK, Locals, Shared,
           Signaling
  <2>2. sh' \in Shared
    BY Bounds, Values
       DEF WaitClosing, Goto, With, Job, Cancelled, stack, HostInv, HostTypeOK, Locals, Shared,
           Signaling
  <2> QED
    BY <2>1, <2>2, Bounds, Values
       DEF WaitClosing, Goto, With, Job, Cancelled, stack, HostInv, HostTypeOK, Locals, Cid,
           Signaling
<1>2. NextInv'
  BY Bounds
     DEF WaitClosing, Goto, With, Job, Cancelled, stack, HostInv, HostTypeOK, Done, Locals,
         Shared, Signaling, NextInv
<1>3. PageInv'
  BY Bounds
     DEF WaitClosing, Goto, With, Job, Cancelled, stack, HostInv, HostTypeOK, Done, Locals,
         Shared, Signaling, PageInv, PageNotDropped
<1>4. KnownInv'
  BY Bounds
     DEF WaitClosing, Goto, With, Job, Cancelled, stack, HostInv, HostTypeOK, Done, Locals,
         Shared, Signaling, KnownInv, Ours, CidInv, NoSignaling
<1>5. RealInv'
  BY SMTT(30), Bounds
     DEF WaitClosing, Goto, With, Job, Cancelled, stack, HostInv, HostTypeOK, Done, Locals,
         Shared, Signaling, RealInv, Calm, CidInv, NoSignaling, NextInv
<1>6. OnceInv'
  BY ZenonT(40), Bounds
     DEF WaitClosing, Goto, With, Job, Cancelled, stack, HostInv, HostTypeOK, Done, Locals,
         Shared, Signaling, OnceInv, RealInv, CidInv, NoSignaling, Cid
<1>7. KeyInv'
  BY Bounds
     DEF WaitClosing, Goto, With, Job, Cancelled, stack, HostInv, HostTypeOK, Done, Locals,
         Shared, Signaling, KeyInv, Pairing, CidInv, NoSignaling
<1>8. CidInv'
  BY Bounds
     DEF WaitClosing, Goto, With, Job, Cancelled, stack, HostInv, CidInv
<1>9. KeySafe
  BY Bounds
     DEF WaitClosing, Goto, With, Job, Cancelled, stack, HostInv, HostTypeOK, Locals, KeyInv,
         KeySafe, Pairing, Ours
<1> QED BY <1>1, <1>2, <1>3, <1>4, <1>5, <1>6, <1>7, <1>8, <1>9 DEF HostInv

\* A new connection has a number no other has; or the stack refused it.
LEMMA EstablishKeeps ==
    ASSUME HostInv, Establish PROVE HostInv' /\ KeySafe
<1>0. /\ where = "establish" /\ gone = Nil
      /\ UNCHANGED <<stop, begun, gone, dead, key, losses, theirs, race>>
      /\ SameShared /\ SameLocals /\ l'.next = l.next
      /\ acl' \in [Device -> {"none", "paging", "open", "closing"}]
      /\ acl'[Target] = "closing" => acl[Target] = "closing"
      /\ \/ where' = "failed" /\ UNCHANGED <<app, av, cids>>
         \/ /\ where' = "wait" /\ av[Target].st = "none" /\ cids < MaxCid /\ cids' = cids + 1
            /\ app' = cids + 1 /\ av'[Target].cid = cids + 1 /\ av'[Target].st = "pending"
            /\ Put(Target, av'[Target])
  <2>1. /\ sh \in Shared /\ l \in Locals /\ av \in [Device -> Signaling] /\ app \in 0..MaxCid
        /\ acl \in [Device -> {"none", "paging", "open", "closing"}] /\ cids \in 0..MaxCid
    BY DEF HostInv, HostTypeOK
  <2>2. /\ where = "establish" /\ gone = Nil
        /\ UNCHANGED <<stop, begun, gone, dead, key, losses, theirs, race>>
    BY DEF Establish, Job
  <2>3. CASE av[Target].st = "none" /\ cids < MaxCid
    <3> DEFINE r == [NoSignaling EXCEPT !.cid = cids + 1, !.st = "pending"]
    <3>1. /\ cids' = cids + 1 /\ av' = [av EXCEPT ![Target] = r] /\ app' = cids + 1
          /\ where' = "wait"
          /\ acl' = [acl EXCEPT ![Target] = IF @ = "none" THEN "paging" ELSE @]
          /\ UNCHANGED <<l, sh>>
      BY <2>3 DEF Establish, Goto
    <3>2. r \in Signaling /\ r.cid = cids + 1 /\ r.st = "pending"
      <4>1. cids + 1 \in 0..MaxCid
        BY <2>1, <2>3, Bounds
      <4> QED BY <4>1 DEF NoSignaling, Signaling
    <3> HIDE DEF r
    <3>3. Put(Target, r)
      BY <2>1, <3>1, <3>2, Bounds DEF Put
    <3>4. /\ acl' \in [Device -> {"none", "paging", "open", "closing"}]
          /\ acl'[Target] = "closing" => acl[Target] = "closing"
      BY <2>1, <3>1, Bounds
    <3> QED BY <2>1, <2>2, <2>3, <3>1, <3>2, <3>3, <3>4 DEF SameShared, SameLive, SameLocals, Put
  <2>4. CASE ~(av[Target].st = "none" /\ cids < MaxCid)
    <3>1. /\ where' = "failed" /\ l' = [l EXCEPT !.err = "Other"]
          /\ sh' = [sh EXCEPT !.fail = "Other"]
          /\ UNCHANGED <<app, av, acl, cids>>
      BY <2>4 DEF Establish, With
    <3>2. SameLocals /\ l'.next = l.next
      BY <2>1, <3>1, Values DEF SameLocals, Locals
    <3>3. SameShared
      BY <2>1, <3>1, Values DEF SameShared, SameLive, Shared
    <3> QED BY <2>1, <2>2, <3>1, <3>2, <3>3
  <2> QED BY <2>3, <2>4
<1>1. HostTypeOK'
  BY <1>0, Bounds
     DEF Put, SameShared, SameLocals, SameLive, HostInv, HostTypeOK, Cid
<1>2. CidInv'
  BY <1>0, Bounds, Typed, NoSignalingTyped
     DEF Put, SameShared, SameLocals, SameLive, HostInv, CidInv, Cid
<1>3. NextInv'
  BY <1>0, Bounds
     DEF Put, SameShared, SameLocals, SameLive, HostInv, HostTypeOK, Locals, Shared, Signaling,
         NextInv
<1>4. PageInv'
  BY <1>0, Bounds
     DEF Put, SameShared, SameLocals, SameLive, HostInv, HostTypeOK, Locals, Shared, Signaling,
         PageInv, PageNotDropped
<1>5. KnownInv'
  BY <1>0, Bounds
     DEF Put, SameShared, SameLocals, SameLive, HostInv, HostTypeOK, Locals, Shared, Signaling,
         KnownInv, Ours, CidInv
<1>6. RealInv'
  BY <1>0, Bounds
     DEF Put, SameShared, SameLocals, SameLive, HostInv, HostTypeOK, Locals, Shared, Signaling,
         RealInv, Calm, CidInv, NextInv
<1>7. OnceInv'
  BY <1>0, Bounds
     DEF Put, SameShared, SameLocals, SameLive, HostInv, HostTypeOK, Locals, Shared, Signaling,
         OnceInv, RealInv, CidInv, Cid
<1>8. KeyInv'
  <2>1. CASE where' = "failed" /\ UNCHANGED <<app, av, cids>>
    BY <1>0, <2>1 DEF SameLocals, HostInv, KeyInv, Pairing
  <2>2. CASE /\ where' = "wait" /\ app' = cids + 1 /\ av'[Target].st = "pending"
             /\ Put(Target, av'[Target])
    <3>1. app' # 0 /\ \A d \in Device : av'[d].st \in {"open", "closing"} => av'[d].cid # app'
      BY <2>2, Typed DEF Put, HostInv, CidInv
    <3> QED BY <1>0, <2>2, <3>1 DEF SameLocals, HostInv, KeyInv, Pairing
  <2> QED BY <1>0, <2>1, <2>2
<1>9. KeySafe
  BY <1>0, Bounds
     DEF Put, SameShared, SameLocals, SameLive, HostInv, HostTypeOK, Locals, KeyInv, KeySafe,
         Pairing, Ours
<1> QED BY <1>1, <1>2, <1>3, <1>4, <1>5, <1>6, <1>7, <1>8, <1>9 DEF HostInv

\* The wait of connect ended by its flag.
LEMMA ConnectAnsweredKeeps ==
    ASSUME HostInv, ConnectAnswered PROVE HostInv' /\ KeySafe
<1>0. /\ where = "wait" /\ UNCHANGED <<stop, begun, sh, app, stack, key, losses, theirs, race>>
      /\ l' \in Locals /\ l'.mode = l.mode
      /\ \/ where' = "configure" /\ l'.dropped = Nil
         \/ /\ where' = "classify" /\ l'.next = "failed"
            /\ l'.dropped = l.dropped /\ l'.repaired = l.repaired
  <2>1. /\ l \in Locals /\ where = "wait"
        /\ UNCHANGED <<stop, begun, sh, app, stack, key, losses, theirs, race>>
    BY DEF ConnectAnswered, HostInv, HostTypeOK
  <2>2. CASE sh.connectDone
    <3>1. /\ where' = "configure"
          /\ l' = [Fresh EXCEPT !.mode = l.mode,
                 !.attempt = IF l.mode = "connect" THEN 1 ELSE l.attempt]
      BY <2>2 DEF ConnectAnswered, With
    <3>2. (IF l.mode = "connect" THEN 1 ELSE l.attempt) \in 1..Attempts + 1
      BY <2>1, Bounds DEF Locals
    <3>3. l' \in Locals /\ l'.mode = l.mode /\ l'.dropped = Nil
      BY <2>1, <3>1, <3>2, Values DEF Fresh, Locals
    <3> QED BY <2>1, <3>1, <3>3
  <2>3. CASE ~sh.connectDone
    <3>1. where' = "classify" /\ l' = [l EXCEPT !.next = "failed"]
      BY <2>3 DEF ConnectAnswered, With
    <3>2. /\ l' \in Locals /\ l'.mode = l.mode /\ l'.next = "failed" /\ l'.dropped = l.dropped
          /\ l'.repaired = l.repaired
      BY <2>1, <3>1 DEF Locals
    <3> QED BY <2>1, <3>1, <3>2
  <2> QED BY <2>2, <2>3
<1>1. HostTypeOK'
  BY <1>0, Bounds
     DEF stack, HostInv, HostTypeOK, Cid
<1>2. NextInv'
  BY <1>0, Bounds
     DEF stack, HostInv, HostTypeOK, Locals, Shared, Signaling, NextInv
<1>3. PageInv'
  BY <1>0, Bounds
     DEF stack, HostInv, HostTypeOK, Locals, Shared, Signaling, PageInv, PageNotDropped
<1>4. KnownInv'
  BY <1>0, Bounds
     DEF stack, HostInv, HostTypeOK, Locals, Shared, Signaling, KnownInv, Ours, CidInv,
         NoSignaling
<1>5. RealInv'
  BY <1>0, Bounds
     DEF stack, HostInv, HostTypeOK, Locals, Shared, Signaling, RealInv, Calm, CidInv,
         NoSignaling, NextInv
<1>6. KeyInv'
  BY <1>0, Bounds
     DEF stack, HostInv, HostTypeOK, Locals, Shared, Signaling, KeyInv, Pairing, CidInv,
         NoSignaling
<1>7. CidInv' /\ OnceInv'
  BY <1>0, Bounds
     DEF stack, HostInv, CidInv, OnceInv
<1>8. KeySafe
  BY <1>0, Bounds
     DEF stack, HostInv, HostTypeOK, Locals, KeyInv, KeySafe, Pairing, Ours
<1> QED BY <1>1, <1>2, <1>3, <1>4, <1>5, <1>6, <1>7, <1>8 DEF HostInv

\* The wait of connect was cancelled.
LEMMA ConnectCancelledKeeps ==
    ASSUME HostInv, ConnectCancelled PROVE HostInv' /\ KeySafe
<1>1. HostTypeOK'
  <2>1. l' \in Locals
    BY Bounds, Values
       DEF ConnectCancelled, Cancelled, AbortThen, With, stack, HostInv, HostTypeOK, Locals,
           Shared, Signaling
  <2> QED
    BY <2>1, Bounds, Values
       DEF ConnectCancelled, Cancelled, AbortThen, With, stack, HostInv, HostTypeOK, Locals, Cid,
           Signaling
<1>2. NextInv'
  BY Bounds
     DEF ConnectCancelled, Cancelled, AbortThen, With, stack, HostInv, HostTypeOK, Done, Locals,
         Shared, Signaling, NextInv
<1>3. PageInv'
  BY Bounds
     DEF ConnectCancelled, Cancelled, AbortThen, With, stack, HostInv, HostTypeOK, Done, Locals,
         Shared, Signaling, PageInv, PageNotDropped
<1>4. KnownInv'
  BY Bounds
     DEF ConnectCancelled, Cancelled, AbortThen, With, stack, HostInv, HostTypeOK, Done, Locals,
         Shared, Signaling, KnownInv, Ours, CidInv, NoSignaling
<1>5. RealInv'
  BY Bounds
     DEF ConnectCancelled, Cancelled, AbortThen, With, stack, HostInv, HostTypeOK, Done, Locals,
         Shared, Signaling, RealInv, Calm, CidInv, NoSignaling, NextInv
<1>6. KeyInv'
  BY Bounds
     DEF ConnectCancelled, Cancelled, AbortThen, With, stack, HostInv, HostTypeOK, Done, Locals,
         Shared, Signaling, KeyInv, Pairing, CidInv, NoSignaling
<1>7. CidInv' /\ OnceInv'
  BY Bounds
     DEF ConnectCancelled, Cancelled, AbortThen, With, stack, HostInv, CidInv, OnceInv
<1>8. KeySafe
  BY Bounds
     DEF ConnectCancelled, Cancelled, AbortThen, With, stack, HostInv, HostTypeOK, Locals, KeyInv,
         KeySafe, Pairing, Ours
<1> QED BY <1>1, <1>2, <1>3, <1>4, <1>5, <1>6, <1>7, <1>8 DEF HostInv

\* The wait of connect timed out.
LEMMA ConnectTimedOutKeeps ==
    ASSUME HostInv, ConnectTimedOut PROVE HostInv' /\ KeySafe
<1>1. HostTypeOK'
  <2> QED
    BY Bounds, Values
       DEF ConnectTimedOut, Goto, stack, HostInv, HostTypeOK, Locals, Cid, Signaling
<1>2. NextInv'
  BY Bounds
     DEF ConnectTimedOut, Goto, stack, HostInv, HostTypeOK, Done, Locals, Shared, Signaling,
         NextInv
<1>3. PageInv'
  BY Bounds
     DEF ConnectTimedOut, Goto, stack, HostInv, HostTypeOK, Done, Locals, Shared, Signaling,
         PageInv, PageNotDropped
<1>4. KnownInv'
  BY Bounds
     DEF ConnectTimedOut, Goto, stack, HostInv, HostTypeOK, Done, Locals, Shared, Signaling,
         KnownInv, Ours, CidInv, NoSignaling
<1>5. RealInv'
  BY Bounds
     DEF ConnectTimedOut, Goto, stack, HostInv, HostTypeOK, Done, Locals, Shared, Signaling,
         RealInv, Calm, CidInv, NoSignaling, NextInv
<1>6. KeyInv'
  BY Bounds
     DEF ConnectTimedOut, Goto, stack, HostInv, HostTypeOK, Done, Locals, Shared, Signaling,
         KeyInv, Pairing, CidInv, NoSignaling
<1>7. CidInv' /\ OnceInv'
  BY Bounds
     DEF ConnectTimedOut, Goto, stack, HostInv, CidInv, OnceInv
<1>8. KeySafe
  BY Bounds
     DEF ConnectTimedOut, Goto, stack, HostInv, HostTypeOK, Locals, KeyInv, KeySafe, Pairing, Ours
<1> QED BY <1>1, <1>2, <1>3, <1>4, <1>5, <1>6, <1>7, <1>8 DEF HostInv

\* check_stalled says that the stack is dead, or that the link is lost.
LEMMA CheckStalledKeeps ==
    ASSUME HostInv, CheckStalled PROVE HostInv' /\ KeySafe
<1>0. /\ where = "check" /\ UNCHANGED <<stop, begun, app, stack, key, losses, theirs, race>>
      /\ SameLocals /\ sh' \in Shared /\ sh'.connected = sh.connected
      /\ sh'.streaming = sh.streaming
      /\ sh'.lost = sh.lost /\ sh'.con = sh.con
      /\ \/ where' = "abort" /\ l'.next = "failed"
         \/ where' = "classify" /\ l'.next = "outlived"
  <2>1. /\ sh \in Shared /\ l \in Locals /\ where = "check"
        /\ UNCHANGED <<stop, begun, app, stack, key, losses, theirs, race>>
    BY DEF CheckStalled, HostInv, HostTypeOK
  <2>2. CASE sh.stalled \/ dead \/ acl[Target] = "none"
    <3>1. /\ where' = "abort" /\ l' = [l EXCEPT !.next = "failed", !.err = "Stalled"]
          /\ sh' = [sh EXCEPT !.stalled = TRUE]
      BY <2>2 DEF CheckStalled, AbortThen, With
    <3>2. SameLocals /\ l'.next = "failed"
      BY <2>1, <3>1, Values DEF Locals, SameLocals
    <3>3. /\ sh' \in Shared /\ sh'.connected = sh.connected /\ sh'.streaming = sh.streaming
          /\ sh'.lost = sh.lost /\ sh'.con = sh.con
      BY <2>1, <3>1 DEF Shared
    <3> QED BY <2>1, <3>1, <3>2, <3>3
  <2>3. CASE ~(sh.stalled \/ dead \/ acl[Target] = "none")
    <3>1. /\ where' = "classify" /\ l' = [l EXCEPT !.next = "outlived"]
          /\ sh' = [sh EXCEPT !.fail = "LinkLost"]
      BY <2>3 DEF CheckStalled, With
    <3>2. SameLocals /\ l'.next = "outlived"
      BY <2>1, <3>1 DEF Locals, SameLocals
    <3>3. SameShared
      BY <2>1, <3>1, Values DEF Shared, SameShared, SameLive
    <3> QED BY <2>1, <3>1, <3>2, <3>3 DEF SameShared, SameLive
  <2> QED BY <2>2, <2>3
<1>1. HostTypeOK'
  BY <1>0, Bounds
     DEF stack, SameLocals, HostInv, HostTypeOK, Cid
<1>2. NextInv'
  BY <1>0, Bounds
     DEF stack, SameLocals, HostInv, HostTypeOK, Locals, Shared, Signaling, NextInv
<1>3. PageInv'
  BY <1>0, Bounds
     DEF stack, SameLocals, HostInv, HostTypeOK, Locals, Shared, Signaling, PageInv,
         PageNotDropped
<1>4. KnownInv'
  BY <1>0, Bounds
     DEF stack, SameLocals, HostInv, HostTypeOK, Locals, Shared, Signaling, KnownInv, Ours,
         CidInv, NoSignaling
<1>5. RealInv'
  BY <1>0, Bounds
     DEF stack, SameLocals, HostInv, HostTypeOK, Locals, Shared, Signaling, RealInv, Calm, CidInv,
         NoSignaling, NextInv
<1>6. OnceInv'
  BY <1>0, Bounds
     DEF stack, SameLocals, HostInv, HostTypeOK, Locals, Shared, Signaling, OnceInv, RealInv,
         CidInv, NoSignaling, Cid
<1>7. KeyInv'
  BY <1>0, Bounds
     DEF stack, SameLocals, HostInv, HostTypeOK, Locals, Shared, Signaling, KeyInv, Pairing,
         CidInv, NoSignaling
<1>8. CidInv'
  BY <1>0, Bounds
     DEF stack, SameLocals, HostInv, CidInv
<1>9. KeySafe
  BY <1>0, Bounds
     DEF stack, SameLocals, HostInv, HostTypeOK, Locals, KeyInv, KeySafe, Pairing, Ours
<1> QED BY <1>1, <1>2, <1>3, <1>4, <1>5, <1>6, <1>7, <1>8, <1>9 DEF HostInv

\* classify_link_lost changes the failure only.
LEMMA ClassifyKeeps ==
    ASSUME HostInv, Classify PROVE HostInv' /\ KeySafe
<1>0. /\ where = "classify" /\ where' = "abort"
      /\ UNCHANGED <<stop, begun, app, stack, key, losses, theirs, race>>
      /\ SameLocals /\ SameShared /\ l'.next = l.next
  <2>1. /\ sh \in Shared /\ l \in Locals /\ where = "classify"
        /\ UNCHANGED <<stop, begun, app, stack, key, losses, theirs, race>>
    BY DEF Classify, HostInv, HostTypeOK
  <2>2. PICK why \in {sh.fail} \cup (IF sh.fail = "LinkLost" THEN {"Refused"} ELSE {}) :
           /\ sh' = [sh EXCEPT !.fail = why]
           /\ AbortThen(l.next, IF why = Nil THEN "Other" ELSE why)
    BY DEF Classify
  <2>3. why \in Failure \cup {Nil}
    BY <2>1, <2>2, Values DEF Shared
  <2>4. (IF why = Nil THEN "Other" ELSE why) \in Failure \cup {Nil}
    BY <2>3, Values
  <2>5. SameShared
    BY <2>1, <2>2, <2>3 DEF Shared, SameShared, SameLive
  <2>6. /\ where' = "abort"
        /\ l' = [l EXCEPT !.next = l.next, !.err = IF why = Nil THEN "Other" ELSE why]
    BY <2>2 DEF AbortThen, With
  <2>7. SameLocals /\ l'.next = l.next
    BY <2>1, <2>4, <2>6 DEF Locals, SameLocals
  <2> QED BY <2>1, <2>5, <2>6, <2>7
<1>1. HostTypeOK'
  BY <1>0, Bounds
     DEF stack, SameShared, SameLocals, SameLive, HostInv, HostTypeOK, Cid
<1>2. NextInv'
  BY <1>0, Bounds
     DEF stack, SameShared, SameLocals, SameLive, HostInv, HostTypeOK, Locals, Shared, Signaling,
         NextInv
<1>3. PageInv'
  BY <1>0, Bounds
     DEF stack, SameShared, SameLocals, SameLive, HostInv, HostTypeOK, Locals, Shared, Signaling,
         PageInv, PageNotDropped
<1>4. KnownInv'
  BY <1>0, Bounds
     DEF stack, SameShared, SameLocals, SameLive, HostInv, HostTypeOK, Locals, Shared, Signaling,
         KnownInv, Ours, CidInv, NoSignaling
<1>5. RealInv'
  BY <1>0, Bounds
     DEF stack, SameShared, SameLocals, SameLive, HostInv, HostTypeOK, Locals, Shared, Signaling,
         RealInv, Calm, CidInv, NoSignaling, NextInv
<1>6. OnceInv'
  BY <1>0, Bounds
     DEF stack, SameShared, SameLocals, SameLive, HostInv, HostTypeOK, Locals, Shared, Signaling,
         OnceInv, RealInv, CidInv, NoSignaling, Cid
<1>7. KeyInv'
  BY <1>0, Bounds
     DEF stack, SameShared, SameLocals, SameLive, HostInv, HostTypeOK, Locals, Shared, Signaling,
         KeyInv, Pairing, CidInv, NoSignaling
<1>8. CidInv'
  BY <1>0, Bounds
     DEF stack, SameShared, SameLocals, SameLive, HostInv, CidInv
<1>9. KeySafe
  BY <1>0, Bounds
     DEF stack, SameShared, SameLocals, SameLive, HostInv, HostTypeOK, Locals, KeyInv, KeySafe,
         Pairing, Ours
<1> QED BY <1>1, <1>2, <1>3, <1>4, <1>5, <1>6, <1>7, <1>8, <1>9 DEF HostInv

\* abort closes an open connection, frees a pending one, or has nothing to do.
LEMMA AbortKeeps ==
    ASSUME HostInv, Abort PROVE HostInv' /\ KeySafe
<1>0. /\ where = "abort" /\ gone = Nil
      /\ UNCHANGED <<l, stop, begun, cids, gone, dead, key, losses, theirs, race>>
      /\ SameShared /\ acl' \in [Device -> {"none", "paging", "open", "closing"}]
      /\ \/ /\ where' = "forget" /\ av' = av /\ app' = app
            /\ app = 0 \/ \A d \in Device : av[d].st # "none" => av[d].cid # app
         \/ /\ where' = "relWait" /\ app' = app
            /\ \E d \in Device : /\ app # 0 /\ av[d].cid = app /\ IsOpen(av[d])
                                 /\ Put(d, Closing(av[d]))
         \/ /\ where' = "forget" /\ app' = app /\ av[Target].st = "pending"
            /\ Put(Target, NoSignaling)
  <2>1. /\ sh \in Shared /\ l \in Locals /\ av \in [Device -> Signaling] /\ app \in 0..MaxCid
        /\ acl \in [Device -> {"none", "paging", "open", "closing"}]
    BY DEF HostInv, HostTypeOK
  <2>2. /\ where = "abort" /\ gone = Nil
        /\ UNCHANGED <<l, stop, begun, cids, gone, dead, key, losses, theirs, race>>
    BY DEF Abort, Job
  <2>3. CASE /\ app = 0 \/ ~\E d \in Device : av[d].st # "none" /\ av[d].cid = app
             /\ Goto("forget") /\ UNCHANGED <<av, acl, app, sh>>
    BY <2>1, <2>2, <2>3 DEF Goto, SameShared, SameLive
  <2>4. ASSUME NEW d \in Device, app # 0, av[d].cid = app, IsOpen(av[d]),
               av' = [av EXCEPT ![d] = Closing(@)],
               Goto("relWait"), UNCHANGED <<acl, app, sh>>
        PROVE  /\ where' = "relWait" /\ app' = app /\ SameShared
               /\ acl' \in [Device -> {"none", "paging", "open", "closing"}]
               /\ Put(d, Closing(av[d]))
    <3>1. Put(d, Closing(av[d]))
      BY <2>1, <2>4 DEF Put, Closing, Signaling
    <3> QED BY <2>1, <2>4, <3>1 DEF SameShared, SameLive, Goto
  <2>5. ASSUME app # 0, av[Target].cid = app, av[Target].st = "pending",
               av' = [av EXCEPT ![Target] = NoSignaling],
               Failing(app, "LinkLost"), NEW cancelled \in BOOLEAN,
               acl' = [acl EXCEPT ![Target] =
                          CASE @ = "open" -> "closing"
                            [] @ = "paging" /\ cancelled -> "none"
                            [] OTHER -> @],
               Goto("forget")
        PROVE  /\ where' = "forget" /\ app' = app /\ SameShared
               /\ acl' \in [Device -> {"none", "paging", "open", "closing"}]
               /\ Put(Target, NoSignaling)
    <3>1. Put(Target, NoSignaling)
      BY <2>1, <2>5, NoSignalingTyped, Bounds DEF Put
    <3>2. SameShared /\ app' = app
      BY <2>1, <2>5, FailingFacts, Values
    <3>3. acl' \in [Device -> {"none", "paging", "open", "closing"}]
      BY <2>1, <2>5, Bounds
    <3> QED BY <2>5, <3>1, <3>2, <3>3 DEF Goto
  <2> QED BY <2>2, <2>3, <2>4, <2>5 DEF Abort
<1>1. HostTypeOK'
  BY ZenonT(40), <1>0, Bounds
     DEF IsOpen, Closing, Put, SameShared, SameLive, HostInv, HostTypeOK, Cid
<1>2. CidInv'
  BY <1>0, Bounds, Typed, NoSignalingTyped
     DEF IsOpen, Put, SameShared, SameLive, HostInv, CidInv, Cid
<1>3. NextInv'
  BY <1>0, Bounds
     DEF IsOpen, Closing, Put, SameShared, SameLive, HostInv, HostTypeOK, Locals, Shared,
         Signaling, NextInv
<1>4. PageInv'
  BY <1>0, Bounds
     DEF IsOpen, Closing, Put, SameShared, SameLive, HostInv, HostTypeOK, Locals, Shared,
         Signaling, PageInv, PageNotDropped
<1>5. KnownInv'
  BY <1>0, Bounds
     DEF IsOpen, Closing, Put, SameShared, SameLive, HostInv, HostTypeOK, Locals, Shared,
         Signaling, KnownInv, Ours, CidInv
<1>6. RealInv'
  <2> SUFFICES ASSUME theirs = {} PROVE RealInv'
    BY <1>0 DEF RealInv
  <2>1. CASE where' = "forget" /\ av' = av /\ app' = app
             /\ (app = 0 \/ \A d \in Device : av[d].st # "none" => av[d].cid # app)
    <3>1. av[Target].st \in {"none", "closing"}
      <4>1. av[Target].st \in {"pending", "open"} => av[Target].cid = app
        BY DEF HostInv, RealInv
      <4>2. av[Target].st # "none" => av[Target].cid >= 1
        BY Bounds DEF HostInv, CidInv
      <4> QED BY <2>1, <4>1, <4>2, Bounds, Typed
    <3> QED BY <1>0, <2>1, <3>1 DEF SameShared, SameLive, HostInv, RealInv, Calm
  <2>2. ASSUME NEW d \in Device, where' = "relWait", app' = app, av[d].cid = app, IsOpen(av[d]),
               Put(d, Closing(av[d])), app # 0
        PROVE  RealInv'
    <3>1. d = Target
      BY <2>2, NoSignalingTyped DEF HostInv, CidInv, IsOpen
    <3> QED
      BY <1>0, <2>2, <3>1, Bounds, Typed
         DEF SameShared, SameLive, HostInv, RealInv, Calm, CidInv, Put, IsOpen
  <2>3. CASE /\ where' = "forget" /\ app' = app /\ av[Target].st = "pending"
             /\ Put(Target, NoSignaling)
    BY <1>0, <2>3, Bounds, Typed, NoSignalingTyped
       DEF SameShared, SameLive, HostInv, RealInv, Calm, CidInv, Put
  <2> QED BY <1>0, <2>1, <2>2, <2>3
<1>7. OnceInv'
  BY ZenonT(40), <1>0, Bounds
     DEF IsOpen, Closing, Put, SameShared, SameLive, HostInv, HostTypeOK, Locals, Shared,
         Signaling, OnceInv, RealInv, CidInv, Cid
<1>8. KeyInv'
  BY <1>0, Bounds
     DEF IsOpen, Closing, Put, SameShared, SameLive, HostInv, HostTypeOK, Locals, Shared,
         Signaling, KeyInv, Pairing, CidInv
<1>9. KeySafe
  BY <1>0, Bounds
     DEF IsOpen, Closing, Put, SameShared, SameLive, HostInv, HostTypeOK, Locals, KeyInv, KeySafe,
         Pairing, Ours
<1> QED BY <1>1, <1>2, <1>3, <1>4, <1>5, <1>6, <1>7, <1>8, <1>9 DEF HostInv

\* page_outlived_cancel may find the stack stalled.
LEMMA OutlivedKeeps ==
    ASSUME HostInv, Outlived PROVE HostInv' /\ KeySafe
<1>0. /\ where = "outlived" /\ where' = "failed"
      /\ UNCHANGED <<stop, begun, app, stack, key, losses, theirs, race>>
      /\ SameLocals /\ l'.next = l.next /\ sh' \in Shared /\ sh'.connected = sh.connected
      /\ sh'.streaming = sh.streaming /\ sh'.lost = sh.lost /\ sh'.con = sh.con
  <2>1. /\ sh \in Shared /\ l \in Locals /\ where = "outlived"
        /\ UNCHANGED <<stop, begun, app, stack, key, losses, theirs, race>>
    BY DEF Outlived, HostInv, HostTypeOK
  <2>2. CASE acl[Target] = "paging"
    <3>1. /\ where' = "failed" /\ l' = [l EXCEPT !.err = "Stalled"]
          /\ sh' = [sh EXCEPT !.stalled = TRUE]
      BY <2>2 DEF Outlived, With
    <3>2. SameLocals /\ l'.next = l.next
      BY <2>1, <3>1, Values DEF Locals, SameLocals
    <3>3. /\ sh' \in Shared /\ sh'.connected = sh.connected /\ sh'.streaming = sh.streaming
          /\ sh'.lost = sh.lost /\ sh'.con = sh.con
      BY <2>1, <3>1 DEF Shared
    <3> QED BY <2>1, <3>1, <3>2, <3>3
  <2>3. CASE acl[Target] # "paging"
    BY <2>1, <2>3 DEF Outlived, Goto, SameLocals
  <2> QED BY <2>2, <2>3
<1>1. HostTypeOK'
  BY <1>0, Bounds
     DEF stack, SameLocals, HostInv, HostTypeOK, Cid
<1>2. NextInv'
  BY <1>0, Bounds
     DEF stack, SameLocals, HostInv, HostTypeOK, Locals, Shared, Signaling, NextInv
<1>3. PageInv'
  BY <1>0, Bounds
     DEF stack, SameLocals, HostInv, HostTypeOK, Locals, Shared, Signaling, PageInv,
         PageNotDropped
<1>4. KnownInv'
  BY <1>0, Bounds
     DEF stack, SameLocals, HostInv, HostTypeOK, Locals, Shared, Signaling, KnownInv, Ours,
         CidInv, NoSignaling
<1>5. RealInv'
  BY <1>0, Bounds
     DEF stack, SameLocals, HostInv, HostTypeOK, Locals, Shared, Signaling, RealInv, Calm, CidInv,
         NoSignaling, NextInv
<1>6. OnceInv'
  BY <1>0, Bounds
     DEF stack, SameLocals, HostInv, HostTypeOK, Locals, Shared, Signaling, OnceInv, RealInv,
         CidInv, NoSignaling, Cid
<1>7. KeyInv'
  BY <1>0, Bounds
     DEF stack, SameLocals, HostInv, HostTypeOK, Locals, Shared, Signaling, KeyInv, Pairing,
         CidInv, NoSignaling
<1>8. CidInv'
  BY <1>0, Bounds
     DEF stack, SameLocals, HostInv, CidInv
<1>9. KeySafe
  BY <1>0, Bounds
     DEF stack, SameLocals, HostInv, HostTypeOK, Locals, KeyInv, KeySafe, Pairing, Ours
<1> QED BY <1>1, <1>2, <1>3, <1>4, <1>5, <1>6, <1>7, <1>8, <1>9 DEF HostInv

\* connect_retrying decides what to do about a failed attempt.
LEMMA FailedKeeps ==
    ASSUME HostInv, Failed PROVE HostInv' /\ KeySafe
<1>0. /\ where = "failed" /\ l.mode = "connect"
      /\ UNCHANGED <<stop, begun, app, stack, key, losses, theirs, race>>
      /\ SameLocals /\ SameShared
      /\ \/ where' = "restore" /\ l'.next = l.next
         \/ where' = "auth" /\ l.repaired = FALSE /\ l'.next = l.next
         \/ where' = "dropAcl" /\ l'.next = "pause"
  <2>1. /\ sh \in Shared /\ l \in Locals /\ where = "failed" /\ l.mode = "connect"
        /\ UNCHANGED <<stop, begun, app, stack, key, losses, theirs, race>>
        /\ sh' = [sh EXCEPT !.fail = l.err]
    BY DEF Failed, HostInv, HostTypeOK
  <2>2. SameShared
    BY <2>1 DEF Shared, Locals, SameShared, SameLive
  <2>3. CASE With("restore", [l EXCEPT !.err = "Cancelled"])
    <3>1. SameLocals /\ l'.next = l.next /\ where' = "restore"
      BY <2>1, <2>3, Values DEF Locals, SameLocals, With
    <3> QED BY <2>1, <2>2, <3>1
  <2>4. CASE ~l.repaired /\ Goto("auth") /\ UNCHANGED l
    <3>1. l.repaired = FALSE
      BY <2>1, <2>4 DEF Locals
    <3> QED BY <2>1, <2>2, <2>4, <3>1 DEF Goto, SameLocals
  <2>5. CASE /\ l.attempt < Attempts
             /\ With("dropAcl", [l EXCEPT !.attempt = @ + 1, !.next = "pause"])
    <3>1. l' = [l EXCEPT !.attempt = l.attempt + 1, !.next = "pause"] /\ where' = "dropAcl"
      BY <2>5 DEF With
    <3>2. l.attempt + 1 \in 1..Attempts + 1
      BY <2>1, <2>5, Bounds DEF Locals
    <3>3. SameLocals /\ l'.next = "pause"
      BY <2>1, <3>1, <3>2 DEF Locals, SameLocals
    <3> QED BY <2>1, <2>2, <3>1, <3>3
  <2>6. CASE Goto("restore") /\ UNCHANGED l
    BY <2>1, <2>2, <2>6 DEF Goto, SameLocals
  <2> QED BY <2>3, <2>4, <2>5, <2>6 DEF Failed
<1>1. HostTypeOK'
  BY <1>0, Bounds
     DEF stack, SameShared, SameLocals, SameLive, HostInv, HostTypeOK, Cid
<1>2. NextInv'
  BY <1>0, Bounds
     DEF stack, SameShared, SameLocals, SameLive, HostInv, HostTypeOK, Locals, Shared, Signaling,
         NextInv
<1>3. PageInv'
  BY <1>0, Bounds
     DEF stack, SameShared, SameLocals, SameLive, HostInv, HostTypeOK, Locals, Shared, Signaling,
         PageInv, PageNotDropped
<1>4. KnownInv'
  BY <1>0, Bounds
     DEF stack, SameShared, SameLocals, SameLive, HostInv, HostTypeOK, Locals, Shared, Signaling,
         KnownInv, Ours, CidInv, NoSignaling
<1>5. RealInv'
  BY <1>0, Bounds
     DEF stack, SameShared, SameLocals, SameLive, HostInv, HostTypeOK, Locals, Shared, Signaling,
         RealInv, Calm, CidInv, NoSignaling, NextInv
<1>6. OnceInv'
  BY <1>0, Bounds
     DEF stack, SameShared, SameLocals, SameLive, HostInv, HostTypeOK, Locals, Shared, Signaling,
         OnceInv, RealInv, CidInv, NoSignaling, Cid
<1>7. KeyInv'
  BY <1>0, Bounds
     DEF stack, SameShared, SameLocals, SameLive, HostInv, HostTypeOK, Locals, Shared, Signaling,
         KeyInv, Pairing, CidInv, NoSignaling
<1>8. CidInv'
  BY <1>0, Bounds
     DEF stack, SameShared, SameLocals, SameLive, HostInv, CidInv
<1>9. KeySafe
  BY <1>0, Bounds
     DEF stack, SameShared, SameLocals, SameLive, HostInv, HostTypeOK, Locals, KeyInv, KeySafe,
         Pairing, Ours
<1> QED BY <1>1, <1>2, <1>3, <1>4, <1>5, <1>6, <1>7, <1>8, <1>9 DEF HostInv

\* The key is dropped into the hands of the session, or not touched.
LEMMA AuthStatusKeeps ==
    ASSUME HostInv, AuthStatus PROVE HostInv' /\ KeySafe
<1>0. /\ where = "auth" /\ where' = "dropAcl"
      /\ UNCHANGED <<stop, begun, sh, app, stack, losses, theirs, race>>
      /\ l' \in Locals /\ l'.mode = l.mode /\ key \in {Nil, "old", "new"}
      /\ \/ /\ UNCHANGED key /\ l'.next = "pause"
            /\ l'.dropped = l.dropped /\ l'.repaired = l.repaired
         \/ /\ key' = Nil /\ l'.next = "begin" /\ l'.dropped = key /\ l'.repaired = TRUE
  <2>1. /\ l \in Locals /\ key \in {Nil, "old", "new"} /\ where = "auth"
        /\ UNCHANGED <<stop, begun, sh, app, stack, losses, theirs, race>>
    BY DEF AuthStatus, HostInv, HostTypeOK
  <2>2. CASE With("dropAcl", [l EXCEPT !.collided = TRUE, !.next = "pause"]) /\ UNCHANGED key
    <3>1. l' = [l EXCEPT !.collided = TRUE, !.next = "pause"] /\ where' = "dropAcl"
      BY <2>2 DEF With
    <3>2. /\ l' \in Locals /\ l'.mode = l.mode /\ l'.next = "pause" /\ l'.dropped = l.dropped
          /\ l'.repaired = l.repaired
      BY <2>1, <3>1 DEF Locals
    <3> QED BY <2>1, <2>2, <3>1, <3>2
  <2>3. CASE With("dropAcl", [l EXCEPT !.repaired = TRUE, !.dropped = key,
                    !.next = "begin"]) /\ key' = Nil
    <3>1. /\ l' = [l EXCEPT !.repaired = TRUE, !.dropped = key, !.next = "begin"]
          /\ where' = "dropAcl"
      BY <2>3 DEF With
    <3>2. /\ l' \in Locals /\ l'.mode = l.mode /\ l'.next = "begin" /\ l'.dropped = key
          /\ l'.repaired = TRUE
      BY <2>1, <3>1 DEF Locals
    <3> QED BY <2>1, <2>3, <3>1, <3>2
  <2> QED BY <2>2, <2>3 DEF AuthStatus
<1>1. HostTypeOK'
  BY <1>0, Bounds
     DEF stack, HostInv, HostTypeOK, Cid
<1>2. NextInv'
  BY <1>0, Bounds
     DEF stack, HostInv, HostTypeOK, Locals, Shared, Signaling, NextInv
<1>3. PageInv'
  BY <1>0, Bounds
     DEF stack, HostInv, HostTypeOK, Locals, Shared, Signaling, PageInv, PageNotDropped
<1>4. KnownInv'
  BY <1>0, Bounds
     DEF stack, HostInv, HostTypeOK, Locals, Shared, Signaling, KnownInv, Ours, CidInv,
         NoSignaling
<1>5. RealInv'
  BY <1>0, Bounds
     DEF stack, HostInv, HostTypeOK, Locals, Shared, Signaling, RealInv, Calm, CidInv,
         NoSignaling, NextInv
<1>6. KeyInv'
  BY <1>0, Bounds
     DEF stack, HostInv, HostTypeOK, Locals, Shared, Signaling, KeyInv, Pairing, CidInv,
         NoSignaling
<1>7. CidInv' /\ OnceInv'
  BY <1>0, Bounds
     DEF stack, HostInv, CidInv, OnceInv
<1>8. KeySafe
  BY <1>0, Bounds
     DEF stack, HostInv, HostTypeOK, Locals, KeyInv, KeySafe, Pairing, Ours
<1> QED BY <1>1, <1>2, <1>3, <1>4, <1>5, <1>6, <1>7, <1>8 DEF HostInv

\* drop_acl_link disconnects the link.
LEMMA DropAclKeeps ==
    ASSUME HostInv, DropAcl PROVE HostInv' /\ KeySafe
<1>1. HostTypeOK'
  <2> QED
    BY Bounds, Values
       DEF DropAcl, Goto, Job, HostInv, HostTypeOK, Locals, Cid, Signaling
<1>2. NextInv'
  BY Bounds
     DEF DropAcl, Goto, Job, HostInv, HostTypeOK, Done, Locals, Shared, Signaling, NextInv
<1>3. PageInv'
  BY Bounds
     DEF DropAcl, Goto, Job, HostInv, HostTypeOK, Done, Locals, Shared, Signaling, PageInv,
         PageNotDropped
<1>4. KnownInv'
  BY Bounds
     DEF DropAcl, Goto, Job, HostInv, HostTypeOK, Done, Locals, Shared, Signaling, KnownInv, Ours,
         CidInv, NoSignaling
<1>5. RealInv'
  BY Bounds
     DEF DropAcl, Goto, Job, HostInv, HostTypeOK, Done, Locals, Shared, Signaling, RealInv, Calm,
         CidInv, NoSignaling, NextInv
<1>6. KeyInv'
  BY Bounds
     DEF DropAcl, Goto, Job, HostInv, HostTypeOK, Done, Locals, Shared, Signaling, KeyInv,
         Pairing, CidInv, NoSignaling
<1>7. CidInv' /\ OnceInv'
  BY Bounds
     DEF DropAcl, Goto, Job, HostInv, CidInv, OnceInv
<1>8. KeySafe
  BY Bounds
     DEF DropAcl, Goto, Job, HostInv, HostTypeOK, Locals, KeyInv, KeySafe, Pairing, Ours
<1> QED BY <1>1, <1>2, <1>3, <1>4, <1>5, <1>6, <1>7, <1>8 DEF HostInv

\* The disconnection came, or did not in time.
LEMMA AclWaitKeeps ==
    ASSUME HostInv, AclWait PROVE HostInv' /\ KeySafe
<1>1. HostTypeOK'
  <2> QED
    BY Bounds, Values
       DEF AclWait, Goto, stack, HostInv, HostTypeOK, Locals, Cid, Signaling
<1>2. NextInv'
  BY Bounds
     DEF AclWait, Goto, stack, HostInv, HostTypeOK, Done, Locals, Shared, Signaling, NextInv
<1>3. PageInv'
  BY Bounds
     DEF AclWait, Goto, stack, HostInv, HostTypeOK, Done, Locals, Shared, Signaling, PageInv,
         PageNotDropped
<1>4. KnownInv'
  BY Bounds
     DEF AclWait, Goto, stack, HostInv, HostTypeOK, Done, Locals, Shared, Signaling, KnownInv,
         Ours, CidInv, NoSignaling
<1>5. RealInv'
  BY Bounds
     DEF AclWait, Goto, stack, HostInv, HostTypeOK, Done, Locals, Shared, Signaling, RealInv,
         Calm, CidInv, NoSignaling, NextInv
<1>6. KeyInv'
  BY Bounds
     DEF AclWait, Goto, stack, HostInv, HostTypeOK, Done, Locals, Shared, Signaling, KeyInv,
         Pairing, CidInv, NoSignaling
<1>7. CidInv' /\ OnceInv'
  BY Bounds
     DEF AclWait, Goto, stack, HostInv, CidInv, OnceInv
<1>8. KeySafe
  BY Bounds
     DEF AclWait, Goto, stack, HostInv, HostTypeOK, Locals, KeyInv, KeySafe, Pairing, Ours
<1> QED BY <1>1, <1>2, <1>3, <1>4, <1>5, <1>6, <1>7, <1>8 DEF HostInv

\* The pause before the next attempt.
LEMMA PauseKeeps ==
    ASSUME HostInv, Pause PROVE HostInv' /\ KeySafe
<1>1. HostTypeOK'
  <2>1. l' \in Locals
    BY Bounds, Values
       DEF Pause, Goto, With, Cancelled, stack, HostInv, HostTypeOK, Locals, Shared, Signaling
  <2> QED
    BY <2>1, Bounds, Values
       DEF Pause, Goto, With, Cancelled, stack, HostInv, HostTypeOK, Locals, Cid, Signaling
<1>2. NextInv'
  BY Bounds
     DEF Pause, Goto, With, Cancelled, stack, HostInv, HostTypeOK, Done, Locals, Shared,
         Signaling, NextInv
<1>3. PageInv'
  BY Bounds
     DEF Pause, Goto, With, Cancelled, stack, HostInv, HostTypeOK, Done, Locals, Shared,
         Signaling, PageInv, PageNotDropped
<1>4. KnownInv'
  BY Bounds
     DEF Pause, Goto, With, Cancelled, stack, HostInv, HostTypeOK, Done, Locals, Shared,
         Signaling, KnownInv, Ours, CidInv, NoSignaling
<1>5. RealInv'
  BY Bounds
     DEF Pause, Goto, With, Cancelled, stack, HostInv, HostTypeOK, Done, Locals, Shared,
         Signaling, RealInv, Calm, CidInv, NoSignaling, NextInv
<1>6. KeyInv'
  BY Bounds
     DEF Pause, Goto, With, Cancelled, stack, HostInv, HostTypeOK, Done, Locals, Shared,
         Signaling, KeyInv, Pairing, CidInv, NoSignaling
<1>7. CidInv' /\ OnceInv'
  BY Bounds
     DEF Pause, Goto, With, Cancelled, stack, HostInv, CidInv, OnceInv
<1>8. KeySafe
  BY Bounds
     DEF Pause, Goto, With, Cancelled, stack, HostInv, HostTypeOK, Locals, KeyInv, KeySafe,
         Pairing, Ours
<1> QED BY <1>1, <1>2, <1>3, <1>4, <1>5, <1>6, <1>7, <1>8 DEF HostInv

\* The dropped key is stored again: the session ends with one.
LEMMA RestoreKeyKeeps ==
    ASSUME HostInv, RestoreKey PROVE HostInv' /\ KeySafe
<1>1. HostTypeOK'
  <2>1. l' \in Locals
    BY Bounds, Values
       DEF RestoreKey, Fresh, With, Job, stack, HostInv, HostTypeOK, Locals, Shared, Signaling
  <2> QED
    BY <2>1, Bounds, Values
       DEF RestoreKey, Fresh, With, Job, stack, HostInv, HostTypeOK, Locals, Cid, Signaling
<1>2. NextInv'
  BY Bounds
     DEF RestoreKey, Fresh, With, Job, stack, HostInv, HostTypeOK, Done, Locals, Shared,
         Signaling, NextInv
<1>3. PageInv'
  BY Bounds
     DEF RestoreKey, Fresh, With, Job, stack, HostInv, HostTypeOK, Done, Locals, Shared,
         Signaling, PageInv, PageNotDropped
<1>4. KnownInv'
  BY Bounds
     DEF RestoreKey, Fresh, With, Job, stack, HostInv, HostTypeOK, Done, Locals, Shared,
         Signaling, KnownInv, Ours, CidInv, NoSignaling
<1>5. RealInv'
  BY Bounds
     DEF RestoreKey, Fresh, With, Job, stack, HostInv, HostTypeOK, Done, Locals, Shared,
         Signaling, RealInv, Calm, CidInv, NoSignaling, NextInv
<1>6. KeyInv'
  BY Bounds
     DEF RestoreKey, Fresh, With, Job, stack, HostInv, HostTypeOK, Done, Locals, Shared,
         Signaling, KeyInv, Pairing, CidInv, NoSignaling
<1>7. CidInv' /\ OnceInv'
  BY Bounds
     DEF RestoreKey, Fresh, With, Job, stack, HostInv, CidInv, OnceInv
<1>8. KeySafe
  BY Bounds
     DEF RestoreKey, Fresh, With, Job, stack, HostInv, HostTypeOK, Locals, KeyInv, KeySafe,
         Pairing, Ours
<1> QED BY <1>1, <1>2, <1>3, <1>4, <1>5, <1>6, <1>7, <1>8 DEF HostInv

\* configure changes only the stream of the connection.
LEMMA ConfigureKeeps ==
    ASSUME HostInv, Configure PROVE HostInv' /\ KeySafe
<1>0. /\ where = "configure" /\ gone = Nil
      /\ UNCHANGED <<app, stop, begun, acl, cids, gone, dead, key, losses, theirs, race>>
      /\ SameLocals /\ SameShared /\ Streams
      /\ \/ where' = "disconnect" /\ l'.next \in {"idle", "between", "over"}
         \/ where' = "confWait" /\ l'.next = l.next
  <2>1. /\ sh \in Shared /\ l \in Locals /\ av \in [Device -> Signaling]
        /\ where = "configure" /\ gone = Nil
        /\ UNCHANGED <<stop, begun, acl, cids, gone, dead, key, losses, theirs, race>> /\ CidInv
    BY DEF Configure, HostInv, HostTypeOK, Job
  <2>2. ASSUME NEW n \in {"idle", "between", "over"}, DisconnectThen(n)
        PROVE  SameLocals /\ where' = "disconnect" /\ l'.next \in {"idle", "between", "over"}
    BY <2>1, <2>2 DEF DisconnectThen, With, Locals, SameLocals
  <2>3. Gave \in {"idle", "between", "over"}
    BY DEF Gave
  <2>4. CASE ~sh.connected /\ DisconnectThen(Gave) /\ UNCHANGED <<sh, app, av>>
    BY <2>1, <2>2, <2>3, <2>4 DEF SameShared, SameLive, Streams
  <2>5. CASE l.mode # "connect" /\ DisconnectThen("over") /\ UNCHANGED <<sh, app, av>>
    BY <2>1, <2>2, <2>5 DEF SameShared, SameLive, Streams
  <2>6. ASSUME sh' = [sh EXCEPT !.streamDone = Nil] PROVE SameShared
    BY <2>1, <2>6, Values DEF Shared, SameShared, SameLive
  <2>7. CASE /\ sh' = [sh EXCEPT !.streamDone = Nil] /\ UNCHANGED app
             /\ av' = [d \in Device |-> IF av[d].cid = app /\ av[d].st = "open"
                                        THEN [av[d] EXCEPT !.stm = "configuring"] ELSE av[d]]
             /\ Goto("confWait") /\ UNCHANGED l
    <3>1. Streams
      <4>1. \A e \in Device : av'[e] = IF av[e].cid = app /\ av[e].st = "open"
                                        THEN [av[e] EXCEPT !.stm = "configuring"] ELSE av[e]
        BY <2>7
      <4>2. ASSUME NEW e \in Device
            PROVE  /\ av'[e] \in Signaling /\ av'[e].cid = av[e].cid /\ av'[e].st = av[e].st
                   /\ av[e].st = "none" => av'[e] = av[e]
        <5>1. av[e] \in Signaling
          BY <2>1
        <5> QED BY ZenonT(40), <4>1, <5>1 DEF Signaling
      <4> QED BY <2>7, <4>2 DEF Streams
    <3> QED BY <2>1, <2>6, <2>7, <3>1 DEF Goto, SameLocals
  <2>8. CASE /\ sh' = [sh EXCEPT !.streamDone = Nil] /\ UNCHANGED app
             /\ DisconnectThen(Gave) /\ UNCHANGED av
    BY <2>1, <2>2, <2>3, <2>6, <2>8 DEF Streams
  <2> QED BY <2>4, <2>5, <2>7, <2>8 DEF Configure
<1>1. HostTypeOK'
  BY <1>0, Bounds
     DEF SameShared, SameLocals, Streams, SameLive, HostInv, HostTypeOK, Cid
<1>2. CidInv'
  BY <1>0, Bounds
     DEF SameShared, SameLocals, Streams, SameLive, HostInv, HostTypeOK, Locals, Shared,
         Signaling, CidInv, NoSignaling, Cid
<1>3. NextInv'
  BY <1>0, Bounds
     DEF SameShared, SameLocals, Streams, SameLive, HostInv, HostTypeOK, Locals, Shared,
         Signaling, NextInv
<1>4. PageInv'
  BY <1>0, Bounds
     DEF SameShared, SameLocals, Streams, SameLive, HostInv, HostTypeOK, Locals, Shared,
         Signaling, PageInv, PageNotDropped
<1>5. KnownInv'
  BY <1>0, Bounds
     DEF SameShared, SameLocals, Streams, SameLive, HostInv, HostTypeOK, Locals, Shared,
         Signaling, KnownInv, Ours, CidInv, NoSignaling
<1>6. RealInv'
  BY <1>0, Bounds
     DEF SameShared, SameLocals, Streams, SameLive, HostInv, HostTypeOK, Locals, Shared,
         Signaling, RealInv, Calm, CidInv, NoSignaling, NextInv
<1>7. OnceInv'
  BY <1>0, Bounds
     DEF SameShared, SameLocals, Streams, SameLive, HostInv, HostTypeOK, Locals, Shared,
         Signaling, OnceInv, RealInv, CidInv, NoSignaling, Cid
<1>8. KeyInv'
  BY <1>0, Bounds
     DEF SameShared, SameLocals, Streams, SameLive, HostInv, HostTypeOK, Locals, Shared,
         Signaling, KeyInv, Pairing, CidInv, NoSignaling
<1>9. KeySafe
  BY <1>0, Bounds
     DEF SameShared, SameLocals, Streams, SameLive, HostInv, HostTypeOK, Locals, KeyInv, KeySafe,
         Pairing, Ours
<1> QED BY <1>1, <1>2, <1>3, <1>4, <1>5, <1>6, <1>7, <1>8, <1>9 DEF HostInv

\* The stream is configured, or not.
LEMMA ConfWaitKeeps ==
    ASSUME HostInv, ConfWait PROVE HostInv' /\ KeySafe
<1>1. HostTypeOK'
  <2>1. l' \in Locals
    BY ZenonT(40), Bounds, Values
       DEF ConfWait, Goto, Gave, DisconnectThen, With, stack, HostInv, HostTypeOK, Locals, Shared,
           Signaling
  <2> QED
    BY ZenonT(40), <2>1, Bounds, Values
       DEF ConfWait, Goto, Gave, DisconnectThen, With, stack, HostInv, HostTypeOK, Locals, Cid,
           Signaling
<1>2. NextInv'
  BY Bounds
     DEF ConfWait, Goto, Gave, DisconnectThen, With, stack, HostInv, HostTypeOK, Done, Locals,
         Shared, Signaling, NextInv
<1>3. PageInv'
  BY Bounds
     DEF ConfWait, Goto, Gave, DisconnectThen, With, stack, HostInv, HostTypeOK, Done, Locals,
         Shared, Signaling, PageInv, PageNotDropped
<1>4. KnownInv'
  BY Bounds
     DEF ConfWait, Goto, Gave, DisconnectThen, With, stack, HostInv, HostTypeOK, Done, Locals,
         Shared, Signaling, KnownInv, Ours, CidInv, NoSignaling
<1>5. RealInv'
  BY Bounds
     DEF ConfWait, Goto, Gave, DisconnectThen, With, stack, HostInv, HostTypeOK, Done, Locals,
         Shared, Signaling, RealInv, Calm, CidInv, NoSignaling, NextInv
<1>6. KeyInv'
  BY Bounds
     DEF ConfWait, Goto, Gave, DisconnectThen, With, stack, HostInv, HostTypeOK, Done, Locals,
         Shared, Signaling, KeyInv, Pairing, CidInv, NoSignaling
<1>7. CidInv' /\ OnceInv'
  BY Bounds
     DEF ConfWait, Goto, Gave, DisconnectThen, With, stack, HostInv, CidInv, OnceInv
<1>8. KeySafe
  BY Bounds
     DEF ConfWait, Goto, Gave, DisconnectThen, With, stack, HostInv, HostTypeOK, Locals, KeyInv,
         KeySafe, Pairing, Ours
<1> QED BY <1>1, <1>2, <1>3, <1>4, <1>5, <1>6, <1>7, <1>8 DEF HostInv

\* start_stream goes on only with an open connection that is the current one.
LEMMA StartStreamKeeps ==
    ASSUME HostInv, StartStream PROVE HostInv' /\ KeySafe
<1>0. /\ where = "start" /\ gone = Nil
      /\ UNCHANGED <<app, stop, begun, acl, cids, gone, dead, key, losses, theirs, race>>
      /\ SameLocals /\ SameShared /\ Streams
      /\ \/ where' = "disconnect" /\ l'.next \in {"idle", "between", "over"}
         \/ /\ where' = "startWait" /\ l'.next = l.next /\ app # 0
            /\ \E d \in Device : av[d].cid = app /\ av[d].st = "open"
  <2>1. /\ sh \in Shared /\ l \in Locals /\ av \in [Device -> Signaling] /\ where = "start"
        /\ gone = Nil
        /\ UNCHANGED <<app, stop, begun, acl, cids, gone, dead, key, losses, theirs, race>>
        /\ CidInv
    BY DEF StartStream, HostInv, HostTypeOK, Job
  <2>2. [sh EXCEPT !.startDone = Nil] \in Shared
    BY <2>1, Values DEF Shared
  <2>3. ASSUME sh' = sh \/ sh' = [sh EXCEPT !.startDone = Nil] PROVE SameShared
    BY <2>1, <2>2, <2>3 DEF Shared, SameShared, SameLive
  <2>4. CASE /\ sh.connected /\ app # 0
             /\ \E d \in Device : av[d].cid = app /\ av[d].st = "open" /\ av[d].stm = "opened"
    <3>1. /\ av' = [d \in Device |-> IF av[d].cid = app
                                     THEN [av[d] EXCEPT !.stm = "starting"] ELSE av[d]]
          /\ sh' = [sh EXCEPT !.startDone = Nil] /\ where' = "startWait" /\ UNCHANGED l
      BY <2>4 DEF StartStream, Goto
    <3>2. Streams
      <4>1. \A e \in Device : av'[e] = IF av[e].cid = app
                                       THEN [av[e] EXCEPT !.stm = "starting"] ELSE av[e]
        BY <3>1
      <4>2. ASSUME NEW e \in Device
            PROVE  /\ av'[e] \in Signaling /\ av'[e].cid = av[e].cid /\ av'[e].st = av[e].st
                   /\ av[e].st = "none" => av'[e] = av[e]
        <5>1. av[e] \in Signaling /\ (av[e].st = "none" => av[e].cid = 0)
          BY <2>1 DEF CidInv, NoSignaling
        <5> QED BY <2>4, <4>1, <5>1 DEF Signaling
      <4> QED BY <3>1, <4>2 DEF Streams
    <3> QED BY <2>1, <2>3, <2>4, <3>1, <3>2 DEF SameLocals
  <2>5. CASE ~(/\ sh.connected /\ app # 0
               /\ \E d \in Device : av[d].cid = app /\ av[d].st = "open" /\ av[d].stm = "opened")
    <3>1. /\ sh' = (IF sh.connected THEN [sh EXCEPT !.startDone = Nil] ELSE sh)
          /\ where' = "disconnect" /\ l' = [l EXCEPT !.next = Gave] /\ UNCHANGED av
      BY <2>5 DEF StartStream, DisconnectThen, With
    <3>2. Gave \in {"idle", "between", "over"}
      BY DEF Gave
    <3>3. SameLocals /\ l'.next \in {"idle", "between", "over"}
      BY <2>1, <3>1, <3>2 DEF Locals, SameLocals
    <3> QED BY <2>1, <2>3, <3>1, <3>3 DEF Streams
  <2> QED BY <2>4, <2>5
<1>1. HostTypeOK'
  BY <1>0, Bounds
     DEF SameShared, SameLocals, Streams, SameLive, HostInv, HostTypeOK, Cid
<1>2. CidInv'
  BY <1>0, Bounds
     DEF SameShared, SameLocals, Streams, SameLive, HostInv, HostTypeOK, Locals, Shared,
         Signaling, CidInv, NoSignaling, Cid
<1>3. NextInv'
  BY <1>0, Bounds
     DEF SameShared, SameLocals, Streams, SameLive, HostInv, HostTypeOK, Locals, Shared,
         Signaling, NextInv
<1>4. PageInv'
  BY <1>0, Bounds
     DEF SameShared, SameLocals, Streams, SameLive, HostInv, HostTypeOK, Locals, Shared,
         Signaling, PageInv, PageNotDropped
<1>5. KnownInv'
  BY <1>0, Bounds
     DEF SameShared, SameLocals, Streams, SameLive, HostInv, HostTypeOK, Locals, Shared,
         Signaling, KnownInv, Ours, CidInv, NoSignaling
<1>6. RealInv'
  BY <1>0, Bounds
     DEF SameShared, SameLocals, Streams, SameLive, HostInv, HostTypeOK, Locals, Shared,
         Signaling, RealInv, Calm, CidInv, NoSignaling, NextInv
<1>7. OnceInv'
  BY <1>0, Bounds
     DEF SameShared, SameLocals, Streams, SameLive, HostInv, HostTypeOK, Locals, Shared,
         Signaling, OnceInv, RealInv, CidInv, NoSignaling, Cid
<1>8. KeyInv'
  BY <1>0, Bounds
     DEF SameShared, SameLocals, Streams, SameLive, HostInv, HostTypeOK, Locals, Shared,
         Signaling, KeyInv, Pairing, CidInv, NoSignaling
<1>9. KeySafe
  BY <1>0, Bounds
     DEF SameShared, SameLocals, Streams, SameLive, HostInv, HostTypeOK, Locals, KeyInv, KeySafe,
         Pairing, Ours
<1> QED BY <1>1, <1>2, <1>3, <1>4, <1>5, <1>6, <1>7, <1>8, <1>9 DEF HostInv

\* The stream started, or did not.
LEMMA StartWaitKeeps ==
    ASSUME HostInv, StartWait PROVE HostInv' /\ KeySafe
<1>1. HostTypeOK'
  <2>1. l' \in Locals
    BY ZenonT(40), Bounds, Values
       DEF StartWait, Goto, Gave, DisconnectThen, With, stack, HostInv, HostTypeOK, Locals,
           Shared, Signaling
  <2> QED
    BY ZenonT(40), <2>1, Bounds, Values
       DEF StartWait, Goto, Gave, DisconnectThen, With, stack, HostInv, HostTypeOK, Locals, Cid,
           Signaling
<1>2. NextInv'
  BY Bounds
     DEF StartWait, Goto, Gave, DisconnectThen, With, stack, HostInv, HostTypeOK, Done, Locals,
         Shared, Signaling, NextInv
<1>3. PageInv'
  BY Bounds
     DEF StartWait, Goto, Gave, DisconnectThen, With, stack, HostInv, HostTypeOK, Done, Locals,
         Shared, Signaling, PageInv, PageNotDropped
<1>4. KnownInv'
  BY Bounds
     DEF StartWait, Goto, Gave, DisconnectThen, With, stack, HostInv, HostTypeOK, Done, Locals,
         Shared, Signaling, KnownInv, Ours, CidInv, NoSignaling
<1>5. RealInv'
  BY Bounds
     DEF StartWait, Goto, Gave, DisconnectThen, With, stack, HostInv, HostTypeOK, Done, Locals,
         Shared, Signaling, RealInv, Calm, CidInv, NoSignaling, NextInv
<1>6. KeyInv'
  BY Bounds
     DEF StartWait, Goto, Gave, DisconnectThen, With, stack, HostInv, HostTypeOK, Done, Locals,
         Shared, Signaling, KeyInv, Pairing, CidInv, NoSignaling
<1>7. CidInv' /\ OnceInv'
  BY Bounds
     DEF StartWait, Goto, Gave, DisconnectThen, With, stack, HostInv, CidInv, OnceInv
<1>8. KeySafe
  BY Bounds
     DEF StartWait, Goto, Gave, DisconnectThen, With, stack, HostInv, HostTypeOK, Locals, KeyInv,
         KeySafe, Pairing, Ours
<1> QED BY <1>1, <1>2, <1>3, <1>4, <1>5, <1>6, <1>7, <1>8 DEF HostInv

\* disconnect suspends the stream.
LEMMA DisconnectKeeps ==
    ASSUME HostInv, Disconnect PROVE HostInv' /\ KeySafe
<1>0. /\ where = "disconnect" /\ where' = "abort"
      /\ UNCHANGED <<l, stop, begun, app, stack, key, losses, theirs, race>>
      /\ sh' \in Shared /\ sh'.connected = sh.connected /\ sh'.streaming = FALSE
      /\ sh'.lost = sh.lost /\ sh'.con = sh.con /\ sh'.stalled = sh.stalled
  <2>1. /\ sh \in Shared /\ where = "disconnect" /\ where' = "abort"
        /\ UNCHANGED <<l, stop, begun, app, stack, key, losses, theirs, race>>
    BY DEF Disconnect, HostInv, HostTypeOK, Goto
  <2>2. CASE sh.streaming
    <3>1. sh' = [sh EXCEPT !.streaming = FALSE]
      BY <2>2 DEF Disconnect
    <3> QED BY <2>1, <3>1 DEF Shared
  <2>3. CASE ~sh.streaming
    <3>1. sh' = sh
      BY <2>3 DEF Disconnect
    <3> QED BY <2>1, <2>3, <3>1 DEF Shared
  <2> QED BY <2>2, <2>3
<1>1. HostTypeOK'
  BY <1>0, Bounds
     DEF stack, HostInv, HostTypeOK, Cid
<1>2. NextInv'
  BY <1>0, Bounds
     DEF stack, HostInv, HostTypeOK, Locals, Shared, Signaling, NextInv
<1>3. PageInv'
  BY <1>0, Bounds
     DEF stack, HostInv, HostTypeOK, Locals, Shared, Signaling, PageInv, PageNotDropped
<1>4. KnownInv'
  BY <1>0, Bounds
     DEF stack, HostInv, HostTypeOK, Locals, Shared, Signaling, KnownInv, Ours, CidInv,
         NoSignaling
<1>5. RealInv'
  BY <1>0, Bounds
     DEF stack, HostInv, HostTypeOK, Locals, Shared, Signaling, RealInv, Calm, CidInv,
         NoSignaling, NextInv
<1>6. OnceInv'
  BY <1>0, Bounds
     DEF stack, HostInv, HostTypeOK, Locals, Shared, Signaling, OnceInv, RealInv, CidInv,
         NoSignaling, Cid
<1>7. KeyInv'
  BY <1>0, Bounds
     DEF stack, HostInv, HostTypeOK, Locals, Shared, Signaling, KeyInv, Pairing, CidInv,
         NoSignaling
<1>8. CidInv'
  BY <1>0, Bounds
     DEF stack, HostInv, CidInv
<1>9. KeySafe
  BY <1>0, Bounds
     DEF stack, HostInv, HostTypeOK, Locals, KeyInv, KeySafe, Pairing, Ours
<1> QED BY <1>1, <1>2, <1>3, <1>4, <1>5, <1>6, <1>7, <1>8, <1>9 DEF HostInv

\* A stop ends playing.
LEMMA PlayStoppedKeeps ==
    ASSUME HostInv, PlayStopped PROVE HostInv' /\ KeySafe
<1>1. HostTypeOK'
  <2>1. l' \in Locals
    BY Bounds, Values
       DEF PlayStopped, DisconnectThen, With, stack, HostInv, HostTypeOK, Locals, Shared,
           Signaling
  <2> QED
    BY <2>1, Bounds, Values
       DEF PlayStopped, DisconnectThen, With, stack, HostInv, HostTypeOK, Locals, Cid, Signaling
<1>2. NextInv'
  BY Bounds
     DEF PlayStopped, DisconnectThen, With, stack, HostInv, HostTypeOK, Done, Locals, Shared,
         Signaling, NextInv
<1>3. PageInv'
  BY Bounds
     DEF PlayStopped, DisconnectThen, With, stack, HostInv, HostTypeOK, Done, Locals, Shared,
         Signaling, PageInv, PageNotDropped
<1>4. KnownInv'
  BY Bounds
     DEF PlayStopped, DisconnectThen, With, stack, HostInv, HostTypeOK, Done, Locals, Shared,
         Signaling, KnownInv, Ours, CidInv, NoSignaling
<1>5. RealInv'
  BY Bounds
     DEF PlayStopped, DisconnectThen, With, stack, HostInv, HostTypeOK, Done, Locals, Shared,
         Signaling, RealInv, Calm, CidInv, NoSignaling, NextInv
<1>6. KeyInv'
  BY Bounds
     DEF PlayStopped, DisconnectThen, With, stack, HostInv, HostTypeOK, Done, Locals, Shared,
         Signaling, KeyInv, Pairing, CidInv, NoSignaling
<1>7. CidInv' /\ OnceInv'
  BY Bounds
     DEF PlayStopped, DisconnectThen, With, stack, HostInv, CidInv, OnceInv
<1>8. KeySafe
  BY Bounds
     DEF PlayStopped, DisconnectThen, With, stack, HostInv, HostTypeOK, Locals, KeyInv, KeySafe,
         Pairing, Ours
<1> QED BY <1>1, <1>2, <1>3, <1>4, <1>5, <1>6, <1>7, <1>8 DEF HostInv

\* check_disconnected takes the flag of the loss.
LEMMA PlayLostKeeps ==
    ASSUME HostInv, PlayLost PROVE HostInv' /\ KeySafe
<1>0. /\ where = "play" /\ where' = "between"
      /\ UNCHANGED <<stop, begun, app, stack, key, losses, theirs, race>>
      /\ sh.lost \/ sh.stalled
      /\ sh' \in Shared /\ sh'.connected = sh.connected /\ sh'.streaming = sh.streaming
      /\ sh'.lost = FALSE /\ sh'.con = sh.con /\ sh'.stalled = sh.stalled
      /\ l' \in Locals /\ l'.dropped = l.dropped /\ l'.repaired = l.repaired
  <2>1. /\ sh \in Shared /\ l \in Locals /\ where = "play" /\ where' = "between"
        /\ (sh.lost \/ sh.stalled)
        /\ UNCHANGED <<stop, begun, app, stack, key, losses, theirs, race>>
        /\ sh' = [sh EXCEPT !.lost = FALSE] /\ l' = [l EXCEPT !.mode = "reconnect", !.attempt = 1]
    BY DEF PlayLost, HostInv, HostTypeOK, With
  <2>2. 1 \in 1..Attempts + 1
    BY Bounds
  <2>3. l' \in Locals /\ l'.dropped = l.dropped /\ l'.repaired = l.repaired
    BY <2>1, <2>2 DEF Locals
  <2> QED BY <2>1, <2>3 DEF Shared
<1>1. HostTypeOK'
  BY <1>0, Bounds
     DEF stack, HostInv, HostTypeOK, Cid
<1>2. NextInv'
  BY <1>0, Bounds
     DEF stack, HostInv, HostTypeOK, Locals, Shared, Signaling, NextInv
<1>3. PageInv'
  BY <1>0, Bounds
     DEF stack, HostInv, HostTypeOK, Locals, Shared, Signaling, PageInv, PageNotDropped
<1>4. KnownInv'
  BY <1>0, Bounds
     DEF stack, HostInv, HostTypeOK, Locals, Shared, Signaling, KnownInv, Ours, CidInv,
         NoSignaling
<1>5. RealInv'
  BY <1>0, Bounds
     DEF stack, HostInv, HostTypeOK, Locals, Shared, Signaling, RealInv, Calm, CidInv,
         NoSignaling, NextInv
<1>6. OnceInv'
  BY <1>0, Bounds
     DEF stack, HostInv, HostTypeOK, Locals, Shared, Signaling, OnceInv, RealInv, CidInv,
         NoSignaling, Cid
<1>7. KeyInv'
  BY <1>0, Bounds
     DEF stack, HostInv, HostTypeOK, Locals, Shared, Signaling, KeyInv, Pairing, CidInv,
         NoSignaling
<1>8. CidInv'
  BY <1>0, Bounds
     DEF stack, HostInv, CidInv
<1>9. KeySafe
  BY <1>0, Bounds
     DEF stack, HostInv, HostTypeOK, Locals, KeyInv, KeySafe, Pairing, Ours
<1> QED BY <1>1, <1>2, <1>3, <1>4, <1>5, <1>6, <1>7, <1>8, <1>9 DEF HostInv

\* The session gives up to reconnect.
LEMMA GiveUpKeeps ==
    ASSUME HostInv, GiveUp PROVE HostInv' /\ KeySafe
<1>1. HostTypeOK'
  <2>1. l' \in Locals
    BY Bounds, Values
       DEF GiveUp, DisconnectThen, With, stack, HostInv, HostTypeOK, Locals, Shared, Signaling
  <2> QED
    BY <2>1, Bounds, Values
       DEF GiveUp, DisconnectThen, With, stack, HostInv, HostTypeOK, Locals, Cid, Signaling
<1>2. NextInv'
  BY Bounds
     DEF GiveUp, DisconnectThen, With, stack, HostInv, HostTypeOK, Done, Locals, Shared,
         Signaling, NextInv
<1>3. PageInv'
  BY Bounds
     DEF GiveUp, DisconnectThen, With, stack, HostInv, HostTypeOK, Done, Locals, Shared,
         Signaling, PageInv, PageNotDropped
<1>4. KnownInv'
  BY Bounds
     DEF GiveUp, DisconnectThen, With, stack, HostInv, HostTypeOK, Done, Locals, Shared,
         Signaling, KnownInv, Ours, CidInv, NoSignaling
<1>5. RealInv'
  BY Bounds
     DEF GiveUp, DisconnectThen, With, stack, HostInv, HostTypeOK, Done, Locals, Shared,
         Signaling, RealInv, Calm, CidInv, NoSignaling, NextInv
<1>6. KeyInv'
  BY Bounds
     DEF GiveUp, DisconnectThen, With, stack, HostInv, HostTypeOK, Done, Locals, Shared,
         Signaling, KeyInv, Pairing, CidInv, NoSignaling
<1>7. CidInv' /\ OnceInv'
  BY Bounds
     DEF GiveUp, DisconnectThen, With, stack, HostInv, CidInv, OnceInv
<1>8. KeySafe
  BY Bounds
     DEF GiveUp, DisconnectThen, With, stack, HostInv, HostTypeOK, Locals, KeyInv, KeySafe,
         Pairing, Ours
<1> QED BY <1>1, <1>2, <1>3, <1>4, <1>5, <1>6, <1>7, <1>8 DEF HostInv

\* A new stack has no connections.
LEMMA NewStackKeeps ==
    ASSUME HostInv, NewStack PROVE HostInv' /\ KeySafe
<1>0. /\ where = "between" /\ where' = "begin" /\ gone = Nil
      /\ UNCHANGED <<stop, begun, cids, gone, key, losses, theirs, race>>
      /\ sh' \in Shared /\ sh'.connected = FALSE /\ sh'.streaming = FALSE /\ sh'.lost = FALSE
      /\ app' = 0 /\ dead' = FALSE /\ acl' \in [Device -> {"none", "paging", "open", "closing"}]
      /\ av' \in [Device -> Signaling] /\ (\A d \in Device : av'[d] = NoSignaling)
      /\ l' \in Locals /\ l'.dropped = l.dropped /\ l'.repaired = l.repaired
  <2>1. /\ l \in Locals /\ where = "between" /\ where' = "begin" /\ gone = Nil
        /\ l.attempt <= Attempts
        /\ UNCHANGED <<stop, begun, cids, gone, key, losses, theirs, race>>
        /\ l' = [l EXCEPT !.mode = "fresh", !.attempt = l.attempt + 1] /\ sh' = NewShared
        /\ app' = 0
        /\ av' = [d \in Device |-> NoSignaling] /\ acl' = [d \in Device |-> "none"]
        /\ dead' = FALSE
    BY DEF NewStack, HostInv, HostTypeOK, With, Job
  <2>2. l.attempt + 1 \in 1..Attempts + 1
    BY <2>1, Bounds DEF Locals
  <2>3. l' \in Locals /\ l'.dropped = l.dropped /\ l'.repaired = l.repaired
    BY <2>1, <2>2 DEF Locals
  <2>4. sh' \in Shared /\ sh'.connected = FALSE /\ sh'.streaming = FALSE /\ sh'.lost = FALSE
    BY <2>1, Values DEF NewShared, Shared
  <2>5. av' \in [Device -> Signaling] /\ \A d \in Device : av'[d] = NoSignaling
    BY <2>1, NoSignalingTyped
  <2> QED BY <2>1, <2>3, <2>4, <2>5
<1>1. HostTypeOK'
  <2>1. app' \in 0 .. MaxCid
    BY <1>0, Bounds
  <2>2. where' = "begin"
    BY <1>0
  <2>3. dead' \in BOOLEAN
    BY <1>0
  <2> QED BY <1>0, <2>1, <2>2, <2>3 DEF HostInv, HostTypeOK
<1>2. CidInv'
  BY <1>0, Bounds, Typed, NoSignalingTyped
     DEF HostInv, CidInv, Cid
<1>3. NextInv'
  BY <1>0, Bounds
     DEF HostInv, HostTypeOK, Locals, Shared, Signaling, NextInv
<1>4. PageInv'
  BY <1>0, Bounds
     DEF HostInv, HostTypeOK, Locals, Shared, Signaling, PageInv, PageNotDropped
<1>5. KnownInv'
  BY <1>0, Bounds
     DEF HostInv, HostTypeOK, Locals, Shared, Signaling, KnownInv, Ours, CidInv
<1>6. RealInv'
  BY <1>0, Bounds, Typed, NoSignalingTyped
     DEF HostInv, RealInv, Calm, CidInv, NextInv
<1>7. OnceInv'
  BY <1>0, Bounds
     DEF HostInv, HostTypeOK, Locals, Shared, Signaling, OnceInv, RealInv, CidInv, Cid
<1>8. KeyInv'
  BY <1>0, Bounds
     DEF HostInv, HostTypeOK, Locals, Shared, Signaling, KeyInv, Pairing, CidInv
<1>9. KeySafe
  BY <1>0, Bounds
     DEF HostInv, HostTypeOK, Locals, KeyInv, KeySafe, Pairing, Ours
<1> QED BY <1>1, <1>2, <1>3, <1>4, <1>5, <1>6, <1>7, <1>8, <1>9 DEF HostInv

\* reconnect looks at a connection the device opened, or connects anew.
LEMMA ReconnectKeeps ==
    ASSUME HostInv, Reconnect PROVE HostInv' /\ KeySafe
<1>0. /\ where = "between" /\ gone = Nil /\ sh.stalled = FALSE
      /\ UNCHANGED <<stop, begun, sh, app, stack, key, losses, theirs, race>>
      /\ l' \in Locals /\ l'.dropped = l.dropped /\ l'.repaired = l.repaired
      /\ \/ where' \in {"between", "anew"}
         \/ where' = "devWait" /\ av[Target].cid = app /\ IsOpen(av[Target])
  <2> DEFINE m == [l EXCEPT !.mode = "reconnect", !.attempt = l.attempt + 1]
  <2>1. /\ sh \in Shared /\ l \in Locals /\ where = "between" /\ gone = Nil
        /\ l.attempt <= Attempts /\ ~sh.stalled
        /\ UNCHANGED <<stop, begun, sh, app, stack, key, losses, theirs, race>>
    BY DEF Reconnect, HostInv, HostTypeOK, Job
  <2>2. l.attempt + 1 \in 1..Attempts + 1
    BY <2>1, Bounds DEF Locals
  <2>3. m \in Locals /\ m.dropped = l.dropped /\ m.repaired = l.repaired
    BY <2>1, <2>2 DEF Locals
  <2>4. /\ l' = m
        /\ \/ where' \in {"between", "anew"}
           \/ where' = "devWait" /\ av[Target].cid = app /\ IsOpen(av[Target])
    BY DEF Reconnect, With
  <2>5. sh.stalled = FALSE
    BY <2>1 DEF Shared
  <2> QED BY <2>1, <2>3, <2>4, <2>5
<1>1. HostTypeOK'
  BY <1>0, Bounds
     DEF stack, IsOpen, HostInv, HostTypeOK, Cid
<1>2. NextInv'
  BY <1>0, Bounds
     DEF stack, IsOpen, HostInv, HostTypeOK, Locals, Shared, Signaling, NextInv
<1>3. PageInv'
  BY <1>0, Bounds
     DEF stack, IsOpen, HostInv, HostTypeOK, Locals, Shared, Signaling, PageInv, PageNotDropped
<1>4. KnownInv'
  BY <1>0, Bounds
     DEF stack, IsOpen, HostInv, HostTypeOK, Locals, Shared, Signaling, KnownInv, Ours, CidInv,
         NoSignaling
<1>5. RealInv'
  BY <1>0, Bounds
     DEF stack, IsOpen, HostInv, HostTypeOK, Locals, Shared, Signaling, RealInv, Calm, CidInv,
         NoSignaling, NextInv
<1>6. KeyInv'
  BY <1>0, Bounds
     DEF stack, IsOpen, HostInv, HostTypeOK, Locals, Shared, Signaling, KeyInv, Pairing, CidInv,
         NoSignaling
<1>7. CidInv' /\ OnceInv'
  BY <1>0, Bounds
     DEF stack, IsOpen, HostInv, CidInv, OnceInv
<1>8. KeySafe
  BY <1>0, Bounds
     DEF stack, IsOpen, HostInv, HostTypeOK, Locals, KeyInv, KeySafe, Pairing, Ours
<1> QED BY <1>1, <1>2, <1>3, <1>4, <1>5, <1>6, <1>7, <1>8 DEF HostInv

\* a2dp_from_device found the device connected, its stream, or neither.
LEMMA DevWaitKeeps ==
    ASSUME HostInv, DevWait PROVE HostInv' /\ KeySafe
<1>1. HostTypeOK'
  <2> QED
    BY Bounds, Values
       DEF DevWait, Goto, DeviceOpened, stack, HostInv, HostTypeOK, Locals, Cid, Signaling
<1>2. NextInv'
  BY Bounds
     DEF DevWait, Goto, DeviceOpened, stack, HostInv, HostTypeOK, Done, Locals, Shared, Signaling,
         NextInv
<1>3. PageInv'
  BY Bounds
     DEF DevWait, Goto, DeviceOpened, stack, HostInv, HostTypeOK, Done, Locals, Shared, Signaling,
         PageInv, PageNotDropped
<1>4. KnownInv'
  BY Bounds
     DEF DevWait, Goto, DeviceOpened, stack, HostInv, HostTypeOK, Done, Locals, Shared, Signaling,
         KnownInv, Ours, CidInv, NoSignaling
<1>5. RealInv'
  BY Bounds
     DEF DevWait, Goto, DeviceOpened, stack, HostInv, HostTypeOK, Done, Locals, Shared, Signaling,
         RealInv, Calm, CidInv, NoSignaling, NextInv
<1>6. KeyInv'
  BY Bounds
     DEF DevWait, Goto, DeviceOpened, stack, HostInv, HostTypeOK, Done, Locals, Shared, Signaling,
         KeyInv, Pairing, CidInv, NoSignaling
<1>7. CidInv' /\ OnceInv'
  BY Bounds
     DEF DevWait, Goto, DeviceOpened, stack, HostInv, CidInv, OnceInv
<1>8. KeySafe
  BY Bounds
     DEF DevWait, Goto, DeviceOpened, stack, HostInv, HostTypeOK, Locals, KeyInv, KeySafe,
         Pairing, Ours
<1> QED BY <1>1, <1>2, <1>3, <1>4, <1>5, <1>6, <1>7, <1>8 DEF HostInv

\* The connection the device opened is taken.
LEMMA OnDeviceKeeps ==
    ASSUME HostInv, OnDevice PROVE HostInv' /\ KeySafe
<1>1. HostTypeOK'
  <2>1. sh' \in Shared
    BY Bounds, Values
       DEF OnDevice, Goto, stack, HostInv, HostTypeOK, Locals, Shared, Signaling
  <2> QED
    BY <2>1, Bounds, Values
       DEF OnDevice, Goto, stack, HostInv, HostTypeOK, Locals, Cid, Signaling
<1>2. NextInv'
  BY Bounds
     DEF OnDevice, Goto, stack, HostInv, HostTypeOK, Done, Locals, Shared, Signaling, NextInv
<1>3. PageInv'
  BY Bounds
     DEF OnDevice, Goto, stack, HostInv, HostTypeOK, Done, Locals, Shared, Signaling, PageInv,
         PageNotDropped
<1>4. KnownInv'
  BY Bounds
     DEF OnDevice, Goto, stack, HostInv, HostTypeOK, Done, Locals, Shared, Signaling, KnownInv,
         Ours, CidInv, NoSignaling
<1>5. RealInv'
  BY Bounds
     DEF OnDevice, Goto, stack, HostInv, HostTypeOK, Done, Locals, Shared, Signaling, RealInv,
         Calm, CidInv, NoSignaling, NextInv
<1>6. OnceInv'
  BY Bounds
     DEF OnDevice, Goto, stack, HostInv, HostTypeOK, Done, Locals, Shared, Signaling, OnceInv,
         RealInv, CidInv, NoSignaling, Cid
<1>7. KeyInv'
  BY Bounds
     DEF OnDevice, Goto, stack, HostInv, HostTypeOK, Done, Locals, Shared, Signaling, KeyInv,
         Pairing, CidInv, NoSignaling
<1>8. CidInv'
  BY Bounds
     DEF OnDevice, Goto, stack, HostInv, CidInv
<1>9. KeySafe
  BY Bounds
     DEF OnDevice, Goto, stack, HostInv, HostTypeOK, Locals, KeyInv, KeySafe, Pairing, Ours
<1> QED BY <1>1, <1>2, <1>3, <1>4, <1>5, <1>6, <1>7, <1>8, <1>9 DEF HostInv

\* adopt_device_stream compares the stream.
LEMMA AdoptKeeps ==
    ASSUME HostInv, Adopt PROVE HostInv' /\ KeySafe
<1>1. HostTypeOK'
  <2> QED
    BY Bounds, Values
       DEF Adopt, Goto, Job, stack, HostInv, HostTypeOK, Locals, Cid, Signaling
<1>2. NextInv'
  BY Bounds
     DEF Adopt, Goto, Job, stack, HostInv, HostTypeOK, Done, Locals, Shared, Signaling, NextInv
<1>3. PageInv'
  BY Bounds
     DEF Adopt, Goto, Job, stack, HostInv, HostTypeOK, Done, Locals, Shared, Signaling, PageInv,
         PageNotDropped
<1>4. KnownInv'
  BY Bounds
     DEF Adopt, Goto, Job, stack, HostInv, HostTypeOK, Done, Locals, Shared, Signaling, KnownInv,
         Ours, CidInv, NoSignaling
<1>5. RealInv'
  BY Bounds
     DEF Adopt, Goto, Job, stack, HostInv, HostTypeOK, Done, Locals, Shared, Signaling, RealInv,
         Calm, CidInv, NoSignaling, NextInv
<1>6. KeyInv'
  BY Bounds
     DEF Adopt, Goto, Job, stack, HostInv, HostTypeOK, Done, Locals, Shared, Signaling, KeyInv,
         Pairing, CidInv, NoSignaling
<1>7. CidInv' /\ OnceInv'
  BY Bounds
     DEF Adopt, Goto, Job, stack, HostInv, CidInv, OnceInv
<1>8. KeySafe
  BY Bounds
     DEF Adopt, Goto, Job, stack, HostInv, HostTypeOK, Locals, KeyInv, KeySafe, Pairing, Ours
<1> QED BY <1>1, <1>2, <1>3, <1>4, <1>5, <1>6, <1>7, <1>8 DEF HostInv

\* The stream of the device is taken.
LEMMA AdoptedKeeps ==
    ASSUME HostInv, Adopted PROVE HostInv' /\ KeySafe
<1>1. HostTypeOK'
  <2>1. sh' \in Shared
    BY Bounds, Values
       DEF Adopted, Goto, stack, HostInv, HostTypeOK, Locals, Shared, Signaling
  <2> QED
    BY <2>1, Bounds, Values
       DEF Adopted, Goto, stack, HostInv, HostTypeOK, Locals, Cid, Signaling
<1>2. NextInv'
  BY Bounds
     DEF Adopted, Goto, stack, HostInv, HostTypeOK, Done, Locals, Shared, Signaling, NextInv
<1>3. PageInv'
  BY Bounds
     DEF Adopted, Goto, stack, HostInv, HostTypeOK, Done, Locals, Shared, Signaling, PageInv,
         PageNotDropped
<1>4. KnownInv'
  BY Bounds
     DEF Adopted, Goto, stack, HostInv, HostTypeOK, Done, Locals, Shared, Signaling, KnownInv,
         Ours, CidInv, NoSignaling
<1>5. RealInv'
  BY Bounds
     DEF Adopted, Goto, stack, HostInv, HostTypeOK, Done, Locals, Shared, Signaling, RealInv,
         Calm, CidInv, NoSignaling, NextInv
<1>6. OnceInv'
  BY Bounds
     DEF Adopted, Goto, stack, HostInv, HostTypeOK, Done, Locals, Shared, Signaling, OnceInv,
         RealInv, CidInv, NoSignaling, Cid
<1>7. KeyInv'
  BY Bounds
     DEF Adopted, Goto, stack, HostInv, HostTypeOK, Done, Locals, Shared, Signaling, KeyInv,
         Pairing, CidInv, NoSignaling
<1>8. CidInv'
  BY Bounds
     DEF Adopted, Goto, stack, HostInv, CidInv
<1>9. KeySafe
  BY Bounds
     DEF Adopted, Goto, stack, HostInv, HostTypeOK, Locals, KeyInv, KeySafe, Pairing, Ours
<1> QED BY <1>1, <1>2, <1>3, <1>4, <1>5, <1>6, <1>7, <1>8, <1>9 DEF HostInv

\* reconnect clears the flags and connects anew.
LEMMA AnewKeeps ==
    ASSUME HostInv, Anew PROVE HostInv' /\ KeySafe
<1>1. HostTypeOK'
  <2>1. sh' \in Shared
    BY Bounds, Values
       DEF Anew, Goto, stack, HostInv, HostTypeOK, Locals, Shared, Signaling
  <2> QED
    BY <2>1, Bounds, Values
       DEF Anew, Goto, stack, HostInv, HostTypeOK, Locals, Cid, Signaling
<1>2. NextInv'
  BY Bounds
     DEF Anew, Goto, stack, HostInv, HostTypeOK, Done, Locals, Shared, Signaling, NextInv
<1>3. PageInv'
  BY Bounds
     DEF Anew, Goto, stack, HostInv, HostTypeOK, Done, Locals, Shared, Signaling, PageInv,
         PageNotDropped
<1>4. KnownInv'
  BY Bounds
     DEF Anew, Goto, stack, HostInv, HostTypeOK, Done, Locals, Shared, Signaling, KnownInv, Ours,
         CidInv, NoSignaling
<1>5. RealInv'
  BY Bounds
     DEF Anew, Goto, stack, HostInv, HostTypeOK, Done, Locals, Shared, Signaling, RealInv, Calm,
         CidInv, NoSignaling, NextInv
<1>6. OnceInv'
  BY Bounds
     DEF Anew, Goto, stack, HostInv, HostTypeOK, Done, Locals, Shared, Signaling, OnceInv,
         RealInv, CidInv, NoSignaling, Cid
<1>7. KeyInv'
  BY Bounds
     DEF Anew, Goto, stack, HostInv, HostTypeOK, Done, Locals, Shared, Signaling, KeyInv, Pairing,
         CidInv, NoSignaling
<1>8. CidInv'
  BY Bounds
     DEF Anew, Goto, stack, HostInv, CidInv
<1>9. KeySafe
  BY Bounds
     DEF Anew, Goto, stack, HostInv, HostTypeOK, Locals, KeyInv, KeySafe, Pairing, Ours
<1> QED BY <1>1, <1>2, <1>3, <1>4, <1>5, <1>6, <1>7, <1>8, <1>9 DEF HostInv

\* A reconnection failed.
LEMMA FailedAgainKeeps ==
    ASSUME HostInv, FailedAgain PROVE HostInv' /\ KeySafe
<1>1. HostTypeOK'
  <2>1. sh' \in Shared
    BY Bounds, Values
       DEF FailedAgain, Goto, stack, HostInv, HostTypeOK, Locals, Shared, Signaling
  <2> QED
    BY <2>1, Bounds, Values
       DEF FailedAgain, Goto, stack, HostInv, HostTypeOK, Locals, Cid, Signaling
<1>2. NextInv'
  BY Bounds
     DEF FailedAgain, Goto, stack, HostInv, HostTypeOK, Done, Locals, Shared, Signaling, NextInv
<1>3. PageInv'
  BY Bounds
     DEF FailedAgain, Goto, stack, HostInv, HostTypeOK, Done, Locals, Shared, Signaling, PageInv,
         PageNotDropped
<1>4. KnownInv'
  BY Bounds
     DEF FailedAgain, Goto, stack, HostInv, HostTypeOK, Done, Locals, Shared, Signaling, KnownInv,
         Ours, CidInv, NoSignaling
<1>5. RealInv'
  BY Bounds
     DEF FailedAgain, Goto, stack, HostInv, HostTypeOK, Done, Locals, Shared, Signaling, RealInv,
         Calm, CidInv, NoSignaling, NextInv
<1>6. OnceInv'
  BY Bounds
     DEF FailedAgain, Goto, stack, HostInv, HostTypeOK, Done, Locals, Shared, Signaling, OnceInv,
         RealInv, CidInv, NoSignaling, Cid
<1>7. KeyInv'
  BY Bounds
     DEF FailedAgain, Goto, stack, HostInv, HostTypeOK, Done, Locals, Shared, Signaling, KeyInv,
         Pairing, CidInv, NoSignaling
<1>8. CidInv'
  BY Bounds
     DEF FailedAgain, Goto, stack, HostInv, CidInv
<1>9. KeySafe
  BY Bounds
     DEF FailedAgain, Goto, stack, HostInv, HostTypeOK, Locals, KeyInv, KeySafe, Pairing, Ours
<1> QED BY <1>1, <1>2, <1>3, <1>4, <1>5, <1>6, <1>7, <1>8, <1>9 DEF HostInv

\* The session is over.
LEMMA OverKeeps ==
    ASSUME HostInv, Over PROVE HostInv' /\ KeySafe
<1>1. HostTypeOK'
  <2>1. l' \in Locals
    BY Bounds, Values
       DEF Over, Goto, With, stack, HostInv, HostTypeOK, Locals, Shared, Signaling
  <2> QED
    BY <2>1, Bounds, Values
       DEF Over, Goto, With, stack, HostInv, HostTypeOK, Locals, Cid, Signaling
<1>2. NextInv'
  BY Bounds
     DEF Over, Goto, With, stack, HostInv, HostTypeOK, Done, Locals, Shared, Signaling, NextInv
<1>3. PageInv'
  BY Bounds
     DEF Over, Goto, With, stack, HostInv, HostTypeOK, Done, Locals, Shared, Signaling, PageInv,
         PageNotDropped
<1>4. KnownInv'
  BY Bounds
     DEF Over, Goto, With, stack, HostInv, HostTypeOK, Done, Locals, Shared, Signaling, KnownInv,
         Ours, CidInv, NoSignaling
<1>5. RealInv'
  BY Bounds
     DEF Over, Goto, With, stack, HostInv, HostTypeOK, Done, Locals, Shared, Signaling, RealInv,
         Calm, CidInv, NoSignaling, NextInv
<1>6. KeyInv'
  BY Bounds
     DEF Over, Goto, With, stack, HostInv, HostTypeOK, Done, Locals, Shared, Signaling, KeyInv,
         Pairing, CidInv, NoSignaling
<1>7. CidInv' /\ OnceInv'
  BY Bounds
     DEF Over, Goto, With, stack, HostInv, CidInv, OnceInv
<1>8. KeySafe
  BY Bounds
     DEF Over, Goto, With, stack, HostInv, HostTypeOK, Locals, KeyInv, KeySafe, Pairing, Ours
<1> QED BY <1>1, <1>2, <1>3, <1>4, <1>5, <1>6, <1>7, <1>8 DEF HostInv

\* A page failed: the connection that waits for it fails.
LEMMA PageFailsKeeps ==
    ASSUME HostInv, PageFails PROVE HostInv' /\ KeySafe
<1>0. /\ gone = Nil /\ UNCHANGED <<session, cids, gone, dead, key, losses, theirs, race>>
      /\ SameShared /\ acl' \in [Device -> {"none", "paging", "open", "closing"}]
      /\ acl'[Target] = "none"
      /\ \/ UNCHANGED <<av, app>>
         \/ /\ av[Target].st = "pending" /\ Put(Target, NoSignaling)
            /\ app' = app \/ (app = 0 /\ app' = av[Target].cid)
  <2>1. /\ sh \in Shared /\ av \in [Device -> Signaling] /\ app \in 0..MaxCid /\ gone = Nil
        /\ acl \in [Device -> {"none", "paging", "open", "closing"}]
        /\ acl' = [acl EXCEPT ![Target] = "none"]
        /\ UNCHANGED <<session, cids, gone, dead, key, losses, theirs, race>>
    BY DEF PageFails, HostInv, HostTypeOK, Job
  <2>2. acl' \in [Device -> {"none", "paging", "open", "closing"}] /\ acl'[Target] = "none"
    BY <2>1, Bounds
  <2>3. CASE av[Target].st = "pending"
    <3>1. /\ av' = [av EXCEPT ![Target] = NoSignaling]
          /\ \E f \in {"NoAnswer", "Other"} : Failing(av[Target].cid, f)
      BY <2>3 DEF PageFails
    <3>2. Put(Target, NoSignaling)
      BY <2>1, <3>1, NoSignalingTyped, Bounds DEF Put
    <3>3. SameShared /\ (app' = app \/ (app = 0 /\ app' = av[Target].cid))
      BY <2>1, <3>1, FailingFacts, Values
    <3> QED BY <2>1, <2>2, <2>3, <3>2, <3>3
  <2>4. CASE av[Target].st # "pending"
    <3>1. UNCHANGED <<av, app, sh>>
      BY <2>4 DEF PageFails
    <3> QED BY <2>1, <2>2, <3>1 DEF SameShared, SameLive
  <2> QED BY <2>3, <2>4
<1>1. HostTypeOK'
  BY <1>0, Bounds, Typed
     DEF session, Put, SameShared, SameLive, HostInv, HostTypeOK
<1>2. CidInv'
  BY <1>0, Bounds, Typed, NoSignalingTyped
     DEF session, Put, SameShared, SameLive, HostInv, CidInv, Cid
<1>3. NextInv'
  BY <1>0, Bounds
     DEF session, Put, SameShared, SameLive, HostInv, HostTypeOK, Locals, Shared, Signaling,
         NextInv
<1>4. PageInv'
  BY <1>0, Bounds
     DEF session, Put, SameShared, SameLive, HostInv, HostTypeOK, Locals, Shared, Signaling,
         PageInv, PageNotDropped
<1>5. KnownInv'
  BY <1>0, Bounds
     DEF session, Put, SameShared, SameLive, HostInv, HostTypeOK, Locals, Shared, Signaling,
         KnownInv, Ours, CidInv
<1>6. RealInv'
  BY <1>0, Bounds, Typed, NoSignalingTyped
     DEF session, Put, SameShared, SameLive, HostInv, RealInv, Calm, CidInv, NextInv
<1>7. OnceInv'
  BY <1>0, Bounds
     DEF session, Put, SameShared, SameLive, HostInv, HostTypeOK, Locals, Shared, Signaling,
         OnceInv, RealInv, CidInv, Cid
<1>8. KeyInv'
  BY <1>0, Bounds, Typed, NoSignalingTyped
     DEF session, Put, SameShared, SameLive, HostInv, KeyInv, Pairing, CidInv
<1>9. KeySafe
  BY <1>0, Bounds
     DEF session, Put, SameShared, SameLive, HostInv, HostTypeOK, Locals, KeyInv, KeySafe,
         Pairing, Ours
<1> QED BY <1>1, <1>2, <1>3, <1>4, <1>5, <1>6, <1>7, <1>8, <1>9 DEF HostInv

\* The connection is up; the device has a key.
LEMMA SignalingUpKeeps ==
    ASSUME HostInv, SignalingUp PROVE HostInv' /\ KeySafe
<1>0. /\ gone = Nil /\ UNCHANGED <<session, acl, cids, gone, dead, losses, theirs, race>>
      /\ av[Target].st = "pending" /\ acl[Target] = "open"
      /\ av'[Target].st = "open" /\ av'[Target].cid = av[Target].cid /\ Put(Target, av'[Target])
      /\ key' # Nil /\ key' \in {"old", "new"}
      /\ SameLive
      /\ \/ app \in {0, av[Target].cid} /\ app' = av[Target].cid /\ sh'.con = Target
         \/ app \notin {0, av[Target].cid} /\ app' = app /\ sh'.con = sh.con
  <2>1. /\ sh \in Shared /\ av \in [Device -> Signaling] /\ app \in 0..MaxCid /\ gone = Nil
        /\ UNCHANGED <<session, acl, cids, gone, dead, losses, theirs, race>>
        /\ av[Target].st = "pending" /\ acl[Target] = "open"
        /\ av' = [av EXCEPT ![Target].st = "open"]
        /\ OnEstablished(Target, av[Target].cid)
        /\ key \in {Nil, "old", "new"} /\ key' = IF key = Nil THEN "new" ELSE key
    BY DEF SignalingUp, HostInv, HostTypeOK, Job
  <2>2. av'[Target].st = "open" /\ av'[Target].cid = av[Target].cid /\ Put(Target, av'[Target])
    BY <2>1, Bounds DEF Put, Signaling
  <2>3. key' # Nil /\ key' \in {"old", "new"}
    BY <2>1, Bounds
  <2>4. /\ SameLive
        /\ \/ app \in {0, av[Target].cid} /\ app' = av[Target].cid /\ sh'.con = Target
           \/ app \notin {0, av[Target].cid} /\ app' = app /\ sh'.con = sh.con
    BY <2>1, EstablishedFacts, Bounds
  <2> QED BY <2>1, <2>2, <2>3, <2>4
<1>1. HostTypeOK'
  BY <1>0, Bounds, Typed
     DEF session, Put, SameLive, HostInv, HostTypeOK
<1>2. CidInv'
  BY <1>0, Bounds, Typed, NoSignalingTyped
     DEF session, Put, SameLive, HostInv, CidInv, Cid
<1>3. NextInv'
  BY <1>0, Bounds
     DEF session, Put, SameLive, HostInv, HostTypeOK, Locals, Shared, Signaling, NextInv
<1>4. PageInv'
  BY <1>0, Bounds
     DEF session, Put, SameLive, HostInv, HostTypeOK, Locals, Shared, Signaling, PageInv,
         PageNotDropped
<1>5. KnownInv'
  BY <1>0, Bounds
     DEF session, Put, SameLive, HostInv, HostTypeOK, Locals, Shared, Signaling, KnownInv, Ours,
         CidInv, NoSignaling
<1>6. RealInv'
  BY <1>0, Bounds
     DEF session, Put, SameLive, HostInv, HostTypeOK, Locals, Shared, Signaling, RealInv, Calm,
         CidInv, NoSignaling, NextInv
<1>7. OnceInv'
  BY <1>0, Bounds
     DEF session, Put, SameLive, HostInv, HostTypeOK, Locals, Shared, Signaling, OnceInv, RealInv,
         CidInv, NoSignaling, Cid
<1>8. KeyInv'
  BY <1>0, Bounds
     DEF session, Put, SameLive, HostInv, HostTypeOK, Locals, Shared, Signaling, KeyInv, Pairing,
         CidInv, NoSignaling
<1>9. KeySafe
  BY <1>0, Bounds
     DEF session, Put, SameLive, HostInv, HostTypeOK, Locals, KeyInv, KeySafe, Pairing, Ours
<1> QED BY <1>1, <1>2, <1>3, <1>4, <1>5, <1>6, <1>7, <1>8, <1>9 DEF HostInv

\* The connection failed on a link that is up.
LEMMA SignalingFailsKeeps ==
    ASSUME HostInv, SignalingFails PROVE HostInv' /\ KeySafe
<1>0. /\ gone = Nil /\ UNCHANGED <<session, acl, cids, gone, dead, key, losses, theirs, race>>
      /\ SameShared /\ av[Target].st = "pending" /\ Put(Target, NoSignaling)
      /\ app' = app \/ (app = 0 /\ app' = av[Target].cid)
  <2>1. /\ sh \in Shared /\ av \in [Device -> Signaling] /\ app \in 0..MaxCid /\ gone = Nil
        /\ UNCHANGED <<session, acl, cids, gone, dead, key, losses, theirs, race>>
        /\ av[Target].st = "pending" /\ av' = [av EXCEPT ![Target] = NoSignaling]
        /\ \E f \in {"AuthFailed", "LinkLost", "Other"} : Failing(av[Target].cid, f)
    BY DEF SignalingFails, HostInv, HostTypeOK, Job
  <2>2. Put(Target, NoSignaling)
    BY <2>1, NoSignalingTyped, Bounds DEF Put
  <2>3. SameShared /\ (app' = app \/ (app = 0 /\ app' = av[Target].cid))
    BY <2>1, FailingFacts, Values
  <2> QED BY <2>1, <2>2, <2>3
<1>1. HostTypeOK'
  BY <1>0, Bounds, Typed
     DEF session, Put, SameShared, SameLive, HostInv, HostTypeOK
<1>2. CidInv'
  BY <1>0, Bounds, Typed, NoSignalingTyped
     DEF session, Put, SameShared, SameLive, HostInv, CidInv, Cid
<1>3. NextInv'
  BY <1>0, Bounds
     DEF session, Put, SameShared, SameLive, HostInv, HostTypeOK, Locals, Shared, Signaling,
         NextInv
<1>4. PageInv'
  BY <1>0, Bounds
     DEF session, Put, SameShared, SameLive, HostInv, HostTypeOK, Locals, Shared, Signaling,
         PageInv, PageNotDropped
<1>5. KnownInv'
  BY <1>0, Bounds
     DEF session, Put, SameShared, SameLive, HostInv, HostTypeOK, Locals, Shared, Signaling,
         KnownInv, Ours, CidInv
<1>6. RealInv'
  BY <1>0, Bounds, Typed, NoSignalingTyped
     DEF session, Put, SameShared, SameLive, HostInv, RealInv, Calm, CidInv, NextInv
<1>7. OnceInv'
  BY <1>0, Bounds
     DEF session, Put, SameShared, SameLive, HostInv, HostTypeOK, Locals, Shared, Signaling,
         OnceInv, RealInv, CidInv, Cid
<1>8. KeyInv'
  BY <1>0, Bounds, Typed, NoSignalingTyped
     DEF session, Put, SameShared, SameLive, HostInv, KeyInv, Pairing, CidInv
<1>9. KeySafe
  BY <1>0, Bounds
     DEF session, Put, SameShared, SameLive, HostInv, HostTypeOK, Locals, KeyInv, KeySafe,
         Pairing, Ours
<1> QED BY <1>1, <1>2, <1>3, <1>4, <1>5, <1>6, <1>7, <1>8, <1>9 DEF HostInv

\* The disconnection is reported: a live connection of that link is lost.
LEMMA DisconnectionKeeps ==
    ASSUME HostInv, Disconnection PROVE HostInv' /\ KeySafe
<1>0. /\ gone # Nil /\ gone' = Nil
      /\ UNCHANGED <<session, app, av, acl, cids, dead, key, theirs, race>>
      /\ sh' \in Shared /\ sh'.stalled = sh.stalled
      /\ sh'.con = sh.con \/ (sh.con \in {Nil, gone} /\ sh'.con = Nil)
      /\ \/ /\ sh'.connected = sh.connected /\ sh'.streaming = sh.streaming /\ sh'.lost = sh.lost
            /\ losses' = losses
         \/ /\ sh.connected = TRUE \/ sh.streaming = TRUE
            /\ sh.con \in {Nil, gone}
            /\ sh'.connected = FALSE /\ sh'.streaming = FALSE /\ sh'.lost = TRUE
            /\ losses' = IF app # 0 THEN [losses EXCEPT ![app] = @ + 1] ELSE losses
  <2> DEFINE other == sh.con \notin {Nil, gone}
             live  == ~other /\ (sh.connected \/ sh.streaming)
  <2>1. /\ sh \in Shared /\ gone # Nil /\ gone' = Nil
        /\ UNCHANGED <<session, app, av, acl, cids, dead, key, theirs, race>>
        /\ sh' = [sh EXCEPT !.con = IF other THEN @ ELSE Nil, !.connected = @ /\ ~live,
                            !.streaming = @ /\ ~live, !.lost = @ \/ live]
        /\ losses' = IF live /\ app # 0 THEN [losses EXCEPT ![app] = @ + 1] ELSE losses
    BY DEF Disconnection, HostInv, HostTypeOK
  <2>2. CASE live
    <3>1. sh' = [sh EXCEPT !.con = Nil, !.connected = FALSE, !.streaming = FALSE, !.lost = TRUE]
      BY <2>1, <2>2
    <3>2. sh.connected = TRUE \/ sh.streaming = TRUE
      BY <2>1, <2>2 DEF Shared
    <3>3. /\ sh' \in Shared /\ sh'.stalled = sh.stalled /\ sh'.con = Nil
          /\ sh'.connected = FALSE /\ sh'.streaming = FALSE /\ sh'.lost = TRUE
      BY <2>1, <3>1 DEF Shared
    <3> QED BY <2>1, <2>2, <3>2, <3>3
  <2>3. CASE ~live
    <3>1. sh' = [sh EXCEPT !.con = IF other THEN @ ELSE Nil, !.connected = sh.connected,
                           !.streaming = sh.streaming, !.lost = sh.lost]
      <4>1. sh.connected \in BOOLEAN /\ sh.streaming \in BOOLEAN /\ sh.lost \in BOOLEAN
        BY <2>1 DEF Shared
      <4>2. /\ (sh.connected /\ ~live) = sh.connected /\ (sh.streaming /\ ~live) = sh.streaming
            /\ (sh.lost \/ live) = sh.lost
        BY <2>3, <4>1
      <4> HIDE DEF live, other
      <4> QED BY <2>1, <4>2
    <3>2. /\ sh' \in Shared /\ sh'.stalled = sh.stalled
          /\ sh'.con = (IF other THEN sh.con ELSE Nil)
          /\ sh'.connected = sh.connected /\ sh'.streaming = sh.streaming /\ sh'.lost = sh.lost
      BY <2>1, <3>1 DEF Shared
    <3> QED BY <2>1, <2>3, <3>2
  <2> QED BY <2>2, <2>3
<1>1. HostTypeOK'
  BY SMTT(30), <1>0, Bounds
     DEF session, HostInv, HostTypeOK, Cid
<1>2. CidInv'
  BY <1>0, Bounds
     DEF session, HostInv, HostTypeOK, Locals, Shared, Signaling, CidInv, NoSignaling, Cid
<1>3. NextInv'
  BY <1>0, Bounds
     DEF session, HostInv, HostTypeOK, Locals, Shared, Signaling, NextInv
<1>4. KnownInv'
  BY <1>0, Bounds
     DEF session, HostInv, HostTypeOK, Locals, Shared, Signaling, KnownInv, Ours, CidInv,
         NoSignaling
<1>5. RealInv'
  BY <1>0, Bounds
     DEF session, HostInv, HostTypeOK, Locals, Shared, Signaling, RealInv, Calm, CidInv,
         NoSignaling, NextInv
<1>6. OnceInv'
  <2> SUFFICES ASSUME theirs = {} PROVE OnceInv'
    BY <1>0 DEF OnceInv
  <2>1. CASE /\ sh'.connected = sh.connected /\ sh'.streaming = sh.streaming /\ losses' = losses
    BY <1>0, <2>1 DEF HostInv, OnceInv
  <2>2. CASE /\ sh.connected = TRUE \/ sh.streaming = TRUE
             /\ sh'.connected = FALSE /\ sh'.streaming = FALSE
             /\ losses' = (IF app # 0 THEN [losses EXCEPT ![app] = @ + 1] ELSE losses)
             /\ sh.con \in {Nil, gone}
    <3>1. CASE app = 0
      BY <1>0, <2>2, <3>1 DEF HostInv, OnceInv
    <3>2. CASE app # 0
      <4>1. app \in Cid /\ losses' = [losses EXCEPT ![app] = @ + 1]
        BY <2>2, <3>2, Typed, Bounds DEF Cid
      <4>2. losses[app] <= 1 /\ losses[app] # 1 /\ losses[app] \in Nat
        BY <2>2, <3>2, <4>1 DEF HostInv, HostTypeOK, OnceInv
      <4>3. losses'[app] = 1 /\ \A e \in Cid : losses'[e] <= 1
        <5>1. \A e \in Cid : losses[e] \in Nat /\ losses[e] <= 1
          BY DEF HostInv, HostTypeOK, OnceInv
        <5>2. losses'[app] = losses[app] + 1 /\ \A e \in Cid : e # app => losses'[e] = losses[e]
          BY <4>1, LossesTyped
        <5> QED BY <4>1, <4>2, <5>1, <5>2
      <4>4. av[Target].cid # app
        <5>1. CASE av[Target].st \in {"none", "pending"}
          BY <2>2, <3>2, <5>1, Bounds, NoSignalingTyped DEF HostInv, CidInv, RealInv
        <5>2. CASE av[Target].st \in {"open", "closing"} /\ av[Target].cid = app
          <6>1. sh.con = Target
            BY <5>2 DEF HostInv, RealInv
          <6>2. gone = Target
            BY <1>0, <2>2, <6>1, Bounds
          <6> QED BY <1>0, <5>2, <6>2, NoSignalingTyped DEF HostInv, CidInv
        <5> QED BY <5>1, <5>2, Typed, Bounds
      <4> QED BY <1>0, <2>2, <4>3, <4>4 DEF OnceInv
    <3> QED BY <3>1, <3>2
  <2> QED BY <1>0, <2>1, <2>2
<1>7. PageInv' /\ KeyInv'
  BY <1>0, Bounds
     DEF session, HostInv, PageInv, KeyInv, PageNotDropped
<1>8. KeySafe
  BY <1>0, Bounds
     DEF session, HostInv, HostTypeOK, Locals, KeyInv, KeySafe, Pairing, Ours
<1> QED BY <1>1, <1>2, <1>3, <1>4, <1>5, <1>6, <1>7, <1>8 DEF HostInv

\* An idle link begins to close: if the session is about to establish, that is the race.
LEMMA IdleCloseKeeps ==
    ASSUME HostInv, IdleClose PROVE HostInv' /\ KeySafe
<1>1. HostTypeOK'
  <2> QED
    BY Bounds, Values
       DEF IdleClose, Job, session, HostInv, HostTypeOK, Locals, Cid, Signaling
<1>2. PageInv'
  BY Bounds
     DEF IdleClose, Job, session, HostInv, HostTypeOK, Done, Locals, Shared, Signaling, PageInv,
         PageNotDropped
<1>3. CidInv' /\ NextInv' /\ KnownInv' /\ RealInv' /\ OnceInv' /\ KeyInv'
  BY Bounds
     DEF IdleClose, Job, session, HostInv, CidInv, NextInv, KnownInv, RealInv, OnceInv, KeyInv,
         Ours
<1>4. KeySafe
  BY Bounds
     DEF IdleClose, Job, session, HostInv, HostTypeOK, Locals, KeyInv, KeySafe, Pairing, Ours
<1> QED BY <1>1, <1>2, <1>3, <1>4 DEF HostInv

\* The controller stops answering.
LEMMA ControllerDiesKeeps ==
    ASSUME HostInv, ControllerDies PROVE HostInv' /\ KeySafe
<1>1. HostTypeOK'
  <2> QED
    BY Bounds, Values
       DEF ControllerDies, Job, session, HostInv, HostTypeOK, Locals, Cid, Signaling
<1>2. CidInv' /\ NextInv' /\ PageInv' /\ KnownInv' /\ RealInv' /\ OnceInv' /\ KeyInv'
  BY Bounds
     DEF ControllerDies, Job, session, HostInv, CidInv, NextInv, PageInv, KnownInv, RealInv,
         OnceInv, KeyInv, PageNotDropped, Ours
<1>3. KeySafe
  BY Bounds
     DEF ControllerDies, Job, session, HostInv, HostTypeOK, Locals, KeyInv, KeySafe, Pairing, Ours
<1> QED BY <1>1, <1>2, <1>3 DEF HostInv

\* A link is up.
LEMMA LinkUpKeeps ==
    ASSUME HostInv, NEW d \in Device, LinkUp(d) PROVE HostInv' /\ KeySafe
<1>1. HostTypeOK'
  <2> QED
    BY Bounds, Values
       DEF LinkUp, Job, session, HostInv, HostTypeOK, Locals, Cid, Signaling
<1>2. PageInv'
  BY Bounds
     DEF LinkUp, Job, session, HostInv, HostTypeOK, Done, Locals, Shared, Signaling, PageInv,
         PageNotDropped
<1>3. CidInv' /\ NextInv' /\ KnownInv' /\ RealInv' /\ OnceInv' /\ KeyInv'
  BY Bounds
     DEF LinkUp, Job, session, HostInv, CidInv, NextInv, KnownInv, RealInv, OnceInv, KeyInv, Ours
<1>4. KeySafe
  BY Bounds
     DEF LinkUp, Job, session, HostInv, HostTypeOK, Locals, KeyInv, KeySafe, Pairing, Ours
<1> QED BY <1>1, <1>2, <1>3, <1>4 DEF HostInv

\* The capabilities are known.
LEMMA CapabilitiesKeeps ==
    ASSUME HostInv, NEW d \in Device, Capabilities(d) PROVE HostInv' /\ KeySafe
<1>0. /\ gone = Nil
      /\ UNCHANGED <<session, app, acl, cids, gone, dead, key, losses, theirs, race>>
      /\ av[d].st = "open" /\ Streams /\ sh' \in Shared /\ sh'.connected = TRUE
      /\ sh'.streaming = sh.streaming /\ sh'.lost = sh.lost /\ sh'.con = sh.con
      /\ sh'.stalled = sh.stalled
  <2>1. /\ sh \in Shared /\ av \in [Device -> Signaling] /\ gone = Nil /\ av[d].st = "open"
        /\ UNCHANGED <<session, app, acl, cids, gone, dead, key, losses, theirs, race>>
        /\ av' = [av EXCEPT ![d].caps = TRUE]
        /\ sh' = [sh EXCEPT !.connected = TRUE, !.connectDone = TRUE]
    BY DEF Capabilities, HostInv, HostTypeOK, Job
  <2>2. Streams
    BY <2>1 DEF Streams, Signaling
  <2>3. /\ sh' \in Shared /\ sh'.connected = TRUE /\ sh'.streaming = sh.streaming
        /\ sh'.lost = sh.lost /\ sh'.con = sh.con /\ sh'.stalled = sh.stalled
    BY <2>1, Values DEF Shared
  <2> QED BY <2>1, <2>2, <2>3
<1>1. HostTypeOK'
  BY <1>0, Bounds
     DEF session, Streams, HostInv, HostTypeOK, Cid
<1>2. CidInv'
  BY <1>0, Bounds
     DEF session, Streams, HostInv, HostTypeOK, Locals, Shared, Signaling, CidInv, NoSignaling,
         Cid
<1>3. NextInv'
  BY <1>0, Bounds
     DEF session, Streams, HostInv, HostTypeOK, Locals, Shared, Signaling, NextInv
<1>4. PageInv'
  BY <1>0, Bounds
     DEF session, Streams, HostInv, HostTypeOK, Locals, Shared, Signaling, PageInv, PageNotDropped
<1>5. KnownInv'
  BY <1>0, Bounds
     DEF session, Streams, HostInv, HostTypeOK, Locals, Shared, Signaling, KnownInv, Ours, CidInv,
         NoSignaling
<1>6. RealInv'
  BY <1>0, Bounds
     DEF session, Streams, HostInv, HostTypeOK, Locals, Shared, Signaling, RealInv, Calm, CidInv,
         NoSignaling, NextInv
<1>7. OnceInv'
  BY <1>0, Bounds
     DEF session, Streams, HostInv, HostTypeOK, Locals, Shared, Signaling, OnceInv, RealInv,
         CidInv, NoSignaling, Cid
<1>8. KeyInv'
  BY <1>0, Bounds
     DEF session, Streams, HostInv, HostTypeOK, Locals, Shared, Signaling, KeyInv, Pairing,
         CidInv, NoSignaling
<1>9. KeySafe
  BY <1>0, Bounds
     DEF session, Streams, HostInv, HostTypeOK, Locals, KeyInv, KeySafe, Pairing, Ours
<1> QED BY <1>1, <1>2, <1>3, <1>4, <1>5, <1>6, <1>7, <1>8, <1>9 DEF HostInv

\* The device configures the stream.
LEMMA DeviceConfiguresKeeps ==
    ASSUME HostInv, NEW d \in Device, DeviceConfigures(d) PROVE HostInv' /\ KeySafe
<1>0. /\ gone = Nil
      /\ UNCHANGED <<session, app, acl, cids, gone, dead, key, losses, theirs, race>>
      /\ Streams /\ SameShared
  <2>1. /\ sh \in Shared /\ av \in [Device -> Signaling] /\ gone = Nil /\ av[d].st = "open"
        /\ UNCHANGED <<session, app, acl, cids, gone, dead, key, losses, theirs, race>>
        /\ av' = [av EXCEPT ![d].stm = "opened"]
        /\ sh' = [sh EXCEPT !.config = TRUE, !.streamDone = TRUE]
    BY DEF DeviceConfigures, HostInv, HostTypeOK, Job
  <2>2. Streams
    BY <2>1 DEF Streams, Signaling
  <2>3. SameShared
    BY <2>1, Values DEF Shared, SameShared, SameLive
  <2> QED BY <2>1, <2>2, <2>3
<1>1. HostTypeOK'
  BY <1>0, Bounds
     DEF session, SameShared, Streams, SameLive, HostInv, HostTypeOK, Cid
<1>2. CidInv'
  BY <1>0, Bounds
     DEF session, SameShared, Streams, SameLive, HostInv, HostTypeOK, Locals, Shared, Signaling,
         CidInv, NoSignaling, Cid
<1>3. NextInv'
  BY <1>0, Bounds
     DEF session, SameShared, Streams, SameLive, HostInv, HostTypeOK, Locals, Shared, Signaling,
         NextInv
<1>4. PageInv'
  BY <1>0, Bounds
     DEF session, SameShared, Streams, SameLive, HostInv, HostTypeOK, Locals, Shared, Signaling,
         PageInv, PageNotDropped
<1>5. KnownInv'
  BY <1>0, Bounds
     DEF session, SameShared, Streams, SameLive, HostInv, HostTypeOK, Locals, Shared, Signaling,
         KnownInv, Ours, CidInv, NoSignaling
<1>6. RealInv'
  BY <1>0, Bounds
     DEF session, SameShared, Streams, SameLive, HostInv, HostTypeOK, Locals, Shared, Signaling,
         RealInv, Calm, CidInv, NoSignaling, NextInv
<1>7. OnceInv'
  BY <1>0, Bounds
     DEF session, SameShared, Streams, SameLive, HostInv, HostTypeOK, Locals, Shared, Signaling,
         OnceInv, RealInv, CidInv, NoSignaling, Cid
<1>8. KeyInv'
  BY <1>0, Bounds
     DEF session, SameShared, Streams, SameLive, HostInv, HostTypeOK, Locals, Shared, Signaling,
         KeyInv, Pairing, CidInv, NoSignaling
<1>9. KeySafe
  BY <1>0, Bounds
     DEF session, SameShared, Streams, SameLive, HostInv, HostTypeOK, Locals, KeyInv, KeySafe,
         Pairing, Ours
<1> QED BY <1>1, <1>2, <1>3, <1>4, <1>5, <1>6, <1>7, <1>8, <1>9 DEF HostInv

\* The stream is configured or refused.
LEMMA StreamAnswerKeeps ==
    ASSUME HostInv, NEW d \in Device, StreamAnswer(d) PROVE HostInv' /\ KeySafe
<1>0. /\ gone = Nil
      /\ UNCHANGED <<session, app, acl, cids, gone, dead, key, losses, theirs, race>>
      /\ Streams /\ SameShared
  <2>1. /\ sh \in Shared /\ av \in [Device -> Signaling] /\ gone = Nil /\ av[d].st = "open"
        /\ UNCHANGED <<session, app, acl, cids, gone, dead, key, losses, theirs, race>>
    BY DEF StreamAnswer, HostInv, HostTypeOK, Job
  <2>2. PICK ok \in BOOLEAN :
           /\ av' = [av EXCEPT ![d].stm = IF ok THEN "opened" ELSE "refused"]
           /\ sh' = [sh EXCEPT !.streamDone = ok, !.config = ok \/ @]
    BY DEF StreamAnswer
  <2>3. Streams
    BY <2>1, <2>2 DEF Streams, Signaling
  <2>4. SameShared
    <3>1. (ok \/ sh.config) \in BOOLEAN /\ ok \in Done
      BY Values
    <3> QED BY <2>1, <2>2, <3>1 DEF Shared, SameShared, SameLive
  <2> QED BY <2>1, <2>3, <2>4
<1>1. HostTypeOK'
  BY <1>0, Bounds
     DEF session, SameShared, Streams, SameLive, HostInv, HostTypeOK, Cid
<1>2. CidInv'
  BY <1>0, Bounds
     DEF session, SameShared, Streams, SameLive, HostInv, HostTypeOK, Locals, Shared, Signaling,
         CidInv, NoSignaling, Cid
<1>3. NextInv'
  BY <1>0, Bounds
     DEF session, SameShared, Streams, SameLive, HostInv, HostTypeOK, Locals, Shared, Signaling,
         NextInv
<1>4. PageInv'
  BY <1>0, Bounds
     DEF session, SameShared, Streams, SameLive, HostInv, HostTypeOK, Locals, Shared, Signaling,
         PageInv, PageNotDropped
<1>5. KnownInv'
  BY <1>0, Bounds
     DEF session, SameShared, Streams, SameLive, HostInv, HostTypeOK, Locals, Shared, Signaling,
         KnownInv, Ours, CidInv, NoSignaling
<1>6. RealInv'
  BY <1>0, Bounds
     DEF session, SameShared, Streams, SameLive, HostInv, HostTypeOK, Locals, Shared, Signaling,
         RealInv, Calm, CidInv, NoSignaling, NextInv
<1>7. OnceInv'
  BY <1>0, Bounds
     DEF session, SameShared, Streams, SameLive, HostInv, HostTypeOK, Locals, Shared, Signaling,
         OnceInv, RealInv, CidInv, NoSignaling, Cid
<1>8. KeyInv'
  BY <1>0, Bounds
     DEF session, SameShared, Streams, SameLive, HostInv, HostTypeOK, Locals, Shared, Signaling,
         KeyInv, Pairing, CidInv, NoSignaling
<1>9. KeySafe
  BY <1>0, Bounds
     DEF session, SameShared, Streams, SameLive, HostInv, HostTypeOK, Locals, KeyInv, KeySafe,
         Pairing, Ours
<1> QED BY <1>1, <1>2, <1>3, <1>4, <1>5, <1>6, <1>7, <1>8, <1>9 DEF HostInv

\* The stream is started or refused.
LEMMA StartAnswerKeeps ==
    ASSUME HostInv, NEW d \in Device, StartAnswer(d) PROVE HostInv' /\ KeySafe
<1>0. /\ gone = Nil
      /\ UNCHANGED <<session, app, acl, cids, gone, dead, key, losses, theirs, race>>
      /\ av[d].st = "open" /\ Streams /\ sh' \in Shared /\ sh'.connected = sh.connected
      /\ sh'.streaming = TRUE \/ sh'.streaming = sh.streaming
      /\ sh'.lost = sh.lost /\ sh'.con = sh.con /\ sh'.stalled = sh.stalled
  <2>1. /\ sh \in Shared /\ av \in [Device -> Signaling] /\ gone = Nil /\ av[d].st = "open"
        /\ UNCHANGED <<session, app, acl, cids, gone, dead, key, losses, theirs, race>>
    BY DEF StartAnswer, HostInv, HostTypeOK, Job
  <2>2. CASE /\ av' = [av EXCEPT ![d].stm = "started"]
             /\ sh' = [sh EXCEPT !.streaming = TRUE, !.startDone = TRUE]
    <3>1. Streams
      BY <2>1, <2>2 DEF Streams, Signaling
    <3>2. /\ sh' \in Shared /\ sh'.connected = sh.connected /\ sh'.streaming = TRUE
          /\ sh'.lost = sh.lost /\ sh'.con = sh.con /\ sh'.stalled = sh.stalled
      BY <2>1, <2>2, Values DEF Shared
    <3> QED BY <2>1, <3>1, <3>2
  <2>3. CASE /\ av' = [av EXCEPT ![d].stm = "opened"]
             /\ sh' = [sh EXCEPT !.startDone = IF @ = Nil THEN FALSE ELSE @]
    <3>1. Streams
      BY <2>1, <2>3 DEF Streams, Signaling
    <3>2. (IF sh.startDone = Nil THEN FALSE ELSE sh.startDone) \in Done
      BY <2>1, Values DEF Shared
    <3>3. SameShared
      BY <2>1, <2>3, <3>2 DEF Shared, SameShared, SameLive
    <3> QED BY <2>1, <3>1, <3>3 DEF SameShared, SameLive
  <2> QED BY <2>2, <2>3 DEF StartAnswer
<1>1. HostTypeOK'
  BY <1>0, Bounds
     DEF session, Streams, HostInv, HostTypeOK, Cid
<1>2. CidInv'
  BY <1>0, Bounds
     DEF session, Streams, HostInv, HostTypeOK, Locals, Shared, Signaling, CidInv, NoSignaling,
         Cid
<1>3. NextInv'
  BY <1>0, Bounds
     DEF session, Streams, HostInv, HostTypeOK, Locals, Shared, Signaling, NextInv
<1>4. PageInv'
  BY <1>0, Bounds
     DEF session, Streams, HostInv, HostTypeOK, Locals, Shared, Signaling, PageInv, PageNotDropped
<1>5. KnownInv'
  BY <1>0, Bounds
     DEF session, Streams, HostInv, HostTypeOK, Locals, Shared, Signaling, KnownInv, Ours, CidInv,
         NoSignaling
<1>6. RealInv'
  BY <1>0, Bounds
     DEF session, Streams, HostInv, HostTypeOK, Locals, Shared, Signaling, RealInv, Calm, CidInv,
         NoSignaling, NextInv
<1>7. OnceInv'
  BY <1>0, Bounds
     DEF session, Streams, HostInv, HostTypeOK, Locals, Shared, Signaling, OnceInv, RealInv,
         CidInv, NoSignaling, Cid
<1>8. KeyInv'
  BY <1>0, Bounds
     DEF session, Streams, HostInv, HostTypeOK, Locals, Shared, Signaling, KeyInv, Pairing,
         CidInv, NoSignaling
<1>9. KeySafe
  BY <1>0, Bounds
     DEF session, Streams, HostInv, HostTypeOK, Locals, KeyInv, KeySafe, Pairing, Ours
<1> QED BY <1>1, <1>2, <1>3, <1>4, <1>5, <1>6, <1>7, <1>8, <1>9 DEF HostInv

\* The device suspends the stream.
LEMMA SuspendedKeeps ==
    ASSUME HostInv, NEW d \in Device, Suspended(d) PROVE HostInv' /\ KeySafe
<1>0. /\ gone = Nil
      /\ UNCHANGED <<session, app, acl, cids, gone, dead, key, losses, theirs, race>>
      /\ Streams /\ sh' \in Shared /\ sh'.connected = sh.connected /\ sh'.streaming = FALSE
      /\ sh'.lost = sh.lost /\ sh'.con = sh.con /\ sh'.stalled = sh.stalled
  <2>1. /\ sh \in Shared /\ av \in [Device -> Signaling] /\ gone = Nil /\ av[d].stm = "started"
        /\ UNCHANGED <<session, app, acl, cids, gone, dead, key, losses, theirs, race>>
        /\ av' = [av EXCEPT ![d].stm = "opened"] /\ sh' = [sh EXCEPT !.streaming = FALSE]
        /\ av[d].st = "none" => av[d] = NoSignaling
    BY DEF Suspended, HostInv, HostTypeOK, CidInv, Job
  <2>2. av[d].st # "none"
    BY <2>1 DEF NoSignaling
  <2>3. Streams
    BY <2>1, <2>2 DEF Streams, Signaling
  <2>4. /\ sh' \in Shared /\ sh'.connected = sh.connected /\ sh'.streaming = FALSE
        /\ sh'.lost = sh.lost /\ sh'.con = sh.con /\ sh'.stalled = sh.stalled
    BY <2>1 DEF Shared
  <2> QED BY <2>1, <2>3, <2>4
<1>1. HostTypeOK'
  BY <1>0, Bounds
     DEF session, Streams, HostInv, HostTypeOK, Cid
<1>2. CidInv'
  BY <1>0, Bounds
     DEF session, Streams, HostInv, HostTypeOK, Locals, Shared, Signaling, CidInv, NoSignaling,
         Cid
<1>3. NextInv'
  BY <1>0, Bounds
     DEF session, Streams, HostInv, HostTypeOK, Locals, Shared, Signaling, NextInv
<1>4. PageInv'
  BY <1>0, Bounds
     DEF session, Streams, HostInv, HostTypeOK, Locals, Shared, Signaling, PageInv, PageNotDropped
<1>5. KnownInv'
  BY <1>0, Bounds
     DEF session, Streams, HostInv, HostTypeOK, Locals, Shared, Signaling, KnownInv, Ours, CidInv,
         NoSignaling
<1>6. RealInv'
  BY <1>0, Bounds
     DEF session, Streams, HostInv, HostTypeOK, Locals, Shared, Signaling, RealInv, Calm, CidInv,
         NoSignaling, NextInv
<1>7. OnceInv'
  BY <1>0, Bounds
     DEF session, Streams, HostInv, HostTypeOK, Locals, Shared, Signaling, OnceInv, RealInv,
         CidInv, NoSignaling, Cid
<1>8. KeyInv'
  BY <1>0, Bounds
     DEF session, Streams, HostInv, HostTypeOK, Locals, Shared, Signaling, KeyInv, Pairing,
         CidInv, NoSignaling
<1>9. KeySafe
  BY <1>0, Bounds
     DEF session, Streams, HostInv, HostTypeOK, Locals, KeyInv, KeySafe, Pairing, Ours
<1> QED BY <1>1, <1>2, <1>3, <1>4, <1>5, <1>6, <1>7, <1>8, <1>9 DEF HostInv

\* A connection is released: the current one is lost.
LEMMA ReleasedKeeps ==
    ASSUME HostInv, NEW d \in Device, Released(d) PROVE HostInv' /\ KeySafe
<1>0. /\ gone = Nil /\ UNCHANGED <<session, acl, cids, gone, dead, key, theirs, race>>
      /\ IsOpen(av[d]) /\ Put(d, NoSignaling) /\ Lost(av[d].cid)
  <2>1. /\ sh \in Shared /\ av \in [Device -> Signaling] /\ gone = Nil /\ IsOpen(av[d])
        /\ UNCHANGED <<session, acl, cids, gone, dead, key, theirs, race>>
        /\ av' = [av EXCEPT ![d] = NoSignaling] /\ OnReleased(av[d].cid)
    BY DEF Released, HostInv, HostTypeOK, Job
  <2>2. Put(d, NoSignaling)
    BY <2>1, NoSignalingTyped DEF Put
  <2> QED BY <2>1, <2>2, ReleasedFacts
<1>1. HostTypeOK'
  BY SMTT(30), <1>0, Bounds
     DEF session, IsOpen, Put, Lost, SameShared, SameLive, HostInv, HostTypeOK, Cid
<1>2. CidInv'
  BY <1>0, LostKeeps, Bounds, Typed, NoSignalingTyped
     DEF session, Put, HostInv, CidInv
<1>3. NextInv'
  BY <1>0, Bounds
     DEF session, IsOpen, Put, Lost, SameShared, SameLive, HostInv, HostTypeOK, Locals, Shared,
         Signaling, NextInv
<1>4. PageInv'
  BY <1>0, Bounds, Typed, NoSignalingTyped
     DEF session, IsOpen, Put, Lost, SameShared, SameLive, HostInv, PageInv, PageNotDropped
<1>5. KnownInv'
  BY <1>0, Bounds
     DEF session, IsOpen, Put, Lost, SameShared, SameLive, HostInv, HostTypeOK, Locals, Shared,
         Signaling, KnownInv, Ours, CidInv
<1>6. RealInv'
  BY <1>0, Bounds, Typed, NoSignalingTyped
     DEF session, IsOpen, Put, Lost, SameShared, SameLive, HostInv, RealInv, Calm, CidInv, NextInv
<1>7. OnceInv'
  BY <1>0, LostKeeps DEF session
<1>8. KeyInv'
  BY <1>0, Bounds, Typed, NoSignalingTyped
     DEF session, IsOpen, Put, Lost, SameShared, SameLive, HostInv, KeyInv, Pairing, CidInv
<1>9. KeySafe
  BY <1>0, Bounds
     DEF session, IsOpen, Put, Lost, SameShared, SameLive, HostInv, HostTypeOK, Locals, KeyInv,
         KeySafe, Pairing, Ours
<1> QED BY <1>1, <1>2, <1>3, <1>4, <1>5, <1>6, <1>7, <1>8, <1>9 DEF HostInv

\* A link goes down: its connection is released or fails.
LEMMA LinkDownKeeps ==
    ASSUME HostInv, NEW d \in Device, LinkDown(d) PROVE HostInv' /\ KeySafe
<1>0. /\ gone = Nil /\ gone' = d /\ UNCHANGED <<session, cids, dead, key, theirs, race>>
      /\ acl' \in [Device -> {"none", "paging", "open", "closing"}] /\ acl'[d] = "none"
      /\ (\A e \in Device : e # d => acl'[e] = acl[e])
      /\ Put(d, NoSignaling)
      /\ \/ IsOpen(av[d]) /\ Lost(av[d].cid)
         \/ /\ av[d].st \in {"none", "pending"} /\ SameShared /\ UNCHANGED losses
            /\ app' = app \/ (av[d].st = "pending" /\ app = 0 /\ app' = av[d].cid)
  <2>1. /\ sh \in Shared /\ av \in [Device -> Signaling] /\ gone = Nil /\ gone' = d
        /\ acl \in [Device -> {"none", "paging", "open", "closing"}]
        /\ acl' = [acl EXCEPT ![d] = "none"]
        /\ UNCHANGED <<session, cids, dead, key, theirs, race>>
        /\ av' = [av EXCEPT ![d] = NoSignaling]
    BY DEF LinkDown, HostInv, HostTypeOK, Job
  <2>2. Put(d, NoSignaling)
    BY <2>1, NoSignalingTyped DEF Put
  <2>3. /\ acl' \in [Device -> {"none", "paging", "open", "closing"}] /\ acl'[d] = "none"
        /\ \A e \in Device : e # d => acl'[e] = acl[e]
    BY <2>1
  <2>4. CASE IsOpen(av[d])
    <3>1. OnReleased(av[d].cid)
      BY <2>4 DEF LinkDown, IsOpen
    <3> QED BY <2>1, <2>2, <2>3, <2>4, <3>1, ReleasedFacts
  <2>5. CASE av[d].st = "pending"
    <3>1. Failing(av[d].cid, "LinkLost") /\ UNCHANGED losses
      BY <2>5 DEF LinkDown, IsOpen
    <3>2. SameShared /\ (app' = app \/ (app = 0 /\ app' = av[d].cid))
      BY <2>1, <3>1, FailingFacts, Values
    <3> QED BY <2>1, <2>2, <2>3, <2>5, <3>1, <3>2
  <2>6. CASE av[d].st = "none"
    <3>1. UNCHANGED <<app, sh, losses>>
      BY <2>6 DEF LinkDown, IsOpen
    <3> QED BY <2>1, <2>2, <2>3, <2>6, <3>1 DEF SameShared, SameLive
  <2>7. av[d].st \in {"none", "pending", "open", "closing"}
    BY <2>1 DEF Signaling
  <2> QED BY <2>4, <2>5, <2>6, <2>7 DEF IsOpen
<1>1. HostTypeOK'
  BY <1>0, Bounds, Typed
     DEF session, Put, SameShared, Lost, SameLive, HostInv, HostTypeOK
<1>2. CidInv'
  <2>1. app' <= cids /\ \A c \in Cid : c > cids => losses'[c] = 0
    <3>1. CASE IsOpen(av[d]) /\ Lost(av[d].cid)
      BY <1>0, <3>1, LostKeeps
    <3>2. CASE /\ UNCHANGED losses
               /\ app' = app \/ (av[d].st = "pending" /\ app = 0 /\ app' = av[d].cid)
      BY <3>2, Typed DEF HostInv, CidInv
    <3> QED BY <1>0, <3>1, <3>2
  <2>2. gone' = d /\ av'[d] = NoSignaling /\ theirs' = theirs /\ cids' = cids
    BY <1>0 DEF Put
  <2>3. ASSUME NEW e \in Device
        PROVE  /\ av'[e].cid <= cids
               /\ av'[e].st = "none" => av'[e] = NoSignaling
               /\ av'[e].st # "none" => av'[e].cid >= 1
               /\ e # Target /\ e \notin theirs => av'[e] = NoSignaling
    <3>1. av'[e] = NoSignaling \/ av'[e] = av[e]
      BY <1>0 DEF Put
    <3> QED BY <3>1, Typed, NoSignalingTyped DEF HostInv, CidInv
  <2> QED BY <2>1, <2>2, <2>3 DEF CidInv
<1>3. NextInv'
  BY <1>0, Bounds
     DEF session, IsOpen, Put, SameShared, Lost, SameLive, HostInv, HostTypeOK, Locals, Shared,
         Signaling, NextInv
<1>4. PageInv'
  BY <1>0, Bounds
     DEF session, IsOpen, Put, SameShared, Lost, SameLive, HostInv, HostTypeOK, Locals, Shared,
         Signaling, PageInv, PageNotDropped
<1>5. KnownInv'
  BY <1>0, Bounds
     DEF session, IsOpen, Put, SameShared, Lost, SameLive, HostInv, HostTypeOK, Locals, Shared,
         Signaling, KnownInv, Ours, CidInv
<1>6. RealInv'
  BY <1>0, Bounds, Typed, NoSignalingTyped
     DEF session, IsOpen, Put, SameShared, Lost, SameLive, HostInv, RealInv, Calm, CidInv, NextInv
<1>7. OnceInv'
  <2>1. CASE IsOpen(av[d]) /\ Lost(av[d].cid)
    BY <1>0, <2>1, LostKeeps
  <2>2. CASE /\ av[d].st \in {"none", "pending"} /\ SameShared /\ UNCHANGED losses
             /\ app' = app \/ (av[d].st = "pending" /\ app = 0 /\ app' = av[d].cid)
    <3> SUFFICES ASSUME theirs = {} PROVE OnceInv'
      BY <1>0 DEF OnceInv
    <3>1. av[d].st = "pending" => av[d].cid = app /\ app # 0
      BY NoSignalingTyped, Typed, Bounds DEF HostInv, CidInv, RealInv
    <3>2. app' = app /\ (app # 0 /\ av[Target].cid # app => av'[Target].cid # app)
      BY <1>0, <2>2, <3>1, Bounds, NoSignalingTyped DEF Put
    <3> QED BY <1>0, <2>2, <3>2 DEF HostInv, OnceInv, SameShared, SameLive
  <2> QED BY <1>0, <2>1, <2>2
<1>8. KeyInv'
  BY <1>0, Bounds, Typed, NoSignalingTyped
     DEF session, IsOpen, Put, SameShared, Lost, SameLive, HostInv, KeyInv, Pairing, CidInv
<1>9. KeySafe
  BY <1>0, Bounds
     DEF session, IsOpen, Put, SameShared, Lost, SameLive, HostInv, HostTypeOK, Locals, KeyInv,
         KeySafe, Pairing, Ours
<1> QED BY <1>1, <1>2, <1>3, <1>4, <1>5, <1>6, <1>7, <1>8, <1>9 DEF HostInv

\* A device opens a connection: it is the current one if there is none.
LEMMA DeviceOpensKeeps ==
    ASSUME HostInv, NEW d \in Opens, DeviceOpens(d) PROVE HostInv' /\ KeySafe
<1>0. /\ gone = Nil /\ UNCHANGED <<session, acl, gone, dead, losses, race>> /\ d \in Device
      /\ cids < MaxCid /\ cids' = cids + 1 /\ av[d].st = "none"
      /\ av'[d].st = "open" /\ av'[d].cid = cids + 1 /\ Put(d, av'[d])
      /\ key' \in {Nil, "old", "new"} /\ (key # Nil => key' = key) /\ theirs' = theirs \cup {d}
      /\ SameLive
      /\ \/ app = 0 /\ app' = cids + 1 /\ sh'.con = d
         \/ app # 0 /\ app' = app /\ sh'.con = sh.con
  <2> DEFINE r == [NoSignaling EXCEPT !.cid = cids + 1, !.st = "open"]
  <2>1. /\ sh \in Shared /\ av \in [Device -> Signaling] /\ app \in 0..MaxCid /\ gone = Nil
        /\ d \in Device
        /\ cids \in 0..MaxCid /\ app <= cids /\ cids < MaxCid /\ cids' = cids + 1
        /\ av[d].st = "none"
        /\ UNCHANGED <<session, acl, gone, dead, losses, race>> /\ theirs' = theirs \cup {d}
        /\ av' = [av EXCEPT ![d] = r] /\ OnEstablished(d, cids + 1) /\ key \in {Nil, "old", "new"}
        /\ key' \in {key, IF d = Target /\ key = Nil THEN "new" ELSE key}
    BY Bounds DEF DeviceOpens, HostInv, HostTypeOK, CidInv, Job
  <2>2. r \in Signaling /\ r.cid = cids + 1 /\ r.st = "open"
    <3>1. cids + 1 \in 0..MaxCid
      BY <2>1, Bounds
    <3> QED BY <3>1 DEF NoSignaling, Signaling
  <2> HIDE DEF r
  <2>3. Put(d, r)
    BY <2>1, <2>2 DEF Put
  <2>4. key' \in {Nil, "old", "new"} /\ (key # Nil => key' = key)
    BY <2>1
  <2>5. /\ SameLive
        /\ \/ app \in {0, cids + 1} /\ app' = cids + 1 /\ sh'.con = d
           \/ app \notin {0, cids + 1} /\ app' = app /\ sh'.con = sh.con
    BY <2>1, EstablishedFacts
  <2>6. app # cids + 1
    BY <2>1, Bounds
  <2> QED BY <2>1, <2>2, <2>3, <2>4, <2>5, <2>6 DEF Put
<1>1. HostTypeOK'
  BY <1>0, Bounds
     DEF session, Put, SameLive, HostInv, HostTypeOK, Cid
<1>2. CidInv'
  BY <1>0, Bounds, Typed, NoSignalingTyped
     DEF session, Put, SameLive, HostInv, CidInv, Cid
<1>3. NextInv'
  BY <1>0, Bounds
     DEF session, Put, SameLive, HostInv, HostTypeOK, Locals, Shared, Signaling, NextInv
<1>4. PageInv'
  BY <1>0, Bounds
     DEF session, Put, SameLive, HostInv, HostTypeOK, Locals, Shared, Signaling, PageInv,
         PageNotDropped
<1>5. KnownInv'
  BY <1>0, Bounds
     DEF session, Put, SameLive, HostInv, HostTypeOK, Locals, Shared, Signaling, KnownInv, Ours,
         CidInv
<1>6. RealInv'
  BY <1>0, Bounds
     DEF session, Put, SameLive, HostInv, HostTypeOK, Locals, Shared, Signaling, RealInv, Calm,
         CidInv, NextInv
<1>7. OnceInv'
  BY <1>0, Bounds
     DEF session, Put, SameLive, HostInv, HostTypeOK, Locals, Shared, Signaling, OnceInv, RealInv,
         CidInv, Cid
<1>8. KeyInv'
  BY <1>0, Bounds
     DEF session, Put, SameLive, HostInv, HostTypeOK, Locals, Shared, Signaling, KeyInv, Pairing,
         CidInv
<1>9. KeySafe
  BY <1>0, Bounds
     DEF session, Put, SameLive, HostInv, HostTypeOK, Locals, KeyInv, KeySafe, Pairing, Ours
<1> QED BY <1>1, <1>2, <1>3, <1>4, <1>5, <1>6, <1>7, <1>8, <1>9 DEF HostInv

\* The invariant holds at the start.
LEMMA HostInitial == HostInit => HostInv
<1> SUFFICES ASSUME HostInit PROVE HostInv
  OBVIOUS
<1>1. l \in Locals /\ l.dropped = Nil /\ l.next = "failed"
  <2>1. 1 \in 1 .. Attempts + 1
    BY Bounds
  <2> QED BY <2>1, Values DEF HostInit, Fresh, Locals
<1>2. sh \in Shared /\ sh.connected = FALSE /\ sh.streaming = FALSE /\ sh.lost = FALSE
  BY Values DEF HostInit, NewShared, Shared
<1>3. av \in [Device -> Signaling] /\ \A d \in Device : av[d] = NoSignaling
  BY NoSignalingTyped DEF HostInit
<1>4. 0 \in 0 .. MaxCid /\ 0 \in 0 .. MaxSession
  BY Bounds
<1>5. HostTypeOK
  <2>1. stop \in [asked : BOOLEAN, cancelled : BOOLEAN] /\ losses \in [Cid -> Nat]
    BY DEF HostInit
  <2> QED BY <1>1, <1>2, <1>3, <1>4, <2>1 DEF HostInit, HostTypeOK
<1>6. CidInv /\ NextInv /\ PageInv /\ KnownInv
  BY <1>3, Bounds, NoSignalingTyped
     DEF HostInit, CidInv, NextInv, PageInv, PageNotDropped, KnownInv
<1>7. RealInv /\ OnceInv /\ KeyInv
  BY <1>1, <1>2, <1>3, Bounds, NoSignalingTyped
     DEF HostInit, RealInv, Calm, OnceInv, KeyInv
<1> QED BY <1>5, <1>6, <1>7 DEF HostInv

\* A step that changes nothing keeps it, too.
LEMMA HostStutters ==
    ASSUME HostInv, UNCHANGED hostVars PROVE HostInv'
<1>1. UNCHANGED <<where, l, stop, begun, sh, app, av, acl, cids, gone, dead, key, losses,
                  theirs, race>>
  BY DEF hostVars, session, stack
<1>2. HostTypeOK' /\ CidInv' /\ NextInv'
  BY <1>1 DEF HostInv, HostTypeOK, CidInv, NextInv
<1>3. PageInv' /\ KnownInv' /\ RealInv' /\ OnceInv' /\ KeyInv'
  BY <1>1
     DEF HostInv, PageInv, PageNotDropped, KnownInv, Ours, RealInv, OnceInv, KeyInv
<1> QED BY <1>2, <1>3 DEF HostInv

\* Every step keeps the invariant and the key.
LEMMA HostStep ==
    ASSUME HostInv, HostNext PROVE HostInv' /\ KeySafe
<1>1. CASE Session
  BY <1>1, BeginKeeps, LeftoverKeeps, RelWaitKeeps, ForgetKeeps, ResetSharedKeeps,
     WaitClosingKeeps, EstablishKeeps, ConnectAnsweredKeeps, ConnectCancelledKeeps,
     ConnectTimedOutKeeps, CheckStalledKeeps, ClassifyKeeps, AbortKeeps, OutlivedKeeps,
     FailedKeeps, AuthStatusKeeps, DropAclKeeps, AclWaitKeeps, PauseKeeps,
     RestoreKeyKeeps, ConfigureKeeps, ConfWaitKeeps, StartStreamKeeps, StartWaitKeeps,
     DisconnectKeeps, PlayStoppedKeeps, PlayLostKeeps, GiveUpKeeps, NewStackKeeps,
     ReconnectKeeps, DevWaitKeeps, OnDeviceKeeps, AdoptKeeps, AdoptedKeeps, AnewKeeps,
     FailedAgainKeeps, OverKeeps
     DEF Session
<1>2. CASE Stack
  BY <1>2, Bounds, PageFailsKeeps, SignalingUpKeeps, SignalingFailsKeeps, DisconnectionKeeps,
     IdleCloseKeeps, ControllerDiesKeeps, LinkUpKeeps, CapabilitiesKeeps,
     DeviceConfiguresKeeps, StreamAnswerKeeps, StartAnswerKeeps, SuspendedKeeps,
     ReleasedKeeps, LinkDownKeeps, DeviceOpensKeeps
     DEF Stack
<1> QED BY <1>1, <1>2, StartKeeps, AskKeeps, CancelWaitsKeeps DEF HostNext

\* The invariant implies what the runs check.
LEMMA HostInvSafe == HostInv => HostSafe
<1> SUFFICES ASSUME HostInv PROVE HostSafe
  OBVIOUS
<1>1. sh.lost \in BOOLEAN
  BY DEF HostInv, HostTypeOK, Shared
<1>2. LossKnown
  BY <1>1 DEF HostInv, KnownInv, LossKnown
<1>3. LossIsReal
  <2>1. theirs = {} /\ sh.lost => av[Target].st # "open"
    BY DEF HostInv, RealInv
  <2> QED BY <2>1 DEF LossIsReal, Ours
<1>4. LossOnce
  <2>1. \A c \in Cid : losses[c] \in Nat
    BY DEF HostInv, HostTypeOK
  <2> QED BY <2>1 DEF HostInv, OnceInv, LossOnce
<1>5. HostTypeOK /\ PageNotDropped
  BY DEF HostInv, PageInv
<1> QED BY <1>2, <1>3, <1>4, <1>5 DEF HostSafe

(***************************************************************************)
(* The theorems                                                            *)
(***************************************************************************)

\* Whatever the order of the answers, releases, disconnections, timeouts and
\* stops, for every number of devices, connections, sessions and attempts: a
\* playing session knows of a lost connection, a loss it sees is real and is
\* told once unless a device opened connections of its own, and no page is
\* dropped by a closing link unless the link began to close in between.
THEOREM HostSafeAlways == HostSpec => []HostSafe
<1>1. HostInv /\ [HostNext]_hostVars => HostInv'
  BY HostStep, HostStutters
<1> QED BY <1>1, HostInitial, HostInvSafe, PTL DEF HostSpec

\* The key of the device outlives every failed pairing: a step that leaves
\* none stored leaves it with the session, or is the return of a connect that
\* took another connection's answer for its own.
THEOREM KeyKeptAlways == HostSpec => KeyKept
<1>1. HostInv /\ [HostNext]_hostVars => HostInv'
  BY HostStep, HostStutters
<1>2. HostInv /\ [HostNext]_hostVars => [KeySafe]_hostVars
  BY HostStep
<1>3. [KeySafe]_hostVars =>
        [key # Nil \/ l.dropped # Nil =>
           \/ key' # Nil \/ (l'.dropped # Nil /\ where' # "idle")
           \/ where = "wait" /\ where' = "configure" /\ ~Ours]_hostVars
  BY DEF KeySafe
<1> QED BY <1>1, <1>2, <1>3, HostInitial, PTL DEF HostSpec, KeyKept
==============================================================================
