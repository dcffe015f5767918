-------------------------------- MODULE MCLe --------------------------------
(***************************************************************************)
(* LE Audio: connecting, a unicast stream, its SDUs, a broadcast.  Each    *)
(* behaviour is one of one of them (`part`); what one of them knows of     *)
(* another is an input of its own model.                                   *)
(***************************************************************************)
EXTENDS Unicast, LeConnect, IsoSend, Broadcast

CONSTANTS rpa1, rpa2, peer1

VARIABLE part

Init ==
    /\ part \in {"unicast", "connect", "iso", "broadcast"}
    /\ UnicastInit /\ LeConnectInit /\ IsoInit /\ BroadcastInit

Next ==
    \/ /\ part = "unicast" /\ UnicastNext
       /\ UNCHANGED <<part, leConnectVars, isoVars, broadcastVars>>
    \/ /\ part = "connect" /\ LeConnectNext
       /\ UNCHANGED <<part, unicastVars, isoVars, broadcastVars>>
    \/ /\ part = "iso" /\ IsoNext
       /\ UNCHANGED <<part, unicastVars, leConnectVars, broadcastVars>>
    \/ /\ part = "broadcast" /\ BroadcastNext
       /\ UNCHANGED <<part, unicastVars, leConnectVars, isoVars>>

Spec == Init /\ [][Next]_<<part, unicastVars, leConnectVars, isoVars, broadcastVars>>
=============================================================================
