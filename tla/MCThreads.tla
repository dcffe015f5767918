----------------------------- MODULE MCThreads -----------------------------
(***************************************************************************)
(* The threads around the run loop: two stacks one after the other or      *)
(* overlapping with threads that have work for them (StackRun), the path   *)
(* of the audio from the capture to the run loop that sends it (MediaPath) *)
(* and the I/O threads of the HCI transport (Transport).  The three share  *)
(* no state in these models, so each behaviour is one of one of them       *)
(* (`part`).                                                               *)
(***************************************************************************)
EXTENDS StackRun, MediaPath, Transport, TLC

CONSTANTS h1, h2, p1

VARIABLE part

Stacks == Permutations({h1, h2})

PartInit ==
    /\ part \in {"media", "loop", "hci"}
    /\ MediaInit /\ Init /\ TransportInit
    /\ part # "media" => kind = "single"

PartNext ==
    \/ part = "media" /\ MediaNext     /\ UNCHANGED <<part, vars, transportVars>>
    \/ part = "loop"  /\ Next          /\ UNCHANGED <<part, mediaVars, transportVars>>
    \/ part = "hci"   /\ TransportNext /\ UNCHANGED <<part, vars, mediaVars>>

PartSpec == PartInit /\ [][PartNext]_<<part, vars, mediaVars, transportVars>>
=============================================================================
