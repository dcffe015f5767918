------------------------------ MODULE AudioFifo ------------------------------
(***************************************************************************)
(* What the audio path promises, whatever threads and buffers it is made   *)
(* of: the audio captured is delivered in the order it was captured, each  *)
(* unit at most once.  Audio may be lost on the way (a full buffer, a      *)
(* suspended stream, packets that waited too long), never reordered and    *)
(* never repeated.                                                         *)
(***************************************************************************)
EXTENDS Naturals, FiniteSets

VARIABLES
    captured,   \* the last unit captured; units are numbered from 1
    pending,    \* the units on their way
    last        \* the last unit delivered

fifoVars == <<captured, pending, last>>

Init == captured = 0 /\ pending = {} /\ last = 0

\* A unit is captured; it may be lost at once.
Capture ==
    /\ captured' = captured + 1
    /\ pending' \in {pending, pending \cup {captured + 1}}
    /\ UNCHANGED last

Lose ==
    /\ pending' \subseteq pending
    /\ UNCHANGED <<captured, last>>

\* Some of the units on their way are delivered: newer than every unit
\* delivered before, and what was captured before them no longer follows.
Deliver ==
    /\ \E u \in pending :
          /\ u > last
          /\ last' = u
          /\ pending' \subseteq {w \in pending : w > u}
    /\ UNCHANGED captured

Next == Capture \/ Lose \/ Deliver

Spec == Init /\ [][Next]_fifoVars
=============================================================================
