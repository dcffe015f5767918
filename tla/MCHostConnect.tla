--------------------------- MODULE MCHostConnect ---------------------------
(* HostConnect on one target device and one other device in range.         *)
EXTENDS HostConnect

CONSTANTS d1, d2
=============================================================================
