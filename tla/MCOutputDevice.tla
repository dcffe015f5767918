--------------------------- MODULE MCOutputDevice ---------------------------
(***************************************************************************)
(* Instances of OutputDevice for TLC: the speakers and a virtual device.   *)
(***************************************************************************)
EXTENDS OutputDevice, TLC

CONSTANTS d1, d2

Devices == Permutations({d1, d2})
=============================================================================
