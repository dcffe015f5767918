-------------------------- MODULE MCSessionControl --------------------------
(***************************************************************************)
(* Instances of SessionControl for TLC: three callers, two names for       *)
(* session threads (one more than may be alive), one or two requests.      *)
(***************************************************************************)
EXTENDS SessionControl, TLC

CONSTANTS c1, c2, c3, s1, s2, r1, r2

\* Starts, stops, restarts and changes of the source
OpsControl == (c1 :> {"start", "disconnect"}) @@ (c2 :> {"source", "quit"})
              @@ (c3 :> {"start", "restart"})
\* A session against scans, tools, settings, a driver change and quitting
OpsAdapter == (c1 :> {"start", "source"}) @@ (c2 :> {"scan", "probe", "release"})
              @@ (c3 :> {"reload", "stop_scan", "quit"})
\* Two callers that stop, scan and restart around a session, for liveness
OpsLive == (c1 :> {"start", "scan"}) @@ (c2 :> {"disconnect", "restart"})

Threads == Permutations({s1, s2})
Names == Threads \cup Permutations({r1, r2})
=============================================================================
