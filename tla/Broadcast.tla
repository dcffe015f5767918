------------------------------ MODULE Broadcast ------------------------------
(***************************************************************************)
(* The broadcast source (Auracast, bt-host/src/le/broadcast.rs): one       *)
(* advertising set and one BIG on the BTstack thread, started and stopped  *)
(* by the session's thread (core/src/le_stream.rs, run_broadcast), which   *)
(* posts its requests and waits for their answers a limited time only.     *)
(*                                                                         *)
(* The BIG in BTstack and the controller is external: creating it and      *)
(* ending it are answered later, or after the program gave up on it.       *)
(***************************************************************************)
EXTENDS Naturals, Sequences

CONSTANTS
    MaxBroadcasts   \* bound: sessions

VARIABLES
    bc,         \* LeCore::broadcast: its state, the start and the stops that wait, the timer
    adv,        \* the advertising set exists
    isoOn,      \* the IsoSender sends on the BIS
    big,        \* the BIG: none, creating, up or ending
    late,       \* the program gave up on an answer about the BIG that is still owed
    lost,       \* LeShared::stream_lost
    bcJobs,     \* FIFO of posted jobs: <<"start" or "stop", number of its signal>>
    signals,    \* answers given: signal -> TRUE or FALSE
    bcw,        \* the session's thread: what it does, the signal it waits for
    sessions
broadcastVars == <<bc, adv, isoOn, big, late, lost, bcJobs, signals, bcw, sessions>>

NoBroadcast == [st |-> "none", start |-> 0, stops |-> {}, timer |-> FALSE]
Answer(sigs, ok) == [n \in (DOMAIN signals) \cup sigs |-> IF n \in sigs THEN ok ELSE signals[n]]

BroadcastInit ==
    /\ bc = NoBroadcast
    /\ adv = FALSE /\ isoOn = FALSE /\ big = "none" /\ late = FALSE /\ lost = FALSE
    /\ bcJobs = <<>>
    /\ signals = [n \in {} |-> TRUE]
    /\ bcw = [at |-> "idle", sig |-> 0]
    /\ sessions = 0

(***************************************************************************)
(* The BTstack thread                                                      *)
(***************************************************************************)
\* finish_broadcast: sending and advertising stop, every wait ends
FinishWith(stops) ==
    /\ isoOn' = FALSE
    /\ adv' = FALSE
    /\ bc' = NoBroadcast
    /\ signals' = [n \in (DOMAIN signals) \cup stops \cup ({bc.start} \ {0}) |->
                      IF n \in stops THEN TRUE ELSE IF n = bc.start THEN FALSE ELSE signals[n]]

\* start_broadcast.  The adapter may refuse to advertise; BTstack refuses a
\* second BIG with the same handle, and the advertising ends again.
StartJob(n) ==
    IF bc.st # "none"
    THEN signals' = Answer({n}, FALSE) /\ UNCHANGED <<bc, adv, big>>
    ELSE \/ /\ signals' = Answer({n}, FALSE)
            /\ UNCHANGED <<bc, adv, big>>
         \/ /\ big # "none"
            /\ signals' = Answer({n}, FALSE)
            /\ adv' = FALSE
            /\ UNCHANGED <<bc, big>>
         \/ /\ big = "none"
            /\ adv' = TRUE /\ big' = "creating"
            /\ bc' = [NoBroadcast EXCEPT !.st = "creating", !.start = n]
            /\ UNCHANGED signals

\* stop_broadcast: the start that waits fails; the first stop asks for the end
\* of the BIG (one that is being created is ended once it exists).
StopJob(n) ==
    CASE bc.st = "none" ->
            /\ signals' = Answer({n}, TRUE)
            /\ isoOn' = FALSE
            /\ UNCHANGED <<bc, adv, big>>
      [] bc.st = "terminating" ->
            /\ bc' = [bc EXCEPT !.stops = @ \cup {n}]
            /\ isoOn' = FALSE
            /\ UNCHANGED <<adv, big, signals>>
      [] OTHER ->
            IF big = "none"
            THEN FinishWith({n}) /\ UNCHANGED big
            ELSE /\ bc' = [st |-> "terminating", start |-> 0, stops |-> {n}, timer |-> TRUE]
                 /\ signals' = Answer({bc.start} \ {0}, FALSE)
                 /\ isoOn' = FALSE
                 /\ big' = IF big = "up" THEN "ending" ELSE big
                 /\ UNCHANGED adv

RunBroadcastJob ==
    /\ bcJobs # <<>>
    /\ bcJobs' = Tail(bcJobs)
    /\ IF Head(bcJobs)[1] = "start"
       THEN StartJob(Head(bcJobs)[2]) /\ UNCHANGED isoOn
       ELSE StopJob(Head(bcJobs)[2])
    /\ UNCHANGED <<late, lost, bcw, sessions>>

\* The timer of stop_broadcast: no answer to LE Terminate BIG
TerminateTimeout ==
    /\ bc.timer
    /\ FinishWith(bc.stops)
    /\ late' = (late \/ big \in {"creating", "ending"})
    /\ UNCHANGED <<big, lost, bcJobs, bcw, sessions>>

\* mutant: a BIG that is created after the stop is left alone
BigCreatedLeft ==
    /\ big = "creating"
    /\ big' = "up"
    /\ IF bc.st = "creating"
       THEN bc' = [bc EXCEPT !.st = "streaming", !.start = 0] /\ isoOn' = TRUE /\ signals' = Answer({bc.start}, TRUE)
       ELSE UNCHANGED <<bc, isoOn, signals>>
    /\ UNCHANGED <<adv, late, lost, bcJobs, bcw, sessions>>

\* on_big_created, success: sending starts and the start is answered, or the
\* BIG is ended at once because a stop came first
BigCreated ==
    /\ big = "creating"
    /\ CASE bc.st = "creating" ->
              /\ big' = "up"
              /\ bc' = [bc EXCEPT !.st = "streaming", !.start = 0]
              /\ isoOn' = TRUE
              /\ signals' = Answer({bc.start}, TRUE)
         [] bc.st = "terminating" -> big' = "ending" /\ UNCHANGED <<bc, isoOn, signals>>
         [] OTHER -> big' = "up" /\ UNCHANGED <<bc, isoOn, signals>>
    /\ UNCHANGED <<adv, late, lost, bcJobs, bcw, sessions>>

\* on_big_created, failure
BigFailed ==
    /\ big = "creating"
    /\ big' = "none"
    /\ IF bc.st \in {"creating", "terminating"}
       THEN FinishWith(bc.stops)
       ELSE UNCHANGED <<bc, adv, isoOn, signals>>
    /\ late' = FALSE
    /\ UNCHANGED <<lost, bcJobs, bcw, sessions>>

\* GAP_SUBEVENT_BIG_TERMINATED: asked for, or the controller ended it
BigTerminated ==
    /\ big \in {"up", "ending"}
    /\ big' = "none"
    /\ lost' = (lost \/ bc.st \in {"creating", "streaming"})
    /\ IF bc.st = "none" THEN UNCHANGED <<bc, adv, isoOn, signals>> ELSE FinishWith(bc.stops)
    /\ late' = FALSE
    /\ UNCHANGED <<bcJobs, bcw, sessions>>

(***************************************************************************)
(* The session's thread                                                    *)
(***************************************************************************)
Post(job) ==
    /\ bcJobs' = Append(bcJobs, <<job, bcw.sig + 1>>)
    /\ UNCHANGED <<bc, adv, isoOn, big, late, signals>>

\* le_start_broadcast clears stream_lost and posts the start
SessionStarts ==
    /\ bcw.at = "idle"
    /\ sessions < MaxBroadcasts
    /\ sessions' = sessions + 1
    /\ lost' = FALSE
    /\ bcw' = [at |-> "starting", sig |-> bcw.sig + 1]
    /\ Post("start")

\* The start succeeded: the session plays.
SessionPlays ==
    /\ bcw.at = "starting"
    /\ bcw.sig \in DOMAIN signals /\ signals[bcw.sig]
    /\ bcw' = [bcw EXCEPT !.at = "playing"]
    /\ UNCHANGED <<bc, adv, isoOn, big, late, lost, bcJobs, signals, sessions>>

\* The start failed, was cancelled or took too long: le_stop_broadcast.  Also
\* the end of the session, by the user or because le_stream_lost says so.
SessionStops ==
    /\ \/ bcw.at = "starting" /\ ~(bcw.sig \in DOMAIN signals /\ signals[bcw.sig])
       \/ bcw.at = "playing"
    /\ lost' \in {lost, FALSE} /\ (bcw.at # "playing" => lost' = lost)
    /\ bcw' = [at |-> "stopping", sig |-> bcw.sig + 1]
    /\ Post("stop")
    /\ UNCHANGED sessions

\* The stop was answered, or took longer than STOP_TIMEOUT
SessionEnds ==
    /\ bcw.at = "stopping"
    /\ bcw' = [bcw EXCEPT !.at = "idle"]
    /\ UNCHANGED <<bc, adv, isoOn, big, late, lost, bcJobs, signals, sessions>>

BroadcastNext ==
    \/ RunBroadcastJob \/ TerminateTimeout
    \/ BigCreated \/ BigFailed \/ BigTerminated
    \/ SessionStarts \/ SessionPlays \/ SessionStops \/ SessionEnds

BroadcastSpec == BroadcastInit /\ [][BroadcastNext]_broadcastVars

(***************************************************************************)
(* Properties                                                              *)
(***************************************************************************)
BroadcastTypeOK ==
    /\ bc.st \in {"none", "creating", "streaming", "terminating"}
    /\ bc.timer = (bc.st = "terminating")
    /\ big \in {"none", "creating", "up", "ending"}
    /\ {adv, isoOn, late, lost} \subseteq BOOLEAN
    /\ bcw.at \in {"idle", "starting", "playing", "stopping"}
    /\ \A n \in DOMAIN signals : n \in 1..bcw.sig

\* Listeners see the announcement exactly while there is a broadcast, whatever
\* step of setting it up or ending it fails (broadcast.rs, start_broadcast and
\* finish_broadcast).
AnnouncedWhileItRuns == adv = (bc.st # "none")

\* A BIG nobody owns any more is being ended: one that the controller created
\* after the stop is not left on the air.  The exception is an answer that
\* took longer than TERMINATE_TIMEOUT_MS.
NoOrphanBig == bc.st = "none" /\ big \in {"creating", "up"} => late

\* A session that plays either has its broadcast or is told of its loss, also
\* when the BIG ends before the session's thread sees that it started.
LossIsTold == bcw.at = "playing" => bc.st = "streaming" \/ lost

\* Whoever waits for a stop waits for something that comes: a stop is kept
\* only while the BIG is being ended, with the timer running.
StopsAreOwed ==
    /\ bc.stops # {} => bc.st = "terminating" /\ bc.timer
    /\ bc.start # 0 => bc.st = "creating" /\ big = "creating"
    /\ isoOn = (bc.st = "streaming")

\* The broadcast is safe: announced exactly while it runs, never left on the air
\* without an owner, its loss told and every stop answered.
BroadcastSafe ==
    BroadcastTypeOK /\ AnnouncedWhileItRuns /\ NoOrphanBig /\ LossIsTold /\ StopsAreOwed
=============================================================================
