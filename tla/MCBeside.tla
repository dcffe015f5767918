------------------------------ MODULE MCBeside ------------------------------
(***************************************************************************)
(* What runs beside the stream: the volumes of both ends, and the RFCOMM   *)
(* channels of clients.  The two share no state in these models, so each   *)
(* behaviour is one of the one or of the other (`part`).                   *)
(***************************************************************************)
EXTENDS VolumeSync, Rfcomm, TLC

VARIABLE part

\* An output in two steps (mute or on) and headphones that never mute: each
\* end takes the other's volume in steps of its own.
TwoSteps == (0 :> 0) @@ (1 :> 2) @@ (2 :> 2)
NeverMute == (0 :> 1) @@ (1 :> 1) @@ (2 :> 2)

\* The parts that do not run stay in one of their initial states.
Init ==
    /\ part \in {"volume", "rfcomm"}
    /\ VolumeInit /\ RfcommInit
    /\ part # "volume" => default = CHOOSE d \in Output : TRUE
    /\ part # "volume" => head.level = CHOOSE x \in Level : HeadTakes[x] = x

Next ==
    \/ part = "volume" /\ VolumeNext /\ UNCHANGED <<part, rfcommVars>>
    \/ part = "rfcomm" /\ RfcommNext /\ UNCHANGED <<part, volumeVars>>

\* The volumes: every thread goes on, time passes, and the headphones answer.
VolumeFair ==
    /\ WF_volumeVars(part = "volume" /\ Tick /\ Session)
    /\ WF_volumeVars(part = "volume" /\ HoldEnds /\ Session)
    /\ WF_volumeVars(part = "volume" /\ Sending /\ Stack)
    /\ WF_volumeVars(part = "volume" /\ (HeadAnswers \/ HeadReports) /\ Stack)

\* RFCOMM: the run loop takes its jobs, its timer expires and the tasks run.
RfcommFair ==
    /\ WF_rfcommVars(part = "rfcomm" /\ RunJob)
    /\ WF_rfcommVars(part = "rfcomm" /\ OnTimer)
    /\ WF_rfcommVars(part = "rfcomm" /\ CanSend)
    /\ WF_rfcommVars(part = "rfcomm" /\ (Opened \/ NotOpened))

FairSpec ==
    /\ Init /\ [][Next]_<<part, volumeVars, rfcommVars>>
    /\ VolumeFair /\ RfcommFair
=============================================================================
