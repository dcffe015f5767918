------------------------------- MODULE MCEnds -------------------------------
(***************************************************************************)
(* What must end under fair scheduling: a session that is stopped, a run   *)
(* loop that is asked to exit, the steps of a unicast stream and the       *)
(* operations of the GATT client.  They share no state in these models, so *)
(* each behaviour is one of one of them (`part`).                          *)
(***************************************************************************)
EXTENDS StackRun, HostConnect, Unicast, GattQueue

CONSTANTS h1, p1, d1

VARIABLE part

PartInit ==
    /\ part \in {"host", "loop", "unicast", "gatt"}
    /\ Init /\ HostInit /\ UnicastInit /\ GattInit
    /\ part # "host" => key = Nil

PartNext ==
    \/ part = "host"    /\ HostNext    /\ UNCHANGED <<part, vars, unicastVars, gattVars>>
    \/ part = "loop"    /\ Next        /\ UNCHANGED <<part, hostVars, unicastVars, gattVars>>
    \/ part = "unicast" /\ UnicastNext /\ UNCHANGED <<part, vars, hostVars, gattVars>>
    \/ part = "gatt"    /\ GattNext    /\ UNCHANGED <<part, vars, hostVars, unicastVars>>

\* What is enabled again and again is taken.  A session: the run loop takes a
\* queued job after every dispatch, whatever events come.  The run loop:
\* leaving it, since once the exit is triggered it takes no further callback,
\* however many wakes come, and the end of the wait for WAKERS, which is read
\* again and again while a thread that wakes over and over is outside
\* post_wake nearly all the time.  GATT: a query that runs completes, at the
\* latest with the timeout of the ATT client.  (One condition for the three: a
\* behaviour is one of one part, with one host and one connection.)
Strong ==
    SF_<<hostVars, vars, gattVars>>(
        \/ part = "host" /\ Session /\ UNCHANGED <<vars, gattVars>>
        \/ /\ part = "loop" /\ \E h \in Host : Leave(h) \/ NoWakers(h)
           /\ UNCHANGED <<hostVars, gattVars>>
        \/ /\ part = "gatt" /\ \E c \in Con : OnQueryComplete(c)
           /\ UNCHANGED <<hostVars, vars>>)

\* A session: a dispatch that began ends; the stack, the device and the user
\* owe nothing.
HostFair == WF_hostVars(part = "host" /\ Disconnection)

\* The run loop: the threads are scheduled, and the store buffer drains.
LoopFair ==
    /\ \A h \in Host : WF_vars(part = "loop" /\ RunStep(h))
    /\ \A p \in Poster : WF_vars(part = "loop" /\ PostStep(p))
    /\ WF_vars(part = "loop" /\ Drain)

\* A unicast stream: an armed step timer fires and posted jobs run; nothing is
\* assumed of the servers, the controller or the worker.
UnicastFair ==
    /\ WF_unicastVars(part = "unicast" /\ StepTimeout)
    /\ WF_unicastVars(part = "unicast" /\ RunUnicastJob)

\* GATT: the BTstack thread goes on with what it does, and timers fire.
GattFair ==
    /\ WF_gattVars(part = "gatt" /\ \E c \in Con : Pump(c))
    /\ WF_gattVars(part = "gatt" /\ (TakeReady \/ RunCallback \/ RunOver))
    /\ WF_gattVars(part = "gatt" /\ RetryTimer)

FairSpec ==
    /\ PartInit /\ [][PartNext]_<<part, vars, hostVars, unicastVars, gattVars>>
    /\ Strong /\ HostFair /\ LoopFair /\ UnicastFair /\ GattFair
=============================================================================
