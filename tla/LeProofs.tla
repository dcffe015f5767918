------------------------------ MODULE LeProofs ------------------------------
(***************************************************************************)
(* The broadcast source is safe, for every number of sessions and every    *)
(* order of jobs, answers and timeouts.  NoOrphanBig and LossIsTold are    *)
(* not inductive: a start that the session no longer waits for may still   *)
(* be in the FIFO, so the invariant says in which order the jobs wait      *)
(* (FifoInv) and what an answered start means (ToldInv).                   *)
(*                                                                         *)
(* The second part is about the queue of GATT operations.  AnsweredInOrder *)
(* and AnsweredOnce are not inductive: they speak of callbacks that have   *)
(* run and of operations that are finished.  The invariant speaks of       *)
(* `Answers`, all that is answered in the order it will be told, and says  *)
(* of each queue that it is sorted, of its own link, and later than every  *)
(* answer of that link (QueueInv).                                         *)
(*                                                                         *)
(* The third part is about the SDUs of a stream.  RoundsSafe is not        *)
(* inductive: the invariant says which one of four things a sending stream *)
(* waits for (RoundInv), that every set of the pool is somewhere           *)
(* (PoolInv), that a round that is asked for is allowed now and one that   *)
(* waits for the timer is allowed then (GuardInv), and how old the sets in *)
(* each place are (OrderInv).                                              *)
(***************************************************************************)
EXTENDS Broadcast, GattQueue, IsoSend, FiniteSetTheorems, SequenceTheorems,
        WellFoundedInduction, TLAPS

Job == {"start", "stop"} \X Nat

\* The numbers a job's answer can have
Numbered == 1..bcw.sig

\* Signals that are answered, or kept to be answered
Handled == (DOMAIN signals) \cup bc.stops \cup ({bc.start} \ {0})

BcType ==
    [st : {"none", "creating", "streaming", "terminating"}, start : Nat,
     stops : SUBSET Nat, timer : BOOLEAN]

BcTypes ==
    /\ bc \in BcType
    /\ bcw \in [at : {"idle", "starting", "playing", "stopping"}, sig : Nat]
    /\ big \in {"none", "creating", "up", "ending"}
    /\ adv \in BOOLEAN /\ isoOn \in BOOLEAN /\ late \in BOOLEAN /\ lost \in BOOLEAN
    /\ bcJobs \in Seq(Job)
    /\ signals \in [DOMAIN signals -> BOOLEAN]
    /\ Handled \subseteq Numbered

\* What the program believes of the BIG
BigInv ==
    /\ bc.timer = (bc.st = "terminating")
    /\ bc.st = "creating" => big = "creating" /\ bc.start # 0
    /\ bc.st # "creating" => bc.start = 0
    /\ bc.st = "streaming" => big = "up"
    /\ bc.st = "terminating" => big \in {"creating", "ending"}
    /\ bc.st # "terminating" => bc.stops = {}
    /\ AnnouncedWhileItRuns /\ NoOrphanBig
    /\ isoOn = (bc.st = "streaming")

\* The FIFO: jobs wait in the order of their numbers, behind everything that
\* was handled, and the session's own request is the last one
FifoInv ==
    /\ \A i \in 1..Len(bcJobs) : bcJobs[i][2] \in Numbered
    /\ \A i \in 1..Len(bcJobs), h \in Handled : h < bcJobs[i][2]
    /\ \A i, j \in 1..Len(bcJobs) : i < j => bcJobs[i][2] < bcJobs[j][2]
    /\ bcw.at = "starting" => bcw.sig \notin bc.stops
    /\ bcw.at = "starting" /\ bcJobs # <<>> => bcJobs[Len(bcJobs)] = <<"start", bcw.sig>>
    /\ bcw.at = "playing" => bcJobs = <<>>

\* A start that was answered with success has its broadcast, or lost it again
ToldInv ==
    /\ LossIsTold
    /\ bcw.at = "starting" /\ bcw.sig \in DOMAIN signals /\ signals[bcw.sig] =>
           bc.st = "streaming" \/ lost

BcInv == BcTypes /\ BigInv /\ FifoInv /\ ToldInv

\* finish_broadcast answers every wait and forgets the broadcast
LEMMA StartFinished ==
    ASSUME BcTypes, FinishWith(bc.stops)
    PROVE  /\ bc' = NoBroadcast /\ bc' \in BcType
           /\ DOMAIN signals' = Handled /\ Handled' = Handled
           /\ signals' \in [DOMAIN signals' -> BOOLEAN]
           /\ \A n \in DOMAIN signals' : signals'[n] =>
                 n \in bc.stops \/ (n \in DOMAIN signals /\ signals[n])
<1>1. bc' = NoBroadcast /\ bc' \in BcType
  BY DEF FinishWith, NoBroadcast, BcType
<1>2. DOMAIN signals' = Handled
  BY DEF FinishWith, Handled
<1>3. \A n \in DOMAIN signals' : signals'[n] = IF n \in bc.stops THEN TRUE ELSE IF n = bc.start THEN FALSE ELSE signals[n]
  BY DEF FinishWith
<1>4. Handled' = Handled
  BY <1>1, <1>2 DEF Handled, NoBroadcast
<1>5. \A n \in DOMAIN signals' : signals'[n] \in BOOLEAN
  BY <1>2, <1>3 DEF Handled, BcTypes
<1>6. signals' = [n \in DOMAIN signals' |-> signals'[n]]
  BY DEF FinishWith
<1> QED BY <1>1, <1>2, <1>3, <1>4, <1>5, <1>6 DEF Handled

\* An answer to one signal that was not handled before
LEMMA Answered ==
    ASSUME BcTypes, NEW n, NEW ok \in BOOLEAN, signals' = Answer({n}, ok)
    PROVE  /\ DOMAIN signals' = DOMAIN signals \cup {n}
           /\ signals' \in [DOMAIN signals' -> BOOLEAN]
           /\ signals'[n] = ok
           /\ \A m \in DOMAIN signals \ {n} : signals'[m] = signals[m]
<1>1. DOMAIN signals' = DOMAIN signals \cup {n}
  BY DEF Answer
<1>2. \A m \in DOMAIN signals' : signals'[m] = IF m \in {n} THEN ok ELSE signals[m]
  BY DEF Answer
<1>3. \A m \in DOMAIN signals' : signals'[m] \in BOOLEAN
  BY <1>1, <1>2 DEF BcTypes
<1>4. signals' = [m \in DOMAIN signals' |-> signals'[m]]
  BY DEF Answer
<1> QED BY <1>1, <1>2, <1>3, <1>4

\* The timer of stop_broadcast ends every wait, and notes an answer still owed.
LEMMA TimeoutStep == ASSUME BcInv, TerminateTimeout PROVE BcInv'
<1>1. /\ FinishWith(bc.stops) /\ UNCHANGED <<big, lost, bcJobs, bcw>>
      /\ late' = (late \/ big \in {"creating", "ending"})
  BY DEF TerminateTimeout
<1>2. BcTypes /\ bc.st = "terminating" /\ big \in {"creating", "ending"}
  BY DEF TerminateTimeout, BcInv, BigInv
<1>3. BcTypes'
  BY <1>1, <1>2, StartFinished DEF BcTypes, FinishWith, Numbered
<1>4. BigInv'
  BY <1>1, <1>2, StartFinished DEF BigInv, FinishWith, NoBroadcast, AnnouncedWhileItRuns,
     NoOrphanBig
<1>5. FifoInv'
  BY <1>1, <1>2, StartFinished DEF BcInv, FifoInv, Numbered, NoBroadcast
<1>6. ToldInv'
  BY <1>1, <1>2, StartFinished DEF BcInv, ToldInv, FifoInv, LossIsTold
<1> QED BY <1>3, <1>4, <1>5, <1>6 DEF BcInv

\* on_big_created, success: the start is answered, or the BIG is ended at once.
LEMMA CreatedStep == ASSUME BcInv, BigCreated PROVE BcInv'
<1> USE DEF BcInv
<1>1. UNCHANGED <<adv, late, lost, bcJobs, bcw>> /\ big = "creating"
  BY DEF BigCreated
<1>2. CASE bc.st = "creating"
  <2>1. /\ big' = "up" /\ bc' = [bc EXCEPT !.st = "streaming", !.start = 0] /\ isoOn' = TRUE
        /\ signals' = Answer({bc.start}, TRUE)
    BY <1>2 DEF BigCreated
  <2>2. /\ bc' \in BcType /\ bc'.st = "streaming" /\ bc'.start = 0 /\ bc'.stops = {}
        /\ bc'.timer = FALSE
        /\ bc.start # 0
    BY <1>2, <2>1 DEF BcTypes, BcType, BigInv
  <2>3. /\ DOMAIN signals' = Handled /\ Handled' = Handled
        /\ signals' \in [DOMAIN signals' -> BOOLEAN]
    BY <1>2, <2>1, <2>2, Answered DEF Handled, BigInv
  <2>4. BcTypes'
    BY <1>1, <2>1, <2>2, <2>3 DEF BcTypes, Numbered
  <2>5. BigInv'
    <3>1. (AnnouncedWhileItRuns /\ NoOrphanBig)'
      BY <1>1, <1>2, <2>2 DEF BigInv, AnnouncedWhileItRuns, NoOrphanBig
    <3>2. isoOn' = (bc'.st = "streaming") /\ bc'.timer = (bc'.st = "terminating")
      BY <2>1, <2>2
    <3> QED BY <2>1, <2>2, <3>1, <3>2 DEF BigInv
  <2>6. FifoInv' /\ ToldInv'
    BY <1>1, <2>2, <2>3 DEF FifoInv, ToldInv, LossIsTold, Numbered
  <2> QED BY <2>4, <2>5, <2>6
<1>3. CASE bc.st # "creating"
  <2>1. UNCHANGED <<bc, isoOn, signals>> /\ big' = IF bc.st = "terminating" THEN "ending" ELSE "up"
    BY <1>3 DEF BigCreated
  <2> QED BY <1>1, <1>3, <2>1 DEF BcTypes, BigInv, FifoInv, ToldInv, LossIsTold, Numbered, Handled, AnnouncedWhileItRuns, NoOrphanBig
<1> QED BY <1>2, <1>3

\* on_big_created, failure: whoever waits is answered.
LEMMA FailedStep == ASSUME BcInv, BigFailed PROVE BcInv'
<1> USE DEF BcInv
<1>1. /\ UNCHANGED <<lost, bcJobs, bcw>> /\ big = "creating" /\ big' = "none" /\ late' = FALSE
      /\ bc.st # "streaming"
  BY DEF BigFailed, BigInv
<1>2. CASE bc.st # "none"
  <2>1. FinishWith(bc.stops)
    BY <1>1, <1>2 DEF BigFailed, BcTypes, BcType
  <2>3. BcTypes'
    BY <1>1, <2>1, StartFinished DEF BcTypes, FinishWith, Numbered
  <2>4. BigInv'
    BY <1>1, <2>1, StartFinished DEF BigInv, FinishWith, NoBroadcast, AnnouncedWhileItRuns,
       NoOrphanBig
  <2>5. FifoInv' /\ ToldInv'
    BY <1>1, <2>1, StartFinished DEF FifoInv, ToldInv, LossIsTold, Numbered, NoBroadcast
  <2> QED BY <2>3, <2>4, <2>5
<1>3. CASE bc.st = "none"
  <2>1. UNCHANGED <<bc, adv, isoOn, signals>>
    BY <1>3 DEF BigFailed
  <2> QED BY <1>1, <1>3, <2>1 DEF BcTypes, BigInv, FifoInv, ToldInv, LossIsTold, Numbered, Handled, AnnouncedWhileItRuns, NoOrphanBig
<1> QED BY <1>2, <1>3

\* BIG_TERMINATED: a broadcast that was not asked to end is noted as lost.
LEMMA TerminatedStep == ASSUME BcInv, BigTerminated PROVE BcInv'
<1> USE DEF BcInv
<1>1. /\ UNCHANGED <<bcJobs, bcw>> /\ big' = "none" /\ late' = FALSE /\ lost \in BOOLEAN
      /\ lost' = (lost \/ bc.st \in {"creating", "streaming"})
  BY DEF BigTerminated, BcTypes
<1>2. CASE bc.st # "none"
  <2>1. FinishWith(bc.stops)
    BY <1>2 DEF BigTerminated
  <2>3. BcTypes'
    BY <1>1, <2>1, StartFinished DEF BcTypes, FinishWith, Numbered
  <2>4. BigInv'
    BY <1>1, <2>1, StartFinished DEF BigInv, FinishWith, NoBroadcast, AnnouncedWhileItRuns,
       NoOrphanBig
  <2>5. FifoInv'
    BY <1>1, <2>1, StartFinished DEF FifoInv, Numbered, NoBroadcast
  <2>6. LossIsTold'
    BY <1>1 DEF ToldInv, LossIsTold
  <2>7. ASSUME bcw.at = "starting", bcw.sig \in DOMAIN signals', signals'[bcw.sig] PROVE lost'
    <3>1. bcw.sig \in DOMAIN signals /\ signals[bcw.sig]
      BY <2>1, <2>7, StartFinished DEF FifoInv
    <3> QED BY <1>1, <2>7, <3>1 DEF ToldInv
  <2>8. ToldInv'
    BY <1>1, <2>6, <2>7 DEF ToldInv
  <2> QED BY <2>3, <2>4, <2>5, <2>8
<1>3. CASE bc.st = "none"
  <2>1. UNCHANGED <<bc, adv, isoOn, signals>>
    BY <1>3 DEF BigTerminated
  <2> QED BY <1>1, <1>3, <2>1 DEF BcTypes, BigInv, FifoInv, ToldInv, LossIsTold, Numbered, Handled, AnnouncedWhileItRuns, NoOrphanBig
<1> QED BY <1>2, <1>3

\* The session's thread posts behind every job it posted before.
LEMMA SessionStep == ASSUME BcInv, SessionStarts \/ SessionPlays \/ SessionStops \/ SessionEnds PROVE BcInv'
<1> USE DEF BcInv
<1>1. CASE SessionPlays \/ SessionEnds
  <2>1. UNCHANGED <<bc, adv, isoOn, big, late, lost, bcJobs, signals>> /\ bcw'.sig = bcw.sig
    BY <1>1 DEF SessionPlays, SessionEnds, BcTypes
  <2>2. BcTypes' /\ BigInv'
    BY <1>1, <2>1 DEF SessionPlays, SessionEnds, BcTypes, BigInv, Numbered, Handled,
       AnnouncedWhileItRuns, NoOrphanBig
  <2>3. CASE SessionPlays
    <3>1. /\ bcw'.at = "playing" /\ bcw.at = "starting" /\ bcw.sig \in DOMAIN signals
          /\ signals[bcw.sig]
      BY <2>3 DEF SessionPlays, BcTypes
    <3>2. bcJobs = <<>>
      <4>1. SUFFICES ASSUME bcJobs # <<>> PROVE FALSE
        OBVIOUS
      <4>2. bcJobs[Len(bcJobs)] = <<"start", bcw.sig>> /\ Len(bcJobs) \in 1..Len(bcJobs)
        BY <3>1, <4>1 DEF FifoInv, BcTypes
      <4>3. bcw.sig \in Handled
        BY <3>1 DEF Handled
      <4> QED BY <4>2, <4>3 DEF FifoInv, BcTypes
    <3>3. FifoInv' /\ ToldInv'
      BY <2>1, <3>1, <3>2 DEF FifoInv, ToldInv, LossIsTold
    <3> QED BY <2>2, <3>3
  <2>4. CASE SessionEnds
    <3>1. bcw'.at = "idle"
      BY <2>4 DEF SessionEnds, BcTypes
    <3> QED BY <2>1, <2>2, <3>1 DEF FifoInv, ToldInv, LossIsTold, Numbered, Handled
  <2> QED BY <1>1, <2>3, <2>4
<1>2. ASSUME NEW kind \in {"start", "stop"},
             UNCHANGED <<bc, adv, isoOn, big, late, signals>>, lost' \in BOOLEAN,
             bcJobs' = Append(bcJobs, <<kind, bcw.sig + 1>>),
             bcw' = [at |-> IF kind = "start" THEN "starting" ELSE "stopping", sig |-> bcw.sig + 1]
      PROVE  BcInv'
  <2> DEFINE job == <<kind, bcw.sig + 1>>
  <2>1. /\ bcw.sig \in Nat /\ bcw'.sig = bcw.sig + 1 /\ bcw'.at = IF kind = "start" THEN "starting" ELSE "stopping"
        /\ bcw' \in [at : {"idle", "starting", "playing", "stopping"}, sig : Nat]
    BY <1>2 DEF BcTypes
  <2>2. job \in Job /\ bcJobs \in Seq(Job)
    BY <2>1 DEF BcTypes, Job
  <2>3. Handled' = Handled /\ Numbered' = Numbered \cup {bcw.sig + 1} /\ \A h \in Numbered : h < bcw.sig + 1
    <3>1. Handled' = Handled
      BY <1>2 DEF Handled
    <3>2. 1..(bcw.sig + 1) = 1..bcw.sig \cup {bcw.sig + 1} /\ \A h \in 1..bcw.sig : h < bcw.sig + 1
      BY <2>1
    <3> QED BY <2>1, <3>1, <3>2 DEF Numbered
  <2>4. BcTypes'
    BY <1>2, <2>1, <2>2, <2>3 DEF BcTypes
  <2>5. BigInv'
    BY <1>2 DEF BigInv, AnnouncedWhileItRuns, NoOrphanBig
  <2>6. /\ bcJobs' \in Seq(Job) /\ Len(bcJobs') = Len(bcJobs) + 1
        /\ bcJobs'[Len(bcJobs) + 1] = job
        /\ Len(bcJobs) \in Nat
        /\ \A i \in 1..Len(bcJobs') : i \in 1..Len(bcJobs) \/ i = Len(bcJobs) + 1
        /\ \A i \in 1..Len(bcJobs) : bcJobs'[i] = bcJobs[i]
    BY <1>2, <2>2
  <2>7. FifoInv'
    <3>1. job[1] = kind /\ job[2] = bcw.sig + 1
      OBVIOUS
    <3>2. \A i \in 1..Len(bcJobs) : bcJobs[i][2] \in Numbered /\ \A h \in Handled : h < bcJobs[i][2]
      BY DEF FifoInv
    <3>3. \A i \in 1..Len(bcJobs') : bcJobs'[i][2] \in Numbered' /\ \A h \in Handled' : h < bcJobs'[i][2]
      BY <2>3, <2>6, <3>1, <3>2 DEF BcTypes
    <3>4. \A i, j \in 1..Len(bcJobs') : i < j => bcJobs'[i][2] < bcJobs'[j][2]
      <4>1. SUFFICES ASSUME NEW i \in 1..Len(bcJobs'), NEW j \in 1..Len(bcJobs'), i < j
                     PROVE  bcJobs'[i][2] < bcJobs'[j][2]
        OBVIOUS
      <4>2. i \in 1..Len(bcJobs)
        BY <2>6, <4>1
      <4>3. CASE j \in 1..Len(bcJobs)
        BY <2>6, <4>1, <4>2, <4>3 DEF FifoInv
      <4>4. CASE j = Len(bcJobs) + 1
        BY <2>3, <2>6, <3>1, <3>2, <4>2, <4>4
      <4> QED BY <2>6, <4>3, <4>4
    <3>5. kind = "start" => bcJobs'[Len(bcJobs')] = <<"start", bcw'.sig>>
      BY <2>1, <2>6
    <3>6. bcw'.sig \notin bc'.stops
      BY <1>2, <2>1, <2>3 DEF BcTypes, Handled
    <3> QED BY <2>1, <3>3, <3>4, <3>5, <3>6 DEF FifoInv
  <2>8. ToldInv'
    BY <1>2, <2>1, <2>3 DEF ToldInv, LossIsTold, BcTypes, Handled
  <2> QED BY <2>4, <2>5, <2>7, <2>8
<1>3. CASE SessionStarts
  BY <1>2, <1>3 DEF SessionStarts, Post, BcTypes
<1>4. CASE SessionStops
  BY <1>2, <1>4 DEF SessionStops, Post, BcTypes
<1> QED BY <1>1, <1>3, <1>4

\* start_broadcast and stop_broadcast, as the BTstack thread runs them.
LEMMA JobStep == ASSUME BcInv, RunBroadcastJob PROVE BcInv'
<1> USE DEF BcInv
<1> DEFINE n == Head(bcJobs)[2]
           rest == Tail(bcJobs)
<1>1. /\ bcJobs # <<>> /\ bcJobs' = rest /\ UNCHANGED <<late, lost, bcw>>
      /\ Numbered' = Numbered
      /\ bcJobs \in Seq(Job) /\ Len(bcJobs) \in Nat \ {0} /\ Head(bcJobs) = bcJobs[1]
      /\ rest \in Seq(Job) /\ Len(rest) = Len(bcJobs) - 1 /\ bcw.sig \in Nat
      /\ \A i \in 1..Len(rest) : i + 1 \in 1..Len(bcJobs) /\ rest[i] = bcJobs[i + 1]
  BY DEF RunBroadcastJob, BcTypes, Numbered
<1>2. /\ n \in Numbered /\ n # 0 /\ n \in Nat /\ \A h \in Handled : h < n
      /\ n \notin Handled
      /\ \A i \in 1..Len(rest) : n < rest[i][2]
  <2>1. 1 \in 1..Len(bcJobs) /\ bcJobs[1][2] = n
    BY <1>1
  <2>2. n \in Numbered /\ \A h \in Handled : h < n
    BY <2>1 DEF FifoInv
  <2>3. n # 0 /\ n \in Nat
    BY <1>1, <2>2 DEF Numbered
  <2>4. \A i \in 1..Len(rest) : 1 < i + 1 /\ n < rest[i][2]
    BY <1>1, <2>1 DEF FifoInv
  <2> QED BY <2>2, <2>3, <2>4
\* Nobody plays while a job waits
<1>3. bcw.at # "playing"
  BY <1>1 DEF FifoInv
\* What follows for the jobs that are left, once this one is handled
<1>4. ASSUME Handled' = Handled \cup {n}, bcw.at = "starting" => bcw.sig \notin bc'.stops
      PROVE  FifoInv'
  <2>1. \A i \in 1..Len(bcJobs') : bcJobs'[i][2] \in Numbered' /\ \A h \in Handled' : h < bcJobs'[i][2]
    BY <1>1, <1>2, <1>4 DEF FifoInv
  <2>2. \A i, j \in 1..Len(bcJobs') : i < j => bcJobs'[i][2] < bcJobs'[j][2]
    BY <1>1 DEF FifoInv
  <2>3. bcJobs' # <<>> => bcJobs'[Len(bcJobs')] = bcJobs[Len(bcJobs)]
    BY <1>1
  <2> QED BY <1>1, <1>3, <1>4, <2>1, <2>2, <2>3 DEF FifoInv
\* A session that waits for its start learns of it only once
<1>5. ASSUME bcw.at = "starting" /\ bcw.sig \in DOMAIN signals' /\ signals'[bcw.sig] = TRUE =>
                bcw.sig \in DOMAIN signals /\ signals[bcw.sig] = TRUE /\ bc'.st = bc.st
      PROVE  ToldInv'
  BY <1>1, <1>3, <1>5 DEF ToldInv, LossIsTold
<1>6. CASE Head(bcJobs)[1] = "start"
  <2>1. StartJob(n) /\ isoOn' = isoOn
    BY <1>6 DEF RunBroadcastJob
  <2>2. ASSUME signals' = Answer({n}, FALSE), UNCHANGED <<bc, adv, big>> \/ (UNCHANGED <<bc, big>> /\ adv' = FALSE /\ bc.st = "none")
        PROVE  BcInv'
    <3>1. /\ DOMAIN signals' = DOMAIN signals \cup {n}
          /\ signals' \in [DOMAIN signals' -> BOOLEAN]
          /\ signals'[n] = FALSE /\ \A m \in DOMAIN signals \ {n} : signals'[m] = signals[m]
      BY <2>2, Answered
    <3>2. bc' = bc /\ big' = big /\ adv' = adv
      BY <2>2 DEF BigInv, AnnouncedWhileItRuns
    <3>3. Handled' = Handled \cup {n}
      BY <3>1, <3>2 DEF Handled
    <3>4. BcTypes'
      BY <1>1, <1>2, <2>1, <3>1, <3>2, <3>3 DEF BcTypes
    <3>5. BigInv'
      BY <1>1, <2>1, <3>2 DEF BigInv, AnnouncedWhileItRuns, NoOrphanBig
    <3>6. FifoInv'
      BY <1>4, <3>2, <3>3 DEF FifoInv
    <3>7. ToldInv'
      BY <1>5, <3>1, <3>2
    <3> QED BY <3>4, <3>5, <3>6, <3>7
  <2>3. ASSUME bc.st = "none", big = "none", adv' = TRUE, big' = "creating",
               bc' = [NoBroadcast EXCEPT !.st = "creating", !.start = n], UNCHANGED signals
        PROVE  BcInv'
    <3>1. /\ bc' = [st |-> "creating", start |-> n, stops |-> {}, timer |-> FALSE]
          /\ bc' \in BcType
      BY <1>2, <2>3 DEF NoBroadcast, BcType
    <3>2. bc.start = 0 /\ bc.stops = {}
      BY <2>3 DEF BigInv
    <3>3. Handled' = Handled \cup {n}
      <4>1. Handled = DOMAIN signals /\ bc'.start = n /\ bc'.stops = {}
        BY <3>1, <3>2 DEF Handled
      <4> QED BY <1>2, <2>3, <4>1 DEF Handled
    <3>4. BcTypes'
      BY <1>1, <1>2, <2>1, <2>3, <3>1, <3>3 DEF BcTypes
    <3>5. BigInv'
      <4>1. bc'.st = "creating" /\ bc'.start = n /\ bc'.stops = {} /\ bc'.timer = FALSE
        BY <3>1
      <4>2. isoOn' = FALSE
        BY <2>1, <2>3 DEF BigInv
      <4>3. (AnnouncedWhileItRuns /\ NoOrphanBig)'
        BY <2>3, <4>1 DEF AnnouncedWhileItRuns, NoOrphanBig
      <4> QED BY <1>2, <2>3, <4>1, <4>2, <4>3 DEF BigInv
    <3>6. FifoInv'
      BY <1>4, <3>1, <3>3
    <3>7. ToldInv'
      BY <1>1, <1>3, <2>3 DEF ToldInv, LossIsTold
    <3> QED BY <3>4, <3>5, <3>6, <3>7
  <2> QED BY <2>1, <2>2, <2>3 DEF StartJob
<1>7. CASE Head(bcJobs)[1] = "stop"
  <2>1. StopJob(n)
    BY <1>7 DEF RunBroadcastJob
  \* The session does not wait for the start this stop follows
  <2>9. bcw.at = "starting" => bcw.sig # n /\ bcw.sig \notin DOMAIN signals /\ bcw.sig # bc.start
    <3>1. SUFFICES ASSUME bcw.at = "starting"
                   PROVE  bcw.sig # n /\ bcw.sig \notin DOMAIN signals /\ bcw.sig # bc.start
      OBVIOUS
    <3>2. Len(bcJobs) \in 1..Len(bcJobs) /\ bcJobs[Len(bcJobs)] = <<"start", bcw.sig>>
      BY <1>1, <3>1 DEF FifoInv
    <3>3. Len(bcJobs) # 1
      BY <1>1, <1>7, <3>2
    <3>4. bcw.sig \notin Handled /\ bcw.sig # 0
      BY <1>1, <3>2 DEF FifoInv, Numbered
    <3>5. 1 \in 1..Len(bcJobs) /\ 1 < Len(bcJobs) /\ bcJobs[1][2] < bcJobs[Len(bcJobs)][2]
      BY <1>1, <3>2, <3>3 DEF FifoInv
    <3> QED BY <1>1, <1>2, <3>2, <3>4, <3>5 DEF Handled
  <2>2. CASE bc.st = "none"
    <3>1. signals' = Answer({n}, TRUE) /\ isoOn' = FALSE /\ UNCHANGED <<bc, adv, big>>
      BY <2>1, <2>2 DEF StopJob
    <3>2. /\ DOMAIN signals' = DOMAIN signals \cup {n}
          /\ signals' \in [DOMAIN signals' -> BOOLEAN]
          /\ \A m \in DOMAIN signals \ {n} : signals'[m] = signals[m]
      BY <3>1, Answered
    <3>3. Handled' = Handled \cup {n}
      BY <3>1, <3>2 DEF Handled
    <3>4. BcTypes'
      BY <1>1, <1>2, <3>1, <3>2, <3>3 DEF BcTypes
    <3>5. BigInv'
      BY <1>1, <2>2, <3>1 DEF BigInv, AnnouncedWhileItRuns, NoOrphanBig
    <3>6. FifoInv'
      BY <1>4, <3>1, <3>3 DEF FifoInv
    <3>7. ToldInv'
      BY <1>5, <2>9, <3>2
    <3> QED BY <3>4, <3>5, <3>6, <3>7
  <2>3. CASE bc.st = "terminating"
    <3>1. /\ bc' = [bc EXCEPT !.stops = @ \cup {n}] /\ isoOn' = FALSE
          /\ UNCHANGED <<adv, big, signals>>
      BY <2>1, <2>3 DEF StopJob
    <3>2. /\ bc' \in BcType /\ bc'.st = "terminating" /\ bc'.start = bc.start
          /\ bc'.timer = bc.timer
          /\ bc'.stops = bc.stops \cup {n}
      BY <1>2, <2>3, <3>1 DEF BcTypes, BcType
    <3>3. Handled' = Handled \cup {n}
      BY <3>1, <3>2 DEF Handled
    <3>4. BcTypes'
      BY <1>1, <1>2, <3>1, <3>2, <3>3 DEF BcTypes
    <3>5. BigInv'
      BY <1>1, <2>3, <3>1, <3>2 DEF BigInv, AnnouncedWhileItRuns, NoOrphanBig
    <3>6. FifoInv'
      BY <1>4, <2>9, <3>2, <3>3 DEF FifoInv
    <3>7. ToldInv'
      BY <1>5, <2>9, <3>1
    <3> QED BY <3>4, <3>5, <3>6, <3>7
  <2>4. CASE bc.st \in {"creating", "streaming"}
    <3>1. big \in {"creating", "up"} /\ bc.stops = {}
      BY <2>4 DEF BigInv
    <3>2. /\ bc' = [st |-> "terminating", start |-> 0, stops |-> {n}, timer |-> TRUE]
          /\ signals' = Answer({bc.start} \ {0}, FALSE) /\ isoOn' = FALSE
          /\ big' = (IF big = "up" THEN "ending" ELSE big) /\ adv' = adv
      BY <2>1, <2>4, <3>1 DEF StopJob
    <3>3. /\ DOMAIN signals' = DOMAIN signals \cup ({bc.start} \ {0})
          /\ signals' \in [DOMAIN signals' -> BOOLEAN]
          /\ \A m \in DOMAIN signals' : signals'[m] => m \in DOMAIN signals /\ signals[m]
      <4>1. DOMAIN signals' = DOMAIN signals \cup ({bc.start} \ {0})
        BY <3>2 DEF Answer
      <4>2. \A m \in DOMAIN signals' : signals'[m] = IF m \in {bc.start} \ {0} THEN FALSE ELSE signals[m]
        BY <3>2 DEF Answer
      <4>3. \A m \in DOMAIN signals' : signals'[m] \in BOOLEAN
        BY <4>1, <4>2 DEF BcTypes
      <4>4. signals' = [m \in DOMAIN signals' |-> signals'[m]]
        BY <3>2 DEF Answer
      <4> QED BY <4>1, <4>2, <4>3, <4>4
    <3>4. Handled' = Handled \cup {n}
      BY <3>1, <3>2, <3>3 DEF Handled
    <3>5. bc' \in BcType
      BY <1>2, <3>2 DEF BcType
    <3>6. BcTypes'
      BY <1>1, <1>2, <3>1, <3>2, <3>3, <3>4, <3>5 DEF BcTypes
    <3>7. BigInv'
      BY <1>1, <2>4, <3>1, <3>2 DEF BigInv, AnnouncedWhileItRuns, NoOrphanBig
    <3>8. FifoInv'
      BY <1>4, <2>9, <3>2, <3>4
    <3>9. ToldInv'
      BY <1>5, <2>9, <3>3
    <3> QED BY <3>6, <3>7, <3>8, <3>9
  <2> QED BY <2>2, <2>3, <2>4 DEF BcTypes, BcType
<1> QED BY <1>1, <1>6, <1>7 DEF Job

\* Before the first session there is no broadcast and no job.
LEMMA BroadcastInitial == BroadcastInit => BcInv
<1> SUFFICES ASSUME BroadcastInit PROVE BcInv
  OBVIOUS
<1>1. bc = [st |-> "none", start |-> 0, stops |-> {}, timer |-> FALSE] /\ DOMAIN signals = {}
  BY DEF BroadcastInit, NoBroadcast
<1>2. /\ bc.st = "none" /\ bc.start = 0 /\ bc.stops = {} /\ bc.timer = FALSE /\ bc \in BcType
      /\ Handled = {}
  BY <1>1 DEF Handled, BcType
<1>3. signals \in [DOMAIN signals -> BOOLEAN]
  BY DEF BroadcastInit
<1>4. bcw = [at |-> "idle", sig |-> 0] /\ bcJobs = <<>>
  BY DEF BroadcastInit
<1>5. BcTypes
  <2>1. /\ bcw \in [at : {"idle", "starting", "playing", "stopping"}, sig : Nat]
        /\ bcJobs \in Seq(Job)
    BY <1>4
  <2> QED BY <1>2, <1>3, <2>1 DEF BroadcastInit, BcTypes
<1>6. AnnouncedWhileItRuns /\ NoOrphanBig
  BY <1>2 DEF BroadcastInit, AnnouncedWhileItRuns, NoOrphanBig
<1>7. BigInv
  BY <1>2, <1>6 DEF BroadcastInit, BigInv
<1>8. FifoInv /\ ToldInv
  BY <1>2, <1>4 DEF FifoInv, ToldInv, LossIsTold
<1> QED BY <1>5, <1>7, <1>8 DEF BcInv

\* Every reachable state of the broadcast source is safe.
THEOREM BroadcastSafeAlways == BroadcastSpec => []BroadcastSafe
<1>1. BroadcastInit => BcInv
  BY BroadcastInitial
<1>2. BcInv /\ [BroadcastNext]_broadcastVars => BcInv'
  <2> SUFFICES ASSUME BcInv, [BroadcastNext]_broadcastVars PROVE BcInv'
    OBVIOUS
  <2>1. CASE BroadcastNext
    BY <2>1, JobStep, TimeoutStep, CreatedStep, FailedStep, TerminatedStep,
       SessionStep DEF BroadcastNext
  <2>2. CASE UNCHANGED broadcastVars
    BY <2>2 DEF broadcastVars, BcInv, BcTypes, BigInv, FifoInv, ToldInv, LossIsTold, Numbered,
       Handled,
                AnnouncedWhileItRuns, NoOrphanBig
  <2> QED BY <2>1, <2>2
<1>3. BcInv => BroadcastSafe
  <2> SUFFICES ASSUME BcInv PROVE BroadcastSafe
    OBVIOUS
  <2>1. BroadcastTypeOK
    BY DEF BcInv, BcTypes, BcType, BigInv, Handled, Numbered, BroadcastTypeOK
  <2>2. StopsAreOwed
    BY DEF BcInv, BcTypes, BcType, BigInv, StopsAreOwed
  <2> QED BY <2>1, <2>2 DEF BcInv, BigInv, ToldInv, BroadcastSafe
<1> QED BY <1>1, <1>2, <1>3, PTL DEF BroadcastSpec

(***************************************************************************)
(* The queue of GATT operations: the inductive invariant                   *)
(***************************************************************************)

Status == {"ok", "failed", "gone"}
Result == Nat \X Status
Op     == [con : Con, link : Nat, kind : Kind, left : Int]
Client == [up : BOOLEAN, queue : Seq(Nat), running : BOOLEAN, retry : BOOLEAN]

\* Every answer given or about to be given, in order
Answers == (told \o batch) \o ready

GattTypes ==
    /\ conn \in [Con -> Client] /\ query \in [Con -> BOOLEAN] /\ link \in [Con -> Nat]
    /\ told \in Seq(Result) /\ batch \in Seq(Result) /\ ready \in Seq(Result)
    /\ ops \in Seq(Op)
    /\ gattRetry \in BOOLEAN
    /\ visit \in SUBSET Con

\* Where settle is
PlaceInv ==
    /\ at \in {"idle", "event", "pump", "run"}
    /\ at # "run" => batch = <<>>
    /\ at \in {"idle", "run"} => visit = {}
    /\ at = "idle" => ready = <<>>

\* What the queue knows of its connection
ConnOk(c) ==
    /\ conn[c].running => conn[c].queue # <<>>
    /\ ~conn[c].up => conn[c] = NoConn
    /\ conn[c].running = query[c]

ConnInv == \A c \in Con : ConnOk(c)

\* What pump has looked at and could not start, it means to try again
PumpInv ==
    /\ NothingLeftLying
    /\ at = "pump" => \A c \in Con \ visit : MayStart(c) => conn[c].retry

\* An answer comes once, and after those of the operations queued before it
Before(i, j) ==
    LET x == Answers[i][1]
        y == Answers[j][1]
    IN  x # y /\ (ops[x].con = ops[y].con /\ ops[x].link = ops[y].link => x < y)

AnswerInv ==
    /\ \A i \in DOMAIN Answers : Answers[i][1] \in DOMAIN ops
    /\ \A i, j \in DOMAIN Answers : i < j => Before(i, j)

\* What waits is of this link, in order, and after all that is answered
Waits(c, i) ==
    LET x == conn[c].queue[i]
    IN  /\ x \in DOMAIN ops /\ ops[x].con = c /\ ops[x].link = link[c]
        /\ \A j \in DOMAIN conn[c].queue : i < j => x < conn[c].queue[j]
        /\ \A k \in DOMAIN Answers :
              LET y == Answers[k][1]
              IN  y # x /\ (ops[y].con = c /\ ops[y].link = link[c] => y < x)

QueueInv == \A c \in Con : \A i \in DOMAIN conn[c].queue : Waits(c, i)

\* No operation is forgotten, and none is of a link to come
Kept(x) ==
    LET c == ops[x].con
    IN  /\ ops[x].link <= link[c]
        /\ \/ \E k \in DOMAIN Answers : Answers[k][1] = x
           \/ /\ conn[c].up /\ ops[x].link = link[c]
              /\ \E i \in DOMAIN conn[c].queue : conn[c].queue[i] = x

OpsInv ==
    /\ \A c \in Con : conn[c].up => link[c] > 0
    /\ \A x \in DOMAIN ops : Kept(x)

GattInv ==
    /\ GattTypes /\ PlaceInv /\ ConnInv /\ PumpInv
    /\ AnswerInv /\ QueueInv /\ OpsInv

(***************************************************************************)
(* The order of the answers                                                *)
(***************************************************************************)

\* A callback that has run leaves the order of the answers as it was.
LEMMA HeadMoves ==
    ASSUME NEW T, NEW s \in Seq(T), NEW t \in Seq(T), t # <<>>
    PROVE  Append(s, Head(t)) \o Tail(t) = s \o t
<1>1. /\ Head(t) \in T /\ Tail(t) \in Seq(T) /\ Len(Tail(t)) = Len(t) - 1
      /\ Len(t) \in Nat \ {0} /\ Len(s) \in Nat
      /\ Head(t) = t[1] /\ \A i \in 1 .. Len(t) - 1 : Tail(t)[i] = t[i + 1]
  OBVIOUS
<1>2. /\ Append(s, Head(t)) \in Seq(T) /\ Len(Append(s, Head(t))) = Len(s) + 1
      /\ \A i \in 1 .. Len(s) : Append(s, Head(t))[i] = s[i]
      /\ Append(s, Head(t))[Len(s) + 1] = t[1]
  BY <1>1, AppendProperties
<1>3. /\ s \o t \in Seq(T) /\ Len(s \o t) = Len(s) + Len(t)
      /\ \A i \in 1 .. Len(s) + Len(t) : (s \o t)[i] = IF i <= Len(s) THEN s[i] ELSE t[i - Len(s)]
  BY ConcatProperties
<1> DEFINE l == Append(s, Head(t)) \o Tail(t)
<1>4. /\ l \in Seq(T) /\ Len(l) = (Len(s) + 1) + (Len(t) - 1)
      /\ \A i \in 1 .. (Len(s) + 1) + (Len(t) - 1) :
            l[i] = IF i <= Len(s) + 1 THEN Append(s, Head(t))[i] ELSE Tail(t)[i - (Len(s) + 1)]
  BY <1>1, <1>2, ConcatProperties
<1> HIDE DEF l
<1>5. Len(l) = Len(s \o t)
  BY <1>1, <1>3, <1>4
<1>6. ASSUME NEW i \in 1 .. Len(l) PROVE l[i] = (s \o t)[i]
  <2>1. i \in 1 .. Len(s) + Len(t) /\ i \in 1 .. (Len(s) + 1) + (Len(t) - 1) /\ i \in Nat
    BY <1>1, <1>4
  <2>2. CASE i <= Len(s)
    <3>1. i \in 1 .. Len(s)
      BY <2>1, <2>2, <1>1
    <3>2. l[i] = Append(s, Head(t))[i]
      BY <2>1, <2>2, <1>1, <1>4
    <3>3. QED
      BY <2>1, <2>2, <3>1, <3>2, <1>2, <1>3
  <2>3. CASE i = Len(s) + 1
    <3>1. l[i] = Append(s, Head(t))[i] /\ (s \o t)[i] = t[i - Len(s)] /\ i - Len(s) = 1
      BY <2>1, <2>3, <1>1, <1>3, <1>4
    <3>2. QED
      BY <2>3, <3>1, <1>2
  <2>4. CASE i > Len(s) + 1
    <3>1. l[i] = Tail(t)[i - (Len(s) + 1)] /\ (s \o t)[i] = t[i - Len(s)]
      BY <2>1, <2>4, <1>1, <1>3, <1>4
    <3>2. i - (Len(s) + 1) \in 1 .. Len(t) - 1 /\ (i - (Len(s) + 1)) + 1 = i - Len(s)
      BY <2>1, <2>4, <1>1
    <3>3. QED
      BY <3>1, <3>2, <1>1
  <2>5. QED
    BY <2>1, <2>2, <2>3, <2>4, <1>1
<1>7. l = s \o t
  BY <1>3, <1>4, <1>5, <1>6, SeqEqual
<1>8. QED
  BY <1>7 DEF l

\* Concatenation three sequences long, read from either end.
LEMMA Regroup ==
    ASSUME NEW S
    PROVE  \A s, t, u \in Seq(S) : s \o (t \o u) = (s \o t) \o u
<1>1. TAKE s, t, u \in Seq(S)
<1>2. (s \o t) \o u = s \o (t \o u)
  BY SMTT(30), ConcatAssociative
<1>3. QED
  BY <1>2

\* The answers after each kind of step.
LEMMA AnswersAfter ==
    ASSUME GattTypes
    PROVE  /\ Answers \in Seq(Result)
           /\ batch # <<>> => Append(told, Head(batch)) \o Tail(batch) = told \o batch
           /\ batch = <<>> => (told \o ready) \o <<>> = Answers
           /\ \A r \in Result : (told \o batch) \o Append(ready, r) = Append(Answers, r)
           /\ \A s \in Seq(Result) : (told \o batch) \o (ready \o s) = Answers \o s
<1>1. told \in Seq(Result) /\ batch \in Seq(Result) /\ ready \in Seq(Result)
  BY DEF GattTypes
<1>2. told \o batch \in Seq(Result) /\ Answers \in Seq(Result) /\ told \o ready \in Seq(Result)
  BY <1>1, ConcatProperties DEF Answers
<1>3. batch # <<>> => Append(told, Head(batch)) \o Tail(batch) = told \o batch
  BY <1>1, HeadMoves
<1>4. batch = <<>> => (told \o ready) \o <<>> = Answers
  <2>1. (told \o ready) \o <<>> = told \o ready /\ told \o <<>> = told
    BY <1>1, <1>2, ConcatEmptySeq
  <2>2. QED
    BY <2>1 DEF Answers
<1>5. ASSUME NEW s \in Seq(Result) PROVE (told \o batch) \o (ready \o s) = Answers \o s
  <2>1. ASSUME NEW q \in Seq(Result) PROVE q \o (ready \o s) = (q \o ready) \o s
    <3>1. ready \in Seq(Result)
      BY <1>1
    <3>2. QED
      BY SMTT(30), <3>1, Regroup
  <2>2. QED
    BY <1>2, <2>1 DEF Answers
<1>6. ASSUME NEW r \in Result PROVE (told \o batch) \o Append(ready, r) = Append(Answers, r)
  <2>1. <<r>> \in Seq(Result)
    OBVIOUS
  <2>2. Append(ready, r) = ready \o <<r>> /\ Append(Answers, r) = Answers \o <<r>>
    BY <1>1, <1>2, AppendIsConcat
  <2>3. QED
    BY <2>1, <2>2, <1>5
<1>7. QED
  BY <1>2, <1>3, <1>4, <1>5, <1>6

(***************************************************************************)
(* What one change of the queues does to the order of the answers          *)
(***************************************************************************)

\* The operations are the same ones, on the same links
SameOps ==
    /\ DOMAIN ops' = DOMAIN ops
    /\ \A x \in DOMAIN ops : ops'[x].con = ops[x].con /\ ops'[x].link = ops[x].link

\* What the types say of an operation and of a queue.
LEMMA OpsTyped ==
    ASSUME GattTypes
    PROVE  /\ ops \in Seq(Op) /\ Len(ops) \in Nat /\ DOMAIN ops = 1 .. Len(ops)
           /\ \A x \in DOMAIN ops : ops[x] \in Op /\ ops[x].con \in Con /\ ops[x].link \in Nat
           /\ \A c \in Con : link[c] \in Nat
           /\ \A c \in Con : /\ conn[c].queue \in Seq(Nat) /\ Len(conn[c].queue) \in Nat
                             /\ DOMAIN conn[c].queue = 1 .. Len(conn[c].queue)
           /\ Answers \in Seq(Result) /\ Len(Answers) \in Nat
           /\ DOMAIN Answers = 1 .. Len(Answers)
<1>1. ops \in Seq(Op)
  BY DEF GattTypes
<1>2. Len(ops) \in Nat /\ DOMAIN ops = 1 .. Len(ops)
  BY <1>1
<1>3. \A x \in DOMAIN ops : ops[x] \in Op
  BY <1>1, <1>2, ElementOfSeq
<1>4. \A x \in DOMAIN ops : ops[x].con \in Con /\ ops[x].link \in Nat
  BY <1>3 DEF Op
<1>5. \A c \in Con : link[c] \in Nat /\ conn[c].queue \in Seq(Nat)
  BY DEF GattTypes, Client
<1>6. \A c \in Con : Len(conn[c].queue) \in Nat /\ DOMAIN conn[c].queue = 1 .. Len(conn[c].queue)
  BY <1>5
<1>7. Answers \in Seq(Result)
  BY AnswersAfter
<1>8. QED
  BY <1>1, <1>2, <1>3, <1>4, <1>5, <1>6, <1>7

\* Nothing is queued and nothing answered.
LEMMA SameQueues ==
    ASSUME AnswerInv, QueueInv, OpsInv, GattTypes, SameOps, Answers' = Answers, link' = link,
           \A c \in Con : conn'[c].queue = conn[c].queue /\ conn'[c].up = conn[c].up
    PROVE  (AnswerInv /\ QueueInv /\ OpsInv)'
<1>1. AnswerInv'
  BY DEF AnswerInv, Before, SameOps
<1>2. QueueInv'
  BY DEF QueueInv, Waits, AnswerInv, SameOps
<1>3. OpsInv'
  <2>1. ASSUME NEW x \in DOMAIN ops PROVE Kept(x)'
    <3>1. Kept(x) /\ ops[x].con \in Con
      BY OpsTyped DEF OpsInv
    <3>2. ops'[x].con = ops[x].con /\ ops'[x].link = ops[x].link
      BY DEF SameOps
    <3>3. /\ conn'[ops[x].con].queue = conn[ops[x].con].queue
          /\ conn'[ops[x].con].up = conn[ops[x].con].up
      BY <3>1
    <3>4. QED
      BY <3>1, <3>2, <3>3 DEF Kept
  <2>2. QED
    BY <2>1 DEF OpsInv, SameOps
<1>4. QED
  BY <1>1, <1>2, <1>3

\* An operation is queued last on its link.
LEMMA QueuedLast ==
    ASSUME AnswerInv, QueueInv, OpsInv, GattTypes, NEW c \in Con, NEW o,
           o.con = c, o.link = link[c], conn[c].up, ops' = Append(ops, o),
           Answers' = Answers, link' = link,
           conn'[c].queue = Append(conn[c].queue, Len(ops) + 1),
           \A d \in Con \ {c} : conn'[d].queue = conn[d].queue,
           \A d \in Con : conn'[d].up = conn[d].up
    PROVE  (AnswerInv /\ QueueInv /\ OpsInv)'
<1> DEFINE id == Len(ops) + 1
           q == conn[c].queue
<1>1. /\ Len(ops) \in Nat /\ DOMAIN ops = 1 .. Len(ops) /\ q \in Seq(Nat) /\ link[c] \in Nat
      /\ Len(q) \in Nat /\ DOMAIN q = 1 .. Len(q)
      /\ \A x \in DOMAIN ops : ops[x].con \in Con
  BY OpsTyped
<1>2. /\ DOMAIN ops' = 1 .. Len(ops) + 1 /\ ops'[id] = o
      /\ \A x \in DOMAIN ops : ops'[x] = ops[x]
  BY <1>1 DEF GattTypes
<1>3. /\ DOMAIN conn'[c].queue = 1 .. Len(q) + 1 /\ conn'[c].queue[Len(q) + 1] = id
      /\ \A i \in DOMAIN q : conn'[c].queue[i] = q[i]
  BY <1>1
<1>4. DOMAIN ops \subseteq DOMAIN ops' /\ id \in DOMAIN ops' /\ id \in Nat
      /\ \A x \in DOMAIN ops : x < id /\ x # id /\ x \in Nat
  BY <1>1, <1>2
<1>5. \A x \in DOMAIN ops' : x \in DOMAIN ops \/ x = id
  BY <1>1, <1>2
<1>6. \A i \in DOMAIN conn'[c].queue : i \in DOMAIN q \/ i = Len(q) + 1
  BY SMTT(30), <1>1, <1>3
<1> HIDE DEF id, q
<1>7. AnswerInv'
  BY <1>2, <1>4 DEF AnswerInv, Before
<1>8. QueueInv'
  <2>1. SUFFICES ASSUME NEW d \in Con, NEW i \in DOMAIN conn'[d].queue PROVE Waits(d, i)'
    BY DEF QueueInv
  <2>2. \A k \in DOMAIN Answers : Answers[k][1] \in DOMAIN ops
    BY DEF AnswerInv
  <2>3. CASE d # c
    BY <2>2, <2>3, <1>2, <1>4 DEF QueueInv, Waits
  <2>4. CASE d = c /\ i \in DOMAIN q
    <3>1. \A j \in DOMAIN conn'[c].queue : i < j => q[i] < conn'[c].queue[j]
      BY SMTT(30), <2>4, <1>3, <1>4, <1>6 DEF QueueInv, Waits, q
    <3>2. /\ q[i] \in DOMAIN ops /\ ops[q[i]].con = d /\ ops[q[i]].link = link[d]
          /\ \A k \in DOMAIN Answers :
                /\ Answers[k][1] # q[i]
                /\ (ops[Answers[k][1]].con = d /\ ops[Answers[k][1]].link = link[d]
                    => Answers[k][1] < q[i])
      BY <2>4 DEF QueueInv, Waits, q
    <3>3. QED
      <4>1. conn'[d].queue[i] = q[i] /\ ops'[q[i]] = ops[q[i]] /\ q[i] \in DOMAIN ops'
        BY <2>4, <3>2, <1>2, <1>3, <1>4
      <4>2. \A k \in DOMAIN Answers : ops'[Answers[k][1]] = ops[Answers[k][1]]
        BY <2>2, <1>2
      <4>3. QED
        BY ZenonT(40), <2>4, <3>1, <3>2, <4>1, <4>2 DEF Waits
  <2>5. CASE d = c /\ i = Len(q) + 1
    <3>1. \A j \in DOMAIN conn'[c].queue : ~(i < j)
      BY <2>5, <1>1, <1>3 DEF q
    <3>2. QED
      BY <2>5, <2>2, <3>1, <1>2, <1>3, <1>4 DEF Waits
  <2>6. QED
    BY <2>3, <2>4, <2>5, <1>6
<1>9. OpsInv'
  <2>1. \A d \in Con : conn'[d].up => link[d] > 0
    BY DEF OpsInv
  <2>2. ASSUME NEW x \in DOMAIN ops' PROVE Kept(x)'
    <3>1. CASE x = id
      <4>1. ops'[x].con = c /\ ops'[x].link = link[c] /\ conn'[c].up
        BY <3>1, <1>2
      <4>2. Len(q) + 1 \in DOMAIN conn'[c].queue /\ conn'[c].queue[Len(q) + 1] = x
        BY <3>1, <1>1, <1>3 DEF q
      <4>3. QED
        <5>1. \E i \in DOMAIN conn'[c].queue : conn'[c].queue[i] = x
          BY <4>2
        <5>2. link[c] <= link[c]
          BY <1>1
        <5>3. QED
          BY <4>1, <5>1, <5>2 DEF Kept
    <3>2. CASE x \in DOMAIN ops
      <4>1. ops'[x] = ops[x] /\ ops[x].con \in Con
        BY <3>2, <1>1, <1>2
      <4>2. \A i \in DOMAIN conn[ops[x].con].queue :
               /\ i \in DOMAIN conn'[ops[x].con].queue
               /\ conn'[ops[x].con].queue[i] = conn[ops[x].con].queue[i]
        <5>1. CASE ops[x].con = c
          <6>1. \A i \in DOMAIN q : i \in DOMAIN conn'[c].queue /\ conn'[c].queue[i] = q[i]
            BY <1>1, <1>3
          <6>2. QED
            BY <5>1, <6>1 DEF q
        <5>2. CASE ops[x].con # c
          BY <5>2, <4>1
        <5>3. QED
          BY <5>1, <5>2
      <4>3. QED
        BY <3>2, <4>1, <4>2 DEF OpsInv, Kept
    <3>3. QED
      BY <3>1, <3>2, <1>5
  <2>3. QED
    BY <2>1, <2>2 DEF OpsInv
<1>10. QED
  BY <1>7, <1>8, <1>9

\* An operation without a link is answered at once.
LEMMA AnsweredAtOnce ==
    ASSUME AnswerInv, QueueInv, OpsInv, GattTypes, NEW c \in Con, NEW o,
           o.con = c, o.link = 0, ops' = Append(ops, o), \A d \in Con : ~conn[d].up => conn[d].queue = <<>>,
           Answers' = Append(Answers, <<Len(ops) + 1, "gone">>), link' = link,
           conn' = conn
    PROVE  (AnswerInv /\ QueueInv /\ OpsInv)'
<1> DEFINE id == Len(ops) + 1
           n == Len(Answers)
<1>1. /\ Len(ops) \in Nat /\ DOMAIN ops = 1 .. Len(ops)
      /\ \A d \in Con : link[d] \in Nat
      /\ \A x \in DOMAIN ops : ops[x].con \in Con
  BY OpsTyped
<1>2. /\ DOMAIN ops' = 1 .. Len(ops) + 1 /\ ops'[id] = o
      /\ \A x \in DOMAIN ops : ops'[x] = ops[x]
  BY <1>1 DEF GattTypes
<1>3. Answers \in Seq(Result) /\ n \in Nat /\ DOMAIN Answers = 1 .. n
  BY AnswersAfter
<1>4. /\ DOMAIN Answers' = 1 .. n + 1 /\ Answers'[n + 1][1] = id
      /\ \A i \in DOMAIN Answers : Answers'[i] = Answers[i]
  <2>1. <<Len(ops) + 1, "gone">> \in Result
    BY <1>1 DEF Result, Status
  <2>2. QED
    BY <2>1, <1>3
<1>5. DOMAIN ops \subseteq DOMAIN ops' /\ id \in DOMAIN ops' /\ id \in Nat
      /\ \A x \in DOMAIN ops : x < id /\ x # id /\ x \in Nat
  BY <1>1, <1>2
<1>6. \A x \in DOMAIN ops' : x \in DOMAIN ops \/ x = id
  BY <1>1, <1>2
<1>7. /\ \A i \in DOMAIN Answers' : i \in DOMAIN Answers \/ i = n + 1
      /\ \A i \in DOMAIN Answers : i \in DOMAIN Answers' /\ i < n + 1
      /\ n + 1 \in DOMAIN Answers' /\ ~(n + 1 < n + 1)
      /\ \A i \in DOMAIN Answers : ~(n + 1 < i)
  BY <1>3, <1>4
<1> HIDE DEF id, n
<1>8. AnswerInv'
  <2>1. \A i \in DOMAIN Answers' : Answers'[i][1] \in DOMAIN ops'
    BY <1>4, <1>5, <1>7 DEF AnswerInv
  <2>2. ASSUME NEW i \in DOMAIN Answers', NEW j \in DOMAIN Answers', i < j PROVE Before(i, j)'
    <3>1. i \in DOMAIN Answers
      BY <2>2, <1>7
    <3>2. Answers'[i] = Answers[i] /\ Answers[i][1] \in DOMAIN ops
      BY <3>1, <1>4 DEF AnswerInv
    <3>3. CASE j = n + 1
      BY <3>2, <3>3, <1>4, <1>5 DEF Before
    <3>4. CASE j \in DOMAIN Answers
      <4>1. Answers'[j] = Answers[j] /\ Answers[j][1] \in DOMAIN ops
        BY <3>4, <1>4 DEF AnswerInv
      <4>2. QED
        <5>1. Before(i, j)
          BY <2>2, <3>1, <3>4 DEF AnswerInv
        <5>2. /\ ops'[Answers[i][1]] = ops[Answers[i][1]]
              /\ ops'[Answers[j][1]] = ops[Answers[j][1]]
          BY <3>2, <4>1, <1>2
        <5>3. QED
          BY <5>1, <5>2, <3>2, <4>1 DEF Before
    <3>5. QED
      BY <3>3, <3>4, <1>7
  <2>3. QED
    BY <2>1, <2>2 DEF AnswerInv
<1>9. QueueInv'
  <2>1. SUFFICES ASSUME NEW d \in Con, NEW i \in DOMAIN conn[d].queue PROVE Waits(d, i)'
    BY DEF QueueInv
  <2> DEFINE x == conn[d].queue[i]
  <2>2. /\ x \in DOMAIN ops /\ ops[x].con = d /\ ops[x].link = link[d]
        /\ \A j \in DOMAIN conn[d].queue : i < j => x < conn[d].queue[j]
        /\ \A k \in DOMAIN Answers :
              /\ Answers[k][1] # x
              /\ (ops[Answers[k][1]].con = d /\ ops[Answers[k][1]].link = link[d]
                  => Answers[k][1] < x)
    BY DEF QueueInv, Waits
  <2>3. conn[d].up /\ link[d] > 0
    <3>1. conn[d].queue # <<>>
      BY <2>1
    <3>2. QED
      BY <3>1 DEF OpsInv
  <2>4. o.link # link[d]
    BY <2>3, <1>1
  <2> HIDE DEF x
  <2>5. \A k \in DOMAIN Answers : Answers[k][1] \in DOMAIN ops
    BY DEF AnswerInv
  <2>6. ASSUME NEW k \in DOMAIN Answers'
        PROVE  /\ Answers'[k][1] # x
               /\ (ops'[Answers'[k][1]].con = d /\ ops'[Answers'[k][1]].link = link[d]
                   => Answers'[k][1] < x)
    <3>1. CASE k = n + 1
      BY <3>1, <2>2, <2>4, <1>2, <1>4, <1>5
    <3>2. CASE k \in DOMAIN Answers
      BY <3>2, <2>2, <2>5, <1>2, <1>4
    <3>3. QED
      BY <3>1, <3>2, <1>7
  <2>7. x \in DOMAIN ops' /\ ops'[x].con = d /\ ops'[x].link = link[d]
    BY <2>2, <1>2, <1>5
  <2>8. QED
    BY <2>2, <2>6, <2>7 DEF x, Waits
<1>10. OpsInv'
  <2>1. \A d \in Con : conn'[d].up => link[d] > 0
    BY DEF OpsInv
  <2>2. ASSUME NEW x \in DOMAIN ops' PROVE Kept(x)'
    <3>1. CASE x = id
      BY <3>1, <1>1, <1>2, <1>4, <1>7 DEF Kept
    <3>2. CASE x \in DOMAIN ops
      BY <3>2, <1>1, <1>2, <1>4, <1>7 DEF OpsInv, Kept
    <3>3. QED
      BY <3>1, <3>2, <1>6
  <2>3. QED
    BY <2>1, <2>2 DEF OpsInv
<1>11. QED
  BY <1>8, <1>9, <1>10

\* The first operation of a queue is answered.
LEMMA FirstAnswered ==
    ASSUME AnswerInv, QueueInv, OpsInv, GattTypes, SameOps, NEW c \in Con, NEW st \in Status,
           conn[c].queue # <<>>, link' = link,
           Answers' = Append(Answers, <<Head(conn[c].queue), st>>),
           conn'[c].queue = Tail(conn[c].queue),
           \A d \in Con \ {c} : conn'[d].queue = conn[d].queue,
           \A d \in Con : conn'[d].up = conn[d].up
    PROVE  (AnswerInv /\ QueueInv /\ OpsInv)'
<1> DEFINE q == conn[c].queue
           n == Len(Answers)
           h == q[1]
<1>1. /\ q \in Seq(Nat) /\ Len(q) \in Nat /\ DOMAIN q = 1 .. Len(q) /\ Len(q) # 0
      /\ n \in Nat /\ DOMAIN Answers = 1 .. n /\ Answers \in Seq(Result)
      /\ \A x \in DOMAIN ops : ops[x].con \in Con
  BY OpsTyped
<1>2. Head(q) = h /\ h \in Nat /\ 1 \in DOMAIN q
  BY <1>1
<1>3. /\ DOMAIN conn'[c].queue = 1 .. Len(q) - 1
      /\ \A i \in 1 .. Len(q) - 1 : conn'[c].queue[i] = q[i + 1]
  BY <1>1
<1>4. \A i \in DOMAIN conn'[c].queue :
         /\ i + 1 \in DOMAIN q /\ conn'[c].queue[i] = q[i + 1] /\ 1 < i + 1
         /\ \A j \in DOMAIN conn'[c].queue : i < j => i + 1 < j + 1
  <2>1. \A i \in 1 .. Len(q) - 1 :
           i + 1 \in 1 .. Len(q) /\ 1 < i + 1 /\ \A j \in 1 .. Len(q) - 1 : i < j => i + 1 < j + 1
    <3> HIDE DEF q
    <3>1. QED
      BY <1>1
  <2>2. QED
    BY <2>1, <1>1, <1>3
<1>5. \A i \in DOMAIN q : i = 1 \/ (/\ i - 1 \in DOMAIN conn'[c].queue
                                    /\ conn'[c].queue[i - 1] = q[i])
  <2>1. \A i \in 1 .. Len(q) : i = 1 \/ (i - 1 \in 1 .. Len(q) - 1 /\ (i - 1) + 1 = i)
    <3> HIDE DEF q
    <3>1. QED
      BY <1>1
  <2> HIDE DEF q
  <2>2. QED
    BY <2>1, <1>1, <1>3
<1>6. /\ DOMAIN Answers' = 1 .. n + 1 /\ Answers'[n + 1][1] = h
      /\ \A i \in DOMAIN Answers : Answers'[i] = Answers[i]
  <2>1. <<Head(q), st>> \in Result
    BY <1>2 DEF Result
  <2>2. QED
    BY <2>1, <1>1, <1>2
<1>7. /\ \A i \in DOMAIN Answers' : i \in DOMAIN Answers \/ i = n + 1
      /\ \A i \in DOMAIN Answers : i \in DOMAIN Answers' /\ i < n + 1 /\ ~(n + 1 < i)
      /\ n + 1 \in DOMAIN Answers' /\ ~(n + 1 < n + 1)
  BY <1>1, <1>6
<1>8. /\ h \in DOMAIN ops /\ ops[h].con = c /\ ops[h].link = link[c]
      /\ \A i \in DOMAIN q : 1 < i => h < q[i] /\ h # q[i]
      /\ \A k \in DOMAIN Answers :
            /\ Answers[k][1] # h
            /\ (ops[Answers[k][1]].con = c /\ ops[Answers[k][1]].link = link[c]
                => Answers[k][1] < h)
  <2>1. Waits(c, 1)
    BY <1>2 DEF QueueInv
  <2>2. \A i \in DOMAIN q : q[i] \in Nat
    BY SMTT(30), <1>1
  <2>3. QED
    BY <2>1, <2>2, <1>2 DEF Waits
<1>9. \A k \in DOMAIN Answers : Answers[k][1] \in DOMAIN ops
  BY DEF AnswerInv
<1> HIDE DEF q, n, h
<1>10. AnswerInv'
  <2>1. \A i \in DOMAIN Answers' : Answers'[i][1] \in DOMAIN ops'
    BY <1>6, <1>7, <1>8, <1>9 DEF SameOps
  <2>2. ASSUME NEW i \in DOMAIN Answers', NEW j \in DOMAIN Answers', i < j PROVE Before(i, j)'
    <3>1. i \in DOMAIN Answers /\ Answers'[i] = Answers[i]
      BY <2>2, <1>6, <1>7
    <3>2. CASE j = n + 1
      BY <3>1, <3>2, <1>6, <1>8, <1>9 DEF Before, SameOps
    <3>3. CASE j \in DOMAIN Answers
      <4>1. Before(i, j) /\ Answers'[j] = Answers[j]
        BY <2>2, <3>1, <3>3, <1>6 DEF AnswerInv
      <4>2. QED
        BY <3>1, <3>3, <4>1, <1>9 DEF Before, SameOps
    <3>4. QED
      BY <3>2, <3>3, <1>7
  <2>3. QED
    BY <2>1, <2>2 DEF AnswerInv
<1>11. QueueInv'
  <2>1. SUFFICES ASSUME NEW d \in Con, NEW i \in DOMAIN conn'[d].queue PROVE Waits(d, i)'
    BY DEF QueueInv
  <2>2. CASE d # c
    <3>1. Waits(d, i) /\ conn'[d].queue = conn[d].queue
      BY <2>2 DEF QueueInv
    <3>2. conn[d].queue[i] # h /\ conn[d].queue[i] \in DOMAIN ops
      BY <2>2, <3>1, <1>8 DEF Waits
    <3>3. ASSUME NEW k \in DOMAIN Answers'
          PROVE  LET y == Answers'[k][1]
                 IN  /\ y # conn[d].queue[i]
                     /\ (ops'[y].con = d /\ ops'[y].link = link[d] => y < conn[d].queue[i])
      <4>1. CASE k = n + 1
        BY <4>1, <2>2, <3>2, <1>6, <1>8 DEF SameOps
      <4>2. CASE k \in DOMAIN Answers
        BY <4>2, <3>1, <1>6, <1>9 DEF Waits, SameOps
      <4>3. QED
        BY <4>1, <4>2, <1>7
    <3>4. QED
      BY <3>1, <3>3 DEF Waits, SameOps
  <2>3. CASE d = c
    <3>1. i + 1 \in DOMAIN q /\ conn'[c].queue[i] = q[i + 1] /\ Waits(c, i + 1)
      BY <2>3, <1>4 DEF QueueInv, q
    <3>2. /\ q[i + 1] \in DOMAIN ops /\ ops[q[i + 1]].con = c /\ ops[q[i + 1]].link = link[c]
          /\ \A j \in DOMAIN q : i + 1 < j => q[i + 1] < q[j]
          /\ \A k \in DOMAIN Answers :
                LET y == Answers[k][1]
                IN  y # q[i + 1] /\ (ops[y].con = c /\ ops[y].link = link[c] => y < q[i + 1])
      BY <3>1 DEF Waits, q
    <3>3. \A j \in DOMAIN conn'[c].queue : i < j => q[i + 1] < conn'[c].queue[j]
      BY <2>3, <3>2, <1>4
    <3>4. h < q[i + 1] /\ h # q[i + 1]
      BY <2>3, <1>4, <1>8
    <3>5. ASSUME NEW k \in DOMAIN Answers'
          PROVE  LET y == Answers'[k][1]
                 IN  y # q[i + 1] /\ (ops'[y].con = c /\ ops'[y].link = link[c] => y < q[i + 1])
      <4>1. CASE k = n + 1
        BY <4>1, <3>4, <1>6
      <4>2. CASE k \in DOMAIN Answers
        BY <4>2, <3>2, <1>6, <1>9 DEF SameOps
      <4>3. QED
        BY <4>1, <4>2, <1>7
    <3>6. QED
      BY ZenonT(40), <2>3, <3>1, <3>2, <3>3, <3>5 DEF Waits, SameOps
  <2>4. QED
    BY <2>2, <2>3
<1>12. OpsInv'
  <2>1. ASSUME NEW x \in DOMAIN ops PROVE Kept(x)'
    <3>1. /\ Kept(x) /\ ops[x].con \in Con /\ ops'[x].con = ops[x].con
          /\ ops'[x].link = ops[x].link
      BY <1>1 DEF OpsInv, SameOps
    <3>2. CASE \E k \in DOMAIN Answers : Answers[k][1] = x
      <4>1. \E k \in DOMAIN Answers' : Answers'[k][1] = x
        BY <3>2, <1>6, <1>7
      <4>2. QED
        BY <4>1, <3>1 DEF Kept
    <3>3. CASE ops[x].con = c /\ conn[c].up /\ ops[x].link = link[c] /\ \E i \in DOMAIN q : q[i] = x
      <4>1. PICK i \in DOMAIN q : q[i] = x
        BY <3>3
      <4>2. CASE i = 1
        <5>1. \E k \in DOMAIN Answers' : Answers'[k][1] = x
          BY <4>1, <4>2, <1>6, <1>7 DEF h
        <5>2. QED
          BY <5>1, <3>1 DEF Kept
      <4>3. CASE i - 1 \in DOMAIN conn'[c].queue /\ conn'[c].queue[i - 1] = q[i]
        <5>1. \E m \in DOMAIN conn'[c].queue : conn'[c].queue[m] = x
          BY <4>1, <4>3
        <5>2. conn'[c].up
          BY <3>3
        <5>3. QED
          BY ZenonT(40), <5>1, <5>2, <3>1, <3>3 DEF Kept
      <4>4. QED
        BY <4>2, <4>3, <1>5
    <3>4. CASE ops[x].con # c
      <4>1. /\ conn'[ops[x].con].queue = conn[ops[x].con].queue
            /\ conn'[ops[x].con].up = conn[ops[x].con].up
        BY <3>1, <3>4
      <4>2. QED
        BY <3>1, <4>1, <3>2 DEF Kept
    <3>5. QED
      BY <3>1, <3>2, <3>3, <3>4 DEF Kept, q
  <2>2. QED
    BY <2>1 DEF OpsInv, SameOps
<1>13. QED
  BY <1>10, <1>11, <1>12

\* What detach answers has its type, and is the queue in its order.
LEMMA AllWithTyped ==
    ASSUME GattTypes, NEW c \in Con
    PROVE  LET q == conn[c].queue
               w == AllWith(q, "gone")
           IN  w \in Seq(Result) /\ Len(w) = Len(q) /\ \A i \in 1 .. Len(q) : w[i] = <<q[i], "gone">>
<1> DEFINE q == conn[c].queue
           m == Len(q)
           w == AllWith(q, "gone")
<1>1. q \in Seq(Nat) /\ m \in Nat /\ DOMAIN q = 1 .. m
  BY OpsTyped
<1>2. w = [i \in 1 .. m |-> <<q[i], "gone">>]
  BY <1>1 DEF AllWith
<1>3. \A i \in 1 .. m : <<q[i], "gone">> \in Result
  BY <1>1 DEF Result, Status
<1>4. w \in [1 .. m -> Result] /\ DOMAIN w = 1 .. m
  BY <1>2, <1>3
<1> HIDE DEF m, w
<1>5. w \in Seq(Result)
  BY <1>4, <1>1, SeqDef
<1>6. Len(w) = m
  BY <1>4, <1>5, <1>1, LenProperties
<1>7. QED
  BY <1>2, <1>5, <1>6 DEF m, w

\* A link goes down: all of its queue is answered, in its order.
LEMMA AllAnsweredGone ==
    ASSUME AnswerInv, QueueInv, OpsInv, GattTypes, NEW c \in Con, ops' = ops, link' = link,
           Answers' = Answers \o AllWith(conn[c].queue, "gone"),
           conn' = [conn EXCEPT ![c] = NoConn]
    PROVE  (AnswerInv /\ QueueInv /\ OpsInv)'
<1> DEFINE q == conn[c].queue
           n == Len(Answers)
           m == Len(q)
<1>1. /\ q \in Seq(Nat) /\ m \in Nat /\ DOMAIN q = 1 .. m
      /\ n \in Nat /\ DOMAIN Answers = 1 .. n /\ Answers \in Seq(Result)
      /\ \A x \in DOMAIN ops : ops[x].con \in Con
  BY OpsTyped
<1> DEFINE w == AllWith(q, "gone")
<1>2. w \in Seq(Result) /\ Len(w) = m /\ \A i \in 1 .. m : w[i] = <<q[i], "gone">>
  BY AllWithTyped
<1>3. /\ Len(Answers') = n + m /\ Answers' \in Seq(Result)
      /\ \A i \in 1 .. n + m : Answers'[i] = IF i <= n THEN Answers[i] ELSE w[i - n]
  <2>1. Answers' = Answers \o w
    OBVIOUS
  <2> HIDE DEF w
  <2>2. /\ Answers \o w \in Seq(Result) /\ Len(Answers \o w) = Len(Answers) + Len(w)
        /\ \A i \in 1 .. Len(Answers) + Len(w) :
              (Answers \o w)[i] = IF i <= Len(Answers) THEN Answers[i] ELSE w[i - Len(Answers)]
    BY ZenonT(40), <1>1, <1>2, ConcatProperties
  <2>3. Len(w) = m
    BY <1>2
  <2> HIDE DEF m
  <2>4. QED
    BY <2>1, <2>2, <2>3
<1>4. conn' \in [Con -> Client] /\ conn'[c] = NoConn /\ \A d \in Con \ {c} : conn'[d] = conn[d]
  BY DEF GattTypes, NoConn, Client
<1>5. \A k \in DOMAIN Answers : Answers[k][1] \in DOMAIN ops
  BY DEF AnswerInv
<1> HIDE DEF q, n, m, w
<1>6. /\ DOMAIN Answers' = 1 .. n + m
      /\ \A i \in DOMAIN Answers : i \in DOMAIN Answers' /\ Answers'[i] = Answers[i]
      /\ \A i \in DOMAIN Answers' : i \in DOMAIN Answers \/ i - n \in DOMAIN q
      /\ \A i \in DOMAIN q : n + i \in DOMAIN Answers' /\ Answers'[n + i][1] = q[i]
      /\ \A i \in DOMAIN Answers' : i \notin DOMAIN Answers => Answers'[i][1] = q[i - n]
      /\ \A i, j \in DOMAIN Answers' : i < j =>
            /\ i \notin DOMAIN Answers => j \notin DOMAIN Answers
            /\ i - n < j - n
  <2>1. DOMAIN Answers' = 1 .. n + m
    BY <1>3
  <2>2. /\ \A i \in 1 .. n : i \in 1 .. n + m /\ i <= n
        /\ \A i \in 1 .. n + m : i \in 1 .. n \/ (i - n \in 1 .. m /\ ~(i <= n))
        /\ \A i \in 1 .. m : n + i \in 1 .. n + m /\ ~(n + i <= n) /\ (n + i) - n = i
        /\ \A i, j \in 1 .. n + m : i < j => (i \notin 1 .. n => j \notin 1 .. n) /\ i - n < j - n
    BY <1>1
  <2>3. \A i \in 1 .. n : Answers'[i] = Answers[i]
    BY <2>2, <1>3
  <2>4. \A i \in 1 .. n + m : i \notin 1 .. n => Answers'[i][1] = q[i - n]
    <3>1. SUFFICES ASSUME NEW i \in 1 .. n + m, i \notin 1 .. n PROVE Answers'[i][1] = q[i - n]
      OBVIOUS
    <3>2. i - n \in 1 .. m /\ Answers'[i] = w[i - n]
      BY <3>1, <2>2, <1>3
    <3>3. w[i - n] = <<q[i - n], "gone">>
      BY <3>2, <1>2
    <3>4. <<q[i - n], "gone">>[1] = q[i - n]
      OBVIOUS
    <3>5. QED
      BY <3>2, <3>3, <3>4, Zenon
  <2>5. \A i \in 1 .. m : Answers'[n + i][1] = q[i]
    <3>1. SUFFICES ASSUME NEW i \in 1 .. m PROVE Answers'[n + i][1] = q[i]
      OBVIOUS
    <3>2. n + i \in 1 .. n + m /\ n + i \notin 1 .. n /\ (n + i) - n = i
      BY <1>1
    <3>3. QED
      BY <3>2, <2>4
  <2>6. QED
    BY <2>1, <2>2, <2>3, <2>4, <2>5, <1>1
<1>7. \A i \in DOMAIN q :
         /\ q[i] \in DOMAIN ops /\ ops[q[i]].con = c /\ ops[q[i]].link = link[c] /\ q[i] \in Nat
         /\ \A j \in DOMAIN q : i < j => q[i] < q[j]
         /\ \A k \in DOMAIN Answers :
               LET y == Answers[k][1]
               IN  y # q[i] /\ (ops[y].con = c /\ ops[y].link = link[c] => y < q[i])
  <2>1. \A i \in DOMAIN q : Waits(c, i) /\ q[i] \in Nat
    BY <1>1 DEF QueueInv, q
  <2>2. QED
    BY <2>1 DEF Waits, q
<1>8. AnswerInv'
  <2>1. \A i \in DOMAIN Answers' : Answers'[i][1] \in DOMAIN ops
    BY <1>5, <1>6, <1>7
  <2>2. ASSUME NEW i \in DOMAIN Answers', NEW j \in DOMAIN Answers', i < j PROVE Before(i, j)'
    <3>1. CASE i \in DOMAIN Answers /\ j \in DOMAIN Answers
      BY <3>1, <2>2, <1>6 DEF AnswerInv, Before
    <3>2. CASE i \in DOMAIN Answers /\ j \notin DOMAIN Answers
      <4>1. Answers'[i] = Answers[i] /\ Answers'[j][1] = q[j - n] /\ j - n \in DOMAIN q
        BY <3>2, <1>6
      <4>2. QED
        <5>1. /\ Answers[i][1] # q[j - n]
              /\ (ops[Answers[i][1]].con = c /\ ops[Answers[i][1]].link = link[c] => Answers[i][1] < q[j - n])
              /\ ops[q[j - n]].con = c /\ ops[q[j - n]].link = link[c]
          BY <3>2, <4>1, <1>7
        <5>2. QED
          BY <4>1, <5>1 DEF Before
    <3>3. CASE i \notin DOMAIN Answers
      <4>1. /\ Answers'[i][1] = q[i - n] /\ i - n \in DOMAIN q
            /\ Answers'[j][1] = q[j - n] /\ j - n \in DOMAIN q /\ i - n < j - n
        BY <2>2, <3>3, <1>6
      <4>2. q[i - n] < q[j - n] /\ q[i - n] # q[j - n]
        BY <4>1, <1>7
      <4>3. QED
        BY <4>1, <4>2 DEF Before
    <3>4. QED
      BY <3>1, <3>2, <3>3
  <2>3. QED
    BY <2>1, <2>2 DEF AnswerInv
<1>9. QueueInv'
  <2>1. SUFFICES ASSUME NEW d \in Con, NEW i \in DOMAIN conn'[d].queue PROVE Waits(d, i)'
    BY DEF QueueInv
  <2>2. d # c
    BY <2>1, <1>4 DEF NoConn
  <2>3. Waits(d, i) /\ conn'[d] = conn[d]
    BY <2>2, <1>4 DEF QueueInv
  <2>4. ASSUME NEW k \in DOMAIN Answers'
        PROVE  LET y == Answers'[k][1]
               IN  /\ y # conn[d].queue[i]
                   /\ (ops[y].con = d /\ ops[y].link = link[d] => y < conn[d].queue[i])
    <3>1. CASE k \in DOMAIN Answers
      BY <3>1, <2>3, <1>6 DEF Waits
    <3>2. CASE k \notin DOMAIN Answers
      <4>1. Answers'[k][1] = q[k - n] /\ k - n \in DOMAIN q
        BY <3>2, <1>6
      <4>2. ops[q[k - n]].con = c /\ ops[conn[d].queue[i]].con = d
        BY <4>1, <2>3, <1>7 DEF Waits
      <4>3. QED
        BY <4>1, <4>2, <2>2
    <3>3. QED
      BY <3>1, <3>2
  <2>5. QED
    BY <2>3, <2>4 DEF Waits
<1>10. OpsInv'
  <2>1. ASSUME NEW x \in DOMAIN ops PROVE Kept(x)'
    <3>1. Kept(x) /\ ops[x].con \in Con
      BY <1>1 DEF OpsInv
    <3>2. CASE \E k \in DOMAIN Answers : Answers[k][1] = x
      <4>1. \E k \in DOMAIN Answers' : Answers'[k][1] = x
        BY <3>2, <1>6
      <4>2. QED
        BY <4>1, <3>1 DEF Kept
    <3>3. CASE ops[x].con = c /\ \E i \in DOMAIN q : q[i] = x
      <4>1. \E k \in DOMAIN Answers' : Answers'[k][1] = x
        BY <3>3, <1>6
      <4>2. QED
        BY <4>1, <3>1 DEF Kept
    <3>4. CASE ops[x].con # c
      BY <3>1, <3>2, <3>4, <1>4 DEF Kept
    <3>5. QED
      BY <3>1, <3>2, <3>3, <3>4 DEF Kept, q
  <2>2. \A d \in Con : conn'[d].up => link[d] > 0
    BY <1>4 DEF OpsInv, NoConn
  <2>3. QED
    BY <2>1, <2>2 DEF OpsInv
<1>11. QED
  BY <1>8, <1>9, <1>10

\* A new link begins with nothing queued.
LEMMA NewLink ==
    ASSUME AnswerInv, QueueInv, OpsInv, GattTypes, NEW c \in Con, ops' = ops, Answers' = Answers,
           ~conn[c].up, link' = [link EXCEPT ![c] = @ + 1],
           conn' = [conn EXCEPT ![c] = [NoConn EXCEPT !.up = TRUE]]
    PROVE  (AnswerInv /\ QueueInv /\ OpsInv)'
<1>1. /\ conn'[c].queue = <<>> /\ \A d \in Con \ {c} : conn'[d] = conn[d] /\ link'[d] = link[d]
      /\ link'[c] = link[c] + 1
  BY DEF GattTypes, NoConn
<1>2. AnswerInv'
  BY DEF AnswerInv, Before
<1>3. QueueInv'
  <2>1. SUFFICES ASSUME NEW d \in Con, NEW i \in DOMAIN conn'[d].queue PROVE Waits(d, i)'
    BY DEF QueueInv
  <2>2. d # c
    BY <2>1, <1>1
  <2>3. Waits(d, i) /\ conn'[d] = conn[d] /\ link'[d] = link[d]
    BY <2>2, <1>1 DEF QueueInv
  <2>4. QED
    BY <2>3 DEF Waits
<1>4. OpsInv'
  <2>1. ASSUME NEW x \in DOMAIN ops PROVE Kept(x)'
    <3>1. Kept(x) /\ ops[x].con \in Con /\ ops[x].link \in Nat /\ link[ops[x].con] \in Nat
      BY OpsTyped DEF OpsInv
    <3>2. CASE ops[x].con = c
      <4>1. \E k \in DOMAIN Answers : Answers[k][1] = x
        BY <3>1, <3>2 DEF Kept
      <4>2. ops[x].link <= link'[c]
        BY <3>1, <3>2, <1>1 DEF Kept
      <4>3. QED
        BY <3>2, <4>1, <4>2 DEF Kept
    <3>3. CASE ops[x].con # c
      BY <3>1, <3>3, <1>1 DEF Kept
    <3>4. QED
      BY <3>2, <3>3
  <2>2. \A d \in Con : conn'[d].up => link'[d] > 0
    BY <1>1, OpsTyped DEF OpsInv
  <2>3. QED
    BY <2>1, <2>2 DEF OpsInv
<1>5. QED
  BY <1>2, <1>3, <1>4

(***************************************************************************)
(* The steps                                                               *)
(***************************************************************************)

\* enqueue keeps the order, and says what it leaves alone.
LEMMA EnqueueKeeps ==
    ASSUME GattTypes, AnswerInv, QueueInv, OpsInv, ConnInv, NEW c \in Con, NEW k \in Kind,
           Enqueue(c, k), link' = link, told' \o batch' = told \o batch
    PROVE  /\ (AnswerInv /\ QueueInv /\ OpsInv)'
           /\ conn' \in [Con -> Client] /\ ready' \in Seq(Result) /\ ops' \in Seq(Op)
           /\ \A d \in Con : /\ conn'[d].up = conn[d].up /\ conn'[d].running = conn[d].running
                             /\ conn[d].queue # <<>> => conn'[d].queue # <<>>
                             /\ ~conn[d].up => conn'[d] = conn[d]
<1> DEFINE id == Len(ops) + 1
           o == [con |-> c, link |-> IF conn[c].up THEN link[c] ELSE 0, kind |-> k,
                 left |-> IF k = "discover" THEN Steps ELSE 0]
<1>1. o \in Op /\ ops' = Append(ops, o) /\ ops' \in Seq(Op) /\ id \in Nat
  <2>1. o \in Op
    BY OpsTyped, StepsAssumption DEF Op
  <2>2. QED
    BY <2>1, OpsTyped DEF Enqueue
<1>2. conn \in [Con -> Client] /\ ready \in Seq(Result) /\ conn[c].queue \in Seq(Nat)
  BY DEF GattTypes, Client
<1>3. CASE conn[c].up
  <2>1. ready' = ready /\ conn' = [conn EXCEPT ![c].queue = Append(@, id)]
    BY <1>3 DEF Enqueue
  <2>2. Append(conn[c].queue, id) \in Seq(Nat) /\ Append(conn[c].queue, id) # <<>>
    <3>1. id \in Nat
      BY <1>1
    <3> HIDE DEF id
    <3>2. /\ Append(conn[c].queue, id) \in Seq(Nat)
          /\ Len(Append(conn[c].queue, id)) = Len(conn[c].queue) + 1
      BY <3>1, <1>2, AppendProperties
    <3>3. Len(conn[c].queue) + 1 # 0
      BY <1>2
    <3>4. QED
      BY <3>2, <3>3
  <2>3. /\ conn' \in [Con -> Client] /\ conn'[c].queue = Append(conn[c].queue, id)
        /\ conn'[c].up = conn[c].up /\ conn'[c].running = conn[c].running
        /\ \A d \in Con \ {c} : conn'[d] = conn[d]
    BY <2>1, <2>2, <1>2 DEF Client
  <2>4. Answers' = Answers
    BY <2>1 DEF Answers
  <2>5. (AnswerInv /\ QueueInv /\ OpsInv)'
    BY <2>3, <2>4, <1>1, <1>3, QueuedLast
  <2>6. QED
    BY <2>1, <2>2, <2>3, <2>5, <1>1, <1>2, <1>3
<1>4. CASE ~conn[c].up
  <2>1. ready' = Append(ready, <<id, "gone">>) /\ conn' = conn
    BY <1>4 DEF Enqueue
  <2>2. <<id, "gone">> \in Result
    BY <1>1 DEF Result, Status
  <2>3. Answers' = Append(Answers, <<id, "gone">>)
    BY <2>1, <2>2, AnswersAfter DEF Answers
  <2>4. \A d \in Con : ~conn[d].up => conn[d].queue = <<>>
    BY DEF ConnInv, ConnOk, NoConn
  <2>5. (AnswerInv /\ QueueInv /\ OpsInv)'
    BY <2>1, <2>3, <2>4, <1>1, <1>4, AnsweredAtOnce
  <2>6. QED
    BY <2>1, <2>2, <2>5, <1>1, <1>2
<1>5. QED
  BY <1>3, <1>4

\* The first operation of a queue is over: what it does to the order, and
\* what it leaves alone.
LEMMA FrontKeeps ==
    ASSUME GattTypes, AnswerInv, QueueInv, OpsInv, NEW c \in Con, NEW st \in Status,
           conn[c].queue # <<>>, conn' \in [Con -> Client], conn'[c].queue = Tail(conn[c].queue),
           conn'[c].up = conn[c].up, \A d \in Con \ {c} : conn'[d] = conn[d],
           ready' = Append(ready, <<Head(conn[c].queue), st>>),
           ops' = ops, link' = link, told' = told, batch' = batch
    PROVE  (AnswerInv /\ QueueInv /\ OpsInv)' /\ ready' \in Seq(Result)
<1>1. conn[c].queue \in Seq(Nat) /\ Head(conn[c].queue) \in Nat /\ ready \in Seq(Result)
  BY OpsTyped DEF GattTypes
<1>2. <<Head(conn[c].queue), st>> \in Result
  BY <1>1 DEF Result
<1>3. ready' \in Seq(Result)
  BY <1>1, <1>2
<1>4. Answers' = Append(Answers, <<Head(conn[c].queue), st>>)
  BY <1>2, AnswersAfter DEF Answers
<1>5. SameOps
  BY DEF SameOps
<1>6. \A d \in Con : conn'[d].up = conn[d].up
  OBVIOUS
<1>7. (AnswerInv /\ QueueInv /\ OpsInv)'
  BY <1>4, <1>5, <1>6, FirstAnswered
<1>8. QED
  BY <1>3, <1>7

\* What changes neither the queues nor the answers keeps their order.
LEMMA OrderKept ==
    ASSUME GattTypes, AnswerInv, QueueInv, OpsInv, SameOps, link' = link,
           (told' \o batch') \o ready' = (told \o batch) \o ready,
           \A c \in Con : conn'[c].queue = conn[c].queue /\ conn'[c].up = conn[c].up
    PROVE  (AnswerInv /\ QueueInv /\ OpsInv)'
<1>1. Answers' = Answers
  BY DEF Answers
<1>2. QED
  BY <1>1, SameQueues

\* pump.
LEMMA PumpKeeps ==
    ASSUME GattInv, NEW c \in Con, Pump(c)
    PROVE  GattInv'
<1> USE DEF GattInv
<1>1. /\ at \in {"event", "pump"} /\ c \in visit /\ at' = at /\ batch' = batch
      /\ gattRetry' = gattRetry
      /\ link' = link /\ ops' = ops /\ told' = told
  BY DEF Pump
<1>2. SameOps
  BY <1>1 DEF SameOps
<1>3. conn \in [Con -> Client] /\ query \in [Con -> BOOLEAN] /\ conn[c] \in Client
  BY DEF GattTypes
<1>4. CASE ~MayStart(c)
  <2>1. visit' = visit \ {c} /\ conn' = conn /\ ready' = ready /\ query' = query
    BY <1>4 DEF Pump
  <2>2. GattTypes'
    BY <1>1, <2>1 DEF GattTypes
  <2>3. PlaceInv'
    BY <1>1, <2>1 DEF PlaceInv
  <2>4. ConnInv'
    BY <1>1, <2>1 DEF ConnInv, ConnOk
  <2>5. PumpInv'
    BY <1>1, <1>4, <2>1 DEF PumpInv, NothingLeftLying, MayStart
  <2>6. (AnswerInv /\ QueueInv /\ OpsInv)'
    BY <1>1, <1>2, <2>1, OrderKept
  <2>7. QED
    BY <2>2, <2>3, <2>4, <2>5, <2>6
<1>5. CASE MayStart(c) /\ StartBusy(c)
  <2>1. /\ visit' = visit \ {c} /\ conn' = [conn EXCEPT ![c].retry = TRUE] /\ ready' = ready
        /\ query' = query
    BY <1>5 DEF StartBusy
  <2>2. /\ conn' \in [Con -> Client] /\ conn'[c].retry = TRUE /\ conn'[c].up = conn[c].up
        /\ conn'[c].queue = conn[c].queue /\ conn'[c].running = conn[c].running
        /\ \A d \in Con \ {c} : conn'[d] = conn[d]
    BY <1>3, <2>1 DEF Client
  <2>3. GattTypes'
    BY <1>1, <2>1, <2>2 DEF GattTypes
  <2>4. PlaceInv'
    BY <1>1, <2>1 DEF PlaceInv
  <2>5. ConnInv'
    BY <1>5, <2>1, <2>2 DEF ConnInv, ConnOk, MayStart
  <2>6. PumpInv'
    BY <1>1, <2>1, <2>2 DEF PumpInv, NothingLeftLying, MayStart
  <2>7. (AnswerInv /\ QueueInv /\ OpsInv)'
    BY <1>1, <1>2, <2>1, <2>2, OrderKept
  <2>8. QED
    BY <2>3, <2>4, <2>5, <2>6, <2>7
<1>6. ASSUME MayStart(c), NEW st \in Status, visit' = visit, query' = query,
             conn' = [conn EXCEPT ![c].retry = FALSE, ![c].queue = Tail(@)],
             ready' = Append(ready, <<Head(conn[c].queue), st>>)
      PROVE  GattInv'
  <2>1. conn[c].queue # <<>> /\ conn[c].up = TRUE /\ conn[c].running = FALSE
    BY <1>6, <1>3 DEF MayStart, Client
  <2>2. conn[c].queue \in Seq(Nat) /\ Tail(conn[c].queue) \in Seq(Nat)
    BY <2>1, <1>3 DEF Client
  <2>3. /\ conn' \in [Con -> Client] /\ conn'[c].retry = FALSE /\ conn'[c].up = conn[c].up
        /\ conn'[c].queue = Tail(conn[c].queue) /\ conn'[c].running = conn[c].running
        /\ \A d \in Con \ {c} : conn'[d] = conn[d]
    BY <1>3, <1>6, <2>2 DEF Client
  <2>4. (AnswerInv /\ QueueInv /\ OpsInv)' /\ ready' \in Seq(Result)
    BY <1>1, <1>6, <2>1, <2>3, FrontKeeps
  <2>5. GattTypes'
    BY <1>1, <1>6, <2>3, <2>4 DEF GattTypes
  <2>6. PlaceInv'
    BY <1>1, <1>6 DEF PlaceInv
  <2>7. ConnInv'
    BY <1>6, <2>1, <2>3 DEF ConnInv, ConnOk
  <2>8. PumpInv'
    BY <1>1, <1>6, <2>3 DEF PumpInv, NothingLeftLying, MayStart
  <2>9. QED
    BY <2>4, <2>5, <2>6, <2>7, <2>8
<1>7. CASE MayStart(c) /\ StartFails(c)
  BY <1>6, <1>7 DEF StartFails, Status
<1>8. CASE MayStart(c) /\ StartRuns(c) /\ ops[Head(conn[c].queue)].kind = "barrier"
  BY <1>6, <1>8 DEF StartRuns, Status
<1>9. CASE MayStart(c) /\ StartRuns(c) /\ ops[Head(conn[c].queue)].kind # "barrier"
  <2>1. /\ visit' = visit \ {c} /\ ready' = ready /\ query' = [query EXCEPT ![c] = TRUE]
        /\ conn' = [conn EXCEPT ![c].retry = FALSE, ![c].running = TRUE]
    BY <1>9 DEF StartRuns
  <2>2. /\ conn' \in [Con -> Client] /\ conn'[c].running = TRUE /\ conn'[c].up = conn[c].up
        /\ conn'[c].queue = conn[c].queue
        /\ \A d \in Con \ {c} : conn'[d] = conn[d]
    BY <1>3, <2>1 DEF Client
  <2>3. query' \in [Con -> BOOLEAN] /\ query'[c] = TRUE /\ \A d \in Con \ {c} : query'[d] = query[d]
    BY <1>3, <2>1
  <2>4. GattTypes'
    BY <1>1, <2>1, <2>2, <2>3 DEF GattTypes
  <2>5. PlaceInv'
    BY <1>1, <2>1 DEF PlaceInv
  <2>6. ConnInv'
    BY ZenonT(40), <1>9, <2>2, <2>3 DEF ConnInv, ConnOk, MayStart
  <2>7. PumpInv'
    BY <1>1, <2>1, <2>2 DEF PumpInv, NothingLeftLying, MayStart
  <2>8. (AnswerInv /\ QueueInv /\ OpsInv)'
    BY <1>1, <1>2, <2>1, <2>2, OrderKept
  <2>9. QED
    BY <2>4, <2>5, <2>6, <2>7, <2>8
<1>10. QED
  BY <1>4, <1>5, <1>7, <1>8, <1>9 DEF Pump

\* An entry point that changes one connection's link.
LEMMA LinkKeeps ==
    ASSUME GattInv, NEW c \in Con, Attach(c) \/ Detach(c)
    PROVE  GattInv'
<1> USE DEF GattInv
<1>1. /\ at = "idle" /\ at' = "pump" /\ visit' = Con /\ batch' = batch /\ gattRetry' = gattRetry
      /\ ops' = ops /\ told' = told
  BY DEF Attach, Detach, Settle
<1>2. /\ conn \in [Con -> Client] /\ query \in [Con -> BOOLEAN] /\ link \in [Con -> Nat]
      /\ ready \in Seq(Result) /\ NoConn \in Client /\ [NoConn EXCEPT !.up = TRUE] \in Client
  <2>1. NoConn \in Client
    BY DEF NoConn, Client
  <2>2. [NoConn EXCEPT !.up = TRUE] \in Client
    BY <2>1 DEF Client
  <2>3. QED
    BY <2>1, <2>2 DEF GattTypes
<1>3. PlaceInv'
  BY <1>1 DEF PlaceInv
<1>4. PumpInv'
  BY <1>1 DEF PumpInv, NothingLeftLying
<1>5. CASE Attach(c)
  <2>1. /\ link' = [link EXCEPT ![c] = @ + 1] /\ ~conn[c].up /\ ready' = ready /\ query' = query
        /\ conn' = [conn EXCEPT ![c] = [NoConn EXCEPT !.up = TRUE]]
    BY <1>5 DEF Attach
  <2>2. conn' \in [Con -> Client] /\ conn'[c] = [NoConn EXCEPT !.up = TRUE]
        /\ \A d \in Con \ {c} : conn'[d] = conn[d]
    BY <1>2, <2>1
  <2>3. link' \in [Con -> Nat]
    BY <1>2, <2>1
  <2>4. GattTypes'
    BY <1>1, <2>1, <2>2, <2>3 DEF GattTypes
  <2>5. ConnInv'
    BY <2>1, <2>2 DEF ConnInv, ConnOk, NoConn
  <2>6. Answers' = Answers
    BY <1>1, <2>1 DEF Answers
  <2>7. (AnswerInv /\ QueueInv /\ OpsInv)'
    BY <1>1, <2>1, <2>6, NewLink
  <2>8. QED
    BY <1>3, <1>4, <2>4, <2>5, <2>7
<1>6. CASE Detach(c)
  <2>1. /\ ready' = ready \o AllWith(conn[c].queue, "gone")
        /\ conn' = [conn EXCEPT ![c] = NoConn]
        /\ query' = [query EXCEPT ![c] = FALSE] /\ link' = link
    BY <1>6 DEF Detach
  <2>2. conn' \in [Con -> Client] /\ conn'[c] = NoConn /\ \A d \in Con \ {c} : conn'[d] = conn[d]
    BY <1>2, <2>1
  <2>3. query' \in [Con -> BOOLEAN] /\ query'[c] = FALSE /\ \A d \in Con \ {c} : query'[d] = query[d]
    BY <1>2, <2>1
  <2>4. AllWith(conn[c].queue, "gone") \in Seq(Result)
    BY AllWithTyped
  <2>5. ready' \in Seq(Result) /\ Answers' = Answers \o AllWith(conn[c].queue, "gone")
    BY <1>1, <1>2, <2>1, <2>4, AnswersAfter, ConcatProperties DEF Answers
  <2>6. GattTypes'
    BY <1>1, <2>1, <2>2, <2>3, <2>5 DEF GattTypes
  <2>7. ConnInv'
    <3>1. NoConn.running = FALSE
      BY DEF NoConn
    <3>2. QED
      BY <2>2, <2>3, <3>1 DEF ConnInv, ConnOk
  <2>8. (AnswerInv /\ QueueInv /\ OpsInv)'
    BY <1>1, <2>1, <2>5, AllAnsweredGone
  <2>9. QED
    BY <1>3, <1>4, <2>6, <2>7, <2>8
<1>7. QED
  BY <1>5, <1>6

\* on_event: a query of BTstack is complete.
LEMMA CompleteKeeps ==
    ASSUME GattInv, NEW c \in Con, OnQueryComplete(c)
    PROVE  GattInv'
<1> USE DEF GattInv
<1>1. /\ at = "idle" /\ query[c] /\ batch' = batch /\ gattRetry' = gattRetry /\ link' = link
      /\ told' = told
  BY DEF OnQueryComplete
<1>2. conn \in [Con -> Client] /\ query \in [Con -> BOOLEAN] /\ conn[c] \in Client
  BY DEF GattTypes
<1>3. conn[c].queue # <<>> /\ conn[c].running /\ conn[c].up /\ ConnOk(c)
  <2>1. ConnOk(c) /\ NoConn.running = FALSE
    BY DEF ConnInv, NoConn
  <2>2. conn[c].running = TRUE
    BY <1>1, <1>2, <2>1 DEF ConnOk
  <2>3. QED
    BY <2>1, <2>2 DEF ConnOk
<1> DEFINE op == Head(conn[c].queue)
<1>4. CASE /\ ops[op].left > 0 /\ ops' = [ops EXCEPT ![op].left = @ - 1]
           /\ at' = "pump" /\ visit' = Con /\ conn' = conn /\ ready' = ready /\ query' = query
  <2>1. op \in DOMAIN ops
    <3>1. conn[c].queue \in Seq(Nat) /\ op = conn[c].queue[1] /\ 1 \in DOMAIN conn[c].queue
      BY <1>2, <1>3 DEF Client
    <3>2. Waits(c, 1)
      BY <3>1 DEF QueueInv
    <3>3. QED
      BY <3>1, <3>2 DEF Waits
  <2> HIDE DEF op
  <2>2. ops \in Seq(Op) /\ DOMAIN ops = 1 .. Len(ops) /\ Len(ops) \in Nat /\ ops[op] \in Op
    BY <2>1, OpsTyped
  <2>3. /\ [ops[op] EXCEPT !.left = @ - 1] \in Op
        /\ [ops[op] EXCEPT !.left = @ - 1].con = ops[op].con
        /\ [ops[op] EXCEPT !.left = @ - 1].link = ops[op].link
    BY <2>2 DEF Op
  <2>4. ops' = [ops EXCEPT ![op] = [ops[op] EXCEPT !.left = @ - 1]]
    BY <1>4
  <2>5. ops' \in Seq(Op)
    BY <2>1, <2>2, <2>3, <2>4, ExceptSeq
  <2>6. SameOps
    BY <2>1, <2>2, <2>3, <2>4 DEF SameOps
  <2>7. GattTypes'
    BY <1>1, <1>4, <2>5 DEF GattTypes
  <2>8. PlaceInv' /\ ConnInv' /\ PumpInv'
    BY <1>1, <1>4 DEF PlaceInv, ConnInv, ConnOk, PumpInv, NothingLeftLying
  <2>9. (AnswerInv /\ QueueInv /\ OpsInv)'
    BY <1>1, <1>4, <2>6, OrderKept
  <2>10. QED
    BY <2>7, <2>8, <2>9
<1>5. ASSUME NEW st \in Status, query' = [query EXCEPT ![c] = FALSE], Completes(c, st), ops' = ops
      PROVE  GattInv'
  <2>1. /\ conn' = [conn EXCEPT ![c].running = FALSE, ![c].queue = Tail(@)]
        /\ ready' = Append(ready, <<Head(conn[c].queue), st>>)
        /\ at' = "event" /\ visit' = {c}
    BY <1>5 DEF Completes
  <2>2. conn[c].queue \in Seq(Nat) /\ Tail(conn[c].queue) \in Seq(Nat)
    BY <1>2, <1>3 DEF Client
  <2>3. /\ conn' \in [Con -> Client] /\ conn'[c].running = FALSE /\ conn'[c].up = conn[c].up
        /\ conn'[c].queue = Tail(conn[c].queue)
        /\ \A d \in Con \ {c} : conn'[d] = conn[d]
    BY <1>2, <2>1, <2>2 DEF Client
  <2>4. query' \in [Con -> BOOLEAN] /\ query'[c] = FALSE /\ \A d \in Con \ {c} : query'[d] = query[d]
    BY <1>2, <1>5
  <2>5. (AnswerInv /\ QueueInv /\ OpsInv)' /\ ready' \in Seq(Result)
    BY <1>1, <1>3, <1>5, <2>1, <2>3, FrontKeeps
  <2>6. GattTypes'
    BY <1>1, <1>5, <2>1, <2>3, <2>4, <2>5 DEF GattTypes
  <2>7. PlaceInv' /\ PumpInv'
    BY <1>1, <2>1 DEF PlaceInv, PumpInv, NothingLeftLying
  <2>8. ConnInv'
    BY ZenonT(40), <1>3, <2>3, <2>4 DEF ConnInv, ConnOk
  <2>9. QED
    BY <2>5, <2>6, <2>7, <2>8
<1>6. QED
  BY <1>4, <1>5 DEF OnQueryComplete, Status

\* enqueue from a job or an event.
LEMMA RequestKeeps ==
    ASSUME GattInv, NEW c \in Con, NEW k \in Kind, Request(c, k)
    PROVE  GattInv'
<1> USE DEF GattInv
<1>1. /\ at = "idle" /\ at' = "pump" /\ visit' = Con /\ batch' = batch /\ gattRetry' = gattRetry
      /\ link' = link /\ told' = told /\ query' = query /\ Enqueue(c, k)
  BY DEF Request, Settle
<1>2. /\ (AnswerInv /\ QueueInv /\ OpsInv)'
      /\ conn' \in [Con -> Client] /\ ready' \in Seq(Result) /\ ops' \in Seq(Op)
      /\ \A d \in Con : /\ conn'[d].up = conn[d].up /\ conn'[d].running = conn[d].running
                        /\ conn[d].queue # <<>> => conn'[d].queue # <<>>
                        /\ ~conn[d].up => conn'[d] = conn[d]
  BY <1>1, EnqueueKeeps
<1>3. GattTypes'
  BY <1>1, <1>2 DEF GattTypes
<1>4. PlaceInv' /\ PumpInv'
  BY <1>1 DEF PlaceInv, PumpInv, NothingLeftLying
<1>5. ConnInv'
  BY <1>1, <1>2 DEF ConnInv, ConnOk
<1>6. QED
  BY <1>2, <1>3, <1>4, <1>5

\* Completion::run, and what the callback queues.
LEMMA CallbackKeeps ==
    ASSUME GattInv, RunCallback
    PROVE  GattInv'
<1> USE DEF GattInv
<1>1. /\ at = "run" /\ batch # <<>> /\ told' = Append(told, Head(batch)) /\ batch' = Tail(batch)
      /\ at' = at /\ visit' = visit /\ gattRetry' = gattRetry /\ link' = link /\ query' = query
  BY DEF RunCallback
<1>2. told' \in Seq(Result) /\ batch' \in Seq(Result)
  <2>1. told \in Seq(Result) /\ batch \in Seq(Result)
    BY DEF GattTypes
  <2>2. Head(batch) \in Result /\ Tail(batch) \in Seq(Result)
    BY <1>1, <2>1
  <2>3. QED
    BY <1>1, <2>1, <2>2
<1>3. told' \o batch' = told \o batch
  BY <1>1, AnswersAfter
<1>4. PlaceInv' /\ PumpInv'
  BY <1>1 DEF PlaceInv, PumpInv, NothingLeftLying
<1>5. CASE UNCHANGED <<conn, ready, ops>>
  <2>1. SameOps
    BY <1>5 DEF SameOps
  <2>2. (AnswerInv /\ QueueInv /\ OpsInv)'
    BY <1>1, <1>3, <1>5, <2>1, OrderKept
  <2>3. GattTypes'
    BY <1>1, <1>2, <1>5 DEF GattTypes
  <2>4. ConnInv'
    BY <1>1, <1>5 DEF ConnInv, ConnOk
  <2>5. QED
    BY <1>4, <2>2, <2>3, <2>4
<1>6. ASSUME NEW c \in Con, NEW k \in Kind, Enqueue(c, k) PROVE GattInv'
  <2>1. /\ (AnswerInv /\ QueueInv /\ OpsInv)'
        /\ conn' \in [Con -> Client] /\ ready' \in Seq(Result) /\ ops' \in Seq(Op)
        /\ \A d \in Con : /\ conn'[d].up = conn[d].up /\ conn'[d].running = conn[d].running
                          /\ conn[d].queue # <<>> => conn'[d].queue # <<>>
                          /\ ~conn[d].up => conn'[d] = conn[d]
    BY <1>1, <1>3, <1>6, EnqueueKeeps
  <2>2. GattTypes'
    BY <1>1, <1>2, <2>1 DEF GattTypes
  <2>3. ConnInv'
    BY <1>1, <2>1 DEF ConnInv, ConnOk
  <2>4. QED
    BY <1>4, <2>1, <2>2, <2>3
<1>7. QED
  BY <1>5, <1>6 DEF RunCallback

\* The other steps of settle.
LEMMA SettleKeeps ==
    ASSUME GattInv, TakeReady \/ RunOver \/ RetryTimer \/ UNCHANGED gattVars
    PROVE  GattInv'
<1> USE DEF GattInv
<1>1. conn' = conn /\ query' = query /\ link' = link /\ ops' = ops /\ told' = told
  BY DEF TakeReady, RunOver, RetryTimer, gattVars
<1>2. SameOps
  BY <1>1 DEF SameOps
<1>3. ConnInv'
  BY <1>1 DEF ConnInv, ConnOk
<1>4. CASE /\ batch' = batch /\ ready' = ready /\ gattRetry' \in BOOLEAN
           /\ visit' \in SUBSET Con /\ PlaceInv' /\ PumpInv'
  <2>1. GattTypes'
    BY <1>1, <1>4 DEF GattTypes
  <2>2. (AnswerInv /\ QueueInv /\ OpsInv)'
    BY <1>1, <1>2, <1>4, OrderKept
  <2>3. QED
    BY <1>3, <1>4, <2>1, <2>2
<1>5. CASE TakeReady
  <2>1. at \in {"event", "pump"} /\ visit = {} /\ batch = <<>>
    BY <1>5 DEF TakeReady, PlaceInv
  <2>2. CASE at = "event"
    <3>1. /\ at' = "pump" /\ visit' = Con /\ batch' = batch /\ ready' = ready
          /\ gattRetry' = gattRetry
      BY <1>5, <2>2 DEF TakeReady
    <3>2. PlaceInv' /\ PumpInv'
      BY <2>1, <3>1 DEF PlaceInv, PumpInv, NothingLeftLying
    <3>3. QED
      BY <1>4, <3>1, <3>2 DEF GattTypes
  <2>3. CASE at = "pump" /\ ready # <<>>
    <3>1. /\ at' = "run" /\ batch' = ready /\ ready' = <<>> /\ visit' = visit
          /\ gattRetry' = gattRetry
      BY <1>5, <2>3 DEF TakeReady
    <3>2. PlaceInv' /\ PumpInv'
      BY <2>1, <3>1 DEF PlaceInv, PumpInv, NothingLeftLying
    <3>3. ready \in Seq(Result) /\ ready' \in Seq(Result)
      BY <3>1 DEF GattTypes
    <3>4. GattTypes'
      BY <1>1, <3>1, <3>3 DEF GattTypes
    <3>5. (told' \o batch') \o ready' = (told \o batch) \o ready
      BY <1>1, <2>1, <3>1, AnswersAfter DEF Answers
    <3>6. (AnswerInv /\ QueueInv /\ OpsInv)'
      BY <1>1, <1>2, <3>5, OrderKept
    <3>7. QED
      BY <1>3, <3>2, <3>4, <3>6
  <2>4. CASE at = "pump" /\ ready = <<>>
    <3>1. /\ at' = "idle" /\ visit' = visit /\ batch' = batch /\ ready' = ready
          /\ gattRetry' = (gattRetry \/ \E c \in Con : conn[c].retry /\ conn[c].queue # <<>>)
      BY <1>5, <2>4 DEF TakeReady
    <3>2. PlaceInv'
      BY <2>1, <2>4, <3>1 DEF PlaceInv
    <3>3. PumpInv'
      BY <1>1, <2>1, <2>4, <3>1 DEF PumpInv, NothingLeftLying, MayStart
    <3>4. QED
      BY <1>4, <3>1, <3>2, <3>3 DEF GattTypes
  <2>5. QED
    BY <2>1, <2>2, <2>3, <2>4
<1>6. CASE RunOver \/ RetryTimer
  <2>1. /\ at' = "pump" /\ visit' = Con /\ batch' = batch /\ ready' = ready
        /\ gattRetry' \in BOOLEAN /\ batch = <<>>
    BY <1>6 DEF RunOver, RetryTimer, Settle, PlaceInv, GattTypes
  <2>2. PlaceInv' /\ PumpInv'
    BY <2>1 DEF PlaceInv, PumpInv, NothingLeftLying
  <2>3. QED
    BY <1>4, <2>1, <2>2
<1>7. CASE UNCHANGED gattVars
  <2>1. at' = at /\ visit' = visit /\ batch' = batch /\ ready' = ready /\ gattRetry' = gattRetry
    BY <1>7 DEF gattVars
  <2>2. PlaceInv' /\ PumpInv'
    BY <1>1, <2>1 DEF PlaceInv, PumpInv, NothingLeftLying, MayStart
  <2>3. QED
    BY <1>4, <2>1, <2>2 DEF GattTypes
<1>8. QED
  BY <1>5, <1>6, <1>7

\* Nothing is queued and nothing answered at first.
LEMMA GattInitInv == GattInit => GattInv
<1> SUFFICES ASSUME GattInit PROVE GattInv
  OBVIOUS
<1>1. /\ conn = [c \in Con |-> NoConn] /\ query = [c \in Con |-> FALSE]
      /\ link = [c \in Con |-> 0]
      /\ ready = <<>> /\ batch = <<>> /\ told = <<>> /\ ops = <<>>
      /\ at = "idle" /\ visit = {} /\ gattRetry = FALSE
  BY DEF GattInit
<1>2. NoConn \in Client /\ NoConn.queue = <<>> /\ NoConn.running = FALSE /\ NoConn.up = FALSE
  BY DEF NoConn, Client
<1>3. GattTypes
  <2>1. conn \in [Con -> Client] /\ query \in [Con -> BOOLEAN] /\ link \in [Con -> Nat]
    BY <1>1, <1>2
  <2>2. /\ told \in Seq(Result) /\ batch \in Seq(Result) /\ ready \in Seq(Result)
        /\ ops \in Seq(Op)
    BY <1>1
  <2>3. QED
    BY <1>1, <2>1, <2>2 DEF GattTypes
<1>4. PlaceInv
  BY <1>1 DEF PlaceInv
<1>5. ConnInv
  BY <1>1, <1>2 DEF ConnInv, ConnOk
<1>6. PumpInv
  BY <1>1, <1>2 DEF PumpInv, NothingLeftLying
<1>7. Answers = <<>>
  BY <1>1 DEF Answers
<1>8. AnswerInv
  BY <1>7 DEF AnswerInv
<1>9. QueueInv
  BY <1>1, <1>2 DEF QueueInv
<1>10. OpsInv
  BY <1>1, <1>2 DEF OpsInv
<1>11. QED
  BY <1>3, <1>4, <1>5, <1>6, <1>8, <1>9, <1>10 DEF GattInv

\* The answers, one by one: those whose callback has run come first.
LEMMA AnswersAre ==
    ASSUME GattTypes
    PROVE  /\ Len(Answers) = Len(told) + Len(batch) + Len(ready)
           /\ \A i \in DOMAIN told : i \in DOMAIN Answers /\ Answers[i] = told[i]
           /\ Finished = {Answers[k][1] : k \in DOMAIN Answers}
<1> DEFINE a == Len(told)
           b == Len(batch)
           d == Len(ready)
<1>1. /\ told \in Seq(Result) /\ batch \in Seq(Result) /\ ready \in Seq(Result)
      /\ a \in Nat /\ b \in Nat /\ d \in Nat
      /\ DOMAIN told = 1 .. a /\ DOMAIN batch = 1 .. b /\ DOMAIN ready = 1 .. d
  BY DEF GattTypes
<1> DEFINE tb == told \o batch
<1>2. /\ tb \in Seq(Result) /\ Len(tb) = a + b
      /\ \A i \in 1 .. a + b : tb[i] = IF i <= a THEN told[i] ELSE batch[i - a]
  BY <1>1, ConcatProperties
<1>3. Answers = tb \o ready
  BY DEF Answers
<1> HIDE DEF tb
<1>4. /\ tb \o ready \in Seq(Result) /\ Len(tb \o ready) = Len(tb) + d
      /\ \A i \in 1 .. Len(tb) + d : (tb \o ready)[i] = IF i <= Len(tb) THEN tb[i] ELSE ready[i - Len(tb)]
  <2>1. tb \in Seq(Result) /\ ready \in Seq(Result)
    BY <1>1, <1>2
  <2>2. QED
    BY <2>1, ConcatProperties
<1> HIDE DEF a, b, d
<1>5. /\ Answers \in Seq(Result) /\ Len(Answers) = (a + b) + d
      /\ DOMAIN Answers = 1 .. (a + b) + d
      /\ \A i \in 1 .. (a + b) + d : Answers[i] = IF i <= a + b THEN tb[i] ELSE ready[i - (a + b)]
  BY <1>1, <1>2, <1>3, <1>4
<1>6. \A i \in 1 .. a : i \in DOMAIN Answers /\ Answers[i] = told[i]
  <2>1. SUFFICES ASSUME NEW i \in 1 .. a PROVE i \in DOMAIN Answers /\ Answers[i] = told[i]
    OBVIOUS
  <2>2. i \in 1 .. a + b /\ i \in 1 .. (a + b) + d /\ i <= a /\ i <= a + b
    BY <1>1
  <2>3. QED
    BY <2>2, <1>2, <1>5
<1>7. \A i \in 1 .. b : a + i \in DOMAIN Answers /\ Answers[a + i] = batch[i]
  <2>1. SUFFICES ASSUME NEW i \in 1 .. b PROVE a + i \in DOMAIN Answers /\ Answers[a + i] = batch[i]
    OBVIOUS
  <2>2. /\ a + i \in 1 .. a + b /\ a + i \in 1 .. (a + b) + d /\ ~(a + i <= a) /\ a + i <= a + b
        /\ (a + i) - a = i
    BY <1>1
  <2>3. QED
    BY <2>2, <1>2, <1>5
<1>8. \A i \in 1 .. d : (a + b) + i \in DOMAIN Answers /\ Answers[(a + b) + i] = ready[i]
  <2>1. SUFFICES ASSUME NEW i \in 1 .. d PROVE (a + b) + i \in DOMAIN Answers /\ Answers[(a + b) + i] = ready[i]
    OBVIOUS
  <2>2. /\ (a + b) + i \in 1 .. (a + b) + d /\ ~((a + b) + i <= a + b)
        /\ ((a + b) + i) - (a + b) = i
    BY <1>1
  <2>3. QED
    BY <2>2, <1>5
<1>9. \A k \in 1 .. (a + b) + d :
         \/ k \in 1 .. a
         \/ \E i \in 1 .. b : k = a + i
         \/ \E i \in 1 .. d : k = (a + b) + i
  <2>1. SUFFICES ASSUME NEW k \in 1 .. (a + b) + d
                 PROVE  \/ k \in 1 .. a
                        \/ \E i \in 1 .. b : k = a + i
                        \/ \E i \in 1 .. d : k = (a + b) + i
    OBVIOUS
  <2>2. k \in 1 .. a \/ k - a \in 1 .. b \/ k - (a + b) \in 1 .. d
    BY <1>1
  <2>3. k = a + (k - a) /\ k = (a + b) + (k - (a + b))
    BY <1>1
  <2>4. QED
    BY <2>2, <2>3
<1>10. Finished \subseteq {Answers[k][1] : k \in DOMAIN Answers}
  BY <1>1, <1>6, <1>7, <1>8 DEF Finished
<1>11. ASSUME NEW k \in DOMAIN Answers PROVE Answers[k][1] \in Finished
  <2>1. CASE k \in 1 .. a
    BY <2>1, <1>1, <1>6 DEF Finished
  <2>2. ASSUME NEW i \in 1 .. b, k = a + i PROVE Answers[k][1] \in Finished
    BY <2>2, <1>1, <1>7 DEF Finished
  <2>3. ASSUME NEW i \in 1 .. d, k = (a + b) + i PROVE Answers[k][1] \in Finished
    BY <2>3, <1>1, <1>8 DEF Finished
  <2>4. QED
    BY <2>1, <2>2, <2>3, <1>5, <1>9
<1>12. QED
  BY <1>1, <1>5, <1>6, <1>10, <1>11 DEF a, b, d

\* The invariant says what GattSafe says.
LEMMA GattInvSafe == GattInv => GattSafe
<1> SUFFICES ASSUME GattInv PROVE GattSafe
  OBVIOUS
<1> USE DEF GattInv
<1>1. GattTypeOK /\ OneQuery /\ NothingLeftLying
  BY DEF GattTypes, PlaceInv, ConnInv, ConnOk, PumpInv, GattTypeOK, OneQuery
<1>2. AnsweredInOrder
  BY AnswersAre DEF AnswerInv, Before, AnsweredInOrder
<1> DEFINE n == Len(Answers)
           f == [k \in 1 .. n |-> Answers[k][1]]
<1>3. n \in Nat /\ DOMAIN Answers = 1 .. n
  BY OpsTyped
<1>4. Finished = {Answers[k][1] : k \in 1 .. n}
  BY <1>3, AnswersAre
<1>5. f \in Bijection(1 .. n, Finished)
  <2>1. f \in [1 .. n -> Finished]
    BY <1>4
  <2>2. \A i, j \in 1 .. n : i # j => f[i] # f[j]
    <3>1. \A i, j \in 1 .. n : i < j => Answers[i][1] # Answers[j][1]
      BY <1>3 DEF AnswerInv, Before
    <3> HIDE DEF n
    <3>2. \A i, j \in 1 .. n : i # j => i < j \/ j < i
      BY <1>3
    <3>3. QED
      BY <3>1, <3>2
  <2>3. \A x \in Finished : \E k \in 1 .. n : f[k] = x
    BY <1>4
  <2>4. QED
    BY <2>1, <2>2, <2>3 DEF Bijection, Injection, Surjection, IsInjective
<1>6. Cardinality(Finished) = n
  <2>1. IsFiniteSet(1 .. n) /\ Cardinality(1 .. n) = n
    <3> HIDE DEF n
    <3>1. IsFiniteSet(1 .. n) /\ Cardinality(1 .. n) = IF 1 > n THEN 0 ELSE n - 1 + 1
      BY <1>3, FS_Interval
    <3>2. QED
      BY <1>3, <3>1
  <2>2. ExistsBijection(1 .. n, Finished)
    BY <1>5 DEF ExistsBijection
  <2>3. QED
    BY <2>1, <2>2, FS_Bijection
<1>7. ASSUME NEW op \in DOMAIN ops
      PROVE  \/ op \in Finished
             \/ /\ conn[ops[op].con].up
                /\ ops[op].link = link[ops[op].con]
                /\ Contains(conn[ops[op].con].queue, op)
  <2>1. Kept(op) /\ ops[op].con \in Con
    BY OpsTyped DEF OpsInv
  <2>2. DOMAIN conn[ops[op].con].queue = 1 .. Len(conn[ops[op].con].queue)
    BY <2>1, OpsTyped
  <2>3. QED
    BY <2>1, <2>2, <1>3, <1>4 DEF Kept, Contains
<1>8. AnsweredOnce
  BY <1>6, <1>7, AnswersAre DEF AnsweredOnce
<1>9. QED
  BY <1>1, <1>2, <1>8 DEF GattSafe

\* The queue of GATT operations is safe, for every number of connections and
\* operations and whatever order BTstack, the links and the callbacks come in:
\* an operation is answered once, in its order within its link, also when the
\* link goes down under it (gatt_client.rs, enqueue, pump, complete_front and
\* detach; core.rs, settle).
THEOREM GattSafeAlways == GattSpec => []GattSafe
<1>1. GattInit => GattInv
  BY GattInitInv
<1>2. GattInv /\ [GattNext]_gattVars => GattInv'
  <2> SUFFICES ASSUME GattInv, [GattNext]_gattVars PROVE GattInv'
    OBVIOUS
  <2>1. ASSUME NEW c \in Con, Pump(c) PROVE GattInv'
    BY <2>1, PumpKeeps
  <2>2. ASSUME NEW c \in Con, Attach(c) \/ Detach(c) PROVE GattInv'
    BY <2>2, LinkKeeps
  <2>3. ASSUME NEW c \in Con, OnQueryComplete(c) PROVE GattInv'
    BY <2>3, CompleteKeeps
  <2>4. ASSUME NEW c \in Con, NEW k \in Kind, Request(c, k) PROVE GattInv'
    BY <2>4, RequestKeeps
  <2>5. CASE RunCallback
    BY <2>5, CallbackKeeps
  <2>6. CASE TakeReady \/ RunOver \/ RetryTimer \/ UNCHANGED gattVars
    BY <2>6, SettleKeeps
  <2>7. QED
    BY <2>1, <2>2, <2>3, <2>4, <2>5, <2>6 DEF GattNext
<1>3. GattInv => GattSafe
  BY GattInvSafe
<1>4. QED
  BY <1>1, <1>2, <1>3, PTL DEF GattSpec

-----------------------------------------------------------------------------
(* The SDUs of a stream (IsoSend) *)

\* The round after `rounds` may start `t` milliseconds into the stream
Allowed(rounds, t) == (rounds + 1 - Lead) * Frame <= 2 * t + 1

JitterType ==
    [sets : Seq(1..MaxSets), spares : Nat, buffering : BOOLEAN, prefill : Nat, most : Nat]

CtlType == [asked : BOOLEAN, tell : SUBSET LeCis, queued : [LeCis -> 0..QueueDepth]]

SndType ==
    [sending : BOOLEAN, seq : [LeCis -> Nat], alive : [LeCis -> BOOLEAN],
     served : [LeCis -> BOOLEAN], open : BOOLEAN, current : None..MaxSets,
     rounds : Nat, t0 : Nat \cup {None}, timer : Nat \cup {None}]

IsoTypes ==
    /\ jitter \in JitterType
    /\ jitter.prefill \in 1..jitter.most
    /\ encoding \in 0..MaxSets /\ encoded \in 0..MaxSets
    /\ snd \in SndType
    /\ ctl \in CtlType
    /\ ms \in 0..MaxMs
    /\ heard \in [LeCis -> 0..MaxSets]

\* Every set of the pool is somewhere
PoolInv ==
    /\ Len(jitter.sets) <= Capacity
    /\ jitter.spares + Len(jitter.sets) + (IF encoding = 0 THEN 0 ELSE 1)
         + (IF snd.current = None THEN 0 ELSE 1) = Capacity + SpareExtra

\* What a stream that is sending waits for: room, the first CIS of a round,
\* the CIS the round still owes their SDU, or the guard's timer
Asked == ctl.asked /\ ctl.tell = {} /\ snd.timer = None /\ ~snd.open
Told == ~ctl.asked /\ ctl.tell = LeCis /\ snd.timer = None /\ ~snd.open
InRound ==
    /\ ~ctl.asked /\ snd.timer = None /\ snd.open
    /\ ctl.tell # {}
    /\ \A c \in LeCis : snd.served[c] <=> c \notin ctl.tell
    /\ \A c \in ctl.tell, d \in LeCis : c < d => d \in ctl.tell
Paced == ~ctl.asked /\ ctl.tell = {} /\ snd.timer # None /\ ~snd.open

RoundInv ==
    /\ snd.sending => /\ snd.t0 # None
                      /\ \A c \in LeCis : snd.alive[c]
                      /\ Asked \/ Told \/ InRound \/ Paced
    /\ ~snd.sending => snd.current = None /\ snd.timer = None
    /\ snd.t0 = None => snd.rounds = 0 /\ ~ctl.asked /\ ctl.tell = {}
    /\ \A c \in ctl.tell : ctl.queued[c] < QueueDepth

\* The guard: the next round is due when it is asked for
GuardInv ==
    /\ snd.t0 # None => snd.t0 <= ms /\ NotTooFarAhead
    /\ snd.sending /\ (Asked \/ Told) => Allowed(snd.rounds, ms - snd.t0)
    /\ snd.timer # None => snd.t0 # None /\ Allowed(snd.rounds, snd.timer - snd.t0)

\* Where the sets of audio are, newest first: being encoded, in the buffer,
\* in the round, heard
Ordered(sets, current, last) ==
    /\ \A i \in 1..Len(sets) :
          /\ sets[i] <= encoded
          /\ encoding # 0 => sets[i] < encoding
          /\ current < sets[i]
          /\ \A j \in 1..Len(sets) : i < j => sets[i] < sets[j]
          /\ \A c \in LeCis : last[c] < sets[i]
    /\ current <= encoded
    /\ encoding # 0 => current < encoding
    /\ \A c \in LeCis : last[c] <= encoded /\ (encoding # 0 => last[c] < encoding)

OrderInv ==
    /\ encoding \in {0, encoded}
    /\ Ordered(jitter.sets, snd.current, heard)
    /\ \A c \in LeCis : snd.open /\ ~snd.served[c] /\ snd.current > 0 => heard[c] < snd.current

\* What a step may do to the audio on its way to one CIS
Flow(c) ==
    \/ /\ encoded' = encoded + 1 /\ heard'[c] = heard[c]
       /\ OnItsWay(c)' \in {OnItsWay(c), OnItsWay(c) \cup {encoded + 1}}
    \/ encoded' = encoded /\ heard'[c] = heard[c] /\ OnItsWay(c)' \subseteq OnItsWay(c)
    \/ /\ encoded' = encoded
       /\ \E u \in OnItsWay(c) :
             u > heard[c] /\ heard'[c] = u /\ OnItsWay(c)' \subseteq {w \in OnItsWay(c) : w > u}

IsoInv == IsoTypes /\ PoolInv /\ RoundInv /\ InStep /\ GuardInv /\ OrderInv

-----------------------------------------------------------------------------
(* Arithmetic *)

\* The least element of a set of naturals
LEMMA Least ==
    ASSUME NEW T, T \subseteq Nat, T # {}
    PROVE  \E x \in T : \A y \in T : x <= y
<1>1. IsWellFoundedOn(OpToRel(<, Nat), Nat)
  BY NatLessThanWellFounded
<1>2. PICK x \in T : \A y \in T : ~ (<<y, x>> \in OpToRel(<, Nat))
  BY <1>1, WFMin, Zenon
<1>3. \A y \in T : ~ (y < x)
  BY <1>2 DEF OpToRel
<1>4. QED
  BY <1>3

\* The larger and the smaller of two numbers
LEMMA OfTwo ==
    ASSUME NEW a \in Int, NEW b \in Int
    PROVE  /\ Max({a, b}) = (IF a >= b THEN a ELSE b)
           /\ Min({a, b}) = (IF a <= b THEN a ELSE b)
<1>1. Max({a, b}) = (IF a >= b THEN a ELSE b)
  <2> DEFINE m == IF a >= b THEN a ELSE b
  <2>1. m \in {a, b} /\ \A y \in {a, b} : m >= y
    OBVIOUS
  <2>2. \A x \in {a, b} : (\A y \in {a, b} : x >= y) => x = m
    OBVIOUS
  <2>3. QED
    BY <2>1, <2>2 DEF Max
<1>2. Min({a, b}) = (IF a <= b THEN a ELSE b)
  <2> DEFINE m == IF a <= b THEN a ELSE b
  <2>1. m \in {a, b} /\ \A y \in {a, b} : m <= y
    OBVIOUS
  <2>2. \A x \in {a, b} : (\A y \in {a, b} : x <= y) => x = m
    OBVIOUS
  <2>3. QED
    BY <2>1, <2>2 DEF Min
<1>3. QED
  BY <1>1, <1>2

\* The first of the CIS that are told
LEMMA FirstTold ==
    ASSUME NEW T, T \subseteq LeCis, T # {}
    PROVE  Min(T) \in T /\ \A d \in T : Min(T) <= d
<1>1. T \subseteq Nat
  BY IsoConstants DEF LeCis
<1>2. \E x \in T : \A y \in T : x <= y
  BY <1>1, Least
<1>3. QED
  BY <1>2 DEF Min

\* The depth of a queue fits the controller's buffers.
LEMMA IsoSizes ==
    /\ QueueDepth \in Nat \ {0} /\ Lead \in Nat
    /\ IsoPackets >= NumCis => NumCis * QueueDepth <= IsoPackets
    /\ 1 \in LeCis /\ NumCis \in LeCis /\ LeCis \subseteq Nat
<1> DEFINE each == IsoPackets \div NumCis
<1>1. each \in Nat /\ NumCis * each <= IsoPackets /\ (IsoPackets >= NumCis => each >= 1)
  BY IsoConstants
<1> DEFINE least == IF each <= QueueMax THEN each ELSE QueueMax
<1>2. least \in Nat /\ least <= each /\ (each >= 1 => least >= 1) /\ Min({each, QueueMax}) = least
  <2>1. QueueMax \in Nat \ {0}
    BY IsoConstants
  <2> HIDE DEF each
  <2>2. least \in Nat /\ least <= each /\ (each >= 1 => least >= 1)
    BY <1>1, <2>1
  <2>3. Min({each, QueueMax}) = least
    BY <1>1, <2>1, OfTwo
  <2>4. QED
    BY <2>2, <2>3
<1>3. QueueDepth \in Nat \ {0} /\ (each >= 1 => QueueDepth <= each)
  <2> HIDE DEF least
  <2>1. Max({least, 1}) = IF least >= 1 THEN least ELSE 1
    BY <1>2, OfTwo
  <2>2. QueueDepth = Max({least, 1})
    BY <1>2 DEF QueueDepth
  <2>3. QED
    BY <1>1, <1>2, <2>1, <2>2
<1>4. IsoPackets >= NumCis => NumCis * QueueDepth <= NumCis * each
  BY <1>1, <1>3, IsoConstants
<1>5. NumCis * QueueDepth \in Nat /\ NumCis * each \in Nat
  BY <1>1, <1>3, IsoConstants
<1>6. QED
  BY <1>1, <1>3, <1>4, <1>5, IsoConstants DEF Lead, LeCis

\* When the guard lets a round start, and when it says the next one is due
LEMMA Guarded ==
    ASSUME NEW rounds \in Nat, NEW t \in Nat, MaySend(rounds, t) \/ t >= NextDue(rounds)
    PROVE  Allowed(rounds, t)
<1> DEFINE ahead == rounds + 1 - Lead
<1>1. Frame \in Nat \ {0} /\ ahead \in Int
  BY IsoConstants, IsoSizes
<1>2. CASE MaySend(rounds, t)
  <2> DEFINE due == (2 * t) \div Frame
  <2>1. due \in Nat /\ due * Frame <= 2 * t
    BY <1>1
  <2>2. ahead <= due
    BY <1>2, <2>1, IsoSizes DEF MaySend
  <2>3. ahead * Frame <= due * Frame
    BY <1>1, <2>1, <2>2
  <2>4. ahead * Frame \in Int /\ due * Frame \in Int
    BY <1>1, <2>1
  <2>5. QED
    BY <2>1, <2>3, <2>4 DEF Allowed
<1>3. CASE t >= NextDue(rounds)
  <2> DEFINE m == IF ahead >= 0 THEN ahead ELSE 0
             half == (m * Frame) \div 2
  <2>1. NextDue(rounds) = half
    BY <1>1, OfTwo DEF NextDue
  <2>2. m * Frame \in Nat /\ ahead * Frame \in Int
    BY <1>1
  <2>3. ahead * Frame <= m * Frame
    BY <1>1
  <2> HIDE DEF m
  <2>4. half \in Nat /\ m * Frame <= 2 * half + 1
    BY <2>2
  <2>5. QED
    BY <1>3, <2>1, <2>2, <2>3, <2>4 DEF Allowed
<1>4. QED
  BY <1>2, <1>3

LEMMA LaterAllowed ==
    ASSUME NEW rounds \in Nat, NEW t \in Int, NEW u \in Int, Allowed(rounds, t), t <= u
    PROVE  Allowed(rounds, u)
<1>1. (rounds + 1 - Lead) * Frame \in Int
  BY IsoConstants, IsoSizes
<1>2. QED
  BY <1>1 DEF Allowed

-----------------------------------------------------------------------------
(* The sender of SDUs *)

\* Asking for the next round: with the first call the stream's time starts;
\* either room is asked for and the round is allowed, or the timer is set to
\* a time when it will be.
LEMMA NextRequested ==
    ASSUME NEW s \in SndType, NEW k \in CtlType, ms \in Nat, \E c \in LeCis : s.alive[c],
           s.t0 = None \/ s.t0 <= ms
    PROVE  LET t0 == IF s.t0 = None THEN ms ELSE s.t0
               r == RequestNext(s, k)
           IN  /\ t0 \in Nat /\ t0 <= ms
               /\ \/ /\ r = <<[s EXCEPT !.t0 = t0], [k EXCEPT !.asked = TRUE]>>
                     /\ Allowed(s.rounds, ms - t0)
                  \/ \E time \in Nat :
                        /\ r = <<[[s EXCEPT !.t0 = t0] EXCEPT !.timer = time], k>>
                        /\ time - t0 \in Nat
                        /\ Allowed(s.rounds, time - t0)
<1> DEFINE t0 == IF s.t0 = None THEN ms ELSE s.t0
           due == NextDue(s.rounds)
           w == IF due > ms - t0 THEN due - (ms - t0) ELSE Frame \div 2
           wait == Max({w, 1})
           begun == [s EXCEPT !.t0 = t0]
<1>1. t0 \in Nat /\ t0 <= ms /\ s.rounds \in Nat
  BY DEF SndType, None
<1> HIDE DEF t0
<1>2. due \in Nat
  <2>1. s.rounds + 1 - Lead \in Int /\ Frame \in Nat \ {0}
    BY <1>1, IsoSizes, IsoConstants
  <2> DEFINE m == Max({s.rounds + 1 - Lead, 0})
  <2>2. m \in Nat
    BY <2>1, OfTwo
  <2> HIDE DEF m
  <2>3. m * Frame \in Nat
    BY <2>1, <2>2
  <2>4. (m * Frame) \div 2 \in Nat
    BY <2>3
  <2>5. due = (m * Frame) \div 2
    BY DEF NextDue, m
  <2>6. QED
    BY <2>4, <2>5
<1> HIDE DEF due
<1>3. CASE MaySend(s.rounds, ms - t0)
  <2>1. RequestNext(s, k) = <<begun, RequestEvents(s, k)>>
    BY <1>3 DEF RequestNext, t0
  <2>2. RequestEvents(s, k) = [k EXCEPT !.asked = TRUE]
    BY DEF RequestEvents, SndType
  <2>3. Allowed(s.rounds, ms - t0)
    BY <1>1, <1>3, Guarded
  <2>4. QED
    BY <1>1, <2>1, <2>2, <2>3 DEF t0
<1>4. CASE ~ MaySend(s.rounds, ms - t0)
  <2>1. w \in Nat /\ (due > ms - t0 => w = due - (ms - t0))
    BY <1>1, <1>2, IsoConstants
  <2> HIDE DEF w
  <2>2. wait \in Nat /\ wait >= w
    BY <2>1, OfTwo
  <2> HIDE DEF wait
  <2>3. ms + wait \in Nat /\ (ms + wait) - t0 \in Nat /\ (ms + wait) - t0 >= due
    BY <1>1, <1>2, <2>1, <2>2
  <2>4. Allowed(s.rounds, (ms + wait) - t0)
    BY <1>1, <2>3, Guarded DEF due
  <2>5. RequestNext(s, k) = <<[begun EXCEPT !.timer = ms + wait], k>>
    BY <1>4 DEF RequestNext, t0, due, w, wait
  <2>6. QED
    BY <1>1, <2>3, <2>4, <2>5 DEF t0
<1>5. QED
  BY <1>3, <1>4

\* A new round takes the oldest set of the buffer, or silence; the set of the
\* last round goes back to the pool.
LEMMA RoundStarted ==
    ASSUME IsoTypes, PoolInv
    PROVE  \E cur \in 0..MaxSets, q \in JitterType :
              /\ StartRound(snd, jitter)
                   = <<[snd EXCEPT !.current = cur, !.rounds = snd.rounds + 1, !.open = TRUE,
                                   !.served = [c \in LeCis |-> FALSE]], q>>
              /\ q.prefill \in 1..q.most
              /\ q.spares + Len(q.sets) + (IF encoding = 0 THEN 0 ELSE 1) + 1 = Capacity + SpareExtra
              /\ Len(q.sets) <= Len(jitter.sets)
              /\ \/ cur = 0 /\ q.sets = jitter.sets
                 \/ jitter.sets # <<>> /\ cur = Head(jitter.sets) /\ q.sets = Tail(jitter.sets)
<1> DEFINE b == jitter.buffering /\ Len(jitter.sets) < jitter.prefill
           total == Capacity + SpareExtra
           held == IF encoding = 0 THEN 0 ELSE 1
           inUse == held + (IF snd.current = None THEN 0 ELSE 1)
<1>1. /\ jitter \in JitterType /\ jitter.sets \in Seq(1..MaxSets) /\ jitter.spares \in Nat
      /\ jitter.prefill \in 1..jitter.most /\ jitter.most \in Nat /\ jitter.prefill \in Nat
      /\ Len(jitter.sets) \in Nat /\ Len(jitter.sets) <= Capacity
  BY DEF IsoTypes, PoolInv, JitterType
<1>2. Capacity \in Nat /\ SpareExtra \in Nat /\ SpareExtra >= 3
  BY IsoConstants
<1>a. held \in 0..1 /\ b \in BOOLEAN
  OBVIOUS
<1>b. jitter.spares + Len(jitter.sets) + held + (IF snd.current = None THEN 0 ELSE 1) = total
  BY DEF PoolInv
<1> HIDE DEF held
<1>c. /\ total \in Nat /\ jitter.spares >= 1
      /\ snd.current = None => jitter.spares + Len(jitter.sets) + held = total
      /\ snd.current # None => jitter.spares + Len(jitter.sets) + held + 1 = total
  BY <1>1, <1>2, <1>a, <1>b
<1> HIDE DEF b, total, inUse
<1>3. CASE ~b /\ jitter.sets # <<>>
  <2> DEFINE p == [jitter EXCEPT !.buffering = FALSE, !.sets = Tail(jitter.sets)]
             q == IF snd.current = None THEN p ELSE Recycle(p)
  <2>1. Pop(jitter) = <<Head(jitter.sets), p>>
    BY <1>3 DEF Pop, b
  <2>2. Head(jitter.sets) \in 1..MaxSets /\ Tail(jitter.sets) \in Seq(1..MaxSets)
        /\ Len(Tail(jitter.sets)) = Len(jitter.sets) - 1
    <3>1. jitter.sets \in Seq(1..MaxSets) /\ jitter.sets # <<>>
      BY <1>1, <1>3
    <3>2. QED
      BY <1>1, <3>1, HeadTailProperties
  <2> DEFINE m == Len(Tail(jitter.sets))
  <2>m. m \in Nat /\ m = Len(jitter.sets) - 1 /\ m <= Len(jitter.sets)
    BY <1>1, <2>2, LenProperties
  <2> HIDE DEF m
  <2>3. Head(jitter.sets) # 0 /\ Head(jitter.sets) \in 0..MaxSets
    BY <2>2, IsoConstants
  <2>4. p \in JitterType /\ p.sets = Tail(jitter.sets) /\ p.spares = jitter.spares
        /\ p.prefill = jitter.prefill /\ p.most = jitter.most
    BY <1>1, <2>2 DEF JitterType
  <2>5. CASE snd.current = None
    <3>1. q = p /\ q.spares + Len(q.sets) + held + 1 = total
      <4>1. q = p
        BY <2>5
      <4>2. q.spares = jitter.spares /\ q.sets = Tail(jitter.sets)
        BY <2>4, <4>1
      <4>3. jitter.spares + Len(Tail(jitter.sets)) + held + 1 = total
        <5>1. jitter.spares + m + held + 1 = total
          <6>1. jitter.spares + Len(jitter.sets) + held = total
            BY <1>c, <2>5
          <6>2. jitter.spares \in Int /\ Len(jitter.sets) \in Int /\ held \in Int /\ m = Len(jitter.sets) - 1
            BY <1>1, <1>a, <2>m
          <6>3. QED
            BY <6>1, <6>2
        <5>2. QED
          BY <5>1 DEF m
      <4>4. QED
        BY <4>1, <4>2, <4>3
    <3>2. StartRound(snd, jitter)[2] = q
      BY <2>1, <2>3, <2>5 DEF StartRound
    <3>3. StartRound(snd, jitter)
            = <<[snd EXCEPT !.current = Head(jitter.sets), !.rounds = snd.rounds + 1, !.open = TRUE,
                            !.served = [c \in LeCis |-> FALSE]], q>>
      BY <2>1, <2>3, <2>5 DEF StartRound
    <3>4. QED
      <4>1. q \in JitterType /\ q.prefill \in 1..q.most /\ q.sets = Tail(jitter.sets)
            /\ Len(q.sets) <= Len(jitter.sets)
        <5>1. q = p
          BY <3>1
        <5>2. q \in JitterType /\ q.prefill = jitter.prefill /\ q.most = jitter.most
              /\ q.sets = Tail(jitter.sets)
          BY <2>4, <5>1
        <5>3. QED
          BY <1>1, <2>m, <5>2 DEF m
      <4>2. QED
        BY <1>3, <2>3, <3>1, <3>3, <4>1 DEF held, total
  <2>6. CASE snd.current # None
    <3>1. Min({p.spares + 1, total}) = jitter.spares + 1
      <4>1. total \in Int /\ jitter.spares + 1 \in Int /\ jitter.spares + 1 <= total
        BY <1>1, <1>a, <1>c, <2>6
      <4>2. QED
        BY <2>4, <4>1, OfTwo
    <3>2. q = [p EXCEPT !.spares = jitter.spares + 1]
      BY <2>6, <3>1 DEF Recycle, total
    <3>3. q \in JitterType /\ q.sets = p.sets /\ q.spares = jitter.spares + 1
          /\ q.prefill = p.prefill /\ q.most = p.most
      <4>1. jitter.spares + 1 \in Nat
        BY <1>1
      <4> HIDE DEF p
      <4>2. QED
        BY <2>4, <3>2, <4>1 DEF JitterType
    <3>4. q.spares + Len(q.sets) + held + 1 = total
      <4>1. q.spares = jitter.spares + 1 /\ q.sets = Tail(jitter.sets)
        BY <2>4, <3>3
      <4>2. (jitter.spares + 1) + Len(Tail(jitter.sets)) + held + 1 = total
        <5>1. (jitter.spares + 1) + m + held + 1 = total
          <6>1. jitter.spares + Len(jitter.sets) + held + 1 = total
            BY <1>c, <2>6
          <6>2. jitter.spares \in Int /\ Len(jitter.sets) \in Int /\ held \in Int /\ m = Len(jitter.sets) - 1
            BY <1>1, <1>a, <2>m
          <6>3. QED
            BY <6>1, <6>2
        <5>2. QED
          BY <5>1 DEF m
      <4>3. QED
        BY <4>1, <4>2
    <3>5. StartRound(snd, jitter)
            = <<[snd EXCEPT !.current = Head(jitter.sets), !.rounds = snd.rounds + 1, !.open = TRUE,
                            !.served = [c \in LeCis |-> FALSE]], q>>
      BY <2>1, <2>3, <2>6 DEF StartRound
    <3>6. QED
      <4>1. q \in JitterType /\ q.prefill \in 1..q.most /\ q.sets = Tail(jitter.sets)
            /\ Len(q.sets) <= Len(jitter.sets)
        <5>1. q \in JitterType /\ q.prefill = jitter.prefill /\ q.most = jitter.most
              /\ q.sets = Tail(jitter.sets)
          BY <2>4, <3>3
        <5>2. QED
          BY <1>1, <2>m, <5>1 DEF m
      <4>2. QED
        BY <1>3, <2>3, <3>4, <3>5, <4>1 DEF held, total
  <2>7. QED
    BY <2>5, <2>6
<1>4. CASE b \/ jitter.sets = <<>>
  <2> DEFINE more == IF ~b THEN Min({jitter.prefill + 1, jitter.most}) ELSE jitter.prefill
             p == [jitter EXCEPT !.buffering = TRUE, !.prefill = more]
             q == IF snd.current = None THEN Spare(p) ELSE Recycle(Spare(p))
  <2>1. Pop(jitter) = <<0, p>>
    BY <1>4 DEF Pop, b
  <2>2. more \in 1..jitter.most /\ more \in Nat
    <3>1. Min({jitter.prefill + 1, jitter.most}) = IF jitter.prefill + 1 <= jitter.most
                                                   THEN jitter.prefill + 1 ELSE jitter.most
      <4>1. jitter.prefill + 1 \in Int /\ jitter.most \in Int
        BY <1>1
      <4>2. QED
        BY <4>1, OfTwo
    <3>2. QED
      BY <1>1, <3>1
  <2> HIDE DEF more
  <2>3. p \in JitterType /\ p.sets = jitter.sets /\ p.spares = jitter.spares
        /\ p.prefill = more /\ p.most = jitter.most
    BY <1>1, <2>2 DEF JitterType
  <2>4. Max({p.spares - 1, 0}) = jitter.spares - 1 /\ jitter.spares - 1 \in Nat
    <3>1. jitter.spares - 1 \in Nat
      BY <1>1, <1>c
    <3>2. QED
      BY <2>3, <3>1, OfTwo
  <2>5. Spare(p) = [p EXCEPT !.spares = jitter.spares - 1]
    BY <2>4 DEF Spare
  <2>6. Spare(p) \in JitterType /\ Spare(p).sets = jitter.sets /\ Spare(p).spares = jitter.spares - 1
        /\ Spare(p).prefill = more /\ Spare(p).most = jitter.most
    BY <2>3, <2>4, <2>5 DEF JitterType
  <2>7. StartRound(snd, jitter)
          = <<[snd EXCEPT !.current = 0, !.rounds = snd.rounds + 1, !.open = TRUE,
                          !.served = [c \in LeCis |-> FALSE]], q>>
    BY <2>1 DEF StartRound
  <2>8. q \in JitterType /\ q.sets = jitter.sets /\ q.prefill = more /\ q.most = jitter.most
        /\ q.spares + Len(q.sets) + held + 1 = total
    <3>1. CASE snd.current = None
      BY <1>1, <1>a, <1>c, <2>6, <3>1
    <3>2. CASE snd.current # None
      <4>1. Min({Spare(p).spares + 1, total}) = jitter.spares
        <5>1. total \in Int /\ jitter.spares \in Int /\ jitter.spares <= total
              /\ Spare(p).spares + 1 = jitter.spares
          BY <1>1, <1>a, <1>c, <2>6
        <5>2. QED
          BY <5>1, OfTwo
      <4>2. q = [Spare(p) EXCEPT !.spares = jitter.spares]
        BY <3>2, <4>1 DEF Recycle, total
      <4>3. q \in JitterType /\ q.sets = jitter.sets /\ q.spares = jitter.spares
            /\ q.prefill = more /\ q.most = jitter.most
        BY <1>1, <2>6, <4>2 DEF JitterType
      <4>4. QED
        BY <1>1, <1>a, <1>c, <3>2, <4>3
    <3>3. QED
      BY <3>1, <3>2
  <2>9. 0 \in 0..MaxSets
    BY IsoConstants
  <2>10. QED
    <3>1. q.prefill \in 1..q.most /\ Len(q.sets) <= Len(jitter.sets)
      BY <1>1, <2>2, <2>8
    <3> HIDE DEF q
    <3>2. QED
      BY <2>7, <2>8, <2>9, <3>1 DEF held, total
<1>5. QED
  BY <1>3, <1>4

\* Stopping gives the set of the round back to the pool.
LEMMA SendingStopped ==
    ASSUME IsoTypes, PoolInv, NEW s \in SndType, s.sending, s.current = snd.current
    PROVE  \E q \in JitterType :
              /\ StopSending(s, jitter) = <<[s EXCEPT !.sending = FALSE, !.timer = None, !.current = None], q>>
              /\ q.sets = jitter.sets /\ q.prefill = jitter.prefill /\ q.most = jitter.most
              /\ q.spares + Len(q.sets) + (IF encoding = 0 THEN 0 ELSE 1) = Capacity + SpareExtra
<1> DEFINE total == Capacity + SpareExtra
           held == IF encoding = 0 THEN 0 ELSE 1
           stopped == [s EXCEPT !.sending = FALSE, !.timer = None, !.current = None]
<1>1. /\ jitter \in JitterType /\ jitter.spares \in Nat /\ Len(jitter.sets) \in Nat
  BY DEF IsoTypes, JitterType
<1>2. total \in Int /\ held \in 0..1
  BY IsoConstants
<1>3. jitter.spares + Len(jitter.sets) + held + (IF snd.current = None THEN 0 ELSE 1) = total
  BY DEF PoolInv
<1> HIDE DEF held
<1>4. CASE snd.current = None
  <2>1. StopSending(s, jitter) = <<stopped, jitter>>
    BY <1>4 DEF StopSending
  <2>2. jitter.spares + Len(jitter.sets) + held = total
    BY <1>1, <1>2, <1>3, <1>4
  <2>3. QED
    BY <1>1, <2>1, <2>2 DEF held
<1>5. CASE snd.current # None
  <2>1. jitter.spares + Len(jitter.sets) + held + 1 = total
    BY <1>1, <1>2, <1>3, <1>5
  <2>2. jitter.spares + 1 \in Int /\ jitter.spares + 1 <= total
    BY <1>1, <1>2, <2>1
  <2>3. Min({jitter.spares + 1, total}) = jitter.spares + 1
    BY <1>2, <2>2, OfTwo
  <2> DEFINE q == [jitter EXCEPT !.spares = jitter.spares + 1]
  <2>4. Recycle(jitter) = q
    BY <2>3 DEF Recycle
  <2>5. q \in JitterType /\ q.sets = jitter.sets /\ q.prefill = jitter.prefill /\ q.most = jitter.most
        /\ q.spares = jitter.spares + 1
    BY <1>1 DEF JitterType
  <2>6. StopSending(s, jitter) = <<stopped, q>>
    BY <1>5, <2>4 DEF StopSending
  <2> HIDE DEF q
  <2>7. q.spares + Len(q.sets) + held = total
    BY <1>1, <1>2, <2>1, <2>5
  <2>8. QED
    BY <2>5, <2>6, <2>7 DEF held
<1>6. QED
  BY <1>4, <1>5

-----------------------------------------------------------------------------
(* The steps *)

LEMMA IsoInitial == ASSUME IsoInit PROVE IsoInv
<1> USE DEF IsoInit, Configured, NewSender
<1>1. QueueDepth + PrefillExtra \in Nat \ {0} /\ QueueDepth + PrefillExtra + PrefillGrowth \in Nat
      /\ QueueDepth + PrefillExtra <= QueueDepth + PrefillExtra + PrefillGrowth
      /\ Capacity + SpareExtra \in Nat /\ MaxSets \in Nat /\ MaxMs \in Nat /\ 0 \in 0..QueueDepth
  BY IsoSizes, IsoConstants
<1>2. IsoTypes
  <2>1. jitter \in JitterType /\ jitter.prefill \in 1..jitter.most
    BY <1>1 DEF JitterType
  <2>2. snd \in SndType
    BY <1>1 DEF SndType, None
  <2>3. ctl \in CtlType
    BY <1>1 DEF CtlType
  <2>4. QED
    BY <1>1, <2>1, <2>2, <2>3 DEF IsoTypes
<1>3. PoolInv
  BY <1>1, IsoConstants DEF PoolInv
<1>4. RoundInv
  BY DEF RoundInv
<1>5. InStep
  BY DEF InStep
<1>6. GuardInv
  BY DEF GuardInv
<1>7. OrderInv
  BY <1>1 DEF OrderInv, Ordered, None
<1>8. QED
  BY <1>2, <1>3, <1>4, <1>5, <1>6, <1>7 DEF IsoInv

LEMMA BeginStep == ASSUME IsoInv, Begin PROVE IsoInv' /\ \A d \in LeCis : Flow(d)
<1> USE DEF IsoInv
<1> DEFINE s == [NewSender EXCEPT !.sending = TRUE]
           r == RequestNext(s, ctl)
<1>1. s \in SndType /\ s.t0 = None /\ s.rounds = 0 /\ s.current = None /\ s.timer = None /\ s.sending /\ ~s.open
      /\ (\A c \in LeCis : s.alive[c] /\ s.seq[c] = 0 /\ ~s.served[c])
  <2>1. None \in None..MaxSets
    BY IsoConstants DEF None
  <2>2. NewSender \in SndType
    BY <2>1 DEF NewSender, SndType
  <2>3. NewSender.t0 = None /\ NewSender.rounds = 0 /\ NewSender.current = None /\ NewSender.timer = None
        /\ ~NewSender.open
        /\ (\A c \in LeCis : NewSender.alive[c] /\ NewSender.seq[c] = 0 /\ ~NewSender.served[c])
    BY DEF NewSender
  <2>4. QED
    BY <2>2, <2>3 DEF SndType
<1>2. ms \in Nat /\ ctl \in CtlType /\ ~ctl.asked /\ ctl.tell = {} /\ ctl.queued \in [LeCis -> 0..QueueDepth]
  BY IsoConstants DEF Begin, IsoTypes, RoundInv, CtlType
<1> HIDE DEF s
<1>3. \/ r = <<[s EXCEPT !.t0 = ms], [ctl EXCEPT !.asked = TRUE]>> /\ Allowed(0, ms - ms)
      \/ \E time \in Nat : /\ r = <<[[s EXCEPT !.t0 = ms] EXCEPT !.timer = time], ctl>>
                           /\ Allowed(0, time - ms)
  BY <1>1, <1>2, NextRequested, IsoSizes
<1>4. snd' = r[1] /\ ctl' = r[2] /\ UNCHANGED <<jitter, encoding, ms, encoded, heard>>
      /\ ~snd.sending /\ snd.current = None
  BY DEF Begin, s, RoundInv
<1> HIDE DEF r
<1> DEFINE Begun ==
      /\ snd' \in SndType /\ snd'.t0 = ms /\ snd'.rounds = 0 /\ snd'.current = None /\ snd'.sending /\ ~snd'.open
      /\ \A c \in LeCis : snd'.alive[c] /\ snd'.seq[c] = 0 /\ ~snd'.served[c]
      /\ ctl' \in CtlType /\ ctl'.tell = {} /\ ctl'.queued = ctl.queued
      /\ \/ snd'.timer = None /\ ctl'.asked /\ Allowed(0, ms - ms)
         \/ snd'.timer \in Nat /\ ~ctl'.asked /\ Allowed(0, snd'.timer - ms)
<1>5. Begun
  <2>1. CASE r = <<[s EXCEPT !.t0 = ms], [ctl EXCEPT !.asked = TRUE]>> /\ Allowed(0, ms - ms)
    BY <1>1, <1>2, <1>4, <2>1 DEF SndType, CtlType
  <2>2. ASSUME NEW time \in Nat, r = <<[[s EXCEPT !.t0 = ms] EXCEPT !.timer = time], ctl>>,
               Allowed(0, time - ms)
        PROVE  Begun
    BY <1>1, <1>2, <1>4, <2>2 DEF SndType, CtlType
  <2> HIDE DEF Begun
  <2>3. QED
    BY <1>3, <2>1, <2>2
<1>6. IsoTypes'
  BY <1>4, <1>5 DEF IsoTypes
<1>7. PoolInv'
  BY <1>4, <1>5 DEF PoolInv
<1>8. RoundInv'
  BY <1>2, <1>4, <1>5 DEF RoundInv, Asked, Paced, None
<1>9. InStep'
  BY <1>5 DEF InStep
<1>10. GuardInv'
  <2>1. (0 - Lead) * Frame <= 2 * (ms - ms) + 1
    <3>1. Lead \in Nat /\ Frame \in Nat
      BY IsoSizes, IsoConstants
    <3>2. (0 - Lead) * Frame <= 0
      BY <3>1
    <3>3. QED
      BY <1>2, <3>1, <3>2
  <2>2. snd'.t0 # None => snd'.t0 <= ms' /\ NotTooFarAhead'
    BY <1>2, <1>4, <1>5, <2>1 DEF NotTooFarAhead
  <2>3. snd'.sending /\ (Asked \/ Told)' => Allowed(snd.rounds, ms - snd.t0)'
    <3>1. CASE snd'.timer = None /\ ctl'.asked /\ Allowed(0, ms - ms)
      BY <1>4, <1>5, <3>1 DEF Allowed
    <3>2. CASE snd'.timer \in Nat
      BY <3>2 DEF Asked, Told, None
    <3>3. QED
      BY <1>5, <3>1, <3>2
  <2>4. snd'.timer # None => snd'.t0 # None /\ Allowed(snd.rounds, snd.timer - snd.t0)'
    BY <1>2, <1>4, <1>5 DEF None, Allowed
  <2>5. QED
    BY <2>2, <2>3, <2>4 DEF GuardInv
<1>11. OrderInv'
  BY <1>4, <1>5 DEF OrderInv, Ordered
<1>12. \A d \in LeCis : Flow(d)
  BY <1>4, <1>5 DEF Flow, OnItsWay
<1>13. QED
  BY <1>6, <1>7, <1>8, <1>9, <1>10, <1>11, <1>12

LEMMA TimerStep == ASSUME IsoInv, OnTimer PROVE IsoInv' /\ \A d \in LeCis : Flow(d)
<1> USE DEF IsoInv
<1>1. /\ snd.timer # None /\ ms >= snd.timer /\ snd' = [snd EXCEPT !.timer = None]
      /\ UNCHANGED <<jitter, encoding, ms, encoded, heard>>
      /\ snd \in SndType /\ ctl \in CtlType /\ snd.timer \in Nat /\ ms \in Nat /\ snd.t0 \in Nat
  BY IsoConstants DEF OnTimer, IsoTypes, GuardInv, SndType
<1>2. snd.sending /\ Paced /\ snd.t0 # None /\ \A c \in LeCis : snd.alive[c]
  BY <1>1 DEF RoundInv, Asked, Told, InRound
<1>3. ctl' = [ctl EXCEPT !.asked = TRUE]
  BY <1>2, IsoSizes DEF OnTimer, RequestEvents
<1>4. /\ snd' \in SndType /\ snd'.timer = None /\ ctl' \in CtlType /\ ctl'.asked
      /\ ctl'.tell = ctl.tell /\ ctl'.queued = ctl.queued
      /\ UNCHANGED <<snd.sending, snd.seq, snd.alive, snd.served, snd.open, snd.current, snd.rounds, snd.t0>>
  BY <1>1, <1>3 DEF SndType, CtlType
<1>5. IsoTypes'
  BY <1>1, <1>4 DEF IsoTypes
<1>6. PoolInv'
  BY <1>1, <1>4 DEF PoolInv
<1>7. RoundInv'
  BY <1>1, <1>2, <1>4 DEF RoundInv, Asked, Paced
<1>8. InStep'
  BY <1>4 DEF InStep
<1>9. GuardInv'
  <2>1. Allowed(snd.rounds, ms - snd.t0)
    BY <1>1, <1>2, LaterAllowed DEF GuardInv, SndType
  <2>2. QED
    BY <1>1, <1>2, <1>4, <2>1 DEF GuardInv, NotTooFarAhead, Allowed
<1>10. OrderInv'
  BY <1>1, <1>4 DEF OrderInv, Ordered
<1>11. \A d \in LeCis : Flow(d)
  BY <1>1, <1>4 DEF Flow, OnItsWay
<1>12. QED
  BY <1>5, <1>6, <1>7, <1>8, <1>9, <1>10, <1>11

\* A sender that stops: no round, no timer; what it asked for may still come.
LEMMA StoppedInv ==
    ASSUME IsoInv, snd.t0 # None, NEW s \in SndType, s.sending, s.current = snd.current, s.rounds = snd.rounds, s.t0 = snd.t0,
           NEW k \in CtlType, \A c \in k.tell : k.queued[c] < QueueDepth,
           snd' = StopSending(s, jitter)[1], jitter' = StopSending(s, jitter)[2], ctl' = k,
           UNCHANGED <<encoding, ms, encoded, heard>>
    PROVE  IsoInv' /\ \A d \in LeCis : Flow(d)
<1> USE DEF IsoInv
<1>1. PICK q \in JitterType :
         /\ StopSending(s, jitter) = <<[s EXCEPT !.sending = FALSE, !.timer = None, !.current = None], q>>
         /\ q.sets = jitter.sets /\ q.prefill = jitter.prefill /\ q.most = jitter.most
         /\ q.spares + Len(q.sets) + (IF encoding = 0 THEN 0 ELSE 1) = Capacity + SpareExtra
  BY SendingStopped
<1>2. /\ snd' \in SndType /\ ~snd'.sending /\ snd'.timer = None /\ snd'.current = None
      /\ snd'.rounds = snd.rounds /\ snd'.t0 = snd.t0 /\ jitter' = q
  <2>1. MaxSets \in Nat
    BY IsoConstants
  <2>2. snd' = [s EXCEPT !.sending = FALSE, !.timer = None, !.current = None] /\ jitter' = q
    BY <1>1
  <2>3. None \in None..MaxSets
    BY <2>1 DEF None
  <2> DEFINE stopped == [s EXCEPT !.sending = FALSE, !.timer = None, !.current = None]
  <2>4. stopped \in SndType /\ ~stopped.sending /\ stopped.timer = None /\ stopped.current = None
        /\ stopped.rounds = s.rounds /\ stopped.t0 = s.t0
    BY <2>3 DEF SndType
  <2> HIDE DEF stopped
  <2>5. QED
    BY <2>2, <2>4 DEF stopped
<1>3. IsoTypes'
  BY <1>1, <1>2 DEF IsoTypes
<1>4. PoolInv'
  <2>1. q.spares \in Nat /\ Len(q.sets) \in Nat
    BY DEF JitterType
  <2>2. QED
    BY <1>1, <1>2, <2>1, IsoConstants DEF PoolInv
<1>5. RoundInv'
  BY <1>2 DEF RoundInv
<1>6. InStep'
  BY <1>2 DEF InStep
<1>7. GuardInv'
  BY <1>2 DEF GuardInv, NotTooFarAhead
<1>8. OrderInv'
  <2>1. \A i \in 1..Len(jitter.sets) : jitter.sets[i] \in Nat
    <3>1. jitter.sets \in Seq(1..MaxSets) /\ 1..MaxSets \subseteq Nat
      BY DEF IsoTypes, JitterType
    <3>2. QED
      BY <3>1, ElementOfSeq
  <2>2. \A c \in LeCis : heard[c] \in Nat
    BY DEF IsoTypes
  <2>3. encoding \in Nat /\ encoded \in Nat
    BY DEF IsoTypes
  <2>4. jitter'.sets = jitter.sets /\ UNCHANGED <<encoding, encoded, heard>>
    BY <1>1, <1>2
  <2>5. \A n \in Nat : None < n
    BY DEF None
  <2>6. QED
    BY <1>2, <2>1, <2>2, <2>3, <2>4, <2>5 DEF OrderInv, Ordered, None
<1>9. \A d \in LeCis : Flow(d)
  BY <1>1, <1>2 DEF Flow, OnItsWay
<1>10. QED
  BY <1>3, <1>4, <1>5, <1>6, <1>7, <1>8, <1>9

LEMMA StopStep == ASSUME IsoInv, StopStream PROVE IsoInv' /\ \A d \in LeCis : Flow(d)
<1>1. snd \in SndType /\ snd.sending /\ ctl \in CtlType /\ snd.t0 # None
      /\ \A c \in ctl.tell : ctl.queued[c] < QueueDepth
  BY DEF IsoInv, IsoTypes, RoundInv, StopStream
<1>2. QED
  BY <1>1, StoppedInv DEF StopStream

LEMMA LostStep == ASSUME IsoInv, NEW c \in LeCis, CisLost(c) PROVE IsoInv' /\ \A d \in LeCis : Flow(d)
<1> DEFINE down == [snd EXCEPT !.alive[c] = FALSE]
           gone == [ctl EXCEPT !.tell = @ \ {c}, !.queued[c] = 0]
           shut == [down EXCEPT !.open = FALSE]
<1>1. /\ snd \in SndType /\ snd.sending /\ ctl \in CtlType /\ snd.t0 # None /\ snd.t0 <= ms
      /\ \A d \in ctl.tell : ctl.queued[d] < QueueDepth
      /\ ms \in Nat
  BY IsoConstants DEF IsoInv, IsoTypes, RoundInv, GuardInv, CisLost
<1>2. /\ down \in SndType /\ down.sending /\ down.current = snd.current /\ down.rounds = snd.rounds
      /\ down.t0 = snd.t0
  BY <1>1 DEF SndType
<1>3. gone \in CtlType /\ gone.tell = ctl.tell \ {c} /\ \A d \in gone.tell : gone.queued[d] < QueueDepth
  <2>1. 0 \in 0..QueueDepth /\ ctl.tell \subseteq LeCis
    BY <1>1, IsoSizes DEF CtlType
  <2>2. gone = [ctl EXCEPT !.tell = ctl.tell \ {c}, !.queued = [ctl.queued EXCEPT ![c] = 0]]
    BY <1>1 DEF CtlType
  <2> HIDE DEF gone
  <2>3. gone \in CtlType /\ gone.tell = ctl.tell \ {c} /\ gone.queued = [ctl.queued EXCEPT ![c] = 0]
    BY <1>1, <2>1, <2>2 DEF CtlType
  <2>4. \A d \in gone.tell : gone.queued[d] < QueueDepth
    BY <1>1, <2>1, <2>3 DEF CtlType
  <2>5. QED
    BY <2>3, <2>4
<1> DEFINE again == (\E d \in LeCis : down.alive[d]) /\ down.open /\ RoundDone(down)
           n == IF again THEN RequestNext([down EXCEPT !.open = FALSE], gone) ELSE <<down, gone>>
<1>4. snd' = StopSending(n[1], jitter)[1] /\ jitter' = StopSending(n[1], jitter)[2] /\ ctl' = n[2]
      /\ UNCHANGED <<encoding, ms, encoded, heard>>
  BY DEF CisLost
<1>5. shut \in SndType /\ shut.sending /\ shut.current = snd.current /\ shut.rounds = snd.rounds
      /\ shut.t0 = snd.t0 /\ shut.alive = down.alive
  BY <1>2 DEF SndType
<1> HIDE DEF down, gone
<1>6. CASE ~again
  <2>1. n = <<down, gone>>
    BY <1>6
  <2> HIDE DEF n
  <2>2. QED
    BY <1>1, <1>2, <1>3, <1>4, <2>1, StoppedInv
<1>7. CASE again
  <2>1. n = RequestNext(shut, gone) /\ \E d \in LeCis : shut.alive[d]
    BY <1>5, <1>7
  <2> HIDE DEF n, shut
  <2>2. \/ n = <<[shut EXCEPT !.t0 = snd.t0], [gone EXCEPT !.asked = TRUE]>>
        \/ \E time \in Nat : n = <<[[shut EXCEPT !.t0 = snd.t0] EXCEPT !.timer = time], gone>>
    BY <1>1, <1>3, <1>5, <2>1, NextRequested
  <2>3. CASE n = <<[shut EXCEPT !.t0 = snd.t0], [gone EXCEPT !.asked = TRUE]>>
    <3>1. /\ n[1] \in SndType /\ n[1].sending /\ n[1].current = snd.current /\ n[1].rounds = snd.rounds
          /\ n[1].t0 = snd.t0
      BY <1>1, <1>5, <2>3 DEF SndType
    <3>2. n[2] \in CtlType /\ \A d \in n[2].tell : n[2].queued[d] < QueueDepth
      BY <1>3, <2>3 DEF CtlType
    <3>3. QED
      BY <1>1, <1>4, <3>1, <3>2, StoppedInv
  <2>4. ASSUME NEW time \in Nat, n = <<[[shut EXCEPT !.t0 = snd.t0] EXCEPT !.timer = time], gone>>
        PROVE  IsoInv' /\ \A d \in LeCis : Flow(d)
    <3>1. /\ n[1] \in SndType /\ n[1].sending /\ n[1].current = snd.current /\ n[1].rounds = snd.rounds
          /\ n[1].t0 = snd.t0
      BY <1>1, <1>5, <2>4 DEF SndType
    <3>2. n[2] \in CtlType /\ \A d \in n[2].tell : n[2].queued[d] < QueueDepth
      BY <1>3, <2>4
    <3>3. QED
      BY <1>1, <1>4, <3>1, <3>2, StoppedInv
  <2>5. QED
    BY <2>2, <2>3, <2>4
<1>8. QED
  BY <1>6, <1>7

LEMMA SpareStep == ASSUME IsoInv, TakeSpare PROVE IsoInv' /\ \A d \in LeCis : Flow(d)
<1> USE DEF IsoInv
<1> DEFINE cur == IF snd.current = None THEN 0 ELSE 1
<1>1. /\ encoding = 0 /\ encoded < MaxSets /\ encoded' = encoded + 1 /\ encoding' = encoded + 1
      /\ jitter' = Spare(jitter)
      /\ UNCHANGED <<snd, ctl, ms, heard>>
      /\ jitter \in JitterType /\ jitter.spares \in Nat /\ Len(jitter.sets) \in Nat /\ Len(jitter.sets) <= Capacity
      /\ encoded \in Nat /\ MaxSets \in Nat
      /\ \A i \in 1..Len(jitter.sets) : jitter.sets[i] \in Nat
      /\ \A c \in LeCis : heard[c] \in Nat
      /\ snd.current \in Int
  <2>1. jitter.sets \in Seq(1..MaxSets) /\ 1..MaxSets \subseteq Nat
    BY DEF IsoTypes, JitterType
  <2>2. \A i \in 1..Len(jitter.sets) : jitter.sets[i] \in Nat
    BY <2>1, ElementOfSeq
  <2>3. \A c \in LeCis : heard[c] \in Nat
    BY DEF IsoTypes
  <2>4. snd.current \in Int
    BY IsoConstants DEF IsoTypes, SndType, None
  <2>5. QED
    BY <2>1, <2>2, <2>3, <2>4, IsoConstants DEF TakeSpare, IsoTypes, PoolInv, JitterType
<1>2. jitter.spares + Len(jitter.sets) + cur = Capacity + SpareExtra /\ cur \in 0..1
  BY <1>1, IsoConstants DEF PoolInv
<1> HIDE DEF cur
<1>c. Capacity \in Nat /\ SpareExtra \in Nat /\ SpareExtra >= 3
  BY IsoConstants
<1>3. jitter.spares >= 1
  BY <1>1, <1>2, <1>c
<1>4. Max({jitter.spares - 1, 0}) = jitter.spares - 1
  BY <1>1, <1>3, OfTwo
<1>5. jitter' = [jitter EXCEPT !.spares = jitter.spares - 1]
  BY <1>1, <1>4 DEF Spare
<1>6. /\ jitter' \in JitterType /\ jitter'.sets = jitter.sets /\ jitter'.spares = jitter.spares - 1
      /\ jitter'.prefill = jitter.prefill /\ jitter'.most = jitter.most
  BY <1>1, <1>3, <1>5 DEF JitterType
<1>7. IsoTypes'
  BY <1>1, <1>6 DEF IsoTypes
<1>8. PoolInv'
  <2>1. (jitter.spares - 1) + Len(jitter.sets) + 1 + cur = Capacity + SpareExtra
    <3>1. jitter.spares \in Int /\ Len(jitter.sets) \in Int /\ cur \in Int
      BY <1>1, <1>2
    <3>2. jitter.spares + Len(jitter.sets) + cur = Capacity + SpareExtra
      BY <1>2
    <3>3. QED
      BY <3>1, <3>2
  <2>2. QED
    BY <1>1, <1>6, <2>1 DEF PoolInv, cur
<1>9. RoundInv'
  BY <1>1 DEF RoundInv, Asked, Told, InRound, Paced
<1>10. InStep'
  BY <1>1 DEF InStep
<1>11. GuardInv'
  BY <1>1 DEF GuardInv, NotTooFarAhead, Asked, Told, Allowed
<1>12. OrderInv'
  BY <1>1, <1>6 DEF OrderInv, Ordered
<1>13. \A d \in LeCis : Flow(d)
  BY <1>1, <1>6 DEF Flow, OnItsWay
<1>14. QED
  BY <1>7, <1>8, <1>9, <1>10, <1>11, <1>12, <1>13

LEMMA PushStep == ASSUME IsoInv, PushSet PROVE IsoInv' /\ \A d \in LeCis : Flow(d)
<1> USE DEF IsoInv
<1> DEFINE cur == IF snd.current = None THEN 0 ELSE 1
           kept == IF Len(jitter.sets) >= Capacity THEN Tail(jitter.sets) ELSE jitter.sets
           sets == Append(kept, encoding)
<1>1. /\ encoding # 0 /\ encoding' = 0 /\ jitter' = QPush(jitter, encoding)
      /\ UNCHANGED <<snd, ctl, ms, encoded, heard>>
      /\ jitter \in JitterType /\ jitter.spares \in Nat /\ Len(jitter.sets) \in Nat /\ Len(jitter.sets) <= Capacity
      /\ encoding \in 1..MaxSets /\ jitter.sets \in Seq(1..MaxSets)
  BY DEF PushSet, IsoTypes, PoolInv, JitterType
<1>2. jitter.spares + Len(jitter.sets) + 1 + cur = Capacity + SpareExtra /\ cur \in 0..1
  BY <1>1, IsoConstants DEF PoolInv
<1>3. Capacity \in Nat \ {0} /\ SpareExtra \in Nat /\ SpareExtra >= 3
  BY IsoConstants
<1> HIDE DEF cur
<1>4. /\ kept \in Seq(1..MaxSets)
      /\ Len(kept) = IF Len(jitter.sets) >= Capacity THEN Len(jitter.sets) - 1 ELSE Len(jitter.sets)
      /\ \E d \in 0..1 : \A i \in 1..Len(kept) : i + d \in 1..Len(jitter.sets) /\ kept[i] = jitter.sets[i + d]
  <2>1. CASE Len(jitter.sets) >= Capacity
    <3>1. jitter.sets # <<>>
      BY <1>1, <1>3, <2>1
    <3>2. /\ kept \in Seq(1..MaxSets) /\ Len(kept) = Len(jitter.sets) - 1
          /\ \A i \in 1..Len(kept) : kept[i] = jitter.sets[i + 1]
      BY <1>1, <2>1, <3>1, HeadTailProperties
    <3>3. \A i \in 1..Len(kept) : i + 1 \in 1..Len(jitter.sets)
      BY <1>1, <3>2
    <3>4. QED
      BY <2>1, <3>2, <3>3
  <2>2. CASE ~ (Len(jitter.sets) >= Capacity)
    <3>1. kept = jitter.sets
      BY <2>2
    <3>2. \A i \in 1..Len(kept) : i + 0 = i
      BY <1>1, <3>1
    <3>3. QED
      BY <1>1, <2>2, <3>1, <3>2
  <2>3. QED
    BY <2>1, <2>2
<1> HIDE DEF kept
<1>5. Len(kept) \in Nat /\ Len(kept) < Capacity
  BY <1>1, <1>3, <1>4
<1>6. /\ sets \in Seq(1..MaxSets) /\ Len(sets) = Len(kept) + 1 /\ sets[Len(kept) + 1] = encoding
      /\ \A i \in 1..Len(kept) : sets[i] = kept[i]
  BY <1>1, <1>4, AppendProperties
<1>7. /\ jitter' \in JitterType /\ jitter'.sets = sets
      /\ jitter'.spares = IF Len(jitter.sets) >= Capacity THEN jitter.spares + 1 ELSE jitter.spares
      /\ jitter'.prefill = jitter.prefill /\ jitter'.most = jitter.most
  <2> HIDE DEF sets
  <2>1. CASE Len(jitter.sets) >= Capacity
    <3>1. jitter.spares + 1 \in Int /\ Capacity + SpareExtra \in Int /\ jitter.spares + 1 <= Capacity + SpareExtra
      BY <1>1, <1>2, <1>3
    <3>2. Min({jitter.spares + 1, Capacity + SpareExtra}) = jitter.spares + 1
      BY <3>1, OfTwo
    <3>3. Recycle(jitter) = [jitter EXCEPT !.spares = jitter.spares + 1]
      BY <3>2 DEF Recycle
    <3>4. jitter' = [[jitter EXCEPT !.spares = jitter.spares + 1] EXCEPT !.sets = sets]
      BY <1>1, <2>1, <3>3 DEF QPush, sets, kept
    <3>5. jitter.spares + 1 \in Nat
      BY <1>1
    <3>6. QED
      BY <1>1, <1>6, <2>1, <3>4, <3>5 DEF JitterType
  <2>2. CASE ~ (Len(jitter.sets) >= Capacity)
    <3>1. jitter' = [jitter EXCEPT !.sets = sets]
      BY <1>1, <2>2 DEF QPush, sets, kept
    <3>2. QED
      BY <1>1, <1>6, <2>2, <3>1 DEF JitterType
  <2>3. QED
    BY <2>1, <2>2
<1> HIDE DEF sets
<1>8. IsoTypes'
  BY <1>1, <1>7, IsoConstants DEF IsoTypes
<1>9. PoolInv'
  <2>1. jitter'.spares + Len(sets) + 0 + cur = Capacity + SpareExtra
    <3>1. CASE Len(jitter.sets) >= Capacity
      BY <1>1, <1>2, <1>3, <1>4, <1>6, <1>7, <3>1
    <3>2. CASE ~ (Len(jitter.sets) >= Capacity)
      <4>1. jitter'.spares = jitter.spares /\ Len(sets) = Len(jitter.sets) + 1
        BY <1>4, <1>6, <1>7, <3>2
      <4>2. QED
        <5>1. jitter.spares \in Int /\ Len(jitter.sets) \in Int /\ cur \in Int
          BY <1>1, <1>2
        <5>2. jitter.spares + Len(jitter.sets) + 1 + cur = Capacity + SpareExtra
          BY <1>2
        <5>3. QED
          BY <4>1, <5>1, <5>2
    <3>3. QED
      BY <3>1, <3>2
  <2>2. Len(sets) <= Capacity
    BY <1>3, <1>5, <1>6
  <2>3. QED
    BY <1>1, <1>7, <2>1, <2>2 DEF PoolInv, cur
<1>10. RoundInv'
  BY <1>1 DEF RoundInv, Asked, Told, InRound, Paced
<1>11. InStep'
  BY <1>1 DEF InStep
<1>12. GuardInv'
  BY <1>1 DEF GuardInv, NotTooFarAhead, Asked, Told, Allowed
<1>13. OrderInv'
  <2>1. encoding = encoded /\ encoded' = encoded /\ encoding' = 0 /\ heard' = heard /\ snd' = snd
    BY <1>1 DEF OrderInv, Ordered
  <2>2. PICK d \in 0..1 : \A i \in 1..Len(kept) : i + d \in 1..Len(jitter.sets) /\ kept[i] = jitter.sets[i + d]
    BY <1>4
  <2>3. \A i \in 1..Len(kept) :
           /\ sets[i] < encoding /\ snd.current < sets[i]
           /\ \A j \in 1..Len(kept) : i < j => sets[i] < sets[j]
           /\ \A c \in LeCis : heard[c] < sets[i]
    <3>1. TAKE i \in 1..Len(kept)
    <3>2. \A j \in 1..Len(kept) : i < j => i + d < j + d
      BY <1>5
    <3>3. QED
      BY <1>1, <1>6, <2>2, <3>2 DEF OrderInv, Ordered
  <2>4. encoding \in Nat /\ \A i \in 1..Len(kept) : sets[i] \in Nat
    <3>1. \A i \in 1..Len(kept) : i \in 1..Len(sets)
      BY <1>5, <1>6
    <3>2. QED
      <4>1. \A i \in 1..Len(kept) : sets[i] \in 1..MaxSets
        BY <1>6, <3>1, ElementOfSeq
      <4>2. QED
        BY <1>1, <4>1
  <2>5. \A i \in 1..Len(sets) : i \in 1..Len(kept) \/ i = Len(kept) + 1
    BY <1>5, <1>6
  <2>6. \A i \in 1..Len(sets) :
           /\ sets[i] <= encoded /\ snd.current < sets[i]
           /\ \A j \in 1..Len(sets) : i < j => sets[i] < sets[j]
           /\ \A c \in LeCis : heard[c] < sets[i]
    <3>1. TAKE i \in 1..Len(sets)
    <3>2. CASE i \in 1..Len(kept)
      <4>1. \A j \in 1..Len(sets) : i < j => sets[i] < sets[j]
        BY <1>6, <2>3, <2>5, <3>2
      <4>2. QED
        BY <2>1, <2>3, <2>4, <3>2, <4>1
    <3>3. CASE i = Len(kept) + 1
      <4>1. \A j \in 1..Len(sets) : ~ (i < j)
        BY <1>5, <1>6, <3>3
      <4>2. sets[i] = encoding
        BY <1>6, <3>3
      <4>3. QED
        BY <1>1, <2>1, <2>4, <4>1, <4>2 DEF OrderInv, Ordered
    <3>4. QED
      BY <2>5, <3>2, <3>3
  <2>7. QED
    BY <1>7, <2>1, <2>6 DEF OrderInv, Ordered
<1>14. \A d \in LeCis : Flow(d)
  <2>1. \A i \in 1..Len(sets) : i \in 1..Len(kept) \/ i = Len(kept) + 1
    BY <1>5, <1>6
  <2>2. \A i \in 1..Len(kept) : \E j \in 1..Len(jitter.sets) : kept[i] = jitter.sets[j]
    BY <1>4
  <2>3. DOMAIN sets = 1..Len(sets) /\ DOMAIN jitter.sets = 1..Len(jitter.sets)
    BY <1>1, <1>6, LenProperties
  <2>4. \A i \in DOMAIN sets : sets[i] = encoding \/ \E j \in DOMAIN jitter.sets : sets[i] = jitter.sets[j]
    BY <1>6, <2>1, <2>2, <2>3
  <2>5. QED
    BY <1>1, <1>7, <2>4 DEF Flow, OnItsWay
<1>15. QED
  BY <1>8, <1>9, <1>10, <1>11, <1>12, <1>13, <1>14

LEMMA RoomStep == ASSUME IsoInv, RoomForAll PROVE IsoInv' /\ \A d \in LeCis : Flow(d)
<1> USE DEF IsoInv
<1> DEFINE up == {c \in LeCis : snd.alive[c]}
<1>1. /\ ctl.asked /\ ctl.tell = {} /\ (\A c \in LeCis : snd.alive[c] => ctl.queued[c] < QueueDepth)
      /\ ctl' = [ctl EXCEPT !.asked = FALSE, !.tell = up]
      /\ UNCHANGED <<jitter, encoding, snd, ms, encoded, heard>>
  BY DEF RoomForAll
<1>2. ctl' \in CtlType /\ ~ctl'.asked /\ ctl'.tell = up /\ ctl'.queued = ctl.queued
  BY <1>1 DEF IsoTypes, CtlType
<1>3. IsoTypes'
  BY <1>1, <1>2 DEF IsoTypes
<1>4. PoolInv'
  BY <1>1 DEF PoolInv
<1>5. RoundInv'
  <2>1. snd.sending => Told'
    BY <1>1, <1>2 DEF RoundInv, Asked, Told, InRound, Paced
  <2>2. \A c \in up : ctl.queued[c] < QueueDepth
    BY <1>1
  <2>3. QED
    BY <1>1, <1>2, <2>1, <2>2 DEF RoundInv
<1>6. InStep'
  BY <1>1 DEF InStep
<1>7. GuardInv'
  <2>1. snd.sending => Asked
    BY <1>1 DEF RoundInv, Told, InRound, Paced
  <2>2. QED
    BY <1>1, <2>1 DEF GuardInv, NotTooFarAhead, Allowed
<1>8. OrderInv'
  BY <1>1 DEF OrderInv, Ordered
<1>9. \A d \in LeCis : Flow(d)
  BY <1>1 DEF Flow, OnItsWay
<1>10. QED
  BY <1>3, <1>4, <1>5, <1>6, <1>7, <1>8, <1>9

LEMMA CompletedStep == ASSUME IsoInv, NEW c \in LeCis, Completed(c) PROVE IsoInv' /\ \A d \in LeCis : Flow(d)
<1> USE DEF IsoInv
<1>1. /\ ctl.queued \in [LeCis -> 0..QueueDepth] /\ ctl.queued[c] > 0 /\ ctl \in CtlType /\ QueueDepth \in Nat
      /\ ctl' = [ctl EXCEPT !.queued = [ctl.queued EXCEPT ![c] = ctl.queued[c] - 1]]
      /\ UNCHANGED <<jitter, encoding, snd, ms, encoded, heard>>
  BY IsoSizes DEF Completed, IsoTypes, CtlType
<1>2. /\ ctl' \in CtlType /\ ctl'.asked = ctl.asked /\ ctl'.tell = ctl.tell
      /\ ctl'.queued = [ctl.queued EXCEPT ![c] = ctl.queued[c] - 1]
  BY <1>1 DEF CtlType
<1>3. \A d \in LeCis : ctl.queued[d] < QueueDepth => ctl'.queued[d] < QueueDepth
  BY <1>1, <1>2
<1>4. IsoTypes'
  BY <1>1, <1>2 DEF IsoTypes
<1>5. PoolInv'
  BY <1>1 DEF PoolInv
<1>6. RoundInv'
  <2>1. ctl.tell \subseteq LeCis
    BY <1>1 DEF CtlType
  <2>2. QED
    BY <1>1, <1>2, <1>3, <2>1 DEF RoundInv, Asked, Told, InRound, Paced
<1>7. InStep'
  BY <1>1 DEF InStep
<1>8. GuardInv'
  BY <1>1, <1>2 DEF GuardInv, NotTooFarAhead, Allowed, Asked, Told
<1>9. OrderInv'
  BY <1>1 DEF OrderInv, Ordered
<1>10. \A d \in LeCis : Flow(d)
  BY <1>1 DEF Flow, OnItsWay
<1>11. QED
  BY <1>4, <1>5, <1>6, <1>7, <1>8, <1>9, <1>10

LEMMA TickStep == ASSUME IsoInv, Tick PROVE IsoInv' /\ \A d \in LeCis : Flow(d)
<1> USE DEF IsoInv
<1>1. ms < MaxMs /\ ms' = ms + 1 /\ ms \in Nat /\ MaxMs \in Nat /\ snd \in SndType
      /\ UNCHANGED <<jitter, encoding, snd, ctl, encoded, heard>>
  BY IsoConstants DEF Tick, IsoTypes
<1>2. IsoTypes'
  BY <1>1 DEF IsoTypes
<1>3. PoolInv'
  BY <1>1 DEF PoolInv
<1>4. RoundInv'
  BY <1>1 DEF RoundInv, Asked, Told, InRound, Paced
<1>5. InStep'
  BY <1>1 DEF InStep
<1>6. GuardInv'
  <2>1. snd.rounds \in Nat /\ snd.t0 \in Nat \cup {None} /\ Lead \in Nat /\ Frame \in Nat
    BY <1>1, IsoSizes, IsoConstants DEF SndType
  <2>2. snd.t0 # None => snd.t0 <= ms' /\ NotTooFarAhead'
    <3>1. HAVE snd.t0 # None
    <3>2. (snd.rounds - Lead) * Frame \in Int
      BY <2>1
    <3>3. QED
      BY <1>1, <2>1, <3>1, <3>2 DEF GuardInv, NotTooFarAhead
  <2>3. snd.sending /\ (Asked \/ Told) => Allowed(snd.rounds, ms' - snd.t0)
    <3>1. HAVE snd.sending /\ (Asked \/ Told)
    <3>2. snd.t0 # None /\ Allowed(snd.rounds, ms - snd.t0)
      BY <3>1 DEF RoundInv, GuardInv
    <3>3. ms - snd.t0 \in Int /\ ms' - snd.t0 \in Int /\ ms - snd.t0 <= ms' - snd.t0
      BY <1>1, <2>1, <3>2
    <3>4. QED
      BY <2>1, <3>2, <3>3, LaterAllowed
  <2>4. QED
    BY <1>1, <2>2, <2>3 DEF GuardInv, Asked, Told, Allowed
<1>7. OrderInv'
  BY <1>1 DEF OrderInv, Ordered
<1>8. \A d \in LeCis : Flow(d)
  BY <1>1 DEF Flow, OnItsWay
<1>9. QED
  BY <1>2, <1>3, <1>4, <1>5, <1>6, <1>7, <1>8

\* The round that starts takes the oldest set: all that was heard is older.
LEMMA RoundOrder ==
    ASSUME IsoInv, NEW cur, NEW sets,
           \/ cur = 0 /\ sets = jitter.sets
           \/ jitter.sets # <<>> /\ cur = Head(jitter.sets) /\ sets = Tail(jitter.sets)
    PROVE  Ordered(sets, cur, heard) /\ (cur > 0 => \A c \in LeCis : heard[c] < cur)
<1>1. /\ jitter.sets \in Seq(1..MaxSets) /\ Len(jitter.sets) \in Nat /\ encoded \in Nat /\ encoding \in Nat
      /\ \A c \in LeCis : heard[c] \in Nat
      /\ Ordered(jitter.sets, snd.current, heard)
  <2>1. IsoTypes /\ OrderInv
    BY DEF IsoInv
  <2>2. QED
    BY <2>1, IsoConstants, SMTT(30) DEF IsoTypes, JitterType, OrderInv
<1>2. \A i \in 1..Len(jitter.sets) : jitter.sets[i] \in Nat /\ jitter.sets[i] > 0
  <2>1. \A i \in 1..Len(jitter.sets) : jitter.sets[i] \in 1..MaxSets
    BY <1>1, ElementOfSeq
  <2>2. QED
    BY <2>1
<1>3. CASE cur = 0 /\ sets = jitter.sets
  BY <1>1, <1>2, <1>3 DEF Ordered
<1>4. CASE jitter.sets # <<>> /\ cur = Head(jitter.sets) /\ sets = Tail(jitter.sets)
  <2>1. /\ sets \in Seq(1..MaxSets) /\ Len(sets) = Len(jitter.sets) - 1
        /\ \A i \in 1..Len(sets) : sets[i] = jitter.sets[i + 1]
    BY <1>1, <1>4, HeadTailProperties
  <2>2. 1 \in 1..Len(jitter.sets) /\ cur = jitter.sets[1]
    BY <1>1, <1>4, EmptySeq, LenProperties
  <2>3. \A i \in 1..Len(sets) : i + 1 \in 1..Len(jitter.sets) /\ 1 < i + 1
    BY <1>1, <2>1
  <2>4. ASSUME NEW i \in 1..Len(sets)
        PROVE  /\ sets[i] <= encoded
               /\ encoding # 0 => sets[i] < encoding
               /\ cur < sets[i]
               /\ \A j \in 1..Len(sets) : i < j => sets[i] < sets[j]
               /\ \A c \in LeCis : heard[c] < sets[i]
    <3>1. i + 1 \in 1..Len(jitter.sets) /\ 1 < i + 1 /\ sets[i] = jitter.sets[i + 1]
      BY <2>1, <2>3
    <3>2. \A j \in 1..Len(sets) : i < j => i + 1 < j + 1
      BY <1>1, <2>1
    <3>3. \A j \in 1..Len(sets) : i < j => sets[i] < sets[j]
      <4>1. TAKE j \in 1..Len(sets)
      <4>2. HAVE i < j
      <4>3. j + 1 \in 1..Len(jitter.sets) /\ sets[j] = jitter.sets[j + 1] /\ i + 1 < j + 1
        BY <2>1, <2>3, <3>2, <4>2
      <4>4. QED
        BY <1>1, <3>1, <4>3 DEF Ordered
    <3>4. QED
      BY <1>1, <2>2, <3>1, <3>3 DEF Ordered
  <2>5. /\ cur <= encoded /\ (encoding # 0 => cur < encoding)
        /\ \A c \in LeCis : heard[c] < cur
    BY <1>1, <2>2 DEF Ordered
  <2>6. \A c \in LeCis : heard[c] <= encoded /\ (encoding # 0 => heard[c] < encoding)
    BY <1>1 DEF Ordered
  <2>7. QED
    BY <2>4, <2>5, <2>6 DEF Ordered
<1>5. QED
  BY <1>3, <1>4

LEMMA CanSendStep == ASSUME IsoInv, OnCanSend PROVE IsoInv' /\ \A d \in LeCis : Flow(d)
<1> USE DEF IsoInv
<1> DEFINE c == Min(ctl.tell)
           k == [ctl EXCEPT !.tell = @ \ {c}]
           r == IF ~snd.open \/ snd.served[c] THEN StartRound(snd, jitter) ELSE <<snd, jitter>>
           s == [r[1] EXCEPT !.seq[c] = @ + 1, !.served[c] = TRUE]
           sent(ok) == IF ok THEN [k EXCEPT !.queued[c] = @ + 1] ELSE k
           n(ok) == RequestNext([s EXCEPT !.open = FALSE], sent(ok))
           over == c = NumCis \/ RoundDone(s)
<1>1. /\ ctl.tell # {} /\ ctl.tell \subseteq LeCis /\ c \in ctl.tell /\ (\A d \in ctl.tell : c <= d) /\ c \in LeCis
      /\ ctl \in CtlType /\ snd \in SndType /\ ms \in Nat /\ QueueDepth \in Nat
      /\ (\A d \in ctl.tell : ctl.queued[d] < QueueDepth)
      /\ UNCHANGED <<encoding, ms, encoded>>
  <2>1. ctl.tell # {} /\ ctl.tell \subseteq LeCis /\ ctl \in CtlType /\ snd \in SndType /\ ms \in Nat
        /\ QueueDepth \in Nat
    BY IsoConstants, IsoSizes DEF OnCanSend, IsoTypes, CtlType
  <2>2. QED
    BY <2>1, FirstTold DEF OnCanSend, RoundInv
<1>2. k \in CtlType /\ k.tell = ctl.tell \ {c} /\ k.asked = ctl.asked /\ k.queued = ctl.queued
  BY <1>1 DEF CtlType
<1>3. CASE ~snd.sending
  <2>1. ctl' = k /\ UNCHANGED <<jitter, encoding, snd, ms, encoded, heard>>
    BY <1>1, <1>3 DEF OnCanSend
  <2> HIDE DEF k, c
  <2>2. IsoTypes' /\ PoolInv' /\ InStep' /\ OrderInv'
    BY <1>2, <2>1 DEF IsoTypes, PoolInv, InStep, OrderInv, Ordered
  <2>3. RoundInv'
    BY <1>1, <1>2, <1>3, <2>1 DEF RoundInv
  <2>4. GuardInv'
    BY <1>3, <2>1 DEF GuardInv, NotTooFarAhead, Allowed
  <2>5. \A d \in LeCis : Flow(d)
    BY <2>1 DEF Flow, OnItsWay
  <2>6. QED
    BY <2>2, <2>3, <2>4, <2>5
<1>4. CASE snd.sending
  <2>1. PICK ok \in BOOLEAN :
           /\ jitter' = r[2]
           /\ heard' = IF ok /\ s.current > 0 THEN [heard EXCEPT ![c] = s.current] ELSE heard
           /\ snd' = IF over THEN n(ok)[1] ELSE s
           /\ ctl' = IF over THEN n(ok)[2] ELSE sent(ok)
    BY <1>4 DEF OnCanSend
  <2>2. /\ snd.t0 \in Nat /\ snd.t0 <= ms /\ NotTooFarAhead /\ (\A d \in LeCis : snd.alive[d])
        /\ Told \/ InRound
        /\ ~ctl.asked /\ snd.timer = None
    BY <1>1, <1>4 DEF RoundInv, GuardInv, Asked, Paced, Told, InRound, SndType
  <2> HIDE DEF k, c
  <2> DEFINE pool(q, cur) ==
                /\ q \in JitterType /\ q.prefill \in 1..q.most /\ Len(q.sets) <= Capacity
                /\ q.spares + Len(q.sets) + (IF encoding = 0 THEN 0 ELSE 1)
                     + (IF cur = None THEN 0 ELSE 1) = Capacity + SpareExtra
  <2> DEFINE way(sets, owed, cur) ==
                {sets[i] : i \in DOMAIN sets} \cup ({encoding} \ {0})
                  \cup (IF owed THEN {cur} \ {0, None} ELSE {})
  \* the round it is: a new one, or the one that has begun
  <2>3. \E cur \in None..MaxSets, q \in JitterType, rounds \in Nat, base \in [LeCis -> BOOLEAN] :
           /\ r = <<[snd EXCEPT !.current = cur, !.rounds = rounds, !.open = TRUE, !.served = base], q>>
           /\ pool(q, cur)
           /\ Ordered(q.sets, cur, heard)
           /\ \A d \in LeCis : cur > 0 /\ d \in ctl.tell => heard[d] < cur
           /\ \A d \in LeCis : base[d] <=> d \notin ctl.tell
           /\ \A d \in LeCis : snd.seq[d] = rounds - (IF d \in ctl.tell THEN 1 ELSE 0)
           /\ (rounds - Lead) * Frame <= 2 * (ms - snd.t0) + 1
           /\ \A d \in ctl.tell, e \in LeCis : d < e => e \in ctl.tell
           /\ \A d \in LeCis : way(q.sets, d \in ctl.tell, cur) \subseteq OnItsWay(d)
    <3>1. CASE Told
      <4>1. r = StartRound(snd, jitter)
        BY <3>1 DEF Told
      <4>2. PICK cur \in 0..MaxSets, q \in JitterType :
               /\ StartRound(snd, jitter)
                    = <<[snd EXCEPT !.current = cur, !.rounds = snd.rounds + 1, !.open = TRUE,
                                    !.served = [d \in LeCis |-> FALSE]], q>>
               /\ q.prefill \in 1..q.most
               /\ q.spares + Len(q.sets) + (IF encoding = 0 THEN 0 ELSE 1) + 1 = Capacity + SpareExtra
               /\ Len(q.sets) <= Len(jitter.sets)
               /\ \/ cur = 0 /\ q.sets = jitter.sets
                  \/ jitter.sets # <<>> /\ cur = Head(jitter.sets) /\ q.sets = Tail(jitter.sets)
        BY RoundStarted
      <4>3. Ordered(q.sets, cur, heard) /\ (cur > 0 => \A d \in LeCis : heard[d] < cur)
        BY <4>2, RoundOrder
      <4>4. pool(q, cur) /\ cur \in None..MaxSets /\ cur # None
        <5>1. cur # None /\ cur \in None..MaxSets
          BY IsoConstants DEF None
        <5>2. Len(q.sets) \in Nat /\ Len(jitter.sets) \in Nat /\ Len(jitter.sets) <= Capacity /\ Capacity \in Nat
          <6>1. Len(q.sets) \in Nat
            BY DEF JitterType
          <6>2. Len(jitter.sets) \in Nat /\ Len(jitter.sets) <= Capacity
            BY DEF IsoTypes, JitterType, PoolInv
          <6>3. QED
            BY <6>1, <6>2, IsoConstants
        <5>3. Len(q.sets) <= Capacity
          BY <4>2, <5>2
        <5>4. QED
          BY <4>2, <5>1, <5>3
      <4>5. snd.rounds + 1 \in Nat /\ [d \in LeCis |-> FALSE] \in [LeCis -> BOOLEAN]
        BY <1>1 DEF SndType
      <4>6. (snd.rounds + 1 - Lead) * Frame <= 2 * (ms - snd.t0) + 1
        BY <1>4, <3>1 DEF GuardInv, Allowed
      <4>7. \A d \in LeCis : d \in ctl.tell /\ snd.seq[d] = (snd.rounds + 1) - 1
        <5>1. \A d \in LeCis : d \in ctl.tell /\ snd.seq[d] = snd.rounds - 0
          BY <1>4, <3>1 DEF InStep, Told
        <5>2. snd.rounds \in Int
          BY <1>1 DEF SndType
        <5>3. QED
          BY <5>1, <5>2
      <4> DEFINE base == [d \in LeCis |-> FALSE]
      <4>r. PICK rounds \in Nat : rounds = snd.rounds + 1
        BY <4>5
      <4>8. base \in [LeCis -> BOOLEAN] /\ rounds \in Nat /\ (\A d \in LeCis : base[d] <=> d \notin ctl.tell)
        BY <4>5, <4>7
      <4>9. \A d \in LeCis : snd.seq[d] = rounds - (IF d \in ctl.tell THEN 1 ELSE 0)
        BY <4>7, <4>r
      <4>10. r = <<[snd EXCEPT !.current = cur, !.rounds = rounds, !.open = TRUE, !.served = base], q>>
        BY <4>1, <4>2, <4>r
      <4>11. (rounds - Lead) * Frame <= 2 * (ms - snd.t0) + 1
        <5>1. snd.rounds + 1 - Lead = rounds - Lead
          BY <1>1, <4>r, IsoSizes DEF SndType
        <5>2. QED
          BY <4>6, <5>1
      <4>12. \A d \in LeCis : way(q.sets, d \in ctl.tell, cur) \subseteq OnItsWay(d)
        <5>1. jitter.sets \in Seq(1..MaxSets) /\ DOMAIN jitter.sets = 1..Len(jitter.sets)
          BY LenProperties DEF IsoTypes, JitterType
        <5>2. CASE cur = 0 /\ q.sets = jitter.sets
          BY <5>2 DEF OnItsWay
        <5>3. CASE jitter.sets # <<>> /\ cur = Head(jitter.sets) /\ q.sets = Tail(jitter.sets)
          <6>1. /\ q.sets \in Seq(1..MaxSets) /\ Len(q.sets) = Len(jitter.sets) - 1
                /\ (\A i \in 1..Len(q.sets) : q.sets[i] = jitter.sets[i + 1])
                /\ DOMAIN q.sets = 1..Len(q.sets) /\ Len(jitter.sets) \in Nat
            <7>1. /\ q.sets \in Seq(1..MaxSets) /\ Len(q.sets) = Len(jitter.sets) - 1
                  /\ \A i \in 1..Len(Tail(jitter.sets)) : Tail(jitter.sets)[i] = jitter.sets[i + 1]
              BY <5>1, <5>3, HeadTailProperties
            <7>2. DOMAIN q.sets = 1..Len(q.sets) /\ Len(jitter.sets) \in Nat
              BY <5>1, <7>1, LenProperties
            <7>3. QED
              BY <5>3, <7>1, <7>2
          <6>2. \A i \in DOMAIN q.sets : i + 1 \in DOMAIN jitter.sets /\ q.sets[i] = jitter.sets[i + 1]
            BY <5>1, <6>1
          <6>3. 1 \in DOMAIN jitter.sets /\ cur = jitter.sets[1]
            BY <5>1, <5>3, <6>1, EmptySeq
          <6>4. QED
            BY <6>2, <6>3 DEF OnItsWay
        <5>4. QED
          BY <4>2, <5>2, <5>3
      <4> HIDE DEF pool, base, r, way
      <4>13. QED
        BY <4>3, <4>4, <4>7, <4>8, <4>9, <4>10, <4>11, <4>12
    <3>2. CASE InRound
      <4>1. snd.open /\ ~snd.served[c] /\ r = <<snd, jitter>>
        BY <1>1, <3>2 DEF InRound
      <4>2. /\ snd = [snd EXCEPT !.current = snd.current, !.rounds = snd.rounds, !.open = TRUE, !.served = snd.served]
            /\ snd.current \in None..MaxSets /\ snd.rounds \in Nat /\ snd.served \in [LeCis -> BOOLEAN]
        BY <1>1, <4>1 DEF SndType
      <4>3. pool(jitter, snd.current) /\ jitter \in JitterType
        BY DEF IsoTypes, PoolInv
      <4>4. Ordered(jitter.sets, snd.current, heard)
            /\ \A d \in LeCis : snd.current > 0 /\ d \in ctl.tell => heard[d] < snd.current
        BY <3>2 DEF OrderInv, InRound
      <4>5. \A d \in LeCis : snd.served[d] <=> d \notin ctl.tell
        BY <3>2 DEF InRound
      <4>6. \A d \in LeCis : snd.seq[d] = snd.rounds - (IF d \in ctl.tell THEN 1 ELSE 0)
        BY <1>4, <3>2, <4>5 DEF InStep, InRound
      <4>7. (snd.rounds - Lead) * Frame <= 2 * (ms - snd.t0) + 1
        BY <2>2 DEF NotTooFarAhead, None
      <4>8. \A d \in ctl.tell, e \in LeCis : d < e => e \in ctl.tell
        BY <3>2 DEF InRound
      <4>9. \A d \in LeCis : way(jitter.sets, d \in ctl.tell, snd.current) \subseteq OnItsWay(d)
        BY <4>1, <4>5 DEF OnItsWay
      <4> HIDE DEF pool, way
      <4>10. QED
        BY <4>1, <4>2, <4>3, <4>4, <4>5, <4>6, <4>7, <4>8, <4>9
    <3>3. QED
      BY <2>2, <3>1, <3>2
  <2> HIDE DEF way
  <2>4. PICK cur \in None..MaxSets, q \in JitterType, rounds \in Nat, base \in [LeCis -> BOOLEAN] :
           /\ r = <<[snd EXCEPT !.current = cur, !.rounds = rounds, !.open = TRUE, !.served = base], q>>
           /\ pool(q, cur)
           /\ Ordered(q.sets, cur, heard)
           /\ \A d \in LeCis : cur > 0 /\ d \in ctl.tell => heard[d] < cur
           /\ \A d \in LeCis : base[d] <=> d \notin ctl.tell
           /\ \A d \in LeCis : snd.seq[d] = rounds - (IF d \in ctl.tell THEN 1 ELSE 0)
           /\ (rounds - Lead) * Frame <= 2 * (ms - snd.t0) + 1
           /\ \A d \in ctl.tell, e \in LeCis : d < e => e \in ctl.tell
           /\ \A d \in LeCis : way(q.sets, d \in ctl.tell, cur) \subseteq OnItsWay(d)
    BY <2>3
  <2> HIDE DEF r
  <2> DEFINE left == ctl.tell \ {c}
  <2>5. /\ s \in SndType /\ s.sending /\ s.open /\ s.timer = None /\ s.t0 = snd.t0 /\ s.current = cur
        /\ s.rounds = rounds
        /\ \A d \in LeCis : s.alive[d]
        /\ \A d \in LeCis : s.served[d] <=> d \notin left
        /\ \A d \in LeCis : s.seq[d] = rounds - (IF d \in left THEN 1 ELSE 0)
    <3> DEFINE seq == [snd.seq EXCEPT ![c] = snd.seq[c] + 1]
               served == [base EXCEPT ![c] = TRUE]
    <3>1. s = [snd EXCEPT !.current = cur, !.rounds = rounds, !.open = TRUE, !.served = served, !.seq = seq]
      BY <1>1, <2>4 DEF SndType
    <3>2. snd.seq \in [LeCis -> Nat] /\ seq \in [LeCis -> Nat] /\ served \in [LeCis -> BOOLEAN]
      BY <1>1 DEF SndType
    <3>3. \A d \in LeCis : served[d] <=> d \notin left
      BY <1>1, <2>4
    <3>4. \A d \in LeCis : seq[d] = rounds - (IF d \in left THEN 1 ELSE 0)
      BY <1>1, <2>4, <3>2
    <3> HIDE DEF seq, served
    <3>5. /\ s \in SndType /\ s.sending = snd.sending /\ s.open /\ s.timer = snd.timer /\ s.t0 = snd.t0
          /\ s.current = cur /\ s.rounds = rounds /\ s.alive = snd.alive /\ s.served = served /\ s.seq = seq
      BY <1>1, <3>1, <3>2 DEF SndType
    <3>6. QED
      BY <1>4, <2>2, <3>3, <3>4, <3>5
  <2> HIDE DEF s
  <2>6. /\ sent(ok) \in CtlType /\ ~sent(ok).asked /\ sent(ok).tell = left
        /\ \A d \in left : sent(ok).queued[d] < QueueDepth
    <3>1. ctl.queued \in [LeCis -> 0..QueueDepth] /\ ctl.queued[c] < QueueDepth /\ k.queued = ctl.queued
      BY <1>1, <1>2 DEF CtlType
    <3>2. CASE ok
      <4>1. sent(ok) = [k EXCEPT !.queued = [ctl.queued EXCEPT ![c] = ctl.queued[c] + 1]]
        BY <1>2, <3>1, <3>2 DEF CtlType
      <4>2. [ctl.queued EXCEPT ![c] = ctl.queued[c] + 1] \in [LeCis -> 0..QueueDepth]
        BY <1>1, <3>1
      <4> HIDE DEF sent
      <4>3. /\ sent(ok) \in CtlType /\ sent(ok).asked = ctl.asked /\ sent(ok).tell = left
            /\ sent(ok).queued = [ctl.queued EXCEPT ![c] = ctl.queued[c] + 1]
        BY <1>2, <4>1, <4>2 DEF CtlType
      <4>4. QED
        BY <1>1, <2>2, <3>1, <4>3
    <3>3. CASE ~ok
      <4>1. sent(ok) = k
        BY <3>3
      <4>2. QED
        BY <1>1, <1>2, <2>2, <4>1
    <3>4. QED
      BY <3>2, <3>3
  <2> HIDE DEF sent
  \* what was heard
  <2>7. /\ heard' \in [LeCis -> 0..MaxSets]
        /\ Ordered(q.sets, cur, heard')
        /\ \A d \in left : cur > 0 => heard'[d] < cur
    <3>1. heard \in [LeCis -> 0..MaxSets] /\ MaxSets \in Nat
      BY IsoConstants DEF IsoTypes
    <3>2. CASE ok /\ cur > 0
      <4>1. heard' = [heard EXCEPT ![c] = cur] /\ cur \in 0..MaxSets
        BY <2>1, <2>5, <3>1, <3>2 DEF None
      <4>2. heard' \in [LeCis -> 0..MaxSets] /\ \A d \in LeCis : heard'[d] = IF d = c THEN cur ELSE heard[d]
        BY <1>1, <3>1, <4>1
      <4>3. \A i \in 1..Len(q.sets), d \in LeCis : heard'[d] < q.sets[i]
        BY <2>4, <4>2 DEF Ordered
      <4>4. \A d \in LeCis : heard'[d] <= encoded /\ (encoding # 0 => heard'[d] < encoding)
        BY <2>4, <4>2 DEF Ordered
      <4>5. Ordered(q.sets, cur, heard')
        BY <2>4, <4>3, <4>4 DEF Ordered
      <4>6. QED
        BY <1>1, <2>4, <4>2, <4>5
    <3>3. CASE ~ (ok /\ cur > 0)
      <4>1. heard' = heard
        BY <2>1, <2>5, <3>3
      <4>2. QED
        BY <1>1, <2>4, <3>1, <4>1
    <3>4. QED
      BY <3>2, <3>3
  <2>8. jitter' = q
    BY <2>1, <2>4
  <2>9. over <=> left = {}
    <3>1. NumCis \in LeCis /\ (\A d \in LeCis : d <= NumCis /\ d \in Nat)
      BY IsoSizes, IsoConstants DEF LeCis
    <3>2. ASSUME c = NumCis PROVE left = {}
      BY <1>1, <3>1, <3>2
    <3>3. ASSUME RoundDone(s) PROVE left = {}
      BY <1>1, <2>5, <3>3 DEF RoundDone
    <3>4. ASSUME left = {} PROVE c = NumCis
      <4>1. ctl.tell = {c}
        BY <1>1, <3>4
      <4>2. ~ (c < NumCis)
        BY <1>1, <2>4, <3>1, <4>1
      <4>3. QED
        BY <1>1, <3>1, <4>2
    <3>5. QED
      BY <3>2, <3>3, <3>4
  <2> HIDE DEF over
  <2> DEFINE shut == [s EXCEPT !.open = FALSE]
  <2>10. /\ shut \in SndType /\ shut.sending /\ ~shut.open /\ shut.timer = None /\ shut.t0 = snd.t0
         /\ shut.current = cur /\ shut.rounds = rounds /\ shut.alive = s.alive /\ shut.served = s.served
         /\ shut.seq = s.seq
    BY <2>5 DEF SndType
  \* what the sender waits for next
  <2> DEFINE Next3 ==
        /\ snd' \in SndType /\ snd'.sending /\ snd'.t0 = snd.t0 /\ snd'.current = cur /\ snd'.rounds = rounds
        /\ snd'.alive = s.alive /\ snd'.served = s.served /\ snd'.seq = s.seq
        /\ ctl' \in CtlType /\ ctl'.tell = left /\ ctl'.queued = sent(ok).queued
        /\ \/ left # {} /\ snd'.open /\ snd'.timer = None /\ ~ctl'.asked
           \/ left = {} /\ ~snd'.open /\ snd'.timer = None /\ ctl'.asked /\ Allowed(rounds, ms - snd.t0)
           \/ left = {} /\ ~snd'.open /\ snd'.timer \in Nat /\ ~ctl'.asked /\ Allowed(rounds, snd'.timer - snd.t0)
  <2>11. Next3
    <3>1. CASE left # {}
      <4>1. snd' = s /\ ctl' = sent(ok)
        BY <2>1, <2>9, <3>1
      <4> HIDE DEF left
      <4>2. QED
        BY <2>5, <2>6, <3>1, <4>1
    <3>2. CASE left = {}
      <4>1. snd' = n(ok)[1] /\ ctl' = n(ok)[2] /\ n(ok) = RequestNext(shut, sent(ok))
        BY <2>1, <2>9, <3>2
      <4> HIDE DEF n, shut, left
      <4>2. \E d \in LeCis : shut.alive[d]
        BY <1>1, <2>5, <2>10
      <4>3. \/ /\ n(ok) = <<[shut EXCEPT !.t0 = snd.t0], [sent(ok) EXCEPT !.asked = TRUE]>>
               /\ Allowed(rounds, ms - snd.t0)
            \/ \E time \in Nat :
                  /\ n(ok) = <<[[shut EXCEPT !.t0 = snd.t0] EXCEPT !.timer = time], sent(ok)>>
                  /\ Allowed(rounds, time - snd.t0)
        <5>1. shut.t0 # None
          BY <2>2, <2>10 DEF None
        <5>2. QED
          BY <1>1, <2>2, <2>6, <2>10, <4>1, <4>2, <5>1, NextRequested
      <4>4. CASE /\ n(ok) = <<[shut EXCEPT !.t0 = snd.t0], [sent(ok) EXCEPT !.asked = TRUE]>>
                 /\ Allowed(rounds, ms - snd.t0)
        <5>1. snd' = [shut EXCEPT !.t0 = snd.t0] /\ ctl' = [sent(ok) EXCEPT !.asked = TRUE]
          BY <4>1, <4>4
        <5>2. /\ snd' \in SndType /\ snd'.sending /\ snd'.t0 = snd.t0 /\ snd'.current = cur /\ snd'.rounds = rounds
              /\ snd'.alive = s.alive /\ snd'.served = s.served /\ snd'.seq = s.seq /\ ~snd'.open /\ snd'.timer = None
          BY <2>2, <2>10, <5>1 DEF SndType
        <5>3. ctl' \in CtlType /\ ctl'.tell = left /\ ctl'.queued = sent(ok).queued /\ ctl'.asked
          BY <2>6, <5>1 DEF CtlType
        <5>4. QED
          BY <3>2, <4>4, <5>2, <5>3
      <4>5. ASSUME NEW time \in Nat,
                   n(ok) = <<[[shut EXCEPT !.t0 = snd.t0] EXCEPT !.timer = time], sent(ok)>>,
                   Allowed(rounds, time - snd.t0)
            PROVE  Next3
        <5>1. snd' = [[shut EXCEPT !.t0 = snd.t0] EXCEPT !.timer = time] /\ ctl' = sent(ok)
          BY <4>1, <4>5
        <5>2. /\ snd' \in SndType /\ snd'.sending /\ snd'.t0 = snd.t0 /\ snd'.current = cur /\ snd'.rounds = rounds
              /\ snd'.alive = s.alive /\ snd'.served = s.served /\ snd'.seq = s.seq /\ ~snd'.open /\ snd'.timer = time
          BY <2>2, <2>10, <5>1 DEF SndType
        <5>3. QED
          BY <2>6, <3>2, <4>5, <5>1, <5>2
      <4> HIDE DEF Next3
      <4>6. QED
        BY <4>3, <4>4, <4>5
    <3>3. QED
      BY <3>1, <3>2
  <2>12. left \subseteq LeCis /\ \A d \in left, e \in LeCis : d < e => e \in left
    <3>1. \A d \in LeCis : d \in Nat
      BY IsoSizes
    <3>2. QED
      BY <1>1, <2>4, <3>1
  <2> HIDE DEF left, shut, n
  <2>13. IsoTypes'
    BY <1>1, <2>4, <2>7, <2>8, <2>11 DEF IsoTypes
  <2>14. PoolInv'
    BY <1>1, <2>4, <2>8, <2>11 DEF PoolInv
  <2>15. RoundInv'
    <3>1. \A d \in LeCis : snd'.served[d] <=> d \notin ctl'.tell
      BY <2>5, <2>11
    <3>2. Asked' \/ InRound' \/ Paced'
      BY <2>11, <2>12, <3>1 DEF Asked, InRound, Paced, None
    <3>3. \A d \in ctl'.tell : ctl'.queued[d] < QueueDepth
      BY <2>6, <2>11
    <3>4. snd'.t0 # None /\ \A d \in LeCis : snd'.alive[d]
      BY <2>2, <2>5, <2>11 DEF None
    <3>5. QED
      BY <2>11, <3>2, <3>3, <3>4 DEF RoundInv
  <2>16. InStep'
    BY <2>5, <2>11 DEF InStep
  <2>17. GuardInv'
    <3>1. snd'.t0 # None /\ snd'.t0 <= ms' /\ NotTooFarAhead'
      BY <1>1, <2>2, <2>4, <2>11 DEF NotTooFarAhead, None
    <3>2. (Asked \/ Told)' => Allowed(snd.rounds, ms - snd.t0)'
      <4>1. CASE left # {} /\ snd'.open
        BY <4>1 DEF Asked, Told
      <4>2. CASE Allowed(rounds, ms - snd.t0)
        BY <1>1, <2>11, <4>2 DEF Allowed
      <4>3. CASE snd'.timer \in Nat
        BY <4>3 DEF Asked, Told, None
      <4>4. QED
        BY <2>11, <4>1, <4>2, <4>3
    <3>3. snd'.timer # None => Allowed(snd.rounds, snd.timer - snd.t0)'
      BY <2>11 DEF Allowed
    <3>4. QED
      BY <3>1, <3>2, <3>3 DEF GuardInv
  <2>18. OrderInv'
    <3>1. Ordered(jitter.sets, snd.current, heard)'
      BY <1>1, <2>7, <2>8, <2>11 DEF Ordered
    <3>2. \A d \in LeCis : snd'.open /\ ~snd'.served[d] /\ snd'.current > 0 => heard'[d] < snd'.current
      BY <2>5, <2>7, <2>11
    <3>3. QED
      BY <1>1, <3>1, <3>2 DEF OrderInv
  <2>19. ASSUME NEW d \in LeCis PROVE Flow(d)
    <3>1. OnItsWay(d)' = way(q.sets, snd'.open /\ d \in left, cur)
      BY <1>1, <2>5, <2>8, <2>11 DEF OnItsWay, way
    <3>2. way(q.sets, snd'.open /\ d \in left, cur) \subseteq way(q.sets, d \in ctl.tell, cur)
      BY DEF way, left
    <3>3. CASE d = c /\ ok /\ cur > 0
      <4>1. heard'[d] = cur /\ cur > heard[d]
        BY <1>1, <2>1, <2>4, <2>5, <3>3 DEF IsoTypes
      <4>2. cur # 0 /\ cur # None /\ d \in ctl.tell /\ d \notin left
        BY <1>1, <3>3 DEF None, left
      <4>3. cur \in OnItsWay(d)
        BY <2>4, <4>2 DEF way
      <4>4. \A w \in way(q.sets, FALSE, cur) : w > cur
        <5>1. DOMAIN q.sets = 1..Len(q.sets)
          BY LenProperties DEF JitterType
        <5>2. QED
          BY <2>4, <5>1 DEF way, Ordered
      <4>5. way(q.sets, FALSE, cur) = way(q.sets, snd'.open /\ d \in left, cur)
        BY <4>2 DEF way
      <4>6. QED
        <5>1. encoded' = encoded
          BY <1>1
        <5>2. OnItsWay(d)' \subseteq {w \in OnItsWay(d) : w > cur}
          <6>1. OnItsWay(d)' \subseteq way(q.sets, d \in ctl.tell, cur)
            BY <3>1, <3>2
          <6>2. way(q.sets, d \in ctl.tell, cur) \subseteq OnItsWay(d)
            BY <2>4
          <6>3. \A w \in OnItsWay(d)' : w > cur
            BY <3>1, <4>4, <4>5
          <6> HIDE DEF way
          <6>4. QED
            BY <6>1, <6>2, <6>3
        <5>3. QED
          BY <4>1, <4>3, <5>1, <5>2 DEF Flow
    <3>4. CASE ~ (d = c /\ ok /\ cur > 0)
      <4>1. heard'[d] = heard[d]
        BY <1>1, <2>1, <2>5, <3>4 DEF IsoTypes
      <4>2. QED
        BY <1>1, <2>4, <3>1, <3>2, <4>1 DEF Flow
    <3>5. QED
      BY <3>3, <3>4
  <2>20. QED
    BY <2>13, <2>14, <2>15, <2>16, <2>17, <2>18, <2>19
<1>5. QED
  BY <1>3, <1>4

LEMMA IsoStep == ASSUME IsoInv, [IsoNext]_isoVars PROVE IsoInv' /\ \A d \in LeCis : Flow(d)
<1>1. CASE Begin
  BY <1>1, BeginStep
<1>2. CASE OnCanSend
  BY <1>2, CanSendStep
<1>3. CASE OnTimer
  BY <1>3, TimerStep
<1>4. CASE StopStream
  BY <1>4, StopStep
<1>5. ASSUME NEW c \in LeCis, CisLost(c) PROVE IsoInv' /\ \A d \in LeCis : Flow(d)
  BY <1>5, LostStep
<1>6. ASSUME NEW c \in LeCis, Completed(c) PROVE IsoInv' /\ \A d \in LeCis : Flow(d)
  BY <1>6, CompletedStep
<1>7. CASE TakeSpare
  BY <1>7, SpareStep
<1>8. CASE PushSet
  BY <1>8, PushStep
<1>9. CASE RoomForAll
  BY <1>9, RoomStep
<1>10. CASE Tick
  BY <1>10, TickStep
<1>11. CASE UNCHANGED isoVars
  <2>1. IsoInv'
    BY <1>11 DEF isoVars, IsoInv, IsoTypes, PoolInv, RoundInv, InStep, GuardInv, NotTooFarAhead, Allowed,
                 OrderInv, Ordered, Asked, Told, InRound, Paced
  <2>2. \A d \in LeCis : Flow(d)
    BY <1>11 DEF isoVars, Flow, OnItsWay
  <2>3. QED
    BY <2>1, <2>2
<1>12. QED
  BY <1>1, <1>2, <1>3, <1>4, <1>5, <1>6, <1>7, <1>8, <1>9, <1>10, <1>11 DEF IsoNext

\* The SDUs queued on the first n CIS are at most n times the depth of a queue.
LEMMA QueuedIsBounded ==
    ASSUME IsoTypes
    PROVE  \A n \in 0..NumCis : QueuedUpTo[n] \in Nat /\ QueuedUpTo[n] <= n * QueueDepth
<1> DEFINE sums(f, n) == /\ f \in [0..n -> Nat] /\ f[0] = 0
                         /\ \A c \in 1..n : f[c] = f[c - 1] + ctl.queued[c]
           bad == {n \in 0..NumCis : ~ \E f : sums(f, n)}
<1>1. /\ NumCis \in Nat /\ QueueDepth \in Nat
      /\ \A c \in 1..NumCis : ctl.queued[c] \in Nat /\ ctl.queued[c] <= QueueDepth
  <2>1. NumCis \in Nat /\ QueueDepth \in Nat
    BY IsoSizes, IsoConstants
  <2>2. ctl.queued \in [1..NumCis -> 0..QueueDepth]
    BY DEF IsoTypes, CtlType, LeCis
  <2>3. QED
    BY <2>1, <2>2
\* the sums exist, whatever n
<1>2. bad = {}
  <2>1. SUFFICES ASSUME bad # {} PROVE FALSE
    OBVIOUS
  <2>2. bad \subseteq Nat
    BY <1>1
  <2>3. PICK n \in bad : \A m \in bad : n <= m
    BY <2>1, <2>2, Least
  <2>4. n \in 0..NumCis /\ ~ \E f : sums(f, n)
    BY <2>3
  <2>5. n # 0
    <3> DEFINE z == [i \in 0..0 |-> 0]
    <3>1. z \in [0..0 -> Nat] /\ z[0] = 0 /\ 1..0 = {}
      OBVIOUS
    <3>2. sums(z, 0)
      BY <3>1
    <3>3. QED
      BY <2>4, <3>2
  <2>6. n - 1 \in 0..NumCis /\ n - 1 \notin bad
    <3>1. n - 1 \in 0..NumCis /\ ~ (n <= n - 1)
      BY <1>1, <2>4, <2>5
    <3>2. QED
      BY <2>3, <3>1
  <2>7. PICK f : sums(f, n - 1)
    BY <2>6
  <2> DEFINE g == [i \in 0..n |-> IF i = n THEN f[n - 1] + ctl.queued[n] ELSE f[i]]
  <2>8. sums(g, n)
    <3>1. n \in 1..NumCis /\ f \in [0..n - 1 -> Nat] /\ f[0] = 0
          /\ (\A c \in 1..n - 1 : f[c] = f[c - 1] + ctl.queued[c])
      BY <2>4, <2>5, <2>7
    <3>2. f[n - 1] + ctl.queued[n] \in Nat
      BY <1>1, <3>1
    <3>3. \A i \in 0..n : i # n => i \in 0..n - 1
      BY <3>1
    <3>4. g \in [0..n -> Nat] /\ g[0] = 0
      BY <3>1, <3>2, <3>3
    <3>5. ASSUME NEW c \in 1..n PROVE g[c] = g[c - 1] + ctl.queued[c]
      <4>1. c - 1 \in 0..n /\ c - 1 # n /\ c \in 0..n
        BY <3>1
      <4>2. CASE c = n
        BY <4>1, <4>2
      <4>3. CASE c # n
        BY <3>1, <4>1, <4>3
      <4>4. QED
        BY <4>2, <4>3
    <3> HIDE DEF g
    <3>6. QED
      BY <3>4, <3>5
  <2>9. QED
    BY <2>4, <2>8
<1>3. PICK f : sums(f, NumCis)
  <2>1. NumCis \in 0..NumCis
    BY <1>1
  <2> HIDE DEF sums
  <2>2. QED
    BY <1>2, <2>1
<1>4. f = [c \in 0..NumCis |-> IF c = 0 THEN 0 ELSE f[c - 1] + ctl.queued[c]]
  <2>1. \A c \in 0..NumCis : c # 0 => c \in 1..NumCis
    BY <1>1
  <2>2. \A c \in 0..NumCis : f[c] = IF c = 0 THEN 0 ELSE f[c - 1] + ctl.queued[c]
    BY <1>3, <2>1
  <2>3. QED
    BY <1>3, <2>2
<1>5. QueuedUpTo = [c \in 0..NumCis |-> IF c = 0 THEN 0 ELSE QueuedUpTo[c - 1] + ctl.queued[c]]
  BY <1>4 DEF QueuedUpTo
<1>6. /\ QueuedUpTo[0] = 0
      /\ \A c \in 1..NumCis : QueuedUpTo[c] = QueuedUpTo[c - 1] + ctl.queued[c]
  <2>1. 0 \in 0..NumCis /\ \A c \in 1..NumCis : c \in 0..NumCis /\ c # 0
    BY <1>1
  <2>2. QED
    BY <1>5, <2>1, Zenon
<1> HIDE DEF sums, bad
<1> DEFINE over == {n \in 0..NumCis : ~ (QueuedUpTo[n] \in Nat /\ QueuedUpTo[n] <= n * QueueDepth)}
<1>7. over = {}
  <2>1. SUFFICES ASSUME over # {} PROVE FALSE
    OBVIOUS
  <2>2. over \subseteq Nat
    BY <1>1
  <2>3. PICK n \in over : \A m \in over : n <= m
    BY <2>1, <2>2, Least
  <2>4. n \in 0..NumCis /\ ~ (QueuedUpTo[n] \in Nat /\ QueuedUpTo[n] <= n * QueueDepth)
    BY <2>3
  <2>5. n # 0
    <3>1. 0 * QueueDepth = 0
      BY <1>1
    <3>2. QED
      BY <1>6, <2>4, <3>1
  <2>6. n \in 1..NumCis /\ n - 1 \in 0..NumCis /\ ~ (n <= n - 1)
    BY <1>1, <2>4, <2>5
  <2>7. QueuedUpTo[n - 1] \in Nat /\ QueuedUpTo[n - 1] <= (n - 1) * QueueDepth
    BY <2>3, <2>6
  <2>8. QueuedUpTo[n] = QueuedUpTo[n - 1] + ctl.queued[n]
    BY <1>6, <2>6
  <2>9. (n - 1) * QueueDepth + QueueDepth = n * QueueDepth /\ (n - 1) * QueueDepth \in Int
    BY <1>1, <2>6
  <2>10. QED
    BY <1>1, <2>4, <2>6, <2>7, <2>8, <2>9
<1>8. QED
  BY <1>7

LEMMA IsoInvSafe == ASSUME IsoInv PROVE RoundsSafe
<1> USE DEF IsoInv
<1>1. IsoTypeOK
  <2>1. /\ jitter \in JitterType /\ jitter.prefill \in 1..jitter.most /\ encoding \in 0..MaxSets
        /\ snd \in SndType /\ ctl \in CtlType /\ ms \in 0..MaxMs
    BY DEF IsoTypes
  <2>2. /\ jitter.spares \in Nat /\ Len(jitter.sets) \in Nat /\ Len(jitter.sets) <= Capacity
        /\ jitter.sets \in Seq(1..MaxSets) /\ jitter.buffering \in BOOLEAN
    BY <2>1 DEF PoolInv, JitterType
  <2>3. jitter.sets \in UNION {[1..n -> 1..MaxSets] : n \in 0..Capacity}
    <3>1. jitter.sets \in [1..Len(jitter.sets) -> 1..MaxSets] /\ Len(jitter.sets) \in 0..Capacity
      <4>1. Len(jitter.sets) \in 0..Capacity
        BY <2>2, IsoConstants
      <4>2. jitter.sets \in [1..Len(jitter.sets) -> 1..MaxSets]
        BY <2>2, LenProperties
      <4>3. QED
        BY <4>1, <4>2
    <3>2. QED
      BY <3>1
  <2>4. jitter.spares \in 0..Capacity + SpareExtra
    <3> DEFINE h == IF encoding = 0 THEN 0 ELSE 1
               cur == IF snd.current = None THEN 0 ELSE 1
    <3>1. jitter.spares + Len(jitter.sets) + h + cur = Capacity + SpareExtra /\ h \in 0..1 /\ cur \in 0..1
      BY DEF PoolInv
    <3>2. Capacity \in Nat /\ SpareExtra \in Nat
      BY IsoConstants
    <3> HIDE DEF h, cur
    <3>3. QED
      BY <2>2, <3>1, <3>2
  <2>5. snd.current \in None..MaxSets /\ snd.rounds \in Nat
    BY <2>1 DEF SndType
  <2>6. \A c \in LeCis : ctl.queued[c] \in 0..QueueDepth
    BY <2>1 DEF CtlType
  <2>7. \A c \in LeCis : snd.seq[c] \in Nat
    BY <2>1 DEF SndType
  <2>8. QED
    BY <2>1, <2>2, <2>3, <2>4, <2>5, <2>6, <2>7 DEF IsoTypeOK
<1>2. RoundsGoOn
  BY IsoSizes DEF RoundsGoOn, RoundInv, Asked, Told, InRound, Paced
<1>3. NotTooFarAhead
  BY DEF GuardInv, NotTooFarAhead
<1>4. PoolHolds
  <2> DEFINE h == IF encoding = 0 THEN 0 ELSE 1
             cur == IF snd.current = None THEN 0 ELSE 1
  <2>1. jitter.spares + Len(jitter.sets) + h + cur = Capacity + SpareExtra /\ h \in 0..1 /\ cur \in 0..1
    BY DEF PoolInv
  <2>2. Capacity \in Nat /\ SpareExtra \in Nat /\ SpareExtra >= 3
    BY IsoConstants
  <2>3. jitter.spares \in Nat /\ Len(jitter.sets) \in Nat /\ Len(jitter.sets) <= Capacity
    BY DEF IsoTypes, PoolInv, JitterType
  <2> HIDE DEF h, cur
  <2>4. QED
    BY <2>1, <2>2, <2>3 DEF PoolHolds
<1>5. BuffersFit
  <2>1. NumCis \in 0..NumCis
    BY IsoConstants
  <2>2. QueuedUpTo[NumCis] \in Nat /\ QueuedUpTo[NumCis] <= NumCis * QueueDepth
    BY <2>1, QueuedIsBounded
  <2>3. NumCis * QueueDepth \in Nat /\ IsoPackets \in Nat
    BY IsoSizes, IsoConstants
  <2>4. QED
    BY <2>2, <2>3, IsoSizes DEF BuffersFit
<1>6. QED
  BY <1>1, <1>2, <1>3, <1>4, <1>5 DEF RoundsSafe

\* The stream of SDUs is safe.
THEOREM RoundsSafeAlways == IsoSpec => []RoundsSafe
<1>1. IsoInit => IsoInv
  BY IsoInitial
<1>2. IsoInv /\ [IsoNext]_isoVars => IsoInv'
  BY IsoStep
<1>3. IsoInv => RoundsSafe
  BY IsoInvSafe
<1>4. QED
  BY <1>1, <1>2, <1>3, PTL DEF IsoSpec

\* The path of each channel implements the lossy FIFO: no set of audio is
\* heard twice or after a newer one.
THEOREM HeardInOrderAlways == IsoSpec => HeardInOrder
<1>1. IsoInit => IsoInv
  BY IsoInitial
<1>2. IsoInv /\ [IsoNext]_isoVars => IsoInv'
  BY IsoStep
<1>3. IsoInit => Left!Init /\ Right!Init
  <2> SUFFICES ASSUME IsoInit PROVE Left!Init /\ Right!Init
    OBVIOUS
  <2>1. heard[1] = 0 /\ heard[NumCis] = 0 /\ encoded = 0
    BY IsoSizes DEF IsoInit
  <2>2. \A c \in LeCis : OnItsWay(c) = {}
    BY DEF IsoInit, OnItsWay, Configured, NewSender
  <2>3. QED
    BY <2>1, <2>2, IsoSizes DEF Left!Init, Right!Init
<1>4. IsoInv /\ [IsoNext]_isoVars => [Left!Next]_(Left!fifoVars)
  <2> SUFFICES ASSUME IsoInv, [IsoNext]_isoVars PROVE Left!Next
    BY DEF Left!fifoVars
  <2>1. Flow(1)
    BY IsoStep, IsoSizes
  <2>2. QED
    BY <2>1 DEF Flow, Left!Next, Left!Capture, Left!Lose, Left!Deliver
<1>5. IsoInv /\ [IsoNext]_isoVars => [Right!Next]_(Right!fifoVars)
  <2> SUFFICES ASSUME IsoInv, [IsoNext]_isoVars PROVE Right!Next
    BY DEF Right!fifoVars
  <2>1. Flow(NumCis)
    BY IsoStep, IsoSizes
  <2>2. QED
    BY <2>1 DEF Flow, Right!Next, Right!Capture, Right!Lose, Right!Deliver
<1>6. QED
  BY <1>1, <1>2, <1>3, <1>4, <1>5, PTL DEF IsoSpec, HeardInOrder, Left!Spec, Right!Spec
=============================================================================
