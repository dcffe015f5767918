---------------------------- MODULE ThreadsProofs ----------------------------
(***************************************************************************)
(* Proofs about the threads around BTstack: StackRun, Transport and        *)
(* MediaPath.                                                              *)
(*                                                                         *)
(* StackRun, for every number of stacks and threads and under sequentially *)
(* consistent memory (StoreBuffer = FALSE): no wake reaches a run loop     *)
(* that is gone, the wake registration is in the list at most once, one    *)
(* run loop at a time, and no merged wake is a lost one.                   *)
(*                                                                         *)
(* Transport, for every number of runs, commands, packets and faults:      *)
(* TransportSafe.                                                          *)
(*                                                                         *)
(* MediaPath, for every size of the buffers, every packetizing and every   *)
(* number of starts and resets: it is safe and implements the lossy FIFO.  *)
(***************************************************************************)
EXTENDS StackRun, Transport, MediaPath, FiniteSetTheorems, SequenceTheorems, TLAPS

\* The threads of run that RUNNING stands for
Busy(h) == run[h] \in {"reset", "setup", "init", "loop", "callback", "exiting", "closing", "deinit"}

\* ALIVE is set: Execute .. Close
Open(h) == run[h] \in {"loop", "callback", "exiting"}

\* RUNNING excludes a second run loop
RunInv ==
    /\ \A h \in Host : Busy(h) => running
    /\ \A g, h \in Host : Busy(g) /\ Busy(h) => g = h

\* ALIVE is what the run loop says
AliveInv ==
    /\ alive <=> \E h \in Host : Open(h)
    /\ ~buffered

\* WAKERS counts the threads between its fetch_add and its fetch_sub; the
\* registration is in the list, or about to be, exactly while a wake is pending
WakeInv ==
    /\ \A p \in Poster : p \in wakers <=> pc[p] \in {"load", "wake", "queue", "sub"}
    /\ \A p \in Poster : pc[p] \in {"wake", "queue"} => \E h \in Host : SetUp(h)
    /\ \A p \in Poster : pc[p] = "queue" => ~queued
    /\ \A p, q \in Poster : pc[p] = "queue" /\ pc[q] = "queue" => p = q
    /\ pending <=> queued \/ \E p \in Poster : pc[p] = "queue"

\* Before a stack is launched nobody has work for it; its jobs and the exit
\* asked of it are flagged until the run loop takes the flags, and have a wake
\* on its way while it waits
JobInv ==
    /\ \A h \in Host : Unsent(h) =>
          jobs[h] = {} /\ owner[h] \in {"none", "launching", "joining", "failed"}
    /\ \A h \in Host : run[h] \in {"loop", "callback"} =>
          /\ jobs[h] # {} =>
                "app" \in flags \/ poisoned \/ \E p \in Poster : pc[p] = "flag" /\ what[p] = "app"
          /\ owner[h] = "ending" =>
                "exit" \in flags \/ poisoned \/ exit \/ (pc[h] = "flag" /\ what[h] = "exit")
    /\ \A h \in Host : run[h] \in {"setup", "init"} => ~poisoned
    /\ \A h \in Host : run[h] = "loop" /\ ~exit /\ poisoned => pending
    /\ \A h \in Host : run[h] = "loop" /\ ~exit /\ jobs[h] # {} => Coming
    /\ \A h \in Host : run[h] = "loop" /\ ~exit /\ owner[h] = "ending" => Coming

IInv == TypeOK /\ RunInv /\ AliveInv /\ WakeInv /\ JobInv

-----------------------------------------------------------------------------
\* Every step keeps the types.
LEMMA TypeStep ==
    ASSUME TypeOK, [Next]_vars
    PROVE  TypeOK'
<1> USE DEF TypeOK, RunPC, OwnerPC, PosterPC, Poster, runVars, wakeVars, posterVars, history
<1>1. ASSUME NEW h \in Host, Claim(h) PROVE TypeOK'
  BY <1>1 DEF Claim, Step
<1>2. ASSUME NEW h \in Host, Reset(h) PROVE TypeOK'
  BY <1>2 DEF Reset, Step
<1>3. ASSUME NEW h \in Host, InitLoop(h) PROVE TypeOK'
  BY <1>3 DEF InitLoop, Step
<1>4. ASSUME NEW h \in Host, Execute(h) PROVE TypeOK'
  BY <1>4 DEF Execute, Step
<1>5. ASSUME NEW h \in Host, TakeWake(h) PROVE TypeOK'
  BY <1>5 DEF TakeWake, Step
<1>6. ASSUME NEW h \in Host, OnWake(h) PROVE TypeOK'
  BY <1>6 DEF OnWake, Step
<1>7. ASSUME NEW h \in Host, Leave(h) PROVE TypeOK'
  BY <1>7 DEF Leave, Step
<1>8. ASSUME NEW h \in Host, Close(h) PROVE TypeOK'
  BY <1>8 DEF Close, Step
<1>9. ASSUME NEW h \in Host, NoWakers(h) PROVE TypeOK'
  BY <1>9 DEF NoWakers, Step
<1>10. ASSUME NEW h \in Host, Finish(h) PROVE TypeOK'
  BY <1>10 DEF Finish, Step
<1>11. ASSUME NEW h \in Host, Launch(h) PROVE TypeOK'
  BY <1>11 DEF Launch, Step, Own
<1>12. ASSUME NEW h \in Host, Launched(h) PROVE TypeOK'
  BY <1>12 DEF Launched, Own, Unsent
<1>13. ASSUME NEW h \in Host, NotLaunched(h) PROVE TypeOK'
  BY <1>13 DEF NotLaunched, Own, Unsent
<1>14. ASSUME NEW h \in Host, Joined(h) PROVE TypeOK'
  BY <1>14 DEF Joined, Own
<1>15. ASSUME NEW h \in Host, StopThread(h) PROVE TypeOK'
  BY <1>15 DEF StopThread, At, Own
<1>16. ASSUME NEW h \in Host, RequestExit(h) PROVE TypeOK'
  BY <1>16 DEF RequestExit, At, Own
<1>17. ASSUME NEW h \in Host, Stopped(h) PROVE TypeOK'
  BY <1>17 DEF Stopped, Own
<1>18. ASSUME NEW h \in Host, Panic(h) PROVE TypeOK'
  BY <1>18 DEF Panic
<1>19. ASSUME NEW p \in Poster, SetFlag(p) PROVE TypeOK'
  BY <1>19 DEF SetFlag, At
<1>20. ASSUME NEW p \in Poster, AddWaker(p) PROVE TypeOK'
  BY <1>20 DEF AddWaker, At
<1>21. ASSUME NEW p \in Poster, LoadAlive(p) PROVE TypeOK'
  BY <1>21 DEF LoadAlive, At
<1>22. ASSUME NEW p \in Poster, Exchange(p) PROVE TypeOK'
  BY <1>22 DEF Exchange, At
<1>23. ASSUME NEW p \in Poster, Queue(p) PROVE TypeOK'
  BY <1>23 DEF Queue, At
<1>24. ASSUME NEW p \in Poster, SubWaker(p) PROVE TypeOK'
  BY <1>24 DEF SubWaker, At
<1>25. ASSUME NEW p \in Poster, Answered(p) PROVE TypeOK'
  BY <1>25 DEF Answered, At
<1>26. ASSUME NEW p \in Caller, NEW h \in Host, Send(p, h) PROVE TypeOK'
  BY <1>26 DEF Send, At
<1>27. CASE Drain
  BY <1>27 DEF Drain
<1>28. CASE UNCHANGED vars
  BY <1>28 DEF vars
<1>29. QED
  BY <1>1, <1>2, <1>3, <1>4, <1>5, <1>6, <1>7, <1>8, <1>9, <1>10, <1>11, <1>12, <1>13, <1>14,
     <1>15, <1>16, <1>17, <1>18, <1>19, <1>20, <1>21, <1>22, <1>23, <1>24, <1>25, <1>26, <1>27,
     <1>28
     DEF Next, RunStep, PostStep, OwnerStep

\* Every step keeps RUNNING exclusive.
LEMMA RunStepKeeps ==
    ASSUME TypeOK, RunInv, [Next]_vars
    PROVE  RunInv'
<1> USE DEF TypeOK, RunInv, Busy, runVars, wakeVars, posterVars, history
<1>1. ASSUME NEW h \in Host, Claim(h) PROVE RunInv'
  BY <1>1 DEF Claim, Step
<1>2. ASSUME NEW h \in Host, Reset(h) PROVE RunInv'
  BY <1>2 DEF Reset, Step
<1>3. ASSUME NEW h \in Host, InitLoop(h) PROVE RunInv'
  BY <1>3 DEF InitLoop, Step
<1>4. ASSUME NEW h \in Host, Execute(h) PROVE RunInv'
  BY <1>4 DEF Execute, Step
<1>5. ASSUME NEW h \in Host, TakeWake(h) PROVE RunInv'
  BY <1>5 DEF TakeWake, Step
<1>6. ASSUME NEW h \in Host, OnWake(h) PROVE RunInv'
  BY <1>6 DEF OnWake, Step
<1>7. ASSUME NEW h \in Host, Leave(h) PROVE RunInv'
  BY <1>7 DEF Leave, Step
<1>8. ASSUME NEW h \in Host, Close(h) PROVE RunInv'
  BY <1>8 DEF Close, Step
<1>9. ASSUME NEW h \in Host, NoWakers(h) PROVE RunInv'
  BY <1>9 DEF NoWakers, Step
<1>10. ASSUME NEW h \in Host, Finish(h) PROVE RunInv'
  BY <1>10 DEF Finish, Step
<1>11. ASSUME NEW h \in Host, Launch(h) PROVE RunInv'
  BY <1>11 DEF Launch, Step, Own
<1>12. ASSUME NEW h \in Host, Launched(h) PROVE RunInv'
  BY <1>12 DEF Launched, Own, Unsent
<1>13. ASSUME NEW h \in Host, NotLaunched(h) PROVE RunInv'
  BY <1>13 DEF NotLaunched, Own, Unsent
<1>14. ASSUME NEW h \in Host, Joined(h) PROVE RunInv'
  BY <1>14 DEF Joined, Own
<1>15. ASSUME NEW h \in Host, StopThread(h) PROVE RunInv'
  BY <1>15 DEF StopThread, At, Own
<1>16. ASSUME NEW h \in Host, RequestExit(h) PROVE RunInv'
  BY <1>16 DEF RequestExit, At, Own
<1>17. ASSUME NEW h \in Host, Stopped(h) PROVE RunInv'
  BY <1>17 DEF Stopped, Own
<1>18. ASSUME NEW h \in Host, Panic(h) PROVE RunInv'
  BY <1>18 DEF Panic
<1>19. ASSUME NEW p \in Poster, SetFlag(p) PROVE RunInv'
  BY <1>19 DEF SetFlag, At
<1>20. ASSUME NEW p \in Poster, AddWaker(p) PROVE RunInv'
  BY <1>20 DEF AddWaker, At
<1>21. ASSUME NEW p \in Poster, LoadAlive(p) PROVE RunInv'
  BY <1>21 DEF LoadAlive, At
<1>22. ASSUME NEW p \in Poster, Exchange(p) PROVE RunInv'
  BY <1>22 DEF Exchange, At
<1>23. ASSUME NEW p \in Poster, Queue(p) PROVE RunInv'
  BY <1>23 DEF Queue, At
<1>24. ASSUME NEW p \in Poster, SubWaker(p) PROVE RunInv'
  BY <1>24 DEF SubWaker, At
<1>25. ASSUME NEW p \in Poster, Answered(p) PROVE RunInv'
  BY <1>25 DEF Answered, At
<1>26. ASSUME NEW p \in Caller, NEW h \in Host, Send(p, h) PROVE RunInv'
  BY <1>26 DEF Send, At
<1>27. CASE Drain
  BY <1>27 DEF Drain
<1>28. CASE UNCHANGED vars
  BY <1>28 DEF vars
<1>29. QED
  BY <1>1, <1>2, <1>3, <1>4, <1>5, <1>6, <1>7, <1>8, <1>9, <1>10, <1>11, <1>12, <1>13, <1>14,
     <1>15, <1>16, <1>17, <1>18, <1>19, <1>20, <1>21, <1>22, <1>23, <1>24, <1>25, <1>26, <1>27,
     <1>28
     DEF Next, RunStep, PostStep, OwnerStep

\* Every step keeps ALIVE true to the run loop.
LEMMA AliveStep ==
    ASSUME StoreBuffer = FALSE, TypeOK, RunInv, AliveInv, [Next]_vars
    PROVE  AliveInv'
<1> USE DEF TypeOK, RunInv, AliveInv, Busy, Open, runVars, wakeVars, posterVars, history
<1>1. ASSUME NEW h \in Host, Claim(h) PROVE AliveInv'
  BY <1>1 DEF Claim, Step
<1>2. ASSUME NEW h \in Host, Reset(h) PROVE AliveInv'
  BY <1>2 DEF Reset, Step
<1>3. ASSUME NEW h \in Host, InitLoop(h) PROVE AliveInv'
  BY <1>3 DEF InitLoop, Step
<1>4. ASSUME NEW h \in Host, Execute(h) PROVE AliveInv'
  BY <1>4 DEF Execute, Step
<1>5. ASSUME NEW h \in Host, TakeWake(h) PROVE AliveInv'
  BY <1>5 DEF TakeWake, Step
<1>6. ASSUME NEW h \in Host, OnWake(h) PROVE AliveInv'
  BY <1>6 DEF OnWake, Step
<1>7. ASSUME NEW h \in Host, Leave(h) PROVE AliveInv'
  BY <1>7 DEF Leave, Step
<1>8. ASSUME NEW h \in Host, Close(h) PROVE AliveInv'
  BY <1>8 DEF Close, Step
<1>9. ASSUME NEW h \in Host, NoWakers(h) PROVE AliveInv'
  BY <1>9 DEF NoWakers, Step
<1>10. ASSUME NEW h \in Host, Finish(h) PROVE AliveInv'
  BY <1>10 DEF Finish, Step
<1>11. ASSUME NEW h \in Host, Launch(h) PROVE AliveInv'
  BY <1>11 DEF Launch, Step, Own
<1>12. ASSUME NEW h \in Host, Launched(h) PROVE AliveInv'
  BY <1>12 DEF Launched, Own, Unsent
<1>13. ASSUME NEW h \in Host, NotLaunched(h) PROVE AliveInv'
  BY <1>13 DEF NotLaunched, Own, Unsent
<1>14. ASSUME NEW h \in Host, Joined(h) PROVE AliveInv'
  BY <1>14 DEF Joined, Own
<1>15. ASSUME NEW h \in Host, StopThread(h) PROVE AliveInv'
  BY <1>15 DEF StopThread, At, Own
<1>16. ASSUME NEW h \in Host, RequestExit(h) PROVE AliveInv'
  BY <1>16 DEF RequestExit, At, Own
<1>17. ASSUME NEW h \in Host, Stopped(h) PROVE AliveInv'
  BY <1>17 DEF Stopped, Own
<1>18. ASSUME NEW h \in Host, Panic(h) PROVE AliveInv'
  BY <1>18 DEF Panic
<1>19. ASSUME NEW p \in Poster, SetFlag(p) PROVE AliveInv'
  BY <1>19 DEF SetFlag, At
<1>20. ASSUME NEW p \in Poster, AddWaker(p) PROVE AliveInv'
  BY <1>20 DEF AddWaker, At
<1>21. ASSUME NEW p \in Poster, LoadAlive(p) PROVE AliveInv'
  BY <1>21 DEF LoadAlive, At
<1>22. ASSUME NEW p \in Poster, Exchange(p) PROVE AliveInv'
  BY <1>22 DEF Exchange, At
<1>23. ASSUME NEW p \in Poster, Queue(p) PROVE AliveInv'
  BY <1>23 DEF Queue, At
<1>24. ASSUME NEW p \in Poster, SubWaker(p) PROVE AliveInv'
  BY <1>24 DEF SubWaker, At
<1>25. ASSUME NEW p \in Poster, Answered(p) PROVE AliveInv'
  BY <1>25 DEF Answered, At
<1>26. ASSUME NEW p \in Caller, NEW h \in Host, Send(p, h) PROVE AliveInv'
  BY <1>26 DEF Send, At
<1>27. CASE Drain
  BY <1>27 DEF Drain
<1>28. CASE UNCHANGED vars
  BY <1>28 DEF vars
<1>29. QED
  BY <1>1, <1>2, <1>3, <1>4, <1>5, <1>6, <1>7, <1>8, <1>9, <1>10, <1>11, <1>12, <1>13, <1>14,
     <1>15, <1>16, <1>17, <1>18, <1>19, <1>20, <1>21, <1>22, <1>23, <1>24, <1>25, <1>26, <1>27,
     <1>28
     DEF Next, RunStep, PostStep, OwnerStep

\* Every step keeps the wakes inside a run loop and the registration unique.
LEMMA WakeStep ==
    ASSUME TypeOK, RunInv, AliveInv, WakeInv, [Next]_vars
    PROVE  WakeInv'
<1> USE DEF TypeOK, RunInv, AliveInv, WakeInv, Busy, Open, SetUp, runVars, wakeVars,
        posterVars, history
<1>1. ASSUME NEW h \in Host, Claim(h) PROVE WakeInv'
  BY <1>1 DEF Claim, Step
<1>2. ASSUME NEW h \in Host, Reset(h) PROVE WakeInv'
  BY <1>2 DEF Reset, Step
<1>3. ASSUME NEW h \in Host, InitLoop(h) PROVE WakeInv'
  BY <1>3 DEF InitLoop, Step
<1>4. ASSUME NEW h \in Host, Execute(h) PROVE WakeInv'
  BY <1>4 DEF Execute, Step
<1>5. ASSUME NEW h \in Host, TakeWake(h) PROVE WakeInv'
  BY <1>5 DEF TakeWake, Step
<1>6. ASSUME NEW h \in Host, OnWake(h) PROVE WakeInv'
  BY <1>6 DEF OnWake, Step
<1>7. ASSUME NEW h \in Host, Leave(h) PROVE WakeInv'
  BY <1>7 DEF Leave, Step
<1>8. ASSUME NEW h \in Host, Close(h) PROVE WakeInv'
  BY <1>8 DEF Close, Step
<1>9. ASSUME NEW h \in Host, NoWakers(h) PROVE WakeInv'
  BY <1>9 DEF NoWakers, Step
<1>10. ASSUME NEW h \in Host, Finish(h) PROVE WakeInv'
  BY <1>10 DEF Finish, Step
<1>11. ASSUME NEW h \in Host, Launch(h) PROVE WakeInv'
  BY <1>11 DEF Launch, Step, Own
<1>12. ASSUME NEW h \in Host, Launched(h) PROVE WakeInv'
  BY <1>12 DEF Launched, Own, Unsent
<1>13. ASSUME NEW h \in Host, NotLaunched(h) PROVE WakeInv'
  BY <1>13 DEF NotLaunched, Own, Unsent
<1>14. ASSUME NEW h \in Host, Joined(h) PROVE WakeInv'
  BY <1>14 DEF Joined, Own
<1>15. ASSUME NEW h \in Host, StopThread(h) PROVE WakeInv'
  BY <1>15 DEF StopThread, At, Own
<1>16. ASSUME NEW h \in Host, RequestExit(h) PROVE WakeInv'
  BY <1>16 DEF RequestExit, At, Own
<1>17. ASSUME NEW h \in Host, Stopped(h) PROVE WakeInv'
  BY <1>17 DEF Stopped, Own
<1>18. ASSUME NEW h \in Host, Panic(h) PROVE WakeInv'
  BY <1>18 DEF Panic
<1>19. ASSUME NEW p \in Poster, SetFlag(p) PROVE WakeInv'
  BY <1>19 DEF SetFlag, At
<1>20. ASSUME NEW p \in Poster, AddWaker(p) PROVE WakeInv'
  BY <1>20 DEF AddWaker, At
<1>21. ASSUME NEW p \in Poster, LoadAlive(p) PROVE WakeInv'
  BY <1>21 DEF LoadAlive, At
<1>22. ASSUME NEW p \in Poster, Exchange(p) PROVE WakeInv'
  BY <1>22 DEF Exchange, At
<1>23. ASSUME NEW p \in Poster, Queue(p) PROVE WakeInv'
  BY <1>23 DEF Queue, At
<1>24. ASSUME NEW p \in Poster, SubWaker(p) PROVE WakeInv'
  BY <1>24 DEF SubWaker, At
<1>25. ASSUME NEW p \in Poster, Answered(p) PROVE WakeInv'
  BY <1>25 DEF Answered, At
<1>26. ASSUME NEW p \in Caller, NEW h \in Host, Send(p, h) PROVE WakeInv'
  BY <1>26 DEF Send, At
<1>27. CASE Drain
  BY <1>27 DEF Drain
<1>28. CASE UNCHANGED vars
  BY <1>28 DEF vars
<1>29. QED
  BY <1>1, <1>2, <1>3, <1>4, <1>5, <1>6, <1>7, <1>8, <1>9, <1>10, <1>11, <1>12, <1>13, <1>14,
     <1>15, <1>16, <1>17, <1>18, <1>19, <1>20, <1>21, <1>22, <1>23, <1>24, <1>25, <1>26, <1>27,
     <1>28
     DEF Next, RunStep, PostStep, OwnerStep

\* Every step keeps jobs and exits flagged and on their way.
LEMMA JobStep ==
    ASSUME TypeOK, RunInv, AliveInv, WakeInv, JobInv, [Next]_vars
    PROVE  JobInv'
<1> USE DEF TypeOK, RunInv, AliveInv, WakeInv, JobInv, Busy, Open, Coming, Poster, Unsent,
        runVars, wakeVars, posterVars, history
<1>1. ASSUME NEW h \in Host, Claim(h) PROVE JobInv'
  BY <1>1 DEF Claim, Step
<1>2. ASSUME NEW h \in Host, Reset(h) PROVE JobInv'
  BY <1>2 DEF Reset, Step
<1>3. ASSUME NEW h \in Host, InitLoop(h) PROVE JobInv'
  BY <1>3 DEF InitLoop, Step
<1>4. ASSUME NEW h \in Host, Execute(h) PROVE JobInv'
  BY <1>4 DEF Execute, Step
<1>5. ASSUME NEW h \in Host, TakeWake(h) PROVE JobInv'
  BY <1>5 DEF TakeWake, Step
<1>6. ASSUME NEW h \in Host, OnWake(h) PROVE JobInv'
  BY <1>6 DEF OnWake, Step
<1>7. ASSUME NEW h \in Host, Leave(h) PROVE JobInv'
  BY <1>7 DEF Leave, Step
<1>8. ASSUME NEW h \in Host, Close(h) PROVE JobInv'
  BY <1>8 DEF Close, Step
<1>9. ASSUME NEW h \in Host, NoWakers(h) PROVE JobInv'
  BY <1>9 DEF NoWakers, Step
<1>10. ASSUME NEW h \in Host, Finish(h) PROVE JobInv'
  BY <1>10 DEF Finish, Step
<1>11. ASSUME NEW h \in Host, Launch(h) PROVE JobInv'
  BY <1>11 DEF Launch, Step, Own
<1>12. ASSUME NEW h \in Host, Launched(h) PROVE JobInv'
  BY <1>12 DEF Launched, Own
<1>13. ASSUME NEW h \in Host, NotLaunched(h) PROVE JobInv'
  BY <1>13 DEF NotLaunched, Own
<1>14. ASSUME NEW h \in Host, Joined(h) PROVE JobInv'
  BY <1>14 DEF Joined, Own
<1>15. ASSUME NEW h \in Host, StopThread(h) PROVE JobInv'
  BY <1>15 DEF StopThread, At, Own
<1>16. ASSUME NEW h \in Host, RequestExit(h) PROVE JobInv'
  BY <1>16 DEF RequestExit, At, Own
<1>17. ASSUME NEW h \in Host, Stopped(h) PROVE JobInv'
  BY <1>17 DEF Stopped, Own
<1>18. ASSUME NEW h \in Host, Panic(h) PROVE JobInv'
  BY <1>18 DEF Panic
<1>19. ASSUME NEW p \in Poster, SetFlag(p) PROVE JobInv'
  BY <1>19 DEF SetFlag, At
<1>20. ASSUME NEW p \in Poster, AddWaker(p) PROVE JobInv'
  BY <1>20 DEF AddWaker, At
<1>21. ASSUME NEW p \in Poster, LoadAlive(p) PROVE JobInv'
  BY <1>21 DEF LoadAlive, At
<1>22. ASSUME NEW p \in Poster, Exchange(p) PROVE JobInv'
  BY <1>22 DEF Exchange, At
<1>23. ASSUME NEW p \in Poster, Queue(p) PROVE JobInv'
  BY <1>23 DEF Queue, At
<1>24. ASSUME NEW p \in Poster, SubWaker(p) PROVE JobInv'
  BY <1>24 DEF SubWaker, At
<1>25. ASSUME NEW p \in Poster, Answered(p) PROVE JobInv'
  BY <1>25 DEF Answered, At
<1>26. ASSUME NEW p \in Caller, NEW h \in Host, Send(p, h) PROVE JobInv'
  BY <1>26 DEF Send, At
<1>27. CASE Drain
  BY <1>27 DEF Drain
<1>28. CASE UNCHANGED vars
  BY <1>28 DEF vars
<1>29. QED
  BY <1>1, <1>2, <1>3, <1>4, <1>5, <1>6, <1>7, <1>8, <1>9, <1>10, <1>11, <1>12, <1>13, <1>14,
     <1>15, <1>16, <1>17, <1>18, <1>19, <1>20, <1>21, <1>22, <1>23, <1>24, <1>25, <1>26, <1>27,
     <1>28
     DEF Next, RunStep, PostStep, OwnerStep

\* The inductive invariant holds initially.
LEMMA InitInv == Init => IInv
<1> SUFFICES ASSUME Init PROVE IInv
  OBVIOUS
<1>1. TypeOK
  BY DEF Init, TypeOK, RunPC, OwnerPC, PosterPC, Poster
<1>2. RunInv /\ AliveInv
  BY DEF Init, RunInv, AliveInv, Busy, Open
<1>3. WakeInv
  BY DEF Init, WakeInv
<1>4. JobInv
  BY DEF Init, JobInv, Unsent
<1>5. QED
  BY <1>1, <1>2, <1>3, <1>4 DEF IInv

\* With memory as the code assumes it, the inductive invariant always holds.
LEMMA Invariance == ASSUME StoreBuffer = FALSE PROVE Spec => []IInv
<1>1. Init => IInv
  BY InitInv
<1>2. IInv /\ [Next]_vars => IInv'
  BY TypeStep, RunStepKeeps, AliveStep, WakeStep, JobStep DEF IInv
<1>3. QED
  BY <1>1, <1>2, PTL DEF Spec

\* The types are right whatever the memory does.
THEOREM TypeCorrect == Spec => []TypeOK
<1>1. Init => TypeOK
  BY InitInv DEF IInv
<1>2. TypeOK /\ [Next]_vars => TypeOK'
  BY TypeStep
<1>3. QED
  BY <1>1, <1>2, PTL DEF Spec

\* bluecaster_wake is never called without a run loop: the SAFETY comment of
\* post_wake holds for every number of stacks and threads once the store of
\* ALIVE is seen before WAKERS is read.
THEOREM WakesAreSafe == ASSUME StoreBuffer = FALSE PROVE Spec => []WakeInLoop
<1>1. IInv => WakeInLoop
  BY DEF IInv, WakeInv, WakeInLoop
<1>2. QED
  BY <1>1, Invariance, PTL

\* The wake registration is never added to the run loop's list twice, however
\* many threads wake it.
THEOREM RegistrationOnce == ASSUME StoreBuffer = FALSE PROVE Spec => []AddedOnce
<1>1. IInv => AddedOnce
  BY DEF IInv, WakeInv, AddedOnce
<1>2. QED
  BY <1>1, Invariance, PTL

\* RUNNING lets one run loop exist at a time, whatever the memory does.
THEOREM OneLoopAtATime == Spec => []OneLoop
<1>1. Init => TypeOK /\ RunInv
  BY InitInv DEF IInv
<1>2. TypeOK /\ RunInv /\ [Next]_vars => (TypeOK /\ RunInv)'
  BY TypeStep, RunStepKeeps
<1>3. TypeOK /\ RunInv => OneLoop
  BY DEF RunInv, OneLoop, Busy, RunPC
<1>4. QED
  BY <1>1, <1>2, <1>3, PTL DEF Spec

\* Merged wakes lose nothing: while a run loop waits, every job sent to it and
\* an exit asked of it have a wake on its way.
THEOREM NoLostWake == ASSUME StoreBuffer = FALSE PROVE Spec => []NothingLost
<1>1. IInv => NothingLost
  BY DEF IInv, JobInv, NothingLost
<1>2. QED
  BY <1>1, Invariance, PTL

-----------------------------------------------------------------------------
(***************************************************************************)
(* The HCI transport: the inductive invariant                              *)
(***************************************************************************)

OwnCommands == {"bt", "btReset"}              \* commands of BTstack
Command     == OwnCommands \cup {"loader"}
Heard       == Command \cup {"closeReset"}    \* what the controller was sent
Packet      == Heard \cup {"none", "acl", "event"}
Queued      == [run : 1 .. MaxRuns, what : Packet \cup {"local"}]

\* What ends a wait of BTstack
Replies == {r \in Queued : r.what \in OwnCommands \cup {"local"}}

\* One of S is in the sequence, and at most one
In(s, S)   == \E i \in DOMAIN s : s[i] \in S
Once(s, S) == \A i, j \in DOMAIN s : s[i] \in S /\ s[j] \in S => i = j

\* The transport is open, or its threads are being waited for
Open4 == opened \/ rl = "join"

Closing == {"close", "join", "reset", "wait"}

\* Between raw mode and BTstack's own open of the transport
Renewing ==
    \/ rl \in {"reopen", "reopenInPump"}
    \/ rl \in Closing /\ after \in {"reopen", "reopenInPump"}

CtlType  == [has : Seq(Heard), events : Seq(Heard), acl : Nat, gone : BOOLEAN]
UsbType  == [stop : BOOLEAN, boot : BOOLEAN, generation : 0 .. MaxRuns]
NthType  == [cmd : Nat, data : Nat, fault : Nat]
ThType   == [Threads4 -> {"idle", "queue", "fail", "flag", "report", "end"}]
HeldType == {h \in [Readers -> Packet] : h["aclIn"] \in {"none", "acl", "event"}}

ScalarTypes ==
    /\ runs \in 0 .. MaxRuns
    /\ rl \in {"idle", "init", "loop", "pump", "woken", "reopen", "reopenInPump", "end"} \cup Closing
    /\ after \in {"idle", "loop", "reopen", "reopenInPump", "end"}
    /\ hci \in {"off", "starting", "on", "halted"}
    /\ aclq \in Nat /\ sent \in Nat /\ owed \in Int
    /\ seen \in SUBSET {"late", "unanswered", "overlap", "hung", "lost"}

FlagTypes ==
    /\ raw \in BOOLEAN /\ loader \in BOOLEAN /\ opened \in BOOLEAN /\ inFlight \in BOOLEAN
    /\ failed \in BOOLEAN /\ wakeFlags \in BOOLEAN /\ stalled \in BOOLEAN
    /\ reserved \in BOOLEAN /\ waits \in BOOLEAN

PipeTypes == usb \in UsbType /\ th \in ThType /\ held \in HeldType /\ errs \in [Readers -> Nat]

QueueTypes == cmdq \in Seq(Command) /\ rx \in Seq(Queued)

TransportTypes ==
    ScalarTypes /\ FlagTypes /\ PipeTypes /\ QueueTypes /\ ctl \in CtlType /\ nth \in NthType

\* The life of a run: the threads run while the transport is open and until
\* they are joined, with the generation of the run
LifeInv ==
    /\ rl # "idle" => runs >= 1
    /\ rl \in Closing => after # "idle"
    /\ opened => rl \in {"loop", "pump", "woken", "close"} /\ ~usb.stop
    /\ Open4 => usb.generation = runs
    /\ ~Open4 => \A t \in Threads4 : th[t] = "end"
    /\ \A i \in DOMAIN rx : rl # "idle" => rx[i].run = runs

\* Raw mode: BTstack has sent nothing
RawInv ==
    /\ loader => raw
    /\ raw => hci = "off"
    /\ Renewing => hci = "starting" /\ ~raw
    /\ rl = "init" => hci = "off" /\ ~raw /\ rx = <<>>
    /\ raw \/ Renewing \/ rl = "init" => owed = 0 /\ ~reserved /\ ~waits

\* Every report stands for a packet of BTstack, and so does every command on
\* its way
Pending == Len(cmdq) + (IF th["cmdOut"] \in {"report", "fail", "flag"} THEN 1 ELSE 0)
ReportInv ==
    /\ "late" \notin seen /\ ~raw => owed >= sent
    /\ "late" \notin seen /\ ~raw /\ Open4 => owed >= sent + Pending
    /\ hci = "on" /\ opened /\ reserved =>
           sent > 0 \/ cmdq # <<>> \/ th["cmdOut"] \in {"report", "fail", "flag"} \/ failed

\* A thread that gave up has told so
FailInv ==
    /\ opened => \A t \in Threads4 : th[t] \in {"flag", "end"} => failed
    /\ failed /\ rl # "woken" => stalled \/ wakeFlags \/ \E t \in Threads4 : th[t] = "flag"
    /\ "lost" \in seen /\ rl # "idle" => failed \/ th["cmdOut"] = "fail"

\* Where the command BTstack waits for is, or its answer
InCmd    == In(cmdq, OwnCommands)
InHas    == In(ctl.has, OwnCommands)
InEvents == In(ctl.events, OwnCommands)
InHeld   == th["eventIn"] = "queue" /\ held["eventIn"] \in OwnCommands
InRx     == In(rx, Replies)

OneCommand ==
    /\ InCmd \/ InHas \/ InEvents \/ InHeld \/ InRx => waits
    /\ InCmd => ~InHas /\ ~InEvents /\ ~InHeld /\ ~InRx
    /\ InHas => ~InEvents /\ ~InHeld /\ ~InRx
    /\ InEvents => ~InHeld /\ ~InRx
    /\ InHeld => ~InRx
    /\ Once(cmdq, OwnCommands) /\ Once(ctl.has, OwnCommands) /\ Once(ctl.events, OwnCommands)
    /\ Once(rx, Replies)

\* While the close waits for it, the HCI Reset is the last of what the
\* controller was sent
Awaited ==
    LET n == Len(ctl.has)
        m == Len(ctl.events)
    IN  \/ /\ n > 0 /\ ctl.has[n] = "closeReset" /\ ~In(ctl.events, Resets)
           /\ \A i \in 1 .. n - 1 : ctl.has[i] \notin Resets
        \/ /\ n = 0 /\ m > 0 /\ ctl.events[m] = "closeReset"
           /\ \A i \in 1 .. m - 1 : ctl.events[i] \notin Resets
        \/ n = 0 /\ m = 0

Calm == seen \cap {"unanswered", "overlap"} = {}

StaysCalm ==
    /\ Calm' => Calm
    /\ "hung" \in seen' => "hung" \in seen \/ CloseReset \/ WriteCommand

\* As long as every reset of a close was answered
ResetBody ==
    /\ "hung" \notin seen
    /\ rl # "wait" => ~In(ctl.has, {"closeReset"}) /\ ~In(ctl.events, {"closeReset"})
    /\ rl = "wait" => Awaited
    /\ Open4 => OneCommand
    /\ ~opened /\ rl \notin {"join", "reset", "wait"} => ~InHas /\ ~InEvents
    /\ raw \/ Renewing => ~InHeld /\ ~InRx /\ ~InHas /\ ~InEvents /\ (Open4 => ~InCmd)
    /\ Open4 /\ (usb.boot \/ In(cmdq, {"loader"})) => raw \/ Renewing

ResetInv == Calm => ResetBody

TransportInv == TransportTypes /\ LifeInv /\ RawInv /\ ReportInv /\ FailInv /\ ResetInv
(***************************************************************************)
(* Lemmas: sequences                                                       *)
(***************************************************************************)

\* What Append does to In and Once
LEMMA AppendIn ==
    ASSUME NEW T, NEW s \in Seq(T), NEW x \in T, NEW S
    PROVE  /\ In(Append(s, x), S) <=> In(s, S) \/ x \in S
           /\ Once(s, S) /\ (In(s, S) => x \notin S) => Once(Append(s, x), S)
<1>1. /\ Append(s, x) \in Seq(T) /\ Len(Append(s, x)) = Len(s) + 1
      /\ \A i \in DOMAIN s : Append(s, x)[i] = s[i]
      /\ Append(s, x)[Len(s) + 1] = x
      /\ DOMAIN s = 1 .. Len(s) /\ DOMAIN Append(s, x) = 1 .. Len(s) + 1 /\ Len(s) \in Nat
  OBVIOUS
<1>2. \A i \in DOMAIN Append(s, x) : i \in DOMAIN s \/ i = Len(s) + 1
  BY <1>1
<1>3. In(Append(s, x), S) <=> In(s, S) \/ x \in S
  BY <1>1, <1>2 DEF In
<1>4. Once(s, S) /\ (In(s, S) => x \notin S) => Once(Append(s, x), S)
  BY <1>1, <1>2 DEF In, Once
<1>5. QED
  BY <1>3, <1>4

\* What Tail does to them
LEMMA TailIn ==
    ASSUME NEW T, NEW s \in Seq(T), s # <<>>, NEW S
    PROVE  /\ In(s, S) <=> Head(s) \in S \/ In(Tail(s), S)
           /\ Once(s, S) => Once(Tail(s), S)
           /\ Once(s, S) /\ Head(s) \in S => ~In(Tail(s), S)
           /\ Head(s) \in T /\ Tail(s) \in Seq(T)
<1>1. /\ Len(s) \in Nat \ {0} /\ DOMAIN s = 1 .. Len(s) /\ Head(s) = s[1]
      /\ Tail(s) \in Seq(T) /\ DOMAIN Tail(s) = 1 .. Len(s) - 1
      /\ \A i \in 1 .. Len(s) - 1 : Tail(s)[i] = s[i + 1]
  OBVIOUS
<1>2. \A i \in DOMAIN s : i = 1 \/ (i - 1 \in DOMAIN Tail(s) /\ Tail(s)[i - 1] = s[i])
  BY <1>1
<1>3. \A i \in DOMAIN Tail(s) : i + 1 \in DOMAIN s /\ Tail(s)[i] = s[i + 1] /\ i \in Nat /\ i + 1 # 1
  BY <1>1
<1>4. 1 \in DOMAIN s /\ Head(s) = s[1]
  BY <1>1
<1>5. In(s, S) <=> Head(s) \in S \/ In(Tail(s), S)
  BY <1>2, <1>3, <1>4 DEF In
<1>6. Once(s, S) => Once(Tail(s), S)
  BY <1>3 DEF Once
<1>7. Once(s, S) /\ Head(s) \in S => ~In(Tail(s), S)
  BY <1>3, <1>4 DEF Once, In
<1>8. Head(s) \in T
  BY <1>1
<1>9. QED
  BY <1>1, <1>5, <1>6, <1>7, <1>8

\* The empty sequence
LEMMA EmptyIn == \A S : ~In(<<>>, S) /\ Once(<<>>, S)
  BY DEF In, Once

(***************************************************************************)
(* Lemmas: one per part of the invariant                                   *)
(***************************************************************************)

\* Tail, element by element
LEMMA TailAt ==
    ASSUME NEW T, NEW s \in Seq(T), s # <<>>
    PROVE  /\ Len(s) \in Nat \ {0} /\ Head(s) = s[1] /\ DOMAIN s = 1 .. Len(s)
           /\ Tail(s) \in Seq(T) /\ Len(Tail(s)) = Len(s) - 1
           /\ DOMAIN Tail(s) = 1 .. Len(s) - 1
           /\ \A i \in 1 .. Len(s) - 1 : Tail(s)[i] = s[i + 1] /\ i + 1 \in 1 .. Len(s)
           /\ \A i \in 1 .. Len(s) - 2 : i \in 1 .. Len(s) - 1 /\ i + 1 \in 1 .. Len(s) - 1
           /\ Len(s) # 1 => Len(s) - 1 \in 1 .. Len(s) - 1 /\ 1 \in 1 .. Len(s) - 1 /\ Tail(s)[Len(s) - 1] = s[Len(s)]
           /\ Len(s) = 1 => Tail(s) = <<>>
<1>1. /\ Len(s) \in Nat \ {0} /\ Head(s) = s[1] /\ DOMAIN s = 1 .. Len(s)
      /\ Tail(s) \in Seq(T) /\ Len(Tail(s)) = Len(s) - 1 /\ DOMAIN Tail(s) = 1 .. Len(s) - 1
      /\ \A i \in 1 .. Len(s) - 1 : Tail(s)[i] = s[i + 1]
  OBVIOUS
<1>2. Len(s) = 1 => Tail(s) = <<>>
  BY <1>1
<1>3. ASSUME Len(s) # 1
      PROVE  /\ Len(s) - 1 \in 1 .. Len(s) - 1 /\ 1 \in 1 .. Len(s) - 1
             /\ Tail(s)[Len(s) - 1] = s[Len(s)]
  <2>1. Len(s) - 1 \in 1 .. Len(s) - 1 /\ 1 \in 1 .. Len(s) - 1 /\ (Len(s) - 1) + 1 = Len(s)
    BY <1>1, <1>3
  <2>2. Tail(s)[Len(s) - 1] = s[(Len(s) - 1) + 1]
    BY <1>1, <2>1
  <2>3. QED
    BY <2>1, <2>2
<1>4. QED
  BY <1>1, <1>2, <1>3

\* Every step keeps the types of the scalars.
LEMMA ScalarStep ==
    ASSUME TransportTypes, LifeInv, [TransportNext]_transportVars
    PROVE  ScalarTypes'
<1> USE TransportAssumption DEF TransportTypes, ScalarTypes, Closing, bridge, pipes, btstack,
        InLoop
<1>1. CASE StartRun
  BY <1>1 DEF StartRun
<1>2. CASE RawBegin
  BY <1>2 DEF RawBegin, OpenUsb
<1>3. CASE InitHci
  BY <1>3 DEF InitHci, OpenUsb
<1>4. CASE PowerOff
  BY <1>4 DEF PowerOff
<1>5. CASE ExitLoop
  BY <1>5 DEF ExitLoop
<1>6. CASE EndRun
  BY <1>6 DEF EndRun
<1>7. CASE CloseUsb
  BY <1>7 DEF CloseUsb
<1>8. CASE JoinThreads
  BY <1>8 DEF JoinThreads
<1>9. CASE CloseReset
  BY <1>9 DEF CloseReset, Receives, Fault, Counted
<1>10. CASE CloseWait
  BY <1>10 DEF CloseWait, Fault, Counted
<1>11. CASE LoaderSends
  BY <1>11 DEF LoaderSends, HandOver, Counted
<1>12. CASE SetBootloader
  BY <1>12 DEF SetBootloader
<1>13. CASE LoaderDone
  BY <1>13 DEF LoaderDone
<1>14. CASE LoaderFails
  BY <1>14 DEF LoaderFails
<1>15. CASE ReopenUsb
  BY <1>15 DEF ReopenUsb, OpenUsb
<1>16. CASE BtSendsCommand
  BY <1>16 DEF BtSendsCommand, BtMaySend, HandOver, Counted
<1>17. CASE BtSendsLeCommand
  BY <1>17 DEF BtSendsLeCommand, BtMaySend, Counted
<1>18. CASE BtSendsData
  BY <1>18 DEF BtSendsData, BtMaySend, Counted
<1>19. CASE Pump
  BY <1>19 DEF Pump
<1>20. CASE PumpPacket
  BY <1>20 DEF PumpPacket
<1>21. CASE PumpEnd
  BY <1>21 DEF PumpEnd
<1>22. CASE OnWakeApp
  BY <1>22 DEF OnWakeApp
<1>23. ASSUME NEW t \in Readers, ReadPacket(t) PROVE ScalarTypes'
  BY <1>23 DEF ReadPacket, Current
<1>24. ASSUME NEW t \in Readers, QueuePacket(t) PROVE ScalarTypes'
  BY <1>24 DEF QueuePacket
<1>25. ASSUME NEW t \in Readers, ReadError(t) PROVE ScalarTypes'
  BY <1>25 DEF ReadError, Fault, Counted
<1>26. ASSUME NEW t \in Threads4, Fails(t) PROVE ScalarTypes'
  BY <1>26 DEF Fails, Current
<1>27. ASSUME NEW t \in Threads4, FlagsFailure(t) PROVE ScalarTypes'
  BY <1>27 DEF FlagsFailure
<1>28. CASE WriteCommand
  BY <1>28 DEF WriteCommand, Receives, Fault, Counted
<1>29. CASE ReportSent
  BY <1>29 DEF ReportSent, Current
<1>30. CASE WriteData
  BY <1>30 DEF WriteData
<1>31. CASE Answers
  BY <1>31 DEF Answers
<1>32. CASE SendsData
  BY <1>32 DEF SendsData, Counted
<1>33. CASE Unplugged
  BY <1>33 DEF Unplugged, Fault, Counted
<1>34. CASE UNCHANGED transportVars
  BY <1>34 DEF transportVars
<1> HIDE DEF TransportTypes, ScalarTypes
<1>35. QED
  BY <1>1, <1>2, <1>3, <1>4, <1>5, <1>6, <1>7, <1>8, <1>9, <1>10, <1>11, <1>12, <1>13, <1>14,
     <1>15, <1>16, <1>17, <1>18, <1>19, <1>20, <1>21, <1>22, <1>23, <1>24, <1>25, <1>26, <1>27,
     <1>28, <1>29, <1>30, <1>31, <1>32, <1>33, <1>34
     DEF TransportNext

\* Every step keeps the types of the flags.
LEMMA FlagStep ==
    ASSUME TransportTypes, [TransportNext]_transportVars
    PROVE  FlagTypes'
<1> USE DEF TransportTypes, FlagTypes, bridge, pipes, btstack, InLoop
<1>1. CASE StartRun
  BY <1>1 DEF StartRun
<1>2. CASE RawBegin
  BY <1>2 DEF RawBegin, OpenUsb
<1>3. CASE InitHci
  BY <1>3 DEF InitHci, OpenUsb
<1>4. CASE PowerOff
  BY <1>4 DEF PowerOff
<1>5. CASE ExitLoop
  BY <1>5 DEF ExitLoop
<1>6. CASE EndRun
  BY <1>6 DEF EndRun
<1>7. CASE CloseUsb
  BY <1>7 DEF CloseUsb
<1>8. CASE JoinThreads
  BY <1>8 DEF JoinThreads
<1>9. CASE CloseReset
  BY <1>9 DEF CloseReset, Receives, Fault, Counted
<1>10. CASE CloseWait
  BY <1>10 DEF CloseWait, Fault, Counted
<1>11. CASE LoaderSends
  BY <1>11 DEF LoaderSends, HandOver, Counted
<1>12. CASE SetBootloader
  BY <1>12 DEF SetBootloader
<1>13. CASE LoaderDone
  BY <1>13 DEF LoaderDone
<1>14. CASE LoaderFails
  BY <1>14 DEF LoaderFails
<1>15. CASE ReopenUsb
  BY <1>15 DEF ReopenUsb, OpenUsb
<1>16. CASE BtSendsCommand
  BY <1>16 DEF BtSendsCommand, BtMaySend, HandOver, Counted
<1>17. CASE BtSendsLeCommand
  BY <1>17 DEF BtSendsLeCommand, BtMaySend, Counted
<1>18. CASE BtSendsData
  BY <1>18 DEF BtSendsData, BtMaySend, Counted
<1>19. CASE Pump
  BY <1>19 DEF Pump
<1>20. CASE PumpPacket
  BY <1>20 DEF PumpPacket
<1>21. CASE PumpEnd
  BY <1>21 DEF PumpEnd
<1>22. CASE OnWakeApp
  BY <1>22 DEF OnWakeApp
<1>23. ASSUME NEW t \in Readers, ReadPacket(t) PROVE FlagTypes'
  BY <1>23 DEF ReadPacket, Current
<1>24. ASSUME NEW t \in Readers, QueuePacket(t) PROVE FlagTypes'
  BY <1>24 DEF QueuePacket
<1>25. ASSUME NEW t \in Readers, ReadError(t) PROVE FlagTypes'
  BY <1>25 DEF ReadError, Fault, Counted
<1>26. ASSUME NEW t \in Threads4, Fails(t) PROVE FlagTypes'
  BY <1>26 DEF Fails, Current
<1>27. ASSUME NEW t \in Threads4, FlagsFailure(t) PROVE FlagTypes'
  BY <1>27 DEF FlagsFailure
<1>28. CASE WriteCommand
  BY <1>28 DEF WriteCommand, Receives, Fault, Counted
<1>29. CASE ReportSent
  BY <1>29 DEF ReportSent, Current
<1>30. CASE WriteData
  BY <1>30 DEF WriteData
<1>31. CASE Answers
  BY <1>31 DEF Answers
<1>32. CASE SendsData
  BY <1>32 DEF SendsData, Counted
<1>33. CASE Unplugged
  BY <1>33 DEF Unplugged, Fault, Counted
<1>34. CASE UNCHANGED transportVars
  BY <1>34 DEF transportVars
<1> HIDE DEF TransportTypes, FlagTypes
<1>35. QED
  BY <1>1, <1>2, <1>3, <1>4, <1>5, <1>6, <1>7, <1>8, <1>9, <1>10, <1>11, <1>12, <1>13, <1>14,
     <1>15, <1>16, <1>17, <1>18, <1>19, <1>20, <1>21, <1>22, <1>23, <1>24, <1>25, <1>26, <1>27,
     <1>28, <1>29, <1>30, <1>31, <1>32, <1>33, <1>34
     DEF TransportNext

\* Every step keeps the types of what the threads share.
LEMMA PipeStep ==
    ASSUME TransportTypes, [TransportNext]_transportVars
    PROVE  PipeTypes'
<1> USE TransportAssumption DEF TransportTypes, PipeTypes, ScalarTypes, UsbType, ThType,
        HeldType, Readers, Threads4, bridge, pipes, btstack
<1>1. CASE StartRun
  BY <1>1 DEF StartRun
<1>2. CASE RawBegin
  <2>1. CASE OpenUsb
    <3>1. /\ usb' = [stop |-> FALSE, boot |-> FALSE, generation |-> runs]
          /\ th' = [t \in Threads4 |-> "idle"] /\ held' = [t \in Readers |-> "none"]
          /\ errs' = [t \in Readers |-> 0]
      BY <2>1 DEF OpenUsb
    <3>2. QED
      BY <3>1 DEF TransportTypes, ScalarTypes, PipeTypes, UsbType, ThType, HeldType, Packet
  <2>2. CASE ~OpenUsb
    BY <1>2, <2>2 DEF RawBegin, PipeTypes, TransportTypes
  <2>3. QED
    BY <2>1, <2>2
<1>3. CASE InitHci
  <2>1. CASE OpenUsb
    <3>1. /\ usb' = [stop |-> FALSE, boot |-> FALSE, generation |-> runs]
          /\ th' = [t \in Threads4 |-> "idle"] /\ held' = [t \in Readers |-> "none"]
          /\ errs' = [t \in Readers |-> 0]
      BY <2>1 DEF OpenUsb
    <3>2. QED
      BY <3>1 DEF TransportTypes, ScalarTypes, PipeTypes, UsbType, ThType, HeldType, Packet
  <2>2. CASE ~OpenUsb
    BY <1>3, <2>2 DEF InitHci, PipeTypes, TransportTypes
  <2>3. QED
    BY <2>1, <2>2
<1>4. CASE PowerOff
  BY <1>4 DEF PowerOff
<1>5. CASE ExitLoop
  BY <1>5 DEF ExitLoop
<1>6. CASE EndRun
  BY <1>6 DEF EndRun
<1>7. CASE CloseUsb
  BY <1>7 DEF CloseUsb
<1>8. CASE JoinThreads
  BY <1>8 DEF JoinThreads
<1>9. CASE CloseReset
  BY <1>9 DEF CloseReset, Receives, Fault, Counted
<1>10. CASE CloseWait
  BY <1>10 DEF CloseWait, Fault, Counted
<1>11. CASE LoaderSends
  BY <1>11 DEF LoaderSends, HandOver, Counted
<1>12. CASE SetBootloader
  BY <1>12 DEF SetBootloader
<1>13. CASE LoaderDone
  BY <1>13 DEF LoaderDone
<1>14. CASE LoaderFails
  BY <1>14 DEF LoaderFails
<1>15. CASE ReopenUsb
  <2>1. CASE OpenUsb
    <3>1. /\ usb' = [stop |-> FALSE, boot |-> FALSE, generation |-> runs]
          /\ th' = [t \in Threads4 |-> "idle"] /\ held' = [t \in Readers |-> "none"]
          /\ errs' = [t \in Readers |-> 0]
      BY <2>1 DEF OpenUsb
    <3>2. QED
      BY <3>1 DEF TransportTypes, ScalarTypes, PipeTypes, UsbType, ThType, HeldType, Packet
  <2>2. CASE ~OpenUsb
    BY <1>15, <2>2 DEF ReopenUsb, PipeTypes, TransportTypes
  <2>3. QED
    BY <2>1, <2>2
<1>16. CASE BtSendsCommand
  BY <1>16 DEF BtSendsCommand, BtMaySend, HandOver, Counted
<1>17. CASE BtSendsLeCommand
  BY <1>17 DEF BtSendsLeCommand, BtMaySend, Counted
<1>18. CASE BtSendsData
  BY <1>18 DEF BtSendsData, BtMaySend, Counted
<1>19. CASE Pump
  BY <1>19 DEF Pump
<1>20. CASE PumpPacket
  BY <1>20 DEF PumpPacket
<1>21. CASE PumpEnd
  BY <1>21 DEF PumpEnd
<1>22. CASE OnWakeApp
  BY <1>22 DEF OnWakeApp
<1>23. ASSUME NEW t \in Readers, ReadPacket(t) PROVE PipeTypes'
  <2>1. held' = [held EXCEPT ![t] = held'[t]] /\ held'[t] \in Packet
        /\ (t = "aclIn" => held'[t] \in {"none", "acl", "event"})
    BY SMTT(30), <1>23 DEF ReadPacket, TransportTypes, PipeTypes, HeldType, CtlType, Packet, Heard
  <2>2. held' \in HeldType
    BY <2>1 DEF TransportTypes, PipeTypes, HeldType
  <2>3. usb' \in UsbType /\ th' \in ThType /\ errs' \in [Readers -> Nat]
    BY <1>23 DEF ReadPacket, TransportTypes, PipeTypes, ThType, Threads4, Readers
  <2>4. QED
    BY <2>2, <2>3 DEF PipeTypes
<1>24. ASSUME NEW t \in Readers, QueuePacket(t) PROVE PipeTypes'
  <2>1. held' = [held EXCEPT ![t] = held'[t]] /\ held'[t] \in Packet
        /\ (t = "aclIn" => held'[t] \in {"none", "acl", "event"})
    BY <1>24 DEF QueuePacket, TransportTypes, PipeTypes, HeldType, CtlType, Packet, Heard
  <2>2. held' \in HeldType
    BY <2>1 DEF TransportTypes, PipeTypes, HeldType
  <2>3. usb' \in UsbType /\ th' \in ThType /\ errs' \in [Readers -> Nat]
    BY <1>24 DEF QueuePacket, TransportTypes, PipeTypes, ThType, Threads4, Readers
  <2>4. QED
    BY <2>2, <2>3 DEF PipeTypes
<1>25. ASSUME NEW t \in Readers, ReadError(t) PROVE PipeTypes'
  BY SMTT(30), <1>25 DEF ReadError, Fault, Counted
<1>26. ASSUME NEW t \in Threads4, Fails(t) PROVE PipeTypes'
  BY <1>26 DEF Fails, Current
<1>27. ASSUME NEW t \in Threads4, FlagsFailure(t) PROVE PipeTypes'
  BY <1>27 DEF FlagsFailure
<1>28. CASE WriteCommand
  BY <1>28 DEF WriteCommand, Receives, Fault, Counted
<1>29. CASE ReportSent
  BY <1>29 DEF ReportSent, Current
<1>30. CASE WriteData
  BY <1>30 DEF WriteData
<1>31. CASE Answers
  BY <1>31 DEF Answers
<1>32. CASE SendsData
  BY <1>32 DEF SendsData, Counted
<1>33. CASE Unplugged
  BY <1>33 DEF Unplugged, Fault, Counted
<1>34. CASE UNCHANGED transportVars
  BY <1>34 DEF transportVars
<1> HIDE DEF TransportTypes, PipeTypes
<1>35. QED
  BY <1>1, <1>2, <1>3, <1>4, <1>5, <1>6, <1>7, <1>8, <1>9, <1>10, <1>11, <1>12, <1>13, <1>14,
     <1>15, <1>16, <1>17, <1>18, <1>19, <1>20, <1>21, <1>22, <1>23, <1>24, <1>25, <1>26, <1>27,
     <1>28, <1>29, <1>30, <1>31, <1>32, <1>33, <1>34
     DEF TransportNext

\* Every step keeps the types of the queues.
LEMMA QueueStep ==
    ASSUME TransportTypes, LifeInv, [TransportNext]_transportVars
    PROVE  QueueTypes'
<1> USE TransportAssumption DEF TransportTypes, QueueTypes, bridge, pipes, btstack
<1>1. CASE StartRun
  BY <1>1 DEF StartRun
<1>2. CASE RawBegin
  <2>1. CASE OpenUsb
    BY <2>1, <1>2 DEF OpenUsb, RawBegin, QueueTypes, TransportTypes
  <2>2. CASE ~OpenUsb
    BY <1>2, <2>2 DEF RawBegin, QueueTypes, TransportTypes
  <2>3. QED
    BY <2>1, <2>2
<1>3. CASE InitHci
  <2>1. CASE OpenUsb
    BY <2>1, <1>3 DEF OpenUsb, InitHci, QueueTypes, TransportTypes
  <2>2. CASE ~OpenUsb
    BY <1>3, <2>2 DEF InitHci, QueueTypes, TransportTypes
  <2>3. QED
    BY <2>1, <2>2
<1>4. CASE PowerOff
  BY <1>4 DEF PowerOff
<1>5. CASE ExitLoop
  BY <1>5 DEF ExitLoop
<1>6. CASE EndRun
  BY <1>6 DEF EndRun
<1>7. CASE CloseUsb
  BY <1>7 DEF CloseUsb
<1>8. CASE JoinThreads
  BY <1>8 DEF JoinThreads
<1>9. CASE CloseReset
  BY <1>9 DEF CloseReset, Receives, Fault, Counted
<1>10. CASE CloseWait
  BY <1>10 DEF CloseWait, Fault, Counted
<1>11. CASE LoaderSends
  <2>1. "loader" \in Command
    BY DEF Command
  <2>2. Append(cmdq, "loader") \in Seq(Command)
    BY <2>1
  <2>3. (cmdq' = cmdq \/ cmdq' = Append(cmdq, "loader")) /\ rx' = rx
    BY <1>11 DEF LoaderSends, HandOver
  <2>4. QED
    BY <2>2, <2>3
<1>12. CASE SetBootloader
  BY <1>12 DEF SetBootloader
<1>13. CASE LoaderDone
  BY <1>13 DEF LoaderDone
<1>14. CASE LoaderFails
  BY <1>14 DEF LoaderFails
<1>15. CASE ReopenUsb
  <2>1. CASE OpenUsb
    BY <2>1, <1>15 DEF OpenUsb, ReopenUsb, QueueTypes, TransportTypes
  <2>2. CASE ~OpenUsb
    BY <1>15, <2>2 DEF ReopenUsb, QueueTypes, TransportTypes
  <2>3. QED
    BY <2>1, <2>2
<1>16. CASE BtSendsCommand
  <2>1. {"btReset", "bt"} \subseteq Command
    BY DEF Command, OwnCommands
  <2>2. (IF hci = "starting" THEN "btReset" ELSE "bt") \in Command
    BY <2>1
  <2>3. cmdq' = cmdq \/ cmdq' = Append(cmdq, IF hci = "starting" THEN "btReset" ELSE "bt")
    BY <1>16 DEF BtSendsCommand, HandOver
  <2>4. rx' = rx
    BY <1>16 DEF BtSendsCommand
  <2>5. Append(cmdq, IF hci = "starting" THEN "btReset" ELSE "bt") \in Seq(Command)
    BY <2>2
  <2>6. QED
    BY <2>3, <2>4, <2>5
<1>17. CASE BtSendsLeCommand
  <2>1. [run |-> runs, what |-> "local"] \in Queued
    BY <1>17 DEF BtSendsLeCommand, BtMaySend, InLoop, LifeInv, ScalarTypes, Queued
  <2>2. QED
    BY <2>1, <1>17 DEF BtSendsLeCommand
<1>18. CASE BtSendsData
  BY <1>18 DEF BtSendsData, BtMaySend, Counted
<1>19. CASE Pump
  BY <1>19 DEF Pump
<1>20. CASE PumpPacket
  BY <1>20 DEF PumpPacket
<1>21. CASE PumpEnd
  BY <1>21 DEF PumpEnd
<1>22. CASE OnWakeApp
  BY <1>22 DEF OnWakeApp
<1>23. ASSUME NEW t \in Readers, ReadPacket(t) PROVE QueueTypes'
  BY <1>23 DEF ReadPacket, Current
<1>24. ASSUME NEW t \in Readers, QueuePacket(t) PROVE QueueTypes'
  <2>1. [run |-> usb.generation, what |-> held[t]] \in Queued
    <3>1. usb.generation \in 0 .. MaxRuns /\ held[t] \in Packet
      BY DEF PipeTypes, UsbType, HeldType
    <3>2. Open4 /\ rl # "idle"
      BY <1>24 DEF QueuePacket, LifeInv, Readers, Threads4, Open4
    <3>3. QED
      BY <3>1, <3>2 DEF LifeInv, ScalarTypes, Queued
  <2>2. QED
    BY <2>1, <1>24 DEF QueuePacket
<1>25. ASSUME NEW t \in Readers, ReadError(t) PROVE QueueTypes'
  BY <1>25 DEF ReadError, Fault, Counted
<1>26. ASSUME NEW t \in Threads4, Fails(t) PROVE QueueTypes'
  BY <1>26 DEF Fails, Current
<1>27. ASSUME NEW t \in Threads4, FlagsFailure(t) PROVE QueueTypes'
  BY <1>27 DEF FlagsFailure
<1>28. CASE WriteCommand
  BY <1>28 DEF WriteCommand, Receives, Fault, Counted
<1>29. CASE ReportSent
  BY <1>29 DEF ReportSent, Current
<1>30. CASE WriteData
  BY <1>30 DEF WriteData
<1>31. CASE Answers
  BY <1>31 DEF Answers
<1>32. CASE SendsData
  BY <1>32 DEF SendsData, Counted
<1>33. CASE Unplugged
  BY <1>33 DEF Unplugged, Fault, Counted
<1>34. CASE UNCHANGED transportVars
  BY <1>34 DEF transportVars
<1> HIDE DEF TransportTypes, QueueTypes
<1>35. QED
  BY <1>1, <1>2, <1>3, <1>4, <1>5, <1>6, <1>7, <1>8, <1>9, <1>10, <1>11, <1>12, <1>13, <1>14,
     <1>15, <1>16, <1>17, <1>18, <1>19, <1>20, <1>21, <1>22, <1>23, <1>24, <1>25, <1>26, <1>27,
     <1>28, <1>29, <1>30, <1>31, <1>32, <1>33, <1>34
     DEF TransportNext

\* Every step keeps the type of the controller.
LEMMA CtlStep ==
    ASSUME TransportTypes, [TransportNext]_transportVars
    PROVE  (ctl \in CtlType)'
<1> USE DEF TransportTypes, bridge, pipes, btstack
<1>a. /\ ctl.has \in Seq(Heard) /\ ctl.events \in Seq(Heard) /\ ctl.acl \in Nat
      /\ ctl.gone \in BOOLEAN
      /\ Append(ctl.has, "closeReset") \in Seq(Heard)
      /\ (ctl.events # <<>> => Tail(ctl.events) \in Seq(Heard))
      /\ (ctl.has # <<>> => Tail(ctl.has) \in Seq(Heard) /\ Append(ctl.events, Head(ctl.has)) \in Seq(Heard))
      /\ (cmdq # <<>> => Append(ctl.has, Head(cmdq)) \in Seq(Heard))
  <2>1. /\ ctl.has \in Seq(Heard) /\ ctl.events \in Seq(Heard) /\ ctl.acl \in Nat
        /\ ctl.gone \in BOOLEAN
    BY DEF CtlType
  <2>2. cmdq \in Seq(Command) /\ Command \subseteq Heard /\ "closeReset" \in Heard
    BY DEF QueueTypes, Command, Heard
  <2>3. cmdq # <<>> => Head(cmdq) \in Heard
    BY <2>2
  <2> HIDE DEF TransportTypes
  <2>4. QED
    BY <2>1, <2>2, <2>3
<1>1. CASE StartRun
  BY <1>1 DEF StartRun
<1>2. CASE RawBegin
  BY <1>2 DEF RawBegin, OpenUsb
<1>3. CASE InitHci
  BY <1>3 DEF InitHci, OpenUsb
<1>4. CASE PowerOff
  BY <1>4 DEF PowerOff
<1>5. CASE ExitLoop
  BY <1>5 DEF ExitLoop
<1>6. CASE EndRun
  BY <1>6 DEF EndRun
<1>7. CASE CloseUsb
  BY <1>7 DEF CloseUsb
<1>8. CASE JoinThreads
  <2>1. ctl' = ctl \/ ctl' = [ctl EXCEPT !.events = <<>>, !.acl = 0]
    BY <1>8 DEF JoinThreads
  <2>2. <<>> \in Seq(Heard) /\ 0 \in Nat
    OBVIOUS
  <2>3. QED
    BY <2>1, <2>2 DEF CtlType
<1>9. CASE CloseReset
  BY <1>9, <1>a DEF CloseReset, Receives, Fault, Counted, CtlType
<1>10. CASE CloseWait
  BY <1>10, <1>a DEF CloseWait, Fault, Counted, CtlType
<1>11. CASE LoaderSends
  BY <1>11 DEF LoaderSends, HandOver, Counted
<1>12. CASE SetBootloader
  BY <1>12 DEF SetBootloader
<1>13. CASE LoaderDone
  BY <1>13 DEF LoaderDone
<1>14. CASE LoaderFails
  BY <1>14 DEF LoaderFails
<1>15. CASE ReopenUsb
  BY <1>15 DEF ReopenUsb, OpenUsb
<1>16. CASE BtSendsCommand
  BY <1>16 DEF BtSendsCommand, BtMaySend, HandOver, Counted
<1>17. CASE BtSendsLeCommand
  BY <1>17 DEF BtSendsLeCommand, BtMaySend, Counted
<1>18. CASE BtSendsData
  BY <1>18 DEF BtSendsData, BtMaySend, Counted
<1>19. CASE Pump
  BY <1>19 DEF Pump
<1>20. CASE PumpPacket
  BY <1>20 DEF PumpPacket
<1>21. CASE PumpEnd
  BY <1>21 DEF PumpEnd
<1>22. CASE OnWakeApp
  BY <1>22 DEF OnWakeApp
<1>23. ASSUME NEW t \in Readers, ReadPacket(t) PROVE (ctl \in CtlType)'
  <2>1. CASE t = "eventIn"
    BY <1>23, <1>a, <2>1 DEF ReadPacket, CtlType
  <2>2. CASE t # "eventIn"
    <3>1. ctl.acl > 0 /\ ctl' = [ctl EXCEPT !.acl = @ - 1]
      BY <1>23, <2>2 DEF ReadPacket
    <3>2. ctl.acl - 1 \in Nat
      BY <3>1, <1>a
    <3>3. QED
      BY <3>1, <3>2 DEF CtlType
  <2>3. QED
    BY <2>1, <2>2
<1>24. ASSUME NEW t \in Readers, QueuePacket(t) PROVE (ctl \in CtlType)'
  BY <1>24 DEF QueuePacket
<1>25. ASSUME NEW t \in Readers, ReadError(t) PROVE (ctl \in CtlType)'
  BY <1>25, <1>a DEF ReadError, Fault, Counted, CtlType
<1>26. ASSUME NEW t \in Threads4, Fails(t) PROVE (ctl \in CtlType)'
  BY <1>26 DEF Fails, Current
<1>27. ASSUME NEW t \in Threads4, FlagsFailure(t) PROVE (ctl \in CtlType)'
  BY <1>27 DEF FlagsFailure
<1>28. CASE WriteCommand
  BY <1>28, <1>a DEF WriteCommand, Receives, Fault, Counted, CtlType
<1>29. CASE ReportSent
  BY <1>29 DEF ReportSent, Current
<1>30. CASE WriteData
  BY <1>30 DEF WriteData
<1>31. CASE Answers
  <2>1. ctl.has # <<>>
        /\ \/ ctl' = [ctl EXCEPT !.has = Tail(@), !.acl = @ + 1]
           \/ ctl' = [ctl EXCEPT !.has = Tail(@), !.events = Append(@, Head(ctl.has))]
    BY <1>31 DEF Answers
  <2>2. Tail(ctl.has) \in Seq(Heard) /\ Append(ctl.events, Head(ctl.has)) \in Seq(Heard)
        /\ ctl.acl + 1 \in Nat
    BY <2>1, <1>a
  <2>3. QED
    BY <2>1, <2>2 DEF CtlType
<1>32. CASE SendsData
  BY <1>32, <1>a DEF SendsData, Counted, CtlType
<1>33. CASE Unplugged
  BY <1>33, <1>a DEF Unplugged, Fault, Counted, CtlType
<1>34. CASE UNCHANGED transportVars
  BY <1>34 DEF transportVars
<1> HIDE DEF TransportTypes
<1>35. QED
  BY <1>1, <1>2, <1>3, <1>4, <1>5, <1>6, <1>7, <1>8, <1>9, <1>10, <1>11, <1>12, <1>13, <1>14,
     <1>15, <1>16, <1>17, <1>18, <1>19, <1>20, <1>21, <1>22, <1>23, <1>24, <1>25, <1>26, <1>27,
     <1>28, <1>29, <1>30, <1>31, <1>32, <1>33, <1>34
     DEF TransportNext

\* Every step keeps the type of the counters.
LEMMA NthStep ==
    ASSUME TransportTypes, [TransportNext]_transportVars
    PROVE  (nth \in NthType)'
<1> USE DEF TransportTypes, NthType, bridge, pipes, btstack
<1>1. CASE StartRun
  BY <1>1 DEF StartRun
<1>2. CASE RawBegin
  BY <1>2 DEF RawBegin, OpenUsb
<1>3. CASE InitHci
  BY <1>3 DEF InitHci, OpenUsb
<1>4. CASE PowerOff
  BY <1>4 DEF PowerOff
<1>5. CASE ExitLoop
  BY <1>5 DEF ExitLoop
<1>6. CASE EndRun
  BY <1>6 DEF EndRun
<1>7. CASE CloseUsb
  BY <1>7 DEF CloseUsb
<1>8. CASE JoinThreads
  BY <1>8 DEF JoinThreads
<1>9. CASE CloseReset
  BY <1>9 DEF CloseReset, Receives, Fault, Counted
<1>10. CASE CloseWait
  BY <1>10 DEF CloseWait, Fault, Counted
<1>11. CASE LoaderSends
  BY <1>11 DEF LoaderSends, HandOver, Counted
<1>12. CASE SetBootloader
  BY <1>12 DEF SetBootloader
<1>13. CASE LoaderDone
  BY <1>13 DEF LoaderDone
<1>14. CASE LoaderFails
  BY <1>14 DEF LoaderFails
<1>15. CASE ReopenUsb
  BY <1>15 DEF ReopenUsb, OpenUsb
<1>16. CASE BtSendsCommand
  BY <1>16 DEF BtSendsCommand, BtMaySend, HandOver, Counted
<1>17. CASE BtSendsLeCommand
  BY <1>17 DEF BtSendsLeCommand, BtMaySend, Counted
<1>18. CASE BtSendsData
  BY <1>18 DEF BtSendsData, BtMaySend, Counted
<1>19. CASE Pump
  BY <1>19 DEF Pump
<1>20. CASE PumpPacket
  BY <1>20 DEF PumpPacket
<1>21. CASE PumpEnd
  BY <1>21 DEF PumpEnd
<1>22. CASE OnWakeApp
  BY <1>22 DEF OnWakeApp
<1>23. ASSUME NEW t \in Readers, ReadPacket(t) PROVE (nth \in NthType)'
  BY <1>23 DEF ReadPacket, Current
<1>24. ASSUME NEW t \in Readers, QueuePacket(t) PROVE (nth \in NthType)'
  BY <1>24 DEF QueuePacket
<1>25. ASSUME NEW t \in Readers, ReadError(t) PROVE (nth \in NthType)'
  BY <1>25 DEF ReadError, Fault, Counted
<1>26. ASSUME NEW t \in Threads4, Fails(t) PROVE (nth \in NthType)'
  BY <1>26 DEF Fails, Current
<1>27. ASSUME NEW t \in Threads4, FlagsFailure(t) PROVE (nth \in NthType)'
  BY <1>27 DEF FlagsFailure
<1>28. CASE WriteCommand
  BY <1>28 DEF WriteCommand, Receives, Fault, Counted
<1>29. CASE ReportSent
  BY <1>29 DEF ReportSent, Current
<1>30. CASE WriteData
  BY <1>30 DEF WriteData
<1>31. CASE Answers
  BY <1>31 DEF Answers
<1>32. CASE SendsData
  BY <1>32 DEF SendsData, Counted
<1>33. CASE Unplugged
  BY <1>33 DEF Unplugged, Fault, Counted
<1>34. CASE UNCHANGED transportVars
  BY <1>34 DEF transportVars
<1> HIDE DEF TransportTypes, NthType
<1>35. QED
  BY <1>1, <1>2, <1>3, <1>4, <1>5, <1>6, <1>7, <1>8, <1>9, <1>10, <1>11, <1>12, <1>13, <1>14,
     <1>15, <1>16, <1>17, <1>18, <1>19, <1>20, <1>21, <1>22, <1>23, <1>24, <1>25, <1>26, <1>27,
     <1>28, <1>29, <1>30, <1>31, <1>32, <1>33, <1>34
     DEF TransportNext

\* Every step keeps the types.
LEMMA TransportTypesStep ==
    ASSUME TransportTypes, LifeInv, [TransportNext]_transportVars
    PROVE  TransportTypes'
  BY ScalarStep, FlagStep, PipeStep, QueueStep, CtlStep, NthStep DEF TransportTypes

\* Every step keeps the life of the threads with that of the transport.
LEMMA LifeStep ==
    ASSUME TransportTypes, LifeInv, [TransportNext]_transportVars
    PROVE  LifeInv'
<1> USE TransportAssumption DEF TransportTypes, LifeInv, Open4, Closing, bridge,
        pipes, btstack
<1>1. CASE StartRun
  BY <1>1 DEF StartRun, ScalarTypes, PipeTypes, ThType, Threads4, UsbType
<1>2. CASE RawBegin
  BY <1>2 DEF RawBegin, OpenUsb, ScalarTypes, PipeTypes, ThType, Threads4, UsbType
<1>3. CASE InitHci
  BY <1>3 DEF InitHci, OpenUsb, ScalarTypes, PipeTypes, ThType, Threads4, UsbType
<1>4. CASE PowerOff
  BY <1>4 DEF PowerOff, ScalarTypes, PipeTypes, ThType, Threads4, UsbType
<1>5. CASE ExitLoop
  BY <1>5 DEF ExitLoop, ScalarTypes, PipeTypes, ThType, Threads4, UsbType
<1>6. CASE EndRun
  BY <1>6 DEF EndRun, ScalarTypes, PipeTypes, ThType, Threads4, UsbType
<1>7. CASE CloseUsb
  BY <1>7 DEF CloseUsb, ScalarTypes, PipeTypes, ThType, Threads4, UsbType
<1>8. CASE JoinThreads
  <2>1. th' = [t \in Threads4 |-> IF th[t] = "idle" THEN "end" ELSE th[t]] /\ AllJoined
        /\ rl = "join" /\ rl' \in {after, "reset"} /\ rx' = rx /\ runs' = runs
        /\ opened' = opened /\ after' = after
        /\ usb' = usb
    BY <1>8 DEF JoinThreads
  <2>2. \A t \in Threads4 : th'[t] = "end"
    BY <2>1 DEF AllJoined
  <2>3. opened = FALSE /\ opened' = FALSE
    BY <2>1
  <2>4. after # "idle" /\ after # "join" /\ rl' # "idle" /\ rl' # "join"
    BY <2>1 DEF ScalarTypes
  <2>5. QED
    BY <2>1, <2>2, <2>3, <2>4
<1>9. CASE CloseReset
  BY <1>9 DEF CloseReset, Receives, Fault, Counted, ScalarTypes, PipeTypes, ThType, Threads4,
     UsbType
<1>10. CASE CloseWait
  BY <1>10 DEF CloseWait, Fault, Counted, ScalarTypes, PipeTypes, ThType, Threads4, UsbType
<1>11. CASE LoaderSends
  BY <1>11 DEF LoaderSends, HandOver, Counted, ScalarTypes, PipeTypes, ThType, Threads4, UsbType
<1>12. CASE SetBootloader
  BY <1>12 DEF SetBootloader, ScalarTypes, PipeTypes, ThType, Threads4, UsbType
<1>13. CASE LoaderDone
  <2>1. /\ rl \in {"loop", "pump"} /\ rl' = "close" /\ after' \in {"reopenInPump", "reopen"}
        /\ runs' = runs
        /\ opened' = opened /\ usb' = usb /\ th' = th /\ rx' = rx
    BY <1>13 DEF LoaderDone, InLoop
  <2>2. QED
    BY <2>1
<1>14. CASE LoaderFails
  BY <1>14 DEF LoaderFails, ScalarTypes, PipeTypes, ThType, Threads4, UsbType
<1>15. CASE ReopenUsb
  BY <1>15 DEF ReopenUsb, OpenUsb, ScalarTypes, PipeTypes, ThType, Threads4, UsbType
<1>16. CASE BtSendsCommand
  BY <1>16 DEF BtSendsCommand, BtMaySend, HandOver, Counted, ScalarTypes, PipeTypes, ThType,
     Threads4, UsbType
<1>17. CASE BtSendsLeCommand
  <2>1. \A i \in DOMAIN rx' : rl' # "idle" => rx'[i].run = runs'
    <3>1. PICK r : /\ r.run = runs /\ rx' = Append(rx, r) /\ rl' = rl /\ runs' = runs
      BY <1>17 DEF BtSendsLeCommand
    <3>2. rx \in Seq(Queued)
      BY DEF QueueTypes
    <3>3. QED
      BY <3>1, <3>2
  <2>2. QED
    BY <1>17, <2>1 DEF BtSendsLeCommand
<1>18. CASE BtSendsData
  BY <1>18 DEF BtSendsData, BtMaySend, Counted, ScalarTypes, PipeTypes, ThType, Threads4,
     UsbType
<1>19. CASE Pump
  BY <1>19 DEF Pump, ScalarTypes, PipeTypes, ThType, Threads4, UsbType
<1>20. CASE PumpPacket
  <2>1. \A i \in DOMAIN rx' : rl' # "idle" => rx'[i].run = runs'
    <3>1. /\ rx \in Seq(Queued) /\ rx # <<>> /\ rx' = Tail(rx) /\ rl' = rl /\ runs' = runs
          /\ rl = "pump"
      BY <1>20 DEF PumpPacket, QueueTypes
    <3>2. \A i \in DOMAIN Tail(rx) : i + 1 \in DOMAIN rx /\ Tail(rx)[i] = rx[i + 1]
      BY <3>1
    <3>3. QED
      BY <3>1, <3>2
  <2>2. QED
    BY <1>20, <2>1 DEF PumpPacket
<1>21. CASE PumpEnd
  BY <1>21 DEF PumpEnd, ScalarTypes, PipeTypes, ThType, Threads4, UsbType
<1>22. CASE OnWakeApp
  BY <1>22 DEF OnWakeApp, ScalarTypes, PipeTypes, ThType, Threads4, UsbType
<1>23. ASSUME NEW t \in Readers, ReadPacket(t) PROVE LifeInv'
  BY <1>23 DEF ReadPacket, Current, ScalarTypes, PipeTypes, ThType, Threads4, UsbType
<1>24. ASSUME NEW t \in Readers, QueuePacket(t) PROVE LifeInv'
  <2>1. \A i \in DOMAIN rx' : rl' # "idle" => rx'[i].run = runs'
    <3>0. usb.generation = runs
      BY <1>24 DEF QueuePacket, Threads4, Readers
    <3>1. PICK r : /\ r.run = runs /\ rx' = Append(rx, r) /\ rl' = rl /\ runs' = runs
      BY <1>24, <3>0 DEF QueuePacket
    <3>2. rx \in Seq(Queued)
      BY DEF QueueTypes
    <3>3. QED
      BY <3>1, <3>2
  <2>2. QED
    BY <1>24, <2>1 DEF QueuePacket
<1>25. ASSUME NEW t \in Readers, ReadError(t) PROVE LifeInv'
  BY <1>25 DEF ReadError, Fault, Counted, ScalarTypes, PipeTypes, ThType, Threads4, UsbType
<1>26. ASSUME NEW t \in Threads4, Fails(t) PROVE LifeInv'
  BY <1>26 DEF Fails, Current, ScalarTypes, PipeTypes, ThType, Threads4, UsbType
<1>27. ASSUME NEW t \in Threads4, FlagsFailure(t) PROVE LifeInv'
  BY <1>27 DEF FlagsFailure, ScalarTypes, PipeTypes, ThType, Threads4, UsbType
<1>28. CASE WriteCommand
  BY <1>28 DEF WriteCommand, Receives, Fault, Counted, ScalarTypes, PipeTypes, ThType, Threads4,
     UsbType
<1>29. CASE ReportSent
  BY <1>29 DEF ReportSent, Current, ScalarTypes, PipeTypes, ThType, Threads4, UsbType
<1>30. CASE WriteData
  BY <1>30 DEF WriteData, ScalarTypes, PipeTypes, ThType, Threads4, UsbType
<1>31. CASE Answers
  BY <1>31 DEF Answers, ScalarTypes, PipeTypes, ThType, Threads4, UsbType
<1>32. CASE SendsData
  BY <1>32 DEF SendsData, Counted, ScalarTypes, PipeTypes, ThType, Threads4, UsbType
<1>33. CASE Unplugged
  BY <1>33 DEF Unplugged, Fault, Counted, ScalarTypes, PipeTypes, ThType, Threads4, UsbType
<1>34. CASE UNCHANGED transportVars
  BY <1>34 DEF transportVars
<1> HIDE DEF TransportTypes, LifeInv
<1>35. QED
  BY <1>1, <1>2, <1>3, <1>4, <1>5, <1>6, <1>7, <1>8, <1>9, <1>10, <1>11, <1>12, <1>13, <1>14,
     <1>15, <1>16, <1>17, <1>18, <1>19, <1>20, <1>21, <1>22, <1>23, <1>24, <1>25, <1>26, <1>27,
     <1>28, <1>29, <1>30, <1>31, <1>32, <1>33, <1>34
     DEF TransportNext

\* Every step keeps raw mode to the loader.
LEMMA RawStep ==
    ASSUME TransportTypes, LifeInv, RawInv, [TransportNext]_transportVars
    PROVE  RawInv'
<1> USE TransportAssumption DEF TransportTypes, LifeInv, RawInv, Open4, Renewing, Closing,
        bridge,
        pipes, btstack, InLoop
<1>1. CASE StartRun
  BY <1>1 DEF StartRun
<1>2. CASE RawBegin
  BY <1>2 DEF RawBegin, OpenUsb
<1>3. CASE InitHci
  BY <1>3 DEF InitHci, OpenUsb
<1>4. CASE PowerOff
  BY <1>4 DEF PowerOff
<1>5. CASE ExitLoop
  BY <1>5 DEF ExitLoop
<1>6. CASE EndRun
  BY <1>6 DEF EndRun
<1>7. CASE CloseUsb
  BY <1>7 DEF CloseUsb, ScalarTypes
<1>8. CASE JoinThreads
  BY <1>8 DEF JoinThreads, ScalarTypes
<1>9. CASE CloseReset
  BY <1>9 DEF CloseReset, ScalarTypes
<1>10. CASE CloseWait
  BY <1>10 DEF CloseWait, ScalarTypes
<1>11. CASE LoaderSends
  BY <1>11 DEF LoaderSends, HandOver, Counted
<1>12. CASE SetBootloader
  BY <1>12 DEF SetBootloader
<1>13. CASE LoaderDone
  BY <1>13 DEF LoaderDone
<1>14. CASE LoaderFails
  BY <1>14 DEF LoaderFails
<1>15. CASE ReopenUsb
  BY <1>15 DEF ReopenUsb, OpenUsb
<1>16. CASE BtSendsCommand
  BY <1>16 DEF BtSendsCommand, BtMaySend, HandOver, Counted
<1>17. CASE BtSendsLeCommand
  BY <1>17 DEF BtSendsLeCommand, BtMaySend, Counted
<1>18. CASE BtSendsData
  BY <1>18 DEF BtSendsData, BtMaySend, Counted
<1>19. CASE Pump
  BY <1>19 DEF Pump
<1>20. CASE PumpPacket
  BY <1>20 DEF PumpPacket
<1>21. CASE PumpEnd
  BY <1>21 DEF PumpEnd
<1>22. CASE OnWakeApp
  BY <1>22 DEF OnWakeApp
<1>23. ASSUME NEW t \in Readers, ReadPacket(t) PROVE RawInv'
  BY <1>23 DEF ReadPacket, Current
<1>24. ASSUME NEW t \in Readers, QueuePacket(t) PROVE RawInv'
  <2>1. rl # "init"
    BY <1>24 DEF QueuePacket, Threads4, Readers
  <2>2. QED
    BY <1>24, <2>1 DEF QueuePacket
<1>25. ASSUME NEW t \in Readers, ReadError(t) PROVE RawInv'
  BY <1>25 DEF ReadError, Fault, Counted
<1>26. ASSUME NEW t \in Threads4, Fails(t) PROVE RawInv'
  BY <1>26 DEF Fails, Current
<1>27. ASSUME NEW t \in Threads4, FlagsFailure(t) PROVE RawInv'
  BY <1>27 DEF FlagsFailure
<1>28. CASE WriteCommand
  BY <1>28 DEF WriteCommand, Receives, Fault, Counted
<1>29. CASE ReportSent
  BY <1>29 DEF ReportSent, Current
<1>30. CASE WriteData
  BY <1>30 DEF WriteData
<1>31. CASE Answers
  BY <1>31 DEF Answers
<1>32. CASE SendsData
  BY <1>32 DEF SendsData, Counted
<1>33. CASE Unplugged
  BY <1>33 DEF Unplugged, Fault, Counted
<1>34. CASE UNCHANGED transportVars
  BY <1>34 DEF transportVars
<1> HIDE DEF TransportTypes, LifeInv, RawInv
<1>35. QED
  BY <1>1, <1>2, <1>3, <1>4, <1>5, <1>6, <1>7, <1>8, <1>9, <1>10, <1>11, <1>12, <1>13, <1>14,
     <1>15, <1>16, <1>17, <1>18, <1>19, <1>20, <1>21, <1>22, <1>23, <1>24, <1>25, <1>26, <1>27,
     <1>28, <1>29, <1>30, <1>31, <1>32, <1>33, <1>34
     DEF TransportNext

\* Every step keeps failures known.
LEMMA FailStep ==
    ASSUME TransportTypes, LifeInv, RawInv, FailInv, [TransportNext]_transportVars
    PROVE  FailInv'
<1> USE TransportAssumption DEF TransportTypes, LifeInv, FailInv, Open4, Closing, Readers,
        Threads4,
        bridge, pipes, btstack
<1>1. CASE StartRun
  BY <1>1 DEF StartRun
<1>2. CASE RawBegin
  BY <1>2 DEF RawBegin, OpenUsb
<1>3. CASE InitHci
  BY <1>3 DEF InitHci, OpenUsb
<1>4. CASE PowerOff
  BY <1>4 DEF PowerOff
<1>5. CASE ExitLoop
  BY <1>5 DEF ExitLoop
<1>6. CASE EndRun
  BY <1>6 DEF EndRun
<1>7. CASE CloseUsb
  BY <1>7 DEF CloseUsb
<1>8. CASE JoinThreads
  BY <1>8 DEF JoinThreads
<1>9. CASE CloseReset
  BY <1>9 DEF CloseReset, Receives, Fault, Counted
<1>10. CASE CloseWait
  BY <1>10 DEF CloseWait, Fault, Counted
<1>11. CASE LoaderSends
  BY <1>11 DEF LoaderSends, HandOver, Counted
<1>12. CASE SetBootloader
  BY <1>12 DEF SetBootloader
<1>13. CASE LoaderDone
  <2>1. /\ rl \in {"loop", "pump"} /\ rl' = "close" /\ failed' = failed /\ stalled' = stalled
        /\ th' = th
        /\ opened' = opened /\ wakeFlags' = wakeFlags /\ ("lost" \in seen' => "lost" \in seen)
    BY <1>13 DEF LoaderDone, InLoop
  <2>2. QED
    BY <2>1
<1>14. CASE LoaderFails
  BY <1>14 DEF LoaderFails
<1>15. CASE ReopenUsb
  BY <1>15 DEF ReopenUsb, OpenUsb
<1>16. CASE BtSendsCommand
  BY <1>16 DEF BtSendsCommand, BtMaySend, HandOver, Counted
<1>17. CASE BtSendsLeCommand
  BY <1>17 DEF BtSendsLeCommand, BtMaySend, Counted
<1>18. CASE BtSendsData
  BY <1>18 DEF BtSendsData, BtMaySend, Counted
<1>19. CASE Pump
  BY <1>19 DEF Pump
<1>20. CASE PumpPacket
  BY <1>20 DEF PumpPacket
<1>21. CASE PumpEnd
  BY <1>21 DEF PumpEnd
<1>22. CASE OnWakeApp
  BY <1>22 DEF OnWakeApp
<1>23. ASSUME NEW t \in Readers, ReadPacket(t) PROVE FailInv'
  BY <1>23 DEF ReadPacket, Current
<1>24. ASSUME NEW t \in Readers, QueuePacket(t) PROVE FailInv'
  BY <1>24 DEF QueuePacket
<1>25. ASSUME NEW t \in Readers, ReadError(t) PROVE FailInv'
  <2>1. /\ th[t] = "idle" /\ (th' = [th EXCEPT ![t] = "fail"] \/ th' = th)
        /\ UNCHANGED <<failed, stalled, wakeFlags, rl, opened, seen>>
    <3>1. th \in ThType
      BY DEF PipeTypes
    <3>2. QED
      BY <1>25, <3>1 DEF ReadError, ThType
  <2>2. \A u \in Threads4 : th'[u] # th[u] => u = t /\ th'[u] = "fail" /\ th[u] = "idle"
    BY <2>1 DEF PipeTypes, ThType
  <2>3. th["cmdOut"] = "fail" => th'["cmdOut"] = "fail"
    BY <2>1 DEF PipeTypes, ThType
  <2>4. (\E u \in Threads4 : th[u] = "flag") => \E u \in Threads4 : th'[u] = "flag"
    BY <2>2
  <2>5. QED
    BY <2>1, <2>2, <2>3, <2>4
<1>26. ASSUME NEW t \in Threads4, Fails(t) PROVE FailInv'
  <2>1. /\ th[t] = "fail" /\ th \in ThType /\ rl' = rl /\ opened' = opened /\ seen' = seen
        /\ stalled' = stalled
        /\ wakeFlags' = wakeFlags
    BY <1>26 DEF Fails, PipeTypes
  <2>2. Open4 /\ Current
    BY <2>1 DEF Current
  <2>3. failed' = TRUE /\ th' = [th EXCEPT ![t] = "flag"]
    BY <1>26, <2>2 DEF Fails
  <2>4. th'[t] = "flag"
    BY <2>1, <2>3 DEF ThType
  <2>5. QED
    BY <2>1, <2>3, <2>4
<1>27. ASSUME NEW t \in Threads4, FlagsFailure(t) PROVE FailInv'
  BY <1>27 DEF FlagsFailure
<1>28. CASE WriteCommand
  <2>1. /\ th["cmdOut"] = "idle" /\ th \in ThType /\ rl' = rl /\ opened' = opened
        /\ stalled' = stalled
        /\ wakeFlags' = wakeFlags /\ failed' = failed
    BY <1>28 DEF WriteCommand, PipeTypes
  <2>2. \A u \in Threads4 : u # "cmdOut" => th'[u] = th[u]
    BY <1>28, <2>1 DEF WriteCommand, ThType
  <2>3. (\E u \in Threads4 : th[u] = "flag") => \E u \in Threads4 : th'[u] = "flag"
    BY <2>1, <2>2
  <2>4. opened => th'["cmdOut"] \in {"report", "fail"}
    BY <1>28, <2>1 DEF WriteCommand, ThType
  <2>5. "lost" \in seen' => "lost" \in seen \/ th'["cmdOut"] = "fail"
    BY <1>28, <2>1 DEF WriteCommand, ThType, Receives
  <2>6. "lost" \in seen /\ rl # "idle" => failed
    BY <2>1
  <2>7. QED
    BY <2>1, <2>2, <2>3, <2>4, <2>5, <2>6
<1>29. CASE ReportSent
  BY <1>29 DEF ReportSent, Current
<1>30. CASE WriteData
  <2>1. /\ th["aclOut"] = "idle" /\ th \in ThType /\ rl' = rl /\ opened' = opened
        /\ stalled' = stalled
        /\ wakeFlags' = wakeFlags /\ failed' = failed
    BY <1>30 DEF WriteData, PipeTypes
  <2>2. \A u \in Threads4 : u # "aclOut" => th'[u] = th[u]
    BY <1>30, <2>1 DEF WriteData, ThType
  <2>3. (\E u \in Threads4 : th[u] = "flag") => \E u \in Threads4 : th'[u] = "flag"
    BY <2>1, <2>2
  <2>4. th'["aclOut"] \in {"idle", "fail"} /\ seen' = seen
    BY <1>30, <2>1 DEF WriteData, ThType
  <2>5. QED
    BY <2>1, <2>2, <2>3, <2>4
<1>31. CASE Answers
  BY <1>31 DEF Answers
<1>32. CASE SendsData
  BY <1>32 DEF SendsData, Counted
<1>33. CASE Unplugged
  BY <1>33 DEF Unplugged, Fault, Counted
<1>34. CASE UNCHANGED transportVars
  BY <1>34 DEF transportVars
<1> HIDE DEF TransportTypes, LifeInv, FailInv
<1>35. QED
  BY <1>1, <1>2, <1>3, <1>4, <1>5, <1>6, <1>7, <1>8, <1>9, <1>10, <1>11, <1>12, <1>13, <1>14,
     <1>15, <1>16, <1>17, <1>18, <1>19, <1>20, <1>21, <1>22, <1>23, <1>24, <1>25, <1>26, <1>27,
     <1>28, <1>29, <1>30, <1>31, <1>32, <1>33, <1>34
     DEF TransportNext

\* Every step keeps the reports to the packets of BTstack.
LEMMA ReportStep ==
    ASSUME TransportTypes, LifeInv, RawInv, FailInv, ReportInv, [TransportNext]_transportVars
    PROVE  ReportInv'
<1> USE DEF TransportTypes, LifeInv, RawInv, FailInv, ReportInv, Open4, Closing, Renewing,
        InLoop, bridge,
        pipes, btstack, Pending
<1>a. /\ sent \in Nat /\ owed \in Int /\ aclq \in Nat /\ cmdq \in Seq(Command)
      /\ rx \in Seq(Queued) /\ th \in ThType
      /\ Len(cmdq) \in Nat /\ (cmdq # <<>> => Len(cmdq) > 0 /\ Len(Tail(cmdq)) = Len(cmdq) - 1)
      /\ Len(<<>>) = 0 /\ \A c \in Command : Len(Append(cmdq, c)) = Len(cmdq) + 1 /\ Append(cmdq, c) # <<>>
  BY DEF ScalarTypes, PipeTypes, QueueTypes
<1>1. CASE StartRun
  BY <1>1, <1>a DEF ThType, Readers, Threads4, StartRun
<1>2. CASE RawBegin
  BY <1>2, <1>a DEF ThType, Readers, Threads4, RawBegin, OpenUsb
<1>3. CASE InitHci
  BY <1>3, <1>a DEF ThType, Readers, Threads4, InitHci, OpenUsb
<1>4. CASE PowerOff
  BY <1>4, <1>a DEF ThType, Readers, Threads4, PowerOff
<1>5. CASE ExitLoop
  BY <1>5, <1>a DEF ThType, Readers, Threads4, ExitLoop
<1>6. CASE EndRun
  BY <1>6, <1>a DEF ThType, Readers, Threads4, EndRun
<1>7. CASE CloseUsb
  <2>1. after # "join"
    BY DEF ScalarTypes
  <2>2. /\ UNCHANGED <<raw, hci, sent, owed, cmdq, th, seen, failed, reserved, after>>
        /\ opened' = FALSE /\ (Open4' => Open4)
    BY <1>7, <2>1 DEF CloseUsb
  <2>3. QED
    BY <2>2
<1>8. CASE JoinThreads
  BY <1>8, <1>a DEF ThType, Readers, Threads4, JoinThreads
<1>9. CASE CloseReset
  <2>1. after # "join"
    BY DEF ScalarTypes
  <2>2. /\ UNCHANGED <<raw, hci, sent, owed, cmdq, th, failed, reserved, opened>>
        /\ (Open4' => Open4)
        /\ ("late" \in seen => "late" \in seen')
    BY <1>9, <2>1 DEF CloseReset, Receives
  <2>3. QED
    BY <2>2
<1>10. CASE CloseWait
  <2>1. after # "join"
    BY DEF ScalarTypes
  <2>2. /\ UNCHANGED <<raw, hci, sent, owed, cmdq, th, failed, reserved, opened>>
        /\ (Open4' => Open4)
        /\ ("late" \in seen => "late" \in seen')
    BY <1>10, <2>1 DEF CloseWait, Receives
  <2>3. QED
    BY <2>2
<1>11. CASE LoaderSends
  BY <1>11, <1>a DEF ThType, Readers, Threads4, LoaderSends, HandOver, Counted
<1>12. CASE SetBootloader
  BY <1>12, <1>a DEF ThType, Readers, Threads4, SetBootloader
<1>13. CASE LoaderDone
  BY <1>13, <1>a DEF ThType, Readers, Threads4, LoaderDone
<1>14. CASE LoaderFails
  BY <1>14, <1>a DEF ThType, Readers, Threads4, LoaderFails
<1>15. CASE ReopenUsb
  BY <1>15, <1>a DEF ThType, Readers, Threads4, ReopenUsb, OpenUsb
<1>16. CASE BtSendsCommand
  BY <1>16, <1>a DEF ThType, Readers, Threads4, BtSendsCommand, BtMaySend, HandOver, Counted
<1>17. CASE BtSendsLeCommand
  <2>1. /\ sent' = sent + 1 /\ owed' = owed + 1
        /\ UNCHANGED <<raw, hci, cmdq, th, failed, opened, rl, seen>>
    BY <1>17 DEF BtSendsLeCommand
  <2>2. Pending' = Pending /\ Pending \in Nat /\ Open4' = Open4
    BY <2>1, <1>a
  <2> HIDE DEF Pending, Open4
  <2>3. ("late" \notin seen' /\ ~raw' => owed' >= sent') /\ sent' > 0
    BY <2>1, <1>a
  <2>4. "late" \notin seen' /\ ~raw' /\ Open4' => owed' >= sent' + Pending'
    BY <2>1, <2>2, <1>a
  <2>5. QED
    BY <2>3, <2>4
<1>18. CASE BtSendsData
  BY <1>18, <1>a DEF ThType, Readers, Threads4, BtSendsData, BtMaySend, Counted
<1>19. CASE Pump
  <2>1. /\ UNCHANGED <<raw, hci, cmdq, th, failed, opened, seen>> /\ sent' = 0
        /\ (Open4' => Open4)
    BY <1>19 DEF Pump
  <2>2. CASE raw
    BY <2>1, <2>2
  <2>3. CASE ~raw
    <3>1. owed' = owed - sent /\ (reserved' => reserved /\ sent = 0)
      BY <1>19, <2>3 DEF Pump
    <3>2. QED
      BY <2>1, <3>1, <1>a
  <2>4. QED
    BY <2>2, <2>3
<1>20. CASE PumpPacket
  BY <1>20, <1>a DEF ThType, Readers, Threads4, PumpPacket
<1>21. CASE PumpEnd
  BY <1>21, <1>a DEF ThType, Readers, Threads4, PumpEnd
<1>22. CASE OnWakeApp
  BY <1>22, <1>a DEF ThType, Readers, Threads4, OnWakeApp
<1>23. ASSUME NEW t \in Readers, ReadPacket(t) PROVE ReportInv'
  BY <1>23, <1>a DEF ThType, Readers, Threads4, ReadPacket, Current
<1>24. ASSUME NEW t \in Readers, QueuePacket(t) PROVE ReportInv'
  BY <1>24, <1>a DEF ThType, Readers, Threads4, QueuePacket
<1>25. ASSUME NEW t \in Readers, ReadError(t) PROVE ReportInv'
  BY <1>25, <1>a DEF ThType, Readers, Threads4, ReadError, Fault, Counted
<1>26. ASSUME NEW t \in Threads4, Fails(t) PROVE ReportInv'
  BY <1>26, <1>a DEF ThType, Readers, Threads4, Fails, Current
<1>27. ASSUME NEW t \in Threads4, FlagsFailure(t) PROVE ReportInv'
  BY <1>27, <1>a DEF ThType, Readers, Threads4, FlagsFailure
<1>28. CASE WriteCommand
  BY <1>28, <1>a DEF ThType, Readers, Threads4, WriteCommand, Receives, Fault, Counted
<1>29. CASE ReportSent
  BY <1>29, <1>a DEF ThType, Readers, Threads4, ReportSent, Current
<1>30. CASE WriteData
  BY <1>30, <1>a DEF ThType, Readers, Threads4, WriteData
<1>31. CASE Answers
  BY <1>31, <1>a DEF ThType, Readers, Threads4, Answers
<1>32. CASE SendsData
  BY <1>32, <1>a DEF ThType, Readers, Threads4, SendsData, Counted
<1>33. CASE Unplugged
  BY <1>33, <1>a DEF ThType, Readers, Threads4, Unplugged, Fault, Counted
<1>34. CASE UNCHANGED transportVars
  BY <1>34 DEF transportVars
<1> HIDE DEF TransportTypes, LifeInv, RawInv, FailInv, ReportInv
<1>35. QED
  BY <1>1, <1>2, <1>3, <1>4, <1>5, <1>6, <1>7, <1>8, <1>9, <1>10, <1>11, <1>12, <1>13, <1>14,
     <1>15, <1>16, <1>17, <1>18, <1>19, <1>20, <1>21, <1>22, <1>23, <1>24, <1>25, <1>26, <1>27,
     <1>28, <1>29, <1>30, <1>31, <1>32, <1>33, <1>34
     DEF TransportNext

\* Whether BTstack's command is anywhere, and where the reset of a close is, depends
\* on the queues alone.
LEMMA SameQueues ==
    ASSUME UNCHANGED <<cmdq, ctl.has, ctl.events, rx, waits>>, InHeld' <=> InHeld
    PROVE  /\ (InCmd' <=> InCmd) /\ (InHas' <=> InHas) /\ (InEvents' <=> InEvents)
           /\ (InRx' <=> InRx)
           /\ (Awaited' <=> Awaited) /\ (OneCommand' <=> OneCommand)
           /\ (In(ctl.has, {"closeReset"})' <=> In(ctl.has, {"closeReset"}))
           /\ (In(ctl.events, {"closeReset"})' <=> In(ctl.events, {"closeReset"}))
           /\ (In(cmdq, {"loader"})' <=> In(cmdq, {"loader"}))
<1>1. /\ cmdq' = cmdq /\ ctl'.has = ctl.has /\ ctl'.events = ctl.events /\ rx' = rx
      /\ waits' = waits
  OBVIOUS
<1>2. (InCmd' <=> InCmd) /\ (InHas' <=> InHas) /\ (InEvents' <=> InEvents) /\ (InRx' <=> InRx)
  BY <1>1 DEF InCmd, InHas, InEvents, InRx
<1>3. Awaited' <=> Awaited
  BY <1>1 DEF Awaited
<1>4. OneCommand' <=> OneCommand
  BY <1>1, <1>2 DEF OneCommand
<1>5. QED
  BY <1>1, <1>2, <1>3, <1>4

\* What is not there is not there twice.
LEMMA NoneOnce == \A s, S : ~In(s, S) => Once(s, S)
  BY DEF In, Once

\* A close that was not answered is not forgotten, and only a command that is written
\* can meet a controller that resets.
LEMMA CalmStep ==
    ASSUME TransportTypes, [TransportNext]_transportVars
    PROVE  StaysCalm
<1> USE DEF bridge, pipes, btstack, Calm, StaysCalm
<1>1. CASE StartRun
  BY <1>1 DEF StartRun
<1>2. CASE RawBegin
  BY <1>2 DEF RawBegin, OpenUsb
<1>3. CASE InitHci
  BY <1>3 DEF InitHci, OpenUsb
<1>4. CASE PowerOff
  BY <1>4 DEF PowerOff
<1>5. CASE ExitLoop
  BY <1>5 DEF ExitLoop
<1>6. CASE EndRun
  BY <1>6 DEF EndRun
<1>7. CASE CloseUsb
  BY <1>7 DEF CloseUsb
<1>8. CASE JoinThreads
  BY <1>8 DEF JoinThreads
<1>9. CASE CloseReset
  BY <1>9 DEF CloseReset, Receives, Fault, Counted
<1>10. CASE CloseWait
  BY <1>10 DEF CloseWait, Fault, Counted
<1>11. CASE LoaderSends
  BY <1>11 DEF LoaderSends, HandOver, Counted
<1>12. CASE SetBootloader
  BY <1>12 DEF SetBootloader
<1>13. CASE LoaderDone
  BY <1>13 DEF LoaderDone
<1>14. CASE LoaderFails
  BY <1>14 DEF LoaderFails
<1>15. CASE ReopenUsb
  BY <1>15 DEF ReopenUsb, OpenUsb
<1>16. CASE BtSendsCommand
  BY <1>16 DEF BtSendsCommand, BtMaySend, HandOver, Counted
<1>17. CASE BtSendsLeCommand
  BY <1>17 DEF BtSendsLeCommand, BtMaySend, Counted
<1>18. CASE BtSendsData
  BY <1>18 DEF BtSendsData, BtMaySend, Counted
<1>19. CASE Pump
  BY <1>19 DEF Pump
<1>20. CASE PumpPacket
  BY <1>20 DEF PumpPacket
<1>21. CASE PumpEnd
  BY <1>21 DEF PumpEnd
<1>22. CASE OnWakeApp
  BY <1>22 DEF OnWakeApp
<1>23. ASSUME NEW t \in Readers, ReadPacket(t) PROVE StaysCalm
  BY <1>23 DEF ReadPacket, Current
<1>24. ASSUME NEW t \in Readers, QueuePacket(t) PROVE StaysCalm
  BY <1>24 DEF QueuePacket
<1>25. ASSUME NEW t \in Readers, ReadError(t) PROVE StaysCalm
  BY <1>25 DEF ReadError, Fault, Counted
<1>26. ASSUME NEW t \in Threads4, Fails(t) PROVE StaysCalm
  BY <1>26 DEF Fails, Current
<1>27. ASSUME NEW t \in Threads4, FlagsFailure(t) PROVE StaysCalm
  BY <1>27 DEF FlagsFailure
<1>28. CASE WriteCommand
  BY <1>28 DEF WriteCommand, Receives, Fault, Counted
<1>29. CASE ReportSent
  BY <1>29 DEF ReportSent, Current
<1>30. CASE WriteData
  BY <1>30 DEF WriteData
<1>31. CASE Answers
  BY <1>31 DEF Answers
<1>32. CASE SendsData
  BY <1>32 DEF SendsData, Counted
<1>33. CASE Unplugged
  BY <1>33 DEF Unplugged, Fault, Counted
<1>34. CASE UNCHANGED transportVars
  BY <1>34 DEF transportVars
<1>35. QED
  BY <1>1, <1>2, <1>3, <1>4, <1>5, <1>6, <1>7, <1>8, <1>9, <1>10, <1>11, <1>12, <1>13, <1>14,
     <1>15, <1>16, <1>17, <1>18, <1>19, <1>20, <1>21, <1>22, <1>23, <1>24, <1>25, <1>26, <1>27,
     <1>28, <1>29, <1>30, <1>31, <1>32, <1>33, <1>34
     DEF TransportNext

\* Every step keeps the reset of a close alone.
LEMMA ResetStep ==
    ASSUME TransportTypes, LifeInv, RawInv, ResetInv, [TransportNext]_transportVars
    PROVE  ResetInv'
<1>s. SUFFICES ASSUME Calm' PROVE ResetBody'
  BY DEF ResetInv
<1>c. Calm /\ ResetBody /\ ("hung" \in seen' => CloseReset \/ WriteCommand)
  BY <1>s, CalmStep DEF ResetInv, ResetBody, StaysCalm
<1>q. /\ cmdq \in Seq(Command) /\ rx \in Seq(Queued) /\ ctl.has \in Seq(Heard)
      /\ ctl.events \in Seq(Heard)
      /\ Command \subseteq Heard /\ "closeReset" \in Heard /\ "closeReset" \notin Command
      /\ "loader" \in Command /\ "loader" \notin OwnCommands /\ OwnCommands \subseteq Command
  BY DEF TransportTypes, QueueTypes, CtlType, Command, Heard, OwnCommands
<1>v. \A s, S : In(s, S) => s # <<>>
  BY EmptyIn
<1> USE TransportAssumption DEF TransportTypes, LifeInv, RawInv, ResetBody, Renewing, Open4,
        Closing, InLoop, bridge, pipes,
        btstack
<1>1. CASE StartRun
  <2>1. /\ UNCHANGED <<cmdq, ctl, th, held, opened>> /\ rx' = <<>> /\ ~opened /\ rl = "idle"
        /\ rl' = "init" /\ raw' = FALSE
    BY <1>1 DEF StartRun
  <2>2. ~InHas' /\ ~InEvents'
    BY <2>1, <1>c DEF InHas, InEvents
  <2>3. ~In(ctl'.has, {"closeReset"}) /\ ~In(ctl'.events, {"closeReset"})
    BY <2>1, <1>c
  <2>4. "hung" \notin seen'
    BY <1>1, <1>c DEF StartRun
  <2>5. QED
    BY <2>1, <2>2, <2>3, <2>4
<1>2. CASE RawBegin
  <2>1. /\ UNCHANGED <<ctl, rx, seen, waits>> /\ rl' \in {"loop", "pump"} /\ ~opened
        /\ rl # "join" /\ ~Renewing'
        /\ ~InHas /\ ~InEvents /\ ~InRx /\ rl # "wait" /\ rl' # "wait" /\ "hung" \notin seen
    BY <1>2, <1>c, EmptyIn DEF RawBegin, InRx
  <2>2. /\ ~InHas' /\ ~InEvents' /\ ~InRx' /\ Once(rx', Replies) /\ Once(ctl'.has, OwnCommands)
        /\ Once(ctl'.events, OwnCommands)
    BY <2>1, NoneOnce DEF InHas, InEvents, InRx
  <2>3. ~In(ctl'.has, {"closeReset"}) /\ ~In(ctl'.events, {"closeReset"})
    BY <2>1, <1>c
  <2>4. CASE OpenUsb
    <3>1. cmdq' = <<>> /\ th'["eventIn"] = "idle" /\ usb'.boot = FALSE /\ opened' = TRUE
      BY <2>4 DEF OpenUsb, Threads4, Readers
    <3>2. ~InCmd' /\ Once(cmdq', OwnCommands) /\ ~InHeld' /\ ~In(cmdq', {"loader"})
      BY <3>1, EmptyIn DEF InCmd, InHeld
    <3>3. QED
      BY <2>1, <2>2, <2>3, <3>1, <3>2 DEF OneCommand
  <2>5. CASE ~OpenUsb
    <3>1. opened' = opened /\ th' = th /\ held' = held /\ raw' = raw
      BY <1>2, <2>5 DEF RawBegin
    <3>2. ~InHeld'
      BY <3>1, <2>1 DEF InHeld, Threads4, Readers
    <3>3. QED
      BY <2>1, <2>2, <2>3, <3>1, <3>2
  <2>6. QED
    BY <2>4, <2>5
<1>3. CASE InitHci
  <2>1. /\ UNCHANGED <<ctl, rx, seen, waits>> /\ rl' \in {"loop", "pump"} /\ ~opened
        /\ rl # "join" /\ ~Renewing'
        /\ ~InHas /\ ~InEvents /\ ~InRx /\ rl # "wait" /\ rl' # "wait" /\ "hung" \notin seen
    BY <1>3, <1>c, EmptyIn DEF InitHci, InRx
  <2>2. /\ ~InHas' /\ ~InEvents' /\ ~InRx' /\ Once(rx', Replies) /\ Once(ctl'.has, OwnCommands)
        /\ Once(ctl'.events, OwnCommands)
    BY <2>1, NoneOnce DEF InHas, InEvents, InRx
  <2>3. ~In(ctl'.has, {"closeReset"}) /\ ~In(ctl'.events, {"closeReset"})
    BY <2>1, <1>c
  <2>4. CASE OpenUsb
    <3>1. cmdq' = <<>> /\ th'["eventIn"] = "idle" /\ usb'.boot = FALSE /\ opened' = TRUE
      BY <2>4 DEF OpenUsb, Threads4, Readers
    <3>2. ~InCmd' /\ Once(cmdq', OwnCommands) /\ ~InHeld' /\ ~In(cmdq', {"loader"})
      BY <3>1, EmptyIn DEF InCmd, InHeld
    <3>3. QED
      BY <2>1, <2>2, <2>3, <3>1, <3>2 DEF OneCommand
  <2>5. CASE ~OpenUsb
    <3>1. opened' = opened /\ th' = th /\ held' = held /\ raw' = raw
      BY <1>3, <2>5 DEF InitHci
    <3>2. ~InHeld'
      BY <3>1, <2>1 DEF InHeld, Threads4, Readers
    <3>3. QED
      BY <2>1, <2>2, <2>3, <3>1, <3>2
  <2>6. QED
    BY <2>4, <2>5
<1>4. CASE PowerOff
  <2>1. UNCHANGED <<cmdq, ctl.has, ctl.events, rx, waits>>
    BY <1>4 DEF PowerOff
  <2>2. InHeld' <=> InHeld
    BY <1>4 DEF PowerOff, InHeld
  <2>3. QED
    BY <1>4, <1>c, <2>1, <2>2, SameQueues DEF PowerOff, ScalarTypes
<1>5. CASE ExitLoop
  <2>1. UNCHANGED <<cmdq, ctl.has, ctl.events, rx, waits>>
    BY <1>5 DEF ExitLoop
  <2>2. InHeld' <=> InHeld
    BY <1>5 DEF ExitLoop, InHeld
  <2>3. QED
    BY <1>5, <1>c, <2>1, <2>2, SameQueues DEF ExitLoop, ScalarTypes
<1>6. CASE EndRun
  <2>1. /\ UNCHANGED <<cmdq, ctl, th, held, opened, seen>> /\ ~opened /\ rl = "end"
        /\ rl' = "idle" /\ raw' = FALSE
    BY <1>6 DEF EndRun
  <2>2. ~InHas' /\ ~InEvents'
    BY <2>1, <1>c DEF InHas, InEvents
  <2>3. ~In(ctl'.has, {"closeReset"}) /\ ~In(ctl'.events, {"closeReset"})
    BY <2>1, <1>c
  <2>4. QED
    BY <2>1, <2>2, <2>3, <1>c
<1>7. CASE CloseUsb
  <2>1. /\ UNCHANGED <<cmdq, ctl.has, ctl.events, rx, waits, raw, after, seen>>
        /\ usb'.boot = usb.boot /\ rl = "close"
        /\ opened' = FALSE /\ (opened => rl' = "join") /\ (~opened => rl' = after /\ usb' = usb)
        /\ after # "wait"
        /\ after # "join" /\ after \notin Closing
    BY <1>7 DEF CloseUsb, ScalarTypes, PipeTypes, UsbType
  <2>2. InHeld' <=> InHeld
    BY <1>7 DEF CloseUsb, InHeld
  <2>3. (Renewing' <=> Renewing) /\ (Open4' => Open4)
    BY <2>1
  <2>4. QED
    BY <1>c, <2>1, <2>2, <2>3, SameQueues
<1>8. CASE JoinThreads
  <2>1. /\ UNCHANGED <<cmdq, ctl.has, rx, waits, raw, after, seen, usb, opened>> /\ rl = "join"
        /\ ~opened
        /\ (ctl'.events = ctl.events \/ ctl'.events = <<>>)
        /\ rl' = (IF usb.boot THEN after ELSE "reset") /\ after # "wait" /\ after # "join"
        /\ after \notin Closing
    BY <1>8 DEF JoinThreads, ScalarTypes, CtlType
  <2>2. (InHas' <=> InHas) /\ (InEvents' => InEvents) /\ (InRx' <=> InRx)
        /\ (In(ctl'.events, {"closeReset"}) => In(ctl.events, {"closeReset"}))
    BY <2>1, EmptyIn DEF InHas, InEvents, InRx
  <2>3. ~InHeld'
    BY <1>8 DEF InHeld, JoinThreads, Threads4, Readers, AllJoined
  <2>4. (Renewing' => Renewing) /\ ~Open4' /\ rl' # "wait"
    BY <2>1
  <2>5. usb.boot => ~InHas /\ ~InEvents
    BY <2>1, <1>c
  <2>6. QED
    BY <1>c, <2>1, <2>2, <2>3, <2>4, <2>5
<1>9. CASE CloseReset
  <2>1. "unanswered" \notin seen' /\ "overlap" \notin seen'
    BY <1>s DEF Calm
  <2>2. /\ UNCHANGED <<cmdq, rx, waits, raw, after, usb, opened, th, held>> /\ rl = "reset"
        /\ ~opened /\ rl' = "wait"
        /\ ctl' = [ctl EXCEPT !.has = Append(@, "closeReset")]
        /\ ~In(ctl.has, Resets) /\ ~In(ctl.events, Resets) /\ "hung" \notin seen'
    BY <1>9, <1>c, <2>1 DEF CloseReset, Receives, In
  <2>3. ctl'.has = Append(ctl.has, "closeReset") /\ ctl'.events = ctl.events
    BY <2>2 DEF CtlType
  <2>4. Awaited'
    <3>1. /\ Len(ctl'.has) = Len(ctl.has) + 1 /\ Len(ctl.has) \in Nat
          /\ DOMAIN ctl.has = 1 .. Len(ctl.has)
          /\ ctl'.has[Len(ctl.has) + 1] = "closeReset" /\ \A i \in 1 .. Len(ctl.has) : ctl'.has[i] = ctl.has[i]
      BY <2>3, <1>q
    <3>2. \A i \in 1 .. Len(ctl.has) : ctl'.has[i] \notin Resets
      BY <2>2, <3>1 DEF In
    <3>3. QED
      BY <2>2, <2>3, <3>1, <3>2 DEF Awaited
  <2>5. In(Append(ctl.has, "closeReset"), OwnCommands) <=> In(ctl.has, OwnCommands)
    BY <1>q, AppendIn
  <2>6. /\ (InHas' <=> InHas) /\ (InEvents' <=> InEvents) /\ (InRx' <=> InRx)
        /\ (InHeld' <=> InHeld)
    BY <2>2, <2>3, <2>5 DEF InHas, InEvents, InRx, InHeld
  <2>7. (Renewing' <=> Renewing) /\ ~Open4'
    BY <2>2
  <2>8. QED
    BY <1>c, <2>2, <2>4, <2>6, <2>7
<1>10. CASE CloseWait
  <2>1. "unanswered" \notin seen'
    BY <1>s DEF Calm
  <2>2. /\ UNCHANGED <<cmdq, rx, waits, raw, after, usb, opened, th, held, seen>> /\ rl = "wait"
        /\ ~opened
        /\ ctl.events # <<>> /\ ctl' = [ctl EXCEPT !.events = Tail(@)]
        /\ rl' = IF Head(ctl.events) \in Resets THEN after ELSE "wait"
    BY <1>10, <2>1 DEF CloseWait
  <2>3. ctl'.events = Tail(ctl.events) /\ ctl'.has = ctl.has
    BY <2>2 DEF CtlType
  <2>4. Awaited
    BY <1>c, <2>2
  <2> DEFINE m == Len(ctl.events)
  <2>5. /\ m \in Nat \ {0} /\ Head(ctl.events) = ctl.events[1] /\ DOMAIN ctl.events = 1 .. m
        /\ Len(ctl'.events) = m - 1
        /\ \A i \in 1 .. m - 2 : i \in 1 .. m - 1 /\ i + 1 \in 1 .. m - 1 /\ ctl'.events[i] = ctl.events[i + 1]
        /\ m # 1 => 1 \in 1 .. m - 1 /\ ctl'.events[m - 1] = ctl.events[m]
        /\ m = 1 => ctl'.events = <<>>
    <3>1. /\ m \in Nat \ {0} /\ Head(ctl.events) = ctl.events[1] /\ DOMAIN ctl.events = 1 .. m
          /\ Len(Tail(ctl.events)) = m - 1
          /\ \A i \in 1 .. m - 1 : Tail(ctl.events)[i] = ctl.events[i + 1]
          /\ \A i \in 1 .. m - 2 : i \in 1 .. m - 1 /\ i + 1 \in 1 .. m - 1
          /\ m # 1 => 1 \in 1 .. m - 1 /\ Tail(ctl.events)[m - 1] = ctl.events[m]
          /\ m = 1 => Tail(ctl.events) = <<>>
      BY <2>2, <1>q, TailAt
    <3>2. QED
      BY <3>1, <2>3
  <2>6. /\ (InHas' <=> InHas) /\ (InEvents' => InEvents) /\ (InRx' <=> InRx)
        /\ (InHeld' <=> InHeld)
    BY <2>2, <2>3, <1>q, TailIn DEF InHas, InEvents, InRx, InHeld
  <2>7. after \notin Closing
    BY DEF ScalarTypes
  <2>8. (Renewing' <=> Renewing) /\ ~Open4'
    BY <2>2, <2>7
  <2>9. CASE Head(ctl.events) \in Resets
    <3>1. In(ctl.events, Resets)
      <4>1. 1 \in DOMAIN ctl.events
        BY <2>5
      <4>2. QED
        BY <4>1, <2>9, <2>5 DEF In
    <3>2. ctl.has = <<>> /\ m = 1
      <4>1. Len(ctl.has) = 0 /\ \A i \in 1 .. m - 1 : ctl.events[i] \notin Resets
        BY <3>1, <2>4, <2>5 DEF Awaited
      <4>2. m = 1
        BY <4>1, <2>5, <2>9
      <4>3. QED
        BY <4>1, <4>2, <1>q
    <3>3. ctl'.has = <<>> /\ ctl'.events = <<>>
      BY <3>2, <2>3, <2>5
    <3>4. /\ ~InHas' /\ ~InEvents' /\ ~In(ctl'.events, {"closeReset"})
          /\ ~In(ctl'.has, {"closeReset"})
      BY <3>3, EmptyIn DEF InHas, InEvents
    <3>5. rl' = after /\ rl' # "wait"
      BY <2>2, <2>7, <2>9
    <3>6. QED
      BY <1>c, <2>2, <2>6, <2>8, <3>4, <3>5
  <2>10. CASE Head(ctl.events) \notin Resets
    <3>1. Awaited'
      <4>1. CASE /\ Len(ctl.has) > 0 /\ ctl.has[Len(ctl.has)] = "closeReset"
                 /\ ~In(ctl.events, Resets)
                 /\ \A i \in 1 .. Len(ctl.has) - 1 : ctl.has[i] \notin Resets
        <5>1. ~In(ctl'.events, Resets)
          BY <4>1, <2>2, <2>3, <1>q, TailIn
        <5>2. QED
          BY <4>1, <5>1, <2>3 DEF Awaited
      <4>2. CASE /\ Len(ctl.has) = 0 /\ ctl.events[Len(ctl.events)] = "closeReset"
                 /\ \A i \in 1 .. Len(ctl.events) - 1 : ctl.events[i] \notin Resets
        <5>1. m # 1 /\ m - 1 > 0
          BY <4>2, <2>10, <2>5 DEF Resets
        <5>2. ctl'.events[m - 1] = "closeReset"
          BY <4>2, <5>1, <2>5
        <5>3. \A i \in 1 .. m - 2 : ctl'.events[i] \notin Resets
          BY <4>2, <2>5
        <5>4. \A i \in 1 .. Len(ctl'.events) - 1 : ctl'.events[i] \notin Resets
          <6>1. (m - 1) - 1 = m - 2
            BY <2>5
          <6>2. QED
            BY <5>3, <6>1, <2>5
        <5>5. QED
          BY <4>2, <5>1, <5>2, <5>4, <2>3, <2>5 DEF Awaited
      <4>3. QED
        BY <2>4, <2>5, <4>1, <4>2 DEF Awaited
    <3>2. rl' = "wait"
      BY <2>2, <2>10
    <3>3. QED
      BY <1>c, <2>2, <2>6, <2>8, <3>1, <3>2
  <2>11. QED
    BY <2>9, <2>10
<1>11. CASE LoaderSends
  <2>1. UNCHANGED <<rl, after, raw, opened, ctl, rx, waits, seen, th, held, usb>> /\ raw
        /\ (cmdq' = cmdq \/ cmdq' = Append(cmdq, "loader"))
    BY <1>11 DEF LoaderSends, HandOver
  <2>2. /\ (In(Append(cmdq, "loader"), OwnCommands) <=> In(cmdq, OwnCommands))
        /\ (Once(cmdq, OwnCommands) => Once(Append(cmdq, "loader"), OwnCommands))
    BY <1>q, AppendIn
  <2>3. (InCmd' <=> InCmd) /\ (Once(cmdq, OwnCommands) => Once(cmdq', OwnCommands))
    BY <2>1, <2>2 DEF InCmd
  <2>4. /\ (InHas' <=> InHas) /\ (InEvents' <=> InEvents) /\ (InRx' <=> InRx)
        /\ (InHeld' <=> InHeld) /\ (Awaited' <=> Awaited)
    BY <2>1 DEF InHas, InEvents, InRx, InHeld, Awaited
  <2>5. OneCommand => OneCommand'
    BY <2>1, <2>3, <2>4 DEF OneCommand
  <2>6. QED
    BY <1>c, <2>1, <2>3, <2>4, <2>5
<1>12. CASE SetBootloader
  <2>1. UNCHANGED <<cmdq, ctl.has, ctl.events, rx, waits>>
    BY <1>12 DEF SetBootloader
  <2>2. InHeld' <=> InHeld
    BY <1>12 DEF SetBootloader, InHeld
  <2>3. QED
    BY <1>12, <1>c, <2>1, <2>2, SameQueues DEF SetBootloader, ScalarTypes
<1>13. CASE LoaderDone
  <2>1. UNCHANGED <<cmdq, ctl.has, ctl.events, rx, waits>>
    BY <1>13 DEF LoaderDone
  <2>2. InHeld' <=> InHeld
    BY <1>13 DEF LoaderDone, InHeld
  <2>3. QED
    BY <1>13, <1>c, <2>1, <2>2, SameQueues DEF LoaderDone, ScalarTypes
<1>14. CASE LoaderFails
  <2>1. UNCHANGED <<cmdq, ctl.has, ctl.events, rx, waits>>
    BY <1>14 DEF LoaderFails
  <2>2. InHeld' <=> InHeld
    BY <1>14 DEF LoaderFails, InHeld
  <2>3. QED
    BY <1>14, <1>c, <2>1, <2>2, SameQueues DEF LoaderFails, ScalarTypes
<1>15. CASE ReopenUsb
  <2>1. /\ UNCHANGED <<ctl, rx, seen, waits>> /\ rl' \in {"loop", "pump"} /\ ~opened
        /\ rl # "join" /\ ~Renewing'
        /\ ~InHas /\ ~InEvents /\ ~InRx /\ rl # "wait" /\ rl' # "wait" /\ "hung" \notin seen
    BY <1>15, <1>c, EmptyIn DEF ReopenUsb, InRx
  <2>2. /\ ~InHas' /\ ~InEvents' /\ ~InRx' /\ Once(rx', Replies) /\ Once(ctl'.has, OwnCommands)
        /\ Once(ctl'.events, OwnCommands)
    BY <2>1, NoneOnce DEF InHas, InEvents, InRx
  <2>3. ~In(ctl'.has, {"closeReset"}) /\ ~In(ctl'.events, {"closeReset"})
    BY <2>1, <1>c
  <2>4. CASE OpenUsb
    <3>1. cmdq' = <<>> /\ th'["eventIn"] = "idle" /\ usb'.boot = FALSE /\ opened' = TRUE
      BY <2>4 DEF OpenUsb, Threads4, Readers
    <3>2. ~InCmd' /\ Once(cmdq', OwnCommands) /\ ~InHeld' /\ ~In(cmdq', {"loader"})
      BY <3>1, EmptyIn DEF InCmd, InHeld
    <3>3. QED
      BY <2>1, <2>2, <2>3, <3>1, <3>2 DEF OneCommand
  <2>5. CASE ~OpenUsb
    <3>1. opened' = opened /\ th' = th /\ held' = held /\ raw' = raw
      BY <1>15, <2>5 DEF ReopenUsb
    <3>2. ~InHeld'
      BY <3>1, <2>1 DEF InHeld, Threads4, Readers
    <3>3. QED
      BY <2>1, <2>2, <2>3, <3>1, <3>2
  <2>6. QED
    BY <2>4, <2>5
<1>16. CASE BtSendsCommand
  <2> DEFINE c == IF hci = "starting" THEN "btReset" ELSE "bt"
  <2>1. /\ UNCHANGED <<rl, after, raw, opened, ctl, rx, seen, th, held, usb>> /\ waits = FALSE
        /\ waits' = TRUE /\ opened
        /\ (cmdq' = cmdq \/ cmdq' = Append(cmdq, c)) /\ raw = FALSE /\ rl \in {"loop", "pump"}
    BY <1>16 DEF BtSendsCommand, BtMaySend, HandOver, FlagTypes
  <2>2. c \in OwnCommands /\ c \in Command /\ c # "loader"
    BY DEF OwnCommands, Command
  <2> HIDE DEF c
  <2>3. /\ ~InCmd /\ ~InHas /\ ~InEvents /\ ~InHeld /\ ~InRx /\ Once(ctl.has, OwnCommands)
        /\ Once(ctl.events, OwnCommands)
        /\ Once(cmdq, OwnCommands) /\ Once(rx, Replies)
    BY <2>1, <1>c DEF OneCommand
  <2>4. Once(cmdq', OwnCommands) /\ (In(cmdq', {"loader"}) => In(cmdq, {"loader"}))
    <3>1. Once(Append(cmdq, c), OwnCommands)
      BY <2>2, <2>3, <1>q, AppendIn DEF InCmd
    <3>2. In(Append(cmdq, c), {"loader"}) <=> In(cmdq, {"loader"}) \/ c \in {"loader"}
      BY <2>2, <1>q, AppendIn
    <3>3. QED
      BY <2>1, <2>2, <2>3, <3>1, <3>2
  <2>5. ~InHas' /\ ~InEvents' /\ ~InRx' /\ ~InHeld' /\ (Awaited' <=> Awaited)
    BY <2>1, <2>3 DEF InHas, InEvents, InRx, InHeld, Awaited
  <2>6. OneCommand'
    BY <2>1, <2>3, <2>4, <2>5 DEF OneCommand
  <2>7. QED
    BY <1>c, <2>1, <2>4, <2>5, <2>6
<1>17. CASE BtSendsLeCommand
  <2> DEFINE r == [run |-> runs, what |-> "local"]
  <2>1. /\ UNCHANGED <<rl, after, raw, opened, ctl, cmdq, seen, th, held, usb>> /\ waits = FALSE
        /\ waits' = TRUE /\ opened
        /\ rx' = Append(rx, r) /\ raw = FALSE /\ rl \in {"loop", "pump"}
    BY <1>17 DEF BtSendsLeCommand, BtMaySend, FlagTypes
  <2>2. r \in Queued
    BY <2>1 DEF ScalarTypes, Queued
  <2> HIDE DEF r
  <2>3. /\ ~InCmd /\ ~InHas /\ ~InEvents /\ ~InHeld /\ ~InRx /\ Once(ctl.has, OwnCommands)
        /\ Once(ctl.events, OwnCommands)
        /\ Once(cmdq, OwnCommands) /\ Once(rx, Replies)
    BY <2>1, <1>c DEF OneCommand
  <2>4. Once(rx', Replies)
    BY <2>1, <2>2, <2>3, <1>q, AppendIn DEF InRx
  <2>5. ~InHas' /\ ~InEvents' /\ ~InCmd' /\ ~InHeld' /\ (Awaited' <=> Awaited)
    BY <2>1, <2>3 DEF InHas, InEvents, InCmd, InHeld, Awaited
  <2>6. OneCommand'
    BY <2>1, <2>3, <2>4, <2>5 DEF OneCommand
  <2>7. QED
    BY <1>c, <2>1, <2>5, <2>6
<1>18. CASE BtSendsData
  <2>1. UNCHANGED <<cmdq, ctl.has, ctl.events, rx, waits>>
    BY <1>18 DEF BtSendsData
  <2>2. InHeld' <=> InHeld
    BY <1>18 DEF BtSendsData, InHeld
  <2>3. QED
    BY <1>18, <1>c, <2>1, <2>2, SameQueues DEF BtSendsData, ScalarTypes
<1>19. CASE Pump
  <2>1. UNCHANGED <<cmdq, ctl.has, ctl.events, rx, waits>>
    BY <1>19 DEF Pump
  <2>2. InHeld' <=> InHeld
    BY <1>19 DEF Pump, InHeld
  <2>3. QED
    BY <1>19, <1>c, <2>1, <2>2, SameQueues DEF Pump, ScalarTypes
<1>20. CASE PumpPacket
  <2>1. /\ UNCHANGED <<rl, after, raw, opened, ctl, cmdq, seen, th, held, usb>> /\ rl = "pump"
        /\ rx # <<>> /\ rx' = Tail(rx)
        /\ waits' = (IF ~raw /\ Head(rx).what \in {"bt", "btReset", "local"} THEN FALSE ELSE waits)
    BY <1>20 DEF PumpPacket
  <2>2. (InRx <=> Head(rx) \in Replies \/ InRx') /\ (Once(rx, Replies) => Once(rx', Replies))
        /\ (Once(rx, Replies) /\ Head(rx) \in Replies => ~InRx') /\ Head(rx) \in Queued
    BY <2>1, <1>q, TailIn DEF InRx
  <2>3. Head(rx) \in Replies <=> Head(rx).what \in {"bt", "btReset", "local"}
    BY <2>2 DEF Replies, OwnCommands
  <2>4. /\ (InHas' <=> InHas) /\ (InEvents' <=> InEvents) /\ (InCmd' <=> InCmd)
        /\ (InHeld' <=> InHeld) /\ (Awaited' <=> Awaited)
    BY <2>1 DEF InHas, InEvents, InCmd, InHeld, Awaited
  <2>5. waits' = waits \/ (~raw /\ Head(rx) \in Replies)
    BY <2>1, <2>3
  <2>6. OneCommand => OneCommand'
    <3>1. Once(cmdq', OwnCommands) <=> Once(cmdq, OwnCommands)
      BY <2>1
    <3>2. /\ (Once(ctl'.has, OwnCommands) <=> Once(ctl.has, OwnCommands))
          /\ (Once(ctl'.events, OwnCommands) <=> Once(ctl.events, OwnCommands))
      BY <2>1
    <3>3. QED
      BY <2>2, <2>4, <2>5, <3>1, <3>2 DEF OneCommand
  <2>7. QED
    BY <1>c, <2>1, <2>2, <2>4, <2>6
<1>21. CASE PumpEnd
  <2>1. UNCHANGED <<cmdq, ctl.has, ctl.events, rx, waits>>
    BY <1>21 DEF PumpEnd
  <2>2. InHeld' <=> InHeld
    BY <1>21 DEF PumpEnd, InHeld
  <2>3. QED
    BY <1>21, <1>c, <2>1, <2>2, SameQueues DEF PumpEnd, ScalarTypes
<1>22. CASE OnWakeApp
  <2>1. UNCHANGED <<cmdq, ctl.has, ctl.events, rx, waits>>
    BY <1>22 DEF OnWakeApp
  <2>2. InHeld' <=> InHeld
    BY <1>22 DEF OnWakeApp, InHeld
  <2>3. QED
    BY <1>22, <1>c, <2>1, <2>2, SameQueues DEF OnWakeApp, ScalarTypes
<1>23. ASSUME NEW t \in Readers, ReadPacket(t) PROVE ResetBody'
  <2>0. th[t] = "idle" /\ Open4 /\ t \in {"eventIn", "aclIn"} /\ rl # "wait" /\ Current
    BY <1>23 DEF ReadPacket, Readers, Threads4, Current
  <2>1. UNCHANGED <<rl, after, raw, opened, cmdq, seen, usb, waits, rx>> /\ ctl'.has = ctl.has
        /\ th' = [th EXCEPT ![t] = "queue"]
    BY <1>23, <2>0 DEF ReadPacket, CtlType
  <2>2. held \in HeldType /\ th \in ThType
    BY DEF PipeTypes
  <2>3. /\ Once(ctl.events, OwnCommands) => Once(ctl'.events, OwnCommands)
        /\ InEvents' => InEvents
        /\ InHeld' => InHeld \/ InEvents
        /\ Once(ctl.events, OwnCommands) /\ InHeld' => InHeld \/ ~InEvents'
        /\ InHeld => InHeld'
        /\ In(ctl'.events, {"closeReset"}) => In(ctl.events, {"closeReset"})
    <3>1. CASE t = "eventIn"
      <4>1. /\ ctl.events # <<>> /\ ctl'.events = Tail(ctl.events)
            /\ held'["eventIn"] = Head(ctl.events) /\ ~InHeld
        BY <1>23, <3>1, <2>0, <2>2 DEF ReadPacket, CtlType, HeldType, InHeld, Readers
      <4>2. /\ InEvents <=> Head(ctl.events) \in OwnCommands \/ InEvents'
            /\ In(ctl.events, {"closeReset"}) <=> Head(ctl.events) \in {"closeReset"} \/ In(ctl'.events, {"closeReset"})
            /\ Once(ctl.events, OwnCommands) => Once(ctl'.events, OwnCommands)
            /\ Once(ctl.events, OwnCommands) /\ Head(ctl.events) \in OwnCommands => ~InEvents'
        BY <4>1, <1>q, TailIn DEF InEvents
      <4>3. InHeld' => Head(ctl.events) \in OwnCommands
        BY <4>1 DEF InHeld
      <4>4. QED
        BY <4>1, <4>2, <4>3
    <3>2. CASE t = "aclIn"
      <4>1. /\ ctl'.events = ctl.events /\ held'["eventIn"] = held["eventIn"]
            /\ th'["eventIn"] = th["eventIn"]
        BY <1>23, <3>2, <2>1, <2>2 DEF ReadPacket, CtlType, HeldType, ThType, Threads4, Readers
      <4>2. QED
        BY <4>1 DEF InEvents, InHeld
    <3>3. QED
      BY <3>1, <3>2, <2>0
  <2>5. (InHas' <=> InHas) /\ (InRx' <=> InRx) /\ (InCmd' <=> InCmd)
        /\ (Once(cmdq', OwnCommands) <=> Once(cmdq, OwnCommands))
        /\ (Once(ctl'.has, OwnCommands) <=> Once(ctl.has, OwnCommands))
        /\ (Once(rx', Replies) <=> Once(rx, Replies))
    BY <2>1 DEF InHas, InRx, InCmd
  <2>6. OneCommand => OneCommand'
    BY <2>1, <2>3, <2>5 DEF OneCommand
  <2>7. QED
    BY <1>c, <2>0, <2>1, <2>3, <2>5, <2>6
<1>24. ASSUME NEW t \in Readers, QueuePacket(t) PROVE ResetBody'
  <2> DEFINE r == [run |-> usb.generation, what |-> held[t]]
  <2>0. th[t] = "queue" /\ Open4 /\ t \in {"eventIn", "aclIn"} /\ rl # "wait"
    BY <1>24 DEF QueuePacket, Readers, Threads4
  <2>1. UNCHANGED <<rl, after, raw, opened, ctl, cmdq, seen, usb, waits>> /\ rx' = Append(rx, r)
        /\ held' = [held EXCEPT ![t] = "none"] /\ th' = [th EXCEPT ![t] = "idle"]
    BY <1>24 DEF QueuePacket
  <2>2. r \in Queued /\ (r \in Replies <=> held[t] \in OwnCommands)
    <3>1. /\ usb.generation \in 0 .. MaxRuns /\ held[t] \in Packet /\ usb.generation = runs
          /\ runs >= 1
      BY <2>0, <1>24 DEF PipeTypes, UsbType, HeldType
    <3>2. r \in Queued
      BY <3>1 DEF Queued
    <3>3. held[t] # "local"
      BY <3>1 DEF Packet, Heard, Command, OwnCommands
    <3>4. QED
      BY <3>2, <3>3 DEF Replies
  <2>3. (r \in Replies => InHeld) /\ (InHeld' => InHeld) /\ (r \in Replies => ~InHeld')
    <3>1. held \in HeldType /\ th \in ThType
      BY DEF PipeTypes
    <3>2. CASE t = "eventIn"
      BY <3>1, <3>2, <2>0, <2>1, <2>2 DEF InHeld, HeldType, ThType, Threads4, Readers
    <3>3. CASE t = "aclIn"
      <4>1. held[t] \notin OwnCommands
        BY <3>1, <3>3 DEF HeldType, OwnCommands
      <4>2. th'["eventIn"] = th["eventIn"] /\ held'["eventIn"] = held["eventIn"]
        BY <3>1, <3>3, <2>1 DEF HeldType, ThType, Threads4, Readers
      <4>3. QED
        BY <4>1, <4>2, <2>2 DEF InHeld
    <3>4. QED
      BY <3>2, <3>3, <2>0
  <2> HIDE DEF r
  <2>4. /\ (InRx' <=> InRx \/ r \in Replies)
        /\ (Once(rx, Replies) /\ (InRx => r \notin Replies) => Once(rx', Replies))
    BY <2>1, <2>2, <1>q, AppendIn DEF InRx
  <2>5. (InHas' <=> InHas) /\ (InEvents' <=> InEvents) /\ (InCmd' <=> InCmd)
        /\ (Once(cmdq', OwnCommands) <=> Once(cmdq, OwnCommands))
        /\ (Once(ctl'.has, OwnCommands) <=> Once(ctl.has, OwnCommands))
        /\ (Once(ctl'.events, OwnCommands) <=> Once(ctl.events, OwnCommands))
    BY <2>1 DEF InHas, InEvents, InCmd
  <2>6. OneCommand => OneCommand'
    BY <2>1, <2>3, <2>4, <2>5 DEF OneCommand
  <2>7. QED
    BY <1>c, <2>0, <2>1, <2>3, <2>4, <2>5, <2>6
<1>25. ASSUME NEW t \in Readers, ReadError(t) PROVE ResetBody'
  <2>0. th[t] = "idle" /\ Open4 /\ rl # "wait" /\ th \in ThType
    BY <1>25 DEF ReadError, Readers, Threads4, PipeTypes
  <2>1. /\ UNCHANGED <<rl, after, raw, opened, cmdq, seen, usb, waits, rx, held>>
        /\ ctl'.has = ctl.has
        /\ (ctl'.events = ctl.events \/ (ctl.events # <<>> /\ ctl'.events = Tail(ctl.events)))
    BY <1>25 DEF ReadError, CtlType
  <2>2. InHeld' <=> InHeld
    <3>1. \A u \in Threads4 : u # t => th'[u] = th[u]
      BY <1>25, <2>0 DEF ReadError, ThType
    <3>2. th'[t] # "queue"
      BY <1>25, <2>0 DEF ReadError, ThType, Readers, Threads4
    <3>3. QED
      BY <3>1, <3>2, <2>0, <2>1 DEF InHeld, Readers, Threads4
  <2>3. /\ Once(ctl.events, OwnCommands) => Once(ctl'.events, OwnCommands)
        /\ InEvents' => InEvents
        /\ In(ctl'.events, {"closeReset"}) => In(ctl.events, {"closeReset"})
    BY <2>1, <1>q, TailIn DEF InEvents
  <2>5. (InHas' <=> InHas) /\ (InRx' <=> InRx) /\ (InCmd' <=> InCmd)
        /\ (Once(cmdq', OwnCommands) <=> Once(cmdq, OwnCommands))
        /\ (Once(ctl'.has, OwnCommands) <=> Once(ctl.has, OwnCommands))
        /\ (Once(rx', Replies) <=> Once(rx, Replies))
    BY <2>1 DEF InHas, InRx, InCmd
  <2>6. OneCommand => OneCommand'
    BY <2>1, <2>2, <2>3, <2>5 DEF OneCommand
  <2>7. QED
    BY <1>c, <2>0, <2>1, <2>2, <2>3, <2>5, <2>6
<1>26. ASSUME NEW t \in Threads4, Fails(t) PROVE ResetBody'
  <2>1. UNCHANGED <<cmdq, ctl.has, ctl.events, rx, waits>>
    BY <1>26 DEF Fails
  <2>2. InHeld' <=> InHeld
    BY <1>26 DEF Fails, InHeld, PipeTypes, ThType, Threads4, Readers
  <2>3. QED
    BY <1>26, <1>c, <2>1, <2>2, SameQueues DEF Fails, ScalarTypes
<1>27. ASSUME NEW t \in Threads4, FlagsFailure(t) PROVE ResetBody'
  <2>1. UNCHANGED <<cmdq, ctl.has, ctl.events, rx, waits>>
    BY <1>27 DEF FlagsFailure
  <2>2. InHeld' <=> InHeld
    BY <1>27 DEF FlagsFailure, InHeld, PipeTypes, ThType, Threads4, Readers
  <2>3. QED
    BY <1>27, <1>c, <2>1, <2>2, SameQueues DEF FlagsFailure, ScalarTypes
<1>28. CASE WriteCommand
  <2> DEFINE c == Head(cmdq)
  <2>0. th["cmdOut"] = "idle" /\ Open4 /\ rl # "wait" /\ cmdq # <<>> /\ th \in ThType
    BY <1>28 DEF WriteCommand, Threads4, PipeTypes
  <2>1. /\ UNCHANGED <<rl, after, raw, opened, rx, waits, held, usb>> /\ cmdq' = Tail(cmdq)
        /\ ctl'.events = ctl.events
        /\ (ctl'.has = ctl.has \/ ctl'.has = Append(ctl.has, c))
    BY <1>28 DEF WriteCommand, Receives, CtlType
  <2>2. /\ InCmd <=> c \in OwnCommands \/ InCmd'
        /\ In(cmdq, {"loader"}) <=> c \in {"loader"} \/ In(cmdq', {"loader"})
        /\ Once(cmdq, OwnCommands) => Once(cmdq', OwnCommands)
        /\ Once(cmdq, OwnCommands) /\ c \in OwnCommands => ~InCmd'
        /\ c \in Command
    BY <2>0, <2>1, <1>q, TailIn DEF InCmd
  <2>3. c \in Heard /\ c # "closeReset" /\ (c \in OwnCommands \/ c = "loader")
    BY <2>2, <1>q DEF Command
  <2> HIDE DEF c
  <2>4. /\ In(Append(ctl.has, c), OwnCommands) <=> InHas \/ c \in OwnCommands
        /\ In(Append(ctl.has, c), {"closeReset"}) <=> In(ctl.has, {"closeReset"})
        /\ Once(ctl.has, OwnCommands) /\ (InHas => c \notin OwnCommands) => Once(Append(ctl.has, c), OwnCommands)
    BY <2>3, <1>q, AppendIn DEF InHas
  <2>5. /\ InHas' => InHas \/ c \in OwnCommands
        /\ In(ctl'.has, {"closeReset"}) <=> In(ctl.has, {"closeReset"})
        /\ Once(ctl.has, OwnCommands) /\ (InHas => c \notin OwnCommands) => Once(ctl'.has, OwnCommands)
    BY <2>1, <2>4 DEF InHas
  <2>6. /\ (InEvents' <=> InEvents) /\ (InRx' <=> InRx)
        /\ (Once(ctl'.events, OwnCommands) <=> Once(ctl.events, OwnCommands))
        /\ (Once(rx', Replies) <=> Once(rx, Replies))
    BY <2>1 DEF InEvents, InRx
  <2>7. InHeld' <=> InHeld
    BY <1>28, <2>0 DEF WriteCommand, InHeld, ThType, Threads4, Readers
  <2>8. OneCommand /\ (InHas => c \notin OwnCommands)
    BY <1>c, <2>0, <2>2 DEF OneCommand
  <2>9. OneCommand'
    BY <2>1, <2>2, <2>5, <2>6, <2>7, <2>8 DEF OneCommand
  <2>10. ~InHas
    BY <1>c, <2>0, <2>2, <2>3, <2>8
  <2>11. ~In(ctl.has, Resets)
    BY <1>c, <2>0, <2>10 DEF InHas, In, Resets, OwnCommands
  <2>12. "hung" \notin seen'
    BY <1>28, <1>c, <2>11 DEF WriteCommand, Receives, In
  <2>13. QED
    BY <1>c, <2>0, <2>1, <2>2, <2>5, <2>6, <2>7, <2>9, <2>12
<1>29. CASE ReportSent
  <2>1. UNCHANGED <<cmdq, ctl.has, ctl.events, rx, waits>>
    BY <1>29 DEF ReportSent
  <2>2. InHeld' <=> InHeld
    BY <1>29 DEF ReportSent, InHeld, PipeTypes, ThType, Threads4, Readers
  <2>3. QED
    BY <1>29, <1>c, <2>1, <2>2, SameQueues DEF ReportSent, ScalarTypes
<1>30. CASE WriteData
  <2>1. UNCHANGED <<cmdq, ctl.has, ctl.events, rx, waits>>
    BY <1>30 DEF WriteData
  <2>2. InHeld' <=> InHeld
    BY <1>30 DEF WriteData, InHeld, PipeTypes, ThType, Threads4, Readers
  <2>3. QED
    BY <1>30, <1>c, <2>1, <2>2, SameQueues DEF WriteData, ScalarTypes
<1>31. CASE Answers
  <2> DEFINE h == Head(ctl.has)
  <2>1. /\ UNCHANGED <<rl, after, raw, opened, rx, waits, held, th, usb, cmdq, seen>>
        /\ ctl.has # <<>> /\ ctl'.has = Tail(ctl.has)
        /\ (ctl'.events = ctl.events /\ h = "loader") \/ ctl'.events = Append(ctl.events, h)
    BY <1>31 DEF Answers, CtlType
  <2>2. /\ InHas <=> h \in OwnCommands \/ InHas'
        /\ In(ctl.has, {"closeReset"}) <=> h \in {"closeReset"} \/ In(ctl'.has, {"closeReset"})
        /\ Once(ctl.has, OwnCommands) => Once(ctl'.has, OwnCommands)
        /\ Once(ctl.has, OwnCommands) /\ h \in OwnCommands => ~InHas'
        /\ h \in Heard
    BY <2>1, <1>q, TailIn DEF InHas
  <2>3. h = Head(ctl.has)
    OBVIOUS
  <2> HIDE DEF h
  <2>4. /\ In(Append(ctl.events, h), OwnCommands) <=> InEvents \/ h \in OwnCommands
        /\ In(Append(ctl.events, h), {"closeReset"}) <=> In(ctl.events, {"closeReset"}) \/ h \in {"closeReset"}
        /\ In(Append(ctl.events, h), Resets) <=> In(ctl.events, Resets) \/ h \in Resets
        /\ Once(ctl.events, OwnCommands) /\ (InEvents => h \notin OwnCommands) => Once(Append(ctl.events, h), OwnCommands)
    BY <2>2, <1>q, AppendIn DEF InEvents
  <2>5. /\ InEvents' <=> InEvents \/ h \in OwnCommands
        /\ In(ctl'.events, {"closeReset"}) => In(ctl.events, {"closeReset"}) \/ h \in {"closeReset"}
        /\ In(ctl'.events, Resets) => In(ctl.events, Resets) \/ h \in Resets
        /\ Once(ctl.events, OwnCommands) /\ (InEvents => h \notin OwnCommands) => Once(ctl'.events, OwnCommands)
    BY <2>1, <2>4, <1>q DEF InEvents
  <2>6. /\ (InCmd' <=> InCmd) /\ (InRx' <=> InRx) /\ (InHeld' <=> InHeld)
        /\ (Once(cmdq', OwnCommands) <=> Once(cmdq, OwnCommands))
        /\ (Once(rx', Replies) <=> Once(rx, Replies))
    BY <2>1 DEF InCmd, InRx, InHeld
  <2>7. OneCommand => OneCommand'
    BY <2>1, <2>2, <2>5, <2>6 DEF OneCommand
  <2>8. Awaited => Awaited'
    <3>1. SUFFICES ASSUME Awaited PROVE Awaited'
      OBVIOUS
    <3>2. /\ Len(ctl.has) \in Nat \ {0} /\ h = ctl.has[1] /\ Len(ctl'.has) = Len(ctl.has) - 1
          /\ \A i \in 1 .. Len(ctl.has) - 2 : i + 1 \in 1 .. Len(ctl.has) - 1 /\ ctl'.has[i] = ctl.has[i + 1]
          /\ Len(ctl.has) # 1 => 1 \in 1 .. Len(ctl.has) - 1 /\ ctl'.has[Len(ctl.has) - 1] = ctl.has[Len(ctl.has)]
      BY <2>1, <2>3, <1>q, TailAt
    <3>3. /\ ctl.has[Len(ctl.has)] = "closeReset" /\ ~In(ctl.events, Resets)
          /\ \A i \in 1 .. Len(ctl.has) - 1 : ctl.has[i] \notin Resets
      BY <3>1, <3>2 DEF Awaited
    <3>4. CASE Len(ctl.has) = 1
      <4>1. h = "closeReset" /\ ctl'.events = Append(ctl.events, h)
        BY <3>2, <3>3, <3>4, <2>1
      <4>2. /\ Len(ctl'.events) = Len(ctl.events) + 1 /\ Len(ctl.events) \in Nat
            /\ DOMAIN ctl.events = 1 .. Len(ctl.events)
            /\ ctl'.events[Len(ctl.events) + 1] = h /\ \A i \in 1 .. Len(ctl.events) : ctl'.events[i] = ctl.events[i]
        BY <4>1, <2>2, <1>q
      <4>3. \A i \in 1 .. Len(ctl.events) : ctl'.events[i] \notin Resets
        BY <4>2, <3>3 DEF In
      <4>4. QED
        BY <4>1, <4>2, <4>3, <3>2, <3>4 DEF Awaited
    <3>5. CASE Len(ctl.has) # 1
      <4>1. h \notin Resets
        BY <3>2, <3>3, <3>5
      <4>2. ~In(ctl'.events, Resets)
        BY <4>1, <3>3, <2>5
      <4>3. Len(ctl'.has) > 0 /\ ctl'.has[Len(ctl'.has)] = "closeReset"
        BY <3>2, <3>3, <3>5
      <4>4. \A i \in 1 .. Len(ctl.has) - 2 : ctl'.has[i] \notin Resets
        BY <3>2, <3>3
      <4>5. \A i \in 1 .. Len(ctl'.has) - 1 : ctl'.has[i] \notin Resets
        <5>1. (Len(ctl.has) - 1) - 1 = Len(ctl.has) - 2
          BY <3>2
        <5>2. QED
          BY <4>4, <5>1, <3>2
      <4>6. QED
        BY <4>2, <4>3, <4>5 DEF Awaited
    <3>6. QED
      BY <3>4, <3>5
  <2>9. QED
    BY <1>c, <2>1, <2>2, <2>5, <2>6, <2>7, <2>8
<1>32. CASE SendsData
  <2>1. UNCHANGED <<cmdq, ctl.has, ctl.events, rx, waits>>
    BY <1>32 DEF SendsData, CtlType
  <2>2. InHeld' <=> InHeld
    BY <1>32 DEF SendsData, InHeld
  <2>3. QED
    BY <1>32, <1>c, <2>1, <2>2, SameQueues DEF SendsData
<1>33. CASE Unplugged
  <2>1. /\ UNCHANGED <<rl, after, raw, opened, cmdq, seen, usb, waits, rx, held, th>>
        /\ ctl'.has = <<>> /\ ctl'.events = <<>>
    BY <1>33 DEF Unplugged
  <2>2. ~InHas' /\ ~InEvents' /\ Once(ctl'.has, OwnCommands) /\ Once(ctl'.events, OwnCommands)
        /\ ~In(ctl'.events, {"closeReset"}) /\ ~In(ctl'.has, {"closeReset"})
    BY <2>1, EmptyIn DEF InHas, InEvents
  <2>3. Awaited'
    BY <2>1 DEF Awaited
  <2>4. (InHeld' <=> InHeld) /\ (InRx' <=> InRx) /\ (InCmd' <=> InCmd)
        /\ (Once(cmdq', OwnCommands) <=> Once(cmdq, OwnCommands))
        /\ (Once(rx', Replies) <=> Once(rx, Replies))
    BY <2>1 DEF InHeld, InRx, InCmd
  <2>5. OneCommand => OneCommand'
    BY <2>1, <2>2, <2>4 DEF OneCommand
  <2>6. QED
    BY <1>c, <2>1, <2>2, <2>3, <2>4, <2>5
<1>34. CASE UNCHANGED transportVars
  <2>1. UNCHANGED <<cmdq, ctl.has, ctl.events, rx, waits>> /\ (InHeld' <=> InHeld)
    BY <1>34 DEF transportVars, InHeld
  <2>2. QED
    BY <1>34, <1>c, <2>1, SameQueues DEF transportVars
<1> HIDE DEF TransportTypes, LifeInv, RawInv, ResetBody, Renewing, Open4
<1>35. QED
  BY <1>1, <1>2, <1>3, <1>4, <1>5, <1>6, <1>7, <1>8, <1>9, <1>10, <1>11, <1>12, <1>13, <1>14,
     <1>15, <1>16, <1>17, <1>18, <1>19, <1>20, <1>21, <1>22, <1>23, <1>24, <1>25, <1>26, <1>27,
     <1>28, <1>29, <1>30, <1>31, <1>32, <1>33, <1>34
     DEF TransportNext

\* The invariant holds at first.
LEMMA TransportInvInit == TransportInit => TransportInv
<1>1. SUFFICES ASSUME TransportInit PROVE TransportInv
  OBVIOUS
<1>2. TransportTypes
  <2>1. ScalarTypes /\ FlagTypes
    <3>1. FlagTypes
      BY <1>1 DEF TransportInit, FlagTypes
    <3>2. 0 \in 0 .. MaxRuns
      BY TransportAssumption
    <3>3. ScalarTypes
      BY <1>1, <3>2 DEF TransportInit, ScalarTypes, Closing
    <3>4. QED
      BY <3>1, <3>3
  <2>2. PipeTypes
    BY <1>1, TransportAssumption DEF TransportInit, PipeTypes, UsbType, ThType, HeldType,
       Packet,
       Readers, Threads4
  <2>3. QueueTypes /\ ctl \in CtlType /\ nth \in NthType
    BY <1>1 DEF TransportInit, QueueTypes, CtlType, NthType
  <2>4. QED
    BY <2>1, <2>2, <2>3 DEF TransportTypes
<1>3. LifeInv /\ RawInv /\ FailInv
  BY <1>1 DEF TransportInit, LifeInv, RawInv, FailInv, Open4, Renewing, Closing, Threads4,
     Readers
<1>4. ReportInv
  BY <1>1 DEF TransportInit, ReportInv, Open4, Pending
<1>5. ResetInv
  <2>1. ~InHas /\ ~InEvents /\ ~In(ctl.has, {"closeReset"}) /\ ~In(ctl.events, {"closeReset"})
    BY <1>1, EmptyIn DEF TransportInit, InHas, InEvents
  <2>2. QED
    BY <1>1, <2>1 DEF TransportInit, ResetInv, ResetBody, Open4, Renewing, Closing
<1>6. QED
  BY <1>2, <1>3, <1>4, <1>5 DEF TransportInv

\* The invariant gives the property.
LEMMA TransportInvSafe == TransportInv => TransportSafe
<1>1. SUFFICES ASSUME TransportInv PROVE TransportSafe
  OBVIOUS
<1>2. TransportTypeOK
  <2>1. \A i \in DOMAIN rx : rx[i].run \in 1 .. MaxRuns
    <3>1. rx \in Seq(Queued)
      BY <1>1 DEF TransportInv, TransportTypes, QueueTypes
    <3>2. \A i \in DOMAIN rx : rx[i] \in Queued
      BY <3>1
    <3>3. QED
      BY <3>2 DEF Queued
  <2>2. {raw, loader, opened, inFlight, failed, wakeFlags} \subseteq BOOLEAN
    BY <1>1 DEF TransportInv, TransportTypes, FlagTypes
  <2>3. QED
    BY <1>1, <2>1, <2>2 DEF TransportInv, TransportTypes, ScalarTypes, PipeTypes, ThType,
       TransportTypeOK, Closing
<1>3. OwnPackets
  BY <1>1 DEF TransportInv, LifeInv, OwnPackets
<1>4. ReportsMatch
  <2>1. sent \in Nat /\ owed \in Int
    BY <1>1 DEF TransportInv, TransportTypes, ScalarTypes
  <2>2. "late" \in seen \/ owed - (IF raw THEN 0 ELSE sent) >= 0
    BY <1>1, <2>1 DEF TransportInv, ReportInv, RawInv
  <2>3. QED
    BY <1>1, <2>2 DEF TransportInv, ReportInv, ReportsMatch
<1>5. FailureKnown
  BY <1>1 DEF TransportInv, FailInv, FailureKnown
<1>6. ResetAlone
  BY <1>1 DEF TransportInv, ResetInv, ResetBody, Calm, ResetAlone
<1>7. QED
  BY <1>2, <1>3, <1>4, <1>5, <1>6 DEF TransportSafe

(***************************************************************************)
(* Theorem                                                                 *)
(***************************************************************************)

\* Whatever the runs, commands and faults: what BTstack is handed was read in its own
\* run, it is told "packet sent" once per packet, a failure of the I/O threads becomes
\* known, and no command reaches a controller that resets, save where a close gave up
\* waiting or fell together with the stack's own reset (UsbTransport, transport.rs).
THEOREM TransportSafeAlways == TransportSpec => []TransportSafe
<1>1. TransportInit => TransportInv
  BY TransportInvInit
<1>2. TransportInv /\ [TransportNext]_transportVars => TransportInv'
  BY TransportTypesStep, LifeStep, RawStep, ReportStep, FailStep, ResetStep DEF TransportInv
<1>3. QED
  BY <1>1, <1>2, TransportInvSafe, PTL DEF TransportSpec

-----------------------------------------------------------------------------
(* The audio path *)

MediaPacket == [units : Seq(Units), gen : Nat]

\* Where the encode thread holds a packet, and where it read the flag for it
Holding == {"send", "last", "push", "pushLast"}
Pushing == {"push", "pushLast"}

PathTypes ==
    /\ captured \in 0..MaxUnit /\ mark \in 0..captured /\ last \in 0..captured
    /\ ring \in Seq(Units) /\ pcm \in Seq(Units) /\ pack \in Seq(Units)
    /\ out \in MediaPacket /\ kind \in Kinds
    /\ step \in {"off", "top", "encode", "send", "last", "push", "pushLast", "wake", "wakeLast"}
    /\ control \in [stop : BOOLEAN, reset : BOOLEAN]
    /\ queue \in Seq(MediaPacket)
    /\ wake \in BOOLEAN /\ streaming \in BOOLEAN /\ requested \in BOOLEAN /\ awaited \in BOOLEAN
    /\ gen \in 0..MaxRestarts /\ epoch \in 0..MaxReset

\* The buffers never hold more than they are for.
Sizes ==
    /\ Len(ring) <= RingSize
    /\ Len(pcm) < PerEncode + Round
    /\ step \in {"off", "top", "last", "pushLast", "wakeLast"} => Len(pcm) < PerEncode
    /\ Len(pack) <= PackMax * PerEncode
    /\ Len(queue) <= QueueSize

\* The packet on its way to the queue: there is one exactly while `send` runs.
PacketOut ==
    /\ step \notin Holding => out.units = <<>>
    /\ step \in Holding => out.units # <<>>
    /\ out.gen <= gen
    /\ step \in Pushing => out.gen >= 1
    /\ streaming => gen >= 1
    /\ kind = "single" => pack = <<>>

MediaQueued == \A i \in 1..Len(queue) : queue[i].units # <<>> /\ queue[i].gen \in 1..gen

\* Of the packets of an earlier start at most one is in the queue, and none
\* when the encode thread still holds such a packet.
OneStale ==
    streaming =>
       /\ \A i, j \in 1..Len(queue) : queue[i].gen < gen /\ queue[j].gen < gen => i = j
       /\ step \in Pushing /\ out.gen < gen => \A i \in 1..Len(queue) : queue[i].gen = gen

\* A request that is noted is one BTstack has.
Asked == streaming /\ requested => awaited

Inc(s) == \A i, j \in 1..Len(s) : i < j => s[i] < s[j]
Before(A, B) == \A a \in A, b \in B : a < b

\* From the queue back to the ring, audio becomes newer.
Order ==
    /\ Inc(ring) /\ Inc(pcm)
    /\ Before(ToSet(pcm), ToSet(ring))
    /\ Before(ToSet(pack), ToSet(pcm) \cup ToSet(ring))
    /\ Before(ToSet(out.units), ToSet(pack) \cup ToSet(pcm) \cup ToSet(ring))
    /\ \A i \in 1..Len(queue) :
          Before(ToSet(queue[i].units),
                 ToSet(out.units) \cup ToSet(pack) \cup ToSet(pcm) \cup ToSet(ring))
    /\ \A i, j \in 1..Len(queue) :
          i < j => Before(ToSet(queue[i].units), ToSet(queue[j].units))

\* What is on its way was captured, and none of it was sent.
Fresh ==
    /\ \A u \in ToSet(ring) \cup ToSet(pcm) \cup ToSet(pack) \cup ToSet(out.units) :
          last < u /\ u <= captured
    /\ \A i \in 1..Len(queue) : \A u \in ToSet(queue[i].units) : last < u /\ u <= captured

MediaInv ==
    /\ PathTypes /\ Sizes /\ PacketOut /\ MediaQueued
    /\ OneStale /\ ResetDrops /\ Asked /\ QueueServed
    /\ Order /\ Fresh

(***************************************************************************)
(* The operators the buffers are made of                                   *)
(***************************************************************************)

\* Every buffer has room for something.
LEMMA Positive ==
    /\ RingSize \in Nat /\ RingSize > 0 /\ Round \in Nat /\ Round > 0
    /\ PerEncode \in Nat /\ PerEncode > 0 /\ PackMax \in Nat /\ PackMax > 0
    /\ QueueSize \in Nat /\ QueueSize > 0
<1>1. \A n \in Nat \ {0} : n \in Nat /\ n > 0
  OBVIOUS
<1>2. /\ RingSize \in Nat \ {0} /\ Round \in Nat \ {0} /\ PerEncode \in Nat \ {0}
      /\ PackMax \in Nat \ {0} /\ QueueSize \in Nat \ {0}
  BY SizeAssumption, Zenon
<1> QED BY <1>1, <1>2

\* The elements of a sequence, by their places.
LEMMA InSeq ==
    ASSUME NEW S, NEW s \in Seq(S)
    PROVE  /\ \A x : x \in ToSet(s) <=> \E i \in 1..Len(s) : x = s[i]
           /\ ToSet(s) \subseteq S
           /\ s = <<>> => ToSet(s) = {}
BY DEF ToSet

\* Two sequences one after the other.
LEMMA MediaJoined ==
    ASSUME NEW S, NEW s \in Seq(S), NEW t \in Seq(S)
    PROVE  /\ s \o t \in Seq(S) /\ Len(s \o t) = Len(s) + Len(t)
           /\ ToSet(s \o t) = ToSet(s) \cup ToSet(t)
<1>1. /\ s \o t \in Seq(S) /\ Len(s \o t) = Len(s) + Len(t) /\ Len(s) \in Nat /\ Len(t) \in Nat
      /\ \A i \in 1..Len(s) : (s \o t)[i] = s[i]
      /\ \A i \in 1..Len(t) : (s \o t)[Len(s) + i] = t[i]
  BY ConcatProperties
<1> HIDE DEF ToSet
<1>2. ASSUME NEW x \in ToSet(s \o t) PROVE x \in ToSet(s) \cup ToSet(t)
  <2>1. PICK i \in 1..Len(s \o t) : x = (s \o t)[i]
    BY <1>1, <1>2, InSeq
  <2>2. i \in 1..Len(s) \/ (i - Len(s) \in 1..Len(t) /\ i = Len(s) + (i - Len(s)))
    BY <1>1
  <2> QED BY <1>1, <2>1, <2>2, InSeq
<1>3. ASSUME NEW x \in ToSet(s) PROVE x \in ToSet(s \o t)
  <2>1. PICK i \in 1..Len(s) : x = s[i]
    BY <1>3, InSeq
  <2>2. i \in 1..Len(s \o t)
    BY <1>1
  <2> QED BY <1>1, <2>1, <2>2, InSeq
<1>4. ASSUME NEW x \in ToSet(t) PROVE x \in ToSet(s \o t)
  <2>1. PICK i \in 1..Len(t) : x = t[i]
    BY <1>4, InSeq
  <2>2. Len(s) + i \in 1..Len(s \o t)
    BY <1>1
  <2> QED BY <1>1, <2>1, <2>2, InSeq
<1> QED BY <1>1, <1>2, <1>3, <1>4

\* A sequence taken apart behind its n-th element; in a growing one the first
\* part is older than the second.
LEMMA Parted ==
    ASSUME NEW s \in Seq(Units), NEW n \in 0..Len(s)
    PROVE  LET a == SubSeq(s, 1, n)
               b == SubSeq(s, n + 1, Len(s))
           IN  /\ a \in Seq(Units) /\ Len(a) = n /\ b \in Seq(Units) /\ Len(b) = Len(s) - n
               /\ ToSet(a) \subseteq ToSet(s) /\ ToSet(b) \subseteq ToSet(s)
               /\ Inc(s) => Inc(a) /\ Inc(b) /\ Before(ToSet(a), ToSet(b))
<1> DEFINE a == SubSeq(s, 1, n)
           b == SubSeq(s, n + 1, Len(s))
<1>1. Len(s) \in Nat /\ n \in Nat /\ n <= Len(s) /\ n \in Int /\ 1 \in 1..(Len(s) + 1) /\ n + 1 \in 1..(Len(s) + 1)
  OBVIOUS
<1>2. a \in Seq(Units) /\ Len(a) = n /\ \A i \in 1..n : a[i] = s[i]
  BY <1>1, SubSeqProperties
<1>3. b \in Seq(Units) /\ Len(b) = Len(s) - n /\ \A i \in 1..(Len(s) - n) : b[i] = s[n + i]
  BY <1>1, SubSeqProperties
<1> HIDE DEF a, b
<1>4. \A i \in 1..n : i \in 1..Len(s)
  BY <1>1
<1>5. \A i \in 1..(Len(s) - n) : n + i \in 1..Len(s)
  BY <1>1
<1>6. ToSet(a) \subseteq ToSet(s) /\ ToSet(b) \subseteq ToSet(s)
  BY SMTT(30), <1>2, <1>3, <1>4, <1>5, InSeq
<1>7. ASSUME Inc(s) PROVE Inc(a) /\ Inc(b) /\ Before(ToSet(a), ToSet(b))
  <2>1. Inc(a)
    BY <1>2, <1>4, <1>7 DEF Inc
  <2>2. Inc(b)
    BY <1>1, <1>3, <1>5, <1>7 DEF Inc
  <2>3. ASSUME NEW x \in ToSet(a), NEW y \in ToSet(b) PROVE x < y
    <3>1. PICK i \in 1..n : x = s[i]
      BY <1>2, <2>3, InSeq
    <3>2. PICK j \in 1..(Len(s) - n) : y = s[n + j]
      BY <1>3, <2>3, InSeq
    <3>3. i < n + j
      BY <1>1
    <3> QED BY <1>4, <1>5, <1>7, <3>1, <3>2, <3>3 DEF Inc
  <2> QED BY <2>1, <2>2, <2>3 DEF Before
<1> QED BY <1>2, <1>3, <1>6, <1>7 DEF a, b

(***************************************************************************)
(* What is on its way                                                      *)
(***************************************************************************)

Flight == ToSet(ring) \cup ToSet(pcm) \cup ToSet(pack) \cup ToSet(out.units) \cup UnitsOf(queue)

\* q is what is left of r once some of its first packets are gone.
Suffix(q, r) ==
    \E n \in 0..Len(r) : Len(q) = Len(r) - n /\ \A i \in 1..Len(q) : q[i] = r[n + i]

\* The units in a queue, by the places of their packets.
LEMMA UnitsAt ==
    ASSUME NEW q \in Seq(MediaPacket)
    PROVE  \A u : u \in UnitsOf(q) <=> \E i \in 1..Len(q) : u \in ToSet(q[i].units)
<1>1. \A p : p \in ToSet(q) <=> \E i \in 1..Len(q) : p = q[i]
  BY InSeq
<1> QED BY <1>1 DEF UnitsOf

\* An empty buffer holds nothing.
LEMMA NothingIn == ToSet(<<>>) = {} /\ Inc(<<>>) /\ <<>> \in Seq(Units) /\ Len(<<>>) = 0
BY DEF ToSet, Inc

\* A queue that is left alone.
LEMMA SuffixSelf == ASSUME NEW q \in Seq(MediaPacket) PROVE Suffix(q, q)
<1>1. 0 \in 0..Len(q) /\ Len(q) = Len(q) - 0 /\ \A i \in 1..Len(q) : q[i] = q[0 + i]
  OBVIOUS
<1> QED BY <1>1 DEF Suffix

\* Everything on its way is a unit.
LEMMA AllUnits ==
    ASSUME PathTypes
    PROVE  /\ Units \subseteq Nat
           /\ ToSet(ring) \subseteq Units /\ ToSet(pcm) \subseteq Units
           /\ ToSet(pack) \subseteq Units /\ ToSet(out.units) \subseteq Units
           /\ \A i \in 1..Len(queue) :
                 queue[i].units \in Seq(Units) /\ ToSet(queue[i].units) \subseteq Units
<1>1. Units \subseteq Nat
  BY SizeAssumption DEF Units
<1>2. /\ ToSet(ring) \subseteq Units /\ ToSet(pcm) \subseteq Units
      /\ ToSet(pack) \subseteq Units /\ ToSet(out.units) \subseteq Units
  BY InSeq DEF PathTypes, MediaPacket
<1>3. ASSUME NEW i \in 1..Len(queue)
      PROVE  queue[i].units \in Seq(Units) /\ ToSet(queue[i].units) \subseteq Units
  <2>1. queue[i] \in MediaPacket
    BY DEF PathTypes
  <2>2. queue[i].units \in Seq(Units)
    BY <2>1 DEF MediaPacket
  <2> QED BY <2>2, InSeq
<1> QED BY <1>1, <1>2, <1>3

\* Audio that is only lost leaves the rest in order.
LEMMA LossKeepsOrder ==
    ASSUME PathTypes, Order, Fresh, queue' \in Seq(MediaPacket),
           Inc(ring'), Inc(pcm'), Suffix(queue', queue),
           ToSet(ring') \subseteq ToSet(ring), ToSet(pcm') \subseteq ToSet(pcm),
           ToSet(pack') \subseteq ToSet(pack), ToSet(out'.units) \subseteq ToSet(out.units),
           UNCHANGED captured
    PROVE  Order' /\ (last' = last => Fresh') /\ Flight' \subseteq Flight
<1>1. PICK n \in 0..Len(queue) : Len(queue') = Len(queue) - n /\ \A i \in 1..Len(queue') : queue'[i] = queue[n + i]
  BY DEF Suffix
<1>2. Len(queue) \in Nat /\ n \in Nat
  BY DEF PathTypes
<1>3. \A i \in 1..Len(queue') : n + i \in 1..Len(queue)
  BY <1>1, <1>2
<1>4. Order'
  <2>1. \A i \in 1..Len(queue') :
          Before(ToSet(queue'[i].units),
                 ToSet(out'.units) \cup ToSet(pack') \cup ToSet(pcm') \cup ToSet(ring'))
    BY <1>1, <1>3 DEF Order, Before
  <2>2. \A i, j \in 1..Len(queue') :
          i < j => Before(ToSet(queue'[i].units), ToSet(queue'[j].units))
    BY <1>1, <1>2, <1>3 DEF Order
  <2> QED BY <2>1, <2>2 DEF Order, Before
<1>5. last' = last => Fresh'
  BY <1>1, <1>3 DEF Fresh
<1>6. UnitsOf(queue') \subseteq UnitsOf(queue)
  <2>1. \A u : u \in UnitsOf(queue') <=> \E i \in 1..Len(queue') : u \in ToSet(queue'[i].units)
    BY UnitsAt
  <2>2. \A u : u \in UnitsOf(queue) <=> \E i \in 1..Len(queue) : u \in ToSet(queue[i].units)
    BY UnitsAt DEF PathTypes
  <2> QED BY <1>1, <1>3, <2>1, <2>2
<1> QED BY <1>4, <1>5, <1>6 DEF Flight

\* CaptureInput::push keeps the invariant, and the unit is the newest.
LEMMA CaptureKeeps ==
    ASSUME MediaInv, Capture
    PROVE  MediaInv' /\ Flight' \in {Flight, Flight \cup {captured + 1}}
<1> DEFINE u == captured + 1
<1>1. /\ step # "off" /\ captured < MaxUnit /\ captured' = u
      /\ UNCHANGED <<encoder, control, queue, wake, radio, epoch, mark, last>>
      /\ ring' = IF Len(ring) < RingSize THEN Append(ring, u) ELSE ring
  BY DEF Capture
<1>2. /\ PathTypes /\ Sizes /\ PacketOut /\ MediaQueued /\ OneStale /\ ResetDrops /\ Asked /\ QueueServed
      /\ Order /\ Fresh
  BY DEF MediaInv
<1>3. captured \in Nat /\ u \in Units /\ mark < u /\ last < u /\ ring \in Seq(Units) /\ MaxUnit \in Nat
      /\ Len(ring) \in Nat /\ RingSize \in Nat
  BY <1>1, <1>2, SizeAssumption DEF PathTypes, Units
<1>4. /\ ring' \in Seq(Units) /\ Len(ring') <= RingSize
      /\ ToSet(ring') \in {ToSet(ring), ToSet(ring) \cup {u}}
      /\ Inc(ring')
  <2>1. CASE ring' = ring
    BY <1>2, <1>3, <2>1 DEF Sizes, Order
  <2>2. CASE Len(ring) < RingSize /\ ring' = Append(ring, u)
    <3>1. /\ ring' \in Seq(Units) /\ Len(ring') = Len(ring) + 1 /\ ring'[Len(ring) + 1] = u
          /\ \A i \in 1..Len(ring) : ring'[i] = ring[i]
      BY <1>3, <2>2
    <3>2. \A i \in 1..Len(ring) : ring[i] \in ToSet(ring) /\ ring[i] < u
      <4>1. \A i \in 1..Len(ring) : ring[i] \in ToSet(ring) /\ ring[i] \in Units
        BY <1>3, InSeq
      <4>2. \A x \in ToSet(ring) : x <= captured
        BY <1>2 DEF Fresh
      <4> QED BY <1>3, <4>1, <4>2 DEF Units
    <3>3. Inc(ring')
      BY <1>2, <1>3, <3>1, <3>2 DEF Inc, Order
    <3>4. ToSet(ring') = ToSet(ring) \cup {u}
      <4>1. \A x : x \in ToSet(ring') <=> \E i \in 1..Len(ring') : x = ring'[i]
        BY <3>1, InSeq
      <4>2. \A x : x \in ToSet(ring) <=> \E i \in 1..Len(ring) : x = ring[i]
        BY <1>3, InSeq
      <4>3. \A i \in 1..Len(ring') : i \in 1..Len(ring) \/ i = Len(ring) + 1
        BY <1>3, <3>1
      <4>4. Len(ring) + 1 \in 1..Len(ring') /\ \A i \in 1..Len(ring) : i \in 1..Len(ring')
        BY <1>3, <3>1
      <4> QED BY <3>1, <4>1, <4>2, <4>3, <4>4
    <3> QED BY <1>3, <2>2, <3>1, <3>3, <3>4
  <2> QED BY <1>1, <2>1, <2>2
<1> HIDE DEF u
<1>5. PathTypes' /\ Sizes'
  BY <1>1, <1>2, <1>3, <1>4 DEF PathTypes, Sizes, encoder, radio, u
<1>6. PacketOut' /\ MediaQueued' /\ OneStale' /\ Asked' /\ QueueServed'
  BY <1>1, <1>2 DEF PacketOut, MediaQueued, OneStale, Asked, QueueServed, encoder, radio
<1>7. ResetDrops'
  BY <1>1, <1>2, <1>3, <1>4 DEF ResetDrops, encoder
<1>8. \A x \in ToSet(pcm) \cup ToSet(pack) \cup ToSet(out.units) : x < u
  BY <1>2, <1>3, AllUnits DEF Fresh, u
<1>9. \A i \in 1..Len(queue) : \A x \in ToSet(queue[i].units) : x < u /\ last < x /\ x <= captured'
  <2>1. \A i \in 1..Len(queue) : \A x \in ToSet(queue[i].units) : x \in Nat /\ last < x /\ x <= captured
    BY <1>2, AllUnits DEF Fresh
  <2>2. \A x \in Nat : x <= captured => x < u /\ x <= captured'
    BY <1>1, <1>3 DEF u
  <2> QED BY <2>1, <2>2
<1>10. Order'
  BY <1>1, <1>2, <1>4, <1>8, <1>9 DEF Order, Before, encoder
<1>11. Fresh'
  <2>1. \A x \in ToSet(ring) \cup ToSet(pcm) \cup ToSet(pack) \cup ToSet(out.units) : x \in Nat
    BY <1>2, AllUnits
  <2> QED BY <1>1, <1>2, <1>3, <1>4, <1>9, <2>1 DEF Fresh, encoder, u
<1>12. Flight' \in {Flight, Flight \cup {u}}
  BY <1>1, <1>4 DEF Flight, encoder, UnitsOf
<1> QED BY <1>5, <1>6, <1>7, <1>10, <1>11, <1>12 DEF MediaInv, u

\* A pipeline starts, ends or takes its reset: what it buffered is gone.
LEMMA PipelineKeeps ==
    ASSUME MediaInv, StartPipeline \/ Ended \/ TakeReset
    PROVE  MediaInv' /\ Flight' \subseteq Flight /\ UNCHANGED <<captured, last>>
<1>1. /\ PathTypes /\ Sizes /\ PacketOut /\ MediaQueued /\ OneStale /\ ResetDrops /\ Asked /\ QueueServed
      /\ Order /\ Fresh
  BY DEF MediaInv
<1>2. /\ ring' = <<>> /\ pcm' = <<>> /\ pack' = <<>> /\ UNCHANGED <<captured, queue, wake, radio, last>>
      /\ step' \in {"off", "top"} /\ kind' \in Kinds /\ control' \in [stop : BOOLEAN, reset : BOOLEAN]
      /\ epoch' \in 0..MaxReset /\ mark' \in 0..captured
      /\ step \in {"off", "top"}
  <2>1. CASE StartPipeline
    BY <1>1, <2>1, SizeAssumption DEF StartPipeline, PathTypes
  <2>2. CASE Ended
    BY <1>1, <2>2 DEF Ended, PathTypes
  <2>3. CASE TakeReset
    BY <1>1, <2>3 DEF TakeReset, PathTypes
  <2> QED BY <2>1, <2>2, <2>3
<1>3. out' \in MediaPacket /\ out'.units = <<>> /\ out'.gen <= gen
  BY <1>1, NothingIn DEF StartPipeline, Ended, TakeReset, NoPacket, MediaPacket, PacketOut, PathTypes, Holding
<1>4. PathTypes' /\ Sizes'
  BY <1>1, <1>2, <1>3, NothingIn, SizeAssumption DEF PathTypes, Sizes, radio
<1>5. PacketOut' /\ MediaQueued' /\ OneStale' /\ Asked' /\ QueueServed'
  BY <1>1, <1>2, <1>3 DEF PacketOut, MediaQueued, OneStale, Asked, QueueServed, Holding, Pushing, radio
<1>6. ResetDrops'
  BY <1>2, <1>3, NothingIn DEF ResetDrops
<1>7. Suffix(queue', queue)
  BY <1>1, <1>2, SuffixSelf DEF PathTypes
<1>8. Order' /\ Fresh' /\ Flight' \subseteq Flight
  BY <1>1, <1>2, <1>3, <1>4, <1>7, NothingIn, LossKeepsOrder DEF PathTypes
<1> QED BY <1>2, <1>4, <1>5, <1>6, <1>8 DEF MediaInv

\* AudioPipeline::reset and ::stop only raise a flag.
LEMMA FlagKeeps ==
    ASSUME MediaInv, ResetPipeline \/ StopPipeline
    PROVE  MediaInv' /\ Flight' = Flight /\ UNCHANGED <<captured, last>>
<1>1. /\ UNCHANGED <<captured, ring, encoder, queue, wake, radio, last>>
      /\ control' \in [stop : BOOLEAN, reset : BOOLEAN] /\ epoch' \in 0..MaxReset /\ mark' \in 0..captured
      /\ control'.reset \/ (control'.reset = control.reset /\ mark' = mark)
  <2>1. CASE ResetPipeline
    <3>1. control' = [control EXCEPT !.reset = TRUE] /\ control \in [stop : BOOLEAN, reset : BOOLEAN]
      BY <2>1 DEF MediaInv, PathTypes, ResetPipeline
    <3>2. control' \in [stop : BOOLEAN, reset : BOOLEAN] /\ control'.reset = TRUE
      BY <3>1
    <3>3. epoch \in 0..MaxReset /\ captured \in Nat /\ MaxReset \in Nat
      BY SizeAssumption DEF MediaInv, PathTypes
    <3>4. epoch' \in 0..MaxReset /\ mark' \in 0..captured
      BY <2>1, <3>3 DEF ResetPipeline
    <3> QED BY <2>1, <3>2, <3>4 DEF ResetPipeline
  <2>2. CASE StopPipeline
    BY <2>2 DEF MediaInv, PathTypes, StopPipeline
  <2> QED BY <2>1, <2>2
<1>2. PathTypes' /\ Sizes'
  BY <1>1 DEF MediaInv, PathTypes, Sizes, encoder, radio
<1>3. PacketOut' /\ MediaQueued' /\ OneStale' /\ Asked' /\ QueueServed'
  BY <1>1 DEF MediaInv, PacketOut, MediaQueued, OneStale, Asked, QueueServed, encoder, radio
<1>4. ResetDrops'
  BY <1>1 DEF MediaInv, ResetDrops, encoder
<1>5. Order' /\ Fresh'
  BY <1>1 DEF MediaInv, Order, Fresh, encoder
<1>6. Flight' = Flight
  BY <1>1 DEF Flight, UnitsOf, encoder
<1> QED BY <1>1, <1>2, <1>3, <1>4, <1>5, <1>6 DEF MediaInv

\* Encode at send time drops the oldest of the ring.
LEMMA DropKeeps ==
    ASSUME MediaInv, DropHeld
    PROVE  MediaInv' /\ Flight' \subseteq Flight /\ UNCHANGED <<captured, last>>
<1>1. /\ PathTypes /\ Sizes /\ PacketOut /\ MediaQueued /\ OneStale /\ ResetDrops /\ Asked /\ QueueServed
      /\ Order /\ Fresh
  BY DEF MediaInv
<1>2. /\ UNCHANGED <<captured, encoder, control, queue, wake, radio, epoch, mark, last>>
      /\ ring' = Tail(ring) /\ ring \in Seq(Units) /\ Len(ring) \in Nat /\ Len(ring) > 1
  BY <1>1 DEF DropHeld, PathTypes
<1>3. /\ ring' \in Seq(Units) /\ Len(ring') = Len(ring) - 1
      /\ \A i \in 1..Len(ring') : i + 1 \in 1..Len(ring) /\ ring'[i] = ring[i + 1]
  BY <1>2
<1>4. ToSet(ring') \subseteq ToSet(ring)
  <2>1. \A x : x \in ToSet(ring') <=> \E i \in 1..Len(ring') : x = ring'[i]
    BY <1>3, InSeq
  <2>2. \A x : x \in ToSet(ring) <=> \E i \in 1..Len(ring) : x = ring[i]
    BY <1>2, InSeq
  <2> QED BY <1>3, <2>1, <2>2
<1>5. Inc(ring')
  BY <1>1, <1>2, <1>3 DEF Order, Inc
<1>6. PathTypes' /\ Sizes'
  BY <1>1, <1>2, <1>3, SizeAssumption DEF PathTypes, Sizes, encoder, radio
<1>7. PacketOut' /\ MediaQueued' /\ OneStale' /\ Asked' /\ QueueServed'
  BY <1>1, <1>2 DEF PacketOut, MediaQueued, OneStale, Asked, QueueServed, encoder, radio
<1>8. ResetDrops'
  BY <1>1, <1>2, <1>4 DEF ResetDrops, encoder
<1>9. Suffix(queue', queue)
  BY <1>1, <1>2, SuffixSelf DEF PathTypes
<1>10. Order' /\ Fresh' /\ Flight' \subseteq Flight
  BY <1>1, <1>2, <1>4, <1>5, <1>6, <1>9, LossKeepsOrder DEF PathTypes, Order, encoder
<1> QED BY <1>2, <1>6, <1>7, <1>8, <1>10 DEF MediaInv

\* A round moves the oldest of the ring behind what is converted already.
LEMMA ReadKeeps ==
    ASSUME MediaInv, Read
    PROVE  MediaInv' /\ Flight' \subseteq Flight /\ UNCHANGED <<captured, last>>
<1>1. /\ PathTypes /\ Sizes /\ PacketOut /\ MediaQueued /\ OneStale /\ ResetDrops /\ Asked /\ QueueServed
      /\ Order /\ Fresh
  BY DEF MediaInv
<1> DEFINE n == IF Len(ring) < Round THEN Len(ring) ELSE Round
           a == SubSeq(ring, 1, n)
           b == SubSeq(ring, n + 1, Len(ring))
<1>2. /\ UNCHANGED <<captured, pack, out, kind, control, queue, wake, radio, epoch, mark, last>>
      /\ step = "top" /\ step' = "encode" /\ pcm' = pcm \o a /\ ring' = b
  BY DEF Read, Running
<1>3. /\ ring \in Seq(Units) /\ pcm \in Seq(Units) /\ n \in 0..Len(ring) /\ n <= Round /\ Round \in Nat
      /\ PerEncode \in Nat
  BY <1>1, SizeAssumption DEF PathTypes
<1> HIDE DEF n
<1>4. /\ a \in Seq(Units) /\ Len(a) = n /\ b \in Seq(Units) /\ Len(b) = Len(ring) - n
      /\ ToSet(a) \subseteq ToSet(ring) /\ ToSet(b) \subseteq ToSet(ring)
      /\ Inc(a) /\ Inc(b) /\ Before(ToSet(a), ToSet(b))
  BY <1>1, <1>3, Parted DEF Order
<1> HIDE DEF a, b
<1>5. pcm' \in Seq(Units) /\ Len(pcm') = Len(pcm) + n /\ ToSet(pcm') = ToSet(pcm) \cup ToSet(a)
  <2>1. /\ pcm \o a \in Seq(Units) /\ Len(pcm \o a) = Len(pcm) + Len(a)
        /\ ToSet(pcm \o a) = ToSet(pcm) \cup ToSet(a)
    BY SMTT(30), <1>3, <1>4, MediaJoined
  <2> QED BY <1>2, <1>4, <2>1
<1>6. Inc(pcm')
  <2>1. Before(ToSet(pcm), ToSet(a)) /\ Inc(pcm) /\ Inc(a)
    BY <1>1, <1>4 DEF Order, Before
  <2>2. /\ Len(pcm) \in Nat /\ Len(a) \in Nat /\ Len(pcm') = Len(pcm) + Len(a)
        /\ \A i \in 1..Len(pcm) : pcm'[i] = pcm[i] /\ pcm[i] \in ToSet(pcm)
        /\ \A i \in 1..Len(a) : a[i] \in ToSet(a)
        /\ \A i \in 1..Len(pcm') : ~(i \in 1..Len(pcm)) => i - Len(pcm) \in 1..Len(a) /\ pcm'[i] = a[i - Len(pcm)]
    <3>1. Len(pcm) \in Nat /\ Len(a) \in Nat /\ Len(pcm') = Len(pcm) + Len(a)
      BY <1>3, <1>4, <1>5
    <3>2. \A i \in 1..(Len(pcm) + Len(a)) : pcm'[i] = IF i <= Len(pcm) THEN pcm[i] ELSE a[i - Len(pcm)]
      BY <1>2, <1>3, <1>4, ConcatProperties
    <3>3. /\ \A i \in 1..Len(pcm) : pcm[i] \in ToSet(pcm)
          /\ \A i \in 1..Len(a) : a[i] \in ToSet(a)
      BY <1>3, <1>4, InSeq
    <3> QED BY <3>1, <3>2, <3>3
  <2>3. SUFFICES ASSUME NEW i \in 1..Len(pcm'), NEW j \in 1..Len(pcm'), i < j PROVE pcm'[i] < pcm'[j]
    BY DEF Inc
  <2>4. CASE j \in 1..Len(pcm)
    BY <2>1, <2>2, <2>3, <2>4 DEF Inc
  <2>5. CASE i \in 1..Len(pcm) /\ j \notin 1..Len(pcm)
    BY <2>1, <2>2, <2>5 DEF Before
  <2>6. CASE i \notin 1..Len(pcm) /\ j \notin 1..Len(pcm)
    BY <2>1, <2>2, <2>3, <2>6 DEF Inc
  <2> QED BY <2>2, <2>3, <2>4, <2>5, <2>6
<1>7. PathTypes' /\ Sizes'
  <2>1. Len(pcm') < PerEncode + Round /\ Len(ring') <= RingSize
    <3>1. Len(pcm) \in Nat /\ Len(ring) \in Nat /\ n \in Nat /\ Len(pcm) < PerEncode /\ Len(ring) <= RingSize
      BY <1>1, <1>2, <1>3 DEF Sizes
    <3> QED BY <1>2, <1>3, <1>4, <1>5, <3>1, Positive
  <2>2. Sizes'
    BY <1>1, <1>2, <2>1 DEF Sizes
  <2>3. PathTypes'
    BY <1>1, <1>2, <1>4, <1>5 DEF PathTypes, radio
  <2> QED BY <2>2, <2>3
<1>8. PacketOut' /\ MediaQueued' /\ OneStale' /\ Asked' /\ QueueServed'
  BY <1>1, <1>2 DEF PacketOut, MediaQueued, OneStale, Asked, QueueServed, Holding, Pushing, radio
<1>9. ResetDrops'
  BY <1>1, <1>2, <1>4, <1>5 DEF ResetDrops
<1>10. Order'
  BY <1>1, <1>2, <1>4, <1>5, <1>6 DEF Order, Before
<1>11. Fresh'
  BY <1>1, <1>2, <1>4, <1>5 DEF Fresh
<1>12. Flight' \subseteq Flight
  BY <1>2, <1>4, <1>5 DEF Flight, UnitsOf
<1> QED BY <1>2, <1>7, <1>8, <1>9, <1>10, <1>11, <1>12 DEF MediaInv

\* The lengths of what an encoder block is taken from.
LEMMA BlockTaken ==
    ASSUME PathTypes, Order, Len(pcm) >= PerEncode
    PROVE  /\ Block \in Seq(Units) /\ Len(Block) = PerEncode /\ Block # <<>>
           /\ Rest \in Seq(Units) /\ Len(Rest) = Len(pcm) - PerEncode
           /\ ToSet(Block) \subseteq ToSet(pcm) /\ ToSet(Rest) \subseteq ToSet(pcm)
           /\ Inc(Rest) /\ Before(ToSet(Block), ToSet(Rest))
<1>1. pcm \in Seq(Units) /\ Inc(pcm) /\ PerEncode \in 0..Len(pcm) /\ PerEncode > 0
  BY Positive DEF PathTypes, Order
<1>2. /\ Block \in Seq(Units) /\ Len(Block) = PerEncode
      /\ Rest \in Seq(Units) /\ Len(Rest) = Len(pcm) - PerEncode
      /\ ToSet(Block) \subseteq ToSet(pcm) /\ ToSet(Rest) \subseteq ToSet(pcm)
      /\ Inc(Rest) /\ Before(ToSet(Block), ToSet(Rest))
  BY <1>1, Parted DEF Block, Rest
<1> QED BY <1>1, <1>2

\* Packetizer::push of one output: in each of its cases the block goes behind
\* everything that was encoded before.
LEMMA EncodeKeeps ==
    ASSUME MediaInv, Encode
    PROVE  MediaInv' /\ Flight' \subseteq Flight /\ UNCHANGED <<captured, last>>
<1>1. /\ PathTypes /\ Sizes /\ PacketOut /\ MediaQueued /\ OneStale /\ ResetDrops /\ Asked /\ QueueServed
      /\ Order /\ Fresh
  BY DEF MediaInv
<1>2. /\ UNCHANGED <<captured, ring, kind, control, queue, wake, radio, epoch, mark, last>>
      /\ step = "encode" /\ Len(pcm) >= PerEncode /\ pcm' = Rest
  BY DEF Encode
<1>3. /\ Block \in Seq(Units) /\ Len(Block) = PerEncode /\ Block # <<>>
      /\ Rest \in Seq(Units) /\ Len(Rest) = Len(pcm) - PerEncode
      /\ ToSet(Block) \subseteq ToSet(pcm) /\ ToSet(Rest) \subseteq ToSet(pcm)
      /\ Inc(Rest) /\ Before(ToSet(Block), ToSet(Rest))
  BY <1>1, <1>2, BlockTaken
<1>4. out.units = <<>> /\ ToSet(out.units) = {} /\ out \in MediaPacket /\ pack \in Seq(Units)
  BY <1>1, <1>2, NothingIn DEF PacketOut, Holding, PathTypes
<1>5. /\ Len(pcm') < PerEncode + Round /\ Len(pack) \in Nat /\ PackMax * PerEncode \in Nat
      /\ PerEncode <= PackMax * PerEncode /\ gen \in Nat
  <2>1. Len(pcm) \in Nat /\ Len(pcm) < PerEncode + Round /\ Len(pack) \in Nat /\ gen \in Nat
    BY <1>1, SizeAssumption DEF PathTypes, Sizes
  <2>2. PackMax * PerEncode = (PackMax - 1) * PerEncode + PerEncode /\ (PackMax - 1) * PerEncode \in Nat
    BY Positive
  <2> QED BY <1>2, <1>3, <2>1, <2>2, Positive
\* What is to show of a step that hands out `units` and keeps `packet`
<1>6. ASSUME NEW units \in Seq(Units), NEW packet \in Seq(Units), NEW g \in 0..gen,
             out' = [units |-> units, gen |-> g], pack' = packet, step' \in {"encode", "send"},
             step' = "send" <=> units # <<>>,
             Len(packet) <= PackMax * PerEncode, kind = "single" => packet = <<>>,
             ToSet(packet) \subseteq ToSet(pack) \cup ToSet(Block),
             ToSet(units) \subseteq ToSet(pack) \cup ToSet(Block),
             Before(ToSet(units), ToSet(packet)),
             Before(ToSet(units), ToSet(Rest)), Before(ToSet(packet), ToSet(Rest))
      PROVE  MediaInv' /\ Flight' \subseteq Flight
  <2>1. out' \in MediaPacket /\ out'.units = units /\ out'.gen = g
    BY <1>5, <1>6 DEF MediaPacket
  <2>2. PathTypes'
    BY <1>1, <1>2, <1>3, <1>6, <2>1 DEF PathTypes, radio
  <2>3. Sizes'
    BY <1>1, <1>2, <1>5, <1>6 DEF Sizes
  <2>4. PacketOut'
    BY <1>1, <1>2, <1>5, <1>6, <2>1 DEF PacketOut, Holding, Pushing, radio
  <2>5. MediaQueued' /\ OneStale' /\ Asked' /\ QueueServed'
    BY <1>1, <1>2, <1>6 DEF MediaQueued, OneStale, Asked, QueueServed, Pushing, radio
  <2>6. ToSet(units) \cup ToSet(packet) \cup ToSet(Rest) \subseteq ToSet(pack) \cup ToSet(pcm)
    BY <1>3, <1>6
  <2>7. ResetDrops'
    BY <1>1, <1>2, <1>6, <2>1, <2>6 DEF ResetDrops
  <2>8. Order'
    <3>1. \A i \in 1..Len(queue) :
            Before(ToSet(queue[i].units), ToSet(units) \cup ToSet(packet) \cup ToSet(Rest) \cup ToSet(ring))
      BY <1>1, <2>6 DEF Order, Before
    <3>2. Before(ToSet(units) \cup ToSet(packet) \cup ToSet(Rest), ToSet(ring))
      BY <1>1, <2>6 DEF Order, Before
    <3> QED BY <1>1, <1>2, <1>3, <1>6, <2>1, <3>1, <3>2 DEF Order, Before
  <2>9. Fresh'
    BY <1>1, <1>2, <1>6, <2>1, <2>6 DEF Fresh
  <2>10. Flight' \subseteq Flight
    BY <1>2, <1>6, <2>1, <2>6 DEF Flight, UnitsOf
  <2> QED BY <2>2, <2>3, <2>4, <2>5, <2>7, <2>8, <2>9, <2>10 DEF MediaInv
<1>7. Before(ToSet(pack), ToSet(Block)) /\ Before(ToSet(pack), ToSet(Rest)) /\ ToSet(<<>>) = {}
  BY <1>1, <1>3, NothingIn DEF Order, Before
<1>8. CASE kind = "single" /\ Emit(Block) /\ step' = "send" /\ UNCHANGED pack
  <2>1. out' = [units |-> Block, gen |-> 0] /\ pack' = <<>> /\ pack = <<>>
    BY <1>1, <1>8 DEF Emit, PacketOut
  <2>2. <<>> \in Seq(Units) /\ Len(<<>>) = 0
    BY NothingIn
  <2>3. /\ 0 \in 0..gen /\ Len(<<>>) <= PackMax * PerEncode
        /\ Before(ToSet(Block), ToSet(<<>>)) /\ Before(ToSet(<<>>), ToSet(Rest))
    BY <1>5, <1>7, <2>2 DEF Before
  <2> QED BY <1>2, <1>3, <1>6, <1>7, <1>8, <2>1, <2>2, <2>3
<1>9. CASE kind # "single" /\ Full(pack) /\ Emit(pack) /\ pack' = Block /\ step' = "send"
  <2>1. out' = [units |-> pack, gen |-> 0] /\ pack # <<>>
    <3>1. Len(pack) # 0
      BY <1>5, <1>9, Positive DEF Full
    <3> QED BY <1>9, <3>1 DEF Emit
  <2> QED BY <1>2, <1>3, <1>4, <1>5, <1>6, <1>7, <1>9, <2>1
<1>10. CASE kind # "single" /\ ~Full(pack) /\ pack' = pack \o Block /\ UNCHANGED <<out, step>>
  <2>1. /\ pack' \in Seq(Units) /\ Len(pack') = Len(pack) + PerEncode
        /\ ToSet(pack') = ToSet(pack) \cup ToSet(Block)
    <3>1. /\ pack \o Block \in Seq(Units) /\ Len(pack \o Block) = Len(pack) + Len(Block)
          /\ ToSet(pack \o Block) = ToSet(pack) \cup ToSet(Block)
      BY <1>3, <1>4, MediaJoined
    <3> QED BY <1>3, <1>10, <3>1
  <2>2. out' = [units |-> <<>>, gen |-> out.gen] /\ out.gen \in 0..gen /\ <<>> \in Seq(Units)
    BY <1>1, <1>4, <1>5, <1>10 DEF MediaPacket, PacketOut
  <2>3. Len(pack') <= PackMax * PerEncode
    BY <1>5, <1>10, <2>1, Positive DEF Full
  <2>4. Before(ToSet(pack'), ToSet(Rest))
    BY <1>3, <1>7, <2>1 DEF Before
  <2> QED BY <1>2, <1>6, <1>7, <1>10, <2>1, <2>2, <2>3, <2>4 DEF Before
<1>11. CASE UNCHANGED <<pack, out, step>>
  <2>1. out' = [units |-> <<>>, gen |-> out.gen] /\ out.gen \in 0..gen /\ <<>> \in Seq(Units)
    BY <1>1, <1>4, <1>5, <1>11 DEF MediaPacket, PacketOut
  <2>2. Len(pack) <= PackMax * PerEncode /\ (kind = "single" => pack = <<>>)
    BY <1>1 DEF Sizes, PacketOut
  <2> QED BY <1>2, <1>4, <1>6, <1>7, <1>11, <2>1, <2>2 DEF Before
<1> QED BY <1>2, <1>8, <1>9, <1>10, <1>11 DEF Encode

\* Packetizer::end_round: what is collected leaves, or waits for more.
LEMMA EndRoundKeeps ==
    ASSUME MediaInv, EndRound
    PROVE  MediaInv' /\ Flight' \subseteq Flight /\ UNCHANGED <<captured, last>>
<1>1. /\ PathTypes /\ Sizes /\ PacketOut /\ MediaQueued /\ OneStale /\ ResetDrops /\ Asked /\ QueueServed
      /\ Order /\ Fresh
  BY DEF MediaInv
<1>2. /\ UNCHANGED <<captured, ring, pcm, kind, control, queue, wake, radio, epoch, mark, last>>
      /\ step = "encode" /\ Len(pcm) < PerEncode
  BY DEF EndRound
<1>3. CASE step' = "top" /\ UNCHANGED <<pack, out>>
  <2>1. PathTypes' /\ Sizes'
    BY <1>1, <1>2, <1>3 DEF PathTypes, Sizes, radio
  <2>2. PacketOut' /\ MediaQueued' /\ OneStale' /\ Asked' /\ QueueServed' /\ ResetDrops'
    BY <1>1, <1>2, <1>3 DEF PacketOut, MediaQueued, OneStale, Asked, QueueServed, ResetDrops, Holding, Pushing, radio
  <2>3. Order' /\ Fresh' /\ Flight' = Flight
    BY <1>1, <1>2, <1>3 DEF Order, Fresh, Flight, UnitsOf
  <2> QED BY <1>2, <2>1, <2>2, <2>3 DEF MediaInv
<1>4. CASE pack # <<>> /\ Emit(pack) /\ pack' = <<>> /\ step' = "last"
  <2>1. out' = [units |-> pack, gen |-> 0] /\ pack \in Seq(Units) /\ gen \in Nat
    BY <1>1, <1>4, SizeAssumption DEF Emit, PathTypes
  <2>2. /\ out' \in MediaPacket /\ out'.units = pack /\ out'.gen = 0
        /\ pack' \in Seq(Units) /\ Len(pack') = 0 /\ ToSet(pack') = {}
    BY <1>4, <2>1, NothingIn DEF MediaPacket
  <2>3. PathTypes'
    BY <1>1, <1>2, <1>4, <2>2 DEF PathTypes, radio
  <2>4. Sizes'
    <3>1. 0 <= PackMax * PerEncode
      BY Positive
    <3> QED BY <1>1, <1>2, <1>4, <2>2, <3>1 DEF Sizes
  <2>5. PacketOut' /\ MediaQueued' /\ OneStale' /\ Asked' /\ QueueServed'
    BY <1>1, <1>2, <1>4, <2>1, <2>2 DEF PacketOut, MediaQueued, OneStale, Asked, QueueServed, Holding, Pushing, radio
  <2>6. ResetDrops'
    BY <1>1, <1>2, <1>4, <2>2 DEF ResetDrops
  <2>7. Order'
    BY <1>1, <1>2, <2>2 DEF Order, Before
  <2>8. Fresh'
    BY <1>1, <1>2, <2>2 DEF Fresh
  <2>9. Flight' \subseteq Flight
    BY <1>2, <2>2 DEF Flight, UnitsOf
  <2> QED BY <1>2, <2>3, <2>4, <2>5, <2>6, <2>7, <2>8, <2>9 DEF MediaInv
<1> QED BY <1>3, <1>4 DEF EndRound

\* MediaSink::send reads the flag and notes the start it is about.
LEMMA CheckKeeps ==
    ASSUME MediaInv, Check
    PROVE  MediaInv' /\ Flight' \subseteq Flight /\ UNCHANGED <<captured, last>>
<1>1. /\ PathTypes /\ Sizes /\ PacketOut /\ MediaQueued /\ OneStale /\ ResetDrops /\ Asked /\ QueueServed
      /\ Order /\ Fresh
  BY DEF MediaInv
<1>2. /\ UNCHANGED <<captured, ring, pcm, pack, kind, control, queue, wake, radio, epoch, mark, last>>
      /\ step \in {"send", "last"} /\ gen \in Nat
  BY <1>1, SizeAssumption DEF Check, PathTypes
<1>3. /\ out' \in MediaPacket /\ ToSet(out'.units) \subseteq ToSet(out.units)
      /\ step' \in {"push", "pushLast", "encode", "top"}
      /\ step' \in Pushing => streaming /\ out'.units = out.units /\ out'.gen = gen
      /\ step' \notin Pushing => out'.units = <<>> /\ out'.gen = 0
      /\ step' \in {"pushLast", "top"} => step = "last"
  <2>1. CASE streaming
    <3>1. step' = (IF step = "send" THEN "push" ELSE "pushLast") /\ out' = [out EXCEPT !.gen = gen]
      BY <2>1 DEF Check
    <3>2. out' \in MediaPacket /\ out'.units = out.units /\ out'.gen = gen
      BY <1>1, <1>2, <3>1 DEF PathTypes, MediaPacket
    <3> QED BY <1>2, <2>1, <3>1, <3>2 DEF Pushing
  <2>2. CASE ~streaming
    <3>1. step' = After(step) /\ out' = NoPacket
      BY <2>2 DEF Check
    <3>2. out' \in MediaPacket /\ out'.units = <<>> /\ out'.gen = 0 /\ ToSet(out'.units) = {}
      BY <3>1, NothingIn DEF NoPacket, MediaPacket
    <3> QED BY <1>2, <3>1, <3>2 DEF Pushing, After
  <2> QED BY <2>1, <2>2
<1>4. PathTypes' /\ Sizes'
  BY <1>1, <1>2, <1>3 DEF PathTypes, Sizes, radio
<1>5. PacketOut'
  BY <1>1, <1>2, <1>3 DEF PacketOut, Holding, Pushing, radio
<1>6. MediaQueued' /\ OneStale' /\ Asked' /\ QueueServed'
  BY <1>1, <1>2, <1>3 DEF MediaQueued, OneStale, Asked, QueueServed, radio
<1>7. ResetDrops'
  BY <1>1, <1>2, <1>3 DEF ResetDrops
<1>8. Suffix(queue', queue)
  BY <1>1, <1>2, SuffixSelf DEF PathTypes
<1>9. Order' /\ Fresh' /\ Flight' \subseteq Flight
  BY <1>1, <1>2, <1>3, <1>4, <1>8, LossKeepsOrder DEF PathTypes, Order
<1> QED BY <1>2, <1>4, <1>5, <1>6, <1>7, <1>9 DEF MediaInv

\* A packet goes to the end of the queue, or is dropped.
LEMMA PushKeeps ==
    ASSUME MediaInv, Push
    PROVE  MediaInv' /\ Flight' \subseteq Flight /\ UNCHANGED <<captured, last>>
<1>1. /\ PathTypes /\ Sizes /\ PacketOut /\ MediaQueued /\ OneStale /\ ResetDrops /\ Asked /\ QueueServed
      /\ Order /\ Fresh
  BY DEF MediaInv
<1>2. /\ UNCHANGED <<captured, ring, pcm, pack, kind, control, wake, radio, epoch, mark, last>>
      /\ step \in Pushing /\ out' = NoPacket
  BY DEF Push, Pushing
<1>3. out' \in MediaPacket /\ out'.units = <<>> /\ out'.gen = 0 /\ ToSet(out'.units) = {}
  BY <1>2, NothingIn DEF NoPacket, MediaPacket
<1>4. CASE step' = After(step) /\ UNCHANGED queue
  <2>1. step' \in {"encode", "top"} /\ (step' = "top" => step = "pushLast")
    BY <1>2, <1>4 DEF After, Pushing
  <2>2. PathTypes' /\ Sizes'
    BY <1>1, <1>2, <1>3, <1>4, <2>1 DEF PathTypes, Sizes, radio
  <2>3. PacketOut' /\ MediaQueued' /\ OneStale' /\ Asked' /\ QueueServed'
    BY <1>1, <1>2, <1>3, <1>4, <2>1, SizeAssumption
       DEF PacketOut, MediaQueued, OneStale, Asked, QueueServed, Holding, Pushing, radio, PathTypes
  <2>4. ResetDrops'
    BY <1>1, <1>2, <1>3, <2>1 DEF ResetDrops, Pushing
  <2>5. Suffix(queue', queue)
    BY <1>1, <1>4, SuffixSelf DEF PathTypes
  <2>6. Order' /\ Fresh' /\ Flight' \subseteq Flight
    BY <1>1, <1>2, <1>3, <2>2, <2>5, LossKeepsOrder DEF PathTypes, Order
  <2> QED BY <1>2, <2>2, <2>3, <2>4, <2>6 DEF MediaInv
<1>5. CASE /\ Len(queue) < QueueSize /\ queue' = Append(queue, out)
           /\ step' = IF step = "push" THEN "wake" ELSE "wakeLast"
  <2> DEFINE k == Len(queue) + 1
  <2>1. step' \in {"wake", "wakeLast"} /\ (step' = "wakeLast" => step = "pushLast")
    BY <1>2, <1>5 DEF Pushing
  <2>2. /\ queue \in Seq(MediaPacket) /\ Len(queue) \in Nat /\ queue' \in Seq(MediaPacket) /\ Len(queue') = k
        /\ queue'[k] = out /\ k \in 1..Len(queue')
        /\ \A i \in 1..Len(queue) : i \in 1..Len(queue') /\ queue'[i] = queue[i] /\ i < k
        /\ \A i \in 1..Len(queue') : i \in 1..Len(queue) \/ i = k
    BY <1>1, <1>5 DEF PathTypes
  <2>3. PathTypes'
    BY <1>1, <1>2, <1>3, <2>1, <2>2 DEF PathTypes, radio
  <2>4. Sizes'
    BY <1>1, <1>2, <1>5, <2>1, <2>2, Positive DEF Sizes
  <2>5. gen \in Nat /\ out.gen \in Nat /\ out.gen \in 1..gen /\ out.units # <<>>
    BY <1>1, <1>2, SizeAssumption DEF PathTypes, PacketOut, MediaPacket, Holding, Pushing
  <2> HIDE DEF k
  <2>6. PacketOut' /\ Asked' /\ QueueServed'
    BY <1>1, <1>2, <1>3, <2>1, <2>5 DEF PacketOut, Asked, QueueServed, Holding, Pushing, radio
  <2>7. MediaQueued'
    BY <1>1, <1>2, <2>2, <2>5 DEF MediaQueued, radio
  <2>8. OneStale'
    <3>1. SUFFICES ASSUME streaming
                   PROVE  \A i, j \in 1..Len(queue') : queue'[i].gen < gen /\ queue'[j].gen < gen => i = j
      BY <1>2, <2>1 DEF OneStale, Pushing, radio
    <3>2. \A i, j \in 1..Len(queue) : queue[i].gen < gen /\ queue[j].gen < gen => i = j
      BY <1>1, <3>1 DEF OneStale
    <3>3. CASE out.gen < gen
      <4>1. \A i \in 1..Len(queue) : queue[i].gen = gen
        BY <1>1, <1>2, <3>1, <3>3 DEF OneStale
      <4> QED BY <2>2, <2>5, <4>1
    <3>4. CASE ~(out.gen < gen)
      BY <2>2, <3>2, <3>4
    <3> QED BY <3>3, <3>4
  <2>9. ResetDrops'
    BY <1>1, <1>2, <1>3, <2>1 DEF ResetDrops, Pushing
  <2>10. Order'
    <3>1. \A i \in 1..Len(queue') :
            Before(ToSet(queue'[i].units),
                   ToSet(out'.units) \cup ToSet(pack) \cup ToSet(pcm) \cup ToSet(ring))
      BY <1>1, <1>3, <2>2 DEF Order, Before
    <3>2. \A i, j \in 1..Len(queue') :
            i < j => Before(ToSet(queue'[i].units), ToSet(queue'[j].units))
      <4>1. SUFFICES ASSUME NEW i \in 1..Len(queue'), NEW j \in 1..Len(queue'), i < j
                     PROVE  Before(ToSet(queue'[i].units), ToSet(queue'[j].units))
        OBVIOUS
      <4>2. i \in 1..Len(queue)
        BY <2>2, <4>1 DEF k
      <4>3. CASE j \in 1..Len(queue)
        BY <1>1, <2>2, <4>1, <4>2, <4>3 DEF Order
      <4>4. CASE j = k
        BY <1>1, <2>2, <4>2, <4>4 DEF Order, Before
      <4> QED BY <2>2, <4>3, <4>4
    <3> QED BY <1>1, <1>2, <1>3, <3>1, <3>2 DEF Order, Before
  <2>11. Fresh'
    BY <1>1, <1>2, <1>3, <2>2 DEF Fresh
  <2>12. Flight' \subseteq Flight
    <3>1. \A u : u \in UnitsOf(queue') <=> \E i \in 1..Len(queue') : u \in ToSet(queue'[i].units)
      BY <2>2, UnitsAt
    <3>2. \A u : u \in UnitsOf(queue) <=> \E i \in 1..Len(queue) : u \in ToSet(queue[i].units)
      BY <2>2, UnitsAt
    <3>3. UnitsOf(queue') \subseteq UnitsOf(queue) \cup ToSet(out.units)
      BY <2>2, <3>1, <3>2
    <3> QED BY <1>2, <1>3, <3>3 DEF Flight
  <2> QED BY <1>2, <2>3, <2>4, <2>6, <2>7, <2>8, <2>9, <2>10, <2>11, <2>12 DEF MediaInv
<1> QED BY <1>4, <1>5 DEF Push

\* The wake of the BTstack thread is on its way.
LEMMA WakeKeeps ==
    ASSUME MediaInv, Wake
    PROVE  MediaInv' /\ Flight' = Flight /\ UNCHANGED <<captured, last>>
<1>1. /\ PathTypes /\ Sizes /\ PacketOut /\ MediaQueued /\ OneStale /\ ResetDrops /\ Asked /\ QueueServed
      /\ Order /\ Fresh
  BY DEF MediaInv
<1>2. /\ UNCHANGED <<captured, ring, pcm, pack, out, kind, control, queue, radio, epoch, mark, last>>
      /\ step \in {"wake", "wakeLast"} /\ wake' = TRUE /\ step' \in {"top", "encode"}
      /\ step' = "top" => step = "wakeLast"
  BY DEF Wake, After
<1>3. PathTypes' /\ Sizes'
  BY <1>1, <1>2 DEF PathTypes, Sizes, radio
<1>4. PacketOut' /\ MediaQueued' /\ OneStale' /\ Asked' /\ QueueServed' /\ ResetDrops'
  BY <1>1, <1>2 DEF PacketOut, MediaQueued, OneStale, Asked, QueueServed, ResetDrops, Holding, Pushing, radio
<1>5. Order' /\ Fresh' /\ Flight' = Flight
  BY <1>1, <1>2 DEF Order, Fresh, Flight, UnitsOf
<1> QED BY <1>2, <1>3, <1>4, <1>5 DEF MediaInv

(***************************************************************************)
(* The BTstack thread                                                      *)
(***************************************************************************)

\* media::drop_stale drops packets from the front only.
LEMMA KeptIs ==
    ASSUME PathTypes, NEW q \in Kept(queue)
    PROVE  q \in Seq(MediaPacket) /\ Suffix(q, queue)
<1>1. queue \in Seq(MediaPacket) /\ Len(queue) \in Nat
  BY DEF PathTypes
<1>2. CASE q = queue
  BY <1>1, <1>2, SuffixSelf
<1>3. CASE \E n \in 0..Len(queue) : q = SubSeq(queue, n + 1, Len(queue))
  <2>1. PICK n \in 0..Len(queue) : q = SubSeq(queue, n + 1, Len(queue))
    BY <1>3
  <2>2. /\ n + 1 \in Int /\ Len(queue) \in Int
        /\ \A i \in (n + 1)..Len(queue) : queue[i] \in MediaPacket
    BY <1>1
  <2>3. /\ SubSeq(queue, n + 1, Len(queue)) \in Seq(MediaPacket)
        /\ Len(SubSeq(queue, n + 1, Len(queue))) = IF n + 1 <= Len(queue) THEN Len(queue) - (n + 1) + 1 ELSE 0
        /\ \A i \in 1..(Len(queue) - (n + 1) + 1) : SubSeq(queue, n + 1, Len(queue))[i] = queue[(n + 1) + i - 1]
    BY <2>2, SubSeqProperties
  <2>4. q \in Seq(MediaPacket) /\ Len(q) = Len(queue) - n /\ \A i \in 1..Len(q) : q[i] = queue[n + i]
    BY <1>1, <2>1, <2>3
  <2> QED BY <2>4 DEF Suffix
<1>4. q = queue \/ \E n \in 0..Len(queue) : q = SubSeq(queue, n + 1, Len(queue))
  BY <1>1 DEF Kept
<1> QED BY <1>2, <1>3, <1>4

\* Without its first packet, what is left is still what comes last.
LEMMA TailSuffix ==
    ASSUME NEW r \in Seq(MediaPacket), NEW q \in Seq(MediaPacket), Suffix(q, r), q # <<>>
    PROVE  Tail(q) \in Seq(MediaPacket) /\ Suffix(Tail(q), r)
<1>1. PICK n \in 0..Len(r) : Len(q) = Len(r) - n /\ \A i \in 1..Len(q) : q[i] = r[n + i]
  BY DEF Suffix
<1>2. /\ Tail(q) \in Seq(MediaPacket) /\ Len(Tail(q)) = Len(q) - 1 /\ Len(q) \in Nat /\ Len(q) # 0
      /\ \A i \in 1..Len(Tail(q)) : Tail(q)[i] = q[i + 1]
  BY HeadTailProperties
<1>3. n + 1 \in 0..Len(r) /\ Len(Tail(q)) = Len(r) - (n + 1)
  BY <1>1, <1>2
<1>4. \A i \in 1..Len(Tail(q)) : i + 1 \in 1..Len(q) /\ Tail(q)[i] = q[i + 1] /\ n + (i + 1) = (n + 1) + i
  BY <1>2
<1>5. \A i \in 1..Len(Tail(q)) : Tail(q)[i] = r[(n + 1) + i]
  BY <1>1, <1>4
<1> QED BY <1>2, <1>3, <1>5 DEF Suffix

\* What the handlers of the stack have in common: they take packets from the
\* front of the queue, and empty it when a stopped stream starts.
LEMMA HandlerKeeps ==
    ASSUME MediaInv, UNCHANGED pipeline,
           queue' \in Seq(MediaPacket), Suffix(queue', queue),
           wake' \in BOOLEAN, streaming' \in BOOLEAN, requested' \in BOOLEAN, awaited' \in BOOLEAN,
           gen' \in gen..MaxRestarts, last' \in 0..captured,
           streaming' => (queue' = <<>> /\ gen' >= 1) \/ (streaming /\ gen' = gen),
           Asked', QueueServed', Fresh'
    PROVE  MediaInv' /\ Flight' \subseteq Flight
<1>1. /\ PathTypes /\ Sizes /\ PacketOut /\ MediaQueued /\ OneStale /\ ResetDrops /\ Order /\ Fresh
  BY DEF MediaInv
<1>2. /\ captured' = captured /\ ring' = ring /\ pcm' = pcm /\ pack' = pack /\ out' = out
      /\ kind' = kind /\ step' = step /\ control' = control /\ epoch' = epoch /\ mark' = mark
  BY DEF pipeline, encoder
<1>3. PICK n \in 0..Len(queue) : Len(queue') = Len(queue) - n /\ \A i \in 1..Len(queue') : queue'[i] = queue[n + i]
  BY DEF Suffix
<1>4. /\ Len(queue) \in Nat /\ n \in Nat /\ Len(queue') \in Nat /\ Len(queue') <= Len(queue)
      /\ gen \in Nat /\ gen' \in Nat /\ gen <= gen' /\ gen' \in 0..MaxRestarts
      /\ \A i \in 1..Len(queue') : n + i \in 1..Len(queue) /\ queue'[i] = queue[n + i]
  BY SMTT(30), <1>1, <1>3, SizeAssumption DEF PathTypes
<1>5. PathTypes'
  BY <1>1, <1>2, <1>4 DEF PathTypes
<1>6. Sizes'
  BY <1>1, <1>2, <1>4, Positive DEF Sizes
<1>7. PacketOut'
  <2>1. out.gen \in Nat
    BY <1>1 DEF PathTypes, MediaPacket
  <2> QED BY <1>1, <1>2, <1>4, <2>1 DEF PacketOut
<1>8. MediaQueued'
  BY <1>1, <1>4 DEF MediaQueued
<1>9. OneStale'
  <2>1. CASE queue' = <<>>
    BY <2>1 DEF OneStale
  <2>2. CASE streaming /\ gen' = gen
    <3>1. /\ \A i, j \in 1..Len(queue) : queue[i].gen < gen /\ queue[j].gen < gen => i = j
          /\ step \in Pushing /\ out.gen < gen => \A i \in 1..Len(queue) : queue[i].gen = gen
      BY <1>1, <2>2 DEF OneStale
    <3>2. ASSUME NEW i \in 1..Len(queue'), NEW j \in 1..Len(queue'),
                 queue'[i].gen < gen, queue'[j].gen < gen
          PROVE  i = j
      <4>1. n + i \in 1..Len(queue) /\ n + j \in 1..Len(queue) /\ n + i = n + j
        BY <1>4, <3>1, <3>2
      <4> QED BY <1>4, <4>1
    <3>3. step \in Pushing /\ out.gen < gen => \A i \in 1..Len(queue') : queue'[i].gen = gen
      BY <1>4, <3>1
    <3> QED BY <1>2, <2>2, <3>2, <3>3 DEF OneStale
  <2>3. CASE ~streaming'
    BY <2>3 DEF OneStale
  <2> QED BY <2>1, <2>2, <2>3
<1>10. ResetDrops'
  BY <1>1, <1>2 DEF ResetDrops
<1>11. Order' /\ Flight' \subseteq Flight
  BY <1>1, <1>2, LossKeepsOrder DEF Order
<1> QED BY <1>5, <1>6, <1>7, <1>8, <1>9, <1>10, <1>11 DEF MediaInv

\* Nothing is sent: what is left was not sent either.
LEMMA HandlerLoses ==
    ASSUME PathTypes, Order, Fresh, UNCHANGED <<pipeline, last>>,
           queue' \in Seq(MediaPacket), Suffix(queue', queue)
    PROVE  Fresh' /\ last' \in 0..captured
<1>1. /\ captured' = captured /\ ring' = ring /\ pcm' = pcm /\ pack' = pack /\ out' = out /\ last' = last
  BY DEF pipeline, encoder
<1>2. Fresh'
  BY <1>1, LossKeepsOrder DEF Order
<1> QED BY <1>1, <1>2 DEF PathTypes

\* The number of starts, and one more of them while there may be one.
LEMMA Starts ==
    ASSUME PathTypes
    PROVE  /\ gen \in Nat /\ gen \in gen..MaxRestarts
           /\ gen < MaxRestarts => gen + 1 \in gen..MaxRestarts
<1>1. MaxRestarts \in Nat
  BY SizeAssumption, Zenon
<1> QED BY <1>1 DEF PathTypes

\* on_wake: kick_media asks to send whatever the wake was for.
LEMMA SendOnWakeKeeps ==
    ASSUME MediaInv, SendOnWake
    PROVE  MediaInv' /\ Flight' \subseteq Flight /\ UNCHANGED <<captured, last>>
<1>1. PathTypes /\ PacketOut /\ Asked /\ QueueServed /\ Order /\ Fresh
  BY DEF MediaInv
<1>2. /\ wake' = FALSE /\ queue' \in Kept(queue) /\ Kick(streaming, requested, awaited)
      /\ UNCHANGED <<pipeline, last>> /\ streaming' = streaming /\ gen' = gen
  BY DEF SendOnWake
<1>3. queue' \in Seq(MediaPacket) /\ Suffix(queue', queue)
  BY <1>1, <1>2, KeptIs
<1>4. /\ requested' \in BOOLEAN /\ awaited' \in BOOLEAN /\ streaming' \in BOOLEAN
      /\ gen' \in gen..MaxRestarts
  <2>1. gen' \in gen..MaxRestarts
    BY <1>1, <1>2, Starts
  <2> QED BY <1>1, <1>2, <2>1 DEF PathTypes, Kick
<1>5. Asked' /\ QueueServed'
  BY <1>1, <1>2 DEF Asked, QueueServed, Kick
<1>6. Fresh' /\ last' \in 0..captured
  BY <1>1, <1>2, <1>3, HandlerLoses
<1>7. streaming' => streaming /\ gen' = gen
  BY <1>2
<1> QED BY <1>2, <1>3, <1>4, <1>5, <1>6, <1>7, HandlerKeeps DEF pipeline

\* can_send_now: a packet is sent or gone, and the next one is asked for.
LEMMA CanSendKeeps ==
    ASSUME MediaInv, CanSend
    PROVE  /\ MediaInv' /\ Flight' \subseteq Flight /\ UNCHANGED captured
           /\ \/ UNCHANGED last
              \/ \E u \in Flight : u > last /\ last' = u /\ \A w \in Flight' : w > u
<1>1. PathTypes /\ PacketOut /\ Asked /\ QueueServed /\ Order /\ Fresh /\ MediaQueued
  BY DEF MediaInv
<1>2. /\ wake' = wake /\ Kick(streaming, FALSE, FALSE)
      /\ UNCHANGED pipeline /\ streaming' = streaming /\ gen' = gen
  BY DEF CanSend
<1>3. /\ requested' \in BOOLEAN /\ awaited' \in BOOLEAN /\ streaming' \in BOOLEAN /\ wake' \in BOOLEAN
      /\ gen' \in gen..MaxRestarts /\ (streaming' => streaming /\ gen' = gen)
  <2>1. gen' \in gen..MaxRestarts
    BY <1>1, <1>2, Starts
  <2> QED BY <1>1, <1>2, <2>1 DEF PathTypes, Kick
<1>4. Asked' /\ QueueServed'
  BY <1>1, <1>2 DEF Asked, QueueServed, Kick
<1>5. PICK q \in Kept(queue) :
        \/ q = <<>> /\ queue' = q /\ UNCHANGED last
        \/ q # <<>> /\ queue' = Tail(q) /\ (last' = Last(Head(q).units) \/ UNCHANGED last)
  BY DEF CanSend
<1>6. queue \in Seq(MediaPacket) /\ q \in Seq(MediaPacket) /\ Suffix(q, queue)
  BY <1>1, KeptIs DEF PathTypes
<1>7. queue' \in Seq(MediaPacket) /\ Suffix(queue', queue)
  BY <1>5, <1>6, TailSuffix
<1>8. captured' = captured /\ ring' = ring /\ pcm' = pcm /\ pack' = pack /\ out' = out
  BY <1>2 DEF pipeline, encoder
<1>9. CASE UNCHANGED last
  <2>1. Fresh' /\ last' \in 0..captured
    BY <1>1, <1>2, <1>7, <1>9, HandlerLoses
  <2> QED BY <1>2, <1>3, <1>4, <1>7, <1>8, <1>9, <2>1, HandlerKeeps
<1>10. CASE q # <<>> /\ queue' = Tail(q) /\ last' = Last(Head(q).units)
  <2>1. PICK n \in 0..Len(queue) : Len(q) = Len(queue) - n /\ \A i \in 1..Len(q) : q[i] = queue[n + i]
    BY <1>6 DEF Suffix
  <2>2. /\ Len(queue) \in Nat /\ n \in Nat /\ Len(q) \in Nat /\ Len(q) # 0 /\ n + 1 \in 1..Len(queue)
        /\ Head(q) = queue[n + 1]
    BY <1>6, <1>10, <2>1
  <2>3. /\ Len(queue') = Len(q) - 1
        /\ \A i \in 1..Len(queue') : queue'[i] = q[i + 1] /\ i + 1 \in 1..Len(q)
    BY <1>6, <1>10, <2>2, HeadTailProperties
  <2>4. \A i \in 1..Len(queue') :
           /\ n + (i + 1) \in 1..Len(queue) /\ n + 1 < n + (i + 1)
           /\ queue'[i] = queue[n + (i + 1)]
    BY <2>1, <2>2, <2>3
  <2> DEFINE p == queue[n + 1].units
             u == Last(p)
  <2>5. p \in Seq(Units) /\ p # <<>>
    BY <1>1, <2>2, AllUnits DEF MediaQueued
  <2>6. u \in ToSet(p) /\ u \in Nat
    <3>1. Len(p) \in 1..Len(p) /\ u = p[Len(p)]
      BY <2>5 DEF Last
    <3>2. u \in ToSet(p) /\ ToSet(p) \subseteq Units
      BY <2>5, <3>1, InSeq
    <3> QED BY <1>1, <3>2, AllUnits
  <2>7. last' = u
    BY <1>10, <2>2
  <2> HIDE DEF u, p
  <2>8. u > last /\ u <= captured /\ last \in Nat /\ captured \in Nat
    <3>1. last < u /\ u <= captured
      BY <1>1, <2>2, <2>6 DEF Fresh, p
    <3>2. last \in Nat /\ captured \in Nat
      BY <1>1, SizeAssumption DEF PathTypes
    <3> QED BY <2>6, <3>1, <3>2
  <2>9. \A w \in ToSet(ring) \cup ToSet(pcm) \cup ToSet(pack) \cup ToSet(out.units) : u < w
    BY <1>1, <2>2, <2>6 DEF Order, Before, p
  <2>10. ASSUME NEW i \in 1..Len(queue') PROVE \A w \in ToSet(queue'[i].units) : u < w
    <3>1. n + (i + 1) \in 1..Len(queue) /\ n + 1 < n + (i + 1) /\ queue'[i] = queue[n + (i + 1)]
      BY <2>4
    <3>2. Before(ToSet(queue[n + 1].units), ToSet(queue[n + (i + 1)].units))
      BY <1>1, <2>2, <3>1 DEF Order
    <3> QED BY <2>6, <3>1, <3>2 DEF Before, p
  <2>11. Fresh'
    <3>1. \A w \in ToSet(ring) \cup ToSet(pcm) \cup ToSet(pack) \cup ToSet(out.units) : w <= captured
      BY <1>1 DEF Fresh
    <3>2. \A i \in 1..Len(queue') : \A w \in ToSet(queue'[i].units) : w <= captured
      BY <1>1, <2>4 DEF Fresh
    <3> QED BY <1>8, <2>7, <2>9, <2>10, <3>1, <3>2 DEF Fresh
  <2>12. last' \in 0..captured
    BY <2>6, <2>7, <2>8
  <2>13. MediaInv' /\ Flight' \subseteq Flight
    BY <1>2, <1>3, <1>4, <1>7, <2>11, <2>12, HandlerKeeps
  <2>14. u \in Flight
    <3>1. u \in UnitsOf(queue)
      BY <1>6, <2>2, <2>6, UnitsAt DEF p
    <3> QED BY <3>1 DEF Flight
  <2>15. \A w \in Flight' : u < w
    <3>1. \A w : w \in UnitsOf(queue') <=> \E i \in 1..Len(queue') : w \in ToSet(queue'[i].units)
      BY <1>7, UnitsAt
    <3> QED BY <1>8, <2>9, <2>10, <3>1 DEF Flight
  <2>16. \A w \in Flight' : w > u
    BY <2>15
  <2> QED BY <1>8, <2>7, <2>8, <2>13, <2>14, <2>16
<1> QED BY <1>5, <1>9, <1>10

\* STREAM_STARTED: a stream that was stopped starts with an empty queue.
LEMMA StartedKeeps ==
    ASSUME MediaInv, Started
    PROVE  MediaInv' /\ Flight' \subseteq Flight /\ UNCHANGED <<captured, last>>
<1>1. PathTypes /\ PacketOut /\ Asked /\ QueueServed /\ Order /\ Fresh
  BY DEF MediaInv
<1>2. /\ streaming' = TRUE /\ wake' = wake /\ UNCHANGED <<pipeline, last>>
      /\ queue' = (IF streaming THEN queue ELSE <<>>)
      /\ Kick(TRUE, FALSE, awaited) /\ NewStart
  BY DEF Started
<1>3. /\ streaming' => (queue' = <<>> /\ gen' >= 1) \/ (streaming /\ gen' = gen)
      /\ gen' \in gen..MaxRestarts
  <2>1. CASE streaming
    BY <1>1, <1>2, <2>1, Starts DEF NewStart
  <2>2. CASE ~streaming
    <3>1. gen' = gen + 1 /\ gen < MaxRestarts
      BY <1>2, <2>2 DEF NewStart
    <3>2. gen \in Nat /\ gen + 1 \in gen..MaxRestarts
      BY <1>1, <3>1, Starts
    <3>3. gen' >= 1 /\ gen' \in gen..MaxRestarts
      BY <3>1, <3>2
    <3> QED BY <1>2, <2>2, <3>3
  <2> QED BY <2>1, <2>2
<1>4. queue' \in Seq(MediaPacket) /\ Suffix(queue', queue)
  <2>1. CASE streaming
    BY <1>1, <1>2, <2>1, SuffixSelf DEF PathTypes
  <2>2. CASE ~streaming
    <3>1. queue' = <<>> /\ Len(queue) \in 0..Len(queue) /\ Len(queue) \in Nat
      BY <1>1, <1>2, <2>2 DEF PathTypes
    <3>2. queue' \in Seq(MediaPacket) /\ Len(queue') = Len(queue) - Len(queue) /\ 1..Len(queue') = {}
      BY <3>1
    <3> QED BY <3>1, <3>2 DEF Suffix
  <2> QED BY <2>1, <2>2
<1>5. requested' \in BOOLEAN /\ awaited' \in BOOLEAN /\ streaming' \in BOOLEAN /\ wake' \in BOOLEAN
  BY <1>1, <1>2 DEF PathTypes, Kick
<1>6. Asked' /\ QueueServed'
  BY <1>1, <1>2 DEF Asked, QueueServed, Kick
<1>7. Fresh' /\ last' \in 0..captured
  BY <1>1, <1>2, <1>4, HandlerLoses
<1> QED BY <1>2, <1>3, <1>4, <1>5, <1>6, <1>7, HandlerKeeps DEF pipeline

\* The stream stops, the connection is lost or a new one established: nothing
\* plays, so nothing that is queued waits for anyone.
LEMMA SilentKeeps ==
    ASSUME MediaInv, StreamStopped \/ Lost \/ Establish
    PROVE  MediaInv' /\ Flight' \subseteq Flight /\ UNCHANGED <<captured, last>>
<1>1. PathTypes /\ PacketOut /\ Asked /\ QueueServed /\ Order /\ Fresh
  BY DEF MediaInv
<1>2. /\ streaming' = FALSE /\ wake' = wake /\ UNCHANGED <<pipeline, last>> /\ gen' = gen
      /\ queue' = queue \/ queue' = <<>>
      /\ requested' \in BOOLEAN /\ awaited' \in BOOLEAN
  BY <1>1 DEF StreamStopped, Lost, Establish, PathTypes
<1>3. queue' \in Seq(MediaPacket) /\ Suffix(queue', queue)
  <2>1. CASE queue' = queue
    BY <1>1, <2>1, SuffixSelf DEF PathTypes
  <2>2. CASE queue' = <<>>
    <3>1. Len(queue) \in 0..Len(queue) /\ Len(queue) \in Nat
      BY <1>1 DEF PathTypes
    <3>2. queue' \in Seq(MediaPacket) /\ Len(queue') = Len(queue) - Len(queue) /\ 1..Len(queue') = {}
      BY <2>2, <3>1
    <3> QED BY <3>1, <3>2 DEF Suffix
  <2> QED BY <1>2, <2>1, <2>2
<1>4. Asked' /\ QueueServed'
  BY <1>2 DEF Asked, QueueServed
<1>5. Fresh' /\ last' \in 0..captured
  BY <1>1, <1>2, <1>3, HandlerLoses
<1>6. streaming' \in BOOLEAN /\ wake' \in BOOLEAN /\ gen' \in gen..MaxRestarts
  BY <1>1, <1>2, Starts DEF PathTypes
<1> QED BY <1>2, <1>3, <1>4, <1>5, <1>6, HandlerKeeps DEF pipeline

(***************************************************************************)
(* The theorems                                                            *)
(***************************************************************************)

\* Nothing is captured and nothing runs yet.
LEMMA MediaInitial == MediaInit => MediaInv /\ Flight = {}
<1>1. SUFFICES ASSUME MediaInit PROVE MediaInv /\ Flight = {}
  OBVIOUS
<1>2. /\ captured = 0 /\ ring = <<>> /\ pcm = <<>> /\ pack = <<>> /\ out = NoPacket /\ kind \in Kinds
      /\ step = "off" /\ control = [stop |-> FALSE, reset |-> FALSE] /\ queue = <<>> /\ wake = FALSE
      /\ streaming = FALSE /\ requested = FALSE /\ awaited = FALSE
      /\ gen = 0 /\ epoch = 0 /\ mark = 0 /\ last = 0
  BY <1>1 DEF MediaInit
<1>3. MaxUnit \in Nat /\ MaxRestarts \in Nat /\ MaxReset \in Nat
  BY SizeAssumption, Zenon
<1>4. /\ out \in MediaPacket /\ out.units = <<>> /\ out.gen = 0 /\ ToSet(out.units) = {}
      /\ ToSet(ring) = {} /\ ToSet(pcm) = {} /\ ToSet(pack) = {} /\ ToSet(queue) = {}
      /\ Inc(ring) /\ Inc(pcm) /\ queue \in Seq(MediaPacket) /\ Len(queue) = 0
  BY <1>2, NothingIn DEF NoPacket, MediaPacket
<1>5. PathTypes
  <2>1. /\ captured \in 0..MaxUnit /\ mark \in 0..captured /\ last \in 0..captured
        /\ gen \in 0..MaxRestarts /\ epoch \in 0..MaxReset
    BY <1>2, <1>3
  <2>2. ring \in Seq(Units) /\ pcm \in Seq(Units) /\ pack \in Seq(Units)
    BY <1>2, NothingIn
  <2>3. control \in [stop : BOOLEAN, reset : BOOLEAN]
    BY <1>2
  <2> QED BY <1>2, <1>4, <2>1, <2>2, <2>3 DEF PathTypes
<1>6. Sizes
  <2>1. 0 <= PackMax * PerEncode
    BY Positive
  <2> QED BY <1>2, <1>4, <2>1, Positive DEF Sizes
<1>7. PacketOut /\ MediaQueued /\ OneStale /\ ResetDrops /\ Asked /\ QueueServed
  BY <1>2, <1>4 DEF PacketOut, MediaQueued, OneStale, ResetDrops, Asked, QueueServed, Holding, Pushing
<1>8. Order /\ Fresh
  BY <1>4 DEF Order, Fresh, Before
<1>9. Flight = {}
  BY <1>4 DEF Flight, UnitsOf
<1> QED BY <1>5, <1>6, <1>7, <1>8, <1>9 DEF MediaInv

\* What a step of any thread does to the audio on its way.
Moves ==
    \/ captured' = captured + 1 /\ Flight' \in {Flight, Flight \cup {captured + 1}} /\ UNCHANGED last
    \/ Flight' \subseteq Flight /\ UNCHANGED <<captured, last>>
    \/ /\ \E u \in Flight : u > last /\ last' = u /\ Flight' \subseteq {w \in Flight : w > u}
       /\ UNCHANGED captured

\* Every step of every thread keeps the invariant and the order of the audio.
LEMMA MediaStep ==
    ASSUME MediaInv, [MediaNext]_mediaVars
    PROVE  MediaInv' /\ Moves
<1>1. CASE Capture
  <2>1. captured' = captured + 1 /\ UNCHANGED last
    BY <1>1 DEF Capture
  <2> QED BY <1>1, <2>1, CaptureKeeps DEF Moves
<1>2. CASE StartPipeline \/ Ended \/ TakeReset
  BY <1>2, PipelineKeeps DEF Moves
<1>3. CASE ResetPipeline \/ StopPipeline
  BY <1>3, FlagKeeps DEF Moves
<1>4. CASE DropHeld
  BY <1>4, DropKeeps DEF Moves
<1>5. CASE Read
  BY <1>5, ReadKeeps DEF Moves
<1>6. CASE Encode
  BY <1>6, EncodeKeeps DEF Moves
<1>7. CASE EndRound
  BY <1>7, EndRoundKeeps DEF Moves
<1>8. CASE Check
  BY <1>8, CheckKeeps DEF Moves
<1>9. CASE Push
  BY <1>9, PushKeeps DEF Moves
<1>10. CASE Wake
  BY <1>10, WakeKeeps DEF Moves
<1>11. CASE SendOnWake
  BY <1>11, SendOnWakeKeeps DEF Moves
<1>12. CASE CanSend
  BY <1>12, CanSendKeeps DEF Moves
<1>13. CASE Started
  BY <1>13, StartedKeeps DEF Moves
<1>14. CASE StreamStopped \/ Lost \/ Establish
  BY <1>14, SilentKeeps DEF Moves
<1>15. CASE UNCHANGED mediaVars
  <2>1. PathTypes' /\ Sizes' /\ PacketOut' /\ MediaQueued' /\ OneStale' /\ ResetDrops' /\ Asked' /\ QueueServed'
    BY <1>15 DEF MediaInv, mediaVars, encoder, radio, PathTypes, Sizes, PacketOut, MediaQueued, OneStale,
                 ResetDrops, Asked, QueueServed
  <2>2. Order' /\ Fresh' /\ Flight' = Flight
    BY <1>15 DEF MediaInv, mediaVars, encoder, Order, Fresh, Flight, UnitsOf
  <2> QED BY <1>15, <2>1, <2>2 DEF MediaInv, Moves, mediaVars
<1> QED
  BY <1>1, <1>2, <1>3, <1>4, <1>5, <1>6, <1>7, <1>8, <1>9, <1>10, <1>11, <1>12, <1>13, <1>14, <1>15
     DEF MediaNext, Encoding, Stack

\* The invariant says what the runs check.
LEMMA MediaInvSafe == MediaInv => MediaSafe
<1>1. SUFFICES ASSUME MediaInv PROVE MediaSafe
  OBVIOUS
<1>2. PathTypes /\ Sizes /\ PacketOut /\ MediaQueued /\ OneStale /\ ResetDrops /\ QueueServed
  BY <1>1 DEF MediaInv
<1>3. queue \in Seq(MediaPacket) /\ Len(queue) \in Nat
  BY <1>2 DEF PathTypes
<1>4. \A p \in ToSet(queue) : p.units \in Seq(Units) \ {<<>>} /\ p.gen \in 1..gen
  <2>1. \A p : p \in ToSet(queue) <=> \E i \in 1..Len(queue) : p = queue[i]
    BY <1>3, InSeq
  <2>2. \A i \in 1..Len(queue) : queue[i].units \in Seq(Units)
    BY <1>2, AllUnits
  <2> QED BY <1>2, <2>1, <2>2 DEF MediaQueued
<1>5. out.units \in Seq(Units) /\ out.gen \in 0..gen
  BY <1>2, SizeAssumption DEF PathTypes, PacketOut, MediaPacket
<1>6. MediaTypeOK
  BY <1>2, <1>4, <1>5 DEF MediaTypeOK, PathTypes, Sizes
<1>7. StaleAtMostOne
  <2> DEFINE S == {i \in DOMAIN queue : queue[i].gen < gen}
  <2>1. SUFFICES ASSUME streaming PROVE Cardinality(S) <= 1
    BY DEF StaleAtMostOne
  <2>2. \A i, j \in S : i = j
    BY <1>2, <1>3, <2>1 DEF OneStale
  <2>3. CASE S = {}
    BY <2>3, FS_EmptySet
  <2>4. CASE S # {}
    <3>1. PICK i : i \in S
      BY <2>4
    <3>2. S = {i}
      BY <2>2, <3>1
    <3> HIDE DEF S
    <3>3. Cardinality(S) = 1
      BY <3>2, FS_Singleton
    <3> QED BY <3>3
  <2> QED BY <2>3, <2>4
<1> QED BY <1>2, <1>6, <1>7 DEF MediaSafe

\* The audio path is safe for every size of its buffers: the stream starts
\* with at most one packet of an earlier start (media.rs set_streaming), a
\* reset loses all that was captured before it, and every queued packet has a
\* wake or a request to send ahead of it (kick_media).
THEOREM MediaSafeAlways == MediaSpec => []MediaSafe
<1>1. MediaInit => MediaInv
  BY MediaInitial
<1>2. MediaInv /\ [MediaNext]_mediaVars => MediaInv'
  BY MediaStep
<1> QED BY <1>1, <1>2, MediaInvSafe, PTL DEF MediaSpec

\* The three threads, the two rings, the resets and the restarts implement
\* the lossy FIFO: no audio is repeated or reordered on its way to the radio.
THEOREM ImplementsFifo == MediaSpec => FifoSpec
<1>1. MediaInit => MediaInv
  BY MediaInitial
<1>2. MediaInv /\ [MediaNext]_mediaVars => MediaInv'
  BY MediaStep
<1>3. MediaInit => Fifo!Init
  BY MediaInitial DEF Fifo!Init, MediaInit, Flight
<1>4. MediaInv /\ [MediaNext]_mediaVars => [Fifo!Next]_(Fifo!fifoVars)
  BY MediaStep DEF Moves, Fifo!Next, Fifo!Capture, Fifo!Lose, Fifo!Deliver, Flight
<1> QED BY <1>1, <1>2, <1>3, <1>4, PTL DEF MediaSpec, FifoSpec, Fifo!Spec
=============================================================================
