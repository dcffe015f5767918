------------------------ MODULE SessionControlProofs ------------------------
(***************************************************************************)
(* Proofs about SessionControl, for every number of callers, session       *)
(* threads and requests and without the bounds on tickets: at most one     *)
(* session thread is alive, Inner.running says whether one is, and         *)
(* Inner.stop is seen by exactly the session it is meant for.              *)
(***************************************************************************)
EXTENDS SessionControl, TLAPS

\* `control` is held from control_for to the end of the start or stop
LockInv == \A c \in Client : pc[c] \in Holding <=> control = c

\* A session's handle is in `worker` or taken out of it by the thread that
\* holds `control` and joins the session
HandleInv ==
    /\ \A c \in Client : pc[c] \in {"cancel", "join"} => worker = None /\ held[c] # None /\ stop
    /\ \A c \in Client : pc[c] \notin {"cancel", "join"} => held[c] = None
    /\ \A c \in Client : pc[c] \in {"launch", "release_link"} => worker = None
    /\ \A s \in Session : Live(s) => s = worker \/ \E c \in Client : held[c] = s

\* The flags say what the threads do
FlagInv ==
    /\ running <=> \E s \in Session : Live(s)
    /\ \A s \in Session : Live(s) /\ worker = s => ~stop

ControlInv == LockInv /\ HandleInv /\ FlagInv

\* A session that takes no change any more
Ended == {"dead", "take_end", "shut_end", "closing", "ending"}

\* A source change is the last request until the session takes it
PlayInv ==
    /\ lastReq # None => change \in {None, lastReq}
    /\ \A s \in Session :
          worker = s /\ pc[s] \notin Ended /\ lastReq # None =>
              playing[s] = lastReq \/ change = lastReq

\* A start or stop that has its ticket, and is neither carried out nor skipped
Asked(c) == Ticketed(c) /\ pc[c] \in Holding \cup {"control"}

\* Tickets are given once, in order; the latest one is served or under way, and
\* the call that holds `control` is served after all before it
TicketInv ==
    /\ served <= latest
    /\ \A c \in Client : Asked(c) => ticket[c] <= latest /\ ticket[c] # served
    /\ \A c, d \in Client : Asked(c) /\ Asked(d) /\ ticket[c] = ticket[d] => c = d
    /\ served = latest \/ \E c \in Client : Asked(c) /\ ticket[c] = latest
    /\ \A c \in Client : Ticketed(c) /\ pc[c] \in Holding => served # latest
    /\ \A c \in Client : pc[c] \in {"launch", "release_link"} => Ticketed(c)

\* A thread holds the slot's lock across steps while it starts a stack or runs
\* a tool, the slot is empty meanwhile, and the adapter has one user
SlotInv ==
    /\ \A t \in Thread : pc[t] \in {"settle", "opening", "tool"} <=> slotLock = t
    /\ slotLock # None => ~slot
    /\ slot => stack = "up"
    /\ \A t \in Thread : pc[t] = "opening" => stack = "opening"
    /\ \A t \in Thread : pc[t] = "tool" => stack = "tool"
    /\ \A t \in Thread : pc[t] \in {"shut", "shut_end"} => stack = "closing"
    /\ \A t, u \in Thread :
          pc[t] \in {"shut", "shut_end"} /\ pc[u] \in {"shut", "shut_end"} => t = u

\* There is a stack, or one that is about to be put into the slot
Present == slot \/ \E t \in Thread : pc[t] = "opening"

\* A call of reload_adapter that has not decided, or releases the stack
Reloading ==
    \E c \in Client : op[c] = "reload" /\ pc[c] \in {"reload_check", "reload_mark", "take"}

\* What a stack was started with is known also while it starts
KnownInv ==
    /\ \A c \in Client : pc[c] \in {"reload_check", "reload_mark"} => op[c] = "reload"
    /\ Present /\ preSleep => stale
    /\ Present /\ outdated => reload \/ Reloading

AdapterInv == SlotInv /\ KnownInv

-----------------------------------------------------------------------------
\* Every step keeps the types.
LEMMA TypeStep ==
    ASSUME TypeOK, [Next]_vars
    PROVE  TypeOK'
<1> USE ThreadsDisjoint, NoneIsNone DEF TypeOK, SessionFlagsOK, StackFlagsOK, PowerFlagsOK,
        ThreadsOK, ValuesOK, Thread, ClientPC, SessionPC, StreamState, Operation, client, shared, ui,
        stackVars, powerVars
<1>1. ASSUME NEW c \in Client, CallDisconnect(c) PROVE TypeOK'
  BY <1>1 DEF CallDisconnect, Go, Call, TakeTicket
<1>2. ASSUME NEW c \in Client, CallRestart(c) PROVE TypeOK'
  BY <1>2 DEF CallRestart, Go, Call, ReconnectAfterRestart
<1>3. ASSUME NEW c \in Client, StopScan(c) PROVE TypeOK'
  BY <1>3 DEF StopScan
<1>4. ASSUME NEW c \in Client, CallReload(c) PROVE TypeOK'
  <2>1. SessionFlagsOK'
    BY <1>4 DEF CallReload, Go, Call
  <2>2. StackFlagsOK'
    BY <1>4 DEF CallReload, Go, Call
  <2>3. PowerFlagsOK'
    BY <1>4 DEF CallReload, Go, Call
  <2>4. ThreadsOK'
    BY <1>4 DEF CallReload, Go, Call
  <2>5. ValuesOK'
    BY <1>4 DEF CallReload, Go, Call
  <2>6. QED
    BY <2>1, <2>2, <2>3, <2>4, <2>5
<1>5. ASSUME NEW c \in Client, ReloadCheck(c) PROVE TypeOK'
  <2>1. SessionFlagsOK'
    BY <1>5 DEF ReloadCheck, Go, Shown
  <2>2. StackFlagsOK'
    BY <1>5 DEF ReloadCheck, Go, Shown
  <2>3. PowerFlagsOK'
    BY <1>5 DEF ReloadCheck, Go, Shown
  <2>4. ThreadsOK'
    BY <1>5 DEF ReloadCheck, Go, Shown
  <2>5. ValuesOK'
    BY <1>5 DEF ReloadCheck, Go, Shown
  <2>6. QED
    BY <2>1, <2>2, <2>3, <2>4, <2>5
<1>6. ASSUME NEW c \in Client, ReloadMark(c) PROVE TypeOK'
  BY <1>6 DEF ReloadMark, Leave, Go, Return
<1>7. ASSUME NEW c \in Client, ControlFor(c) PROVE TypeOK'
  BY <1>7 DEF ControlFor, Leave, Skipped, Go, Return, Ticketed
<1>8. ASSUME NEW c \in Client, EndScan(c) PROVE TypeOK'
  BY <1>8 DEF EndScan, Go
<1>9. ASSUME NEW c \in Client, ScanWait(c) PROVE TypeOK'
  BY <1>9 DEF ScanWait, Go
<1>10. ASSUME NEW c \in Client, StopSession(c) PROVE TypeOK'
  <2>1. SessionFlagsOK'
    BY <1>10 DEF StopSession, Go, Notify, AfterStop, ControlAfterStop, Ticketed
  <2>2. StackFlagsOK'
    BY <1>10 DEF StopSession, Go, Notify, AfterStop, ControlAfterStop, Ticketed
  <2>3. PowerFlagsOK'
    BY <1>10 DEF StopSession, Go, Notify, AfterStop, ControlAfterStop, Ticketed
  <2>4. ThreadsOK'
    BY <1>10 DEF StopSession, Go, Notify, AfterStop, ControlAfterStop, Ticketed
  <2>5. ValuesOK'
    BY <1>10 DEF StopSession, Go, Notify, AfterStop, ControlAfterStop, Ticketed
  <2>6. QED
    BY <2>1, <2>2, <2>3, <2>4, <2>5
<1>11. ASSUME NEW c \in Client, CancelWaits(c) PROVE TypeOK'
  BY <1>11 DEF CancelWaits, Go
<1>12. ASSUME NEW c \in Client, Join(c) PROVE TypeOK'
  BY <1>12 DEF Join, Go, AfterStop, ControlAfterStop, Live, Ticketed
<1>13. ASSUME NEW c \in Client, ReleaseLink(c) PROVE TypeOK'
  BY <1>13 DEF ReleaseLink, Leave, Go, Return
<1>14. ASSUME NEW c \in Client, Reconnect(c) PROVE TypeOK'
  <2>1. SessionFlagsOK'
    BY <1>14 DEF Reconnect, Go, Leave, TakeTicket, Return
  <2>2. StackFlagsOK'
    BY <1>14 DEF Reconnect, Go, Leave, TakeTicket, Return
  <2>3. PowerFlagsOK'
    BY <1>14 DEF Reconnect, Go, Leave, TakeTicket, Return
  <2>4. ThreadsOK'
    BY <1>14 DEF Reconnect, Go, Leave, TakeTicket, Return
  <2>5. ValuesOK'
    BY <1>14 DEF Reconnect, Go, Leave, TakeTicket, Return
  <2>6. QED
    BY <2>1, <2>2, <2>3, <2>4, <2>5
<1>15. ASSUME NEW c \in Client, DriverDone(c) PROVE TypeOK'
  BY <1>15 DEF DriverDone, Leave, Go, Return
<1>16. ASSUME NEW c \in Client, Check(c) PROVE TypeOK'
  BY <1>16 DEF Check, Leave, Go, Return
<1>17. ASSUME NEW c \in Client, MarkScan(c) PROVE TypeOK'
  <2>1. SessionFlagsOK'
    BY <1>17 DEF MarkScan, Go, Notify
  <2>2. StackFlagsOK'
    BY <1>17 DEF MarkScan, Go, Notify
  <2>3. PowerFlagsOK'
    BY <1>17 DEF MarkScan, Go, Notify
  <2>4. ThreadsOK'
    BY <1>17 DEF MarkScan, Go, Notify
  <2>5. ValuesOK'
    BY <1>17 DEF MarkScan, Go, Notify
  <2>6. QED
    BY <2>1, <2>2, <2>3, <2>4, <2>5
<1>18. ASSUME NEW c \in Client, Inquire(c) PROVE TypeOK'
  <2>1. SessionFlagsOK'
    BY <1>18 DEF Inquire, Go, Notify
  <2>2. StackFlagsOK'
    BY <1>18 DEF Inquire, Go, Notify
  <2>3. PowerFlagsOK'
    BY <1>18 DEF Inquire, Go, Notify
  <2>4. ThreadsOK'
    BY <1>18 DEF Inquire, Go, Notify
  <2>5. ValuesOK'
    BY <1>18 DEF Inquire, Go, Notify
  <2>6. QED
    BY <2>1, <2>2, <2>3, <2>4, <2>5
<1>19. ASSUME NEW c \in Client, InquiryDone(c) PROVE TypeOK'
  <2>1. SessionFlagsOK'
    BY <1>19 DEF InquiryDone, Leave, Notify, Go, Return
  <2>2. StackFlagsOK'
    BY <1>19 DEF InquiryDone, Leave, Notify, Go, Return
  <2>3. PowerFlagsOK'
    BY <1>19 DEF InquiryDone, Leave, Notify, Go, Return
  <2>4. ThreadsOK'
    BY <1>19 DEF InquiryDone, Leave, Notify, Go, Return
  <2>5. ValuesOK'
    BY <1>19 DEF InquiryDone, Leave, Notify, Go, Return
  <2>6. QED
    BY <2>1, <2>2, <2>3, <2>4, <2>5
<1>20. ASSUME NEW c \in Client, Tool(c) PROVE TypeOK'
  <2>1. SessionFlagsOK'
    BY <1>20 DEF Tool, Leave, Go, Return
  <2>2. StackFlagsOK'
    BY <1>20 DEF Tool, Leave, Go, Return
  <2>3. PowerFlagsOK'
    BY <1>20 DEF Tool, Leave, Go, Return
  <2>4. ThreadsOK'
    BY <1>20 DEF Tool, Leave, Go, Return
  <2>5. ValuesOK'
    BY <1>20 DEF Tool, Leave, Go, Return
  <2>6. QED
    BY <2>1, <2>2, <2>3, <2>4, <2>5
<1>21. ASSUME NEW c \in Client, ToolDone(c) PROVE TypeOK'
  BY <1>21 DEF ToolDone, Leave, Go, Return
<1>22. ASSUME NEW c \in Client, NEW r \in Request, CallStart(c, r) PROVE TypeOK'
  BY <1>22 DEF CallStart, Go, Call, TakeTicket
<1>23. ASSUME NEW c \in Client, NEW r \in Request, ChangeSource(c, r) PROVE TypeOK'
  BY <1>23 DEF ChangeSource
<1>24. ASSUME NEW c \in Client, NEW w \in Operation, CallShutdown(c, w) PROVE TypeOK'
  BY <1>24 DEF CallShutdown, Go, Call
<1>25. ASSUME NEW c \in Client, NEW w \in Operation, CallTool(c, w) PROVE TypeOK'
  BY <1>25 DEF CallTool, Go, Call
<1>26. ASSUME NEW c \in Client, NEW s \in Session, Launch(c, s) PROVE TypeOK'
  <2>1. SessionFlagsOK'
    BY <1>26 DEF Launch, Return, Notify, Live
  <2>2. StackFlagsOK'
    BY <1>26 DEF Launch, Return, Notify, Live
  <2>3. PowerFlagsOK'
    BY <1>26 DEF Launch, Return, Notify, Live
  <2>4. ThreadsOK'
    BY <1>26 DEF Launch, Return, Notify, Live
  <2>5. ValuesOK'
    BY <1>26 DEF Launch, Return, Notify, Live
  <2>6. QED
    BY <2>1, <2>2, <2>3, <2>4, <2>5
<1>27. ASSUME NEW t \in Thread, TakeHost(t) PROVE TypeOK'
  <2>1. SessionFlagsOK'
    BY <1>27 DEF TakeHost, Leave, AfterShut, Go, Return
  <2>2. StackFlagsOK'
    BY <1>27 DEF TakeHost, Leave, AfterShut, Go, Return
  <2>3. PowerFlagsOK'
    BY <1>27 DEF TakeHost, Leave, AfterShut, Go, Return
  <2>4. ThreadsOK'
    BY <1>27 DEF TakeHost, Leave, AfterShut, Go, Return
  <2>5. ValuesOK'
    BY <1>27 DEF TakeHost, Leave, AfterShut, Go, Return
  <2>6. QED
    BY <2>1, <2>2, <2>3, <2>4, <2>5
<1>28. ASSUME NEW t \in Thread, ShutDown(t) PROVE TypeOK'
  BY <1>28 DEF ShutDown, Leave, AfterShut, Go, Return
<1>29. ASSUME NEW t \in Thread, KeepHost(t) PROVE TypeOK'
  BY <1>29 DEF KeepHost, Go, WithHost
<1>30. ASSUME NEW t \in Thread, RenewHost(t) PROVE TypeOK'
  <2>1. SessionFlagsOK'
    BY <1>30 DEF RenewHost, Go
  <2>2. StackFlagsOK'
    BY <1>30 DEF RenewHost, Go
  <2>3. PowerFlagsOK'
    BY <1>30 DEF RenewHost, Go
  <2>4. ThreadsOK'
    BY <1>30 DEF RenewHost, Go
  <2>5. ValuesOK'
    BY <1>30 DEF RenewHost, Go
  <2>6. QED
    BY <2>1, <2>2, <2>3, <2>4, <2>5
<1>31. ASSUME NEW t \in Thread, OpenStack(t) PROVE TypeOK'
  <2>1. CASE stack = "none"
    <3>1. SessionFlagsOK'
      BY <1>31, <2>1 DEF OpenStack, Go, Leave
    <3>2. StackFlagsOK'
      BY <1>31, <2>1 DEF OpenStack, Go, Leave
    <3>3. PowerFlagsOK'
      BY <1>31, <2>1 DEF OpenStack, Go, Leave
    <3>4. ThreadsOK'
      BY <1>31, <2>1 DEF OpenStack, Go, Leave
    <3>5. ValuesOK'
      BY <1>31, <2>1 DEF OpenStack, Go, Leave
    <3>6. QED
      BY <3>1, <3>2, <3>3, <3>4, <3>5
  <2>2. CASE stack # "none"
    <3>1. SessionFlagsOK'
      BY <1>31, <2>2 DEF OpenStack, Leave, GiveUpHost, Go, Return, Notify, WithoutHost
    <3>2. StackFlagsOK'
      BY <1>31, <2>2 DEF OpenStack, Leave, GiveUpHost, Go, Return, Notify, WithoutHost
    <3>3. PowerFlagsOK'
      BY <1>31, <2>2 DEF OpenStack, Leave, GiveUpHost, Go, Return, Notify, WithoutHost
    <3>4. ThreadsOK'
      BY <1>31, <2>2 DEF OpenStack, Leave, GiveUpHost, Go, Return, Notify, WithoutHost
    <3>5. ValuesOK'
      BY <1>31, <2>2 DEF OpenStack, Leave, GiveUpHost, Go, Return, Notify, WithoutHost
    <3>6. QED
      BY <3>1, <3>2, <3>3, <3>4, <3>5
  <2>3. QED
    BY <2>1, <2>2
<1>32. ASSUME NEW t \in Thread, StackUp(t) PROVE TypeOK'
  <2>1. SessionFlagsOK'
    BY <1>32 DEF StackUp, Go, WithHost
  <2>2. StackFlagsOK'
    BY <1>32 DEF StackUp, Go, WithHost
  <2>3. PowerFlagsOK'
    BY <1>32 DEF StackUp, Go, WithHost
  <2>4. ThreadsOK'
    BY <1>32 DEF StackUp, Go, WithHost
  <2>5. ValuesOK'
    BY <1>32 DEF StackUp, Go, WithHost
  <2>6. QED
    BY <2>1, <2>2, <2>3, <2>4, <2>5
<1>33. ASSUME NEW t \in Thread, StackFailed(t) PROVE TypeOK'
  <2>1. SessionFlagsOK'
    BY <1>33 DEF StackFailed, GiveUpHost, Leave, Notify, WithoutHost, Go, Return
  <2>2. StackFlagsOK'
    BY <1>33 DEF StackFailed, GiveUpHost, Leave, Notify, WithoutHost, Go, Return
  <2>3. PowerFlagsOK'
    BY <1>33 DEF StackFailed, GiveUpHost, Leave, Notify, WithoutHost, Go, Return
  <2>4. ThreadsOK'
    BY <1>33 DEF StackFailed, GiveUpHost, Leave, Notify, WithoutHost, Go, Return
  <2>5. ValuesOK'
    BY <1>33 DEF StackFailed, GiveUpHost, Leave, Notify, WithoutHost, Go, Return
  <2>6. QED
    BY <2>1, <2>2, <2>3, <2>4, <2>5
<1>34. ASSUME NEW s \in Session, GotHost(s) PROVE TypeOK'
  <2>1. SessionFlagsOK'
    BY <1>34 DEF GotHost, Go, Notify
  <2>2. StackFlagsOK'
    BY <1>34 DEF GotHost, Go, Notify
  <2>3. PowerFlagsOK'
    BY <1>34 DEF GotHost, Go, Notify
  <2>4. ThreadsOK'
    BY <1>34 DEF GotHost, Go, Notify
  <2>5. ValuesOK'
    BY <1>34 DEF GotHost, Go, Notify
  <2>6. QED
    BY <2>1, <2>2, <2>3, <2>4, <2>5
<1>35. ASSUME NEW s \in Session, Connect(s) PROVE TypeOK'
  BY <1>35 DEF Connect, Go
<1>36. ASSUME NEW s \in Session, ReconnectLink(s) PROVE TypeOK'
  BY <1>36 DEF ReconnectLink, Go
<1>37. ASSUME NEW s \in Session, NotConnected(s) PROVE TypeOK'
  BY <1>37 DEF NotConnected, Go
<1>38. ASSUME NEW s \in Session, RetryConnect(s) PROVE TypeOK'
  <2>1. SessionFlagsOK'
    BY <1>38 DEF RetryConnect, Go, Notify
  <2>2. StackFlagsOK'
    BY <1>38 DEF RetryConnect, Go, Notify
  <2>3. PowerFlagsOK'
    BY <1>38 DEF RetryConnect, Go, Notify
  <2>4. ThreadsOK'
    BY <1>38 DEF RetryConnect, Go, Notify
  <2>5. ValuesOK'
    BY <1>38 DEF RetryConnect, Go, Notify
  <2>6. QED
    BY <2>1, <2>2, <2>3, <2>4, <2>5
<1>39. ASSUME NEW s \in Session, RetryReconnect(s) PROVE TypeOK'
  <2>1. SessionFlagsOK'
    BY <1>39 DEF RetryReconnect, Go, Notify, GiveUp
  <2>2. StackFlagsOK'
    BY <1>39 DEF RetryReconnect, Go, Notify, GiveUp
  <2>3. PowerFlagsOK'
    BY <1>39 DEF RetryReconnect, Go, Notify, GiveUp
  <2>4. ThreadsOK'
    BY <1>39 DEF RetryReconnect, Go, Notify, GiveUp
  <2>5. ValuesOK'
    BY <1>39 DEF RetryReconnect, Go, Notify, GiveUp
  <2>6. QED
    BY <2>1, <2>2, <2>3, <2>4, <2>5
<1>40. ASSUME NEW s \in Session, RetryRestart(s) PROVE TypeOK'
  <2>1. SessionFlagsOK'
    BY <1>40 DEF RetryRestart, Go, Notify, GiveUp
  <2>2. StackFlagsOK'
    BY <1>40 DEF RetryRestart, Go, Notify, GiveUp
  <2>3. PowerFlagsOK'
    BY <1>40 DEF RetryRestart, Go, Notify, GiveUp
  <2>4. ThreadsOK'
    BY <1>40 DEF RetryRestart, Go, Notify, GiveUp
  <2>5. ValuesOK'
    BY <1>40 DEF RetryRestart, Go, Notify, GiveUp
  <2>6. QED
    BY <2>1, <2>2, <2>3, <2>4, <2>5
<1>41. ASSUME NEW s \in Session, TakeChange(s) PROVE TypeOK'
  <2>1. SessionFlagsOK'
    BY <1>41 DEF TakeChange, Notify, GiveUp, Go
  <2>2. StackFlagsOK'
    BY <1>41 DEF TakeChange, Notify, GiveUp, Go
  <2>3. PowerFlagsOK'
    BY <1>41 DEF TakeChange, Notify, GiveUp, Go
  <2>4. ThreadsOK'
    BY <1>41 DEF TakeChange, Notify, GiveUp, Go
  <2>5. ValuesOK'
    BY <1>41 DEF TakeChange, Notify, GiveUp, Go
  <2>6. QED
    BY <2>1, <2>2, <2>3, <2>4, <2>5
<1>42. ASSUME NEW s \in Session, StreamStopped(s) PROVE TypeOK'
  <2>1. SessionFlagsOK'
    BY <1>42 DEF StreamStopped, Go, Notify
  <2>2. StackFlagsOK'
    BY <1>42 DEF StreamStopped, Go, Notify
  <2>3. PowerFlagsOK'
    BY <1>42 DEF StreamStopped, Go, Notify
  <2>4. ThreadsOK'
    BY <1>42 DEF StreamStopped, Go, Notify
  <2>5. ValuesOK'
    BY <1>42 DEF StreamStopped, Go, Notify
  <2>6. QED
    BY <2>1, <2>2, <2>3, <2>4, <2>5
<1>43. ASSUME NEW s \in Session, WaitOver(s) PROVE TypeOK'
  <2>1. SessionFlagsOK'
    BY <1>43 DEF WaitOver, Go, Notify, GiveUp
  <2>2. StackFlagsOK'
    BY <1>43 DEF WaitOver, Go, Notify, GiveUp
  <2>3. PowerFlagsOK'
    BY <1>43 DEF WaitOver, Go, Notify, GiveUp
  <2>4. ThreadsOK'
    BY <1>43 DEF WaitOver, Go, Notify, GiveUp
  <2>5. ValuesOK'
    BY <1>43 DEF WaitOver, Go, Notify, GiveUp
  <2>6. QED
    BY <2>1, <2>2, <2>3, <2>4, <2>5
<1>44. ASSUME NEW s \in Session, CloseSession(s) PROVE TypeOK'
  BY <1>44 DEF CloseSession, Go
<1>45. ASSUME NEW s \in Session, EndSession(s) PROVE TypeOK'
  <2>1. SessionFlagsOK'
    BY <1>45 DEF EndSession, Go
  <2>2. StackFlagsOK'
    BY <1>45 DEF EndSession, Go
  <2>3. PowerFlagsOK'
    BY <1>45 DEF EndSession, Go
  <2>4. ThreadsOK'
    BY <1>45 DEF EndSession, Go
  <2>5. ValuesOK'
    BY <1>45 DEF EndSession, Go
  <2>6. QED
    BY <2>1, <2>2, <2>3, <2>4, <2>5
<1>46. ASSUME NEW s \in Session, Connected(s) PROVE TypeOK'
  <2>1. SessionFlagsOK'
    BY <1>46 DEF Connected, Go, Notify
  <2>2. StackFlagsOK'
    BY <1>46 DEF Connected, Go, Notify
  <2>3. PowerFlagsOK'
    BY <1>46 DEF Connected, Go, Notify
  <2>4. ThreadsOK'
    BY <1>46 DEF Connected, Go, Notify
  <2>5. ValuesOK'
    BY <1>46 DEF Connected, Go, Notify
  <2>6. QED
    BY <2>1, <2>2, <2>3, <2>4, <2>5
<1>47. ASSUME NEW s \in Session, LinkLost(s) PROVE TypeOK'
  <2>1. SessionFlagsOK'
    BY <1>47 DEF LinkLost, Go, Notify, GiveUp
  <2>2. StackFlagsOK'
    BY <1>47 DEF LinkLost, Go, Notify, GiveUp
  <2>3. PowerFlagsOK'
    BY <1>47 DEF LinkLost, Go, Notify, GiveUp
  <2>4. ThreadsOK'
    BY <1>47 DEF LinkLost, Go, Notify, GiveUp
  <2>5. ValuesOK'
    BY <1>47 DEF LinkLost, Go, Notify, GiveUp
  <2>6. QED
    BY <2>1, <2>2, <2>3, <2>4, <2>5
<1>48. ASSUME NEW s \in Session, TurnedOff(s) PROVE TypeOK'
  <2>1. SessionFlagsOK'
    BY <1>48 DEF TurnedOff, Go, Notify
  <2>2. StackFlagsOK'
    BY <1>48 DEF TurnedOff, Go, Notify
  <2>3. PowerFlagsOK'
    BY <1>48 DEF TurnedOff, Go, Notify
  <2>4. ThreadsOK'
    BY <1>48 DEF TurnedOff, Go, Notify
  <2>5. ValuesOK'
    BY <1>48 DEF TurnedOff, Go, Notify
  <2>6. QED
    BY <2>1, <2>2, <2>3, <2>4, <2>5
<1>49. ASSUME NEW s \in Session, Panic(s) PROVE TypeOK'
  <2>1. SessionFlagsOK'
    BY <1>49 DEF Panic, Go, Notify
  <2>2. StackFlagsOK'
    BY <1>49 DEF Panic, Go, Notify
  <2>3. PowerFlagsOK'
    BY <1>49 DEF Panic, Go, Notify
  <2>4. ThreadsOK'
    BY <1>49 DEF Panic, Go, Notify
  <2>5. ValuesOK'
    BY <1>49 DEF Panic, Go, Notify
  <2>6. QED
    BY <2>1, <2>2, <2>3, <2>4, <2>5
<1>50. ASSUME NEW s \in Session, NEW keep \in BOOLEAN, HostForStream(s, keep) PROVE TypeOK'
  <2>1. SessionFlagsOK'
    BY <1>50 DEF HostForStream, Go
  <2>2. StackFlagsOK'
    BY <1>50 DEF HostForStream, Go
  <2>3. PowerFlagsOK'
    BY <1>50 DEF HostForStream, Go
  <2>4. ThreadsOK'
    BY <1>50 DEF HostForStream, Go
  <2>5. ValuesOK'
    BY <1>50 DEF HostForStream, Go
  <2>6. QED
    BY <2>1, <2>2, <2>3, <2>4, <2>5
<1>51. CASE Resume
  BY <1>51 DEF Resume
<1>52. CASE UNCHANGED vars
  BY <1>52 DEF vars
<1> HIDE DEF TypeOK
<1>53. QED
  BY <1>1, <1>2, <1>3, <1>4, <1>5, <1>6, <1>7, <1>8, <1>9, <1>10, <1>11, <1>12, <1>13, <1>14, <1>15,
     <1>16, <1>17, <1>18, <1>19, <1>20, <1>21, <1>22, <1>23, <1>24, <1>25, <1>26, <1>27, <1>28, <1>29,
     <1>30, <1>31, <1>32, <1>33, <1>34, <1>35, <1>36, <1>37, <1>38, <1>39, <1>40, <1>41, <1>42, <1>43,
     <1>44, <1>45, <1>46, <1>47, <1>48, <1>49, <1>50, <1>51, <1>52
     DEF Next, CallStep, ClientStep, HostStep, SessionStep, SessionEvent

\* Every step keeps `control` with one thread.
LEMMA LockStep ==
    ASSUME TypeOK, LockInv, [Next]_vars
    PROVE  LockInv'
<1> USE ThreadsDisjoint, NoneIsNone DEF TypeOK, ThreadsOK, ValuesOK, LockInv, Holding, Thread,
        client, shared, ui, stackVars, powerVars
<1>1. ASSUME NEW c \in Client, CallDisconnect(c) PROVE LockInv'
  BY <1>1 DEF CallDisconnect, Go, Call, TakeTicket
<1>2. ASSUME NEW c \in Client, CallRestart(c) PROVE LockInv'
  BY <1>2 DEF CallRestart, Go, Call, ReconnectAfterRestart
<1>3. ASSUME NEW c \in Client, StopScan(c) PROVE LockInv'
  BY <1>3 DEF StopScan
<1>4. ASSUME NEW c \in Client, CallReload(c) PROVE LockInv'
  BY <1>4 DEF CallReload, Go, Call
<1>5. ASSUME NEW c \in Client, ReloadCheck(c) PROVE LockInv'
  BY <1>5 DEF ReloadCheck, Go, Shown
<1>6. ASSUME NEW c \in Client, ReloadMark(c) PROVE LockInv'
  BY <1>6 DEF ReloadMark, Leave, Go, Return
<1>7. ASSUME NEW c \in Client, ControlFor(c) PROVE LockInv'
  BY <1>7 DEF ControlFor, Leave, Skipped, Go, Return, Ticketed
<1>8. ASSUME NEW c \in Client, EndScan(c) PROVE LockInv'
  BY <1>8 DEF EndScan, Go
<1>9. ASSUME NEW c \in Client, ScanWait(c) PROVE LockInv'
  BY <1>9 DEF ScanWait, Go
<1>10. ASSUME NEW c \in Client, StopSession(c) PROVE LockInv'
  BY <1>10 DEF StopSession, Go, Notify, AfterStop, ControlAfterStop, Ticketed
<1>11. ASSUME NEW c \in Client, CancelWaits(c) PROVE LockInv'
  BY <1>11 DEF CancelWaits, Go
<1>12. ASSUME NEW c \in Client, Join(c) PROVE LockInv'
  BY <1>12 DEF Join, Go, AfterStop, ControlAfterStop, Live, Ticketed
<1>13. ASSUME NEW c \in Client, ReleaseLink(c) PROVE LockInv'
  BY <1>13 DEF ReleaseLink, Leave, Go, Return
<1>14. ASSUME NEW c \in Client, Reconnect(c) PROVE LockInv'
  BY <1>14 DEF Reconnect, Go, Leave, TakeTicket, Return
<1>15. ASSUME NEW c \in Client, DriverDone(c) PROVE LockInv'
  BY <1>15 DEF DriverDone, Leave, Go, Return
<1>16. ASSUME NEW c \in Client, Check(c) PROVE LockInv'
  BY <1>16 DEF Check, Leave, Go, Return
<1>17. ASSUME NEW c \in Client, MarkScan(c) PROVE LockInv'
  BY <1>17 DEF MarkScan, Go, Notify
<1>18. ASSUME NEW c \in Client, Inquire(c) PROVE LockInv'
  BY <1>18 DEF Inquire, Go, Notify
<1>19. ASSUME NEW c \in Client, InquiryDone(c) PROVE LockInv'
  BY <1>19 DEF InquiryDone, Leave, Notify, Go, Return
<1>20. ASSUME NEW c \in Client, Tool(c) PROVE LockInv'
  BY <1>20 DEF Tool, Leave, Go, Return
<1>21. ASSUME NEW c \in Client, ToolDone(c) PROVE LockInv'
  BY <1>21 DEF ToolDone, Leave, Go, Return
<1>22. ASSUME NEW c \in Client, NEW r \in Request, CallStart(c, r) PROVE LockInv'
  BY <1>22 DEF CallStart, Go, Call, TakeTicket
<1>23. ASSUME NEW c \in Client, NEW r \in Request, ChangeSource(c, r) PROVE LockInv'
  BY <1>23 DEF ChangeSource
<1>24. ASSUME NEW c \in Client, NEW w \in Operation, CallShutdown(c, w) PROVE LockInv'
  BY <1>24 DEF CallShutdown, Go, Call
<1>25. ASSUME NEW c \in Client, NEW w \in Operation, CallTool(c, w) PROVE LockInv'
  BY <1>25 DEF CallTool, Go, Call
<1>26. ASSUME NEW c \in Client, NEW s \in Session, Launch(c, s) PROVE LockInv'
  BY <1>26 DEF Launch, Return, Notify, Live
<1>27. ASSUME NEW t \in Thread, TakeHost(t) PROVE LockInv'
  BY <1>27 DEF TakeHost, Leave, AfterShut, Go, Return
<1>28. ASSUME NEW t \in Thread, ShutDown(t) PROVE LockInv'
  BY <1>28 DEF ShutDown, Leave, AfterShut, Go, Return
<1>29. ASSUME NEW t \in Thread, KeepHost(t) PROVE LockInv'
  BY <1>29 DEF KeepHost, Go, WithHost
<1>30. ASSUME NEW t \in Thread, RenewHost(t) PROVE LockInv'
  BY <1>30 DEF RenewHost, Go
<1>31. ASSUME NEW t \in Thread, OpenStack(t) PROVE LockInv'
  <2>1. CASE stack = "none"
    BY <1>31, <2>1 DEF OpenStack, Go, Leave
  <2>2. CASE stack # "none"
    BY <1>31, <2>2 DEF OpenStack, Leave, GiveUpHost, Go, Return, Notify, WithoutHost
  <2>3. QED
    BY <2>1, <2>2
<1>32. ASSUME NEW t \in Thread, StackUp(t) PROVE LockInv'
  BY <1>32 DEF StackUp, Go, WithHost
<1>33. ASSUME NEW t \in Thread, StackFailed(t) PROVE LockInv'
  BY <1>33 DEF StackFailed, GiveUpHost, Leave, Notify, WithoutHost, Go, Return
<1>34. ASSUME NEW s \in Session, GotHost(s) PROVE LockInv'
  BY <1>34 DEF GotHost, Go, Notify
<1>35. ASSUME NEW s \in Session, Connect(s) PROVE LockInv'
  BY <1>35 DEF Connect, Go
<1>36. ASSUME NEW s \in Session, ReconnectLink(s) PROVE LockInv'
  BY <1>36 DEF ReconnectLink, Go
<1>37. ASSUME NEW s \in Session, NotConnected(s) PROVE LockInv'
  BY <1>37 DEF NotConnected, Go
<1>38. ASSUME NEW s \in Session, RetryConnect(s) PROVE LockInv'
  BY <1>38 DEF RetryConnect, Go, Notify
<1>39. ASSUME NEW s \in Session, RetryReconnect(s) PROVE LockInv'
  BY <1>39 DEF RetryReconnect, Go, Notify, GiveUp
<1>40. ASSUME NEW s \in Session, RetryRestart(s) PROVE LockInv'
  BY <1>40 DEF RetryRestart, Go, Notify, GiveUp
<1>41. ASSUME NEW s \in Session, TakeChange(s) PROVE LockInv'
  BY <1>41 DEF TakeChange, Notify, GiveUp, Go
<1>42. ASSUME NEW s \in Session, StreamStopped(s) PROVE LockInv'
  BY <1>42 DEF StreamStopped, Go, Notify
<1>43. ASSUME NEW s \in Session, WaitOver(s) PROVE LockInv'
  BY <1>43 DEF WaitOver, Go, Notify, GiveUp
<1>44. ASSUME NEW s \in Session, CloseSession(s) PROVE LockInv'
  BY <1>44 DEF CloseSession, Go
<1>45. ASSUME NEW s \in Session, EndSession(s) PROVE LockInv'
  BY <1>45 DEF EndSession, Go
<1>46. ASSUME NEW s \in Session, Connected(s) PROVE LockInv'
  BY <1>46 DEF Connected, Go, Notify
<1>47. ASSUME NEW s \in Session, LinkLost(s) PROVE LockInv'
  BY <1>47 DEF LinkLost, Go, Notify, GiveUp
<1>48. ASSUME NEW s \in Session, TurnedOff(s) PROVE LockInv'
  BY <1>48 DEF TurnedOff, Go, Notify
<1>49. ASSUME NEW s \in Session, Panic(s) PROVE LockInv'
  BY <1>49 DEF Panic, Go, Notify
<1>50. ASSUME NEW s \in Session, NEW keep \in BOOLEAN, HostForStream(s, keep) PROVE LockInv'
  BY <1>50 DEF HostForStream, Go
<1>51. CASE Resume
  BY <1>51 DEF Resume
<1>52. CASE UNCHANGED vars
  BY <1>52 DEF vars
<1>53. QED
  BY <1>1, <1>2, <1>3, <1>4, <1>5, <1>6, <1>7, <1>8, <1>9, <1>10, <1>11, <1>12, <1>13, <1>14, <1>15,
     <1>16, <1>17, <1>18, <1>19, <1>20, <1>21, <1>22, <1>23, <1>24, <1>25, <1>26, <1>27, <1>28, <1>29,
     <1>30, <1>31, <1>32, <1>33, <1>34, <1>35, <1>36, <1>37, <1>38, <1>39, <1>40, <1>41, <1>42, <1>43,
     <1>44, <1>45, <1>46, <1>47, <1>48, <1>49, <1>50, <1>51, <1>52
     DEF Next, CallStep, ClientStep, HostStep, SessionStep, SessionEvent

\* Every step keeps the handle of a live session where a stop finds it.
LEMMA HandleStep ==
    ASSUME TypeOK, LockInv, HandleInv, [Next]_vars
    PROVE  HandleInv'
<1> USE ThreadsDisjoint, NoneIsNone DEF TypeOK, ThreadsOK, ValuesOK, LockInv, HandleInv, Holding,
        Thread, Live, client, shared, ui, stackVars, powerVars
<1>1. ASSUME NEW c \in Client, CallDisconnect(c) PROVE HandleInv'
  BY <1>1 DEF CallDisconnect, Go, Call, TakeTicket
<1>2. ASSUME NEW c \in Client, CallRestart(c) PROVE HandleInv'
  BY <1>2 DEF CallRestart, Go, Call, ReconnectAfterRestart
<1>3. ASSUME NEW c \in Client, StopScan(c) PROVE HandleInv'
  BY <1>3 DEF StopScan
<1>4. ASSUME NEW c \in Client, CallReload(c) PROVE HandleInv'
  BY <1>4 DEF CallReload, Go, Call
<1>5. ASSUME NEW c \in Client, ReloadCheck(c) PROVE HandleInv'
  BY <1>5 DEF ReloadCheck, Go, Shown
<1>6. ASSUME NEW c \in Client, ReloadMark(c) PROVE HandleInv'
  BY <1>6 DEF ReloadMark, Leave, Go, Return
<1>7. ASSUME NEW c \in Client, ControlFor(c) PROVE HandleInv'
  BY <1>7 DEF ControlFor, Leave, Skipped, Go, Return, Ticketed
<1>8. ASSUME NEW c \in Client, EndScan(c) PROVE HandleInv'
  BY <1>8 DEF EndScan, Go
<1>9. ASSUME NEW c \in Client, ScanWait(c) PROVE HandleInv'
  BY <1>9 DEF ScanWait, Go
<1>10. ASSUME NEW c \in Client, StopSession(c) PROVE HandleInv'
  BY <1>10 DEF StopSession, Go, Notify, AfterStop, ControlAfterStop, Ticketed
<1>11. ASSUME NEW c \in Client, CancelWaits(c) PROVE HandleInv'
  BY <1>11 DEF CancelWaits, Go
<1>12. ASSUME NEW c \in Client, Join(c) PROVE HandleInv'
  BY <1>12 DEF Join, Go, AfterStop, ControlAfterStop, Ticketed
<1>13. ASSUME NEW c \in Client, ReleaseLink(c) PROVE HandleInv'
  BY <1>13 DEF ReleaseLink, Leave, Go, Return
<1>14. ASSUME NEW c \in Client, Reconnect(c) PROVE HandleInv'
  BY <1>14 DEF Reconnect, Go, Leave, TakeTicket, Return
<1>15. ASSUME NEW c \in Client, DriverDone(c) PROVE HandleInv'
  BY <1>15 DEF DriverDone, Leave, Go, Return
<1>16. ASSUME NEW c \in Client, Check(c) PROVE HandleInv'
  BY <1>16 DEF Check, Leave, Go, Return
<1>17. ASSUME NEW c \in Client, MarkScan(c) PROVE HandleInv'
  BY <1>17 DEF MarkScan, Go, Notify
<1>18. ASSUME NEW c \in Client, Inquire(c) PROVE HandleInv'
  BY <1>18 DEF Inquire, Go, Notify
<1>19. ASSUME NEW c \in Client, InquiryDone(c) PROVE HandleInv'
  BY <1>19 DEF InquiryDone, Leave, Notify, Go, Return
<1>20. ASSUME NEW c \in Client, Tool(c) PROVE HandleInv'
  BY <1>20 DEF Tool, Leave, Go, Return
<1>21. ASSUME NEW c \in Client, ToolDone(c) PROVE HandleInv'
  BY <1>21 DEF ToolDone, Leave, Go, Return
<1>22. ASSUME NEW c \in Client, NEW r \in Request, CallStart(c, r) PROVE HandleInv'
  BY <1>22 DEF CallStart, Go, Call, TakeTicket
<1>23. ASSUME NEW c \in Client, NEW r \in Request, ChangeSource(c, r) PROVE HandleInv'
  BY <1>23 DEF ChangeSource
<1>24. ASSUME NEW c \in Client, NEW w \in Operation, CallShutdown(c, w) PROVE HandleInv'
  BY <1>24 DEF CallShutdown, Go, Call
<1>25. ASSUME NEW c \in Client, NEW w \in Operation, CallTool(c, w) PROVE HandleInv'
  BY <1>25 DEF CallTool, Go, Call
<1>26. ASSUME NEW c \in Client, NEW s \in Session, Launch(c, s) PROVE HandleInv'
  BY <1>26 DEF Launch, Return, Notify
<1>27. ASSUME NEW t \in Thread, TakeHost(t) PROVE HandleInv'
  BY <1>27 DEF TakeHost, Leave, AfterShut, Go, Return
<1>28. ASSUME NEW t \in Thread, ShutDown(t) PROVE HandleInv'
  BY <1>28 DEF ShutDown, Leave, AfterShut, Go, Return
<1>29. ASSUME NEW t \in Thread, KeepHost(t) PROVE HandleInv'
  BY <1>29 DEF KeepHost, Go, WithHost
<1>30. ASSUME NEW t \in Thread, RenewHost(t) PROVE HandleInv'
  BY <1>30 DEF RenewHost, Go
<1>31. ASSUME NEW t \in Thread, OpenStack(t) PROVE HandleInv'
  <2>1. CASE stack = "none"
    BY <1>31, <2>1 DEF OpenStack, Go, Leave
  <2>2. CASE stack # "none"
    BY <1>31, <2>2 DEF OpenStack, Leave, GiveUpHost, Go, Return, Notify, WithoutHost
  <2>3. QED
    BY <2>1, <2>2
<1>32. ASSUME NEW t \in Thread, StackUp(t) PROVE HandleInv'
  BY <1>32 DEF StackUp, Go, WithHost
<1>33. ASSUME NEW t \in Thread, StackFailed(t) PROVE HandleInv'
  BY <1>33 DEF StackFailed, GiveUpHost, Leave, Notify, WithoutHost, Go, Return
<1>34. ASSUME NEW s \in Session, GotHost(s) PROVE HandleInv'
  BY <1>34 DEF GotHost, Go, Notify
<1>35. ASSUME NEW s \in Session, Connect(s) PROVE HandleInv'
  BY <1>35 DEF Connect, Go
<1>36. ASSUME NEW s \in Session, ReconnectLink(s) PROVE HandleInv'
  BY <1>36 DEF ReconnectLink, Go
<1>37. ASSUME NEW s \in Session, NotConnected(s) PROVE HandleInv'
  BY <1>37 DEF NotConnected, Go
<1>38. ASSUME NEW s \in Session, RetryConnect(s) PROVE HandleInv'
  BY <1>38 DEF RetryConnect, Go, Notify
<1>39. ASSUME NEW s \in Session, RetryReconnect(s) PROVE HandleInv'
  BY <1>39 DEF RetryReconnect, Go, Notify, GiveUp
<1>40. ASSUME NEW s \in Session, RetryRestart(s) PROVE HandleInv'
  BY <1>40 DEF RetryRestart, Go, Notify, GiveUp
<1>41. ASSUME NEW s \in Session, TakeChange(s) PROVE HandleInv'
  BY <1>41 DEF TakeChange, Notify, GiveUp, Go
<1>42. ASSUME NEW s \in Session, StreamStopped(s) PROVE HandleInv'
  BY <1>42 DEF StreamStopped, Go, Notify
<1>43. ASSUME NEW s \in Session, WaitOver(s) PROVE HandleInv'
  BY <1>43 DEF WaitOver, Go, Notify, GiveUp
<1>44. ASSUME NEW s \in Session, CloseSession(s) PROVE HandleInv'
  BY <1>44 DEF CloseSession, Go
<1>45. ASSUME NEW s \in Session, EndSession(s) PROVE HandleInv'
  BY <1>45 DEF EndSession, Go
<1>46. ASSUME NEW s \in Session, Connected(s) PROVE HandleInv'
  BY <1>46 DEF Connected, Go, Notify
<1>47. ASSUME NEW s \in Session, LinkLost(s) PROVE HandleInv'
  BY <1>47 DEF LinkLost, Go, Notify, GiveUp
<1>48. ASSUME NEW s \in Session, TurnedOff(s) PROVE HandleInv'
  BY <1>48 DEF TurnedOff, Go, Notify
<1>49. ASSUME NEW s \in Session, Panic(s) PROVE HandleInv'
  BY <1>49 DEF Panic, Go, Notify
<1>50. ASSUME NEW s \in Session, NEW keep \in BOOLEAN, HostForStream(s, keep) PROVE HandleInv'
  BY <1>50 DEF HostForStream, Go
<1>51. CASE Resume
  BY <1>51 DEF Resume
<1>52. CASE UNCHANGED vars
  BY <1>52 DEF vars
<1>53. QED
  BY <1>1, <1>2, <1>3, <1>4, <1>5, <1>6, <1>7, <1>8, <1>9, <1>10, <1>11, <1>12, <1>13, <1>14, <1>15,
     <1>16, <1>17, <1>18, <1>19, <1>20, <1>21, <1>22, <1>23, <1>24, <1>25, <1>26, <1>27, <1>28, <1>29,
     <1>30, <1>31, <1>32, <1>33, <1>34, <1>35, <1>36, <1>37, <1>38, <1>39, <1>40, <1>41, <1>42, <1>43,
     <1>44, <1>45, <1>46, <1>47, <1>48, <1>49, <1>50, <1>51, <1>52
     DEF Next, CallStep, ClientStep, HostStep, SessionStep, SessionEvent

\* Every step keeps the flags true to the threads.
LEMMA FlagStep ==
    ASSUME TypeOK, LockInv, HandleInv, FlagInv, [Next]_vars
    PROVE  FlagInv'
<1> USE ThreadsDisjoint, NoneIsNone DEF TypeOK, ThreadsOK, ValuesOK, LockInv, HandleInv, FlagInv,
        Holding, Thread, Live, client, shared, ui, stackVars, powerVars
<1>1. ASSUME NEW c \in Client, CallDisconnect(c) PROVE FlagInv'
  BY <1>1 DEF CallDisconnect, Go, Call, TakeTicket
<1>2. ASSUME NEW c \in Client, CallRestart(c) PROVE FlagInv'
  BY <1>2 DEF CallRestart, Go, Call, ReconnectAfterRestart
<1>3. ASSUME NEW c \in Client, StopScan(c) PROVE FlagInv'
  BY <1>3 DEF StopScan
<1>4. ASSUME NEW c \in Client, CallReload(c) PROVE FlagInv'
  BY <1>4 DEF CallReload, Go, Call
<1>5. ASSUME NEW c \in Client, ReloadCheck(c) PROVE FlagInv'
  BY <1>5 DEF ReloadCheck, Go, Shown
<1>6. ASSUME NEW c \in Client, ReloadMark(c) PROVE FlagInv'
  BY <1>6 DEF ReloadMark, Leave, Go, Return
<1>7. ASSUME NEW c \in Client, ControlFor(c) PROVE FlagInv'
  BY <1>7 DEF ControlFor, Leave, Skipped, Go, Return, Ticketed
<1>8. ASSUME NEW c \in Client, EndScan(c) PROVE FlagInv'
  BY <1>8 DEF EndScan, Go
<1>9. ASSUME NEW c \in Client, ScanWait(c) PROVE FlagInv'
  BY <1>9 DEF ScanWait, Go
<1>10. ASSUME NEW c \in Client, StopSession(c) PROVE FlagInv'
  BY <1>10 DEF StopSession, Go, Notify, AfterStop, ControlAfterStop, Ticketed
<1>11. ASSUME NEW c \in Client, CancelWaits(c) PROVE FlagInv'
  BY <1>11 DEF CancelWaits, Go
<1>12. ASSUME NEW c \in Client, Join(c) PROVE FlagInv'
  BY <1>12 DEF Join, Go, AfterStop, ControlAfterStop, Ticketed
<1>13. ASSUME NEW c \in Client, ReleaseLink(c) PROVE FlagInv'
  BY <1>13 DEF ReleaseLink, Leave, Go, Return
<1>14. ASSUME NEW c \in Client, Reconnect(c) PROVE FlagInv'
  BY <1>14 DEF Reconnect, Go, Leave, TakeTicket, Return
<1>15. ASSUME NEW c \in Client, DriverDone(c) PROVE FlagInv'
  BY <1>15 DEF DriverDone, Leave, Go, Return
<1>16. ASSUME NEW c \in Client, Check(c) PROVE FlagInv'
  BY <1>16 DEF Check, Leave, Go, Return
<1>17. ASSUME NEW c \in Client, MarkScan(c) PROVE FlagInv'
  BY <1>17 DEF MarkScan, Go, Notify
<1>18. ASSUME NEW c \in Client, Inquire(c) PROVE FlagInv'
  BY <1>18 DEF Inquire, Go, Notify
<1>19. ASSUME NEW c \in Client, InquiryDone(c) PROVE FlagInv'
  BY <1>19 DEF InquiryDone, Leave, Notify, Go, Return
<1>20. ASSUME NEW c \in Client, Tool(c) PROVE FlagInv'
  BY <1>20 DEF Tool, Leave, Go, Return
<1>21. ASSUME NEW c \in Client, ToolDone(c) PROVE FlagInv'
  BY <1>21 DEF ToolDone, Leave, Go, Return
<1>22. ASSUME NEW c \in Client, NEW r \in Request, CallStart(c, r) PROVE FlagInv'
  BY <1>22 DEF CallStart, Go, Call, TakeTicket
<1>23. ASSUME NEW c \in Client, NEW r \in Request, ChangeSource(c, r) PROVE FlagInv'
  BY <1>23 DEF ChangeSource
<1>24. ASSUME NEW c \in Client, NEW w \in Operation, CallShutdown(c, w) PROVE FlagInv'
  BY <1>24 DEF CallShutdown, Go, Call
<1>25. ASSUME NEW c \in Client, NEW w \in Operation, CallTool(c, w) PROVE FlagInv'
  BY <1>25 DEF CallTool, Go, Call
<1>26. ASSUME NEW c \in Client, NEW s \in Session, Launch(c, s) PROVE FlagInv'
  BY <1>26 DEF Launch, Return, Notify
<1>27. ASSUME NEW t \in Thread, TakeHost(t) PROVE FlagInv'
  BY <1>27 DEF TakeHost, Leave, AfterShut, Go, Return
<1>28. ASSUME NEW t \in Thread, ShutDown(t) PROVE FlagInv'
  BY <1>28 DEF ShutDown, Leave, AfterShut, Go, Return
<1>29. ASSUME NEW t \in Thread, KeepHost(t) PROVE FlagInv'
  BY <1>29 DEF KeepHost, Go, WithHost
<1>30. ASSUME NEW t \in Thread, RenewHost(t) PROVE FlagInv'
  BY <1>30 DEF RenewHost, Go
<1>31. ASSUME NEW t \in Thread, OpenStack(t) PROVE FlagInv'
  <2>1. CASE stack = "none"
    BY <1>31, <2>1 DEF OpenStack, Go, Leave
  <2>2. CASE stack # "none"
    BY <1>31, <2>2 DEF OpenStack, Leave, GiveUpHost, Go, Return, Notify, WithoutHost
  <2>3. QED
    BY <2>1, <2>2
<1>32. ASSUME NEW t \in Thread, StackUp(t) PROVE FlagInv'
  BY <1>32 DEF StackUp, Go, WithHost
<1>33. ASSUME NEW t \in Thread, StackFailed(t) PROVE FlagInv'
  BY <1>33 DEF StackFailed, GiveUpHost, Leave, Notify, WithoutHost, Go, Return
<1>34. ASSUME NEW s \in Session, GotHost(s) PROVE FlagInv'
  BY <1>34 DEF GotHost, Go, Notify
<1>35. ASSUME NEW s \in Session, Connect(s) PROVE FlagInv'
  BY <1>35 DEF Connect, Go
<1>36. ASSUME NEW s \in Session, ReconnectLink(s) PROVE FlagInv'
  BY <1>36 DEF ReconnectLink, Go
<1>37. ASSUME NEW s \in Session, NotConnected(s) PROVE FlagInv'
  BY <1>37 DEF NotConnected, Go
<1>38. ASSUME NEW s \in Session, RetryConnect(s) PROVE FlagInv'
  BY <1>38 DEF RetryConnect, Go, Notify
<1>39. ASSUME NEW s \in Session, RetryReconnect(s) PROVE FlagInv'
  BY <1>39 DEF RetryReconnect, Go, Notify, GiveUp
<1>40. ASSUME NEW s \in Session, RetryRestart(s) PROVE FlagInv'
  BY <1>40 DEF RetryRestart, Go, Notify, GiveUp
<1>41. ASSUME NEW s \in Session, TakeChange(s) PROVE FlagInv'
  BY <1>41 DEF TakeChange, Notify, GiveUp, Go
<1>42. ASSUME NEW s \in Session, StreamStopped(s) PROVE FlagInv'
  BY <1>42 DEF StreamStopped, Go, Notify
<1>43. ASSUME NEW s \in Session, WaitOver(s) PROVE FlagInv'
  BY <1>43 DEF WaitOver, Go, Notify, GiveUp
<1>44. ASSUME NEW s \in Session, CloseSession(s) PROVE FlagInv'
  BY <1>44 DEF CloseSession, Go
<1>45. ASSUME NEW s \in Session, EndSession(s) PROVE FlagInv'
  BY <1>45 DEF EndSession, Go
<1>46. ASSUME NEW s \in Session, Connected(s) PROVE FlagInv'
  BY <1>46 DEF Connected, Go, Notify
<1>47. ASSUME NEW s \in Session, LinkLost(s) PROVE FlagInv'
  BY <1>47 DEF LinkLost, Go, Notify, GiveUp
<1>48. ASSUME NEW s \in Session, TurnedOff(s) PROVE FlagInv'
  BY <1>48 DEF TurnedOff, Go, Notify
<1>49. ASSUME NEW s \in Session, Panic(s) PROVE FlagInv'
  BY <1>49 DEF Panic, Go, Notify
<1>50. ASSUME NEW s \in Session, NEW keep \in BOOLEAN, HostForStream(s, keep) PROVE FlagInv'
  BY <1>50 DEF HostForStream, Go
<1>51. CASE Resume
  BY <1>51 DEF Resume
<1>52. CASE UNCHANGED vars
  BY <1>52 DEF vars
<1>53. QED
  BY <1>1, <1>2, <1>3, <1>4, <1>5, <1>6, <1>7, <1>8, <1>9, <1>10, <1>11, <1>12, <1>13, <1>14, <1>15,
     <1>16, <1>17, <1>18, <1>19, <1>20, <1>21, <1>22, <1>23, <1>24, <1>25, <1>26, <1>27, <1>28, <1>29,
     <1>30, <1>31, <1>32, <1>33, <1>34, <1>35, <1>36, <1>37, <1>38, <1>39, <1>40, <1>41, <1>42, <1>43,
     <1>44, <1>45, <1>46, <1>47, <1>48, <1>49, <1>50, <1>51, <1>52
     DEF Next, CallStep, ClientStep, HostStep, SessionStep, SessionEvent

\* Every step keeps the request of the session and the one a restart would use
\* the same.
LEMMA PlayStep ==
    ASSUME TypeOK, HandleInv, PlayInv, [Next]_vars
    PROVE  PlayInv'
<1> USE ThreadsDisjoint, NoneIsNone DEF TypeOK, ThreadsOK, ValuesOK, HandleInv, PlayInv, Ended,
        Thread, Live, client, shared, ui, stackVars, powerVars
<1>1. ASSUME NEW c \in Client, CallDisconnect(c) PROVE PlayInv'
  BY <1>1 DEF CallDisconnect, Go, Call, TakeTicket
<1>2. ASSUME NEW c \in Client, CallRestart(c) PROVE PlayInv'
  BY <1>2 DEF CallRestart, Go, Call, ReconnectAfterRestart
<1>3. ASSUME NEW c \in Client, StopScan(c) PROVE PlayInv'
  BY <1>3 DEF StopScan
<1>4. ASSUME NEW c \in Client, CallReload(c) PROVE PlayInv'
  BY <1>4 DEF CallReload, Go, Call
<1>5. ASSUME NEW c \in Client, ReloadCheck(c) PROVE PlayInv'
  BY <1>5 DEF ReloadCheck, Go, Shown
<1>6. ASSUME NEW c \in Client, ReloadMark(c) PROVE PlayInv'
  BY <1>6 DEF ReloadMark, Leave, Go, Return
<1>7. ASSUME NEW c \in Client, ControlFor(c) PROVE PlayInv'
  BY <1>7 DEF ControlFor, Leave, Skipped, Go, Return, Ticketed
<1>8. ASSUME NEW c \in Client, EndScan(c) PROVE PlayInv'
  BY <1>8 DEF EndScan, Go
<1>9. ASSUME NEW c \in Client, ScanWait(c) PROVE PlayInv'
  BY <1>9 DEF ScanWait, Go
<1>10. ASSUME NEW c \in Client, StopSession(c) PROVE PlayInv'
  BY <1>10 DEF StopSession, Go, Notify, AfterStop, ControlAfterStop, Ticketed
<1>11. ASSUME NEW c \in Client, CancelWaits(c) PROVE PlayInv'
  BY <1>11 DEF CancelWaits, Go
<1>12. ASSUME NEW c \in Client, Join(c) PROVE PlayInv'
  BY <1>12 DEF Join, Go, AfterStop, ControlAfterStop, Ticketed
<1>13. ASSUME NEW c \in Client, ReleaseLink(c) PROVE PlayInv'
  BY <1>13 DEF ReleaseLink, Leave, Go, Return
<1>14. ASSUME NEW c \in Client, Reconnect(c) PROVE PlayInv'
  BY <1>14 DEF Reconnect, Go, Leave, TakeTicket, Return
<1>15. ASSUME NEW c \in Client, DriverDone(c) PROVE PlayInv'
  BY <1>15 DEF DriverDone, Leave, Go, Return
<1>16. ASSUME NEW c \in Client, Check(c) PROVE PlayInv'
  BY <1>16 DEF Check, Leave, Go, Return
<1>17. ASSUME NEW c \in Client, MarkScan(c) PROVE PlayInv'
  BY <1>17 DEF MarkScan, Go, Notify
<1>18. ASSUME NEW c \in Client, Inquire(c) PROVE PlayInv'
  BY <1>18 DEF Inquire, Go, Notify
<1>19. ASSUME NEW c \in Client, InquiryDone(c) PROVE PlayInv'
  BY <1>19 DEF InquiryDone, Leave, Notify, Go, Return
<1>20. ASSUME NEW c \in Client, Tool(c) PROVE PlayInv'
  BY <1>20 DEF Tool, Leave, Go, Return
<1>21. ASSUME NEW c \in Client, ToolDone(c) PROVE PlayInv'
  BY <1>21 DEF ToolDone, Leave, Go, Return
<1>22. ASSUME NEW c \in Client, NEW r \in Request, CallStart(c, r) PROVE PlayInv'
  BY <1>22 DEF CallStart, Go, Call, TakeTicket
<1>23. ASSUME NEW c \in Client, NEW r \in Request, ChangeSource(c, r) PROVE PlayInv'
  BY <1>23 DEF ChangeSource
<1>24. ASSUME NEW c \in Client, NEW w \in Operation, CallShutdown(c, w) PROVE PlayInv'
  BY <1>24 DEF CallShutdown, Go, Call
<1>25. ASSUME NEW c \in Client, NEW w \in Operation, CallTool(c, w) PROVE PlayInv'
  BY <1>25 DEF CallTool, Go, Call
<1>26. ASSUME NEW c \in Client, NEW s \in Session, Launch(c, s) PROVE PlayInv'
  BY <1>26 DEF Launch, Return, Notify
<1>27. ASSUME NEW t \in Thread, TakeHost(t) PROVE PlayInv'
  BY <1>27 DEF TakeHost, Leave, AfterShut, Go, Return
<1>28. ASSUME NEW t \in Thread, ShutDown(t) PROVE PlayInv'
  BY <1>28 DEF ShutDown, Leave, AfterShut, Go, Return
<1>29. ASSUME NEW t \in Thread, KeepHost(t) PROVE PlayInv'
  BY <1>29 DEF KeepHost, Go, WithHost
<1>30. ASSUME NEW t \in Thread, RenewHost(t) PROVE PlayInv'
  BY <1>30 DEF RenewHost, Go
<1>31. ASSUME NEW t \in Thread, OpenStack(t) PROVE PlayInv'
  <2>1. CASE stack = "none"
    BY <1>31, <2>1 DEF OpenStack, Go, Leave
  <2>2. CASE stack # "none"
    BY <1>31, <2>2 DEF OpenStack, Leave, GiveUpHost, Go, Return, Notify, WithoutHost
  <2>3. QED
    BY <2>1, <2>2
<1>32. ASSUME NEW t \in Thread, StackUp(t) PROVE PlayInv'
  BY <1>32 DEF StackUp, Go, WithHost
<1>33. ASSUME NEW t \in Thread, StackFailed(t) PROVE PlayInv'
  BY <1>33 DEF StackFailed, GiveUpHost, Leave, Notify, WithoutHost, Go, Return
<1>34. ASSUME NEW s \in Session, GotHost(s) PROVE PlayInv'
  BY <1>34 DEF GotHost, Go, Notify
<1>35. ASSUME NEW s \in Session, Connect(s) PROVE PlayInv'
  BY <1>35 DEF Connect, Go
<1>36. ASSUME NEW s \in Session, ReconnectLink(s) PROVE PlayInv'
  BY <1>36 DEF ReconnectLink, Go
<1>37. ASSUME NEW s \in Session, NotConnected(s) PROVE PlayInv'
  BY <1>37 DEF NotConnected, Go
<1>38. ASSUME NEW s \in Session, RetryConnect(s) PROVE PlayInv'
  BY <1>38 DEF RetryConnect, Go, Notify
<1>39. ASSUME NEW s \in Session, RetryReconnect(s) PROVE PlayInv'
  BY <1>39 DEF RetryReconnect, Go, Notify, GiveUp
<1>40. ASSUME NEW s \in Session, RetryRestart(s) PROVE PlayInv'
  BY <1>40 DEF RetryRestart, Go, Notify, GiveUp
<1>41. ASSUME NEW s \in Session, TakeChange(s) PROVE PlayInv'
  BY <1>41 DEF TakeChange, Notify, GiveUp, Go
<1>42. ASSUME NEW s \in Session, StreamStopped(s) PROVE PlayInv'
  BY <1>42 DEF StreamStopped, Go, Notify
<1>43. ASSUME NEW s \in Session, WaitOver(s) PROVE PlayInv'
  BY <1>43 DEF WaitOver, Go, Notify, GiveUp
<1>44. ASSUME NEW s \in Session, CloseSession(s) PROVE PlayInv'
  BY <1>44 DEF CloseSession, Go
<1>45. ASSUME NEW s \in Session, EndSession(s) PROVE PlayInv'
  BY <1>45 DEF EndSession, Go
<1>46. ASSUME NEW s \in Session, Connected(s) PROVE PlayInv'
  BY <1>46 DEF Connected, Go, Notify
<1>47. ASSUME NEW s \in Session, LinkLost(s) PROVE PlayInv'
  BY <1>47 DEF LinkLost, Go, Notify, GiveUp
<1>48. ASSUME NEW s \in Session, TurnedOff(s) PROVE PlayInv'
  BY <1>48 DEF TurnedOff, Go, Notify
<1>49. ASSUME NEW s \in Session, Panic(s) PROVE PlayInv'
  BY <1>49 DEF Panic, Go, Notify
<1>50. ASSUME NEW s \in Session, NEW keep \in BOOLEAN, HostForStream(s, keep) PROVE PlayInv'
  BY <1>50 DEF HostForStream, Go
<1>51. CASE Resume
  BY <1>51 DEF Resume
<1>52. CASE UNCHANGED vars
  BY <1>52 DEF vars
<1>53. QED
  BY <1>1, <1>2, <1>3, <1>4, <1>5, <1>6, <1>7, <1>8, <1>9, <1>10, <1>11, <1>12, <1>13, <1>14, <1>15,
     <1>16, <1>17, <1>18, <1>19, <1>20, <1>21, <1>22, <1>23, <1>24, <1>25, <1>26, <1>27, <1>28, <1>29,
     <1>30, <1>31, <1>32, <1>33, <1>34, <1>35, <1>36, <1>37, <1>38, <1>39, <1>40, <1>41, <1>42, <1>43,
     <1>44, <1>45, <1>46, <1>47, <1>48, <1>49, <1>50, <1>51, <1>52
     DEF Next, CallStep, ClientStep, HostStep, SessionStep, SessionEvent

\* Every step keeps the latest call under way or served.
LEMMA TicketStep ==
    ASSUME TypeOK, LockInv, TicketInv, [Next]_vars
    PROVE  TicketInv'
<1> USE ThreadsDisjoint, NoneIsNone DEF TypeOK, ThreadsOK, ValuesOK, LockInv, TicketInv, Asked,
        Ticketed, Holding, Thread, client, shared, ui, stackVars, powerVars
<1>1. ASSUME NEW c \in Client, CallDisconnect(c) PROVE TicketInv'
  BY <1>1 DEF CallDisconnect, Go, Call, TakeTicket
<1>2. ASSUME NEW c \in Client, CallRestart(c) PROVE TicketInv'
  BY <1>2 DEF CallRestart, Go, Call, ReconnectAfterRestart
<1>3. ASSUME NEW c \in Client, StopScan(c) PROVE TicketInv'
  BY <1>3 DEF StopScan
<1>4. ASSUME NEW c \in Client, CallReload(c) PROVE TicketInv'
  BY <1>4 DEF CallReload, Go, Call
<1>5. ASSUME NEW c \in Client, ReloadCheck(c) PROVE TicketInv'
  BY <1>5 DEF ReloadCheck, Go, Shown
<1>6. ASSUME NEW c \in Client, ReloadMark(c) PROVE TicketInv'
  BY <1>6 DEF ReloadMark, Leave, Go, Return
<1>7. ASSUME NEW c \in Client, ControlFor(c) PROVE TicketInv'
  BY <1>7 DEF ControlFor, Leave, Skipped, Go, Return
<1>8. ASSUME NEW c \in Client, EndScan(c) PROVE TicketInv'
  BY <1>8 DEF EndScan, Go
<1>9. ASSUME NEW c \in Client, ScanWait(c) PROVE TicketInv'
  BY <1>9 DEF ScanWait, Go
<1>10. ASSUME NEW c \in Client, StopSession(c) PROVE TicketInv'
  BY <1>10 DEF StopSession, Go, Notify, AfterStop, ControlAfterStop
<1>11. ASSUME NEW c \in Client, CancelWaits(c) PROVE TicketInv'
  BY <1>11 DEF CancelWaits, Go
<1>12. ASSUME NEW c \in Client, Join(c) PROVE TicketInv'
  BY <1>12 DEF Join, Go, AfterStop, ControlAfterStop
<1>13. ASSUME NEW c \in Client, ReleaseLink(c) PROVE TicketInv'
  BY <1>13 DEF ReleaseLink, Leave, Go, Return
<1>14. ASSUME NEW c \in Client, Reconnect(c) PROVE TicketInv'
  BY <1>14 DEF Reconnect, Go, Leave, TakeTicket, Return
<1>15. ASSUME NEW c \in Client, DriverDone(c) PROVE TicketInv'
  BY <1>15 DEF DriverDone, Leave, Go, Return
<1>16. ASSUME NEW c \in Client, Check(c) PROVE TicketInv'
  BY <1>16 DEF Check, Leave, Go, Return
<1>17. ASSUME NEW c \in Client, MarkScan(c) PROVE TicketInv'
  BY <1>17 DEF MarkScan, Go, Notify
<1>18. ASSUME NEW c \in Client, Inquire(c) PROVE TicketInv'
  BY <1>18 DEF Inquire, Go, Notify
<1>19. ASSUME NEW c \in Client, InquiryDone(c) PROVE TicketInv'
  BY <1>19 DEF InquiryDone, Leave, Notify, Go, Return
<1>20. ASSUME NEW c \in Client, Tool(c) PROVE TicketInv'
  BY <1>20 DEF Tool, Leave, Go, Return
<1>21. ASSUME NEW c \in Client, ToolDone(c) PROVE TicketInv'
  BY <1>21 DEF ToolDone, Leave, Go, Return
<1>22. ASSUME NEW c \in Client, NEW r \in Request, CallStart(c, r) PROVE TicketInv'
  BY <1>22 DEF CallStart, Go, Call, TakeTicket
<1>23. ASSUME NEW c \in Client, NEW r \in Request, ChangeSource(c, r) PROVE TicketInv'
  BY <1>23 DEF ChangeSource
<1>24. ASSUME NEW c \in Client, NEW w \in Operation, CallShutdown(c, w) PROVE TicketInv'
  BY <1>24 DEF CallShutdown, Go, Call
<1>25. ASSUME NEW c \in Client, NEW w \in Operation, CallTool(c, w) PROVE TicketInv'
  BY <1>25 DEF CallTool, Go, Call
<1>26. ASSUME NEW c \in Client, NEW s \in Session, Launch(c, s) PROVE TicketInv'
  BY <1>26 DEF Launch, Return, Notify
<1>27. ASSUME NEW t \in Thread, TakeHost(t) PROVE TicketInv'
  BY <1>27 DEF TakeHost, Leave, AfterShut, Go, Return
<1>28. ASSUME NEW t \in Thread, ShutDown(t) PROVE TicketInv'
  BY <1>28 DEF ShutDown, Leave, AfterShut, Go, Return
<1>29. ASSUME NEW t \in Thread, KeepHost(t) PROVE TicketInv'
  BY <1>29 DEF KeepHost, Go, WithHost
<1>30. ASSUME NEW t \in Thread, RenewHost(t) PROVE TicketInv'
  BY <1>30 DEF RenewHost, Go
<1>31. ASSUME NEW t \in Thread, OpenStack(t) PROVE TicketInv'
  <2>1. CASE stack = "none"
    BY <1>31, <2>1 DEF OpenStack, Go, Leave
  <2>2. CASE stack # "none"
    BY <1>31, <2>2 DEF OpenStack, Leave, GiveUpHost, Go, Return, Notify, WithoutHost
  <2>3. QED
    BY <2>1, <2>2
<1>32. ASSUME NEW t \in Thread, StackUp(t) PROVE TicketInv'
  BY <1>32 DEF StackUp, Go, WithHost
<1>33. ASSUME NEW t \in Thread, StackFailed(t) PROVE TicketInv'
  BY <1>33 DEF StackFailed, GiveUpHost, Leave, Notify, WithoutHost, Go, Return
<1>34. ASSUME NEW s \in Session, GotHost(s) PROVE TicketInv'
  BY <1>34 DEF GotHost, Go, Notify
<1>35. ASSUME NEW s \in Session, Connect(s) PROVE TicketInv'
  BY <1>35 DEF Connect, Go
<1>36. ASSUME NEW s \in Session, ReconnectLink(s) PROVE TicketInv'
  BY <1>36 DEF ReconnectLink, Go
<1>37. ASSUME NEW s \in Session, NotConnected(s) PROVE TicketInv'
  BY <1>37 DEF NotConnected, Go
<1>38. ASSUME NEW s \in Session, RetryConnect(s) PROVE TicketInv'
  BY <1>38 DEF RetryConnect, Go, Notify
<1>39. ASSUME NEW s \in Session, RetryReconnect(s) PROVE TicketInv'
  BY <1>39 DEF RetryReconnect, Go, Notify, GiveUp
<1>40. ASSUME NEW s \in Session, RetryRestart(s) PROVE TicketInv'
  BY <1>40 DEF RetryRestart, Go, Notify, GiveUp
<1>41. ASSUME NEW s \in Session, TakeChange(s) PROVE TicketInv'
  BY <1>41 DEF TakeChange, Notify, GiveUp, Go
<1>42. ASSUME NEW s \in Session, StreamStopped(s) PROVE TicketInv'
  BY <1>42 DEF StreamStopped, Go, Notify
<1>43. ASSUME NEW s \in Session, WaitOver(s) PROVE TicketInv'
  BY <1>43 DEF WaitOver, Go, Notify, GiveUp
<1>44. ASSUME NEW s \in Session, CloseSession(s) PROVE TicketInv'
  BY <1>44 DEF CloseSession, Go
<1>45. ASSUME NEW s \in Session, EndSession(s) PROVE TicketInv'
  BY <1>45 DEF EndSession, Go
<1>46. ASSUME NEW s \in Session, Connected(s) PROVE TicketInv'
  BY <1>46 DEF Connected, Go, Notify
<1>47. ASSUME NEW s \in Session, LinkLost(s) PROVE TicketInv'
  BY <1>47 DEF LinkLost, Go, Notify, GiveUp
<1>48. ASSUME NEW s \in Session, TurnedOff(s) PROVE TicketInv'
  BY <1>48 DEF TurnedOff, Go, Notify
<1>49. ASSUME NEW s \in Session, Panic(s) PROVE TicketInv'
  BY <1>49 DEF Panic, Go, Notify
<1>50. ASSUME NEW s \in Session, NEW keep \in BOOLEAN, HostForStream(s, keep) PROVE TicketInv'
  BY <1>50 DEF HostForStream, Go
<1>51. CASE Resume
  BY <1>51 DEF Resume
<1>52. CASE UNCHANGED vars
  BY <1>52 DEF vars
<1> HIDE DEF TypeOK, LockInv, TicketInv
<1>53. QED
  BY <1>1, <1>2, <1>3, <1>4, <1>5, <1>6, <1>7, <1>8, <1>9, <1>10, <1>11, <1>12, <1>13, <1>14, <1>15,
     <1>16, <1>17, <1>18, <1>19, <1>20, <1>21, <1>22, <1>23, <1>24, <1>25, <1>26, <1>27, <1>28, <1>29,
     <1>30, <1>31, <1>32, <1>33, <1>34, <1>35, <1>36, <1>37, <1>38, <1>39, <1>40, <1>41, <1>42, <1>43,
     <1>44, <1>45, <1>46, <1>47, <1>48, <1>49, <1>50, <1>51, <1>52
     DEF Next, CallStep, ClientStep, HostStep, SessionStep, SessionEvent

\* Every step keeps the adapter with one user.
LEMMA SlotStep ==
    ASSUME TypeOK, SlotInv, [Next]_vars
    PROVE  SlotInv'
<1> USE ThreadsDisjoint, NoneIsNone DEF TypeOK, ThreadsOK, ValuesOK, SlotInv, Thread, ClientPC,
        SessionPC, client, shared, ui, stackVars, powerVars
<1>1. ASSUME NEW c \in Client, CallDisconnect(c) PROVE SlotInv'
  BY <1>1 DEF CallDisconnect, Go, Call, TakeTicket
<1>2. ASSUME NEW c \in Client, CallRestart(c) PROVE SlotInv'
  BY <1>2 DEF CallRestart, Go, Call, ReconnectAfterRestart
<1>3. ASSUME NEW c \in Client, StopScan(c) PROVE SlotInv'
  BY <1>3 DEF StopScan
<1>4. ASSUME NEW c \in Client, CallReload(c) PROVE SlotInv'
  BY <1>4 DEF CallReload, Go, Call
<1>5. ASSUME NEW c \in Client, ReloadCheck(c) PROVE SlotInv'
  BY <1>5 DEF ReloadCheck, Go, Shown
<1>6. ASSUME NEW c \in Client, ReloadMark(c) PROVE SlotInv'
  BY <1>6 DEF ReloadMark, Leave, Go, Return
<1>7. ASSUME NEW c \in Client, ControlFor(c) PROVE SlotInv'
  BY <1>7 DEF ControlFor, Leave, Skipped, Go, Return, Ticketed
<1>8. ASSUME NEW c \in Client, EndScan(c) PROVE SlotInv'
  BY <1>8 DEF EndScan, Go
<1>9. ASSUME NEW c \in Client, ScanWait(c) PROVE SlotInv'
  BY <1>9 DEF ScanWait, Go
<1>10. ASSUME NEW c \in Client, StopSession(c) PROVE SlotInv'
  BY <1>10 DEF StopSession, Go, Notify, AfterStop, ControlAfterStop, Ticketed
<1>11. ASSUME NEW c \in Client, CancelWaits(c) PROVE SlotInv'
  BY <1>11 DEF CancelWaits, Go
<1>12. ASSUME NEW c \in Client, Join(c) PROVE SlotInv'
  BY <1>12 DEF Join, Go, AfterStop, ControlAfterStop, Live, Ticketed
<1>13. ASSUME NEW c \in Client, ReleaseLink(c) PROVE SlotInv'
  BY <1>13 DEF ReleaseLink, Leave, Go, Return
<1>14. ASSUME NEW c \in Client, Reconnect(c) PROVE SlotInv'
  BY <1>14 DEF Reconnect, Go, Leave, TakeTicket, Return
<1>15. ASSUME NEW c \in Client, DriverDone(c) PROVE SlotInv'
  BY <1>15 DEF DriverDone, Leave, Go, Return
<1>16. ASSUME NEW c \in Client, Check(c) PROVE SlotInv'
  BY <1>16 DEF Check, Leave, Go, Return
<1>17. ASSUME NEW c \in Client, MarkScan(c) PROVE SlotInv'
  BY <1>17 DEF MarkScan, Go, Notify
<1>18. ASSUME NEW c \in Client, Inquire(c) PROVE SlotInv'
  BY <1>18 DEF Inquire, Go, Notify
<1>19. ASSUME NEW c \in Client, InquiryDone(c) PROVE SlotInv'
  BY <1>19 DEF InquiryDone, Leave, Notify, Go, Return
<1>20. ASSUME NEW c \in Client, Tool(c) PROVE SlotInv'
  BY <1>20 DEF Tool, Leave, Go, Return
<1>21. ASSUME NEW c \in Client, ToolDone(c) PROVE SlotInv'
  BY <1>21 DEF ToolDone, Leave, Go, Return
<1>22. ASSUME NEW c \in Client, NEW r \in Request, CallStart(c, r) PROVE SlotInv'
  BY <1>22 DEF CallStart, Go, Call, TakeTicket
<1>23. ASSUME NEW c \in Client, NEW r \in Request, ChangeSource(c, r) PROVE SlotInv'
  BY <1>23 DEF ChangeSource
<1>24. ASSUME NEW c \in Client, NEW w \in Operation, CallShutdown(c, w) PROVE SlotInv'
  BY <1>24 DEF CallShutdown, Go, Call
<1>25. ASSUME NEW c \in Client, NEW w \in Operation, CallTool(c, w) PROVE SlotInv'
  BY <1>25 DEF CallTool, Go, Call
<1>26. ASSUME NEW c \in Client, NEW s \in Session, Launch(c, s) PROVE SlotInv'
  BY <1>26 DEF Launch, Return, Notify, Live
<1>27. ASSUME NEW t \in Thread, TakeHost(t) PROVE SlotInv'
  BY <1>27 DEF TakeHost, Leave, AfterShut, Go, Return
<1>28. ASSUME NEW t \in Thread, ShutDown(t) PROVE SlotInv'
  BY <1>28 DEF ShutDown, Leave, AfterShut, Go, Return
<1>29. ASSUME NEW t \in Thread, KeepHost(t) PROVE SlotInv'
  BY <1>29 DEF KeepHost, Go, WithHost
<1>30. ASSUME NEW t \in Thread, RenewHost(t) PROVE SlotInv'
  BY <1>30 DEF RenewHost, Go
<1>31. ASSUME NEW t \in Thread, OpenStack(t) PROVE SlotInv'
  <2>1. CASE stack = "none"
    BY <1>31, <2>1 DEF OpenStack, Go, Leave
  <2>2. CASE stack # "none"
    BY <1>31, <2>2 DEF OpenStack, Leave, GiveUpHost, Go, Return, Notify, WithoutHost
  <2>3. QED
    BY <2>1, <2>2
<1>32. ASSUME NEW t \in Thread, StackUp(t) PROVE SlotInv'
  BY <1>32 DEF StackUp, Go, WithHost
<1>33. ASSUME NEW t \in Thread, StackFailed(t) PROVE SlotInv'
  BY <1>33 DEF StackFailed, GiveUpHost, Leave, Notify, WithoutHost, Go, Return
<1>34. ASSUME NEW s \in Session, GotHost(s) PROVE SlotInv'
  BY <1>34 DEF GotHost, Go, Notify
<1>35. ASSUME NEW s \in Session, Connect(s) PROVE SlotInv'
  BY <1>35 DEF Connect, Go
<1>36. ASSUME NEW s \in Session, ReconnectLink(s) PROVE SlotInv'
  BY <1>36 DEF ReconnectLink, Go
<1>37. ASSUME NEW s \in Session, NotConnected(s) PROVE SlotInv'
  BY <1>37 DEF NotConnected, Go
<1>38. ASSUME NEW s \in Session, RetryConnect(s) PROVE SlotInv'
  BY <1>38 DEF RetryConnect, Go, Notify
<1>39. ASSUME NEW s \in Session, RetryReconnect(s) PROVE SlotInv'
  BY <1>39 DEF RetryReconnect, Go, Notify, GiveUp
<1>40. ASSUME NEW s \in Session, RetryRestart(s) PROVE SlotInv'
  BY <1>40 DEF RetryRestart, Go, Notify, GiveUp
<1>41. ASSUME NEW s \in Session, TakeChange(s) PROVE SlotInv'
  BY <1>41 DEF TakeChange, Notify, GiveUp, Go
<1>42. ASSUME NEW s \in Session, StreamStopped(s) PROVE SlotInv'
  BY <1>42 DEF StreamStopped, Go, Notify
<1>43. ASSUME NEW s \in Session, WaitOver(s) PROVE SlotInv'
  BY <1>43 DEF WaitOver, Go, Notify, GiveUp
<1>44. ASSUME NEW s \in Session, CloseSession(s) PROVE SlotInv'
  BY <1>44 DEF CloseSession, Go
<1>45. ASSUME NEW s \in Session, EndSession(s) PROVE SlotInv'
  BY <1>45 DEF EndSession, Go
<1>46. ASSUME NEW s \in Session, Connected(s) PROVE SlotInv'
  BY <1>46 DEF Connected, Go, Notify
<1>47. ASSUME NEW s \in Session, LinkLost(s) PROVE SlotInv'
  BY <1>47 DEF LinkLost, Go, Notify, GiveUp
<1>48. ASSUME NEW s \in Session, TurnedOff(s) PROVE SlotInv'
  BY <1>48 DEF TurnedOff, Go, Notify
<1>49. ASSUME NEW s \in Session, Panic(s) PROVE SlotInv'
  BY <1>49 DEF Panic, Go, Notify
<1>50. ASSUME NEW s \in Session, NEW keep \in BOOLEAN, HostForStream(s, keep) PROVE SlotInv'
  BY <1>50 DEF HostForStream, Go
<1>51. CASE Resume
  BY <1>51 DEF Resume
<1>52. CASE UNCHANGED vars
  BY <1>52 DEF vars
<1>53. QED
  BY <1>1, <1>2, <1>3, <1>4, <1>5, <1>6, <1>7, <1>8, <1>9, <1>10, <1>11, <1>12, <1>13, <1>14, <1>15,
     <1>16, <1>17, <1>18, <1>19, <1>20, <1>21, <1>22, <1>23, <1>24, <1>25, <1>26, <1>27, <1>28, <1>29,
     <1>30, <1>31, <1>32, <1>33, <1>34, <1>35, <1>36, <1>37, <1>38, <1>39, <1>40, <1>41, <1>42, <1>43,
     <1>44, <1>45, <1>46, <1>47, <1>48, <1>49, <1>50, <1>51, <1>52
     DEF Next, CallStep, ClientStep, HostStep, SessionStep, SessionEvent

\* Every step keeps track of how the stack was started.
LEMMA KnownStep ==
    ASSUME TypeOK, SlotInv, KnownInv, [Next]_vars
    PROVE  KnownInv'
<1> USE ThreadsDisjoint, NoneIsNone DEF TypeOK, ThreadsOK, ValuesOK, SlotInv, KnownInv, Present,
        Reloading, Thread, ClientPC, SessionPC, client, shared, ui, stackVars, powerVars
<1>1. ASSUME NEW c \in Client, CallDisconnect(c) PROVE KnownInv'
  BY <1>1 DEF CallDisconnect, Go, Call, TakeTicket
<1>2. ASSUME NEW c \in Client, CallRestart(c) PROVE KnownInv'
  BY <1>2 DEF CallRestart, Go, Call, ReconnectAfterRestart
<1>3. ASSUME NEW c \in Client, StopScan(c) PROVE KnownInv'
  BY <1>3 DEF StopScan
<1>4. ASSUME NEW c \in Client, CallReload(c) PROVE KnownInv'
  BY <1>4 DEF CallReload, Go, Call
<1>5. ASSUME NEW c \in Client, ReloadCheck(c) PROVE KnownInv'
  BY <1>5 DEF ReloadCheck, Go, Shown
<1>6. ASSUME NEW c \in Client, ReloadMark(c) PROVE KnownInv'
  BY <1>6 DEF ReloadMark, Leave, Go, Return
<1>7. ASSUME NEW c \in Client, ControlFor(c) PROVE KnownInv'
  BY <1>7 DEF ControlFor, Leave, Skipped, Go, Return, Ticketed
<1>8. ASSUME NEW c \in Client, EndScan(c) PROVE KnownInv'
  BY <1>8 DEF EndScan, Go
<1>9. ASSUME NEW c \in Client, ScanWait(c) PROVE KnownInv'
  BY <1>9 DEF ScanWait, Go
<1>10. ASSUME NEW c \in Client, StopSession(c) PROVE KnownInv'
  BY <1>10 DEF StopSession, Go, Notify, AfterStop, ControlAfterStop, Ticketed
<1>11. ASSUME NEW c \in Client, CancelWaits(c) PROVE KnownInv'
  BY <1>11 DEF CancelWaits, Go
<1>12. ASSUME NEW c \in Client, Join(c) PROVE KnownInv'
  BY <1>12 DEF Join, Go, AfterStop, ControlAfterStop, Live, Ticketed
<1>13. ASSUME NEW c \in Client, ReleaseLink(c) PROVE KnownInv'
  BY <1>13 DEF ReleaseLink, Leave, Go, Return
<1>14. ASSUME NEW c \in Client, Reconnect(c) PROVE KnownInv'
  BY <1>14 DEF Reconnect, Go, Leave, TakeTicket, Return
<1>15. ASSUME NEW c \in Client, DriverDone(c) PROVE KnownInv'
  BY <1>15 DEF DriverDone, Leave, Go, Return
<1>16. ASSUME NEW c \in Client, Check(c) PROVE KnownInv'
  BY <1>16 DEF Check, Leave, Go, Return
<1>17. ASSUME NEW c \in Client, MarkScan(c) PROVE KnownInv'
  BY <1>17 DEF MarkScan, Go, Notify
<1>18. ASSUME NEW c \in Client, Inquire(c) PROVE KnownInv'
  BY <1>18 DEF Inquire, Go, Notify
<1>19. ASSUME NEW c \in Client, InquiryDone(c) PROVE KnownInv'
  BY <1>19 DEF InquiryDone, Leave, Notify, Go, Return
<1>20. ASSUME NEW c \in Client, Tool(c) PROVE KnownInv'
  BY <1>20 DEF Tool, Leave, Go, Return
<1>21. ASSUME NEW c \in Client, ToolDone(c) PROVE KnownInv'
  BY <1>21 DEF ToolDone, Leave, Go, Return
<1>22. ASSUME NEW c \in Client, NEW r \in Request, CallStart(c, r) PROVE KnownInv'
  BY <1>22 DEF CallStart, Go, Call, TakeTicket
<1>23. ASSUME NEW c \in Client, NEW r \in Request, ChangeSource(c, r) PROVE KnownInv'
  BY <1>23 DEF ChangeSource
<1>24. ASSUME NEW c \in Client, NEW w \in Operation, CallShutdown(c, w) PROVE KnownInv'
  BY <1>24 DEF CallShutdown, Go, Call
<1>25. ASSUME NEW c \in Client, NEW w \in Operation, CallTool(c, w) PROVE KnownInv'
  BY <1>25 DEF CallTool, Go, Call
<1>26. ASSUME NEW c \in Client, NEW s \in Session, Launch(c, s) PROVE KnownInv'
  BY <1>26 DEF Launch, Return, Notify, Live
<1>27. ASSUME NEW t \in Thread, TakeHost(t) PROVE KnownInv'
  BY <1>27 DEF TakeHost, Leave, AfterShut, Go, Return
<1>28. ASSUME NEW t \in Thread, ShutDown(t) PROVE KnownInv'
  BY <1>28 DEF ShutDown, Leave, AfterShut, Go, Return
<1>29. ASSUME NEW t \in Thread, KeepHost(t) PROVE KnownInv'
  BY <1>29 DEF KeepHost, Go, WithHost
<1>30. ASSUME NEW t \in Thread, RenewHost(t) PROVE KnownInv'
  BY <1>30 DEF RenewHost, Go
<1>31. ASSUME NEW t \in Thread, OpenStack(t) PROVE KnownInv'
  <2>1. CASE stack = "none"
    BY <1>31, <2>1 DEF OpenStack, Go, Leave
  <2>2. CASE stack # "none"
    BY <1>31, <2>2 DEF OpenStack, Leave, GiveUpHost, Go, Return, Notify, WithoutHost
  <2>3. QED
    BY <2>1, <2>2
<1>32. ASSUME NEW t \in Thread, StackUp(t) PROVE KnownInv'
  BY <1>32 DEF StackUp, Go, WithHost
<1>33. ASSUME NEW t \in Thread, StackFailed(t) PROVE KnownInv'
  BY <1>33 DEF StackFailed, GiveUpHost, Leave, Notify, WithoutHost, Go, Return
<1>34. ASSUME NEW s \in Session, GotHost(s) PROVE KnownInv'
  BY <1>34 DEF GotHost, Go, Notify
<1>35. ASSUME NEW s \in Session, Connect(s) PROVE KnownInv'
  BY <1>35 DEF Connect, Go
<1>36. ASSUME NEW s \in Session, ReconnectLink(s) PROVE KnownInv'
  BY <1>36 DEF ReconnectLink, Go
<1>37. ASSUME NEW s \in Session, NotConnected(s) PROVE KnownInv'
  BY <1>37 DEF NotConnected, Go
<1>38. ASSUME NEW s \in Session, RetryConnect(s) PROVE KnownInv'
  BY <1>38 DEF RetryConnect, Go, Notify
<1>39. ASSUME NEW s \in Session, RetryReconnect(s) PROVE KnownInv'
  BY <1>39 DEF RetryReconnect, Go, Notify, GiveUp
<1>40. ASSUME NEW s \in Session, RetryRestart(s) PROVE KnownInv'
  BY <1>40 DEF RetryRestart, Go, Notify, GiveUp
<1>41. ASSUME NEW s \in Session, TakeChange(s) PROVE KnownInv'
  BY <1>41 DEF TakeChange, Notify, GiveUp, Go
<1>42. ASSUME NEW s \in Session, StreamStopped(s) PROVE KnownInv'
  BY <1>42 DEF StreamStopped, Go, Notify
<1>43. ASSUME NEW s \in Session, WaitOver(s) PROVE KnownInv'
  BY <1>43 DEF WaitOver, Go, Notify, GiveUp
<1>44. ASSUME NEW s \in Session, CloseSession(s) PROVE KnownInv'
  BY <1>44 DEF CloseSession, Go
<1>45. ASSUME NEW s \in Session, EndSession(s) PROVE KnownInv'
  BY <1>45 DEF EndSession, Go
<1>46. ASSUME NEW s \in Session, Connected(s) PROVE KnownInv'
  BY <1>46 DEF Connected, Go, Notify
<1>47. ASSUME NEW s \in Session, LinkLost(s) PROVE KnownInv'
  BY <1>47 DEF LinkLost, Go, Notify, GiveUp
<1>48. ASSUME NEW s \in Session, TurnedOff(s) PROVE KnownInv'
  BY <1>48 DEF TurnedOff, Go, Notify
<1>49. ASSUME NEW s \in Session, Panic(s) PROVE KnownInv'
  BY <1>49 DEF Panic, Go, Notify
<1>50. ASSUME NEW s \in Session, NEW keep \in BOOLEAN, HostForStream(s, keep) PROVE KnownInv'
  BY <1>50 DEF HostForStream, Go
<1>51. CASE Resume
  BY <1>51 DEF Resume
<1>52. CASE UNCHANGED vars
  BY <1>52 DEF vars
<1>53. QED
  BY <1>1, <1>2, <1>3, <1>4, <1>5, <1>6, <1>7, <1>8, <1>9, <1>10, <1>11, <1>12, <1>13, <1>14, <1>15,
     <1>16, <1>17, <1>18, <1>19, <1>20, <1>21, <1>22, <1>23, <1>24, <1>25, <1>26, <1>27, <1>28, <1>29,
     <1>30, <1>31, <1>32, <1>33, <1>34, <1>35, <1>36, <1>37, <1>38, <1>39, <1>40, <1>41, <1>42, <1>43,
     <1>44, <1>45, <1>46, <1>47, <1>48, <1>49, <1>50, <1>51, <1>52
     DEF Next, CallStep, ClientStep, HostStep, SessionStep, SessionEvent

\* The two invariants hold initially.
LEMMA InitInv == Init => TypeOK /\ ControlInv /\ AdapterInv
<1> SUFFICES ASSUME Init PROVE TypeOK /\ ControlInv /\ AdapterInv
  OBVIOUS
<1>1. SessionFlagsOK /\ StackFlagsOK
  BY DEF Init, SessionFlagsOK, StackFlagsOK
<1>2. PowerFlagsOK
  BY DEF Init, PowerFlagsOK
<1>3. ThreadsOK
  BY ThreadsDisjoint DEF Init, ThreadsOK, Thread, ClientPC, SessionPC
<1>4. ValuesOK
  BY DEF Init, ValuesOK, StreamState
<1>5. LockInv
  BY NoneIsNone DEF Init, LockInv, Holding, Thread
<1>6. HandleInv
  BY ThreadsDisjoint DEF Init, HandleInv, Live, Thread
<1>7. FlagInv
  BY ThreadsDisjoint DEF Init, FlagInv, Live, Thread
<1>8. SlotInv
  BY ThreadsDisjoint, NoneIsNone DEF Init, SlotInv, Thread
<1>9. KnownInv
  BY DEF Init, KnownInv, Thread
<1>10. QED
  BY <1>1, <1>2, <1>3, <1>4, <1>5, <1>6, <1>7, <1>8, <1>9 DEF TypeOK, ControlInv, AdapterInv

\* Every variable keeps its type, and no caller ever runs on into code of a
\* session or the other way round.
THEOREM TypeCorrect == Spec => []TypeOK
<1>1. Init => TypeOK
  BY InitInv
<1>2. TypeOK /\ [Next]_vars => TypeOK'
  BY TypeStep
<1>3. QED
  BY <1>1, <1>2, PTL DEF Spec

\* The invariant of the start and stop of sessions.
LEMMA ControlAlways == Spec => [](TypeOK /\ ControlInv)
<1>1. Init => TypeOK /\ ControlInv
  BY InitInv
<1>2. TypeOK /\ ControlInv /\ [Next]_vars => (TypeOK /\ ControlInv)'
  BY TypeStep, LockStep, HandleStep, FlagStep DEF ControlInv
<1>3. QED
  BY <1>1, <1>2, PTL DEF Spec

\* The invariant of the adapter and its stack.
LEMMA AdapterAlways == Spec => [](TypeOK /\ AdapterInv)
<1>1. Init => TypeOK /\ AdapterInv
  BY InitInv
<1>2. TypeOK /\ AdapterInv /\ [Next]_vars => (TypeOK /\ AdapterInv)'
  BY TypeStep, SlotStep, KnownStep DEF AdapterInv
<1>3. QED
  BY <1>1, <1>2, PTL DEF Spec

\* At most one session thread is alive, for every number of callers and every
\* interleaving of starts, stops, restarts, scans and failures (issue #86).
THEOREM OneSessionAlways == Spec => []OneSession
<1>1. TypeOK /\ ControlInv => OneSession
  <2> SUFFICES ASSUME TypeOK, ControlInv, NEW s \in Session, NEW t \in Session, Live(s), Live(t)
               PROVE  s = t
    BY DEF OneSession
  <2>1. CASE worker # None
    <3>1. \A c \in Client : held[c] = None
      BY <2>1 DEF ControlInv, HandleInv
    <3>2. QED
      BY <3>1, NoneIsNone DEF ControlInv, HandleInv
  <2>2. CASE worker = None
    <3>1. PICK c \in Client : held[c] = s
      BY <2>2, NoneIsNone DEF ControlInv, HandleInv
    <3>2. PICK d \in Client : held[d] = t
      BY <2>2, NoneIsNone DEF ControlInv, HandleInv
    <3>3. c = d
      BY <3>1, <3>2, NoneIsNone DEF ControlInv, HandleInv, LockInv, Holding
    <3>4. QED
      BY <3>1, <3>2, <3>3
  <2>3. QED
    BY <2>1, <2>2
<1>2. QED
  BY <1>1, ControlAlways, PTL

\* Service::is_running is true exactly while a session thread is alive.
THEOREM RunningIsLiveAlways == Spec => []RunningIsLive
<1>1. ControlInv => RunningIsLive
  BY DEF ControlInv, FlagInv, RunningIsLive
<1>2. QED
  BY <1>1, ControlAlways, PTL

\* Inner.stop is seen by the session a thread waits for, and by no other.
THEOREM StopIsForItsSessionAlways == Spec => []StopIsForItsSession
<1>1. TypeOK /\ ControlInv => StopIsForItsSession
  <2> SUFFICES ASSUME TypeOK, ControlInv, NEW s \in Session, Live(s)
               PROVE  stop <=> \E c \in Client : held[c] = s
    BY DEF StopIsForItsSession
  <2>1. CASE worker = s
    BY <2>1, NoneIsNone DEF ControlInv, HandleInv, FlagInv
  <2>2. CASE worker # s
    BY <2>2, NoneIsNone DEF ControlInv, HandleInv
  <2>3. QED
    BY <2>1, <2>2
<1>2. QED
  BY <1>1, ControlAlways, PTL

\* The invariant of the tickets and of what is played.
LEMMA RequestAlways == Spec => [](PlayInv /\ TicketInv)
<1>1. Init => PlayInv /\ TicketInv
  <2>1. ASSUME Init PROVE PlayInv
    BY <2>1, ThreadsDisjoint DEF Init, PlayInv, Ended, Thread
  <2>2. ASSUME Init PROVE TicketInv
    BY <2>2, ThreadsDisjoint DEF Init, TicketInv, Asked, Holding, Thread
  <2>3. QED
    BY <2>1, <2>2
<1>2. TypeOK /\ ControlInv /\ PlayInv /\ TicketInv /\ [Next]_vars => (PlayInv /\ TicketInv)'
  BY PlayStep, TicketStep DEF ControlInv
<1>3. QED
  BY <1>1, <1>2, ControlAlways, PTL DEF Spec

\* The session plays what a Bluetooth restart would connect again, or is about
\* to: Service::change_source, the start of a session, the streaming loop that
\* takes the change and a Disconnect keep last_request and the session in step.
THEOREM PlaysLastRequestAlways == Spec => []PlaysLastRequest
<1>1. PlayInv => PlaysLastRequest
  BY DEF PlayInv, Ended, PlaysLastRequest
<1>2. QED
  BY <1>1, RequestAlways, PTL

\* Service::ticket and control_for: when all calls have returned, the latest
\* start or stop asked for is the one carried out last, for every number of
\* callers and of tickets.
THEOREM LatestWinsAlways == Spec => []LatestWins
<1>1. TicketInv => LatestWins
  BY DEF TicketInv, Asked, Holding, Quiet, LatestWins
<1>2. QED
  BY <1>1, RequestAlways, PTL

\* A stack left from before sleep is marked stale, whenever the resume comes.
THEOREM StaleKnownAlways == Spec => []StaleKnown
<1>1. AdapterInv => StaleKnown
  BY DEF AdapterInv, KnownInv, Present, StaleKnown
<1>2. QED
  BY <1>1, AdapterAlways, PTL

\* A stack started with other adapter settings is marked for its replacement.
THEOREM ReloadKnownAlways == Spec => []ReloadKnown
<1>1. AdapterInv => ReloadKnown
  BY DEF AdapterInv, KnownInv, Present, Reloading, ReloadKnown
<1>2. QED
  BY <1>1, AdapterAlways, PTL

\* No stack starts on the adapter while a tool (the chip probe) runs on it.
THEOREM ToolAloneAlways == Spec => []ToolAlone
<1>1. TypeOK /\ AdapterInv => ToolAlone
  BY NoneIsNone DEF TypeOK, ThreadsOK, AdapterInv, SlotInv, ToolAlone, Thread
<1>2. QED
  BY <1>1, AdapterAlways, PTL
=============================================================================
