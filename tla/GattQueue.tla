------------------------------ MODULE GattQueue ------------------------------
(***************************************************************************)
(* The queue of GATT client operations (bt-host/src/le/gatt_client.rs) and *)
(* the loop of the LE core that drives it (core.rs, settle).  BTstack's    *)
(* gatt_client runs one query per connection; every operation of the core  *)
(* and its modules waits its turn in a FIFO per connection and gets its    *)
(* result through a callback, which may queue further operations.          *)
(*                                                                         *)
(* All of it runs on the BTstack thread: an entry point (a posted job, an  *)
(* event, a timer) changes the queue, and `settle` then starts operations  *)
(* and runs callbacks until nothing is left to do.  The steps of `settle`  *)
(* are steps here, and an entry point is taken only between two of them    *)
(* (at = "idle").                                                          *)
(***************************************************************************)
EXTENDS Naturals, Sequences, FiniteSets, SequencesExt

CONSTANTS
    Con,        \* connection handles; a handle is used again by a later link
    Steps,      \* queries of a discovery after the first one
    MaxOps,     \* bound: operations
    MaxGattLinks,   \* bound: links of a handle
    MaxBusy     \* bound: starts that find gatt_client busy

ASSUME StepsAssumption == Steps \in Nat

VARIABLES
    conn,       \* GattClient::conns: [Con -> up, queue, running, retry]
    ready,      \* GattClient::ready: finished operations, callbacks not yet run
    at,         \* the BTstack thread: "idle", or what of an entry point it does
    visit,      \* connections the current pump has still to look at
    batch,      \* callbacks `settle` has taken
    gattRetry,  \* LeCore::gatt_retry, with its timer of 5 ms
    query,      \* [Con -> a query runs in BTstack]
    link,       \* [Con -> number of its link]
    ops,        \* the operations queued so far: con, link, kind, queries left
    told,       \* callbacks run, in order: <<operation, status>>
    busy        \* starts found busy so far
gattVars == <<conn, ready, at, visit, batch, gattRetry, query, link, ops, told, busy>>

Kind == {"query", "discover", "barrier"}
NoConn == [up |-> FALSE, queue |-> <<>>, running |-> FALSE, retry |-> FALSE]
AllWith(queue, status) == [i \in DOMAIN queue |-> <<queue[i], status>>]

GattInit ==
    /\ conn = [c \in Con |-> NoConn]
    /\ ready = <<>> /\ batch = <<>> /\ told = <<>> /\ ops = <<>>
    /\ at = "idle" /\ visit = {}
    /\ gattRetry = FALSE
    /\ query = [c \in Con |-> FALSE]
    /\ link = [c \in Con |-> 0]
    /\ busy = 0

(***************************************************************************)
(* The queue                                                               *)
(***************************************************************************)
\* enqueue: at the end of the queue, or finished at once without a link
Enqueue(c, k) ==
    LET id == Len(ops) + 1
    IN  /\ id <= MaxOps
        /\ ops' = Append(ops, [con |-> c, link |-> IF conn[c].up THEN link[c] ELSE 0, kind |-> k,
                               left |-> IF k = "discover" THEN Steps ELSE 0])
        /\ IF conn[c].up
           THEN conn' = [conn EXCEPT ![c].queue = Append(@, id)] /\ UNCHANGED ready
           ELSE ready' = Append(ready, <<id, "gone">>) /\ UNCHANGED conn

\* pump looks at a connection that has an operation and runs none
MayStart(c) == conn[c].up /\ ~conn[c].running /\ conn[c].queue # <<>>

\* pump: gatt_client is busy with a query that is not ours
StartBusy(c) ==
    /\ busy < MaxBusy
    /\ busy' = busy + 1
    /\ conn' = [conn EXCEPT ![c].retry = TRUE]
    /\ visit' = visit \ {c}
    /\ UNCHANGED <<ready, query>>

\* pump: a query that cannot start completes with its status
StartFails(c) ==
    /\ conn' = [conn EXCEPT ![c].retry = FALSE, ![c].queue = Tail(@)]
    /\ ready' = Append(ready, <<Head(conn[c].queue), "failed">>)
    /\ UNCHANGED <<visit, query, busy>>

\* pump: a barrier completes at once, any other operation runs
StartRuns(c) ==
    LET op == Head(conn[c].queue)
    IN  IF ops[op].kind = "barrier"
        THEN /\ conn' = [conn EXCEPT ![c].retry = FALSE, ![c].queue = Tail(@)]
             /\ ready' = Append(ready, <<op, "ok">>)
             /\ UNCHANGED <<visit, query, busy>>
        ELSE /\ ~query[c]
             /\ conn' = [conn EXCEPT ![c].retry = FALSE, ![c].running = TRUE]
             /\ query' = [query EXCEPT ![c] = TRUE]
             /\ visit' = visit \ {c}
             /\ UNCHANGED <<ready, busy>>

(***************************************************************************)
(* settle                                                                  *)
(***************************************************************************)
\* pump_all, and the pump of complete_front: one start
Pump(c) ==
    /\ at \in {"event", "pump"}
    /\ c \in visit
    /\ IF MayStart(c)
       THEN StartBusy(c)
            \/ (ops[Head(conn[c].queue)].kind # "barrier" /\ StartFails(c))
            \/ StartRuns(c)
       ELSE visit' = visit \ {c} /\ UNCHANGED <<conn, ready, query, busy>>
    /\ UNCHANGED <<at, batch, gattRetry, link, ops, told>>

\* take_ready: the callbacks to run, or the end of settle, which arms the
\* timer when a start found gatt_client busy
TakeReady ==
    /\ at \in {"event", "pump"}
    /\ visit = {}
    /\ CASE at = "event" ->
              at' = "pump" /\ visit' = Con /\ UNCHANGED <<batch, ready, gattRetry>>
         [] at = "pump" /\ ready # <<>> ->
              at' = "run" /\ batch' = ready /\ ready' = <<>> /\ UNCHANGED <<visit, gattRetry>>
         [] OTHER ->
              /\ at' = "idle"
              /\ gattRetry' = (gattRetry \/ \E c \in Con : conn[c].retry /\ conn[c].queue # <<>>)
              /\ UNCHANGED <<visit, batch, ready>>
    /\ UNCHANGED <<conn, query, link, ops, told, busy>>

\* Completion::run; the callback may queue an operation
RunCallback ==
    /\ at = "run"
    /\ batch # <<>>
    /\ told' = Append(told, Head(batch))
    /\ batch' = Tail(batch)
    /\ \/ UNCHANGED <<conn, ready, ops>>
       \/ \E c \in Con, k \in Kind : Enqueue(c, k)
    /\ UNCHANGED <<at, visit, gattRetry, query, link, busy>>

RunOver ==
    /\ at = "run"
    /\ batch = <<>>
    /\ at' = "pump" /\ visit' = Con
    /\ UNCHANGED <<conn, ready, batch, gattRetry, query, link, ops, told, busy>>

(***************************************************************************)
(* Entry points; settle follows                                            *)
(***************************************************************************)
Settle == at = "idle" /\ at' = "pump" /\ visit' = Con

\* read, write, subscribe, discover_all, barrier from a job or an event
Request(c, k) ==
    /\ Settle
    /\ Enqueue(c, k)
    /\ UNCHANGED <<batch, gattRetry, query, link, told, busy>>

\* attach: a new connection
Attach(c) ==
    /\ Settle
    /\ ~conn[c].up
    /\ link[c] < MaxGattLinks
    /\ link' = [link EXCEPT ![c] = @ + 1]
    /\ conn' = [conn EXCEPT ![c] = [NoConn EXCEPT !.up = TRUE]]
    /\ UNCHANGED <<ready, batch, gattRetry, query, ops, told, busy>>

\* mutant: the operation that runs is forgotten with its link
DetachQueued(c) ==
    /\ Settle
    /\ conn[c].up
    /\ ready' = ready \o AllWith(IF conn[c].running THEN Tail(conn[c].queue) ELSE conn[c].queue, "gone")
    /\ conn' = [conn EXCEPT ![c] = NoConn]
    /\ query' = [query EXCEPT ![c] = FALSE]
    /\ UNCHANGED <<batch, gattRetry, link, ops, told, busy>>

\* detach: what was queued or running completes with a status of its own.
\* BTstack forgets the query with the link.
Detach(c) ==
    /\ Settle
    /\ conn[c].up
    /\ ready' = ready \o AllWith(conn[c].queue, "gone")
    /\ conn' = [conn EXCEPT ![c] = NoConn]
    /\ query' = [query EXCEPT ![c] = FALSE]
    /\ UNCHANGED <<batch, gattRetry, link, ops, told, busy>>

\* complete_front: the operation is over
Completes(c, status) ==
    /\ conn' = [conn EXCEPT ![c].running = FALSE, ![c].queue = Tail(@)]
    /\ ready' = Append(ready, <<Head(conn[c].queue), status>>)
    /\ at' = "event" /\ visit' = {c}

\* on_event, GATT_EVENT_QUERY_COMPLETE: a discovery goes on with its next
\* query, or ends as it is when that one does not start
OnQueryComplete(c) ==
    /\ at = "idle"
    /\ query[c]
    /\ LET op == Head(conn[c].queue)
       IN  \/ /\ ops[op].left > 0
              /\ ops' = [ops EXCEPT ![op].left = @ - 1]
              /\ at' = "pump" /\ visit' = Con
              /\ UNCHANGED <<conn, ready, query>>
           \/ /\ query' = [query EXCEPT ![c] = FALSE]
              /\ Completes(c, "ok") \/ Completes(c, "failed")
              /\ UNCHANGED ops
    /\ UNCHANGED <<batch, gattRetry, link, told, busy>>

\* mutant: the timer only sets itself again
RetryTimerRearms == at = "idle" /\ gattRetry /\ UNCHANGED gattVars

\* The timer of settle: the next settle starts what was busy
RetryTimer ==
    /\ Settle
    /\ gattRetry
    /\ gattRetry' = FALSE
    /\ UNCHANGED <<conn, ready, batch, query, link, ops, told, busy>>

GattNext ==
    \/ \E c \in Con :
          Pump(c) \/ Attach(c) \/ Detach(c) \/ OnQueryComplete(c) \/ \E k \in Kind : Request(c, k)
    \/ TakeReady \/ RunCallback \/ RunOver \/ RetryTimer

GattSpec == GattInit /\ [][GattNext]_gattVars

(***************************************************************************)
(* Properties                                                              *)
(***************************************************************************)
GattTypeOK ==
    /\ \A c \in Con : conn[c].running => conn[c].queue # <<>>
    /\ \A c \in Con : ~conn[c].up => conn[c] = NoConn
    /\ at \in {"idle", "event", "pump", "run"}
    /\ visit \subseteq Con
    /\ (at # "run" => batch = <<>>) /\ (at \in {"idle", "run"} => visit = {})
    /\ at = "idle" => ready = <<>>

Finished == {told[i][1] : i \in DOMAIN told} \cup {batch[i][1] : i \in DOMAIN batch} \cup {ready[i][1] : i \in DOMAIN ready}

\* Every operation is in one place: waiting on its own link, or finished, and
\* finished once.  Its callback runs exactly once, also when the link goes
\* down under it (gatt_client.rs, detach and complete_front).
AnsweredOnce ==
    /\ Cardinality(Finished) = Len(told) + Len(batch) + Len(ready)
    /\ \A op \in DOMAIN ops :
          op \in Finished
          \/ /\ conn[ops[op].con].up
             /\ ops[op].link = link[ops[op].con]
             /\ Contains(conn[ops[op].con].queue, op)

\* The operations of one link are answered in the order they were queued.
AnsweredInOrder ==
    \A i, j \in DOMAIN told :
        /\ i < j
        /\ ops[told[i][1]].con = ops[told[j][1]].con
        /\ ops[told[i][1]].link = ops[told[j][1]].link
        => told[i][1] < told[j][1]

\* What the queue believes of BTstack is so: `running` exactly while a query
\* of the operation at the front runs.
OneQuery == \A c \in Con : conn[c].running = query[c]

\* Nothing is left lying: between two entry points an operation that does not
\* run has a timer that starts it again (core.rs, settle; wants_retry).
NothingLeftLying ==
    at = "idle" => \A c \in Con : conn[c].up /\ conn[c].queue # <<>> /\ ~conn[c].running => gattRetry

\* Every operation is answered in the end, also when its link goes down:
\* time and again none is unanswered.
AllAnswered == []<>(\A op \in DOMAIN ops : \E i \in DOMAIN told : told[i][1] = op)

\* The GATT client is safe: whatever BTstack and the links do, an operation is
\* answered once and in its order, and none is forgotten.
GattSafe == GattTypeOK /\ AnsweredOnce /\ AnsweredInOrder /\ OneQuery /\ NothingLeftLying
=============================================================================
