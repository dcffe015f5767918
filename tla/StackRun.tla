------------------------------ MODULE StackRun ------------------------------
(***************************************************************************)
(* The life of the BTstack run loop: crates/btstack-sys/src/lib.rs (run,   *)
(* Remote, post_wake), its callback bluecaster_rs_on_wake, the wake-up in  *)
(* csrc/shim.c, and the two ends of it in crates/bt-host/src/lib.rs        *)
(* (BtHost::launch, call and stop_thread).                                 *)
(*                                                                         *)
(* RUNNING, ALIVE, WAKERS, WAKE_FLAGS and the wake registration are one    *)
(* per process: they serve one BtHost after the other.  A step is one      *)
(* atomic operation.  On x86 the Release store of ALIVE may wait in the    *)
(* store buffer of its thread past that thread's next load (StoreBuffer);  *)
(* the read-modify-write operations are full barriers.                     *)
(***************************************************************************)
EXTENDS Naturals, FiniteSets

CONSTANTS
    Host,         \* BtHosts, each with a thread of its own for run
    Caller,       \* threads that have work for a stack (audio, USB, service)
    None,         \* no host
    StoreBuffer   \* BOOLEAN: stores may be seen late by other threads

ASSUME PostersDisjoint == Host \cap Caller = {} /\ None \notin Host
ASSUME StoreBufferType == StoreBuffer \in BOOLEAN

\* Who posts wakes: the callers, and for each host the thread that stops it
Poster == Caller \cup Host

VARIABLES
    run,       \* where the thread of each host is in btstack_sys::run
    owner,     \* what the thread that owns each host does
    running,   \* RUNNING
    alive,     \* ALIVE in memory
    buffered,  \* ALIVE.store(false) still waits in the store buffer
    wakers,    \* who is counted in WAKERS
    flags,     \* WAKE_FLAGS
    pending,   \* wake_pending (shim.c)
    queued,    \* the wake registration is in the run loop's list
    exit,      \* btstack_run_loop_trigger_exit was called
    poisoned,  \* POISONED
    jobs,      \* jobs in each host's channel, by who sent them
    pc,        \* where each poster is in a wake
    what,      \* what its wake is for
    target,    \* the host it has work for
    asked,     \* history: hosts whose owner asked for the exit
    crashed    \* history: hosts a callback of which panicked

runVars   == <<running, alive, buffered, exit, poisoned>>
wakeVars  == <<wakers, flags, pending, queued, jobs>>
posterVars == <<pc, what, target>>
history   == <<asked, crashed>>
vars == <<run, owner, runVars, wakeVars, posterVars, history>>

\* The run loop is set up: bluecaster_runloop_init() .. the teardown
SetUp(h) == run[h] \in {"init", "loop", "callback", "exiting", "closing"}

Init ==
    /\ run = [h \in Host |-> "none"]
    /\ owner = [h \in Host |-> "none"]
    /\ running = FALSE /\ alive = FALSE /\ buffered = FALSE
    /\ exit = FALSE /\ poisoned = FALSE
    /\ wakers = {} /\ flags = {} /\ pending = FALSE /\ queued = FALSE
    /\ jobs = [h \in Host |-> {}]
    /\ pc = [p \in Poster |-> "idle"]
    /\ what = [p \in Poster |-> "app"]
    /\ target = [p \in Poster |-> None]
    /\ asked = {} /\ crashed = {}

-----------------------------------------------------------------------------
(* The thread of a stack: run.                                             *)

Step(h, from, to) == run[h] = from /\ run' = [run EXCEPT ![h] = to]

\* mutant: a second run loop is let in
ClaimUnchecked(h) ==
    /\ Step(h, "start", "reset")
    /\ running' = TRUE
    /\ UNCHANGED <<owner, alive, buffered, exit, poisoned, wakeVars, posterVars, history>>

\* RUNNING.swap: a second run loop is refused
Claim(h) ==
    /\ Step(h, "start", IF running THEN "refused" ELSE "reset")
    /\ running' = TRUE
    /\ UNCHANGED <<owner, alive, buffered, exit, poisoned, wakeVars, posterVars, history>>

\* What an earlier run left is cleared
Reset(h) ==
    /\ Step(h, "reset", "setup")
    /\ flags' = {}
    /\ poisoned' = FALSE
    /\ UNCHANGED <<owner, running, alive, buffered, exit, wakers, pending, queued, jobs, posterVars, history>>

\* bluecaster_runloop_init: an empty list, no wake pending
InitLoop(h) ==
    /\ Step(h, "setup", "init")
    /\ pending' = FALSE /\ queued' = FALSE /\ exit' = FALSE
    /\ UNCHANGED <<owner, running, alive, buffered, poisoned, wakers, flags, jobs, posterVars, history>>

\* ALIVE.store(true); init hands out the Remote; btstack_run_loop_execute
Execute(h) ==
    /\ Step(h, "init", "loop")
    /\ alive' = TRUE
    /\ UNCHANGED <<owner, running, buffered, exit, poisoned, wakeVars, posterVars, history>>

\* mutant: wake_pending is cleared after the callback, not before it
TakeWakeLate(h) ==
    /\ queued
    /\ Step(h, "loop", "callback")
    /\ queued' = FALSE
    /\ UNCHANGED <<owner, runVars, wakers, pending, flags, jobs, posterVars, history>>

\* wake_callback: the element has left the list, wake_pending is cleared
TakeWake(h) ==
    /\ queued
    /\ Step(h, "loop", "callback")
    /\ queued' = FALSE
    /\ pending' = FALSE
    /\ UNCHANGED <<owner, runVars, wakers, flags, jobs, posterVars, history>>

\* bluecaster_rs_on_wake: the flags are taken; the app runs the jobs in its
\* channel
OnWake(h) ==
    /\ Step(h, "callback", "loop")
    /\ flags' = {}
    /\ jobs' = IF "app" \in flags THEN [jobs EXCEPT ![h] = {}] ELSE jobs
    /\ exit' = (exit \/ "exit" \in flags \/ poisoned)
    /\ UNCHANGED <<owner, running, alive, buffered, poisoned, wakers, pending, queued, posterVars, history>>

\* guard: a callback panicked (bound: once in a run), maybe after on_wake took
\* the flags; the run loop wakes itself up to exit
Panic(h) ==
    /\ h \notin crashed
    /\ run[h] \in {"loop", "callback"} /\ run' = [run EXCEPT ![h] = "loop"]
    /\ poisoned' = TRUE
    /\ \E kept \in SUBSET flags :
          /\ kept = flags \/ (kept = {} /\ run[h] = "callback")
          /\ flags' = kept \cup {"exit"}
    /\ pending' = TRUE
    /\ queued' = (queued \/ ~pending)
    /\ crashed' = crashed \cup {h}
    /\ UNCHANGED <<owner, running, alive, buffered, exit, wakers, jobs, posterVars, asked>>

\* btstack_run_loop_execute returns, App::on_exit
Leave(h) ==
    /\ exit
    /\ Step(h, "loop", "exiting")
    /\ UNCHANGED <<owner, runVars, wakeVars, posterVars, history>>

\* ALIVE.store(false, Release)
Close(h) ==
    /\ Step(h, "exiting", "closing")
    /\ IF StoreBuffer THEN buffered' = TRUE /\ UNCHANGED alive
                      ELSE alive' = FALSE /\ UNCHANGED buffered
    /\ UNCHANGED <<owner, running, exit, poisoned, wakeVars, posterVars, history>>

\* The store buffer drains
Drain ==
    /\ buffered
    /\ buffered' = FALSE
    /\ alive' = FALSE
    /\ UNCHANGED <<run, owner, running, exit, poisoned, wakeVars, posterVars, history>>

\* mutant: the teardown does not wait for wakes on other threads
NoWakersUnchecked(h) ==
    /\ Step(h, "closing", "deinit")
    /\ UNCHANGED <<owner, runVars, wakeVars, posterVars, history>>

\* WAKERS.load() is zero: no wake is in progress, the teardown begins
NoWakers(h) ==
    /\ wakers = {}
    /\ Step(h, "closing", "deinit")
    /\ UNCHANGED <<owner, runVars, wakeVars, posterVars, history>>

\* BTstack is deinitialized, the app dropped and with it the jobs of its
\* channel; RUNNING.store(false) follows the store of ALIVE
Finish(h) ==
    /\ ~buffered
    /\ Step(h, "deinit", "done")
    /\ running' = FALSE
    /\ jobs' = [jobs EXCEPT ![h] = {}]
    /\ UNCHANGED <<owner, alive, buffered, exit, poisoned, wakers, flags, pending, queued, posterVars, history>>

-----------------------------------------------------------------------------
(* Wakes, from any thread.                                                 *)

At(p, from, to) == pc[p] = from /\ pc' = [pc EXCEPT ![p] = to]

\* BtHost::call and BtHost::post: the job goes into the channel, unless the
\* app is gone; then Remote::wake
Send(p, h) ==
    /\ p \in Caller
    /\ owner[h] \notin {"none", "launching", "joining", "failed"}
    /\ run[h] # "done"
    /\ At(p, "idle", "flag")
    /\ jobs' = [jobs EXCEPT ![h] = @ \cup {p}]
    /\ target' = [target EXCEPT ![p] = h]
    /\ what' = [what EXCEPT ![p] = "app"]
    /\ UNCHANGED <<run, owner, runVars, wakers, flags, pending, queued, history>>

\* WAKE_FLAGS.fetch_or
SetFlag(p) ==
    /\ At(p, "flag", "add")
    /\ flags' = flags \cup {what[p]}
    /\ UNCHANGED <<run, owner, runVars, wakers, pending, queued, jobs, what, target, history>>

\* post_wake: WAKERS.fetch_add
AddWaker(p) ==
    /\ At(p, "add", "load")
    /\ wakers' = wakers \cup {p}
    /\ UNCHANGED <<run, owner, runVars, flags, pending, queued, jobs, what, target, history>>

\* ALIVE.load
LoadAlive(p) ==
    /\ At(p, "load", IF alive THEN "wake" ELSE "sub")
    /\ UNCHANGED <<run, owner, runVars, wakeVars, what, target, history>>

\* mutant: the registration is added whether or not a wake is pending
ExchangeAlways(p) ==
    /\ At(p, "wake", "queue")
    /\ pending' = TRUE
    /\ UNCHANGED <<run, owner, runVars, wakers, flags, queued, jobs, what, target, history>>

\* bluecaster_wake: InterlockedExchange(&wake_pending, 1)
Exchange(p) ==
    /\ At(p, "wake", IF pending THEN "sub" ELSE "queue")
    /\ pending' = TRUE
    /\ UNCHANGED <<run, owner, runVars, wakers, flags, queued, jobs, what, target, history>>

\* btstack_run_loop_execute_on_main_thread
Queue(p) ==
    /\ At(p, "queue", "sub")
    /\ queued' = TRUE
    /\ UNCHANGED <<run, owner, runVars, wakers, flags, pending, jobs, what, target, history>>

\* WAKERS.fetch_sub
SubWaker(p) ==
    /\ At(p, "sub", "sent")
    /\ wakers' = wakers \ {p}
    /\ UNCHANGED <<run, owner, runVars, flags, pending, queued, jobs, what, target, history>>

\* mutant: the caller is left as its own target
AnsweredSelf(p) ==
    /\ p \in Caller
    /\ At(p, "sent", "idle")
    /\ target' = [target EXCEPT ![p] = p]
    /\ UNCHANGED <<run, owner, runVars, wakeVars, what, history>>

\* The job is done or dropped, or recv_timeout: the call returns (a job left
\* behind may still run later)
Answered(p) ==
    /\ p \in Caller
    /\ At(p, "sent", "idle")
    /\ target' = [target EXCEPT ![p] = None]
    /\ UNCHANGED <<run, owner, runVars, wakeVars, what, history>>

-----------------------------------------------------------------------------
(* The owner of a host: launch and stop_thread.                            *)

Own(h, from, to) == owner[h] = from /\ owner' = [owner EXCEPT ![h] = to]

\* init has not handed out the Remote
Unsent(h) == run[h] \in {"none", "start", "refused", "reset", "setup", "init"}

\* BtHost::launch spawns the thread; the service starts one stack at a time
Launch(h) ==
    /\ \A g \in Host : owner[g] \notin {"launching", "joining"}
    /\ Own(h, "none", "launching")
    /\ Step(h, "none", "start")
    /\ UNCHANGED <<runVars, wakeVars, posterVars, history>>

\* The Remote arrived
Launched(h) ==
    /\ Own(h, "launching", "up")
    /\ ~Unsent(h)
    /\ UNCHANGED <<run, runVars, wakeVars, posterVars, history>>

\* The channel closed (refused) or JOB_TIMEOUT passed before init sent the
\* Remote: launch joins the thread
NotLaunched(h) ==
    /\ Own(h, "launching", "joining")
    /\ Unsent(h)
    /\ UNCHANGED <<run, runVars, wakeVars, posterVars, history>>

Joined(h) ==
    /\ Own(h, "joining", "failed")
    /\ run[h] \in {"refused", "done"}
    /\ UNCHANGED <<run, runVars, wakeVars, posterVars, history>>

\* stop_thread takes the thread's handle (once); power_off is a call of its
\* own unless the adapter was lost
StopThread(h) ==
    /\ Own(h, "up", "power_off")
    /\ \/ /\ run[h] # "done"
          /\ At(h, "idle", "flag")
          /\ jobs' = [jobs EXCEPT ![h] = @ \cup {h}]
          /\ what' = [what EXCEPT ![h] = "app"]
       \/ At(h, "idle", "sent") /\ UNCHANGED <<jobs, what>>
    /\ UNCHANGED <<run, runVars, wakers, flags, pending, queued, target, history>>

\* power_off returned (HCI is off, or it timed out): Remote::request_exit
RequestExit(h) ==
    /\ Own(h, "power_off", "ending")
    /\ At(h, "sent", "flag")
    /\ what' = [what EXCEPT ![h] = "exit"]
    /\ asked' = asked \cup {h}
    /\ UNCHANGED <<run, runVars, wakeVars, target, crashed>>

\* The thread is finished, or THREAD_END_STEPS passed
Stopped(h) ==
    /\ Own(h, "ending", "stopped")
    /\ pc[h] = "sent"
    /\ UNCHANGED <<run, runVars, wakeVars, posterVars, history>>

-----------------------------------------------------------------------------
RunStep(h) ==
    \/ Claim(h) \/ Reset(h) \/ InitLoop(h) \/ Execute(h) \/ TakeWake(h) \/ OnWake(h)
    \/ Leave(h) \/ Close(h) \/ NoWakers(h) \/ Finish(h)

PostStep(p) ==
    \/ SetFlag(p) \/ AddWaker(p) \/ LoadAlive(p) \/ Exchange(p) \/ Queue(p) \/ SubWaker(p)

OwnerStep(h) ==
    \/ Launch(h) \/ Launched(h) \/ NotLaunched(h) \/ Joined(h) \/ StopThread(h)
    \/ RequestExit(h) \/ Stopped(h)

Next ==
    \/ \E h \in Host : RunStep(h) \/ OwnerStep(h) \/ Panic(h)
    \/ \E p \in Poster : PostStep(p) \/ Answered(p)
    \/ \E p \in Caller, h \in Host : Send(p, h)
    \/ Drain

Spec == Init /\ [][Next]_vars

-----------------------------------------------------------------------------
RunPC == {"none", "start", "refused", "reset", "setup", "init", "loop", "callback",
          "exiting", "closing", "deinit", "done"}
OwnerPC == {"none", "launching", "joining", "failed", "up", "power_off", "ending", "stopped"}
PosterPC == {"idle", "flag", "add", "load", "wake", "queue", "sub", "sent"}

\* Types of the variables.
TypeOK ==
    /\ run \in [Host -> RunPC]
    /\ owner \in [Host -> OwnerPC]
    /\ running \in BOOLEAN /\ alive \in BOOLEAN /\ buffered \in BOOLEAN
    /\ exit \in BOOLEAN /\ poisoned \in BOOLEAN
    /\ wakers \in SUBSET Poster
    /\ flags \in SUBSET {"app", "exit"}
    /\ pending \in BOOLEAN /\ queued \in BOOLEAN
    /\ jobs \in [Host -> SUBSET Poster]
    /\ pc \in [Poster -> PosterPC]
    /\ what \in [Poster -> {"app", "exit"}]
    /\ target \in [Poster -> Host \cup {None}]
    /\ asked \in SUBSET Host /\ crashed \in SUBSET Host

\* post_wake: "ALIVE is set only between bluecaster_runloop_init() and the run
\* loop's teardown, which waits for WAKERS to drop to zero first": no thread is
\* inside bluecaster_wake while there is no run loop.
WakeInLoop ==
    \A p \in Poster : pc[p] \in {"wake", "queue"} => \E h \in Host : SetUp(h)

\* shim.c: "the registration is a list element and must not be added twice",
\* also when several threads wake at once and across runs.
AddedOnce ==
    \A p \in Poster : pc[p] = "queue" =>
        ~queued /\ \A q \in Poster : pc[q] = "queue" => p = q

\* A wake is on its way to the run loop
Coming == queued \/ \E p \in Poster : pc[p] \in {"flag", "add", "load", "wake", "queue"}

\* Remote::wake, "Wakes before that are merged into one": a merged wake is
\* not a lost one.  While the run loop of h waits, a job sent to it and an
\* exit asked of it have a wake on its way.
NothingLost ==
    \A h \in Host : run[h] = "loop" /\ ~exit =>
        /\ jobs[h] # {} => Coming
        /\ owner[h] = "ending" => Coming

\* One run loop per process, whatever overlaps.
OneLoop == \A g, h \in Host : run[g] \in RunPC \ {"none", "start", "refused", "done"}
                           /\ run[h] \in RunPC \ {"none", "start", "refused", "done"} => g = h

\* Remote::request_exit: "Stops the run loop: run returns after shutting
\* BTstack down".
ExitEnds == \A h \in Host : []<>(owner[h] = "ending" => run[h] = "done")

\* BtHost::shutdown "stops the BTstack thread" of this host: a run loop ends
\* only when its owner asked for it or one of its own callbacks panicked.
ExitIsOwn ==
    \A h \in Host : run[h] \in {"exiting", "closing", "deinit", "done"} => h \in asked \cup crashed
=============================================================================
