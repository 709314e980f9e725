----------------------------- MODULE WorkerPool -----------------------------
(***************************************************************************)
(* The bounded worker pool of the fabric runtime (WorkerPool in            *)
(* runtime/fabric.cpp): a deque of jobs under one mutex, worker threads    *)
(* that sleep on work_available_, callers that sleep on idle_ in drain(),  *)
(* and a stop that either runs the queued jobs first (shutdown) or throws  *)
(* them away (abort).                                                      *)
(*                                                                         *)
(* Every critical section of the pool mutex is one action.  A notify that  *)
(* the code issues after it has released the mutex is an action of its     *)
(* own.  A job is opaque here: it runs from Take to Finish.                *)
(***************************************************************************)
EXTENDS Naturals, Sequences, FiniteSets

CONSTANTS
    Workers,    \* the worker threads start() spawns
    Threads,    \* the other threads, which call into the pool
    Jobs,       \* the work items; each is submitted at most once
    NoJob,      \* what a worker that runs nothing holds
    Capacity    \* capacity_, the bound on the queue

ASSUME PoolAssumption ==
    /\ IsFiniteSet(Workers)
    /\ Workers # {}
    /\ NoJob \notin Jobs
    /\ Capacity \in Nat \ {0}

VARIABLES
    queue,      \* queue_
    active,     \* active_
    stopping,   \* stopping_
    discard,    \* discard_
    started,    \* started_
    accepted,   \* the jobs submit() has accepted (history)
    completed,  \* the jobs completed_ counts
    discarded,  \* the jobs discarded_ counts
    wstate,     \* where each worker is in worker_loop
    wjob,       \* the job each worker runs
    tstate      \* where each calling thread is in a pool call

poolVars == <<queue, active, stopping, discard, started, accepted, completed,
              discarded, wstate, wjob, tstate>>

WorkerStates == {"loop", "asleep", "job", "leaving", "exited"}
ThreadStates == {"out", "notify", "drain", "parked", "halt", "join"}

Queued == {queue[i] : i \in 1..Len(queue)}
Running == {w \in Workers : wstate[w] = "job"}
Asleep == {w \in Workers : wstate[w] = "asleep"}

-----------------------------------------------------------------------------
(* A pool that start() has just returned from. *)
PoolInit ==
    /\ queue = <<>>
    /\ active = 0
    /\ stopping = FALSE
    /\ discard = FALSE
    /\ started = TRUE
    /\ accepted = {}
    /\ completed = {}
    /\ discarded = {}
    /\ wstate = [w \in Workers |-> "loop"]
    /\ wjob = [w \in Workers |-> NoJob]
    /\ tstate = [t \in Threads |-> "out"]

(* start() on a pool that has been stopped: the flags are reset under the   *)
(* mutex and fresh threads enter worker_loop before started_ is set.        *)
Start(t) ==
    /\ tstate[t] = "out"
    /\ ~started
    /\ stopping' = FALSE
    /\ discard' = FALSE
    /\ started' = TRUE
    /\ wstate' = [w \in Workers |-> "loop"]
    /\ UNCHANGED <<queue, active, accepted, completed, discarded, wjob, tstate>>

-----------------------------------------------------------------------------
(* submit(): the conditions under which the job is pushed.                  *)
CanSubmit == started /\ ~stopping /\ Len(queue) < Capacity

Submit(t, j) ==
    /\ tstate[t] = "out"
    /\ j \notin accepted
    /\ CanSubmit
    /\ queue' = Append(queue, j)
    /\ accepted' = accepted \cup {j}
    /\ tstate' = [tstate EXCEPT ![t] = "notify"]
    /\ UNCHANGED <<active, stopping, discard, started, completed, discarded, wstate, wjob>>

(* Mutant: submit() does not notify.                                        *)
NotifyNone(t) ==
    /\ tstate[t] = "notify"
    /\ tstate' = [tstate EXCEPT ![t] = "out"]
    /\ UNCHANGED <<queue, active, stopping, discard, started, accepted, completed,
                   discarded, wstate, wjob>>

(* work_available_.notify_one(), after submit() has released the mutex.     *)
NotifyOne(t) ==
    /\ tstate[t] = "notify"
    /\ tstate' = [tstate EXCEPT ![t] = "out"]
    /\ \/ /\ Asleep = {}
          /\ UNCHANGED wstate
       \/ \E w \in Asleep : wstate' = [wstate EXCEPT ![w] = "loop"]
    /\ UNCHANGED <<queue, active, stopping, discard, started, accepted, completed,
                   discarded, wjob>>

-----------------------------------------------------------------------------
(* Mutant: the wait has no predicate.                                       *)
SleepBlindly(w) ==
    /\ wstate[w] = "loop"
    /\ ~stopping
    /\ wstate' = [wstate EXCEPT ![w] = "asleep"]
    /\ UNCHANGED <<queue, active, stopping, discard, started, accepted, completed,
                   discarded, wjob, tstate>>

(* worker_loop.  The predicate of the wait is false: the worker sleeps.     *)
Sleep(w) ==
    /\ wstate[w] = "loop"
    /\ ~stopping
    /\ queue = <<>>
    /\ wstate' = [wstate EXCEPT ![w] = "asleep"]
    /\ UNCHANGED <<queue, active, stopping, discard, started, accepted, completed,
                   discarded, wjob, tstate>>

(* A condition variable may wake its waiter for no reason.                  *)
SpuriousWake(w) ==
    /\ wstate[w] = "asleep"
    /\ wstate' = [wstate EXCEPT ![w] = "loop"]
    /\ UNCHANGED <<queue, active, stopping, discard, started, accepted, completed,
                   discarded, wjob, tstate>>

(* Mutants: active_ is not incremented; the job is copied, not moved out.   *)
TakeUncounted(w) ==
    /\ wstate[w] = "loop"
    /\ queue # <<>>
    /\ ~discard
    /\ wjob' = [wjob EXCEPT ![w] = Head(queue)]
    /\ queue' = Tail(queue)
    /\ wstate' = [wstate EXCEPT ![w] = "job"]
    /\ UNCHANGED <<active, stopping, discard, started, accepted, completed, discarded,
                   tstate>>

TakeWithoutPop(w) ==
    /\ wstate[w] = "loop"
    /\ queue # <<>>
    /\ ~discard
    /\ wjob' = [wjob EXCEPT ![w] = Head(queue)]
    /\ active' = active + 1
    /\ wstate' = [wstate EXCEPT ![w] = "job"]
    /\ UNCHANGED <<queue, stopping, discard, started, accepted, completed, discarded,
                   tstate>>

(* The worker moves the front of the queue out and counts itself active.    *)
Take(w) ==
    /\ wstate[w] = "loop"
    /\ queue # <<>>
    /\ ~discard
    /\ wjob' = [wjob EXCEPT ![w] = Head(queue)]
    /\ queue' = Tail(queue)
    /\ active' = active + 1
    /\ wstate' = [wstate EXCEPT ![w] = "job"]
    /\ UNCHANGED <<stopping, discard, started, accepted, completed, discarded, tstate>>

(* The waiters on idle_ that a notify_all wakes; each rechecks its predicate. *)
WakeIdle == [t \in Threads |-> IF tstate[t] = "parked" THEN "drain" ELSE tstate[t]]

(* Mutants: the job is dropped before it is counted; idle_ is notified      *)
(* before active_ is decremented.                                           *)
FinishDropsFirst(w) ==
    /\ wstate[w] = "job"
    /\ active' = IF active > 0 THEN active - 1 ELSE active
    /\ wjob' = [wjob EXCEPT ![w] = NoJob]
    /\ completed' = completed \cup {wjob'[w]}
    /\ wstate' = [wstate EXCEPT ![w] = "loop"]
    /\ tstate' = IF queue = <<>> /\ active' = 0 THEN WakeIdle ELSE tstate
    /\ UNCHANGED <<queue, stopping, discard, started, accepted, discarded>>

FinishNotifiesEarly(w) ==
    /\ wstate[w] = "job"
    /\ active' = IF active > 0 THEN active - 1 ELSE active
    /\ completed' = completed \cup {wjob[w]}
    /\ wjob' = [wjob EXCEPT ![w] = NoJob]
    /\ wstate' = [wstate EXCEPT ![w] = "loop"]
    /\ tstate' = IF queue = <<>> /\ active = 0 THEN WakeIdle ELSE tstate
    /\ UNCHANGED <<queue, stopping, discard, started, accepted, discarded>>

(* After job(): active_ is decremented unless it is zero, the job is        *)
(* counted, and idle_ is notified when nothing is queued or running.        *)
Finish(w) ==
    /\ wstate[w] = "job"
    /\ active' = IF active > 0 THEN active - 1 ELSE active
    /\ completed' = completed \cup {wjob[w]}
    /\ wjob' = [wjob EXCEPT ![w] = NoJob]
    /\ wstate' = [wstate EXCEPT ![w] = "loop"]
    /\ tstate' = IF queue = <<>> /\ active' = 0 THEN WakeIdle ELSE tstate
    /\ UNCHANGED <<queue, stopping, discard, started, accepted, discarded>>

(* The worker leaves the loop: the queue is empty, or it is thrown away.    *)
Leave(w) ==
    /\ wstate[w] = "loop"
    /\ stopping
    /\ queue = <<>> \/ discard
    /\ queue' = <<>>
    /\ discarded' = discarded \cup Queued
    /\ wstate' = [wstate EXCEPT ![w] = "leaving"]
    /\ UNCHANGED <<active, stopping, discard, started, accepted, completed, wjob, tstate>>

(* Mutant: worker_loop ends without the notify_all.                         *)
ExitSilently(w) ==
    /\ wstate[w] = "leaving"
    /\ wstate' = [wstate EXCEPT ![w] = "exited"]
    /\ UNCHANGED <<queue, active, stopping, discard, started, accepted, completed,
                   discarded, wjob, tstate>>

(* The last critical section of worker_loop: idle_.notify_all().            *)
Exit(w) ==
    /\ wstate[w] = "leaving"
    /\ wstate' = [wstate EXCEPT ![w] = "exited"]
    /\ tstate' = WakeIdle
    /\ UNCHANGED <<queue, active, stopping, discard, started, accepted, completed,
                   discarded, wjob>>

-----------------------------------------------------------------------------
(* drain(): the call, then the wait on idle_ until nothing is queued or     *)
(* running.                                                                 *)
Drain(t) ==
    /\ tstate[t] = "out"
    /\ tstate' = [tstate EXCEPT ![t] = "drain"]
    /\ UNCHANGED <<queue, active, stopping, discard, started, accepted, completed,
                   discarded, wstate, wjob>>

IsIdle == queue = <<>> /\ active = 0

DrainCheck(t) ==
    /\ tstate[t] = "drain"
    /\ tstate' = [tstate EXCEPT ![t] = IF IsIdle THEN "out" ELSE "parked"]
    /\ UNCHANGED <<queue, active, stopping, discard, started, accepted, completed,
                   discarded, wstate, wjob>>

-----------------------------------------------------------------------------
(* shutdown() (throwAway FALSE) and abort() (throwAway TRUE).  Two threads  *)
(* never stop the pool at the same time: the fabric calls abort() behind an *)
(* atomic exchange, and join() on a thread being joined is undefined.       *)
NobodyStops == \A u \in Threads : tstate[u] \notin {"halt", "join"}

Stop(t, throwAway) ==
    /\ tstate[t] = "out"
    /\ started
    /\ NobodyStops
    /\ stopping' = TRUE
    /\ discard' = (discard \/ throwAway)
    /\ queue' = IF throwAway THEN <<>> ELSE queue
    /\ discarded' = IF throwAway THEN discarded \cup Queued ELSE discarded
    /\ tstate' = [tstate EXCEPT ![t] = "halt"]
    /\ UNCHANGED <<active, started, accepted, completed, wstate, wjob>>

(* Mutant: the sleeping workers are not woken.                              *)
NotifyNobody(t) ==
    /\ tstate[t] = "halt"
    /\ tstate' = [tstate EXCEPT ![t] = "join"]
    /\ UNCHANGED <<queue, active, stopping, discard, started, accepted, completed,
                   discarded, wstate, wjob>>

(* work_available_.notify_all(), after the mutex has been released.         *)
NotifyAll(t) ==
    /\ tstate[t] = "halt"
    /\ tstate' = [tstate EXCEPT ![t] = "join"]
    /\ wstate' = [w \in Workers |-> IF wstate[w] = "asleep" THEN "loop" ELSE wstate[w]]
    /\ UNCHANGED <<queue, active, stopping, discard, started, accepted, completed,
                   discarded, wjob>>

(* Every thread has been joined; the pool is no longer started.             *)
Join(t) ==
    /\ tstate[t] = "join"
    /\ \A w \in Workers : wstate[w] = "exited"
    /\ started' = FALSE
    /\ tstate' = [tstate EXCEPT ![t] = "out"]
    /\ UNCHANGED <<queue, active, stopping, discard, accepted, completed, discarded,
                   wstate, wjob>>

-----------------------------------------------------------------------------
WorkerStep(w) == Sleep(w) \/ Take(w) \/ Leave(w) \/ Exit(w)

(* The steps a thread inside a pool call takes without being asked again.   *)
ThreadStep(t) == NotifyOne(t) \/ DrainCheck(t) \/ NotifyAll(t) \/ Join(t)

PoolNext ==
    \/ \E w \in Workers : WorkerStep(w) \/ Finish(w) \/ SpuriousWake(w)
    \/ \E t \in Threads :
        \/ ThreadStep(t)
        \/ Start(t)
        \/ Drain(t)
        \/ \E j \in Jobs : Submit(t, j)
        \/ \E throwAway \in BOOLEAN : Stop(t, throwAway)

PoolSpec == PoolInit /\ [][PoolNext]_poolVars

(* Worker threads are scheduled, a job returns, and a thread inside a pool  *)
(* call is scheduled.  Nobody is obliged to call the pool.                  *)
PoolFairness ==
    /\ \A w \in Workers : WF_poolVars(WorkerStep(w)) /\ WF_poolVars(Finish(w))
    /\ \A t \in Threads : WF_poolVars(ThreadStep(t))

FairPoolSpec == PoolSpec /\ PoolFairness

-----------------------------------------------------------------------------
(* Properties *)

(* The types of the pool's fields and of the threads' positions.            *)
PoolTypeOK ==
    /\ queue \in Seq(Jobs)
    /\ active \in Nat
    /\ stopping \in BOOLEAN
    /\ discard \in BOOLEAN
    /\ started \in BOOLEAN
    /\ accepted \subseteq Jobs
    /\ completed \subseteq Jobs
    /\ discarded \subseteq Jobs
    /\ wstate \in [Workers -> WorkerStates]
    /\ wjob \in [Workers -> Jobs \cup {NoJob}]
    /\ tstate \in [Threads -> ThreadStates]

(* active_ is the number of workers inside a job, whatever the order of the *)
(* takes, finishes and stops: drain() may rely on it, and the test for zero *)
(* before the decrement in worker_loop never matters.                       *)
ActiveIsExact == active = Cardinality(Running)

(* A job submit() has accepted is in exactly one place: queued once, run by *)
(* one worker, counted in completed_, or counted in discarded_.  No stop,   *)
(* restart or race of two workers loses a job or runs it twice.             *)
JobsConserved ==
    LET held == {wjob[w] : w \in Running}
    IN  /\ accepted = Queued \cup held \cup completed \cup discarded
        /\ \A i, j \in 1..Len(queue) : i # j => queue[i] # queue[j]
        /\ \A v, w \in Running : v # w => wjob[v] # wjob[w]
        /\ Queued \cap held = {}
        /\ (Queued \cup held) \cap (completed \cup discarded) = {}
        /\ completed \cap discarded = {}

(* While a job is queued, a worker is awake, or a thread still has to issue *)
(* the notify of its submit() or of its stop: no wakeup of work_available_  *)
(* is lost although both notifies are sent outside the mutex.               *)
NoLostWakeup ==
    queue # <<>> =>
        \/ \E w \in Workers : wstate[w] \in {"loop", "job"}
        \/ \E t \in Threads : tstate[t] \in {"notify", "halt"}

(* A thread parked on idle_ in drain() is owed a notify: something is       *)
(* queued or running, or a worker of a stopping pool has not yet passed the *)
(* notify_all with which worker_loop ends.                                  *)
NoLostIdle ==
    (\E t \in Threads : tstate[t] = "parked") =>
        \/ ~IsIdle
        \/ stopping /\ \E w \in Workers : wstate[w] # "exited"

(* Once shutdown() or abort() has joined the workers, no job is left in the *)
(* queue and none is running.                                               *)
StoppedPoolIsEmpty == ~started => queue = <<>> /\ Running = {}

(* A thread that calls drain() returns from it.                             *)
DrainReturns == \A t \in Threads : tstate[t] = "drain" ~> tstate[t] = "out"

(* A stop, once begun, joins every worker and returns.                      *)
StopReturns == \A t \in Threads : tstate[t] = "halt" ~> tstate[t] = "out"

(* Every job submit() accepts is run or thrown away by an abort().          *)
AcceptedJobEnds == \A j \in Jobs : j \in accepted ~> j \in completed \cup discarded
=============================================================================
