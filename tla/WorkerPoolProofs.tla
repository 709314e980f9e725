-------------------------- MODULE WorkerPoolProofs --------------------------
(***************************************************************************)
(* Proofs about the worker pool, for any number of workers, of calling     *)
(* threads and of jobs, and for any queue capacity.                        *)
(*                                                                         *)
(* The invariants the runs check are not inductive by themselves: what     *)
(* they leave open is how a stop proceeds.  StopProtocol says it, and the  *)
(* rest follows from it and from the type invariant.                       *)
(***************************************************************************)
EXTENDS WorkerPool, FiniteSetTheorems, TLAPS

-----------------------------------------------------------------------------
(* The strengthening *)

(* A worker holds a job exactly while it runs one.                          *)
WorkersHold == \A w \in Workers : wstate[w] = "job" <=> wjob[w] # NoJob

Stopping(t) == tstate[t] \in {"halt", "join"}
Gone(w) == wstate[w] \in {"leaving", "exited"}

(* A worker leaves only an empty queue of a stopping pool; one thread at a  *)
(* time stops a started pool, and a pool that is not started has joined     *)
(* every worker.                                                            *)
StopProtocol ==
    /\ \A w \in Workers : Gone(w) => stopping /\ queue = <<>>
    /\ discard => stopping /\ queue = <<>>
    /\ ~started => stopping /\ \A w \in Workers : wstate[w] = "exited"
    /\ \A t \in Threads : Stopping(t) => stopping /\ started
    /\ \A t, u \in Threads : Stopping(t) /\ Stopping(u) => t = u
    /\ stopping /\ started => \E t \in Threads : Stopping(t)

PoolInv == PoolTypeOK /\ WorkersHold /\ StopProtocol

-----------------------------------------------------------------------------
(* Type correctness *)

(* PoolInit establishes the types and who holds a job.                      *)
LEMMA TypesInit == PoolInit => PoolTypeOK /\ WorkersHold
<1> SUFFICES ASSUME PoolInit PROVE PoolTypeOK /\ WorkersHold
  OBVIOUS
<1>1. queue \in Seq(Jobs) /\ active \in Nat
  BY DEF PoolInit
<1>2. wstate \in [Workers -> WorkerStates] /\ tstate \in [Threads -> ThreadStates]
  BY DEF PoolInit, WorkerStates, ThreadStates
<1>3. PoolTypeOK
  BY <1>1, <1>2, Zenon DEF PoolInit, PoolTypeOK
<1>4. WorkersHold
  BY DEF PoolInit, WorkersHold
<1> QED
  BY <1>3, <1>4

(* Every step of the pool keeps the types.  A job is counted only because   *)
(* the worker holds one, which is why WorkersHold is needed, and start()    *)
(* finds no worker with a job because the last stop has joined them.        *)
LEMMA TypesStep == PoolInv /\ [PoolNext]_poolVars => PoolTypeOK' /\ WorkersHold'
<1> SUFFICES ASSUME PoolTypeOK, WorkersHold, StopProtocol, [PoolNext]_poolVars
             PROVE PoolTypeOK' /\ WorkersHold'
  BY DEF PoolInv
<1> USE PoolAssumption DEF PoolTypeOK, WorkersHold, WorkerStates, ThreadStates
<1>q. Queued \subseteq Jobs
  BY DEF Queued
<1>1. CASE UNCHANGED poolVars
  BY <1>1 DEF poolVars
<1>2. ASSUME NEW w \in Workers, Sleep(w) \/ SpuriousWake(w) \/ Exit(w)
      PROVE PoolTypeOK' /\ WorkersHold'
  BY <1>2 DEF Sleep, SpuriousWake, Exit, WakeIdle
<1>3. ASSUME NEW w \in Workers, Take(w) PROVE PoolTypeOK' /\ WorkersHold'
  BY <1>3 DEF Take
<1>4. ASSUME NEW w \in Workers, Leave(w) PROVE PoolTypeOK' /\ WorkersHold'
  BY <1>4, <1>q DEF Leave
<1>5. ASSUME NEW w \in Workers, Finish(w) PROVE PoolTypeOK' /\ WorkersHold'
  BY <1>5 DEF Finish, WakeIdle
<1>6. ASSUME NEW t \in Threads, NotifyOne(t) \/ DrainCheck(t) \/ NotifyAll(t) \/ Join(t)
      PROVE PoolTypeOK' /\ WorkersHold'
  BY <1>6 DEF NotifyOne, DrainCheck, NotifyAll, Join, Asleep
<1>7. ASSUME NEW t \in Threads, Drain(t) PROVE PoolTypeOK' /\ WorkersHold'
  BY <1>7 DEF Drain
<1>8. ASSUME NEW t \in Threads, NEW j \in Jobs, Submit(t, j)
      PROVE PoolTypeOK' /\ WorkersHold'
  BY <1>8 DEF Submit
<1>9. ASSUME NEW t \in Threads, NEW b \in BOOLEAN, Stop(t, b)
      PROVE PoolTypeOK' /\ WorkersHold'
  BY <1>9, <1>q DEF Stop
<1>10. ASSUME NEW t \in Threads, Start(t) PROVE PoolTypeOK' /\ WorkersHold'
  BY <1>10 DEF Start, StopProtocol
<1> QED
  BY <1>1, <1>2, <1>3, <1>4, <1>5, <1>6, <1>7, <1>8, <1>9, <1>10
     DEF PoolNext, WorkerStep, ThreadStep

-----------------------------------------------------------------------------
(* How a stop proceeds *)

LEMMA StopInit == PoolInit => StopProtocol
BY DEF PoolInit, StopProtocol, Gone, Stopping

(* One step for each action; most conjuncts of StopProtocol follow from the *)
(* action's own guard.                                                      *)
LEMMA StopStep == PoolInv /\ [PoolNext]_poolVars => StopProtocol'
<1> SUFFICES ASSUME PoolTypeOK, StopProtocol, [PoolNext]_poolVars
             PROVE StopProtocol'
  BY DEF PoolInv
<1> USE PoolAssumption DEF PoolTypeOK, WorkerStates, ThreadStates, StopProtocol, Gone, Stopping
<1>1. CASE UNCHANGED poolVars
  BY <1>1 DEF poolVars
<1>2. ASSUME NEW w \in Workers, Sleep(w) \/ SpuriousWake(w) \/ Exit(w) PROVE StopProtocol'
  BY <1>2 DEF Sleep, SpuriousWake, Exit, WakeIdle
<1>3. ASSUME NEW w \in Workers, Take(w) PROVE StopProtocol'
  BY <1>3 DEF Take
<1>4. ASSUME NEW w \in Workers, Leave(w) PROVE StopProtocol'
  BY <1>4 DEF Leave
<1>5. ASSUME NEW w \in Workers, Finish(w) PROVE StopProtocol'
  BY <1>5 DEF Finish, WakeIdle
<1>6. ASSUME NEW t \in Threads, NotifyOne(t) \/ Drain(t) \/ DrainCheck(t)
      PROVE StopProtocol'
  BY <1>6 DEF NotifyOne, Drain, DrainCheck, Asleep
<1>7. ASSUME NEW t \in Threads, NotifyAll(t) PROVE StopProtocol'
  BY <1>7 DEF NotifyAll
<1>8. ASSUME NEW t \in Threads, Join(t) PROVE StopProtocol'
  BY <1>8 DEF Join
<1>9. ASSUME NEW t \in Threads, NEW j \in Jobs, Submit(t, j) PROVE StopProtocol'
  BY <1>9 DEF Submit, CanSubmit
<1>10. ASSUME NEW t \in Threads, NEW b \in BOOLEAN, Stop(t, b) PROVE StopProtocol'
  BY <1>10 DEF Stop, NobodyStops
<1>11. ASSUME NEW t \in Threads, Start(t) PROVE StopProtocol'
  BY <1>11 DEF Start
<1> QED
  BY <1>1, <1>2, <1>3, <1>4, <1>5, <1>6, <1>7, <1>8, <1>9, <1>10, <1>11
     DEF PoolNext, WorkerStep, ThreadStep

LEMMA PoolInvInit == PoolInit => PoolInv
BY TypesInit, StopInit DEF PoolInv

LEMMA PoolInvStep == PoolInv /\ [PoolNext]_poolVars => PoolInv'
BY TypesStep, StopStep DEF PoolInv

(* The inductive invariant of the pool: types, who holds a job, and how     *)
(* shutdown() and abort() proceed against worker_loop.                      *)
THEOREM PoolInvariant == PoolSpec => []PoolInv
BY PoolInvInit, PoolInvStep, PTL DEF PoolSpec

(* The pool's fields and positions keep their types, from start() on,       *)
(* through every step of worker_loop, submit(), drain(), shutdown() and     *)
(* abort(), and through restarts.                                           *)
THEOREM PoolTypeCorrect == PoolSpec => []PoolTypeOK
<1>1. PoolInv => PoolTypeOK
  BY DEF PoolInv
<1> QED
  BY <1>1, PoolInvariant, PTL

(* After shutdown() or abort() has joined the workers nothing is queued and *)
(* nothing runs.                                                            *)
THEOREM StoppedPoolEmpty == PoolSpec => []StoppedPoolIsEmpty
<1>1. PoolInv => StoppedPoolIsEmpty
  BY PoolAssumption DEF PoolInv, StopProtocol, Gone, StoppedPoolIsEmpty, Running
<1> QED
  BY <1>1, PoolInvariant, PTL

-----------------------------------------------------------------------------
(* Wakeups *)

LEMMA WakeupStep == PoolInv /\ NoLostWakeup /\ [PoolNext]_poolVars => NoLostWakeup'
<1> SUFFICES ASSUME PoolTypeOK, StopProtocol, NoLostWakeup, [PoolNext]_poolVars
             PROVE NoLostWakeup'
  BY DEF PoolInv
<1> USE PoolAssumption DEF PoolTypeOK, WorkerStates, ThreadStates, NoLostWakeup
<1>1. CASE UNCHANGED poolVars
  BY <1>1 DEF poolVars
<1>2. ASSUME NEW w \in Workers, Sleep(w) \/ SpuriousWake(w) \/ Take(w) \/ Leave(w)
      PROVE NoLostWakeup'
  BY <1>2 DEF Sleep, SpuriousWake, Take, Leave
<1>3. ASSUME NEW w \in Workers, Exit(w) PROVE NoLostWakeup'
  BY <1>3 DEF Exit, StopProtocol, Gone
<1>4. ASSUME NEW w \in Workers, Finish(w) PROVE NoLostWakeup'
  BY <1>4 DEF Finish
<1>5. ASSUME NEW t \in Threads, NotifyOne(t) PROVE NoLostWakeup'
  <2>1. CASE Asleep = {} /\ UNCHANGED wstate
    <3>1. queue # <<>> => \A w \in Workers : wstate[w] \in {"loop", "job"}
      BY <2>1 DEF Asleep, StopProtocol, Gone
    <3> QED
      BY <1>5, <2>1, <3>1 DEF NotifyOne
  <2>2. CASE \E w \in Asleep : wstate' = [wstate EXCEPT ![w] = "loop"]
    BY <2>2 DEF Asleep
  <2> QED
    BY <1>5, <2>1, <2>2 DEF NotifyOne
<1>6. ASSUME NEW t \in Threads, Drain(t) \/ DrainCheck(t) PROVE NoLostWakeup'
  BY <1>6 DEF Drain, DrainCheck
<1>7. ASSUME NEW t \in Threads, NotifyAll(t) PROVE NoLostWakeup'
  BY <1>7 DEF NotifyAll, StopProtocol, Gone
<1>8. ASSUME NEW t \in Threads, Join(t) \/ Start(t) PROVE NoLostWakeup'
  BY <1>8 DEF Join, Start, StopProtocol, Gone
<1>9. ASSUME NEW t \in Threads, NEW j \in Jobs, Submit(t, j) PROVE NoLostWakeup'
  BY <1>9 DEF Submit
<1>10. ASSUME NEW t \in Threads, NEW b \in BOOLEAN, Stop(t, b) PROVE NoLostWakeup'
  BY <1>10 DEF Stop
<1> QED
  BY <1>1, <1>2, <1>3, <1>4, <1>5, <1>6, <1>7, <1>8, <1>9, <1>10
     DEF PoolNext, WorkerStep, ThreadStep

(* submit() and the stops notify work_available_ after they have released   *)
(* the mutex; no job is left queued with every worker asleep or gone and    *)
(* nobody about to notify.                                                  *)
THEOREM WakeupNeverLost == PoolSpec => []NoLostWakeup
<1>1. PoolInit => NoLostWakeup
  BY DEF PoolInit, NoLostWakeup
<1> QED
  BY <1>1, WakeupStep, PoolInvariant, PTL DEF PoolSpec

-----------------------------------------------------------------------------
(* The count of running jobs *)

(* Adding to and removing from a set of workers moves its size by one.      *)
LEMMA RunningCount ==
    ASSUME NEW R, IsFiniteSet(R), NEW w
    PROVE  /\ Cardinality(R) \in Nat
           /\ w \notin R => Cardinality(R \cup {w}) = Cardinality(R) + 1
           /\ w \in R => Cardinality(R \ {w}) = Cardinality(R) - 1 /\ Cardinality(R) > 0
<1>1. Cardinality(R) \in Nat
  BY FS_CardinalityType
<1>2. w \notin R => Cardinality(R \cup {w}) = Cardinality(R) + 1
  BY FS_AddElement
<1>3. w \in R => Cardinality(R \ {w}) = Cardinality(R) - 1
  BY FS_RemoveElement
<1>4. w \in R => Cardinality(R) # 0
  BY FS_EmptySet
<1> QED
  BY <1>1, <1>2, <1>3, <1>4

LEMMA ActiveStep == PoolInv /\ ActiveIsExact /\ [PoolNext]_poolVars => ActiveIsExact'
<1> SUFFICES ASSUME PoolTypeOK, StopProtocol, ActiveIsExact, [PoolNext]_poolVars
             PROVE ActiveIsExact'
  BY DEF PoolInv
<1> USE DEF PoolTypeOK, WorkerStates, ThreadStates, ActiveIsExact
<1>f. IsFiniteSet(Running)
  BY PoolAssumption, FS_Subset DEF Running
<1>1. ASSUME Running' = Running, active' = active PROVE ActiveIsExact'
  BY <1>1
<1>2. CASE UNCHANGED poolVars
  BY <1>1, <1>2 DEF poolVars, Running
<1>3. ASSUME NEW w \in Workers, Sleep(w) \/ SpuriousWake(w) \/ Leave(w) \/ Exit(w)
      PROVE ActiveIsExact'
  BY <1>1, <1>3 DEF Sleep, SpuriousWake, Leave, Exit, Running
<1>4. ASSUME NEW w \in Workers, Take(w) PROVE ActiveIsExact'
  <2>1. w \notin Running /\ Running' = Running \cup {w}
    BY <1>4 DEF Take, Running
  <2> QED
    BY <1>4, <1>f, <2>1, RunningCount DEF Take
<1>5. ASSUME NEW w \in Workers, Finish(w) PROVE ActiveIsExact'
  <2>1. w \in Running /\ Running' = Running \ {w}
    BY <1>5 DEF Finish, Running
  <2> QED
    BY <1>5, <1>f, <2>1, RunningCount DEF Finish
<1>6. ASSUME NEW t \in Threads, ThreadStep(t) \/ Drain(t) PROVE ActiveIsExact'
  BY <1>1, <1>6
     DEF ThreadStep, NotifyOne, DrainCheck, NotifyAll, Join, Drain, Running, Asleep
<1>7. ASSUME NEW t \in Threads, Start(t) PROVE ActiveIsExact'
  BY <1>1, <1>7 DEF Start, StopProtocol, Running
<1>8. ASSUME NEW t \in Threads, NEW j \in Jobs, Submit(t, j) PROVE ActiveIsExact'
  BY <1>1, <1>8 DEF Submit, Running
<1>9. ASSUME NEW t \in Threads, NEW b \in BOOLEAN, Stop(t, b) PROVE ActiveIsExact'
  BY <1>1, <1>9 DEF Stop, Running
<1> QED
  BY <1>2, <1>3, <1>4, <1>5, <1>6, <1>7, <1>8, <1>9 DEF PoolNext, WorkerStep

(* active_ counts exactly the workers that are inside a job.                *)
THEOREM ActiveCorrect == PoolSpec => []ActiveIsExact
<1>1. PoolInit => ActiveIsExact
  <2> SUFFICES ASSUME PoolInit PROVE ActiveIsExact
    OBVIOUS
  <2>1. Running = {} /\ active = 0
    BY DEF PoolInit, Running
  <2> QED
    BY <2>1, FS_EmptySet DEF ActiveIsExact
<1> QED
  BY <1>1, ActiveStep, PoolInvariant, PTL DEF PoolSpec

-----------------------------------------------------------------------------
(* Waiters on idle_ *)

LEMMA IdleStep ==
    PoolInv /\ ActiveIsExact /\ NoLostIdle /\ [PoolNext]_poolVars => NoLostIdle'
<1> SUFFICES ASSUME PoolTypeOK, StopProtocol, ActiveIsExact, NoLostIdle,
                    [PoolNext]_poolVars
             PROVE NoLostIdle'
  BY DEF PoolInv
<1> USE DEF PoolTypeOK, WorkerStates, ThreadStates, NoLostIdle, IsIdle
<1>f. IsFiniteSet(Running)
  BY PoolAssumption, FS_Subset DEF Running
<1>e. ASSUME \A w \in Workers : wstate[w] = "exited"
      PROVE \A t \in Threads : tstate[t] # "parked"
  <2>1. Running = {}
    BY <1>e DEF Running
  <2>2. active = 0
    BY <2>1, FS_EmptySet DEF ActiveIsExact
  <2>3. queue = <<>>
    BY <1>e, PoolAssumption DEF StopProtocol, Gone
  <2> QED
    BY <1>e, <2>2, <2>3
<1>1. CASE UNCHANGED poolVars
  BY <1>1 DEF poolVars
<1>2. ASSUME NEW w \in Workers, Sleep(w) \/ SpuriousWake(w) PROVE NoLostIdle'
  BY <1>2 DEF Sleep, SpuriousWake
<1>3. ASSUME NEW w \in Workers, Take(w) PROVE NoLostIdle'
  BY <1>3 DEF Take
<1>4. ASSUME NEW w \in Workers, Leave(w) PROVE NoLostIdle'
  BY <1>4 DEF Leave
<1>5. ASSUME NEW w \in Workers, Exit(w) PROVE NoLostIdle'
  BY <1>5 DEF Exit, WakeIdle
<1>6. ASSUME NEW w \in Workers, Finish(w) PROVE NoLostIdle'
  <2>1. CASE queue = <<>> /\ active' = 0
    BY <1>6, <2>1 DEF Finish, WakeIdle
  <2>2. CASE ~(queue = <<>> /\ active' = 0)
    BY <1>6, <2>2 DEF Finish
  <2> QED
    BY <2>1, <2>2
<1>7. ASSUME NEW t \in Threads, NotifyOne(t) \/ Drain(t) \/ DrainCheck(t)
      PROVE NoLostIdle'
  BY <1>7 DEF NotifyOne, Drain, DrainCheck, Asleep
<1>8. ASSUME NEW t \in Threads, NotifyAll(t) PROVE NoLostIdle'
  BY <1>8 DEF NotifyAll
<1>9. ASSUME NEW t \in Threads, Join(t) PROVE NoLostIdle'
  BY <1>9, <1>e DEF Join
<1>10. ASSUME NEW t \in Threads, Start(t) PROVE NoLostIdle'
  BY <1>10, <1>e DEF Start, StopProtocol
<1>11. ASSUME NEW t \in Threads, NEW j \in Jobs, Submit(t, j) PROVE NoLostIdle'
  BY <1>11 DEF Submit
<1>12. ASSUME NEW t \in Threads, NEW b \in BOOLEAN, Stop(t, b) PROVE NoLostIdle'
  <2>1. ~stopping
    BY <1>12 DEF Stop, NobodyStops, StopProtocol, Stopping
  <2>2. \E w \in Workers : wstate[w] # "exited"
    BY <2>1, PoolAssumption DEF StopProtocol, Gone
  <2> QED
    BY <1>12, <2>2 DEF Stop
<1> QED
  BY <1>1, <1>2, <1>3, <1>4, <1>5, <1>6, <1>7, <1>8, <1>9, <1>10, <1>11, <1>12
     DEF PoolNext, WorkerStep, ThreadStep

(* A thread that waits in drain() is owed a notify of idle_, even when an   *)
(* abort() has emptied the queue under it.                                  *)
THEOREM IdleNeverLost == PoolSpec => []NoLostIdle
<1>1. PoolInit => NoLostIdle
  BY DEF PoolInit, NoLostIdle
<1> QED
  BY <1>1, IdleStep, ActiveCorrect, PoolInvariant, PTL DEF PoolSpec

-----------------------------------------------------------------------------
(* Where the accepted jobs are *)

Elems(s) == {s[i] : i \in 1..Len(s)}
Distinct(s) == \A i, j \in 1..Len(s) : i # j => s[i] # s[j]
Held == {wjob[w] : w \in Running}

(* What push_back and pop_front do to the jobs in the queue.                *)
LEMMA QueuePush ==
    ASSUME NEW S, NEW s \in Seq(S), NEW e \in S
    PROVE  /\ Elems(Append(s, e)) = Elems(s) \cup {e}
           /\ Distinct(s) /\ e \notin Elems(s) => Distinct(Append(s, e))
<1>1. /\ Len(Append(s, e)) = Len(s) + 1
      /\ Append(s, e)[Len(s) + 1] = e
      /\ \A i \in 1..Len(s) : Append(s, e)[i] = s[i]
  OBVIOUS
<1>2. 1..Len(Append(s, e)) = (1..Len(s)) \cup {Len(s) + 1}
  BY <1>1
<1> QED
  BY <1>1, <1>2 DEF Elems, Distinct

LEMMA QueuePop ==
    ASSUME NEW S, NEW s \in Seq(S), s # <<>>
    PROVE  /\ Elems(s) = {Head(s)} \cup Elems(Tail(s))
           /\ Distinct(s) => Distinct(Tail(s)) /\ Head(s) \notin Elems(Tail(s))
<1>1. /\ Len(s) \in Nat \ {0}
      /\ Len(Tail(s)) = Len(s) - 1
      /\ Head(s) = s[1]
      /\ \A i \in 1..(Len(s) - 1) : Tail(s)[i] = s[i + 1]
  OBVIOUS
<1>2. \A i \in 1..Len(s) : i = 1 \/ i - 1 \in 1..(Len(s) - 1)
  BY <1>1
<1>3. Elems(s) = {Head(s)} \cup Elems(Tail(s))
  <2>1. ASSUME NEW x \in Elems(s) PROVE x = Head(s) \/ x \in Elems(Tail(s))
    <3>1. PICK i \in 1..Len(s) : x = s[i]
      BY DEF Elems
    <3>2. i # 1 => x = Tail(s)[i - 1] /\ i - 1 \in 1..Len(Tail(s))
      BY <1>1, <1>2, <3>1
    <3> QED
      BY <1>1, <3>1, <3>2 DEF Elems
  <2>2. ASSUME NEW x \in Elems(Tail(s)) PROVE x \in Elems(s)
    <3>1. PICK i \in 1..(Len(s) - 1) : x = Tail(s)[i]
      BY <1>1 DEF Elems
    <3> QED
      BY <1>1, <3>1 DEF Elems
  <2>3. Head(s) \in Elems(s)
    BY <1>1 DEF Elems
  <2> QED
    BY <2>1, <2>2, <2>3
<1>4. Distinct(s) => Distinct(Tail(s)) /\ Head(s) \notin Elems(Tail(s))
  BY <1>1 DEF Elems, Distinct
<1> QED
  BY <1>3, <1>4

(* JobsConserved in the terms of these lemmas.                              *)
Conserved ==
    /\ accepted = Elems(queue) \cup Held \cup completed \cup discarded
    /\ Distinct(queue)
    /\ \A v, w \in Running : v # w => wjob[v] # wjob[w]
    /\ Elems(queue) \cap Held = {}
    /\ (Elems(queue) \cup Held) \cap (completed \cup discarded) = {}
    /\ completed \cap discarded = {}

LEMMA JobsRestated == JobsConserved <=> Conserved
BY DEF JobsConserved, Conserved, Queued, Held, Elems, Distinct

LEMMA ConservedStep == PoolInv /\ Conserved /\ [PoolNext]_poolVars => Conserved'
<1> SUFFICES ASSUME PoolTypeOK, WorkersHold, StopProtocol, Conserved,
                    [PoolNext]_poolVars
             PROVE Conserved'
  BY DEF PoolInv
<1> USE DEF PoolTypeOK, WorkerStates, ThreadStates, Conserved
<1>s. ASSUME UNCHANGED <<queue, accepted, completed, discarded>>,
             Running' = Running, \A w \in Running : wjob'[w] = wjob[w]
      PROVE Conserved'
  <2>1. Held' = Held
    BY <1>s DEF Held
  <2> QED
    BY <1>s, <2>1
<1>n. Elems(<<>>) = {} /\ Distinct(<<>>)
  BY DEF Elems, Distinct
<1>c. ASSUME queue' = <<>>, discarded' = discarded \cup Queued,
             UNCHANGED <<accepted, completed, wjob>>, Running' = Running
      PROVE Conserved'
  <2>1. Held' = Held
    BY <1>c DEF Held
  <2>2. Elems(queue') = {} /\ Distinct(queue') /\ Queued = Elems(queue)
    BY <1>c, <1>n DEF Queued, Elems
  <2> QED
    BY <1>c, <2>1, <2>2
<1>1. CASE UNCHANGED poolVars
  BY <1>s, <1>1 DEF poolVars, Running
<1>2. ASSUME NEW w \in Workers, Sleep(w) \/ SpuriousWake(w) \/ Exit(w)
      PROVE Conserved'
  BY <1>s, <1>2 DEF Sleep, SpuriousWake, Exit, Running
<1>3. ASSUME NEW w \in Workers, Leave(w) PROVE Conserved'
  BY <1>c, <1>3 DEF Leave, Running
<1>4. ASSUME NEW w \in Workers, Take(w) PROVE Conserved'
  <2>1. Running' = Running \cup {w} /\ w \notin Running
    BY <1>4 DEF Take, Running
  <2>2. /\ wjob'[w] = Head(queue)
        /\ \A v \in Running : wjob'[v] = wjob[v]
    BY <1>4, <2>1 DEF Take, Running
  <2>3. Held' = Held \cup {Head(queue)}
    BY <2>1, <2>2 DEF Held
  <2>4. /\ Elems(queue) = {Head(queue)} \cup Elems(queue')
        /\ Distinct(queue) => Distinct(queue') /\ Head(queue) \notin Elems(queue')
    BY <1>4, QueuePop DEF Take
  <2>5. UNCHANGED <<accepted, completed, discarded>>
    BY <1>4 DEF Take
  <2>6. \A v \in Running : wjob[v] \in Held
    BY DEF Held
  <2>7. \A u, v \in Running' : u # v => wjob'[u] # wjob'[v]
    BY <2>1, <2>2, <2>4, <2>6
  <2> QED
    BY <2>3, <2>4, <2>5, <2>7
<1>5. ASSUME NEW w \in Workers, Finish(w) PROVE Conserved'
  <2>1. Running' = Running \ {w} /\ w \in Running
    BY <1>5 DEF Finish, Running
  <2>2. \A v \in Running' : wjob'[v] = wjob[v]
    BY <1>5, <2>1 DEF Finish, Running
  <2>3. Held' = Held \ {wjob[w]} /\ wjob[w] \in Held
    BY <2>1, <2>2 DEF Held
  <2>4. UNCHANGED <<queue, accepted, discarded>> /\ completed' = completed \cup {wjob[w]}
    BY <1>5 DEF Finish
  <2>5. \A u, v \in Running' : u # v => wjob'[u] # wjob'[v]
    BY <2>1, <2>2
  <2> QED
    BY <2>3, <2>4, <2>5
<1>6. ASSUME NEW t \in Threads, ThreadStep(t) \/ Drain(t) PROVE Conserved'
  BY <1>s, <1>6
     DEF ThreadStep, NotifyOne, DrainCheck, NotifyAll, Join, Drain, Running, Asleep
<1>7. ASSUME NEW t \in Threads, Start(t) PROVE Conserved'
  BY <1>s, <1>7 DEF Start, StopProtocol, Running
<1>8. ASSUME NEW t \in Threads, NEW j \in Jobs, Submit(t, j) PROVE Conserved'
  <2>1. UNCHANGED <<completed, discarded>> /\ Held' = Held /\ Running' = Running
    BY <1>8 DEF Submit, Held, Running
  <2>2. j \notin Elems(queue)
    BY <1>8 DEF Submit
  <2>3. Elems(queue') = Elems(queue) \cup {j} /\ Distinct(queue')
    BY <1>8, <2>2, QueuePush DEF Submit
  <2>4. j \notin accepted /\ accepted' = accepted \cup {j} /\ UNCHANGED wjob
    BY <1>8 DEF Submit
  <2> QED
    BY <2>1, <2>3, <2>4
<1>9. ASSUME NEW t \in Threads, NEW b \in BOOLEAN, Stop(t, b) PROVE Conserved'
  <2>1. CASE b
    BY <1>c, <1>9, <2>1 DEF Stop, Running
  <2>2. CASE ~b
    BY <1>s, <1>9, <2>2 DEF Stop, Running
  <2> QED
    BY <2>1, <2>2
<1> QED
  BY <1>1, <1>2, <1>3, <1>4, <1>5, <1>6, <1>7, <1>8, <1>9 DEF PoolNext, WorkerStep

(* No accepted job is lost, run twice or both run and thrown away, through  *)
(* any number of stops and restarts.                                        *)
THEOREM JobsNeverLost == PoolSpec => []JobsConserved
<1>1. PoolInit => JobsConserved
  <2> SUFFICES ASSUME PoolInit PROVE JobsConserved
    OBVIOUS
  <2>1. Queued = {} /\ Running = {}
    BY DEF PoolInit, Queued, Running
  <2> QED
    BY <2>1 DEF PoolInit, JobsConserved
<1> QED
  BY <1>1, ConservedStep, JobsRestated, PoolInvariant, PTL DEF PoolSpec
=============================================================================
