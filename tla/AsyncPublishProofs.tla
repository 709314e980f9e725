------------------------- MODULE AsyncPublishProofs -------------------------
(***************************************************************************)
(* Proofs about asynchronous publishing, for any number of workers,        *)
(* threads, tickets and lineages.                                          *)
(*                                                                         *)
(* The fabric uses its pool as the pool allows (FabricRunsPool), so what   *)
(* the pool proves of its jobs holds of the jobs behind the tickets        *)
(* (PoolHolds).  On that rests TicketInv: a ticket that is not with the    *)
(* pool is handled by one publish_async() (CallsOwn), flags, states and    *)
(* verdicts agree (FlagsHold), a running job's ticket looks as the job's   *)
(* position says (JobTickets), and an effect is behind its commit          *)
(* (HistoryHolds).  The steps are sorted by what they do to tickets:       *)
(* they leave them alone, move one job, move one call, or raise a flag.    *)
(* With the ticket store and the owners of tickets in flight, TicketInv    *)
(* gives the refinement of TicketContract (TicketsKeepContract).           *)
(***************************************************************************)
EXTENDS AsyncPublish, WorkerPoolProofs, SequenceTheorems

-----------------------------------------------------------------------------
(* The fabric uses the pool as the pool allows *)

(* A thread inside publish_async() handles a ticket.                        *)
CallsHold ==
    /\ cstate \in [Threads -> CallStates]
    /\ cticket \in [Threads -> Jobs \cup {NoJob}]
    /\ \A t \in Threads : cstate[t] \in {"insert", "submit", "erase"} => cticket[t] \in Jobs

LEMMA CallsHoldStep == CallsHold /\ [Next]_vars => CallsHold'
<1> SUFFICES ASSUME CallsHold, [Next]_vars PROVE CallsHold'
  OBVIOUS
<1> USE PoolAssumption DEF CallsHold, CallStates
<1>1. CASE UNCHANGED vars
  BY <1>1 DEF vars, threadVars
<1>2. ASSUME NEW w \in Workers, PoolWorkerStep(w) \/ TakeJob(w) \/ JobStep(w)
      PROVE CallsHold'
  BY <1>2 DEF PoolWorkerStep, TakeJob, JobStep, MarkRunning, LoadFlag, PlanRefused, Plan,
              Boundary, Commit, Settle, FinishJob, FabricUnchanged, threadVars
<1>3. ASSUME NEW t \in Threads, PoolThreadStep(t) \/ DrainFabric(t) \/ Register(t)
                                \/ Retire(t) \/ Flush(t)
      PROVE CallsHold'
  BY <1>3 DEF PoolThreadStep, DrainFabric, Register, Retire, Flush, FabricUnchanged,
              threadVars
<1>4. ASSUME NEW t \in Threads, Shutdown(t) \/ CancelAll(t) \/ AbortPool(t) \/ FlushAndRetire(t)
      PROVE CallsHold'
  BY <1>4 DEF Shutdown, CancelAll, AbortPool, FlushAndRetire
<1>5. ASSUME NEW t \in Threads, InsertTicket(t) \/ SubmitTicket(t) \/ SubmitRefused(t)
                                \/ EraseRefused(t)
      PROVE CallsHold'
  BY <1>5 DEF InsertTicket, SubmitTicket, SubmitRefused, EraseRefused, Return
<1>6. ASSUME NEW t \in Threads, NEW id \in Jobs,
             PublishAsync(t, id) \/ Cancel(t, id) \/ Release(t, id)
      PROVE CallsHold'
  BY <1>6 DEF PublishAsync, Cancel, Release, threadVars
<1>7. ASSUME NEW t \in Threads, NEW l \in Lineages, Publish(t, l) PROVE CallsHold'
  BY <1>7 DEF Publish, threadVars
<1> QED
  BY <1>1, <1>2, <1>3, <1>4, <1>5, <1>6, <1>7 DEF Next, CallStep

LEMMA CallsHoldAlways == Spec => []CallsHold
<1>1. Init => CallsHold
  BY DEF Init, CallsHold, CallStates
<1> QED
  BY <1>1, CallsHoldStep, PTL DEF Spec

(* Every step of the fabric is a step of the pool or leaves it alone.       *)
LEMMA PoolStep == CallsHold /\ [Next]_vars => [PoolNext]_poolVars
<1> SUFFICES ASSUME CallsHold, [Next]_vars PROVE [PoolNext]_poolVars
  OBVIOUS
<1>1. CASE UNCHANGED vars
  BY <1>1 DEF vars, poolVars
<1>2. ASSUME NEW w \in Workers, PoolWorkerStep(w) \/ TakeJob(w) \/ FinishJob(w)
      PROVE PoolNext
  BY <1>2 DEF PoolWorkerStep, TakeJob, FinishJob, PoolNext, WorkerStep
<1>3. ASSUME NEW w \in Workers,
             \/ MarkRunning(w) \/ LoadFlag(w) \/ PlanRefused(w) \/ Plan(w)
             \/ Boundary(w) \/ Commit(w) \/ Settle(w)
      PROVE UNCHANGED poolVars
  BY <1>3 DEF MarkRunning, LoadFlag, PlanRefused, Plan, Boundary, Commit, Settle
<1>4. ASSUME NEW t \in Threads, PoolThreadStep(t) \/ DrainFabric(t) \/ AbortPool(t)
      PROVE PoolNext
  BY <1>4 DEF PoolThreadStep, DrainFabric, AbortPool, PoolNext
<1>5. ASSUME NEW t \in Threads, SubmitTicket(t) PROVE PoolNext
  BY <1>5 DEF SubmitTicket, PoolNext, CallsHold
<1>6. ASSUME NEW t \in Threads,
             \/ InsertTicket(t) \/ SubmitRefused(t) \/ EraseRefused(t) \/ CancelAll(t)
             \/ FlushAndRetire(t) \/ Register(t) \/ Retire(t) \/ Flush(t) \/ Shutdown(t)
      PROVE UNCHANGED poolVars
  BY <1>6 DEF InsertTicket, SubmitRefused, EraseRefused, CancelAll, FlushAndRetire,
              Register, Retire, Flush, Shutdown
<1>7. ASSUME NEW t \in Threads, NEW id \in Jobs,
             PublishAsync(t, id) \/ Cancel(t, id) \/ Release(t, id)
      PROVE UNCHANGED poolVars
  BY <1>7 DEF PublishAsync, Cancel, Release
<1>8. ASSUME NEW t \in Threads, NEW l \in Lineages, Publish(t, l)
      PROVE UNCHANGED poolVars
  BY <1>8 DEF Publish
<1> QED
  BY <1>1, <1>2, <1>3, <1>4, <1>5, <1>6, <1>7, <1>8 DEF Next, JobStep, CallStep

(* Asynchronous publishing implements the pool: whatever the fabric's calls *)
(* do, the queue and the workers behave as WorkerPool says, so what is      *)
(* proved of the pool holds of the fabric that uses it.                     *)
THEOREM FabricRunsPool == Spec => PoolSpec
<1>1. Init => PoolInit
  BY DEF Init
<1> QED
  BY <1>1, PoolStep, CallsHoldAlways, PTL DEF Spec, PoolSpec

-----------------------------------------------------------------------------
(* Type correctness *)

(* Erasing one entry of ticket_order_ leaves a sequence of identifiers.     *)
LEMMA DropAtType ==
    ASSUME NEW S, NEW s \in Seq(S), NEW k \in 1..Len(s)
    PROVE  DropAt(s, k) \in Seq(S)
<1>1. Len(s) \in Nat /\ Len(s) > 0 /\ Len(s) - 1 \in Nat
  OBVIOUS
<1>2. \A i \in 1..(Len(s) - 1) : s[i] \in S /\ s[i + 1] \in S
  BY <1>1
<1>3. DropAt(s, k) \in [1..(Len(s) - 1) -> S]
  BY <1>1, <1>2 DEF DropAt
<1> QED
  BY <1>1, <1>3

LEMMA DropType ==
    ASSUME NEW S, NEW s \in Seq(S), NEW id
    PROVE  Drop(s, id) \in Seq(S)
<1>1. CASE \E k \in 1..Len(s) : s[k] = id
  <2> DEFINE p == CHOOSE k \in 1..Len(s) : s[k] = id
  <2>1. p \in 1..Len(s)
    BY <1>1
  <2> QED
    BY <1>1, <2>1, DropAtType DEF Drop
<1>2. CASE ~ \E k \in 1..Len(s) : s[k] = id
  BY <1>2 DEF Drop
<1> QED
  BY <1>1, <1>2

(* Counting one more application of a lineage.                              *)
(* A new lineage joins a queue that gives up its oldest one when it is full. *)
LEMMA MarkedType ==
    ASSUME NEW l \in Lineages, lineages \in Seq(Lineages)
    PROVE  Marked(l) \in Seq(Lineages)
<1>1. Append(lineages, l) \in Seq(Lineages) /\ Append(lineages, l) # <<>>
  BY AppendProperties, Zenon
<1>2. Tail(Append(lineages, l)) \in Seq(Lineages)
  BY <1>1, HeadTailProperties, Zenon
<1>3. PICK n \in Nat : n = Len(lineages)
  OBVIOUS
<1>4. n < LineageCapacity \/ n >= LineageCapacity
  BY PublishAssumption
<1> QED
  BY <1>1, <1>2, <1>3, <1>4 DEF Marked

(* What a commit leaves of the ledger is typed.                             *)
LEMMA CommitTypes ==
    ASSUME TypeOK, NEW l \in Lineages, NEW p, NEW o, CommitLedger(l, p, o)
    PROVE  /\ lineages' \in Seq(Lineages) /\ pressure' \subseteq Lineages
           /\ applied' \subseteq Lineages /\ repeated' \subseteq Lineages
           /\ since' \in [Lineages -> SUBSET Lineages]
<1>t. /\ lineages \in Seq(Lineages) /\ pressure \subseteq Lineages
      /\ applied \subseteq Lineages /\ repeated \subseteq Lineages
      /\ since \in [Lineages -> SUBSET Lineages]
  BY DEF TypeOK
<1>1. Marked(l) \in Seq(Lineages)
  BY <1>t, MarkedType
<1>2. Accepts(l) => since' \in [Lineages -> SUBSET Lineages]
  BY <1>t DEF Accepts
<1>3. Applies(l) => applied' \subseteq Lineages /\ repeated' \subseteq Lineages
  BY <1>t DEF Applies
<1>4. CASE Marks(p, o) /\ lineages' = Marked(l) /\ Accepts(l)
           /\ \/ pressure' = pressure \cup {l} /\ Applies(l)
              \/ UNCHANGED <<pressure, applied, repeated>>
  BY <1>t, <1>1, <1>2, <1>3, <1>4
<1>5. CASE UNCHANGED <<lineages, pressure, ledgerHistory>>
  BY <1>t, <1>5 DEF ledgerHistory
<1> QED
  BY <1>4, <1>5 DEF CommitLedger

(* So is what a flush leaves of the durable list.                           *)
LEMMA FlushTypes ==
    ASSUME TypeOK, FlushOk \/ FlushError
    PROVE  footprint' \subseteq Lineages /\ overflowed' \in BOOLEAN
<1>1. footprint \subseteq Lineages /\ pressure \subseteq Lineages /\ overflowed \in BOOLEAN
  BY DEF TypeOK
<1>2. ASSUME NEW named \in SUBSET pressure, Record(named)
      PROVE  footprint' \subseteq Lineages /\ overflowed' \in BOOLEAN
  BY <1>1, <1>2 DEF Record
<1> QED
  BY <1>1, <1>2 DEF FlushOk, FlushError, listVars

(* A worker is inside the job of publish_async() exactly while it runs a    *)
(* pool job, and it holds a plan between the plan and the commit.           *)
JobsHold ==
    \A w \in Workers :
        /\ jstate[w] # "none" <=> wstate[w] = "job"
        /\ jstate[w] \in {"boundary", "commit"} => plan[w] # NoPlan

AsyncTypes == TypeOK /\ JobsHold

LEMMA AsyncTypesInit == Init => AsyncTypes
<1> SUFFICES ASSUME Init PROVE AsyncTypes
  OBVIOUS
<1>1. PoolTypeOK
  BY TypesInit DEF Init
<1>2. /\ tkt \in [Jobs -> TicketStates]
      /\ order \in Seq(Jobs)
      /\ cstate \in [Threads -> CallStates]
      /\ cticket \in [Threads -> Jobs \cup {NoJob}]
      /\ jstate \in [Workers -> JobStates]
      /\ plan \in [Workers -> Plans]
      /\ verdict \in [Workers -> Verdicts]
      /\ lineages \in Seq(Lineages) /\ since \in [Lineages -> SUBSET Lineages]
  BY DEF Init, TicketStates, CallStates, JobStates, Plans, Verdicts, NoPlan, NoVerdict
<1>3. TypeOK
  BY <1>1, <1>2, Zenon DEF Init, TypeOK
<1>4. JobsHold
  BY DEF Init, PoolInit, JobsHold
<1> QED
  BY <1>3, <1>4 DEF AsyncTypes

LEMMA AsyncTypesStep ==
    AsyncTypes /\ CallsHold /\ PoolInv /\ PoolInv' /\ [Next]_vars => AsyncTypes'
<1> SUFFICES ASSUME TypeOK, JobsHold, CallsHold, PoolInv, PoolInv', [Next]_vars
             PROVE TypeOK' /\ JobsHold'
  BY DEF AsyncTypes
<1>p. PoolTypeOK'
  BY DEF PoolInv
<1>w. /\ wstate \in [Workers -> WorkerStates]
      /\ \A w \in Workers : wstate[w] = "job" => wjob[w] \in Jobs
      /\ ~started => \A w \in Workers : wstate[w] = "exited"
  BY DEF PoolInv, PoolTypeOK, WorkersHold, StopProtocol
<1> USE <1>p DEF TypeOK, JobsHold, TicketStates, CallStates, JobStates, Plans, Verdicts,
                 NoPlan, NoVerdict, listVars, ledgerHistory
<1>1. CASE UNCHANGED vars
  BY <1>1 DEF vars, poolVars, fabricVars, ticketVars, threadVars, historyVars
<1>2. ASSUME NEW w \in Workers, PoolWorkerStep(w) PROVE TypeOK' /\ JobsHold'
  BY <1>2, <1>w DEF PoolWorkerStep, Sleep, Leave, Exit, FabricUnchanged, fabricVars,
              ticketVars, threadVars, historyVars, WorkerStates
<1>3. ASSUME NEW w \in Workers, TakeJob(w) PROVE TypeOK' /\ JobsHold'
  BY <1>3, <1>w DEF TakeJob, Take, fabricVars, ticketVars, historyVars, WorkerStates
<1>4. ASSUME NEW w \in Workers, FinishJob(w) PROVE TypeOK' /\ JobsHold'
  BY <1>4, <1>w DEF FinishJob, Finish, fabricVars, ticketVars, historyVars, WorkerStates
<1>5. ASSUME NEW w \in Workers, MarkRunning(w) PROVE TypeOK' /\ JobsHold'
  BY <1>5 DEF MarkRunning, poolVars, fabricVars, historyVars
<1>6. ASSUME NEW w \in Workers, LoadFlag(w) PROVE TypeOK' /\ JobsHold'
  <2> DEFINE refusal == [state |-> "Cancelled", committed |-> FALSE]
  <2>1. verdict' = verdict \/ verdict' = [verdict EXCEPT ![w] = refusal]
    BY <1>6, Zenon DEF LoadFlag
  <2>2. /\ verdict' \in [Workers -> Verdicts]
        /\ \E s \in {"return", "settle", "lock"} : jstate' = [jstate EXCEPT ![w] = s]
    <3>0. refusal \in Verdicts
      OBVIOUS
    <3>1. verdict' \in [Workers -> Verdicts]
      <4> HIDE DEF refusal, Verdicts
      <4> QED
        BY <2>1, <3>0
    <3>2. \E s \in {"return", "settle", "lock"} : jstate' = [jstate EXCEPT ![w] = s]
      BY <1>6, Zenon DEF LoadFlag
    <3> QED
      BY <3>1, <3>2
  <2>3. jstate[w] # "none"
    BY <1>6 DEF LoadFlag
  <2> QED
    BY <1>6, <2>2, <2>3 DEF LoadFlag, poolVars, fabricVars, ticketVars, historyVars
<1>7. ASSUME NEW w \in Workers, PlanRefused(w) PROVE TypeOK' /\ JobsHold'
  BY <1>7 DEF PlanRefused, Conclude, poolVars, ticketVars, historyVars
<1>8. ASSUME NEW w \in Workers, Plan(w) PROVE TypeOK' /\ JobsHold'
  BY <1>8 DEF Plan, PlansFor, poolVars, ticketVars, historyVars
<1>9. ASSUME NEW w \in Workers, Boundary(w) PROVE TypeOK' /\ JobsHold'
  <2>1. CASE Conclude(w, "Cancelled", FALSE)
    BY <1>9, <2>1 DEF Boundary, Conclude, poolVars, ticketVars, historyVars
  <2>2. CASE jstate' = [jstate EXCEPT ![w] = "commit"] /\ UNCHANGED <<verdict, plan, owner>>
    BY <1>9, <2>2 DEF Boundary, poolVars, ticketVars, historyVars
  <2> QED
    BY <1>9, <2>1, <2>2, Zenon DEF Boundary
<1>10. ASSUME NEW w \in Workers, Commit(w) PROVE TypeOK' /\ JobsHold'
  <2>1. wjob[w] \in Jobs /\ signal[wjob[w]] \in Lineages
    BY <1>10, <1>w DEF Commit
  <2>2. PICK o : CommitLedger(signal[wjob[w]], plan[w], o)
    BY <1>10 DEF Commit
  <2>3. /\ lineages' \in Seq(Lineages) /\ pressure' \subseteq Lineages
        /\ applied' \subseteq Lineages /\ repeated' \subseteq Lineages
        /\ since' \in [Lineages -> SUBSET Lineages]
    BY <2>1, <2>2, CommitTypes
  <2>4. /\ effected' \subseteq Jobs /\ crossed' \subseteq Jobs
        /\ jstate' = [jstate EXCEPT ![w] = "settle"]
        /\ plan' = [plan EXCEPT ![w] = NoPlan]
        /\ owner' = Nobody
    BY <1>10, <2>1 DEF Commit, Conclude
  <2>5. verdict' \in [Workers -> Verdicts]
    BY <1>10 DEF Commit, Conclude
  <2>6. jstate[w] # "none"
    BY <1>10 DEF Commit
  <2> QED
    BY <1>10, <2>3, <2>4, <2>5, <2>6 DEF Commit, poolVars, ticketVars
<1>11. ASSUME NEW w \in Workers, Settle(w) PROVE TypeOK' /\ JobsHold'
  BY <1>11 DEF Settle, poolVars, fabricVars, historyVars
<1>12. ASSUME NEW t \in Threads, PoolThreadStep(t) PROVE TypeOK' /\ JobsHold'
  BY <1>12, <1>w DEF PoolThreadStep, ThreadStep, NotifyOne, DrainCheck, NotifyAll, Join,
              Asleep, FabricUnchanged, fabricVars, ticketVars, threadVars, historyVars
<1>13. ASSUME NEW t \in Threads, DrainFabric(t) \/ AbortPool(t) PROVE TypeOK' /\ JobsHold'
  BY <1>13, ZenonT(40) DEF DrainFabric, AbortPool, Drain, Stop, fabricVars, ticketVars, threadVars,
               historyVars
<1>14. ASSUME NEW t \in Threads, Register(t) \/ Retire(t) \/ Flush(t)
       PROVE TypeOK' /\ JobsHold'
  <2>1. CASE Register(t) \/ Retire(t)
    BY <2>1, ZenonT(40) DEF Register, Retire, poolVars, ticketVars, threadVars,
                            historyVars
  <2>2. CASE Flush(t)
    <3>1. footprint' \subseteq Lineages /\ overflowed' \in BOOLEAN
      BY <2>2, FlushTypes DEF Flush
    <3> QED
      BY <2>2, <3>1, ZenonT(40) DEF Flush, poolVars, ticketVars, threadVars, historyVars
  <2> QED
    BY <1>14, <2>1, <2>2
<1>15. ASSUME NEW t \in Threads, Shutdown(t) \/ CancelAll(t) \/ FlushAndRetire(t)
       PROVE TypeOK' /\ JobsHold'
  <2>1. CASE Shutdown(t)
    BY <2>1 DEF Shutdown, poolVars, ticketVars, historyVars
  <2>2. CASE CancelAll(t)
    BY <2>2 DEF CancelAll, poolVars, fabricVars
  <2>3. CASE FlushAndRetire(t)
    <3>1. footprint' \subseteq Lineages /\ overflowed' \in BOOLEAN
      BY <2>3, FlushTypes DEF FlushAndRetire
    <3>2. flushFailed' \in BOOLEAN
      BY <2>3, Zenon DEF FlushAndRetire
    <3>3. lineages' \in Seq(Lineages)
      BY <2>3 DEF FlushAndRetire
    <3> QED
      BY <2>3, <3>1, <3>2, <3>3 DEF FlushAndRetire, poolVars, ticketVars, historyVars
  <2> QED
    BY <1>15, <2>1, <2>2, <2>3
<1>16. ASSUME NEW t \in Threads, InsertTicket(t) PROVE TypeOK' /\ JobsHold'
  <2>1. cticket[t] \in Jobs
    BY <1>16 DEF InsertTicket, CallsHold
  <2>2. \A k \in Reclaimable : order[k] \in Jobs /\ DropAt(order, k) \in Seq(Jobs)
    BY DropAtType DEF Reclaimable
  <2>3. \A s \in Seq(Jobs) : Append(s, cticket[t]) \in Seq(Jobs)
    BY <2>1
  <2>4. order' \in Seq(Jobs)
    <3>1. \/ order' = order
          \/ order' = Append(order, cticket[t])
          \/ \E k \in Reclaimable : order' = Append(DropAt(order, k), cticket[t])
      BY <1>16, Zenon DEF InsertTicket
    <3>2. ASSUME NEW k \in Reclaimable, order' = Append(DropAt(order, k), cticket[t])
          PROVE order' \in Seq(Jobs)
      <4>1. DropAt(order, k) \in Seq(Jobs)
        BY <2>2
      <4> QED
        BY <2>3, <3>2, <4>1, Zenon
    <3>3. order' = Append(order, cticket[t]) => order' \in Seq(Jobs)
      BY <2>3, Zenon
    <3> QED
      BY <3>1, <3>2, <3>3
  <2> QED
    BY <1>16, <2>1, <2>2, <2>4, ZenonT(40)
       DEF InsertTicket, Forget, Return, poolVars, fabricVars, historyVars
<1>17. ASSUME NEW t \in Threads, SubmitTicket(t) \/ SubmitRefused(t)
       PROVE TypeOK' /\ JobsHold'
  BY <1>17, ZenonT(40) DEF SubmitTicket, Submit, SubmitRefused, Return, poolVars, fabricVars,
               ticketVars, historyVars
<1>18. ASSUME NEW t \in Threads, EraseRefused(t) PROVE TypeOK' /\ JobsHold'
  BY <1>18, DropType DEF EraseRefused, Forget, Return, poolVars, fabricVars, historyVars
<1>19. ASSUME NEW t \in Threads, NEW id \in Jobs, PublishAsync(t, id)
       PROVE TypeOK' /\ JobsHold'
  BY <1>19 DEF PublishAsync, poolVars, fabricVars, historyVars
<1>20. ASSUME NEW t \in Threads, NEW id \in Jobs, Cancel(t, id)
       PROVE TypeOK' /\ JobsHold'
  BY <1>20 DEF Cancel, poolVars, fabricVars, threadVars
<1>21. ASSUME NEW t \in Threads, NEW id \in Jobs, Release(t, id)
       PROVE TypeOK' /\ JobsHold'
  BY <1>21, DropType DEF Release, Forget, poolVars, fabricVars, threadVars, historyVars
<1>22. ASSUME NEW t \in Threads, NEW l \in Lineages, Publish(t, l)
       PROVE TypeOK' /\ JobsHold'
  <2>1. PICK p, o : CommitLedger(l, p, o)
    BY <1>22 DEF Publish
  <2>2. /\ lineages' \in Seq(Lineages) /\ pressure' \subseteq Lineages
        /\ applied' \subseteq Lineages /\ repeated' \subseteq Lineages
        /\ since' \in [Lineages -> SUBSET Lineages]
    BY <2>1, CommitTypes
  <2> QED
    BY <1>22, <2>2 DEF Publish, poolVars, ticketVars, threadVars
<1> QED
  BY <1>1, <1>2, <1>3, <1>4, <1>5, <1>6, <1>7, <1>8, <1>9, <1>10, <1>11, <1>12, <1>13,
     <1>14, <1>15, <1>16, <1>17, <1>18, <1>19, <1>20, <1>21, <1>22
     DEF Next, JobStep, CallStep

(* The fabric's live state, tickets and positions keep their types through  *)
(* every call, job and shutdown.                                            *)
THEOREM AsyncTypeCorrect == Spec => []TypeOK
<1>1. Spec => []PoolInv
  BY FabricRunsPool, PoolInvariant
<1>2. Spec => []AsyncTypes
  BY <1>1, AsyncTypesInit, AsyncTypesStep, CallsHoldAlways, PTL DEF Spec
<1>3. AsyncTypes => TypeOK
  BY DEF AsyncTypes
<1> QED
  BY <1>2, <1>3, PTL

-----------------------------------------------------------------------------
(* Shutdown *)

ShuttingThread(t) == cstate[t] \in {"sdCancel", "sdStop", "sdFlush"}

(* The thread that shuts down does so under the raised flag.                *)
ShutdownFlagged == \A t \in Threads : ShuttingThread(t) => shuttingDown

(* Only shutdown's own steps move a thread into shutdown, the flag first.   *)
LEMMA ShutdownFlaggedStep ==
    ASSUME TypeOK, ShutdownFlagged, [Next]_vars
    PROVE  ShutdownFlagged'
<1> USE DEF ShutdownFlagged, ShuttingThread
<1>t. cstate \in [Threads -> CallStates]
  BY DEF TypeOK
<1>1. CASE UNCHANGED vars
  BY <1>1 DEF vars, fabricVars, threadVars
<1>2. ASSUME NEW w \in Workers, PoolWorkerStep(w) \/ TakeJob(w) \/ JobStep(w)
      PROVE  UNCHANGED <<cstate, shuttingDown>>
  BY <1>2 DEF PoolWorkerStep, FabricUnchanged, TakeJob, JobStep, MarkRunning, LoadFlag,
              PlanRefused, Plan, Boundary, Commit, Settle, FinishJob, fabricVars, threadVars
<1>3. ASSUME NEW t \in Threads,
             PoolThreadStep(t) \/ DrainFabric(t) \/ Register(t) \/ Retire(t) \/ Flush(t)
      PROVE  UNCHANGED <<cstate, shuttingDown>>
  BY <1>3 DEF PoolThreadStep, FabricUnchanged, DrainFabric, Register, Retire, Flush,
              fabricVars, threadVars
<1>4. ASSUME NEW t \in Threads, NEW id \in Jobs, Cancel(t, id) \/ Release(t, id)
      PROVE  UNCHANGED <<cstate, shuttingDown>>
  BY <1>4 DEF Cancel, Release, fabricVars, threadVars
<1>5. ASSUME NEW t \in Threads, NEW l \in Lineages, Publish(t, l)
      PROVE  UNCHANGED <<cstate, shuttingDown>>
  BY <1>5 DEF Publish, threadVars
<1>6. ASSUME NEW t \in Threads, Shutdown(t)
      PROVE  ShutdownFlagged'
  BY <1>6 DEF Shutdown
<1>7. ASSUME NEW t \in Threads, NEW id \in Jobs, PublishAsync(t, id)
      PROVE  ShutdownFlagged'
  BY <1>7, <1>t DEF PublishAsync, fabricVars
<1>8. ASSUME NEW t \in Threads, CallStep(t)
      PROVE  ShutdownFlagged'
  <2>1. UNCHANGED shuttingDown
    BY <1>8 DEF CallStep, InsertTicket, SubmitTicket, SubmitRefused, EraseRefused, CancelAll,
                AbortPool, FlushAndRetire, fabricVars
  <2>2. PICK s : /\ cstate' = [cstate EXCEPT ![t] = s]
                 /\ s \in {"submit", "out", "erase"} \/ ShuttingThread(t)
    BY <1>8, Zenon DEF CallStep, InsertTicket, SubmitTicket, SubmitRefused, EraseRefused,
                CancelAll, AbortPool, FlushAndRetire, Return
  <2> QED
    BY <1>t, <2>1, <2>2
<1> QED
  BY <1>1, <1>2, <1>3, <1>4, <1>5, <1>6, <1>7, <1>8 DEF Next

(* The pool is stopped by shutdown() only.                                  *)
StopFlagged == stopping => shuttingDown

LEMMA StopFlaggedStep ==
    ASSUME ShutdownFlagged, StopFlagged, [Next]_vars
    PROVE  StopFlagged' /\ (shuttingDown => shuttingDown')
<1> USE DEF StopFlagged
<1>1. CASE UNCHANGED vars
  BY <1>1 DEF vars, poolVars, fabricVars
<1>2. ASSUME NEW w \in Workers, PoolWorkerStep(w) \/ TakeJob(w) \/ JobStep(w)
      PROVE  UNCHANGED <<stopping, shuttingDown>>
  BY <1>2 DEF PoolWorkerStep, Sleep, Leave, Exit, FabricUnchanged, TakeJob, Take, JobStep,
              MarkRunning, LoadFlag, PlanRefused, Plan, Boundary, Commit, Settle, FinishJob,
              Finish, poolVars, fabricVars
<1>3. ASSUME NEW t \in Threads,
             PoolThreadStep(t) \/ DrainFabric(t) \/ Register(t) \/ Retire(t) \/ Flush(t)
      PROVE  UNCHANGED <<stopping, shuttingDown>>
  BY <1>3 DEF PoolThreadStep, ThreadStep, NotifyOne, DrainCheck, NotifyAll, Join,
              FabricUnchanged, DrainFabric, Drain, Register, Retire, Flush, poolVars, fabricVars
<1>4. ASSUME NEW t \in Threads, NEW id \in Jobs,
             PublishAsync(t, id) \/ Cancel(t, id) \/ Release(t, id)
      PROVE  UNCHANGED <<stopping, shuttingDown>>
  BY <1>4 DEF PublishAsync, Cancel, Release, poolVars, fabricVars
<1>5. ASSUME NEW t \in Threads, NEW l \in Lineages, Publish(t, l)
      PROVE  UNCHANGED <<stopping, shuttingDown>>
  BY <1>5 DEF Publish, poolVars
<1>6. ASSUME NEW t \in Threads, Shutdown(t)
      PROVE  shuttingDown'
  BY <1>6 DEF Shutdown
<1>7. ASSUME NEW t \in Threads, AbortPool(t)
      PROVE  shuttingDown /\ shuttingDown'
  BY <1>7 DEF AbortPool, ShutdownFlagged, ShuttingThread, fabricVars
<1>8. ASSUME NEW t \in Threads,
             InsertTicket(t) \/ SubmitTicket(t) \/ SubmitRefused(t) \/ EraseRefused(t)
             \/ CancelAll(t) \/ FlushAndRetire(t)
      PROVE  UNCHANGED <<stopping, shuttingDown>>
  BY <1>8 DEF InsertTicket, SubmitTicket, Submit, SubmitRefused, EraseRefused, CancelAll,
              FlushAndRetire, poolVars, fabricVars
<1> QED
  BY <1>1, <1>2, <1>3, <1>4, <1>5, <1>6, <1>7, <1>8 DEF Next, CallStep

-----------------------------------------------------------------------------
(* The life of a ticket *)

NotYetRun == {"absent", "Pending", "Cancelled"}
InCall(t) == cstate[t] \in {"insert", "submit", "erase"}

(* A ticket is handled by one publish_async(), and not by the pool before   *)
(* its submission; the store holds nothing else.                            *)
CallsOwn ==
    /\ accepted \subseteq issued
    /\ \A t \in Threads : InCall(t) => cticket[t] \in issued \ accepted
    /\ \A t, u \in Threads : InCall(t) /\ InCall(u) /\ t # u => cticket[t] # cticket[u]
    /\ \A t \in Threads : cstate[t] = "insert" => tkt[cticket[t]] = "absent"
    /\ \A t \in Threads : cstate[t] \in {"submit", "erase"} => tkt[cticket[t]] \in NotYetRun
    /\ \A id \in Jobs : tkt[id] # "absent" => id \in issued
    /\ \A id \in Queued : tkt[id] \in NotYetRun

(* A ticket that says it was cancelled is in the store and has its flag     *)
(* raised, and one that says it was committed has its verdict.              *)
FlagsHold ==
    \A id \in Jobs :
        /\ tkt[id] = "Cancelled" => cancelled[id]
        /\ cancelled[id] => flag[id] /\ tkt[id] # "absent"
        /\ committed[id] => tkt[id] \in {"Completed", "Failed"}

(* What the ticket of a running job looks like at each point of the job.    *)
JobTicket(w) ==
    /\ jstate[w] = "mark" => tkt[wjob[w]] \in NotYetRun
    /\ jstate[w] = "load" => tkt[wjob[w]] \in {"absent", "Running"}
    /\ jstate[w] \in {"lock", "boundary", "commit", "settle"} => tkt[wjob[w]] = "Running"
    /\ jstate[w] \in {"lock", "boundary", "commit"} => ~cancelled[wjob[w]]
    /\ jstate[w] = "commit" => wjob[w] \notin asked
    /\ jstate[w] = "settle" =>
        /\ cancelled[wjob[w]] => verdict[w].state = "Cancelled"
        /\ verdict[w].state = "Cancelled" =>
            flag[wjob[w]] /\ ~verdict[w].committed /\ wjob[w] \notin effected
        /\ verdict[w].committed \/ verdict[w].state = "Completed" => wjob[w] \notin asked
        /\ verdict[w].state = "Completed" <=> wjob[w] \in crossed

JobTickets == \A w \in Workers : JobTicket(w)

(* A publish that has had its effect, or gone through, is behind its job's  *)
(* commit; one that was asked to stop is not inserted again.                *)
HistoryHolds ==
    /\ \A id \in effected \cup crossed :
        /\ id \in accepted /\ id \notin Queued
        /\ \A w \in Workers : wjob[w] = id => jstate[w] \in {"settle", "return"}
        /\ InFlight(id) => \E w \in Workers : wjob[w] = id /\ jstate[w] = "settle"
    /\ \A id \in asked :
        /\ id \in issued
        /\ tkt[id] = "absent" \/ flag[id]
        /\ \A t \in Threads : cstate[t] = "insert" => cticket[t] # id

TicketInv ==
    /\ CallsOwn /\ FlagsHold /\ JobTickets /\ HistoryHolds
    /\ CancellationIsReal /\ CompletedIsTruthful

(* What the pool's invariants say of the jobs that the tickets belong to.   *)
PoolHolds ==
    /\ Queued \subseteq accepted
    /\ \A w \in Workers : jstate[w] # "none" => wjob[w] \in accepted \ Queued
    /\ \A w \in Workers : jstate[w] = "none" => wjob[w] \notin Jobs
    /\ \A v, w \in Workers : jstate[v] # "none" /\ jstate[w] # "none" /\ v # w
                                => wjob[v] # wjob[w]

LEMMA PoolHoldsFact == AsyncTypes /\ PoolInv /\ JobsConserved => PoolHolds
<1> SUFFICES ASSUME AsyncTypes, PoolInv, JobsConserved PROVE PoolHolds
  OBVIOUS
<1>1. \A w \in Workers : jstate[w] # "none" <=> w \in Running
  BY DEF AsyncTypes, JobsHold, Running
<1>2. \A w \in Workers : jstate[w] = "none" => wjob[w] \notin Jobs
  BY <1>1, PoolAssumption DEF PoolInv, WorkersHold, Running
<1>3. /\ Queued \subseteq accepted
      /\ \A w \in Running : wjob[w] \in accepted \ Queued
      /\ \A v, w \in Running : v # w => wjob[v] # wjob[w]
  BY DEF JobsConserved
<1> QED
  BY <1>1, <1>2, <1>3 DEF PoolHolds

(* The threads that answer for the tickets outside X still do.              *)
OwnersStay(X) ==
    \A t \in Threads : cstate[t] \in {"submit", "erase"} /\ cticket[t] \notin X
                        => cstate'[t] = cstate[t] /\ cticket'[t] = cticket[t]

(* The steps that leave every ticket, job and verdict alone.                *)
Aside ==
    /\ UNCHANGED <<issued, tkt, committed, cancelled, flag, order, accepted, effected,
                   crossed, asked, jstate, wjob, verdict>>
    /\ Queued' \subseteq Queued /\ (shuttingDown \/ Queued' = Queued)
    /\ OwnersStay({})
    /\ \A t \in Threads : InCall(t)' => cstate'[t] = cstate[t] /\ cticket'[t] = cticket[t]

LEMMA AsideSteps ==
    ASSUME AsyncTypes, CallsHold, PoolInv, ShutdownFlagged, StopFlagged,
           \/ UNCHANGED vars
           \/ \E w \in Workers : PoolWorkerStep(w)
           \/ \E t \in Threads :
                \/ PoolThreadStep(t) \/ DrainFabric(t) \/ AbortPool(t) \/ Register(t)
                \/ Retire(t) \/ Flush(t) \/ Shutdown(t) \/ FlushAndRetire(t)
                \/ \E l \in Lineages : Publish(t, l)
    PROVE  Aside
<1>t. cstate \in [Threads -> CallStates] /\ cticket \in [Threads -> Jobs \cup {NoJob}]
  BY DEF CallsHold
<1>s. stopping => shuttingDown
  BY DEF StopFlagged
<1> USE DEF Aside, InCall, OwnersStay, CallStates
<1>1. CASE UNCHANGED vars
  BY <1>1 DEF vars, poolVars, ticketVars, threadVars, historyVars, Queued
<1>2. ASSUME NEW w \in Workers, PoolWorkerStep(w) PROVE Aside
  <2>1. UNCHANGED queue \/ (queue' = <<>> /\ stopping)
    <3>1. CASE Sleep(w) \/ Exit(w)
      BY <3>1 DEF Sleep, Exit
    <3>2. CASE Leave(w)
      BY <3>2 DEF Leave
    <3> QED
      BY <1>2, <3>1, <3>2 DEF PoolWorkerStep
  <2>2. Queued' \subseteq Queued /\ (shuttingDown \/ Queued' = Queued)
    <3>1. UNCHANGED queue => Queued' = Queued
      BY DEF Queued
    <3>2. queue' = <<>> => Queued' = {}
      BY DEF Queued
    <3> QED
      BY <1>s, <2>1, <3>1, <3>2
  <2> QED
    BY <1>2, <2>2 DEF PoolWorkerStep, Sleep, Leave, Exit, FabricUnchanged, ticketVars,
                      threadVars, historyVars
<1>3. ASSUME NEW t \in Threads, PoolThreadStep(t) \/ DrainFabric(t) PROVE Aside
  <2>1. UNCHANGED queue
    BY <1>3 DEF PoolThreadStep, ThreadStep, NotifyOne, DrainCheck, NotifyAll, Join,
                DrainFabric, Drain
  <2>2. Queued' = Queued
    BY <2>1 DEF Queued
  <2> QED
    BY <1>3, <2>2 DEF PoolThreadStep, ThreadStep, NotifyOne, DrainCheck, NotifyAll, Join,
                DrainFabric, Drain, FabricUnchanged, ticketVars, threadVars, historyVars
<1>4. ASSUME NEW t \in Threads, AbortPool(t) PROVE Aside
  <2>1. queue' = <<>> /\ shuttingDown
    BY <1>4 DEF AbortPool, Stop, ShutdownFlagged, ShuttingThread
  <2>2. Queued' \subseteq Queued
    BY <2>1 DEF Queued
  <2>3. /\ cstate[t] = "sdStop"
        /\ cstate' = [cstate EXCEPT ![t] = "sdFlush"]
        /\ UNCHANGED <<issued, tkt, committed, cancelled, flag, order, accepted, effected,
                       crossed, asked, jstate, wjob, verdict, cticket>>
    BY <1>4 DEF AbortPool, Stop, ticketVars, historyVars
  <2> QED
    BY <1>t, <2>1, <2>2, <2>3
<1>5. ASSUME NEW t \in Threads, Register(t) \/ Retire(t) \/ Flush(t) PROVE Aside
  BY <1>5 DEF Register, Retire, Flush, poolVars, ticketVars, threadVars, historyVars, Queued
<1>6. ASSUME NEW t \in Threads, Shutdown(t) \/ FlushAndRetire(t) PROVE Aside
  <2>1. /\ cstate[t] \notin {"insert", "submit", "erase"}
        /\ cstate' = [cstate EXCEPT ![t] = "sdCancel"] \/ cstate' = [cstate EXCEPT ![t] = "out"]
        /\ UNCHANGED <<issued, tkt, committed, cancelled, flag, order, accepted, effected,
                       crossed, asked, jstate, wjob, verdict, cticket, queue>>
    BY <1>6 DEF Shutdown, FlushAndRetire, Free, poolVars, ticketVars, historyVars
  <2> QED
    BY <1>t, <2>1 DEF Queued
<1>7. ASSUME NEW t \in Threads, NEW l \in Lineages, Publish(t, l) PROVE Aside
  BY <1>7 DEF Publish, poolVars, ticketVars, threadVars, Queued
<1> QED
  BY <1>1, <1>2, <1>3, <1>4, <1>5, <1>6, <1>7

LEMMA AsideKeeps == ASSUME TicketInv, Aside PROVE TicketInv'
<1> USE DEF TicketInv, Aside
<1>1. CallsOwn'
  BY DEF CallsOwn, InCall
<1>2. FlagsHold'
  BY DEF FlagsHold
<1>3. JobTickets'
  BY DEF JobTickets, JobTicket
<1>4. HistoryHolds'
  BY DEF HistoryHolds, InFlight, InCall
<1>5. CancellationIsReal' /\ CompletedIsTruthful'
  BY DEF CancellationIsReal, CompletedIsTruthful, Present, Settled
<1> QED
  BY <1>1, <1>2, <1>3, <1>4, <1>5

(* One lemma for each kind of step that moves a ticket or a job.            *)
LEMMA TicketTake ==
    ASSUME AsyncTypes, PoolHolds, TicketInv, NEW w \in Workers, TakeJob(w)
    PROVE  TicketInv'
<1>1. /\ UNCHANGED <<issued, tkt, committed, cancelled, flag, order, accepted, effected,
                     crossed, asked, verdict, cstate, cticket>>
      /\ jstate' = [jstate EXCEPT ![w] = "mark"]
      /\ wjob' = [wjob EXCEPT ![w] = Head(queue)]
      /\ queue' = Tail(queue) /\ queue # <<>> /\ queue \in Seq(Jobs)
  BY DEF TakeJob, Take, ticketVars, historyVars, AsyncTypes, TypeOK, PoolTypeOK
<1>2. Head(queue) \in Queued /\ Queued' \subseteq Queued
  BY <1>1, QueuePop DEF Queued, Elems
<1>t. /\ jstate \in [Workers -> JobStates] /\ wjob \in [Workers -> Jobs \cup {NoJob}]
      /\ jstate[w] = "none"
  BY DEF AsyncTypes, JobsHold, TypeOK, PoolTypeOK, TakeJob, Take
<1> USE DEF TicketInv
<1>3. CallsOwn'
  BY <1>1, <1>2 DEF CallsOwn, InCall
<1>4. FlagsHold'
  BY <1>1 DEF FlagsHold
<1>5. JobTickets'
  <2>1. ASSUME NEW v \in Workers, v # w PROVE JobTicket(v)'
    BY <1>1, <1>t, <2>1 DEF JobTickets, JobTicket
  <2>2. JobTicket(w)'
    BY <1>1, <1>2, <1>t DEF JobTicket, CallsOwn
  <2> QED
    BY <2>1, <2>2 DEF JobTickets
<1>6. HistoryHolds'
  <2>1. ASSUME NEW x \in effected \cup crossed
        PROVE  /\ x \notin Queued'
               /\ \A v \in Workers : wjob'[v] = x => jstate'[v] \in {"settle", "return"}
               /\ InFlight(x) => \E v \in Workers : wjob'[v] = x /\ jstate'[v] = "settle"
    BY <1>1, <1>2, <1>t DEF HistoryHolds
  <2> QED
    BY <1>1, <2>1 DEF HistoryHolds, InFlight
<1>7. CancellationIsReal' /\ CompletedIsTruthful'
  BY <1>1 DEF CancellationIsReal, CompletedIsTruthful, Present, Settled
<1> QED
  BY <1>3, <1>4, <1>5, <1>6, <1>7

LEMMA TicketFinish ==
    ASSUME TypeOK, PoolHolds, TicketInv, NEW w \in Workers, FinishJob(w)
    PROVE  TicketInv'
<1>1. /\ UNCHANGED <<issued, tkt, committed, cancelled, flag, order, accepted, effected,
                     crossed, asked, verdict, cstate, cticket, queue>>
      /\ jstate[w] = "return"
      /\ jstate' = [jstate EXCEPT ![w] = "none"]
      /\ wjob' = [wjob EXCEPT ![w] = NoJob]
  BY DEF FinishJob, Finish, ticketVars, historyVars
<1>t. /\ jstate \in [Workers -> JobStates] /\ wjob \in [Workers -> Jobs \cup {NoJob}]
      /\ effected \subseteq Jobs /\ crossed \subseteq Jobs
  BY DEF TypeOK, PoolTypeOK
<1> USE DEF TicketInv
<1>3. CallsOwn'
  BY <1>1 DEF CallsOwn, InCall, Queued
<1>4. FlagsHold'
  BY <1>1 DEF FlagsHold
<1>5. JobTickets'
  BY <1>1, <1>t DEF JobTickets, JobTicket
<1>6. HistoryHolds'
  BY <1>1, <1>t, PoolAssumption DEF HistoryHolds, InFlight, Queued
<1>7. CancellationIsReal' /\ CompletedIsTruthful'
  BY <1>1 DEF CancellationIsReal, CompletedIsTruthful, Present, Settled
<1> QED
  BY <1>3, <1>4, <1>5, <1>6, <1>7

LEMMA TicketMark ==
    ASSUME TypeOK, PoolHolds, TicketInv, NEW w \in Workers, MarkRunning(w)
    PROVE  TicketInv'
<1> DEFINE id == wjob[w]
<1>1. /\ UNCHANGED <<issued, committed, cancelled, flag, order, accepted, effected,
                     crossed, asked, verdict, cstate, cticket, queue, wjob>>
      /\ jstate[w] = "mark"
      /\ jstate' = [jstate EXCEPT ![w] = "load"]
      /\ tkt' = [tkt EXCEPT ![id] = IF @ = "absent" THEN @ ELSE "Running"]
  BY DEF MarkRunning, poolVars, ticketVars, historyVars
<1>t. /\ jstate \in [Workers -> JobStates] /\ wjob \in [Workers -> Jobs \cup {NoJob}]
      /\ tkt \in [Jobs -> TicketStates]
      /\ effected \subseteq Jobs /\ crossed \subseteq Jobs /\ accepted \subseteq Jobs
      /\ asked \subseteq Jobs
  BY DEF TypeOK, PoolTypeOK
<1>2. id \in Jobs /\ id \in accepted /\ id \notin Queued
  BY <1>1, <1>t DEF PoolHolds
<1>3. \A v \in Workers : v # w /\ jstate[v] # "none" => wjob[v] # id
  BY <1>1 DEF PoolHolds
<1>4. id \notin effected /\ id \notin crossed
  BY <1>1 DEF TicketInv, HistoryHolds
<1>5. tkt[id] \in NotYetRun
  BY <1>1 DEF TicketInv, JobTickets, JobTicket
<1> HIDE DEF id
<1>w. wjob[w] = id
  BY DEF id
<1> USE DEF TicketInv
<1>6. CallsOwn'
  BY <1>1, <1>2, <1>5, <1>t DEF CallsOwn, InCall, Queued, NotYetRun
<1>7. FlagsHold'
  BY <1>1, <1>2, <1>5, <1>t DEF FlagsHold, NotYetRun
<1>8. JobTickets'
  <2>1. ASSUME NEW v \in Workers, v # w PROVE JobTicket(v)'
    BY <1>1, <1>3, <1>t, <2>1, <1>2 DEF JobTickets, JobTicket
  <2>2. JobTicket(w)'
    BY <1>1, <1>2, <1>t, <1>w DEF JobTicket
  <2> QED
    BY <2>1, <2>2 DEF JobTickets
<1>9. HistoryHolds'
  <2>1. \A x \in effected \cup crossed : tkt'[x] = tkt[x]
    BY <1>1, <1>2, <1>4, <1>t
  <2>2. \A x \in asked : tkt'[x] = "absent" \/ flag[x]
    BY <1>1, <1>2, <1>t DEF HistoryHolds
  <2> QED
    BY <1>1, <1>4, <1>t, <1>w, <2>1, <2>2 DEF HistoryHolds, InFlight, Queued
<1>10. CancellationIsReal' /\ CompletedIsTruthful'
  BY <1>1, <1>2, <1>4, <1>t DEF CancellationIsReal, CompletedIsTruthful, Present, Settled
<1> QED
  BY <1>6, <1>7, <1>8, <1>9, <1>10

(* A job that goes on without a verdict, or ends because its ticket is gone. *)
GoesOn(w, s) ==
    /\ UNCHANGED <<issued, tkt, committed, cancelled, flag, order, accepted, effected, crossed,
                   asked, verdict, cstate, cticket, queue, wjob>>
    /\ jstate' = [jstate EXCEPT ![w] = s]
    /\ \/ jstate[w] = "load" /\ s = "return" /\ tkt[wjob[w]] = "absent"
       \/ jstate[w] = "load" /\ s = "lock" /\ tkt[wjob[w]] # "absent" /\ ~flag[wjob[w]]
       \/ jstate[w] = "lock" /\ s = "boundary"
       \/ jstate[w] = "boundary" /\ s = "commit" /\ ~flag[wjob[w]]

LEMMA TicketGoesOn ==
    ASSUME TypeOK, PoolHolds, TicketInv, NEW w \in Workers, NEW s, GoesOn(w, s)
    PROVE  TicketInv'
<1> USE DEF GoesOn
<1>t. /\ jstate \in [Workers -> JobStates] /\ wjob \in [Workers -> Jobs \cup {NoJob}]
      /\ accepted \subseteq Jobs
  BY DEF TypeOK, PoolTypeOK
<1>2. wjob[w] \in Jobs
  BY <1>t DEF PoolHolds
<1> USE DEF TicketInv
<1>4. wjob[w] \notin effected /\ wjob[w] \notin crossed
  BY DEF HistoryHolds
<1>6. CallsOwn' /\ FlagsHold'
  BY DEF CallsOwn, InCall, Queued, FlagsHold
<1>8. JobTickets'
  <2>1. ASSUME NEW v \in Workers, v # w PROVE JobTicket(v)'
    BY <1>t, <2>1 DEF JobTickets, JobTicket
  <2>2. JobTicket(w)'
    BY <1>2, <1>t DEF JobTickets, JobTicket, FlagsHold, HistoryHolds
  <2> QED
    BY <2>1, <2>2 DEF JobTickets
<1>9. HistoryHolds'
  BY <1>4, <1>t DEF HistoryHolds, InFlight, Queued
<1>10. CancellationIsReal' /\ CompletedIsTruthful'
  BY DEF CancellationIsReal, CompletedIsTruthful, Present, Settled
<1> QED
  BY <1>6, <1>8, <1>9, <1>10

(* A job that is given its verdict, with or without an effect.              *)
Judged(w, s, c) ==
    /\ UNCHANGED <<issued, tkt, committed, cancelled, flag, order, accepted, asked, cstate,
                   cticket, queue, wjob>>
    /\ verdict' = [verdict EXCEPT ![w] = [state |-> s, committed |-> c]]
    /\ jstate' = [jstate EXCEPT ![w] = "settle"]
    /\ effected \subseteq effected' /\ effected' \subseteq effected \cup {wjob[w]}
    /\ crossed' = IF s = "Completed" THEN crossed \cup {wjob[w]} ELSE crossed
    /\ \/ /\ s = "Cancelled" /\ ~c /\ flag[wjob[w]] /\ effected' = effected
          /\ (jstate[w] = "load" /\ tkt[wjob[w]] # "absent") \/ jstate[w] = "boundary"
       \/ s = "Failed" /\ ~c /\ effected' = effected /\ jstate[w] = "lock"
       \/ s \in {"Completed", "Failed"} /\ jstate[w] = "commit"

LEMMA TicketVerdict ==
    ASSUME TypeOK, PoolHolds, TicketInv, NEW w \in Workers, NEW s, NEW c \in BOOLEAN,
           Judged(w, s, c)
    PROVE  TicketInv'
<1> USE DEF Judged
<1>t. /\ jstate \in [Workers -> JobStates] /\ wjob \in [Workers -> Jobs \cup {NoJob}]
      /\ accepted \subseteq Jobs /\ verdict \in [Workers -> Verdicts]
      /\ effected \subseteq Jobs /\ crossed \subseteq Jobs
  BY DEF TypeOK, PoolTypeOK
<1>2. wjob[w] \in Jobs /\ wjob[w] \in accepted /\ wjob[w] \notin Queued
  BY <1>t DEF PoolHolds
<1>3. \A v \in Workers : v # w /\ jstate[v] # "none" => wjob[v] # wjob[w]
  BY DEF PoolHolds
<1>v. /\ verdict'[w].state = s /\ verdict'[w].committed = c
      /\ \A v \in Workers : v # w => verdict'[v] = verdict[v]
  BY <1>t
<1> USE DEF TicketInv
<1>4. wjob[w] \notin effected /\ wjob[w] \notin crossed
  BY DEF HistoryHolds
<1>5. tkt[wjob[w]] = "Running"
  BY DEF JobTickets, JobTicket
<1>6. CallsOwn' /\ FlagsHold'
  BY DEF CallsOwn, InCall, Queued, FlagsHold
<1>7. jstate[w] \in {"lock", "boundary", "commit"} => ~cancelled[wjob[w]]
  BY DEF JobTickets, JobTicket
<1>c. jstate[w] = "commit" => wjob[w] \notin asked
  BY DEF JobTickets, JobTicket
<1>8. JobTickets'
  <2>1. ASSUME NEW v \in Workers, v # w PROVE JobTicket(v)'
    <3>1. wjob[v] # wjob[w] \/ jstate[v] = "none"
      BY <1>3, <2>1
    <3>2. jstate'[v] = jstate[v] /\ verdict'[v] = verdict[v]
      BY <1>t, <1>v, <2>1
    <3> QED
      BY <3>1, <3>2 DEF JobTickets, JobTicket
  <2>2. JobTicket(w)'
    <3>1. jstate'[w] = "settle"
      BY <1>t
    <3> QED
      BY <1>4, <1>5, <1>7, <1>c, <1>v, <3>1 DEF JobTicket
  <2> QED
    BY <2>1, <2>2 DEF JobTickets
<1>9. HistoryHolds'
  BY <1>2, <1>3, <1>4, <1>t DEF HistoryHolds, InFlight, Queued, PoolHolds
<1>10. CancellationIsReal'
  BY <1>2, <1>4, <1>5, <1>7, <1>c, <1>t DEF CancellationIsReal, Present
<1>11. CompletedIsTruthful'
  BY <1>5 DEF CompletedIsTruthful, Present, Settled
<1> QED
  BY <1>6, <1>8, <1>9, <1>10, <1>11

LEMMA TicketSettle ==
    ASSUME TypeOK, PoolHolds, TicketInv, NEW w \in Workers, Settle(w)
    PROVE  TicketInv'
<1> DEFINE id == wjob[w]
<1> DEFINE s == verdict[w].state
<1> DEFINE c == verdict[w].committed
<1>1. /\ UNCHANGED <<issued, flag, order, accepted, effected,
                     crossed, asked, cstate, cticket, queue, wjob>>
      /\ jstate[w] = "settle"
      /\ jstate' = [jstate EXCEPT ![w] = "return"]
      /\ verdict' = [verdict EXCEPT ![w] = NoVerdict]
      /\ tkt' = [tkt EXCEPT ![id] = s]
      /\ committed' = [committed EXCEPT ![id] = c]
      /\ cancelled' = [cancelled EXCEPT ![id] = (s = "Cancelled")]
  BY DEF Settle, poolVars, historyVars
<1>t. /\ jstate \in [Workers -> JobStates] /\ wjob \in [Workers -> Jobs \cup {NoJob}]
      /\ tkt \in [Jobs -> TicketStates] /\ verdict \in [Workers -> Verdicts]
      /\ committed \in [Jobs -> BOOLEAN] /\ cancelled \in [Jobs -> BOOLEAN]
      /\ effected \subseteq Jobs /\ crossed \subseteq Jobs /\ accepted \subseteq Jobs
      /\ asked \subseteq Jobs
  BY DEF TypeOK, PoolTypeOK
<1>s. s \in {"Completed", "Failed", "Cancelled"} /\ c \in BOOLEAN
  BY <1>t DEF Verdicts
<1>2. id \in Jobs /\ id \in accepted /\ id \notin Queued
  BY <1>1, <1>t DEF PoolHolds
<1>3. \A v \in Workers : v # w /\ jstate[v] # "none" => wjob[v] # id
  BY <1>1 DEF PoolHolds
<1>4. /\ s = "Cancelled" => flag[id] /\ ~c /\ id \notin effected
      /\ c \/ s = "Completed" => id \notin asked
      /\ s = "Completed" <=> id \in crossed
      /\ tkt[id] = "Running"
  BY <1>1 DEF TicketInv, JobTickets, JobTicket
<1>w. wjob[w] = id
  OBVIOUS
<1>f. /\ tkt'[id] = s /\ (committed'[id] <=> c) /\ (cancelled'[id] <=> s = "Cancelled")
      /\ \A x \in Jobs : x # id => /\ tkt'[x] = tkt[x] /\ committed'[x] = committed[x]
                                   /\ cancelled'[x] = cancelled[x]
      /\ jstate'[w] = "return"
      /\ \A v \in Workers : v # w => jstate'[v] = jstate[v] /\ verdict'[v] = verdict[v]
  BY <1>1, <1>2, <1>t
<1> HIDE DEF id, s, c
<1> USE DEF TicketInv
<1>i. id \in issued
  BY <1>2 DEF CallsOwn
<1>6. CallsOwn'
  <2>1. \A t \in Threads : InCall(t) => cticket[t] # id /\ cticket[t] \in Jobs
    BY <1>2 DEF CallsOwn, TypeOK
  <2> QED
    BY <1>1, <1>2, <1>f, <1>i, <2>1, <1>t DEF CallsOwn, InCall, Queued, NotYetRun
<1>7. FlagsHold'
  BY <1>1, <1>4, <1>f, <1>s DEF FlagsHold
<1>8. JobTickets'
  <2>1. ASSUME NEW v \in Workers, v # w PROVE JobTicket(v)'
    <3>1. (wjob[v] # id /\ wjob[v] \in Jobs) \/ jstate[v] = "none"
      BY <1>3, <2>1, <1>t DEF PoolHolds
    <3> QED
      BY <1>1, <1>f, <2>1, <3>1 DEF JobTickets, JobTicket
  <2>2. JobTicket(w)'
    BY <1>f DEF JobTicket
  <2> QED
    BY <2>1, <2>2 DEF JobTickets
<1>9. HistoryHolds'
  BY <1>1, <1>4, <1>t, <1>w, <1>f, <1>s DEF HistoryHolds, InFlight, Queued
<1>10. CancellationIsReal'
  <2>1. /\ id \in asked => tkt'[id] # "Completed" /\ ~committed'[id]
        /\ cancelled'[id] => id \notin effected /\ ~committed'[id]
    BY <1>4, <1>f, Zenon
  <2>2. \A x \in Jobs : x # id /\ tkt'[x] # "absent" =>
            /\ x \in asked => tkt'[x] # "Completed" /\ ~committed'[x]
            /\ cancelled'[x] => x \notin effected /\ ~committed'[x]
    BY <1>f DEF CancellationIsReal, Present
  <2> QED
    BY <1>1, <2>1, <2>2 DEF CancellationIsReal, Present
<1>11. CompletedIsTruthful'
  BY <1>1, <1>4, <1>f DEF CompletedIsTruthful, Present, Settled
<1> QED
  BY <1>6, <1>7, <1>8, <1>9, <1>10, <1>11

(* The threads inside publish_async() stay where they are, or return.       *)
KeepsCalls ==
    \A t \in Threads : InCall(t)' => cstate'[t] = cstate[t] /\ cticket'[t] = cticket[t]

(* A ticket leaves the store with release_ticket() or after a refused       *)
(* submission.  No job past its mark runs for it.                           *)
Erased(id) ==
    /\ tkt' = [tkt EXCEPT ![id] = "absent"]
    /\ Forget(id)
    /\ order' = Drop(order, id)
    /\ UNCHANGED <<issued, accepted, effected, crossed, asked, verdict, queue, wjob, jstate>>
    /\ KeepsCalls /\ OwnersStay({id})
    /\ id \in issued
    /\ ~InFlight(id) \/ id \notin accepted
    /\ \A w \in Workers : wjob[w] = id => jstate[w] \in {"none", "mark", "load", "return"}

LEMMA TicketErased ==
    ASSUME TypeOK, PoolHolds, TicketInv, NEW id \in Jobs, Erased(id)
    PROVE  TicketInv'
<1> USE DEF KeepsCalls
<1>t. /\ tkt \in [Jobs -> TicketStates] /\ flag \in [Jobs -> BOOLEAN]
      /\ committed \in [Jobs -> BOOLEAN] /\ cancelled \in [Jobs -> BOOLEAN]
      /\ wjob \in [Workers -> Jobs \cup {NoJob}]
      /\ effected \subseteq Jobs /\ crossed \subseteq Jobs /\ accepted \subseteq Jobs
      /\ asked \subseteq Jobs /\ queue \in Seq(Jobs)
  BY DEF TypeOK, PoolTypeOK
<1>f. /\ tkt'[id] = "absent" /\ ~committed'[id] /\ ~cancelled'[id] /\ ~flag'[id]
      /\ \A x \in Jobs : x # id => /\ tkt'[x] = tkt[x] /\ committed'[x] = committed[x]
                                   /\ cancelled'[x] = cancelled[x] /\ flag'[x] = flag[x]
  BY <1>t DEF Erased, Forget
<1> USE DEF TicketInv, Erased
<1>1. CallsOwn'
  <2>1. \A t \in Threads : InCall(t) => cticket[t] \in Jobs
    BY DEF CallsOwn, TypeOK
  <2>2. Queued' = Queued /\ Queued \subseteq Jobs
    BY <1>t DEF Queued
  <2> QED
    BY <1>f, <2>1, <2>2 DEF CallsOwn, InCall, NotYetRun
<1>2. FlagsHold'
  BY <1>f DEF FlagsHold
<1>3. JobTickets'
  <2>1. SUFFICES ASSUME NEW w \in Workers PROVE JobTicket(w)'
    BY DEF JobTickets
  <2>2. CASE wjob[w] = id
    BY <1>f, <2>2 DEF JobTickets, JobTicket, NotYetRun
  <2>3. CASE wjob[w] # id
    <3>1. wjob[w] \in Jobs \/ jstate[w] = "none"
      BY <1>t DEF PoolHolds
    <3> QED
      BY <1>f, <2>3, <3>1 DEF JobTickets, JobTicket
  <2> QED
    BY <2>2, <2>3
<1>4. HistoryHolds'
  BY <1>t, <1>f DEF HistoryHolds, InFlight, Queued, InCall
<1>5. CancellationIsReal' /\ CompletedIsTruthful'
  BY <1>f DEF CancellationIsReal, CompletedIsTruthful, Present, Settled
<1> QED
  BY <1>1, <1>2, <1>3, <1>4, <1>5

(* cancel() and shutdown()'s step 1, for a set of tickets in the store.     *)
Cancels(C) ==
    /\ UNCHANGED <<issued, accepted, effected, crossed, verdict, order, queue, wjob, jstate>>
    /\ KeepsCalls /\ OwnersStay({})
    /\ \A id \in C : tkt[id] # "absent"
    /\ asked' = asked \cup {id \in C : ~PastBoundary(id)}
    /\ \A id \in Jobs :
        /\ flag'[id] <=> (flag[id] \/ id \in C)
        /\ tkt'[id] = IF tkt[id] = "Pending" /\ id \in C THEN "Cancelled" ELSE tkt[id]
        /\ cancelled'[id] <=> (cancelled[id] \/ (tkt[id] = "Pending" /\ id \in C))
        /\ committed'[id] => committed[id] /\ ~(tkt[id] = "Pending" /\ id \in C)

LEMMA TicketsCancelled ==
    ASSUME TypeOK, PoolHolds, TicketInv, NEW C \in SUBSET Jobs, Cancels(C)
    PROVE  TicketInv'
<1> USE DEF Cancels, KeepsCalls
<1>t. /\ tkt \in [Jobs -> TicketStates] /\ flag \in [Jobs -> BOOLEAN]
      /\ committed \in [Jobs -> BOOLEAN] /\ cancelled \in [Jobs -> BOOLEAN]
      /\ wjob \in [Workers -> Jobs \cup {NoJob}]
      /\ effected \subseteq Jobs /\ crossed \subseteq Jobs /\ accepted \subseteq Jobs
      /\ asked \subseteq Jobs /\ queue \in Seq(Jobs)
  BY DEF TypeOK, PoolTypeOK
<1> USE DEF TicketInv
<1>1. CallsOwn'
  <2>1. \A t \in Threads : InCall(t) => cticket[t] \in Jobs
    BY DEF CallsOwn, TypeOK
  <2>2. Queued' = Queued /\ Queued \subseteq Jobs
    BY <1>t DEF Queued
  <2> QED
    BY <2>1, <2>2 DEF CallsOwn, InCall, NotYetRun
<1>2. FlagsHold'
  BY DEF FlagsHold
<1>p. \A id \in effected \cup crossed : id \in Jobs /\ tkt[id] # "Pending" /\ PastBoundary(id)
  BY <1>t DEF HistoryHolds, InFlight, PastBoundary, JobTickets, JobTicket
<1>3. JobTickets'
  <2>1. SUFFICES ASSUME NEW w \in Workers PROVE JobTicket(w)'
    BY DEF JobTickets
  <2>2. wjob[w] \in Jobs \/ jstate[w] = "none"
    BY <1>t DEF PoolHolds
  <2>3. jstate[w] \in {"commit", "settle", "return"} => PastBoundary(wjob[w])
    BY DEF PastBoundary
  <2>4. JobTicket(w)
    BY DEF JobTickets
  <2> QED
    BY <2>2, <2>3, <2>4 DEF JobTicket, NotYetRun
<1>4. HistoryHolds'
  <2>1. \A x \in effected \cup crossed : tkt'[x] = tkt[x]
    BY <1>p
  <2>2. \A x \in asked' : x \in Jobs /\ x \in issued /\ (tkt'[x] = "absent" \/ flag'[x])
    BY <1>t DEF HistoryHolds, CallsOwn
  <2>3. \A x \in asked' : \A t \in Threads : cstate'[t] = "insert" => cticket'[t] # x
    BY DEF HistoryHolds, CallsOwn, InCall
  <2> QED
    BY <2>1, <2>2, <2>3 DEF HistoryHolds, InFlight, Queued
<1>5. CancellationIsReal'
  <2>1. \A x \in Jobs : ~PastBoundary(x) => tkt[x] # "Completed" /\ InFlight(x)
    BY DEF PastBoundary, InFlight
  <2> QED
    BY <1>p, <1>t, <2>1 DEF CancellationIsReal, Present, FlagsHold, InFlight
<1>6. CompletedIsTruthful'
  BY <1>p DEF CompletedIsTruthful, Present, Settled
<1> QED
  BY <1>1, <1>2, <1>3, <1>4, <1>5, <1>6

(* publish_async() inserts its ticket, in place of the settled ones in E.   *)
Inserted(t, E) ==
    /\ cstate[t] = "insert" /\ cstate' = [cstate EXCEPT ![t] = "submit"]
    /\ UNCHANGED <<issued, accepted, effected, crossed, asked, verdict, queue, wjob, jstate,
                   cticket>>
    /\ tkt'[cticket[t]] = "Pending"
    /\ \A x \in E :
        Settled(x) /\ tkt'[x] = "absent" /\ ~committed'[x] /\ ~cancelled'[x] /\ ~flag'[x]
    /\ \A x \in Jobs \ E :
        /\ x # cticket[t] => tkt'[x] = tkt[x]
        /\ committed'[x] = committed[x] /\ cancelled'[x] = cancelled[x] /\ flag'[x] = flag[x]
    /\ \/ /\ E = {} /\ Cardinality(Present) < MaxTickets
          /\ order' = Append(order, cticket[t])
       \/ \E k \in 1..Len(order) : /\ E = {order[k]}
                                   /\ order' = Append(DropAt(order, k), cticket[t])

LEMMA TicketInserted ==
    ASSUME TypeOK, PoolHolds, TicketInv, NEW t \in Threads, cticket[t] \in Jobs,
           NEW E \in SUBSET Jobs, Inserted(t, E)
    PROVE  TicketInv'
<1> DEFINE id == cticket[t]
<1> USE DEF Inserted
<1>t. /\ tkt \in [Jobs -> TicketStates] /\ cstate \in [Threads -> CallStates]
      /\ wjob \in [Workers -> Jobs \cup {NoJob}]
      /\ effected \subseteq Jobs /\ crossed \subseteq Jobs /\ accepted \subseteq Jobs
      /\ asked \subseteq Jobs /\ queue \in Seq(Jobs)
  BY DEF TypeOK, PoolTypeOK
<1> USE DEF TicketInv
<1>1. /\ tkt[id] = "absent" /\ id \in issued /\ id \notin accepted /\ id \notin E
      /\ id \notin asked
      /\ \A u \in Threads : InCall(u) /\ u # t => cticket[u] # id
  BY DEF CallsOwn, InCall, Settled, HistoryHolds
<1>2. id \notin effected /\ id \notin crossed
  BY <1>1 DEF HistoryHolds
<1>3. CallsOwn'
  <2>1. \A u \in Threads : InCall(u) => cticket[u] \in Jobs
    BY DEF CallsOwn, TypeOK
  <2>2. Queued' = Queued /\ Queued \subseteq Jobs /\ id \notin Queued
    BY <1>1, <1>t DEF Queued, PoolHolds
  <2>3. \A u \in Threads : u # t => cstate'[u] = cstate[u]
    BY <1>t
  <2>4. cstate'[t] = "submit"
    BY <1>t
  <2>5. \A u \in Threads : InCall(u)' <=> InCall(u)
    BY <2>3, <2>4 DEF InCall
  <2>6. \A u \in Threads : cstate'[u] = "insert" => tkt'[cticket[u]] = "absent"
    BY <1>1, <2>1, <2>3, <2>4 DEF CallsOwn, InCall
  <2>7. \A u \in Threads : cstate'[u] \in {"submit", "erase"} => tkt'[cticket[u]] \in NotYetRun
    BY <1>1, <2>1, <2>3, <2>4 DEF CallsOwn, InCall, NotYetRun
  <2>8. \A x \in Jobs : tkt'[x] # "absent" => x \in issued
    BY <1>1 DEF CallsOwn
  <2>9. \A x \in Queued : tkt'[x] \in NotYetRun
    BY <2>2 DEF CallsOwn, NotYetRun
  <2> QED
    BY <2>2, <2>5, <2>6, <2>7, <2>8, <2>9 DEF CallsOwn
<1>4. FlagsHold'
  BY <1>1 DEF FlagsHold
<1>5. JobTickets'
  <2>1. SUFFICES ASSUME NEW w \in Workers PROVE JobTicket(w)'
    BY DEF JobTickets
  <2>2. jstate[w] = "none" \/ (wjob[w] \in Jobs /\ wjob[w] # id)
    BY <1>1, <1>t DEF PoolHolds
  <2>3. JobTicket(w)
    BY DEF JobTickets
  <2> QED
    BY <2>2, <2>3 DEF JobTicket, NotYetRun, Settled
<1>6. HistoryHolds'
  BY <1>1, <1>2, <1>t DEF HistoryHolds, InFlight, Queued
<1>7. CancellationIsReal'
  BY <1>1, <1>2 DEF CancellationIsReal, Present, FlagsHold
<1>8. CompletedIsTruthful'
  BY <1>1, <1>2 DEF CompletedIsTruthful, Present, Settled
<1> QED
  BY <1>3, <1>4, <1>5, <1>6, <1>7, <1>8

(* publish_async() submits its ticket's job, and is refused.                *)
Submits(t) ==
    /\ UNCHANGED <<issued, tkt, committed, cancelled, flag, order, effected, crossed, asked,
                   jstate, wjob, verdict>>
    /\ queue' = Append(queue, cticket[t])
    /\ accepted' = accepted \cup {cticket[t]}
    /\ cstate[t] = "submit"
    /\ cstate' = [cstate EXCEPT ![t] = "out"]
    /\ cticket' = [cticket EXCEPT ![t] = NoJob]

LEMMA TicketSubmitted ==
    ASSUME TypeOK, PoolHolds, TicketInv, NEW t \in Threads, cticket[t] \in Jobs, Submits(t)
    PROVE  TicketInv'
<1> DEFINE id == cticket[t]
<1>t. /\ queue \in Seq(Jobs) /\ cstate \in [Threads -> CallStates]
      /\ cticket \in [Threads -> Jobs \cup {NoJob}]
  BY DEF TypeOK, PoolTypeOK
<1> USE DEF TicketInv, Submits
<1>1. Queued' = Queued \cup {id}
  BY <1>t, QueuePush DEF Queued, Elems
<1>2. /\ id \in issued \ accepted /\ id \in Jobs /\ tkt[id] \in NotYetRun
      /\ \A u \in Threads : InCall(u) /\ u # t => cticket[u] # id
  BY DEF CallsOwn, InCall
<1>3. id \notin effected /\ id \notin crossed
  BY <1>2 DEF HistoryHolds
<1>4. /\ ~InCall(t)'
      /\ \A u \in Threads : u # t => cstate'[u] = cstate[u] /\ cticket'[u] = cticket[u]
  BY <1>t DEF InCall
<1> HIDE DEF id
<1>i. id = cticket[t]
  BY DEF id
<1>5. CallsOwn'
  BY <1>1, <1>2, <1>4, <1>i DEF CallsOwn, InCall
<1>6. FlagsHold' /\ JobTickets'
  BY DEF FlagsHold, JobTickets, JobTicket
<1>7. HistoryHolds'
  BY <1>1, <1>3, <1>4, <1>i DEF HistoryHolds, InFlight, InCall
<1>8. CancellationIsReal' /\ CompletedIsTruthful'
  BY DEF CancellationIsReal, CompletedIsTruthful, Present, Settled
<1> QED
  BY <1>5, <1>6, <1>7, <1>8

Refused(t) ==
    /\ UNCHANGED <<issued, tkt, committed, cancelled, flag, order, accepted, effected, crossed,
                   asked, jstate, wjob, verdict, cticket, queue>>
    /\ cstate[t] = "submit"
    /\ cstate' = [cstate EXCEPT ![t] = "erase"]

LEMMA TicketRefused ==
    ASSUME TypeOK, TicketInv, NEW t \in Threads, Refused(t)
    PROVE  TicketInv'
<1>t. cstate \in [Threads -> CallStates]
  BY DEF TypeOK
<1> USE DEF TicketInv, Refused
<1>1. CallsOwn'
  BY <1>t DEF CallsOwn, InCall, Queued
<1>2. FlagsHold' /\ JobTickets'
  BY DEF FlagsHold, JobTickets, JobTicket
<1>3. HistoryHolds'
  BY <1>t DEF HistoryHolds, InFlight, Queued
<1>4. CancellationIsReal' /\ CompletedIsTruthful'
  BY DEF CancellationIsReal, CompletedIsTruthful, Present, Settled
<1> QED
  BY <1>1, <1>2, <1>3, <1>4

(* publish_async() draws a fresh identifier.                                *)
Draws(t, id) ==
    /\ UNCHANGED <<tkt, committed, cancelled, flag, order, accepted, effected, crossed, asked,
                   jstate, wjob, verdict, queue>>
    /\ cstate[t] = "out" /\ id \notin issued
    /\ issued' = issued \cup {id}
    /\ cstate' = [cstate EXCEPT ![t] = "insert"]
    /\ cticket' = [cticket EXCEPT ![t] = id]

LEMMA TicketDrawn ==
    ASSUME TypeOK, TicketInv, NEW t \in Threads, NEW id \in Jobs, Draws(t, id)
    PROVE  TicketInv'
<1>t. cstate \in [Threads -> CallStates] /\ cticket \in [Threads -> Jobs \cup {NoJob}]
  BY DEF TypeOK
<1> USE DEF TicketInv, Draws
<1>1. CallsOwn'
  BY <1>t DEF CallsOwn, InCall, Queued
<1>2. FlagsHold' /\ JobTickets'
  BY DEF FlagsHold, JobTickets, JobTicket
<1>3. HistoryHolds'
  BY <1>t DEF HistoryHolds, InFlight, Queued
<1>4. CancellationIsReal' /\ CompletedIsTruthful'
  BY DEF CancellationIsReal, CompletedIsTruthful, Present, Settled
<1> QED
  BY <1>1, <1>2, <1>3, <1>4

-----------------------------------------------------------------------------
(* Every step of the fabric is one of these to the tickets.                 *)

Outcomes == {"Completed", "Failed", "Cancelled"}

JobMove(w) ==
    \/ TakeJob(w) \/ MarkRunning(w) \/ Settle(w) \/ FinishJob(w)
    \/ \E s \in JobStates : GoesOn(w, s)
    \/ \E s \in Outcomes, c \in BOOLEAN : Judged(w, s, c)

CallMove(t) ==
    \/ \E E \in SUBSET Jobs : Inserted(t, E)
    \/ Submits(t) \/ Refused(t)
    \/ \E id \in Jobs : Draws(t, id)

TicketMove ==
    \/ Aside
    \/ \E w \in Workers : wjob[w] \in Jobs \cup {NoJob} /\ JobMove(w)
    \/ \E t \in Threads : (cstate[t] # "out" => cticket[t] \in Jobs) /\ CallMove(t)
    \/ \E id \in Jobs : Erased(id)
    \/ \E C \in SUBSET Jobs : Cancels(C)

LEMMA JobMoves ==
    ASSUME TypeOK, NEW w \in Workers, TakeJob(w) \/ JobStep(w)
    PROVE  JobMove(w)
<1>1. CASE TakeJob(w) \/ MarkRunning(w) \/ Settle(w) \/ FinishJob(w)
  BY <1>1 DEF JobMove
<1>2. CASE LoadFlag(w)
  <2>1. UNCHANGED <<issued, tkt, committed, cancelled, flag, order, accepted, effected,
                    crossed, asked, cstate, cticket, queue, wjob>> /\ jstate[w] = "load"
    BY <1>2 DEF LoadFlag, poolVars, ticketVars, historyVars
  <2>2. CASE /\ tkt[wjob[w]] = "absent" /\ jstate' = [jstate EXCEPT ![w] = "return"]
             /\ UNCHANGED verdict
    <3>1. GoesOn(w, "return")
      BY <2>1, <2>2, Zenon DEF GoesOn
    <3> QED
      BY <3>1 DEF JobMove, JobStates
  <2>3. CASE /\ tkt[wjob[w]] # "absent" /\ flag[wjob[w]]
             /\ verdict' = [verdict EXCEPT ![w] = [state |-> "Cancelled", committed |-> FALSE]]
             /\ jstate' = [jstate EXCEPT ![w] = "settle"]
    <3>1. Judged(w, "Cancelled", FALSE)
      BY <2>1, <2>3 DEF Judged
    <3> QED
      BY <3>1 DEF JobMove, Outcomes
  <2>4. CASE /\ tkt[wjob[w]] # "absent" /\ ~flag[wjob[w]]
             /\ jstate' = [jstate EXCEPT ![w] = "lock"] /\ UNCHANGED verdict
    <3>1. GoesOn(w, "lock")
      BY <2>1, <2>4, Zenon DEF GoesOn
    <3> QED
      BY <3>1 DEF JobMove, JobStates
  <2> QED
    BY <1>2, <2>2, <2>3, <2>4, Zenon DEF LoadFlag
<1>3. CASE PlanRefused(w)
  <2>1. Judged(w, "Failed", FALSE)
    BY <1>3 DEF PlanRefused, Conclude, Judged, poolVars, ticketVars, historyVars
  <2> QED
    BY <2>1 DEF JobMove, Outcomes
<1>4. CASE Plan(w)
  <2>1. GoesOn(w, "boundary")
    BY <1>4 DEF Plan, GoesOn, poolVars, ticketVars, historyVars
  <2> QED
    BY <2>1 DEF JobMove, JobStates
<1>5. CASE Boundary(w)
  <2>1. UNCHANGED <<issued, tkt, committed, cancelled, flag, order, accepted, effected,
                    crossed, asked, cstate, cticket, queue, wjob>> /\ jstate[w] = "boundary"
    BY <1>5 DEF Boundary, poolVars, ticketVars, historyVars
  <2>2. CASE flag[wjob[w]] /\ Conclude(w, "Cancelled", FALSE)
    <3>1. Judged(w, "Cancelled", FALSE)
      BY <2>1, <2>2 DEF Judged, Conclude
    <3> QED
      BY <3>1 DEF JobMove, Outcomes
  <2>3. CASE /\ ~flag[wjob[w]] /\ jstate' = [jstate EXCEPT ![w] = "commit"]
             /\ UNCHANGED <<verdict, plan, owner>>
    <3>1. GoesOn(w, "commit")
      BY <2>1, <2>3 DEF GoesOn
    <3> QED
      BY <3>1 DEF JobMove, JobStates
  <2> QED
    BY <1>5, <2>2, <2>3, Zenon DEF Boundary
<1>6. CASE Commit(w)
  <2>1. PICK o \in CommitOutcomes(plan[w]) :
            /\ effected' = IF Marks(plan[w], o) THEN effected \cup {wjob[w]} ELSE effected
            /\ crossed' = IF o = "ok" THEN crossed \cup {wjob[w]} ELSE crossed
            /\ Conclude(w, IF o = "ok" THEN "Completed" ELSE "Failed", o \in {"ok", "ledgerFull"})
    BY <1>6, Zenon DEF Commit
  <2>2. UNCHANGED <<issued, tkt, committed, cancelled, flag, order, accepted, asked, cstate,
                    cticket, queue, wjob>> /\ jstate[w] = "commit"
    BY <1>6 DEF Commit, poolVars, ticketVars
  <2> DEFINE s == IF o = "ok" THEN "Completed" ELSE "Failed"
             c == o \in {"ok", "ledgerFull"}
  <2>3. s \in Outcomes /\ c \in BOOLEAN /\ s \in {"Completed", "Failed"}
        /\ (s = "Completed" <=> o = "ok")
    BY DEF Outcomes
  <2>4. Conclude(w, s, c)
    BY <2>1
  <2> HIDE DEF s, c
  <2>5. Judged(w, s, c)
    BY <2>1, <2>2, <2>3, <2>4 DEF Judged, Conclude
  <2> QED
    BY <2>3, <2>5 DEF JobMove
<1> QED
  BY <1>1, <1>2, <1>3, <1>4, <1>5, <1>6 DEF JobStep

LEMMA CallMoves ==
    ASSUME AsyncTypes, CallsHold, PoolHolds, TicketInv, NEW t \in Threads,
           InsertTicket(t) \/ SubmitTicket(t) \/ SubmitRefused(t) \/ EraseRefused(t)
    PROVE  Aside \/ CallMove(t) \/ \E id \in Jobs : Erased(id)
<1>t. /\ TypeOK /\ tkt \in [Jobs -> TicketStates] /\ cstate \in [Threads -> CallStates]
      /\ order \in Seq(Jobs)
      /\ committed \in [Jobs -> BOOLEAN] /\ cancelled \in [Jobs -> BOOLEAN]
      /\ flag \in [Jobs -> BOOLEAN] /\ cticket \in [Threads -> Jobs \cup {NoJob}]
  BY DEF AsyncTypes, TypeOK
<1>i. cticket[t] \in Jobs
  BY DEF CallsHold, InsertTicket, SubmitTicket, SubmitRefused, EraseRefused
<1>1. CASE InsertTicket(t)
  <2>1. /\ UNCHANGED <<issued, accepted, effected, crossed, asked, verdict, queue, wjob, jstate>>
        /\ cstate[t] = "insert"
    BY <1>1 DEF InsertTicket, poolVars, historyVars
  <2>2. CASE /\ Cardinality(Present) < MaxTickets
             /\ order' = Append(order, cticket[t])
             /\ tkt' = [tkt EXCEPT ![cticket[t]] = "Pending"]
             /\ cstate' = [cstate EXCEPT ![t] = "submit"]
             /\ UNCHANGED <<committed, cancelled, flag, cticket>>
    <3>1. tkt'[cticket[t]] = "Pending"
      BY <1>i, <1>t, <2>2
    <3>2. \A x \in Jobs : x # cticket[t] => tkt'[x] = tkt[x]
      BY <1>t, <2>2
    <3>3. Inserted(t, {})
      BY <2>1, <2>2, <3>1, <3>2 DEF Inserted
    <3> QED
      BY <3>3 DEF CallMove
  <2>3. ASSUME NEW k \in Reclaimable,
               /\ order' = Append(DropAt(order, k), cticket[t])
               /\ tkt' = [tkt EXCEPT ![order[k]] = "absent", ![cticket[t]] = "Pending"]
               /\ Forget(order[k])
               /\ cstate' = [cstate EXCEPT ![t] = "submit"]
               /\ UNCHANGED cticket
        PROVE  CallMove(t)
    <3> DEFINE x0 == order[k]
    <3>1. x0 \in Jobs /\ Settled(x0) /\ k \in 1..Len(order)
      BY <1>t DEF Reclaimable
    <3>2. x0 # cticket[t]
      BY <2>1, <3>1 DEF TicketInv, CallsOwn, Settled
    <3>3. tkt'[x0] = "absent" /\ ~committed'[x0] /\ ~cancelled'[x0] /\ ~flag'[x0]
      BY <1>t, <1>i, <2>3, <3>1, <3>2 DEF Forget
    <3>4. tkt'[cticket[t]] = "Pending"
      BY <1>t, <1>i, <2>3, <3>1, <3>2
    <3>5. \A x \in Jobs \ {x0} :
              /\ x # cticket[t] => tkt'[x] = tkt[x]
              /\ committed'[x] = committed[x]
              /\ cancelled'[x] = cancelled[x]
              /\ flag'[x] = flag[x]
      BY <1>t, <2>3, <3>1 DEF Forget
    <3>6. \E i \in 1..Len(order) : /\ {x0} = {order[i]}
                                   /\ order' = Append(DropAt(order, i), cticket[t])
      BY <2>3, <3>1
    <3>7. {x0} \in SUBSET Jobs
      BY <3>1
    <3> HIDE DEF x0
    <3>8. Inserted(t, {x0})
      BY <2>1, <2>3, <3>1, <3>2, <3>3, <3>4, <3>5, <3>6 DEF Inserted
    <3> QED
      BY <3>7, <3>8 DEF CallMove
  <2>4. CASE Return(t) /\ UNCHANGED <<order, tkt, committed, cancelled, flag>>
    <3>1. \A u \in Threads : u # t => cstate'[u] = cstate[u] /\ cticket'[u] = cticket[u]
      BY <1>t, <2>4 DEF Return
    <3>2. cstate'[t] = "out"
      BY <1>t, <2>4 DEF Return
    <3> QED
      BY <2>1, <2>4, <3>1, <3>2 DEF Aside, InCall, OwnersStay, Queued
  <2> QED
    BY <1>1, <2>2, <2>3, <2>4, Zenon DEF InsertTicket
<1>2. CASE SubmitTicket(t)
  BY <1>2 DEF SubmitTicket, Submit, Return, ticketVars, historyVars, CallMove, Submits
<1>3. CASE SubmitRefused(t)
  BY <1>3 DEF SubmitRefused, poolVars, ticketVars, historyVars, CallMove, Refused
<1>4. CASE EraseRefused(t)
  <2>1. cticket[t] \notin accepted /\ cticket[t] \in issued
    BY <1>4 DEF EraseRefused, TicketInv, CallsOwn, InCall
  <2>2. \A w \in Workers : wjob[w] = cticket[t] => jstate[w] = "none"
    BY <2>1 DEF PoolHolds
  <2>3. KeepsCalls /\ OwnersStay({cticket[t]})
    BY <1>4, <1>t DEF EraseRefused, Return, InCall, KeepsCalls, OwnersStay
  <2>4. Erased(cticket[t])
    BY <1>4, <2>1, <2>2, <2>3 DEF EraseRefused, Erased, poolVars, historyVars
  <2> QED
    BY <1>i, <2>4
<1> QED
  BY <1>1, <1>2, <1>3, <1>4

LEMMA RequestMoves ==
    ASSUME TypeOK, PoolHolds, TicketInv, NEW t \in Threads, NEW id \in Jobs,
           PublishAsync(t, id) \/ Cancel(t, id) \/ Release(t, id)
    PROVE  (CallMove(t) /\ cstate[t] = "out") \/ Erased(id) \/ Cancels({id})
<1>1. CASE PublishAsync(t, id)
  BY <1>1 DEF PublishAsync, Free, poolVars, historyVars, CallMove, Draws
<1>2. CASE Cancel(t, id)
  <2>1. /\ UNCHANGED <<issued, accepted, effected, crossed, verdict, order, queue, wjob,
                       jstate, cstate, cticket>>
        /\ tkt[id] # "absent"
        /\ flag' = [flag EXCEPT ![id] = TRUE]
        /\ tkt' = [tkt EXCEPT ![id] = IF @ = "Pending" THEN "Cancelled" ELSE @]
        /\ cancelled' = [cancelled EXCEPT ![id] = @ \/ tkt[id] = "Pending"]
        /\ committed' = [committed EXCEPT ![id] = @ /\ tkt[id] # "Pending"]
        /\ asked' = IF PastBoundary(id) THEN asked ELSE asked \cup {id}
    BY <1>2 DEF Cancel, poolVars, threadVars
  <2>2. KeepsCalls /\ OwnersStay({})
    BY <2>1 DEF KeepsCalls, InCall, OwnersStay
  <2>3. asked' = asked \cup {x \in {id} : ~PastBoundary(x)}
    BY <2>1
  <2>4. \A x \in Jobs : flag'[x] <=> (flag[x] \/ x \in {id})
    BY <2>1 DEF TypeOK
  <2>5. \A x \in Jobs : tkt'[x] = IF tkt[x] = "Pending" /\ x \in {id} THEN "Cancelled" ELSE tkt[x]
    BY <2>1 DEF TypeOK
  <2>6. \A x \in Jobs : cancelled'[x] <=> (cancelled[x] \/ (tkt[x] = "Pending" /\ x \in {id}))
    BY <2>1 DEF TypeOK
  <2>7. \A x \in Jobs : committed'[x] => committed[x] /\ ~(tkt[x] = "Pending" /\ x \in {id})
    BY <2>1 DEF TypeOK
  <2> QED
    BY <2>1, <2>2, <2>3, <2>4, <2>5, <2>6, <2>7 DEF Cancels
<1>3. CASE Release(t, id)
  <2>1. KeepsCalls /\ OwnersStay({id}) /\ id \in issued /\ ~InFlight(id)
    BY <1>3 DEF Release, threadVars, KeepsCalls, OwnersStay, InCall, TicketInv, CallsOwn
  <2>2. \A w \in Workers : wjob[w] = id => jstate[w] \in {"none", "mark", "load", "return"}
    BY <1>3 DEF Release, TicketInv, JobTickets, JobTicket, InFlight, TypeOK, JobStates
  <2> QED
    BY <1>3, <2>1, <2>2 DEF Release, Erased, poolVars, threadVars, historyVars
<1> QED
  BY <1>1, <1>2, <1>3

LEMMA CancelAllMoves ==
    ASSUME TypeOK, NEW t \in Threads, CancelAll(t)
    PROVE  Cancels(Present)
<1>1. /\ UNCHANGED <<issued, accepted, effected, crossed, verdict, order, queue, wjob, jstate>>
      /\ KeepsCalls /\ OwnersStay({})
  BY DEF CancelAll, poolVars, fabricVars, KeepsCalls, OwnersStay, InCall, TypeOK
<1>2. \A x \in Jobs : ~PastBoundary(x) => x \in Present
  BY DEF PastBoundary, InFlight, Present
<1>3. asked' = asked \cup {x \in Present : ~PastBoundary(x)}
  BY <1>2 DEF CancelAll, Present
<1>4. \A x \in Present : x \in Jobs /\ tkt[x] # "absent"
  BY DEF Present
<1>5. \A x \in Jobs : flag'[x] <=> (flag[x] \/ x \in Present)
  BY DEF CancelAll, TypeOK, Present
<1>6. \A x \in Jobs : tkt'[x] = IF tkt[x] = "Pending" /\ x \in Present THEN "Cancelled" ELSE tkt[x]
  BY DEF CancelAll, TypeOK, Present
<1>7. \A x \in Jobs : cancelled'[x] <=> (cancelled[x] \/ (tkt[x] = "Pending" /\ x \in Present))
  BY DEF CancelAll, TypeOK, Present
<1>8. \A x \in Jobs : committed'[x] => committed[x] /\ ~(tkt[x] = "Pending" /\ x \in Present)
  BY DEF CancelAll, TypeOK, Present
<1> QED
  BY <1>1, <1>3, <1>4, <1>5, <1>6, <1>7, <1>8 DEF Cancels

LEMMA TicketMoves ==
    ASSUME AsyncTypes, CallsHold, PoolInv, PoolHolds, ShutdownFlagged, StopFlagged, TicketInv,
           [Next]_vars
    PROVE  TicketMove
<1>t. TypeOK /\ wjob \in [Workers -> Jobs \cup {NoJob}]
  BY DEF AsyncTypes, TypeOK, PoolTypeOK
<1>1. ASSUME NEW w \in Workers, TakeJob(w) \/ JobStep(w) PROVE TicketMove
  <2>1. JobMove(w) /\ wjob[w] \in Jobs \cup {NoJob}
    BY <1>1, <1>t, JobMoves
  <2> QED
    BY <2>1 DEF TicketMove
<1>2. ASSUME NEW t \in Threads, InsertTicket(t) \/ SubmitTicket(t) \/ SubmitRefused(t)
                                \/ EraseRefused(t)
      PROVE  TicketMove
  <2>1. Aside \/ CallMove(t) \/ \E id \in Jobs : Erased(id)
    BY <1>2, CallMoves
  <2>2. cticket[t] \in Jobs
    BY <1>2 DEF CallsHold, InsertTicket, SubmitTicket, SubmitRefused, EraseRefused
  <2> QED
    BY <2>1, <2>2 DEF TicketMove
<1>3. ASSUME NEW t \in Threads, NEW id \in Jobs,
             PublishAsync(t, id) \/ Cancel(t, id) \/ Release(t, id)
      PROVE  TicketMove
  <2>1. (CallMove(t) /\ cstate[t] = "out") \/ Erased(id) \/ Cancels({id})
    BY <1>3, <1>t, RequestMoves
  <2>2. {id} \in SUBSET Jobs
    OBVIOUS
  <2> QED
    BY <2>1, <2>2 DEF TicketMove
<1>4. ASSUME NEW t \in Threads, CancelAll(t) PROVE TicketMove
  <2>1. Cancels(Present) /\ Present \in SUBSET Jobs
    BY <1>4, <1>t, CancelAllMoves DEF Present
  <2> QED
    BY <2>1 DEF TicketMove
<1>5. Aside => TicketMove
  BY DEF TicketMove
<1> QED
  BY <1>1, <1>2, <1>3, <1>4, <1>5, AsideSteps DEF Next, CallStep

LEMMA TicketInvStep ==
    ASSUME AsyncTypes, CallsHold, PoolInv, PoolHolds, ShutdownFlagged, StopFlagged, TicketInv,
           [Next]_vars
    PROVE  TicketInv'
<1>t. TypeOK
  BY DEF AsyncTypes
<1>1. CASE Aside
  BY <1>1, AsideKeeps
<1>2. ASSUME NEW w \in Workers, JobMove(w) PROVE TicketInv'
  BY <1>2, <1>t, TicketTake, TicketMark, TicketSettle, TicketFinish, TicketGoesOn,
     TicketVerdict DEF JobMove
<1>3. ASSUME NEW t \in Threads, cstate[t] # "out" => cticket[t] \in Jobs, CallMove(t)
      PROVE  TicketInv'
  <2>1. ASSUME NEW E \in SUBSET Jobs, Inserted(t, E) PROVE TicketInv'
    BY <1>3, <1>t, <2>1, TicketInserted DEF Inserted
  <2>2. CASE Submits(t)
    BY <1>3, <1>t, <2>2, TicketSubmitted DEF Submits
  <2> QED
    BY <1>3, <1>t, <2>1, <2>2, TicketRefused, TicketDrawn DEF CallMove
<1>4. ASSUME NEW id \in Jobs, Erased(id) PROVE TicketInv'
  BY <1>4, <1>t, TicketErased
<1>5. ASSUME NEW C \in SUBSET Jobs, Cancels(C) PROVE TicketInv'
  BY <1>5, <1>t, TicketsCancelled
<1> QED
  BY <1>1, <1>2, <1>3, <1>4, <1>5, TicketMoves DEF TicketMove

LEMMA TicketInvInit == Init => TicketInv
<1> SUFFICES ASSUME Init PROVE TicketInv
  OBVIOUS
<1>1. Queued = {} /\ Present = {}
  BY DEF Init, PoolInit, Queued, Present
<1>2. CallsOwn /\ FlagsHold /\ JobTickets
  BY <1>1 DEF Init, PoolInit, CallsOwn, InCall, FlagsHold, JobTickets, JobTicket
<1>3. HistoryHolds /\ CancellationIsReal /\ CompletedIsTruthful
  BY <1>1 DEF Init, HistoryHolds, CancellationIsReal, CompletedIsTruthful
<1> QED
  BY <1>2, <1>3 DEF TicketInv

(* Everything the ticket proofs assume of a reachable state.                *)
TicketFacts ==
    /\ AsyncTypes /\ CallsHold /\ PoolInv /\ PoolHolds
    /\ ShutdownFlagged /\ StopFlagged /\ TicketInv

LEMMA TicketFactsAlways == Spec => []TicketFacts
<1>1. Spec => []PoolInv /\ []JobsConserved
  BY FabricRunsPool, PoolInvariant, JobsNeverLost, PTL
<1>2. Spec => []AsyncTypes
  BY <1>1, AsyncTypesInit, AsyncTypesStep, CallsHoldAlways, PTL DEF Spec
<1>3. Spec => []PoolHolds
  BY <1>1, <1>2, PoolHoldsFact, PTL
<1>4. Spec => [](ShutdownFlagged /\ StopFlagged)
  <2>1. Init => ShutdownFlagged /\ StopFlagged
    BY DEF Init, PoolInit, ShutdownFlagged, ShuttingThread, StopFlagged
  <2>2. AsyncTypes /\ ShutdownFlagged /\ StopFlagged /\ [Next]_vars
            => ShutdownFlagged' /\ StopFlagged'
    BY ShutdownFlaggedStep, StopFlaggedStep DEF AsyncTypes
  <2> QED
    BY <1>2, <2>1, <2>2, PTL DEF Spec
<1>5. AsyncTypes /\ CallsHold /\ PoolInv /\ PoolHolds /\ ShutdownFlagged /\ StopFlagged
        /\ TicketInv /\ [Next]_vars => TicketInv'
  BY TicketInvStep
<1>6. Spec => []TicketInv
  BY <1>1, <1>2, <1>3, <1>4, <1>5, TicketInvInit, CallsHoldAlways, PTL DEF Spec
<1> QED
  BY <1>1, <1>2, <1>3, <1>4, <1>6, CallsHoldAlways, PTL DEF TicketFacts

(* A cancellation that arrives before the boundary keeps the publish from   *)
(* having an effect and from reporting success, however cancel(),           *)
(* shutdown(), the jobs and the reclaiming of tickets interleave.           *)
THEOREM CancellationHolds == Spec => []CancellationIsReal
<1>1. TicketFacts => CancellationIsReal
  BY DEF TicketFacts, TicketInv
<1> QED
  BY <1>1, TicketFactsAlways, PTL

(* A settled ticket says Completed exactly when its publish went through    *)
(* the whole of publish_locked().                                           *)
THEOREM CompletedTold == Spec => []CompletedIsTruthful
<1>1. TicketFacts => CompletedIsTruthful
  BY DEF TicketFacts, TicketInv
<1> QED
  BY <1>1, TicketFactsAlways, PTL

-----------------------------------------------------------------------------
(* The ticket store *)

(* What erasing one entry does to the identifiers ticket_order_ lists.      *)
LEMMA DropAtElems ==
    ASSUME NEW S, NEW s \in Seq(S), Distinct(s), NEW k \in 1..Len(s)
    PROVE  Elems(DropAt(s, k)) = Elems(s) \ {s[k]} /\ Distinct(DropAt(s, k))
<1> DEFINE n == Len(s) - 1
           d == DropAt(s, k)
<1>1. n \in Nat /\ Len(s) = n + 1 /\ k \in Nat
  OBVIOUS
<1>2. /\ Len(d) = n
      /\ \A i \in 1..n : d[i] = IF i < k THEN s[i] ELSE s[i + 1]
  <2>1. d = [i \in 1..n |-> IF i < k THEN s[i] ELSE s[i + 1]]
    BY DEF DropAt
  <2>2. d \in Seq(S)
    BY DropAtType
  <2>3. DOMAIN d = 1..n
    BY <2>1
  <2> HIDE DEF d, n
  <2>4. Len(d) = n
    BY <1>1, <2>2, <2>3
  <2> QED
    BY <2>1, <2>4
<1> HIDE DEF d
<1>3. ASSUME NEW x \in Elems(d) PROVE x \in Elems(s) \ {s[k]}
  <2>1. PICK i \in 1..n : x = d[i]
    BY <1>2 DEF Elems
  <2>2. PICK j \in 1..Len(s) : j # k /\ x = s[j]
    BY <1>1, <1>2, <2>1
  <2> QED
    BY <2>2 DEF Elems, Distinct
<1>4. ASSUME NEW x \in Elems(s), x # s[k] PROVE x \in Elems(d)
  <2>1. PICK j \in 1..Len(s) : x = s[j]
    BY DEF Elems
  <2>2. j # k
    BY <1>4, <2>1
  <2>3. PICK i \in 1..n : d[i] = s[j]
    <3>1. CASE j < k
      BY <1>1, <1>2, <2>1, <3>1
    <3>2. CASE j > k
      <4>1. j - 1 \in 1..n /\ ~(j - 1 < k) /\ (j - 1) + 1 = j
        BY <1>1, <2>1, <3>2
      <4> QED
        BY <1>2, <4>1
    <3> QED
      BY <1>1, <2>1, <2>2, <3>1, <3>2
  <2> QED
    BY <1>2, <2>1, <2>3 DEF Elems
<1>5. Distinct(d)
  <2>1. SUFFICES ASSUME NEW i \in 1..n, NEW j \in 1..n, i # j PROVE d[i] # d[j]
    BY <1>2 DEF Distinct
  <2> DEFINE at(m) == IF m < k THEN m ELSE m + 1
  <2>2. /\ at(i) \in 1..Len(s) /\ at(j) \in 1..Len(s) /\ at(i) # at(j)
        /\ d[i] = s[at(i)] /\ d[j] = s[at(j)]
    BY <1>1, <1>2, <2>1
  <2>3. \A a, b \in 1..Len(s) : a # b => s[a] # s[b]
    BY DEF Distinct
  <2> HIDE DEF at
  <2> QED
    BY <2>2, <2>3
<1> QED
  BY <1>3, <1>4, <1>5 DEF d

LEMMA DropElems ==
    ASSUME NEW S, NEW s \in Seq(S), Distinct(s), NEW id
    PROVE  Elems(Drop(s, id)) = Elems(s) \ {id} /\ Distinct(Drop(s, id))
<1>1. CASE \E k \in 1..Len(s) : s[k] = id
  <2> DEFINE p == CHOOSE k \in 1..Len(s) : s[k] = id
  <2>1. p \in 1..Len(s) /\ s[p] = id
    BY <1>1
  <2>2. Drop(s, id) = DropAt(s, p)
    BY <1>1 DEF Drop
  <2> HIDE DEF p
  <2> QED
    BY <2>1, <2>2, DropAtElems
<1>2. CASE ~ \E k \in 1..Len(s) : s[k] = id
  BY <1>2 DEF Drop, Elems
<1> QED
  BY <1>1, <1>2

(* TicketStoreExact in the terms of these lemmas.                           *)
StoreExact == Cardinality(Present) <= MaxTickets /\ Elems(order) = Present /\ Distinct(order)

LEMMA StoreRestated == StoreExact <=> TicketStoreExact
BY DEF StoreExact, TicketStoreExact, Elems, Distinct

LEMMA StoreStep == TicketFacts /\ StoreExact /\ [Next]_vars => StoreExact'
<1> SUFFICES ASSUME TicketFacts, StoreExact, [Next]_vars PROVE StoreExact'
  OBVIOUS
<1>t. /\ TypeOK /\ order \in Seq(Jobs) /\ tkt \in [Jobs -> TicketStates]
      /\ cticket \in [Threads -> Jobs \cup {NoJob}]
  BY DEF TicketFacts, AsyncTypes, TypeOK
<1>f. IsFiniteSet(Present) /\ Cardinality(Present) \in Nat /\ MaxTickets \in Nat
  BY PublishAssumption, FS_Subset, FS_CardinalityType DEF Present
<1>same. ASSUME UNCHANGED order, Present' = Present PROVE StoreExact'
  BY <1>same DEF StoreExact
<1>1. CASE Aside
  BY <1>1, <1>same DEF Aside, Present
<1>2. ASSUME NEW w \in Workers, JobMove(w) PROVE StoreExact'
  <2>1. CASE \/ \E s \in JobStates : GoesOn(w, s)
             \/ \E s \in Outcomes, c \in BOOLEAN : Judged(w, s, c)
    BY <2>1, <1>same DEF GoesOn, Judged, Present
  <2>2. CASE TakeJob(w) \/ FinishJob(w)
    BY <2>2, <1>same DEF TakeJob, FinishJob, ticketVars, Present
  <2>3. CASE MarkRunning(w)
    <3>1. \A x \in Jobs : tkt'[x] = "absent" <=> tkt[x] = "absent"
      BY <2>3, <1>t DEF MarkRunning
    <3> QED
      BY <2>3, <3>1, <1>same DEF MarkRunning, Present
  <2>4. CASE Settle(w)
    <3>1. tkt[wjob[w]] = "Running" /\ verdict[w].state # "absent"
      BY <2>4, <1>t DEF Settle, TicketFacts, TicketInv, JobTickets, JobTicket, TypeOK, Verdicts
    <3>2. \A x \in Jobs : tkt'[x] = "absent" <=> tkt[x] = "absent"
      BY <2>4, <1>t, <3>1 DEF Settle
    <3> QED
      BY <2>4, <3>2, <1>same DEF Settle, Present
  <2> QED
    BY <1>2, <2>1, <2>2, <2>3, <2>4 DEF JobMove
<1>3. ASSUME NEW t \in Threads, cstate[t] # "out" => cticket[t] \in Jobs, CallMove(t)
      PROVE  StoreExact'
  <2>1. CASE Submits(t) \/ Refused(t) \/ \E id \in Jobs : Draws(t, id)
    BY <2>1, <1>same DEF Submits, Refused, Draws, Present
  <2>2. ASSUME NEW E \in SUBSET Jobs, Inserted(t, E) PROVE StoreExact'
    <3> DEFINE id == cticket[t]
    <3>1. id \in Jobs /\ tkt[id] = "absent" /\ id \notin Present
      BY <1>3, <2>2 DEF Inserted, TicketFacts, TicketInv, CallsOwn, Present
    <3>2. id \notin E /\ \A x \in E : tkt[x] # "absent"
      BY <2>2, <3>1 DEF Inserted, Settled
    <3>3. Present' = (Present \ E) \cup {id}
      BY <2>2, <3>1, <3>2 DEF Inserted, Present
    <3> HIDE DEF id
    <3>4. CASE /\ E = {} /\ Cardinality(Present) < MaxTickets /\ order' = Append(order, id)
      <4>1. Present' = Present \cup {id}
        BY <3>3, <3>4
      <4>2. Cardinality(Present \cup {id}) = Cardinality(Present) + 1
        BY <1>f, <3>1, FS_AddElement
      <4>3. Elems(order') = Present \cup {id} /\ Distinct(order')
        BY <1>t, <3>1, <3>4, QueuePush DEF StoreExact
      <4> QED
        BY <1>f, <3>4, <4>1, <4>2, <4>3 DEF StoreExact
    <3>5. ASSUME NEW k \in 1..Len(order), E = {order[k]},
                 order' = Append(DropAt(order, k), id)
          PROVE  StoreExact'
      <4>1. order[k] \in Present
        BY <1>t DEF StoreExact, Elems
      <4>2. /\ DropAt(order, k) \in Seq(Jobs) /\ Distinct(DropAt(order, k))
            /\ Elems(DropAt(order, k)) = Present \ E
        BY <1>t, <3>5, DropAtType, DropAtElems DEF StoreExact
      <4>3. Elems(order') = (Present \ E) \cup {id} /\ Distinct(order')
        BY <3>1, <3>5, <4>2, QueuePush
      <4>4. Cardinality(Present \ E) = Cardinality(Present) - 1 /\ IsFiniteSet(Present \ E)
        BY <1>f, <3>5, <4>1, FS_RemoveElement
      <4>5. Cardinality((Present \ E) \cup {id}) = Cardinality(Present \ E) + 1
        BY <3>1, <4>4, FS_AddElement
      <4> QED
        BY <1>f, <3>3, <4>3, <4>4, <4>5 DEF StoreExact
    <3> QED
      BY <2>2, <3>4, <3>5 DEF Inserted, id
  <2> QED
    BY <1>3, <2>1, <2>2 DEF CallMove
<1>4. ASSUME NEW id \in Jobs, Erased(id) PROVE StoreExact'
  <2>1. Present' = Present \ {id}
    BY <1>4, <1>t DEF Erased, Present
  <2>2. Elems(order') = Present \ {id} /\ Distinct(order')
    BY <1>4, <1>t, DropElems DEF Erased, StoreExact
  <2>3. Cardinality(Present \ {id}) <= Cardinality(Present)
        /\ Cardinality(Present \ {id}) \in Nat
    <3>1. id \in Present => Cardinality(Present \ {id}) = Cardinality(Present) - 1
      BY <1>f, FS_RemoveElement
    <3>2. id \notin Present => Cardinality(Present \ {id}) = Cardinality(Present)
      <4>1. id \notin Present => Present \ {id} = Present
        OBVIOUS
      <4> QED
        BY <4>1, Zenon
    <3>3. IsFiniteSet(Present \ {id})
      BY <1>f, FS_Subset
    <3>4. Cardinality(Present \ {id}) \in Nat
      BY <3>3, FS_CardinalityType
    <3> QED
      BY <1>f, <3>1, <3>2, <3>4
  <2> QED
    BY <1>f, <2>1, <2>2, <2>3 DEF StoreExact
<1>5. ASSUME NEW C \in SUBSET Jobs, Cancels(C) PROVE StoreExact'
  <2>1. \A x \in Jobs : tkt'[x] = "absent" <=> tkt[x] = "absent"
    BY <1>5 DEF Cancels
  <2> QED
    BY <1>5, <2>1, <1>same DEF Cancels, Present
<1> QED
  BY <1>1, <1>2, <1>3, <1>4, <1>5, TicketMoves DEF TicketMove, TicketFacts

(* The ticket store never exceeds max_tickets, and ticket_order_ lists the  *)
(* tickets it holds, each once: a job that settles late does not bring      *)
(* back a ticket that was released, reclaimed or taken back.                *)
THEOREM TicketStoreHolds == Spec => []TicketStoreExact
<1>1. Init => StoreExact
  <2> SUFFICES ASSUME Init PROVE StoreExact
    OBVIOUS
  <2>1. Present = {} /\ order = <<>>
    BY DEF Init, Present
  <2>2. Elems(order) = {} /\ Distinct(order)
    BY <2>1 DEF Elems, Distinct
  <2>3. Cardinality(Present) = 0
    BY <2>1, FS_EmptySet
  <2> QED
    BY <2>1, <2>2, <2>3, PublishAssumption DEF StoreExact
<1> QED
  BY <1>1, StoreStep, StoreRestated, TicketFactsAlways, PTL DEF Spec

-----------------------------------------------------------------------------
(* Who answers for a ticket in flight *)

Owned(id) ==
    \/ \E t \in Threads : cticket[t] = id /\ cstate[t] \in {"submit", "erase"}
    \/ id \in Queued
    \/ \E w \in Workers : wjob[w] = id /\ jstate[w] \notin {"none", "return"}

LEMMA OwnedStep == TicketFacts /\ InFlightIsOwned /\ [Next]_vars => InFlightIsOwned'
<1> SUFFICES ASSUME TicketFacts, InFlightIsOwned, [Next]_vars, ~shuttingDown',
                    NEW id \in Jobs, InFlight(id)'
             PROVE  Owned(id)'
  BY DEF InFlightIsOwned, Owned
<1>n. ~shuttingDown
  BY StopFlaggedStep DEF TicketFacts
<1>o. InFlight(id) => Owned(id)
  BY <1>n DEF InFlightIsOwned, Owned
<1>t. /\ TypeOK /\ tkt \in [Jobs -> TicketStates] /\ jstate \in [Workers -> JobStates]
      /\ wjob \in [Workers -> Jobs \cup {NoJob}] /\ queue \in Seq(Jobs)
      /\ cstate \in [Threads -> CallStates] /\ cticket \in [Threads -> Jobs \cup {NoJob}]
  BY DEF TicketFacts, AsyncTypes, TypeOK, PoolTypeOK
<1>1. CASE Aside
  BY <1>1, <1>n, <1>o DEF Aside, OwnersStay, InFlight, Owned
<1>2. ASSUME NEW w \in Workers, JobMove(w) PROVE Owned(id)'
  <2>1. ASSUME NEW s \in JobStates, GoesOn(w, s) PROVE Owned(id)'
    <3>1. InFlight(id) /\ (wjob[w] = id => s # "return")
      BY <2>1 DEF GoesOn, InFlight
    <3>2. s # "none" /\ jstate[w] # "none"
      BY <2>1 DEF GoesOn
    <3> QED
      BY <1>o, <1>t, <2>1, <3>1, <3>2 DEF GoesOn, Owned, Queued
  <2>2. ASSUME NEW s \in Outcomes, NEW c \in BOOLEAN, Judged(w, s, c) PROVE Owned(id)'
    BY <1>o, <1>t, <2>2 DEF Judged, InFlight, Owned, Queued
  <2>3. CASE TakeJob(w)
    <3>1. /\ UNCHANGED <<tkt, cstate, cticket>>
          /\ jstate' = [jstate EXCEPT ![w] = "mark"]
          /\ wjob' = [wjob EXCEPT ![w] = Head(queue)]
          /\ queue' = Tail(queue) /\ queue # <<>>
      BY <2>3 DEF TakeJob, Take, ticketVars
    <3>2. Queued = {Head(queue)} \cup Queued'
      <4>1. Elems(queue) = {Head(queue)} \cup Elems(Tail(queue))
        BY <1>t, <3>1, QueuePop
      <4> QED
        BY <3>1, <4>1 DEF Queued, Elems
    <3>3. jstate[w] = "none"
      BY <2>3 DEF TakeJob, Take, TicketFacts, AsyncTypes, JobsHold
    <3> QED
      BY <1>o, <1>t, <3>1, <3>2, <3>3 DEF InFlight, Owned
  <2>4. CASE FinishJob(w)
    BY <1>o, <1>t, <2>4 DEF FinishJob, Finish, ticketVars, InFlight, Owned, Queued
  <2>5. CASE MarkRunning(w)
    <3>1. InFlight(id) \/ wjob[w] = id
      BY <1>t, <2>5 DEF MarkRunning, InFlight
    <3> QED
      BY <1>o, <1>t, <2>5, <3>1 DEF MarkRunning, Owned, Queued, poolVars
  <2>6. CASE Settle(w)
    <3>1. wjob[w] # id /\ InFlight(id)
      BY <1>t, <2>6 DEF Settle, InFlight, TypeOK, Verdicts
    <3> QED
      BY <1>o, <1>t, <2>6, <3>1 DEF Settle, Owned, Queued, poolVars
  <2> QED
    BY <1>2, <2>1, <2>2, <2>3, <2>4, <2>5, <2>6 DEF JobMove
<1>3. ASSUME NEW t \in Threads, cstate[t] # "out" => cticket[t] \in Jobs, CallMove(t)
      PROVE  Owned(id)'
  <2>1. ASSUME NEW E \in SUBSET Jobs, Inserted(t, E) PROVE Owned(id)'
    <3>1. InFlight(id) \/ id = cticket[t]
      BY <2>1 DEF Inserted, InFlight
    <3> QED
      BY <1>o, <1>t, <2>1, <3>1 DEF Inserted, Owned, Queued
  <2>2. CASE Submits(t)
    <3>1. Queued' = Queued \cup {cticket[t]}
      BY <1>3, <1>t, <2>2, QueuePush DEF Submits, Queued, Elems
    <3> QED
      BY <1>o, <1>t, <2>2, <3>1 DEF Submits, InFlight, Owned
  <2>3. CASE Refused(t)
    BY <1>o, <1>t, <2>3 DEF Refused, InFlight, Owned, Queued
  <2>4. ASSUME NEW x \in Jobs, Draws(t, x) PROVE Owned(id)'
    BY <1>o, <1>t, <2>4 DEF Draws, InFlight, Owned, Queued
  <2> QED
    BY <1>3, <2>1, <2>2, <2>3, <2>4 DEF CallMove
<1>4. ASSUME NEW x \in Jobs, Erased(x) PROVE Owned(id)'
  <2>1. x # id /\ InFlight(id)
    BY <1>4, <1>t DEF Erased, InFlight
  <2> QED
    BY <1>o, <1>4, <2>1 DEF Erased, OwnersStay, Owned, Queued
<1>5. ASSUME NEW C \in SUBSET Jobs, Cancels(C) PROVE Owned(id)'
  <2>1. InFlight(id)
    BY <1>5 DEF Cancels, InFlight
  <2> QED
    BY <1>o, <1>5, <2>1 DEF Cancels, OwnersStay, Owned, Queued
<1> QED
  BY <1>1, <1>2, <1>3, <1>4, <1>5, TicketMoves DEF TicketMove, TicketFacts

(* Until shutdown a ticket in flight is never orphaned: a thread is         *)
(* submitting it, its job is queued, or a worker has yet to settle it.      *)
THEOREM InFlightOwned == Spec => []InFlightIsOwned
<1>1. Init => InFlightIsOwned
  BY DEF Init, InFlightIsOwned, InFlight
<1> QED
  BY <1>1, OwnedStep, TicketFactsAlways, PTL DEF Spec

-----------------------------------------------------------------------------
(* The contract *)

(* PhaseOf, as a function of what it looks at.                              *)
PhaseVal(state, known, inserting, told) ==
    IF state = "absent" THEN IF known /\ ~inserting THEN "gone" ELSE "none"
    ELSE IF told THEN "cancelled"
    ELSE IF state \in {"Pending", "Running"} THEN "open"
    ELSE IF state = "Completed" THEN "completed" ELSE "failed"

LEMMA PhaseIs ==
    ASSUME TypeOK, NEW id \in Jobs
    PROVE  PhaseOf(id) = PhaseVal(tkt[id], id \in issued, Inserting(id), cancelled[id])
<1>1. tkt[id] \in TicketStates
  BY DEF TypeOK
<1> QED
  BY <1>1 DEF PhaseOf, PhaseVal, TicketStates

LEMMA PhaseIsNext ==
    ASSUME TypeOK', NEW id \in Jobs
    PROVE  PhaseOf(id)' = PhaseVal(tkt'[id], id \in issued', Inserting(id)', cancelled'[id])
<1>1. tkt'[id] \in TicketStates
  BY DEF TypeOK
<1> QED
  BY <1>1 DEF PhaseOf, PhaseVal, TicketStates

(* What a step may do to one ticket.                                        *)
TicketKeeps(id, p, q, e, f) ==
    \/ q = p /\ (f <=> e)
    \/ p = "none" /\ q = "open" /\ (f <=> e)
    \/ p = "open" /\ ~e /\ q = "open" /\ f
    \/ p = "open" /\ ~e /\ q = "cancelled" /\ ~f
    \/ p = "open" /\ q \in {"completed", "failed"} /\ (f <=> e)
    \/ p \in {"cancelled", "completed", "failed", "none"} /\ q = "gone" /\ (f <=> e)
    \/ p = "open" /\ ~e /\ q = "gone" /\ ~f

LEMMA ContractKept ==
    ASSUME TicketFacts, TypeOK', [Next]_vars, NEW id \in Jobs
    PROVE  TicketKeeps(id, PhaseOf(id), PhaseOf(id)', id \in effected, id \in effected')
<1>t. /\ TypeOK /\ tkt \in [Jobs -> TicketStates] /\ jstate \in [Workers -> JobStates]
      /\ wjob \in [Workers -> Jobs \cup {NoJob}] /\ cancelled \in [Jobs -> BOOLEAN]
      /\ cstate \in [Threads -> CallStates] /\ cticket \in [Threads -> Jobs \cup {NoJob}]
  BY DEF TicketFacts, AsyncTypes, TypeOK, PoolTypeOK
<1>i. CallsOwn /\ FlagsHold /\ JobTickets /\ HistoryHolds
  BY DEF TicketFacts, TicketInv
<1>p. PhaseOf(id) = PhaseVal(tkt[id], id \in issued, Inserting(id), cancelled[id])
  BY <1>t, PhaseIs
<1>q. PhaseOf(id)' = PhaseVal(tkt'[id], id \in issued', Inserting(id)', cancelled'[id])
  BY PhaseIsNext
<1>n. Inserting(id) => id \in issued /\ tkt[id] = "absent"
  BY <1>i DEF Inserting, CallsOwn, InCall
<1>u. tkt[id] # "absent" => id \in issued
  BY <1>i DEF CallsOwn
<1>same. ASSUME UNCHANGED <<issued, effected>>, tkt'[id] = tkt[id], cancelled'[id] = cancelled[id],
                Inserting(id)' => Inserting(id)
         PROVE  TicketKeeps(id, PhaseOf(id), PhaseOf(id)', id \in effected, id \in effected')
  BY <1>same, <1>p, <1>q DEF PhaseVal, TicketKeeps
<1>c. ASSUME UNCHANGED <<cstate, cticket>> PROVE Inserting(id)' <=> Inserting(id)
  BY <1>c DEF Inserting
<1>k. ASSUME KeepsCalls PROVE Inserting(id)' => Inserting(id)
  BY <1>k DEF KeepsCalls, InCall, Inserting
<1> DEFINE Goal == TicketKeeps(id, PhaseOf(id), PhaseOf(id)', id \in effected, id \in effected')
<1>1. CASE Aside
  <2>1. KeepsCalls
    BY <1>1 DEF Aside, KeepsCalls
  <2> QED
    BY <1>1, <1>same, <1>k, <2>1 DEF Aside
<1>2. ASSUME NEW w \in Workers, JobMove(w) PROVE Goal
  <2>1. ASSUME NEW s \in JobStates, GoesOn(w, s) PROVE Goal
    BY <2>1, <1>same, <1>c DEF GoesOn
  <2>2. ASSUME NEW s \in Outcomes, NEW c \in BOOLEAN, Judged(w, s, c) PROVE Goal
    <3>1. UNCHANGED <<issued, tkt, cancelled, cstate, cticket>>
      BY <2>2 DEF Judged
    <3>2. PhaseOf(id)' = PhaseOf(id)
      BY <1>p, <1>q, <1>c, <3>1 DEF PhaseVal
    <3>3. CASE effected' = effected
      BY <3>2, <3>3 DEF TicketKeeps
    <3>4. CASE effected' # effected /\ id # wjob[w]
      BY <2>2, <3>2, <3>4 DEF TicketKeeps, Judged
    <3>5. CASE effected' # effected /\ id = wjob[w]
      <4>1. jstate[w] = "commit" /\ id \in effected' /\ id \notin effected
        BY <2>2, <3>5 DEF Judged
      <4>2. tkt[id] = "Running" /\ ~cancelled[id]
        BY <1>i, <3>5, <4>1 DEF JobTickets, JobTicket
      <4>3. PhaseOf(id) = "open"
        BY <1>p, <4>2 DEF PhaseVal
      <4> QED
        BY <3>2, <4>1, <4>3 DEF TicketKeeps
    <3> QED
      BY <3>3, <3>4, <3>5
  <2>3. CASE TakeJob(w) \/ FinishJob(w)
    BY <2>3, <1>same, <1>c DEF TakeJob, FinishJob, ticketVars, historyVars
  <2>4. CASE MarkRunning(w)
    <3>1. /\ UNCHANGED <<issued, effected, cancelled, cstate, cticket>>
          /\ jstate[w] = "mark"
          /\ tkt' = [tkt EXCEPT ![wjob[w]] = IF @ = "absent" THEN @ ELSE "Running"]
      BY <2>4 DEF MarkRunning, historyVars
    <3>2. CASE id # wjob[w] \/ tkt[id] = "absent"
      BY <1>same, <1>c, <1>t, <3>1, <3>2
    <3>3. CASE id = wjob[w] /\ tkt[id] # "absent"
      <4>1. tkt'[id] = "Running" /\ tkt[id] \in {"Pending", "Cancelled"}
        BY <1>i, <1>t, <3>1, <3>3 DEF JobTickets, JobTicket, NotYetRun
      <4>2. tkt[id] = "Cancelled" => cancelled[id]
        BY <1>i DEF FlagsHold
      <4>3. PhaseOf(id)' = PhaseOf(id)
        BY <1>p, <1>q, <3>1, <4>1, <4>2 DEF PhaseVal
      <4> QED
        BY <3>1, <4>3 DEF TicketKeeps
    <3> QED
      BY <3>2, <3>3
  <2>5. CASE Settle(w)
    <3>1. /\ UNCHANGED <<issued, effected, cstate, cticket>>
          /\ jstate[w] = "settle"
          /\ tkt' = [tkt EXCEPT ![wjob[w]] = verdict[w].state]
          /\ cancelled' = [cancelled EXCEPT ![wjob[w]] = (verdict[w].state = "Cancelled")]
      BY <2>5 DEF Settle, historyVars
    <3>2. CASE id # wjob[w]
      BY <1>same, <1>c, <1>t, <3>1, <3>2
    <3>3. CASE id = wjob[w]
      <4>1. /\ tkt'[id] = verdict[w].state /\ tkt[id] = "Running"
            /\ (cancelled'[id] <=> verdict[w].state = "Cancelled")
        BY <1>i, <1>t, <3>1, <3>3 DEF JobTickets, JobTicket
      <4>2. /\ cancelled[id] => verdict[w].state = "Cancelled"
            /\ verdict[w].state = "Cancelled" => id \notin effected
        BY <1>i, <3>1, <3>3 DEF JobTickets, JobTicket
      <4>3. verdict[w].state \in {"Completed", "Failed", "Cancelled"}
        BY <1>t DEF TypeOK, Verdicts
      <4> QED
        BY <1>p, <1>q, <3>1, <4>1, <4>2, <4>3 DEF PhaseVal, TicketKeeps
    <3> QED
      BY <3>2, <3>3
  <2> QED
    BY <1>2, <2>1, <2>2, <2>3, <2>4, <2>5 DEF JobMove
<1>3. ASSUME NEW t \in Threads, cstate[t] # "out" => cticket[t] \in Jobs, CallMove(t)
      PROVE  Goal
  <2>1. ASSUME NEW E \in SUBSET Jobs, Inserted(t, E) PROVE Goal
    <3>0. /\ \A u \in Threads : u # t => cstate'[u] = cstate[u] /\ cticket'[u] = cticket[u]
          /\ cstate'[t] = "submit" /\ cstate[t] = "insert" /\ UNCHANGED <<issued, effected>>
      BY <2>1, <1>t DEF Inserted
    <3>1. CASE id = cticket[t]
      <4>1. tkt[id] = "absent" /\ id \in issued /\ Inserting(id)
        BY <1>i, <3>0, <3>1 DEF CallsOwn, InCall, Inserting
      <4>2. id \notin E /\ ~cancelled[id]
        BY <1>i, <2>1, <4>1 DEF Inserted, Settled, FlagsHold
      <4>3. tkt'[id] = "Pending" /\ ~cancelled'[id]
        BY <2>1, <3>1, <4>2 DEF Inserted
      <4> QED
        BY <1>p, <1>q, <3>0, <4>1, <4>2, <4>3 DEF PhaseVal, TicketKeeps
    <3>2. CASE id # cticket[t] /\ id \in E
      <4>1. Settled(id) /\ tkt'[id] = "absent"
        BY <2>1, <3>2 DEF Inserted
      <4>2. ~Inserting(id)'
        BY <1>n, <3>0, <4>1 DEF Inserting, Settled
      <4> QED
        BY <1>p, <1>q, <1>u, <3>0, <4>1, <4>2 DEF PhaseVal, TicketKeeps, Settled
    <3>3. CASE id # cticket[t] /\ id \notin E
      <4>1. tkt'[id] = tkt[id] /\ cancelled'[id] = cancelled[id]
        BY <2>1, <3>3 DEF Inserted
      <4>2. Inserting(id)' => Inserting(id)
        BY <3>0 DEF Inserting
      <4> QED
        BY <1>same, <3>0, <4>1, <4>2
    <3> QED
      BY <3>1, <3>2, <3>3
  <2>2. CASE Submits(t)
    <3>1. Inserting(id)' => Inserting(id)
      BY <1>t, <2>2 DEF Submits, Inserting
    <3> QED
      BY <1>same, <2>2, <3>1 DEF Submits
  <2>3. CASE Refused(t)
    <3>1. Inserting(id)' => Inserting(id)
      BY <1>t, <2>3 DEF Refused, Inserting
    <3> QED
      BY <1>same, <2>3, <3>1 DEF Refused
  <2>4. ASSUME NEW x \in Jobs, Draws(t, x) PROVE Goal
    <3>1. UNCHANGED <<tkt, cancelled, effected>> /\ issued' = issued \cup {x} /\ x \notin issued
      BY <2>4 DEF Draws
    <3>2. CASE id = x
      <4>1. tkt[id] = "absent" /\ Inserting(id)'
        BY <1>t, <1>u, <2>4, <3>1, <3>2 DEF Draws, Inserting
      <4> QED
        BY <1>p, <1>q, <3>1, <3>2, <4>1 DEF PhaseVal, TicketKeeps
    <3>3. CASE id # x
      <4>1. Inserting(id)' <=> Inserting(id)
        BY <1>t, <2>4, <3>3 DEF Draws, Inserting
      <4>2. PhaseOf(id)' = PhaseOf(id)
        BY <1>p, <1>q, <3>1, <3>3, <4>1 DEF PhaseVal
      <4> QED
        BY <3>1, <4>2 DEF TicketKeeps
    <3> QED
      BY <3>2, <3>3
  <2> QED
    BY <1>3, <2>1, <2>2, <2>3, <2>4 DEF CallMove
<1>4. ASSUME NEW x \in Jobs, Erased(x) PROVE Goal
  <2>1. UNCHANGED <<issued, effected>> /\ (Inserting(id)' => Inserting(id))
    BY <1>4, <1>k DEF Erased
  <2>2. CASE id # x
    <3>1. tkt'[id] = tkt[id] /\ cancelled'[id] = cancelled[id]
      BY <1>4, <1>t, <2>2 DEF Erased, Forget
    <3> QED
      BY <1>same, <2>1, <3>1
  <2>3. CASE id = x
    <3>1. tkt'[id] = "absent" /\ (~InFlight(id) \/ id \notin accepted) /\ id \in issued
      BY <1>4, <1>t, <2>3 DEF Erased
    <3>2. id \notin accepted => id \notin effected
      BY <1>i DEF HistoryHolds
    <3>3. tkt[id] # "absent" => ~Inserting(id)'
      BY <1>n, <2>1
    <3>4. tkt[id] = "absent" => ~cancelled[id]
      BY <1>i DEF FlagsHold
    <3> QED
      BY <1>p, <1>q, <2>1, <3>1, <3>2, <3>3, <3>4 DEF PhaseVal, TicketKeeps, InFlight
  <2> QED
    BY <2>2, <2>3
<1>5. ASSUME NEW C \in SUBSET Jobs, Cancels(C) PROVE Goal
  <2>1. UNCHANGED <<issued, effected>> /\ (Inserting(id)' => Inserting(id))
    BY <1>5, <1>k DEF Cancels
  <2>2. CASE tkt[id] = "Pending" /\ id \in C
    <3>1. tkt'[id] = "Cancelled" /\ cancelled'[id]
      BY <1>5, <2>2 DEF Cancels
    <3>2. id \notin effected
      BY <1>i, <2>2 DEF HistoryHolds, JobTickets, JobTicket, InFlight
    <3> QED
      BY <1>p, <1>q, <2>1, <2>2, <3>1, <3>2 DEF PhaseVal, TicketKeeps
  <2>3. CASE ~(tkt[id] = "Pending" /\ id \in C)
    <3>1. tkt'[id] = tkt[id] /\ (cancelled'[id] <=> cancelled[id])
      BY <1>5, <2>3 DEF Cancels
    <3> QED
      BY <1>p, <1>q, <2>1, <3>1 DEF PhaseVal, TicketKeeps
  <2> QED
    BY <2>2, <2>3
<1> QED
  BY <1>1, <1>2, <1>3, <1>4, <1>5, TicketMoves DEF TicketMove, TicketFacts

LEMMA ContractStep ==
    ASSUME TicketFacts, TypeOK', [Next]_vars
    PROVE  Contract!ContractNext
<1> DEFINE ph == [id \in Jobs |-> PhaseOf(id)]
           ef == [id \in Jobs |-> id \in effected]
<1>1. \A id \in Jobs : PhaseOf(id)' \in Contract!Phases
  BY PhaseIsNext DEF PhaseVal, Contract!Phases
<1>2. Contract!ContractTypeOK'
  <2>1. ph' \in [Jobs -> Contract!Phases]
    BY <1>1
  <2>2. \A id \in Jobs : (id \in effected') \in BOOLEAN
    BY SMT
  <2>3. ef' \in [Jobs -> BOOLEAN]
    BY <2>2, Zenon
  <2> QED
    BY <2>1, <2>3, Zenon DEF Contract!ContractTypeOK
<1>3. ASSUME NEW id \in Jobs
      PROVE  \/ Contract!Stays(id) \/ Contract!Opens(id) \/ Contract!TakesEffect(id)
             \/ Contract!IsCancelled(id) \/ Contract!IsDecided(id) \/ Contract!IsForgotten(id)
  <2>p. ph[id] = PhaseOf(id) /\ ph'[id] = PhaseOf(id)'
    BY Zenon
  <2>e. ef[id] = (id \in effected) /\ ef'[id] = (id \in effected')
    BY Zenon
  <2>k. TicketKeeps(id, ph[id], ph'[id], ef[id], ef'[id])
    <3>1. TicketKeeps(id, PhaseOf(id), PhaseOf(id)', id \in effected, id \in effected')
      BY ContractKept
    <3> QED
      BY <3>1, <2>p, <2>e, Zenon
  <2>b. ef[id] \in BOOLEAN /\ ef'[id] \in BOOLEAN
    <3>1. (id \in effected) \in BOOLEAN /\ (id \in effected') \in BOOLEAN
      BY SMT
    <3> QED
      BY <2>e, <3>1, Zenon
  <2>f. (ef'[id] <=> ef[id]) => ef'[id] = ef[id]
    BY <2>b, Zenon
  <2>g. ef'[id] => ef'[id] = TRUE
    BY <2>b, Zenon
  <2>n. (~ef'[id] /\ ~ef[id]) => ef'[id] = ef[id]
    BY <2>b, Zenon
  <2>1. CASE ph'[id] = ph[id] /\ (ef'[id] <=> ef[id])
    BY <2>1, <2>f, Zenon DEF Contract!Stays
  <2>2. CASE ph[id] = "none" /\ ph'[id] = "open" /\ (ef'[id] <=> ef[id])
    BY <2>2, <2>f, Zenon DEF Contract!Opens
  <2>3. CASE ph[id] = "open" /\ ~ef[id] /\ ph'[id] = "open" /\ ef'[id]
    BY <2>3, <2>g, Zenon DEF Contract!TakesEffect
  <2>4. CASE ph[id] = "open" /\ ~ef[id] /\ ph'[id] = "cancelled" /\ ~ef'[id]
    BY <2>4, <2>n, Zenon DEF Contract!IsCancelled
  <2>5. CASE ph[id] = "open" /\ ph'[id] \in {"completed", "failed"} /\ (ef'[id] <=> ef[id])
    BY <2>5, <2>f, Zenon DEF Contract!IsDecided
  <2>6. CASE /\ ph[id] \in {"cancelled", "completed", "failed", "none"}
             /\ ph'[id] = "gone" /\ (ef'[id] <=> ef[id])
    <3>1. ph[id] \in Contract!Decided \cup {"none"}
      BY <2>6, Zenon DEF Contract!Decided
    <3> QED
      BY <2>6, <3>1, <2>f, Zenon DEF Contract!IsForgotten
  <2>7. CASE ph[id] = "open" /\ ~ef[id] /\ ph'[id] = "gone" /\ ~ef'[id]
    BY <2>7, <2>n, Zenon DEF Contract!IsForgotten
  <2> HIDE DEF ph, ef
  <2> QED
    BY <2>k, <2>1, <2>2, <2>3, <2>4, <2>5, <2>6, <2>7, Zenon DEF TicketKeeps
<1> QED
  BY <1>2, <1>3, Zenon DEF Contract!ContractNext

(* Asynchronous publishing implements TicketContract: a ticket is opened    *)
(* once, decided once and leaves the store once, its publish has its effect *)
(* at most once and while it is open, and a cancelled ticket has none.      *)
THEOREM TicketsKeepContract == Spec => ContractSpec
<1>1. Init => Contract!ContractInit
  <2> SUFFICES ASSUME Init PROVE Contract!ContractInit
    OBVIOUS
  <2>1. \A id \in Jobs : PhaseOf(id) = "none"
    BY DEF Init, PhaseOf
  <2>2. \A id \in Jobs : id \notin effected
    BY DEF Init
  <2>3. [id \in Jobs |-> PhaseOf(id)] = [id \in Jobs |-> "none"]
    BY <2>1
  <2>4. [id \in Jobs |-> id \in effected] = [id \in Jobs |-> FALSE]
    <3>1. \A id \in Jobs : (id \in effected) = FALSE
      BY <2>2, SMT
    <3> QED
      BY <3>1, Zenon
  <2> QED
    BY <2>3, <2>4 DEF Contract!ContractInit
<1>2. TicketFacts /\ TypeOK' /\ [Next]_vars => Contract!ContractNext
  BY ContractStep
<1>3. TicketFacts => TypeOK
  BY DEF TicketFacts, AsyncTypes
<1> QED
  BY <1>1, <1>2, <1>3, TicketFactsAlways, PTL DEF Spec, ContractSpec, Contract!Spec

-----------------------------------------------------------------------------
(* The ledger under asynchronous publishing: a plan still holds when it is *)
(* committed, a lineage's pressure is applied once, and pressure that was  *)
(* applied is not forgotten.                                               *)

Planned(w) == jstate[w] \in {"boundary", "commit"}

ledgerVars == <<lineages, pressure, ledgerHistory, listVars, flushFailed, signal>>

(* The steps that may matter to the ledger, by what they do to it.          *)
Quiet ==
    /\ UNCHANGED <<ledgerVars, owner, plan>>
    /\ shuttingDown => shuttingDown'
    /\ \A w \in Workers : Planned(w)' => Planned(w) /\ wjob'[w] = wjob[w]

GivesUp(w) ==
    /\ UNCHANGED <<ledgerVars, shuttingDown, wjob>>
    /\ owner = Nobody \/ Planned(w)
    /\ owner' = Nobody
    /\ plan' = [plan EXCEPT ![w] = NoPlan]
    /\ jstate' = [jstate EXCEPT ![w] = "settle"]

MakesPlan(w) ==
    /\ UNCHANGED <<ledgerVars, shuttingDown, wjob>>
    /\ ~shuttingDown
    /\ owner = Nobody /\ owner' = w
    /\ \E p \in PlansFor(signal[wjob[w]]) : plan' = [plan EXCEPT ![w] = p]
    /\ jstate' = [jstate EXCEPT ![w] = "boundary"]

Commits(w) ==
    /\ UNCHANGED <<listVars, flushFailed, signal, shuttingDown, wjob>>
    /\ jstate[w] = "commit"
    /\ \E o \in CommitOutcomes(plan[w]) : CommitLedger(signal[wjob[w]], plan[w], o)
    /\ owner' = Nobody
    /\ plan' = [plan EXCEPT ![w] = NoPlan]
    /\ jstate' = [jstate EXCEPT ![w] = "settle"]

Publishes(l) ==
    /\ UNCHANGED <<listVars, flushFailed, signal, shuttingDown, owner, plan, jstate, wjob>>
    /\ ~shuttingDown
    /\ owner = Nobody
    /\ \E p \in PlansFor(l) : \E o \in CommitOutcomes(p) : CommitLedger(l, p, o)

Persists ==
    /\ UNCHANGED <<lineages, pressure, ledgerHistory, flushFailed, signal, shuttingDown,
                   owner, plan, jstate, wjob>>
    /\ footprint \subseteq footprint'
    /\ overflowed => overflowed'

Clears ==
    /\ UNCHANGED <<ledgerHistory, signal, shuttingDown, owner, plan, jstate, wjob>>
    /\ shuttingDown /\ owner = Nobody
    /\ flushFailed => flushFailed'
    /\ overflowed => overflowed'
    /\ Durable => footprint \cup pressure \subseteq footprint' \/ flushFailed' \/ overflowed'
    /\ footprint \subseteq footprint'
    /\ lineages' = <<>> /\ pressure' = {}

(* A flush keeps what the list held, and names the rest of the pressure     *)
(* unless it fails, or overflows, or there is no store.                     *)
LEMMA RecordKeeps ==
    ASSUME NEW named, Record(named)
    PROVE  /\ footprint \subseteq footprint'
           /\ overflowed => overflowed'
           /\ footprint \cup named \subseteq footprint' \/ overflowed'
BY DEF Record

LEMMA FlushKeeps ==
    ASSUME FlushOk \/ FlushError
    PROVE  /\ footprint \subseteq footprint'
           /\ overflowed => overflowed'
           /\ FlushOk /\ Durable => footprint \cup pressure \subseteq footprint' \/ overflowed'
BY RecordKeeps DEF FlushOk, FlushError, listVars

(* Every step of the fabric is one of the classes above.                   *)
LEMMA LedgerCases ==
    ASSUME AsyncTypes, PoolInv, ShutdownFlagged, [Next]_vars
    PROVE  \/ Quiet
           \/ \E w \in Workers : GivesUp(w) \/ MakesPlan(w) \/ Commits(w)
           \/ \E l \in Lineages : Publishes(l)
           \/ Persists
           \/ Clears
<1>t. /\ jstate \in [Workers -> JobStates] /\ wstate \in [Workers -> WorkerStates]
      /\ wjob \in [Workers -> Jobs \cup {NoJob}]
      /\ \A w \in Workers : jstate[w] # "none" <=> wstate[w] = "job"
  BY DEF AsyncTypes, TypeOK, JobsHold, PoolInv, PoolTypeOK
<1> USE DEF ledgerVars
<1>1. CASE UNCHANGED vars
  BY <1>1 DEF vars, poolVars, fabricVars, ticketVars, threadVars, historyVars, Quiet, Planned
<1>2. ASSUME NEW w \in Workers, PoolWorkerStep(w)
      PROVE  Quiet
  BY <1>2 DEF PoolWorkerStep, Sleep, Leave, Exit, FabricUnchanged, fabricVars, ticketVars,
              threadVars, historyVars, Quiet, Planned
<1>3. ASSUME NEW w \in Workers, TakeJob(w)
      PROVE  Quiet
  BY <1>3, <1>t DEF TakeJob, Take, fabricVars, ticketVars, historyVars, Quiet, Planned
<1>4. ASSUME NEW w \in Workers, FinishJob(w)
      PROVE  Quiet
  BY <1>4, <1>t DEF FinishJob, Finish, fabricVars, ticketVars, historyVars, Quiet, Planned
<1>5. ASSUME NEW w \in Workers, MarkRunning(w) \/ Settle(w)
      PROVE  Quiet
  BY <1>5, <1>t DEF MarkRunning, Settle, poolVars, fabricVars, historyVars, Quiet, Planned
<1>6. ASSUME NEW w \in Workers, LoadFlag(w)
      PROVE  Quiet
  <2>1. \E s \in {"return", "settle", "lock"} : jstate' = [jstate EXCEPT ![w] = s]
    BY <1>6, Zenon DEF LoadFlag
  <2>2. UNCHANGED <<ledgerVars, owner, plan, shuttingDown, wjob>>
    BY <1>6 DEF LoadFlag, poolVars, fabricVars, ticketVars, historyVars
  <2> QED
    BY <1>t, <2>1, <2>2 DEF Quiet, Planned
<1>7. ASSUME NEW w \in Workers, PlanRefused(w)
      PROVE  GivesUp(w)
  BY <1>7 DEF PlanRefused, Conclude, poolVars, ticketVars, historyVars, GivesUp
<1>8. ASSUME NEW w \in Workers, Plan(w)
      PROVE  MakesPlan(w)
  BY <1>8 DEF Plan, GateOpen, poolVars, ticketVars, historyVars, MakesPlan
<1>9. ASSUME NEW w \in Workers, Boundary(w)
      PROVE  GivesUp(w) \/ Quiet
  <2>1. UNCHANGED <<ledgerVars, shuttingDown, wjob>> /\ jstate[w] = "boundary"
    BY <1>9 DEF Boundary, poolVars, ticketVars, historyVars
  <2>2. CASE Conclude(w, "Cancelled", FALSE)
    BY <2>1, <2>2 DEF Conclude, GivesUp, Planned
  <2>3. CASE jstate' = [jstate EXCEPT ![w] = "commit"] /\ UNCHANGED <<verdict, plan, owner>>
    BY <1>t, <2>1, <2>3 DEF Quiet, Planned
  <2> QED
    BY <1>9, <2>2, <2>3, Zenon DEF Boundary
<1>10. ASSUME NEW w \in Workers, Commit(w)
       PROVE  Commits(w)
  <2>1. PICK o \in CommitOutcomes(plan[w]) :
            /\ CommitLedger(signal[wjob[w]], plan[w], o)
            /\ Conclude(w, IF o = "ok" THEN "Completed" ELSE "Failed", o \in {"ok", "ledgerFull"})
    BY <1>10, Zenon DEF Commit
  <2>2. UNCHANGED <<listVars, flushFailed, signal, shuttingDown, wjob>> /\ jstate[w] = "commit"
    BY <1>10 DEF Commit, poolVars, ticketVars
  <2> QED
    BY <2>1, <2>2, Zenon DEF Conclude, Commits
<1>11. ASSUME NEW t \in Threads, PoolThreadStep(t) \/ DrainFabric(t) \/ AbortPool(t)
       PROVE  Quiet
  BY <1>11 DEF PoolThreadStep, ThreadStep, NotifyOne, DrainCheck, NotifyAll, Join,
               DrainFabric, Drain, AbortPool, Stop, FabricUnchanged, fabricVars, ticketVars,
               threadVars, historyVars, Quiet, Planned
<1>12. ASSUME NEW t \in Threads,
              Register(t) \/ Retire(t) \/ Shutdown(t) \/ CancelAll(t) \/ InsertTicket(t)
              \/ SubmitTicket(t) \/ SubmitRefused(t) \/ EraseRefused(t)
       PROVE  Quiet
  BY <1>12 DEF Register, Retire, Shutdown, CancelAll, InsertTicket, SubmitTicket, Submit,
               SubmitRefused, EraseRefused, poolVars, fabricVars, ticketVars, threadVars,
               historyVars, Quiet, Planned
<1>13. ASSUME NEW t \in Threads, Flush(t)
       PROVE  Persists
  BY <1>13, FlushKeeps DEF Flush, poolVars, ticketVars, threadVars, historyVars, Persists
<1>14. ASSUME NEW t \in Threads, FlushAndRetire(t)
       PROVE  Clears
  <2>1. /\ footprint \subseteq footprint' /\ (overflowed => overflowed')
        /\ Durable =>
             footprint \cup pressure \subseteq footprint' \/ flushFailed' \/ overflowed'
    BY <1>14, FlushKeeps DEF FlushAndRetire
  <2>2. flushFailed => flushFailed'
    BY <1>14, Zenon DEF FlushAndRetire
  <2> QED
    BY <1>14, <2>1, <2>2 DEF FlushAndRetire, poolVars, ticketVars, historyVars, Clears,
                             ShutdownFlagged, ShuttingThread
<1>15. ASSUME NEW t \in Threads, NEW id \in Jobs,
              PublishAsync(t, id) \/ Cancel(t, id) \/ Release(t, id)
       PROVE  Quiet
  BY <1>15 DEF PublishAsync, Cancel, Release, poolVars, fabricVars, threadVars, historyVars,
               Quiet, Planned
<1>16. ASSUME NEW t \in Threads, NEW l \in Lineages, Publish(t, l)
       PROVE  Publishes(l)
  BY <1>16 DEF Publish, GateOpen, poolVars, ticketVars, threadVars, Publishes
<1> QED
  BY <1>1, <1>2, <1>3, <1>4, <1>5, <1>6, <1>7, <1>8, <1>9, <1>10, <1>11, <1>12, <1>13,
     <1>14, <1>15, <1>16 DEF Next, JobStep, CallStep

-----------------------------------------------------------------------------
(* The state lock: whoever has planned holds it, so the ledger that was     *)
(* planned against is the ledger that is committed to.                      *)

LEMMA LockStep ==
    ASSUME AsyncTypes, PoolInv, ShutdownFlagged, PlanStillHolds, [Next]_vars
    PROVE  PlanStillHolds'
<1>t. /\ jstate \in [Workers -> JobStates] /\ plan \in [Workers -> Plans]
      /\ Nobody \notin Workers
      /\ \A w \in Workers : jstate[w] # "none" => wjob[w] \in Jobs
      /\ signal \in [Jobs -> Lineages]
  BY PublishAssumption DEF AsyncTypes, TypeOK, JobsHold, PoolInv, PoolTypeOK, WorkersHold
<1>h. \A w \in Workers : Planned(w) =>
          owner = w /\ (plan[w] = "idempotent" <=> signal[wjob[w]] \in Known)
  BY DEF PlanStillHolds, Planned
<1> SUFFICES ASSUME NEW w \in Workers, Planned(w)'
             PROVE  owner' = w /\ (plan'[w] = "idempotent" <=> signal'[wjob'[w]] \in Known')
  BY DEF PlanStillHolds, Planned
<1> USE DEF ledgerVars
<1>1. CASE Quiet
  BY <1>1, <1>h DEF Quiet, Known
<1>2. ASSUME NEW v \in Workers, GivesUp(v)
      PROVE  FALSE
  BY <1>2, <1>h, <1>t DEF GivesUp, Planned
<1>3. ASSUME NEW v \in Workers, MakesPlan(v)
      PROVE  owner' = w /\ (plan'[w] = "idempotent" <=> signal'[wjob'[w]] \in Known')
  <2>1. w = v /\ owner' = w
    BY <1>3, <1>h, <1>t DEF MakesPlan, Planned
  <2>2. PICK p \in PlansFor(signal[wjob[v]]) : plan' = [plan EXCEPT ![v] = p]
    BY <1>3 DEF MakesPlan
  <2>3. plan'[w] = p /\ (p = "idempotent" <=> signal[wjob[w]] \in Known)
    BY <1>t, <2>1, <2>2 DEF PlansFor
  <2> QED
    BY <1>3, <2>1, <2>3 DEF MakesPlan, Known
<1>4. ASSUME NEW v \in Workers, Commits(v)
      PROVE  FALSE
  BY <1>4, <1>h, <1>t DEF Commits, Planned
<1>5. ASSUME NEW l \in Lineages, Publishes(l)
      PROVE  FALSE
  BY <1>5, <1>h, <1>t DEF Publishes, Planned
<1>6. CASE Persists
  BY <1>6, <1>h DEF Persists, Planned, Known
<1>7. CASE Clears
  BY <1>7, <1>h, <1>t DEF Clears, Planned
<1> QED
  BY <1>1, <1>2, <1>3, <1>4, <1>5, <1>6, <1>7, LedgerCases

-----------------------------------------------------------------------------
(* The ledger's queue of lineages.  A lineage is remembered by a queue when *)
(* only lineages accepted since are behind it, or as many of them were      *)
(* accepted as the queue holds.                                             *)

Fifo(s) ==
    /\ s \in Seq(Lineages)
    /\ Len(s) <= LineageCapacity
    /\ \A i, j \in 1..Len(s) : s[i] = s[j] => i = j

Ahead(s, l, S) == \E i \in 1..Len(s) : s[i] = l /\ \A j \in 1..Len(s) : i < j => s[j] \in S

Remembered(s, l, S) == Cardinality(S) >= LineageCapacity \/ Ahead(s, l, S)

(* t is s with m pushed at its end and, when s is full, its head popped.    *)
Pushed(s, m, t) ==
    \/ Len(s) < LineageCapacity /\ t = Append(s, m)
    \/ Len(s) >= LineageCapacity /\ t = Tail(Append(s, m))

(* The entries of t are those of s and m, moved up by what was popped.      *)
LEMMA PushedEntries ==
    ASSUME NEW s, Fifo(s), NEW m \in Lineages, NEW t, Pushed(s, m, t)
    PROVE  \E d \in {0, 1} :
              /\ t \in Seq(Lineages)
              /\ Len(t) = Len(s) + 1 - d
              /\ d = 0 => Len(s) < LineageCapacity
              /\ d = 1 => Len(s) = LineageCapacity
              /\ \A i \in 1..Len(t) : i + d <= Len(s) => t[i] = s[i + d]
              /\ t[Len(t)] = m
<1>1. s \in Seq(Lineages)
  BY DEF Fifo
<1>2. PICK a : a = Append(s, m)
  OBVIOUS
<1>3. PICK n \in Nat : n = Len(s)
  BY <1>1
<1>4. PICK c \in Nat : c = LineageCapacity /\ c # 0
  BY PublishAssumption
<1>5. /\ a \in Seq(Lineages) /\ a # <<>> /\ Len(a) = n + 1
      /\ (\A i \in 1..n : a[i] = s[i]) /\ a[n + 1] = m
  <2>1. Append(s, m) \in Seq(Lineages) /\ Append(s, m) # <<>>
    BY <1>1, AppendProperties, Zenon
  <2>2. Len(Append(s, m)) = Len(s) + 1
    BY <1>1, AppendProperties, Zenon
  <2>3. \A i \in 1..Len(s) : Append(s, m)[i] = s[i]
    BY <1>1
  <2>4. Append(s, m)[Len(s) + 1] = m
    BY <1>1, AppendProperties, Zenon
  <2>5. Len(a) = n + 1
    BY <1>2, <1>3, <2>2, Zenon
  <2>6. \A i \in 1..n : a[i] = s[i]
    BY <1>2, <1>3, <2>3, Zenon
  <2>7. a[n + 1] = m
    BY <1>2, <1>3, <2>4, Zenon
  <2> QED
    BY <1>2, <2>1, <2>5, <2>6, <2>7, Zenon
<1>6. n <= c
  BY <1>3, <1>4 DEF Fifo
<1>7. CASE n < c /\ t = a
  <2>1. /\ t \in Seq(Lineages) /\ Len(t) = n + 1 - 0
        /\ (\A i \in 1..Len(t) : i + 0 <= n => t[i] = s[i + 0]) /\ t[Len(t)] = m
    BY <1>5, <1>7
  <2> QED
    BY <1>3, <1>4, <1>7, <2>1
<1>8. CASE n >= c /\ t = Tail(a)
  <2>1. /\ t \in Seq(Lineages) /\ Len(t) = (n + 1) - 1
        /\ \A i \in 1..Len(t) : t[i] = a[i + 1]
    BY <1>5, <1>8, HeadTailProperties, Zenon
  <2>2. Len(t) = n /\ n = c /\ n # 0
    BY <1>4, <1>6, <1>8, <2>1
  <2>3. /\ Len(t) = n + 1 - 1
        /\ \A i \in 1..Len(t) : i + 1 <= n => t[i] = s[i + 1]
    BY <1>5, <2>1, <2>2
  <2>4. t[Len(t)] = m
    BY <1>5, <2>1, <2>2
  <2> QED
    BY <1>3, <1>4, <2>1, <2>2, <2>3, <2>4
<1> QED
  BY <1>2, <1>3, <1>4, <1>7, <1>8 DEF Pushed

(* A new lineage is at the end of the queue, and what was remembered is     *)
(* remembered, the lineage that was popped because all the others came      *)
(* after it.                                                                *)
LEMMA PushRemembers ==
    ASSUME NEW s, Fifo(s), NEW m \in Lineages, \A i \in 1..Len(s) : s[i] # m,
           NEW t, Pushed(s, m, t)
    PROVE  /\ Fifo(t)
           /\ Ahead(t, m, {})
           /\ \A l \in Lineages, S \in SUBSET Lineages :
                 Remembered(s, l, S) => Remembered(t, l, S \cup {m})
<1>1. PICK d \in {0, 1} :
              /\ t \in Seq(Lineages)
              /\ Len(t) = Len(s) + 1 - d
              /\ d = 0 => Len(s) < LineageCapacity
              /\ d = 1 => Len(s) = LineageCapacity
              /\ \A i \in 1..Len(t) : i + d <= Len(s) => t[i] = s[i + d]
              /\ t[Len(t)] = m
  BY PushedEntries
<1>2. PICK n \in Nat : n = Len(s)
  BY DEF Fifo
<1>3. PICK k \in Nat : k = Len(t)
  BY <1>1
<1>4. PICK c \in Nat : c = LineageCapacity /\ c # 0
  BY PublishAssumption
<1>5. /\ k = n + 1 - d /\ n <= c /\ (d = 0 => n < c) /\ (d = 1 => n = c) /\ d \in {0, 1}
  BY <1>1, <1>2, <1>3, <1>4 DEF Fifo
<1>6. /\ \A i \in 1..k : i + d <= n => t[i] = s[i + d]
      /\ t[k] = m
      /\ \A i, j \in 1..n : s[i] = s[j] => i = j
      /\ \A i \in 1..n : s[i] # m
  BY <1>1, <1>2, <1>3 DEF Fifo
<1>7. k \in 1..k /\ k <= c /\ \A i \in 1..k : i = k \/ (i + d <= n /\ i + d \in 1..n)
  BY <1>4, <1>5
<1>8. \A i, j \in 1..k : t[i] = t[j] => i = j
  <2> SUFFICES ASSUME NEW i \in 1..k, NEW j \in 1..k, t[i] = t[j] PROVE i = j
    OBVIOUS
  <2>1. CASE i = k \/ j = k
    BY <1>6, <1>7, <2>1
  <2>2. CASE i # k /\ j # k
    <3>1. i + d \in 1..n /\ j + d \in 1..n /\ s[i + d] = s[j + d]
      BY <1>6, <1>7, <2>2
    <3>2. i + d = j + d
      BY <1>6, <3>1
    <3> QED
      BY <1>5, <3>2
  <2> QED
    BY <2>1, <2>2
<1>9. Fifo(t)
  BY <1>1, <1>3, <1>4, <1>7, <1>8 DEF Fifo
<1>10. Ahead(t, m, {})
  <2>1. \A j \in 1..k : ~(k < j)
    BY <1>7
  <2> QED
    BY <1>3, <1>6, <1>7, <2>1 DEF Ahead
<1>11. ASSUME NEW l \in Lineages, NEW S \in SUBSET Lineages, Remembered(s, l, S)
       PROVE  Remembered(t, l, S \cup {m})
  <2>1. IsFiniteSet(S \cup {m}) /\ Cardinality(S) <= Cardinality(S \cup {m})
    <3>1. IsFiniteSet(S \cup {m})
      <4>1. S \cup {m} \in SUBSET Lineages
        OBVIOUS
      <4> QED
        BY <4>1, PublishAssumption, FS_Subset, Zenon
    <3>2. S \in SUBSET (S \cup {m})
      OBVIOUS
    <3> QED
      BY <3>1, <3>2, FS_Subset, Zenon
  <2>2. IsFiniteSet(S)
    BY PublishAssumption, FS_Subset, Zenon
  <2>3. Cardinality(S) \in Nat /\ Cardinality(S \cup {m}) \in Nat
    BY <2>1, <2>2, FS_CardinalityType, Zenon
  <2>4. CASE Cardinality(S) >= LineageCapacity
    BY <1>4, <2>1, <2>3, <2>4 DEF Remembered
  <2>5. ASSUME NEW i \in 1..n, s[i] = l, \A j \in 1..n : i < j => s[j] \in S
        PROVE  Remembered(t, l, S \cup {m})
    <3>1. \A j \in 1..k : i < j + d => t[j] \in S \cup {m}
      <4> SUFFICES ASSUME NEW j \in 1..k, i < j + d PROVE t[j] \in S \cup {m}
        OBVIOUS
      <4> QED
        BY <1>6, <1>7, <2>5
    <3>2. CASE i > d
      <4>1. i - d \in 1..k /\ i - d + d = i
        BY <1>5, <3>2
      <4>2. t[i - d] = l
        BY <1>6, <2>5, <4>1
      <4>3. \A j \in 1..k : i - d < j => t[j] \in S \cup {m}
        <5> SUFFICES ASSUME NEW j \in 1..k, i - d < j PROVE t[j] \in S \cup {m}
          OBVIOUS
        <5>1. i < j + d
          BY <1>5
        <5> QED
          BY <3>1, <5>1
      <4> QED
        BY <1>3, <4>1, <4>2, <4>3 DEF Remembered, Ahead
    <3>3. CASE ~(i > d)
      <4>1. i = 1 /\ d = 1 /\ k = c
        BY <1>5, <3>3
      <4>2. \A j \in 1..c : t[j] \in S \cup {m}
        <5> SUFFICES ASSUME NEW j \in 1..c PROVE t[j] \in S \cup {m}
          OBVIOUS
        <5>1. j \in 1..k /\ i < j + d
          BY <4>1
        <5> QED
          BY <3>1, <5>1
      <4>3. t \in [1..c -> S \cup {m}]
        <5>1. t \in [1..c -> Lineages]
          BY <1>1, <1>3, <4>1
        <5> QED
          BY <4>2, <5>1
      <4>4. \A x, y \in 1..c : t[x] = t[y] => x = y
        BY <1>8, <4>1
      <4>5. Cardinality(1..c) = c
        BY <1>4, FS_Interval
      <4>6. t \in Injection(1..c, S \cup {m})
        BY <4>3, <4>4 DEF Injection, IsInjective
      <4>7. Cardinality(1..c) <= Cardinality(S \cup {m})
        BY <2>1, <4>6, FS_Injection
      <4> QED
        BY <1>4, <2>3, <4>5, <4>7 DEF Remembered
    <3> QED
      BY <3>2, <3>3
  <2> QED
    BY <1>2, <1>11, <2>4, <2>5 DEF Remembered, Ahead
<1> QED
  BY <1>9, <1>10, <1>11

-----------------------------------------------------------------------------
(* A lineage whose pressure was applied is remembered by the ledger until a *)
(* shutdown clears it, and by then nobody can plan or commit any more.      *)

Sealed == shuttingDown /\ \A w \in Workers : ~Planned(w)

OnceInv ==
    /\ Fifo(lineages)
    /\ repeated = {}
    /\ Sealed \/ \A l \in applied : Remembered(lineages, l, since[l])

(* A commit of a lineage that the ledger does not know keeps all that, and  *)
(* is no early repetition: what is remembered and unknown has been followed *)
(* by as many others as the ledger holds.                                   *)
LEMMA OnceCommit ==
    ASSUME AsyncTypes, OnceInv, ~Sealed, NEW l \in Lineages, NEW p, NEW o,
           CommitLedger(l, p, o), p = "complete" => l \notin Known
    PROVE  /\ Fifo(lineages') /\ repeated' = {}
           /\ \A k \in applied' : Remembered(lineages', k, since'[k])
<1>t. /\ lineages \in Seq(Lineages) /\ applied \subseteq Lineages
      /\ since \in [Lineages -> SUBSET Lineages]
      /\ Fifo(lineages) /\ repeated = {}
      /\ \A k \in applied : Remembered(lineages, k, since[k])
  BY DEF AsyncTypes, TypeOK, OnceInv
<1>1. CASE Marks(p, o)
  <2>1. l \notin Known /\ lineages' = Marked(l) /\ Accepts(l)
        /\ (Applies(l) \/ UNCHANGED <<applied, repeated>>)
    BY <1>1 DEF CommitLedger, Marks
  <2>2. \A i \in 1..Len(lineages) : lineages[i] # l
    BY <2>1 DEF Known
  <2>3. Pushed(lineages, l, lineages')
    <3>1. PICK n \in Nat : n = Len(lineages)
      BY <1>t
    <3>2. n < LineageCapacity \/ n >= LineageCapacity
      BY PublishAssumption
    <3> QED
      BY <2>1, <3>1, <3>2 DEF Marked, Pushed
  <2>4. /\ Fifo(lineages') /\ Ahead(lineages', l, {})
        /\ \A k \in Lineages, S \in SUBSET Lineages :
              Remembered(lineages, k, S) => Remembered(lineages', k, S \cup {l})
    BY <1>t, <2>2, <2>3, PushRemembers
  <2>5. \A k \in Lineages :
            since'[k] = IF k \in applied \ {l} THEN since[k] \cup {l} ELSE {}
    BY <2>1 DEF Accepts
  <2>6. applied' \subseteq applied \cup {l}
    BY <2>1 DEF Applies
  <2>7. ASSUME NEW k \in applied'
        PROVE  Remembered(lineages', k, since'[k])
    <3>1. CASE k = l
      BY <2>4, <2>5, <3>1 DEF Remembered
    <3>2. CASE k # l
      <4>1. k \in applied /\ k \in Lineages /\ since[k] \in SUBSET Lineages
        BY <1>t, <2>6, <2>7, <3>2
      <4>2. since'[k] = since[k] \cup {l}
        BY <2>5, <3>2, <4>1
      <4>3. Remembered(lineages, k, since[k])
        BY <1>t, <4>1
      <4> QED
        BY <2>4, <4>1, <4>2, <4>3
    <3> QED
      BY <3>1, <3>2
  <2>8. repeated' = {}
    <3>1. CASE Applies(l)
      <4>1. ASSUME l \in applied PROVE ~(Cardinality(since[l]) < LineageCapacity)
        <5>1. Remembered(lineages, l, since[l])
          BY <1>t, <4>1
        <5>2. ~Ahead(lineages, l, since[l])
          BY <2>2 DEF Ahead
        <5>3. Cardinality(since[l]) \in Nat
          <6>1. since[l] \in SUBSET Lineages
            BY <1>t
          <6>2. IsFiniteSet(since[l])
            BY <6>1, PublishAssumption, FS_Subset, Zenon
          <6> QED
            BY <6>2, FS_CardinalityType, Zenon
        <5> QED
          BY <5>1, <5>2, <5>3, PublishAssumption DEF Remembered
      <4> QED
        BY <1>t, <3>1, <4>1 DEF Applies
    <3>2. CASE UNCHANGED <<applied, repeated>>
      BY <1>t, <3>2
    <3> QED
      BY <2>1, <3>1, <3>2
  <2> QED
    BY <2>4, <2>7, <2>8
<1>2. CASE ~Marks(p, o)
  <2>1. UNCHANGED <<lineages, applied, since, repeated>>
    BY <1>2 DEF CommitLedger, ledgerHistory
  <2> QED
    BY <1>t, <2>1
<1> QED
  BY <1>1, <1>2

LEMMA OnceStep ==
    ASSUME AsyncTypes, PoolInv, ShutdownFlagged, PlanStillHolds, OnceInv, [Next]_vars
    PROVE  OnceInv'
<1>t. /\ jstate \in [Workers -> JobStates] /\ plan \in [Workers -> Plans]
      /\ Nobody \notin Workers
      /\ signal \in [Jobs -> Lineages]
      /\ \A w \in Workers : jstate[w] # "none" => wjob[w] \in Jobs
  BY PublishAssumption DEF AsyncTypes, TypeOK, JobsHold, PoolInv, PoolTypeOK, WorkersHold
<1>h. \A w \in Workers : Planned(w) =>
          owner = w /\ (plan[w] = "idempotent" <=> signal[wjob[w]] \in Known)
  BY DEF PlanStillHolds, Planned
\* The ledger stays, and so do the workers that may plan against it.
<1>s. ASSUME UNCHANGED <<lineages, applied, since, repeated>>, Sealed => Sealed'
      PROVE  OnceInv'
  BY <1>s DEF OnceInv
<1> USE DEF ledgerVars, ledgerHistory
<1>1. CASE Quiet
  BY <1>1, <1>s DEF Quiet, Sealed
<1>2. ASSUME NEW v \in Workers, GivesUp(v)
      PROVE  OnceInv'
  <2>1. Sealed => Sealed'
    BY <1>2, <1>t DEF GivesUp, Sealed, Planned
  <2> QED
    BY <1>2, <1>s, <2>1 DEF GivesUp
<1>3. ASSUME NEW v \in Workers, MakesPlan(v)
      PROVE  OnceInv'
  BY <1>3, <1>s DEF MakesPlan, Sealed
<1>5. ASSUME NEW v \in Workers, Commits(v)
      PROVE  OnceInv'
  <2>1. Planned(v) /\ wjob[v] \in Jobs /\ signal[wjob[v]] \in Lineages
    BY <1>5, <1>t DEF Commits, Planned
  <2>2. ~Sealed /\ (plan[v] = "complete" => signal[wjob[v]] \notin Known)
    BY <1>h, <2>1 DEF Sealed
  <2>3. PICK o : CommitLedger(signal[wjob[v]], plan[v], o)
    BY <1>5 DEF Commits
  <2>4. /\ Fifo(lineages') /\ repeated' = {}
        /\ \A k \in applied' : Remembered(lineages', k, since'[k])
    BY <2>1, <2>2, <2>3, OnceCommit
  <2> QED
    BY <2>4 DEF OnceInv
<1>6. ASSUME NEW l \in Lineages, Publishes(l)
      PROVE  OnceInv'
  <2>1. PICK p \in PlansFor(l) : \E o \in CommitOutcomes(p) : CommitLedger(l, p, o)
    BY <1>6 DEF Publishes
  <2>2. PICK o \in CommitOutcomes(p) : CommitLedger(l, p, o)
    BY <2>1
  <2>3. ~Sealed /\ (p = "complete" => l \notin Known)
    BY <1>6, <2>1 DEF Publishes, Sealed, PlansFor
  <2>4. /\ Fifo(lineages') /\ repeated' = {}
        /\ \A k \in applied' : Remembered(lineages', k, since'[k])
    BY <2>2, <2>3, OnceCommit
  <2> QED
    BY <2>4 DEF OnceInv
<1>7. CASE Persists
  BY <1>7, <1>s DEF Persists, Sealed, Planned
<1>8. CASE Clears
  <2>1. Sealed'
    BY <1>8, <1>h, <1>t DEF Clears, Sealed, Planned
  <2>2. lineages' = <<>> /\ repeated' = {}
    BY <1>8 DEF Clears, OnceInv
  <2>3. Fifo(<<>>)
    BY PublishAssumption DEF Fifo
  <2> QED
    BY <2>1, <2>2, <2>3 DEF OnceInv
<1> QED
  BY <1>1, <1>2, <1>3, <1>5, <1>6, <1>7, <1>8, LedgerCases

(* Applied pressure leaves the ledger only when shutdown clears it, after   *)
(* the flush that wrote it, counted that it could not, or said so.          *)
LEMMA KeptStep ==
    ASSUME AsyncTypes, PoolInv, ShutdownFlagged, PressureIsNotForgotten, [Next]_vars
    PROVE  PressureIsNotForgotten'
<1> USE DEF ledgerVars, ledgerHistory, listVars, PressureIsNotForgotten
<1>1. CASE Quiet
  BY <1>1 DEF Quiet
<1>2. ASSUME NEW v \in Workers, GivesUp(v) \/ MakesPlan(v)
      PROVE  PressureIsNotForgotten'
  BY <1>2 DEF GivesUp, MakesPlan
<1>3. ASSUME NEW l, NEW p, NEW o, CommitLedger(l, p, o), UNCHANGED <<listVars, flushFailed>>
      PROVE  PressureIsNotForgotten'
  <2>1. \/ pressure' = pressure \cup {l} /\ applied' = applied \cup {l}
        \/ UNCHANGED <<pressure, applied>>
    BY <1>3 DEF CommitLedger, Applies
  <2> QED
    BY <1>3, <2>1
<1>4. ASSUME NEW v \in Workers, Commits(v)
      PROVE  PressureIsNotForgotten'
  <2>1. PICK o : CommitLedger(signal[wjob[v]], plan[v], o)
    BY <1>4 DEF Commits
  <2> QED
    BY <1>3, <1>4, <2>1 DEF Commits
<1>5. ASSUME NEW l \in Lineages, Publishes(l)
      PROVE  PressureIsNotForgotten'
  <2>1. PICK p \in PlansFor(l) : \E o \in CommitOutcomes(p) : CommitLedger(l, p, o)
    BY <1>5 DEF Publishes
  <2>2. PICK o \in CommitOutcomes(p) : CommitLedger(l, p, o)
    BY <2>1
  <2> QED
    BY <1>3, <1>5, <2>2 DEF Publishes
<1>6. CASE Persists
  BY <1>6 DEF Persists
<1>7. CASE Clears
  BY <1>7 DEF Clears
<1> QED
  BY <1>1, <1>2, <1>4, <1>5, <1>6, <1>7, LedgerCases

-----------------------------------------------------------------------------

LedgerInv == ShutdownFlagged /\ PlanStillHolds /\ OnceInv /\ PressureIsNotForgotten

(* The inductive invariant holds always.                                    *)
LEMMA LedgerAlways == Spec => []LedgerInv
<1>1. Init => LedgerInv
  <2>1. Fifo(<<>>)
    BY PublishAssumption DEF Fifo
  <2> QED
    BY <2>1 DEF Init, LedgerInv, ShutdownFlagged, ShuttingThread, PlanStillHolds, OnceInv,
                PressureIsNotForgotten
<1>2. AsyncTypes /\ PoolInv /\ LedgerInv /\ [Next]_vars => LedgerInv'
  BY ShutdownFlaggedStep, LockStep, OnceStep, KeptStep DEF LedgerInv, AsyncTypes
<1>3. Spec => []PoolInv
  BY FabricRunsPool, PoolInvariant
<1>4. Spec => []AsyncTypes
  BY <1>3, AsyncTypesInit, AsyncTypesStep, CallsHoldAlways, PTL DEF Spec
<1> QED
  BY <1>1, <1>2, <1>3, <1>4, PTL DEF Spec

(* For any number of workers and callers, the ledger a worker planned       *)
(* against does not move before it commits, whichever synchronous publishes *)
(* and shutdowns run beside it.                                             *)
THEOREM PlanAlwaysHolds == Spec => []PlanStillHolds
<1>1. LedgerInv => PlanStillHolds
  BY DEF LedgerInv
<1> QED
  BY <1>1, LedgerAlways, PTL

(* For any capacity of the ledger, a replayed lineage has no effect until   *)
(* as many other lineages as the ledger holds were accepted since, across   *)
(* workers, callers, failed commits, retries and a shutdown.                *)
THEOREM PressureAppliedOnce == Spec => []AppliedOnce
<1>1. LedgerInv => AppliedOnce
  BY DEF LedgerInv, OnceInv, AppliedOnce
<1> QED
  BY <1>1, LedgerAlways, PTL

(* With a store, applied pressure is in the ledger or in the durable        *)
(* footprint, unless shutdown said that it could not write the footprint or *)
(* the list overflowed and the overflow is counted.                         *)
THEOREM PressureNeverForgotten == Spec => []PressureIsNotForgotten
<1>1. LedgerInv => PressureIsNotForgotten
  BY DEF LedgerInv
<1> QED
  BY <1>1, LedgerAlways, PTL
=============================================================================
