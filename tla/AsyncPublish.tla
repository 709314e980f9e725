---------------------------- MODULE AsyncPublish ----------------------------
(***************************************************************************)
(* Asynchronous publishing in the fabric runtime (Fabric in                *)
(* runtime/fabric.cpp): publish_async() issues a ticket and submits a job  *)
(* to the worker pool; the job runs publish_locked() under the state lock  *)
(* and settles the ticket; cancel(), release_ticket(), drain(), flush()    *)
(* and shutdown() run against it from other threads.                       *)
(*                                                                         *)
(* The pool is the module WorkerPool, whose actions are conjuncts of the   *)
(* actions here; its jobs are the tickets' identifiers.  Each critical     *)
(* section of ticket_mutex_ and each load of an atomic that another thread *)
(* may store between two locks is one action.  publish_locked() holds      *)
(* Fabric::mutex_ (the variable owner) over three actions, because a       *)
(* cancellation may arrive between the plan and the commit boundary.       *)
(*                                                                         *)
(* The engine and the durable store appear by what they may answer: a plan *)
(* is refused, idempotent, complete or truncated, and a commit may fail in *)
(* the journal or in a full ledger.  The ledger's lineages are the bounded *)
(* FIFO of PropagationLedger, and the durable footprint the bounded list   *)
(* of DurableStore.  Each lineage stands for the resource its signal       *)
(* presses on as well.                                                     *)
(***************************************************************************)
EXTENDS WorkerPool

CONSTANTS
    Lineages,   \* the lineage digests of the signals that are published
    Nobody,     \* the owner of a free Fabric::mutex_
    MaxTickets, \* config_.max_tickets
    LineageCapacity,    \* ledger_.lineage_capacity_
    Durable,    \* store_ # nullptr
    MaxFootprint,   \* config_.max_revalidation_entries
    Calls       \* the calls the threads make, besides publish_async()

ASSUME PublishAssumption ==
    /\ Nobody \notin Workers
    /\ MaxTickets \in Nat \ {0}
    /\ LineageCapacity \in Nat \ {0}
    /\ Durable \in BOOLEAN
    /\ MaxFootprint \in Nat \ {0}
    /\ IsFiniteSet(Jobs)
    /\ IsFiniteSet(Lineages)
    /\ Calls \subseteq {"cancel", "release", "publish", "registry", "flush", "drain",
                        "shutdown"}

VARIABLES
    shuttingDown,   \* shutting_down_
    live,           \* the signals' publisher is registered and Live
    lineages,       \* lineage_order_, the lineages the ledger holds, oldest first
    pressure,       \* the lineages whose pressure the ledger holds
    footprint,      \* the lineages whose pressure the durable footprint names
    overflowed,     \* state_.footprint_overflow > 0
    flushFailed,    \* shutdown's flush returned an error
    owner           \* the worker that holds Fabric::mutex_, or Nobody

listVars == <<footprint, overflowed>>
fabricVars == <<shuttingDown, live, lineages, pressure, listVars, flushFailed, owner>>

VARIABLES
    issued,         \* the identifiers next_ticket_ has given out
    signal,         \* the lineage of the signal each ticket publishes
    tkt,            \* the state of each ticket; "absent" when not in tickets_
    committed,      \* PublishTicket::committed
    cancelled,      \* PublishTicket::cancelled
    flag,           \* *PublishTicket::cancel_flag
    order           \* ticket_order_

ticketVars == <<issued, signal, tkt, committed, cancelled, flag, order>>

VARIABLES
    cstate,         \* where each calling thread is in a fabric call
    cticket,        \* the ticket its publish_async() handles
    jstate,         \* where each worker is in its job
    plan,           \* the outcome of phase 1 of its publish_locked()
    verdict         \* what it will store in the ticket

threadVars == <<cstate, cticket, jstate, plan, verdict>>

VARIABLES
    effected,       \* the tickets whose publish changed the ledger (history)
    crossed,        \* the tickets whose publish reached its end (history)
    asked,          \* the tickets whose flag was raised in time (history)
    applied,        \* the lineages whose pressure was ever applied (history)
    since,          \* the lineages accepted since each of these was (history)
    repeated        \* the lineages applied again too early (history)

ledgerHistory == <<applied, since, repeated>>
historyVars == <<effected, crossed, asked, ledgerHistory>>

vars == <<poolVars, fabricVars, ticketVars, threadVars, historyVars>>

(* What a worker holds before it has planned and before it has a verdict.   *)
NoPlan == "none"
NoVerdict == [state |-> "Failed", committed |-> FALSE]

TicketStates == {"absent", "Pending", "Running", "Completed", "Failed", "Cancelled"}
CallStates == {"out", "insert", "submit", "erase", "sdCancel", "sdStop", "sdFlush"}
JobStates == {"none", "mark", "load", "lock", "boundary", "commit", "settle", "return"}
Plans == {NoPlan, "idempotent", "complete", "truncated"}
Verdicts == [state : {"Completed", "Failed", "Cancelled"}, committed : BOOLEAN]

Present == {id \in Jobs : tkt[id] # "absent"}
InFlight(id) == tkt[id] \in {"Pending", "Running"}
Settled(id) == tkt[id] \in {"Completed", "Failed", "Cancelled"}

-----------------------------------------------------------------------------
(* A fabric that open() has just returned, with a publisher registered.     *)
Init ==
    /\ PoolInit
    /\ shuttingDown = FALSE
    /\ live = TRUE
    /\ lineages = <<>>
    /\ pressure = {}
    /\ footprint = {}
    /\ overflowed = FALSE
    /\ flushFailed = FALSE
    /\ owner = Nobody
    /\ issued = {}
    /\ signal \in [Jobs -> Lineages]
    /\ tkt = [id \in Jobs |-> "absent"]
    /\ committed = [id \in Jobs |-> FALSE]
    /\ cancelled = [id \in Jobs |-> FALSE]
    /\ flag = [id \in Jobs |-> FALSE]
    /\ order = <<>>
    /\ cstate = [t \in Threads |-> "out"]
    /\ cticket = [t \in Threads |-> NoJob]
    /\ jstate = [w \in Workers |-> "none"]
    /\ plan = [w \in Workers |-> NoPlan]
    /\ verdict = [w \in Workers |-> NoVerdict]
    /\ effected = {}
    /\ crossed = {}
    /\ asked = {}
    /\ applied = {}
    /\ since = [l \in Lineages |-> {}]
    /\ repeated = {}

(* A thread may begin a call when it is in none.                            *)
Free(t) == cstate[t] = "out" /\ tstate[t] = "out"

-----------------------------------------------------------------------------
(* publish_async(), first part: the two refusals and a fresh identifier.    *)
PublishAsync(t, id) ==
    /\ Free(t)
    /\ ~shuttingDown
    /\ started
    /\ id \notin issued
    /\ issued' = issued \cup {id}
    /\ cstate' = [cstate EXCEPT ![t] = "insert"]
    /\ cticket' = [cticket EXCEPT ![t] = id]
    /\ UNCHANGED <<poolVars, fabricVars, signal, tkt, committed, cancelled, flag, order,
                   jstate, plan, verdict, historyVars>>

(* ticket_order_ without its k-th entry, and without a given identifier.    *)
DropAt(s, k) == [i \in 1..(Len(s) - 1) |-> IF i < k THEN s[i] ELSE s[i + 1]]
Drop(s, id) ==
    IF \E k \in 1..Len(s) : s[k] = id
    THEN DropAt(s, CHOOSE k \in 1..Len(s) : s[k] = id)
    ELSE s

(* The oldest settled tickets, which a full ticket store may reclaim.       *)
Reclaimable ==
    {k \in 1..Len(order) :
        /\ Settled(order[k])
        /\ \A i \in 1..(k - 1) : ~Settled(order[i])}

(* The fields of an erased ticket go with it.  Its flag does too: a job     *)
(* that shares it has marked the ticket Running, and is not erased.         *)
Forget(id) ==
    /\ committed' = [committed EXCEPT ![id] = FALSE]
    /\ cancelled' = [cancelled EXCEPT ![id] = FALSE]
    /\ flag' = [flag EXCEPT ![id] = FALSE]

(* publish_async() returns to its caller.                                   *)
Return(t) ==
    /\ cstate' = [cstate EXCEPT ![t] = "out"]
    /\ cticket' = [cticket EXCEPT ![t] = NoJob]

(* publish_async() under ticket_mutex_: the ticket is inserted, after a     *)
(* settled one has been reclaimed if the store is full, or refused.         *)
InsertTicket(t) ==
    LET id == cticket[t]
    IN  /\ cstate[t] = "insert"
        /\ \/ /\ Cardinality(Present) < MaxTickets
              /\ order' = Append(order, id)
              /\ tkt' = [tkt EXCEPT ![id] = "Pending"]
              /\ cstate' = [cstate EXCEPT ![t] = "submit"]
              /\ UNCHANGED <<committed, cancelled, flag, cticket>>
           \/ /\ Cardinality(Present) >= MaxTickets
              /\ \E k \in Reclaimable :
                    /\ order' = Append(DropAt(order, k), id)
                    /\ tkt' = [tkt EXCEPT ![order[k]] = "absent", ![id] = "Pending"]
                    /\ Forget(order[k])
              /\ cstate' = [cstate EXCEPT ![t] = "submit"]
              /\ UNCHANGED cticket
           \/ /\ Cardinality(Present) >= MaxTickets
              /\ Reclaimable = {}
              /\ Return(t)
              /\ UNCHANGED <<order, tkt, committed, cancelled, flag>>
        /\ UNCHANGED <<poolVars, fabricVars, issued, signal, jstate, plan, verdict,
                       historyVars>>

(* publish_async(), the submission.                                         *)
SubmitTicket(t) ==
    /\ cstate[t] = "submit"
    /\ Submit(t, cticket[t])
    /\ Return(t)
    /\ UNCHANGED <<fabricVars, ticketVars, jstate, plan, verdict, historyVars>>

(* Mutant: a refused submission returns without taking the ticket back.     *)
SubmitRefusedLeaks(t) ==
    /\ cstate[t] = "submit"
    /\ ~CanSubmit
    /\ Return(t)
    /\ UNCHANGED <<poolVars, fabricVars, ticketVars, jstate, plan, verdict, historyVars>>

SubmitRefused(t) ==
    /\ cstate[t] = "submit"
    /\ ~CanSubmit
    /\ cstate' = [cstate EXCEPT ![t] = "erase"]
    /\ UNCHANGED <<poolVars, fabricVars, ticketVars, cticket, jstate, plan, verdict,
                   historyVars>>

(* publish_async() after a refused submission: the ticket is taken back.    *)
EraseRefused(t) ==
    /\ cstate[t] = "erase"
    /\ tkt' = [tkt EXCEPT ![cticket[t]] = "absent"]
    /\ Forget(cticket[t])
    /\ order' = Drop(order, cticket[t])
    /\ Return(t)
    /\ UNCHANGED <<poolVars, fabricVars, issued, signal, jstate, plan, verdict,
                   historyVars>>

-----------------------------------------------------------------------------
(* The ticket's publish is past its cancellation boundary.                  *)
PastBoundary(id) ==
    \/ ~InFlight(id)
    \/ \E w \in Workers : wjob[w] = id /\ jstate[w] \in {"commit", "settle", "return"}

(* cancel() and release_ticket(), for an identifier publish_async() has     *)
(* returned.                                                                *)
Cancel(t, id) ==
    /\ "cancel" \in Calls
    /\ Free(t)
    /\ id \in accepted
    /\ tkt[id] # "absent"
    /\ flag' = [flag EXCEPT ![id] = TRUE]
    /\ tkt' = [tkt EXCEPT ![id] = IF @ = "Pending" THEN "Cancelled" ELSE @]
    /\ cancelled' = [cancelled EXCEPT ![id] = @ \/ tkt[id] = "Pending"]
    /\ committed' = [committed EXCEPT ![id] = @ /\ tkt[id] # "Pending"]
    /\ asked' = IF PastBoundary(id) THEN asked ELSE asked \cup {id}
    /\ UNCHANGED <<poolVars, fabricVars, issued, signal, order, threadVars, effected,
                   crossed, ledgerHistory>>

(* Mutant: release_ticket() does not look at the ticket's state.            *)
ReleaseInFlight(t, id) ==
    /\ "release" \in Calls
    /\ Free(t)
    /\ id \in accepted
    /\ tkt[id] # "absent"
    /\ tkt' = [tkt EXCEPT ![id] = "absent"]
    /\ Forget(id)
    /\ order' = Drop(order, id)
    /\ UNCHANGED <<poolVars, fabricVars, issued, signal, threadVars, historyVars>>

(* Mutant: release_ticket() leaves the identifier in ticket_order_.         *)
ReleaseKeepsOrder(t, id) ==
    /\ "release" \in Calls
    /\ Free(t)
    /\ id \in accepted
    /\ tkt[id] # "absent"
    /\ ~InFlight(id)
    /\ tkt' = [tkt EXCEPT ![id] = "absent"]
    /\ Forget(id)
    /\ UNCHANGED <<poolVars, fabricVars, issued, signal, order, threadVars, historyVars>>

Release(t, id) ==
    /\ "release" \in Calls
    /\ Free(t)
    /\ id \in accepted
    /\ tkt[id] # "absent"
    /\ ~InFlight(id)
    /\ tkt' = [tkt EXCEPT ![id] = "absent"]
    /\ Forget(id)
    /\ order' = Drop(order, id)
    /\ UNCHANGED <<poolVars, fabricVars, issued, signal, threadVars, historyVars>>

-----------------------------------------------------------------------------
(* The job.  The worker takes it from the queue, marks the ticket Running,  *)
(* fetches its cancellation flag and loads it.  A ticket that is gone ends  *)
(* the job.                                                                 *)
TakeJob(w) ==
    /\ Take(w)
    /\ jstate' = [jstate EXCEPT ![w] = "mark"]
    /\ UNCHANGED <<fabricVars, ticketVars, cstate, cticket, plan, verdict, historyVars>>

MarkRunning(w) ==
    /\ jstate[w] = "mark"
    /\ tkt' = [tkt EXCEPT ![wjob[w]] = IF @ = "absent" THEN @ ELSE "Running"]
    /\ jstate' = [jstate EXCEPT ![w] = "load"]
    /\ UNCHANGED <<poolVars, fabricVars, issued, signal, committed, cancelled, flag,
                   order, cstate, cticket, plan, verdict, historyVars>>

(* The verdict that will be stored in the ticket; the state lock is free.   *)
Conclude(w, state, isCommitted) ==
    /\ verdict' = [verdict EXCEPT ![w] = [state |-> state, committed |-> isCommitted]]
    /\ jstate' = [jstate EXCEPT ![w] = "settle"]
    /\ plan' = [plan EXCEPT ![w] = NoPlan]
    /\ owner' = Nobody

LoadFlag(w) ==
    LET id == wjob[w]
    IN  /\ jstate[w] = "load"
        /\ \/ /\ tkt[id] = "absent"
              /\ jstate' = [jstate EXCEPT ![w] = "return"]
              /\ UNCHANGED verdict
           \/ /\ tkt[id] # "absent"
              /\ flag[id]
              /\ verdict' = [verdict EXCEPT ![w] = [state |-> "Cancelled", committed |-> FALSE]]
              /\ jstate' = [jstate EXCEPT ![w] = "settle"]
           \/ /\ tkt[id] # "absent"
              /\ ~flag[id]
              /\ jstate' = [jstate EXCEPT ![w] = "lock"]
              /\ UNCHANGED verdict
        /\ UNCHANGED <<poolVars, fabricVars, ticketVars, cstate, cticket, plan, historyVars>>

-----------------------------------------------------------------------------
(* publish_locked(): the gates that refuse a signal before it is planned    *)
(* and the plans a side-effect free run of the engine may produce.  A       *)
(* lineage the ledger holds is idempotent, any other is traversed, one that *)
(* the ledger has evicted with the others.                                  *)
GateOpen == ~shuttingDown /\ live

(* has_lineage()                                                            *)
Known == {lineages[i] : i \in 1..Len(lineages)}

PlansFor(l) == IF l \in Known THEN {"idempotent"} ELSE {"complete", "truncated"}

(* Phases 2 to 4 for a plan that was made: the lineage is journalled, the   *)
(* engine runs again, and the attempt is committed.                         *)
(*   intentFails  begin_attempt() or record_lineage() fails                 *)
(*   ledgerFull   the application ledger overflows after the lineage was    *)
(*                marked and perhaps some pressure recorded                 *)
(*   sealFails    commit_attempt() fails                                    *)
CommitOutcomes(p) ==
    {"ok"}
        \cup (IF Durable /\ p # "idempotent" THEN {"intentFails", "sealFails"} ELSE {})
        \cup (IF p = "complete" THEN {"ledgerFull"} ELSE {})

Marks(p, o) == p = "complete" /\ o # "intentFails"

(* Mutant: the ledger evicts one lineage too early.                         *)
MarkedEarly(l) ==
    CASE l \in Known -> lineages
      [] l \notin Known /\ Len(lineages) + 1 < LineageCapacity -> Append(lineages, l)
      [] l \notin Known /\ Len(lineages) + 1 >= LineageCapacity -> Tail(Append(lineages, l))

(* mark_lineage(): a new lineage pushes the oldest one out of a full ledger. *)
Marked(l) ==
    CASE l \in Known -> lineages
      [] l \notin Known /\ Len(lineages) < LineageCapacity -> Append(lineages, l)
      [] l \notin Known /\ Len(lineages) >= LineageCapacity -> Tail(Append(lineages, l))

(* History: what has been accepted since, and whether an application comes  *)
(* before the ledger may have forgotten the last one.                       *)
Accepts(l) == since' = [k \in Lineages |-> IF k \in applied \ {l} THEN since[k] \cup {l} ELSE {}]
Applies(l) ==
    /\ applied' = applied \cup {l}
    /\ repeated' = IF l \in applied /\ Cardinality(since[l]) < LineageCapacity
                   THEN repeated \cup {l}
                   ELSE repeated

(* The ledger after a commit: nothing changes unless the plan is complete.  *)
(* A ledger that overflows holds the lineage and part of the pressure, or   *)
(* none of it.                                                              *)
CommitLedger(l, p, o) ==
    \/ /\ Marks(p, o)
       /\ lineages' = Marked(l)
       /\ pressure' = pressure \cup {l}
       /\ Accepts(l)
       /\ Applies(l)
    \/ /\ Marks(p, o)
       /\ o = "ledgerFull"
       /\ lineages' = Marked(l)
       /\ Accepts(l)
       /\ UNCHANGED <<pressure, applied, repeated>>
    \/ /\ ~Marks(p, o)
       /\ UNCHANGED <<lineages, pressure, ledgerHistory>>

(* Mutant: a refused publish leaves the ticket in its default state.        *)
PlanRefusedUnset(w) ==
    /\ jstate[w] = "lock"
    /\ owner = Nobody
    /\ Conclude(w, "Pending", FALSE)
    /\ UNCHANGED <<poolVars, shuttingDown, live, lineages, pressure, listVars,
                   flushFailed, ticketVars, cstate, cticket, historyVars>>

(* publish_locked() up to the plan, with the state lock taken.              *)
PlanRefused(w) ==
    /\ jstate[w] = "lock"
    /\ owner = Nobody
    /\ Conclude(w, "Failed", FALSE)
    /\ UNCHANGED <<poolVars, shuttingDown, live, lineages, pressure, listVars,
                   flushFailed, ticketVars, cstate, cticket, historyVars>>

Plan(w) ==
    /\ jstate[w] = "lock"
    /\ owner = Nobody
    /\ GateOpen
    /\ \E p \in PlansFor(signal[wjob[w]]) : plan' = [plan EXCEPT ![w] = p]
    /\ owner' = w
    /\ jstate' = [jstate EXCEPT ![w] = "boundary"]
    /\ UNCHANGED <<poolVars, shuttingDown, live, lineages, pressure, listVars,
                   flushFailed, ticketVars, cstate, cticket, verdict, historyVars>>

(* Mutant: the flag is not loaded again at the boundary.                    *)
BoundaryUnchecked(w) ==
    /\ jstate[w] = "boundary"
    /\ jstate' = [jstate EXCEPT ![w] = "commit"]
    /\ UNCHANGED <<poolVars, fabricVars, ticketVars, cstate, cticket, plan, verdict,
                   historyVars>>

(* The cancellation boundary.                                               *)
Boundary(w) ==
    /\ jstate[w] = "boundary"
    /\ \/ /\ flag[wjob[w]]
          /\ Conclude(w, "Cancelled", FALSE)
       \/ /\ ~flag[wjob[w]]
          /\ jstate' = [jstate EXCEPT ![w] = "commit"]
          /\ UNCHANGED <<verdict, plan, owner>>
    /\ UNCHANGED <<poolVars, shuttingDown, live, lineages, pressure, listVars,
                   flushFailed, ticketVars, cstate, cticket, historyVars>>

(* Mutant: the status of commit_attempt() is ignored.                       *)
CommitIgnoresSeal(w) ==
    LET id == wjob[w]
    IN  /\ jstate[w] = "commit"
        /\ \E o \in CommitOutcomes(plan[w]) :
            /\ CommitLedger(signal[id], plan[w], o)
            /\ effected' = IF Marks(plan[w], o) THEN effected \cup {id} ELSE effected
            /\ crossed' = IF o = "ok" THEN crossed \cup {id} ELSE crossed
            /\ Conclude(w, IF o \in {"ok", "sealFails"} THEN "Completed" ELSE "Failed",
                           o \in {"ok", "ledgerFull"})
        /\ UNCHANGED <<poolVars, shuttingDown, live, listVars, flushFailed, ticketVars,
                       cstate, cticket, asked>>

(* The commit, and what the job makes of its result: an outcome whose       *)
(* status is an error but whose counters accepted the signal is a Failed    *)
(* ticket that says committed.                                              *)
Commit(w) ==
    LET id == wjob[w]
    IN  /\ jstate[w] = "commit"
        /\ \E o \in CommitOutcomes(plan[w]) :
            /\ CommitLedger(signal[id], plan[w], o)
            /\ effected' = IF Marks(plan[w], o) THEN effected \cup {id} ELSE effected
            /\ crossed' = IF o = "ok" THEN crossed \cup {id} ELSE crossed
            /\ Conclude(w, IF o = "ok" THEN "Completed" ELSE "Failed",
                           o \in {"ok", "ledgerFull"})
        /\ UNCHANGED <<poolVars, shuttingDown, live, listVars, flushFailed, ticketVars,
                       cstate, cticket, asked>>

(* complete_ticket(): tickets_[id] is overwritten, or created.              *)
Settle(w) ==
    LET id == wjob[w]
    IN  /\ jstate[w] = "settle"
        /\ tkt' = [tkt EXCEPT ![id] = verdict[w].state]
        /\ committed' = [committed EXCEPT ![id] = verdict[w].committed]
        /\ cancelled' = [cancelled EXCEPT ![id] = verdict[w].state = "Cancelled"]
        /\ verdict' = [verdict EXCEPT ![w] = NoVerdict]
        /\ jstate' = [jstate EXCEPT ![w] = "return"]
        /\ UNCHANGED <<poolVars, fabricVars, issued, signal, flag, order, cstate, cticket,
                       plan, historyVars>>

FinishJob(w) ==
    /\ jstate[w] = "return"
    /\ Finish(w)
    /\ jstate' = [jstate EXCEPT ![w] = "none"]
    /\ UNCHANGED <<fabricVars, ticketVars, cstate, cticket, plan, verdict, historyVars>>

-----------------------------------------------------------------------------
(* Mutant: publish() does not take the state lock.                          *)
PublishUnlocked(t, l) ==
    /\ "publish" \in Calls
    /\ Free(t)
    /\ GateOpen
    /\ \E p \in PlansFor(l) : \E o \in CommitOutcomes(p) : CommitLedger(l, p, o)
    /\ UNCHANGED <<poolVars, shuttingDown, live, listVars, flushFailed, owner, ticketVars,
                   threadVars, effected, crossed, asked>>

(* Calls that hold Fabric::mutex_ from start to end.  publish(): the same   *)
(* phases on the caller's thread, with no ticket and no boundary.           *)
Publish(t, l) ==
    /\ "publish" \in Calls
    /\ Free(t)
    /\ owner = Nobody
    /\ GateOpen
    /\ \E p \in PlansFor(l) : \E o \in CommitOutcomes(p) : CommitLedger(l, p, o)
    /\ UNCHANGED <<poolVars, shuttingDown, live, listVars, flushFailed, owner, ticketVars,
                   threadVars, effected, crossed, asked>>

(* register_publisher() and retire_publisher() for the signals' publisher.  *)
Register(t) ==
    /\ "registry" \in Calls
    /\ Free(t)
    /\ owner = Nobody
    /\ ~shuttingDown
    /\ live' = TRUE
    /\ UNCHANGED <<poolVars, shuttingDown, lineages, pressure, listVars, flushFailed,
                   owner, ticketVars, threadVars, historyVars>>

Retire(t) ==
    /\ "registry" \in Calls
    /\ Free(t)
    /\ owner = Nobody
    /\ live' = FALSE
    /\ UNCHANGED <<poolVars, shuttingDown, lineages, pressure, listVars, flushFailed,
                   owner, ticketVars, threadVars, historyVars>>

(* record_pressure_footprint() of some of the pressure: what the durable    *)
(* list has no room for is dropped and counted, and no error is returned.   *)
Record(named) ==
    \/ /\ Cardinality(footprint \cup named) <= MaxFootprint
       /\ footprint' = footprint \cup named
       /\ UNCHANGED overflowed
    \/ /\ Cardinality(footprint \cup named) > MaxFootprint
       /\ footprint' \in SUBSET (footprint \cup named)
       /\ footprint \subseteq footprint'
       /\ Cardinality(footprint') = MaxFootprint
       /\ overflowed' = TRUE

(* flush_locked(): the durable footprint names every resource under         *)
(* pressure, chunk by chunk.  An error leaves it with the chunks before;    *)
(* without a store there is nothing to write and nothing to fail.           *)
FlushOk ==
    \/ Durable /\ Record(pressure)
    \/ ~Durable /\ UNCHANGED listVars
FlushError == Durable /\ \E named \in SUBSET pressure : Record(named)

Flush(t) ==
    /\ "flush" \in Calls
    /\ Free(t)
    /\ owner = Nobody
    /\ FlushOk \/ FlushError
    /\ UNCHANGED <<poolVars, shuttingDown, live, lineages, pressure, flushFailed, owner,
                   ticketVars, threadVars, historyVars>>

(* drain()                                                                  *)
DrainFabric(t) ==
    /\ "drain" \in Calls
    /\ Free(t)
    /\ Drain(t)
    /\ UNCHANGED <<fabricVars, ticketVars, threadVars, historyVars>>

-----------------------------------------------------------------------------
(* shutdown().  Only the call whose exchange finds the flag clear goes on.  *)
Shutdown(t) ==
    /\ "shutdown" \in Calls
    /\ Free(t)
    /\ ~shuttingDown
    /\ shuttingDown' = TRUE
    /\ cstate' = [cstate EXCEPT ![t] = "sdCancel"]
    /\ UNCHANGED <<poolVars, live, lineages, pressure, listVars, flushFailed, owner,
                   ticketVars, cticket, jstate, plan, verdict, historyVars>>

(* Step 1, under ticket_mutex_: every ticket's flag is raised and every     *)
(* Pending ticket is Cancelled.                                             *)
CancelAll(t) ==
    /\ cstate[t] = "sdCancel"
    /\ flag' = [id \in Jobs |-> flag[id] \/ tkt[id] # "absent"]
    /\ tkt' = [id \in Jobs |-> IF tkt[id] = "Pending" THEN "Cancelled" ELSE tkt[id]]
    /\ cancelled' = [id \in Jobs |-> cancelled[id] \/ tkt[id] = "Pending"]
    /\ committed' = [id \in Jobs |-> committed[id] /\ tkt[id] # "Pending"]
    /\ asked' = asked \cup {id \in Jobs : ~PastBoundary(id)}
    /\ cstate' = [cstate EXCEPT ![t] = "sdStop"]
    /\ UNCHANGED <<poolVars, fabricVars, issued, signal, order, cticket, jstate, plan,
                   verdict, effected, crossed, ledgerHistory>>

(* Step 2: abort(), whose notify and join are the pool's own steps.         *)
AbortPool(t) ==
    /\ cstate[t] = "sdStop"
    /\ Stop(t, TRUE)
    /\ cstate' = [cstate EXCEPT ![t] = "sdFlush"]
    /\ UNCHANGED <<fabricVars, ticketVars, cticket, jstate, plan, verdict, historyVars>>

(* Mutant: the ledger is cleared before the footprint is taken from it.     *)
ClearBeforeFlush(t) ==
    /\ cstate[t] = "sdFlush"
    /\ tstate[t] = "out"
    /\ owner = Nobody
    /\ live' = FALSE
    /\ lineages' = <<>>
    /\ pressure' = {}
    /\ cstate' = [cstate EXCEPT ![t] = "out"]
    /\ UNCHANGED <<poolVars, shuttingDown, listVars, flushFailed, owner, ticketVars, cticket, jstate,
                   plan, verdict, historyVars>>

(* Step 3, under the state lock, once the workers are joined: the pressure  *)
(* footprint is persisted, or that fails; every publisher is retired and    *)
(* the ledger cleared.                                                      *)
FlushAndRetire(t) ==
    /\ cstate[t] = "sdFlush"
    /\ tstate[t] = "out"
    /\ owner = Nobody
    /\ \/ FlushOk /\ UNCHANGED flushFailed
       \/ FlushError /\ flushFailed' = TRUE
    /\ live' = FALSE
    /\ lineages' = <<>>
    /\ pressure' = {}
    /\ cstate' = [cstate EXCEPT ![t] = "out"]
    /\ UNCHANGED <<poolVars, shuttingDown, owner, ticketVars, cticket, jstate, plan,
                   verdict, historyVars>>

ShutdownDone ==
    shuttingDown /\ \A t \in Threads : cstate[t] \notin {"sdCancel", "sdStop", "sdFlush"}

-----------------------------------------------------------------------------
(* The steps of the pool that leave the fabric alone.  A spurious wakeup is *)
(* left to WorkerPool: the fabric can not tell it from a notify.            *)
FabricUnchanged == UNCHANGED <<fabricVars, ticketVars, threadVars, historyVars>>

PoolWorkerStep(w) == (Sleep(w) \/ Leave(w) \/ Exit(w)) /\ FabricUnchanged
PoolThreadStep(t) == ThreadStep(t) /\ FabricUnchanged

JobStep(w) ==
    \/ MarkRunning(w) \/ LoadFlag(w) \/ PlanRefused(w) \/ Plan(w) \/ Boundary(w)
    \/ Commit(w) \/ Settle(w) \/ FinishJob(w)

(* The steps a thread inside a fabric call takes without being asked again. *)
CallStep(t) ==
    \/ InsertTicket(t) \/ SubmitTicket(t) \/ SubmitRefused(t) \/ EraseRefused(t)
    \/ CancelAll(t) \/ AbortPool(t) \/ FlushAndRetire(t)

Next ==
    \/ \E w \in Workers : PoolWorkerStep(w) \/ TakeJob(w) \/ JobStep(w)
    \/ \E t \in Threads :
        \/ PoolThreadStep(t) \/ CallStep(t)
        \/ DrainFabric(t) \/ Register(t) \/ Retire(t) \/ Flush(t) \/ Shutdown(t)
        \/ \E id \in Jobs : PublishAsync(t, id) \/ Cancel(t, id) \/ Release(t, id)
        \/ \E l \in Lineages : Publish(t, l)

Spec == Init /\ [][Next]_vars

(* Worker threads and threads inside a call are scheduled.  Nobody is       *)
(* obliged to call the fabric, to cancel or to shut it down.                *)
Fairness ==
    /\ \A w \in Workers :
        WF_vars(PoolWorkerStep(w)) /\ WF_vars(TakeJob(w)) /\ WF_vars(JobStep(w))
    /\ \A t \in Threads : WF_vars(PoolThreadStep(t)) /\ WF_vars(CallStep(t))

FairSpec == Spec /\ Fairness

-----------------------------------------------------------------------------
(* Properties *)

(* The types of the fabric's state.                                         *)
TypeOK ==
    /\ PoolTypeOK
    /\ shuttingDown \in BOOLEAN
    /\ live \in BOOLEAN
    /\ lineages \in Seq(Lineages)
    /\ pressure \subseteq Lineages
    /\ footprint \subseteq Lineages
    /\ overflowed \in BOOLEAN
    /\ flushFailed \in BOOLEAN
    /\ owner \in Workers \cup {Nobody}
    /\ issued \subseteq Jobs
    /\ signal \in [Jobs -> Lineages]
    /\ tkt \in [Jobs -> TicketStates]
    /\ committed \in [Jobs -> BOOLEAN]
    /\ cancelled \in [Jobs -> BOOLEAN]
    /\ flag \in [Jobs -> BOOLEAN]
    /\ order \in Seq(Jobs)
    /\ cstate \in [Threads -> CallStates]
    /\ cticket \in [Threads -> Jobs \cup {NoJob}]
    /\ jstate \in [Workers -> JobStates]
    /\ plan \in [Workers -> Plans]
    /\ verdict \in [Workers -> Verdicts]
    /\ effected \subseteq Jobs
    /\ crossed \subseteq Jobs
    /\ asked \subseteq Jobs
    /\ applied \subseteq Lineages
    /\ since \in [Lineages -> SUBSET Lineages]
    /\ repeated \subseteq Lineages

(* "Cancellation is real": a request that arrives before the boundary keeps *)
(* the publish from touching the ledger and from reporting success, and a   *)
(* ticket that says it was cancelled has had no effect, then or later.      *)
CancellationIsReal ==
    /\ asked \cap effected = {}
    /\ \A id \in Present :
        /\ id \in asked => tkt[id] # "Completed" /\ ~committed[id]
        /\ cancelled[id] => id \notin effected /\ ~committed[id]

(* A ticket that reports Completed went through the whole of                *)
(* publish_locked(), and every publish that did is reported Completed.      *)
CompletedIsTruthful ==
    \A id \in Present : Settled(id) => (tkt[id] = "Completed" <=> id \in crossed)

(* A lineage is not applied again before the ledger may have evicted it:    *)
(* across workers, synchronous callers, failed commits and retries, a       *)
(* replay has an effect only after as many other lineages as the ledger     *)
(* holds were accepted since.                                               *)
AppliedOnce == repeated = {}

(* Between the plan and the commit the ledger does not move under the       *)
(* worker: the fingerprint comparison of phase 4 can not fail, and at most  *)
(* one worker is between the two.                                           *)
PlanStillHolds ==
    \A w \in Workers :
        jstate[w] \in {"boundary", "commit"} =>
            /\ owner = w
            /\ plan[w] = "idempotent" <=> signal[wjob[w]] \in Known

(* The ticket store keeps to max_tickets, and ticket_order_ lists its       *)
(* tickets once each: reclaiming never misses a settled ticket.             *)
TicketStoreExact ==
    /\ Cardinality(Present) <= MaxTickets
    /\ {order[i] : i \in 1..Len(order)} = Present
    /\ \A i, j \in 1..Len(order) : i # j => order[i] # order[j]

(* Until shutdown, a ticket in flight is owned: its caller is submitting    *)
(* it, or its job is queued or run by a worker that has yet to settle it.   *)
InFlightIsOwned ==
    ~shuttingDown =>
        \A id \in Jobs : InFlight(id) =>
            \/ \E t \in Threads : cticket[t] = id /\ cstate[t] \in {"submit", "erase"}
            \/ id \in Queued
            \/ \E w \in Workers : wjob[w] = id /\ jstate[w] \notin {"none", "return"}

(* Pressure that was applied is in the ledger, or the durable footprint     *)
(* names it for revalidation, over failed flushes, concurrent publishes and *)
(* the shutdown that clears the ledger.  A fabric with a store forgets      *)
(* pressure only when shutdown reports that it could not write the          *)
(* footprint, or when the overflow of its list is counted.                  *)
PressureIsNotForgotten ==
    Durable => applied \subseteq pressure \cup footprint \/ flushFailed \/ overflowed

(* Each ticket keeps the life TicketContract promises: a job that settles   *)
(* late never brings back a ticket that was released or reclaimed, a        *)
(* verdict is final, a ticket told it is cancelled stays so, and its        *)
(* publish has no effect before or after.                                   *)
Inserting(id) == \E t \in Threads : cstate[t] = "insert" /\ cticket[t] = id
PhaseOf(id) ==
    CASE tkt[id] = "absent" /\ (id \notin issued \/ Inserting(id)) -> "none"
      [] tkt[id] = "absent" /\ id \in issued /\ ~Inserting(id) -> "gone"
      [] tkt[id] # "absent" /\ cancelled[id] -> "cancelled"
      [] tkt[id] \in {"Pending", "Running"} /\ ~cancelled[id] -> "open"
      [] tkt[id] = "Completed" /\ ~cancelled[id] -> "completed"
      [] tkt[id] \in {"Failed", "Cancelled"} /\ ~cancelled[id] -> "failed"

Contract == INSTANCE TicketContract
    WITH Tickets <- Jobs,
         phase <- [id \in Jobs |-> PhaseOf(id)],
         effect <- [id \in Jobs |-> id \in effected]

ContractSpec == Contract!Spec

(* Without a shutdown every ticket settles.                                 *)
TicketSettles == \A id \in Jobs : InFlight(id) ~> ~InFlight(id) \/ shuttingDown

(* A shutdown, whatever it interrupts, returns.                             *)
ShutdownReturns == shuttingDown ~> ShutdownDone

(* README: shutdown "cancels every pending ticket".                         *)
ShutdownCancelsPending == ShutdownDone => \A id \in accepted : tkt[id] # "Pending"
=============================================================================
