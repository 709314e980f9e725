# A verification of Backpressure Fabric

TLA+ models of the runtime of Backpressure Fabric, checked with TLC on small
instances and, where stated, proved with TLAPS for every instance. Sources are
named relative to the repository.

## The system and its parts

| Part | State it keeps | Operations | What is hard about it |
| --- | --- | --- | --- |
| `WorkerPool` (runtime/fabric.cpp) | a bounded deque, `active_`, `stopping_`, `discard_`, `started_`, two condition variables | `start`, `submit`, `worker_loop`, `drain`, `shutdown`, `abort` | notifies outside the mutex, a drain that races an abort, jobs that must be run or thrown away once |
| Tickets (runtime/fabric.cpp) | `tickets_`, `ticket_order_`, a shared cancellation flag per ticket | `publish_async` and its job, `cancel`, `release_ticket`, `ticket` | cancellation against the commit boundary, late settles, a full store |
| Fabric registry (runtime/fabric.cpp) | topology, policy, publishers, fences, revalidation list, ledger and `attempts_` under one mutex | `open`, `install_*`, `add_fence`, `clear_fence`, `mark_`/`clear_revalidation`, `register_`/`retire_publisher`, `publish`, `publish_batch`, `recover`, `flush`, `shutdown` | members and store must agree whatever fails; a death anywhere inside a publish; attempt identifiers that start again; plan and commit must agree |
| `DurableStore` and `Journal` (store/) | an append-only journal and the state replayed from it | `open`, `establish_epoch`, attempts, lineages, fences, footprint, `compact` | crashes between append and sync, torn tails, replay of what was written, a full journal |
| `PropagationEngine` (engine/) | nothing of its own; a ledger of lineages, damping and applications | `propagate`, `recover` | best-first traversal with budgets, fences, cooldown, amplification; convergence of the decay |
| Topology (model/topology.cpp) | immutable once built | `build`, lookups | a cycle search without recursion, a canonical order with ties, a bounded list of issues |
| Policy, signals, authority, fences (model/) | immutable values; the fence table | validate, lookups | precedence of fences |
| Fixed point arithmetic (core/fixed.hpp) | - | saturating Q16 operations | rounding and saturation at the boundary |
| Frames (ipc/frame.cpp) | a listener, a socket per connection | `bind_loopback`, `accept_within`, `connect_loopback`, `send`, `send_raw`, `receive`, `shutdown_send`, `close` | sends and receives cut anywhere, damaged frames, a peer that dies in the middle of one |
| Subprocess control (ipc/subprocess.cpp) | a pid | `spawn`, `process_running`, `wait_process`, `terminate_process`, `close_process` | a child that ends between two calls; a pid that is no longer the child's |

Callers enter through `Fabric`. `publish` and `publish_batch` run the engine
under `Fabric::mutex_`, first as a plan and then as a commit, and journal the
attempt in `DurableStore` in between; `publish_async` does the same on a pool
thread and records the result in a ticket under `ticket_mutex_`. There are no
callbacks; the parts share state only through these three mutexes, the
per-ticket atomic flag, and the atomics `shutting_down_`, `started_` and
`next_ticket_`. Frames and subprocesses serve the tests and tools that run
several fabrics; a fabric itself uses neither.

The tick `now` of every call is the caller's: the fabric never reads a clock, so
ticks may arrive in any order.

## Plan

The modules are written in the order of what the system can least afford to get
wrong and what its tests can least reach.

| | Module | Composes | State |
| --- | --- | --- | --- |
| 1 | `WorkerPool` | - | done, safety proved |
| 2 | `AsyncPublish`, implementing `WorkerPool` and the abstract `TicketContract` | `WorkerPool` | done; both refinements, types, tickets and ledger proved |
| 3 | `DurableStore` | - | done; safety proved |
| 4 | `Propagation` | - | done; safety proved |
| 5 | `Registry`: the fabric's members, its calls and the steps of a publish, over restarts | `DurableStore` | done; implements the store, agrees with it, keeps old attempts ambiguous and leaves no effect unrecorded, proved |
| 6 | `Topology`: `build` and its search against a reference definition | - | done; safety proved |
| 7 | `Transport`: frames between a parent and the child it launched | `Subprocess` | done; what `receive` returns proved |

Every safety property of a passing run is also a theorem. What is left is
liveness, which the prover cannot state, and the parts of the system listed under
"Not modelled".

## Modules

### WorkerPool

One variable per field of the class: `queue`, `active`, `stopping`, `discard`,
`started`; the history `accepted`, `completed`, `discarded`; and the position of
every worker and calling thread. Each critical section of the pool's mutex is an
action, and a `notify` sent after the unlock is an action of its own, so another
thread can run between the two: `Submit` / `NotifyOne`, `Stop` / `NotifyAll`,
`Take`, `Sleep`, `SpuriousWake`, `Finish`, `Leave`, `Exit`, `Drain` /
`DrainCheck`, `Join`, `Start`. `notify_one` wakes any one sleeper; waits may end
spuriously. `active_` saturates at zero as in the code, and `ActiveIsExact`
shows that the saturation never happens. At most one thread stops the pool at a
time: the fabric reaches `shutdown`/`abort` only behind the exchange of
`shutting_down_` or from its destructor.

### AsyncPublish and TicketContract

`AsyncPublish` EXTENDS `WorkerPool`: the jobs are the tickets, and pool actions
are conjuncts of the fabric's. `publish_async` is `PublishAsync` (the checks),
`InsertTicket` (under `ticket_mutex_`, reclaiming the oldest settled ticket when
the store is full), `SubmitTicket` or `SubmitRefused` / `EraseRefused`. The job
is `MarkRunning`, `LoadFlag`, `Plan` or `PlanRefused`, `Boundary`, `Commit`,
`Settle`, `FinishJob`; `owner` is `Fabric::mutex_`, held from plan to commit.
`shutdown` is `Shutdown`, `CancelAll`, `AbortPool`, `FlushAndRetire`, which is
the order of the code. `Register` and `Retire` stand for the publisher calls,
`Publish` for a synchronous publish, `Flush` and `DrainFabric` for theirs.
The engine and the store appear by their possible answers.

The ledger's lineages are a queue of at most `LineageCapacity` (`Marked`), so a
lineage may be evicted and its replay planned as a new one. `since` remembers what
was accepted after a lineage was last applied, and `repeated` collects those that
were applied again before as many others as the ledger holds: `AppliedOnce` says
there are none. A flush adds the applied pressure to a list of at most
`MaxFootprint` entries; what does not fit is dropped with the call still
succeeding, and only the store's counter tells (`overflowed`). Without a store
(`Durable = FALSE`) a flush succeeds and writes nothing (fabric.cpp:965-967).
`mark_`/`clear_revalidation` and `recover`, which also change the list and the
pressure, belong to `Registry` and `Propagation`.

`TicketContract` says what a caller may rely on for one ticket: it is issued
once, is decided once and leaves the store once; its effect happens at most
once, while it is open, and never after it was told it is cancelled. The
refinement mapping is `PhaseOf`.

### DurableStore

A journal is read only by replay, so a record is represented by the outcome of
the replay that ends with it: `disk` for the synced prefix, `tail` for what a
crash may keep any prefix of. `ApplyRecord` is `apply_record()`; each operation
appends its record (`Write`), then `SyncOk` makes the change in memory or
`SyncFails` returns an error with the record still in the file. `Crash` may
happen in every state, also inside `Create`, `EstablishEpoch` and a compaction
(`Compact`, `RewriteRecord`..., `Rename`). `RivalOpen` is a second process that
runs `open()` up to the refused lock. `acked`, `served` and `damage` are history:
`damage` remembers the faults after which the code leaves the file behind the
memory (a death while the file was created, a failed sync, a short write), and
the properties name those exceptions instead of leaving the faults out.
`record_lineage` is not synced by the code and therefore not in what
`AckedSurvives` promises before the next sync.

### Propagation

`topology`, `policy` and `fences` are the engine's context; `lineages`,
`applications` and `damping` the ledger; `request`, `acc`, `hops` and the rest
the locals of `propagate()` and of `Traversal`. One step is one turn of a loop:
`Propagate` admits a request, `BeginSignal` / `RejectSignal` start one signal,
`Settle`, `DropEntry`, `SettleUnexplained` and `StopTraversal` are the loop over
the queue, `RefuseEdge`, `Forward`, `TruncateHop` and `LeaveNode` the loop over
the edges of the settled resource, `Commit` the aggregation and the ledger,
`Recover` the decay. `Checks` lists the refusals of an edge in the order of the
code. Queue entries that the comparison does not order may be popped in either
order. A resource counts every arrival and keeps the first `MaxContributions` of
them (`kMaxContributionsPerNode`, 16 in the code), with the strongest arrival
beside the list (`Accumulated`); a signal of magnitude zero is refused. Potentials
are exact integers over `One * One`; with `One` = 65536 the
code's products fit in 64 bits, so nothing wraps. Counters, digests and the
text of explanations are left out; the number of records and their counts are
kept, because the record budget decides whether anything is committed. `Flush` is
one turn of `flush_suppressions()` and `Emitted` its loop over the reasons;
`Record` is one `record_application()` or `record_damping()`, and `Ascending` the
order in which a loop visits resources or edges.

### Registry

`Registry` EXTENDS `DurableStore`: every call of the fabric is a store action and
what it does to the members (`live`), so a crash, a refused append or a failed
sync of the store happens in the middle of a call. All calls hold `mutex_`; they
interleave with faults, not with each other. A call that makes one durable change
is `Change` (the append) and `WriteSucceeds` or `WriteFails` (the sync, and only
then the members); `AppendFails` is the append that is cut short. A publish is
`Publish` or `PublishBatch` (gates, plan, `begin_attempt`), `AttemptBegun`,
`RecordNext` for each lineage, `CommitToLedger` or `CommitTruncated`, `Conclude`
and `Concluded`, then `StartCompaction` when the journal has grown; each has its
failure, which aborts the attempt or leaves it open as the code does.
`FabricOpens` takes over what the store rebuilt, with `attempts_` back at 1.
The engine appears by what it may answer: which signals of a batch it accepts,
which pressure it applies, whether the ledger overflows or an explanation is
truncated. `leftover`, `duplicates`, `effects`, `superseded` and `changes` are
history.

### Topology

`Read` is everything `build` does before its search: the sort, whose ties
`std::sort` may break in any way (`Sorted`), the checks in their order and the
issues known so far. `VisitRoot`, `FollowEdge` and `LeaveNode` are the turns of
the search's loop over its explicit frames; `index`, `low`, `stack`, `cyclic` and
`components` are its locals. `Failing` is the set of checks that do not hold, of
which the first decides the error; `Remaining` is what a frame has left of
`out_edge_indices_`, named by the places in `edges_`. The reference, `Reaches`,
says that one resource is in every set that has the targets of the other's edges
and is closed under the edges, which is reachability without a search. A
resource's identity is its index.

### Subprocess and Transport

`Subprocess` is the child process as the kernel sees it (running, zombie, reaped)
and the five calls on its handle. `Transport` EXTENDS it: a parent binds a
listener, spawns a child and accepts its connection in the loop the tests use;
frames then travel as units over two bounded buffers. `SendSome` and
`ReceiveSome` are one system call of `send_all` and `recv_all`, for any number of
units; header and payload are decoded as in `receive`, and what the code
recognises of a frame is its `form`. `Closed` ends a stream with the data still
readable, or with a reset if the closing side had left data unread.

## Runs

Passing:

| Run | Question | Bounds |
| --- | --- | --- |
| `pool` | Is a job lost or run twice, a wakeup lost, `drain` or `shutdown` stuck? | 2 workers, 2 threads, 3 jobs, queue of 2 |
| `async` | Do store, order and in-flight jobs stay in step, does each ticket keep its contract, is cancelled work without effect, is a lineage applied again before the ledger had to evict it, is applied pressure lost without a report, with everything racing `shutdown`? | 2 workers, 2 threads, 2 tickets, 2 lineages; ticket store, queue, ledger and footprint list of 1 |
| `async_liveness` | Does every ticket settle, cancelled or refused at any moment, and every shutdown return? | 1 worker, 2 threads, 2 tickets, ticket store of 2, queue of 1, calls `cancel`, `register`/`retire`, `drain` and `shutdown`, a fabric without a store, `FairSpec`, no symmetry |
| `store_history` | Does a restart rebuild exactly what was acknowledged? | 3 opens, 9 records, all operations, every fault; a damaged file is followed for 5 records (`Followed`) |
| `registry` | Whatever fails, and wherever the process dies: do members and store agree, is every effect on record, do old attempts stay ambiguous, is every epoch new? | 2 sources, batches of 2, 4 attempts, 2 opens, 9 records, 2 changes per process, every fault |
| `propagation` | Are traversals real paths in order of potential, every edge explained, cooldown kept, the winning path rooted, the strongest arrival accounted for? | 6 contexts of 4 resources, 3 requests of up to 3 signals, 2 contributions kept per resource, scale 4 |
| `topology` | Does the search find exactly the cycles, and does the order of the declaration matter? | every digraph of 4 resources and at most 5 edges in two orders of expansion; ties, traits and limits on smaller ones |
| `ipc` | Does `receive` return only what was sent, and does it and a launch end when the peer dies? | header of 2 units, payload of 0 or 1, buffers of 2 units, 2 frames per side |

Each bound is the least that makes the case happen: two workers and two callers
give every race the code has between a notifier, a waiter and a stopper; a queue
of one and a store of one are full while a second ticket exists; two lineages
and a third publish make publishes collide, evict one lineage from a ledger of one
and bring it back, and a footprint list of one overflows with the second; one
worker is busy while the other ticket waits in the queue (two workers, and their
notifies, are in `pool` and `async`); three opens allow a crash, the recovery from it and
a second recovery from what that wrote; `MaxFences` = 1 or 2, `MaxLineages` = 1
and `MaxFootprint` = 1 put every table of the store at its limit. Scale 4 lets
attenuations round. Two contributions kept are fewer than the three signals of a
request. Ledger tables of two to five entries overflow. In `registry`
two opens give one process and its successor; `MaxChanges` (the durable calls
other than publishes a process makes) is 2, enough for a topology and a policy
before a publish or for a change and its undoing, and four attempt identifiers
let a process meet a leftover one and publish behind it; `CompactAt` = 7 makes a
compaction follow a publish and `MaxRecords` = 9 makes a journal full in the
middle of one. Four resources hold two disjoint cycles, and a component inside a
path of another. A buffer smaller than a frame cuts every frame at least once,
and a header of two units can itself be cut.

Symmetry is used in the safety runs only. `SetToSeq` (a CHOOSE) orders the
records of a compaction; any order replays to the same state, so permuting the
model values is sound there. The liveness runs use none.

Deadlock is checked where the system never legitimately stops: `pool`, `async`
and `topology`. The store, registry and propagation runs end when `MaxBoots`,
`MaxRecords` or `MaxRequests` is used up, `ipc` when both sides have stopped, and
the other asynchronous runs when the tickets are used up or the fabric is shut
down.

Fairness is weak, per worker and per thread that is already inside a call: the
operating system schedules runnable threads, and no mutex is held for ever.
Nobody is obliged to call anything, spurious wakeups are never fair, and no
fairness is assumed of the choice `notify_one` makes. In `Transport` the kernel
delivers what is in a buffer to a receiver that waits, `select` returns when its
window elapses, and the parent goes on with its launch loop; neither side is
obliged to send, to close or to live.

### Disagreements

Four runs end in a violation; each is a disagreement of the code with a line of
its own documents or tests.

- `async_pending`: `publish_async` tests `shutting_down_` (fabric.cpp:800) and
  inserts its ticket later (828-831). `shutdown` may cancel the tickets in
  between and discard the job afterwards; the ticket stays Pending
  (README.md:203).
- `store_capacity`: `put_fence` refuses a fence too many after its record is
  durable (durable_state.cpp:481-493); replay refuses that record (272-275), and
  the directory cannot be opened again.
- `registry_superseded`: an incarnation is compared only with one of its own boot
  (fabric.cpp:314-318), so one that was superseded by another boot registers
  again and publishes (README.md:197-198).
- `propagation_fences`: of two fences of equal strength only the first counts
  (fence.hpp:135), so pressure is applied behind a `RefuseIngress` fence
  (fence.hpp:29).

Met while modelling, without a run of their own. The first five can be run: the
property is defined in the module and fails with the constants given. The three
after them are the exceptions that `damage` gives `UsableAfterCrash`, `MemoryIsReplay`
and `AckedSurvives`.

- `open` removes temporary files before it takes the lock
  (durable_state.cpp:181-187), so a rival breaks the owner's compaction, which
  leaves the journal closed until a direct `compact` reopens it (journal.cpp:431-439, against
  tests/test_multiprocess.cpp:659): `OwnerKeepsWriting` of `DurableStore` with
  `Faults = {"rival"}`;
- only the first 16 contributions of a resource are kept (engine.cpp:645-649) and
  only they are aggregated, so with more sources the rule `Max` may apply less than
  the "strongest single contribution" (policy.hpp:27), and which ones count depends
  on the order of the signals; nor is "every contributing source"
  (README.md:154-155) in the explanation then: `MaxTakesTheStrongest` of
  `Propagation`, with the `PlainContexts` and `RisingRequests` of `MCPropagation`
  and the other constants of its run;
- inside a cooldown a repeat is refused unless it is more than the hysteresis above
  the last one (engine.cpp:536), where policy.hpp:133-134 asks "at least this much".
  `CooldownHolds` states what both allow; `HysteresisIsEnough`, the document's
  reading, fails with the same constants;
- validation counts one refusal record per resource (policy.hpp:171), the
  traversal writes one per reason; an explanation the README (162-164) calls
  always complete is truncated, and nothing is committed:
  `ExplanationAlwaysComplete` of `Propagation`;
- `process_running` reaps a child that has ended and keeps the handle
  (subprocess.cpp:183-188), so the `wait_process` after it fails instead of
  returning the exit code (subprocess.hpp:41), and `terminate_process` may signal
  a pid that has been given away: `WaitReturnsExitCode` of `Transport`;
- a death between creating the journal and writing its header leaves a file that
  `open` refuses (journal.cpp:290-294 and 174);
- a retry of `remove_fence` after a failed sync writes a second removal that
  replay refuses (durable_state.cpp:507-515 and 286);
- a short write is not truncated away, and records appended behind it are lost
  at the next open (journal.cpp:346);
- a replay is effective again once its lineage was evicted (engine.cpp:28-39). The
  limitations (README.md:293-295) say so, the table of guarantees (README.md:129)
  only that the ledger is bounded; `AppliedOnce` is the guarantee that is left;
- pressure that finds the revalidation list full is dropped and `flush` and
  `shutdown` still succeed (durable_state.cpp:607-618); the store counts it in
  `footprint_overflow`, which the fabric's status does not show. Without a store
  shutdown forgets all pressure, by design. `PressureIsNotForgotten` names both
  cases;
- `WeightedMax` takes the largest weighted contribution (engine.cpp:199-207), not
  the "Sum of (contribution x weight)" of policy.hpp:31;
- a ticket may be Failed with `committed` true (fabric.cpp:875-878, against
  fabric.hpp:154);
- with amplification a resource may keep less than the best later offer
  (engine.cpp:449, against README.md:107), and a winning path may not lead to an
  origin; `StrongestWins` and `WinningPathIsRooted` leave these signals out;
- the edge flags `Barrier` and `Provisional` (dependency.hpp:28-35) are never
  read by the engine;
- `recover` restarts the clock of what it rewrites (engine.cpp:1255), so calls
  closer than `step_ticks` never decay anything (README.md:141);
- a repeated edge identity is noticed only between neighbours in the canonical
  order (topology.cpp:73-77); two edges of one identity and different priority
  are accepted;
- volatile fences are journalled and bound again at every open
  (fabric.cpp:235-241), although fence.hpp:5-7 says they die with their epoch;
  `purge_stale` is called by tests only;
- a publish that is truncated or refused by the engine has already recorded its
  lineage (fabric.cpp:520), so its retry after a restart counts as a duplicate;
- `recover` accepts any incarnation of a live publisher;
- a full journal refuses the epoch record of the next open (journal.cpp:316), and
  compaction runs only after a successful publish;
- the rename of a compaction is not followed by a sync of the directory
  (fsutil.hpp:125).

## Proofs

All proofs are for every value of the constants under the named assumptions of
the modules (`StoreAssumption`, `PublishAssumption` and that of the pool:
natural, positive bounds, finite sets of workers, jobs and sources, distinguished
values outside the sets; `RegistryAssumption` adds that attempt identifiers are
numbers and that a lineage names its source and epoch).

- `WorkerPoolProofs`. The inductive invariant `PoolInv` is the type invariant,
  `WorkersHold` (a worker holds a job exactly while it runs one) and
  `StopProtocol` (workers leave only an empty queue of a stopping pool, one
  thread at a time stops a started pool, and a pool that is not started has
  joined every worker). `NoLostWakeup` and `NoLostIdle` are
  inductive relative to it: a sleeper with work to do is owed a notify by some
  thread that has left the mutex. `ActiveIsExact` counts with
  `FiniteSetTheorems`; `JobsConserved` is proved through `Conserved`, which
  restates it in the terms of the lemmas about pushing and popping a queue.
- `AsyncPublishProofs`. `FabricRunsPool` proves `Spec => PoolSpec`: under
  `CallsHold` (a thread between two parts of `publish_async` handles a ticket)
  every step of the fabric is a step or a stutter of the pool, so all pool
  theorems hold of the fabric. `AsyncTypeCorrect` uses it for the pool's part.
  The ticket properties rest on `TicketInv`: a ticket the pool does not have yet is
  handled by one call (`CallsOwn`), a cancelled ticket has its flag raised
  (`FlagsHold`), at each position of a job its ticket is in the states that
  position allows, and behind the boundary nobody has asked in time for it to stop
  (`JobTickets`), and what has had an effect is settled or about to be
  (`HistoryHolds`). `CancellationIsReal` and `CompletedIsTruthful` are conjuncts of
  it, because neither is inductive without the others. `TicketStoreExact` and
  `InFlightIsOwned` are inductive relative to it, and `TicketsKeepContract`
  proves `Spec => ContractSpec`: in each step every ticket keeps its phase or moves
  as the contract allows.

  Its last section is about the ledger. `LedgerCases` classifies the steps by what
  they do to the ledger; `LedgerInv` is inductive over the classes. Whoever has
  planned holds the state lock, so the ledger cannot move before the commit
  (`PlanAlwaysHolds`). `PressureAppliedOnce` needs `OnceInv`: the ledger is a queue
  without repetitions (`Fifo`), and every lineage that was applied is `Remembered`:
  it is in the queue with only lineages accepted since behind it, or as many were
  accepted since as the queue holds. A lineage is evicted from the front, when
  the queue is full, so those behind it are that many. The clearing by a shutdown
  does no harm, because by then the flag is up and no worker is between plan and
  commit (`Sealed`). It comes after the flush that wrote the footprint, counted an
  overflow or reported a failure, and a list never shrinks
  (`PressureNeverForgotten`).
- `DurableStoreProofs`. `TypeInv` extends the type invariant to every state a
  replay may rebuild and to the records a compaction has still to write.
  `EpochsKept` says that each crash outcome has at least the epoch served last,
  and follows an epoch through append, sync and compaction: its record is synced
  before the process serves, no other record touches it, and a compaction begins
  with it. `EpochsAlwaysAdvance` follows. `MemoryIsReplay`, `AckedSurvives` and
  `UsableAfterCrash` need `StoreKept`. Its parts are that every state a replay
  passes through is good, so that replay rejects nothing (`GoodStates`); that the
  end of the file, with the record that waits for its sync, is the memory
  (`ReplayKept`); that each outcome of a crash is what was acknowledged, or that
  and the waiting record (`AckedKept`); and, for a compaction, that what it has
  written and what it has still to write make up the memory, record by record
  (`CompactionKept`). The three theorems assume `FencesFit`: the fences in use are no
  more than `max_fences`. Without it they are false, which is the disagreement the
  run `store_capacity` shows. The properties of
  the sequence helpers are proved with `LeastNatural` and `GreatestNatural`
  (module `NaturalLemmas`), the least and greatest element of a set of numbers,
  in place of an induction rule with an operator parameter.
- `PropagationProofs`. `TravTypes` is the part of the type invariant a traversal
  rests on, and `StepCases` says what a step does to queue, settled entries and
  hops: nothing, begin, drop, settle, forward, or end. `AmplificationIsAuthorised`
  is inductive over it. `StrongestWins` needs `OrderInv`: nothing that waits is
  stronger than anything settled, and every offer to a resource not yet settled
  still waits; it rests on `AttenuatedBound`, that an attenuation of at most 1.0
  never raises a potential. `SettledByAPath` needs `PathInv`, the same of the
  entries that wait.

  The properties below rest on folds. `FoldLeft` is a recursion over the subsets of
  `1..n`; that it has a solution (`Folds`), and that its values on `1..0`, `1..1`,
  ... are the steps of a loop (`Steps`), is proved by least counterexample
  (`UpTo` of `NaturalLemmas`), once for each fold the model uses.
  - `CooldownHolds` needs `DampInv`: every hop recorded so far by this request
    passed the damping check against the table as it still is, because the table
    changes only at a commit. `DampedBy` says which hop an entry of the new table
    comes from, although a full table drops some.
  - `WinningPathIsRooted` needs `RootInv`. The potential alone is no measure, as a
    predecessor may have the same one; the invariant is that for some ranking of the
    resources every winner has no predecessor, or one that was received more
    strongly, or as strongly and with a lower rank (`Higher`). The rank is the time
    at which a resource got its winner.
  - `StrongestIsAccounted` needs `AccountInv`: the list has the first arrivals, as
    many as there are or as it takes (`Counted`), none of them stronger than the
    strongest (`Bounded`), which is among them while the list is complete
    (`Listed`). An arrival that is not stronger is no larger as a magnitude either,
    because `ToMagnitude` is monotone.
  - `AggregateReordered`: over the contributions kept, the result does not depend on
    their order. A sum over an injection into `1..n` is the sum over its image
    (`SumInOrder`), and the winner is a contribution that none beats, which is the
    same in every order because `Wins` is total on what it tells apart. It says
    nothing about which ones are kept, which depends on the order of the signals
    (`MaxTakesTheStrongest` above).
  - `EveryEdgeExplained` needs `ExplInv`: at each position of the loop over edges
    the hops, the refusals written, the refusals pending and the edges still to
    look at add up to the out degree (`Accounts`, `Due`), and a flush moves counts
    from pending to written (`Balanced`).
  - `PropTypeOK` adds `CountTypes`, `FlagTypes` and `LedgerTypes`: a commit or a
    recovery keeps every table within its capacity and every entry a magnitude.
    The decay of `recover` is shown to have a value in range after any number of
    steps (`Decays`).

  The assumptions are those of the module: a positive scale, natural resource
  indices and capacities, and well-typed contexts and requests.
- `TopologyProofs`. `OrderDoesNotMatter` needs `OrderInv`: the edges kept are a
  sorted form of the declared ones that passes every check, and a refusal has a
  sorted form that fails one. Neighbours that tie under `edge_precedes` share an
  identity, which the checks refuse, so a sorted form that passes is strictly
  increasing; a permutation between it and another sorted form keeps the order and
  is therefore the identity (`OneOrder`).

  `CyclesAreExact` needs `TopoInv`, whose core is the correctness of Tarjan's
  algorithm on every finite graph. `Search` is about sets: what is on the stack,
  on the path and already followed. A followed edge leads to a visited node, and
  what has left the stack is closed under the edges (`Followed`); a node on the
  stack reaches its owner, the last node of the path visited no later than it, and
  is reached from the path up to there (`Woven`); for a node of the path, `low` is the
  index of a node on the stack that it reaches, and no larger than the index of any
  node on the stack that a followed edge of a node it owns leads to (`Bounded`). A node left with `low` = `index` is then reached from everything
  above it on the stack, and nothing there leaves that set except to finished
  nodes, so it is a strongly connected component (`RootComponent`). `Found` counts
  these. `Scan` ties the sets to the sequences of the loop, both of which are in
  the order of visiting, and `Tally` accounts for the issues. Reachability is used
  only through closed sets, so no induction along a path is needed. The assumption
  is that the declarations are well typed and the limits natural numbers.
- `RegistryProofs`. `FabricRunsStore` proves `RegSpec => Spec`: under `RegTypes`
  every step of the fabric is a step or a stutter of the store, so
  `EpochsAlwaysAdvance` and the store's types hold of the fabric. `RequestCases`
  and `AttemptCases` then classify the calls: they append one record, answer
  without one, or begin an attempt. `LiveStateIsDurable` needs `InStep`: while a
  record waits for its sync, the members for either outcome of the sync agree
  with the memory that outcome leaves, and only the call in progress has a record
  waiting. `AmbiguityIsKept` needs `Ambiguous`: the attempts on record are those
  left over and identifiers this process has taken, a publish in progress holds
  one that is not left over, and the publishes refused so far are no more than
  the leftover identifiers already passed. `NoUnrecordedEffect` needs `EffectsKept`,
  which says of the memory, of the whole file and of each part of it that a crash
  may leave that an effect's lineage or open attempt is there (`LineageKept`,
  `AttemptKept`): a compaction writes the memory over the file, and a sync makes
  the whole file what a crash leaves. It holds under every fault, and needs no
  `FencesFit`.
- `TransportProofs`. The argument is about the stream on its way to a side: what
  its `receive` has read of the next frame, what is on the wire, and what its
  peer's `send` has still to write. The units of the stream are in the order of
  the frames sent, and later than every frame returned (`Sound`); until a `receive`
  fails none is missing at its front or in its middle (`Whole`), and until the
  connection breaks none at its end (`Reaches`). A system call moves units along
  the stream, which changes nothing; a close or a death cuts the stream off at its
  end (`BreakKeeps`); a `receive` takes a frame from its front, or fails and drops
  what it has read. `NeverGuesses` follows, for every size of header, payload and
  buffer and any number of frames.

Only model-checked: the liveness properties (`DrainReturns`, `StopReturns`,
`AcceptedJobEnds`, `TicketSettles`, `ShutdownReturns`, `ReceiveEnds`,
`LaunchEnds`), whose fairness (`WF_`, `ENABLED`) is out of the prover's reach. That
the four disagreements are real is shown by TLC's counterexamples.

## Not modelled

- The bytes of the journal and of frames (CRC, chain, digests, endianness) beyond
  what replay and `receive` do when they do not match; digests are taken to be
  distinct.
- Counters and statistics, ticks of the registry (heartbeats change nothing
  else), explanation text, lookups, `wait_readable` and `peer_address`, which
  change no state.
- Descriptors a child inherits. The listener is opened without `SOCK_CLOEXEC`
  (frame.cpp:413), so a spawned child has it too (subprocess.cpp:153) and, while
  that child lives, the parent's `close` need not reset the connections that wait;
  a connection inherited by another child would likewise stay open.
- Paths and arguments of a subprocess and the Windows forms of the file, socket
  and process calls.
- The benchmark and the command line, which generate workloads and print results.
- The order of a rename and the writes before it, which is a property of the file
  system.
