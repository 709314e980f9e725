------------------------------ MODULE Registry ------------------------------
(***************************************************************************)
(* The fabric's registry and its publishing (runtime/fabric.cpp) over the  *)
(* durable store (module DurableStore).  Every call holds mutex_, so calls *)
(* do not overlap; what can come between their steps is the death of the   *)
(* process, an append that is refused or cut short, and a sync that fails. *)
(* A call that is refused before it changes anything is not a step.        *)
(*                                                                         *)
(* The engine is represented by what it may answer (module Propagation has *)
(* its detail), ticks and counters other than attempts_ are left out, and  *)
(* the fences of an earlier process are those of its table: their epoch is *)
(* overwritten when they are re-bound.                                     *)
(***************************************************************************)
EXTENDS DurableStore

CONSTANTS
    Sources,
    Incarnations,       \* [boot, seq]
    MaxPublishers,      \* config_.max_publishers
    MaxRevalidation,    \* config_.max_revalidation_entries
    CompactAt,          \* config_.journal_compaction_threshold
    Batches,            \* the lineages of the signals of a batch
    Requests,           \* the groups of calls that are made
    MaxChanges          \* bounds what a process installs, fences and marks for revalidation

\* A lineage digest stands for the content of a signal, which names its source and its
\* epoch but not its publisher.  Attempt identifiers are numbers.
ASSUME RegistryAssumption ==
    /\ IsFiniteSet(Sources)
    /\ \A l \in Lineages : l.source \in Sources /\ l.epoch \in Nat
    /\ Attempts \subseteq Nat \ {0}
    /\ Incarnations \subseteq [boot : Nat, seq : Nat]
    /\ {MaxPublishers, MaxRevalidation, CompactAt, MaxChanges} \subseteq Nat
    /\ MaxFootprint <= MaxRevalidation
    /\ Batches \subseteq Seq(Lineages)
    /\ Requests \subseteq {"config", "publisher", "fence", "revalidation", "publish",
                           "batch", "recover", "flush", "shutdown"}

VARIABLES
    live,       \* the members of Fabric, see Booting
    call,       \* the call in progress: see Calls
    leftover,   \* history: the attempts that were open when this process took over
    duplicates, \* history: publishes refused because their attempt was open
    effects,    \* history: what this process has committed to its ledger
    superseded, \* history: the publishers replaced by another incarnation
    changes     \* history: the calls counted by MaxChanges

regHist == <<leftover, duplicates, effects, superseded, changes>>
regVars == <<live, call, regHist>>

Booting == [topology |-> None,              \* topology_
            policy |-> Fresh.policy,        \* policy_
            publishers |-> [s \in Sources |-> None],    \* publishers_: [inc, live]
            fences |-> Fresh.fences,        \* fences_
            revalidation |-> {},            \* revalidation_
            known |-> <<>>,                 \* the ledger's lineages
            pressure |-> {},                \* the ledger's applications
            attempts |-> 1,                 \* attempts_, the next identifier
            down |-> FALSE]                 \* shutting_down_

\* "write" is between the append and the sync of a call that makes one; the others are
\* the steps of a publish.
Calls == {"idle", "write", "begin", "lineages", "commit", "abort", "compact"}

\* A publish keeps its attempt, the lineages of its signals, how many of them it has
\* recorded, and those the plan has accepted.
Idle == [at |-> "idle", done |-> Booting, failed |-> Booting,
         attempt |-> 0, signals |-> <<>>, recorded |-> 0, accepted |-> {}]

RegInit ==
    /\ Init
    /\ live = Booting
    /\ call = Idle
    /\ leftover = {}
    /\ duplicates = 0
    /\ effects = {}
    /\ superseded = {}
    /\ changes = 0

-----------------------------------------------------------------------------
(* Fabric::open() and the death of the process *)

\* What open() takes over from the store, once the boot is recorded.
Restored ==
    [Booting EXCEPT !.policy = mem.policy,
                    !.fences = mem.fences,
                    !.revalidation = mem.revalidation,
                    !.known = mem.lineages]

StoreOpens ==
    /\ Create \/ WriteHeader \/ Open \/ OpenFails \/ EstablishEpoch \/ RecordBoot
    /\ UNCHANGED regVars

EpochEstablished == proc = "opened" /\ SyncOk /\ UNCHANGED regVars

FabricOpens ==
    /\ proc = "epoch"
    /\ SyncOk
    /\ live' = Restored
    /\ leftover' = mem.attempts
    /\ UNCHANGED <<call, duplicates, effects, superseded, changes>>

Dies ==
    /\ Crash
    /\ live' = Booting
    /\ call' = Idle
    /\ leftover' = {}
    /\ duplicates' = 0
    /\ effects' = {}
    /\ superseded' = {}
    /\ changes' = 0

-----------------------------------------------------------------------------
(* Calls that make one durable change *)

Ready(group) == proc = "up" /\ call.at = "idle" /\ group \in Requests

Serving(group) == Ready(group) /\ ~live.down

\* The store's record is appended; the members change when its sync succeeds, and become
\* failed when it does not.
Persist(operation, done, failed) ==
    /\ operation
    /\ call' = [Idle EXCEPT !.at = "write", !.done = done, !.failed = failed]
    /\ UNCHANGED <<live, leftover, duplicates, effects, superseded>>

Change(operation, done) ==
    /\ changes < MaxChanges
    /\ Persist(operation, done, live)
    /\ changes' = changes + 1

InstallTopology(d) ==
    /\ Serving("config")
    /\ Change(BindTopology(d), [live EXCEPT !.topology = d])

InstallPolicy(p, g) ==
    /\ Serving("config")
    /\ p = live.policy.id => g > live.policy.generation
    /\ Change(PersistPolicy(p, g), [live EXCEPT !.policy = [id |-> p, generation |-> g]])

\* At its capacity the store answers LimitExceeded after its sync.
AddFence(f, form) ==
    /\ Serving("fence")
    /\ LET full == f \notin Present(mem.fences) /\ Cardinality(Present(mem.fences)) >= MaxFences
       IN  Change(PutFence(f, form),
                  IF full THEN live ELSE [live EXCEPT !.fences[f] = form])

\* clear_fence() and clear_revalidation() do not ask whether the fabric shuts down.
ClearFence(f) ==
    /\ Ready("fence")
    /\ Change(RemoveFence(f), [live EXCEPT !.fences[f] = None])

MarkRevalidationRequired(r) ==
    /\ Serving("revalidation")
    /\ LET full == \/ r \notin mem.revalidation /\ Cardinality(mem.revalidation) >= MaxFootprint
                   \/ /\ r \notin live.revalidation
                      /\ Cardinality(live.revalidation) >= MaxRevalidation
       IN  Change(RequestRevalidation(r),
                  IF full THEN live ELSE [live EXCEPT !.revalidation = @ \cup {r}])

ClearRevalidationRequired(r) ==
    /\ Ready("revalidation")
    /\ Change(ClearRevalidation(r), [live EXCEPT !.revalidation = @ \ {r}])

\* flush_locked(): the resources under pressure, in the order of a hash table.
Footprints ==
    {[i \in DOMAIN pairs |-> pairs[i][2]] : pairs \in SetToSeqs(live.pressure)}

Flushing(done) ==
    \/ \E entries \in Footprints :
          /\ entries # <<>>
          /\ Persist(RecordPressureFootprint(entries), done, done)
          /\ UNCHANGED changes
    \/ /\ live.pressure = {} /\ Sync
       /\ live' = done
       /\ UNCHANGED <<call, regHist>>

Flush == Ready("flush") /\ Flushing(live)

\* The publishers are retired and the ledger cleared whether or not the flush succeeded.
Retired ==
    [live EXCEPT !.down = TRUE,
                 !.publishers = [s \in Sources |-> IF @[s] = None THEN None
                                                   ELSE [@[s] EXCEPT !.live = FALSE]],
                 !.known = <<>>,
                 !.pressure = {}]

\* The flush finds nothing to write, is refused, or fails at its first call.
FlushStops ==
    \/ /\ live.pressure = {}
       /\ ~handle \/ tail = <<>> \/ "sync" \in Faults
       /\ UNCHANGED vars
    \/ /\ live.pressure # {}
       /\ ~CanAppend \/ Cardinality(live.pressure) > MaxFootprint
       /\ UNCHANGED vars
    \/ live.pressure # {} /\ ShortWrite

Shutdown ==
    /\ Serving("shutdown")
    /\ \/ Flushing(Retired)
       \/ FlushStops /\ live' = Retired /\ UNCHANGED <<call, regHist>>

\* BPFAB_TRY is missing: the members change although the store has failed.
WriteFailsUnnoticed ==
    /\ call.at = "write"
    /\ SyncFails
    /\ live' = call.done
    /\ call' = Idle
    /\ UNCHANGED regHist

WriteSucceeds ==
    /\ call.at = "write"
    /\ SyncOk
    /\ live' = call.done
    /\ call' = Idle
    /\ UNCHANGED regHist

WriteFails ==
    /\ call.at = "write"
    /\ SyncFails
    /\ live' = call.failed
    /\ call' = Idle
    /\ UNCHANGED regHist

\* The append of any of these calls is cut short, and the call fails.
AppendFails == call.at = "idle" /\ proc = "up" /\ ShortWrite /\ UNCHANGED regVars

-----------------------------------------------------------------------------
(* Publishers *)

Registered(s) == live.publishers[s] # None

RegisterPublisher(s, inc) ==
    /\ Serving("publisher")
    /\ LET old == live.publishers[s]
       IN  /\ IF Registered(s)
              THEN old.inc # inc => ~(old.inc.boot = inc.boot /\ inc.seq <= old.inc.seq)
              ELSE Cardinality({r \in Sources : Registered(r)}) < MaxPublishers
           /\ live' = [live EXCEPT !.publishers[s] = [inc |-> inc, live |-> TRUE]]
           /\ superseded' = IF Registered(s) /\ old.inc # inc
                            THEN superseded \cup {<<s, old.inc>>} ELSE superseded
    /\ UNCHANGED <<vars, call, leftover, duplicates, effects, changes>>

\* retire_publisher() does not ask whether the fabric shuts down.
RetirePublisher(s) ==
    /\ Ready("publisher")
    /\ Registered(s) /\ live.publishers[s].live
    /\ live' = [live EXCEPT !.publishers[s].live = FALSE]
    /\ UNCHANGED <<vars, call, regHist>>

-----------------------------------------------------------------------------
(* Publishing *)

Configured == live.topology # None /\ live.policy.id # None

IsLive(s) == Registered(s) /\ live.publishers[s].live

\* Every identifier a publish takes from attempts_.
Took(n) == [live EXCEPT !.attempts = @ + n]

IdentifiersLeft(n) == live.attempts + n - 1 \in Attempts

\* A publish that succeeds looks whether the journal is to be compacted.
AfterPublish ==
    IF CompactAt > 0 /\ records >= CompactAt THEN [Idle EXCEPT !.at = "compact"] ELSE Idle

\* The plan is refused, or its lineage is known and there is nothing to do: an identifier
\* is used.
PublishNothing ==
    /\ Serving("publish") /\ Configured
    /\ IdentifiersLeft(1)
    /\ \/ (\E s \in Sources : IsLive(s)) /\ call' = Idle
       \/ /\ \E l \in Range(live.known) : IsLive(l.source) /\ l.epoch = mem.epoch
          /\ call' = AfterPublish
    /\ live' = Took(1)
    /\ UNCHANGED <<vars, regHist>>

AbortDuplicate(attempt) ==
    /\ call' = [Idle EXCEPT !.at = "abort", !.attempt = attempt]
    /\ UNCHANGED duplicates

\* begin_attempt() answers Duplicate: the publish is over.
RefuseDuplicate(attempt) ==
    /\ call' = Idle
    /\ duplicates' = duplicates + 1

\* Phases 1 and 2: the plan accepts some signals, and the attempt is begun.  The lineages
\* of all signals will be recorded.
Attempt(signals, accepted) ==
    LET attempt == live.attempts + 1
    IN  /\ IdentifiersLeft(2)
        /\ live' = Took(2)
        /\ \/ /\ BeginAttempt(attempt)
              /\ call' = [Idle EXCEPT !.at = "begin", !.attempt = attempt,
                                      !.signals = signals, !.accepted = accepted]
              /\ UNCHANGED duplicates
           \/ /\ attempt \in mem.attempts
              /\ RefuseDuplicate(attempt)
              /\ UNCHANGED vars
           \/ /\ attempt \notin mem.attempts
              /\ ShortWrite \/ (~CanAppend /\ UNCHANGED vars)
              /\ UNCHANGED <<call, duplicates>>
        /\ UNCHANGED <<leftover, effects, superseded, changes>>

\* publish_locked(): the gates on the publisher and on the epoch.  The plan accepts a
\* signal only if the ledger does not know its lineage.
Publish(l) ==
    /\ Serving("publish") /\ Configured
    /\ IsLive(l.source) /\ l.epoch = mem.epoch
    /\ l \notin Range(live.known)
    /\ Attempt(<<l>>, {l})

\* publish_batch(): a signal of another epoch, or a second one of a source, is refused by
\* the engine alone, and its lineage is recorded with the others.
PublishBatch(signals) ==
    /\ Serving("batch") /\ Configured
    /\ \A l \in Range(signals) : IsLive(l.source)
    /\ \E accepted \in SUBSET Range(signals) \ {{}} :
          /\ \A l \in accepted : l.epoch = mem.epoch /\ l \notin Range(live.known)
          /\ \A l, k \in accepted : l.source = k.source => l = k
          /\ Attempt(signals, accepted)

AttemptBegun ==
    /\ call.at = "begin"
    /\ SyncOk
    /\ call' = [call EXCEPT !.at = "lineages"]
    /\ UNCHANGED <<live, regHist>>

Unrecorded == call.recorded < Len(call.signals)

RecordFirstOnly ==
    /\ call.at = "lineages" /\ Unrecorded
    /\ RecordLineage(call.signals[call.recorded + 1])
    /\ call' = [call EXCEPT !.recorded = Len(call.signals)]
    /\ UNCHANGED <<live, regHist>>

RecordNext ==
    /\ call.at = "lineages" /\ Unrecorded
    /\ RecordLineage(call.signals[call.recorded + 1])
    /\ call' = [call EXCEPT !.recorded = @ + 1]
    /\ UNCHANGED <<live, regHist>>

\* The journal takes no record: the attempt is to be aborted.
RecordFails ==
    /\ call.at = "lineages" /\ Unrecorded
    /\ ShortWrite \/ (~CanAppend /\ UNCHANGED vars)
    /\ call' = [call EXCEPT !.at = "abort"]
    /\ UNCHANGED <<live, regHist>>

\* mark_lineage() for the accepted signals, in their order.
Learn(known, l) == IF l \in call.accepted THEN RememberLineage(known, l) ELSE known

Marked == FoldLeft(Learn, live.known, call.signals)

\* Phase 3: the ledger learns the lineages and some pressure of their sources.  If it
\* overflows it keeps what it has learned, and the attempt is aborted.
CommitToLedger ==
    /\ call.at = "lineages" /\ ~Unrecorded
    /\ \E applied \in SUBSET ({l.source : l \in call.accepted} \X Resources),
          next \in {"commit", "abort"} :
          /\ live' = [live EXCEPT !.known = Marked, !.pressure = @ \cup applied]
          /\ call' = [call EXCEPT !.at = next]
    /\ effects' = effects \cup
          {[lineage |-> l, attempt |-> call.attempt,
            stale |-> <<l.source, live.publishers[l.source].inc>> \in superseded]
             : l \in call.accepted}
    /\ UNCHANGED <<vars, leftover, duplicates, superseded, changes>>

\* An explanation was truncated: nothing is committed to the ledger, and the publish
\* succeeds.
CommitTruncated ==
    /\ call.at = "lineages" /\ ~Unrecorded
    /\ call' = [call EXCEPT !.at = "commit"]
    /\ UNCHANGED <<vars, live, regHist>>

\* commit_attempt() and abort_attempt().
Conclude ==
    /\ call.at \in {"commit", "abort"}
    /\ ConcludeAttempt(call.attempt, IF call.at = "commit" THEN "AttemptCommit" ELSE "AttemptAbort")
    /\ UNCHANGED regVars

Concluded ==
    /\ call.at \in {"commit", "abort"}
    /\ SyncOk
    /\ call' = IF call.at = "commit" THEN AfterPublish ELSE Idle
    /\ UNCHANGED <<live, regHist>>

\* The attempt stays open.
ConcludeFails ==
    /\ call.at \in {"commit", "abort"}
    /\ ShortWrite \/ SyncFails \/ (~pending.on /\ ~CanAppend /\ UNCHANGED vars)
    /\ call' = Idle
    /\ UNCHANGED <<live, regHist>>

BeginFails ==
    /\ call.at = "begin"
    /\ SyncFails
    /\ call' = Idle
    /\ UNCHANGED <<live, regHist>>

\* compact_if_needed(), with its error ignored.
StartCompaction ==
    /\ call.at = "compact" /\ proc = "up"
    /\ Compact \/ (Len(CompactedBody(mem)) + 1 > MaxRecords /\ UNCHANGED vars)
    /\ call' = Idle
    /\ UNCHANGED <<live, regHist>>

Compacts == (RewriteRecord \/ Rename \/ RewriteFails \/ RivalOpen) /\ UNCHANGED regVars

\* recover(): any incarnation of a live publisher may lower its pressure.
Recover(s) ==
    /\ Serving("recover") /\ Configured
    /\ IsLive(s)
    /\ IdentifiersLeft(1)
    /\ \E gone \in SUBSET {p \in live.pressure : p[1] = s} :
          live' = [Took(1) EXCEPT !.pressure = @ \ gone]
    /\ UNCHANGED <<vars, call, regHist>>

Request ==
    \/ \E d \in Topologies : InstallTopology(d)
    \/ \E p \in Policies, g \in 1..MaxGeneration : InstallPolicy(p, g)
    \/ \E f \in Fences, form \in FenceForms : AddFence(f, form)
    \/ \E f \in Fences : ClearFence(f)
    \/ \E r \in Resources : MarkRevalidationRequired(r) \/ ClearRevalidationRequired(r)
    \/ \E s \in Sources, inc \in Incarnations : RegisterPublisher(s, inc)
    \/ \E s \in Sources : RetirePublisher(s) \/ Recover(s)
    \/ PublishNothing
    \/ \E l \in Lineages : Publish(l)
    \/ \E signals \in Batches : PublishBatch(signals)
    \/ Flush \/ Shutdown

RegNext ==
    \/ StoreOpens \/ EpochEstablished \/ FabricOpens \/ Dies
    \/ Request
    \/ WriteSucceeds \/ WriteFails \/ AppendFails
    \/ AttemptBegun \/ BeginFails \/ RecordNext \/ RecordFails
    \/ CommitToLedger \/ CommitTruncated
    \/ Conclude \/ Concluded \/ ConcludeFails
    \/ StartCompaction \/ Compacts

RegSpec == RegInit /\ [][RegNext]_<<vars, regVars>>

-----------------------------------------------------------------------------

\* Between the writes of its calls, what the fabric serves from its members is what the
\* store's memory says, whatever failed: the policy and the fences exactly, the topology
\* unless none is installed yet, and every resource that requires revalidation
\* (fabric.cpp:257-429, each call asks the store first).
LiveStateIsDurable ==
    (proc \in {"up", "compact"} /\ ~pending.on) =>
        /\ live.policy = mem.policy
        /\ live.fences = mem.fences
        /\ live.topology \in {None, mem.topology}
        /\ live.revalidation \subseteq mem.revalidation

\* No unrecorded effect: whatever this process has committed to its ledger, the next one
\* finds its lineage in the journal or its attempt still open, at whichever point this
\* one dies, unless the journal was damaged or the lineage history is full
\* (fabric.cpp:509-511, "a crash leaves an accepted-but-ambiguous attempt rather than an
\* unrecorded effect").
NoUnrecordedEffect ==
    \A e \in effects, o \in CrashOutcomes :
        \/ ~o.ok \/ o.torn
        \/ e.lineage \in Range(o.state.lineages)
        \/ e.attempt \in o.state.attempts
        \/ Len(o.state.lineages) = MaxLineages

\* The attempts a dead process left open stay on record as ambiguous although attempts_
\* starts again at 1: no publish of this process concludes one of them, and each refuses
\* at most one publish (fabric.hpp:306, fabric.cpp:514-519).
AmbiguityIsKept ==
    /\ proc \in {"up", "compact"} => leftover \subseteq mem.attempts
    /\ duplicates <= Cardinality(leftover)

\* A publisher that was replaced by another incarnation never publishes again
\* (README.md:197-198, "Registering a new incarnation supersedes the old one and the old
\* incarnation can never publish again").
SupersededNeverPublishes == \A e \in effects : ~e.stale

=============================================================================
