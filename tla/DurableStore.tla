---------------------------- MODULE DurableStore ----------------------------
(***************************************************************************)
(* The durable store (DurableStore in store/durable_state.cpp over Journal *)
(* in store/journal.cpp): every change is appended to a journal and synced *)
(* before it is made in memory, and an open rebuilds the memory by         *)
(* replaying the journal.  The process that owns the store may die at any  *)
(* point; records that were not synced may then be lost.                   *)
(*                                                                         *)
(* The journal is read only by replay, so a record is represented by what  *)
(* a replay that ends with it gives: disk is the outcome of replaying the  *)
(* synced records, and tail the outcomes after each later one.  An outcome *)
(* is an error for ever once apply_record() refuses a record, and it stays *)
(* as it is behind bytes that are not an intact record, where replay stops.*)
(* CRC, chain and sequence numbers are what makes replay notice such       *)
(* bytes; byte limits other than the number of records are left out.       *)
(***************************************************************************)
EXTENDS Integers, Sequences, FiniteSets, SequencesExt

CONSTANTS
    None,           \* an absent policy, topology binding or fence
    Policies,       \* the policy identities; their generations are 1..MaxGeneration
    MaxGeneration,
    Topologies,     \* the topology digests
    Fences,         \* fence identities
    FenceForms,     \* what a fence may say
    MaxFences,      \* FenceTable::kMaxFences
    Lineages,       \* lineage digests
    MaxLineages,    \* config_.max_lineages
    Resources,
    MaxFootprint,   \* config_.max_footprint_entries
    Attempts,       \* attempt identities
    MaxRecords,     \* limits_.max_records
    MaxBoots,       \* bounds the number of opens, and so the epochs
    Ops,            \* the groups of operations the owner calls
    Faults          \* what may go wrong besides a death of the process

ASSUME StoreAssumption ==
    /\ MaxGeneration \in Nat \ {0}
    /\ MaxFences \in Nat \ {0}
    /\ MaxLineages \in Nat \ {0}
    /\ MaxFootprint \in Nat \ {0}
    /\ MaxRecords \in Nat \ {0}
    /\ MaxBoots \in Nat
    /\ None \notin Policies \cup Topologies \cup FenceForms
    /\ IsFiniteSet(Fences) /\ IsFiniteSet(Resources) /\ IsFiniteSet(Attempts)
    /\ Ops \subseteq {"config", "fence", "lineage", "revalidation", "attempt", "compact"}
    /\ Faults \subseteq {"create", "append", "sync", "rewrite", "rival"}

VARIABLES
    header,     \* the journal file: "none", "empty" (no header yet) or "written"
    disk,       \* the outcome of replaying the synced records
    tail,       \* the outcome after each record that is not yet synced
    temp        \* the temporary file of a compaction: [there, outcome]

fileVars == <<header, disk, tail, temp>>

VARIABLES
    proc,       \* where the owner is: see ProcStates
    handle,     \* handle_ is not null
    records,    \* records_.size()
    mem,        \* state_ and open_attempts_
    pending,    \* the operation between its append and its sync, if any
    rest        \* the records a compaction has still to write

procVars == <<proc, handle, records, mem, pending, rest>>

VARIABLES
    boots,      \* opens so far
    acked,      \* the memory the last successful sync has made durable
    served,     \* the highest epoch a process has served under
    damage      \* the faults so far that may have left the file behind the memory

histVars == <<boots, acked, served, damage>>

vars == <<fileVars, procVars, histVars>>

(***************************************************************************)
(* Fabric::open creates or opens the journal, replays it ("opened"), then  *)
(* establishes the epoch ("epoch") and records the boot, and only then     *)
(* serves ("up").  "compact" is inside Journal::rewrite().                 *)
(***************************************************************************)
ProcStates == {"down", "created", "opened", "epoch", "up", "compact"}

PolicyForms == [id : Policies \cup {None}, generation : 0..MaxGeneration]

StateForms == [epoch : Nat,
               boot : Nat,
               policy : PolicyForms,
               topology : Topologies \cup {None},
               fences : [Fences -> FenceForms \cup {None}],
               lineages : Seq(Lineages),
               revalidation : SUBSET Resources,
               attempts : SUBSET Attempts]

State == {s \in StateForms : /\ Len(s.lineages) <= MaxLineages
                            /\ Cardinality(s.revalidation) <= MaxFootprint}

Fresh == [epoch |-> 0,
          boot |-> 0,
          policy |-> [id |-> None, generation |-> 0],
          topology |-> None,
          fences |-> [f \in Fences |-> None],
          lineages |-> <<>>,
          revalidation |-> {},
          attempts |-> {}]

Outcome == [ok : BOOLEAN,       \* apply_record() has accepted every record
            torn : BOOLEAN,     \* replay stops here
            records : Nat,      \* the intact records up to here
            state : State]

EmptyJournal == [ok |-> TRUE, torn |-> FALSE, records |-> 0, state |-> Fresh]

NoWrite == [on |-> FALSE, after |-> Fresh, next |-> "up"]

NoTemp == [there |-> FALSE, outcome |-> EmptyJournal]

(***************************************************************************)
(* What the memory and replay share.                                       *)
(***************************************************************************)
Present(fences) == {f \in Fences : fences[f] # None}

RememberLineageUnbounded(lineages, l) ==
    IF l \in Range(lineages) THEN lineages ELSE Append(lineages, l)

\* A known lineage changes nothing; a new one may evict the oldest.
RememberLineage(lineages, l) ==
    IF l \in Range(lineages) THEN lineages
    ELSE Append(IF Len(lineages) >= MaxLineages THEN Tail(lineages) ELSE lineages, l)

\* The entries of a footprint, in their order, as far as the list has room: the
\* first new entry that finds it full ends the additions.
Absorb(revalidation, entries) ==
    LET upTo(i) == revalidation \cup {entries[j] : j \in 1..i}
    IN  revalidation \cup {entries[i] : i \in {i \in DOMAIN entries :
                                                 Cardinality(upTo(i)) <= MaxFootprint}}

(***************************************************************************)
(* DurableStore::apply_record(): the records replay refuses, and what the  *)
(* others do.                                                              *)
(***************************************************************************)
Rejects(s, r) ==
    \/ /\ r.type = "FencePut"
       /\ r.arg.id \notin Present(s.fences)
       /\ Cardinality(Present(s.fences)) >= MaxFences
    \/ r.type = "FenceRemove" /\ r.arg \notin Present(s.fences)
    \/ r.type = "Footprint" /\ Len(r.arg) > MaxFootprint
    \/ r.type = "AttemptBegin" /\ r.arg \in s.attempts
    \/ r.type \in {"AttemptCommit", "AttemptAbort"} /\ r.arg \notin s.attempts

Replayed(s, r) ==
    CASE r.type = "Epoch" -> [s EXCEPT !.epoch = r.arg]
      [] r.type = "Boot" -> [s EXCEPT !.boot = r.arg]
      [] r.type = "Policy" -> [s EXCEPT !.policy = r.arg]
      [] r.type = "TopologyBinding" -> [s EXCEPT !.topology = r.arg]
      [] r.type = "FencePut" -> [s EXCEPT !.fences[r.arg.id] = r.arg.form]
      [] r.type = "FenceRemove" -> [s EXCEPT !.fences[r.arg] = None]
      [] r.type = "Lineage" -> [s EXCEPT !.lineages = RememberLineage(@, r.arg)]
      [] r.type = "RevalidationRequest" ->
            [s EXCEPT !.revalidation =
                IF r.arg \in @ \/ Cardinality(@) < MaxFootprint THEN @ \cup {r.arg} ELSE @]
      [] r.type = "RevalidationClear" -> [s EXCEPT !.revalidation = @ \ {r.arg}]
      [] r.type = "Footprint" -> [s EXCEPT !.revalidation = Absorb(@, r.arg)]
      [] r.type = "AttemptBegin" -> [s EXCEPT !.attempts = @ \cup {r.arg}]
      [] r.type \in {"AttemptCommit", "AttemptAbort"} ->
            [s EXCEPT !.attempts = @ \ {r.arg}]
      [] OTHER -> s             \* Compaction restores only previous_epoch

ApplyRecord(o, r) ==
    IF ~o.ok \/ o.torn THEN o
    ELSE IF Rejects(o.state, r) THEN [o EXCEPT !.ok = FALSE, !.records = @ + 1]
    ELSE [o EXCEPT !.state = Replayed(@, r), !.records = @ + 1]

\* What replaying the whole file would give, synced or not.
End == IF tail = <<>> THEN disk ELSE tail[Len(tail)]

\* What an open may find after the process died: any prefix of the unsynced records
\* may have reached the disk, and a record cut in two is truncated away by the open.
CrashOutcomes == {disk} \cup Range(tail)

Init ==
    /\ header = "none"
    /\ disk = EmptyJournal
    /\ tail = <<>>
    /\ temp = NoTemp
    /\ proc = "down"
    /\ handle = FALSE
    /\ records = 0
    /\ mem = Fresh
    /\ pending = NoWrite
    /\ rest = <<>>
    /\ boots = 0
    /\ acked = Fresh
    /\ served = 0
    /\ damage = {}

(***************************************************************************)
(* DurableStore::open() removes temporary files, takes the lock and opens  *)
(* the journal.  A missing journal is created and its header written; the  *)
(* header is not synced, but neither does anything depend on it before the *)
(* first sync of the file.                                                 *)
(***************************************************************************)
Create ==
    /\ proc = "down" /\ boots < MaxBoots
    /\ header = "none"
    /\ header' = "empty"
    /\ temp' = NoTemp
    /\ proc' = "created"
    /\ boots' = boots + 1
    /\ UNCHANGED <<disk, tail, handle, records, mem, pending, rest, acked, served, damage>>

WriteHeader ==
    /\ proc = "created"
    /\ header' = "written"
    /\ handle' = TRUE
    /\ proc' = "opened"
    /\ UNCHANGED <<disk, tail, temp, records, mem, pending, rest, histVars>>

\* replay_file() and replay(): what follows the intact records is truncated.
Open ==
    /\ proc = "down" /\ boots < MaxBoots
    /\ header = "written" /\ disk.ok
    /\ disk' = [disk EXCEPT !.torn = FALSE]
    /\ temp' = NoTemp
    /\ proc' = "opened"
    /\ handle' = TRUE
    /\ records' = disk.records
    /\ mem' = disk.state
    /\ boots' = boots + 1
    /\ acked' = disk.state
    /\ UNCHANGED <<header, tail, pending, rest, served, damage>>

\* A file without its header is TruncatedInput; a refused record fails replay().
OpenFails ==
    /\ proc = "down" /\ boots < MaxBoots
    /\ header = "empty" \/ (header = "written" /\ ~disk.ok)
    /\ boots' = boots + 1
    /\ temp' = NoTemp
    /\ UNCHANGED <<header, disk, tail, procVars, acked, served, damage>>

\* The process dies, or closes the store, or Fabric::open() gives up after an error.
Crash ==
    /\ proc # "down"
    /\ proc = "created" => "create" \in Faults
    /\ disk' \in CrashOutcomes
    /\ tail' = <<>>
    /\ proc' = "down"
    /\ handle' = FALSE
    /\ records' = 0
    /\ mem' = Fresh
    /\ pending' = NoWrite
    /\ rest' = <<>>
    /\ damage' = IF proc = "created" THEN damage \cup {"create"} ELSE damage
    /\ UNCHANGED <<header, temp, boots, acked, served>>

(***************************************************************************)
(* An operation appends its record, syncs the journal, and then changes    *)
(* the memory.  An append to a closed or full journal refuses the          *)
(* operation; that changes nothing, and in Fabric::open() the process then *)
(* gives up, which is the action Crash.  The same holds of an error from   *)
(* fwrite() or fsync() while the process opens.                            *)
(***************************************************************************)
CanAppend ==
    /\ handle
    /\ ~pending.on
    /\ records < MaxRecords

Journalled(r) ==
    /\ tail' = Append(tail, ApplyRecord(End, r))
    /\ records' = records + 1

Write(r, after, next) ==
    /\ CanAppend
    /\ Journalled(r)
    /\ pending' = [on |-> TRUE, after |-> after, next |-> next]
    /\ UNCHANGED <<header, disk, temp, proc, handle, mem, rest, histVars>>

SyncOk ==
    /\ pending.on
    /\ disk' = End
    /\ tail' = <<>>
    /\ mem' = pending.after
    /\ acked' = pending.after
    /\ proc' = pending.next
    /\ served' = IF proc = "epoch" THEN mem.epoch ELSE served
    /\ pending' = NoWrite
    /\ UNCHANGED <<header, temp, handle, records, rest, boots, damage>>

\* fflush() or fsync() fails: the operation returns IoError, the record stays.
SyncFails ==
    /\ "sync" \in Faults
    /\ proc = "up" /\ pending.on
    /\ pending' = NoWrite
    /\ damage' = damage \cup {"sync"}
    /\ UNCHANGED <<fileVars, proc, handle, records, mem, rest, boots, acked, served>>

\* fwrite() writes part of the record: the operation returns IoError, and the next
\* append goes behind the partial record.  A second partial record behind the first
\* changes no outcome and is left out.
ShortWrite ==
    /\ "append" \in Faults
    /\ proc = "up" /\ CanAppend
    /\ ~End.torn
    /\ tail' = Append(tail, [End EXCEPT !.torn = TRUE])
    /\ damage' = damage \cup {"append"}
    /\ UNCHANGED <<header, disk, temp, procVars, boots, acked, served>>

EstablishEpochOldRecord ==
    /\ proc = "opened"
    /\ Write([type |-> "Epoch", arg |-> mem.epoch], [mem EXCEPT !.epoch = @ + 1], "epoch")

EstablishEpoch ==
    /\ proc = "opened"
    /\ LET next == IF mem.epoch = 0 THEN 1 ELSE mem.epoch + 1
       IN  Write([type |-> "Epoch", arg |-> next], [mem EXCEPT !.epoch = next], "epoch")

RecordBoot ==
    /\ proc = "epoch"
    /\ Write([type |-> "Boot", arg |-> boots], [mem EXCEPT !.boot = boots], "up")

(***************************************************************************)
(* The operations of a store that serves.  Each starts with the checks     *)
(* that make it return without touching the journal.                       *)
(***************************************************************************)
Up(op) == proc = "up" /\ op \in Ops

Operation(r, after) == Write(r, after, "up")

PersistPolicy(p, g) ==
    /\ Up("config")
    /\ p = mem.policy.id => g > mem.policy.generation
    /\ LET policy == [id |-> p, generation |-> g]
       IN  Operation([type |-> "Policy", arg |-> policy], [mem EXCEPT !.policy = policy])

BindTopology(d) ==
    /\ Up("config")
    /\ Operation([type |-> "TopologyBinding", arg |-> d], [mem EXCEPT !.topology = d])

\* The capacity is tested after the record is durable.
PutFence(f, form) ==
    /\ Up("fence")
    /\ LET full == /\ f \notin Present(mem.fences)
                   /\ Cardinality(Present(mem.fences)) >= MaxFences
       IN  Operation([type |-> "FencePut", arg |-> [id |-> f, form |-> form]],
                     IF full THEN mem ELSE [mem EXCEPT !.fences[f] = form])

RemoveFenceBlindly(f) ==
    /\ Up("fence")
    /\ Operation([type |-> "FenceRemove", arg |-> f], [mem EXCEPT !.fences[f] = None])

RemoveFence(f) ==
    /\ Up("fence")
    /\ f \in Present(mem.fences)
    /\ Operation([type |-> "FenceRemove", arg |-> f], [mem EXCEPT !.fences[f] = None])

RecordLineageUnbounded(l) ==
    /\ Up("lineage")
    /\ CanAppend
    /\ Journalled([type |-> "Lineage", arg |-> l])
    /\ mem' = [mem EXCEPT !.lineages = RememberLineageUnbounded(@, l)]
    /\ UNCHANGED <<header, disk, temp, proc, handle, pending, rest, histVars>>

\* The one operation that does not sync.
RecordLineage(l) ==
    /\ Up("lineage")
    /\ CanAppend
    /\ Journalled([type |-> "Lineage", arg |-> l])
    /\ mem' = [mem EXCEPT !.lineages = RememberLineage(@, l)]
    /\ UNCHANGED <<header, disk, temp, proc, handle, pending, rest, histVars>>

RequestRevalidationUncapped(r) ==
    /\ Up("revalidation")
    /\ Operation([type |-> "RevalidationRequest", arg |-> r],
                 [mem EXCEPT !.revalidation = @ \cup {r}])

RequestRevalidation(r) ==
    /\ Up("revalidation")
    /\ LET full == r \notin mem.revalidation /\ Cardinality(mem.revalidation) >= MaxFootprint
       IN  Operation([type |-> "RevalidationRequest", arg |-> r],
                     IF full THEN mem ELSE [mem EXCEPT !.revalidation = @ \cup {r}])

ClearRevalidation(r) ==
    /\ Up("revalidation")
    /\ Operation([type |-> "RevalidationClear", arg |-> r],
                 [mem EXCEPT !.revalidation = @ \ {r}])

RecordPressureFootprint(entries) ==
    /\ Up("revalidation")
    /\ Len(entries) <= MaxFootprint
    /\ Operation([type |-> "Footprint", arg |-> entries],
                 [mem EXCEPT !.revalidation = Absorb(@, entries)])

BeginAttempt(a) ==
    /\ Up("attempt")
    /\ a \notin mem.attempts
    /\ Operation([type |-> "AttemptBegin", arg |-> a], [mem EXCEPT !.attempts = @ \cup {a}])

\* commit_attempt() and abort_attempt() differ only in their counters.
ConcludeAttempt(a, type) ==
    /\ Up("attempt")
    /\ a \in mem.attempts
    /\ Operation([type |-> type, arg |-> a], [mem EXCEPT !.attempts = @ \ {a}])

Sync ==
    /\ Up("lineage")
    /\ handle /\ ~pending.on /\ tail # <<>>
    /\ disk' = End
    /\ tail' = <<>>
    /\ acked' = mem
    /\ UNCHANGED <<header, temp, procVars, boots, served, damage>>

(***************************************************************************)
(* DurableStore::compact(): the records that rebuild the memory, and       *)
(* Journal::rewrite(), which closes the journal, writes them to a          *)
(* temporary file and renames it over the journal.                         *)
(***************************************************************************)
Each(type, args) == [i \in DOMAIN args |-> [type |-> type, arg |-> args[i]]]

CompactedBody(s) ==
    (IF s.boot = 0 THEN <<>> ELSE <<[type |-> "Boot", arg |-> s.boot]>>)
    \o (IF s.policy.id = None THEN <<>> ELSE <<[type |-> "Policy", arg |-> s.policy]>>)
    \o (IF s.topology = None THEN <<>>
        ELSE <<[type |-> "TopologyBinding", arg |-> s.topology]>>)
    \o Each("FencePut", SetToSeq({[id |-> f, form |-> s.fences[f]] : f \in Present(s.fences)}))
    \o Each("RevalidationRequest", SetToSeq(s.revalidation))
    \o Each("Lineage", s.lineages)
    \o Each("AttemptBegin", SetToSeq(s.attempts))
    \o <<[type |-> "Compaction", arg |-> s.epoch]>>

\* Asked for directly, it also opens a journal that an earlier failure left closed.
StartRewrite(first, body) ==
    /\ Up("compact")
    /\ ~pending.on
    /\ Len(body) + 1 <= MaxRecords
    /\ temp' = [there |-> TRUE, outcome |-> ApplyRecord(EmptyJournal, first)]
    /\ rest' = body
    /\ proc' = "compact"
    /\ handle' = FALSE
    /\ records' = 0
    /\ UNCHANGED <<header, disk, tail, mem, pending, histVars>>

CompactForgetsAttempts ==
    LET kept == SelectSeq(CompactedBody(mem), LAMBDA r : r.type # "AttemptBegin")
    IN  StartRewrite([type |-> "Epoch", arg |-> mem.epoch], kept)

Compact == StartRewrite([type |-> "Epoch", arg |-> mem.epoch], CompactedBody(mem))

RewriteRecord ==
    /\ proc = "compact" /\ rest # <<>>
    /\ temp' = [temp EXCEPT !.outcome = ApplyRecord(@, Head(rest))]
    /\ rest' = Tail(rest)
    /\ UNCHANGED <<header, disk, tail, proc, handle, records, mem, pending, histVars>>

\* The rename, and the open of the new journal.
Rename ==
    /\ proc = "compact" /\ rest = <<>> /\ temp.there
    /\ disk' = temp.outcome
    /\ tail' = <<>>
    /\ temp' = NoTemp
    /\ proc' = "up"
    /\ handle' = TRUE
    /\ records' = temp.outcome.records
    /\ acked' = mem
    /\ UNCHANGED <<header, mem, pending, rest, boots, served, damage>>

\* The temporary file cannot be written, or is no longer there to be renamed.  The
\* journal stays closed; compact_if_needed() hides the error.
RewriteFails ==
    /\ proc = "compact"
    /\ "rewrite" \in Faults \/ (rest = <<>> /\ ~temp.there)
    /\ temp' = NoTemp
    /\ rest' = <<>>
    /\ proc' = "up"
    /\ UNCHANGED <<header, disk, tail, handle, records, mem, pending, histVars>>

\* Another process opens the directory: it removes the temporary files before the lock
\* refuses it.
RivalOpen ==
    /\ "rival" \in Faults
    /\ proc # "down" /\ temp.there
    /\ temp' = NoTemp
    /\ UNCHANGED <<header, disk, tail, procVars, histVars>>

Entries == UNION {[1..n -> Resources] : n \in 1..MaxFootprint}

Serve ==
    \/ \E p \in Policies, g \in 1..MaxGeneration : PersistPolicy(p, g)
    \/ \E d \in Topologies : BindTopology(d)
    \/ \E f \in Fences, form \in FenceForms : PutFence(f, form)
    \/ \E f \in Fences : RemoveFence(f)
    \/ \E l \in Lineages : RecordLineage(l)
    \/ \E r \in Resources : RequestRevalidation(r) \/ ClearRevalidation(r)
    \/ \E entries \in Entries : RecordPressureFootprint(entries)
    \/ \E a \in Attempts : BeginAttempt(a)
    \/ \E a \in Attempts, type \in {"AttemptCommit", "AttemptAbort"} : ConcludeAttempt(a, type)
    \/ Sync
    \/ Compact

Next ==
    \/ Create \/ WriteHeader \/ Open \/ OpenFails
    \/ Crash
    \/ SyncOk \/ SyncFails \/ ShortWrite
    \/ EstablishEpoch \/ RecordBoot
    \/ Serve
    \/ RewriteRecord \/ Rename \/ RewriteFails
    \/ RivalOpen

Spec == Init /\ [][Next]_vars

-----------------------------------------------------------------------------

\* Every variable has its type, and in memory as in every state a replay may rebuild the
\* lists respect their capacities, whatever fails.
StoreTypeOK ==
    /\ header \in {"none", "empty", "written"}
    /\ disk \in Outcome
    /\ tail \in Seq(Outcome)
    /\ temp \in [there : BOOLEAN, outcome : Outcome]
    /\ proc \in ProcStates
    /\ handle \in BOOLEAN
    /\ records \in Nat
    /\ mem \in State
    /\ pending \in [on : BOOLEAN, after : State, next : ProcStates]
    /\ boots \in 0..MaxBoots
    /\ acked \in State
    /\ served \in Nat

\* The file holds what the operations meant it to hold: no append was cut short and no
\* sync has failed.
FileIntact == damage \cap {"append", "sync"} = {}

\* Between two operations the memory of a running process is exactly what replaying its
\* journal would rebuild, unless the file was damaged: no operation changes the memory in
\* another way than its own record does at replay (durable_state.hpp:6, "it reconstructs
\* exactly that").
MemoryIsReplay ==
    (proc \in {"opened", "epoch", "up"} /\ ~pending.on /\ FileIntact)
        => End.ok /\ End.state = mem

\* Everything but the lineages, which are synced with the next operation.
Durable(s) == [s EXCEPT !.lineages = <<>>]

\* Whenever the process dies, the next one finds everything that was acknowledged, and
\* nothing more than the operation that was in progress, unless the file was damaged.
AckedSurvives ==
    (proc \notin {"down", "created"} /\ FileIntact) =>
        /\ disk.state = acked
        /\ \A o \in CrashOutcomes :
              Durable(o.state) \in {Durable(acked)}
                                   \cup (IF pending.on THEN {Durable(pending.after)} ELSE {})

\* Whenever the process dies, the directory it leaves can be opened again: the journal
\* has its header, unless it died while creating it, and replay accepts every record that
\* may have reached the disk, unless a sync had failed; a record cut short never makes the
\* directory unusable (tests/test_multiprocess.cpp:667, "Once released, the directory is
\* usable again").
UsableAfterCrash ==
    /\ (proc = "down" /\ "create" \notin damage) => header # "empty"
    /\ "sync" \notin damage => \A o \in CrashOutcomes : o.ok

\* A process that begins to serve does so under an epoch greater than any epoch an
\* earlier process has served under, whatever was lost or failed in between; the epoch is
\* what fences every statement made before the restart.
EpochsAdvance ==
    [][proc = "epoch" /\ proc' = "up" => mem'.epoch > served]_vars

\* A process that serves can write to its journal: compact() replaces the journal
\* without putting the store out of service (tests/test_multiprocess.cpp:659, "The
\* writer that holds the lock keeps working normally").
OwnerKeepsWriting == proc = "up" => handle

=============================================================================
