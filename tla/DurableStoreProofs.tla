------------------------- MODULE DurableStoreProofs -------------------------
(***************************************************************************)
(* Proofs about the module DurableStore, for every value of its constants  *)
(* and whatever faults occur: its types and capacities, that every process *)
(* serves under a new epoch, and that the journal rebuilds the memory.     *)
(*                                                                         *)
(* The epoch argument follows the journal.  Whatever a crash may leave     *)
(* replays to an epoch that is at least the highest one served (EpochsKept)*)
(* because the epoch record is synced before its process serves, no other  *)
(* record touches the epoch, and a compaction begins with it.  An opened   *)
(* store therefore holds at least that epoch and establishes the next one. *)
(*                                                                         *)
(* That the journal rebuilds the memory is StoreKept.  Every operation     *)
(* changes the memory as replaying its record does (AsReplayed), so the    *)
(* end of the file stays with the memory (ReplayKept) and what a crash may *)
(* leave stays with what was acknowledged (AckedKept).  A compaction has   *)
(* no record of its own to compare with: Rebuilds says, record by record,  *)
(* that what it has written and what it has still to write make up the     *)
(* memory, so that the file it renames holds exactly that.                 *)
(***************************************************************************)
EXTENDS DurableStore, NaturalLemmas, FiniteSetTheorems, WellFoundedInduction, TLAPS

\* remember_lineage() keeps the history inside its capacity.
LEMMA RememberLineageType ==
    ASSUME NEW ls \in Seq(Lineages), Len(ls) <= MaxLineages, NEW l \in Lineages
    PROVE  /\ RememberLineage(ls, l) \in Seq(Lineages)
           /\ Len(RememberLineage(ls, l)) <= MaxLineages
  BY StoreAssumption DEF RememberLineage

\* A footprint never makes the revalidation list longer than its capacity.
LEMMA AbsorbType ==
    ASSUME NEW s \in SUBSET Resources, Cardinality(s) <= MaxFootprint,
           NEW es \in Seq(Resources)
    PROVE  Absorb(s, es) \in SUBSET Resources /\ Cardinality(Absorb(s, es)) <= MaxFootprint
<1> DEFINE upTo(i) == s \cup {es[j] : j \in 1..i}
           fits == {i \in DOMAIN es : Cardinality(upTo(i)) <= MaxFootprint}
<1>1. Absorb(s, es) = s \cup {es[i] : i \in fits}
  BY DEF Absorb
<1>2. DOMAIN es = 1..Len(es) /\ Len(es) \in Nat /\ \A i \in 1..Len(es) : es[i] \in Resources
  OBVIOUS
<1>3. Absorb(s, es) \in SUBSET Resources
  BY <1>1, <1>2
<1>4. CASE fits = {}
  BY <1>1, <1>3, <1>4
<1>5. CASE fits # {}
  <2>1. fits \subseteq 0..Len(es)
    BY <1>2
  <2>2. PICK m \in fits : \A i \in fits : i <= m
    <3> HIDE DEF fits
    <3> QED
      BY <1>2, <1>5, <2>1, GreatestNatural
  <2>3. Absorb(s, es) \subseteq upTo(m)
    <3>1. \A i \in fits : i \in 1..m
      BY <1>2, <2>2
    <3>2. {es[i] : i \in fits} \subseteq {es[j] : j \in 1..m}
      BY <3>1, Zenon
    <3> QED
      BY <1>1, <3>2, Zenon
  <2>4. upTo(m) \subseteq Resources /\ Cardinality(upTo(m)) <= MaxFootprint
    BY <1>2, <2>2
  <2>5. IsFiniteSet(upTo(m))
    BY <2>4, FS_Subset, StoreAssumption
  <2>6. Cardinality(Absorb(s, es)) <= Cardinality(upTo(m)) /\ Cardinality(upTo(m)) \in Nat
        /\ Cardinality(Absorb(s, es)) \in Nat
    BY <2>3, <2>5, FS_Subset, FS_CardinalityType
  <2> QED
    BY <1>3, <2>4, <2>6, StoreAssumption
<1> QED
  BY <1>4, <1>5

-----------------------------------------------------------------------------

\* A policy that is installed has an identity.
NamedPolicies == [id : Policies, generation : 0..MaxGeneration]

\* The records the operations write.
RecordOK(r) ==
    /\ r.type \in {"Epoch", "Boot"} => r.arg \in Nat
    /\ r.type = "Policy" => r.arg \in NamedPolicies
    /\ r.type = "TopologyBinding" => r.arg \in Topologies
    /\ r.type = "FencePut" => r.arg \in [id : Fences, form : FenceForms]
    /\ r.type = "FenceRemove" => r.arg \in Fences
    /\ r.type = "Lineage" => r.arg \in Lineages
    /\ r.type \in {"RevalidationRequest", "RevalidationClear"} => r.arg \in Resources
    /\ r.type = "Footprint" => r.arg \in Seq(Resources)
    /\ r.type \in {"AttemptBegin", "AttemptCommit", "AttemptAbort"} => r.arg \in Attempts

LEMMA StateFields ==
    ASSUME NEW s \in State
    PROVE  /\ s \in StateForms
           /\ s.epoch \in Nat /\ s.boot \in Nat
           /\ s.policy \in PolicyForms
           /\ s.topology \in Topologies \cup {None}
           /\ s.fences \in [Fences -> FenceForms \cup {None}]
           /\ s.lineages \in Seq(Lineages) /\ Len(s.lineages) <= MaxLineages
           /\ s.revalidation \in SUBSET Resources
           /\ Cardinality(s.revalidation) <= MaxFootprint
           /\ s.attempts \in SUBSET Attempts
  BY DEF State, StateForms

LEMMA FreshType == Fresh \in State
<1>1. Fresh.lineages = <<>> /\ Fresh.revalidation = {}
  BY DEF Fresh
<1>2. <<>> \in Seq(Lineages) /\ Len(<<>>) = 0 /\ Cardinality({}) = 0
  BY FS_EmptySet
<1>3. [f \in Fences |-> None] \in [Fences -> FenceForms \cup {None}]
  OBVIOUS
<1>4. [id |-> None, generation |-> 0] \in PolicyForms
  BY StoreAssumption DEF PolicyForms
<1>5. Fresh \in StateForms
  BY <1>2, <1>3, <1>4, Zenon DEF Fresh, StateForms
<1>6. Len(Fresh.lineages) <= MaxLineages /\ Cardinality(Fresh.revalidation) <= MaxFootprint
  BY <1>1, <1>2, StoreAssumption
<1> QED
  BY <1>5, <1>6, Zenon DEF State

\* A state that differs in one field from a state is a state.
LEMMA StateExcept ==
    ASSUME NEW s \in State
    PROVE  /\ \A v \in Nat : [s EXCEPT !.epoch = v] \in State
           /\ \A v \in Nat : [s EXCEPT !.boot = v] \in State
           /\ \A v \in PolicyForms : [s EXCEPT !.policy = v] \in State
           /\ \A v \in Topologies \cup {None} : [s EXCEPT !.topology = v] \in State
           /\ \A v \in [Fences -> FenceForms \cup {None}] : [s EXCEPT !.fences = v] \in State
           /\ \A v \in Seq(Lineages) :
                 Len(v) <= MaxLineages => [s EXCEPT !.lineages = v] \in State
           /\ \A v \in SUBSET Resources :
                 Cardinality(v) <= MaxFootprint => [s EXCEPT !.revalidation = v] \in State
           /\ \A v \in SUBSET Attempts : [s EXCEPT !.attempts = v] \in State
  BY StateFields DEF State, StateForms

\* Adding a resource to a list with room, and removing one, respect its capacity.
LEMMA RevalidationType ==
    ASSUME NEW v \in SUBSET Resources, Cardinality(v) <= MaxFootprint, NEW r \in Resources
    PROVE  /\ (r \in v \/ Cardinality(v) < MaxFootprint)
                => Cardinality(v \cup {r}) <= MaxFootprint
           /\ Cardinality(v \ {r}) <= MaxFootprint
<1>1. IsFiniteSet(v) /\ Cardinality(v) \in Nat
  BY FS_Subset, FS_CardinalityType, StoreAssumption
<1>2. Cardinality(v \cup {r}) = IF r \in v THEN Cardinality(v) ELSE Cardinality(v) + 1
  BY <1>1, FS_AddElement
<1>3. Cardinality(v \ {r}) = IF r \in v THEN Cardinality(v) - 1 ELSE Cardinality(v)
  BY <1>1, FS_RemoveElement
<1> QED
  BY <1>1, <1>2, <1>3, StoreAssumption

LEMMA ReplayedType ==
    ASSUME NEW s \in State, NEW r, RecordOK(r)
    PROVE  Replayed(s, r) \in State
<1> USE StateFields, StateExcept
<1>0. NamedPolicies \subseteq PolicyForms
  BY DEF NamedPolicies, PolicyForms
<1>1. CASE r.type \in {"Epoch", "Boot", "Policy", "TopologyBinding"}
  BY <1>0, <1>1 DEF Replayed, RecordOK
<1>2. CASE r.type = "FencePut"
  BY <1>2 DEF Replayed, RecordOK
<1>3. CASE r.type = "FenceRemove"
  BY <1>3 DEF Replayed, RecordOK
<1>4. CASE r.type = "Lineage"
  BY <1>4, RememberLineageType DEF Replayed, RecordOK
<1>5. CASE r.type = "RevalidationRequest"
  BY <1>5, RevalidationType DEF Replayed, RecordOK
<1>6. CASE r.type = "RevalidationClear"
  BY <1>6, RevalidationType DEF Replayed, RecordOK
<1>7. CASE r.type = "Footprint"
  BY <1>7, AbsorbType DEF Replayed, RecordOK
<1>8. CASE r.type \in {"AttemptBegin", "AttemptCommit", "AttemptAbort"}
  BY <1>8 DEF Replayed, RecordOK
<1>9. CASE r.type \notin {"Epoch", "Boot", "Policy", "TopologyBinding", "FencePut",
                          "FenceRemove", "Lineage", "RevalidationRequest",
                          "RevalidationClear", "Footprint", "AttemptBegin",
                          "AttemptCommit", "AttemptAbort"}
  BY <1>9 DEF Replayed
<1> QED
  BY <1>1, <1>2, <1>3, <1>4, <1>5, <1>6, <1>7, <1>8, <1>9

\* Only an epoch record changes the epoch.
LEMMA ReplayedEpoch ==
    ASSUME NEW s \in State, NEW r
    PROVE  Replayed(s, r).epoch = IF r.type = "Epoch" THEN r.arg ELSE s.epoch
  BY StateFields DEF Replayed, StateForms

LEMMA ApplyRecordType ==
    ASSUME NEW o \in Outcome, NEW r, RecordOK(r)
    PROVE  /\ ApplyRecord(o, r) \in Outcome
           /\ r.type # "Epoch" => ApplyRecord(o, r).state.epoch = o.state.epoch
           /\ (r.type = "Epoch" /\ o.ok /\ ~o.torn) => ApplyRecord(o, r).state.epoch = r.arg
           /\ r.type = "Epoch" => ApplyRecord(o, r).state.epoch \in {o.state.epoch, r.arg}
<1>1. o.state \in State /\ o.records \in Nat /\ o.ok \in BOOLEAN /\ o.torn \in BOOLEAN
  BY DEF Outcome
<1>2. Replayed(o.state, r) \in State
  BY <1>1, ReplayedType
<1>3. Replayed(o.state, r).epoch = IF r.type = "Epoch" THEN r.arg ELSE o.state.epoch
  BY <1>1, ReplayedEpoch
<1>4. r.type = "Epoch" => ~Rejects(o.state, r)
  BY DEF Rejects
<1>5. CASE ~o.ok \/ o.torn
  BY <1>5 DEF ApplyRecord
<1>8. o.records + 1 \in Nat
  BY <1>1
<1>6. CASE ~(~o.ok \/ o.torn) /\ Rejects(o.state, r)
  <2>1. ApplyRecord(o, r) = [o EXCEPT !.ok = FALSE, !.records = o.records + 1]
    BY <1>6 DEF ApplyRecord
  <2>2. ApplyRecord(o, r) \in Outcome
    BY <1>1, <1>8, <2>1, Zenon DEF Outcome
  <2>3. ApplyRecord(o, r).state = o.state
    BY <2>1 DEF Outcome
  <2> QED
    BY <1>4, <1>6, <2>2, <2>3
<1>7. CASE ~(~o.ok \/ o.torn) /\ ~Rejects(o.state, r)
  <2>1. ApplyRecord(o, r) = [o EXCEPT !.state = Replayed(o.state, r), !.records = o.records + 1]
    BY <1>7 DEF ApplyRecord
  <2>2. ApplyRecord(o, r) \in Outcome
    BY <1>1, <1>2, <1>8, <2>1, Zenon DEF Outcome
  <2>3. ApplyRecord(o, r).state = Replayed(o.state, r)
    BY <2>1 DEF Outcome
  <2> QED
    BY <1>3, <2>2, <2>3
<1> QED
  BY <1>5, <1>6, <1>7

LEMMA EmptyJournalType == EmptyJournal \in Outcome /\ NoTemp \in [there : BOOLEAN, outcome : Outcome]
                          /\ NoWrite \in [on : BOOLEAN, after : State, next : ProcStates]
  BY FreshType DEF EmptyJournal, Outcome, NoTemp, NoWrite, ProcStates

-----------------------------------------------------------------------------

\* The records of a compaction after its first: none of them is an epoch record.
Body == [type : {"Boot", "Compaction"}, arg : Nat]
        \cup [type : {"Policy"}, arg : NamedPolicies]
        \cup [type : {"TopologyBinding"}, arg : Topologies]
        \cup [type : {"FencePut"}, arg : [id : Fences, form : FenceForms]]
        \cup [type : {"RevalidationRequest"}, arg : Resources]
        \cup [type : {"Lineage"}, arg : Lineages]
        \cup [type : {"AttemptBegin"}, arg : Attempts]

LEMMA BodyRecords ==
    ASSUME NEW r \in Body
    PROVE  RecordOK(r) /\ r.type # "Epoch"
  BY DEF Body, RecordOK

LEMMA SetToSeqType ==
    ASSUME NEW S, IsFiniteSet(S)
    PROVE  SetToSeq(S) \in Seq(S)
<1>1. Cardinality(S) \in Nat /\ ExistsBijection(1..Cardinality(S), S)
  BY FS_CardinalityType
<1>2. \E f \in [1..Cardinality(S) -> S] : IsInjective(f)
  BY <1>1 DEF ExistsBijection, Bijection, Injection, Surjection, IsInjective
<1>3. SetToSeq(S) \in [1..Cardinality(S) -> S]
  BY <1>2 DEF SetToSeq
<1> QED
  BY <1>1, <1>3

LEMMA EachType ==
    ASSUME NEW S, NEW type, NEW args \in Seq(S),
           \A x \in S : [type |-> type, arg |-> x] \in Body
    PROVE  Each(type, args) \in Seq(Body)
<1>1. DOMAIN args = 1..Len(args) /\ Len(args) \in Nat /\ \A i \in 1..Len(args) : args[i] \in S
  OBVIOUS
<1> QED
  BY <1>1 DEF Each

LEMMA CompactedBodyType ==
    ASSUME NEW s \in State
    PROVE  CompactedBody(s) \in Seq(Body)
<1> DEFINE forms == {[id |-> f, form |-> s.fences[f]] : f \in Present(s.fences)}
<1> USE StateFields
<1>1. (IF s.boot = 0 THEN <<>> ELSE <<[type |-> "Boot", arg |-> s.boot]>>) \in Seq(Body)
  <2>1. [type |-> "Boot", arg |-> s.boot] \in Body
    BY DEF Body
  <2> QED
    BY <2>1
<1>2. (IF s.policy.id = None THEN <<>> ELSE <<[type |-> "Policy", arg |-> s.policy]>>)
          \in Seq(Body)
  <2>1. s.policy.id # None => [type |-> "Policy", arg |-> s.policy] \in Body
    <3>1. s.policy.id # None => s.policy \in NamedPolicies
      BY DEF PolicyForms, NamedPolicies
    <3> QED
      BY <3>1 DEF Body
  <2> QED
    BY <2>1
<1>3. (IF s.topology = None THEN <<>>
       ELSE <<[type |-> "TopologyBinding", arg |-> s.topology]>>) \in Seq(Body)
  <2>1. s.topology # None => [type |-> "TopologyBinding", arg |-> s.topology] \in Body
    BY DEF Body
  <2> QED
    BY <2>1
<1>4. Each("FencePut", SetToSeq(forms)) \in Seq(Body)
  <2>1. IsFiniteSet(Present(s.fences))
    BY FS_Subset, StoreAssumption DEF Present
  <2>2. IsFiniteSet(forms)
    <3> DEFINE F == [f \in Present(s.fences) |-> [id |-> f, form |-> s.fences[f]]]
    <3>1. F \in Surjection(Present(s.fences), forms)
      BY DEF Surjection
    <3> QED
      BY <2>1, <3>1, FS_Surjection
  <2>3. SetToSeq(forms) \in Seq(forms)
    BY <2>2, SetToSeqType
  <2>4. \A x \in forms : [type |-> "FencePut", arg |-> x] \in Body
    BY DEF Body, Present
  <2> QED
    BY <2>3, <2>4, EachType
<1>5. Each("RevalidationRequest", SetToSeq(s.revalidation)) \in Seq(Body)
  <2>1. SetToSeq(s.revalidation) \in Seq(s.revalidation)
    BY FS_Subset, StoreAssumption, SetToSeqType
  <2>2. \A x \in s.revalidation : [type |-> "RevalidationRequest", arg |-> x] \in Body
    BY DEF Body
  <2> QED
    BY <2>1, <2>2, EachType
<1>6. Each("Lineage", s.lineages) \in Seq(Body)
  <2>1. \A x \in Lineages : [type |-> "Lineage", arg |-> x] \in Body
    BY DEF Body
  <2> QED
    BY <2>1, EachType
<1>7. Each("AttemptBegin", SetToSeq(s.attempts)) \in Seq(Body)
  <2>1. SetToSeq(s.attempts) \in Seq(s.attempts)
    BY FS_Subset, StoreAssumption, SetToSeqType
  <2>2. \A x \in s.attempts : [type |-> "AttemptBegin", arg |-> x] \in Body
    BY DEF Body
  <2> QED
    BY <2>1, <2>2, EachType
<1>8. <<[type |-> "Compaction", arg |-> s.epoch]>> \in Seq(Body)
  BY DEF Body
<1> HIDE DEF forms
<1> QED
  BY <1>1, <1>2, <1>3, <1>4, <1>5, <1>6, <1>7, <1>8 DEF CompactedBody, forms

-----------------------------------------------------------------------------

TypeInv == StoreTypeOK /\ rest \in Seq(Body)

LEMMA EndType ==
    ASSUME StoreTypeOK
    PROVE  End \in Outcome /\ \A o \in CrashOutcomes : o \in Outcome
<1>1. disk \in Outcome /\ tail \in Seq(Outcome)
  BY DEF StoreTypeOK
<1>2. \A i \in DOMAIN tail : tail[i] \in Outcome
  BY <1>1
<1>3. tail # <<>> => Len(tail) \in DOMAIN tail
  BY <1>1
<1> QED
  BY <1>1, <1>2, <1>3, Zenon DEF End, CrashOutcomes, Range

\* An append adds an outcome to the tail.
LEMMA JournalledType ==
    ASSUME StoreTypeOK, NEW r, RecordOK(r), Journalled(r)
    PROVE  tail' \in Seq(Outcome) /\ records' \in Nat
  BY EndType, ApplyRecordType DEF Journalled, StoreTypeOK

LEMMA WriteType ==
    ASSUME TypeInv, NEW r, RecordOK(r), NEW after \in State, NEW next \in ProcStates,
           Write(r, after, next)
    PROVE  TypeInv'
<1>1. tail' \in Seq(Outcome) /\ records' \in Nat
  BY JournalledType DEF TypeInv, Write
<1>2. pending' \in [on : BOOLEAN, after : State, next : ProcStates]
  BY DEF Write
<1> QED
  BY <1>1, <1>2 DEF TypeInv, StoreTypeOK, Write, histVars

\* Every fence that can be put has its place in the table.  Where that does not hold
\* put_fence() journals a record that replay refuses.
FencesFit == Cardinality(Fences) <= MaxFences

\* The memory changes as replaying the record changes it.
AsReplayed(r, after) ==
    IF Rejects(mem, r) THEN after = mem /\ ~FencesFit ELSE after = Replayed(mem, r)

OrdinaryRecord(r, after) ==
    RecordOK(r) /\ r.type # "Epoch" /\ after.epoch = mem.epoch /\ AsReplayed(r, after)

\* What most operations do: write a record other than an epoch record, keep the epoch and
\* change the memory as replay does.
Ordinary ==
    /\ proc = "up"
    /\ \E r : \E after \in State : OrdinaryRecord(r, after) /\ Write(r, after, "up")

LEMMA OrdinaryIntro ==
    ASSUME NEW r, RecordOK(r), r.type # "Epoch", NEW after \in State, after.epoch = mem.epoch,
           AsReplayed(r, after), proc = "up", Write(r, after, "up")
    PROVE  Ordinary
  BY Zenon DEF Ordinary, OrdinaryRecord

LEMMA RoomForFence ==
    ASSUME FencesFit, NEW F \in SUBSET Fences, NEW f \in Fences, f \notin F
    PROVE  Cardinality(F) < MaxFences
<1>1. IsFiniteSet(F) /\ IsFiniteSet(F \cup {f}) /\ IsFiniteSet(Fences)
  BY FS_Subset, FS_AddElement, StoreAssumption
<1>2. Cardinality(F \cup {f}) = Cardinality(F) + 1
  BY <1>1, FS_AddElement
<1>3. Cardinality(F \cup {f}) <= Cardinality(Fences)
  BY <1>1, FS_Subset
<1>4. Cardinality(F) \in Nat /\ Cardinality(Fences) \in Nat
  BY <1>1, FS_CardinalityType
<1> QED
  BY <1>2, <1>3, <1>4, StoreAssumption DEF FencesFit

LEMMA ServeCases ==
    ASSUME TypeInv, Serve
    PROVE  Ordinary \/ (\E l \in Lineages : RecordLineage(l)) \/ Sync \/ Compact
<1> USE StateFields, StateExcept
<1>0. mem \in State /\ mem \in StateForms
  BY DEF TypeInv, StoreTypeOK
<1>1. ASSUME NEW p \in Policies, NEW g \in 1..MaxGeneration, PersistPolicy(p, g)
      PROVE  Ordinary
  <2>0. [id |-> p, generation |-> g] \in NamedPolicies
        /\ [id |-> p, generation |-> g] \in PolicyForms
    BY StoreAssumption DEF PolicyForms, NamedPolicies
  <2> DEFINE rec == [type |-> "Policy", arg |-> [id |-> p, generation |-> g]]
             after == [mem EXCEPT !.policy = [id |-> p, generation |-> g]]
  <2>1. RecordOK(rec) /\ rec.type # "Epoch"
    BY <2>0 DEF RecordOK
  <2>2. after \in State /\ after.epoch = mem.epoch
    BY <1>0, <2>0 DEF StateForms
  <2>3. proc = "up" /\ Write(rec, after, "up")
    BY <1>1 DEF PersistPolicy, Operation, Up
  <2>4. AsReplayed(rec, after)
    BY DEF AsReplayed, Rejects, Replayed
  <2> HIDE DEF rec, after
  <2> QED
    BY <2>1, <2>2, <2>3, <2>4, OrdinaryIntro
<1>2. ASSUME NEW d \in Topologies, BindTopology(d)
      PROVE  Ordinary
  <2> DEFINE rec == [type |-> "TopologyBinding", arg |-> d]
             after == [mem EXCEPT !.topology = d]
  <2>1. RecordOK(rec) /\ rec.type # "Epoch"
    BY DEF RecordOK
  <2>2. after \in State /\ after.epoch = mem.epoch
    BY <1>0 DEF StateForms
  <2>3. proc = "up" /\ Write(rec, after, "up")
    BY <1>2 DEF BindTopology, Operation, Up
  <2>4. AsReplayed(rec, after)
    BY DEF AsReplayed, Rejects, Replayed
  <2> HIDE DEF rec, after
  <2> QED
    BY <2>1, <2>2, <2>3, <2>4, OrdinaryIntro
<1>3. ASSUME NEW f \in Fences, NEW form \in FenceForms, PutFence(f, form)
      PROVE  Ordinary
  <2> DEFINE full == /\ f \notin Present(mem.fences)
                     /\ Cardinality(Present(mem.fences)) >= MaxFences
  <2> DEFINE rec == [type |-> "FencePut", arg |-> [id |-> f, form |-> form]]
             after == IF full THEN mem ELSE [mem EXCEPT !.fences[f] = form]
  <2>1. RecordOK(rec) /\ rec.type # "Epoch"
    BY DEF RecordOK
  <2>2. after \in State /\ after.epoch = mem.epoch
    BY <1>0 DEF StateForms
  <2>3. proc = "up" /\ Write(rec, after, "up")
    BY <1>3 DEF PutFence, Operation, Up
  <2>4. AsReplayed(rec, after)
    <3>1. rec.type = "FencePut" /\ rec.arg = [id |-> f, form |-> form]
          /\ rec.arg.id = f /\ rec.arg.form = form
      OBVIOUS
    <3>2. Rejects(mem, rec) <=> full
      BY <3>1, Zenon DEF Rejects
    <3>3. Replayed(mem, rec) = [mem EXCEPT !.fences[f] = form]
      BY <3>1 DEF Replayed
    <3>4. full => ~FencesFit
      <4>1. Present(mem.fences) \subseteq Fences
        BY DEF Present
      <4>2. IsFiniteSet(Present(mem.fences)) /\ Cardinality(Present(mem.fences)) \in Nat
        BY <4>1, FS_Subset, FS_CardinalityType, StoreAssumption
      <4> QED
        BY <4>1, <4>2, RoomForFence, StoreAssumption
    <3> QED
      BY <3>2, <3>3, <3>4, Zenon DEF AsReplayed
  <2> HIDE DEF rec, after
  <2> QED
    BY <2>1, <2>2, <2>3, <2>4, OrdinaryIntro
<1>4. ASSUME NEW f \in Fences, RemoveFence(f)
      PROVE  Ordinary
  <2> DEFINE rec == [type |-> "FenceRemove", arg |-> f]
             after == [mem EXCEPT !.fences[f] = None]
  <2>1. RecordOK(rec) /\ rec.type # "Epoch"
    BY DEF RecordOK
  <2>2. after \in State /\ after.epoch = mem.epoch
    BY <1>0 DEF StateForms
  <2>3. proc = "up" /\ Write(rec, after, "up")
    BY <1>4 DEF RemoveFence, Operation, Up
  <2>4. AsReplayed(rec, after)
    BY <1>4 DEF RemoveFence, AsReplayed, Rejects, Replayed
  <2> HIDE DEF rec, after
  <2> QED
    BY <2>1, <2>2, <2>3, <2>4, OrdinaryIntro
<1>5. ASSUME NEW r \in Resources, RequestRevalidation(r)
      PROVE  Ordinary
  <2> DEFINE full == r \notin mem.revalidation /\ Cardinality(mem.revalidation) >= MaxFootprint
  <2> DEFINE rec == [type |-> "RevalidationRequest", arg |-> r]
             after == IF full THEN mem ELSE [mem EXCEPT !.revalidation = @ \cup {r}]
  <2>1. RecordOK(rec) /\ rec.type # "Epoch"
    BY DEF RecordOK
  <2>2. after \in State /\ after.epoch = mem.epoch
    <3>1. Cardinality(mem.revalidation) \in Nat
      BY <1>0, FS_Subset, FS_CardinalityType, StoreAssumption
    <3>2. ~full => r \in mem.revalidation \/ Cardinality(mem.revalidation) < MaxFootprint
      BY <3>1, StoreAssumption
    <3>3. (r \in mem.revalidation \/ Cardinality(mem.revalidation) < MaxFootprint)
              => Cardinality(mem.revalidation \cup {r}) <= MaxFootprint
      BY <1>0, RevalidationType
    <3> HIDE DEF full
    <3>4. ~full => [mem EXCEPT !.revalidation = @ \cup {r}] \in State
      BY <1>0, <3>2, <3>3
    <3> QED
      BY <1>0, <3>4 DEF StateForms
  <2>3. proc = "up" /\ Write(rec, after, "up")
    BY <1>5 DEF RequestRevalidation, Operation, Up
  <2>4. AsReplayed(rec, after)
    <3>1. rec.type = "RevalidationRequest" /\ rec.arg = r
      OBVIOUS
    <3>2. ~Rejects(mem, rec)
      BY <3>1 DEF Rejects
    <3>3. Cardinality(mem.revalidation) \in Nat
      BY <1>0, FS_Subset, FS_CardinalityType, StoreAssumption
    <3>4. full <=> ~(r \in mem.revalidation \/ Cardinality(mem.revalidation) < MaxFootprint)
      BY <3>3, StoreAssumption
    <3>5. Replayed(mem, rec) = [mem EXCEPT !.revalidation = IF full THEN @ ELSE @ \cup {r}]
      BY <3>1, <3>4 DEF Replayed
    <3>6. [mem EXCEPT !.revalidation = @] = mem
      BY <1>0 DEF StateForms
    <3> HIDE DEF full
    <3>7. Replayed(mem, rec) = after
      BY <3>5, <3>6
    <3> QED
      BY <3>2, <3>7 DEF AsReplayed
  <2> HIDE DEF rec, after
  <2> QED
    BY <2>1, <2>2, <2>3, <2>4, OrdinaryIntro
<1>6. ASSUME NEW r \in Resources, ClearRevalidation(r)
      PROVE  Ordinary
  <2> DEFINE rec == [type |-> "RevalidationClear", arg |-> r]
             after == [mem EXCEPT !.revalidation = @ \ {r}]
  <2>1. RecordOK(rec) /\ rec.type # "Epoch"
    BY DEF RecordOK
  <2>2. after \in State /\ after.epoch = mem.epoch
    BY <1>0, RevalidationType DEF StateForms
  <2>3. proc = "up" /\ Write(rec, after, "up")
    BY <1>6 DEF ClearRevalidation, Operation, Up
  <2>4. AsReplayed(rec, after)
    BY DEF AsReplayed, Rejects, Replayed
  <2> HIDE DEF rec, after
  <2> QED
    BY <2>1, <2>2, <2>3, <2>4, OrdinaryIntro
<1>7. ASSUME NEW es \in Entries, RecordPressureFootprint(es)
      PROVE  Ordinary
  <2>0. es \in Seq(Resources)
    BY DEF Entries
  <2> DEFINE rec == [type |-> "Footprint", arg |-> es]
             after == [mem EXCEPT !.revalidation = Absorb(@, es)]
  <2>1. RecordOK(rec) /\ rec.type # "Epoch"
    BY <2>0 DEF RecordOK
  <2>2. after \in State /\ after.epoch = mem.epoch
    BY <1>0, <2>0, AbsorbType DEF StateForms
  <2>3. proc = "up" /\ Write(rec, after, "up")
    BY <1>7 DEF RecordPressureFootprint, Operation, Up
  <2>4. AsReplayed(rec, after)
    <3>1. rec.type = "Footprint" /\ rec.arg = es
      OBVIOUS
    <3>2. Len(es) <= MaxFootprint /\ Len(es) \in Nat
      BY <1>7, <2>0 DEF RecordPressureFootprint
    <3>3. ~Rejects(mem, rec)
      BY <3>1, <3>2, StoreAssumption DEF Rejects
    <3>4. Replayed(mem, rec) = after
      BY <3>1 DEF Replayed
    <3> QED
      BY <3>3, <3>4 DEF AsReplayed
  <2> HIDE DEF rec, after
  <2> QED
    BY <2>1, <2>2, <2>3, <2>4, OrdinaryIntro
<1>8. ASSUME NEW a \in Attempts, BeginAttempt(a)
      PROVE  Ordinary
  <2> DEFINE rec == [type |-> "AttemptBegin", arg |-> a]
             after == [mem EXCEPT !.attempts = @ \cup {a}]
  <2>1. RecordOK(rec) /\ rec.type # "Epoch"
    BY DEF RecordOK
  <2>2. after \in State /\ after.epoch = mem.epoch
    BY <1>0 DEF StateForms
  <2>3. proc = "up" /\ Write(rec, after, "up")
    BY <1>8 DEF BeginAttempt, Operation, Up
  <2>4. AsReplayed(rec, after)
    BY <1>8 DEF BeginAttempt, AsReplayed, Rejects, Replayed
  <2> HIDE DEF rec, after
  <2> QED
    BY <2>1, <2>2, <2>3, <2>4, OrdinaryIntro
<1>9. ASSUME NEW a \in Attempts, NEW type \in {"AttemptCommit", "AttemptAbort"},
             ConcludeAttempt(a, type)
      PROVE  Ordinary
  <2> DEFINE rec == [type |-> type, arg |-> a]
             after == [mem EXCEPT !.attempts = @ \ {a}]
  <2>1. RecordOK(rec) /\ rec.type # "Epoch"
    BY DEF RecordOK
  <2>2. after \in State /\ after.epoch = mem.epoch
    BY <1>0 DEF StateForms
  <2>3. proc = "up" /\ Write(rec, after, "up")
    BY <1>9 DEF ConcludeAttempt, Operation, Up
  <2>4. AsReplayed(rec, after)
    BY <1>9 DEF ConcludeAttempt, AsReplayed, Rejects, Replayed
  <2> HIDE DEF rec, after
  <2> QED
    BY <2>1, <2>2, <2>3, <2>4, OrdinaryIntro
<1> QED
  BY <1>1, <1>2, <1>3, <1>4, <1>5, <1>6, <1>7, <1>8, <1>9, Zenon DEF Serve

LEMMA ServeType ==
    ASSUME TypeInv, Serve
    PROVE  TypeInv'
<1>0. mem \in State /\ "up" \in ProcStates
  BY DEF TypeInv, StoreTypeOK, ProcStates
<1>1. CASE Ordinary
  BY <1>0, <1>1, WriteType DEF Ordinary, OrdinaryRecord
<1>2. ASSUME NEW l \in Lineages, RecordLineage(l)
      PROVE  TypeInv'
  <2> DEFINE r == [type |-> "Lineage", arg |-> l]
  <2>1. RecordOK(r)
    BY DEF RecordOK
  <2>2. tail' \in Seq(Outcome) /\ records' \in Nat
    BY <1>2, <2>1, JournalledType DEF RecordLineage, TypeInv
  <2>3. mem' \in State
    BY <1>0, <1>2, RememberLineageType, StateFields, StateExcept DEF RecordLineage
  <2> QED
    BY <1>2, <2>2, <2>3 DEF RecordLineage, TypeInv, StoreTypeOK, histVars
<1>3. CASE Sync
  BY <1>0, <1>3, EndType DEF Sync, TypeInv, StoreTypeOK, procVars
<1>4. CASE Compact
  <2> DEFINE r == [type |-> "Epoch", arg |-> mem.epoch]
  <2>1. RecordOK(r)
    BY <1>0, StateFields DEF RecordOK
  <2>2. ApplyRecord(EmptyJournal, r) \in Outcome
    BY <2>1, EmptyJournalType, ApplyRecordType
  <2>3. rest' \in Seq(Body)
    BY <1>0, <1>4, CompactedBodyType DEF Compact, StartRewrite
  <2>4. temp' \in [there : BOOLEAN, outcome : Outcome]
    BY <1>4, <2>2 DEF Compact, StartRewrite
  <2> QED
    BY <1>4, <2>3, <2>4 DEF Compact, StartRewrite, TypeInv, StoreTypeOK, ProcStates, histVars
<1> QED
  BY <1>1, <1>2, <1>3, <1>4, ServeCases

LEMMA TypeStep ==
    ASSUME TypeInv, Next
    PROVE  TypeInv'
<1>0. mem \in State /\ disk \in Outcome /\ pending \in [on : BOOLEAN, after : State, next : ProcStates]
      /\ temp \in [there : BOOLEAN, outcome : Outcome] /\ boots \in 0..MaxBoots
  BY DEF TypeInv, StoreTypeOK
<1> USE StateFields, FreshType, EmptyJournalType
<1>1. ASSUME Create \/ WriteHeader
      PROVE  TypeInv'
  <2>1. CASE Create
    <3>1. boots' \in 0..MaxBoots
      BY <1>0, <2>1, StoreAssumption DEF Create
    <3>2. temp' \in [there : BOOLEAN, outcome : Outcome]
      BY <2>1 DEF Create
    <3> QED
      BY <2>1, <3>1, <3>2 DEF Create, TypeInv, StoreTypeOK, ProcStates
  <2>2. CASE WriteHeader
    BY <2>2 DEF WriteHeader, TypeInv, StoreTypeOK, ProcStates, histVars
  <2> QED
    BY <1>1, <2>1, <2>2
<1>2. ASSUME Open
      PROVE  TypeInv'
  <2>1. disk' \in Outcome /\ disk.state \in State /\ disk.records \in Nat
    BY <1>0, <1>2 DEF Open, Outcome
  <2> QED
    BY <1>0, <1>2, <2>1, StoreAssumption DEF Open, TypeInv, StoreTypeOK, ProcStates
<1>3. ASSUME OpenFails
      PROVE  TypeInv'
  BY <1>0, <1>3, StoreAssumption DEF OpenFails, TypeInv, StoreTypeOK, procVars
<1>4. ASSUME Crash
      PROVE  TypeInv'
  <2>1. disk' \in Outcome
    BY <1>4, EndType DEF Crash, TypeInv
  <2>2. pending' \in [on : BOOLEAN, after : State, next : ProcStates] /\ mem' \in State
    BY <1>4 DEF Crash
  <2>3. tail' \in Seq(Outcome) /\ rest' \in Seq(Body) /\ records' \in Nat
    BY <1>4 DEF Crash
  <2> QED
    BY <1>4, <2>1, <2>2, <2>3, Zenon DEF Crash, TypeInv, StoreTypeOK, ProcStates, histVars
<1>5. ASSUME SyncOk
      PROVE  TypeInv'
  <2>1. disk' \in Outcome
    BY <1>5, EndType DEF SyncOk, TypeInv
  <2> QED
    BY <1>0, <1>5, <2>1 DEF SyncOk, TypeInv, StoreTypeOK
<1>6. ASSUME SyncFails
      PROVE  TypeInv'
  BY <1>6 DEF SyncFails, TypeInv, StoreTypeOK, fileVars, histVars
<1>7. ASSUME ShortWrite
      PROVE  TypeInv'
  <2>1. End \in Outcome
    BY EndType DEF TypeInv
  <2>2. [End EXCEPT !.torn = TRUE] \in Outcome
    BY <2>1 DEF Outcome
  <2> QED
    BY <1>7, <2>2 DEF ShortWrite, TypeInv, StoreTypeOK, procVars, histVars
<1>8. ASSUME EstablishEpoch
      PROVE  TypeInv'
  <2> DEFINE next == IF mem.epoch = 0 THEN 1 ELSE mem.epoch + 1
             r == [type |-> "Epoch", arg |-> next]
  <2>1. next \in Nat /\ RecordOK(r)
    BY <1>0 DEF RecordOK
  <2>2. [mem EXCEPT !.epoch = next] \in State
    BY <1>0, <2>1, StateExcept
  <2>3. Write(r, [mem EXCEPT !.epoch = next], "epoch")
    BY <1>8 DEF EstablishEpoch
  <2>4. "epoch" \in ProcStates
    BY DEF ProcStates
  <2> HIDE DEF next
  <2> QED
    BY <2>1, <2>2, <2>3, <2>4, WriteType
<1>9. ASSUME RecordBoot
      PROVE  TypeInv'
  <2> DEFINE r == [type |-> "Boot", arg |-> boots]
  <2>1. boots \in Nat /\ RecordOK(r)
    BY <1>0, StoreAssumption DEF RecordOK
  <2>2. [mem EXCEPT !.boot = boots] \in State
    BY <1>0, <2>1, StateExcept
  <2>3. Write(r, [mem EXCEPT !.boot = boots], "up") /\ "up" \in ProcStates
    BY <1>9 DEF RecordBoot, ProcStates
  <2> QED
    BY <2>1, <2>2, <2>3, WriteType
<1>10. ASSUME Serve
       PROVE  TypeInv'
  BY <1>10, ServeType
<1>11. ASSUME RewriteRecord
       PROVE  TypeInv'
  <2>1. rest \in Seq(Body) /\ rest # <<>>
    BY <1>11 DEF RewriteRecord, TypeInv
  <2>2. Head(rest) \in Body /\ Tail(rest) \in Seq(Body)
    BY <2>1
  <2>3. temp.outcome \in Outcome /\ ApplyRecord(temp.outcome, Head(rest)) \in Outcome
    BY <1>0, <2>2, BodyRecords, ApplyRecordType
  <2>4. temp' \in [there : BOOLEAN, outcome : Outcome]
    BY <1>0, <1>11, <2>3, Zenon DEF RewriteRecord
  <2> QED
    BY <1>11, <2>2, <2>4 DEF RewriteRecord, TypeInv, StoreTypeOK, histVars
<1>12. ASSUME Rename
       PROVE  TypeInv'
  <2>1. temp.outcome \in Outcome /\ temp.outcome.records \in Nat
    BY <1>0 DEF Outcome
  <2> QED
    BY <1>0, <1>12, <2>1 DEF Rename, TypeInv, StoreTypeOK, ProcStates
<1>13. ASSUME RewriteFails
       PROVE  TypeInv'
  BY <1>13 DEF RewriteFails, TypeInv, StoreTypeOK, ProcStates, histVars
<1>14. ASSUME RivalOpen
       PROVE  TypeInv'
  BY <1>14 DEF RivalOpen, TypeInv, StoreTypeOK, procVars, histVars
<1> QED
  BY <1>1, <1>2, <1>3, <1>4, <1>5, <1>6, <1>7, <1>8, <1>9, <1>10, <1>11, <1>12, <1>13, <1>14,
     Zenon DEF Next

LEMMA InitType == Init => TypeInv
<1>1. 0 \in Nat /\ 0 \in 0..MaxBoots /\ <<>> \in Seq(Outcome) /\ <<>> \in Seq(Body)
  BY StoreAssumption
<1> QED
  BY <1>1, FreshType, EmptyJournalType, Zenon DEF Init, TypeInv, StoreTypeOK, ProcStates

\* Every reachable state of the store is well typed, and in memory as in every state a
\* replay may rebuild the lineage history and the revalidation list respect their
\* capacities, for every capacity and whatever append, sync or rewrite fails.
THEOREM StoreTypeCorrect == Spec => []StoreTypeOK
<1>1. Init => TypeInv
  BY InitType
<1>2. TypeInv /\ [Next]_vars => TypeInv'
  <2>1. TypeInv /\ Next => TypeInv'
    BY TypeStep
  <2>2. TypeInv /\ UNCHANGED vars => TypeInv'
    BY DEF TypeInv, StoreTypeOK, vars, fileVars, procVars, histVars
  <2> QED
    BY <2>1, <2>2
<1>3. TypeInv => StoreTypeOK
  BY DEF TypeInv
<1> QED
  BY <1>1, <1>2, <1>3, PTL DEF Spec

-----------------------------------------------------------------------------

\* Every crash outcome keeps an epoch of at least e.
Keeps(e) ==
    /\ e <= disk.state.epoch
    /\ \A i \in DOMAIN tail : e <= tail[i].state.epoch

\* The argument about epochs: see the head of the module.
EpochsKept ==
    /\ Keeps(served)
    /\ header # "written" =>
          served = 0 /\ disk = EmptyJournal /\ proc \in {"down", "created"}
    /\ proc = "created" => header = "empty"
    /\ proc \in {"down", "created"} => tail = <<>> /\ ~pending.on
    /\ proc # "down" => served <= mem.epoch
    /\ proc = "opened" =>
          /\ disk.ok /\ ~disk.torn
          /\ ~pending.on => tail = <<>>
          /\ pending.on => /\ End.state.epoch = pending.after.epoch
                           /\ pending.after.epoch > served
                           /\ pending.next = "epoch"
    /\ proc = "epoch" => served < mem.epoch /\ Keeps(mem.epoch)
    /\ proc \in {"epoch", "up"} /\ pending.on =>
          pending.next = "up" /\ pending.after.epoch = mem.epoch
    /\ proc = "compact" =>
          ~pending.on /\ (temp.there => mem.epoch <= temp.outcome.state.epoch)

LEMMA EndKeeps ==
    ASSUME StoreTypeOK, NEW e, Keeps(e)
    PROVE  e <= End.state.epoch /\ \A o \in CrashOutcomes : e <= o.state.epoch
<1>1. tail # <<>> => Len(tail) \in DOMAIN tail
  BY DEF StoreTypeOK
<1> QED
  BY <1>1, Zenon DEF Keeps, End, CrashOutcomes, Range

\* A record that is not an epoch record leaves every crash outcome where it was.
LEMMA JournalledKeeps ==
    ASSUME StoreTypeOK, NEW r, RecordOK(r), r.type # "Epoch", Journalled(r), disk' = disk,
           NEW e \in Nat, Keeps(e)
    PROVE  Keeps(e)'
<1>1. End \in Outcome /\ e <= End.state.epoch
  BY EndType, EndKeeps
<1>2. ApplyRecord(End, r).state.epoch = End.state.epoch
  BY <1>1, ApplyRecordType
<1>3. tail \in Seq(Outcome) /\ tail' = Append(tail, ApplyRecord(End, r))
  BY DEF StoreTypeOK, Journalled
<1>4. \A i \in DOMAIN tail' : e <= tail'[i].state.epoch
  <2>1. ASSUME NEW i \in DOMAIN tail'
        PROVE  e <= tail'[i].state.epoch
    <3>1. (i \in DOMAIN tail /\ tail'[i] = tail[i]) \/ tail'[i] = ApplyRecord(End, r)
      BY <1>3, <2>1
    <3> QED
      BY <1>1, <1>2, <3>1 DEF Keeps
  <2> QED
    BY <2>1
<1> QED
  BY <1>4 DEF Keeps

LEMMA EpochStep ==
    ASSUME TypeInv, EpochsKept, Next
    PROVE  EpochsKept'
<1> USE StateFields
<1>0. /\ StoreTypeOK /\ mem \in State /\ disk \in Outcome /\ tail \in Seq(Outcome)
      /\ disk.state \in State /\ pending.after \in State /\ served \in Nat
      /\ temp.outcome \in Outcome /\ temp.outcome.state \in State
  BY DEF TypeInv, StoreTypeOK, Outcome
<1>1. ASSUME Create
      PROVE  EpochsKept'
  BY <1>0, <1>1 DEF Create, EpochsKept, Keeps
<1>2. ASSUME WriteHeader
      PROVE  EpochsKept'
  BY <1>0, <1>2 DEF WriteHeader, EpochsKept, Keeps, EmptyJournal, histVars
<1>3. ASSUME Open
      PROVE  EpochsKept'
  <2>1. disk'.state = disk.state /\ disk'.ok = disk.ok /\ disk'.torn = FALSE
    BY <1>0, <1>3 DEF Open, Outcome
  <2> QED
    BY <1>0, <1>3, <2>1 DEF Open, EpochsKept, Keeps
<1>4. ASSUME OpenFails
      PROVE  EpochsKept'
  BY <1>0, <1>4 DEF OpenFails, EpochsKept, Keeps, procVars
<1>5. ASSUME Crash
      PROVE  EpochsKept'
  <2>1. Keeps(served)
    BY DEF EpochsKept
  <2>2. served <= disk'.state.epoch
    BY <1>0, <1>5, <2>1, EndKeeps DEF Crash
  <2>3. header # "written" => disk' = EmptyJournal
    <3>1. tail = <<>> => CrashOutcomes = {disk}
      BY DEF CrashOutcomes, Range
    <3> QED
      BY <1>5, <3>1 DEF Crash, EpochsKept
  <2> QED
    BY <1>5, <2>2, <2>3 DEF Crash, EpochsKept, Keeps, histVars, NoWrite
<1>6. ASSUME SyncOk
      PROVE  EpochsKept'
  <2>1. Keeps(served) /\ served <= End.state.epoch /\ End \in Outcome /\ End.state \in State
    BY <1>0, EndKeeps, EndType DEF EpochsKept, Outcome
  <2>2. proc \in {"opened", "epoch", "up"} /\ header = "written"
    BY <1>0, <1>6 DEF SyncOk, EpochsKept, TypeInv, StoreTypeOK, ProcStates
  <2>3. CASE proc = "opened"
    BY <1>0, <1>6, <2>1, <2>2, <2>3 DEF SyncOk, EpochsKept, Keeps, NoWrite
  <2>4. CASE proc = "epoch"
    <3>1. mem.epoch <= End.state.epoch
      BY <1>0, <2>4, EndKeeps DEF EpochsKept
    <3> QED
      BY <1>0, <1>6, <2>1, <2>2, <2>4, <3>1 DEF SyncOk, EpochsKept, Keeps, NoWrite
  <2>5. CASE proc = "up"
    BY <1>0, <1>6, <2>1, <2>2, <2>5 DEF SyncOk, EpochsKept, Keeps, NoWrite
  <2> QED
    BY <2>2, <2>3, <2>4, <2>5
<1>7. ASSUME SyncFails
      PROVE  EpochsKept'
  BY <1>0, <1>7 DEF SyncFails, EpochsKept, Keeps, fileVars, histVars, NoWrite
<1>8. ASSUME ShortWrite
      PROVE  EpochsKept'
  <2>1. Keeps(served) /\ served <= End.state.epoch /\ End \in Outcome
    BY <1>0, EndKeeps, EndType DEF EpochsKept
  <2>2. [End EXCEPT !.torn = TRUE].state = End.state
    BY <2>1 DEF Outcome
  <2>3. Keeps(served)'
    <3>1. ASSUME NEW i \in DOMAIN tail'
          PROVE  served <= tail'[i].state.epoch
      <4>1. (i \in DOMAIN tail /\ tail'[i] = tail[i]) \/ tail'[i] = [End EXCEPT !.torn = TRUE]
        BY <1>0, <1>8, <3>1 DEF ShortWrite
      <4> QED
        BY <2>1, <2>2, <4>1 DEF Keeps
    <3> QED
      BY <1>8, <2>1, <3>1 DEF ShortWrite, Keeps, histVars
  <2> QED
    BY <1>8, <2>3 DEF ShortWrite, EpochsKept, CanAppend, procVars, histVars
<1>9. ASSUME EstablishEpoch
      PROVE  EpochsKept'
  <2> DEFINE next == IF mem.epoch = 0 THEN 1 ELSE mem.epoch + 1
             r == [type |-> "Epoch", arg |-> next]
  <2>1. next \in Nat /\ next > mem.epoch /\ RecordOK(r)
    BY <1>0 DEF RecordOK
  <2>2. /\ proc = "opened" /\ ~pending.on /\ tail = <<>> /\ End = disk
        /\ disk.ok /\ ~disk.torn /\ header = "written"
    BY <1>9 DEF EstablishEpoch, Write, CanAppend, EpochsKept, End
  <2>3. Write(r, [mem EXCEPT !.epoch = next], "epoch")
    BY <1>9 DEF EstablishEpoch
  <2>4. [mem EXCEPT !.epoch = next].epoch = next
    BY <1>0 DEF StateForms
  <2>5. ApplyRecord(disk, r).state.epoch = next
    BY <1>0, <2>1, <2>2, ApplyRecordType
  <2>6. tail' = <<ApplyRecord(disk, r)>>
    BY <2>2, <2>3 DEF Write, Journalled
  <2>7. /\ disk' = disk /\ served' = served /\ mem' = mem /\ proc' = proc /\ header' = header
        /\ pending'.on /\ pending'.after.epoch = next /\ pending'.next = "epoch"
    BY <2>3, <2>4 DEF Write, histVars
  <2>8. End'.state.epoch = next
    BY <2>5, <2>6 DEF End
  <2>9. next > served /\ served <= mem.epoch
    BY <1>0, <2>1, <2>2 DEF EpochsKept
  <2> HIDE DEF next
  <2> QED
    BY <1>0, <2>1, <2>2, <2>5, <2>6, <2>7, <2>8, <2>9 DEF EpochsKept, Keeps
<1>10. ASSUME RecordBoot
       PROVE  EpochsKept'
  <2> DEFINE r == [type |-> "Boot", arg |-> boots]
  <2>1. RecordOK(r) /\ r.type # "Epoch"
    BY StoreAssumption DEF RecordOK, TypeInv, StoreTypeOK
  <2>2. proc = "epoch" /\ Write(r, [mem EXCEPT !.boot = boots], "up")
    BY <1>10 DEF RecordBoot
  <2>3. [mem EXCEPT !.boot = boots].epoch = mem.epoch
    BY <1>0 DEF StateForms
  <2>4. Journalled(r) /\ disk' = disk /\ mem' = mem /\ served' = served /\ proc' = proc
        /\ header' = header /\ pending'.next = "up" /\ pending'.after.epoch = mem.epoch
    BY <2>2, <2>3 DEF Write, histVars
  <2>5. Keeps(served)' /\ Keeps(mem.epoch)'
    <3> HIDE DEF r
    <3>1. \A e \in Nat : Keeps(e) => (Keeps(e))'
      BY <1>0, <2>1, <2>4, JournalledKeeps
    <3> QED
      BY <1>0, <2>2, <2>4, <3>1 DEF EpochsKept, Keeps
  <2> QED
    BY <2>2, <2>4, <2>5 DEF EpochsKept
<1>11. ASSUME Ordinary
       PROVE  EpochsKept'
  <2>0. PICK r : \E after \in State : OrdinaryRecord(r, after) /\ Write(r, after, "up")
    BY <1>11, Zenon DEF Ordinary
  <2>1. PICK after \in State :
          RecordOK(r) /\ r.type # "Epoch" /\ after.epoch = mem.epoch /\ Write(r, after, "up")
    BY <2>0, Zenon DEF OrdinaryRecord
  <2>2. Journalled(r) /\ disk' = disk /\ mem' = mem /\ served' = served /\ proc' = proc
        /\ header' = header /\ pending'.next = "up" /\ pending'.after.epoch = mem.epoch
        /\ proc = "up"
    BY <1>11, <2>1 DEF Write, histVars, Ordinary
  <2>3. Keeps(served)'
    BY <1>0, <2>1, <2>2, JournalledKeeps DEF EpochsKept, Keeps
  <2> QED
    BY <2>2, <2>3 DEF EpochsKept
<1>12. ASSUME NEW l \in Lineages, RecordLineage(l)
       PROVE  EpochsKept'
  <2> DEFINE r == [type |-> "Lineage", arg |-> l]
  <2>1. RecordOK(r) /\ r.type # "Epoch"
    BY DEF RecordOK
  <2>2. Journalled(r) /\ disk' = disk /\ served' = served /\ proc' = proc
        /\ header' = header /\ pending' = pending /\ proc = "up" /\ ~pending.on
    BY <1>12 DEF RecordLineage, histVars, Up, CanAppend
  <2>3. mem'.epoch = mem.epoch
    BY <1>0, <1>12 DEF RecordLineage, StateForms
  <2>4. Keeps(served)'
    <3> HIDE DEF r
    <3> QED
      BY <1>0, <2>1, <2>2, JournalledKeeps DEF EpochsKept, Keeps
  <2> QED
    BY <2>2, <2>3, <2>4 DEF EpochsKept
<1>13. ASSUME Sync
       PROVE  EpochsKept'
  <2>1. served <= End.state.epoch
    BY <1>0, EndKeeps DEF EpochsKept
  <2> QED
    BY <1>13, <2>1 DEF Sync, Up, EpochsKept, Keeps, procVars
<1>14. ASSUME Compact
       PROVE  EpochsKept'
  <2> DEFINE r == [type |-> "Epoch", arg |-> mem.epoch]
  <2>1. RecordOK(r)
    BY <1>0 DEF RecordOK
  <2>2. EmptyJournal.ok /\ ~EmptyJournal.torn
    BY DEF EmptyJournal
  <2>3. ApplyRecord(EmptyJournal, r).state.epoch = mem.epoch
    BY <2>1, <2>2, EmptyJournalType, ApplyRecordType
  <2>4. temp'.outcome.state.epoch = mem.epoch
    BY <1>14, <2>3 DEF Compact, StartRewrite
  <2> QED
    BY <1>0, <1>14, <2>4 DEF Compact, StartRewrite, Up, EpochsKept, Keeps, histVars
<1>15. ASSUME RewriteRecord
       PROVE  EpochsKept'
  <2>1. Head(rest) \in Body
    BY <1>15 DEF RewriteRecord, TypeInv
  <2>2. ApplyRecord(temp.outcome, Head(rest)).state.epoch = temp.outcome.state.epoch
    BY <1>0, <2>1, BodyRecords, ApplyRecordType
  <2>3. temp'.there = temp.there /\ temp'.outcome.state.epoch = temp.outcome.state.epoch
    BY <1>15, <2>2 DEF RewriteRecord, TypeInv, StoreTypeOK
  <2> QED
    BY <1>0, <1>15, <2>3 DEF RewriteRecord, EpochsKept, Keeps, histVars
<1>16. ASSUME Rename
       PROVE  EpochsKept'
  BY <1>0, <1>16 DEF Rename, EpochsKept, Keeps
<1>17. ASSUME RewriteFails
       PROVE  EpochsKept'
  BY <1>0, <1>17 DEF RewriteFails, EpochsKept, Keeps, histVars
<1>18. ASSUME RivalOpen
       PROVE  EpochsKept'
  BY <1>0, <1>18 DEF RivalOpen, EpochsKept, Keeps, procVars, histVars, NoTemp, End
<1> QED
  BY <1>1, <1>2, <1>3, <1>4, <1>5, <1>6, <1>7, <1>8, <1>9, <1>10, <1>11, <1>12, <1>13, <1>14,
     <1>15, <1>16, <1>17, <1>18, ServeCases, Zenon DEF Next

LEMMA EpochsKeptAlways == Spec => [](TypeInv /\ EpochsKept)
<1>1. Init => TypeInv /\ EpochsKept
  <2>1. Init => EpochsKept
    BY DEF Init, EpochsKept, Keeps, EmptyJournal, Fresh, NoWrite
  <2> QED
    BY <2>1, InitType
<1>2. TypeInv /\ EpochsKept /\ [Next]_vars => (TypeInv /\ EpochsKept)'
  <2>1. TypeInv /\ EpochsKept /\ Next => (TypeInv /\ EpochsKept)'
    BY TypeStep, EpochStep
  <2>2. TypeInv /\ EpochsKept /\ UNCHANGED vars => (TypeInv /\ EpochsKept)'
    BY DEF TypeInv, StoreTypeOK, EpochsKept, Keeps, End, vars, fileVars, procVars, histVars
  <2> QED
    BY <2>1, <2>2
<1> QED
  BY <1>1, <1>2, PTL DEF Spec

\* A process begins to serve only under an epoch greater than every epoch served before,
\* for any number of restarts and crashes, whatever unsynced records are lost and
\* whichever append, sync, rewrite or rename fails.
THEOREM EpochsAlwaysAdvance == Spec => EpochsAdvance
<1>1. TypeInv /\ EpochsKept /\ [Next]_vars =>
        (proc = "epoch" /\ proc' = "up" => mem'.epoch > served)
  <2> SUFFICES ASSUME TypeInv, EpochsKept, [Next]_vars, proc = "epoch", proc' = "up"
               PROVE  mem'.epoch > served
    OBVIOUS
  <2>1. SyncOk
    <3>1. Next
      BY DEF vars, procVars
    <3>2. ~Serve
      <4>1. Serve => proc = "up"
        BY ServeCases DEF Ordinary, RecordLineage, Sync, Compact, StartRewrite, Up
      <4> QED
        BY <4>1
    <3> QED
      BY <3>1, <3>2 DEF Next, Create, WriteHeader, Open, OpenFails, Crash, SyncFails, ShortWrite,
         EstablishEpoch, RecordBoot, Write, RewriteRecord, Rename, RewriteFails, RivalOpen,
         procVars
  <2>2. mem'.epoch = mem.epoch /\ served < mem.epoch
    BY <2>1 DEF SyncOk, EpochsKept
  <2>3. mem.epoch \in Nat /\ served \in Nat
    BY StateFields DEF TypeInv, StoreTypeOK
  <2> QED
    BY <2>2, <2>3
<1> QED
  BY <1>1, EpochsKeptAlways, PTL DEF Spec, EpochsAdvance


-----------------------------------------------------------------------------
(* What replay rebuilds *)

\* A history without repetitions, no generation without a policy, and a fence table
\* within its capacity.
Good(s) ==
    /\ \A i, j \in DOMAIN s.lineages : s.lineages[i] = s.lineages[j] => i = j
    /\ s.policy.id = None => s.policy = Fresh.policy
    /\ Cardinality(Present(s.fences)) <= MaxFences

GoodStates ==
    /\ Good(mem) /\ Good(pending.after) /\ Good(temp.outcome.state)
    /\ \A o \in CrashOutcomes : Good(o.state)

InRecords(q, type, arg) == \E i \in DOMAIN q : q[i].type = type /\ q[i].arg = arg

\* The records of q are parts of m.
PartsOf(q, m) ==
    \A i \in DOMAIN q :
        /\ q[i].type = "Boot" => q[i].arg = m.boot
        /\ q[i].type = "Policy" => q[i].arg = m.policy
        /\ q[i].type = "TopologyBinding" => q[i].arg = m.topology
        /\ q[i].type = "FencePut" =>
              q[i].arg.id \in Present(m.fences) /\ q[i].arg.form = m.fences[q[i].arg.id]
        /\ q[i].type = "RevalidationRequest" => q[i].arg \in m.revalidation
        /\ q[i].type = "AttemptBegin" => q[i].arg \in m.attempts

\* What s lacks of m other than its lineages and attempts is among the records of q.
Missing(s, q, m) ==
    /\ s.epoch = m.epoch
    /\ s.boot = m.boot \/ InRecords(q, "Boot", m.boot)
    /\ s.policy = m.policy \/ InRecords(q, "Policy", m.policy)
    /\ s.topology = m.topology \/ InRecords(q, "TopologyBinding", m.topology)
    /\ \A f \in Fences :
          s.fences[f] = m.fences[f]
          \/ (s.fences[f] = None
              /\ InRecords(q, "FencePut", [id |-> f, form |-> m.fences[f]]))
    /\ s.revalidation \subseteq m.revalidation
    /\ \A r \in m.revalidation \ s.revalidation : InRecords(q, "RevalidationRequest", r)

\* q begins each attempt of m that s does not know, once.
AttemptsLeft(s, q, m) ==
    /\ s.attempts \subseteq m.attempts
    /\ \A a \in m.attempts \ s.attempts : InRecords(q, "AttemptBegin", a)
    /\ \A i \in DOMAIN q : q[i].type = "AttemptBegin" => q[i].arg \notin s.attempts
    /\ \A i, j \in DOMAIN q :
          q[i].type = "AttemptBegin" /\ q[j].type = "AttemptBegin" /\ q[i].arg = q[j].arg
              => i = j

\* s has the first lineages of m, and the records of q hold the others, in one run that
\* starts behind their first n - k records.
LineagesLeft(s, q, m, k) ==
    /\ Len(s.lineages) <= Len(m.lineages)
    /\ \A j \in 1..Len(s.lineages) : s.lineages[j] = m.lineages[j]
    /\ \A i \in DOMAIN q : q[i].type = "Lineage" =>
          i + k \in (Len(s.lineages) + 1)..Len(m.lineages) /\ q[i].arg = m.lineages[i + k]
    /\ \A j \in (Len(s.lineages) + 1)..Len(m.lineages) :
          j - k \in DOMAIN q /\ q[j - k].type = "Lineage"

Rebuilds(s, q, m) ==
    /\ PartsOf(q, m) /\ Missing(s, q, m) /\ AttemptsLeft(s, q, m)
    /\ \E k \in Int : LineagesLeft(s, q, m, k)

\* A compaction that still has its file writes what rebuilds the memory.
CompactionKept ==
    proc = "compact" /\ temp.there =>
        temp.outcome.ok /\ ~temp.outcome.torn /\ Rebuilds(temp.outcome.state, rest, mem)

\* What is, or is about to be, in memory.
Target == IF pending.on THEN pending.after ELSE mem

Running == proc \in {"opened", "epoch", "up", "compact"}

\* Unless a sync has failed or a record was cut short, the whole file replays to the
\* memory, and every part of it that a crash may leave replays.
ReplayKept ==
    FencesFit /\ "sync" \notin damage =>
        /\ \A o \in CrashOutcomes : o.ok
        /\ Running => End.torn \/ End.state = Target

\* Behind the last sync the file holds lineages and at most one other record.
AckedKept ==
    FencesFit /\ FileIntact =>
        /\ \A o \in CrashOutcomes : ~o.torn
        /\ Running =>
              /\ disk.state = acked /\ Durable(mem) = Durable(acked)
              /\ \A i \in DOMAIN tail :
                    Durable(tail[i].state) = Durable(acked) \/ (pending.on /\ i = Len(tail))

\* Before the first open there is nothing to lose.
StartKept ==
    /\ proc \in {"down", "created"} => mem = Fresh
    /\ header # "written" => acked = Fresh
    /\ header = "empty" => proc = "created" \/ "create" \in damage

StoreKept ==
    GoodStates /\ CompactionKept /\ ReplayKept /\ AckedKept /\ StartKept

\* What a record changes, field by field.
LEMMA ReplayedFields ==
    ASSUME NEW s \in State, NEW r
    PROVE  /\ Replayed(s, r).boot = IF r.type = "Boot" THEN r.arg ELSE s.boot
           /\ Replayed(s, r).policy = IF r.type = "Policy" THEN r.arg ELSE s.policy
           /\ Replayed(s, r).topology = IF r.type = "TopologyBinding" THEN r.arg ELSE s.topology
           /\ Replayed(s, r).fences =
                IF r.type = "FencePut" THEN [s.fences EXCEPT ![r.arg.id] = r.arg.form]
                ELSE IF r.type = "FenceRemove" THEN [s.fences EXCEPT ![r.arg] = None]
                ELSE s.fences
           /\ Replayed(s, r).lineages =
                IF r.type = "Lineage" THEN RememberLineage(s.lineages, r.arg) ELSE s.lineages
           /\ Replayed(s, r).attempts =
                IF r.type = "AttemptBegin" THEN s.attempts \cup {r.arg}
                ELSE IF r.type \in {"AttemptCommit", "AttemptAbort"} THEN s.attempts \ {r.arg}
                ELSE s.attempts
           /\ r.type = "RevalidationRequest" =>
                Replayed(s, r).revalidation =
                    IF r.arg \in s.revalidation \/ Cardinality(s.revalidation) < MaxFootprint
                    THEN s.revalidation \cup {r.arg} ELSE s.revalidation
           /\ r.type \notin {"RevalidationRequest", "RevalidationClear", "Footprint"} =>
                Replayed(s, r).revalidation = s.revalidation
<1>0. s \in StateForms
  BY StateFields
<1>1. Replayed(s, r).boot = IF r.type = "Boot" THEN r.arg ELSE s.boot
  BY <1>0 DEF Replayed, StateForms
<1>2. Replayed(s, r).policy = IF r.type = "Policy" THEN r.arg ELSE s.policy
  BY <1>0 DEF Replayed, StateForms
<1>3. Replayed(s, r).topology = IF r.type = "TopologyBinding" THEN r.arg ELSE s.topology
  BY <1>0 DEF Replayed, StateForms
<1>4. Replayed(s, r).fences =
        IF r.type = "FencePut" THEN [s.fences EXCEPT ![r.arg.id] = r.arg.form]
        ELSE IF r.type = "FenceRemove" THEN [s.fences EXCEPT ![r.arg] = None]
        ELSE s.fences
  BY <1>0 DEF Replayed, StateForms
<1>5. Replayed(s, r).lineages =
        IF r.type = "Lineage" THEN RememberLineage(s.lineages, r.arg) ELSE s.lineages
  BY <1>0 DEF Replayed, StateForms
<1>6. Replayed(s, r).attempts =
        IF r.type = "AttemptBegin" THEN s.attempts \cup {r.arg}
        ELSE IF r.type \in {"AttemptCommit", "AttemptAbort"} THEN s.attempts \ {r.arg}
        ELSE s.attempts
  BY <1>0 DEF Replayed, StateForms
<1>7. r.type = "RevalidationRequest" =>
        Replayed(s, r).revalidation =
            IF r.arg \in s.revalidation \/ Cardinality(s.revalidation) < MaxFootprint
            THEN s.revalidation \cup {r.arg} ELSE s.revalidation
  BY <1>0 DEF Replayed, StateForms
<1>8. r.type \notin {"RevalidationRequest", "RevalidationClear", "Footprint"} =>
        Replayed(s, r).revalidation = s.revalidation
  BY <1>0 DEF Replayed, StateForms
<1> QED
  BY <1>1, <1>2, <1>3, <1>4, <1>5, <1>6, <1>7, <1>8

\* A state is its fields.
LEMMA SameFields ==
    ASSUME NEW s \in State, NEW m \in State, s.epoch = m.epoch, s.boot = m.boot,
           s.policy = m.policy, s.topology = m.topology, s.fences = m.fences,
           s.lineages = m.lineages, s.revalidation = m.revalidation, s.attempts = m.attempts
    PROVE  s = m
<1>1. s \in StateForms /\ m \in StateForms
  BY StateFields
<1> QED
  BY <1>1 DEF StateForms

\* Replay of a record that is not refused, and of one behind a torn record.
LEMMA ApplyCases ==
    ASSUME NEW o \in Outcome, NEW r, RecordOK(r)
    PROVE  /\ (o.ok /\ ~o.torn /\ ~Rejects(o.state, r)) =>
                /\ ApplyRecord(o, r).ok /\ ~ApplyRecord(o, r).torn
                /\ ApplyRecord(o, r).state = Replayed(o.state, r)
           /\ (~o.ok \/ o.torn) => ApplyRecord(o, r) = o
           /\ (o.ok /\ ~o.torn /\ Rejects(o.state, r)) =>
                ApplyRecord(o, r).state = o.state /\ ~ApplyRecord(o, r).ok
<1>1. ASSUME o.ok, ~o.torn, ~Rejects(o.state, r)
      PROVE  /\ ApplyRecord(o, r).ok /\ ~ApplyRecord(o, r).torn
             /\ ApplyRecord(o, r).state = Replayed(o.state, r)
  <2>1. ApplyRecord(o, r) = [o EXCEPT !.state = Replayed(o.state, r), !.records = o.records + 1]
    BY <1>1 DEF ApplyRecord
  <2>2. ApplyRecord(o, r).ok = o.ok /\ ApplyRecord(o, r).torn = o.torn
    BY <2>1, Zenon DEF Outcome
  <2>3. ApplyRecord(o, r).state = Replayed(o.state, r)
    BY <2>1 DEF Outcome
  <2> QED
    BY <1>1, <2>2, <2>3, Zenon
<1>2. (~o.ok \/ o.torn) => ApplyRecord(o, r) = o
  BY DEF ApplyRecord
<1>3. ASSUME o.ok, ~o.torn, Rejects(o.state, r)
      PROVE  ApplyRecord(o, r).state = o.state /\ ~ApplyRecord(o, r).ok
  <2>1. ApplyRecord(o, r) = [o EXCEPT !.ok = FALSE, !.records = o.records + 1]
    BY <1>3 DEF ApplyRecord
  <2>2. ApplyRecord(o, r).state = o.state
    BY <2>1 DEF Outcome
  <2>3. ApplyRecord(o, r).ok = FALSE
    BY <2>1, Zenon DEF Outcome
  <2> QED
    BY <2>2, <2>3, Zenon
<1> QED
  BY <1>1, <1>2, <1>3, Zenon

LEMMA PresentFinite ==
    ASSUME NEW F
    PROVE  /\ Present(F) \subseteq Fences /\ IsFiniteSet(Present(F))
           /\ Cardinality(Present(F)) \in Nat
<1>1. Present(F) \subseteq Fences
  BY DEF Present
<1> QED
  BY <1>1, FS_Subset, FS_CardinalityType, StoreAssumption

\* remember_lineage() never repeats an entry.
LEMMA RememberLineageGood ==
    ASSUME NEW ls \in Seq(Lineages), NEW l \in Lineages,
           \A i, j \in DOMAIN ls : ls[i] = ls[j] => i = j
    PROVE  \A i, j \in DOMAIN RememberLineage(ls, l) :
              RememberLineage(ls, l)[i] = RememberLineage(ls, l)[j] => i = j
<1> DEFINE kept == IF Len(ls) >= MaxLineages THEN Tail(ls) ELSE ls
<1>1. CASE l \in Range(ls)
  BY <1>1 DEF RememberLineage
<1>2. CASE l \notin Range(ls)
  <2>1. RememberLineage(ls, l) = Append(kept, l)
    BY <1>2 DEF RememberLineage
  <2>2. \A i \in DOMAIN ls : ls[i] # l
    BY <1>2 DEF Range
  <2>3. /\ kept \in Seq(Lineages)
        /\ \A i \in DOMAIN kept : kept[i] # l
        /\ \A i, j \in DOMAIN kept : kept[i] = kept[j] => i = j
    <3>1. CASE Len(ls) >= MaxLineages
      <4>1. Len(ls) >= 1 /\ Len(ls) \in Nat
        BY <3>1, StoreAssumption
      <4>2. /\ kept = Tail(ls) /\ DOMAIN ls = 1..Len(ls) /\ kept \in Seq(Lineages)
            /\ Len(kept) = Len(ls) - 1 /\ DOMAIN kept = 1..(Len(ls) - 1)
            /\ \A i \in 1..(Len(ls) - 1) : kept[i] = ls[i + 1]
        <5>1. ls # <<>> /\ kept = Tail(ls)
          BY <3>1, <4>1
        <5>2. Tail(ls) \in Seq(Lineages) /\ Len(Tail(ls)) = Len(ls) - 1
          BY <4>1, <5>1
        <5>3. \A i \in 1..(Len(ls) - 1) : Tail(ls)[i] = ls[i + 1]
          BY <4>1, <5>1
        <5> HIDE DEF kept
        <5> QED
          BY <5>1, <5>2, <5>3
      <4> HIDE DEF kept
      <4>3. \A i \in DOMAIN kept : i \in Nat /\ i + 1 \in DOMAIN ls /\ kept[i] = ls[i + 1]
        BY <4>1, <4>2
      <4>4. kept \in Seq(Lineages)
        BY <4>1, <4>2
      <4> HIDE DEF kept
      <4>5. ASSUME NEW i \in DOMAIN kept, NEW j \in DOMAIN kept, kept[i] = kept[j] PROVE i = j
        <5>1. i + 1 = j + 1
          BY <4>3, <4>5
        <5> QED
          BY <4>3, <5>1
      <4> QED
        BY <2>2, <4>3, <4>4, <4>5
    <3>2. CASE ~(Len(ls) >= MaxLineages)
      BY <2>2, <3>2
    <3> QED
      BY <3>1, <3>2
  <2> HIDE DEF kept
  <2>4. \A i \in DOMAIN Append(kept, l) :
          (i \in DOMAIN kept /\ Append(kept, l)[i] = kept[i])
          \/ (i = Len(kept) + 1 /\ Append(kept, l)[i] = l)
    BY <2>3
  <2> QED
    BY <2>1, <2>3, <2>4
<1> QED
  BY <1>1, <1>2

LEMMA ReplayedGood ==
    ASSUME NEW s \in State, Good(s), NEW r, RecordOK(r), ~Rejects(s, r)
    PROVE  Good(Replayed(s, r))
<1>0. s.lineages \in Seq(Lineages) /\ s.fences \in [Fences -> FenceForms \cup {None}]
  BY StateFields
<1>1. \A i, j \in DOMAIN Replayed(s, r).lineages :
         Replayed(s, r).lineages[i] = Replayed(s, r).lineages[j] => i = j
  <2>1. \A i, j \in DOMAIN s.lineages : s.lineages[i] = s.lineages[j] => i = j
    BY DEF Good
  <2>2. CASE r.type = "Lineage"
    <3>1. r.arg \in Lineages /\ Replayed(s, r).lineages = RememberLineage(s.lineages, r.arg)
      BY <2>2, ReplayedFields DEF RecordOK
    <3> QED
      BY <1>0, <2>1, <3>1, RememberLineageGood
  <2>3. CASE r.type # "Lineage"
    <3>1. Replayed(s, r).lineages = s.lineages
      BY <2>3, ReplayedFields
    <3> QED
      BY <2>1, <3>1
  <2> QED
    BY <2>2, <2>3
<1>2. Replayed(s, r).policy.id = None => Replayed(s, r).policy = Fresh.policy
  <2>1. r.type = "Policy" => Replayed(s, r).policy.id \in Policies
    BY ReplayedFields DEF RecordOK, NamedPolicies
  <2>2. r.type # "Policy" => Replayed(s, r).policy = s.policy
    BY ReplayedFields
  <2> QED
    BY <2>1, <2>2, StoreAssumption DEF Good
<1>3. Cardinality(Present(Replayed(s, r).fences)) <= MaxFences
  <2>0. Cardinality(Present(s.fences)) <= MaxFences /\ Cardinality(Present(s.fences)) \in Nat
        /\ IsFiniteSet(Present(s.fences))
    BY PresentFinite DEF Good
  <2>1. CASE r.type = "FencePut"
    <3>1. r.arg.id \in Fences /\ r.arg.form \in FenceForms /\ r.arg.form # None
      BY <2>1, StoreAssumption DEF RecordOK
    <3>2. Replayed(s, r).fences = [s.fences EXCEPT ![r.arg.id] = r.arg.form]
      BY <2>1, ReplayedFields
    <3>3. Present(Replayed(s, r).fences) = Present(s.fences) \cup {r.arg.id}
      BY <1>0, <3>1, <3>2 DEF Present
    <3>4. Cardinality(Present(s.fences) \cup {r.arg.id}) =
            IF r.arg.id \in Present(s.fences) THEN Cardinality(Present(s.fences))
            ELSE Cardinality(Present(s.fences)) + 1
      BY <2>0, FS_AddElement
    <3>5. r.arg.id \in Present(s.fences) \/ ~(Cardinality(Present(s.fences)) >= MaxFences)
      BY <2>1 DEF Rejects
    <3> QED
      BY <2>0, <3>3, <3>4, <3>5, StoreAssumption
  <2>2. CASE r.type = "FenceRemove"
    <3>2. Replayed(s, r).fences = [s.fences EXCEPT ![r.arg] = None]
      BY <2>2, ReplayedFields
    <3>3. Present(Replayed(s, r).fences) \subseteq Present(s.fences)
      BY <1>0, <3>2 DEF Present
    <3>4. /\ Cardinality(Present(Replayed(s, r).fences)) <= Cardinality(Present(s.fences))
          /\ Cardinality(Present(Replayed(s, r).fences)) \in Nat
      BY <2>0, <3>3, FS_Subset, PresentFinite
    <3> QED
      BY <2>0, <3>4, StoreAssumption
  <2>3. CASE r.type \notin {"FencePut", "FenceRemove"}
    <3>1. Replayed(s, r).fences = s.fences
      BY <2>3, ReplayedFields
    <3> QED
      BY <2>0, <3>1
  <2> QED
    BY <2>1, <2>2, <2>3
<1> QED
  BY <1>1, <1>2, <1>3 DEF Good

LEMMA ApplyGood ==
    ASSUME NEW o \in Outcome, Good(o.state), NEW r, RecordOK(r)
    PROVE  Good(ApplyRecord(o, r).state)
<1>1. o.state \in State
  BY DEF Outcome
<1> QED
  BY <1>1, ApplyCases, ReplayedGood

LEMMA FreshGood == Good(Fresh)
<1>1. Fresh.lineages = <<>> /\ Fresh.fences = [f \in Fences |-> None]
  BY DEF Fresh
<1>2. Present(Fresh.fences) = {}
  BY <1>1 DEF Present
<1>3. Cardinality(Present(Fresh.fences)) <= MaxFences
  BY <1>2, FS_EmptySet, StoreAssumption
<1> QED
  BY <1>1, <1>3 DEF Good

-----------------------------------------------------------------------------
(* What a compaction writes *)

LEMMA TailFacts ==
    ASSUME NEW q \in Seq(Body), q # <<>>
    PROVE  /\ Head(q) \in Body /\ Tail(q) \in Seq(Body) /\ Head(q) = q[1] /\ 1 \in DOMAIN q
           /\ DOMAIN q = 1..Len(q) /\ Len(q) \in Nat /\ DOMAIN Tail(q) = 1..(Len(q) - 1)
           /\ \A i \in DOMAIN Tail(q) : i \in Nat /\ i + 1 \in DOMAIN q /\ Tail(q)[i] = q[i + 1]
           /\ \A i \in DOMAIN q : i = 1 \/ (i - 1 \in DOMAIN Tail(q) /\ Tail(q)[i - 1] = q[i])
<1>1. Len(q) \in Nat /\ Len(q) >= 1 /\ DOMAIN q = 1..Len(q) /\ 1 \in DOMAIN q
  OBVIOUS
<1>2. Head(q) \in Body /\ Head(q) = q[1] /\ Tail(q) \in Seq(Body) /\ Len(Tail(q)) = Len(q) - 1
  BY <1>1
<1>3. DOMAIN Tail(q) = 1..(Len(q) - 1)
  BY <1>1, <1>2
<1>4. \A i \in 1..(Len(q) - 1) : Tail(q)[i] = q[i + 1]
  BY <1>1
<1>5. \A i \in DOMAIN Tail(q) : i \in Nat /\ i + 1 \in DOMAIN q /\ Tail(q)[i] = q[i + 1]
  BY <1>1, <1>3, <1>4
<1>6. ASSUME NEW i \in DOMAIN q, i # 1
      PROVE  i - 1 \in DOMAIN Tail(q) /\ Tail(q)[i - 1] = q[i]
  <2>1. i - 1 \in 1..(Len(q) - 1) /\ (i - 1) + 1 = i
    BY <1>1, <1>6
  <2> QED
    BY <1>3, <1>4, <2>1
<1> QED
  BY <1>1, <1>2, <1>3, <1>5, <1>6

LEMMA InTail ==
    ASSUME NEW q \in Seq(Body), q # <<>>, NEW type, NEW arg, InRecords(q, type, arg)
    PROVE  (Head(q).type = type /\ Head(q).arg = arg) \/ InRecords(Tail(q), type, arg)
<1>1. PICK i \in DOMAIN q : q[i].type = type /\ q[i].arg = arg
  BY DEF InRecords
<1>2. i = 1 \/ (i - 1 \in DOMAIN Tail(q) /\ Tail(q)[i - 1] = q[i])
  BY TailFacts
<1>3. Head(q) = q[1]
  BY TailFacts
<1> QED
  BY <1>1, <1>2, <1>3 DEF InRecords

\* A record of the compaction is not refused.
LEMMA RebuildsAccepts ==
    ASSUME NEW s \in State, NEW m \in State, Good(m), NEW q \in Seq(Body), q # <<>>,
           Rebuilds(s, q, m)
    PROVE  ~Rejects(s, Head(q))
<1> DEFINE r == Head(q)
<1>0. r \in Body /\ r = q[1] /\ 1 \in DOMAIN q
  BY TailFacts
<1>1. r.type \in {"Boot", "Compaction", "Policy", "TopologyBinding", "FencePut",
                  "RevalidationRequest", "Lineage", "AttemptBegin"}
  BY <1>0 DEF Body
<1>2. r.type = "AttemptBegin" => r.arg \notin s.attempts
  BY <1>0 DEF Rebuilds, AttemptsLeft
<1>3. ASSUME r.type = "FencePut", r.arg.id \notin Present(s.fences),
             Cardinality(Present(s.fences)) >= MaxFences
      PROVE  FALSE
  <2>1. r.arg.id \in Present(m.fences)
    BY <1>0, <1>3 DEF Rebuilds, PartsOf
  <2>2. Present(s.fences) \subseteq Present(m.fences)
    BY DEF Rebuilds, Missing, Present
  <2>3. Present(s.fences) \cup {r.arg.id} \subseteq Present(m.fences)
    BY <2>1, <2>2
  <2>4. IsFiniteSet(Present(s.fences)) /\ IsFiniteSet(Present(m.fences))
        /\ Cardinality(Present(s.fences)) \in Nat /\ Cardinality(Present(m.fences)) \in Nat
    BY PresentFinite
  <2>5. Cardinality(Present(s.fences) \cup {r.arg.id}) = Cardinality(Present(s.fences)) + 1
    BY <1>3, <2>4, FS_AddElement
  <2>6. Cardinality(Present(s.fences) \cup {r.arg.id}) <= Cardinality(Present(m.fences))
    BY <2>3, <2>4, FS_Subset
  <2>7. Cardinality(Present(m.fences)) <= MaxFences
    BY DEF Good
  <2> QED
    BY <1>3, <2>4, <2>5, <2>6, <2>7, StoreAssumption
<1> QED
  BY <1>1, <1>2, <1>3 DEF Rejects

LEMMA PartsTail ==
    ASSUME NEW m \in State, NEW q \in Seq(Body), q # <<>>, PartsOf(q, m)
    PROVE  PartsOf(Tail(q), m)
<1>1. \A i \in DOMAIN Tail(q) : i + 1 \in DOMAIN q /\ Tail(q)[i] = q[i + 1]
  BY TailFacts
<1> QED
  BY <1>1 DEF PartsOf

LEMMA MissingTail ==
    ASSUME NEW s \in State, NEW m \in State, NEW q \in Seq(Body), q # <<>>,
           PartsOf(q, m), Missing(s, q, m)
    PROVE  Missing(Replayed(s, Head(q)), Tail(q), m)
<1> DEFINE r == Head(q)
           t == Replayed(s, r)
           u == Tail(q)
<1>0. r \in Body /\ r = q[1] /\ 1 \in DOMAIN q /\ RecordOK(r) /\ r.type # "Epoch"
  BY TailFacts, BodyRecords
<1>i. ASSUME NEW type, NEW arg, InRecords(q, type, arg)
      PROVE  (r.type = type /\ r.arg = arg) \/ InRecords(u, type, arg)
  BY <1>i, InTail
<1>t. r.type \notin {"RevalidationClear", "Footprint", "FenceRemove"}
  BY <1>0 DEF Body
<1>p. /\ r.type = "Boot" => r.arg = m.boot
      /\ r.type = "Policy" => r.arg = m.policy
      /\ r.type = "TopologyBinding" => r.arg = m.topology
      /\ r.type = "FencePut" =>
            r.arg.id \in Present(m.fences) /\ r.arg.form = m.fences[r.arg.id]
      /\ r.type = "RevalidationRequest" => r.arg \in m.revalidation
  BY <1>0 DEF PartsOf
<1> HIDE DEF r, u
<1>f. /\ t.boot = IF r.type = "Boot" THEN r.arg ELSE s.boot
      /\ t.policy = IF r.type = "Policy" THEN r.arg ELSE s.policy
      /\ t.topology = IF r.type = "TopologyBinding" THEN r.arg ELSE s.topology
      /\ t.fences = IF r.type = "FencePut" THEN [s.fences EXCEPT ![r.arg.id] = r.arg.form]
                    ELSE s.fences
      /\ r.type = "RevalidationRequest" =>
            t.revalidation =
                IF r.arg \in s.revalidation \/ Cardinality(s.revalidation) < MaxFootprint
                THEN s.revalidation \cup {r.arg} ELSE s.revalidation
      /\ r.type # "RevalidationRequest" => t.revalidation = s.revalidation
  BY <1>t, ReplayedFields
<1>1. t.epoch = m.epoch
  BY <1>0, ReplayedEpoch DEF Missing
<1> HIDE DEF t
<1>2. t.boot = m.boot \/ InRecords(u, "Boot", m.boot)
  BY <1>f, <1>i, <1>p DEF Missing
<1>3. t.policy = m.policy \/ InRecords(u, "Policy", m.policy)
  BY <1>f, <1>i, <1>p DEF Missing
<1>4. t.topology = m.topology \/ InRecords(u, "TopologyBinding", m.topology)
  BY <1>f, <1>i, <1>p DEF Missing
<1>5. ASSUME NEW f \in Fences
      PROVE  t.fences[f] = m.fences[f]
             \/ (t.fences[f] = None /\ InRecords(u, "FencePut", [id |-> f, form |-> m.fences[f]]))
  <2>0. s.fences \in [Fences -> FenceForms \cup {None}]
    BY StateFields
  <2>1. s.fences[f] = m.fences[f]
        \/ (s.fences[f] = None /\ InRecords(q, "FencePut", [id |-> f, form |-> m.fences[f]]))
    BY DEF Missing
  <2>2. CASE r.type = "FencePut" /\ r.arg.id = f
    BY <1>f, <1>p, <2>0, <2>2
  <2>3. CASE ~(r.type = "FencePut" /\ r.arg.id = f)
    <3>1. t.fences[f] = s.fences[f]
      <4>1. r.type = "FencePut" => r.arg.id \in Fences
        BY <1>0 DEF RecordOK
      <4> QED
        BY <1>f, <2>0, <2>3, <4>1
    <3>2. InRecords(q, "FencePut", [id |-> f, form |-> m.fences[f]])
             => InRecords(u, "FencePut", [id |-> f, form |-> m.fences[f]])
      BY <1>i, <2>3
    <3> QED
      BY <2>1, <3>1, <3>2
  <2> QED
    BY <2>2, <2>3
<1>6. /\ t.revalidation \subseteq m.revalidation
      /\ \A x \in m.revalidation \ t.revalidation : InRecords(u, "RevalidationRequest", x)
  <2>0. /\ s.revalidation \subseteq m.revalidation
        /\ \A x \in m.revalidation \ s.revalidation : InRecords(q, "RevalidationRequest", x)
    BY DEF Missing
  <2>1. CASE r.type = "RevalidationRequest"
    <3>1. ASSUME r.arg \notin s.revalidation PROVE Cardinality(s.revalidation) < MaxFootprint
      <4>1. IsFiniteSet(s.revalidation) /\ IsFiniteSet(m.revalidation)
        BY StateFields, FS_Subset, StoreAssumption
      <4>2. Cardinality(s.revalidation) \in Nat /\ Cardinality(m.revalidation) \in Nat
        BY <4>1, FS_CardinalityType
      <4>3. Cardinality(s.revalidation \cup {r.arg}) = Cardinality(s.revalidation) + 1
        BY <3>1, <4>1, FS_AddElement
      <4>4. s.revalidation \cup {r.arg} \subseteq m.revalidation
        BY <1>p, <2>0, <2>1
      <4>5. Cardinality(s.revalidation \cup {r.arg}) <= Cardinality(m.revalidation)
        BY <4>1, <4>4, FS_Subset
      <4>6. Cardinality(m.revalidation) <= MaxFootprint
        BY StateFields
      <4> QED
        BY <4>2, <4>3, <4>5, <4>6, StoreAssumption
    <3>2. t.revalidation = s.revalidation \cup {r.arg}
      BY <1>f, <2>1, <3>1
    <3>3. ASSUME NEW x \in m.revalidation \ t.revalidation
          PROVE  InRecords(u, "RevalidationRequest", x)
      BY <1>i, <2>0, <3>2, <3>3
    <3> QED
      BY <1>p, <2>0, <2>1, <3>2, <3>3
  <2>2. CASE r.type # "RevalidationRequest"
    <3>1. t.revalidation = s.revalidation
      BY <1>f, <2>2
    <3>3. ASSUME NEW x \in m.revalidation \ t.revalidation
          PROVE  InRecords(u, "RevalidationRequest", x)
      BY <1>i, <2>0, <2>2, <3>1, <3>3
    <3> QED
      BY <2>0, <3>1, <3>3
  <2> QED
    BY <2>1, <2>2
<1>7. Missing(t, u, m)
  BY <1>1, <1>2, <1>3, <1>4, <1>5, <1>6, Zenon DEF Missing
<1> QED
  BY <1>7 DEF t, u, r

LEMMA AttemptsTail ==
    ASSUME NEW s \in State, NEW m \in State, NEW q \in Seq(Body), q # <<>>,
           PartsOf(q, m), AttemptsLeft(s, q, m)
    PROVE  AttemptsLeft(Replayed(s, Head(q)), Tail(q), m)
<1> DEFINE r == Head(q)
           t == Replayed(s, r)
           u == Tail(q)
<1>0. r \in Body /\ r = q[1] /\ 1 \in DOMAIN q
  BY TailFacts
<1>i. ASSUME NEW type, NEW arg, InRecords(q, type, arg)
      PROVE  (r.type = type /\ r.arg = arg) \/ InRecords(u, type, arg)
  BY <1>i, InTail
<1>d. \A i \in DOMAIN u : i \in Nat /\ i + 1 \in DOMAIN q /\ u[i] = q[i + 1]
  BY TailFacts
<1>a. r.type = "AttemptBegin" => r.arg \in m.attempts
  BY <1>0 DEF PartsOf
<1>t. r.type \notin {"AttemptCommit", "AttemptAbort"}
  BY <1>0 DEF Body
<1>f. t.attempts = IF r.type = "AttemptBegin" THEN s.attempts \cup {r.arg} ELSE s.attempts
  BY <1>t, ReplayedFields
<1>l. /\ s.attempts \subseteq m.attempts
      /\ \A a \in m.attempts \ s.attempts : InRecords(q, "AttemptBegin", a)
      /\ \A i \in DOMAIN q : q[i].type = "AttemptBegin" => q[i].arg \notin s.attempts
      /\ \A i, j \in DOMAIN q :
            q[i].type = "AttemptBegin" /\ q[j].type = "AttemptBegin" /\ q[i].arg = q[j].arg
                => i = j
  BY DEF AttemptsLeft
<1> HIDE DEF r, t, u
<1>1. t.attempts \subseteq m.attempts
  BY <1>a, <1>f, <1>l
<1>2. ASSUME NEW a \in m.attempts \ t.attempts PROVE InRecords(u, "AttemptBegin", a)
  BY <1>2, <1>f, <1>i, <1>l
<1>3. ASSUME NEW i \in DOMAIN u, u[i].type = "AttemptBegin" PROVE u[i].arg \notin t.attempts
  <2>1. i + 1 \in DOMAIN q /\ q[i + 1].type = "AttemptBegin" /\ u[i].arg = q[i + 1].arg
        /\ i + 1 # 1
    BY <1>3, <1>d
  <2>2. q[i + 1].arg \notin s.attempts
    BY <1>l, <2>1
  <2>3. r.type = "AttemptBegin" => q[i + 1].arg # r.arg
    BY <1>0, <1>l, <2>1
  <2> QED
    BY <1>f, <2>1, <2>2, <2>3
<1>4. ASSUME NEW i \in DOMAIN u, NEW j \in DOMAIN u, u[i].type = "AttemptBegin",
             u[j].type = "AttemptBegin", u[i].arg = u[j].arg
      PROVE  i = j
  <2>1. i + 1 = j + 1
    BY <1>4, <1>d, <1>l
  <2> QED
    BY <1>d, <2>1
<1>5. AttemptsLeft(t, u, m)
  BY <1>1, <1>2, <1>3, <1>4 DEF AttemptsLeft
<1> QED
  BY <1>5 DEF t, u, r

LEMMA LineagesTail ==
    ASSUME NEW s \in State, NEW m \in State, Good(m), NEW q \in Seq(Body), q # <<>>,
           NEW k \in Int, LineagesLeft(s, q, m, k)
    PROVE  LineagesLeft(Replayed(s, Head(q)), Tail(q), m, k + 1)
<1> DEFINE r == Head(q)
           t == Replayed(s, r)
           u == Tail(q)
           sl == s.lineages
           ml == m.lineages
           tl == t.lineages
<1>0. r \in Body /\ r = q[1] /\ 1 \in DOMAIN q /\ DOMAIN q = 1..Len(q) /\ Len(q) \in Nat
  BY TailFacts
<1>d. \A i \in DOMAIN u : i \in Nat /\ i + 1 \in DOMAIN q /\ u[i] = q[i + 1]
  BY TailFacts
<1>e. DOMAIN u = 1..(Len(q) - 1)
  BY TailFacts
<1>f. tl = IF r.type = "Lineage" THEN RememberLineage(sl, r.arg) ELSE sl
  BY ReplayedFields
<1>s. sl \in Seq(Lineages) /\ ml \in Seq(Lineages) /\ Len(ml) <= MaxLineages
      /\ Len(sl) \in Nat /\ Len(ml) \in Nat /\ DOMAIN ml = 1..Len(ml) /\ DOMAIN sl = 1..Len(sl)
  BY StateFields
<1>g. \A i, j \in DOMAIN ml : ml[i] = ml[j] => i = j
  BY DEF Good
<1>l. /\ Len(sl) <= Len(ml)
      /\ \A j \in 1..Len(sl) : sl[j] = ml[j]
      /\ \A i \in DOMAIN q : q[i].type = "Lineage" =>
            i + k \in (Len(sl) + 1)..Len(ml) /\ q[i].arg = ml[i + k]
      /\ \A j \in (Len(sl) + 1)..Len(ml) : j - k \in DOMAIN q /\ q[j - k].type = "Lineage"
  BY DEF LineagesLeft
<1> HIDE DEF r, u, sl, ml, tl, t
<1>1. CASE r.type = "Lineage"
  <2>1. 1 + k \in (Len(sl) + 1)..Len(ml) /\ r.arg = ml[1 + k]
    BY <1>0, <1>1, <1>l, Zenon
  <2>2. (Len(sl) + 1) - k \in DOMAIN q
    BY <1>l, <1>s, <2>1
  <2>3. k = Len(sl) /\ Len(sl) < Len(ml)
    <3>1. (Len(sl) + 1) - k >= 1
      BY <1>0, <2>2
    <3>2. Len(sl) + 1 <= 1 + k /\ 1 + k <= Len(ml)
      BY <1>s, <2>1
    <3>3. Len(sl) \in Int /\ Len(ml) \in Int
      BY <1>s
    <3>4. \A a, b \in Int : (a + 1) - k >= 1 /\ a + 1 <= 1 + k /\ 1 + k <= b => k = a /\ a < b
      OBVIOUS
    <3> QED
      BY <3>1, <3>2, <3>3, <3>4, Zenon
  <2>4. r.arg = ml[Len(sl) + 1] /\ Len(sl) + 1 \in DOMAIN ml
    BY <1>s, <2>1, <2>3
  <2>5. r.arg \notin Range(sl)
    <3>1. ASSUME NEW j \in DOMAIN sl, sl[j] = r.arg PROVE FALSE
      <4>1. ml[j] = ml[Len(sl) + 1] /\ j \in DOMAIN ml /\ j # Len(sl) + 1
        BY <1>l, <1>s, <2>3, <2>4, <3>1
      <4> QED
        BY <1>g, <2>4, <4>1
    <3> QED
      BY <3>1 DEF Range
  <2>6. tl = Append(sl, r.arg)
    <3>1. ~(Len(sl) >= MaxLineages)
      BY <1>s, <2>3, StoreAssumption
    <3> QED
      BY <1>1, <1>f, <2>5, <3>1 DEF RememberLineage
  <2>7. Len(tl) = Len(sl) + 1 /\ \A j \in 1..Len(tl) : tl[j] = ml[j]
    BY <1>l, <1>s, <2>4, <2>6
  <2>8. ASSUME NEW i \in DOMAIN u, u[i].type = "Lineage"
        PROVE  i + (k + 1) \in (Len(tl) + 1)..Len(ml) /\ u[i].arg = ml[i + (k + 1)]
    <3>1. (i + 1) + k \in (Len(sl) + 1)..Len(ml) /\ u[i].arg = ml[(i + 1) + k]
      BY <1>d, <1>l, <2>8
    <3>2. (i + 1) + k = i + (k + 1) /\ i >= 1
      BY <1>d, <1>e, <1>0
    <3> QED
      BY <1>d, <1>s, <2>3, <2>7, <3>1, <3>2
  <2>9. ASSUME NEW j \in (Len(tl) + 1)..Len(ml)
        PROVE  j - (k + 1) \in DOMAIN u /\ u[j - (k + 1)].type = "Lineage"
    <3>1. j \in (Len(sl) + 1)..Len(ml) /\ j - k \in DOMAIN q /\ q[j - k].type = "Lineage"
      BY <1>l, <1>s, <2>7
    <3>2. j - (k + 1) \in DOMAIN u /\ (j - (k + 1)) + 1 = j - k
      BY <1>0, <1>e, <1>s, <2>3, <2>7, <3>1
    <3> QED
      BY <1>d, <3>1, <3>2
  <2>10. Len(tl) <= Len(ml)
    BY <1>s, <2>3, <2>7
  <2> QED
    BY <2>7, <2>8, <2>9, <2>10 DEF LineagesLeft, tl, ml, t, u, r
<1>2. CASE r.type # "Lineage"
  <2>1. tl = sl
    BY <1>2, <1>f
  <2>8. ASSUME NEW i \in DOMAIN u, u[i].type = "Lineage"
        PROVE  i + (k + 1) \in (Len(tl) + 1)..Len(ml) /\ u[i].arg = ml[i + (k + 1)]
    <3>1. (i + 1) + k \in (Len(sl) + 1)..Len(ml) /\ u[i].arg = ml[(i + 1) + k]
      BY <1>d, <1>l, <2>8
    <3>2. (i + 1) + k = i + (k + 1)
      BY <1>d
    <3> QED
      BY <2>1, <3>1, <3>2
  <2>9. ASSUME NEW j \in (Len(tl) + 1)..Len(ml)
        PROVE  j - (k + 1) \in DOMAIN u /\ u[j - (k + 1)].type = "Lineage"
    <3>1. j \in Int /\ j - k \in DOMAIN q /\ q[j - k].type = "Lineage"
      BY <1>l, <1>s, <2>1
    <3>2. j - k # 1
      BY <1>0, <1>2, <3>1
    <3>3. j - (k + 1) \in DOMAIN u /\ (j - (k + 1)) + 1 = j - k
      BY <1>0, <1>e, <3>1, <3>2
    <3> QED
      BY <1>d, <3>1, <3>3
  <2> QED
    BY <1>l, <2>1, <2>8, <2>9 DEF LineagesLeft, tl, sl, ml, t, u, r
<1> QED
  BY <1>1, <1>2

\* A compaction stays on its way to the memory.
LEMMA RebuildsStep ==
    ASSUME NEW s \in State, NEW m \in State, Good(m), NEW q \in Seq(Body), q # <<>>,
           Rebuilds(s, q, m)
    PROVE  Rebuilds(Replayed(s, Head(q)), Tail(q), m)
<1>1. PICK k \in Int : LineagesLeft(s, q, m, k)
  BY DEF Rebuilds
<1>2. PartsOf(q, m) /\ Missing(s, q, m) /\ AttemptsLeft(s, q, m)
  BY DEF Rebuilds
<1>3. LineagesLeft(Replayed(s, Head(q)), Tail(q), m, k + 1) /\ k + 1 \in Int
  BY <1>1, LineagesTail
<1>4. /\ PartsOf(Tail(q), m) /\ Missing(Replayed(s, Head(q)), Tail(q), m)
      /\ AttemptsLeft(Replayed(s, Head(q)), Tail(q), m)
  BY <1>2, PartsTail, MissingTail, AttemptsTail
<1> QED
  BY <1>3, <1>4 DEF Rebuilds

\* A compaction with nothing left to write has rebuilt the memory.
LEMMA RebuildsDone ==
    ASSUME NEW s \in State, NEW m \in State, Rebuilds(s, <<>>, m)
    PROVE  s = m
<1>0. \A type, arg : ~InRecords(<<>>, type, arg)
  BY DEF InRecords
<1>1. /\ s.epoch = m.epoch /\ s.boot = m.boot /\ s.policy = m.policy /\ s.topology = m.topology
      /\ \A f \in Fences : s.fences[f] = m.fences[f]
      /\ s.revalidation = m.revalidation
  BY <1>0 DEF Rebuilds, Missing
<1>2. s.attempts = m.attempts
  BY <1>0 DEF Rebuilds, AttemptsLeft
<1>3. s.fences = m.fences
  <2>1. s.fences \in [Fences -> FenceForms \cup {None}] /\ m.fences \in [Fences -> FenceForms \cup {None}]
    BY StateFields
  <2> QED
    BY <1>1, <2>1
<1>4. s.lineages = m.lineages
  <2>1. PICK k \in Int : LineagesLeft(s, <<>>, m, k)
    BY DEF Rebuilds
  <2>2. s.lineages \in Seq(Lineages) /\ m.lineages \in Seq(Lineages)
    BY StateFields
  <2>3. Len(s.lineages) \in Nat /\ Len(m.lineages) \in Nat
    BY <2>2
  <2>4. /\ Len(s.lineages) <= Len(m.lineages)
        /\ \A j \in 1..Len(s.lineages) : s.lineages[j] = m.lineages[j]
        /\ \A j \in (Len(s.lineages) + 1)..Len(m.lineages) : FALSE
    BY <2>1 DEF LineagesLeft
  <2>5. Len(s.lineages) = Len(m.lineages)
    <3>1. SUFFICES ASSUME Len(s.lineages) < Len(m.lineages) PROVE FALSE
      BY <2>3, <2>4
    <3>2. Len(m.lineages) \in (Len(s.lineages) + 1)..Len(m.lineages)
      BY <2>3, <3>1
    <3> QED
      BY <2>4, <3>2
  <2>6. DOMAIN s.lineages = 1..Len(s.lineages) /\ DOMAIN m.lineages = 1..Len(s.lineages)
    BY <2>2, <2>5
  <2>7. /\ s.lineages = [j \in DOMAIN s.lineages |-> s.lineages[j]]
        /\ m.lineages = [j \in DOMAIN m.lineages |-> m.lineages[j]]
    BY <2>2
  <2> QED
    BY <2>4, <2>6, <2>7, Zenon
<1> QED
  BY <1>1, <1>2, <1>3, <1>4, SameFields

\* SetToSeq lists a set, each element once.
LEMMA SetToSeqLists ==
    ASSUME NEW S, IsFiniteSet(S)
    PROVE  /\ SetToSeq(S) \in Seq(S)
           /\ \A i, j \in DOMAIN SetToSeq(S) : SetToSeq(S)[i] = SetToSeq(S)[j] => i = j
           /\ \A x \in S : \E i \in DOMAIN SetToSeq(S) : SetToSeq(S)[i] = x
<1> DEFINE n == Cardinality(S)
           g == SetToSeq(S)
<1>1. n \in Nat /\ ExistsBijection(1..n, S)
  BY FS_CardinalityType
<1>2. \E f \in [1..n -> S] : IsInjective(f)
  BY <1>1 DEF ExistsBijection, Bijection, Injection, Surjection, IsInjective
<1>3. g \in [1..n -> S] /\ IsInjective(g)
  BY <1>2 DEF SetToSeq
<1>4. IsFiniteSet(1..n) /\ Cardinality(1..n) = n
  BY <1>1, FS_Interval
<1> HIDE DEF n, g
<1>5. g \in Injection(1..n, S)
  BY <1>3, Zenon DEF Injection
<1>6. g \in Surjection(1..n, S)
  BY <1>4, <1>5, FS_Injection DEF n
<1>7. \A x \in S : \E i \in DOMAIN g : g[i] = x
  BY <1>3, <1>6 DEF Surjection
<1>8. \A i, j \in DOMAIN g : g[i] = g[j] => i = j
  BY <1>3 DEF IsInjective
<1>9. g \in Seq(S)
  BY SetToSeqType DEF g
<1> QED
  BY <1>7, <1>8, <1>9 DEF g

LEMMA EachFacts ==
    ASSUME NEW S, NEW type, NEW args \in Seq(S)
    PROVE  /\ DOMAIN Each(type, args) = DOMAIN args
           /\ \A i \in DOMAIN args : Each(type, args)[i].type = type /\ Each(type, args)[i].arg = args[i]
  BY DEF Each

LEMMA ConcatFacts ==
    ASSUME NEW p \in Seq(Body), NEW q \in Seq(Body)
    PROVE  /\ p \o q \in Seq(Body) /\ Len(p) \in Nat /\ Len(q) \in Nat
           /\ Len(p \o q) = Len(p) + Len(q)
           /\ DOMAIN p = 1..Len(p) /\ DOMAIN q = 1..Len(q) /\ DOMAIN (p \o q) = 1..(Len(p) + Len(q))
           /\ \A i \in 1..Len(p) : (p \o q)[i] = p[i]
           /\ \A i \in 1..Len(q) : (p \o q)[i + Len(p)] = q[i]
<1>1. Len(p) \in Nat /\ Len(q) \in Nat /\ DOMAIN p = 1..Len(p) /\ DOMAIN q = 1..Len(q)
      /\ p \o q \in Seq(Body) /\ Len(p \o q) = Len(p) + Len(q)
      /\ DOMAIN (p \o q) = 1..(Len(p) + Len(q))
  OBVIOUS
<1>2. \A i \in 1..Len(p) : (p \o q)[i] = p[i]
  OBVIOUS
<1>3. \A i \in 1..Len(q) : (p \o q)[i + Len(p)] = q[i]
  OBVIOUS
<1> QED
  BY <1>1, <1>2, <1>3

\* A record of p \o q is one of p or one of q.
LEMMA ConcatCases ==
    ASSUME NEW p \in Seq(Body), NEW q \in Seq(Body), NEW i \in DOMAIN (p \o q)
    PROVE  \/ i \in DOMAIN p /\ (p \o q)[i] = p[i]
           \/ i - Len(p) \in DOMAIN q /\ (p \o q)[i] = q[i - Len(p)]
<1>0. /\ Len(p) \in Nat /\ Len(q) \in Nat /\ DOMAIN p = 1..Len(p) /\ DOMAIN q = 1..Len(q)
      /\ i \in 1..(Len(p) + Len(q))
      /\ \A j \in 1..Len(p) : (p \o q)[j] = p[j]
      /\ \A j \in 1..Len(q) : (p \o q)[j + Len(p)] = q[j]
  BY ConcatFacts
<1>1. CASE i <= Len(p)
  BY <1>0, <1>1
<1>2. CASE ~(i <= Len(p))
  <2>1. i - Len(p) \in 1..Len(q) /\ (i - Len(p)) + Len(p) = i
    BY <1>0, <1>2
  <2>2. (p \o q)[i] = q[i - Len(p)]
    BY <1>0, <2>1
  <2> QED
    BY <1>0, <2>1, <2>2
<1> QED
  BY <1>1, <1>2

LEMMA ConcatHolds ==
    ASSUME NEW p \in Seq(Body), NEW q \in Seq(Body), NEW type, NEW arg,
           InRecords(p, type, arg) \/ InRecords(q, type, arg)
    PROVE  InRecords(p \o q, type, arg)
<1>0. /\ Len(p) \in Nat /\ Len(q) \in Nat /\ DOMAIN p = 1..Len(p) /\ DOMAIN q = 1..Len(q)
      /\ DOMAIN (p \o q) = 1..(Len(p) + Len(q))
      /\ \A j \in 1..Len(p) : (p \o q)[j] = p[j]
      /\ \A j \in 1..Len(q) : (p \o q)[j + Len(p)] = q[j]
  BY ConcatFacts
<1>1. CASE InRecords(p, type, arg)
  <2>1. PICK i \in DOMAIN p : p[i].type = type /\ p[i].arg = arg
    BY <1>1 DEF InRecords
  <2>2. i \in DOMAIN (p \o q) /\ (p \o q)[i] = p[i]
    BY <1>0
  <2> QED
    BY <2>1, <2>2 DEF InRecords
<1>2. CASE InRecords(q, type, arg)
  <2>1. PICK i \in DOMAIN q : q[i].type = type /\ q[i].arg = arg
    BY <1>2 DEF InRecords
  <2>2. i + Len(p) \in DOMAIN (p \o q) /\ (p \o q)[i + Len(p)] = q[i]
    BY <1>0
  <2> QED
    BY <2>1, <2>2 DEF InRecords
<1> QED
  BY <1>1, <1>2

LEMMA ConcatParts ==
    ASSUME NEW p \in Seq(Body), NEW q \in Seq(Body), NEW m, PartsOf(p, m), PartsOf(q, m)
    PROVE  PartsOf(p \o q, m)
<1>1. \A i \in DOMAIN (p \o q) :
         \/ i \in DOMAIN p /\ (p \o q)[i] = p[i]
         \/ i - Len(p) \in DOMAIN q /\ (p \o q)[i] = q[i - Len(p)]
  BY ConcatCases
<1> QED
  BY <1>1 DEF PartsOf

\* The records of q have a type of T.
OfTypes(q, T) == \A i \in DOMAIN q : q[i].type \in T

LEMMA ConcatTypes ==
    ASSUME NEW p \in Seq(Body), NEW q \in Seq(Body), NEW T, OfTypes(p, T), OfTypes(q, T)
    PROVE  OfTypes(p \o q, T)
<1>1. \A i \in DOMAIN (p \o q) :
         \/ i \in DOMAIN p /\ (p \o q)[i] = p[i]
         \/ i - Len(p) \in DOMAIN q /\ (p \o q)[i] = q[i - Len(p)]
  BY ConcatCases
<1> QED
  BY <1>1 DEF OfTypes

\* The parts of CompactedBody before the lineages.
BootPart(m) == IF m.boot = 0 THEN <<>> ELSE <<[type |-> "Boot", arg |-> m.boot]>>
PolicyPart(m) == IF m.policy.id = None THEN <<>> ELSE <<[type |-> "Policy", arg |-> m.policy]>>
TopologyPart(m) == IF m.topology = None THEN <<>>
                   ELSE <<[type |-> "TopologyBinding", arg |-> m.topology]>>
FenceList(m) == {[id |-> f, form |-> m.fences[f]] : f \in Present(m.fences)}
FencePart(m) == Each("FencePut", SetToSeq(FenceList(m)))
RevalidationPart(m) == Each("RevalidationRequest", SetToSeq(m.revalidation))
LineagePart(m) == Each("Lineage", m.lineages)
AttemptPart(m) == Each("AttemptBegin", SetToSeq(m.attempts))
LastPart(m) == <<[type |-> "Compaction", arg |-> m.epoch]>>

\* What each part is: a list of records of one type that are parts of m.
IsPart(p, m, type) == p \in Seq(Body) /\ PartsOf(p, m) /\ OfTypes(p, {type})

LEMMA OneRecord ==
    ASSUME NEW b \in Body
    PROVE  <<b>> \in Seq(Body) /\ DOMAIN <<b>> = {1} /\ <<b>>[1] = b
  OBVIOUS

LEMMA NoRecord ==
    ASSUME NEW m, NEW type
    PROVE  IsPart(<<>>, m, type)
<1>1. <<>> \in Seq(Body) /\ DOMAIN <<>> = {}
  OBVIOUS
<1> QED
  BY <1>1 DEF IsPart, PartsOf, OfTypes

LEMMA SingleParts ==
    ASSUME NEW m \in State, Good(m)
    PROVE  /\ IsPart(BootPart(m), m, "Boot")
           /\ m.boot = Fresh.boot \/ InRecords(BootPart(m), "Boot", m.boot)
           /\ IsPart(PolicyPart(m), m, "Policy")
           /\ m.policy = Fresh.policy \/ InRecords(PolicyPart(m), "Policy", m.policy)
           /\ IsPart(TopologyPart(m), m, "TopologyBinding")
           /\ m.topology = Fresh.topology
              \/ InRecords(TopologyPart(m), "TopologyBinding", m.topology)
           /\ IsPart(LastPart(m), m, "Compaction")
<1> USE StateFields
<1>1. /\ IsPart(BootPart(m), m, "Boot")
      /\ m.boot = Fresh.boot \/ InRecords(BootPart(m), "Boot", m.boot)
  <2>1. CASE m.boot = 0
    BY <2>1, NoRecord DEF BootPart, Fresh
  <2>2. CASE m.boot # 0
    <3> DEFINE b == [type |-> "Boot", arg |-> m.boot]
    <3>1. b \in Body /\ b.type = "Boot" /\ b.arg = m.boot
      BY DEF Body
    <3>2. BootPart(m) = <<b>>
      BY <2>2 DEF BootPart
    <3> HIDE DEF b
    <3> QED
      BY <3>1, <3>2, OneRecord DEF IsPart, PartsOf, OfTypes, InRecords
  <2> QED
    BY <2>1, <2>2
<1>2. /\ IsPart(PolicyPart(m), m, "Policy")
      /\ m.policy = Fresh.policy \/ InRecords(PolicyPart(m), "Policy", m.policy)
  <2>1. CASE m.policy.id = None
    BY <2>1, NoRecord DEF PolicyPart, Good
  <2>2. CASE m.policy.id # None
    <3> DEFINE b == [type |-> "Policy", arg |-> m.policy]
    <3>0. m.policy \in NamedPolicies
      BY <2>2 DEF PolicyForms, NamedPolicies
    <3>1. b \in Body /\ b.type = "Policy" /\ b.arg = m.policy
      BY <3>0 DEF Body
    <3>2. PolicyPart(m) = <<b>>
      BY <2>2 DEF PolicyPart
    <3> HIDE DEF b
    <3> QED
      BY <3>1, <3>2, OneRecord DEF IsPart, PartsOf, OfTypes, InRecords
  <2> QED
    BY <2>1, <2>2
<1>3. /\ IsPart(TopologyPart(m), m, "TopologyBinding")
      /\ m.topology = Fresh.topology \/ InRecords(TopologyPart(m), "TopologyBinding", m.topology)
  <2>1. CASE m.topology = None
    BY <2>1, NoRecord DEF TopologyPart, Fresh
  <2>2. CASE m.topology # None
    <3> DEFINE b == [type |-> "TopologyBinding", arg |-> m.topology]
    <3>1. b \in Body /\ b.type = "TopologyBinding" /\ b.arg = m.topology
      BY <2>2 DEF Body
    <3>2. TopologyPart(m) = <<b>>
      BY <2>2 DEF TopologyPart
    <3> HIDE DEF b
    <3> QED
      BY <3>1, <3>2, OneRecord DEF IsPart, PartsOf, OfTypes, InRecords
  <2> QED
    BY <2>1, <2>2
<1>4. IsPart(LastPart(m), m, "Compaction")
  <2> DEFINE b == [type |-> "Compaction", arg |-> m.epoch]
  <2>1. b \in Body /\ b.type = "Compaction"
    BY DEF Body
  <2>2. LastPart(m) = <<b>>
    BY DEF LastPart
  <2> HIDE DEF b
  <2> QED
    BY <2>1, <2>2, OneRecord DEF IsPart, PartsOf, OfTypes
<1> QED
  BY <1>1, <1>2, <1>3, <1>4

\* A part that lists a set.
LEMMA ListPart ==
    ASSUME NEW S, IsFiniteSet(S), NEW type, \A x \in S : [type |-> type, arg |-> x] \in Body
    PROVE  /\ Each(type, SetToSeq(S)) \in Seq(Body)
           /\ OfTypes(Each(type, SetToSeq(S)), {type})
           /\ \A i \in DOMAIN Each(type, SetToSeq(S)) : Each(type, SetToSeq(S))[i].arg \in S
           /\ \A x \in S : InRecords(Each(type, SetToSeq(S)), type, x)
           /\ \A i, j \in DOMAIN Each(type, SetToSeq(S)) :
                 Each(type, SetToSeq(S))[i].arg = Each(type, SetToSeq(S))[j].arg => i = j
<1> DEFINE g == SetToSeq(S)
           e == Each(type, g)
<1>1. /\ g \in Seq(S)
      /\ \A i, j \in DOMAIN g : g[i] = g[j] => i = j
      /\ \A x \in S : \E i \in DOMAIN g : g[i] = x
  BY SetToSeqLists
<1> HIDE DEF g
<1>2. DOMAIN e = DOMAIN g /\ \A i \in DOMAIN g : e[i].type = type /\ e[i].arg = g[i]
  BY <1>1, EachFacts
<1>3. e \in Seq(Body)
  BY <1>1, EachType
<1>4. \A i \in DOMAIN g : g[i] \in S
  BY <1>1
<1> HIDE DEF e
<1>5. OfTypes(e, {type}) /\ \A i \in DOMAIN e : e[i].arg \in S
  BY <1>2, <1>4 DEF OfTypes
<1>6. \A x \in S : InRecords(e, type, x)
  BY <1>1, <1>2 DEF InRecords
<1>7. \A i, j \in DOMAIN e : e[i].arg = e[j].arg => i = j
  BY <1>1, <1>2
<1> QED
  BY <1>3, <1>5, <1>6, <1>7 DEF e, g

LEMMA ListParts ==
    ASSUME NEW m \in State
    PROVE  /\ IsPart(FencePart(m), m, "FencePut")
           /\ \A f \in Present(m.fences) :
                 InRecords(FencePart(m), "FencePut", [id |-> f, form |-> m.fences[f]])
           /\ IsPart(RevalidationPart(m), m, "RevalidationRequest")
           /\ \A x \in m.revalidation : InRecords(RevalidationPart(m), "RevalidationRequest", x)
           /\ IsPart(AttemptPart(m), m, "AttemptBegin")
           /\ \A x \in m.attempts : InRecords(AttemptPart(m), "AttemptBegin", x)
           /\ \A i, j \in DOMAIN AttemptPart(m) :
                 AttemptPart(m)[i].arg = AttemptPart(m)[j].arg => i = j
<1> USE StateFields
<1>1. /\ IsPart(FencePart(m), m, "FencePut")
      /\ \A f \in Present(m.fences) :
            InRecords(FencePart(m), "FencePut", [id |-> f, form |-> m.fences[f]])
  <2>1. IsFiniteSet(FenceList(m))
    <3> DEFINE F == [f \in Present(m.fences) |-> [id |-> f, form |-> m.fences[f]]]
    <3>1. F \in Surjection(Present(m.fences), FenceList(m))
      BY DEF Surjection, FenceList
    <3> QED
      BY <3>1, FS_Surjection, PresentFinite
  <2>2. \A x \in FenceList(m) : [type |-> "FencePut", arg |-> x] \in Body
    BY DEF Body, Present, FenceList
  <2>3. /\ FencePart(m) \in Seq(Body) /\ OfTypes(FencePart(m), {"FencePut"})
        /\ \A i \in DOMAIN FencePart(m) : FencePart(m)[i].arg \in FenceList(m)
        /\ \A x \in FenceList(m) : InRecords(FencePart(m), "FencePut", x)
    BY <2>1, <2>2, ListPart DEF FencePart
  <2>4. \A x \in FenceList(m) : x.id \in Present(m.fences) /\ x.form = m.fences[x.id]
    BY DEF FenceList
  <2>5. PartsOf(FencePart(m), m)
    BY <2>3, <2>4 DEF PartsOf, OfTypes
  <2>6. \A f \in Present(m.fences) : [id |-> f, form |-> m.fences[f]] \in FenceList(m)
    BY DEF FenceList
  <2> QED
    BY <2>3, <2>5, <2>6 DEF IsPart
<1>2. /\ IsPart(RevalidationPart(m), m, "RevalidationRequest")
      /\ \A x \in m.revalidation : InRecords(RevalidationPart(m), "RevalidationRequest", x)
  <2>1. IsFiniteSet(m.revalidation)
    BY FS_Subset, StoreAssumption
  <2>2. \A x \in m.revalidation : [type |-> "RevalidationRequest", arg |-> x] \in Body
    BY DEF Body
  <2>3. /\ RevalidationPart(m) \in Seq(Body) /\ OfTypes(RevalidationPart(m), {"RevalidationRequest"})
        /\ \A i \in DOMAIN RevalidationPart(m) : RevalidationPart(m)[i].arg \in m.revalidation
        /\ \A x \in m.revalidation : InRecords(RevalidationPart(m), "RevalidationRequest", x)
    BY <2>1, <2>2, ListPart DEF RevalidationPart
  <2>5. PartsOf(RevalidationPart(m), m)
    BY <2>3 DEF PartsOf, OfTypes
  <2> QED
    BY <2>3, <2>5 DEF IsPart
<1>3. /\ IsPart(AttemptPart(m), m, "AttemptBegin")
      /\ \A x \in m.attempts : InRecords(AttemptPart(m), "AttemptBegin", x)
      /\ \A i, j \in DOMAIN AttemptPart(m) :
            AttemptPart(m)[i].arg = AttemptPart(m)[j].arg => i = j
  <2>1. IsFiniteSet(m.attempts)
    BY FS_Subset, StoreAssumption
  <2>2. \A x \in m.attempts : [type |-> "AttemptBegin", arg |-> x] \in Body
    BY DEF Body
  <2>3. /\ AttemptPart(m) \in Seq(Body) /\ OfTypes(AttemptPart(m), {"AttemptBegin"})
        /\ \A i \in DOMAIN AttemptPart(m) : AttemptPart(m)[i].arg \in m.attempts
        /\ \A x \in m.attempts : InRecords(AttemptPart(m), "AttemptBegin", x)
        /\ \A i, j \in DOMAIN AttemptPart(m) :
              AttemptPart(m)[i].arg = AttemptPart(m)[j].arg => i = j
    BY <2>1, <2>2, ListPart DEF AttemptPart
  <2>5. PartsOf(AttemptPart(m), m)
    BY <2>3 DEF PartsOf, OfTypes
  <2> QED
    BY <2>3, <2>5 DEF IsPart
<1> QED
  BY <1>1, <1>2, <1>3

LEMMA LineagesPart ==
    ASSUME NEW m \in State
    PROVE  /\ IsPart(LineagePart(m), m, "Lineage")
           /\ DOMAIN LineagePart(m) = 1..Len(m.lineages) /\ Len(LineagePart(m)) = Len(m.lineages)
           /\ \A i \in 1..Len(m.lineages) : LineagePart(m)[i].arg = m.lineages[i]
<1>1. m.lineages \in Seq(Lineages) /\ DOMAIN m.lineages = 1..Len(m.lineages)
      /\ Len(m.lineages) \in Nat
  BY StateFields
<1>2. \A x \in Lineages : [type |-> "Lineage", arg |-> x] \in Body
  BY DEF Body
<1>3. LineagePart(m) \in Seq(Body)
  BY <1>1, <1>2, EachType DEF LineagePart
<1>4. /\ DOMAIN LineagePart(m) = 1..Len(m.lineages)
      /\ \A i \in 1..Len(m.lineages) :
            LineagePart(m)[i].type = "Lineage" /\ LineagePart(m)[i].arg = m.lineages[i]
  BY <1>1, EachFacts DEF LineagePart
<1>5. Len(LineagePart(m)) = Len(m.lineages)
  BY <1>1, <1>3, <1>4
<1> QED
  BY <1>3, <1>4, <1>5 DEF IsPart, PartsOf, OfTypes

FirstParts(m) ==
    BootPart(m) \o PolicyPart(m) \o TopologyPart(m) \o FencePart(m) \o RevalidationPart(m)

FrontTypes == {"Boot", "Policy", "TopologyBinding", "FencePut", "RevalidationRequest"}

LEMMA BodyInParts ==
    ASSUME NEW m
    PROVE  CompactedBody(m) = ((FirstParts(m) \o LineagePart(m)) \o AttemptPart(m)) \o LastPart(m)
  BY DEF CompactedBody, FirstParts, BootPart, PolicyPart, TopologyPart, FencePart, FenceList,
         RevalidationPart, LineagePart, AttemptPart, LastPart

LEMMA FrontFacts ==
    ASSUME NEW m \in State, Good(m)
    PROVE  /\ FirstParts(m) \in Seq(Body) /\ PartsOf(FirstParts(m), m) /\ OfTypes(FirstParts(m), FrontTypes)
           /\ m.boot = Fresh.boot \/ InRecords(FirstParts(m), "Boot", m.boot)
           /\ m.policy = Fresh.policy \/ InRecords(FirstParts(m), "Policy", m.policy)
           /\ m.topology = Fresh.topology \/ InRecords(FirstParts(m), "TopologyBinding", m.topology)
           /\ \A f \in Present(m.fences) :
                 InRecords(FirstParts(m), "FencePut", [id |-> f, form |-> m.fences[f]])
           /\ \A x \in m.revalidation : InRecords(FirstParts(m), "RevalidationRequest", x)
<1> DEFINE b == BootPart(m)
           p == PolicyPart(m)
           t == TopologyPart(m)
           f == FencePart(m)
           v == RevalidationPart(m)
<1>1. /\ b \in Seq(Body) /\ p \in Seq(Body) /\ t \in Seq(Body) /\ f \in Seq(Body) /\ v \in Seq(Body)
      /\ PartsOf(b, m) /\ PartsOf(p, m) /\ PartsOf(t, m) /\ PartsOf(f, m) /\ PartsOf(v, m)
  BY SingleParts, ListParts DEF IsPart
<1>2. /\ OfTypes(b, FrontTypes) /\ OfTypes(p, FrontTypes) /\ OfTypes(t, FrontTypes)
      /\ OfTypes(f, FrontTypes) /\ OfTypes(v, FrontTypes)
  <2>1. OfTypes(b, {"Boot"}) /\ OfTypes(p, {"Policy"}) /\ OfTypes(t, {"TopologyBinding"})
        /\ OfTypes(f, {"FencePut"}) /\ OfTypes(v, {"RevalidationRequest"})
    BY SingleParts, ListParts DEF IsPart
  <2> HIDE DEF b, p, t, f, v
  <2> QED
    BY <2>1 DEF OfTypes, FrontTypes
<1>3. /\ m.boot = Fresh.boot \/ InRecords(b, "Boot", m.boot)
      /\ m.policy = Fresh.policy \/ InRecords(p, "Policy", m.policy)
      /\ m.topology = Fresh.topology \/ InRecords(t, "TopologyBinding", m.topology)
      /\ \A x \in Present(m.fences) : InRecords(f, "FencePut", [id |-> x, form |-> m.fences[x]])
      /\ \A x \in m.revalidation : InRecords(v, "RevalidationRequest", x)
  BY SingleParts, ListParts
<1>e. FirstParts(m) = (((b \o p) \o t) \o f) \o v
  BY DEF FirstParts
<1> HIDE DEF b, p, t, f, v
<1>4. /\ b \o p \in Seq(Body) /\ PartsOf(b \o p, m) /\ OfTypes(b \o p, FrontTypes)
      /\ \A type, arg : InRecords(b, type, arg) \/ InRecords(p, type, arg)
                            => InRecords(b \o p, type, arg)
  BY <1>1, <1>2, ConcatFacts, ConcatParts, ConcatTypes, ConcatHolds
<1> DEFINE bp == b \o p
<1> HIDE DEF bp
<1>5. /\ bp \o t \in Seq(Body) /\ PartsOf(bp \o t, m) /\ OfTypes(bp \o t, FrontTypes)
      /\ \A type, arg : InRecords(bp, type, arg) \/ InRecords(t, type, arg)
                            => InRecords(bp \o t, type, arg)
  <2>1. bp \in Seq(Body) /\ PartsOf(bp, m) /\ OfTypes(bp, FrontTypes)
    BY <1>4 DEF bp
  <2> QED
    BY <1>1, <1>2, <2>1, ConcatFacts, ConcatParts, ConcatTypes, ConcatHolds
<1> DEFINE bpt == bp \o t
<1> HIDE DEF bpt
<1>6. /\ bpt \o f \in Seq(Body) /\ PartsOf(bpt \o f, m) /\ OfTypes(bpt \o f, FrontTypes)
      /\ \A type, arg : InRecords(bpt, type, arg) \/ InRecords(f, type, arg)
                            => InRecords(bpt \o f, type, arg)
  <2>1. bpt \in Seq(Body) /\ PartsOf(bpt, m) /\ OfTypes(bpt, FrontTypes)
    BY <1>5 DEF bpt
  <2> QED
    BY <1>1, <1>2, <2>1, ConcatFacts, ConcatParts, ConcatTypes, ConcatHolds
<1> DEFINE bptf == bpt \o f
<1> HIDE DEF bptf
<1>7. /\ bptf \o v \in Seq(Body) /\ PartsOf(bptf \o v, m) /\ OfTypes(bptf \o v, FrontTypes)
      /\ \A type, arg : InRecords(bptf, type, arg) \/ InRecords(v, type, arg)
                            => InRecords(bptf \o v, type, arg)
  <2>1. bptf \in Seq(Body) /\ PartsOf(bptf, m) /\ OfTypes(bptf, FrontTypes)
    BY <1>6 DEF bptf
  <2> QED
    BY <1>1, <1>2, <2>1, ConcatFacts, ConcatParts, ConcatTypes, ConcatHolds
<1>8. FirstParts(m) = bptf \o v
  BY <1>e DEF bptf, bpt, bp
<1>9. /\ \A type, arg : InRecords(b, type, arg) => InRecords(FirstParts(m), type, arg)
      /\ \A type, arg : InRecords(p, type, arg) => InRecords(FirstParts(m), type, arg)
      /\ \A type, arg : InRecords(t, type, arg) => InRecords(FirstParts(m), type, arg)
      /\ \A type, arg : InRecords(f, type, arg) => InRecords(FirstParts(m), type, arg)
      /\ \A type, arg : InRecords(v, type, arg) => InRecords(FirstParts(m), type, arg)
  <2>1. \A type, arg : InRecords(b, type, arg) \/ InRecords(p, type, arg) => InRecords(bp, type, arg)
    BY <1>4 DEF bp
  <2>2. \A type, arg : InRecords(bp, type, arg) \/ InRecords(t, type, arg) => InRecords(bpt, type, arg)
    BY <1>5 DEF bpt
  <2>3. \A type, arg : InRecords(bpt, type, arg) \/ InRecords(f, type, arg)
                          => InRecords(bptf, type, arg)
    BY <1>6 DEF bptf
  <2> QED
    BY <1>7, <1>8, <2>1, <2>2, <2>3
<1> QED
  BY <1>3, <1>7, <1>8, <1>9

\* What a compaction is about to write rebuilds the memory.
LEMMA RebuildsStart ==
    ASSUME NEW m \in State, Good(m), NEW s \in State, s.epoch = m.epoch, s.boot = Fresh.boot,
           s.policy = Fresh.policy, s.topology = Fresh.topology, s.fences = Fresh.fences,
           s.lineages = Fresh.lineages, s.revalidation = Fresh.revalidation,
           s.attempts = Fresh.attempts
    PROVE  Rebuilds(s, CompactedBody(m), m)
<1> DEFINE a == FirstParts(m)
           l == LineagePart(m)
           al == a \o l
           w == AttemptPart(m)
           alw == al \o w
           z == LastPart(m)
           q == alw \o z
<1>q. CompactedBody(m) = q
  BY BodyInParts
<1>a. /\ a \in Seq(Body) /\ PartsOf(a, m) /\ OfTypes(a, FrontTypes)
  BY FrontFacts
<1>l. /\ l \in Seq(Body) /\ PartsOf(l, m) /\ OfTypes(l, {"Lineage"})
      /\ DOMAIN l = 1..Len(m.lineages) /\ Len(l) = Len(m.lineages)
      /\ \A i \in 1..Len(m.lineages) : l[i].arg = m.lineages[i]
  BY LineagesPart DEF IsPart
<1>w. /\ w \in Seq(Body) /\ PartsOf(w, m) /\ OfTypes(w, {"AttemptBegin"})
      /\ \A x \in m.attempts : InRecords(w, "AttemptBegin", x)
      /\ \A i, j \in DOMAIN w : w[i].arg = w[j].arg => i = j
  BY ListParts DEF IsPart
<1>z. z \in Seq(Body) /\ PartsOf(z, m) /\ OfTypes(z, {"Compaction"})
  BY SingleParts DEF IsPart
<1>f. /\ m.boot = Fresh.boot \/ InRecords(a, "Boot", m.boot)
      /\ m.policy = Fresh.policy \/ InRecords(a, "Policy", m.policy)
      /\ m.topology = Fresh.topology \/ InRecords(a, "TopologyBinding", m.topology)
      /\ \A f \in Present(m.fences) :
            InRecords(a, "FencePut", [id |-> f, form |-> m.fences[f]])
      /\ \A x \in m.revalidation : InRecords(a, "RevalidationRequest", x)
  BY FrontFacts
<1>n. /\ \A f \in Fences : Fresh.fences[f] = None
      /\ Fresh.lineages = <<>> /\ Fresh.revalidation = {} /\ Fresh.attempts = {}
  BY DEF Fresh
<1>m. m.lineages \in Seq(Lineages) /\ Len(m.lineages) \in Nat
  BY StateFields
<1> HIDE DEF a, l, w, z
<1>1. al \in Seq(Body) /\ PartsOf(al, m)
  BY <1>a, <1>l, ConcatFacts, ConcatParts
<1>2. \A type, arg : InRecords(a, type, arg) => InRecords(al, type, arg)
  BY <1>a, <1>l, ConcatHolds
<1>3. \A i \in DOMAIN al : \/ i \in DOMAIN a /\ al[i] = a[i]
                           \/ i - Len(a) \in DOMAIN l /\ al[i] = l[i - Len(a)]
  BY <1>a, <1>l, ConcatCases
<1>4. /\ Len(a) \in Nat /\ Len(al) = Len(a) + Len(m.lineages)
      /\ \A i \in 1..Len(m.lineages) : i + Len(a) \in DOMAIN al /\ al[i + Len(a)] = l[i]
      /\ DOMAIN al = 1..Len(al) /\ Len(al) \in Nat
  <2>1. /\ Len(a) \in Nat /\ Len(a \o l) = Len(a) + Len(l)
        /\ DOMAIN (a \o l) = 1..(Len(a) + Len(l))
        /\ \A i \in 1..Len(l) : (a \o l)[i + Len(a)] = l[i]
    BY <1>a, <1>l, ConcatFacts
  <2> QED
    BY <1>l, <1>m, <2>1
<1> HIDE DEF al
<1>5. alw \in Seq(Body) /\ PartsOf(alw, m)
  BY <1>1, <1>w, ConcatFacts, ConcatParts
<1>6. \A type, arg : InRecords(al, type, arg) \/ InRecords(w, type, arg)
                         => InRecords(alw, type, arg)
  BY <1>1, <1>w, ConcatHolds
<1>7. \A i \in DOMAIN alw : \/ i \in DOMAIN al /\ alw[i] = al[i]
                            \/ i - Len(al) \in DOMAIN w /\ alw[i] = w[i - Len(al)]
  BY <1>1, <1>w, ConcatCases
<1>8. \A i \in DOMAIN al : i \in DOMAIN alw /\ alw[i] = al[i]
  BY <1>1, <1>w, <1>4, ConcatFacts
<1> HIDE DEF alw
<1>9. q \in Seq(Body) /\ PartsOf(q, m)
  BY <1>5, <1>z, ConcatFacts, ConcatParts
<1>10. \A type, arg : InRecords(alw, type, arg) => InRecords(q, type, arg)
  BY <1>5, <1>z, ConcatHolds
<1>11. \A i \in DOMAIN q : \/ i \in DOMAIN alw /\ q[i] = alw[i]
                           \/ i - Len(alw) \in DOMAIN z /\ q[i] = z[i - Len(alw)]
  BY <1>5, <1>z, ConcatCases
<1>12. \A i \in DOMAIN alw : i \in DOMAIN q /\ q[i] = alw[i]
  <2>1. /\ Len(alw) \in Nat /\ Len(z) \in Nat /\ DOMAIN alw = 1..Len(alw)
        /\ DOMAIN (alw \o z) = 1..(Len(alw) + Len(z))
        /\ \A i \in 1..Len(alw) : (alw \o z)[i] = alw[i]
    BY <1>5, <1>z, ConcatFacts
  <2> QED
    BY <2>1
<1>13. \A i \in DOMAIN q : i \in Int
  BY <1>9
<1> HIDE DEF q
<1>14. Missing(s, q, m)
  <2>1. \A type, arg : InRecords(a, type, arg) => InRecords(q, type, arg)
    BY <1>2, <1>6, <1>10
  <2>2. ASSUME NEW f \in Fences
        PROVE  s.fences[f] = m.fences[f]
               \/ (s.fences[f] = None
                   /\ InRecords(q, "FencePut", [id |-> f, form |-> m.fences[f]]))
    <3>1. s.fences[f] = None
      BY <1>n
    <3>2. f \in Present(m.fences) \/ m.fences[f] = None
      BY DEF Present
    <3> QED
      BY <1>f, <2>1, <3>1, <3>2
  <2>3. s.revalidation = {}
    BY <1>n
  <2>4. /\ s.boot = m.boot \/ InRecords(q, "Boot", m.boot)
        /\ s.policy = m.policy \/ InRecords(q, "Policy", m.policy)
        /\ s.topology = m.topology \/ InRecords(q, "TopologyBinding", m.topology)
    BY <1>f, <2>1
  <2>5. \A r \in m.revalidation : InRecords(q, "RevalidationRequest", r)
    BY <1>f, <2>1
  <2> QED
    BY <2>2, <2>3, <2>4, <2>5 DEF Missing
<1>15. ASSUME NEW i \in DOMAIN q, q[i].type = "AttemptBegin"
       PROVE  i - Len(al) \in DOMAIN w /\ q[i] = w[i - Len(al)]
  <2>1. i \in DOMAIN alw /\ q[i] = alw[i]
    BY <1>11, <1>15, <1>z DEF OfTypes
  <2>2. ~(i \in DOMAIN al /\ alw[i] = al[i])
    <3>1. SUFFICES ASSUME i \in DOMAIN al, alw[i] = al[i] PROVE FALSE
      OBVIOUS
    <3>2. al[i].type \in FrontTypes \/ al[i].type = "Lineage"
      BY <1>3, <1>a, <1>l, <3>1 DEF OfTypes
    <3> QED
      BY <1>15, <2>1, <3>1, <3>2 DEF FrontTypes
  <2> QED
    BY <1>7, <2>1, <2>2
<1>16. AttemptsLeft(s, q, m)
  <2>1. s.attempts = {}
    BY <1>n
  <2>2. \A x \in m.attempts : InRecords(q, "AttemptBegin", x)
    BY <1>6, <1>10, <1>w
  <2>3. ASSUME NEW i \in DOMAIN q, NEW j \in DOMAIN q, q[i].type = "AttemptBegin",
               q[j].type = "AttemptBegin", q[i].arg = q[j].arg
        PROVE  i = j
    <3>1. i - Len(al) = j - Len(al)
      BY <1>15, <1>w, <2>3
    <3> QED
      BY <1>4, <1>13, <3>1
  <2> QED
    BY <2>1, <2>2, <2>3 DEF AttemptsLeft
<1>17. LineagesLeft(s, q, m, -Len(a))
  <2>1. s.lineages = <<>> /\ Len(s.lineages) = 0
    BY <1>n
  <2>2. ASSUME NEW i \in DOMAIN q, q[i].type = "Lineage"
        PROVE  i + (-Len(a)) \in 1..Len(m.lineages) /\ q[i].arg = m.lineages[i + (-Len(a))]
    <3>1. i \in DOMAIN alw /\ q[i] = alw[i]
      BY <1>11, <1>z, <2>2 DEF OfTypes
    <3>2. i \in DOMAIN al /\ q[i] = al[i]
      BY <1>7, <1>w, <2>2, <3>1 DEF OfTypes
    <3>3. i - Len(a) \in DOMAIN l /\ q[i] = l[i - Len(a)]
      BY <1>3, <1>a, <2>2, <3>2 DEF OfTypes, FrontTypes
    <3>4. i + (-Len(a)) = i - Len(a)
      BY <1>4, <1>13
    <3> QED
      BY <1>l, <3>3, <3>4
  <2>3. ASSUME NEW j \in 1..Len(m.lineages)
        PROVE  j - (-Len(a)) \in DOMAIN q /\ q[j - (-Len(a))].type = "Lineage"
    <3>1. j - (-Len(a)) = j + Len(a)
      BY <1>4, <1>m
    <3>2. j + Len(a) \in DOMAIN q /\ q[j + Len(a)] = l[j]
      BY <1>4, <1>8, <1>12
    <3> QED
      BY <1>l, <3>1, <3>2 DEF OfTypes
  <2> QED
    BY <1>m, <2>1, <2>2, <2>3 DEF LineagesLeft
<1>18. -Len(a) \in Int
  BY <1>4
<1> QED
  BY <1>9, <1>14, <1>16, <1>17, <1>18, <1>q DEF Rebuilds

-----------------------------------------------------------------------------
(* The steps of the store *)

\* An operation under way: its record is written, and the memory will change as replaying
\* the record changes it.
Writing ==
    /\ proc \in {"opened", "epoch", "up"}
    /\ \E r : \E after \in State, next \in ProcStates :
          RecordOK(r) /\ AsReplayed(r, after) /\ Write(r, after, next)

LEMMA WritingIntro ==
    ASSUME NEW r, RecordOK(r), NEW after \in State, NEW next \in ProcStates,
           AsReplayed(r, after), Write(r, after, next), proc \in {"opened", "epoch", "up"}
    PROVE  Writing
  BY Zenon DEF Writing

LEMMA StoreCases ==
    ASSUME TypeInv, Next
    PROVE  \/ Create \/ WriteHeader \/ Open \/ OpenFails \/ Crash
           \/ SyncOk \/ SyncFails \/ ShortWrite
           \/ Writing \/ (\E l \in Lineages : RecordLineage(l)) \/ Sync
           \/ Compact \/ RewriteRecord \/ Rename \/ RewriteFails \/ RivalOpen
<1>0. mem \in State /\ mem.epoch \in Nat /\ boots \in Nat /\ mem \in StateForms
      /\ {"up", "epoch"} \subseteq ProcStates
  BY StateFields, StoreAssumption DEF TypeInv, StoreTypeOK, ProcStates
<1>1. EstablishEpoch => Writing
  <2> SUFFICES ASSUME EstablishEpoch PROVE Writing
    OBVIOUS
  <2> DEFINE next == IF mem.epoch = 0 THEN 1 ELSE mem.epoch + 1
             r == [type |-> "Epoch", arg |-> next]
             after == [mem EXCEPT !.epoch = next]
  <2>1. next \in Nat /\ proc = "opened" /\ Write(r, after, "epoch")
    BY <1>0 DEF EstablishEpoch
  <2> HIDE DEF next
  <2>2. RecordOK(r) /\ after \in State
    BY <1>0, <2>1, StateExcept DEF RecordOK
  <2>3. AsReplayed(r, after)
    BY DEF AsReplayed, Rejects, Replayed
  <2> HIDE DEF r, after
  <2> QED
    BY <1>0, <2>1, <2>2, <2>3, WritingIntro
<1>2. RecordBoot => Writing
  <2> SUFFICES ASSUME RecordBoot PROVE Writing
    OBVIOUS
  <2> DEFINE r == [type |-> "Boot", arg |-> boots]
             after == [mem EXCEPT !.boot = boots]
  <2>1. proc = "epoch" /\ Write(r, after, "up")
    BY DEF RecordBoot
  <2>2. RecordOK(r) /\ after \in State
    BY <1>0, StateExcept DEF RecordOK
  <2>3. AsReplayed(r, after)
    BY DEF AsReplayed, Rejects, Replayed
  <2> HIDE DEF r, after
  <2> QED
    BY <1>0, <2>1, <2>2, <2>3, WritingIntro
<1>3. Ordinary => Writing
  <2> SUFFICES ASSUME Ordinary PROVE Writing
    OBVIOUS
  <2>0. PICK r : \E after \in State : OrdinaryRecord(r, after) /\ Write(r, after, "up")
    BY Zenon DEF Ordinary
  <2>1. PICK after \in State : OrdinaryRecord(r, after) /\ Write(r, after, "up")
    BY <2>0
  <2>2. RecordOK(r) /\ AsReplayed(r, after) /\ proc = "up"
    BY <2>1 DEF OrdinaryRecord, Ordinary
  <2> QED
    BY <1>0, <2>1, <2>2, WritingIntro
<1> QED
  BY <1>1, <1>2, <1>3, ServeCases, Zenon DEF Next

\* An append adds its outcome to what a crash may leave.
LEMMA JournalledEnd ==
    ASSUME StoreTypeOK, NEW r, Journalled(r), disk' = disk
    PROVE  /\ End' = ApplyRecord(End, r)
           /\ \A o \in CrashOutcomes' : o \in CrashOutcomes \/ o = ApplyRecord(End, r)
           /\ Len(tail') = Len(tail) + 1 /\ Len(tail) \in Nat
           /\ \A i \in DOMAIN tail' : (i \in DOMAIN tail /\ tail'[i] = tail[i])
                                      \/ (i = Len(tail') /\ tail'[i] = ApplyRecord(End, r))
<1> DEFINE x == ApplyRecord(End, r)
<1>1. tail \in Seq(Outcome) /\ tail' = Append(tail, x)
  BY DEF StoreTypeOK, Journalled
<1> HIDE DEF x
<1>2. /\ Len(tail') = Len(tail) + 1 /\ Len(tail) \in Nat /\ tail' # <<>>
      /\ tail'[Len(tail')] = x
      /\ \A i \in DOMAIN tail' : (i \in DOMAIN tail /\ tail'[i] = tail[i])
                                 \/ (i = Len(tail') /\ tail'[i] = x)
  BY <1>1
<1>3. End' = x
  BY <1>2 DEF End
<1>4. \A o \in CrashOutcomes' : o \in CrashOutcomes \/ o = x
  BY <1>2 DEF CrashOutcomes, Range
<1> QED
  BY <1>2, <1>3, <1>4 DEF x

LEMMA EndIsOutcome ==
    ASSUME StoreTypeOK
    PROVE  End \in CrashOutcomes /\ disk \in CrashOutcomes
           /\ \A i \in DOMAIN tail : tail[i] \in CrashOutcomes
<1>1. tail # <<>> => Len(tail) \in DOMAIN tail
  BY DEF StoreTypeOK
<1> QED
  BY <1>1 DEF End, CrashOutcomes, Range

\* With an empty tail the synced records are the file.
LEMMA SyncedEnd ==
    ASSUME tail' = <<>>
    PROVE  End' = disk' /\ CrashOutcomes' = {disk'}
  BY DEF End, CrashOutcomes, Range

LEMMA SameEnd ==
    ASSUME UNCHANGED <<disk, tail>>
    PROVE  End' = End /\ CrashOutcomes' = CrashOutcomes
  BY DEF End, CrashOutcomes

LEMMA StoreFacts ==
    ASSUME TypeInv
    PROVE  /\ StoreTypeOK /\ mem \in State /\ pending.after \in State /\ temp.outcome \in Outcome
           /\ temp.outcome.state \in State /\ disk \in Outcome /\ End \in Outcome
           /\ End.state \in State /\ disk.state \in State /\ rest \in Seq(Body)
           /\ \A o \in CrashOutcomes : o \in Outcome /\ o.state \in State
  BY EndType DEF TypeInv, StoreTypeOK, Outcome

LEMMA LineageRecord ==
    ASSUME NEW s \in State, NEW l \in Lineages
    PROVE  /\ RecordOK([type |-> "Lineage", arg |-> l])
           /\ \A t : ~Rejects(t, [type |-> "Lineage", arg |-> l])
           /\ Replayed(s, [type |-> "Lineage", arg |-> l])
                = [s EXCEPT !.lineages = RememberLineage(@, l)]
  BY DEF RecordOK, Rejects, Replayed

LEMMA GoodStep ==
    ASSUME TypeInv, GoodStates, Next
    PROVE  GoodStates'
<1>0. /\ StoreTypeOK /\ mem \in State /\ End \in Outcome /\ temp.outcome \in Outcome
      /\ rest \in Seq(Body) /\ disk \in Outcome
  BY StoreFacts
<1>g. /\ Good(mem) /\ Good(pending.after) /\ Good(temp.outcome.state)
      /\ \A o \in CrashOutcomes : Good(o.state)
  BY DEF GoodStates
<1>e. End \in CrashOutcomes /\ disk \in CrashOutcomes /\ Good(End.state) /\ Good(disk.state)
  BY <1>0, <1>g, EndIsOutcome
<1>n. Good(Fresh) /\ Good(NoTemp.outcome.state) /\ Good(NoWrite.after)
  BY FreshGood DEF NoTemp, EmptyJournal, NoWrite
<1>1. CASE Create \/ WriteHeader \/ OpenFails \/ SyncFails \/ RewriteFails \/ RivalOpen
  <2>1. /\ UNCHANGED <<disk, tail, mem>> /\ pending' \in {pending, NoWrite}
        /\ temp' \in {temp, NoTemp}
    BY <1>1 DEF Create, WriteHeader, OpenFails, SyncFails, RewriteFails, RivalOpen, procVars,
                fileVars
  <2> QED
    BY <1>g, <1>n, <2>1, SameEnd DEF GoodStates
<1>2. CASE Open
  <2>1. disk'.state = disk.state /\ mem' = disk.state /\ temp' = NoTemp
        /\ UNCHANGED <<tail, pending>>
    BY <1>0, <1>2 DEF Open, Outcome
  <2>2. \A o \in CrashOutcomes' : o = disk' \/ o \in CrashOutcomes
    BY <2>1 DEF CrashOutcomes
  <2> QED
    BY <1>e, <1>g, <1>n, <2>1, <2>2 DEF GoodStates
<1>3. CASE Crash
  <2>1. CrashOutcomes' = {disk'} /\ disk' \in CrashOutcomes
    BY <1>3, SyncedEnd DEF Crash
  <2> QED
    BY <1>3, <1>g, <1>n, <2>1 DEF Crash, GoodStates
<1>4. CASE SyncOk \/ Sync
  <2>1. CrashOutcomes' = {End}
    BY <1>4, SyncedEnd DEF SyncOk, Sync
  <2>2. mem' \in {mem, pending.after} /\ pending' \in {pending, NoWrite} /\ temp' = temp
    BY <1>4 DEF SyncOk, Sync, procVars
  <2> QED
    BY <1>e, <1>g, <1>n, <2>1, <2>2 DEF GoodStates
<1>5. CASE ShortWrite
  <2>1. /\ tail' = Append(tail, [End EXCEPT !.torn = TRUE]) /\ tail \in Seq(Outcome)
        /\ UNCHANGED <<disk, temp, mem, pending>>
    BY <1>0, <1>5 DEF ShortWrite, procVars, StoreTypeOK
  <2>2. [End EXCEPT !.torn = TRUE].state = End.state
    BY <1>0 DEF Outcome
  <2>3. \A i \in DOMAIN tail' : (i \in DOMAIN tail /\ tail'[i] = tail[i])
                                \/ tail'[i] = [End EXCEPT !.torn = TRUE]
    BY <2>1
  <2>4. \A o \in CrashOutcomes' : o \in CrashOutcomes \/ o = [End EXCEPT !.torn = TRUE]
    BY <2>1, <2>3 DEF CrashOutcomes, Range
  <2> QED
    BY <1>e, <1>g, <2>1, <2>2, <2>4 DEF GoodStates
<1>6. CASE Writing
  <2>0. PICK r : \E after \in State, next \in ProcStates :
                    RecordOK(r) /\ AsReplayed(r, after) /\ Write(r, after, next)
    BY <1>6, Zenon DEF Writing
  <2>1. PICK after \in State, next \in ProcStates :
                    RecordOK(r) /\ AsReplayed(r, after) /\ Write(r, after, next)
    BY <2>0
  <2>2. Good(after)
    BY <1>0, <1>g, <2>1, ReplayedGood DEF AsReplayed
  <2>3. /\ Journalled(r) /\ disk' = disk /\ mem' = mem /\ temp' = temp /\ pending'.after = after
    BY <2>1 DEF Write
  <2>4. Good(ApplyRecord(End, r).state)
    BY <1>0, <1>e, <2>1, ApplyGood
  <2>5. \A o \in CrashOutcomes' : o \in CrashOutcomes \/ o = ApplyRecord(End, r)
    BY <1>0, <2>3, JournalledEnd
  <2> QED
    BY <1>g, <2>2, <2>3, <2>4, <2>5 DEF GoodStates
<1>7. ASSUME NEW l \in Lineages, RecordLineage(l) PROVE GoodStates'
  <2> DEFINE r == [type |-> "Lineage", arg |-> l]
  <2>1. RecordOK(r) /\ ~Rejects(mem, r)
        /\ Replayed(mem, r) = [mem EXCEPT !.lineages = RememberLineage(@, l)]
    BY <1>0, LineageRecord
  <2>2. /\ Journalled(r) /\ disk' = disk /\ temp' = temp /\ pending' = pending
        /\ mem' = [mem EXCEPT !.lineages = RememberLineage(@, l)]
    BY <1>7 DEF RecordLineage
  <2> HIDE DEF r
  <2>3. Good(mem')
    BY <1>0, <1>g, <2>1, <2>2, ReplayedGood
  <2>4. Good(ApplyRecord(End, r).state)
    BY <1>0, <1>e, <2>1, ApplyGood
  <2>5. \A o \in CrashOutcomes' : o \in CrashOutcomes \/ o = ApplyRecord(End, r)
    BY <1>0, <2>2, JournalledEnd
  <2> QED
    BY <1>g, <2>2, <2>3, <2>4, <2>5 DEF GoodStates
<1>8. CASE Compact
  <2> DEFINE r == [type |-> "Epoch", arg |-> mem.epoch]
  <2>1. RecordOK(r) /\ EmptyJournal \in Outcome /\ EmptyJournal.state = Fresh
    BY <1>0, StateFields, EmptyJournalType DEF RecordOK, EmptyJournal
  <2>2. /\ UNCHANGED <<disk, tail, mem, pending>>
        /\ temp'.outcome = ApplyRecord(EmptyJournal, r)
    BY <1>8 DEF Compact, StartRewrite
  <2> HIDE DEF r
  <2>3. Good(temp'.outcome.state)
    BY <1>n, <2>1, <2>2, ApplyGood
  <2> QED
    BY <1>g, <2>2, <2>3, SameEnd DEF GoodStates
<1>9. CASE RewriteRecord
  <2>1. Head(rest) \in Body /\ RecordOK(Head(rest))
    BY <1>0, <1>9, TailFacts, BodyRecords DEF RewriteRecord
  <2>2. /\ UNCHANGED <<disk, tail, mem, pending>>
        /\ temp'.outcome = ApplyRecord(temp.outcome, Head(rest))
    BY <1>0, <1>9 DEF RewriteRecord, StoreTypeOK
  <2>3. Good(temp'.outcome.state)
    BY <1>0, <1>g, <2>1, <2>2, ApplyGood
  <2> QED
    BY <1>g, <2>2, <2>3, SameEnd DEF GoodStates
<1>10. CASE Rename
  <2>1. CrashOutcomes' = {temp.outcome}
    BY <1>10, SyncedEnd DEF Rename
  <2>2. temp' = NoTemp /\ UNCHANGED <<mem, pending>>
    BY <1>10 DEF Rename
  <2> QED
    BY <1>g, <1>n, <2>1, <2>2 DEF GoodStates
<1> QED
  BY <1>1, <1>2, <1>3, <1>4, <1>5, <1>6, <1>7, <1>8, <1>9, <1>10, StoreCases, Zenon

LEMMA CompactionStep ==
    ASSUME TypeInv, EpochsKept, GoodStates, CompactionKept, Next
    PROVE  CompactionKept'
<1>0. /\ StoreTypeOK /\ mem \in State /\ temp.outcome \in Outcome /\ temp.outcome.state \in State
      /\ rest \in Seq(Body)
  BY StoreFacts
<1>1. CASE Create \/ WriteHeader \/ Open \/ Crash \/ Rename \/ RewriteFails
  <2>1. proc' # "compact"
    BY <1>1 DEF Create, WriteHeader, Open, Crash, Rename, RewriteFails
  <2> QED
    BY <2>1 DEF CompactionKept
<1>2. CASE OpenFails \/ SyncFails \/ ShortWrite \/ Writing \/ Sync
           \/ (\E l \in Lineages : RecordLineage(l))
  <2>1. proc' = proc /\ proc # "compact"
    <3>1. Writing => proc' = proc /\ proc # "compact"
      BY DEF Writing, Write
    <3> QED
      BY <1>2, <3>1 DEF OpenFails, SyncFails, ShortWrite, Sync, RecordLineage, Up, procVars
  <2> QED
    BY <2>1 DEF CompactionKept
<1>3. CASE SyncOk
  <2>1. pending.on /\ proc \in {"opened", "epoch", "up"}
    BY <1>3 DEF SyncOk, EpochsKept, TypeInv, StoreTypeOK, ProcStates
  <2>2. proc' # "compact"
    BY <1>3, <2>1 DEF SyncOk, EpochsKept
  <2> QED
    BY <2>2 DEF CompactionKept
<1>4. CASE RivalOpen
  BY <1>4 DEF RivalOpen, NoTemp, CompactionKept
<1>5. CASE Compact
  <2> DEFINE r == [type |-> "Epoch", arg |-> mem.epoch]
             o == ApplyRecord(EmptyJournal, r)
  <2>1. /\ temp'.outcome = o /\ rest' = CompactedBody(mem) /\ mem' = mem
    BY <1>5 DEF Compact, StartRewrite
  <2>2. /\ RecordOK(r) /\ ~Rejects(Fresh, r) /\ EmptyJournal \in Outcome
        /\ r.type = "Epoch" /\ r.arg = mem.epoch
    BY <1>0, StateFields, EmptyJournalType DEF RecordOK, Rejects
  <2> HIDE DEF r
  <2>3. EmptyJournal.ok /\ ~EmptyJournal.torn /\ EmptyJournal.state = Fresh
    BY DEF EmptyJournal
  <2>4. o.ok /\ ~o.torn /\ o.state = Replayed(Fresh, r)
    BY <2>2, <2>3, ApplyCases
  <2>5. Replayed(Fresh, r) \in State
    BY <2>2, FreshType, ReplayedType
  <2> DEFINE s == Replayed(Fresh, r)
  <2>6. /\ s.epoch = mem.epoch /\ s.boot = Fresh.boot /\ s.policy = Fresh.policy
        /\ s.topology = Fresh.topology /\ s.fences = Fresh.fences
        /\ s.lineages = Fresh.lineages /\ s.revalidation = Fresh.revalidation
        /\ s.attempts = Fresh.attempts
    BY <2>2, FreshType, ReplayedEpoch, ReplayedFields
  <2> HIDE DEF s
  <2>7. Good(mem) /\ s \in State
    BY <2>5 DEF GoodStates, s
  <2>8. Rebuilds(s, CompactedBody(mem), mem)
    BY <1>0, <2>6, <2>7, RebuildsStart
  <2> QED
    BY <2>1, <2>4, <2>8 DEF CompactionKept, s
<1>6. CASE RewriteRecord
  <2> DEFINE r == Head(rest)
             s == temp.outcome.state
  <2>0. SUFFICES ASSUME temp'.there
                 PROVE  temp'.outcome.ok /\ ~temp'.outcome.torn
                        /\ Rebuilds(temp'.outcome.state, rest', mem')
    BY DEF CompactionKept
  <2>1. /\ rest # <<>> /\ rest' = Tail(rest) /\ mem' = mem /\ proc = "compact"
        /\ temp'.outcome = ApplyRecord(temp.outcome, r) /\ temp'.there = temp.there
    BY <1>0, <1>6 DEF RewriteRecord, StoreTypeOK
  <2>2. temp.outcome.ok /\ ~temp.outcome.torn /\ Rebuilds(s, rest, mem)
    BY <2>0, <2>1 DEF CompactionKept
  <2>3. RecordOK(r)
    BY <1>0, <2>1, TailFacts, BodyRecords
  <2>4. Good(mem)
    BY DEF GoodStates
  <2>5. ~Rejects(s, r) /\ Rebuilds(Replayed(s, r), Tail(rest), mem)
    BY <1>0, <2>1, <2>2, <2>4, RebuildsAccepts, RebuildsStep
  <2>6. LET o == ApplyRecord(temp.outcome, r) IN o.ok /\ ~o.torn /\ o.state = Replayed(s, r)
    BY <1>0, <2>2, <2>3, <2>5, ApplyCases
  <2> QED
    BY <2>1, <2>5, <2>6
<1> QED
  BY <1>1, <1>2, <1>3, <1>4, <1>5, <1>6, StoreCases, Zenon

\* The file a compaction renames over the journal holds the memory.
LEMMA RenamedIsMemory ==
    ASSUME TypeInv, CompactionKept, Rename
    PROVE  temp.outcome.ok /\ ~temp.outcome.torn /\ temp.outcome.state = mem
<1>1. mem \in State /\ temp.outcome.state \in State
  BY StoreFacts
<1>2. temp.outcome.ok /\ ~temp.outcome.torn /\ Rebuilds(temp.outcome.state, <<>>, mem)
  BY DEF CompactionKept, Rename
<1> QED
  BY <1>1, <1>2, RebuildsDone

LEMMA StartStep ==
    ASSUME TypeInv, EpochsKept, StartKept, Next
    PROVE  StartKept'
<1>0. /\ proc \in {"down", "created"} => mem = Fresh /\ ~pending.on
      /\ header # "written" => acked = Fresh /\ proc \in {"down", "created"}
      /\ header = "empty" => proc = "created" \/ "create" \in damage
      /\ proc = "created" => header = "empty"
      /\ proc = "opened" /\ pending.on => pending.next = "epoch"
      /\ proc \in {"epoch", "up"} /\ pending.on => pending.next = "up"
      /\ proc = "compact" => ~pending.on
      /\ proc \in ProcStates
  BY DEF StartKept, EpochsKept, TypeInv, StoreTypeOK
<1>1. CASE Create
  BY <1>0, <1>1 DEF Create, StartKept
<1>2. CASE WriteHeader \/ Open
  BY <1>0, <1>2 DEF WriteHeader, Open, StartKept, histVars
<1>3. CASE OpenFails
  BY <1>0, <1>3 DEF OpenFails, StartKept, procVars
<1>4. CASE Crash
  BY <1>0, <1>4 DEF Crash, StartKept
<1>5. CASE SyncOk
  <2>1. proc \in {"opened", "epoch", "up"} /\ header = "written"
    BY <1>0, <1>5 DEF SyncOk, ProcStates
  <2>2. proc' \in {"epoch", "up"} /\ header' = "written"
    BY <1>0, <1>5, <2>1 DEF SyncOk
  <2> QED
    BY <2>2 DEF StartKept
<1>6. CASE SyncFails \/ ShortWrite \/ Writing \/ (\E l \in Lineages : RecordLineage(l)) \/ Sync
           \/ Compact \/ RewriteRecord \/ Rename \/ RewriteFails
  <2>1. Writing => proc \notin {"down", "created"} /\ UNCHANGED <<proc, header>>
    BY DEF Writing, Write
  <2>2. proc \notin {"down", "created"} /\ proc' \notin {"down", "created"} /\ header' = header
    BY <1>6, <2>1 DEF SyncFails, ShortWrite, RecordLineage, Sync, Compact, StartRewrite,
                      RewriteRecord, Rename, RewriteFails, Up, procVars, fileVars
  <2> QED
    BY <1>0, <2>2 DEF StartKept
<1>7. CASE RivalOpen
  BY <1>0, <1>7 DEF RivalOpen, StartKept, procVars, histVars
<1> QED
  BY <1>1, <1>2, <1>3, <1>4, <1>5, <1>6, <1>7, StoreCases, Zenon

LEMMA ReplayStep ==
    ASSUME TypeInv, EpochsKept, CompactionKept, StartKept, ReplayKept, Next
    PROVE  ReplayKept'
<1>0. /\ StoreTypeOK /\ mem \in State /\ End \in Outcome /\ disk \in Outcome
      /\ End.state \in State
  BY StoreFacts
<1>d. damage \subseteq damage'
  <2>1. Writing => damage' = damage
    BY DEF Writing, Write, histVars
  <2>2. (\E l \in Lineages : RecordLineage(l)) => damage' = damage
    BY DEF RecordLineage, histVars
  <2>3. Create \/ WriteHeader \/ Open \/ OpenFails \/ Crash \/ SyncOk \/ SyncFails \/ ShortWrite
        \/ Sync \/ Compact \/ RewriteRecord \/ Rename \/ RewriteFails \/ RivalOpen
           => damage \subseteq damage'
    BY DEF Create, WriteHeader, Open, OpenFails, Crash, SyncOk, SyncFails, ShortWrite, Sync,
           Compact, StartRewrite, RewriteRecord, Rename, RewriteFails, RivalOpen, histVars
  <2> QED
    BY <2>1, <2>2, <2>3, StoreCases, Zenon
<1> SUFFICES ASSUME FencesFit, "sync" \notin damage'
             PROVE  /\ \A o \in CrashOutcomes' : o.ok
                    /\ Running' => End'.torn \/ End'.state = Target'
  BY DEF ReplayKept
<1>h. /\ \A o \in CrashOutcomes : o.ok
      /\ Running => End.torn \/ End.state = Target
  BY <1>d DEF ReplayKept
<1>e. End \in CrashOutcomes /\ End.ok /\ disk \in CrashOutcomes /\ disk.ok
  BY <1>0, <1>h, EndIsOutcome
<1>p. /\ proc \in {"down", "created"} => ~pending.on /\ tail = <<>> /\ mem = Fresh
      /\ proc = "created" => disk = EmptyJournal
      /\ proc = "compact" => ~pending.on
      /\ proc \in ProcStates
  BY DEF EpochsKept, StartKept, TypeInv, StoreTypeOK
<1>1. CASE Create \/ OpenFails \/ RewriteFails \/ RivalOpen \/ Compact \/ RewriteRecord
  <2>1. UNCHANGED <<disk, tail, pending, mem>> /\ (Running' => Running)
    BY <1>1 DEF Create, OpenFails, RewriteFails, RivalOpen, Compact, StartRewrite,
                RewriteRecord, Running, Up, procVars
  <2> QED
    BY <1>h, <2>1, SameEnd DEF Target
<1>2. CASE WriteHeader
  <2>1. UNCHANGED <<disk, tail, pending, mem>> /\ proc = "created"
    BY <1>2 DEF WriteHeader
  <2>2. End' = EmptyJournal /\ mem' = Fresh /\ ~pending'.on
    BY <1>p, <2>1 DEF End
  <2> QED
    BY <1>h, <2>1, <2>2, SameEnd DEF Target, EmptyJournal
<1>3. CASE Open
  <2>1. /\ tail' = <<>> /\ mem' = disk.state /\ ~pending'.on
    BY <1>3, <1>p DEF Open
  <2>2. disk'.ok /\ disk'.state = disk.state
    <3>1. disk' = [disk EXCEPT !.torn = FALSE]
      BY <1>3 DEF Open
    <3>2. disk'.ok = disk.ok
      BY <1>0, <3>1, Zenon DEF Outcome
    <3>3. disk'.state = disk.state
      BY <1>0, <3>1 DEF Outcome
    <3> QED
      BY <1>e, <3>2, <3>3, Zenon
  <2>3. End' = disk' /\ CrashOutcomes' = {disk'}
    BY <2>1, SyncedEnd
  <2> QED
    BY <2>1, <2>2, <2>3 DEF Target
<1>4. CASE Crash
  <2>1. CrashOutcomes' = {disk'} /\ disk' \in CrashOutcomes /\ proc' = "down"
    BY <1>4, SyncedEnd DEF Crash
  <2> QED
    BY <1>h, <2>1 DEF Running
<1>5. CASE SyncOk
  <2>1. End' = End /\ CrashOutcomes' = {End} /\ pending.on /\ Target' = pending.after
    BY <1>5, SyncedEnd DEF SyncOk, Target, NoWrite
  <2>2. Running /\ Target = pending.after
    BY <1>p, <2>1 DEF Running, Target, ProcStates
  <2> QED
    BY <1>e, <1>h, <2>1, <2>2
<1>6. CASE Sync
  <2>1. End' = End /\ CrashOutcomes' = {End} /\ Target' = Target /\ Running
    BY <1>6, SyncedEnd DEF Sync, Target, procVars, Running, Up
  <2> QED
    BY <1>e, <1>h, <2>1
<1>7. CASE SyncFails
  BY <1>7 DEF SyncFails
<1>8. CASE ShortWrite
  <2> DEFINE x == [End EXCEPT !.torn = TRUE]
  <2>1. tail' = Append(tail, x) /\ tail \in Seq(Outcome) /\ disk' = disk
    BY <1>0, <1>8 DEF ShortWrite, StoreTypeOK
  <2>2. x.ok = End.ok /\ x.torn = TRUE
    BY <1>0, Zenon DEF Outcome
  <2> HIDE DEF x
  <2>3. \A i \in DOMAIN tail' : (i \in DOMAIN tail /\ tail'[i] = tail[i]) \/ tail'[i] = x
    BY <2>1
  <2>4. \A o \in CrashOutcomes' : o \in CrashOutcomes \/ o = x
    BY <2>1, <2>3 DEF CrashOutcomes, Range
  <2>5. End' = x
    BY <2>1 DEF End
  <2>6. x.ok /\ x.torn
    BY <1>e, <2>2, Zenon
  <2> QED
    BY <1>h, <2>4, <2>5, <2>6
<1>9. CASE Writing
  <2>0. PICK r : \E after \in State, next \in ProcStates :
                    RecordOK(r) /\ AsReplayed(r, after) /\ Write(r, after, next)
    BY <1>9, Zenon DEF Writing
  <2>1. PICK after \in State, next \in ProcStates :
                    RecordOK(r) /\ AsReplayed(r, after) /\ Write(r, after, next)
    BY <2>0
  <2>2. /\ Journalled(r) /\ disk' = disk /\ ~pending.on /\ pending'.on /\ pending'.after = after
        /\ Running
    BY <1>9, <2>1 DEF Write, CanAppend, Writing, Running
  <2>3. ~Rejects(mem, r) /\ after = Replayed(mem, r)
    BY <2>1 DEF AsReplayed
  <2>4. /\ End' = ApplyRecord(End, r)
        /\ \A o \in CrashOutcomes' : o \in CrashOutcomes \/ o = ApplyRecord(End, r)
    BY <1>0, <2>2, JournalledEnd
  <2>5. CASE End.torn
    BY <1>0, <1>e, <1>h, <2>1, <2>4, <2>5, ApplyCases
  <2>6. CASE ~End.torn
    <3>1. End.state = mem
      BY <1>h, <2>2, <2>6 DEF Target
    <3>2. ApplyRecord(End, r).ok /\ ApplyRecord(End, r).state = after
      BY <1>0, <1>e, <2>1, <2>3, <2>6, <3>1, ApplyCases
    <3> QED
      BY <1>h, <2>2, <2>4, <3>2 DEF Target
  <2> QED
    BY <2>5, <2>6
<1>10. ASSUME NEW l \in Lineages, RecordLineage(l)
       PROVE  /\ \A o \in CrashOutcomes' : o.ok
              /\ Running' => End'.torn \/ End'.state = Target'
  <2> DEFINE r == [type |-> "Lineage", arg |-> l]
  <2>1. RecordOK(r) /\ ~Rejects(mem, r)
        /\ Replayed(mem, r) = [mem EXCEPT !.lineages = RememberLineage(@, l)]
    BY <1>0, LineageRecord
  <2>2. /\ Journalled(r) /\ disk' = disk /\ pending' = pending /\ ~pending.on /\ Running
        /\ mem' = [mem EXCEPT !.lineages = RememberLineage(@, l)]
    BY <1>10 DEF RecordLineage, CanAppend, Running, Up
  <2> HIDE DEF r
  <2>4. /\ End' = ApplyRecord(End, r)
        /\ \A o \in CrashOutcomes' : o \in CrashOutcomes \/ o = ApplyRecord(End, r)
    BY <1>0, <2>2, JournalledEnd
  <2>5. CASE End.torn
    BY <1>0, <1>e, <1>h, <2>1, <2>4, <2>5, ApplyCases
  <2>6. CASE ~End.torn
    <3>1. End.state = mem
      BY <1>h, <2>2, <2>6 DEF Target
    <3>2. ApplyRecord(End, r).ok /\ ApplyRecord(End, r).state = mem'
      BY <1>0, <1>e, <2>1, <2>2, <2>6, <3>1, ApplyCases
    <3> QED
      BY <1>h, <2>2, <2>4, <3>2 DEF Target
  <2> QED
    BY <2>5, <2>6
<1>11. CASE Rename
  <2>1. End' = temp.outcome /\ CrashOutcomes' = {temp.outcome} /\ UNCHANGED <<mem, pending>>
        /\ proc = "compact"
    BY <1>11, SyncedEnd DEF Rename
  <2>2. temp.outcome.ok /\ temp.outcome.state = mem
    BY <1>11, RenamedIsMemory
  <2> QED
    BY <1>p, <2>1, <2>2 DEF Target
<1> QED
  BY <1>1, <1>2, <1>3, <1>4, <1>5, <1>6, <1>7, <1>8, <1>9, <1>10, <1>11, StoreCases, Zenon

LEMMA DurableLineages ==
    ASSUME NEW s \in State, NEW ls
    PROVE  Durable([s EXCEPT !.lineages = ls]) = Durable(s)
<1>1. s \in StateForms
  BY StateFields
<1> QED
  BY <1>1 DEF Durable, StateForms

LEMMA AckedStep ==
    ASSUME TypeInv, EpochsKept, CompactionKept, StartKept, ReplayKept, AckedKept, Next
    PROVE  AckedKept'
<1>0. /\ StoreTypeOK /\ mem \in State /\ End \in Outcome /\ disk \in Outcome
      /\ End.state \in State /\ tail \in Seq(Outcome)
  BY StoreFacts DEF StoreTypeOK
<1>d. FileIntact' => FileIntact
  <2>1. Writing => damage' = damage
    BY DEF Writing, Write, histVars
  <2>2. (\E l \in Lineages : RecordLineage(l)) => damage' = damage
    BY DEF RecordLineage, histVars
  <2>3. Create \/ WriteHeader \/ Open \/ OpenFails \/ Crash \/ SyncOk \/ SyncFails \/ ShortWrite
        \/ Sync \/ Compact \/ RewriteRecord \/ Rename \/ RewriteFails \/ RivalOpen
           => damage \subseteq damage'
    BY DEF Create, WriteHeader, Open, OpenFails, Crash, SyncOk, SyncFails, ShortWrite, Sync,
           Compact, StartRewrite, RewriteRecord, Rename, RewriteFails, RivalOpen, histVars
  <2>4. damage \subseteq damage'
    BY <2>1, <2>2, <2>3, StoreCases, Zenon
  <2> QED
    BY <2>4 DEF FileIntact
<1> DEFINE Kept ==
             /\ \A o \in CrashOutcomes : ~o.torn
             /\ Running =>
                   /\ disk.state = acked /\ Durable(mem) = Durable(acked)
                   /\ \A i \in DOMAIN tail :
                         Durable(tail[i].state) = Durable(acked) \/ (pending.on /\ i = Len(tail))
<1> SUFFICES ASSUME FencesFit, FileIntact' PROVE Kept'
  BY DEF AckedKept
<1>h. /\ \A o \in CrashOutcomes : ~o.torn
      /\ Running =>
            /\ disk.state = acked /\ Durable(mem) = Durable(acked)
            /\ \A i \in DOMAIN tail :
                  Durable(tail[i].state) = Durable(acked) \/ (pending.on /\ i = Len(tail))
  BY <1>d DEF AckedKept
<1>r. Running => End.state = Target
  <2>1. "sync" \notin damage
    BY <1>d DEF FileIntact
  <2>2. ~End.torn
    BY <1>0, <1>h, EndIsOutcome
  <2> QED
    BY <2>1, <2>2 DEF ReplayKept
<1>o. \A o \in CrashOutcomes : o.ok
  BY <1>d DEF ReplayKept, FileIntact
<1>p. /\ proc \in {"down", "created"} => ~pending.on /\ tail = <<>> /\ mem = Fresh
      /\ proc = "created" => disk = EmptyJournal /\ acked = Fresh
      /\ proc = "compact" => ~pending.on
      /\ proc \in ProcStates
  BY DEF EpochsKept, StartKept, TypeInv, StoreTypeOK
<1>t. ASSUME tail' = <<>> PROVE CrashOutcomes' = {disk'} /\ DOMAIN tail' = {}
  BY <1>t, SyncedEnd
<1>1. CASE Create \/ OpenFails \/ RewriteFails \/ RivalOpen \/ Compact \/ RewriteRecord
  <2>1. UNCHANGED <<disk, tail, pending, mem, acked>> /\ (Running' => Running)
    BY <1>1 DEF Create, OpenFails, RewriteFails, RivalOpen, Compact, StartRewrite,
                RewriteRecord, Running, Up, procVars, histVars
  <2> QED
    BY <1>h, <2>1, SameEnd
<1>2. CASE WriteHeader
  <2>1. UNCHANGED <<disk, tail, pending, mem, acked>> /\ proc = "created"
    BY <1>2 DEF WriteHeader, histVars
  <2>2. disk' = EmptyJournal /\ acked' = Fresh /\ mem' = Fresh /\ tail' = <<>>
    BY <1>p, <2>1
  <2>3. EmptyJournal.state = Fresh
    BY DEF EmptyJournal
  <2> QED
    BY <1>h, <1>t, <2>1, <2>2, <2>3, SameEnd
<1>3. CASE Open
  <2>1. tail' = <<>> /\ mem' = disk.state /\ acked' = disk.state
        /\ disk' = [disk EXCEPT !.torn = FALSE]
    BY <1>3, <1>p DEF Open
  <2>2. disk'.state = disk.state
    BY <1>0, <2>1 DEF Outcome
  <2>3. disk'.torn = FALSE
    BY <1>0, <2>1, Zenon DEF Outcome
  <2> QED
    BY <1>t, <2>1, <2>2, <2>3
<1>4. CASE Crash
  <2>1. tail' = <<>> /\ disk' \in CrashOutcomes /\ proc' = "down"
    BY <1>4 DEF Crash
  <2> QED
    BY <1>h, <1>t, <2>1 DEF Running
<1>5. CASE SyncOk
  <2>1. tail' = <<>> /\ disk' = End /\ mem' = pending.after /\ acked' = pending.after
        /\ pending.on
    BY <1>5 DEF SyncOk
  <2>2. Running
    BY <1>p, <2>1 DEF Running, ProcStates
  <2>3. End.state = pending.after /\ ~End.torn
    BY <1>0, <1>h, <1>r, <2>1, <2>2, EndIsOutcome DEF Target
  <2> QED
    BY <1>t, <2>1, <2>3
<1>6. CASE Sync
  <2>1. tail' = <<>> /\ disk' = End /\ mem' = mem /\ acked' = mem /\ ~pending.on /\ Running
    BY <1>6 DEF Sync, procVars, Up, Running
  <2>2. End.state = mem /\ ~End.torn
    BY <1>0, <1>h, <1>r, <2>1, EndIsOutcome DEF Target
  <2> QED
    BY <1>t, <2>1, <2>2
<1>7. CASE SyncFails \/ ShortWrite
  BY <1>7 DEF SyncFails, ShortWrite, FileIntact
<1>9. CASE Writing
  <2>0. PICK r : \E after \in State, next \in ProcStates :
                    RecordOK(r) /\ AsReplayed(r, after) /\ Write(r, after, next)
    BY <1>9, Zenon DEF Writing
  <2>1. PICK after \in State, next \in ProcStates :
                    RecordOK(r) /\ AsReplayed(r, after) /\ Write(r, after, next)
    BY <2>0
  <2>2. /\ Journalled(r) /\ disk' = disk /\ ~pending.on /\ pending'.on
        /\ UNCHANGED <<mem, acked>> /\ Running
    BY <1>9, <2>1 DEF Write, CanAppend, Writing, Running, histVars
  <2>3. ~Rejects(mem, r)
    BY <2>1 DEF AsReplayed
  <2>4. /\ \A o \in CrashOutcomes' : o \in CrashOutcomes \/ o = ApplyRecord(End, r)
        /\ \A i \in DOMAIN tail' : (i \in DOMAIN tail /\ tail'[i] = tail[i]) \/ i = Len(tail')
    BY <1>0, <2>2, JournalledEnd
  <2>5. End.state = mem /\ ~End.torn /\ End.ok
    BY <1>0, <1>h, <1>o, <1>r, <2>2, EndIsOutcome DEF Target
  <2>6. ~ApplyRecord(End, r).torn
    BY <1>0, <2>1, <2>3, <2>5, ApplyCases
  <2> QED
    BY <1>h, <2>2, <2>4, <2>6
<1>10. ASSUME NEW l \in Lineages, RecordLineage(l) PROVE Kept'
  <2> DEFINE r == [type |-> "Lineage", arg |-> l]
  <2>1. RecordOK(r) /\ ~Rejects(mem, r)
        /\ Replayed(mem, r) = [mem EXCEPT !.lineages = RememberLineage(@, l)]
    BY <1>0, LineageRecord
  <2>2. /\ Journalled(r) /\ disk' = disk /\ pending' = pending /\ ~pending.on /\ Running
        /\ mem' = [mem EXCEPT !.lineages = RememberLineage(@, l)] /\ acked' = acked
    BY <1>10 DEF RecordLineage, CanAppend, Running, Up, histVars
  <2> HIDE DEF r
  <2>3. /\ \A o \in CrashOutcomes' : o \in CrashOutcomes \/ o = ApplyRecord(End, r)
        /\ \A i \in DOMAIN tail' : (i \in DOMAIN tail /\ tail'[i] = tail[i])
                                   \/ tail'[i] = ApplyRecord(End, r)
    BY <1>0, <2>2, JournalledEnd
  <2>4. End.state = mem /\ ~End.torn /\ End.ok
    BY <1>0, <1>h, <1>o, <1>r, <2>2, EndIsOutcome DEF Target
  <2>5. ~ApplyRecord(End, r).torn /\ ApplyRecord(End, r).state = mem'
    BY <1>0, <2>1, <2>2, <2>4, ApplyCases
  <2>6. Durable(mem') = Durable(acked)
    BY <1>0, <1>h, <2>2, DurableLineages
  <2> QED
    BY <1>h, <2>2, <2>3, <2>5, <2>6
<1>11. CASE Rename
  <2>1. tail' = <<>> /\ disk' = temp.outcome /\ mem' = mem /\ acked' = mem
    BY <1>11 DEF Rename
  <2>2. ~temp.outcome.torn /\ temp.outcome.state = mem
    BY <1>11, RenamedIsMemory
  <2> QED
    BY <1>t, <2>1, <2>2
<1> QED
  BY <1>1, <1>2, <1>3, <1>4, <1>5, <1>6, <1>7, <1>9, <1>10, <1>11, StoreCases, Zenon

LEMMA StoreKeptAlways == Spec => [](TypeInv /\ EpochsKept /\ StoreKept)
<1>1. Init => StoreKept
  <2> SUFFICES ASSUME Init PROVE StoreKept
    OBVIOUS
  <2>1. /\ disk = EmptyJournal /\ tail = <<>> /\ temp = NoTemp /\ mem = Fresh /\ acked = Fresh
        /\ pending = NoWrite /\ proc = "down" /\ header = "none"
    BY DEF Init
  <2>2. CrashOutcomes = {EmptyJournal}
    BY <2>1 DEF CrashOutcomes, Range
  <2>3. /\ EmptyJournal.ok /\ ~EmptyJournal.torn /\ EmptyJournal.state = Fresh
        /\ NoTemp.outcome = EmptyJournal /\ NoWrite.after = Fresh
    BY DEF EmptyJournal, NoTemp, NoWrite
  <2>4. GoodStates
    BY <2>1, <2>2, <2>3, FreshGood DEF GoodStates
  <2>5. CompactionKept /\ StartKept
    BY <2>1 DEF CompactionKept, StartKept
  <2>6. ReplayKept /\ AckedKept
    BY <2>1, <2>2, <2>3 DEF ReplayKept, AckedKept, Running
  <2> QED
    BY <2>4, <2>5, <2>6 DEF StoreKept
<1>2. TypeInv /\ EpochsKept /\ StoreKept /\ [Next]_vars => StoreKept'
  <2>1. TypeInv /\ EpochsKept /\ StoreKept /\ Next => StoreKept'
    BY GoodStep, CompactionStep, StartStep, ReplayStep, AckedStep DEF StoreKept
  <2>2. StoreKept /\ UNCHANGED vars => StoreKept'
    BY DEF StoreKept, GoodStates, CompactionKept, ReplayKept, AckedKept, StartKept, FileIntact,
           CrashOutcomes, End, Target, Running, vars, fileVars, procVars, histVars
  <2> QED
    BY <2>1, <2>2
<1> QED
  BY <1>1, <1>2, EpochsKeptAlways, PTL DEF Spec

\* Between two operations the memory of a running process is exactly what replaying its
\* journal would rebuild, for every store in which the fences that are put have room in
\* the table (see FencesFit), unless the file was damaged.
THEOREM MemoryIsRebuilt == FencesFit => (Spec => []MemoryIsReplay)
<1> SUFFICES ASSUME FencesFit PROVE Spec => []MemoryIsReplay
  OBVIOUS
<1>1. TypeInv /\ EpochsKept /\ StoreKept => MemoryIsReplay
  <2> SUFFICES ASSUME TypeInv, StoreKept, proc \in {"opened", "epoch", "up"}, ~pending.on,
                      FileIntact
               PROVE  End.ok /\ End.state = mem
    BY DEF MemoryIsReplay
  <2>1. End \in CrashOutcomes
    BY EndIsOutcome DEF TypeInv
  <2>2. End.ok /\ ~End.torn /\ (End.torn \/ End.state = Target)
    BY <2>1 DEF StoreKept, ReplayKept, AckedKept, FileIntact, Running
  <2> QED
    BY <2>2 DEF Target
<1> QED
  BY <1>1, StoreKeptAlways, PTL

\* Whenever the process dies, the next one finds everything that was acknowledged and
\* nothing more than the operation in progress, for every store in which the fences that
\* are put have room in the table, unless the file was damaged.
THEOREM AckedAlwaysSurvives == FencesFit => (Spec => []AckedSurvives)
<1> SUFFICES ASSUME FencesFit PROVE Spec => []AckedSurvives
  OBVIOUS
<1>1. TypeInv /\ EpochsKept /\ StoreKept => AckedSurvives
  <2> SUFFICES ASSUME TypeInv, StoreKept, proc \notin {"down", "created"}, FileIntact
               PROVE  /\ disk.state = acked
                      /\ \A o \in CrashOutcomes :
                            Durable(o.state) \in {Durable(acked)}
                               \cup (IF pending.on THEN {Durable(pending.after)} ELSE {})
    BY DEF AckedSurvives
  <2>1. Running /\ tail \in Seq(Outcome)
    BY DEF Running, TypeInv, StoreTypeOK, ProcStates
  <2>2. /\ disk.state = acked
        /\ \A i \in DOMAIN tail :
              Durable(tail[i].state) = Durable(acked) \/ (pending.on /\ i = Len(tail))
        /\ \A o \in CrashOutcomes : ~o.torn
    BY <2>1 DEF StoreKept, AckedKept
  <2>3. End.torn \/ End.state = Target
    BY <2>1 DEF StoreKept, ReplayKept, FileIntact
  <2>4. End \in CrashOutcomes
    BY EndIsOutcome DEF TypeInv
  <2>5. ASSUME NEW i \in DOMAIN tail, pending.on, i = Len(tail)
        PROVE  tail[i].state = pending.after
    <3>1. tail # <<>> /\ End = tail[i]
      BY <2>1, <2>5 DEF End
    <3> QED
      BY <2>2, <2>3, <2>4, <2>5, <3>1 DEF Target
  <2>6. ASSUME NEW o \in CrashOutcomes
        PROVE  Durable(o.state) = Durable(acked)
               \/ (pending.on /\ Durable(o.state) = Durable(pending.after))
    <3>1. o = disk \/ \E i \in DOMAIN tail : o = tail[i]
      BY DEF CrashOutcomes, Range
    <3> QED
      BY <2>2, <2>5, <3>1
  <2> QED
    BY <2>2, <2>6
<1> QED
  BY <1>1, StoreKeptAlways, PTL

\* Whenever the process dies, the directory it leaves can be opened again, for every store
\* in which the fences that are put have room in the table, unless it died while creating
\* the journal or a sync had failed; no record cut short, failed rewrite or second process
\* makes it unusable.
THEOREM AlwaysUsable == FencesFit => (Spec => []UsableAfterCrash)
<1> SUFFICES ASSUME FencesFit PROVE Spec => []UsableAfterCrash
  OBVIOUS
<1>1. TypeInv /\ EpochsKept /\ StoreKept => UsableAfterCrash
  BY DEF StoreKept, StartKept, ReplayKept, UsableAfterCrash
<1> QED
  BY <1>1, StoreKeptAlways, PTL

=============================================================================
