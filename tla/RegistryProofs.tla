--------------------------- MODULE RegistryProofs ---------------------------
(***************************************************************************)
(* Proofs about the module Registry, for every value of its constants and  *)
(* whatever faults occur.                                                  *)
(*                                                                         *)
(* Every step of the fabric is a step of its store or leaves the store     *)
(* alone (FabricRunsStore), so the theorems about the store hold of it.    *)
(* Members and store agree (LiveStateAlwaysDurable, from InStep), and no   *)
(* publish touches an attempt that a dead process left open                *)
(* (AmbiguityAlwaysKept, from Ambiguous).                                  *)
(*                                                                         *)
(* No effect goes unrecorded (NoEffectUnrecorded, from EffectsKept).  That *)
(* a lineage is on record has to be said of three things: of the memory,   *)
(* which a compaction writes over the journal; of the whole file, which    *)
(* the next sync makes durable; and of every part of the file a crash may  *)
(* leave, where the open attempt may stand in for it.                      *)
(***************************************************************************)
EXTENDS Registry, DurableStoreProofs

\* The members of Fabric, and what the proofs need to know of them.
LiveShape(v) ==
    v = [topology |-> v.topology, policy |-> v.policy, publishers |-> v.publishers,
         fences |-> v.fences, revalidation |-> v.revalidation, known |-> v.known,
         pressure |-> v.pressure, attempts |-> v.attempts, down |-> v.down]

LiveTypes(v) ==
    /\ LiveShape(v)
    /\ v.pressure \subseteq Sources \X Resources
    /\ v.attempts \in Nat

CallShape(c) ==
    c = [at |-> c.at, done |-> c.done, failed |-> c.failed, attempt |-> c.attempt,
         signals |-> c.signals, recorded |-> c.recorded, accepted |-> c.accepted]

Attempting == {"begin", "lineages", "commit", "abort"}

CallTypes(c) ==
    /\ CallShape(c)
    /\ c.at \in Calls
    /\ LiveTypes(c.done) /\ LiveTypes(c.failed)
    /\ c.signals \in Seq(Lineages) /\ c.recorded \in Nat /\ c.accepted \subseteq Lineages
    /\ c.at \in Attempting => c.attempt \in Attempts

RegTypes == LiveTypes(live) /\ CallTypes(call)

\* Members that differ only in what these leave alone keep their types.
LEMMA LiveExcept ==
    ASSUME NEW v, LiveTypes(v)
    PROVE  /\ \A x : LiveTypes([v EXCEPT !.topology = x])
           /\ \A x : LiveTypes([v EXCEPT !.policy = x])
           /\ \A x : LiveTypes([v EXCEPT !.publishers = x])
           /\ \A x : LiveTypes([v EXCEPT !.fences = x])
           /\ \A x : LiveTypes([v EXCEPT !.revalidation = x])
           /\ \A x : LiveTypes([v EXCEPT !.known = x])
           /\ \A x : LiveTypes([v EXCEPT !.down = x])
           /\ \A x \in SUBSET (Sources \X Resources) : LiveTypes([v EXCEPT !.pressure = x])
           /\ \A x \in Nat : LiveTypes([v EXCEPT !.attempts = x])
  BY DEF LiveTypes, LiveShape

LEMMA BootingTypes == LiveTypes(Booting)
  BY DEF LiveTypes, LiveShape, Booting

LEMMA IdleTypes == CallTypes(Idle) /\ Idle.at = "idle"
<1>1. <<>> \in Seq(Lineages)
  OBVIOUS
<1>2. CallShape(Idle) /\ Idle.at = "idle" /\ Idle.done = Booting /\ Idle.failed = Booting
      /\ Idle.signals = <<>> /\ Idle.recorded = 0 /\ Idle.accepted = {}
  BY DEF Idle, CallShape
<1> QED
  BY <1>1, <1>2, BootingTypes DEF CallTypes, Calls, Attempting

\* The calls the actions put in progress.
LEMMA CallExcept ==
    /\ \A d, f : (LiveTypes(d) /\ LiveTypes(f)) =>
          CallTypes([Idle EXCEPT !.at = "write", !.done = d, !.failed = f])
    /\ \A a \in Attempts, t \in Seq(Lineages), s \in SUBSET Lineages :
          CallTypes([Idle EXCEPT !.at = "begin", !.attempt = a, !.signals = t, !.accepted = s])
    /\ CallTypes([Idle EXCEPT !.at = "compact"])
    /\ \A c : CallTypes(c) =>
          /\ \A at \in Attempting :
                c.at \in Attempting => CallTypes([c EXCEPT !.at = at])
          /\ \A n \in Nat : CallTypes([c EXCEPT !.recorded = n])
<1>1. <<>> \in Seq(Lineages) /\ 0 \in Nat /\ {} \subseteq Lineages
  OBVIOUS
<1>2. ASSUME NEW d, NEW f, LiveTypes(d), LiveTypes(f)
      PROVE  CallTypes([Idle EXCEPT !.at = "write", !.done = d, !.failed = f])
  <2> SUFFICES ASSUME NEW c, c = [Idle EXCEPT !.at = "write", !.done = d, !.failed = f]
               PROVE  CallTypes(c)
    OBVIOUS
  <2>1. c.at = "write" /\ c.done = d /\ c.failed = f /\ c.signals = <<>> /\ c.recorded = 0
        /\ c.accepted = {}
    BY DEF Idle
  <2>2. CallShape(c)
    BY DEF CallShape, Idle
  <2> QED
    BY <1>1, <1>2, <2>1, <2>2, Zenon DEF CallTypes, Calls, Attempting
<1>3. ASSUME NEW a \in Attempts, NEW t \in Seq(Lineages), NEW s \in SUBSET Lineages
      PROVE  CallTypes([Idle EXCEPT !.at = "begin", !.attempt = a, !.signals = t, !.accepted = s])
  <2> SUFFICES ASSUME NEW c, c = [Idle EXCEPT !.at = "begin", !.attempt = a, !.signals = t,
                                              !.accepted = s]
               PROVE  CallTypes(c)
    OBVIOUS
  <2>1. c.at = "begin" /\ c.done = Booting /\ c.failed = Booting /\ c.attempt = a
        /\ c.signals = t /\ c.recorded = 0 /\ c.accepted = s
    BY DEF Idle
  <2>2. CallShape(c)
    BY DEF CallShape, Idle
  <2> QED
    BY <1>1, <1>3, <2>1, <2>2, BootingTypes, Zenon DEF CallTypes, Calls, Attempting
<1>4. CallTypes([Idle EXCEPT !.at = "compact"])
  <2> SUFFICES ASSUME NEW c, c = [Idle EXCEPT !.at = "compact"]
               PROVE  CallTypes(c)
    OBVIOUS
  <2>1. c.at = "compact" /\ c.done = Booting /\ c.failed = Booting /\ c.signals = <<>>
        /\ c.recorded = 0 /\ c.accepted = {}
    BY DEF Idle
  <2>2. CallShape(c)
    BY DEF CallShape, Idle
  <2> QED
    BY <1>1, <2>1, <2>2, BootingTypes, Zenon DEF CallTypes, Calls, Attempting
<1>5. ASSUME NEW c, CallTypes(c), NEW at \in Attempting, c.at \in Attempting
      PROVE  CallTypes([c EXCEPT !.at = at])
  BY <1>5 DEF CallTypes, CallShape, Calls, Attempting
<1>6. ASSUME NEW c, CallTypes(c), NEW n \in Nat
      PROVE  CallTypes([c EXCEPT !.recorded = n])
  BY <1>6 DEF CallTypes, CallShape
<1> QED
  BY <1>2, <1>3, <1>4, <1>5, <1>6, Zenon

-----------------------------------------------------------------------------

\* The footprint a flush writes lists resources.
LEMMA FootprintType ==
    ASSUME LiveTypes(live), NEW entries \in Footprints, entries # <<>>,
           Len(entries) <= MaxFootprint
    PROVE  entries \in Entries
<1>1. PICK pairs \in SetToSeqs(live.pressure) : entries = [i \in DOMAIN pairs |-> pairs[i][2]]
  BY DEF Footprints
<1> DEFINE n == Cardinality(live.pressure)
<1>2. IsFiniteSet(live.pressure)
  BY FS_Product, FS_Subset, StoreAssumption, RegistryAssumption DEF LiveTypes
<1>3. n \in Nat
  BY <1>2, FS_CardinalityType
<1>4. pairs \in [1..n -> live.pressure]
  BY DEF SetToSeqs
<1>5. \A i \in 1..n : pairs[i] \in Sources \X Resources
  BY <1>4 DEF LiveTypes
<1>6. entries \in [1..n -> Resources]
  BY <1>1, <1>4, <1>5
<1> HIDE DEF n
<1>7. entries \in Seq(Resources) /\ Len(entries) = n
  BY <1>3, <1>6
<1>8. n \in 1..MaxFootprint
  BY <1>3, <1>7, StoreAssumption
<1> QED
  BY <1>6, <1>8 DEF Entries

\* Where every flush goes: a footprint is appended, the tail is synced, or nothing.
LEMMA FlushSteps ==
    ASSUME RegTypes, NEW done, LiveTypes(done), Flushing(done)
    PROVE  /\ Next
           /\ RegTypes'
<1>1. ASSUME NEW entries \in Footprints, entries # <<>>,
             Persist(RecordPressureFootprint(entries), done, done)
      PROVE  Next /\ RegTypes'
  <2>1. RecordPressureFootprint(entries) /\ live' = live
        /\ call' = [Idle EXCEPT !.at = "write", !.done = done, !.failed = done]
    BY <1>1 DEF Persist
  <2>2. entries \in Entries
    BY <1>1, <2>1, FootprintType DEF RecordPressureFootprint, RegTypes
  <2>3. Next
    BY <2>1, <2>2, Zenon DEF Next, Serve
  <2>4. CallTypes(call')
    BY <2>1, CallExcept, Zenon
  <2> QED
    BY <2>1, <2>3, <2>4 DEF RegTypes
<1>2. ASSUME Sync, live' = done, UNCHANGED <<call, regHist>>
      PROVE  Next /\ RegTypes'
  BY <1>2 DEF Next, Serve, RegTypes
<1> QED
  BY <1>1, <1>2, Zenon DEF Flushing

LEMMA ChangeTypes ==
    ASSUME RegTypes, NEW done, LiveTypes(done), live' = live,
           call' = [Idle EXCEPT !.at = "write", !.done = done, !.failed = live]
    PROVE  RegTypes'
<1>1. CallTypes(call')
  BY CallExcept, Zenon DEF RegTypes
<1> QED
  BY <1>1, Zenon DEF RegTypes

LEMMA AttemptSteps ==
    ASSUME RegTypes, NEW signals \in Seq(Lineages), NEW accepted \in SUBSET Lineages,
           Attempt(signals, accepted)
    PROVE  (Next \/ UNCHANGED vars) /\ RegTypes'
<1> DEFINE attempt == live.attempts + 1
<1>1. live.attempts \in Nat /\ attempt \in Attempts /\ live.attempts + 2 \in Nat
  <2>1. live.attempts \in Nat /\ live.attempts + 2 - 1 \in Attempts
    BY DEF RegTypes, LiveTypes, Attempt, IdentifiersLeft
  <2> QED
    BY <2>1
<1>2. live' = [live EXCEPT !.attempts = live.attempts + 2]
  BY DEF Attempt, Took
<1>3. LiveTypes(live')
  BY <1>1, <1>2, LiveExcept, Zenon DEF RegTypes
<1>4. CASE BeginAttempt(attempt)
           /\ call' = [Idle EXCEPT !.at = "begin", !.attempt = attempt,
                                   !.signals = signals, !.accepted = accepted]
  <2>1. Next
    BY <1>1, <1>4, Zenon DEF Next, Serve
  <2>2. CallTypes(call')
    BY <1>1, <1>4, CallExcept, Zenon
  <2> QED
    BY <1>3, <2>1, <2>2, Zenon DEF RegTypes
<1>5. CASE call' = Idle /\ UNCHANGED vars
  BY <1>3, <1>5, IdleTypes, Zenon DEF RegTypes
<1>6. CASE (ShortWrite \/ UNCHANGED vars) /\ call' = call
  BY <1>3, <1>6, Zenon DEF RegTypes, Next
<1> QED
  BY <1>4, <1>5, <1>6, Zenon DEF Attempt, RefuseDuplicate

\* What retiring the publishers leaves alone.
LEMMA RetiredFields ==
    ASSUME LiveTypes(live)
    PROVE  /\ LiveTypes(Retired)
           /\ Retired.policy = live.policy /\ Retired.fences = live.fences
           /\ Retired.topology = live.topology /\ Retired.revalidation = live.revalidation
           /\ Retired.attempts = live.attempts
<1> DEFINE ps == [s \in Sources |-> IF live.publishers[s] = None THEN None
                                    ELSE [live.publishers[s] EXCEPT !.live = FALSE]]
<1>1. Retired = [live EXCEPT !.down = TRUE, !.publishers = ps, !.known = <<>>, !.pressure = {}]
  BY DEF Retired
<1> HIDE DEF ps
<1> SUFFICES ASSUME NEW v, v = [live EXCEPT !.down = TRUE, !.publishers = ps, !.known = <<>>,
                                            !.pressure = {}]
             PROVE  /\ LiveTypes(v)
                    /\ v.policy = live.policy /\ v.fences = live.fences
                    /\ v.topology = live.topology /\ v.revalidation = live.revalidation
                    /\ v.attempts = live.attempts
  BY <1>1, Zenon
<1>2. LiveShape(v)
  BY DEF LiveTypes, LiveShape
<1>3. /\ v.policy = live.policy /\ v.fences = live.fences
      /\ v.topology = live.topology /\ v.revalidation = live.revalidation
      /\ v.attempts = live.attempts /\ v.pressure = {}
  BY DEF LiveTypes, LiveShape
<1> QED
  BY <1>2, <1>3, Zenon DEF LiveTypes

LEMMA RequestSteps ==
    ASSUME RegTypes, Request
    PROVE  (Next \/ UNCHANGED vars) /\ RegTypes'
<1>0. LiveTypes(live) /\ CallTypes(call)
  BY DEF RegTypes
<1> USE LiveExcept
<1>1. ASSUME NEW d \in Topologies, InstallTopology(d)
      PROVE  Next /\ RegTypes'
  <2> DEFINE done == [live EXCEPT !.topology = d]
  <2>1. BindTopology(d) /\ live' = live
        /\ call' = [Idle EXCEPT !.at = "write", !.done = done, !.failed = live]
    BY <1>1 DEF InstallTopology, Change, Persist
  <2>2. LiveTypes(done)
    BY <1>0
  <2> HIDE DEF done
  <2> QED
    BY <2>1, <2>2, ChangeTypes, Zenon DEF Next, Serve
<1>2. ASSUME NEW p \in Policies, NEW g \in 1..MaxGeneration, InstallPolicy(p, g)
      PROVE  Next /\ RegTypes'
  <2> DEFINE done == [live EXCEPT !.policy = [id |-> p, generation |-> g]]
  <2>1. PersistPolicy(p, g) /\ live' = live
        /\ call' = [Idle EXCEPT !.at = "write", !.done = done, !.failed = live]
    BY <1>2 DEF InstallPolicy, Change, Persist
  <2>2. LiveTypes(done)
    BY <1>0
  <2> HIDE DEF done
  <2> QED
    BY <2>1, <2>2, ChangeTypes, Zenon DEF Next, Serve
<1>3. ASSUME NEW f \in Fences, NEW form \in FenceForms, AddFence(f, form)
      PROVE  Next /\ RegTypes'
  <2> DEFINE full == /\ f \notin Present(mem.fences)
                     /\ Cardinality(Present(mem.fences)) >= MaxFences
             done == IF full THEN live ELSE [live EXCEPT !.fences[f] = form]
  <2>1. PutFence(f, form) /\ live' = live
        /\ call' = [Idle EXCEPT !.at = "write", !.done = done, !.failed = live]
    BY <1>3 DEF AddFence, Change, Persist
  <2>2. LiveTypes(done)
    BY <1>0
  <2> HIDE DEF done
  <2> QED
    BY <2>1, <2>2, ChangeTypes, Zenon DEF Next, Serve
<1>4. ASSUME NEW f \in Fences, ClearFence(f)
      PROVE  Next /\ RegTypes'
  <2> DEFINE done == [live EXCEPT !.fences[f] = None]
  <2>1. RemoveFence(f) /\ live' = live
        /\ call' = [Idle EXCEPT !.at = "write", !.done = done, !.failed = live]
    BY <1>4 DEF ClearFence, Change, Persist
  <2>2. LiveTypes(done)
    BY <1>0
  <2> HIDE DEF done
  <2> QED
    BY <2>1, <2>2, ChangeTypes, Zenon DEF Next, Serve
<1>5. ASSUME NEW r \in Resources, MarkRevalidationRequired(r)
      PROVE  Next /\ RegTypes'
  <2> DEFINE full == \/ r \notin mem.revalidation /\ Cardinality(mem.revalidation) >= MaxFootprint
                     \/ /\ r \notin live.revalidation
                        /\ Cardinality(live.revalidation) >= MaxRevalidation
             done == IF full THEN live ELSE [live EXCEPT !.revalidation = @ \cup {r}]
  <2>1. RequestRevalidation(r) /\ live' = live
        /\ call' = [Idle EXCEPT !.at = "write", !.done = done, !.failed = live]
    BY <1>5 DEF MarkRevalidationRequired, Change, Persist
  <2>2. LiveTypes(done)
    BY <1>0
  <2> HIDE DEF done
  <2> QED
    BY <2>1, <2>2, ChangeTypes, Zenon DEF Next, Serve
<1>6. ASSUME NEW r \in Resources, ClearRevalidationRequired(r)
      PROVE  Next /\ RegTypes'
  <2> DEFINE done == [live EXCEPT !.revalidation = @ \ {r}]
  <2>1. ClearRevalidation(r) /\ live' = live
        /\ call' = [Idle EXCEPT !.at = "write", !.done = done, !.failed = live]
    BY <1>6 DEF ClearRevalidationRequired, Change, Persist
  <2>2. LiveTypes(done)
    BY <1>0
  <2> HIDE DEF done
  <2> QED
    BY <2>1, <2>2, ChangeTypes, Zenon DEF Next, Serve
<1>7. ASSUME NEW s \in Sources, NEW inc \in Incarnations, RegisterPublisher(s, inc)
      PROVE  UNCHANGED vars /\ RegTypes'
  <2>1. live' = [live EXCEPT !.publishers[s] = [inc |-> inc, live |-> TRUE]]
        /\ call' = call /\ UNCHANGED vars
    BY <1>7 DEF RegisterPublisher
  <2>2. LiveTypes(live')
    BY <1>0, <2>1
  <2> QED
    BY <1>0, <2>1, <2>2, Zenon DEF RegTypes
<1>8. ASSUME NEW s \in Sources, RetirePublisher(s)
      PROVE  UNCHANGED vars /\ RegTypes'
  <2>1. live' = [live EXCEPT !.publishers[s].live = FALSE] /\ call' = call /\ UNCHANGED vars
    BY <1>8 DEF RetirePublisher
  <2>2. LiveTypes(live')
    BY <1>0, <2>1
  <2> QED
    BY <1>0, <2>1, <2>2, Zenon DEF RegTypes
<1>9. ASSUME NEW s \in Sources, Recover(s)
      PROVE  UNCHANGED vars /\ RegTypes'
  <2>1. PICK gone \in SUBSET live.pressure :
          live' = [Took(1) EXCEPT !.pressure = @ \ gone]
    BY <1>9 DEF Recover
  <2>2. LiveTypes(Took(1))
    BY <1>0 DEF Took, LiveTypes
  <2>3. Took(1).pressure \ gone \in SUBSET (Sources \X Resources)
    BY <2>2 DEF LiveTypes
  <2>4. LiveTypes(live')
    <3> HIDE DEF Took
    <3> QED
      BY <2>1, <2>2, <2>3
  <2> QED
    BY <1>0, <1>9, <2>4, Zenon DEF RegTypes, Recover
<1>10. ASSUME PublishNothing
       PROVE  UNCHANGED vars /\ RegTypes'
  <2>1. live' = Took(1) /\ UNCHANGED vars /\ call' \in {Idle, AfterPublish}
    BY <1>10 DEF PublishNothing
  <2>2. LiveTypes(live')
    BY <1>0, <2>1 DEF Took, LiveTypes
  <2>3. CallTypes(call')
    BY <2>1, IdleTypes, CallExcept, Zenon DEF AfterPublish
  <2> QED
    BY <2>1, <2>2, <2>3, Zenon DEF RegTypes
<1>11. ASSUME NEW l \in Lineages, Publish(l)
       PROVE  (Next \/ UNCHANGED vars) /\ RegTypes'
  <2>1. <<l>> \in Seq(Lineages) /\ {l} \in SUBSET Lineages /\ Attempt(<<l>>, {l})
    BY <1>11 DEF Publish
  <2> QED
    BY <2>1, AttemptSteps, Zenon
<1>12. ASSUME NEW signals \in Batches, PublishBatch(signals)
       PROVE  (Next \/ UNCHANGED vars) /\ RegTypes'
  <2>1. signals \in Seq(Lineages)
    BY RegistryAssumption
  <2>2. PICK accepted \in SUBSET Range(signals) : Attempt(signals, accepted)
    BY <1>12, Zenon DEF PublishBatch
  <2>3. accepted \in SUBSET Lineages
    BY <2>1 DEF Range
  <2> QED
    BY <2>1, <2>2, <2>3, AttemptSteps, Zenon
<1>13. ASSUME Flush
       PROVE  Next /\ RegTypes'
  BY <1>0, <1>13, FlushSteps, Zenon DEF Flush
<1>14. ASSUME Shutdown
       PROVE  (Next \/ UNCHANGED vars) /\ RegTypes'
  <2>1. LiveTypes(Retired)
    BY <1>0, RetiredFields
  <2>2. CASE Flushing(Retired)
    BY <2>1, <2>2, FlushSteps, Zenon
  <2>3. CASE FlushStops /\ live' = Retired /\ UNCHANGED <<call, regHist>>
    BY <1>0, <2>1, <2>3, Zenon DEF FlushStops, RegTypes, Next
  <2> QED
    BY <1>14, <2>2, <2>3, Zenon DEF Shutdown
<1> QED
  BY <1>1, <1>2, <1>3, <1>4, <1>5, <1>6, <1>7, <1>8, <1>9, <1>10, <1>11, <1>12, <1>13, <1>14,
     Zenon DEF Request

LEMMA RegSteps ==
    ASSUME RegTypes, RegNext
    PROVE  (Next \/ UNCHANGED vars) /\ RegTypes'
<1>0. LiveTypes(live) /\ CallTypes(call)
  BY DEF RegTypes
<1>1. ASSUME UNCHANGED regVars
      PROVE  RegTypes'
  BY <1>0, <1>1 DEF regVars, RegTypes
<1>2. CASE StoreOpens \/ EpochEstablished \/ AppendFails \/ Compacts
  BY <1>1, <1>2, Zenon DEF StoreOpens, EpochEstablished, AppendFails, Compacts, Next
<1>3. CASE FabricOpens
  <2> SUFFICES ASSUME NEW v, v = Restored
               PROVE  LiveTypes(v)
    BY <1>0, <1>3 DEF FabricOpens, RegTypes, Next
  <2>1. v.pressure = {} /\ v.attempts = 1
    BY DEF Restored, Booting
  <2>2. LiveShape(v)
    BY DEF Restored, Booting, LiveShape
  <2> QED
    BY <2>1, <2>2 DEF LiveTypes
<1>4. CASE Dies
  BY <1>4, BootingTypes, IdleTypes DEF Dies, Next, RegTypes
<1>5. CASE Request
  BY <1>5, RequestSteps
<1>6. CASE WriteSucceeds
  BY <1>0, <1>6, IdleTypes, Zenon DEF WriteSucceeds, Next, RegTypes, CallTypes
<1>7. CASE WriteFails
  BY <1>0, <1>7, IdleTypes, Zenon DEF WriteFails, Next, RegTypes, CallTypes
<1>8. CASE AttemptBegun
  <2>1. CallTypes(call') /\ live' = live
    BY <1>0, <1>8, CallExcept DEF AttemptBegun, Attempting
  <2> QED
    BY <1>0, <1>8, <2>1, Zenon DEF AttemptBegun, Next, RegTypes
<1>9. CASE BeginFails
  BY <1>0, <1>9, IdleTypes, Zenon DEF BeginFails, Next, RegTypes
<1>10. CASE RecordNext
  <2>1. call.signals \in Seq(Lineages) /\ call.recorded \in Nat
        /\ call.recorded < Len(call.signals)
    BY <1>0, <1>10 DEF CallTypes, RecordNext, Unrecorded
  <2>2. call.signals[call.recorded + 1] \in Lineages /\ call.recorded + 1 \in Nat
    BY <2>1
  <2>3. Next
    BY <1>10, <2>2, Zenon DEF RecordNext, Next, Serve
  <2>4. CallTypes(call') /\ live' = live
    BY <1>0, <1>10, <2>2, CallExcept, Zenon DEF RecordNext
  <2> QED
    BY <1>0, <2>3, <2>4, Zenon DEF RegTypes
<1>11. CASE RecordFails
  <2>1. CallTypes(call') /\ live' = live
    BY <1>0, <1>11, CallExcept DEF RecordFails, Attempting
  <2> QED
    BY <1>0, <1>11, <2>1, Zenon DEF RecordFails, Next, RegTypes
<1>12. CASE CommitToLedger
  <2>1. PICK applied \in SUBSET ({l.source : l \in call.accepted} \X Resources),
             next \in {"commit", "abort"} :
          /\ live' = [live EXCEPT !.known = Marked, !.pressure = @ \cup applied]
          /\ call' = [call EXCEPT !.at = next]
    BY <1>12 DEF CommitToLedger
  <2>2. CallTypes(call')
    BY <1>0, <1>12, <2>1, CallExcept DEF CommitToLedger, Attempting
  <2>3. applied \subseteq Sources \X Resources
    BY <1>0, <2>1, RegistryAssumption DEF CallTypes
  <2>4. ASSUME NEW v, NEW known, v = [live EXCEPT !.known = known,
                                                  !.pressure = @ \cup applied]
        PROVE  LiveTypes(v)
    <3>1. v.pressure = live.pressure \cup applied /\ v.attempts = live.attempts
      BY <1>0, <2>4 DEF LiveTypes, LiveShape
    <3>2. LiveShape(v)
      BY <1>0, <2>4 DEF LiveTypes, LiveShape
    <3> QED
      BY <1>0, <2>3, <3>1, <3>2 DEF LiveTypes
  <2> QED
    BY <1>12, <2>1, <2>2, <2>4, Zenon DEF CommitToLedger, RegTypes
<1>13. CASE CommitTruncated
  <2>1. CallTypes(call') /\ live' = live
    BY <1>0, <1>13, CallExcept DEF CommitTruncated, Attempting
  <2> QED
    BY <1>0, <1>13, <2>1, Zenon DEF CommitTruncated, RegTypes
<1>14. CASE Conclude
  <2>1. call.attempt \in Attempts
    BY <1>0, <1>14 DEF Conclude, CallTypes, Attempting
  <2>2. Next
    BY <1>14, <2>1, Zenon DEF Conclude, Next, Serve
  <2> QED
    BY <1>1, <1>14, <2>2, Zenon DEF Conclude
<1>15. CASE Concluded
  <2>1. CallTypes(call') /\ live' = live
    BY <1>15, CallExcept, IdleTypes, Zenon DEF Concluded, AfterPublish
  <2> QED
    BY <1>0, <1>15, <2>1, Zenon DEF Concluded, Next, RegTypes
<1>16. CASE ConcludeFails
  BY <1>0, <1>16, IdleTypes, Zenon DEF ConcludeFails, Next, RegTypes
<1>17. CASE StartCompaction
  BY <1>0, <1>17, IdleTypes, Zenon DEF StartCompaction, Next, Serve, RegTypes
<1> QED
  BY <1>2, <1>3, <1>4, <1>5, <1>6, <1>7, <1>8, <1>9, <1>10, <1>11, <1>12, <1>13, <1>14, <1>15,
     <1>16, <1>17, Zenon DEF RegNext

LEMMA RegTypesAlways == RegSpec => []RegTypes
<1>1. RegInit => RegTypes
  BY BootingTypes, IdleTypes DEF RegInit, RegTypes
<1>2. RegTypes /\ [RegNext]_<<vars, regVars>> => RegTypes'
  <2>1. RegTypes /\ UNCHANGED <<vars, regVars>> => RegTypes'
    BY DEF regVars, RegTypes
  <2> QED
    BY <2>1, RegSteps
<1> QED
  BY <1>1, <1>2, PTL DEF RegSpec

\* The fabric drives its store only as the store expects: every step of the fabric,
\* whatever it was doing when an append or a sync failed or the process died, is a step of
\* DurableStore or leaves the store alone.
THEOREM FabricRunsStore == RegSpec => Spec
<1>1. RegInit => Init
  BY DEF RegInit
<1>2. RegTypes /\ [RegNext]_<<vars, regVars>> => [Next]_vars
  BY RegSteps
<1> QED
  BY <1>1, <1>2, RegTypesAlways, PTL DEF RegSpec, Spec

-----------------------------------------------------------------------------
(* What the fabric serves is what its store remembers. *)

Agrees(v, s) ==
    /\ v.policy = s.policy
    /\ v.fences = s.fences
    /\ v.topology \in {None, s.topology}
    /\ v.revalidation \subseteq s.revalidation

SameConfig(s, t) ==
    /\ s.policy = t.policy /\ s.fences = t.fences /\ s.topology = t.topology
    /\ s.revalidation = t.revalidation

\* Where the store and the call in progress are in step: an operation that waits for its
\* sync is the one of the call, and either outcome of the sync finds the members it needs.
InStep ==
    /\ proc \in {"up", "compact"} => Agrees(live, mem)
    /\ proc # "up" => call.at = "idle"
    /\ proc \in {"down", "created", "compact"} => ~pending.on
    /\ pending.on => pending.next = (IF proc = "opened" THEN "epoch" ELSE "up")
    /\ (pending.on /\ proc = "epoch") => SameConfig(pending.after, mem)
    /\ (proc = "up" /\ call.at \in {"idle", "lineages", "compact"}) => ~pending.on
    /\ (pending.on /\ call.at \in {"begin", "commit", "abort"})
          => SameConfig(pending.after, mem)
    /\ call.at = "write" => Agrees(call.done, pending.after) /\ Agrees(call.failed, mem)

LEMMA NoWriteOff == ~NoWrite.on
  BY DEF NoWrite

\* What an append does to the store's memory.
LEMMA WriteFields ==
    ASSUME NEW r, NEW after, NEW next, Write(r, after, next)
    PROVE  /\ pending'.on /\ pending'.after = after /\ pending'.next = next
           /\ ~pending.on /\ proc' = proc /\ mem' = mem
  BY DEF Write, CanAppend

LEMMA StoreOpensInStep ==
    ASSUME StoreTypeOK, InStep, StoreOpens
    PROVE  InStep'
<1>0. live' = live /\ call' = call
  BY DEF StoreOpens, regVars
<1>1. CASE Create
  BY <1>0, <1>1 DEF Create, InStep
<1>2. CASE WriteHeader
  BY <1>0, <1>2 DEF WriteHeader, InStep
<1>3. CASE Open
  BY <1>0, <1>3 DEF Open, InStep
<1>4. CASE OpenFails
  BY <1>0, <1>4 DEF OpenFails, InStep, procVars
<1>5. CASE EstablishEpoch
  <2>1. PICK r, after : Write(r, after, "epoch") /\ proc = "opened"
    BY <1>5 DEF EstablishEpoch
  <2>2. pending'.on /\ pending'.next = "epoch" /\ proc' = "opened" /\ mem' = mem
    BY <2>1, WriteFields
  <2> QED
    BY <1>0, <2>1, <2>2 DEF InStep
<1>6. CASE RecordBoot
  <2>1. Write([type |-> "Boot", arg |-> boots], [mem EXCEPT !.boot = boots], "up")
        /\ proc = "epoch"
    BY <1>6 DEF RecordBoot
  <2>2. pending'.on /\ pending'.next = "up" /\ proc' = "epoch" /\ mem' = mem
        /\ pending'.after = [mem EXCEPT !.boot = boots]
    BY <2>1, WriteFields, Zenon
  <2>3. SameConfig([mem EXCEPT !.boot = boots], mem)
    BY DEF SameConfig, StoreTypeOK, State, StateForms
  <2>4. SameConfig(pending'.after, mem')
    BY <2>2, <2>3, Zenon
  <2> QED
    BY <1>0, <2>1, <2>2, <2>4 DEF InStep
<1> QED
  BY <1>1, <1>2, <1>3, <1>4, <1>5, <1>6 DEF StoreOpens

\* What the calls do: append one record, answer without one, or begin an attempt.
Writes ==
    \E r, after, done, failed :
        /\ Write(r, after, "up")
        /\ call' = [Idle EXCEPT !.at = "write", !.done = done, !.failed = failed]
        /\ Agrees(done, after) /\ Agrees(failed, mem)
        /\ after.attempts = mem.attempts
        /\ done.attempts = live.attempts /\ failed.attempts = live.attempts
        /\ UNCHANGED <<live, leftover, duplicates>>

Answers ==
    /\ UNCHANGED <<proc, mem, pending, leftover, duplicates>>
    /\ SameConfig(live', live)
    /\ live'.attempts \in {live.attempts, live.attempts + 1}
    /\ call'.at \in {"idle", "compact"}

LEMMA WritesIntro ==
    ASSUME NEW r, NEW after, NEW done, NEW failed, Write(r, after, "up"),
           call' = [Idle EXCEPT !.at = "write", !.done = done, !.failed = failed],
           UNCHANGED <<live, leftover, duplicates>>,
           Agrees(done, after), Agrees(failed, mem), after.attempts = mem.attempts,
           done.attempts = live.attempts, failed.attempts = live.attempts
    PROVE  Writes
  BY Zenon DEF Writes

LEMMA AnswersIntro ==
    ASSUME UNCHANGED vars, leftover' = leftover, duplicates' = duplicates,
           SameConfig(live', live), live'.attempts \in {live.attempts, live.attempts + 1},
           call'.at \in {"idle", "compact"}
    PROVE  Answers
  BY DEF Answers, vars, procVars

LEMMA IdleAts ==
    Idle.at = "idle" /\ AfterPublish.at \in {"idle", "compact"}
  BY DEF Idle, AfterPublish

\* Footprints only add to the list.
LEMMA AbsorbAdds ==
    ASSUME NEW s, NEW es
    PROVE  s \subseteq Absorb(s, es)
  BY DEF Absorb

LEMMA FlushCases ==
    ASSUME StoreTypeOK, RegTypes, InStep, proc = "up", call.at = "idle", NEW done,
           SameConfig(done, live), done.attempts = live.attempts, Flushing(done)
    PROVE  Writes \/ Answers
<1>0. Agrees(done, mem)
  BY DEF InStep, Agrees, SameConfig
<1>1. ASSUME NEW entries \in Footprints,
             Persist(RecordPressureFootprint(entries), done, done)
      PROVE  Writes
  <2> DEFINE after == [mem EXCEPT !.revalidation = Absorb(@, entries)]
  <2>1. Write([type |-> "Footprint", arg |-> entries], after, "up")
        /\ UNCHANGED <<live, leftover, duplicates>>
        /\ call' = [Idle EXCEPT !.at = "write", !.done = done, !.failed = done]
    BY <1>1 DEF Persist, RecordPressureFootprint, Operation
  <2>2. /\ after.policy = mem.policy /\ after.fences = mem.fences
        /\ after.topology = mem.topology /\ after.attempts = mem.attempts
        /\ after.revalidation = Absorb(mem.revalidation, entries)
    BY DEF StoreTypeOK, State, StateForms
  <2> HIDE DEF after
  <2>3. Agrees(done, after)
    <3>1. mem.revalidation \subseteq after.revalidation
      BY <2>2, AbsorbAdds, Zenon
    <3> QED
      BY <1>0, <2>2, <3>1 DEF Agrees
  <2> QED
    BY <1>0, <2>1, <2>2, <2>3, WritesIntro
<1>2. ASSUME Sync, live' = done, call' = call, UNCHANGED regHist
      PROVE  Answers
  BY <1>2 DEF Sync, procVars, Answers, regHist
<1> QED
  BY <1>1, <1>2 DEF Flushing

LEMMA RequestCases ==
    ASSUME StoreTypeOK, RegTypes, InStep, Request
    PROVE  /\ proc = "up" /\ call.at = "idle" /\ ~pending.on
           /\ \/ Writes \/ Answers
              \/ \E signals : \E accepted \in SUBSET Range(signals) : Attempt(signals, accepted)
<1>0. /\ LiveShape(live) /\ mem \in State /\ mem \in StateForms
  BY DEF RegTypes, LiveTypes, StoreTypeOK, State
<1>1. proc = "up" /\ call.at = "idle" /\ ~pending.on
  <2>1. proc = "up" /\ call.at = "idle"
    BY DEF Request, InstallTopology, InstallPolicy, AddFence, ClearFence,
       MarkRevalidationRequired, ClearRevalidationRequired, RegisterPublisher,
       RetirePublisher, Recover, PublishNothing, Publish, PublishBatch, Flush, Shutdown,
       Serving, Ready
  <2> QED
    BY <2>1 DEF InStep
<1>2. Agrees(live, mem)
  BY <1>1 DEF InStep
<1>3. ASSUME NEW d \in Topologies, InstallTopology(d)
      PROVE  Writes
  <2> DEFINE done == [live EXCEPT !.topology = d]
             after == [mem EXCEPT !.topology = d]
  <2>1. Write([type |-> "TopologyBinding", arg |-> d], after, "up") /\ UNCHANGED <<live, leftover, duplicates>>
        /\ call' = [Idle EXCEPT !.at = "write", !.done = done, !.failed = live]
    BY <1>3 DEF InstallTopology, Change, Persist, BindTopology, Operation
  <2>2. Agrees(done, after) /\ after.attempts = mem.attempts
        /\ done.attempts = live.attempts
    BY <1>0, <1>2 DEF Agrees, LiveShape, StateForms
  <2> HIDE DEF done, after
  <2> QED
    BY <1>2, <2>1, <2>2, WritesIntro
<1>4. ASSUME NEW p \in Policies, NEW g \in 1..MaxGeneration, InstallPolicy(p, g)
      PROVE  Writes
  <2> DEFINE policy == [id |-> p, generation |-> g]
             done == [live EXCEPT !.policy = policy]
             after == [mem EXCEPT !.policy = policy]
  <2>1. Write([type |-> "Policy", arg |-> policy], after, "up") /\ UNCHANGED <<live, leftover, duplicates>>
        /\ call' = [Idle EXCEPT !.at = "write", !.done = done, !.failed = live]
    BY <1>4 DEF InstallPolicy, Change, Persist, PersistPolicy, Operation
  <2> HIDE DEF policy
  <2>2. Agrees(done, after) /\ after.attempts = mem.attempts
        /\ done.attempts = live.attempts
    BY <1>0, <1>2 DEF Agrees, LiveShape, StateForms
  <2> HIDE DEF done, after
  <2> QED
    BY <1>2, <2>1, <2>2, WritesIntro
<1>5. ASSUME NEW f \in Fences, NEW form \in FenceForms, AddFence(f, form)
      PROVE  Writes
  <2> DEFINE full == /\ f \notin Present(mem.fences)
                     /\ Cardinality(Present(mem.fences)) >= MaxFences
             done == IF full THEN live ELSE [live EXCEPT !.fences[f] = form]
             after == IF full THEN mem ELSE [mem EXCEPT !.fences[f] = form]
  <2>1. Write([type |-> "FencePut", arg |-> [id |-> f, form |-> form]], after, "up")
        /\ UNCHANGED <<live, leftover, duplicates>>
        /\ call' = [Idle EXCEPT !.at = "write", !.done = done, !.failed = live]
    BY <1>5 DEF AddFence, Change, Persist, PutFence, Operation
  <2> HIDE DEF full
  <2>2. Agrees(done, after) /\ after.attempts = mem.attempts
        /\ done.attempts = live.attempts
    BY <1>0, <1>2 DEF Agrees, LiveShape, StateForms
  <2> HIDE DEF done, after
  <2> QED
    BY <1>2, <2>1, <2>2, WritesIntro
<1>6. ASSUME NEW f \in Fences, ClearFence(f)
      PROVE  Writes
  <2> DEFINE done == [live EXCEPT !.fences[f] = None]
             after == [mem EXCEPT !.fences[f] = None]
  <2>1. Write([type |-> "FenceRemove", arg |-> f], after, "up") /\ UNCHANGED <<live, leftover, duplicates>>
        /\ call' = [Idle EXCEPT !.at = "write", !.done = done, !.failed = live]
    BY <1>6 DEF ClearFence, Change, Persist, RemoveFence, Operation
  <2>2. Agrees(done, after) /\ after.attempts = mem.attempts
        /\ done.attempts = live.attempts
    BY <1>0, <1>2 DEF Agrees, LiveShape, StateForms
  <2> HIDE DEF done, after
  <2> QED
    BY <1>2, <2>1, <2>2, WritesIntro
<1>7. ASSUME NEW r \in Resources, MarkRevalidationRequired(r)
      PROVE  Writes
  <2> DEFINE storeFull == r \notin mem.revalidation /\ Cardinality(mem.revalidation) >= MaxFootprint
             listFull == /\ r \notin live.revalidation
                         /\ Cardinality(live.revalidation) >= MaxRevalidation
             done == IF storeFull \/ listFull THEN live
                     ELSE [live EXCEPT !.revalidation = @ \cup {r}]
             after == IF storeFull THEN mem ELSE [mem EXCEPT !.revalidation = @ \cup {r}]
  <2>1. Write([type |-> "RevalidationRequest", arg |-> r], after, "up") /\ UNCHANGED <<live, leftover, duplicates>>
        /\ call' = [Idle EXCEPT !.at = "write", !.done = done, !.failed = live]
    BY <1>7 DEF MarkRevalidationRequired, Change, Persist, RequestRevalidation, Operation
  <2> HIDE DEF storeFull, listFull
  <2>2. Agrees(done, after) /\ after.attempts = mem.attempts
        /\ done.attempts = live.attempts
    BY <1>0, <1>2 DEF Agrees, LiveShape, StateForms
  <2> HIDE DEF done, after
  <2> QED
    BY <1>2, <2>1, <2>2, WritesIntro
<1>8. ASSUME NEW r \in Resources, ClearRevalidationRequired(r)
      PROVE  Writes
  <2> DEFINE done == [live EXCEPT !.revalidation = @ \ {r}]
             after == [mem EXCEPT !.revalidation = @ \ {r}]
  <2>1. Write([type |-> "RevalidationClear", arg |-> r], after, "up") /\ UNCHANGED <<live, leftover, duplicates>>
        /\ call' = [Idle EXCEPT !.at = "write", !.done = done, !.failed = live]
    BY <1>8 DEF ClearRevalidationRequired, Change, Persist, ClearRevalidation, Operation
  <2>2. Agrees(done, after) /\ after.attempts = mem.attempts
        /\ done.attempts = live.attempts
    BY <1>0, <1>2 DEF Agrees, LiveShape, StateForms
  <2> HIDE DEF done, after
  <2> QED
    BY <1>2, <2>1, <2>2, WritesIntro
<1>9. ASSUME NEW s \in Sources, NEW inc \in Incarnations, RegisterPublisher(s, inc)
      PROVE  Answers
  <2>1. live' = [live EXCEPT !.publishers[s] = [inc |-> inc, live |-> TRUE]]
        /\ call' = call /\ UNCHANGED <<vars, leftover, duplicates>>
    BY <1>9 DEF RegisterPublisher
  <2>2. SameConfig(live', live) /\ live'.attempts = live.attempts
    BY <1>0, <2>1 DEF SameConfig, LiveShape
  <2> QED
    BY <1>1, <2>1, <2>2, AnswersIntro
<1>10. ASSUME NEW s \in Sources, RetirePublisher(s)
       PROVE  Answers
  <2>1. live' = [live EXCEPT !.publishers[s].live = FALSE] /\ call' = call
        /\ UNCHANGED <<vars, leftover, duplicates>>
    BY <1>10 DEF RetirePublisher, regHist
  <2>2. SameConfig(live', live) /\ live'.attempts = live.attempts
    BY <1>0, <2>1 DEF SameConfig, LiveShape
  <2> QED
    BY <1>1, <2>1, <2>2, AnswersIntro
<1>11. ASSUME NEW s \in Sources, Recover(s)
       PROVE  Answers
  <2>1. PICK gone : live' = [Took(1) EXCEPT !.pressure = @ \ gone]
    BY <1>11 DEF Recover
  <2>2. SameConfig(live', live) /\ live'.attempts = live.attempts + 1
    BY <1>0, <2>1 DEF SameConfig, LiveShape, Took
  <2> QED
    BY <1>1, <1>11, <2>2, AnswersIntro DEF Recover, regHist
<1>12. ASSUME PublishNothing
       PROVE  Answers
  <2>1. SameConfig(live', live) /\ live'.attempts = live.attempts + 1
    BY <1>0, <1>12 DEF PublishNothing, Took, SameConfig, LiveShape
  <2>2. call'.at \in {"idle", "compact"} /\ UNCHANGED <<vars, leftover, duplicates>>
    BY <1>12, IdleAts DEF PublishNothing, regHist
  <2> QED
    BY <1>1, <2>1, <2>2, AnswersIntro
<1>13. ASSUME NEW l \in Lineages, Publish(l)
       PROVE  \E accepted \in SUBSET Range(<<l>>) : Attempt(<<l>>, accepted)
  <2>1. {l} \in SUBSET Range(<<l>>)
    BY DEF Range
  <2> QED
    BY <1>13, <2>1, Zenon DEF Publish
<1>14. ASSUME NEW signals \in Batches, PublishBatch(signals)
       PROVE  \E accepted \in SUBSET Range(signals) : Attempt(signals, accepted)
  BY <1>14, Zenon DEF PublishBatch
<1>15. ASSUME Flush
       PROVE  Writes \/ Answers
  <2>1. SameConfig(live, live)
    BY DEF SameConfig
  <2> QED
    BY <1>1, <1>15, <2>1, FlushCases, Zenon DEF Flush
<1>16. ASSUME Shutdown
       PROVE  Writes \/ Answers
  <2>1. SameConfig(Retired, live) /\ Retired.attempts = live.attempts
    BY RetiredFields DEF SameConfig, RegTypes
  <2>2. CASE Flushing(Retired)
    BY <1>1, <2>1, <2>2, FlushCases, Zenon
  <2>3. CASE FlushStops /\ live' = Retired /\ UNCHANGED <<call, regHist>>
    <3>1. proc' = proc /\ mem' = mem /\ pending' = pending
      BY <2>3 DEF FlushStops, ShortWrite, vars, procVars
    <3> QED
      BY <1>1, <2>1, <2>3, <3>1 DEF Answers, regHist
  <2> QED
    BY <1>16, <2>2, <2>3, Zenon DEF Shutdown
<1> QED
  BY <1>1, <1>3, <1>4, <1>5, <1>6, <1>7, <1>8, <1>9, <1>10, <1>11, <1>12, <1>13, <1>14, <1>15, <1>16,
     Zenon DEF Request

LEMMA WritesInStep ==
    ASSUME InStep, proc = "up", Writes
    PROVE  InStep'
<1>0. PICK r, after, done, failed :
        /\ Write(r, after, "up")
        /\ call' = [Idle EXCEPT !.at = "write", !.done = done, !.failed = failed]
        /\ Agrees(done, after) /\ Agrees(failed, mem)
        /\ live' = live
  BY Zenon DEF Writes
<1>1. call'.at = "write" /\ call'.done = done /\ call'.failed = failed
  BY <1>0 DEF Idle
<1>2. pending'.on /\ pending'.after = after /\ pending'.next = "up" /\ proc' = proc /\ mem' = mem
  BY <1>0, WriteFields, Zenon
<1>3. Agrees(call'.done, pending'.after) /\ Agrees(call'.failed, mem')
  BY <1>0, <1>1, <1>2, Zenon
<1>4. Agrees(live', mem')
  BY <1>0, <1>2 DEF InStep
<1> QED
  BY <1>1, <1>2, <1>3, <1>4 DEF InStep

\* A step that leaves store and members alone, while no operation waits for its sync.
LEMMA QuietInStep ==
    ASSUME InStep, UNCHANGED <<proc, mem, pending>>, proc = "up", SameConfig(live', live),
           ~pending.on, call'.at # "write"
    PROVE  InStep'
<1>1. Agrees(live', mem')
  BY DEF InStep, Agrees, SameConfig
<1> QED
  BY <1>1 DEF InStep

\* An attempt is begun, refused as a duplicate, or cannot be written.
Begins(attempt) ==
    /\ attempt \notin mem.attempts
    /\ \E r, after : Write(r, after, "up") /\ after = [mem EXCEPT !.attempts = @ \cup {attempt}]
    /\ call'.at = "begin" /\ call'.attempt = attempt
    /\ duplicates' = duplicates

Refused(attempt) ==
    /\ attempt \in mem.attempts
    /\ call'.at = "idle"
    /\ duplicates' = duplicates + 1
    /\ UNCHANGED <<proc, mem, pending>>

NotBegun == call' = call /\ UNCHANGED <<proc, mem, pending, duplicates>>

LEMMA AttemptCases ==
    ASSUME RegTypes, NEW signals, NEW accepted, Attempt(signals, accepted)
    PROVE  /\ SameConfig(live', live) /\ live'.attempts = live.attempts + 2
           /\ leftover' = leftover
           /\ live.attempts + 2 - 1 \in Attempts
           /\ Begins(live.attempts + 1) \/ Refused(live.attempts + 1) \/ NotBegun
<1> DEFINE attempt == live.attempts + 1
<1>1. SameConfig(live', live) /\ live'.attempts = live.attempts + 2
  BY DEF Attempt, Took, SameConfig, RegTypes, LiveTypes, LiveShape
<1>2. leftover' = leftover /\ live.attempts + 2 - 1 \in Attempts
  BY DEF Attempt, IdentifiersLeft
<1>3. CASE BeginAttempt(attempt) /\ duplicates' = duplicates
           /\ call' = [Idle EXCEPT !.at = "begin", !.attempt = attempt,
                                   !.signals = signals, !.accepted = accepted]
  <2>1. call'.at = "begin" /\ call'.attempt = attempt
    BY <1>3 DEF Idle
  <2>2. attempt \notin mem.attempts
        /\ Write([type |-> "AttemptBegin", arg |-> attempt],
                 [mem EXCEPT !.attempts = @ \cup {attempt}], "up")
    BY <1>3 DEF BeginAttempt, Operation
  <2> QED
    BY <1>1, <1>2, <1>3, <2>1, <2>2, Zenon DEF Begins
<1>4. CASE attempt \in mem.attempts /\ RefuseDuplicate(attempt) /\ UNCHANGED vars
  BY <1>1, <1>2, <1>4, IdleAts DEF RefuseDuplicate, Refused, vars, procVars
<1>5. CASE (ShortWrite \/ UNCHANGED vars) /\ UNCHANGED <<call, duplicates>>
  BY <1>1, <1>2, <1>5 DEF NotBegun, ShortWrite, vars, procVars
<1> QED
  BY <1>3, <1>4, <1>5, Zenon DEF Attempt

LEMMA AttemptInStep ==
    ASSUME StoreTypeOK, RegTypes, InStep, proc = "up", call.at = "idle", ~pending.on,
           NEW signals, NEW accepted, Attempt(signals, accepted)
    PROVE  InStep'
<1>1. SameConfig(live', live)
      /\ (Begins(live.attempts + 1) \/ Refused(live.attempts + 1) \/ NotBegun)
  BY AttemptCases
<1>2. CASE Begins(live.attempts + 1)
  <2>1. PICK r, after : Write(r, after, "up")
                        /\ after = [mem EXCEPT !.attempts = @ \cup {live.attempts + 1}]
    BY <1>2 DEF Begins
  <2>2. SameConfig(after, mem)
    BY <2>1 DEF SameConfig, StoreTypeOK, State, StateForms
  <2>3. pending'.on /\ pending'.after = after /\ pending'.next = "up" /\ proc' = proc
        /\ mem' = mem
    BY <2>1, WriteFields, Zenon
  <2>4. Agrees(live', mem')
    BY <1>1, <2>3 DEF InStep, Agrees, SameConfig
  <2>5. SameConfig(pending'.after, mem')
    BY <2>2, <2>3, Zenon
  <2> QED
    BY <1>2, <2>3, <2>4, <2>5 DEF InStep, Begins
<1>3. CASE Refused(live.attempts + 1)
  BY <1>1, <1>3, QuietInStep DEF Refused
<1>4. CASE NotBegun
  BY <1>1, <1>4, QuietInStep DEF NotBegun
<1> QED
  BY <1>1, <1>2, <1>3, <1>4

LEMMA RequestInStep ==
    ASSUME StoreTypeOK, RegTypes, InStep, Request
    PROVE  InStep'
<1>1. CASE Writes
  BY <1>1, RequestCases, WritesInStep
<1>2. CASE Answers
  BY <1>2, RequestCases, QuietInStep DEF Answers
<1>3. ASSUME NEW signals, NEW accepted, Attempt(signals, accepted)
      PROVE  InStep'
  BY <1>3, RequestCases, AttemptInStep
<1> QED
  BY <1>1, <1>2, <1>3, RequestCases

LEMMA RegInStep ==
    ASSUME StoreTypeOK, RegTypes, InStep, RegNext
    PROVE  InStep'
<1>0. LiveShape(live) /\ CallShape(call) /\ call.at \in Calls /\ mem \in StateForms
  BY DEF RegTypes, LiveTypes, CallTypes, StoreTypeOK, State
<1> USE NoWriteOff
<1>1. ASSUME call.at # "idle"
      PROVE  proc = "up" /\ Agrees(live, mem)
  BY <1>1 DEF InStep
\* A sync that fails, or a record cut short, leaves the store's memory alone.
<1>2. ASSUME ShortWrite \/ SyncFails
      PROVE  /\ proc = "up" /\ proc' = proc /\ mem' = mem
             /\ pending' \in {pending, NoWrite}
             /\ ShortWrite => ~pending.on /\ pending' = pending
             /\ SyncFails => pending' = NoWrite
  BY <1>2 DEF ShortWrite, SyncFails, CanAppend, procVars
<1>3. CASE StoreOpens
  BY <1>3, StoreOpensInStep
<1>4. CASE EpochEstablished
  <2>1. proc = "opened" /\ SyncOk /\ live' = live /\ call' = call
    BY <1>4 DEF EpochEstablished, regVars
  <2>2. proc' = "epoch" /\ pending' = NoWrite
    BY <2>1 DEF SyncOk, InStep
  <2> QED
    BY <2>1, <2>2 DEF InStep
<1>5. CASE FabricOpens
  <2>1. pending.on /\ SameConfig(pending.after, mem) /\ proc' = "up" /\ mem' = pending.after
        /\ pending' = NoWrite /\ call' = call /\ call.at = "idle" /\ live' = Restored
    BY <1>5 DEF FabricOpens, SyncOk, InStep
  <2>2. Restored.policy = mem.policy /\ Restored.fences = mem.fences
        /\ Restored.topology = None /\ Restored.revalidation = mem.revalidation
    BY DEF Restored, Booting
  <2>3. Agrees(live', mem')
    BY <2>1, <2>2 DEF Agrees, SameConfig
  <2> QED
    BY <2>1, <2>3 DEF InStep
<1>6. CASE Dies
  BY <1>6, IdleAts DEF Dies, Crash, InStep
<1>7. CASE Request
  BY <1>7, RequestInStep
<1>8. CASE WriteSucceeds
  <2>1. proc = "up" /\ Agrees(call.done, pending.after) /\ proc' = "up"
        /\ mem' = pending.after /\ pending' = NoWrite /\ live' = call.done /\ call' = Idle
    BY <1>1, <1>8 DEF WriteSucceeds, SyncOk, InStep
  <2>2. Agrees(live', mem')
    BY <2>1, Zenon
  <2> QED
    BY <2>1, <2>2, IdleAts DEF InStep
<1>9. CASE WriteFails
  <2>1. Agrees(call.failed, mem) /\ proc' = "up" /\ mem' = mem /\ pending' = NoWrite
        /\ live' = call.failed /\ call' = Idle
    BY <1>2, <1>9 DEF WriteFails, InStep
  <2>2. Agrees(live', mem')
    BY <2>1, Zenon
  <2> QED
    BY <2>1, <2>2, IdleAts DEF InStep
<1>10. CASE AppendFails
  <2>1. live' = live /\ call' = call /\ proc' = proc /\ mem' = mem /\ pending' = pending
    BY <1>2, <1>10 DEF AppendFails, regVars
  <2> QED
    BY <2>1 DEF InStep
\* The sync of an attempt's record: what the fabric serves is not touched.
<1>11. ASSUME SyncOk, call.at \in {"begin", "commit", "abort"}, live' = live,
              call'.at \in {"idle", "lineages", "compact"}
       PROVE  InStep'
  <2>1. proc = "up" /\ Agrees(live, mem) /\ SameConfig(pending.after, mem) /\ proc' = "up"
        /\ mem' = pending.after /\ pending' = NoWrite
    BY <1>1, <1>11 DEF SyncOk, InStep
  <2>2. Agrees(live', mem')
    BY <1>11, <2>1 DEF Agrees, SameConfig
  <2> QED
    BY <1>11, <2>1, <2>2 DEF InStep
<1>12. CASE AttemptBegun
  <2>1. call'.at = "lineages" /\ live' = live
    BY <1>0, <1>12 DEF AttemptBegun, CallShape
  <2> QED
    BY <1>11, <1>12, <2>1 DEF AttemptBegun
<1>13. CASE BeginFails
  BY <1>1, <1>2, <1>13, IdleAts DEF BeginFails, InStep
<1>14. CASE RecordNext
  <2>1. proc = "up" /\ Agrees(live, mem) /\ live' = live /\ call'.at = "lineages"
    BY <1>0, <1>1, <1>14 DEF RecordNext, CallShape
  <2>2. proc' = proc /\ pending' = pending /\ ~pending.on
    BY <1>14, <2>1 DEF RecordNext, RecordLineage, CanAppend
  <2>3. PICK ls : mem' = [mem EXCEPT !.lineages = ls]
    BY <1>14 DEF RecordNext, RecordLineage
  <2>4. Agrees(live', mem')
    BY <1>0, <2>1, <2>3 DEF Agrees, StateForms
  <2> QED
    BY <2>1, <2>2, <2>4 DEF InStep
<1>15. CASE RecordFails
  <2>1. proc = "up" /\ ~pending.on /\ live' = live /\ call'.at = "abort" /\ Agrees(live, mem)
    BY <1>0, <1>1, <1>15 DEF RecordFails, CallShape, InStep
  <2>2. proc' = proc /\ mem' = mem /\ pending' = pending
    BY <1>2, <1>15 DEF RecordFails, vars, procVars
  <2> QED
    BY <2>1, <2>2 DEF InStep
<1>16. CASE CommitToLedger
  <2>1. PICK applied \in SUBSET ({l.source : l \in call.accepted} \X Resources),
             next \in {"commit", "abort"} :
          /\ live' = [live EXCEPT !.known = Marked, !.pressure = @ \cup applied]
          /\ call' = [call EXCEPT !.at = next]
    BY <1>16 DEF CommitToLedger
  <2>2. call'.at \in {"commit", "abort"}
    BY <1>0, <2>1 DEF CallShape
  <2>3. ASSUME NEW known, NEW v, v = [live EXCEPT !.known = known,
                                                  !.pressure = @ \cup applied]
        PROVE  SameConfig(v, live)
    BY <1>0, <2>3 DEF SameConfig, LiveShape
  <2>4. SameConfig(live', live)
    BY <2>1, <2>3, Zenon
  <2>5. proc = "up" /\ ~pending.on /\ UNCHANGED <<proc, mem, pending>>
    BY <1>1, <1>16 DEF CommitToLedger, InStep, vars, procVars
  <2> QED
    BY <2>2, <2>4, <2>5, QuietInStep
<1>17. CASE CommitTruncated
  <2>1. call'.at = "commit" /\ live' = live /\ UNCHANGED <<proc, mem, pending>>
    BY <1>0, <1>17 DEF CommitTruncated, CallShape, vars, procVars
  <2>2. proc = "up" /\ ~pending.on /\ SameConfig(live', live)
    BY <1>1, <1>17, <2>1 DEF CommitTruncated, InStep, SameConfig
  <2> QED
    BY <2>1, <2>2, QuietInStep
<1>18. CASE Conclude
  <2> DEFINE type == IF call.at = "commit" THEN "AttemptCommit" ELSE "AttemptAbort"
             after == [mem EXCEPT !.attempts = @ \ {call.attempt}]
  <2>1. Write([type |-> type, arg |-> call.attempt], after, "up") /\ live' = live /\ call' = call
        /\ call.at \in {"commit", "abort"}
    BY <1>18 DEF Conclude, ConcludeAttempt, Operation, regVars
  <2>2. SameConfig(after, mem)
    BY <1>0 DEF SameConfig, StateForms
  <2> HIDE DEF type, after
  <2>3. pending'.on /\ pending'.after = after /\ pending'.next = "up" /\ proc' = proc
        /\ mem' = mem
    BY <2>1, WriteFields, Zenon
  <2>4. SameConfig(pending'.after, mem')
    BY <2>2, <2>3, Zenon
  <2>5. proc = "up" /\ Agrees(live, mem)
    BY <1>1, <2>1
  <2> QED
    BY <2>1, <2>3, <2>4, <2>5 DEF InStep
<1>19. CASE Concluded
  BY <1>11, <1>19, IdleAts DEF Concluded
<1>20. CASE ConcludeFails
  <2>1. live' = live /\ call' = Idle /\ proc = "up" /\ Agrees(live, mem)
    BY <1>1, <1>20 DEF ConcludeFails
  <2>2. proc' = proc /\ mem' = mem /\ ~pending'.on
    BY <1>2, <1>20 DEF ConcludeFails, vars, procVars
  <2> QED
    BY <2>1, <2>2, IdleAts DEF InStep
<1>21. CASE StartCompaction
  <2>1. live' = live /\ call' = Idle /\ proc = "up" /\ Agrees(live, mem) /\ ~pending.on
    BY <1>1, <1>21 DEF StartCompaction, InStep
  <2>2. mem' = mem /\ pending' = pending /\ proc' \in {"up", "compact"}
    BY <1>21 DEF StartCompaction, Compact, StartRewrite, vars, procVars
  <2> QED
    BY <2>1, <2>2, IdleAts DEF InStep
<1>22. CASE Compacts
  <2>1. live' = live /\ call' = call
    BY <1>22 DEF Compacts, regVars
  <2>2. CASE RewriteRecord \/ RivalOpen
    BY <2>1, <2>2 DEF RewriteRecord, RivalOpen, procVars, InStep
  <2>3. CASE Rename \/ RewriteFails
    BY <2>1, <2>3 DEF Rename, RewriteFails, InStep
  <2> QED
    BY <1>22, <2>2, <2>3 DEF Compacts
<1> QED
  BY <1>3, <1>4, <1>5, <1>6, <1>7, <1>8, <1>9, <1>10, <1>12, <1>13, <1>14, <1>15, <1>16, <1>17,
     <1>18, <1>19, <1>20, <1>21, <1>22, Zenon DEF RegNext

LEMMA InStepAlways == RegSpec => []InStep
<1>1. RegInit => InStep
  BY IdleAts, NoWriteOff DEF RegInit, Init, InStep
<1>2. StoreTypeOK /\ RegTypes /\ InStep /\ [RegNext]_<<vars, regVars>> => InStep'
  <2>1. InStep /\ UNCHANGED <<vars, regVars>> => InStep'
    BY DEF InStep, vars, procVars, regVars
  <2> QED
    BY <2>1, RegInStep
<1> QED
  BY <1>1, <1>2, RegTypesAlways, FabricRunsStore, StoreTypeCorrect, PTL DEF RegSpec

\* What the fabric serves from its members is what its store remembers, for any number of
\* publishers, fences and restarts: a write that fails, a limit that is met after the sync
\* and a death in the middle of a call never part the two.
THEOREM LiveStateAlwaysDurable == RegSpec => []LiveStateIsDurable
<1>1. InStep => LiveStateIsDurable
  BY DEF InStep, Agrees, LiveStateIsDurable
<1> QED
  BY <1>1, InStepAlways, PTL

-----------------------------------------------------------------------------
(* The attempts a dead process left open. *)

\* The identifiers this process has taken.
Taken(n) == {a \in Nat : a < n}

\* The attempts on record are those left over and some of this process.
Holds(old, as, n) == old \subseteq as /\ as \subseteq old \cup Taken(n)

Ambiguous ==
    /\ leftover \subseteq Attempts
    /\ duplicates \in Nat
    /\ proc \in {"up", "compact"} => Holds(leftover, mem.attempts, live.attempts)
    /\ (proc = "up" /\ pending.on) => Holds(leftover, pending.after.attempts, live.attempts)
    /\ (proc = "epoch" /\ pending.on) => pending.after.attempts = mem.attempts
    /\ call.at \in Attempting => /\ call.attempt \notin leftover
                                 /\ call.attempt \in Taken(live.attempts)
    /\ call.at = "write" => /\ call.done.attempts = live.attempts
                            /\ call.failed.attempts = live.attempts
    /\ proc \notin {"up", "compact"} => duplicates = 0
    /\ duplicates <= Cardinality(leftover \cap Taken(live.attempts))

\* What the leftover identifiers below a bound count to.
LEMMA TakenCounts ==
    ASSUME NEW S \in SUBSET Attempts, NEW n \in Nat
    PROVE  /\ IsFiniteSet(S \cap Taken(n)) /\ Cardinality(S \cap Taken(n)) \in Nat
           /\ Cardinality(S \cap Taken(n)) <= Cardinality(S)
           /\ \A m \in Nat : n <= m =>
                 /\ Taken(n) \subseteq Taken(m)
                 /\ Cardinality(S \cap Taken(n)) <= Cardinality(S \cap Taken(m))
           /\ n + 1 \in S => Cardinality(S \cap Taken(n)) + 1 <= Cardinality(S \cap Taken(n + 2))
<1>1. ASSUME NEW m \in Nat
      PROVE  IsFiniteSet(S \cap Taken(m)) /\ Cardinality(S \cap Taken(m)) \in Nat
  <2>1. IsFiniteSet(S \cap Taken(m))
    BY FS_Subset, StoreAssumption
  <2> QED
    BY <2>1, FS_CardinalityType
<1>2. Cardinality(S \cap Taken(n)) <= Cardinality(S)
  <2>1. IsFiniteSet(S) /\ S \cap Taken(n) \in SUBSET S
    BY FS_Subset, StoreAssumption
  <2> QED
    BY <2>1, FS_Subset
<1>3. ASSUME NEW m \in Nat, n <= m
      PROVE  /\ Taken(n) \subseteq Taken(m)
             /\ Cardinality(S \cap Taken(n)) <= Cardinality(S \cap Taken(m))
  <2>1. Taken(n) \subseteq Taken(m)
    BY <1>3 DEF Taken
  <2>2. S \cap Taken(n) \in SUBSET (S \cap Taken(m))
    BY <2>1
  <2> QED
    BY <1>1, <2>1, <2>2, FS_Subset
<1>4. ASSUME n + 1 \in S
      PROVE  Cardinality(S \cap Taken(n)) + 1 <= Cardinality(S \cap Taken(n + 2))
  <2> DEFINE T == S \cap Taken(n)
             U == S \cap Taken(n + 2)
  <2>1. T \cup {n + 1} \in SUBSET U /\ n + 1 \notin T
    BY <1>4 DEF Taken
  <2>2. IsFiniteSet(T) /\ IsFiniteSet(U)
    BY <1>1
  <2> HIDE DEF T, U
  <2>3. Cardinality(T \cup {n + 1}) = Cardinality(T) + 1
    BY <2>1, <2>2, FS_AddElement
  <2>4. Cardinality(T \cup {n + 1}) <= Cardinality(U)
    BY <2>1, <2>2, FS_Subset
  <2> QED
    BY <2>3, <2>4 DEF T, U
<1> QED
  BY <1>1, <1>2, <1>3, <1>4

\* A step that leaves the history alone and takes at most two identifiers.
LEMMA AmbiguousGrows ==
    ASSUME Ambiguous, LiveTypes(live), UNCHANGED <<leftover, duplicates>>,
           live'.attempts \in {live.attempts, live.attempts + 1, live.attempts + 2}
    PROVE  /\ duplicates' <= Cardinality(leftover' \cap Taken(live'.attempts))
           /\ Taken(live.attempts) \subseteq Taken(live'.attempts)
           /\ \A as : Holds(leftover, as, live.attempts) => Holds(leftover', as, live'.attempts)
<1>1. leftover \in SUBSET Attempts /\ live.attempts \in Nat /\ live'.attempts \in Nat
      /\ live.attempts <= live'.attempts /\ duplicates \in Nat
      /\ duplicates <= Cardinality(leftover \cap Taken(live.attempts))
  BY DEF Ambiguous, LiveTypes
<1>2. /\ Taken(live.attempts) \subseteq Taken(live'.attempts)
      /\ Cardinality(leftover \cap Taken(live.attempts))
            <= Cardinality(leftover \cap Taken(live'.attempts))
  BY <1>1, TakenCounts
<1>3. /\ Cardinality(leftover \cap Taken(live.attempts)) \in Nat
      /\ Cardinality(leftover \cap Taken(live'.attempts)) \in Nat
  BY <1>1, TakenCounts
<1>4. duplicates' <= Cardinality(leftover' \cap Taken(live'.attempts))
  BY <1>1, <1>2, <1>3
<1> QED
  BY <1>2, <1>4 DEF Holds

\* A step that leaves the attempts on record alone, or appends a record that does.
LEMMA AmbiguousStays ==
    ASSUME Ambiguous, LiveTypes(live), UNCHANGED <<leftover, duplicates>>,
           live'.attempts \in {live.attempts, live.attempts + 1, live.attempts + 2},
           (proc' \in {"up", "compact"}) <=> (proc \in {"up", "compact"}),
           proc' \in {"up", "compact"} => mem'.attempts = mem.attempts,
           (proc' = "up" /\ pending'.on)
              => Holds(leftover, pending'.after.attempts, live'.attempts),
           (proc' = "epoch" /\ pending'.on) => pending'.after.attempts = mem'.attempts,
           call'.at \in Attempting => /\ call'.attempt \notin leftover
                                      /\ call'.attempt \in Taken(live'.attempts),
           call'.at = "write" => /\ call'.done.attempts = live'.attempts
                                 /\ call'.failed.attempts = live'.attempts
    PROVE  Ambiguous'
<1>1. /\ duplicates' <= Cardinality(leftover' \cap Taken(live'.attempts))
      /\ \A as : Holds(leftover, as, live.attempts) => Holds(leftover', as, live'.attempts)
  BY AmbiguousGrows
<1>2. proc' \in {"up", "compact"} => Holds(leftover', mem'.attempts, live'.attempts)
  BY <1>1 DEF Ambiguous
<1>3. leftover' \subseteq Attempts /\ duplicates' \in Nat
      /\ (proc' \notin {"up", "compact"} => duplicates' = 0)
  BY DEF Ambiguous
<1> QED
  BY <1>1, <1>2, <1>3, Zenon DEF Ambiguous

LEMMA WritesAmbiguous ==
    ASSUME Ambiguous, LiveTypes(live), proc = "up", Writes
    PROVE  Ambiguous'
<1>0. PICK r, after, done, failed :
        /\ Write(r, after, "up")
        /\ call' = [Idle EXCEPT !.at = "write", !.done = done, !.failed = failed]
        /\ after.attempts = mem.attempts
        /\ done.attempts = live.attempts /\ failed.attempts = live.attempts
        /\ UNCHANGED <<live, leftover, duplicates>>
  BY Zenon DEF Writes
<1>1. call'.at = "write" /\ call'.done = done /\ call'.failed = failed
  BY <1>0 DEF Idle
<1>2. pending'.on /\ pending'.after = after /\ proc' = proc /\ mem' = mem
  BY <1>0, WriteFields, Zenon
<1>3. Holds(leftover, pending'.after.attempts, live'.attempts)
  BY <1>0, <1>2 DEF Ambiguous
<1> QED
  BY <1>0, <1>1, <1>2, <1>3, AmbiguousStays DEF Attempting

LEMMA AttemptAmbiguous ==
    ASSUME StoreTypeOK, RegTypes, Ambiguous, proc = "up", call.at = "idle", ~pending.on,
           NEW signals, NEW accepted, Attempt(signals, accepted)
    PROVE  Ambiguous'
<1> DEFINE n == live.attempts
<1>0. LiveTypes(live) /\ n \in Nat /\ leftover \in SUBSET Attempts /\ duplicates \in Nat
      /\ mem.attempts \subseteq leftover \cup Taken(n) /\ leftover \subseteq mem.attempts
      /\ duplicates <= Cardinality(leftover \cap Taken(n))
  BY DEF RegTypes, LiveTypes, Ambiguous, Holds
<1>1. /\ live'.attempts = n + 2 /\ leftover' = leftover
      /\ Begins(n + 1) \/ Refused(n + 1) \/ NotBegun
  BY AttemptCases
<1>2. CASE Begins(n + 1)
  <2>1. PICK r, after : Write(r, after, "up")
                        /\ after = [mem EXCEPT !.attempts = @ \cup {n + 1}]
    BY <1>2 DEF Begins
  <2>2. pending'.on /\ pending'.after = after /\ proc' = proc /\ mem' = mem
    BY <2>1, WriteFields, Zenon
  <2>3. after.attempts = mem.attempts \cup {n + 1}
    BY <2>1 DEF StoreTypeOK, State, StateForms
  <2>4. Taken(n) \subseteq Taken(n + 2) /\ n + 1 \in Taken(n + 2)
    BY <1>0 DEF Taken
  <2>5. Holds(leftover, pending'.after.attempts, live'.attempts)
    BY <1>0, <1>1, <2>2, <2>3, <2>4 DEF Holds
  <2>6. call'.at = "begin" /\ call'.attempt = n + 1 /\ n + 1 \notin leftover
        /\ duplicates' = duplicates
    BY <1>0, <1>2 DEF Begins
  <2> QED
    BY <1>0, <1>1, <2>2, <2>4, <2>5, <2>6, AmbiguousStays
<1>3. CASE Refused(n + 1)
  <2>1. n + 1 \in leftover
    BY <1>0, <1>3 DEF Refused, Taken
  <2>2. Cardinality(leftover \cap Taken(n)) + 1 <= Cardinality(leftover \cap Taken(n + 2))
        /\ Cardinality(leftover \cap Taken(n)) \in Nat /\ Taken(n) \subseteq Taken(n + 2)
    <3>1. n + 2 \in Nat /\ n <= n + 2
      BY <1>0
    <3> HIDE DEF n
    <3>2. Cardinality(leftover \cap Taken(n)) + 1 <= Cardinality(leftover \cap Taken(n + 2))
          /\ Cardinality(leftover \cap Taken(n)) \in Nat
      BY <1>0, <2>1, TakenCounts, Zenon
    <3>3. Taken(n) \subseteq Taken(n + 2)
      BY <1>0, <3>1, TakenCounts, Zenon
    <3> QED
      BY <3>2, <3>3
  <2>3. Cardinality(leftover \cap Taken(n + 2)) \in Nat
    <3>1. n + 2 \in Nat
      BY <1>0
    <3> HIDE DEF n
    <3> QED
      BY <1>0, <3>1, TakenCounts, Zenon
  <2>4. duplicates' = duplicates + 1 /\ call'.at = "idle" /\ UNCHANGED <<proc, mem, pending>>
    BY <1>3 DEF Refused
  <2>5. duplicates' \in Nat /\ duplicates' <= Cardinality(leftover' \cap Taken(live'.attempts))
    BY <1>0, <1>1, <2>2, <2>3, <2>4
  <2>6. Holds(leftover', mem'.attempts, live'.attempts)
    BY <1>0, <1>1, <2>2, <2>4 DEF Holds
  <2> QED
    BY <1>0, <1>1, <2>4, <2>5, <2>6 DEF Ambiguous, Attempting
<1>4. CASE NotBegun
  BY <1>0, <1>1, <1>4, AmbiguousStays DEF NotBegun, Attempting
<1> QED
  BY <1>1, <1>2, <1>3, <1>4

LEMMA RequestAmbiguous ==
    ASSUME StoreTypeOK, RegTypes, InStep, Ambiguous, Request
    PROVE  Ambiguous'
<1>0. LiveTypes(live)
  BY DEF RegTypes
<1>1. CASE Writes
  BY <1>0, <1>1, RequestCases, WritesAmbiguous
<1>2. CASE Answers
  BY <1>0, <1>2, RequestCases, AmbiguousStays DEF Answers, Attempting
<1>3. ASSUME NEW signals, NEW accepted, Attempt(signals, accepted)
      PROVE  Ambiguous'
  BY <1>3, RequestCases, AttemptAmbiguous
<1> QED
  BY <1>1, <1>2, <1>3, RequestCases

LEMMA StoreOpensAmbiguous ==
    ASSUME StoreTypeOK, RegTypes, InStep, Ambiguous, StoreOpens
    PROVE  Ambiguous'
<1>0. LiveTypes(live) /\ call.at = "idle" /\ UNCHANGED <<live, call, leftover, duplicates>>
      /\ proc \notin {"up", "compact"} /\ proc' \notin {"up", "compact"}
  <2>1. UNCHANGED <<live, call, leftover, duplicates>>
    BY DEF StoreOpens, regVars, regHist
  <2>2. proc \notin {"up", "compact"} /\ proc' \notin {"up", "compact"}
    BY DEF StoreOpens, Create, WriteHeader, Open, OpenFails, EstablishEpoch, RecordBoot, Write,
       procVars
  <2> QED
    BY <2>1, <2>2 DEF RegTypes, InStep
<1>1. (proc' = "epoch" /\ pending'.on) => pending'.after.attempts = mem'.attempts
  <2>1. CASE RecordBoot
    <3>1. Write([type |-> "Boot", arg |-> boots], [mem EXCEPT !.boot = boots], "up")
      BY <2>1 DEF RecordBoot
    <3>2. pending'.after = [mem EXCEPT !.boot = boots] /\ mem' = mem
      BY <3>1, WriteFields, Zenon
    <3> QED
      BY <3>2 DEF StoreTypeOK, State, StateForms
  <2>2. CASE Create \/ WriteHeader \/ Open \/ OpenFails \/ EstablishEpoch
    BY <2>2 DEF Create, WriteHeader, Open, OpenFails, EstablishEpoch, Write, procVars, Ambiguous
  <2> QED
    BY <2>1, <2>2 DEF StoreOpens
<1> QED
  BY <1>0, <1>1, AmbiguousStays DEF Attempting

\* A commit to the ledger keeps the attempt and takes no identifier.
LEMMA CommitFields ==
    ASSUME LiveShape(live), CallShape(call), CommitToLedger
    PROVE  /\ call'.at \in {"commit", "abort"} /\ call'.attempt = call.attempt
           /\ live'.attempts = live.attempts
<1>1. PICK applied \in SUBSET ({l.source : l \in call.accepted} \X Resources),
           next \in {"commit", "abort"} :
        /\ live' = [live EXCEPT !.known = Marked, !.pressure = @ \cup applied]
        /\ call' = [call EXCEPT !.at = next]
  BY Zenon DEF CommitToLedger
<1>2. call'.at \in {"commit", "abort"} /\ call'.attempt = call.attempt
  BY <1>1 DEF CallShape
<1>3. ASSUME NEW known, NEW v, v = [live EXCEPT !.known = known, !.pressure = @ \cup applied]
      PROVE  v.attempts = live.attempts
  BY <1>3 DEF LiveShape
<1>4. live'.attempts = live.attempts
  BY <1>1, <1>3, Zenon
<1> QED
  BY <1>2, <1>4

LEMMA RegAmbiguous ==
    ASSUME StoreTypeOK, RegTypes, InStep, Ambiguous, RegNext
    PROVE  Ambiguous'
<1>0. /\ LiveTypes(live) /\ LiveShape(live) /\ CallShape(call) /\ call.at \in Calls
      /\ mem \in StateForms /\ mem.attempts \subseteq Attempts
  BY DEF RegTypes, LiveTypes, CallTypes, StoreTypeOK, State, StateForms
<1> USE NoWriteOff
\* Inside a call the fabric is up, and both the memory and the record that waits hold the
\* attempts left over.
<1>1. ASSUME call.at # "idle"
      PROVE  /\ proc = "up" /\ Holds(leftover, mem.attempts, live.attempts)
             /\ pending.on => Holds(leftover, pending.after.attempts, live.attempts)
  BY <1>1 DEF InStep, Ambiguous
<1>2. ASSUME ShortWrite \/ SyncFails
      PROVE  /\ proc = "up" /\ proc' = proc /\ mem' = mem
             /\ ShortWrite => ~pending.on /\ pending' = pending
             /\ SyncFails => pending' = NoWrite
  BY <1>2 DEF ShortWrite, SyncFails, CanAppend, procVars
\* The sync of a call's record.
<1>3. ASSUME SyncOk, call.at # "idle", UNCHANGED <<leftover, duplicates>>,
             live'.attempts = live.attempts,
             call'.at \notin Attempting \cup {"write"} \/ call'.attempt = call.attempt,
             call'.at \in Attempting => call.at \in Attempting,
             call'.at # "write"
      PROVE  Ambiguous'
  <2>1. proc' = "up" /\ mem' = pending.after /\ pending' = NoWrite /\ pending.on
    BY <1>1, <1>3 DEF SyncOk, InStep
  <2>2. Holds(leftover', mem'.attempts, live'.attempts)
    BY <1>1, <1>3, <2>1
  <2>3. call'.at \in Attempting => /\ call'.attempt \notin leftover'
                                   /\ call'.attempt \in Taken(live'.attempts)
    BY <1>3 DEF Ambiguous, Attempting
  <2> QED
    BY <1>3, <2>1, <2>2, <2>3 DEF Ambiguous
\* A step inside a call that leaves the attempts of the store alone.
<1>4. ASSUME UNCHANGED <<proc, leftover, duplicates>>, proc = "up",
             pending' \in {pending, NoWrite},
             mem'.attempts = mem.attempts, live'.attempts = live.attempts,
             call'.at # "write",
             call'.at \in Attempting => call.at \in Attempting /\ call'.attempt = call.attempt
      PROVE  Ambiguous'
  <2>1. pending'.on => Holds(leftover, pending'.after.attempts, live'.attempts)
    BY <1>4 DEF Ambiguous
  <2>2. call'.at \in Attempting => /\ call'.attempt \notin leftover
                                   /\ call'.attempt \in Taken(live'.attempts)
    BY <1>4 DEF Ambiguous
  <2> QED
    BY <1>0, <1>4, <2>1, <2>2, AmbiguousStays
<1>5. CASE StoreOpens
  BY <1>5, StoreOpensAmbiguous
<1>6. CASE EpochEstablished
  <2>1. UNCHANGED <<live, call, leftover, duplicates>> /\ proc = "opened" /\ proc' = "epoch"
        /\ pending' = NoWrite /\ call.at = "idle"
    BY <1>6 DEF EpochEstablished, SyncOk, InStep, regVars, regHist
  <2> QED
    BY <1>0, <2>1, AmbiguousStays DEF Attempting
<1>7. CASE FabricOpens
  <2>1. /\ mem' = pending.after /\ pending.after.attempts = mem.attempts
        /\ proc' = "up" /\ pending' = NoWrite
        /\ call' = call /\ call.at = "idle" /\ leftover' = mem.attempts
        /\ duplicates' = 0
    BY <1>7 DEF FabricOpens, SyncOk, InStep, Ambiguous
  <2>2. live'.attempts = 1
    BY <1>7 DEF FabricOpens, Restored, Booting
  <2>3. Holds(leftover', mem'.attempts, live'.attempts)
    BY <2>1 DEF Holds
  <2>4. leftover' \in SUBSET Attempts /\ 1 \in Nat
    BY <1>0, <2>1
  <2>5. Cardinality(leftover' \cap Taken(1)) \in Nat
    BY <2>4, TakenCounts, Zenon
  <2>6. duplicates' <= Cardinality(leftover' \cap Taken(live'.attempts))
    BY <2>1, <2>2, <2>5
  <2> QED
    BY <2>1, <2>3, <2>4, <2>6 DEF Ambiguous, Attempting
<1>8. CASE Dies
  <2>1. proc' = "down" /\ pending' = NoWrite /\ call'.at = "idle" /\ leftover' = {}
        /\ duplicates' = 0 /\ live' = Booting
    BY <1>8, IdleAts DEF Dies, Crash
  <2>2. {} \in SUBSET Attempts /\ Booting.attempts = 1 /\ 1 \in Nat
    BY DEF Booting
  <2>3. Cardinality({} \cap Taken(1)) \in Nat
    BY <2>2, TakenCounts, Zenon
  <2>4. duplicates' <= Cardinality(leftover' \cap Taken(live'.attempts))
    BY <2>1, <2>2, <2>3
  <2> QED
    BY <2>1, <2>4 DEF Ambiguous, Attempting
<1>9. CASE Request
  BY <1>9, RequestAmbiguous
<1>10. CASE WriteSucceeds
  <2>1. SyncOk /\ call.at = "write" /\ live' = call.done /\ call'.at = "idle"
        /\ UNCHANGED <<leftover, duplicates>>
    BY <1>10, IdleAts DEF WriteSucceeds, regHist
  <2>2. live'.attempts = live.attempts
    BY <2>1 DEF Ambiguous
  <2> QED
    BY <1>3, <2>1, <2>2 DEF Attempting
<1>11. CASE WriteFails
  <2>1. SyncFails /\ call.at = "write" /\ live' = call.failed /\ call'.at = "idle"
        /\ UNCHANGED <<leftover, duplicates>>
    BY <1>11, IdleAts DEF WriteFails, regHist
  <2>2. live'.attempts = live.attempts
    BY <2>1 DEF Ambiguous
  <2> QED
    BY <1>2, <1>4, <2>1, <2>2 DEF Attempting
<1>12. CASE AppendFails
  <2>1. ShortWrite /\ call.at = "idle" /\ UNCHANGED <<live, call, leftover, duplicates>>
    BY <1>12 DEF AppendFails, regVars, regHist
  <2> QED
    BY <1>2, <1>4, <2>1 DEF Attempting
<1>13. CASE AttemptBegun
  <2>1. SyncOk /\ call.at = "begin" /\ call'.at = "lineages" /\ call'.attempt = call.attempt
        /\ UNCHANGED <<live, leftover, duplicates>>
    BY <1>0, <1>13 DEF AttemptBegun, CallShape, regHist
  <2> QED
    BY <1>3, <2>1 DEF Attempting
<1>14. CASE BeginFails
  <2>1. SyncFails /\ call'.at = "idle" /\ UNCHANGED <<live, leftover, duplicates>>
    BY <1>14, IdleAts DEF BeginFails, regHist
  <2> QED
    BY <1>2, <1>4, <2>1 DEF Attempting
<1>15. CASE RecordNext
  <2>1. call.at = "lineages" /\ call'.at = "lineages" /\ call'.attempt = call.attempt
        /\ UNCHANGED <<live, leftover, duplicates>>
    BY <1>0, <1>15 DEF RecordNext, CallShape, regHist
  <2>2. UNCHANGED <<proc, pending>> /\ proc = "up"
    BY <1>1, <1>15, <2>1 DEF RecordNext, RecordLineage
  <2>3. PICK ls : mem' = [mem EXCEPT !.lineages = ls]
    BY <1>15 DEF RecordNext, RecordLineage
  <2>4. mem'.attempts = mem.attempts
    BY <1>0, <2>3 DEF StateForms
  <2> QED
    BY <1>4, <2>1, <2>2, <2>4 DEF Attempting
<1>16. CASE RecordFails
  <2>1. call.at = "lineages" /\ call'.at = "abort" /\ call'.attempt = call.attempt
        /\ UNCHANGED <<live, leftover, duplicates>>
    BY <1>0, <1>16 DEF RecordFails, CallShape, regHist
  <2>2. UNCHANGED <<proc, mem, pending>> /\ proc = "up"
    BY <1>1, <1>2, <1>16, <2>1 DEF RecordFails, vars, procVars
  <2> QED
    BY <1>4, <2>1, <2>2 DEF Attempting
<1>17. CASE CommitToLedger
  <2>1. call.at = "lineages" /\ call'.at \in {"commit", "abort"}
        /\ call'.attempt = call.attempt /\ live'.attempts = live.attempts
    BY <1>0, <1>17, CommitFields, Zenon DEF CommitToLedger
  <2>2. UNCHANGED <<proc, mem, pending, leftover, duplicates>> /\ proc = "up"
    BY <1>1, <1>17, <2>1 DEF CommitToLedger, vars, procVars
  <2> QED
    BY <1>4, <2>1, <2>2 DEF Attempting
<1>18. CASE CommitTruncated
  <2>1. call.at = "lineages" /\ call'.at = "commit" /\ call'.attempt = call.attempt
        /\ UNCHANGED <<proc, mem, pending, live, leftover, duplicates>>
    BY <1>0, <1>18 DEF CommitTruncated, CallShape, vars, procVars, regHist
  <2>2. proc = "up"
    BY <1>1, <2>1
  <2> QED
    BY <1>4, <2>1, <2>2 DEF Attempting
\* What is concluded is an attempt of this process.
<1>19. CASE Conclude
  <2> DEFINE type == IF call.at = "commit" THEN "AttemptCommit" ELSE "AttemptAbort"
             after == [mem EXCEPT !.attempts = @ \ {call.attempt}]
  <2>1. Write([type |-> type, arg |-> call.attempt], after, "up")
        /\ UNCHANGED <<live, call, leftover, duplicates>> /\ call.at \in {"commit", "abort"}
    BY <1>19 DEF Conclude, ConcludeAttempt, Operation, regVars, regHist
  <2>2. after.attempts = mem.attempts \ {call.attempt}
    BY <1>0 DEF StateForms
  <2> HIDE DEF type, after
  <2>3. pending'.on /\ pending'.after = after /\ proc' = proc /\ mem' = mem
    BY <2>1, WriteFields, Zenon
  <2>4. proc = "up" /\ Holds(leftover, mem.attempts, live.attempts)
    BY <1>1, <2>1
  <2>5. call.attempt \notin leftover /\ call.attempt \in Taken(live.attempts)
    BY <2>1 DEF Ambiguous, Attempting
  <2>6. Holds(leftover, pending'.after.attempts, live'.attempts)
    BY <2>1, <2>2, <2>3, <2>4, <2>5 DEF Holds
  <2> QED
    BY <1>0, <2>1, <2>3, <2>4, <2>5, <2>6, AmbiguousStays
<1>20. CASE Concluded
  <2>1. SyncOk /\ call.at \in {"commit", "abort"} /\ call'.at \in {"idle", "compact"}
        /\ UNCHANGED <<live, leftover, duplicates>>
    BY <1>20, IdleAts DEF Concluded, regHist
  <2> QED
    BY <1>3, <2>1 DEF Attempting
<1>21. CASE ConcludeFails
  <2>1. call.at \in {"commit", "abort"} /\ call'.at = "idle"
        /\ UNCHANGED <<live, leftover, duplicates>>
    BY <1>21, IdleAts DEF ConcludeFails, regHist
  <2>2. UNCHANGED <<proc, mem>> /\ pending' \in {pending, NoWrite} /\ proc = "up"
    BY <1>1, <1>2, <1>21, <2>1 DEF ConcludeFails, vars, procVars
  <2> QED
    BY <1>4, <2>1, <2>2 DEF Attempting
<1>22. CASE StartCompaction
  <2>1. call'.at = "idle" /\ proc = "up" /\ ~pending.on
        /\ UNCHANGED <<live, leftover, duplicates>>
    BY <1>22, IdleAts DEF StartCompaction, regHist, InStep
  <2>2. UNCHANGED <<mem, pending>> /\ proc' \in {"up", "compact"}
    BY <1>22 DEF StartCompaction, Compact, StartRewrite, vars, procVars
  <2> QED
    BY <1>0, <2>1, <2>2, AmbiguousStays DEF Attempting
<1>23. CASE Compacts
  <2>1. UNCHANGED <<live, call, leftover, duplicates>>
    BY <1>23 DEF Compacts, regVars, regHist
  <2>2. CASE RivalOpen
    <3>1. UNCHANGED <<proc, mem, pending>>
      BY <2>2 DEF RivalOpen, procVars
    <3> QED
      BY <2>1, <3>1, Zenon DEF Ambiguous
  <2>3. CASE RewriteRecord \/ Rename \/ RewriteFails
    <3>1. proc = "compact" /\ proc' \in {"up", "compact"} /\ UNCHANGED <<mem, pending>>
      BY <2>3 DEF RewriteRecord, Rename, RewriteFails
    <3>2. call.at = "idle" /\ ~pending.on
      BY <3>1 DEF InStep
    <3> QED
      BY <1>0, <2>1, <3>1, <3>2, AmbiguousStays DEF Attempting
  <2> QED
    BY <1>23, <2>2, <2>3 DEF Compacts
<1> QED
  BY <1>5, <1>6, <1>7, <1>8, <1>9, <1>10, <1>11, <1>12, <1>13, <1>14, <1>15, <1>16, <1>17, <1>18,
     <1>19, <1>20, <1>21, <1>22, <1>23, Zenon DEF RegNext

\* No publish concludes an attempt that a dead process left open, although both take their
\* identifiers from 1, and each such attempt refuses at most one publish: for any number
\* of publishes and attempts, and wherever processes die or writes fail.
THEOREM AmbiguityAlwaysKept == RegSpec => []AmbiguityIsKept
<1>1. RegInit => Ambiguous
  <2> SUFFICES ASSUME RegInit
               PROVE  Ambiguous
    OBVIOUS
  <2>1. proc = "down" /\ pending = NoWrite /\ call.at = "idle" /\ leftover = {}
        /\ duplicates = 0 /\ live = Booting
    BY IdleAts DEF RegInit, Init
  <2>2. {} \in SUBSET Attempts /\ Booting.attempts = 1 /\ 1 \in Nat
    BY DEF Booting
  <2>3. Cardinality({} \cap Taken(1)) \in Nat
    BY <2>2, TakenCounts, Zenon
  <2>4. duplicates <= Cardinality(leftover \cap Taken(live.attempts))
    BY <2>1, <2>2, <2>3
  <2> QED
    BY <2>1, <2>4, NoWriteOff DEF Ambiguous, Attempting
<1>2. StoreTypeOK /\ RegTypes /\ InStep /\ Ambiguous /\ [RegNext]_<<vars, regVars>>
        => Ambiguous'
  <2>1. Ambiguous /\ UNCHANGED <<vars, regVars>> => Ambiguous'
    BY Zenon DEF Ambiguous, vars, procVars, regVars, regHist
  <2> QED
    BY <2>1, RegAmbiguous
<1>3. RegTypes /\ Ambiguous => AmbiguityIsKept
  <2> SUFFICES ASSUME RegTypes, Ambiguous
               PROVE  AmbiguityIsKept
    OBVIOUS
  <2>1. leftover \in SUBSET Attempts /\ live.attempts \in Nat /\ duplicates \in Nat
    BY DEF Ambiguous, RegTypes, LiveTypes
  <2>2. Cardinality(leftover \cap Taken(live.attempts)) \in Nat
        /\ Cardinality(leftover \cap Taken(live.attempts)) <= Cardinality(leftover)
    BY <2>1, TakenCounts, Zenon
  <2>3. Cardinality(leftover) \in Nat
    <3>1. IsFiniteSet(leftover)
      BY <2>1, FS_Subset, StoreAssumption
    <3> QED
      BY <3>1, FS_CardinalityType
  <2>4. duplicates <= Cardinality(leftover)
    BY <2>1, <2>2, <2>3 DEF Ambiguous
  <2> QED
    BY <2>4 DEF AmbiguityIsKept, Ambiguous, Holds
<1> QED
  BY <1>1, <1>2, <1>3, RegTypesAlways, InStepAlways, FabricRunsStore, StoreTypeCorrect, PTL
     DEF RegSpec

-----------------------------------------------------------------------------
(* No effect goes unrecorded. *)

\* Replay fails at such a file, or stops before its end.
Unusable(o) == ~o.ok \/ o.torn

Listed(s, l) == l \in Range(s.lineages) \/ Len(s.lineages) = MaxLineages

\* A lineage that was recorded: the memory has it, and so does the whole file, whether or
\* not the last sync failed.
LineageKept(l) ==
    /\ Listed(mem, l)
    /\ pending.on => Listed(pending.after, l)
    /\ Unusable(End) \/ Listed(End.state, l)

\* At whichever point the process dies, the next one finds the lineage or the attempt.
Found(l, a) ==
    /\ LineageKept(l)
    /\ \A o \in CrashOutcomes : Unusable(o) \/ Listed(o.state, l) \/ a \in o.state.attempts

AttemptKept(a) == \A o \in CrashOutcomes : Unusable(o) \/ a \in o.state.attempts

\* A publish has its attempt on disk before it records the first lineage, and every
\* lineage it accepts in the file before it commits to the ledger.
EffectsKept ==
    /\ proc = "down" => effects = {}
    /\ \A e \in effects : Found(e.lineage, e.attempt)
    /\ call.at \in {"begin", "lineages"} => call.accepted \subseteq Range(call.signals)
    /\ call.at = "begin" => /\ call.recorded = 0
                            /\ Unusable(End) \/ call.attempt \in End.state.attempts
    /\ call.at = "lineages" =>
          /\ AttemptKept(call.attempt)
          /\ \A j \in 1..call.recorded :
                j \in DOMAIN call.signals => LineageKept(call.signals[j])

\* remember_lineage() forgets a lineage only when the history is full, and stays full.
LEMMA RememberListed ==
    ASSUME NEW ls \in Seq(Lineages), Len(ls) <= MaxLineages, NEW m \in Lineages, NEW l
    PROVE  /\ (l \in Range(ls) \/ Len(ls) = MaxLineages) =>
                (l \in Range(RememberLineage(ls, m)) \/ Len(RememberLineage(ls, m)) = MaxLineages)
           /\ m \in Range(RememberLineage(ls, m))
<1>0. MaxLineages \in Nat \ {0} /\ Len(ls) \in Nat
  BY StoreAssumption
<1>1. CASE m \in Range(ls)
  BY <1>1 DEF RememberLineage
<1>2. CASE m \notin Range(ls) /\ Len(ls) >= MaxLineages
  <2>1. RememberLineage(ls, m) = Append(Tail(ls), m) /\ ls # <<>> /\ Len(ls) = MaxLineages
    BY <1>0, <1>2 DEF RememberLineage
  <2>2. Tail(ls) \in Seq(Lineages) /\ Len(Tail(ls)) = Len(ls) - 1
    BY <2>1
  <2>3. /\ Len(Append(Tail(ls), m)) = Len(ls)
        /\ Append(Tail(ls), m)[Len(ls)] = m /\ Len(ls) \in DOMAIN Append(Tail(ls), m)
    BY <1>0, <2>1, <2>2
  <2> QED
    BY <2>1, <2>3 DEF Range
<1>3. CASE m \notin Range(ls) /\ ~(Len(ls) >= MaxLineages)
  <2>1. RememberLineage(ls, m) = Append(ls, m) /\ Len(ls) # MaxLineages
    BY <1>0, <1>3 DEF RememberLineage
  <2>2. /\ \A i \in DOMAIN ls : i \in DOMAIN Append(ls, m) /\ Append(ls, m)[i] = ls[i]
        /\ Len(ls) + 1 \in DOMAIN Append(ls, m) /\ Append(ls, m)[Len(ls) + 1] = m
    OBVIOUS
  <2>3. Range(ls) \subseteq Range(Append(ls, m)) /\ m \in Range(Append(ls, m))
    BY <2>2 DEF Range
  <2> QED
    BY <2>1, <2>3
<1> QED
  BY <1>1, <1>2, <1>3

LEMMA ListedReplayed ==
    ASSUME NEW s \in State, NEW r, RecordOK(r), NEW l
    PROVE  /\ Listed(s, l) => Listed(Replayed(s, r), l)
           /\ r.type = "Lineage" => Listed(Replayed(s, r), r.arg)
<1>1. Replayed(s, r).lineages =
        IF r.type = "Lineage" THEN RememberLineage(s.lineages, r.arg) ELSE s.lineages
  BY ReplayedFields
<1>2. s.lineages \in Seq(Lineages) /\ Len(s.lineages) <= MaxLineages
  BY DEF State, StateForms
<1>3. r.type = "Lineage" => r.arg \in Lineages
  BY DEF RecordOK
<1>4. CASE r.type = "Lineage"
  BY <1>1, <1>2, <1>3, <1>4, RememberListed DEF Listed
<1>5. CASE r.type # "Lineage"
  BY <1>1, <1>5 DEF Listed
<1> QED
  BY <1>4, <1>5

\* Every record keeps what the file has listed, and its own lineage or attempt is there.
LEMMA ListedApplied ==
    ASSUME NEW o \in Outcome, NEW r, RecordOK(r)
    PROVE  LET p == ApplyRecord(o, r)
           IN  /\ \A l : Unusable(o) \/ Listed(o.state, l) => Unusable(p) \/ Listed(p.state, l)
               /\ r.type = "Lineage" =>
                    /\ Unusable(p) \/ Listed(p.state, r.arg)
                    /\ \A a : Unusable(o) \/ a \in o.state.attempts =>
                                 Unusable(p) \/ a \in p.state.attempts
               /\ r.type = "AttemptBegin" => Unusable(p) \/ r.arg \in p.state.attempts
<1>0. o.state \in State
  BY DEF Outcome
<1> DEFINE p == ApplyRecord(o, r)
<1>1. CASE Unusable(o)
  BY <1>1, ApplyCases DEF Unusable
<1>2. CASE ~Unusable(o) /\ Rejects(o.state, r)
  BY <1>2, ApplyCases DEF Unusable
<1>3. CASE ~Unusable(o) /\ ~Rejects(o.state, r)
  <2>1. p.state = Replayed(o.state, r)
    BY <1>3, ApplyCases DEF Unusable
  <2>2. Replayed(o.state, r).attempts =
          IF r.type = "AttemptBegin" THEN o.state.attempts \cup {r.arg}
          ELSE IF r.type \in {"AttemptCommit", "AttemptAbort"} THEN o.state.attempts \ {r.arg}
          ELSE o.state.attempts
    BY <1>0, ReplayedFields
  <2> HIDE DEF p
  <2>3. \A l : Listed(o.state, l) => Listed(p.state, l)
    BY <1>0, <2>1, ListedReplayed
  <2>4. r.type = "Lineage" => Listed(p.state, r.arg)
    BY <1>0, <2>1, ListedReplayed
  <2>5. r.type = "Lineage" => p.state.attempts = o.state.attempts
    BY <2>1, <2>2
  <2>6. r.type = "AttemptBegin" => r.arg \in p.state.attempts
    BY <2>1, <2>2
  <2> QED
    BY <1>3, <2>3, <2>4, <2>5, <2>6 DEF p
<1> QED
  BY <1>1, <1>2, <1>3

\* A record cut short makes what is behind it unusable.
LEMMA ShortEnd ==
    ASSUME StoreTypeOK, ShortWrite
    PROVE  Unusable(End')
<1> DEFINE x == [End EXCEPT !.torn = TRUE]
<1>1. tail' = Append(tail, x) /\ tail \in Seq(Outcome)
  BY DEF ShortWrite, StoreTypeOK
<1>2. x.torn = TRUE
  BY EndType, Zenon DEF Outcome
<1> HIDE DEF x
<1>3. End' = x
  BY <1>1 DEF End
<1> QED
  BY <1>2, <1>3, Zenon DEF Unusable

\* While the process lives, a step adds at most the whole file to what a crash may leave.
LEMMA OutcomesGrow ==
    ASSUME TypeInv, Next, proc # "down", proc' # "down"
    PROVE  \A o \in CrashOutcomes' : o \in CrashOutcomes \/ o = End'
<1>0. StoreTypeOK
  BY DEF TypeInv
<1>1. CASE Create \/ Open \/ OpenFails \/ Crash
  BY <1>1 DEF Create, Open, OpenFails, Crash
<1>2. CASE WriteHeader \/ SyncFails \/ RewriteFails \/ RivalOpen \/ Compact \/ RewriteRecord
  <2>1. UNCHANGED <<disk, tail>>
    BY <1>2 DEF WriteHeader, SyncFails, RewriteFails, RivalOpen, Compact, StartRewrite,
                RewriteRecord, fileVars
  <2> QED
    BY <2>1, SameEnd
<1>3. CASE SyncOk \/ Sync \/ Rename
  <2>1. tail' = <<>>
    BY <1>3 DEF SyncOk, Sync, Rename
  <2> QED
    BY <2>1, SyncedEnd
<1>4. CASE ShortWrite
  <2> DEFINE x == [End EXCEPT !.torn = TRUE]
  <2>1. tail' = Append(tail, x) /\ tail \in Seq(Outcome) /\ disk' = disk
    BY <1>0, <1>4 DEF ShortWrite, StoreTypeOK
  <2> HIDE DEF x
  <2>2. \A i \in DOMAIN tail' : (i \in DOMAIN tail /\ tail'[i] = tail[i]) \/ tail'[i] = x
    BY <2>1
  <2>3. \A o \in CrashOutcomes' : o \in CrashOutcomes \/ o = x
    BY <2>1, <2>2 DEF CrashOutcomes, Range
  <2>4. End' = x
    BY <2>1 DEF End
  <2> QED
    BY <2>3, <2>4
<1>5. CASE Writing
  <2>1. PICK r : Journalled(r) /\ disk' = disk
    BY <1>5 DEF Writing, Write
  <2> QED
    BY <1>0, <2>1, JournalledEnd
<1>6. ASSUME NEW m \in Lineages, RecordLineage(m)
      PROVE  \A o \in CrashOutcomes' : o \in CrashOutcomes \/ o = End'
  <2>1. PICK r : Journalled(r) /\ disk' = disk
    BY <1>6 DEF RecordLineage
  <2> QED
    BY <1>0, <2>1, JournalledEnd
<1> QED
  BY <1>1, <1>2, <1>3, <1>4, <1>5, <1>6, StoreCases, Zenon

\* While the process lives, no step of the store loses a lineage that was recorded: not a
\* sync that fails, not a record cut short, and not a compaction, which writes the memory.
LEMMA LineageStep ==
    ASSUME TypeInv, EpochsKept, CompactionKept, Next, proc # "down", proc' # "down", NEW l,
           LineageKept(l)
    PROVE  LineageKept(l)'
<1>0. StoreTypeOK /\ mem \in State /\ End \in Outcome
  BY StoreFacts
<1>k. /\ Listed(mem, l) /\ (pending.on => Listed(pending.after, l))
      /\ Unusable(End) \/ Listed(End.state, l)
  BY DEF LineageKept
<1>1. CASE Create \/ Open \/ OpenFails \/ Crash
  BY <1>1 DEF Create, Open, OpenFails, Crash
<1>2. CASE WriteHeader \/ SyncFails \/ RewriteFails \/ RivalOpen \/ Compact \/ RewriteRecord
  <2>1. UNCHANGED <<disk, tail, mem>> /\ pending' \in {pending, NoWrite}
    BY <1>2 DEF WriteHeader, SyncFails, RewriteFails, RivalOpen, Compact, StartRewrite,
                RewriteRecord, fileVars, procVars
  <2> QED
    BY <1>k, <2>1, SameEnd, NoWriteOff DEF LineageKept
<1>3. CASE SyncOk \/ Sync
  <2>1. End' = End
    BY <1>3, SyncedEnd DEF SyncOk, Sync
  <2>2. \/ mem' = pending.after /\ pending.on /\ pending' = NoWrite
        \/ UNCHANGED <<mem, pending>>
    BY <1>3 DEF SyncOk, Sync, procVars
  <2> QED
    BY <1>k, <2>1, <2>2, NoWriteOff DEF LineageKept
<1>4. CASE ShortWrite
  <2>1. Unusable(End') /\ UNCHANGED <<mem, pending>>
    BY <1>0, <1>4, ShortEnd DEF ShortWrite, procVars
  <2> QED
    BY <1>k, <2>1 DEF LineageKept
<1>5. CASE Writing
  <2>0. PICK r : \E after \in State, next \in ProcStates :
                    RecordOK(r) /\ AsReplayed(r, after) /\ Write(r, after, next)
    BY <1>5, Zenon DEF Writing
  <2>1. PICK after \in State, next \in ProcStates :
                    RecordOK(r) /\ AsReplayed(r, after) /\ Write(r, after, next)
    BY <2>0
  <2>2. Journalled(r) /\ disk' = disk /\ mem' = mem /\ pending'.after = after
    BY <2>1 DEF Write
  <2>3. Listed(after, l)
    BY <1>0, <1>k, <2>1, ListedReplayed DEF AsReplayed
  <2>4. End' = ApplyRecord(End, r)
    BY <1>0, <2>2, JournalledEnd
  <2>5. Unusable(End') \/ Listed(End'.state, l)
    BY <1>0, <1>k, <2>1, <2>4, ListedApplied
  <2> QED
    BY <1>k, <2>2, <2>3, <2>5 DEF LineageKept
<1>6. ASSUME NEW m \in Lineages, RecordLineage(m) PROVE LineageKept(l)'
  <2> DEFINE r == [type |-> "Lineage", arg |-> m]
  <2>1. RecordOK(r) /\ Replayed(mem, r) = [mem EXCEPT !.lineages = RememberLineage(@, m)]
    BY <1>0, LineageRecord
  <2>2. /\ Journalled(r) /\ disk' = disk /\ pending' = pending /\ ~pending.on
        /\ mem' = [mem EXCEPT !.lineages = RememberLineage(@, m)]
    BY <1>6 DEF RecordLineage, CanAppend
  <2> HIDE DEF r
  <2>3. Listed(mem', l)
    BY <1>0, <1>k, <2>1, <2>2, ListedReplayed
  <2>4. End' = ApplyRecord(End, r)
    BY <1>0, <2>2, JournalledEnd
  <2>5. Unusable(End') \/ Listed(End'.state, l)
    BY <1>0, <1>k, <2>1, <2>4, ListedApplied
  <2> QED
    BY <2>2, <2>3, <2>5 DEF LineageKept
<1>7. CASE Rename
  <2>1. End' = temp.outcome /\ UNCHANGED <<mem, pending>>
    BY <1>7, SyncedEnd DEF Rename
  <2>2. temp.outcome.state = mem
    BY <1>7, RenamedIsMemory
  <2> QED
    BY <1>k, <2>1, <2>2 DEF LineageKept
<1> QED
  BY <1>1, <1>2, <1>3, <1>4, <1>5, <1>6, <1>7, StoreCases, Zenon

LEMMA FoundStep ==
    ASSUME TypeInv, EpochsKept, CompactionKept, Next, proc # "down", proc' # "down", NEW l,
           NEW a, Found(l, a)
    PROVE  Found(l, a)'
<1>1. LineageKept(l)'
  BY LineageStep DEF Found
<1>2. \A o \in CrashOutcomes' : o \in CrashOutcomes \/ o = End'
  BY OutcomesGrow
<1>3. Unusable(End') \/ Listed(End'.state, l)
  BY <1>1 DEF LineageKept
<1> QED
  BY <1>1, <1>2, <1>3 DEF Found

\* A record of a lineage leaves the attempts of the file alone and puts its own lineage on
\* record.
LEMMA RecordLineageStep ==
    ASSUME TypeInv, NEW m \in Lineages, RecordLineage(m)
    PROVE  /\ LineageKept(m)'
           /\ \A a : AttemptKept(a) => AttemptKept(a)'
<1>0. StoreTypeOK /\ mem \in State /\ End \in Outcome
  BY StoreFacts
<1> DEFINE r == [type |-> "Lineage", arg |-> m]
<1>1. /\ RecordOK(r) /\ Replayed(mem, r) = [mem EXCEPT !.lineages = RememberLineage(@, m)]
      /\ r.type = "Lineage" /\ r.arg = m
  BY <1>0, LineageRecord
<1>2. /\ Journalled(r) /\ disk' = disk /\ pending' = pending /\ ~pending.on
      /\ mem' = [mem EXCEPT !.lineages = RememberLineage(@, m)]
  BY DEF RecordLineage, CanAppend
<1> HIDE DEF r
<1>3. Listed(mem', m)
  BY <1>0, <1>1, <1>2, ListedReplayed
<1>4. /\ End' = ApplyRecord(End, r)
      /\ \A o \in CrashOutcomes' : o \in CrashOutcomes \/ o = ApplyRecord(End, r)
  BY <1>0, <1>2, JournalledEnd
<1>5. Unusable(End') \/ Listed(End'.state, m)
  BY <1>0, <1>1, <1>4, ListedApplied
<1>6. ASSUME NEW a, AttemptKept(a)
      PROVE  AttemptKept(a)'
  <2>1. Unusable(End) \/ a \in End.state.attempts
    BY <1>0, <1>6, EndIsOutcome DEF AttemptKept
  <2>2. Unusable(End') \/ a \in End'.state.attempts
    BY <1>0, <1>1, <1>4, <2>1, ListedApplied
  <2> QED
    BY <1>4, <1>6, <2>2 DEF AttemptKept
<1> QED
  BY <1>2, <1>3, <1>5, <1>6 DEF LineageKept

\* A step that neither kills the process nor commits to the ledger.
LEMMA EffectsStay ==
    ASSUME TypeInv, EpochsKept, CompactionKept, EffectsKept, Next \/ UNCHANGED vars,
           proc' # "down" \/ proc' = proc, effects' = effects
    PROVE  /\ proc' = "down" => effects' = {}
           /\ \A e \in effects' : Found(e.lineage, e.attempt)'
<1>1. CASE proc = "down"
  BY <1>1 DEF EffectsKept
<1>2. CASE proc # "down"
  <2> SUFFICES ASSUME NEW e \in effects
               PROVE  Found(e.lineage, e.attempt)'
    BY <1>2
  <2>1. Found(e.lineage, e.attempt)
    BY DEF EffectsKept
  <2>2. CASE Next
    BY <1>2, <2>1, <2>2, FoundStep
  <2>3. CASE UNCHANGED vars
    <3>1. UNCHANGED <<disk, tail, mem, pending>>
      BY <2>3 DEF vars, fileVars, procVars
    <3> QED
      BY <2>1, <3>1, SameEnd DEF Found, LineageKept
  <2> QED
    BY <2>2, <2>3
<1> QED
  BY <1>1, <1>2

LEMMA QuietEffects ==
    ASSUME TypeInv, EpochsKept, CompactionKept, EffectsKept, Next \/ UNCHANGED vars,
           proc' # "down" \/ proc' = proc, effects' = effects,
           call'.at \notin {"begin", "lineages"}
    PROVE  EffectsKept'
  BY EffectsStay DEF EffectsKept

\* No request commits to the ledger.
LEMMA RequestKeepsEffects ==
    ASSUME Request
    PROVE  effects' = effects
<1>1. ASSUME NEW done, Flushing(done) PROVE effects' = effects
  BY <1>1 DEF Flushing, Persist, regHist
<1>2. ASSUME NEW signals, NEW accepted, Attempt(signals, accepted) PROVE effects' = effects
  BY <1>2 DEF Attempt
<1>3. (\E signals \in Batches : PublishBatch(signals)) => effects' = effects
  BY <1>2 DEF PublishBatch
<1>4. (\E l \in Lineages : Publish(l)) => effects' = effects
  BY <1>2 DEF Publish
<1>5. Flush \/ Shutdown => effects' = effects
  BY <1>1 DEF Flush, Shutdown, regHist
<1>6. PublishNothing \/ (\E s \in Sources : RetirePublisher(s) \/ Recover(s))
      \/ (\E s \in Sources, inc \in Incarnations : RegisterPublisher(s, inc))
      => effects' = effects
  BY DEF PublishNothing, RetirePublisher, Recover, RegisterPublisher, regHist
<1>7. (\E r \in Resources : MarkRevalidationRequired(r) \/ ClearRevalidationRequired(r))
      \/ (\E f \in Fences : ClearFence(f))
      \/ (\E f \in Fences, form \in FenceForms : AddFence(f, form))
      => effects' = effects
  BY DEF MarkRevalidationRequired, ClearRevalidationRequired, ClearFence, AddFence, Change,
         Persist
<1>8. (\E d \in Topologies : InstallTopology(d))
      \/ (\E p \in Policies, g \in 1..MaxGeneration : InstallPolicy(p, g)) => effects' = effects
  BY DEF InstallTopology, InstallPolicy, Change, Persist
<1> QED
  BY <1>3, <1>4, <1>5, <1>6, <1>7, <1>8, Zenon DEF Request

LEMMA AttemptEffects ==
    ASSUME TypeInv, EpochsKept, CompactionKept, RegTypes, InStep, EffectsKept,
           Next \/ UNCHANGED vars, proc = "up", call.at = "idle", effects' = effects,
           NEW signals, NEW accepted \in SUBSET Range(signals), Attempt(signals, accepted)
    PROVE  EffectsKept'
<1> DEFINE attempt == live.attempts + 1
<1>0. attempt \in Attempts
  <2>1. live.attempts \in Nat /\ live.attempts + 2 - 1 \in Attempts
    BY DEF RegTypes, LiveTypes, Attempt, IdentifiersLeft
  <2> QED
    BY <2>1
<1>1. CASE BeginAttempt(attempt)
           /\ call' = [Idle EXCEPT !.at = "begin", !.attempt = attempt,
                                   !.signals = signals, !.accepted = accepted]
  <2> DEFINE r == [type |-> "AttemptBegin", arg |-> attempt]
  <2>1. call'.at = "begin" /\ call'.attempt = attempt /\ call'.signals = signals
        /\ call'.accepted = accepted /\ call'.recorded = 0
    BY <1>1 DEF Idle
  <2>2. Journalled(r) /\ disk' = disk /\ proc' = proc
    BY <1>1 DEF BeginAttempt, Operation, Write
  <2>3. RecordOK(r) /\ r.type = "AttemptBegin" /\ r.arg = attempt
    BY <1>0 DEF RecordOK
  <2> HIDE DEF r
  <2>4. StoreTypeOK /\ End \in Outcome
    BY StoreFacts
  <2>5. End' = ApplyRecord(End, r)
    BY <2>2, <2>4, JournalledEnd
  <2>6. Unusable(End') \/ attempt \in End'.state.attempts
    BY <2>3, <2>4, <2>5, ListedApplied
  <2>7. /\ proc' = "down" => effects' = {}
        /\ \A e \in effects' : Found(e.lineage, e.attempt)'
    BY <2>2, EffectsStay
  <2> HIDE DEF attempt
  <2> QED
    BY <2>1, <2>6, <2>7 DEF EffectsKept
<1>2. CASE call' = Idle /\ UNCHANGED vars
  <2>1. call'.at = "idle" /\ proc' = proc
    BY <1>2, IdleAts DEF vars, procVars
  <2> QED
    BY <2>1, QuietEffects
<1>3. CASE (ShortWrite \/ UNCHANGED vars) /\ call' = call
  <2>1. proc' = proc
    BY <1>3 DEF vars, procVars, ShortWrite
  <2> QED
    BY <1>3, <2>1, QuietEffects
<1> QED
  BY <1>1, <1>2, <1>3, Zenon DEF Attempt, RefuseDuplicate

LEMMA RequestEffects ==
    ASSUME TypeInv, EpochsKept, CompactionKept, RegTypes, InStep, EffectsKept, Request
    PROVE  EffectsKept'
<1>0. effects' = effects /\ (Next \/ UNCHANGED vars) /\ StoreTypeOK
  BY RequestKeepsEffects, RequestSteps DEF TypeInv
<1>1. CASE Writes
  <2>1. proc' = proc /\ call'.at = "write"
    BY <1>1 DEF Writes, Write, Idle
  <2> QED
    BY <1>0, <2>1, QuietEffects
<1>2. CASE Answers
  BY <1>0, <1>2, QuietEffects DEF Answers
<1>3. ASSUME NEW signals, NEW accepted \in SUBSET Range(signals), Attempt(signals, accepted)
      PROVE  EffectsKept'
  BY <1>0, <1>3, RequestCases, AttemptEffects
<1> QED
  BY <1>0, <1>1, <1>2, <1>3, RequestCases

\* The attempt is on disk: the sync made the whole file durable.
LEMMA BegunEffects ==
    ASSUME TypeInv, EpochsKept, CompactionKept, RegTypes, InStep, EffectsKept, AttemptBegun
    PROVE  EffectsKept'
<1>0. CallShape(call) /\ SyncOk /\ Next /\ call.at = "begin" /\ effects' = effects
      /\ call' = [call EXCEPT !.at = "lineages"]
  BY DEF RegTypes, CallTypes, AttemptBegun, Next, regHist
<1>1. /\ call'.at = "lineages" /\ call'.attempt = call.attempt /\ call'.signals = call.signals
      /\ call'.accepted = call.accepted /\ call'.recorded = 0
  BY <1>0 DEF CallShape, EffectsKept
<1>2. proc' = "up"
  BY <1>0 DEF SyncOk, InStep
<1>3. CrashOutcomes' = {End}
  BY <1>0, SyncedEnd DEF SyncOk
<1>4. AttemptKept(call.attempt)'
  <2>1. Unusable(End) \/ call.attempt \in End.state.attempts
    BY <1>0 DEF EffectsKept
  <2> QED
    BY <1>1, <1>3, <2>1 DEF AttemptKept
<1>5. \A e \in effects' : Found(e.lineage, e.attempt)'
  BY <1>0, <1>2, EffectsStay
<1>6. call'.accepted \subseteq Range(call'.signals)
  BY <1>0, <1>1 DEF EffectsKept
<1> QED
  BY <1>1, <1>2, <1>4, <1>5, <1>6 DEF EffectsKept

LEMMA RecordEffects ==
    ASSUME TypeInv, EpochsKept, CompactionKept, RegTypes, InStep, EffectsKept, RecordNext
    PROVE  EffectsKept'
<1>n. PICK n : n = call.recorded + 1
  OBVIOUS
<1>m. PICK m : m = call.signals[n]
  OBVIOUS
<1>0. /\ CallShape(call) /\ call.signals \in Seq(Lineages) /\ call.recorded \in Nat
      /\ call.recorded < Len(call.signals)
      /\ call.at = "lineages" /\ RecordLineage(m) /\ effects' = effects
      /\ call' = [call EXCEPT !.recorded = n]
  BY <1>m, <1>n DEF RegTypes, CallTypes, RecordNext, Unrecorded, regHist
<1>1. n \in DOMAIN call.signals /\ m \in Lineages
  BY <1>0, <1>m, <1>n
<1>2. /\ call'.at = "lineages" /\ call'.attempt = call.attempt /\ call'.signals = call.signals
      /\ call'.accepted = call.accepted /\ call'.recorded = n
  BY <1>0 DEF CallShape
<1>3. proc' = proc /\ proc = "up"
  BY <1>0 DEF RecordLineage, Up
<1>4. Next
  BY <1>0, <1>1, Zenon DEF Next, Serve
<1>5. \A e \in effects' : Found(e.lineage, e.attempt)'
  BY <1>0, <1>3, <1>4, EffectsStay
<1>6. LineageKept(m)' /\ AttemptKept(call.attempt)'
  <2>1. PICK a : a = call.attempt
    OBVIOUS
  <2>2. AttemptKept(a)
    BY <1>0, <2>1 DEF EffectsKept
  <2>3. LineageKept(m)' /\ AttemptKept(a)'
    BY <1>0, <1>1, <2>2, RecordLineageStep
  <2> QED
    BY <1>2, <2>1, <2>3
<1>7. ASSUME NEW j \in 1..n, j \in DOMAIN call.signals
      PROVE  LineageKept(call.signals[j])'
  <2>1. CASE j = n
    BY <1>2, <1>6, <1>m, <2>1
  <2>2. CASE j # n
    <3>1. j \in 1..call.recorded
      BY <1>0, <1>n, <2>2
    <3>2. LineageKept(call.signals[j])
      BY <1>0, <1>7, <3>1 DEF EffectsKept
    <3> QED
      BY <1>2, <1>3, <1>4, <3>2, LineageStep
  <2> QED
    BY <2>1, <2>2
<1>8. call'.accepted \subseteq Range(call'.signals)
  BY <1>0, <1>2 DEF EffectsKept
<1> QED
  BY <1>2, <1>3, <1>5, <1>6, <1>7, <1>8 DEF EffectsKept

\* What is committed was recorded, and its attempt is open on disk.
LEMMA CommitEffects ==
    ASSUME TypeInv, RegTypes, InStep, EffectsKept, CommitToLedger
    PROVE  EffectsKept'
<1>0. /\ call.signals \in Seq(Lineages) /\ call.recorded \in Nat
      /\ ~(call.recorded < Len(call.signals)) /\ call.at = "lineages"
      /\ LiveShape(live) /\ CallShape(call)
      /\ UNCHANGED <<disk, tail, mem, pending, proc>> /\ proc = "up"
  BY DEF RegTypes, CallTypes, LiveTypes, CommitToLedger, Unrecorded, vars, fileVars, procVars,
         InStep
<1>1. call'.at \in {"commit", "abort"}
  BY <1>0, CommitFields
<1>2. ASSUME NEW l \in call.accepted
      PROVE  Found(l, call.attempt)
  <2>1. PICK j \in DOMAIN call.signals : call.signals[j] = l
    BY <1>0 DEF EffectsKept, Range
  <2>2. j \in 1..call.recorded
    BY <1>0
  <2> QED
    BY <1>0, <2>1, <2>2 DEF EffectsKept, Found, AttemptKept
<1>3. ASSUME NEW e \in effects'
      PROVE  Found(e.lineage, e.attempt)
  <2>1. CASE e \in effects
    BY <2>1 DEF EffectsKept
  <2>2. CASE e \notin effects
    <3>1. PICK l \in call.accepted :
            e = [lineage |-> l, attempt |-> call.attempt,
                 stale |-> <<l.source, live.publishers[l.source].inc>> \in superseded]
      BY <1>3, <2>2, Zenon DEF CommitToLedger
    <3>2. e.lineage = l /\ e.attempt = call.attempt
      BY <3>1
    <3> QED
      BY <1>2, <3>2
  <2> QED
    BY <2>1, <2>2
<1>4. \A e \in effects' : Found(e.lineage, e.attempt)'
  BY <1>0, <1>3, SameEnd DEF Found, LineageKept
<1> QED
  BY <1>0, <1>1, <1>4 DEF EffectsKept

LEMMA RegEffects ==
    ASSUME TypeInv, EpochsKept, CompactionKept, RegTypes, InStep, EffectsKept, RegNext
    PROVE  EffectsKept'
<1>0. /\ CallShape(call) /\ (Next \/ UNCHANGED vars)
      /\ proc # "up" => call.at = "idle"
  BY RegSteps DEF RegTypes, CallTypes, InStep
<1>1. ASSUME SyncOk
      PROVE  proc' # "down"
  BY <1>1 DEF SyncOk, InStep
<1>2. ASSUME ShortWrite \/ SyncFails \/ UNCHANGED vars
      PROVE  proc' = proc
  BY <1>2 DEF ShortWrite, SyncFails, vars, procVars
<1>3. CASE StoreOpens
  <2>1. effects' = effects /\ call' = call /\ proc # "up"
    BY <1>3 DEF StoreOpens, regVars, regHist, Create, WriteHeader, Open, OpenFails,
                EstablishEpoch, RecordBoot
  <2>2. proc' # "down" \/ proc' = proc
    BY <1>3 DEF StoreOpens, Create, WriteHeader, Open, OpenFails, EstablishEpoch, RecordBoot,
                Write, procVars
  <2> QED
    BY <1>0, <2>1, <2>2, QuietEffects
<1>4. CASE EpochEstablished
  BY <1>0, <1>1, <1>4, QuietEffects DEF EpochEstablished, regVars, regHist
<1>5. CASE FabricOpens
  BY <1>0, <1>1, <1>5, QuietEffects DEF FabricOpens
<1>6. CASE Dies
  <2>1. effects' = {} /\ call'.at = "idle"
    BY <1>6, IdleAts DEF Dies
  <2> QED
    BY <2>1 DEF EffectsKept
<1>7. CASE Request
  BY <1>7, RequestEffects
<1>8. CASE WriteSucceeds \/ WriteFails \/ BeginFails
  <2>1. effects' = effects /\ call'.at = "idle" /\ (SyncOk \/ SyncFails)
    BY <1>8, IdleAts DEF WriteSucceeds, WriteFails, BeginFails, regHist
  <2> QED
    BY <1>0, <1>1, <1>2, <2>1, QuietEffects
<1>9. CASE AppendFails
  BY <1>0, <1>2, <1>9, QuietEffects DEF AppendFails, regVars, regHist
<1>10. CASE AttemptBegun
  BY <1>10, BegunEffects
<1>11. CASE RecordNext
  BY <1>11, RecordEffects
<1>12. CASE RecordFails
  <2>1. effects' = effects /\ call'.at = "abort" /\ (ShortWrite \/ UNCHANGED vars)
    BY <1>0, <1>12 DEF RecordFails, regHist, CallShape
  <2> QED
    BY <1>0, <1>2, <2>1, QuietEffects
<1>13. CASE CommitToLedger
  BY <1>13, CommitEffects
<1>14. CASE CommitTruncated
  <2>1. effects' = effects /\ call'.at = "commit" /\ UNCHANGED vars
    BY <1>0, <1>14 DEF CommitTruncated, regHist, CallShape
  <2> QED
    BY <1>0, <1>2, <2>1, QuietEffects
<1>15. CASE Conclude
  <2>1. effects' = effects /\ call' = call /\ call.at \in {"commit", "abort"} /\ proc' = proc
    BY <1>15 DEF Conclude, regVars, regHist, ConcludeAttempt, Operation, Write
  <2> QED
    BY <1>0, <2>1, QuietEffects
<1>16. CASE Concluded
  <2>1. effects' = effects /\ call'.at \in {"idle", "compact"} /\ SyncOk
    BY <1>16, IdleAts DEF Concluded, regHist
  <2> QED
    BY <1>0, <1>1, <2>1, QuietEffects
<1>17. CASE ConcludeFails
  <2>1. effects' = effects /\ call'.at = "idle" /\ (ShortWrite \/ SyncFails \/ UNCHANGED vars)
    BY <1>17, IdleAts DEF ConcludeFails, regHist
  <2> QED
    BY <1>0, <1>2, <2>1, QuietEffects
<1>18. CASE StartCompaction
  <2>1. effects' = effects /\ call'.at = "idle" /\ proc' \in {"up", "compact"}
    BY <1>18, IdleAts DEF StartCompaction, Compact, StartRewrite, vars, procVars, regHist
  <2> QED
    BY <1>0, <2>1, QuietEffects
<1>19. CASE Compacts
  <2>1. effects' = effects /\ call' = call
    BY <1>19 DEF Compacts, regVars, regHist
  <2>2. CASE RivalOpen
    <3>1. UNCHANGED <<disk, tail, mem, pending, proc>>
      BY <2>2 DEF RivalOpen, procVars
    <3>2. End' = End /\ CrashOutcomes' = CrashOutcomes
      BY <3>1, SameEnd
    <3> QED
      BY <2>1, <3>1, <3>2 DEF EffectsKept, Found, LineageKept, AttemptKept
  <2>3. CASE RewriteRecord \/ Rename \/ RewriteFails
    <3>1. proc = "compact" /\ proc' \in {"up", "compact"}
      BY <2>3 DEF RewriteRecord, Rename, RewriteFails
    <3> QED
      BY <1>0, <2>1, <3>1, QuietEffects
  <2> QED
    BY <1>19, <2>2, <2>3 DEF Compacts
<1> QED
  BY <1>3, <1>4, <1>5, <1>6, <1>7, <1>8, <1>9, <1>10, <1>11, <1>12, <1>13, <1>14, <1>15, <1>16,
     <1>17, <1>18, <1>19, Zenon DEF RegNext

\* Whatever a process commits to its ledger, the next process finds its lineage in the
\* journal or its attempt still open, wherever the first one dies and whatever writes,
\* syncs and compactions have failed before: for any number of signals, attempts and
\* records.
THEOREM NoEffectUnrecorded == RegSpec => []NoUnrecordedEffect
<1>1. RegInit => EffectsKept
  BY IdleAts DEF RegInit, EffectsKept
<1>2. TypeInv /\ EpochsKept /\ StoreKept /\ RegTypes /\ InStep /\ EffectsKept
        /\ [RegNext]_<<vars, regVars>> => EffectsKept'
  <2>1. EffectsKept /\ UNCHANGED <<vars, regVars>> => EffectsKept'
    <3> SUFFICES ASSUME EffectsKept, UNCHANGED <<vars, regVars>>
                 PROVE  EffectsKept'
      OBVIOUS
    <3>1. UNCHANGED <<disk, tail, mem, pending, proc, call, effects>>
      BY DEF vars, fileVars, procVars, regVars, regHist
    <3>2. End' = End /\ CrashOutcomes' = CrashOutcomes
      BY <3>1, SameEnd
    <3> QED
      BY <3>1, <3>2 DEF EffectsKept, Found, LineageKept, AttemptKept
  <2> QED
    BY <2>1, RegEffects DEF StoreKept
<1>3. EffectsKept => NoUnrecordedEffect
  BY DEF EffectsKept, Found, Listed, Unusable, NoUnrecordedEffect
<1> QED
  BY <1>1, <1>2, <1>3, RegTypesAlways, InStepAlways, FabricRunsStore, StoreKeptAlways, PTL
     DEF RegSpec

=============================================================================
