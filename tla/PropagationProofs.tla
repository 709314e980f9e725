-------------------------- MODULE PropagationProofs --------------------------
(***************************************************************************)
(* Proofs about the propagation engine and its ledger, for every topology, *)
(* policy, fence table and sequence of requests: what a traversal settles  *)
(* and explains, what several signals combine to, and what is committed.   *)
(***************************************************************************)
EXTENDS Propagation, NaturalLemmas, FiniteSetTheorems, TLAPS

-----------------------------------------------------------------------------
(* Arithmetic and sequences *)

LEMMA LeastFacts ==
    ASSUME NEW a \in Int, NEW b \in Int
    PROVE  Least(a, b) \in {a, b} /\ Least(a, b) <= a /\ Least(a, b) <= b
BY DEF Least

LEMMA MinIn ==
    ASSUME NEW S, S \subseteq Nat, S # {}
    PROVE  Min(S) \in S
<1>1. \E x \in S : \A y \in S : x <= y
  BY LeastNatural
<1> QED
  BY <1>1, Zenon DEF Min

\* The quotient of naturals is one, and is below any bound whose product is not exceeded.
LEMMA Quotient ==
    ASSUME NEW x \in Nat, NEW d \in Nat \ {0}
    PROVE  x \div d \in Nat /\ \A p \in Nat : x <= p * d => x \div d <= p
<1> DEFINE q == x \div d
<1>1. q \in Int /\ d * q <= x /\ x < d * (q + 1)
  BY Z3
<1> HIDE DEF q
<1>2. q \in Nat
  <2> SUFFICES ASSUME q <= -1 PROVE FALSE
    BY <1>1
  <2>1. q + 1 <= 0 /\ q + 1 \in Int
    BY <1>1
  <2>2. d * (q + 1) <= 0
    BY <2>1
  <2> QED
    BY <1>1, <2>2, d * (q + 1) \in Int
<1>3. ASSUME NEW p \in Nat, x <= p * d, ~(q <= p)
      PROVE  FALSE
  <2>1. q >= p + 1
    BY <1>1, <1>3
  <2>2. d * q >= d * (p + 1)
    BY <1>2, <2>1
  <2>3. d * (p + 1) = p * d + d
    BY <1>3
  <2>4. d * q \in Int /\ p * d \in Int
    BY <1>1, <1>3
  <2> QED
    BY <1>1, <1>3, <2>2, <2>3, <2>4
<1> QED
  BY <1>2, <1>3 DEF q

\* Attenuation never raises a potential.
LEMMA AttenuatedBound ==
    ASSUME NEW p \in Nat, NEW a \in Magnitude
    PROVE  Attenuated(p, a) \in Nat /\ Attenuated(p, a) <= p
<1>1. One \in Nat \ {0}
  BY PropagationAssumption
<1>2. a \in Nat /\ a <= One
  BY <1>1 DEF Magnitude
<1>3. p * a \in Nat /\ p * a <= p * One
  BY <1>1, <1>2
<1> QED
  BY <1>1, <1>3, Quotient DEF Attenuated

LEMMA AmplifiedType ==
    ASSUME NEW p \in Potential, NEW g \in Gains
    PROVE  Amplified(p, g) \in Potential
<1>1. One \in Nat \ {0} /\ One * One \in Nat
  BY PropagationAssumption
<1>2. p \in Nat /\ g \in Nat
  BY <1>1 DEF Potential, Gains
<1>3. (p * g) \div One \in Nat
  <2>1. p * g \in Nat
    BY <1>2
  <2> QED
    BY <1>1, <2>1, Quotient
<1>4. Least(One * One, (p * g) \div One) \in 0..(One * One)
  BY <1>1, <1>3, LeastFacts
<1> QED
  BY <1>1, <1>4 DEF Amplified, Potential

LEMMA RangeAppend ==
    ASSUME NEW S, NEW s \in Seq(S), NEW x \in S
    PROVE  Range(Append(s, x)) = Range(s) \cup {x}
<1>1. DOMAIN Append(s, x) = DOMAIN s \cup {Len(s) + 1}
  OBVIOUS
<1>2. \A i \in DOMAIN s : Append(s, x)[i] = s[i]
  OBVIOUS
<1>3. Append(s, x)[Len(s) + 1] = x
  OBVIOUS
<1> QED
  BY <1>1, <1>2, <1>3, Zenon DEF Range

-----------------------------------------------------------------------------
(* What a traversal works on *)

RequestForms == [batch : Seq(Signal), live : SUBSET Nat, left : SUBSET Nat, now : Nat,
                 pins : SUBSET Nat, budget : Nat, dry : BOOLEAN]

\* The part of the type invariant that the properties of a traversal rest on.
TravTypes ==
    /\ topology \in Topology
    /\ policy \in PolicyForms
    /\ request \in RequestForms
    /\ request.left \subseteq DOMAIN request.batch
    /\ phase \in Phases
    /\ signal \in Signal
    /\ hops \in Seq(Seq(Hop))
    /\ queue \subseteq Entry
    /\ settled \in Seq(Entry)
    /\ todo \subseteq EdgeIds
    /\ Traversing => hops # <<>>
    /\ phase = "edges" => settled # <<>>

LEMMA EdgeTypes ==
    ASSUME topology \in Topology, NEW i \in EdgeIds
    PROVE  /\ i \in Nat
           /\ topology.edges[i] \in Edge
           /\ topology.edges[i].to \in Resources
           /\ topology.edges[i].attenuation \in Magnitude
           /\ topology.edges[i].gain \in Gains
           /\ topology.edges[i].maxHops \in Nat
<1>1. topology.edges \in Seq(Edge)
  BY DEF Topology
<1>2. i \in Nat /\ topology.edges[i] \in Edge
  BY <1>1 DEF EdgeIds
<1> QED
  BY <1>2 DEF Edge

LEMMA NextEdgeIn ==
    ASSUME TravTypes, todo # {}
    PROVE  NextEdge \in todo /\ NextEdge \in EdgeIds
<1>1. todo \subseteq Nat
  BY EdgeTypes DEF TravTypes
<1> QED
  BY <1>1, MinIn DEF TravTypes, NextEdge

LEMMA CurrentIn ==
    ASSUME TravTypes, phase = "edges"
    PROVE  /\ Len(settled) \in DOMAIN settled
           /\ Current = settled[Len(settled)]
           /\ Current \in Entry
           /\ Current \in Range(settled)
<1>1. settled \in Seq(Entry) /\ settled # <<>>
  BY DEF TravTypes
<1>2. Len(settled) \in DOMAIN settled /\ settled[Len(settled)] \in Entry
  BY <1>1
<1> QED
  BY <1>2, Zenon DEF Current, Range

LEMMA EntryFields ==
    ASSUME NEW e \in Entry
    PROVE  /\ e.node \in Resources /\ e.node \in Nat /\ e.potential \in Potential
           /\ e.potential \in Nat /\ e.depth \in Nat /\ e.gain \in Nat
           /\ e.parent \in Resources \cup {Nowhere} /\ e.edge \in Nat
<1>1. e.potential \in Potential
  BY DEF Entry
<1>2. e.potential \in Nat
  BY <1>1, PropagationAssumption DEF Potential
<1>3. e.node \in Resources /\ e.node \in Nat
  BY PropagationAssumption DEF Entry
<1> QED
  BY <1>1, <1>2, <1>3 DEF Entry

LEMMA OfferType ==
    ASSUME TravTypes, phase = "edges", NEW i \in EdgeIds
    PROVE  Offer(topology.edges[i]) \in Potential
<1>1. Current \in Entry
  BY CurrentIn
<1>2. Current.potential \in Potential /\ Current.potential \in Nat
  BY <1>1, EntryFields
<1>3. topology.edges[i].attenuation \in Magnitude /\ topology.edges[i].gain \in Gains
  BY EdgeTypes DEF TravTypes
<1> DEFINE p == Attenuated(Current.potential, topology.edges[i].attenuation)
<1>4. p \in Nat /\ p <= Current.potential
  BY <1>2, <1>3, AttenuatedBound
<1>5. p \in Potential
  <2>1. One * One \in Nat
    BY PropagationAssumption
  <2> HIDE DEF p
  <2> QED
    BY <1>2, <1>4, <2>1 DEF Potential
<1>6. Amplified(p, topology.edges[i].gain) \in Potential
  BY <1>3, <1>5, AmplifiedType
<1> QED
  BY <1>5, <1>6, Zenon DEF Offer

LEMMA RequestedGainType ==
    ASSUME TravTypes, phase = "edges", NEW i \in EdgeIds
    PROVE  RequestedGain(topology.edges[i]) \in Nat
<1>1. Current \in Entry
  BY CurrentIn
<1>2. Current.gain \in Nat
  BY <1>1, EntryFields
<1>3. One \in Nat \ {0}
  BY PropagationAssumption
<1>4. topology.edges[i].gain \in Nat
  <2>1. topology.edges[i].gain \in Gains
    BY EdgeTypes DEF TravTypes
  <2> QED
    BY <1>3, <2>1 DEF Gains
<1>5. Current.gain * topology.edges[i].gain \in Nat
  BY <1>2, <1>4
<1> QED
  BY <1>3, <1>5, Quotient DEF RequestedGain

\* The hop record and the queue entry of an accepted edge.
NewHop == [from |-> Current.node, to |-> topology.edges[NextEdge].to, edge |-> NextEdge,
           depth |-> Current.depth, before |-> Current.potential,
           after |-> Offer(topology.edges[NextEdge])]

NewEntry == [node |-> topology.edges[NextEdge].to,
             potential |-> Offer(topology.edges[NextEdge]),
             depth |-> Current.depth + 1,
             gain |-> IF IsAmplifying(topology.edges[NextEdge])
                      THEN RequestedGain(topology.edges[NextEdge]) ELSE Current.gain,
             parent |-> Current.node, edge |-> NextEdge]

LEMMA NewTypes ==
    ASSUME TravTypes, phase = "edges", todo # {}
    PROVE  NewHop \in Hop /\ NewEntry \in Entry
<1>1. NextEdge \in EdgeIds /\ NextEdge \in Nat /\ topology.edges[NextEdge].to \in Resources
  BY NextEdgeIn, EdgeTypes DEF TravTypes
<1>2. Current \in Entry
  BY CurrentIn
<1>3. /\ Current.node \in Resources /\ Current.depth \in Nat /\ Current.gain \in Nat
      /\ Current.potential \in Potential
  BY <1>2, EntryFields
<1>4. Current.depth + 1 \in Nat
  BY <1>3
<1>5. Offer(topology.edges[NextEdge]) \in Potential
  BY <1>1, OfferType
<1>6. RequestedGain(topology.edges[NextEdge]) \in Nat
  BY <1>1, RequestedGainType
<1>7. (IF IsAmplifying(topology.edges[NextEdge])
       THEN RequestedGain(topology.edges[NextEdge]) ELSE Current.gain) \in Nat
  BY <1>3, <1>6, Zenon
<1>8. NewHop \in Hop
  BY <1>1, <1>3, <1>5, Zenon DEF NewHop, Hop
<1>9. NewEntry \in Entry
  BY <1>1, <1>3, <1>4, <1>5, <1>7, Zenon DEF NewEntry, Entry
<1> QED
  BY <1>8, <1>9

\* What Forward adds, in terms of the two.
LEMMA ForwardAdds ==
    ASSUME TravTypes, Forward
    PROVE  /\ hops' = [hops EXCEPT ![Len(hops)] = Append(@, NewHop)]
           /\ hops' \in Seq(Seq(Hop)) /\ hops' # <<>>
           /\ CurrentHops' = CurrentHops \cup {NewHop}
           /\ queue' = queue \cup {NewEntry}
           /\ NewHop \in Hop /\ NewEntry \in Entry
           /\ NextEdge \in EdgeIds
<1>1. phase = "edges" /\ todo # {}
  BY DEF Forward
<1>2. NewHop \in Hop /\ NewEntry \in Entry /\ NextEdge \in EdgeIds
  BY <1>1, NewTypes, NextEdgeIn
<1>3. /\ hops' = [hops EXCEPT ![Len(hops)] = Append(@, NewHop)]
      /\ queue' = queue \cup {NewEntry}
  BY Zenon DEF Forward, NewHop, NewEntry
<1>4. hops \in Seq(Seq(Hop)) /\ hops # <<>>
  BY <1>1 DEF TravTypes, Traversing
<1> HIDE DEF NewHop, NewEntry
<1>5. Len(hops) \in DOMAIN hops /\ hops[Len(hops)] \in Seq(Hop)
  BY <1>4
<1>6. Append(hops[Len(hops)], NewHop) \in Seq(Hop)
  BY <1>2, <1>5
<1>7. /\ hops' \in Seq(Seq(Hop)) /\ Len(hops') = Len(hops) /\ hops' # <<>>
      /\ hops'[Len(hops)] = Append(hops[Len(hops)], NewHop)
  BY <1>3, <1>4, <1>5, <1>6
<1>8. Range(hops'[Len(hops')]) = Range(hops[Len(hops)]) \cup {NewHop}
  <2>1. Range(Append(hops[Len(hops)], NewHop)) = Range(hops[Len(hops)]) \cup {NewHop}
    BY <1>2, <1>5, RangeAppend
  <2>2. hops'[Len(hops')] = Append(hops[Len(hops)], NewHop)
    BY <1>7
  <2> QED
    BY <2>1, <2>2, Zenon
<1>9. CurrentHops' = CurrentHops \cup {NewHop}
  BY <1>4, <1>7, <1>8, Zenon DEF CurrentHops
<1> QED
  BY <1>2, <1>3, <1>7, <1>9

-----------------------------------------------------------------------------
(* Types *)

LEMMA TravTypesInit == Init => TravTypes
<1> SUFFICES ASSUME Init PROVE TravTypes
  OBVIOUS
<1>1. PICK c \in Contexts : topology = c.topology /\ policy = c.policy /\ fences = c.fences
  BY DEF Init
<1>2. c.topology \in Topology /\ c.policy \in Policy
  BY ContextAssumption
<1>3. topology \in Topology /\ policy \in PolicyForms
  BY <1>1, <1>2 DEF Policy
<1>4. One \in Nat \ {0} /\ 0 \in Magnitude /\ One \in Gains
  BY PropagationAssumption DEF Magnitude, Gains
<1>5. NoSignal \in Signal
  BY <1>4, Zenon DEF NoSignal, Signal
<1>6. NoRequest \in RequestForms /\ NoRequest.left = {}
  <2>1. <<>> \in Seq(Signal)
    OBVIOUS
  <2> QED
    BY <2>1 DEF NoRequest, RequestForms
<1> QED
  BY <1>3, <1>5, <1>6 DEF Init, TravTypes, Traversing, Phases

LEMMA NextSignalIn ==
    ASSUME TravTypes, request.left # {}
    PROVE  NextSignal \in Signal
<1>1. request.batch \in Seq(Signal) /\ request.left \subseteq DOMAIN request.batch
  BY DEF TravTypes, RequestForms
<1>2. request.left \subseteq Nat
  BY <1>1
<1>3. Min(request.left) \in DOMAIN request.batch
  BY <1>1, <1>2, MinIn
<1> QED
  BY <1>1, <1>3 DEF NextSignal

\* The context is never changed, nor are the requests' positions left wrong.
LEMMA SignalTaken ==
    ASSUME TravTypes, request' = [request EXCEPT !.left = @ \ {Min(@)}]
    PROVE  request' \in RequestForms /\ request'.left \subseteq DOMAIN request'.batch
BY DEF TravTypes, RequestForms

LEMMA TravTypesStep == TravTypes /\ [Next]_vars => TravTypes'
<1> SUFFICES ASSUME TravTypes, [Next]_vars PROVE TravTypes'
  OBVIOUS
<1>1. ASSUME UNCHANGED vars
      PROVE  TravTypes'
  BY <1>1 DEF vars, context, requestVars, traversalVars, TravTypes, Traversing, EdgeIds
<1>2. ASSUME NEW q \in Requests, Propagate(q)
      PROVE  TravTypes'
  <2>1. q \in Request
    BY ContextAssumption
  <2> DEFINE live == {i \in Admitted(q.batch, q.now) : q.batch[i] \notin Range(lineages)}
  <2>2. live \subseteq DOMAIN q.batch
    BY DEF Admitted
  <2>3. q.batch \in Seq(Signal) /\ q.now \in Nat /\ q.pins \in SUBSET Nat
        /\ q.budget \in Nat /\ q.dry \in BOOLEAN
    BY <2>1, Zenon DEF Request
  <2>4. live \in SUBSET Nat
    BY <2>2, <2>3
  <2>5. request' = [batch |-> q.batch, live |-> live, left |-> live, now |-> q.now,
                    pins |-> q.pins, budget |-> q.budget, dry |-> q.dry]
    BY <1>2 DEF Propagate
  <2> HIDE DEF live
  <2>6. request' \in RequestForms
    BY <2>3, <2>4, <2>5, Zenon DEF RequestForms
  <2>7. request'.left \subseteq DOMAIN request'.batch
    BY <2>2, <2>5
  <2> QED
    BY <1>2, <2>6, <2>7
       DEF Propagate, TravTypes, Traversing, Phases, context, traversalVars, EdgeIds
<1>3. ASSUME RejectSignal
      PROVE  TravTypes'
  BY <1>3, SignalTaken
     DEF RejectSignal, TravTypes, Traversing, EdgeIds, context, traversalVars
<1>4. ASSUME BeginSignal
      PROVE  TravTypes'
  <2>1. signal' \in Signal /\ signal'.origin \in Resources
    BY <1>4, NextSignalIn DEF BeginSignal
  <2>2. request' \in RequestForms /\ request'.left \subseteq DOMAIN request'.batch
    BY <1>4, SignalTaken DEF BeginSignal
  <2>3. hops' \in Seq(Seq(Hop)) /\ hops' # <<>>
    <3>1. <<>> \in Seq(Hop) /\ hops \in Seq(Seq(Hop))
      BY DEF TravTypes
    <3>2. hops' = Append(hops, <<>>)
      BY <1>4 DEF BeginSignal
    <3> QED
      BY <3>1, <3>2
  <2>4. phase' \in {"signal", "settle"} /\ queue' \subseteq Entry
    <3>1. One \in Nat /\ signal'.magnitude \in Magnitude
      BY <2>1, PropagationAssumption DEF Signal
    <3>2. FromMagnitude(signal'.magnitude) \in Potential
      BY <3>1 DEF FromMagnitude, Potential, Magnitude
    <3>3. [node |-> signal'.origin, potential |-> FromMagnitude(signal'.magnitude),
           depth |-> 0, gain |-> One, parent |-> Nowhere, edge |-> 0] \in Entry
      BY <2>1, <3>1, <3>2 DEF Entry
    <3> QED
      BY <1>4, <3>3, Zenon DEF BeginSignal
  <2>5. UNCHANGED <<topology, policy>> /\ settled' = <<>> /\ todo' = {}
    BY <1>4 DEF BeginSignal, context
  <2> QED
    BY <2>1, <2>2, <2>3, <2>4, <2>5 DEF TravTypes, Traversing, Phases, EdgeIds
<1>5. ASSUME StopTraversal
      PROVE  TravTypes'
  BY <1>5 DEF StopTraversal, EndTraversal, TravTypes, Traversing, Phases, EdgeIds, context
<1>6. ASSUME NEW e \in Top, DropEntry(e)
      PROVE  TravTypes'
  BY <1>6 DEF DropEntry, TravTypes, Traversing, EdgeIds, context, requestVars
<1>7. ASSUME NEW e \in Top, SettleUnexplained(e)
      PROVE  TravTypes'
  BY <1>7 DEF SettleUnexplained, TravTypes, Traversing, Phases, EdgeIds, context
<1>8. ASSUME NEW e \in Top, Settle(e)
      PROVE  TravTypes'
  <2>1. e \in Entry
    BY DEF Top, TravTypes
  <2>2. settled' \in Seq(Entry) /\ settled' # <<>>
    BY <1>8, <2>1 DEF Settle, TravTypes
  <2>3. todo' \subseteq EdgeIds /\ phase' \in {"settle", "edges"}
    BY <1>8, Zenon DEF Settle, OutEdges
  <2>4. /\ UNCHANGED <<topology, policy, request, signal, hops>>
        /\ queue' \subseteq queue /\ phase = "settle"
    BY <1>8 DEF Settle, context
  <2> QED
    BY <2>2, <2>3, <2>4 DEF TravTypes, Traversing, Phases, EdgeIds
<1>9. ASSUME RefuseEdge
      PROVE  TravTypes'
  <2>1. /\ UNCHANGED <<topology, policy, request, signal, hops, queue, settled, phase>>
        /\ todo' \subseteq todo
    BY <1>9 DEF RefuseEdge, context, requestVars
  <2> QED
    BY <2>1 DEF TravTypes, Traversing, EdgeIds
<1>10. ASSUME Forward
       PROVE  TravTypes'
  <2>1. /\ UNCHANGED <<topology, policy, request, signal, settled, phase>>
        /\ todo' \subseteq todo
    BY <1>10 DEF Forward, context
  <2>2. hops' \in Seq(Seq(Hop)) /\ hops' # <<>> /\ queue' \subseteq Entry
    <3>1. queue' = queue \cup {NewEntry} /\ NewEntry \in Entry
      BY <1>10, ForwardAdds
    <3>2. hops' \in Seq(Seq(Hop)) /\ hops' # <<>>
      BY <1>10, ForwardAdds
    <3> QED
      BY <3>1, <3>2 DEF TravTypes
  <2> QED
    BY <2>1, <2>2 DEF TravTypes, Traversing, EdgeIds
<1>11. ASSUME TruncateHop
       PROVE  TravTypes'
  BY <1>11 DEF TruncateHop, TravTypes, Traversing, Phases, EdgeIds, context
<1>12. ASSUME LeaveNode
       PROVE  TravTypes'
  <2>1. /\ UNCHANGED <<topology, policy, request, signal, hops, queue, settled, todo>>
        /\ phase' \in {"signal", "settle"} /\ phase = "edges"
    BY <1>12 DEF LeaveNode, EndTraversal, context
  <2> QED
    BY <2>1 DEF TravTypes, Traversing, Phases, EdgeIds
<1>13. ASSUME Commit
       PROVE  TravTypes'
  BY <1>13 DEF Commit, TravTypes, Traversing, Phases, EdgeIds, context, requestVars,
               traversalVars
<1>14. ASSUME NEW q \in Recoveries, Recover(q)
       PROVE  TravTypes'
  BY <1>14 DEF Recover, TravTypes, Traversing, EdgeIds, context, traversalVars
<1> QED
  BY <1>1, <1>2, <1>3, <1>4, <1>5, <1>6, <1>7, <1>8, <1>9, <1>10, <1>11, <1>12, <1>13, <1>14
     DEF Next, Traverse

-----------------------------------------------------------------------------
(* What a step does to a traversal.  Every property below is about the     *)
(* queue, the settled entries and the hops, so these are the cases of its  *)
(* proof.                                                                  *)

Seed(e, s) ==
    /\ e.node = s.origin /\ e.parent = Nowhere /\ e.depth = 0
    /\ e.gain = One /\ e.potential = FromMagnitude(s.magnitude)

Begins ==
    /\ settled' = <<>> /\ CurrentHops' = {}
    /\ \E e : queue' = {e} /\ Seed(e, signal')

Quiet ==
    /\ Traversing
    /\ UNCHANGED <<signal, queue, settled>> /\ CurrentHops' = CurrentHops

Drops(e) ==
    /\ Traversing /\ IsSettled(e.node)
    /\ queue' = queue \ {e}
    /\ UNCHANGED <<signal, settled>> /\ CurrentHops' = CurrentHops

Settles(e) ==
    /\ Traversing /\ ~IsSettled(e.node)
    /\ queue' = queue \ {e} /\ settled' = Append(settled, e)
    /\ UNCHANGED signal /\ CurrentHops' = CurrentHops

Forwards ==
    /\ phase = "edges" /\ todo # {} /\ Failing(NextEdge) = {}
    /\ queue' = queue \cup {NewEntry} /\ CurrentHops' = CurrentHops \cup {NewHop}
    /\ UNCHANGED <<signal, settled>>

LEMMA StepCases ==
    ASSUME TravTypes, [Next]_vars
    PROVE  /\ UNCHANGED <<topology, policy>>
           /\ \/ ~Traversing'
              \/ Begins
              \/ Quiet
              \/ \E e \in Top : Drops(e)
              \/ \E e \in Top : Settles(e)
              \/ Forwards
<1>1. CASE UNCHANGED vars
  BY <1>1 DEF vars, context, requestVars, traversalVars, Quiet, Traversing, CurrentHops
<1>2. ASSUME NEW q \in Requests, Propagate(q)
      PROVE  UNCHANGED <<topology, policy>> /\ ~Traversing'
  BY <1>2 DEF Propagate, context, Traversing
<1>3. ASSUME RejectSignal
      PROVE  UNCHANGED <<topology, policy>> /\ ~Traversing'
  BY <1>3 DEF RejectSignal, context, Traversing
<1>4. ASSUME BeginSignal
      PROVE  UNCHANGED <<topology, policy>> /\ (~Traversing' \/ Begins)
  <2>1. UNCHANGED <<topology, policy>> /\ settled' = <<>>
    BY <1>4 DEF BeginSignal, context
  <2>2. CurrentHops' = {}
    <3>1. hops \in Seq(Seq(Hop)) /\ hops' = Append(hops, <<>>)
      BY <1>4 DEF BeginSignal, TravTypes
    <3>2. hops'[Len(hops')] = <<>>
      BY <3>1
    <3> QED
      BY <3>2 DEF CurrentHops, Range
  <2> DEFINE e == [node |-> signal'.origin, potential |-> FromMagnitude(signal'.magnitude),
                   depth |-> 0, gain |-> One, parent |-> Nowhere, edge |-> 0]
  <2>3. phase' = "signal" \/ queue' = {e}
    BY <1>4, Zenon DEF BeginSignal
  <2>4. Seed(e, signal')
    BY DEF Seed
  <2> HIDE DEF e
  <2> QED
    BY <2>1, <2>2, <2>3, <2>4 DEF Begins, Traversing
<1>5. ASSUME StopTraversal
      PROVE  UNCHANGED <<topology, policy>> /\ ~Traversing'
  BY <1>5 DEF StopTraversal, EndTraversal, context, Traversing
<1>6. ASSUME NEW e \in Top, DropEntry(e)
      PROVE  UNCHANGED <<topology, policy>> /\ Drops(e)
  BY <1>6 DEF DropEntry, context, requestVars, Drops, Traversing, CurrentHops
<1>7. ASSUME NEW e \in Top, SettleUnexplained(e)
      PROVE  UNCHANGED <<topology, policy>> /\ ~Traversing'
  BY <1>7 DEF SettleUnexplained, context, Traversing
<1>8. ASSUME NEW e \in Top, Settle(e)
      PROVE  UNCHANGED <<topology, policy>> /\ Settles(e)
  BY <1>8 DEF Settle, context, Settles, Traversing, CurrentHops
<1>9. ASSUME RefuseEdge
      PROVE  UNCHANGED <<topology, policy>> /\ Quiet
  BY <1>9 DEF RefuseEdge, context, requestVars, Quiet, Traversing, CurrentHops
<1>10. ASSUME Forward
       PROVE  UNCHANGED <<topology, policy>> /\ Forwards
  <2>1. queue' = queue \cup {NewEntry} /\ CurrentHops' = CurrentHops \cup {NewHop}
    BY <1>10, ForwardAdds
  <2>2. /\ UNCHANGED <<topology, policy, signal, settled>>
        /\ phase = "edges" /\ todo # {} /\ Failing(NextEdge) = {}
    BY <1>10 DEF Forward, context
  <2> QED
    BY <2>1, <2>2 DEF Forwards
<1>11. ASSUME TruncateHop
       PROVE  UNCHANGED <<topology, policy>> /\ ~Traversing'
  BY <1>11 DEF TruncateHop, context, Traversing
<1>12. ASSUME LeaveNode
       PROVE  UNCHANGED <<topology, policy>> /\ Quiet
  BY <1>12 DEF LeaveNode, context, Quiet, Traversing, CurrentHops
<1>13. ASSUME Commit
       PROVE  UNCHANGED <<topology, policy>> /\ ~Traversing'
  BY <1>13 DEF Commit, context, Traversing
<1>14. ASSUME NEW q \in Recoveries, Recover(q)
       PROVE  UNCHANGED <<topology, policy>> /\ ~Traversing'
  BY <1>14 DEF Recover, context, Traversing
<1> QED
  BY <1>1, <1>2, <1>3, <1>4, <1>5, <1>6, <1>7, <1>8, <1>9, <1>10, <1>11, <1>12, <1>13, <1>14,
     Zenon DEF Next, Traverse

\* An edge that no check refuses leads to a resource that is not settled, within every
\* bound on hops, and amplifies only by a gain that is granted.
LEMMA Passed ==
    ASSUME NEW i \in EdgeIds, Failing(i) = {}
    PROVE  /\ ~IsSettled(topology.edges[i].to)
           /\ ~(Current.depth + 1 > Least(EffectiveMaxHops(topology.edges[i]), AuthorityHops))
           /\ IsAmplifying(topology.edges[i]) =>
                 MayAmplify /\ ~(RequestedGain(topology.edges[i]) > GrantedGain)
<1> DEFINE e == topology.edges[i]
           p == Attenuated(Current.potential, e.attenuation)
<1>1. DOMAIN Checks(i) = 1..15
  BY DEF Checks
<1>2. \A k \in 1..15 : ~Checks(i)[k][1]
  BY <1>1, Zenon DEF Failing
<1>3. Checks(i)[8][1] = IsSettled(e.to)
  BY DEF Checks
<1>4. Checks(i)[11][1]
        = (Current.depth + 1 > Least(EffectiveMaxHops(e), AuthorityHops))
  BY DEF Checks
<1>5. Checks(i)[12][1] = (IsAmplifying(e) /\ ~MayAmplify)
  BY DEF Checks
<1>6. Checks(i)[13][1]
        = (IsAmplifying(e) /\ (RequestedGain(e) > GrantedGain \/ ~CanAmplify(p, e.gain)))
  BY DEF Checks
<1>7. ~Checks(i)[8][1] /\ ~Checks(i)[11][1] /\ ~Checks(i)[12][1] /\ ~Checks(i)[13][1]
  BY <1>2
<1> QED
  BY <1>3, <1>4, <1>5, <1>6, <1>7, Zenon

\* The entries of the sequence after a settlement.
LEMMA SettledAfter ==
    ASSUME TravTypes, NEW e \in Entry, settled' = Append(settled, e)
    PROVE  /\ DOMAIN settled' = DOMAIN settled \cup {Len(settled) + 1}
           /\ Len(settled) + 1 \notin DOMAIN settled
           /\ \A k \in DOMAIN settled : settled'[k] = settled[k] /\ k < Len(settled) + 1
           /\ settled'[Len(settled) + 1] = e
           /\ Range(settled') = Range(settled) \cup {e}
<1>1. settled \in Seq(Entry)
  BY DEF TravTypes
<1>2. Range(settled') = Range(settled) \cup {e}
  BY <1>1, RangeAppend
<1> QED
  BY <1>1, <1>2

-----------------------------------------------------------------------------
(* Amplification *)

Authorised(e) ==
    \/ e.potential <= FromMagnitude(signal.magnitude) /\ e.gain = One
    \/ /\ policy.amplify /\ signal.amplify
       /\ e.gain <= policy.maxGain /\ e.gain <= signal.maxGain

\* The edge rule: what an authorised entry forwards is authorised.
LEMMA ForwardAuthorised ==
    ASSUME TravTypes, Forwards, Authorised(Current)
    PROVE  Authorised(NewEntry)
<1> DEFINE e == topology.edges[NextEdge]
<1>1. phase = "edges" /\ NextEdge \in EdgeIds
  BY NextEdgeIn DEF Forwards
<1>2. /\ e.attenuation \in Magnitude
      /\ Current \in Entry /\ Current.potential \in Nat
  BY <1>1, EdgeTypes, CurrentIn, EntryFields DEF TravTypes
<1>3. IsAmplifying(e) => MayAmplify /\ ~(RequestedGain(e) > GrantedGain)
  BY <1>1, Passed DEF Forwards
<1>4. /\ NewEntry.potential = Offer(e)
      /\ NewEntry.gain = IF IsAmplifying(e) THEN RequestedGain(e) ELSE Current.gain
  BY DEF NewEntry
<1>5. CASE IsAmplifying(e)
  <2>1. policy.maxGain \in Gains /\ signal.maxGain \in Gains
    BY DEF TravTypes, PolicyForms, Signal
  <2>2. policy.maxGain \in Int /\ signal.maxGain \in Int
    BY <2>1, PropagationAssumption DEF Gains
  <2>3. policy.amplify /\ signal.amplify
    BY <1>3, <1>5, Zenon DEF MayAmplify
  <2>4. GrantedGain = Least(policy.maxGain, signal.maxGain)
    BY <1>3, <1>5, Zenon DEF GrantedGain
  <2>5. RequestedGain(e) \in Nat
    BY <1>1, RequestedGainType
  <2>6. RequestedGain(e) <= policy.maxGain /\ RequestedGain(e) <= signal.maxGain
    <3>1. ~(RequestedGain(e) > GrantedGain)
      BY <1>3, <1>5
    <3>2. GrantedGain \in Int /\ GrantedGain <= policy.maxGain /\ GrantedGain <= signal.maxGain
      BY <2>2, <2>4, LeastFacts
    <3> HIDE DEF e
    <3> QED
      BY <2>2, <2>5, <3>1, <3>2
  <2>7. NewEntry.gain = RequestedGain(e)
    BY <1>4, <1>5, Zenon
  <2> QED
    BY <2>3, <2>6, <2>7, Zenon DEF Authorised
<1>6. CASE ~IsAmplifying(e)
  <2>1. NewEntry.gain = Current.gain
    BY <1>4, <1>6, Zenon
  <2>2. NewEntry.potential = Attenuated(Current.potential, e.attenuation)
    BY <1>4, <1>6, Zenon DEF Offer
  <2>3. NewEntry.potential \in Nat /\ NewEntry.potential <= Current.potential
    BY <1>2, <2>2, AttenuatedBound
  <2>4. FromMagnitude(signal.magnitude) \in Int
    <3>1. signal.magnitude \in Magnitude /\ One \in Nat
      BY PropagationAssumption DEF TravTypes, Signal
    <3> QED
      BY <3>1 DEF FromMagnitude, Magnitude
  <2>5. Current.potential <= FromMagnitude(signal.magnitude)
          => NewEntry.potential <= FromMagnitude(signal.magnitude)
    BY <1>2, <2>3, <2>4
  <2> QED
    BY <2>1, <2>5, Zenon DEF Authorised
<1> QED
  BY <1>5, <1>6

LEMMA AuthorisedStep ==
    ASSUME TravTypes, AmplificationIsAuthorised, [Next]_vars
    PROVE  AmplificationIsAuthorised'
<1> SUFFICES ASSUME Traversing', NEW e \in (queue \cup Range(settled))'
             PROVE  Authorised(e)'
  BY Zenon DEF AmplificationIsAuthorised, Authorised
<1>1. Traversing => \A f \in queue \cup Range(settled) : Authorised(f)
  BY Zenon DEF AmplificationIsAuthorised, Authorised
<1>2. UNCHANGED policy
  BY StepCases
<1>3. \A f : UNCHANGED signal /\ Authorised(f) => Authorised(f)'
  BY <1>2, Zenon DEF Authorised
<1>4. CASE Begins
  <2>1. PICK f : queue' = {f} /\ Seed(f, signal')
    BY <1>4 DEF Begins
  <2>2. e = f
    BY <1>4, <2>1 DEF Begins, Range
  <2>3. FromMagnitude(signal'.magnitude) \in Int
    <3>1. signal' \in Signal /\ One \in Nat
      BY TravTypesStep, PropagationAssumption DEF TravTypes
    <3>2. signal'.magnitude \in Magnitude
      BY <3>1 DEF Signal
    <3> QED
      BY <3>1, <3>2 DEF FromMagnitude, Magnitude
  <2>4. FromMagnitude(signal'.magnitude) <= FromMagnitude(signal'.magnitude)
    BY <2>3
  <2> QED
    BY <2>1, <2>2, <2>4, Zenon DEF Seed, Authorised
<1>5. CASE Quiet
  BY <1>1, <1>3, <1>5, Zenon DEF Quiet
<1>6. ASSUME NEW t \in Top, Drops(t)
      PROVE  Authorised(e)'
  <2>1. e \in queue \cup Range(settled)
    BY <1>6 DEF Drops
  <2> QED
    BY <1>1, <1>3, <1>6, <2>1, Zenon DEF Drops
<1>7. ASSUME NEW t \in Top, Settles(t)
      PROVE  Authorised(e)'
  <2>1. t \in queue /\ t \in Entry
    BY DEF Top, TravTypes
  <2>2. Range(settled') = Range(settled) \cup {t}
    BY <1>7, <2>1, SettledAfter DEF Settles
  <2>3. e \in queue \cup Range(settled)
    BY <1>7, <2>1, <2>2 DEF Settles
  <2> QED
    BY <1>1, <1>3, <1>7, <2>3, Zenon DEF Settles
<1>8. CASE Forwards
  <2>1. Traversing /\ Current \in Range(settled)
    BY <1>8, CurrentIn DEF Forwards, Traversing
  <2>2. Authorised(NewEntry)
    BY <1>1, <1>8, <2>1, ForwardAuthorised
  <2>3. e \in queue \cup Range(settled) \/ e = NewEntry
    BY <1>8 DEF Forwards
  <2> QED
    BY <1>1, <1>3, <1>8, <2>1, <2>2, <2>3, Zenon DEF Forwards
<1> QED
  BY <1>4, <1>5, <1>6, <1>7, <1>8, StepCases, Zenon

\* AmplificationIsAuthorised for every topology and policy: however amplifying edges are
\* chained or closed into cycles, potential rises above the observation only where
\* policy and authority grant it, within the tighter of their gains.
THEOREM AmplificationAuthorised == Spec => []AmplificationIsAuthorised
<1>1. Init => AmplificationIsAuthorised
  BY DEF Init, AmplificationIsAuthorised, Traversing
<1>2. TravTypes /\ AmplificationIsAuthorised /\ [Next]_vars => AmplificationIsAuthorised'
  BY AuthorisedStep
<1> QED
  BY <1>1, <1>2, TravTypesInit, TravTypesStep, PTL DEF Spec

-----------------------------------------------------------------------------
(* The order of settlement *)

Plain == ~(policy.amplify /\ signal.amplify)

\* The argument behind StrongestWins.  Nothing that waits is stronger than what is
\* settled, and every offer to a resource that is not settled yet still waits, so the
\* entry on top is the best offer its resource will ever get.
OrderInv ==
    (Traversing /\ Plain) =>
        /\ \A j, k \in DOMAIN settled : j < k => settled[j].potential >= settled[k].potential
        /\ \A e \in queue, k \in DOMAIN settled : e.potential <= settled[k].potential
        /\ \A h \in CurrentHops :
              /\ \A k \in DOMAIN settled :
                    h.to = settled[k].node => h.after <= settled[k].potential
              /\ IsSettled(h.to) \/ \E e \in queue : e.node = h.to /\ h.after <= e.potential

LEMMA HopFields ==
    ASSUME TravTypes, NEW h \in CurrentHops
    PROVE  h \in Hop /\ h.after \in Nat
<1>1. hops \in Seq(Seq(Hop)) /\ hops # <<>> /\ h \in Range(hops[Len(hops)])
  BY DEF TravTypes, CurrentHops
<1>2. hops[Len(hops)] \in Seq(Hop)
  BY <1>1
<1>3. h \in Hop
  BY <1>1, <1>2 DEF Range
<1>4. h.after \in Potential
  BY <1>3 DEF Hop
<1> QED
  BY <1>3, <1>4, PropagationAssumption DEF Potential

LEMMA SettledFields ==
    ASSUME TravTypes, NEW k \in DOMAIN settled
    PROVE  settled[k] \in Entry /\ settled[k].potential \in Nat /\ k \in Nat
<1>1. settled[k] \in Entry /\ k \in Nat
  BY DEF TravTypes
<1> QED
  BY <1>1, EntryFields

\* The entry on top is at least as strong as every other.
LEMMA TopIsStrongest ==
    ASSUME TravTypes, NEW t \in Top, NEW e \in queue
    PROVE  e.potential <= t.potential
<1>1. t \in Entry /\ e \in Entry /\ ~Before(e, t)
  BY DEF Top, TravTypes
<1>2. t.potential \in Nat /\ e.potential \in Nat
  BY <1>1, EntryFields
<1>3. ~(e.potential > t.potential)
  BY <1>1, Zenon DEF Before
<1> QED
  BY <1>2, <1>3

LEMMA OrderStep ==
    ASSUME TravTypes, OrderInv, [Next]_vars
    PROVE  OrderInv'
<1> SUFFICES ASSUME Traversing', Plain'
             PROVE  /\ \A j, k \in DOMAIN settled' :
                          j < k => settled'[j].potential >= settled'[k].potential
                    /\ \A e \in queue', k \in DOMAIN settled' :
                          e.potential <= settled'[k].potential
                    /\ \A h \in CurrentHops' :
                          /\ \A k \in DOMAIN settled' :
                                h.to = settled'[k].node => h.after <= settled'[k].potential
                          /\ \/ IsSettled(h.to)'
                             \/ \E e \in queue' : e.node = h.to /\ h.after <= e.potential
  BY Zenon DEF OrderInv
<1>1. UNCHANGED policy
  BY StepCases
<1>2. CASE Begins
  BY <1>2 DEF Begins
<1>3. Traversing /\ UNCHANGED signal =>
        /\ \A j, k \in DOMAIN settled : j < k => settled[j].potential >= settled[k].potential
        /\ \A e \in queue, k \in DOMAIN settled : e.potential <= settled[k].potential
        /\ \A h \in CurrentHops :
              /\ \A k \in DOMAIN settled :
                    h.to = settled[k].node => h.after <= settled[k].potential
              /\ IsSettled(h.to) \/ \E e \in queue : e.node = h.to /\ h.after <= e.potential
  BY <1>1, Zenon DEF OrderInv, Plain
<1>4. CASE Quiet
  <2>1. \A r : IsSettled(r)' = IsSettled(r)
    BY <1>4 DEF Quiet, IsSettled
  <2> QED
    BY <1>3, <1>4, <2>1, Zenon DEF Quiet
<1>5. ASSUME NEW t \in Top, Drops(t)
      PROVE  /\ \A j, k \in DOMAIN settled' :
                   j < k => settled'[j].potential >= settled'[k].potential
             /\ \A e \in queue', k \in DOMAIN settled' : e.potential <= settled'[k].potential
             /\ \A h \in CurrentHops' :
                   /\ \A k \in DOMAIN settled' :
                         h.to = settled'[k].node => h.after <= settled'[k].potential
                   /\ \/ IsSettled(h.to)'
                      \/ \E e \in queue' : e.node = h.to /\ h.after <= e.potential
  <2>1. \A r : IsSettled(r)' = IsSettled(r)
    BY <1>5 DEF Drops, IsSettled
  <2>2. /\ Traversing /\ UNCHANGED signal /\ settled' = settled /\ CurrentHops' = CurrentHops
        /\ queue' = queue \ {t} /\ IsSettled(t.node)
    BY <1>5 DEF Drops
  <2>3. \A e \in queue : e \in queue' \/ e = t
    BY <2>2
  <2> QED
    BY <1>3, <2>1, <2>2, <2>3, Zenon
<1>6. ASSUME NEW t \in Top, Settles(t)
      PROVE  /\ \A j, k \in DOMAIN settled' :
                   j < k => settled'[j].potential >= settled'[k].potential
             /\ \A e \in queue', k \in DOMAIN settled' : e.potential <= settled'[k].potential
             /\ \A h \in CurrentHops' :
                   /\ \A k \in DOMAIN settled' :
                         h.to = settled'[k].node => h.after <= settled'[k].potential
                   /\ \/ IsSettled(h.to)'
                      \/ \E e \in queue' : e.node = h.to /\ h.after <= e.potential
  <2>1. t \in queue /\ t \in Entry /\ t.potential \in Nat
    BY EntryFields DEF Top, TravTypes
  <2>2. /\ Traversing /\ UNCHANGED signal /\ CurrentHops' = CurrentHops
        /\ queue' \subseteq queue /\ queue' = queue \ {t}
        /\ ~IsSettled(t.node) /\ settled' = Append(settled, t)
    BY <1>6 DEF Settles
  <2> DEFINE n == Len(settled) + 1
  <2>3. /\ DOMAIN settled' = DOMAIN settled \cup {n} /\ n \notin DOMAIN settled
        /\ \A k \in DOMAIN settled : settled'[k] = settled[k] /\ k < n
        /\ settled'[n] = t
    BY <2>1, <2>2, SettledAfter
  <2>4. n \in Nat /\ ~(n < n) /\ \A k \in DOMAIN settled : k \in Nat /\ ~(n < k)
    BY <2>3, SettledFields DEF TravTypes
  <2> HIDE DEF n
  <2>5. ASSUME NEW j \in DOMAIN settled', NEW k \in DOMAIN settled', j < k
        PROVE  settled'[j].potential >= settled'[k].potential
    <3>1. j \in DOMAIN settled
      BY <2>3, <2>4, <2>5
    <3>2. CASE k \in DOMAIN settled
      BY <1>3, <2>2, <2>3, <2>5, <3>1, <3>2, Zenon
    <3>3. CASE k = n
      <4>1. t.potential <= settled[j].potential /\ settled[j].potential \in Nat
        BY <1>3, <2>1, <2>2, <3>1, SettledFields
      <4> QED
        BY <2>1, <2>3, <3>1, <3>3, <4>1
    <3> QED
      BY <2>3, <3>2, <3>3
  <2>6. ASSUME NEW e \in queue', NEW k \in DOMAIN settled'
        PROVE  e.potential <= settled'[k].potential
    <3>1. e.potential <= t.potential
      BY <2>2, TopIsStrongest
    <3> QED
      BY <1>3, <2>2, <2>3, <3>1, Zenon
  <2>7. ASSUME NEW h \in CurrentHops'
        PROVE  /\ \A k \in DOMAIN settled' :
                     h.to = settled'[k].node => h.after <= settled'[k].potential
               /\ \/ IsSettled(h.to)'
                  \/ \E e \in queue' : e.node = h.to /\ h.after <= e.potential
    <3>1. h \in CurrentHops
      BY <2>2
    <3>2. h.to = t.node => h.after <= t.potential
      <4>1. SUFFICES ASSUME h.to = t.node PROVE h.after <= t.potential
        OBVIOUS
      <4>2. PICK e \in queue : e.node = h.to /\ h.after <= e.potential
        BY <1>3, <2>2, <3>1, <4>1, Zenon
      <4>3. e.potential \in Nat /\ h.after \in Nat /\ e.potential <= t.potential
        BY <3>1, HopFields, EntryFields, TopIsStrongest DEF TravTypes
      <4> QED
        BY <2>1, <4>2, <4>3
    <3>3. ASSUME NEW k \in DOMAIN settled', h.to = settled'[k].node
          PROVE  h.after <= settled'[k].potential
      <4>1. CASE k \in DOMAIN settled
        <5>1. settled'[k] = settled[k] /\ h.to = settled[k].node
          BY <2>3, <3>3, <4>1, Zenon
        <5>2. h.after <= settled[k].potential
          BY <1>3, <2>2, <3>1, <4>1, <5>1, Zenon
        <5> QED
          BY <5>1, <5>2, Zenon
      <4>2. CASE k = n
        BY <2>3, <3>2, <3>3, <4>2, Zenon
      <4> QED
        BY <2>3, <4>1, <4>2
    <3>4. IsSettled(h.to)' \/ \E e \in queue' : e.node = h.to /\ h.after <= e.potential
      <4>1. IsSettled(h.to) => IsSettled(h.to)'
        BY <2>3, Zenon DEF IsSettled
      <4>2. IsSettled(t.node)'
        BY <2>3, Zenon DEF IsSettled
      <4>3. \A e \in queue : e \in queue' \/ e = t
        BY <2>2
      <4> QED
        BY <1>3, <2>2, <3>1, <4>1, <4>2, <4>3, Zenon
    <3> QED
      BY <3>3, <3>4
  <2> QED
    BY <2>5, <2>6, <2>7
<1>7. CASE Forwards
  <2>1. /\ phase = "edges" /\ todo # {} /\ NextEdge \in EdgeIds /\ Failing(NextEdge) = {}
        /\ queue' = queue \cup {NewEntry} /\ CurrentHops' = CurrentHops \cup {NewHop}
        /\ signal' = signal /\ settled' = settled
    BY <1>7, NextEdgeIn DEF Forwards
  <2>2. Traversing
    BY <2>1 DEF Traversing
  <2>3. ~IsAmplifying(topology.edges[NextEdge]) /\ ~IsSettled(topology.edges[NextEdge].to)
    <3>1. ~MayAmplify
      BY <1>1, <2>1, Zenon DEF Plain, MayAmplify
    <3> QED
      BY <2>1, <3>1, Passed, Zenon
  <2>4. /\ NewEntry.node = topology.edges[NextEdge].to /\ NewHop.to = NewEntry.node
        /\ NewEntry.potential = Offer(topology.edges[NextEdge])
        /\ NewHop.after = NewEntry.potential
    BY DEF NewEntry, NewHop
  <2>5. Current.potential \in Nat /\ topology.edges[NextEdge].attenuation \in Magnitude
    BY <2>1, CurrentIn, EntryFields, EdgeTypes DEF TravTypes
  <2>6. NewEntry.potential \in Nat /\ NewEntry.potential <= Current.potential
    <3>1. NewEntry.potential
            = Attenuated(Current.potential, topology.edges[NextEdge].attenuation)
      BY <2>3, <2>4, Zenon DEF Offer
    <3> QED
      BY <2>5, <3>1, AttenuatedBound
  <2>7. ASSUME NEW k \in DOMAIN settled
        PROVE  NewEntry.potential <= settled[k].potential
    <3>1. /\ Len(settled) \in DOMAIN settled /\ Current = settled[Len(settled)]
          /\ settled[k].potential \in Nat /\ k \in Nat
      BY <2>1, CurrentIn, SettledFields
    <3>2. k < Len(settled) \/ k = Len(settled)
      BY DEF TravTypes
    <3>3. settled[k].potential >= Current.potential
      <4>1. CASE k = Len(settled)
        BY <3>1, <4>1
      <4>2. CASE k < Len(settled)
        BY <1>3, <2>1, <2>2, <3>1, <4>2, Zenon
      <4> QED
        BY <3>2, <4>1, <4>2
    <3> QED
      BY <2>5, <2>6, <3>1, <3>3
  <2>8. \A r : IsSettled(r)' = IsSettled(r)
    BY <2>1 DEF IsSettled
  <2>9. \A k \in DOMAIN settled : settled[k].node # NewHop.to
    BY <2>3, <2>4, Zenon DEF IsSettled
  <2>10. NewHop.after <= NewEntry.potential
    BY <2>4, <2>6
  <2> HIDE DEF NewEntry, NewHop
  <2> QED
    BY <1>3, <2>1, <2>2, <2>4, <2>7, <2>8, <2>9, <2>10, Zenon
<1> QED
  BY <1>2, <1>4, <1>5, <1>6, <1>7, StepCases, Zenon

LEMMA OrderAlways == Spec => []OrderInv
<1>1. Init => OrderInv
  BY DEF Init, OrderInv, Traversing
<1>2. TravTypes /\ OrderInv /\ [Next]_vars => OrderInv'
  BY OrderStep
<1> QED
  BY <1>1, <1>2, TravTypesInit, TravTypesStep, PTL DEF Spec

\* StrongestWins for every topology: settling each resource once, at its first arrival,
\* gives it the strongest offer that any accepted edge makes, in whatever order the heap
\* leaves entries it does not distinguish.
THEOREM StrongestAlwaysWins == Spec => []StrongestWins
<1>1. OrderInv => StrongestWins
  BY Zenon DEF OrderInv, StrongestWins, Plain
<1> QED
  BY <1>1, OrderAlways, PTL

-----------------------------------------------------------------------------
(* Paths *)

\* e is what hop h offers from the j-th settled entry.
Follows(e, h, j) ==
    /\ h.from = settled[j].node /\ h.before = settled[j].potential
    /\ h.depth = settled[j].depth
    /\ h.to = e.node /\ h.after = e.potential
    /\ h.edge = e.edge /\ h.from = e.parent
    /\ e.depth = h.depth + 1
    /\ e.depth <= AuthorityHops
    /\ e.depth <= EffectiveMaxHops(topology.edges[h.edge])

ByHop(e, n) == \E h \in CurrentHops, j \in 1..n : Follows(e, h, j)

IsOrigin(e) == e.node = signal.origin /\ e.parent = Nowhere /\ e.depth = 0

\* SettledByAPath is about what is settled; the invariant adds the same of the queue, and
\* that the origin waits alone.
PathInv ==
    Traversing =>
        /\ \A k \in DOMAIN settled :
              /\ \A j \in 1..(k - 1) : settled[j].node # settled[k].node
              /\ (k = 1 /\ IsOrigin(settled[k])) \/ ByHop(settled[k], k - 1)
        /\ settled # <<>> => \A e \in queue : ByHop(e, Len(settled))
        /\ settled = <<>> => \A e \in queue : IsOrigin(e) /\ queue = {e}

\* What is so of entries settled earlier stays so.
LEMMA ByHopKept ==
    ASSUME NEW e, NEW m \in Nat, NEW n \in Nat, m <= n, ByHop(e, m),
           UNCHANGED <<topology, policy, signal>>, CurrentHops \subseteq CurrentHops',
           \A j \in 1..m : settled'[j] = settled[j]
    PROVE  ByHop(e, n)'
<1>1. PICK h \in CurrentHops, j \in 1..m : Follows(e, h, j)
  BY Zenon DEF ByHop
<1>2. Follows(e, h, j)'
  BY <1>1, Zenon DEF Follows, AuthorityHops, EffectiveMaxHops
<1>3. j \in 1..n
  OBVIOUS
<1>4. h \in CurrentHops'
  OBVIOUS
<1> QED
  BY <1>2, <1>3, <1>4, Zenon DEF ByHop

LEMMA OriginKept ==
    ASSUME NEW e, IsOrigin(e), UNCHANGED signal
    PROVE  IsOrigin(e)'
BY Zenon DEF IsOrigin

\* The entry of an accepted edge follows its hop.
LEMMA NewFollows ==
    ASSUME TravTypes, Forwards, UNCHANGED <<topology, policy>>, NEW x, x = NewEntry
    PROVE  ByHop(x, Len(settled))'
<1>1. /\ phase = "edges" /\ todo # {} /\ NextEdge \in EdgeIds /\ Failing(NextEdge) = {}
      /\ NewHop \in CurrentHops' /\ signal' = signal /\ settled' = settled
  BY NextEdgeIn DEF Forwards
<1>2. Len(settled) \in 1..Len(settled) /\ Current = settled[Len(settled)]
      /\ Current.depth \in Nat
  <2>1. Len(settled) \in DOMAIN settled /\ Current = settled[Len(settled)]
        /\ Current.depth \in Nat
    BY <1>1, CurrentIn, EntryFields
  <2> QED
    BY <2>1 DEF TravTypes
<1> DEFINE e == topology.edges[NextEdge]
<1>3. ~(Current.depth + 1 > Least(EffectiveMaxHops(e), AuthorityHops))
  BY <1>1, Passed
<1>4. EffectiveMaxHops(e) \in Nat /\ AuthorityHops \in Nat
  <2>1. policy.maxHops \in Nat /\ signal.maxHops \in Nat
    BY DEF TravTypes, PolicyForms, Bound, Signal
  <2>2. e.maxHops \in Nat
    BY <1>1, EdgeTypes DEF TravTypes
  <2> HIDE DEF e
  <2> QED
    BY <2>1, <2>2 DEF EffectiveMaxHops, AuthorityHops, Least
<1>5. Current.depth + 1 <= AuthorityHops /\ Current.depth + 1 <= EffectiveMaxHops(e)
  <2> HIDE DEF e
  <2> QED
    BY <1>2, <1>3, <1>4 DEF Least
<1>6. /\ NewHop.from = Current.node /\ NewHop.before = Current.potential
      /\ NewHop.depth = Current.depth /\ NewHop.edge = NextEdge
      /\ NewHop.to = NewEntry.node /\ NewHop.after = NewEntry.potential
      /\ NewEntry.edge = NextEdge /\ NewEntry.parent = Current.node
      /\ NewEntry.depth = Current.depth + 1
  BY DEF NewHop, NewEntry
<1> HIDE DEF NewHop, NewEntry
<1>7. Follows(NewEntry, NewHop, Len(settled))
  BY <1>2, <1>5, <1>6, Zenon DEF Follows
<1>8. PICK h, n : h = NewHop /\ n = Len(settled)
  OBVIOUS
<1>9. Follows(x, h, n) /\ n \in 1..n /\ h \in CurrentHops' /\ Len(settled') = n
  BY <1>1, <1>2, <1>7, <1>8, Zenon
<1>10. Follows(x, h, n)'
  BY <1>1, <1>9, Zenon DEF Follows, AuthorityHops, EffectiveMaxHops
<1> QED
  BY <1>9, <1>10, Zenon DEF ByHop

LEMMA PathStep ==
    ASSUME TravTypes, PathInv, [Next]_vars
    PROVE  PathInv'
<1> USE DEF Traversing
<1>1. UNCHANGED <<topology, policy>>
  BY StepCases
<1> DEFINE Settled(k, x) ==
              /\ \A j \in 1..(k - 1) : settled[j].node # x.node
              /\ (k = 1 /\ IsOrigin(x)) \/ ByHop(x, k - 1)
<1>2. SUFFICES ASSUME Traversing'
               PROVE  /\ \A k, x : k \in DOMAIN settled' /\ x = settled'[k] => Settled(k, x)'
                      /\ settled' # <<>> => \A e \in queue' : ByHop(e, Len(settled))'
                      /\ settled' = <<>> => \A e \in queue' : IsOrigin(e)' /\ queue' = {e}
  <2>1. \A k \in DOMAIN settled' : \E x : x = settled'[k]
    OBVIOUS
  <2>2. ASSUME NEW k \in DOMAIN settled', NEW x, x = settled'[k], Settled(k, x)'
        PROVE  /\ \A j \in 1..(k - 1) : settled'[j].node # settled'[k].node
               /\ (k = 1 /\ IsOrigin(settled[k])') \/ ByHop(settled[k], k - 1)'
    BY <2>2, Zenon DEF IsOrigin, ByHop, Follows
  <2> QED
    BY <1>2, <2>1, <2>2, Zenon DEF PathInv
<1>3. settled \in Seq(Entry)
  BY DEF TravTypes
<1>4. Traversing =>
        /\ \A k \in DOMAIN settled : \A x : x = settled[k] => Settled(k, x)
        /\ settled # <<>> => \A e \in queue : ByHop(e, Len(settled))
        /\ settled = <<>> => \A e \in queue : IsOrigin(e) /\ queue = {e}
  BY Zenon DEF PathInv
\* The settled entries of before, in the state after.
<1>5. ASSUME Traversing, UNCHANGED signal, CurrentHops \subseteq CurrentHops',
             \A i \in DOMAIN settled : settled'[i] = settled[i],
             NEW k \in DOMAIN settled, NEW x, x = settled[k]
      PROVE  Settled(k, x)'
  <2>1. Settled(k, x)
    BY <1>4, <1>5, Zenon
  <2>2. k \in Nat /\ k - 1 \in Nat /\ k - 1 <= k - 1 /\ \A j \in 1..(k - 1) : j \in DOMAIN settled
    BY <1>3
  <2>3. \A j \in 1..(k - 1) : settled'[j] = settled[j]
    BY <1>5, <2>2, Zenon
  <2>4. ByHop(x, k - 1) => ByHop(x, k - 1)'
    BY <1>1, <1>5, <2>2, <2>3, ByHopKept
  <2>5. IsOrigin(x) => IsOrigin(x)'
    BY <1>5, OriginKept
  <2> QED
    BY <2>1, <2>3, <2>4, <2>5, Zenon
\* So is what waits, once something is settled.
<1>6. ASSUME Traversing, UNCHANGED signal, CurrentHops \subseteq CurrentHops',
             \A i \in DOMAIN settled : settled'[i] = settled[i],
             settled' \in Seq(Entry), Len(settled') >= Len(settled),
             settled # <<>>, NEW e \in queue
      PROVE  ByHop(e, Len(settled))'
  <2>1. ByHop(e, Len(settled))
    BY <1>4, <1>6, Zenon
  <2>2. PICK m, n : m = Len(settled) /\ n = Len(settled')
    OBVIOUS
  <2>3. m \in Nat /\ n \in Nat /\ m <= n /\ \A j \in 1..m : settled'[j] = settled[j]
    BY <1>3, <1>6, <2>2
  <2>4. ByHop(e, m)
    BY <2>1, <2>2, Zenon
  <2>5. ByHop(e, n)'
    BY <1>1, <1>6, <2>3, <2>4, ByHopKept
  <2> QED
    BY <2>2, <2>5, Zenon DEF ByHop
<1> HIDE DEF Settled
<1>7. CASE Begins
  <2>1. settled' = <<>>
    BY <1>7 DEF Begins
  <2>2. PICK f : queue' = {f} /\ Seed(f, signal')
    BY <1>7 DEF Begins
  <2>3. IsOrigin(f)'
    BY <2>2, Zenon DEF Seed, IsOrigin
  <2> QED
    BY <2>1, <2>2, <2>3
<1>8. CASE Quiet
  <2>1. /\ Traversing /\ UNCHANGED <<signal, queue, settled>> /\ CurrentHops' = CurrentHops
    BY <1>8 DEF Quiet
  <2>2. settled' \in Seq(Entry) /\ Len(settled') >= Len(settled)
    BY <1>3, <2>1
  <2>3. \A e : IsOrigin(e) => IsOrigin(e)'
    BY <2>1, OriginKept
  <2> QED
    BY <1>4, <1>5, <1>6, <2>1, <2>2, <2>3, Zenon
<1>9. ASSUME NEW t \in Top, Drops(t)
      PROVE  /\ \A k, x : k \in DOMAIN settled' /\ x = settled'[k] => Settled(k, x)'
             /\ settled' # <<>> => \A e \in queue' : ByHop(e, Len(settled))'
             /\ settled' = <<>> => \A e \in queue' : IsOrigin(e)' /\ queue' = {e}
  <2>1. /\ Traversing /\ UNCHANGED <<signal, settled>> /\ CurrentHops' = CurrentHops
        /\ queue' \subseteq queue /\ IsSettled(t.node)
    BY <1>9 DEF Drops
  <2>2. settled' \in Seq(Entry) /\ Len(settled') >= Len(settled) /\ settled # <<>>
    BY <1>3, <2>1 DEF IsSettled
  <2>3. \A e \in queue' : e \in queue
    BY <2>1
  <2> QED
    BY <1>5, <1>6, <2>1, <2>2, <2>3, Zenon
<1>10. ASSUME NEW t \in Top, Settles(t)
       PROVE  /\ \A k, x : k \in DOMAIN settled' /\ x = settled'[k] => Settled(k, x)'
              /\ settled' # <<>> => \A e \in queue' : ByHop(e, Len(settled))'
              /\ settled' = <<>> => \A e \in queue' : IsOrigin(e)' /\ queue' = {e}
  <2>1. t \in queue /\ t \in Entry
    BY DEF Top, TravTypes
  <2>2. /\ Traversing /\ UNCHANGED signal /\ CurrentHops' = CurrentHops
        /\ queue' = queue \ {t} /\ ~IsSettled(t.node) /\ settled' = Append(settled, t)
    BY <1>10 DEF Settles
  <2>3. PICK n : n = Len(settled) + 1
    OBVIOUS
  <2>4. /\ DOMAIN settled' = DOMAIN settled \cup {n}
        /\ \A k \in DOMAIN settled : settled'[k] = settled[k]
        /\ settled'[n] = t
    BY <2>1, <2>2, <2>3, SettledAfter
  <2>5. /\ settled' \in Seq(Entry) /\ Len(settled') >= Len(settled) /\ settled' # <<>>
        /\ n \in Nat /\ n - 1 \in Nat /\ n - 1 = Len(settled) /\ n - 1 <= n - 1
        /\ \A j \in 1..(n - 1) : j \in DOMAIN settled
        /\ settled = <<>> => n = 1
    BY <1>3, <2>1, <2>2, <2>3
  <2>6. \A j \in 1..(n - 1) : settled'[j] = settled[j]
    BY <2>4, <2>5, Zenon
  <2>7. \A j \in 1..(n - 1) : settled'[j].node # t.node
    BY <2>2, <2>5, <2>6, Zenon DEF IsSettled
  <2>8. settled # <<>> => ByHop(t, n - 1)'
    <3>1. settled # <<>> => ByHop(t, n - 1)
      BY <1>4, <2>1, <2>2, <2>5, Zenon
    <3> QED
      BY <1>1, <2>2, <2>5, <2>6, <3>1, ByHopKept
  <2>9. settled = <<>> => n = 1 /\ IsOrigin(t)'
    <3>1. settled = <<>> => IsOrigin(t)
      BY <1>4, <2>1, <2>2, Zenon
    <3> QED
      BY <2>2, <2>5, <3>1, OriginKept
  <2>10. Settled(n, t)'
    BY <2>7, <2>8, <2>9, Zenon DEF Settled
  <2>11. ASSUME NEW e \in queue'
         PROVE  ByHop(e, Len(settled))'
    <3>1. e \in queue /\ e # t
      BY <2>2
    <3>2. settled # <<>>
      BY <1>4, <2>1, <2>2, <3>1
    <3> QED
      BY <1>6, <2>2, <2>4, <2>5, <3>1, <3>2, Zenon
  <2>12. ASSUME NEW k, NEW x, k \in DOMAIN settled', x = settled'[k]
         PROVE  Settled(k, x)'
    <3>1. CASE k \in DOMAIN settled
      <4>1. x = settled[k]
        BY <2>4, <2>12, <3>1
      <4> QED
        BY <1>5, <2>2, <2>4, <3>1, <4>1, Zenon
    <3>2. CASE k = n
      <4>1. x = t
        BY <2>4, <2>12, <3>2
      <4> QED
        BY <2>10, <3>2, <4>1
    <3> QED
      BY <2>4, <2>12, <3>1, <3>2
  <2> QED
    BY <2>5, <2>11, <2>12
<1>11. CASE Forwards
  <2>1. /\ phase = "edges" /\ UNCHANGED <<signal, settled>>
        /\ CurrentHops \subseteq CurrentHops' /\ queue' = queue \cup {NewEntry}
    BY <1>11 DEF Forwards
  <2>2. Traversing /\ settled # <<>>
    BY <2>1 DEF TravTypes
  <2>3. settled' \in Seq(Entry) /\ Len(settled') >= Len(settled) /\ settled' # <<>>
    BY <1>3, <2>1, <2>2
  <2>4. ASSUME NEW e \in queue'
        PROVE  ByHop(e, Len(settled))'
    <3>1. CASE e \in queue
      BY <1>6, <2>1, <2>2, <2>3, <3>1, Zenon
    <3>2. CASE e = NewEntry
      BY <1>1, <1>11, <3>2, NewFollows
    <3> QED
      BY <2>1, <3>1, <3>2
  <2> QED
    BY <1>5, <2>1, <2>2, <2>3, <2>4, Zenon
<1> QED
  BY <1>2, <1>7, <1>8, <1>9, <1>10, <1>11, StepCases, Zenon

LEMMA PathAlways == Spec => []PathInv
<1>1. Init => PathInv
  BY DEF Init, PathInv, Traversing
<1>2. TravTypes /\ PathInv /\ [Next]_vars => PathInv'
  BY PathStep
<1> QED
  BY <1>1, <1>2, TravTypesInit, TravTypesStep, PTL DEF Spec

\* SettledByAPath for every topology: a traversal settles a resource once, only along a
\* chain of recorded hops from its origin, and never beyond the hops that the policy,
\* the authority and each edge allow.
THEOREM AlwaysSettledByAPath == Spec => []SettledByAPath
<1>1. PathInv => SettledByAPath
  BY Zenon DEF PathInv, SettledByAPath, IsOrigin, ByHop, Follows
<1> QED
  BY <1>1, PathAlways, PTL

-----------------------------------------------------------------------------
(* FoldLeft is a recursion over the subsets of 1..n (MapThenFoldSet).  It  *)
(* has a solution, whose values on 1..0, 1..1, ... are a loop's steps.     *)

LEMMA MaxOf ==
    ASSUME NEW n \in Nat, NEW s, s \subseteq 1..n, s # {}
    PROVE  Max(s) \in s /\ \A y \in s : y <= Max(s)
<1>1. s \subseteq 0..n
  OBVIOUS
<1>2. \E x \in s : \A y \in s : y <= x
  BY <1>1, GreatestNatural, Zenon
<1>3. \E x \in s : \A y \in s : x >= y
  BY <1>2
<1>4. Max(s) \in s /\ \A y \in s : Max(s) >= y
  BY <1>3, Zenon DEF Max
<1> QED
  BY <1>4

\* The recursion of MapThenFoldSet over the subsets of 1..n has a solution.
Folds(n, b, F, it) ==
    \A s \in SUBSET (1..n) :
        it[s] = IF s = {} THEN b ELSE F[<<Max(s), it[s \ {Max(s)}]>>]

LEMMA FoldExists ==
    ASSUME NEW n \in Nat, NEW T, NEW b \in T, NEW F \in [(1..n) \X T -> T]
    PROVE  \E it \in [SUBSET (1..n) -> T] : Folds(n, b, F, it)
<1> DEFINE G == {m \in 0..n : \E it \in [SUBSET (1..m) -> T] : Folds(m, b, F, it)}
<1>1. 0 \in G
  <2> DEFINE it == [s \in SUBSET (1..0) |-> b]
  <2>1. it \in [SUBSET (1..0) -> T]
    OBVIOUS
  <2>2. \A s \in SUBSET (1..0) : s = {} /\ it[s] = b
    OBVIOUS
  <2>3. Folds(0, b, F, it)
    BY <2>2, Zenon DEF Folds
  <2> QED
    BY <2>1, <2>3
<1>2. ASSUME NEW m \in 0..(n - 1), m \in G
      PROVE  m + 1 \in G
  <2>1. PICK it \in [SUBSET (1..m) -> T] : Folds(m, b, F, it)
    BY <1>2
  <2> DEFINE k == m + 1
             j == [s \in SUBSET (1..k) |->
                      IF k \in s THEN F[<<k, it[s \ {k}]>>] ELSE it[s]]
  <2>2. k \in 1..n /\ m \in Nat
    OBVIOUS
  <2>3. \A s \in SUBSET (1..k) : s \ {k} \in SUBSET (1..m) /\ (k \notin s => s \in SUBSET (1..m))
    OBVIOUS
  <2>4. j \in [SUBSET (1..k) -> T]
    <3>1. \A s \in SUBSET (1..m) : it[s] \in T
      OBVIOUS
    <3>2. \A x \in T : F[<<k, x>>] \in T
      BY <2>2
    <3> HIDE DEF k
    <3> QED
      BY <2>3, <3>1, <3>2
  <2>5. ASSUME NEW s \in SUBSET (1..k)
        PROVE  j[s] = IF s = {} THEN b ELSE F[<<Max(s), j[s \ {Max(s)}]>>]
    <3>1. CASE k \in s
      <4>1. Max(s) = k
        <5>1. k \in Nat /\ s \subseteq 1..k /\ s # {}
          BY <2>2, <3>1
        <5> HIDE DEF k
        <5>2. Max(s) \in s /\ k <= Max(s)
          BY <3>1, <5>1, MaxOf
        <5>3. Max(s) \in 1..k
          BY <5>1, <5>2
        <5> QED
          BY <5>1, <5>2, <5>3
      <4>2. j[s \ {k}] = it[s \ {k}]
        <5>1. s \ {k} \in SUBSET (1..k) /\ k \notin s \ {k}
          OBVIOUS
        <5> HIDE DEF k
        <5> QED
          BY <5>1
      <4>3. j[s] = F[<<k, it[s \ {k}]>>]
        BY <3>1
      <4> QED
        BY <3>1, <4>1, <4>2, <4>3, Zenon
    <3>2. CASE k \notin s
      <4>1. s \in SUBSET (1..m) /\ j[s] = it[s]
        BY <2>3, <3>2
      <4>2. j[s \ {Max(s)}] = it[s \ {Max(s)}]
        <5>1. s \ {Max(s)} \in SUBSET (1..k) /\ k \notin s \ {Max(s)}
          BY <3>2
        <5> HIDE DEF k
        <5> QED
          BY <5>1
      <4> QED
        BY <2>1, <4>1, <4>2, Zenon DEF Folds
    <3> QED
      BY <3>1, <3>2
  <2>6. Folds(k, b, F, j)
    <3> HIDE DEF k, j
    <3> QED
      BY <2>5, Zenon DEF Folds
  <2>7. \E i \in [SUBSET (1..k) -> T] : Folds(k, b, F, i)
    <3> HIDE DEF k, j
    <3> QED
      BY <2>4, <2>6
  <2>8. k \in 0..n
    BY <2>2
  <2> QED
    BY <2>7, <2>8, Zenon
<1>3. \A m \in 0..n : m \in G
  <2> HIDE DEF G
  <2> QED
    BY <1>1, <1>2, UpTo
<1>4. n \in 0..n
  OBVIOUS
<1>5. n \in G
  BY <1>3, <1>4, Zenon
<1> QED
  BY <1>5, Zenon

\* What the recursion says of the prefixes 1..k.
LEMMA InitialPart ==
    ASSUME NEW n \in Nat, NEW k \in 1..n
    PROVE  /\ 1..k \in SUBSET (1..n) /\ 1..k # {}
           /\ Max(1..k) = k
           /\ (1..k) \ {k} = 1..(k - 1)
<1>1. k \in Nat /\ k <= n /\ 1 <= k
  OBVIOUS
<1>2. 1..k \subseteq 1..n /\ k \in 1..k
  BY <1>1
<1>3. ASSUME NEW x
      PROVE  x \in (1..k) \ {k} <=> x \in 1..(k - 1)
  BY <1>1
<1>4. Max(1..k) \in 1..k /\ k <= Max(1..k)
  BY <1>1, <1>2, MaxOf
<1>5. Max(1..k) = k
  BY <1>1, <1>4
<1>6. (1..k) \ {k} = 1..(k - 1)
  BY <1>3, Zenon
<1>7. 1..k \in SUBSET (1..n) /\ 1..k # {}
  BY <1>2
<1> QED
  BY <1>5, <1>6, <1>7

\* Along the prefixes the fold takes the values of a sequence of steps.
Climbs(n, T, F, fold) ==
    \A k \in 1..n : fold[1..(k - 1)] \in T => fold[1..k] = F[<<k, fold[1..(k - 1)]>>]

Steps(n, b, F, fold, g) ==
    /\ g[0] = b /\ g[n] = fold[1..n]
    /\ \A k \in 1..n : g[k] = F[<<k, g[k - 1]>>]

LEMMA FoldSteps ==
    ASSUME NEW n \in Nat, NEW T, NEW b \in T, NEW F \in [(1..n) \X T -> T],
           NEW fold, fold[{}] = b, Climbs(n, T, F, fold)
    PROVE  \E g \in [0..n -> T] : Steps(n, b, F, fold, g)
<1> DEFINE Typed == {k \in 0..n : fold[1..k] \in T}
           g == [k \in 0..n |-> fold[1..k]]
<1>1. 1..0 = {}
  OBVIOUS
<1>2. 0 \in Typed
  BY <1>1
<1>3. ASSUME NEW k \in 0..(n - 1), k \in Typed
      PROVE  k + 1 \in Typed
  <2>1. k + 1 \in 1..n /\ (k + 1) - 1 = k
    OBVIOUS
  <2>2. fold[1..k] \in T
    BY <1>3
  <2>3. fold[1..(k + 1)] = F[<<k + 1, fold[1..k]>>]
    BY <2>1, <2>2 DEF Climbs
  <2>4. fold[1..(k + 1)] \in T
    BY <2>1, <2>2, <2>3
  <2> QED
    BY <2>1, <2>4
<1>4. \A k \in 0..n : k \in Typed
  <2> HIDE DEF Typed
  <2> QED
    BY <1>2, <1>3, UpTo
<1>5. g \in [0..n -> T] /\ g[0] = b /\ g[n] = fold[1..n]
  BY <1>1, <1>4
<1>6. \A k \in 1..n : g[k] = F[<<k, g[k - 1]>>]
  <2> SUFFICES ASSUME NEW k \in 1..n PROVE g[k] = F[<<k, g[k - 1]>>]
    OBVIOUS
  <2>1. k - 1 \in 0..n /\ k \in 0..n
    OBVIOUS
  <2>2. fold[1..(k - 1)] \in T
    BY <1>4, <2>1
  <2>3. g[k] = fold[1..k] /\ g[k - 1] = fold[1..(k - 1)]
    BY <2>1
  <2> QED
    BY <2>2, <2>3 DEF Climbs
<1> HIDE DEF g
<1> QED
  BY <1>5, <1>6, Zenon DEF Steps

MarkAll(b, q) == FoldLeft(Marked, b, q)

\* mark_lineage() one by one.
MarkSteps(b, q) ==
    \E g \in [0..Len(q) -> Seq(Signal)] :
        /\ g[0] = b /\ g[Len(q)] = MarkAll(b, q)
        /\ \A k \in 1..Len(q) : g[k] = Marked(g[k - 1], q[k])

LEMMA MarkedFold ==
    ASSUME NEW b \in Seq(Signal), NEW q \in Seq(Signal)
    PROVE  MarkSteps(b, q)
<1> DEFINE n == Len(q)
           F == [p \in (1..n) \X Seq(Signal) |-> Marked(p[2], q[p[1]])]
           Eq(it) == it = [s \in SUBSET (1..n) |->
                              IF s = {} THEN b
                              ELSE Marked(it[s \ {Max(s)}], q[Max(s)])]
           fold == CHOOSE it : Eq(it)
<1>1. n \in Nat /\ DOMAIN q = 1..n /\ \A i \in 1..n : q[i] \in Signal
  OBVIOUS
<1>2. \A t \in Seq(Signal), u \in Signal : Marked(t, u) \in Seq(Signal)
  BY DEF Marked
<1>3. F \in [(1..n) \X Seq(Signal) -> Seq(Signal)]
  <2> HIDE DEF n
  <2> QED
    BY <1>1, <1>2
<1>4. PICK it \in [SUBSET (1..n) -> Seq(Signal)] : Folds(n, b, F, it)
  <2> HIDE DEF F, n
  <2> QED
    BY <1>1, <1>3, FoldExists
<1>5. \A k \in 1..n, t \in Seq(Signal) : F[<<k, t>>] = Marked(t, q[k])
  OBVIOUS
<1>6. Eq(it)
  <2>1. ASSUME NEW s \in SUBSET (1..n)
        PROVE  it[s] = IF s = {} THEN b ELSE Marked(it[s \ {Max(s)}], q[Max(s)])
    <3> HIDE DEF F, n
    <3>1. s # {} => Max(s) \in 1..n /\ s \ {Max(s)} \in SUBSET (1..n)
      BY <1>1, MaxOf
    <3> QED
      BY <1>4, <1>5, <3>1, Zenon DEF Folds
  <2> HIDE DEF n
  <2> QED
    BY <2>1
<1>7. Eq(fold)
  <2> HIDE DEF Eq
  <2> QED
    BY <1>6, Zenon
<1>8. MarkAll(b, q) = fold[1..n]
  BY <1>1, Zenon DEF MarkAll, FoldLeft, MapThenFoldSet
<1> HIDE DEF fold
<1>9. fold[{}] = b
  <2>1. {} \in SUBSET (1..n)
    OBVIOUS
  <2> HIDE DEF n
  <2> QED
    BY <1>7, <2>1, Zenon
<1>10. Climbs(n, Seq(Signal), F, fold)
  <2> SUFFICES ASSUME NEW k \in 1..n, fold[1..(k - 1)] \in Seq(Signal)
               PROVE  fold[1..k] = F[<<k, fold[1..(k - 1)]>>]
    BY Zenon DEF Climbs
  <2> HIDE DEF n, F
  <2>1. k \in 1..n
    OBVIOUS
  <2>2. /\ 1..k \in SUBSET (1..n) /\ 1..k # {}
        /\ Max(1..k) = k /\ (1..k) \ {k} = 1..(k - 1)
    BY <1>1, <2>1, InitialPart
  <2>3. fold[1..k] = Marked(fold[(1..k) \ {Max(1..k)}], q[Max(1..k)])
    BY <1>7, <2>2, Zenon
  <2>4. fold[1..k] = Marked(fold[1..(k - 1)], q[k])
    BY <2>2, <2>3, Zenon
  <2> QED
    BY <1>5, <2>4, Zenon
<1> HIDE DEF F, n
<1>11. PICK g \in [0..n -> Seq(Signal)] : Steps(n, b, F, fold, g)
  BY <1>1, <1>3, <1>9, <1>10, FoldSteps, Zenon
<1>12. \A k \in 1..n : g[k] = Marked(g[k - 1], q[k])
  <2> SUFFICES ASSUME NEW k \in 1..n PROVE g[k] = Marked(g[k - 1], q[k])
    OBVIOUS
  <2>1. k - 1 \in 0..n
    BY <1>1
  <2>2. g[k - 1] \in Seq(Signal)
    BY <2>1
  <2> QED
    BY <1>5, <1>11, <2>2, Zenon DEF Steps
<1> QED
  BY <1>8, <1>11, <1>12, Zenon DEF n, Steps, MarkSteps

-----------------------------------------------------------------------------
(* The tables of the ledger *)

Tables(K) == UNION {[D -> Level] : D \in SUBSET K}
TableStates(K) == [map : Tables(K), full : BOOLEAN]

RecordAll(capacity, b, q) == FoldLeft(LAMBDA t, item : Record(capacity, t, item), b, q)

LEMMA RecordType ==
    ASSUME NEW K, NEW capacity, NEW t \in TableStates(K), NEW item \in K \X Level
    PROVE  Record(capacity, t, item) \in TableStates(K)
<1>1. PICK D \in SUBSET K : t.map \in [D -> Level]
  BY DEF TableStates, Tables
<1>2. PICK k \in K, l \in Level : item = <<k, l>>
  OBVIOUS
<1>3. item[1] = k /\ item[2] = l
  BY <1>2
<1>4. t.full \in BOOLEAN /\ DOMAIN t = {"map", "full"} /\ DOMAIN t.map = D
  BY <1>1 DEF TableStates
<1> DEFINE m == [j \in D \cup {k} |-> IF j = k THEN l ELSE t.map[j]]
<1>5. m \in [D \cup {k} -> Level]
  BY <1>1
<1>6. m \in Tables(K)
  <2>1. D \cup {k} \in SUBSET K
    OBVIOUS
  <2> HIDE DEF m
  <2> QED
    BY <1>5, <2>1 DEF Tables
<1>7. ASSUME NEW c, c = [t EXCEPT !.map = m]
      PROVE  c \in TableStates(K)
  <2> HIDE DEF m
  <2> QED
    BY <1>6, <1>7 DEF TableStates
<1>8. ASSUME NEW c, c = [t EXCEPT !.full = TRUE]
      PROVE  c \in TableStates(K)
  BY <1>8 DEF TableStates
<1>9. [t EXCEPT !.map = [j \in DOMAIN @ \cup {item[1]} |->
                            IF j = item[1] THEN item[2] ELSE @[j]]]
      = [t EXCEPT !.map = m]
  BY <1>3, <1>4
<1> QED
  BY <1>7, <1>8, <1>9, Zenon DEF Record

\* record_application() or record_damping() one by one.
RecordSteps(K, capacity, b, q) ==
    \E g \in [0..Len(q) -> TableStates(K)] :
        /\ g[0] = b /\ g[Len(q)] = RecordAll(capacity, b, q)
        /\ \A k \in 1..Len(q) : g[k] = Record(capacity, g[k - 1], q[k])

LEMMA RecordFold ==
    ASSUME NEW K, NEW capacity, NEW b \in TableStates(K), NEW q \in Seq(K \X Level)
    PROVE  RecordSteps(K, capacity, b, q)
<1> DEFINE n == Len(q)
           F == [p \in (1..n) \X TableStates(K) |-> Record(capacity, p[2], q[p[1]])]
           Eq(it) == it = [s \in SUBSET (1..n) |->
                              IF s = {} THEN b
                              ELSE Record(capacity, it[s \ {Max(s)}], q[Max(s)])]
           fold == CHOOSE it : Eq(it)
<1>1. n \in Nat /\ DOMAIN q = 1..n /\ \A i \in 1..n : q[i] \in (K \X Level)
  OBVIOUS
<1>2. \A t \in TableStates(K), u \in (K \X Level) : Record(capacity, t, u) \in TableStates(K)
  BY RecordType
<1>3. F \in [(1..n) \X TableStates(K) -> TableStates(K)]
  <2> HIDE DEF n
  <2> QED
    BY <1>1, <1>2
<1>4. PICK it \in [SUBSET (1..n) -> TableStates(K)] : Folds(n, b, F, it)
  <2> HIDE DEF F, n
  <2> QED
    BY <1>1, <1>3, FoldExists
<1>5. \A k \in 1..n, t \in TableStates(K) : F[<<k, t>>] = Record(capacity, t, q[k])
  OBVIOUS
<1>6. Eq(it)
  <2>1. ASSUME NEW s \in SUBSET (1..n)
        PROVE  it[s] = IF s = {} THEN b ELSE Record(capacity, it[s \ {Max(s)}], q[Max(s)])
    <3> HIDE DEF F, n
    <3>1. s # {} => Max(s) \in 1..n /\ s \ {Max(s)} \in SUBSET (1..n)
      BY <1>1, MaxOf
    <3> QED
      BY <1>4, <1>5, <3>1, Zenon DEF Folds
  <2> HIDE DEF n
  <2> QED
    BY <2>1
<1>7. Eq(fold)
  <2> HIDE DEF Eq
  <2> QED
    BY <1>6, Zenon
<1>8. RecordAll(capacity, b, q) = fold[1..n]
  BY <1>1, Zenon DEF RecordAll, FoldLeft, MapThenFoldSet
<1> HIDE DEF fold
<1>9. fold[{}] = b
  <2>1. {} \in SUBSET (1..n)
    OBVIOUS
  <2> HIDE DEF n
  <2> QED
    BY <1>7, <2>1, Zenon
<1>10. Climbs(n, TableStates(K), F, fold)
  <2> SUFFICES ASSUME NEW k \in 1..n, fold[1..(k - 1)] \in TableStates(K)
               PROVE  fold[1..k] = F[<<k, fold[1..(k - 1)]>>]
    BY Zenon DEF Climbs
  <2> HIDE DEF n, F
  <2>1. k \in 1..n
    OBVIOUS
  <2>2. /\ 1..k \in SUBSET (1..n) /\ 1..k # {}
        /\ Max(1..k) = k /\ (1..k) \ {k} = 1..(k - 1)
    BY <1>1, <2>1, InitialPart
  <2>3. fold[1..k] = Record(capacity, fold[(1..k) \ {Max(1..k)}], q[Max(1..k)])
    BY <1>7, <2>2, Zenon
  <2>4. fold[1..k] = Record(capacity, fold[1..(k - 1)], q[k])
    BY <2>2, <2>3, Zenon
  <2> QED
    BY <1>5, <2>4, Zenon
<1> HIDE DEF F, n
<1>11. PICK g \in [0..n -> TableStates(K)] : Steps(n, b, F, fold, g)
  BY <1>1, <1>3, <1>9, <1>10, FoldSteps, Zenon
<1>12. \A k \in 1..n : g[k] = Record(capacity, g[k - 1], q[k])
  <2> SUFFICES ASSUME NEW k \in 1..n PROVE g[k] = Record(capacity, g[k - 1], q[k])
    OBVIOUS
  <2>1. k - 1 \in 0..n
    BY <1>1
  <2>2. g[k - 1] \in TableStates(K)
    BY <2>1
  <2> QED
    BY <1>5, <1>11, <2>2, Zenon DEF Steps
<1> QED
  BY <1>8, <1>11, <1>12, Zenon DEF n, Steps, RecordSteps

\* Every entry of a table m that recording items in a table makes of it is an entry of
\* that table or one of the items, and no key is lost.
Grown(table, items, m) ==
    /\ DOMAIN table \subseteq DOMAIN m
    /\ \A k \in DOMAIN m : \/ k \in DOMAIN table /\ m[k] = table[k]
                           \/ \E i \in DOMAIN items : items[i] = <<k, m[k]>>

Within(capacity, m) == IsFiniteSet(DOMAIN m) /\ Cardinality(DOMAIN m) <= capacity

LEMMA RecordGrows ==
    ASSUME NEW K, NEW capacity \in Nat, NEW table, NEW items \in Seq(K \X Level),
           NEW t \in TableStates(K), NEW i \in DOMAIN items,
           Grown(table, items, t.map), Within(capacity, t.map)
    PROVE  /\ Grown(table, items, Record(capacity, t, items[i]).map)
           /\ Within(capacity, Record(capacity, t, items[i]).map)
<1>1. PICK D \in SUBSET K : t.map \in [D -> Level]
  BY DEF TableStates, Tables
<1>2. items[i] \in K \X Level
  OBVIOUS
<1>3. PICK k \in K, l \in Level : items[i] = <<k, l>>
  BY <1>2
<1>4. items[i][1] = k /\ items[i][2] = l
  BY <1>3
<1>5. t.full \in BOOLEAN /\ DOMAIN t = {"map", "full"} /\ DOMAIN t.map = D
  BY <1>1 DEF TableStates
<1> DEFINE m == [j \in D \cup {k} |-> IF j = k THEN l ELSE t.map[j]]
<1>6. DOMAIN m = D \cup {k} /\ m[k] = l /\ \A j \in D : j # k => m[j] = t.map[j]
  OBVIOUS
<1> HIDE DEF m
<1>7. Grown(table, items, m)
  BY <1>3, <1>5, <1>6, Zenon DEF Grown
<1>8. ASSUME k \in D \/ Cardinality(D) < capacity
      PROVE  Within(capacity, m)
  <2>1. IsFiniteSet(D) /\ Cardinality(D) <= capacity /\ Cardinality(D) \in Nat
    BY <1>5, FS_CardinalityType DEF Within
  <2>2. CASE k \in D
    <3>1. D \cup {k} = D
      BY <2>2
    <3> QED
      BY <1>6, <2>1, <3>1 DEF Within
  <2>3. CASE k \notin D
    <3>1. IsFiniteSet(D \cup {k}) /\ Cardinality(D \cup {k}) = Cardinality(D) + 1
      BY <2>1, <2>3, FS_AddElement
    <3>2. Cardinality(D) + 1 <= capacity
      BY <1>8, <2>1, <2>3
    <3> QED
      BY <1>6, <3>1, <3>2 DEF Within
  <2> QED
    BY <2>2, <2>3
<1>9. [t EXCEPT !.map = [j \in DOMAIN @ \cup {items[i][1]} |->
                            IF j = items[i][1] THEN items[i][2] ELSE @[j]]]
      = [t EXCEPT !.map = m]
  BY <1>4, <1>5 DEF m
<1>10. /\ [t EXCEPT !.map = m].map = m
       /\ [t EXCEPT !.full = TRUE].map = t.map
  BY <1>5
<1>11. \/ Record(capacity, t, items[i]).map = t.map
       \/ /\ k \in D \/ Cardinality(D) < capacity
          /\ Record(capacity, t, items[i]).map = m
  <2>1. CASE t.full
    <3>1. Record(capacity, t, items[i]) = t
      BY <2>1, Zenon DEF Record
    <3> QED
      BY <3>1
  <2>2. CASE ~t.full /\ ~(k \in D \/ Cardinality(D) < capacity)
    <3>1. Record(capacity, t, items[i]) = [t EXCEPT !.full = TRUE]
      BY <1>4, <1>5, <2>2, Zenon DEF Record
    <3> QED
      BY <1>10, <3>1
  <2>3. CASE ~t.full /\ (k \in D \/ Cardinality(D) < capacity)
    <3>1. Record(capacity, t, items[i])
          = [t EXCEPT !.map = [j \in DOMAIN @ \cup {items[i][1]} |->
                                  IF j = items[i][1] THEN items[i][2] ELSE @[j]]]
      BY <1>4, <1>5, <2>3, Zenon DEF Record
    <3> QED
      BY <1>9, <1>10, <2>3, <3>1, Zenon
  <2> QED
    BY <2>1, <2>2, <2>3, Zenon
<1> QED
  BY <1>7, <1>8, <1>11, Zenon

LEMMA RecordedGrows ==
    ASSUME NEW K, NEW capacity \in Nat, NEW table \in Tables(K),
           NEW items \in Seq(K \X Level), Within(capacity, table)
    PROVE  /\ Recorded(table, capacity, items) \in Tables(K)
           /\ Grown(table, items, Recorded(table, capacity, items))
           /\ Within(capacity, Recorded(table, capacity, items))
<1> DEFINE b == [map |-> table, full |-> FALSE]
           n == Len(items)
<1>1. b \in TableStates(K) /\ b.map = table
  BY DEF TableStates
<1> HIDE DEF b
<1>2. PICK g \in [0..Len(items) -> TableStates(K)] :
         /\ g[0] = b /\ g[Len(items)] = RecordAll(capacity, b, items)
         /\ \A k \in 1..Len(items) : g[k] = Record(capacity, g[k - 1], items[k])
  <2>1. RecordSteps(K, capacity, b, items)
    BY <1>1, RecordFold, Zenon
  <2> QED
    BY <2>1, Zenon DEF RecordSteps
<1>3. Recorded(table, capacity, items) = g[n].map
  BY <1>2, Zenon DEF Recorded, RecordAll, b
<1>n. n \in Nat /\ DOMAIN items = 1..n
  OBVIOUS
<1> HIDE DEF n
<1> DEFINE Good == {k \in 0..n : Grown(table, items, g[k].map) /\ Within(capacity, g[k].map)}
<1>4. 0 \in Good
  <2>1. g[0].map = table
    BY <1>1, <1>2, Zenon
  <2>2. Grown(table, items, table)
    BY Zenon DEF Grown
  <2>3. 0 \in 0..n
    BY <1>n
  <2> QED
    BY <2>1, <2>2, <2>3, Zenon
<1>5. ASSUME NEW k \in 0..(n - 1), k \in Good
      PROVE  k + 1 \in Good
  <2>1. k + 1 \in 1..n /\ k + 1 \in 0..n /\ (k + 1) - 1 = k /\ k \in 0..n
    BY <1>n
  <2>2. g[k] \in TableStates(K) /\ Grown(table, items, g[k].map) /\ Within(capacity, g[k].map)
    BY <1>2, <1>5, <2>1, Zenon DEF n
  <2>3. g[k + 1] = Record(capacity, g[k], items[k + 1])
    BY <1>2, <2>1 DEF n
  <2>4. /\ Grown(table, items, Record(capacity, g[k], items[k + 1]).map)
        /\ Within(capacity, Record(capacity, g[k], items[k + 1]).map)
    BY <1>n, <2>1, <2>2, RecordGrows, Zenon
  <2> QED
    BY <2>1, <2>3, <2>4, Zenon
<1>6. \A k \in 0..n : k \in Good
  <2> HIDE DEF Good
  <2> QED
    BY <1>n, <1>4, <1>5, UpTo
<1>7. n \in 0..n
  BY <1>n
<1>8. n \in Good /\ g[n] \in TableStates(K)
  BY <1>2, <1>6, <1>7, Zenon DEF n
<1> QED
  BY <1>3, <1>8, Zenon DEF TableStates

-----------------------------------------------------------------------------
(* Damping *)

LEMMA ToMagnitudeType ==
    ASSUME NEW p \in Nat
    PROVE  ToMagnitude(p) \in Magnitude
<1>1. One \in Nat \ {0} /\ 2 \in Nat \ {0}
  BY PropagationAssumption
<1>2. One \div 2 \in Nat
  BY <1>1, Quotient
<1>3. p + One \div 2 \in Nat
  BY <1>2
<1>4. (p + One \div 2) \div One \in Nat
  BY <1>1, <1>3, Quotient
<1> QED
  BY <1>1, <1>4, LeastFacts DEF ToMagnitude, Magnitude

DampingKeys == Resources \X Nat
DampingTables == {m \in Tables(DampingKeys) : Within(DampingCapacity, m)}

\* The entry of the damping table that a hop record makes.
Damping(h) == <<<<h.to, h.edge>>, [magnitude |-> ToMagnitude(h.after), tick |-> request.now]>>

LEMMA DampingItemsType ==
    ASSUME request.now \in Nat, NEW records \in Seq(Hop)
    PROVE  /\ DampingItems(records) \in Seq(DampingKeys \X Level)
           /\ DOMAIN DampingItems(records) = DOMAIN records
           /\ \A i \in DOMAIN records : DampingItems(records)[i] = Damping(records[i])
<1>1. \A i \in DOMAIN records : DampingItems(records)[i] = Damping(records[i])
  BY Zenon DEF DampingItems, Damping
<1>2. DOMAIN DampingItems(records) = DOMAIN records /\ DOMAIN records = 1..Len(records)
      /\ Len(records) \in Nat
  BY DEF DampingItems
<1>3. ASSUME NEW i \in DOMAIN records
      PROVE  Damping(records[i]) \in DampingKeys \X Level
  <2>1. records[i] \in Hop
    OBVIOUS
  <2>2. records[i].to \in Resources /\ records[i].edge \in Nat
    BY <2>1 DEF Hop
  <2>3. ToMagnitude(records[i].after) \in Magnitude
    <3>1. records[i].after \in Nat
      BY <2>1, PropagationAssumption DEF Hop, Potential
    <3> QED
      BY <3>1, ToMagnitudeType
  <2>4. [magnitude |-> ToMagnitude(records[i].after), tick |-> request.now] \in Level
    BY <2>3 DEF Level
  <2> QED
    BY <2>2, <2>4, Zenon DEF Damping, DampingKeys
<1>4. DampingItems(records) = [i \in 1..Len(records) |-> Damping(records[i])]
  BY <1>2, Zenon DEF DampingItems, Damping
<1>5. DampingItems(records) \in [1..Len(records) -> DampingKeys \X Level]
  <2> HIDE DEF DampingKeys, Level
  <2> QED
    BY <1>2, <1>3, <1>4
<1>6. DampingItems(records) \in Seq(DampingKeys \X Level)
  BY <1>2, <1>5
<1> QED
  BY <1>1, <1>2, <1>6

DampOne(d, records) == Recorded(d, DampingCapacity, DampingItems(records))

DampAll(b, q) ==
    FoldLeft(LAMBDA d, records : Recorded(d, DampingCapacity, DampingItems(records)), b, q)

LEMMA DampOneFacts ==
    ASSUME request.now \in Nat, NEW d \in DampingTables, NEW records \in Seq(Hop)
    PROVE  /\ DampOne(d, records) \in DampingTables
           /\ Grown(d, DampingItems(records), DampOne(d, records))
<1>1. d \in Tables(DampingKeys) /\ Within(DampingCapacity, d) /\ DampingCapacity \in Nat
  BY PropagationAssumption DEF DampingTables
<1>2. DampingItems(records) \in Seq(DampingKeys \X Level)
  BY DampingItemsType
<1>3. /\ DampOne(d, records) \in Tables(DampingKeys)
      /\ Grown(d, DampingItems(records), DampOne(d, records))
      /\ Within(DampingCapacity, DampOne(d, records))
  BY <1>1, <1>2, RecordedGrows, Zenon DEF DampOne
<1> QED
  BY <1>3, Zenon DEF DampingTables

\* The damping records of one explanation after another.
DampSteps(b, q) ==
    \E g \in [0..Len(q) -> DampingTables] :
        /\ g[0] = b /\ g[Len(q)] = DampAll(b, q)
        /\ \A k \in 1..Len(q) : g[k] = DampOne(g[k - 1], q[k])

LEMMA DampFold ==
    ASSUME request.now \in Nat, NEW b \in DampingTables, NEW q \in Seq(Seq(Hop))
    PROVE  DampSteps(b, q)
<1> DEFINE n == Len(q)
           F == [p \in (1..n) \X DampingTables |-> DampOne(p[2], q[p[1]])]
           Eq(it) == it = [s \in SUBSET (1..n) |->
                              IF s = {} THEN b
                              ELSE DampOne(it[s \ {Max(s)}], q[Max(s)])]
           fold == CHOOSE it : Eq(it)
<1>1. n \in Nat /\ DOMAIN q = 1..n /\ \A i \in 1..n : q[i] \in Seq(Hop)
  OBVIOUS
<1>2. \A t \in DampingTables, u \in Seq(Hop) : DampOne(t, u) \in DampingTables
  BY DampOneFacts, Zenon
<1>3. F \in [(1..n) \X DampingTables -> DampingTables]
  <2> HIDE DEF n
  <2> QED
    BY <1>1, <1>2
<1>4. PICK it \in [SUBSET (1..n) -> DampingTables] : Folds(n, b, F, it)
  <2> HIDE DEF F, n
  <2> QED
    BY <1>1, <1>3, FoldExists
<1>5. \A k \in 1..n, t \in DampingTables : F[<<k, t>>] = DampOne(t, q[k])
  OBVIOUS
<1>6. Eq(it)
  <2>1. ASSUME NEW s \in SUBSET (1..n)
        PROVE  it[s] = IF s = {} THEN b ELSE DampOne(it[s \ {Max(s)}], q[Max(s)])
    <3> HIDE DEF F, n
    <3>1. s # {} => Max(s) \in 1..n /\ s \ {Max(s)} \in SUBSET (1..n)
      BY <1>1, MaxOf
    <3> QED
      BY <1>4, <1>5, <3>1, Zenon DEF Folds
  <2> HIDE DEF n
  <2> QED
    BY <2>1
<1>7. Eq(fold)
  <2> HIDE DEF Eq
  <2> QED
    BY <1>6, Zenon
<1>8. DampAll(b, q) = fold[1..n]
  BY <1>1, Zenon DEF DampAll, DampOne, FoldLeft, MapThenFoldSet
<1> HIDE DEF fold
<1>9. fold[{}] = b
  <2>1. {} \in SUBSET (1..n)
    OBVIOUS
  <2> HIDE DEF n
  <2> QED
    BY <1>7, <2>1, Zenon
<1>10. Climbs(n, DampingTables, F, fold)
  <2> SUFFICES ASSUME NEW k \in 1..n, fold[1..(k - 1)] \in DampingTables
               PROVE  fold[1..k] = F[<<k, fold[1..(k - 1)]>>]
    BY Zenon DEF Climbs
  <2> HIDE DEF n, F
  <2>1. k \in 1..n
    OBVIOUS
  <2>2. /\ 1..k \in SUBSET (1..n) /\ 1..k # {}
        /\ Max(1..k) = k /\ (1..k) \ {k} = 1..(k - 1)
    BY <1>1, <2>1, InitialPart
  <2>3. fold[1..k] = DampOne(fold[(1..k) \ {Max(1..k)}], q[Max(1..k)])
    BY <1>7, <2>2, Zenon
  <2>4. fold[1..k] = DampOne(fold[1..(k - 1)], q[k])
    BY <2>2, <2>3, Zenon
  <2> QED
    BY <1>5, <2>4, Zenon
<1> HIDE DEF F, n
<1>11. PICK g \in [0..n -> DampingTables] : Steps(n, b, F, fold, g)
  BY <1>1, <1>3, <1>9, <1>10, FoldSteps, Zenon
<1>12. \A k \in 1..n : g[k] = DampOne(g[k - 1], q[k])
  <2> SUFFICES ASSUME NEW k \in 1..n PROVE g[k] = DampOne(g[k - 1], q[k])
    OBVIOUS
  <2>1. k - 1 \in 0..n
    BY <1>1
  <2>2. g[k - 1] \in DampingTables
    BY <2>1
  <2> QED
    BY <1>5, <1>11, <2>2, Zenon DEF Steps
<1> QED
  BY <1>8, <1>11, <1>12, Zenon DEF n, Steps, DampSteps

HopsIn(q) == UNION {Range(q[j]) : j \in DOMAIN q}

\* Every entry of a damping table that the hops of q make of a table is an entry of that
\* table or made by one of the hops.
DampedBy(b, q, m) ==
    /\ DOMAIN b \subseteq DOMAIN m
    /\ \A k \in DOMAIN m : \/ k \in DOMAIN b /\ m[k] = b[k]
                           \/ \E h \in HopsIn(q) : Damping(h) = <<k, m[k]>>

LEMMA DampAllFacts ==
    ASSUME request.now \in Nat, NEW b \in DampingTables, NEW q \in Seq(Seq(Hop))
    PROVE  DampAll(b, q) \in DampingTables /\ DampedBy(b, q, DampAll(b, q))
<1> DEFINE n == Len(q)
<1>1. n \in Nat /\ DOMAIN q = 1..n /\ \A k \in 1..n : q[k] \in Seq(Hop)
  OBVIOUS
<1>2. PICK g \in [0..n -> DampingTables] :
         /\ g[0] = b /\ g[n] = DampAll(b, q)
         /\ \A k \in 1..n : g[k] = DampOne(g[k - 1], q[k])
  <2>1. DampSteps(b, q)
    BY DampFold, Zenon
  <2> QED
    BY <2>1, Zenon DEF DampSteps
<1> HIDE DEF n
<1> DEFINE Good == {k \in 0..n : DampedBy(b, q, g[k])}
<1>3. 0 \in Good
  <2>1. DampedBy(b, q, b)
    BY Zenon DEF DampedBy
  <2>2. 0 \in 0..n
    BY <1>1
  <2> QED
    BY <1>2, <2>1, <2>2, Zenon
<1>4. ASSUME NEW k \in 0..(n - 1), k \in Good
      PROVE  k + 1 \in Good
  <2>1. k + 1 \in 1..n /\ k + 1 \in 0..n /\ (k + 1) - 1 = k /\ k \in 0..n
    BY <1>1
  <2>2. g[k] \in DampingTables /\ q[k + 1] \in Seq(Hop) /\ DampedBy(b, q, g[k])
    BY <1>1, <1>2, <1>4, <2>1, Zenon
  <2>3. g[k + 1] = DampOne(g[k], q[k + 1])
    BY <1>2, <2>1
  <2>4. Grown(g[k], DampingItems(q[k + 1]), g[k + 1])
    BY <2>2, <2>3, DampOneFacts, Zenon
  <2>5. ASSUME NEW i \in DOMAIN DampingItems(q[k + 1])
        PROVE  \E h \in HopsIn(q) : DampingItems(q[k + 1])[i] = Damping(h)
    <3>1. i \in DOMAIN q[k + 1] /\ DampingItems(q[k + 1])[i] = Damping(q[k + 1][i])
      BY <2>2, <2>5, DampingItemsType, Zenon
    <3>2. q[k + 1][i] \in HopsIn(q)
      <4>1. q[k + 1][i] \in Range(q[k + 1]) /\ k + 1 \in DOMAIN q
        BY <1>1, <2>1, <3>1, Zenon DEF Range
      <4> QED
        BY <4>1, Zenon DEF HopsIn
    <3> QED
      BY <3>1, <3>2, Zenon
  <2>6. DampedBy(b, q, g[k + 1])
    BY <2>2, <2>4, <2>5, Zenon DEF Grown, DampedBy
  <2> QED
    BY <2>1, <2>6, Zenon
<1>5. \A k \in 0..n : k \in Good
  <2> HIDE DEF Good
  <2> QED
    BY <1>1, <1>3, <1>4, UpTo
<1>6. n \in 0..n
  BY <1>1
<1>7. n \in Good /\ g[n] \in DampingTables
  BY <1>2, <1>5, <1>6, Zenon
<1> QED
  BY <1>2, <1>7, Zenon

\* An edge that no check refuses is not damped.
LEMMA PassedUndamped ==
    ASSUME NEW i \in EdgeIds, Failing(i) = {}
    PROVE  ~Damped(i, Offer(topology.edges[i]))
<1>1. DOMAIN Checks(i) = 1..15
  BY DEF Checks
<1>2. \A k \in 1..15 : ~Checks(i)[k][1]
  BY <1>1, Zenon DEF Failing
<1>3. Checks(i)[15][1] = Damped(i, Offer(topology.edges[i]))
  BY DEF Checks
<1> QED
  BY <1>2, <1>3

\* While a request is handled, every hop that it has recorded leads to the target of its
\* edge and was not damped by the table, which stays as it is until the commit.
UndampedHop(h) ==
    /\ h.edge \in EdgeIds
    /\ h.to = topology.edges[h.edge].to
    /\ phase # "idle" => ~Damped(h.edge, h.after)

DampInv ==
    /\ damping \in DampingTables
    /\ \A h \in HopsIn(hops) : UndampedHop(h)

LEMMA HopsInEmpty == HopsIn(<<>>) = {}
<1>1. DOMAIN <<>> = {}
  OBVIOUS
<1> QED
  BY <1>1, Zenon DEF HopsIn

LEMMA HopsInAppend ==
    ASSUME NEW q \in Seq(Seq(Hop))
    PROVE  HopsIn(Append(q, <<>>)) = HopsIn(q)
<1>1. /\ DOMAIN Append(q, <<>>) = DOMAIN q \cup {Len(q) + 1}
      /\ \A j \in DOMAIN q : Append(q, <<>>)[j] = q[j]
      /\ Append(q, <<>>)[Len(q) + 1] = <<>>
  OBVIOUS
<1>2. Range(<<>>) = {}
  BY DEF Range
<1> QED
  BY <1>1, <1>2, Zenon DEF HopsIn

LEMMA HopsInForward ==
    ASSUME TravTypes, Forward
    PROVE  HopsIn(hops') = HopsIn(hops) \cup {NewHop}
<1>1. hops \in Seq(Seq(Hop)) /\ hops # <<>>
  BY DEF TravTypes, Forward, Traversing
<1>2. NewHop \in Hop /\ hops' = [hops EXCEPT ![Len(hops)] = Append(@, NewHop)]
  BY ForwardAdds
<1>3. Len(hops) \in DOMAIN hops /\ hops[Len(hops)] \in Seq(Hop)
  BY <1>1
<1>4. Range(Append(hops[Len(hops)], NewHop)) = Range(hops[Len(hops)]) \cup {NewHop}
  BY <1>2, <1>3, RangeAppend
<1> HIDE DEF NewHop
<1>5. /\ DOMAIN hops' = DOMAIN hops
      /\ hops'[Len(hops)] = Append(hops[Len(hops)], NewHop)
      /\ \A j \in DOMAIN hops : j # Len(hops) => hops'[j] = hops[j]
  BY <1>1, <1>2, <1>3
<1> QED
  BY <1>3, <1>4, <1>5, Zenon DEF HopsIn

\* A step of a request: the table and the tick stay as they are.
SameTable ==
    /\ UNCHANGED <<context, damping>>
    /\ phase # "idle" /\ request'.now = request.now

LEMMA UndampedKept ==
    ASSUME SameTable, NEW h, UndampedHop(h)
    PROVE  UndampedHop(h)'
BY Zenon DEF SameTable, UndampedHop, Damped, EffectiveCooldown, EdgeIds, context

LEMMA DampStep ==
    ASSUME TravTypes, DampInv, [Next]_vars
    PROVE  DampInv'
<1>1. ASSUME UNCHANGED vars
      PROVE  DampInv'
  BY <1>1, Zenon
     DEF vars, context, ledger, requestVars, DampInv, UndampedHop, Damped, EffectiveCooldown,
         EdgeIds
<1>2. ASSUME NEW q \in Requests, Propagate(q)
      PROVE  DampInv'
  <2>1. hops' = <<>> /\ damping' = damping
    BY <1>2 DEF Propagate, ledger
  <2>2. HopsIn(hops') = {}
    BY <2>1, HopsInEmpty, Zenon
  <2> QED
    BY <2>1, <2>2, Zenon DEF DampInv
<1>3. ASSUME SameTable, hops' = hops
      PROVE  DampInv'
  BY <1>3, UndampedKept, Zenon DEF DampInv, SameTable
<1>4. ASSUME RejectSignal
      PROVE  DampInv'
  <2>1. SameTable /\ hops' = hops
    BY <1>4 DEF RejectSignal, SameTable, ledger, TravTypes, RequestForms
  <2> QED
    BY <1>3, <2>1
<1>5. ASSUME BeginSignal
      PROVE  DampInv'
  <2>1. SameTable /\ hops' = Append(hops, <<>>)
    BY <1>5 DEF BeginSignal, SameTable, ledger, TravTypes, RequestForms
  <2>2. HopsIn(hops') = HopsIn(hops)
    BY <2>1, HopsInAppend DEF TravTypes
  <2> QED
    BY <2>1, <2>2, UndampedKept, Zenon DEF DampInv, SameTable
<1>6. ASSUME Forward
      PROVE  DampInv'
  <2>1. SameTable /\ phase' # "idle"
    BY <1>6 DEF Forward, SameTable, ledger
  <2>2. HopsIn(hops') = HopsIn(hops) \cup {NewHop}
    BY <1>6, HopsInForward
  <2>3. UndampedHop(NewHop)
    <3>1. NextEdge \in EdgeIds /\ Failing(NextEdge) = {}
      BY <1>6, ForwardAdds DEF Forward
    <3>2. ~Damped(NextEdge, Offer(topology.edges[NextEdge]))
      BY <3>1, PassedUndamped
    <3>3. /\ NewHop.edge = NextEdge /\ NewHop.to = topology.edges[NextEdge].to
          /\ NewHop.after = Offer(topology.edges[NextEdge])
      BY DEF NewHop
    <3> QED
      BY <3>1, <3>2, <3>3, Zenon DEF UndampedHop
  <2> QED
    BY <2>1, <2>2, <2>3, UndampedKept, Zenon DEF DampInv, SameTable
<1>7. ASSUME Commit
      PROVE  DampInv'
  <2>1. UNCHANGED <<context, hops>> /\ phase' = "idle"
    BY <1>7 DEF Commit, requestVars
  <2>2. damping' = damping \/ damping' = DampAll(damping, hops)
    BY <1>7, Zenon DEF Commit, DampAll, ledger
  <2>3. damping' \in DampingTables
    <3>1. request.now \in Nat /\ hops \in Seq(Seq(Hop))
      BY DEF TravTypes, RequestForms
    <3> QED
      BY <2>2, <3>1, DampAllFacts, Zenon DEF DampInv
  <2>4. \A h \in HopsIn(hops) : UndampedHop(h)'
    BY <2>1, Zenon DEF DampInv, UndampedHop, EdgeIds, context
  <2> QED
    BY <2>1, <2>3, <2>4, Zenon DEF DampInv
<1>8. ASSUME NEW q \in Recoveries, Recover(q)
      PROVE  DampInv'
  <2>1. UNCHANGED <<context, hops, damping, phase>> /\ phase = "idle"
    BY <1>8 DEF Recover
  <2> QED
    BY <2>1, Zenon DEF DampInv, UndampedHop, EdgeIds, context
<1>9. ASSUME \/ StopTraversal \/ RefuseEdge \/ TruncateHop \/ LeaveNode
             \/ \E e \in Top : DropEntry(e) \/ SettleUnexplained(e) \/ Settle(e)
      PROVE  DampInv'
  <2>1. SameTable /\ hops' = hops
    BY <1>9, Zenon DEF StopTraversal, RefuseEdge, TruncateHop, LeaveNode, DropEntry,
       SettleUnexplained, Settle, SameTable, ledger, requestVars
  <2> QED
    BY <1>3, <2>1
<1> QED
  BY <1>1, <1>2, <1>4, <1>5, <1>6, <1>7, <1>8, <1>9 DEF Next, Traverse

LEMMA DampAlways == Spec => []DampInv
<1>1. Init => DampInv
  <2> SUFFICES ASSUME Init PROVE DampInv
    OBVIOUS
  <2>1. damping = <<>> /\ hops = <<>>
    BY DEF Init
  <2>2. DOMAIN damping = {} /\ HopsIn(hops) = {}
    BY <2>1, HopsInEmpty
  <2>3. damping \in [{} -> Level]
    BY <2>1
  <2>4. damping \in Tables(DampingKeys)
    BY <2>3 DEF Tables
  <2>5. Within(DampingCapacity, damping)
    BY <2>2, FS_EmptySet, PropagationAssumption DEF Within
  <2> QED
    BY <2>2, <2>4, <2>5, Zenon DEF DampInv, DampingTables
<1>2. TravTypes /\ DampInv /\ [Next]_vars => DampInv'
  BY DampStep
<1> QED
  BY <1>1, <1>2, TravTypesInit, TravTypesStep, PTL DEF Spec

\* What CooldownHolds asks of a step.
CooldownKept ==
    \A k \in DOMAIN damping :
        LET cooldown == EffectiveCooldown(topology.edges[k[2]])
            elapsed == IF request.now > damping[k].tick
                       THEN request.now - damping[k].tick ELSE 0
        IN  damping'[k] # damping[k] =>
                \/ elapsed >= cooldown
                \/ damping'[k].magnitude >= damping[k].magnitude + policy.hysteresis

LEMMA CooldownStep ==
    ASSUME TravTypes, DampInv, [Next]_vars
    PROVE  CooldownKept
<1>1. damping' = damping \/ Commit
  BY DEF Next, Traverse, vars, ledger, Propagate, RejectSignal, BeginSignal, StopTraversal,
     DropEntry, SettleUnexplained, Settle, RefuseEdge, Forward, TruncateHop, LeaveNode, Recover
<1>2. CASE damping' = damping
  BY <1>2, Zenon DEF CooldownKept
<1>3. CASE Commit /\ damping' # damping
  <2> SUFFICES ASSUME NEW k \in DOMAIN damping, damping'[k] # damping[k]
               PROVE  LET cooldown == EffectiveCooldown(topology.edges[k[2]])
                          elapsed == IF request.now > damping[k].tick
                                     THEN request.now - damping[k].tick ELSE 0
                      IN  \/ elapsed >= cooldown
                          \/ damping'[k].magnitude >= damping[k].magnitude + policy.hysteresis
    BY Zenon DEF CooldownKept
  <2>1. damping' = DampAll(damping, hops) /\ phase # "idle"
    BY <1>3, Zenon DEF Commit, DampAll, ledger
  <2>2. request.now \in Nat /\ hops \in Seq(Seq(Hop)) /\ damping \in DampingTables
    BY DEF TravTypes, RequestForms, DampInv
  <2>3. DampedBy(damping, hops, damping')
    BY <2>1, <2>2, DampAllFacts, Zenon
  <2>4. PICK h \in HopsIn(hops) : Damping(h) = <<k, damping'[k]>>
    BY <2>3, Zenon DEF DampedBy
  <2>5. UndampedHop(h) /\ h \in Hop
    <3>1. PICK j \in DOMAIN hops : h \in Range(hops[j])
      BY Zenon DEF HopsIn
    <3>2. hops[j] \in Seq(Hop)
      BY <2>2
    <3>3. PICK i \in DOMAIN hops[j] : h = hops[j][i]
      BY <3>1, Zenon DEF Range
    <3>4. h \in Hop
      BY <3>2, <3>3
    <3> QED
      BY <3>4 DEF DampInv
  <2>6. /\ k = <<h.to, h.edge>>
        /\ damping'[k] = [magnitude |-> ToMagnitude(h.after), tick |-> request.now]
    BY <2>4 DEF Damping
  <2> DEFINE e == topology.edges[h.edge]
  <2>7. h.edge \in EdgeIds /\ k = <<e.to, h.edge>> /\ k[2] = h.edge /\ ~Damped(h.edge, h.after)
    BY <2>1, <2>5, <2>6 DEF UndampedHop
  <2>8. \/ ~(EffectiveCooldown(e) > 0)
        \/ ~(request.now - damping[k].tick < EffectiveCooldown(e))
        \/ ~(ToMagnitude(h.after) <= Least(One, damping[k].magnitude + policy.hysteresis))
    BY <2>7, Zenon DEF Damped
  <2>9. damping[k] \in Level /\ damping[k].tick \in Nat /\ damping[k].magnitude \in Nat
    <3>1. PICK D \in SUBSET DampingKeys : damping \in [D -> Level]
      BY <2>2 DEF DampingTables, Tables
    <3>2. damping[k] \in Level
      BY <3>1
    <3> QED
      BY <3>2, PropagationAssumption DEF Level, Magnitude
  <2>10. EffectiveCooldown(e) \in Nat /\ policy.hysteresis \in Nat
    <3>1. e.cooldown \in Nat
      BY <2>7, EdgeTypes DEF TravTypes, Edge
    <3>2. policy.cooldown \in Nat /\ policy.hysteresis \in Magnitude
      BY DEF TravTypes, PolicyForms
    <3> HIDE DEF e
    <3> QED
      BY <3>1, <3>2, PropagationAssumption DEF EffectiveCooldown, Magnitude
  <2>11. ToMagnitude(h.after) \in Nat /\ ToMagnitude(h.after) <= One /\ One \in Nat
    <3>1. h.after \in Nat
      BY <2>5, PropagationAssumption DEF Hop, Potential
    <3>2. ToMagnitude(h.after) \in Magnitude
      BY <3>1, ToMagnitudeType
    <3> QED
      BY <3>2, PropagationAssumption DEF Magnitude
  <2>12. damping'[k].magnitude = ToMagnitude(h.after)
    BY <2>6
  <2>13. PICK c, t, m, y, x \in Nat :
            /\ c = EffectiveCooldown(e) /\ t = damping[k].tick /\ m = damping[k].magnitude
            /\ y = policy.hysteresis /\ x = ToMagnitude(h.after)
    BY <2>9, <2>10, <2>11
  <2> HIDE DEF e
  <2>14. \/ (IF request.now > t THEN request.now - t ELSE 0) >= c
         \/ x >= m + y
    <3>1. ~(c > 0) \/ ~(request.now - t < c) \/ ~(x <= Least(One, m + y))
      BY <2>8, <2>13, Zenon
    <3>2. x <= One /\ One \in Nat
      BY <2>11, <2>13
    <3> QED
      BY <2>2, <2>13, <3>1, <3>2 DEF Least
  <2> QED
    BY <2>7, <2>12, <2>13, <2>14, Zenon DEF e
<1> QED
  BY <1>1, <1>2, <1>3

\* CooldownHolds for every topology, policy and sequence of requests: no interleaving of
\* requests, and no order of their ticks, replaces the record of a damped edge by less
\* than what breaks its hysteresis before its cooldown has passed.
THEOREM CooldownAlwaysHolds == Spec => CooldownHolds
<1>1. TravTypes /\ DampInv /\ [Next]_vars => [CooldownKept]_vars
  BY CooldownStep
<1>2. [][CooldownKept]_vars => CooldownHolds
  BY DEF CooldownKept, CooldownHolds
<1> QED
  BY <1>1, <1>2, TravTypesInit, TravTypesStep, DampAlways, PTL DEF Spec

-----------------------------------------------------------------------------
(* The combined outcome *)

Contribution == [source : Nat, magnitude : Magnitude, weighted : Magnitude, priority : Nat]

Accumulator == [received : BOOLEAN, best : Potential, source : Nat, depth : Nat,
                parent : Resources \cup {Nowhere}, contributions : Seq(Contribution),
                count : Nat]

\* A resource where pressure may be applied.
Open(r) == ~RefusesIngress(r) /\ CanReceive(r)

Resettles(e) == acc' = [acc EXCEPT ![e.node] = RecordSettlement(@, e)]

\* What a step does to the accumulators, along with what it does to the traversal.
FreshStart == acc' = [r \in Resources |-> NoAccumulator] /\ ~Traversing'

Refuses ==
    /\ ~Traversing'
    /\ \E r \in Resources : ~Open(r) /\ acc' = [acc EXCEPT ![r].received = FALSE]

Idles ==
    /\ acc' = acc
    /\ ~Traversing' \/ Quiet \/ \E e \in Top : Drops(e)

Starts ==
    /\ acc' = acc
    /\ settled' = <<>>
    /\ \E e : queue' = {e} /\ Open(e.node)

Accumulates == \E e \in Top : Settles(e) /\ Resettles(e)

Offers == Forwards /\ acc' = acc

LEMMA AccCases ==
    ASSUME TravTypes, [Next]_vars
    PROVE  /\ UNCHANGED <<topology, policy, fences>>
           /\ \/ FreshStart
              \/ /\ request'.now = request.now
                 /\ Refuses \/ Idles \/ Starts \/ Accumulates \/ Offers
<1>1. ASSUME UNCHANGED vars
      PROVE  UNCHANGED <<topology, policy, fences, request>> /\ Idles
  BY <1>1 DEF vars, context, requestVars, traversalVars, Quiet, Traversing, CurrentHops, Idles
<1>2. ASSUME NEW q \in Requests, Propagate(q)
      PROVE  UNCHANGED <<topology, policy, fences>> /\ FreshStart
  BY <1>2 DEF Propagate, context, Traversing, FreshStart
<1>3. ASSUME RejectSignal
      PROVE  UNCHANGED <<topology, policy, fences>> /\ request'.now = request.now /\ Idles
  BY <1>3 DEF RejectSignal, context, Traversing, Idles, TravTypes, RequestForms
<1>4. ASSUME BeginSignal
      PROVE  /\ UNCHANGED <<topology, policy, fences>> /\ request'.now = request.now
             /\ Refuses \/ Starts
  <2>1. UNCHANGED <<topology, policy, fences>> /\ request'.now = request.now
    BY <1>4 DEF BeginSignal, context, TravTypes, RequestForms
  <2>2. settled' = <<>> /\ signal'.origin \in Resources
    BY <1>4 DEF BeginSignal
  <2> DEFINE e == [node |-> signal'.origin, potential |-> FromMagnitude(signal'.magnitude),
                   depth |-> 0, gain |-> One, parent |-> Nowhere, edge |-> 0]
  <2>3. CASE ~Open(signal'.origin)
    <3>1. acc' = [acc EXCEPT ![signal'.origin].received = FALSE] /\ phase' = "signal"
      BY <1>4, <2>3, Zenon DEF BeginSignal, Open
    <3> QED
      BY <2>1, <2>2, <2>3, <3>1 DEF Refuses, Traversing
  <2>4. CASE Open(signal'.origin)
    <3>1. queue' = {e} /\ acc' = acc
      BY <1>4, <2>4, Zenon DEF BeginSignal, Open
    <3>2. Open(e.node)
      BY <2>4
    <3> HIDE DEF e
    <3> QED
      BY <2>1, <2>2, <3>1, <3>2, Zenon DEF Starts
  <2> QED
    BY <2>3, <2>4
<1>5. ASSUME NEW e \in Top, Settle(e)
      PROVE  UNCHANGED <<topology, policy, fences, request>> /\ Accumulates
  <2>1. Settles(e) /\ Resettles(e) /\ UNCHANGED <<topology, policy, fences, request>>
    BY <1>5 DEF Settle, context, Settles, Traversing, CurrentHops, Resettles
  <2> QED
    BY <2>1 DEF Accumulates
<1>6. ASSUME Forward
      PROVE  UNCHANGED <<topology, policy, fences, request>> /\ Offers
  <2>1. queue' = queue \cup {NewEntry} /\ CurrentHops' = CurrentHops \cup {NewHop}
    BY <1>6, ForwardAdds
  <2>2. /\ UNCHANGED <<topology, policy, fences, request, signal, settled, acc>>
        /\ phase = "edges" /\ todo # {} /\ Failing(NextEdge) = {}
    BY <1>6 DEF Forward, context
  <2> QED
    BY <2>1, <2>2 DEF Forwards, Offers
<1>7. ASSUME NEW e \in Top, DropEntry(e)
      PROVE  UNCHANGED <<topology, policy, fences, request>> /\ Idles
  <2>1. Drops(e) /\ acc' = acc /\ UNCHANGED <<topology, policy, fences, request>>
    BY <1>7 DEF DropEntry, context, requestVars, Drops, Traversing, CurrentHops
  <2> QED
    BY <2>1 DEF Idles
<1>8. ASSUME RefuseEdge \/ LeaveNode
      PROVE  UNCHANGED <<topology, policy, fences, request>> /\ Idles
  BY <1>8 DEF RefuseEdge, LeaveNode, context, requestVars, Quiet, Traversing, CurrentHops, Idles
<1>9. ASSUME \/ StopTraversal \/ TruncateHop \/ Commit
             \/ \E e \in Top : SettleUnexplained(e)
             \/ \E q \in Recoveries : Recover(q)
      PROVE  UNCHANGED <<topology, policy, fences, request>> /\ Idles
  BY <1>9, Zenon DEF StopTraversal, EndTraversal, TruncateHop, Commit, SettleUnexplained, Recover,
     context, requestVars, Traversing, Idles
<1> QED
  BY <1>1, <1>2, <1>3, <1>4, <1>5, <1>6, <1>7, <1>8, <1>9, Zenon DEF Next, Traverse

AccTypes == acc \in [Resources -> Accumulator]

LEMMA ContributionType ==
    ASSUME TravTypes, NEW p \in Nat
    PROVE  ContributionOf(p) \in Contribution
<1> DEFINE m == ToMagnitude(p)
<1>1. signal.source \in Nat /\ signal.priority \in Nat /\ signal.weight \in Magnitude
  BY DEF TravTypes, Signal
<1>2. m \in Magnitude
  BY ToMagnitudeType
<1>3. WeightedMagnitude(m) \in Magnitude
  <2>1. PICK w, x \in Nat : w = signal.weight /\ x = m
    BY <1>1, <1>2, PropagationAssumption DEF Magnitude
  <2>2. One \in Nat \ {0} /\ x * w \in Nat
    BY <2>1, PropagationAssumption
  <2>3. (x * w) \div One \in Nat
    BY <2>2, Quotient
  <2> HIDE DEF m
  <2>4. WeightedMagnitude(m) = Least(One, (x * w) \div One)
    BY <2>1, Zenon DEF WeightedMagnitude
  <2> QED
    BY <2>2, <2>3, <2>4 DEF Least, Magnitude
<1>4. ContributionOf(p) = [source |-> signal.source, magnitude |-> m,
                           weighted |-> WeightedMagnitude(m), priority |-> signal.priority]
  BY Zenon DEF ContributionOf
<1> HIDE DEF m
<1>5. [source |-> signal.source, magnitude |-> m,
       weighted |-> WeightedMagnitude(m), priority |-> signal.priority] \in Contribution
  BY <1>1, <1>2, <1>3, Zenon DEF Contribution
<1> QED
  BY <1>4, <1>5, Zenon

LEMMA SettlementType ==
    ASSUME TravTypes, NEW a \in Accumulator, NEW e \in Entry
    PROVE  RecordSettlement(a, e) \in Accumulator
<1> DEFINE better == ~a.received \/ e.potential > a.best
<1>1. /\ a.best \in Potential /\ a.source \in Nat /\ a.depth \in Nat
      /\ a.parent \in Resources \cup {Nowhere} /\ a.contributions \in Seq(Contribution)
  BY DEF Accumulator
<1>2. /\ e.potential \in Potential /\ e.depth \in Nat
      /\ e.parent \in Resources \cup {Nowhere}
  BY DEF Entry
<1>3. signal.source \in Nat
  BY DEF TravTypes, Signal
<1>4. ContributionOf(e.potential) \in Contribution
  BY EntryFields, ContributionType, Zenon
<1>5. PICK cs : cs = IF Len(a.contributions) < MaxContributions
                     THEN Append(a.contributions, ContributionOf(e.potential))
                     ELSE a.contributions
  OBVIOUS
<1>6. cs \in Seq(Contribution)
  BY <1>1, <1>4, <1>5
<1>7. PICK n \in Nat : n = a.count + 1
  BY DEF Accumulator
<1>8. RecordSettlement(a, e) = [received |-> TRUE,
         best |-> IF better THEN e.potential ELSE a.best,
         source |-> IF better THEN signal.source ELSE a.source,
         depth |-> IF better THEN e.depth ELSE a.depth,
         parent |-> IF better THEN e.parent ELSE a.parent,
         contributions |-> cs, count |-> n]
  BY <1>5, <1>7, Zenon DEF RecordSettlement, Accumulated
<1> HIDE DEF better
<1>9. PICK b, s, d, p :
         /\ b = (IF better THEN e.potential ELSE a.best)
         /\ s = (IF better THEN signal.source ELSE a.source)
         /\ d = (IF better THEN e.depth ELSE a.depth)
         /\ p = (IF better THEN e.parent ELSE a.parent)
  BY Zenon
<1>10. b \in Potential /\ s \in Nat /\ d \in Nat /\ p \in Resources \cup {Nowhere}
  BY <1>1, <1>2, <1>3, <1>9, Zenon
<1>11. RecordSettlement(a, e) = [received |-> TRUE, best |-> b, source |-> s, depth |-> d,
                                parent |-> p, contributions |-> cs, count |-> n]
  BY <1>8, <1>9, Zenon
<1>12. [received |-> TRUE, best |-> b, source |-> s, depth |-> d, parent |-> p,
        contributions |-> cs, count |-> n] \in Accumulator
  BY <1>6, <1>7, <1>10 DEF Accumulator
<1> QED
  BY <1>11, <1>12, Zenon

LEMMA NoAccumulatorType == NoAccumulator \in Accumulator
<1>1. 0 \in Potential /\ 0 \in Nat /\ <<>> \in Seq(Contribution)
  BY PropagationAssumption DEF Potential
<1> QED
  BY <1>1, Zenon DEF NoAccumulator, Accumulator

\* The accumulator that a settlement writes, and those that it leaves.
LEMMA ResettlesFields ==
    ASSUME AccTypes, NEW e \in Entry, Resettles(e)
    PROVE  /\ e.node \in Resources
           /\ acc'[e.node] = RecordSettlement(acc[e.node], e)
           /\ \A r \in Resources : r # e.node => acc'[r] = acc[r]
<1>1. e.node \in Resources
  BY DEF Entry
<1> QED
  BY <1>1 DEF AccTypes, Resettles

LEMMA RefusesFields ==
    ASSUME AccTypes, NEW r \in Resources, acc' = [acc EXCEPT ![r].received = FALSE]
    PROVE  AccTypes' /\ \A s \in Resources : s # r => acc'[s] = acc[s]
<1>1. PICK a : a = [acc[r] EXCEPT !.received = FALSE]
  OBVIOUS
<1>2. acc[r] \in Accumulator
  BY DEF AccTypes
<1>3. a \in Accumulator
  <2>1. a = [received |-> FALSE, best |-> acc[r].best, source |-> acc[r].source,
             depth |-> acc[r].depth, parent |-> acc[r].parent,
             contributions |-> acc[r].contributions, count |-> acc[r].count]
    BY <1>1, <1>2 DEF Accumulator
  <2>2. /\ acc[r].best \in Potential /\ acc[r].source \in Nat /\ acc[r].depth \in Nat
        /\ acc[r].parent \in Resources \cup {Nowhere}
        /\ acc[r].contributions \in Seq(Contribution) /\ acc[r].count \in Nat
    BY <1>2 DEF Accumulator
  <2> QED
    BY <2>1, <2>2, Zenon DEF Accumulator
<1>4. acc' = [acc EXCEPT ![r] = a]
  BY <1>1
<1> QED
  BY <1>3, <1>4 DEF AccTypes

LEMMA AccTypesStep ==
    ASSUME TravTypes, AccTypes, [Next]_vars
    PROVE  AccTypes'
<1>1. CASE FreshStart
  BY <1>1, NoAccumulatorType, Zenon DEF FreshStart, AccTypes
<1>2. CASE Refuses
  BY <1>2, RefusesFields DEF Refuses
<1>3. CASE acc' = acc
  BY <1>3 DEF AccTypes
<1>4. CASE Accumulates
  <2>1. PICK e \in Top : Resettles(e)
    BY <1>4 DEF Accumulates
  <2>2. e \in Entry
    BY DEF Top, TravTypes
  <2>3. e.node \in Resources
    BY <2>2 DEF Entry
  <2>4. RecordSettlement(acc[e.node], e) \in Accumulator
    BY <2>2, <2>3, SettlementType DEF AccTypes
  <2>5. PICK a : a = RecordSettlement(acc[e.node], e)
    OBVIOUS
  <2>6. acc' = [acc EXCEPT ![e.node] = a]
    BY <2>1, <2>5, Zenon DEF Resettles
  <2> QED
    BY <2>3, <2>4, <2>5, <2>6 DEF AccTypes
<1> QED
  BY <1>1, <1>2, <1>3, <1>4, AccCases, Zenon DEF Idles, Starts, Offers

LEMMA AccTypesInit == Init => AccTypes
BY NoAccumulatorType, Zenon DEF Init, AccTypes

-----------------------------------------------------------------------------
(* Winning paths *)

\* An edge that no check refuses leads to a resource where pressure may be applied.
LEMMA PassedOpen ==
    ASSUME NEW i \in EdgeIds, Failing(i) = {}
    PROVE  Open(topology.edges[i].to)
<1> DEFINE e == topology.edges[i]
<1>1. DOMAIN Checks(i) = 1..15
  BY DEF Checks
<1>2. \A k \in 1..15 : ~Checks(i)[k][1]
  BY <1>1, Zenon DEF Failing
<1>3. Checks(i)[7][1] = ~CanReceive(e.to) /\ Checks(i)[10][1] = RefusesIngress(e.to)
  BY DEF Checks
<1>4. ~Checks(i)[7][1] /\ ~Checks(i)[10][1]
  BY <1>2
<1> QED
  BY <1>3, <1>4, Zenon DEF Open

\* Where pressure may not be applied none was received, so that what a refused origin
\* resets was never set.
OpenInv ==
    /\ \A r \in Resources : acc[r].received => Open(r)
    /\ Traversing => \A e \in queue : Open(e.node)

LEMMA OpenKept ==
    ASSUME UNCHANGED <<topology, fences>>, request'.now = request.now, NEW r, Open(r)
    PROVE  Open(r)'
BY Zenon DEF Open, RefusesIngress, CanReceive, Governing, LiveFences

LEMMA OpenStep ==
    ASSUME TravTypes, AccTypes, OpenInv, [Next]_vars
    PROVE  OpenInv'
<1>1. /\ UNCHANGED <<topology, policy, fences>>
      /\ \/ FreshStart
         \/ /\ request'.now = request.now
            /\ Refuses \/ Idles \/ Starts \/ Accumulates \/ Offers
  BY AccCases
<1>2. CASE FreshStart
  <2>1. \A r \in Resources : acc'[r].received = FALSE
    BY <1>2 DEF FreshStart, NoAccumulator
  <2> QED
    BY <1>2, <2>1, Zenon DEF FreshStart, OpenInv
<1>3. CASE request'.now = request.now /\ Refuses
  <2>1. PICK r \in Resources : acc' = [acc EXCEPT ![r].received = FALSE]
    BY <1>3 DEF Refuses
  <2>2. \A s \in Resources : s # r => acc'[s] = acc[s]
    BY <2>1, RefusesFields
  <2>3. acc'[r].received = FALSE
    <3>1. acc[r] \in Accumulator /\ acc'[r] = [acc[r] EXCEPT !.received = FALSE]
      BY <2>1 DEF AccTypes
    <3> QED
      BY <3>1 DEF Accumulator
  <2>4. \A s \in Resources : acc'[s].received => Open(s)
    BY <2>2, <2>3, Zenon DEF OpenInv
  <2> QED
    BY <1>1, <1>3, <2>4, OpenKept, Zenon DEF OpenInv, Refuses
<1>4. ASSUME UNCHANGED <<topology, fences>>, request'.now = request.now, acc' = acc,
             Traversing' => \A e \in queue' : Open(e.node)
      PROVE  OpenInv'
  BY <1>4, OpenKept, Zenon DEF OpenInv
<1>5. CASE request'.now = request.now /\ Idles
  <2>1. acc' = acc /\ (~Traversing' \/ (Traversing /\ queue' \subseteq queue))
    BY <1>5 DEF Idles, Quiet, Drops
  <2>2. Traversing' => \A e \in queue' : Open(e.node)
    BY <2>1 DEF OpenInv
  <2> QED
    BY <1>1, <1>4, <1>5, <2>1, <2>2
<1>6. CASE request'.now = request.now /\ Starts
  <2>1. acc' = acc /\ \A e \in queue' : Open(e.node)
    BY <1>6 DEF Starts
  <2> QED
    BY <1>1, <1>4, <1>6, <2>1
<1>7. CASE request'.now = request.now /\ Accumulates
  <2>1. PICK e \in Top : Settles(e) /\ Resettles(e)
    BY <1>7 DEF Accumulates
  <2>2. e \in queue /\ e \in Entry /\ queue' \subseteq queue /\ Traversing
    BY <2>1 DEF Top, TravTypes, Settles
  <2>3. Open(e.node)
    BY <2>2, Zenon DEF OpenInv
  <2>4. \A r \in Resources : r # e.node => acc'[r] = acc[r]
    BY <2>1, <2>2, ResettlesFields
  <2>5. \A r \in Resources : acc'[r].received => Open(r)
    BY <2>3, <2>4, Zenon DEF OpenInv
  <2> QED
    BY <1>1, <1>7, <2>2, <2>5, OpenKept, Zenon DEF OpenInv
<1>8. CASE request'.now = request.now /\ Offers
  <2>1. /\ phase = "edges" /\ todo # {} /\ Failing(NextEdge) = {} /\ acc' = acc
        /\ queue' = queue \cup {NewEntry}
    BY <1>8 DEF Offers, Forwards
  <2>2. Open(NewEntry.node)
    <3>1. NextEdge \in EdgeIds
      BY <2>1, NextEdgeIn
    <3>2. NewEntry.node = topology.edges[NextEdge].to
      BY DEF NewEntry
    <3> QED
      BY <2>1, <3>1, <3>2, PassedOpen
  <2>3. \A e \in queue' : Open(e.node)
    BY <2>1, <2>2 DEF OpenInv, Traversing
  <2> QED
    BY <1>1, <1>4, <1>8, <2>1, <2>3
<1> QED
  BY <1>1, <1>2, <1>3, <1>5, <1>6, <1>7, <1>8, Zenon

LEMMA OpenAlways == Spec => [](AccTypes /\ OpenInv)
<1>1. Init => AccTypes /\ OpenInv
  <2> SUFFICES ASSUME Init PROVE OpenInv
    BY AccTypesInit
  <2>1. \A r \in Resources : acc[r].received = FALSE
    BY DEF Init, NoAccumulator
  <2>2. ~Traversing
    BY DEF Init, Traversing
  <2> QED
    BY <2>1, <2>2, Zenon DEF OpenInv
<1>2. TravTypes /\ AccTypes /\ OpenInv /\ [Next]_vars => (AccTypes /\ OpenInv)'
  BY AccTypesStep, OpenStep
<1> QED
  BY <1>1, <1>2, TravTypesInit, TravTypesStep, PTL DEF Spec

\* p was reached more strongly than r, or as strongly and, by rank, before it.
Higher(rank, p, r) ==
    \/ acc[p].best > acc[r].best
    \/ acc[p].best = acc[r].best /\ rank[p] < rank[r]

RootedAt(rank, r) ==
    \/ acc[r].parent = Nowhere
    \/ /\ acc[r].parent \in Resources
       /\ acc[acc[r].parent].received
       /\ Higher(rank, acc[r].parent, r)

Rooted(rank) == \A r \in Resources : acc[r].received => RootedAt(rank, r)

\* What a traversal has settled was received at least as strongly.
Reached(k) ==
    acc[settled[k].node].received /\ acc[settled[k].node].best >= settled[k].potential

\* The winners of different signals are ordered: a predecessor is stronger than its
\* successor or, among equals, has been the winner for longer.  The rank is the time at
\* which a resource got its winner.
RootInv ==
    ~policy.amplify =>
        /\ \E n \in Nat : \E rank \in [Resources -> 0..n] : Rooted(rank)
        /\ Traversing => \A k \in DOMAIN settled : Reached(k)

LEMMA AccFields ==
    ASSUME AccTypes, NEW r \in Resources
    PROVE  acc[r] \in Accumulator /\ acc[r].best \in Nat
                /\ acc[r].parent \in Resources \cup {Nowhere}
<1>1. acc[r] \in Accumulator
  BY DEF AccTypes
<1>2. acc[r].best \in Potential /\ acc[r].parent \in Resources \cup {Nowhere}
  BY <1>1 DEF Accumulator
<1> QED
  BY <1>1, <1>2, PropagationAssumption DEF Potential

LEMMA RootedSame ==
    ASSUME NEW rank, Rooted(rank),
           \A r \in Resources : /\ acc'[r].received = acc[r].received
                                /\ acc'[r].best = acc[r].best
                                /\ acc'[r].parent = acc[r].parent
    PROVE  Rooted(rank)'
<1> SUFFICES ASSUME NEW r \in Resources, acc'[r].received
             PROVE  RootedAt(rank, r)'
  BY Zenon DEF Rooted
<1>1. RootedAt(rank, r)
  BY Zenon DEF Rooted
<1> QED
  BY <1>1, Zenon DEF RootedAt, Higher

\* Where the entry that settles comes from.
LEMMA SettlesFrom ==
    ASSUME TravTypes, OrderInv, PathInv, Plain, NEW e \in Top, Settles(e)
    PROVE  \/ e.parent = Nowhere
           \/ \E j \in DOMAIN settled :
                 /\ e.parent = settled[j].node /\ e.parent # e.node
                 /\ e.potential <= settled[j].potential
<1>1. Traversing /\ ~IsSettled(e.node) /\ e \in queue /\ settled \in Seq(Entry)
  BY DEF Settles, Top, TravTypes
<1>2. CASE settled = <<>>
  BY <1>1, <1>2, Zenon DEF PathInv, IsOrigin
<1>3. CASE settled # <<>>
  <2>1. ByHop(e, Len(settled))
    BY <1>1, <1>3, Zenon DEF PathInv
  <2>2. PICK h \in CurrentHops, j \in 1..Len(settled) : Follows(e, h, j)
    BY <2>1, Zenon DEF ByHop
  <2>3. e.parent = settled[j].node
    BY <2>2, Zenon DEF Follows
  <2>4. j \in DOMAIN settled
    BY <1>1
  <2>5. e.potential <= settled[j].potential
    BY <1>1, <2>4, Zenon DEF OrderInv
  <2>6. e.parent # e.node
    BY <1>1, <2>3, <2>4, Zenon DEF IsSettled
  <2> QED
    BY <2>3, <2>4, <2>5, <2>6
<1> QED
  BY <1>2, <1>3

LEMMA RootSettles ==
    ASSUME TravTypes, AccTypes, OrderInv, PathInv, RootInv, ~policy.amplify,
           NEW e \in Top, Settles(e), Resettles(e)
    PROVE  /\ \E n \in Nat : \E rank \in [Resources -> 0..n] : Rooted(rank)'
           /\ \A k \in DOMAIN settled' : Reached(k)'
<1>1. /\ Traversing /\ ~IsSettled(e.node) /\ e \in queue /\ e \in Entry /\ Plain
      /\ settled' = Append(settled, e)
  BY DEF Settles, Top, TravTypes, Plain
<1>2. PICK x, a : x = e.node /\ a = acc[x]
  OBVIOUS
<1>3. /\ x \in Resources /\ acc'[x] = RecordSettlement(a, e)
      /\ \A r \in Resources : r # x => acc'[r] = acc[r]
  BY <1>1, <1>2, ResettlesFields
<1>4. PICK n \in Nat : \E rank \in [Resources -> 0..n] : Rooted(rank)
  BY Zenon DEF RootInv
<1>5. PICK rank \in [Resources -> 0..n] : Rooted(rank)
  BY <1>4
<1>6. \A k \in DOMAIN settled : Reached(k)
  BY <1>1, Zenon DEF RootInv
<1>7. a.best \in Nat /\ e.potential \in Nat /\ \A r \in Resources : acc[r].best \in Nat
  BY <1>1, <1>2, <1>3, AccFields, EntryFields
<1> DEFINE better == ~a.received \/ e.potential > a.best
<1>8. /\ acc'[x].received = TRUE
      /\ acc'[x].best = IF better THEN e.potential ELSE a.best
      /\ acc'[x].parent = IF better THEN e.parent ELSE a.parent
  <2>1. /\ RecordSettlement(a, e).received = TRUE
        /\ RecordSettlement(a, e).best = IF better THEN e.potential ELSE a.best
        /\ RecordSettlement(a, e).parent = IF better THEN e.parent ELSE a.parent
    BY DEF RecordSettlement, Accumulated
  <2> HIDE DEF better
  <2> QED
    BY <1>3, <2>1, Zenon
<1>9. \A r \in Resources : acc[r].received => acc'[r].received
  BY <1>3, <1>8, Zenon
<1>10. \A r \in Resources : acc[r].received => acc'[r].best >= acc[r].best
  <2> SUFFICES ASSUME NEW r \in Resources, acc[r].received
               PROVE  acc'[r].best >= acc[r].best
    OBVIOUS
  <2>1. CASE r # x
    BY <1>3, <1>7, <2>1
  <2>2. CASE r = x
    <3>1. acc'[x].best = IF e.potential > a.best THEN e.potential ELSE a.best
      BY <1>2, <1>8, <2>2, Zenon
    <3> QED
      BY <1>2, <1>7, <2>2, <3>1
  <2> QED
    BY <2>1, <2>2
<1>11. acc'[x].best >= e.potential
  <2>1. CASE better
    <3>1. acc'[x].best = e.potential
      BY <1>8, <2>1, Zenon
    <3> QED
      BY <1>7, <3>1
  <2>2. CASE ~better
    <3>1. acc'[x].best = a.best /\ ~(e.potential > a.best)
      BY <1>8, <2>2, Zenon
    <3> QED
      BY <1>7, <3>1
  <2> QED
    BY <2>1, <2>2
<1>12. \A k \in DOMAIN settled' : Reached(k)'
  <2> SUFFICES ASSUME NEW k \in DOMAIN settled'
               PROVE  /\ acc'[settled'[k].node].received
                      /\ acc'[settled'[k].node].best >= settled'[k].potential
    BY Zenon DEF Reached
  <2>1. CASE k \in DOMAIN settled
    <3>1. settled'[k] = settled[k]
      BY <1>1, <2>1, SettledAfter
    <3>2. settled[k].node \in Resources /\ settled[k].potential \in Nat
      BY <2>1, SettledFields DEF Entry
    <3>3. /\ acc[settled[k].node].received
          /\ acc[settled[k].node].best >= settled[k].potential
      BY <1>6, <2>1, Zenon DEF Reached
    <3>4. PICK r \in Resources : r = settled[k].node
      BY <3>2
    <3>5. acc'[r].received /\ acc'[r].best >= acc[r].best /\ acc[r].best >= settled[k].potential
      BY <1>9, <1>10, <3>3, <3>4, Zenon
    <3>6. acc'[r].best \in Nat
      <4>1. r # x => acc'[r].best = acc[r].best
        BY <1>3
      <4>2. r = x => acc'[r].best = e.potential \/ acc'[r].best = a.best
        BY <1>8, Zenon
      <4> QED
        BY <1>7, <4>1, <4>2
    <3>7. acc'[r].best >= settled[k].potential
      BY <1>7, <3>2, <3>5, <3>6
    <3> QED
      BY <3>1, <3>4, <3>5, <3>7, Zenon
  <2>2. CASE k \notin DOMAIN settled
    <3>1. settled'[k] = e
      BY <1>1, <2>2, SettledAfter, Zenon
    <3> QED
      BY <1>2, <1>8, <1>11, <3>1, Zenon
  <2> QED
    BY <2>1, <2>2
\* The winner stays: so does every predecessor.
<1>13. CASE ~better
  <2>1. \A r \in Resources : /\ acc'[r].received = acc[r].received
                             /\ acc'[r].best = acc[r].best
                             /\ acc'[r].parent = acc[r].parent
    <3>1. acc'[x].best = a.best /\ acc'[x].parent = a.parent /\ a.received
      BY <1>8, <1>13, Zenon
    <3>2. a.received = TRUE
      <4>1. a \in Accumulator
        BY <1>2, <1>3, AccFields
      <4>2. a.received \in BOOLEAN
        BY <4>1, Zenon DEF Accumulator
      <4> QED
        BY <3>1, <4>2
    <3> QED
      BY <1>2, <1>3, <1>8, <3>1, <3>2, Zenon
  <2>2. Rooted(rank)'
    BY <1>5, <2>1, RootedSame
  <2> QED
    BY <1>12, <2>2, Zenon
\* A new winner ranks after everything.
<1>14. CASE better
  <2>1. acc'[x].best = e.potential /\ acc'[x].parent = e.parent
    BY <1>8, <1>14, Zenon
  <2> DEFINE new == [rank EXCEPT ![x] = n + 1]
  <2>2. /\ new \in [Resources -> 0..(n + 1)] /\ n + 1 \in Nat
        /\ new[x] = n + 1 /\ \A r \in Resources : r # x => new[r] = rank[r]
        /\ \A r \in Resources : rank[r] \in Nat /\ rank[r] < n + 1
    BY <1>3
  <2> HIDE DEF new
  <2>3. ASSUME NEW r \in Resources, acc'[r].received
        PROVE  RootedAt(new, r)'
    <3>1. CASE r = x
      <4>1. CASE e.parent = Nowhere
        BY <2>1, <3>1, <4>1, Zenon DEF RootedAt
      <4>2. ASSUME NEW j \in DOMAIN settled, e.parent = settled[j].node, e.parent # e.node,
                   e.potential <= settled[j].potential
            PROVE  RootedAt(new, r)'
        <5>1. PICK p : p = e.parent
          OBVIOUS
        <5>2. p \in Resources /\ p # x /\ settled[j].potential \in Nat
          BY <1>2, <4>2, <5>1, SettledFields DEF Entry
        <5>3. acc[p].received /\ acc[p].best >= settled[j].potential
          BY <1>6, <4>2, <5>1, Zenon DEF Reached
        <5>4. acc'[p] = acc[p]
          BY <1>3, <5>2
        <5>5. acc'[p].best > acc'[x].best \/ (acc'[p].best = acc'[x].best /\ new[p] < new[x])
          BY <1>7, <2>1, <2>2, <4>2, <5>2, <5>3, <5>4
        <5>6. Higher(new, p, x)'
          BY <5>5, Zenon DEF Higher
        <5>7. acc'[x].parent = p
          BY <2>1, <5>1
        <5>8. acc'[p].received
          BY <5>3, <5>4
        <5> QED
          BY <3>1, <5>2, <5>6, <5>7, <5>8, Zenon DEF RootedAt
      <4> QED
        BY <1>1, <4>1, <4>2, SettlesFrom
    <3>2. CASE r # x
      <4>1. acc'[r] = acc[r]
        BY <1>3, <3>2
      <4>2. RootedAt(rank, r)
        BY <1>5, <2>3, <4>1, Zenon DEF Rooted
      <4>3. CASE acc[r].parent = Nowhere
        BY <4>1, <4>3, Zenon DEF RootedAt
      <4>4. CASE acc[r].parent # Nowhere
        <5>1. PICK p : p = acc[r].parent
          OBVIOUS
        <5>2. p \in Resources /\ acc[p].received /\ Higher(rank, p, r)
          BY <4>2, <4>4, <5>1, Zenon DEF RootedAt
        <5>3. Higher(new, p, r)'
          <6>1. CASE p # x
            <7>1. acc'[p] = acc[p] /\ new[p] = rank[p] /\ new[r] = rank[r]
              BY <1>3, <2>2, <3>2, <5>2, <6>1
            <7> QED
              BY <4>1, <5>2, <7>1, Zenon DEF Higher
          <6>2. CASE p = x
            <7>1. e.potential > a.best
              BY <1>2, <1>14, <5>2, <6>2, Zenon
            <7>2. acc[p].best >= acc[r].best
              <8>1. acc[p].best > acc[r].best \/ acc[p].best = acc[r].best
                BY <5>2, Zenon DEF Higher
              <8> QED
                BY <1>7, <5>2, <8>1
            <7>3. acc'[p].best > acc'[r].best
              BY <1>2, <1>7, <2>1, <4>1, <5>2, <6>2, <7>1, <7>2
            <7> QED
              BY <7>3, Zenon DEF Higher
          <6> QED
            BY <6>1, <6>2
        <5>4. acc'[p].received /\ acc'[r].parent = p
          BY <1>9, <4>1, <5>1, <5>2
        <5> QED
          BY <5>2, <5>3, <5>4, Zenon DEF RootedAt
      <4> QED
        BY <4>3, <4>4
    <3> QED
      BY <3>1, <3>2
  <2>4. Rooted(new)'
    BY <2>3, Zenon DEF Rooted
  <2> QED
    BY <1>12, <2>2, <2>4, Zenon
<1> QED
  BY <1>13, <1>14

LEMMA RootStep ==
    ASSUME TravTypes, AccTypes, OpenInv, OrderInv, PathInv, RootInv, [Next]_vars
    PROVE  RootInv'
<1>1. /\ UNCHANGED <<topology, policy, fences>>
      /\ FreshStart \/ Refuses \/ Idles \/ Starts \/ Accumulates \/ Offers
  BY AccCases
<1>2. SUFFICES ASSUME ~policy.amplify
               PROVE  /\ \E n \in Nat : \E rank \in [Resources -> 0..n] : Rooted(rank)'
                      /\ Traversing' => \A k \in DOMAIN settled' : Reached(k)'
  BY <1>1, Zenon DEF RootInv
<1>3. PICK n \in Nat : \E rank \in [Resources -> 0..n] : Rooted(rank)
  BY <1>2, Zenon DEF RootInv
<1>4. PICK rank \in [Resources -> 0..n] : Rooted(rank)
  BY <1>3
<1>5. Traversing => \A k \in DOMAIN settled : Reached(k)
  BY <1>2, Zenon DEF RootInv
<1>6. CASE FreshStart
  <2>1. \A r \in Resources : acc'[r].received = FALSE
    BY <1>6 DEF FreshStart, NoAccumulator
  <2>2. Rooted(rank)'
    BY <2>1, Zenon DEF Rooted
  <2> QED
    BY <1>6, <2>2, Zenon DEF FreshStart
<1>7. CASE Refuses
  <2>1. PICK r \in Resources : ~Open(r) /\ acc' = [acc EXCEPT ![r].received = FALSE]
    BY <1>7 DEF Refuses
  <2>2. \A s \in Resources : s # r => acc'[s] = acc[s]
    BY <2>1, RefusesFields
  <2>3. acc[r] \in Accumulator /\ acc'[r] = [acc[r] EXCEPT !.received = FALSE]
    BY <2>1 DEF AccTypes
  <2>4. acc[r].received = FALSE
    <3>1. acc[r].received \in BOOLEAN
      BY <2>3, Zenon DEF Accumulator
    <3>2. ~acc[r].received
      BY <2>1, Zenon DEF OpenInv
    <3> QED
      BY <3>1, <3>2
  <2>5. /\ acc'[r].received = FALSE /\ acc'[r].best = acc[r].best
        /\ acc'[r].parent = acc[r].parent
    BY <2>3 DEF Accumulator
  <2>6. \A s \in Resources : /\ acc'[s].received = acc[s].received
                             /\ acc'[s].best = acc[s].best
                             /\ acc'[s].parent = acc[s].parent
    BY <2>2, <2>4, <2>5, Zenon
  <2>7. Rooted(rank)'
    BY <1>4, <2>6, RootedSame
  <2> QED
    BY <1>7, <2>7, Zenon DEF Refuses
<1>8. ASSUME acc' = acc,
             ~Traversing' \/ settled' = <<>> \/ (Traversing /\ settled' = settled)
      PROVE  /\ \E m \in Nat : \E tank \in [Resources -> 0..m] : Rooted(tank)'
             /\ Traversing' => \A k \in DOMAIN settled' : Reached(k)'
  <2>1. Rooted(rank)'
    BY <1>4, <1>8, RootedSame
  <2>2. settled' = <<>> => DOMAIN settled' = {}
    OBVIOUS
  <2>3. Traversing' => \A k \in DOMAIN settled' : Reached(k)'
    BY <1>5, <1>8, <2>2, Zenon DEF Reached
  <2> QED
    BY <2>1, <2>3, Zenon
<1>9. CASE Idles
  <2>1. acc' = acc /\ (~Traversing' \/ (Traversing /\ settled' = settled))
    BY <1>9 DEF Idles, Quiet, Drops
  <2> QED
    BY <1>8, <2>1, Zenon
<1>10. CASE Starts
  BY <1>8, <1>10, Zenon DEF Starts
<1>11. CASE Offers
  <2>1. acc' = acc /\ Traversing /\ settled' = settled
    BY <1>11 DEF Offers, Forwards, Traversing
  <2> QED
    BY <1>8, <2>1, Zenon
<1>12. CASE Accumulates
  <2>1. PICK e \in Top : Settles(e) /\ Resettles(e)
    BY <1>12 DEF Accumulates
  <2> QED
    BY <1>2, <2>1, RootSettles
<1> QED
  BY <1>1, <1>6, <1>7, <1>9, <1>10, <1>11, <1>12, Zenon

LEMMA RootAlways == Spec => [](AccTypes /\ RootInv)
<1>1. Init => RootInv
  <2> SUFFICES ASSUME Init PROVE RootInv
    OBVIOUS
  <2>1. \A r \in Resources : acc[r].received = FALSE
    BY DEF Init, NoAccumulator
  <2>2. ~Traversing
    BY DEF Init, Traversing
  <2> DEFINE rank == [r \in Resources |-> 0]
  <2>3. rank \in [Resources -> 0..0] /\ 0 \in Nat
    OBVIOUS
  <2>4. Rooted(rank)
    BY <2>1, Zenon DEF Rooted
  <2> HIDE DEF rank
  <2> QED
    BY <2>2, <2>3, <2>4, Zenon DEF RootInv
<1>2. TravTypes /\ AccTypes /\ OpenInv /\ OrderInv /\ PathInv /\ RootInv /\ [Next]_vars
        => RootInv'
  BY RootStep
<1> QED
  BY <1>1, <1>2, TravTypesInit, TravTypesStep, OpenAlways, OrderAlways, PathAlways, PTL
     DEF Spec

\* A step repeated: the values that a recursion over 0..n takes.
Repeats(n, b, H, up) == up[0] = b /\ \A k \in 1..n : up[k] = H[up[k - 1]]

LEMMA ChainExists ==
    ASSUME NEW n \in Nat, NEW T, NEW b \in T, NEW H \in [T -> T]
    PROVE  \E up \in [0..n -> T] : Repeats(n, b, H, up)
<1> DEFINE F == [p \in (1..n) \X T |-> H[p[2]]]
<1>1. F \in [(1..n) \X T -> T] /\ \A k \in 1..n, t \in T : F[<<k, t>>] = H[t]
  OBVIOUS
<1> HIDE DEF F
<1>2. PICK it \in [SUBSET (1..n) -> T] : Folds(n, b, F, it)
  BY <1>1, FoldExists, Zenon
<1>3. it[{}] = b
  BY <1>2 DEF Folds
<1>4. Climbs(n, T, F, it)
  <2> SUFFICES ASSUME NEW k \in 1..n PROVE it[1..k] = F[<<k, it[1..(k - 1)]>>]
    BY Zenon DEF Climbs
  <2>1. 1..k \in SUBSET (1..n) /\ 1..k # {} /\ Max(1..k) = k /\ (1..k) \ {k} = 1..(k - 1)
    BY InitialPart
  <2>2. it[1..k] = F[<<Max(1..k), it[(1..k) \ {Max(1..k)}]>>]
    BY <1>2, <2>1, Zenon DEF Folds
  <2> QED
    BY <2>1, <2>2
<1>5. PICK g \in [0..n -> T] : Steps(n, b, F, it, g)
  BY <1>1, <1>3, <1>4, FoldSteps, Zenon
<1>6. g[0] = b /\ \A k \in 1..n : g[k] = F[<<k, g[k - 1]>>]
  BY <1>5, Zenon DEF Steps
<1>7. \A k \in 1..n : k - 1 \in 0..n
  OBVIOUS
<1>8. \A k \in 1..n : g[k] = H[g[k - 1]]
  BY <1>1, <1>6, <1>7
<1> QED
  BY <1>6, <1>8, Zenon DEF Repeats

\* The predecessors of r: n + 1 places that climb to Nowhere.
Climb(up, r, n) ==
    /\ up \in [0..n -> Resources \cup {Nowhere}] /\ up[0] = r
    /\ \A k \in 1..n : up[k] = IF up[k - 1] = Nowhere THEN Nowhere ELSE acc[up[k - 1]].parent

Recurs(up, r, n) ==
    up = [k \in 0..n |->
            IF k = 0 THEN r ELSE IF up[k - 1] = Nowhere THEN Nowhere ELSE acc[up[k - 1]].parent]

LEMMA ClimbExists ==
    ASSUME AccTypes, NEW r \in Resources, NEW n \in Nat
    PROVE  \E up : Recurs(up, r, n)
<1> DEFINE T == Resources \cup {Nowhere}
           H == [t \in T |-> IF t = Nowhere THEN Nowhere ELSE acc[t].parent]
<1>1. H \in [T -> T]
  <2>1. \A t \in Resources : acc[t].parent \in T
    BY AccFields, Zenon
  <2> QED
    BY <2>1
<1>2. r \in T
  OBVIOUS
<1>3. \A t \in T : H[t] = IF t = Nowhere THEN Nowhere ELSE acc[t].parent
  OBVIOUS
<1> HIDE DEF T, H
<1>4. PICK up \in [0..n -> T] : up[0] = r /\ \A k \in 1..n : up[k] = H[up[k - 1]]
  <2>1. \E up \in [0..n -> T] : Repeats(n, r, H, up)
    BY <1>1, <1>2, ChainExists, Zenon
  <2> QED
    BY <2>1, Zenon DEF Repeats
<1>5. \A k \in 0..n : k # 0 => k \in 1..n /\ k - 1 \in 0..n
  OBVIOUS
<1>6. \A k \in 0..n :
        up[k] = IF k = 0 THEN r
                ELSE IF up[k - 1] = Nowhere THEN Nowhere ELSE acc[up[k - 1]].parent
  <2> SUFFICES ASSUME NEW k \in 0..n, k # 0
               PROVE  up[k] = IF up[k - 1] = Nowhere THEN Nowhere ELSE acc[up[k - 1]].parent
    BY <1>4
  <2>1. up[k - 1] \in T /\ up[k] = H[up[k - 1]]
    BY <1>4, <1>5
  <2> QED
    BY <1>3, <2>1, Zenon
<1>7. up = [k \in 0..n |-> up[k]]
  BY <1>4
<1>8. up = [k \in 0..n |->
              IF k = 0 THEN r
              ELSE IF up[k - 1] = Nowhere THEN Nowhere ELSE acc[up[k - 1]].parent]
  BY <1>6, <1>7, Zenon
<1> QED
  BY <1>8 DEF Recurs

LEMMA RecursClimbs ==
    ASSUME AccTypes, NEW r \in Resources, NEW n \in Nat, NEW up, Recurs(up, r, n)
    PROVE  Climb(up, r, n)
<1> DEFINE T == Resources \cup {Nowhere}
           Typed == {k \in 0..n : up[k] \in T}
<1>1. up = [k \in 0..n |->
              IF k = 0 THEN r
              ELSE IF up[k - 1] = Nowhere THEN Nowhere ELSE acc[up[k - 1]].parent]
  BY DEF Recurs
<1>2. /\ DOMAIN up = 0..n
      /\ \A k \in 0..n :
           up[k] = IF k = 0 THEN r
                   ELSE IF up[k - 1] = Nowhere THEN Nowhere ELSE acc[up[k - 1]].parent
  BY <1>1, Zenon
<1>3. up[0] = r
  BY <1>2
<1>4. \A k \in 1..n : up[k] = IF up[k - 1] = Nowhere THEN Nowhere ELSE acc[up[k - 1]].parent
  BY <1>2
<1>5. 0 \in Typed
  BY <1>3
<1>6. ASSUME NEW k \in 0..(n - 1), k \in Typed
      PROVE  k + 1 \in Typed
  <2>1. k + 1 \in 1..n /\ (k + 1) - 1 = k /\ k + 1 \in 0..n
    OBVIOUS
  <2>2. up[k + 1] = IF up[k] = Nowhere THEN Nowhere ELSE acc[up[k]].parent
    BY <1>4, <2>1
  <2>3. up[k] \in T
    BY <1>6
  <2>4. up[k + 1] \in T
    BY <2>2, <2>3, AccFields
  <2> QED
    BY <2>1, <2>4
<1>7. \A k \in 0..n : k \in Typed
  <2> HIDE DEF Typed
  <2> QED
    BY <1>5, <1>6, UpTo
<1>8. up = [k \in 0..n |-> up[k]]
  BY <1>1
<1>9. up \in [0..n -> T]
  BY <1>7, <1>8
<1> QED
  BY <1>3, <1>4, <1>9, Zenon DEF Climb

\* Every place of the climb was received.
LEMMA ClimbReceived ==
    ASSUME AccTypes, NEW r \in Resources, acc[r].received, NEW n \in Nat, NEW up,
           Climb(up, r, n), NEW rank, Rooted(rank)
    PROVE  \A k \in 0..n : up[k] # Nowhere => up[k] \in Resources /\ acc[up[k]].received
<1> DEFINE Good == {k \in 0..n : up[k] # Nowhere => up[k] \in Resources /\ acc[up[k]].received}
<1>1. /\ up[0] = r
      /\ \A k \in 1..n :
            up[k] = IF up[k - 1] = Nowhere THEN Nowhere ELSE acc[up[k - 1]].parent
  BY DEF Climb
<1>2. 0 \in Good
  BY <1>1
<1>3. ASSUME NEW k \in 0..(n - 1), k \in Good
      PROVE  k + 1 \in Good
  <2>1. k + 1 \in 1..n /\ (k + 1) - 1 = k /\ k + 1 \in 0..n
    OBVIOUS
  <2>2. up[k + 1] = IF up[k] = Nowhere THEN Nowhere ELSE acc[up[k]].parent
    BY <1>1, <2>1
  <2>3. SUFFICES ASSUME up[k + 1] # Nowhere
                 PROVE  up[k + 1] \in Resources /\ acc[up[k + 1]].received
    BY <2>1
  <2>4. up[k] # Nowhere /\ up[k] \in Resources /\ acc[up[k]].received
    BY <1>3, <2>2, <2>3
  <2>5. RootedAt(rank, up[k]) /\ up[k + 1] = acc[up[k]].parent
    BY <2>2, <2>4, Zenon DEF Rooted
  <2> QED
    BY <2>3, <2>5, Zenon DEF RootedAt
<1>4. \A k \in 0..n : k \in Good
  <2> HIDE DEF Good
  <2> QED
    BY <1>2, <1>3, UpTo
<1> QED
  BY <1>4

LEMMA HigherTransitive ==
    ASSUME AccTypes, NEW n \in Nat, NEW rank \in [Resources -> 0..n],
           NEW p \in Resources, NEW q \in Resources, NEW r \in Resources,
           Higher(rank, p, q), Higher(rank, q, r)
    PROVE  Higher(rank, p, r)
<1>1. acc[p].best \in Nat /\ acc[q].best \in Nat /\ acc[r].best \in Nat
  BY AccFields
<1>2. rank[p] \in Nat /\ rank[q] \in Nat /\ rank[r] \in Nat
  OBVIOUS
<1> QED
  BY <1>1, <1>2 DEF Higher

\* Until it reaches Nowhere the climb never returns to a place.
LEMMA ClimbDistinct ==
    ASSUME AccTypes, NEW r \in Resources, acc[r].received, NEW n \in Nat, NEW up,
           Climb(up, r, n), NEW m \in Nat, NEW rank \in [Resources -> 0..m], Rooted(rank),
           up[n] # Nowhere
    PROVE  /\ \A k \in 0..n : up[k] \in Resources
           /\ \A i, j \in 0..n : i < j => up[i] # up[j]
<1>1. /\ up[0] = r
      /\ \A k \in 1..n :
            up[k] = IF up[k - 1] = Nowhere THEN Nowhere ELSE acc[up[k - 1]].parent
  BY DEF Climb
<1>2. \A k \in 0..n : up[k] # Nowhere
  <2> DEFINE Lost == {k \in 0..n : up[k] = Nowhere}
  <2> SUFFICES ASSUME Lost # {} PROVE FALSE
    OBVIOUS
  <2>1. Lost \subseteq 0..n
    OBVIOUS
  <2>2. PICK k \in Lost : \A j \in Lost : j <= k
    <3> HIDE DEF Lost
    <3> QED
      BY <2>1, GreatestNatural
  <2>3. k # n /\ k + 1 \in 1..n /\ (k + 1) - 1 = k /\ k + 1 \in 0..n
    BY <2>2
  <2>4. k + 1 \in Lost
    BY <1>1, <2>2, <2>3
  <2> QED
    BY <2>2, <2>4
<1>3. \A k \in 0..n : up[k] \in Resources /\ acc[up[k]].received
  BY <1>2, ClimbReceived, Zenon
<1>4. ASSUME NEW k \in 0..(n - 1)
      PROVE  Higher(rank, up[k + 1], up[k])
  <2>1. k \in 0..n /\ k + 1 \in 1..n /\ (k + 1) - 1 = k /\ k + 1 \in 0..n
    OBVIOUS
  <2>2. up[k + 1] = acc[up[k]].parent
    BY <1>1, <1>2, <2>1
  <2>3. RootedAt(rank, up[k]) /\ up[k + 1] # Nowhere
    BY <1>2, <1>3, <2>1, Zenon DEF Rooted
  <2> QED
    BY <2>2, <2>3, Zenon DEF RootedAt
<1>5. ASSUME NEW i \in 0..n
      PROVE  \A j \in 0..n : i < j => Higher(rank, up[j], up[i])
  <2> DEFINE Above == {j \in 0..n : i < j => Higher(rank, up[j], up[i])}
  <2>1. 0 \in Above
    OBVIOUS
  <2>2. ASSUME NEW j \in 0..(n - 1), j \in Above
        PROVE  j + 1 \in Above
    <3>1. j \in 0..n /\ j + 1 \in 0..n
      OBVIOUS
    <3>2. SUFFICES ASSUME i < j + 1 PROVE Higher(rank, up[j + 1], up[i])
      BY <3>1
    <3>3. Higher(rank, up[j + 1], up[j])
      BY <1>4
    <3>4. CASE i = j
      BY <3>3, <3>4
    <3>5. CASE i # j
      <4>1. i < j
        BY <3>1, <3>2, <3>5
      <4>2. Higher(rank, up[j], up[i])
        BY <2>2, <4>1
      <4> QED
        BY <1>3, <3>1, <3>3, <4>2, HigherTransitive, Zenon
    <3> QED
      BY <3>4, <3>5
  <2>3. \A j \in 0..n : j \in Above
    <3> HIDE DEF Above
    <3> QED
      BY <2>1, <2>2, UpTo
  <2> QED
    BY <2>3
<1>6. ASSUME NEW i \in 0..n, NEW j \in 0..n, i < j
      PROVE  up[i] # up[j]
  <2>1. Higher(rank, up[j], up[i]) /\ up[i] \in Resources
    BY <1>3, <1>5, <1>6
  <2>2. ~Higher(rank, up[i], up[i])
    <3>1. acc[up[i]].best \in Nat /\ rank[up[i]] \in Nat
      BY <2>1, AccFields
    <3> QED
      BY <3>1 DEF Higher
  <2> QED
    BY <2>1, <2>2
<1> QED
  BY <1>3, <1>6

LEMMA ClimbEnds ==
    ASSUME AccTypes, NEW r \in Resources, acc[r].received, NEW up,
           Climb(up, r, Cardinality(Resources)),
           NEW m \in Nat, NEW rank \in [Resources -> 0..m], Rooted(rank)
    PROVE  up[Cardinality(Resources)] = Nowhere
<1>1. PICK n : n = Cardinality(Resources)
  OBVIOUS
<1>2. IsFiniteSet(Resources) /\ n \in Nat
  BY <1>1, PropagationAssumption, FS_CardinalityType
<1> SUFFICES ASSUME up[n] # Nowhere PROVE FALSE
  BY <1>1
<1>3. Climb(up, r, n)
  BY <1>1
<1>4. /\ \A k \in 0..n : up[k] \in Resources
      /\ \A i, j \in 0..n : i < j => up[i] # up[j]
  BY <1>2, <1>3, ClimbDistinct
<1>5. up \in [0..n -> Resources]
  <2>1. up \in [0..n -> Resources \cup {Nowhere}]
    BY <1>3 DEF Climb
  <2> QED
    BY <1>4, <2>1
<1>6. IsFiniteSet(0..n) /\ Cardinality(0..n) = n + 1
  <2>1. 0 \in Int /\ n \in Int /\ ~(0 > n) /\ n - 0 + 1 = n + 1
    BY <1>2
  <2>2. IsFiniteSet(0..n) /\ Cardinality(0..n) = n - 0 + 1
    BY <2>1, FS_Interval, Zenon
  <2> QED
    BY <2>1, <2>2
<1>7. Cardinality(Resources) < Cardinality(0..n)
  BY <1>1, <1>2, <1>6
<1>8. \E i, j \in 0..n : i # j /\ up[i] = up[j]
  BY <1>2, <1>5, <1>6, <1>7, FS_PigeonHole, Zenon
<1> QED
  BY <1>2, <1>4, <1>8

\* WinningPathIsRooted for every topology, set of signals and order in which they arrive:
\* without amplification the winning predecessors of the combined outcome never form a
\* cycle, although each resource keeps the winner of whichever signal reached it best.
THEOREM WinningPathsAreRooted == Spec => []WinningPathIsRooted
<1>1. AccTypes /\ RootInv => WinningPathIsRooted
  <2> SUFFICES ASSUME AccTypes, RootInv, ~policy.amplify, NEW r \in Resources,
                      NEW up0, up0 = (CHOOSE up : Recurs(up, r, Cardinality(Resources))),
                      acc[r].received
               PROVE  /\ up0[Cardinality(Resources)] = Nowhere
                      /\ \A n \in 1..Cardinality(Resources) :
                            up0[n] # Nowhere => acc[up0[n]].received
    BY Zenon DEF WinningPathIsRooted, Recurs
  <2>1. Cardinality(Resources) \in Nat
    BY PropagationAssumption, FS_CardinalityType
  <2>2. Recurs(up0, r, Cardinality(Resources))
    BY <2>1, ClimbExists, Zenon
  <2>3. Climb(up0, r, Cardinality(Resources))
    BY <2>1, <2>2, RecursClimbs
  <2>4. PICK m \in Nat : \E rank \in [Resources -> 0..m] : Rooted(rank)
    BY Zenon DEF RootInv
  <2>5. PICK rank \in [Resources -> 0..m] : Rooted(rank)
    BY <2>4
  <2>6. up0[Cardinality(Resources)] = Nowhere
    BY <2>3, <2>5, ClimbEnds
  <2>7. \A k \in 0..Cardinality(Resources) : up0[k] # Nowhere => acc[up0[k]].received
    BY <2>1, <2>3, <2>5, ClimbReceived, Zenon
  <2> QED
    BY <2>1, <2>6, <2>7
<1> QED
  BY <1>1, RootAlways, PTL

-----------------------------------------------------------------------------
(* The strongest arrival *)

\* The list has the first arrivals, as many as there are or as it takes.
Counted(a) ==
    /\ a.count <= MaxContributions => Len(a.contributions) = a.count
    /\ a.count > MaxContributions => Len(a.contributions) = MaxContributions
    /\ ~a.received => a.count = 0

Bounded(a) ==
    a.received => \A c \in Range(a.contributions) : c.magnitude <= ToMagnitude(a.best)

Listed(a) ==
    (a.received /\ a.count <= MaxContributions) =>
        \E c \in Range(a.contributions) :
            c.source = a.source /\ c.magnitude = ToMagnitude(a.best)

Account(a) == Counted(a) /\ Bounded(a) /\ Listed(a)

Known(e) == acc[e.node].received /\ e.potential <= acc[e.node].best

AccountInv ==
    /\ \A r \in Resources : Account(acc[r])
    /\ Traversing => \A k \in DOMAIN settled : Known(settled[k])

LEMMA ContributionFields ==
    ASSUME NEW c \in Contribution
    PROVE  c.magnitude \in Nat /\ c.priority \in Nat /\ c.source \in Nat
<1>1. c.magnitude \in Magnitude /\ c.priority \in Nat /\ c.source \in Nat
  BY DEF Contribution
<1> QED
  BY <1>1, PropagationAssumption DEF Magnitude

LEMMA ToMagnitudeGrows ==
    ASSUME NEW p \in Nat, NEW q \in Nat, p <= q
    PROVE  ToMagnitude(p) <= ToMagnitude(q)
<1>1. One \in Nat \ {0} /\ 2 \in Nat \ {0}
  BY PropagationAssumption
<1>2. One \div 2 \in Nat
  BY <1>1, Quotient
<1>3. PICK d \in Nat \ {0}, x, y \in Nat : d = One /\ x = p + One \div 2 /\ y = q + One \div 2
  BY <1>1, <1>2
<1>4. x <= y
  BY <1>2, <1>3
<1>5. PICK v, w \in Nat : v = x \div d /\ w = y \div d
  BY <1>3, Quotient
<1>6. d * v <= x /\ y < d * (w + 1)
  BY <1>3, <1>5, Z3
<1>7. v <= w
  <2> SUFFICES ASSUME v >= w + 1 PROVE FALSE
    BY <1>5
  <2>1. d * (w + 1) <= d * v
    BY <1>3, <1>5
  <2>2. d * v \in Nat /\ d * (w + 1) \in Nat
    BY <1>3, <1>5
  <2> QED
    BY <1>3, <1>4, <1>6, <2>1, <2>2
<1>8. ToMagnitude(p) = Least(d, v) /\ ToMagnitude(q) = Least(d, w)
  BY <1>3, <1>5, Zenon DEF ToMagnitude
<1> QED
  BY <1>3, <1>5, <1>7, <1>8 DEF Least

\* What a settlement leaves in the accumulator, when it is the strongest so far and when
\* it is not, and with room in the list and without.
Better(a, e) == ~a.received \/ e.potential > a.best

Room(a) == Len(a.contributions) < MaxContributions

SettledInto(a, e, b) ==
    /\ b.received = TRUE /\ b.count = a.count + 1
    /\ Better(a, e) => b.best = e.potential /\ b.source = signal.source
    /\ ~Better(a, e) => b.best = a.best /\ b.source = a.source
    /\ Room(a) => b.contributions = Append(a.contributions, ContributionOf(e.potential))
    /\ ~Room(a) => b.contributions = a.contributions

LEMMA SettlementFields ==
    ASSUME NEW a, NEW e, NEW b, b = RecordSettlement(a, e)
    PROVE  SettledInto(a, e, b)
<1> DEFINE better == Better(a, e)
           room == Room(a)
           cs == Append(a.contributions, ContributionOf(e.potential))
<1>1. b = [received |-> TRUE,
           best |-> IF better THEN e.potential ELSE a.best,
           source |-> IF better THEN signal.source ELSE a.source,
           depth |-> IF better THEN e.depth ELSE a.depth,
           parent |-> IF better THEN e.parent ELSE a.parent,
           contributions |-> IF room THEN cs ELSE a.contributions,
           count |-> a.count + 1]
  BY Zenon DEF RecordSettlement, Accumulated, Better, Room
<1> HIDE DEF better, room, cs
<1>2. /\ b.received = TRUE /\ b.count = a.count + 1
      /\ b.best = IF better THEN e.potential ELSE a.best
      /\ b.source = IF better THEN signal.source ELSE a.source
      /\ b.contributions = IF room THEN cs ELSE a.contributions
  BY <1>1
<1> QED
  BY <1>2, Zenon DEF better, room, cs, SettledInto

LEMMA AccountSettles ==
    ASSUME TravTypes, NEW a \in Accumulator, Account(a), NEW e \in Entry
    PROVE  /\ Account(RecordSettlement(a, e))
           /\ RecordSettlement(a, e).received
           /\ e.potential <= RecordSettlement(a, e).best
           /\ a.received => a.best <= RecordSettlement(a, e).best
<1> DEFINE better == Better(a, e)
           room == Room(a)
           new == ContributionOf(e.potential)
<1>1. PICK b : b = RecordSettlement(a, e)
  OBVIOUS
<1>2. /\ b.received = TRUE /\ b.count = a.count + 1
      /\ better => b.best = e.potential /\ b.source = signal.source
      /\ ~better => b.best = a.best /\ b.source = a.source
      /\ room => b.contributions = Append(a.contributions, new)
      /\ ~room => b.contributions = a.contributions
  <2>1. SettledInto(a, e, b)
    BY <1>1, SettlementFields, Zenon
  <2> QED
    BY <2>1, Zenon DEF SettledInto
<1>3. a.contributions \in Seq(Contribution) /\ a.count \in Nat /\ a.best \in Nat
  <2>1. a.best \in Potential /\ a.contributions \in Seq(Contribution) /\ a.count \in Nat
    BY DEF Accumulator
  <2> QED
    BY <2>1, PropagationAssumption DEF Potential
<1>4. e.potential \in Nat
  BY EntryFields
<1>5. new \in Contribution
  BY <1>4, ContributionType
<1>6. new.source = signal.source /\ new.magnitude = ToMagnitude(e.potential)
  BY DEF ContributionOf
<1>7. /\ room => /\ Len(b.contributions) = Len(a.contributions) + 1
                 /\ Range(b.contributions) = Range(a.contributions) \cup {new}
      /\ ~room => b.contributions = a.contributions
  <2>1. Len(Append(a.contributions, new)) = Len(a.contributions) + 1
    BY <1>3, <1>5
  <2>2. Range(Append(a.contributions, new)) = Range(a.contributions) \cup {new}
    BY <1>3, <1>5, RangeAppend
  <2> QED
    BY <1>2, <2>1, <2>2, Zenon
<1> HIDE DEF new
<1>8. PICK n, max, len \in Nat :
         /\ n = a.count /\ max = MaxContributions /\ len = Len(a.contributions) /\ max # 0
  <2>1. MaxContributions \in Nat /\ MaxContributions # 0
    BY PropagationAssumption
  <2>2. Len(a.contributions) \in Nat
    BY <1>3
  <2> QED
    BY <1>3, <2>1, <2>2, Zenon
<1>9. /\ n <= max => len = n
      /\ n > max => len = max
      /\ ~a.received => n = 0
  BY <1>8 DEF Account, Counted
<1>10. Counted(b)
  <2>1. CASE room
    BY <1>2, <1>7, <1>8, <1>9, <2>1 DEF Counted, Room
  <2>2. CASE ~room
    BY <1>2, <1>7, <1>8, <1>9, <2>2 DEF Counted, Room
  <2> QED
    BY <2>1, <2>2
<1>11. /\ b.best \in Nat /\ e.potential <= b.best
       /\ a.received => a.best <= b.best
  BY <1>2, <1>3, <1>4 DEF Better
<1>12. ~a.received => Range(a.contributions) = {}
  <2> SUFFICES ASSUME ~a.received PROVE Range(a.contributions) = {}
    OBVIOUS
  <2>1. Len(a.contributions) = 0
    BY <1>8, <1>9
  <2>2. DOMAIN a.contributions = {}
    BY <1>3, <2>1
  <2> QED
    BY <2>2, Zenon DEF Range
<1>13. \A c \in Range(a.contributions) : c.magnitude <= ToMagnitude(b.best)
  <2> SUFFICES ASSUME NEW c \in Range(a.contributions) PROVE c.magnitude <= ToMagnitude(b.best)
    OBVIOUS
  <2>1. a.received
    BY <1>12
  <2>2. c.magnitude <= ToMagnitude(a.best) /\ ToMagnitude(a.best) <= ToMagnitude(b.best)
    BY <1>3, <1>11, <2>1, ToMagnitudeGrows DEF Account, Bounded
  <2>3. c \in Contribution
    BY <1>3 DEF Range
  <2>4. c.magnitude \in Nat /\ ToMagnitude(a.best) \in Magnitude /\ ToMagnitude(b.best) \in Magnitude
    BY <1>3, <1>11, <2>3, ContributionFields, ToMagnitudeType
  <2> QED
    BY <2>2, <2>4, PropagationAssumption DEF Magnitude
<1>14. Bounded(b)
  <2>1. new.magnitude <= ToMagnitude(b.best)
    BY <1>4, <1>6, <1>11, ToMagnitudeGrows, Zenon
  <2> QED
    BY <1>7, <1>13, <2>1, Zenon DEF Bounded
<1>15. Listed(b)
  <2> SUFFICES ASSUME b.count <= MaxContributions
               PROVE  \E c \in Range(b.contributions) :
                         c.source = b.source /\ c.magnitude = ToMagnitude(b.best)
    BY Zenon DEF Listed
  <2>1. n < max /\ n <= max
    BY <1>2, <1>8
  <2>2. room
    BY <1>8, <1>9, <2>1 DEF Room
  <2>3. CASE better
    BY <1>2, <1>6, <1>7, <2>2, <2>3, Zenon
  <2>4. CASE ~better
    <3>1. a.received /\ a.count <= MaxContributions
      BY <1>8, <2>1, <2>4 DEF Better
    <3> QED
      BY <1>2, <1>7, <2>2, <2>4, <3>1, Zenon DEF Account, Listed
  <2> QED
    BY <2>3, <2>4
<1> QED
  BY <1>1, <1>2, <1>10, <1>11, <1>14, <1>15, Zenon DEF Account

LEMMA NoAccount == Account(NoAccumulator)
<1>1. /\ NoAccumulator.received = FALSE /\ NoAccumulator.count = 0
      /\ NoAccumulator.contributions = <<>>
  BY DEF NoAccumulator
<1>2. Len(<<>>) = 0 /\ 0 <= MaxContributions /\ ~(0 > MaxContributions)
  BY PropagationAssumption
<1> QED
  BY <1>1, <1>2, Zenon DEF Account, Counted, Bounded, Listed

LEMMA AccountStep ==
    ASSUME TravTypes, AccTypes, OpenInv, AccountInv, [Next]_vars
    PROVE  AccountInv'
<1>1. FreshStart \/ Refuses \/ Idles \/ Starts \/ Accumulates \/ Offers
  BY AccCases
<1>2. CASE FreshStart
  <2>1. Account(NoAccumulator)
    BY NoAccount
  <2>2. \A r \in Resources : acc'[r] = NoAccumulator
    BY <1>2 DEF FreshStart
  <2> QED
    BY <1>2, <2>1, <2>2, Zenon DEF FreshStart, AccountInv
<1>3. CASE Refuses
  <2>1. PICK r \in Resources : ~Open(r) /\ acc' = [acc EXCEPT ![r].received = FALSE]
    BY <1>3 DEF Refuses
  <2>2. acc[r] \in Accumulator /\ acc'[r] = [acc[r] EXCEPT !.received = FALSE]
    BY <2>1 DEF AccTypes
  <2>3. acc[r].received = FALSE
    <3>1. acc[r].received \in BOOLEAN
      BY <2>2, Zenon DEF Accumulator
    <3>2. ~acc[r].received
      BY <2>1, Zenon DEF OpenInv
    <3> QED
      BY <3>1, <3>2
  <2>4. acc'[r] = acc[r]
    BY <2>2, <2>3 DEF Accumulator
  <2>5. \A s \in Resources : acc'[s] = acc[s]
    BY <2>1, <2>4, RefusesFields, Zenon
  <2> QED
    BY <1>3, <2>5, Zenon DEF Refuses, AccountInv
<1>4. ASSUME acc' = acc,
             ~Traversing' \/ settled' = <<>> \/ (Traversing /\ settled' = settled)
      PROVE  AccountInv'
  <2>1. settled' = <<>> => DOMAIN settled' = {}
    OBVIOUS
  <2> QED
    BY <1>4, <2>1, Zenon DEF AccountInv, Known
<1>5. CASE Idles
  <2>1. acc' = acc /\ (~Traversing' \/ (Traversing /\ settled' = settled))
    BY <1>5 DEF Idles, Quiet, Drops
  <2> QED
    BY <1>4, <2>1, Zenon
<1>6. CASE Starts
  BY <1>4, <1>6, Zenon DEF Starts
<1>7. CASE Offers
  <2>1. acc' = acc /\ Traversing /\ settled' = settled
    BY <1>7 DEF Offers, Forwards, Traversing
  <2> QED
    BY <1>4, <2>1, Zenon
<1>8. CASE Accumulates
  <2>1. PICK e \in Top : Settles(e) /\ Resettles(e)
    BY <1>8 DEF Accumulates
  <2>2. e \in Entry /\ settled' = Append(settled, e) /\ Traversing /\ ~IsSettled(e.node)
    BY <2>1 DEF Top, TravTypes, Settles
  <2>3. /\ e.node \in Resources
        /\ acc'[e.node] = RecordSettlement(acc[e.node], e)
        /\ \A r \in Resources : r # e.node => acc'[r] = acc[r]
    BY <2>1, <2>2, ResettlesFields
  <2>4. acc[e.node] \in Accumulator /\ Account(acc[e.node])
    BY <2>3, Zenon DEF AccTypes, AccountInv
  <2>5. /\ Account(acc'[e.node]) /\ acc'[e.node].received
        /\ e.potential <= acc'[e.node].best
    BY <2>2, <2>3, <2>4, AccountSettles, Zenon
  <2>6. \A r \in Resources : Account(acc'[r])
    BY <2>3, <2>5, Zenon DEF AccountInv
  <2>7. \A k \in DOMAIN settled : Known(settled[k]) /\ settled[k].node \in Resources
                                  /\ settled[k].node # e.node
    <3>1. \A k \in DOMAIN settled : settled[k] \in Entry
      BY DEF TravTypes
    <3>2. \A k \in DOMAIN settled : settled[k].node \in Resources
      BY <3>1, EntryFields, Zenon
    <3> QED
      BY <2>2, <3>2, Zenon DEF AccountInv, IsSettled
  <2>8. /\ DOMAIN settled' = DOMAIN settled \cup {Len(settled) + 1}
        /\ \A k \in DOMAIN settled : settled'[k] = settled[k]
        /\ settled'[Len(settled) + 1] = e
    BY <2>2, SettledAfter
  <2>9. \A k \in DOMAIN settled' : /\ acc'[settled'[k].node].received
                                   /\ settled'[k].potential <= acc'[settled'[k].node].best
    BY <2>3, <2>5, <2>7, <2>8, Zenon DEF Known
  <2> QED
    BY <2>6, <2>9, Zenon DEF AccountInv, Known
<1> QED
  BY <1>1, <1>2, <1>3, <1>5, <1>6, <1>7, <1>8

LEMMA AccountAlways == Spec => [](AccTypes /\ AccountInv)
<1>1. Init => AccountInv
  <2> SUFFICES ASSUME Init PROVE AccountInv
    OBVIOUS
  <2>1. ~Traversing /\ \A r \in Resources : acc[r] = NoAccumulator
    BY DEF Init, Traversing
  <2> QED
    BY <2>1, NoAccount, Zenon DEF AccountInv
<1>2. TravTypes /\ AccTypes /\ OpenInv /\ AccountInv /\ [Next]_vars => AccountInv'
  BY AccountStep
<1> QED
  BY <1>1, <1>2, TravTypesInit, TravTypesStep, OpenAlways, PTL DEF Spec

\* StrongestIsAccounted for every topology, policy and batch of signals, and for every
\* number of contributions that a resource keeps: record_settlement() never loses sight of
\* the strongest arrival or of its source, amplified signals included.
THEOREM StrongestAlwaysAccounted == Spec => []StrongestIsAccounted
<1>1. AccTypes /\ AccountInv => StrongestIsAccounted
  <2> SUFFICES ASSUME AccTypes, AccountInv PROVE StrongestIsAccounted
    OBVIOUS
  <2>1. Traversing => \A k \in DOMAIN settled :
                          /\ acc[settled[k].node].received
                          /\ settled[k].potential <= acc[settled[k].node].best
    BY Zenon DEF AccountInv, Known
  <2>2. \A r \in Resources : Counted(acc[r]) /\ Bounded(acc[r]) /\ Listed(acc[r])
    BY Zenon DEF AccountInv, Account
  <2> QED
    BY <2>1, <2>2, Zenon DEF StrongestIsAccounted, Counted, Bounded, Listed
<1> QED
  BY <1>1, AccountAlways, PTL

-----------------------------------------------------------------------------
(* Aggregation *)

SumAll(b, q) == FoldLeft(LAMBDA sum, c : sum + c.magnitude, b, q)

WinOne(winner, c) == IF Wins(c, winner) THEN c ELSE winner

WinAll(b, q) == FoldLeft(LAMBDA winner, c : IF Wins(c, winner) THEN c ELSE winner, b, q)

\* The sum of a sequence of contributions, one by one.
SumSteps(b, q) ==
    \E g \in [0..Len(q) -> Nat] :
        /\ g[0] = b /\ g[Len(q)] = SumAll(b, q)
        /\ \A k \in 1..Len(q) : g[k] = g[k - 1] + q[k].magnitude

LEMMA SumFold ==
    ASSUME NEW b \in Nat, NEW q \in Seq(Contribution)
    PROVE  SumSteps(b, q)
<1> DEFINE n == Len(q)
           F == [p \in (1..n) \X Nat |-> p[2] + q[p[1]].magnitude]
           Eq(it) == it = [s \in SUBSET (1..n) |->
                              IF s = {} THEN b
                              ELSE it[s \ {Max(s)}] + q[Max(s)].magnitude]
           fold == CHOOSE it : Eq(it)
<1>1. n \in Nat /\ DOMAIN q = 1..n /\ \A i \in 1..n : q[i] \in Contribution
  OBVIOUS
<1>2. \A t \in Nat, u \in Contribution : t + u.magnitude \in Nat
  BY ContributionFields
<1>3. F \in [(1..n) \X Nat -> Nat]
  <2> HIDE DEF n
  <2> QED
    BY <1>1, <1>2
<1>4. PICK it \in [SUBSET (1..n) -> Nat] : Folds(n, b, F, it)
  <2> HIDE DEF F, n
  <2> QED
    BY <1>1, <1>3, FoldExists
<1>5. \A k \in 1..n, t \in Nat : F[<<k, t>>] = t + q[k].magnitude
  OBVIOUS
<1>6. Eq(it)
  <2>1. ASSUME NEW s \in SUBSET (1..n)
        PROVE  it[s] = IF s = {} THEN b ELSE it[s \ {Max(s)}] + q[Max(s)].magnitude
    <3> HIDE DEF F, n
    <3>1. s # {} => Max(s) \in 1..n /\ s \ {Max(s)} \in SUBSET (1..n)
      BY <1>1, MaxOf
    <3> QED
      BY <1>4, <1>5, <3>1, Zenon DEF Folds
  <2> HIDE DEF n
  <2> QED
    BY <2>1
<1>7. Eq(fold)
  <2> HIDE DEF Eq
  <2> QED
    BY <1>6, Zenon
<1>8. SumAll(b, q) = fold[1..n]
  BY <1>1, Zenon DEF SumAll, FoldLeft, MapThenFoldSet
<1> HIDE DEF fold
<1>9. fold[{}] = b
  <2>1. {} \in SUBSET (1..n)
    OBVIOUS
  <2> HIDE DEF n
  <2> QED
    BY <1>7, <2>1, Zenon
<1>10. Climbs(n, Nat, F, fold)
  <2> SUFFICES ASSUME NEW k \in 1..n, fold[1..(k - 1)] \in Nat
               PROVE  fold[1..k] = F[<<k, fold[1..(k - 1)]>>]
    BY Zenon DEF Climbs
  <2> HIDE DEF n, F
  <2>1. k \in 1..n
    OBVIOUS
  <2>2. /\ 1..k \in SUBSET (1..n) /\ 1..k # {}
        /\ Max(1..k) = k /\ (1..k) \ {k} = 1..(k - 1)
    BY <1>1, <2>1, InitialPart
  <2>3. fold[1..k] = fold[(1..k) \ {Max(1..k)}] + q[Max(1..k)].magnitude
    BY <1>7, <2>2, Zenon
  <2>4. fold[1..k] = fold[1..(k - 1)] + q[k].magnitude
    BY <2>2, <2>3, Zenon
  <2> QED
    BY <1>5, <2>4, Zenon
<1> HIDE DEF F, n
<1>11. PICK g \in [0..n -> Nat] : Steps(n, b, F, fold, g)
  BY <1>1, <1>3, <1>9, <1>10, FoldSteps, Zenon
<1>12. \A k \in 1..n : g[k] = g[k - 1] + q[k].magnitude
  <2> SUFFICES ASSUME NEW k \in 1..n PROVE g[k] = g[k - 1] + q[k].magnitude
    OBVIOUS
  <2>1. k - 1 \in 0..n
    BY <1>1
  <2>2. g[k - 1] \in Nat
    BY <2>1
  <2> QED
    BY <1>5, <1>11, <2>2, Zenon DEF Steps
<1> QED
  BY <1>8, <1>11, <1>12, Zenon DEF n, Steps, SumSteps

\* The winner by priority, one by one.
WinSteps(b, q) ==
    \E g \in [0..Len(q) -> Contribution] :
        /\ g[0] = b /\ g[Len(q)] = WinAll(b, q)
        /\ \A k \in 1..Len(q) : g[k] = WinOne(g[k - 1], q[k])

LEMMA WinFold ==
    ASSUME NEW b \in Contribution, NEW q \in Seq(Contribution)
    PROVE  WinSteps(b, q)
<1> DEFINE n == Len(q)
           F == [p \in (1..n) \X Contribution |-> WinOne(p[2], q[p[1]])]
           Eq(it) == it = [s \in SUBSET (1..n) |->
                              IF s = {} THEN b
                              ELSE WinOne(it[s \ {Max(s)}], q[Max(s)])]
           fold == CHOOSE it : Eq(it)
<1>1. n \in Nat /\ DOMAIN q = 1..n /\ \A i \in 1..n : q[i] \in Contribution
  OBVIOUS
<1>2. \A t \in Contribution, u \in Contribution : WinOne(t, u) \in Contribution
  BY DEF WinOne
<1>3. F \in [(1..n) \X Contribution -> Contribution]
  <2> HIDE DEF n
  <2> QED
    BY <1>1, <1>2
<1>4. PICK it \in [SUBSET (1..n) -> Contribution] : Folds(n, b, F, it)
  <2> HIDE DEF F, n
  <2> QED
    BY <1>1, <1>3, FoldExists
<1>5. \A k \in 1..n, t \in Contribution : F[<<k, t>>] = WinOne(t, q[k])
  OBVIOUS
<1>6. Eq(it)
  <2>1. ASSUME NEW s \in SUBSET (1..n)
        PROVE  it[s] = IF s = {} THEN b ELSE WinOne(it[s \ {Max(s)}], q[Max(s)])
    <3> HIDE DEF F, n
    <3>1. s # {} => Max(s) \in 1..n /\ s \ {Max(s)} \in SUBSET (1..n)
      BY <1>1, MaxOf
    <3> QED
      BY <1>4, <1>5, <3>1, Zenon DEF Folds
  <2> HIDE DEF n
  <2> QED
    BY <2>1
<1>7. Eq(fold)
  <2> HIDE DEF Eq
  <2> QED
    BY <1>6, Zenon
<1>8. WinAll(b, q) = fold[1..n]
  BY <1>1, Zenon DEF WinAll, WinOne, FoldLeft, MapThenFoldSet
<1> HIDE DEF fold
<1>9. fold[{}] = b
  <2>1. {} \in SUBSET (1..n)
    OBVIOUS
  <2> HIDE DEF n
  <2> QED
    BY <1>7, <2>1, Zenon
<1>10. Climbs(n, Contribution, F, fold)
  <2> SUFFICES ASSUME NEW k \in 1..n, fold[1..(k - 1)] \in Contribution
               PROVE  fold[1..k] = F[<<k, fold[1..(k - 1)]>>]
    BY Zenon DEF Climbs
  <2> HIDE DEF n, F
  <2>1. k \in 1..n
    OBVIOUS
  <2>2. /\ 1..k \in SUBSET (1..n) /\ 1..k # {}
        /\ Max(1..k) = k /\ (1..k) \ {k} = 1..(k - 1)
    BY <1>1, <2>1, InitialPart
  <2>3. fold[1..k] = WinOne(fold[(1..k) \ {Max(1..k)}], q[Max(1..k)])
    BY <1>7, <2>2, Zenon
  <2>4. fold[1..k] = WinOne(fold[1..(k - 1)], q[k])
    BY <2>2, <2>3, Zenon
  <2> QED
    BY <1>5, <2>4, Zenon
<1> HIDE DEF F, n
<1>11. PICK g \in [0..n -> Contribution] : Steps(n, b, F, fold, g)
  BY <1>1, <1>3, <1>9, <1>10, FoldSteps, Zenon
<1>12. \A k \in 1..n : g[k] = WinOne(g[k - 1], q[k])
  <2> SUFFICES ASSUME NEW k \in 1..n PROVE g[k] = WinOne(g[k - 1], q[k])
    OBVIOUS
  <2>1. k - 1 \in 0..n
    BY <1>1
  <2>2. g[k - 1] \in Contribution
    BY <2>1
  <2> QED
    BY <1>5, <1>11, <2>2, Zenon DEF Steps
<1> QED
  BY <1>8, <1>11, <1>12, Zenon DEF n, Steps, WinSteps

\* it sums f over every set of positions, greatest position last.
SumsUp(n, f, it) ==
    /\ it[{}] = 0
    /\ \A s \in SUBSET (1..n) : s # {} => it[s] = it[s \ {Max(s)}] + f[Max(s)]

LEMMA SumsExist ==
    ASSUME NEW n \in Nat, NEW f \in [1..n -> Nat]
    PROVE  \E it \in [SUBSET (1..n) -> Nat] : SumsUp(n, f, it)
<1> DEFINE F == [p \in (1..n) \X Nat |-> p[2] + f[p[1]]]
<1>1. F \in [(1..n) \X Nat -> Nat] /\ \A k \in 1..n, t \in Nat : F[<<k, t>>] = t + f[k]
  OBVIOUS
<1> HIDE DEF F
<1>2. PICK it \in [SUBSET (1..n) -> Nat] : Folds(n, 0, F, it)
  BY <1>1, FoldExists
<1>3. it[{}] = 0
  BY <1>2 DEF Folds
<1>4. ASSUME NEW s \in SUBSET (1..n), s # {}
      PROVE  it[s] = it[s \ {Max(s)}] + f[Max(s)]
  <2>1. Max(s) \in 1..n /\ s \ {Max(s)} \in SUBSET (1..n)
    BY <1>4, MaxOf
  <2>2. it[s \ {Max(s)}] \in Nat
    BY <2>1
  <2> QED
    BY <1>1, <1>2, <1>4, <2>1, <2>2, Zenon DEF Folds
<1> QED
  BY <1>3, <1>4, Zenon DEF SumsUp

Splits(f, it, A, x) == it[A] = it[A \ {x}] + f[x]

\* Any position may be the last.
LEMMA SumExchange ==
    ASSUME NEW n \in Nat, NEW f \in [1..n -> Nat], NEW it \in [SUBSET (1..n) -> Nat],
           SumsUp(n, f, it), NEW A \in SUBSET (1..n), NEW x \in A
    PROVE  Splits(f, it, A, x)
<1> DEFINE AnyLast(B) == \A y \in B : it[B] = it[B \ {y}] + f[y]
           Good == {m \in 0..n : \A B \in SUBSET (1..m) : AnyLast(B)}
<1>1. 0 \in Good
  OBVIOUS
<1>2. ASSUME NEW m \in 0..(n - 1), m \in Good
      PROVE  m + 1 \in Good
  <2>1. m + 1 \in 1..n /\ m + 1 \in 0..n
    OBVIOUS
  <2>2. \A B \in SUBSET (1..m) : AnyLast(B)
    BY <1>2
  <2>3. ASSUME NEW B \in SUBSET (1..(m + 1)), NEW y \in B
        PROVE  it[B] = it[B \ {y}] + f[y]
    <3>1. CASE m + 1 \notin B
      <4>1. B \in SUBSET (1..m)
        BY <3>1
      <4> QED
        BY <2>2, <4>1
    <3>2. CASE m + 1 \in B
      <4>1. ASSUME NEW C \in SUBSET (1..(m + 1)), m + 1 \in C
            PROVE  it[C] = it[C \ {m + 1}] + f[m + 1]
        <5>1. C \subseteq 1..n /\ C # {} /\ \A z \in C : z \in Nat /\ z <= m + 1
          BY <2>1, <4>1
        <5>2. Max(C) \in C /\ m + 1 <= Max(C)
          BY <4>1, <5>1, MaxOf
        <5>3. Max(C) = m + 1
          <6>1. PICK z : z = Max(C)
            OBVIOUS
          <6>2. z \in Nat /\ z <= m + 1 /\ m + 1 <= z
            BY <5>1, <5>2, <6>1, Zenon
          <6> QED
            BY <6>1, <6>2
        <5>4. it[C] = it[C \ {Max(C)}] + f[Max(C)]
          BY <5>1, Zenon DEF SumsUp
        <5> QED
          BY <5>3, <5>4
      <4>2. CASE y = m + 1
        BY <3>2, <4>1, <4>2
      <4>3. CASE y # m + 1
        <5>1. /\ B \ {m + 1} \in SUBSET (1..m) /\ y \in B \ {m + 1}
              /\ B \ {y} \in SUBSET (1..(m + 1)) /\ m + 1 \in B \ {y}
              /\ (B \ {m + 1}) \ {y} = (B \ {y}) \ {m + 1}
          BY <3>2, <4>3
        <5>2. it[B] = it[B \ {m + 1}] + f[m + 1]
          BY <3>2, <4>1
        <5>3. it[B \ {m + 1}] = it[(B \ {m + 1}) \ {y}] + f[y]
          BY <2>2, <5>1
        <5>4. it[B \ {y}] = it[(B \ {y}) \ {m + 1}] + f[m + 1]
          BY <4>1, <5>1
        <5>5. (B \ {m + 1}) \ {y} \in SUBSET (1..n) /\ y \in 1..n
          BY <2>1
        <5>6. PICK a, b, c \in Nat : /\ a = it[(B \ {m + 1}) \ {y}]
                                     /\ b = f[y] /\ c = f[m + 1]
          BY <2>1, <5>5
        <5>7. it[B] = (a + b) + c /\ it[B \ {y}] = a + c
          BY <5>1, <5>2, <5>3, <5>4, <5>6, Zenon
        <5> QED
          BY <5>6, <5>7, SMTT(30)
      <4> QED
        BY <4>2, <4>3
    <3> QED
      BY <3>1, <3>2
  <2> QED
    BY <2>1, <2>3
<1>3. \A m \in 0..n : m \in Good
  <2> HIDE DEF Good
  <2> QED
    BY <1>1, <1>2, UpTo
<1>4. n \in 0..n
  OBVIOUS
<1> QED
  BY <1>3, <1>4, Zenon DEF Splits

Injects(n, p) == \A i, j \in 1..n : p[i] = p[j] => i = j

Image(k, p) == {p[i] : i \in 1..k}

RunningSum(n, f, p, g) == g[0] = 0 /\ \A k \in 1..n : g[k] = g[k - 1] + f[p[k]]

\* g is the running sum of f along p, and it the sums of f over sets.
Adds(n, f, it, p, g) ==
    /\ n \in Nat /\ f \in [1..n -> Nat] /\ p \in [1..n -> 1..n]
    /\ it \in [SUBSET (1..n) -> Nat] /\ g \in [0..n -> Nat]
    /\ Injects(n, p) /\ SumsUp(n, f, it) /\ RunningSum(n, f, p, g)

LEMMA ImageGrows ==
    ASSUME NEW n \in Nat, NEW p \in [1..n -> 1..n], Injects(n, p), NEW k \in 0..(n - 1)
    PROVE  /\ Image(k + 1, p) \in SUBSET (1..n) /\ p[k + 1] \in Image(k + 1, p)
           /\ Image(k + 1, p) \ {p[k + 1]} = Image(k, p)
<1>1. k + 1 \in 1..n /\ k + 1 \in 1..(k + 1)
  OBVIOUS
<1>2. \A i \in 1..(k + 1) : i \in 1..n /\ (i \in 1..k \/ i = k + 1)
  BY <1>1
<1>3. \A i \in 1..k : i \in 1..n /\ i # k + 1 /\ i \in 1..(k + 1)
  BY <1>1
<1>4. \A i \in 1..k : p[i] # p[k + 1]
  BY <1>1, <1>3, Zenon DEF Injects
<1>5. \A i \in 1..n : p[i] \in 1..n
  OBVIOUS
<1>6. Image(k + 1, p) \subseteq 1..n
  BY <1>2, <1>5, Zenon DEF Image
<1>7. p[k + 1] \in Image(k + 1, p)
  BY <1>1, Zenon DEF Image
<1>8. ASSUME NEW y
      PROVE  y \in Image(k + 1, p) \ {p[k + 1]} <=> y \in Image(k, p)
  BY <1>2, <1>3, <1>4, Zenon DEF Image
<1>9. Image(k + 1, p) \ {p[k + 1]} = Image(k, p)
  BY <1>8, Zenon
<1> QED
  BY <1>6, <1>7, <1>9, Zenon

\* The running sum of a sequence is the sum over the positions so far, whatever
\* injective order p takes them in.
LEMMA SumInOrder ==
    ASSUME NEW n, NEW f, NEW it, NEW p, NEW g, Adds(n, f, it, p, g)
    PROVE  g[n] = it[Image(n, p)]
<1> USE DEF Adds
<1>0. /\ n \in Nat /\ f \in [1..n -> Nat] /\ it \in [SUBSET (1..n) -> Nat]
      /\ SumsUp(n, f, it)
  OBVIOUS
<1> DEFINE Good == {k \in 0..n : g[k] = it[Image(k, p)]}
<1>1. 0 \in Good
  <2>1. Image(0, p) = {}
    BY DEF Image
  <2>2. it[{}] = 0 /\ g[0] = 0
    BY Zenon DEF SumsUp, RunningSum
  <2>3. g[0] = it[Image(0, p)]
    BY <2>1, <2>2, Zenon
  <2>4. 0 \in 0..n
    OBVIOUS
  <2> QED
    BY <2>3, <2>4, Zenon
<1>2. ASSUME NEW k \in 0..(n - 1), k \in Good
      PROVE  k + 1 \in Good
  <2>1. k + 1 \in 1..n /\ (k + 1) - 1 = k /\ k + 1 \in 0..n
    OBVIOUS
  <2>2. PICK A : A = Image(k + 1, p)
    OBVIOUS
  <2>3. A \in SUBSET (1..n) /\ p[k + 1] \in A /\ A \ {p[k + 1]} = Image(k, p)
    BY <2>2, ImageGrows
  <2>4. it[A] = it[A \ {p[k + 1]}] + f[p[k + 1]]
    <3>1. PICK y \in A : y = p[k + 1]
      BY <2>3
    <3>2. it[A] = it[A \ {y}] + f[y]
      <4> HIDE DEF Adds
      <4>1. Splits(f, it, A, y)
        BY <1>0, <2>3, SumExchange, Zenon
      <4> QED
        BY <4>1, Zenon DEF Splits
    <3> QED
      BY <3>1, <3>2, Zenon
  <2>5. g[k + 1] = g[k] + f[p[k + 1]]
    BY <2>1 DEF RunningSum
  <2>6. g[k] = it[Image(k, p)]
    BY <1>2, Zenon
  <2>7. g[k + 1] = it[Image(k + 1, p)]
    BY <2>2, <2>3, <2>4, <2>5, <2>6, Zenon
  <2> QED
    BY <2>1, <2>7, Zenon
<1>3. \A k \in 0..n : k \in Good
  <2> HIDE DEF Good
  <2> QED
    BY <1>1, <1>2, UpTo
<1>4. n \in 0..n
  OBVIOUS
<1> QED
  BY <1>3, <1>4, Zenon

\* A sequence and its positions in another order.
Reordered(cs, perm) == [i \in DOMAIN cs |-> cs[perm[i]]]

Reorders(n, cs, perm, ds) ==
    /\ ds \in Seq(Contribution) /\ Len(ds) = n
    /\ Range(ds) = Range(cs)
    /\ perm \in [1..n -> 1..n] /\ Injects(n, perm) /\ Image(n, perm) = 1..n
    /\ \A i \in 1..n : ds[i] = cs[perm[i]]

LEMMA ReorderedFacts ==
    ASSUME NEW cs \in Seq(Contribution), NEW perm \in Bijection(DOMAIN cs, DOMAIN cs)
    PROVE  Reorders(Len(cs), cs, perm, Reordered(cs, perm))
<1>1. /\ perm \in [DOMAIN cs -> DOMAIN cs]
      /\ \A i, j \in DOMAIN cs : perm[i] = perm[j] => i = j
      /\ \A j \in DOMAIN cs : \E i \in DOMAIN cs : perm[i] = j
  BY Zenon DEF Bijection, Injection, Surjection, IsInjective
<1>2. PICK n \in Nat : n = Len(cs) /\ DOMAIN cs = 1..n
  OBVIOUS
<1>3. \A i \in 1..n : perm[i] \in 1..n /\ cs[perm[i]] \in Contribution
  BY <1>1, <1>2
<1>4. PICK ds : ds = [i \in 1..n |-> cs[perm[i]]]
  OBVIOUS
<1>5. ds = Reordered(cs, perm)
  BY <1>2, <1>4, Zenon DEF Reordered
<1>6. ds \in Seq(Contribution) /\ Len(ds) = n
  BY <1>3, <1>4
<1>7. DOMAIN ds = 1..n /\ \A i \in 1..n : ds[i] = cs[perm[i]]
  BY <1>4, Zenon
<1>8. ASSUME NEW c
      PROVE  c \in Range(ds) <=> c \in Range(cs)
  <2>1. c \in Range(ds) <=> \E i \in 1..n : c = cs[perm[i]]
    BY <1>7, Zenon DEF Range
  <2>2. c \in Range(cs) <=> \E i \in 1..n : c = cs[i]
    BY <1>2, Zenon DEF Range
  <2> QED
    BY <1>1, <1>2, <1>3, <2>1, <2>2, Zenon
<1>9. Range(ds) = Range(cs)
  BY <1>8, Zenon
<1>10. perm \in [1..n -> 1..n] /\ Injects(n, perm)
  BY <1>1, <1>2, Zenon DEF Injects
<1>11. Image(n, perm) = 1..n
  <2>1. ASSUME NEW y
        PROVE  y \in Image(n, perm) <=> y \in 1..n
    <3>1. y \in Image(n, perm) <=> \E i \in 1..n : y = perm[i]
      BY Zenon DEF Image
    <3> QED
      BY <1>1, <1>2, <1>3, <3>1
  <2> QED
    BY <2>1, Zenon
<1> QED
  BY <1>2, <1>5, <1>6, <1>7, <1>9, <1>10, <1>11, Zenon DEF Reorders

LEMMA SumReordered ==
    ASSUME NEW cs \in Seq(Contribution), NEW perm \in Bijection(DOMAIN cs, DOMAIN cs)
    PROVE  SumAll(0, Reordered(cs, perm)) = SumAll(0, cs)
<1>1. PICK n \in Nat : n = Len(cs)
  OBVIOUS
<1>2. PICK ds : ds = Reordered(cs, perm)
  OBVIOUS
<1>3. /\ ds \in Seq(Contribution) /\ Len(ds) = n
      /\ perm \in [1..n -> 1..n] /\ Injects(n, perm) /\ Image(n, perm) = 1..n
      /\ \A i \in 1..n : ds[i] = cs[perm[i]]
  <2>1. Reorders(n, cs, perm, ds)
    BY <1>1, <1>2, ReorderedFacts, Zenon
  <2> QED
    BY <2>1, Zenon DEF Reorders
<1> DEFINE f == [i \in 1..n |-> cs[i].magnitude]
           id == [i \in 1..n |-> i]
<1>4. f \in [1..n -> Nat] /\ \A i \in 1..n : f[i] = cs[i].magnitude
  <2>1. \A i \in 1..n : cs[i].magnitude \in Nat
    BY <1>1, ContributionFields
  <2> QED
    BY <2>1
<1>5. /\ id \in [1..n -> 1..n] /\ \A i \in 1..n : id[i] = i
      /\ \A i \in 1..n : perm[i] \in 1..n
  BY <1>3
<1> HIDE DEF f, id
<1>6. PICK it \in [SUBSET (1..n) -> Nat] : SumsUp(n, f, it)
  BY <1>4, SumsExist
<1>7. SumSteps(0, cs) /\ SumSteps(0, ds)
  BY <1>3, SumFold
<1>8. PICK g \in [0..n -> Nat] :
        /\ g[0] = 0 /\ g[n] = SumAll(0, cs)
        /\ \A k \in 1..n : g[k] = g[k - 1] + cs[k].magnitude
  BY <1>1, <1>7, Zenon DEF SumSteps
<1>9. PICK h \in [0..n -> Nat] :
        /\ h[0] = 0 /\ h[n] = SumAll(0, ds)
        /\ \A k \in 1..n : h[k] = h[k - 1] + ds[k].magnitude
  BY <1>3, <1>7, Zenon DEF SumSteps
<1>10. RunningSum(n, f, id, g)
  BY <1>4, <1>5, <1>8, Zenon DEF RunningSum
<1>11. RunningSum(n, f, perm, h)
  <2>1. \A k \in 1..n : ds[k].magnitude = f[perm[k]]
    BY <1>3, <1>4, <1>5, Zenon
  <2> QED
    BY <1>9, <2>1, Zenon DEF RunningSum
<1>12. Injects(n, id) /\ Image(n, id) = 1..n
  <2>1. ASSUME NEW y
        PROVE  y \in Image(n, id) <=> y \in 1..n
    <3>1. y \in Image(n, id) <=> \E i \in 1..n : y = id[i]
      BY Zenon DEF Image
    <3> QED
      BY <1>5, <3>1
  <2>2. Image(n, id) = 1..n
    BY <2>1, Zenon
  <2> QED
    BY <1>5, <2>2, Zenon DEF Injects
<1>13. Adds(n, f, it, id, g) /\ Adds(n, f, it, perm, h)
  BY <1>3, <1>4, <1>5, <1>6, <1>10, <1>11, <1>12, Zenon DEF Adds
<1>14. g[n] = it[Image(n, id)]
  BY <1>13, SumInOrder, SMTT(30)
<1>15. h[n] = it[Image(n, perm)]
  BY <1>13, SumInOrder
<1> QED
  BY <1>2, <1>3, <1>8, <1>9, <1>12, <1>14, <1>15, Zenon

\* The winner of a sequence is one of its contributions, and none of them wins over it.
Unbeaten(cs, w) == w \in Range(cs) /\ \A c \in Range(cs) : ~Wins(c, w)

LEMMA WinnerUnbeaten ==
    ASSUME NEW cs \in Seq(Contribution), cs # <<>>
    PROVE  WinAll(cs[1], cs) \in Contribution /\ Unbeaten(cs, WinAll(cs[1], cs))
<1>1. PICK n \in Nat : n = Len(cs) /\ DOMAIN cs = 1..n /\ n # 0
  OBVIOUS
<1>2. cs[1] \in Contribution /\ cs[1] \in Range(cs)
  <2>1. 1 \in DOMAIN cs
    BY <1>1
  <2> QED
    BY <2>1 DEF Range
<1>3. PICK g \in [0..n -> Contribution] :
        /\ g[0] = cs[1] /\ g[n] = WinAll(cs[1], cs)
        /\ \A k \in 1..n : g[k] = WinOne(g[k - 1], cs[k])
  <2>1. WinSteps(cs[1], cs)
    BY <1>2, WinFold
  <2> QED
    BY <1>1, <2>1, Zenon DEF WinSteps
<1> DEFINE Good == {k \in 0..n : g[k] \in Range(cs) /\ \A i \in 1..k : ~Wins(cs[i], g[k])}
<1>4. 0 \in Good
  BY <1>2, <1>3
<1>5. ASSUME NEW k \in 0..(n - 1), k \in Good
      PROVE  k + 1 \in Good
  <2>1. k + 1 \in 1..n /\ (k + 1) - 1 = k /\ k + 1 \in 0..n /\ k \in 0..n
    OBVIOUS
  <2>2. PICK w, c, v : w = g[k] /\ c = cs[k + 1] /\ v = g[k + 1]
    OBVIOUS
  <2>3. v = WinOne(w, c) /\ c \in Range(cs)
    BY <1>1, <1>3, <2>1, <2>2 DEF Range
  <2>4. w \in Range(cs) /\ \A i \in 1..k : ~Wins(cs[i], w)
    BY <1>5, <2>2
  <2>5. /\ w \in Contribution /\ c \in Contribution
        /\ \A i \in 1..k : cs[i] \in Contribution
    BY <1>1, <2>1, <2>2
  <2>6. v \in Range(cs) /\ (v = c \/ v = w)
    BY <2>3, <2>4, Zenon DEF WinOne
  <2>7. ~Wins(c, v)
    <3>1. ~Wins(c, c)
      BY <2>5, ContributionFields DEF Wins
    <3> QED
      BY <2>3, <3>1, Zenon DEF WinOne
  <2>8. ASSUME NEW i \in 1..k
        PROVE  ~Wins(cs[i], v)
    <3>1. CASE v = w
      BY <2>4, <3>1
    <3>2. CASE v # w
      <4>1. Wins(c, w) /\ v = c
        BY <2>3, <3>2, Zenon DEF WinOne
      <4>2. ~Wins(cs[i], w) /\ cs[i] \in Contribution
        BY <2>4, <2>5
      <4>3. PICK x \in Contribution : x = cs[i]
        BY <4>2
      <4>4. ~Wins(x, c)
        <5>1. /\ x.magnitude \in Nat /\ x.priority \in Nat /\ x.source \in Nat
              /\ c.magnitude \in Nat /\ c.priority \in Nat /\ c.source \in Nat
              /\ w.magnitude \in Nat /\ w.priority \in Nat /\ w.source \in Nat
          BY <2>5, ContributionFields
        <5>2. Wins(c, w) /\ ~Wins(x, w)
          BY <4>1, <4>2, <4>3
        <5> QED
          BY <5>1, <5>2 DEF Wins
      <4> QED
        BY <4>1, <4>3, <4>4
    <3> QED
      BY <3>1, <3>2
  <2>9. \A i \in 1..(k + 1) : i \in 1..k \/ i = k + 1
    BY <2>1
  <2>10. \A i \in 1..(k + 1) : ~Wins(cs[i], v)
    BY <2>2, <2>7, <2>8, <2>9, Zenon
  <2> QED
    BY <2>1, <2>2, <2>6, <2>10
<1>6. \A k \in 0..n : k \in Good
  <2> HIDE DEF Good
  <2> QED
    BY <1>4, <1>5, UpTo
<1>7. n \in 0..n
  OBVIOUS
<1>8. g[n] \in Contribution /\ g[n] \in Range(cs) /\ \A i \in 1..n : ~Wins(cs[i], g[n])
  BY <1>6, <1>7
<1> QED
  BY <1>1, <1>3, <1>8, Zenon DEF Unbeaten, Range

\* What aggregate_contributions() returns does not depend on the order of the list it is
\* given, whatever the length of the list and the rule of the policy, ties of priority
\* included.  Which arrivals are in the list does depend on the order of the signals, once
\* there are more than are kept.
THEOREM AggregateReordered ==
    ASSUME policy \in PolicyForms, NEW cs \in Seq(Contribution),
           NEW perm \in Bijection(DOMAIN cs, DOMAIN cs)
    PROVE  AggregateContributions(Reordered(cs, perm)) = AggregateContributions(cs)
<1>1. PICK ds : ds = Reordered(cs, perm)
  OBVIOUS
<1>2. ds \in Seq(Contribution) /\ Range(ds) = Range(cs) /\ (ds = <<>> <=> cs = <<>>)
  <2>1. Reorders(Len(cs), cs, perm, ds)
    BY <1>1, ReorderedFacts, Zenon
  <2>2. ds \in Seq(Contribution) /\ Len(ds) = Len(cs) /\ Range(ds) = Range(cs)
    BY <2>1, Zenon DEF Reorders
  <2> QED
    BY <2>2
<1>3. policy.aggregation \in {"Max", "WeightedMax", "PriorityFirst", "SaturatingSum"}
  BY DEF PolicyForms
<1>4. SUFFICES ASSUME cs # <<>> PROVE AggregateContributions(ds) = AggregateContributions(cs)
  BY <1>1, <1>2, Zenon DEF AggregateContributions
<1>5. CASE policy.aggregation = "Max"
  BY <1>2, <1>4, <1>5, Zenon DEF AggregateContributions, Best
<1>6. CASE policy.aggregation = "WeightedMax"
  <2>1. policy.aggregation # "Max"
    BY <1>6
  <2> QED
    BY <1>2, <1>4, <1>6, <2>1, Zenon DEF AggregateContributions, Best
<1>7. CASE policy.aggregation = "PriorityFirst"
  <2>1. policy.aggregation # "Max" /\ policy.aggregation # "WeightedMax"
    BY <1>7
  <2>2. ASSUME NEW s, s # <<>>
        PROVE  AggregateContributions(s) = WinAll(s[1], s).magnitude
    BY <1>7, <2>1, <2>2, Zenon DEF AggregateContributions, PriorityFirst, WinAll
  <2>3. PICK v, w : v = WinAll(ds[1], ds) /\ w = WinAll(cs[1], cs)
    OBVIOUS
  <2>4. v \in Contribution /\ w \in Contribution /\ Unbeaten(ds, v) /\ Unbeaten(cs, w)
    BY <1>2, <1>4, <2>3, WinnerUnbeaten
  <2>5. ~Wins(v, w) /\ ~Wins(w, v)
    BY <1>2, <2>4, Zenon DEF Unbeaten
  <2>6. /\ v.magnitude \in Nat /\ v.priority \in Nat /\ v.source \in Nat
        /\ w.magnitude \in Nat /\ w.priority \in Nat /\ w.source \in Nat
    BY <2>4, ContributionFields
  <2>7. v.magnitude = w.magnitude
    BY <2>5, <2>6 DEF Wins
  <2> QED
    BY <1>2, <1>4, <2>2, <2>3, <2>7, Zenon
<1>8. CASE policy.aggregation = "SaturatingSum"
  <2>1. /\ policy.aggregation # "Max" /\ policy.aggregation # "WeightedMax"
        /\ policy.aggregation # "PriorityFirst"
    BY <1>8
  <2>2. ASSUME NEW s, s # <<>>
        PROVE  AggregateContributions(s) = Least(One, SumAll(0, s))
    BY <2>1, <2>2, Zenon DEF AggregateContributions, SumAll
  <2>3. SumAll(0, ds) = SumAll(0, cs)
    BY <1>1, SumReordered
  <2> QED
    BY <1>2, <1>4, <2>2, <2>3, Zenon
<1> QED
  BY <1>3, <1>5, <1>6, <1>7, <1>8

-----------------------------------------------------------------------------
(* Explanations *)

RefusalRecord == [from : Resources \cup {Nowhere}, reason : Reasons, count : Nat]

Explanation == [budget : Nat, from : Resources \cup {Nowhere}, pending : [Reasons -> Nat],
                records : Seq(RefusalRecord)]

TotalOf(w, b, q) == FoldLeft(LAMBDA sum, reason : sum + w[reason], b, q)

\* The edges refused and not recorded yet.
Total(w) == TotalOf(w, 0, ReasonOrder)

LEMMA ReasonSequence ==
    /\ ReasonOrder \in Seq(Reasons) /\ Len(ReasonOrder) = 16
    /\ \A i \in 1..16 : ReasonOrder[i] \in Reasons
    /\ \A reason \in Reasons : \E i \in 1..16 : reason = ReasonOrder[i]
    /\ \A i, j \in 1..16 : ReasonOrder[i] = ReasonOrder[j] => i = j
<1>1. DOMAIN ReasonOrder = 1..16 /\ Len(ReasonOrder) = 16
  BY DEF ReasonOrder
<1>2. /\ ReasonOrder[1] = "BelowFloor" /\ ReasonOrder[2] = "MaxHops"
      /\ ReasonOrder[3] = "MaxFanout" /\ ReasonOrder[4] = "NodeAlreadySettled"
      /\ ReasonOrder[5] = "ProtectedBoundary" /\ ReasonOrder[6] = "SealedResource"
      /\ ReasonOrder[7] = "ObservedOnlyResource"
      /\ ReasonOrder[8] = "StaleDependencyGeneration" /\ ReasonOrder[9] = "Fenced"
      /\ ReasonOrder[10] = "HysteresisNotExceeded" /\ ReasonOrder[11] = "UnauthorizedScope"
      /\ ReasonOrder[12] = "AmplificationNotAuthorized"
      /\ ReasonOrder[13] = "AmplificationBudgetExhausted"
      /\ ReasonOrder[14] = "ExpansionBudgetExhausted" /\ ReasonOrder[15] = "RecoveryOnlyEdge"
      /\ ReasonOrder[16] = "ZeroAttenuation"
  BY DEF ReasonOrder
<1>3. 1..16 = {1, 2, 3, 4, 5, 6, 7, 8, 9, 10, 11, 12, 13, 14, 15, 16}
  OBVIOUS
<1>4. \A y : y \in Reasons <=> \E i \in 1..16 : y = ReasonOrder[i]
  BY <1>1, Zenon DEF Reasons, Range
<1>5. ReasonOrder \in Seq(Reasons)
  <2>1. \A i \in 1..16 : ReasonOrder[i] \in Reasons
    BY <1>4, Zenon
  <2>2. ReasonOrder = [i \in 1..16 |-> ReasonOrder[i]]
    BY <1>1 DEF ReasonOrder
  <2>3. PICK n \in Nat : n = 16
    OBVIOUS
  <2>4. PICK q : q = [i \in 1..n |-> ReasonOrder[i]]
    OBVIOUS
  <2>5. q \in Seq(Reasons)
    BY <2>1, <2>3, <2>4
  <2> QED
    BY <2>2, <2>3, <2>4, <2>5
<1>6. ASSUME NEW i \in 1..16, NEW j \in 1..16, ReasonOrder[i] = ReasonOrder[j]
      PROVE  i = j
  BY <1>2, <1>3, <1>6, SMTT(60)
<1> QED
  BY <1>1, <1>4, <1>5, <1>6, Zenon

LEMMA ReasonsHave ==
    {"BelowFloor", "MaxHops", "MaxFanout", "NodeAlreadySettled", "ProtectedBoundary",
      "SealedResource", "ObservedOnlyResource", "StaleDependencyGeneration", "Fenced",
      "HysteresisNotExceeded", "UnauthorizedScope", "AmplificationNotAuthorized",
      "AmplificationBudgetExhausted", "ExpansionBudgetExhausted", "RecoveryOnlyEdge",
      "ZeroAttenuation"} \subseteq Reasons
<1>1. DOMAIN ReasonOrder = 1..16
  BY DEF ReasonOrder
<1>2. \A i \in 1..16 : ReasonOrder[i] \in Reasons
  BY <1>1, Zenon DEF Reasons, Range
<1>3. /\ ReasonOrder[1] \in Reasons /\ ReasonOrder[2] \in Reasons
      /\ ReasonOrder[3] \in Reasons /\ ReasonOrder[4] \in Reasons
      /\ ReasonOrder[5] \in Reasons /\ ReasonOrder[6] \in Reasons
      /\ ReasonOrder[7] \in Reasons /\ ReasonOrder[8] \in Reasons
      /\ ReasonOrder[9] \in Reasons /\ ReasonOrder[10] \in Reasons
      /\ ReasonOrder[11] \in Reasons /\ ReasonOrder[12] \in Reasons
      /\ ReasonOrder[13] \in Reasons /\ ReasonOrder[14] \in Reasons
      /\ ReasonOrder[15] \in Reasons /\ ReasonOrder[16] \in Reasons
  BY <1>2
<1> QED
  BY <1>3 DEF ReasonOrder

\* The sum of the counts, one reason after another.
TotalOfSteps(w, b, q) ==
    \E g \in [0..Len(q) -> Nat] :
        /\ g[0] = b /\ g[Len(q)] = TotalOf(w, b, q)
        /\ \A k \in 1..Len(q) : g[k] = g[k - 1] + w[q[k]]

LEMMA TotalFold ==
    ASSUME NEW w \in [Reasons -> Nat], NEW b \in Nat, NEW q \in Seq(Reasons)
    PROVE  TotalOfSteps(w, b, q)
<1> DEFINE n == Len(q)
           F == [p \in (1..n) \X Nat |-> p[2] + w[q[p[1]]]]
           Eq(it) == it = [s \in SUBSET (1..n) |->
                              IF s = {} THEN b
                              ELSE it[s \ {Max(s)}] + w[q[Max(s)]]]
           fold == CHOOSE it : Eq(it)
<1>1. n \in Nat /\ DOMAIN q = 1..n /\ \A i \in 1..n : q[i] \in Reasons
  OBVIOUS
<1>2. \A t \in Nat, u \in Reasons : t + w[u] \in Nat
  OBVIOUS
<1>3. F \in [(1..n) \X Nat -> Nat]
  <2> HIDE DEF n
  <2> QED
    BY <1>1, <1>2
<1>4. PICK it \in [SUBSET (1..n) -> Nat] : Folds(n, b, F, it)
  <2> HIDE DEF F, n
  <2> QED
    BY <1>1, <1>3, FoldExists
<1>5. \A k \in 1..n, t \in Nat : F[<<k, t>>] = t + w[q[k]]
  OBVIOUS
<1>6. Eq(it)
  <2>1. ASSUME NEW s \in SUBSET (1..n)
        PROVE  it[s] = IF s = {} THEN b ELSE it[s \ {Max(s)}] + w[q[Max(s)]]
    <3> HIDE DEF F, n
    <3>1. s # {} => Max(s) \in 1..n /\ s \ {Max(s)} \in SUBSET (1..n)
      BY <1>1, MaxOf
    <3> QED
      BY <1>4, <1>5, <3>1, Zenon DEF Folds
  <2> HIDE DEF n
  <2> QED
    BY <2>1
<1>7. Eq(fold)
  <2> HIDE DEF Eq
  <2> QED
    BY <1>6, Zenon
<1>8. TotalOf(w, b, q) = fold[1..n]
  BY <1>1, Zenon DEF TotalOf, FoldLeft, MapThenFoldSet
<1> HIDE DEF fold
<1>9. fold[{}] = b
  <2>1. {} \in SUBSET (1..n)
    OBVIOUS
  <2> HIDE DEF n
  <2> QED
    BY <1>7, <2>1, Zenon
<1>10. Climbs(n, Nat, F, fold)
  <2> SUFFICES ASSUME NEW k \in 1..n, fold[1..(k - 1)] \in Nat
               PROVE  fold[1..k] = F[<<k, fold[1..(k - 1)]>>]
    BY Zenon DEF Climbs
  <2> HIDE DEF n, F
  <2>1. k \in 1..n
    OBVIOUS
  <2>2. /\ 1..k \in SUBSET (1..n) /\ 1..k # {}
        /\ Max(1..k) = k /\ (1..k) \ {k} = 1..(k - 1)
    BY <1>1, <2>1, InitialPart
  <2>3. fold[1..k] = fold[(1..k) \ {Max(1..k)}] + w[q[Max(1..k)]]
    BY <1>7, <2>2, Zenon
  <2>4. fold[1..k] = fold[1..(k - 1)] + w[q[k]]
    BY <2>2, <2>3, Zenon
  <2> QED
    BY <1>5, <2>4, Zenon
<1> HIDE DEF F, n
<1>11. PICK g \in [0..n -> Nat] : Steps(n, b, F, fold, g)
  BY <1>1, <1>3, <1>9, <1>10, FoldSteps, Zenon
<1>12. \A k \in 1..n : g[k] = g[k - 1] + w[q[k]]
  <2> SUFFICES ASSUME NEW k \in 1..n PROVE g[k] = g[k - 1] + w[q[k]]
    OBVIOUS
  <2>1. k - 1 \in 0..n
    BY <1>1
  <2>2. g[k - 1] \in Nat
    BY <2>1
  <2> QED
    BY <1>5, <1>11, <2>2, Zenon DEF Steps
<1> QED
  BY <1>8, <1>11, <1>12, Zenon DEF n, Steps, TotalOfSteps

LEMMA TotalSteps ==
    ASSUME NEW p \in [Reasons -> Nat]
    PROVE  \E g \in [0..16 -> Nat] :
               /\ g[0] = 0 /\ g[16] = Total(p)
               /\ \A k \in 1..16 : g[k] = g[k - 1] + p[ReasonOrder[k]]
<1>1. TotalOfSteps(p, 0, ReasonOrder)
  BY ReasonSequence, TotalFold
<1> QED
  BY <1>1, ReasonSequence, Zenon DEF TotalOfSteps, Total

LEMMA TotalType ==
    ASSUME NEW p \in [Reasons -> Nat]
    PROVE  Total(p) \in Nat
<1>1. PICK g \in [0..16 -> Nat] : g[16] = Total(p)
  BY TotalSteps, Zenon
<1>2. 16 \in 0..16
  OBVIOUS
<1> QED
  BY <1>1, <1>2

LEMMA TotalNone == NoRefusals \in [Reasons -> Nat] /\ Total(NoRefusals) = 0
<1>1. NoRefusals \in [Reasons -> Nat] /\ \A r \in Reasons : NoRefusals[r] = 0
  BY DEF NoRefusals
<1>2. PICK g \in [0..16 -> Nat] :
        /\ g[0] = 0 /\ g[16] = Total(NoRefusals)
        /\ \A k \in 1..16 : g[k] = g[k - 1] + NoRefusals[ReasonOrder[k]]
  BY <1>1, TotalSteps, Zenon
<1>3. \A k \in 1..16 : NoRefusals[ReasonOrder[k]] = 0
  BY <1>1, ReasonSequence, Zenon
<1> DEFINE Zero == {k \in 0..16 : g[k] = 0}
<1>4. 0 \in Zero
  BY <1>2
<1>5. ASSUME NEW k \in 0..(16 - 1), k \in Zero
      PROVE  k + 1 \in Zero
  <2>1. k + 1 \in 1..16 /\ (k + 1) - 1 = k /\ k + 1 \in 0..16
    OBVIOUS
  <2>2. g[k + 1] = g[k] + 0
    BY <1>2, <1>3, <2>1
  <2> QED
    BY <1>5, <2>1, <2>2
<1>6. \A k \in 0..16 : k \in Zero
  <2>1. 16 \in Nat
    OBVIOUS
  <2> HIDE DEF Zero
  <2> QED
    BY <1>4, <1>5, <2>1, UpTo, Zenon
<1>7. 16 \in 0..16
  OBVIOUS
<1> QED
  BY <1>1, <1>2, <1>6, <1>7

\* Changing the count of one reason changes the total by as much.
LEMMA TotalChange ==
    ASSUME NEW p \in [Reasons -> Nat], NEW reason \in Reasons, NEW v \in Nat,
           NEW c, c = [p EXCEPT ![reason] = v]
    PROVE  c \in [Reasons -> Nat] /\ Total(c) + p[reason] = Total(p) + v
<1>1. c \in [Reasons -> Nat] /\ c[reason] = v /\ \A r \in Reasons : r # reason => c[r] = p[r]
  OBVIOUS
<1>2. PICK g \in [0..16 -> Nat] :
        /\ g[0] = 0 /\ g[16] = Total(p)
        /\ \A k \in 1..16 : g[k] = g[k - 1] + p[ReasonOrder[k]]
  BY TotalSteps, Zenon
<1>3. PICK h \in [0..16 -> Nat] :
        /\ h[0] = 0 /\ h[16] = Total(c)
        /\ \A k \in 1..16 : h[k] = h[k - 1] + c[ReasonOrder[k]]
  BY <1>1, TotalSteps, Zenon
<1>4. PICK j \in 1..16 : reason = ReasonOrder[j]
  BY ReasonSequence, Zenon
<1>5. \A k \in 1..16 : ReasonOrder[k] \in Reasons /\ (k # j => ReasonOrder[k] # reason)
  BY <1>4, ReasonSequence, Zenon
<1>6. PICK x \in Nat : x = p[reason]
  OBVIOUS
<1> DEFINE Good == {k \in 0..16 : IF k < j THEN h[k] = g[k] ELSE h[k] + x = g[k] + v}
<1>7. 0 \in Good
  BY <1>2, <1>3
<1>8. ASSUME NEW k \in 0..(16 - 1), k \in Good
      PROVE  k + 1 \in Good
  <2>1. k + 1 \in 1..16 /\ (k + 1) - 1 = k /\ k + 1 \in 0..16 /\ k \in 0..16
    OBVIOUS
  <2>2. /\ g[k + 1] = g[k] + p[ReasonOrder[k + 1]]
        /\ h[k + 1] = h[k] + c[ReasonOrder[k + 1]]
    BY <1>2, <1>3, <2>1
  <2>3. g[k] \in Nat /\ h[k] \in Nat /\ p[ReasonOrder[k + 1]] \in Nat
    BY <1>5, <2>1
  <2>4. IF k < j THEN h[k] = g[k] ELSE h[k] + x = g[k] + v
    BY <1>8
  <2>5. CASE k + 1 = j
    <3>1. p[ReasonOrder[k + 1]] = x /\ c[ReasonOrder[k + 1]] = v
      BY <1>1, <1>4, <1>6, <2>5
    <3>2. h[k + 1] + x = g[k + 1] + v
      BY <2>2, <2>3, <2>4, <2>5, <3>1
    <3> QED
      BY <2>1, <2>5, <3>2
  <2>6. CASE k + 1 # j
    <3>1. c[ReasonOrder[k + 1]] = p[ReasonOrder[k + 1]]
      BY <1>1, <1>5, <2>1, <2>6
    <3>2. IF k + 1 < j THEN h[k + 1] = g[k + 1] ELSE h[k + 1] + x = g[k + 1] + v
      BY <2>1, <2>2, <2>3, <2>4, <2>6, <3>1
    <3> QED
      BY <2>1, <3>2
  <2> QED
    BY <2>5, <2>6
<1>9. \A k \in 0..16 : k \in Good
  <2>1. 16 \in Nat
    OBVIOUS
  <2> HIDE DEF Good
  <2> QED
    BY <1>7, <1>8, <2>1, UpTo, Zenon
<1>10. 16 \in 0..16 /\ ~(16 < j)
  OBVIOUS
<1>11. h[16] + x = g[16] + v
  BY <1>9, <1>10
<1> QED
  BY <1>1, <1>2, <1>3, <1>6, <1>11

\* One reason: what is no longer pending has been recorded.
LEMMA FlushType ==
    ASSUME NEW x \in Explanation, NEW reason \in Reasons
    PROVE  Flush(x, reason) \in Explanation
<1>1. /\ x.budget \in Nat /\ x.from \in Resources \cup {Nowhere}
      /\ x.pending \in [Reasons -> Nat] /\ x.records \in Seq(RefusalRecord)
  BY DEF Explanation
<1>2. CASE x.pending[reason] = 0 \/ x.budget = 0
  BY <1>2, Zenon DEF Flush
<1>3. CASE ~(x.pending[reason] = 0 \/ x.budget = 0)
  <2>1. PICK rec : rec = [from |-> x.from, reason |-> reason, count |-> x.pending[reason]]
    OBVIOUS
  <2>2. rec \in RefusalRecord
    BY <1>1, <2>1 DEF RefusalRecord
  <2>3. Flush(x, reason) = [x EXCEPT !.budget = @ - 1, !.pending[reason] = 0,
                                     !.records = Append(@, rec)]
    BY <1>3, <2>1, Zenon DEF Flush
  <2>4. PICK p, q, b : /\ p = [x.pending EXCEPT ![reason] = 0]
                       /\ q = Append(x.records, rec) /\ b = x.budget - 1
    OBVIOUS
  <2>5. p \in [Reasons -> Nat] /\ q \in Seq(RefusalRecord) /\ b \in Nat
    BY <1>1, <1>3, <2>2, <2>4
  <2>6. Flush(x, reason) = [budget |-> b, from |-> x.from, pending |-> p, records |-> q]
    BY <2>3, <2>4 DEF Explanation
  <2>7. [budget |-> b, from |-> x.from, pending |-> p, records |-> q] \in Explanation
    BY <1>1, <2>5 DEF Explanation
  <2> QED
    BY <2>6, <2>7, Zenon
<1> QED
  BY <1>2, <1>3

FlushAll(b, q) == FoldLeft(Flush, b, q)

RefusedOne(r, sum, x) == IF x.from = r THEN sum + x.count ELSE sum

RefusedAll(r, b, q) ==
    FoldLeft(LAMBDA sum, x : IF x.from = r THEN sum + x.count ELSE sum, b, q)

LEMMA RefusedOneType ==
    ASSUME NEW r, NEW t \in Nat, NEW x \in RefusalRecord
    PROVE  RefusedOne(r, t, x) \in Nat
BY DEF RefusedOne, RefusalRecord

\* flush_suppressions(), one reason after another.
FlushSteps(b, q) ==
    \E g \in [0..Len(q) -> Explanation] :
        /\ g[0] = b /\ g[Len(q)] = FlushAll(b, q)
        /\ \A k \in 1..Len(q) : g[k] = Flush(g[k - 1], q[k])

LEMMA FlushFold ==
    ASSUME NEW b \in Explanation, NEW q \in Seq(Reasons)
    PROVE  FlushSteps(b, q)
<1> DEFINE n == Len(q)
           F == [p \in (1..n) \X Explanation |-> Flush(p[2], q[p[1]])]
           Eq(it) == it = [s \in SUBSET (1..n) |->
                              IF s = {} THEN b
                              ELSE Flush(it[s \ {Max(s)}], q[Max(s)])]
           fold == CHOOSE it : Eq(it)
<1>1. n \in Nat /\ DOMAIN q = 1..n /\ \A i \in 1..n : q[i] \in Reasons
  OBVIOUS
<1>2. \A t \in Explanation, u \in Reasons : Flush(t, u) \in Explanation
  BY FlushType
<1>3. F \in [(1..n) \X Explanation -> Explanation]
  <2> HIDE DEF n
  <2> QED
    BY <1>1, <1>2
<1>4. PICK it \in [SUBSET (1..n) -> Explanation] : Folds(n, b, F, it)
  <2> HIDE DEF F, n
  <2> QED
    BY <1>1, <1>3, FoldExists
<1>5. \A k \in 1..n, t \in Explanation : F[<<k, t>>] = Flush(t, q[k])
  OBVIOUS
<1>6. Eq(it)
  <2>1. ASSUME NEW s \in SUBSET (1..n)
        PROVE  it[s] = IF s = {} THEN b ELSE Flush(it[s \ {Max(s)}], q[Max(s)])
    <3> HIDE DEF F, n
    <3>1. s # {} => Max(s) \in 1..n /\ s \ {Max(s)} \in SUBSET (1..n)
      BY <1>1, MaxOf
    <3> QED
      BY <1>4, <1>5, <3>1, Zenon DEF Folds
  <2> HIDE DEF n
  <2> QED
    BY <2>1
<1>7. Eq(fold)
  <2> HIDE DEF Eq
  <2> QED
    BY <1>6, Zenon
<1>8. FlushAll(b, q) = fold[1..n]
  BY <1>1, Zenon DEF FlushAll, FoldLeft, MapThenFoldSet
<1> HIDE DEF fold
<1>9. fold[{}] = b
  <2>1. {} \in SUBSET (1..n)
    OBVIOUS
  <2> HIDE DEF n
  <2> QED
    BY <1>7, <2>1, Zenon
<1>10. Climbs(n, Explanation, F, fold)
  <2> SUFFICES ASSUME NEW k \in 1..n, fold[1..(k - 1)] \in Explanation
               PROVE  fold[1..k] = F[<<k, fold[1..(k - 1)]>>]
    BY Zenon DEF Climbs
  <2> HIDE DEF n, F
  <2>1. k \in 1..n
    OBVIOUS
  <2>2. /\ 1..k \in SUBSET (1..n) /\ 1..k # {}
        /\ Max(1..k) = k /\ (1..k) \ {k} = 1..(k - 1)
    BY <1>1, <2>1, InitialPart
  <2>3. fold[1..k] = Flush(fold[(1..k) \ {Max(1..k)}], q[Max(1..k)])
    BY <1>7, <2>2, Zenon
  <2>4. fold[1..k] = Flush(fold[1..(k - 1)], q[k])
    BY <2>2, <2>3, Zenon
  <2> QED
    BY <1>5, <2>4, Zenon
<1> HIDE DEF F, n
<1>11. PICK g \in [0..n -> Explanation] : Steps(n, b, F, fold, g)
  BY <1>1, <1>3, <1>9, <1>10, FoldSteps, Zenon
<1>12. \A k \in 1..n : g[k] = Flush(g[k - 1], q[k])
  <2> SUFFICES ASSUME NEW k \in 1..n PROVE g[k] = Flush(g[k - 1], q[k])
    OBVIOUS
  <2>1. k - 1 \in 0..n
    BY <1>1
  <2>2. g[k - 1] \in Explanation
    BY <2>1
  <2> QED
    BY <1>5, <1>11, <2>2, Zenon DEF Steps
<1> QED
  BY <1>8, <1>11, <1>12, Zenon DEF n, Steps, FlushSteps

\* The refusals recorded for r, one record after another.
RefusedSteps(r, b, q) ==
    \E g \in [0..Len(q) -> Nat] :
        /\ g[0] = b /\ g[Len(q)] = RefusedAll(r, b, q)
        /\ \A k \in 1..Len(q) : g[k] = RefusedOne(r, g[k - 1], q[k])

LEMMA RefusedFold ==
    ASSUME NEW r, NEW b \in Nat, NEW q \in Seq(RefusalRecord)
    PROVE  RefusedSteps(r, b, q)
<1> DEFINE n == Len(q)
           F == [p \in (1..n) \X Nat |-> RefusedOne(r, p[2], q[p[1]])]
           Eq(it) == it = [s \in SUBSET (1..n) |->
                              IF s = {} THEN b
                              ELSE RefusedOne(r, it[s \ {Max(s)}], q[Max(s)])]
           fold == CHOOSE it : Eq(it)
<1>1. n \in Nat /\ DOMAIN q = 1..n /\ \A i \in 1..n : q[i] \in RefusalRecord
  OBVIOUS
<1>2. \A t \in Nat, u \in RefusalRecord : RefusedOne(r, t, u) \in Nat
  BY RefusedOneType
<1>3. F \in [(1..n) \X Nat -> Nat]
  <2> HIDE DEF n
  <2> QED
    BY <1>1, <1>2
<1>4. PICK it \in [SUBSET (1..n) -> Nat] : Folds(n, b, F, it)
  <2> HIDE DEF F, n
  <2> QED
    BY <1>1, <1>3, FoldExists
<1>5. \A k \in 1..n, t \in Nat : F[<<k, t>>] = RefusedOne(r, t, q[k])
  OBVIOUS
<1>6. Eq(it)
  <2>1. ASSUME NEW s \in SUBSET (1..n)
        PROVE  it[s] = IF s = {} THEN b ELSE RefusedOne(r, it[s \ {Max(s)}], q[Max(s)])
    <3> HIDE DEF F, n
    <3>1. s # {} => Max(s) \in 1..n /\ s \ {Max(s)} \in SUBSET (1..n)
      BY <1>1, MaxOf
    <3> QED
      BY <1>4, <1>5, <3>1, Zenon DEF Folds
  <2> HIDE DEF n
  <2> QED
    BY <2>1
<1>7. Eq(fold)
  <2> HIDE DEF Eq
  <2> QED
    BY <1>6, Zenon
<1>8. RefusedAll(r, b, q) = fold[1..n]
  BY <1>1, Zenon DEF RefusedAll, RefusedOne, FoldLeft, MapThenFoldSet
<1> HIDE DEF fold
<1>9. fold[{}] = b
  <2>1. {} \in SUBSET (1..n)
    OBVIOUS
  <2> HIDE DEF n
  <2> QED
    BY <1>7, <2>1, Zenon
<1>10. Climbs(n, Nat, F, fold)
  <2> SUFFICES ASSUME NEW k \in 1..n, fold[1..(k - 1)] \in Nat
               PROVE  fold[1..k] = F[<<k, fold[1..(k - 1)]>>]
    BY Zenon DEF Climbs
  <2> HIDE DEF n, F
  <2>1. k \in 1..n
    OBVIOUS
  <2>2. /\ 1..k \in SUBSET (1..n) /\ 1..k # {}
        /\ Max(1..k) = k /\ (1..k) \ {k} = 1..(k - 1)
    BY <1>1, <2>1, InitialPart
  <2>3. fold[1..k] = RefusedOne(r, fold[(1..k) \ {Max(1..k)}], q[Max(1..k)])
    BY <1>7, <2>2, Zenon
  <2>4. fold[1..k] = RefusedOne(r, fold[1..(k - 1)], q[k])
    BY <2>2, <2>3, Zenon
  <2> QED
    BY <1>5, <2>4, Zenon
<1> HIDE DEF F, n
<1>11. PICK g \in [0..n -> Nat] : Steps(n, b, F, fold, g)
  BY <1>1, <1>3, <1>9, <1>10, FoldSteps, Zenon
<1>12. \A k \in 1..n : g[k] = RefusedOne(r, g[k - 1], q[k])
  <2> SUFFICES ASSUME NEW k \in 1..n PROVE g[k] = RefusedOne(r, g[k - 1], q[k])
    OBVIOUS
  <2>1. k - 1 \in 0..n
    BY <1>1
  <2>2. g[k - 1] \in Nat
    BY <2>1
  <2> QED
    BY <1>5, <1>11, <2>2, Zenon DEF Steps
<1> QED
  BY <1>8, <1>11, <1>12, Zenon DEF n, Steps, RefusedSteps

\* The refusals that a sequence of records counts for r.
Refused(records, r) == RefusedAll(r, 0, records)

LEMMA RefusedNone == \A r : Refused(<<>>, r) = 0
<1> SUFFICES ASSUME NEW r PROVE Refused(<<>>, r) = 0
  OBVIOUS
<1>1. <<>> \in Seq(RefusalRecord) /\ Len(<<>>) = 0
  OBVIOUS
<1>2. RefusedSteps(r, 0, <<>>)
  BY <1>1, RefusedFold
<1> QED
  BY <1>1, <1>2, Zenon DEF RefusedSteps, Refused

LEMMA RefusedType ==
    ASSUME NEW q \in Seq(RefusalRecord), NEW r
    PROVE  Refused(q, r) \in Nat
<1>1. PICK g \in [0..Len(q) -> Nat] : g[Len(q)] = RefusedAll(r, 0, q)
  BY RefusedFold, ZenonT(60) DEF RefusedSteps
<1>2. Len(q) \in 0..Len(q)
  OBVIOUS
<1> QED
  BY <1>1, <1>2 DEF Refused

\* A record more.
LEMMA RefusedMore ==
    ASSUME NEW q \in Seq(RefusalRecord), NEW x \in RefusalRecord, NEW r
    PROVE  Refused(Append(q, x), r) = RefusedOne(r, Refused(q, r), x)
<1>1. PICK n \in Nat : n = Len(q)
  OBVIOUS
<1>2. PICK s : s = Append(q, x)
  OBVIOUS
<1>3. /\ s \in Seq(RefusalRecord) /\ Len(s) = n + 1 /\ s[n + 1] = x
      /\ \A k \in 1..n : s[k] = q[k]
  BY <1>1, <1>2
<1>4. PICK g \in [0..n -> Nat] :
        /\ g[0] = 0 /\ g[n] = Refused(q, r)
        /\ \A k \in 1..n : g[k] = RefusedOne(r, g[k - 1], q[k])
  <2>1. RefusedSteps(r, 0, q)
    BY RefusedFold
  <2> QED
    BY <1>1, <2>1, Zenon DEF RefusedSteps, Refused
<1>5. PICK h \in [0..(n + 1) -> Nat] :
        /\ h[0] = 0 /\ h[n + 1] = Refused(s, r)
        /\ \A k \in 1..(n + 1) : h[k] = RefusedOne(r, h[k - 1], s[k])
  <2>1. RefusedSteps(r, 0, s)
    BY <1>3, RefusedFold
  <2> QED
    BY <1>3, <2>1, Zenon DEF RefusedSteps, Refused
<1> DEFINE Same == {k \in 0..n : h[k] = g[k]}
<1>6. 0 \in Same
  BY <1>4, <1>5
<1>7. ASSUME NEW k \in 0..(n - 1), k \in Same
      PROVE  k + 1 \in Same
  <2>1. /\ k + 1 \in 1..n /\ (k + 1) - 1 = k /\ k + 1 \in 0..n /\ k + 1 \in 1..(n + 1)
    OBVIOUS
  <2>2. g[k + 1] = RefusedOne(r, g[k], q[k + 1]) /\ h[k + 1] = RefusedOne(r, h[k], q[k + 1])
    BY <1>3, <1>4, <1>5, <2>1
  <2>3. h[k] = g[k]
    BY <1>7
  <2>4. h[k + 1] = g[k + 1]
    BY <2>2, <2>3, Zenon
  <2> QED
    BY <2>1, <2>4
<1>8. \A k \in 0..n : k \in Same
  <2> HIDE DEF Same
  <2> QED
    BY <1>6, <1>7, UpTo
<1>9. h[n] = g[n]
  <2>1. n \in 0..n
    OBVIOUS
  <2> QED
    BY <1>8, <2>1
<1>10. n + 1 \in 1..(n + 1) /\ (n + 1) - 1 = n
  OBVIOUS
<1>11. h[n + 1] = RefusedOne(r, h[n], s[n + 1])
  BY <1>5, <1>10
<1> QED
  BY <1>2, <1>3, <1>4, <1>5, <1>9, <1>11, Zenon

\* y explains the refusals of x: none is lost between the counts and the records.
Balanced(x, y) ==
    /\ y \in Explanation /\ y.from = x.from
    /\ Refused(y.records, x.from) + Total(y.pending)
         = Refused(x.records, x.from) + Total(x.pending)
    /\ \A r : r # x.from => Refused(y.records, r) = Refused(x.records, r)

LEMMA ExplanationFields ==
    ASSUME NEW x \in Explanation
    PROVE  /\ x.budget \in Nat /\ x.from \in Resources \cup {Nowhere}
           /\ x.pending \in [Reasons -> Nat] /\ x.records \in Seq(RefusalRecord)
           /\ Total(x.pending) \in Nat /\ \A r : Refused(x.records, r) \in Nat
<1>1. /\ x.budget \in Nat /\ x.from \in Resources \cup {Nowhere}
      /\ x.pending \in [Reasons -> Nat] /\ x.records \in Seq(RefusalRecord)
  BY DEF Explanation
<1> QED
  BY <1>1, TotalType, RefusedType, Zenon

LEMMA FlushBalanced ==
    ASSUME NEW x \in Explanation, NEW reason \in Reasons
    PROVE  Balanced(x, Flush(x, reason))
<1>1. PICK y : y = Flush(x, reason)
  OBVIOUS
<1>2. y \in Explanation
  BY <1>1, FlushType
<1>3. CASE x.pending[reason] = 0 \/ x.budget = 0
  <2>1. y = x
    BY <1>1, <1>3, Zenon DEF Flush
  <2> QED
    BY <1>1, <2>1, Zenon DEF Balanced
<1>4. CASE ~(x.pending[reason] = 0 \/ x.budget = 0)
  <2>1. PICK rec : rec = [from |-> x.from, reason |-> reason, count |-> x.pending[reason]]
    OBVIOUS
  <2>2. y = [x EXCEPT !.budget = @ - 1, !.pending[reason] = 0, !.records = Append(@, rec)]
    BY <1>1, <1>4, <2>1, Zenon DEF Flush
  <2>3. PICK p, c, q, v : /\ p = x.pending /\ c = [p EXCEPT ![reason] = 0]
                          /\ q = x.records /\ v = p[reason]
    OBVIOUS
  <2>4. y.from = x.from /\ y.pending = c /\ y.records = Append(q, rec)
    BY <2>2, <2>3 DEF Explanation
  <2>5. p \in [Reasons -> Nat] /\ q \in Seq(RefusalRecord) /\ x.from \in Resources \cup {Nowhere}
    BY <2>3, ExplanationFields
  <2>6. v \in Nat /\ rec.from = x.from /\ rec.count = v
    BY <2>1, <2>3, <2>5
  <2>7. rec \in RefusalRecord
    BY <2>1, <2>3, <2>5 DEF RefusalRecord
  <2>8. c \in [Reasons -> Nat] /\ Total(c) + v = Total(p) + 0
    BY <2>3, <2>5, TotalChange
  <2>9. \A r : Refused(y.records, r) = RefusedOne(r, Refused(q, r), rec)
    BY <2>4, <2>5, <2>7, RefusedMore, Zenon
  <2>10. Refused(y.records, x.from) = Refused(q, x.from) + v
    BY <2>6, <2>9, Zenon DEF RefusedOne
  <2>11. \A r : r # x.from => Refused(y.records, r) = Refused(q, r)
    BY <2>6, <2>9, Zenon DEF RefusedOne
  <2>12. Refused(q, x.from) \in Nat /\ Total(c) \in Nat /\ Total(p) \in Nat
    BY <2>5, <2>8, TotalType, RefusedType
  <2>13. Refused(y.records, x.from) + Total(c) = Refused(q, x.from) + Total(p)
    BY <2>6, <2>8, <2>10, <2>12
  <2> QED
    BY <1>1, <1>2, <2>3, <2>4, <2>11, <2>13, Zenon DEF Balanced
<1> QED
  BY <1>3, <1>4

LEMMA BalancedTransitive ==
    ASSUME NEW x, NEW y, NEW z, Balanced(x, y), Balanced(y, z)
    PROVE  Balanced(x, z)
BY Zenon DEF Balanced

LEMMA EmittedBalanced ==
    ASSUME NEW x \in Explanation
    PROVE  Balanced(x, Emitted(x))
<1>1. PICK n \in Nat : n = 16
  OBVIOUS
<1>2. PICK g \in [0..n -> Explanation] :
        /\ g[0] = x /\ g[n] = Emitted(x)
        /\ \A k \in 1..n : g[k] = Flush(g[k - 1], ReasonOrder[k])
  <2>1. FlushSteps(x, ReasonOrder) /\ Len(ReasonOrder) = n
    BY <1>1, FlushFold, ReasonSequence
  <2>2. Emitted(x) = FlushAll(x, ReasonOrder)
    BY Zenon DEF Emitted, FlushAll
  <2> QED
    BY <2>1, <2>2, Zenon DEF FlushSteps
<1>3. \A k \in 1..n : ReasonOrder[k] \in Reasons
  BY <1>1, ReasonSequence, Zenon
<1> DEFINE Good == {k \in 0..n : Balanced(x, g[k])}
<1>4. 0 \in Good
  <2>1. Balanced(x, x)
    BY Zenon DEF Balanced
  <2>2. 0 \in 0..n
    OBVIOUS
  <2> QED
    BY <1>2, <2>1, <2>2, Zenon
<1>5. ASSUME NEW k \in 0..(n - 1), k \in Good
      PROVE  k + 1 \in Good
  <2>1. k + 1 \in 1..n /\ (k + 1) - 1 = k /\ k + 1 \in 0..n /\ k \in 0..n
    OBVIOUS
  <2>2. PICK y \in Explanation : y = g[k]
    BY <2>1
  <2>3. g[k + 1] = Flush(y, ReasonOrder[k + 1])
    BY <1>2, <2>1, <2>2
  <2>4. Balanced(y, g[k + 1])
    BY <1>3, <2>1, <2>3, FlushBalanced
  <2>5. Balanced(x, y)
    BY <1>5, <2>2, Zenon
  <2>6. Balanced(x, g[k + 1])
    BY <2>4, <2>5, BalancedTransitive
  <2> QED
    BY <2>1, <2>6, Zenon
<1>6. \A k \in 0..n : k \in Good
  <2> HIDE DEF Good
  <2> QED
    BY <1>4, <1>5, UpTo
<1>7. n \in 0..n
  OBVIOUS
<1> QED
  BY <1>2, <1>6, <1>7, Zenon

\* What leaving a resource does to its explanation.
LEMMA FlushedFacts ==
    ASSUME NEW x \in Explanation
    PROVE  /\ Flushed(x) \in Explanation
           /\ Flushed(x).from = x.from /\ Flushed(x).pending = NoRefusals
           /\ \A r : r # x.from => Refused(Flushed(x).records, r) = Refused(x.records, r)
           /\ Fits(x) => Refused(Flushed(x).records, x.from)
                           = Refused(x.records, x.from) + Total(x.pending)
<1>1. PICK y : y = Emitted(x)
  OBVIOUS
<1>2. PICK z : z = [y EXCEPT !.pending = NoRefusals]
  OBVIOUS
<1>3. z = Flushed(x)
  BY <1>1, <1>2, Zenon DEF Flushed
<1>4. Balanced(x, y)
  BY <1>1, EmittedBalanced
<1>5. y \in Explanation /\ y.from = x.from
  BY <1>4, Zenon DEF Balanced
<1>6. z.from = y.from /\ z.pending = NoRefusals /\ z.records = y.records
  BY <1>2, <1>5 DEF Explanation
<1>7. z \in Explanation
  <2>1. z = [budget |-> y.budget, from |-> y.from, pending |-> NoRefusals,
             records |-> y.records]
    BY <1>2, <1>5 DEF Explanation
  <2>2. [budget |-> y.budget, from |-> y.from, pending |-> NoRefusals,
         records |-> y.records] \in Explanation
    BY <1>5, TotalNone, ExplanationFields DEF Explanation
  <2> QED
    BY <2>1, <2>2, Zenon
<1>8. \A r : r # x.from => Refused(z.records, r) = Refused(x.records, r)
  BY <1>4, <1>6, Zenon DEF Balanced
<1>9. ASSUME Fits(x)
      PROVE  Refused(z.records, x.from) = Refused(x.records, x.from) + Total(x.pending)
  <2>1. y.pending = NoRefusals
    BY <1>1, <1>9, Zenon DEF Fits
  <2>2. Total(y.pending) = 0
    BY <2>1, TotalNone, Zenon
  <2>3. Refused(y.records, x.from) + Total(y.pending)
          = Refused(x.records, x.from) + Total(x.pending)
    BY <1>4, Zenon DEF Balanced
  <2>4. Refused(y.records, x.from) \in Nat
    BY <1>5, ExplanationFields
  <2>5. Refused(y.records, x.from) = Refused(y.records, x.from) + Total(y.pending)
    BY <2>2, <2>4
  <2> QED
    BY <1>6, <2>3, <2>5, Zenon
<1> QED
  BY <1>3, <1>5, <1>6, <1>7, <1>8, <1>9, Zenon

\* What refusing n edges out of a resource does to its explanation.
LEMMA RejectedFacts ==
    ASSUME NEW x \in Explanation, NEW from \in Resources, NEW reason \in Reasons,
           NEW n \in Nat
    PROVE  /\ Rejected(x, from, reason, n) \in Explanation
           /\ Rejected(x, from, reason, n).from = from
           /\ Rejected(x, from, reason, n).records = x.records
           /\ Total(Rejected(x, from, reason, n).pending) = Total(x.pending) + n
<1>1. PICK y : y = Rejected(x, from, reason, n)
  OBVIOUS
<1>2. y.from = from /\ y.records = x.records
  BY <1>1 DEF Rejected, Explanation
<1>3. y.pending = [x.pending EXCEPT ![reason] = x.pending[reason] + n]
  BY <1>1 DEF Rejected, Explanation
<1>4. x.pending \in [Reasons -> Nat]
  BY ExplanationFields
<1>5. PICK v \in Nat : v = x.pending[reason] + n
  BY <1>4
<1>6. y.pending = [x.pending EXCEPT ![reason] = v]
  BY <1>3, <1>5, Zenon
<1>7. /\ y.pending \in [Reasons -> Nat]
      /\ Total(y.pending) + x.pending[reason] = Total(x.pending) + v
  BY <1>4, <1>6, TotalChange
<1>8. Total(y.pending) = Total(x.pending) + n
  <2>1. PICK t, u, w \in Nat :
           t = Total(y.pending) /\ u = Total(x.pending) /\ w = x.pending[reason]
    BY <1>4, <1>7, TotalType
  <2>2. t + w = u + v /\ v = w + n
    BY <1>5, <1>7, <2>1, Zenon
  <2>3. t = u + n
    BY <2>2
  <2> QED
    BY <2>1, <2>3, Zenon
<1>9. y \in Explanation
  <2>1. y = [budget |-> x.budget, from |-> from, pending |-> y.pending, records |-> x.records]
    BY <1>1 DEF Rejected, Explanation
  <2>2. [budget |-> x.budget, from |-> from, pending |-> y.pending, records |-> x.records]
          \in Explanation
    BY <1>7, ExplanationFields DEF Explanation
  <2> QED
    BY <2>1, <2>2, Zenon
<1> QED
  BY <1>1, <1>2, <1>8, <1>9, Zenon

-----------------------------------------------------------------------------
(* Explanations of whole traversals *)

HopsFrom(r) == {h \in CurrentHops : h.from = r}

\* d edges out of r are still to be explained.
Owes(r, d) ==
    Cardinality(OutEdges(r)) = Cardinality(HopsFrom(r)) + Refused(expl.records, r) + d

\* The edges of the last settled resource that are counted but not recorded, or not
\* considered.
Due(r) ==
    IF settled # <<>> /\ r = Current.node THEN Total(expl.pending) + Cardinality(todo) ELSE 0

\* The explanation of a traversal on its way.
Accounts ==
    /\ settled = <<>> => phase = "settle" /\ queue # {} /\ expl.pending = NoRefusals
    /\ settled # <<>> => expl.pending = NoRefusals \/ expl.from = Current.node
    /\ settled # <<>> => \A h \in CurrentHops : h.from = Current.node => h.edge \notin todo
    /\ phase = "settle" => todo = {}
    /\ \A r : IsSettled(r) => Owes(r, Due(r))
    /\ \A r : ~IsSettled(r) => HopsFrom(r) = {} /\ Refused(expl.records, r) = 0

Reaches(r) == r = signal.origin \/ IsSettled(r)

\* EveryEdgeExplained is about a traversal that has ended; the invariant says what holds
\* on the way there.
ExplInv ==
    \/ truncated
    \/ /\ (phase = "signal" /\ hops # <<>>) => \A r : Reaches(r) => Owes(r, 0)
       /\ Traversing => Accounts

LEMMA RefusalIsAReason ==
    ASSUME NEW i, Failing(i) # {}
    PROVE  Refusal(i) \in Reasons
<1>1. DOMAIN Checks(i) = 1..15
  BY DEF Checks
<1>2. Failing(i) \subseteq Nat /\ Failing(i) \subseteq 1..15
  BY <1>1 DEF Failing
<1>3. Min(Failing(i)) \in 1..15
  BY <1>2, MinIn
<1>4. \A k \in 1..15 : Checks(i)[k][2] \in Reasons
  <2>1. /\ Checks(i)[1][2] = "MaxFanout" /\ Checks(i)[2][2] = "ExpansionBudgetExhausted"
        /\ Checks(i)[3][2] = "StaleDependencyGeneration"
        /\ Checks(i)[4][2] = "ZeroAttenuation" /\ Checks(i)[5][2] = "RecoveryOnlyEdge"
        /\ Checks(i)[6][2] = "SealedResource" /\ Checks(i)[7][2] = "ObservedOnlyResource"
        /\ Checks(i)[8][2] = "NodeAlreadySettled" /\ Checks(i)[9][2] = "UnauthorizedScope"
        /\ Checks(i)[10][2] = "Fenced" /\ Checks(i)[11][2] = "MaxHops"
        /\ Checks(i)[12][2] = "AmplificationNotAuthorized"
        /\ Checks(i)[13][2] = "AmplificationBudgetExhausted"
        /\ Checks(i)[14][2] = "BelowFloor" /\ Checks(i)[15][2] = "HysteresisNotExceeded"
    BY DEF Checks
  <2>2. /\ Checks(i)[1][2] \in Reasons /\ Checks(i)[2][2] \in Reasons
        /\ Checks(i)[3][2] \in Reasons /\ Checks(i)[4][2] \in Reasons
        /\ Checks(i)[5][2] \in Reasons /\ Checks(i)[6][2] \in Reasons
        /\ Checks(i)[7][2] \in Reasons /\ Checks(i)[8][2] \in Reasons
        /\ Checks(i)[9][2] \in Reasons /\ Checks(i)[10][2] \in Reasons
        /\ Checks(i)[11][2] \in Reasons /\ Checks(i)[12][2] \in Reasons
        /\ Checks(i)[13][2] \in Reasons /\ Checks(i)[14][2] \in Reasons
        /\ Checks(i)[15][2] \in Reasons
    BY <2>1, ReasonsHave
  <2> QED
    BY <2>2
<1> QED
  BY <1>3, <1>4, Zenon DEF Refusal

LEMMA EgressRefusalIsAReason ==
    ASSUME NEW e, EgressRefusal(e) # "None"
    PROVE  EgressRefusal(e) \in Reasons
<1>1. EgressRefusal(e) \in {"MaxHops", "ProtectedBoundary", "Fenced"}
  BY Zenon DEF EgressRefusal
<1> QED
  BY <1>1, ReasonsHave

LEMMA RecordBudgetType ==
    ASSUME TravTypes
    PROVE  RecordBudget \in Nat
<1>1. request.budget \in Nat /\ policy.maxRecords \in Nat
  BY DEF TravTypes, RequestForms, PolicyForms, Bound
<1> QED
  BY <1>1 DEF RecordBudget, Least

LEMMA NewExplanationFacts ==
    ASSUME TravTypes
    PROVE  /\ NewExplanation \in Explanation /\ NewExplanation.pending = NoRefusals
           /\ NewExplanation.records = <<>> /\ NewExplanation.from = Nowhere
<1>1. <<>> \in Seq(RefusalRecord)
  OBVIOUS
<1> QED
  BY <1>1, RecordBudgetType, TotalNone DEF NewExplanation, Explanation

LEMMA OutEdgesFinite ==
    ASSUME TravTypes, NEW r
    PROVE  IsFiniteSet(OutEdges(r)) /\ Cardinality(OutEdges(r)) \in Nat
<1>1. topology.edges \in Seq(Edge)
  BY DEF TravTypes, Topology
<1>2. PICK n \in Nat : EdgeIds = 1..n
  BY <1>1 DEF EdgeIds
<1>3. IsFiniteSet(EdgeIds)
  BY <1>2, FS_Interval
<1>4. OutEdges(r) \in SUBSET EdgeIds
  BY DEF OutEdges
<1>5. IsFiniteSet(OutEdges(r))
  BY <1>3, <1>4, FS_Subset
<1> QED
  BY <1>5, FS_CardinalityType

\* The refusal of everything out of a signal's origin.
Blocked(origin) ==
    CASE RefusesIngress(origin) -> "Fenced"
      [] topology.class[origin] = "Sealed" -> "SealedResource"
      [] OTHER -> "ObservedOnlyResource"

BlockedExplanation(origin) ==
    Rejected(NewExplanation, origin, Blocked(origin), Cardinality(OutEdges(origin)))

LEMMA BlockedType ==
    ASSUME NEW origin
    PROVE  Blocked(origin) \in Reasons
<1>1. Blocked(origin) \in {"Fenced", "SealedResource", "ObservedOnlyResource"}
  <2>1. CASE RefusesIngress(origin)
    BY <2>1 DEF Blocked
  <2>2. CASE ~RefusesIngress(origin)
    BY <2>2 DEF Blocked
  <2> QED
    BY <2>1, <2>2
<1> QED
  BY <1>1, ReasonsHave

\* What settling e does to the explanation, if nothing may leave its resource.
EgressExplanation(e) ==
    Rejected(Flushed(expl), e.node, EgressRefusal(e), Cardinality(OutEdges(e.node)))

\* What a step does to the explanation of refused edges.
BeginsBlocked ==
    /\ ~Traversing' /\ signal'.origin \in Resources /\ settled' = <<>>
    /\ expl' = Flushed(BlockedExplanation(signal'.origin))
    /\ truncated' = (truncated \/ ~Fits(BlockedExplanation(signal'.origin)))

BeginsOpen ==
    /\ phase' = "settle" /\ settled' = <<>> /\ todo' = {} /\ queue' # {}
    /\ expl' = NewExplanation

LEMMA BeginExplanation ==
    ASSUME TravTypes, BeginSignal
    PROVE  BeginsBlocked \/ BeginsOpen
<1>1. signal'.origin \in Resources /\ settled' = <<>> /\ todo' = {}
  BY DEF BeginSignal
<1>2. CASE RefusesIngress(signal'.origin) \/ ~CanReceive(signal'.origin)
  <2>1. /\ phase' = "signal"
        /\ expl' = Flushed(BlockedExplanation(signal'.origin))
        /\ truncated' = (truncated \/ ~Fits(BlockedExplanation(signal'.origin)))
    BY <1>2, Zenon DEF BeginSignal, BlockedExplanation, Blocked
  <2> QED
    BY <1>1, <2>1 DEF BeginsBlocked, Traversing
<1>3. CASE ~(RefusesIngress(signal'.origin) \/ ~CanReceive(signal'.origin))
  <2>1. phase' = "settle" /\ expl' = NewExplanation
    BY <1>3, Zenon DEF BeginSignal
  <2>2. queue' # {}
    <3>1. PICK x : queue' = {x}
      BY <1>3, Zenon DEF BeginSignal
    <3> QED
      BY <3>1
  <2> QED
    BY <1>1, <2>1, <2>2, Zenon DEF BeginsOpen
<1> QED
  BY <1>2, <1>3

LEMMA BlockedFacts ==
    ASSUME TravTypes, NEW origin \in Resources
    PROVE  /\ BlockedExplanation(origin) \in Explanation
           /\ BlockedExplanation(origin).from = origin
           /\ BlockedExplanation(origin).records = <<>>
           /\ Total(BlockedExplanation(origin).pending) = Cardinality(OutEdges(origin))
<1>1. /\ NewExplanation \in Explanation /\ NewExplanation.pending = NoRefusals
      /\ NewExplanation.records = <<>>
  BY NewExplanationFacts
<1>2. PICK x \in Explanation : x = NewExplanation
  BY <1>1
<1>3. PICK n \in Nat : n = Cardinality(OutEdges(origin))
  BY OutEdgesFinite
<1>4. PICK reason \in Reasons : reason = Blocked(origin)
  BY BlockedType
<1>5. PICK y : y = Rejected(x, origin, reason, n)
  OBVIOUS
<1>6. y = BlockedExplanation(origin)
  BY <1>2, <1>3, <1>4, <1>5, Zenon DEF BlockedExplanation
<1>7. y \in Explanation /\ y.from = origin /\ y.records = x.records
      /\ Total(y.pending) = Total(x.pending) + n
  BY <1>5, RejectedFacts, ZenonT(60)
<1>8. Total(x.pending) = 0
  BY <1>1, <1>2, TotalNone
<1>9. Total(y.pending) = n
  BY <1>7, <1>8
<1> QED
  BY <1>1, <1>2, <1>3, <1>6, <1>7, <1>9, Zenon

LEMMA EgressFacts ==
    ASSUME TravTypes, expl \in Explanation, NEW e \in Entry, EgressRefusal(e) # "None"
    PROVE  /\ EgressExplanation(e) \in Explanation
           /\ EgressExplanation(e).from = e.node
           /\ EgressExplanation(e).records = Flushed(expl).records
           /\ Total(EgressExplanation(e).pending) = Cardinality(OutEdges(e.node))
<1>1. PICK x : x = Flushed(expl)
  OBVIOUS
<1>2. x \in Explanation /\ x.pending = NoRefusals
  BY <1>1, FlushedFacts, Zenon
<1>3. PICK n \in Nat : n = Cardinality(OutEdges(e.node))
  BY OutEdgesFinite
<1>4. PICK reason \in Reasons : reason = EgressRefusal(e)
  BY EgressRefusalIsAReason
<1>5. PICK y, node : y = Rejected(x, node, reason, n) /\ node = e.node
  OBVIOUS
<1>6. y = EgressExplanation(e) /\ node \in Resources
  BY <1>1, <1>3, <1>4, <1>5, EntryFields, Zenon DEF EgressExplanation
<1>7. y \in Explanation /\ y.from = node /\ y.records = x.records
      /\ Total(y.pending) = Total(x.pending) + n
  BY <1>2, <1>5, <1>6, RejectedFacts
<1>8. Total(x.pending) = 0
  BY <1>2, TotalNone
<1>9. Total(y.pending) = n
  BY <1>7, <1>8
<1> QED
  BY <1>1, <1>3, <1>5, <1>6, <1>7, <1>9, Zenon

LEMMA RefuseFacts ==
    ASSUME TravTypes, expl \in Explanation, RefuseEdge
    PROVE  /\ expl' \in Explanation /\ expl'.from = Current.node /\ expl'.records = expl.records
           /\ Total(expl'.pending) = Total(expl.pending) + 1
<1>1. phase = "edges" /\ Failing(NextEdge) # {}
      /\ expl' = Rejected(expl, Current.node, Refusal(NextEdge), 1)
  BY DEF RefuseEdge
<1>2. PICK reason \in Reasons : reason = Refusal(NextEdge)
  BY <1>1, RefusalIsAReason
<1>3. PICK node \in Resources : node = Current.node
  BY <1>1, CurrentIn, EntryFields
<1>4. PICK x, y : x = expl /\ y = expl'
  OBVIOUS
<1>5. x \in Explanation /\ y = Rejected(x, node, reason, 1)
  BY <1>1, <1>2, <1>3, <1>4, Zenon
<1>6. y \in Explanation /\ y.from = node /\ y.records = x.records
      /\ Total(y.pending) = Total(x.pending) + 1
  BY <1>5, RejectedFacts
<1> QED
  BY <1>3, <1>4, <1>6, Zenon

LEMMA ForwardExplanation ==
    ASSUME expl \in Explanation, Forward
    PROVE  /\ expl' \in Explanation /\ expl'.from = expl.from /\ expl'.records = expl.records
           /\ expl'.pending = expl.pending
<1>1. expl' = [expl EXCEPT !.budget = @ - 1] /\ expl.budget > 0
  BY DEF Forward
<1>2. expl.budget \in Nat
  BY ExplanationFields
<1>3. expl' = [budget |-> expl.budget - 1, from |-> expl.from, pending |-> expl.pending,
               records |-> expl.records]
  BY <1>1 DEF Explanation
<1>4. expl.budget - 1 \in Nat
  BY <1>1, <1>2
<1>5. [budget |-> expl.budget - 1, from |-> expl.from, pending |-> expl.pending,
       records |-> expl.records] \in Explanation
  BY <1>4, ExplanationFields DEF Explanation
<1>6. /\ expl'.from = expl.from /\ expl'.records = expl.records
      /\ expl'.pending = expl.pending
  BY <1>3
<1> QED
  BY <1>3, <1>5, <1>6, Zenon

LEMMA ExplTypesStep ==
    ASSUME TravTypes, expl \in Explanation, [Next]_vars
    PROVE  expl' \in Explanation
<1>1. Flushed(expl) \in Explanation
  BY FlushedFacts
<1>2. ASSUME BeginSignal PROVE expl' \in Explanation
  <2>1. CASE BeginsBlocked
    <3>1. PICK o \in Resources : o = signal'.origin
      BY <2>1 DEF BeginsBlocked
    <3>2. BlockedExplanation(o) \in Explanation
      BY BlockedFacts
    <3>3. Flushed(BlockedExplanation(o)) \in Explanation
      BY <3>2, FlushedFacts
    <3> QED
      BY <2>1, <3>1, <3>3, Zenon DEF BeginsBlocked
  <2>2. CASE BeginsOpen
    BY <2>2, NewExplanationFacts, Zenon DEF BeginsOpen
  <2> QED
    BY <1>2, <2>1, <2>2, BeginExplanation
<1>3. ASSUME NEW e \in Top, Settle(e) PROVE expl' \in Explanation
  <2>1. e \in Entry
    BY DEF Top, TravTypes
  <2>2. CASE EgressRefusal(e) = "None"
    BY <1>1, <1>3, <2>2, Zenon DEF Settle
  <2>3. CASE EgressRefusal(e) # "None"
    <3>1. expl' = Flushed(EgressExplanation(e))
      BY <1>3, <2>3, Zenon DEF Settle, EgressExplanation
    <3>2. PICK y \in Explanation : y = EgressExplanation(e)
      BY <2>1, <2>3, EgressFacts
    <3> QED
      BY <3>1, <3>2, FlushedFacts, Zenon
  <2> QED
    BY <2>2, <2>3
<1>4. ASSUME RefuseEdge PROVE expl' \in Explanation
  BY <1>4, RefuseFacts
<1>5. ASSUME Forward PROVE expl' \in Explanation
  BY <1>5, ForwardExplanation
<1>6. ASSUME \/ UNCHANGED vars \/ RejectSignal \/ Commit \/ LeaveNode
             \/ StopTraversal \/ TruncateHop
             \/ \E e \in Top : SettleUnexplained(e)
             \/ \E e \in Top : DropEntry(e)
             \/ \E q \in Requests : Propagate(q)
             \/ \E q \in Recoveries : Recover(q)
      PROVE  expl' \in Explanation
  <2>1. expl' = expl \/ expl' = Flushed(expl)
    BY <1>6, Zenon DEF vars, RejectSignal, Commit, LeaveNode, EndTraversal, StopTraversal,
       TruncateHop, SettleUnexplained, DropEntry, Propagate, Recover, traversalVars
  <2> QED
    BY <1>1, <2>1, Zenon
<1> QED
  BY <1>2, <1>3, <1>4, <1>5, <1>6, Zenon DEF Next, Traverse

LEMMA ExplTypesAlways == Spec => [](TravTypes /\ expl \in Explanation)
<1>1. Init => expl \in Explanation
  <2>1. <<>> \in Seq(RefusalRecord)
    OBVIOUS
  <2> QED
    BY <2>1, TotalNone DEF Init, Explanation
<1>2. TravTypes /\ expl \in Explanation /\ [Next]_vars => (expl \in Explanation)'
  BY ExplTypesStep
<1> QED
  BY <1>1, <1>2, TravTypesInit, TravTypesStep, PTL DEF Spec

LEMMA HopsFromFinite ==
    ASSUME TravTypes, NEW r
    PROVE  IsFiniteSet(HopsFrom(r)) /\ Cardinality(HopsFrom(r)) \in Nat
<1>1. IsFiniteSet(CurrentHops)
  <2>1. CASE hops = <<>>
    BY <2>1, FS_EmptySet DEF CurrentHops
  <2>2. CASE hops # <<>>
    <3>1. hops[Len(hops)] \in Seq(Hop)
      BY <2>2 DEF TravTypes
    <3>2. PICK s, n : s = hops[Len(hops)] /\ n = Len(s)
      OBVIOUS
    <3>3. n \in Nat /\ DOMAIN s = 1..n /\ s \in [1..n -> Range(s)]
      BY <3>1, <3>2 DEF Range
    <3>4. s \in Surjection(1..n, Range(s))
      BY <3>3, Zenon DEF Surjection, Range
    <3>5. IsFiniteSet(1..n)
      BY <3>3, FS_Interval
    <3>6. IsFiniteSet(Range(s))
      BY <3>4, <3>5, FS_Surjection
    <3> QED
      BY <2>2, <3>2, <3>6, Zenon DEF CurrentHops
  <2> QED
    BY <2>1, <2>2
<1>2. HopsFrom(r) \in SUBSET CurrentHops
  BY DEF HopsFrom
<1>3. IsFiniteSet(HopsFrom(r))
  BY <1>1, <1>2, FS_Subset
<1> QED
  BY <1>3, FS_CardinalityType

LEMMA TodoFinite ==
    ASSUME TravTypes
    PROVE  IsFiniteSet(todo) /\ Cardinality(todo) \in Nat
<1>1. topology.edges \in Seq(Edge)
  BY DEF TravTypes, Topology
<1>2. PICK n \in Nat : EdgeIds = 1..n
  BY <1>1 DEF EdgeIds
<1>3. IsFiniteSet(1..n) /\ todo \in SUBSET (1..n)
  BY <1>2, FS_Interval DEF TravTypes
<1>4. IsFiniteSet(todo)
  BY <1>3, FS_Subset
<1> QED
  BY <1>4, FS_CardinalityType

LEMMA CurrentSettled ==
    ASSUME TravTypes, settled # <<>>
    PROVE  IsSettled(Current.node)
<1>1. Len(settled) \in DOMAIN settled
  BY DEF TravTypes
<1> QED
  BY <1>1, Zenon DEF IsSettled, Current

LEMMA DueType ==
    ASSUME TravTypes, expl \in Explanation, NEW r
    PROVE  Due(r) \in Nat
<1>1. Cardinality(todo) \in Nat /\ Total(expl.pending) \in Nat
  BY TodoFinite, ExplanationFields
<1>2. Total(expl.pending) + Cardinality(todo) \in Nat
  BY <1>1
<1> QED
  BY <1>2 DEF Due

\* Recording what is due of an edge leaves that much less to explain.
LEMMA OwesPaid ==
    ASSUME TravTypes, expl \in Explanation, NEW r, NEW d \in Nat, NEW m \in Nat, NEW n \in Nat,
           UNCHANGED topology, HopsFrom(r)' = HopsFrom(r), Owes(r, d),
           Refused(expl'.records, r) = Refused(expl.records, r) + m, d = m + n
    PROVE  Cardinality(OutEdges(r)') = Cardinality(HopsFrom(r)') + Refused(expl'.records, r) + n
<1>1. OutEdges(r)' = OutEdges(r)
  BY DEF OutEdges, EdgeIds
<1>2. PICK a, b, c, e : /\ a = Cardinality(OutEdges(r)) /\ b = Cardinality(HopsFrom(r))
                        /\ c = Refused(expl.records, r) /\ e = Refused(expl'.records, r)
  OBVIOUS
<1>3. a \in Nat /\ b \in Nat /\ c \in Nat
  BY <1>2, OutEdgesFinite, HopsFromFinite, ExplanationFields
<1>4. a = b + c + d /\ e = c + m
  BY <1>2, Zenon DEF Owes
<1>5. a = b + e + n
  BY <1>3, <1>4
<1> QED
  BY <1>1, <1>2, <1>5, Zenon

\* Leaving the last settled resource records everything that is due of its edges.
LEMMA LeavingPays ==
    ASSUME TravTypes, expl \in Explanation, Accounts, todo = {}, Fits(expl)
    PROVE  /\ \A r : Refused(Flushed(expl).records, r) = Refused(expl.records, r) + Due(r)
           /\ \A r : ~IsSettled(r) => Refused(Flushed(expl).records, r) = 0
<1>1. PICK x, y, t : x = expl /\ y = Flushed(x) /\ t = Total(x.pending)
  OBVIOUS
<1>2. x \in Explanation /\ t \in Nat /\ \A r : Refused(x.records, r) \in Nat
  BY <1>1, ExplanationFields
<1>3. /\ \A r : r # x.from => Refused(y.records, r) = Refused(x.records, r)
      /\ Refused(y.records, x.from) = Refused(x.records, x.from) + t
  BY <1>1, <1>2, FlushedFacts, Zenon
<1>4. \A r : Due(r) = IF settled # <<>> /\ r = Current.node THEN t + 0 ELSE 0
  BY <1>1, FS_EmptySet, Zenon DEF Due
<1>5. t + 0 = t /\ \A r : Refused(x.records, r) + 0 = Refused(x.records, r)
  BY <1>2
<1>6. CASE x.pending = NoRefusals
  <2>1. t = 0
    BY <1>1, <1>6, TotalNone, Zenon
  <2>2. \A r : Refused(y.records, r) = Refused(x.records, r)
    BY <1>3, <1>5, <2>1, Zenon
  <2>3. \A r : Due(r) = 0
    BY <1>4, <1>5, <2>1, Zenon
  <2>4. \A r : ~IsSettled(r) => Refused(x.records, r) = 0
    BY <1>1, Zenon DEF Accounts
  <2> QED
    BY <1>1, <1>5, <2>2, <2>3, <2>4, Zenon
<1>7. CASE settled # <<>> /\ x.from = Current.node
  <2>1. \A r : Refused(y.records, r) = Refused(x.records, r) + Due(r)
    BY <1>3, <1>4, <1>5, <1>7, Zenon
  <2>2. \A r : ~IsSettled(r) => Refused(x.records, r) = 0 /\ r # Current.node
    BY <1>1, <1>7, CurrentSettled, Zenon DEF Accounts
  <2>3. \A r : ~IsSettled(r) => Refused(y.records, r) = 0
    BY <1>3, <1>7, <2>2, Zenon
  <2> QED
    BY <1>1, <2>1, <2>3, Zenon
<1> QED
  BY <1>1, <1>6, <1>7, Zenon DEF Accounts

\* The end of a traversal.
LEMMA EndAccounts ==
    ASSUME TravTypes, expl \in Explanation, PathInv, Accounts, Traversing, settled # <<>>,
           todo = {}, EndTraversal, ~truncated', UNCHANGED <<topology, hops, signal, settled>>
    PROVE  \A r : Reaches(r)' => Owes(r, 0)'
<1>1. Fits(expl) /\ expl' = Flushed(expl)
  BY DEF EndTraversal
<1>2. IsSettled(signal.origin)
  <2>1. 1 \in DOMAIN settled /\ 1 - 1 = 0
    BY DEF TravTypes
  <2>2. IsOrigin(settled[1]) \/ ByHop(settled[1], 0)
    BY <2>1, Zenon DEF PathInv
  <2>3. 1..0 = {}
    OBVIOUS
  <2>4. ~ByHop(settled[1], 0)
    BY <2>3, Zenon DEF ByHop
  <2> QED
    BY <2>1, <2>2, <2>4, Zenon DEF IsOrigin, IsSettled
<1>3. ASSUME NEW r, Reaches(r)'
      PROVE  Owes(r, 0)'
  <2>1. IsSettled(r)
    BY <1>2, <1>3, Zenon DEF Reaches, IsSettled
  <2>2. PICK d \in Nat : d = Due(r)
    BY DueType
  <2>3. Owes(r, d)
    BY <2>1, <2>2, Zenon DEF Accounts
  <2>4. HopsFrom(r)' = HopsFrom(r)
    BY DEF HopsFrom, CurrentHops
  <2>5. Refused(expl'.records, r) = Refused(expl.records, r) + d
    BY <1>1, <2>2, LeavingPays
  <2>6. d = d + 0 /\ 0 \in Nat
    OBVIOUS
  <2>7. Cardinality(OutEdges(r)') = Cardinality(HopsFrom(r)') + Refused(expl'.records, r) + 0
    BY <2>3, <2>4, <2>5, <2>6, OwesPaid
  <2> QED
    BY <2>7, Zenon DEF Owes
<1> QED
  BY <1>3

\* What settling e leaves of the explanation: everything before e is explained, and the
\* edges out of e are refused, or are still to be considered.
Explains(e) ==
    /\ expl'.pending = NoRefusals
    /\ phase' = "settle" => todo' = {}
    /\ Cardinality(todo') \in Nat
    /\ Refused(expl'.records, e.node) + Cardinality(todo') = Cardinality(OutEdges(e.node))
    /\ \A r : r # e.node => Refused(expl'.records, r) = Refused(Flushed(expl).records, r)

LEMMA SettleExplains ==
    ASSUME TravTypes, expl \in Explanation, Accounts, NEW e \in Entry, Settle(e), ~truncated'
    PROVE  Explains(e)
<1>1. ~IsSettled(e.node) /\ Fits(expl) /\ todo = {}
  BY DEF Settle, Accounts
<1>2. Refused(Flushed(expl).records, e.node) = 0
  BY <1>1, LeavingPays
<1>3. PICK n \in Nat : n = Cardinality(OutEdges(e.node))
  BY OutEdgesFinite
<1>4. CASE EgressRefusal(e) = "None"
  <2>1. phase' = "edges" /\ todo' = OutEdges(e.node) /\ expl' = Flushed(expl)
    BY <1>4, Zenon DEF Settle
  <2>2. expl'.pending = NoRefusals
    BY <2>1, FlushedFacts, Zenon
  <2>3. 0 + n = n
    OBVIOUS
  <2>4. phase' # "settle"
    BY <2>1
  <2>5. Refused(expl'.records, e.node) + Cardinality(todo') = 0 + n
    BY <1>2, <1>3, <2>1, Zenon
  <2> QED
    BY <1>3, <2>1, <2>2, <2>3, <2>4, <2>5, Zenon DEF Explains
<1>5. CASE EgressRefusal(e) # "None"
  <2>1. PICK x : x = EgressExplanation(e)
    OBVIOUS
  <2>2. todo' = {} /\ expl' = Flushed(x) /\ Fits(x)
    BY <1>5, <2>1, Zenon DEF Settle, EgressExplanation
  <2>3. /\ x \in Explanation /\ x.from = e.node /\ x.records = Flushed(expl).records
        /\ Total(x.pending) = n
    BY <1>3, <1>5, <2>1, EgressFacts, Zenon
  <2>4. /\ Flushed(x).pending = NoRefusals
        /\ \A r : r # x.from => Refused(Flushed(x).records, r) = Refused(x.records, r)
        /\ Refused(Flushed(x).records, x.from) = Refused(x.records, x.from) + Total(x.pending)
    BY <2>2, <2>3, FlushedFacts, Zenon
  <2>5. Refused(expl'.records, e.node) = 0 + n
    BY <1>2, <2>2, <2>3, <2>4, Zenon
  <2>6. Cardinality(todo') = 0
    BY <2>2, FS_EmptySet, Zenon
  <2>7. /\ Refused(expl'.records, e.node) + Cardinality(todo') = n
        /\ Cardinality(todo') \in Nat
    BY <2>5, <2>6
  <2> QED
    BY <1>3, <2>2, <2>3, <2>4, <2>7, Zenon DEF Explains
<1> QED
  BY <1>4, <1>5

LEMMA SettleAccounts ==
    ASSUME TravTypes, TravTypes', expl \in Explanation, expl' \in Explanation,
           Accounts, NEW e \in Entry, Settle(e), ~truncated'
    PROVE  Accounts'
<1>1. /\ ~IsSettled(e.node) /\ Fits(expl) /\ todo = {} /\ settled' = Append(settled, e)
      /\ UNCHANGED <<topology, hops>>
  BY DEF Settle, Accounts, context
<1>2. Explains(e)
  BY SettleExplains
<1>3. settled' # <<>> /\ Current' = e
  <2>1. settled \in Seq(Entry)
    BY DEF TravTypes
  <2>2. settled' # <<>> /\ settled'[Len(settled')] = e
    BY <1>1, <2>1
  <2> QED
    BY <2>2, Zenon DEF Current
<1>4. \A r : IsSettled(r)' <=> IsSettled(r) \/ r = e.node
  <2>1. PICK n : n = Len(settled) + 1
    OBVIOUS
  <2>2. /\ DOMAIN settled' = DOMAIN settled \cup {n} /\ n \notin DOMAIN settled
        /\ \A k \in DOMAIN settled : settled'[k] = settled[k]
        /\ settled'[n] = e
    BY <1>1, <2>1, SettledAfter
  <2>3. \A k : k \in DOMAIN settled' <=> k \in DOMAIN settled \/ k = n
    BY <2>2
  <2> QED
    BY <2>2, <2>3, Zenon DEF IsSettled
<1>5. \A r : HopsFrom(r)' = HopsFrom(r) /\ OutEdges(r)' = OutEdges(r)
  BY <1>1, Zenon DEF HopsFrom, CurrentHops, OutEdges, EdgeIds
<1>6. \A r : ~IsSettled(r) => HopsFrom(r) = {} /\ Refused(Flushed(expl).records, r) = 0
  BY <1>1, LeavingPays, Zenon DEF Accounts
<1>7. ASSUME NEW h \in CurrentHops', h.from = Current'.node
      PROVE  h.edge \notin todo'
  <2>1. h \in HopsFrom(e.node)
    BY <1>1, <1>3, <1>7, Zenon DEF HopsFrom, CurrentHops
  <2> QED
    BY <1>1, <1>6, <2>1, Zenon
<1>8. Due(e.node)' = Cardinality(todo')
  <2>1. Total(expl'.pending) = 0
    BY <1>2, TotalNone, Zenon DEF Explains
  <2>2. Due(e.node)' = 0 + Cardinality(todo')
    BY <1>3, <2>1, Zenon DEF Due
  <2>3. Cardinality(todo') \in Nat
    BY <1>2 DEF Explains
  <2> QED
    BY <2>2, <2>3
<1>9. Owes(e.node, Due(e.node))'
  <2>1. PICK a, b, c, d : /\ a = Cardinality(OutEdges(e.node)) /\ b = Cardinality(HopsFrom(e.node))
                          /\ c = Refused(expl'.records, e.node) /\ d = Cardinality(todo')
    OBVIOUS
  <2>2. b = 0
    BY <1>1, <1>6, <2>1, FS_EmptySet, Zenon
  <2>3. c \in Nat /\ d \in Nat
    BY <1>2, <2>1, ExplanationFields DEF Explains
  <2>4. c + d = a
    BY <1>2, <2>1, Zenon DEF Explains
  <2>5. a = b + c + d
    BY <2>2, <2>3, <2>4
  <2> QED
    BY <1>5, <1>8, <2>1, <2>5, Zenon DEF Owes
<1>10. ASSUME NEW r, IsSettled(r)
       PROVE  Owes(r, Due(r))'
  <2>1. r # e.node
    BY <1>1, <1>10, Zenon
  <2>2. Due(r)' = 0
    BY <1>3, <2>1, Zenon DEF Due
  <2>3. PICK d \in Nat : d = Due(r)
    BY DueType
  <2>4. Owes(r, d)
    BY <1>10, <2>3, Zenon DEF Accounts
  <2>5. Refused(expl'.records, r) = Refused(expl.records, r) + d
    BY <1>1, <1>2, <2>1, <2>3, LeavingPays, Zenon DEF Explains
  <2>6. d = d + 0 /\ 0 \in Nat
    OBVIOUS
  <2>7. Cardinality(OutEdges(r)') = Cardinality(HopsFrom(r)') + Refused(expl'.records, r) + 0
    BY <1>1, <1>5, <2>4, <2>5, <2>6, OwesPaid
  <2> QED
    BY <2>2, <2>7, Zenon DEF Owes
<1>11. ASSUME NEW r, ~IsSettled(r)'
       PROVE  HopsFrom(r)' = {} /\ Refused(expl'.records, r) = 0
  BY <1>2, <1>4, <1>5, <1>6, <1>11, Zenon DEF Explains
<1>12. \A r : IsSettled(r)' => Owes(r, Due(r))'
  BY <1>4, <1>9, <1>10, Zenon
<1> QED
  BY <1>2, <1>3, <1>7, <1>11, <1>12, Zenon DEF Accounts, Explains

LEMMA RefuseAccounts ==
    ASSUME TravTypes, expl \in Explanation, Accounts, RefuseEdge
    PROVE  Accounts'
<1>1. /\ phase = "edges" /\ todo # {} /\ todo' = todo \ {NextEdge}
      /\ UNCHANGED <<topology, hops, settled, phase>>
  BY DEF RefuseEdge, context, requestVars
<1>2. /\ expl' \in Explanation /\ expl'.from = Current.node /\ expl'.records = expl.records
      /\ Total(expl'.pending) = Total(expl.pending) + 1
  BY RefuseFacts
<1>3. settled # <<>> /\ NextEdge \in todo /\ phase' # "settle"
  BY <1>1, NextEdgeIn DEF TravTypes
<1>4. Total(expl'.pending) + Cardinality(todo') = Total(expl.pending) + Cardinality(todo)
  <2>1. PICK t, u, c, d : /\ t = Total(expl.pending) /\ u = Total(expl'.pending)
                          /\ c = Cardinality(todo) /\ d = Cardinality(todo')
    OBVIOUS
  <2>2. t \in Nat /\ c \in Nat /\ IsFiniteSet(todo)
    BY <2>1, TodoFinite, ExplanationFields
  <2>3. d = c - 1
    BY <1>1, <1>3, <2>1, <2>2, FS_RemoveElement
  <2>4. u = t + 1
    BY <1>2, <2>1, Zenon
  <2>5. u + d = t + c
    BY <2>2, <2>3, <2>4
  <2> QED
    BY <2>1, <2>5, Zenon
<1>5. \A r : Due(r)' = Due(r)
  BY <1>1, <1>4, Zenon DEF Due, Current
<1>6. \A r : /\ HopsFrom(r)' = HopsFrom(r) /\ OutEdges(r)' = OutEdges(r)
             /\ (IsSettled(r)' <=> IsSettled(r))
  BY <1>1, Zenon DEF HopsFrom, CurrentHops, OutEdges, EdgeIds, IsSettled
<1>7. Current' = Current /\ CurrentHops' = CurrentHops /\ todo' \subseteq todo
  BY <1>1 DEF Current, CurrentHops
<1>8. \A r : IsSettled(r)' => Owes(r, Due(r))'
  BY <1>2, <1>5, <1>6, Zenon DEF Owes, Accounts
<1>9. \A r : ~IsSettled(r)' => HopsFrom(r)' = {} /\ Refused(expl'.records, r) = 0
  BY <1>2, <1>6, Zenon DEF Accounts
<1>10. \A h \in CurrentHops' : h.from = Current'.node => h.edge \notin todo'
  <2>1. \A h \in CurrentHops : h.from = Current.node => h.edge \notin todo
    BY <1>3, Zenon DEF Accounts
  <2> QED
    BY <1>7, <2>1, Zenon
<1> QED
  BY <1>1, <1>2, <1>3, <1>7, <1>8, <1>9, <1>10, Zenon DEF Accounts

LEMMA ForwardAccounts ==
    ASSUME TravTypes, expl \in Explanation, Accounts, Forward
    PROVE  Accounts'
<1>1. /\ phase = "edges" /\ todo # {} /\ todo' = todo \ {NextEdge}
      /\ UNCHANGED <<topology, settled, phase>>
  BY DEF Forward, context
<1>2. /\ expl' \in Explanation /\ expl'.from = expl.from /\ expl'.records = expl.records
      /\ expl'.pending = expl.pending
  BY ForwardExplanation
<1>3. settled # <<>> /\ NextEdge \in todo /\ phase' # "settle"
  BY <1>1, NextEdgeIn DEF TravTypes
<1>4. PICK hop : hop = NewHop
  OBVIOUS
<1>5. hop.from = Current.node /\ hop.edge = NextEdge
  BY <1>4 DEF NewHop
<1>6. CurrentHops' = CurrentHops \cup {hop}
  BY <1>4, ForwardAdds
<1>7. \A h \in CurrentHops : h.from = Current.node => h.edge \notin todo
  BY <1>3, Zenon DEF Accounts
<1>8. \A r : /\ OutEdges(r)' = OutEdges(r) /\ (IsSettled(r)' <=> IsSettled(r))
             /\ Current' = Current
  BY <1>1, Zenon DEF OutEdges, EdgeIds, IsSettled, Current
<1>9. \A r : r # Current.node => HopsFrom(r)' = HopsFrom(r)
  <2>1. ASSUME NEW r, r # Current.node
        PROVE  HopsFrom(r)' = HopsFrom(r)
    BY <1>5, <1>6, <2>1 DEF HopsFrom
  <2> QED
    BY <2>1
<1>10. ASSUME NEW r, r = Current.node
       PROVE  Cardinality(HopsFrom(r)') = Cardinality(HopsFrom(r)) + 1
  <2>1. PICK H : H = HopsFrom(r)
    OBVIOUS
  <2>2. HopsFrom(r)' = H \cup {hop}
    BY <1>5, <1>6, <1>10, <2>1 DEF HopsFrom
  <2>3. hop \notin H
    BY <1>3, <1>5, <1>7, <1>10, <2>1 DEF HopsFrom
  <2>4. IsFiniteSet(H)
    BY <2>1, HopsFromFinite
  <2>5. Cardinality(H \cup {hop}) = Cardinality(H) + 1
    BY <2>3, <2>4, FS_AddElement
  <2> QED
    BY <2>1, <2>2, <2>5, Zenon
<1>11. ASSUME NEW r, IsSettled(r)'
       PROVE  Owes(r, Due(r))'
  <2>1. Owes(r, Due(r))
    BY <1>8, <1>11, Zenon DEF Accounts
  <2>2. CASE r # Current.node
    <3>1. Due(r)' = 0 /\ Due(r) = 0
      BY <1>8, <2>2, Zenon DEF Due
    <3> QED
      BY <1>2, <1>8, <1>9, <2>1, <2>2, <3>1, Zenon DEF Owes
  <2>3. CASE r = Current.node
    <3>1. PICK a, b, c, t, n, m : /\ a = Cardinality(OutEdges(r)) /\ b = Cardinality(HopsFrom(r))
                                  /\ c = Refused(expl.records, r) /\ t = Total(expl.pending)
                                  /\ n = Cardinality(todo) /\ m = Cardinality(todo')
      OBVIOUS
    <3>2. a \in Nat /\ b \in Nat /\ c \in Nat /\ t \in Nat /\ n \in Nat /\ IsFiniteSet(todo)
      BY <3>1, OutEdgesFinite, HopsFromFinite, TodoFinite, ExplanationFields
    <3>3. m = n - 1
      BY <1>1, <1>3, <3>1, <3>2, FS_RemoveElement
    <3>4. Due(r) = t + n /\ Due(r)' = t + m
      BY <1>1, <1>2, <1>3, <1>8, <2>3, <3>1, Zenon DEF Due
    <3>5. a = b + c + (t + n)
      BY <2>1, <3>1, <3>4, Zenon DEF Owes
    <3>6. a = (b + 1) + c + (t + m)
      BY <3>2, <3>3, <3>5
    <3>7. Cardinality(HopsFrom(r)') = b + 1
      BY <1>10, <2>3, <3>1, Zenon
    <3> QED
      BY <1>2, <1>8, <3>1, <3>4, <3>6, <3>7, Zenon DEF Owes
  <2> QED
    BY <2>2, <2>3
<1>12. ASSUME NEW r, ~IsSettled(r)'
       PROVE  HopsFrom(r)' = {} /\ Refused(expl'.records, r) = 0
  <2>1. ~IsSettled(r) /\ r # Current.node
    BY <1>3, <1>8, <1>12, CurrentSettled, Zenon
  <2> QED
    BY <1>2, <1>9, <2>1, Zenon DEF Accounts
<1>13. ASSUME NEW h \in CurrentHops', h.from = Current'.node
       PROVE  h.edge \notin todo'
  <2>1. CASE h \in CurrentHops
    <3>1. h.edge \notin todo
      BY <1>7, <1>8, <1>13, <2>1, Zenon
    <3> QED
      BY <1>1, <3>1
  <2>2. CASE h = hop
    BY <1>1, <1>5, <2>2
  <2> QED
    BY <1>6, <1>13, <2>1, <2>2
<1>14. expl'.pending = NoRefusals \/ expl'.from = Current'.node
  BY <1>2, <1>3, <1>8, Zenon DEF Accounts
<1> QED
  BY <1>1, <1>3, <1>11, <1>12, <1>13, <1>14, Zenon DEF Accounts

LEMMA BeginAccounts ==
    ASSUME TravTypes, BeginSignal, ~truncated'
    PROVE  /\ phase' = "signal" => \A r : Reaches(r)' => Owes(r, 0)'
           /\ Traversing' => Accounts'
<1>1. UNCHANGED topology /\ settled' = <<>> /\ CurrentHops' = {}
  <2>1. hops \in Seq(Seq(Hop)) /\ hops' = Append(hops, <<>>)
    BY DEF BeginSignal, TravTypes
  <2>2. hops'[Len(hops')] = <<>>
    BY <2>1
  <2> QED
    BY <2>2 DEF CurrentHops, Range, BeginSignal, context
<1>2. \A r : ~IsSettled(r)' /\ HopsFrom(r)' = {} /\ OutEdges(r)' = OutEdges(r)
  BY <1>1 DEF IsSettled, HopsFrom, OutEdges, EdgeIds
<1>3. CASE BeginsBlocked
  <2>1. PICK o \in Resources : o = signal'.origin
    BY <1>3 DEF BeginsBlocked
  <2>2. PICK x : x = BlockedExplanation(o)
    OBVIOUS
  <2>3. expl' = Flushed(x) /\ Fits(x)
    BY <1>3, <2>1, <2>2, Zenon DEF BeginsBlocked
  <2>4. /\ x \in Explanation /\ x.from = o /\ x.records = <<>>
        /\ Total(x.pending) = Cardinality(OutEdges(o))
    BY <2>2, BlockedFacts
  <2>5. PICK n \in Nat : n = Cardinality(OutEdges(o))
    BY OutEdgesFinite
  <2>6. Refused(Flushed(x).records, o) = Refused(x.records, o) + Total(x.pending)
    BY <2>3, <2>4, FlushedFacts, Zenon
  <2>7. Refused(expl'.records, o) = 0 + n
    BY <2>3, <2>4, <2>5, <2>6, RefusedNone, Zenon
  <2>8. Cardinality(HopsFrom(o)') = 0
    BY <1>2, FS_EmptySet, Zenon
  <2>9. n = 0 + (0 + n) + 0
    OBVIOUS
  <2>10. Owes(o, 0)'
    BY <1>2, <2>5, <2>7, <2>8, <2>9, Zenon DEF Owes
  <2>11. \A r : Reaches(r)' => r = o
    BY <1>2, <2>1, Zenon DEF Reaches
  <2>12. ~Traversing'
    BY <1>3 DEF BeginsBlocked
  <2> QED
    BY <2>10, <2>11, <2>12, Zenon
<1>4. CASE BeginsOpen
  <2>1. /\ phase' = "settle" /\ todo' = {} /\ queue' # {} /\ expl' = NewExplanation
    BY <1>4 DEF BeginsOpen
  <2>2. expl'.pending = NoRefusals /\ expl'.records = <<>>
    BY <2>1, NewExplanationFacts, Zenon
  <2>3. \A r : Refused(expl'.records, r) = 0
    BY <2>2, RefusedNone, Zenon
  <2>4. phase' # "signal"
    BY <2>1
  <2> QED
    BY <1>1, <1>2, <2>1, <2>2, <2>3, <2>4, Zenon DEF Accounts
<1> QED
  BY <1>3, <1>4, BeginExplanation

\* Steps that leave the explanation of the traversal as it is.
LEMMA AccountsKept ==
    ASSUME Accounts, UNCHANGED <<topology, hops, settled, todo, expl>>, settled # <<>>,
           phase' = "settle" => todo = {}
    PROVE  Accounts'
<1>1. \A r : /\ HopsFrom(r)' = HopsFrom(r) /\ OutEdges(r)' = OutEdges(r)
             /\ (IsSettled(r)' <=> IsSettled(r)) /\ Due(r)' = Due(r)
  BY Zenon DEF HopsFrom, CurrentHops, OutEdges, EdgeIds, IsSettled, Due, Current
<1>2. CurrentHops' = CurrentHops /\ Current' = Current
  BY Zenon DEF CurrentHops, Current
<1>3. \A r : IsSettled(r)' => Owes(r, Due(r))'
  BY <1>1, Zenon DEF Accounts, Owes
<1> QED
  BY <1>1, <1>2, <1>3, Zenon DEF Accounts

LEMMA ExplStep ==
    ASSUME TravTypes, TravTypes', expl \in Explanation, expl' \in Explanation, PathInv,
           ExplInv, [Next]_vars
    PROVE  ExplInv'
<1>1. SUFFICES ASSUME ~truncated'
               PROVE  /\ (phase' = "signal" /\ hops' # <<>>) => \A r : Reaches(r)' => Owes(r, 0)'
                      /\ Traversing' => Accounts'
  BY Zenon DEF ExplInv
<1>2. (phase = "settle" /\ ~truncated) => Accounts /\ todo = {}
  BY DEF ExplInv, Traversing, Accounts
<1>3. (phase = "edges" /\ ~truncated) => Accounts /\ settled # <<>>
  BY DEF ExplInv, Traversing, TravTypes
<1>4. ASSUME UNCHANGED vars \/ RejectSignal
      PROVE  /\ (phase' = "signal" /\ hops' # <<>>) => \A r : Reaches(r)' => Owes(r, 0)'
             /\ Traversing' => Accounts'
  <2>1. UNCHANGED <<topology, phase, hops, truncated, signal, queue, settled, todo, expl>>
    BY <1>4 DEF vars, RejectSignal, context, requestVars, traversalVars
  <2>2. ExplInv'
    <3>1. /\ (Traversing' <=> Traversing) /\ CurrentHops' = CurrentHops /\ Current' = Current
          /\ \A r : /\ HopsFrom(r)' = HopsFrom(r) /\ OutEdges(r)' = OutEdges(r)
                    /\ (IsSettled(r)' <=> IsSettled(r)) /\ Due(r)' = Due(r)
                    /\ (Reaches(r)' <=> Reaches(r))
      BY <2>1, Zenon DEF Traversing, HopsFrom, CurrentHops, OutEdges, EdgeIds, IsSettled, Due,
         Current, Reaches
    <3>2. \A r : /\ (Owes(r, 0)' <=> Owes(r, 0)) /\ (Owes(r, Due(r))' <=> Owes(r, Due(r)))
      BY <2>1, <3>1, Zenon DEF Owes
    <3>3. Accounts' <=> Accounts
      BY <2>1, <3>1, <3>2, Zenon DEF Accounts
    <3> QED
      BY <2>1, <3>1, <3>2, <3>3, Zenon DEF ExplInv
  <2> QED
    BY <1>1, <2>2, Zenon DEF ExplInv
<1>5. ASSUME \/ Commit
             \/ \E q \in Requests : Propagate(q)
             \/ \E q \in Recoveries : Recover(q)
      PROVE  /\ (phase' = "signal" /\ hops' # <<>>) => \A r : Reaches(r)' => Owes(r, 0)'
             /\ Traversing' => Accounts'
  <2>1. ~Traversing' /\ ~(phase' = "signal" /\ hops' # <<>>)
    <3>1. CASE Commit
      <4>1. phase' = "idle"
        BY <3>1, Zenon DEF Commit
      <4> QED
        BY <4>1 DEF Traversing
    <3>2. ASSUME NEW q \in Requests, Propagate(q)
          PROVE  ~Traversing' /\ ~(phase' = "signal" /\ hops' # <<>>)
      BY <3>2 DEF Propagate, Traversing
    <3>3. ASSUME NEW q \in Recoveries, Recover(q)
          PROVE  ~Traversing' /\ ~(phase' = "signal" /\ hops' # <<>>)
      BY <3>3 DEF Recover, Traversing
    <3> QED
      BY <1>5, <3>1, <3>2, <3>3, Zenon
  <2> QED
    BY <2>1, Zenon
<1>6. ASSUME TruncateHop \/ \E e \in Top : SettleUnexplained(e)
      PROVE  FALSE
  BY <1>1, <1>6, Zenon DEF TruncateHop, SettleUnexplained
<1>7. ASSUME BeginSignal
      PROVE  /\ (phase' = "signal" /\ hops' # <<>>) => \A r : Reaches(r)' => Owes(r, 0)'
             /\ Traversing' => Accounts'
  BY <1>1, <1>7, BeginAccounts, Zenon
<1>8. ASSUME EndTraversal, UNCHANGED <<topology, hops, signal, settled>>, Traversing,
             settled # <<>>, todo = {}, Accounts
      PROVE  /\ (phase' = "signal" /\ hops' # <<>>) => \A r : Reaches(r)' => Owes(r, 0)'
             /\ Traversing' => Accounts'
  <2>1. \A r : Reaches(r)' => Owes(r, 0)'
    BY <1>1, <1>8, EndAccounts
  <2>2. ~Traversing'
    BY <1>8 DEF EndTraversal, Traversing
  <2> QED
    BY <2>1, <2>2, Zenon
<1>9. ASSUME StopTraversal
      PROVE  /\ (phase' = "signal" /\ hops' # <<>>) => \A r : Reaches(r)' => Owes(r, 0)'
             /\ Traversing' => Accounts'
  <2>1. /\ phase = "settle" /\ (queue = {} \/ Len(settled) >= policy.maxVisited) /\ EndTraversal
        /\ UNCHANGED <<topology, hops, signal, settled>>
    BY <1>9 DEF StopTraversal, context
  <2>2. ~truncated
    BY <1>1, <2>1 DEF EndTraversal
  <2>3. Accounts /\ todo = {} /\ Traversing
    BY <1>2, <2>1, <2>2 DEF Traversing
  <2>4. settled # <<>>
    <3>1. policy.maxVisited \in Nat \ {0}
      BY DEF TravTypes, PolicyForms, Bound
    <3>2. SUFFICES ASSUME settled = <<>> PROVE FALSE
      OBVIOUS
    <3>3. queue # {}
      BY <2>3, <3>2, Zenon DEF Accounts
    <3>4. Len(settled) = 0
      BY <3>2
    <3> QED
      BY <2>1, <3>1, <3>3, <3>4
  <2> QED
    BY <1>8, <2>1, <2>3, <2>4, Zenon
<1>10. ASSUME NEW e \in Top, DropEntry(e)
       PROVE  /\ (phase' = "signal" /\ hops' # <<>>) => \A r : Reaches(r)' => Owes(r, 0)'
              /\ Traversing' => Accounts'
  <2>1. /\ phase = "settle" /\ phase' = "settle" /\ IsSettled(e.node)
        /\ UNCHANGED <<topology, hops, settled, todo, expl, truncated>>
    BY <1>10 DEF DropEntry, context, requestVars
  <2>2. settled # <<>>
    BY <2>1 DEF IsSettled
  <2>3. Accounts /\ todo = {}
    BY <1>1, <1>2, <2>1
  <2>4. Accounts'
    BY <2>1, <2>2, <2>3, AccountsKept
  <2>5. phase' # "signal"
    BY <2>1
  <2> QED
    BY <2>4, <2>5, Zenon
<1>11. ASSUME NEW e \in Top, Settle(e)
       PROVE  /\ (phase' = "signal" /\ hops' # <<>>) => \A r : Reaches(r)' => Owes(r, 0)'
              /\ Traversing' => Accounts'
  <2>1. e \in Entry
    BY DEF Top, TravTypes
  <2>2. phase = "settle" /\ phase' # "signal"
    BY <1>11, Zenon DEF Settle
  <2>3. ~truncated
    BY <1>1, <1>11, Zenon DEF Settle
  <2>4. Accounts'
    BY <1>1, <1>2, <1>11, <2>1, <2>2, <2>3, SettleAccounts
  <2> QED
    BY <2>2, <2>4, Zenon
<1>12. ASSUME RefuseEdge
       PROVE  /\ (phase' = "signal" /\ hops' # <<>>) => \A r : Reaches(r)' => Owes(r, 0)'
              /\ Traversing' => Accounts'
  <2>1. phase = "edges" /\ phase' # "signal" /\ ~truncated
    BY <1>1, <1>12 DEF RefuseEdge, requestVars
  <2>2. Accounts'
    BY <1>3, <1>12, <2>1, RefuseAccounts
  <2> QED
    BY <2>1, <2>2, Zenon
<1>13. ASSUME Forward
       PROVE  /\ (phase' = "signal" /\ hops' # <<>>) => \A r : Reaches(r)' => Owes(r, 0)'
              /\ Traversing' => Accounts'
  <2>1. phase = "edges" /\ phase' # "signal" /\ ~truncated
    BY <1>1, <1>13 DEF Forward
  <2>2. Accounts'
    BY <1>3, <1>13, <2>1, ForwardAccounts
  <2> QED
    BY <2>1, <2>2, Zenon
<1>14. ASSUME LeaveNode
       PROVE  /\ (phase' = "signal" /\ hops' # <<>>) => \A r : Reaches(r)' => Owes(r, 0)'
              /\ Traversing' => Accounts'
  <2>1. phase = "edges" /\ todo = {} /\ UNCHANGED <<topology, hops, signal, settled, todo>>
    BY <1>14 DEF LeaveNode, context
  <2>2. ~truncated
    BY <1>1, <1>14, Zenon DEF LeaveNode, EndTraversal
  <2>3. Accounts /\ settled # <<>> /\ Traversing
    BY <1>3, <2>1, <2>2 DEF Traversing
  <2>4. CASE budgetStop
    <3>1. EndTraversal
      BY <1>14, <2>4, Zenon DEF LeaveNode
    <3> QED
      BY <1>8, <2>1, <2>3, <3>1, Zenon
  <2>5. CASE ~budgetStop
    <3>1. phase' = "settle" /\ expl' = expl
      BY <1>14, <2>5, Zenon DEF LeaveNode
    <3>2. Accounts'
      BY <2>1, <2>3, <3>1, AccountsKept
    <3>3. phase' # "signal"
      BY <3>1
    <3> QED
      BY <3>2, <3>3, Zenon
  <2> QED
    BY <2>4, <2>5
<1> QED
  BY <1>4, <1>5, <1>6, <1>7, <1>9, <1>10, <1>11, <1>12, <1>13, <1>14, Zenon DEF Next, Traverse

\* EveryEdgeExplained for every topology, policy, record budget and sequence of requests:
\* the counts that reject() keeps and flush_suppressions() writes out never lose or repeat
\* an edge, however the traversal ends, unless the outcome is marked truncated.
THEOREM EveryEdgeAlwaysExplained == Spec => []EveryEdgeExplained
<1>1. Init => ExplInv
  BY DEF Init, ExplInv, Traversing
<1>2. Spec => []ExplInv
  <2>1. TravTypes /\ TravTypes' /\ expl \in Explanation /\ (expl \in Explanation)' /\ PathInv
        /\ ExplInv /\ [Next]_vars => ExplInv'
    BY ExplStep
  <2> QED
    BY <1>1, <2>1, ExplTypesAlways, PathAlways, PTL DEF Spec
<1>3. TravTypes /\ expl \in Explanation /\ ExplInv => EveryEdgeExplained
  <2> SUFFICES ASSUME TravTypes, expl \in Explanation, ExplInv,
                      phase = "signal", hops # <<>>, ~truncated,
                      NEW r \in {signal.origin} \cup {e.node : e \in Range(settled)}
               PROVE  Cardinality(OutEdges(r))
                        = Cardinality({h \in CurrentHops : h.from = r})
                          + FoldLeft(LAMBDA sum, x : IF x.from = r THEN sum + x.count ELSE sum,
                                     0, expl.records)
    BY Zenon DEF EveryEdgeExplained
  <2>1. Reaches(r)
    BY Zenon DEF Reaches, IsSettled, Range
  <2>2. Owes(r, 0)
    BY <2>1, Zenon DEF ExplInv
  <2>3. PICK a, b, c : /\ a = Cardinality(OutEdges(r)) /\ b = Cardinality(HopsFrom(r))
                       /\ c = Refused(expl.records, r)
    OBVIOUS
  <2>4. b \in Nat /\ c \in Nat
    BY <2>3, HopsFromFinite, ExplanationFields
  <2>5. a = b + c + 0
    BY <2>2, <2>3, Zenon DEF Owes
  <2>6. a = b + c
    BY <2>4, <2>5
  <2> QED
    BY <2>3, <2>6, Zenon DEF HopsFrom, Refused, RefusedAll, RefusedOne
<1> QED
  BY <1>2, <1>3, ExplTypesAlways, PTL

-----------------------------------------------------------------------------
(* Types and capacities *)

CountTypes ==
    /\ requests \in 0..MaxRequests
    /\ request.left \subseteq request.live /\ request.live \subseteq DOMAIN request.batch
    /\ accepted \in Nat
    /\ Len(settled) <= policy.maxVisited
    /\ fanout \in 0..policy.maxFanout /\ expansions \in 0..policy.maxExpansions

FlagTypes == truncated \in BOOLEAN /\ budgetStop \in BOOLEAN

LEMMA PassedCounts ==
    ASSUME NEW i, Failing(i) = {}
    PROVE  ~(fanout >= policy.maxFanout) /\ ~(expansions >= policy.maxExpansions)
<1>1. DOMAIN Checks(i) = 1..15
  BY DEF Checks
<1>2. \A k \in 1..15 : ~Checks(i)[k][1]
  BY <1>1, Zenon DEF Failing
<1>3. Checks(i)[1][1] = (fanout >= policy.maxFanout)
  BY DEF Checks
<1>4. Checks(i)[2][1] = (expansions >= policy.maxExpansions)
  BY DEF Checks
<1>5. ~Checks(i)[1][1] /\ ~Checks(i)[2][1]
  BY <1>2
<1> QED
  BY <1>3, <1>4, <1>5, Zenon

LEMMA PolicyBounds ==
    ASSUME TravTypes
    PROVE  /\ policy.maxVisited \in Nat \ {0} /\ policy.maxFanout \in Nat \ {0}
           /\ policy.maxExpansions \in Nat \ {0}
BY DEF TravTypes, PolicyForms, Bound

LEMMA FlagTypesStep ==
    ASSUME FlagTypes, [Next]_vars
    PROVE  FlagTypes'
<1>1. ASSUME UNCHANGED vars PROVE FlagTypes'
  BY <1>1, Zenon DEF vars, requestVars, traversalVars, FlagTypes
<1>2. ASSUME NEW q \in Requests, Propagate(q) PROVE FlagTypes'
  BY <1>2, Zenon DEF Propagate, traversalVars, FlagTypes
<1>3. ASSUME BeginSignal PROVE FlagTypes'
  BY <1>3, Zenon DEF BeginSignal, FlagTypes
<1>4. ASSUME NEW e \in Top, Settle(e) PROVE FlagTypes'
  BY <1>4, Zenon DEF Settle, FlagTypes
<1>5. ASSUME RejectSignal \/ Commit \/ \E q \in Recoveries : Recover(q) PROVE FlagTypes'
  BY <1>5, Zenon DEF RejectSignal, Commit, Recover, requestVars, traversalVars, FlagTypes
<1>6. ASSUME StopTraversal \/ LeaveNode \/ TruncateHop \/ Forward \/ RefuseEdge PROVE FlagTypes'
  BY <1>6, Zenon DEF StopTraversal, LeaveNode, EndTraversal, TruncateHop, Forward, RefuseEdge,
     requestVars, FlagTypes
<1>7. ASSUME \E e \in Top : DropEntry(e) \/ SettleUnexplained(e) PROVE FlagTypes'
  BY <1>7, Zenon DEF DropEntry, SettleUnexplained, requestVars, FlagTypes
<1> QED
  BY <1>1, <1>2, <1>3, <1>4, <1>5, <1>6, <1>7, Zenon DEF Next, Traverse

LEMMA CountTypesStep ==
    ASSUME TravTypes, CountTypes, [Next]_vars
    PROVE  CountTypes'
<1>1. policy' = policy
  BY StepCases
<1>2. /\ policy.maxVisited \in Nat \ {0} /\ policy.maxFanout \in Nat \ {0}
      /\ policy.maxExpansions \in Nat \ {0} /\ MaxRequests \in Nat
  BY PolicyBounds, PropagationAssumption
<1>3. settled \in Seq(Entry)
  BY DEF TravTypes
<1>4. request \in RequestForms
  BY DEF TravTypes
<1>5. ASSUME UNCHANGED <<requests, request, accepted, settled, fanout, expansions>>
      PROVE  CountTypes'
  BY <1>1, <1>5 DEF CountTypes
<1>6. ASSUME NEW q \in Requests, Propagate(q) PROVE CountTypes'
  <2>1. /\ requests < MaxRequests /\ requests' = requests + 1 /\ accepted' = 0
        /\ UNCHANGED <<settled, fanout, expansions>>
    BY <1>6 DEF Propagate, traversalVars
  <2>2. request'.left = request'.live /\ request'.live \subseteq DOMAIN request'.batch
    BY <1>6 DEF Propagate, Admitted
  <2> QED
    BY <1>1, <1>2, <2>1, <2>2 DEF CountTypes
<1>7. ASSUME request' = [request EXCEPT !.left = @ \ {Min(@)}]
      PROVE  request'.left \subseteq request'.live /\ request'.live \subseteq DOMAIN request'.batch
  BY <1>4, <1>7 DEF CountTypes, RequestForms
<1>8. ASSUME RejectSignal PROVE CountTypes'
  <2>1. /\ request' = [request EXCEPT !.left = @ \ {Min(@)}]
        /\ UNCHANGED <<requests, accepted, settled, fanout, expansions>>
    BY <1>8 DEF RejectSignal, traversalVars
  <2> QED
    BY <1>1, <1>7, <2>1 DEF CountTypes
<1>9. ASSUME BeginSignal PROVE CountTypes'
  <2>1. /\ request' = [request EXCEPT !.left = @ \ {Min(@)}] /\ accepted' = accepted + 1
        /\ settled' = <<>> /\ fanout' = 0 /\ expansions' = 0 /\ requests' = requests
    BY <1>9, Zenon DEF BeginSignal
  <2> QED
    BY <1>1, <1>2, <1>7, <2>1 DEF CountTypes
<1>10. ASSUME NEW e \in Top, Settle(e) PROVE CountTypes'
  <2>1. /\ Len(settled) < policy.maxVisited /\ settled' = Append(settled, e) /\ fanout' = 0
        /\ UNCHANGED <<requests, request, accepted, expansions>>
    BY <1>10, Zenon DEF Settle
  <2>2. e \in Entry
    BY DEF Top, TravTypes
  <2>3. Len(settled') <= policy.maxVisited
    BY <1>2, <1>3, <2>1, <2>2
  <2> QED
    BY <1>1, <1>2, <2>1, <2>3 DEF CountTypes
<1>11. ASSUME Forward PROVE CountTypes'
  <2>1. /\ Failing(NextEdge) = {} /\ fanout' = fanout + 1 /\ expansions' = expansions + 1
        /\ UNCHANGED <<requests, request, accepted, settled>>
    BY <1>11 DEF Forward
  <2>2. ~(fanout >= policy.maxFanout) /\ ~(expansions >= policy.maxExpansions)
    BY <2>1, PassedCounts
  <2> QED
    BY <1>1, <1>2, <2>1, <2>2 DEF CountTypes
<1>12. ASSUME NEW q \in Recoveries, Recover(q) PROVE CountTypes'
  <2>1. /\ requests < MaxRequests /\ requests' = requests + 1
        /\ UNCHANGED <<request, accepted, settled, fanout, expansions>>
    BY <1>12 DEF Recover, traversalVars
  <2> QED
    BY <1>1, <1>2, <2>1 DEF CountTypes
<1>13. ASSUME \/ UNCHANGED vars \/ Commit \/ StopTraversal \/ LeaveNode \/ TruncateHop \/ RefuseEdge
              \/ \E e \in Top : DropEntry(e) \/ SettleUnexplained(e)
       PROVE  CountTypes'
  <2>1. UNCHANGED <<requests, request, accepted, settled, fanout, expansions>>
    BY <1>13, Zenon DEF vars, Commit, StopTraversal, LeaveNode, TruncateHop, RefuseEdge, DropEntry,
       SettleUnexplained, requestVars, traversalVars
  <2> QED
    BY <1>5, <2>1
<1> QED
  BY <1>6, <1>8, <1>9, <1>10, <1>11, <1>12, <1>13, Zenon DEF Next, Traverse

LEMMA CountsAlways == Spec => [](CountTypes /\ FlagTypes)
<1>1. Init => CountTypes /\ FlagTypes
  <2> SUFFICES ASSUME Init PROVE CountTypes /\ FlagTypes
    OBVIOUS
  <2>1. TravTypes
    BY TravTypesInit
  <2>2. /\ policy.maxVisited \in Nat \ {0} /\ policy.maxFanout \in Nat \ {0}
        /\ policy.maxExpansions \in Nat \ {0} /\ MaxRequests \in Nat
    BY <2>1, PolicyBounds, PropagationAssumption
  <2>3. /\ requests = 0 /\ request = NoRequest /\ accepted = 0 /\ settled = <<>>
        /\ fanout = 0 /\ expansions = 0 /\ truncated = FALSE /\ budgetStop = FALSE
    BY DEF Init
  <2>4. CountTypes
    BY <2>2, <2>3 DEF CountTypes, NoRequest
  <2>5. FlagTypes
    BY <2>3 DEF FlagTypes
  <2> QED
    BY <2>4, <2>5
<1>2. TravTypes /\ CountTypes /\ [Next]_vars => CountTypes'
  BY CountTypesStep
<1>3. FlagTypes /\ [Next]_vars => FlagTypes'
  BY FlagTypesStep
<1> QED
  BY <1>1, <1>2, <1>3, TravTypesInit, TravTypesStep, PTL DEF Spec

\* A finite set of naturals can be listed from its least to its greatest member.
Lists(s, S, n) == s \in [1..n -> S] /\ \A i, j \in 1..n : i < j => s[i] < s[j]

HasLists(S, n) == \A T \in SUBSET S : Cardinality(T) = n => \E s : Lists(s, T, n)

LEMMA ListsGrow ==
    ASSUME NEW S, S \subseteq Nat, IsFiniteSet(S), NEW n \in Nat, HasLists(S, n)
    PROVE  HasLists(S, n + 1)
<1> SUFFICES ASSUME NEW T \in SUBSET S, Cardinality(T) = n + 1
             PROVE  \E s : Lists(s, T, n + 1)
  BY DEF HasLists
<1>1. T \subseteq Nat /\ IsFiniteSet(T)
  BY FS_Subset
<1>2. T # {}
  <2>1. SUFFICES ASSUME T = {} PROVE FALSE
    OBVIOUS
  <2>2. n + 1 = 0
    BY <2>1, FS_EmptySet, Zenon
  <2> QED
    BY <2>2
<1>3. PICK x \in T : \A y \in T : x <= y
  BY <1>1, <1>2, LeastNatural
<1>4. T \ {x} \in SUBSET S /\ Cardinality(T \ {x}) = n
  <2>1. Cardinality(T \ {x}) = Cardinality(T) - 1
    BY <1>1, <1>3, FS_RemoveElement, Zenon
  <2>2. Cardinality(T \ {x}) = (n + 1) - 1
    BY <2>1, Zenon
  <2>3. (n + 1) - 1 = n
    OBVIOUS
  <2>4. T \ {x} \in SUBSET S
    OBVIOUS
  <2> QED
    BY <2>2, <2>3, <2>4, Zenon
<1>5. PICK s : Lists(s, T \ {x}, n)
  BY <1>4, Zenon DEF HasLists
<1>6. s \in [1..n -> T \ {x}] /\ \A i, j \in 1..n : i < j => s[i] < s[j]
  BY <1>5, Zenon DEF Lists
<1> DEFINE t == [i \in 1..(n + 1) |-> IF i = 1 THEN x ELSE s[i - 1]]
<1>7. \A i \in 1..(n + 1) : i # 1 => i - 1 \in 1..n
  OBVIOUS
<1>8. t \in [1..(n + 1) -> T]
  BY <1>6, <1>7
<1>9. ASSUME NEW i \in 1..(n + 1), NEW j \in 1..(n + 1), i < j
      PROVE  t[i] < t[j]
  <2>1. j # 1 /\ j - 1 \in 1..n /\ t[j] = s[j - 1]
    BY <1>9
  <2>2. s[j - 1] \in T \ {x}
    BY <1>6, <2>1
  <2>3. CASE i = 1
    <3>1. x <= s[j - 1] /\ x # s[j - 1] /\ x \in Nat /\ s[j - 1] \in Nat
      BY <1>1, <1>3, <2>2
    <3> QED
      BY <2>1, <2>3, <3>1
  <2>4. CASE i # 1
    <3>1. i - 1 \in 1..n /\ i - 1 < j - 1 /\ t[i] = s[i - 1]
      BY <1>9, <2>4
    <3>2. s[i - 1] < s[j - 1]
      BY <1>6, <2>1, <3>1
    <3> QED
      BY <2>1, <3>1, <3>2
  <2> QED
    BY <2>3, <2>4
<1> HIDE DEF t
<1> QED
  BY <1>8, <1>9, Zenon DEF Lists

LEMMA AscendingIn ==
    ASSUME NEW S, S \subseteq Nat, IsFiniteSet(S)
    PROVE  /\ Cardinality(S) \in Nat
           /\ Ascending(S) \in [1..Cardinality(S) -> S]
<1>1. PICK n \in Nat : n = Cardinality(S)
  BY FS_CardinalityType
<1> DEFINE Good == {m \in Nat : HasLists(S, m)}
<1>2. 0 \in Good
  <2>1. \A T \in SUBSET S : Cardinality(T) = 0 => \E s : Lists(s, T, 0)
    <3> SUFFICES ASSUME NEW T \in SUBSET S PROVE \E s : Lists(s, T, 0)
      OBVIOUS
    <3>1. <<>> \in [1..0 -> T] /\ 1..0 = {}
      OBVIOUS
    <3> QED
      BY <3>1, Zenon DEF Lists
  <2> QED
    BY <2>1 DEF HasLists
<1>3. ASSUME NEW k \in 0..(n - 1), k \in Good
      PROVE  k + 1 \in Good
  <2>1. k \in Nat /\ k + 1 \in Nat /\ HasLists(S, k)
    BY <1>3
  <2> QED
    BY <2>1, ListsGrow
<1>4. n \in Good
  <2> HIDE DEF Good
  <2>1. \A k \in 0..n : k \in Good
    BY <1>2, <1>3, UpTo
  <2> QED
    BY <2>1
<1>5. PICK s : Lists(s, S, n)
  <2>1. S \in SUBSET S
    OBVIOUS
  <2> QED
    BY <1>1, <1>4, <2>1, Zenon DEF HasLists
<1>6. s \in [1..n -> S] /\ \A i, j \in DOMAIN s : i < j => s[i] < s[j]
  <2>1. s \in [1..n -> S] /\ \A i, j \in 1..n : i < j => s[i] < s[j]
    BY <1>5, Zenon DEF Lists
  <2>2. DOMAIN s = 1..n
    BY <2>1
  <2> QED
    BY <2>1, <2>2, Zenon
<1>7. Ascending(S) \in [1..Cardinality(S) -> S]
  BY <1>1, <1>6, Zenon DEF Ascending
<1> QED
  BY <1>1, <1>7

LEMMA MarkedBound ==
    ASSUME NEW known \in Seq(Signal), Len(known) <= LineageCapacity, NEW s \in Signal
    PROVE  Len(Marked(known, s)) <= LineageCapacity
<1>1. LineageCapacity \in Nat
  BY PropagationAssumption
<1>2. PICK longer : longer = Append(known, s)
  OBVIOUS
<1>3. longer \in Seq(Signal) /\ Len(longer) = Len(known) + 1 /\ longer # <<>>
  BY <1>2
<1>4. Len(Tail(longer)) = Len(known)
  BY <1>3
<1>5. Marked(known, s) = IF s \in Range(known) THEN known
                         ELSE IF Len(longer) > LineageCapacity THEN Tail(longer) ELSE longer
  BY <1>2, Zenon DEF Marked
<1>6. CASE s \in Range(known)
  BY <1>5, <1>6, Zenon
<1>7. CASE s \notin Range(known) /\ Len(longer) > LineageCapacity
  <2>1. Marked(known, s) = Tail(longer)
    BY <1>5, <1>7, Zenon
  <2> QED
    BY <1>4, <2>1, Zenon
<1>8. CASE s \notin Range(known) /\ ~(Len(longer) > LineageCapacity)
  <2>1. Marked(known, s) = longer
    BY <1>5, <1>8, Zenon
  <2>2. Len(longer) <= LineageCapacity
    BY <1>1, <1>3, <1>8
  <2> QED
    BY <2>1, <2>2, Zenon
<1> QED
  BY <1>6, <1>7, <1>8, Zenon

\* Marking any number of lineages keeps the ledger within its capacity.
LEMMA MarkAllBound ==
    ASSUME NEW b \in Seq(Signal), Len(b) <= LineageCapacity, NEW q \in Seq(Signal)
    PROVE  MarkAll(b, q) \in Seq(Signal) /\ Len(MarkAll(b, q)) <= LineageCapacity
<1>1. PICK n \in Nat : n = Len(q) /\ \A k \in 1..n : q[k] \in Signal
  OBVIOUS
<1>2. PICK g \in [0..n -> Seq(Signal)] :
         /\ g[0] = b /\ g[n] = MarkAll(b, q)
         /\ \A k \in 1..n : g[k] = Marked(g[k - 1], q[k])
  <2>1. MarkSteps(b, q)
    BY MarkedFold
  <2> QED
    BY <1>1, <2>1, Zenon DEF MarkSteps
<1> DEFINE Good == {k \in 0..n : Len(g[k]) <= LineageCapacity}
<1>3. 0 \in Good
  BY <1>2
<1>4. ASSUME NEW k \in 0..(n - 1), k \in Good
      PROVE  k + 1 \in Good
  <2>1. k + 1 \in 1..n /\ (k + 1) - 1 = k /\ k + 1 \in 0..n /\ k \in 0..n
    OBVIOUS
  <2>2. PICK y \in Seq(Signal) : y = g[k]
    BY <2>1
  <2>3. PICK s \in Signal : s = q[k + 1]
    BY <1>1, <2>1
  <2>4. g[k + 1] = Marked(y, s)
    BY <1>2, <2>1, <2>2, <2>3
  <2>5. Len(y) <= LineageCapacity
    BY <1>4, <2>2, Zenon
  <2>6. Len(Marked(y, s)) <= LineageCapacity
    BY <2>5, MarkedBound
  <2> QED
    BY <2>1, <2>4, <2>6, Zenon
<1>5. \A k \in 0..n : k \in Good
  <2> HIDE DEF Good
  <2> QED
    BY <1>3, <1>4, UpTo
<1>6. n \in 0..n
  OBVIOUS
<1>7. g[n] \in Seq(Signal) /\ Len(g[n]) <= LineageCapacity
  BY <1>2, <1>5, <1>6, Zenon
<1> QED
  BY <1>2, <1>7, Zenon

LEMMA LiveSignalsType ==
    ASSUME TravTypes, CountTypes
    PROVE  LiveSignals \in Seq(Signal)
<1>1. request.batch \in Seq(Signal) /\ request.live \subseteq DOMAIN request.batch
  BY DEF TravTypes, RequestForms, CountTypes
<1>2. PICK m \in Nat : DOMAIN request.batch = 1..m
  BY <1>1
<1>3. request.live \subseteq Nat /\ IsFiniteSet(request.live)
  <2>1. IsFiniteSet(1..m) /\ request.live \in SUBSET (1..m)
    BY <1>1, <1>2, FS_Interval
  <2>2. IsFiniteSet(request.live)
    BY <2>1, FS_Subset
  <2> QED
    BY <2>1, <2>2
<1>4. PICK n, order : n = Cardinality(request.live) /\ order = Ascending(request.live)
  OBVIOUS
<1>5. n \in Nat /\ order \in [1..n -> request.live]
  BY <1>3, <1>4, AscendingIn
<1>6. LiveSignals = [k \in DOMAIN order |-> request.batch[order[k]]]
  BY <1>4, Zenon DEF LiveSignals
<1>7. \A k \in 1..n : request.batch[order[k]] \in Signal
  <2>1. ASSUME NEW k \in 1..n PROVE request.batch[order[k]] \in Signal
    <3>1. order[k] \in DOMAIN request.batch
      BY <1>1, <1>5
    <3> QED
      BY <1>1, <3>1
  <2> QED
    BY <2>1
<1>8. LiveSignals \in [1..n -> Signal]
  BY <1>5, <1>6, <1>7
<1> QED
  BY <1>5, <1>8

LEMMA BestType ==
    ASSUME NEW cs \in Seq(Contribution), cs # <<>>, NEW f \in {"magnitude", "weighted"}
    PROVE  Best(cs, f) \in Nat
<1> DEFINE S == {c[f] : c \in Range(cs)}
<1>1. One \in Nat
  BY PropagationAssumption
<1>2. S \subseteq 0..One
  <2>1. ASSUME NEW i \in DOMAIN cs PROVE cs[i][f] \in 0..One
    <3>1. cs[i] \in Contribution
      OBVIOUS
    <3> QED
      BY <3>1 DEF Contribution, Magnitude
  <2> QED
    BY <2>1, Zenon DEF Range
<1>3. S # {}
  <2>1. 1 \in DOMAIN cs
    OBVIOUS
  <2>2. cs[1] \in Range(cs)
    BY <2>1, Zenon DEF Range
  <2> QED
    BY <2>2
<1> HIDE DEF S
<1>4. \E x \in S : \A y \in S : y <= x
  BY <1>1, <1>2, <1>3, GreatestNatural, Zenon
<1>5. \E x \in S : \A y \in S : x >= y
  BY <1>2, <1>4
<1>6. Max(S) \in S
  BY <1>5, Zenon DEF Max
<1>7. Max(S) \in Nat
  <2>1. PICK x : x = Max(S)
    OBVIOUS
  <2>2. x \in 0..One
    BY <1>2, <1>6, <2>1, Zenon
  <2>3. x \in Nat
    BY <1>1, <2>2
  <2> QED
    BY <2>1, <2>3, Zenon
<1> QED
  BY <1>7, Zenon DEF Best, S

LEMMA AggregateType ==
    ASSUME policy \in PolicyForms, NEW cs \in Seq(Contribution)
    PROVE  AggregateContributions(cs) \in Nat
<1>1. policy.aggregation \in {"Max", "WeightedMax", "PriorityFirst", "SaturatingSum"}
  BY DEF PolicyForms
<1>2. CASE cs = <<>>
  <2>1. AggregateContributions(cs) = 0
    BY <1>2, Zenon DEF AggregateContributions
  <2> QED
    BY <2>1
<1>3. CASE cs # <<>> /\ policy.aggregation = "Max"
  <2>1. AggregateContributions(cs) = Best(cs, "magnitude")
    BY <1>3, Zenon DEF AggregateContributions
  <2> QED
    BY <1>3, <2>1, BestType
<1>4. CASE cs # <<>> /\ policy.aggregation = "WeightedMax"
  <2>1. policy.aggregation # "Max"
    BY <1>4
  <2>2. AggregateContributions(cs) = Best(cs, "weighted")
    BY <1>4, <2>1, Zenon DEF AggregateContributions
  <2> QED
    BY <1>4, <2>2, BestType
<1>5. CASE cs # <<>> /\ policy.aggregation = "PriorityFirst"
  <2>1. policy.aggregation # "Max" /\ policy.aggregation # "WeightedMax"
    BY <1>5
  <2>2. PICK w : w = WinAll(cs[1], cs)
    OBVIOUS
  <2>3. AggregateContributions(cs) = w.magnitude
    BY <1>5, <2>1, <2>2, Zenon DEF AggregateContributions, PriorityFirst, WinAll
  <2>4. w \in Contribution
    BY <1>5, <2>2, WinnerUnbeaten
  <2> QED
    BY <2>3, <2>4, ContributionFields, Zenon
<1>6. CASE cs # <<>> /\ policy.aggregation = "SaturatingSum"
  <2>1. /\ policy.aggregation # "Max" /\ policy.aggregation # "WeightedMax"
        /\ policy.aggregation # "PriorityFirst"
    BY <1>6
  <2>2. AggregateContributions(cs) = Least(One, SumAll(0, cs))
    BY <1>6, <2>1, Zenon DEF AggregateContributions, SumAll
  <2>3. SumAll(0, cs) \in Nat
    <3>1. PICK g \in [0..Len(cs) -> Nat] : g[Len(cs)] = SumAll(0, cs)
      BY SumFold, Zenon DEF SumSteps
    <3> QED
      BY <3>1
  <2>4. PICK t \in Nat : t = SumAll(0, cs)
    BY <2>3
  <2>5. Least(One, t) \in Nat
    BY PropagationAssumption DEF Least
  <2> QED
    BY <2>2, <2>4, <2>5, Zenon
<1> QED
  BY <1>1, <1>2, <1>3, <1>4, <1>5, <1>6

LEMMA AppliedType ==
    ASSUME TravTypes, NEW a \in Accumulator
    PROVE  Applied(a) \in Magnitude
<1>1. a.contributions \in Seq(Contribution) /\ policy \in PolicyForms
  BY DEF Accumulator, TravTypes
<1>2. PICK t \in Nat : t = AggregateContributions(a.contributions)
  BY <1>1, AggregateType
<1>3. policy.ceiling \in Magnitude /\ One \in Nat
  BY <1>1, PropagationAssumption DEF PolicyForms
<1>4. Least(policy.ceiling, t) \in Magnitude /\ 0 \in Magnitude
  BY <1>3 DEF Least, Magnitude
<1> QED
  BY <1>2, <1>4, Zenon DEF Applied

ApplicationKeys == Nat \X Resources
ApplicationTables == {m \in Tables(ApplicationKeys) : Within(ApplicationCapacity, m)}

LEMMA ApplicationItemsType ==
    ASSUME TravTypes, AccTypes
    PROVE  ApplicationItems \in Seq(ApplicationKeys \X Level)
<1>1. PICK S : S = {r \in Resources : Applied(acc[r]) > 0}
  OBVIOUS
<1>2. S \subseteq Resources
  BY <1>1
<1>3. S \subseteq Nat /\ IsFiniteSet(S)
  BY <1>2, PropagationAssumption, FS_Subset
<1>4. PICK n, nodes : n = Cardinality(S) /\ nodes = PressedNodes
  OBVIOUS
<1>5. nodes = Ascending(S)
  BY <1>1, <1>4, Zenon DEF PressedNodes
<1>6. n \in Nat /\ nodes \in [1..n -> S]
  BY <1>3, <1>4, <1>5, AscendingIn
<1> DEFINE Item(r) == <<<<acc[r].source, r>>,
                        [magnitude |-> Applied(acc[r]), tick |-> request.now]>>
<1>7. ApplicationItems = [i \in DOMAIN nodes |-> Item(nodes[i])]
  BY <1>4, Zenon DEF ApplicationItems
<1>8. ASSUME NEW r \in Resources
      PROVE  Item(r) \in ApplicationKeys \X Level
  <2>1. acc[r] \in Accumulator
    BY DEF AccTypes
  <2>2. acc[r].source \in Nat /\ Applied(acc[r]) \in Magnitude
    BY <2>1, AppliedType DEF Accumulator
  <2>3. request.now \in Nat
    BY DEF TravTypes, RequestForms
  <2>4. [magnitude |-> Applied(acc[r]), tick |-> request.now] \in Level
    BY <2>2, <2>3 DEF Level
  <2> QED
    BY <2>2, <2>4, Zenon DEF ApplicationKeys
<1> HIDE DEF Item
<1>9. DOMAIN nodes = 1..n /\ \A i \in 1..n : nodes[i] \in Resources
  BY <1>2, <1>6
<1>10. ApplicationItems \in [1..n -> ApplicationKeys \X Level]
  <2> HIDE DEF ApplicationKeys, Level
  <2>1. PICK I : I = ApplicationKeys \X Level
    OBVIOUS
  <2>2. \A i \in 1..n : Item(nodes[i]) \in I
    BY <1>8, <1>9, <2>1, Zenon
  <2>3. [i \in 1..n |-> Item(nodes[i])] \in [1..n -> I]
    BY <2>2
  <2> QED
    BY <1>7, <1>9, <2>1, <2>3, Zenon
<1> QED
  BY <1>6, <1>10

\* The recursion of decayed(), over the steps since the last write.
Decays(raw, start, n) ==
    raw = [i \in 0..n |-> IF i = 0 THEN start ELSE (raw[i - 1] * policy.perStep) \div One]

LEMMA DecaysExist ==
    ASSUME TravTypes, NEW start \in Nat, NEW n \in Nat
    PROVE  \E raw : Decays(raw, start, n)
<1>1. policy.perStep \in Nat /\ One \in Nat \ {0}
  BY PropagationAssumption DEF TravTypes, PolicyForms, Magnitude
<1> DEFINE H == [t \in Nat |-> (t * policy.perStep) \div One]
<1>2. \A t \in Nat : (t * policy.perStep) \div One \in Nat
  <2>1. ASSUME NEW t \in Nat PROVE (t * policy.perStep) \div One \in Nat
    <3>1. t * policy.perStep \in Nat
      BY <1>1
    <3> QED
      BY <1>1, <3>1, Quotient
  <2> QED
    BY <2>1
<1>3. H \in [Nat -> Nat] /\ \A t \in Nat : H[t] = (t * policy.perStep) \div One
  BY <1>2
<1> HIDE DEF H
<1>4. PICK raw \in [0..n -> Nat] : raw[0] = start /\ \A k \in 1..n : raw[k] = H[raw[k - 1]]
  <2>1. \E raw \in [0..n -> Nat] : Repeats(n, start, H, raw)
    BY <1>3, ChainExists, Zenon
  <2> QED
    BY <2>1, Zenon DEF Repeats
<1>5. \A k \in 0..n : k # 0 => k \in 1..n /\ k - 1 \in 0..n
  OBVIOUS
<1>6. \A k \in 0..n :
        raw[k] = IF k = 0 THEN start ELSE (raw[k - 1] * policy.perStep) \div One
  <2> SUFFICES ASSUME NEW k \in 0..n, k # 0
               PROVE  raw[k] = (raw[k - 1] * policy.perStep) \div One
    BY <1>4
  <2>1. raw[k - 1] \in Nat /\ raw[k] = H[raw[k - 1]]
    BY <1>4, <1>5
  <2> QED
    BY <1>3, <2>1, Zenon
<1>7. raw = [k \in 0..n |-> raw[k]]
  BY <1>4
<1>8. raw = [k \in 0..n |-> IF k = 0 THEN start ELSE (raw[k - 1] * policy.perStep) \div One]
  BY <1>6, <1>7, Zenon
<1> QED
  BY <1>8 DEF Decays

LEMMA DecaysType ==
    ASSUME TravTypes, NEW start \in Nat, NEW n \in Nat, NEW raw, Decays(raw, start, n)
    PROVE  raw[n] \in Nat
<1>1. policy.perStep \in Nat /\ One \in Nat \ {0}
  BY PropagationAssumption DEF TravTypes, PolicyForms, Magnitude
<1>2. \A k \in 0..n :
        raw[k] = IF k = 0 THEN start ELSE (raw[k - 1] * policy.perStep) \div One
  BY Zenon DEF Decays
<1> DEFINE Typed == {k \in 0..n : raw[k] \in Nat}
<1>3. 0 \in Typed
  BY <1>2
<1>4. ASSUME NEW k \in 0..(n - 1), k \in Typed
      PROVE  k + 1 \in Typed
  <2>1. k + 1 \in 0..n /\ (k + 1) - 1 = k /\ k + 1 # 0
    OBVIOUS
  <2>2. PICK t \in Nat : t = raw[k]
    BY <1>4
  <2>3. raw[k + 1] = (t * policy.perStep) \div One
    BY <1>2, <2>1, <2>2, Zenon
  <2>4. t * policy.perStep \in Nat
    BY <1>1
  <2>5. (t * policy.perStep) \div One \in Nat
    BY <1>1, <2>4, Quotient
  <2> QED
    BY <2>1, <2>3, <2>5, Zenon
<1>5. \A k \in 0..n : k \in Typed
  <2> HIDE DEF Typed
  <2> QED
    BY <1>3, <1>4, UpTo
<1>6. n \in 0..n
  OBVIOUS
<1> QED
  BY <1>5, <1>6, Zenon

DecayEnd(raw, start, n) ==
    Least(IF raw[n] < policy.decayFloor THEN policy.decayFloor ELSE raw[n], start)

LEMMA DecayedType ==
    ASSUME TravTypes, NEW start \in Nat, NEW steps \in Nat
    PROVE  Decayed(start, steps) \in Nat
<1>1. policy.maxSteps \in Nat /\ policy.decayFloor \in Nat
  BY PropagationAssumption DEF TravTypes, PolicyForms, Bound, Magnitude
<1>2. Least(steps, policy.maxSteps) \in Nat
  BY <1>1 DEF Least
<1>3. PICK raw : raw = CHOOSE f : Decays(f, start, Least(steps, policy.maxSteps))
  OBVIOUS
<1>4. Decays(raw, start, Least(steps, policy.maxSteps))
  BY <1>2, <1>3, DecaysExist, Zenon
<1>5. PICK v \in Nat : v = raw[Least(steps, policy.maxSteps)]
  BY <1>2, <1>4, DecaysType
<1>6. Decayed(start, steps)
        = DecayEnd(CHOOSE f : Decays(f, start, Least(steps, policy.maxSteps)), start,
                   Least(steps, policy.maxSteps))
  BY Zenon DEF Decayed, Decays, DecayEnd
<1>7. Decayed(start, steps) = DecayEnd(raw, start, Least(steps, policy.maxSteps))
  BY <1>3, <1>6, Zenon
<1>8. DecayEnd(raw, start, Least(steps, policy.maxSteps))
        = Least(IF v < policy.decayFloor THEN policy.decayFloor ELSE v, start)
  BY <1>5, Zenon DEF DecayEnd
<1>9. Least(IF v < policy.decayFloor THEN policy.decayFloor ELSE v, start) \in Nat
  BY <1>1 DEF Least
<1> QED
  BY <1>7, <1>8, <1>9, Zenon

LEMMA RecoveredType ==
    ASSUME TravTypes, NEW record \in Level, NEW residual \in Magnitude, NEW now \in Nat
    PROVE  RecoveredMagnitude(record, residual, now) \in Magnitude
<1>1. record.tick \in Nat /\ record.magnitude \in Nat /\ residual \in Nat
  BY PropagationAssumption DEF Level, Magnitude
<1>2. policy.stepTicks \in Nat \ {0}
  BY DEF TravTypes, PolicyForms, Bound
<1>3. PICK steps \in Nat :
        steps = IF now > record.tick THEN (now - record.tick) \div policy.stepTicks ELSE 0
  <2>1. CASE now > record.tick
    <3>1. now - record.tick \in Nat
      BY <1>1, <2>1
    <3>2. (now - record.tick) \div policy.stepTicks \in Nat
      BY <1>2, <3>1, Quotient
    <3> QED
      BY <2>1, <3>2, Zenon
  <2>2. CASE ~(now > record.tick)
    BY <2>2
  <2> QED
    BY <2>1, <2>2
<1>4. PICK v \in Nat : v = Decayed(record.magnitude, steps)
  BY <1>1, DecayedType
<1>5. RecoveredMagnitude(record, residual, now) = Least(residual, v)
  BY <1>3, <1>4, Zenon DEF RecoveredMagnitude
<1>6. Least(residual, v) \in Magnitude
  BY <1>1, PropagationAssumption DEF Least, Magnitude
<1> QED
  BY <1>5, <1>6, Zenon

LedgerTypes ==
    /\ lineages \in Seq(Signal) /\ Len(lineages) <= LineageCapacity
    /\ applications \in ApplicationTables
    /\ \A k \in DOMAIN damping : k[2] \in EdgeIds

LEMMA RecoverApplications ==
    ASSUME TravTypes, LedgerTypes, NEW q \in Recoveries, Recover(q)
    PROVE  applications' \in ApplicationTables
<1>1. q.residual \in Magnitude /\ q.now \in Nat
  BY ContextAssumption DEF Recovery
<1>2. PICK t, D : t = applications /\ D = DOMAIN t
  OBVIOUS
<1>3. t \in Tables(ApplicationKeys) /\ Within(ApplicationCapacity, t)
  BY <1>2, Zenon DEF LedgerTypes, ApplicationTables
<1>4. D \in SUBSET ApplicationKeys /\ t \in [D -> Level]
  <2>1. PICK C \in SUBSET ApplicationKeys : t \in [C -> Level]
    BY <1>3, Zenon DEF Tables
  <2>2. D = C
    BY <1>2, <2>1
  <2> QED
    BY <2>1, <2>2, Zenon
<1> DEFINE F(k) == IF k[1] = q.source
                   THEN [magnitude |-> RecoveredMagnitude(t[k], q.residual, q.now), tick |-> q.now]
                   ELSE t[k]
<1>5. applications' = [k \in D |-> F(k)]
  BY <1>2, Zenon DEF Recover
<1>6. ASSUME NEW k \in D PROVE F(k) \in Level
  <2>1. t[k] \in Level
    BY <1>4
  <2>2. RecoveredMagnitude(t[k], q.residual, q.now) \in Magnitude
    BY <1>1, <2>1, RecoveredType
  <2>3. [magnitude |-> RecoveredMagnitude(t[k], q.residual, q.now), tick |-> q.now] \in Level
    BY <1>1, <2>2, Zenon DEF Level
  <2> QED
    BY <2>1, <2>3, Zenon
<1> HIDE DEF F
<1>7. applications' \in [D -> Level] /\ DOMAIN applications' = D
  BY <1>5, <1>6
<1>8. applications' \in Tables(ApplicationKeys)
  BY <1>4, <1>7, Zenon DEF Tables
<1>9. Within(ApplicationCapacity, applications')
  BY <1>2, <1>3, <1>7, Zenon DEF Within
<1> QED
  BY <1>8, <1>9, Zenon DEF ApplicationTables

LEMMA CommitLedger ==
    ASSUME TravTypes, AccTypes, CountTypes, DampInv, LedgerTypes, Commit
    PROVE  LedgerTypes'
<1>1. EdgeIds' = EdgeIds
  BY Zenon DEF Commit, context, EdgeIds
<1>2. CASE UNCHANGED ledger
  BY <1>1, <1>2, Zenon DEF LedgerTypes, ledger
<1>3. CASE ~UNCHANGED ledger
  <2>1. /\ lineages' = MarkAll(lineages, LiveSignals)
        /\ applications' = Recorded(applications, ApplicationCapacity, ApplicationItems)
        /\ damping' = DampAll(damping, hops)
    BY <1>3, Zenon DEF Commit, MarkAll, DampAll
  <2>2. lineages' \in Seq(Signal) /\ Len(lineages') <= LineageCapacity
    BY <2>1, LiveSignalsType, MarkAllBound DEF LedgerTypes
  <2>3. applications' \in ApplicationTables
    <3>1. /\ applications \in Tables(ApplicationKeys) /\ Within(ApplicationCapacity, applications)
          /\ ApplicationCapacity \in Nat
      BY PropagationAssumption DEF LedgerTypes, ApplicationTables
    <3>2. ApplicationItems \in Seq(ApplicationKeys \X Level)
      BY ApplicationItemsType
    <3>3. /\ applications' \in Tables(ApplicationKeys)
          /\ Within(ApplicationCapacity, applications')
      BY <2>1, <3>1, <3>2, RecordedGrows, Zenon
    <3> QED
      BY <3>3, Zenon DEF ApplicationTables
  <2>4. ASSUME NEW k \in DOMAIN damping' PROVE k[2] \in EdgeIds
    <3>1. request.now \in Nat /\ hops \in Seq(Seq(Hop)) /\ damping \in DampingTables
      BY DEF TravTypes, RequestForms, DampInv
    <3>2. DampedBy(damping, hops, damping')
      BY <2>1, <3>1, DampAllFacts, Zenon
    <3>3. CASE k \in DOMAIN damping
      BY <3>3, Zenon DEF LedgerTypes
    <3>4. CASE \E h \in HopsIn(hops) : Damping(h) = <<k, damping'[k]>>
      <4>1. PICK h \in HopsIn(hops) : Damping(h) = <<k, damping'[k]>>
        BY <3>4
      <4>2. k = <<h.to, h.edge>>
        BY <4>1 DEF Damping
      <4>3. h.edge \in EdgeIds
        BY Zenon DEF DampInv, UndampedHop
      <4> QED
        BY <4>2, <4>3
    <3> QED
      BY <2>4, <3>2, <3>3, <3>4, Zenon DEF DampedBy
  <2> QED
    BY <1>1, <2>2, <2>3, <2>4, Zenon DEF LedgerTypes
<1> QED
  BY <1>2, <1>3

LEMMA LedgerTypesStep ==
    ASSUME TravTypes, AccTypes, CountTypes, DampInv, LedgerTypes, [Next]_vars
    PROVE  LedgerTypes'
<1>1. ASSUME NEW q \in Recoveries, Recover(q) PROVE LedgerTypes'
  <2>1. applications' \in ApplicationTables
    BY <1>1, RecoverApplications
  <2>2. UNCHANGED <<topology, lineages, damping>>
    BY <1>1 DEF Recover, context
  <2> QED
    BY <2>1, <2>2, Zenon DEF LedgerTypes, EdgeIds
<1>2. ASSUME \/ UNCHANGED vars \/ RejectSignal \/ BeginSignal \/ Traverse
             \/ \E q \in Requests : Propagate(q)
      PROVE  LedgerTypes'
  <2>1. UNCHANGED <<topology, lineages, applications, damping>>
    BY <1>2, Zenon DEF vars, RejectSignal, BeginSignal, Traverse, StopTraversal, DropEntry,
       SettleUnexplained, Settle, RefuseEdge, Forward, TruncateHop, LeaveNode, Propagate,
       context, ledger
  <2> QED
    BY <2>1, Zenon DEF LedgerTypes, EdgeIds
<1> QED
  BY <1>1, <1>2, CommitLedger, Zenon DEF Next

LEMMA LedgerTypesInit == Init => LedgerTypes
<1> SUFFICES ASSUME Init PROVE LedgerTypes
  OBVIOUS
<1>1. lineages = <<>> /\ applications = <<>> /\ damping = <<>>
  BY DEF Init
<1>2. lineages \in Seq(Signal) /\ Len(lineages) <= LineageCapacity
  BY <1>1, PropagationAssumption
<1>3. DOMAIN applications = {} /\ DOMAIN damping = {} /\ applications \in [{} -> Level]
  BY <1>1
<1>4. applications \in Tables(ApplicationKeys)
  BY <1>3 DEF Tables
<1>5. Within(ApplicationCapacity, applications)
  BY <1>3, FS_EmptySet, PropagationAssumption DEF Within
<1> QED
  BY <1>2, <1>3, <1>4, <1>5, Zenon DEF LedgerTypes, ApplicationTables

\* PropTypeOK for every value of the constants: potentials stay within 1.0, no counter
\* passes the bound of the policy, and no sequence of commits and recoveries takes a table
\* of the ledger past its capacity or puts anything but a magnitude in it.
THEOREM PropTypesHold == Spec => []PropTypeOK
<1>1. Spec => [](AccTypes /\ CountTypes /\ FlagTypes /\ DampInv)
  BY RootAlways, CountsAlways, DampAlways, PTL
<1>2. TravTypes /\ AccTypes /\ CountTypes /\ DampInv /\ LedgerTypes /\ [Next]_vars => LedgerTypes'
  BY LedgerTypesStep
<1>3. Spec => []LedgerTypes
  BY <1>1, <1>2, ExplTypesAlways, LedgerTypesInit, PTL DEF Spec
<1>4. TravTypes /\ AccTypes /\ CountTypes /\ FlagTypes /\ DampInv /\ LedgerTypes
      /\ expl \in Explanation => PropTypeOK
  <2> SUFFICES ASSUME TravTypes, AccTypes, CountTypes, FlagTypes, DampInv, LedgerTypes,
                      expl \in Explanation
               PROVE  PropTypeOK
    OBVIOUS
  <2>1. ASSUME NEW K, NEW capacity, NEW m, m \in Tables(K), Within(capacity, m)
        PROVE  /\ DOMAIN m \in SUBSET K /\ Range(m) \subseteq Level
               /\ Cardinality(DOMAIN m) <= capacity
    <3>1. PICK D \in SUBSET K : m \in [D -> Level]
      BY <2>1, Zenon DEF Tables
    <3>2. DOMAIN m = D /\ \A k \in D : m[k] \in Level
      BY <3>1
    <3> QED
      BY <2>1, <3>1, <3>2, Zenon DEF Within, Range
  <2>2. /\ DOMAIN applications \in SUBSET (Nat \X Resources) /\ Range(applications) \subseteq Level
        /\ Cardinality(DOMAIN applications) <= ApplicationCapacity
    <3>1. applications \in Tables(ApplicationKeys) /\ Within(ApplicationCapacity, applications)
      BY Zenon DEF LedgerTypes, ApplicationTables
    <3>2. PICK m : m = applications
      OBVIOUS
    <3>3. /\ DOMAIN m \in SUBSET ApplicationKeys /\ Range(m) \subseteq Level
          /\ Cardinality(DOMAIN m) <= ApplicationCapacity
      BY <2>1, <3>1, <3>2, Zenon
    <3> QED
      BY <3>2, <3>3, Zenon DEF ApplicationKeys
  <2>3. /\ DOMAIN damping \in SUBSET (Resources \X Nat) /\ Range(damping) \subseteq Level
        /\ Cardinality(DOMAIN damping) <= DampingCapacity
    <3>1. damping \in Tables(DampingKeys) /\ Within(DampingCapacity, damping)
      BY Zenon DEF DampInv, DampingTables
    <3>2. PICK m : m = damping
      OBVIOUS
    <3>3. /\ DOMAIN m \in SUBSET DampingKeys /\ Range(m) \subseteq Level
          /\ Cardinality(DOMAIN m) <= DampingCapacity
      BY <2>1, <3>1, <3>2, Zenon
    <3> QED
      BY <3>2, <3>3, Zenon DEF DampingKeys
  <2>4. DOMAIN damping \subseteq Resources \X EdgeIds
    <3>1. ASSUME NEW k \in DOMAIN damping PROVE k \in Resources \X EdgeIds
      <4>1. k \in Resources \X Nat /\ k[2] \in EdgeIds
        BY <2>3, <3>1, Zenon DEF LedgerTypes
      <4> QED
        BY <4>1
    <3> QED
      BY <3>1
  <2>5. Range(applications) \cup Range(damping) \subseteq Level
    BY <2>2, <2>3
  <2>6. DOMAIN acc = Resources
    BY DEF AccTypes
  <2>7. expl.budget \in Nat /\ expl.pending \in [Reasons -> Nat]
    BY ExplanationFields
  <2>8. request.batch \in Seq(Signal)
    BY DEF TravTypes, RequestForms
  <2>9. DOMAIN applications \subseteq Nat \X Resources
    BY <2>2
  <2> QED
    BY <2>2, <2>3, <2>4, <2>5, <2>6, <2>7, <2>8, <2>9, Zenon
       DEF PropTypeOK, TravTypes, CountTypes, FlagTypes, LedgerTypes
<1> QED
  BY <1>1, <1>3, <1>4, ExplTypesAlways, PTL
=============================================================================
