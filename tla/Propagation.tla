----------------------------- MODULE Propagation -----------------------------
(***************************************************************************)
(* The propagation engine and its ledger (engine/engine.cpp).  A request   *)
(* carries signals; each live one is propagated by a bounded best-first    *)
(* traversal of the topology, the arrivals of all of them are combined per *)
(* resource, and the ledger is written once at the end.  One step of the   *)
(* module is one iteration of a loop of the code: settling a resource, or  *)
(* considering one of its edges.                                           *)
(*                                                                         *)
(* Magnitudes, attenuations and gains are Q16 numbers, that is, multiples  *)
(* of 1/One; potentials are multiples of 1/(One * One).  In the code One   *)
(* is 65536; the products stay below 2^53, so nothing wraps around.        *)
(***************************************************************************)
EXTENDS Integers, Sequences, FiniteSets, SequencesExt, FiniteSetsExt

CONSTANTS
    One,                    \* Q16::kScale, the raw value of 1.0
    Resources,              \* resource identities, in the order of their indices
    Contexts,               \* the topologies, policies and fence tables in use together
    Requests,               \* what callers may ask for: [batch, now, pins, budget, dry]
    Recoveries,             \* [source, residual, now]
    MaxRequests,            \* bounds the number of requests
    MaxSources,             \* policy.max_sources
    MaxContributions,       \* kMaxContributionsPerNode
    LineageCapacity, ApplicationCapacity, DampingCapacity,
    Nowhere                 \* no resource: the parent of an origin

ASSUME PropagationAssumption ==
    /\ One \in Nat \ {0}
    /\ Resources \subseteq Nat /\ IsFiniteSet(Resources)
    /\ Nowhere \notin Resources
    /\ MaxSources \in Nat \ {0}
    /\ MaxContributions \in Nat \ {0}
    /\ LineageCapacity \in Nat \ {0}
    /\ {ApplicationCapacity, DampingCapacity, MaxRequests} \subseteq Nat

(***************************************************************************)
(* The values of the engine's context and of its requests.                 *)
(***************************************************************************)
Magnitude == 0..One
Gains == One..(8 * One)
Potential == 0..(One * One)

ProtectionClasses == {"None", "ObservedOnly", "Barrier", "Sealed"}

\* The flags Barrier and Provisional are never read by the engine.
EdgeFlags == {"Amplifying", "RecoveryOnly", "Barrier"}

Edge == [from : Resources, to : Resources, attenuation : Magnitude, gain : Gains,
         flags : SUBSET EdgeFlags, maxHops : Nat, cooldown : Nat]

\* A resource that does not accept propagation is refused as an ObservedOnly one is.
Topology == [class : [Resources -> ProtectionClasses], edges : Seq(Edge)]

Bound == Nat \ {0}

PolicyForms ==
          [maxHops : Bound, maxFanout : Bound, maxExpansions : Bound, maxVisited : Bound,
           maxRecords : Bound, floor : Magnitude, ceiling : Magnitude,
           aggregation : {"Max", "WeightedMax", "PriorityFirst", "SaturatingSum"},
           amplify : BOOLEAN, maxGain : Gains, cooldown : Nat, hysteresis : Magnitude,
           perStep : Magnitude, stepTicks : Bound, decayFloor : Magnitude,
           maxSteps : Bound]

\* What validate() asks of the record budget.
Policy == {p \in PolicyForms : p.maxRecords >= p.maxExpansions + p.maxVisited}

Fence == [resource : Resources, kind : {"RefuseIngress", "RefuseEgress", "Barrier"},
          expires : Nat]

\* A signal is its own lineage, which is a digest of its content.  valid is what
\* PressureSignal::validate() and the checks of propagate() find of its bindings;
\* scope is every resource for a global authority.
Signal == [source : Nat, origin : Nat, magnitude : Magnitude, weight : Magnitude,
           priority : Nat, valid : BOOLEAN, deadline : Nat, scope : SUBSET Resources,
           maxHops : Nat, amplify : BOOLEAN, maxGain : Gains]

\* The tick of a request is its caller's and need not grow: an asynchronous publish
\* keeps the tick it was submitted with.  pins are the edges pinned to a generation they
\* no longer have, budget is record_budget_override, dry a plan.
Request == [batch : Seq(Signal), now : Nat, pins : SUBSET Nat, budget : Nat, dry : BOOLEAN]

Recovery == [source : Nat, residual : Magnitude, now : Nat]

ASSUME ContextAssumption ==
    /\ Contexts \subseteq [topology : Topology, policy : Policy, fences : Seq(Fence)]
    /\ Requests \subseteq Request
    /\ Recoveries \subseteq Recovery

VARIABLES topology, policy, fences      \* EngineContext, fixed for a behaviour

context == <<topology, policy, fences>>

VARIABLES
    lineages,       \* lineage_order_
    applications,   \* <<source, resource>> -> [magnitude, tick]
    damping         \* <<resource, edge>> -> [magnitude, tick]

ledger == <<lineages, applications, damping>>

VARIABLES
    phase,          \* "idle", or where the request is: see Phases
    requests,       \* requests so far
    request,        \* [batch, live, left : positions of signals, now, pins, budget, dry]
    acc,            \* the accumulator of each resource
    accepted,       \* counters.signals_accepted
    truncated,
    hops            \* the hop records of the explanations so far, one sequence each

requestVars == <<requests, request, acc, accepted, truncated, hops>>

VARIABLES
    signal,         \* the signal being propagated
    queue,          \* entries not yet popped
    settled,        \* the entries settled, in order
    todo,           \* the edges of the last one that are still to be considered
    fanout,
    expansions,
    budgetStop,
    expl            \* [budget, from, pending, records]: the explanation of refused edges

traversalVars == <<signal, queue, settled, todo, fanout, expansions, budgetStop, expl>>

vars == <<context, ledger, phase, requestVars, traversalVars>>

Phases == {"idle", "signal", "settle", "edges"}

(***************************************************************************)
(* Fixed point arithmetic (core/fixed.hpp).                                *)
(***************************************************************************)
Least(a, b) == IF a < b THEN a ELSE b

FromMagnitude(m) == m * One

ToMagnitude(p) == Least(One, (p + One \div 2) \div One)

Attenuated(p, attenuation) == (p * attenuation) \div One

\* amplified() refuses what would exceed 1.0.
CanAmplify(p, gain) == gain = One \/ p = 0 \/ p <= (One * One * One) \div gain

Amplified(p, gain) ==
    IF gain = One \/ p = 0 THEN p ELSE Least(One * One, (p * gain) \div One)

Decayed(start, steps) ==
    LET n == Least(steps, policy.maxSteps)
        raw[i \in 0..n] ==
            IF i = 0 THEN start ELSE (raw[i - 1] * policy.perStep) \div One
        low == IF raw[n] < policy.decayFloor THEN policy.decayFloor ELSE raw[n]
    IN  Least(low, start)

(***************************************************************************)
(* Resources, edges, fences and authority.                                 *)
(***************************************************************************)
CanReceive(r) == topology.class[r] \notin {"Sealed", "ObservedOnly"}
CanForward(r) == CanReceive(r) /\ topology.class[r] # "Barrier"

EdgeIds == DOMAIN topology.edges
OutEdges(r) == {i \in EdgeIds : topology.edges[i].from = r}

IsAmplifying(e) == "Amplifying" \in e.flags /\ e.gain # One

\* The indices of the live fences at r; governing() takes the first of the strongest.
LiveFences(r) ==
    {i \in DOMAIN fences : /\ fences[i].resource = r
                           /\ fences[i].expires = 0 \/ request.now <= fences[i].expires}

Governing(r) ==
    LET barriers == {i \in LiveFences(r) : fences[i].kind = "Barrier"}
    IN  IF barriers # {} THEN {"Barrier"}
        ELSE IF LiveFences(r) = {} THEN {}
        ELSE {fences[Min(LiveFences(r))].kind}

RefusesIngress(r) == Governing(r) \cap {"RefuseIngress", "Barrier"} # {}
RefusesEgress(r) == Governing(r) \cap {"RefuseEgress", "Barrier"} # {}

AuthorityHops ==
    IF signal.maxHops = 0 THEN policy.maxHops ELSE Least(signal.maxHops, policy.maxHops)

EffectiveMaxHops(e) ==
    IF e.maxHops = 0 THEN policy.maxHops ELSE Least(e.maxHops, policy.maxHops)

EffectiveCooldown(e) == IF e.cooldown = 0 THEN policy.cooldown ELSE e.cooldown

MayAmplifyByPolicy == policy.amplify
MayAmplify == policy.amplify /\ signal.amplify
GrantedGain == IF MayAmplify THEN Least(policy.maxGain, signal.maxGain) ELSE One

(***************************************************************************)
(* What a traversal works on.                                              *)
(***************************************************************************)
Entry == [node : Resources, potential : Potential, depth : Nat, gain : Nat,
          parent : Resources \cup {Nowhere}, edge : Nat]

Hop == [from : Resources, to : Resources, edge : Nat, depth : Nat,
        before : Potential, after : Potential]

\* The order of the enumeration SuppressionReason, as far as the engine uses it.
ReasonOrder == <<"BelowFloor", "MaxHops", "MaxFanout", "NodeAlreadySettled",
                 "ProtectedBoundary", "SealedResource", "ObservedOnlyResource",
                 "StaleDependencyGeneration", "Fenced", "HysteresisNotExceeded",
                 "UnauthorizedScope", "AmplificationNotAuthorized",
                 "AmplificationBudgetExhausted", "ExpansionBudgetExhausted",
                 "RecoveryOnlyEdge", "ZeroAttenuation">>

Reasons == Range(ReasonOrder)

IsSettled(r) == \E k \in DOMAIN settled : settled[k].node = r
Current == settled[Len(settled)]

BeforeByDepth(a, b) ==
    \/ a.depth < b.depth
    \/ a.depth = b.depth /\ a.potential > b.potential
    \/ a.depth = b.depth /\ a.potential = b.potential /\ a.node < b.node

\* QueueEntryLess.  Entries of one resource with equal potential and depth are not
\* ordered: which of them is on top is up to the heap.
Before(a, b) ==
    \/ a.potential > b.potential
    \/ a.potential = b.potential /\ a.depth < b.depth
    \/ a.potential = b.potential /\ a.depth = b.depth /\ a.node < b.node

Top == {e \in queue : \A other \in queue : ~Before(other, e)}

(***************************************************************************)
(* reject(), flush_suppressions() and suppress_all(): refused edges are    *)
(* counted per reason and recorded when the traversal leaves a resource.   *)
(***************************************************************************)
NoRefusals == [reason \in Reasons |-> 0]

Rejected(x, from, reason, n) == [x EXCEPT !.from = from, !.pending[reason] = @ + n]

\* One reason: a record takes one of the record budget, and without budget is not made.
Flush(x, reason) ==
    IF x.pending[reason] = 0 \/ x.budget = 0 THEN x
    ELSE [x EXCEPT !.budget = @ - 1,
                   !.pending[reason] = 0,
                   !.records = Append(@, [from |-> x.from, reason |-> reason,
                                          count |-> x.pending[reason]])]

Emitted(x) == FoldLeft(Flush, x, ReasonOrder)

Fits(x) == Emitted(x).pending = NoRefusals

\* What could not be recorded is forgotten.
Flushed(x) == [Emitted(x) EXCEPT !.pending = NoRefusals]

(***************************************************************************)
(* Admission of a request.  A request that fails as a whole changes        *)
(* nothing and is not a step.                                              *)
(***************************************************************************)
NoAccumulator == [received |-> FALSE, best |-> 0, source |-> 0, depth |-> 0,
                  parent |-> Nowhere, contributions |-> <<>>, count |-> 0]

Valid(s, now) == s.valid /\ now <= s.deadline

\* The positions of the signals taken: of several from one source the first valid one.
Admitted(batch, now) ==
    {i \in DOMAIN batch : /\ Valid(batch[i], now)
                          /\ \A j \in 1..(i - 1) :
                                batch[j].source = batch[i].source => ~Valid(batch[j], now)}

Propagate(q) ==
    /\ phase = "idle" /\ requests < MaxRequests
    /\ q.batch # <<>> /\ Len(q.batch) <= MaxSources
    /\ q.pins \subseteq EdgeIds
    /\ Admitted(q.batch, q.now) # {}
    /\ LET live == {i \in Admitted(q.batch, q.now) : q.batch[i] \notin Range(lineages)}
       IN  request' = [batch |-> q.batch, live |-> live, left |-> live, now |-> q.now,
                       pins |-> q.pins, budget |-> q.budget, dry |-> q.dry]
    /\ phase' = "signal"
    /\ requests' = requests + 1
    /\ acc' = [r \in Resources |-> NoAccumulator]
    /\ accepted' = 0
    /\ truncated' = FALSE
    /\ hops' = <<>>
    /\ UNCHANGED <<context, ledger, traversalVars>>

RecordBudget ==
    IF request.budget = 0 THEN policy.maxRecords ELSE Least(request.budget, policy.maxRecords)

NewExplanation == [budget |-> RecordBudget, from |-> Nowhere, pending |-> NoRefusals,
                   records |-> <<>>]

\* Signals are propagated in the order of the request.
NextSignal == request.batch[Min(request.left)]

\* A signal whose origin the topology does not have, or that observed no pressure at all,
\* is refused; what it leaves of the traversal is never read.
RejectSignal ==
    /\ phase = "signal" /\ request.left # {}
    /\ NextSignal.origin \notin Resources \/ NextSignal.magnitude = 0
    /\ request' = [request EXCEPT !.left = @ \ {Min(@)}]
    /\ UNCHANGED <<context, ledger, phase, requests, acc, accepted, truncated, hops,
                   traversalVars>>

BeginSignal ==
    /\ phase = "signal" /\ request.left # {}
    /\ NextSignal.origin \in Resources /\ NextSignal.magnitude # 0
    /\ signal' = NextSignal
    /\ request' = [request EXCEPT !.left = @ \ {Min(@)}]
    /\ accepted' = accepted + 1
    /\ settled' = <<>>
    /\ todo' = {}
    /\ fanout' = 0
    /\ expansions' = 0
    /\ budgetStop' = FALSE
    /\ hops' = Append(hops, <<>>)
    /\ LET origin == signal'.origin
           class == topology.class[origin]
           n == Cardinality(OutEdges(origin))
           blocked == CASE RefusesIngress(origin) -> "Fenced"
                        [] class = "Sealed" -> "SealedResource"
                        [] OTHER -> "ObservedOnlyResource"
           refused == Rejected(NewExplanation, origin, blocked, n)
       IN  IF RefusesIngress(origin) \/ ~CanReceive(origin)
           THEN /\ phase' = "signal"
                /\ queue' = {}
                /\ acc' = [acc EXCEPT ![origin].received = FALSE]
                /\ expl' = Flushed(refused)
                /\ truncated' = (truncated \/ ~Fits(refused))
           ELSE /\ phase' = "settle"
                /\ queue' = {[node |-> origin, potential |-> FromMagnitude(signal'.magnitude),
                              depth |-> 0, gain |-> One, parent |-> Nowhere, edge |-> 0]}
                /\ expl' = NewExplanation
                /\ UNCHANGED <<acc, truncated>>
    /\ UNCHANGED <<context, ledger, requests>>

(***************************************************************************)
(* Traversal::run(): the loop over the queue.                              *)
(***************************************************************************)
\* The end of run(): the last refusals are flushed.
EndTraversal ==
    /\ expl' = Flushed(expl)
    /\ truncated' = (truncated \/ ~Fits(expl))
    /\ phase' = "signal"

StopTraversal ==
    /\ phase = "settle"
    /\ queue = {} \/ Len(settled) >= policy.maxVisited
    /\ EndTraversal
    /\ UNCHANGED <<context, ledger, requests, request, acc, accepted, hops, signal, queue,
                   settled, todo, fanout, expansions, budgetStop>>

DropEntry(e) ==
    /\ phase = "settle" /\ Len(settled) < policy.maxVisited
    /\ IsSettled(e.node)
    /\ queue' = queue \ {e}
    /\ UNCHANGED <<context, ledger, phase, requestVars, signal, settled, todo, fanout,
                   expansions, budgetStop, expl>>

\* begin_node() cannot record the refusals of the resource before.
SettleUnexplained(e) ==
    /\ phase = "settle" /\ Len(settled) < policy.maxVisited
    /\ ~IsSettled(e.node)
    /\ ~Fits(expl)
    /\ expl' = Flushed(expl)
    /\ truncated' = TRUE
    /\ phase' = "signal"
    /\ queue' = queue \ {e}
    /\ UNCHANGED <<context, ledger, requests, request, acc, accepted, hops, signal, settled,
                   todo, fanout, expansions, budgetStop>>

WeightedMagnitude(m) == Least(One, (m * signal.weight) \div One)

\* What the signal brings to a resource it settles with potential p.
ContributionOf(p) ==
    [source |-> signal.source, magnitude |-> ToMagnitude(p),
     weighted |-> WeightedMagnitude(ToMagnitude(p)), priority |-> signal.priority]

\* Every arrival is counted, but only the first MaxContributions are kept.
Accumulated(a, e, better) ==
    [received |-> TRUE,
     best |-> IF better THEN e.potential ELSE a.best,
     source |-> IF better THEN signal.source ELSE a.source,
     depth |-> IF better THEN e.depth ELSE a.depth,
     parent |-> IF better THEN e.parent ELSE a.parent,
     contributions |-> IF Len(a.contributions) < MaxContributions
                       THEN Append(a.contributions, ContributionOf(e.potential))
                       ELSE a.contributions,
     count |-> a.count + 1]

RecordSettlementWeakest(a, e) == Accumulated(a, e, ~a.received \/ e.potential < a.best)

RecordSettlementKept(a, e) ==
    Accumulated(a, e, /\ Len(a.contributions) < MaxContributions
                      /\ ~a.received \/ e.potential > a.best)

RecordSettlement(a, e) == Accumulated(a, e, ~a.received \/ e.potential > a.best)

\* Why nothing leaves the resource of e, or "None".
EgressRefusal(e) ==
    IF e.depth >= AuthorityHops THEN "MaxHops"
    ELSE IF ~CanForward(e.node) THEN "ProtectedBoundary"
    ELSE IF RefusesEgress(e.node) THEN "Fenced"
    ELSE "None"

SettleAgain(e) ==
    /\ phase = "settle" /\ Len(settled) < policy.maxVisited
    /\ Fits(expl)
    /\ queue' = queue \ {e}
    /\ settled' = Append(settled, e)
    /\ acc' = [acc EXCEPT ![e.node] = RecordSettlement(@, e)]
    /\ fanout' = 0
    /\ LET x == Flushed(expl)
           outs == OutEdges(e.node)
           refused == Rejected(x, e.node, EgressRefusal(e), Cardinality(outs))
       IN  IF EgressRefusal(e) = "None"
           THEN /\ phase' = "edges"
                /\ todo' = outs
                /\ expl' = x
                /\ UNCHANGED truncated
           ELSE /\ phase' = "settle"
                /\ todo' = {}
                /\ expl' = Flushed(refused)
                /\ truncated' = (truncated \/ ~Fits(refused))
    /\ UNCHANGED <<context, ledger, requests, request, accepted, hops, signal, expansions,
                   budgetStop>>

Settle(e) ==
    /\ phase = "settle" /\ Len(settled) < policy.maxVisited
    /\ ~IsSettled(e.node)
    /\ Fits(expl)
    /\ queue' = queue \ {e}
    /\ settled' = Append(settled, e)
    /\ acc' = [acc EXCEPT ![e.node] = RecordSettlement(@, e)]
    /\ fanout' = 0
    /\ LET x == Flushed(expl)
           outs == OutEdges(e.node)
           refused == Rejected(x, e.node, EgressRefusal(e), Cardinality(outs))
       IN  IF EgressRefusal(e) = "None"
           THEN /\ phase' = "edges"
                /\ todo' = outs
                /\ expl' = x
                /\ UNCHANGED truncated
           ELSE /\ phase' = "settle"
                /\ todo' = {}
                /\ expl' = Flushed(refused)
                /\ truncated' = (truncated \/ ~Fits(refused))
    /\ UNCHANGED <<context, ledger, requests, request, accepted, hops, signal, expansions,
                   budgetStop>>

(***************************************************************************)
(* Traversal::run(): the loop over the edges of the settled resource.      *)
(***************************************************************************)
\* The edges out of a resource are considered in the order of their indices.
NextEdge == Min(todo)

RequestedGain(e) == (Current.gain * e.gain) \div One

Offer(e) ==
    LET p == Attenuated(Current.potential, e.attenuation)
    IN  IF IsAmplifying(e) THEN Amplified(p, e.gain) ELSE p

DampedWithoutHysteresis(i, p) ==
    LET e == topology.edges[i]
        key == <<e.to, i>>
    IN  /\ EffectiveCooldown(e) > 0
        /\ key \in DOMAIN damping
        /\ request.now - damping[key].tick < EffectiveCooldown(e)
        /\ ToMagnitude(p) <= damping[key].magnitude

\* The cooldown of edge i into its target is running, and p is not enough to break it.
Damped(i, p) ==
    LET e == topology.edges[i]
        key == <<e.to, i>>
    IN  /\ EffectiveCooldown(e) > 0
        /\ key \in DOMAIN damping
        /\ request.now - damping[key].tick < EffectiveCooldown(e)
        /\ ToMagnitude(p) <= Least(One, damping[key].magnitude + policy.hysteresis)

\* The checks of an edge, in the order of the code: the first that holds refuses it.
Checks(i) ==
    LET e == topology.edges[i]
        p == Attenuated(Current.potential, e.attenuation)
    IN  << <<fanout >= policy.maxFanout, "MaxFanout">>,
           <<expansions >= policy.maxExpansions, "ExpansionBudgetExhausted">>,
           <<i \in request.pins, "StaleDependencyGeneration">>,
           <<e.attenuation = 0, "ZeroAttenuation">>,
           <<"RecoveryOnly" \in e.flags, "RecoveryOnlyEdge">>,
           <<topology.class[e.to] = "Sealed", "SealedResource">>,
           <<~CanReceive(e.to), "ObservedOnlyResource">>,
           <<IsSettled(e.to), "NodeAlreadySettled">>,
           <<e.to \notin signal.scope, "UnauthorizedScope">>,
           <<RefusesIngress(e.to), "Fenced">>,
           <<Current.depth + 1 > Least(EffectiveMaxHops(e), AuthorityHops), "MaxHops">>,
           <<IsAmplifying(e) /\ ~MayAmplify, "AmplificationNotAuthorized">>,
           <<IsAmplifying(e) /\ (RequestedGain(e) > GrantedGain \/ ~CanAmplify(p, e.gain)),
             "AmplificationBudgetExhausted">>,
           <<Offer(e) < FromMagnitude(policy.floor), "BelowFloor">>,
           <<Damped(i, Offer(e)), "HysteresisNotExceeded">> >>

Failing(i) == {k \in DOMAIN Checks(i) : Checks(i)[k][1]}
Refusal(i) == Checks(i)[Min(Failing(i))][2]

RefuseEdgeAndRest ==
    /\ phase = "edges" /\ todo # {}
    /\ Failing(NextEdge) # {}
    /\ expl' = Rejected(expl, Current.node, Refusal(NextEdge), 1)
    /\ budgetStop' = (budgetStop \/ Refusal(NextEdge) = "ExpansionBudgetExhausted")
    /\ todo' = IF budgetStop' THEN {} ELSE todo \ {NextEdge}
    /\ UNCHANGED <<context, ledger, phase, requestVars, signal, queue, settled, fanout,
                   expansions>>

RefuseEdge ==
    /\ phase = "edges" /\ todo # {}
    /\ Failing(NextEdge) # {}
    /\ expl' = Rejected(expl, Current.node, Refusal(NextEdge), 1)
    /\ budgetStop' = (budgetStop \/ Refusal(NextEdge) = "ExpansionBudgetExhausted")
    /\ todo' = todo \ {NextEdge}
    /\ UNCHANGED <<context, ledger, phase, requestVars, signal, queue, settled, fanout,
                   expansions>>

Forward ==
    /\ phase = "edges" /\ todo # {}
    /\ Failing(NextEdge) = {}
    /\ expl.budget > 0
    /\ LET i == NextEdge
           e == topology.edges[i]
           hop == [from |-> Current.node, to |-> e.to, edge |-> i, depth |-> Current.depth,
                   before |-> Current.potential, after |-> Offer(e)]
           entry == [node |-> e.to, potential |-> Offer(e), depth |-> Current.depth + 1,
                     gain |-> IF IsAmplifying(e) THEN RequestedGain(e) ELSE Current.gain,
                     parent |-> Current.node, edge |-> i]
       IN  /\ hops' = [hops EXCEPT ![Len(hops)] = Append(@, hop)]
           /\ queue' = queue \cup {entry}
    /\ expl' = [expl EXCEPT !.budget = @ - 1]
    /\ fanout' = fanout + 1
    /\ expansions' = expansions + 1
    /\ todo' = todo \ {NextEdge}
    /\ UNCHANGED <<context, ledger, phase, requests, request, acc, accepted, truncated,
                   signal, settled, budgetStop>>

\* No record is left for the hop: the traversal stops before it makes it.
TruncateHop ==
    /\ phase = "edges" /\ todo # {}
    /\ Failing(NextEdge) = {}
    /\ expl.budget = 0
    /\ expl' = Flushed(expl)
    /\ truncated' = TRUE
    /\ phase' = "signal"
    /\ UNCHANGED <<context, ledger, requests, request, acc, accepted, hops, signal, queue,
                   settled, todo, fanout, expansions, budgetStop>>

LeaveNode ==
    /\ phase = "edges" /\ todo = {}
    /\ IF budgetStop THEN EndTraversal
       ELSE phase' = "settle" /\ UNCHANGED <<expl, truncated>>
    /\ UNCHANGED <<context, ledger, requests, request, acc, accepted, hops, signal, queue,
                   settled, todo, fanout, expansions, budgetStop>>

(***************************************************************************)
(* The end of propagate(): aggregation, and the commit to the ledger.      *)
(***************************************************************************)
Best(cs, field) == Max({c[field] : c \in Range(cs)})

\* Lowest source_priority, then highest magnitude, then lowest source.
Wins(c, winner) ==
    \/ c.priority < winner.priority
    \/ c.priority = winner.priority /\ c.magnitude > winner.magnitude
    \/ c.priority = winner.priority /\ c.magnitude = winner.magnitude
       /\ c.source < winner.source

PriorityFirst(cs) ==
    FoldLeft(LAMBDA winner, c : IF Wins(c, winner) THEN c ELSE winner, cs[1], cs).magnitude

AggregateContributions(cs) ==
    IF cs = <<>> THEN 0
    ELSE CASE policy.aggregation = "Max" -> Best(cs, "magnitude")
           [] policy.aggregation = "WeightedMax" -> Best(cs, "weighted")
           [] policy.aggregation = "PriorityFirst" -> PriorityFirst(cs)
           [] OTHER -> Least(One, FoldLeft(LAMBDA sum, c : sum + c.magnitude, 0, cs))

Applied(a) ==
    IF a.received THEN Least(policy.ceiling, AggregateContributions(a.contributions)) ELSE 0

MarkedForEver(known, lineage) ==
    IF lineage \in Range(known) THEN known ELSE Append(known, lineage)

\* mark_lineage(): a lineage that is new may evict the oldest.
Marked(known, lineage) ==
    IF lineage \in Range(known) THEN known
    ELSE LET longer == Append(known, lineage)
         IN  IF Len(longer) > LineageCapacity THEN Tail(longer) ELSE longer

\* record_application() and record_damping(): a new key needs a place in the table.
Record(capacity, t, item) ==
    IF t.full THEN t
    ELSE IF item[1] \in DOMAIN t.map \/ Cardinality(DOMAIN t.map) < capacity
    THEN [t EXCEPT !.map = [k \in DOMAIN @ \cup {item[1]} |->
                               IF k = item[1] THEN item[2] ELSE @[k]]]
    ELSE [t EXCEPT !.full = TRUE]

\* They are called one by one, up to the first new key that finds the table full.
Recorded(table, capacity, items) ==
    FoldLeft(LAMBDA t, item : Record(capacity, t, item),
             [map |-> table, full |-> FALSE], items).map

\* A set of indices or identities, as a loop visits it.
Ascending(S) ==
    CHOOSE s \in [1..Cardinality(S) -> S] : \A i, j \in DOMAIN s : i < j => s[i] < s[j]

\* The resources under pressure, by identity.
PressedNodes == Ascending({r \in Resources : Applied(acc[r]) > 0})

ApplicationItems ==
    [i \in DOMAIN PressedNodes |->
        LET r == PressedNodes[i]
        IN  <<<<acc[r].source, r>>, [magnitude |-> Applied(acc[r]), tick |-> request.now]>>]

DampingItems(records) ==
    [i \in DOMAIN records |->
        <<<<records[i].to, records[i].edge>>,
          [magnitude |-> ToMagnitude(records[i].after), tick |-> request.now]>>]

LiveSignals ==
    LET order == Ascending(request.live)
    IN  [k \in DOMAIN order |-> request.batch[order[k]]]

\* Nothing is committed when every live signal was refused, by a plan, or by a request
\* that could not be explained.
Commit ==
    /\ phase = "signal" /\ request.left = {}
    /\ phase' = "idle"
    /\ IF accepted > 0 /\ ~request.dry /\ ~truncated
       THEN /\ lineages' = FoldLeft(Marked, lineages, LiveSignals)
            /\ applications' = Recorded(applications, ApplicationCapacity, ApplicationItems)
            /\ damping' = FoldLeft(LAMBDA d, records :
                                       Recorded(d, DampingCapacity, DampingItems(records)),
                                   damping, hops)
       ELSE UNCHANGED ledger
    /\ UNCHANGED <<context, requestVars, traversalVars>>

(***************************************************************************)
(* PropagationEngine::recover(): the pressure a source has applied decays, *)
(* once, and by the time since it was last written.                        *)
(***************************************************************************)
RecoveredMagnitude(record, residual, now) ==
    LET steps == IF now > record.tick THEN (now - record.tick) \div policy.stepTicks ELSE 0
    IN  Least(residual, Decayed(record.magnitude, steps))

Recover(q) ==
    /\ phase = "idle" /\ requests < MaxRequests
    /\ requests' = requests + 1
    /\ applications' =
         [k \in DOMAIN applications |->
             IF k[1] = q.source
             THEN [magnitude |-> RecoveredMagnitude(applications[k], q.residual, q.now),
                   tick |-> q.now]
             ELSE applications[k]]
    /\ UNCHANGED <<context, lineages, damping, phase, request, acc, accepted, truncated, hops,
                   traversalVars>>

NoSignal == [source |-> 0, origin |-> 0, magnitude |-> 0, weight |-> 0, priority |-> 0,
             valid |-> FALSE, deadline |-> 0, scope |-> {}, maxHops |-> 0,
             amplify |-> FALSE, maxGain |-> One]

NoRequest == [batch |-> <<>>, live |-> {}, left |-> {}, now |-> 0, pins |-> {}, budget |-> 0,
              dry |-> TRUE]

Init ==
    /\ \E c \in Contexts : topology = c.topology /\ policy = c.policy /\ fences = c.fences
    /\ lineages = <<>>
    /\ applications = <<>>
    /\ damping = <<>>
    /\ phase = "idle"
    /\ requests = 0
    /\ request = NoRequest
    /\ acc = [r \in Resources |-> NoAccumulator]
    /\ accepted = 0
    /\ truncated = FALSE
    /\ hops = <<>>
    /\ signal = NoSignal
    /\ queue = {}
    /\ settled = <<>>
    /\ todo = {}
    /\ fanout = 0
    /\ expansions = 0
    /\ budgetStop = FALSE
    /\ expl = [budget |-> 0, from |-> Nowhere, pending |-> NoRefusals, records |-> <<>>]

Traverse ==
    \/ StopTraversal
    \/ \E e \in Top : DropEntry(e) \/ SettleUnexplained(e) \/ Settle(e)
    \/ RefuseEdge \/ Forward \/ TruncateHop \/ LeaveNode

Next ==
    \/ \E q \in Requests : Propagate(q)
    \/ RejectSignal \/ BeginSignal
    \/ Traverse
    \/ Commit
    \/ \E q \in Recoveries : Recover(q)

Spec == Init /\ [][Next]_vars

-----------------------------------------------------------------------------

Level == [magnitude : Magnitude, tick : Nat]

\* Every variable has its type, potentials stay within 1.0, and the tables of the ledger
\* respect their capacities.
PropTypeOK ==
    /\ phase \in Phases
    /\ lineages \in Seq(Signal) /\ Len(lineages) <= LineageCapacity
    /\ DOMAIN applications \subseteq Nat \X Resources
    /\ DOMAIN damping \subseteq Resources \X EdgeIds
    /\ Range(applications) \cup Range(damping) \subseteq Level
    /\ Cardinality(DOMAIN applications) <= ApplicationCapacity
    /\ Cardinality(DOMAIN damping) <= DampingCapacity
    /\ requests \in 0..MaxRequests
    /\ request.batch \in Seq(Signal)
    /\ request.left \subseteq request.live /\ request.live \subseteq DOMAIN request.batch
    /\ DOMAIN acc = Resources
    /\ accepted \in Nat /\ truncated \in BOOLEAN
    /\ hops \in Seq(Seq(Hop))
    /\ signal \in Signal
    /\ queue \subseteq Entry
    /\ settled \in Seq(Entry) /\ Len(settled) <= policy.maxVisited
    /\ todo \subseteq EdgeIds
    /\ fanout \in 0..policy.maxFanout /\ expansions \in 0..policy.maxExpansions
    /\ budgetStop \in BOOLEAN
    /\ expl.budget \in Nat /\ expl.pending \in [Reasons -> Nat]

Traversing == phase \in {"settle", "edges"}

\* No entry of a traversal, queued or settled, has more potential than the observation
\* unless both the policy and the authority of the signal grant amplification, and its
\* cumulative gain stays within the tighter of the two bounds (README.md:124).
AmplificationIsAuthorised ==
    Traversing =>
        \A e \in queue \cup Range(settled) :
            \/ e.potential <= FromMagnitude(signal.magnitude) /\ e.gain = One
            \/ /\ policy.amplify /\ signal.amplify
               /\ e.gain <= policy.maxGain /\ e.gain <= signal.maxGain

CurrentHops == IF hops = <<>> THEN {} ELSE Range(hops[Len(hops)])

\* Where nothing may amplify, resources settle in the order of their potential, and each
\* with the highest potential that any accepted edge has offered it: settling a resource
\* once, at its first arrival, loses nothing (README.md:107).
StrongestWins ==
    (Traversing /\ ~(policy.amplify /\ signal.amplify)) =>
        /\ \A j, k \in DOMAIN settled : j < k => settled[j].potential >= settled[k].potential
        /\ \A k \in DOMAIN settled, h \in CurrentHops :
              h.to = settled[k].node => h.after <= settled[k].potential

\* A resource settles once.  The first is the origin, and every other one is the end of
\* an accepted hop from a resource settled before it, whose record has exactly its
\* potential and depth, and whose depth respects the bounds of the policy, of the
\* authority and of the edge.
SettledByAPath ==
    Traversing =>
        \A k \in DOMAIN settled :
            LET e == settled[k]
            IN  /\ \A j \in 1..(k - 1) : settled[j].node # e.node
                /\ \/ k = 1 /\ e.node = signal.origin /\ e.parent = Nowhere /\ e.depth = 0
                   \/ \E h \in CurrentHops, j \in 1..(k - 1) :
                         /\ h.from = settled[j].node /\ h.before = settled[j].potential
                         /\ h.depth = settled[j].depth
                         /\ h.to = e.node /\ h.after = e.potential
                         /\ h.edge = e.edge /\ h.from = e.parent
                         /\ e.depth = h.depth + 1
                         /\ e.depth <= AuthorityHops
                         /\ e.depth <= EffectiveMaxHops(topology.edges[h.edge])

\* Every edge out of a resource that the signal reached is accounted for, by its hop
\* record or in the count of one aggregated refusal record of that resource, unless the
\* outcome says that it is truncated (README.md:152, "the exact count of refused edges").
EveryEdgeExplained ==
    (phase = "signal" /\ hops # <<>> /\ ~truncated) =>
        \A r \in {signal.origin} \cup {e.node : e \in Range(settled)} :
            Cardinality(OutEdges(r))
                = Cardinality({h \in CurrentHops : h.from = r})
                  + FoldLeft(LAMBDA sum, x : IF x.from = r THEN sum + x.count ELSE sum, 0,
                             expl.records)

\* Following the winning predecessors of the combined outcome leads from every resource
\* under pressure to the origin of a signal, although the winners on the way may belong
\* to different signals (README.md:155, "which reconstructs the full path").  With
\* amplification this can fail.
WinningPathIsRooted ==
    (phase = "signal" /\ ~policy.amplify) =>
        \A r \in Resources :
            LET up[n \in 0..Cardinality(Resources)] ==
                    IF n = 0 THEN r
                    ELSE IF up[n - 1] = Nowhere THEN Nowhere ELSE acc[up[n - 1]].parent
            IN  acc[r].received => /\ up[Cardinality(Resources)] = Nowhere
                                   /\ \A n \in 1..Cardinality(Resources) :
                                         up[n] # Nowhere => acc[up[n]].received

\* Within the cooldown of an edge its damping record is replaced only by a magnitude
\* that exceeds it by at least the hysteresis (model/policy.hpp:133), whichever requests
\* commit in between and whatever ticks they carry.
CooldownHolds ==
    [][\A k \in DOMAIN damping :
          LET cooldown == EffectiveCooldown(topology.edges[k[2]])
              elapsed == IF request.now > damping[k].tick
                         THEN request.now - damping[k].tick ELSE 0
          IN  damping'[k] # damping[k] =>
                  \/ elapsed >= cooldown
                  \/ damping'[k].magnitude >= damping[k].magnitude + policy.hysteresis]_vars

\* The strongest arrival of a resource and the source it is put down to are right whatever
\* order the signals of a request arrive in, although they are kept beside a list that
\* takes the first arrivals only (README.md:154, "strongest single contribution"): no
\* arrival of the signal being propagated and none in the list is stronger, and a list
\* that has all the arrivals has that one.
StrongestIsAccounted ==
    /\ Traversing =>
          \A k \in DOMAIN settled :
              LET a == acc[settled[k].node]
              IN  a.received /\ settled[k].potential <= a.best
    /\ \A r \in Resources :
          LET a == acc[r]
              cs == Range(a.contributions)
          IN  a.received =>
                  /\ \A c \in cs : c.magnitude <= ToMagnitude(a.best)
                  /\ a.count <= MaxContributions =>
                        /\ Len(a.contributions) = a.count
                        /\ \E c \in cs : /\ c.source = a.source
                                         /\ c.magnitude = ToMagnitude(a.best)

\* No pressure is applied where a live fence refuses it (model/fence.hpp:29, "No pressure
\* may be applied at this resource at all").
IngressFencesHold ==
    Traversing => \A k \in DOMAIN settled : \A i \in LiveFences(settled[k].node) :
                      fences[i].kind = "RefuseEgress"

\* The rule Max applies the strongest arrival of a resource (model/policy.hpp:27, "Take the
\* strongest single contribution").
MaxTakesTheStrongest ==
    (phase = "signal" /\ policy.aggregation = "Max") =>
        \A r \in Resources :
            acc[r].received =>
                AggregateContributions(acc[r].contributions) = ToMagnitude(acc[r].best)

\* Where the policy has a hysteresis, an edge is refused for it only if it offers less than
\* what the policy asks of a repeat (model/policy.hpp:133, "must exceed the previous
\* accepted magnitude by at least this much to be accepted again").
HysteresisIsEnough ==
    (phase = "edges" /\ todo # {} /\ policy.hysteresis > 0) =>
        LET e == topology.edges[NextEdge]
        IN  (Failing(NextEdge) # {} /\ Refusal(NextEdge) = "HysteresisNotExceeded") =>
                ToMagnitude(Offer(e))
                    < damping[<<e.to, NextEdge>>].magnitude + policy.hysteresis

\* A request that does not tighten the record budget is never truncated: the policy was
\* validated to afford its explanation (README.md:163, "the explanation is always
\* complete").
ExplanationAlwaysComplete == truncated => request.budget > 0
=============================================================================
