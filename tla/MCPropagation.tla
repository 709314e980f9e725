---------------------------- MODULE MCPropagation ----------------------------
(* Instances of the propagation engine for TLC: four resources, Q16 numbers in quarters. *)
EXTENDS Propagation

Nodes == 1..4

Link(from, to, attenuation) ==
    [from |-> from, to |-> to, attenuation |-> attenuation, gain |-> One, flags |-> {},
     maxHops |-> 0, cooldown |-> 0]

Amplifier(from, to, attenuation, gain) ==
    [Link(from, to, attenuation) EXCEPT !.gain = gain, !.flags = {"Amplifying"}]

Open == [r \in Nodes |-> "None"]

\* A diamond with two routes of equal strength and a cycle back to its origin.
Diamond ==
    [class |-> Open,
     edges |-> <<Link(1, 2, 3), Link(1, 3, 4), Link(3, 2, 3), [Link(2, 4, 4) EXCEPT !.maxHops = 2],
                 Link(3, 4, 2), Link(3, 1, 4), Link(4, 1, 4)>>]

\* Two rings that run against each other.
Rings ==
    [class |-> Open,
     edges |-> <<Link(1, 2, 4), Link(2, 3, 3), Link(3, 1, 2), Link(3, 2, 3), Link(2, 1, 4),
                 [Link(1, 4, 3) EXCEPT !.cooldown = 2]>>]

\* Amplifying edges, one of them in a cycle.
Amplifying ==
    [class |-> Open,
     edges |-> <<Link(1, 2, 2), Link(1, 3, 1), Amplifier(3, 2, 4, 8), Amplifier(2, 3, 4, 6),
                 Amplifier(2, 4, 2, 8), Link(4, 1, 4)>>]

\* Every reason why an edge carries nothing.
Guarded ==
    [class |-> [Open EXCEPT ![2] = "Barrier", ![3] = "ObservedOnly", ![4] = "Sealed"],
     edges |-> <<Link(1, 2, 2), Link(1, 3, 4), Link(1, 4, 4), Link(1, 2, 0),
                 [Link(1, 2, 4) EXCEPT !.flags = {"RecoveryOnly"}], Link(2, 1, 4)>>]

Limits(fan, expand, visit, records) ==
    [maxHops |-> 3, maxFanout |-> fan, maxExpansions |-> expand, maxVisited |-> visit,
     maxRecords |-> records, floor |-> 1, ceiling |-> 3, aggregation |-> "Max",
     amplify |-> FALSE, maxGain |-> One, cooldown |-> 2, hysteresis |-> 1,
     perStep |-> 2, stepTicks |-> 1, decayFloor |-> 1, maxSteps |-> 2]

Generous == [Limits(3, 8, 4, 20) EXCEPT !.hysteresis = 2]
Tight == Limits(2, 3, 3, 20)
Free == [Generous EXCEPT !.amplify = TRUE, !.maxGain = 8, !.aggregation = "WeightedMax"]
Ranked == [Generous EXCEPT !.aggregation = "PriorityFirst", !.cooldown = 0]
Summed == [Tight EXCEPT !.aggregation = "SaturatingSum"]

FenceAt(r, kind, expires) == [resource |-> r, kind |-> kind, expires |-> expires]

Setting(topo, pol, table) == [topology |-> topo, policy |-> pol, fences |-> table]

MCContexts ==
    {Setting(Diamond, Generous, <<>>),
     Setting(Diamond, Tight, <<FenceAt(3, "RefuseEgress", 2)>>),
     Setting(Rings, Ranked, <<>>),
     Setting(Rings, Summed, <<FenceAt(1, "Barrier", 2), FenceAt(1, "RefuseEgress", 0)>>),
     Setting(Amplifying, Free, <<>>),
     Setting(Guarded, Generous, <<FenceAt(1, "RefuseIngress", 2)>>)}

From(source, origin, magnitude) ==
    [source |-> source, origin |-> origin, magnitude |-> magnitude, weight |-> 2,
     priority |-> 1, valid |-> TRUE, deadline |-> 3, scope |-> Nodes, maxHops |-> 0,
     amplify |-> FALSE, maxGain |-> 8]

Strong == From(1, 1, 4)
Weak == From(1, 1, 2)
Other == [From(2, 3, 4) EXCEPT !.maxHops = 2]
Loud == [From(2, 1, 3) EXCEPT !.amplify = TRUE, !.maxGain = 7]
Narrow == [From(3, 2, 3) EXCEPT !.scope = {1}, !.priority = 2]
Lost == From(3, 9, 4)
Silent == From(2, 1, 0)
Stale == [From(1, 3, 4) EXCEPT !.valid = FALSE]
Brief == [From(2, 4, 4) EXCEPT !.deadline = 1]

Ask(batch, now) == [batch |-> batch, now |-> now, pins |-> {}, budget |-> 0, dry |-> FALSE]

MCRequests ==
    {Ask(batch, now) : batch \in {<<Strong>>, <<Weak>>, <<Loud>>, <<Strong, Other>>,
                                  <<Other, Strong>>, <<Narrow, Other, Strong>>,
                                  <<Lost, Silent>>, <<Stale, Weak, Brief>>, <<Strong, Weak, Lost>>},
                       now \in {1, 2}}
    \cup {Ask(<<Weak>>, 3), Ask(<<Strong>>, 4),
          [Ask(<<Strong, Narrow>>, 2) EXCEPT !.pins = {1, 5}],
          [Ask(<<Strong>>, 2) EXCEPT !.dry = TRUE]}
    \cup {[Ask(<<Strong, Other>>, 1) EXCEPT !.budget = b] : b \in 1..4}

MCRecoveries == {[source |-> 1, residual |-> m, now |-> t] : m \in {0, 3}, t \in {1, 2, 3}}

\* A policy whose record budget is exactly what validate() demands.
FrugalContexts == {Setting(Guarded, Limits(3, 1, 1, 2), <<>>)}

\* The diamond under the plain policy, without fences.
PlainContexts == {Setting(Diamond, Generous, <<>>)}

\* Three sources at one resource, the strongest last, and repeats at the hysteresis.
RisingRequests ==
    {Ask(<<From(1, 1, 2), From(2, 1, 3), From(3, 1, 4)>>, 1),
     Ask(<<Weak>>, 1), Ask(<<Strong>>, 2)}

\* Two fences of equal strength at one resource.
CrossedContexts ==
    {Setting(Diamond, Generous, <<FenceAt(2, "RefuseEgress", 0), FenceAt(2, "RefuseIngress", 0)>>)}
=============================================================================
