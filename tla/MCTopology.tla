----------------------------- MODULE MCTopology -----------------------------
EXTENDS Topology

CONSTANTS N, MaxArcs    \* resources and edges of the graphs that are enumerated

Plain(n) == [i \in 1..n |-> [id |-> i, traits |-> {}]]

Arc(id, from, to, priority) ==
    [id |-> id, from |-> from, to |-> to, priority |-> priority, traits |-> {}]

\* Every digraph with at most MaxArcs edges, expanded by rising or by falling target.
\* A number stands for an arc, so that a set of them can be listed in order.
From(arc) == 1 + ((arc - 1) \div N)
To(arc) == 1 + ((arc - 1) % N)

Listed(g) ==
    [i \in 1..Cardinality(g) |->
        CHOOSE arc \in g : Cardinality({other \in g : other <= arc}) = i]

Digraph(g, up) ==
    LET arcs == Listed(g)
    IN  [resources |-> Plain(N),
         edges |-> [i \in DOMAIN arcs |->
                      Arc(i, From(arcs[i]), To(arcs[i]), IF up THEN 0 ELSE N - To(arcs[i]))],
         allow_cycles |-> TRUE]

Digraphs ==
    {Digraph(g, up) : g \in {g \in SUBSET (1..(N * N)) : Cardinality(g) <= MaxArcs},
                      up \in BOOLEAN}

\* Two edges between two resources with every combination of identity, target
\* and priority: ties, repeated identities, an unknown target.
Ties ==
    [resources : {Plain(2)},
     edges : [1..2 -> {Arc(id, from, to, p) : id, from \in 1..2, to \in 1..3, p \in 0..1}],
     allow_cycles : {TRUE, FALSE}]

\* Traits, limits and invalid declarations.
Marked ==
    LET r(id, traits) == [id |-> id, traits |-> traits]
        e(traits) == [Arc(1, 1, 2, 0) EXCEPT !.traits = traits]
    IN  [resources : {<<r(1, a), r(2, b)>> : a, b \in {{}, {"Barrier"}, {"Sealed"},
                                                       {"ObservedOnly"}, {"invalid"}}}
                     \cup {<<r(1, {}), r(1, {})>>, Plain(N + 1)},
         edges : {<<>>, <<e({})>>, <<e({"Amplifying", "ZeroAttenuation", "RecoveryOnly"})>>,
                  <<e({"invalid"})>>,
                  [i \in 1..(MaxEdges + 1) |-> Arc(i, 1, 2, i)],
                  <<Arc(1, 1, 1, 0), Arc(2, 1, 2, 0), Arc(3, 1, 2, 1), Arc(4, 1, 1, 1)>>},
         allow_cycles : BOOLEAN]

MCDeclarations == Digraphs \cup Ties \cup Marked
=============================================================================
