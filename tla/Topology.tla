------------------------------ MODULE Topology ------------------------------
(***************************************************************************)
(* Topology::build() (model/topology.cpp): resources and edges are checked *)
(* and put into their canonical order, and the strongly connected          *)
(* components are found by an iterative form of Tarjan's algorithm, one    *)
(* step of its loop at a time.  A resource is its identity, whose order is *)
(* the order of the indices; digests and the lookup tables are left out.   *)
(***************************************************************************)
EXTENDS Integers, Sequences, FiniteSets, SequencesExt

CONSTANTS
    Declarations,   \* the arguments build() is called with, see Declaration
    MaxResources,   \* limits.max_resources
    MaxEdges,       \* limits.max_edges
    MaxOutDegree,   \* limits.max_out_degree
    MaxInDegree,    \* limits.max_in_degree
    MaxIssues       \* kMaxTopologyIssues

\* What validate() objects to, and what build() reports of a resource or an edge.
ResourceTraits == {"invalid", "Barrier", "Sealed", "ObservedOnly"}
EdgeTraits == {"invalid", "Amplifying", "ZeroAttenuation", "RecoveryOnly"}

Edge == [id : Nat, from : Nat, to : Nat, priority : Nat, traits : SUBSET EdgeTraits]

Declaration == [resources : Seq([id : Nat, traits : SUBSET ResourceTraits]),
                edges : Seq(Edge),
                allow_cycles : BOOLEAN]

ASSUME TopologyAssumption ==
    /\ Declarations \subseteq Declaration
    /\ {MaxResources, MaxEdges, MaxOutDegree, MaxInDegree, MaxIssues} \subseteq Nat

VARIABLES
    call,       \* the arguments
    status,     \* "reading", "searching", "built", or the error build() returned
    edges,      \* edges_ in canonical order
    index,      \* index[v], 0 for kUnvisited
    low,        \* low[v]
    stack,      \* scc_stack; on_stack marks its members
    frames,     \* the depth-first search: [node, cursor]
    cyclic,     \* in_cycle
    components, \* scc_count
    issues,     \* issues_, by kind
    dropped     \* stats_.issues_dropped

searchVars == <<index, low, stack, frames, cyclic, components>>
vars == <<call, status, edges, searchVars, issues, dropped>>

Ids(rs) == {rs[i].id : i \in DOMAIN rs}

Resources == Ids(call.resources)

-----------------------------------------------------------------------------
(* Canonical order and validation *)

EdgePrecedesWithoutId(a, b) ==
    \/ a.priority < b.priority
    \/ a.priority = b.priority /\ a.to < b.to

\* edge_precedes(): edges from different resources may tie.
EdgePrecedes(a, b) ==
    \/ a.priority < b.priority
    \/ a.priority = b.priority /\ a.to < b.to
    \/ a.priority = b.priority /\ a.to = b.to /\ a.id < b.id

\* std::sort() leaves ties in any order.
Sorted(es) ==
    LET permuted == {[i \in DOMAIN es |-> es[p[i]]] : p \in Bijection(DOMAIN es, DOMAIN es)}
    IN  {s \in permuted : \A i \in 1..(Len(s) - 1) : ~EdgePrecedes(s[i + 1], s[i])}

OutDegree(es, r) == Cardinality({i \in DOMAIN es : es[i].from = r})
InDegree(es, r) == Cardinality({i \in DOMAIN es : es[i].to = r})

\* The checks of build(), in its order, over the sorted edges.  A repeated edge identity
\* is noticed only between neighbours.
Checks(rs, es) ==
    LET ids == Ids(rs)
    IN << [code |-> "InvalidArgument",
           fails |-> 0 \in {MaxResources, MaxEdges, MaxOutDegree, MaxInDegree}],
          [code |-> "LimitExceeded",
           fails |-> Len(rs) > MaxResources \/ Len(es) > MaxEdges],
          [code |-> "InvalidResource",
           fails |-> \E i \in DOMAIN rs : "invalid" \in rs[i].traits],
          [code |-> "Duplicate", fails |-> Cardinality(ids) < Len(rs)],
          [code |-> "InvalidEdge", fails |-> \E i \in DOMAIN es : "invalid" \in es[i].traits],
          [code |-> "Duplicate",
           fails |-> \E i \in 1..(Len(es) - 1) : es[i].id = es[i + 1].id],
          [code |-> "NotFound",
           fails |-> \E i \in DOMAIN es : ~({es[i].from, es[i].to} \subseteq ids)],
          [code |-> "LimitExceeded",
           fails |-> \E r \in ids : OutDegree(es, r) > MaxOutDegree
                                    \/ InDegree(es, r) > MaxInDegree] >>

\* The checks that do not hold.
Failing(rs, es) == {i \in DOMAIN Checks(rs, es) : Checks(rs, es)[i].fails}

-----------------------------------------------------------------------------
(* Issues *)

RecordIssues(kinds) ==
    /\ issues' = SubSeq(issues \o kinds, 1, Min({MaxIssues, Len(issues \o kinds)}))
    /\ dropped' = dropped + (Len(issues \o kinds) - Len(issues'))

\* The issues known before the search: of each resource, then of each edge.
DeclaredIssues(rs, es) ==
    LET ofResource(r) == SetToSeq(r.traits)
                         \o (IF OutDegree(es, r.id) + InDegree(es, r.id) = 0
                             THEN <<"Isolated">> ELSE <<>>)
        ofEdge(e) == (IF e.from = e.to THEN <<"SelfLoop">> ELSE <<>>) \o SetToSeq(e.traits)
    IN  FlattenSeq([i \in DOMAIN rs |-> ofResource(rs[i])])
        \o FlattenSeq([i \in DOMAIN es |-> ofEdge(es[i])])

-----------------------------------------------------------------------------

Init ==
    /\ call \in Declarations
    /\ status = "reading"
    /\ edges = <<>>
    /\ index = [r \in Resources |-> 0]
    /\ low = [r \in Resources |-> 0]
    /\ stack = <<>>
    /\ frames = <<>>
    /\ cyclic = {}
    /\ components = 0
    /\ issues = <<>>
    /\ dropped = 0

\* Everything up to the search.
Read ==
    /\ status = "reading"
    /\ \E es \in Sorted(call.edges) :
          LET failing == Failing(call.resources, es)
          IN  IF failing # {}
              THEN /\ status' = Checks(call.resources, es)[Min(failing)].code
                   /\ UNCHANGED <<edges, issues, dropped>>
              ELSE /\ status' = "searching"
                   /\ edges' = es
                   /\ RecordIssues(DeclaredIssues(call.resources, es))
    /\ UNCHANGED <<call, searchVars>>

\* What is left for a frame of its node's range of out_edge_indices_: the edges of that
\* node from the cursor on, by their place in edges_.
Remaining(frame) == {i \in DOMAIN edges : i >= frame.cursor /\ edges[i].from = frame.node}

HasSelfLoop(v) == \E i \in DOMAIN edges : edges[i].from = v /\ edges[i].to = v

OnStack(v) == v \in Range(stack)

Unvisited == {r \in Resources : index[r] = 0}

\* next_index counts the visited resources.
Enter(v, under) ==
    LET next_index == Cardinality(Resources \ Unvisited) + 1
    IN  /\ index' = [index EXCEPT ![v] = next_index]
        /\ low' = [low EXCEPT ![v] = next_index]
        /\ stack' = Append(stack, v)
        /\ frames' = Append(under, [node |-> v, cursor |-> 1])

VisitRoot ==
    /\ status = "searching" /\ frames = <<>>
    /\ \E root \in Unvisited :
          /\ \A r \in Unvisited : root <= r
          /\ Enter(root, <<>>)
    /\ UNCHANGED <<call, status, edges, cyclic, components, issues, dropped>>

Top == frames[Len(frames)]

LoweredByAnyEdge(v, w) == IF index[w] < low[v] THEN index[w] ELSE low[v]

\* An edge whose target is visited but left the stack belongs to a finished component.
Lowered(v, w) == IF OnStack(w) /\ index[w] < low[v] THEN index[w] ELSE low[v]

FollowEdge ==
    /\ status = "searching" /\ frames # <<>>
    /\ Remaining(Top) # {}
    /\ LET v == Top.node
           e == Min(Remaining(Top))
           w == edges[e].to
           advanced == [frames EXCEPT ![Len(frames)].cursor = e + 1]
       IN  IF w \in Unvisited
           THEN Enter(w, advanced)
           ELSE /\ low' = [low EXCEPT ![v] = Lowered(v, w)]
                /\ frames' = advanced
                /\ UNCHANGED <<index, stack>>
    /\ UNCHANGED <<call, status, edges, cyclic, components, issues, dropped>>

\* The frame is done: its parent learns low[v], and if v is the root of a component, the
\* component is taken from the stack.
LeaveNode ==
    /\ status = "searching" /\ frames # <<>>
    /\ Remaining(Top) = {}
    /\ LET v == Top.node
           members == {stack[i] : i \in {i \in DOMAIN stack : \E j \in 1..i : stack[j] = v}}
       IN  /\ frames' = Front(frames)
           /\ low' = IF Len(frames) = 1 THEN low
                     ELSE [low EXCEPT ![frames[Len(frames) - 1].node] =
                              IF low[v] < @ THEN low[v] ELSE @]
           /\ IF low[v] # index[v]
              THEN UNCHANGED <<stack, cyclic, components, issues, dropped>>
              ELSE /\ stack' = SubSeq(stack, 1, Len(stack) - Cardinality(members))
                   /\ IF Cardinality(members) > 1 \/ HasSelfLoop(v)
                      THEN /\ cyclic' = cyclic \cup members
                           /\ components' = components + 1
                           /\ RecordIssues(<<"CyclicComponent">>)
                      ELSE UNCHANGED <<cyclic, components, issues, dropped>>
    /\ UNCHANGED <<call, status, edges, index>>

Finish ==
    /\ status = "searching" /\ frames = <<>> /\ Unvisited = {}
    /\ status' = IF ~call.allow_cycles /\ cyclic # {} THEN "CycleDetected" ELSE "built"
    /\ UNCHANGED <<call, edges, searchVars, issues, dropped>>

\* build() has returned.
Returned == status \notin {"reading", "searching"} /\ UNCHANGED vars

Next == Read \/ VisitRoot \/ FollowEdge \/ LeaveNode \/ Finish \/ Returned

Spec == Init /\ [][Next]_vars

-----------------------------------------------------------------------------
(* The reference: what the edges say, without a search. *)

\* r reaches s over one edge or more: s is in every set that has the targets of r's edges
\* and of the edges that leave the set.
Reaches(es) ==
    [p \in Resources \X Resources |->
        \A C \in SUBSET Resources :
            (\A i \in DOMAIN es : es[i].from \in C \cup {p[1]} => es[i].to \in C) => p[2] \in C]

CyclicBy(reach) == {r \in Resources : reach[r, r]}

ComponentsBy(reach) ==
    {{s \in Resources : reach[r, s] /\ reach[s, r]} : r \in CyclicBy(reach)}

\* When build() returns after its search, the resources it calls cyclic are exactly those
\* that reach themselves over the edges, each strongly connected component was counted
\* once, it is refused exactly when a cycle was forbidden, and no issue is lost without
\* being counted as dropped (topology.cpp:178-270, topology.hpp:100-103).
CyclesAreExact ==
    status \in {"built", "CycleDetected"} =>
        LET reach == Reaches(edges)
        IN  /\ cyclic = CyclicBy(reach)
            /\ components = Cardinality(ComponentsBy(reach))
            /\ (status = "built") = (call.allow_cycles \/ cyclic = {})
            /\ Len(issues) <= MaxIssues
            /\ Len(issues) + dropped
                  = Len(DeclaredIssues(call.resources, edges)) + components

\* The canonical order of the edges does not depend on the order they were declared in:
\* a tie that std::sort() may break either way is always refused as a duplicate
\* (topology.hpp:96-98, "Ordering of the inputs does not affect the result").
OrderDoesNotMatter ==
    status \notin {"reading", "searching"} =>
        \A es \in Sorted(call.edges) :
            IF status \in {"built", "CycleDetected"}
            THEN es = edges
            ELSE Failing(call.resources, es) # {}

=============================================================================
