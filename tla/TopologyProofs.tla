--------------------------- MODULE TopologyProofs ---------------------------
(***************************************************************************)
(* Proofs about Topology::build(), for every declaration and every limit.  *)
(*                                                                         *)
(* OrderInv: the edges kept are a sorted form of the declared ones that    *)
(* passes every check.  Two sorted forms differ only where neighbours tie, *)
(* a tie is a repeated identity, and that is refused.                      *)
(*                                                                         *)
(* TopoInv: while the search runs, Search holds of what is on the stack,   *)
(* on the path and already followed (Typed, Followed, Woven, Bounded: the  *)
(* argument of Tarjan's algorithm), Scan ties those sets to the sequences  *)
(* the loop keeps, Found says that the finished nodes on a cycle are       *)
(* exactly the marked ones and their components are counted, and Tally     *)
(* that no issue is lost.                                                  *)
(***************************************************************************)
EXTENDS Topology, NaturalLemmas, FiniteSetTheorems, SequenceTheorems, TLAPS

-----------------------------------------------------------------------------
(* The canonical order *)

\* No neighbours share an identity.
Apart(s) == \A i \in 1..(Len(s) - 1) : s[i].id # s[i + 1].id

\* s is es rearranged by p.
Rearranges(es, p, s) ==
    /\ p \in [1..Len(es) -> 1..Len(es)]
    /\ \A i, j \in 1..Len(es) : p[i] = p[j] => i = j
    /\ \A j \in 1..Len(es) : \E i \in 1..Len(es) : p[i] = j
    /\ s \in Seq(Edge) /\ Len(s) = Len(es)
    /\ \A i \in 1..Len(es) : s[i] = es[p[i]]

\* What std::sort() may return.
LEMMA SortedIs ==
    ASSUME NEW es \in Seq(Edge), NEW s \in Sorted(es)
    PROVE  /\ \E p : Rearranges(es, p, s)
           /\ \A i \in 1..(Len(s) - 1) : ~EdgePrecedes(s[i + 1], s[i])
<1>1. DOMAIN es = 1..Len(es) /\ Len(es) \in Nat
  OBVIOUS
<1>2. PICK p \in Bijection(DOMAIN es, DOMAIN es) : s = [i \in DOMAIN es |-> es[p[i]]]
  BY Zenon DEF Sorted
<1>3. /\ p \in [1..Len(es) -> 1..Len(es)]
      /\ \A i, j \in 1..Len(es) : p[i] = p[j] => i = j
      /\ \A j \in 1..Len(es) : \E i \in 1..Len(es) : p[i] = j
  BY <1>1, <1>2 DEF Bijection, Injection, Surjection, IsInjective
<1>4. \A i \in 1..Len(es) : es[p[i]] \in Edge
  BY <1>3
<1>5. s = [i \in 1..Len(es) |-> es[p[i]]]
  BY <1>1, <1>2, Zenon
<1>6. s \in Seq(Edge) /\ Len(s) = Len(es)
  <2> HIDE DEF Edge
  <2>1. s \in [1..Len(es) -> Edge]
    BY <1>4, <1>5
  <2> QED
    BY <1>1, <2>1
<1>7. Rearranges(es, p, s)
  BY <1>3, <1>5, <1>6 DEF Rearranges
<1>8. \A i \in 1..(Len(s) - 1) : ~EdgePrecedes(s[i + 1], s[i])
  BY Zenon DEF Sorted
<1> QED
  BY <1>7, <1>8, Zenon

\* edge_precedes() and ties.
LEMMA PrecedesStrictly ==
    ASSUME NEW a \in Edge, NEW b \in Edge, a.id # b.id, ~EdgePrecedes(b, a)
    PROVE  EdgePrecedes(a, b)
<1>1. /\ a.priority \in Nat /\ a.to \in Nat /\ a.id \in Nat
      /\ b.priority \in Nat /\ b.to \in Nat /\ b.id \in Nat
  BY DEF Edge
<1> QED
  BY <1>1 DEF EdgePrecedes

\* edge_precedes() chains.
LEMMA PrecedesTransitive ==
    ASSUME NEW a \in Edge, NEW b \in Edge, NEW c \in Edge,
           EdgePrecedes(a, b), EdgePrecedes(b, c)
    PROVE  EdgePrecedes(a, c)
<1>1. /\ a.priority \in Nat /\ a.to \in Nat /\ a.id \in Nat
      /\ b.priority \in Nat /\ b.to \in Nat /\ b.id \in Nat
      /\ c.priority \in Nat /\ c.to \in Nat /\ c.id \in Nat
  BY DEF Edge
<1> QED
  BY <1>1 DEF EdgePrecedes

\* Sorted without ties, the order of two edges is the order of their places.
LEMMA Strictly ==
    ASSUME NEW s \in Seq(Edge), Apart(s),
           \A i \in 1..(Len(s) - 1) : ~EdgePrecedes(s[i + 1], s[i])
    PROVE  \A i, j \in 1..Len(s) : i < j => EdgePrecedes(s[i], s[j])
<1> SUFFICES ASSUME NEW i \in 1..Len(s)
             PROVE  \A j \in 1..Len(s) : i < j => EdgePrecedes(s[i], s[j])
  OBVIOUS
<1> DEFINE T == {j \in 0..Len(s) : i < j => EdgePrecedes(s[i], s[j])}
<1>1. 0 \in T
  OBVIOUS
<1>2. ASSUME NEW j \in 0..(Len(s) - 1), j \in T
      PROVE  j + 1 \in T
  <2>1. CASE i > j
    BY <2>1
  <2>2. CASE i <= j
    <3>1. j \in 1..(Len(s) - 1) /\ j \in 1..Len(s) /\ j + 1 \in 1..Len(s)
      BY <2>2
    <3>2. s[i] \in Edge /\ s[j] \in Edge /\ s[j + 1] \in Edge
      BY <3>1
    <3>3. s[j].id # s[j + 1].id /\ ~EdgePrecedes(s[j + 1], s[j])
      BY <3>1 DEF Apart
    <3>4. EdgePrecedes(s[j], s[j + 1])
      BY <3>2, <3>3, PrecedesStrictly, Zenon
    <3>5. CASE i = j
      BY <3>1, <3>4, <3>5
    <3>6. CASE i < j
      <4>1. EdgePrecedes(s[i], s[j])
        BY <1>2, <3>6
      <4>2. EdgePrecedes(s[i], s[j + 1])
        BY <3>2, <3>4, <4>1, PrecedesTransitive, Zenon
      <4> QED
        BY <3>1, <4>2
    <3> QED
      BY <2>2, <3>5, <3>6
  <2> QED
    BY <2>1, <2>2
<1>3. \A j \in 0..Len(s) : j \in T
  <2>1. Len(s) \in Nat
    OBVIOUS
  <2> HIDE DEF T
  <2> QED
    BY <1>1, <1>2, <2>1, UpTo, Zenon
<1> QED
  BY <1>3

\* An increasing map of 1..n to itself moves nothing.
LEMMA IncreasingIsIdentity ==
    ASSUME NEW n \in Nat, NEW q \in [1..n -> 1..n],
           \A i \in 1..(n - 1) : q[i] < q[i + 1]
    PROVE  \A i \in 1..n : q[i] = i
<1> DEFINE Up == {i \in 0..n : i # 0 => q[i] >= i}
           Down == {i \in 0..n : i # n => q[n - i] <= n - i}
<1>1. \A i \in 0..n : i \in Up
  <2>1. 0 \in Up
    OBVIOUS
  <2>2. ASSUME NEW i \in 0..(n - 1), i \in Up
        PROVE  i + 1 \in Up
    <3>1. q[i + 1] \in 1..n
      OBVIOUS
    <3>2. CASE i = 0
      BY <3>1, <3>2
    <3>3. CASE i # 0
      <4>1. i \in 1..(n - 1) /\ q[i] \in 1..n /\ q[i] >= i
        BY <2>2, <3>3
      <4> QED
        BY <3>1, <4>1
    <3> QED
      BY <3>2, <3>3
  <2> HIDE DEF Up
  <2> QED
    BY <2>1, <2>2, UpTo
<1>2. \A i \in 0..n : i \in Down
  <2>1. 0 \in Down
    OBVIOUS
  <2>2. ASSUME NEW i \in 0..(n - 1), i \in Down
        PROVE  i + 1 \in Down
    <3> SUFFICES ASSUME i + 1 # n
                 PROVE  q[n - (i + 1)] <= n - (i + 1)
      OBVIOUS
    <3>1. PICK k \in 1..(n - 1) : k = n - (i + 1)
      OBVIOUS
    <3>2. q[k + 1] <= k + 1 /\ k + 1 \in 1..n
      BY <2>2, <3>1
    <3>3. q[k] \in 1..n /\ q[k + 1] \in 1..n /\ q[k] < q[k + 1]
      BY <3>1, <3>2, SMTT(30)
    <3> QED
      BY <3>1, <3>2, <3>3
  <2> HIDE DEF Down
  <2> QED
    BY <2>1, <2>2, UpTo
<1> SUFFICES ASSUME NEW i \in 1..n
             PROVE  q[i] = i
  OBVIOUS
<1>3. i \in Up /\ n - i \in Down
  <2>1. i \in 0..n /\ n - i \in 0..n
    OBVIOUS
  <2> HIDE DEF Up, Down
  <2> QED
    BY <1>1, <1>2, <2>1
<1>4. q[i] >= i /\ q[n - (n - i)] <= n - (n - i)
  BY <1>3
<1> QED
  BY <1>4

\* If one way to sort the edges leaves no neighbours with one identity, it is the only way.
LEMMA OneOrder ==
    ASSUME NEW es \in Seq(Edge), NEW s \in Sorted(es), NEW t \in Sorted(es), Apart(s)
    PROVE  s = t
<1> DEFINE n == Len(es)
<1>1. PICK p : Rearranges(es, p, s)
  BY SortedIs, Zenon
<1>2. PICK q : Rearranges(es, q, t)
  BY SortedIs, Zenon
<1>3. \A i \in 1..(Len(t) - 1) : ~EdgePrecedes(t[i + 1], t[i])
  BY SortedIs, Zenon
<1>4. \A i, j \in 1..Len(s) : i < j => EdgePrecedes(s[i], s[j])
  <2>1. s \in Seq(Edge)
    BY <1>1 DEF Rearranges
  <2>2. \A i \in 1..(Len(s) - 1) : ~EdgePrecedes(s[i + 1], s[i])
    BY SortedIs, Zenon
  <2> QED
    BY <2>1, <2>2, Strictly, Zenon
<1> DEFINE m == [i \in 1..n |-> CHOOSE j \in 1..n : p[j] = q[i]]
<1>5. \A i \in 1..n : m[i] \in 1..n /\ p[m[i]] = q[i]
  BY <1>1, <1>2 DEF Rearranges
<1>6. ASSUME NEW i \in 1..n
      PROVE  t[i] = s[m[i]]
  <2> HIDE DEF m
  <2>1. t[i] = es[q[i]]
    BY <1>2, Zenon DEF Rearranges
  <2>2. s[m[i]] = es[p[m[i]]]
    BY <1>1, <1>5, Zenon DEF Rearranges
  <2> QED
    BY <1>5, <2>1, <2>2, Zenon
<1>7. \A i, j \in 1..n : m[i] = m[j] => i = j
  <2> SUFFICES ASSUME NEW i \in 1..n, NEW j \in 1..n, m[i] = m[j]
               PROVE  i = j
    OBVIOUS
  <2> HIDE DEF m
  <2>1. q[i] = q[j]
    BY <1>5
  <2> QED
    BY <1>2, <2>1 DEF Rearranges
<1>8. m \in [1..n -> 1..n]
  BY <1>5
<1> HIDE DEF m
<1>9. ASSUME NEW i \in 1..(n - 1)
      PROVE  m[i] < m[i + 1]
  <2>1. n \in Nat /\ i \in 1..n /\ i + 1 \in 1..n /\ i # i + 1
    OBVIOUS
  <2>2. ~EdgePrecedes(s[m[i + 1]], s[m[i]])
    BY <1>2, <1>3, <1>6, <2>1 DEF Rearranges
  <2>3. m[i] \in 1..n /\ m[i + 1] \in 1..n /\ m[i] # m[i + 1]
    BY <1>5, <1>7, <2>1
  <2>4. ~(m[i + 1] < m[i])
    BY <1>1, <1>4, <2>2, <2>3 DEF Rearranges
  <2> QED
    BY <2>3, <2>4
<1>10. \A i \in 1..n : m[i] = i
  <2>1. n \in Nat
    OBVIOUS
  <2> HIDE DEF n
  <2> QED
    BY <1>8, <1>9, <2>1, IncreasingIsIdentity
<1>11. \A i \in 1..n : t[i] = s[i]
  BY <1>6, <1>10
<1>12. /\ s \in Seq(Edge) /\ t \in Seq(Edge)
       /\ Len(s) = n /\ Len(t) = n
  BY <1>1, <1>2 DEF Rearranges
<1> HIDE DEF n
<1> QED
  BY <1>11, <1>12

-----------------------------------------------------------------------------
(* OrderDoesNotMatter *)

Refusals == {"InvalidArgument", "LimitExceeded", "InvalidResource", "Duplicate",
             "InvalidEdge", "NotFound"}

\* What build() knows of the edges it keeps, and why it stopped if it stopped early.
OrderInv ==
    /\ call \in Declarations
    /\ \/ status = "reading"
       \/ /\ status \in {"searching", "built", "CycleDetected"}
          /\ edges \in Sorted(call.edges)
          /\ Failing(call.resources, edges) = {}
       \/ /\ status \in Refusals
          /\ \E es \in Sorted(call.edges) : Failing(call.resources, es) # {}

\* The checks that the proofs look into.
LEMMA ChecksShape ==
    ASSUME NEW rs, NEW es
    PROVE  /\ DOMAIN Checks(rs, es) = 1..8
           /\ \A i \in 1..8 : Checks(rs, es)[i].code \in Refusals
           /\ Checks(rs, es)[6].fails <=> \E i \in 1..(Len(es) - 1) : es[i].id = es[i + 1].id
           /\ Checks(rs, es)[7].fails
                 <=> \E i \in DOMAIN es : ~({es[i].from, es[i].to} \subseteq Ids(rs))
BY DEF Checks, Refusals

\* Edges that pass the checks are in the only order there is.
LEMMA PassedIsApart ==
    ASSUME NEW rs, NEW es, Failing(rs, es) = {}
    PROVE  Apart(es)
<1>1. 6 \in DOMAIN Checks(rs, es)
  BY ChecksShape
<1>2. ~Checks(rs, es)[6].fails
  BY <1>1, Zenon DEF Failing
<1>3. ~\E i \in 1..(Len(es) - 1) : es[i].id = es[i + 1].id
  BY <1>2, ChecksShape, Zenon
<1> QED
  BY <1>3, Zenon DEF Apart

\* The ends of edges that pass the checks are resources.
LEMMA PassedIsBetween ==
    ASSUME NEW rs, NEW es, Failing(rs, es) = {}
    PROVE  \A i \in DOMAIN es : es[i].from \in Ids(rs) /\ es[i].to \in Ids(rs)
<1>1. 7 \in DOMAIN Checks(rs, es)
  BY ChecksShape
<1>2. ~Checks(rs, es)[7].fails
  BY <1>1, Zenon DEF Failing
<1>3. ~\E i \in DOMAIN es : ~({es[i].from, es[i].to} \subseteq Ids(rs))
  BY <1>2, ChecksShape, Zenon
<1> QED
  BY <1>3, Zenon

\* build() stops with the code of the first check that fails.
LEMMA FirstFailing ==
    ASSUME NEW rs, NEW es, Failing(rs, es) # {}
    PROVE  Checks(rs, es)[Min(Failing(rs, es))].code \in Refusals
<1>1. Failing(rs, es) \subseteq 1..8
  BY ChecksShape DEF Failing
<1>2. \E x \in Failing(rs, es) : \A y \in Failing(rs, es) : x <= y
  BY <1>1, LeastNatural
<1>3. Min(Failing(rs, es)) \in Failing(rs, es)
  BY <1>2 DEF Min
<1> QED
  BY <1>1, <1>3, ChecksShape

\* The three facts that make OrderInv an invariant that implies the property.
LEMMA OrderInvInit == Init => OrderInv
BY DEF Init, OrderInv

LEMMA OrderInvStep == OrderInv /\ [Next]_vars => OrderInv'
<1> SUFFICES ASSUME OrderInv, [Next]_vars
             PROVE  OrderInv'
  OBVIOUS
<1>1. CASE Read
  <2>1. call' = call /\ status = "reading"
    BY <1>1 DEF Read
  <2>2. PICK es \in Sorted(call.edges) :
          \/ /\ Failing(call.resources, es) # {}
             /\ status' = Checks(call.resources, es)[Min(Failing(call.resources, es))].code
          \/ /\ Failing(call.resources, es) = {}
             /\ status' = "searching" /\ edges' = es
    BY <1>1, Zenon DEF Read
  <2>3. CASE Failing(call.resources, es) # {}
    <3>1. status' \in Refusals
      BY <2>2, <2>3, FirstFailing, Zenon
    <3> QED
      BY <2>1, <2>3, <3>1, Zenon DEF OrderInv
  <2>4. CASE Failing(call.resources, es) = {}
    BY <2>1, <2>2, <2>4, Zenon DEF OrderInv
  <2> QED
    BY <2>3, <2>4
<1>2. CASE VisitRoot
  BY <1>2, Zenon DEF VisitRoot, OrderInv
<1>3. CASE FollowEdge
  BY <1>3, Zenon DEF FollowEdge, OrderInv
<1>4. CASE LeaveNode
  BY <1>4, Zenon DEF LeaveNode, OrderInv
<1>5. CASE Finish
  <2>1. /\ status = "searching" /\ status' \in {"CycleDetected", "built"}
        /\ call' = call /\ edges' = edges
    BY <1>5 DEF Finish
  <2>2. edges \in Sorted(call.edges) /\ Failing(call.resources, edges) = {}
    BY <2>1 DEF OrderInv, Refusals
  <2>3. status' \in {"searching", "built", "CycleDetected"}
    BY <2>1
  <2> QED
    BY <2>1, <2>2, <2>3, Zenon DEF OrderInv
<1>6. CASE UNCHANGED vars
  BY <1>6, Zenon DEF vars, OrderInv
<1> QED
  BY <1>1, <1>2, <1>3, <1>4, <1>5, <1>6, Zenon DEF Next, Returned

LEMMA OrderInvIs == OrderInv => OrderDoesNotMatter
<1> SUFFICES ASSUME OrderInv, status \notin {"reading", "searching"},
                    NEW t \in Sorted(call.edges)
             PROVE  IF status \in {"built", "CycleDetected"}
                    THEN t = edges
                    ELSE Failing(call.resources, t) # {}
  BY Zenon DEF OrderDoesNotMatter
<1>1. call.edges \in Seq(Edge)
  BY TopologyAssumption DEF OrderInv, Declaration
<1>2. CASE status \in {"built", "CycleDetected"}
  <2>1. edges \in Sorted(call.edges) /\ Failing(call.resources, edges) = {}
    BY <1>2 DEF OrderInv, Refusals
  <2> QED
    BY <1>1, <1>2, <2>1, PassedIsApart, OneOrder, Zenon
<1>3. CASE status \notin {"built", "CycleDetected"}
  <2>1. PICK es \in Sorted(call.edges) : Failing(call.resources, es) # {}
    BY <1>3 DEF OrderInv
  <2>2. ASSUME Failing(call.resources, t) = {} PROVE FALSE
    <3>1. t = es
      BY <1>1, <2>2, PassedIsApart, OneOrder, Zenon
    <3> QED
      BY <2>1, <2>2, <3>1
  <2> QED
    BY <1>3, <2>2
<1> QED
  BY <1>2, <1>3

\* For every declaration, build() keeps the edges in the same order, or refuses them,
\* whatever order they were given in and however std::sort() breaks its ties.
THEOREM OrderNeverMatters == Spec => []OrderDoesNotMatter
<1>1. Spec => []OrderInv
  BY OrderInvInit, OrderInvStep, PTL DEF Spec
<1> QED
  BY <1>1, OrderInvIs, PTL

-----------------------------------------------------------------------------
(* Reachability *)

\* The edges es are between resources of R.
Between(es, R) == \A k \in DOMAIN es : es[k].from \in R /\ es[k].to \in R

\* No edge leaves C.
Closed(es, C) == \A k \in DOMAIN es : es[k].from \in C => es[k].to \in C

\* u reaches w, over any number of edges and over at least one.
Star(es, R, u, w) == \A C \in SUBSET R : u \in C /\ Closed(es, C) => w \in C

Plus(es, R, u, w) ==
    \A C \in SUBSET R :
        (\A k \in DOMAIN es : es[k].from \in C \cup {u} => es[k].to \in C) => w \in C

\* How Star and Plus compose.
LEMMA StarSelf ==
    ASSUME NEW es, NEW R, NEW u
    PROVE  Star(es, R, u, u)
BY DEF Star

LEMMA StarTransitive ==
    ASSUME NEW es, NEW R, NEW u, NEW x, NEW w, Star(es, R, u, x), Star(es, R, x, w)
    PROVE  Star(es, R, u, w)
BY Zenon DEF Star

LEMMA StarEdge ==
    ASSUME NEW es, NEW R, NEW k \in DOMAIN es
    PROVE  Star(es, R, es[k].from, es[k].to)
BY Zenon DEF Star, Closed

\* What is reached from a closed set is in it.
LEMMA StarStays ==
    ASSUME NEW es, NEW R, NEW C \in SUBSET R, Closed(es, C), NEW u \in C, NEW w,
           Star(es, R, u, w)
    PROVE  w \in C
BY Zenon DEF Star

LEMMA PlusEdge ==
    ASSUME NEW es, NEW R, NEW k \in DOMAIN es
    PROVE  Plus(es, R, es[k].from, es[k].to)
BY Zenon DEF Plus

LEMMA PlusThenStar ==
    ASSUME NEW es, NEW R, NEW u, NEW x, NEW w, Plus(es, R, u, x), Star(es, R, x, w)
    PROVE  Plus(es, R, u, w)
<1> SUFFICES ASSUME NEW C \in SUBSET R,
                    \A k \in DOMAIN es : es[k].from \in C \cup {u} => es[k].to \in C
             PROVE  w \in C
  BY Zenon DEF Plus
<1>1. x \in C
  BY Zenon DEF Plus
<1>2. Closed(es, C)
  BY Zenon DEF Closed
<1> QED
  BY <1>1, <1>2, Zenon DEF Star

LEMMA StarThenPlus ==
    ASSUME NEW es, NEW R, NEW u \in R, NEW x, NEW w, Star(es, R, u, x), Plus(es, R, x, w)
    PROVE  Plus(es, R, u, w)
<1> SUFFICES ASSUME NEW C \in SUBSET R,
                    \A k \in DOMAIN es : es[k].from \in C \cup {u} => es[k].to \in C
             PROVE  w \in C
  BY Zenon DEF Plus
<1>1. Closed(es, C \cup {u}) /\ C \cup {u} \in SUBSET R
  BY Zenon DEF Closed
<1>2. x \in C \cup {u}
  BY <1>1, Zenon DEF Star
<1>3. \A k \in DOMAIN es : es[k].from \in C \cup {x} => es[k].to \in C
  BY <1>2, Zenon
<1> QED
  BY <1>3, Zenon DEF Plus

LEMMA StarElsewhere ==
    ASSUME NEW es, NEW R, NEW u \in R, NEW w, u # w, Star(es, R, u, w)
    PROVE  Plus(es, R, u, w)
<1> SUFFICES ASSUME NEW C \in SUBSET R,
                    \A k \in DOMAIN es : es[k].from \in C \cup {u} => es[k].to \in C
             PROVE  w \in C
  BY Zenon DEF Plus
<1>1. Closed(es, C \cup {u}) /\ C \cup {u} \in SUBSET R
  BY Zenon DEF Closed
<1>2. w \in C \cup {u}
  BY <1>1, Zenon DEF Star
<1> QED
  BY <1>2, Zenon

LEMMA PlusIsStar ==
    ASSUME NEW es, NEW R, NEW u, NEW w, Plus(es, R, u, w)
    PROVE  Star(es, R, u, w)
<1> SUFFICES ASSUME NEW C \in SUBSET R, u \in C, Closed(es, C)
             PROVE  w \in C
  BY Zenon DEF Star
<1>1. \A k \in DOMAIN es : es[k].from \in C \cup {u} => es[k].to \in C
  BY Zenon DEF Closed
<1> QED
  BY <1>1, Zenon DEF Plus

\* What is reached over the edges of u is in a closed set that has their targets.
LEMMA PlusStays ==
    ASSUME NEW es, NEW R, NEW C \in SUBSET R, Closed(es, C), NEW u, NEW w,
           \A k \in DOMAIN es : es[k].from = u => es[k].to \in C,
           Plus(es, R, u, w)
    PROVE  w \in C
<1>1. \A k \in DOMAIN es : es[k].from \in C \cup {u} => es[k].to \in C
  BY Zenon DEF Closed
<1> QED
  BY <1>1, Zenon DEF Plus

-----------------------------------------------------------------------------
(* The search, without the order of its stacks: S is what is on the stack, P the     *)
(* nodes of the frames (the path the search is on), D the edges it has followed.     *)

\* a is the last node of the path that was visited no later than u.
Owns(ix, P, a, u) ==
    /\ a \in P /\ ix[a] <= ix[u]
    /\ \A b \in P : ix[b] <= ix[u] => ix[b] <= ix[a]

Typed(es, R, ix, lo, S, P, D) ==
    /\ ix \in [R -> Nat] /\ lo \in [R -> Nat]
    /\ P \subseteq S /\ S \subseteq R /\ D \subseteq DOMAIN es
    /\ \A u \in S : ix[u] # 0
    /\ \A u, w \in R : ix[u] = ix[w] /\ ix[u] # 0 => u = w

\* Followed edges lead to visited nodes; a node that left the path has followed all
\* its edges, and one that left the stack too leads only to such.
Followed(es, ix, S, P, D) ==
    /\ \A k \in D : ix[es[k].from] # 0 /\ ix[es[k].to] # 0
    /\ \A k \in DOMAIN es : ix[es[k].from] # 0 /\ es[k].from \notin P => k \in D
    /\ \A k \in DOMAIN es :
          ix[es[k].from] # 0 /\ es[k].from \notin S => ix[es[k].to] # 0 /\ es[k].to \notin S

\* A node of the stack reaches its owner, and the path reaches what came after it.
Woven(es, R, ix, S, P) ==
    /\ \A u \in S : \E a : Owns(ix, P, a, u) /\ Star(es, R, u, a)
    /\ \A a \in P : \A u \in S : ix[a] <= ix[u] => Star(es, R, a, u)

\* low of a node of the path is the index of a node of the stack that it reaches, and
\* bounds the followed edges of the nodes it owns.
Bounded(es, R, ix, lo, S, P, D) ==
    /\ \A a \in P : lo[a] <= ix[a] /\ \E w \in S : ix[w] = lo[a] /\ Star(es, R, a, w)
    /\ \A k \in D : \A a \in P :
          es[k].from \in S /\ es[k].to \in S /\ Owns(ix, P, a, es[k].from)
              => lo[a] <= ix[es[k].to]

Search(es, R, ix, lo, S, P, D) ==
    /\ Typed(es, R, ix, lo, S, P, D)
    /\ Followed(es, ix, S, P, D)
    /\ Woven(es, R, ix, S, P)
    /\ Bounded(es, R, ix, lo, S, P, D)

\* v is visited at time n: as a root, or from t at the end of the path over edge k.
Visits(es, R, ix, lo, P, D, v, n, ix2, lo2, D2) ==
    /\ v \in R /\ ix[v] = 0 /\ n \in Nat /\ n # 0
    /\ \A r \in R : ix[r] < n
    /\ ix2 = [ix EXCEPT ![v] = n] /\ lo2 = [lo EXCEPT ![v] = n]
    /\ \/ P = {} /\ D2 = D
       \/ \E k \in DOMAIN es :
             /\ es[k].to = v /\ es[k].from \in P
             /\ \A b \in P : ix[b] <= ix[es[k].from]
             /\ D2 = D \cup {k}

\* An entered node is the last visited: it owns itself, and owns nothing else.
LEMMA EnterKeeps ==
    ASSUME NEW es, NEW R, Between(es, R), NEW ix, NEW lo, NEW S, NEW P, NEW D,
           Search(es, R, ix, lo, S, P, D),
           NEW v, NEW n, NEW ix2, NEW lo2, NEW D2,
           Visits(es, R, ix, lo, P, D, v, n, ix2, lo2, D2)
    PROVE  Search(es, R, ix2, lo2, S \cup {v}, P \cup {v}, D2)
<1>1. /\ ix \in [R -> Nat] /\ lo \in [R -> Nat]
      /\ P \subseteq S /\ S \subseteq R /\ D \subseteq DOMAIN es
      /\ \A u \in S : ix[u] # 0
      /\ \A u, w \in R : ix[u] = ix[w] /\ ix[u] # 0 => u = w
  BY Zenon DEF Search, Typed
<1>2. /\ v \in R /\ ix[v] = 0 /\ n \in Nat /\ n # 0
      /\ \A r \in R : ix[r] < n
  BY Zenon DEF Visits
<1>3. /\ ix2 \in [R -> Nat] /\ ix2[v] = n
      /\ \A r \in R : r # v => ix2[r] = ix[r]
  BY <1>1, <1>2 DEF Visits
<1>4. /\ lo2 \in [R -> Nat] /\ lo2[v] = n
      /\ \A r \in R : r # v => lo2[r] = lo[r]
  BY <1>1, <1>2 DEF Visits
<1>5. D2 \subseteq DOMAIN es /\ D \subseteq D2
  <2>1. D2 = D \/ \E k \in DOMAIN es : D2 = D \cup {k}
    BY Zenon DEF Visits
  <2> QED
    BY <1>1, <2>1
<1>6. \A k \in D2 :
         \/ k \in D
         \/ /\ es[k].to = v /\ es[k].from \in P
            /\ \A b \in P : ix[b] <= ix[es[k].from]
  <2>1. CASE D2 = D
    BY <2>1
  <2>2. CASE \E k \in DOMAIN es : /\ es[k].to = v /\ es[k].from \in P
                                 /\ \A b \in P : ix[b] <= ix[es[k].from]
                                 /\ D2 = D \cup {k}
    BY <2>2, Zenon
  <2> QED
    BY <2>1, <2>2, Zenon DEF Visits
<1>7. v \notin S
  BY <1>1, <1>2
<1>8. Typed(es, R, ix2, lo2, S \cup {v}, P \cup {v}, D2)
  <2>1. \A u, w \in R : ix2[u] = ix2[w] /\ ix2[u] # 0 => u = w
    BY <1>1, <1>2, <1>3
  <2>2. \A u \in S \cup {v} : ix2[u] # 0
    BY <1>1, <1>2, <1>3
  <2> QED
    BY <1>1, <1>2, <1>3, <1>4, <1>5, <2>1, <2>2 DEF Typed
<1>9. Followed(es, ix2, S \cup {v}, P \cup {v}, D2)
  <2>1. \A k \in DOMAIN es : es[k].from \in R /\ es[k].to \in R
    BY DEF Between
  <2>2. \A k \in D : ix[es[k].from] # 0 /\ ix[es[k].to] # 0
    BY DEF Search, Followed
  <2>3. \A k \in D2 : ix2[es[k].from] # 0 /\ ix2[es[k].to] # 0
    BY <1>1, <1>2, <1>3, <1>5, <1>6, <2>1, <2>2
  <2>4. \A k \in DOMAIN es : ix2[es[k].from] # 0 /\ es[k].from \notin P \cup {v} => k \in D2
    BY <1>3, <1>5, <2>1 DEF Search, Followed
  <2>5. ASSUME NEW k \in DOMAIN es, ix2[es[k].from] # 0, es[k].from \notin S \cup {v}
        PROVE  ix2[es[k].to] # 0 /\ es[k].to \notin S \cup {v}
    <3>1. ix[es[k].from] # 0 /\ es[k].from \notin S
      BY <1>3, <2>1, <2>5
    <3>2. ix[es[k].to] # 0 /\ es[k].to \notin S
      BY <3>1 DEF Search, Followed
    <3> QED
      BY <1>2, <1>3, <2>1, <3>2
  <2> QED
    BY <2>3, <2>4, <2>5 DEF Followed
<1>10. \A a, u : u \in S => (Owns(ix2, P \cup {v}, a, u) <=> Owns(ix, P, a, u))
  <2> SUFFICES ASSUME NEW a, NEW u \in S
               PROVE  Owns(ix2, P \cup {v}, a, u) <=> Owns(ix, P, a, u)
    OBVIOUS
  <2>1. ix2[u] = ix[u] /\ ix[u] < n /\ ix[u] \in Nat /\ \A b \in P : ix2[b] = ix[b]
    BY <1>1, <1>2, <1>3, <1>7
  <2> QED
    BY <1>2, <1>3, <2>1 DEF Owns
<1>11. \A a : Owns(ix2, P \cup {v}, a, v) => a = v
  <2> SUFFICES ASSUME NEW a, Owns(ix2, P \cup {v}, a, v), a # v
               PROVE  FALSE
    OBVIOUS
  <2>1. a \in P /\ ix2[v] <= ix2[a] /\ ix2[v] \in Nat
    BY <1>2, <1>3 DEF Owns
  <2>2. ix2[a] = ix[a] /\ ix[a] < n /\ ix[a] \in Nat
    BY <1>1, <1>2, <1>3, <2>1
  <2> QED
    BY <1>2, <1>3, <2>1, <2>2
<1>12. Owns(ix2, P \cup {v}, v, v)
  BY <1>1, <1>2, <1>3 DEF Owns
<1>13. P = {} => S = {}
  BY Zenon DEF Search, Woven, Owns
<1>14. \A a \in P : Star(es, R, a, v)
  <2> SUFFICES ASSUME NEW a \in P
               PROVE  Star(es, R, a, v)
    OBVIOUS
  <2>1. PICK k \in DOMAIN es : /\ es[k].to = v /\ es[k].from \in P
                               /\ \A b \in P : ix[b] <= ix[es[k].from]
    BY Zenon DEF Visits
  <2>2. Star(es, R, a, es[k].from)
    BY <1>1, <2>1 DEF Search, Woven
  <2> QED
    BY <2>1, <2>2, StarEdge, StarTransitive, Zenon
<1>15. Woven(es, R, ix2, S \cup {v}, P \cup {v})
  <2>1. ASSUME NEW u \in S \cup {v}
        PROVE  \E a : Owns(ix2, P \cup {v}, a, u) /\ Star(es, R, u, a)
    <3>1. CASE u = v
      BY <1>12, <3>1, StarSelf, Zenon
    <3>2. CASE u \in S
      BY <1>10, <3>2, Zenon DEF Search, Woven
    <3> QED
      BY <3>1, <3>2
  <2>2. ASSUME NEW a \in P \cup {v}, NEW u \in S \cup {v}, ix2[a] <= ix2[u]
        PROVE  Star(es, R, a, u)
    <3>1. CASE a = v
      <4>1. u = v
        BY <1>1, <1>2, <1>3, <2>2, <3>1
      <4> QED
        BY <3>1, <4>1, StarSelf, Zenon
    <3>2. CASE a \in P /\ u = v
      BY <1>14, <3>2
    <3>3. CASE a \in P /\ u \in S
      <4>1. ix[a] <= ix[u]
        BY <1>1, <1>3, <1>7, <2>2, <3>3
      <4> QED
        BY <3>3, <4>1, Zenon DEF Search, Woven
    <3> QED
      BY <3>1, <3>2, <3>3
  <2> QED
    BY <2>1, <2>2, Zenon DEF Woven
<1>16. Bounded(es, R, ix2, lo2, S \cup {v}, P \cup {v}, D2)
  <2>1. ASSUME NEW a \in P \cup {v}
        PROVE  lo2[a] <= ix2[a] /\ \E w \in S \cup {v} : ix2[w] = lo2[a] /\ Star(es, R, a, w)
    <3>1. CASE a = v
      BY <1>2, <1>3, <1>4, <3>1, StarSelf
    <3>2. CASE a \in P
      <4>1. lo[a] <= ix[a] /\ \E w \in S : ix[w] = lo[a] /\ Star(es, R, a, w)
        BY <3>2, Zenon DEF Search, Bounded
      <4>2. lo2[a] = lo[a] /\ ix2[a] = ix[a] /\ \A w \in S : ix2[w] = ix[w]
        BY <1>1, <1>3, <1>4, <1>7, <3>2
      <4> QED
        BY <4>1, <4>2
    <3> QED
      BY <3>1, <3>2
  <2>2. ASSUME NEW k \in D2, NEW a \in P \cup {v}, es[k].from \in S \cup {v},
               es[k].to \in S \cup {v}, Owns(ix2, P \cup {v}, a, es[k].from)
        PROVE  lo2[a] <= ix2[es[k].to]
    <3>1. lo2[a] <= ix2[a] /\ ix2[a] \in Nat /\ lo2[a] \in Nat
      BY <1>1, <1>2, <1>3, <1>4, <2>1
    <3>2. CASE es[k].to = v
      <4>1. ix2[a] <= n
        BY <1>1, <1>2, <1>3
      <4> QED
        BY <1>2, <1>3, <3>1, <3>2, <4>1
    <3>3. CASE es[k].to # v
      <4>1. k \in D /\ es[k].to \in S
        BY <1>6, <2>2, <3>3
      <4>2. es[k].from \in S
        BY <1>2, <2>2, <4>1 DEF Search, Followed
      <4>3. Owns(ix, P, a, es[k].from)
        BY <1>10, <2>2, <4>2
      <4>4. a \in P /\ lo[a] <= ix[es[k].to]
        BY <4>1, <4>2, <4>3 DEF Search, Bounded, Owns
      <4>5. a # v /\ es[k].to # v /\ a \in R /\ es[k].to \in R
        BY <1>1, <1>7, <4>1, <4>4
      <4> QED
        BY <1>3, <1>4, <4>4, <4>5
    <3> QED
      BY <3>2, <3>3
  <2> QED
    BY <2>1, <2>2, Zenon DEF Bounded
<1> QED
  BY <1>8, <1>9, <1>15, <1>16 DEF Search

\* The end t of the path follows edge k to a visited node.
Follows(es, R, ix, lo, S, P, D, t, k, lo2, D2) ==
    /\ t \in P /\ \A b \in P : ix[b] <= ix[t]
    /\ k \in DOMAIN es /\ es[k].from = t /\ ix[es[k].to] # 0
    /\ lo2 = [lo EXCEPT ![t] = IF es[k].to \in S /\ ix[es[k].to] < lo[t]
                               THEN ix[es[k].to] ELSE lo[t]]
    /\ D2 = D \cup {k}

\* Following an edge to a visited node keeps the invariant.
LEMMA FollowKeeps ==
    ASSUME NEW es, NEW R, Between(es, R), NEW ix, NEW lo, NEW S, NEW P, NEW D,
           Search(es, R, ix, lo, S, P, D),
           NEW t, NEW k, NEW lo2, NEW D2,
           Follows(es, R, ix, lo, S, P, D, t, k, lo2, D2)
    PROVE  Search(es, R, ix, lo2, S, P, D2)
<1>1. /\ ix \in [R -> Nat] /\ lo \in [R -> Nat]
      /\ P \subseteq S /\ S \subseteq R /\ D \subseteq DOMAIN es
      /\ \A u \in S : ix[u] # 0
      /\ \A u, w \in R : ix[u] = ix[w] /\ ix[u] # 0 => u = w
  BY Zenon DEF Search, Typed
<1>2. /\ t \in P /\ \A b \in P : ix[b] <= ix[t]
      /\ k \in DOMAIN es /\ es[k].from = t /\ ix[es[k].to] # 0
      /\ D2 = D \cup {k}
  BY Zenon DEF Follows
<1>3. PICK w \in R : w = es[k].to
  BY <1>2 DEF Between
<1>4. /\ lo2 \in [R -> Nat]
      /\ lo2[t] = (IF w \in S /\ ix[w] < lo[t] THEN ix[w] ELSE lo[t])
      /\ \A r \in R : r # t => lo2[r] = lo[r]
  BY <1>1, <1>2, <1>3 DEF Follows
<1>5. \A r \in R : lo2[r] <= lo[r]
  BY <1>1, <1>2, <1>4
<1>6. Typed(es, R, ix, lo2, S, P, D2)
  BY <1>1, <1>2, <1>4 DEF Typed
<1>7. Followed(es, ix, S, P, D2)
  <2>1. ix[es[k].from] # 0
    BY <1>1, <1>2
  <2> QED
    BY <1>2, <2>1 DEF Search, Followed
<1>8. Bounded(es, R, ix, lo2, S, P, D2)
  <2>1. ASSUME NEW a \in P
        PROVE  lo2[a] <= ix[a] /\ \E x \in S : ix[x] = lo2[a] /\ Star(es, R, a, x)
    <3>1. lo[a] <= ix[a] /\ \E x \in S : ix[x] = lo[a] /\ Star(es, R, a, x)
      BY <2>1, Zenon DEF Search, Bounded
    <3>2. a \in R /\ lo2[a] <= lo[a] /\ lo[a] \in Nat /\ ix[a] \in Nat /\ lo2[a] \in Nat
      BY <1>1, <1>4, <1>5
    <3>3. CASE lo2[a] = lo[a]
      BY <3>1, <3>3
    <3>4. CASE lo2[a] # lo[a]
      <4>1. a = t /\ w \in S /\ lo2[a] = ix[w]
        BY <1>4, <3>2, <3>4
      <4>2. Star(es, R, a, w)
        BY <1>2, <1>3, <4>1, StarEdge, Zenon
      <4> QED
        BY <3>1, <3>2, <4>1, <4>2
    <3> QED
      BY <3>3, <3>4
  <2>2. ASSUME NEW j \in D2, NEW a \in P, es[j].from \in S, es[j].to \in S,
               Owns(ix, P, a, es[j].from)
        PROVE  lo2[a] <= ix[es[j].to]
    <3>1. CASE j \in D
      <4>1. lo[a] <= ix[es[j].to]
        BY <2>2, <3>1, Zenon DEF Search, Bounded
      <4>2. lo2[a] <= lo[a] /\ lo2[a] \in Nat /\ lo[a] \in Nat /\ ix[es[j].to] \in Nat
        BY <1>1, <1>4, <1>5, <2>2
      <4> QED
        BY <4>1, <4>2
    <3>2. CASE j = k
      <4>1. a = t
        <5>1. ix[a] <= ix[t] /\ ix[t] <= ix[a] /\ ix[a] \in Nat /\ ix[t] \in Nat /\ ix[t] # 0
          BY <1>1, <1>2, <2>2, <3>2 DEF Owns
        <5> QED
          BY <1>1, <1>2, <5>1
      <4>2. w \in S /\ w = es[j].to /\ ix[w] \in Nat /\ lo[t] \in Nat
        BY <1>1, <1>2, <1>3, <2>2, <3>2
      <4> QED
        BY <1>4, <4>1, <4>2
    <3> QED
      BY <1>2, <3>1, <3>2
  <2> QED
    BY <2>1, <2>2, Zenon DEF Bounded
<1> QED
  BY <1>6, <1>7, <1>8 DEF Search

\* The end v of the path has followed its edges and leaves; the node p before it, if
\* there is one, learns low of v.
Leaves(es, R, ix, lo, P, D, v, lo2) ==
    /\ v \in P /\ \A b \in P : ix[b] <= ix[v]
    /\ \A k \in DOMAIN es : es[k].from = v => k \in D
    /\ \/ P = {v} /\ lo2 = lo
       \/ \E p \in P : /\ p # v /\ \A b \in P : b # v => ix[b] <= ix[p]
                       /\ lo2 = [lo EXCEPT ![p] = IF lo[v] < lo[p] THEN lo[v] ELSE lo[p]]

\* What leaving does to low.
Learnt(R, ix, lo, P, v, lo2) ==
    /\ lo2 \in [R -> Nat]
    /\ \A r \in R : lo2[r] <= lo[r]
    /\ \A r \in R : lo2[r] # lo[r] => r \in P /\ r # v /\ lo2[r] = lo[v]
    /\ \A p \in P : p # v /\ (\A b \in P : b # v => ix[b] <= ix[p]) => lo2[p] <= lo[v]

\* What low[] says when a node is left.
LEMMA LeavingLow ==
    ASSUME NEW es, NEW R, NEW ix, NEW lo, NEW S, NEW P, NEW D,
           Typed(es, R, ix, lo, S, P, D),
           NEW v, NEW lo2, Leaves(es, R, ix, lo, P, D, v, lo2)
    PROVE  Learnt(R, ix, lo, P, v, lo2)
<1>1. /\ ix \in [R -> Nat] /\ lo \in [R -> Nat] /\ P \subseteq R /\ v \in P
      /\ \A b \in P : ix[b] # 0
      /\ \A u, w \in R : ix[u] = ix[w] /\ ix[u] # 0 => u = w
  BY DEF Typed, Leaves
<1>2. CASE P = {v} /\ lo2 = lo
  BY <1>1, <1>2 DEF Learnt
<1>3. CASE \E p \in P : /\ p # v /\ \A b \in P : b # v => ix[b] <= ix[p]
                        /\ lo2 = [lo EXCEPT ![p] = IF lo[v] < lo[p] THEN lo[v] ELSE lo[p]]
  <2>1. PICK p \in P : /\ p # v /\ \A b \in P : b # v => ix[b] <= ix[p]
                       /\ lo2 = [lo EXCEPT ![p] = IF lo[v] < lo[p] THEN lo[v] ELSE lo[p]]
    BY <1>3
  <2>2. /\ lo2 \in [R -> Nat]
        /\ lo2[p] = (IF lo[v] < lo[p] THEN lo[v] ELSE lo[p])
        /\ \A r \in R : r # p => lo2[r] = lo[r]
    BY <1>1, <2>1
  <2>3. lo[v] \in Nat /\ lo[p] \in Nat /\ \A r \in R : lo[r] \in Nat
    BY <1>1
  <2>4. ASSUME NEW q \in P, q # v, \A b \in P : b # v => ix[b] <= ix[q]
        PROVE  q = p
    <3>1. ix[q] <= ix[p] /\ ix[p] <= ix[q] /\ ix[p] \in Nat /\ ix[q] \in Nat /\ ix[p] # 0
      BY <1>1, <2>1, <2>4
    <3> QED
      BY <1>1, <3>1
  <2>5. lo2[p] <= lo[v]
    BY <2>2, <2>3
  <2>6. /\ \A r \in R : lo2[r] <= lo[r]
        /\ \A r \in R : lo2[r] # lo[r] => r \in P /\ r # v /\ lo2[r] = lo[v]
    BY <2>1, <2>2, <2>3
  <2> QED
    BY <2>2, <2>4, <2>5, <2>6 DEF Learnt
<1> QED
  BY <1>2, <1>3, Zenon DEF Leaves

\* The members of the component whose root v is taken from the stack.
Members(ix, S, v) == {u \in S : ix[v] <= ix[u]}

\* Once v has left the path, what it owned is owned by the node before it.
Inherits(ix, P, v, a, u) ==
    IF ix[v] <= ix[u]
    THEN Owns(ix, P, v, u) /\ a # v /\ \A b \in P : b # v => ix[b] <= ix[a]
    ELSE Owns(ix, P, a, u)

\* A node that was owned by the one that leaves is owned by the path below it.
LEMMA OwnedByParent ==
    ASSUME NEW R, NEW ix \in [R -> Nat], NEW P \in SUBSET R, NEW v \in P,
           \A b \in P : ix[b] <= ix[v],
           NEW a, NEW u \in R, Owns(ix, P \ {v}, a, u)
    PROVE  Inherits(ix, P, v, a, u)
<1>1. /\ ix[u] \in Nat /\ ix[v] \in Nat /\ \A b \in P : ix[b] \in Nat
      /\ a \in P /\ a # v /\ ix[a] <= ix[u]
      /\ \A b \in P : b # v /\ ix[b] <= ix[u] => ix[b] <= ix[a]
  BY DEF Owns
<1>2. CASE ix[v] <= ix[u]
  <2>1. \A b \in P : ix[b] <= ix[u]
    BY <1>1, <1>2
  <2> QED
    BY <1>1, <1>2, <2>1 DEF Owns, Inherits
<1>3. CASE ~(ix[v] <= ix[u])
  BY <1>1, <1>3 DEF Owns, Inherits
<1> QED
  BY <1>2, <1>3

\* A node that is not a root leaves the path and stays on the stack.
LEMMA LeaveStays ==
    ASSUME NEW es, NEW R, Between(es, R), NEW ix, NEW lo, NEW S, NEW P, NEW D,
           Search(es, R, ix, lo, S, P, D),
           NEW v, NEW lo2, Leaves(es, R, ix, lo, P, D, v, lo2), lo[v] # ix[v]
    PROVE  Search(es, R, ix, lo2, S, P \ {v}, D)
<1> DEFINE Q == P \ {v}
<1>1. /\ ix \in [R -> Nat] /\ lo \in [R -> Nat]
      /\ P \subseteq S /\ S \subseteq R /\ D \subseteq DOMAIN es
      /\ \A u \in S : ix[u] # 0
      /\ \A u, w \in R : ix[u] = ix[w] /\ ix[u] # 0 => u = w
      /\ Typed(es, R, ix, lo, S, P, D)
  BY Zenon DEF Search, Typed
<1>2. /\ v \in P /\ \A b \in P : ix[b] <= ix[v]
      /\ \A k \in DOMAIN es : es[k].from = v => k \in D
  BY Zenon DEF Leaves
<1>3. /\ lo2 \in [R -> Nat]
      /\ \A r \in R : lo2[r] <= lo[r]
      /\ \A r \in R : lo2[r] # lo[r] => r \in P /\ r # v /\ lo2[r] = lo[v]
      /\ \A p \in P : p # v /\ (\A b \in P : b # v => ix[b] <= ix[p]) => lo2[p] <= lo[v]
  <2>1. Learnt(R, ix, lo, P, v, lo2)
    BY <1>1, LeavingLow, Zenon
  <2> QED
    BY <2>1 DEF Learnt
<1>4. PICK w \in S : ix[w] = lo[v] /\ Star(es, R, v, w) /\ lo[v] <= ix[v]
  BY <1>2, Zenon DEF Search, Bounded
<1>5. ix[w] < ix[v] /\ v \in R /\ w \in R /\ ix[v] \in Nat /\ ix[w] \in Nat
  BY <1>1, <1>2, <1>4
<1>6. PICK a : Owns(ix, P, a, w) /\ Star(es, R, w, a)
  BY Zenon DEF Search, Woven
<1>7. a \in Q
  BY <1>1, <1>2, <1>5, <1>6 DEF Owns
\* v reaches every node of the path that is left after a.
<1>8. ASSUME NEW p \in Q, ix[a] <= ix[p]
      PROVE  Star(es, R, v, p)
  <2>1. Star(es, R, a, p)
    BY <1>1, <1>7, <1>8 DEF Search, Woven
  <2> QED
    BY <1>4, <1>6, <2>1, StarTransitive, Zenon
<1>9. Typed(es, R, ix, lo2, S, Q, D)
  BY <1>1, <1>3 DEF Typed
<1>10. Followed(es, ix, S, Q, D)
  BY <1>2 DEF Search, Followed
<1>11. Woven(es, R, ix, S, Q)
  <2>1. ASSUME NEW u \in S
        PROVE  \E p : Owns(ix, Q, p, u) /\ Star(es, R, u, p)
    <3>1. PICK b : Owns(ix, P, b, u) /\ Star(es, R, u, b)
      BY Zenon DEF Search, Woven
    <3>2. CASE b # v
      <4>1. Owns(ix, Q, b, u)
        BY <3>1, <3>2 DEF Owns
      <4> QED
        BY <3>1, <4>1
    <3>3. CASE b = v
      <4>1. \E p \in Q : \A q \in Q : ix[q] <= ix[p]
        <5> DEFINE T == {ix[q] : q \in Q}
        <5>1. T \subseteq 0..ix[v] /\ T # {}
          BY <1>1, <1>2, <1>5, <1>7
        <5>2. \E x \in T : \A y \in T : y <= x
          <6> HIDE DEF T
          <6> QED
            BY <1>5, <5>1, GreatestNatural
        <5> QED
          BY <5>2
      <4>2. PICK p \in Q : \A q \in Q : ix[q] <= ix[p]
        BY <4>1
      <4>3. Star(es, R, v, p)
        BY <1>7, <1>8, <4>2
      <4>4. Owns(ix, Q, p, u)
        <5>1. ix[p] <= ix[v] /\ ix[v] <= ix[u] /\ ix[p] \in Nat /\ ix[u] \in Nat
          BY <1>1, <1>2, <3>1, <3>3 DEF Owns
        <5> QED
          BY <1>5, <4>2, <5>1 DEF Owns
      <4> QED
        BY <3>1, <3>3, <4>3, <4>4, StarTransitive, Zenon
    <3> QED
      BY <3>2, <3>3
  <2>2. \A p \in Q : \A u \in S : ix[p] <= ix[u] => Star(es, R, p, u)
    BY DEF Search, Woven
  <2> QED
    BY <2>1, <2>2, Zenon DEF Woven
<1>12. Bounded(es, R, ix, lo2, S, Q, D)
  <2>1. ASSUME NEW p \in Q
        PROVE  lo2[p] <= ix[p] /\ \E x \in S : ix[x] = lo2[p] /\ Star(es, R, p, x)
    <3>1. lo[p] <= ix[p] /\ \E x \in S : ix[x] = lo[p] /\ Star(es, R, p, x)
      BY <2>1, Zenon DEF Search, Bounded
    <3>2. p \in R /\ lo2[p] <= lo[p] /\ lo[p] \in Nat /\ lo2[p] \in Nat /\ ix[p] \in Nat
      BY <1>1, <1>3
    <3>3. lo2[p] <= ix[p]
      BY <3>1, <3>2
    <3>4. CASE lo2[p] = lo[p]
      BY <3>1, <3>3, <3>4
    <3>5. CASE lo2[p] # lo[p]
      <4>1. lo2[p] = ix[w]
        BY <1>3, <1>4, <3>2, <3>5
      <4>2. Star(es, R, p, v)
        BY <1>1, <1>2, Zenon DEF Search, Woven
      <4> QED
        BY <1>4, <3>3, <4>1, <4>2, StarTransitive, Zenon
    <3> QED
      BY <3>4, <3>5
  <2>2. ASSUME NEW k \in D, NEW p \in Q, es[k].from \in S, es[k].to \in S,
               Owns(ix, Q, p, es[k].from)
        PROVE  lo2[p] <= ix[es[k].to]
    <3>1. /\ p \in R /\ es[k].to \in R /\ es[k].from \in R
          /\ lo2[p] \in Nat /\ lo[p] \in Nat /\ lo[v] \in Nat /\ ix[es[k].to] \in Nat
          /\ lo2[p] <= lo[p]
      BY <1>1, <1>3, <1>5, <2>2
    <3>2. IF ix[v] <= ix[es[k].from]
          THEN Owns(ix, P, v, es[k].from) /\ p # v /\ \A b \in P : b # v => ix[b] <= ix[p]
          ELSE Owns(ix, P, p, es[k].from)
      <4>1. P \in SUBSET R
        BY <1>1
      <4>2. Inherits(ix, P, v, p, es[k].from)
        BY <1>1, <1>2, <2>2, <3>1, <4>1, OwnedByParent, Zenon
      <4> QED
        BY <4>2, Zenon DEF Inherits
    <3>3. CASE ix[v] <= ix[es[k].from]
      <4>1. lo[v] <= ix[es[k].to]
        BY <1>2, <2>2, <3>2, <3>3, Zenon DEF Search, Bounded
      <4>2. lo2[p] <= lo[v]
        BY <1>3, <3>2, <3>3
      <4> QED
        BY <3>1, <4>1, <4>2
    <3>4. CASE ~(ix[v] <= ix[es[k].from])
      <4>1. lo[p] <= ix[es[k].to]
        BY <2>2, <3>2, <3>4, Zenon DEF Search, Bounded, Owns
      <4> QED
        BY <3>1, <4>1
    <3> QED
      BY <3>3, <3>4
  <2> QED
    BY <2>1, <2>2, Zenon DEF Bounded
<1> QED
  BY <1>9, <1>10, <1>11, <1>12 DEF Search

\* The nodes that are visited and no longer on the stack.
Finished(R, ix, S) == {r \in R : ix[r] # 0 /\ r \notin S}

\* If low of a node v at the end of the path is its index, what is on the stack from v on is
\* strongly connected, and its edges lead nowhere else but to finished nodes.
Component(es, R, ix, S, v) ==
    /\ v \in S /\ v \in R /\ v \in Members(ix, S, v)
    /\ \A u \in Members(ix, S, v) : Star(es, R, u, v) /\ Star(es, R, v, u)
    /\ \A k \in DOMAIN es :
          es[k].from \in Members(ix, S, v) =>
              es[k].to \in Members(ix, S, v) \cup Finished(R, ix, S)

\* A node that leaves with low[v] = index[v] is the root of what is above it.
LEMMA RootComponent ==
    ASSUME NEW es, NEW R, Between(es, R), NEW ix, NEW lo, NEW S, NEW P, NEW D,
           Search(es, R, ix, lo, S, P, D),
           NEW v, NEW lo2, Leaves(es, R, ix, lo, P, D, v, lo2), lo[v] = ix[v]
    PROVE  Component(es, R, ix, S, v)
<1> DEFINE M == Members(ix, S, v)
<1>1. /\ ix \in [R -> Nat] /\ lo \in [R -> Nat]
      /\ P \subseteq S /\ S \subseteq R /\ D \subseteq DOMAIN es
      /\ \A u \in S : ix[u] # 0
      /\ \A u, w \in R : ix[u] = ix[w] /\ ix[u] # 0 => u = w
  BY Zenon DEF Search, Typed
<1>2. /\ v \in P /\ \A b \in P : ix[b] <= ix[v]
      /\ \A k \in DOMAIN es : es[k].from = v => k \in D
  BY Zenon DEF Leaves
<1>3. \A u \in M : u \in S /\ u \in R /\ ix[v] <= ix[u] /\ ix[u] \in Nat
  BY <1>1 DEF Members
<1>4. ix[v] \in Nat /\ v \in S /\ v \in R /\ v \in M
  BY <1>1, <1>2 DEF Members
<1>5. ASSUME NEW a \in P, ix[v] <= ix[a]
      PROVE  a = v
  <2>1. ix[a] <= ix[v] /\ ix[a] \in Nat /\ a \in R /\ a \in S
    BY <1>1, <1>2
  <2> QED
    BY <1>1, <1>4, <1>5, <2>1
<1>6. ASSUME NEW u \in M
      PROVE  Star(es, R, u, v) /\ Star(es, R, v, u) /\ Owns(ix, P, v, u)
  <2>1. Star(es, R, v, u)
    BY <1>2, <1>3, Zenon DEF Search, Woven
  <2>2. Owns(ix, P, v, u)
    BY <1>2, <1>3 DEF Owns
  <2>3. PICK a : Owns(ix, P, a, u) /\ Star(es, R, u, a)
    BY <1>3, Zenon DEF Search, Woven
  <2>4. a = v
    BY <1>2, <1>3, <1>5, <2>3, Zenon DEF Owns
  <2> QED
    BY <2>1, <2>2, <2>3, <2>4
<1>7. ASSUME NEW k \in DOMAIN es, es[k].from \in M
      PROVE  es[k].to \in M \cup Finished(R, ix, S)
  <2>1. es[k].to \in R /\ es[k].from \in S /\ ix[es[k].from] # 0
    BY <1>1, <1>3, <1>7 DEF Between
  <2>2. k \in D
    <3>1. CASE es[k].from \in P
      BY <1>2, <1>3, <1>5, <1>7, <3>1
    <3>2. CASE es[k].from \notin P
      BY <2>1, <3>2, Zenon DEF Search, Followed
    <3> QED
      BY <3>1, <3>2
  <2>3. ix[es[k].to] # 0
    BY <2>2, Zenon DEF Search, Followed
  <2>4. CASE es[k].to \in S
    <3>1. lo[v] <= ix[es[k].to]
      BY <1>2, <1>6, <1>7, <2>1, <2>2, <2>4, Zenon DEF Search, Bounded
    <3> QED
      BY <2>4, <3>1 DEF Members
  <2>5. CASE es[k].to \notin S
    BY <2>1, <2>3, <2>5 DEF Finished
  <2> QED
    BY <2>4, <2>5
<1> QED
  BY <1>4, <1>6, <1>7 DEF Component

\* A root leaves, and its component with it.
LEMMA LeavePops ==
    ASSUME NEW es, NEW R, Between(es, R), NEW ix, NEW lo, NEW S, NEW P, NEW D,
           Search(es, R, ix, lo, S, P, D),
           NEW v, NEW lo2, Leaves(es, R, ix, lo, P, D, v, lo2), lo[v] = ix[v]
    PROVE  Search(es, R, ix, lo2, S \ Members(ix, S, v), P \ {v}, D)
<1> DEFINE M == Members(ix, S, v)
           Q == P \ {v}
           T == S \ M
<1>1. /\ ix \in [R -> Nat] /\ lo \in [R -> Nat]
      /\ P \subseteq S /\ S \subseteq R /\ D \subseteq DOMAIN es
      /\ \A u \in S : ix[u] # 0
      /\ \A u, w \in R : ix[u] = ix[w] /\ ix[u] # 0 => u = w
      /\ Typed(es, R, ix, lo, S, P, D)
  BY Zenon DEF Search, Typed
<1>2. /\ v \in P /\ \A b \in P : ix[b] <= ix[v]
      /\ \A k \in DOMAIN es : es[k].from = v => k \in D
  BY Zenon DEF Leaves
<1>3. \A u \in S : u \in T <=> ix[u] < ix[v]
  BY <1>1, <1>2 DEF Members
<1>4. \A p \in Q : p \in P /\ p \in R /\ p \in T /\ ix[p] < ix[v] /\ ix[p] \in Nat
  <2> SUFFICES ASSUME NEW p \in Q
               PROVE  p \in P /\ p \in R /\ p \in T /\ ix[p] < ix[v] /\ ix[p] \in Nat
    OBVIOUS
  <2>1. p \in P /\ p \in R /\ p \in S /\ ix[p] \in Nat /\ ix[v] \in Nat /\ ix[p] <= ix[v]
    BY <1>1, <1>2
  <2>2. ix[p] < ix[v]
    BY <1>1, <1>2, <2>1
  <2> QED
    BY <1>3, <2>1, <2>2
<1>5. v \in R /\ ix[v] \in Nat
  BY <1>1, <1>2
\* low of the node before v does not change, as it is smaller than the index of v.
<1>6. lo2 \in [R -> Nat] /\ \A p \in Q : lo2[p] = lo[p]
  <2>1. Learnt(R, ix, lo, P, v, lo2)
    BY <1>1, LeavingLow, Zenon
  <2>2. lo2 \in [R -> Nat]
    BY <2>1 DEF Learnt
  <2>3. ASSUME NEW p \in Q, lo2[p] # lo[p]
        PROVE  FALSE
    <3>1. lo2[p] = lo[v] /\ lo2[p] <= lo[p]
      BY <1>4, <2>1, <2>3 DEF Learnt
    <3>2. lo[p] <= ix[p]
      BY <1>4, Zenon DEF Search, Bounded
    <3>3. lo[p] \in Nat
      BY <1>1, <1>4
    <3> QED
      BY <1>4, <1>5, <3>1, <3>2, <3>3
  <2> QED
    BY <2>2, <2>3
<1>7. Typed(es, R, ix, lo2, T, Q, D)
  BY <1>1, <1>4, <1>6 DEF Typed
<1>8. Followed(es, ix, T, Q, D)
  <2>1. /\ \A k \in D : ix[es[k].from] # 0 /\ ix[es[k].to] # 0
        /\ \A k \in DOMAIN es : ix[es[k].from] # 0 /\ es[k].from \notin Q => k \in D
    BY <1>2 DEF Search, Followed
  <2>2. ASSUME NEW k \in DOMAIN es, ix[es[k].from] # 0, es[k].from \notin T
        PROVE  ix[es[k].to] # 0 /\ es[k].to \notin T
    <3>1. CASE es[k].from \in M
      <4>1. es[k].to \in M \cup Finished(R, ix, S)
        BY <3>1, RootComponent DEF Component
      <4>2. CASE es[k].to \in M
        BY <1>1, <4>2 DEF Members
      <4>3. CASE es[k].to \in Finished(R, ix, S)
        BY <4>3 DEF Finished
      <4> QED
        BY <4>1, <4>2, <4>3
    <3>2. CASE es[k].from \notin S
      BY <2>2, <3>2 DEF Search, Followed
    <3> QED
      BY <2>2, <3>1, <3>2
  <2> QED
    BY <2>1, <2>2 DEF Followed
<1>9. Woven(es, R, ix, T, Q)
  <2>1. ASSUME NEW u \in T
        PROVE  \E a : Owns(ix, Q, a, u) /\ Star(es, R, u, a)
    <3>1. PICK a : Owns(ix, P, a, u) /\ Star(es, R, u, a)
      BY Zenon DEF Search, Woven
    <3>2. ix[u] < ix[v] /\ ix[u] \in Nat
      BY <1>1, <1>3
    <3>3. a # v
      BY <1>5, <3>1, <3>2 DEF Owns
    <3>4. Owns(ix, Q, a, u)
      BY <3>1, <3>3 DEF Owns
    <3> QED
      BY <3>1, <3>4
  <2>2. \A a \in Q : \A u \in T : ix[a] <= ix[u] => Star(es, R, a, u)
    BY DEF Search, Woven
  <2> QED
    BY <2>1, <2>2, Zenon DEF Woven
<1>10. Bounded(es, R, ix, lo2, T, Q, D)
  <2>1. ASSUME NEW p \in Q
        PROVE  lo2[p] <= ix[p] /\ \E w \in T : ix[w] = lo2[p] /\ Star(es, R, p, w)
    <3>1. lo[p] <= ix[p] /\ \E w \in S : ix[w] = lo[p] /\ Star(es, R, p, w)
      BY <1>4, Zenon DEF Search, Bounded
    <3>2. PICK w \in S : ix[w] = lo[p] /\ Star(es, R, p, w)
      BY <3>1
    <3>3. lo[p] \in Nat /\ lo2[p] = lo[p]
      BY <1>1, <1>4, <1>6
    <3>4. w \in T
      BY <1>3, <1>4, <1>5, <3>1, <3>2, <3>3
    <3> QED
      BY <3>1, <3>2, <3>3, <3>4
  <2>2. ASSUME NEW k \in D, NEW a \in Q, es[k].from \in T, es[k].to \in T,
               Owns(ix, Q, a, es[k].from)
        PROVE  lo2[a] <= ix[es[k].to]
    <3>1. ix[es[k].from] < ix[v] /\ ix[es[k].from] \in Nat
      BY <1>1, <1>3, <2>2
    <3>2. Owns(ix, P, a, es[k].from)
      BY <1>5, <2>2, <3>1 DEF Owns
    <3>3. lo[a] <= ix[es[k].to]
      BY <1>4, <2>2, <3>2, Zenon DEF Search, Bounded
    <3> QED
      BY <1>6, <3>3
  <2> QED
    BY <2>1, <2>2, Zenon DEF Bounded
<1> QED
  BY <1>7, <1>8, <1>9, <1>10 DEF Search

-----------------------------------------------------------------------------
(* What the search has found *)

\* The strongly connected component of r.
Class(es, R, r) == {s \in R : Plus(es, R, r, s) /\ Plus(es, R, s, r)}

\* Of the finished nodes F, the ones on a cycle are marked and their components counted.
Found(es, R, F, cyc, comps) ==
    /\ cyc = {r \in F : Plus(es, R, r, r)}
    /\ comps = Cardinality({Class(es, R, r) : r \in cyc})

\* A component is cyclic: it has two members, or one with an edge to itself.
Cyclical(es, M, v) ==
    \/ \E x \in M : x # v
    \/ \E k \in DOMAIN es : es[k].from = v /\ es[k].to = v

\* The component of a root, seen from its members.
LEMMA ComponentMembers ==
    ASSUME NEW es, NEW R, NEW ix, NEW S \in SUBSET R, NEW v,
           Component(es, R, ix, S, v),
           Closed(es, Finished(R, ix, S))
    PROVE  /\ Cyclical(es, Members(ix, S, v), v) =>
                 \A r \in Members(ix, S, v) : /\ Plus(es, R, r, r)
                                              /\ Class(es, R, r) = Members(ix, S, v)
           /\ ~Cyclical(es, Members(ix, S, v), v) =>
                 \A r \in Members(ix, S, v) : ~Plus(es, R, r, r)
<1> DEFINE M == Members(ix, S, v)
           F == Finished(R, ix, S)
<1>1. v \in S /\ v \in R /\ M \subseteq R /\ F \subseteq R /\ M \cap F = {}
  BY DEF Component, Members, Finished
<1>2. \A u \in M : Star(es, R, u, v) /\ Star(es, R, v, u)
  BY DEF Component
<1>3. \A k \in DOMAIN es : es[k].from \in M => es[k].to \in M \cup F
  BY DEF Component
<1>4. Closed(es, M \cup F)
  BY <1>3 DEF Closed
<1>5. M \cup F \in SUBSET R /\ F \in SUBSET R
  BY <1>1
<1> HIDE DEF M, F
<1>6. \A r, s \in M : Star(es, R, r, s)
  BY <1>2, StarTransitive, Zenon
<1>7. ASSUME Cyclical(es, M, v), NEW r \in M
      PROVE  Plus(es, R, r, r)
  <2>1. CASE \E x \in M : x # v
    <3>1. PICK y \in R : y # r /\ Star(es, R, r, y) /\ Star(es, R, y, r)
      <4>1. PICK x \in M : x # v
        BY <2>1
      <4>2. CASE r = v
        BY <1>1, <1>6, <4>1, <4>2
      <4>3. CASE r # v
        BY <1>1, <1>2, <4>3
      <4> QED
        BY <4>2, <4>3
    <3> QED
      BY <1>1, <3>1, StarElsewhere, PlusThenStar, Zenon
  <2>2. CASE \E k \in DOMAIN es : es[k].from = v /\ es[k].to = v
    <3>1. Plus(es, R, v, v)
      BY <2>2, PlusEdge, Zenon
    <3>2. Plus(es, R, r, v)
      BY <1>1, <1>2, <3>1, StarThenPlus, Zenon
    <3> QED
      BY <1>2, <3>2, PlusThenStar, Zenon
  <2> QED
    BY <1>7, <2>1, <2>2, Zenon DEF Cyclical
<1>8. ASSUME Cyclical(es, M, v), NEW r \in M
      PROVE  Class(es, R, r) = M
  <2>1. ASSUME NEW s \in Class(es, R, r)
        PROVE  s \in M
    <3>1. s \in R /\ Star(es, R, r, s) /\ Star(es, R, s, r)
      BY <2>1, PlusIsStar, Zenon DEF Class
    <3>2. s \in M \cup F
      BY <1>4, <1>5, <3>1, StarStays, Zenon
    <3>3. s \notin F
      <4> SUFFICES ASSUME s \in F PROVE FALSE
        OBVIOUS
      <4>1. r \in F
        BY <1>5, <3>1, StarStays, Zenon DEF F
      <4> QED
        BY <1>1, <4>1
    <3> QED
      BY <3>2, <3>3
  <2>2. ASSUME NEW s \in M
        PROVE  s \in Class(es, R, r)
    <3>1. Plus(es, R, r, s) /\ Plus(es, R, s, r)
      BY <1>6, <1>7, <1>8, PlusThenStar, Zenon
    <3> QED
      BY <1>1, <3>1, Zenon DEF Class
  <2> QED
    BY <2>1, <2>2
<1>9. ASSUME ~Cyclical(es, M, v), NEW r \in M, Plus(es, R, r, r)
      PROVE  FALSE
  <2>1. r = v
    BY <1>9 DEF Cyclical
  <2>2. \A k \in DOMAIN es : es[k].from = r => es[k].to \in F
    BY <1>3, <1>9, <2>1, Zenon DEF Cyclical
  <2>3. r \in F
    BY <1>5, <1>9, <2>2, PlusStays, Zenon DEF F
  <2> QED
    BY <1>1, <2>3
<1> QED
  BY <1>7, <1>8, <1>9 DEF M

\* Taking a component off the stack marks and counts exactly that component.
LEMMA FoundGrows ==
    ASSUME NEW es, NEW R, IsFiniteSet(R), NEW ix, NEW S \in SUBSET R, NEW v,
           Component(es, R, ix, S, v),
           Closed(es, Finished(R, ix, S)), NEW cyc, NEW comps,
           Found(es, R, Finished(R, ix, S), cyc, comps)
    PROVE  IF Cyclical(es, Members(ix, S, v), v)
           THEN Found(es, R, Finished(R, ix, S) \cup Members(ix, S, v),
                      cyc \cup Members(ix, S, v), comps + 1)
           ELSE Found(es, R, Finished(R, ix, S) \cup Members(ix, S, v), cyc, comps)
<1> DEFINE M == Members(ix, S, v)
           F == Finished(R, ix, S)
           Classes(c) == {Class(es, R, r) : r \in c}
<1>1. M \subseteq R /\ F \subseteq R /\ M \cap F = {} /\ v \in R
  BY DEF Component, Members, Finished
<1>2. cyc = {r \in F : Plus(es, R, r, r)} /\ comps = Cardinality(Classes(cyc))
  BY Zenon DEF Found
<1>3. CASE Cyclical(es, M, v)
  <2>1. \A r \in M : Plus(es, R, r, r) /\ Class(es, R, r) = M
    BY <1>3, ComponentMembers, ZenonT(60)
  <2> HIDE DEF M, F
  <2>2. cyc \cup M = {r \in F \cup M : Plus(es, R, r, r)}
    BY <1>2, <2>1
  <2>3. Classes(cyc \cup M) = Classes(cyc) \cup {M}
    <3>1. v \in M
      BY DEF M, Component
    <3> QED
      BY <2>1, <3>1
  <2>4. M \notin Classes(cyc)
    <3> SUFFICES ASSUME NEW r \in cyc, M = Class(es, R, r)
                 PROVE  FALSE
      OBVIOUS
    <3>1. r \in M
      BY <1>1, <1>2 DEF Class
    <3> QED
      BY <1>1, <1>2, <3>1
  <2>5. IsFiniteSet(Classes(cyc))
    <3>1. cyc \subseteq R
      BY <1>1, <1>2
    <3>2. IsFiniteSet(cyc)
      BY <3>1, FS_Subset
    <3> DEFINE f == [r \in cyc |-> Class(es, R, r)]
    <3>3. f \in Surjection(cyc, Classes(cyc))
      BY Zenon DEF Surjection
    <3> HIDE DEF f, Classes
    <3> QED
      BY <3>2, <3>3, FS_Surjection
  <2>6. Cardinality(Classes(cyc \cup M)) = comps + 1
    <3> HIDE DEF Classes
    <3> QED
      BY <1>2, <2>3, <2>4, <2>5, FS_AddElement
  <2>7. Found(es, R, F \cup M, cyc \cup M, comps + 1)
    BY <2>2, <2>6, Zenon DEF Found
  <2> QED
    BY <1>3, <2>7, Zenon DEF M, F
<1>4. CASE ~Cyclical(es, M, v)
  <2>1. \A r \in M : ~Plus(es, R, r, r)
    BY <1>4, ComponentMembers, Zenon
  <2>2. cyc = {r \in F \cup M : Plus(es, R, r, r)}
    BY <1>2, <2>1
  <2>3. Found(es, R, F \cup M, cyc, comps)
    BY <1>2, <2>2, Zenon DEF Found
  <2> QED
    BY <1>4, <2>3, Zenon DEF M, F
<1> QED
  BY <1>3, <1>4, Zenon

-----------------------------------------------------------------------------
(* The stacks of the search *)

Frame(R) == [node : R, cursor : Nat]

OnPath(fr) == {fr[i].node : i \in DOMAIN fr}

\* The followed edges: those of visited nodes, up to the cursor if the node has a frame.
Taken(es, ix, fr) ==
    {k \in DOMAIN es : /\ ix[es[k].from] # 0
                       /\ \A i \in DOMAIN fr : fr[i].node = es[k].from => k < fr[i].cursor}

Marked(R, ix) == {r \in R : ix[r] # 0}

\* Both stacks are in the order of visiting.
Stacked(R, ix, st) ==
    /\ st \in Seq(R)
    /\ \A i, j \in 1..Len(st) : i < j => ix[st[i]] < ix[st[j]]

Framed(R, ix, fr) ==
    /\ fr \in Seq(Frame(R))
    /\ \A i, j \in 1..Len(fr) : i < j => ix[fr[i].node] < ix[fr[j].node]

\* The cursor of the last frame moves behind edge e, the first that was left to it.
Advances(es, fr, e, under) ==
    /\ fr # <<>>
    /\ e \in DOMAIN es /\ es[e].from = fr[Len(fr)].node /\ e >= fr[Len(fr)].cursor
    /\ \A k \in DOMAIN es :
          es[k].from = fr[Len(fr)].node /\ k >= fr[Len(fr)].cursor => e <= k
    /\ under = [fr EXCEPT ![Len(fr)].cursor = e + 1]

\* The last frame is the end of the path.
LEMMA LastFrame ==
    ASSUME NEW R, NEW ix \in [R -> Nat], NEW fr, Framed(R, ix, fr), fr # <<>>
    PROVE  \E n \in Nat :
              /\ n = Len(fr) /\ n # 0 /\ DOMAIN fr = 1..n
              /\ \A i \in 1..n : fr[i] \in Frame(R)
              /\ fr[n].node \in OnPath(fr)
              /\ \A b \in OnPath(fr) : ix[b] <= ix[fr[n].node]
              /\ \A i \in 1..n : i # n => fr[i].node # fr[n].node
<1>1. fr \in Seq(Frame(R))
  BY DEF Framed
<1>2. PICK n \in Nat : n = Len(fr) /\ n # 0
  BY <1>1, EmptySeq
<1>3. DOMAIN fr = 1..n /\ \A i \in 1..n : fr[i] \in Frame(R)
  BY <1>1, <1>2
<1>4. \A i, j \in 1..n : i < j => ix[fr[i].node] < ix[fr[j].node]
  BY <1>2, Zenon DEF Framed
<1>5. ASSUME NEW i \in 1..n
      PROVE  fr[i].node \in R /\ ix[fr[i].node] \in Nat
  <2>1. fr[i].node \in R
    BY <1>3 DEF Frame
  <2> QED
    BY <2>1
<1>6. n \in 1..n /\ \A i \in 1..n : i # n => i < n
  BY <1>2
<1>7. ASSUME NEW i \in 1..n, i # n
      PROVE  /\ ix[fr[i].node] < ix[fr[n].node]
             /\ ix[fr[i].node] \in Nat /\ ix[fr[n].node] \in Nat
  BY <1>4, <1>5, <1>6, <1>7, Zenon
<1>8. ASSUME NEW b \in OnPath(fr)
      PROVE  ix[b] <= ix[fr[n].node]
  <2>1. PICK i \in 1..n : b = fr[i].node
    BY <1>3, Zenon DEF OnPath
  <2>2. PICK x \in Nat : x = ix[b]
    BY <1>5, <2>1
  <2>3. PICK y \in Nat : y = ix[fr[n].node]
    BY <1>5, <1>6
  <2>4. x = y \/ x < y
    BY <1>7, <2>1, <2>2, <2>3, Zenon
  <2> QED
    BY <2>2, <2>3, <2>4
<1>9. fr[n].node \in OnPath(fr)
  BY <1>3, <1>6, Zenon DEF OnPath
<1>10. ASSUME NEW i \in 1..n, i # n
       PROVE  fr[i].node # fr[n].node
  <2> SUFFICES ASSUME fr[i].node = fr[n].node PROVE FALSE
    OBVIOUS
  <2>1. PICK y \in Nat : y = ix[fr[n].node] /\ y < y
    BY <1>7, <1>10
  <2> QED
    BY <2>1
<1> QED
  BY <1>2, <1>3, <1>8, <1>9, <1>10, Zenon

\* An edge is followed: the nodes of the frames stay, and one edge more is taken.
LEMMA AdvanceTakes ==
    ASSUME NEW es \in Seq(Edge), NEW R, NEW ix \in [R -> Nat],
           NEW fr, Framed(R, ix, fr), NEW e, NEW under,
           Advances(es, fr, e, under), ix[fr[Len(fr)].node] # 0
    PROVE  /\ Framed(R, ix, under) /\ Len(under) = Len(fr)
           /\ \A i \in 1..Len(fr) : under[i].node = fr[i].node
           /\ OnPath(under) = OnPath(fr)
           /\ Taken(es, ix, under) = Taken(es, ix, fr) \cup {e}
<1>1. /\ fr \in Seq(Frame(R)) /\ fr # <<>>
      /\ DOMAIN es = 1..Len(es) /\ Len(es) \in Nat
  BY DEF Framed, Advances
<1>2. PICK n \in Nat :
              /\ n = Len(fr) /\ n # 0 /\ DOMAIN fr = 1..n
              /\ \A i \in 1..n : fr[i] \in Frame(R)
              /\ fr[n].node \in OnPath(fr)
              /\ \A b \in OnPath(fr) : ix[b] <= ix[fr[n].node]
              /\ \A i \in 1..n : i # n => fr[i].node # fr[n].node
  BY <1>1, LastFrame
<1>3. n \in 1..n
  BY <1>2
<1>4. PICK top \in Frame(R) : top = fr[n]
  BY <1>2, <1>3
<1>5. e \in Nat /\ e + 1 \in Nat /\ e \in DOMAIN es
  BY <1>1 DEF Advances
<1>6. PICK moved \in Frame(R) : moved.node = top.node /\ moved.cursor = e + 1
                                /\ moved = [top EXCEPT !.cursor = e + 1]
  BY <1>5 DEF Frame
<1>7. top.cursor \in Nat /\ top.node \in R
  BY DEF Frame
<1>8. under = [fr EXCEPT ![n] = moved]
  BY <1>2, <1>4, <1>6 DEF Advances
<1>9. /\ under \in Seq(Frame(R)) /\ Len(under) = n /\ DOMAIN under = 1..n
      /\ under[n] = moved
      /\ \A i \in 1..n : i # n => under[i] = fr[i]
  BY <1>1, <1>2, <1>3, <1>8
<1>10. \A i \in 1..n : under[i].node = fr[i].node
  BY <1>4, <1>6, <1>9, Zenon
<1>11. Framed(R, ix, under)
  BY <1>2, <1>9, <1>10, Zenon DEF Framed
<1>12. OnPath(under) = OnPath(fr)
  <2>1. OnPath(under) = {under[i].node : i \in 1..n} /\ OnPath(fr) = {fr[i].node : i \in 1..n}
    BY <1>2, <1>9, Zenon DEF OnPath
  <2> QED
    BY <1>10, <2>1
<1>13. ASSUME NEW k \in DOMAIN es
       PROVE  k \in Taken(es, ix, under) <=> k \in Taken(es, ix, fr) \/ k = e
  <2>1. CASE es[k].from # top.node
    <3>1. k # e
      BY <1>2, <1>4, <2>1 DEF Advances
    <3>2. \A i \in 1..n :
             (under[i].node = es[k].from => k < under[i].cursor)
                <=> (fr[i].node = es[k].from => k < fr[i].cursor)
      BY <1>4, <1>6, <1>9, <2>1, Zenon
    <3> QED
      BY <1>2, <1>9, <3>1, <3>2, Zenon DEF Taken
  <2>2. CASE es[k].from = top.node
    <3>1. \A i \in 1..n : fr[i].node = es[k].from => i = n
      BY <1>2, <1>4, <2>2, Zenon
    <3>2. ix[es[k].from] # 0
      BY <1>2, <1>4, <2>2, Zenon
    <3>3. k \in Taken(es, ix, under) <=> k < e + 1
      <4>1. under[n].node = es[k].from /\ under[n].cursor = e + 1
        BY <1>6, <1>9, <2>2, Zenon
      <4>2. \A i \in 1..n : under[i].node = es[k].from => i = n
        BY <1>10, <3>1, Zenon
      <4>3. k \in Taken(es, ix, under)
               <=> \A i \in 1..n : under[i].node = es[k].from => k < under[i].cursor
        BY <1>9, <3>2, Zenon DEF Taken
      <4> QED
        BY <1>3, <4>1, <4>2, <4>3, Zenon
    <3>4. k \in Taken(es, ix, fr) <=> k < top.cursor
      BY <1>2, <1>3, <1>4, <2>2, <3>1, <3>2, Zenon DEF Taken
    <3>5. (k >= top.cursor => e <= k) /\ e >= top.cursor
      BY <1>2, <1>4, <2>2, Zenon DEF Advances
    <3>6. k \in Nat
      BY <1>1
    <3> QED
      BY <1>5, <1>7, <3>3, <3>4, <3>5, <3>6
  <2> QED
    BY <2>1, <2>2
<1>14. Taken(es, ix, under) = Taken(es, ix, fr) \cup {e}
  <2>1. Taken(es, ix, under) \subseteq DOMAIN es /\ Taken(es, ix, fr) \subseteq DOMAIN es
    BY Zenon DEF Taken
  <2> QED
    BY <1>5, <1>13, <2>1, Zenon
<1> QED
  BY <1>2, <1>9, <1>10, <1>11, <1>12, <1>14, Zenon

Scan(es, R, ix, lo, st, fr) ==
    /\ Stacked(R, ix, st) /\ Framed(R, ix, fr)
    /\ \A r \in R : ix[r] <= Cardinality(Marked(R, ix))
    /\ Search(es, R, ix, lo, Range(st), OnPath(fr), Taken(es, ix, fr))

\* v is entered.
Pushes(es, R, ix, lo, st, fr, v, under, ix2, lo2, st2, fr2) ==
    /\ v \in R /\ ix[v] = 0
    /\ ix2 = [ix EXCEPT ![v] = Cardinality(Marked(R, ix)) + 1]
    /\ lo2 = [lo EXCEPT ![v] = Cardinality(Marked(R, ix)) + 1]
    /\ st2 = Append(st, v)
    /\ fr2 = Append(under, [node |-> v, cursor |-> 1])
    /\ \/ fr = <<>> /\ under = fr
       \/ \E e \in DOMAIN es : Advances(es, fr, e, under) /\ es[e].to = v

Stamped(ix, v, n) == [ix EXCEPT ![v] = n]
FirstFrame(v) == [node |-> v, cursor |-> 1]

\* v can be visited at time n.
Fresh(R, ix, v, n) ==
    /\ ix \in [R -> Nat] /\ v \in R /\ ix[v] = 0
    /\ n \in Nat /\ n # 0 /\ \A r \in R : ix[r] < n

TakesNothing(es, ix, under, v, n) ==
    Taken(es, Stamped(ix, v, n), Append(under, FirstFrame(v))) = Taken(es, ix, under)

StackGrows(R, ix, st, v, n) ==
    /\ Stacked(R, Stamped(ix, v, n), Append(st, v))
    /\ Range(Append(st, v)) = Range(st) \cup {v}

FramesGrow(R, ix, fr, v, n) ==
    /\ Framed(R, Stamped(ix, v, n), Append(fr, FirstFrame(v)))
    /\ OnPath(Append(fr, FirstFrame(v))) = OnPath(fr) \cup {v}

\* A node's frames and edges do not matter to what was followed before it was entered.
LEMMA PushTakes ==
    ASSUME NEW es, es \in Seq(Edge), NEW R, Between(es, R),
           NEW ix, NEW v, NEW n, Fresh(R, ix, v, n), NEW under, under \in Seq(Frame(R))
    PROVE  TakesNothing(es, ix, under, v, n)
<1>0. ix \in [R -> Nat] /\ v \in R /\ ix[v] = 0 /\ n \in Nat /\ n # 0
  BY Zenon DEF Fresh
<1>1. PICK m \in Nat : m = Len(under) /\ DOMAIN under = 1..m
  OBVIOUS
<1>2. PICK new \in Frame(R) : new = FirstFrame(v)
  BY <1>0 DEF Frame, FirstFrame
<1>3. PICK fr2 : fr2 = Append(under, new)
  OBVIOUS
<1>4. /\ DOMAIN fr2 = 1..(m + 1) /\ fr2[m + 1] = new
      /\ \A i \in 1..m : fr2[i] = under[i]
  BY <1>1, <1>3
<1>5. PICK ix2 : ix2 = Stamped(ix, v, n)
  OBVIOUS
<1>6. ix2[v] = n /\ \A r \in R : r # v => ix2[r] = ix[r]
  BY <1>0, <1>5 DEF Stamped
<1>7. new.node = v /\ new.cursor = 1
  BY <1>2 DEF FirstFrame
<1>8. /\ \A i \in 1..(m + 1) : i \in 1..m \/ i = m + 1
      /\ \A i \in 1..m : i \in 1..(m + 1)
      /\ m + 1 \in 1..(m + 1)
  BY <1>1
<1>9. ASSUME NEW k \in DOMAIN es
      PROVE  k \in Taken(es, ix2, fr2) <=> k \in Taken(es, ix, under)
  <2>1. es[k].from \in R
    BY DEF Between
  <2>2. k \in Taken(es, ix2, fr2)
           <=> /\ ix2[es[k].from] # 0
               /\ \A i \in 1..(m + 1) : fr2[i].node = es[k].from => k < fr2[i].cursor
    BY <1>4, Zenon DEF Taken
  <2>3. k \in Taken(es, ix, under)
           <=> /\ ix[es[k].from] # 0
               /\ \A i \in 1..m : under[i].node = es[k].from => k < under[i].cursor
    BY <1>1, Zenon DEF Taken
  <2>4. CASE es[k].from = v
    <3>1. k \notin Taken(es, ix, under)
      BY <1>0, <2>3, <2>4, Zenon
    <3>2. ~(k < 1)
      OBVIOUS
    <3>3. k \notin Taken(es, ix2, fr2)
      BY <1>4, <1>7, <1>8, <2>2, <2>4, <3>2, Zenon
    <3> QED
      BY <3>1, <3>3
  <2>5. CASE es[k].from # v
    <3>1. ix2[es[k].from] = ix[es[k].from]
      BY <1>6, <2>1, <2>5, Zenon
    <3>2. fr2[m + 1].node # es[k].from
      BY <1>4, <1>7, <2>5, Zenon
    <3> QED
      BY <1>4, <1>8, <2>2, <2>3, <3>1, <3>2, Zenon
  <2> QED
    BY <2>4, <2>5
<1>10. Taken(es, ix2, fr2) = Taken(es, ix, under)
  <2>1. Taken(es, ix2, fr2) \subseteq DOMAIN es /\ Taken(es, ix, under) \subseteq DOMAIN es
    BY Zenon DEF Taken
  <2> QED
    BY <1>9, <2>1, Zenon
<1> QED
  BY <1>2, <1>3, <1>5, <1>10, Zenon DEF TakesNothing

\* What a push does to the stacks.
LEMMA PushStacks ==
    ASSUME NEW R, NEW ix, NEW v, NEW n, Fresh(R, ix, v, n),
           NEW st, Stacked(R, ix, st), \A u \in Range(st) : ix[u] # 0
    PROVE  StackGrows(R, ix, st, v, n)
<1>0. /\ ix \in [R -> Nat] /\ v \in R /\ ix[v] = 0 /\ n \in Nat /\ n # 0
      /\ \A r \in R : ix[r] < n
  BY Zenon DEF Fresh
<1>1. st \in Seq(R)
  BY DEF Stacked
<1>2. PICK m \in Nat : m = Len(st) /\ DOMAIN st = 1..m
  BY <1>1
<1>3. PICK st2 : st2 = Append(st, v)
  OBVIOUS
<1>4. /\ st2 \in Seq(R) /\ Len(st2) = m + 1 /\ DOMAIN st2 = 1..(m + 1) /\ st2[m + 1] = v
      /\ \A i \in 1..m : st2[i] = st[i]
  BY <1>0, <1>1, <1>2, <1>3
<1>5. PICK ix2 : ix2 = Stamped(ix, v, n)
  OBVIOUS
<1>6. ix2[v] = n /\ \A r \in R : r # v => ix2[r] = ix[r]
  BY <1>0, <1>5 DEF Stamped
<1>7. ASSUME NEW i \in 1..m
      PROVE  st[i] \in R /\ st[i] # v /\ ix2[st[i]] = ix[st[i]]
  <2>1. st[i] \in R /\ st[i] \in Range(st)
    BY <1>1, <1>2 DEF Range
  <2> QED
    BY <1>0, <1>6, <2>1, Zenon
<1>8. ASSUME NEW i \in 1..(m + 1), NEW j \in 1..(m + 1), i < j
      PROVE  ix2[st2[i]] < ix2[st2[j]]
  <2>1. i \in 1..m /\ (j \in 1..m \/ j = m + 1)
    BY <1>8
  <2>2. CASE j = m + 1
    BY <1>0, <1>4, <1>6, <1>7, <2>1, <2>2, Zenon
  <2>3. CASE j \in 1..m
    <3>1. ix[st[i]] < ix[st[j]]
      BY <1>2, <1>8, <2>1, <2>3, Zenon DEF Stacked
    <3> QED
      BY <1>4, <1>7, <2>1, <2>3, <3>1, Zenon
  <2> QED
    BY <2>1, <2>2, <2>3
<1>9. Stacked(R, ix2, st2)
  BY <1>4, <1>8, Zenon DEF Stacked
<1>10. Range(st2) = Range(st) \cup {v}
  <2>1. Range(st2) = {st2[i] : i \in 1..(m + 1)} /\ Range(st) = {st[i] : i \in 1..m}
    BY <1>2, <1>4, Zenon DEF Range
  <2>2. 1..(m + 1) = (1..m) \cup {m + 1}
    BY <1>2
  <2> QED
    BY <1>4, <2>1, <2>2
<1> QED
  BY <1>3, <1>5, <1>9, <1>10, Zenon DEF StackGrows

\* The frames stay in the order of visiting.
LEMMA PushFrames ==
    ASSUME NEW R, NEW ix, NEW v, NEW n, Fresh(R, ix, v, n),
           NEW fr, Framed(R, ix, fr), \A u \in OnPath(fr) : ix[u] # 0
    PROVE  FramesGrow(R, ix, fr, v, n)
<1>0. /\ ix \in [R -> Nat] /\ v \in R /\ ix[v] = 0 /\ n \in Nat /\ n # 0
      /\ \A r \in R : ix[r] < n
  BY Zenon DEF Fresh
<1>1. fr \in Seq(Frame(R))
  BY DEF Framed
<1>2. PICK m \in Nat : m = Len(fr) /\ DOMAIN fr = 1..m
  BY <1>1
<1>3. PICK new \in Frame(R) : new = FirstFrame(v)
  BY <1>0 DEF Frame, FirstFrame
<1>4. PICK fr2 : fr2 = Append(fr, new)
  OBVIOUS
<1>5. /\ fr2 \in Seq(Frame(R)) /\ Len(fr2) = m + 1 /\ DOMAIN fr2 = 1..(m + 1)
      /\ fr2[m + 1] = new
      /\ \A i \in 1..m : fr2[i] = fr[i]
  BY <1>1, <1>2, <1>4
<1>6. PICK ix2 : ix2 = Stamped(ix, v, n)
  OBVIOUS
<1>7. ix2[v] = n /\ (\A r \in R : r # v => ix2[r] = ix[r]) /\ new.node = v
  BY <1>0, <1>3, <1>6 DEF Stamped, FirstFrame
<1>8. ASSUME NEW i \in 1..m
      PROVE  fr[i].node \in R /\ fr[i].node # v /\ ix2[fr[i].node] = ix[fr[i].node]
  <2>1. fr[i] \in Frame(R)
    BY <1>1, <1>2
  <2>2. fr[i].node \in R
    BY <2>1 DEF Frame
  <2>3. fr[i].node \in OnPath(fr)
    BY <1>2, Zenon DEF OnPath
  <2> QED
    BY <1>0, <1>7, <2>2, <2>3, Zenon
<1>9. ASSUME NEW i \in 1..(m + 1), NEW j \in 1..(m + 1), i < j
      PROVE  ix2[fr2[i].node] < ix2[fr2[j].node]
  <2>1. i \in 1..m /\ (j \in 1..m \/ j = m + 1)
    BY <1>9
  <2>2. CASE j = m + 1
    BY <1>0, <1>5, <1>7, <1>8, <2>1, <2>2, ZenonT(60)
  <2>3. CASE j \in 1..m
    <3>1. ix[fr[i].node] < ix[fr[j].node]
      BY <1>2, <1>9, <2>1, <2>3, Zenon DEF Framed
    <3> QED
      BY <1>5, <1>8, <2>1, <2>3, <3>1, Zenon
  <2> QED
    BY <2>1, <2>2, <2>3
<1>10. Framed(R, ix2, fr2)
  BY <1>5, <1>9, Zenon DEF Framed
<1>11. OnPath(fr2) = OnPath(fr) \cup {v}
  <2>1. OnPath(fr2) = {fr2[i].node : i \in 1..(m + 1)} /\ OnPath(fr) = {fr[i].node : i \in 1..m}
    BY <1>2, <1>5, Zenon DEF OnPath
  <2>2. 1..(m + 1) = (1..m) \cup {m + 1}
    BY <1>2
  <2>3. \A i \in 1..m : fr2[i].node = fr[i].node
    BY <1>5, Zenon
  <2>4. fr2[m + 1].node = v
    BY <1>5, <1>7, Zenon
  <2> QED
    BY <2>1, <2>2, <2>3, <2>4
<1> QED
  BY <1>3, <1>4, <1>6, <1>10, <1>11, Zenon DEF FramesGrow

\* Entering a node keeps the invariant and finishes nothing.
LEMMA ScanEnter ==
    ASSUME NEW es \in Seq(Edge), NEW R, IsFiniteSet(R), Between(es, R),
           NEW ix, NEW lo, NEW st, NEW fr, Scan(es, R, ix, lo, st, fr),
           NEW v, NEW under, NEW ix2, NEW lo2, NEW st2, NEW fr2,
           Pushes(es, R, ix, lo, st, fr, v, under, ix2, lo2, st2, fr2)
    PROVE  /\ Scan(es, R, ix2, lo2, st2, fr2)
           /\ Finished(R, ix2, Range(st2)) = Finished(R, ix, Range(st))
<1>1. /\ Stacked(R, ix, st) /\ Framed(R, ix, fr)
      /\ \A r \in R : ix[r] <= Cardinality(Marked(R, ix))
      /\ Search(es, R, ix, lo, Range(st), OnPath(fr), Taken(es, ix, fr))
  BY Zenon DEF Scan
<1>2. /\ ix \in [R -> Nat] /\ OnPath(fr) \subseteq Range(st)
      /\ \A u \in Range(st) : ix[u] # 0
  BY <1>1, Zenon DEF Search, Typed
<1>3. IsFiniteSet(Marked(R, ix)) /\ Cardinality(Marked(R, ix)) \in Nat
  <2>1. Marked(R, ix) \subseteq R
    BY Zenon DEF Marked
  <2> QED
    BY <2>1, FS_Subset, FS_CardinalityType
<1>4. PICK n \in Nat : n = Cardinality(Marked(R, ix)) + 1 /\ n # 0
  BY <1>3
<1>5. \A r \in R : ix[r] < n
  BY <1>1, <1>2, <1>3, <1>4
<1>6. /\ v \in R /\ ix[v] = 0
      /\ ix2 = [ix EXCEPT ![v] = n] /\ lo2 = [lo EXCEPT ![v] = n]
      /\ st2 = Append(st, v)
      /\ fr2 = Append(under, FirstFrame(v)) /\ ix2 = Stamped(ix, v, n)
  BY <1>4, Zenon DEF Pushes, FirstFrame, Stamped
<1>7. Fresh(R, ix, v, n)
  BY <1>2, <1>4, <1>5, <1>6, Zenon DEF Fresh
<1>8. /\ Framed(R, ix, under) /\ OnPath(under) = OnPath(fr)
      /\ \/ fr = <<>> /\ Taken(es, ix, under) = Taken(es, ix, fr)
         \/ \E e \in DOMAIN es : /\ Advances(es, fr, e, under) /\ es[e].to = v
                                 /\ Taken(es, ix, under) = Taken(es, ix, fr) \cup {e}
  <2>1. CASE fr = <<>> /\ under = fr
    BY <1>1, <2>1, Zenon
  <2>2. CASE \E e \in DOMAIN es : Advances(es, fr, e, under) /\ es[e].to = v
    <3>1. PICK e \in DOMAIN es : Advances(es, fr, e, under) /\ es[e].to = v
      BY <2>2
    <3>2. fr # <<>>
      BY <3>1, Zenon DEF Advances
    <3>3. ix[fr[Len(fr)].node] # 0
      BY <1>1, <1>2, <3>2, LastFrame
    <3> QED
      BY <1>1, <1>2, <3>1, <3>3, AdvanceTakes
  <2> QED
    BY <2>1, <2>2, Zenon DEF Pushes
<1>9. Visits(es, R, ix, lo, OnPath(fr), Taken(es, ix, fr), v, n, ix2, lo2,
             Taken(es, ix, under))
  <2>1. CASE fr = <<>> /\ Taken(es, ix, under) = Taken(es, ix, fr)
    <3>1. OnPath(fr) = {}
      BY <2>1 DEF OnPath
    <3> QED
      BY <1>4, <1>5, <1>6, <2>1, <3>1, Zenon DEF Visits
  <2>2. CASE \E e \in DOMAIN es : /\ Advances(es, fr, e, under) /\ es[e].to = v
                                  /\ Taken(es, ix, under) = Taken(es, ix, fr) \cup {e}
    <3>1. PICK e \in DOMAIN es : /\ Advances(es, fr, e, under) /\ es[e].to = v
                                 /\ Taken(es, ix, under) = Taken(es, ix, fr) \cup {e}
      BY <2>2
    <3>2. fr # <<>> /\ es[e].from = fr[Len(fr)].node
      BY <3>1, Zenon DEF Advances
    <3>3. es[e].from \in OnPath(fr) /\ \A b \in OnPath(fr) : ix[b] <= ix[es[e].from]
      BY <1>1, <1>2, <3>2, LastFrame
    <3> QED
      BY <1>4, <1>5, <1>6, <3>1, <3>3, Zenon DEF Visits
  <2> QED
    BY <1>8, <2>1, <2>2, Zenon
<1>10. Search(es, R, ix2, lo2, Range(st) \cup {v}, OnPath(fr) \cup {v}, Taken(es, ix, under))
  BY <1>1, <1>9, EnterKeeps, Zenon
<1>11. Taken(es, ix2, fr2) = Taken(es, ix, under)
  <2>1. under \in Seq(Frame(R))
    BY <1>8, Zenon DEF Framed
  <2>2. TakesNothing(es, ix, under, v, n)
    BY <1>7, <2>1, PushTakes, Zenon
  <2> QED
    BY <1>6, <2>2, Zenon DEF TakesNothing
<1>12. Stacked(R, ix2, st2) /\ Range(st2) = Range(st) \cup {v}
  <2>1. StackGrows(R, ix, st, v, n)
    BY <1>1, <1>2, <1>7, PushStacks, Zenon
  <2> QED
    BY <1>6, <2>1, Zenon DEF StackGrows
<1>13. Framed(R, ix2, fr2) /\ OnPath(fr2) = OnPath(fr) \cup {v}
  <2>1. \A u \in OnPath(under) : ix[u] # 0
    BY <1>2, <1>8, Zenon
  <2>2. FramesGrow(R, ix, under, v, n)
    BY <1>7, <1>8, <2>1, PushFrames, Zenon
  <2> QED
    BY <1>6, <1>8, <2>2, Zenon DEF FramesGrow
<1>14. /\ ix2[v] = n /\ \A r \in R : r # v => ix2[r] = ix[r]
  BY <1>2, <1>6
<1>15. \A r \in R : ix2[r] <= Cardinality(Marked(R, ix2))
  <2>1. Marked(R, ix2) = Marked(R, ix) \cup {v} /\ v \notin Marked(R, ix)
    BY <1>4, <1>6, <1>14 DEF Marked
  <2>2. Cardinality(Marked(R, ix2)) = n
    BY <1>3, <1>4, <2>1, FS_AddElement
  <2>3. \A r \in R : ix2[r] <= n
    BY <1>2, <1>4, <1>5, <1>14
  <2> QED
    BY <2>2, <2>3, Zenon
<1>16. Scan(es, R, ix2, lo2, st2, fr2)
  BY <1>10, <1>11, <1>12, <1>13, <1>15, Zenon DEF Scan
<1>17. Finished(R, ix2, Range(st2)) = Finished(R, ix, Range(st))
  BY <1>6, <1>12, <1>14 DEF Finished
<1> QED
  BY <1>16, <1>17

\* An edge to a visited node is followed.
LEMMA ScanFollow ==
    ASSUME NEW es \in Seq(Edge), NEW R, Between(es, R),
           NEW ix, NEW lo, NEW st, NEW fr, Scan(es, R, ix, lo, st, fr),
           NEW e, NEW under, NEW lo2, Advances(es, fr, e, under),
           ix[es[e].to] # 0,
           lo2 = [lo EXCEPT ![es[e].from] =
                     IF es[e].to \in Range(st) /\ ix[es[e].to] < lo[es[e].from]
                     THEN ix[es[e].to] ELSE lo[es[e].from]]
    PROVE  Scan(es, R, ix, lo2, st, under)
<1>1. /\ Stacked(R, ix, st) /\ Framed(R, ix, fr)
      /\ \A r \in R : ix[r] <= Cardinality(Marked(R, ix))
      /\ Search(es, R, ix, lo, Range(st), OnPath(fr), Taken(es, ix, fr))
  BY Zenon DEF Scan
<1>2. /\ ix \in [R -> Nat] /\ OnPath(fr) \subseteq Range(st)
      /\ \A u \in Range(st) : ix[u] # 0
  BY <1>1, Zenon DEF Search, Typed
<1>3. fr # <<>> /\ e \in DOMAIN es /\ es[e].from = fr[Len(fr)].node
  BY Zenon DEF Advances
<1>4. es[e].from \in OnPath(fr) /\ \A b \in OnPath(fr) : ix[b] <= ix[es[e].from]
  BY <1>1, <1>2, <1>3, LastFrame
<1>5. /\ Framed(R, ix, under) /\ OnPath(under) = OnPath(fr)
      /\ Taken(es, ix, under) = Taken(es, ix, fr) \cup {e}
  <2>1. ix[fr[Len(fr)].node] # 0
    BY <1>2, <1>3, <1>4, Zenon
  <2> QED
    BY <1>1, <1>2, <2>1, AdvanceTakes
<1>6. Follows(es, R, ix, lo, Range(st), OnPath(fr), Taken(es, ix, fr), es[e].from, e, lo2,
              Taken(es, ix, under))
  BY <1>3, <1>4, <1>5, Zenon DEF Follows
<1>7. Search(es, R, ix, lo2, Range(st), OnPath(fr), Taken(es, ix, under))
  BY <1>1, <1>6, FollowKeeps, Zenon
<1> QED
  BY <1>1, <1>5, <1>7, Zenon DEF Scan

\* The last frame is removed after its edges.
FrameEnds(es, fr) ==
    /\ fr # <<>>
    /\ \A k \in DOMAIN es : ~(k >= fr[Len(fr)].cursor /\ es[k].from = fr[Len(fr)].node)

FramesShrink(es, R, ix, fr) ==
    /\ Framed(R, ix, Front(fr))
    /\ OnPath(Front(fr)) = OnPath(fr) \ {fr[Len(fr)].node}
    /\ Taken(es, ix, Front(fr)) = Taken(es, ix, fr)
    /\ \A k \in DOMAIN es : es[k].from = fr[Len(fr)].node => k \in Taken(es, ix, fr)

\* Removing the last frame leaves the path one node shorter.
LEMMA PopFrame ==
    ASSUME NEW es, es \in Seq(Edge), NEW R, NEW ix, ix \in [R -> Nat], NEW fr,
           Framed(R, ix, fr), FrameEnds(es, fr), ix[fr[Len(fr)].node] # 0
    PROVE  FramesShrink(es, R, ix, fr)
<1>1. fr \in Seq(Frame(R)) /\ fr # <<>>
  BY DEF Framed, FrameEnds
<1>2. PICK n \in Nat :
              /\ n = Len(fr) /\ n # 0 /\ DOMAIN fr = 1..n
              /\ \A i \in 1..n : fr[i] \in Frame(R)
              /\ fr[n].node \in OnPath(fr)
              /\ \A b \in OnPath(fr) : ix[b] <= ix[fr[n].node]
              /\ \A i \in 1..n : i # n => fr[i].node # fr[n].node
  BY <1>1, LastFrame
<1>3. PICK m \in Nat : m = n - 1 /\ m + 1 = n
  BY <1>2
<1>4. PICK fr2 : fr2 = Front(fr)
  OBVIOUS
<1>5. /\ fr2 \in Seq(Frame(R)) /\ Len(fr2) = m /\ DOMAIN fr2 = 1..m
      /\ \A i \in 1..m : fr2[i] = fr[i]
  BY <1>1, <1>2, <1>3, <1>4 DEF Front
<1>6. /\ 1..n = (1..m) \cup {n} /\ n \notin 1..m
      /\ \A i \in 1..m : i # n
  BY <1>3
<1>7. PICK top \in Frame(R) : top = fr[n]
  BY <1>2, <1>6
<1>8. \A k \in DOMAIN es : k \in Nat
  OBVIOUS
<1>9. top.cursor \in Nat
  BY DEF Frame
<1>10. \A k \in DOMAIN es : es[k].from = top.node => k < top.cursor
  <2>1. \A k \in DOMAIN es : ~(k >= top.cursor /\ es[k].from = top.node)
    BY <1>2, <1>7, Zenon DEF FrameEnds
  <2> QED
    BY <1>8, <1>9, <2>1
<1>11. Framed(R, ix, fr2)
  <2>1. \A i, j \in 1..m : i < j => ix[fr2[i].node] < ix[fr2[j].node]
    BY <1>2, <1>5, <1>6, Zenon DEF Framed
  <2> QED
    BY <1>5, <2>1, Zenon DEF Framed
<1>12. OnPath(fr2) = OnPath(fr) \ {top.node}
  <2>1. OnPath(fr2) = {fr2[i].node : i \in 1..m} /\ OnPath(fr) = {fr[i].node : i \in 1..n}
    BY <1>2, <1>5, Zenon DEF OnPath
  <2>2. \A i \in 1..m : fr2[i].node = fr[i].node
    BY <1>5, Zenon
  <2>3. \A i \in 1..m : fr[i].node # top.node
    BY <1>2, <1>6, <1>7, Zenon
  <2>4. fr[n].node = top.node
    BY <1>7
  <2>5. ASSUME NEW x \in OnPath(fr2)
        PROVE  x \in OnPath(fr) \ {top.node}
    BY <1>6, <2>1, <2>2, <2>3, Zenon
  <2>6. ASSUME NEW x \in OnPath(fr), x # top.node
        PROVE  x \in OnPath(fr2)
    <3>1. PICK i \in 1..n : x = fr[i].node
      BY <2>1, Zenon
    <3>2. i \in 1..m
      BY <1>6, <2>4, <2>6, <3>1, Zenon
    <3> QED
      BY <2>1, <2>2, <3>1, <3>2, Zenon
  <2> QED
    BY <2>5, <2>6, Zenon
<1>13. ASSUME NEW k \in DOMAIN es
       PROVE  /\ k \in Taken(es, ix, fr2) <=> k \in Taken(es, ix, fr)
              /\ es[k].from = top.node => k \in Taken(es, ix, fr)
  <2>1. k \in Taken(es, ix, fr2)
           <=> /\ ix[es[k].from] # 0
               /\ \A i \in 1..m : fr2[i].node = es[k].from => k < fr2[i].cursor
    BY <1>5, Zenon DEF Taken
  <2>2. k \in Taken(es, ix, fr)
           <=> /\ ix[es[k].from] # 0
               /\ \A i \in 1..n : fr[i].node = es[k].from => k < fr[i].cursor
    BY <1>2, Zenon DEF Taken
  <2>3. fr[n].node = es[k].from => k < fr[n].cursor
    BY <1>7, <1>10, Zenon
  <2>4. \A i \in 1..n : i \in 1..m \/ i = n
    BY <1>6
  <2>5. k \in Taken(es, ix, fr2) <=> k \in Taken(es, ix, fr)
    BY <1>5, <1>6, <2>1, <2>2, <2>3, <2>4, Zenon
  <2>6. ASSUME es[k].from = top.node PROVE k \in Taken(es, ix, fr)
    <3>1. \A i \in 1..n : fr[i].node = es[k].from => i = n
      BY <1>2, <1>7, <2>6, Zenon
    <3>2. ix[es[k].from] # 0
      BY <1>2, <1>7, <2>6, Zenon
    <3> QED
      BY <2>2, <2>3, <3>1, <3>2, Zenon
  <2> QED
    BY <2>5, <2>6
<1>14. Taken(es, ix, fr2) = Taken(es, ix, fr)
  <2>1. Taken(es, ix, fr2) \subseteq DOMAIN es /\ Taken(es, ix, fr) \subseteq DOMAIN es
    BY Zenon DEF Taken
  <2> QED
    BY <1>13, <2>1, Zenon
<1> QED
  BY <1>2, <1>4, <1>7, <1>11, <1>12, <1>13, <1>14, Zenon DEF FramesShrink

\* low after a node left: the frame below learns it.
LowAfter(lo, fr) ==
    IF Len(fr) = 1 THEN lo
    ELSE [lo EXCEPT ![fr[Len(fr) - 1].node] =
             IF lo[fr[Len(fr)].node] < @ THEN lo[fr[Len(fr)].node] ELSE @]

\* A frame without edges left is a node that leaves.
LEMMA FrameLeaves ==
    ASSUME NEW es, es \in Seq(Edge), NEW R, NEW ix, ix \in [R -> Nat], NEW fr, NEW lo,
           lo \in [R -> Nat],
           Framed(R, ix, fr), FrameEnds(es, fr), ix[fr[Len(fr)].node] # 0
    PROVE  Leaves(es, R, ix, lo, OnPath(fr), Taken(es, ix, fr), fr[Len(fr)].node,
                  LowAfter(lo, fr))
<1>1. fr \in Seq(Frame(R)) /\ fr # <<>>
  BY DEF Framed, FrameEnds
<1>2. PICK n \in Nat :
              /\ n = Len(fr) /\ n # 0 /\ DOMAIN fr = 1..n
              /\ \A i \in 1..n : fr[i] \in Frame(R)
              /\ fr[n].node \in OnPath(fr)
              /\ \A b \in OnPath(fr) : ix[b] <= ix[fr[n].node]
              /\ \A i \in 1..n : i # n => fr[i].node # fr[n].node
  BY <1>1, LastFrame, SMTT(30)
<1>3. \A k \in DOMAIN es : es[k].from = fr[n].node => k \in Taken(es, ix, fr)
  BY <1>2, PopFrame, Zenon DEF FramesShrink
<1>4. CASE n = 1
  <2>1. OnPath(fr) = {fr[n].node}
    <3>1. \A i \in 1..n : i = n
      BY <1>4
    <3>2. \A x \in OnPath(fr) : x = fr[n].node
      BY <1>2, <3>1, Zenon DEF OnPath
    <3>3. fr[n].node \in OnPath(fr)
      BY <1>2
    <3> QED
      BY <3>2, <3>3, Zenon
  <2>2. LowAfter(lo, fr) = lo
    BY <1>2, <1>4, Zenon DEF LowAfter
  <2> QED
    BY <1>2, <1>3, <2>1, <2>2, Zenon DEF Leaves
<1>5. CASE n # 1
  <2>1. PICK m \in Nat : /\ m = n - 1 /\ m \in 1..n /\ m # n
                         /\ \A i \in 1..n : i # n => i = m \/ i < m
    <3>1. n # 0
      BY <1>2
    <3>2. n - 1 \in Nat /\ n - 1 \in 1..n /\ n - 1 # n
      BY <1>5, <3>1
    <3>3. \A i \in 1..n : i # n => i = n - 1 \/ i < n - 1
      BY <1>5, <3>1
    <3> QED
      BY <3>2, <3>3, Zenon
  <2>2. PICK p : p = fr[m].node
    OBVIOUS
  <2>3. p \in OnPath(fr) /\ p # fr[n].node /\ p \in R
    <3>1. fr[m] \in Frame(R)
      BY <1>2, <2>1, Zenon
    <3>2. fr[m].node \in R
      BY <3>1 DEF Frame
    <3> QED
      BY <1>2, <2>1, <2>2, <3>2, Zenon DEF OnPath
  <2>4. ASSUME NEW b \in OnPath(fr), b # fr[n].node
        PROVE  ix[b] <= ix[p]
    <3>1. PICK i \in 1..n : b = fr[i].node
      BY <1>2, Zenon DEF OnPath
    <3>2. i # n
      BY <2>4, <3>1
    <3>3. b = p \/ ix[b] < ix[p]
      BY <1>2, <2>1, <2>2, <3>1, <3>2, Zenon DEF Framed
    <3>4. b \in R
      <4>1. fr[i] \in Frame(R)
        BY <1>2, Zenon
      <4> QED
        BY <3>1, <4>1 DEF Frame
    <3>5. ix[b] \in Nat /\ ix[p] \in Nat
      BY <2>3, <3>4
    <3> QED
      BY <3>3, <3>5
  <2>5. LowAfter(lo, fr) = [lo EXCEPT ![p] = IF lo[fr[n].node] < lo[p]
                                             THEN lo[fr[n].node] ELSE lo[p]]
    BY <1>2, <1>5, <2>1, <2>2, Zenon DEF LowAfter
  <2> QED
    BY <1>2, <1>3, <2>3, <2>4, <2>5, Zenon DEF Leaves
<1> QED
  BY <1>4, <1>5

\* What is on the stack from v on.
Above(st, v) == {st[i] : i \in {i \in DOMAIN st : \E j \in 1..i : st[j] = v}}

StackShrinks(R, ix, st, v) ==
    LET left == SubSeq(st, 1, Len(st) - Cardinality(Above(st, v)))
    IN  /\ Above(st, v) = Members(ix, Range(st), v)
        /\ Stacked(R, ix, left)
        /\ Range(left) = Range(st) \ Above(st, v)
        /\ Cardinality(Above(st, v)) > 1 <=> \E x \in Above(st, v) : x # v

\* t is the first n elements of s.
Prefix(K, s, n, t) ==
    /\ t \in Seq(K) /\ Len(t) = n /\ DOMAIN t = 1..n
    /\ \A i \in 1..n : t[i] = s[i]

LEMMA PrefixIs ==
    ASSUME NEW K, NEW s \in Seq(K), NEW n \in Nat, n <= Len(s)
    PROVE  Prefix(K, s, n, SubSeq(s, 1, n))
<1>1. PICK l \in Nat : l = Len(s) /\ s \in [1..l -> K]
  BY LenProperties, Zenon
<1>2. PICK t : t = SubSeq(s, 1, n)
  OBVIOUS
<1>3. \A i \in 1..n : s[i] \in K
  BY <1>1
<1>4. t \in Seq(K) /\ Len(t) = n
  BY <1>1, <1>2
<1>5. DOMAIN t = 1..n
  BY <1>4, LenProperties, Zenon
<1>6. \A i \in 1..n : t[i] = s[i]
  BY <1>1, <1>2
<1> QED
  BY <1>2, <1>4, <1>5, <1>6, Zenon DEF Prefix

\* What is popped are the nodes visited since v.
LEMMA PopStack ==
    ASSUME NEW R, NEW ix, ix \in [R -> Nat], NEW st, Stacked(R, ix, st),
           NEW v, v \in Range(st)
    PROVE  StackShrinks(R, ix, st, v)
<1>1. st \in Seq(R)
  BY DEF Stacked
<1>2. PICK n \in Nat : n = Len(st) /\ DOMAIN st = 1..n
  BY <1>1
<1>3. \A i \in 1..n : st[i] \in R /\ ix[st[i]] \in Nat
  BY <1>1, <1>2
<1>4. \A i, j \in 1..n : i < j => ix[st[i]] < ix[st[j]]
  BY <1>2, Zenon DEF Stacked
<1>5. PICK m \in 1..n : st[m] = v
  BY <1>2, Zenon DEF Range
<1>6. ASSUME NEW i \in 1..n
      PROVE  /\ m <= i <=> ix[v] <= ix[st[i]]
             /\ st[i] = v <=> i = m
  <2>1. ix[st[i]] \in Nat /\ ix[v] \in Nat
    BY <1>3, <1>5
  <2>2. (i < m => ix[st[i]] < ix[v]) /\ (m < i => ix[v] < ix[st[i]])
    BY <1>4, <1>5
  <2>3. CASE i = m
    BY <1>5, <2>1, <2>3
  <2>4. CASE i # m
    <3>1. i < m \/ m < i
      BY <2>4
    <3>2. st[i] = v => ix[st[i]] = ix[v]
      OBVIOUS
    <3> QED
      BY <2>1, <2>2, <2>4, <3>1, <3>2
  <2> QED
    BY <2>3, <2>4
<1>7. PICK M : M = Above(st, v)
  OBVIOUS
<1>8. M = {st[i] : i \in m..n}
  <2>1. {i \in DOMAIN st : \E j \in 1..i : st[j] = v} = m..n
    <3>1. ASSUME NEW i \in 1..n, NEW j \in 1..i, st[j] = v
          PROVE  i \in m..n
      <4>1. j \in 1..n
        OBVIOUS
      <4>2. j = m
        BY <1>6, <3>1, <4>1, Zenon
      <4> QED
        BY <1>5, <4>2
    <3>2. ASSUME NEW i \in m..n
          PROVE  i \in 1..n /\ m \in 1..i /\ st[m] = v
      BY <1>5
    <3> QED
      BY <1>2, <3>1, <3>2, Zenon
  <2> QED
    BY <1>7, <2>1, Zenon DEF Above
<1>9. M = Members(ix, Range(st), v)
  <2>1. ASSUME NEW x \in M
        PROVE  x \in Range(st) /\ ix[v] <= ix[x]
    <3>1. PICK i \in m..n : x = st[i]
      BY <1>8
    <3>2. i \in 1..n /\ m <= i
      OBVIOUS
    <3> QED
      BY <1>2, <1>6, <3>1, <3>2, Zenon DEF Range
  <2>2. ASSUME NEW x \in Range(st), ix[v] <= ix[x]
        PROVE  x \in M
    <3>1. PICK i \in 1..n : x = st[i]
      BY <1>2, Zenon DEF Range
    <3>2. m <= i
      BY <1>6, <2>2, <3>1, Zenon
    <3>3. i \in m..n
      BY <3>2
    <3> QED
      BY <1>8, <3>1, <3>3, Zenon
  <2> QED
    BY <2>1, <2>2, Zenon DEF Members
<1>10. PICK c \in Nat : c = n - m + 1
  BY <1>5
<1>11. Cardinality(M) = c
  <2> DEFINE f == [i \in 1..c |-> st[(m - 1) + i]]
  <2>1. \A i \in 1..c : (m - 1) + i \in m..n /\ (m - 1) + i \in 1..n
    BY <1>5, <1>10
  <2>2. f \in [1..c -> M]
    BY <1>8, <2>1
  <2>3. ASSUME NEW i \in 1..c, NEW j \in 1..c, f[i] = f[j]
        PROVE  i = j
    <3>1. PICK a \in 1..n : a = (m - 1) + i
      BY <2>1
    <3>2. PICK b \in 1..n : b = (m - 1) + j
      BY <2>1
    <3>3. st[a] = st[b]
      BY <2>3, <3>1, <3>2
    <3>4. ~(a < b) /\ ~(b < a)
      <4>1. ix[st[a]] \in Nat /\ ix[st[a]] = ix[st[b]]
        BY <1>3, <3>3
      <4> QED
        BY <1>4, <4>1
    <3> QED
      BY <3>1, <3>2, <3>4
  <2>4. ASSUME NEW x \in M
        PROVE  \E i \in 1..c : f[i] = x
    <3>1. PICK i \in m..n : x = st[i]
      BY <1>8
    <3>2. (i - m) + 1 \in 1..c /\ (m - 1) + ((i - m) + 1) = i
      BY <1>5, <1>10
    <3> QED
      BY <3>1, <3>2
  <2> HIDE DEF f
  <2>5. f \in Bijection(1..c, M)
    BY <2>2, <2>3, <2>4, Zenon DEF Bijection, Injection, Surjection, IsInjective
  <2>6. ExistsBijection(1..c, M)
    BY <2>5, Zenon DEF ExistsBijection
  <2> QED
    BY <2>6, FS_CountingElements, Zenon
<1>12. PICK left : left = SubSeq(st, 1, n - c)
  OBVIOUS
<1>13. PICK l \in Nat : l = n - c /\ l = m - 1 /\ l <= n
  BY <1>5, <1>10
<1>14. /\ left \in Seq(R) /\ Len(left) = l /\ DOMAIN left = 1..l
       /\ \A i \in 1..l : left[i] = st[i]
  <2>1. l <= Len(st)
    BY <1>2, <1>13, Zenon
  <2>2. left = SubSeq(st, 1, l)
    BY <1>12, <1>13, Zenon
  <2>3. Prefix(R, st, l, left)
    BY <1>1, <2>1, <2>2, PrefixIs, Zenon
  <2> QED
    BY <2>3, Zenon DEF Prefix
<1>15. \A i \in 1..l : i \in 1..n /\ i < m
  BY <1>5, <1>13
<1>16. Stacked(R, ix, left)
  BY <1>4, <1>14, <1>15, Zenon DEF Stacked
<1>17. Range(left) = Range(st) \ M
  <2>1. ASSUME NEW x \in Range(left)
        PROVE  x \in Range(st) /\ x \notin M
    <3>1. PICK i \in 1..l : x = st[i]
      BY <1>14, Zenon DEF Range
    <3>2. i \in 1..n /\ ~(m <= i)
      BY <1>15
    <3>3. ~(ix[v] <= ix[x])
      BY <1>6, <3>1, <3>2, Zenon
    <3> QED
      BY <1>2, <1>9, <3>1, <3>2, <3>3, Zenon DEF Range, Members
  <2>2. ASSUME NEW x \in Range(st), x \notin M
        PROVE  x \in Range(left)
    <3>1. PICK i \in 1..n : x = st[i]
      BY <1>2, Zenon DEF Range
    <3>2. i \notin m..n
      BY <1>8, <2>2, <3>1, Zenon
    <3>3. i \in 1..l
      BY <1>5, <1>13, <3>2
    <3> QED
      BY <1>14, <3>1, <3>3, Zenon DEF Range
  <2> QED
    BY <2>1, <2>2, Zenon
<1>18. Cardinality(M) > 1 <=> \E x \in M : x # v
  <2>1. ASSUME c > 1 PROVE \E x \in M : x # v
    <3>1. m + 1 \in m..n /\ m + 1 \in 1..n /\ m + 1 # m
      BY <1>5, <1>10, <2>1
    <3>2. st[m + 1] # v
      BY <1>6, <3>1, Zenon
    <3> QED
      BY <1>8, <3>1, <3>2, Zenon
  <2>2. ASSUME NEW x \in M, x # v PROVE c > 1
    <3>1. PICK i \in m..n : x = st[i]
      BY <1>8
    <3>2. i \in 1..n /\ i # m
      BY <1>5, <2>2, <3>1
    <3> QED
      BY <1>5, <1>10, <3>2
  <2> QED
    BY <1>11, <2>1, <2>2, Zenon
<1> QED
  BY <1>2, <1>7, <1>9, <1>11, <1>12, <1>16, <1>17, <1>18, Zenon DEF StackShrinks

\* A node that is no root is left.
LEMMA ScanLeave ==
    ASSUME NEW es, es \in Seq(Edge), NEW R, Between(es, R),
           NEW ix, NEW lo, NEW st, NEW fr, Scan(es, R, ix, lo, st, fr), FrameEnds(es, fr),
           NEW v, v = fr[Len(fr)].node, lo[v] # ix[v]
    PROVE  Scan(es, R, ix, LowAfter(lo, fr), st, Front(fr))
<1>1. /\ Stacked(R, ix, st) /\ Framed(R, ix, fr)
      /\ \A r \in R : ix[r] <= Cardinality(Marked(R, ix))
      /\ Search(es, R, ix, lo, Range(st), OnPath(fr), Taken(es, ix, fr))
  BY Zenon DEF Scan
<1>2. /\ ix \in [R -> Nat] /\ lo \in [R -> Nat] /\ OnPath(fr) \subseteq Range(st)
      /\ \A u \in Range(st) : ix[u] # 0
  BY <1>1, Zenon DEF Search, Typed
<1>3. fr # <<>>
  BY Zenon DEF FrameEnds
<1>4. v \in OnPath(fr) /\ ix[v] # 0
  BY <1>1, <1>2, <1>3, LastFrame
<1>5. Leaves(es, R, ix, lo, OnPath(fr), Taken(es, ix, fr), v, LowAfter(lo, fr))
  BY <1>1, <1>2, <1>4, FrameLeaves, Zenon
<1>6. FramesShrink(es, R, ix, fr)
  BY <1>1, <1>2, <1>4, PopFrame, Zenon
<1>7. Search(es, R, ix, LowAfter(lo, fr), Range(st), OnPath(fr) \ {v}, Taken(es, ix, fr))
  BY <1>1, <1>5, LeaveStays, Zenon
<1> QED
  BY <1>1, <1>6, <1>7, Zenon DEF Scan, FramesShrink

\* v, the node of the last frame, is the root of a component, and left is the stack
\* without it.
Pops(ix, lo, st, fr, v, left) ==
    /\ v = fr[Len(fr)].node /\ lo[v] = ix[v]
    /\ left = SubSeq(st, 1, Len(st) - Cardinality(Above(st, v)))

Popped(es, R, ix, lo, st, fr, v, left) ==
    /\ Scan(es, R, ix, LowAfter(lo, fr), left, Front(fr))
    /\ Component(es, R, ix, Range(st), v)
    /\ Closed(es, Finished(R, ix, Range(st)))
    /\ Range(st) \in SUBSET R
    /\ Finished(R, ix, Range(left)) = Finished(R, ix, Range(st)) \cup Above(st, v)
    /\ StackShrinks(R, ix, st, v)

\* A root is left and its component popped.
LEMMA ScanPop ==
    ASSUME NEW es, es \in Seq(Edge), NEW R, Between(es, R),
           NEW ix, NEW lo, NEW st, NEW fr, Scan(es, R, ix, lo, st, fr), FrameEnds(es, fr),
           NEW v, NEW left, Pops(ix, lo, st, fr, v, left)
    PROVE  Popped(es, R, ix, lo, st, fr, v, left)
<1>0. /\ v = fr[Len(fr)].node /\ lo[v] = ix[v]
      /\ left = SubSeq(st, 1, Len(st) - Cardinality(Above(st, v)))
  BY Zenon DEF Pops
<1>1. /\ Stacked(R, ix, st) /\ Framed(R, ix, fr)
      /\ \A r \in R : ix[r] <= Cardinality(Marked(R, ix))
      /\ Search(es, R, ix, lo, Range(st), OnPath(fr), Taken(es, ix, fr))
  BY Zenon DEF Scan
<1>2. /\ ix \in [R -> Nat] /\ lo \in [R -> Nat] /\ OnPath(fr) \subseteq Range(st)
      /\ \A u \in Range(st) : ix[u] # 0
      /\ Range(st) \subseteq R
  BY <1>1, Zenon DEF Search, Typed
<1>3. fr # <<>>
  BY Zenon DEF FrameEnds
<1>4. v \in OnPath(fr) /\ ix[v] # 0
  BY <1>0, <1>1, <1>2, <1>3, LastFrame
<1>5. Leaves(es, R, ix, lo, OnPath(fr), Taken(es, ix, fr), v, LowAfter(lo, fr))
  BY <1>0, <1>1, <1>2, <1>4, FrameLeaves, Zenon
<1>6. FramesShrink(es, R, ix, fr)
  BY <1>0, <1>1, <1>2, <1>4, PopFrame, Zenon
<1>7. StackShrinks(R, ix, st, v)
  BY <1>1, <1>2, <1>4, PopStack, Zenon
<1>8. /\ Above(st, v) = Members(ix, Range(st), v)
      /\ Stacked(R, ix, left)
      /\ Range(left) = Range(st) \ Above(st, v)
  BY <1>0, <1>7, Zenon DEF StackShrinks
<1>9. Search(es, R, ix, LowAfter(lo, fr), Range(st) \ Members(ix, Range(st), v),
             OnPath(fr) \ {v}, Taken(es, ix, fr))
  BY <1>0, <1>1, <1>5, LeavePops, Zenon
<1>10. Scan(es, R, ix, LowAfter(lo, fr), left, Front(fr))
  BY <1>0, <1>1, <1>6, <1>8, <1>9, Zenon DEF Scan, FramesShrink
<1>11. Component(es, R, ix, Range(st), v)
  BY <1>0, <1>1, <1>5, RootComponent, Zenon
<1>12. Closed(es, Finished(R, ix, Range(st)))
  BY <1>1 DEF Search, Followed, Closed, Finished, Between
<1>13. Finished(R, ix, Range(left)) = Finished(R, ix, Range(st)) \cup Above(st, v)
  BY <1>2, <1>8 DEF Finished, Members
<1> QED
  BY <1>2, <1>7, <1>10, <1>11, <1>12, <1>13, Zenon DEF Popped

\* The search starts with nothing visited.
LEMMA ScanStarts ==
    ASSUME NEW es, es \in Seq(Edge), NEW R, IsFiniteSet(R), Between(es, R), NEW zero,
           zero = [r \in R |-> 0]
    PROVE  /\ Scan(es, R, zero, zero, <<>>, <<>>)
           /\ Found(es, R, Finished(R, zero, Range(<<>>)), {}, 0)
<1>1. Range(<<>>) = {} /\ OnPath(<<>>) = {}
  BY DEF Range, OnPath
<1>2. zero \in [R -> Nat] /\ \A r \in R : zero[r] = 0
  OBVIOUS
<1>3. Taken(es, zero, <<>>) = {}
  BY <1>2 DEF Taken, Between
<1>4. Stacked(R, zero, <<>>) /\ Framed(R, zero, <<>>)
  BY DEF Stacked, Framed
<1>5. Marked(R, zero) = {}
  BY <1>2 DEF Marked
<1>6. Cardinality(Marked(R, zero)) = 0
  BY <1>5, FS_EmptySet
<1>7. \A r \in R : zero[r] <= Cardinality(Marked(R, zero))
  BY <1>2, <1>6
<1>8. Search(es, R, zero, zero, {}, {}, {})
  <2>1. Typed(es, R, zero, zero, {}, {}, {})
    BY <1>2 DEF Typed
  <2>2. Followed(es, zero, {}, {}, {})
    BY <1>2 DEF Followed, Between
  <2>3. Woven(es, R, zero, {}, {}) /\ Bounded(es, R, zero, zero, {}, {}, {})
    BY DEF Woven, Bounded
  <2> QED
    BY <2>1, <2>2, <2>3, Zenon DEF Search
<1>9. Scan(es, R, zero, zero, <<>>, <<>>)
  BY <1>1, <1>3, <1>4, <1>7, <1>8, Zenon DEF Scan
<1>10. Finished(R, zero, Range(<<>>)) = {}
  BY <1>2 DEF Finished
<1>11. Found(es, R, {}, {}, 0)
  <2>1. {Class(es, R, r) : r \in {}} = {} /\ {r \in {} : Plus(es, R, r, r)} = {}
    OBVIOUS
  <2> QED
    BY <2>1, FS_EmptySet, Zenon DEF Found
<1> QED
  BY <1>9, <1>10, <1>11, Zenon

\* When no frame is left and every node is visited, the search has found it all.
LEMMA ScanEnds ==
    ASSUME NEW es, NEW R, NEW ix, NEW lo, NEW st, Scan(es, R, ix, lo, st, <<>>),
           \A r \in R : ix[r] # 0
    PROVE  Finished(R, ix, Range(st)) = R
<1>1. OnPath(<<>>) = {}
  BY DEF OnPath
<1>2. \A u \in Range(st) : \E a : Owns(ix, {}, a, u)
  BY <1>1, Zenon DEF Scan, Search, Woven
<1>3. Range(st) = {}
  BY <1>2, Zenon DEF Owns
<1> QED
  BY <1>3, Zenon DEF Finished

-----------------------------------------------------------------------------
(* Issues *)

IssueKinds == ResourceTraits \cup EdgeTraits \cup {"Isolated", "SelfLoop", "CyclicComponent"}

\* SetToSeq() lists members of its set.
LEMMA SetToSeqIs ==
    ASSUME NEW K, NEW S, S \subseteq K, IsFiniteSet(S)
    PROVE  SetToSeq(S) \in Seq(K)
<1>1. PICK c \in Nat : c = Cardinality(S)
  BY FS_CardinalityType
<1>2. PICK n \in Nat : ExistsBijection(1..n, S)
  BY FS_NatBijection
<1>3. n = c
  BY <1>1, <1>2, FS_CountingElements
<1>4. \E f \in [1..c -> S] : IsInjective(f)
  BY <1>2, <1>3, Zenon DEF ExistsBijection, Bijection, Injection
<1>5. SetToSeq(S) \in [1..c -> S]
  BY <1>1, <1>4, Zenon DEF SetToSeq
<1>6. SetToSeq(S) \in [1..c -> K]
  BY <1>5
<1> QED
  BY <1>1, <1>6

\* The running concatenation that FlattenSeq is defined by.
Flattens(K, seqs, n, f) ==
    f = [i \in 1..n |-> IF i = 1 THEN seqs[i] ELSE f[i - 1] \o seqs[i]]

\* FlattenSeq() concatenates sequences over one set.
LEMMA FlattenIs ==
    ASSUME NEW K, NEW seqs, seqs \in Seq(Seq(K))
    PROVE  FlattenSeq(seqs) \in Seq(K)
<1>1. PICK n \in Nat : n = Len(seqs)
  OBVIOUS
<1>2. \A i \in 1..n : seqs[i] \in Seq(K)
  BY <1>1
<1>3. CASE n = 0
  <2>1. FlattenSeq(seqs) = seqs
    BY <1>1, <1>3, Zenon DEF FlattenSeq
  <2>2. seqs = <<>>
    BY <1>1, <1>3, EmptySeq
  <2> QED
    BY <2>1, <2>2
<1>4. CASE n # 0
  <2> DEFINE T == {m \in 0..n : \E f \in [1..m -> Seq(K)] : Flattens(K, seqs, m, f)}
  <2>1. 0 \in T
    <3> DEFINE f == [i \in 1..0 |-> seqs[i]]
    <3>1. f \in [1..0 -> Seq(K)] /\ Flattens(K, seqs, 0, f)
      <4> DEFINE h == [i \in 1..0 |-> IF i = 1 THEN seqs[i] ELSE f[i - 1] \o seqs[i]]
      <4>1. \A i \in 1..0 : FALSE
        OBVIOUS
      <4>2. f \in [1..0 -> Seq(K)]
        BY <4>1
      <4>3. f = h
        BY <4>1, Zenon
      <4> QED
        BY <4>2, <4>3, Zenon DEF Flattens
    <3>2. 0 \in 0..n
      OBVIOUS
    <3> QED
      BY <3>1, <3>2, Zenon
  <2>2. ASSUME NEW m \in 0..(n - 1), m \in T
        PROVE  m + 1 \in T
    <3>1. PICK f \in [1..m -> Seq(K)] : Flattens(K, seqs, m, f)
      BY <2>2
    <3>2. m + 1 \in 0..n /\ m + 1 \in 1..n /\ m + 1 \in 1..(m + 1)
      OBVIOUS
    <3> DEFINE last == IF m + 1 = 1 THEN seqs[m + 1] ELSE f[m] \o seqs[m + 1]
               g == [i \in 1..(m + 1) |-> IF i = m + 1 THEN last ELSE f[i]]
    <3>3. last \in Seq(K)
      <4>1. CASE m = 0
        BY <1>2, <3>2, <4>1
      <4>2. CASE m # 0
        <5>1. m \in 1..m
          BY <4>2
        <5> QED
          BY <1>2, <3>2, <4>2, <5>1
      <4> QED
        BY <4>1, <4>2
    <3> HIDE DEF last
    <3>4. g \in [1..(m + 1) -> Seq(K)]
      BY <3>3
    <3>5. ASSUME NEW i \in 1..(m + 1)
          PROVE  g[i] = IF i = 1 THEN seqs[i] ELSE g[i - 1] \o seqs[i]
      <4>1. CASE i = m + 1
        <5>1. m # 0 => m \in 1..(m + 1) /\ m # m + 1 /\ (m + 1) - 1 = m
          OBVIOUS
        <5>2. g[i] = last
          BY <4>1
        <5>3. i # 1 => g[i - 1] = f[m]
          BY <4>1, <5>1
        <5> QED
          BY <4>1, <5>2, <5>3, Zenon DEF last
      <4>2. CASE i # m + 1
        <5>1. i \in 1..m /\ (i # 1 => i - 1 \in 1..m /\ i - 1 \in 1..(m + 1) /\ i - 1 # m + 1)
          BY <4>2
        <5>2. g[i] = f[i] /\ (i # 1 => g[i - 1] = f[i - 1])
          BY <4>2, <5>1
        <5>3. f[i] = IF i = 1 THEN seqs[i] ELSE f[i - 1] \o seqs[i]
          BY <3>1, <5>1, Zenon DEF Flattens
        <5> QED
          BY <5>2, <5>3, Zenon
      <4> QED
        BY <4>1, <4>2
    <3>6. Flattens(K, seqs, m + 1, g)
      <4> DEFINE h == [i \in 1..(m + 1) |-> IF i = 1 THEN seqs[i] ELSE g[i - 1] \o seqs[i]]
      <4>1. \A i \in 1..(m + 1) : g[i] = h[i]
        BY <3>5, Zenon
      <4>2. g = h
        BY <4>1, Zenon
      <4> QED
        BY <4>2, Zenon DEF Flattens
    <3> QED
      BY <3>2, <3>4, <3>6, Zenon
  <2>3. n \in T
    <3>1. n \in 0..n
      OBVIOUS
    <3> HIDE DEF T
    <3> QED
      BY <2>1, <2>2, <3>1, UpTo
  <2>4. \E f : Flattens(K, seqs, n, f)
    BY <2>3
  <2> DEFINE chosen == CHOOSE f : Flattens(K, seqs, n, f)
  <2>5. Flattens(K, seqs, n, chosen)
    BY <2>4, Zenon
  <2>6. FlattenSeq(seqs) = chosen[n]
    BY <1>1, <1>4, Zenon DEF FlattenSeq, Flattens
  <2> HIDE DEF chosen
  <2> DEFINE U == {m \in 0..n : m = 0 \/ chosen[m] \in Seq(K)}
  <2>7. ASSUME NEW m \in 0..(n - 1), m \in U
        PROVE  m + 1 \in U
    <3>1. m + 1 \in 1..n /\ (m + 1) - 1 = m /\ (m + 1 = 1 <=> m = 0)
      OBVIOUS
    <3>2. chosen[m + 1] = IF m + 1 = 1 THEN seqs[m + 1] ELSE chosen[(m + 1) - 1] \o seqs[m + 1]
      BY <2>5, <3>1, Zenon DEF Flattens
    <3>3. chosen[m + 1] \in Seq(K)
      <4>1. CASE m = 0
        BY <1>2, <3>1, <3>2, <4>1, Zenon
      <4>2. CASE m # 0
        <5>1. chosen[m + 1] = chosen[m] \o seqs[m + 1]
          BY <3>1, <3>2, <4>2, Zenon
        <5>2. chosen[m] \in Seq(K) /\ seqs[m + 1] \in Seq(K)
          BY <1>2, <2>7, <3>1, <4>2
        <5> QED
          BY <5>1, <5>2
      <4> QED
        BY <4>1, <4>2
    <3> QED
      BY <3>1, <3>3
  <2>8. n \in U
    <3>1. 0 \in U /\ n \in 0..n
      OBVIOUS
    <3> HIDE DEF U
    <3> QED
      BY <2>7, <3>1, UpTo
  <2> QED
    BY <1>4, <2>6, <2>8
<1> QED
  BY <1>3, <1>4

\* A resource or an edge has finitely many traits.
LEMMA FiniteTraits == IsFiniteSet(ResourceTraits) /\ IsFiniteSet(EdgeTraits)
<1>1. \A x, y : IsFiniteSet({x, y})
  <2> SUFFICES ASSUME NEW x, NEW y
               PROVE  IsFiniteSet({x, y})
    OBVIOUS
  <2>1. IsFiniteSet({x}) /\ {x, y} = {x} \cup {y}
    BY FS_Singleton
  <2> QED
    BY <2>1, FS_AddElement
<1>2. /\ ResourceTraits = {"invalid", "Barrier"} \cup {"Sealed", "ObservedOnly"}
      /\ EdgeTraits = {"invalid", "Amplifying"} \cup {"ZeroAttenuation", "RecoveryOnly"}
  BY DEF ResourceTraits, EdgeTraits
<1> QED
  BY <1>1, <1>2, FS_Union, Zenon

\* The issues of a declaration are a sequence of kinds.
LEMMA DeclaredIssuesAre ==
    ASSUME NEW rs, rs \in Seq([id : Nat, traits : SUBSET ResourceTraits]),
           NEW es, es \in Seq(Edge)
    PROVE  DeclaredIssues(rs, es) \in Seq(IssueKinds)
<1> DEFINE ofResource(r) == SetToSeq(r.traits)
                            \o (IF OutDegree(es, r.id) + InDegree(es, r.id) = 0
                                THEN <<"Isolated">> ELSE <<>>)
           ofEdge(e) == (IF e.from = e.to THEN <<"SelfLoop">> ELSE <<>>) \o SetToSeq(e.traits)
           ofResources == [i \in DOMAIN rs |-> ofResource(rs[i])]
           ofEdges == [i \in DOMAIN es |-> ofEdge(es[i])]
<1>1. \A S : S \subseteq ResourceTraits => SetToSeq(S) \in Seq(IssueKinds)
  BY FiniteTraits, FS_Subset, SetToSeqIs DEF IssueKinds
<1>2. \A S : S \subseteq EdgeTraits => SetToSeq(S) \in Seq(IssueKinds)
  BY FiniteTraits, FS_Subset, SetToSeqIs DEF IssueKinds
<1>3. /\ <<"Isolated">> \in Seq(IssueKinds) /\ <<"SelfLoop">> \in Seq(IssueKinds)
      /\ <<>> \in Seq(IssueKinds)
  BY DEF IssueKinds
<1>4. \A s, t \in Seq(IssueKinds) : s \o t \in Seq(IssueKinds)
  <2> SUFFICES ASSUME NEW s \in Seq(IssueKinds), NEW t \in Seq(IssueKinds)
               PROVE  s \o t \in Seq(IssueKinds)
    BY Zenon
  <2> QED
    BY ConcatProperties, Zenon
<1>5. ASSUME NEW i \in DOMAIN rs
      PROVE  ofResource(rs[i]) \in Seq(IssueKinds)
  <2>1. rs[i].traits \subseteq ResourceTraits
    <3>1. PICK T : T = [id : Nat, traits : SUBSET ResourceTraits]
      OBVIOUS
    <3>2. rs \in Seq(T)
      BY <3>1, Zenon
    <3>3. rs[i] \in T
      BY <3>2
    <3>4. rs[i] \in [id : Nat, traits : SUBSET ResourceTraits]
      BY <3>1, <3>3, Zenon
    <3> QED
      BY <3>4
  <2> QED
    BY <1>1, <1>3, <1>4, <2>1, Zenon
<1>6. ASSUME NEW i \in DOMAIN es
      PROVE  ofEdge(es[i]) \in Seq(IssueKinds)
  <2>1. es[i].traits \subseteq EdgeTraits
    <3>1. es[i] \in Edge
      OBVIOUS
    <3> QED
      BY <3>1 DEF Edge
  <2> QED
    BY <1>2, <1>3, <1>4, <2>1, Zenon
<1>7. FlattenSeq(ofResources) \in Seq(IssueKinds)
  <2> HIDE DEF ofResource
  <2>1. PICK n \in Nat : DOMAIN rs = 1..n
    OBVIOUS
  <2>2. ofResources \in [1..n -> Seq(IssueKinds)]
    BY <1>5, <2>1
  <2>3. ofResources \in Seq(Seq(IssueKinds))
    <3> HIDE DEF ofResources
    <3> QED
      BY <2>2
  <2> HIDE DEF ofResources
  <2> QED
    BY <2>3, FlattenIs, Zenon
<1>8. FlattenSeq(ofEdges) \in Seq(IssueKinds)
  <2> HIDE DEF ofEdge
  <2>1. PICK n \in Nat : DOMAIN es = 1..n
    OBVIOUS
  <2>2. ofEdges \in [1..n -> Seq(IssueKinds)]
    BY <1>6, <2>1
  <2>3. ofEdges \in Seq(Seq(IssueKinds))
    <3> HIDE DEF ofEdges
    <3> QED
      BY <2>2
  <2> HIDE DEF ofEdges
  <2> QED
    BY <2>3, FlattenIs, Zenon
<1>9. DeclaredIssues(rs, es) = FlattenSeq(ofResources) \o FlattenSeq(ofEdges)
  BY Zenon DEF DeclaredIssues
<1> HIDE DEF ofResources, ofEdges
<1> QED
  BY <1>4, <1>7, <1>8, <1>9, Zenon

\* Of a + b issues, kept are kept and the others join the lost ones.
Drops(a, b, lost, kept, more) == kept <= a + b /\ more = lost + ((a + b) - kept)
Balanced(a, b, lost, kept, more) == more \in Nat /\ kept + more = a + lost + b

LEMMA DroppedSum ==
    ASSUME NEW a \in Nat, NEW b \in Nat, NEW lost \in Nat, NEW kept \in Nat, NEW more,
           Drops(a, b, lost, kept, more)
    PROVE  Balanced(a, b, lost, kept, more)
BY DEF Drops, Balanced

\* What RecordIssues() does, and what it comes to.
Keeps(old, lost, kinds, new, more) ==
    /\ new = SubSeq(old \o kinds, 1, Min({MaxIssues, Len(old \o kinds)}))
    /\ more = lost + (Len(old \o kinds) - Len(new))

Kept(K, old, lost, kinds, new, more) ==
    /\ new \in Seq(K) /\ Len(new) <= MaxIssues /\ more \in Nat
    /\ Len(new) + more = Len(old) + lost + Len(kinds)

\* Every new issue is recorded or counted as dropped.
LEMMA IssuesRecorded ==
    ASSUME NEW K, NEW old \in Seq(K), NEW lost \in Nat, NEW kinds \in Seq(K),
           NEW new, NEW more, Keeps(old, lost, kinds, new, more)
    PROVE  Kept(K, old, lost, kinds, new, more)
<1>0. /\ new = SubSeq(old \o kinds, 1, Min({MaxIssues, Len(old \o kinds)}))
      /\ more = lost + (Len(old \o kinds) - Len(new))
  BY Zenon DEF Keeps
<1>1. MaxIssues \in Nat
  BY TopologyAssumption
<1>2. PICK all \in Seq(K) : all = old \o kinds
  BY ConcatProperties, Zenon
<1>3. PICK l \in Nat : l = Len(all)
  BY LenProperties, Zenon
<1>4. PICK a \in Nat : a = Len(old)
  BY LenProperties, Zenon
<1>5. PICK b \in Nat : b = Len(kinds)
  BY LenProperties, Zenon
<1>6. l = a + b
  BY <1>2, <1>3, <1>4, <1>5, ConcatProperties, Zenon
<1>7. PICK m \in Nat : m = Min({MaxIssues, l}) /\ m <= MaxIssues /\ m <= l
  <2>1. \A x \in {MaxIssues, l} : x = MaxIssues \/ x = l
    OBVIOUS
  <2>2. \E x \in {MaxIssues, l} : \A y \in {MaxIssues, l} : x <= y
    BY <1>1, <1>3
  <2>3. PICK m : m = Min({MaxIssues, l})
    OBVIOUS
  <2>4. m \in {MaxIssues, l} /\ \A y \in {MaxIssues, l} : m <= y
    BY <2>2, <2>3, Zenon DEF Min
  <2> QED
    BY <1>1, <2>3, <2>4
<1>8. new = SubSeq(all, 1, m)
  BY <1>0, <1>2, <1>3, <1>7, Zenon
<1>9. new \in Seq(K)
  <2>1. \A i \in 1..m : i \in 1..l
    BY <1>7
  <2>2. \A i \in 1..m : all[i] \in K
    BY <1>3, <2>1, ElementOfSeq, Zenon
  <2>3. 1 \in Int /\ m \in Int
    OBVIOUS
  <2> QED
    BY <1>8, <2>2, <2>3, SubSeqProperties, Zenon
<1>10. PICK w \in Nat : w = Len(new) /\ w = m
  <2>1. m <= Len(all)
    BY <1>3, <1>7, Zenon
  <2>2. Len(SubSeq(all, 1, m)) = m
    BY <2>1, PrefixIs, Zenon DEF Prefix
  <2> QED
    BY <1>8, <2>2, Zenon
<1>11. more = lost + (l - w)
  BY <1>0, <1>2, <1>3, <1>10, Zenon
<1>12. w <= MaxIssues /\ more \in Nat /\ w + more = a + lost + b
  <2>1. Drops(a, b, lost, w, more)
    BY <1>6, <1>7, <1>10, <1>11, Zenon DEF Drops
  <2>2. Balanced(a, b, lost, w, more)
    BY <2>1, DroppedSum, Zenon
  <2> QED
    BY <1>7, <1>10, <2>2, Zenon DEF Balanced
<1>13. Len(new) <= MaxIssues
  BY <1>10, <1>12, Zenon
<1>14. Len(new) + more = Len(old) + lost + Len(kinds)
  BY <1>4, <1>5, <1>10, <1>12, Zenon
<1> QED
  BY <1>9, <1>12, <1>13, <1>14, Zenon DEF Kept

\* No issue is lost without being counted.
Tally(declared, is, dr, co) ==
    /\ is \in Seq(IssueKinds) /\ dr \in Nat /\ co \in Nat
    /\ Len(is) <= MaxIssues
    /\ Len(is) + dr = declared + co

\* The edges es over the resources R can be searched.
Graph(es, R) == es \in Seq(Edge) /\ IsFiniteSet(R) /\ Between(es, R)

Searched(es, R, ix, lo, st, fr, cy, co) ==
    /\ Scan(es, R, ix, lo, st, fr)
    /\ Found(es, R, Finished(R, ix, Range(st)), cy, co)

\* The tally holds of the declared issues, and again after each component.
LEMMA TallyStarts ==
    ASSUME NEW kinds \in Seq(IssueKinds), NEW new, NEW more, Keeps(<<>>, 0, kinds, new, more)
    PROVE  Tally(Len(kinds), new, more, 0)
<1>1. <<>> \in Seq(IssueKinds) /\ Len(<<>>) = 0 /\ 0 \in Nat
  BY EmptySeq
<1>2. /\ new \in Seq(IssueKinds) /\ Len(new) <= MaxIssues /\ more \in Nat
      /\ Len(new) + more = Len(<<>>) + 0 + Len(kinds)
  <2>1. Kept(IssueKinds, <<>>, 0, kinds, new, more)
    BY <1>1, IssuesRecorded, Zenon
  <2> QED
    BY <2>1, Zenon DEF Kept
<1>3. PICK n \in Nat : n = Len(kinds)
  BY LenProperties, Zenon
<1>4. 0 + 0 + n = n + 0
  OBVIOUS
<1>5. Len(new) + more = Len(kinds) + 0
  BY <1>1, <1>2, <1>3, <1>4, Zenon
<1> QED
  BY <1>1, <1>2, <1>5, Zenon DEF Tally

\* One more component is one more issue.
LEMMA TallyGrows ==
    ASSUME NEW declared \in Nat, NEW is, NEW dr, NEW co, Tally(declared, is, dr, co),
           NEW new, NEW more, Keeps(is, dr, <<"CyclicComponent">>, new, more)
    PROVE  Tally(declared, new, more, co + 1)
<1>1. PICK kinds \in Seq(IssueKinds) : kinds = <<"CyclicComponent">> /\ Len(kinds) = 1
  <2>1. \A K : \A x \in K : <<x>> \in Seq(K) /\ Len(<<x>>) = 1
    OBVIOUS
  <2>2. "CyclicComponent" \in IssueKinds
    BY DEF IssueKinds
  <2> QED
    BY <2>1, <2>2, Zenon
<1>2. is \in Seq(IssueKinds) /\ dr \in Nat /\ co \in Nat /\ Len(is) + dr = declared + co
  BY Zenon DEF Tally
<1>3. /\ new \in Seq(IssueKinds) /\ Len(new) <= MaxIssues /\ more \in Nat
      /\ Len(new) + more = Len(is) + dr + Len(kinds)
  <2>1. Keeps(is, dr, kinds, new, more)
    BY <1>1, Zenon
  <2>2. Kept(IssueKinds, is, dr, kinds, new, more)
    BY <1>2, <2>1, IssuesRecorded, Zenon
  <2> QED
    BY <2>2, Zenon DEF Kept
<1>4. co + 1 \in Nat /\ (declared + co) + 1 = declared + (co + 1)
  BY <1>2
<1>5. Len(new) + more = declared + (co + 1)
  BY <1>1, <1>2, <1>3, <1>4, Zenon
<1> QED
  BY <1>3, <1>4, <1>5, Zenon DEF Tally

\* The steps of the search keep what it has found.
LEMMA SearchedEnter ==
    ASSUME NEW es, NEW R, Graph(es, R), NEW ix, NEW lo, NEW st, NEW fr, NEW cy, NEW co,
           Searched(es, R, ix, lo, st, fr, cy, co),
           NEW v, NEW under, NEW ix2, NEW lo2, NEW st2, NEW fr2,
           Pushes(es, R, ix, lo, st, fr, v, under, ix2, lo2, st2, fr2)
    PROVE  Searched(es, R, ix2, lo2, st2, fr2, cy, co)
<1>1. es \in Seq(Edge) /\ IsFiniteSet(R) /\ Between(es, R) /\ Scan(es, R, ix, lo, st, fr)
  BY Zenon DEF Graph, Searched
<1>2. /\ Scan(es, R, ix2, lo2, st2, fr2)
      /\ Finished(R, ix2, Range(st2)) = Finished(R, ix, Range(st))
  BY <1>1, ScanEnter
<1> QED
  BY <1>2, Zenon DEF Searched

\* A popped component is found exactly if it is cyclic.
LEMMA SearchedPop ==
    ASSUME NEW es, NEW R, Graph(es, R), NEW ix, NEW lo, NEW st, NEW fr, NEW cy, NEW co,
           Searched(es, R, ix, lo, st, fr, cy, co), FrameEnds(es, fr),
           NEW v, NEW left, Pops(ix, lo, st, fr, v, left)
    PROVE  IF \/ Cardinality(Above(st, v)) > 1
              \/ \E k \in DOMAIN es : es[k].from = v /\ es[k].to = v
           THEN Searched(es, R, ix, LowAfter(lo, fr), left, Front(fr),
                         cy \cup Above(st, v), co + 1)
           ELSE Searched(es, R, ix, LowAfter(lo, fr), left, Front(fr), cy, co)
<1>1. es \in Seq(Edge) /\ IsFiniteSet(R) /\ Between(es, R) /\ Scan(es, R, ix, lo, st, fr)
  BY Zenon DEF Graph, Searched
<1>2. /\ Scan(es, R, ix, LowAfter(lo, fr), left, Front(fr))
      /\ Component(es, R, ix, Range(st), v)
      /\ Closed(es, Finished(R, ix, Range(st)))
      /\ Range(st) \in SUBSET R
      /\ Finished(R, ix, Range(left)) = Finished(R, ix, Range(st)) \cup Above(st, v)
      /\ StackShrinks(R, ix, st, v)
  <2>1. Popped(es, R, ix, lo, st, fr, v, left)
    BY <1>1, ScanPop, Zenon
  <2> QED
    BY <2>1, Zenon DEF Popped
<1>3. /\ Above(st, v) = Members(ix, Range(st), v)
      /\ Cardinality(Above(st, v)) > 1 <=> \E x \in Above(st, v) : x # v
  BY <1>2, Zenon DEF StackShrinks
<1>4. Cyclical(es, Above(st, v), v) <=>
        \/ Cardinality(Above(st, v)) > 1
        \/ \E k \in DOMAIN es : es[k].from = v /\ es[k].to = v
  BY <1>3, Zenon DEF Cyclical
<1>5. Found(es, R, Finished(R, ix, Range(st)), cy, co)
  BY Zenon DEF Searched
<1>6. IF Cyclical(es, Above(st, v), v)
      THEN Found(es, R, Finished(R, ix, Range(st)) \cup Above(st, v),
                 cy \cup Above(st, v), co + 1)
      ELSE Found(es, R, Finished(R, ix, Range(st)) \cup Above(st, v), cy, co)
  <2>1. IF Cyclical(es, Members(ix, Range(st), v), v)
        THEN Found(es, R, Finished(R, ix, Range(st)) \cup Members(ix, Range(st), v),
                   cy \cup Members(ix, Range(st), v), co + 1)
        ELSE Found(es, R, Finished(R, ix, Range(st)) \cup Members(ix, Range(st), v), cy, co)
    BY <1>1, <1>2, <1>5, FoundGrows, Zenon
  <2> QED
    BY <1>3, <2>1, Zenon
<1> QED
  BY <1>2, <1>4, <1>6, Zenon DEF Searched

-----------------------------------------------------------------------------
(* CyclesAreExact *)

\* What the search starts from.
AtStart ==
    /\ index = [r \in Resources |-> 0] /\ low = [r \in Resources |-> 0]
    /\ stack = <<>> /\ frames = <<>> /\ cyclic = {} /\ components = 0
    /\ issues = <<>> /\ dropped = 0

Searching ==
    /\ Searched(edges, Resources, index, low, stack, frames, cyclic, components)
    /\ Tally(Len(DeclaredIssues(call.resources, edges)), issues, dropped, components)

TopoInv ==
    /\ OrderInv
    /\ status = "reading" => AtStart
    /\ status = "searching" => Searching
    /\ CyclesAreExact

\* A sorted sequence of edges is one of edges.
LEMMA SortedIsEdges ==
    ASSUME NEW es, es \in Seq(Edge), NEW s, s \in Sorted(es)
    PROVE  s \in Seq(Edge)
<1>1. PICK p : Rearranges(es, p, s)
  BY SortedIs, Zenon
<1> QED
  BY <1>1 DEF Rearranges

\* There are finitely many resources.
LEMMA FiniteIds ==
    ASSUME NEW T, NEW rs, rs \in Seq(T)
    PROVE  IsFiniteSet(Ids(rs))
<1>1. PICK n \in Nat : DOMAIN rs = 1..n
  OBVIOUS
<1>2. IsFiniteSet(1..n)
  BY FS_Interval
<1> DEFINE f == [i \in 1..n |-> rs[i].id]
<1>3. Ids(rs) = {rs[i].id : i \in 1..n}
  BY <1>1, Zenon DEF Ids
<1>4. f \in Surjection(1..n, Ids(rs))
  BY <1>3, Zenon DEF Surjection
<1> HIDE DEF f
<1> QED
  BY <1>2, <1>4, FS_Surjection, Zenon

\* What build() knows of its arguments when it searches.
LEMMA Declared ==
    ASSUME NEW c, c \in Declarations, NEW es, es \in Sorted(c.edges),
           Failing(c.resources, es) = {}
    PROVE  Graph(es, Ids(c.resources))
<1>1. c \in Declaration
  BY TopologyAssumption
<1>2. PICK T : c.resources \in Seq(T)
  BY <1>1 DEF Declaration
<1>3. c.edges \in Seq(Edge)
  BY <1>1 DEF Declaration
<1>4. es \in Seq(Edge)
  BY <1>3, SortedIsEdges, Zenon
<1>5. IsFiniteSet(Ids(c.resources))
  BY <1>2, FiniteIds, Zenon
<1>6. Between(es, Ids(c.resources))
  BY PassedIsBetween, Zenon DEF Between
<1> QED
  BY <1>4, <1>5, <1>6, Zenon DEF Graph

\* The same of the arguments of a call.
LEMMA DeclaredKinds ==
    ASSUME NEW c, c \in Declarations, NEW es, es \in Seq(Edge)
    PROVE  DeclaredIssues(c.resources, es) \in Seq(IssueKinds)
<1>1. c \in Declaration
  BY TopologyAssumption
<1>2. c.resources \in Seq([id : Nat, traits : SUBSET ResourceTraits])
  BY <1>1 DEF Declaration
<1> QED
  BY <1>2, DeclaredIssuesAre, Zenon

\* The edges build() searches are a graph over its resources.
LEMMA SearchGraph ==
    ASSUME OrderInv, status = "searching"
    PROVE  /\ Graph(edges, Resources)
           /\ Len(DeclaredIssues(call.resources, edges)) \in Nat
<1>1. /\ call \in Declarations /\ edges \in Sorted(call.edges)
      /\ Failing(call.resources, edges) = {}
  BY DEF OrderInv, Refusals
<1>2. Graph(edges, Resources)
  BY <1>1, Declared, Zenon DEF Resources
<1>3. DeclaredIssues(call.resources, edges) \in Seq(IssueKinds)
  BY <1>1, <1>2, DeclaredKinds, Zenon DEF Graph
<1> QED
  BY <1>2, <1>3, LenProperties, Zenon

\* next_index counts the visited resources.
LEMMA MarkedIs == Marked(Resources, index) = Resources \ Unvisited
BY DEF Marked, Unvisited

-----------------------------------------------------------------------------
(* The steps of build() *)

\* The search starts from its invariant.
LEMMA ReadKeeps == TopoInv /\ Read => (status' = "searching" => Searching')
<1> SUFFICES ASSUME TopoInv, Read, status' = "searching"
             PROVE  Searching'
  OBVIOUS
<1>1. AtStart /\ call \in Declarations
  BY Zenon DEF TopoInv, Read, OrderInv
<1>2. PICK es \in Sorted(call.edges) :
          \/ /\ Failing(call.resources, es) # {}
             /\ status' = Checks(call.resources, es)[Min(Failing(call.resources, es))].code
          \/ /\ Failing(call.resources, es) = {} /\ edges' = es
             /\ RecordIssues(DeclaredIssues(call.resources, es))
  BY Zenon DEF Read
<1>3. /\ Failing(call.resources, es) = {} /\ edges' = es
      /\ RecordIssues(DeclaredIssues(call.resources, es))
  <2> SUFFICES ASSUME Failing(call.resources, es) # {},
                      Checks(call.resources, es)[Min(Failing(call.resources, es))].code
                         = "searching"
               PROVE  FALSE
    BY <1>2, Zenon
  <2>1. "searching" \in Refusals
    BY FirstFailing, Zenon
  <2> QED
    BY <2>1 DEF Refusals
<1>4. /\ call' = call /\ index' = index /\ low' = low /\ stack' = stack /\ frames' = frames
      /\ cyclic' = cyclic /\ components' = components
  BY DEF Read, searchVars
<1>5. Graph(es, Resources)
  BY <1>1, <1>3, Declared, Zenon DEF Resources
<1>6. PICK zero : zero = [r \in Resources |-> 0]
  OBVIOUS
<1>7. Searched(es, Resources, zero, zero, <<>>, <<>>, {}, 0)
  <2>1. es \in Seq(Edge) /\ IsFiniteSet(Resources) /\ Between(es, Resources)
    BY <1>5, Zenon DEF Graph
  <2> QED
    BY <1>6, <2>1, ScanStarts DEF Searched
<1>8. Keeps(<<>>, 0, DeclaredIssues(call.resources, es), issues', dropped')
  BY <1>1, <1>3, Zenon DEF Keeps, RecordIssues, AtStart
<1>9. DeclaredIssues(call.resources, es) \in Seq(IssueKinds)
  BY <1>1, <1>5, DeclaredKinds, Zenon DEF Graph
<1>10. Tally(Len(DeclaredIssues(call.resources, es)), issues', dropped', 0)
  BY <1>8, <1>9, TallyStarts, Zenon
<1>11. Resources' = Resources
  BY <1>4, Zenon DEF Resources
<1> QED
  BY <1>1, <1>3, <1>4, <1>6, <1>7, <1>10, <1>11, Zenon DEF Searching, AtStart

\* Enter() is a push.
LEMMA EnterPushes ==
    ASSUME NEW v, v \in Unvisited, NEW under, Enter(v, under),
           \/ frames = <<>> /\ under = frames
           \/ \E e \in DOMAIN edges : Advances(edges, frames, e, under) /\ edges[e].to = v
    PROVE  Pushes(edges, Resources, index, low, stack, frames, v, under,
                  index', low', stack', frames')
<1>1. v \in Resources /\ index[v] = 0
  BY Zenon DEF Unvisited
<1>2. PICK n : n = Cardinality(Resources \ Unvisited) + 1
  OBVIOUS
<1>3. n = Cardinality(Marked(Resources, index)) + 1
  BY <1>2, MarkedIs, Zenon
<1>4. /\ index' = [index EXCEPT ![v] = n] /\ low' = [low EXCEPT ![v] = n]
      /\ stack' = Append(stack, v) /\ frames' = Append(under, [node |-> v, cursor |-> 1])
  BY <1>2, Zenon DEF Enter
<1> QED
  BY <1>1, <1>3, <1>4, Zenon DEF Pushes

\* A push keeps the search going.
LEMMA SearchingEnter ==
    ASSUME TopoInv, status = "searching", NEW v, NEW under,
           Pushes(edges, Resources, index, low, stack, frames, v, under,
                  index', low', stack', frames'),
           UNCHANGED <<call, edges, cyclic, components, issues, dropped>>
    PROVE  Searching'
<1>1. /\ Graph(edges, Resources)
      /\ Searched(edges, Resources, index, low, stack, frames, cyclic, components)
      /\ Tally(Len(DeclaredIssues(call.resources, edges)), issues, dropped, components)
  BY SearchGraph, Zenon DEF TopoInv, Searching
<1>2. Searched(edges, Resources, index', low', stack', frames', cyclic, components)
  BY <1>1, SearchedEnter, Zenon
<1>3. Resources' = Resources
  BY Zenon DEF Resources
<1> QED
  BY <1>1, <1>2, <1>3, Zenon DEF Searching

\* The next root is entered.
LEMMA VisitRootKeeps == TopoInv /\ VisitRoot => Searching'
<1> SUFFICES ASSUME TopoInv, VisitRoot
             PROVE  Searching'
  OBVIOUS
<1>1. PICK root \in Unvisited : Enter(root, <<>>)
  BY Zenon DEF VisitRoot
<1>2. /\ status = "searching" /\ frames = <<>>
      /\ UNCHANGED <<call, edges, cyclic, components, issues, dropped>>
  BY Zenon DEF VisitRoot
<1>3. Pushes(edges, Resources, index, low, stack, frames, root, <<>>,
             index', low', stack', frames')
  BY <1>1, <1>2, EnterPushes, Zenon
<1> QED
  BY <1>2, <1>3, SearchingEnter, Zenon

\* The first edge left to the last frame.
LEMMA NextEdge ==
    ASSUME NEW R, Graph(edges, R), frames # <<>>, Remaining(Top) # {},
           NEW e, e = Min(Remaining(Top)),
           NEW under, under = [frames EXCEPT ![Len(frames)].cursor = e + 1]
    PROVE  Advances(edges, frames, e, under)
<1>1. DOMAIN edges \subseteq Nat
  <2>1. edges \in Seq(Edge)
    BY Zenon DEF Graph
  <2> QED
    BY <2>1
<1>2. Remaining(Top) \subseteq DOMAIN edges
  BY Zenon DEF Remaining
<1>3. Remaining(Top) \subseteq Nat
  BY <1>1, <1>2, Zenon
<1>4. \E x \in Remaining(Top) : \A y \in Remaining(Top) : x <= y
  BY <1>3, LeastNatural, Zenon
<1>5. e \in Remaining(Top) /\ \A y \in Remaining(Top) : e <= y
  BY <1>4, Zenon DEF Min
<1>6. /\ e \in DOMAIN edges /\ edges[e].from = frames[Len(frames)].node
      /\ e >= frames[Len(frames)].cursor
  BY <1>5, Zenon DEF Remaining, Top
<1>7. \A k \in DOMAIN edges :
        edges[k].from = frames[Len(frames)].node /\ k >= frames[Len(frames)].cursor => e <= k
  BY <1>5, Zenon DEF Remaining, Top
<1> QED
  BY <1>6, <1>7, Zenon DEF Advances

\* An edge within what was visited finds nothing.
LEMMA SearchedFollow ==
    ASSUME NEW es, NEW R, Graph(es, R), NEW ix, NEW lo, NEW st, NEW fr, NEW cy, NEW co,
           Searched(es, R, ix, lo, st, fr, cy, co),
           NEW e, NEW under, NEW lo2, Advances(es, fr, e, under),
           ix[es[e].to] # 0,
           lo2 = [lo EXCEPT ![es[e].from] =
                     IF es[e].to \in Range(st) /\ ix[es[e].to] < lo[es[e].from]
                     THEN ix[es[e].to] ELSE lo[es[e].from]]
    PROVE  Searched(es, R, ix, lo2, st, under, cy, co)
<1>1. es \in Seq(Edge) /\ Between(es, R) /\ Scan(es, R, ix, lo, st, fr)
  BY Zenon DEF Graph, Searched
<1>2. Scan(es, R, ix, lo2, st, under)
  BY <1>1, ScanFollow, Zenon
<1> QED
  BY <1>2, Zenon DEF Searched

\* The next edge is followed, to a new node or a visited one.
LEMMA FollowEdgeKeeps == TopoInv /\ FollowEdge => Searching'
<1> SUFFICES ASSUME TopoInv, FollowEdge
             PROVE  Searching'
  OBVIOUS
<1>1. /\ status = "searching" /\ frames # <<>> /\ Remaining(Top) # {}
      /\ UNCHANGED <<call, edges, cyclic, components, issues, dropped>>
  BY Zenon DEF FollowEdge
<1>2. PICK e : e = Min(Remaining(Top))
  OBVIOUS
<1>3. PICK under : under = [frames EXCEPT ![Len(frames)].cursor = e + 1]
  OBVIOUS
<1>4. /\ Graph(edges, Resources)
      /\ Searched(edges, Resources, index, low, stack, frames, cyclic, components)
      /\ Tally(Len(DeclaredIssues(call.resources, edges)), issues, dropped, components)
  BY <1>1, SearchGraph, Zenon DEF TopoInv, Searching
<1>5. Advances(edges, frames, e, under)
  BY <1>1, <1>2, <1>3, <1>4, NextEdge, Zenon
<1>6. IF edges[e].to \in Unvisited
      THEN Enter(edges[e].to, under)
      ELSE /\ low' = [low EXCEPT ![Top.node] = Lowered(Top.node, edges[e].to)]
           /\ frames' = under /\ index' = index /\ stack' = stack
  BY <1>2, <1>3, Zenon DEF FollowEdge
<1>7. e \in DOMAIN edges /\ edges[e].from = Top.node
  BY <1>5, Zenon DEF Advances, Top
<1>8. CASE edges[e].to \in Unvisited
  <2>1. Pushes(edges, Resources, index, low, stack, frames, edges[e].to, under,
               index', low', stack', frames')
    BY <1>5, <1>6, <1>7, <1>8, EnterPushes, Zenon
  <2> QED
    BY <1>1, <2>1, SearchingEnter, Zenon
<1>9. CASE edges[e].to \notin Unvisited
  <2>1. /\ low' = [low EXCEPT ![Top.node] = Lowered(Top.node, edges[e].to)]
        /\ frames' = under /\ index' = index /\ stack' = stack
    BY <1>6, <1>9, Zenon
  <2>2. index[edges[e].to] # 0
    BY <1>4, <1>7, <1>9, Zenon DEF Unvisited, Graph, Between
  <2>3. low' = [low EXCEPT ![edges[e].from] =
                   IF /\ edges[e].to \in Range(stack)
                      /\ index[edges[e].to] < low[edges[e].from]
                   THEN index[edges[e].to] ELSE low[edges[e].from]]
    BY <1>7, <2>1, Zenon DEF Lowered, OnStack
  <2>4. Searched(edges, Resources, index, low', stack, under, cyclic, components)
    BY <1>4, <1>5, <2>2, <2>3, SearchedFollow, Zenon
  <2>5. Resources' = Resources
    BY <1>1, Zenon DEF Resources
  <2> QED
    BY <1>1, <1>4, <2>1, <2>4, <2>5, Zenon DEF Searching
<1> QED
  BY <1>8, <1>9, Zenon

\* A frame is done: its node stays on the stack or its component is popped.
LEMMA LeaveNodeKeeps == TopoInv /\ LeaveNode => Searching'
<1> SUFFICES ASSUME TopoInv, LeaveNode
             PROVE  Searching'
  OBVIOUS
<1>1. /\ status = "searching" /\ frames # <<>> /\ Remaining(Top) = {}
      /\ call' = call /\ edges' = edges /\ index' = index /\ frames' = Front(frames)
  BY Zenon DEF LeaveNode
<1>2. PICK v : v = frames[Len(frames)].node
  OBVIOUS
<1>3. /\ Graph(edges, Resources)
      /\ Searched(edges, Resources, index, low, stack, frames, cyclic, components)
      /\ Tally(Len(DeclaredIssues(call.resources, edges)), issues, dropped, components)
      /\ Len(DeclaredIssues(call.resources, edges)) \in Nat
  BY <1>1, SearchGraph, Zenon DEF TopoInv, Searching
<1>4. FrameEnds(edges, frames)
  BY <1>1, Zenon DEF FrameEnds, Remaining, Top
<1>5. low' = LowAfter(low, frames)
  BY Zenon DEF LeaveNode, LowAfter, Top
<1>6. Resources' = Resources
  BY <1>1, Zenon DEF Resources
<1>7. CASE low[v] # index[v]
  <2>1. UNCHANGED <<stack, cyclic, components, issues, dropped>>
    BY <1>2, <1>7, Zenon DEF LeaveNode, Top
  <2>2. Scan(edges, Resources, index, LowAfter(low, frames), stack, Front(frames))
    BY <1>2, <1>3, <1>4, <1>7, ScanLeave, Zenon DEF Graph, Searched
  <2>3. Searched(edges, Resources, index, low', stack, Front(frames), cyclic, components)
    BY <1>3, <1>5, <2>2, Zenon DEF Searched
  <2> QED
    BY <1>1, <1>3, <1>6, <2>1, <2>3, Zenon DEF Searching
<1>8. CASE low[v] = index[v]
  <2>1. stack' = SubSeq(stack, 1, Len(stack) - Cardinality(Above(stack, v)))
    BY <1>2, <1>8, Zenon DEF LeaveNode, Top, Above
  <2>2. Pops(index, low, stack, frames, v, stack')
    BY <1>2, <1>8, <2>1, Zenon DEF Pops
  <2> DEFINE loop == \E k \in DOMAIN edges : edges[k].from = v /\ edges[k].to = v
             big == Cardinality(Above(stack, v)) > 1
  <2>3. IF big \/ loop
        THEN Searched(edges, Resources, index, LowAfter(low, frames), stack', Front(frames),
                      cyclic \cup Above(stack, v), components + 1)
        ELSE Searched(edges, Resources, index, LowAfter(low, frames), stack', Front(frames),
                      cyclic, components)
    BY <1>3, <1>4, <2>2, SearchedPop, Zenon
  <2>4. IF big \/ loop
        THEN /\ cyclic' = cyclic \cup Above(stack, v) /\ components' = components + 1
             /\ RecordIssues(<<"CyclicComponent">>)
        ELSE UNCHANGED <<cyclic, components, issues, dropped>>
    BY <1>2, <1>8, Zenon DEF LeaveNode, Top, Above, HasSelfLoop
  <2>5. CASE big \/ loop
    <3>1. Keeps(issues, dropped, <<"CyclicComponent">>, issues', dropped')
      BY <2>4, <2>5, Zenon DEF Keeps, RecordIssues
    <3>2. Tally(Len(DeclaredIssues(call.resources, edges)), issues', dropped', components + 1)
      BY <1>3, <3>1, TallyGrows, Zenon
    <3> HIDE DEF loop, big
    <3> QED
      BY <1>1, <1>5, <1>6, <2>3, <2>4, <2>5, <3>2, Zenon DEF Searching
  <2>6. CASE ~(big \/ loop)
    <3> HIDE DEF loop, big
    <3> QED
      BY <1>1, <1>3, <1>5, <1>6, <2>3, <2>4, <2>6, Zenon DEF Searching
  <2> QED
    BY <2>5, <2>6, Zenon
<1> QED
  BY <1>7, <1>8, Zenon

\* The reference in terms of reachability.
LEMMA ReachesIs ==
    \A r, s \in Resources : Reaches(edges)[r, s] <=> Plus(edges, Resources, r, s)
<1> SUFFICES ASSUME NEW r \in Resources, NEW s \in Resources
             PROVE  Reaches(edges)[r, s] <=> Plus(edges, Resources, r, s)
  BY Zenon
<1>1. PICK p \in Resources \X Resources : p = <<r, s>> /\ p[1] = r /\ p[2] = s
  <2>1. <<r, s>> \in Resources \X Resources /\ <<r, s>>[1] = r /\ <<r, s>>[2] = s
    OBVIOUS
  <2> QED
    BY <2>1, Zenon
<1>2. Reaches(edges)[p] =
        \A C \in SUBSET Resources :
            (\A i \in DOMAIN edges : edges[i].from \in C \cup {p[1]} => edges[i].to \in C)
                => p[2] \in C
  BY Zenon DEF Reaches
<1> QED
  BY <1>1, <1>2, Zenon DEF Plus

\* When the search is over, its answer is the reference's.
Answer ==
    /\ cyclic = CyclicBy(Reaches(edges))
    /\ components = Cardinality(ComponentsBy(Reaches(edges)))
    /\ Len(issues) <= MaxIssues
    /\ Len(issues) + dropped = Len(DeclaredIssues(call.resources, edges)) + components

\* With no frame and no resource left, Tarjan's answer is the reference.
LEMMA SearchAnswers ==
    ASSUME TopoInv, status = "searching", frames = <<>>, Unvisited = {}
    PROVE  Answer
<1>1. /\ Searched(edges, Resources, index, low, stack, frames, cyclic, components)
      /\ Tally(Len(DeclaredIssues(call.resources, edges)), issues, dropped, components)
  BY Zenon DEF TopoInv, Searching
<1>2. \A r \in Resources : index[r] # 0
  BY Zenon DEF Unvisited
<1>3. Finished(Resources, index, Range(stack)) = Resources
  BY <1>1, <1>2, ScanEnds, Zenon DEF Searched
<1>4. /\ cyclic = {r \in Resources : Plus(edges, Resources, r, r)}
      /\ components = Cardinality({Class(edges, Resources, r) : r \in cyclic})
  BY <1>1, <1>3, Zenon DEF Searched, Found
<1>5. PICK reach : reach = Reaches(edges)
  OBVIOUS
<1>6. \A r, s \in Resources : reach[r, s] <=> Plus(edges, Resources, r, s)
  BY <1>5, ReachesIs, Zenon
<1>7. cyclic = CyclicBy(reach)
  BY <1>4, <1>6, Zenon DEF CyclicBy
<1>8. \A r \in cyclic :
        {s \in Resources : reach[r, s] /\ reach[s, r]} = Class(edges, Resources, r)
  <2> SUFFICES ASSUME NEW r \in cyclic
               PROVE  {s \in Resources : reach[r, s] /\ reach[s, r]}
                         = Class(edges, Resources, r)
    BY Zenon
  <2>1. r \in Resources
    BY <1>4
  <2>2. \A s : s \in {t \in Resources : reach[r, t] /\ reach[t, r]}
                  <=> s \in Class(edges, Resources, r)
    BY <1>6, <2>1, Zenon DEF Class
  <2> QED
    BY <2>2, Zenon
<1>9. ComponentsBy(reach) = {Class(edges, Resources, r) : r \in cyclic}
  BY <1>7, <1>8, Zenon DEF ComponentsBy
<1> QED
  BY <1>1, <1>4, <1>5, <1>7, <1>9, Zenon DEF Answer, Tally

\* The reference depends on the call and the edges only.
LEMMA SameReference ==
    ASSUME call' = call, edges' = edges
    PROVE  /\ CyclicBy(Reaches(edges))' = CyclicBy(Reaches(edges))
           /\ ComponentsBy(Reaches(edges))' = ComponentsBy(Reaches(edges))
<1>1. Resources' = Resources
  BY Zenon DEF Resources
<1>2. Reaches(edges)' = Reaches(edges)
  BY <1>1, Zenon DEF Reaches
<1>3. CyclicBy(Reaches(edges))' = CyclicBy(Reaches(edges))
  BY <1>1, <1>2, Zenon DEF CyclicBy
<1>4. ComponentsBy(Reaches(edges))' = ComponentsBy(Reaches(edges))
  <2>1. PICK R, reach : R = Resources /\ reach = Reaches(edges)
    OBVIOUS
  <2> DEFINE parts == {{s \in R : reach[r, s] /\ reach[s, r]} : r \in {r \in R : reach[r, r]}}
  <2>2. ComponentsBy(Reaches(edges)) = parts
    BY <2>1, Zenon DEF ComponentsBy, CyclicBy
  <2>3. R = Resources' /\ reach = Reaches(edges)'
    BY <1>1, <1>2, <2>1, Zenon
  <2>4. ComponentsBy(Reaches(edges))' = parts
    BY <2>3, Zenon DEF ComponentsBy, CyclicBy
  <2> HIDE DEF parts
  <2> QED
    BY <2>2, <2>4, Zenon
<1> QED
  BY <1>3, <1>4, Zenon

\* build() returns that answer.
LEMMA FinishKeeps == TopoInv /\ Finish => CyclesAreExact'
<1> SUFFICES ASSUME TopoInv, Finish
             PROVE  CyclesAreExact'
  OBVIOUS
<1>1. /\ status = "searching" /\ frames = <<>> /\ Unvisited = {}
      /\ status' = IF ~call.allow_cycles /\ cyclic # {} THEN "CycleDetected" ELSE "built"
      /\ call' = call /\ edges' = edges /\ issues' = issues /\ dropped' = dropped
      /\ cyclic' = cyclic /\ components' = components
  BY Zenon DEF Finish, searchVars
<1>2. Answer
  BY <1>1, SearchAnswers, Zenon
<1>3. Answer'
  BY <1>1, <1>2, SameReference, Zenon DEF Answer
<1>4. (status' = "built") = (call'.allow_cycles \/ cyclic' = {})
  <2>1. call.allow_cycles \in BOOLEAN
    BY TopologyAssumption DEF TopoInv, OrderInv, Declaration
  <2> QED
    BY <1>1, <2>1
<1> QED
  BY <1>3, <1>4, Zenon DEF CyclesAreExact, Answer

\* TopoInv is inductive.
LEMMA TopoInvInit == Init => TopoInv
<1> SUFFICES ASSUME Init
             PROVE  TopoInv
  OBVIOUS
<1>1. OrderInv
  BY OrderInvInit
<1>2. AtStart
  BY Zenon DEF Init, AtStart
<1>3. status = "reading"
  BY Zenon DEF Init
<1> QED
  BY <1>1, <1>2, <1>3 DEF TopoInv, CyclesAreExact

\* Every step keeps it.
LEMMA TopoInvStep == TopoInv /\ [Next]_vars => TopoInv'
<1> SUFFICES ASSUME TopoInv, [Next]_vars
             PROVE  TopoInv'
  OBVIOUS
<1>1. OrderInv'
  BY OrderInvStep, Zenon DEF TopoInv
<1>2. CASE Read
  <2>1. status' = "searching" => Searching'
    BY <1>2, ReadKeeps
  <2>2. status' \in Refusals \cup {"searching"}
    <3>1. PICK es : \/ status' = "searching"
                    \/ /\ Failing(call.resources, es) # {}
                       /\ status' = Checks(call.resources, es)
                                       [Min(Failing(call.resources, es))].code
      BY <1>2, Zenon DEF Read
    <3> QED
      BY <3>1, FirstFailing, Zenon
  <2>3. status' \notin {"reading", "built", "CycleDetected"}
    BY <2>2 DEF Refusals
  <2> QED
    BY <1>1, <2>1, <2>3, Zenon DEF TopoInv, CyclesAreExact
<1>3. ASSUME status' = "searching", Searching'
      PROVE  TopoInv'
  BY <1>1, <1>3 DEF TopoInv, CyclesAreExact
<1>4. CASE VisitRoot
  <2>1. status' = "searching"
    BY <1>4, Zenon DEF VisitRoot
  <2> QED
    BY <1>3, <1>4, <2>1, VisitRootKeeps, Zenon
<1>5. CASE FollowEdge
  <2>1. status' = "searching"
    BY <1>5, Zenon DEF FollowEdge
  <2> QED
    BY <1>3, <1>5, <2>1, FollowEdgeKeeps, Zenon
<1>6. CASE LeaveNode
  <2>1. status' = "searching"
    BY <1>6, Zenon DEF LeaveNode
  <2> QED
    BY <1>3, <1>6, <2>1, LeaveNodeKeeps, Zenon
<1>7. CASE Finish
  <2>1. CyclesAreExact'
    BY <1>7, FinishKeeps, Zenon
  <2>2. status' # "reading" /\ status' # "searching"
    BY <1>7 DEF Finish
  <2> QED
    BY <1>1, <2>1, <2>2, Zenon DEF TopoInv
<1>8. CASE UNCHANGED vars
  <2>1. /\ call' = call /\ status' = status /\ edges' = edges /\ index' = index /\ low' = low
        /\ stack' = stack /\ frames' = frames /\ cyclic' = cyclic
        /\ components' = components /\ issues' = issues /\ dropped' = dropped
    BY <1>8, Zenon DEF vars, searchVars
  <2>2. Resources' = Resources
    BY <2>1, Zenon DEF Resources
  <2>3. AtStart => AtStart'
    BY <2>1, <2>2, Zenon DEF AtStart
  <2>4. Searching => Searching'
    BY <2>1, <2>2, Zenon DEF Searching
  <2>5. CyclesAreExact => CyclesAreExact'
    BY <2>1, SameReference, Zenon DEF CyclesAreExact
  <2> QED
    BY <1>1, <2>1, <2>3, <2>4, <2>5, Zenon DEF TopoInv
<1> QED
  BY <1>2, <1>4, <1>5, <1>6, <1>7, <1>8, Zenon DEF Next, Returned

\* For every declaration, the resources build() calls cyclic are exactly those that reach
\* themselves, every strongly connected component is counted once, a forbidden cycle is
\* refused, and every issue is recorded or counted as dropped.
THEOREM CyclesAlwaysExact == Spec => []CyclesAreExact
<1>1. Spec => []TopoInv
  BY TopoInvInit, TopoInvStep, PTL DEF Spec
<1>2. TopoInv => CyclesAreExact
  BY DEF TopoInv
<1> QED
  BY <1>1, <1>2, PTL

=============================================================================
