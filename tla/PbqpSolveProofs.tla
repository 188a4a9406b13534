-------------------------- MODULE PbqpSolveProofs ---------------------------
(***************************************************************************)
(* Proofs about the graph under the PBQP solver, for every capacity, every *)
(* sequence of building calls, every strategy and every failure of an      *)
(* allocation or of the kernel.                                            *)
(*                                                                         *)
(* The costs play no part in it: a call changes the graph in four ways     *)
(* only (nothing, one edge more, some edges less, one node eliminated),    *)
(* and a lemma for each of them says what it does to a sound problem.      *)
(***************************************************************************)
EXTENDS PbqpSolve, FiniteSetTheorems, WellFoundedInduction, TLAPS

-----------------------------------------------------------------------------
(* What the proofs need to know of a problem.                              *)

Fields == {"node_count", "edge_count", "objective_offset", "nodes", "edges",
           "elimination_order", "statistics"}
NodeFields == {"active", "domain", "unary", "kind", "first", "second", "choice"}
EdgeFields == {"active", "first", "second", "cost"}

Shaped(p) ==
    /\ DOMAIN p = Fields
    /\ p.node_count \in 0 .. NodeCapacity
    /\ DOMAIN p.nodes = NodeIds /\ DOMAIN p.edges = Slots
    /\ \A n \in NodeIds : DOMAIN p.nodes[n] = NodeFields /\ p.nodes[n].active \in BOOLEAN
    /\ \A e \in Slots : DOMAIN p.edges[e] = EdgeFields /\ p.edges[e].active \in BOOLEAN
    /\ p.elimination_order \in Seq(NodeIds)

(* A simple graph on the active nodes, its edges counted.                  *)
Ends(p, e) == {p.edges[e].first, p.edges[e].second}

Simple(p) ==
    /\ p.edge_count = Cardinality(ActiveEdges(p))
    /\ \A e \in ActiveEdges(p) :
         p.edges[e].first # p.edges[e].second /\ Ends(p, e) \subseteq ActiveNodes(p)
    /\ \A e, f \in ActiveEdges(p) : e # f => Ends(p, e) # Ends(p, f)

(* The order names every eliminated node once, and a node that was folded  *)
(* into neighbours before those neighbours.                                *)
After(p, i, m) == /\ m \in 0 .. p.node_count - 1
                  /\ \A j \in 1 .. i : p.elimination_order[j] # m

Replayable(p) ==
    LET order == p.elimination_order
    IN  /\ \A i, j \in 1 .. Len(order) : order[i] = order[j] => i = j
        /\ \A n \in NodeIds : (\E i \in 1 .. Len(order) : order[i] = n)
                                <=> n < p.node_count /\ ~p.nodes[n].active
        /\ \A i \in 1 .. Len(order) :
             /\ p.nodes[order[i]].kind \in {"R1", "R2"} => After(p, i, p.nodes[order[i]].first)
             /\ p.nodes[order[i]].kind = "R2" => After(p, i, p.nodes[order[i]].second)

Sound(p) == Shaped(p) /\ Simple(p) /\ Replayable(p)

(* A problem with the same graph: a change of costs or counters.           *)
SameGraph(p, q) ==
    /\ Shaped(q)
    /\ q.node_count = p.node_count /\ q.edge_count = p.edge_count
    /\ q.elimination_order = p.elimination_order
    /\ \A n \in NodeIds : /\ q.nodes[n].active = p.nodes[n].active
                          /\ q.nodes[n].kind = p.nodes[n].kind
                          /\ q.nodes[n].first = p.nodes[n].first
                          /\ q.nodes[n].second = p.nodes[n].second
    /\ \A e \in Slots : /\ q.edges[e].active = p.edges[e].active
                        /\ q.edges[e].first = p.edges[e].first
                        /\ q.edges[e].second = p.edges[e].second

(* R2 is to be done again: its edge is there.                              *)
Filled(p) ==
    LET node == Least(Reducible(p))
        E == EdgesOf(p, node)
    IN  /\ Reducible(p) # {} /\ Cardinality(E) = 2
        /\ FindEdge(p, OtherNode(p.edges[Least(E)], node),
                       OtherNode(p.edges[Greatest(E)], node)) # {}

(* No solve makes more edges than the problem was built with, but for the  *)
(* fill edge of an R2 that failed after making it.                         *)
Balance(p, built) == \/ p.edge_count <= built.edge_count
                     \/ p.edge_count = built.edge_count + 1 /\ Filled(p)

Balanced == mode # "building" => Balance(problem, original)

(* While the problem is built nothing is eliminated.                       *)
BuildOK == mode = "building" => problem.elimination_order = <<>>

SolveInv == Sound(problem) /\ BuildOK /\ Balanced /\ original.edge_count \in Nat

-----------------------------------------------------------------------------
(* Sets of slots and of nodes.                                             *)

LEMMA LeastIs ==
    ASSUME NEW S, S \subseteq Nat, S # {}
    PROVE  Least(S) \in S /\ \A j \in S : Least(S) <= j
<1> DEFINE below == {ss \in Nat \X Nat : ss[1] < ss[2]}
<1>1. IsWellFoundedOn(below, Nat)
  BY NatLessThanWellFounded DEF OpToRel
<1>2. PICK x \in S : \A y \in S : ~(<<y, x>> \in below)
  <2> HIDE DEF below
  <2> QED
    BY <1>1, WFMin
<1>3. ASSUME NEW y \in S PROVE x <= y
  <2>1. x \in Nat /\ y \in Nat /\ ~(<<y, x>> \in below)
    BY <1>2
  <2> QED
    BY <2>1
<1> QED
  BY <1>3 DEF Least

LEMMA LeastOf ==
    ASSUME NEW S, S \subseteq Nat, NEW x \in S, \A j \in S : x <= j
    PROVE  Least(S) = x
<1>1. Least(S) \in S /\ \A j \in S : Least(S) <= j
  BY LeastIs
<1>2. x \in Nat /\ Least(S) \in Nat /\ x <= Least(S) /\ Least(S) <= x
  BY <1>1
<1> QED
  BY <1>2

(* The two edges of a node of degree two.                                  *)
LEMMA PairOf ==
    ASSUME NEW S, S \subseteq Nat, IsFiniteSet(S), Cardinality(S) = 2
    PROVE  S = {Least(S), Greatest(S)} /\ Least(S) # Greatest(S)
<1>1. S # {}
  BY FS_EmptySet
<1>2. PICK a : a \in S
  BY <1>1
<1>3. IsFiniteSet(S \ {a}) /\ Cardinality(S \ {a}) = 1
  BY <1>2, FS_RemoveElement
<1>4. PICK b : S \ {a} = {b}
  BY <1>3, FS_Singleton
<1>5. S = {a, b} /\ a # b /\ a \in Nat /\ b \in Nat
  BY <1>2, <1>4
<1>6. Least(S) \in S /\ \A j \in S : Least(S) <= j
  BY <1>1, LeastIs
<1>7. Greatest(S) \in S /\ \A j \in S : Greatest(S) >= j
  <2>1. \E x \in S : \A j \in S : x >= j
    BY <1>5
  <2> QED
    BY <2>1 DEF Greatest
<1> QED
  BY <1>5, <1>6, <1>7

LEMMA SingleOf ==
    ASSUME NEW S, S \subseteq Nat, IsFiniteSet(S), Cardinality(S) = 1
    PROVE  S = {Least(S)}
<1>1. PICK x : S = {x}
  BY FS_Singleton
<1>2. Least(S) \in S
  BY <1>1, LeastIs
<1> QED
  BY <1>1, <1>2

LEMMA SlotsFinite ==
    /\ IsFiniteSet(Slots) /\ Cardinality(Slots) = EdgeCapacity
    /\ Slots \subseteq Nat /\ NodeIds \subseteq Nat
    /\ \A S \in SUBSET Slots : IsFiniteSet(S) /\ Cardinality(S) \in Nat
<1>1. IsFiniteSet(Slots) /\ Cardinality(Slots) = EdgeCapacity
  BY CapacityAssumption, FS_Interval DEF Slots
<1>2. Slots \subseteq Nat /\ NodeIds \subseteq Nat
  BY CapacityAssumption DEF Slots, NodeIds
<1>3. \A S \in SUBSET Slots : IsFiniteSet(S)
  BY <1>1, FS_Subset
<1> QED
  BY <1>1, <1>2, <1>3, FS_CardinalityType

-----------------------------------------------------------------------------
(* Changes of costs and counters.                                          *)

LEMMA RestKeepsGraph ==
    ASSUME NEW p, Shaped(p), NEW q, DOMAIN q = Fields,
           q.node_count = p.node_count, q.edge_count = p.edge_count,
           q.nodes = p.nodes, q.edges = p.edges, q.elimination_order = p.elimination_order
    PROVE  SameGraph(p, q)
BY DEF Shaped, SameGraph

LEMMA CountersKeepGraph ==
    ASSUME NEW p, Shaped(p), NEW counter, NEW count
    PROVE  SameGraph(p, p) /\ SameGraph(p, Bump(p, counter)) /\ SameGraph(p, Recorded(p, count))
<1>1. SameGraph(p, p)
  BY RestKeepsGraph DEF Shaped
<1>2. SameGraph(p, Bump(p, counter))
  BY RestKeepsGraph DEF Shaped, Fields, Bump
<1>3. SameGraph(p, Recorded(p, count))
  BY RestKeepsGraph DEF Shaped, Fields, Recorded
<1> QED
  BY <1>1, <1>2, <1>3

LEMMA OffsetKeepsGraph ==
    ASSUME NEW p, Shaped(p), NEW offset
    PROVE  SameGraph(p, [p EXCEPT !.objective_offset = offset])
BY RestKeepsGraph DEF Shaped, Fields

LEMMA UnaryKeepsGraph ==
    ASSUME NEW p, Shaped(p), NEW m \in NodeIds, NEW added
    PROVE  SameGraph(p, AddToUnary(p, m, added))
BY DEF Shaped, SameGraph, Fields, NodeFields, AddToUnary

LEMMA CostsKeepGraph ==
    ASSUME NEW p, Shaped(p), NEW e \in Slots, NEW m, NEW k, NEW job
    PROVE  SameGraph(p, AddToEdge(p, e, m, k, job))
BY DEF Shaped, SameGraph, Fields, EdgeFields, AddToEdge

LEMMA SameGraphChains ==
    ASSUME NEW p, NEW q, NEW r, SameGraph(p, q), SameGraph(q, r)
    PROVE  SameGraph(p, r)
BY DEF SameGraph

(* The queries of class Graph answer the same.                             *)
LEMMA SameAnswers ==
    ASSUME NEW p, NEW q, SameGraph(p, q)
    PROVE  /\ ActiveNodes(q) = ActiveNodes(p) /\ ActiveEdges(q) = ActiveEdges(p)
           /\ FreeSlots(q) = FreeSlots(p) /\ Reducible(q) = Reducible(p)
           /\ \A n : EdgesOf(q, n) = EdgesOf(p, n)
           /\ \A m, k : FindEdge(q, m, k) = FindEdge(p, m, k)
           /\ \A e \in Slots : \A n : OtherNode(q.edges[e], n) = OtherNode(p.edges[e], n)
<1>1. ActiveNodes(q) = ActiveNodes(p) /\ ActiveEdges(q) = ActiveEdges(p)
  BY DEF SameGraph, ActiveNodes, ActiveEdges
<1>2. FreeSlots(q) = FreeSlots(p)
  BY DEF SameGraph, FreeSlots
<1>3. \A n : EdgesOf(q, n) = EdgesOf(p, n)
  BY DEF SameGraph, EdgesOf, Touches
<1>4. Reducible(q) = Reducible(p)
  BY <1>1, <1>3 DEF Reducible, NeighborCount
<1>5. \A m, k : FindEdge(q, m, k) = FindEdge(p, m, k)
  BY DEF SameGraph, FindEdge, Touches
<1>6. \A e \in Slots : \A n : OtherNode(q.edges[e], n) = OtherNode(p.edges[e], n)
  BY DEF SameGraph, OtherNode
<1> QED
  BY <1>1, <1>2, <1>3, <1>4, <1>5, <1>6

LEMMA SameGraphSound ==
    ASSUME NEW p, NEW q, Sound(p), SameGraph(p, q)
    PROVE  Sound(q)
<1>1. Simple(q)
  <2>1. ActiveNodes(q) = ActiveNodes(p) /\ ActiveEdges(q) = ActiveEdges(p)
    BY SameAnswers
  <2>2. \A e \in ActiveEdges(p) : /\ Ends(q, e) = Ends(p, e)
                                  /\ q.edges[e].first = p.edges[e].first
                                  /\ q.edges[e].second = p.edges[e].second
    BY DEF SameGraph, Ends, ActiveEdges
  <2> QED
    BY <2>1, <2>2 DEF Sound, Simple, SameGraph
<1>2. Replayable(q)
  <2>1. \A i \in 1 .. Len(p.elimination_order) : p.elimination_order[i] \in NodeIds
    BY DEF Sound, Shaped
  <2>2. \A i, m : After(q, i, m) <=> After(p, i, m)
    BY DEF After, SameGraph
  <2> QED
    BY <2>1, <2>2 DEF Replayable, SameGraph, Sound
<1> QED
  BY <1>1, <1>2 DEF Sound, SameGraph

LEMMA SameGraphFilled ==
    ASSUME NEW p, NEW q, Filled(p), SameGraph(p, q)
    PROVE  Filled(q)
<1> DEFINE node == Least(Reducible(p))
           E == EdgesOf(p, node)
<1>1. /\ Reducible(q) = Reducible(p) /\ EdgesOf(q, node) = E
      /\ \A m, k : FindEdge(q, m, k) = FindEdge(p, m, k)
      /\ \A e \in Slots : OtherNode(q.edges[e], node) = OtherNode(p.edges[e], node)
  BY SameAnswers
<1>2. Cardinality(E) = 2 /\ E \in SUBSET Slots
  BY DEF Filled, EdgesOf
<1>3. IsFiniteSet(E) /\ E \subseteq Nat
  BY <1>2, SlotsFinite
<1>4. Least(E) \in Slots /\ Greatest(E) \in Slots
  <2> HIDE DEF E
  <2> QED
    BY <1>2, <1>3, PairOf
<1> QED
  BY <1>1, <1>4 DEF Filled

-----------------------------------------------------------------------------
(* Changes of the graph.                                                   *)

(* One edge more, in a free slot, between active nodes not yet joined.     *)
Joined(p, slot, first, second, cost) ==
    [p EXCEPT !.edge_count = @ + 1,
              !.edges[slot] = [active |-> TRUE, first |-> first, second |-> second,
                               cost |-> cost]]

LEMMA EdgeMore ==
    ASSUME NEW p, Sound(p), NEW slot \in FreeSlots(p),
           NEW first \in ActiveNodes(p), NEW second \in ActiveNodes(p), first # second,
           FindEdge(p, first, second) = {}, NEW cost, NEW q,
           q = Joined(p, slot, first, second, cost)
    PROVE  /\ Sound(q) /\ q.edge_count = p.edge_count + 1
           /\ ActiveNodes(q) = ActiveNodes(p) /\ ActiveEdges(q) = ActiveEdges(p) \cup {slot}
           /\ q.elimination_order = p.elimination_order
           /\ q.edges[slot].first = first /\ q.edges[slot].second = second
           /\ \A e \in Slots \ {slot} : q.edges[e] = p.edges[e]
<1> USE DEF Sound
<1>1. slot \in Slots /\ slot \notin ActiveEdges(p)
  BY DEF FreeSlots, ActiveEdges
<1>2. /\ DOMAIN q = Fields /\ q.edge_count = p.edge_count + 1
      /\ q.node_count = p.node_count /\ q.nodes = p.nodes
      /\ q.elimination_order = p.elimination_order
      /\ q.edges = [p.edges EXCEPT ![slot] = [active |-> TRUE, first |-> first,
                                              second |-> second, cost |-> cost]]
  BY DEF Joined, Shaped, Fields
<1>3. /\ DOMAIN q.edges = Slots /\ q.edges[slot].active
      /\ q.edges[slot].first = first /\ q.edges[slot].second = second
      /\ DOMAIN q.edges[slot] = EdgeFields /\ q.edges[slot].active \in BOOLEAN
      /\ \A e \in Slots \ {slot} : q.edges[e] = p.edges[e]
  <2> DEFINE edge == [active |-> TRUE, first |-> first, second |-> second, cost |-> cost]
  <2>1. /\ DOMAIN edge = EdgeFields /\ edge.active /\ edge.active \in BOOLEAN
        /\ edge.first = first /\ edge.second = second
    BY DEF EdgeFields
  <2>2. q.edges = [p.edges EXCEPT ![slot] = edge] /\ DOMAIN p.edges = Slots
    BY <1>2 DEF Shaped
  <2> HIDE DEF edge
  <2>3. q.edges[slot] = edge /\ DOMAIN q.edges = Slots
    BY <1>1, <2>2
  <2> QED
    BY <2>1, <2>2, <2>3
<1>4. Shaped(q)
  <2>1. \A e \in Slots : DOMAIN q.edges[e] = EdgeFields /\ q.edges[e].active \in BOOLEAN
    BY <1>3 DEF Shaped
  <2> QED
    BY <1>2, <1>3, <2>1 DEF Shaped
<1>5. ActiveNodes(q) = ActiveNodes(p) /\ ActiveEdges(q) = ActiveEdges(p) \cup {slot}
  BY <1>1, <1>2, <1>3 DEF ActiveNodes, ActiveEdges
<1>6. Simple(q)
  <2>1. q.edge_count = Cardinality(ActiveEdges(q))
    <3>1. ActiveEdges(p) \in SUBSET Slots
      BY DEF ActiveEdges
    <3>2. Cardinality(ActiveEdges(p) \cup {slot}) = Cardinality(ActiveEdges(p)) + 1
      BY <1>1, <3>1, SlotsFinite, FS_AddElement
    <3> QED
      BY <1>2, <1>5, <3>2 DEF Simple
  <2>2. Ends(q, slot) = {first, second}
    BY <1>3 DEF Ends
  <2>3. ASSUME NEW e \in ActiveEdges(p)
        PROVE  /\ e # slot /\ Ends(q, e) = Ends(p, e) /\ Ends(p, e) # {first, second}
               /\ q.edges[e].first # q.edges[e].second /\ Ends(p, e) \subseteq ActiveNodes(p)
    <3>1. e \in Slots /\ e # slot /\ p.edges[e].active /\ q.edges[e] = p.edges[e]
      BY <1>1, <1>3 DEF ActiveEdges
    <3>2. Ends(p, e) # {first, second}
      <4>1. ~(Touches(p.edges[e], first) /\ Touches(p.edges[e], second))
        BY <3>1 DEF FindEdge
      <4> QED
        BY <3>1, <4>1 DEF Touches, Ends
    <3> QED
      BY <3>1, <3>2 DEF Simple, Ends
  <2>4. ASSUME NEW e \in ActiveEdges(q), NEW f \in ActiveEdges(q), e # f
        PROVE  Ends(q, e) # Ends(q, f)
    <3>1. CASE e = slot
      BY <1>5, <2>2, <2>3, <2>4, <3>1
    <3>2. CASE f = slot
      BY <1>5, <2>2, <2>3, <2>4, <3>2
    <3>3. CASE e # slot /\ f # slot
      BY <1>5, <2>3, <2>4, <3>3 DEF Simple
    <3> QED
      BY <3>1, <3>2, <3>3
  <2>5. ASSUME NEW e \in ActiveEdges(q)
        PROVE  q.edges[e].first # q.edges[e].second /\ Ends(q, e) \subseteq ActiveNodes(q)
    <3>1. CASE e = slot
      BY <1>3, <1>5, <2>2, <3>1
    <3>2. CASE e # slot
      BY <1>5, <2>3, <3>2
    <3> QED
      BY <3>1, <3>2
  <2> QED
    BY <2>1, <2>4, <2>5 DEF Simple
<1>7. Replayable(q)
  BY <1>2 DEF Replayable, After
<1> QED
  BY <1>2, <1>3, <1>4, <1>5, <1>6, <1>7

(* Some edges less.                                                        *)
LEMMA EdgesLess ==
    ASSUME NEW p, Sound(p), NEW S, S \subseteq ActiveEdges(p)
    PROVE  /\ Sound(Deactivate(p, S))
           /\ Deactivate(p, S).edge_count = p.edge_count - Cardinality(S)
           /\ Deactivate(p, S).node_count = p.node_count
           /\ Deactivate(p, S).nodes = p.nodes
           /\ Deactivate(p, S).elimination_order = p.elimination_order
           /\ ActiveEdges(Deactivate(p, S)) = ActiveEdges(p) \ S
           /\ ActiveNodes(Deactivate(p, S)) = ActiveNodes(p)
           /\ \A e \in Slots : /\ Deactivate(p, S).edges[e].first = p.edges[e].first
                               /\ Deactivate(p, S).edges[e].second = p.edges[e].second
<1> USE DEF Sound
<1> DEFINE q == Deactivate(p, S)
<1>1. /\ DOMAIN q = Fields /\ q.edge_count = p.edge_count - Cardinality(S)
      /\ q.node_count = p.node_count /\ q.nodes = p.nodes
      /\ q.elimination_order = p.elimination_order
      /\ q.edges = [e \in Slots |-> IF e \in S THEN [p.edges[e] EXCEPT !.active = FALSE]
                                    ELSE p.edges[e]]
  BY DEF Deactivate, Shaped, Fields
<1> HIDE DEF q
<1>2. DOMAIN q.edges = Slots
  BY <1>1
<1>3. ASSUME NEW e \in Slots
      PROVE  /\ q.edges[e].active <=> p.edges[e].active /\ e \notin S
             /\ q.edges[e].active \in BOOLEAN /\ DOMAIN q.edges[e] = EdgeFields
             /\ q.edges[e].first = p.edges[e].first /\ q.edges[e].second = p.edges[e].second
  <2>1. q.edges[e] = IF e \in S THEN [p.edges[e] EXCEPT !.active = FALSE] ELSE p.edges[e]
    BY <1>1
  <2>2. DOMAIN p.edges[e] = EdgeFields /\ p.edges[e].active \in BOOLEAN
    BY DEF Shaped
  <2>3. CASE e \in S
    BY <2>1, <2>2, <2>3 DEF EdgeFields
  <2>4. CASE e \notin S
    BY <2>1, <2>2, <2>4
  <2> QED
    BY <2>3, <2>4
<1>4. Shaped(q)
  BY <1>1, <1>2, <1>3 DEF Shaped
<1>5. ActiveEdges(q) = ActiveEdges(p) \ S /\ ActiveNodes(q) = ActiveNodes(p)
  BY <1>1, <1>3 DEF ActiveEdges, ActiveNodes
<1>6. Simple(q)
  <2>1. q.edge_count = Cardinality(ActiveEdges(q))
    <3>1. ActiveEdges(p) \in SUBSET Slots /\ ActiveEdges(p) \cap S = S
      BY DEF ActiveEdges
    <3>2. Cardinality(ActiveEdges(p) \ S) = Cardinality(ActiveEdges(p)) - Cardinality(S)
      BY <3>1, SlotsFinite, FS_Difference
    <3> QED
      BY <1>1, <1>5, <3>2 DEF Simple
  <2>2. \A e \in ActiveEdges(p) : Ends(q, e) = Ends(p, e) /\ e \in Slots
    BY <1>3 DEF Ends, ActiveEdges
  <2> QED
    BY <1>3, <1>5, <2>1, <2>2 DEF Simple
<1>7. Replayable(q)
  BY <1>1 DEF Replayable, After
<1> QED
  BY <1>1, <1>3, <1>4, <1>5, <1>6, <1>7 DEF q

(* One node less, which no edge touches any more.  The neighbours it was   *)
(* folded into are still active, so they will be eliminated after it.      *)
LEMMA NodeLess ==
    ASSUME NEW p, Sound(p), NEW node \in ActiveNodes(p), EdgesOf(p, node) = {},
           NEW kind, NEW first, NEW second, NEW choice,
           kind \in {"R1", "R2"} => first \in ActiveNodes(p) \ {node},
           kind = "R2" => second \in ActiveNodes(p) \ {node},
           NEW q, q = Eliminate(p, node, kind, first, second, choice)
    PROVE  Sound(q) /\ q.edge_count = p.edge_count
<1> USE DEF Sound
<1> DEFINE order == p.elimination_order
           L == Len(order)
           gone == [p.nodes[node] EXCEPT !.active = FALSE, !.kind = kind, !.first = first,
                                         !.second = second, !.choice = choice]
<1>1. node \in NodeIds /\ node < p.node_count /\ p.nodes[node].active
  BY DEF ActiveNodes
<1>2. /\ DOMAIN q = Fields /\ q.edge_count = p.edge_count /\ q.node_count = p.node_count
      /\ q.edges = p.edges /\ q.elimination_order = Append(order, node)
      /\ q.nodes = [p.nodes EXCEPT ![node] = gone]
  BY DEF Eliminate, Shaped, Fields
<1>3. /\ DOMAIN gone = NodeFields /\ ~gone.active /\ gone.active \in BOOLEAN
      /\ gone.kind = kind /\ gone.first = first /\ gone.second = second
  BY <1>1 DEF Shaped, NodeFields
<1> HIDE DEF gone
<1>4. /\ DOMAIN q.nodes = NodeIds /\ q.nodes[node] = gone
      /\ \A n \in NodeIds \ {node} : q.nodes[n] = p.nodes[n]
  BY <1>1, <1>2 DEF Shaped
<1>5. order \in Seq(NodeIds) /\ L \in Nat
  BY DEF Shaped
<1>6. /\ Len(q.elimination_order) = L + 1 /\ q.elimination_order[L + 1] = node
      /\ \A i \in 1 .. L : q.elimination_order[i] = order[i] /\ order[i] \in NodeIds
      /\ q.elimination_order \in Seq(NodeIds)
  BY <1>1, <1>2, <1>5
<1> HIDE DEF L, order
<1>7. Shaped(q)
  <2>1. \A n \in NodeIds : DOMAIN q.nodes[n] = NodeFields /\ q.nodes[n].active \in BOOLEAN
    BY <1>3, <1>4 DEF Shaped
  <2> QED
    BY <1>2, <1>4, <1>6, <2>1 DEF Shaped
<1>8. ActiveNodes(q) = ActiveNodes(p) \ {node} /\ ActiveEdges(q) = ActiveEdges(p)
  BY <1>2, <1>3, <1>4 DEF ActiveNodes, ActiveEdges
<1>9. Simple(q)
  <2>1. \A e \in ActiveEdges(p) : Ends(q, e) = Ends(p, e) /\ node \notin Ends(p, e)
    BY <1>2 DEF Ends, ActiveEdges, EdgesOf, Touches
  <2> QED
    BY <1>2, <1>8, <2>1 DEF Simple
<1>10. ASSUME NEW i \in 1 .. L
       PROVE  order[i] # node /\ ~p.nodes[order[i]].active
  BY <1>1, <1>6 DEF Replayable, L, order
<1>11. ASSUME NEW m \in ActiveNodes(p) \ {node}
       PROVE  After(q, L + 1, m)
  <2>1. m \in 0 .. p.node_count - 1 /\ p.nodes[m].active
    BY DEF ActiveNodes, Shaped, NodeIds
  <2>2. ASSUME NEW j \in 1 .. L + 1 PROVE q.elimination_order[j] # m
    <3>1. CASE j = L + 1
      BY <1>6, <3>1
    <3>2. CASE j # L + 1
      <4>1. j \in 1 .. L
        BY <1>5, <3>2
      <4> QED
        BY <1>6, <1>10, <2>1, <4>1
    <3> QED
      BY <3>1, <3>2
  <2> QED
    BY <1>2, <2>1, <2>2 DEF After
<1>12. ASSUME NEW i \in 1 .. L, NEW m, After(p, i, m)
       PROVE  After(q, i, m)
  <2>1. \A j \in 1 .. i : j \in 1 .. L
    BY <1>5
  <2> QED
    BY <1>2, <1>6, <1>12, <2>1 DEF After, order
<1>13. \A i, j \in 1 .. L + 1 : q.elimination_order[i] = q.elimination_order[j] => i = j
  <2> SUFFICES ASSUME NEW i \in 1 .. L + 1, NEW j \in 1 .. L + 1,
                      q.elimination_order[i] = q.elimination_order[j]
               PROVE  i = j
    OBVIOUS
  <2>1. (i = L + 1 \/ i \in 1 .. L) /\ (j = L + 1 \/ j \in 1 .. L)
    BY <1>5
  <2>2. CASE i \in 1 .. L /\ j \in 1 .. L
    BY <1>6, <2>2 DEF Replayable, L, order
  <2>3. CASE i = L + 1 \/ j = L + 1
    BY <1>6, <1>10, <2>1, <2>3
  <2> QED
    BY <2>1, <2>2, <2>3
<1>14. ASSUME NEW n \in NodeIds
       PROVE  (\E i \in 1 .. L + 1 : q.elimination_order[i] = n)
                 <=> n < q.node_count /\ ~q.nodes[n].active
  <2>1. CASE n = node
    <3>1. L + 1 \in 1 .. L + 1
      BY <1>5
    <3> QED
      BY <1>1, <1>2, <1>3, <1>4, <1>6, <2>1, <3>1
  <2>2. CASE n # node
    <3>1. (\E i \in 1 .. L + 1 : q.elimination_order[i] = n) <=> \E i \in 1 .. L : order[i] = n
      <4>1. \A i \in 1 .. L : i \in 1 .. L + 1
        BY <1>5
      <4>2. \A i \in 1 .. L + 1 : i = L + 1 \/ i \in 1 .. L
        BY <1>5
      <4> QED
        BY <1>6, <2>2, <4>1, <4>2
    <3>2. (\E i \in 1 .. L : order[i] = n) <=> n < p.node_count /\ ~p.nodes[n].active
      BY DEF Replayable, L, order
    <3> QED
      BY <1>2, <1>4, <2>2, <3>1, <3>2
  <2> QED
    BY <2>1, <2>2
<1>15. ASSUME NEW i \in 1 .. L + 1, NEW n, n = q.nodes[q.elimination_order[i]]
       PROVE  /\ n.kind \in {"R1", "R2"} => After(q, i, n.first)
              /\ n.kind = "R2" => After(q, i, n.second)
  <2>1. CASE i = L + 1
    BY <1>3, <1>4, <1>6, <1>11, <1>15, <2>1
  <2>2. CASE i \in 1 .. L
    <3>1. n = p.nodes[order[i]]
      BY <1>4, <1>6, <1>10, <1>15, <2>2
    <3>2. /\ n.kind \in {"R1", "R2"} => After(p, i, n.first)
          /\ n.kind = "R2" => After(p, i, n.second)
      BY <2>2, <3>1 DEF Replayable, L, order
    <3> QED
      BY <1>12, <2>2, <3>2
  <2> QED
    BY <1>5, <2>1, <2>2
<1>16. Replayable(q)
  BY <1>6, <1>13, <1>14, <1>15 DEF Replayable
<1> QED
  BY <1>2, <1>7, <1>9, <1>16

(* One node more, while nothing is eliminated.                             *)
LEMMA NodeMore ==
    ASSUME NEW p, Sound(p), p.elimination_order = <<>>, NEW domain, NEW unary
    PROVE  /\ Sound(AddNode(p, domain, unary).problem)
           /\ AddNode(p, domain, unary).problem.elimination_order = <<>>
<1> USE DEF Sound
<1> DEFINE n == p.node_count
<1>1. CASE AddNode(p, domain, unary).problem = p
  BY <1>1
<1>2. ASSUME n # NodeCapacity, NEW costs, NEW q,
             q = [p EXCEPT !.node_count = @ + 1,
                           !.nodes[n] = [@ EXCEPT !.active = TRUE, !.domain = domain,
                                                  !.unary = costs]]
      PROVE  Sound(q) /\ q.elimination_order = <<>>
  <2> DEFINE new == [p.nodes[n] EXCEPT !.active = TRUE, !.domain = domain, !.unary = costs]
  <2>1. n \in NodeIds /\ n + 1 \in 0 .. NodeCapacity
    BY <1>2, CapacityAssumption DEF Shaped, NodeIds
  <2>2. /\ DOMAIN q = Fields /\ q.edge_count = p.edge_count /\ q.node_count = n + 1
        /\ q.edges = p.edges /\ q.elimination_order = <<>>
        /\ q.nodes = [p.nodes EXCEPT ![n] = new]
    BY <1>2 DEF Shaped, Fields
  <2>3. DOMAIN new = NodeFields /\ new.active /\ new.active \in BOOLEAN
    BY <2>1 DEF Shaped, NodeFields
  <2> HIDE DEF new
  <2>4. /\ DOMAIN q.nodes = NodeIds /\ q.nodes[n] = new
        /\ \A m \in NodeIds \ {n} : q.nodes[m] = p.nodes[m]
    BY <2>1, <2>2 DEF Shaped
  <2>5. Shaped(q)
    <3>1. \A m \in NodeIds : DOMAIN q.nodes[m] = NodeFields /\ q.nodes[m].active \in BOOLEAN
      BY <2>3, <2>4 DEF Shaped
    <3> QED
      BY <2>1, <2>2, <2>4, <3>1 DEF Shaped
  <2>6. ActiveNodes(p) \subseteq ActiveNodes(q) /\ ActiveEdges(q) = ActiveEdges(p)
    BY <2>1, <2>2, <2>3, <2>4 DEF ActiveNodes, ActiveEdges, NodeIds
  <2>7. Simple(q)
    <3>1. \A e : Ends(q, e) = Ends(p, e)
      BY <2>2 DEF Ends
    <3> QED
      BY <2>2, <2>6, <3>1 DEF Simple
  <2>8. ASSUME NEW m \in NodeIds PROVE ~(m < q.node_count /\ ~q.nodes[m].active)
    <3>1. ~(m < p.node_count /\ ~p.nodes[m].active)
      BY DEF Replayable
    <3>2. m \in Nat /\ n \in Nat
      BY <2>1, SlotsFinite
    <3> QED
      BY <2>2, <2>3, <2>4, <3>1, <3>2
  <2>9. Replayable(q)
    BY <2>2, <2>8 DEF Replayable
  <2> QED
    BY <2>2, <2>5, <2>7, <2>9
<1>3. CASE n # NodeCapacity /\ AddNode(p, domain, unary).problem
             = [p EXCEPT !.node_count = @ + 1,
                         !.nodes[n] = [@ EXCEPT !.active = TRUE, !.domain = domain,
                             !.unary = [v \in Values |-> IF v < domain THEN unary[v] ELSE @[v]]]]
  BY <1>2, <1>3
<1> QED
  BY <1>1, <1>3 DEF AddNode, Returns

(* pbqp_add_edge, while nothing is eliminated.                             *)
LEMMA BuildEdge ==
    ASSUME NEW p, Sound(p), p.elimination_order = <<>>, NEW first, NEW second, NEW costs
    PROVE  /\ Sound(AddEdge(p, first, second, costs).problem)
           /\ AddEdge(p, first, second, costs).problem.elimination_order = <<>>
<1> DEFINE done == AddEdge(p, first, second, costs)
<1>1. CASE done.problem = p
  BY <1>1
<1>2. CASE /\ {first, second} \ (0 .. p.node_count - 1) = {} /\ first # second
           /\ FindEdge(p, first, second) = {} /\ FreeSlots(p) # {}
           /\ \E cost : done.problem
                           = Joined(p, Least(FreeSlots(p)), first, second, cost)
  <2>1. FreeSlots(p) \subseteq Nat
    BY SlotsFinite DEF FreeSlots
  <2>2. Least(FreeSlots(p)) \in FreeSlots(p)
    BY <1>2, <2>1, LeastIs
  <2>3. first \in 0 .. p.node_count - 1 /\ second \in 0 .. p.node_count - 1
    BY <1>2
  <2>4. first \in ActiveNodes(p) /\ second \in ActiveNodes(p)
    <3>1. p.node_count \in 0 .. NodeCapacity
      BY DEF Sound, Shaped
    <3>2. \A n \in NodeIds : ~(n < p.node_count /\ ~p.nodes[n].active)
      BY DEF Sound, Replayable
    <3>3. first \in NodeIds /\ second \in NodeIds /\ first < p.node_count /\ second < p.node_count
      BY <2>3, <3>1, CapacityAssumption DEF NodeIds
    <3> QED
      BY <3>2, <3>3 DEF ActiveNodes
  <2>5. first # second /\ FindEdge(p, first, second) = {}
    BY <1>2
  <2>6. PICK cost : done.problem = Joined(p, Least(FreeSlots(p)), first, second, cost)
    BY <1>2
  <2> HIDE DEF done
  <2>7. Sound(done.problem) /\ done.problem.elimination_order = p.elimination_order
    BY <2>2, <2>4, <2>5, <2>6, EdgeMore
  <2> QED
    BY <2>7 DEF done
<1> QED
  BY <1>1, <1>2 DEF AddEdge, Returns, Joined

-----------------------------------------------------------------------------
(* The reductions.                                                         *)

(* The other end of an edge of a node is a different active node.          *)
LEMMA Neighbour ==
    ASSUME NEW p, Sound(p), NEW node, NEW e \in EdgesOf(p, node)
    PROVE  /\ e \in ActiveEdges(p) /\ e \in Slots
           /\ OtherNode(p.edges[e], node) \in ActiveNodes(p) \ {node}
           /\ Ends(p, e) = {node, OtherNode(p.edges[e], node)}
<1>1. e \in ActiveEdges(p) /\ e \in Slots /\ node \in {p.edges[e].first, p.edges[e].second}
  BY DEF EdgesOf, Touches, ActiveEdges
<1>2. p.edges[e].first # p.edges[e].second /\ Ends(p, e) \subseteq ActiveNodes(p)
  BY <1>1 DEF Sound, Simple
<1> QED
  BY <1>1, <1>2 DEF OtherNode, Ends

(* Every elimination ends so: the edges of the node go, then the node.     *)
LEMMA Folded ==
    ASSUME NEW p, Sound(p), NEW node \in ActiveNodes(p), NEW E, E = EdgesOf(p, node),
           NEW kind, NEW first, NEW second, NEW choice,
           kind \in {"R1", "R2"} => first \in ActiveNodes(p) \ {node},
           kind = "R2" => second \in ActiveNodes(p) \ {node},
           NEW d, SameGraph(Deactivate(p, E), d),
           NEW q, q = Eliminate(d, node, kind, first, second, choice)
    PROVE  Sound(q) /\ q.edge_count = p.edge_count - Cardinality(E)
<1>1. E \subseteq ActiveEdges(p)
  BY DEF EdgesOf, Touches, ActiveEdges
<1> DEFINE c == Deactivate(p, E)
<1>2. /\ Sound(c) /\ c.edge_count = p.edge_count - Cardinality(E)
      /\ ActiveEdges(c) = ActiveEdges(p) \ E /\ ActiveNodes(c) = ActiveNodes(p)
      /\ \A e \in Slots : /\ c.edges[e].first = p.edges[e].first
                          /\ c.edges[e].second = p.edges[e].second
  BY <1>1, EdgesLess
<1> HIDE DEF c
<1>3. EdgesOf(c, node) = {}
  BY <1>2 DEF EdgesOf, Touches, ActiveEdges
<1>4. /\ Sound(d) /\ ActiveNodes(d) = ActiveNodes(p) /\ EdgesOf(d, node) = {}
      /\ d.edge_count = c.edge_count
  BY <1>2, <1>3, SameGraphSound, SameAnswers DEF c, SameGraph
<1>5. Sound(q) /\ q.edge_count = d.edge_count
  BY <1>4, NodeLess
<1> QED
  BY <1>2, <1>4, <1>5

LEMMA R0Step ==
    ASSUME NEW p, Sound(p), NEW node \in ActiveNodes(p), EdgesOf(p, node) = {}
    PROVE  /\ Sound(ReduceR0(p, node).problem)
           /\ ReduceR0(p, node).problem.edge_count = p.edge_count
<1> DEFINE value == FirstMin(p.nodes[node].unary, p.nodes[node].domain)
           b == Bump(p, "r0")
           offset == CostAdd(b.objective_offset, p.nodes[node].unary[value])
           d == [b EXCEPT !.objective_offset = offset]
<1>1. SameGraph(p, d)
  <2>1. SameGraph(p, b)
    BY CountersKeepGraph DEF Sound
  <2> HIDE DEF b, offset
  <2>2. Shaped(b)
    BY <2>1 DEF SameGraph
  <2>3. SameGraph(b, d)
    BY <2>2, OffsetKeepsGraph
  <2> QED
    BY <2>1, <2>3, SameGraphChains
<1>2. ReduceR0(p, node).problem = Eliminate(d, node, "R0", -1, -1, <<value>>)
  BY DEF ReduceR0, Returns
<1> HIDE DEF d, value
<1>3. /\ Sound(d) /\ ActiveNodes(d) = ActiveNodes(p) /\ EdgesOf(d, node) = {}
      /\ d.edge_count = p.edge_count
  BY <1>1, SameGraphSound, SameAnswers DEF SameGraph
<1> QED
  BY <1>2, <1>3, NodeLess

LEMMA R1Step ==
    ASSUME NEW p, Sound(p), NEW node \in ActiveNodes(p), NEW e, EdgesOf(p, node) = {e},
           NEW fault, NEW r, r = ReduceR1(p, node, e, fault).problem
    PROVE  Sound(r) /\ (SameGraph(p, r) \/ r.edge_count = p.edge_count - 1)
<1> DEFINE m == OtherNode(p.edges[e], node)
           tried == Recorded(p, p.nodes[m].domain)
<1>1. e \in EdgesOf(p, node) /\ m \in ActiveNodes(p) \ {node} /\ m \in NodeIds
  BY Neighbour DEF ActiveNodes
<1>2. SameGraph(p, p) /\ SameGraph(p, tried) /\ Shaped(tried)
  <2>1. SameGraph(p, p) /\ SameGraph(p, tried)
    BY CountersKeepGraph DEF Sound
  <2> QED
    BY <2>1 DEF SameGraph
<1>3. CASE r = p \/ r = tried
  <2>1. SameGraph(p, r)
    BY <1>2, <1>3
  <2> QED
    BY <2>1, SameGraphSound
<1>4. CASE \E added, choice :
             r = Eliminate(Deactivate(Bump(AddToUnary(tried, m, added), "r1"), {e}),
                           node, "R1", m, -1, choice)
  <2> HIDE DEF m, tried
  <2>1. PICK added, choice :
             r = Eliminate(Deactivate(Bump(AddToUnary(tried, m, added), "r1"), {e}),
                           node, "R1", m, -1, choice)
    BY <1>4
  <2> DEFINE folded == AddToUnary(tried, m, added)
             b == Bump(folded, "r1")
             c == Deactivate(b, {e})
  <2>2. SameGraph(tried, folded) /\ Shaped(folded)
    BY <1>1, <1>2, UnaryKeepsGraph DEF SameGraph
  <2> HIDE DEF folded
  <2>3. SameGraph(folded, b)
    BY <2>2, CountersKeepGraph
  <2> HIDE DEF b
  <2>4. SameGraph(p, b)
    BY <1>2, <2>2, <2>3, SameGraphChains
  <2>5. /\ Sound(b) /\ b.edge_count = p.edge_count /\ node \in ActiveNodes(b)
        /\ EdgesOf(b, node) = {e} /\ m \in ActiveNodes(b) \ {node}
    BY <1>1, <2>4, SameGraphSound, SameAnswers DEF SameGraph
  <2>6. SameGraph(c, c)
    <3>1. {e} \subseteq ActiveEdges(b)
      BY <2>5, Neighbour
    <3>2. Sound(c)
      BY <2>5, <3>1, EdgesLess
    <3> QED
      BY <3>2, CountersKeepGraph DEF Sound
  <2>7. r = Eliminate(c, node, "R1", m, -1, choice)
    BY <2>1 DEF b, folded
  <2>8. Sound(r) /\ r.edge_count = b.edge_count - Cardinality({e})
    BY <2>5, <2>6, <2>7, Folded
  <2>9. Cardinality({e}) = 1
    BY FS_Singleton
  <2> QED
    BY <2>5, <2>8, <2>9
<1> QED
  BY <1>3, <1>4 DEF ReduceR1, Returns

(* The fill edge of R2 leaves the node it is for as it was.                *)
LEMMA FillEdge ==
    ASSUME NEW p, Sound(p), NEW node, NEW m \in ActiveNodes(p) \ {node},
           NEW k \in ActiveNodes(p) \ {node}, m # k,
           FindEdge(p, m, k) = {}, FreeSlots(p) # {}, NEW q, q = AddFillEdge(p, m, k)
    PROVE  /\ Sound(q) /\ q.edge_count = p.edge_count + 1 /\ ActiveNodes(q) = ActiveNodes(p)
           /\ EdgesOf(q, node) = EdgesOf(p, node)
           /\ \A e \in EdgesOf(p, node) : q.edges[e] = p.edges[e]
           /\ \A n : EdgesOf(p, n) \subseteq EdgesOf(q, n)
           /\ FindEdge(q, m, k) # {} /\ Least(FreeSlots(p)) \in Slots
<1> DEFINE slot == Least(FreeSlots(p))
           zeroes == [v \in Values |-> Zeroes]
<1>1. slot \in FreeSlots(p)
  <2>1. FreeSlots(p) \subseteq Nat
    BY SlotsFinite DEF FreeSlots
  <2> QED
    BY <2>1, LeastIs
<1>2. q = Joined(p, slot, m, k, zeroes)
  BY DEF AddFillEdge, Joined
<1> HIDE DEF slot, zeroes
<1>3. /\ Sound(q) /\ q.edge_count = p.edge_count + 1
      /\ ActiveNodes(q) = ActiveNodes(p) /\ ActiveEdges(q) = ActiveEdges(p) \cup {slot}
      /\ q.edges[slot].first = m /\ q.edges[slot].second = k
      /\ \A e \in Slots \ {slot} : q.edges[e] = p.edges[e]
  BY <1>1, <1>2, EdgeMore
<1>4. slot \in Slots /\ ~p.edges[slot].active /\ q.edges[slot].active
  BY <1>1, <1>3 DEF FreeSlots, ActiveEdges
<1>5. slot \notin EdgesOf(q, node) /\ \A n : slot \notin EdgesOf(p, n)
  BY <1>3, <1>4 DEF EdgesOf, Touches
<1>6. /\ EdgesOf(q, node) = EdgesOf(p, node) /\ \A n : EdgesOf(p, n) \subseteq EdgesOf(q, n)
      /\ \A e \in EdgesOf(p, node) : q.edges[e] = p.edges[e]
  <2>1. \A n, e : e \in Slots \ {slot} => (e \in EdgesOf(p, n) <=> e \in EdgesOf(q, n))
    BY <1>3 DEF EdgesOf
  <2>2. \A n : EdgesOf(p, n) \subseteq Slots /\ EdgesOf(q, n) \subseteq Slots
    BY DEF EdgesOf
  <2> QED
    BY <1>3, <1>5, <2>1, <2>2
<1>7. slot \in FindEdge(q, m, k)
  BY <1>3, <1>4 DEF FindEdge, Touches
<1> QED
  BY <1>3, <1>4, <1>6, <1>7 DEF slot

(* What R2 may leave once its edge is there.                               *)
R2Leaves(q, node, e, f, m, k, fill, r) ==
    \E count, job, choice :
        LET tried == Recorded(q, count)
        IN  \/ r = q \/ r = tried
            \/ r = Eliminate(Deactivate(Bump(AddToEdge(tried, fill, m, k, job), "r2"), {e, f}),
                             node, "R2", m, k, choice)

LEMMA R2Tail ==
    ASSUME NEW q, Sound(q), NEW node \in ActiveNodes(q), NEW e, NEW f, e # f,
           EdgesOf(q, node) = {e, f},
           NEW m \in ActiveNodes(q) \ {node}, NEW k \in ActiveNodes(q) \ {node},
           NEW fill \in Slots, NEW r, R2Leaves(q, node, e, f, m, k, fill, r)
    PROVE  Sound(r) /\ (SameGraph(q, r) \/ r.edge_count = q.edge_count - 2)
<1>0. PICK count, job, choice, tried :
           /\ tried = Recorded(q, count)
           /\ \/ r = q \/ r = tried
              \/ r = Eliminate(Deactivate(Bump(AddToEdge(tried, fill, m, k, job), "r2"), {e, f}),
                               node, "R2", m, k, choice)
  BY DEF R2Leaves
<1>1. SameGraph(q, q) /\ SameGraph(q, tried)
  BY <1>0, CountersKeepGraph DEF Sound
<1>2. Shaped(tried)
  BY <1>1 DEF SameGraph
<1>3. CASE r = q \/ r = tried
  BY <1>1, <1>3, SameGraphSound
<1>4. CASE r = Eliminate(Deactivate(Bump(AddToEdge(tried, fill, m, k, job), "r2"), {e, f}),
                         node, "R2", m, k, choice)
  <2> DEFINE joined == AddToEdge(tried, fill, m, k, job)
             b == Bump(joined, "r2")
             S == {e, f}
             c == Deactivate(b, S)
  <2>1. SameGraph(tried, joined)
    BY <1>2, CostsKeepGraph
  <2> HIDE DEF joined
  <2>2. Shaped(joined)
    BY <2>1 DEF SameGraph
  <2>3. SameGraph(joined, b)
    BY <2>2, CountersKeepGraph
  <2> HIDE DEF b
  <2>4. SameGraph(q, b)
    BY <1>1, <2>1, <2>3, SameGraphChains
  <2>5. S = {e, f} /\ e \in S /\ f \in S
    OBVIOUS
  <2> HIDE DEF S
  <2>6. /\ Sound(b) /\ b.edge_count = q.edge_count /\ node \in ActiveNodes(b)
        /\ S = EdgesOf(b, node)
        /\ m \in ActiveNodes(b) \ {node} /\ k \in ActiveNodes(b) \ {node}
    BY <2>4, <2>5, SameGraphSound, SameAnswers DEF SameGraph
  <2>7. SameGraph(c, c)
    <3>1. S \subseteq ActiveEdges(b)
      BY <2>5, <2>6, Neighbour
    <3>2. Sound(c)
      BY <2>6, <3>1, EdgesLess
    <3> QED
      BY <3>2, CountersKeepGraph DEF Sound
  <2>8. r = Eliminate(c, node, "R2", m, k, choice)
    BY <1>4 DEF b, joined, S
  <2>9. Sound(r) /\ r.edge_count = b.edge_count - Cardinality(S)
    <3> HIDE DEF c
    <3> QED
      BY <2>6, <2>7, <2>8, Folded DEF c
  <2>10. Cardinality(S) = 2
    <3> DEFINE T == {e}
    <3>1. IsFiniteSet(T) /\ Cardinality(T) = 1
      BY FS_Singleton
    <3>2. S = T \cup {f} /\ f \notin T
      BY <2>5
    <3> HIDE DEF T
    <3>3. Cardinality(T \cup {f}) = Cardinality(T) + 1
      BY <3>1, <3>2, FS_AddElement
    <3> QED
      BY <3>1, <3>2, <3>3
  <2> QED
    BY <2>6, <2>9, <2>10
<1> QED
  BY <1>0, <1>3, <1>4

(* R2 leaves the graph, or less edges, or the fill edge it has made.       *)
LEMMA R2Step ==
    ASSUME NEW p, Sound(p), NEW node \in ActiveNodes(p), NEW e, NEW f, e # f,
           EdgesOf(p, node) = {e, f}, NEW vector, NEW fault, NEW m, NEW k,
           m = OtherNode(p.edges[e], node), k = OtherNode(p.edges[f], node),
           NEW r, r = ReduceR2(p, node, e, f, vector, fault).problem
    PROVE  /\ Sound(r) /\ m \in ActiveNodes(p) \ {node} /\ k \in ActiveNodes(p) \ {node}
           /\ m # k
           /\ \/ SameGraph(p, r) \/ r.edge_count < p.edge_count
              \/ /\ FindEdge(p, m, k) = {} /\ FreeSlots(p) # {}
                 /\ SameGraph(AddFillEdge(p, m, k), r)
<1> DEFINE found == FindEdge(p, m, k)
           q == IF found # {} THEN p ELSE AddFillEdge(p, m, k)
           fill == Least(IF found # {} THEN found ELSE FreeSlots(p))
<1>1. /\ m \in ActiveNodes(p) \ {node} /\ k \in ActiveNodes(p) \ {node} /\ m # k
      /\ p.edge_count \in Nat
  <2>1. e \in EdgesOf(p, node) /\ f \in EdgesOf(p, node)
    OBVIOUS
  <2>2. /\ e \in ActiveEdges(p) /\ m \in ActiveNodes(p) \ {node} /\ Ends(p, e) = {node, m}
        /\ f \in ActiveEdges(p) /\ k \in ActiveNodes(p) \ {node} /\ Ends(p, f) = {node, k}
    BY <2>1, Neighbour
  <2>3. Ends(p, e) # Ends(p, f)
    BY <2>2 DEF Sound, Simple
  <2>4. ActiveEdges(p) \in SUBSET Slots
    BY DEF ActiveEdges
  <2>5. p.edge_count \in Nat
    BY <2>4, SlotsFinite DEF Sound, Simple
  <2> QED
    BY <2>2, <2>3, <2>5
<1>2. CASE r = p
  BY <1>1, <1>2, CountersKeepGraph DEF Sound
<1>3. CASE /\ found # {} \/ FreeSlots(p) # {}
           /\ R2Leaves(q, node, e, f, m, k, fill, r)
  <2>1. /\ Sound(q) /\ ActiveNodes(q) = ActiveNodes(p) /\ EdgesOf(q, node) = {e, f}
        /\ fill \in Slots /\ q.edge_count \in {p.edge_count, p.edge_count + 1}
    <3>1. CASE found # {}
      <4>1. found \subseteq Nat /\ found \subseteq Slots
        BY SlotsFinite DEF FindEdge
      <4>2. Least(found) \in found
        <5> HIDE DEF found
        <5> QED
          BY <3>1, <4>1, LeastIs
      <4> QED
        BY <3>1, <4>1, <4>2
    <3>2. CASE found = {}
      <4>1. FreeSlots(p) # {} /\ FindEdge(p, m, k) = {}
        BY <1>3, <3>2
      <4> DEFINE g == AddFillEdge(p, m, k)
      <4>2. q = g /\ fill = Least(FreeSlots(p))
        BY <3>2
      <4> HIDE DEF q, fill, g
      <4>3. /\ Sound(g) /\ ActiveNodes(g) = ActiveNodes(p) /\ EdgesOf(g, node) = EdgesOf(p, node)
            /\ g.edge_count = p.edge_count + 1 /\ Least(FreeSlots(p)) \in Slots
        BY <1>1, <4>1, FillEdge DEF g
      <4> QED
        BY <4>2, <4>3
    <3> QED
      BY <3>1, <3>2
  <2> HIDE DEF q, fill
  <2>2. /\ node \in ActiveNodes(q)
        /\ m \in ActiveNodes(q) \ {node} /\ k \in ActiveNodes(q) \ {node}
    BY <1>1, <2>1
  <2>3. Sound(r) /\ (SameGraph(q, r) \/ r.edge_count = q.edge_count - 2)
    BY <1>3, <2>1, <2>2, R2Tail
  <2>4. CASE r.edge_count = q.edge_count - 2
    BY <1>1, <2>1, <2>3, <2>4
  <2>5. CASE SameGraph(q, r)
    BY <1>1, <1>3, <2>3, <2>5 DEF q
  <2> QED
    BY <2>3, <2>4, <2>5
<1> QED
  BY <1>2, <1>3 DEF ReduceR2, Returns, R2Leaves

(* Fixing a node charges its neighbours, which keep their place.           *)
LEMMA ConditionStep ==
    ASSUME NEW p, Sound(p), NEW node \in ActiveNodes(p), NEW choice, NEW kind,
           kind \notin {"R1", "R2"},
           NEW r, r = ConditionNode(p, node, choice, kind).problem
    PROVE  Sound(r) /\ (r = p \/ r.edge_count = p.edge_count - Cardinality(EdgesOf(p, node)))
<1> DEFINE E == EdgesOf(p, node)
           b == Bump(p, "conditions")
           c == Deactivate(b, E)
           offset == CostAdd(c.objective_offset, p.nodes[node].unary[choice])
           nodes == [m \in NodeIds |-> IF m # node
                                       THEN [c.nodes[m] EXCEPT !.unary = Charged(p, node, choice, m)]
                                       ELSE c.nodes[m]]
           d == [c EXCEPT !.nodes = nodes, !.objective_offset = offset]
<1>1. r = p \/ r = Eliminate(d, node, kind, -1, -1, <<choice>>)
  BY DEF ConditionNode, Returns
<1>2. SameGraph(p, b)
  BY CountersKeepGraph DEF Sound
<1> HIDE DEF b, E
<1>3. /\ Sound(b) /\ b.edge_count = p.edge_count /\ ActiveNodes(b) = ActiveNodes(p)
      /\ E = EdgesOf(b, node)
  BY <1>2, SameGraphSound, SameAnswers DEF SameGraph, E
<1>4. E \subseteq ActiveEdges(b)
  BY <1>3 DEF EdgesOf, Touches, ActiveEdges
<1>5. Sound(c)
  BY <1>3, <1>4, EdgesLess
<1> HIDE DEF c, offset
<1>6. SameGraph(c, d)
  <2>1. Shaped(c)
    BY <1>5 DEF Sound
  <2>2. /\ DOMAIN d = Fields /\ d.node_count = c.node_count /\ d.edge_count = c.edge_count
        /\ d.edges = c.edges /\ d.elimination_order = c.elimination_order /\ d.nodes = nodes
    <3> HIDE DEF nodes
    <3> QED
      BY <2>1 DEF Shaped, Fields
  <2>3. ASSUME NEW n \in NodeIds
        PROVE  /\ DOMAIN nodes[n] = NodeFields /\ nodes[n].active = c.nodes[n].active
               /\ nodes[n].kind = c.nodes[n].kind /\ nodes[n].first = c.nodes[n].first
               /\ nodes[n].second = c.nodes[n].second
    BY <2>1 DEF Shaped, NodeFields
  <2>4. DOMAIN nodes = NodeIds
    OBVIOUS
  <2> HIDE DEF d, nodes
  <2>5. Shaped(d)
    BY <2>1, <2>2, <2>3, <2>4 DEF Shaped
  <2> QED
    BY <2>2, <2>3, <2>5 DEF SameGraph
<1> HIDE DEF d
<1>7. CASE r = Eliminate(d, node, kind, -1, -1, <<choice>>)
  <2>1. SameGraph(Deactivate(b, E), d)
    BY <1>6 DEF c
  <2>2. Sound(r) /\ r.edge_count = b.edge_count - Cardinality(E)
    BY <1>3, <1>7, <2>1, Folded
  <2> QED
    BY <1>3, <2>2 DEF E
<1> QED
  BY <1>1, <1>7

LEMMA RNStep ==
    ASSUME NEW p, Sound(p), NEW node \in ActiveNodes(p), NEW vector, NEW fault,
           NEW r, r = ReduceRN(p, node, vector, fault).problem
    PROVE  Sound(r) /\ (SameGraph(p, r) \/ r.edge_count <= p.edge_count)
<1>1. CASE r = p
  BY <1>1, CountersKeepGraph DEF Sound
<1>2. CASE \E count, choice : \/ r = Recorded(Bump(p, "rn"), count)
                              \/ r = ConditionNode(Recorded(Bump(p, "rn"), count), node, choice,
                                                   "RN").problem
  <2>1. PICK count, choice : \/ r = Recorded(Bump(p, "rn"), count)
                             \/ r = ConditionNode(Recorded(Bump(p, "rn"), count), node, choice,
                                                  "RN").problem
    BY <1>2
  <2> DEFINE b == Bump(p, "rn")
             tried == Recorded(b, count)
  <2>2. r = tried \/ r = ConditionNode(tried, node, choice, "RN").problem
    BY <2>1
  <2>3. SameGraph(p, b)
    BY CountersKeepGraph DEF Sound
  <2> HIDE DEF b
  <2>4. Shaped(b)
    BY <2>3 DEF SameGraph
  <2>5. SameGraph(b, tried)
    BY <2>4, CountersKeepGraph
  <2> HIDE DEF tried
  <2>6. SameGraph(p, tried)
    BY <2>3, <2>5, SameGraphChains
  <2>7. /\ Sound(tried) /\ tried.edge_count = p.edge_count
        /\ node \in ActiveNodes(tried)
    BY <2>6, SameGraphSound, SameAnswers DEF SameGraph
  <2>8. CASE r = tried
    BY <2>6, <2>7, <2>8
  <2>9. CASE r = ConditionNode(tried, node, choice, "RN").problem
    <3>1. Sound(r) /\ (r = tried \/ r.edge_count = tried.edge_count
                                                     - Cardinality(EdgesOf(tried, node)))
      BY <2>7, <2>9, ConditionStep
    <3>2. EdgesOf(tried, node) \in SUBSET Slots /\ ActiveEdges(tried) \in SUBSET Slots
      BY DEF EdgesOf, ActiveEdges
    <3>3. Cardinality(EdgesOf(tried, node)) \in Nat /\ tried.edge_count \in Nat
      BY <2>7, <3>2, SlotsFinite DEF Sound, Simple
    <3> QED
      BY <2>6, <2>7, <3>1, <3>3
  <2> QED
    BY <2>2, <2>8, <2>9
<1> QED
  BY <1>1, <1>2 DEF ReduceRN, Returns

LEMMA EdgeCount ==
    ASSUME NEW p, Sound(p)
    PROVE  p.edge_count = Cardinality(ActiveEdges(p)) /\ p.edge_count \in Nat
<1>1. ActiveEdges(p) \in SUBSET Slots
  BY DEF ActiveEdges
<1> QED
  BY <1>1, SlotsFinite DEF Sound, Simple

(* A fill edge that stays is for the node FindReducibleNode returns next.  *)
LEMMA FillIsFound ==
    ASSUME NEW p, Sound(p), NEW node \in Reducible(p), \A n \in Reducible(p) : node <= n,
           NEW e, NEW f, e = Least(EdgesOf(p, node)), f = Greatest(EdgesOf(p, node)),
           Cardinality(EdgesOf(p, node)) = 2, NEW m, NEW k,
           m = OtherNode(p.edges[e], node), k = OtherNode(p.edges[f], node),
           m \in ActiveNodes(p) \ {node}, k \in ActiveNodes(p) \ {node}, m # k,
           FindEdge(p, m, k) = {}, FreeSlots(p) # {}, NEW q, q = AddFillEdge(p, m, k)
    PROVE  ~Filled(p) /\ Filled(q)
<1> DEFINE E == EdgesOf(p, node)
<1>1. Reducible(p) \subseteq Nat /\ Least(Reducible(p)) = node
  <2>1. Reducible(p) \subseteq Nat
    BY SlotsFinite DEF Reducible, ActiveNodes
  <2> QED
    BY <2>1, LeastOf
<1>2. ~Filled(p)
  BY <1>1 DEF Filled
<1>3. E \in SUBSET Slots /\ e \in E /\ f \in E
  <2>1. E \in SUBSET Slots
    BY DEF EdgesOf
  <2>2. IsFiniteSet(E) /\ E \subseteq Nat
    BY <2>1, SlotsFinite
  <2> HIDE DEF E
  <2>3. E = {Least(E), Greatest(E)}
    BY <2>2, PairOf DEF E
  <2> QED
    BY <2>1, <2>3 DEF E
<1>4. /\ Sound(q) /\ ActiveNodes(q) = ActiveNodes(p) /\ EdgesOf(q, node) = E
      /\ \A x \in E : q.edges[x] = p.edges[x]
      /\ \A n : EdgesOf(p, n) \subseteq EdgesOf(q, n)
      /\ FindEdge(q, m, k) # {}
  BY FillEdge
<1>5. Reducible(q) \subseteq Reducible(p)
  <2> SUFFICES ASSUME NEW n \in Reducible(q) PROVE n \in Reducible(p)
    OBVIOUS
  <2>1. n \in ActiveNodes(p) /\ Cardinality(EdgesOf(q, n)) <= 2
    BY <1>4 DEF Reducible, NeighborCount
  <2>2. EdgesOf(p, n) \subseteq EdgesOf(q, n)
    BY <1>4
  <2>3. EdgesOf(p, n) \in SUBSET Slots /\ EdgesOf(q, n) \in SUBSET Slots
    BY DEF EdgesOf
  <2>4. /\ Cardinality(EdgesOf(p, n)) \in Nat /\ Cardinality(EdgesOf(q, n)) \in Nat
        /\ IsFiniteSet(EdgesOf(q, n))
    BY <2>3, SlotsFinite
  <2>5. Cardinality(EdgesOf(p, n)) <= Cardinality(EdgesOf(q, n))
    BY <2>2, <2>4, FS_Subset
  <2>6. Cardinality(EdgesOf(p, n)) <= 2
    BY <2>1, <2>4, <2>5
  <2> QED
    BY <2>1, <2>6 DEF Reducible, NeighborCount
<1>6. node \in Reducible(q)
  BY <1>4 DEF Reducible, NeighborCount
<1>7. Least(Reducible(q)) = node
  BY <1>1, <1>5, <1>6, LeastOf
<1>8. Filled(q)
  <2>1. /\ OtherNode(q.edges[Least(EdgesOf(q, node))], node) = m
        /\ OtherNode(q.edges[Greatest(EdgesOf(q, node))], node) = k
    BY <1>3, <1>4
  <2> HIDE DEF E
  <2> QED
    BY <1>4, <1>6, <1>7, <2>1 DEF Filled, E
<1> QED
  BY <1>2, <1>8

(* What the reduction of the first reducible node does to the graph.       *)
LEMMA ReduceStep ==
    ASSUME NEW p, Sound(p), NEW node \in Reducible(p), \A n \in Reducible(p) : node <= n,
           NEW vector, NEW fault, NEW r, r = ReduceNode(p, node, vector, fault).problem
    PROVE  /\ Sound(r)
           /\ \/ SameGraph(p, r) \/ r.edge_count < p.edge_count
              \/ ~Filled(p) /\ r.edge_count = p.edge_count
              \/ ~Filled(p) /\ r.edge_count = p.edge_count + 1 /\ Filled(r)
<1> DEFINE E == EdgesOf(p, node)
           e == Least(E)
           f == Greatest(E)
<1>1. node \in ActiveNodes(p) /\ Cardinality(E) <= 2 /\ E \in SUBSET Slots
  BY DEF Reducible, NeighborCount, EdgesOf
<1>2. IsFiniteSet(E) /\ E \subseteq Nat /\ Cardinality(E) \in Nat /\ p.edge_count \in Nat
  BY <1>1, SlotsFinite, EdgeCount
<1>3. Least(Reducible(p)) = node
  <2>1. Reducible(p) \subseteq Nat
    BY SlotsFinite DEF Reducible, ActiveNodes
  <2> QED
    BY <2>1, LeastOf
<1>4. CASE E = {}
  <2>1. Cardinality(E) = 0
    BY <1>4, FS_EmptySet
  <2>2. r = ReduceR0(p, node).problem
    BY <1>4, <2>1 DEF ReduceNode
  <2>3. ~Filled(p)
    BY <1>3, <2>1 DEF Filled
  <2> QED
    BY <1>1, <1>4, <2>2, <2>3, R0Step
<1>5. CASE E # {} /\ Cardinality(E) = 1
  <2>1. E = {e}
    <3> HIDE DEF E
    <3> QED
      BY <1>2, <1>5, SingleOf
  <2>2. r = ReduceR1(p, node, e, fault).problem
    BY <1>5, <2>1 DEF ReduceNode
  <2> HIDE DEF e
  <2>3. Sound(r) /\ (SameGraph(p, r) \/ r.edge_count = p.edge_count - 1)
    BY <1>1, <2>1, <2>2, R1Step
  <2> QED
    BY <1>2, <2>3
<1>6. CASE Cardinality(E) = 2
  <2>1. E = {e, f} /\ e # f
    <3> HIDE DEF E
    <3> QED
      BY <1>2, <1>6, PairOf
  <2>2. r = ReduceR2(p, node, e, f, vector, fault).problem
    BY <1>6, <2>1 DEF ReduceNode
  <2>3. e = Least(EdgesOf(p, node)) /\ f = Greatest(EdgesOf(p, node))
    OBVIOUS
  <2> DEFINE m == OtherNode(p.edges[e], node)
             k == OtherNode(p.edges[f], node)
             g == AddFillEdge(p, m, k)
  <2>4. m = OtherNode(p.edges[e], node) /\ k = OtherNode(p.edges[f], node) /\ g = AddFillEdge(p, m, k)
    OBVIOUS
  <2> HIDE DEF e, f, m, k, g
  <2>5. /\ Sound(r) /\ m \in ActiveNodes(p) \ {node} /\ k \in ActiveNodes(p) \ {node} /\ m # k
        /\ \/ SameGraph(p, r) \/ r.edge_count < p.edge_count
           \/ FindEdge(p, m, k) = {} /\ FreeSlots(p) # {} /\ SameGraph(g, r)
    BY <1>1, <2>1, <2>2, <2>4, R2Step
  <2>6. CASE FindEdge(p, m, k) = {} /\ FreeSlots(p) # {} /\ SameGraph(g, r)
    <3>1. ~Filled(p) /\ Filled(g)
      BY <1>6, <2>3, <2>4, <2>5, <2>6, FillIsFound
    <3>2. Filled(r)
      BY <2>6, <3>1, SameGraphFilled
    <3>3. g.edge_count = p.edge_count + 1
      <4>1. /\ m \in ActiveNodes(p) \ {node} /\ k \in ActiveNodes(p) \ {node} /\ m # k
            /\ FindEdge(p, m, k) = {} /\ FreeSlots(p) # {} /\ g = AddFillEdge(p, m, k)
        BY <2>4, <2>5, <2>6
      <4>2. /\ Sound(g) /\ g.edge_count = p.edge_count + 1
            /\ EdgesOf(g, node) = EdgesOf(p, node)
        BY <4>1, FillEdge
      <4> QED
        BY <4>2
    <3>4. r.edge_count = g.edge_count
      BY <2>6 DEF SameGraph
    <3> QED
      BY <2>5, <3>1, <3>2, <3>3, <3>4
  <2> QED
    BY <2>5, <2>6
<1>7. Cardinality(E) \in {0, 1, 2}
  BY <1>1, <1>2
<1>8. Cardinality(E) = 0 => E = {}
  BY <1>2, FS_EmptySet
<1> QED
  BY <1>4, <1>5, <1>6, <1>7, <1>8

-----------------------------------------------------------------------------
(* The solver.                                                             *)

LEMMA BalanceKept ==
    ASSUME NEW p, Sound(p), NEW built, built.edge_count \in Nat, Balance(p, built),
           NEW q, Sound(q),
           \/ SameGraph(p, q) \/ q.edge_count < p.edge_count
           \/ ~Filled(p) /\ q.edge_count <= p.edge_count
           \/ ~Filled(p) /\ q.edge_count = p.edge_count + 1 /\ Filled(q)
    PROVE  Balance(q, built)
<1>1. p.edge_count \in Nat /\ q.edge_count \in Nat
  BY EdgeCount
<1>2. CASE SameGraph(p, q)
  <2>1. q.edge_count = p.edge_count
    BY <1>2 DEF SameGraph
  <2>2. Filled(p) => Filled(q)
    BY <1>2, SameGraphFilled
  <2> QED
    BY <2>1, <2>2 DEF Balance
<1>3. CASE q.edge_count < p.edge_count
  BY <1>1, <1>3 DEF Balance
<1>4. CASE ~Filled(p) /\ q.edge_count <= p.edge_count
  BY <1>1, <1>4 DEF Balance
<1>5. CASE ~Filled(p) /\ q.edge_count = p.edge_count + 1 /\ Filled(q)
  BY <1>1, <1>5 DEF Balance
<1> QED
  BY <1>2, <1>3, <1>4, <1>5

(* A call that changes costs and counters only, after the building.        *)
LEMMA GraphKept ==
    ASSUME SolveInv, mode # "building", mode' # "building", UNCHANGED original,
           SameGraph(problem, problem')
    PROVE  SolveInv'
<1>1. Sound(problem')
  BY SameGraphSound DEF SolveInv
<1>2. Balance(problem', original)
  BY <1>1, BalanceKept DEF SolveInv, Balanced
<1> QED
  BY <1>1, <1>2 DEF SolveInv, BuildOK, Balanced

LEMMA EmptySound == Sound(EmptyProblem) /\ EmptyProblem.edge_count = 0
                                        /\ EmptyProblem.elimination_order = <<>>
<1> DEFINE p == EmptyProblem
<1>1. /\ DOMAIN p = Fields /\ p.node_count = 0 /\ p.edge_count = 0
      /\ DOMAIN p.nodes = NodeIds /\ DOMAIN p.edges = Slots /\ p.elimination_order = <<>>
      /\ \A n \in NodeIds : p.nodes[n] = NoNode
      /\ \A e \in Slots : p.edges[e] = NoEdge
  BY DEF EmptyProblem, Fields
<1> HIDE DEF p
<1>2. DOMAIN NoNode = NodeFields /\ NoNode.active = FALSE
  BY DEF NoNode, NodeFields
<1>3. DOMAIN NoEdge = EdgeFields /\ NoEdge.active = FALSE
  BY DEF NoEdge, EdgeFields
<1>4. Shaped(p)
  <2>1. \A n \in NodeIds : DOMAIN p.nodes[n] = NodeFields /\ p.nodes[n].active \in BOOLEAN
    BY <1>1, <1>2
  <2>2. \A e \in Slots : DOMAIN p.edges[e] = EdgeFields /\ p.edges[e].active \in BOOLEAN
    BY <1>1, <1>3
  <2>3. p.node_count \in 0 .. NodeCapacity /\ p.elimination_order \in Seq(NodeIds)
    BY <1>1, CapacityAssumption
  <2> QED
    BY <1>1, <2>1, <2>2, <2>3 DEF Shaped
<1>5. Simple(p)
  <2>1. ActiveEdges(p) = {}
    BY <1>1, <1>3 DEF ActiveEdges
  <2> QED
    BY <1>1, <2>1, FS_EmptySet DEF Simple
<1>6. Replayable(p)
  <2>1. \A n \in NodeIds : ~(n < 0)
    BY SlotsFinite
  <2> QED
    BY <1>1, <2>1 DEF Replayable
<1> QED
  BY <1>1, <1>4, <1>5, <1>6 DEF Sound, p

(* SolveInv holds in every state of the solver, whatever the caller builds *)
(* and in which order it is solved, and whichever call fails: the problem  *)
(* stays sound, and its edges never outnumber those it was built with by   *)
(* more than the fill edge of an R2 that failed.                           *)
THEOREM SolveInvariant == Spec => []SolveInv
<1>1. Init => SolveInv
  BY EmptySound DEF Init, SolveInv, BuildOK, Balanced
<1>2. SolveInv /\ [Next]_vars => SolveInv'
  <2> SUFFICES ASSUME SolveInv, [Next]_vars PROVE SolveInv'
    OBVIOUS
  <2>1. Shaped(problem) /\ SameGraph(problem, problem)
    <3>1. Shaped(problem)
      BY DEF SolveInv, Sound
    <3> QED
      BY <3>1, CountersKeepGraph
  <2>2. CASE BuildCall
    <3>1. Sound(problem) /\ problem.elimination_order = <<>>
      BY <2>2 DEF BuildCall, SolveInv, BuildOK
    <3>2. \/ \E domain, unary : problem' = AddNode(problem, domain, unary).problem
          \/ \E first, second, costs : problem' = AddEdge(problem, first, second, costs).problem
      BY <2>2 DEF BuildCall
    <3>3. Sound(problem') /\ problem'.elimination_order = <<>>
      BY <3>1, <3>2, NodeMore, BuildEdge
    <3> QED
      BY <2>2, <3>3 DEF BuildCall, SolveInv, BuildOK, Balanced
  <2>3. ASSUME NEW c \in Configs, NEW fault \in {"none", "alloc"}, SolveCall(c, fault)
        PROVE  SolveInv'
    <3>1. /\ UNCHANGED problem /\ mode' \in {"returned", "starting", "reducing"}
          /\ original' = IF mode = "building" THEN problem ELSE original
      BY <2>3 DEF SolveCall, Return
    <3>2. problem.edge_count \in Nat
      BY EdgeCount DEF SolveInv
    <3>3. Balance(problem, original')
      <4>1. CASE mode = "building"
        BY <3>1, <3>2, <4>1 DEF Balance
      <4>2. CASE mode # "building"
        BY <3>1, <4>2 DEF SolveInv, Balanced
      <4> QED
        BY <4>1, <4>2
    <3> QED
      BY <3>1, <3>2, <3>3 DEF SolveInv, BuildOK, Balanced
  <2>4. ASSUME NEW fault \in Faults, Reduce(fault)
        PROVE  SolveInv'
    <3>1. PICK node \in Reducible(problem) :
                /\ problem' = ReduceNode(problem, node, config.vector, fault).problem
                /\ \A other \in Reducible(problem) : node <= other
                /\ mode = "reducing" /\ mode' \in {"reducing", "returned"}
                /\ UNCHANGED original
      BY <2>4 DEF Reduce, Return
    <3>2. /\ Sound(problem')
          /\ \/ SameGraph(problem, problem') \/ problem'.edge_count < problem.edge_count
             \/ ~Filled(problem) /\ problem'.edge_count = problem.edge_count
             \/ /\ ~Filled(problem) /\ problem'.edge_count = problem.edge_count + 1
                /\ Filled(problem')
      BY <3>1, ReduceStep DEF SolveInv
    <3>3. problem.edge_count \in Nat
      BY EdgeCount DEF SolveInv
    <3>4. Balance(problem, original) /\ original.edge_count \in Nat
      BY <3>1 DEF SolveInv, Balanced
    <3>5. Balance(problem', original)
      BY <3>2, <3>3, <3>4, BalanceKept DEF SolveInv
    <3> QED
      BY <3>1, <3>2, <3>4, <3>5 DEF SolveInv, BuildOK, Balanced
  <2>5. ASSUME NEW fault \in Faults, ApplyRN(fault)
        PROVE  SolveInv'
    <3>1. PICK node \in ActiveNodes(problem) :
                /\ problem' = ReduceRN(problem, node, config.vector, fault).problem
                /\ mode = "reducing" /\ mode' \in {"reducing", "returned"}
                /\ Reducible(problem) = {} /\ UNCHANGED original
      BY <2>5 DEF ApplyRN, Irreducible, Return
    <3>2. /\ Sound(problem')
          /\ SameGraph(problem, problem') \/ problem'.edge_count <= problem.edge_count
      BY <3>1, RNStep DEF SolveInv
    <3>3. ~Filled(problem)
      BY <3>1 DEF Filled
    <3>4. Balance(problem, original) /\ original.edge_count \in Nat
      BY <3>1 DEF SolveInv, Balanced
    <3>5. Balance(problem', original)
      BY <3>2, <3>3, <3>4, BalanceKept DEF SolveInv
    <3> QED
      BY <3>1, <3>2, <3>4, <3>5 DEF SolveInv, BuildOK, Balanced
  <2>6. CASE SearchLimit
    <3>1. SameGraph(problem, Bump(problem, "limitHits"))
      BY <2>1, CountersKeepGraph
    <3> QED
      BY <2>6, <3>1, GraphKept DEF SearchLimit, Return
  <2>7. /\ SameGraph(problem, Visited(problem))
        /\ SameGraph(problem, Bump(Visited(problem), "branches"))
    <3>1. SameGraph(problem, Visited(problem))
      BY <2>1, CountersKeepGraph DEF Visited
    <3>2. Shaped(Visited(problem))
      BY <3>1 DEF SameGraph
    <3>3. SameGraph(Visited(problem), Bump(Visited(problem), "branches"))
      BY <3>2, CountersKeepGraph
    <3> QED
      BY <3>1, <3>3, SameGraphChains
  <2>8. CASE Descend
    <3>1. /\ mode = "searching" /\ mode' = mode /\ UNCHANGED original
          /\ problem' \in {Visited(problem), Bump(Visited(problem), "branches")}
      BY <2>8 DEF Descend
    <3> QED
      BY <2>7, <3>1, GraphKept
  <2>9. CASE Leaf
    <3>1. /\ mode = "searching" /\ mode' \in {"searching", "returned"} /\ UNCHANGED original
          /\ problem' \in {Visited(problem), Bump(Visited(problem), "branches")}
      BY <2>9 DEF Leaf, Return
    <3> QED
      BY <2>7, <3>1, GraphKept
  <2>10. ASSUME UNCHANGED <<problem, original>>, mode # "building", mode' # "building"
         PROVE  SolveInv'
    BY <2>1, <2>10, GraphKept
  <2>11. CASE SolveRefused \/ Finish \/ GiveUp \/ FinishRN \/ Settled
    <3>1. UNCHANGED <<problem, original>> /\ mode # "building" /\ mode' # "building"
      BY <2>11 DEF SolveRefused, Finish, GiveUp, FinishRN, Settled, Irreducible, Return
    <3> QED
      BY <2>10, <3>1
  <2>12. ASSUME NEW fault \in Faults, EnterCore(fault) \/ StartDescent(fault) \/ VisitNode(fault)
         PROVE  SolveInv'
    <3>1. UNCHANGED <<problem, original>> /\ mode # "building" /\ mode' # "building"
      BY <2>12 DEF EnterCore, StartDescent, VisitNode, Irreducible, Return
    <3> QED
      BY <2>10, <3>1
  <2>13. CASE UNCHANGED vars
    BY <2>13 DEF vars, SolveInv, BuildOK, Balanced
  <2> QED
    BY <2>2, <2>3, <2>4, <2>5, <2>6, <2>8, <2>9, <2>11, <2>12, <2>13 DEF Next
<1> QED
  BY <1>1, <1>2, PTL DEF Spec

(* The problem can be solved on at any time, after a call that failed too: *)
(* its active edges form a simple graph on its active nodes, and           *)
(* ReconstructSolution, which runs through elimination_order backwards,    *)
(* finds the neighbours of every node settled before it.                   *)
THEOREM ProblemStaysSound == Spec => []ProblemSound
<1>1. SolveInv => ProblemSound
  <2> SUFFICES ASSUME SolveInv PROVE ProblemSound
    OBVIOUS
  <2> DEFINE order == problem.elimination_order
             position(n) == CHOOSE i \in DOMAIN order : order[i] = n
  <2>1. Shaped(problem) /\ Simple(problem) /\ Replayable(problem)
    BY DEF SolveInv, Sound
  <2>2. GraphSound
    BY <2>1 DEF GraphSound, Simple, Ends
  <2>3. /\ DOMAIN order = 1 .. Len(order) /\ Len(order) \in Nat
        /\ \A i \in DOMAIN order : order[i] \in NodeIds
    BY <2>1 DEF Shaped
  <2>4. \A i, j \in DOMAIN order : order[i] = order[j] => i = j
    BY <2>1, <2>3 DEF Replayable
  <2>5. ASSUME NEW i \in DOMAIN order PROVE position(order[i]) = i
    BY <2>4
  <2>6. ASSUME NEW n \in NodeIds
        PROVE  (\E i \in DOMAIN order : order[i] = n)
                  <=> n < problem.node_count /\ ~problem.nodes[n].active
    BY <2>1, <2>3 DEF Replayable
  <2>7. ASSUME NEW n
        PROVE  n \in NodeIds /\ n < problem.node_count <=> n \in 0 .. problem.node_count - 1
    <3>1. problem.node_count \in 0 .. NodeCapacity
      BY <2>1 DEF Shaped
    <3> QED
      BY <3>1, CapacityAssumption DEF NodeIds
  <2>8. {order[i] : i \in DOMAIN order}
            = {n \in 0 .. problem.node_count - 1 : ~problem.nodes[n].active}
    BY <2>3, <2>6, <2>7
  <2>9. ASSUME NEW i \in DOMAIN order, NEW m, After(problem, i, m)
        PROVE  problem.nodes[m].active \/ position(m) > position(order[i])
    <3>1. m \in NodeIds /\ m < problem.node_count /\ \A j \in 1 .. i : order[j] # m
      BY <2>7, <2>9 DEF After
    <3>2. CASE ~problem.nodes[m].active
      <4>1. PICK j \in DOMAIN order : order[j] = m
        BY <2>6, <3>1, <3>2
      <4>2. position(m) = j /\ position(order[i]) = i
        BY <2>5, <4>1
      <4>3. i \in Nat /\ j \in Nat /\ 1 <= j /\ j \notin 1 .. i
        BY <2>3, <3>1, <4>1
      <4> HIDE DEF position
      <4> QED
        BY <4>2, <4>3
    <3> QED
      BY <3>2
  <2>10. ASSUME NEW i \in DOMAIN order
         PROVE  /\ problem.nodes[order[i]].kind \in {"R1", "R2"} =>
                      After(problem, i, problem.nodes[order[i]].first)
                /\ problem.nodes[order[i]].kind = "R2" =>
                      After(problem, i, problem.nodes[order[i]].second)
    BY <2>1, <2>3 DEF Replayable
  <2>11. ReconstructionReady
    BY <2>4, <2>8, <2>9, <2>10 DEF ReconstructionReady
  <2> QED
    BY <2>2, <2>11 DEF ProblemSound
<1> QED
  BY <1>1, SolveInvariant, PTL

(* A problem built with one slot to spare never fails in R2 for want of a  *)
(* slot, after any number of solves and failures: AddFillEdge is called    *)
(* with a free slot, or not at all.                                        *)
THEOREM OneSpareSlot == Spec => []SpareSlotSuffices
<1>1. SolveInv => SpareSlotSuffices
  <2> SUFFICES ASSUME SolveInv, mode = "reducing", original.edge_count < EdgeCapacity,
                      Reducible(problem) # {},
                      NEW E, E = EdgesOf(problem, Least(Reducible(problem))),
                      Cardinality(E) = 2,
                      NEW m, m = OtherNode(problem.edges[Least(E)], Least(Reducible(problem))),
                      NEW k, k = OtherNode(problem.edges[Greatest(E)], Least(Reducible(problem))),
                      FreeSlots(problem) = {}
               PROVE  FindEdge(problem, m, k) # {}
    BY DEF SpareSlotSuffices
  <2>1. Sound(problem) /\ Balance(problem, original) /\ original.edge_count \in Nat
    BY DEF SolveInv, Balanced
  <2>2. ActiveEdges(problem) = Slots
    BY DEF FreeSlots, ActiveEdges
  <2>3. problem.edge_count = EdgeCapacity
    BY <2>1, <2>2, EdgeCount, SlotsFinite
  <2>4. Filled(problem)
    BY <2>1, <2>3, CapacityAssumption DEF Balance
  <2> QED
    BY <2>4 DEF Filled
<1> QED
  BY <1>1, SolveInvariant, PTL
=============================================================================
