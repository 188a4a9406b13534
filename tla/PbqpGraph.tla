----------------------------- MODULE PbqpGraph ------------------------------
(***************************************************************************)
(* The PBQP problem of software/pbqp: nodes with a domain and a vector of  *)
(* unary costs, binary cost matrices in a fixed pool of edge slots, and    *)
(* the record of the nodes already eliminated.  This module holds the      *)
(* data and the queries of class Graph; PbqpReductions changes the data.   *)
(*                                                                         *)
(* A problem is a record.  A slot keeps its matrix when it is deactivated, *)
(* as the code's storage does; matrices and unary vectors have the         *)
(* problem-wide stride, whatever the domain of a node.                     *)
(***************************************************************************)
EXTENDS CostMath, Sequences, FiniteSets

CONSTANTS NodeCapacity, EdgeCapacity, DomainCapacity

ASSUME CapacityAssumption == /\ NodeCapacity \in Nat \ {0}
                             /\ EdgeCapacity \in Nat
                             /\ DomainCapacity \in Nat \ {0}

NodeIds == 0 .. NodeCapacity - 1
Slots   == 0 .. EdgeCapacity - 1
Values  == 0 .. DomainCapacity - 1

(* reduction_kind of an eliminated node; None while the node is active.    *)
Kinds == {"None", "R0", "R1", "R2", "RN", "Branch"}

Zeroes == [v \in Values |-> 0]

NoNode == [active |-> FALSE, domain |-> 0, unary |-> Zeroes, kind |-> "None",
           first |-> -1, second |-> -1, choice |-> <<>>]

NoEdge == [active |-> FALSE, first |-> 0, second |-> 0,
           cost |-> [v \in Values |-> Zeroes]]

(* The counters of pbqp_statistics_t that some decision or some later      *)
(* report depends on; the byte and element tallies beside them are left    *)
(* out.  histogram stands for vector_length_histogram, whose array the     *)
(* structure only points to.                                               *)
NoStatistics == [r0 |-> 0, r1 |-> 0, r2 |-> 0, conditions |-> 0, rn |-> 0,
                 histogram |-> 0,
                 visited |-> 0, branches |-> 0, limitHits |-> 0, pruned |-> 0]

(* The zeroed storage of pbqp_init.                                        *)
EmptyProblem ==
    [node_count |-> 0, edge_count |-> 0, objective_offset |-> 0,
     nodes |-> [n \in NodeIds |-> NoNode], edges |-> [e \in Slots |-> NoEdge],
     elimination_order |-> <<>>, statistics |-> NoStatistics]

-----------------------------------------------------------------------------
(* Class Graph: queries.                                                   *)

Touches(edge, node) == edge.active /\ node \in {edge.first, edge.second}

OtherNode(edge, node) == IF edge.first = node THEN edge.second ELSE edge.first

(* Mutant: the ends are compared in one order only.                        *)
FindEdgeOneWay(p, first, second) ==
    {e \in Slots : /\ p.edges[e].active
                   /\ p.edges[e].first = first
                   /\ p.edges[e].second = second}

(* FindEdge returns the least of these, the only one in a simple graph.    *)
FindEdge(p, first, second) ==
    {e \in Slots : Touches(p.edges[e], first) /\ Touches(p.edges[e], second)}

(* The active edges of a node: NeighborCount is their number.              *)
EdgesOf(p, node) == {e \in Slots : Touches(p.edges[e], node)}
NeighborCount(p, node) == Cardinality(EdgesOf(p, node))

Least(S) == CHOOSE i \in S : \A j \in S : i <= j
Greatest(S) == CHOOSE i \in S : \A j \in S : i >= j

ActiveNodes(p) == {n \in NodeIds : n < p.node_count /\ p.nodes[n].active}
ActiveEdges(p) == {e \in Slots : p.edges[e].active}

(* FindReducibleNode takes the least of these.                             *)
Reducible(p) == {n \in ActiveNodes(p) : NeighborCount(p, n) <= 2}

SumOver(S, f(_)) ==
    LET sum[T \in SUBSET S] ==
            IF T = {} THEN 0 ELSE LET x == Least(T) IN f(x) + sum[T \ {x}]
    IN  sum[S]

(* work of SelectRnNode: a node's domain times those of its neighbours.    *)
RnWork(p, node) ==
    p.nodes[node].domain
        * SumOver(EdgesOf(p, node),
                  LAMBDA e : p.nodes[OtherNode(p.edges[e], node)].domain)

Policies == {"MIN_DEGREE", "MAX_DEGREE", "MIN_WORK"}

(* a is preferred to b under the policy; ties go to the smaller index.     *)
Preferred(p, policy, a, b) ==
    LET da == NeighborCount(p, a)
        db == NeighborCount(p, b)
        wa == RnWork(p, a)
        wb == RnWork(p, b)
    IN  CASE policy = "MIN_DEGREE" -> da < db \/ (da = db /\ a < b)
          [] policy = "MAX_DEGREE" -> da > db \/ (da = db /\ a < b)
          [] policy = "MIN_WORK" ->
                 wa < wb \/ (wa = wb /\ (da < db \/ (da = db /\ a < b)))

SelectRnNode(p, policy) ==
    CHOOSE a \in ActiveNodes(p) :
        \A b \in ActiveNodes(p) \ {a} : Preferred(p, policy, a, b)

-----------------------------------------------------------------------------
(* Costs.                                                                  *)

(* The cost an edge adds when node has value and its other end has other.  *)
PairCost(edge, node, value, other) ==
    IF node = edge.first THEN edge.cost[value][other] ELSE edge.cost[other][value]

EdgeView(edge, node, other) == [v \in Values |-> PairCost(edge, node, v, other)]

ConditionedEdgeView(edge, node, value) ==
    [v \in Values |-> PairCost(edge, node, value, v)]

(* start plus term(0), ..., term(count - 1), added in this order; a sum    *)
(* that is no cost ends the addition.                                      *)
FoldCosts(add(_, _), start, count, term(_)) ==
    LET sum[i \in 0 .. count, total \in Int] ==
            IF i = count \/ total = CostError THEN total
            ELSE sum[i + 1, add(total, term(i))]
    IN  sum[0, start]

CostSum(start, count, term(_)) == FoldCosts(CostAdd, start, count, term)

(* One term per node of S and per active edge, nodes first.                *)
CostOf(p, a, S) ==
    CostSum(0, p.node_count + EdgeCapacity,
            LAMBDA i :
                IF i < p.node_count
                THEN IF i \in S THEN p.nodes[i].unary[a[i]] ELSE 0
                ELSE LET edge == p.edges[i - p.node_count]
                     IN  IF edge.active THEN edge.cost[a[edge.first]][a[edge.second]] ELSE 0)

(* pbqp_evaluate: every node, active or not, and every active edge.        *)
Evaluate(p, a) == CostOf(p, a, NodeIds)

(* EvaluateActiveCore: the active nodes and edges only.                    *)
EvaluateActiveCore(p, a) == CostOf(p, a, ActiveNodes(p))

(* The complete assignments, and the least cost a problem can still have:  *)
(* what pbqp_bruteforce finds by enumerating them.                         *)
Assignments(p) ==
    {a \in [0 .. p.node_count - 1 -> Values] :
        \A n \in 0 .. p.node_count - 1 : a[n] < p.nodes[n].domain}

Bruteforce(p) == Least({Evaluate(p, a) : a \in Assignments(p)})

(* Mutant: the slots of the edges are not counted.                         *)
MaxFiniteCostOfNodes == (Inf - 1) \div NodeCapacity

(* pbqp_max_finite_cost: the sum of one cost per node and slot is below    *)
(* the infinite cost.                                                      *)
MaxFiniteCost == (Inf - 1) \div (NodeCapacity + EdgeCapacity)

IsValidCost(cost) == cost = Inf \/ cost \in -MaxFiniteCost .. MaxFiniteCost

-----------------------------------------------------------------------------
(* The kernel primitives of the reductions.  A job is an operand per       *)
(* index; its result has the first index of the least sum, and one sum     *)
(* that is no cost fails the job.                                          *)

FirstMin(f, length) ==
    CHOOSE i \in 0 .. length - 1 :
        /\ \A j \in 0 .. length - 1 : f[i] <= f[j]
        /\ \A j \in 0 .. i - 1 : f[j] # f[i]

Reduced(sums, length) ==
    LET i == FirstMin(sums, length)
    IN  [ok |-> \A j \in 0 .. length - 1 : sums[j] # CostError,
         value |-> sums[i], index |-> i]

Min2(a, b, length) ==
    Reduced([i \in 0 .. length - 1 |-> CostAddChecked(a[i], b[i])], length)

Min3(a, b, c, length) ==
    Reduced([i \in 0 .. length - 1 |-> CostAdd3Checked(a[i], b[i], c[i])], length)
=============================================================================
