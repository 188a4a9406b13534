--------------------------- MODULE PbqpReductions ---------------------------
(***************************************************************************)
(* What changes a PBQP problem: building it (pbqp_add_node, pbqp_add_edge) *)
(* and eliminating a node (R0, R1, R2, RN and the conditioning of a        *)
(* branch).  Each operator is one whole call: it takes the problem and the *)
(* fault the call meets, and returns the call's status with the problem    *)
(* it leaves, a failed call included.                                      *)
(***************************************************************************)
EXTENDS PbqpGraph

(* What can fail inside a reduction: nothing, a workspace allocation, or   *)
(* the cost kernel.                                                        *)
Faults == {"none", "alloc", "kernel"}

Returns(status, p) == [status |-> status, problem |-> p]

Bump(p, counter) == [p EXCEPT !.statistics[counter] = @ + 1]

-----------------------------------------------------------------------------
(* Building a problem.                                                     *)

AddNode(p, domain, unary) ==
    IF domain \notin 1 .. DomainCapacity THEN Returns("ARGUMENT_ERROR", p)
    ELSE IF p.node_count = NodeCapacity THEN Returns("CAPACITY_ERROR", p)
    ELSE IF \E v \in 0 .. domain - 1 : ~IsValidCost(unary[v])
         THEN Returns("COST_RANGE_ERROR", p)
    ELSE Returns("OK",
                 [p EXCEPT !.node_count = @ + 1,
                           !.nodes[p.node_count] =
                               [@ EXCEPT !.active = TRUE, !.domain = domain,
                                         !.unary = [v \in Values |->
                                             IF v < domain THEN unary[v] ELSE @[v]]]])

(* Mutant: the slot of a deactivated edge is not used again.               *)
FreeSlotsAtEnd(p) == {e \in Slots : \A f \in ActiveEdges(p) : f < e}

FreeSlots(p) == {e \in Slots : ~p.edges[e].active}

AddEdge(p, first, second, costs) ==
    IF \/ {first, second} \ (0 .. p.node_count - 1) # {}
       \/ first = second
       \/ FindEdge(p, first, second) # {}
    THEN Returns("ARGUMENT_ERROR", p)
    ELSE LET rows == 0 .. p.nodes[first].domain - 1
             columns == 0 .. p.nodes[second].domain - 1
         IN  IF \E v \in rows, w \in columns : ~IsValidCost(costs[v][w])
             THEN Returns("COST_RANGE_ERROR", p)
             ELSE IF FreeSlots(p) = {} THEN Returns("CAPACITY_ERROR", p)
             ELSE Returns("OK",
                 [p EXCEPT !.edge_count = @ + 1,
                           !.edges[Least(FreeSlots(p))] =
                               [active |-> TRUE, first |-> first, second |-> second,
                                cost |-> [v \in Values |-> [w \in Values |->
                                    IF v \in rows /\ w \in columns
                                    THEN costs[v][w] ELSE @.cost[v][w]]]]])

-----------------------------------------------------------------------------
(* Eliminating a node.                                                     *)

(* The bookkeeping every elimination ends with.  choice is the node's part *)
(* of the reconstruction storage.                                          *)
Eliminate(p, node, kind, first, second, choice) ==
    [p EXCEPT !.nodes[node] = [@ EXCEPT !.active = FALSE, !.kind = kind, !.first = first,
                                        !.second = second, !.choice = choice],
              !.elimination_order = Append(@, node)]

(* accel_cost_add of a vector of additions to a node's unary costs.        *)
AddToUnary(p, node, added) ==
    [p EXCEPT !.nodes[node].unary =
        [v \in Values |-> IF v < p.nodes[node].domain THEN CostAdd(@[v], added[v]) ELSE @[v]]]

Deactivate(p, S) ==
    [p EXCEPT !.edges = [e \in Slots |-> IF e \in S THEN [@[e] EXCEPT !.active = FALSE]
                                         ELSE @[e]],
              !.edge_count = @ - Cardinality(S)]

ReduceR0(p, node) ==
    LET unary == p.nodes[node].unary
        best  == FirstMin(unary, p.nodes[node].domain)
    IN  Returns("OK",
            Eliminate([Bump(p, "r0") EXCEPT !.objective_offset = CostAdd(@, unary[best])],
                      node, "R0", -1, -1, <<best>>))

(* histogram counts the primitives of length domain a call records, which  *)
(* it does before it submits them.                                         *)
Recorded(p, count) == [p EXCEPT !.statistics.histogram = @ + count]

(* Mutant: the neighbour is charged before the kernel's status is known.   *)
R1ChargesBeforeStatus(p, node, e, fault) ==
    LET m      == OtherNode(p.edges[e], node)
        n      == p.nodes[node]
        job    == [v \in Values |-> Min2(n.unary, EdgeView(p.edges[e], node, v), n.domain)]
        added  == AddToUnary(p, m, [v \in Values |-> job[v].value])
    IN  IF fault = "alloc" THEN Returns("CAPACITY_ERROR", p)
        ELSE IF fault = "kernel" THEN Returns("KERNEL_ERROR", added)
        ELSE Returns("OK", Eliminate(Deactivate(Bump(added, "r1"), {e}), node, "R1", m, -1,
                                     [v \in 1 .. p.nodes[m].domain |-> job[v - 1].index]))

(* R1 folds a node into its only neighbour: for each value of the          *)
(* neighbour, the node's best reply and its cost.                          *)
ReduceR1(p, node, e, fault) ==
    LET edge   == p.edges[e]
        m      == OtherNode(edge, node)
        n      == p.nodes[node]
        jobs   == 0 .. p.nodes[m].domain - 1
        job    == [v \in jobs |-> Min2(n.unary, EdgeView(edge, node, v), n.domain)]
        tried  == Recorded(p, p.nodes[m].domain)
        folded == AddToUnary(tried, m, [v \in Values |-> IF v \in jobs THEN job[v].value ELSE 0])
    IN  IF fault = "alloc" THEN Returns("CAPACITY_ERROR", p)
        ELSE IF fault = "kernel" \/ \E v \in jobs : ~job[v].ok
             THEN Returns("KERNEL_ERROR", tried)
        ELSE Returns("OK",
                Eliminate(Deactivate(Bump(folded, "r1"), {e}), node, "R1", m, -1,
                          [i \in 1 .. p.nodes[m].domain |-> job[i - 1].index]))

(* Mutant: the matrix a deactivated edge left in the slot is kept.         *)
AddFillEdgeKeepingCosts(p, first, second) ==
    [p EXCEPT !.edge_count = @ + 1,
              !.edges[Least(FreeSlots(p))] =
                  [@ EXCEPT !.active = TRUE, !.first = first, !.second = second]]

(* AddFillEdge zeroes the whole matrix of the first free slot, where there *)
(* is one.                                                                 *)
AddFillEdge(p, first, second) ==
    [p EXCEPT !.edge_count = @ + 1,
              !.edges[Least(FreeSlots(p))] =
                  [active |-> TRUE, first |-> first, second |-> second,
                   cost |-> [v \in Values |-> Zeroes]]]

(* The results of R2 go to the edge between m and k, which may have been   *)
(* there before with its ends the other way round.                         *)
AddToEdge(p, e, m, k, job) ==
    [p EXCEPT !.edges[e].cost =
        [v \in Values |-> [w \in Values |->
            LET i == IF p.edges[e].first = m THEN v ELSE w
                j == IF p.edges[e].second = k THEN w ELSE v
            IN  IF i < p.nodes[m].domain /\ j < p.nodes[k].domain
                THEN CostAdd(@[v][w], job[i][j].value) ELSE @[v][w]]]]

(* R2 folds a node into the edge between its two neighbours m and k.  The  *)
(* edge is found or made first, and stays when the call then fails.  With  *)
(* vector the kernel takes one job per value of m, else one per pair.      *)
ReduceR2(p, node, e, f, vector, fault) ==
    LET n     == p.nodes[node]
        m     == OtherNode(p.edges[e], node)
        k     == OtherNode(p.edges[f], node)
        dm    == p.nodes[m].domain
        dk    == p.nodes[k].domain
        found == FindEdge(p, m, k)
        q     == IF found # {} THEN p ELSE AddFillEdge(p, m, k)
        fill  == Least(IF found # {} THEN found ELSE FreeSlots(p))
        job   == [v \in 0 .. dm - 1 |-> [w \in 0 .. dk - 1 |->
                     Min3(n.unary, EdgeView(p.edges[e], node, v),
                          EdgeView(p.edges[f], node, w), n.domain)]]
        tried == Recorded(q, IF vector THEN dm ELSE dm * dk)
        joined == AddToEdge(tried, fill, m, k, job)
    IN  IF found = {} /\ FreeSlots(p) = {} THEN Returns("CAPACITY_ERROR", p)
        ELSE IF fault = "alloc" THEN Returns("CAPACITY_ERROR", q)
        ELSE IF fault = "kernel" \/ \E v \in 0 .. dm - 1, w \in 0 .. dk - 1 : ~job[v][w].ok
             THEN Returns("KERNEL_ERROR", tried)
        ELSE Returns("OK",
                Eliminate(Deactivate(Bump(joined, "r2"), {e, f}), node, "R2", m, k,
                          [i \in 1 .. dm * dk |->
                              job[(i - 1) \div dk][(i - 1) % dk].index]))

(* The reduction the degree of a node calls for.                           *)
ReduceNode(p, node, vector, fault) ==
    LET E  == EdgesOf(p, node)
        r1 == [e \in E |-> ReduceR1(p, node, e, fault)]
        r2 == [e \in E |-> [f \in E |-> ReduceR2(p, node, e, f, vector, fault)]]
    IN  CASE E = {} -> ReduceR0(p, node)
          [] Cardinality(E) = 1 -> r1[Least(E)]
          [] OTHER -> r2[Least(E)][Greatest(E)]

(* What fixing node to choice makes of the unary costs of m: for every     *)
(* edge between them, in slot order, the row of the choice is added.       *)
Charged(p, node, choice, m) ==
    [v \in Values |->
        IF v >= p.nodes[m].domain THEN p.nodes[m].unary[v]
        ELSE CostSum(p.nodes[m].unary[v], EdgeCapacity,
                LAMBDA e : IF e \in FindEdge(p, node, m)
                           THEN ConditionedEdgeView(p.edges[e], node, choice)[v] ELSE 0)]

(* ConditionNode fixes a node: its unary cost goes to the offset, the      *)
(* costs of its edges to the neighbours.                                   *)
ConditionNode(p, node, choice, kind) ==
    IF ~p.nodes[node].active \/ choice >= p.nodes[node].domain
    THEN Returns("ARGUMENT_ERROR", p)
    ELSE Returns("OK",
            Eliminate([Deactivate(Bump(p, "conditions"), EdgesOf(p, node)) EXCEPT
                           !.nodes = [m \in NodeIds |->
                               IF m # node
                               THEN [@[m] EXCEPT !.unary = Charged(p, node, choice, m)]
                               ELSE @[m]],
                           !.objective_offset = CostAdd(@, p.nodes[node].unary[choice])],
                      node, kind, -1, -1, <<choice>>))

(* The scores of RN: a node's unary costs plus, for every edge in slot     *)
(* order, the best reply of the neighbour.  The host accumulates with      *)
(* accel_cost_add, the kernel on the vector path with the checked addition.*)
RnScores(p, node, checked) ==
    LET n == p.nodes[node]
        reply(e, v) == LET m == p.nodes[OtherNode(p.edges[e], node)]
                       IN  Min2(ConditionedEdgeView(p.edges[e], node, v), m.unary, m.domain)
        score == [v \in 0 .. n.domain - 1 |->
                     FoldCosts(LAMBDA x, y : IF checked THEN CostAddChecked(x, y) ELSE CostAdd(x, y),
                               n.unary[v], EdgeCapacity,
                               LAMBDA e : IF Touches(p.edges[e], node) THEN reply(e, v).value
                                          ELSE 0)]
    IN  [ok |-> \A v \in 0 .. n.domain - 1 : /\ score[v] # CostError
                                             /\ \A e \in EdgesOf(p, node) : reply(e, v).ok,
         scores |-> score]

HostScores(p, node) == RnScores(p, node, FALSE)
VectorScores(p, node) == RnScores(p, node, TRUE)

(* ReduceRN counts itself before it asks the kernel, then commits to the   *)
(* first value of least score.  All scalar jobs of a node go in one batch  *)
(* here; with one batch per edge (PBQP_RN_BATCH_PER_EDGE) a failing call   *)
(* leaves the counts of fewer edges, and the same problem.                 *)
ReduceRN(p, node, vector, fault) ==
    LET n      == p.nodes[node]
        result == IF vector THEN VectorScores(p, node) ELSE HostScores(p, node)
        E      == EdgesOf(p, node)
        tried  == Recorded(Bump(p, "rn"), IF vector THEN 2 * Cardinality(E)
                                          ELSE n.domain * Cardinality(E))
    IN  IF fault = "alloc" THEN Returns("CAPACITY_ERROR", p)
        ELSE IF fault = "kernel" \/ ~result.ok THEN Returns("KERNEL_ERROR", tried)
        ELSE ConditionNode(tried, node, FirstMin(result.scores, n.domain), "RN")

-----------------------------------------------------------------------------
(* Bounds and reconstruction.                                              *)

(* Mutant: what is left is taken to cost nothing, as it would at best if   *)
(* no cost were negative.                                                  *)
BoundOfNothing(p) == 0

(* RemainingCoreLowerBound: the least cost of every active node and edge.  *)
RemainingCoreLowerBound(p) ==
    CostSum(0, NodeCapacity + EdgeCapacity,
        LAMBDA i :
            IF i < NodeCapacity
            THEN LET n == p.nodes[i]
                 IN  IF n.active THEN Least({n.unary[v] : v \in 0 .. n.domain - 1}) ELSE 0
            ELSE LET e == p.edges[i - NodeCapacity]
                 IN  IF e.active
                     THEN Least({e.cost[v][w] : v \in 0 .. p.nodes[e.first].domain - 1,
                                                w \in 0 .. p.nodes[e.second].domain - 1})
                     ELSE 0)

(* The value of an eliminated node, given those of its neighbours.         *)
Reply(p, node, a) ==
    LET n == p.nodes[node]
    IN  CASE n.kind = "R1" -> n.choice[a[n.first] + 1]
          [] n.kind = "R2" -> n.choice[a[n.first] * p.nodes[n.second].domain + a[n.second] + 1]
          [] OTHER -> n.choice[1]

(* ReconstructSolution: from the last elimination to the first, each node  *)
(* takes the reply recorded for the values of its neighbours.              *)
ReconstructSolution(p, a) ==
    LET order == p.elimination_order
        given[i \in 0 .. Len(order), b \in [NodeIds -> Values]] ==
            IF i = 0 THEN b
            ELSE given[i - 1, [b EXCEPT ![order[i]] = Reply(p, order[i], b)]]
    IN  given[Len(order), a]
=============================================================================
