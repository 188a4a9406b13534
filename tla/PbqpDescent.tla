---------------------------- MODULE PbqpDescent -----------------------------
(***************************************************************************)
(* The local search of the PBQP solver: RunLocalDescent visits the nodes   *)
(* in turn and moves each to its best value given the values of the        *)
(* others, until a whole sweep changes nothing.  SolveLocalSearch starts   *)
(* it from the zero assignment and then, for every node and value, from    *)
(* what the descent before left with that node set to the value.           *)
(***************************************************************************)
EXTENDS PbqpReductions

(* The scores of a node: its unary costs plus, for every edge, the slice   *)
(* the neighbour's value selects.                                          *)
LocalScores(p, a, node) ==
    [v \in 0 .. p.nodes[node].domain - 1 |->
        CostSum(p.nodes[node].unary[v], EdgeCapacity,
            LAMBDA e : IF Touches(p.edges[e], node)
                       THEN LET m == OtherNode(p.edges[e], node)
                            IN  ConditionedEdgeView(p.edges[e], m, a[m])[v]
                       ELSE 0)]

(* Mutant: a value as good as the present one is taken.                    *)
VisitTakingTies(p, a, node) ==
    LET scores == LocalScores(p, a, node)
        best   == Min2(scores, Zeroes, p.nodes[node].domain)
        last   == Greatest({v \in DOMAIN scores : scores[v] = best.value})
    IN  [ok |-> best.ok, moved |-> last # a[node], assignment |-> [a EXCEPT ![node] = last]]

(* One visit: the kernel finds the first value of least score, which is    *)
(* taken when it is better than the present one.                           *)
Visit(p, a, node) ==
    LET scores == LocalScores(p, a, node)
        best   == Min2(scores, Zeroes, p.nodes[node].domain)
        moved  == best.value < scores[a[node]]
    IN  [ok |-> best.ok, moved |-> moved,
         assignment |-> IF moved THEN [a EXCEPT ![node] = best.index] ELSE a]

(* A descent: the assignment it works on, the node it visits next and      *)
(* whether this sweep has moved.                                           *)
Descent(a) == [assignment |-> a, node |-> 0, changed |-> FALSE]

AfterVisit(p, d, seen) ==
    LET moved == d.changed \/ seen.moved
        last  == d.node + 1 = p.node_count
    IN  [assignment |-> seen.assignment,
         node |-> IF last /\ moved THEN 0 ELSE d.node + 1,
         changed |-> IF last THEN FALSE ELSE moved]

(* The starts of SolveLocalSearch after the zero assignment, in order.     *)
NextStart(p, start) ==
    LET later == {s \in NodeIds \X Values :
                     /\ s[1] < p.node_count
                     /\ s[2] \in 1 .. p.nodes[s[1]].domain - 1
                     /\ s[1] > start[1] \/ (s[1] = start[1] /\ s[2] > start[2])}
    IN  {s \in later : \A t \in later : s[1] < t[1] \/ (s[1] = t[1] /\ s[2] <= t[2])}

(* The terms an assignment pays: how many are infinite, and the sum of the *)
(* others.  (The saturating total alone does not tell two assignments      *)
(* apart that both have an infinite term.)                                 *)
Terms(p, a) ==
    LET term(i) == IF i < p.node_count THEN p.nodes[i].unary[a[i]]
                   ELSE p.edges[i - p.node_count].cost
                            [a[p.edges[i - p.node_count].first]]
                            [a[p.edges[i - p.node_count].second]]
        paid == (0 .. p.node_count - 1) \cup {p.node_count + e : e \in ActiveEdges(p)}
    IN  [infinite |-> Cardinality({i \in paid : term(i) = Inf}),
         finite   |-> SumOver({i \in paid : term(i) # Inf}, term)]

Lower(s, t) == \/ s.infinite < t.infinite
               \/ s.infinite = t.infinite /\ s.finite < t.finite
=============================================================================
