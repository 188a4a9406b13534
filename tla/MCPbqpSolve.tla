--------------------------- MODULE MCPbqpSolve ------------------------------
(* Instances of PbqpSolve.  Inf = 34 and eleven terms (five nodes, six     *)
(* slots) make pbqp_max_finite_cost three, with no room to spare.  The     *)
(* house and the complete graph use every slot.                            *)
EXTENDS PbqpSolve, MCPbqpInputs

MCMinInt == -136

(* Calls that must be refused: an edge that is there already the other way *)
(* round, a self-loop, an edge to no node, an empty domain; costs over the *)
(* bound; an edge or a node too many.                                      *)
Refusals == <<EdgeCall(1, 0, 34, 3, 1), EdgeCall(2, 2, 34, 3, 1), EdgeCall(0, 9, 34, 3, 1),
              [op |-> "node", domain |-> 0, unary |-> [v \in 0 .. 2 |-> 0]]>>

MCScripts ==
    {Script(g, 34, 3, seed) : g \in {Path, Triangle, Ring}, seed \in {1, 2, 4}}
        \cup {Script(g, 34, 3, seed) : g \in {Complete, Uneven, Pentagon, House}, seed \in {1, 5}}
        \cup {Script(Ring, 34, 3, 7) \o Refusals, Script(Point, 34, 3, 1),
              Script(Complete, 34, 6, 3),
              Script(House, 34, 3, 2) \o <<EdgeCall(0, 3, 34, 3, 1), NodeCall(2, 34, 3, 1, 0)>>}
=============================================================================
