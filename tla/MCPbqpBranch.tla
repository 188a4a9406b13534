---------------------------- MODULE MCPbqpBranch ----------------------------
(* Instances of PbqpBranch: complete graphs of four and five nodes, where  *)
(* the search branches once and twice on a path, and a ring that needs     *)
(* none.  A copy of the problem has 920 bytes; the starts leave the        *)
(* workspace room for two, one or no copy, or end it between two objects.  *)
EXTENDS PbqpBranch, MCPbqpInputs

MCMinInt == -256

Five == [domains |-> <<2, 2, 2, 2, 2>>,
         edges |-> <<<<0, 1>>, <<0, 2>>, <<3, 0>>, <<2, 1>>, <<1, 3>>, <<2, 3>>,
                     <<4, 0>>, <<1, 4>>, <<4, 2>>, <<3, 4>>>>]

(* Every pair of nodes prefers the values that are tried last: costs are   *)
(* negative there, and the best solution is in the last branch.            *)
Slanted == [i \in 1 .. 5 |-> [op |-> "node", domain |-> 2, unary |-> [v \in 0 .. 2 |-> 0]]]
           \o [i \in 1 .. 10 |->
                 [op |-> "edge", first |-> Five.edges[i][1], second |-> Five.edges[i][2],
                  costs |-> [v \in 0 .. 2 |-> [w \in 0 .. 2 |-> IF v * w = 1 THEN -1 ELSE 1]]]]

(* The problem a script of building calls makes.                           *)
Built(script) ==
    LET made[i \in 0 .. Len(script)] ==
            IF i = 0 THEN EmptyProblem
            ELSE LET call == script[i]
                 IN  IF call.op = "node" THEN AddNode(made[i - 1], call.domain, call.unary).problem
                     ELSE AddEdge(made[i - 1], call.first, call.second, call.costs).problem
    IN  made[Len(script)]

MCInputs == {Built(Script(Five, 64, 4, seed)) : seed \in {3, 4, 6, 7}}
            \cup {Built(Script(Complete, 64, 4, seed)) : seed \in {1, 2}}
            \cup {Built(Script(Ring, 64, 4, 1)), Built(Slanted)}

MCConfigs == {[policy |-> "MIN_DEGREE", limit |-> 0, vector |-> FALSE],
              [policy |-> "MAX_DEGREE", limit |-> 0, vector |-> TRUE],
              [policy |-> "MIN_WORK", limit |-> 3, vector |-> FALSE]}
=============================================================================
