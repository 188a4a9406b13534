--------------------------- MODULE MCPbqpInputs -----------------------------
(***************************************************************************)
(* Small PBQP instances as sequences of building calls.  Costs come from a *)
(* table indexed by a seed, so that the extremes (the greatest finite cost *)
(* of both signs, the infinite cost) and ties meet in many combinations.   *)
(***************************************************************************)
EXTENDS Integers, Sequences

Pick(inf, big, seed, i) ==
    LET table == <<0, big, -big, 1, inf, 2, -1, big, 1, -2, 3>>
    IN  table[((seed * seed * 3 + seed * 7 + i * 5 + i * seed) % Len(table)) + 1]

NodeCall(d, inf, big, seed, n) ==
    [op |-> "node", domain |-> d,
     unary |-> [v \in 0 .. 2 |-> Pick(inf, big, seed, 3 * n + v)]]

EdgeCall(a, b, inf, big, seed) ==
    [op |-> "edge", first |-> a, second |-> b,
     costs |-> [v \in 0 .. 2 |-> [w \in 0 .. 2 |->
                  Pick(inf, big, seed, 13 + 17 * a + 29 * b + 3 * v + w)]]]

(* A graph is the domains of its nodes and its edges in slot order.        *)
Script(graph, inf, big, seed) ==
    [i \in 1 .. Len(graph.domains) |-> NodeCall(graph.domains[i], inf, big, seed, i - 1)]
        \o [i \in 1 .. Len(graph.edges) |->
              EdgeCall(graph.edges[i][1], graph.edges[i][2], inf, big, seed)]

(* A ring of five, and the same with a chord; a point; a path; a triangle  *)
(* with a tail, whose fill edge is there already, the other way round; a   *)
(* ring of four, whose fill edge is new; the complete graph, which no      *)
(* reduction touches; the same with uneven domains.                        *)
Pentagon == [domains |-> <<2, 2, 2, 2, 2>>,
             edges |-> <<<<0, 1>>, <<2, 1>>, <<2, 3>>, <<4, 3>>, <<4, 0>>>>]
House    == [domains |-> <<2, 2, 1, 2, 2>>,
             edges |-> <<<<0, 1>>, <<2, 1>>, <<2, 3>>, <<4, 3>>, <<4, 0>>, <<3, 1>>>>]
Point    == [domains |-> <<2>>, edges |-> <<>>]
Path     == [domains |-> <<2, 3, 1>>, edges |-> <<<<1, 0>>, <<1, 2>>>>]
Triangle == [domains |-> <<2, 2, 3, 2>>, edges |-> <<<<0, 1>>, <<2, 0>>, <<2, 1>>, <<3, 2>>>>]
Ring     == [domains |-> <<2, 2, 3, 2>>, edges |-> <<<<0, 1>>, <<3, 0>>, <<2, 1>>, <<2, 3>>>>]
Complete == [domains |-> <<2, 2, 2, 2>>,
             edges |-> <<<<0, 1>>, <<0, 2>>, <<3, 0>>, <<2, 1>>, <<1, 3>>, <<2, 3>>>>]
Uneven   == [domains |-> <<3, 1, 2, 2>>,
             edges |-> <<<<1, 0>>, <<0, 2>>, <<0, 3>>, <<1, 2>>, <<3, 1>>, <<3, 2>>>>]
=============================================================================
