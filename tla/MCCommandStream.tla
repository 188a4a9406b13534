-------------------------- MODULE MCCommandStream --------------------------
(***************************************************************************)
(* Every shape of every command kind over a few bases, lengths and         *)
(* strides, legal or not, alone and in pairs.                              *)
(***************************************************************************)
EXTENDS CommandStream

Bases   == {0, 3, 5, 18}
Lengths == {0, 2, 4}
Strides == {0, 1, 2, 4}

Vectors(length) == {Vec(b, length, s) : b \in Bases, s \in {1, 2}} \cup {Vec(5, length, 4), Vec(5, length, 0)}
Columns2        == {Vec(b, n, 1) : b \in Bases, n \in Lengths} \cup {Vec(5, 2, 2)}

ReduceCommands ==
    {Reduce2(k, a, b, r) : k \in Reduce2Kinds, a \in Columns2, b \in Columns2, r \in {0, 17, 18}}
    \cup {Reduce3(k, a, b, c, r) : k \in Reduce3Kinds, a \in {Vec(3, 2, 1), Vec(5, 2, 1)},
                                   b \in {Vec(5, 2, 1), Vec(18, 2, 1)}, c \in Columns2, r \in {17, 18}}
AddCommands ==
    {VectorAdd(a, b, Out(r, n, s, "cost")) :
       a \in Vectors(2), b \in Vectors(2), n \in {1, 2}, r \in Bases, s \in Strides}
    \cup {VectorAdd(Vec(3, 4, 1), Vec(5, 4, 1), Out(9, 4, 1, "cost"))}
Matrices == {Mat(b, rows, 2, rs, 1) : b \in {3, 12}, rows \in {1, 2, 4}, rs \in {0, 1, 2, 4}}
ProjectCommands ==
    {Project(m, Vec(v, 2, 1), Out(r, n, s, k)) : m \in Matrices, v \in {3, 10}, r \in {7, 15, 18},
       n \in {1, 2}, s \in {1, 2}, k \in {"cost", "pair"}}
Map3Commands ==
    {Map3Project(Vec(a, 2, 1), Vec(10, 2, 1), m, Out(r, n, s, "pair")) : a \in {5, 8}, m \in Matrices,
       r \in {7, 13, 15}, n \in {1, 2}, s \in {1, 2, 4}}
BatchCommands == {OrderedBatch(4, 2, 16, 12)}

AllCommands == ReduceCommands \cup AddCommands \cup ProjectCommands \cup Map3Commands \cup BatchCommands

(* Pairs: what is refused second must leave nothing of the first behind.   *)
PairCommands == {Reduce2("reduce2", Vec(3, 2, 1), Vec(5, 2, 1), 17),
                 Reduce2("reduce2", Vec(3, 2, 1), Vec(5, 4, 1), 17),
                 VectorAdd(Vec(3, 2, 1), Vec(5, 2, 1), Out(5, 2, 1, "cost")),
                 VectorAdd(Vec(3, 2, 1), Vec(5, 2, 1), Out(9, 2, 1, "cost")),
                 Project(Mat(3, 2, 2, 2, 1), Vec(8, 2, 1), Out(10, 2, 1, "cost")),
                 Map3Project(Vec(3, 2, 1), Vec(5, 2, 1), Mat(7, 2, 2, 2, 1), Out(13, 2, 1, "pair")),
                 OrderedBatch(4, 2, 16, 12)}

MCStreams == {<<>>} \cup {<<c>> : c \in AllCommands}
             \cup {<<c, d>> : c \in PairCommands, d \in PairCommands}
             \cup {<<c, d, c>> : c \in PairCommands, d \in PairCommands}
             \cup {[i \in 1..33 |-> CHOOSE c \in PairCommands : TRUE]}
=============================================================================
