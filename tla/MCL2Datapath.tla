--------------------------- MODULE MCL2Datapath ---------------------------
(***************************************************************************)
(* One command of every kind, and every placement of the output of a       *)
(* vector addition, on devices whose tiles, chunks and lanes divide the    *)
(* data unevenly.                                                          *)
(***************************************************************************)
EXTENDS L2Datapath

MCRam    == 1..40
MCMinInt == -9

A == Vec(1, 4, 1)
B == Vec(6, 4, 2)
C == Vec(15, 4, 1)

MCCandidates ==
    {Reduce2(k, A, C, 38) : k \in Reduce2Kinds}
    \cup {Reduce3("reduce3_argmin", A, C, Vec(20, 4, 1), 38), Reduce3("reduce3", A, C, A, 2)}
    \cup {Project(Mat(20, 3, 4, 1, 3), A, Out(33, 3, 2, "cost")),
          Map3Project(A, B, Mat(20, 3, 4, 4, 1), Out(34, 3, 1, "pair"))}
    \cup {VectorAdd(A, B, Out(r, 4, s, "cost")) : r \in {1, 2, 6, 8, 33}, s \in {1, 2}}

MCWires == <<Encode(Reduce2("reduce2", A, C, 38))>>

(* Columns that tie, that saturate, that are no cost, that underflow.      *)
Patterns == [1..4 -> {0, 1}]
            \cup {[k \in 1..4 |-> Inf], [k \in 1..4 |-> IF k = 4 THEN Inf ELSE 2],
                  [k \in 1..4 |-> IF k = 3 THEN Inf + 1 ELSE 0],
                  [k \in 1..4 |-> IF k = 4 THEN MinInt ELSE 1]}
Image(p) == [x \in MCRam |-> IF x \in 1..4 THEN p[x]
                             ELSE IF x \in 20..31 THEN (x % 3) - 1 ELSE (x \div 7) % 2]
MCImages == {Image(p) : p \in Patterns}

MCConfigs == {[lanes |-> 2, tm |-> 2, tn |-> 3, beat |-> 1],
              [lanes |-> 3, tm |-> 1, tn |-> 4, beat |-> 2],
              [lanes |-> 4, tm |-> 3, tn |-> 2, beat |-> 4]}

Fault(r, w) == [read |-> r, write |-> w]
MCFaults == {Fault({}, {}), Fault({17}, {}), Fault({26}, {}), Fault({10}, {}), Fault({}, {35}),
             Fault({}, {38})}
=============================================================================
