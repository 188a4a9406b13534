--------------------------- MODULE MCPbqpOffload ---------------------------
(***************************************************************************)
(* An instance of PbqpOffload: a node of two values at cells 1 and 2, two  *)
(* edge matrices at 3 and 7, results from 11, scores at 19, temporaries at *)
(* 21 and 23, values at 25; scratch from 27, three packed views from 33,   *)
(* guest memory from 40.                                                   *)
(***************************************************************************)
EXTENDS PbqpOffload

MCMinInt == -9
MCRam    == 1..159
MCWires  == <<Encode(Reduce2("reduce2", Vec(1, 2, 1), Vec(3, 2, 1), 25))>>
MCCaller == 1..26
MCImages == {[x \in MCRam |-> IF x = 4 THEN Inf ELSE IF x <= 10 THEN (3 * x) % 7 ELSE 0]}

Unary  == Vec(1, 2, 1)
Column(base, i) == Vec(base + i, 2, 2)      \* one slice of an edge, strided
Row(base, i)    == Vec(base + 2 * i, 2, 1)
Rows(base)      == Mat(base, 2, 2, 2, 1)
Columnwise(base) == Mat(base, 2, 2, 1, 2)   \* the transposed view

Call(op, jobs) == [op |-> op, jobs |-> jobs]
R1(i)     == Reduce2("reduce2_argmin", Column(3, i), Unary, 11 + 2 * i)
R2(i, j)  == Reduce3("reduce3_argmin", Unary, Column(3, i), Column(7, j), 11 + 4 * i + 2 * j)
RN(i)     == Reduce2("reduce2", Row(3, i), Unary, 25 + i)
Vector(m, temporary) == ProjectAdd(m, Unary, temporary, 19)

(* The calls of R1, R2 and RN, scalar and vector, one by one and in        *)
(* batches; batches with a packed view, a job or a pair of jobs too many.  *)
MCCalls ==
    {Call("min2_batch", <<R1(0), R1(1)>>),
     Call("min3_batch", <<R2(0, 0), R2(0, 1)>>),
     Call("min3_batch", <<R2(0, 0), R2(0, 1), R2(1, 0), R2(1, 1)>>),
     Call("min2_value_batch", <<RN(0), RN(1)>>),
     Call("min2_batch", <<R1(0), R1(1), R1(0), R1(1), R1(0)>>),
     Call("min2", <<Reduce2("reduce2_argmin", Column(3, 0), Column(7, 1), 11)>>),
     Call("min3", <<Reduce3("reduce3_argmin", Column(3, 0), Column(7, 1), Column(3, 1), 11)>>),
     Call("min2_value", <<Reduce2("reduce2", Column(3, 1), Unary, 25)>>),
     Call("map3_project_batch",
          <<Map3Project(Unary, Column(3, 0), Columnwise(7), Out(11, 2, 1, "pair")),
            Map3Project(Unary, Column(3, 1), Columnwise(7), Out(15, 2, 1, "pair"))>>),
     Call("map3_project", <<Map3Project(Unary, Row(3, 0), Rows(7), Out(11, 2, 1, "pair"))>>),
     Call("project_add_batch", <<Vector(Rows(3), 21), Vector(Columnwise(7), 23)>>),
     Call("project_add_batch", <<Vector(Rows(3), 21), Vector(Rows(7), 23), Vector(Rows(3), 21)>>),
     Call("cost_add_vector", <<VectorAdd(Column(3, 0), Vec(19, 2, 1), Out(25, 2, 1, "cost"))>>),
     Call("minplus_project", <<Project(Columnwise(3), Unary, Out(25, 2, 1, "cost"))>>)}

Fault(r, w) == [read |-> r, write |-> w]
MCFaults == {Fault({}, {}), Fault({8}, {}), Fault({}, {13})}
=============================================================================
