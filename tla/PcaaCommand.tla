---------------------------- MODULE PcaaCommand ----------------------------
(***************************************************************************)
(* Semantic commands, their validation and their wire form                 *)
(* (pcaalib/src/pcaa.c, pcaalib/src/codec.c).                              *)
(*                                                                         *)
(* The unit of address is a cell of four bytes, the size of a cost: a cost *)
(* takes one cell, a value/index pair and a batch record two, the common   *)
(* header two, and the 32, 48 and 64 byte encodings 8, 12 and 16.          *)
(***************************************************************************)
EXTENDS Integers, Sequences

CONSTANTS MaxAddr,   \* UINT64_MAX, the largest address
          Max16,     \* UINT16_MAX, the largest dimension or stride
          Max32      \* UINT32_MAX, the largest child count or stream length

ASSUME WidthAssumption == /\ MaxAddr \in Nat \ {0}
                          /\ Max16 \in Nat \ {0}
                          /\ Max32 \in Nat \ {0}

HeaderCells == 2     \* ACCEL_COMMAND_HEADER_BYTES
SlotCells   == 4     \* ACCEL_COMMAND_SLOT_BYTES
MaxCells    == 16    \* ACCEL_COMMAND_MAX_BYTES
PairCells   == 2     \* sizeof(accel_batch_result_t), sizeof(accel_min_argmin_result_t)

Reduce2Kinds == {"reduce2", "reduce2_argmin"}
Reduce3Kinds == {"reduce3", "reduce3_argmin"}
ReduceKinds  == Reduce2Kinds \cup Reduce3Kinds
Kinds        == ReduceKinds \cup {"vector_add", "project", "map3", "batch"}

-----------------------------------------------------------------------------
(* Views and commands.                                                     *)

Vec(base, length, stride) == [base |-> base, length |-> length, stride |-> stride]
NoVec == Vec(0, 0, 0)

Mat(base, rows, columns, row_stride, column_stride) ==
    [base |-> base, rows |-> rows, columns |-> columns,
     row_stride |-> row_stride, column_stride |-> column_stride]
NoMat == Mat(0, 0, 0, 0, 0)

Out(base, length, stride, kind) ==
    [base |-> base, length |-> length, stride |-> stride, kind |-> kind]
OutWidth(kind) == IF kind = "pair" THEN PairCells ELSE 1

(* A primitive: up to three vectors, a matrix and an output view.  The     *)
(* scalar result of a reduction is a view of length one.                   *)
Primitive(kind, a, b, c, m, out) ==
    [kind |-> kind, a |-> a, b |-> b, c |-> c, m |-> m, out |-> out]

ScalarOut(kind, result) ==
    Out(result, 1, 1, IF kind \in {"reduce2_argmin", "reduce3_argmin"}
                      THEN "pair" ELSE "cost")

Reduce2(kind, a, b, result) ==
    Primitive(kind, a, b, NoVec, NoMat, ScalarOut(kind, result))
Reduce3(kind, a, b, c, result) ==
    Primitive(kind, a, b, c, NoMat, ScalarOut(kind, result))
VectorAdd(a, b, out)   == Primitive("vector_add", a, b, NoVec, NoMat, out)
Project(m, a, out)     == Primitive("project", a, NoVec, NoVec, m, out)
Map3Project(a, b, m, out) == Primitive("map3", a, b, NoVec, m, out)
OrderedBatch(stream, count, bytes, result) ==
    [kind |-> "batch", stream |-> stream, count |-> count, bytes |-> bytes,
     result |-> result]

(* The commands a program can build with the types of pcaa.h.              *)
VectorViews == [base : Nat, length : Nat, stride : Nat]
MatrixViews == [base : Nat, rows : Nat, columns : Nat, row_stride : Nat, column_stride : Nat]
OutputViews == [base : Nat, length : Nat, stride : Nat, kind : {"cost", "pair"}]

IsPrimitive(cmd) ==
    /\ cmd \in [kind : Kinds \ {"batch"}, a : VectorViews, b : VectorViews, c : VectorViews,
                m : MatrixViews, out : OutputViews]
    /\ cmd.kind \in ReduceKinds => cmd.out = ScalarOut(cmd.kind, cmd.out.base)
    /\ cmd.kind = "project" => cmd.b = NoVec
    /\ cmd.kind \notin Reduce3Kinds => cmd.c = NoVec
    /\ cmd.kind \notin {"project", "map3"} => cmd.m = NoMat

IsBatch(cmd) == cmd \in [kind : {"batch"}, stream : Nat, count : Nat, bytes : Nat, result : Nat]

-----------------------------------------------------------------------------
(* Address spans.                                                          *)

(* Mutant: the element width forgotten in the limit of the last offset.    *)
SpanEndLoose(base, rows, columns, outer_stride, inner_stride, width) ==
    LET outer == (rows - 1) * outer_stride
        inner == (columns - 1) * inner_stride
    IN  IF \/ base = 0 \/ rows = 0 \/ columns = 0 \/ inner_stride = 0
           \/ rows > 1 /\ outer_stride = 0
           \/ base > MaxAddr - width
           \/ outer + inner > MaxAddr - base - width
        THEN 0 ELSE base + (outer + inner + 1) * width

(* span(): the exclusive end of an affine view, or 0 for "no such view".   *)
SpanEnd(base, rows, columns, outer_stride, inner_stride, width) ==
    LET outer == (rows - 1) * outer_stride
        inner == (columns - 1) * inner_stride
    IN  IF \/ base = 0 \/ rows = 0 \/ columns = 0 \/ inner_stride = 0
           \/ rows > 1 /\ outer_stride = 0
           \/ outer > MaxAddr - inner
           \/ base > MaxAddr - width
           \/ outer + inner > (MaxAddr - base - width) \div width
        THEN 0 ELSE base + (outer + inner + 1) * width

Overlaps(first, first_end, second, second_end) ==
    first < second_end /\ second < first_end

VecEnd(v)  == SpanEnd(v.base, 1, v.length, 0, v.stride, 1)
MatEnd(m)  == SpanEnd(m.base, m.rows, m.columns, m.row_stride, m.column_stride, 1)
OutEnd(o)  == SpanEnd(o.base, 1, o.length, 0, o.stride, OutWidth(o.kind))

(* The cell of element i of a vector or a matrix, and the first cell of    *)
(* output element i: where a command really loads and stores.              *)
VecAddr(v, i) == v.base + i * v.stride
MatAddr(m, row, column) == m.base + row * m.row_stride + column * m.column_stride
OutAddr(cmd, i) == cmd.out.base + i * cmd.out.stride * OutWidth(cmd.out.kind)

-----------------------------------------------------------------------------
(* Validation.                                                             *)

Fits16(values) == \A v \in values : v <= Max16

AliasesFirst(cmd)  == cmd.out.base = cmd.a.base /\ cmd.out.stride = cmd.a.stride
AliasesSecond(cmd) == cmd.out.base = cmd.b.base /\ cmd.out.stride = cmd.b.stride

(* The numbers a kind stores in 16-bit fields of its descriptor.           *)
Halves(cmd) ==
    CASE cmd.kind \in ReduceKinds  -> {cmd.a.length}
      [] cmd.kind = "vector_add"   -> {cmd.a.length, cmd.a.stride, cmd.b.stride, cmd.out.stride}
      [] cmd.kind = "project"      -> {cmd.m.rows, cmd.m.columns, cmd.m.row_stride,
                                       cmd.m.column_stride, cmd.a.stride, cmd.out.stride}
      [] cmd.kind = "map3"         -> {cmd.m.rows, cmd.m.columns, cmd.a.stride, cmd.b.stride,
                                       cmd.m.row_stride, cmd.m.column_stride, cmd.out.stride}

ReduceShape(cmd) ==
    /\ cmd.a.stride = 1 /\ cmd.b.stride = 1 /\ cmd.b.length = cmd.a.length
    /\ VecEnd(cmd.a) # 0 /\ VecEnd(cmd.b) # 0 /\ OutEnd(cmd.out) # 0
    /\ cmd.kind \in Reduce3Kinds =>
         cmd.c.stride = 1 /\ cmd.c.length = cmd.a.length /\ VecEnd(cmd.c) # 0

(* Mutant: the overlap of the output with the second operand unchecked.    *)
VectorAddShapeLoose(cmd) ==
    LET end == OutEnd(cmd.out)
    IN  /\ cmd.b.length = cmd.a.length /\ cmd.out.length = cmd.a.length
        /\ cmd.out.kind = "cost"
        /\ VecEnd(cmd.a) # 0 /\ VecEnd(cmd.b) # 0 /\ end # 0
        /\ Overlaps(cmd.out.base, end, cmd.a.base, VecEnd(cmd.a)) => AliasesFirst(cmd)

VectorAddShape(cmd) ==
    LET end == OutEnd(cmd.out)
    IN  /\ cmd.b.length = cmd.a.length /\ cmd.out.length = cmd.a.length
        /\ cmd.out.kind = "cost"
        /\ VecEnd(cmd.a) # 0 /\ VecEnd(cmd.b) # 0 /\ end # 0
        /\ Overlaps(cmd.out.base, end, cmd.a.base, VecEnd(cmd.a)) => AliasesFirst(cmd)
        /\ Overlaps(cmd.out.base, end, cmd.b.base, VecEnd(cmd.b)) => AliasesSecond(cmd)

ProjectShape(cmd) ==
    LET end == OutEnd(cmd.out)
    IN  /\ cmd.m.columns = cmd.a.length /\ cmd.m.rows = cmd.out.length
        /\ cmd.out.kind = "cost"
        /\ MatEnd(cmd.m) # 0 /\ VecEnd(cmd.a) # 0 /\ end # 0
        /\ ~Overlaps(cmd.out.base, end, cmd.m.base, MatEnd(cmd.m))
        /\ ~Overlaps(cmd.out.base, end, cmd.a.base, VecEnd(cmd.a))

Map3Shape(cmd) ==
    LET end == OutEnd(cmd.out)
    IN  /\ cmd.a.length = cmd.m.columns /\ cmd.b.length = cmd.m.columns
        /\ cmd.out.length = cmd.m.rows /\ cmd.out.kind = "pair"
        /\ VecEnd(cmd.a) # 0 /\ VecEnd(cmd.b) # 0 /\ MatEnd(cmd.m) # 0 /\ end # 0
        /\ ~Overlaps(cmd.out.base, end, cmd.a.base, VecEnd(cmd.a))
        /\ ~Overlaps(cmd.out.base, end, cmd.b.base, VecEnd(cmd.b))
        /\ ~Overlaps(cmd.out.base, end, cmd.m.base, MatEnd(cmd.m))

BatchShape(cmd) ==
    /\ cmd.count # 0 /\ cmd.bytes # 0 /\ cmd.bytes % SlotCells = 0
    /\ cmd.stream # 0 /\ cmd.result # 0
    /\ cmd.bytes <= MaxAddr - cmd.stream
    /\ PairCells <= MaxAddr - cmd.result

Verdict(inRange, shaped) ==
    IF ~inRange THEN "RANGE" ELSE IF shaped THEN "OK" ELSE "INVALID_COMMAND"

ValidCommand(cmd) ==
    CASE cmd.kind \in ReduceKinds -> Verdict(Fits16(Halves(cmd)), ReduceShape(cmd))
      [] cmd.kind = "vector_add"  -> Verdict(Fits16(Halves(cmd)), VectorAddShape(cmd))
      [] cmd.kind = "project"     -> Verdict(Fits16(Halves(cmd)), ProjectShape(cmd))
      [] cmd.kind = "map3"        -> Verdict(Fits16(Halves(cmd)), Map3Shape(cmd))
      [] cmd.kind = "batch"       -> Verdict(cmd.count <= Max32 /\ cmd.bytes <= Max32,
                                             BatchShape(cmd))
      [] OTHER                    -> "INVALID_COMMAND"

(* pcaa_output_overlaps: does an element the command stores meet           *)
(* begin..end-1?  A malformed view is reported as overlapping.             *)
OutputOverlaps(cmd, begin, end) ==
    \/ cmd.kind = "batch" \/ begin > end
    \/ ~(OutEnd(cmd.out) # 0 /\ Fits16({cmd.out.length, cmd.out.stride}))
    \/ \E i \in 0..cmd.out.length - 1 :
         Overlaps(OutAddr(cmd, i), OutAddr(cmd, i) + OutWidth(cmd.out.kind), begin, end)
=============================================================================
