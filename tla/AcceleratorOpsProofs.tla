------------------------ MODULE AcceleratorOpsProofs ------------------------
(***************************************************************************)
(* Lemmas about the operators both device models are written with: the     *)
(* arithmetic of views, the fields of decoded commands, and the loops of   *)
(* the functional model.  What a child does is the value of a recursive    *)
(* function over its outputs, and what a batch does that of one over its   *)
(* children; both are unrolled once here, by a least counterexample, and   *)
(* only their steps are used afterwards.                                   *)
(***************************************************************************)
EXTENDS AcceleratorOps, WellFoundedInduction, TLAPS

-----------------------------------------------------------------------------
(* Affine views.                                                           *)

(* A product is monotone in its first factor.                              *)
LEMMA ProductMonotone ==
  ASSUME NEW i \in Nat, NEW n \in Nat, NEW s \in Nat, i <= n
  PROVE  i * s \in Nat /\ n * s \in Nat /\ i * s <= n * s
  <1>1. i * s \in Nat /\ (n - i) * s \in Nat /\ n * s \in Nat
    OBVIOUS
  <1>2. n * s = i * s + (n - i) * s
    OBVIOUS
  <1>3. QED BY <1>1, <1>2

(* The test of span() divides before it compares: what it admits ends      *)
(* inside the address space, without the sum ever leaving it.              *)
LEMMA SpanEndFits ==
  ASSUME NEW base \in Nat, NEW width \in {1, 2}, NEW offset \in Nat,
         base <= MaxAddr - width, offset <= (MaxAddr - base - width) \div width
  PROVE  base + (offset + 1) * width <= MaxAddr
  <1>1. CASE width = 1 BY <1>1, WidthAssumption
  <1>2. CASE width = 2
    <2>1. MaxAddr - base - 2 \in Nat BY <1>2, WidthAssumption
    <2>2. 2 * ((MaxAddr - base - 2) \div 2) <= MaxAddr - base - 2 BY <2>1
    <2>3. (MaxAddr - base - 2) \div 2 \in Nat BY <2>1
    <2>4. QED BY <1>2, <2>1, <2>2, <2>3, WidthAssumption
  <1>3. QED BY <1>1, <1>2

(* An element of a view: its cells lie between the view's base and its     *)
(* end, and both are addresses other than zero.                            *)
Inside(base, element, width, end) ==
    /\ 0 < element /\ base <= element
    /\ element + width <= end /\ end <= MaxAddr

(* span(): if it gives a view an end, every element of the view, in every  *)
(* row and column and with all of its cells, lies between its base and     *)
(* that end, and the end is an address: no access of an accepted command   *)
(* wraps around, whatever its strides.                                     *)
THEOREM ViewsNeverWrap ==
  ASSUME NEW base \in Nat, NEW rows \in Nat, NEW columns \in Nat,
         NEW outer_stride \in Nat, NEW inner_stride \in Nat, NEW width \in {1, 2},
         NEW end, end = SpanEnd(base, rows, columns, outer_stride, inner_stride, width),
         end # 0,
         NEW r \in Nat, r < rows, NEW c \in Nat, c < columns
  PROVE  Inside(base, base + (r * outer_stride + c * inner_stride) * width, width, end)
  <1> DEFINE outer == (rows - 1) * outer_stride
             inner == (columns - 1) * inner_stride
             ro == r * outer_stride
             ci == c * inner_stride
  <1>1. /\ base # 0 /\ rows # 0 /\ columns # 0
        /\ ~(base > MaxAddr - width)
        /\ ~(outer + inner > (MaxAddr - base - width) \div width)
        /\ end = base + (outer + inner + 1) * width
    BY DEF SpanEnd
  <1>2. ro \in Nat /\ outer \in Nat /\ ro <= outer
    <2>1. rows - 1 \in Nat /\ r <= rows - 1 BY <1>1
    <2>2. QED BY <2>1, ProductMonotone
  <1>3. ci \in Nat /\ inner \in Nat /\ ci <= inner
    <2>1. columns - 1 \in Nat /\ c <= columns - 1 BY <1>1
    <2>2. QED BY <2>1, ProductMonotone
  <1> HIDE DEF outer, inner, ro, ci
  <1>4. base <= MaxAddr - width BY <1>1, WidthAssumption
  <1>5. outer + inner <= (MaxAddr - base - width) \div width
    <2>1. (MaxAddr - base - width) \div width \in Int BY WidthAssumption
    <2>2. QED BY <2>1, <1>1, <1>2, <1>3
  <1>6. end <= MaxAddr BY <1>1, <1>2, <1>3, <1>4, <1>5, SpanEndFits
  <1>7. (ro + ci) * width + width <= (outer + inner + 1) * width
        /\ (ro + ci) * width \in Nat
    <2>1. CASE width = 1 BY <2>1, <1>2, <1>3
    <2>2. CASE width = 2 BY <2>2, <1>2, <1>3
    <2>3. QED BY <2>1, <2>2
  <1>8. (outer + inner + 1) * width \in Nat BY <1>2, <1>3
  <1>9. /\ 0 < base + (ro + ci) * width /\ base <= base + (ro + ci) * width
        /\ base + (ro + ci) * width + width <= end
    BY <1>1, <1>7, <1>8
  <1>10. QED BY <1>6, <1>9 DEF ro, ci, Inside

(* One row: what span() promises of a vector or of an output.              *)
LEMMA RowsNeverWrap ==
    ASSUME NEW base \in Nat, NEW length \in Nat, NEW stride \in Nat, NEW width \in {1, 2},
           NEW end, end = SpanEnd(base, 1, length, 0, stride, width), end # 0,
           NEW c \in Nat, c < length
    PROVE  Inside(base, base + (c * stride) * width, width, end)
<1> DEFINE offset == (length - 1) * stride
           ci == c * stride
<1>1. /\ base # 0 /\ length # 0 /\ ~(base > MaxAddr - width)
      /\ ~((1 - 1) * 0 + offset > (MaxAddr - base - width) \div width)
      /\ end = base + ((1 - 1) * 0 + offset + 1) * width
  BY DEF SpanEnd
<1>2. ci \in Nat /\ offset \in Nat /\ ci <= offset
  <2>1. length - 1 \in Nat /\ c <= length - 1
    BY <1>1
  <2> QED
    BY <2>1, ProductMonotone
<1> HIDE DEF offset, ci
<1>3. base <= MaxAddr - width /\ offset <= (MaxAddr - base - width) \div width
  <2>1. (MaxAddr - base - width) \div width \in Int
    BY WidthAssumption
  <2> QED
    BY <1>1, <1>2, <2>1, WidthAssumption
<1>4. end = base + (offset + 1) * width
  BY <1>1, <1>2
<1>5. end <= MaxAddr
  BY <1>2, <1>3, <1>4, SpanEndFits
<1>6. 0 < base + ci * width /\ base <= base + ci * width /\ base + ci * width + width <= end
  <2>1. CASE width = 1
    BY <1>1, <1>2, <1>4, <2>1
  <2>2. CASE width = 2
    BY <1>1, <1>2, <1>4, <2>2
  <2> QED
    BY <2>1, <2>2
<1> QED
  BY <1>5, <1>6 DEF Inside, ci

(* A valid command fits the 16-bit fields of its descriptor.               *)
LEMMA ValidFits ==
    ASSUME NEW cmd, cmd.kind \in Kinds \ {"batch"}, ValidCommand(cmd) = "OK"
    PROVE  /\ \A v \in Halves(cmd) : v <= Max16
           /\ cmd.kind \in ReduceKinds => ReduceShape(cmd)
           /\ cmd.kind = "vector_add" => VectorAddShape(cmd)
           /\ cmd.kind = "project" => ProjectShape(cmd)
           /\ cmd.kind = "map3" => Map3Shape(cmd)
BY DEF ValidCommand, Verdict, Fits16, Kinds, ReduceKinds, Reduce2Kinds, Reduce3Kinds

-----------------------------------------------------------------------------
(* Descriptors.                                                            *)

(* No descriptor is longer than the longest format.                        *)
LEMMA CellsBound == \A d \in DOMAIN Wires : DescriptorCells(d) \in 0 .. MaxCells
  <1> SUFFICES ASSUME NEW d \in DOMAIN Wires PROVE DescriptorCells(d) \in 0 .. MaxCells
    OBVIOUS
  <1>1. CASE Wires[d].format \in Formats
    BY <1>1 DEF DescriptorCells, WireFormatSize, Formats, FormatCells, MaxCells
  <1>2. CASE Wires[d].format \notin Formats
    BY <1>2 DEF DescriptorCells, WireFormatSize, MaxCells
  <1>3. QED BY <1>1, <1>2

BatchFields(b) == /\ b.stream \in Nat /\ b.count \in Nat
                  /\ b.bytes \in Nat /\ b.result \in Nat

(* A primitive: its views have the types of pcaa.h, and a reduction has    *)
(* one output.                                                             *)
Views(c) == /\ c.kind \in Kinds \ {"batch"} /\ c.out \in OutputViews /\ c.m \in MatrixViews
            /\ c.a \in VectorViews /\ c.b \in VectorViews /\ c.c \in VectorViews
            /\ c.kind \in ReduceKinds => c.out.length = 1 /\ c.out.stride = 1

OutputFields(c) == c.out.base \in Nat /\ c.out.length \in Nat /\ c.out.stride \in Nat

(* What the invariants need to know of a decoded command.                  *)
LEMMA FieldsType ==
  ASSUME NEW d \in DOMAIN Wires, DescriptorCells(d) # 0
  PROVE  IF Fields(Wires[d]).kind = "batch" THEN BatchFields(Fields(Wires[d]))
         ELSE Views(Fields(Wires[d])) /\ OutputFields(Fields(Wires[d]))
  <1> DEFINE wire == Wires[d]
             n == wire.n
             A == Vec(wire.q[1], n, 1)
             B == Vec(wire.q[2], n, 1)
             C == Vec(wire.q[3], n, 1)
             S == Vec(wire.q[1], n, wire.h[1])
             T == Vec(wire.q[2], n, wire.h[2])
             U == Vec(wire.q[2], n, wire.h[3])
             M == Mat(wire.q[1], wire.m, n, wire.h[2], wire.h[1])
             N == Mat(wire.q[3], wire.m, n, wire.h[4], wire.h[3])
  <1>1. wire \in WireRecords
    BY WiresAssumption
  <1>2. wire.format \in 1..9
    BY DEF DescriptorCells, WireFormatSize, Formats
  <1>3. /\ wire.n \in Nat /\ wire.m \in Nat
        /\ wire.q[1] \in Nat /\ wire.q[2] \in Nat /\ wire.q[3] \in Nat /\ wire.q[4] \in Nat
        /\ wire.w[1] \in Nat /\ wire.w[2] \in Nat
        /\ wire.h[1] \in Nat /\ wire.h[2] \in Nat /\ wire.h[3] \in Nat
        /\ wire.h[4] \in Nat /\ wire.h[5] \in Nat
    BY <1>1 DEF WireRecords
  <1>a. CASE wire.format = 1
    <2>1. Fields(wire) = Reduce2("reduce2", A, B, wire.q[3])
      BY <1>a DEF Fields
    <2>2. Fields(wire) = Primitive("reduce2", A, B, NoVec, NoMat, Out(wire.q[3], 1, 1, "cost"))
      BY <2>1 DEF Reduce2, ScalarOut
    <2>3. Fields(wire).kind # "batch" /\ Views(Fields(wire))
      BY <2>2, <1>3 DEF Primitive, Views, Vec, Mat, NoVec, NoMat, Out, VectorViews,
         MatrixViews, OutputViews, Kinds, ReduceKinds, Reduce2Kinds, Reduce3Kinds
    <2>4. QED BY <2>3 DEF Views, OutputFields, OutputViews
  <1>b. CASE wire.format = 2
    <2>1. Fields(wire) = Reduce3("reduce3", A, B, C, wire.q[4])
      BY <1>b DEF Fields
    <2>2. Fields(wire) = Primitive("reduce3", A, B, C, NoMat, Out(wire.q[4], 1, 1, "cost"))
      BY <2>1 DEF Reduce3, ScalarOut
    <2>3. Fields(wire).kind # "batch" /\ Views(Fields(wire))
      BY <2>2, <1>3 DEF Primitive, Views, Vec, Mat, NoVec, NoMat, Out, VectorViews,
         MatrixViews, OutputViews, Kinds, ReduceKinds, Reduce2Kinds, Reduce3Kinds
    <2>4. QED BY <2>3 DEF Views, OutputFields, OutputViews
  <1>c. CASE wire.format = 3
    <2>1. Fields(wire) = Reduce2("reduce2_argmin", A, B, wire.q[3])
      BY <1>c DEF Fields
    <2>2. Fields(wire) = Primitive("reduce2_argmin", A, B, NoVec, NoMat, Out(wire.q[3], 1, 1, "pair"))
      BY <2>1 DEF Reduce2, ScalarOut
    <2>3. Fields(wire).kind # "batch" /\ Views(Fields(wire))
      BY <2>2, <1>3 DEF Primitive, Views, Vec, Mat, NoVec, NoMat, Out, VectorViews,
         MatrixViews, OutputViews, Kinds, ReduceKinds, Reduce2Kinds, Reduce3Kinds
    <2>4. QED BY <2>3 DEF Views, OutputFields, OutputViews
  <1>d. CASE wire.format = 4
    <2>1. Fields(wire) = Reduce3("reduce3_argmin", A, B, C, wire.q[4])
      BY <1>d DEF Fields
    <2>2. Fields(wire) = Primitive("reduce3_argmin", A, B, C, NoMat, Out(wire.q[4], 1, 1, "pair"))
      BY <2>1 DEF Reduce3, ScalarOut
    <2>3. Fields(wire).kind # "batch" /\ Views(Fields(wire))
      BY <2>2, <1>3 DEF Primitive, Views, Vec, Mat, NoVec, NoMat, Out, VectorViews,
         MatrixViews, OutputViews, Kinds, ReduceKinds, Reduce2Kinds, Reduce3Kinds
    <2>4. QED BY <2>3 DEF Views, OutputFields, OutputViews
  <1>f. CASE wire.format = 6
    <2>1. Fields(wire) = VectorAdd(S, T, Out(wire.q[3], n, wire.h[3], "cost"))
      BY <1>f DEF Fields
    <2>2. Fields(wire) = Primitive("vector_add", S, T, NoVec, NoMat, Out(wire.q[3], n, wire.h[3], "cost"))
      BY <2>1 DEF VectorAdd
    <2>3. Fields(wire).kind # "batch" /\ Views(Fields(wire))
      BY <2>2, <1>3 DEF Primitive, Views, Vec, Mat, NoVec, NoMat, Out, VectorViews,
         MatrixViews, OutputViews, Kinds, ReduceKinds, Reduce2Kinds, Reduce3Kinds
    <2>4. QED BY <2>3 DEF Views, OutputFields, OutputViews
  <1>g. CASE wire.format = 7
    <2>1. Fields(wire) = VectorAdd(S, T, Out(wire.q[1], n, wire.h[1], "cost"))
      BY <1>g DEF Fields
    <2>2. Fields(wire) = Primitive("vector_add", S, T, NoVec, NoMat, Out(wire.q[1], n, wire.h[1], "cost"))
      BY <2>1 DEF VectorAdd
    <2>3. Fields(wire).kind # "batch" /\ Views(Fields(wire))
      BY <2>2, <1>3 DEF Primitive, Views, Vec, Mat, NoVec, NoMat, Out, VectorViews,
         MatrixViews, OutputViews, Kinds, ReduceKinds, Reduce2Kinds, Reduce3Kinds
    <2>4. QED BY <2>3 DEF Views, OutputFields, OutputViews
  <1>h. CASE wire.format = 8
    <2>1. Fields(wire) = Project(M, U, Out(wire.q[3], wire.m, wire.h[4], "cost"))
      BY <1>h DEF Fields
    <2>2. Fields(wire) = Primitive("project", U, NoVec, NoVec, M, Out(wire.q[3], wire.m, wire.h[4], "cost"))
      BY <2>1 DEF Project
    <2>3. Fields(wire).kind # "batch" /\ Views(Fields(wire))
      BY <2>2, <1>3 DEF Primitive, Views, Vec, Mat, NoVec, NoMat, Out, VectorViews,
         MatrixViews, OutputViews, Kinds, ReduceKinds, Reduce2Kinds, Reduce3Kinds
    <2>4. QED BY <2>3 DEF Views, OutputFields, OutputViews
  <1>i. CASE wire.format = 9
    <2>1. Fields(wire) = Map3Project(S, T, N, Out(wire.q[4], wire.m, wire.h[5], "pair"))
      BY <1>i DEF Fields
    <2>2. Fields(wire) = Primitive("map3", S, T, NoVec, N, Out(wire.q[4], wire.m, wire.h[5], "pair"))
      BY <2>1 DEF Map3Project
    <2>3. Fields(wire).kind # "batch" /\ Views(Fields(wire))
      BY <2>2, <1>3 DEF Primitive, Views, Vec, Mat, NoVec, NoMat, Out, VectorViews,
         MatrixViews, OutputViews, Kinds, ReduceKinds, Reduce2Kinds, Reduce3Kinds
    <2>4. QED BY <2>3 DEF Views, OutputFields, OutputViews
  <1>e. CASE wire.format = 5
    <2>1. Fields(wire) = OrderedBatch(wire.q[1], wire.w[1], wire.w[2], wire.q[2])
      BY <1>e DEF Fields
    <2>2. QED BY <2>1, <1>3 DEF OrderedBatch, BatchFields
  <1>q. QED BY <1>2, <1>a, <1>b, <1>c, <1>d, <1>e, <1>f, <1>g, <1>h, <1>i

(* A descriptor that decodes holds a valid command of its own size.        *)
LEMMA AcceptedIs ==
  ASSUME NEW d \in Accepted
  PROVE  /\ d \in DOMAIN Wires /\ Decoded[d] = Fields(Wires[d])
         /\ ValidCommand(Decoded[d]) = "OK" /\ EncodedSize(Decoded[d]) = DescriptorCells(d)
         /\ DescriptorCells(d) \in 8..MaxCells
         /\ Decoded[d].kind # "batch" => Views(Decoded[d]) /\ OutputFields(Decoded[d])
         /\ Decoded[d].kind = "batch" => BatchFields(Decoded[d])
  <1>1. /\ d \in DOMAIN Wires /\ Decoded[d] = Fields(Wires[d]) /\ DescriptorCells(d) # 0
        /\ ValidCommand(Decoded[d]) = "OK" /\ EncodedSize(Decoded[d]) = DescriptorCells(d)
    BY DEF Accepted, Decoded, Decodes, DescriptorCells
  <1>2. DescriptorCells(d) \in 8..MaxCells
    <2>1. Wires[d].format \in 1..9
      BY <1>1 DEF DescriptorCells, WireFormatSize, Formats
    <2>2. QED BY <1>1, <2>1 DEF DescriptorCells, WireFormatSize, FormatCells, MaxCells
  <1>3. QED BY <1>1, <1>2, FieldsType

-----------------------------------------------------------------------------
(* What a valid primitive touches.                                         *)

(* Its outputs are addresses.                                              *)
LEMMA OutputsPlaced ==
  ASSUME NEW cmd, Views(cmd), ValidCommand(cmd) = "OK"
  PROVE  /\ OutEnd(cmd.out) # 0 /\ Fits16({cmd.out.length, cmd.out.stride})
         /\ cmd.out.stride # 0
         /\ \A i \in 0..cmd.out.length - 1 :
              Inside(cmd.out.base, OutAddr(cmd, i), OutWidth(cmd.out.kind), OutEnd(cmd.out))
  <1> DEFINE o == cmd.out
             width == OutWidth(o.kind)
  <1>1. /\ cmd.kind \in Kinds \ {"batch"} /\ width \in {1, 2}
        /\ o.base \in Nat /\ o.length \in Nat /\ o.stride \in Nat
    BY DEF Views, OutputViews, OutWidth, PairCells
  <1>2. OutEnd(o) # 0
    BY <1>1, ValidFits DEF ReduceShape, VectorAddShape, ProjectShape, Map3Shape, Kinds
  <1>3. Fits16({o.length, o.stride})
    <2>1. CASE cmd.kind \in ReduceKinds
      BY <2>1, WidthAssumption DEF Views, Fits16
    <2>2. CASE cmd.kind = "vector_add"
      BY <1>1, <2>2, ValidFits DEF VectorAddShape, Halves, Fits16, ReduceKinds, Reduce2Kinds, Reduce3Kinds
    <2>3. CASE cmd.kind = "project"
      BY <1>1, <2>3, ValidFits DEF ProjectShape, Halves, Fits16, ReduceKinds, Reduce2Kinds, Reduce3Kinds
    <2>4. CASE cmd.kind = "map3"
      BY <1>1, <2>4, ValidFits DEF Map3Shape, Halves, Fits16, ReduceKinds, Reduce2Kinds, Reduce3Kinds
    <2>5. QED BY <1>1, <2>1, <2>2, <2>3, <2>4 DEF Kinds
  <1>4. OutEnd(o) = SpanEnd(o.base, 1, o.length, 0, o.stride, width) /\ o.stride # 0
    BY <1>2 DEF OutEnd, SpanEnd
  <1>5. ASSUME NEW i \in 0..o.length - 1
        PROVE  Inside(o.base, OutAddr(cmd, i), width, OutEnd(o))
    <2>1. i \in Nat /\ i < o.length /\ OutAddr(cmd, i) = o.base + (i * o.stride) * width
      BY <1>1 DEF OutAddr
    <2> HIDE DEF o, width
    <2>2. Inside(o.base, o.base + (i * o.stride) * width, width, OutEnd(o))
      BY <1>1, <1>2, <1>4, <2>1, RowsNeverWrap, Zenon
    <2>3. QED BY <2>1, <2>2
  <1>6. QED BY <1>2, <1>3, <1>4, <1>5

(* Its operands lie inside their views.                                    *)
LEMMA VectorInside ==
  ASSUME NEW v \in VectorViews, VecEnd(v) # 0, NEW i \in Nat, i < v.length
  PROVE  VecAddr(v, i) \in Nat /\ v.base <= VecAddr(v, i) /\ VecAddr(v, i) + 1 <= VecEnd(v)
  <1>1. v.base \in Nat /\ v.length \in Nat /\ v.stride \in Nat
    BY DEF VectorViews
  <1>2. VecEnd(v) = SpanEnd(v.base, 1, v.length, 0, v.stride, 1) /\ 1 \in {1, 2}
    BY DEF VecEnd
  <1>3. Inside(v.base, v.base + (i * v.stride) * 1, 1, VecEnd(v))
    BY <1>1, <1>2, RowsNeverWrap, Zenon
  <1>4. VecAddr(v, i) = v.base + (i * v.stride) * 1 /\ VecAddr(v, i) \in Nat
    BY <1>1 DEF VecAddr
  <1>5. QED BY <1>3, <1>4 DEF Inside

(* An element of a matrix lies between the matrix's base and its end.      *)
LEMMA MatrixInside ==
  ASSUME NEW m \in MatrixViews, MatEnd(m) # 0,
         NEW r \in Nat, r < m.rows, NEW c \in Nat, c < m.columns
  PROVE  /\ MatAddr(m, r, c) \in Nat
         /\ m.base <= MatAddr(m, r, c) /\ MatAddr(m, r, c) + 1 <= MatEnd(m)
  <1>1. /\ m.base \in Nat /\ m.rows \in Nat /\ m.columns \in Nat
        /\ m.row_stride \in Nat /\ m.column_stride \in Nat
    BY DEF MatrixViews
  <1>2. MatEnd(m) = SpanEnd(m.base, m.rows, m.columns, m.row_stride, m.column_stride, 1) /\ 1 \in {1, 2}
    BY DEF MatEnd
  <1>3. Inside(m.base, m.base + (r * m.row_stride + c * m.column_stride) * 1, 1, MatEnd(m))
    BY <1>1, <1>2, ViewsNeverWrap, Zenon
  <1>a. r * m.row_stride \in Nat /\ c * m.column_stride \in Nat
    BY <1>1
  <1>4. MatAddr(m, r, c) = m.base + (r * m.row_stride + c * m.column_stride) * 1
        /\ MatAddr(m, r, c) \in Nat
    BY <1>1, <1>a DEF MatAddr
  <1>5. QED BY <1>3, <1>4 DEF Inside

(* Two elements of one stride are different cells.                         *)
LEMMA DistinctElements ==
  ASSUME NEW b \in Nat, NEW s \in Nat, s # 0, NEW i \in Nat, NEW j \in Nat, i # j
  PROVE  b + i * s # b + j * s
  <1>1. (i - j) * s # 0
    OBVIOUS
  <1>2. (i - j) * s = i * s - j * s /\ i * s \in Int /\ j * s \in Int
    OBVIOUS
  <1>3. QED BY <1>1, <1>2

OutputCells(cmd, i) == OutAddr(cmd, i)..OutAddr(cmd, i) + OutWidth(cmd.out.kind) - 1

(* A view the output stays clear of is clear of each of its elements.      *)
LEMMA ApartFrom ==
  ASSUME NEW cmd, NEW i, NEW base \in Nat, NEW end, NEW cell \in Nat,
         cmd.out.base \in Nat, OutAddr(cmd, i) \in Int, OutEnd(cmd.out) \in Int, end \in Int,
         OutWidth(cmd.out.kind) \in {1, 2},
         Inside(cmd.out.base, OutAddr(cmd, i), OutWidth(cmd.out.kind), OutEnd(cmd.out)),
         base <= cell, cell + 1 <= end,
         ~Overlaps(cmd.out.base, OutEnd(cmd.out), base, end)
  PROVE  cell \notin OutputCells(cmd, i)
  BY DEF Inside, Overlaps, OutputCells

(* The end span() computes for a view is a number.                         *)
LEMMA SpanEndType ==
  ASSUME NEW base \in Nat, NEW rows \in Nat, NEW columns \in Nat, NEW outer_stride \in Nat,
         NEW inner_stride \in Nat, NEW width \in {1, 2}
  PROVE  SpanEnd(base, rows, columns, outer_stride, inner_stride, width) \in Int
  <1>1. (rows - 1) * outer_stride \in Int /\ (columns - 1) * inner_stride \in Int
    OBVIOUS
  <1>2. CASE width = 1
    BY <1>1, <1>2 DEF SpanEnd
  <1>3. CASE width = 2
    BY <1>1, <1>3 DEF SpanEnd
  <1>4. QED BY <1>2, <1>3

(* No output is stored to an operand of another one.                       *)
LEMMA OperandsApart ==
  ASSUME NEW cmd, Views(cmd), ValidCommand(cmd) = "OK",
         NEW o \in 0..cmd.out.length - 1, NEW column \in 0..Columns(cmd) - 1,
         NEW i \in 0..cmd.out.length - 1, i # o, NEW t \in DOMAIN Terms(cmd, o, column)
  PROVE  Terms(cmd, o, column)[t] \notin OutputCells(cmd, i)
  <1>1. /\ cmd.kind \in Kinds \ {"batch"} /\ cmd.out \in OutputViews /\ cmd.m \in MatrixViews
        /\ cmd.a \in VectorViews /\ cmd.b \in VectorViews
        /\ cmd.out.base \in Nat /\ cmd.out.length \in Nat /\ cmd.out.stride \in Nat
        /\ OutWidth(cmd.out.kind) \in {1, 2}
    BY DEF Views, OutputViews, OutWidth, PairCells
  <1>2. /\ Inside(cmd.out.base, OutAddr(cmd, i), OutWidth(cmd.out.kind), OutEnd(cmd.out))
        /\ cmd.out.stride # 0
    BY OutputsPlaced
  <1>3. /\ i \in Nat /\ o \in Nat /\ column \in Nat
        /\ i < cmd.out.length /\ o < cmd.out.length /\ column < Columns(cmd)
    BY <1>1 DEF Columns, VectorViews
  <1>4. OutAddr(cmd, i) \in Int
    <2>1. i * cmd.out.stride \in Int
      BY <1>1, <1>3
    <2>2. i * cmd.out.stride * OutWidth(cmd.out.kind) \in Int
      BY <1>1, <2>1
    <2>3. QED BY <1>1, <2>2 DEF OutAddr
  <1>5. /\ OutEnd(cmd.out) \in Int /\ VecEnd(cmd.a) \in Int /\ VecEnd(cmd.b) \in Int
        /\ MatEnd(cmd.m) \in Int
    BY <1>1, SpanEndType DEF OutEnd, VecEnd, MatEnd, VectorViews, MatrixViews
  <1>6. /\ cmd.a.base \in Nat /\ cmd.b.base \in Nat /\ cmd.m.base \in Nat
        /\ cmd.a.stride \in Nat /\ cmd.b.stride \in Nat
    BY <1>1 DEF VectorViews, MatrixViews
  <1>7. CASE cmd.kind \in ReduceKinds
    BY <1>1, <1>3, <1>7 DEF Views
  <1>8. CASE cmd.kind = "vector_add"
    <2>1. VectorAddShape(cmd) /\ Terms(cmd, o, column) = <<VecAddr(cmd.a, o), VecAddr(cmd.b, o)>>
      BY <1>1, <1>8, ValidFits DEF Terms, Reduce2Kinds, Reduce3Kinds
    <2>2. /\ cmd.a.length = cmd.out.length /\ cmd.b.length = cmd.out.length /\ cmd.out.kind = "cost"
          /\ VecEnd(cmd.a) # 0 /\ VecEnd(cmd.b) # 0
          /\ Overlaps(cmd.out.base, OutEnd(cmd.out), cmd.a.base, VecEnd(cmd.a)) => AliasesFirst(cmd)
          /\ Overlaps(cmd.out.base, OutEnd(cmd.out), cmd.b.base, VecEnd(cmd.b)) => AliasesSecond(cmd)
      BY <2>1 DEF VectorAddShape
    <2>3. VecAddr(cmd.a, o) \notin OutputCells(cmd, i)
      <3>1. CASE AliasesFirst(cmd)
        <4>1. OutputCells(cmd, i) = {cmd.a.base + i * cmd.a.stride}
          <5>1. OutWidth(cmd.out.kind) = 1
            BY <2>2 DEF OutWidth
          <5>2. i * cmd.a.stride * 1 = i * cmd.a.stride
            BY <1>3, <1>6
          <5>3. OutAddr(cmd, i) = cmd.a.base + i * cmd.a.stride
            BY <3>1, <5>1, <5>2 DEF OutAddr, AliasesFirst
          <5>4. OutputCells(cmd, i) = {OutAddr(cmd, i)}
            BY <1>4, <5>1 DEF OutputCells
          <5>5. QED BY <5>3, <5>4
        <4>2. cmd.a.base + i * cmd.a.stride # cmd.a.base + o * cmd.a.stride
          BY <1>2, <1>3, <1>6, <3>1, DistinctElements DEF AliasesFirst
        <4>3. VecAddr(cmd.a, o) = cmd.a.base + o * cmd.a.stride
          BY DEF VecAddr
        <4>4. QED BY <4>1, <4>2, <4>3, Zenon
      <3>2. CASE ~AliasesFirst(cmd)
        BY <1>1, <1>2, <1>3, <1>4, <1>5, <1>6, <2>2, <3>2, VectorInside, ApartFrom
      <3>3. QED BY <3>1, <3>2
    <2>4. VecAddr(cmd.b, o) \notin OutputCells(cmd, i)
      <3>1. CASE AliasesSecond(cmd)
        <4>1. OutputCells(cmd, i) = {cmd.b.base + i * cmd.b.stride}
          <5>1. OutWidth(cmd.out.kind) = 1
            BY <2>2 DEF OutWidth
          <5>2. i * cmd.b.stride * 1 = i * cmd.b.stride
            BY <1>3, <1>6
          <5>3. OutAddr(cmd, i) = cmd.b.base + i * cmd.b.stride
            BY <3>1, <5>1, <5>2 DEF OutAddr, AliasesSecond
          <5>4. OutputCells(cmd, i) = {OutAddr(cmd, i)}
            BY <1>4, <5>1 DEF OutputCells
          <5>5. QED BY <5>3, <5>4
        <4>2. cmd.b.base + i * cmd.b.stride # cmd.b.base + o * cmd.b.stride
          BY <1>2, <1>3, <1>6, <3>1, DistinctElements DEF AliasesSecond
        <4>3. VecAddr(cmd.b, o) = cmd.b.base + o * cmd.b.stride
          BY DEF VecAddr
        <4>4. QED BY <4>1, <4>2, <4>3, Zenon
      <3>2. CASE ~AliasesSecond(cmd)
        BY <1>1, <1>2, <1>3, <1>4, <1>5, <1>6, <2>2, <3>2, VectorInside, ApartFrom
      <3>3. QED BY <3>1, <3>2
    <2>5. QED BY <2>1, <2>3, <2>4
  <1>9. CASE cmd.kind = "project"
    <2>1. /\ ProjectShape(cmd) /\ Columns(cmd) = cmd.a.length
          /\ Terms(cmd, o, column) = <<MatAddr(cmd.m, o, column), VecAddr(cmd.a, column)>>
      BY <1>1, <1>9, ValidFits DEF Terms, Columns, Reduce2Kinds, Reduce3Kinds
    <2>2. /\ cmd.m.columns = cmd.a.length /\ cmd.m.rows = cmd.out.length
          /\ MatEnd(cmd.m) # 0 /\ VecEnd(cmd.a) # 0
          /\ ~Overlaps(cmd.out.base, OutEnd(cmd.out), cmd.m.base, MatEnd(cmd.m))
          /\ ~Overlaps(cmd.out.base, OutEnd(cmd.out), cmd.a.base, VecEnd(cmd.a))
      BY <2>1 DEF ProjectShape
    <2>3. MatAddr(cmd.m, o, column) \notin OutputCells(cmd, i)
      BY <1>1, <1>2, <1>3, <1>4, <1>5, <1>6, <2>1, <2>2, MatrixInside, ApartFrom
    <2>4. VecAddr(cmd.a, column) \notin OutputCells(cmd, i)
      BY <1>1, <1>2, <1>3, <1>4, <1>5, <1>6, <2>1, <2>2, VectorInside, ApartFrom
    <2>5. QED BY <2>1, <2>3, <2>4
  <1>10. CASE cmd.kind = "map3"
    <2>1. /\ Map3Shape(cmd) /\ Columns(cmd) = cmd.a.length
          /\ Terms(cmd, o, column) = <<VecAddr(cmd.a, column), VecAddr(cmd.b, column),
                                       MatAddr(cmd.m, o, column)>>
      BY <1>1, <1>10, ValidFits DEF Terms, Columns, Reduce2Kinds, Reduce3Kinds
    <2>2. /\ cmd.a.length = cmd.m.columns /\ cmd.b.length = cmd.m.columns
          /\ cmd.m.rows = cmd.out.length
          /\ MatEnd(cmd.m) # 0 /\ VecEnd(cmd.a) # 0 /\ VecEnd(cmd.b) # 0
          /\ ~Overlaps(cmd.out.base, OutEnd(cmd.out), cmd.m.base, MatEnd(cmd.m))
          /\ ~Overlaps(cmd.out.base, OutEnd(cmd.out), cmd.a.base, VecEnd(cmd.a))
          /\ ~Overlaps(cmd.out.base, OutEnd(cmd.out), cmd.b.base, VecEnd(cmd.b))
      BY <2>1 DEF Map3Shape
    <2>3. MatAddr(cmd.m, o, column) \notin OutputCells(cmd, i)
      BY <1>1, <1>2, <1>3, <1>4, <1>5, <1>6, <2>1, <2>2, MatrixInside, ApartFrom
    <2>4. VecAddr(cmd.a, column) \notin OutputCells(cmd, i)
      BY <1>1, <1>2, <1>3, <1>4, <1>5, <1>6, <2>1, <2>2, VectorInside, ApartFrom
    <2>5. VecAddr(cmd.b, column) \notin OutputCells(cmd, i)
      BY <1>1, <1>2, <1>3, <1>4, <1>5, <1>6, <2>1, <2>2, VectorInside, ApartFrom
    <2>6. QED BY <2>1, <2>3, <2>4, <2>5
  <1>11. QED BY <1>1, <1>7, <1>8, <1>9, <1>10 DEF Kinds

(* At an address at most one descriptor decodes, as no two share a word.   *)
LEMMA OneCommand ==
  ASSUME NEW m, NEW fs, NEW a, NEW n, NEW d \in CommandAt(m, fs, a, n)
  PROVE  CommandAt(m, fs, a, n) = {d}
  <1> SUFFICES ASSUME NEW e \in CommandAt(m, fs, a, n) PROVE e = d
    OBVIOUS
  <1>1. Word(d, 0) = Word(e, 0)
    BY DEF CommandAt, HasHeader, HeaderCells
  <1>2. d \in Nat /\ e \in Nat
    BY WiresAssumption DEF CommandAt, Accepted
  <1>3. QED BY <1>1, <1>2, CostAssumption DEF Word, MaxCells

(* What can be read within a part of the stream can be read without it.    *)
LEMMA StreamIsNoLimit ==
  ASSUME NEW m, NEW fs, NEW a, NEW n
  PROVE  CommandAt(m, fs, a, n) \subseteq CommandAt(m, fs, a, MaxCells)
  <1> SUFFICES ASSUME NEW d \in CommandAt(m, fs, a, n) PROVE d \in CommandAt(m, fs, a, MaxCells)
    OBVIOUS
  <1>1. DescriptorCells(d) <= MaxCells /\ MaxCells >= HeaderCells
    BY CellsBound DEF CommandAt, Accepted, MaxCells, HeaderCells
  <1>2. QED BY <1>1 DEF CommandAt

-----------------------------------------------------------------------------
(* The outputs of a primitive.                                             *)

(* A set of naturals has a least element: what replaces induction here.   *)
LEMMA HasLeast ==
  ASSUME NEW S, S \subseteq Nat, S # {}
  PROVE  \E x \in S : \A y \in S : x <= y
  <1> DEFINE below == {ss \in Nat \X Nat : ss[1] < ss[2]}
  <1>1. IsWellFoundedOn(below, Nat)
    BY NatLessThanWellFounded DEF OpToRel
  <1>2. PICK x \in S : \A y \in S : ~(<<y, x>> \in below)
    <2> HIDE DEF below
    <2> QED BY <1>1, WFMin
  <1>3. ASSUME NEW y \in S PROVE x <= y
    <2>1. x \in Nat /\ y \in Nat /\ ~(<<y, x>> \in below)
      BY <1>2
    <2>2. QED BY <2>1
  <1>4. QED BY <1>3

(* One turn of the loop of execute_command.                                *)
OutputStep(cmd, fs, before, k) ==
    StoreResult(cmd, k, before, OutputResult(cmd, k, before.mem, fs), fs)

(* What the loop has done after each of n outputs.                         *)
Unrolled(cmd, m, fs, f, n) ==
    [k \in 0..n |-> IF k = 0 THEN [ok |-> TRUE, mem |-> m]
                    ELSE OutputStep(cmd, fs, f[k - 1], k - 1)]

(* The loop over outputs, one step at a time.                              *)
LEMMA OutputsUnroll ==
  ASSUME NEW cmd, NEW m, NEW fs, NEW n \in Nat
  PROVE  \E f : f = Unrolled(cmd, m, fs, f, n)
  <1> DEFINE Bad == {i \in Nat : ~\E f : f = Unrolled(cmd, m, fs, f, i)}
  <1>1. SUFFICES ASSUME Bad # {} PROVE FALSE
    OBVIOUS
  <1>2. PICK i \in Bad : \A j \in Bad : i <= j
    <2>1. Bad \subseteq Nat
      OBVIOUS
    <2> HIDE DEF Bad
    <2> QED BY <1>1, <2>1, HasLeast
  <1>3. i \in Nat /\ ~\E f : f = Unrolled(cmd, m, fs, f, i)
    BY <1>2
  <1>4. CASE i = 0
    <2> DEFINE f == [k \in 0..0 |-> [ok |-> TRUE, mem |-> m]]
    <2>1. f = Unrolled(cmd, m, fs, f, 0)
      BY DEF Unrolled
    <2>2. QED BY <2>1, <1>3, <1>4
  <1>5. CASE i # 0
    <2>1. i - 1 \in Nat /\ i - 1 \notin Bad
      BY <1>2, <1>3, <1>5
    <2>2. PICK f : f = Unrolled(cmd, m, fs, f, i - 1)
      BY <2>1
    <2> DEFINE g == [k \in 0..i |-> IF k < i THEN f[k] ELSE OutputStep(cmd, fs, f[i - 1], i - 1)]
    <2>3. ASSUME NEW k \in 0..i
          PROVE  g[k] = IF k = 0 THEN [ok |-> TRUE, mem |-> m]
                        ELSE OutputStep(cmd, fs, g[k - 1], k - 1)
      <3>1. CASE k < i
        <4>1. k \in 0..i - 1 /\ (k # 0 => k - 1 \in 0..i /\ k - 1 < i)
          BY <3>1, <1>3
        <4>2. g[k] = f[k] /\ (k # 0 => g[k - 1] = f[k - 1])
          BY <4>1, <3>1
        <4>3. f[k] = IF k = 0 THEN [ok |-> TRUE, mem |-> m]
                     ELSE OutputStep(cmd, fs, f[k - 1], k - 1)
          BY <2>2, <4>1 DEF Unrolled
        <4>4. QED BY <4>2, <4>3
      <3>2. CASE k = i
        <4>1. i - 1 \in 0..i /\ i - 1 < i
          BY <1>3, <1>5
        <4>2. g[k] = OutputStep(cmd, fs, f[i - 1], i - 1) /\ g[i - 1] = f[i - 1]
          BY <4>1, <3>2
        <4>3. QED BY <4>2, <3>2, <1>5
      <3>3. QED BY <3>1, <3>2, <1>3
    <2>4. g = Unrolled(cmd, m, fs, g, i)
      <3>1. \A k \in 0..i : g[k] = Unrolled(cmd, m, fs, g, i)[k]
        BY <2>3 DEF Unrolled
      <3>2. DOMAIN Unrolled(cmd, m, fs, g, i) = 0..i
        BY DEF Unrolled
      <3>3. QED BY <3>1, <3>2 DEF Unrolled
    <2>5. QED BY <2>4, <1>3
  <1>6. QED BY <1>4, <1>5

(* The values f of that loop, turn by turn.                                *)
OutputLoop(cmd, m, fs, f) ==
    /\ f[0] = [ok |-> TRUE, mem |-> m]
    /\ \A k \in 1..cmd.out.length : f[k] = OutputStep(cmd, fs, f[k - 1], k - 1)

(* execute_command is its last turn.                                       *)
LEMMA CommandLoop ==
  ASSUME NEW cmd, NEW m, NEW fs, OutputFields(cmd)
  PROVE  \E f : ExecuteCommand(cmd, m, fs) = f[cmd.out.length] /\ OutputLoop(cmd, m, fs, f)
  <1> DEFINE n == cmd.out.length
             f == CHOOSE f : f = Unrolled(cmd, m, fs, f, n)
  <1>1. ExecuteCommand(cmd, m, fs) = f[n]
    BY DEF ExecuteCommand, Unrolled, OutputStep
  <1>2. n \in Nat
    BY DEF OutputFields
  <1>3. f = Unrolled(cmd, m, fs, f, n)
    BY <1>2, OutputsUnroll
  <1> HIDE DEF f
  <1>4. \A k \in 0..n : f[k] = IF k = 0 THEN [ok |-> TRUE, mem |-> m]
                               ELSE OutputStep(cmd, fs, f[k - 1], k - 1)
    BY <1>3 DEF Unrolled
  <1> HIDE DEF n
  <1>5. 0 \in 0..n /\ \A k \in 1..n : k \in 0..n /\ k # 0
    BY <1>2
  <1>6. OutputLoop(cmd, m, fs, f)
    BY <1>4, <1>5 DEF OutputLoop, n
  <1>7. QED BY <1>1, <1>6 DEF n

(* Those values, as a function of the command and the memory.              *)
OutputsOf(cmd, m, fs) ==
    CHOOSE f : ExecuteCommand(cmd, m, fs) = f[cmd.out.length] /\ OutputLoop(cmd, m, fs, f)

(* A primitive is the last value of the loop over its outputs.             *)
LEMMA OutputsAre ==
  ASSUME NEW cmd, NEW m, NEW fs, OutputFields(cmd)
  PROVE  /\ ExecuteCommand(cmd, m, fs) = OutputsOf(cmd, m, fs)[cmd.out.length]
         /\ OutputLoop(cmd, m, fs, OutputsOf(cmd, m, fs))
  BY CommandLoop DEF OutputsOf

(* A verdict, and a memory that differs from m at most in cells C.         *)
Within(done, m, C) == /\ DOMAIN done = {"ok", "mem"} /\ done.ok \in BOOLEAN
                      /\ DOMAIN done.mem = DOMAIN m
                      /\ \A x \in DOMAIN m \ C : done.mem[x] = m[x]

(* One more output of a primitive, given what those before it have left.   *)
LEMMA OutputEffect ==
  ASSUME NEW cmd, NEW m, NEW fs, NEW before, NEW k \in 0..cmd.out.length - 1,
         NEW C, OutputCells(cmd, k) \subseteq C, OutputFields(cmd), Within(before, m, C)
  PROVE  Within(OutputStep(cmd, fs, before, k), m, C)
  <1> DEFINE result == OutputResult(cmd, k, before.mem, fs)
             a == OutAddr(cmd, k)
             words == ResultWords(cmd, result)
  <1> HIDE DEF result
  <1>1. Len(words) = OutWidth(cmd.out.kind)
    BY DEF ResultWords, OutWidth, PairCells
  <1>2. a..a + OutWidth(cmd.out.kind) - 1 \subseteq C
    BY DEF OutputCells
  <1>a. a \in Int
    <2>1. k \in Nat /\ OutWidth(cmd.out.kind) \in Nat
      BY DEF OutputFields, OutWidth, PairCells
    <2>2. k * cmd.out.stride \in Nat
      BY <2>1 DEF OutputFields
    <2>3. k * cmd.out.stride * OutWidth(cmd.out.kind) \in Nat
      BY <2>1, <2>2
    <2>4. QED BY <2>3 DEF OutAddr, OutputFields
  <1>3. OutputStep(cmd, fs, before, k) = StoreResult(cmd, k, before, result, fs)
    BY DEF OutputStep, result
  <1>4. CASE before.ok /\ result.ok /\ WriteOk(fs, a, OutWidth(cmd.out.kind))
    <2>1. OutputStep(cmd, fs, before, k) = [ok |-> TRUE, mem |-> Store(before.mem, a, words)]
      BY <1>3, <1>4 DEF StoreResult
    <2> HIDE DEF a, words
    <2>2. Store(before.mem, a, words)
            = [x \in DOMAIN before.mem |-> IF x \in a + 0..a + 0 + Len(words) - 1
                                           THEN words[x - a + 1] ELSE before.mem[x]]
      BY DEF Store, StorePart
    <2>3. \A x \in a + 0..a + 0 + Len(words) - 1 : x \in C
      BY <1>1, <1>2, <1>a
    <2>4. QED BY <2>1, <2>2, <2>3 DEF Within
  <1>5. CASE ~(before.ok /\ result.ok /\ WriteOk(fs, a, OutWidth(cmd.out.kind)))
    <2>1. OutputStep(cmd, fs, before, k) = [before EXCEPT !.ok = FALSE]
      BY <1>3, <1>5 DEF StoreResult
    <2>2. QED BY <2>1 DEF Within
  <1>6. QED BY <1>4, <1>5

(* A primitive stores to its outputs only, whether or not it fails.        *)
LEMMA CommandEffect ==
  ASSUME NEW cmd, NEW m, NEW fs, OutputFields(cmd)
  PROVE  Within(ExecuteCommand(cmd, m, fs), m, OutCells(cmd))
  <1> DEFINE n == cmd.out.length
  <1>1. PICK f : ExecuteCommand(cmd, m, fs) = f[n] /\ OutputLoop(cmd, m, fs, f)
    BY CommandLoop
  <1>n. n \in Nat
    BY DEF OutputFields
  <1> DEFINE Bad == {i \in 0..n : ~Within(f[i], m, OutCells(cmd))}
  <1>2. SUFFICES ASSUME Bad # {} PROVE FALSE
    <2>1. n \in 0..n
      BY <1>n
    <2>2. QED BY <2>1, <1>1
  <1>3. PICK i \in Bad : \A j \in Bad : i <= j
    <2>1. Bad \subseteq Nat
      OBVIOUS
    <2> HIDE DEF Bad
    <2> QED BY <1>2, <2>1, HasLeast
  <1>4. i # 0
    <2>1. Within(f[0], m, OutCells(cmd))
      BY <1>1 DEF Within, OutputLoop
    <2>2. QED BY <1>3, <2>1
  <1>5. i \in 1..n /\ i - 1 \in 0..n - 1 /\ i - 1 \in 0..n /\ i - 1 \notin Bad
    BY <1>3, <1>4, <1>n
  <1>6. Within(f[i - 1], m, OutCells(cmd)) /\ f[i] = OutputStep(cmd, fs, f[i - 1], i - 1)
    BY <1>1, <1>5 DEF OutputLoop
  <1>7. OutputCells(cmd, i - 1) \subseteq OutCells(cmd)
    BY <1>5 DEF OutCells, OutputCells
  <1>8. QED BY <1>3, <1>5, <1>6, <1>7, OutputEffect

-----------------------------------------------------------------------------
(* The outputs do not see one another.                                     *)

MemoryOf(m) == m = [x \in Ram |-> m[x]]

(* The addresses an output's addends are read from.                        *)
LEMMA TermsType ==
  ASSUME NEW cmd, Views(cmd), NEW o \in Nat, NEW column \in Nat
  PROVE  LET t == Terms(cmd, o, column)
         IN  \/ Len(t) = 2 /\ DOMAIN t = {1, 2} /\ t[1] \in Nat /\ t[2] \in Nat
             \/ /\ Len(t) = 3 /\ DOMAIN t = {1, 2, 3}
                /\ t[1] \in Nat /\ t[2] \in Nat /\ t[3] \in Nat
  <1>1. \A v \in VectorViews : \A i \in Nat : VecAddr(v, i) \in Nat
    BY DEF VectorViews, VecAddr
  <1>2. \A m \in MatrixViews : \A r, c \in Nat : MatAddr(m, r, c) \in Nat
    BY DEF MatrixViews, MatAddr
  <1>3. /\ cmd.kind \in Kinds \ {"batch"} /\ cmd.m \in MatrixViews
        /\ cmd.a \in VectorViews /\ cmd.b \in VectorViews /\ cmd.c \in VectorViews
    BY DEF Views
  <1>4. /\ \A i \in Nat : /\ VecAddr(cmd.a, i) \in Nat /\ VecAddr(cmd.b, i) \in Nat
                          /\ VecAddr(cmd.c, i) \in Nat
        /\ \A r, c \in Nat : MatAddr(cmd.m, r, c) \in Nat
    BY <1>1, <1>2, <1>3
  <1>5. CASE cmd.kind \in Reduce2Kinds
    BY <1>4, <1>5 DEF Terms
  <1>6. CASE cmd.kind \in Reduce3Kinds
    BY <1>4, <1>6 DEF Terms, Reduce2Kinds, Reduce3Kinds
  <1>7. CASE cmd.kind = "vector_add"
    BY <1>4, <1>7 DEF Terms, Reduce2Kinds, Reduce3Kinds
  <1>8. CASE cmd.kind = "project"
    BY <1>4, <1>8 DEF Terms, Reduce2Kinds, Reduce3Kinds
  <1>9. CASE cmd.kind = "map3"
    BY <1>4, <1>9 DEF Terms, Reduce2Kinds, Reduce3Kinds
  <1>10. QED BY <1>3, <1>5, <1>6, <1>7, <1>8, <1>9 DEF Kinds, ReduceKinds

(* A candidate depends on the operands in RAM only: another one cannot be  *)
(* read.                                                                   *)
LEMMA SumStable ==
  ASSUME NEW cmd, Views(cmd), NEW o \in Nat, NEW column \in Nat, NEW m1, NEW m2, NEW fs,
         \A t \in DOMAIN Terms(cmd, o, column) :
            LET x == Terms(cmd, o, column)[t] IN x \in Ram => m1[x] = m2[x]
  PROVE  Candidate(cmd, o, column, m1, fs) = Candidate(cmd, o, column, m2, fs)
  <1> DEFINE T == Terms(cmd, o, column)
  <1>1. \/ Len(T) = 2 /\ DOMAIN T = {1, 2} /\ T[1] \in Nat /\ T[2] \in Nat
        \/ /\ Len(T) = 3 /\ DOMAIN T = {1, 2, 3}
           /\ T[1] \in Nat /\ T[2] \in Nat /\ T[3] \in Nat
    BY TermsType
  <1>2. \A t \in DOMAIN T : T[t] \in Ram => m1[T[t]] = m2[T[t]]
    OBVIOUS
  <1> HIDE DEF T
  <1>3. CASE \E t \in DOMAIN T : ~ReadOk(fs, T[t], 1)
    BY <1>3 DEF Candidate, SumAt, T
  <1>4. CASE \A t \in DOMAIN T : ReadOk(fs, T[t], 1)
    <2>1. \A a \in Nat : a \in a..a + 1 - 1
      OBVIOUS
    <2>2. \A t \in DOMAIN T : T[t] \in Ram
      BY <1>1, <1>4, <2>1 DEF ReadOk
    <2>3. \A t \in DOMAIN T : m1[T[t]] = m2[T[t]]
      BY <1>2, <2>2
    <2>4. SumAt(T, m1, fs) = SumAt(T, m2, fs)
      BY <1>1, <1>4, <2>3 DEF SumAt
    <2>5. QED BY <2>4 DEF Candidate, T
  <1>5. QED BY <1>3, <1>4

(* A result depends only on the cells its operands read.                   *)
LEMMA ResultStable ==
  ASSUME NEW cmd, Views(cmd), NEW o \in Nat, NEW m1, NEW m2, NEW fs,
         \A column \in 0..Columns(cmd) - 1 : \A t \in DOMAIN Terms(cmd, o, column) :
            LET x == Terms(cmd, o, column)[t] IN x \in Ram => m1[x] = m2[x]
  PROVE  OutputResult(cmd, o, m1, fs) = OutputResult(cmd, o, m2, fs)
  <1> DEFINE n == Columns(cmd)
             First == [ok |-> TRUE, value |-> Inf, index |-> 0]
             Scan(f, m) == [i \in 0..n |-> IF i = 0 THEN First
                                          ELSE Better(f[i - 1], Candidate(cmd, o, i - 1, m, fs), i - 1)]
  <1>1. n \in Nat
    BY DEF Views, Columns, VectorViews
  <1>2. \A i \in 0..n : i # 0 => i - 1 \in 0..n - 1 /\ i - 1 \in Nat
    BY <1>1
  <1>3. \A i \in 0..n : i # 0 =>
          Candidate(cmd, o, i - 1, m1, fs) = Candidate(cmd, o, i - 1, m2, fs)
    BY <1>2, SumStable
  <1>4. \A f : Scan(f, m1) = Scan(f, m2)
    <2> HIDE DEF First, n
    <2> QED BY <1>3
  <1>5. /\ OutputResult(cmd, o, m1, fs) = (CHOOSE f : f = Scan(f, m1))[n]
        /\ OutputResult(cmd, o, m2, fs) = (CHOOSE f : f = Scan(f, m2))[n]
    BY DEF OutputResult
  <1> HIDE DEF Scan, n
  <1>6. (CHOOSE f : f = Scan(f, m1)) = (CHOOSE f : f = Scan(f, m2))
    BY <1>4
  <1>7. QED BY <1>5, <1>6

(* The outputs stored so far are all that is new in memory.                *)
StoredCells(cmd, i) == UNION {OutputCells(cmd, j) : j \in 0..i - 1}

(* Each turn keeps a memory a memory.                                      *)
LEMMA StepMemory ==
  ASSUME NEW cmd, NEW fs, NEW before, NEW k, MemoryOf(before.mem), DOMAIN before = {"ok", "mem"}
  PROVE  MemoryOf(OutputStep(cmd, fs, before, k).mem)
  <1> DEFINE result == OutputResult(cmd, k, before.mem, fs)
             a == OutAddr(cmd, k)
             words == ResultWords(cmd, result)
  <1> HIDE DEF result, a, words
  <1>1. MemoryOf(Store(before.mem, a, words))
    <2>1. DOMAIN before.mem = Ram
      BY DEF MemoryOf
    <2>2. QED BY <2>1 DEF MemoryOf, Store, StorePart
  <1>2. \/ OutputStep(cmd, fs, before, k) = [ok |-> TRUE, mem |-> Store(before.mem, a, words)]
        \/ OutputStep(cmd, fs, before, k) = [before EXCEPT !.ok = FALSE]
    BY DEF OutputStep, StoreResult, result, a, words
  <1>3. QED BY <1>1, <1>2

(* After i outputs memory differs from m in them only.                     *)
LEMMA OutputsSoFar ==
  ASSUME NEW cmd, NEW m, NEW fs, NEW f, OutputFields(cmd), MemoryOf(m), OutputLoop(cmd, m, fs, f),
         NEW i \in 0..cmd.out.length
  PROVE  Within(f[i], m, StoredCells(cmd, i)) /\ MemoryOf(f[i].mem)
  <1> DEFINE n == cmd.out.length
             Good(k) == Within(f[k], m, StoredCells(cmd, k)) /\ MemoryOf(f[k].mem)
             Bad == {k \in 0..n : ~Good(k)}
  <1>n. n \in Nat
    BY DEF OutputFields
  <1>1. SUFFICES ASSUME Bad # {} PROVE FALSE
    OBVIOUS
  <1>2. PICK k \in Bad : \A j \in Bad : k <= j
    <2>1. Bad \subseteq Nat
      OBVIOUS
    <2> HIDE DEF Bad
    <2> QED BY <1>1, <2>1, HasLeast
  <1>3. k # 0
    <2>1. Good(0)
      BY DEF Within, OutputLoop
    <2>2. QED BY <1>2, <2>1
  <1>4. k \in 1..n /\ k - 1 \in 0..n - 1 /\ k - 1 \in 0..n /\ k - 1 \notin Bad
    BY <1>2, <1>3, <1>n
  <1>5. Good(k - 1) /\ f[k] = OutputStep(cmd, fs, f[k - 1], k - 1)
    BY <1>4 DEF OutputLoop
  <1>6. /\ OutputCells(cmd, k - 1) \subseteq StoredCells(cmd, k)
        /\ StoredCells(cmd, k - 1) \subseteq StoredCells(cmd, k)
    <2>1. k - 1 \in 0..k - 1 /\ \A j \in 0..(k - 1) - 1 : j \in 0..k - 1
      BY <1>4
    <2>2. QED BY <2>1 DEF StoredCells
  <1>7. Within(f[k - 1], m, StoredCells(cmd, k))
    BY <1>5, <1>6 DEF Within
  <1>8. Within(f[k], m, StoredCells(cmd, k))
    BY <1>4, <1>5, <1>6, <1>7, OutputEffect
  <1>9. MemoryOf(f[k].mem)
    <2>1. DOMAIN f[k - 1] = {"ok", "mem"}
      BY <1>5 DEF Within
    <2>2. MemoryOf(OutputStep(cmd, fs, f[k - 1], k - 1).mem)
      BY <1>5, <2>1, StepMemory
    <2>3. QED BY <1>5, <2>2
  <1>10. QED BY <1>2, <1>8, <1>9

(* Stored one after the other, the outputs are those of the memory the     *)
(* command started with.                                                   *)
LEMMA OutputsIndependent ==
  ASSUME NEW cmd, NEW m, NEW fs, NEW f, Views(cmd), OutputFields(cmd), ValidCommand(cmd) = "OK",
         MemoryOf(m), OutputLoop(cmd, m, fs, f), NEW i \in 0..cmd.out.length - 1
  PROVE  f[i + 1] = StoreResult(cmd, i, f[i], OutputResult(cmd, i, m, fs), fs)
  <1> DEFINE n == cmd.out.length
  <1>0. n \in Nat
    BY DEF OutputFields
  <1>1. i \in 0..n /\ i \in Nat /\ i + 1 \in 1..n /\ (i + 1) - 1 = i
    BY <1>0
  <1>2. Within(f[i], m, StoredCells(cmd, i))
    BY <1>1, OutputsSoFar
  <1>3. f[i + 1] = OutputStep(cmd, fs, f[i], i)
    BY <1>1 DEF OutputLoop
  <1>4. ASSUME NEW column \in 0..Columns(cmd) - 1, NEW t \in DOMAIN Terms(cmd, i, column),
               Terms(cmd, i, column)[t] \in Ram
        PROVE  f[i].mem[Terms(cmd, i, column)[t]] = m[Terms(cmd, i, column)[t]]
    <2> DEFINE x == Terms(cmd, i, column)[t]
    <2>1. \A j \in 0..i - 1 : j \in 0..n - 1 /\ j # i
      BY <1>0, <1>1
    <2>2. \A j \in 0..i - 1 : x \notin OutputCells(cmd, j)
      BY <2>1, OperandsApart
    <2>3. x \notin StoredCells(cmd, i)
      BY <2>2 DEF StoredCells
    <2>4. DOMAIN m = Ram
      BY DEF MemoryOf
    <2>5. QED BY <1>2, <1>4, <2>3, <2>4 DEF Within
  <1>5. OutputResult(cmd, i, f[i].mem, fs) = OutputResult(cmd, i, m, fs)
    BY <1>1, <1>4, ResultStable
  <1>6. QED BY <1>3, <1>5 DEF OutputStep

(* An output that fails fails the command.                                 *)
LEMMA FailureSticks ==
  ASSUME NEW cmd, NEW m, NEW fs, NEW f, OutputFields(cmd), MemoryOf(m), OutputLoop(cmd, m, fs, f),
         NEW i \in 0..cmd.out.length, ~f[i].ok
  PROVE  ~f[cmd.out.length].ok
  <1> DEFINE n == cmd.out.length
             Bad == {k \in i..n : f[k].ok}
  <1>n. n \in Nat /\ n \in i..n
    BY DEF OutputFields
  <1>1. SUFFICES ASSUME Bad # {} PROVE FALSE
    BY <1>n
  <1>2. PICK k \in Bad : \A j \in Bad : k <= j
    <2>1. Bad \subseteq Nat
      OBVIOUS
    <2> HIDE DEF Bad
    <2> QED BY <1>1, <2>1, HasLeast
  <1>3. k \in 1..n /\ k - 1 \in i..n /\ k - 1 \in 0..n /\ k - 1 \notin Bad
    BY <1>2, <1>n
  <1>4. ~f[k - 1].ok /\ f[k] = OutputStep(cmd, fs, f[k - 1], k - 1)
    BY <1>3 DEF OutputLoop
  <1>5. DOMAIN f[k - 1] = {"ok", "mem"}
    BY <1>3, OutputsSoFar DEF Within
  <1>6. f[k] = [f[k - 1] EXCEPT !.ok = FALSE]
    BY <1>4 DEF OutputStep, StoreResult
  <1>7. QED BY <1>2, <1>5, <1>6

-----------------------------------------------------------------------------
(* The children of a batch.                                                *)

Started(batch, m) == [ok |-> TRUE, mem |-> m, loose |-> {}, cursor |-> batch.stream, done |-> 0]

(* One turn of the loop of execute_batch.                                  *)
ChildStep(batch, a, fs, before) ==
    RunChild(before, RunnableAt(batch, a, before.cursor, before.mem, fs), fs)

UnrolledBatch(batch, a, m, fs, f, n) ==
    [i \in 0..n |-> IF i = 0 THEN Started(batch, m) ELSE ChildStep(batch, a, fs, f[i - 1])]

(* The loop over children, one step at a time.                             *)
LEMMA ChildrenUnroll ==
  ASSUME NEW batch, NEW a, NEW m, NEW fs, NEW n \in Nat
  PROVE  \E f : f = UnrolledBatch(batch, a, m, fs, f, n)
  <1> DEFINE Bad == {i \in Nat : ~\E f : f = UnrolledBatch(batch, a, m, fs, f, i)}
  <1>1. SUFFICES ASSUME Bad # {} PROVE FALSE
    OBVIOUS
  <1>2. PICK i \in Bad : \A j \in Bad : i <= j
    <2>1. Bad \subseteq Nat
      OBVIOUS
    <2> HIDE DEF Bad
    <2> QED BY <1>1, <2>1, HasLeast
  <1>3. i \in Nat /\ ~\E f : f = UnrolledBatch(batch, a, m, fs, f, i)
    BY <1>2
  <1>4. CASE i = 0
    <2> DEFINE f == [k \in 0..0 |-> Started(batch, m)]
    <2>1. f = UnrolledBatch(batch, a, m, fs, f, 0)
      BY DEF UnrolledBatch
    <2>2. QED BY <2>1, <1>3, <1>4
  <1>5. CASE i # 0
    <2>1. i - 1 \in Nat /\ i - 1 \notin Bad
      BY <1>2, <1>3, <1>5
    <2>2. PICK f : f = UnrolledBatch(batch, a, m, fs, f, i - 1)
      BY <2>1
    <2> DEFINE g == [k \in 0..i |-> IF k < i THEN f[k] ELSE ChildStep(batch, a, fs, f[i - 1])]
    <2>3. ASSUME NEW k \in 0..i
          PROVE  g[k] = IF k = 0 THEN Started(batch, m) ELSE ChildStep(batch, a, fs, g[k - 1])
      <3>1. CASE k < i
        <4>1. k \in 0..i - 1 /\ (k # 0 => k - 1 \in 0..i /\ k - 1 < i)
          BY <3>1, <1>3
        <4>2. g[k] = f[k] /\ (k # 0 => g[k - 1] = f[k - 1])
          BY <4>1, <3>1
        <4>3. f[k] = IF k = 0 THEN Started(batch, m) ELSE ChildStep(batch, a, fs, f[k - 1])
          BY <2>2, <4>1 DEF UnrolledBatch
        <4>4. QED BY <4>2, <4>3
      <3>2. CASE k = i
        <4>1. i - 1 \in 0..i /\ i - 1 < i
          BY <1>3, <1>5
        <4>2. g[k] = ChildStep(batch, a, fs, f[i - 1]) /\ g[i - 1] = f[i - 1]
          BY <4>1, <3>2
        <4>3. QED BY <4>2, <3>2, <1>5
      <3>3. QED BY <3>1, <3>2, <1>3
    <2>4. g = UnrolledBatch(batch, a, m, fs, g, i)
      <3>1. \A k \in 0..i : g[k] = UnrolledBatch(batch, a, m, fs, g, i)[k]
        BY <2>3 DEF UnrolledBatch
      <3>2. QED BY <3>1 DEF UnrolledBatch
    <2>5. QED BY <2>4, <1>3
  <1>6. QED BY <1>4, <1>5

(* The batch f after each of its children.                                 *)
Walk(batch, a, m, fs, f) ==
    /\ f[0] = Started(batch, m)
    /\ \A i \in 1..batch.count : f[i] = ChildStep(batch, a, fs, f[i - 1])

(* A batch is the last value of the loop over its children.                *)
LEMMA BatchLoop ==
  ASSUME NEW batch, NEW a, NEW m, NEW fs, BatchFields(batch)
  PROVE  \E f : Children(batch, a, m, fs) = f[batch.count] /\ Walk(batch, a, m, fs, f)
  <1> DEFINE n == batch.count
             f == CHOOSE f : f = UnrolledBatch(batch, a, m, fs, f, n)
  <1>1. Children(batch, a, m, fs) = f[n]
    BY DEF Children, UnrolledBatch, ChildStep, Started
  <1>2. n \in Nat
    BY DEF BatchFields
  <1>3. f = UnrolledBatch(batch, a, m, fs, f, n)
    BY <1>2, ChildrenUnroll
  <1> HIDE DEF f
  <1>4. \A k \in 0..n : f[k] = IF k = 0 THEN Started(batch, m) ELSE ChildStep(batch, a, fs, f[k - 1])
    BY <1>3 DEF UnrolledBatch
  <1> HIDE DEF n
  <1>5. 0 \in 0..n /\ \A k \in 1..n : k \in 0..n /\ k # 0
    BY <1>2
  <1>6. Walk(batch, a, m, fs, f)
    BY <1>4, <1>5 DEF Walk, n
  <1>7. QED BY <1>1, <1>6 DEF n

(* A batch stops at the first child that fails.                            *)
LEMMA WalkSticks ==
  ASSUME NEW batch, NEW a, NEW m, NEW fs, NEW f, BatchFields(batch), Walk(batch, a, m, fs, f),
         NEW i \in 0..batch.count, ~f[i].ok
  PROVE  f[batch.count] = f[i]
  <1> DEFINE n == batch.count
             Bad == {k \in i..n : f[k] # f[i]}
  <1>n. n \in Nat /\ n \in i..n
    BY DEF BatchFields
  <1>1. SUFFICES ASSUME Bad # {} PROVE FALSE
    BY <1>n
  <1>2. PICK k \in Bad : \A j \in Bad : k <= j
    <2>1. Bad \subseteq Nat
      OBVIOUS
    <2> HIDE DEF Bad
    <2> QED BY <1>1, <2>1, HasLeast
  <1>3. k \in 1..n /\ k - 1 \in i..n /\ k - 1 \notin Bad
    BY <1>2, <1>n
  <1>4. f[k - 1] = f[i] /\ f[k] = ChildStep(batch, a, fs, f[k - 1])
    BY <1>3 DEF Walk
  <1>5. QED BY <1>2, <1>4 DEF ChildStep, RunChild

=============================================================================
