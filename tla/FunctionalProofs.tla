-------------------------- MODULE FunctionalProofs --------------------------
(***************************************************************************)
(* A command from the host's encoder to the functional device.             *)
(*                                                                         *)
(* The laws of the costs, for every Inf, MinInt and MaxWord.  One command  *)
(* on the wire, for every width of addresses, dimensions and lengths: what *)
(* the encoder writes is what the decoder accepts and reads back, and what *)
(* the decoder accepts is what the encoder writes.  The stream, for every  *)
(* sequence of commands: the sizes the first pass has added up are the     *)
(* sizes the second pass writes and the decoder uses up.  And the batch,   *)
(* for every memory, set of descriptors, fault set and number of children. *)
(***************************************************************************)
EXTENDS CostAlgebra, CommandStream, BatchReplay, AcceleratorOpsProofs

-----------------------------------------------------------------------------
(* The laws of CostAlgebra.                                                *)

(* Checked addition of two integers gives a cost or the error value.       *)
LEMMA AddClosed == \A l, r \in Int : CostAddChecked(l, r) \in Costs \cup {CostError}
  BY CostAssumption DEF CostAddChecked, Costs, CostError

(* The error value is an integer outside the range of costs.               *)
LEMMA ErrorIsNoCost == CostError \notin Costs /\ CostError \in Int
  BY CostAssumption DEF Costs, CostError

IntOperands == first \in Int /\ second \in Int /\ third \in Int

(* The operands under test are integers throughout.                        *)
LEMMA OperandsAreInts == CheckSpec => []IntOperands
  <1>1. CheckInit => IntOperands
    BY CostAssumption, WordAssumption DEF CheckInit, Words, IntOperands
  <1>2. IntOperands /\ [CheckNext]_operands => IntOperands'
    BY DEF CheckNext, operands, IntOperands
  <1>3. QED BY <1>1, <1>2, PTL DEF CheckSpec

(* accel_cost_add_checked reports an operand above Inf, in any position of *)
(* an ADD3, for every width.                                               *)
THEOREM InvalidHidesNowhere == CheckSpec => []InvalidNeverHidden
  <1>1. IntOperands => InvalidNeverHidden
    <2>1. \A l, r \in Int : l > Inf \/ r > Inf => CostAddChecked(l, r) = CostError
      BY CostAssumption DEF CostAddChecked
    <2>2. \A l, r \in Int : CostAddChecked(l, r) \in Int
      BY AddClosed, ErrorIsNoCost, CostAssumption DEF Costs
    <2>3. QED BY <2>1, <2>2, CostAssumption DEF InvalidNeverHidden, IntOperands, CostAdd3Checked
  <1>2. QED BY <1>1, OperandsAreInts, PTL

(* accel_cost_add_checked is exact, saturating or an error, for every      *)
(* width.                                                                  *)
THEOREM UnderflowIsReported == CheckSpec => []NoSilentUnderflow
  <1>1. IntOperands => NoSilentUnderflow
    BY CostAssumption DEF NoSilentUnderflow, IntOperands, CostAddChecked, Costs, CostError
  <1>2. QED BY <1>1, OperandsAreInts, PTL

(* Minimising before or after a checked addition gives the same, for every *)
(* width: what allows the datapath to regroup a reduction.                 *)
THEOREM AdditionDistributes == CheckSpec => []MinDistributes
  <1>1. IntOperands => MinDistributes
    BY CostAssumption DEF MinDistributes, IntOperands, CostAddChecked, MinCost, Costs, CostError
  <1>2. QED BY <1>1, OperandsAreInts, PTL

(* accel_cost_add keeps the order of costs, for every width.               *)
THEOREM HostAdditionMonotone == CheckSpec => []HostSumMonotone
  <1>1. IntOperands => HostSumMonotone
    BY CostAssumption DEF HostSumMonotone, IntOperands, CostAdd, CostAddChecked, Costs, CostError
  <1>2. QED BY <1>1, OperandsAreInts, PTL

-----------------------------------------------------------------------------
(* One command on the wire.                                                *)

WireTuples == [opcode : Nat, format : Nat, flags : Nat, n : Nat, m : Nat,
                q : Nat \X Nat \X Nat \X Nat, w : Nat \X Nat,
                h : Nat \X Nat \X Nat \X Nat \X Nat, reserved : Nat]

(* The fields a format does not use are zero.                              *)
IsWire(x) ==
    /\ x \in WireTuples /\ x.format \in Formats \ {5} /\ x.w = NoWords
    /\ x.format \in {1, 2, 3, 4} => x.h = NoHalves
    /\ x.format \in {1, 3, 6, 7, 8} => x.q[4] = 0
    /\ x.format \in {6, 7} => x.h[4] = 0
    /\ x.format \in {6, 7, 8} => x.h[5] = 0
    /\ x.format = 7 => x.q[3] = 0 /\ x.h[3] = 0

(* The opcode of each kind of command.                                     *)
LEMMA Opcodes ==
    /\ Opcode["reduce2"] = 1 /\ Opcode["reduce3"] = 2 /\ Opcode["reduce2_argmin"] = 3
    /\ Opcode["reduce3_argmin"] = 4 /\ Opcode["vector_add"] = 6 /\ Opcode["project"] = 7
    /\ Opcode["map3"] = 8
BY DEF Opcode

(* A format has one opcode and one size.                                   *)
LEMMA FormatSizes ==
    ASSUME NEW opcode, NEW format \in Formats
    PROVE  /\ WireFormatSize(opcode, format) \in Nat
           /\ WireFormatSize(opcode, format) # 0 => opcode = FormatOpcode[format]
           /\ WireFormatSize(FormatOpcode[format], format) \in {8, 12, 16}
<1>1. \A f \in Formats : FormatCells[f] \in {8, 12, 16}
  BY DEF Formats, FormatCells
<1> QED
  BY <1>1 DEF WireFormatSize

(* The opcode each format carries.                                         *)
LEMMA FormatOpcodes ==
    /\ FormatOpcode[1] = 1 /\ FormatOpcode[2] = 2 /\ FormatOpcode[3] = 3 /\ FormatOpcode[4] = 4
    /\ FormatOpcode[6] = 6 /\ FormatOpcode[7] = 6 /\ FormatOpcode[8] = 7 /\ FormatOpcode[9] = 8
BY DEF FormatOpcode

(* Fields, format by format.                                               *)
LEMMA FieldsOf ==
    ASSUME NEW x
    PROVE  LET q == x.q
               h == x.h
               n == x.n
           IN  /\ x.format = 1 =>
                    Fields(x) = Reduce2("reduce2", Vec(q[1], n, 1), Vec(q[2], n, 1), q[3])
               /\ x.format = 2 =>
                    Fields(x) = Reduce3("reduce3", Vec(q[1], n, 1), Vec(q[2], n, 1),
                                        Vec(q[3], n, 1), q[4])
               /\ x.format = 3 =>
                    Fields(x) = Reduce2("reduce2_argmin", Vec(q[1], n, 1), Vec(q[2], n, 1), q[3])
               /\ x.format = 4 =>
                    Fields(x) = Reduce3("reduce3_argmin", Vec(q[1], n, 1), Vec(q[2], n, 1),
                                        Vec(q[3], n, 1), q[4])
               /\ x.format = 6 =>
                    Fields(x) = VectorAdd(Vec(q[1], n, h[1]), Vec(q[2], n, h[2]),
                                          Out(q[3], n, h[3], "cost"))
               /\ x.format = 7 =>
                    Fields(x) = VectorAdd(Vec(q[1], n, h[1]), Vec(q[2], n, h[2]),
                                          Out(q[1], n, h[1], "cost"))
               /\ x.format = 8 =>
                    Fields(x) = Project(Mat(q[1], x.m, n, h[2], h[1]), Vec(q[2], n, h[3]),
                                        Out(q[3], x.m, h[4], "cost"))
               /\ x.format = 9 =>
                    Fields(x) = Map3Project(Vec(q[1], n, h[1]), Vec(q[2], n, h[2]),
                                            Mat(q[3], x.m, n, h[4], h[3]),
                                            Out(q[4], x.m, h[5], "pair"))
BY DEF Fields

LEMMA Put16Fits ==
    ASSUME NEW v \in Nat, v <= Max16
    PROVE  Put16(v) = v
BY WidthAssumption DEF Put16

LEMMA HalvesFit ==
    ASSUME NEW h \in Nat \X Nat \X Nat \X Nat \X Nat, \A i \in 1 .. 5 : h[i] <= Max16
    PROVE  [i \in DOMAIN h |-> Put16(h[i])] = h
<1>1. DOMAIN h = 1 .. 5 /\ \A i \in 1 .. 5 : h[i] \in Nat
  OBVIOUS
<1>2. \A i \in DOMAIN h : Put16(h[i]) = h[i]
  BY <1>1, Put16Fits
<1>3. h = [i \in DOMAIN h |-> h[i]]
  BY <1>1
<1> QED
  BY <1>2, <1>3

(* Wire is the record of its fields when they fit their width.             *)
LEMMA WireIs ==
    ASSUME NEW cmd, NEW x \in WireTuples, x.flags = 0, x.reserved = 0,
           x.opcode = Opcode[cmd.kind], x.format = FormatOf(cmd),
           x.n <= Max16, x.m <= Max16, \A i \in 1 .. 5 : x.h[i] <= Max16
    PROVE  Wire(cmd, x.n, x.m, x.q, x.w, x.h) = x
<1>1. Put16(x.n) = x.n /\ Put16(x.m) = x.m
  BY Put16Fits DEF WireTuples
<1>2. [i \in DOMAIN x.h |-> Put16(x.h[i])] = x.h
  BY HalvesFit DEF WireTuples
<1>3. x = [opcode |-> x.opcode, format |-> x.format, flags |-> x.flags, n |-> x.n, m |-> x.m,
           q |-> x.q, w |-> x.w, h |-> x.h, reserved |-> x.reserved]
  BY DEF WireTuples
<1> QED
  BY <1>1, <1>2, <1>3 DEF Wire

(* What fits the fields of its descriptor, with its shape, is valid.       *)
LEMMA FitsValid ==
    ASSUME NEW cmd, cmd.kind \in Kinds \ {"batch"}, \A v \in Halves(cmd) : v <= Max16,
           cmd.kind \in ReduceKinds => ReduceShape(cmd),
           cmd.kind = "vector_add" => VectorAddShape(cmd),
           cmd.kind = "project" => ProjectShape(cmd),
           cmd.kind = "map3" => Map3Shape(cmd)
    PROVE  ValidCommand(cmd) = "OK"
BY DEF ValidCommand, Verdict, Fits16, Kinds, ReduceKinds, Reduce2Kinds, Reduce3Kinds

LEMMA DecodedReduce2 ==
    ASSUME NEW x, IsWire(x), Decodes(x), x.format \in {1, 3}
    PROVE  IsPrimitive(Fields(x)) /\ Encode(Fields(x)) = x
<1> DEFINE kind == IF x.format = 1 THEN "reduce2" ELSE "reduce2_argmin"
           cmd == Reduce2(kind, Vec(x.q[1], x.n, 1), Vec(x.q[2], x.n, 1), x.q[3])
<1>1. Fields(x) = cmd
  BY FieldsOf
<1>2. /\ cmd.kind = kind /\ cmd.a = Vec(x.q[1], x.n, 1) /\ cmd.b = Vec(x.q[2], x.n, 1)
      /\ cmd.c = NoVec /\ cmd.m = NoMat /\ cmd.out = ScalarOut(kind, x.q[3])
      /\ DOMAIN cmd = {"kind", "a", "b", "c", "m", "out"}
  BY DEF Reduce2, Primitive
<1>3. x.q[1] \in Nat /\ x.q[2] \in Nat /\ x.q[3] \in Nat /\ x.n \in Nat /\ x \in WireTuples
  BY DEF IsWire, WireTuples
<1>4. IsPrimitive(cmd)
  BY <1>2, <1>3 DEF IsPrimitive, Kinds, ReduceKinds, Reduce2Kinds, Reduce3Kinds, VectorViews,
     MatrixViews, OutputViews, Vec, NoVec, Mat, NoMat, Out, ScalarOut, Reduce2, Primitive
<1>5. /\ cmd.a.length = x.n /\ cmd.a.base = x.q[1] /\ cmd.b.base = x.q[2]
      /\ cmd.out.base = x.q[3] /\ cmd.kind \in Reduce2Kinds
  BY <1>2 DEF Vec, ScalarOut, Out, Reduce2Kinds
<1> HIDE DEF cmd
<1>6. /\ ValidCommand(cmd) = "OK" /\ x.opcode = Opcode[cmd.kind] /\ x.format = FormatOf(cmd)
      /\ x.flags = 0 /\ x.reserved = 0 /\ x.m = 0
  BY <1>1 DEF Decodes
<1>7. x.n <= Max16
  BY <1>5, <1>6, ValidFits DEF Halves, Kinds, ReduceKinds, Reduce2Kinds
<1>8. Encode(cmd) = Wire(cmd, x.n, 0, <<x.q[1], x.q[2], x.q[3], 0>>, NoWords, NoHalves)
  BY <1>5 DEF Encode, Reduce2Kinds, Reduce3Kinds
<1>9. /\ x.q = <<x.q[1], x.q[2], x.q[3], 0>> /\ x.w = NoWords /\ x.h = NoHalves
      /\ \A i \in 1 .. 5 : x.h[i] <= Max16
  BY WidthAssumption DEF IsWire, WireTuples, NoHalves
<1>10. Wire(cmd, x.n, x.m, x.q, x.w, x.h) = x
  BY <1>3, <1>6, <1>7, <1>9, WireIs, WidthAssumption
<1> QED
  BY <1>1, <1>4, <1>6, <1>8, <1>9, <1>10

LEMMA DecodedReduce3 ==
    ASSUME NEW x, IsWire(x), Decodes(x), x.format \in {2, 4}
    PROVE  IsPrimitive(Fields(x)) /\ Encode(Fields(x)) = x
<1> DEFINE kind == IF x.format = 2 THEN "reduce3" ELSE "reduce3_argmin"
           cmd == Reduce3(kind, Vec(x.q[1], x.n, 1), Vec(x.q[2], x.n, 1), Vec(x.q[3], x.n, 1),
                          x.q[4])
<1>1. Fields(x) = cmd
  BY FieldsOf
<1>2. /\ cmd.kind = kind /\ cmd.a = Vec(x.q[1], x.n, 1) /\ cmd.b = Vec(x.q[2], x.n, 1)
      /\ cmd.c = Vec(x.q[3], x.n, 1) /\ cmd.m = NoMat /\ cmd.out = ScalarOut(kind, x.q[4])
  BY DEF Reduce3, Primitive
<1>3. /\ x.q[1] \in Nat /\ x.q[2] \in Nat /\ x.q[3] \in Nat /\ x.q[4] \in Nat /\ x.n \in Nat
      /\ x \in WireTuples
  BY DEF IsWire, WireTuples
<1>4. IsPrimitive(cmd)
  BY <1>2, <1>3 DEF IsPrimitive, Kinds, ReduceKinds, Reduce2Kinds, Reduce3Kinds, VectorViews,
     MatrixViews, OutputViews, Vec, NoVec, Mat, NoMat, Out, ScalarOut, Reduce3, Primitive
<1>5. /\ cmd.a.length = x.n /\ cmd.a.base = x.q[1] /\ cmd.b.base = x.q[2]
      /\ cmd.c.base = x.q[3] /\ cmd.out.base = x.q[4] /\ cmd.kind \in Reduce3Kinds
  BY <1>2 DEF Vec, ScalarOut, Out, Reduce3Kinds
<1> HIDE DEF cmd
<1>6. /\ ValidCommand(cmd) = "OK" /\ x.opcode = Opcode[cmd.kind] /\ x.format = FormatOf(cmd)
      /\ x.flags = 0 /\ x.reserved = 0 /\ x.m = 0
  BY <1>1 DEF Decodes
<1>7. x.n <= Max16
  BY <1>5, <1>6, ValidFits DEF Halves, Kinds, ReduceKinds, Reduce3Kinds
<1>8. Encode(cmd) = Wire(cmd, x.n, 0, <<x.q[1], x.q[2], x.q[3], x.q[4]>>, NoWords, NoHalves)
  BY <1>5 DEF Encode, Reduce2Kinds, Reduce3Kinds
<1>9. /\ x.q = <<x.q[1], x.q[2], x.q[3], x.q[4]>> /\ x.w = NoWords /\ x.h = NoHalves
      /\ \A i \in 1 .. 5 : x.h[i] <= Max16
  BY WidthAssumption DEF IsWire, WireTuples, NoHalves
<1>10. Wire(cmd, x.n, x.m, x.q, x.w, x.h) = x
  BY <1>3, <1>6, <1>7, <1>9, WireIs, WidthAssumption
<1> QED
  BY <1>1, <1>4, <1>6, <1>8, <1>9, <1>10

(* The general format of an addition is accepted only where the in-place   *)
(* one does not apply, and the in-place format names its destination first.*)
LEMMA DecodedAdd ==
    ASSUME NEW x, IsWire(x), Decodes(x), x.format \in {6, 7}
    PROVE  IsPrimitive(Fields(x)) /\ Encode(Fields(x)) = x
<1> DEFINE out == IF x.format = 6 THEN Out(x.q[3], x.n, x.h[3], "cost")
                  ELSE Out(x.q[1], x.n, x.h[1], "cost")
           cmd == VectorAdd(Vec(x.q[1], x.n, x.h[1]), Vec(x.q[2], x.n, x.h[2]), out)
<1>1. Fields(x) = cmd
  BY FieldsOf
<1>2. /\ cmd.kind = "vector_add" /\ cmd.a = Vec(x.q[1], x.n, x.h[1])
      /\ cmd.b = Vec(x.q[2], x.n, x.h[2]) /\ cmd.c = NoVec /\ cmd.m = NoMat /\ cmd.out = out
  BY DEF VectorAdd, Primitive
<1>3. /\ x.q[1] \in Nat /\ x.q[2] \in Nat /\ x.q[3] \in Nat /\ x.n \in Nat
      /\ x.h[1] \in Nat /\ x.h[2] \in Nat /\ x.h[3] \in Nat /\ x \in WireTuples
  BY DEF IsWire, WireTuples
<1>4. IsPrimitive(cmd)
  <2>1. out \in OutputViews
    BY <1>3 DEF OutputViews, Out
  <2> HIDE DEF out
  <2> QED
    BY <1>2, <1>3, <2>1 DEF IsPrimitive, Kinds, ReduceKinds, Reduce2Kinds, Reduce3Kinds,
       VectorViews, MatrixViews, Vec, NoVec, Mat, NoMat, VectorAdd, Primitive
<1>5. /\ cmd.a.length = x.n /\ cmd.a.base = x.q[1] /\ cmd.a.stride = x.h[1]
      /\ cmd.b.length = x.n /\ cmd.b.base = x.q[2] /\ cmd.b.stride = x.h[2]
      /\ cmd.out.base = IF x.format = 6 THEN x.q[3] ELSE x.q[1]
      /\ cmd.out.stride = IF x.format = 6 THEN x.h[3] ELSE x.h[1]
  BY <1>2 DEF Vec, Out
<1> HIDE DEF cmd, out
<1>6. /\ ValidCommand(cmd) = "OK" /\ x.opcode = Opcode[cmd.kind] /\ x.format = FormatOf(cmd)
      /\ x.flags = 0 /\ x.reserved = 0 /\ x.m = 0
  BY <1>1 DEF Decodes
<1>7. x.n <= Max16 /\ x.h[1] <= Max16 /\ x.h[2] <= Max16 /\ cmd.out.stride <= Max16
  BY <1>2, <1>5, <1>6, ValidFits DEF Halves, Kinds, ReduceKinds, Reduce2Kinds, Reduce3Kinds
<1>8. WireFirst(cmd) = cmd.a /\ WireSecond(cmd) = cmd.b
  BY <1>5, <1>6 DEF WireFirst, WireSecond, AliasesFirst, Inplace
<1>9. Encode(cmd) = Wire(cmd, x.n, 0, x.q, NoWords, x.h)
  <2>1. Encode(cmd) = EncodeVectorAdd(cmd)
    BY <1>2 DEF Encode, Reduce2Kinds, Reduce3Kinds
  <2>2. /\ x.q = <<x.q[1], x.q[2], IF FormatOf(cmd) = Inplace THEN 0 ELSE cmd.out.base, 0>>
        /\ x.h = <<x.h[1], x.h[2], IF FormatOf(cmd) = Inplace THEN 0 ELSE cmd.out.stride, 0, 0>>
    <3>1. x.q = <<x.q[1], x.q[2], x.q[3], x.q[4]>> /\ x.h = <<x.h[1], x.h[2], x.h[3], x.h[4], x.h[5]>>
      BY <1>3 DEF WireTuples
    <3>2. /\ x.q[4] = 0 /\ x.h[4] = 0 /\ x.h[5] = 0
          /\ x.q[3] = IF FormatOf(cmd) = Inplace THEN 0 ELSE cmd.out.base
          /\ x.h[3] = IF FormatOf(cmd) = Inplace THEN 0 ELSE cmd.out.stride
      BY <1>5, <1>6 DEF IsWire, Inplace
    <3> QED
      BY <3>1, <3>2
  <2> QED
    BY <1>5, <1>8, <2>1, <2>2 DEF EncodeVectorAdd
<1>10. x.w = NoWords /\ \A i \in 1 .. 5 : x.h[i] <= Max16
  <2>1. x.h[3] <= Max16 /\ x.h[4] <= Max16 /\ x.h[5] <= Max16
    BY <1>5, <1>7, WidthAssumption DEF IsWire
  <2>2. \A i \in 1 .. 5 : i \in {1, 2, 3, 4, 5}
    OBVIOUS
  <2> QED
    BY <1>7, <2>1, <2>2 DEF IsWire
<1>11. Wire(cmd, x.n, x.m, x.q, x.w, x.h) = x
  BY <1>3, <1>6, <1>7, <1>10, WireIs, WidthAssumption
<1> QED
  BY <1>1, <1>4, <1>6, <1>9, <1>10, <1>11

LEMMA DecodedProject ==
    ASSUME NEW x, IsWire(x), Decodes(x), x.format = 8
    PROVE  IsPrimitive(Fields(x)) /\ Encode(Fields(x)) = x
<1> DEFINE cmd == Project(Mat(x.q[1], x.m, x.n, x.h[2], x.h[1]), Vec(x.q[2], x.n, x.h[3]),
                          Out(x.q[3], x.m, x.h[4], "cost"))
<1>1. Fields(x) = cmd
  BY FieldsOf
<1>2. /\ cmd.kind = "project" /\ cmd.a = Vec(x.q[2], x.n, x.h[3]) /\ cmd.b = NoVec
      /\ cmd.c = NoVec /\ cmd.m = Mat(x.q[1], x.m, x.n, x.h[2], x.h[1])
      /\ cmd.out = Out(x.q[3], x.m, x.h[4], "cost")
  BY DEF Project, Primitive
<1>3. /\ x.q[1] \in Nat /\ x.q[2] \in Nat /\ x.q[3] \in Nat /\ x.n \in Nat /\ x.m \in Nat
      /\ x.h[1] \in Nat /\ x.h[2] \in Nat /\ x.h[3] \in Nat /\ x.h[4] \in Nat
      /\ x \in WireTuples
  BY DEF IsWire, WireTuples
<1>4. IsPrimitive(cmd)
  BY <1>2, <1>3 DEF IsPrimitive, Kinds, ReduceKinds, Reduce2Kinds, Reduce3Kinds, OutputViews,
     VectorViews, MatrixViews, Vec, NoVec, Mat, Out, Project, Primitive
<1>5. /\ cmd.a.base = x.q[2] /\ cmd.a.stride = x.h[3] /\ cmd.m.base = x.q[1]
      /\ cmd.m.rows = x.m /\ cmd.m.columns = x.n /\ cmd.m.row_stride = x.h[2]
      /\ cmd.m.column_stride = x.h[1] /\ cmd.out.base = x.q[3] /\ cmd.out.stride = x.h[4]
  BY <1>2 DEF Vec, Mat, Out
<1> HIDE DEF cmd
<1>6. /\ ValidCommand(cmd) = "OK" /\ x.opcode = Opcode[cmd.kind] /\ x.format = FormatOf(cmd)
      /\ x.flags = 0 /\ x.reserved = 0
  BY <1>1 DEF Decodes
<1>7. /\ x.n <= Max16 /\ x.m <= Max16 /\ x.h[1] <= Max16 /\ x.h[2] <= Max16
      /\ x.h[3] <= Max16 /\ x.h[4] <= Max16
  BY <1>2, <1>5, <1>6, ValidFits DEF Halves, Kinds, ReduceKinds, Reduce2Kinds, Reduce3Kinds
<1>8. Encode(cmd) = Wire(cmd, x.n, x.m, <<x.q[1], x.q[2], x.q[3], 0>>, NoWords,
                         <<x.h[1], x.h[2], x.h[3], x.h[4], 0>>)
  BY <1>2, <1>5 DEF Encode, Reduce2Kinds, Reduce3Kinds
<1>9. /\ x.q = <<x.q[1], x.q[2], x.q[3], 0>> /\ x.w = NoWords
      /\ x.h = <<x.h[1], x.h[2], x.h[3], x.h[4], 0>>
  BY DEF IsWire, WireTuples
<1>10. \A i \in 1 .. 5 : x.h[i] <= Max16
  <2>1. x.h[5] <= Max16
    BY WidthAssumption DEF IsWire
  <2>2. \A i \in 1 .. 5 : i \in {1, 2, 3, 4, 5}
    OBVIOUS
  <2> QED
    BY <1>7, <2>1, <2>2
<1>11. Wire(cmd, x.n, x.m, x.q, x.w, x.h) = x
  BY <1>3, <1>6, <1>7, <1>10, WireIs
<1> QED
  BY <1>1, <1>4, <1>8, <1>9, <1>11

LEMMA DecodedMap3 ==
    ASSUME NEW x, IsWire(x), Decodes(x), x.format = 9
    PROVE  IsPrimitive(Fields(x)) /\ Encode(Fields(x)) = x
<1> DEFINE cmd == Map3Project(Vec(x.q[1], x.n, x.h[1]), Vec(x.q[2], x.n, x.h[2]),
                              Mat(x.q[3], x.m, x.n, x.h[4], x.h[3]),
                              Out(x.q[4], x.m, x.h[5], "pair"))
<1>1. Fields(x) = cmd
  BY FieldsOf
<1>2. /\ cmd.kind = "map3" /\ cmd.a = Vec(x.q[1], x.n, x.h[1])
      /\ cmd.b = Vec(x.q[2], x.n, x.h[2]) /\ cmd.c = NoVec
      /\ cmd.m = Mat(x.q[3], x.m, x.n, x.h[4], x.h[3])
      /\ cmd.out = Out(x.q[4], x.m, x.h[5], "pair")
  BY DEF Map3Project, Primitive
<1>3. /\ x.q[1] \in Nat /\ x.q[2] \in Nat /\ x.q[3] \in Nat /\ x.q[4] \in Nat
      /\ x.n \in Nat /\ x.m \in Nat /\ x.h[1] \in Nat /\ x.h[2] \in Nat /\ x.h[3] \in Nat
      /\ x.h[4] \in Nat /\ x.h[5] \in Nat /\ x \in WireTuples
  BY DEF IsWire, WireTuples
<1>4. IsPrimitive(cmd)
  BY <1>2, <1>3 DEF IsPrimitive, Kinds, ReduceKinds, Reduce2Kinds, Reduce3Kinds, OutputViews,
     VectorViews, MatrixViews, Vec, NoVec, Mat, Out, Map3Project, Primitive
<1>5. /\ cmd.a.base = x.q[1] /\ cmd.a.stride = x.h[1] /\ cmd.b.base = x.q[2]
      /\ cmd.b.stride = x.h[2] /\ cmd.m.base = x.q[3] /\ cmd.m.rows = x.m
      /\ cmd.m.columns = x.n /\ cmd.m.row_stride = x.h[4] /\ cmd.m.column_stride = x.h[3]
      /\ cmd.out.base = x.q[4] /\ cmd.out.stride = x.h[5]
  BY <1>2 DEF Vec, Mat, Out
<1> HIDE DEF cmd
<1>6. /\ ValidCommand(cmd) = "OK" /\ x.opcode = Opcode[cmd.kind] /\ x.format = FormatOf(cmd)
      /\ x.flags = 0 /\ x.reserved = 0
  BY <1>1 DEF Decodes
<1>7. /\ x.n <= Max16 /\ x.m <= Max16 /\ x.h[1] <= Max16 /\ x.h[2] <= Max16
      /\ x.h[3] <= Max16 /\ x.h[4] <= Max16 /\ x.h[5] <= Max16
  BY <1>2, <1>5, <1>6, ValidFits DEF Halves, Kinds, ReduceKinds, Reduce2Kinds, Reduce3Kinds
<1>8. Encode(cmd) = Wire(cmd, x.n, x.m, <<x.q[1], x.q[2], x.q[3], x.q[4]>>, NoWords,
                         <<x.h[1], x.h[2], x.h[3], x.h[4], x.h[5]>>)
  BY <1>2, <1>5 DEF Encode, Reduce2Kinds, Reduce3Kinds
<1>9. /\ x.q = <<x.q[1], x.q[2], x.q[3], x.q[4]>> /\ x.w = NoWords
      /\ x.h = <<x.h[1], x.h[2], x.h[3], x.h[4], x.h[5]>>
  BY DEF IsWire, WireTuples
<1>10. \A i \in 1 .. 5 : x.h[i] <= Max16
  <2>1. \A i \in 1 .. 5 : i \in {1, 2, 3, 4, 5}
    OBVIOUS
  <2> QED
    BY <1>7, <2>1
<1>11. Wire(cmd, x.n, x.m, x.q, x.w, x.h) = x
  BY <1>3, <1>6, <1>7, <1>10, WireIs
<1> QED
  BY <1>1, <1>4, <1>8, <1>9, <1>11

(* What pcaa_decode_one accepts is what pcaa_encode_one writes.            *)
LEMMA DecodedIsCanonical ==
    ASSUME NEW x, IsWire(x), Decodes(x)
    PROVE  /\ IsPrimitive(Fields(x)) /\ ValidCommand(Fields(x)) = "OK"
           /\ Encode(Fields(x)) = x
<1>1. x.format \in {1, 2, 3, 4, 6, 7, 8, 9}
  BY DEF IsWire, Formats
<1>2. IsPrimitive(Fields(x)) /\ Encode(Fields(x)) = x
  BY <1>1, DecodedReduce2, DecodedReduce3, DecodedAdd, DecodedProject, DecodedMap3
<1> QED
  BY <1>2 DEF Decodes

(* A view or a primitive is the record of its fields.                      *)
LEMMA ViewsAre ==
    /\ \A v \in VectorViews : v = Vec(v.base, v.length, v.stride)
    /\ \A m \in MatrixViews : m = Mat(m.base, m.rows, m.columns, m.row_stride, m.column_stride)
    /\ \A o \in OutputViews : o = Out(o.base, o.length, o.stride, o.kind)
BY DEF VectorViews, MatrixViews, OutputViews, Vec, Mat, Out

LEMMA PrimitiveIs ==
    ASSUME NEW cmd, IsPrimitive(cmd)
    PROVE  /\ cmd = Primitive(cmd.kind, cmd.a, cmd.b, cmd.c, cmd.m, cmd.out)
           /\ cmd.kind \in Kinds \ {"batch"}
           /\ cmd.a \in VectorViews /\ cmd.b \in VectorViews /\ cmd.c \in VectorViews
           /\ cmd.m \in MatrixViews /\ cmd.out \in OutputViews
<1>1. cmd \in [kind : Kinds \ {"batch"}, a : VectorViews, b : VectorViews, c : VectorViews,
               m : MatrixViews, out : OutputViews]
  BY DEF IsPrimitive
<1> QED
  BY <1>1 DEF Primitive

LEMMA KindFormat ==
    ASSUME NEW cmd, IsPrimitive(cmd)
    PROVE  /\ FormatOf(cmd) \in Formats \ {5} /\ Opcode[cmd.kind] = FormatOpcode[FormatOf(cmd)]
           /\ Opcode[cmd.kind] \in Nat /\ EncodedSize(cmd) \in {8, 12, 16}
           /\ cmd.kind = "reduce2" => FormatOf(cmd) = 1
           /\ cmd.kind = "reduce3" => FormatOf(cmd) = 2
           /\ cmd.kind = "reduce2_argmin" => FormatOf(cmd) = 3
           /\ cmd.kind = "reduce3_argmin" => FormatOf(cmd) = 4
           /\ cmd.kind = "vector_add" => FormatOf(cmd) \in {6, 7}
           /\ cmd.kind = "project" => FormatOf(cmd) = 8
           /\ cmd.kind = "map3" => FormatOf(cmd) = 9
<1>1. cmd.kind \in {"reduce2", "reduce3", "reduce2_argmin", "reduce3_argmin", "vector_add",
                    "project", "map3"}
  BY PrimitiveIs DEF Kinds, ReduceKinds, Reduce2Kinds, Reduce3Kinds
<1>2. /\ cmd.kind = "reduce2" => FormatOf(cmd) = 1
      /\ cmd.kind = "reduce3" => FormatOf(cmd) = 2
      /\ cmd.kind = "reduce2_argmin" => FormatOf(cmd) = 3
      /\ cmd.kind = "reduce3_argmin" => FormatOf(cmd) = 4
      /\ cmd.kind = "vector_add" => FormatOf(cmd) \in {6, 7}
      /\ cmd.kind = "project" => FormatOf(cmd) = 8
      /\ cmd.kind = "map3" => FormatOf(cmd) = 9
  BY <1>1, Opcodes DEF FormatOf, General, Inplace, ReduceKinds, Reduce2Kinds, Reduce3Kinds
<1>3. /\ FormatOf(cmd) \in Formats \ {5} /\ Opcode[cmd.kind] = FormatOpcode[FormatOf(cmd)]
      /\ Opcode[cmd.kind] \in Nat
  BY <1>1, <1>2, Opcodes, FormatOpcodes DEF Formats
<1>4. EncodedSize(cmd) \in {8, 12, 16}
  BY <1>3, FormatSizes DEF EncodedSize
<1> QED
  BY <1>2, <1>3, <1>4

(* The fields of the descriptor the encoder writes.                        *)
LEMMA WireFields ==
    ASSUME NEW cmd, IsPrimitive(cmd), NEW n \in Nat, n <= Max16, NEW m \in Nat, m <= Max16,
           NEW q \in Nat \X Nat \X Nat \X Nat,
           NEW h \in Nat \X Nat \X Nat \X Nat \X Nat, \A i \in 1 .. 5 : h[i] <= Max16,
           NEW x, x = Wire(cmd, n, m, q, NoWords, h)
    PROVE  /\ x \in WireTuples /\ x.opcode = Opcode[cmd.kind] /\ x.format = FormatOf(cmd)
           /\ x.flags = 0 /\ x.reserved = 0 /\ x.w = NoWords
           /\ x.n = n /\ x.m = m /\ x.q = q /\ x.h = h
<1>1. Put16(n) = n /\ Put16(m) = m
  BY Put16Fits
<1>2. [i \in DOMAIN h |-> Put16(h[i])] = h
  BY HalvesFit
<1>3. x = [opcode |-> Opcode[cmd.kind], format |-> FormatOf(cmd), flags |-> 0, n |-> n, m |-> m,
           q |-> q, w |-> NoWords, h |-> h, reserved |-> 0]
  BY <1>1, <1>2 DEF Wire
<1>4. Opcode[cmd.kind] \in Nat /\ FormatOf(cmd) \in Nat /\ NoWords \in Nat \X Nat
  BY KindFormat DEF Formats, NoWords
<1> QED
  BY <1>3, <1>4 DEF WireTuples

(* A descriptor the decoder accepts.                                       *)
LEMMA DecodesBack ==
    ASSUME NEW cmd, IsPrimitive(cmd), ValidCommand(cmd) = "OK", NEW x,
           x.opcode = Opcode[cmd.kind], x.format = FormatOf(cmd), x.flags = 0, x.reserved = 0,
           x.format \in 1 .. 7 => x.m = 0, Fields(x) = cmd
    PROVE  Decodes(x) /\ CellsOf(x) = EncodedSize(cmd)
<1>1. x.format # 5 /\ EncodedSize(cmd) # 0
  BY KindFormat
<1>2. WireFormatSize(x.opcode, x.format) = EncodedSize(cmd)
  BY DEF EncodedSize
<1> QED
  BY <1>1, <1>2 DEF Decodes, CellsOf

RoundTrips(cmd, x) == /\ IsWire(x) /\ Decodes(x) /\ CellsOf(x) = EncodedSize(cmd)
                      /\ SameCommand(cmd, Fields(x))

LEMMA EncodedReduce2 ==
    ASSUME NEW cmd, IsPrimitive(cmd), ValidCommand(cmd) = "OK", cmd.kind \in Reduce2Kinds,
           NEW x, x = Encode(cmd)
    PROVE  RoundTrips(cmd, x)
<1> DEFINE n == cmd.a.length
           q == <<cmd.a.base, cmd.b.base, cmd.out.base, 0>>
           h == NoHalves
<1>1. /\ cmd.a \in VectorViews /\ cmd.b \in VectorViews /\ cmd.out \in OutputViews
      /\ cmd = Primitive(cmd.kind, cmd.a, cmd.b, cmd.c, cmd.m, cmd.out)
      /\ cmd.c = NoVec /\ cmd.m = NoMat /\ cmd.out = ScalarOut(cmd.kind, cmd.out.base)
  BY PrimitiveIs DEF IsPrimitive, Reduce2Kinds, Reduce3Kinds, ReduceKinds
<1>2. /\ n \in Nat /\ q \in Nat \X Nat \X Nat \X Nat /\ h \in Nat \X Nat \X Nat \X Nat \X Nat
      /\ \A i \in 1 .. 5 : h[i] <= Max16
  BY <1>1, WidthAssumption DEF VectorViews, OutputViews, NoHalves
<1>3. /\ n <= Max16 /\ cmd.a.stride = 1 /\ cmd.b.stride = 1 /\ cmd.b.length = n
  BY ValidFits DEF Halves, ReduceShape, Kinds, ReduceKinds, Reduce2Kinds
<1>4. x = Wire(cmd, n, 0, q, NoWords, h)
  BY DEF Encode, Reduce2Kinds, Reduce3Kinds
<1>5. /\ x \in WireTuples /\ x.opcode = Opcode[cmd.kind] /\ x.format = FormatOf(cmd)
      /\ x.flags = 0 /\ x.reserved = 0 /\ x.w = NoWords /\ x.n = n /\ x.m = 0
      /\ x.q = q /\ x.h = h
  <2>1. 0 \in Nat /\ 0 <= Max16 /\ n \in Nat /\ n <= Max16
    BY <1>2, <1>3, WidthAssumption
  <2> HIDE DEF n, q, h
  <2> QED
    BY <1>2, <1>4, <2>1, WireFields
<1>6. x.format \in {1, 3} /\ (x.format = 1 <=> cmd.kind = "reduce2")
      /\ (x.format = 3 <=> cmd.kind = "reduce2_argmin")
  BY <1>5, KindFormat DEF Reduce2Kinds
<1>7. IsWire(x)
  BY <1>5, <1>6 DEF IsWire, Formats, NoHalves
<1>8. Fields(x) = cmd
  <2>1. Fields(x) = Reduce2(cmd.kind, Vec(x.q[1], x.n, 1), Vec(x.q[2], x.n, 1), x.q[3])
    BY <1>6, FieldsOf
  <2>2. x.q[1] = cmd.a.base /\ x.q[2] = cmd.b.base /\ x.q[3] = cmd.out.base /\ x.n = n
    BY <1>5
  <2>3. Vec(x.q[1], x.n, 1) = cmd.a /\ Vec(x.q[2], x.n, 1) = cmd.b
    BY <1>1, <1>3, <2>2, ViewsAre
  <2> QED
    BY <1>1, <2>1, <2>2, <2>3 DEF Reduce2
<1>9. Decodes(x) /\ CellsOf(x) = EncodedSize(cmd)
  BY <1>5, <1>8, DecodesBack
<1> QED
  BY <1>7, <1>8, <1>9 DEF RoundTrips, SameCommand

LEMMA EncodedReduce3 ==
    ASSUME NEW cmd, IsPrimitive(cmd), ValidCommand(cmd) = "OK", cmd.kind \in Reduce3Kinds,
           NEW x, x = Encode(cmd)
    PROVE  RoundTrips(cmd, x)
<1> DEFINE n == cmd.a.length
           q == <<cmd.a.base, cmd.b.base, cmd.c.base, cmd.out.base>>
           h == NoHalves
<1>1. /\ cmd.a \in VectorViews /\ cmd.b \in VectorViews /\ cmd.c \in VectorViews
      /\ cmd.out \in OutputViews
      /\ cmd = Primitive(cmd.kind, cmd.a, cmd.b, cmd.c, cmd.m, cmd.out)
      /\ cmd.m = NoMat /\ cmd.out = ScalarOut(cmd.kind, cmd.out.base)
  BY PrimitiveIs DEF IsPrimitive, Reduce2Kinds, Reduce3Kinds, ReduceKinds
<1>2. /\ n \in Nat /\ q \in Nat \X Nat \X Nat \X Nat /\ h \in Nat \X Nat \X Nat \X Nat \X Nat
      /\ \A i \in 1 .. 5 : h[i] <= Max16
  BY <1>1, WidthAssumption DEF VectorViews, OutputViews, NoHalves
<1>3. /\ n <= Max16 /\ cmd.a.stride = 1 /\ cmd.b.stride = 1 /\ cmd.b.length = n
      /\ cmd.c.stride = 1 /\ cmd.c.length = n
  BY ValidFits DEF Halves, ReduceShape, Kinds, ReduceKinds, Reduce3Kinds
<1>4. x = Wire(cmd, n, 0, q, NoWords, h)
  BY DEF Encode, Reduce2Kinds, Reduce3Kinds
<1>5. /\ x \in WireTuples /\ x.opcode = Opcode[cmd.kind] /\ x.format = FormatOf(cmd)
      /\ x.flags = 0 /\ x.reserved = 0 /\ x.w = NoWords /\ x.n = n /\ x.m = 0
      /\ x.q = q /\ x.h = h
  <2>1. 0 \in Nat /\ 0 <= Max16 /\ n \in Nat /\ n <= Max16
    BY <1>2, <1>3, WidthAssumption
  <2> HIDE DEF n, q, h
  <2> QED
    BY <1>2, <1>4, <2>1, WireFields
<1>6. x.format \in {2, 4} /\ (x.format = 2 <=> cmd.kind = "reduce3")
      /\ (x.format = 4 <=> cmd.kind = "reduce3_argmin")
  BY <1>5, KindFormat DEF Reduce3Kinds
<1>7. IsWire(x)
  BY <1>5, <1>6 DEF IsWire, Formats, NoHalves
<1>8. Fields(x) = cmd
  <2>1. Fields(x) = Reduce3(cmd.kind, Vec(x.q[1], x.n, 1), Vec(x.q[2], x.n, 1),
                            Vec(x.q[3], x.n, 1), x.q[4])
    BY <1>6, FieldsOf
  <2>2. /\ x.q[1] = cmd.a.base /\ x.q[2] = cmd.b.base /\ x.q[3] = cmd.c.base
        /\ x.q[4] = cmd.out.base /\ x.n = n
    BY <1>5
  <2>3. /\ Vec(x.q[1], x.n, 1) = cmd.a /\ Vec(x.q[2], x.n, 1) = cmd.b
        /\ Vec(x.q[3], x.n, 1) = cmd.c
    BY <1>1, <1>3, <2>2, ViewsAre
  <2> QED
    BY <1>1, <2>1, <2>2, <2>3 DEF Reduce3
<1>9. Decodes(x) /\ CellsOf(x) = EncodedSize(cmd)
  BY <1>5, <1>8, DecodesBack
<1> QED
  BY <1>7, <1>8, <1>9 DEF RoundTrips, SameCommand

LEMMA EncodedProject ==
    ASSUME NEW cmd, IsPrimitive(cmd), ValidCommand(cmd) = "OK", cmd.kind = "project",
           NEW x, x = Encode(cmd)
    PROVE  RoundTrips(cmd, x)
<1> DEFINE n == cmd.m.columns
           m == cmd.m.rows
           q == <<cmd.m.base, cmd.a.base, cmd.out.base, 0>>
           h == <<cmd.m.column_stride, cmd.m.row_stride, cmd.a.stride, cmd.out.stride, 0>>
<1>1. /\ cmd.a \in VectorViews /\ cmd.m \in MatrixViews /\ cmd.out \in OutputViews
      /\ cmd = Primitive(cmd.kind, cmd.a, cmd.b, cmd.c, cmd.m, cmd.out)
      /\ cmd.b = NoVec /\ cmd.c = NoVec
  BY PrimitiveIs DEF IsPrimitive, Reduce3Kinds
<1>2. /\ n \in Nat /\ m \in Nat /\ q \in Nat \X Nat \X Nat \X Nat
      /\ h \in Nat \X Nat \X Nat \X Nat \X Nat
  BY <1>1 DEF VectorViews, OutputViews, MatrixViews
<1>3. /\ n <= Max16 /\ m <= Max16 /\ cmd.m.column_stride <= Max16 /\ cmd.m.row_stride <= Max16
      /\ cmd.a.stride <= Max16 /\ cmd.out.stride <= Max16
      /\ cmd.a.length = n /\ cmd.out.length = m /\ cmd.out.kind = "cost"
  BY ValidFits DEF Halves, ProjectShape, Kinds, ReduceKinds, Reduce2Kinds, Reduce3Kinds
<1>4. x = Wire(cmd, n, m, q, NoWords, h)
  BY DEF Encode, Reduce2Kinds, Reduce3Kinds
<1>5. \A i \in 1 .. 5 : h[i] <= Max16
  <2>1. \A i \in 1 .. 5 : i \in {1, 2, 3, 4, 5}
    OBVIOUS
  <2> QED
    BY <1>3, <2>1, WidthAssumption
<1>6. /\ x \in WireTuples /\ x.opcode = Opcode[cmd.kind] /\ x.format = FormatOf(cmd)
      /\ x.flags = 0 /\ x.reserved = 0 /\ x.w = NoWords /\ x.n = n /\ x.m = m
      /\ x.q = q /\ x.h = h
  <2> HIDE DEF n, m, q, h
  <2> QED
    BY <1>2, <1>3, <1>4, <1>5, WireFields
<1>7. x.format = 8
  BY <1>6, KindFormat
<1>8. IsWire(x)
  BY <1>6, <1>7 DEF IsWire, Formats
<1>9. Fields(x) = cmd
  <2>1. Fields(x) = Project(Mat(x.q[1], x.m, x.n, x.h[2], x.h[1]), Vec(x.q[2], x.n, x.h[3]),
                            Out(x.q[3], x.m, x.h[4], "cost"))
    BY <1>7, FieldsOf
  <2>2. /\ x.q[1] = cmd.m.base /\ x.q[2] = cmd.a.base /\ x.q[3] = cmd.out.base
        /\ x.h[1] = cmd.m.column_stride /\ x.h[2] = cmd.m.row_stride /\ x.h[3] = cmd.a.stride
        /\ x.h[4] = cmd.out.stride /\ x.n = n /\ x.m = m
    BY <1>6
  <2>3. /\ Mat(x.q[1], x.m, x.n, x.h[2], x.h[1]) = cmd.m /\ Vec(x.q[2], x.n, x.h[3]) = cmd.a
        /\ Out(x.q[3], x.m, x.h[4], "cost") = cmd.out
    BY <1>1, <1>3, <2>2, ViewsAre
  <2> QED
    BY <1>1, <2>1, <2>3 DEF Project
<1>10. Decodes(x) /\ CellsOf(x) = EncodedSize(cmd)
  <2>1. x.format \notin 1 .. 7
    BY <1>7
  <2> HIDE DEF n, m, q, h
  <2> QED
    BY <1>6, <1>9, <2>1, DecodesBack
<1> QED
  BY <1>8, <1>9, <1>10 DEF RoundTrips, SameCommand

LEMMA EncodedMap3 ==
    ASSUME NEW cmd, IsPrimitive(cmd), ValidCommand(cmd) = "OK", cmd.kind = "map3",
           NEW x, x = Encode(cmd)
    PROVE  RoundTrips(cmd, x)
<1> DEFINE n == cmd.m.columns
           m == cmd.m.rows
           q == <<cmd.a.base, cmd.b.base, cmd.m.base, cmd.out.base>>
           h == <<cmd.a.stride, cmd.b.stride, cmd.m.column_stride, cmd.m.row_stride,
                  cmd.out.stride>>
<1>1. /\ cmd.a \in VectorViews /\ cmd.b \in VectorViews /\ cmd.m \in MatrixViews
      /\ cmd.out \in OutputViews
      /\ cmd = Primitive(cmd.kind, cmd.a, cmd.b, cmd.c, cmd.m, cmd.out) /\ cmd.c = NoVec
  BY PrimitiveIs DEF IsPrimitive, Reduce3Kinds
<1>2. /\ n \in Nat /\ m \in Nat /\ q \in Nat \X Nat \X Nat \X Nat
      /\ h \in Nat \X Nat \X Nat \X Nat \X Nat
  BY <1>1 DEF VectorViews, OutputViews, MatrixViews
<1>3. /\ n <= Max16 /\ m <= Max16 /\ cmd.m.column_stride <= Max16 /\ cmd.m.row_stride <= Max16
      /\ cmd.a.stride <= Max16 /\ cmd.b.stride <= Max16 /\ cmd.out.stride <= Max16
      /\ cmd.a.length = n /\ cmd.b.length = n /\ cmd.out.length = m /\ cmd.out.kind = "pair"
  BY ValidFits DEF Halves, Map3Shape, Kinds, ReduceKinds, Reduce2Kinds, Reduce3Kinds
<1>4. x = Wire(cmd, n, m, q, NoWords, h)
  BY DEF Encode, Reduce2Kinds, Reduce3Kinds
<1>5. \A i \in 1 .. 5 : h[i] <= Max16
  <2>1. \A i \in 1 .. 5 : i \in {1, 2, 3, 4, 5}
    OBVIOUS
  <2> QED
    BY <1>3, <2>1
<1>6. /\ x \in WireTuples /\ x.opcode = Opcode[cmd.kind] /\ x.format = FormatOf(cmd)
      /\ x.flags = 0 /\ x.reserved = 0 /\ x.w = NoWords /\ x.n = n /\ x.m = m
      /\ x.q = q /\ x.h = h
  <2> HIDE DEF n, m, q, h
  <2> QED
    BY <1>2, <1>3, <1>4, <1>5, WireFields
<1>7. x.format = 9
  BY <1>6, KindFormat
<1>8. IsWire(x)
  BY <1>6, <1>7 DEF IsWire, Formats
<1>9. Fields(x) = cmd
  <2>1. Fields(x) = Map3Project(Vec(x.q[1], x.n, x.h[1]), Vec(x.q[2], x.n, x.h[2]),
                                Mat(x.q[3], x.m, x.n, x.h[4], x.h[3]),
                                Out(x.q[4], x.m, x.h[5], "pair"))
    BY <1>7, FieldsOf
  <2>2. /\ x.q[1] = cmd.a.base /\ x.q[2] = cmd.b.base /\ x.q[3] = cmd.m.base
        /\ x.q[4] = cmd.out.base /\ x.h[1] = cmd.a.stride /\ x.h[2] = cmd.b.stride
        /\ x.h[3] = cmd.m.column_stride /\ x.h[4] = cmd.m.row_stride
        /\ x.h[5] = cmd.out.stride /\ x.n = n /\ x.m = m
    BY <1>6
  <2>3. /\ Vec(x.q[1], x.n, x.h[1]) = cmd.a /\ Vec(x.q[2], x.n, x.h[2]) = cmd.b
        /\ Mat(x.q[3], x.m, x.n, x.h[4], x.h[3]) = cmd.m
        /\ Out(x.q[4], x.m, x.h[5], "pair") = cmd.out
    BY <1>1, <1>3, <2>2, ViewsAre
  <2> QED
    BY <1>1, <2>1, <2>3 DEF Map3Project
<1>10. Decodes(x) /\ CellsOf(x) = EncodedSize(cmd)
  <2>1. x.format \notin 1 .. 7
    BY <1>7
  <2> HIDE DEF n, m, q, h
  <2> QED
    BY <1>6, <1>9, <2>1, DecodesBack
<1> QED
  BY <1>8, <1>9, <1>10 DEF RoundTrips, SameCommand
(* The in-place form names its destination first: an addition into its     *)
(* second operand is written, and read back, with the operands exchanged.  *)
LEMMA ExchangedAdd ==
    ASSUME NEW cmd, IsPrimitive(cmd), ValidCommand(cmd) = "OK", cmd.kind = "vector_add",
           AliasesSecond(cmd), NEW got, got = [cmd EXCEPT !.a = cmd.b, !.b = cmd.a]
    PROVE  /\ IsPrimitive(got) /\ ValidCommand(got) = "OK" /\ FormatOf(got) = FormatOf(cmd)
           /\ FormatOf(cmd) = Inplace /\ AliasesFirst(got)
<1>1. /\ cmd = Primitive(cmd.kind, cmd.a, cmd.b, cmd.c, cmd.m, cmd.out)
      /\ cmd.a \in VectorViews /\ cmd.b \in VectorViews /\ cmd.c \in VectorViews
      /\ cmd.m \in MatrixViews /\ cmd.out \in OutputViews /\ cmd.c = NoVec /\ cmd.m = NoMat
  BY PrimitiveIs DEF IsPrimitive, Reduce3Kinds
<1>2. got = Primitive(cmd.kind, cmd.b, cmd.a, cmd.c, cmd.m, cmd.out)
  BY <1>1 DEF Primitive
<1>3. /\ got.kind = "vector_add" /\ got.a = cmd.b /\ got.b = cmd.a /\ got.c = cmd.c
      /\ got.m = cmd.m /\ got.out = cmd.out
  BY <1>2 DEF Primitive
<1>4. IsPrimitive(got)
  <2>1. got \in [kind : Kinds \ {"batch"}, a : VectorViews, b : VectorViews, c : VectorViews,
                 m : MatrixViews, out : OutputViews]
    BY <1>1, <1>2 DEF Primitive, Kinds
  <2> QED
    BY <1>1, <1>3, <2>1 DEF IsPrimitive, ReduceKinds, Reduce2Kinds, Reduce3Kinds
<1>5. AliasesFirst(got) /\ (AliasesSecond(got) <=> AliasesFirst(cmd))
  BY <1>3 DEF AliasesFirst, AliasesSecond
<1>6. FormatOf(got) = Inplace /\ FormatOf(cmd) = Inplace
  BY <1>3, <1>5 DEF FormatOf, ReduceKinds, Reduce2Kinds, Reduce3Kinds
<1>7. Fits16(Halves(cmd)) /\ VectorAddShape(cmd)
  BY ValidFits DEF Fits16, Kinds, ReduceKinds, Reduce2Kinds, Reduce3Kinds
<1>8. VectorAddShape(got)
  BY <1>3, <1>7 DEF VectorAddShape, AliasesFirst, AliasesSecond
<1>9. cmd.b.length = cmd.a.length
  BY <1>7 DEF VectorAddShape
<1>10. Halves(got) = {got.a.length, got.a.stride, got.b.stride, got.out.stride}
       /\ Halves(cmd) = {cmd.a.length, cmd.a.stride, cmd.b.stride, cmd.out.stride}
  BY <1>3 DEF Halves, ReduceKinds, Reduce2Kinds, Reduce3Kinds
<1>11. Fits16(Halves(got))
  BY <1>3, <1>7, <1>9, <1>10 DEF Fits16
<1>12. ValidCommand(got) = "OK"
  BY <1>3, <1>8, <1>11 DEF ValidCommand, Verdict, ReduceKinds, Reduce2Kinds, Reduce3Kinds
<1> QED
  BY <1>4, <1>5, <1>6, <1>12
(* The descriptor of an addition that reads back as got, the command or    *)
(* its exchanged form.                                                     *)
LEMMA WrittenAdd ==
    ASSUME NEW cmd, IsPrimitive(cmd), cmd.kind = "vector_add",
           NEW got, IsPrimitive(got), ValidCommand(got) = "OK", got.kind = "vector_add",
           FormatOf(got) = FormatOf(cmd), FormatOf(got) = Inplace => AliasesFirst(got),
           WireFirst(cmd) = got.a, WireSecond(cmd) = got.b, got.out = cmd.out,
           SameCommand(cmd, got), NEW x, x = Encode(cmd)
    PROVE  RoundTrips(cmd, x)
<1> DEFINE n == got.a.length
           q == <<got.a.base, got.b.base, IF FormatOf(cmd) = Inplace THEN 0 ELSE got.out.base, 0>>
           h == <<got.a.stride, got.b.stride,
                  IF FormatOf(cmd) = Inplace THEN 0 ELSE got.out.stride, 0, 0>>
<1>1. /\ got.a \in VectorViews /\ got.b \in VectorViews /\ got.out \in OutputViews
      /\ got = Primitive(got.kind, got.a, got.b, got.c, got.m, got.out)
      /\ got.c = NoVec /\ got.m = NoMat
  BY PrimitiveIs DEF IsPrimitive, Reduce3Kinds
<1>2. /\ got.a.base \in Nat /\ got.b.base \in Nat /\ got.out.base \in Nat
      /\ got.a.length \in Nat /\ got.a.stride \in Nat /\ got.b.stride \in Nat
      /\ got.out.stride \in Nat
  BY <1>1 DEF VectorViews, OutputViews
<1>3. n \in Nat /\ q \in Nat \X Nat \X Nat \X Nat /\ h \in Nat \X Nat \X Nat \X Nat \X Nat
  BY <1>2
<1>4. /\ n <= Max16 /\ got.a.stride <= Max16 /\ got.b.stride <= Max16
      /\ got.out.stride <= Max16 /\ got.b.length = n /\ got.out.length = n
      /\ got.out.kind = "cost"
  BY ValidFits DEF Halves, VectorAddShape, Kinds, ReduceKinds, Reduce2Kinds, Reduce3Kinds
<1>5. x = Wire(cmd, n, 0, q, NoWords, h)
  BY DEF Encode, EncodeVectorAdd, Reduce2Kinds, Reduce3Kinds
<1>6. \A i \in 1 .. 5 : h[i] <= Max16
  <2>1. \A i \in 1 .. 5 : i \in {1, 2, 3, 4, 5}
    OBVIOUS
  <2> QED
    BY <1>4, <2>1, WidthAssumption
<1>7. /\ x \in WireTuples /\ x.opcode = Opcode[cmd.kind] /\ x.format = FormatOf(cmd)
      /\ x.flags = 0 /\ x.reserved = 0 /\ x.w = NoWords /\ x.n = n /\ x.m = 0
      /\ x.q = q /\ x.h = h
  <2>1. 0 \in Nat /\ 0 <= Max16 /\ n <= Max16
    BY <1>4, WidthAssumption
  <2> HIDE DEF n, q, h
  <2> QED
    BY <1>3, <1>5, <1>6, <2>1, WireFields, SMTT(60)
<1>8. x.format \in {6, 7}
  BY <1>7, KindFormat
<1>9. IsWire(x)
  BY <1>7, <1>8 DEF IsWire, Formats, Inplace
<1>10. /\ x.q[1] = got.a.base /\ x.q[2] = got.b.base /\ x.h[1] = got.a.stride
       /\ x.h[2] = got.b.stride
       /\ x.format = 6 => x.q[3] = got.out.base /\ x.h[3] = got.out.stride
  BY <1>7 DEF Inplace
<1>11. Vec(x.q[1], x.n, x.h[1]) = got.a /\ Vec(x.q[2], x.n, x.h[2]) = got.b
  <2> HIDE DEF q, h
  <2> QED
    BY <1>1, <1>4, <1>7, <1>10, ViewsAre
<1>12. Fields(x) = got
  <2>1. CASE x.format = 6
    <3>1. Fields(x) = VectorAdd(Vec(x.q[1], x.n, x.h[1]), Vec(x.q[2], x.n, x.h[2]),
                                Out(x.q[3], x.n, x.h[3], "cost"))
      BY <2>1, FieldsOf
    <3>2. Out(x.q[3], x.n, x.h[3], "cost") = got.out
      <4> HIDE DEF q, h
      <4> QED
        BY <1>1, <1>4, <1>7, <1>10, <2>1, ViewsAre
    <3> QED
      BY <1>1, <1>11, <3>1, <3>2 DEF VectorAdd
  <2>2. CASE x.format = 7
    <3>1. Fields(x) = VectorAdd(Vec(x.q[1], x.n, x.h[1]), Vec(x.q[2], x.n, x.h[2]),
                                Out(x.q[1], x.n, x.h[1], "cost"))
      BY <2>2, FieldsOf
    <3>2. got.out.base = got.a.base /\ got.out.stride = got.a.stride
      BY <1>7, <2>2 DEF Inplace, AliasesFirst
    <3>3. Out(x.q[1], x.n, x.h[1], "cost") = got.out
      <4> HIDE DEF q, h
      <4> QED
        BY <1>1, <1>4, <1>7, <1>10, <3>2, ViewsAre
    <3> QED
      BY <1>1, <1>11, <3>1, <3>3 DEF VectorAdd
  <2> QED
    BY <1>8, <2>1, <2>2
<1>13. EncodedSize(got) = EncodedSize(cmd)
  BY DEF EncodedSize
<1>14. Decodes(x) /\ CellsOf(x) = EncodedSize(got)
  <2> HIDE DEF n, q, h
  <2> QED
    BY <1>7, <1>12, DecodesBack
<1> QED
  BY <1>9, <1>12, <1>13, <1>14 DEF RoundTrips

LEMMA EncodedAdd ==
    ASSUME NEW cmd, IsPrimitive(cmd), ValidCommand(cmd) = "OK", cmd.kind = "vector_add",
           NEW x, x = Encode(cmd)
    PROVE  RoundTrips(cmd, x)
<1>1. CASE FormatOf(cmd) = Inplace /\ ~AliasesFirst(cmd)
  <2>1. AliasesSecond(cmd)
    BY <1>1 DEF FormatOf, General, Inplace, ReduceKinds, Reduce2Kinds, Reduce3Kinds
  <2> DEFINE got == [cmd EXCEPT !.a = cmd.b, !.b = cmd.a]
  <2>2. /\ IsPrimitive(got) /\ ValidCommand(got) = "OK" /\ FormatOf(got) = FormatOf(cmd)
        /\ FormatOf(cmd) = Inplace /\ AliasesFirst(got)
    BY <2>1, ExchangedAdd
  <2>3. /\ got.kind = "vector_add" /\ got.a = cmd.b /\ got.b = cmd.a /\ got.out = cmd.out
    <3>1. cmd = Primitive(cmd.kind, cmd.a, cmd.b, cmd.c, cmd.m, cmd.out)
      BY PrimitiveIs
    <3> QED
      BY <3>1 DEF Primitive
  <2>4. SameCommand(cmd, got)
    BY DEF SameCommand
  <2>5. WireFirst(cmd) = cmd.b /\ WireSecond(cmd) = cmd.a
    BY <1>1 DEF WireFirst, WireSecond
  <2> HIDE DEF got
  <2> QED
    BY <2>2, <2>3, <2>4, <2>5, WrittenAdd
<1>2. CASE ~(FormatOf(cmd) = Inplace /\ ~AliasesFirst(cmd))
  <2>1. WireFirst(cmd) = cmd.a /\ WireSecond(cmd) = cmd.b /\ SameCommand(cmd, cmd)
    BY <1>2 DEF WireFirst, WireSecond, SameCommand
  <2> QED
    BY <1>2, <2>1, WrittenAdd
<1> QED
  BY <1>1, <1>2

(* What pcaa_encode_one writes, pcaa_decode_one accepts and reads back.    *)
THEOREM RoundTrip ==
    ASSUME NEW cmd, IsPrimitive(cmd), ValidCommand(cmd) = "OK"
    PROVE  RoundTrips(cmd, Encode(cmd))
<1>1. cmd.kind \in Reduce2Kinds \cup Reduce3Kinds \cup {"vector_add", "project", "map3"}
  BY PrimitiveIs DEF Kinds, ReduceKinds
<1> QED
  BY <1>1, EncodedReduce2, EncodedReduce3, EncodedAdd, EncodedProject, EncodedMap3
-----------------------------------------------------------------------------
(* What a valid command touches.                                           *)

LEMMA VectorTouched ==
    ASSUME NEW v \in VectorViews, VecEnd(v) # 0
    PROVE  VecAddr(v, v.length - 1) \in 1 .. MaxAddr - 1
<1> DEFINE end == VecEnd(v)
           i == v.length - 1
<1>1. v.base \in Nat /\ v.length \in Nat /\ v.stride \in Nat
  BY DEF VectorViews
<1>2. end = SpanEnd(v.base, 1, v.length, 0, v.stride, 1) /\ v.length # 0 /\ end # 0
  BY DEF VecEnd, SpanEnd
<1>3. i \in Nat /\ i < v.length /\ 1 \in {1, 2}
  BY <1>1, <1>2
<1>4. i * v.stride \in Nat
  BY <1>1, <1>3
<1> HIDE DEF end, i
<1>5. Inside(v.base, v.base + (i * v.stride) * 1, 1, end)
  BY <1>1, <1>2, <1>3, RowsNeverWrap, Zenon
<1>6. end \in Int
  BY <1>1, <1>2, <1>4, WidthAssumption DEF SpanEnd, i
<1>7. VecAddr(v, i) = v.base + i * v.stride
  BY DEF VecAddr
<1> QED
  BY <1>1, <1>4, <1>5, <1>6, <1>7, WidthAssumption DEF i, Inside

LEMMA MatrixTouched ==
    ASSUME NEW m \in MatrixViews, MatEnd(m) # 0
    PROVE  MatAddr(m, m.rows - 1, m.columns - 1) \in 1 .. MaxAddr - 1
<1> DEFINE end == MatEnd(m)
           i == m.rows - 1
           j == m.columns - 1
<1>1. /\ m.base \in Nat /\ m.rows \in Nat /\ m.columns \in Nat /\ m.row_stride \in Nat
      /\ m.column_stride \in Nat
  BY DEF MatrixViews
<1>2. /\ end = SpanEnd(m.base, m.rows, m.columns, m.row_stride, m.column_stride, 1)
      /\ m.rows # 0 /\ m.columns # 0 /\ end # 0
  BY DEF MatEnd, SpanEnd
<1>3. i \in Nat /\ i < m.rows /\ j \in Nat /\ j < m.columns /\ 1 \in {1, 2}
  BY <1>1, <1>2
<1>4. i * m.row_stride \in Nat /\ j * m.column_stride \in Nat
  BY <1>1, <1>3
<1> HIDE DEF end, i, j
<1>5. Inside(m.base, m.base + (i * m.row_stride + j * m.column_stride) * 1, 1, end)
  BY <1>1, <1>2, <1>3, ViewsNeverWrap, Zenon
<1>6. end \in Int
  BY <1>1, <1>2, <1>4, WidthAssumption DEF SpanEnd, i, j
<1>7. MatAddr(m, i, j) = m.base + i * m.row_stride + j * m.column_stride
  BY DEF MatAddr
<1> QED
  BY <1>1, <1>4, <1>5, <1>6, <1>7, WidthAssumption DEF i, j, Inside

LEMMA OutputTouched ==
    ASSUME NEW cmd, cmd.out \in OutputViews, OutEnd(cmd.out) # 0
    PROVE  OutAddr(cmd, cmd.out.length - 1) + OutWidth(cmd.out.kind) - 1 \in 1 .. MaxAddr - 1
<1> DEFINE o == cmd.out
           end == OutEnd(o)
           i == o.length - 1
           width == OutWidth(o.kind)
<1>1. o.base \in Nat /\ o.length \in Nat /\ o.stride \in Nat /\ width \in {1, 2}
  BY DEF OutputViews, OutWidth, PairCells
<1>2. end = SpanEnd(o.base, 1, o.length, 0, o.stride, width) /\ o.length # 0 /\ end # 0
  BY DEF OutEnd, SpanEnd
<1>3. i \in Nat /\ i < o.length
  BY <1>1, <1>2
<1>4. i * o.stride \in Nat
  BY <1>1, <1>3
<1>5. OutAddr(cmd, i) = o.base + i * o.stride * width
  BY DEF OutAddr
<1> HIDE DEF end, i, width, o
<1>6. Inside(o.base, o.base + (i * o.stride) * width, width, end)
  BY <1>1, <1>2, <1>3, RowsNeverWrap, Zenon
<1>7. end \in Int
  <2>1. end = 0 \/ end = o.base + ((1 - 1) * 0 + i * o.stride + 1) * width
    BY <1>2 DEF SpanEnd, i
  <2> QED
    BY <1>1, <1>4, <2>1
<1>8. CASE width = 1
  BY <1>1, <1>4, <1>5, <1>6, <1>7, <1>8, WidthAssumption DEF i, width, o, Inside
<1>9. CASE width = 2
  BY <1>1, <1>4, <1>5, <1>6, <1>7, <1>9, WidthAssumption DEF i, width, o, Inside
<1> QED
  BY <1>1, <1>8, <1>9

(* A command that valid_command accepts touches addresses only.            *)
LEMMA ValidTouches ==
    ASSUME NEW cmd, IsPrimitive(cmd), ValidCommand(cmd) = "OK"
    PROVE  TouchedCells(cmd) \subseteq 1 .. MaxAddr - 1
<1>1. /\ cmd.kind \in Kinds \ {"batch"} /\ cmd.out \in OutputViews /\ cmd.m \in MatrixViews
      /\ cmd.a \in VectorViews /\ cmd.b \in VectorViews /\ cmd.c \in VectorViews
  BY PrimitiveIs
<1>2. /\ VecEnd(cmd.a) # 0 /\ OutEnd(cmd.out) # 0
      /\ cmd.b = NoVec \/ VecEnd(cmd.b) # 0
      /\ cmd.c = NoVec \/ VecEnd(cmd.c) # 0
      /\ cmd.m = NoMat \/ MatEnd(cmd.m) # 0
  <2>1. CASE cmd.kind \in ReduceKinds
    <3>1. ReduceShape(cmd) /\ cmd.m = NoMat
      BY <1>1, <2>1, ValidFits DEF IsPrimitive, ReduceKinds, Reduce2Kinds, Reduce3Kinds
    <3> QED
      BY <3>1 DEF ReduceShape, IsPrimitive
  <2>2. CASE cmd.kind = "vector_add"
    BY <1>1, <2>2, ValidFits DEF IsPrimitive, VectorAddShape, Reduce3Kinds
  <2>3. CASE cmd.kind = "project"
    BY <1>1, <2>3, ValidFits DEF IsPrimitive, ProjectShape, Reduce3Kinds
  <2>4. CASE cmd.kind = "map3"
    BY <1>1, <2>4, ValidFits DEF IsPrimitive, Map3Shape, Reduce3Kinds
  <2> QED
    BY <1>1, <2>1, <2>2, <2>3, <2>4 DEF Kinds
<1>3. \A v \in {cmd.a, cmd.b, cmd.c} \ {NoVec} : VecAddr(v, v.length - 1) \in 1 .. MaxAddr - 1
  BY <1>1, <1>2, VectorTouched
<1>4. cmd.m # NoMat => MatAddr(cmd.m, cmd.m.rows - 1, cmd.m.columns - 1) \in 1 .. MaxAddr - 1
  BY <1>1, <1>2, MatrixTouched
<1>5. OutAddr(cmd, cmd.out.length - 1) + OutWidth(cmd.out.kind) - 1 \in 1 .. MaxAddr - 1
  BY <1>1, <1>2, OutputTouched
<1> QED
  BY <1>3, <1>4, <1>5, Zenon DEF TouchedCells
-----------------------------------------------------------------------------
(* The stream.                                                             *)

PrimitiveRecords == [kind : Kinds \ {"batch"}, a : VectorViews, b : VectorViews,
                     c : VectorViews, m : MatrixViews, out : OutputViews]

Sent(i) == IsPrimitive(cmds[i]) /\ ValidCommand(cmds[i]) = "OK"

(* The sizes of the first n commands, added up.                            *)
Sizes(F, n) ==
    /\ F \in [0 .. n -> Nat] /\ F[0] = 0
    /\ \A i \in 1 .. n : Sent(i) /\ F[i] = F[i - 1] + EncodedSize(cmds[i])
    /\ \A i \in 0 .. n : F[i] <= F[n]

(* The cells of the descriptors in the destination, added up.              *)
Cells(G, n) ==
    /\ G \in [0 .. n -> Int] /\ G[0] = 0
    /\ \A i \in 1 .. n : G[i] = G[i - 1] + CellsOf(dest[i])
    /\ ~foreign => \A i \in 0 .. n : 0 <= G[i] /\ G[i] <= G[n]

(* What the variables hold, whatever the phase.                            *)
StreamTypes ==
    /\ cmds \in Streams /\ capacity \in Nat /\ index \in 0 .. Len(cmds)
    /\ foreign \in BOOLEAN
    /\ dest \in Seq(WireTuples) /\ decoded \in Seq(PrimitiveRecords)

(* Every descriptor is well formed, and an untouched one is what the       *)
(* encoder wrote for its command.                                          *)
Written ==
    /\ Len(dest) <= Len(cmds)
    /\ foreign => Len(dest) = Len(cmds)
    /\ \A i \in 1 .. Len(dest) :
         IsWire(dest[i]) /\ (~foreign => Sent(i) /\ dest[i] = Encode(cmds[i]))

(* Every command read back is the reading of its descriptor.               *)
ReadBack ==
    /\ Len(decoded) <= Len(dest)
    /\ \A i \in 1 .. Len(decoded) : Decodes(dest[i]) /\ decoded[i] = Fields(dest[i])

Sizing == /\ verdict = "OK" /\ dest = <<>> /\ decoded = <<>> /\ ~foreign
          /\ \E F : Sizes(F, index) /\ F[index] = total

Encoding == /\ verdict = "OK" /\ decoded = <<>> /\ ~foreign /\ Len(dest) = index
            /\ Len(cmds) # 0
            /\ \E F : /\ Sizes(F, Len(cmds)) /\ F[Len(cmds)] = total /\ total <= capacity
                      /\ room = capacity - F[index]

Decoding == /\ verdict = "OK" /\ Len(dest) = Len(cmds)
            /\ \E G : /\ Cells(G, Len(dest)) /\ G[Len(dest)] = total
                      /\ rest = total - G[Len(decoded)]

StreamInv ==
    /\ StreamTypes /\ Written /\ ReadBack
    /\ phase \in {"size", "encode", "decode", "done", "refused"}
    /\ phase = "size" => Sizing
    /\ phase = "encode" => Encoding
    /\ phase \in {"decode", "done"} => Decoding
    /\ phase = "done" => Len(decoded) = Len(dest)
    /\ phase = "refused" => dest = <<>> \/ foreign

LEMMA StreamInitial == StreamInit => StreamInv
<1> SUFFICES ASSUME StreamInit PROVE StreamInv
  OBVIOUS
<1>1. Len(cmds) \in Nat /\ capacity \in Nat /\ cmds \in Streams
  BY StreamAssumption DEF StreamInit
<1>2. dest = <<>> /\ decoded = <<>> /\ Len(dest) = 0 /\ Len(decoded) = 0
  BY DEF StreamInit
<1>3. StreamTypes
  <2>1. <<>> \in Seq(WireTuples) /\ <<>> \in Seq(PrimitiveRecords)
    OBVIOUS
  <2>2. index \in 0 .. Len(cmds)
    BY <1>1 DEF StreamInit
  <2>3. foreign \in BOOLEAN
    BY DEF StreamInit
  <2> QED
    BY <1>1, <1>2, <2>1, <2>2, <2>3 DEF StreamTypes
<1>4. Written /\ ReadBack
  BY <1>1, <1>2 DEF StreamInit, Written, ReadBack
<1>5. Sizing
  <2> DEFINE F == [i \in 0 .. 0 |-> 0]
  <2>1. F \in [0 .. 0 -> Nat] /\ F[0] = 0 /\ \A i \in 0 .. 0 : F[i] <= F[0]
    OBVIOUS
  <2>2. 1 .. 0 = {}
    OBVIOUS
  <2>3. Sizes(F, 0)
    BY <2>1, <2>2 DEF Sizes
  <2> QED
    BY <2>1, <2>3 DEF StreamInit, Sizing
<1> QED
  BY <1>3, <1>4, <1>5 DEF StreamInit, StreamInv

(* A refusal leaves the destination as it is: it is empty, or another      *)
(* producer's.                                                             *)
LEMMA StreamRefused ==
    ASSUME StreamInv, NEW v, Refuse(v), dest = <<>> \/ foreign
    PROVE  StreamInv'
<1>1. StreamTypes' /\ Written' /\ ReadBack'
  BY DEF StreamInv, Refuse, StreamTypes, Written, ReadBack, Sent
<1> QED
  BY <1>1 DEF StreamInv, Refuse

LEMMA StreamSizeOne == StreamInv /\ SizeOne => StreamInv'
<1> SUFFICES ASSUME StreamInv, SizeOne PROVE StreamInv'
  OBVIOUS
<1> USE DEF SizeOne
<1>1. /\ StreamTypes /\ Len(cmds) \in Nat /\ index \in Nat /\ index + 1 \in 1 .. Len(cmds)
      /\ Len(cmds') = Len(cmds)
  BY StreamAssumption DEF StreamInv, StreamTypes
<1>2. Sizing
  BY DEF StreamInv
<1>3. Sent(index + 1)
  <2>1. cmds[index + 1].kind # "batch" /\ ValidCommand(cmds[index + 1]) = "OK"
    BY DEF SizeVerdict
  <2>2. IsPrimitive(cmds[index + 1]) \/ IsBatch(cmds[index + 1])
    BY <1>1, StreamAssumption DEF StreamTypes
  <2> QED
    BY <2>1, <2>2 DEF Sent, IsBatch
<1>4. EncodedSize(cmds[index + 1]) \in Nat
  BY <1>3, KindFormat DEF Sent
<1>5. StreamTypes' /\ Written' /\ ReadBack'
  BY <1>1 DEF StreamInv, StreamTypes, Written, ReadBack, Sent
<1>6. Sizing'
  <2> DEFINE size == EncodedSize(cmds[index + 1])
             k == index + 1
  <2>1. PICK F : Sizes(F, index) /\ F[index] = total
    BY <1>2 DEF Sizing
  <2> DEFINE H == [i \in 0 .. k |-> IF i = k THEN F[index] + size ELSE F[i]]
  <2>2. /\ F \in [0 .. index -> Nat] /\ F[0] = 0 /\ F[index] \in Nat
        /\ \A i \in 1 .. index : Sent(i) /\ F[i] = F[i - 1] + EncodedSize(cmds[i])
        /\ \A i \in 0 .. index : F[i] <= F[index]
    BY <1>1, <2>1 DEF Sizes
  <2>3. H[k] = F[index] + size /\ \A i \in 0 .. index : H[i] = F[i]
    BY <1>1
  <2>4. H \in [0 .. k -> Nat] /\ H[0] = 0
    BY <1>1, <1>4, <2>2
  <2> HIDE DEF H
  <2>5. \A i \in 1 .. k : Sent(i) /\ H[i] = H[i - 1] + EncodedSize(cmds[i])
    <3>1. ASSUME NEW i \in 1 .. index PROVE Sent(i) /\ H[i] = H[i - 1] + EncodedSize(cmds[i])
      <4>1. i \in 0 .. index /\ i - 1 \in 0 .. index
        BY <1>1
      <4> QED
        BY <2>2, <2>3, <4>1
    <3>2. Sent(k) /\ H[k] = H[k - 1] + EncodedSize(cmds[k])
      <4>1. k - 1 = index /\ index \in 0 .. index
        BY <1>1
      <4> QED
        BY <1>3, <2>3, <4>1
    <3>3. \A i \in 1 .. k : i \in 1 .. index \/ i = k
      BY <1>1
    <3> QED
      BY <3>1, <3>2, <3>3
  <2>6. \A i \in 0 .. k : H[i] <= H[k]
    <3>1. \A i \in 0 .. k : i \in 0 .. index \/ i = k
      BY <1>1
    <3>2. \A i \in 0 .. index : F[i] \in Nat
      BY <2>2
    <3> QED
      BY <1>4, <2>2, <2>3, <2>4, <3>1, <3>2
  <2>7. Sizes(H, k) /\ H[k] = total + size
    BY <2>1, <2>3, <2>4, <2>5, <2>6 DEF Sizes
  <2>8. PICK E : Sizes(E, index + 1) /\ E[index + 1] = total + EncodedSize(cmds[index + 1])
    BY <2>7
  <2>9. Sizes(E, index)' /\ (E[index] = total)'
    <3>1. Sizes(E, index + 1) => Sizes(E, index)'
      BY DEF Sizes, Sent
    <3> QED
      BY <2>8, <3>1
  <2> QED
    BY <1>2, <2>9 DEF Sizing
<1> QED
  BY <1>5, <1>6 DEF StreamInv
LEMMA StreamNotEncoded == StreamInv /\ (BadCount \/ SizeRefused \/ NoSpace) => StreamInv'
<1> SUFFICES ASSUME StreamInv, BadCount \/ SizeRefused \/ NoSpace PROVE StreamInv'
  OBVIOUS
<1>1. phase = "size"
  BY DEF BadCount, SizeRefused, NoSpace
<1>2. dest = <<>>
  BY <1>1 DEF StreamInv, Sizing
<1>3. PICK v : Refuse(v)
  BY DEF BadCount, SizeRefused, NoSpace
<1> QED
  BY <1>2, <1>3, StreamRefused

LEMMA StreamEncodeBegins == StreamInv /\ EncodeBegins => StreamInv'
<1> SUFFICES ASSUME StreamInv, EncodeBegins PROVE StreamInv'
  OBVIOUS
<1> USE DEF EncodeBegins
<1>1. Sizing /\ Len(cmds) \in Nat /\ Len(cmds) # 0 /\ StreamTypes
  BY StreamAssumption DEF StreamInv, StreamTypes, GoodCount
<1>2. PICK F : Sizes(F, Len(cmds)) /\ F[Len(cmds)] = total
  BY <1>1 DEF Sizing
<1>3. F[0] = 0 /\ F[Len(cmds)] \in Nat
  BY <1>1, <1>2 DEF Sizes
<1>4. capacity \in Nat /\ total <= capacity /\ capacity - F[0] = capacity
  BY <1>1, <1>2, <1>3 DEF StreamTypes
<1>5. Sizes(F, Len(cmds))'
  BY <1>2 DEF Sizes, Sent
<1>6. StreamTypes' /\ Written' /\ ReadBack'
  <2>1. index' \in 0 .. Len(cmds)
    BY <1>1
  <2>2. StreamTypes'
    BY <1>1, <2>1 DEF StreamTypes
  <2> QED
    BY <2>2 DEF StreamInv, Written, ReadBack, Sent
<1>7. (room = capacity - F[index])'
  BY <1>4
<1>8. (F[Len(cmds)] = total /\ total <= capacity)'
  BY <1>2, <1>4
<1>9. (\E E : /\ Sizes(E, Len(cmds)) /\ E[Len(cmds)] = total /\ total <= capacity
              /\ room = capacity - E[index])'
  BY <1>5, <1>7, <1>8
<1>10. (verdict = "OK" /\ decoded = <<>> /\ ~foreign /\ Len(dest) = index /\ Len(cmds) # 0)'
  <2>1. Len(dest) = 0
    BY <1>1 DEF Sizing
  <2> QED
    BY <1>1, <2>1 DEF Sizing
<1>11. Encoding'
  BY <1>9, <1>10 DEF Encoding
<1> QED
  BY <1>6, <1>11 DEF StreamInv

(* pcaa_encode_one of the second pass: the room it is left with is at      *)
(* least what the first pass counted for the commands to come.             *)
LEMMA RoomForOne ==
    ASSUME StreamInv, phase = "encode", index < Len(cmds)
    PROVE  Sent(index + 1) /\ OneVerdict(cmds[index + 1]) = "OK"
<1>1. Len(cmds) \in Nat /\ index \in Nat /\ index + 1 \in 1 .. Len(cmds) /\ capacity \in Nat
  BY StreamAssumption DEF StreamInv, StreamTypes
<1>2. PICK F : /\ Sizes(F, Len(cmds)) /\ F[Len(cmds)] = total /\ total <= capacity
               /\ room = capacity - F[index]
  BY DEF StreamInv, Encoding
<1>3. /\ Sent(index + 1) /\ F[index + 1] <= F[Len(cmds)]
      /\ F[index + 1] \in Nat /\ F[index] \in Nat /\ F[Len(cmds)] \in Nat
  BY <1>1, <1>2 DEF Sizes
<1>4. F[index + 1] = F[index] + EncodedSize(cmds[index + 1])
  <2>1. (index + 1) - 1 = index
    BY <1>1
  <2> QED
    BY <1>1, <1>2, <2>1 DEF Sizes
<1>5. EncodedSize(cmds[index + 1]) \in Nat
  BY <1>3, KindFormat DEF Sent
<1>6. ~(room < EncodedSize(cmds[index + 1]))
  BY <1>1, <1>2, <1>3, <1>4, <1>5
<1> QED
  BY <1>3, <1>6 DEF OneVerdict, Sent

LEMMA StreamEncodeOne == StreamInv /\ EncodeOne => StreamInv'
<1> SUFFICES ASSUME StreamInv, EncodeOne PROVE StreamInv'
  OBVIOUS
<1> DEFINE k == index + 1
           x == Encode(cmds[index + 1])
<1>1. /\ phase = "encode" /\ index < Len(cmds)
  BY DEF EncodeOne
<1>2. Len(cmds) \in Nat /\ index \in Nat /\ k \in 1 .. Len(cmds) /\ StreamTypes /\ Encoding
  BY <1>1, StreamAssumption DEF StreamInv, StreamTypes
<1>3. Sent(k) /\ OneVerdict(cmds[k]) = "OK"
  BY <1>1, RoomForOne
<1>4. /\ dest' = Append(dest, x) /\ room' = room - EncodedSize(cmds[k]) /\ index' = k
      /\ UNCHANGED <<cmds, capacity, phase, verdict, total, foreign, decoded, rest>>
  BY <1>3 DEF EncodeOne
<1>5. IsWire(x) /\ x \in WireTuples
  BY <1>3, RoundTrip DEF Sent, RoundTrips, IsWire
<1> HIDE DEF x
<1>6. /\ dest \in Seq(WireTuples) /\ Len(dest) = index /\ ~foreign /\ decoded = <<>>
      /\ verdict = "OK" /\ Len(cmds) # 0
  BY <1>2 DEF StreamTypes, Encoding
<1>7. /\ dest' \in Seq(WireTuples) /\ Len(dest') = k /\ dest'[k] = x
      /\ \A i \in 1 .. Len(dest) : dest'[i] = dest[i]
  BY <1>2, <1>4, <1>5, <1>6
<1>8. StreamTypes'
  BY <1>2, <1>4, <1>7 DEF StreamTypes
<1>9. Written'
  <2>1. \A i \in 1 .. Len(dest') : i \in 1 .. Len(dest) \/ i = k
    BY <1>2, <1>6, <1>7
  <2>2. ASSUME NEW i \in 1 .. Len(dest)
        PROVE  IsWire(dest'[i]) /\ Sent(i) /\ dest'[i] = Encode(cmds[i])
    BY <1>6, <1>7 DEF StreamInv, Written
  <2>3. IsWire(dest'[k]) /\ Sent(k) /\ dest'[k] = Encode(cmds[k])
    BY <1>3, <1>5, <1>7 DEF x
  <2>4. \A i \in 1 .. Len(dest') : IsWire(dest'[i]) /\ Sent(i) /\ dest'[i] = Encode(cmds[i])
    BY <2>1, <2>2, <2>3
  <2>5. Len(dest') <= Len(cmds') /\ ~foreign'
    BY <1>2, <1>4, <1>6, <1>7
  <2> QED
    BY <1>4, <2>4, <2>5 DEF Written, Sent
<1>10. ReadBack'
  <2>1. Len(decoded') = 0 /\ Len(dest') \in Nat
    BY <1>2, <1>4, <1>6, <1>7
  <2> QED
    BY <2>1 DEF ReadBack
<1>11. Encoding'
  <2>1. PICK F : /\ Sizes(F, Len(cmds)) /\ F[Len(cmds)] = total /\ total <= capacity
                 /\ room = capacity - F[index]
    BY <1>2 DEF Encoding
  <2>2. F[k] = F[index] + EncodedSize(cmds[k]) /\ F[index] \in Nat
    <3>1. k - 1 = index /\ index \in 0 .. Len(cmds)
      BY <1>2
    <3> QED
      BY <1>2, <2>1, <3>1 DEF Sizes
  <2>3. EncodedSize(cmds[k]) \in Nat /\ capacity \in Nat
    BY <1>2, <1>3, KindFormat DEF Sent, StreamTypes
  <2>4. room' = capacity - F[k]
    BY <1>4, <2>1, <2>2, <2>3
  <2>5. Sizes(F, Len(cmds))'
    BY <1>4, <2>1 DEF Sizes, Sent
  <2>6. (/\ F[Len(cmds)] = total /\ total <= capacity /\ room = capacity - F[index])'
    BY <1>4, <2>1, <2>4
  <2>7. (\E E : /\ Sizes(E, Len(cmds)) /\ E[Len(cmds)] = total /\ total <= capacity
                /\ room = capacity - E[index])'
    BY <2>5, <2>6
  <2> QED
    BY <1>4, <1>6, <1>7, <2>7 DEF Encoding
<1> QED
  BY <1>1, <1>4, <1>8, <1>9, <1>10, <1>11 DEF StreamInv
LEMMA StreamEncodeEnds == StreamInv /\ EncodeEnds => StreamInv'
<1> SUFFICES ASSUME StreamInv, EncodeEnds PROVE StreamInv'
  OBVIOUS
<1> USE DEF EncodeEnds
<1>1. Len(cmds) \in Nat /\ StreamTypes /\ Encoding /\ Written
  BY StreamAssumption DEF StreamInv, StreamTypes
<1>2. /\ Len(dest) = Len(cmds) /\ ~foreign /\ decoded = <<>> /\ Len(decoded) = 0
      /\ verdict = "OK"
  BY <1>1 DEF Encoding
<1>3. PICK F : Sizes(F, Len(cmds)) /\ F[Len(cmds)] = total
  BY <1>1 DEF Encoding
<1>4. Cells(F, Len(dest))
  <2>1. /\ F \in [0 .. Len(dest) -> Int] /\ F[0] = 0
        /\ \A i \in 0 .. Len(dest) : 0 <= F[i] /\ F[i] <= F[Len(dest)]
    BY <1>1, <1>2, <1>3 DEF Sizes
  <2>2. ASSUME NEW i \in 1 .. Len(dest) PROVE CellsOf(dest[i]) = EncodedSize(cmds[i])
    BY <1>1, <1>2, RoundTrip DEF Written, Sent, RoundTrips
  <2> QED
    BY <1>2, <1>3, <2>1, <2>2 DEF Sizes, Cells
<1>5. F[0] = 0 /\ F[Len(dest)] = total /\ total \in Nat
  BY <1>1, <1>2, <1>3 DEF Sizes
<1>6. Cells(F, Len(dest))'
  BY <1>4 DEF Cells, CellsOf
<1>7. (F[Len(dest)] = total /\ rest = total - F[Len(decoded)])'
  BY <1>2, <1>5
<1>8. (\E G : /\ Cells(G, Len(dest)) /\ G[Len(dest)] = total
              /\ rest = total - G[Len(decoded)])'
  BY <1>6, <1>7
<1>9. Decoding'
  BY <1>2, <1>8 DEF Decoding
<1>10. StreamTypes' /\ Written' /\ ReadBack'
  BY <1>1 DEF StreamInv, StreamTypes, Written, ReadBack, Sent
<1> QED
  BY <1>9, <1>10 DEF StreamInv

(* pcaa_decode_one of a stream nobody has touched: it accepts the next     *)
(* descriptor, and the bytes left are at least the descriptor's.           *)
LEMMA OwnStreamDecodes ==
    ASSUME StreamInv, phase = "decode", ~foreign, Len(decoded) < Len(dest)
    PROVE  Decodes(Pending) /\ CellsOf(Pending) <= rest
<1> DEFINE k == Len(decoded) + 1
<1>1. /\ Len(dest) \in Nat /\ Len(decoded) \in Nat /\ k \in 1 .. Len(dest) /\ Written
      /\ k - 1 = Len(decoded) /\ Len(decoded) \in 0 .. Len(dest)
  BY DEF StreamInv, StreamTypes
<1>2. Sent(k) /\ dest[k] = Encode(cmds[k])
  BY <1>1 DEF Written
<1>3. Decodes(dest[k]) /\ CellsOf(dest[k]) = EncodedSize(cmds[k])
  BY <1>2, RoundTrip DEF Sent, RoundTrips
<1>4. EncodedSize(cmds[k]) \in Nat
  BY <1>2, KindFormat DEF Sent
<1>5. PICK G : /\ Cells(G, Len(dest)) /\ G[Len(dest)] = total
               /\ rest = total - G[Len(decoded)]
  BY DEF StreamInv, Decoding
<1>6. /\ G[k] = G[Len(decoded)] + CellsOf(dest[k]) /\ G[k] <= G[Len(dest)]
      /\ G[k] \in Int /\ G[Len(decoded)] \in Int /\ G[Len(dest)] \in Int
  <2>1. G \in [0 .. Len(dest) -> Int] /\ k \in 0 .. Len(dest) /\ Len(dest) \in 0 .. Len(dest)
    BY <1>1, <1>5 DEF Cells
  <2>2. G[k] = G[k - 1] + CellsOf(dest[k]) /\ G[k] <= G[Len(dest)]
    BY <1>1, <1>5, <2>1 DEF Cells
  <2> QED
    BY <1>1, <2>1, <2>2
<1>7. CellsOf(dest[k]) <= rest
  BY <1>3, <1>4, <1>5, <1>6
<1> QED
  BY <1>3, <1>7 DEF Pending

LEMMA StreamDecodeFails == StreamInv /\ DecodeFails => StreamInv'
<1> SUFFICES ASSUME StreamInv, DecodeFails PROVE StreamInv'
  OBVIOUS
<1>1. foreign
  BY OwnStreamDecodes DEF DecodeFails, StreamInv, StreamTypes
<1>2. Refuse("INVALID_COMMAND")
  BY DEF DecodeFails
<1> QED
  BY <1>1, <1>2, StreamRefused

LEMMA StreamDecodeOne == StreamInv /\ DecodeOne => StreamInv'
<1> SUFFICES ASSUME StreamInv, DecodeOne PROVE StreamInv'
  OBVIOUS
<1> DEFINE k == Len(decoded) + 1
           got == Fields(dest[Len(decoded) + 1])
<1>1. /\ phase = "decode" /\ Len(decoded) < Len(dest) /\ Decodes(dest[k])
      /\ decoded' = Append(decoded, got) /\ rest' = rest - CellsOf(dest[k])
      /\ UNCHANGED <<cmds, capacity, phase, verdict, index, total, room, dest, foreign>>
  BY DEF DecodeOne, Pending
<1>2. /\ Len(dest) \in Nat /\ Len(decoded) \in Nat /\ k \in 1 .. Len(dest) /\ Written
      /\ k - 1 = Len(decoded) /\ decoded \in Seq(PrimitiveRecords) /\ StreamTypes
      /\ Decoding /\ ReadBack
  BY <1>1 DEF StreamInv, StreamTypes
<1>3. IsWire(dest[k])
  BY <1>2 DEF Written
<1>4. got \in PrimitiveRecords
  <2>1. IsPrimitive(got)
    BY <1>1, <1>3, DecodedIsCanonical
  <2> HIDE DEF got
  <2> QED
    BY <2>1 DEF IsPrimitive, PrimitiveRecords
<1> HIDE DEF got
<1>5. /\ decoded' \in Seq(PrimitiveRecords) /\ Len(decoded') = k /\ decoded'[k] = got
      /\ \A i \in 1 .. Len(decoded) : decoded'[i] = decoded[i]
  BY <1>1, <1>2, <1>4
<1>6. StreamTypes' /\ Written'
  BY <1>1, <1>2, <1>5 DEF StreamTypes, Written, Sent
<1>7. ReadBack'
  <2>1. \A i \in 1 .. Len(decoded') : i \in 1 .. Len(decoded) \/ i = k
    BY <1>2, <1>5
  <2>2. \A i \in 1 .. Len(decoded) : Decodes(dest[i]) /\ decoded'[i] = Fields(dest[i])
    BY <1>2, <1>5 DEF ReadBack
  <2>3. Decodes(dest[k]) /\ decoded'[k] = Fields(dest[k])
    BY <1>1, <1>5 DEF got
  <2>4. \A i \in 1 .. Len(decoded') : Decodes(dest[i]) /\ decoded'[i] = Fields(dest[i])
    BY <2>1, <2>2, <2>3
  <2>5. Len(decoded') <= Len(dest)
    BY <1>2, <1>5
  <2> QED
    BY <1>1, <2>4, <2>5 DEF ReadBack
<1>8. Decoding'
  <2>1. PICK G : /\ Cells(G, Len(dest)) /\ G[Len(dest)] = total
                 /\ rest = total - G[Len(decoded)]
    BY <1>2 DEF Decoding
  <2>2. /\ G \in [0 .. Len(dest) -> Int] /\ Len(decoded) \in 0 .. Len(dest)
        /\ Len(dest) \in 0 .. Len(dest) /\ k \in 0 .. Len(dest)
    BY <1>2, <2>1 DEF Cells
  <2>3. G[k] = G[k - 1] + CellsOf(dest[k])
    BY <1>2, <2>1 DEF Cells
  <2>4. CellsOf(dest[k]) \in Int
    BY <1>3, FormatSizes DEF CellsOf, IsWire
  <2>5. rest' = total - G[k]
    <3>1. G[k] \in Int /\ G[Len(decoded)] \in Int /\ total \in Int
      BY <2>1, <2>2
    <3>2. G[k] = G[Len(decoded)] + CellsOf(dest[k])
      BY <1>2, <2>3
    <3>3. rest' = (total - G[Len(decoded)]) - CellsOf(dest[k])
      BY <1>1, <2>1
    <3> HIDE DEF k
    <3> QED
      BY <2>4, <3>1, <3>2, <3>3
  <2>6. Cells(G, Len(dest))'
    BY <1>1, <2>1 DEF Cells, CellsOf
  <2>7. (G[Len(dest)] = total /\ rest = total - G[Len(decoded)])'
    BY <1>1, <1>5, <2>1, <2>5
  <2>8. (\E E : /\ Cells(E, Len(dest)) /\ E[Len(dest)] = total
                /\ rest = total - E[Len(decoded)])'
    BY <2>6, <2>7
  <2> QED
    BY <1>1, <1>2, <2>8 DEF Decoding
<1> QED
  BY <1>1, <1>6, <1>7, <1>8 DEF StreamInv

LEMMA StreamDecodeEnds == StreamInv /\ DecodeEnds => StreamInv'
<1> SUFFICES ASSUME StreamInv, DecodeEnds PROVE StreamInv'
  OBVIOUS
<1> USE DEF DecodeEnds
<1>1. StreamTypes' /\ Written' /\ ReadBack'
  BY DEF StreamInv, StreamTypes, Written, ReadBack, Sent
<1>2. Decoding
  BY DEF StreamInv
<1>3. Decoding'
  <2>1. PICK G : /\ Cells(G, Len(dest)) /\ G[Len(dest)] = total
                 /\ rest = total - G[Len(decoded)]
    BY <1>2 DEF Decoding
  <2>2. Cells(G, Len(dest))'
    BY <2>1 DEF Cells, CellsOf
  <2> QED
    BY <1>2, <2>1, <2>2 DEF Decoding
<1> QED
  BY <1>1, <1>3 DEF StreamInv
(* What another producer may put in the place of a descriptor is still a   *)
(* descriptor.                                                             *)
LEMMA ForeignIsWire ==
    ASSUME NEW x, IsWire(x), NEW w, w \in ForeignForms(x)
    PROVE  IsWire(w)
<1> DEFINE q == x.q
           h == x.h
           y == [opcode |-> x.opcode, format |-> x.format, flags |-> x.flags, n |-> x.n,
                 m |-> x.m, q |-> x.q, w |-> x.w, h |-> x.h, reserved |-> x.reserved]
<1>1. x \in WireTuples /\ x = y
  BY DEF IsWire, WireTuples
<1>2. /\ x.opcode \in Nat /\ x.format \in Nat /\ x.flags \in Nat /\ x.n \in Nat /\ x.m \in Nat
      /\ x.q \in Nat \X Nat \X Nat \X Nat /\ x.w \in Nat \X Nat
      /\ x.h \in Nat \X Nat \X Nat \X Nat \X Nat /\ x.reserved \in Nat
  BY <1>1 DEF WireTuples
<1>3. CASE w \in {[x EXCEPT !.flags = 1], [x EXCEPT !.reserved = 1], [x EXCEPT !.m = @ + 1],
                  [x EXCEPT !.n = @ + 1], [x EXCEPT !.opcode = @ + 1]}
  <2>1. w \in WireTuples
    BY <1>1, <1>2, <1>3 DEF WireTuples
  <2>2. w.format = x.format /\ w.w = x.w /\ w.h = x.h /\ w.q = x.q
    BY <1>1, <1>3
  <2> QED
    BY <2>1, <2>2 DEF IsWire
<1>4. CASE w = [x EXCEPT !.q[1] = x.q[2]]
  <2>1. w.format = x.format /\ w.w = x.w /\ w.h = x.h /\ w.q = [q EXCEPT ![1] = q[2]]
    BY <1>1, <1>4
  <2>2. q = <<q[1], q[2], q[3], q[4]>> /\ q[1] \in Nat /\ q[2] \in Nat /\ q[3] \in Nat /\ q[4] \in Nat
    BY <1>2
  <2>3. [q EXCEPT ![1] = q[2]] = <<q[2], q[2], q[3], q[4]>>
    BY <2>2
  <2>4. w.q = <<q[2], q[2], q[3], q[4]>> /\ w.q[3] = q[3] /\ w.q[4] = q[4]
    BY <2>1, <2>3
  <2>5. w \in WireTuples
    BY <1>1, <1>2, <1>4, <2>2, <2>4 DEF WireTuples
  <2> QED
    BY <2>1, <2>4, <2>5 DEF IsWire
<1>5. CASE /\ x.format = Inplace
           /\ w = [x EXCEPT !.format = General, !.q[3] = x.q[1], !.h[3] = x.h[1]]
  <2>1. /\ w.format = General /\ w.w = x.w /\ w.h = [h EXCEPT ![3] = h[1]]
        /\ w.q = [q EXCEPT ![3] = q[1]]
    BY <1>1, <1>5
  <2>2. q = <<q[1], q[2], q[3], q[4]>> /\ q[1] \in Nat /\ q[2] \in Nat /\ q[3] \in Nat /\ q[4] \in Nat
    BY <1>2
  <2>3. /\ h = <<h[1], h[2], h[3], h[4], h[5]>>
        /\ h[1] \in Nat /\ h[2] \in Nat /\ h[3] \in Nat /\ h[4] \in Nat /\ h[5] \in Nat
    BY <1>2
  <2>4. [q EXCEPT ![3] = q[1]] = <<q[1], q[2], q[1], q[4]>>
    BY <2>2
  <2>5. [h EXCEPT ![3] = h[1]] = <<h[1], h[2], h[1], h[4], h[5]>>
    BY <2>3
  <2>6. /\ w.q = <<q[1], q[2], q[1], q[4]>> /\ w.q[4] = q[4]
        /\ w.h = <<h[1], h[2], h[1], h[4], h[5]>> /\ w.h[4] = h[4] /\ w.h[5] = h[5]
    BY <2>1, <2>4, <2>5
  <2>7. w \in WireTuples
    <3>1. w.q \in Nat \X Nat \X Nat \X Nat /\ w.h \in Nat \X Nat \X Nat \X Nat \X Nat
      BY <2>2, <2>3, <2>6
    <3>2. w = [opcode |-> x.opcode, format |-> General, flags |-> x.flags, n |-> x.n,
               m |-> x.m, q |-> w.q, w |-> x.w, h |-> w.h, reserved |-> x.reserved]
      BY <1>1, <1>5
    <3> HIDE DEF q, h
    <3> QED
      BY <1>2, <3>1, <3>2 DEF WireTuples, General
  <2> QED
    BY <1>5, <2>1, <2>6, <2>7 DEF IsWire, Formats, General, Inplace
<1> QED
  BY <1>3, <1>4, <1>5 DEF ForeignForms

LEMMA StreamReplace == StreamInv /\ Replace => StreamInv'
<1> SUFFICES ASSUME StreamInv, Replace PROVE StreamInv'
  OBVIOUS
<1>1. /\ phase = "decode" /\ rest = total /\ ~foreign /\ foreign'
      /\ UNCHANGED <<cmds, capacity, phase, verdict, index, room, decoded>>
  BY DEF Replace
<1>2. PICK i \in DOMAIN dest : \E w \in ForeignForms(dest[i]) :
        /\ dest' = [dest EXCEPT ![i] = w]
        /\ rest' = total - CellsOf(dest[i]) + CellsOf(w) /\ total' = rest'
  BY DEF Replace
<1>3. PICK w \in ForeignForms(dest[i]) :
        /\ dest' = [dest EXCEPT ![i] = w]
        /\ rest' = total - CellsOf(dest[i]) + CellsOf(w) /\ total' = rest'
  BY <1>2
<1>4. /\ StreamTypes /\ Written /\ ReadBack /\ Decoding /\ Len(dest) \in Nat
      /\ Len(decoded) \in Nat /\ dest \in Seq(WireTuples) /\ i \in 1 .. Len(dest)
      /\ Len(decoded) <= Len(dest) /\ Len(dest) = Len(cmds) /\ verdict = "OK"
  BY <1>1 DEF StreamInv, StreamTypes, ReadBack, Decoding
<1>5. PICK G : /\ Cells(G, Len(dest)) /\ G[Len(dest)] = total
               /\ rest = total - G[Len(decoded)]
  BY <1>4 DEF Decoding
<1>6. /\ G \in [0 .. Len(dest) -> Int] /\ G[0] = 0
      /\ \A j \in 1 .. Len(dest) : G[j] = G[j - 1] + CellsOf(dest[j])
      /\ \A j \in 0 .. Len(dest) : G[j] \in Int /\ 0 <= G[j]
  BY <1>1, <1>5 DEF Cells
<1>7. \A j \in 1 .. Len(dest) : CellsOf(dest[j]) \in Int /\ CellsOf(dest[j]) > 0
  <2> SUFFICES ASSUME NEW j \in 1 .. Len(dest)
               PROVE  CellsOf(dest[j]) \in Int /\ CellsOf(dest[j]) > 0
    OBVIOUS
  <2>1. Sent(j) /\ dest[j] = Encode(cmds[j])
    BY <1>1, <1>4 DEF Written
  <2>2. CellsOf(dest[j]) = EncodedSize(cmds[j]) /\ EncodedSize(cmds[j]) \in {8, 12, 16}
    BY <2>1, RoundTrip, KindFormat DEF Sent, RoundTrips
  <2> QED
    BY <2>2
<1>8. Len(decoded) = 0
  <2>1. G[Len(decoded)] = 0
    <3>1. Len(decoded) \in 0 .. Len(dest) /\ Len(dest) \in 0 .. Len(dest)
      BY <1>4
    <3> QED
      BY <1>1, <1>5, <1>6, <3>1
  <2>2. SUFFICES ASSUME Len(decoded) # 0 PROVE FALSE
    OBVIOUS
  <2>3. Len(decoded) \in 1 .. Len(dest) /\ Len(decoded) - 1 \in 0 .. Len(dest)
    BY <1>4, <2>2
  <2> QED
    BY <1>6, <1>7, <2>1, <2>3
<1>9. IsWire(dest[i]) /\ IsWire(w) /\ w \in WireTuples
  <2>1. IsWire(dest[i])
    BY <1>4 DEF Written
  <2> QED
    BY <2>1, ForeignIsWire DEF IsWire
<1>10. /\ dest' \in Seq(WireTuples) /\ Len(dest') = Len(dest) /\ dest'[i] = w
       /\ \A j \in 1 .. Len(dest) : j # i => dest'[j] = dest[j]
  BY <1>3, <1>4, <1>9
<1>11. StreamTypes'
  BY <1>1, <1>4, <1>10 DEF StreamTypes
<1>12. Written'
  <2>1. \A j \in 1 .. Len(dest) : IsWire(dest'[j])
    BY <1>4, <1>9, <1>10 DEF Written
  <2> QED
    BY <1>1, <1>4, <1>10, <2>1 DEF Written
<1>13. ReadBack'
  <2>1. Len(decoded') = 0 /\ Len(dest') \in Nat
    BY <1>1, <1>4, <1>8, <1>10
  <2> QED
    BY <2>1 DEF ReadBack
<1> DEFINE n == Len(dest)
           c == CellsOf(dest[i])
           d == CellsOf(w)
           H == [j \in 0 .. n |-> IF j < i THEN G[j] ELSE G[j] - c + d]
<1>14. c \in Int /\ d \in Int /\ n \in Nat /\ i \in 1 .. n /\ G[i] = G[i - 1] + c
  <2>1. d \in Int
    BY <1>9, FormatSizes DEF CellsOf, IsWire
  <2> QED
    BY <1>4, <1>6, <1>7, <2>1
<1>15. /\ H \in [0 .. n -> Int] /\ H[0] = 0 /\ H[n] = total - c + d
  <2>1. H[n] = G[n] - c + d
    BY <1>14
  <2> HIDE DEF c, d
  <2> QED
    BY <1>5, <1>6, <1>14, <2>1
<1>16. ASSUME NEW j \in 1 .. n PROVE H[j] = H[j - 1] + CellsOf(dest'[j])
  <2> DEFINE e == CellsOf(dest[j])
  <2>1. /\ j \in 0 .. n /\ j - 1 \in 0 .. n /\ j \in Int /\ i \in Int
        /\ G[j] = G[j - 1] + e /\ G[j] \in Int /\ G[j - 1] \in Int /\ e \in Int
    BY <1>6, <1>7, <1>14
  <2> HIDE DEF c, d, e, n
  <2>2. CASE j < i
    <3>1. CellsOf(dest'[j]) = e
      BY <1>10, <2>1, <2>2 DEF e, n
    <3>2. H[j] = G[j] /\ H[j - 1] = G[j - 1]
      BY <2>1, <2>2
    <3> QED
      BY <2>1, <3>1, <3>2
  <2>3. CASE j = i
    <3>1. CellsOf(dest'[j]) = d
      BY <1>10, <2>3 DEF d
    <3>2. H[j] = G[j] - c + d /\ H[j - 1] = G[j - 1]
      BY <2>1, <2>3
    <3>3. G[j] = G[j - 1] + c
      BY <1>14, <2>3
    <3> QED
      BY <1>14, <2>1, <3>1, <3>2, <3>3
  <2>4. CASE j > i
    <3>1. CellsOf(dest'[j]) = e
      BY <1>10, <2>1, <2>4 DEF e, n
    <3>2. H[j] = G[j] - c + d /\ H[j - 1] = G[j - 1] - c + d
      BY <2>1, <2>4
    <3> QED
      BY <1>14, <2>1, <3>1, <3>2
  <2> QED
    BY <2>1, <2>2, <2>3, <2>4
<1>17. PICK E : /\ E \in [0 .. n -> Int] /\ E[0] = 0 /\ E[n] = total - c + d
                /\ \A j \in 1 .. n : E[j] = E[j - 1] + CellsOf(dest'[j])
  <2> HIDE DEF H, c, d, n
  <2> QED
    BY <1>15, <1>16
<1> HIDE DEF H, c, d
<1>18. Cells(E, Len(dest))'
  BY <1>1, <1>10, <1>17 DEF Cells, CellsOf
<1>19. (E[Len(dest)] = total /\ rest = total - E[Len(decoded)])'
  <2>1. total' = total - c + d /\ rest' = total'
    BY <1>3 DEF c, d
  <2>2. Len(dest') = n /\ Len(decoded') = 0 /\ total - c + d \in Int
    <3>1. n \in 0 .. n
      BY <1>14
    <3>2. E[n] \in Int
      BY <1>17, <3>1
    <3> QED
      BY <1>1, <1>8, <1>10, <1>17, <3>2
  <2> QED
    BY <1>17, <2>1, <2>2
<1>20. (\E F : /\ Cells(F, Len(dest)) /\ F[Len(dest)] = total
               /\ rest = total - F[Len(decoded)])'
  BY <1>18, <1>19
<1>21. Decoding'
  BY <1>1, <1>4, <1>10, <1>20 DEF Decoding
<1> QED
  BY <1>1, <1>11, <1>12, <1>13, <1>21 DEF StreamInv

(* Every step of the two passes and of the decoder keeps the invariant.    *)
LEMMA StreamStep == StreamInv /\ [StreamNext]_streamVars => StreamInv'
<1> SUFFICES ASSUME StreamInv, [StreamNext]_streamVars PROVE StreamInv'
  OBVIOUS
<1>1. CASE UNCHANGED streamVars
  BY <1>1 DEF streamVars, StreamInv, StreamTypes, Written, ReadBack, Sizing, Encoding, Decoding,
     Sizes, Cells, CellsOf, Sent
<1> QED
  BY <1>1, StreamNotEncoded, StreamSizeOne, StreamEncodeBegins, StreamEncodeOne,
     StreamEncodeEnds, StreamReplace, StreamDecodeOne, StreamDecodeFails, StreamDecodeEnds
     DEF StreamNext

(* The sizes pcaa_encoded_stream_size adds up are those pcaa_encode_one    *)
(* writes and pcaa_decode_one uses up, in every phase of every stream.     *)
THEOREM StreamInvariant == StreamSpec => []StreamInv
<1> QED
  BY StreamInitial, StreamStep, PTL DEF StreamSpec

(* pcaa_encode_stream: the second pass never fails, so a refused stream    *)
(* has written nothing.                                                    *)
THEOREM StreamIsAllOrNothing == StreamSpec => []AllOrNothing
<1>1. StreamInv => AllOrNothing
  BY DEF StreamInv, Sizing, Encoding, Decoding, Written, AllOrNothing
<1> QED
  BY <1>1, StreamInvariant, PTL

(* Every stream this encoder writes is accepted and read back, command by  *)
(* command and to its last byte.                                           *)
THEOREM StreamIsReadBack == StreamSpec => []StreamReadsBack
<1>1. ASSUME StreamInv PROVE StreamReadsBack
  <2>1. ~foreign /\ dest # <<>> /\ Len(dest) = Len(cmds) => verdict = "OK"
    BY <1>1 DEF StreamInv, Sizing, Encoding, Decoding
  <2>2. ASSUME ~foreign, NEW i \in DOMAIN decoded PROVE SameCommand(cmds[i], decoded[i])
    <3>1. i \in 1 .. Len(decoded) /\ i \in 1 .. Len(dest)
      BY <1>1, <2>2 DEF StreamInv, StreamTypes, ReadBack
    <3>2. Sent(i) /\ dest[i] = Encode(cmds[i]) /\ decoded[i] = Fields(dest[i])
      BY <1>1, <2>2, <3>1 DEF StreamInv, Written, ReadBack
    <3> QED
      BY <3>2, RoundTrip DEF Sent, RoundTrips
  <2>3. ASSUME phase = "done" PROVE rest = 0
    <3>1. PICK G : /\ Cells(G, Len(dest)) /\ G[Len(dest)] = total
                   /\ rest = total - G[Len(decoded)]
      BY <1>1, <2>3 DEF StreamInv, Decoding
    <3>2. Len(decoded) = Len(dest) /\ Len(dest) \in 0 .. Len(dest)
      BY <1>1, <2>3 DEF StreamInv, StreamTypes
    <3>3. G[Len(dest)] \in Int
      BY <3>1, <3>2 DEF Cells
    <3> QED
      BY <3>1, <3>2, <3>3
  <2> QED
    BY <2>1, <2>2, <2>3 DEF StreamReadsBack
<1> QED
  BY <1>1, StreamInvariant, PTL

(* Whatever producer wrote it, a descriptor the decoder accepts is the one *)
(* encoding of its command.                                                *)
THEOREM OneEncoding == StreamSpec => []Canonical
<1>1. ASSUME StreamInv PROVE Canonical
  <2> SUFFICES ASSUME NEW i \in DOMAIN decoded PROVE Encode(decoded[i]) = dest[i]
    BY DEF Canonical
  <2>1. i \in 1 .. Len(decoded) /\ i \in 1 .. Len(dest)
    BY <1>1 DEF StreamInv, StreamTypes, ReadBack
  <2>2. IsWire(dest[i]) /\ Decodes(dest[i]) /\ decoded[i] = Fields(dest[i])
    BY <1>1, <2>1 DEF StreamInv, Written, ReadBack
  <2> QED
    BY <2>2, DecodedIsCanonical
<1> QED
  BY <1>1, StreamInvariant, PTL

(* No command that was encoded or decoded reaches beyond the address       *)
(* space, for any width of addresses.                                      *)
THEOREM CommandsNeverWrap == StreamSpec => []NoWrap
<1>1. ASSUME StreamInv PROVE NoWrap
  <2>1. ASSUME NEW i \in 1 .. (IF foreign THEN 0 ELSE Len(dest))
        PROVE  TouchedCells(cmds[i]) \subseteq 1 .. MaxAddr - 1
    <3>1. ~foreign /\ i \in 1 .. Len(dest)
      OBVIOUS
    <3>2. Sent(i)
      BY <1>1, <3>1 DEF StreamInv, Written
    <3> QED
      BY <3>2, ValidTouches DEF Sent
  <2>2. ASSUME NEW i \in DOMAIN decoded
        PROVE  TouchedCells(decoded[i]) \subseteq 1 .. MaxAddr - 1
    <3>1. i \in 1 .. Len(decoded) /\ i \in 1 .. Len(dest)
      BY <1>1 DEF StreamInv, StreamTypes, ReadBack
    <3>2. IsWire(dest[i]) /\ Decodes(dest[i]) /\ decoded[i] = Fields(dest[i])
      BY <1>1, <3>1 DEF StreamInv, Written, ReadBack
    <3>3. IsPrimitive(decoded[i]) /\ ValidCommand(decoded[i]) = "OK"
      BY <3>2, DecodedIsCanonical
    <3> QED
      BY <3>3, ValidTouches
  <2> QED
    BY <2>1, <2>2 DEF NoWrap
<1> QED
  BY <1>1, StreamInvariant, PTL

-----------------------------------------------------------------------------
(* The children of a batch.                                                *)

(* The primitive that is found at before's cursor, submitted on its own,   *)
(* ends in DONE and leaves the memory of after.                            *)
Succeeds(before, after, fs) ==
    \E d \in CommandAt(before.mem, fs, before.cursor, MaxCells) :
       /\ Decoded[d].kind # "batch"
       /\ ExecuteCommand(Decoded[d], before.mem, fs).ok
       /\ after.mem = ExecuteCommand(Decoded[d], before.mem, fs).mem
       /\ after.cursor = before.cursor + DescriptorCells(d)

BatchState == {"ok", "mem", "loose", "cursor", "done"}

(* What i children have left: those counted in done have succeeded one     *)
(* after the other, and one that failed has only touched its outputs.      *)
Prefix(f, i, m, fs) ==
    /\ DOMAIN f[i] = BatchState /\ f[i].ok \in BOOLEAN /\ f[i].done \in 0..i
    /\ DOMAIN f[i].mem = DOMAIN m
    /\ f[i].ok => f[i].done = i /\ f[i].loose = {}
    /\ \A j \in 0..f[i].done - 1 : Succeeds(f[j], f[j + 1], fs)
    /\ \A x \in DOMAIN m :
          f[i].mem[x] = f[f[i].done].mem[x] \/ (~f[i].ok /\ x \in f[i].loose)

(* One more child keeps the prefix.                                        *)
LEMMA PrefixStep ==
  ASSUME NEW batch, NEW a, NEW m, NEW fs, NEW f, NEW i \in Nat, i # 0,
         Prefix(f, i - 1, m, fs), f[i] = ChildStep(batch, a, fs, f[i - 1])
  PROVE  Prefix(f, i, m, fs)
  <1> DEFINE b == f[i - 1]
             runnable == RunnableAt(batch, a, b.cursor, b.mem, fs)
  <1>1. /\ DOMAIN b = BatchState /\ b.ok \in BOOLEAN /\ b.done \in 0..i - 1
        /\ DOMAIN b.mem = DOMAIN m
        /\ b.ok => b.done = i - 1 /\ b.loose = {}
        /\ \A j \in 0..b.done - 1 : Succeeds(f[j], f[j + 1], fs)
        /\ \A x \in DOMAIN m : b.mem[x] = f[b.done].mem[x] \/ (~b.ok /\ x \in b.loose)
    BY DEF Prefix
  <1>2. f[i] = RunChild(b, runnable, fs)
    BY DEF ChildStep
  <1>3. CASE ~b.ok
    <2>1. f[i] = b
      BY <1>2, <1>3 DEF RunChild
    <2>2. f[i].done \in 0..i
      BY <2>1, <1>1
    <2> HIDE DEF b
    <2>3. QED BY <2>1, <2>2, <1>1, <1>3 DEF Prefix
  <1>4. CASE b.ok /\ runnable = {}
    <2>1. f[i] = [b EXCEPT !.ok = FALSE]
      BY <1>2, <1>4 DEF RunChild
    <2> HIDE DEF b
    <2>2. /\ DOMAIN f[i] = BatchState /\ f[i].ok = FALSE /\ f[i].done = b.done
          /\ f[i].mem = b.mem
      BY <2>1, <1>1 DEF BatchState
    <2>3. f[i].done \in 0..i
      BY <2>2, <1>1
    <2>4. QED BY <2>2, <2>3, <1>1, <1>4 DEF Prefix
  <1>5. CASE b.ok /\ runnable # {}
    <2> DEFINE d == CHOOSE x \in runnable : TRUE
               done == ExecuteCommand(Decoded[d], b.mem, fs)
    <2>1. d \in runnable
      BY <1>5
    <2>2. f[i] = AfterChild(b, d, WithLoose(done, Decoded[d]))
      BY <1>2, <1>5 DEF RunChild
    <2> HIDE DEF d
    <2>3. d \in CommandAt(b.mem, fs, b.cursor, MaxCells) /\ Decoded[d].kind # "batch"
      BY <2>1, StreamIsNoLimit DEF RunnableAt
    <2>4. OutputFields(Decoded[d])
      BY <2>3, AcceptedIs DEF CommandAt
    <2>5. Within(done, b.mem, OutCells(Decoded[d]))
      BY <2>4, CommandEffect
    <2> HIDE DEF b
    <2>6. /\ DOMAIN f[i] = BatchState /\ f[i].ok = done.ok /\ f[i].mem = done.mem
          /\ f[i].loose = (IF done.ok THEN {} ELSE OutCells(Decoded[d]))
          /\ f[i].cursor = b.cursor + DescriptorCells(d)
          /\ f[i].done = IF done.ok THEN b.done + 1 ELSE b.done
      BY <2>2 DEF AfterChild, WithLoose, BatchState
    <2>7. done.ok \in BOOLEAN /\ DOMAIN done.mem = DOMAIN m
          /\ \A x \in DOMAIN m \ OutCells(Decoded[d]) : done.mem[x] = b.mem[x]
      BY <2>5, <1>1 DEF Within
    <2>8. CASE done.ok
      <3>1. Succeeds(b, f[i], fs)
        BY <2>3, <2>6, <2>8 DEF Succeeds
      <3>2. f[i].done = i /\ i \in 0..i /\ b.done = i - 1
        BY <2>6, <2>8, <1>1, <1>5
      <3>3. \A j \in 0..i - 1 : j \in 0..b.done - 1 \/ (j = i - 1 /\ j + 1 = i)
        BY <3>2
      <3>4. \A j \in 0..i - 1 : Succeeds(f[j], f[j + 1], fs)
        BY <3>1, <3>3, <1>1 DEF b
      <3>5. QED BY <2>6, <2>7, <2>8, <3>2, <3>4 DEF Prefix
    <2>9. CASE ~done.ok
      <3> HIDE DEF done
      <3>1. f[i].done = b.done /\ b.done = i - 1 /\ b.done \in 0..i /\ f[b.done] = b
        BY <2>6, <2>9, <1>1, <1>5 DEF b
      <3>2. \A x \in DOMAIN m : f[i].mem[x] = b.mem[x] \/ x \in f[i].loose
        BY <2>6, <2>7, <2>9
      <3>3. QED BY <2>6, <2>7, <2>9, <3>1, <3>2, <1>1 DEF Prefix
    <2>10. QED BY <2>7, <2>8, <2>9
  <1>6. QED BY <1>3, <1>4, <1>5

(* The batch walks along a prefix of successes, to the end or to the first *)
(* child that fails.                                                       *)
LEMMA BatchWalk ==
  ASSUME NEW batch, NEW a, NEW m, NEW fs, BatchFields(batch)
  PROVE  \E f : /\ Children(batch, a, m, fs) = f[batch.count]
                /\ f[0] = Started(batch, m) /\ Prefix(f, batch.count, m, fs)
  <1> DEFINE n == batch.count
  <1>1. PICK f : Children(batch, a, m, fs) = f[n] /\ Walk(batch, a, m, fs, f)
    BY BatchLoop
  <1>n. n \in Nat
    BY DEF BatchFields
  <1> DEFINE Bad == {i \in 0..n : ~Prefix(f, i, m, fs)}
  <1>2. SUFFICES ASSUME Bad # {} PROVE FALSE
    <2>1. n \in 0..n
      BY <1>n
    <2>2. Prefix(f, n, m, fs)
      BY <2>1
    <2>3. QED BY <2>2, <1>1 DEF Walk
  <1>3. PICK i \in Bad : \A j \in Bad : i <= j
    <2>1. Bad \subseteq Nat
      OBVIOUS
    <2> HIDE DEF Bad
    <2> QED BY <1>2, <2>1, HasLeast
  <1>4. i # 0
    <2>1. f[0] = Started(batch, m)
      BY <1>1 DEF Walk
    <2>2. Prefix(f, 0, m, fs)
      BY <2>1 DEF Prefix, Started, BatchState
    <2>3. QED BY <1>3, <2>2
  <1>5. i \in 1..n /\ i \in Nat /\ i - 1 \in 0..n /\ i - 1 \notin Bad
    BY <1>3, <1>4, <1>n
  <1>6. Prefix(f, i - 1, m, fs) /\ f[i] = ChildStep(batch, a, fs, f[i - 1])
    BY <1>1, <1>5 DEF Walk
  <1>7. Prefix(f, i, m, fs)
    BY <1>4, <1>5, <1>6, PrefixStep
  <1>8. QED BY <1>3, <1>7

-----------------------------------------------------------------------------
(* A submission.                                                           *)

(* The last child's memory with the record stored over it.                 *)
LEMMA RecordStored ==
  ASSUME NEW batch, NEW last, NEW fs, BatchFields(batch), WriteOk(fs, batch.result, PairCells),
         DOMAIN last.mem = Ram
  PROVE  LET e == RecordBatch(batch, last, fs)
         IN  /\ DOMAIN e.mem = Ram /\ e.mem[batch.result] = last.done
             /\ e.ok => last.ok
             /\ e.loose = last.loose \ RecordCells(batch)
             /\ \A x \in Ram \ RecordCells(batch) : e.mem[x] = last.mem[x]
  <1> DEFINE words == BatchRecord(batch, last)
             e == RecordBatch(batch, last, fs)
  <1>1. Len(words) = 2 /\ words[1] = last.done
    BY DEF BatchRecord
  <1>2. batch.result \in Nat /\ RecordCells(batch) = batch.result..batch.result + 1
    BY DEF BatchFields, RecordCells, PairCells
  <1>3. batch.result \in Ram
    <2>1. batch.result \in batch.result..batch.result + PairCells - 1
      BY <1>2 DEF PairCells
    <2>2. QED BY <2>1 DEF WriteOk
  <1>4. e = [ok |-> last.ok /\ last.cursor = StreamEnd(batch),
             mem |-> Store(last.mem, batch.result, words), loose |-> last.loose \ RecordCells(batch)]
    BY DEF RecordBatch, RecordCells
  <1>5. Store(last.mem, batch.result, words)
          = [x \in Ram |-> IF x \in batch.result + 0..batch.result + 0 + Len(words) - 1
                           THEN words[x - batch.result + 1] ELSE last.mem[x]]
    BY DEF Store, StorePart
  <1> HIDE DEF words, e
  <1>6. batch.result + 0..batch.result + 0 + Len(words) - 1 = RecordCells(batch)
    BY <1>1, <1>2
  <1>7. batch.result \in RecordCells(batch) /\ batch.result - batch.result + 1 = 1
    BY <1>2
  <1>8. e.mem[batch.result] = last.done
    BY <1>1, <1>3, <1>4, <1>5, <1>6, <1>7
  <1>9. e.mem = Store(last.mem, batch.result, words) /\ e.loose = last.loose \ RecordCells(batch)
    BY <1>4
  <1>10. DOMAIN e.mem = Ram /\ \A x \in Ram \ RecordCells(batch) : e.mem[x] = last.mem[x]
    BY <1>5, <1>6, <1>9
  <1>11. e.ok => last.ok
    BY <1>4
  <1>12. QED BY <1>8, <1>9, <1>10, <1>11 DEF e

(* A run of the twin: from memory m and address c, n children one by one.  *)
Replays(run, n, m, c, fs) ==
    /\ run[0].mem = m /\ run[0].cursor = c
    /\ \A j \in 0..n - 1 : Succeeds(run[j], run[j + 1], fs)

(* execute_batch leaves what a replay of as many children as its record    *)
(* says leaves, but for the record and for what a failed child has stored. *)
LEMMA BatchEffect ==
  ASSUME NEW batch, NEW a, NEW m, NEW fs, BatchFields(batch), DOMAIN m = Ram,
         Admitted(batch, a, EncodedSize(batch)), WriteOk(fs, batch.result, PairCells)
  PROVE  LET e == ExecuteBatch(batch, a, m, fs)
             n == e.mem[batch.result]
         IN  /\ DOMAIN e.mem = Ram /\ n \in Nat
             /\ \E run : /\ Replays(run, n, m, batch.stream, fs)
                         /\ \A x \in Ram \ RecordCells(batch) :
                               e.mem[x] = run[n].mem[x] \/ (~e.ok /\ x \in e.loose)
  <1> DEFINE last == Children(batch, a, m, fs)
             e == ExecuteBatch(batch, a, m, fs)
  <1>1. PICK f : /\ last = f[batch.count]
                 /\ f[0] = Started(batch, m) /\ Prefix(f, batch.count, m, fs)
    BY BatchWalk
  <1>2. e = RecordBatch(batch, last, fs)
    BY DEF ExecuteBatch
  <1> HIDE DEF last, e
  <1>3. /\ DOMAIN last.mem = Ram /\ last.done \in Nat
        /\ \A j \in 0..last.done - 1 : Succeeds(f[j], f[j + 1], fs)
        /\ \A x \in Ram : last.mem[x] = f[last.done].mem[x] \/ (~last.ok /\ x \in last.loose)
    <2>1. last.done \in 0..batch.count
      BY <1>1 DEF Prefix
    <2>2. QED BY <1>1, <2>1 DEF Prefix
  <1>4. /\ DOMAIN e.mem = Ram /\ e.mem[batch.result] = last.done
        /\ e.ok => last.ok
        /\ e.loose = last.loose \ RecordCells(batch)
        /\ \A x \in Ram \ RecordCells(batch) : e.mem[x] = last.mem[x]
    BY <1>2, <1>3, RecordStored
  <1>5. Replays(f, last.done, m, batch.stream, fs)
    <2>1. f[0].mem = m /\ f[0].cursor = batch.stream
      BY <1>1 DEF Started
    <2>2. QED BY <2>1, <1>3 DEF Replays
  <1>6. \A x \in Ram \ RecordCells(batch) :
           e.mem[x] = f[last.done].mem[x] \/ (~e.ok /\ x \in e.loose)
    BY <1>3, <1>4
  <1>7. QED BY <1>3, <1>4, <1>5, <1>6 DEF e

(* What is at the address register is run.                                 *)
LEMMA ExecuteOne ==
  ASSUME NEW a, NEW m, NEW fs, NEW d \in CommandAt(m, fs, a, MaxCells)
  PROVE  Execute(a, m, fs) = ExecuteDecoded(Decoded[d], a, m, fs)
  <1>1. CommandAt(m, fs, a, MaxCells) = {d}
    BY OneCommand
  <1>2. (CHOOSE x \in CommandAt(m, fs, a, MaxCells) : TRUE) = d
    BY <1>1
  <1>3. QED BY <1>1, <1>2 DEF Execute

(* No submission changes what memory there is.                             *)
LEMMA ExecuteKeepsRam ==
  ASSUME NEW a, NEW m, NEW fs, DOMAIN m = Ram
  PROVE  DOMAIN Execute(a, m, fs).mem = Ram
  <1>1. CASE CommandAt(m, fs, a, MaxCells) = {}
    BY <1>1 DEF Execute
  <1>2. ASSUME NEW d \in CommandAt(m, fs, a, MaxCells)
        PROVE  DOMAIN Execute(a, m, fs).mem = Ram
    <2> DEFINE cmd == Decoded[d]
    <2>1. Execute(a, m, fs) = ExecuteDecoded(cmd, a, m, fs) /\ d \in Accepted
      BY ExecuteOne DEF CommandAt
    <2> HIDE DEF cmd
    <2>2. IF cmd.kind = "batch" THEN BatchFields(cmd) ELSE OutputFields(cmd)
      BY <2>1, AcceptedIs DEF cmd
    <2>3. CASE cmd.kind # "batch"
      <3>1. Within(ExecuteCommand(cmd, m, fs), m, OutCells(cmd))
        BY <2>2, <2>3, CommandEffect
      <3>2. Execute(a, m, fs).mem = ExecuteCommand(cmd, m, fs).mem
        BY <2>1, <2>3 DEF ExecuteDecoded, WithLoose
      <3>3. QED BY <3>1, <3>2 DEF Within
    <2>4. CASE cmd.kind = "batch"
      <3>1. Execute(a, m, fs) = ExecuteBatch(cmd, a, m, fs)
        BY <2>1, <2>4 DEF ExecuteDecoded
      <3>2. CASE ~Admitted(cmd, a, EncodedSize(cmd))
        BY <3>1, <3>2 DEF ExecuteBatch
      <3>3. CASE Admitted(cmd, a, EncodedSize(cmd))
        <4>1. CASE WriteOk(fs, cmd.result, PairCells)
          BY <2>2, <2>4, <3>1, <3>3, <4>1, BatchEffect
        <4>2. CASE ~WriteOk(fs, cmd.result, PairCells)
          <5>1. Execute(a, m, fs).mem = Children(cmd, a, m, fs).mem
            BY <3>1, <3>3, <4>2 DEF ExecuteBatch, RecordBatch
          <5>2. PICK f : Children(cmd, a, m, fs) = f[cmd.count] /\ Prefix(f, cmd.count, m, fs)
            BY <2>2, <2>4, BatchWalk
          <5>3. QED BY <5>1, <5>2 DEF Prefix
        <4>3. QED BY <4>1, <4>2
      <3>4. QED BY <3>2, <3>3
    <2>5. QED BY <2>3, <2>4
  <1>3. QED BY <1>1, <1>2

-----------------------------------------------------------------------------
(* The batch and its replay.                                               *)

(* What the twin still has to run takes it to the memory the batch left.   *)
ReplayInv ==
    /\ DOMAIN mem = Ram /\ left \in Nat /\ twinOk = TRUE
    /\ \E run : /\ Replays(run, left, twin, at, faults)
                /\ \A x \in Ram \ record :
                      mem[x] = run[left].mem[x] \/ (status = "ERROR" /\ x \in loose)

(* With nothing left to run the twin has the memory already.               *)
LEMMA NothingLeft ==
  ASSUME NEW m, NEW c, NEW fs
  PROVE  \E run : Replays(run, 0, m, c, fs) /\ run[0].mem = m
  <1> DEFINE run == [j \in {0} |-> [mem |-> m, cursor |-> c]]
  <1>1. Replays(run, 0, m, c, fs) /\ run[0].mem = m
    BY DEF Replays
  <1> HIDE DEF run
  <1>2. QED BY <1>1

(* Before the first submission there is nothing to replay.                 *)
LEMMA ReplayStarts == ReplayInit => ReplayInv
  <1> SUFFICES ASSUME ReplayInit PROVE ReplayInv
    OBVIOUS
  <1>1. DOMAIN mem = Ram
    BY ReplayAssumption DEF ReplayInit, Init
  <1>2. left = 0 /\ twin = mem /\ twinOk = TRUE
    BY DEF ReplayInit
  <1>3. PICK run : Replays(run, 0, twin, at, faults) /\ run[0].mem = twin
    BY NothingLeft
  <1>4. QED BY <1>1, <1>2, <1>3 DEF ReplayInv

(* A batch leaves as many children to the twin as its record says.         *)
LEMMA ReplayBatch == ReplayInv /\ SubmitBatch => ReplayInv'
  <1> SUFFICES ASSUME ReplayInv, SubmitBatch PROVE ReplayInv'
    OBVIOUS
  <1>1. PICK batch \in SubmittedBatches :
          /\ twin' = mem /\ record' = RecordCells(batch)
          /\ at' = batch.stream /\ left' = mem'[batch.result] /\ twinOk' = TRUE
    BY DEF SubmitBatch
  <1>2. PICK d \in CommandAt(mem, faults, Address, MaxCells) : batch = Decoded[d]
    BY DEF SubmittedBatches
  <1>3. /\ batch.kind = "batch" /\ Admitted(batch, Address, EncodedSize(batch))
        /\ WriteOk(faults, batch.result, PairCells)
    BY DEF SubmittedBatches
  <1> DEFINE e == ExecuteBatch(batch, Address, mem, faults)
  <1>4. Execute(Address, mem, faults) = e
    BY <1>2, <1>3, ExecuteOne DEF ExecuteDecoded
  <1>5. /\ status' = (IF e.ok THEN "DONE" ELSE "ERROR")
        /\ mem' = e.mem /\ loose' = e.loose /\ faults' = faults
    BY <1>4 DEF SubmitBatch, Doorbell
  <1>6. DOMAIN mem = Ram /\ BatchFields(batch)
    BY <1>2, <1>3, AcceptedIs DEF ReplayInv, CommandAt
  <1> DEFINE n == e.mem[batch.result]
  <1>7. /\ DOMAIN e.mem = Ram /\ n \in Nat
        /\ \E run : /\ Replays(run, n, mem, batch.stream, faults)
                    /\ \A x \in Ram \ RecordCells(batch) :
                          e.mem[x] = run[n].mem[x] \/ (~e.ok /\ x \in e.loose)
    BY <1>3, <1>6, BatchEffect
  <1> HIDE DEF e
  <1>8. QED BY <1>1, <1>5, <1>7 DEF ReplayInv

(* A primitive, or a submission refused, leaves none.                      *)
LEMMA ReplayOther == ReplayInv /\ SubmitOther => ReplayInv'
  <1> SUFFICES ASSUME ReplayInv, SubmitOther PROVE ReplayInv'
    OBVIOUS
  <1>1. mem' = Execute(Address, mem, faults).mem /\ faults' = faults
    BY DEF SubmitOther, Doorbell
  <1>2. DOMAIN mem' = Ram
    BY <1>1, ExecuteKeepsRam DEF ReplayInv
  <1>3. left' = 0 /\ twinOk' = TRUE /\ twin' = mem'
    BY DEF SubmitOther, ReplayInv
  <1>4. PICK run : Replays(run, 0, twin', at', faults') /\ run[0].mem = twin'
    BY NothingLeft
  <1>5. QED BY <1>2, <1>3, <1>4 DEF ReplayInv

(* The twin runs one of them.                                              *)
LEMMA ReplayChild == ReplayInv /\ SubmitChild => ReplayInv'
  <1> SUFFICES ASSUME ReplayInv, SubmitChild PROVE ReplayInv'
    OBVIOUS
  <1>1. PICK run : /\ Replays(run, left, twin, at, faults)
                   /\ \A x \in Ram \ record :
                         mem[x] = run[left].mem[x] \/ (status = "ERROR" /\ x \in loose)
    BY DEF ReplayInv
  <1>2. left \in Nat /\ left - 1 \in Nat /\ left' = left - 1 /\ 0 \in 0..left - 1
    BY DEF ReplayInv, SubmitChild
  <1>3. run[0].mem = twin /\ run[0].cursor = at /\ Succeeds(run[0], run[0 + 1], faults)
    BY <1>1, <1>2 DEF Replays
  <1>4. PICK d \in CommandAt(twin, faults, at, MaxCells) :
          /\ Decoded[d].kind # "batch" /\ ExecuteCommand(Decoded[d], twin, faults).ok
          /\ run[1].mem = ExecuteCommand(Decoded[d], twin, faults).mem
          /\ run[1].cursor = at + DescriptorCells(d)
    BY <1>3 DEF Succeeds
  <1>5. Execute(at, twin, faults) = WithLoose(ExecuteCommand(Decoded[d], twin, faults), Decoded[d])
    BY <1>4, ExecuteOne DEF ExecuteDecoded
  <1>6. twin' = run[1].mem /\ twinOk' = TRUE
    <2> DEFINE done == ExecuteCommand(Decoded[d], twin, faults)
    <2>1. OutputFields(Decoded[d])
      BY <1>4, AcceptedIs DEF CommandAt
    <2>2. Within(done, twin, OutCells(Decoded[d]))
      BY <2>1, CommandEffect
    <2> HIDE DEF done
    <2>3. done.ok = TRUE
      BY <1>4, <2>2 DEF Within, done
    <2>4. twin' = Execute(at, twin, faults).mem
          /\ twinOk' = (twinOk /\ Execute(at, twin, faults).ok)
      BY DEF SubmitChild
    <2>5. Execute(at, twin, faults).mem = done.mem /\ Execute(at, twin, faults).ok = TRUE
      BY <1>5, <2>3 DEF WithLoose, done
    <2>6. twinOk = TRUE
      BY DEF ReplayInv
    <2>7. QED BY <1>4, <2>4, <2>5, <2>6 DEF done
  <1>7. at' = run[1].cursor
    <2>1. PICK c \in CommandAt(twin, faults, at, MaxCells) : at' = at + DescriptorCells(c)
      BY DEF SubmitChild
    <2>2. c = d
      BY OneCommand
    <2>3. QED BY <1>4, <2>1, <2>2
  <1> DEFINE tail == [j \in 0..left - 1 |-> run[j + 1]]
  <1>8. Replays(tail, left - 1, twin', at', faults)
    <2>1. tail[0] = run[1]
      BY <1>2
    <2>2. ASSUME NEW j \in 0..(left - 1) - 1
          PROVE  Succeeds(tail[j], tail[j + 1], faults)
      <3>1. j \in 0..left - 1 /\ j + 1 \in 0..left - 1
        BY <1>2
      <3>2. Succeeds(run[j + 1], run[(j + 1) + 1], faults)
        BY <1>1, <3>1 DEF Replays
      <3>3. tail[j] = run[j + 1] /\ tail[j + 1] = run[(j + 1) + 1]
        BY <3>1
      <3>4. QED BY <3>2, <3>3
    <2> HIDE DEF tail
    <2>3. QED BY <1>6, <1>7, <2>1, <2>2 DEF Replays
  <1>9. tail[left - 1] = run[left]
    BY <1>2
  <1>10. UNCHANGED <<mem, faults, status, loose, record>>
    BY DEF SubmitChild, vars
  <1> HIDE DEF tail
  <1>11. DOMAIN mem = Ram
    BY DEF ReplayInv
  <1>12. QED BY <1>1, <1>2, <1>6, <1>8, <1>9, <1>10, <1>11 DEF ReplayInv

(* What the host writes to registers and memory goes to both.              *)
LEMMA ReplayHost == ReplayInv /\ HostStep => ReplayInv'
  <1> SUFFICES ASSUME ReplayInv, HostStep PROVE ReplayInv'
    OBVIOUS
  <1>1. left = 0 /\ UNCHANGED <<at, left, twinOk>>
    BY DEF HostStep
  <1>2. ASSUME WriteLo \/ WriteHi, UNCHANGED <<twin, record>> PROVE ReplayInv'
    <2>1. UNCHANGED <<mem, faults, status, loose>>
      BY <1>2 DEF WriteLo, WriteHi
    <2>2. QED BY <1>1, <1>2, <2>1 DEF ReplayInv
  <1>3. ASSUME HostPrepare, twin' = mem' PROVE ReplayInv'
    <2>1. DOMAIN mem' = Ram
      BY <1>3, ReplayAssumption DEF HostPrepare
    <2>2. left' = 0 /\ twinOk' = TRUE
      BY <1>1 DEF ReplayInv
    <2>3. PICK run : Replays(run, 0, twin', at', faults') /\ run[0].mem = twin'
      BY NothingLeft
    <2>4. QED BY <1>3, <2>1, <2>2, <2>3 DEF ReplayInv
  <1>4. QED BY <1>2, <1>3 DEF HostStep

(* So every step keeps the invariant.                                      *)
LEMMA ReplayStep == ReplayInv /\ [ReplayNext]_<<vars, replayVars>> => ReplayInv'
  <1> SUFFICES ASSUME ReplayInv, [ReplayNext]_<<vars, replayVars>> PROVE ReplayInv'
    OBVIOUS
  <1>1. CASE ReplayNext
    BY <1>1, ReplayBatch, ReplayOther, ReplayChild, ReplayHost DEF ReplayNext
  <1>2. CASE UNCHANGED <<vars, replayVars>>
    <2>1. UNCHANGED <<mem, faults, status, loose, record, twin, at, left, twinOk>>
      BY <1>2 DEF vars, replayVars
    <2>2. QED BY <2>1 DEF ReplayInv
  <1>3. QED BY <1>1, <1>2

(* At any point of the replay of a batch of the functional device, as many *)
(* children as its record says, run on the memory the batch started with,  *)
(* take the twin to the memory the batch left.                             *)
THEOREM ReplayInvariant == ReplaySpec => []ReplayInv
  BY ReplayStarts, ReplayStep, PTL DEF ReplaySpec

(* execute_batch tells the truth: the first word of its record is the      *)
(* number of children that have done what they do one by one, for every    *)
(* memory, fault set, stream and number of children.                       *)
THEOREM BatchIsItsChildren == ReplaySpec => []RecordTellsPrefix
  <1>1. ReplayInv => RecordTellsPrefix
    <2> SUFFICES ASSUME ReplayInv PROVE RecordTellsPrefix
      OBVIOUS
    <2>1. PICK run : /\ Replays(run, left, twin, at, faults)
                     /\ \A x \in Ram \ record :
                           mem[x] = run[left].mem[x] \/ (status = "ERROR" /\ x \in loose)
      BY DEF ReplayInv
    <2>2. left = 0 => run[left].mem = twin
      BY <2>1 DEF Replays
    <2>3. QED BY <2>1, <2>2 DEF RecordTellsPrefix, ReplayInv
  <1>2. QED BY <1>1, ReplayInvariant, PTL
=============================================================================
