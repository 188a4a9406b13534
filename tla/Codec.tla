------------------------------- MODULE Codec -------------------------------
(***************************************************************************)
(* The wire form of commands (pcaalib/src/codec.c).  A wire descriptor is  *)
(* the record of its fields, each with the width it has in the encoding:   *)
(* the header's opcode, format, flags, n and m, the 64-bit words q at      *)
(* bytes 8, 16, 24 and 32, the 32-bit words w of a batch, the 16-bit words *)
(* h behind the addresses, and whether a reserved byte is set.             *)
(***************************************************************************)
EXTENDS PcaaCommand

Opcode == [reduce2 |-> 1, reduce3 |-> 2, reduce2_argmin |-> 3, reduce3_argmin |-> 4,
           batch |-> 5, vector_add |-> 6, project |-> 7, map3 |-> 8]

Formats == 1..9      \* ACCEL_FORMAT_REDUCE2 .. ACCEL_FORMAT_MINPLUS_MAP3_PROJECT
General == 6         \* ACCEL_FORMAT_COST_ADD_VECTOR_GENERAL
Inplace == 7         \* ACCEL_FORMAT_COST_ADD_VECTOR_INPLACE

(* The opcode each format belongs to, and its encoded size.                *)
FormatOpcode == <<1, 2, 3, 4, 5, 6, 6, 7, 8>>
FormatCells  == <<8, 12, 8, 12, 8, 12, 8, 12, 16>>

(* pcaa_wire_format_size: 0 for an opcode and format that do not go        *)
(* together.                                                               *)
WireFormatSize(opcode, format) ==
    IF format \in Formats /\ FormatOpcode[format] = opcode THEN FormatCells[format] ELSE 0

FormatOf(cmd) ==
    CASE cmd.kind \in ReduceKinds  -> Opcode[cmd.kind]
      [] cmd.kind = "batch"        -> 5
      [] cmd.kind = "vector_add"   -> IF AliasesFirst(cmd) \/ AliasesSecond(cmd)
                                      THEN Inplace ELSE General
      [] cmd.kind = "project"      -> 8
      [] cmd.kind = "map3"         -> 9

(* pcaa_encoded_size of a valid command.                                   *)
EncodedSize(cmd) == WireFormatSize(Opcode[cmd.kind], FormatOf(cmd))

Put16(value) == value % (Max16 + 1)

Wire(cmd, n, m, q, w, h) ==
    [opcode |-> Opcode[cmd.kind], format |-> FormatOf(cmd), flags |-> 0,
     n |-> Put16(n), m |-> Put16(m), q |-> q, w |-> w,
     h |-> [i \in DOMAIN h |-> Put16(h[i])], reserved |-> 0]

NoWords == <<0, 0>>
NoHalves == <<0, 0, 0, 0, 0>>

(* The operands of a vector add in wire order: the in-place form stores    *)
(* its destination as the first operand, so an alias of the second only    *)
(* swaps them.                                                             *)
WireFirst(cmd)  == IF FormatOf(cmd) = Inplace /\ ~AliasesFirst(cmd) THEN cmd.b ELSE cmd.a
WireSecond(cmd) == IF FormatOf(cmd) = Inplace /\ ~AliasesFirst(cmd) THEN cmd.a ELSE cmd.b

(* Mutant: the operands of an in-place add are never swapped.              *)
EncodeVectorAddUnswapped(cmd) ==
    Wire(cmd, cmd.a.length, 0,
         <<cmd.a.base, cmd.b.base, IF FormatOf(cmd) = Inplace THEN 0 ELSE cmd.out.base, 0>>,
         NoWords,
         <<cmd.a.stride, cmd.b.stride,
           IF FormatOf(cmd) = Inplace THEN 0 ELSE cmd.out.stride, 0, 0>>)

EncodeVectorAdd(cmd) ==
    LET first  == WireFirst(cmd)
        second == WireSecond(cmd)
    IN  Wire(cmd, first.length, 0,
             <<first.base, second.base,
               IF FormatOf(cmd) = Inplace THEN 0 ELSE cmd.out.base, 0>>,
             NoWords,
             <<first.stride, second.stride,
               IF FormatOf(cmd) = Inplace THEN 0 ELSE cmd.out.stride, 0, 0>>)

(* pcaa_encode_one for a command that valid_command accepts.               *)
Encode(cmd) ==
    CASE cmd.kind \in Reduce2Kinds ->
           Wire(cmd, cmd.a.length, 0, <<cmd.a.base, cmd.b.base, cmd.out.base, 0>>,
                NoWords, NoHalves)
      [] cmd.kind \in Reduce3Kinds ->
           Wire(cmd, cmd.a.length, 0, <<cmd.a.base, cmd.b.base, cmd.c.base, cmd.out.base>>,
                NoWords, NoHalves)
      [] cmd.kind = "batch" ->
           Wire(cmd, 0, 0, <<cmd.stream, cmd.result, 0, 0>>,
                <<cmd.count % (Max32 + 1), cmd.bytes % (Max32 + 1)>>, NoHalves)
      [] cmd.kind = "vector_add" -> EncodeVectorAdd(cmd)
      [] cmd.kind = "project" ->
           Wire(cmd, cmd.m.columns, cmd.m.rows, <<cmd.m.base, cmd.a.base, cmd.out.base, 0>>,
                NoWords,
                <<cmd.m.column_stride, cmd.m.row_stride, cmd.a.stride, cmd.out.stride, 0>>)
      [] cmd.kind = "map3" ->
           Wire(cmd, cmd.m.columns, cmd.m.rows,
                <<cmd.a.base, cmd.b.base, cmd.m.base, cmd.out.base>>, NoWords,
                <<cmd.a.stride, cmd.b.stride, cmd.m.column_stride, cmd.m.row_stride,
                  cmd.out.stride>>)

(* The fields of a descriptor, read back into a command as its format says *)
(* (1 to 9 in order).                                                      *)
Fields(wire) ==
    LET q == wire.q
        h == wire.h
        n == wire.n
    IN  << Reduce2("reduce2", Vec(q[1], n, 1), Vec(q[2], n, 1), q[3]),
           Reduce3("reduce3", Vec(q[1], n, 1), Vec(q[2], n, 1), Vec(q[3], n, 1), q[4]),
           Reduce2("reduce2_argmin", Vec(q[1], n, 1), Vec(q[2], n, 1), q[3]),
           Reduce3("reduce3_argmin", Vec(q[1], n, 1), Vec(q[2], n, 1), Vec(q[3], n, 1), q[4]),
           OrderedBatch(q[1], wire.w[1], wire.w[2], q[2]),
           VectorAdd(Vec(q[1], n, h[1]), Vec(q[2], n, h[2]), Out(q[3], n, h[3], "cost")),
           VectorAdd(Vec(q[1], n, h[1]), Vec(q[2], n, h[2]), Out(q[1], n, h[1], "cost")),
           Project(Mat(q[1], wire.m, n, h[2], h[1]), Vec(q[2], n, h[3]),
                   Out(q[3], wire.m, h[4], "cost")),
           Map3Project(Vec(q[1], n, h[1]), Vec(q[2], n, h[2]),
                       Mat(q[3], wire.m, n, h[4], h[3]), Out(q[4], wire.m, h[5], "pair"))
        >>[wire.format]

(* Mutant: a decoder that does not re-derive the canonical format.         *)
DecodesLoosely(wire) ==
    /\ WireFormatSize(wire.opcode, wire.format) # 0
    /\ wire.flags = 0 /\ wire.reserved = 0
    /\ wire.format \in 1..7 => wire.m = 0
    /\ wire.format = 5 => wire.n = 0
    /\ ValidCommand(Fields(wire)) = "OK"

(* pcaa_decode_one succeeds: the header names one format, flags and        *)
(* reserved bytes are zero, dimensions a format lacks are zero, and the    *)
(* command is valid with exactly this opcode, format and size.             *)
Decodes(wire) ==
    /\ WireFormatSize(wire.opcode, wire.format) # 0
    /\ wire.flags = 0 /\ wire.reserved = 0
    /\ wire.format \in 1..7 => wire.m = 0
    /\ wire.format = 5 => wire.n = 0
    /\ LET cmd == Fields(wire)
       IN  /\ ValidCommand(cmd) = "OK"
           /\ Opcode[cmd.kind] = wire.opcode /\ FormatOf(cmd) = wire.format
           /\ EncodedSize(cmd) = WireFormatSize(wire.opcode, wire.format)
=============================================================================
