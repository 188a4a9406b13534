--------------------------- MODULE CommandStream ---------------------------
(***************************************************************************)
(* A child stream from the host to the device (pcaalib/src/codec.c):       *)
(* pcaa_encode_stream in its two passes, first the size of everything and  *)
(* then the bytes; possibly another producer's version of a descriptor;    *)
(* and pcaa_decode_one called descriptor by descriptor, as a device walks  *)
(* the stream.                                                             *)
(***************************************************************************)
EXTENDS Codec

CONSTANTS Streams,     \* command sequences a caller passes to pcaa_encode_stream
          Capacities   \* sizes of the destination buffer, in cells

ASSUME StreamAssumption ==
    /\ Capacities \subseteq Nat
    /\ \A s \in Streams : /\ s = [i \in 1 .. Len(s) |-> s[i]] /\ Len(s) \in Nat
                          /\ \A i \in 1 .. Len(s) : IsPrimitive(s[i]) \/ IsBatch(s[i])

VARIABLES cmds, capacity,   \* the caller's arguments
          phase,            \* which pass is under way
          verdict,          \* what pcaa_encode_stream or pcaa_decode_one returned
          index,            \* commands of this pass that are behind us
          total,            \* bytes the first pass counted
          room,             \* capacity left to the second pass
          dest,             \* the descriptors written to the destination
          foreign,          \* a descriptor was replaced by another producer's
          decoded, rest     \* commands read back, and bytes of the stream not yet consumed

streamVars == <<cmds, capacity, phase, verdict, index, total, room, dest, foreign, decoded, rest>>

CellsOf(wire) == WireFormatSize(wire.opcode, wire.format)

StreamInit == /\ cmds \in Streams /\ capacity \in Capacities
        /\ phase = "size" /\ verdict = "OK" /\ index = 0 /\ total = 0 /\ room = 0
        /\ dest = <<>> /\ foreign = FALSE /\ decoded = <<>> /\ rest = 0

Refuse(v) == /\ phase' = "refused" /\ verdict' = v
             /\ UNCHANGED <<cmds, capacity, index, total, room, dest, foreign, decoded, rest>>

-----------------------------------------------------------------------------
(* pcaa_encoded_stream_size.                                               *)

BadCount == /\ phase = "size" /\ index = 0
            /\ \/ Len(cmds) = 0 /\ Refuse("INVALID_ARGUMENT")
               \/ Len(cmds) > Max32 /\ Refuse("RANGE")

GoodCount == Len(cmds) \in 1..Max32

SizeVerdict(cmd) ==
    IF cmd.kind = "batch" THEN "INVALID_COMMAND"
    ELSE IF ValidCommand(cmd) # "OK" THEN ValidCommand(cmd)
    ELSE IF EncodedSize(cmd) > Max32 - total THEN "RANGE" ELSE "OK"

SizeOne == /\ phase = "size" /\ GoodCount /\ index < Len(cmds)
           /\ SizeVerdict(cmds[index + 1]) = "OK"
           /\ index' = index + 1 /\ total' = total + EncodedSize(cmds[index + 1])
           /\ UNCHANGED <<cmds, capacity, phase, verdict, room, dest, foreign, decoded, rest>>

SizeRefused == /\ phase = "size" /\ GoodCount /\ index < Len(cmds)
               /\ SizeVerdict(cmds[index + 1]) # "OK"
               /\ Refuse(SizeVerdict(cmds[index + 1]))

-----------------------------------------------------------------------------
(* pcaa_encode_stream.                                                     *)

(* Mutant: room for the whole stream is not established first.             *)
EncodeBeginsEarly == /\ phase = "size" /\ GoodCount /\ index = Len(cmds)
                     /\ phase' = "encode" /\ index' = 0 /\ room' = capacity
                     /\ UNCHANGED <<cmds, capacity, verdict, total, dest, foreign, decoded, rest>>

EncodeBegins == /\ phase = "size" /\ GoodCount /\ index = Len(cmds) /\ capacity >= total
                /\ phase' = "encode" /\ index' = 0 /\ room' = capacity
                /\ UNCHANGED <<cmds, capacity, verdict, total, dest, foreign, decoded, rest>>

NoSpace == /\ phase = "size" /\ GoodCount /\ index = Len(cmds) /\ capacity < total
           /\ Refuse("NO_SPACE")

(* pcaa_encode_one: validation again, then the capacity that is left.      *)
OneVerdict(cmd) ==
    IF ValidCommand(cmd) # "OK" THEN ValidCommand(cmd)
    ELSE IF room < EncodedSize(cmd) THEN "NO_SPACE" ELSE "OK"

EncodeOne == /\ phase = "encode" /\ index < Len(cmds)
             /\ LET cmd == cmds[index + 1]
                IN  IF OneVerdict(cmd) # "OK" THEN Refuse(OneVerdict(cmd))
                    ELSE /\ dest' = Append(dest, Encode(cmd))
                         /\ room' = room - EncodedSize(cmd) /\ index' = index + 1
                         /\ UNCHANGED <<cmds, capacity, phase, verdict, total, foreign, decoded, rest>>

EncodeEnds == /\ phase = "encode" /\ index = Len(cmds)
              /\ phase' = "decode" /\ rest' = total
              /\ UNCHANGED <<cmds, capacity, verdict, index, total, room, dest, foreign, decoded>>

-----------------------------------------------------------------------------
(* What another producer, or a stray write, might have put in the place of *)
(* a descriptor: a flag or a reserved byte set, a dimension or an opcode   *)
(* changed, or an in-place addition spelt in the general format.           *)
ForeignForms(w) ==
    {[w EXCEPT !.flags = 1], [w EXCEPT !.reserved = 1], [w EXCEPT !.m = @ + 1],
     [w EXCEPT !.n = @ + 1], [w EXCEPT !.opcode = @ + 1], [w EXCEPT !.q[1] = w.q[2]]}
    \cup (IF w.format = Inplace
          THEN {[w EXCEPT !.format = General, !.q[3] = w.q[1], !.h[3] = w.h[1]]} ELSE {})

Replace == /\ phase = "decode" /\ rest = total /\ ~foreign
           /\ \E i \in DOMAIN dest : \E w \in ForeignForms(dest[i]) :
                /\ dest' = [dest EXCEPT ![i] = w]
                /\ rest' = total - CellsOf(dest[i]) + CellsOf(w)
                /\ total' = rest'
           /\ foreign' = TRUE
           /\ UNCHANGED <<cmds, capacity, phase, verdict, index, room, decoded>>

(* pcaa_decode_one with the bytes that are left.                           *)
Pending == dest[Len(decoded) + 1]

DecodeOne == /\ phase = "decode" /\ Len(decoded) < Len(dest)
             /\ Decodes(Pending) /\ CellsOf(Pending) <= rest
             /\ decoded' = Append(decoded, Fields(Pending))
             /\ rest' = rest - CellsOf(Pending)
             /\ UNCHANGED <<cmds, capacity, phase, verdict, index, total, room, dest, foreign>>

DecodeFails == /\ phase = "decode" /\ Len(decoded) < Len(dest)
               /\ ~(Decodes(Pending) /\ CellsOf(Pending) <= rest)
               /\ Refuse("INVALID_COMMAND")

DecodeEnds == /\ phase = "decode" /\ Len(decoded) = Len(dest)
              /\ phase' = "done"
              /\ UNCHANGED <<cmds, capacity, verdict, index, total, room, dest, foreign, decoded, rest>>

StreamNext == \/ BadCount \/ SizeOne \/ SizeRefused
              \/ EncodeBegins \/ NoSpace \/ EncodeOne \/ EncodeEnds
              \/ Replace \/ DecodeOne \/ DecodeFails \/ DecodeEnds

StreamSpec == StreamInit /\ [][StreamNext]_streamVars

-----------------------------------------------------------------------------
(* Properties.                                                             *)

(* pcaa_encode_stream: a refused stream leaves the destination untouched,  *)
(* whichever command or limit refused it; the second pass cannot fail      *)
(* half way.                                                               *)
AllOrNothing == verdict # "OK" /\ dest # <<>> => Len(dest) = Len(cmds)

(* An in-place addition may come back with its operands exchanged.         *)
SameCommand(sent, got) ==
    \/ got = sent
    \/ sent.kind = "vector_add" /\ got = [sent EXCEPT !.a = sent.b, !.b = sent.a]

(* pcaa_encode_one against pcaa_decode_one: every stream the host encodes  *)
(* is read back command by command, no field truncated, and used up by the *)
(* sizes the headers imply.                                                *)
StreamReadsBack ==
    /\ ~foreign /\ dest # <<>> /\ Len(dest) = Len(cmds) => verdict = "OK"
    /\ ~foreign => \A i \in DOMAIN decoded : SameCommand(cmds[i], decoded[i])
    /\ phase = "done" => rest = 0

(* pcaa_decode_one: one command has one encoding, so a descriptor that is  *)
(* accepted, from whichever producer, is the one this encoder would write. *)
Canonical == \A i \in DOMAIN decoded : Encode(decoded[i]) = dest[i]

(* span(): no operand or result of a command that was encoded or decoded   *)
(* is at address zero or reaches beyond the address space, whatever its    *)
(* strides.                                                                *)
TouchedCells(cmd) ==
    {VecAddr(v, v.length - 1) : v \in {cmd.a, cmd.b, cmd.c} \ {NoVec}}
    \cup (IF cmd.m = NoMat THEN {} ELSE {MatAddr(cmd.m, cmd.m.rows - 1, cmd.m.columns - 1)})
    \cup {OutAddr(cmd, cmd.out.length - 1) + OutWidth(cmd.out.kind) - 1}
NoWrap == /\ \A i \in 1..(IF foreign THEN 0 ELSE Len(dest)) : TouchedCells(cmds[i]) \subseteq 1..MaxAddr - 1
          /\ \A i \in DOMAIN decoded : TouchedCells(decoded[i]) \subseteq 1..MaxAddr - 1
=============================================================================
