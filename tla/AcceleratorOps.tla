--------------------------- MODULE AcceleratorOps ---------------------------
(***************************************************************************)
(* What one submission does to memory, as the functional model of          *)
(* accelerator/src/accelerator.cpp computes it: the reference that the     *)
(* structural model is compared with.                                      *)
(*                                                                         *)
(* Memory is a function from the cells of RAM to signed 32-bit words.  The *)
(* encoded bytes of a descriptor are abstracted: word k of the d-th entry  *)
(* of Wires is the number Word(d, k), no two alike and none of them a      *)
(* cost, so that bytes of two descriptors, or bytes a command overwrote,   *)
(* never decode.  faults.read and faults.write are the cells whose access  *)
(* MemoryInterface refuses.                                                *)
(***************************************************************************)
EXTENDS Codec, CostMath

CONSTANTS Ram,     \* the cells MemoryInterface can reach
          Wires    \* the descriptors the host has encoded somewhere in memory

ASSUME RamAssumption == Ram \subseteq 1..MaxAddr

(* Every field of a descriptor holds an unsigned number.                   *)
WireRecords == [opcode : Nat, format : Nat, flags : Nat, n : Nat, m : Nat, q : [1..4 -> Nat],
                w : [1..2 -> Nat], h : [1..5 -> Nat], reserved : Nat]
ASSUME WiresAssumption == /\ 1 \in DOMAIN Wires /\ DOMAIN Wires \subseteq Nat
                          /\ \A d \in DOMAIN Wires : Wires[d] \in WireRecords

Word(d, k) == Inf + 1 + MaxCells * (d - 1) + k

(* UINT32_MAX, "no child failed", as the word it is in memory.             *)
NoFailure == -1

ReadOk(faults, address, cells) ==
    \A x \in address..address + cells - 1 : x \in Ram \ faults.read
WriteOk(faults, address, cells) ==
    \A x \in address..address + cells - 1 : x \in Ram \ faults.write

(* Memory with n of the words, after the first `from`, stored at address.  *)
StorePart(mem, address, words, from, n) ==
    [x \in DOMAIN mem |-> IF x \in address + from..address + from + n - 1
                          THEN words[x - address + 1] ELSE mem[x]]
Store(mem, address, words) == StorePart(mem, address, words, 0, Len(words))

-----------------------------------------------------------------------------
(* Descriptors.                                                            *)

DescriptorCells(d) == WireFormatSize(Wires[d].opcode, Wires[d].format)

HasHeader(mem, address, d) == \A k \in 0..HeaderCells - 1 : mem[address + k] = Word(d, k)
HasBody(mem, address, d) ==
    \A k \in HeaderCells..DescriptorCells(d) - 1 : mem[address + k] = Word(d, k)

(* The descriptors that decode, and the command each of them stands for.   *)
Accepted == {d \in DOMAIN Wires : Decodes(Wires[d])}
Decoded  == [d \in Accepted |-> Fields(Wires[d])]

(* read_command: the descriptors readable at address, at most one.         *)
CommandAt(mem, faults, address, available) ==
    {d \in Accepted :
        /\ address # 0 /\ available >= HeaderCells
        /\ ReadOk(faults, address, HeaderCells)
        /\ HasHeader(mem, address, d)
        /\ DescriptorCells(d) # 0 /\ DescriptorCells(d) <= available
        /\ DescriptorCells(d) <= MaxAddr - address
        /\ ReadOk(faults, address + HeaderCells, DescriptorCells(d) - HeaderCells)
        /\ HasBody(mem, address, d)}

-----------------------------------------------------------------------------
(* Primitive commands.                                                     *)

(* The cells added for column `inner` of output `output`, in the order the *)
(* code adds them.                                                         *)
Terms(cmd, output, inner) ==
    CASE cmd.kind \in Reduce2Kinds -> <<VecAddr(cmd.a, inner), VecAddr(cmd.b, inner)>>
      [] cmd.kind \in Reduce3Kinds -> <<VecAddr(cmd.a, inner), VecAddr(cmd.b, inner),
                                        VecAddr(cmd.c, inner)>>
      [] cmd.kind = "vector_add"   -> <<VecAddr(cmd.a, output), VecAddr(cmd.b, output)>>
      [] cmd.kind = "project"      -> <<MatAddr(cmd.m, output, inner), VecAddr(cmd.a, inner)>>
      [] cmd.kind = "map3"         -> <<VecAddr(cmd.a, inner), VecAddr(cmd.b, inner),
                                        MatAddr(cmd.m, output, inner)>>

(* The sum of the costs at the cells of t, or CostError when one cannot be *)
(* read or the sum is no cost.                                             *)
SumAt(t, mem, faults) ==
    IF \E i \in DOMAIN t : ~ReadOk(faults, t[i], 1) THEN CostError
    ELSE IF Len(t) = 2 THEN CostAddChecked(mem[t[1]], mem[t[2]])
    ELSE CostAdd3Checked(mem[t[1]], mem[t[2]], mem[t[3]])

Candidate(cmd, output, inner, mem, faults) == SumAt(Terms(cmd, output, inner), mem, faults)

Columns(cmd) == IF cmd.kind = "vector_add" THEN 1 ELSE cmd.a.length

(* The winner of the columns so far against the next one.                  *)
Better(best, value, column) ==
    IF ~best.ok \/ value = CostError THEN [best EXCEPT !.ok = FALSE]
    ELSE IF column = 0 \/ value < best.value
         THEN [ok |-> TRUE, value |-> value, index |-> column] ELSE best

(* vector_output, and the scan of execute_command: the least candidate and *)
(* the first column that has it, or ~ok after an unreadable or invalid     *)
(* cost.                                                                   *)
OutputResult(cmd, output, mem, faults) ==
    LET best[i \in 0..Columns(cmd)] ==
          IF i = 0 THEN [ok |-> TRUE, value |-> Inf, index |-> 0]
          ELSE Better(best[i - 1], Candidate(cmd, output, i - 1, mem, faults), i - 1)
    IN  best[Columns(cmd)]

(* The words stored for one output.                                        *)
ResultWords(cmd, result) ==
    IF cmd.out.kind = "pair" THEN <<result.value, result.index>> ELSE <<result.value>>

(* One output stored, unless the command has failed or fails here.         *)
StoreResult(cmd, output, before, result, faults) ==
    IF /\ before.ok /\ result.ok
       /\ WriteOk(faults, OutAddr(cmd, output), OutWidth(cmd.out.kind))
    THEN [ok |-> TRUE, mem |-> Store(before.mem, OutAddr(cmd, output), ResultWords(cmd, result))]
    ELSE [before EXCEPT !.ok = FALSE]

(* execute_command and execute_vector_command: outputs are computed and    *)
(* stored one after the other; an error keeps the ones already stored.     *)
ExecuteCommand(cmd, mem, faults) ==
    LET stored[k \in 0..cmd.out.length] ==
          IF k = 0 THEN [ok |-> TRUE, mem |-> mem]
          ELSE StoreResult(cmd, k - 1, stored[k - 1],
                           OutputResult(cmd, k - 1, stored[k - 1].mem, faults), faults)
    IN  stored[cmd.out.length]

(* The cells a primitive may store to.                                     *)
OutCells(cmd) ==
    UNION {OutAddr(cmd, i)..OutAddr(cmd, i) + OutWidth(cmd.out.kind) - 1 :
             i \in 0..cmd.out.length - 1}

(* The verdict and the memory, with the cells left unspecified: the        *)
(* outputs of a command that failed.                                       *)
WithLoose(done, cmd) ==
    [ok |-> done.ok, mem |-> done.mem, loose |-> IF done.ok THEN {} ELSE OutCells(cmd)]

-----------------------------------------------------------------------------
(* Batches.                                                                *)

StreamEnd(batch) == batch.stream + batch.bytes

(* The batch record stays clear of the child stream and of the parent.     *)
Admitted(batch, descriptor, parent_cells) ==
    /\ batch.bytes <= MaxAddr - batch.stream
    /\ PairCells <= MaxAddr - batch.result
    /\ ~Overlaps(batch.result, batch.result + PairCells, batch.stream, StreamEnd(batch))
    /\ ~Overlaps(batch.result, batch.result + PairCells, descriptor, descriptor + parent_cells)

(* The child at the cursor, unless it is itself a batch or would store     *)
(* into the stream or the parent.                                          *)
RunnableAt(batch, descriptor, cursor, mem, faults) ==
    {d \in CommandAt(mem, faults, cursor, StreamEnd(batch) - cursor) :
       /\ Decoded[d].kind # "batch"
       /\ ~OutputOverlaps(Decoded[d], batch.stream, StreamEnd(batch))
       /\ ~OutputOverlaps(Decoded[d], descriptor, descriptor + EncodedSize(batch))}

(* The batch after one more child has run.                                 *)
AfterChild(before, d, child) ==
    [ok |-> child.ok, mem |-> child.mem, loose |-> child.loose,
     cursor |-> before.cursor + DescriptorCells(d),
     done |-> IF child.ok THEN before.done + 1 ELSE before.done]

RunChild(before, runnable, faults) ==
    IF ~before.ok THEN before
    ELSE IF runnable = {} THEN [before EXCEPT !.ok = FALSE]
    ELSE LET d == CHOOSE x \in runnable : TRUE
         IN  AfterChild(before, d, WithLoose(ExecuteCommand(Decoded[d], before.mem, faults), Decoded[d]))

(* Mutant: every child sees the memory the batch started with.             *)
ChildrenAtOnce(batch, descriptor, mem, faults) ==
    LET walk[i \in 0..batch.count] ==
          IF i = 0
          THEN [ok |-> TRUE, mem |-> mem, loose |-> {}, cursor |-> batch.stream, done |-> 0]
          ELSE RunChild([walk[i - 1] EXCEPT !.mem = mem],
                        RunnableAt(batch, descriptor, walk[i - 1].cursor, mem, faults), faults)
    IN  walk[batch.count]

(* Children in order until one fails or all have run.                      *)
Children(batch, descriptor, mem, faults) ==
    LET walk[i \in 0..batch.count] ==
          IF i = 0
          THEN [ok |-> TRUE, mem |-> mem, loose |-> {}, cursor |-> batch.stream, done |-> 0]
          ELSE RunChild(walk[i - 1], RunnableAt(batch, descriptor, walk[i - 1].cursor,
                                                walk[i - 1].mem, faults), faults)
    IN  walk[batch.count]

(* The children all ran and used up the stream, or the first that did not. *)
BatchRecord(batch, last) ==
    IF last.ok /\ last.cursor = StreamEnd(batch) THEN <<last.done, NoFailure>>
    ELSE <<last.done, last.done>>

(* The record is written whatever the children did; if it cannot be, it is *)
(* as unspecified as the outputs of the child that failed.                 *)
RecordBatch(batch, last, faults) ==
    LET cells == batch.result..batch.result + PairCells - 1
    IN  IF WriteOk(faults, batch.result, PairCells)
        THEN [ok |-> last.ok /\ last.cursor = StreamEnd(batch),
              mem |-> Store(last.mem, batch.result, BatchRecord(batch, last)),
              loose |-> last.loose \ cells]
        ELSE [ok |-> FALSE, mem |-> last.mem, loose |-> last.loose \cup cells]

(* execute_batch.                                                          *)
ExecuteBatch(batch, descriptor, mem, faults) ==
    IF Admitted(batch, descriptor, EncodedSize(batch))
    THEN RecordBatch(batch, Children(batch, descriptor, mem, faults), faults)
    ELSE [ok |-> FALSE, mem |-> mem, loose |-> {}]

ExecuteDecoded(cmd, descriptor, mem, faults) ==
    IF cmd.kind = "batch" THEN ExecuteBatch(cmd, descriptor, mem, faults)
    ELSE WithLoose(ExecuteCommand(cmd, mem, faults), cmd)

(* execute: fetch the descriptor the register names and run it.            *)
Execute(descriptor, mem, faults) ==
    LET found == CommandAt(mem, faults, descriptor, MaxCells)
    IN  IF found = {} THEN [ok |-> FALSE, mem |-> mem, loose |-> {}]
        ELSE ExecuteDecoded(Decoded[CHOOSE d \in found : TRUE], descriptor, mem, faults)
=============================================================================
