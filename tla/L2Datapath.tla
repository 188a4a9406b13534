----------------------------- MODULE L2Datapath -----------------------------
(***************************************************************************)
(* How the structural device computes a primitive (l2_accelerator.cpp:     *)
(* primitive, load, add, reduce): output rows in tiles of tm, columns in   *)
(* chunks of tn held in three operand banks, lane groups within a chunk,   *)
(* and one running minimum per row of the tile.                            *)
(***************************************************************************)
EXTENDS AcceleratorOps

CONSTANTS Configs,      \* [lanes, tm, tn, beat] records a device is built with
          Candidates,   \* commands, of which valid_command admits some
          Images, FaultSets

ASSUME DatapathAssumption ==
    /\ Configs \subseteq [lanes : Nat \ {0}, tm : Nat \ {0}, tn : Nat \ {0}, beat : Nat \ {0}]
    /\ \A c \in Candidates : IsPrimitive(c)
    /\ Images \subseteq [Ram -> Int]

VARIABLES config, cmd,            \* config_, command_
          mem, mem0, faults,      \* guest memory, as the primitive found it, its faults
          pc, phase,              \* where primitive() is, and what it returned
          tile, row, chunk, group,\* tile_, row_, chunk_, group_
          bank, valid,            \* banks_, bank_valid_
          states,                 \* states_: the running minimum of each row
          wr                      \* results of this tile or chunk already written

fixedVars == <<config, cmd, mem0, faults>>
loopVars  == <<tile, row, chunk, group>>
vars == <<fixedVars, mem, pc, phase, loopVars, bank, valid, states, wr>>

Least(x, y) == IF x < y THEN x ELSE y

Vector     == cmd.kind = "vector_add"
Map3       == cmd.kind = "map3"
Projection == cmd.kind \in {"project", "map3"}
Add3       == cmd.kind \in Reduce3Kinds
Outputs    == IF Projection THEN cmd.m.rows ELSE 1
Rows       == Least(config.tm, Outputs - tile)
Cols       == Least(config.tn, cmd.a.length - chunk)
Count      == Least(config.lanes, Cols - group)

Init == /\ config \in Configs
        /\ cmd \in {c \in Candidates : ValidCommand(c) = "OK"}
        /\ mem \in Images /\ mem0 = mem /\ faults \in FaultSets
        /\ pc = "tile" /\ phase = "run"
        /\ tile = 0 /\ row = 0 /\ chunk = 0 /\ group = 0 /\ wr = 0
        /\ bank = [b \in 0..2 |-> [k \in 0..config.tn - 1 |-> 0]]
        /\ valid = [b \in 0..2 |-> 0]
        /\ states = [r \in 0..config.tm - 1 |-> [value |-> 0, index |-> 0]]

(* Every `return false` of primitive().                                    *)
GiveUp == /\ pc' = "done" /\ phase' = "failed"
          /\ UNCHANGED <<fixedVars, loopVars, bank, valid, states, wr>>

-----------------------------------------------------------------------------
(* load(): count costs of a view from element start into a bank.           *)

Readable(view, start, count) ==
    \A k \in start..start + count - 1 : ReadOk(faults, VecAddr(view, k), 1)

Load(b, view) ==
    /\ bank' = [bank EXCEPT ![b] = [k \in DOMAIN bank[b] |->
                  IF k < Cols THEN mem[VecAddr(view, chunk + k)] ELSE bank[b][k]]]
    /\ valid' = [valid EXCEPT ![b] = Cols]

LoadView(b, view, next) ==
    \/ /\ Readable(view, chunk, Cols)
       /\ Load(b, view)
       /\ pc' = next /\ row' = 0 /\ group' = 0
       /\ UNCHANGED <<fixedVars, mem, phase, tile, chunk, states, wr>>
    \/ ~Readable(view, chunk, Cols) /\ UNCHANGED mem /\ GiveUp

LoadFirst  == /\ pc = "first"
              /\ LoadView(0, cmd.a, IF Projection /\ ~Map3 THEN "row" ELSE "second")
LoadSecond == /\ pc = "second"
              /\ LoadView(1, cmd.b, IF Add3 THEN "third" ELSE IF Map3 THEN "preadd" ELSE "row")
LoadThird  == pc = "third" /\ LoadView(2, cmd.c, "row")

(* Row tile + row of the matrix, as load() sees it.                        *)
RowView == Vec(MatAddr(cmd.m, tile + row, 0), cmd.m.columns, cmd.m.column_stride)

-----------------------------------------------------------------------------
(* add() and reduce(): one group of lanes.                                 *)

Lanes == group..group + Count - 1

(* The group's sums of two banks, and whether each is a cost.              *)
Sums(left, right) == [k \in Lanes |-> CostAddChecked(left[k], right[k])]
AllCosts(sums)    == \A k \in Lanes : sums[k] # CostError

Overlay(old, sums) == [k \in DOMAIN old |-> IF k \in Lanes THEN sums[k] ELSE old[k]]

(* Mutant: lanes numbered within the chunk.                                *)
LaneLocal(sums) == [i \in 1..Count |->
                      [value |-> sums[group + i - 1], index |-> group + i - 1]]
Lane(sums) == [i \in 1..Count |->
                      [value |-> sums[group + i - 1], index |-> chunk + group + i - 1]]

Before(x, y) == x.value < y.value \/ (x.value = y.value /\ x.index < y.index)

(* One registered level of the tree: neighbours compared, an odd one kept. *)
Level(lanes) ==
    [i \in 1..(Len(lanes) + 1) \div 2 |->
       IF 2 * i > Len(lanes) THEN lanes[Len(lanes)]
       ELSE IF Before(lanes[2 * i], lanes[2 * i - 1]) THEN lanes[2 * i] ELSE lanes[2 * i - 1]]

(* The levels a tree over all the lanes has, whatever the group's size.    *)
TreeWidth[d \in 0..config.lanes] ==
    IF d = 0 THEN config.lanes ELSE (TreeWidth[d - 1] + 1) \div 2
Depth == CHOOSE d \in 0..config.lanes :
           TreeWidth[d] = 1 /\ \A e \in 0..d - 1 : TreeWidth[e] > 1
Tree(lanes) == LET level[d \in 0..Depth] == IF d = 0 THEN lanes ELSE Level(level[d - 1])
               IN  level[Depth][1]

Merge(old, new) == IF Before(new, old) THEN new ELSE old

(* map3: the sum of both vectors, once per chunk, in bank A.               *)
PreAdd ==
    /\ pc = "preadd"
    /\ LET sums == Sums(bank[0], bank[1])
       IN  \/ /\ AllCosts(sums)
              /\ bank' = [bank EXCEPT ![0] = Overlay(bank[0], sums)]
              /\ group' = IF group + config.lanes < Cols THEN group + config.lanes ELSE 0
              /\ pc' = IF group + config.lanes < Cols THEN "preadd" ELSE "row"
              /\ UNCHANGED <<fixedVars, mem, phase, tile, row, chunk, valid, states, wr>>
           \/ ~AllCosts(sums) /\ UNCHANGED mem /\ GiveUp

RowDone == row' = row + 1 /\ group' = 0 /\ pc' = "row"
NextGroup == IF group + config.lanes < Cols
             THEN group' = group + config.lanes /\ UNCHANGED <<row, pc>> ELSE RowDone

(* Mutant: a projection adds into the bank its rows share.                 *)
IntoShared == 0
(* The bank an addition's sums go to: C for a projection, so that A        *)
(* survives every row of the tile.                                         *)
Target == IF Projection THEN 2 ELSE 0

AddGroup ==
    /\ pc = "add"
    /\ LET once  == Sums(bank[IF Projection THEN 2 ELSE 0], bank[IF Projection THEN 0 ELSE 1])
           sums  == IF Add3 /\ AllCosts(once) THEN Sums(once, bank[2]) ELSE once
       IN  \/ /\ AllCosts(sums)
              /\ bank' = [bank EXCEPT ![Target] = Overlay(@, sums)]
              /\ states' = IF Vector THEN states
                           ELSE [states EXCEPT ![row] = Merge(@, Tree(Lane(sums)))]
              /\ NextGroup
              /\ UNCHANGED <<fixedVars, mem, phase, tile, chunk, valid, wr>>
           \/ ~AllCosts(sums) /\ UNCHANGED mem /\ GiveUp

-----------------------------------------------------------------------------
(* write_result(): the beats of one result, up to the first that fails.    *)

BeatEnd(x, end) == Least(end, (x \div config.beat + 1) * config.beat)

Write(address, words) ==
    LET end == address + Len(words)
    IN  mem' = [x \in DOMAIN mem |->
                  IF x \in address..end - 1 /\ WriteOk(faults, address, BeatEnd(x, end) - address)
                  THEN words[x - address + 1] ELSE mem[x]]

WriteResult(index, words) ==
    /\ Write(OutAddr(cmd, index), words)
    /\ \/ /\ WriteOk(faults, OutAddr(cmd, index), Len(words))
          /\ wr' = wr + 1
          /\ UNCHANGED <<fixedVars, pc, phase, loopVars, bank, valid, states>>
       \/ ~WriteOk(faults, OutAddr(cmd, index), Len(words)) /\ GiveUp

WriteVector == /\ pc = "write" /\ Vector /\ wr < Cols
               /\ WriteResult(chunk + wr, <<bank[0][wr]>>)
WriteRow    == /\ pc = "write" /\ ~Vector /\ wr < Rows
               /\ WriteResult(tile + wr, ResultWords(cmd, states[wr]))

-----------------------------------------------------------------------------
(* The loops of primitive().                                               *)

(* Mutant: the running minima are initialised once.                        *)
BeginTileStale ==
    /\ pc = "tile" /\ tile < Outputs
    /\ states' = IF tile = 0
                 THEN [r \in DOMAIN states |-> [value |-> Inf, index |-> 0]] ELSE states
    /\ chunk' = 0 /\ pc' = "chunk"
    /\ UNCHANGED <<fixedVars, mem, phase, tile, row, group, bank, valid, wr>>

BeginTile == /\ pc = "tile" /\ tile < Outputs
             /\ states' = [r \in DOMAIN states |->
                             IF r < Rows THEN [value |-> Inf, index |-> 0] ELSE states[r]]
             /\ chunk' = 0 /\ pc' = "chunk"
             /\ UNCHANGED <<fixedVars, mem, phase, tile, row, group, bank, valid, wr>>

BeginChunk == /\ pc = "chunk" /\ chunk < cmd.a.length
              /\ pc' = "first" /\ row' = 0 /\ group' = 0
              /\ UNCHANGED <<fixedVars, mem, phase, tile, chunk, bank, valid, states, wr>>

BeginRow == /\ pc = "row" /\ row < Rows
            /\ \/ /\ ~Projection
                  /\ pc' = "add" /\ group' = 0
                  /\ UNCHANGED <<fixedVars, mem, phase, tile, row, chunk, bank, valid, states, wr>>
               \/ /\ Projection /\ Readable(RowView, chunk, Cols)
                  /\ Load(2, RowView)
                  /\ pc' = "add" /\ group' = 0
                  /\ UNCHANGED <<fixedVars, mem, phase, tile, row, chunk, states, wr>>
               \/ Projection /\ ~Readable(RowView, chunk, Cols) /\ UNCHANGED mem /\ GiveUp

(* The rows of a chunk are done: a vector addition stores it at once.      *)
EndChunk == /\ pc = "row" /\ row = Rows
            /\ IF Vector THEN pc' = "write" /\ UNCHANGED chunk
               ELSE pc' = "chunk" /\ chunk' = chunk + config.tn
            /\ UNCHANGED <<fixedVars, mem, phase, tile, row, group, bank, valid, states, wr>>

VectorStored == /\ pc = "write" /\ Vector /\ wr = Cols
                /\ pc' = "chunk" /\ chunk' = chunk + config.tn /\ wr' = 0
                /\ UNCHANGED <<fixedVars, mem, phase, tile, row, group, bank, valid, states>>

ColumnsDone == /\ pc = "chunk" /\ chunk >= cmd.a.length
               /\ IF Vector THEN pc' = "tile" /\ tile' = tile + config.tm
                  ELSE pc' = "write" /\ UNCHANGED tile
               /\ UNCHANGED <<fixedVars, mem, phase, row, chunk, group, bank, valid, states, wr>>

(* Mutant: the tile loop advances by the rows it wrote, less one.          *)
EndTileStuck ==
    /\ pc = "write" /\ ~Vector /\ wr = Rows
    /\ pc' = "tile" /\ tile' = tile + Rows - 1 /\ wr' = 0
    /\ UNCHANGED <<fixedVars, mem, phase, row, chunk, group, bank, valid, states>>

EndTile == /\ pc = "write" /\ ~Vector /\ wr = Rows
           /\ pc' = "tile" /\ tile' = tile + config.tm /\ wr' = 0
           /\ UNCHANGED <<fixedVars, mem, phase, row, chunk, group, bank, valid, states>>

Succeed == /\ pc = "tile" /\ tile >= Outputs
           /\ pc' = "done" /\ phase' = "ok"
           /\ UNCHANGED <<fixedVars, mem, loopVars, bank, valid, states, wr>>

Next == \/ BeginTile \/ BeginChunk \/ LoadFirst \/ LoadSecond \/ LoadThird \/ PreAdd
        \/ BeginRow \/ AddGroup \/ EndChunk \/ WriteVector \/ VectorStored
        \/ ColumnsDone \/ WriteRow \/ EndTile \/ Succeed

Spec == Init /\ [][Next]_vars /\ WF_vars(Next)

-----------------------------------------------------------------------------
(* Properties.                                                             *)

(* The assertion of add(), and what it is for: while the rows of a tile    *)
(* are combined with a chunk, the bank they share still holds that chunk   *)
(* of the vector (for map3, of the sum of both), every column of it valid. *)
SharedBankSurvives ==
    pc \in {"row", "add"} /\ phase = "run" /\ Projection =>
      /\ valid[0] = Cols /\ (pc = "add" => valid[2] = Cols)
      /\ \A k \in 0..Cols - 1 :
           bank[0][k] = IF Map3 THEN CostAddChecked(mem0[VecAddr(cmd.a, chunk + k)],
                                                    mem0[VecAddr(cmd.b, chunk + k)])
                        ELSE mem0[VecAddr(cmd.a, chunk + k)]

(* MAS invariants 7 and 8, reduce(): whatever the tiles, chunks and lanes, *)
(* a row's state is the least of the sums of the columns behind it, with   *)
(* the first column that has it.                                           *)
ColumnsBehind(r) ==
    0..(IF pc = "add" THEN Least(cmd.a.length, IF r < row THEN chunk + Cols
                                               ELSE IF r = row THEN chunk + group ELSE chunk)
        ELSE IF pc \in {"chunk", "first", "second", "third", "preadd"}
             THEN Least(cmd.a.length, chunk)
        ELSE IF pc = "row" THEN (IF r < row THEN chunk + Cols ELSE chunk)
        ELSE cmd.a.length) - 1
RunningMinimum ==
    phase = "run" /\ ~Vector /\ pc # "tile" =>
      \A r \in 0..Rows - 1 :
        LET sum(i) == Candidate(cmd, tile + r, i, mem0, faults)
            behind == ColumnsBehind(r)
        IN  /\ \A i \in behind : states[r].value <= sum(i)
            /\ \A i \in behind : i < states[r].index => states[r].value < sum(i)
            /\ behind # {} => sum(states[r].index) = states[r].value

(* The differential contract of the two device models: a primitive that    *)
(* the structural one finishes leaves the memory the functional one does,  *)
(* in-place additions included, and one fails exactly if the other does.   *)
SameAsFunctional ==
    pc = "done" => LET done == ExecuteCommand(cmd, mem0, faults)
                   IN  /\ done.ok <=> phase = "ok"
                       /\ done.ok => mem = done.mem

(* L2Control's picture of a primitive is what the loops do.                *)
Stored == IF ~Vector THEN Least(tile + wr, Outputs)
          ELSE IF tile > 0 THEN cmd.a.length ELSE Least(chunk + wr, cmd.a.length)
Contract == INSTANCE PrimitiveContract WITH elem <- Stored
RefinesContract == Contract!ContractSpec

(* primitive() returns, for every shape, configuration and fault.          *)
Returns == <>(pc = "done")
=============================================================================
