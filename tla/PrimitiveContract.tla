------------------------- MODULE PrimitiveContract -------------------------
(***************************************************************************)
(* What L2Control relies on when it runs a primitive: the outputs are      *)
(* stored one at a time and in order, each with the value the functional   *)
(* model computes from the memory the primitive started with.  It gives up *)
(* only if some output still to come has no value, or cannot be stored;    *)
(* then at most the output it was storing is damaged.                      *)
(***************************************************************************)
EXTENDS AcceleratorOps

VARIABLES cmd, mem0, faults,   \* the command, memory when it started, access faults
          mem,                 \* memory now
          elem,                \* outputs stored
          phase                \* "run", "ok" or "failed"

contractVars == <<cmd, mem0, faults, mem, elem, phase>>

Value(i) == OutputResult(cmd, i, mem0, faults)
Stored   == Store(mem, OutAddr(cmd, elem), ResultWords(cmd, Value(elem)))
Storable == WriteOk(faults, OutAddr(cmd, elem), OutWidth(cmd.out.kind))

ContractInit == elem = 0 /\ phase = "run" /\ mem = mem0

StoreOutput == /\ phase = "run" /\ elem < cmd.out.length
               /\ Value(elem).ok /\ Storable
               /\ mem' = Stored /\ elem' = elem + 1
               /\ UNCHANGED <<cmd, mem0, faults, phase>>

Succeed == /\ phase = "run" /\ elem = cmd.out.length
           /\ phase' = "ok"
           /\ UNCHANGED <<cmd, mem0, faults, mem, elem>>

NoValue == /\ phase = "run" /\ \E i \in elem..cmd.out.length - 1 : ~Value(i).ok
           /\ phase' = "failed"
           /\ UNCHANGED <<cmd, mem0, faults, mem, elem>>

StoreFails == /\ phase = "run" /\ elem < cmd.out.length
              /\ Value(elem).ok /\ ~Storable
              /\ phase' = "failed"
              /\ \A x \in Ram : mem'[x] \in {mem[x], Stored[x]}
              /\ UNCHANGED <<cmd, mem0, faults, elem>>

ContractNext == StoreOutput \/ Succeed \/ NoValue \/ StoreFails

ContractSpec == ContractInit /\ [][ContractNext]_contractVars
=============================================================================
