---------------------------- MODULE PbqpStorage -----------------------------
(***************************************************************************)
(* The sizes and offsets of pbqp_storage.cpp: what the storage of a        *)
(* problem needs, how it is divided into sections, and where the arena     *)
(* places an allocation.  Sizes are size_t: sums wrap at SizeMax.          *)
(***************************************************************************)
EXTENDS Integers, Sequences

CONSTANTS SizeMax,    \* SIZE_MAX
          Base,       \* the address of the arena's storage
          Capacity,   \* the bytes it has
          NodeBytes,  \* sizeof(pbqp_node_t)
          EdgeBytes   \* sizeof(pbqp_edge_t)

(* kStorageAlignment and sizeof(size_t).                                   *)
Word == 8
(* sizeof(int32_t) and sizeof(unsigned).                                   *)
IntBytes == 4

(* The storage is an object of the program: it ends inside the address     *)
(* space.                                                                  *)
ASSUME StorageAssumption == /\ SizeMax \in Nat /\ SizeMax >= 2 * Word
                            /\ Base \in Nat /\ Capacity \in Nat
                            /\ Base + Capacity <= SizeMax
                            /\ NodeBytes \in Nat /\ EdgeBytes \in Nat

(* The sum of two sizes in the width of size_t.                            *)
Wrap(x) == IF x > SizeMax THEN x - (SizeMax + 1) ELSE x

-----------------------------------------------------------------------------
(* The storage of a problem.                                               *)

Overflow == -1

Multiply(first, second) ==
    IF \/ first = Overflow \/ second = Overflow
       \/ first # 0 /\ second > SizeMax \div first
    THEN Overflow ELSE first * second

Aligned(bytes) == ((bytes + Word - 1) \div Word) * Word

(* Mutant: a section ends where its last element does.                     *)
AddStorageUnaligned(total, count, bytes) ==
    LET size == Multiply(count, bytes)
    IN  IF total = Overflow \/ size = Overflow \/ total > SizeMax - size
        THEN Overflow ELSE total + size

AddStorage(total, count, bytes) ==
    LET size == Multiply(count, bytes)
    IN  IF \/ total = Overflow
           \/ size = Overflow
           \/ size > SizeMax - (Word - 1)
           \/ total > SizeMax - Aligned(size)
        THEN Overflow ELSE total + Aligned(size)

(* The words of the statistics' arrays: six of one word per node, two of   *)
(* them with one more, and the histogram of the vector lengths.            *)
StatisticsCount(nodes, domain) ==
    LET count == Multiply(nodes, 7)
    IN  IF count = Overflow \/ count > SizeMax - domain - 3 THEN Overflow
        ELSE count + domain + 3

(* The sections in the order of BindProblemStorage: nodes, edges, unary    *)
(* costs, edge costs, elimination order, reconstruction, statistics.       *)
Sections(nodes, edges, domain) ==
    LET square == Multiply(domain, domain)
    IN  <<<<nodes, NodeBytes>>, <<edges, EdgeBytes>>,
          <<Multiply(nodes, domain), IntBytes>>, <<Multiply(edges, square), IntBytes>>,
          <<nodes, IntBytes>>, <<Multiply(nodes, square), IntBytes>>,
          <<StatisticsCount(nodes, domain), IntBytes>>>>

(* ProblemStorageSize: zero when some sum or product does not fit.         *)
ProblemStorageSize(nodes, edges, domain) ==
    LET section == Sections(nodes, edges, domain)
        add(total, i) == AddStorage(total, section[i][1], section[i][2])
        size == add(add(add(add(add(add(add(0, 1), 2), 3), 4), 5), 6), 7)
    IN  IF size = Overflow THEN 0 ELSE size

(* BindProblemStorage puts each section where the one before it ends.  It  *)
(* adds the sizes up one by one: a size that does not fit would leave the  *)
(* next section where this one is.                                         *)
SectionSize(section) ==
    LET size == AddStorage(0, section[1], section[2])
    IN  IF size = Overflow THEN 0 ELSE size

SectionStarts(section) ==
    LET second  == SectionSize(section[1])
        third   == second + SectionSize(section[2])
        fourth  == third + SectionSize(section[3])
        fifth   == fourth + SectionSize(section[4])
        sixth   == fifth + SectionSize(section[5])
        seventh == sixth + SectionSize(section[6])
    IN  <<0, second, third, fourth, fifth, sixth, seventh>>

-----------------------------------------------------------------------------
(* The arena.                                                              *)

(* Where ArenaAllocate puts the next block: at the first aligned address   *)
(* that leaves a word for the previous value of used.                      *)
Place(used) ==
    LET current == Wrap(Base + used + Word)
        aligned == (Wrap(current + Word - 1) \div Word) * Word
    IN  [current |-> current, aligned |-> aligned, offset |-> aligned - Base]

(* ArenaAllocate returns a block and not a null pointer.                   *)
Fits(used, size) ==
    LET place == Place(used)
    IN  /\ used <= SizeMax - Word - (Word - 1)
        /\ place.current >= Base
        /\ place.aligned >= place.current
        /\ place.offset <= Capacity
        /\ size <= Capacity - place.offset
=============================================================================
