----------------------------- MODULE PbqpArena ------------------------------
(***************************************************************************)
(* The arena allocator of pbqp_storage.cpp and a caller that allocates,    *)
(* writes and frees in any order.  The arena keeps one number, used, and   *)
(* in the word before each block the value used had before: freeing the    *)
(* last block takes it back from there, freeing another one does nothing.  *)
(*                                                                         *)
(* The caller frees a block once, with its own size.  It writes anywhere   *)
(* in the blocks it has, so the words before the blocks are safe only if   *)
(* they are outside all of them.                                           *)
(***************************************************************************)
EXTENDS PbqpStorage

CONSTANTS Sizes,     \* the sizes of arrays a caller asks for
          Problems,  \* <<node, edge, domain>> capacities of problems
          Stores,    \* the values a caller writes
          MaxBlocks  \* bound: blocks allocated in a run

ASSUME CallerAssumption == /\ Sizes \subseteq Nat
                           /\ Problems \subseteq Nat \X Nat \X Nat
                           /\ Stores \subseteq Nat
                           /\ MaxBlocks \in Nat

VARIABLES used,    \* pbqp_arena_t
          memory,  \* the aligned words of the storage, by offset
          live,    \* the blocks the caller has
          count,   \* blocks allocated so far
          lifo     \* history: blocks have been freed last one first only

arenaVars == <<used, memory, live, count, lifo>>

(* A word at an aligned address of the storage.                            *)
Words == {o \in 0 .. Capacity : (Base + o) % Word = 0}

(* prev is what used was when the block was allocated (history); layout    *)
(* has the sections of a problem's storage, and is empty for an array.     *)
Block(offset, size, prev, layout) ==
    [offset |-> offset, size |-> size, prev |-> prev, layout |-> layout]

End(b) == b.offset + b.size

ArenaInit == /\ used = 0
             /\ memory = [o \in Words |-> 0]
             /\ live = {}
             /\ count = 0
             /\ lifo = TRUE

Overwritten(o, first, size) == o < first + size /\ first < o + Word

(* Mutant: the word holds the end of the block's own header.               *)
AllocateStoringOffset(size, layout) ==
    LET offset == Place(used).offset
    IN  /\ count < MaxBlocks
        /\ Fits(used, size)
        /\ memory' = [memory EXCEPT ![offset - Word] = offset]
        /\ live' = live \cup {Block(offset, size, used, layout)}
        /\ used' = offset + size
        /\ count' = count + 1
        /\ UNCHANGED lifo

(* ArenaAllocate, and pbqp_init where layout is that of a problem; the     *)
(* zeroes written into the new block are a Write of the caller here.       *)
Allocate(size, layout) ==
    LET offset == Place(used).offset
    IN  /\ count < MaxBlocks
        /\ Fits(used, size)
        /\ memory' = [memory EXCEPT ![offset - Word] = used]
        /\ live' = live \cup {Block(offset, size, used, layout)}
        /\ used' = offset + size
        /\ count' = count + 1
        /\ UNCHANGED lifo

(* A problem whose size overflows is refused before it asks for storage.   *)
AllocateProblem(capacities) ==
    LET nodes == capacities[1]
        edges == capacities[2]
        domain == capacities[3]
        size == ProblemStorageSize(nodes, edges, domain)
    IN  /\ nodes # 0 /\ domain # 0
        /\ size # 0
        /\ Allocate(size, Sections(nodes, edges, domain))

(* Mutant: any block takes used back to what its word holds.               *)
DeallocateAny(b) ==
    /\ used' = memory[b.offset - Word]
    /\ live' = live \ {b}
    /\ lifo' = (lifo /\ \A c \in live : c.offset <= b.offset)
    /\ UNCHANGED <<memory, count>>

(* ArenaDeallocate: only the block that ends at used gives its bytes back. *)
Deallocate(b) ==
    /\ used' = IF End(b) = used THEN memory[b.offset - Word] ELSE used
    /\ live' = live \ {b}
    /\ lifo' = (lifo /\ \A c \in live : c.offset <= b.offset)
    /\ UNCHANGED <<memory, count>>

Write(b, value) ==
    /\ memory' = [o \in Words |-> IF Overwritten(o, b.offset, b.size) THEN value ELSE memory[o]]
    /\ UNCHANGED <<used, live, count, lifo>>

ArenaNext == \/ \E size \in Sizes : Allocate(size, <<>>)
             \/ \E capacities \in Problems : AllocateProblem(capacities)
             \/ \E b \in live : Deallocate(b)
             \/ \E b \in live, value \in Stores : Write(b, value)

ArenaSpec == ArenaInit /\ [][ArenaNext]_arenaVars

-----------------------------------------------------------------------------
(* Two blocks, the word before each included, share no byte, and both are  *)
(* inside the storage: whatever order they were freed in, memory given     *)
(* back is no longer in use.                                               *)
BlocksApart ==
    \A b \in live :
        /\ Word <= b.offset /\ End(b) <= Capacity
        /\ \A c \in live \ {b} : End(b) <= c.offset - Word \/ End(c) <= b.offset - Word

(* The word that ArenaDeallocate will read is the one ArenaAllocate wrote, *)
(* whatever the caller has written into its blocks.                        *)
WordsIntact == \A b \in live : memory[b.offset - Word] = b.prev

(* A caller that frees in the reverse order gets every byte back: used is  *)
(* the end of the last block it still has.  (The destructors of Array and  *)
(* Problem run in this order.)                                             *)
NothingLost ==
    lifo => IF live = {} THEN used = 0
            ELSE \E b \in live : End(b) = used /\ \A c \in live : End(c) <= End(b)

(* The sections BindProblemStorage lays out are inside the block that      *)
(* ProblemStorageSize asked for, each at a multiple of the alignment with  *)
(* room for all its elements before the next one.  An overflow of any      *)
(* product has been noticed: the block is as large as the sizes really are.*)
SectionsFit ==
    \A b \in live : \A i \in DOMAIN b.layout :
        /\ SectionStarts(b.layout)[i] % Word = 0
        /\ b.layout[i][1] >= 0
        /\ SectionStarts(b.layout)[i] + b.layout[i][1] * b.layout[i][2]
               <= IF i = Len(b.layout) THEN b.size ELSE SectionStarts(b.layout)[i + 1]
=============================================================================
