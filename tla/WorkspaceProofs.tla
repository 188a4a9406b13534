-------------------------- MODULE WorkspaceProofs ---------------------------
(***************************************************************************)
(* The workspace of the PBQP solver: the arena keeps its callers apart,    *)
(* for storage of any size at any address and for any order of allocating, *)
(* writing and freeing (PbqpArena); and the branching search, which keeps  *)
(* a copy of the problem and two arrays per level in it, gives all of it   *)
(* back and adds up the work of all the copies (PbqpBranch).               *)
(***************************************************************************)
EXTENDS PbqpArena, PbqpBranch, FiniteSetTheorems, SequenceTheorems, TLAPS

-----------------------------------------------------------------------------
(* The arena.                                                              *)
(*                                                                         *)
(* BlocksApart and WordsIntact need each other: the words are intact       *)
(* because no block covers another block's word, and freeing keeps the     *)
(* blocks apart because the word it reads is intact.  What makes the       *)
(* conjunction inductive is the order of the blocks: of any two, one ends  *)
(* before used was when the other was allocated (Ordered), and none ends   *)
(* beyond used.                                                            *)

IsBlock(b) == /\ b.offset \in Nat /\ b.size \in Nat /\ b.prev \in Nat
              /\ b.prev + Word <= b.offset
              /\ b.offset - Word \in Words
              /\ End(b) <= used

ArenaType == /\ used \in 0 .. Capacity
             /\ memory \in [Words -> Nat]
             /\ lifo \in BOOLEAN
             /\ \A b \in live : IsBlock(b)

Ordered == \A b, c \in live : b # c => End(b) <= c.prev \/ End(c) <= b.prev

(* The ends of the blocks, and the beginning of the storage.               *)
IsMark(x) == x = 0 \/ \E b \in live : End(b) = x

Chained == lifo => IsMark(used) /\ \A b \in live : IsMark(b.prev)

ArenaInv == ArenaType /\ Ordered /\ WordsIntact /\ Chained

(* Where a block goes that fits: at an aligned address, its word at or     *)
(* after used, its end inside the storage.                                 *)
LEMMA PlaceFits ==
    ASSUME NEW u \in 0 .. Capacity, NEW size \in Nat, Fits(u, size)
    PROVE  /\ Place(u).offset \in Nat
           /\ u + Word <= Place(u).offset
           /\ Place(u).offset - Word \in Words
           /\ Place(u).offset + size <= Capacity
<1> DEFINE current == Wrap(Base + u + Word)
           aligned == (Wrap(current + Word - 1) \div Word) * Word
<1>1. /\ Place(u).offset = aligned - Base
      /\ current >= Base /\ aligned >= current
      /\ aligned - Base <= Capacity /\ size <= Capacity - (aligned - Base)
      /\ u <= SizeMax - Word - (Word - 1)
  BY DEF Fits, Place
<1>2. /\ Base \in Nat /\ Capacity \in Nat /\ SizeMax \in Nat /\ SizeMax >= 16
      /\ Base + Capacity <= SizeMax
  BY StorageAssumption DEF Word
<1>3. current = Base + u + 8
  BY <1>1, <1>2 DEF Wrap, Word
<1>4. current + 7 \in Nat /\ aligned \in Nat /\ aligned % 8 = 0
  <2>1. Wrap(current + 7) \in Nat
    BY <1>2, <1>3 DEF Wrap
  <2>2. aligned = (Wrap(current + 7) \div 8) * 8
    BY <1>2, <1>3 DEF Word
  <2> QED
    BY <1>2, <1>3, <2>1, <2>2
<1>5. aligned - Base - 8 \in 0 .. Capacity /\ (Base + (aligned - Base - 8)) % 8 = 0
  BY <1>1, <1>2, <1>3, <1>4
<1> QED
  BY <1>1, <1>2, <1>3, <1>4, <1>5 DEF Words, Word

(* The sections: a number of elements, which may have overflowed, and their *)
(* size.                                                                   *)
IsSection(s) == s[1] \in Nat \cup {Overflow} /\ s[2] \in Nat

LEMMA LayoutIsSections ==
    ASSUME NEW nodes \in Nat, NEW edges \in Nat, NEW domain \in Nat,
           NEW layout, layout = Sections(nodes, edges, domain)
    PROVE  /\ DOMAIN layout = 1 .. 7 /\ Len(layout) = 7
           /\ \A i \in 1 .. 7 : IsSection(layout[i])
<1> DEFINE Size == Nat \cup {Overflow}
<1>1. \A x, y \in Size : Multiply(x, y) \in Size
  <2>1. \A x, y \in Nat : x * y \in Nat
    OBVIOUS
  <2> QED
    BY <2>1 DEF Multiply, Overflow
<1>2. StatisticsCount(nodes, domain) \in Size
  BY <1>1, StorageAssumption DEF StatisticsCount, Overflow
<1>3. /\ Multiply(domain, domain) \in Size /\ Multiply(nodes, domain) \in Size
      /\ Multiply(edges, Multiply(domain, domain)) \in Size
      /\ Multiply(nodes, Multiply(domain, domain)) \in Size
  BY <1>1
<1>4. NodeBytes \in Nat /\ EdgeBytes \in Nat /\ IntBytes \in Nat
  BY StorageAssumption DEF IntBytes
<1>5. nodes \in Size /\ edges \in Size
  OBVIOUS
<1> HIDE DEF Size
<1>6. \A i \in 1 .. 7 : layout[i][1] \in Size /\ layout[i][2] \in Nat
  BY <1>2, <1>3, <1>4, <1>5 DEF Sections
<1>7. DOMAIN layout = 1 .. 7 /\ Len(layout) = 7
  BY DEF Sections
<1> QED
  BY <1>6, <1>7 DEF IsSection, Size

(* The size of a problem's storage is a size: no overflow gets through.    *)
LEMMA SizeIsNat ==
    ASSUME NEW nodes \in Nat, NEW edges \in Nat, NEW domain \in Nat
    PROVE  ProblemStorageSize(nodes, edges, domain) \in Nat
<1> DEFINE Size == Nat \cup {Overflow}
           section == Sections(nodes, edges, domain)
<1>1. \A x, y \in Size : Multiply(x, y) \in Size
  <2>1. \A x, y \in Nat : x * y \in Nat
    OBVIOUS
  <2> QED
    BY <2>1 DEF Multiply, Overflow
<1>2. \A x \in Nat : Aligned(x) \in Nat
  BY DEF Aligned, Word
<1>3. \A t, x, y \in Size : AddStorage(t, x, y) \in Size
  BY <1>1, <1>2, StorageAssumption DEF AddStorage, Overflow
<1>5. \A i \in 1 .. 7 : section[i][1] \in Size /\ section[i][2] \in Size
  BY LayoutIsSections DEF IsSection
<1> DEFINE add(t, i) == AddStorage(t, section[i][1], section[i][2])
<1> HIDE DEF section
<1>6. \A t \in Size, i \in 1 .. 7 : add(t, i) \in Size
  BY <1>3, <1>5
<1> HIDE DEF add
<1>7. 0 \in Size
  OBVIOUS
<1>8. add(add(add(add(add(add(add(0, 1), 2), 3), 4), 5), 6), 7) \in Size
  <2> HIDE DEF Size
  <2>1. \A t \in Size : /\ add(t, 1) \in Size /\ add(t, 2) \in Size /\ add(t, 3) \in Size
                        /\ add(t, 4) \in Size /\ add(t, 5) \in Size /\ add(t, 6) \in Size
                        /\ add(t, 7) \in Size
    BY <1>6
  <2>2. add(add(add(0, 1), 2), 3) \in Size
    BY <2>1, <1>7
  <2>3. add(add(add(add(add(0, 1), 2), 3), 4), 5) \in Size
    BY <2>1, <2>2
  <2> QED
    BY <2>1, <2>3
<1> QED
  BY <1>8 DEF ProblemStorageSize, add, section, Overflow

LEMMA ArenaStarts == ArenaInit => ArenaInv
BY StorageAssumption DEF ArenaInit, ArenaInv, ArenaType, Ordered, WordsIntact, Chained, IsMark

LEMMA AllocateKeeps ==
    ASSUME ArenaInv, NEW size \in Nat, NEW layout, Allocate(size, layout)
    PROVE  ArenaInv'
<1> DEFINE offset == Place(used).offset
           b == Block(offset, size, used, layout)
<1>1. /\ offset \in Nat /\ used + Word <= offset /\ offset - Word \in Words
      /\ offset + size <= Capacity /\ used \in 0 .. Capacity /\ Capacity \in Nat
  BY PlaceFits, StorageAssumption DEF Allocate, ArenaInv, ArenaType
<1>2. /\ memory' = [memory EXCEPT ![offset - Word] = used]
      /\ live' = live \cup {b}
      /\ used' = offset + size /\ lifo' = lifo
  BY DEF Allocate
<1> HIDE DEF offset
<1>3. /\ b.offset = offset /\ b.size = size /\ b.prev = used /\ End(b) = offset + size
  BY DEF Block, End
<1> HIDE DEF b
<1>4. \A c \in live : /\ IsBlock(c) /\ End(c) \in Nat
                      /\ c.offset <= used
  BY <1>1 DEF ArenaInv, ArenaType, IsBlock, End
<1>5. ArenaType'
  <2>1. used' \in 0 .. Capacity /\ memory' \in [Words -> Nat] /\ lifo' \in BOOLEAN
    BY <1>1, <1>2 DEF ArenaInv, ArenaType, Word
  <2>2. \A c \in live' : IsBlock(c)'
    <3> TAKE c \in live'
    <3>1. CASE c = b
      BY <3>1, <1>1, <1>2, <1>3 DEF IsBlock, Word, End
    <3>2. CASE c \in live
      BY <3>2, <1>1, <1>2, <1>4 DEF IsBlock, Word, End
    <3> QED
      BY <3>1, <3>2, <1>2
  <2> QED
    BY <2>1, <2>2 DEF ArenaType
<1>6. Ordered'
  <2> SUFFICES ASSUME NEW c \in live', NEW d \in live', c # d
               PROVE  End(c) <= d.prev \/ End(d) <= c.prev
    BY DEF Ordered, End
  <2>1. CASE c \in live /\ d \in live
    BY <2>1 DEF ArenaInv, Ordered
  <2>2. CASE c \in live /\ d = b
    BY <2>2, <1>3, <1>4 DEF IsBlock
  <2>3. CASE c = b /\ d \in live
    BY <2>3, <1>3, <1>4 DEF IsBlock
  <2> QED
    BY <2>1, <2>2, <2>3, <1>2
<1>7. WordsIntact'
  <2> SUFFICES ASSUME NEW c \in live' PROVE memory'[c.offset - Word] = c.prev
    BY DEF WordsIntact
  <2>1. CASE c = b
    BY <2>1, <1>1, <1>2, <1>3 DEF ArenaInv, ArenaType
  <2>2. CASE c \in live
    <3>1. c.offset - Word # offset - Word
      BY <2>2, <1>1, <1>4 DEF IsBlock, Word
    <3>2. memory[c.offset - Word] = c.prev /\ c.offset - Word \in Words
      BY <2>2, <1>4 DEF ArenaInv, WordsIntact, IsBlock
    <3> QED
      BY <3>1, <3>2, <1>1, <1>2 DEF ArenaInv, ArenaType
  <2> QED
    BY <2>1, <2>2, <1>2
<1>8. Chained'
  <2> SUFFICES ASSUME lifo PROVE IsMark(used)' /\ \A c \in live' : IsMark(c.prev)'
    BY <1>2 DEF Chained
  <2>1. \A x : IsMark(x) => (x = 0 \/ \E c \in live' : End(c) = x)
    BY <1>2 DEF IsMark
  <2>2. IsMark(used) /\ \A c \in live : IsMark(c.prev)
    BY DEF ArenaInv, Chained
  <2>3. \E c \in live' : End(c) = used'
    BY <1>2, <1>3
  <2>4. \A c \in live' : c.prev = 0 \/ \E d \in live' : End(d) = c.prev
    BY <2>1, <2>2, <1>2, <1>3
  <2> QED
    BY <2>3, <2>4 DEF IsMark, End
<1> QED
  BY <1>5, <1>6, <1>7, <1>8 DEF ArenaInv

LEMMA DeallocateKeeps ==
    ASSUME ArenaInv, NEW b \in live, Deallocate(b)
    PROVE  ArenaInv'
<1>1. /\ used' = IF End(b) = used THEN b.prev ELSE used
      /\ live' = live \ {b} /\ memory' = memory
      /\ lifo' = (lifo /\ \A c \in live : c.offset <= b.offset)
  BY DEF Deallocate, ArenaInv, WordsIntact
<1>2. /\ used \in 0 .. Capacity /\ Capacity \in Nat /\ IsBlock(b)
      /\ \A c \in live : IsBlock(c) /\ End(c) \in Nat /\ c.offset <= End(c)
                         /\ c.prev + 8 <= c.offset /\ End(c) <= used
                         /\ c.prev \in Nat /\ c.offset \in Nat
  BY StorageAssumption DEF ArenaInv, ArenaType, IsBlock, End, Word
<1>3. \A c \in live' : End(c) <= used'
  BY <1>1, <1>2 DEF ArenaInv, Ordered
<1>4. ArenaType'
  <2>1. used' \in 0 .. Capacity /\ memory' \in [Words -> Nat] /\ lifo' \in BOOLEAN
    BY <1>1, <1>2 DEF ArenaInv, ArenaType
  <2>2. \A c \in live' : IsBlock(c)'
    BY <1>1, <1>2, <1>3 DEF IsBlock, End
  <2> QED
    BY <2>1, <2>2 DEF ArenaType
<1>5. Ordered'
  BY <1>1 DEF ArenaInv, Ordered, End
<1>6. WordsIntact'
  BY <1>1 DEF ArenaInv, WordsIntact
<1>7. Chained'
  <2> SUFFICES ASSUME lifo' PROVE IsMark(used)' /\ \A c \in live' : IsMark(c.prev)'
    BY DEF Chained
  <2>1. /\ IsMark(used) /\ \A c \in live : IsMark(c.prev)
        /\ \A c \in live : c.offset <= b.offset
    BY <1>1 DEF ArenaInv, Chained
  <2>2. End(b) = used
    <3>1. PICK c \in live : End(c) = used
      BY <2>1, <1>2 DEF IsMark
    <3> QED
      BY <3>1, <2>1, <1>2 DEF ArenaInv, Ordered
  <2>3. \A c \in live : c.prev # End(b)
    BY <2>2, <1>2
  <2>4. \A x : IsMark(x) /\ x # End(b) => (x = 0 \/ \E d \in live' : End(d) = x)
    BY <1>1 DEF IsMark
  <2>5. \A c \in live : c.prev = 0 \/ \E d \in live' : End(d) = c.prev
    BY <2>1, <2>3, <2>4
  <2> QED
    BY <2>2, <2>5, <1>1 DEF IsMark, End
<1> QED
  BY <1>4, <1>5, <1>6, <1>7 DEF ArenaInv

LEMMA WriteKeeps ==
    ASSUME ArenaInv, NEW b \in live, NEW value \in Nat, Write(b, value)
    PROVE  ArenaInv'
<1>1. /\ used' = used /\ live' = live /\ lifo' = lifo
      /\ memory' = [o \in Words |-> IF Overwritten(o, b.offset, b.size) THEN value
                                    ELSE memory[o]]
  BY DEF Write
<1>2. /\ used \in 0 .. Capacity /\ Capacity \in Nat
      /\ \A c \in live : /\ c.offset \in Nat /\ c.size \in Nat /\ c.prev \in Nat
                         /\ c.prev + 8 <= c.offset /\ c.offset - 8 \in Words
                         /\ End(c) = c.offset + c.size
  BY StorageAssumption DEF ArenaInv, ArenaType, IsBlock, End, Word
<1>3. ArenaType' /\ Ordered' /\ Chained'
  BY <1>1 DEF ArenaInv, ArenaType, Ordered, Chained, IsMark, IsBlock, End
<1>4. WordsIntact'
  <2> SUFFICES ASSUME NEW c \in live PROVE memory'[c.offset - 8] = c.prev
    BY <1>1 DEF WordsIntact, Word
  <2>1. ~Overwritten(c.offset - 8, b.offset, b.size)
    <3>1. CASE c = b
      BY <3>1, <1>2 DEF Overwritten, Word
    <3>2. CASE c # b
      BY <3>2, <1>2 DEF ArenaInv, Ordered, Overwritten, Word
    <3> QED
      BY <3>1, <3>2
  <2> QED
    BY <2>1, <1>1, <1>2 DEF ArenaInv, WordsIntact, Word
<1> QED
  BY <1>3, <1>4 DEF ArenaInv

LEMMA ArenaStep ==
    ASSUME ArenaInv, [ArenaNext]_arenaVars
    PROVE  ArenaInv'
<1>1. CASE \E size \in Sizes : Allocate(size, <<>>)
  BY <1>1, AllocateKeeps, CallerAssumption
<1>2. CASE \E capacities \in Problems : AllocateProblem(capacities)
  <2>1. PICK capacities \in Problems : AllocateProblem(capacities)
    BY <1>2
  <2> DEFINE size == ProblemStorageSize(capacities[1], capacities[2], capacities[3])
             layout == Sections(capacities[1], capacities[2], capacities[3])
  <2>2. size \in Nat
    <3>1. capacities[1] \in Nat /\ capacities[2] \in Nat /\ capacities[3] \in Nat
      BY CallerAssumption
    <3> QED
      BY <3>1, SizeIsNat
  <2>3. Allocate(size, layout)
    BY <2>1 DEF AllocateProblem
  <2> HIDE DEF size, layout
  <2> QED
    BY <2>2, <2>3, AllocateKeeps
<1>3. CASE \E b \in live : Deallocate(b)
  BY <1>3, DeallocateKeeps
<1>4. CASE \E b \in live, value \in Stores : Write(b, value)
  BY <1>4, WriteKeeps, CallerAssumption
<1>5. CASE UNCHANGED arenaVars
  BY <1>5 DEF arenaVars, ArenaInv, ArenaType, Ordered, WordsIntact, Chained, IsMark, IsBlock, End
<1> QED
  BY <1>1, <1>2, <1>3, <1>4, <1>5 DEF ArenaNext

(* The inductive invariant of the arena holds in every state.              *)
THEOREM ArenaInvariant == ArenaSpec => []ArenaInv
<1>1. ArenaInit => ArenaInv
  BY ArenaStarts
<1>2. ArenaInv /\ [ArenaNext]_arenaVars => ArenaInv'
  BY ArenaStep
<1> QED
  BY <1>1, <1>2, PTL DEF ArenaSpec

(* Blocks of ArenaAllocate never share a byte, with one another or with    *)
(* the words before them.                                                  *)
THEOREM BlocksStayApart == ArenaSpec => []BlocksApart
<1>1. ArenaInv => BlocksApart
  <2> SUFFICES ASSUME ArenaInv, NEW b \in live
               PROVE  /\ Word <= b.offset /\ End(b) <= Capacity
                      /\ \A c \in live \ {b} : \/ End(b) <= c.offset - Word
                                               \/ End(c) <= b.offset - Word
    BY DEF BlocksApart
  <2>1. /\ used \in 0 .. Capacity /\ Capacity \in Nat
        /\ \A c \in live : /\ c.offset \in Nat /\ c.prev \in Nat /\ End(c) \in Nat
                           /\ c.prev + Word <= c.offset /\ End(c) <= used
    BY StorageAssumption DEF ArenaInv, ArenaType, IsBlock, End
  <2> QED
    BY <2>1 DEF ArenaInv, Ordered, Word
<1> QED
  BY <1>1, ArenaInvariant, PTL

(* ArenaDeallocate reads back what ArenaAllocate stored.                   *)
THEOREM WordsStayIntact == ArenaSpec => []WordsIntact
<1>1. ArenaInv => WordsIntact
  BY DEF ArenaInv
<1> QED
  BY <1>1, ArenaInvariant, PTL

(* Freeing in reverse order loses nothing.                                 *)
THEOREM ReverseOrderLosesNothing == ArenaSpec => []NothingLost
<1>1. ArenaInv => NothingLost
  <2> SUFFICES ASSUME ArenaInv, lifo
               PROVE  IF live = {} THEN used = 0
                      ELSE \E b \in live : End(b) = used /\ \A c \in live : End(c) <= End(b)
    BY DEF NothingLost
  <2>1. IsMark(used)
    BY DEF ArenaInv, Chained
  <2>2. /\ used \in Nat
        /\ \A c \in live : End(c) \in Nat /\ End(c) <= used /\ End(c) > 0
    BY StorageAssumption DEF ArenaInv, ArenaType, IsBlock, End, Word
  <2>3. CASE live = {}
    BY <2>1, <2>3 DEF IsMark
  <2>4. CASE live # {}
    <3>1. PICK b \in live : End(b) = used
      BY <2>1, <2>2, <2>4 DEF IsMark
    <3> QED
      BY <3>1, <2>2, <2>4
  <2> QED
    BY <2>3, <2>4
<1> QED
  BY <1>1, ArenaInvariant, PTL

-----------------------------------------------------------------------------
(* The sections of a problem's storage.                                    *)

(* One section more: if AddStorage has not noticed an overflow, there is   *)
(* none, and what it adds is what BindProblemStorage moves on by.          *)
LEMMA SectionAdded ==
    ASSUME NEW t \in Nat \cup {Overflow}, NEW s, IsSection(s),
           AddStorage(t, s[1], s[2]) # Overflow
    PROVE  /\ t \in Nat /\ s[1] \in Nat
           /\ AddStorage(t, s[1], s[2]) = t + SectionSize(s)
           /\ SectionSize(s) \in Nat /\ SectionSize(s) % Word = 0
           /\ s[1] * s[2] <= SectionSize(s)
<1> DEFINE size == Multiply(s[1], s[2])
           product == s[1] * s[2]
<1>1. /\ t # Overflow /\ size # Overflow /\ ~(size > SizeMax - 7)
      /\ ~(t > SizeMax - Aligned(size)) /\ AddStorage(t, s[1], s[2]) = t + Aligned(size)
  BY DEF AddStorage, Word
<1>2. t \in Nat
  BY <1>1
<1>3. s[1] \in Nat /\ s[2] \in Nat /\ size = product
  BY <1>1 DEF Multiply, IsSection
<1>4. product \in Nat
  BY <1>3
<1> HIDE DEF product
<1>5. /\ Aligned(size) \in Nat /\ Aligned(size) % 8 = 0 /\ size <= Aligned(size)
      /\ size \in Nat
  BY <1>3, <1>4 DEF Aligned, Word
<1>6. AddStorage(0, s[1], s[2]) = Aligned(size)
  <2> HIDE DEF size
  <2>1. ~(0 > SizeMax - Aligned(size)) /\ 0 # Overflow
    BY <1>1, <1>2, <1>5, StorageAssumption DEF Overflow
  <2> QED
    BY <1>1, <1>5, <2>1 DEF AddStorage, size, Word
<1>7. SectionSize(s) = Aligned(size)
  <2> HIDE DEF size
  <2>1. Aligned(size) # Overflow
    BY <1>5 DEF Overflow
  <2> QED
    BY <1>6, <2>1 DEF SectionSize
<1> HIDE DEF size
<1> QED
  BY <1>1, <1>2, <1>3, <1>5, <1>7 DEF product, Word

(* A size that is not zero has room for every section.                     *)
LEMMA LayoutFits ==
    ASSUME NEW nodes \in Nat, NEW edges \in Nat, NEW domain \in Nat,
           NEW layout, layout = Sections(nodes, edges, domain),
           NEW size, size = ProblemStorageSize(nodes, edges, domain), size # 0
    PROVE  \A i \in DOMAIN layout :
               /\ SectionStarts(layout)[i] % Word = 0
               /\ layout[i][1] >= 0
               /\ SectionStarts(layout)[i] + layout[i][1] * layout[i][2]
                      <= IF i = Len(layout) THEN size ELSE SectionStarts(layout)[i + 1]
<1> DEFINE Size == Nat \cup {Overflow}
           add(t, i) == AddStorage(t, layout[i][1], layout[i][2])
           step(i) == SectionSize(layout[i])
           product(i) == layout[i][1] * layout[i][2]
<1>1. /\ DOMAIN layout = 1 .. 7 /\ Len(layout) = 7
      /\ \A i \in 1 .. 7 : IsSection(layout[i])
  BY LayoutIsSections
<1>2. add(add(add(add(add(add(add(0, 1), 2), 3), 4), 5), 6), 7) = size /\ size # Overflow
  BY DEF ProblemStorageSize
<1>3. ASSUME NEW t \in Size, NEW i \in 1 .. 7, add(t, i) # Overflow
      PROVE  /\ t # Overflow /\ layout[i][1] >= 0 /\ add(t, i) = t + step(i) /\ add(t, i) \in Size
             /\ step(i) \in Nat /\ step(i) % 8 = 0 /\ product(i) <= step(i) /\ product(i) \in Nat
  <2>1. IsSection(layout[i])
    BY <1>1
  <2>2. /\ t \in Nat /\ layout[i][1] \in Nat /\ add(t, i) = t + step(i)
        /\ step(i) \in Nat /\ step(i) % 8 = 0 /\ product(i) <= step(i)
    BY <1>3, <2>1, SectionAdded DEF Word
  <2>3. product(i) \in Nat
    BY <2>1, <2>2 DEF IsSection
  <2> QED
    BY <2>2, <2>3 DEF Overflow
<1>4. ASSUME NEW t \in Size, NEW i \in 1 .. 7 PROVE add(t, i) \in Size
  BY <1>3, <1>4
<1>5. SectionStarts(layout)
        = << 0, step(1), step(1) + step(2), step(1) + step(2) + step(3),
             step(1) + step(2) + step(3) + step(4),
             step(1) + step(2) + step(3) + step(4) + step(5),
             step(1) + step(2) + step(3) + step(4) + step(5) + step(6) >>
  BY DEF SectionStarts
<1> DEFINE t1 == add(0, 1)
           t2 == add(t1, 2)
           t3 == add(t2, 3)
           t4 == add(t3, 4)
           t5 == add(t4, 5)
           t6 == add(t5, 6)
           t7 == add(t6, 7)
<1>6. t7 = size
  BY <1>2
<1> HIDE DEF add, step, product
<1>7. 0 \in Size
  OBVIOUS
<1> HIDE DEF Size, t1, t2, t3, t4, t5, t6, t7
<1>8. /\ t1 \in Size /\ t2 \in Size /\ t3 \in Size
      /\ t4 \in Size /\ t5 \in Size /\ t6 \in Size
  <2>1. t1 \in Size
    BY <1>4, <1>7 DEF t1
  <2>2. t2 \in Size
    BY <1>4, <2>1 DEF t2
  <2>3. t3 \in Size
    BY <1>4, <2>2 DEF t3
  <2>4. t4 \in Size
    BY <1>4, <2>3 DEF t4
  <2>5. t5 \in Size
    BY <1>4, <2>4 DEF t5
  <2>6. t6 \in Size
    BY <1>4, <2>5 DEF t6
  <2> QED
    BY <2>1, <2>2, <2>3, <2>4, <2>5, <2>6
<1>9. t7 # Overflow /\ t7 = add(t6, 7)
  BY <1>2, <1>6 DEF t7
<1>10. t6 # Overflow /\ t6 = add(t5, 6)
  BY <1>3, <1>8, <1>9 DEF t6
<1>11. t5 # Overflow /\ t5 = add(t4, 5)
  BY <1>3, <1>8, <1>10 DEF t5
<1>12. t4 # Overflow /\ t4 = add(t3, 4)
  BY <1>3, <1>8, <1>11 DEF t4
<1>13. t3 # Overflow /\ t3 = add(t2, 3)
  BY <1>3, <1>8, <1>12 DEF t3
<1>14. t2 # Overflow /\ t2 = add(t1, 2)
  BY <1>3, <1>8, <1>13 DEF t2
<1>15. t1 # Overflow /\ t1 = add(0, 1)
  BY <1>3, <1>8, <1>14 DEF t1
<1>16. \A i \in 1 .. 7 : /\ step(i) \in Nat /\ step(i) % 8 = 0 /\ product(i) <= step(i)
                         /\ product(i) \in Nat /\ layout[i][1] >= 0
  <2> SUFFICES ASSUME NEW i \in 1 .. 7
               PROVE  \E t \in Size : add(t, i) # Overflow
    BY <1>3
  <2>1. i \in {1, 2, 3, 4, 5, 6, 7}
    OBVIOUS
  <2> QED
    BY <2>1, <1>7, <1>8, <1>9, <1>10, <1>11, <1>12, <1>13, <1>14, <1>15
<1>17. size = step(1) + step(2) + step(3) + step(4) + step(5) + step(6) + step(7)
  <2>1. /\ t1 = 0 + step(1) /\ t2 = t1 + step(2) /\ t3 = t2 + step(3) /\ t4 = t3 + step(4)
        /\ t5 = t4 + step(5) /\ t6 = t5 + step(6) /\ t7 = t6 + step(7)
    BY <1>3, <1>7, <1>8, <1>9, <1>10, <1>11, <1>12, <1>13, <1>14, <1>15
  <2> QED
    BY <1>6, <1>16, <2>1
<1> DEFINE Words8 == {x \in Nat : x % 8 = 0}
<1>18. \A x, y \in Words8 : x + y \in Words8
  OBVIOUS
<1>19. 0 \in Words8 /\ \A i \in 1 .. 7 : step(i) \in Words8
  BY <1>16
<1> DEFINE starts == SectionStarts(layout)
<1>20. /\ starts[1] = 0 /\ starts[2] = starts[1] + step(1) /\ starts[3] = starts[2] + step(2)
       /\ starts[4] = starts[3] + step(3) /\ starts[5] = starts[4] + step(4)
       /\ starts[6] = starts[5] + step(5) /\ starts[7] = starts[6] + step(6)
       /\ size = starts[7] + step(7)
  <2>1. /\ step(1) \in Nat /\ step(2) \in Nat /\ step(3) \in Nat /\ step(4) \in Nat
        /\ step(5) \in Nat /\ step(6) \in Nat /\ step(7) \in Nat
    BY <1>16
  <2> QED
    BY <1>5, <1>17, <2>1
<1> HIDE DEF starts, Words8
<1>21. starts[1] \in Words8 /\ starts[2] \in Words8
  BY <1>18, <1>19, <1>20
<1>22. starts[3] \in Words8 /\ starts[4] \in Words8
  <2>1. starts[3] \in Words8
    BY <1>18, <1>19, <1>20, <1>21
  <2> QED
    BY <1>18, <1>19, <1>20, <2>1
<1>23. starts[5] \in Words8 /\ starts[6] \in Words8 /\ starts[7] \in Words8
  <2>1. starts[5] \in Words8
    BY <1>18, <1>19, <1>20, <1>22
  <2>2. starts[6] \in Words8
    BY <1>18, <1>19, <1>20, <2>1
  <2> QED
    BY <1>18, <1>19, <1>20, <2>2
<1>24. ASSUME NEW i \in 1 .. 7
       PROVE  /\ starts[i] % Word = 0
              /\ layout[i][1] >= 0
              /\ starts[i] + product(i) <= IF i = 7 THEN size ELSE starts[i + 1]
  <2>1. i \in {1, 2, 3, 4, 5, 6, 7}
    OBVIOUS
  <2>2. starts[i] \in Words8
    BY <1>21, <1>22, <1>23, <2>1
  <2>3. (IF i = 7 THEN size ELSE starts[i + 1]) = starts[i] + step(i)
    BY <1>20, <2>1
  <2>4. step(i) \in Nat /\ product(i) \in Nat /\ product(i) <= step(i) /\ layout[i][1] >= 0
    BY <1>16
  <2> QED
    BY <2>2, <2>3, <2>4 DEF Words8, Word
<1> QED
  BY <1>1, <1>24 DEF starts, product

(* Every block with sections was asked for by pbqp_init.                   *)
Laid ==
    \A b \in live :
        b.layout # <<>> =>
            \E nodes, edges, domain \in Nat :
                /\ b.layout = Sections(nodes, edges, domain)
                /\ b.size = ProblemStorageSize(nodes, edges, domain) /\ b.size # 0

(* BindProblemStorage lays the arrays of a problem out inside the block    *)
(* ProblemStorageSize has asked for, aligned and one after the other, for  *)
(* every three capacities and every width of size_t: where a product or a  *)
(* sum of capacities wraps, no block is asked for.                         *)
THEOREM SectionsAlwaysFit == ArenaSpec => []SectionsFit
<1>1. ArenaInit => Laid
  BY DEF ArenaInit, Laid
<1>2. Laid /\ [ArenaNext]_arenaVars => Laid'
  <2> SUFFICES ASSUME Laid, [ArenaNext]_arenaVars PROVE Laid'
    OBVIOUS
  <2>1. ASSUME NEW size, NEW layout, Allocate(size, layout),
               layout # <<>> => \E nodes, edges, domain \in Nat :
                   /\ layout = Sections(nodes, edges, domain)
                   /\ size = ProblemStorageSize(nodes, edges, domain) /\ size # 0
        PROVE  Laid'
    <3> DEFINE b == Block(Place(used).offset, size, used, layout)
    <3>1. live' = live \cup {b}
      BY <2>1 DEF Allocate
    <3>2. b.layout = layout /\ b.size = size
      BY DEF Block
    <3> HIDE DEF b
    <3> QED
      BY <2>1, <3>1, <3>2 DEF Laid
  <2>2. CASE \E size \in Sizes : Allocate(size, <<>>)
    BY <2>1, <2>2
  <2>3. CASE \E capacities \in Problems : AllocateProblem(capacities)
    <3>1. PICK capacities \in Problems : AllocateProblem(capacities)
      BY <2>3
    <3>2. PICK nodes \in Nat, edges \in Nat, domain \in Nat :
               nodes = capacities[1] /\ edges = capacities[2] /\ domain = capacities[3]
      BY CallerAssumption
    <3>3. /\ Allocate(ProblemStorageSize(nodes, edges, domain), Sections(nodes, edges, domain))
          /\ ProblemStorageSize(nodes, edges, domain) # 0
      BY <3>1, <3>2 DEF AllocateProblem
    <3> QED
      BY <2>1, <3>3
  <2>4. CASE \E b \in live : Deallocate(b)
    BY <2>4 DEF Deallocate, Laid
  <2>5. CASE \E b \in live, value \in Stores : Write(b, value)
    BY <2>5 DEF Write, Laid
  <2>6. CASE UNCHANGED arenaVars
    BY <2>6 DEF arenaVars, Laid
  <2> QED
    BY <2>2, <2>3, <2>4, <2>5, <2>6 DEF ArenaNext
<1>3. Laid => SectionsFit
  <2> SUFFICES ASSUME Laid, NEW b \in live, b.layout # <<>>
               PROVE  \A i \in DOMAIN b.layout :
                          /\ SectionStarts(b.layout)[i] % Word = 0
                          /\ b.layout[i][1] >= 0
                          /\ SectionStarts(b.layout)[i] + b.layout[i][1] * b.layout[i][2]
                                 <= IF i = Len(b.layout) THEN b.size
                                    ELSE SectionStarts(b.layout)[i + 1]
    BY DEF SectionsFit
  <2>1. PICK nodes \in Nat, edges \in Nat, domain \in Nat :
             /\ b.layout = Sections(nodes, edges, domain)
             /\ b.size = ProblemStorageSize(nodes, edges, domain) /\ b.size # 0
    BY DEF Laid
  <2> QED
    BY <2>1, LayoutFits
<1> QED
  BY <1>1, <1>2, <1>3, PTL DEF ArenaSpec

-----------------------------------------------------------------------------
(* The branching search.                                                   *)
(*                                                                         *)
(* Each level of the call stack holds the objects it has allocated, one    *)
(* behind the other (Held): none before it branches, the array of the best *)
(* assignment while it does, and a copy and an array more while a call for *)
(* a value runs.                                                           *)

(* What a call finds allocated when it begins.                             *)
Entry(u, fs, i) == IF i = 1 THEN u ELSE Ends(fs[i - 1].blocks[3])

OneObject(u, blocks) == \E array : blocks = <<array>> /\ array.prev = u

ThreeObjects(u, blocks) ==
    \E array, clone, candidate :
        /\ blocks = <<array, clone, candidate>>
        /\ array.prev = u /\ clone.prev = Ends(array) /\ candidate.prev = Ends(clone)

FrameFields == {"problem", "known", "node", "value", "best", "base", "aggregate", "blocks"}

Phases == {"solve", "enter", "reduce", "values", "resume", "returned"}

IsStack == /\ \E S : frames \in Seq(S)
           /\ top >= 1
           /\ \A i \in 1 .. top : DOMAIN frames[i] = FrameFields
           /\ phase \in Phases

Below == \A i \in 1 .. top - 1 : ThreeObjects(Entry(start, frames, i), frames[i].blocks)

Held == /\ Below
        /\ phase \in {"solve", "enter", "reduce"} =>
               frame.blocks = <<>> /\ workspace = Entry(start, frames, top)
        /\ phase = "values" =>
               OneObject(Entry(start, frames, top), frame.blocks) /\ workspace = Ends(frame.blocks[1])
        /\ phase = "resume" =>
               /\ ThreeObjects(Entry(start, frames, top), frame.blocks)
               /\ workspace = Ends(frame.blocks[3])
        /\ phase = "returned" => workspace = start

(* Of up to three objects the destructors release one after the other.     *)
LEMMA ReleaseSteps ==
    ASSUME NEW u, NEW blocks, NEW n \in 0 .. 3, Len(blocks) = n
    PROVE  \E r : /\ r[0] = u
                  /\ \A i \in 1 .. n : r[i] = Release(r[i - 1], blocks[n + 1 - i])
                  /\ ReleaseAll(u, blocks) = r[n]
<1> DEFINE step(v, i) == Release(v, blocks[n + 1 - i])
           one   == step(u, 1)
           two   == step(one, 2)
           three == step(two, 3)
           g == [i \in 0 .. n |-> IF i = 0 THEN u ELSE IF i = 1 THEN one
                                  ELSE IF i = 2 THEN two ELSE three]
           body(f) == [i \in 0 .. n |-> IF i = 0 THEN u ELSE step(f[i - 1], i)]
           r == CHOOSE f : f = body(f)
<1>1. one = step(u, 1) /\ two = step(one, 2) /\ three = step(two, 3)
  OBVIOUS
<1>2. ReleaseAll(u, blocks) = r[n]
  BY DEF ReleaseAll
<1> HIDE DEF one, two, three, step
<1>3. g = body(g)
  <2>1. \A i \in 0 .. n : i # 0 => i \in 1 .. 3 /\ i - 1 \in 0 .. n
    OBVIOUS
  <2>2. \A i \in 0 .. n : g[i] = IF i = 0 THEN u ELSE step(g[i - 1], i)
    BY <1>1, <2>1
  <2> QED
    BY <2>2
<1>4. r = body(r)
  BY <1>3
<1> HIDE DEF r
<1>5. r[0] = u /\ \A i \in 1 .. n : r[i] = step(r[i - 1], i)
  BY <1>4
<1> QED
  BY <1>2, <1>5 DEF step

(* The destructors give back what the constructors took.                   *)
LEMMA ReleaseNone == \A u : ReleaseAll(u, <<>>) = u
<1> SUFFICES ASSUME NEW u PROVE ReleaseAll(u, <<>>) = u
  OBVIOUS
<1>1. Len(<<>>) = 0
  OBVIOUS
<1> QED
  BY <1>1, ReleaseSteps

LEMMA ReleaseOne ==
    ASSUME NEW u, NEW blocks, OneObject(u, blocks)
    PROVE  ReleaseAll(Ends(blocks[1]), blocks) = u
<1>1. Len(blocks) = 1
  BY DEF OneObject
<1>2. PICK r : /\ r[0] = Ends(blocks[1])
               /\ \A i \in 1 .. 1 : r[i] = Release(r[i - 1], blocks[1 + 1 - i])
               /\ ReleaseAll(Ends(blocks[1]), blocks) = r[1]
  BY <1>1, ReleaseSteps
<1>3. r[1] = Release(r[0], blocks[1])
  BY <1>2
<1>4. blocks[1].prev = u
  BY DEF OneObject
<1> QED
  BY <1>2, <1>3, <1>4 DEF Release

(* A child's copy and its array, above the array of the branch.            *)
LEMMA ReleaseChild ==
    ASSUME NEW u, NEW blocks, ThreeObjects(u, blocks)
    PROVE  /\ ReleaseAll(Ends(blocks[3]), SubSeq(blocks, 2, 3)) = Ends(blocks[1])
           /\ OneObject(u, SubSeq(blocks, 1, 1)) /\ SubSeq(blocks, 1, 1)[1] = blocks[1]
<1>1. PICK a, b, c : /\ blocks = <<a, b, c>>
                     /\ a.prev = u /\ b.prev = Ends(a) /\ c.prev = Ends(b)
  BY DEF ThreeObjects
<1> DEFINE upper == SubSeq(blocks, 2, 3)
           lower == SubSeq(blocks, 1, 1)
<1>2. blocks \in Seq({a, b, c}) /\ Len(blocks) = 3
  BY <1>1
<1>3. /\ upper \in Seq({a, b, c}) /\ Len(upper) = 2 /\ upper[1] = b /\ upper[2] = c
      /\ lower \in Seq({a, b, c}) /\ Len(lower) = 1 /\ lower[1] = a
  <2> HIDE DEF upper, lower
  <2>1. /\ upper \in Seq({a, b, c}) /\ Len(upper) = 2
        /\ lower \in Seq({a, b, c}) /\ Len(lower) = 1
    BY <1>2 DEF upper, lower
  <2>2. upper[1] = blocks[2] /\ upper[2] = blocks[3] /\ lower[1] = blocks[1]
    BY <1>2 DEF upper, lower
  <2> QED
    BY <1>1, <2>1, <2>2
<1> HIDE DEF upper, lower
<1>4. lower = <<a>>
  BY <1>3
<1>5. PICK r : /\ r[0] = Ends(c)
               /\ \A i \in 1 .. 2 : r[i] = Release(r[i - 1], upper[2 + 1 - i])
               /\ ReleaseAll(Ends(c), upper) = r[2]
  BY <1>3, ReleaseSteps
<1>6. r[1] = Release(r[0], upper[2]) /\ r[2] = Release(r[1], upper[1])
  BY <1>5
<1>7. ReleaseAll(Ends(blocks[3]), upper) = Ends(a)
  BY <1>1, <1>3, <1>5, <1>6 DEF Release
<1> QED
  BY <1>1, <1>4, <1>7 DEF OneObject, upper, lower

LEMMA ReleaseThree ==
    ASSUME NEW u, NEW blocks, ThreeObjects(u, blocks)
    PROVE  ReleaseAll(Ends(blocks[3]), blocks) = u
<1>1. PICK a, b, c : /\ blocks = <<a, b, c>>
                     /\ a.prev = u /\ b.prev = Ends(a) /\ c.prev = Ends(b)
  BY DEF ThreeObjects
<1>2. PICK r : /\ r[0] = Ends(blocks[3])
               /\ \A i \in 1 .. 3 : r[i] = Release(r[i - 1], blocks[3 + 1 - i])
               /\ ReleaseAll(Ends(blocks[3]), blocks) = r[3]
  <2>1. Len(blocks) = 3
    BY <1>1
  <2> QED
    BY <2>1, ReleaseSteps
<1>3. r[1] = Release(r[0], c) /\ r[2] = Release(r[1], b) /\ r[3] = Release(r[2], a)
  BY <1>1, <1>2
<1> QED
  BY <1>1, <1>2, <1>3 DEF Release

(* The step of the call stack: the top frame changes, a frame is pushed on *)
(* a changed top, or the top frame is popped.                              *)
SameBelow(fs, gs, n) == \A i \in 1 .. n : gs[i] = fs[i]

LEMMA EntryBelow ==
    ASSUME NEW u, NEW fs, NEW gs, NEW n \in Nat, SameBelow(fs, gs, n), NEW i \in 1 .. n + 1
    PROVE  Entry(u, gs, i) = Entry(u, fs, i)
<1>1. CASE i = 1
  BY <1>1 DEF Entry
<1>2. CASE i # 1
  <2>1. i - 1 \in 1 .. n
    BY <1>2
  <2> QED
    BY <2>1 DEF Entry, SameBelow
<1> QED
  BY <1>1, <1>2

LEMMA StackTop ==
    ASSUME IsStack
    PROVE  top \in Nat /\ top >= 1 /\ DOMAIN frames = 1 .. top /\ top \in 1 .. top
<1>1. PICK S : frames \in Seq(S)
  BY DEF IsStack
<1>2. top \in Nat /\ DOMAIN frames = 1 .. top
  BY <1>1 DEF top
<1>3. top >= 1
  BY DEF IsStack
<1> QED
  BY <1>2, <1>3

LEMMA TopReplaced ==
    ASSUME IsStack, NEW g
    PROVE  LET fs == [frames EXCEPT ![top] = g]
           IN  /\ \E S : fs \in Seq(S)
               /\ Len(fs) = top /\ fs[top] = g /\ SameBelow(frames, fs, top - 1)
<1>1. PICK S : frames \in Seq(S)
  BY DEF IsStack
<1>2. frames \in Seq(S \cup {g})
  BY <1>1
<1> DEFINE fs == [frames EXCEPT ![top] = g]
<1>3. /\ fs \in Seq(S \cup {g}) /\ Len(fs) = top
      /\ \A j \in 1 .. top : fs[j] = IF j = top THEN g ELSE frames[j]
  BY <1>2, StackTop, ExceptSeq DEF top
<1>4. fs[top] = g /\ SameBelow(frames, fs, top - 1)
  BY <1>3, StackTop DEF SameBelow
<1> QED
  BY <1>3, <1>4

LEMMA FramePushed ==
    ASSUME IsStack, NEW g, NEW h
    PROVE  LET fs == Append([frames EXCEPT ![top] = g], h)
           IN  /\ \E S : fs \in Seq(S)
               /\ Len(fs) = top + 1 /\ fs[top + 1] = h /\ fs[top] = g
               /\ SameBelow(frames, fs, top - 1)
<1> DEFINE gs == [frames EXCEPT ![top] = g]
<1>1. PICK S : gs \in Seq(S)
  BY TopReplaced
<1>2. Len(gs) = top /\ gs[top] = g /\ SameBelow(frames, gs, top - 1) /\ top >= 1
  BY TopReplaced DEF IsStack
<1> HIDE DEF gs
<1>3. Append(gs, h) \in Seq(S \cup {h}) /\ Len(Append(gs, h)) = top + 1
  BY <1>1, <1>2
<1>4. Append(gs, h)[top + 1] = h /\ \A i \in 1 .. top : Append(gs, h)[i] = gs[i]
  BY <1>1, <1>2
<1>5. SameBelow(frames, Append(gs, h), top - 1) /\ Append(gs, h)[top] = g
  <2>1. top \in Nat
    BY <1>1, <1>2
  <2> QED
    BY <1>2, <1>4, <2>1 DEF SameBelow
<1> QED
  BY <1>3, <1>4, <1>5 DEF gs

LEMMA FramePopped ==
    ASSUME IsStack, top # 1
    PROVE  LET fs == SubSeq(frames, 1, top - 1)
           IN  /\ \E S : fs \in Seq(S)
               /\ Len(fs) = top - 1 /\ SameBelow(frames, fs, top - 1)
               /\ top - 1 \in 1 .. top
<1>1. PICK S : frames \in Seq(S)
  BY DEF IsStack
<1>2. top \in Nat /\ top > 1
  BY StackTop
<1>3. SubSeq(frames, 1, top - 1) \in Seq(S) /\ Len(SubSeq(frames, 1, top - 1)) = top - 1
  BY <1>1, <1>2 DEF top
<1>4. \A i \in 1 .. top - 1 : SubSeq(frames, 1, top - 1)[i] = frames[i]
  BY <1>1, <1>2 DEF top
<1> QED
  BY <1>2, <1>3, <1>4 DEF SameBelow

(* A return releases what the call holds: the workspace is what the call   *)
(* found, and the caller has its three objects on top of it.               *)
LEMMA ReturnReleases ==
    ASSUME IsStack, Held, phase # "returned", NEW status, NEW best, NEW p,
           Return(status, best, p), UNCHANGED start
    PROVE  IsStack' /\ Held'
<1>1. top \in Nat /\ top >= 1 /\ top \in 1 .. top
  BY StackTop
<1>2. workspace' = Entry(start, frames, top)
  <2>1. CASE phase \in {"solve", "enter", "reduce"}
    BY <2>1, ReleaseNone DEF Held, Return
  <2>2. CASE phase = "values"
    BY <2>2, ReleaseOne DEF Held, Return
  <2>3. CASE phase = "resume"
    BY <2>3, ReleaseThree DEF Held, Return
  <2> QED
    BY <2>1, <2>2, <2>3 DEF IsStack, Phases
<1>3. CASE top = 1
  <2>1. phase' = "returned" /\ frames' = <<[frame EXCEPT !.problem = p]>>
    BY <1>3 DEF Return
  <2>2. top' = 1 /\ frames' \in Seq({[frame EXCEPT !.problem = p]})
        /\ frames'[1] = [frame EXCEPT !.problem = p]
    BY <2>1 DEF top
  <2>3. DOMAIN frames'[1] = FrameFields
    BY <1>1, <1>3, <2>2 DEF IsStack, frame
  <2>4. IsStack'
    <3>1. \E S : frames' \in Seq(S)
      BY <2>2
    <3>2. top' >= 1 /\ \A i \in 1 .. top' : DOMAIN frames'[i] = FrameFields
      BY <2>2, <2>3
    <3> QED
      BY <2>1, <3>1, <3>2 DEF IsStack, Phases
  <2>5. workspace' = start'
    BY <1>2, <1>3 DEF Entry
  <2>6. Below'
    BY <2>2 DEF Below
  <2> QED
    BY <2>1, <2>4, <2>5, <2>6 DEF Held
<1>4. CASE top # 1
  <2>1. phase' = "resume" /\ frames' = SubSeq(frames, 1, top - 1)
    BY <1>4 DEF Return
  <2>2. /\ \E S : frames' \in Seq(S)
        /\ top' = top - 1 /\ SameBelow(frames, frames', top - 1) /\ top - 1 \in 1 .. top
    BY <1>4, <2>1, FramePopped DEF top
  <2>3. IsStack'
    <3>1. top' >= 1 /\ \A i \in 1 .. top' : DOMAIN frames'[i] = FrameFields
      BY <1>1, <1>4, <2>2 DEF IsStack, SameBelow
    <3> QED
      BY <2>1, <2>2, <3>1 DEF IsStack, Phases
  <2>4. \A i \in 1 .. top' : ThreeObjects(Entry(start', frames', i), frames'[i].blocks)
    <3>1. ASSUME NEW i \in 1 .. top - 1
          PROVE  frames'[i] = frames[i] /\ Entry(start, frames', i) = Entry(start, frames, i)
      <4>1. top - 1 \in Nat /\ i \in 1 .. (top - 1) + 1
        BY <1>1
      <4>2. Entry(start, frames', i) = Entry(start, frames, i)
        BY <2>2, <4>1, EntryBelow
      <4> QED
        BY <2>2, <4>2 DEF SameBelow
    <3> QED
      BY <2>2, <3>1 DEF Held, Below
  <2>5. workspace' = Ends(frames'[top'].blocks[3])
    BY <1>1, <1>2, <1>4, <2>2 DEF Entry, SameBelow
  <2>6. top' \in 1 .. top' /\ \A i \in 1 .. top' - 1 : i \in 1 .. top'
    BY <1>1, <1>4, <2>2
  <2>7. ThreeObjects(Entry(start', frames', top'), frames'[top'].blocks)
    BY <2>4, <2>6
  <2>8. \A i \in 1 .. top' - 1 : ThreeObjects(Entry(start', frames', i), frames'[i].blocks)
    BY <2>4, <2>6
  <2> QED
    BY <2>1, <2>3, <2>5, <2>7, <2>8 DEF Held, Below, frame
<1> QED
  BY <1>3, <1>4

(* What a call holds stays below when only its own frame changes.          *)
LEMMA TopChanged ==
    ASSUME IsStack, Below, UNCHANGED start, phase' \in Phases,
           NEW g, DOMAIN g = FrameFields, frames' = [frames EXCEPT ![top] = g]
    PROVE  /\ IsStack' /\ Below' /\ top' = top /\ frame' = g
           /\ Entry(start', frames', top') = Entry(start, frames, top)
<1>1. top \in Nat /\ top >= 1 /\ top \in 1 .. top /\ DOMAIN frames = 1 .. top
  BY StackTop
<1>2. /\ \E S : frames' \in Seq(S)
      /\ top' = top /\ frames'[top] = g /\ SameBelow(frames, frames', top - 1)
  BY TopReplaced DEF top
<1>3. \A i \in 1 .. top : DOMAIN frames'[i] = FrameFields
  BY <1>1, <1>2 DEF IsStack, SameBelow
<1>4. ASSUME NEW i \in 1 .. top PROVE Entry(start', frames', i) = Entry(start, frames, i)
  <2>1. top - 1 \in Nat /\ i \in 1 .. (top - 1) + 1
    BY <1>1
  <2> QED
    BY <1>2, <2>1, EntryBelow
<1>5. \A i \in 1 .. top - 1 : ThreeObjects(Entry(start', frames', i), frames'[i].blocks)
  <2> SUFFICES ASSUME NEW i \in 1 .. top - 1
               PROVE  ThreeObjects(Entry(start', frames', i), frames'[i].blocks)
    OBVIOUS
  <2>1. Entry(start', frames', i) = Entry(start, frames, i) /\ frames'[i] = frames[i]
    <3>1. i \in 1 .. top
      BY <1>1
    <3> QED
      BY <1>2, <1>4, <3>1 DEF SameBelow
  <2>2. ThreeObjects(Entry(start, frames, i), frames[i].blocks)
    BY DEF Below
  <2> QED
    BY <2>1, <2>2
<1>6. IsStack'
  BY <1>1, <1>2, <1>3 DEF IsStack
<1>7. Below'
  BY <1>2, <1>5 DEF Below
<1> QED
  BY <1>1, <1>2, <1>4, <1>6, <1>7 DEF frame

(* A call that begins finds what its caller holds.                         *)
LEMMA CallHolds ==
    ASSUME IsStack, Below, UNCHANGED start, phase' \in Phases,
           NEW g, DOMAIN g = FrameFields, NEW h, DOMAIN h = FrameFields,
           frames' = Append([frames EXCEPT ![top] = g], h),
           ThreeObjects(Entry(start, frames, top), g.blocks)
    PROVE  /\ IsStack' /\ Below' /\ top' = top + 1 /\ frame' = h
           /\ Entry(start', frames', top') = Ends(g.blocks[3])
<1>1. top \in Nat /\ top >= 1 /\ top \in 1 .. top /\ DOMAIN frames = 1 .. top
  BY StackTop
<1>2. /\ \E S : frames' \in Seq(S)
      /\ top' = top + 1 /\ frames'[top + 1] = h /\ frames'[top] = g
      /\ SameBelow(frames, frames', top - 1)
  BY FramePushed DEF top
<1>3. \A i \in 1 .. top + 1 : DOMAIN frames'[i] = FrameFields
  <2>1. \A i \in 1 .. top + 1 : i \in 1 .. top - 1 \/ i = top \/ i = top + 1
    BY <1>1
  <2>2. \A i \in 1 .. top - 1 : i \in 1 .. top
    BY <1>1
  <2> QED
    BY <1>2, <2>1, <2>2 DEF IsStack, SameBelow
<1>4. ASSUME NEW i \in 1 .. top PROVE Entry(start', frames', i) = Entry(start, frames, i)
  <2>1. top - 1 \in Nat /\ i \in 1 .. (top - 1) + 1
    BY <1>1
  <2> QED
    BY <1>2, <2>1, EntryBelow
<1>5. \A i \in 1 .. top : ThreeObjects(Entry(start', frames', i), frames'[i].blocks)
  <2>2. ASSUME NEW i \in 1 .. top - 1
        PROVE  ThreeObjects(Entry(start', frames', i), frames'[i].blocks)
    <3>1. Entry(start', frames', i) = Entry(start, frames, i) /\ frames'[i] = frames[i]
      <4>1. i \in 1 .. top
        BY <1>1
      <4> QED
        BY <1>2, <1>4, <4>1 DEF SameBelow
    <3>2. ThreeObjects(Entry(start, frames, i), frames[i].blocks)
      BY DEF Below
    <3> QED
      BY <3>1, <3>2
  <2>3. ThreeObjects(Entry(start', frames', top), frames'[top].blocks)
    BY <1>1, <1>2, <1>4
  <2>4. \A i \in 1 .. top : i \in 1 .. top - 1 \/ i = top
    BY <1>1
  <2> QED
    BY <2>2, <2>3, <2>4
<1>6. IsStack'
  <2>1. top' >= 1
    BY <1>1, <1>2
  <2> QED
    BY <1>2, <1>3, <2>1 DEF IsStack
<1>7. Below'
  <2>1. top' - 1 = top
    BY <1>1, <1>2
  <2> QED
    BY <1>5, <2>1 DEF Below
<1>8. Entry(start', frames', top') = Ends(g.blocks[3])
  BY <1>1, <1>2 DEF Entry
<1> QED
  BY <1>2, <1>6, <1>7, <1>8 DEF frame

HeldInv == IsStack /\ Held

LEMMA HeldStarts == Init => HeldInv
<1> SUFFICES ASSUME Init PROVE HeldInv
  OBVIOUS
<1>1. frames = <<Frame(input, Inf)>> /\ phase = "solve" /\ workspace = start
  BY DEF Init
<1>2. /\ frames \in Seq({Frame(input, Inf)}) /\ top = 1 /\ frame = Frame(input, Inf)
  BY <1>1 DEF top, frame
<1>3. DOMAIN Frame(input, Inf) = FrameFields /\ Frame(input, Inf).blocks = <<>>
  BY DEF Frame, FrameFields
<1>4. IsStack
  <2>1. \E S : frames \in Seq(S)
    BY <1>2
  <2>2. top >= 1 /\ \A i \in 1 .. top : DOMAIN frames[i] = FrameFields
    BY <1>2, <1>3 DEF frame
  <2> QED
    BY <1>1, <2>1, <2>2 DEF IsStack, Phases
<1>5. Held
  BY <1>1, <1>2, <1>3 DEF Held, Below, Entry
<1> QED
  BY <1>4, <1>5 DEF HeldInv

LEMMA HeldKept == HeldInv /\ [Next]_vars => HeldInv'
<1> SUFFICES ASSUME HeldInv, [Next]_vars PROVE HeldInv'
  OBVIOUS
<1>1. IsStack /\ Held /\ Below /\ phase \in Phases
  BY DEF HeldInv, Held, IsStack
<1>2. /\ top \in Nat /\ top >= 1 /\ top \in 1 .. top /\ DOMAIN frames = 1 .. top
      /\ DOMAIN frame = FrameFields /\ frame = frames[top]
  BY <1>1, StackTop DEF IsStack, frame
<1>3. ASSUME NEW fault \in {"none", "kernel"}, Reduce(fault) PROVE HeldInv'
  <2>1. UNCHANGED start /\ phase \in {"solve", "reduce"} /\ phase # "returned"
    BY <1>3 DEF Reduce
  <2>2. PICK done : IF done.status = "OK"
                    THEN /\ frames' = [frames EXCEPT ![top].problem = done.problem]
                         /\ UNCHANGED <<phase, workspace, reply>>
                    ELSE Return(done.status, NoBest, done.problem)
    BY <1>3 DEF Reduce
  <2>3. CASE done.status # "OK"
    BY <1>1, <2>1, <2>2, <2>3, ReturnReleases DEF HeldInv
  <2>4. CASE done.status = "OK"
    <3> DEFINE g == [frame EXCEPT !.problem = done.problem]
    <3>1. frames' = [frames EXCEPT ![top] = g] /\ DOMAIN g = FrameFields
          /\ g.blocks = frame.blocks
      BY <1>2, <2>2, <2>4 DEF FrameFields
    <3>2. phase' = phase /\ workspace' = workspace
      BY <2>2, <2>4
    <3> HIDE DEF g
    <3>3. /\ IsStack' /\ Below' /\ top' = top /\ frame' = g
          /\ Entry(start', frames', top') = Entry(start, frames, top)
      BY <1>1, <2>1, <3>1, <3>2, TopChanged
    <3>4. Held'
      BY <1>1, <2>1, <3>1, <3>2, <3>3 DEF Held
    <3> QED
      BY <3>3, <3>4 DEF HeldInv
  <2> QED
    BY <2>3, <2>4
<1>4. CASE Solved
  <2>1. /\ UNCHANGED start /\ phase # "returned"
        /\ Return("OK", Solution(state), state)
    BY <1>4 DEF Solved
  <2> QED
    BY <1>1, <2>1, ReturnReleases DEF HeldInv
<1>5. CASE CallRoot
  <2>1. /\ phase = "solve" /\ phase' = "enter" /\ UNCHANGED <<frames, workspace, start>>
    BY <1>5 DEF CallRoot
  <2> QED
    BY <1>1, <2>1 DEF HeldInv, IsStack, Held, Below, Phases, top, frame
<1>6. CASE Enter
  <2>1. phase = "enter" /\ UNCHANGED start
    BY <1>6 DEF Enter
  <2>2. CASE config.limit # 0 /\ search.visited >= config.limit
    BY <1>1, <1>6, <2>1, <2>2, ReturnReleases DEF Enter, HitLimit, ReturnReported, HeldInv
  <2>3. CASE ~(config.limit # 0 /\ search.visited >= config.limit)
    <3>1. phase' = "reduce" /\ UNCHANGED <<frames, workspace>>
      BY <1>6, <2>3 DEF Enter
    <3> QED
      BY <1>1, <2>1, <3>1 DEF HeldInv, IsStack, Held, Below, Phases, top, frame
  <2> QED
    BY <2>2, <2>3
<1>7. CASE Prune
  BY <1>1, <1>7, ReturnReleases DEF Prune, Irreducible, ReturnReported, HeldInv
<1>8. CASE Leaf
  BY <1>1, <1>8, ReturnReleases DEF Leaf, Irreducible, ReturnReported, HeldInv
<1>9. CASE Branch
  <2>1. phase = "reduce" /\ UNCHANGED start
    BY <1>9 DEF Branch, Irreducible
  <2>2. CASE ~Fits(workspace, AssignmentBytes)
    BY <1>1, <1>9, <2>1, <2>2, ReturnReleases DEF Branch, HitLimit, ReturnReported, HeldInv
  <2>3. CASE Fits(workspace, AssignmentBytes)
    <3> DEFINE array == Take(workspace, AssignmentBytes)
               g == [frame EXCEPT !.node = SelectRnNode(state, config.policy),
                                  !.blocks = <<array>>,
                                  !.base = state.statistics, !.aggregate = state.statistics]
    <3>1. /\ frames' = [frames EXCEPT ![top] = g]
          /\ workspace' = Ends(array) /\ phase' = "values"
      BY <1>2, <1>9, <2>3 DEF Branch
    <3>2. DOMAIN g = FrameFields /\ g.blocks = <<array>> /\ array.prev = workspace
      BY <1>2 DEF FrameFields, Take
    <3> HIDE DEF g, array
    <3>3. /\ IsStack' /\ Below' /\ top' = top /\ frame' = g
          /\ Entry(start', frames', top') = Entry(start, frames, top)
      BY <1>1, <2>1, <3>1, <3>2, TopChanged DEF Phases
    <3>4. OneObject(Entry(start', frames', top'), frame'.blocks)
          /\ workspace' = Ends(frame'.blocks[1])
      BY <1>1, <2>1, <3>1, <3>2, <3>3 DEF Held, OneObject
    <3>5. Held'
      BY <3>1, <3>3, <3>4 DEF Held
    <3> QED
      BY <3>3, <3>5 DEF HeldInv
  <2> QED
    BY <2>2, <2>3
<1>10. CASE TryValue
  <2> DEFINE clone == Take(workspace, CloneBytes)
             candidate == Take(Ends(clone), AssignmentBytes)
             g == [frame EXCEPT !.blocks = @ \o <<clone, candidate>>]
             done == ConditionNode(Child(frame), frame.node, frame.value, "Branch")
  <2>1. phase = "values" /\ phase # "returned" /\ UNCHANGED start
    BY <1>10 DEF TryValue
  <2>2. \/ HitLimit
        \/ Return(done.status, NoBest, state)
        \/ \E p, known : /\ frames' = Append([frames EXCEPT ![top].blocks =
                                                @ \o <<clone, candidate>>], Frame(p, known))
                         /\ workspace' = Ends(candidate) /\ phase' = "enter"
    BY <1>10 DEF TryValue
  <2>3. CASE HitLimit
    BY <1>1, <2>1, <2>3, ReturnReleases DEF HitLimit, ReturnReported, HeldInv
  <2>4. CASE Return(done.status, NoBest, state)
    BY <1>1, <2>1, <2>4, ReturnReleases DEF HeldInv
  <2>5. ASSUME NEW p, NEW known,
               frames' = Append([frames EXCEPT ![top].blocks = @ \o <<clone, candidate>>],
                                Frame(p, known)),
               workspace' = Ends(candidate), phase' = "enter"
        PROVE  HeldInv'
    <3>1. /\ frames' = Append([frames EXCEPT ![top].blocks = @ \o <<clone, candidate>>],
                              Frame(p, known))
          /\ workspace' = Ends(candidate) /\ phase' = "enter"
      BY <2>5
    <3>2. PICK array : frame.blocks = <<array>> /\ array.prev = Entry(start, frames, top)
                       /\ workspace = Ends(array)
      BY <1>1, <2>1 DEF Held, OneObject
    <3>3. /\ frames' = Append([frames EXCEPT ![top] = g], Frame(p, known))
          /\ DOMAIN g = FrameFields /\ g.blocks = frame.blocks \o <<clone, candidate>>
      BY <1>2, <3>1 DEF FrameFields
    <3>4. clone.prev = Ends(array) /\ candidate.prev = Ends(clone)
      BY <3>2 DEF Take
    <3>5. DOMAIN Frame(p, known) = FrameFields /\ Frame(p, known).blocks = <<>>
      BY DEF Frame, FrameFields
    <3> HIDE DEF g, clone, candidate
    <3>6. g.blocks = <<array, clone, candidate>>
      <4> DEFINE T == {array, clone, candidate}
      <4>1. <<array>> \in Seq(T) /\ <<clone, candidate>> \in Seq(T)
            /\ <<array, clone, candidate>> \in Seq(T)
        OBVIOUS
      <4>2. /\ <<array>> \o <<clone, candidate>> \in Seq(T)
            /\ Len(<<array>> \o <<clone, candidate>>) = 3
            /\ \A i \in 1 .. 3 : (<<array>> \o <<clone, candidate>>)[i]
                                    = <<array, clone, candidate>>[i]
        BY <4>1, ConcatProperties
      <4>3. <<array>> \o <<clone, candidate>> = <<array, clone, candidate>>
        BY <4>1, <4>2, SeqEqual
      <4> QED
        BY <3>2, <3>3, <4>3
    <3>10. ThreeObjects(Entry(start, frames, top), g.blocks)
      BY <3>2, <3>4, <3>6 DEF ThreeObjects
    <3>7. /\ IsStack' /\ Below' /\ top' = top + 1 /\ frame' = Frame(p, known)
          /\ Entry(start', frames', top') = Ends(g.blocks[3])
      BY <1>1, <2>1, <3>3, <3>1, <3>5, <3>10, CallHolds DEF Phases
    <3>8. g.blocks[3] = candidate
      BY <3>6
    <3>9. Held'
      BY <3>1, <3>5, <3>7, <3>8 DEF Held
    <3> QED
      BY <3>7, <3>9 DEF HeldInv
  <2> QED
    BY <2>2, <2>3, <2>4, <2>5
<1>11. CASE Resume
  <2>1. phase = "resume" /\ UNCHANGED start
    BY <1>11 DEF Resume
  <2>2. CASE reply.status \notin {"OK", "PRUNED"}
    BY <1>1, <1>11, <2>1, <2>2, ReturnReleases DEF Resume, ReturnReported, HeldInv
  <2>3. CASE reply.status \in {"OK", "PRUNED"}
    <3> DEFINE g == [frame EXCEPT !.value = @ + 1,
                          !.blocks = SubSeq(@, 1, 1),
                          !.aggregate = AddBranchStatistics(@, frame.base, reply.statistics),
                          !.problem.statistics.histogram = @ + (reply.statistics.histogram - @),
                          !.best = IF /\ reply.status = "OK"
                                      /\ ~@.has \/ reply.best.optimum < @.optimum
                                   THEN reply.best ELSE @]
    <3>1. /\ frames' = [frames EXCEPT ![top] = g]
          /\ workspace' = ReleaseAll(workspace, SubSeq(frame.blocks, 2, 3))
          /\ phase' = "values"
      BY <1>2, <1>11, <2>3 DEF Resume
    <3>2. DOMAIN g = FrameFields /\ g.blocks = SubSeq(frame.blocks, 1, 1)
      BY <1>2 DEF FrameFields
    <3> HIDE DEF g
    <3>3. /\ IsStack' /\ Below' /\ top' = top /\ frame' = g
          /\ Entry(start', frames', top') = Entry(start, frames, top)
      BY <1>1, <2>1, <3>1, <3>2, TopChanged DEF Phases
    <3>4. ThreeObjects(Entry(start, frames, top), frame.blocks)
          /\ workspace = Ends(frame.blocks[3])
      BY <1>1, <2>1 DEF Held
    <3>7. /\ workspace' = Ends(frame.blocks[1])
          /\ OneObject(Entry(start, frames, top), SubSeq(frame.blocks, 1, 1))
          /\ SubSeq(frame.blocks, 1, 1)[1] = frame.blocks[1]
      BY <3>1, <3>4, ReleaseChild
    <3>5. OneObject(Entry(start', frames', top'), frame'.blocks)
          /\ workspace' = Ends(frame'.blocks[1])
      BY <3>2, <3>3, <3>7
    <3>6. Held'
      BY <3>1, <3>3, <3>5 DEF Held
    <3> QED
      BY <3>3, <3>6 DEF HeldInv
  <2> QED
    BY <2>2, <2>3
<1>12. CASE Conclude
  <2>1. /\ UNCHANGED start /\ phase # "returned"
        /\ \E status, best, p : Return(status, best, p)
    BY <1>12 DEF Conclude
  <2> QED
    BY <1>1, <2>1, ReturnReleases DEF HeldInv
<1>13. CASE UNCHANGED vars
  BY <1>13 DEF vars, HeldInv, IsStack, Held, Below, top, frame
<1> QED
  BY <1>3, <1>4, <1>5, <1>6, <1>7, <1>8, <1>9, <1>10, <1>11, <1>12, <1>13 DEF Next

(* However a solve ends, solved, pruned empty, out of memory, out of nodes *)
(* to visit or failed by the kernel at any depth, the workspace is as the  *)
(* caller gave it: every level gives back what it took, in the order in    *)
(* which the arena takes it back.                                          *)
THEOREM SolveReturnsWorkspace == Spec => []WorkspaceReturned
<1>1. HeldInv => WorkspaceReturned
  BY DEF HeldInv, Held, WorkspaceReturned
<1> QED
  BY <1>1, HeldStarts, HeldKept, PTL DEF Spec

-----------------------------------------------------------------------------
(* The work of the whole tree.                                             *)
(*                                                                         *)
(* A call's counters are those its problem had when it branched (base),    *)
(* what its finished children added (aggregate - base), and the running    *)
(* child's; so work is the sum of what the calls on the stack have added,  *)
(* and of the counters of the top one (AddsUp).                            *)

Counted == {"r0", "r1", "r2", "conditions"}
Told == Counted \cup {"histogram"}

IsTally(t) == DOMAIN t = DOMAIN NoStatistics /\ \A c \in Told : t[c] \in Int

AreNodes(nodes) ==
    /\ DOMAIN nodes = NodeIds
    /\ \A n \in NodeIds : DOMAIN nodes[n] = DOMAIN NoNode /\ nodes[n].domain \in Nat

AreEdges(edges) ==
    /\ DOMAIN edges = Slots
    /\ \A e \in Slots : /\ DOMAIN edges[e] = DOMAIN NoEdge
                        /\ edges[e].first \in NodeIds /\ edges[e].second \in NodeIds

(* A problem whose reductions count integers.                              *)
Countable(p) == /\ DOMAIN p = DOMAIN EmptyProblem
                /\ IsTally(p.statistics) /\ AreNodes(p.nodes) /\ AreEdges(p.edges)

LEMMA BuiltCountable == \A p : AsBuilt(p) => Countable(p)
  BY DEF AsBuilt, Countable, IsTally, AreNodes, AreEdges, NoStatistics, Told, Counted

LEMMA ProblemFields ==
    DOMAIN EmptyProblem = {"node_count", "edge_count", "objective_offset", "nodes", "edges",
                           "elimination_order", "statistics"}
  BY DEF EmptyProblem

(* The parts of a reduction.                                               *)
LEMMA BumpCounts ==
    ASSUME NEW p, Countable(p), NEW counter \in Counted
    PROVE  Countable(Bump(p, counter))
           /\ Bump(p, counter).statistics = [p.statistics EXCEPT ![counter] = @ + 1]
<1> DEFINE t == [p.statistics EXCEPT ![counter] = @ + 1]
<1>1. Bump(p, counter) = [p EXCEPT !.statistics = t]
  BY DEF Bump
<1>2. IsTally(t)
  BY DEF Countable, IsTally, Told, Counted
<1> HIDE DEF t
<1>3. Countable(Bump(p, counter)) /\ Bump(p, counter).statistics = t
  BY <1>1, <1>2, ProblemFields DEF Countable
<1> QED
  BY <1>3 DEF t

LEMMA RecordedCounts ==
    ASSUME NEW p, Countable(p), NEW n \in Int
    PROVE  Countable(Recorded(p, n))
<1> DEFINE t == [p.statistics EXCEPT !.histogram = @ + n]
<1>1. Recorded(p, n) = [p EXCEPT !.statistics = t]
  BY DEF Recorded
<1>2. IsTally(t)
  BY DEF Countable, IsTally, Told, Counted
<1> HIDE DEF t
<1> QED
  BY <1>1, <1>2, ProblemFields DEF Countable

LEMMA OffsetCounts ==
    ASSUME NEW p, Countable(p), NEW cost
    PROVE  Countable([p EXCEPT !.objective_offset = cost])
  BY ProblemFields DEF Countable

LEMMA EdgesCount ==
    ASSUME NEW p, Countable(p), NEW edges, AreEdges(edges), NEW n
    PROVE  Countable([p EXCEPT !.edges = edges, !.edge_count = n])
           /\ [p EXCEPT !.edges = edges, !.edge_count = n].statistics = p.statistics
  BY ProblemFields DEF Countable

LEMMA NodesCount ==
    ASSUME NEW p, Countable(p), NEW nodes, AreNodes(nodes)
    PROVE  Countable([p EXCEPT !.nodes = nodes])
           /\ [p EXCEPT !.nodes = nodes].statistics = p.statistics
  BY ProblemFields DEF Countable

LEMMA NodeChanged ==
    ASSUME NEW nodes, AreNodes(nodes), NEW m,
           NEW g, m \in NodeIds => DOMAIN g = DOMAIN NoNode /\ g.domain = nodes[m].domain
    PROVE  AreNodes([nodes EXCEPT ![m] = g])
  BY DEF AreNodes

LEMMA NodeFields ==
    DOMAIN NoNode = {"active", "domain", "unary", "kind", "first", "second", "choice"}
  BY DEF NoNode

LEMMA EdgeFields == DOMAIN NoEdge = {"active", "first", "second", "cost"}
  BY DEF NoEdge

LEMMA AddToUnaryCounts ==
    ASSUME NEW p, Countable(p), NEW m, NEW added
    PROVE  Countable(AddToUnary(p, m, added))
<1> DEFINE unary == [v \in Values |-> IF v < p.nodes[m].domain
                                    THEN CostAdd(p.nodes[m].unary[v], added[v])
                                    ELSE p.nodes[m].unary[v]]
           g == [p.nodes[m] EXCEPT !.unary = unary]
           nodes == [p.nodes EXCEPT ![m] = g]
<1>1. AddToUnary(p, m, added) = [p EXCEPT !.nodes = nodes]
  BY DEF AddToUnary
<1> HIDE DEF unary
<1>2. m \in NodeIds => DOMAIN g = DOMAIN NoNode /\ g.domain = p.nodes[m].domain
  BY NodeFields DEF Countable, AreNodes
<1> HIDE DEF g
<1>3. AreNodes(nodes)
  BY <1>2, NodeChanged DEF Countable
<1> HIDE DEF nodes
<1> QED
  BY <1>1, <1>3, NodesCount

LEMMA EliminateCounts ==
    ASSUME NEW p, Countable(p), NEW node, NEW kind, NEW first, NEW second, NEW choice
    PROVE  LET q == Eliminate(p, node, kind, first, second, choice)
           IN  Countable(q) /\ q.statistics = p.statistics
<1> DEFINE g == [p.nodes[node] EXCEPT !.active = FALSE, !.kind = kind, !.first = first,
                                      !.second = second, !.choice = choice]
           nodes == [p.nodes EXCEPT ![node] = g]
           order == Append(p.elimination_order, node)
<1>1. Eliminate(p, node, kind, first, second, choice)
      = [p EXCEPT !.nodes = nodes, !.elimination_order = order]
  BY DEF Eliminate
<1>2. node \in NodeIds => DOMAIN g = DOMAIN NoNode /\ g.domain = p.nodes[node].domain
  BY NodeFields DEF Countable, AreNodes
<1> HIDE DEF g
<1>3. AreNodes(nodes)
  BY <1>2, NodeChanged DEF Countable
<1> HIDE DEF nodes, order
<1> QED
  BY <1>1, <1>3, ProblemFields DEF Countable

LEMMA DeactivateCounts ==
    ASSUME NEW p, Countable(p), NEW S
    PROVE  Countable(Deactivate(p, S)) /\ Deactivate(p, S).statistics = p.statistics
<1> DEFINE edges == [e \in Slots |-> IF e \in S THEN [p.edges[e] EXCEPT !.active = FALSE]
                                   ELSE p.edges[e]]
           n == p.edge_count - Cardinality(S)
<1>1. Deactivate(p, S) = [p EXCEPT !.edges = edges, !.edge_count = n]
  BY DEF Deactivate
<1>2. AreEdges(edges)
  BY EdgeFields DEF Countable, AreEdges
<1> HIDE DEF edges, n
<1>3. LET q == [p EXCEPT !.edges = edges, !.edge_count = n]
      IN  Countable(q) /\ q.statistics = p.statistics
  BY <1>2, EdgesCount, Zenon
<1> QED
  BY <1>1, <1>3

LEMMA AddFillEdgeCounts ==
    ASSUME NEW p, Countable(p), NEW m \in NodeIds, NEW k \in NodeIds
    PROVE  Countable(AddFillEdge(p, m, k))
<1> DEFINE slot == Least(FreeSlots(p))
           g == [active |-> TRUE, first |-> m, second |-> k,
                 cost |-> [v \in Values |-> Zeroes]]
           edges == [p.edges EXCEPT ![slot] = g]
           n == p.edge_count + 1
<1>1. AddFillEdge(p, m, k) = [p EXCEPT !.edges = edges, !.edge_count = n]
  BY ProblemFields DEF AddFillEdge, Countable
<1>2. AreEdges(edges)
  <2> HIDE DEF slot
  <2> QED
    BY EdgeFields DEF Countable, AreEdges
<1> HIDE DEF edges, n
<1>3. LET q == [p EXCEPT !.edges = edges, !.edge_count = n]
      IN  Countable(q) /\ q.statistics = p.statistics
  BY <1>2, EdgesCount, Zenon
<1> QED
  BY <1>1, <1>3

LEMMA AddToEdgeCounts ==
    ASSUME NEW p, Countable(p), NEW e, NEW m, NEW k, NEW job
    PROVE  Countable(AddToEdge(p, e, m, k, job))
<1>1. AreEdges(AddToEdge(p, e, m, k, job).edges)
  BY ProblemFields, EdgeFields DEF AddToEdge, Countable, AreEdges
<1>2. LET q == AddToEdge(p, e, m, k, job)
      IN  DOMAIN q = DOMAIN p /\ q.statistics = p.statistics /\ q.nodes = p.nodes
  BY ProblemFields DEF AddToEdge, Countable
<1> QED
  BY <1>1, <1>2 DEF Countable

LEMMA Neighbour ==
    ASSUME NEW p, Countable(p), NEW e \in Slots, NEW node
    PROVE  OtherNode(p.edges[e], node) \in NodeIds
           /\ p.nodes[OtherNode(p.edges[e], node)].domain \in Nat
  BY DEF Countable, AreEdges, AreNodes, OtherNode

(* A reduction leaves countable counters and fails with no status that a   *)
(* call returns between its levels.                                        *)
Failures == {"CAPACITY_ERROR", "KERNEL_ERROR", "ARGUMENT_ERROR"}

Counts(done) == Countable(done.problem) /\ done.status \in Failures \cup {"OK"}

LEMMA ReturnsCounts ==
    ASSUME NEW q, Countable(q), NEW status \in Failures \cup {"OK"}
    PROVE  Counts(Returns(status, q))
  BY DEF Returns, Counts

LEMMA R0Counts == ASSUME NEW p, Countable(p), NEW node PROVE Counts(ReduceR0(p, node))
<1> DEFINE best == FirstMin(p.nodes[node].unary, p.nodes[node].domain)
           cost == CostAdd(Bump(p, "r0").objective_offset, p.nodes[node].unary[best])
           q == [Bump(p, "r0") EXCEPT !.objective_offset = cost]
           r == Eliminate(q, node, "R0", -1, -1, <<best>>)
<1>1. ReduceR0(p, node) = Returns("OK", r)
  BY DEF ReduceR0
<1>2. Countable(Bump(p, "r0"))
  BY BumpCounts DEF Counted
<1> HIDE DEF cost
<1>3. Countable(q)
  BY <1>2, OffsetCounts
<1> HIDE DEF q, best
<1>4. Countable(r)
  BY <1>3, EliminateCounts
<1> HIDE DEF r
<1> QED
  BY <1>1, <1>4, ReturnsCounts

LEMMA R1Counts ==
    ASSUME NEW p, Countable(p), NEW node, NEW e \in Slots, NEW fault
    PROVE  Counts(ReduceR1(p, node, e, fault))
<1> DEFINE m == OtherNode(p.edges[e], node)
           jobs == 0 .. p.nodes[m].domain - 1
           job == [v \in jobs |-> Min2(p.nodes[node].unary, EdgeView(p.edges[e], node, v),
                                      p.nodes[node].domain)]
           tried == Recorded(p, p.nodes[m].domain)
           added == [v \in Values |-> IF v \in jobs THEN job[v].value ELSE 0]
           folded == AddToUnary(tried, m, added)
           bumped == Bump(folded, "r1")
           cut == Deactivate(bumped, {e})
           choice == [i \in 1 .. p.nodes[m].domain |-> job[i - 1].index]
           r == Eliminate(cut, node, "R1", m, -1, choice)
<1>1. \/ ReduceR1(p, node, e, fault) = Returns("CAPACITY_ERROR", p)
      \/ ReduceR1(p, node, e, fault) = Returns("KERNEL_ERROR", tried)
      \/ ReduceR1(p, node, e, fault) = Returns("OK", r)
  BY Zenon DEF ReduceR1
<1>2. Countable(tried)
  BY Neighbour, RecordedCounts
<1> HIDE DEF tried, added, choice
<1>3. Countable(folded)
  BY <1>2, AddToUnaryCounts
<1> HIDE DEF folded
<1>4. Countable(bumped)
  BY <1>3, BumpCounts DEF Counted
<1> HIDE DEF bumped
<1>5. Countable(cut)
  BY <1>4, DeactivateCounts
<1> HIDE DEF cut
<1>6. Countable(r)
  BY <1>5, EliminateCounts
<1> HIDE DEF r
<1> QED
  BY <1>1, <1>2, <1>6, ReturnsCounts DEF Failures

LEMMA R2Counts ==
    ASSUME NEW p, Countable(p), NEW node, NEW e \in Slots, NEW f \in Slots,
           NEW vector, NEW fault
    PROVE  Counts(ReduceR2(p, node, e, f, vector, fault))
<1> DEFINE m == OtherNode(p.edges[e], node)
           k == OtherNode(p.edges[f], node)
           dm == p.nodes[m].domain
           dk == p.nodes[k].domain
           found == FindEdge(p, m, k)
           q == IF found # {} THEN p ELSE AddFillEdge(p, m, k)
           fill == Least(IF found # {} THEN found ELSE FreeSlots(p))
           job == [v \in 0 .. dm - 1 |-> [w \in 0 .. dk - 1 |->
                     Min3(p.nodes[node].unary, EdgeView(p.edges[e], node, v),
                          EdgeView(p.edges[f], node, w), p.nodes[node].domain)]]
           primitives == IF vector THEN dm ELSE dm * dk
           tried == Recorded(q, primitives)
           joined == AddToEdge(tried, fill, m, k, job)
           bumped == Bump(joined, "r2")
           cut == Deactivate(bumped, {e, f})
           choice == [i \in 1 .. dm * dk |-> job[(i - 1) \div dk][(i - 1) % dk].index]
           r == Eliminate(cut, node, "R2", m, k, choice)
<1>1. \/ ReduceR2(p, node, e, f, vector, fault) = Returns("CAPACITY_ERROR", p)
      \/ ReduceR2(p, node, e, f, vector, fault) = Returns("CAPACITY_ERROR", q)
      \/ ReduceR2(p, node, e, f, vector, fault) = Returns("KERNEL_ERROR", tried)
      \/ ReduceR2(p, node, e, f, vector, fault) = Returns("OK", r)
  BY Zenon DEF ReduceR2
<1>2. m \in NodeIds /\ k \in NodeIds /\ dm \in Nat /\ dk \in Nat
  BY Neighbour
<1>3. Countable(q)
  BY <1>2, AddFillEdgeCounts
<1>4. primitives \in Int
  <2> HIDE DEF dm, dk
  <2>1. dm * dk \in Int
    BY <1>2
  <2> QED
    BY <1>2, <2>1
<1> HIDE DEF q, primitives, job, fill
<1>5. Countable(tried)
  BY <1>3, <1>4, RecordedCounts
<1> HIDE DEF tried
<1>6. Countable(joined)
  BY <1>5, AddToEdgeCounts
<1> HIDE DEF joined
<1>7. Countable(bumped)
  BY <1>6, BumpCounts DEF Counted
<1> HIDE DEF bumped, choice
<1>8. Countable(cut)
  BY <1>7, DeactivateCounts
<1> HIDE DEF cut
<1>9. Countable(r)
  BY <1>8, EliminateCounts
<1> HIDE DEF r
<1> QED
  BY <1>1, <1>3, <1>5, <1>9, ReturnsCounts DEF Failures

(* A reducible node has at most two edges, the least and the greatest.     *)
LEMMA LeastGreatest ==
    ASSUME NEW S, S \subseteq Nat, IsFiniteSet(S), Cardinality(S) \in {1, 2}
    PROVE  Least(S) \in S /\ Greatest(S) \in S
<1>1. PICK a : a \in S
  BY FS_EmptySet
<1>2. IsFiniteSet(S \ {a}) /\ Cardinality(S \ {a}) = Cardinality(S) - 1
  BY <1>1, FS_RemoveElement
<1>3. \E b \in S : S = {a, b}
  <2>1. CASE Cardinality(S) = 1
    <3>1. S \ {a} = {}
      BY <1>2, <2>1, FS_EmptySet
    <3> QED
      BY <1>1, <3>1
  <2>2. CASE Cardinality(S) = 2
    <3>0. IsFiniteSet(S \ {a}) /\ Cardinality(S \ {a}) = 1
      BY <1>2, <2>2
    <3>1. PICK b : S \ {a} = {b}
      BY <3>0, FS_Singleton
    <3> QED
      BY <1>1, <3>1
  <2> QED
    BY <2>1, <2>2
<1>4. PICK b \in S : S = {a, b}
  BY <1>3
<1>5. a \in Nat /\ b \in Nat
  BY <1>1, <1>4
<1>6. \E x \in S : \A j \in S : x <= j
  BY <1>4, <1>5
<1>7. \E x \in S : \A j \in S : x >= j
  BY <1>4, <1>5
<1> QED
  BY <1>6, <1>7 DEF Least, Greatest

LEMMA ReduceCounts ==
    ASSUME NEW p, Countable(p), NEW node \in Reducible(p), NEW vector, NEW fault
    PROVE  Counts(ReduceNode(p, node, vector, fault))
<1> DEFINE E == EdgesOf(p, node)
           least1 == Least(E)
           great == Greatest(E)
           r1 == [e \in E |-> ReduceR1(p, node, e, fault)]
           r2 == [e \in E |-> [f \in E |-> ReduceR2(p, node, e, f, vector, fault)]]
<1>1. E \subseteq Slots /\ E \subseteq Nat /\ IsFiniteSet(E)
  <2>1. E \subseteq Slots
    BY DEF EdgesOf
  <2>2. Slots \subseteq Nat /\ IsFiniteSet(Slots)
    BY CapacityAssumption, FS_Interval DEF Slots
  <2> QED
    BY <2>1, <2>2, FS_Subset
<1>2. Cardinality(E) \in Nat /\ Cardinality(E) <= 2
  BY <1>1, FS_CardinalityType DEF Reducible, NeighborCount
<1>3. ReduceNode(p, node, vector, fault)
      = CASE E = {} -> ReduceR0(p, node)
          [] Cardinality(E) = 1 -> r1[least1]
          [] OTHER -> r2[least1][great]
  BY DEF ReduceNode
<1> HIDE DEF E
<1>4. CASE E = {}
  <2>1. Cardinality(E) # 1
    BY <1>4, FS_EmptySet
  <2>2. ReduceNode(p, node, vector, fault) = ReduceR0(p, node)
    BY <1>3, <1>4, <2>1
  <2> QED
    BY <2>2, R0Counts
<1>5. CASE E # {}
  <2>1. Cardinality(E) \in {1, 2}
    BY <1>1, <1>2, <1>5, FS_EmptySet
  <2>2. least1 \in E /\ great \in E
    BY <1>1, <2>1, LeastGreatest
  <2> HIDE DEF least1, great
  <2>3. \/ ReduceNode(p, node, vector, fault) = ReduceR1(p, node, least1, fault)
        \/ ReduceNode(p, node, vector, fault) = ReduceR2(p, node, least1, great, vector, fault)
    BY <1>3, <1>5, <2>2
  <2> QED
    BY <1>1, <2>2, <2>3, R1Counts, R2Counts
<1> QED
  BY <1>4, <1>5

LEMMA ConditionCounts ==
    ASSUME NEW p, Countable(p), NEW node, NEW choice, NEW kind
    PROVE  LET done == ConditionNode(p, node, choice, kind)
           IN  /\ Counts(done)
               /\ done.status = "OK" =>
                      done.problem.statistics = [p.statistics EXCEPT !.conditions = @ + 1]
<1> DEFINE bumped == Bump(p, "conditions")
           cut == Deactivate(bumped, EdgesOf(p, node))
           charged(m) == Charged(p, node, choice, m)
           nodes == [m \in NodeIds |-> IF m # node THEN [cut.nodes[m] EXCEPT !.unary = charged(m)]
                                      ELSE cut.nodes[m]]
           cost == CostAdd(cut.objective_offset, p.nodes[node].unary[choice])
           q == [cut EXCEPT !.nodes = nodes, !.objective_offset = cost]
           r == Eliminate(q, node, kind, -1, -1, <<choice>>)
<1>1. \/ ConditionNode(p, node, choice, kind) = Returns("ARGUMENT_ERROR", p)
      \/ ConditionNode(p, node, choice, kind) = Returns("OK", r)
  <2>1. CASE ~p.nodes[node].active \/ choice >= p.nodes[node].domain
    BY <2>1 DEF ConditionNode
  <2>2. CASE ~(~p.nodes[node].active \/ choice >= p.nodes[node].domain)
    BY <2>2 DEF ConditionNode
  <2> QED
    BY <2>1, <2>2
<1>2. Countable(bumped) /\ bumped.statistics = [p.statistics EXCEPT !.conditions = @ + 1]
  BY BumpCounts DEF Counted
<1> HIDE DEF bumped
<1>3. Countable(cut) /\ cut.statistics = bumped.statistics
  BY <1>2, DeactivateCounts
<1> HIDE DEF cut, charged
<1>4. AreNodes(nodes)
  BY <1>3, NodeFields DEF Countable, AreNodes
<1> HIDE DEF nodes, cost
<1>5. Countable(q) /\ q.statistics = cut.statistics
  BY <1>3, <1>4, ProblemFields DEF Countable
<1> HIDE DEF q
<1>6. Countable(r) /\ r.statistics = q.statistics
  BY <1>5, EliminateCounts
<1> HIDE DEF r
<1>7. Counts(Returns("ARGUMENT_ERROR", p)) /\ Counts(Returns("OK", r))
  BY <1>6, ReturnsCounts DEF Failures
<1>8. /\ Returns("ARGUMENT_ERROR", p).status # "OK"
      /\ Returns("OK", r).problem = r
  BY DEF Returns
<1> QED
  BY <1>1, <1>2, <1>3, <1>5, <1>6, <1>7, <1>8

(* The sum over the stack.  Of the n calls, all but the last have a child; *)
(* here is what the last one has counted.                                  *)
AddsUp(fs, n, c, total, here) ==
    \E before :
        /\ before[1] = 0
        /\ \A i \in 1 .. n : before[i] \in Int
        /\ \A i \in 1 .. n - 1 :
               before[i + 1] = before[i] + (fs[i].aggregate[c] - fs[i].base[c])
        /\ total = before[n] + here

LEMMA AddsUpHere ==
    ASSUME NEW fs, NEW gs, NEW n \in Nat \ {0}, SameBelow(fs, gs, n - 1), NEW c,
           NEW total \in Int, NEW here \in Int, AddsUp(fs, n, c, total, here),
           NEW more \in Int, NEW now \in Int, more - total = now - here
    PROVE  AddsUp(gs, n, c, more, now)
<1>1. PICK before :
        /\ before[1] = 0
        /\ \A i \in 1 .. n : before[i] \in Int
        /\ \A i \in 1 .. n - 1 :
               before[i + 1] = before[i] + (fs[i].aggregate[c] - fs[i].base[c])
        /\ total = before[n] + here
  BY DEF AddsUp
<1>2. more = before[n] + now
  <2>1. before[n] \in Int
    BY <1>1
  <2> QED
    BY <1>1, <2>1
<1>3. \A i \in 1 .. n - 1 :
         before[i + 1] = before[i] + (gs[i].aggregate[c] - gs[i].base[c])
  BY <1>1 DEF SameBelow
<1> QED
  BY <1>1, <1>2, <1>3 DEF AddsUp

LEMMA AddsUpCall ==
    ASSUME NEW fs, NEW gs, NEW n \in Nat \ {0}, SameBelow(fs, gs, n - 1), NEW c,
           NEW total \in Int, NEW base \in Int, NEW aggregate \in Int,
           AddsUp(fs, n, c, total, aggregate),
           gs[n].aggregate[c] = aggregate, gs[n].base[c] = base,
           NEW more \in Int, NEW now \in Int, more - total = now - base
    PROVE  AddsUp(gs, n + 1, c, more, now)
<1>1. PICK before :
        /\ before[1] = 0
        /\ \A i \in 1 .. n : before[i] \in Int
        /\ \A i \in 1 .. n - 1 :
               before[i + 1] = before[i] + (fs[i].aggregate[c] - fs[i].base[c])
        /\ total = before[n] + aggregate
  BY DEF AddsUp
<1> DEFINE next == [i \in 1 .. n + 1 |-> IF i = n + 1 THEN before[n] + (aggregate - base)
                                        ELSE before[i]]
<1>2. before[n] \in Int
  BY <1>1
<1>3. next[1] = 0 /\ \A i \in 1 .. n + 1 : next[i] \in Int
  BY <1>1, <1>2
<1>4. ASSUME NEW i \in 1 .. n
      PROVE  next[i + 1] = next[i] + (gs[i].aggregate[c] - gs[i].base[c])
  <2>1. CASE i = n
    BY <2>1
  <2>2. CASE i # n
    <3>1. i \in 1 .. n - 1
      BY <2>2
    <3>2. next[i] = before[i] /\ next[i + 1] = before[i + 1]
      BY <3>1
    <3>3. gs[i] = fs[i]
      BY <3>1 DEF SameBelow
    <3> QED
      BY <1>1, <3>1, <3>2, <3>3
  <2> QED
    BY <2>1, <2>2
<1>5. more = next[n + 1] + now
  <2>1. next[n + 1] = before[n] + (aggregate - base)
    OBVIOUS
  <2> HIDE DEF next
  <2> QED
    BY <1>1, <1>2, <2>1
<1> HIDE DEF next
<1>6. \A i \in 1 .. (n + 1) - 1 :
         next[i + 1] = next[i] + (gs[i].aggregate[c] - gs[i].base[c])
  BY <1>4
<1> QED
  BY <1>3, <1>5, <1>6 DEF AddsUp

LEMMA AddsUpReturn ==
    ASSUME NEW fs, NEW gs, NEW n \in Nat, n > 1, SameBelow(fs, gs, n - 1), NEW c,
           NEW total \in Int, NEW here \in Int, AddsUp(fs, n, c, total, here),
           NEW base \in Int, NEW aggregate \in Int,
           gs[n - 1].aggregate[c] = aggregate, gs[n - 1].base[c] = base
    PROVE  AddsUp(gs, n - 1, c, total, (aggregate - base) + here)
<1>1. PICK before :
        /\ before[1] = 0
        /\ \A i \in 1 .. n : before[i] \in Int
        /\ \A i \in 1 .. n - 1 :
               before[i + 1] = before[i] + (fs[i].aggregate[c] - fs[i].base[c])
        /\ total = before[n] + here
  BY DEF AddsUp
<1>2. n - 1 \in 1 .. n - 1 /\ (n - 1) + 1 = n
  OBVIOUS
<1>3. gs[n - 1] = fs[n - 1] /\ before[n - 1] \in Int
  BY <1>1, <1>2 DEF SameBelow
<1>4. before[n] = before[n - 1] + (aggregate - base)
  BY <1>1, <1>2, <1>3
<1>5. total = before[n - 1] + ((aggregate - base) + here)
  BY <1>1, <1>3, <1>4
<1>6. \A i \in 1 .. (n - 1) - 1 :
         before[i + 1] = before[i] + (gs[i].aggregate[c] - gs[i].base[c])
  BY <1>1 DEF SameBelow
<1>7. \A i \in 1 .. n - 1 : before[i] \in Int
  BY <1>1
<1> QED
  BY <1>1, <1>5, <1>6, <1>7 DEF AddsUp

LEMMA AddsUpAlone ==
    ASSUME NEW fs, NEW c, NEW total, NEW here \in Int, AddsUp(fs, 1, c, total, here)
    PROVE  total = here
  BY DEF AddsUp

IsFrame(f) == Countable(f.problem) /\ IsTally(f.base) /\ IsTally(f.aggregate)

TallyType == /\ \A i \in 1 .. top : IsFrame(frames[i])
             /\ IsTally(reply.statistics) /\ IsTally(work)

(* No call has failed.                                                     *)
Kept == {"OK", "PRUNED"}
Running == \/ phase \in {"solve", "enter", "reduce", "values"}
           \/ phase = "resume" /\ reply.status \in Kept

(* What the top call has counted, its child included that has returned.    *)
Here(c) == IF phase = "values" THEN frame.aggregate[c]
           ELSE IF phase = "resume"
           THEN (frame.aggregate[c] - frame.base[c]) + reply.statistics[c]
           ELSE state.statistics[c]

(* The histogram that the copies share, in the call that ran last.         *)
Shared == IF phase = "resume" THEN reply.statistics.histogram ELSE state.statistics.histogram

Tallied ==
    /\ Running => /\ \A c \in Counted : AddsUp(frames, top, c, work[c], Here(c))
                  /\ work.histogram = Shared
    /\ phase = "returned" /\ reply.status \in Kept =>
           \A c \in Told : frames[1].problem.statistics[c] = work[c]
    /\ phase \in {"solve", "reduce"} => target = top

TallyInv == TallyType /\ Tallied

LEMMA HereInt ==
    ASSUME IsStack, TallyType
    PROVE  \A c \in Counted : Here(c) \in Int /\ work[c] \in Int
                             /\ frame.base[c] \in Int /\ frame.aggregate[c] \in Int
<1>1. IsFrame(frame)
  BY StackTop DEF TallyType, frame
<1>2. SUFFICES ASSUME NEW c \in Counted
               PROVE  /\ Here(c) \in Int /\ work[c] \in Int
                      /\ frame.base[c] \in Int /\ frame.aggregate[c] \in Int
  OBVIOUS
<1>3. c \in Told
  BY DEF Told
<1>4. /\ frame.base[c] \in Int /\ frame.aggregate[c] \in Int /\ reply.statistics[c] \in Int
      /\ state.statistics[c] \in Int /\ work[c] \in Int
  BY <1>1, <1>3 DEF IsFrame, IsTally, Countable, TallyType, state
<1> QED
  BY <1>4 DEF Here

(* A step of the top call that counts in work what it counts itself.       *)
LEMMA TallyTop ==
    ASSUME IsStack, TallyInv, Running, IsStack',
           top' = top, SameBelow(frames, frames', top - 1), IsFrame(frame'),
           IsTally(reply'.statistics), IsTally(work'),
           phase' \in {"solve", "enter", "reduce", "values"},
           \A c \in Counted : work'[c] - work[c] = Here(c)' - Here(c),
           work'.histogram = Shared',
           phase' \in {"solve", "reduce"} => target' = top
    PROVE  TallyInv'
<1>1. top \in Nat \ {0} /\ \A i \in 1 .. top : i \in 1 .. top - 1 \/ i = top
  BY StackTop
<1>2. TallyType'
  <2>1. \A i \in 1 .. top - 1 : IsFrame(frames'[i])
    <3>1. \A i \in 1 .. top - 1 : i \in 1 .. top
      BY <1>1
    <3> QED
      BY <3>1 DEF TallyInv, TallyType, SameBelow
  <2>2. IsFrame(frames'[top])
    BY DEF frame
  <2>3. \A i \in 1 .. top' : IsFrame(frames'[i])
    BY <1>1, <2>1, <2>2
  <2> QED
    BY <2>3 DEF TallyType
<1>3. ASSUME NEW c \in Counted PROVE AddsUp(frames', top', c, work'[c], Here(c)')
  <2>1. Here(c) \in Int /\ work[c] \in Int
    BY HereInt DEF TallyInv
  <2>2. Here(c)' \in Int /\ work'[c] \in Int
    <3>1. IsTally(frame'.aggregate) /\ IsTally(state'.statistics)
      BY DEF IsFrame, Countable, state
    <3>2. c \in Told
      BY DEF Told
    <3>3. Here(c)' = frame'.aggregate[c] \/ Here(c)' = state'.statistics[c]
      BY DEF Here
    <3> QED
      BY <3>1, <3>2, <3>3 DEF IsTally
  <2>3. AddsUp(frames, top, c, work[c], Here(c))
    BY DEF TallyInv, Tallied
  <2>4. work'[c] - work[c] = Here(c)' - Here(c)
    OBVIOUS
  <2> DEFINE more == work'[c]
             now == Here(c)'
             total == work[c]
             here == Here(c)
  <2>5. more \in Int /\ now \in Int /\ total \in Int /\ here \in Int /\ more - total = now - here
    BY <2>1, <2>2, <2>4
  <2> HIDE DEF more, now, total, here
  <2>6. AddsUp(frames', top, c, more, now)
    <3>1. AddsUp(frames, top, c, total, here)
      BY <2>3 DEF total, here
    <3> QED
      BY <1>1, <2>5, <3>1, AddsUpHere
  <2> QED
    BY <2>6 DEF more, now
<1>4. Tallied'
  BY <1>3 DEF Tallied
<1> QED
  BY <1>2, <1>4 DEF TallyInv

(* A return hands the caller what the call has counted, or a failure.      *)
LEMMA TallyReturn ==
    ASSUME IsStack, TallyInv, IsStack', NEW status, NEW best, NEW p, Return(status, best, p),
           Countable(p), IsTally(work'),
           status \in Kept =>
               /\ Running /\ UNCHANGED work
               /\ \A c \in Counted : p.statistics[c] = Here(c)
               /\ p.statistics.histogram = Shared
    PROVE  TallyInv'
<1>1. top \in Nat /\ top >= 1 /\ top \in 1 .. top
  BY StackTop
<1>2. reply' = [status |-> status, best |-> best, statistics |-> p.statistics]
  BY DEF Return
<1>3. IsTally(reply'.statistics) /\ reply'.status = status /\ reply'.statistics = p.statistics
  BY <1>2 DEF Countable
<1>4. CASE top = 1
  <2>1. phase' = "returned" /\ frames' = <<[frame EXCEPT !.problem = p]>>
    BY <1>4 DEF Return
  <2>2. DOMAIN frame = FrameFields /\ IsFrame(frame)
    BY <1>1 DEF IsStack, frame, TallyInv, TallyType
  <2>3. top' = 1 /\ frames'[1].problem = p /\ IsFrame(frames'[1])
    BY <2>1, <2>2 DEF top, FrameFields, IsFrame
  <2>4. TallyType'
    BY <1>3, <2>3 DEF TallyType
  <2>5. ASSUME status \in Kept, NEW c \in Told PROVE p.statistics[c] = work'[c]
    <3>1. CASE c \in Counted
      <4>1. AddsUp(frames, 1, c, work[c], Here(c)) /\ Here(c) \in Int
        BY <1>4, <2>5, <3>1, HereInt DEF TallyInv, Tallied
      <4> QED
        BY <2>5, <3>1, <4>1, AddsUpAlone
    <3>2. CASE c = "histogram"
      BY <2>5, <3>2 DEF TallyInv, Tallied
    <3> QED
      BY <3>1, <3>2 DEF Told
  <2>6. Tallied'
    BY <1>3, <2>1, <2>3, <2>5 DEF Tallied, Running
  <2> QED
    BY <2>4, <2>6 DEF TallyInv
<1>5. CASE top # 1
  <2>1. phase' = "resume" /\ frames' = SubSeq(frames, 1, top - 1)
    BY <1>5 DEF Return
  <2>2. top' = top - 1 /\ SameBelow(frames, frames', top - 1) /\ top - 1 \in 1 .. top
    BY <1>5, <2>1, FramePopped DEF top
  <2>3. \A i \in 1 .. top' : IsFrame(frames'[i])
    BY <1>1, <2>2 DEF TallyInv, TallyType, SameBelow
  <2>4. TallyType'
    BY <1>3, <2>3 DEF TallyType
  <2>5. ASSUME status \in Kept, NEW c \in Counted
        PROVE  AddsUp(frames', top', c, work'[c], Here(c)')
    <3> DEFINE base == frame'.base[c]
               aggregate == frame'.aggregate[c]
               total == work[c]
               here == Here(c)
    <3>1. base \in Int /\ aggregate \in Int /\ total \in Int /\ here \in Int
      <4>1. \A d \in Counted : frame'.base[d] \in Int /\ frame'.aggregate[d] \in Int
        <5>1. IsFrame(frame')
          BY <1>1, <1>5, <2>2, <2>3 DEF frame
        <5> QED
          BY <5>1 DEF IsFrame, IsTally, Told
      <4> QED
        BY <4>1, HereInt DEF TallyInv
    <3>2. AddsUp(frames, top, c, total, here)
      BY <2>5 DEF TallyInv, Tallied
    <3>3. frames'[top - 1].aggregate[c] = aggregate /\ frames'[top - 1].base[c] = base
      BY <2>2 DEF frame
    <3>4. Here(c)' = (aggregate - base) + here /\ work'[c] = total
      BY <1>3, <2>1, <2>5 DEF Here
    <3> HIDE DEF base, aggregate, total, here
    <3>5. AddsUp(frames', top - 1, c, total, (aggregate - base) + here)
      BY <1>1, <1>5, <2>2, <3>1, <3>2, <3>3, AddsUpReturn
    <3> QED
      BY <2>2, <3>4, <3>5
  <2>6. status \in Kept => work'.histogram = Shared'
    BY <1>3, <2>1 DEF TallyInv, Tallied, Shared
  <2>7. Tallied'
    BY <1>3, <2>1, <2>5, <2>6 DEF Tallied, Running
  <2> QED
    BY <2>4, <2>7 DEF TallyInv
<1> QED
  BY <1>4, <1>5

(* A failing call hands on nothing but its failure.                        *)
LEMMA TallyFails ==
    ASSUME IsStack, TallyInv, IsStack', NEW status, status \notin Kept, NEW best, NEW p,
           Return(status, best, p), Countable(p), IsTally(work')
    PROVE  TallyInv'
  BY TallyReturn

LEMMA ReportedCounts ==
    ASSUME NEW p, Countable(p), NEW s
    PROVE  LET q == [p EXCEPT !.statistics = Reported(@, s)]
           IN  Countable(q) /\ \A c \in Told : q.statistics[c] = p.statistics[c]
<1> DEFINE t == Reported(p.statistics, s)
<1>1. DOMAIN t = DOMAIN p.statistics /\ \A c \in Told : t[c] = p.statistics[c]
  BY DEF Reported, Told, Counted
<1>2. IsTally(t)
  BY <1>1 DEF Countable, IsTally
<1> HIDE DEF t
<1>3. LET q == [p EXCEPT !.statistics = t]
      IN  Countable(q) /\ \A c \in Told : q.statistics[c] = p.statistics[c]
  BY <1>1, <1>2, ProblemFields DEF Countable
<1> QED
  BY <1>3 DEF t

LEMMA TallyHitLimit ==
    ASSUME IsStack, TallyInv, IsStack', HitLimit, UNCHANGED work
    PROVE  TallyInv'
<1>1. Countable(state) /\ IsTally(work')
  BY StackTop DEF TallyInv, TallyType, IsFrame, state, frame
<1> DEFINE s == [search EXCEPT !.limitHits = @ + 1]
<1>2. Return("SEARCH_LIMIT", NoBest, [state EXCEPT !.statistics = Reported(@, s)])
  BY DEF HitLimit, ReturnReported
<1> HIDE DEF s
<1>3. Countable([state EXCEPT !.statistics = Reported(@, s)])
  BY <1>1, ReportedCounts
<1>4. "SEARCH_LIMIT" \notin Kept
  BY DEF Kept
<1> QED
  BY <1>1, <1>2, <1>3, <1>4, TallyFails

LEMMA TallyStarts == Init => TallyInv
<1> SUFFICES ASSUME Init PROVE TallyInv
  OBVIOUS
<1>1. /\ frames = <<Frame(input, Inf)>> /\ phase = "solve" /\ work = NoStatistics /\ target = 1
      /\ reply.statistics = NoStatistics
  BY DEF Init
<1>2. AsBuilt(input)
  BY InputsAssumption DEF Init
<1>3. top = 1 /\ frame = Frame(input, Inf) /\ frames[1] = Frame(input, Inf)
  BY <1>1 DEF top, frame
<1>4. Countable(input) /\ input.statistics = NoStatistics
  BY <1>2, BuiltCountable DEF AsBuilt
<1>5. IsTally(NoStatistics) /\ \A c \in Told : NoStatistics[c] = 0
  BY DEF IsTally, NoStatistics, Told, Counted
<1>6. IsFrame(Frame(input, Inf)) /\ state = input
  BY <1>3, <1>4, <1>5 DEF IsFrame, Frame, state
<1>7. TallyType
  BY <1>1, <1>3, <1>5, <1>6 DEF TallyType
<1>8. \A c \in Counted : work[c] = 0 /\ Here(c) = 0
  BY <1>1, <1>4, <1>5, <1>6 DEF Here, Told
<1>9. ASSUME NEW c PROVE AddsUp(frames, 1, c, 0, 0)
  <2>1. /\ [i \in 1 .. 1 |-> 0][1] = 0 /\ \A i \in 1 .. 1 : [j \in 1 .. 1 |-> 0][i] \in Int
        /\ 0 = [i \in 1 .. 1 |-> 0][1] + 0 /\ 1 .. 1 - 1 = {}
    OBVIOUS
  <2> QED
    BY <2>1 DEF AddsUp
<1>10. work.histogram = Shared
  BY <1>1, <1>4, <1>6 DEF Shared
<1>11. Tallied
  BY <1>1, <1>3, <1>8, <1>9, <1>10 DEF Tallied
<1> QED
  BY <1>7, <1>11 DEF TallyInv

LEMMA TallyKept == HeldInv /\ HeldInv' /\ TallyInv /\ [Next]_vars => TallyInv'
<1> SUFFICES ASSUME HeldInv, HeldInv', TallyInv, [Next]_vars PROVE TallyInv'
  OBVIOUS
<1>1. IsStack /\ IsStack' /\ phase \in Phases
  BY DEF HeldInv, IsStack
<1>2. /\ top \in Nat /\ top >= 1 /\ top \in 1 .. top /\ DOMAIN frames = 1 .. top
      /\ DOMAIN frame = FrameFields /\ frame = frames[top]
  BY <1>1, StackTop DEF IsStack, frame
<1>3. /\ IsFrame(frame) /\ Countable(state) /\ IsTally(state.statistics)
      /\ IsTally(reply.statistics) /\ IsTally(work)
  BY <1>2 DEF TallyInv, TallyType, IsFrame, state, Countable
<1>4. "SEARCH_LIMIT" \notin Kept /\ \A s \in Failures : s \notin Kept
  BY DEF Kept, Failures
<1>5. ASSUME NEW fault \in {"none", "kernel"}, Reduce(fault) PROVE TallyInv'
  <2>1. /\ phase \in {"solve", "reduce"} /\ UNCHANGED target
    BY <1>5 DEF Reduce
  <2>2. PICK node, failure :
          LET done == ReduceNode(state, node, config.vector, failure)
          IN  /\ node \in Reducible(state)
              /\ work' = [c \in DOMAIN work |->
                             work[c] + done.problem.statistics[c] - state.statistics[c]]
              /\ IF done.status = "OK"
                 THEN /\ frames' = [frames EXCEPT ![top].problem = done.problem]
                      /\ UNCHANGED <<phase, workspace, reply>>
                 ELSE Return(done.status, NoBest, done.problem)
    BY <1>5 DEF Reduce
  <2> DEFINE done == ReduceNode(state, node, config.vector, failure)
             q == done.problem
  <2>3. Countable(q) /\ done.status \in Failures \cup {"OK"}
    BY <1>3, <2>2, ReduceCounts DEF Counts
  <2>4. /\ work' = [c \in DOMAIN work |-> work[c] + q.statistics[c] - state.statistics[c]]
        /\ done.status = "OK" => /\ frames' = [frames EXCEPT ![top].problem = q]
                                 /\ UNCHANGED <<phase, workspace, reply>>
        /\ done.status # "OK" => Return(done.status, NoBest, q)
    BY <2>2
  <2> HIDE DEF q, done
  <2>5. IsTally(work') /\ \A c \in Told : work'[c] = work[c] + q.statistics[c] - state.statistics[c]
    <3>1. DOMAIN work' = DOMAIN work
      BY <2>4
    <3>2. \A c \in Told : c \in DOMAIN work
      BY <1>3 DEF IsTally, NoStatistics, Told, Counted
    <3>3. \A c \in Told : work'[c] = work[c] + q.statistics[c] - state.statistics[c]
      BY <2>4, <3>2
    <3>4. \A c \in Told : work[c] \in Int /\ q.statistics[c] \in Int /\ state.statistics[c] \in Int
      BY <1>3, <2>3 DEF IsTally, Countable
    <3> QED
      BY <1>3, <3>1, <3>3, <3>4 DEF IsTally
  <2>6. CASE done.status # "OK"
    BY <1>1, <1>4, <2>3, <2>4, <2>5, <2>6, TallyFails
  <2>7. CASE done.status = "OK"
    <3> DEFINE g == [frame EXCEPT !.problem = q]
    <3>1. /\ frames' = [frames EXCEPT ![top] = g] /\ g.problem = q
          /\ g.base = frame.base /\ g.aggregate = frame.aggregate
      BY <1>2, <2>4, <2>7 DEF FrameFields
    <3> HIDE DEF g
    <3>2. top' = top /\ frames'[top] = g /\ SameBelow(frames, frames', top - 1)
      BY <1>1, <3>1, TopReplaced DEF top
    <3>3. frame' = g /\ state' = q /\ phase' = phase /\ reply' = reply
      BY <2>4, <2>7, <3>1, <3>2 DEF frame, state
    <3>4. IsFrame(frame')
      BY <1>3, <2>3, <3>1, <3>3 DEF IsFrame
    <3>5. \A c \in Counted : work'[c] - work[c] = Here(c)' - Here(c)
      <4>1. \A c \in Counted : Here(c)' = q.statistics[c] /\ Here(c) = state.statistics[c]
        BY <2>1, <3>3 DEF Here
      <4>2. \A c \in Told : /\ work[c] \in Int /\ q.statistics[c] \in Int
                            /\ state.statistics[c] \in Int
        BY <1>3, <2>3 DEF IsTally, Countable
      <4> QED
        BY <2>5, <4>1, <4>2 DEF Told
    <3>6. work'.histogram = Shared'
      <4>1. Shared' = q.statistics.histogram /\ work.histogram = state.statistics.histogram
        BY <2>1, <3>3 DEF TallyInv, Tallied, Running, Shared
      <4>2. q.statistics.histogram \in Int /\ state.statistics.histogram \in Int
        BY <1>3, <2>3 DEF IsTally, Countable, Told
      <4> QED
        BY <2>5, <4>1, <4>2 DEF Told
    <3>7. Running /\ (phase' \in {"solve", "reduce"} => target' = top)
      BY <2>1 DEF Running, TallyInv, Tallied
    <3> QED
      BY <1>1, <1>3, <2>1, <2>5, <3>2, <3>3, <3>4, <3>5, <3>6, <3>7, TallyTop
  <2> QED
    BY <2>6, <2>7
<1>6. CASE Solved
  <2>1. phase = "solve" /\ Return("OK", Solution(state), state) /\ UNCHANGED work
    BY <1>6 DEF Solved
  <2>2. Running /\ Shared = state.statistics.histogram
        /\ \A c \in Counted : state.statistics[c] = Here(c)
    BY <2>1 DEF Running, Here, Shared
  <2> QED
    BY <1>1, <1>3, <2>1, <2>2, TallyReturn
<1>7. CASE CallRoot
  <2>1. /\ phase = "solve" /\ phase' = "enter" /\ UNCHANGED <<frames, reply, work>>
    BY <1>7 DEF CallRoot
  <2> QED
    BY <2>1 DEF TallyInv, TallyType, Tallied, Running, Here, Shared, state, frame, top
<1>8. CASE Enter
  <2>1. /\ phase = "enter" /\ target' = top /\ UNCHANGED work
        /\ \/ HitLimit
           \/ phase' = "reduce" /\ UNCHANGED <<frames, reply>>
    BY <1>8 DEF Enter
  <2>2. CASE HitLimit
    BY <1>1, <2>1, <2>2, TallyHitLimit
  <2>3. CASE phase' = "reduce" /\ UNCHANGED <<frames, reply>>
    BY <2>1, <2>3 DEF TallyInv, TallyType, Tallied, Running, Here, Shared, state, frame, top
  <2> QED
    BY <2>1, <2>2, <2>3
<1>9. ASSUME NEW status, NEW best, NEW s, phase = "reduce", ReturnReported(status, best, s),
             UNCHANGED work
      PROVE  TallyInv'
  <2> DEFINE q == [state EXCEPT !.statistics = Reported(@, s)]
  <2>1. Return(status, best, q)
    BY <1>9 DEF ReturnReported
  <2>2. Countable(q) /\ \A c \in Told : q.statistics[c] = state.statistics[c]
    BY <1>3, ReportedCounts
  <2> HIDE DEF q
  <2>3. /\ Running /\ Shared = q.statistics.histogram
        /\ \A c \in Counted : q.statistics[c] = Here(c)
    BY <1>9, <2>2 DEF Running, Here, Shared, Told
  <2>4. IsTally(work')
    BY <1>3, <1>9
  <2> QED
    BY <1>1, <1>9, <2>1, <2>2, <2>3, <2>4, TallyReturn
<1>10. CASE Prune
  BY <1>9, <1>10 DEF Prune, Irreducible
<1>11. CASE Leaf
  BY <1>9, <1>11 DEF Leaf, Irreducible
<1>12. CASE Branch
  <2>1. phase = "reduce" /\ UNCHANGED <<work, target>>
    BY <1>12 DEF Branch, Irreducible
  <2>2. CASE ~Fits(workspace, AssignmentBytes)
    BY <1>1, <1>12, <2>1, <2>2, TallyHitLimit DEF Branch
  <2>3. CASE Fits(workspace, AssignmentBytes)
    <3> DEFINE array == Take(workspace, AssignmentBytes)
               node == SelectRnNode(state, config.policy)
               g == [frame EXCEPT !.node = node, !.blocks = <<array>>,
                                  !.base = state.statistics, !.aggregate = state.statistics]
    <3>1. /\ frames' = [frames EXCEPT ![top] = g]
          /\ phase' = "values" /\ UNCHANGED reply
      BY <1>2, <1>12, <2>3 DEF Branch
    <3> HIDE DEF array, node
    <3>2. /\ g.problem = state /\ g.base = state.statistics /\ g.aggregate = state.statistics
      BY <1>2 DEF FrameFields, state
    <3> HIDE DEF g
    <3>3. top' = top /\ frames'[top] = g /\ SameBelow(frames, frames', top - 1)
      BY <1>1, <3>1, TopReplaced DEF top
    <3>4. frame' = g /\ state' = state
      BY <3>2, <3>3 DEF frame, state
    <3>5. IsFrame(frame')
      BY <1>3, <3>2, <3>4 DEF IsFrame
    <3>6. \A c \in Counted : work'[c] - work[c] = Here(c)' - Here(c)
      <4>1. \A c \in Counted : Here(c)' = state.statistics[c] /\ Here(c) = state.statistics[c]
        BY <2>1, <3>1, <3>2, <3>4 DEF Here
      <4>2. \A c \in Told : work[c] \in Int /\ state.statistics[c] \in Int
        BY <1>3 DEF IsTally
      <4> QED
        BY <2>1, <4>1, <4>2 DEF Told
    <3>7. Running
      BY <2>1 DEF Running
    <3>8. work'.histogram = Shared'
      BY <2>1, <3>1, <3>4, <3>7 DEF TallyInv, Tallied, Shared
    <3>9. IsTally(reply'.statistics) /\ IsTally(work')
      BY <1>3, <2>1, <3>1
    <3> QED
      BY <1>1, <3>1, <3>3, <3>5, <3>6, <3>7, <3>8, <3>9, TallyTop
  <2> QED
    BY <2>2, <2>3
<1>13. CASE TryValue
  <2> DEFINE clone == Take(workspace, CloneBytes)
             candidate == Take(Ends(clone), AssignmentBytes)
             p == Child(frame)
             done == ConditionNode(p, frame.node, frame.value, "Branch")
             q == done.problem
  <2>1. phase = "values"
    BY <1>13 DEF TryValue
  <2>2. \/ HitLimit /\ UNCHANGED work
        \/ done.status # "OK" /\ Return(done.status, NoBest, state) /\ UNCHANGED work
        \/ /\ done.status = "OK"
           /\ \E known : frames' = Append([frames EXCEPT ![top].blocks =
                                                @ \o <<clone, candidate>>], Frame(q, known))
           /\ phase' = "enter" /\ UNCHANGED reply
           /\ work' = [work EXCEPT !.conditions = @ + 1]
    BY <1>13 DEF TryValue
  <2>3. /\ Countable(p) /\ p.statistics.histogram = state.statistics.histogram
        /\ \A c \in Counted : p.statistics[c] = frame.base[c]
    <3> DEFINE t == [frame.base EXCEPT !.histogram = state.statistics.histogram]
    <3>1. p = [state EXCEPT !.statistics = t]
      BY DEF Child, state
    <3>2. /\ IsTally(t) /\ t.histogram = state.statistics.histogram
          /\ \A c \in Counted : t[c] = frame.base[c]
      BY <1>3 DEF IsFrame, IsTally, NoStatistics, Told, Counted
    <3> HIDE DEF t
    <3>3. DOMAIN p = DOMAIN state /\ p.statistics = t /\ p.nodes = state.nodes
          /\ p.edges = state.edges
      BY <1>3, <3>1, ProblemFields DEF Countable
    <3> HIDE DEF p
    <3> QED
      BY <1>3, <3>2, <3>3 DEF Countable
  <2> HIDE DEF p
  <2>4. /\ Countable(q) /\ done.status \in Failures \cup {"OK"}
        /\ done.status = "OK" => q.statistics = [p.statistics EXCEPT !.conditions = @ + 1]
    BY <2>3, ConditionCounts DEF Counts
  <2> HIDE DEF q, done
  <2>5. CASE HitLimit /\ UNCHANGED work
    BY <1>1, <2>5, TallyHitLimit
  <2>6. CASE done.status # "OK" /\ Return(done.status, NoBest, state) /\ UNCHANGED work
    <3>1. done.status \notin Kept /\ IsTally(work')
      BY <1>3, <1>4, <2>4, <2>6
    <3> QED
      BY <1>1, <1>3, <2>6, <3>1, TallyFails
  <2>7. ASSUME done.status = "OK", NEW known,
               frames' = Append([frames EXCEPT ![top].blocks = @ \o <<clone, candidate>>],
                                Frame(q, known)),
               phase' = "enter", UNCHANGED reply, work' = [work EXCEPT !.conditions = @ + 1]
        PROVE  TallyInv'
    <3> DEFINE g == [frame EXCEPT !.blocks = @ \o <<clone, candidate>>]
               h == Frame(q, known)
    <3>1. /\ frames' = Append([frames EXCEPT ![top] = g], h)
          /\ g.problem = state /\ g.base = frame.base /\ g.aggregate = frame.aggregate
      BY <1>2, <2>7 DEF FrameFields, state
    <3>2. h.problem = q /\ h.base = q.statistics /\ h.aggregate = q.statistics
      BY DEF Frame
    <3> HIDE DEF g, h
    <3>3. /\ top' = top + 1 /\ frames'[top + 1] = h /\ frames'[top] = g
          /\ SameBelow(frames, frames', top - 1)
      BY <1>1, <3>1, FramePushed DEF top
    <3>4. IsFrame(g) /\ IsFrame(h)
      BY <1>3, <2>4, <3>1, <3>2 DEF IsFrame, Countable
    <3>5. IsTally(work')
      BY <1>3, <2>7 DEF IsTally, Told, Counted
    <3>6. TallyType'
      <4>1. \A i \in 1 .. top + 1 : (i \in 1 .. top - 1 /\ i \in 1 .. top) \/ i = top \/ i = top + 1
        BY <1>2
      <4>2. \A i \in 1 .. top' : IsFrame(frames'[i])
        BY <3>3, <3>4, <4>1 DEF TallyInv, TallyType, SameBelow
      <4> QED
        BY <1>3, <2>7, <3>5, <4>2 DEF TallyType
    <3>7. state' = q
      BY <3>2, <3>3 DEF state, frame
    <3>8. ASSUME NEW c \in Counted PROVE AddsUp(frames', top', c, work'[c], Here(c)')
      <4> DEFINE more == work'[c]
                 now == q.statistics[c]
                 total == work[c]
                 base == frame.base[c]
                 aggregate == frame.aggregate[c]
      <4>1. Here(c) = aggregate /\ Here(c)' = now
        BY <2>1, <2>7, <3>7 DEF Here
      <4>2. AddsUp(frames, top, c, total, aggregate)
        BY <2>1, <4>1 DEF TallyInv, Tallied, Running
      <4>3. /\ more \in Int /\ now \in Int /\ total \in Int /\ base \in Int
            /\ aggregate \in Int
        BY <1>3, <2>4, <3>5 DEF IsFrame, IsTally, Countable, Told
      <4>4. more - total = now - base
        <5>1. work.conditions \in Int /\ frame.base.conditions \in Int
              /\ p.statistics.conditions = frame.base.conditions
          BY <1>3, <2>3 DEF IsFrame, IsTally, Told, Counted
        <5>2. CASE c = "conditions"
          <6>1. work'[c] = work.conditions + 1 /\ work[c] = work.conditions
            BY <1>3, <2>7, <5>2 DEF IsTally, NoStatistics
          <6>2. q.statistics[c] = frame.base.conditions + 1 /\ frame.base[c] = frame.base.conditions
            BY <2>3, <2>4, <2>7, <5>1, <5>2 DEF Countable, IsTally, NoStatistics
          <6> QED
            BY <5>1, <6>1, <6>2
        <5>3. CASE c # "conditions"
          <6>1. work'[c] = work[c]
            BY <1>3, <2>7, <5>3 DEF IsTally, NoStatistics, Counted
          <6>2. q.statistics[c] = p.statistics[c] /\ p.statistics[c] = frame.base[c]
            BY <2>3, <2>4, <2>7, <5>3 DEF Countable, IsTally, NoStatistics, Counted
          <6>3. work[c] \in Int /\ frame.base[c] \in Int
            BY <4>3
          <6> QED
            BY <6>1, <6>2, <6>3
        <5> QED
          BY <5>2, <5>3
      <4>5. frames'[top].aggregate[c] = aggregate /\ frames'[top].base[c] = base
        BY <3>1, <3>3
      <4>6. work'[c] = more
        OBVIOUS
      <4> HIDE DEF more, now, total, base, aggregate
      <4>7. AddsUp(frames', top + 1, c, more, now)
        <5>1. top \in Nat \ {0}
          BY <1>2
        <5> QED
          BY <3>3, <4>2, <4>3, <4>4, <4>5, <5>1, AddsUpCall
      <4> QED
        BY <3>3, <4>1, <4>6, <4>7
    <3>9. work'.histogram = Shared'
      <4>1. Shared' = q.statistics.histogram
        BY <2>7, <3>7 DEF Shared
      <4>2. q.statistics.histogram = state.statistics.histogram
        BY <2>3, <2>4, <2>7 DEF Countable, IsTally, NoStatistics
      <4>3. work.histogram = state.statistics.histogram
        BY <2>1 DEF TallyInv, Tallied, Running, Shared
      <4>4. work'.histogram = work.histogram
        BY <1>3, <2>7 DEF IsTally, NoStatistics
      <4> QED
        BY <4>1, <4>2, <4>3, <4>4
    <3>10. Tallied'
      BY <2>7, <3>8, <3>9 DEF Tallied
    <3> QED
      BY <3>6, <3>10 DEF TallyInv
  <2> QED
    BY <2>2, <2>5, <2>6, <2>7
<1>14. CASE Resume
  <2>1. phase = "resume" /\ UNCHANGED work
    BY <1>14 DEF Resume
  <2>2. CASE reply.status \notin {"OK", "PRUNED"}
    <3> DEFINE q == [state EXCEPT !.statistics = Reported(@, search)]
    <3>1. Return(reply.status, NoBest, q)
      BY <1>14, <2>2 DEF Resume, ReturnReported
    <3>2. Countable(q)
      BY <1>3, ReportedCounts
    <3>3. reply.status \notin Kept /\ IsTally(work')
      BY <1>3, <2>1, <2>2 DEF Kept
    <3> HIDE DEF q
    <3> QED
      BY <1>1, <3>1, <3>2, <3>3, TallyFails
  <2>3. CASE reply.status \in {"OK", "PRUNED"}
    <3> DEFINE total == AddBranchStatistics(frame.aggregate, frame.base, reply.statistics)
               shared == state.statistics.histogram
                             + (reply.statistics.histogram - state.statistics.histogram)
               t == [state.statistics EXCEPT !.histogram = shared]
               q == [state EXCEPT !.statistics = t]
               g == [frame EXCEPT !.value = @ + 1,
                          !.blocks = SubSeq(@, 1, 1),
                          !.aggregate = AddBranchStatistics(@, frame.base, reply.statistics),
                          !.problem.statistics.histogram = @ + (reply.statistics.histogram - @),
                          !.best = IF /\ reply.status = "OK"
                                      /\ ~@.has \/ reply.best.optimum < @.optimum
                                   THEN reply.best ELSE @]
    <3>1. /\ frames' = [frames EXCEPT ![top] = g]
          /\ phase' = "values" /\ UNCHANGED reply
      BY <1>2, <1>14, <2>3 DEF Resume
    <3>2. g.problem = q /\ g.base = frame.base /\ g.aggregate = total
      BY <1>2 DEF FrameFields, state
    <3> HIDE DEF g
    <3>3. shared \in Int /\ shared = reply.statistics.histogram
      BY <1>3 DEF IsTally, Told
    <3> HIDE DEF shared
    <3>4. IsTally(t) /\ t.histogram = shared
      BY <1>3, <3>3 DEF IsTally, NoStatistics, Told, Counted
    <3> HIDE DEF t
    <3>5. Countable(q) /\ q.statistics = t
      BY <1>3, <3>4, ProblemFields DEF Countable
    <3> HIDE DEF q
    <3>6. IsTally(total) /\ \A c \in Counted :
             total[c] = frame.aggregate[c] + reply.statistics[c] - frame.base[c]
      <4>1. \A c \in Told : c \in DOMAIN frame.aggregate
        BY <1>3 DEF IsFrame, IsTally, NoStatistics, Told, Counted
      <4>2. \A c \in Told : /\ frame.aggregate[c] \in Int /\ reply.statistics[c] \in Int
                            /\ frame.base[c] \in Int
        BY <1>3 DEF IsFrame, IsTally
      <4>3. DOMAIN total = DOMAIN frame.aggregate
            /\ \A c \in Counted : c \in Told /\
                   total[c] = frame.aggregate[c] + reply.statistics[c] - frame.base[c]
        BY <4>1 DEF AddBranchStatistics, Counted, Told
      <4>4. total["histogram"] = frame.aggregate["histogram"]
        BY <4>1 DEF AddBranchStatistics, Told
      <4> HIDE DEF total
      <4>5. \A c \in Told : total[c] \in Int
        BY <4>2, <4>3, <4>4 DEF Told
      <4> QED
        BY <1>3, <4>3, <4>5 DEF IsFrame, IsTally
    <3> HIDE DEF total
    <3>7. top' = top /\ frames'[top] = g /\ SameBelow(frames, frames', top - 1)
      BY <1>1, <3>1, TopReplaced DEF top
    <3>8. frame' = g /\ state' = q
      BY <3>2, <3>7 DEF frame, state
    <3>9. IsFrame(frame')
      BY <1>3, <3>2, <3>5, <3>6, <3>8 DEF IsFrame
    <3>10. \A c \in Counted : work'[c] - work[c] = Here(c)' - Here(c)
      <4> SUFFICES ASSUME NEW c \in Counted PROVE work'[c] - work[c] = Here(c)' - Here(c)
        OBVIOUS
      <4>1. Here(c)' = total[c]
        BY <3>1, <3>2, <3>8 DEF Here
      <4>2. Here(c) = (frame.aggregate[c] - frame.base[c]) + reply.statistics[c]
        BY <2>1 DEF Here
      <4>3. /\ frame.aggregate[c] \in Int /\ reply.statistics[c] \in Int
            /\ frame.base[c] \in Int /\ work[c] \in Int
        BY <1>3 DEF IsFrame, IsTally, Told
      <4> QED
        BY <2>1, <3>6, <4>1, <4>2, <4>3
    <3>11. Running
      BY <2>1, <2>3 DEF Running, Kept
    <3>12. work'.histogram = Shared'
      <4>1. work.histogram = reply.statistics.histogram
        BY <2>1, <3>11 DEF TallyInv, Tallied, Shared
      <4>2. Shared' = t.histogram
        BY <3>1, <3>5, <3>8 DEF Shared
      <4> QED
        BY <2>1, <3>3, <3>4, <4>1, <4>2
    <3>13. IsTally(reply'.statistics) /\ IsTally(work')
      BY <1>3, <2>1, <3>1
    <3> QED
      BY <1>1, <3>1, <3>7, <3>9, <3>10, <3>11, <3>12, <3>13, TallyTop
  <2> QED
    BY <2>2, <2>3
<1>15. CASE Conclude
  <2> DEFINE t == [frame.aggregate EXCEPT !.histogram = state.statistics.histogram]
             p == [state EXCEPT !.statistics = t]
             q == [p EXCEPT !.statistics = Reported(@, search)]
             status == IF frame.best.has THEN "OK" ELSE "PRUNED"
  <2>1. phase = "values" /\ UNCHANGED work
    BY <1>15 DEF Conclude
  <2>2. Return(status, frame.best, [state EXCEPT !.statistics = Reported(t, search)])
    BY <1>15 DEF Conclude
  <2>3. /\ IsTally(t) /\ t.histogram = state.statistics.histogram
        /\ \A c \in Counted : t[c] = frame.aggregate[c]
    BY <1>3 DEF IsFrame, IsTally, NoStatistics, Told, Counted
  <2> HIDE DEF t
  <2>4. Countable(p) /\ p.statistics = t
        /\ q = [state EXCEPT !.statistics = Reported(t, search)]
    BY <1>3, <2>3, ProblemFields DEF Countable
  <2> HIDE DEF p
  <2>5. Countable(q) /\ \A c \in Told : q.statistics[c] = p.statistics[c]
    BY <2>4, ReportedCounts
  <2>6. Return(status, frame.best, q)
    BY <2>2, <2>4
  <2> HIDE DEF q, status
  <2>7. /\ Running /\ Shared = q.statistics.histogram
        /\ \A c \in Counted : q.statistics[c] = Here(c)
    BY <2>1, <2>3, <2>4, <2>5 DEF Running, Here, Shared, Told
  <2> QED
    BY <1>1, <1>3, <2>1, <2>5, <2>6, <2>7, TallyReturn
<1>16. CASE UNCHANGED vars
  BY <1>16 DEF vars, TallyInv, TallyType, Tallied, Running, Here, Shared, state, frame, top
<1> QED
  BY <1>5, <1>6, <1>7, <1>8, <1>10, <1>11, <1>12, <1>13, <1>14, <1>15, <1>16 DEF Next

(* A successful solve reports each reduction and each conditioning of      *)
(* every copy once, whatever the order in which the tree was searched and  *)
(* pruned, and the histogram that the copies share in turn is complete;    *)
(* the kernel never counts in the statistics of a copy that is gone.       *)
THEOREM SolveCountsAll == Spec => []StatisticsComplete
<1>1. TallyInv => StatisticsComplete
  BY DEF TallyInv, Tallied, StatisticsComplete, Kept, Told, Counted
<1> QED
  BY <1>1, HeldStarts, HeldKept, TallyStarts, TallyKept, PTL DEF Spec
=============================================================================
