-------------------------- MODULE L2DatapathProofs --------------------------
(***************************************************************************)
(* The datapath computes what the functional model does, for every shape   *)
(* and configuration: however its tiles, chunks and lanes divide rows and  *)
(* columns, the running minimum of a row is that of the columns behind it, *)
(* and what it stores is the output a single scan would have found.        *)
(***************************************************************************)
EXTENDS L2Datapath, AcceleratorOpsProofs

-----------------------------------------------------------------------------
(* The inductive invariant.                                                *)

(* The sum the functional model computes for column j of output o; a       *)
(* vector addition has one output per column.                              *)
Sum(o, j) == IF Vector THEN Candidate(cmd, j, 0, mem0, faults)
             ELSE Candidate(cmd, o, j, mem0, faults)

(* The operands of column j, and what all rows of a projection share.      *)
First(j)     == mem0[VecAddr(cmd.a, j)]
Second(j)    == mem0[VecAddr(cmd.b, j)]
Third(j)     == mem0[VecAddr(cmd.c, j)]
Element(o, j) == mem0[MatAddr(cmd.m, o, j)]
Shared(j)    == IF Map3 THEN CostAddChecked(First(j), Second(j)) ELSE First(j)

CanRead(address) == ReadOk(faults, address, 1)

(* A valid primitive on a legal configuration.                             *)
DataTypes ==
    /\ config \in Configs /\ cmd \in Candidates /\ ValidCommand(cmd) = "OK"
    /\ mem0 \in [Ram -> Int] /\ mem \in [Ram -> Int]
    /\ pc \in {"tile", "chunk", "first", "second", "third", "preadd", "row", "add", "write", "done"}
    /\ phase \in {"run", "ok", "failed"}
    /\ tile \in Nat /\ row \in Nat /\ chunk \in Nat /\ group \in Nat /\ wr \in Nat
    /\ bank \in [0..2 -> [0..config.tn - 1 -> Int]]
    /\ valid \in [0..2 -> Int]
    /\ states \in [0..config.tm - 1 -> [value : Int, index : Nat]]

InChunk == pc \in {"first", "second", "third", "preadd", "row", "add"}
InTile  == pc \notin {"tile", "done"}

(* Where the loops are.                                                    *)
LoopsOK ==
    /\ phase = "run" <=> pc # "done"
    /\ InTile => tile < Outputs
    /\ InChunk \/ (pc = "write" /\ Vector) => chunk < cmd.a.length
    /\ pc = "write" /\ ~Vector => chunk >= cmd.a.length
    /\ pc = "second" => ~Projection \/ Map3
    /\ pc = "third" => Add3
    /\ pc = "preadd" => Map3 /\ group < Cols /\ row = 0
    /\ pc = "row" => row <= Rows
    /\ pc = "add" => row < Rows /\ group < Cols
    /\ pc = "write" => wr <= IF Vector THEN Cols ELSE Rows
    /\ pc \notin {"write", "done"} => wr = 0
    /\ phase = "ok" => tile >= Outputs /\ wr = 0
    /\ pc = "tile" /\ Vector /\ tile = 0 => chunk = 0

(* The column has been added already, in the bank the sums go to.          *)
Added(k) == row > 0 \/ (pc = "add" /\ k < group)

(* What the banks hold of the chunk, column by column.                     *)
ColumnOK(k) ==
    LET j == chunk + k
        combining == pc \in {"row", "add"}
    IN  /\ pc \in {"second", "third", "preadd"} \/ combining => CanRead(VecAddr(cmd.a, j))
        /\ pc \in {"second", "third"} => bank[0][k] = First(j)
        /\ pc \in {"third", "preadd"} \/ (combining /\ (~Projection \/ Map3)) =>
             CanRead(VecAddr(cmd.b, j))
        /\ pc \in {"third", "preadd"} \/ (combining /\ ~Projection) => bank[1][k] = Second(j)
        /\ combining /\ Add3 => CanRead(VecAddr(cmd.c, j)) /\ bank[2][k] = Third(j)
        /\ pc = "preadd" => /\ bank[0][k] = IF k < group THEN Shared(j) ELSE First(j)
                            /\ k < group => Shared(j) # CostError
        /\ combining /\ Projection => /\ bank[0][k] = Shared(j)
                                      /\ Map3 => Shared(j) # CostError
        /\ pc = "add" /\ Projection =>
             /\ CanRead(MatAddr(cmd.m, tile + row, j))
             /\ bank[2][k] = IF k < group THEN Sum(tile + row, j) ELSE Element(tile + row, j)
        /\ combining /\ ~Projection => bank[0][k] = IF Added(k) THEN Sum(tile, j) ELSE First(j)
        /\ combining /\ Vector /\ Added(k) => Sum(tile, j) # CostError
        /\ pc = "write" /\ Vector => bank[0][k] = Sum(tile, j) /\ Sum(tile, j) # CostError

(* The banks in use are full for this chunk.                               *)
BanksOK ==
    /\ pc \in {"second", "third", "preadd", "row", "add"} => valid[0] = Cols
    /\ pc = "add" /\ Projection => valid[2] = Cols
    /\ \A k \in 0..Cols - 1 : ColumnOK(k)

(* st is the least of the first n sums of output o, with the first column  *)
(* that has it; all of them are costs.                                     *)
LeastSum(st, o, n) ==
    /\ n = 0 => st = [value |-> Inf, index |-> 0]
    /\ n # 0 => st.index \in 0..n - 1 /\ Sum(o, st.index) = st.value
    /\ \A i \in 0..n - 1 : /\ Sum(o, i) # CostError /\ st.value <= Sum(o, i)
                           /\ i < st.index => st.value < Sum(o, i)

(* How many columns are behind row r of the tile.                          *)
Behind(r) ==
    IF pc \in {"row", "add"}
    THEN IF r < row THEN chunk + Cols
         ELSE IF r = row /\ pc = "add" THEN chunk + group ELSE chunk
    ELSE IF pc = "write" THEN cmd.a.length ELSE Least(cmd.a.length, chunk)

(* The running minima of the rows of the tile.                             *)
MinimaOK ==
    InTile /\ ~Vector => \A r \in 0..Rows - 1 : LeastSum(states[r], tile + r, Behind(r))

(* The outputs stored so far are those of the functional model.            *)
Turns == OutputsOf(cmd, mem0, faults)
StoredOK ==
    /\ phase # "failed" => Turns[Stored].ok /\ mem = Turns[Stored].mem
    /\ phase = "failed" => ~Turns[cmd.out.length].ok

DataInv == DataTypes /\ LoopsOK /\ BanksOK /\ MinimaOK /\ StoredOK

-----------------------------------------------------------------------------
(* The tree of reduce().                                                   *)

(* The values f of a loop of n turns: turn k is given k and the value so   *)
(* far.                                                                    *)
Run(f, X, x0, G, n) ==
    f \in [0..n -> X] /\ f[0] = x0 /\ \A k \in 1..n : f[k] = G[<<k - 1, f[k - 1]>>]

(* Such a loop over a set of values has a value after each of its turns.   *)
LEMMA Iterates ==
  ASSUME NEW X, NEW x0 \in X, NEW G \in [Nat \X X -> X], NEW n \in Nat
  PROVE  \E f : Run(f, X, x0, G, n)
  <1> DEFINE Runs(f, m) == f[0] = x0 /\ \A k \in 1..m : f[k] = G[<<k - 1, f[k - 1]>>]
             Bad == {m \in Nat : ~\E f \in [0..m -> X] : Runs(f, m)}
  <1>1. SUFFICES ASSUME Bad # {} PROVE FALSE
    BY DEF Run
  <1>2. PICK m \in Bad : \A j \in Bad : m <= j
    <2>1. Bad \subseteq Nat
      OBVIOUS
    <2> HIDE DEF Bad
    <2> QED BY <1>1, <2>1, HasLeast
  <1>3. m \in Nat /\ ~\E f \in [0..m -> X] : Runs(f, m)
    BY <1>2
  <1>4. CASE m = 0
    <2> DEFINE f == [k \in 0..0 |-> x0]
    <2>1. f \in [0..0 -> X] /\ Runs(f, 0)
      OBVIOUS
    <2>2. QED BY <2>1, <1>3, <1>4
  <1>5. CASE m # 0
    <2>1. m - 1 \in Nat /\ m - 1 \notin Bad
      BY <1>2, <1>3, <1>5
    <2>2. PICK f \in [0..m - 1 -> X] : Runs(f, m - 1)
      BY <2>1
    <2>3. f[m - 1] \in X /\ G[<<m - 1, f[m - 1]>>] \in X
      BY <2>1, <2>2
    <2> DEFINE g == [k \in 0..m |-> IF k < m THEN f[k] ELSE G[<<m - 1, f[m - 1]>>]]
    <2>4. g \in [0..m -> X]
      BY <2>1, <2>2, <2>3
    <2>5. g[0] = x0
      BY <1>3, <1>5, <2>2
    <2>6. ASSUME NEW k \in 1..m PROVE g[k] = G[<<k - 1, g[k - 1]>>]
      <3>1. g[k - 1] = f[k - 1]
        BY <1>3
      <3>2. CASE k < m
        <4>1. k \in 1..m - 1 /\ g[k] = f[k]
          BY <1>3, <3>2
        <4>2. f[k] = G[<<k - 1, f[k - 1]>>]
          BY <2>2, <4>1
        <4>3. QED BY <3>1, <4>1, <4>2
      <3>3. CASE k = m
        <4>1. g[m] = G[<<m - 1, f[m - 1]>>]
          BY <1>3
        <4> HIDE DEF g
        <4>2. QED BY <3>1, <3>3, <4>1
      <3>4. QED BY <1>3, <3>2, <3>3
    <2>7. QED BY <1>3, <2>4, <2>5, <2>6
  <1>6. QED BY <1>4, <1>5

(* The width of the tree is halved level by level,                         *)
LEMMA WidthsAre ==
  ASSUME config.lanes \in Nat \ {0}
  PROVE  /\ TreeWidth[0] = config.lanes
         /\ \A d \in 1..config.lanes : TreeWidth[d] = (TreeWidth[d - 1] + 1) \div 2
         /\ \A d \in 0..config.lanes : TreeWidth[d] \in Nat
  <1> DEFINE n == config.lanes
             G == [p \in Nat \X Nat |-> (p[2] + 1) \div 2]
             Halved(f) == [d \in 0..n |-> IF d = 0 THEN n ELSE (f[d - 1] + 1) \div 2]
  <1>1. G \in [Nat \X Nat -> Nat]
    OBVIOUS
  <1>2. PICK f : /\ f \in [0..n -> Nat] /\ f[0] = n
                 /\ \A k \in 1..n : f[k] = G[<<k - 1, f[k - 1]>>]
    <2>1. n \in Nat
      OBVIOUS
    <2> HIDE DEF G, n
    <2>2. \E f : Run(f, Nat, n, G, n)
      BY <1>1, <2>1, Iterates
    <2>3. QED BY <2>2 DEF Run
  <1>3. f = Halved(f)
    <2>1. ASSUME NEW k \in 0..n PROVE f[k] = Halved(f)[k]
      <3>1. CASE k = 0
        BY <1>2, <3>1
      <3>2. CASE k # 0
        <4>1. k \in 1..n /\ k - 1 \in 0..n
          BY <3>2
        <4>2. f[k - 1] \in Nat /\ k - 1 \in Nat
          BY <1>2, <4>1
        <4>3. f[k] = G[<<k - 1, f[k - 1]>>]
          BY <1>2, <4>1
        <4>4. f[k] = (f[k - 1] + 1) \div 2
          BY <4>2, <4>3
        <4>5. QED BY <3>2, <4>1, <4>4
      <3>3. QED BY <3>1, <3>2
    <2>2. QED BY <1>2, <2>1
  <1>4. TreeWidth = (CHOOSE g : g = Halved(g))
    BY DEF TreeWidth
  <1>5. TreeWidth = Halved(TreeWidth)
    <2> HIDE DEF Halved
    <2> QED BY <1>3, <1>4
  <1>6. /\ TreeWidth[0] = n
        /\ \A d \in 1..n : TreeWidth[d] = (TreeWidth[d - 1] + 1) \div 2
    <2> HIDE DEF n
    <2>1. n \in Nat
      BY DEF n
    <2>2. \A d \in 0..n : TreeWidth[d] = IF d = 0 THEN n ELSE (TreeWidth[d - 1] + 1) \div 2
      BY <1>5
    <2>3. QED BY <2>1, <2>2
  <1>7. \A d \in 0..n : TreeWidth[d] \in Nat
    <2> DEFINE Bad == {d \in Nat : d <= n /\ TreeWidth[d] \notin Nat}
    <2>1. SUFFICES ASSUME Bad # {} PROVE FALSE
      OBVIOUS
    <2>2. PICK d \in Bad : \A e \in Bad : d <= e
      <3> HIDE DEF n
      <3>1. Bad \subseteq Nat
        OBVIOUS
      <3> HIDE DEF Bad
      <3> QED BY <2>1, <3>1, HasLeast
    <2>3. d # 0 /\ d \in 1..n
      BY <1>6, <2>2
    <2>4. TreeWidth[d - 1] \in Nat
      BY <2>2, <2>3
    <2>5. QED BY <1>6, <2>2, <2>3, <2>4
  <1>8. QED BY <1>6, <1>7

(* so it comes to a single lane after Depth levels.                        *)
LEMMA DepthIs ==
  ASSUME config.lanes \in Nat \ {0}
  PROVE  Depth \in 0..config.lanes /\ TreeWidth[Depth] = 1
  <1> DEFINE n == config.lanes
             Good(d) == TreeWidth[d] # 0 /\ (TreeWidth[d] = 1 \/ TreeWidth[d] <= n - d)
             Bad == {d \in Nat : d <= n /\ ~Good(d)}
             Single == {d \in Nat : d <= n /\ TreeWidth[d] = 1}
  <1>1. Bad = {}
    <2> SUFFICES ASSUME Bad # {} PROVE FALSE
      OBVIOUS
    <2>1. PICK d \in Bad : \A e \in Bad : d <= e
      <3>1. Bad \subseteq Nat
        OBVIOUS
      <3> HIDE DEF Bad
      <3> QED BY <3>1, HasLeast
    <2>2. d # 0 /\ d \in 1..n
      BY <2>1, WidthsAre
    <2>3. d - 1 \in Nat /\ Good(d - 1) /\ TreeWidth[d - 1] \in Nat
      BY <2>1, <2>2, WidthsAre
    <2>4. TreeWidth[d] = (TreeWidth[d - 1] + 1) \div 2
      BY <2>2, WidthsAre
    <2>5. Good(d)
      <3> DEFINE w == TreeWidth[d - 1]
                 h == (w + 1) \div 2
      <3>1. w \in Nat /\ w # 0 /\ (w = 1 \/ w <= n - (d - 1))
        BY <2>3
      <3>2. h # 0 /\ (w = 1 => h = 1) /\ (w # 1 => h <= w - 1) /\ h \in Nat
        <4> HIDE DEF w
        <4> QED BY <3>1
      <3> HIDE DEF w, h
      <3>3. QED BY <2>2, <2>4, <3>1, <3>2 DEF h, w
    <2>6. QED BY <2>1, <2>5
  <1>2. n \in Single
    <2>1. n \notin Bad /\ TreeWidth[n] \in Nat
      BY <1>1, WidthsAre
    <2>2. QED BY <2>1
  <1>3. PICK d \in Single : \A e \in Single : d <= e
    <2>1. Single \subseteq Nat /\ Single # {}
      BY <1>2
    <2> HIDE DEF Single
    <2> QED BY <2>1, HasLeast
  <1>4. d \in 0..n /\ TreeWidth[d] = 1
    BY <1>3
  <1>5. ASSUME NEW e \in 0..d - 1 PROVE TreeWidth[e] > 1
    <2>1. e \in 0..n /\ e < d
      BY <1>4
    <2>2. e \notin Single /\ e \notin Bad /\ TreeWidth[e] \in Nat
      BY <1>1, <1>3, <2>1, WidthsAre
    <2>3. QED BY <2>1, <2>2
  <1>6. \E x \in 0..n : TreeWidth[x] = 1 /\ \A e \in 0..x - 1 : TreeWidth[e] > 1
    BY <1>4, <1>5
  <1>7. QED BY <1>6 DEF Depth

Entries == [value : Int, index : Nat]

(* A sequence given as a function has the length of its domain.            *)
LEMMA LengthIs ==
  ASSUME NEW n \in Nat, NEW S, NEW s \in [1..n -> S]
  PROVE  Len(s) = n
  OBVIOUS

(* A level keeps some of its lanes, and of every lane one at least as      *)
(* good.                                                                   *)
LEMMA LevelIs ==
  ASSUME NEW n \in Nat \ {0}, NEW s \in [1..n -> Entries], NEW h, h = (n + 1) \div 2
  PROVE  /\ Level(s) \in [1..h -> Entries]
         /\ \A i \in 1..h : \E j \in 1..n : Level(s)[i] = s[j]
         /\ \A j \in 1..n : \E i \in 1..h : ~Before(s[j], Level(s)[i])
  <1>1. Len(s) = n /\ h \in Nat /\ (n = 2 * h \/ n = 2 * h - 1)
    BY LengthIs
  <1> DEFINE L(i) == IF 2 * i > n THEN s[n]
                     ELSE IF Before(s[2 * i], s[2 * i - 1]) THEN s[2 * i] ELSE s[2 * i - 1]
  <1>2. Level(s) = [i \in 1..h |-> L(i)]
    BY <1>1 DEF Level
  <1>3. ASSUME NEW i \in 1..h
        PROVE  \E j \in 1..n : L(i) = s[j]
    <2>1. n \in 1..n /\ (2 * i <= n => 2 * i \in 1..n /\ 2 * i - 1 \in 1..n)
      BY <1>1
    <2>2. QED BY <2>1
  <1>4. \A i \in 1..h : L(i) \in Entries
    BY <1>3
  <1>5. ASSUME NEW j \in 1..n
        PROVE  \E i \in 1..h : ~Before(s[j], L(i))
    <2> DEFINE i == (j + 1) \div 2
    <2>1. i \in 1..h /\ (j = 2 * i \/ j = 2 * i - 1)
      BY <1>1
    <2> HIDE DEF i
    <2>2. \A x \in Entries : ~Before(x, x)
      BY DEF Entries, Before
    <2>3. CASE 2 * i > n
      <3>1. j = n /\ L(i) = s[n]
        BY <1>1, <2>1, <2>3
      <3>2. QED BY <2>1, <2>2, <3>1
    <2>4. CASE 2 * i <= n
      <3>1. 2 * i \in 1..n /\ 2 * i - 1 \in 1..n
        BY <2>1, <2>4
      <3>2. s[2 * i] \in Entries /\ s[2 * i - 1] \in Entries
        BY <3>1
      <3>3. \A x, y \in Entries : Before(x, y) => ~Before(y, x)
        BY DEF Entries, Before
      <3>4. L(i) = IF Before(s[2 * i], s[2 * i - 1]) THEN s[2 * i] ELSE s[2 * i - 1]
        BY <1>1, <2>1, <2>4
      <3> HIDE DEF L
      <3>5. ~Before(s[j], L(i))
        BY <2>1, <2>2, <3>2, <3>3, <3>4
      <3>6. QED BY <2>1, <3>5
    <2>5. QED BY <1>1, <2>1, <2>3, <2>4
  <1> HIDE DEF L
  <1>6. QED BY <1>2, <1>3, <1>4, <1>5

(* What a level d of the tree over s still holds: at most as many lanes as *)
(* the tree is wide, and of every lane of s one at least as good.          *)
Holds(l, s, n, width) ==
    \E m \in 1..width :
      /\ l \in [1..m -> Entries]
      /\ \A i \in 1..m : \E j \in 1..n : l[i] = s[j]
      /\ \A j \in 1..n : \E i \in 1..m : ~Before(s[j], l[i])

(* One more level.                                                         *)
LEMMA HoldsOn ==
  ASSUME NEW n \in Nat, NEW s \in [1..n -> Entries], NEW w \in Nat, NEW l, Holds(l, s, n, w)
  PROVE  Holds(Level(l), s, n, (w + 1) \div 2)
  <1>1. PICK m \in 1..w :
          /\ l \in [1..m -> Entries]
          /\ \A i \in 1..m : \E j \in 1..n : l[i] = s[j]
          /\ \A j \in 1..n : \E i \in 1..m : ~Before(s[j], l[i])
    BY DEF Holds
  <1> DEFINE h == (m + 1) \div 2
  <1>2. m \in Nat \ {0} /\ h \in 1..(w + 1) \div 2
    OBVIOUS
  <1> HIDE DEF h
  <1>3. /\ Level(l) \in [1..h -> Entries]
        /\ \A i \in 1..h : \E j \in 1..m : Level(l)[i] = l[j]
        /\ \A j \in 1..m : \E i \in 1..h : ~Before(l[j], Level(l)[i])
    BY <1>1, <1>2, LevelIs DEF h
  <1>4. \A i \in 1..h : \E j \in 1..n : Level(l)[i] = s[j]
    BY <1>1, <1>3
  <1>5. ASSUME NEW j \in 1..n PROVE \E i \in 1..h : ~Before(s[j], Level(l)[i])
    <2>1. PICK k \in 1..m : ~Before(s[j], l[k])
      BY <1>1
    <2>2. PICK i \in 1..h : ~Before(l[k], Level(l)[i])
      BY <1>3
    <2>3. s[j] \in Entries /\ l[k] \in Entries /\ Level(l)[i] \in Entries
      BY <1>1, <1>3
    <2>4. \A x, y, z \in Entries : ~Before(x, y) /\ ~Before(y, z) => ~Before(x, z)
      BY DEF Entries, Before
    <2>5. QED BY <2>1, <2>2, <2>3, <2>4
  <1>6. QED BY <1>2, <1>3, <1>4, <1>5 DEF Holds

(* reduce(): the tree finds the best lane, ties going to the first column, *)
(* for any number of lanes and any part of them in use.                    *)
LEMMA TreeIs ==
  ASSUME config.lanes \in Nat \ {0}, NEW n \in 1..config.lanes, NEW s \in [1..n -> Entries]
  PROVE  \E j \in 1..n : Tree(s) = s[j] /\ \A k \in 1..n : ~Before(s[k], s[j])
  <1> DEFINE D == Depth
             X == UNION {[1..k -> Entries] : k \in Nat \ {0}}
             G == [p \in Nat \X X |-> Level(p[2])]
             Levels(f) == [d \in 0..D |-> IF d = 0 THEN s ELSE Level(f[d - 1])]
  <1>1. D \in Nat /\ D <= config.lanes /\ TreeWidth[D] = 1
    BY DepthIs
  <1>2. s \in X
    OBVIOUS
  <1>3. G \in [Nat \X X -> X]
    <2>1. ASSUME NEW l \in X PROVE Level(l) \in X
      <3>1. PICK k \in Nat \ {0} : l \in [1..k -> Entries]
        OBVIOUS
      <3> DEFINE h == (k + 1) \div 2
      <3>2. h \in Nat \ {0}
        OBVIOUS
      <3> HIDE DEF h
      <3>3. Level(l) \in [1..h -> Entries]
        BY <3>1, LevelIs DEF h
      <3>4. QED BY <3>2, <3>3
    <2> HIDE DEF X
    <2>2. QED BY <2>1
  <1> HIDE DEF X
  <1>4. PICK f : Run(f, X, s, G, D)
    <2> HIDE DEF G, D
    <2> QED BY <1>1, <1>2, <1>3, Iterates
  <1>5. f \in [0..D -> X] /\ f[0] = s /\ \A d \in 1..D : f[d] = Level(f[d - 1])
    <2>1. f \in [0..D -> X] /\ f[0] = s /\ \A d \in 1..D : f[d] = G[<<d - 1, f[d - 1]>>]
      BY <1>4 DEF Run
    <2> HIDE DEF D
    <2>2. ASSUME NEW d \in 1..D PROVE f[d] = Level(f[d - 1])
      <3>1. d - 1 \in Nat /\ f[d - 1] \in X
        BY <1>1, <2>1
      <3>2. QED BY <2>1, <3>1
    <2>3. QED BY <2>1, <2>2
  <1> HIDE DEF G
  <1> DEFINE g == CHOOSE g : g = Levels(g)
  <1>7. g = Levels(g)
    <2>1. f = Levels(f)
      <3> HIDE DEF D
      <3>1. ASSUME NEW d \in 0..D PROVE f[d] = IF d = 0 THEN s ELSE Level(f[d - 1])
        BY <1>1, <1>5
      <3>2. QED BY <1>5, <3>1
    <2> HIDE DEF Levels
    <2>2. QED BY <2>1
  <1>8. g[0] = s /\ \A d \in 1..D : g[d] = Level(g[d - 1])
    <2> HIDE DEF D, g
    <2>1. \A d \in 0..D : g[d] = IF d = 0 THEN s ELSE Level(g[d - 1])
      BY <1>7
    <2> HIDE DEF Levels
    <2>2. QED BY <1>1, <2>1
  <1> HIDE DEF g, Levels
  <1> DEFINE Bad == {d \in Nat : d <= D /\ ~Holds(g[d], s, n, TreeWidth[d])}
  <1>9. Bad = {}
    <2> SUFFICES ASSUME Bad # {} PROVE FALSE
      OBVIOUS
    <2>1. PICK d \in Bad : \A e \in Bad : d <= e
      <3>1. Bad \subseteq Nat
        OBVIOUS
      <3> HIDE DEF Bad
      <3> QED BY <3>1, HasLeast
    <2>2. d # 0
      <3>1. \A x \in Entries : ~Before(x, x)
        BY DEF Entries, Before
      <3>2. Holds(s, s, n, config.lanes)
        BY <3>1 DEF Holds
      <3>3. QED BY <1>8, <2>1, <3>2, WidthsAre
    <2>3. d - 1 \in Nat /\ d \in 1..D /\ d \in 1..config.lanes /\ d - 1 \in 0..config.lanes
      BY <1>1, <2>1, <2>2
    <2>4. Holds(g[d - 1], s, n, TreeWidth[d - 1])
      <3>1. d - 1 <= D /\ d \in Nat
        BY <1>1, <2>3
      <3>2. d - 1 \notin Bad
        <4> HIDE DEF Bad
        <4> QED BY <2>1, <3>1
      <3> HIDE DEF D
      <3>3. QED BY <2>3, <3>1, <3>2
    <2>5. TreeWidth[d - 1] \in Nat /\ TreeWidth[d] = (TreeWidth[d - 1] + 1) \div 2
      BY <2>3, WidthsAre
    <2>6. Holds(Level(g[d - 1]), s, n, (TreeWidth[d - 1] + 1) \div 2)
      <3>1. n \in Nat
        OBVIOUS
      <3> DEFINE w == TreeWidth[d - 1]
                 l == g[d - 1]
      <3> HIDE DEF w, l, Bad
      <3>2. w \in Nat /\ Holds(l, s, n, w)
        BY <2>4, <2>5 DEF w, l
      <3>3. Holds(Level(l), s, n, (w + 1) \div 2)
        BY <3>1, <3>2, HoldsOn
      <3>4. QED BY <3>3 DEF w, l
    <2>7. QED BY <1>8, <2>1, <2>3, <2>5, <2>6
  <1>10. Holds(g[D], s, n, 1)
    BY <1>1, <1>9
  <1>11. PICK j \in 1..n : g[D][1] = s[j]
    BY <1>10 DEF Holds
  <1>12. \A k \in 1..n : ~Before(s[k], g[D][1])
    BY <1>10 DEF Holds
  <1>13. Tree(s) = g[D][1]
    BY DEF Tree, g, Levels
  <1>14. QED BY <1>11, <1>12, <1>13

-----------------------------------------------------------------------------
(* The scan of the functional model.                                       *)

(* A checked sum is a cost or the error value.                             *)
LEMMA AddedIs ==
  ASSUME NEW l \in Int, NEW r \in Int
  PROVE  /\ CostAddChecked(l, r) \in Int /\ CostAddChecked(l, r) <= Inf
         /\ CostAddChecked(l, r) = CostAddChecked(r, l)
  BY CostAssumption DEF CostAddChecked, CostError

(* So is every candidate.                                                  *)
LEMMA CandidateIs ==
  ASSUME NEW c, Views(c), NEW o \in Nat, NEW i \in Nat, NEW m \in [Ram -> Int], NEW fs
  PROVE  Candidate(c, o, i, m, fs) \in Int /\ Candidate(c, o, i, m, fs) <= Inf
  <1> DEFINE t == Terms(c, o, i)
  <1>1. \/ Len(t) = 2 /\ DOMAIN t = {1, 2}
        \/ Len(t) = 3 /\ DOMAIN t = {1, 2, 3}
    BY TermsType
  <1>2. CostError \in Int /\ CostError <= Inf
    BY CostAssumption DEF CostError
  <1>3. \A k \in DOMAIN t : t[k] \in Nat
    <2>1. \/ DOMAIN t = {1, 2} /\ t[1] \in Nat /\ t[2] \in Nat
          \/ DOMAIN t = {1, 2, 3} /\ t[1] \in Nat /\ t[2] \in Nat /\ t[3] \in Nat
      BY TermsType
    <2> HIDE DEF t
    <2>2. QED BY <2>1
  <1> HIDE DEF t
  <1>4. CASE \E k \in DOMAIN t : ~ReadOk(fs, t[k], 1)
    <2>1. SumAt(t, m, fs) = CostError
      BY <1>4 DEF SumAt
    <2>2. QED BY <1>2, <2>1 DEF Candidate, t
  <1>5. CASE \A k \in DOMAIN t : ReadOk(fs, t[k], 1)
    <2>1. \A k \in DOMAIN t : m[t[k]] \in Int
      BY <1>3, <1>5 DEF ReadOk
    <2>2. CASE Len(t) = 2
      <3>1. SumAt(t, m, fs) = CostAddChecked(m[t[1]], m[t[2]])
        BY <1>5, <2>2 DEF SumAt
      <3>2. QED BY <1>1, <2>1, <2>2, <3>1, AddedIs DEF Candidate, t
    <2>3. CASE Len(t) = 3
      <3>1. SumAt(t, m, fs) = CostAdd3Checked(m[t[1]], m[t[2]], m[t[3]])
        BY <1>5, <2>3 DEF SumAt
      <3>2. m[t[1]] \in Int /\ m[t[2]] \in Int /\ m[t[3]] \in Int
        BY <1>1, <2>1, <2>3
      <3>3. \A x, y, z \in Int : CostAdd3Checked(x, y, z) \in Int /\ CostAdd3Checked(x, y, z) <= Inf
        BY <1>2, AddedIs DEF CostAdd3Checked
      <3>4. QED BY <3>1, <3>2, <3>3 DEF Candidate, t
    <2>4. QED BY <1>1, <2>2, <2>3
  <1>6. QED BY <1>4, <1>5

Results == [ok : BOOLEAN, value : Int, index : Nat]

(* r is the result of scanning the first n of the values V.                *)
Scanned(r, V, n) ==
    /\ r \in Results
    /\ ~r.ok => \E i \in 0..n - 1 : V[i] = CostError
    /\ r.ok => /\ n # 0 => r.index \in 0..n - 1 /\ V[r.index] = r.value
               /\ \A i \in 0..n - 1 : /\ V[i] # CostError /\ r.value <= V[i]
                                      /\ i < r.index => r.value < V[i]

(* One more column.                                                        *)
LEMMA ScannedOn ==
  ASSUME NEW V \in [Nat -> Int], NEW n \in Nat, NEW r, Scanned(r, V, n)
  PROVE  Scanned(Better(r, V[n], n), V, n + 1)
  <1> DEFINE b == Better(r, V[n], n)
  <1> SUFFICES Scanned(b, V, n + 1)
    OBVIOUS
  <1>1. r \in Results /\ V[n] \in Int
    BY DEF Scanned
  <1>2. \A i \in 0..(n + 1) - 1 : i \in 0..n - 1 \/ i = n
    OBVIOUS
  <1>3. n \in 0..(n + 1) - 1 /\ \A i \in 0..n - 1 : i \in 0..(n + 1) - 1 /\ i < n
    OBVIOUS
  <1>4. CASE ~r.ok \/ V[n] = CostError
    <2>1. b = [ok |-> FALSE, value |-> r.value, index |-> r.index]
      BY <1>1, <1>4 DEF Better, Results
    <2>2. \E i \in 0..(n + 1) - 1 : V[i] = CostError
      BY <1>3, <1>4 DEF Scanned
    <2>3. QED BY <1>1, <2>1, <2>2 DEF Scanned, Results
  <1>5. CASE r.ok /\ V[n] # CostError /\ (n = 0 \/ V[n] < r.value)
    <2>1. b = [ok |-> TRUE, value |-> V[n], index |-> n]
      BY <1>5 DEF Better
    <2>2. \A i \in 0..n - 1 : V[i] # CostError /\ V[n] < V[i] /\ V[i] \in Int /\ i \in Nat
      BY <1>1, <1>5 DEF Scanned, Results
    <2>3. \A i \in 0..(n + 1) - 1 : V[i] # CostError /\ V[n] <= V[i] /\ (i < n => V[n] < V[i])
      BY <1>1, <1>2, <1>5, <2>2
    <2>4. b \in Results /\ b.ok /\ b.index = n /\ b.value = V[n]
      BY <1>1, <2>1 DEF Results
    <2> HIDE DEF b
    <2>5. b.index \in 0..(n + 1) - 1 /\ V[b.index] = b.value
      BY <1>3, <2>4
    <2>6. \A i \in 0..(n + 1) - 1 : /\ V[i] # CostError /\ b.value <= V[i]
                                    /\ i < b.index => b.value < V[i]
      BY <2>3, <2>4
    <2>7. QED BY <2>4, <2>5, <2>6 DEF Scanned
  <1>6. CASE r.ok /\ V[n] # CostError /\ n # 0 /\ ~(V[n] < r.value)
    <2>1. b = r
      BY <1>6 DEF Better
    <2>2. r.index \in 0..n - 1 /\ V[r.index] = r.value /\ r.value <= V[n] /\ ~(n < r.index)
      BY <1>1, <1>6 DEF Scanned, Results
    <2>3. \A i \in 0..(n + 1) - 1 : /\ V[i] # CostError /\ r.value <= V[i]
                                    /\ i < r.index => r.value < V[i]
      BY <1>2, <1>6, <2>2 DEF Scanned
    <2> HIDE DEF b
    <2>4. r.index \in 0..(n + 1) - 1
      BY <1>3, <2>2
    <2>5. QED BY <1>1, <1>6, <2>1, <2>2, <2>3, <2>4 DEF Scanned
  <1>7. QED BY <1>4, <1>5, <1>6

(* The result of an output is the least of its candidates, with the first  *)
(* column that has it, and fails if one of them is no cost.                *)
LEMMA ResultIs ==
  ASSUME NEW c, Views(c), NEW o \in Nat, NEW m \in [Ram -> Int], NEW fs
  PROVE  Scanned(OutputResult(c, o, m, fs), [i \in Nat |-> Candidate(c, o, i, m, fs)], Columns(c))
  <1> DEFINE V == [i \in Nat |-> Candidate(c, o, i, m, fs)]
             n == Columns(c)
             Start == [ok |-> TRUE, value |-> Inf, index |-> 0]
             G == [p \in Nat \X Results |-> Better(p[2], V[p[1]], p[1])]
             Scan(f) == [i \in 0..n |-> IF i = 0 THEN Start
                                       ELSE Better(f[i - 1], Candidate(c, o, i - 1, m, fs), i - 1)]
  <1>1. n \in Nat
    BY DEF Views, Columns, VectorViews
  <1>2. V \in [Nat -> Int]
    BY CandidateIs
  <1>3. Start \in Results
    BY CostAssumption DEF Results
  <1>4. G \in [Nat \X Results -> Results]
    <2>1. ASSUME NEW i \in Nat, NEW r \in Results PROVE Better(r, V[i], i) \in Results
      <3>1. V[i] \in Int
        BY <1>2
      <3> HIDE DEF V
      <3>2. QED BY <3>1 DEF Better, Results
    <2> HIDE DEF V
    <2>2. QED BY <2>1
  <1>5. PICK f : Run(f, Results, Start, G, n)
    <2> HIDE DEF Start, G, n
    <2> QED BY <1>1, <1>3, <1>4, Iterates
  <1>6. f \in [0..n -> Results] /\ f[0] = Start
        /\ \A i \in 1..n : f[i] = Better(f[i - 1], V[i - 1], i - 1)
    <2>1. f \in [0..n -> Results] /\ f[0] = Start /\ \A i \in 1..n : f[i] = G[<<i - 1, f[i - 1]>>]
      BY <1>5 DEF Run
    <2> HIDE DEF n, V, Start
    <2>2. ASSUME NEW i \in 1..n PROVE f[i] = Better(f[i - 1], V[i - 1], i - 1)
      <3>1. i - 1 \in Nat /\ f[i - 1] \in Results
        BY <1>1, <2>1
      <3>2. QED BY <2>1, <3>1
    <2>3. QED BY <2>1, <2>2
  <1> HIDE DEF G, Start
  <1> DEFINE g == CHOOSE g : g = Scan(g)
  <1>7. OutputResult(c, o, m, fs) = g[n]
    BY DEF OutputResult, Start
  <1>8. \A i \in 1..n : V[i - 1] = Candidate(c, o, i - 1, m, fs)
    BY <1>1
  <1> HIDE DEF V
  <1>9. g = Scan(g)
    <2>1. f = Scan(f)
      <3> HIDE DEF n
      <3>1. ASSUME NEW i \in 0..n
            PROVE  f[i] = IF i = 0 THEN Start
                          ELSE Better(f[i - 1], Candidate(c, o, i - 1, m, fs), i - 1)
        BY <1>1, <1>6, <1>8
      <3>2. QED BY <1>6, <3>1
    <2> HIDE DEF Scan
    <2>2. QED BY <2>1
  <1>10. g[0] = Start /\ \A i \in 1..n : g[i] = Better(g[i - 1], V[i - 1], i - 1)
    <2> HIDE DEF n, g
    <2>1. \A i \in 0..n : g[i] = IF i = 0 THEN Start
                                 ELSE Better(g[i - 1], Candidate(c, o, i - 1, m, fs), i - 1)
      BY <1>9
    <2> HIDE DEF Scan
    <2>2. QED BY <1>1, <1>8, <2>1
  <1> HIDE DEF g, Scan
  <1> DEFINE Bad == {i \in Nat : i <= n /\ ~Scanned(g[i], V, i)}
  <1>11. Bad = {}
    <2> SUFFICES ASSUME Bad # {} PROVE FALSE
      OBVIOUS
    <2>1. PICK i \in Bad : \A e \in Bad : i <= e
      <3>1. Bad \subseteq Nat
        OBVIOUS
      <3> HIDE DEF Bad
      <3> QED BY <3>1, HasLeast
    <2>2. i \in Nat /\ i <= n /\ ~Scanned(g[i], V, i)
      BY <2>1
    <2>3. i # 0
      <3>1. Scanned(g[0], V, 0)
        BY <1>3, <1>10 DEF Scanned, Start
      <3>2. QED BY <2>2, <3>1
    <2>4. i - 1 \in Nat /\ i - 1 <= n /\ i \in 1..n
      BY <1>1, <2>2, <2>3
    <2>5. i - 1 \notin Bad
      <3> HIDE DEF Bad
      <3> QED BY <2>1, <2>2, <2>4
    <2>6. Scanned(g[i - 1], V, i - 1)
      BY <2>4, <2>5
    <2> HIDE DEF Bad, n
    <2>7. Scanned(Better(g[i - 1], V[i - 1], i - 1), V, (i - 1) + 1)
      BY <1>2, <2>4, <2>6, ScannedOn
    <2>8. (i - 1) + 1 = i
      BY <2>2
    <2>9. QED BY <1>10, <2>2, <2>4, <2>7, <2>8
  <1>12. Scanned(g[n], V, n)
    BY <1>1, <1>11
  <1>13. QED BY <1>7, <1>12 DEF V, n

-----------------------------------------------------------------------------
(* Shapes and positions.                                                   *)

(* What a valid command and a configuration give the loops.                *)
LEMMA ShapeIs ==
  ASSUME DataTypes
  PROVE  /\ Views(cmd) /\ OutputFields(cmd)
         /\ cmd.a.length \in Nat \ {0} /\ cmd.out.length \in Nat \ {0}
         /\ Outputs \in Nat \ {0} /\ Columns(cmd) \in Nat \ {0}
         /\ Vector => cmd.out.length = cmd.a.length /\ Columns(cmd) = 1 /\ cmd.out.kind = "cost"
         /\ ~Vector => cmd.out.length = Outputs /\ Columns(cmd) = cmd.a.length
         /\ ~Projection => Outputs = 1
         /\ config.lanes \in Nat \ {0} /\ config.tm \in Nat \ {0} /\ config.tn \in Nat \ {0}
         /\ config.beat \in Nat \ {0}
         /\ MemoryOf(mem0)
  <1>1. IsPrimitive(cmd) /\ cmd.kind \in Kinds \ {"batch"}
    BY DatapathAssumption DEF DataTypes, IsPrimitive
  <1>2. config \in [lanes : Nat \ {0}, tm : Nat \ {0}, tn : Nat \ {0}, beat : Nat \ {0}]
    BY DatapathAssumption DEF DataTypes
  <1>3. Views(cmd) /\ OutputFields(cmd)
    BY <1>1 DEF IsPrimitive, Views, OutputFields, OutputViews, ScalarOut, Out
  <1>4. ValidCommand(cmd) = "OK"
    BY DEF DataTypes
  <1>5. \A v \in VectorViews : VecEnd(v) # 0 => v.length \in Nat \ {0}
    BY DEF VecEnd, SpanEnd, VectorViews
  <1>6. \A m \in MatrixViews : MatEnd(m) # 0 => m.rows \in Nat \ {0}
    BY DEF MatEnd, SpanEnd, MatrixViews
  <1>7. cmd.a \in VectorViews /\ cmd.m \in MatrixViews
    BY <1>3 DEF Views
  <1>8. CASE cmd.kind \in ReduceKinds
    <2>1. ReduceShape(cmd) /\ cmd.out.length = 1
      BY <1>1, <1>4, <1>8, ValidFits DEF IsPrimitive, ScalarOut, Out
    <2>2. cmd.a.length \in Nat \ {0}
      BY <1>5, <1>7, <2>1 DEF ReduceShape
    <2>3. ~Vector /\ ~Projection
      BY <1>8 DEF Vector, Projection, ReduceKinds, Reduce2Kinds, Reduce3Kinds
    <2>4. QED BY <1>2, <1>3, <2>1, <2>2, <2>3 DEF Outputs, Columns, Vector, DataTypes, MemoryOf
  <1>9. CASE cmd.kind = "vector_add"
    <2>1. VectorAddShape(cmd)
      BY <1>1, <1>4, <1>9, ValidFits
    <2>2. cmd.a.length \in Nat \ {0}
      BY <1>5, <1>7, <2>1 DEF VectorAddShape
    <2>3. Vector /\ ~Projection
      BY <1>9 DEF Vector, Projection
    <2>4. QED BY <1>2, <1>3, <2>1, <2>2, <2>3
              DEF Outputs, Columns, Vector, VectorAddShape, DataTypes, MemoryOf
  <1>10. CASE cmd.kind = "project"
    <2>1. ProjectShape(cmd)
      BY <1>1, <1>4, <1>10, ValidFits
    <2>2. cmd.a.length \in Nat \ {0} /\ cmd.m.rows \in Nat \ {0}
      BY <1>5, <1>6, <1>7, <2>1 DEF ProjectShape
    <2>3. ~Vector /\ Projection
      BY <1>10 DEF Vector, Projection
    <2>4. QED BY <1>2, <1>3, <2>1, <2>2, <2>3
              DEF Outputs, Columns, Vector, ProjectShape, DataTypes, MemoryOf
  <1>11. CASE cmd.kind = "map3"
    <2>1. Map3Shape(cmd)
      BY <1>1, <1>4, <1>11, ValidFits
    <2>2. cmd.a.length \in Nat \ {0} /\ cmd.m.rows \in Nat \ {0}
      BY <1>5, <1>6, <1>7, <2>1 DEF Map3Shape
    <2>3. ~Vector /\ Projection
      BY <1>11 DEF Vector, Projection
    <2>4. QED BY <1>2, <1>3, <2>1, <2>2, <2>3
              DEF Outputs, Columns, Vector, Map3Shape, DataTypes, MemoryOf
  <1>12. QED BY <1>1, <1>8, <1>9, <1>10, <1>11 DEF Kinds

(* The columns of a chunk and the lanes of a group.                        *)
LEMMA ColsIs ==
  ASSUME DataTypes, chunk < cmd.a.length
  PROVE  /\ Cols \in 1..config.tn /\ chunk + Cols <= cmd.a.length
         /\ Least(cmd.a.length, chunk + config.tn) = chunk + Cols
         /\ group < Cols => Count \in 1..config.lanes /\ group + Count <= Cols
  <1>1. cmd.a.length \in Nat /\ config.tn \in Nat \ {0} /\ config.lanes \in Nat \ {0}
    BY ShapeIs
  <1>2. chunk \in Nat /\ group \in Nat
    BY DEF DataTypes
  <1>3. QED BY <1>1, <1>2 DEF Cols, Least, Count

(* The rows of a tile.                                                     *)
LEMMA RowsIs ==
  ASSUME DataTypes, tile < Outputs
  PROVE  /\ Rows \in 1..config.tm /\ tile + Rows <= Outputs
         /\ Least(tile + config.tm, Outputs) = tile + Rows
         /\ ~Projection => tile = 0 /\ Rows = 1
  <1>1. Outputs \in Nat /\ config.tm \in Nat \ {0} /\ (~Projection => Outputs = 1)
    BY ShapeIs
  <1>2. tile \in Nat
    BY DEF DataTypes
  <1>3. QED BY <1>1, <1>2 DEF Rows, Least

(* The five kinds of loop.                                                 *)
LEMMA KindsAre ==
  ASSUME DataTypes
  PROVE  /\ cmd.kind \in Reduce2Kinds \cup Reduce3Kinds \cup {"vector_add", "project", "map3"}
         /\ Map3 => Projection
         /\ Vector => ~Projection /\ ~Add3
         /\ Projection => ~Add3
         /\ ~Projection /\ ~Add3 => Vector \/ cmd.kind \in Reduce2Kinds
         /\ Projection /\ ~Map3 => cmd.kind = "project"
  BY ShapeIs DEF Views, Kinds, ReduceKinds, Reduce2Kinds, Reduce3Kinds, Vector, Projection, Map3, Add3

(* The outputs stored.                                                     *)
LEMMA StoredIs ==
  ASSUME DataTypes, LoopsOK
  PROVE  /\ Stored \in 0..cmd.out.length
         /\ pc # "write" /\ InTile => Stored = IF Vector THEN Least(chunk, cmd.a.length) ELSE tile
         /\ InChunk => Stored = IF Vector THEN chunk ELSE tile
         /\ pc = "write" => Stored = (IF Vector THEN chunk ELSE tile) + wr
         /\ phase = "ok" => Stored = cmd.out.length
         /\ InTile /\ ~Projection => tile = 0
  <1>1. InTile /\ ~Projection => tile = 0
    BY RowsIs DEF LoopsOK
  <1>2. CASE Vector
    <2>1. InTile => tile = 0
      BY <1>1, <1>2, KindsAre
    <2>2. cmd.out.length = cmd.a.length /\ Outputs = 1
      BY <1>2, ShapeIs, KindsAre
    <2>3. Stored = IF tile > 0 THEN cmd.a.length ELSE Least(chunk + wr, cmd.a.length)
      BY <1>2 DEF Stored
    <2>4. /\ cmd.a.length \in Nat /\ chunk \in Nat /\ wr \in Nat /\ tile \in Nat
          /\ pc # "write" /\ InTile => wr = 0
      BY ShapeIs DEF DataTypes, InTile, LoopsOK
    <2>5. pc = "write" => chunk + wr <= cmd.a.length
      BY <1>2, <2>4, ColsIs DEF LoopsOK, DataTypes
    <2>6. InChunk => InTile /\ chunk < cmd.a.length /\ pc # "write"
      BY DEF LoopsOK, InChunk, InTile
    <2>7. phase = "ok" => tile > 0
      BY <2>2, <2>4 DEF LoopsOK
    <2>8. pc = "write" => InTile
      BY DEF InTile
    <2>9. QED BY <1>1, <1>2, <2>1, <2>2, <2>3, <2>4, <2>5, <2>6, <2>7, <2>8 DEF Least
  <1>3. CASE ~Vector
    <2>1. cmd.out.length = Outputs /\ Outputs \in Nat /\ tile \in Nat /\ wr \in Nat
      BY <1>3, ShapeIs DEF DataTypes
    <2>2. Stored = Least(tile + wr, Outputs)
      BY <1>3 DEF Stored
    <2>3. InTile => tile < Outputs
      BY DEF LoopsOK
    <2>4. pc = "write" => InTile /\ tile + wr <= Outputs
      <3>1. pc = "write" => InTile /\ wr <= Rows
        BY <1>3 DEF LoopsOK, InTile
      <3>2. QED BY <2>1, <2>3, <3>1, RowsIs
    <2>5. InChunk => InTile /\ pc # "write"
      BY DEF InChunk, InTile
    <2>6. pc # "write" /\ InTile => wr = 0
      BY DEF LoopsOK, InTile
    <2>7. phase = "ok" => tile >= Outputs /\ wr = 0
      BY DEF LoopsOK
    <2>8. QED BY <1>1, <1>3, <2>1, <2>2, <2>3, <2>4, <2>5, <2>6, <2>7 DEF Least
  <1>4. QED BY <1>2, <1>3

-----------------------------------------------------------------------------
(* The contract is written with the same operators.                        *)

LEMMA SameResult ==
  ASSUME NEW c, NEW o, NEW m, NEW fs
  PROVE  Contract!OutputResult(c, o, m, fs) = OutputResult(c, o, m, fs)
  BY DEF Contract!OutputResult, OutputResult, Contract!Columns, Columns, Contract!Better, Better,
         Contract!Candidate, Candidate, Contract!SumAt, SumAt, Contract!Terms, Terms,
         Contract!ReadOk, ReadOk, Contract!CostAddChecked, CostAddChecked,
         Contract!CostAdd3Checked, CostAdd3Checked, Contract!CostError, CostError,
         Contract!VecAddr, VecAddr, Contract!MatAddr, MatAddr,
         Contract!Reduce2Kinds, Reduce2Kinds, Contract!Reduce3Kinds, Reduce3Kinds

LEMMA SameStore ==
  ASSUME NEW c, NEW o, NEW m, NEW fs, NEW r, NEW a, NEW n, NEW words, NEW kind
  PROVE  /\ Contract!OutAddr(c, o) = OutAddr(c, o)
         /\ Contract!OutWidth(kind) = OutWidth(kind)
         /\ Contract!ResultWords(c, r) = ResultWords(c, r)
         /\ Contract!WriteOk(fs, a, n) = WriteOk(fs, a, n)
         /\ Contract!Store(m, a, words) = Store(m, a, words)
  BY DEF Contract!OutAddr, OutAddr, Contract!OutWidth, OutWidth, Contract!ResultWords, ResultWords,
         Contract!WriteOk, WriteOk, Contract!Store, Store, Contract!StorePart, StorePart,
         Contract!PairCells, PairCells

-----------------------------------------------------------------------------
(* Sums and their operands.                                                *)

(* The sum of a column, in the order the functional model adds.            *)
LEMMA SumIs ==
  ASSUME DataTypes, NEW o \in Nat, NEW j \in Nat
  PROVE  /\ Sum(o, j) \in Int /\ Sum(o, j) <= Inf
         /\ ~Projection /\ ~Add3 =>
              Sum(o, j) = IF CanRead(VecAddr(cmd.a, j)) /\ CanRead(VecAddr(cmd.b, j))
                          THEN CostAddChecked(First(j), Second(j)) ELSE CostError
         /\ Add3 =>
              Sum(o, j) = IF /\ CanRead(VecAddr(cmd.a, j)) /\ CanRead(VecAddr(cmd.b, j))
                             /\ CanRead(VecAddr(cmd.c, j))
                          THEN CostAdd3Checked(First(j), Second(j), Third(j)) ELSE CostError
         /\ Projection /\ ~Map3 =>
              Sum(o, j) = IF CanRead(MatAddr(cmd.m, o, j)) /\ CanRead(VecAddr(cmd.a, j))
                          THEN CostAddChecked(Element(o, j), First(j)) ELSE CostError
         /\ Map3 =>
              Sum(o, j) = IF /\ CanRead(VecAddr(cmd.a, j)) /\ CanRead(VecAddr(cmd.b, j))
                             /\ CanRead(MatAddr(cmd.m, o, j))
                          THEN CostAdd3Checked(First(j), Second(j), Element(o, j)) ELSE CostError
  <1>1. Sum(o, j) \in Int /\ Sum(o, j) <= Inf
    <2>1. Views(cmd) /\ mem0 \in [Ram -> Int]
      BY ShapeIs DEF DataTypes
    <2>2. QED BY <2>1, CandidateIs DEF Sum
  <1>2. ASSUME NEW x, NEW y
        PROVE  SumAt(<<x, y>>, mem0, faults) = IF CanRead(x) /\ CanRead(y)
                                               THEN CostAddChecked(mem0[x], mem0[y]) ELSE CostError
    <2> DEFINE t == <<x, y>>
    <2>1. DOMAIN t = {1, 2} /\ Len(t) = 2 /\ t[1] = x /\ t[2] = y
      OBVIOUS
    <2> HIDE DEF t
    <2>2. SumAt(t, mem0, faults) = IF CanRead(x) /\ CanRead(y)
                                   THEN CostAddChecked(mem0[x], mem0[y]) ELSE CostError
      BY <2>1 DEF SumAt, CanRead
    <2>3. QED BY <2>2 DEF t
  <1>3. ASSUME NEW x, NEW y, NEW z
        PROVE  SumAt(<<x, y, z>>, mem0, faults) =
                 IF CanRead(x) /\ CanRead(y) /\ CanRead(z)
                 THEN CostAdd3Checked(mem0[x], mem0[y], mem0[z]) ELSE CostError
    <2> DEFINE t == <<x, y, z>>
    <2>1. DOMAIN t = {1, 2, 3} /\ Len(t) = 3 /\ t[1] = x /\ t[2] = y /\ t[3] = z
      OBVIOUS
    <2> HIDE DEF t
    <2>2. SumAt(t, mem0, faults) = IF CanRead(x) /\ CanRead(y) /\ CanRead(z)
                                   THEN CostAdd3Checked(mem0[x], mem0[y], mem0[z]) ELSE CostError
      BY <2>1 DEF SumAt, CanRead
    <2>3. QED BY <2>2 DEF t
  <1>4. CASE Vector
    <2>1. Terms(cmd, j, 0) = <<VecAddr(cmd.a, j), VecAddr(cmd.b, j)>>
      BY <1>4 DEF Terms, Vector, Reduce2Kinds, Reduce3Kinds
    <2>2. ~Projection /\ ~Add3 /\ ~Map3
      BY <1>4, KindsAre
    <2>3. QED BY <1>1, <1>2, <1>4, <2>1, <2>2 DEF Sum, Candidate, First, Second
  <1>5. CASE cmd.kind \in Reduce2Kinds
    <2>1. Terms(cmd, o, j) = <<VecAddr(cmd.a, j), VecAddr(cmd.b, j)>>
      BY <1>5 DEF Terms, Reduce2Kinds, Reduce3Kinds
    <2>2. ~Projection /\ ~Add3 /\ ~Map3 /\ ~Vector
      BY <1>5 DEF Projection, Add3, Map3, Vector, Reduce2Kinds, Reduce3Kinds
    <2>3. QED BY <1>1, <1>2, <2>1, <2>2 DEF Sum, Candidate, First, Second
  <1>6. CASE Add3
    <2>1. Terms(cmd, o, j) = <<VecAddr(cmd.a, j), VecAddr(cmd.b, j), VecAddr(cmd.c, j)>>
      BY <1>6 DEF Terms, Add3, Reduce2Kinds, Reduce3Kinds
    <2>2. ~Projection /\ ~Map3 /\ ~Vector
      BY <1>6 DEF Projection, Add3, Map3, Vector, Reduce3Kinds
    <2>3. QED BY <1>1, <1>3, <1>6, <2>1, <2>2 DEF Sum, Candidate, First, Second, Third
  <1>7. CASE cmd.kind = "project"
    <2>1. Terms(cmd, o, j) = <<MatAddr(cmd.m, o, j), VecAddr(cmd.a, j)>>
      BY <1>7 DEF Terms, Reduce2Kinds, Reduce3Kinds
    <2>2. Projection /\ ~Map3 /\ ~Vector /\ ~Add3
      BY <1>7 DEF Projection, Add3, Map3, Vector, Reduce3Kinds
    <2>3. QED BY <1>1, <1>2, <2>1, <2>2 DEF Sum, Candidate, First, Element
  <1>8. CASE cmd.kind = "map3"
    <2>1. Terms(cmd, o, j) = <<VecAddr(cmd.a, j), VecAddr(cmd.b, j), MatAddr(cmd.m, o, j)>>
      BY <1>8 DEF Terms, Reduce2Kinds, Reduce3Kinds
    <2>2. Projection /\ Map3 /\ ~Vector /\ ~Add3
      BY <1>8 DEF Projection, Add3, Map3, Vector, Reduce3Kinds
    <2>3. QED BY <1>1, <1>3, <2>1, <2>2 DEF Sum, Candidate, First, Second, Element
  <1>9. QED BY <1>4, <1>5, <1>6, <1>7, <1>8, KindsAre DEF Vector, Add3

Value(i) == OutputResult(cmd, i, mem0, faults)
(* The output a column of row o counts towards.                            *)
OutputAt(o, j) == IF Vector THEN j ELSE o

(* A sum that is no cost leaves its output without a value.                *)
LEMMA NoCostNoValue ==
  ASSUME DataTypes, NEW o \in 0..Outputs - 1, NEW j \in 0..cmd.a.length - 1,
         Sum(o, j) = CostError
  PROVE  OutputAt(o, j) \in 0..cmd.out.length - 1 /\ ~Value(OutputAt(o, j)).ok
  <1> DEFINE i == OutputAt(o, j)
             n == IF Vector THEN 0 ELSE j
             V == [k \in Nat |-> Candidate(cmd, i, k, mem0, faults)]
  <1>1. /\ Views(cmd) /\ Outputs \in Nat /\ cmd.a.length \in Nat
        /\ Vector => cmd.out.length = cmd.a.length /\ Columns(cmd) = 1
        /\ ~Vector => cmd.out.length = Outputs /\ Columns(cmd) = cmd.a.length
    BY ShapeIs
  <1>2. i \in 0..cmd.out.length - 1 /\ i \in Nat /\ n \in Nat /\ n \in 0..Columns(cmd) - 1
    BY <1>1 DEF OutputAt
  <1>3. V[n] = CostError
    BY <1>2 DEF Sum, OutputAt
  <1>4. mem0 \in [Ram -> Int]
    BY DEF DataTypes
  <1>5. Scanned(Value(i), V, Columns(cmd))
    BY <1>1, <1>2, <1>4, ResultIs DEF Value
  <1> HIDE DEF V, i, n
  <1>6. ~Value(i).ok
    BY <1>2, <1>3, <1>5 DEF Scanned
  <1>7. QED BY <1>2, <1>6 DEF i

(* The operands of the outputs still to come are as the primitive found    *)
(* them.                                                                   *)
LEMMA TermsOriginal ==
  ASSUME DataTypes, LoopsOK, StoredOK, phase # "failed",
         NEW o \in Stored..cmd.out.length - 1, NEW i \in 0..Columns(cmd) - 1,
         NEW t \in DOMAIN Terms(cmd, o, i), CanRead(Terms(cmd, o, i)[t])
  PROVE  mem[Terms(cmd, o, i)[t]] = mem0[Terms(cmd, o, i)[t]]
  <1> DEFINE x == Terms(cmd, o, i)[t]
  <1>1. /\ Views(cmd) /\ OutputFields(cmd) /\ ValidCommand(cmd) = "OK" /\ MemoryOf(mem0)
        /\ mem0 \in [Ram -> Int]
    BY ShapeIs DEF DataTypes
  <1>2. Stored \in 0..cmd.out.length
    BY StoredIs
  <1>3. OutputLoop(cmd, mem0, faults, Turns)
    BY <1>1, OutputsAre DEF Turns
  <1>4. Within(Turns[Stored], mem0, StoredCells(cmd, Stored)) /\ mem = Turns[Stored].mem
    BY <1>1, <1>2, <1>3, OutputsSoFar DEF StoredOK
  <1>5. o \in 0..cmd.out.length - 1 /\ cmd.out.length \in Nat
    BY <1>1, <1>2 DEF OutputFields
  <1>6. ASSUME NEW k \in 0..Stored - 1 PROVE x \notin OutputCells(cmd, k)
    <2>1. k \in 0..cmd.out.length - 1 /\ k # o
      BY <1>2, <1>5
    <2>2. QED BY <1>1, <1>5, <2>1, OperandsApart
  <1>7. x \notin StoredCells(cmd, Stored)
    BY <1>6 DEF StoredCells
  <1>8. x \in Ram
    <2>1. x \in Nat
      <3>1. o \in Nat /\ i \in Nat
        BY <1>5, <1>1, ShapeIs
      <3>2. LET s == Terms(cmd, o, i)
            IN  \/ DOMAIN s = {1, 2} /\ s[1] \in Nat /\ s[2] \in Nat
                \/ DOMAIN s = {1, 2, 3} /\ s[1] \in Nat /\ s[2] \in Nat /\ s[3] \in Nat
        BY <1>1, <3>1, TermsType
      <3>3. QED BY <3>2
    <2> HIDE DEF x
    <2>2. CanRead(x)
      BY DEF x
    <2>3. QED BY <2>1, <2>2 DEF CanRead, ReadOk
  <1>9. QED BY <1>1, <1>4, <1>7, <1>8 DEF Within

(* So is what a chunk loads, or could.                                     *)
LEMMA OperandsOriginal ==
  ASSUME DataTypes, LoopsOK, StoredOK, InChunk, NEW j \in chunk..cmd.a.length - 1,
         NEW r \in 0..Rows - 1
  PROVE  /\ CanRead(VecAddr(cmd.a, j)) => mem[VecAddr(cmd.a, j)] = First(j)
         /\ (~Projection \/ Map3) /\ CanRead(VecAddr(cmd.b, j)) =>
              mem[VecAddr(cmd.b, j)] = Second(j)
         /\ Add3 /\ CanRead(VecAddr(cmd.c, j)) => mem[VecAddr(cmd.c, j)] = Third(j)
         /\ Projection /\ CanRead(MatAddr(cmd.m, tile + r, j)) =>
              mem[MatAddr(cmd.m, tile + r, j)] = Element(tile + r, j)
  <1> DEFINE o == IF Vector THEN j ELSE tile + r
             i == IF Vector THEN 0 ELSE j
  <1>1. phase # "failed"
    BY DEF LoopsOK, InChunk
  <1>2. tile < Outputs /\ chunk < cmd.a.length
    BY DEF LoopsOK, InChunk, InTile
  <1>3. tile \in Nat /\ chunk \in Nat /\ Rows \in Nat /\ tile + Rows <= Outputs
    <2>1. Rows \in 1..config.tm /\ tile + Rows <= Outputs /\ config.tm \in Nat
      BY <1>2, RowsIs, ShapeIs
    <2>2. QED BY <2>1 DEF DataTypes
  <1>4. o \in Stored..cmd.out.length - 1 /\ i \in 0..Columns(cmd) - 1
    <2>1. Stored = (IF Vector THEN chunk ELSE tile)
      BY StoredIs
    <2>2. cmd.out.length \in Nat /\ Columns(cmd) \in Nat /\ cmd.a.length \in Nat /\ Outputs \in Nat
      BY ShapeIs
    <2>3. CASE Vector
      BY <1>2, <1>3, <2>1, <2>2, <2>3, ShapeIs
    <2>4. CASE ~Vector
      BY <1>2, <1>3, <2>1, <2>2, <2>4, ShapeIs
    <2>5. QED BY <2>3, <2>4
  <1> HIDE DEF o, i
  <1>5. ASSUME NEW t \in DOMAIN Terms(cmd, o, i), CanRead(Terms(cmd, o, i)[t])
        PROVE  mem[Terms(cmd, o, i)[t]] = mem0[Terms(cmd, o, i)[t]]
    BY <1>1, <1>4, <1>5, TermsOriginal
  <1>6. ASSUME NEW x, NEW y, Terms(cmd, o, i) = <<x, y>>
        PROVE  /\ CanRead(x) => mem[x] = mem0[x]
               /\ CanRead(y) => mem[y] = mem0[y]
    <2> DEFINE s == Terms(cmd, o, i)
    <2>1. DOMAIN s = {1, 2} /\ s[1] = x /\ s[2] = y
      BY <1>6
    <2>2. QED BY <1>5, <2>1
  <1>7. ASSUME NEW x, NEW y, NEW z, Terms(cmd, o, i) = <<x, y, z>>
        PROVE  /\ CanRead(x) => mem[x] = mem0[x]
               /\ CanRead(y) => mem[y] = mem0[y]
               /\ CanRead(z) => mem[z] = mem0[z]
    <2> DEFINE s == Terms(cmd, o, i)
    <2>1. DOMAIN s = {1, 2, 3} /\ s[1] = x /\ s[2] = y /\ s[3] = z
      BY <1>7
    <2>2. QED BY <1>5, <2>1
  <1>8. CASE Vector
    <2>1. o = j /\ ~Projection /\ ~Add3
      BY <1>8, KindsAre DEF o
    <2>2. Terms(cmd, o, i) = <<VecAddr(cmd.a, j), VecAddr(cmd.b, j)>>
      BY <1>8, <2>1 DEF Terms, Vector, Reduce2Kinds, Reduce3Kinds
    <2>3. QED BY <1>6, <2>1, <2>2 DEF First, Second
  <1>9. CASE cmd.kind \in Reduce2Kinds
    <2>1. ~Projection /\ ~Add3 /\ ~Map3 /\ i = j
      BY <1>9 DEF Projection, Add3, Map3, Vector, Reduce2Kinds, Reduce3Kinds, i
    <2>2. Terms(cmd, o, i) = <<VecAddr(cmd.a, j), VecAddr(cmd.b, j)>>
      BY <1>9, <2>1 DEF Terms, Reduce2Kinds, Reduce3Kinds
    <2>3. QED BY <1>6, <2>1, <2>2 DEF First, Second
  <1>10. CASE Add3
    <2>1. ~Projection /\ ~Map3 /\ i = j
      BY <1>10 DEF Projection, Add3, Map3, Vector, Reduce2Kinds, Reduce3Kinds, i
    <2>2. Terms(cmd, o, i) = <<VecAddr(cmd.a, j), VecAddr(cmd.b, j), VecAddr(cmd.c, j)>>
      BY <1>10, <2>1 DEF Terms, Add3, Reduce2Kinds, Reduce3Kinds
    <2>3. QED BY <1>7, <1>10, <2>1, <2>2 DEF First, Second, Third
  <1>11. CASE cmd.kind = "project"
    <2>1. Projection /\ ~Map3 /\ ~Add3 /\ i = j /\ o = tile + r
      BY <1>11 DEF Projection, Add3, Map3, Vector, Reduce2Kinds, Reduce3Kinds, i, o
    <2>2. Terms(cmd, o, i) = <<MatAddr(cmd.m, o, j), VecAddr(cmd.a, j)>>
      BY <1>11, <2>1 DEF Terms, Reduce2Kinds, Reduce3Kinds
    <2>3. QED BY <1>6, <2>1, <2>2 DEF First, Element
  <1>12. CASE cmd.kind = "map3"
    <2>1. Projection /\ Map3 /\ ~Add3 /\ i = j /\ o = tile + r
      BY <1>12 DEF Projection, Add3, Map3, Vector, Reduce2Kinds, Reduce3Kinds, i, o
    <2>2. Terms(cmd, o, i) = <<VecAddr(cmd.a, j), VecAddr(cmd.b, j), MatAddr(cmd.m, o, j)>>
      BY <1>12, <2>1 DEF Terms, Reduce2Kinds, Reduce3Kinds
    <2>3. QED BY <1>7, <2>1, <2>2 DEF First, Second, Element
  <1>13. QED BY <1>8, <1>9, <1>10, <1>11, <1>12, KindsAre DEF Vector, Add3

(* Column k of a row is the element load() finds there.                    *)
LEMMA RowElement ==
  ASSUME DataTypes, NEW k \in Nat
  PROVE  VecAddr(RowView, k) = MatAddr(cmd.m, tile + row, k)
  <1>1. cmd.m \in MatrixViews /\ tile \in Nat /\ row \in Nat
    BY ShapeIs DEF DataTypes, Views
  <1> DEFINE p == (tile + row) * cmd.m.row_stride
             q == k * cmd.m.column_stride
  <1>2. cmd.m.base \in Nat /\ cmd.m.row_stride \in Nat /\ cmd.m.column_stride \in Nat
    BY <1>1 DEF MatrixViews
  <1>3. p \in Nat /\ q \in Nat /\ 0 * cmd.m.column_stride = 0
    BY <1>1, <1>2, ProductMonotone
  <1>4. QED BY <1>2, <1>3 DEF VecAddr, RowView, Vec, MatAddr

-----------------------------------------------------------------------------
(* What a step may do to memory and to the outputs stored.                 *)

WordsOf(i) == ResultWords(cmd, Value(i))
CanStore(i) == WriteOk(faults, OutAddr(cmd, i), OutWidth(cmd.out.kind))
With(i) == Store(mem, OutAddr(cmd, i), WordsOf(i))
Inputs == <<cmd, mem0, faults>>

Idles == UNCHANGED <<Inputs, mem, Stored, phase>>
Stores == /\ phase = "run" /\ Stored < cmd.out.length /\ Value(Stored).ok /\ CanStore(Stored)
          /\ mem' = With(Stored) /\ Stored' = Stored + 1 /\ UNCHANGED <<Inputs, phase>>
Finishes == /\ phase = "run" /\ Stored = cmd.out.length /\ phase' = "ok"
            /\ UNCHANGED <<Inputs, mem, Stored>>
Abandons == /\ phase = "run" /\ \E i \in Stored..cmd.out.length - 1 : ~Value(i).ok
            /\ phase' = "failed" /\ UNCHANGED <<Inputs, mem, Stored>>
Refused == /\ phase = "run" /\ Stored < cmd.out.length /\ Value(Stored).ok /\ ~CanStore(Stored)
           /\ \A x \in Ram : mem'[x] \in {mem[x], With(Stored)[x]}
           /\ phase' = "failed" /\ UNCHANGED <<Inputs, Stored>>
Effect == Idles \/ Stores \/ Finishes \/ Abandons \/ Refused

(* These are the steps of the contract.                                    *)
LEMMA EffectIsContract ==
  ASSUME Effect
  PROVE  [Contract!ContractNext]_Contract!contractVars
  <1>1. \A i : Contract!Value(i) = Value(i)
    BY SameResult DEF Contract!Value, Value
  <1>2. Contract!Stored = With(Stored) /\ Contract!Storable = CanStore(Stored)
    BY <1>1, SameStore DEF Contract!Stored, Contract!Storable, With, CanStore, WordsOf
  <1>3. CASE Idles
    BY <1>3 DEF Idles, Inputs, Contract!contractVars
  <1>4. CASE Stores
    BY <1>1, <1>2, <1>4 DEF Stores, Inputs, Contract!ContractNext, Contract!StoreOutput
  <1>5. CASE Finishes
    BY <1>5 DEF Finishes, Inputs, Contract!ContractNext, Contract!Succeed
  <1>6. CASE Abandons
    BY <1>1, <1>6 DEF Abandons, Inputs, Contract!ContractNext, Contract!NoValue
  <1>7. CASE Refused
    BY <1>1, <1>2, <1>7 DEF Refused, Inputs, Contract!ContractNext, Contract!StoreFails
  <1>8. QED BY <1>3, <1>4, <1>5, <1>6, <1>7 DEF Effect

(* They keep memory that of the functional model.                          *)
LEMMA EffectAgrees ==
  ASSUME DataTypes, LoopsOK, StoredOK, Effect
  PROVE  StoredOK'
  <1>1. /\ Views(cmd) /\ OutputFields(cmd) /\ ValidCommand(cmd) = "OK" /\ MemoryOf(mem0)
    BY ShapeIs DEF DataTypes
  <1>2. Stored \in 0..cmd.out.length /\ cmd.out.length \in Nat
    BY <1>1, StoredIs DEF OutputFields
  <1>3. OutputLoop(cmd, mem0, faults, Turns)
    BY <1>1, OutputsAre DEF Turns
  <1>4. Turns' = Turns /\ cmd' = cmd
    BY DEF Effect, Idles, Stores, Finishes, Abandons, Refused, Inputs, Turns
  <1>5. ASSUME NEW i \in 0..cmd.out.length - 1
        PROVE  /\ i + 1 \in 0..cmd.out.length
               /\ Turns[i + 1] = StoreResult(cmd, i, Turns[i], Value(i), faults)
    BY <1>1, <1>2, <1>3, OutputsIndependent DEF Value
  <1>6. ASSUME NEW i \in 0..cmd.out.length, ~Turns[i].ok
        PROVE  ~Turns[cmd.out.length].ok
    BY <1>1, <1>3, <1>6, FailureSticks
  <1>7. CASE Idles
    <2>1. mem' = mem /\ Stored' = Stored /\ phase' = phase
      BY <1>7 DEF Idles
    <2>2. QED BY <1>4, <2>1 DEF StoredOK
  <1>8. CASE Finishes
    <2>1. mem' = mem /\ Stored' = Stored /\ phase' = "ok" /\ phase = "run"
      BY <1>8 DEF Finishes
    <2>2. QED BY <1>4, <2>1 DEF StoredOK
  <1>9. CASE Stores
    <2>1. /\ mem' = With(Stored) /\ Stored' = Stored + 1 /\ phase' = phase /\ phase = "run"
          /\ Stored \in 0..cmd.out.length - 1 /\ Value(Stored).ok /\ CanStore(Stored)
      BY <1>2, <1>9 DEF Stores
    <2>2. Turns[Stored].ok /\ mem = Turns[Stored].mem
      BY <2>1 DEF StoredOK
    <2>3. Turns[Stored + 1] = [ok |-> TRUE, mem |-> With(Stored)]
      BY <1>5, <2>1, <2>2 DEF StoreResult, With, WordsOf, CanStore
    <2>4. QED BY <1>4, <2>1, <2>3 DEF StoredOK
  <1>10. ASSUME NEW i \in 0..cmd.out.length - 1, ~(Value(i).ok /\ CanStore(i))
         PROVE  ~Turns[cmd.out.length].ok
    <2> DEFINE t == Turns[i]
    <2>1. Within(t, mem0, StoredCells(cmd, i))
      <3>1. i \in 0..cmd.out.length
        BY <1>2
      <3>2. QED BY <1>1, <1>3, <3>1, OutputsSoFar
    <2>2. Turns[i + 1] = [t EXCEPT !.ok = FALSE]
      BY <1>5, <1>10 DEF StoreResult, CanStore
    <2>3. ~Turns[i + 1].ok
      <3> HIDE DEF t
      <3> QED BY <2>1, <2>2 DEF Within
    <2>4. QED BY <1>5, <1>6, <2>3
  <1>11. CASE Abandons
    <2>1. PICK i \in Stored..cmd.out.length - 1 : ~Value(i).ok
      BY <1>11 DEF Abandons
    <2>2. i \in 0..cmd.out.length - 1 /\ phase' = "failed"
      BY <1>2, <1>11, <2>1 DEF Abandons
    <2>3. QED BY <1>4, <1>10, <2>1, <2>2 DEF StoredOK
  <1>12. CASE Refused
    <2>1. Stored \in 0..cmd.out.length - 1 /\ ~CanStore(Stored) /\ phase' = "failed"
      BY <1>2, <1>12 DEF Refused
    <2>2. QED BY <1>4, <1>10, <2>1 DEF StoredOK
  <1>13. QED BY <1>7, <1>8, <1>9, <1>11, <1>12 DEF Effect

-----------------------------------------------------------------------------
(* What a step leaves alone.                                               *)

LEMMA Fixed ==
  ASSUME UNCHANGED fixedVars
  PROVE  /\ config' = config /\ cmd' = cmd /\ mem0' = mem0 /\ faults' = faults
         /\ Vector' = Vector /\ Map3' = Map3 /\ Projection' = Projection /\ Add3' = Add3
         /\ Outputs' = Outputs
         /\ \A o, j : Sum(o, j)' = Sum(o, j) /\ Element(o, j)' = Element(o, j)
         /\ \A j : /\ First(j)' = First(j) /\ Second(j)' = Second(j) /\ Third(j)' = Third(j)
                   /\ Shared(j)' = Shared(j)
         /\ \A x : CanRead(x)' = CanRead(x)
  BY DEF fixedVars, Vector, Map3, Projection, Add3, Outputs, Sum, First, Second, Third, Shared,
         Element, CanRead

LEMMA FixedLeast ==
  ASSUME UNCHANGED fixedVars
  PROVE  \A st, o, n : LeastSum(st, o, n)' <=> LeastSum(st, o, n)
  BY Fixed DEF LeastSum

LEMMA FixedShape ==
  ASSUME UNCHANGED fixedVars
  PROVE  /\ tile' = tile => Rows' = Rows
         /\ chunk' = chunk => Cols' = Cols
         /\ UNCHANGED <<tile, chunk, wr>> => Stored' = Stored
         /\ UNCHANGED Inputs
  <1>1. tile' = tile => Rows' = Rows
    BY Fixed DEF Rows, Least
  <1>2. chunk' = chunk => Cols' = Cols
    BY Fixed DEF Cols, Least
  <1>3. UNCHANGED <<tile, chunk, wr>> => Stored' = Stored
    BY Fixed DEF Stored, Least
  <1>4. QED BY <1>1, <1>2, <1>3, Fixed DEF Inputs

(* Outside a chunk the banks hold nothing of interest, and outside a tile  *)
(* the minima do not either.                                               *)
LEMMA OutOfChunk ==
  ASSUME pc' \in {"tile", "chunk", "first", "done"} \/ (pc' = "write" /\ ~Vector')
  PROVE  BanksOK'
  BY DEF BanksOK, ColumnOK

LEMMA OutOfTile ==
  ASSUME pc' \in {"tile", "done"}
  PROVE  MinimaOK'
  BY DEF MinimaOK, InTile

Keeps == DataTypes' /\ LoopsOK' /\ BanksOK' /\ MinimaOK' /\ Effect

(* What holds inside a tile and inside a chunk.                            *)
LEMMA TileFacts ==
  ASSUME DataInv, InTile
  PROVE  /\ phase = "run" /\ tile < Outputs
         /\ tile \in Nat /\ row \in Nat /\ chunk \in Nat /\ group \in Nat /\ wr \in Nat
         /\ Rows \in 1..config.tm /\ Rows \in Nat /\ config.tm \in Nat /\ tile + Rows <= Outputs
         /\ Outputs \in Nat /\ cmd.a.length \in Nat /\ cmd.a.length # 0
         /\ config.tn \in Nat /\ config.tn # 0 /\ config.lanes \in Nat /\ config.lanes # 0
         /\ ~Projection => tile = 0 /\ Rows = 1
  <1>1. phase = "run" /\ tile < Outputs
    BY DEF DataInv, LoopsOK, InTile
  <1>2. tile \in Nat /\ row \in Nat /\ chunk \in Nat /\ group \in Nat /\ wr \in Nat
    BY DEF DataInv, DataTypes
  <1>3. DataTypes
    BY DEF DataInv
  <1>4. Rows \in 1..config.tm /\ tile + Rows <= Outputs /\ (~Projection => tile = 0 /\ Rows = 1)
    BY <1>1, <1>3, RowsIs
  <1>5. /\ Outputs \in Nat /\ cmd.a.length \in Nat \ {0} /\ config.tn \in Nat \ {0}
        /\ config.lanes \in Nat \ {0} /\ config.tm \in Nat
    BY <1>3, ShapeIs
  <1>6. QED BY <1>1, <1>2, <1>4, <1>5

LEMMA ChunkFacts ==
  ASSUME DataInv, InChunk
  PROVE  /\ InTile /\ wr = 0 /\ chunk < cmd.a.length
         /\ Cols \in 1..config.tn /\ Cols \in Nat /\ chunk + Cols <= cmd.a.length
         /\ Least(cmd.a.length, chunk) = chunk
         /\ Stored = (IF Vector THEN chunk ELSE tile)
         /\ group < Cols => Count \in 1..config.lanes /\ Count \in Nat /\ group + Count <= Cols
         /\ \A k \in 0..Cols - 1 : chunk + k \in chunk..cmd.a.length - 1 /\ chunk + k \in Nat
  <1>1. InTile
    BY DEF InChunk, InTile
  <1>2. DataTypes /\ LoopsOK /\ wr = 0 /\ chunk < cmd.a.length
    BY DEF DataInv, LoopsOK, InChunk
  <1>3. /\ Cols \in 1..config.tn /\ chunk + Cols <= cmd.a.length
        /\ group < Cols => Count \in 1..config.lanes /\ group + Count <= Cols
    BY <1>2, ColsIs
  <1>4. Stored = (IF Vector THEN chunk ELSE tile)
    BY <1>2, StoredIs
  <1>5. chunk \in Nat /\ cmd.a.length \in Nat /\ config.tn \in Nat /\ config.lanes \in Nat
    BY <1>1, TileFacts
  <1>6. QED BY <1>1, <1>2, <1>3, <1>4, <1>5 DEF Least

(* A return of false.                                                      *)
LEMMA GivenUp ==
  ASSUME DataInv, pc # "done", GiveUp, mem' \in [Ram -> Int]
  PROVE  /\ DataTypes' /\ LoopsOK' /\ BanksOK' /\ MinimaOK'
         /\ phase = "run" /\ phase' = "failed" /\ Stored' = Stored /\ UNCHANGED Inputs
  <1>1. UNCHANGED fixedVars /\ UNCHANGED <<tile, row, chunk, group, bank, valid, states, wr>>
    BY DEF GiveUp, loopVars
  <1>2. pc' = "done" /\ phase' = "failed" /\ phase = "run"
    BY DEF GiveUp, DataInv, LoopsOK
  <1>3. DataTypes'
    BY <1>1, <1>2, Fixed DEF DataInv, DataTypes
  <1>4. LoopsOK'
    BY <1>2 DEF LoopsOK, InTile, InChunk
  <1>5. QED BY <1>1, <1>2, <1>3, <1>4, OutOfChunk, OutOfTile, FixedShape

(* It is justified by a sum that is no cost.                               *)
LEMMA ColumnFails ==
  ASSUME DataInv, InChunk, GiveUp, UNCHANGED mem,
         NEW r \in 0..Rows - 1, NEW k \in 0..Cols - 1, Sum(tile + r, chunk + k) = CostError
  PROVE  Keeps
  <1>1. pc # "done" /\ mem' \in [Ram -> Int]
    BY DEF InChunk, DataInv, DataTypes
  <1>2. /\ DataTypes' /\ LoopsOK' /\ BanksOK' /\ MinimaOK'
        /\ phase = "run" /\ phase' = "failed" /\ Stored' = Stored /\ UNCHANGED Inputs
    BY <1>1, GivenUp
  <1> DEFINE o == tile + r
             j == chunk + k
  <1>3. o \in 0..Outputs - 1 /\ j \in 0..cmd.a.length - 1
    BY ChunkFacts, TileFacts
  <1>4. OutputAt(o, j) \in 0..cmd.out.length - 1 /\ ~Value(OutputAt(o, j)).ok
    <2>1. DataTypes
      BY DEF DataInv
    <2>2. QED BY <1>3, <2>1, NoCostNoValue
  <1>5. OutputAt(o, j) >= Stored /\ Stored \in Nat
    BY ChunkFacts, TileFacts DEF OutputAt
  <1>6. OutputAt(o, j) \in Stored..cmd.out.length - 1
    <2> HIDE DEF o, j
    <2>1. cmd.out.length \in Nat
      BY ShapeIs DEF DataInv
    <2>2. QED BY <1>4, <1>5, <2>1
  <1>7. Abandons
    BY <1>2, <1>4, <1>6 DEF Abandons
  <1>8. QED BY <1>2, <1>7 DEF Keeps, Effect

-----------------------------------------------------------------------------
(* The loops of primitive().                                               *)

LEMMA BeginTileKeeps ==
  ASSUME DataInv, BeginTile
  PROVE  Keeps
  <1>1. /\ UNCHANGED fixedVars /\ UNCHANGED <<mem, phase, tile, row, group, bank, valid, wr>>
        /\ pc = "tile" /\ tile < Outputs /\ chunk' = 0 /\ pc' = "chunk"
    BY DEF BeginTile
  <1>2. /\ tile \in Nat /\ wr = 0 /\ phase = "run"
        /\ Outputs \in Nat /\ config.tm \in Nat /\ cmd.a.length \in Nat
        /\ Rows \in 1..config.tm /\ (Vector => Outputs = 1)
    BY <1>1, ShapeIs, RowsIs, KindsAre DEF DataInv, DataTypes, LoopsOK
  <1>3. states' = [r \in DOMAIN states |->
                     IF r < Rows THEN [value |-> Inf, index |-> 0] ELSE states[r]]
    BY DEF BeginTile
  <1>4. DataTypes'
    <2>1. states' \in [0..config.tm - 1 -> [value : Int, index : Nat]]
      BY <1>3, CostAssumption DEF DataInv, DataTypes
    <2>2. QED BY <1>1, <2>1, Fixed DEF DataInv, DataTypes
  <1>5. LoopsOK'
    BY <1>1, <1>2, Fixed DEF LoopsOK, InTile, InChunk
  <1>6. MinimaOK'
    <2>1. ASSUME NEW r \in 0..Rows - 1
          PROVE  LeastSum(states'[r], tile + r, 0)
      <3>1. states'[r] = [value |-> Inf, index |-> 0]
        BY <1>2, <1>3 DEF DataInv, DataTypes
      <3>2. QED BY <3>1 DEF LeastSum
    <2>2. \A r : Behind(r)' = 0
      BY <1>1, <1>2, Fixed DEF Behind, Least
    <2>3. Rows' = Rows
      BY <1>1, FixedShape
    <2>4. QED BY <1>1, <2>1, <2>2, <2>3, FixedLeast DEF MinimaOK
  <1>7. Stored' = Stored
    <2>1. CASE Vector
      <3>1. tile = 0 /\ chunk = 0
        BY <1>1, <1>2, <2>1 DEF DataInv, LoopsOK
      <3>2. QED BY <1>1, <2>1, <3>1, FixedShape
    <2>2. CASE ~Vector
      BY <1>1, <2>2, Fixed DEF Stored, Least
    <2>3. QED BY <2>1, <2>2
  <1>8. QED BY <1>1, <1>4, <1>5, <1>6, <1>7, OutOfChunk, FixedShape DEF Keeps, Effect, Idles

LEMMA BeginChunkKeeps ==
  ASSUME DataInv, BeginChunk
  PROVE  Keeps
  <1>1. /\ UNCHANGED fixedVars
        /\ UNCHANGED <<mem, phase, tile, chunk, bank, valid, states, wr>>
        /\ pc = "chunk" /\ chunk < cmd.a.length /\ pc' = "first" /\ row' = 0 /\ group' = 0
    BY DEF BeginChunk
  <1>2. InTile
    BY <1>1 DEF InTile
  <1>3. DataTypes'
    BY <1>1, Fixed DEF DataInv, DataTypes
  <1>4. LoopsOK'
    BY <1>1, Fixed DEF DataInv, LoopsOK, InTile, InChunk
  <1>5. MinimaOK'
    <2>1. \A r : Behind(r)' = Behind(r)
      BY <1>1, Fixed DEF Behind, Least
    <2>2. Rows' = Rows
      BY <1>1, FixedShape
    <2>3. QED BY <1>1, <1>2, <2>1, <2>2, Fixed, FixedLeast DEF MinimaOK, DataInv
  <1>6. QED BY <1>1, <1>3, <1>4, <1>5, OutOfChunk, FixedShape DEF Keeps, Effect, Idles

LEMMA EndChunkKeeps ==
  ASSUME DataInv, EndChunk
  PROVE  Keeps
  <1>1. /\ UNCHANGED fixedVars
        /\ UNCHANGED <<mem, phase, tile, row, group, bank, valid, states, wr>>
        /\ pc = "row" /\ row = Rows
        /\ Vector => pc' = "write" /\ chunk' = chunk
        /\ ~Vector => pc' = "chunk" /\ chunk' = chunk + config.tn
    BY DEF EndChunk
  <1>2. InTile /\ InChunk
    BY <1>1 DEF InTile, InChunk
  <1>3. /\ phase = "run" /\ tile < Outputs /\ wr = 0 /\ chunk < cmd.a.length
        /\ chunk \in Nat /\ config.tn \in Nat /\ Cols \in Nat /\ Rows \in Nat /\ Rows # 0
        /\ chunk + config.tn \in Nat
    BY <1>2, TileFacts, ChunkFacts
  <1>4. DataTypes'
    BY <1>1, <1>3, Fixed DEF DataInv, DataTypes
  <1>5. LoopsOK'
    <2>1. CASE Vector
      BY <1>1, <1>3, <2>1, Fixed, FixedShape DEF DataInv, LoopsOK, InTile, InChunk
    <2>2. CASE ~Vector
      BY <1>1, <1>3, <2>2, Fixed DEF DataInv, LoopsOK, InTile, InChunk
    <2>3. QED BY <2>1, <2>2
  <1>6. CASE Vector
    <2>1. BanksOK'
      <3>1. ASSUME NEW k \in 0..Cols - 1 PROVE ColumnOK(k)'
        <4>1. ColumnOK(k)
          BY DEF DataInv, BanksOK
        <4>2. bank[0][k] = Sum(tile, chunk + k) /\ Sum(tile, chunk + k) # CostError
          BY <1>1, <1>3, <1>6, <4>1, KindsAre DEF ColumnOK, Added, DataInv
        <4>3. QED BY <1>1, <1>6, <4>2, Fixed DEF ColumnOK
      <3>2. Cols' = Cols
        BY <1>1, <1>6, FixedShape
      <3>3. QED BY <1>1, <1>6, <3>1, <3>2 DEF BanksOK
    <2>2. MinimaOK'
      BY <1>1, <1>6, Fixed DEF MinimaOK
    <2>3. QED BY <1>1, <1>4, <1>5, <1>6, <2>1, <2>2, FixedShape DEF Keeps, Effect, Idles
  <1>7. CASE ~Vector
    <2>1. MinimaOK'
      <3>1. Least(cmd.a.length, chunk + config.tn) = chunk + Cols
        BY <1>3, ColsIs DEF DataInv
      <3>2. \A r \in 0..Rows - 1 : Behind(r) = chunk + Cols
        BY <1>1, <1>3 DEF Behind
      <3>3. \A r : Behind(r)' = chunk + Cols
        BY <1>1, <1>7, <3>1, Fixed DEF Behind, Least
      <3>4. Rows' = Rows
        BY <1>1, FixedShape
      <3>5. QED BY <1>1, <1>2, <1>7, <3>2, <3>3, <3>4, Fixed, FixedLeast DEF MinimaOK, DataInv
    <2>2. Stored' = Stored
      BY <1>1, <1>7, Fixed DEF Stored, Least
    <2>3. QED BY <1>1, <1>4, <1>5, <1>7, <2>1, <2>2, OutOfChunk, FixedShape
              DEF Keeps, Effect, Idles
  <1>8. QED BY <1>6, <1>7

LEMMA VectorStoredKeeps ==
  ASSUME DataInv, VectorStored
  PROVE  Keeps
  <1>1. /\ UNCHANGED fixedVars
        /\ UNCHANGED <<mem, phase, tile, row, group, bank, valid, states>>
        /\ pc = "write" /\ Vector /\ wr = Cols
        /\ pc' = "chunk" /\ chunk' = chunk + config.tn /\ wr' = 0
    BY DEF VectorStored
  <1>2. InTile /\ DataTypes /\ LoopsOK /\ chunk < cmd.a.length
    BY <1>1 DEF InTile, DataInv, LoopsOK
  <1>3. /\ phase = "run" /\ tile < Outputs
        /\ chunk \in Nat /\ config.tn \in Nat /\ cmd.a.length \in Nat /\ tile = 0
        /\ chunk + config.tn \in Nat
    BY <1>1, <1>2, TileFacts, KindsAre
  <1>4. DataTypes'
    BY <1>1, <1>3, Fixed DEF DataInv, DataTypes
  <1>5. LoopsOK'
    BY <1>1, <1>3, Fixed DEF DataInv, LoopsOK, InTile, InChunk
  <1>6. MinimaOK'
    BY <1>1, Fixed DEF MinimaOK
  <1>7. Stored' = Stored
    <2>1. Stored = chunk + Cols
      BY <1>1, <1>2, StoredIs
    <2>2. Least(cmd.a.length, chunk + config.tn) = chunk + Cols
      BY <1>2, ColsIs
    <2>3. Stored' = Least(chunk + config.tn + 0, cmd.a.length)
      BY <1>1, <1>3, Fixed DEF Stored, Least
    <2>4. QED BY <1>3, <2>1, <2>2, <2>3 DEF Least
  <1>8. QED BY <1>1, <1>4, <1>5, <1>6, <1>7, OutOfChunk, FixedShape DEF Keeps, Effect, Idles

LEMMA ColumnsDoneKeeps ==
  ASSUME DataInv, ColumnsDone
  PROVE  Keeps
  <1>1. /\ UNCHANGED fixedVars
        /\ UNCHANGED <<mem, phase, row, chunk, group, bank, valid, states, wr>>
        /\ pc = "chunk" /\ chunk >= cmd.a.length
        /\ Vector => pc' = "tile" /\ tile' = tile + config.tm
        /\ ~Vector => pc' = "write" /\ tile' = tile
    BY DEF ColumnsDone
  <1>2. InTile /\ DataTypes /\ LoopsOK /\ wr = 0
    BY <1>1 DEF InTile, DataInv, LoopsOK
  <1>3. /\ phase = "run" /\ tile < Outputs /\ tile \in Nat
        /\ chunk \in Nat /\ cmd.a.length \in Nat /\ Rows \in Nat /\ Rows # 0
        /\ config.tm \in Nat /\ config.tm # 0 /\ tile + config.tm \in Nat
    BY <1>2, TileFacts
  <1>4. DataTypes'
    BY <1>1, <1>3, Fixed DEF DataInv, DataTypes
  <1>5. LoopsOK'
    <2>1. CASE Vector
      BY <1>1, <1>2, <1>3, <2>1, Fixed DEF DataInv, LoopsOK, InTile, InChunk
    <2>2. CASE ~Vector
      BY <1>1, <1>2, <1>3, <2>2, Fixed, FixedShape DEF DataInv, LoopsOK, InTile, InChunk
    <2>3. QED BY <2>1, <2>2
  <1>6. BanksOK'
    BY <1>1, Fixed, OutOfChunk
  <1>7. CASE Vector
    <2>1. Stored = cmd.a.length
      BY <1>1, <1>2, <1>3, <1>7, StoredIs DEF Least
    <2>2. Stored' = cmd.a.length
      BY <1>1, <1>3, <1>7, Fixed DEF Stored
    <2>3. QED BY <1>1, <1>4, <1>5, <1>6, <1>7, <2>1, <2>2, OutOfTile, FixedShape
              DEF Keeps, Effect, Idles
  <1>8. CASE ~Vector
    <2>1. MinimaOK'
      <3>1. \A r : Behind(r)' = Behind(r)
        BY <1>1, <1>3, <1>8, Fixed DEF Behind, Least
      <3>2. Rows' = Rows
        BY <1>1, <1>8, FixedShape
      <3>3. QED BY <1>1, <1>2, <1>8, <3>1, <3>2, Fixed, FixedLeast DEF MinimaOK, DataInv
    <2>2. QED BY <1>1, <1>4, <1>5, <1>6, <1>8, <2>1, FixedShape DEF Keeps, Effect, Idles
  <1>9. QED BY <1>7, <1>8

LEMMA EndTileKeeps ==
  ASSUME DataInv, EndTile
  PROVE  Keeps
  <1>1. /\ UNCHANGED fixedVars
        /\ UNCHANGED <<mem, phase, row, chunk, group, bank, valid, states>>
        /\ pc = "write" /\ ~Vector /\ wr = Rows
        /\ pc' = "tile" /\ tile' = tile + config.tm /\ wr' = 0
    BY DEF EndTile
  <1>2. InTile /\ DataTypes /\ LoopsOK
    BY <1>1 DEF InTile, DataInv
  <1>3. /\ phase = "run" /\ tile < Outputs /\ tile \in Nat /\ Outputs \in Nat
        /\ config.tm \in Nat /\ tile + config.tm \in Nat
    BY <1>2, TileFacts
  <1>4. DataTypes'
    BY <1>1, <1>3, Fixed DEF DataInv, DataTypes
  <1>5. LoopsOK'
    BY <1>1, <1>3, Fixed DEF LoopsOK, InTile, InChunk
  <1>6. Stored' = Stored
    <2>1. Stored = tile + Rows
      BY <1>1, <1>2, StoredIs
    <2>2. Least(tile + config.tm, Outputs) = tile + Rows
      BY <1>2, <1>3, RowsIs
    <2>3. Stored' = Least(tile + config.tm + 0, Outputs)
      BY <1>1, Fixed DEF Stored, Least
    <2>4. QED BY <1>3, <2>1, <2>2, <2>3
  <1>7. QED BY <1>1, <1>4, <1>5, <1>6, OutOfChunk, OutOfTile, FixedShape DEF Keeps, Effect, Idles

LEMMA SucceedKeeps ==
  ASSUME DataInv, Succeed
  PROVE  Keeps
  <1>1. /\ UNCHANGED fixedVars
        /\ UNCHANGED <<mem, tile, row, chunk, group, bank, valid, states, wr>>
        /\ pc = "tile" /\ tile >= Outputs /\ pc' = "done" /\ phase' = "ok"
    BY DEF Succeed, loopVars
  <1>2. DataTypes /\ LoopsOK /\ wr = 0 /\ phase = "run"
    BY <1>1 DEF DataInv, LoopsOK
  <1>3. DataTypes'
    BY <1>1, Fixed DEF DataInv, DataTypes
  <1>4. LoopsOK'
    BY <1>1, <1>2, Fixed DEF LoopsOK, InTile, InChunk
  <1>5. Stored = cmd.out.length
    <2>1. Outputs \in Nat \ {0} /\ tile \in Nat
      BY <1>2, ShapeIs DEF DataTypes
    <2>2. QED BY <1>1, <1>2, <2>1, ShapeIs DEF Stored, Least
  <1>6. QED BY <1>1, <1>2, <1>3, <1>4, <1>5, OutOfChunk, OutOfTile, FixedShape
            DEF Keeps, Effect, Finishes

-----------------------------------------------------------------------------
(* load().                                                                 *)

(* What is loaded, column by column.                                       *)
LEMMA LoadIs ==
  ASSUME DataInv, InChunk, NEW b \in 0..2, NEW view, Readable(view, chunk, Cols), Load(b, view),
         view = RowView \/ view \in VectorViews
  PROVE  /\ bank' \in [0..2 -> [0..config.tn - 1 -> Int]] /\ valid' \in [0..2 -> Int]
         /\ valid'[b] = Cols /\ \A c \in 0..2 \ {b} : valid'[c] = valid[c]
         /\ \A k \in 0..Cols - 1 : /\ CanRead(VecAddr(view, chunk + k))
                                   /\ bank'[b][k] = mem[VecAddr(view, chunk + k)]
         /\ \A c \in 0..2 \ {b} : bank'[c] = bank[c]
  <1>1. /\ Cols \in 1..config.tn /\ Cols \in Nat /\ chunk \in Nat /\ config.tn \in Nat
    BY ChunkFacts, TileFacts
  <1>2. /\ bank \in [0..2 -> [0..config.tn - 1 -> Int]] /\ valid \in [0..2 -> Int]
        /\ mem \in [Ram -> Int]
    BY DEF DataInv, DataTypes
  <1>3. ASSUME NEW k \in 0..Cols - 1
        PROVE  CanRead(VecAddr(view, chunk + k)) /\ mem[VecAddr(view, chunk + k)] \in Int
    <2>1. CanRead(VecAddr(view, chunk + k))
      BY <1>1 DEF Readable, CanRead
    <2>2. VecAddr(view, chunk + k) \in Nat
      <3>1. CASE view \in VectorViews
        <4>1. chunk + k \in Nat /\ view.base \in Nat /\ view.stride \in Nat
          BY <1>1, <3>1 DEF VectorViews
        <4>2. (chunk + k) * view.stride \in Nat
          BY <4>1, ProductMonotone
        <4>3. QED BY <4>1, <4>2 DEF VecAddr
      <3>2. CASE view = RowView
        <4>1. /\ VecAddr(view, chunk + k) = MatAddr(cmd.m, tile + row, chunk + k)
              /\ chunk + k \in Nat /\ tile + row \in Nat /\ cmd.m \in MatrixViews
          <5>1. DataTypes /\ chunk + k \in Nat /\ tile + row \in Nat
            BY <1>1, ChunkFacts, TileFacts DEF DataInv
          <5>2. QED BY <3>2, <5>1, RowElement, ShapeIs DEF Views
        <4>2. cmd.m.base \in Nat /\ cmd.m.row_stride \in Nat /\ cmd.m.column_stride \in Nat
          BY <4>1 DEF MatrixViews
        <4>3. /\ (tile + row) * cmd.m.row_stride \in Nat
              /\ (chunk + k) * cmd.m.column_stride \in Nat
          BY <4>1, <4>2, ProductMonotone
        <4>4. QED BY <4>1, <4>2, <4>3 DEF MatAddr
      <3>3. QED BY <3>1, <3>2
    <2> DEFINE x == VecAddr(view, chunk + k)
    <2> HIDE DEF x
    <2>3. x \in Nat /\ CanRead(x)
      BY <2>1, <2>2 DEF x
    <2>4. x \in Ram
      BY <2>3 DEF CanRead, ReadOk
    <2>5. QED BY <1>2, <2>1, <2>4 DEF x
  <1> DEFINE new == [k \in 0..config.tn - 1 |->
                       IF k < Cols THEN mem[VecAddr(view, chunk + k)] ELSE bank[b][k]]
  <1>4. bank' = [bank EXCEPT ![b] = new] /\ valid' = [valid EXCEPT ![b] = Cols]
    BY <1>2 DEF Load
  <1>5. new \in [0..config.tn - 1 -> Int]
    <2>1. ASSUME NEW k \in 0..config.tn - 1 PROVE new[k] \in Int
      <3>1. CASE k < Cols
        <4>1. k \in 0..Cols - 1 /\ new[k] = mem[VecAddr(view, chunk + k)]
          BY <1>1, <3>1
        <4>2. QED BY <1>3, <4>1
      <3>2. CASE ~(k < Cols)
        <4>1. new[k] = bank[b][k]
          BY <3>2
        <4>2. QED BY <1>2, <4>1
      <3>3. QED BY <3>1, <3>2
    <2>2. QED BY <2>1
  <1>6. \A k \in 0..Cols - 1 : new[k] = mem[VecAddr(view, chunk + k)]
    BY <1>1
  <1> HIDE DEF new
  <1>7. bank' \in [0..2 -> [0..config.tn - 1 -> Int]] /\ bank'[b] = new
        /\ \A c \in 0..2 \ {b} : bank'[c] = bank[c]
    <2> DEFINE Banks == [0..config.tn - 1 -> Int]
    <2>1. bank \in [0..2 -> Banks] /\ new \in Banks
      BY <1>2, <1>5
    <2> HIDE DEF Banks
    <2>2. bank' \in [0..2 -> Banks] /\ bank'[b] = new /\ \A c \in 0..2 \ {b} : bank'[c] = bank[c]
      BY <1>4, <2>1
    <2>3. QED BY <2>2 DEF Banks
  <1>8. valid' \in [0..2 -> Int] /\ valid'[b] = Cols /\ \A c \in 0..2 \ {b} : valid'[c] = valid[c]
    BY <1>1, <1>2, <1>4
  <1>9. QED BY <1>3, <1>6, <1>7, <1>8

(* A column that cannot be read.                                           *)
LEMMA Unreadable ==
  ASSUME DataInv, InChunk, NEW view, ~Readable(view, chunk, Cols)
  PROVE  \E k \in 0..Cols - 1 : ~CanRead(VecAddr(view, chunk + k))
  <1>1. chunk \in Nat /\ Cols \in Nat
    BY ChunkFacts, TileFacts
  <1>2. PICK i \in chunk..chunk + Cols - 1 : ~CanRead(VecAddr(view, i))
    BY DEF Readable, CanRead
  <1>3. i - chunk \in 0..Cols - 1 /\ chunk + (i - chunk) = i
    BY <1>1
  <1>4. QED BY <1>2, <1>3

(* A load at the start of a chunk changes neither the minima nor memory.   *)
LEMMA LoadStays ==
  ASSUME DataInv, InChunk, UNCHANGED fixedVars, UNCHANGED <<mem, phase, tile, chunk, states, wr>>,
         pc \in {"first", "second", "third"}, pc' \in {"second", "third", "preadd", "row"},
         row' = 0 /\ group' = 0,
         bank' \in [0..2 -> [0..config.tn - 1 -> Int]] /\ valid' \in [0..2 -> Int],
         pc' = "second" => ~Projection \/ Map3, pc' = "third" => Add3, pc' = "preadd" => Map3
  PROVE  DataTypes' /\ LoopsOK' /\ MinimaOK' /\ Effect
  <1>1. DataTypes'
    BY Fixed DEF DataInv, DataTypes
  <1>2. /\ tile < Outputs /\ chunk < cmd.a.length /\ Cols \in Nat /\ Cols # 0
        /\ Rows \in Nat /\ wr = 0 /\ phase = "run"
    BY ChunkFacts, TileFacts
  <1>3. Cols' = Cols /\ Rows' = Rows /\ Stored' = Stored /\ UNCHANGED Inputs
    BY FixedShape
  <1>4. LoopsOK'
    BY <1>2, <1>3, Fixed DEF LoopsOK, InTile, InChunk
  <1>5. MinimaOK'
    <2>1. \A r \in Nat : Behind(r) = chunk /\ Behind(r)' = chunk
      BY <1>2, ChunkFacts, Fixed DEF Behind, Least
    <2>2. InTile
      BY ChunkFacts
    <2>3. \A r \in 0..Rows - 1 : r \in Nat
      BY <1>2
    <2>4. QED BY <1>3, <2>1, <2>2, <2>3, Fixed, FixedLeast DEF MinimaOK, DataInv
  <1>6. QED BY <1>1, <1>3, <1>4, <1>5 DEF Effect, Idles

LEMMA LoadFirstKeeps ==
  ASSUME DataInv, LoadFirst
  PROVE  Keeps
  <1>1. pc = "first" /\ InChunk
    BY DEF LoadFirst, InChunk
  <1>2. CASE Readable(cmd.a, chunk, Cols)
    <2>1. /\ Load(0, cmd.a) /\ row' = 0 /\ group' = 0
          /\ pc' = IF Projection /\ ~Map3 THEN "row" ELSE "second"
          /\ UNCHANGED fixedVars /\ UNCHANGED <<mem, phase, tile, chunk, states, wr>>
      BY <1>2 DEF LoadFirst, LoadView
    <2>2. cmd.a \in VectorViews
      BY ShapeIs DEF DataInv, Views
    <2>3. /\ bank' \in [0..2 -> [0..config.tn - 1 -> Int]] /\ valid' \in [0..2 -> Int]
          /\ valid'[0] = Cols
          /\ \A k \in 0..Cols - 1 : /\ CanRead(VecAddr(cmd.a, chunk + k))
                                    /\ bank'[0][k] = mem[VecAddr(cmd.a, chunk + k)]
      BY <1>1, <1>2, <2>1, <2>2, LoadIs
    <2>4. DataTypes' /\ LoopsOK' /\ MinimaOK' /\ Effect
      BY <1>1, <2>1, <2>3, LoadStays
    <2>5. Cols' = Cols
      BY <2>1, FixedShape
    <2>6. ASSUME NEW k \in 0..Cols - 1 PROVE ColumnOK(k)'
      <3>1. CanRead(VecAddr(cmd.a, chunk + k)) /\ bank'[0][k] = First(chunk + k)
        <4>1. 0 \in 0..Rows - 1
          BY <1>1, ChunkFacts, TileFacts
        <4>2. chunk + k \in chunk..cmd.a.length - 1
          BY <1>1, ChunkFacts
        <4>3. QED BY <1>1, <2>3, <4>1, <4>2, OperandsOriginal DEF DataInv
      <3>2. Projection /\ ~Map3 => ~Add3 /\ ~Vector
        BY KindsAre DEF DataInv
      <3>3. CASE Projection /\ ~Map3
        <4>1. pc' = "row"
          BY <2>1, <3>3
        <4>2. QED BY <2>1, <3>1, <3>2, <3>3, <4>1, Fixed DEF ColumnOK, Shared
      <3>4. CASE ~(Projection /\ ~Map3)
        <4>1. pc' = "second"
          BY <2>1, <3>4
        <4>2. QED BY <2>1, <3>1, <4>1, Fixed DEF ColumnOK
      <3>5. QED BY <3>3, <3>4
    <2>7. BanksOK'
      BY <2>1, <2>3, <2>5, <2>6 DEF BanksOK
    <2>8. QED BY <2>4, <2>7 DEF Keeps
  <1>3. CASE ~Readable(cmd.a, chunk, Cols)
    <2>1. UNCHANGED mem /\ GiveUp
      BY <1>3 DEF LoadFirst, LoadView
    <2>2. PICK k \in 0..Cols - 1 : ~CanRead(VecAddr(cmd.a, chunk + k))
      BY <1>1, <1>3, Unreadable
    <2>3. 0 \in 0..Rows - 1 /\ tile + 0 \in Nat /\ chunk + k \in Nat
      BY <1>1, ChunkFacts, TileFacts
    <2>4. Sum(tile + 0, chunk + k) = CostError
      <3>1. DataTypes
        BY DEF DataInv
      <3>2. QED BY <2>2, <2>3, <3>1, SumIs, KindsAre
    <2>5. QED BY <1>1, <2>1, <2>3, <2>4, ColumnFails
  <1>4. QED BY <1>2, <1>3

LEMMA LoadSecondKeeps ==
  ASSUME DataInv, LoadSecond
  PROVE  Keeps
  <1>1. pc = "second" /\ InChunk
    BY DEF LoadSecond, InChunk
  <1>2. ~Projection \/ Map3
    BY <1>1 DEF DataInv, LoopsOK
  <1>3. CASE Readable(cmd.b, chunk, Cols)
    <2>1. /\ Load(1, cmd.b) /\ row' = 0 /\ group' = 0
          /\ pc' = IF Add3 THEN "third" ELSE IF Map3 THEN "preadd" ELSE "row"
          /\ UNCHANGED fixedVars /\ UNCHANGED <<mem, phase, tile, chunk, states, wr>>
      BY <1>3 DEF LoadSecond, LoadView
    <2>2. cmd.b \in VectorViews
      BY ShapeIs DEF DataInv, Views
    <2>3. /\ bank' \in [0..2 -> [0..config.tn - 1 -> Int]] /\ valid' \in [0..2 -> Int]
          /\ valid'[0] = valid[0] /\ bank'[0] = bank[0]
          /\ \A k \in 0..Cols - 1 : /\ CanRead(VecAddr(cmd.b, chunk + k))
                                    /\ bank'[1][k] = mem[VecAddr(cmd.b, chunk + k)]
      BY <1>1, <1>3, <2>1, <2>2, LoadIs
    <2>4. DataTypes' /\ LoopsOK' /\ MinimaOK' /\ Effect
      BY <1>1, <2>1, <2>3, LoadStays
    <2>5. Cols' = Cols /\ valid[0] = Cols
      BY <1>1, <2>1, FixedShape DEF DataInv, BanksOK
    <2>6. ASSUME NEW k \in 0..Cols - 1 PROVE ColumnOK(k)'
      <3>1. CanRead(VecAddr(cmd.b, chunk + k)) /\ bank'[1][k] = Second(chunk + k)
        <4>1. 0 \in 0..Rows - 1
          BY <1>1, ChunkFacts, TileFacts
        <4>2. chunk + k \in chunk..cmd.a.length - 1
          BY <1>1, ChunkFacts
        <4>3. QED BY <1>1, <1>2, <2>3, <4>1, <4>2, OperandsOriginal DEF DataInv
      <3>2. CanRead(VecAddr(cmd.a, chunk + k)) /\ bank'[0][k] = First(chunk + k)
        BY <1>1, <2>3 DEF ColumnOK, DataInv, BanksOK
      <3>3. CASE Add3
        <4>1. pc' = "third"
          BY <2>1, <3>3
        <4>2. QED BY <2>1, <3>1, <3>2, <4>1, Fixed DEF ColumnOK
      <3>4. CASE ~Add3 /\ Map3
        <4>1. pc' = "preadd" /\ ~(k < 0)
          BY <1>1, <2>1, <3>4, ChunkFacts
        <4>2. QED BY <2>1, <3>1, <3>2, <4>1, Fixed DEF ColumnOK
      <3>5. CASE ~Add3 /\ ~Map3
        <4>1. pc' = "row"
          BY <2>1, <3>5
        <4>2. QED BY <1>2, <2>1, <3>1, <3>2, <3>5, <4>1, Fixed DEF ColumnOK, Added
      <3>6. QED BY <3>3, <3>4, <3>5
    <2>7. BanksOK'
      BY <2>1, <2>3, <2>5, <2>6 DEF BanksOK
    <2>8. QED BY <2>4, <2>7 DEF Keeps
  <1>4. CASE ~Readable(cmd.b, chunk, Cols)
    <2>1. UNCHANGED mem /\ GiveUp
      BY <1>4 DEF LoadSecond, LoadView
    <2>2. PICK k \in 0..Cols - 1 : ~CanRead(VecAddr(cmd.b, chunk + k))
      BY <1>1, <1>4, Unreadable
    <2>3. 0 \in 0..Rows - 1 /\ tile + 0 \in Nat /\ chunk + k \in Nat
      BY <1>1, ChunkFacts, TileFacts
    <2>4. Sum(tile + 0, chunk + k) = CostError
      <3>1. DataTypes
        BY DEF DataInv
      <3>2. QED BY <1>2, <2>2, <2>3, <3>1, SumIs, KindsAre
    <2>5. QED BY <1>1, <2>1, <2>3, <2>4, ColumnFails
  <1>5. QED BY <1>3, <1>4

LEMMA LoadThirdKeeps ==
  ASSUME DataInv, LoadThird
  PROVE  Keeps
  <1>1. pc = "third" /\ InChunk
    BY DEF LoadThird, InChunk
  <1>2. Add3 /\ ~Projection /\ ~Map3 /\ ~Vector
    BY <1>1, KindsAre DEF DataInv, LoopsOK
  <1>3. CASE Readable(cmd.c, chunk, Cols)
    <2>1. /\ Load(2, cmd.c) /\ row' = 0 /\ group' = 0 /\ pc' = "row"
          /\ UNCHANGED fixedVars /\ UNCHANGED <<mem, phase, tile, chunk, states, wr>>
      BY <1>3 DEF LoadThird, LoadView
    <2>2. cmd.c \in VectorViews
      BY ShapeIs DEF DataInv, Views
    <2>3. /\ bank' \in [0..2 -> [0..config.tn - 1 -> Int]] /\ valid' \in [0..2 -> Int]
          /\ valid'[0] = valid[0] /\ bank'[0] = bank[0] /\ bank'[1] = bank[1]
          /\ \A k \in 0..Cols - 1 : /\ CanRead(VecAddr(cmd.c, chunk + k))
                                    /\ bank'[2][k] = mem[VecAddr(cmd.c, chunk + k)]
      BY <1>1, <1>3, <2>1, <2>2, LoadIs
    <2>4. DataTypes' /\ LoopsOK' /\ MinimaOK' /\ Effect
      BY <1>1, <2>1, <2>3, LoadStays
    <2>5. Cols' = Cols /\ valid[0] = Cols
      BY <1>1, <2>1, FixedShape DEF DataInv, BanksOK
    <2>6. ASSUME NEW k \in 0..Cols - 1 PROVE ColumnOK(k)'
      <3>1. CanRead(VecAddr(cmd.c, chunk + k)) /\ bank'[2][k] = Third(chunk + k)
        <4>1. 0 \in 0..Rows - 1
          BY <1>1, ChunkFacts, TileFacts
        <4>2. chunk + k \in chunk..cmd.a.length - 1
          BY <1>1, ChunkFacts
        <4>3. QED BY <1>1, <1>2, <2>3, <4>1, <4>2, OperandsOriginal DEF DataInv
      <3>2. /\ CanRead(VecAddr(cmd.a, chunk + k)) /\ bank'[0][k] = First(chunk + k)
            /\ CanRead(VecAddr(cmd.b, chunk + k)) /\ bank'[1][k] = Second(chunk + k)
        BY <1>1, <2>3 DEF ColumnOK, DataInv, BanksOK
      <3>3. QED BY <1>2, <2>1, <3>1, <3>2, Fixed DEF ColumnOK, Added
    <2>7. BanksOK'
      BY <2>1, <2>3, <2>5, <2>6 DEF BanksOK
    <2>8. QED BY <2>4, <2>7 DEF Keeps
  <1>4. CASE ~Readable(cmd.c, chunk, Cols)
    <2>1. UNCHANGED mem /\ GiveUp
      BY <1>4 DEF LoadThird, LoadView
    <2>2. PICK k \in 0..Cols - 1 : ~CanRead(VecAddr(cmd.c, chunk + k))
      BY <1>1, <1>4, Unreadable
    <2>3. 0 \in 0..Rows - 1 /\ tile + 0 \in Nat /\ chunk + k \in Nat
      BY <1>1, ChunkFacts, TileFacts
    <2>4. Sum(tile + 0, chunk + k) = CostError
      <3>1. DataTypes
        BY DEF DataInv
      <3>2. QED BY <1>2, <2>2, <2>3, <3>1, SumIs
    <2>5. QED BY <1>1, <2>1, <2>3, <2>4, ColumnFails
  <1>5. QED BY <1>3, <1>4

-----------------------------------------------------------------------------
(* The rows of a chunk.                                                    *)

LEMMA BeginRowKeeps ==
  ASSUME DataInv, BeginRow
  PROVE  Keeps
  <1>1. pc = "row" /\ row < Rows /\ InChunk
    BY DEF BeginRow, InChunk
  <1>2. /\ tile < Outputs /\ chunk < cmd.a.length /\ Cols \in Nat /\ Cols # 0 /\ row \in Nat
        /\ Rows \in Nat /\ wr = 0 /\ phase = "run" /\ InTile /\ chunk \in Nat /\ tile \in Nat
    BY <1>1, ChunkFacts, TileFacts
  <1>3. ASSUME UNCHANGED fixedVars, UNCHANGED <<mem, phase, tile, row, chunk, states, wr>>,
               bank' \in [0..2 -> [0..config.tn - 1 -> Int]], valid' \in [0..2 -> Int],
               pc' = "add", group' = 0
        PROVE  DataTypes' /\ LoopsOK' /\ MinimaOK' /\ Effect
    <2>1. DataTypes'
      BY <1>3, Fixed DEF DataInv, DataTypes
    <2>2. Cols' = Cols /\ Rows' = Rows /\ Stored' = Stored /\ UNCHANGED Inputs
      BY <1>3, FixedShape
    <2>3. LoopsOK'
      BY <1>1, <1>2, <1>3, <2>2, Fixed DEF LoopsOK, InTile, InChunk
    <2>4. MinimaOK'
      <3>1. \A r \in Nat : Behind(r)' = Behind(r)
        BY <1>1, <1>2, <1>3, <2>2 DEF Behind
      <3>2. \A r \in 0..Rows - 1 : r \in Nat
        BY <1>2
      <3>3. QED BY <1>2, <1>3, <2>2, <3>1, <3>2, Fixed, FixedLeast DEF MinimaOK, DataInv
    <2>5. QED BY <1>3, <2>1, <2>2, <2>3, <2>4 DEF Effect, Idles
  <1>4. CASE ~Projection
    <2>1. /\ UNCHANGED fixedVars /\ UNCHANGED <<mem, phase, tile, row, chunk, states, wr>>
          /\ UNCHANGED <<bank, valid>> /\ pc' = "add" /\ group' = 0
      BY <1>4 DEF BeginRow
    <2>2. DataTypes' /\ LoopsOK' /\ MinimaOK' /\ Effect
      BY <1>3, <2>1 DEF DataInv, DataTypes
    <2>3. ASSUME NEW k \in 0..Cols - 1 PROVE ColumnOK(k)'
      <3>1. ColumnOK(k) /\ ~(k < 0)
        BY <1>2 DEF DataInv, BanksOK
      <3>2. Added(k)' <=> Added(k)
        BY <1>1, <2>1, <3>1 DEF Added
      <3>3. QED BY <1>1, <1>4, <2>1, <3>1, <3>2, Fixed DEF ColumnOK
    <2>4. BanksOK'
      BY <1>1, <1>4, <2>1, <2>3, FixedShape, Fixed DEF BanksOK, DataInv
    <2>5. QED BY <2>2, <2>4 DEF Keeps
  <1>5. CASE Projection /\ Readable(RowView, chunk, Cols)
    <2>1. /\ UNCHANGED fixedVars /\ UNCHANGED <<mem, phase, tile, row, chunk, states, wr>>
          /\ Load(2, RowView) /\ pc' = "add" /\ group' = 0
      BY <1>5 DEF BeginRow
    <2>2. /\ bank' \in [0..2 -> [0..config.tn - 1 -> Int]] /\ valid' \in [0..2 -> Int]
          /\ valid'[2] = Cols /\ valid'[0] = valid[0] /\ bank'[0] = bank[0]
          /\ \A k \in 0..Cols - 1 : /\ CanRead(VecAddr(RowView, chunk + k))
                                    /\ bank'[2][k] = mem[VecAddr(RowView, chunk + k)]
      BY <1>1, <1>5, <2>1, LoadIs
    <2>3. DataTypes' /\ LoopsOK' /\ MinimaOK' /\ Effect
      BY <1>3, <2>1, <2>2
    <2>4. ASSUME NEW k \in 0..Cols - 1 PROVE ColumnOK(k)'
      <3>1. ColumnOK(k) /\ ~(k < 0)
        BY <1>2 DEF DataInv, BanksOK
      <3>2. /\ CanRead(MatAddr(cmd.m, tile + row, chunk + k))
            /\ bank'[2][k] = mem[MatAddr(cmd.m, tile + row, chunk + k)]
        <4>1. chunk + k \in Nat /\ DataTypes
          BY <1>2 DEF DataInv
        <4>2. QED BY <2>2, <4>1, RowElement
      <3>3. bank'[2][k] = Element(tile + row, chunk + k)
        <4>1. row \in 0..Rows - 1
          BY <1>1, <1>2
        <4>2. chunk + k \in chunk..cmd.a.length - 1
          BY <1>1, ChunkFacts
        <4>3. QED BY <1>1, <1>5, <3>2, <4>1, <4>2, OperandsOriginal DEF DataInv
      <3>4. ~Add3 /\ ~Vector
        BY <1>5, KindsAre DEF DataInv
      <3>5. QED BY <1>1, <1>5, <2>1, <2>2, <3>1, <3>2, <3>3, <3>4, Fixed DEF ColumnOK
    <2>5. BanksOK'
      BY <1>1, <2>1, <2>2, <2>4, FixedShape DEF BanksOK, DataInv
    <2>6. QED BY <2>3, <2>5 DEF Keeps
  <1>6. CASE Projection /\ ~Readable(RowView, chunk, Cols)
    <2>1. UNCHANGED mem /\ GiveUp
      BY <1>6 DEF BeginRow
    <2>2. PICK k \in 0..Cols - 1 : ~CanRead(VecAddr(RowView, chunk + k))
      BY <1>1, <1>6, Unreadable
    <2>3. row \in 0..Rows - 1 /\ tile + row \in Nat /\ chunk + k \in Nat /\ DataTypes
      BY <1>1, <1>2 DEF DataInv
    <2>4. ~CanRead(MatAddr(cmd.m, tile + row, chunk + k))
      BY <2>2, <2>3, RowElement
    <2>5. Sum(tile + row, chunk + k) = CostError
      BY <1>6, <2>3, <2>4, SumIs
    <2>6. QED BY <1>1, <2>1, <2>3, <2>5, ColumnFails
  <1>7. QED BY <1>4, <1>5, <1>6

-----------------------------------------------------------------------------
(* add(): the lanes of a group.                                            *)

LEMMA GroupIs ==
  ASSUME DataInv, InChunk, group < Cols
  PROVE  /\ \A k \in Lanes : k \in 0..Cols - 1 /\ ~(k < group) /\ k \in Nat
         /\ group + config.lanes < Cols =>
              /\ \A k \in 0..Cols - 1 : k < group + config.lanes <=> k < group \/ k \in Lanes
              /\ group + Count = group + config.lanes /\ group + config.lanes \in Nat
         /\ ~(group + config.lanes < Cols) =>
              (\A k \in 0..Cols - 1 : k < group \/ k \in Lanes) /\ group + Count = Cols
  <1>1. /\ group \in Nat /\ Count \in Nat /\ Cols \in Nat /\ group + Count <= Cols
        /\ config.lanes \in Nat
    BY ChunkFacts, TileFacts
  <1>2. Count = IF config.lanes < Cols - group THEN config.lanes ELSE Cols - group
    BY DEF Count, Least
  <1>3. QED BY <1>1, <1>2 DEF Lanes

LEMMA OverlayIs ==
  ASSUME DataInv, InChunk, group < Cols, NEW b \in 0..2, NEW sums \in [Lanes -> Int],
         bank' = [bank EXCEPT ![b] = Overlay(bank[b], sums)]
  PROVE  /\ bank' \in [0..2 -> [0..config.tn - 1 -> Int]]
         /\ \A k \in 0..Cols - 1 : bank'[b][k] = IF k \in Lanes THEN sums[k] ELSE bank[b][k]
         /\ \A c \in 0..2 \ {b} : bank'[c] = bank[c]
  <1> DEFINE Banks == [0..config.tn - 1 -> Int]
             new == Overlay(bank[b], sums)
  <1>1. bank \in [0..2 -> Banks] /\ bank[b] \in Banks
    BY DEF DataInv, DataTypes
  <1>2. Cols \in 1..config.tn /\ config.tn \in Nat
    BY ChunkFacts, TileFacts
  <1>3. new \in Banks
    BY <1>1 DEF Overlay
  <1>4. \A k \in 0..Cols - 1 : new[k] = IF k \in Lanes THEN sums[k] ELSE bank[b][k]
    BY <1>1, <1>2 DEF Overlay
  <1> HIDE DEF Banks, new
  <1>5. bank' = [bank EXCEPT ![b] = new]
    BY DEF new
  <1>6. bank' \in [0..2 -> Banks] /\ bank'[b] = new /\ \A c \in 0..2 \ {b} : bank'[c] = bank[c]
    BY <1>1, <1>3, <1>5
  <1>7. QED BY <1>4, <1>6 DEF Banks

LEMMA BankIs ==
  ASSUME DataInv, InChunk, NEW b \in 0..2, NEW k \in 0..Cols - 1
  PROVE  bank[b][k] \in Int
  <1>1. k \in 0..config.tn - 1
    BY ChunkFacts, TileFacts
  <1>2. bank[b] \in [0..config.tn - 1 -> Int]
    BY DEF DataInv, DataTypes
  <1>3. QED BY <1>1, <1>2

LEMMA PreAddKeeps ==
  ASSUME DataInv, PreAdd
  PROVE  Keeps
  <1> DEFINE sums == Sums(bank[0], bank[1])
  <1>1. /\ pc = "preadd" /\ InChunk /\ Map3 /\ group < Cols /\ row = 0
        /\ Projection /\ ~Vector /\ ~Add3
    BY KindsAre DEF PreAdd, InChunk, DataInv, LoopsOK
  <1>2. /\ tile < Outputs /\ chunk < cmd.a.length /\ Cols \in Nat /\ Cols # 0 /\ row \in Nat
        /\ Rows \in Nat /\ wr = 0 /\ phase = "run" /\ InTile /\ chunk \in Nat /\ tile \in Nat
        /\ Rows # 0 /\ group \in Nat
    BY <1>1, ChunkFacts, TileFacts
  <1>3. ASSUME NEW k \in Lanes
        PROVE  /\ k \in 0..Cols - 1 /\ sums[k] = Shared(chunk + k) /\ sums[k] \in Int
               /\ CanRead(VecAddr(cmd.a, chunk + k)) /\ CanRead(VecAddr(cmd.b, chunk + k))
    <2>1. k \in 0..Cols - 1 /\ ~(k < group)
      BY <1>1, GroupIs
    <2>2. ColumnOK(k)
      BY <2>1 DEF DataInv, BanksOK
    <2>3. /\ bank[0][k] = First(chunk + k) /\ bank[1][k] = Second(chunk + k)
          /\ CanRead(VecAddr(cmd.a, chunk + k)) /\ CanRead(VecAddr(cmd.b, chunk + k))
      BY <1>1, <2>1, <2>2 DEF ColumnOK
    <2>4. sums[k] = CostAddChecked(bank[0][k], bank[1][k])
      BY DEF Sums
    <2>5. bank[0][k] \in Int /\ bank[1][k] \in Int
      BY <1>1, <2>1, BankIs
    <2>6. QED BY <1>1, <2>1, <2>3, <2>4, <2>5, AddedIs DEF Shared
  <1>4. sums \in [Lanes -> Int]
    BY <1>3 DEF Sums
  <1>5. CASE AllCosts(sums)
    <2>1. /\ UNCHANGED fixedVars /\ UNCHANGED <<mem, phase, tile, row, chunk, valid, states, wr>>
          /\ bank' = [bank EXCEPT ![0] = Overlay(bank[0], sums)]
          /\ group' = IF group + config.lanes < Cols THEN group + config.lanes ELSE 0
          /\ pc' = IF group + config.lanes < Cols THEN "preadd" ELSE "row"
      BY <1>5 DEF PreAdd
    <2> HIDE DEF sums
    <2>2. /\ bank' \in [0..2 -> [0..config.tn - 1 -> Int]]
          /\ \A k \in 0..Cols - 1 : bank'[0][k] = IF k \in Lanes THEN sums[k] ELSE bank[0][k]
          /\ bank'[1] = bank[1] /\ bank'[2] = bank[2]
      <3>1. 0 \in 0..2 /\ 1 \in 0..2 \ {0} /\ 2 \in 0..2 \ {0}
        OBVIOUS
      <3>2. QED BY <1>1, <1>4, <2>1, <3>1, OverlayIs
    <2>3. group' \in Nat /\ (pc' = "preadd" => group' < Cols) /\ pc' \in {"preadd", "row"}
      BY <1>1, <1>2, <2>1, TileFacts
    <2>4. Cols' = Cols /\ Rows' = Rows /\ Stored' = Stored /\ UNCHANGED Inputs
      BY <2>1, FixedShape
    <2>5. DataTypes'
      BY <2>1, <2>2, <2>3, Fixed DEF DataInv, DataTypes
    <2>6. LoopsOK'
      BY <1>1, <1>2, <2>1, <2>3, <2>4, Fixed DEF LoopsOK, InTile, InChunk
    <2>7. MinimaOK'
      <3>1. \A r \in Nat : Behind(r)' = Behind(r)
        BY <1>1, <1>2, <2>1, <2>3, <2>4, Fixed, ChunkFacts DEF Behind, Least
      <3>2. \A r \in 0..Rows - 1 : r \in Nat
        BY <1>2
      <3>3. QED BY <1>2, <2>1, <2>4, <3>1, <3>2, Fixed, FixedLeast DEF MinimaOK, DataInv
    <2>8. ASSUME NEW k \in 0..Cols - 1 PROVE ColumnOK(k)'
      <3>1. ColumnOK(k)
        BY DEF DataInv, BanksOK
      <3>2. /\ CanRead(VecAddr(cmd.a, chunk + k)) /\ CanRead(VecAddr(cmd.b, chunk + k))
            /\ bank[1][k] = Second(chunk + k)
            /\ k < group => bank[0][k] = Shared(chunk + k) /\ Shared(chunk + k) # CostError
            /\ ~(k < group) => bank[0][k] = First(chunk + k)
        BY <1>1, <3>1 DEF ColumnOK
      <3>3. k \in Lanes => bank'[0][k] = Shared(chunk + k) /\ Shared(chunk + k) # CostError
        BY <1>3, <1>5, <2>2 DEF AllCosts
      <3>4. k \notin Lanes => bank'[0][k] = bank[0][k]
        BY <2>2
      <3>5. CASE group + config.lanes < Cols
        <4>1. k < group' <=> k < group \/ k \in Lanes
          BY <1>1, <2>1, <3>5, GroupIs
        <4>2. pc' = "preadd"
          BY <2>1, <3>5
        <4>3. QED BY <1>1, <2>1, <2>2, <3>2, <3>3, <3>4, <4>1, <4>2, Fixed DEF ColumnOK
      <3>6. CASE ~(group + config.lanes < Cols)
        <4>1. k < group \/ k \in Lanes
          BY <1>1, <3>6, GroupIs
        <4>2. pc' = "row"
          BY <2>1, <3>6
        <4>3. QED BY <1>1, <2>1, <2>2, <3>2, <3>3, <3>4, <4>1, <4>2, Fixed DEF ColumnOK
      <3>7. QED BY <3>5, <3>6
    <2>9. BanksOK'
      BY <1>1, <2>1, <2>3, <2>4, <2>8 DEF BanksOK, DataInv
    <2>10. QED BY <2>1, <2>4, <2>5, <2>6, <2>7, <2>9 DEF Keeps, Effect, Idles
  <1>6. CASE ~AllCosts(sums)
    <2>1. UNCHANGED mem /\ GiveUp
      BY <1>6 DEF PreAdd
    <2>2. PICK k \in Lanes : sums[k] = CostError
      BY <1>6 DEF AllCosts
    <2>3. k \in 0..Cols - 1 /\ 0 \in 0..Rows - 1 /\ tile + 0 \in Nat /\ chunk + k \in Nat /\ DataTypes
      BY <1>2, <1>3 DEF DataInv
    <2>4. CostAddChecked(First(chunk + k), Second(chunk + k)) = CostError
      BY <1>1, <1>3, <2>2 DEF Shared
    <2>5. \A z : CostAdd3Checked(First(chunk + k), Second(chunk + k), z) = CostError
      BY <2>4 DEF CostAdd3Checked
    <2>6. Sum(tile + 0, chunk + k) = CostError
      BY <1>1, <2>3, <2>5, SumIs
    <2>7. QED BY <1>1, <2>1, <2>3, <2>6, ColumnFails
  <1>7. QED BY <1>5, <1>6

(* The sums of a group: those of the functional model, or one of those is  *)
(* no cost.                                                                *)
Once == Sums(bank[IF Projection THEN 2 ELSE 0], bank[IF Projection THEN 0 ELSE 1])
GroupSums == IF Add3 /\ AllCosts(Once) THEN Sums(Once, bank[2]) ELSE Once

LEMMA GroupSumsAre ==
  ASSUME DataInv, pc = "add"
  PROVE  /\ GroupSums \in [Lanes -> Int]
         /\ AllCosts(GroupSums) =>
              \A k \in Lanes : /\ GroupSums[k] = Sum(tile + row, chunk + k)
                               /\ Sum(tile + row, chunk + k) # CostError
         /\ ~AllCosts(GroupSums) => \E k \in Lanes : Sum(tile + row, chunk + k) = CostError
  <1> DEFINE o == tile + row
  <1>1. InChunk /\ row < Rows /\ group < Cols /\ DataTypes
    BY DEF DataInv, LoopsOK, InChunk
  <1>2. chunk \in Nat /\ tile \in Nat /\ row \in Nat /\ o \in Nat
    BY <1>1, ChunkFacts, TileFacts
  <1>3. ASSUME NEW k \in Lanes
        PROVE  /\ k \in 0..Cols - 1 /\ ~(k < group) /\ chunk + k \in Nat /\ ColumnOK(k)
               /\ bank[0][k] \in Int /\ bank[1][k] \in Int /\ bank[2][k] \in Int
    <2>1. k \in 0..Cols - 1 /\ ~(k < group) /\ k \in Nat
      BY <1>1, GroupIs
    <2>2. ColumnOK(k)
      BY <2>1 DEF DataInv, BanksOK
    <2>3. 0 \in 0..2 /\ 1 \in 0..2 /\ 2 \in 0..2
      OBVIOUS
    <2>4. QED BY <1>1, <1>2, <2>1, <2>2, <2>3, BankIs
  <1>4. CASE Projection
    <2>1. Once = Sums(bank[2], bank[0]) /\ GroupSums = Once
      BY <1>1, <1>4, KindsAre DEF Once, GroupSums
    <2>2. ASSUME NEW k \in Lanes
          PROVE  Once[k] \in Int /\ Once[k] = Sum(o, chunk + k)
      <3>1. Once[k] = CostAddChecked(bank[2][k], bank[0][k])
        BY <2>1 DEF Sums
      <3>2. /\ bank[2][k] = Element(o, chunk + k) /\ bank[0][k] = Shared(chunk + k)
            /\ CanRead(MatAddr(cmd.m, o, chunk + k)) /\ CanRead(VecAddr(cmd.a, chunk + k))
            /\ Map3 => CanRead(VecAddr(cmd.b, chunk + k)) /\ Shared(chunk + k) # CostError
        BY <1>3, <1>4 DEF ColumnOK
      <3>3. bank[2][k] \in Int /\ bank[0][k] \in Int /\ chunk + k \in Nat
        BY <1>3
      <3>4. Once[k] \in Int /\ Once[k] = CostAddChecked(bank[0][k], bank[2][k])
        BY <3>1, <3>3, AddedIs
      <3> HIDE DEF o
      <3>5. CASE Map3
        <4>1. Sum(o, chunk + k) = CostAdd3Checked(First(chunk + k), Second(chunk + k),
                                                  Element(o, chunk + k))
          BY <1>1, <1>2, <3>2, <3>3, <3>5, SumIs
        <4>2. Shared(chunk + k) = CostAddChecked(First(chunk + k), Second(chunk + k))
          BY <3>5 DEF Shared
        <4>3. QED BY <3>2, <3>4, <3>5, <4>1, <4>2 DEF CostAdd3Checked
      <3>6. CASE ~Map3
        <4>1. Sum(o, chunk + k) = CostAddChecked(Element(o, chunk + k), First(chunk + k))
          BY <1>1, <1>2, <1>4, <3>2, <3>3, <3>6, SumIs
        <4>2. Shared(chunk + k) = First(chunk + k)
          BY <3>6 DEF Shared
        <4>3. QED BY <3>1, <3>2, <3>4, <4>1, <4>2
      <3>7. QED BY <3>5, <3>6
    <2>3. Once \in [Lanes -> Int]
      BY <2>1, <2>2 DEF Sums
    <2>4. QED BY <2>1, <2>2, <2>3 DEF AllCosts
  <1>5. CASE ~Projection
    <2>1. Once = Sums(bank[0], bank[1])
      BY <1>5 DEF Once
    <2>2. row = 0 /\ o = tile
      BY <1>1, <1>2, <1>5, ChunkFacts, TileFacts
    <2>3. ASSUME NEW k \in Lanes
          PROVE  /\ Once[k] = CostAddChecked(First(chunk + k), Second(chunk + k)) /\ Once[k] \in Int
                 /\ CanRead(VecAddr(cmd.a, chunk + k)) /\ CanRead(VecAddr(cmd.b, chunk + k))
                 /\ Add3 => CanRead(VecAddr(cmd.c, chunk + k)) /\ bank[2][k] = Third(chunk + k)
      <3>1. Once[k] = CostAddChecked(bank[0][k], bank[1][k])
        BY <2>1 DEF Sums
      <3>2. ~Added(k)
        BY <1>3, <2>2 DEF Added
      <3>3. QED BY <1>3, <1>5, <3>1, <3>2, AddedIs DEF ColumnOK
    <2>4. Once \in [Lanes -> Int]
      BY <2>1, <2>3 DEF Sums
    <2> HIDE DEF o
    <2>5. CASE ~Add3
      <3>1. \A k \in Lanes : Once[k] = Sum(o, chunk + k)
        BY <1>1, <1>2, <1>3, <1>5, <2>3, <2>5, SumIs
      <3>2. GroupSums = Once
        BY <2>5 DEF GroupSums
      <3>3. QED BY <2>4, <3>1, <3>2 DEF AllCosts, o
    <2>6. CASE Add3
      <3>1. ASSUME NEW k \in Lanes
            PROVE  Sum(o, chunk + k) = IF Once[k] = CostError THEN CostError
                                       ELSE CostAddChecked(Once[k], bank[2][k])
        BY <1>1, <1>2, <1>3, <2>3, <2>6, SumIs DEF CostAdd3Checked
      <3>2. CASE AllCosts(Once)
        <4>1. GroupSums = Sums(Once, bank[2])
          BY <2>6, <3>2 DEF GroupSums
        <4>2. ASSUME NEW k \in Lanes
              PROVE  GroupSums[k] = Sum(o, chunk + k) /\ GroupSums[k] \in Int
          <5>1. GroupSums[k] = CostAddChecked(Once[k], bank[2][k])
            BY <4>1 DEF Sums
          <5>2. Once[k] \in Int /\ bank[2][k] \in Int
            BY <1>3, <2>3
          <5>3. QED BY <3>1, <3>2, <5>1, <5>2, AddedIs DEF AllCosts
        <4>3. GroupSums \in [Lanes -> Int]
          BY <4>1, <4>2 DEF Sums
        <4>4. QED BY <4>2, <4>3 DEF AllCosts, o
      <3>3. CASE ~AllCosts(Once)
        <4>1. GroupSums = Once
          BY <3>3 DEF GroupSums
        <4>2. PICK k \in Lanes : Once[k] = CostError
          BY <3>3 DEF AllCosts
        <4>3. QED BY <2>4, <3>1, <3>3, <4>1, <4>2 DEF o
      <3>4. QED BY <3>2, <3>3
    <2>7. QED BY <2>5, <2>6
  <1>6. QED BY <1>4, <1>5

(* The best of a group joins the minimum of the columns before it.         *)
LEMMA MergeIs ==
  ASSUME DataTypes, NEW o \in Nat, NEW n \in Nat, NEW c \in Nat \ {0}, NEW st \in Entries,
         LeastSum(st, o, n), NEW s \in [1..c -> Entries],
         \A i \in 1..c : /\ s[i] = [value |-> Sum(o, n + i - 1), index |-> n + i - 1]
                         /\ Sum(o, n + i - 1) # CostError,
         NEW b \in 1..c, \A i \in 1..c : ~Before(s[i], s[b])
  PROVE  LeastSum(Merge(st, s[b]), o, n + c) /\ Merge(st, s[b]) \in Entries
  <1> DEFINE new == Merge(st, s[b])
             m == n + b - 1
  <1>1. \A j \in Nat : Sum(o, j) \in Int /\ Sum(o, j) <= Inf
    BY SumIs
  <1>2. m \in n..n + c - 1 /\ m \in Nat /\ s[b].value = Sum(o, m) /\ s[b].index = m
    OBVIOUS
  <1>3. ASSUME NEW j \in n..n + c - 1
        PROVE  /\ Sum(o, j) # CostError /\ Sum(o, m) <= Sum(o, j)
               /\ j < m => Sum(o, m) < Sum(o, j)
    <2> DEFINE i == j - n + 1
    <2>1. i \in 1..c /\ n + i - 1 = j /\ j \in Nat
      OBVIOUS
    <2> HIDE DEF i
    <2>2. s[i].value = Sum(o, j) /\ s[i].index = j /\ Sum(o, j) # CostError /\ ~Before(s[i], s[b])
      <3>1. /\ s[i] = [value |-> Sum(o, n + i - 1), index |-> n + i - 1]
            /\ Sum(o, n + i - 1) # CostError /\ ~Before(s[i], s[b])
        BY <2>1
      <3>2. s[i] = [value |-> Sum(o, j), index |-> j] /\ Sum(o, j) # CostError
        BY <2>1, <3>1
      <3>3. QED BY <3>1, <3>2
    <2>3. Sum(o, j) \in Int /\ Sum(o, m) \in Int
      BY <1>1, <1>2, <2>1
    <2> HIDE DEF m
    <2>4. QED BY <1>2, <2>1, <2>2, <2>3 DEF Before
  <1> HIDE DEF m
  <1>4. st.value \in Int /\ st.index \in Nat /\ s[b] \in Entries /\ Inf \in Int
    BY CostAssumption DEF Entries
  <1>5. \A j \in 0..n + c - 1 : j \in Nat /\ (j \in 0..n - 1 \/ j \in n..n + c - 1)
    OBVIOUS
  <1>6. \A j \in n..n + c - 1 : j \in 0..n + c - 1
    OBVIOUS
  <1>7. n + c # 0
    OBVIOUS
  <1>8. CASE Before(s[b], st)
    <2>1. new = s[b]
      BY <1>8 DEF Merge
    <2>2. Sum(o, m) < st.value \/ (Sum(o, m) = st.value /\ m < st.index)
      BY <1>2, <1>8 DEF Before
    <2>3. Sum(o, m) < st.value
      <3>1. n # 0 => st.index < n
        BY <1>4 DEF LeastSum
      <3>2. n = 0 => st.index = 0
        BY DEF LeastSum
      <3>3. QED BY <1>2, <1>4, <2>2, <3>1, <3>2
    <2>4. ASSUME NEW j \in 0..n + c - 1
          PROVE  Sum(o, j) # CostError /\ Sum(o, m) <= Sum(o, j) /\ (j < m => Sum(o, m) < Sum(o, j))
      <3>1. CASE j \in 0..n - 1
        <4>1. Sum(o, j) # CostError /\ st.value <= Sum(o, j)
          BY <3>1 DEF LeastSum
        <4>2. Sum(o, m) \in Int /\ Sum(o, j) \in Int
          BY <1>1, <1>2, <1>5
        <4>3. QED BY <1>4, <2>3, <4>1, <4>2
      <3>2. CASE j \in n..n + c - 1
        BY <1>3, <3>2
      <3>3. QED BY <1>5, <3>1, <3>2
    <2>5. m \in 0..n + c - 1
      BY <1>2, <1>6
    <2>6. new.index = m /\ new.value = Sum(o, m) /\ new \in Entries
      BY <1>2, <1>4, <2>1
    <2> HIDE DEF new
    <2>7. LeastSum(new, o, n + c)
      BY <1>7, <2>4, <2>5, <2>6 DEF LeastSum
    <2>8. QED BY <2>6, <2>7 DEF new
  <1>9. CASE ~Before(s[b], st)
    <2>1. new = st
      BY <1>9 DEF Merge
    <2>2. ~(Sum(o, m) < st.value)
      BY <1>2, <1>9 DEF Before
    <2>3. Sum(o, m) \in Int
      BY <1>1, <1>2
    <2>4. st.index \in 0..n + c - 1 /\ Sum(o, st.index) = st.value
      <3>1. CASE n # 0
        <4>1. st.index \in 0..n - 1 /\ Sum(o, st.index) = st.value
          BY <3>1 DEF LeastSum
        <4>2. QED BY <4>1
      <3>2. CASE n = 0
        <4>1. st.index = 0 /\ st.value = Inf
          BY <3>2 DEF LeastSum
        <4>2. 0 \in n..n + c - 1
          BY <3>2
        <4>3. Sum(o, m) <= Sum(o, 0) /\ Sum(o, 0) \in Int /\ Sum(o, 0) <= Inf
          BY <1>1, <1>3, <4>2
        <4>4. Sum(o, 0) = Inf
          BY <1>4, <2>2, <2>3, <4>1, <4>3
        <4>5. QED BY <1>6, <4>1, <4>2, <4>4
      <3>3. QED BY <3>1, <3>2
    <2>5. ASSUME NEW j \in 0..n + c - 1
          PROVE  /\ Sum(o, j) # CostError /\ st.value <= Sum(o, j)
                 /\ j < st.index => st.value < Sum(o, j)
      <3>1. CASE j \in 0..n - 1
        BY <3>1 DEF LeastSum
      <3>2. CASE j \in n..n + c - 1
        <4>1. Sum(o, j) # CostError /\ Sum(o, m) <= Sum(o, j) /\ Sum(o, j) \in Int
          BY <1>1, <1>3, <1>5, <3>2
        <4>2. ~(j < st.index)
          <5>1. n # 0 => st.index < n
            BY <1>4 DEF LeastSum
          <5>2. n = 0 => st.index = 0
            BY DEF LeastSum
          <5>3. QED BY <1>4, <3>2, <5>1, <5>2
        <4>3. QED BY <1>4, <2>2, <2>3, <4>1, <4>2
      <3>3. QED BY <1>5, <3>1, <3>2
    <2> HIDE DEF new
    <2>6. LeastSum(st, o, n + c)
      BY <1>7, <2>4, <2>5 DEF LeastSum
    <2>7. QED BY <2>1, <2>6 DEF new
  <1>10. QED BY <1>8, <1>9

(* The minimum of a row after one more group.                              *)
LEMMA GroupMinimum ==
  ASSUME DataInv, pc = "add", ~Vector, AllCosts(GroupSums)
  PROVE  LET new == Merge(states[row], Tree(Lane(GroupSums)))
         IN  LeastSum(new, tile + row, chunk + group + Count) /\ new \in Entries
  <1> DEFINE s == Lane(GroupSums)
             o == tile + row
             n == chunk + group
  <1>1. InChunk /\ InTile /\ row < Rows /\ group < Cols /\ DataTypes
    BY DEF DataInv, LoopsOK, InChunk, InTile
  <1>2. /\ o \in Nat /\ n \in Nat /\ Count \in 1..config.lanes /\ Count \in Nat \ {0}
        /\ config.lanes \in Nat \ {0} /\ row \in 0..Rows - 1 /\ row \in 0..config.tm - 1
        /\ chunk \in Nat /\ group \in Nat
    BY <1>1, ChunkFacts, TileFacts
  <1>3. LeastSum(states[row], o, n)
    <2>1. Behind(row) = n
      BY <1>2 DEF Behind
    <2>2. QED BY <1>1, <1>2, <2>1 DEF DataInv, MinimaOK
  <1>4. ASSUME NEW i \in 1..Count
        PROVE  /\ s[i] = [value |-> Sum(o, n + i - 1), index |-> n + i - 1]
               /\ Sum(o, n + i - 1) # CostError /\ s[i] \in Entries
    <2>1. group + i - 1 \in Lanes /\ chunk + (group + i - 1) = n + i - 1 /\ n + i - 1 \in Nat
      BY <1>2 DEF Lanes
    <2>2. /\ GroupSums[group + i - 1] = Sum(o, chunk + (group + i - 1))
          /\ Sum(o, chunk + (group + i - 1)) # CostError
      BY <2>1, GroupSumsAre
    <2>3. s[i] = [value |-> GroupSums[group + i - 1], index |-> chunk + group + i - 1]
      BY DEF Lane
    <2>4. Sum(o, n + i - 1) \in Int
      BY <1>1, <1>2, <2>1, SumIs
    <2>5. QED BY <2>1, <2>2, <2>3, <2>4 DEF Entries
  <1>5. s \in [1..Count -> Entries]
    BY <1>4 DEF Lane
  <1> HIDE DEF s, n, o
  <1>6. PICK b \in 1..Count : Tree(s) = s[b] /\ \A i \in 1..Count : ~Before(s[i], s[b])
    BY <1>2, <1>5, TreeIs
  <1>7. states[row] \in Entries
    BY <1>2 DEF DataInv, DataTypes, Entries
  <1>8. LeastSum(Merge(states[row], s[b]), o, n + Count) /\ Merge(states[row], s[b]) \in Entries
    <2> DEFINE st == states[row]
               c == Count
    <2>1. st \in Entries /\ c \in Nat \ {0} /\ LeastSum(st, o, n) /\ s \in [1..c -> Entries]
      BY <1>2, <1>3, <1>5, <1>7
    <2>2. \A i \in 1..c : /\ s[i] = [value |-> Sum(o, n + i - 1), index |-> n + i - 1]
                          /\ Sum(o, n + i - 1) # CostError
      BY <1>4
    <2>3. b \in 1..c /\ \A i \in 1..c : ~Before(s[i], s[b])
      BY <1>6
    <2>4. DataTypes /\ o \in Nat /\ n \in Nat
      BY <1>1, <1>2
    <2> HIDE DEF st, c
    <2>5. LeastSum(Merge(st, s[b]), o, n + c) /\ Merge(st, s[b]) \in Entries
      BY <2>1, <2>2, <2>3, <2>4, MergeIs, Zenon
    <2>6. QED BY <2>5 DEF st, c
  <1>9. QED BY <1>6, <1>8 DEF s, n, o

LEMMA AddGroupKeeps ==
  ASSUME DataInv, AddGroup
  PROVE  Keeps
  <1>1. pc = "add" /\ InChunk /\ InTile /\ row < Rows /\ group < Cols /\ DataTypes
    BY DEF AddGroup, DataInv, LoopsOK, InChunk, InTile
  <1>2. /\ tile < Outputs /\ chunk < cmd.a.length /\ Cols \in Nat /\ Cols # 0 /\ row \in Nat
        /\ Rows \in Nat /\ wr = 0 /\ phase = "run" /\ chunk \in Nat /\ tile \in Nat
        /\ group \in Nat /\ row \in 0..Rows - 1 /\ row \in 0..config.tm - 1 /\ Count \in Nat
        /\ ~Projection => row = 0
    BY <1>1, ChunkFacts, TileFacts
  <1>3. CASE AllCosts(GroupSums)
    <2>1. /\ UNCHANGED fixedVars /\ UNCHANGED <<mem, phase, tile, chunk, valid, wr>>
          /\ bank' = [bank EXCEPT ![Target] = Overlay(bank[Target], GroupSums)]
          /\ states' = IF Vector THEN states
                       ELSE [states EXCEPT ![row] = Merge(states[row], Tree(Lane(GroupSums)))]
          /\ NextGroup
      BY <1>3 DEF AddGroup, GroupSums, Once
    <2>2. Target \in 0..2 /\ Target = IF Projection THEN 2 ELSE 0
      BY DEF Target
    <2>3. /\ bank' \in [0..2 -> [0..config.tn - 1 -> Int]]
          /\ \A k \in 0..Cols - 1 : bank'[Target][k] = IF k \in Lanes THEN GroupSums[k]
                                                       ELSE bank[Target][k]
          /\ \A c \in 0..2 \ {Target} : bank'[c] = bank[c]
      BY <1>1, <2>1, <2>2, GroupSumsAre, OverlayIs
    <2>4. /\ group + config.lanes < Cols => group' = group + config.lanes /\ row' = row /\ pc' = "add"
          /\ ~(group + config.lanes < Cols) => group' = 0 /\ row' = row + 1 /\ pc' = "row"
      BY <1>1, <2>1 DEF NextGroup, RowDone
    <2>5. Cols' = Cols /\ Rows' = Rows /\ Stored' = Stored /\ UNCHANGED Inputs
      BY <2>1, FixedShape
    <2>6. states' \in [0..config.tm - 1 -> Entries]
      <3>1. states \in [0..config.tm - 1 -> Entries]
        BY DEF DataInv, DataTypes, Entries
      <3>2. CASE Vector
        BY <2>1, <3>1, <3>2
      <3>3. CASE ~Vector
        <4>1. Merge(states[row], Tree(Lane(GroupSums))) \in Entries
          BY <1>1, <1>3, <3>3, GroupMinimum
        <4>2. QED BY <2>1, <3>1, <3>3, <4>1
      <3>4. QED BY <3>2, <3>3
    <2>7. group' \in Nat /\ row' \in Nat /\ pc' \in {"row", "add"}
      BY <1>1, <1>2, <2>4, GroupIs
    <2>8. DataTypes'
      BY <2>1, <2>3, <2>6, <2>7, Fixed DEF DataTypes, DataInv, Entries
    <2>9. LoopsOK'
      <3>1. /\ pc' = "row" => row' <= Rows
            /\ pc' = "add" => row' < Rows /\ group' < Cols
        BY <1>1, <1>2, <2>4
      <3>2. QED BY <1>2, <2>1, <2>5, <2>7, <3>1, Fixed DEF LoopsOK, InTile, InChunk
    <2>10. MinimaOK'
      <3>1. CASE Vector
        BY <2>1, <3>1, Fixed DEF MinimaOK
      <3>2. CASE ~Vector
        <4>1. ASSUME NEW r \in 0..Rows - 1
              PROVE  LeastSum(states'[r], tile + r, Behind(r)')
          <5>1. r \in Nat /\ r \in 0..config.tm - 1
            BY <1>1, <1>2, TileFacts
          <5>2. states \in [0..config.tm - 1 -> Entries]
            BY DEF DataInv, DataTypes, Entries
          <5>3. CASE r = row
            <6>1. states'[r] = Merge(states[row], Tree(Lane(GroupSums)))
              BY <1>2, <2>1, <3>2, <5>2, <5>3
            <6>2. LeastSum(states'[r], tile + row, chunk + group + Count)
              BY <1>1, <1>3, <3>2, <6>1, GroupMinimum
            <6>3. Behind(r)' = chunk + group + Count
              <7>1. CASE group + config.lanes < Cols
                <8>1. group + Count = group + config.lanes /\ pc' = "add" /\ row' = row
                      /\ group' = group + config.lanes
                  BY <1>1, <2>4, <7>1, GroupIs
                <8>2. Behind(r)' = chunk + group'
                  BY <1>2, <2>1, <5>1, <5>3, <8>1 DEF Behind
                <8>3. config.lanes \in Nat
                  BY <1>1, TileFacts
                <8>4. QED BY <1>2, <8>1, <8>2, <8>3
              <7>2. CASE ~(group + config.lanes < Cols)
                <8>1. group + Count = Cols /\ pc' = "row" /\ row' = row + 1
                  BY <1>1, <2>4, <7>2, GroupIs
                <8>2. Behind(r)' = chunk + Cols
                  BY <1>2, <2>1, <2>5, <5>1, <5>3, <8>1 DEF Behind
                <8>3. QED BY <1>2, <8>1, <8>2
              <7>3. QED BY <7>1, <7>2
            <6>4. QED BY <5>3, <6>2, <6>3
          <5>4. CASE r # row
            <6>1. states'[r] = states[r]
              BY <1>2, <2>1, <3>2, <5>1, <5>2, <5>4
            <6>2. Behind(r)' = Behind(r)
              BY <1>1, <1>2, <2>1, <2>4, <2>5, <5>1, <5>4 DEF Behind
            <6>3. LeastSum(states[r], tile + r, Behind(r))
              BY <1>1, <3>2 DEF DataInv, MinimaOK
            <6>4. QED BY <6>1, <6>2, <6>3
          <5>5. QED BY <5>3, <5>4
        <4>2. QED BY <2>1, <2>5, <4>1, Fixed, FixedLeast DEF MinimaOK
      <3>3. QED BY <3>1, <3>2
    <2>11. ASSUME NEW k \in 0..Cols - 1 PROVE ColumnOK(k)'
      <3>1. ColumnOK(k)
        BY DEF DataInv, BanksOK
      <3>2. k \in Lanes => /\ bank'[Target][k] = Sum(tile + row, chunk + k)
                           /\ Sum(tile + row, chunk + k) # CostError
        BY <1>1, <1>3, <2>3, GroupSumsAre
      <3>3. k \notin Lanes => bank'[Target][k] = bank[Target][k]
        BY <2>3
      <3>4. /\ group + config.lanes < Cols => (k < group' <=> k < group \/ k \in Lanes)
            /\ ~(group + config.lanes < Cols) => k < group \/ k \in Lanes
        BY <1>1, <2>4, GroupIs
      <3>5. CASE Projection
        <4>1. bank'[0] = bank[0] /\ ~Vector /\ ~Add3 /\ Target = 2
          <5>1. Target = 2 /\ 0 \in 0..2 \ {2}
            BY <2>2, <3>5
          <5>2. QED BY <1>1, <2>3, <3>5, <5>1, KindsAre
        <4>2. CASE group + config.lanes < Cols
          <5>1. pc' = "add" /\ row' = row
            BY <2>4, <4>2
          <5>2. QED BY <1>1, <2>1, <3>1, <3>2, <3>3, <3>4, <3>5, <4>1, <4>2, <5>1, Fixed
                    DEF ColumnOK
        <4>3. CASE ~(group + config.lanes < Cols)
          <5>1. pc' = "row"
            BY <2>4, <4>3
          <5>2. QED BY <1>1, <2>1, <3>1, <3>5, <4>1, <5>1, Fixed DEF ColumnOK
        <4>4. QED BY <4>2, <4>3
      <3>6. CASE ~Projection
        <4>1. bank'[1] = bank[1] /\ bank'[2] = bank[2] /\ Target = 0 /\ row = 0 /\ tile + row = tile
          <5>1. Target = 0 /\ 1 \in 0..2 \ {0} /\ 2 \in 0..2 \ {0}
            BY <2>2, <3>6
          <5>2. QED BY <1>2, <2>3, <3>6, <5>1
        <4>2. /\ k < group => bank[0][k] = Sum(tile, chunk + k)
              /\ ~(k < group) => bank[0][k] = First(chunk + k)
              /\ k < group /\ Vector => Sum(tile, chunk + k) # CostError
          BY <1>1, <3>1, <3>6, <4>1 DEF ColumnOK, Added
        <4>3. Added(k)' <=> k < group \/ k \in Lanes
          BY <1>2, <2>4, <3>4, <4>1 DEF Added
        <4>4. QED BY <1>1, <2>1, <2>7, <3>1, <3>2, <3>3, <3>6, <4>1, <4>2, <4>3, Fixed
                  DEF ColumnOK
      <3>7. QED BY <3>5, <3>6
    <2>12. BanksOK'
      BY <1>1, <2>1, <2>5, <2>7, <2>11, Fixed DEF BanksOK, DataInv
    <2>13. QED BY <2>1, <2>5, <2>8, <2>9, <2>10, <2>12 DEF Keeps, Effect, Idles
  <1>4. CASE ~AllCosts(GroupSums)
    <2>1. UNCHANGED mem /\ GiveUp
      BY <1>4 DEF AddGroup, GroupSums, Once
    <2>2. PICK k \in Lanes : Sum(tile + row, chunk + k) = CostError
      BY <1>1, <1>4, GroupSumsAre
    <2>3. k \in 0..Cols - 1
      BY <1>1, GroupIs
    <2>4. QED BY <1>1, <1>2, <2>1, <2>2, <2>3, ColumnFails
  <1>5. QED BY <1>3, <1>4

-----------------------------------------------------------------------------
(* write_result().                                                         *)

(* A minimum over all the columns is the value of the output.              *)
LEMMA MinimumIsValue ==
  ASSUME DataTypes, ~Vector, NEW o \in Nat, NEW st \in Entries, LeastSum(st, o, cmd.a.length)
  PROVE  Value(o).ok /\ Value(o).value = st.value /\ Value(o).index = st.index
  <1> DEFINE V == [i \in Nat |-> Candidate(cmd, o, i, mem0, faults)]
             r == Value(o)
             n == cmd.a.length
  <1>1. Views(cmd) /\ mem0 \in [Ram -> Int] /\ Columns(cmd) = n /\ n \in Nat /\ n # 0
    BY ShapeIs DEF DataTypes
  <1>2. Scanned(r, V, n)
    BY <1>1, ResultIs DEF Value
  <1>3. \A i \in 0..n - 1 : V[i] = Sum(o, i) /\ i \in Nat
    BY <1>1 DEF Sum
  <1>4. /\ st.index \in 0..n - 1 /\ Sum(o, st.index) = st.value
        /\ \A i \in 0..n - 1 : /\ Sum(o, i) # CostError /\ st.value <= Sum(o, i)
                               /\ i < st.index => st.value < Sum(o, i)
    BY <1>1 DEF LeastSum
  <1> HIDE DEF V, r, n
  <1>5. r \in Results /\ r.ok
    BY <1>2, <1>3, <1>4 DEF Scanned, Results
  <1>6. /\ r.index \in 0..n - 1 /\ Sum(o, r.index) = r.value
        /\ \A i \in 0..n - 1 : r.value <= Sum(o, i) /\ (i < r.index => r.value < Sum(o, i))
    BY <1>1, <1>2, <1>3, <1>5 DEF Scanned
  <1>7. st.value \in Int /\ st.index \in Nat /\ r.value \in Int /\ r.index \in Nat
    BY <1>5 DEF Entries, Results
  <1>8. st.value <= r.value /\ r.value <= st.value
    BY <1>4, <1>6
  <1>9. ~(st.index < r.index) /\ ~(r.index < st.index)
    BY <1>4, <1>6, <1>7, <1>8
  <1>10. QED BY <1>5, <1>7, <1>8, <1>9 DEF r

(* A vector addition has one column per output.                            *)
LEMMA SumIsValue ==
  ASSUME DataTypes, Vector, NEW o \in Nat, NEW j \in Nat, Sum(o, j) # CostError
  PROVE  Value(j).ok /\ Value(j).value = Sum(o, j)
  <1> DEFINE V == [i \in Nat |-> Candidate(cmd, j, i, mem0, faults)]
             r == Value(j)
  <1>1. Views(cmd) /\ mem0 \in [Ram -> Int] /\ Columns(cmd) = 1
    BY ShapeIs DEF DataTypes
  <1>2. Scanned(r, V, 1)
    BY <1>1, ResultIs DEF Value
  <1>3. V[0] = Sum(o, j) /\ \A i \in 0..1 - 1 : i = 0
    BY DEF Sum
  <1> HIDE DEF V, r
  <1>4. QED BY <1>2, <1>3 DEF Scanned, r

(* The beats of a result: all of them, or some of its cells.               *)
LEMMA WriteIs ==
  ASSUME DataTypes, NEW a \in Nat, NEW words, Len(words) \in {1, 2},
         \A i \in 1..Len(words) : words[i] \in Int, Write(a, words)
  PROVE  /\ mem' \in [Ram -> Int]
         /\ WriteOk(faults, a, Len(words)) => mem' = Store(mem, a, words)
         /\ \A x \in Ram : mem'[x] \in {mem[x], Store(mem, a, words)[x]}
  <1> DEFINE end == a + Len(words)
             In(x) == x \in a..end - 1
             Ok(x) == WriteOk(faults, a, BeatEnd(x, end) - a)
  <1>1. mem \in [Ram -> Int] /\ config.beat \in Nat /\ config.beat # 0
    BY ShapeIs DEF DataTypes
  <1>2. mem' = [x \in Ram |-> IF In(x) /\ Ok(x) THEN words[x - a + 1] ELSE mem[x]]
    BY <1>1 DEF Write
  <1>3. Store(mem, a, words) = [x \in Ram |-> IF In(x) THEN words[x - a + 1] ELSE mem[x]]
    BY <1>1 DEF Store, StorePart
  <1>4. \A x \in Ram : In(x) => words[x - a + 1] \in Int
    OBVIOUS
  <1>5. ASSUME NEW x \in Ram, In(x), WriteOk(faults, a, Len(words)) PROVE Ok(x)
    <2>1. x \in Nat /\ x \div config.beat \in Nat
      <3>1. x \in Nat
        BY RamAssumption, WidthAssumption
      <3>2. QED BY <1>1, <3>1
    <2>2. (x \div config.beat + 1) * config.beat \in Nat
      <3>1. x \div config.beat + 1 \in Nat
        BY <2>1
      <3>2. QED BY <1>1, <3>1, ProductMonotone
    <2>3. BeatEnd(x, end) \in Nat /\ BeatEnd(x, end) <= end
      BY <2>2 DEF BeatEnd, Least
    <2> HIDE DEF end
    <2>4. end = a + Len(words)
      BY DEF end
    <2> DEFINE e == BeatEnd(x, end)
    <2> HIDE DEF e
    <2>5. e \in Nat /\ e <= end
      BY <2>3 DEF e
    <2>6. a..a + (e - a) - 1 \subseteq a..a + Len(words) - 1
      BY <2>4, <2>5
    <2>7. WriteOk(faults, a, e - a)
      BY <1>5, <2>6 DEF WriteOk
    <2>8. QED BY <2>7 DEF e
  <1> HIDE DEF In, Ok
  <1>6. mem' \in [Ram -> Int]
    BY <1>1, <1>2, <1>4
  <1>7. WriteOk(faults, a, Len(words)) => mem' = Store(mem, a, words)
    BY <1>2, <1>3, <1>5
  <1>8. ASSUME NEW x \in Ram PROVE mem'[x] \in {mem[x], Store(mem, a, words)[x]}
    BY <1>2, <1>3
  <1>9. QED BY <1>6, <1>7, <1>8

(* One result written, as far as memory is concerned.                      *)
LEMMA WriteResultKeeps ==
  ASSUME DataInv, pc = "write", NEW words, words = WordsOf(Stored), Value(Stored).ok,
         Stored < cmd.out.length, WriteResult(Stored, words),
         Value(Stored).value \in Int /\ Value(Stored).index \in Nat,
         UNCHANGED fixedVars /\ wr' = wr + 1 /\ UNCHANGED <<tile, chunk>> => Stored' = Stored + 1,
         UNCHANGED fixedVars /\ pc' = pc /\ wr' = wr + 1
           /\ UNCHANGED <<phase, tile, row, chunk, group, bank, valid, states>>
         => LoopsOK' /\ BanksOK' /\ MinimaOK'
  PROVE  Keeps
  <1> DEFINE a == OutAddr(cmd, Stored)
             v == Value(Stored)
  <1>1. DataTypes /\ LoopsOK /\ phase = "run"
    BY DEF DataInv, LoopsOK
  <1>2. Stored \in 0..cmd.out.length - 1 /\ cmd.out.length \in Nat
    BY <1>1, StoredIs, ShapeIs
  <1>3. a \in Nat
    <2>1. Inside(cmd.out.base, a, OutWidth(cmd.out.kind), OutEnd(cmd.out))
      BY <1>1, <1>2, ShapeIs, OutputsPlaced DEF DataTypes
    <2>2. cmd.out.base \in Nat /\ cmd.out.stride \in Nat
      BY <1>1, ShapeIs DEF OutputFields
    <2>3. Stored * cmd.out.stride \in Nat /\ OutWidth(cmd.out.kind) \in Nat
      BY <1>2, <2>2, ProductMonotone DEF OutWidth, PairCells
    <2>4. (Stored * cmd.out.stride) * OutWidth(cmd.out.kind) \in Nat
      BY <2>3, ProductMonotone
    <2>5. QED BY <2>2, <2>4 DEF OutAddr
  <1>4. /\ Len(words) = OutWidth(cmd.out.kind) /\ Len(words) \in {1, 2}
        /\ \A i \in 1..Len(words) : words[i] \in Int
    <2>1. CASE cmd.out.kind = "pair"
      <3>1. words = <<v.value, v.index>>
        BY <2>1 DEF WordsOf, ResultWords
      <3> HIDE DEF v
      <3>2. Len(words) = 2 /\ words[1] = v.value /\ words[2] = v.index
        BY <3>1
      <3>3. v.value \in Int /\ v.index \in Int
        BY DEF v
      <3>4. \A i \in 1..2 : i = 1 \/ i = 2
        OBVIOUS
      <3>5. QED BY <2>1, <3>2, <3>3, <3>4 DEF OutWidth, PairCells
    <2>2. CASE cmd.out.kind # "pair"
      <3>1. words = <<v.value>>
        BY <2>2 DEF WordsOf, ResultWords
      <3> HIDE DEF v
      <3>2. Len(words) = 1 /\ words[1] = v.value
        BY <3>1
      <3>3. v.value \in Int
        BY DEF v
      <3>4. \A i \in 1..1 : i = 1
        OBVIOUS
      <3>5. QED BY <2>2, <3>2, <3>3, <3>4 DEF OutWidth
    <2>3. QED BY <2>1, <2>2
  <1>5. Write(a, words)
    BY DEF WriteResult
  <1>6. /\ mem' \in [Ram -> Int]
        /\ WriteOk(faults, a, Len(words)) => mem' = Store(mem, a, words)
        /\ \A x \in Ram : mem'[x] \in {mem[x], Store(mem, a, words)[x]}
    <2> HIDE DEF a, v
    <2>1. DataTypes
      BY <1>1
    <2>2. Len(words) \in {1, 2}
      BY <1>4
    <2>3. \A i \in 1..Len(words) : words[i] \in Int
      BY <1>4
    <2> QED BY ONLY <2>1, <1>3, <2>2, <2>3, <1>5, WriteIs
  <1>7. With(Stored) = Store(mem, a, words) /\ (CanStore(Stored) <=> WriteOk(faults, a, Len(words)))
    <2>1. words = WordsOf(Stored) /\ Len(words) = OutWidth(cmd.out.kind)
      BY <1>4
    <2>2. QED BY <2>1 DEF With, CanStore
  <1> HIDE DEF a, v
  <1>8. CASE CanStore(Stored)
    <2>1. /\ UNCHANGED fixedVars /\ wr' = wr + 1 /\ pc' = pc
          /\ UNCHANGED <<phase, tile, row, chunk, group, bank, valid, states>>
      BY <1>7, <1>8 DEF WriteResult, GiveUp, loopVars, a
    <2>2. LoopsOK' /\ BanksOK' /\ MinimaOK' /\ Stored' = Stored + 1
      BY <2>1
    <2>3. DataTypes'
      BY <1>1, <1>6, <2>1, Fixed DEF DataTypes
    <2>4. Stores
      BY <1>1, <1>6, <1>7, <1>8, <2>1, <2>2, FixedShape DEF Stores
    <2>5. QED BY <2>2, <2>3, <2>4 DEF Keeps, Effect
  <1>9. CASE ~CanStore(Stored)
    <2>1. GiveUp
      BY <1>7, <1>9 DEF WriteResult, a
    <2>2. /\ DataTypes' /\ LoopsOK' /\ BanksOK' /\ MinimaOK'
          /\ phase = "run" /\ phase' = "failed" /\ Stored' = Stored /\ UNCHANGED Inputs
      BY <1>6, <2>1, GivenUp
    <2>3. Refused
      BY <1>6, <1>7, <1>9, <2>2 DEF Refused
    <2>4. QED BY <2>2, <2>3 DEF Keeps, Effect
  <1>10. QED BY <1>8, <1>9

LEMMA WriteVectorKeeps ==
  ASSUME DataInv, WriteVector
  PROVE  Keeps
  <1>1. pc = "write" /\ Vector /\ wr < Cols /\ InTile
    BY DEF WriteVector, InTile
  <1>2. DataTypes /\ LoopsOK /\ chunk < cmd.a.length /\ phase = "run"
    BY <1>1 DEF DataInv, LoopsOK
  <1>3. /\ chunk \in Nat /\ wr \in Nat /\ Cols \in Nat /\ tile = 0 /\ cmd.a.length \in Nat
        /\ chunk + Cols <= cmd.a.length /\ Stored = chunk + wr /\ cmd.out.length = cmd.a.length
        /\ cmd.out.kind = "cost" /\ config.tn \in Nat /\ tile < Outputs
    <2>1. chunk \in Nat /\ wr \in Nat /\ tile = 0 /\ cmd.a.length \in Nat /\ config.tn \in Nat
          /\ tile < Outputs
      BY <1>1, <1>2, TileFacts, KindsAre
    <2>2. Cols \in 1..config.tn /\ chunk + Cols <= cmd.a.length
      BY <1>2, ColsIs
    <2>3. Stored = chunk + wr
      BY <1>1, <1>2, StoredIs
    <2>4. cmd.out.length = cmd.a.length /\ cmd.out.kind = "cost"
      BY <1>1, <1>2, ShapeIs
    <2>5. QED BY <2>1, <2>2, <2>3, <2>4
  <1>4. wr \in 0..Cols - 1 /\ chunk + wr \in Nat /\ tile \in Nat
    BY <1>1, <1>3
  <1>5. bank[0][wr] = Sum(tile, chunk + wr) /\ Sum(tile, chunk + wr) # CostError
    <2>1. ColumnOK(wr)
      BY <1>4 DEF DataInv, BanksOK
    <2>2. QED BY <1>1, <2>1 DEF ColumnOK
  <1>6. Value(Stored).ok /\ Value(Stored).value = bank[0][wr]
    BY <1>1, <1>2, <1>3, <1>4, <1>5, SumIsValue
  <1>7. Value(Stored).value \in Int /\ Value(Stored).index \in Nat
    <2>1. Views(cmd) /\ mem0 \in [Ram -> Int]
      BY <1>2, ShapeIs DEF DataTypes
    <2>2. Value(Stored) \in Results
      BY <1>3, <1>4, <2>1, ResultIs DEF Value, Scanned
    <2>3. QED BY <2>2 DEF Results
  <1> DEFINE words == <<bank[0][wr]>>
  <1>8. words = WordsOf(Stored) /\ WriteResult(Stored, words)
    BY <1>1, <1>3, <1>6 DEF WordsOf, ResultWords, WriteVector
  <1>9. Stored < cmd.out.length
    BY <1>1, <1>3
  <1>10. ASSUME UNCHANGED fixedVars, wr' = wr + 1, UNCHANGED <<tile, chunk>>
         PROVE  Stored' = Stored + 1
    BY <1>1, <1>3, <1>10, Fixed DEF Stored, Least
  <1>11. ASSUME UNCHANGED fixedVars, pc' = pc, wr' = wr + 1,
                UNCHANGED <<phase, tile, row, chunk, group, bank, valid, states>>
         PROVE  LoopsOK' /\ BanksOK' /\ MinimaOK'
    <2>1. Cols' = Cols
      BY <1>11, FixedShape
    <2>2. LoopsOK'
      BY <1>1, <1>2, <1>3, <1>11, <2>1, Fixed DEF LoopsOK, InTile, InChunk
    <2>3. MinimaOK'
      BY <1>1, <1>11, Fixed DEF MinimaOK
    <2>4. ASSUME NEW k \in 0..Cols - 1 PROVE ColumnOK(k)'
      <3>1. ColumnOK(k)
        BY DEF DataInv, BanksOK
      <3>2. QED BY <1>1, <1>11, <3>1, Fixed DEF ColumnOK
    <2>5. BanksOK'
      BY <1>1, <1>11, <2>1, <2>4 DEF BanksOK
    <2>6. QED BY <2>2, <2>3, <2>5
  <1> HIDE DEF words
  <1>12. QED BY <1>1, <1>6, <1>7, <1>8, <1>9, <1>10, <1>11, WriteResultKeeps

LEMMA WriteRowKeeps ==
  ASSUME DataInv, WriteRow
  PROVE  Keeps
  <1>1. pc = "write" /\ ~Vector /\ wr < Rows /\ InTile
    BY DEF WriteRow, InTile
  <1>2. DataTypes /\ LoopsOK /\ chunk >= cmd.a.length /\ phase = "run"
    BY <1>1 DEF DataInv, LoopsOK
  <1>3. /\ tile \in Nat /\ wr \in Nat /\ Rows \in Nat /\ tile + Rows <= Outputs
        /\ cmd.out.length = Outputs /\ Outputs \in Nat /\ tile < Outputs
        /\ Stored = tile + wr /\ wr \in 0..Rows - 1 /\ wr \in 0..config.tm - 1 /\ tile + wr \in Nat
    <2>1. /\ tile \in Nat /\ wr \in Nat /\ Rows \in Nat /\ tile + Rows <= Outputs
          /\ Outputs \in Nat /\ tile < Outputs /\ Rows \in 1..config.tm /\ config.tm \in Nat
      BY <1>1, TileFacts
    <2>2. Stored = tile + wr /\ cmd.out.length = Outputs
      BY <1>1, <1>2, StoredIs, ShapeIs
    <2>3. QED BY <1>1, <2>1, <2>2
  <1>4. states[wr] \in Entries
    BY <1>3 DEF DataInv, DataTypes, Entries
  <1>5. LeastSum(states[wr], tile + wr, cmd.a.length)
    <2>1. Behind(wr) = cmd.a.length
      BY <1>1 DEF Behind
    <2>2. QED BY <1>1, <1>3, <2>1 DEF DataInv, MinimaOK
  <1>6. /\ Value(Stored).ok /\ Value(Stored).value = states[wr].value
        /\ Value(Stored).index = states[wr].index
    BY <1>1, <1>2, <1>3, <1>4, <1>5, MinimumIsValue
  <1>7. Value(Stored).value \in Int /\ Value(Stored).index \in Nat
    BY <1>4, <1>6 DEF Entries
  <1> DEFINE words == ResultWords(cmd, states[wr])
  <1>8. words = WordsOf(Stored) /\ WriteResult(Stored, words)
    BY <1>3, <1>6 DEF WordsOf, ResultWords, WriteRow
  <1>9. Stored < cmd.out.length
    BY <1>1, <1>3
  <1>10. ASSUME UNCHANGED fixedVars, wr' = wr + 1, UNCHANGED <<tile, chunk>>
         PROVE  Stored' = Stored + 1
    BY <1>1, <1>3, <1>10, Fixed DEF Stored, Least
  <1>11. ASSUME UNCHANGED fixedVars, pc' = pc, wr' = wr + 1,
                UNCHANGED <<phase, tile, row, chunk, group, bank, valid, states>>
         PROVE  LoopsOK' /\ BanksOK' /\ MinimaOK'
    <2>1. Rows' = Rows
      BY <1>11, FixedShape
    <2>2. LoopsOK'
      BY <1>1, <1>2, <1>3, <1>11, <2>1, Fixed DEF LoopsOK, InTile, InChunk
    <2>3. MinimaOK'
      <3>1. \A r : Behind(r)' = Behind(r)
        BY <1>1, <1>11, Fixed DEF Behind
      <3>2. QED BY <1>1, <1>11, <2>1, <3>1, Fixed, FixedLeast DEF MinimaOK, DataInv
    <2>4. BanksOK'
      BY <1>1, <1>11, Fixed, OutOfChunk
    <2>5. QED BY <2>2, <2>3, <2>4
  <1> HIDE DEF words
  <1>12. QED BY <1>1, <1>6, <1>7, <1>8, <1>9, <1>10, <1>11, WriteResultKeeps

-----------------------------------------------------------------------------
(* The theorems.                                                           *)

LEMMA DataInit ==
  ASSUME Init
  PROVE  DataInv
  <1>1. /\ config \in Configs /\ cmd \in Candidates /\ ValidCommand(cmd) = "OK"
        /\ mem \in Images /\ mem0 = mem /\ pc = "tile" /\ phase = "run"
        /\ tile = 0 /\ row = 0 /\ chunk = 0 /\ group = 0 /\ wr = 0
        /\ bank = [b \in 0..2 |-> [k \in 0..config.tn - 1 |-> 0]]
        /\ valid = [b \in 0..2 |-> 0]
        /\ states = [r \in 0..config.tm - 1 |-> [value |-> 0, index |-> 0]]
    BY DEF Init
  <1>2. DataTypes
    BY <1>1, DatapathAssumption DEF DataTypes
  <1>3. LoopsOK
    BY <1>1 DEF LoopsOK, InTile, InChunk
  <1>4. BanksOK
    BY <1>1 DEF BanksOK, ColumnOK
  <1>5. MinimaOK
    BY <1>1 DEF MinimaOK, InTile
  <1>6. StoredOK
    <2>1. OutputFields(cmd) /\ Outputs \in Nat /\ cmd.a.length \in Nat
      BY <1>2, ShapeIs
    <2>2. Turns[0] = [ok |-> TRUE, mem |-> mem0]
      BY <2>1, OutputsAre DEF OutputLoop, Turns
    <2>3. Stored = 0
      BY <1>1, <2>1 DEF Stored, Least
    <2>4. QED BY <1>1, <2>2, <2>3 DEF StoredOK
  <1>7. QED BY <1>2, <1>3, <1>4, <1>5, <1>6 DEF DataInv

(* Every step keeps the invariant and is one of the contract's, or none.   *)
LEMMA DataStep ==
  ASSUME DataInv, [Next]_vars
  PROVE  DataInv' /\ Effect
  <1>1. CASE Next
    <2>1. Keeps
      BY <1>1, BeginTileKeeps, BeginChunkKeeps, LoadFirstKeeps, LoadSecondKeeps, LoadThirdKeeps,
         PreAddKeeps, BeginRowKeeps, AddGroupKeeps, EndChunkKeeps, WriteVectorKeeps,
         VectorStoredKeeps, ColumnsDoneKeeps, WriteRowKeeps, EndTileKeeps, SucceedKeeps DEF Next
    <2>2. QED BY <2>1, EffectAgrees DEF Keeps, DataInv
  <1>2. CASE UNCHANGED vars
    <2>1. UNCHANGED fixedVars /\ UNCHANGED <<mem, pc, phase, bank, valid, states, wr>>
          /\ UNCHANGED <<tile, row, chunk, group>>
      BY <1>2 DEF vars, loopVars
    <2>2. Cols' = Cols /\ Rows' = Rows /\ Stored' = Stored /\ UNCHANGED Inputs
      BY <2>1, FixedShape
    <2>3. Effect
      BY <2>1, <2>2 DEF Effect, Idles
    <2>4. DataTypes'
      BY <2>1, Fixed DEF DataInv, DataTypes
    <2>5. LoopsOK'
      BY <2>1, <2>2, Fixed DEF DataInv, LoopsOK, InTile, InChunk
    <2>6. BanksOK'
      <3>1. ASSUME NEW k \in 0..Cols - 1 PROVE ColumnOK(k)'
        <4>1. ColumnOK(k) /\ (Added(k)' <=> Added(k))
          BY <2>1 DEF DataInv, BanksOK, Added
        <4>2. QED BY <2>1, <4>1, Fixed DEF ColumnOK
      <3>2. QED BY <2>1, <2>2, <3>1, Fixed DEF DataInv, BanksOK
    <2>7. MinimaOK'
      <3>1. \A r : Behind(r)' = Behind(r)
        BY <2>1, <2>2, Fixed DEF Behind, Least
      <3>2. QED BY <2>1, <2>2, <3>1, Fixed, FixedLeast DEF DataInv, MinimaOK, InTile
    <2>8. QED BY <2>3, <2>4, <2>5, <2>6, <2>7, EffectAgrees DEF DataInv
  <1>3. QED BY <1>1, <1>2

(* Where the loops of primitive() are, what the banks and the running      *)
(* minima hold, and which outputs are in memory, in every reachable state. *)
THEOREM DatapathInvariant == Spec => []DataInv
  <1>1. Init => DataInv
    BY DataInit
  <1>2. DataInv /\ [Next]_vars => DataInv'
    BY DataStep
  <1>3. QED BY <1>1, <1>2, PTL DEF Spec

(* add(): the bank the rows of a tile share survives all of them.          *)
THEOREM SharedBankKept == Spec => []SharedBankSurvives
  <1>1. DataInv => SharedBankSurvives
    <2> SUFFICES ASSUME DataInv, pc \in {"row", "add"}, phase = "run", Projection
                 PROVE  /\ valid[0] = Cols /\ (pc = "add" => valid[2] = Cols)
                        /\ \A k \in 0..Cols - 1 : bank[0][k] = Shared(chunk + k)
      BY DEF SharedBankSurvives, Shared, First, Second
    <2>1. ASSUME NEW k \in 0..Cols - 1 PROVE bank[0][k] = Shared(chunk + k)
      <3>1. ColumnOK(k)
        BY DEF DataInv, BanksOK
      <3>2. QED BY <3>1 DEF ColumnOK
    <2>2. QED BY <2>1 DEF DataInv, BanksOK
  <1>2. QED BY <1>1, DatapathInvariant, PTL

(* reduce(): tiles, chunks and lanes leave each row the minimum of the     *)
(* columns behind it, and its first column.                                *)
THEOREM MinimumIsRunning == Spec => []RunningMinimum
  <1>1. DataInv => RunningMinimum
    <2> SUFFICES ASSUME DataInv, phase = "run", ~Vector, pc # "tile", NEW r \in 0..Rows - 1
                 PROVE  LET sum(i) == Candidate(cmd, tile + r, i, mem0, faults)
                            behind == ColumnsBehind(r)
                        IN  /\ \A i \in behind : states[r].value <= sum(i)
                            /\ \A i \in behind : i < states[r].index => states[r].value < sum(i)
                            /\ behind # {} => sum(states[r].index) = states[r].value
      BY DEF RunningMinimum
    <2>1. InTile /\ DataTypes
      BY DEF DataInv, LoopsOK, InTile
    <2>2. LeastSum(states[r], tile + r, Behind(r))
      BY <2>1 DEF DataInv, MinimaOK
    <2>3. \A i : Sum(tile + r, i) = Candidate(cmd, tile + r, i, mem0, faults)
      BY DEF Sum
    <2>4. ColumnsBehind(r) = 0..Behind(r) - 1
      <3>1. /\ chunk \in Nat /\ row \in Nat /\ group \in Nat /\ cmd.a.length \in Nat
            /\ r \in Nat
        BY <2>1, TileFacts
      <3>2. CASE pc = "add"
        <4>1. InChunk /\ group < Cols
          BY <3>2 DEF InChunk, DataInv, LoopsOK
        <4>2. Cols \in Nat /\ chunk + Cols <= cmd.a.length
          BY <4>1, ChunkFacts
        <4>3. QED BY <3>1, <3>2, <4>1, <4>2 DEF ColumnsBehind, Behind, Least
      <3>3. CASE pc = "row"
        BY <3>1, <3>3 DEF ColumnsBehind, Behind
      <3>4. CASE pc = "write"
        BY <3>4 DEF ColumnsBehind, Behind
      <3>5. CASE pc \in {"chunk", "first", "second", "third", "preadd"}
        BY <3>5 DEF ColumnsBehind, Behind
      <3>6. QED BY <2>1, <3>2, <3>3, <3>4, <3>5 DEF DataTypes, InTile
    <2>5. Behind(r) = 0 => ColumnsBehind(r) = {}
      BY <2>4
    <2>6. QED BY <2>2, <2>3, <2>4, <2>5 DEF LeastSum
  <1>2. QED BY <1>1, DatapathInvariant, PTL

(* The two device models agree: a primitive that the structural one ends   *)
(* has the verdict of the functional one, and its memory if it succeeds.   *)
THEOREM DatapathIsFunctional == Spec => []SameAsFunctional
  <1>1. DataInv => SameAsFunctional
    <2> SUFFICES ASSUME DataInv, pc = "done"
                 PROVE  LET done == ExecuteCommand(cmd, mem0, faults)
                        IN  (done.ok <=> phase = "ok") /\ (done.ok => mem = done.mem)
      BY DEF SameAsFunctional
    <2>1. DataTypes /\ LoopsOK /\ phase \in {"ok", "failed"}
      BY DEF DataInv, LoopsOK, DataTypes
    <2>2. ExecuteCommand(cmd, mem0, faults) = Turns[cmd.out.length]
      BY <2>1, ShapeIs, OutputsAre DEF Turns
    <2>3. phase = "ok" => Stored = cmd.out.length
      BY <2>1, StoredIs
    <2>4. QED BY <2>1, <2>2, <2>3 DEF DataInv, StoredOK
  <1>2. QED BY <1>1, DatapathInvariant, PTL

(* primitive() implements what the control part of the device is built on: *)
(* outputs stored one at a time and in order, each with the value of the   *)
(* functional model, and failure only for a reason that model has too.     *)
THEOREM DatapathMeetsContract == Spec => RefinesContract
  <1>1. Init => Contract!ContractInit
    <2> SUFFICES ASSUME Init PROVE Contract!ContractInit
      OBVIOUS
    <2>1. DataTypes
      BY DataInit DEF DataInv
    <2>2. Outputs \in Nat /\ cmd.a.length \in Nat
      BY <2>1, ShapeIs
    <2>3. Stored = 0
      BY <2>2 DEF Init, Stored, Least
    <2>4. QED BY <2>3 DEF Init, Contract!ContractInit
  <1>2. DataInv /\ [Next]_vars => [Contract!ContractNext]_Contract!contractVars
    BY DataStep, EffectIsContract
  <1>3. QED BY <1>1, <1>2, DatapathInvariant, PTL DEF Spec, RefinesContract, Contract!ContractSpec
=============================================================================
