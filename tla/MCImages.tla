----------------------------- MODULE MCImages -----------------------------
(***************************************************************************)
(* The memories both device models are run on: fifty cells that hold a     *)
(* batch at cell 4 and its children from cell 12, around them the data     *)
(* they use.                                                               *)
(***************************************************************************)
EXTENDS AcceleratorOps

MCRam    == 2..51
MCMinInt == -9

Data(x) == CASE x = 47 -> MinInt [] x = 44 -> Inf [] OTHER -> (x % 5) - 1

GoodBatch  == OrderedBatch(12, 2, 16, 35)
Producer   == Reduce2("reduce2_argmin", Vec(41, 2, 1), Vec(43, 2, 1), 39)
Consumer   == VectorAdd(Vec(45, 2, 1), Vec(39, 2, 1), Out(45, 2, 1, "cost"))
HalfFails  == VectorAdd(Vec(46, 2, 1), Vec(46, 2, 1), Out(46, 2, 1, "cost"))
IntoParent == Reduce2("reduce2", Vec(41, 2, 1), Vec(43, 2, 1), 11)
IntoStream == Reduce2("reduce2", Vec(41, 2, 1), Vec(43, 2, 1), 27)
Around     == VectorAdd(Vec(41, 2, 1), Vec(48, 2, 1), Out(2, 2, 36, "cost"))
OneBatch   == OrderedBatch(12, 1, 12, 35)
Truncated  == OrderedBatch(12, 3, 16, 35)
Trailing   == OrderedBatch(12, 1, 16, 35)
OverStream == OrderedBatch(12, 2, 16, 27)
OverParent == OrderedBatch(12, 2, 16, 3)
CutShort   == OrderedBatch(12, 1, 8, 35)
Rows       == Project(Mat(41, 2, 2, 2, 1), Vec(48, 2, 1), Out(38, 2, 1, "cost"))
Pairs      == Map3Project(Vec(45, 2, 1), Vec(48, 2, 1), Mat(41, 2, 2, 1, 2), Out(31, 2, 2, "pair"))

Commands == <<GoodBatch, Producer, Consumer, HalfFails, IntoParent, IntoStream, Around, OneBatch,
              Truncated, Trailing, OverStream, OverParent, CutShort, Rows, Pairs, Producer>>

(* The last one has a reserved byte set, as no encoder produces it.        *)
Encoded == [i \in 1..16 |-> [Encode(Commands[i]) EXCEPT !.reserved = i \div 16]]
MCWires == Encoded

(* The memory with descriptor at[x] placed at each cell x of its domain.   *)
Image(at) ==
    [x \in MCRam |->
       LET here == {a \in DOMAIN at : x \in a..a + DescriptorCells(at[a]) - 1}
       IN  IF here = {} THEN Data(x) ELSE LET a == CHOOSE a \in here : TRUE IN Word(at[a], x - a)]

At(a, b, c) == [x \in {4, 12, 20} |-> CASE x = 4 -> a [] x = 12 -> b [] x = 20 -> c]
AtTwo(a, b) == [x \in {4, 12} |-> IF x = 4 THEN a ELSE b]
AtOne(a)    == [x \in {4} |-> a]

(* Good; a child that fails, first or second; nested; an output on the     *)
(* parent, on the stream, around both; a count too large and too small; a  *)
(* record on the stream and on the parent; a child longer than the stream; *)
(* a reserved byte; no second child; two commands of their own.            *)
AllPlaces == {At(1, 2, 3), At(1, 2, 4), At(1, 4, 3), At(1, 2, 1), At(1, 2, 5), At(1, 2, 6),
              AtTwo(8, 7), At(9, 2, 3), At(10, 2, 3), At(11, 2, 3), At(12, 2, 3), AtTwo(13, 7),
              At(1, 16, 3), AtTwo(1, 2), AtOne(14), AtOne(15)}
AllImages == {Image(at) : at \in AllPlaces}

FewPlaces == {At(1, 2, 3), At(1, 4, 3), AtTwo(8, 7)}
FewImages == {Image(at) : at \in FewPlaces}

Fault(r, w) == [read |-> r, write |-> w]
AllFaults == {Fault({}, {}), Fault({20}, {}), Fault({18}, {}), Fault({44}, {}),
              Fault({}, {36}), Fault({}, {40})}
SomeFaults == {Fault({}, {}), Fault({20}, {}), Fault({}, {40})}
FewFaults == {Fault({}, {}), Fault({44}, {36})}
=============================================================================
