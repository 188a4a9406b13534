--------------------------- MODULE OffloadProofs ---------------------------
(***************************************************************************)
(* Theorem about the offload of the solver's operations: a kernel call     *)
(* that fails leaves the solver's arrays alone, whatever the arrays, the   *)
(* calls, the capacities of the adapters and the cells the device cannot   *)
(* reach.                                                                  *)
(*                                                                         *)
(* Both adapters are loops over the jobs of the call, so the argument is   *)
(* about one turn: it stores to the adapter's own cells only, and the      *)
(* commands it adds have their outputs where the adapter means them to be. *)
(***************************************************************************)
EXTENDS PbqpOffload, AcceleratorOpsProofs

-----------------------------------------------------------------------------
(* The loops of the adapters.                                              *)

(* One turn of each: the device, the preparation of a scalar call and of a *)
(* batch, the staging and the reading back.                                *)
Turn(way, before, item) ==
    CASE way = "run"     -> RunCommand(before, item)
      [] way = "scratch" -> PrepareJob(before, item, FALSE)
      [] way = "pack"    -> PrepareJob(before, item, TRUE)
      [] way = "stage"   -> StageJob(before, item)
      [] way = "back"    -> CopyBack(before, item)

Looped(way, start, items, f, n) ==
    [i \in 0..n |-> IF i = 0 THEN start ELSE Turn(way, f[i - 1], items[i])]

(* Each loop has a value after each of its turns.                          *)
LEMMA LoopsUnroll ==
  ASSUME NEW way, NEW start, NEW items, NEW n \in Nat
  PROVE  \E f : f = Looped(way, start, items, f, n)
  <1> DEFINE Bad == {i \in Nat : ~\E f : f = Looped(way, start, items, f, i)}
  <1>1. SUFFICES ASSUME Bad # {} PROVE FALSE
    OBVIOUS
  <1>2. PICK i \in Bad : \A j \in Bad : i <= j
    <2>1. Bad \subseteq Nat
      OBVIOUS
    <2> HIDE DEF Bad
    <2> QED BY <1>1, <2>1, HasLeast
  <1>3. i \in Nat /\ ~\E f : f = Looped(way, start, items, f, i)
    BY <1>2
  <1>4. CASE i = 0
    <2> DEFINE f == [k \in 0..0 |-> start]
    <2>1. f = Looped(way, start, items, f, 0)
      BY DEF Looped
    <2>2. QED BY <2>1, <1>3, <1>4
  <1>5. CASE i # 0
    <2>1. i - 1 \in Nat /\ i - 1 \notin Bad
      BY <1>2, <1>3, <1>5
    <2>2. PICK f : f = Looped(way, start, items, f, i - 1)
      BY <2>1
    <2> DEFINE g == [k \in 0..i |-> IF k < i THEN f[k] ELSE Turn(way, f[i - 1], items[i])]
    <2>3. ASSUME NEW k \in 0..i
          PROVE  g[k] = IF k = 0 THEN start ELSE Turn(way, g[k - 1], items[k])
      <3>1. CASE k < i
        <4>1. k \in 0..i - 1 /\ (k # 0 => k - 1 \in 0..i /\ k - 1 < i)
          BY <3>1, <1>3
        <4>2. g[k] = f[k] /\ (k # 0 => g[k - 1] = f[k - 1])
          BY <4>1, <3>1
        <4>3. f[k] = IF k = 0 THEN start ELSE Turn(way, f[k - 1], items[k])
          BY <2>2, <4>1 DEF Looped
        <4>4. QED BY <4>2, <4>3
      <3>2. CASE k = i
        <4>1. i - 1 \in 0..i /\ i - 1 < i
          BY <1>3, <1>5
        <4>2. g[k] = Turn(way, f[i - 1], items[k]) /\ g[i - 1] = f[i - 1]
          BY <4>1, <3>2
        <4>3. QED BY <4>2, <3>2, <1>5
      <3>3. QED BY <3>1, <3>2, <1>3
    <2>4. g = Looped(way, start, items, g, i)
      <3>1. \A k \in 0..i : g[k] = Looped(way, start, items, g, i)[k]
        BY <2>3 DEF Looped
      <3>2. QED BY <3>1 DEF Looped
    <2>5. QED BY <2>4, <1>3
  <1>6. QED BY <1>4, <1>5

(* The values f of a loop, turn by turn.                                   *)
Loop(way, start, items, f, n) ==
    f[0] = start /\ \A i \in 1..n : f[i] = Turn(way, f[i - 1], items[i])

(* Unrolled, a loop is its start and its turns.                            *)
LEMMA LoopIs ==
  ASSUME NEW way, NEW start, NEW items, NEW n \in Nat
  PROVE  Loop(way, start, items, CHOOSE f : f = Looped(way, start, items, f, n), n)
  <1> DEFINE f == CHOOSE f : f = Looped(way, start, items, f, n)
  <1>1. f = Looped(way, start, items, f, n)
    BY LoopsUnroll
  <1> HIDE DEF f
  <1>2. \A k \in 0..n : f[k] = IF k = 0 THEN start ELSE Turn(way, f[k - 1], items[k])
    BY <1>1 DEF Looped
  <1>3. 0 \in 0..n /\ \A k \in 1..n : k \in 0..n /\ k # 0
    OBVIOUS
  <1>4. Loop(way, start, items, f, n)
    BY <1>2, <1>3 DEF Loop
  <1>5. QED BY <1>4 DEF f

(* The turns at which a property holds, if one turn hands it to the next.  *)
LEMMA EveryTurn ==
  ASSUME NEW n \in Nat, NEW Good, 0 \in Good, \A k \in 1..n : k - 1 \in Good => k \in Good
  PROVE  n \in Good
  <1> DEFINE Bad == {k \in 0..n : k \notin Good}
  <1>1. SUFFICES ASSUME Bad # {} PROVE FALSE
    OBVIOUS
  <1>2. PICK k \in Bad : \A j \in Bad : k <= j
    <2>1. Bad \subseteq Nat
      OBVIOUS
    <2> HIDE DEF Bad
    <2> QED BY <1>1, <2>1, HasLeast
  <1>3. k \in 1..n /\ k - 1 \in 0..n /\ k - 1 \notin Bad
    BY <1>2
  <1>4. QED BY <1>2, <1>3

(* The four loops of the model are such loops.                             *)
LEMMA RunLoop ==
  ASSUME NEW commands, NEW m, Len(commands) \in Nat
  PROVE  \E f : /\ Run(commands, m) = f[Len(commands)]
                /\ Loop("run", [ok |-> TRUE, mem |-> m], commands, f, Len(commands))
  <1> DEFINE n == Len(commands)
             start == [ok |-> TRUE, mem |-> m]
             f == CHOOSE f : f = Looped("run", start, commands, f, n)
  <1>1. Run(commands, m) = f[n]
    BY DEF Run, Looped, Turn
  <1>2. Loop("run", start, commands, f, n)
    BY LoopIs
  <1>3. QED BY <1>1, <1>2

LEMMA StagedLoop ==
  ASSUME NEW jobs, Len(jobs) \in Nat
  PROVE  \E f : /\ StagedJobs(jobs) = f[Len(jobs)]
                /\ Loop("stage", BeginStaging, jobs, f, Len(jobs))
  <1> DEFINE n == Len(jobs)
             f == CHOOSE f : f = Looped("stage", BeginStaging, jobs, f, n)
  <1>1. StagedJobs(jobs) = f[n]
    BY DEF StagedJobs, Looped, Turn
  <1>2. Loop("stage", BeginStaging, jobs, f, n)
    BY LoopIs
  <1>3. QED BY <1>1, <1>2

LEMMA BackLoop ==
  ASSUME NEW m, NEW back, Len(back) \in Nat
  PROVE  \E f : CopiedBack(m, back) = f[Len(back)] /\ Loop("back", m, back, f, Len(back))
  <1> DEFINE n == Len(back)
             f == CHOOSE f : f = Looped("back", m, back, f, n)
  <1>1. CopiedBack(m, back) = f[n]
    BY DEF CopiedBack, Looped, Turn
  <1>2. Loop("back", m, back, f, n)
    BY LoopIs
  <1>3. QED BY <1>1, <1>2

Idle == [mem |-> mem, packed |-> packed, at |-> <<>>, commands |-> <<>>, status |-> "OK"]

LEMMA PreparedLoop ==
  ASSUME NEW call, Len(call.jobs) \in Nat
  PROVE  \/ Prepared(call) = [Idle EXCEPT !.status = "NO_SPACE"]
         \/ \E f, way, start :
              /\ Prepared(call) = f[Len(call.jobs)]
              /\ way \in {"scratch", "pack"} /\ start \in {Idle, BeginBatch(mem)}
              /\ Loop(way, start, call.jobs, f, Len(call.jobs))
  <1> DEFINE n == Len(call.jobs)
             batched == call.op \in PackedBatches
  <1>1. CASE Len(call.jobs) > JobLimit(call.op)
    BY <1>1 DEF Prepared, Idle
  <1>2. CASE ~(Len(call.jobs) > JobLimit(call.op)) /\ batched
    <2> DEFINE start == BeginBatch(mem)
               f == CHOOSE f : f = Looped("pack", start, call.jobs, f, n)
    <2>1. Prepared(call) = f[n]
      BY <1>2 DEF Prepared, Looped, Turn
    <2>2. Loop("pack", start, call.jobs, f, n)
      BY LoopIs
    <2> HIDE DEF f
    <2>3. QED BY <2>1, <2>2
  <1>3. CASE ~(Len(call.jobs) > JobLimit(call.op)) /\ ~batched
    <2> DEFINE start == Idle
               f == CHOOSE f : f = Looped("scratch", start, call.jobs, f, n)
    <2> DEFINE Body(g) == [i \in 0..n |->
                             IF i = 0 THEN IF batched THEN BeginBatch(mem) ELSE Idle
                             ELSE PrepareJob(g[i - 1], call.jobs[i], batched)]
    <2>1. Prepared(call) = f[n]
      <3>1. Prepared(call) = (CHOOSE g : g = Body(g))[n]
        BY <1>3 DEF Prepared, Idle
      <3>2. \A g : Body(g) = Looped("scratch", start, call.jobs, g, n)
        <4>1. batched = FALSE
          BY <1>3
        <4> HIDE DEF batched, start
        <4>2. \A g : Body(g) = [i \in 0..n |-> IF i = 0 THEN start
                                                ELSE PrepareJob(g[i - 1], call.jobs[i], FALSE)]
          BY <4>1 DEF start
        <4>3. QED BY <4>2 DEF Looped, Turn
      <3> HIDE DEF Body, start, n
      <3>3. (CHOOSE g : g = Body(g)) = f
        BY <3>2
      <3>4. QED BY <3>1, <3>3
    <2>2. Loop("scratch", start, call.jobs, f, n)
      BY LoopIs
    <2> HIDE DEF f
    <2>3. QED BY <2>1, <2>2
  <1>4. QED BY <1>1, <1>2, <1>3

-----------------------------------------------------------------------------
(* Memory.                                                                 *)

(* Memory m has every cell, and those of K as the call found them.         *)
Kept(m, K) == DOMAIN m = Ram /\ \A x \in K : m[x] = mem[x]

(* The commands that spare the cells of K.                                 *)
Primitives == [kind : Kinds \ {"batch"}, a : VectorViews, b : VectorViews, c : VectorViews,
               m : MatrixViews, out : OutputViews]
Sparing(K) == {cmd \in Primitives : OutCells(cmd) \cap K = {}}

(* Words stored elsewhere leave K alone.                                   *)
LEMMA StoreKeeps ==
  ASSUME NEW m, NEW K, K \subseteq Ram, Kept(m, K), NEW address \in Nat,
         NEW words, Len(words) \in Nat, (address..address + Len(words) - 1) \cap K = {}
  PROVE  Kept(Store(m, address, words), K)
  <1>1. address + 0..address + 0 + Len(words) - 1 = address..address + Len(words) - 1
    OBVIOUS
  <1>2. Store(m, address, words)
          = [x \in Ram |-> IF x \in address..address + Len(words) - 1
                           THEN words[x - address + 1] ELSE m[x]]
    BY <1>1 DEF Store, StorePart, Kept
  <1>3. ASSUME NEW x \in K PROVE Store(m, address, words)[x] = mem[x]
    <2>1. x \in Ram /\ x \notin address..address + Len(words) - 1 /\ m[x] = mem[x]
      BY DEF Kept
    <2>2. QED BY <1>2, <2>1
  <1>4. DOMAIN Store(m, address, words) = Ram
    BY <1>2
  <1>5. QED BY <1>3, <1>4 DEF Kept

(* The device leaves alone what no command stores to.                      *)
LEMMA RunKeeps ==
  ASSUME NEW K, K \subseteq Ram, NEW commands \in Seq(Sparing(K)), NEW m, Kept(m, K)
  PROVE  Kept(Run(commands, m).mem, K)
  <1> DEFINE n == Len(commands)
             OK(r) == DOMAIN r = {"ok", "mem"} /\ Kept(r.mem, K)
  <1>1. n \in Nat /\ \A i \in 1..n : commands[i] \in Sparing(K)
    OBVIOUS
  <1>2. PICK f : /\ Run(commands, m) = f[n]
                 /\ Loop("run", [ok |-> TRUE, mem |-> m], commands, f, n)
    BY <1>1, RunLoop
  <1> DEFINE Good == {i \in 0..n : OK(f[i])}
  <1>3. 0 \in Good
    <2>1. f[0] = [ok |-> TRUE, mem |-> m]
      BY <1>2 DEF Loop
    <2>2. QED BY <1>1, <2>1
  <1>4. ASSUME NEW k \in 1..n, k - 1 \in Good PROVE k \in Good
    <2> DEFINE cmd == commands[k]
    <2>1. OK(f[k - 1]) /\ k \in 0..n
      BY <1>1, <1>4
    <2>2. f[k] = RunCommand(f[k - 1], cmd)
      BY <1>2 DEF Loop, Turn
    <2>3. CASE ~f[k - 1].ok
      BY <2>1, <2>2, <2>3 DEF RunCommand
    <2>4. CASE f[k - 1].ok
      <3>1. f[k] = ExecuteCommand(cmd, f[k - 1].mem, faults)
        BY <2>2, <2>4 DEF RunCommand
      <3>2. cmd \in Primitives /\ OutCells(cmd) \cap K = {}
        BY <1>1 DEF Sparing
      <3>3. OutputFields(cmd)
        BY <3>2 DEF Primitives, OutputFields, OutputViews
      <3>4. Within(f[k], f[k - 1].mem, OutCells(cmd))
        BY <3>1, <3>3, CommandEffect
      <3>5. DOMAIN f[k] = {"ok", "mem"} /\ DOMAIN f[k].mem = Ram
        BY <2>1, <3>4 DEF Within, Kept
      <3>6. ASSUME NEW x \in K PROVE f[k].mem[x] = mem[x]
        BY <2>1, <3>2, <3>4 DEF Within, Kept
      <3>7. QED BY <2>1, <3>5, <3>6 DEF Kept
    <2>5. QED BY <2>3, <2>4
  <1>5. n \in Good
    <2> HIDE DEF Good, n
    <2> QED BY <1>1, <1>3, <1>4, EveryTurn
  <1>6. QED BY <1>2, <1>5

(* Reading back keeps memory a memory.                                     *)
LEMMA BackKeeps ==
  ASSUME NEW m, NEW back, Len(back) \in Nat, DOMAIN m = Ram
  PROVE  DOMAIN CopiedBack(m, back) = Ram
  <1> DEFINE n == Len(back)
  <1>1. PICK f : CopiedBack(m, back) = f[n] /\ Loop("back", m, back, f, n)
    BY BackLoop
  <1> DEFINE Good == {i \in 0..n : DOMAIN f[i] = Ram}
  <1>2. 0 \in Good
    BY <1>1 DEF Loop
  <1>3. ASSUME NEW k \in 1..n, k - 1 \in Good PROVE k \in Good
    <2>1. f[k] = CopyBack(f[k - 1], back[k])
      BY <1>1 DEF Loop, Turn
    <2>2. DOMAIN f[k] = DOMAIN f[k - 1]
      BY <2>1 DEF CopyBack, Store, StorePart
    <2>3. QED BY <1>3, <2>2
  <1>4. n \in Good
    <2> HIDE DEF Good, n
    <2>1. n \in Nat
      BY DEF n
    <2> QED BY <1>2, <1>3, <2>1, EveryTurn
  <1>5. QED BY <1>1, <1>4

(* The length of what a view holds.                                        *)
LEMMA ListLength ==
  ASSUME NEW n \in Nat, NEW s, DOMAIN s = 1..n, s = [i \in 1..n |-> s[i]]
  PROVE  Len(s) = n
  <1> DEFINE S == {s[i] : i \in 1..n}
  <1>1. s \in [1..n -> S]
    OBVIOUS
  <1>2. s \in Seq(S)
    BY <1>1
  <1>3. QED BY <1>2

(* What is read of a view is as long as the view.                          *)
LEMMA ElementsLength ==
  ASSUME NEW m, NEW view \in VectorViews
  PROVE  Len(Elements(m, view)) = view.length /\ view.length \in Nat
  <1>1. view.length \in Nat
    BY DEF VectorViews
  <1>2. /\ DOMAIN Elements(m, view) = 1..view.length
        /\ Elements(m, view) = [i \in 1..view.length |-> Elements(m, view)[i]]
    BY DEF Elements
  <1>3. QED BY <1>1, <1>2, ListLength

-----------------------------------------------------------------------------
(* The bare-metal adapter.                                                 *)

(* A preparation: the arrays of the solver untouched, and the commands so  *)
(* far sparing the cells of K.                                             *)
PrepOK(p, K) ==
    /\ DOMAIN p = {"mem", "packed", "at", "commands", "status"}
    /\ Kept(p.mem, Caller)
    /\ p.packed \in Seq(VectorViews) /\ Len(p.packed) <= MaxPackedViews
    /\ p.at \in Seq(Nat) /\ p.commands \in Seq(Sparing(K))

(* A vector copied to a cell of the adapter's context.                     *)
LEMMA CopyOK ==
  ASSUME NEW p, NEW K, PrepOK(p, K), NEW view \in VectorViews, NEW slot \in Nat,
         NEW keys \in Seq(VectorViews), Len(keys) <= MaxPackedViews,
         (slot..slot + view.length - 1) \cap Caller = {}
  PROVE  PrepOK([p EXCEPT !.at = Append(@, slot), !.packed = keys,
                          !.mem = Store(@, slot, Elements(@, view))], K)
  <1> DEFINE m == Store(p.mem, slot, Elements(p.mem, view))
             q == [p EXCEPT !.at = Append(@, slot), !.packed = keys,
                            !.mem = Store(@, slot, Elements(@, view))]
  <1>1. Kept(m, Caller)
    <2>1. Caller \subseteq Ram
      BY OffloadAssumption
    <2>2. QED BY <2>1, ElementsLength, StoreKeeps DEF PrepOK
  <1>2. Append(p.at, slot) \in Seq(Nat)
    BY DEF PrepOK
  <1>3. /\ DOMAIN q = DOMAIN p /\ q.mem = m /\ q.packed = keys /\ q.at = Append(p.at, slot)
        /\ q.commands = p.commands
    BY DEF PrepOK
  <1> HIDE DEF m, q
  <1>4. PrepOK(q, K)
    BY <1>1, <1>2, <1>3 DEF PrepOK
  <1>5. QED BY <1>4 DEF q

(* An operand that stays where it is.                                      *)
LEMMA AtOK ==
  ASSUME NEW p, NEW K, PrepOK(p, K), NEW a \in Nat
  PROVE  PrepOK([p EXCEPT !.at = Append(@, a)], K)
  <1>1. Append(p.at, a) \in Seq(Nat)
    BY DEF PrepOK
  <1>2. QED BY <1>1 DEF PrepOK

(* contiguous: a scalar call has three operands at most, so a copy stays   *)
(* inside the three scratch vectors.                                       *)
LEMMA ScratchOK ==
  ASSUME NEW p, NEW K, PrepOK(p, K), NEW view \in VectorViews, view.length <= MaxDomain,
         Len(p.at) <= 2
  PROVE  PrepOK(Scratch(p, view), K) /\ Len(Scratch(p, view).at) = Len(p.at) + 1
  <1> DEFINE n == Len(p.at)
             slot == ScratchBase + n * MaxDomain
  <1>0. view.base \in Nat /\ view.length \in Nat /\ n \in Nat /\ MaxDomain \in Nat
        /\ ScratchBase \in Nat
    BY OffloadAssumption DEF PrepOK, VectorViews
  <1>1. CASE view.stride = 1
    <2>1. Scratch(p, view) = [p EXCEPT !.at = Append(@, view.base)]
      BY <1>1 DEF Scratch
    <2>2. Len(Append(p.at, view.base)) = Len(p.at) + 1
      BY <1>0 DEF PrepOK
    <2>3. [p EXCEPT !.at = Append(@, view.base)].at = Append(p.at, view.base)
      BY DEF PrepOK
    <2>4. QED BY <1>0, <2>1, <2>2, <2>3, AtOK
  <1>2. CASE view.stride # 1
    <2> DEFINE q == [p EXCEPT !.at = Append(@, slot), !.packed = p.packed,
                              !.mem = Store(@, slot, Elements(@, view))]
    <2>1. n * MaxDomain \in Nat /\ n * MaxDomain <= 2 * MaxDomain
      BY <1>0, ProductMonotone
    <2>2. /\ slot \in Nat /\ slot >= ScratchBase
          /\ slot + view.length - 1 <= ScratchBase + 3 * MaxDomain - 1
      BY <1>0, <2>1
    <2>3. (slot..slot + view.length - 1) \cap Caller = {}
      <3>1. (ScratchBase..ScratchBase + 3 * MaxDomain - 1) \cap Caller = {}
        BY OffloadAssumption
      <3> HIDE DEF slot
      <3>2. slot..slot + view.length - 1 \subseteq ScratchBase..ScratchBase + 3 * MaxDomain - 1
        BY <1>0, <2>2
      <3>3. QED BY <3>1, <3>2
    <2>4. Scratch(p, view) = q
      BY <1>2 DEF Scratch, PrepOK
    <2> HIDE DEF slot
    <2>5. PrepOK(q, K)
      BY <2>2, <2>3, CopyOK DEF PrepOK
    <2>6. q.at = Append(p.at, slot)
      BY DEF PrepOK
    <2>7. Len(Append(p.at, slot)) = Len(p.at) + 1
      BY <2>2 DEF PrepOK
    <2>8. QED BY <2>4, <2>5, <2>6, <2>7
  <1>3. QED BY <1>1, <1>2

(* Every packed view has a vector of the context for itself.               *)
LEMMA PackSlotOK ==
  ASSUME NEW i \in 1..MaxPackedViews
  PROVE  /\ PackSlot(i) \in Nat
         /\ \A n \in Nat : n <= MaxDomain => (PackSlot(i)..PackSlot(i) + n - 1) \cap Caller = {}
  <1> DEFINE slot == PackSlot(i)
             off == (i - 1) * MaxDomain
             all == MaxPackedViews * MaxDomain
  <1>0. MaxDomain \in Nat /\ MaxPackedViews \in Nat /\ PackBase \in Nat
    BY OffloadAssumption
  <1>1. i - 1 \in Nat /\ off \in Nat /\ i * MaxDomain \in Nat /\ i * MaxDomain <= all /\ all \in Nat
    BY <1>0, ProductMonotone
  <1>2. i * MaxDomain = off + MaxDomain
    BY <1>0, <1>1
  <1>3. slot = PackBase + off
    BY DEF PackSlot
  <1> HIDE DEF off, all, slot
  <1>4. slot \in Nat /\ slot >= PackBase /\ slot + MaxDomain <= PackBase + all
    BY <1>0, <1>1, <1>2, <1>3
  <1>5. ASSUME NEW n \in Nat, n <= MaxDomain PROVE (slot..slot + n - 1) \cap Caller = {}
    <2>1. (PackBase..PackBase + all - 1) \cap Caller = {}
      BY OffloadAssumption DEF all
    <2>2. slot..slot + n - 1 \subseteq PackBase..PackBase + all - 1
      BY <1>0, <1>1, <1>4, <1>5
    <2>3. QED BY <2>1, <2>2
  <1>6. QED BY <1>4, <1>5 DEF slot

(* batch_contiguous: a shared copy, a new one, or none.                    *)
LEMMA BatchContiguousOK ==
  ASSUME NEW p, NEW K, PrepOK(p, K), NEW view \in VectorViews, view.length <= MaxDomain
  PROVE  PrepOK(BatchContiguous(p, view), K) /\ Len(BatchContiguous(p, view).at) = Len(p.at) + 1
  <1> DEFINE r == BatchContiguous(p, view)
             slot == PackSlot(Len(p.packed) + 1)
  <1>0. /\ view.base \in Nat /\ view.length \in Nat /\ Len(p.packed) \in Nat
        /\ MaxPackedViews \in Nat
        /\ p.at \in Seq(Nat) /\ p.packed \in Seq(VectorViews) /\ Len(p.packed) <= MaxPackedViews
    BY OffloadAssumption DEF PrepOK, VectorViews
  <1>1. ASSUME NEW a \in Nat, r = [p EXCEPT !.at = Append(@, a)]
        PROVE  PrepOK(r, K) /\ Len(r.at) = Len(p.at) + 1
    <2>1. Len(Append(p.at, a)) = Len(p.at) + 1
      BY <1>0
    <2>2. [p EXCEPT !.at = Append(@, a)].at = Append(p.at, a)
      BY DEF PrepOK
    <2>3. QED BY <1>1, <2>1, <2>2, AtOK
  <1>2. CASE view.stride = 1
    BY <1>0, <1>1, <1>2 DEF BatchContiguous
  <1>3. CASE view.stride # 1 /\ Contains(p.packed, view)
    <2> DEFINE I == {i \in DOMAIN p.packed : p.packed[i] = view}
    <2>1. I # {} /\ I \subseteq 1..MaxPackedViews
      <3>1. \E i \in DOMAIN p.packed : p.packed[i] = view
        BY <1>3 DEF Contains
      <3>2. DOMAIN p.packed = 1..Len(p.packed)
        BY <1>0
      <3>3. QED BY <1>0, <3>1, <3>2
    <2>2. Min(I) \in I
      <3>1. I \subseteq Nat
        BY <1>0, <2>1
      <3> HIDE DEF I
      <3>2. \E x \in I : \A y \in I : x <= y
        BY <2>1, <3>1, HasLeast
      <3>3. QED BY <3>2 DEF Min
    <2>3. PackSlot(Min(I)) \in Nat
      BY <2>1, <2>2, PackSlotOK
    <2>4. r = [p EXCEPT !.at = Append(@, PackSlot(Min(I)))]
      BY <1>3 DEF BatchContiguous
    <2> HIDE DEF I, r
    <2>5. QED BY <1>1, <2>3, <2>4 DEF r
  <1>4. CASE view.stride # 1 /\ ~Contains(p.packed, view) /\ Len(p.packed) = MaxPackedViews
    BY <1>1, <1>4 DEF BatchContiguous
  <1>5. CASE view.stride # 1 /\ ~Contains(p.packed, view) /\ Len(p.packed) # MaxPackedViews
    <2> DEFINE keys == Append(p.packed, view)
               q == [p EXCEPT !.at = Append(@, slot), !.packed = keys,
                              !.mem = Store(@, slot, Elements(@, view))]
    <2>1. keys \in Seq(VectorViews) /\ Len(keys) <= MaxPackedViews
      BY <1>0, <1>5
    <2>2. Len(p.packed) + 1 \in 1..MaxPackedViews
      BY <1>0, <1>5
    <2>3. slot \in Nat /\ (slot..slot + view.length - 1) \cap Caller = {}
      BY <1>0, <2>2, PackSlotOK
    <2>4. r = q
      BY <1>5 DEF BatchContiguous
    <2> HIDE DEF slot, keys
    <2>5. PrepOK(q, K)
      BY <2>1, <2>3, CopyOK
    <2>6. q.at = Append(p.at, slot)
      BY DEF PrepOK
    <2>7. Len(Append(p.at, slot)) = Len(p.at) + 1
      BY <1>0, <2>3
    <2> HIDE DEF r, q
    <2>8. PrepOK(r, K) /\ Len(r.at) = Len(p.at) + 1
      BY <2>4, <2>5, <2>6, <2>7
    <2>9. QED BY <2>8 DEF r
  <1>6. QED BY <1>2, <1>3, <1>4, <1>5

(* Either way one address more.                                            *)
LEMMA PackOK ==
  ASSUME NEW p, NEW K, PrepOK(p, K), NEW view \in VectorViews, view.length <= MaxDomain,
         Len(p.at) <= 2, NEW batched \in BOOLEAN
  PROVE  PrepOK(Pack(p, view, batched), K) /\ Len(Pack(p, view, batched).at) = Len(p.at) + 1
  BY ScratchOK, BatchContiguousOK DEF Pack

(* A command is added, or the call refused.                                *)
LEMMA AddOK ==
  ASSUME NEW p, NEW K, PrepOK(p, K), NEW cmd, cmd \in Sparing(K)
  PROVE  PrepOK(Add(p, cmd), K)
  <1>1. Append(p.commands, cmd) \in Seq(Sparing(K))
    BY DEF PrepOK
  <1>2. PrepOK([p EXCEPT !.commands = Append(@, cmd)], K)
    BY <1>1 DEF PrepOK
  <1>3. \A x : PrepOK([p EXCEPT !.status = x], K)
    BY DEF PrepOK
  <1>4. QED BY <1>2, <1>3 DEF Add

(* A reduction stores its result where the solver asked for it.            *)
LEMMA ReductionSparing ==
  ASSUME NEW K, NEW cmd, cmd \in Sparing(K), cmd.kind \in ReduceKinds,
         cmd.out = ScalarOut(cmd.kind, cmd.out.base),
         NEW at \in Seq(Nat), Len(at) = (IF cmd.kind \in Reduce2Kinds THEN 2 ELSE 3)
  PROVE  Reduction(cmd, at, cmd.out.base) \in Sparing(K)
  <1> DEFINE r == Reduction(cmd, at, cmd.out.base)
             A == Vec(at[1], cmd.a.length, 1)
             B == Vec(at[2], cmd.b.length, 1)
             C == Vec(at[3], cmd.c.length, 1)
  <1>0. /\ cmd.kind \in Kinds \ {"batch"} /\ cmd.out \in OutputViews /\ OutCells(cmd) \cap K = {}
        /\ cmd.a.length \in Nat /\ cmd.b.length \in Nat /\ cmd.c.length \in Nat
    BY DEF Sparing, Primitives, VectorViews
  <1>1. NoVec \in VectorViews /\ NoMat \in MatrixViews
    BY DEF NoVec, NoMat, Vec, Mat, VectorViews, MatrixViews
  <1>2. /\ A \in VectorViews /\ B \in VectorViews
        /\ (cmd.kind \notin Reduce2Kinds => C \in VectorViews)
    <2>1. at[1] \in Nat /\ at[2] \in Nat /\ (cmd.kind \notin Reduce2Kinds => at[3] \in Nat)
      OBVIOUS
    <2>2. QED BY <1>0, <2>1 DEF Vec, VectorViews
  <1>3. r = Primitive(cmd.kind, A, B, IF cmd.kind \in Reduce2Kinds THEN NoVec ELSE C, NoMat,
                      cmd.out)
    BY DEF Reduction, Reduce2, Reduce3, Costs1
  <1> HIDE DEF A, B, C, r
  <1>4. r \in Primitives /\ r.out = cmd.out
    BY <1>0, <1>1, <1>2, <1>3 DEF Primitive, Primitives
  <1>5. OutCells(r) = OutCells(cmd)
    BY <1>4 DEF OutCells, OutAddr
  <1>6. QED BY <1>0, <1>4, <1>5 DEF Sparing, r

(* What the preparation needs to know of a command.                        *)
Fit(cmd, K) ==
    /\ cmd \in Sparing(K)
    /\ cmd.kind \in ReduceKinds =>
         /\ cmd.out = ScalarOut(cmd.kind, cmd.out.base)
         /\ cmd.a.length <= MaxDomain /\ cmd.b.length <= MaxDomain /\ cmd.c.length <= MaxDomain

(* One command prepared: its reduced operands packed first.                *)
LEMMA PrepareOK ==
  ASSUME NEW p, NEW K, PrepOK(p, K), NEW cmd, Fit(cmd, K), NEW batched \in BOOLEAN
  PROVE  PrepOK(Prepare(p, cmd, batched), K)
  <1>1. CASE p.status # "OK" \/ cmd.kind \notin ReduceKinds
    BY <1>1, AddOK DEF Prepare, Fit
  <1>2. CASE ~(p.status # "OK" \/ cmd.kind \notin ReduceKinds)
    <2> DEFINE zero == [p EXCEPT !.at = <<>>]
               one == Pack(zero, cmd.a, batched)
               two == Pack(one, cmd.b, batched)
               q == IF cmd.kind \in Reduce2Kinds THEN two ELSE Pack(two, cmd.c, batched)
               new == IF 0 \in Range(q.at) THEN cmd ELSE Reduction(cmd, q.at, cmd.out.base)
    <2>0. /\ cmd.a \in VectorViews /\ cmd.b \in VectorViews /\ cmd.c \in VectorViews
          /\ cmd.kind \in ReduceKinds /\ cmd \in Sparing(K)
          /\ cmd.out = ScalarOut(cmd.kind, cmd.out.base)
          /\ cmd.a.length <= MaxDomain /\ cmd.b.length <= MaxDomain /\ cmd.c.length <= MaxDomain
      BY <1>2 DEF Fit, Sparing, Primitives
    <2>1. PrepOK(zero, K) /\ Len(zero.at) = 0
      BY DEF PrepOK
    <2>2. Prepare(p, cmd, batched) = Add(q, new)
      BY <1>2 DEF Prepare
    <2> HIDE DEF zero
    <2>3. PrepOK(one, K) /\ Len(one.at) = 1
      <3>1. Len(zero.at) <= 2
        BY <2>1
      <3>2. PrepOK(one, K) /\ Len(one.at) = Len(zero.at) + 1
        BY <2>0, <2>1, <3>1, PackOK, Zenon
      <3>3. QED BY <2>1, <3>2
    <2> HIDE DEF one
    <2>4. PrepOK(two, K) /\ Len(two.at) = 2
      <3>1. Len(one.at) <= 2
        BY <2>3
      <3>2. PrepOK(two, K) /\ Len(two.at) = Len(one.at) + 1
        BY <2>0, <2>3, <3>1, PackOK, Zenon
      <3>3. QED BY <2>3, <3>2
    <2> HIDE DEF two
    <2>5. PrepOK(q, K) /\ Len(q.at) = (IF cmd.kind \in Reduce2Kinds THEN 2 ELSE 3)
      <3>1. CASE cmd.kind \in Reduce2Kinds BY <3>1, <2>4
      <3>2. CASE cmd.kind \notin Reduce2Kinds
        <4>1. Len(two.at) <= 2 /\ q = Pack(two, cmd.c, batched)
          BY <2>4, <3>2
        <4>2. PrepOK(q, K) /\ Len(q.at) = Len(two.at) + 1
          BY <2>0, <2>4, <4>1, PackOK, Zenon
        <4>3. QED BY <2>4, <3>2, <4>2
      <3>3. QED BY <3>1, <3>2
    <2> HIDE DEF q
    <2>6. q.at \in Seq(Nat)
      BY <2>5 DEF PrepOK
    <2>7. new \in Sparing(K)
      BY <2>0, <2>5, <2>6, ReductionSparing
    <2> HIDE DEF new
    <2>8. QED BY <2>2, <2>5, <2>7, AddOK
  <1>3. QED BY <1>1, <1>2

(* The jobs of the solver's calls, and what each may store to.             *)
IsJob(job) == (IsPrimitive(job) \/ IsProjectAdd(job)) /\ OnCaller(job)
JobOutputs(job) == UNION {OutCells(Lowered(job)[k]) : k \in DOMAIN Lowered(job)}

(* A job that is no project_add is one command.                            *)
LEMMA PrimitiveJob ==
  ASSUME NEW job, IsJob(job), job.kind # "project_add"
  PROVE  /\ IsPrimitive(job) /\ job \in Primitives /\ JobOutputs(job) = OutCells(job)
         /\ job.kind \in ReduceKinds => job.out = ScalarOut(job.kind, job.out.base)
         /\ job.kind \in ReduceKinds /\ "baremetal" \in Kernels =>
              /\ job.a.length <= MaxDomain /\ job.b.length <= MaxDomain
              /\ job.c.length <= MaxDomain
  <1>1. IsPrimitive(job)
    BY DEF IsJob, IsProjectAdd
  <1>2. job \in Primitives
    BY <1>1 DEF IsPrimitive, Primitives
  <1>3. JobOutputs(job) = OutCells(job)
    <2>1. Lowered(job) = <<job>>
      BY DEF Lowered
    <2>2. DOMAIN <<job>> = {1} /\ <<job>>[1] = job
      OBVIOUS
    <2>3. QED BY <2>1, <2>2 DEF JobOutputs
  <1>4. job.kind \in ReduceKinds => job.out = ScalarOut(job.kind, job.out.base)
    BY <1>1 DEF IsPrimitive
  <1>5. ASSUME job.kind \in ReduceKinds, "baremetal" \in Kernels
        PROVE  /\ job.a.length <= MaxDomain /\ job.b.length <= MaxDomain
               /\ job.c.length <= MaxDomain
    BY <1>5 DEF IsJob, OnCaller
  <1>6. QED BY <1>1, <1>2, <1>3, <1>4, <1>5

(* A project_add, in the adapters' terms.                                  *)
LEMMA ProjectAddJob ==
  ASSUME NEW job, job \in [kind : {"project_add"}, m : MatrixViews, a : VectorViews,
                           temporary : Nat, scores : Nat]
  PROVE  /\ ProjectPart(job) \in Primitives /\ AddPart(job) \in Primitives
         /\ ProjectPart(job).kind \notin ReduceKinds /\ AddPart(job).kind \notin ReduceKinds
         /\ ProjectPart(job).out = Out(job.temporary, job.m.rows, 1, "cost")
         /\ AddPart(job).out = Out(job.scores, job.m.rows, 1, "cost")
         /\ JobOutputs(job) = OutCells(ProjectPart(job)) \cup OutCells(AddPart(job))
  <1>0. /\ job.m \in MatrixViews /\ job.a \in VectorViews /\ job.temporary \in Nat
        /\ job.scores \in Nat /\ job.m.rows \in Nat /\ job.kind = "project_add"
    BY DEF MatrixViews
  <1>1. NoVec \in VectorViews /\ NoMat \in MatrixViews
    BY DEF NoVec, NoMat, Vec, Mat, VectorViews, MatrixViews
  <1>2. ASSUME NEW base \in Nat
        PROVE  Out(base, job.m.rows, 1, "cost") \in OutputViews
               /\ Vec(base, job.m.rows, 1) \in VectorViews
    BY <1>0 DEF Out, OutputViews, Vec, VectorViews
  <1>3. ProjectPart(job) = Primitive("project", job.a, NoVec, NoVec, job.m,
                                     Out(job.temporary, job.m.rows, 1, "cost"))
    BY DEF ProjectPart, Project, CostsOut
  <1>4. AddPart(job) = Primitive("vector_add", Vec(job.temporary, job.m.rows, 1),
                                 Vec(job.scores, job.m.rows, 1), NoVec, NoMat,
                                 Out(job.scores, job.m.rows, 1, "cost"))
    BY DEF AddPart, VectorAdd, CostsOut, Costs1
  <1>5. /\ ProjectPart(job) \in Primitives /\ ProjectPart(job).kind = "project"
        /\ ProjectPart(job).out = Out(job.temporary, job.m.rows, 1, "cost")
    BY <1>0, <1>1, <1>2, <1>3 DEF Primitive, Primitives, Kinds
  <1>6. /\ AddPart(job) \in Primitives /\ AddPart(job).kind = "vector_add"
        /\ AddPart(job).out = Out(job.scores, job.m.rows, 1, "cost")
    BY <1>0, <1>1, <1>2, <1>4 DEF Primitive, Primitives, Kinds
  <1>7. JobOutputs(job) = OutCells(ProjectPart(job)) \cup OutCells(AddPart(job))
    <2> DEFINE one == ProjectPart(job)
               both == AddPart(job)
    <2>1. Lowered(job) = <<one, both>>
      BY <1>0 DEF Lowered
    <2> HIDE DEF one, both
    <2>2. DOMAIN <<one, both>> = {1, 2} /\ <<one, both>>[1] = one /\ <<one, both>>[2] = both
      OBVIOUS
    <2>3. JobOutputs(job) = UNION {OutCells(<<one, both>>[k]) : k \in {1, 2}}
      BY <2>1, <2>2 DEF JobOutputs
    <2>4. QED BY <2>2, <2>3 DEF one, both
  <1>8. QED BY <1>5, <1>6, <1>7 DEF ReduceKinds, Reduce2Kinds, Reduce3Kinds

(* One job prepared.                                                       *)
LEMMA PrepareJobOK ==
  ASSUME NEW p, NEW K, PrepOK(p, K), NEW job, IsJob(job), JobOutputs(job) \cap K = {},
         "baremetal" \in Kernels, NEW batched \in BOOLEAN
  PROVE  PrepOK(PrepareJob(p, job, batched), K)
  <1>1. CASE job.kind # "project_add"
    <2>1. Fit(job, K)
      BY <1>1, PrimitiveJob DEF Fit, Sparing
    <2>2. QED BY <1>1, <2>1, PrepareOK DEF PrepareJob
  <1>2. CASE job.kind = "project_add"
    <2>1. IsProjectAdd(job)
      BY <1>2 DEF IsJob, IsPrimitive, Kinds, ReduceKinds, Reduce2Kinds, Reduce3Kinds
    <2>2. Fit(ProjectPart(job), K) /\ Fit(AddPart(job), K)
      BY <2>1, ProjectAddJob DEF IsProjectAdd, Fit, Sparing
    <2> DEFINE q == Prepare(p, ProjectPart(job), batched)
    <2>3. PrepOK(q, K)
      BY <2>2, PrepareOK
    <2>4. PrepareJob(p, job, batched) = Prepare(q, AddPart(job), batched)
      BY <1>2 DEF PrepareJob
    <2> HIDE DEF q
    <2>5. QED BY <2>2, <2>3, <2>4, PrepareOK
  <1>3. QED BY <1>1, <1>2

IsCall(call) == Len(call.jobs) \in Nat /\ \A i \in 1..Len(call.jobs) : IsJob(call.jobs[i])

(* The calls of the solver.                                                *)
LEMMA CallsAre == \A call \in Calls : IsCall(call) /\ DOMAIN call.jobs = 1..Len(call.jobs)
  BY OffloadAssumption DEF IsCall, IsJob

ContextOK == /\ DOMAIN mem = Ram
             /\ packed \in Seq(VectorViews) /\ Len(packed) <= MaxPackedViews

(* Up to the submission the bare-metal adapter touches its context only,   *)
(* and the commands it made store to the outputs of the jobs.              *)
LEMMA PreparedOK ==
  ASSUME NEW call, IsCall(call), DOMAIN call.jobs = 1..Len(call.jobs), ContextOK,
         "baremetal" \in Kernels
  PROVE  PrepOK(Prepared(call), Caller \ Outputs(call.jobs))
  <1> DEFINE n == Len(call.jobs)
             K == Caller \ Outputs(call.jobs)
  <1>0. n \in Nat
    BY DEF IsCall
  <1>1. ASSUME NEW i \in 1..n PROVE IsJob(call.jobs[i]) /\ JobOutputs(call.jobs[i]) \cap K = {}
    <2>1. Outputs(call.jobs) = UNION {JobOutputs(call.jobs[k]) : k \in 1..n}
      BY DEF Outputs, JobOutputs
    <2>2. JobOutputs(call.jobs[i]) \subseteq Outputs(call.jobs)
      BY <2>1
    <2>3. QED BY <2>2 DEF IsCall
  <1> HIDE DEF K
  <1>2. /\ PrepOK(Idle, K) /\ PrepOK(BeginBatch(mem), K)
        /\ PrepOK([Idle EXCEPT !.status = "NO_SPACE"], K)
    <2>1. Kept(mem, Caller)
      BY DEF Kept, ContextOK
    <2>2. /\ <<>> \in Seq(Nat) /\ <<>> \in Seq(Sparing(K))
          /\ <<>> \in Seq(VectorViews) /\ Len(<<>>) = 0
      OBVIOUS
    <2>3. MaxPackedViews \in Nat
      BY OffloadAssumption
    <2>4. QED BY <2>1, <2>2, <2>3 DEF PrepOK, Idle, BeginBatch, ContextOK
  <1>3. CASE Prepared(call) = [Idle EXCEPT !.status = "NO_SPACE"]
    BY <1>2, <1>3 DEF K
  <1>4. ASSUME NEW f, NEW way, NEW start, Prepared(call) = f[n], way \in {"scratch", "pack"},
               start \in {Idle, BeginBatch(mem)}, Loop(way, start, call.jobs, f, n)
        PROVE  PrepOK(Prepared(call), K)
    <2> DEFINE Good == {i \in 0..n : PrepOK(f[i], K)}
    <2>1. 0 \in Good
      <3>1. f[0] = start
        BY <1>4 DEF Loop
      <3>2. PrepOK(start, K)
        BY <1>2, <1>4
      <3>3. QED BY <1>0, <3>1, <3>2
    <2>2. ASSUME NEW k \in 1..n, k - 1 \in Good PROVE k \in Good
      <3>1. PrepOK(f[k - 1], K) /\ k \in 0..n
        BY <1>0, <2>2
      <3>2. f[k] = Turn(way, f[k - 1], call.jobs[k])
        BY <1>4 DEF Loop
      <3>3. \/ f[k] = PrepareJob(f[k - 1], call.jobs[k], TRUE)
            \/ f[k] = PrepareJob(f[k - 1], call.jobs[k], FALSE)
        BY <3>2, <1>4 DEF Turn
      <3>4. \A b \in BOOLEAN : PrepOK(PrepareJob(f[k - 1], call.jobs[k], b), K)
        BY <1>1, <3>1, PrepareJobOK
      <3>5. PrepOK(f[k], K)
        BY <3>3, <3>4
      <3>6. QED BY <3>1, <3>5
    <2>3. n \in Good
      <3> HIDE DEF Good, n
      <3> QED BY <1>0, <2>1, <2>2, EveryTurn
    <2>4. QED BY <1>4, <2>3
  <1>5. QED BY <1>0, <1>3, <1>4, PreparedLoop DEF K

(* A bare-metal call, submission included.                                 *)
LEMMA BareMetalContained ==
  ASSUME NEW call \in Calls, ContextOK, BareMetalCall(call), kernel \in Kernels,
         kernel' = kernel
  PROVE  ContextOK' /\ FailureContained'
  <1> DEFINE p == Prepared(call)
             K == Caller \ Outputs(call.jobs)
             done == Run(p.commands, p.mem)
             s == Submitted(p)
  <1>0. IsCall(call) /\ DOMAIN call.jobs = 1..Len(call.jobs)
    BY CallsAre
  <1>1. PrepOK(p, K)
    <2>1. "baremetal" \in Kernels
      BY DEF BareMetalCall
    <2>2. QED BY <1>0, <2>1, PreparedOK
  <1>2. /\ mem' = s.mem /\ packed' = s.packed
        /\ last' = [op |-> call.op, jobs |-> call.jobs, before |-> mem, status |-> s.status]
        /\ kernel' = "baremetal"
    BY DEF BareMetalCall
  <1>3. Kept(done.mem, K)
    <2>1. K \subseteq Ram /\ p.commands \in Seq(Sparing(K)) /\ Kept(p.mem, K)
      BY <1>1, OffloadAssumption DEF PrepOK, Kept
    <2> HIDE DEF K, p
    <2>2. QED BY <2>1, RunKeeps
  <1>4. s = IF p.status # "OK" THEN p ELSE [p EXCEPT !.mem = done.mem, !.status = Ended(done)]
    BY DEF Submitted
  <1> HIDE DEF p, done, s, K
  <1>5. CASE p.status # "OK"
    <2>1. ContextOK'
      BY <1>1, <1>2, <1>4, <1>5 DEF ContextOK, PrepOK, Kept
    <2>2. \A x \in Caller : mem'[x] = mem[x]
      BY <1>1, <1>2, <1>4, <1>5 DEF PrepOK, Kept
    <2>3. last'.before = mem
      BY <1>2
    <2>4. QED BY <2>1, <2>2, <2>3 DEF FailureContained
  <1>6. CASE p.status = "OK"
    <2>1. s.mem = done.mem /\ s.packed = p.packed /\ s.status = Ended(done)
      BY <1>1, <1>4, <1>6 DEF PrepOK
    <2>2. ContextOK'
      BY <1>1, <1>2, <1>3, <2>1 DEF ContextOK, PrepOK, Kept
    <2>3. \A x \in Caller \ Outputs(call.jobs) : mem'[x] = mem[x]
      BY <1>2, <1>3, <2>1 DEF Kept, K
    <2>4. last'.before = mem /\ last'.jobs = call.jobs /\ last'.status \in {"OK", "DEVICE_ERROR"}
      BY <1>2, <2>1 DEF Ended
    <2>5. FailureContained'
      BY <1>2, <2>3, <2>4 DEF FailureContained
    <2>6. QED BY <2>2, <2>5
  <1>7. QED BY <1>5, <1>6

-----------------------------------------------------------------------------
(* The hosted adapter.                                                     *)

(* Cells of the staging memory.                                            *)
Held(a, n) == a \in Nat /\ n \in Nat /\ GuestFirst <= a /\ a + n <= guest.limit

Items == [from : Nat, to : Nat, cells : Nat]

(* A staging: the arrays of the solver untouched, every cached copy and    *)
(* every result of the commands so far in the staging memory.              *)
StageOK(s) ==
    /\ DOMAIN s = {"mem", "next", "cache", "at", "commands", "back", "status"}
    /\ Kept(s.mem, Caller)
    /\ s.next \in Nat /\ GuestFirst <= s.next
    /\ \A v \in DOMAIN s.cache : Held(s.cache[v], v.length)
    /\ s.at \in Seq(Nat) /\ s.commands \in Seq(Sparing(Caller)) /\ s.back \in Seq(Items)

(* Staging r has n more cells than s, unless it was refused.               *)
Placed(s, r, n) == r.status = "OK" => s.status = "OK" /\ \E a : r.at = Append(s.at, a) /\ Held(a, n)

(* The staging memory is no array of the solver.                           *)
LEMMA HeldApart ==
  ASSUME NEW a, NEW n, Held(a, n), guest.limit \in GuestLimits
  PROVE  (a..a + n - 1) \cap Caller = {}
  <1>1. (GuestFirst..guest.limit - 1) \subseteq Ram \ Caller
    BY OffloadAssumption
  <1>2. GuestFirst \in Nat /\ guest.limit \in Nat
    BY OffloadAssumption
  <1>3. a..a + n - 1 \subseteq GuestFirst..guest.limit - 1
    BY <1>2 DEF Held
  <1>4. QED BY <1>1, <1>3

(* allocate_storage: the cells it hands out lie inside the staging memory. *)
LEMMA AllocateOK ==
  ASSUME NEW s, StageOK(s), NEW cells \in Nat, guest.limit \in GuestLimits
  PROVE  /\ StageOK(AllocateStorage(s, cells)) /\ Placed(s, AllocateStorage(s, cells), cells)
         /\ AllocateStorage(s, cells).mem = s.mem
  <1> DEFINE start == ((s.next + 1) \div 2) * 2
             r == AllocateStorage(s, cells)
  <1>0. s.next \in Nat /\ GuestFirst <= s.next /\ guest.limit \in Nat /\ GuestFirst \in Nat
    BY OffloadAssumption DEF StageOK
  <1>1. start \in Nat /\ start >= s.next
    <2> DEFINE half == (s.next + 1) \div 2
    <2>1. half \in Nat /\ 2 * half >= s.next
      BY <1>0
    <2> HIDE DEF half
    <2>2. QED BY <1>0, <2>1 DEF half
  <1> HIDE DEF start
  <1>2. CASE s.status # "OK"
    BY <1>2 DEF AllocateStorage, Placed
  <1>3. CASE s.status = "OK" /\ start + cells > guest.limit
    <2>1. r = [s EXCEPT !.status = "NO_SPACE"]
      BY <1>3 DEF AllocateStorage, start
    <2>2. QED BY <2>1 DEF StageOK, Placed
  <1>4. CASE s.status = "OK" /\ ~(start + cells > guest.limit)
    <2>1. r = [s EXCEPT !.at = Append(@, start), !.next = start + cells]
      BY <1>4 DEF AllocateStorage, start
    <2>2. /\ DOMAIN r = DOMAIN s /\ r.mem = s.mem /\ r.next = start + cells /\ r.cache = s.cache
          /\ r.at = Append(s.at, start) /\ r.commands = s.commands /\ r.back = s.back
          /\ r.status = s.status
      BY <2>1 DEF StageOK
    <2> HIDE DEF r
    <2>3. Append(s.at, start) \in Seq(Nat)
      BY <1>1 DEF StageOK
    <2>4. start + cells \in Nat /\ GuestFirst <= start + cells /\ Held(start, cells)
      BY <1>0, <1>1, <1>4 DEF Held
    <2>5. StageOK(r)
      BY <2>2, <2>3, <2>4 DEF StageOK
    <2>6. Placed(s, r, cells)
      BY <1>4, <2>2, <2>4 DEF Placed
    <2>7. QED BY <2>2, <2>5, <2>6 DEF r
  <1>5. QED BY <1>2, <1>3, <1>4

(* Words copied there leave the solver alone.                              *)
LEMMA CopyWordsOK ==
  ASSUME NEW s, StageOK(s), NEW words, Len(words) \in Nat, guest.limit \in GuestLimits
  PROVE  StageOK(CopyWords(s, words)) /\ Placed(s, CopyWords(s, words), Len(words))
  <1> DEFINE n == Len(words)
             r == AllocateStorage(s, n)
             c == CopyWords(s, words)
  <1>1. StageOK(r) /\ Placed(s, r, n)
    BY AllocateOK
  <1>2. CASE r.status # "OK"
    BY <1>1, <1>2 DEF CopyWords
  <1>3. CASE r.status = "OK"
    <2>1. c = [r EXCEPT !.mem = Store(@, Last(r.at), words)]
      BY <1>3 DEF CopyWords
    <2> HIDE DEF r, c
    <2>2. PICK a : r.at = Append(s.at, a) /\ Held(a, n)
      BY <1>1, <1>3 DEF Placed
    <2>3. a \in Nat /\ Last(r.at) = a
      <3>1. a \in Nat /\ s.at \in Seq(Nat)
        BY <2>2 DEF Held, StageOK
      <3>2. QED BY <2>2, <3>1 DEF Last
    <2>4. Kept(Store(r.mem, a, words), Caller)
      <3>1. Caller \subseteq Ram /\ Kept(r.mem, Caller)
        BY <1>1, OffloadAssumption DEF StageOK
      <3>2. (a..a + n - 1) \cap Caller = {}
        BY <2>2, HeldApart
      <3>3. QED BY <2>3, <3>1, <3>2, StoreKeeps
    <2>5. StageOK(c)
      BY <1>1, <2>1, <2>3, <2>4 DEF StageOK
    <2>6. c.status = r.status /\ c.at = r.at
      BY <1>1, <2>1 DEF StageOK
    <2>7. Placed(s, c, n)
      BY <1>1, <2>6 DEF Placed
    <2>8. QED BY <2>5, <2>7 DEF c
  <1>4. QED BY <1>2, <1>3

(* copy_view: an old copy or a new one, both in the staging memory.        *)
LEMMA CopyViewOK ==
  ASSUME NEW s, StageOK(s), NEW view \in VectorViews, guest.limit \in GuestLimits
  PROVE  StageOK(CopyView(s, view)) /\ Placed(s, CopyView(s, view), view.length)
  <1> DEFINE r == CopyWords(s, Elements(s.mem, view))
             c == CopyView(s, view)
  <1>1. StageOK(r) /\ Placed(s, r, view.length)
    BY ElementsLength, CopyWordsOK
  <1>2. CASE s.status = "OK" /\ view \in DOMAIN s.cache
    <2>1. c = [s EXCEPT !.at = Append(@, s.cache[view])]
      BY <1>2 DEF CopyView
    <2> HIDE DEF c
    <2>2. Held(s.cache[view], view.length)
      BY <1>2 DEF StageOK
    <2>3. Append(s.at, s.cache[view]) \in Seq(Nat)
      BY <2>2 DEF StageOK, Held
    <2>4. c.at = Append(s.at, s.cache[view]) /\ c.status = s.status
      BY <2>1 DEF StageOK
    <2>5. StageOK(c)
      BY <2>1, <2>3 DEF StageOK
    <2>6. QED BY <1>2, <2>2, <2>4, <2>5 DEF Placed, c
  <1>3. CASE ~(s.status = "OK" /\ view \in DOMAIN s.cache) /\ r.status # "OK"
    <2>1. c = r
      BY <1>3 DEF CopyView
    <2>2. QED BY <1>1, <2>1
  <1>4. CASE ~(s.status = "OK" /\ view \in DOMAIN s.cache) /\ r.status = "OK"
    <2> DEFINE cache == [v \in DOMAIN r.cache \cup {view} |->
                           IF v = view THEN Last(r.at) ELSE r.cache[v]]
    <2>1. c = [r EXCEPT !.cache = cache]
      BY <1>4 DEF CopyView
    <2> HIDE DEF c, r
    <2>2. PICK a : r.at = Append(s.at, a) /\ Held(a, view.length)
      BY <1>1, <1>4 DEF Placed
    <2>3. Last(r.at) = a
      <3>1. a \in Nat /\ s.at \in Seq(Nat)
        BY <2>2 DEF Held, StageOK
      <3>2. QED BY <2>2, <3>1 DEF Last
    <2>4. \A v \in DOMAIN cache : Held(cache[v], v.length)
      BY <1>1, <2>2, <2>3 DEF StageOK
    <2> HIDE DEF cache
    <2>5. /\ DOMAIN c = DOMAIN r /\ c.mem = r.mem /\ c.next = r.next /\ c.cache = cache
          /\ c.at = r.at /\ c.commands = r.commands /\ c.back = r.back /\ c.status = r.status
      BY <1>1, <2>1 DEF StageOK
    <2>6. StageOK(c)
      BY <1>1, <2>4, <2>5 DEF StageOK
    <2>7. Placed(s, c, view.length)
      BY <1>1, <2>5 DEF Placed
    <2>8. QED BY <2>6, <2>7 DEF c
  <1>5. QED BY <1>2, <1>3, <1>4

(* copy_matrix: rows * columns words.                                      *)
LEMMA CopyMatrixOK ==
  ASSUME NEW s, StageOK(s), NEW m \in MatrixViews, guest.limit \in GuestLimits
  PROVE  StageOK(CopyMatrix(s, m)) /\ Placed(s, CopyMatrix(s, m), m.rows * m.columns)
  <1> DEFINE n == m.rows * m.columns
             words == [i \in 1..n |->
                         s.mem[MatAddr(m, (i - 1) \div m.columns, (i - 1) % m.columns)]]
  <1>1. n \in Nat
    <2>1. m.rows \in Nat /\ m.columns \in Nat
      BY DEF MatrixViews
    <2>2. QED BY <2>1, ProductMonotone
  <1>2. CopyMatrix(s, m) = CopyWords(s, words)
    BY DEF CopyMatrix
  <1>3. DOMAIN words = 1..n /\ words = [i \in 1..n |-> words[i]]
    OBVIOUS
  <1> HIDE DEF words, n
  <1>4. Len(words) = n
    BY <1>1, <1>3, ListLength
  <1>5. QED BY <1>1, <1>2, <1>4, CopyWordsOK DEF n

(* The addresses of a staging that was not refused.                        *)
LEMMA PlacedAt ==
  ASSUME NEW s, NEW r, NEW n, StageOK(s), Placed(s, r, n), r.status = "OK"
  PROVE  /\ s.status = "OK" /\ Len(s.at) \in Nat /\ Len(r.at) = Len(s.at) + 1
         /\ Held(r.at[Len(s.at) + 1], n)
         /\ \A i \in 1..Len(s.at) : r.at[i] = s.at[i]
  <1>1. PICK a : r.at = Append(s.at, a) /\ Held(a, n)
    BY DEF Placed
  <1>2. a \in Nat /\ s.at \in Seq(Nat)
    BY <1>1 DEF Held, StageOK
  <1>3. QED BY <1>1, <1>2 DEF Placed

(* What a job has been given.                                              *)
Given(job, at) ==
    CASE job.kind \in Reduce2Kinds  -> Len(at) = 3 /\ Held(at[3], OutWidth(job.out.kind))
      [] job.kind \in Reduce3Kinds  -> Len(at) = 4 /\ Held(at[4], OutWidth(job.out.kind))
      [] job.kind = "vector_add"    -> Len(at) = 3 /\ Held(at[3], job.a.length)
      [] job.kind = "project"       -> Len(at) = 3 /\ Held(at[3], job.m.rows)
      [] job.kind = "map3"          -> Len(at) = 4 /\ Held(at[4], job.m.rows * PairCells)
      [] job.kind = "project_add"   -> /\ Len(at) = 4
                                       /\ Held(at[1], job.m.rows) /\ Held(at[4], job.m.rows)

(* The fields of a job.                                                    *)
LEMMA JobFields ==
  ASSUME NEW job, IsJob(job)
  PROVE  /\ job.kind \in (Kinds \ {"batch"}) \cup {"project_add"}
         /\ job.m \in MatrixViews /\ job.m.rows \in Nat /\ job.a \in VectorViews
         /\ job.a.length \in Nat
         /\ job.kind # "project_add" =>
              /\ IsPrimitive(job) /\ job.b \in VectorViews /\ job.c \in VectorViews
              /\ job.out \in OutputViews /\ OutWidth(job.out.kind) \in Nat
         /\ job.kind = "project_add" => IsProjectAdd(job) /\ job.scores \in Nat
                                        /\ Costs1(job.scores, job.m.rows) \in VectorViews
  <1>1. CASE IsPrimitive(job)
    BY <1>1 DEF IsPrimitive, MatrixViews, VectorViews, OutWidth, PairCells, Kinds, ReduceKinds,
                Reduce2Kinds, Reduce3Kinds
  <1>2. CASE IsProjectAdd(job)
    <2>1. /\ job.kind = "project_add" /\ job.m \in MatrixViews
          /\ job.a \in VectorViews /\ job.scores \in Nat
      BY <1>2 DEF IsProjectAdd
    <2>2. job.m.rows \in Nat /\ job.a.length \in Nat
      BY <2>1 DEF MatrixViews, VectorViews
    <2>3. Costs1(job.scores, job.m.rows) \in VectorViews
      BY <2>1, <2>2 DEF Costs1, Vec, VectorViews
    <2>4. QED BY <1>2, <2>1, <2>2, <2>3
  <1>3. QED BY <1>1, <1>2 DEF IsJob

(* Three and four things staged, one after the other.                      *)
LEMMA ThreeAt ==
  ASSUME NEW s, NEW x, NEW y, NEW z, NEW i, NEW j, NEW k, StageOK(s), StageOK(x), StageOK(y),
         s.at = <<>>, Placed(s, x, i), Placed(x, y, j), Placed(y, z, k), z.status = "OK"
  PROVE  Len(z.at) = 3 /\ Held(z.at[1], i) /\ Held(z.at[3], k)
  <1>1. y.status = "OK" /\ Len(z.at) = Len(y.at) + 1 /\ Held(z.at[Len(y.at) + 1], k)
        /\ \A n \in 1..Len(y.at) : z.at[n] = y.at[n]
    BY PlacedAt
  <1>2. x.status = "OK" /\ Len(y.at) = Len(x.at) + 1
        /\ \A n \in 1..Len(x.at) : y.at[n] = x.at[n]
    BY <1>1, PlacedAt
  <1>3. Len(x.at) = Len(s.at) + 1 /\ Held(x.at[Len(s.at) + 1], i)
    BY <1>2, PlacedAt
  <1>4. Len(s.at) = 0
    OBVIOUS
  <1>5. Len(x.at) = 1 /\ Len(y.at) = 2 /\ Len(z.at) = 3
    BY <1>1, <1>2, <1>3, <1>4
  <1>6. Held(x.at[1], i) /\ y.at[1] = x.at[1] /\ z.at[1] = y.at[1] /\ Held(z.at[3], k)
    BY <1>1, <1>2, <1>3, <1>4, <1>5
  <1>7. QED BY <1>5, <1>6

LEMMA FourAt ==
  ASSUME NEW s, NEW x, NEW y, NEW z, NEW w, NEW i, NEW j, NEW k, NEW l,
         StageOK(s), StageOK(x), StageOK(y), StageOK(z), s.at = <<>>,
         Placed(s, x, i), Placed(x, y, j), Placed(y, z, k), Placed(z, w, l), w.status = "OK"
  PROVE  Len(w.at) = 4 /\ Held(w.at[1], i) /\ Held(w.at[4], l)
  <1>1. z.status = "OK" /\ Len(w.at) = Len(z.at) + 1 /\ Held(w.at[Len(z.at) + 1], l)
        /\ \A n \in 1..Len(z.at) : w.at[n] = z.at[n]
    BY PlacedAt
  <1>2. Len(z.at) = 3 /\ Held(z.at[1], i)
    BY <1>1, ThreeAt
  <1>3. w.at[1] = z.at[1] /\ Len(w.at) = 4 /\ Held(w.at[4], l)
    BY <1>1, <1>2
  <1>4. QED BY <1>2, <1>3

(* Operands and results of a job, staged one after the other.              *)
LEMMA StagedOK ==
  ASSUME NEW s, StageOK(s), s.at = <<>>, NEW job, IsJob(job), guest.limit \in GuestLimits
  PROVE  StageOK(Staged(s, job)) /\ (Staged(s, job).status = "OK" => Given(job, Staged(s, job).at))
  <1> DEFINE r == Staged(s, job)
  <1>0. /\ job.kind \in (Kinds \ {"batch"}) \cup {"project_add"}
        /\ job.m \in MatrixViews /\ job.m.rows \in Nat /\ job.a \in VectorViews
        /\ job.a.length \in Nat
        /\ job.kind # "project_add" =>
             job.b \in VectorViews /\ job.c \in VectorViews /\ OutWidth(job.out.kind) \in Nat
        /\ job.kind = "project_add" => Costs1(job.scores, job.m.rows) \in VectorViews
    BY JobFields
  <1>1. CASE job.kind \in Reduce2Kinds
    <2> DEFINE n == OutWidth(job.out.kind)
               x == CopyView(s, job.a)
               y == CopyView(x, job.b)
               z == AllocateStorage(y, n)
    <2>0. job.kind # "project_add"
      BY <1>1 DEF Reduce2Kinds
    <2>1. r = z
      BY <1>1 DEF Staged, Reduce2Kinds, Reduce3Kinds
    <2>2. StageOK(x) /\ Placed(s, x, job.a.length)
      BY <1>0, CopyViewOK
    <2> HIDE DEF x, r
    <2>3. StageOK(y) /\ Placed(x, y, job.b.length)
      BY <1>0, <2>0, <2>2, CopyViewOK
    <2> HIDE DEF y
    <2>4. StageOK(z) /\ Placed(y, z, n)
      BY <1>0, <2>0, <2>3, AllocateOK
    <2> HIDE DEF z, n
    <2>5. z.status = "OK" => Len(z.at) = 3 /\ Held(z.at[3], n)
      BY <2>2, <2>3, <2>4, ThreeAt
    <2>6. Given(job, z.at) = (Len(z.at) = 3 /\ Held(z.at[3], n))
      BY <1>1 DEF Given, n, Reduce2Kinds, Reduce3Kinds
    <2>7. QED BY <2>1, <2>4, <2>5, <2>6 DEF r
  <1>2. CASE job.kind \in Reduce3Kinds
    <2> DEFINE n == OutWidth(job.out.kind)
               x == CopyView(s, job.a)
               y == CopyView(x, job.b)
               z == CopyView(y, job.c)
               w == AllocateStorage(z, n)
    <2>0. job.kind # "project_add" /\ job.kind \notin Reduce2Kinds
      BY <1>2 DEF Reduce2Kinds, Reduce3Kinds
    <2>1. r = w
      BY <1>2 DEF Staged, Reduce2Kinds, Reduce3Kinds
    <2>2. StageOK(x) /\ Placed(s, x, job.a.length)
      BY <1>0, CopyViewOK
    <2> HIDE DEF x, r
    <2>3. StageOK(y) /\ Placed(x, y, job.b.length)
      BY <1>0, <2>0, <2>2, CopyViewOK
    <2> HIDE DEF y
    <2>4. StageOK(z) /\ Placed(y, z, job.c.length)
      BY <1>0, <2>0, <2>3, CopyViewOK
    <2> HIDE DEF z
    <2>5. StageOK(w) /\ Placed(z, w, n)
      BY <1>0, <2>0, <2>4, AllocateOK
    <2> HIDE DEF w, n
    <2>6. w.status = "OK" => Len(w.at) = 4 /\ Held(w.at[4], n)
      BY <2>2, <2>3, <2>4, <2>5, FourAt
    <2>7. Given(job, w.at) = (Len(w.at) = 4 /\ Held(w.at[4], n))
      BY <1>2 DEF Given, n, Reduce2Kinds, Reduce3Kinds
    <2>8. QED BY <2>1, <2>5, <2>6, <2>7 DEF r
  <1>3. CASE job.kind = "vector_add"
    <2> DEFINE x == CopyView(s, job.a)
               y == CopyView(x, job.b)
               z == AllocateStorage(y, job.a.length)
    <2>1. r = z
      BY <1>3 DEF Staged, Reduce2Kinds, Reduce3Kinds
    <2>2. StageOK(x) /\ Placed(s, x, job.a.length)
      BY <1>0, CopyViewOK
    <2> HIDE DEF x, r
    <2>3. StageOK(y) /\ Placed(x, y, job.b.length)
      BY <1>0, <1>3, <2>2, CopyViewOK
    <2> HIDE DEF y
    <2>4. StageOK(z) /\ Placed(y, z, job.a.length)
      BY <1>0, <2>3, AllocateOK
    <2> HIDE DEF z
    <2>5. z.status = "OK" => Len(z.at) = 3 /\ Held(z.at[3], job.a.length)
      BY <2>2, <2>3, <2>4, ThreeAt
    <2>6. Given(job, z.at) = (Len(z.at) = 3 /\ Held(z.at[3], job.a.length))
      BY <1>3 DEF Given, Reduce2Kinds, Reduce3Kinds
    <2>7. QED BY <2>1, <2>4, <2>5, <2>6 DEF r
  <1>4. CASE job.kind = "project"
    <2> DEFINE x == CopyMatrix(s, job.m)
               y == CopyView(x, job.a)
               z == AllocateStorage(y, job.m.rows)
    <2>1. r = z
      BY <1>4 DEF Staged, Reduce2Kinds, Reduce3Kinds
    <2>2. StageOK(x) /\ Placed(s, x, job.m.rows * job.m.columns)
      BY <1>0, CopyMatrixOK
    <2> HIDE DEF x, r
    <2>3. StageOK(y) /\ Placed(x, y, job.a.length)
      BY <1>0, <2>2, CopyViewOK
    <2> HIDE DEF y
    <2>4. StageOK(z) /\ Placed(y, z, job.m.rows)
      BY <1>0, <2>3, AllocateOK
    <2> HIDE DEF z
    <2>5. z.status = "OK" => Len(z.at) = 3 /\ Held(z.at[3], job.m.rows)
      BY <2>2, <2>3, <2>4, ThreeAt
    <2>6. Given(job, z.at) = (Len(z.at) = 3 /\ Held(z.at[3], job.m.rows))
      BY <1>4 DEF Given, Reduce2Kinds, Reduce3Kinds
    <2>7. QED BY <2>1, <2>4, <2>5, <2>6 DEF r
  <1>5. CASE job.kind = "map3"
    <2> DEFINE n == job.m.rows * PairCells
               x == CopyView(s, job.a)
               y == CopyView(x, job.b)
               z == CopyMatrix(y, job.m)
               w == AllocateStorage(z, n)
    <2>0. n \in Nat
      BY <1>0 DEF PairCells
    <2>1. r = w
      BY <1>5 DEF Staged, Reduce2Kinds, Reduce3Kinds
    <2>2. StageOK(x) /\ Placed(s, x, job.a.length)
      BY <1>0, CopyViewOK
    <2> HIDE DEF x, r
    <2>3. StageOK(y) /\ Placed(x, y, job.b.length)
      BY <1>0, <1>5, <2>2, CopyViewOK
    <2> HIDE DEF y
    <2>4. StageOK(z) /\ Placed(y, z, job.m.rows * job.m.columns)
      BY <1>0, <2>3, CopyMatrixOK
    <2> HIDE DEF z, n
    <2>5. StageOK(w) /\ Placed(z, w, n)
      BY <2>0, <2>4, AllocateOK
    <2> HIDE DEF w
    <2>6. w.status = "OK" => Len(w.at) = 4 /\ Held(w.at[4], n)
      BY <2>2, <2>3, <2>4, <2>5, FourAt
    <2>7. Given(job, w.at) = (Len(w.at) = 4 /\ Held(w.at[4], n))
      BY <1>5 DEF Given, Reduce2Kinds, Reduce3Kinds, n
    <2>8. QED BY <2>1, <2>5, <2>6, <2>7 DEF r
  <1>6. CASE job.kind = "project_add"
    <2> DEFINE scores == Costs1(job.scores, job.m.rows)
               n == job.m.rows
               x == CopyView(s, scores)
               y == CopyMatrix(x, job.m)
               z == CopyView(y, job.a)
               w == AllocateStorage(z, n)
    <2>0. scores \in VectorViews /\ scores.length = n
      BY <1>0, <1>6 DEF Costs1, Vec
    <2>1. r = w
      BY <1>6 DEF Staged, Reduce2Kinds, Reduce3Kinds
    <2> HIDE DEF scores
    <2>2. StageOK(x) /\ Placed(s, x, n)
      BY <2>0, CopyViewOK
    <2> HIDE DEF x, r
    <2>3. StageOK(y) /\ Placed(x, y, job.m.rows * job.m.columns)
      BY <1>0, <2>2, CopyMatrixOK
    <2> HIDE DEF y
    <2>4. StageOK(z) /\ Placed(y, z, job.a.length)
      BY <1>0, <2>3, CopyViewOK
    <2> HIDE DEF z
    <2>5. StageOK(w) /\ Placed(z, w, n)
      BY <1>0, <2>4, AllocateOK
    <2> HIDE DEF w, n
    <2>6. w.status = "OK" => Len(w.at) = 4 /\ Held(w.at[1], n) /\ Held(w.at[4], n)
      BY <2>2, <2>3, <2>4, <2>5, FourAt
    <2>7. Given(job, w.at) = (Len(w.at) = 4 /\ Held(w.at[1], n) /\ Held(w.at[4], n))
      BY <1>6 DEF Given, Reduce2Kinds, Reduce3Kinds, n
    <2>8. QED BY <2>1, <2>5, <2>6, <2>7 DEF r
  <1>7. QED BY <1>0, <1>1, <1>2, <1>3, <1>4, <1>5, <1>6 DEF Kinds, ReduceKinds

(* The cells of a dense output.                                            *)
LEMMA DenseOutput ==
  ASSUME NEW cmd, NEW base \in Nat, NEW n \in Nat, NEW kind, cmd.out = Out(base, n, 1, kind)
  PROVE  OutCells(cmd) \subseteq base..base + n * OutWidth(kind) - 1
  <1> DEFINE w == OutWidth(kind)
  <1>1. /\ cmd.out.base = base /\ cmd.out.length = n /\ cmd.out.stride = 1 /\ cmd.out.kind = kind
        /\ w \in {1, 2}
    BY DEF Out, OutWidth, PairCells
  <1>2. ASSUME NEW i \in 0..n - 1, NEW x \in base + i * 1 * w..base + i * 1 * w + w - 1
        PROVE  x \in base..base + n * w - 1
    <2>1. CASE w = 1 BY <2>1
    <2>2. CASE w = 2 BY <2>2
    <2>3. QED BY <1>1, <2>1, <2>2
  <1> HIDE DEF w
  <1>3. OutCells(cmd) = UNION {base + i * 1 * w..base + i * 1 * w + w - 1 : i \in 0..n - 1}
    BY <1>1 DEF OutCells, OutAddr, w
  <1>4. QED BY <1>2, <1>3 DEF w

(* A command with its results in the staging memory spares the solver.     *)
LEMMA HeldOutput ==
  ASSUME NEW cmd, cmd \in Primitives, NEW base, NEW n \in Nat, NEW kind,
         cmd.out = Out(base, n, 1, kind),
         Held(base, n * OutWidth(kind)), guest.limit \in GuestLimits
  PROVE  cmd \in Sparing(Caller)
  <1>1. base \in Nat
    BY DEF Held
  <1>2. OutCells(cmd) \subseteq base..base + n * OutWidth(kind) - 1
    BY <1>1, DenseOutput
  <1>3. (base..base + n * OutWidth(kind) - 1) \cap Caller = {}
    BY HeldApart
  <1>4. QED BY <1>2, <1>3 DEF Sparing

(* Three staged addresses or four.                                         *)
LEMMA AtNat ==
  ASSUME NEW at \in Seq(Nat), Len(at) >= 3
  PROVE  /\ at[1] \in Nat /\ at[2] \in Nat /\ at[3] \in Nat /\ Last(at) \in Nat
         /\ Len(at) = 4 => at[4] \in Nat
  BY DEF Last

(* The staged form of a job: of its kind, and with its results held.       *)
LEMMA StagedReduction ==
  ASSUME NEW job, IsJob(job), job.kind \in ReduceKinds, NEW at \in Seq(Nat), Given(job, at),
         guest.limit \in GuestLimits
  PROVE  StagedJob(job, at) \in Sparing(Caller) /\ StagedJob(job, at).kind = job.kind
         /\ Last(at) \in Nat
  <1> DEFINE r == Reduction(job, at, Last(at))
             A == Vec(at[1], job.a.length, 1)
             B == Vec(at[2], job.b.length, 1)
             C == Vec(at[3], job.c.length, 1)
             kind == IF job.kind \in {"reduce2_argmin", "reduce3_argmin"} THEN "pair" ELSE "cost"
  <1>0. /\ job.kind # "project_add" /\ job.kind \in Kinds \ {"batch"}
        /\ job.kind \in Reduce2Kinds \/ job.kind \in Reduce3Kinds
    BY DEF ReduceKinds, Reduce2Kinds, Reduce3Kinds, Kinds
  <1>1. /\ job.out = ScalarOut(job.kind, job.out.base)
        /\ job.a.length \in Nat /\ job.b.length \in Nat
        /\ job.c.length \in Nat
    <2>1. job \in Primitives /\ job.out = ScalarOut(job.kind, job.out.base)
      BY <1>0, PrimitiveJob
    <2>2. QED BY <2>1 DEF Primitives, VectorViews
  <1>2. job.out.kind = kind
    BY <1>1 DEF ScalarOut, Out
  <1>3. Last(at) \in Nat /\ Held(Last(at), OutWidth(kind)) /\ Len(at) \in {3, 4}
    <2>1. CASE job.kind \in Reduce2Kinds
      <3>1. Len(at) = 3 /\ Held(at[3], OutWidth(job.out.kind))
        BY <2>1 DEF Given, Reduce2Kinds, Reduce3Kinds
      <3>2. QED BY <1>2, <3>1 DEF Last, Held
    <2>2. CASE job.kind \in Reduce3Kinds
      <3>1. Len(at) = 4 /\ Held(at[4], OutWidth(job.out.kind))
        BY <2>2 DEF Given, Reduce2Kinds, Reduce3Kinds
      <3>2. QED BY <1>2, <3>1 DEF Last, Held
    <2>3. QED BY <1>0, <2>1, <2>2
  <1>4. NoVec \in VectorViews /\ NoMat \in MatrixViews
    BY DEF NoVec, NoMat, Vec, Mat, VectorViews, MatrixViews
  <1>5. A \in VectorViews /\ B \in VectorViews /\ C \in VectorViews
    <2>1. at[1] \in Nat /\ at[2] \in Nat /\ at[3] \in Nat
      BY <1>3
    <2>2. QED BY <1>1, <2>1 DEF Vec, VectorViews
  <1>6. r = Primitive(job.kind, A, B, IF job.kind \in Reduce2Kinds THEN NoVec ELSE C, NoMat,
                      Out(Last(at), 1, 1, kind))
    BY DEF Reduction, Reduce2, Reduce3, Costs1, ScalarOut
  <1>7. Out(Last(at), 1, 1, kind) \in OutputViews
    BY <1>3 DEF Out, OutputViews
  <1>8. StagedJob(job, at) = r
    BY DEF StagedJob, ReduceKinds, Reduce2Kinds, Reduce3Kinds
  <1>9. 1 * OutWidth(kind) = OutWidth(kind)
    BY DEF OutWidth, PairCells
  <1> HIDE DEF A, B, C, r, kind
  <1>10. r \in Primitives /\ r.kind = job.kind /\ r.out = Out(Last(at), 1, 1, kind)
    BY <1>0, <1>4, <1>5, <1>6, <1>7 DEF Primitive, Primitives
  <1>11. r \in Sparing(Caller)
    BY <1>3, <1>9, <1>10, HeldOutput
  <1>12. QED BY <1>3, <1>8, <1>10, <1>11

(* The same of the vector commands, and of the pair of a project_add.      *)
LEMMA StagedVector ==
  ASSUME NEW job, IsJob(job), job.kind \in {"vector_add", "project", "map3"}, NEW at \in Seq(Nat),
         Given(job, at), guest.limit \in GuestLimits
  PROVE  StagedJob(job, at) \in Sparing(Caller) /\ StagedJob(job, at).kind = job.kind
         /\ Last(at) \in Nat
  <1> DEFINE r == StagedJob(job, at)
  <1>0. /\ job.kind # "project_add" /\ job.a.length \in Nat /\ job.b.length \in Nat
        /\ job.m.rows \in Nat /\ job.m.columns \in Nat
    <2>1. job.kind # "project_add" /\ job \in Primitives
      BY PrimitiveJob
    <2>2. QED BY <2>1 DEF Primitives, VectorViews, MatrixViews
  <1>1. NoVec \in VectorViews /\ NoMat \in MatrixViews
    BY DEF NoVec, NoMat, Vec, Mat, VectorViews, MatrixViews
  <1>2. ASSUME NEW base \in Nat, NEW n \in Nat, NEW kind \in {"cost", "pair"}
        PROVE  Out(base, n, 1, kind) \in OutputViews
    BY DEF Out, OutputViews
  <1>3. ASSUME NEW base \in Nat, NEW n \in Nat PROVE Costs1(base, n) \in VectorViews
    BY DEF Costs1, Vec, VectorViews
  <1>4. ASSUME NEW base \in Nat PROVE Dense(job.m, base) \in MatrixViews
    BY <1>0 DEF Dense, Mat, MatrixViews
  <1>5. CASE job.kind = "vector_add"
    <2> DEFINE n == job.a.length
    <2>1. Len(at) = 3 /\ Held(at[3], n)
      BY <1>5 DEF Given, Reduce2Kinds, Reduce3Kinds
    <2>2. at[1] \in Nat /\ at[2] \in Nat /\ at[3] \in Nat /\ Last(at) \in Nat
      <3>1. Len(at) >= 3
        BY <2>1
      <3>2. QED BY <2>1, <3>1, AtNat
    <2>3. r = Primitive("vector_add", Costs1(at[1], n), Costs1(at[2], job.b.length), NoVec, NoMat,
                        Out(at[3], n, 1, "cost"))
      BY <1>5 DEF StagedJob, VectorAdd, CostsOut, ReduceKinds, Reduce2Kinds, Reduce3Kinds
    <2>4. r \in Primitives /\ r.kind = job.kind /\ r.out = Out(at[3], n, 1, "cost")
      <3> HIDE DEF r, n
      <3>1. n \in Nat
        BY <1>0 DEF n
      <3>2. QED BY <1>0, <1>1, <1>2, <1>3, <1>5, <2>2, <2>3, <3>1 DEF Primitive, Primitives, Kinds
    <2>5. n * OutWidth("cost") = n
      BY <1>0 DEF OutWidth
    <2> HIDE DEF r
    <2>6. r \in Sparing(Caller)
      BY <1>0, <2>1, <2>4, <2>5, HeldOutput
    <2>7. QED BY <2>2, <2>4, <2>6 DEF r
  <1>6. CASE job.kind = "project"
    <2> DEFINE n == job.m.rows
    <2>1. Len(at) = 3 /\ Held(at[3], n)
      BY <1>6 DEF Given, Reduce2Kinds, Reduce3Kinds
    <2>2. at[1] \in Nat /\ at[2] \in Nat /\ at[3] \in Nat /\ Last(at) \in Nat
      <3>1. Len(at) >= 3
        BY <2>1
      <3>2. QED BY <2>1, <3>1, AtNat
    <2>3. r = Primitive("project", Costs1(at[2], job.a.length), NoVec, NoVec, Dense(job.m, at[1]),
                        Out(at[3], n, 1, "cost"))
      BY <1>6 DEF StagedJob, Project, CostsOut, ReduceKinds, Reduce2Kinds, Reduce3Kinds
    <2>4. r \in Primitives /\ r.kind = job.kind /\ r.out = Out(at[3], n, 1, "cost")
      <3> HIDE DEF r, n
      <3>1. n \in Nat
        BY <1>0 DEF n
      <3>2. QED BY <1>0, <1>1, <1>2, <1>3, <1>4, <1>6, <2>2, <2>3, <3>1
                DEF Primitive, Primitives, Kinds
    <2>5. n * OutWidth("cost") = n
      BY <1>0 DEF OutWidth
    <2> HIDE DEF r
    <2>6. r \in Sparing(Caller)
      BY <1>0, <2>1, <2>4, <2>5, HeldOutput
    <2>7. QED BY <2>2, <2>4, <2>6 DEF r
  <1>7. CASE job.kind = "map3"
    <2> DEFINE n == job.m.rows
    <2>1. Len(at) = 4 /\ Held(at[4], n * PairCells)
      BY <1>7 DEF Given, Reduce2Kinds, Reduce3Kinds
    <2>2. at[1] \in Nat /\ at[2] \in Nat /\ at[3] \in Nat /\ at[4] \in Nat /\ Last(at) \in Nat
      <3>1. Len(at) >= 3
        BY <2>1
      <3>2. QED BY <2>1, <3>1, AtNat
    <2>3. r = Primitive("map3", Costs1(at[1], job.a.length), Costs1(at[2], job.b.length), NoVec,
                        Dense(job.m, at[3]), Out(at[4], n, 1, "pair"))
      BY <1>7 DEF StagedJob, Map3Project, ReduceKinds, Reduce2Kinds, Reduce3Kinds
    <2>4. r \in Primitives /\ r.kind = job.kind /\ r.out = Out(at[4], n, 1, "pair")
      <3> HIDE DEF r, n
      <3>1. n \in Nat
        BY <1>0 DEF n
      <3>2. QED BY <1>0, <1>1, <1>2, <1>3, <1>4, <1>7, <2>2, <2>3, <3>1
                DEF Primitive, Primitives, Kinds
    <2>5. n * OutWidth("pair") = n * PairCells
      BY DEF OutWidth
    <2> HIDE DEF r
    <2>6. r \in Sparing(Caller)
      BY <1>0, <2>1, <2>4, <2>5, HeldOutput
    <2>7. QED BY <2>2, <2>4, <2>6 DEF r
  <1>8. QED BY <1>5, <1>6, <1>7

LEMMA StagedProjectAdd ==
  ASSUME NEW job, IsJob(job), job.kind = "project_add", NEW at \in Seq(Nat), Given(job, at),
         guest.limit \in GuestLimits
  PROVE  /\ StagedJob(job, at).kind = "project_add"
         /\ ProjectPart(StagedJob(job, at)) \in Sparing(Caller)
         /\ AddPart(StagedJob(job, at)) \in Sparing(Caller)
         /\ at[1] \in Nat
  <1> DEFINE r == StagedJob(job, at)
             n == job.m.rows
             d == Dense(job.m, at[2])
  <1>1. Len(at) = 4 /\ Held(at[1], n) /\ Held(at[4], n)
    BY DEF Given, Reduce2Kinds, Reduce3Kinds
  <1>2. at[1] \in Nat /\ at[2] \in Nat /\ at[3] \in Nat /\ at[4] \in Nat
    <2>1. Len(at) >= 3
      BY <1>1
    <2>2. QED BY <1>1, <2>1, AtNat
  <1>3. job.m.rows \in Nat /\ job.m.columns \in Nat /\ job.a.length \in Nat
    BY JobFields DEF MatrixViews
  <1>4. r = [kind |-> "project_add", m |-> d, a |-> Vec(at[3], job.a.length, 1),
             temporary |-> at[4], scores |-> at[1]]
    BY DEF StagedJob, ProjectAdd, Costs1, ReduceKinds, Reduce2Kinds, Reduce3Kinds
  <1>5. d \in MatrixViews /\ d.rows = n /\ Vec(at[3], job.a.length, 1) \in VectorViews
    BY <1>2, <1>3 DEF Dense, Mat, MatrixViews, Vec, VectorViews
  <1> HIDE DEF r, d
  <1>6. /\ r \in [kind : {"project_add"}, m : MatrixViews, a : VectorViews,
                  temporary : Nat, scores : Nat]
        /\ r.kind = "project_add" /\ r.temporary = at[4] /\ r.scores = at[1] /\ r.m.rows = n
    BY <1>2, <1>4, <1>5
  <1>7. /\ ProjectPart(r) \in Primitives /\ AddPart(r) \in Primitives
        /\ ProjectPart(r).out = Out(at[4], n, 1, "cost")
        /\ AddPart(r).out = Out(at[1], n, 1, "cost")
    BY <1>6, ProjectAddJob
  <1>8. n * OutWidth("cost") = n
    BY <1>3 DEF OutWidth
  <1>9. ProjectPart(r) \in Sparing(Caller) /\ AddPart(r) \in Sparing(Caller)
    BY <1>1, <1>3, <1>7, <1>8, HeldOutput
  <1>10. QED BY <1>2, <1>6, <1>9 DEF r

(* A command is added to the staging, or the call refused.                 *)
LEMMA StageAddOK ==
  ASSUME NEW s, StageOK(s), NEW cmd, cmd \in Sparing(Caller)
  PROVE  StageOK(Add(s, cmd))
  <1>1. Append(s.commands, cmd) \in Seq(Sparing(Caller))
    BY DEF StageOK
  <1>2. StageOK([s EXCEPT !.commands = Append(@, cmd)])
    BY <1>1 DEF StageOK
  <1>3. \A x : StageOK([s EXCEPT !.status = x])
    BY DEF StageOK
  <1>4. QED BY <1>2, <1>3 DEF Add

(* One job staged, with what to read back for it.                          *)
LEMMA StageJobOK ==
  ASSUME NEW s, StageOK(s), NEW job, IsJob(job), guest.limit \in GuestLimits
  PROVE  StageOK(StageJob(s, job))
  <1> DEFINE zero == [s EXCEPT !.at = <<>>]
             r == Staged(zero, job)
             item == ReadBack(job, r.at)
             q == [r EXCEPT !.back = Append(@, item)]
             new == StagedJob(job, r.at)
  <1>1. StageOK(zero) /\ zero.at = <<>>
    BY DEF StageOK
  <1>2. StageJob(s, job) = IF r.status # "OK" THEN r ELSE AddJob(q, new)
    BY DEF StageJob
  <1> HIDE DEF zero
  <1>3. StageOK(r) /\ (r.status = "OK" => Given(job, r.at))
    BY <1>1, StagedOK
  <1> HIDE DEF r
  <1>4. CASE r.status # "OK"
    BY <1>2, <1>3, <1>4
  <1>5. CASE r.status = "OK"
    <2>1. r.at \in Seq(Nat) /\ Given(job, r.at)
      BY <1>3, <1>5 DEF StageOK
    <2>2. /\ job.kind \in (Kinds \ {"batch"}) \cup {"project_add"} /\ job.m.rows \in Nat
          /\ job.kind # "project_add" => job.out \in OutputViews /\ OutWidth(job.out.kind) \in Nat
          /\ job.kind = "project_add" => job.scores \in Nat
      BY JobFields
    <2>3. ASSUME item \in Items PROVE StageOK(q)
      <3>1. Append(r.back, item) \in Seq(Items)
        BY <1>3, <2>3 DEF StageOK
      <3> HIDE DEF item
      <3>2. QED BY <1>3, <3>1 DEF StageOK
    <2>4. CASE job.kind = "project_add"
      <3>1. /\ new.kind = "project_add" /\ ProjectPart(new) \in Sparing(Caller)
            /\ AddPart(new) \in Sparing(Caller) /\ r.at[1] \in Nat
        BY <2>1, <2>4, StagedProjectAdd
      <3>2. item \in Items
        BY <2>2, <2>4, <3>1 DEF ReadBack, Items
      <3> HIDE DEF new, q, item
      <3>3. StageOK(Add(q, ProjectPart(new)))
        BY <2>3, <3>1, <3>2, StageAddOK
      <3>4. StageOK(Add(Add(q, ProjectPart(new)), AddPart(new)))
        BY <3>1, <3>3, StageAddOK
      <3>5. QED BY <1>2, <1>5, <3>1, <3>4 DEF AddJob
    <2>5. CASE job.kind # "project_add"
      <3>1. job.kind \in ReduceKinds \/ job.kind \in {"vector_add", "project", "map3"}
        BY <2>2, <2>5 DEF Kinds
      <3>2. new \in Sparing(Caller) /\ new.kind = job.kind /\ Last(r.at) \in Nat
        BY <2>1, <3>1, StagedReduction, StagedVector
      <3>3. item \in Items
        <4>1. job.out.base \in Nat /\ job.out.length \in Nat
          BY <2>2, <2>5 DEF OutputViews
        <4>2. job.out.length * OutWidth(job.out.kind) \in Nat
          BY <2>2, <2>5, <4>1, ProductMonotone
        <4>3. QED BY <2>5, <3>2, <4>1, <4>2 DEF ReadBack, Items
      <3> HIDE DEF new, q, item
      <3>4. StageOK(Add(q, new))
        BY <2>3, <3>2, <3>3, StageAddOK
      <3>5. QED BY <1>2, <1>5, <2>5, <3>2, <3>4 DEF AddJob
    <2>6. QED BY <2>4, <2>5
  <1>6. QED BY <1>4, <1>5

(* All the jobs of a call staged.                                          *)
LEMMA StagedJobsOK ==
  ASSUME NEW call, IsCall(call), DOMAIN mem = Ram, guest.limit \in GuestLimits
  PROVE  StageOK(StagedJobs(call.jobs))
  <1> DEFINE n == Len(call.jobs)
  <1>0. n \in Nat /\ \A i \in 1..n : IsJob(call.jobs[i])
    BY DEF IsCall
  <1>1. PICK f : StagedJobs(call.jobs) = f[n] /\ Loop("stage", BeginStaging, call.jobs, f, n)
    BY <1>0, StagedLoop
  <1> DEFINE Good == {i \in 0..n : StageOK(f[i])}
  <1>2. 0 \in Good
    <2>1. f[0] = BeginStaging
      BY <1>1 DEF Loop
    <2>2. /\ <<>> \in Seq(Nat) /\ <<>> \in Seq(Sparing(Caller))
          /\ <<>> \in Seq(Items) /\ DOMAIN <<>> = {}
      OBVIOUS
    <2>3. GuestFirst \in Nat /\ Kept(mem, Caller)
      BY OffloadAssumption DEF Kept
    <2>4. StageOK(BeginStaging)
      BY <2>2, <2>3 DEF StageOK, BeginStaging
    <2>5. QED BY <1>0, <2>1, <2>4
  <1>3. ASSUME NEW k \in 1..n, k - 1 \in Good PROVE k \in Good
    <2>1. StageOK(f[k - 1]) /\ k \in 0..n
      BY <1>0, <1>3
    <2>2. f[k] = StageJob(f[k - 1], call.jobs[k])
      BY <1>1 DEF Loop, Turn
    <2>3. StageOK(f[k])
      BY <1>0, <2>1, <2>2, StageJobOK
    <2>4. QED BY <2>1, <2>3
  <1>4. n \in Good
    <2> HIDE DEF Good, n
    <2> QED BY <1>0, <1>2, <1>3, EveryTurn
  <1>5. QED BY <1>1, <1>4

(* What the last steps of a hosted call start from: the device takes its   *)
(* own storage and touches nothing else of the staging.                    *)
ReadyOK(s) ==
    /\ DOMAIN s = {"mem", "next", "cache", "at", "commands", "back", "status"}
    /\ Kept(s.mem, Caller) /\ s.commands \in Seq(Sparing(Caller)) /\ s.back \in Seq(Items)

(* Whatever the size of the stream.                                        *)
LEMMA AllocateReady ==
  ASSUME NEW s, ReadyOK(s), NEW cells
  PROVE  ReadyOK(AllocateStorage(s, cells))
  <1> DEFINE start == ((s.next + 1) \div 2) * 2
  <1>1. AllocateStorage(s, cells) \in {s, [s EXCEPT !.status = "NO_SPACE"],
                                       [s EXCEPT !.at = Append(@, start), !.next = start + cells]}
    BY DEF AllocateStorage
  <1> HIDE DEF start
  <1>2. ReadyOK([s EXCEPT !.status = "NO_SPACE"])
    BY DEF ReadyOK
  <1>3. ReadyOK([s EXCEPT !.at = Append(@, start), !.next = start + cells])
    BY DEF ReadyOK
  <1>4. QED BY <1>1, <1>2, <1>3

(* A hosted call: staged, run, and read back only if all went well.        *)
LEMMA HostedContained ==
  ASSUME NEW call \in Calls, DOMAIN mem = Ram, guest.limit \in GuestLimits,
         DOMAIN guest = {"limit", "next", "cache"}, HostedCall(call), kernel' = kernel
  PROVE  /\ DOMAIN mem' = Ram /\ FailureContained'
         /\ guest'.limit = guest.limit /\ DOMAIN guest' = DOMAIN guest
  <1> DEFINE staged == StagedJobs(call.jobs)
             s == DeviceStorage(staged)
             done == Run(s.commands, s.mem)
             r == Finish(s)
             back == CopiedBack(done.mem, s.back)
  <1>1. ReadyOK(s)
    <2>1. IsCall(call)
      BY CallsAre
    <2>2. StageOK(staged)
      BY <2>1, StagedJobsOK
    <2>3. ReadyOK(staged)
      BY <2>2 DEF StageOK, ReadyOK
    <2> HIDE DEF staged
    <2> DEFINE stream == FoldLeft(LAMBDA cells, cmd : cells + EncodedSize(cmd), 0, staged.commands)
               one == AllocateStorage(staged, stream)
               two == AllocateStorage(one, PairCells)
    <2>4. s = AllocateStorage(two, 2 * SlotCells)
      BY DEF DeviceStorage
    <2> HIDE DEF s, stream
    <2>5. ReadyOK(one)
      BY <2>3, AllocateReady
    <2> HIDE DEF one
    <2>6. ReadyOK(two)
      BY <2>5, AllocateReady
    <2> HIDE DEF two
    <2>7. QED BY <2>4, <2>6, AllocateReady
  <1>2. /\ mem' = r.mem /\ guest' = [guest EXCEPT !.next = r.next, !.cache = r.cache]
        /\ last' = [op |-> call.op, jobs |-> call.jobs, before |-> mem, status |-> r.status]
        /\ kernel' = "hosted"
    BY DEF HostedCall
  <1>3. r = IF s.status # "OK" THEN s
            ELSE [s EXCEPT !.mem = IF done.ok THEN back ELSE done.mem, !.status = Ended(done)]
    BY DEF Finish
  <1> HIDE DEF staged, s
  <1>4. Kept(done.mem, Caller)
    <2>1. Caller \subseteq Ram
      BY OffloadAssumption
    <2>2. QED BY <1>1, <2>1, RunKeeps DEF ReadyOK
  <1> HIDE DEF done
  <1>5. DOMAIN back = Ram
    <2>1. Len(s.back) \in Nat
      BY <1>1 DEF ReadyOK
    <2>2. QED BY <1>4, <2>1, BackKeeps DEF Kept
  <1> HIDE DEF back, r
  <1>6. DOMAIN r.mem = Ram /\ (r.status # "OK" => \A x \in Caller : r.mem[x] = mem[x])
    <2>1. CASE s.status # "OK"
      BY <1>1, <1>3, <2>1 DEF ReadyOK, Kept
    <2>2. CASE s.status = "OK" /\ done.ok
      <3>1. r.mem = back /\ r.status = "OK"
        BY <1>1, <1>3, <2>2 DEF ReadyOK, Ended
      <3>2. QED BY <1>5, <3>1
    <2>3. CASE s.status = "OK" /\ ~done.ok
      <3>1. r.mem = done.mem
        BY <1>1, <1>3, <2>3 DEF ReadyOK
      <3>2. QED BY <1>4, <3>1 DEF Kept
    <2>4. QED BY <2>1, <2>2, <2>3
  <1>7. last'.before = mem /\ last'.status = r.status
    BY <1>2
  <1>8. FailureContained'
    BY <1>2, <1>6, <1>7 DEF FailureContained
  <1>9. guest'.limit = guest.limit /\ DOMAIN guest' = DOMAIN guest
    BY <1>2
  <1>10. QED BY <1>2, <1>6, <1>8, <1>9

-----------------------------------------------------------------------------
(* What a step keeps: the shape of memory, of the packed keys and of the   *)
(* staging memory, and what is claimed of the last call.                   *)
OffloadInv == /\ ContextOK /\ FailureContained /\ kernel \in Kernels
              /\ guest.limit \in GuestLimits /\ DOMAIN guest = {"limit", "next", "cache"}

(* It holds at the start,                                                  *)
LEMMA OffloadStarts == Init => OffloadInv
  <1> SUFFICES ASSUME Init PROVE OffloadInv
    OBVIOUS
  <1>1. ContextOK
    <2>1. mem \in [Ram -> Int] /\ packed = <<>> /\ MaxPackedViews \in Nat
      BY OffloadAssumption DEF Init
    <2>2. <<>> \in Seq(VectorViews) /\ Len(<<>>) = 0
      OBVIOUS
    <2>3. QED BY <2>1, <2>2 DEF ContextOK
  <1>2. FailureContained
    BY DEF Init, NoCall, FailureContained
  <1>3. guest.limit \in GuestLimits /\ DOMAIN guest = {"limit", "next", "cache"}
    BY DEF Init
  <1>4. QED BY <1>1, <1>2, <1>3 DEF OffloadInv, Init

(* and every call and every write of the solver keeps it.                  *)
LEMMA OffloadSteps == OffloadInv /\ [Next]_vars => OffloadInv'
  <1> SUFFICES ASSUME OffloadInv, [Next]_vars PROVE OffloadInv'
    OBVIOUS
  <1>1. CASE KernelCall
    <2>1. PICK call \in Calls : BareMetalCall(call) \/ HostedCall(call)
      BY <1>1 DEF KernelCall
    <2>2. kernel' = kernel
      BY <1>1 DEF KernelCall
    <2>3. CASE BareMetalCall(call)
      <3>1. ContextOK' /\ FailureContained'
        BY <2>2, <2>3, BareMetalContained DEF OffloadInv
      <3>2. guest' = guest
        BY <2>3 DEF BareMetalCall
      <3>3. QED BY <2>2, <3>1, <3>2 DEF OffloadInv
    <2>4. CASE HostedCall(call)
      <3>1. /\ DOMAIN mem' = Ram /\ FailureContained'
            /\ guest'.limit = guest.limit /\ DOMAIN guest' = DOMAIN guest
        BY <2>2, <2>4, HostedContained DEF OffloadInv, ContextOK
      <3>2. packed' = packed
        BY <2>4 DEF HostedCall
      <3>3. QED BY <2>2, <3>1, <3>2 DEF OffloadInv, ContextOK
    <2>5. QED BY <2>1, <2>3, <2>4
  <1>2. CASE CallerWrites
    <2>1. /\ DOMAIN mem' = DOMAIN mem /\ packed' = packed /\ guest' = guest /\ last' = NoCall
          /\ kernel' = kernel
      BY <1>2 DEF CallerWrites
    <2>2. FailureContained'
      BY <2>1 DEF FailureContained, NoCall
    <2>3. QED BY <2>1, <2>2 DEF OffloadInv, ContextOK
  <1>3. CASE UNCHANGED vars
    BY <1>3 DEF vars, OffloadInv, ContextOK, FailureContained
  <1>4. QED BY <1>1, <1>2, <1>3 DEF Next

(* The kernels of pbqp_accelerator.c and pbqp_model_kernel.cpp: a call     *)
(* refused for want of jobs, packed views or staging memory, and any       *)
(* failed call of the hosted adapter, leaves the solver's arrays as they   *)
(* were; after a device error the bare-metal adapter has touched at most   *)
(* the outputs of the call's jobs.                                         *)
THEOREM FailuresContained == Spec => []FailureContained
  <1>1. OffloadInv => FailureContained
    BY DEF OffloadInv
  <1>2. QED BY OffloadStarts, OffloadSteps, <1>1, PTL DEF Spec
=============================================================================
