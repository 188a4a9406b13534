----------------------------- MODULE PbqpBranch -----------------------------
(***************************************************************************)
(* The strategy EXACT_BRANCH_REDUCE: SolveBranchAndReduce calls itself for *)
(* every value of a node it branches on, on a copy of the problem that it  *)
(* takes from the workspace arena.  frames is the call stack.  What the    *)
(* arena does is PbqpStorage's Place and Fits; that the word before a      *)
(* block still holds what was stored there is WordsIntact of PbqpArena.    *)
(*                                                                         *)
(* A frame's statistics are those of its problem; base and aggregate are   *)
(* the shallow copies the call makes, so their histogram is the one of the *)
(* problem: only the scalar counters of the three differ.                  *)
(***************************************************************************)
EXTENDS PbqpReductions, PbqpStorage

CONSTANTS Inputs,       \* the problems to solve, as built
          Configs,      \* [policy, limit, vector]
          Starts,       \* what the caller has in the arena before the call
          JobBytes, ResultBytes, \* sizes of a kernel job and of a result
          FaultBudget   \* bound: failing kernel calls

(* What the building calls make of zeroed storage, where nothing has been  *)
(* counted yet.                                                            *)
AsBuilt(p) ==
    /\ DOMAIN p = DOMAIN EmptyProblem
    /\ p.statistics = NoStatistics
    /\ DOMAIN p.nodes = NodeIds
    /\ \A n \in NodeIds : DOMAIN p.nodes[n] = DOMAIN NoNode /\ p.nodes[n].domain \in Nat
    /\ DOMAIN p.edges = Slots
    /\ \A e \in Slots : /\ DOMAIN p.edges[e] = DOMAIN NoEdge
                        /\ {p.edges[e].first, p.edges[e].second} \subseteq NodeIds

ASSUME InputsAssumption == \A p \in Inputs : AsBuilt(p)

VARIABLES frames, phase, config,
          workspace,    \* used of the workspace arena
          search, reply, budget,
          input, least, start,  \* history: the problem, its optimum, workspace at the start
          work,         \* history: the reductions and primitives of all frames
          target        \* the frame whose statistics the kernel counts in

vars == <<frames, phase, config, workspace, search, reply, budget, input, least, start, work,
          target>>

NoSearch == [visited |-> 0, branches |-> 0, limitHits |-> 0, pruned |-> 0]
NoBlock == [offset |-> 0, size |-> 0, prev |-> 0]
NoBest == [has |-> FALSE, optimum |-> Inf, assignment |-> [n \in NodeIds |-> 0]]

Frame(p, known) ==
    [problem |-> p, known |-> known, node |-> -1, value |-> 0, best |-> NoBest,
     base |-> p.statistics, aggregate |-> p.statistics, blocks |-> <<>>]

Init == /\ input \in Inputs
        /\ config \in Configs
        /\ start \in Starts
        /\ frames = <<Frame(input, Inf)>>
        /\ phase = "solve"
        /\ workspace = start
        /\ search = NoSearch
        /\ reply = [status |-> "none", best |-> NoBest, statistics |-> NoStatistics]
        /\ budget = FaultBudget
        /\ least = Bruteforce(input)
        /\ work = NoStatistics
        /\ target = 1

top == Len(frames)
frame == frames[top]
state == frame.problem

-----------------------------------------------------------------------------
(* The workspace.                                                          *)

Take(u, size) == [offset |-> Place(u).offset, size |-> size, prev |-> u]

Ends(b) == b.offset + b.size

(* ArenaDeallocate.                                                        *)
Release(u, b) == IF Ends(b) = u THEN b.prev ELSE u

(* Mutant: what was allocated first is released first.                     *)
ReleaseInOrder(u, blocks) ==
    LET released[i \in 0 .. Len(blocks)] ==
            IF i = 0 THEN u ELSE Release(released[i - 1], blocks[i])
    IN  released[Len(blocks)]

(* The destructors at the end of a scope, the last object first.           *)
ReleaseAll(u, blocks) ==
    LET released[i \in 0 .. Len(blocks)] ==
            IF i = 0 THEN u ELSE Release(released[i - 1], blocks[Len(blocks) + 1 - i])
    IN  released[Len(blocks)]

AssignmentBytes == IntBytes * input.node_count
CloneBytes == ProblemStorageSize(NodeCapacity, EdgeCapacity, DomainCapacity)

(* The jobs and the results of a reduction: two arrays, gone at its end.   *)
JobsFit(p, node) ==
    LET domains == {<<e, p.nodes[OtherNode(p.edges[e], node)].domain>> : e \in EdgesOf(p, node)}
        first   == CHOOSE d \in domains : \A c \in domains : d[1] <= c[1]
        second  == CHOOSE d \in domains : \A c \in domains : d[1] >= c[1]
        results == IF Cardinality(domains) = 1 THEN first[2] ELSE first[2] * second[2]
        jobs    == IF config.vector THEN first[2] ELSE results
    IN  domains # {} =>
            /\ Fits(workspace, jobs * JobBytes)
            /\ Fits(Ends(Take(workspace, jobs * JobBytes)), results * ResultBytes)

-----------------------------------------------------------------------------
(* Returning from a call.                                                  *)

(* RecordSearchStatistics.                                                 *)
Reported(statistics, s) ==
    [statistics EXCEPT !.visited = s.visited, !.branches = s.branches,
                       !.limitHits = s.limitHits, !.pruned = s.pruned]

(* The frame's objects are destroyed and its caller goes on.  The frame of *)
(* the root stays: its problem is the caller's.                            *)
Return(status, best, p) ==
    /\ reply' = [status |-> status, best |-> best, statistics |-> p.statistics]
    /\ workspace' = ReleaseAll(workspace, frame.blocks)
    /\ IF top = 1 THEN phase' = "returned" /\ frames' = <<[frame EXCEPT !.problem = p]>>
       ELSE phase' = "resume" /\ frames' = SubSeq(frames, 1, top - 1)

ReturnReported(status, best, s) ==
    /\ search' = s
    /\ Return(status, best, [state EXCEPT !.statistics = Reported(@, s)])

HitLimit == ReturnReported("SEARCH_LIMIT", NoBest,
                                 [search EXCEPT !.limitHits = @ + 1])

Solution(p) == [has |-> TRUE, optimum |-> p.objective_offset,
                assignment |-> ReconstructSolution(p, NoBest.assignment)]

-----------------------------------------------------------------------------
(* Solver::Solve up to the call, and the call itself.                      *)

(* One reduction, of the loop in Solve or of the same loop in the call.    *)
Reduce(fault) ==
    /\ phase \in {"solve", "reduce"}
    /\ \E node \in Reducible(state) :
      \E failure \in {IF ~JobsFit(state, node) THEN "alloc" ELSE fault} :
      \E done \in {ReduceNode(state, node, config.vector, failure)} :
        /\ \A other \in Reducible(state) : node <= other
        /\ fault # "none" => failure = fault /\ NeighborCount(state, node) > 0 /\ budget > 0
        /\ budget' = IF fault = "none" THEN budget ELSE budget - 1
        /\ work' = [c \in DOMAIN work |->
                       work[c] + done.problem.statistics[c] - state.statistics[c]]
        /\ IF done.status = "OK"
           THEN frames' = [frames EXCEPT ![top].problem = done.problem]
                /\ UNCHANGED <<phase, workspace, reply>>
           ELSE Return(done.status, NoBest, done.problem)
    /\ UNCHANGED <<config, search, input, least, start, target>>

Solved ==
    /\ phase = "solve"
    /\ ActiveNodes(state) = {}
    /\ Return("OK", Solution(state), state)
    /\ UNCHANGED <<config, search, budget, input, least, start, work, target>>

CallRoot ==
    /\ phase = "solve"
    /\ Reducible(state) = {} /\ ActiveNodes(state) # {}
    /\ phase' = "enter"
    /\ UNCHANGED <<frames, config, workspace, search, reply, budget, input, least, start, work,
                   target>>

(* The limit on the visited nodes counts as a hit, like a workspace that   *)
(* is full.                                                                *)
Enter ==
    /\ phase = "enter"
    /\ target' = top
    /\ IF config.limit # 0 /\ search.visited >= config.limit
       THEN HitLimit
       ELSE /\ search' = [search EXCEPT !.visited = @ + 1]
            /\ phase' = "reduce"
            /\ UNCHANGED <<frames, workspace, reply>>
    /\ UNCHANGED <<config, budget, input, least, start, work>>

Irreducible == phase = "reduce" /\ Reducible(state) = {}

(* What the call can reach at best does not beat what is known already.    *)
Hopeless(f) ==
    /\ f.known # Inf
    /\ CostAdd(f.problem.objective_offset, RemainingCoreLowerBound(f.problem)) >= f.known

Prune ==
    /\ Irreducible
    /\ Hopeless(frame)
    /\ ReturnReported("PRUNED", NoBest, [search EXCEPT !.pruned = @ + 1])
    /\ UNCHANGED <<config, budget, input, least, start, work, target>>

Leaf ==
    /\ Irreducible
    /\ ~Hopeless(frame)
    /\ ActiveNodes(state) = {}
    /\ ReturnReported("OK", Solution(state), search)
    /\ UNCHANGED <<config, budget, input, least, start, work, target>>

(* Branching: SelectRnNode chooses the node, and the array for the best    *)
(* assignment is allocated.                                                *)
Branch ==
    /\ Irreducible
    /\ ~Hopeless(frame)
    /\ ActiveNodes(state) # {}
    /\ IF ~Fits(workspace, AssignmentBytes) THEN HitLimit
       ELSE \E block \in {Take(workspace, AssignmentBytes)} :
            /\ frames' = [frames EXCEPT ![top] =
                   [frame EXCEPT !.node = SelectRnNode(state, config.policy),
                                 !.blocks = <<block>>,
                                 !.base = state.statistics, !.aggregate = state.statistics]]
            /\ workspace' = Ends(block)
            /\ phase' = "values"
            /\ UNCHANGED <<search, reply>>
    /\ UNCHANGED <<config, budget, input, least, start, work, target>>

(* Mutant: the child starts with the counts of its siblings as well.       *)
ChildCountingSiblings(f) ==
    [f.problem EXCEPT !.statistics = [f.aggregate EXCEPT
                                          !.histogram = f.problem.statistics.histogram]]

(* The child is a copy of the problem with the statistics of base, whose   *)
(* histogram is the problem's.                                             *)
Child(f) ==
    [f.problem EXCEPT !.statistics = [f.base EXCEPT
                                          !.histogram = f.problem.statistics.histogram]]

(* One value of the branch: copy, condition, the array for the solution,   *)
(* call.  Both incumbents bound the child.                                 *)
TryValue ==
    LET values == state.nodes[frame.node].domain
        clone  == Take(workspace, CloneBytes)
        candidate == Take(Ends(clone), AssignmentBytes)
        sibling == IF frame.best.has THEN frame.best.optimum ELSE Inf
        known  == IF frame.known < sibling THEN frame.known ELSE sibling
    IN  /\ phase = "values"
        /\ frame.value < values
        /\ IF ~Fits(workspace, CloneBytes) THEN HitLimit /\ UNCHANGED work
           ELSE \E done \in {ConditionNode(Child(frame), frame.node, frame.value, "Branch")} :
                IF done.status # "OK"
                THEN Return(done.status, NoBest, state) /\ UNCHANGED <<search, work>>
                ELSE IF ~Fits(Ends(clone), AssignmentBytes) THEN HitLimit /\ UNCHANGED work
                ELSE /\ frames' = Append([frames EXCEPT ![top].blocks = @ \o <<clone, candidate>>],
                                         Frame(done.problem, known))
                     /\ workspace' = Ends(candidate)
                     /\ search' = [search EXCEPT !.branches = @ + 1]
                     /\ work' = [work EXCEPT !.conditions = @ + 1]
                     /\ phase' = "enter"
                     /\ UNCHANGED reply
        /\ UNCHANGED <<config, budget, input, least, start, target>>

(* AddBranchStatistics on the scalar counters; the histogram of total is   *)
(* that of base.                                                           *)
AddBranchStatistics(total, base, branch) ==
    [c \in DOMAIN total |-> IF c \in {"r0", "r1", "r2", "conditions"}
                            THEN total[c] + branch[c] - base[c] ELSE total[c]]

(* The child has returned: a failure is passed on, else its counts are     *)
(* added and a better solution is kept.                                    *)
Resume ==
    /\ phase = "resume"
    /\ IF reply.status \notin {"OK", "PRUNED"}
       THEN ReturnReported(reply.status, NoBest, search)
       ELSE /\ frames' = [frames EXCEPT ![top] =
                [frame EXCEPT
                    !.value = @ + 1,
                    !.blocks = SubSeq(@, 1, 1),
                    !.aggregate = AddBranchStatistics(@, frame.base, reply.statistics),
                    !.problem.statistics.histogram = @ + (reply.statistics.histogram - @),
                    !.best = IF /\ reply.status = "OK"
                                /\ ~@.has \/ reply.best.optimum < @.optimum
                             THEN reply.best ELSE @]]
            /\ workspace' = ReleaseAll(workspace, SubSeq(frame.blocks, 2, 3))
            /\ phase' = "values"
            /\ UNCHANGED <<search, reply>>
    /\ UNCHANGED <<config, budget, input, least, start, work, target>>

(* Mutant: a branch all of whose values were pruned is forgotten.          *)
ConcludeWithBest ==
    /\ phase = "values"
    /\ frame.value = state.nodes[frame.node].domain
    /\ frame.best.has
    /\ Return("OK", frame.best,
              [state EXCEPT !.statistics =
                  Reported([frame.aggregate EXCEPT !.histogram = state.statistics.histogram], search)])
    /\ UNCHANGED <<config, search, budget, input, least, start, work, target>>

(* All values are tried.  Without a solution every one was pruned.         *)
Conclude ==
    /\ phase = "values"
    /\ frame.value = state.nodes[frame.node].domain
    /\ Return(IF frame.best.has THEN "OK" ELSE "PRUNED", frame.best,
              [state EXCEPT !.statistics =
                  Reported([frame.aggregate EXCEPT !.histogram = state.statistics.histogram], search)])
    /\ UNCHANGED <<config, search, budget, input, least, start, work, target>>

Next == \/ \E fault \in {"none", "kernel"} : Reduce(fault)
        \/ Solved
        \/ CallRoot
        \/ Enter
        \/ Prune
        \/ Leaf
        \/ Branch
        \/ TryValue
        \/ Resume
        \/ Conclude

Spec == Init /\ [][Next]_vars
FairSpec == Spec /\ WF_vars(Next)

-----------------------------------------------------------------------------
(* The strategy is exact: what it returns is the least cost of the         *)
(* problem, with an assignment of that cost, although most of the tree is  *)
(* pruned; and PBQP_PRUNED, a result between calls, never reaches the      *)
(* caller of the solver.                                                   *)
BranchExact ==
    phase = "returned" =>
        /\ reply.status # "PRUNED"
        /\ reply.status = "OK" =>
              reply.best.optimum = least /\ Evaluate(input, reply.best.assignment) = least

(* A successful solve reports the work of the whole tree: every reduction  *)
(* of every copy once, the primitives of all of them in the histogram that *)
(* the copies share in turn.  The kernel never counts in the statistics of *)
(* a copy that is gone.                                                    *)
StatisticsComplete ==
    /\ phase \in {"solve", "reduce"} => target = top
    /\ phase = "returned" /\ reply.status = "OK" =>
           \A c \in {"r0", "r1", "r2", "conditions", "histogram"} :
               frames[1].problem.statistics[c] = work[c]

(* However the solve ends, the workspace is as the caller gave it.         *)
WorkspaceReturned == phase = "returned" => workspace = start

(* The solve returns.                                                      *)
SolveReturns == <>(phase = "returned")
=============================================================================
