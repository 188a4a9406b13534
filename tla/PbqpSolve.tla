----------------------------- MODULE PbqpSolve ------------------------------
(***************************************************************************)
(* Building a PBQP problem and solving it with Solver::Solve, under the    *)
(* strategies REDUCE_ONLY, HEURISTIC_RN, EXACT_CORE_ENUMERATION,           *)
(* LOCAL_SEARCH and HEURISTIC_RN_LOCAL_SEARCH, for short RN_LOCAL.  (The   *)
(* strategy EXACT_BRANCH_REDUCE is PbqpBranch.)                            *)
(*                                                                         *)
(* The problem belongs to the caller and is changed in place, so a solve   *)
(* that failed leaves it partly reduced; the caller may solve it again,    *)
(* with another strategy too.  Allocations and the cost kernel fail where  *)
(* a fault budget lets them.                                               *)
(***************************************************************************)
EXTENDS PbqpDescent

CONSTANTS Scripts,      \* the sequences of building calls a caller may make
          Limits,       \* values of maximum_search_nodes, 0 for no limit
          MaxSolves,    \* bound: calls of pbqp_solver_solve per problem
          FaultBudget   \* bound: failing allocations and kernel calls

Strategies == {"REDUCE_ONLY", "HEURISTIC_RN", "EXACT_CORE_ENUMERATION", "LOCAL_SEARCH",
               "RN_LOCAL"}

VARIABLES calls,         \* the building calls still to be made
          problem,       \* the caller's problem
          config,        \* the configuration of the solve
          mode,          \* where the solve is
          status,        \* what the last call returned
          kernelStatus,  \* last_kernel_status of the solver
          solution,      \* the caller's solution
          search,        \* the call of EnumerateActiveCore that runs next
          local,         \* the local search that runs
          solves, budget,
          original,      \* history: the problem as built
          best,          \* history: its least cost
          approximate    \* history: an RN step has been committed

vars == <<calls, problem, config, mode, status, kernelStatus, solution,
          search, local, solves, budget, original, best, approximate>>

NoConfig == [strategy |-> "REDUCE_ONLY", policy |-> "MIN_DEGREE", vector |-> FALSE,
             limit |-> 0]
NoSearch == [depth |-> 0, assignment |-> <<>>, has |-> FALSE]

(* The problem a local search works on, its descent, where that started,   *)
(* the best solution so far; rn is the optimum of the RN solve before it.  *)
NoLocal == [problem |-> EmptyProblem, descent |-> Descent(<<>>), start |-> <<0, 0>>,
            best |-> [optimum |-> Inf, assignment |-> <<>>], has |-> FALSE, rn |-> Inf]
NoSolution == [optimum |-> Inf, assignment |-> [n \in NodeIds |-> 0]]

Init == /\ calls \in Scripts
        /\ problem = EmptyProblem
        /\ config = NoConfig
        /\ mode = "building"
        /\ status = "OK"
        /\ kernelStatus = 0
        /\ solution = NoSolution
        /\ search = NoSearch
        /\ local = NoLocal
        /\ solves = 0
        /\ budget = FaultBudget
        /\ original = EmptyProblem
        /\ best = 0
        /\ approximate = FALSE

-----------------------------------------------------------------------------
Fault(fault) == IF fault = "none" THEN UNCHANGED budget
                ELSE budget > 0 /\ budget' = budget - 1

Return(s) == mode' = "returned" /\ status' = s

(* The caller.                                                             *)

BuildCall ==
    LET call == Head(calls)
        done == IF call.op = "node" THEN AddNode(problem, call.domain, call.unary)
                ELSE AddEdge(problem, call.first, call.second, call.costs)
    IN  /\ mode = "building"
        /\ calls # <<>>
        /\ problem' = done.problem
        /\ status' = done.status
        /\ calls' = Tail(calls)
        /\ UNCHANGED <<config, mode, kernelStatus, solution, search, local, solves,
                       budget, original, best, approximate>>

LocalStrategies == {"LOCAL_SEARCH", "RN_LOCAL"}

(* Who may call what: a local search is given a problem no node of which   *)
(* is eliminated yet, since it ignores the offset; a limit is never below  *)
(* the nodes already visited, since the enumeration tests for equality.    *)
Callable(c) ==
    /\ \/ mode = "building" /\ calls = <<>>
       \/ mode = "returned"
    /\ solves < MaxSolves
    /\ c.limit = 0 \/ problem.statistics.visited <= c.limit
    /\ c.strategy \in LocalStrategies => problem.elimination_order = <<>>

(* pbqp_solver_solve with a usable solution: it clears last_kernel_status. *)
(* A local search first takes its arrays, or the copy of the problem, from *)
(* the workspace.                                                          *)
SolveCall(c, fault) ==
    /\ Callable(c)
    /\ fault = "alloc" => c.strategy \in LocalStrategies
    /\ Fault(fault)
    /\ original' = IF mode = "building" THEN problem ELSE original
    /\ best' = IF mode = "building" THEN Bruteforce(problem) ELSE best
    /\ config' = c
    /\ kernelStatus' = 0
    /\ solves' = solves + 1
    /\ IF fault = "alloc"
       THEN Return("CAPACITY_ERROR") /\ UNCHANGED local
       ELSE /\ mode' = IF c.strategy = "LOCAL_SEARCH" THEN "starting" ELSE "reducing"
            /\ local' = IF c.strategy \in LocalStrategies
                        THEN [NoLocal EXCEPT !.problem = problem,
                                             !.descent = Descent(NoSolution.assignment)]
                        ELSE NoLocal
            /\ UNCHANGED status
    /\ UNCHANGED <<calls, problem, solution, search, approximate>>

(* A solution with room for fewer nodes than the problem has is refused.   *)
SolveRefused ==
    /\ mode = "returned"
    /\ solves < MaxSolves
    /\ solves' = solves + 1
    /\ kernelStatus' = 0
    /\ status' = "ARGUMENT_ERROR"
    /\ UNCHANGED <<calls, problem, config, mode, solution, search, local, budget,
                   original, best, approximate>>

-----------------------------------------------------------------------------
(* The reduction loop.                                                     *)

(* Record of the cost kernel: the nonzero status is kept for the caller.   *)
Record(s) == kernelStatus' = IF s = "KERNEL_ERROR" THEN -1 ELSE kernelStatus

(* FindReducibleNode takes the first node of degree two or less.           *)
Reduce(fault) ==
    /\ mode = "reducing"
    /\ \E node \in Reducible(problem) :
      \E done \in {ReduceNode(problem, node, config.vector, fault)} :
        /\ \A other \in Reducible(problem) : node <= other
        /\ fault # "none" => NeighborCount(problem, node) > 0
        /\ Fault(fault)
        /\ problem' = done.problem
        /\ Record(done.status)
        /\ IF done.status = "OK" THEN UNCHANGED <<mode, status>> ELSE Return(done.status)
        /\ UNCHANGED <<calls, config, solution, search, local, solves, original, best,
                       approximate>>

Finish ==
    /\ mode = "reducing"
    /\ ActiveNodes(problem) = {}
    /\ config.strategy # "RN_LOCAL"
    /\ solution' = [optimum |-> problem.objective_offset,
                    assignment |-> ReconstructSolution(problem, solution.assignment)]
    /\ Return("OK")
    /\ UNCHANGED <<calls, problem, config, kernelStatus, search, local, solves, budget, original,
                   best, approximate>>

Irreducible == mode = "reducing" /\ Reducible(problem) = {} /\ ActiveNodes(problem) # {}

GiveUp ==
    /\ Irreducible
    /\ config.strategy = "REDUCE_ONLY"
    /\ Return("IRREDUCIBLE")
    /\ UNCHANGED <<calls, problem, config, kernelStatus, solution, search, local, solves,
                   budget, original, best, approximate>>

ApplyRN(fault) ==
    /\ Irreducible
    /\ config.strategy \in {"HEURISTIC_RN", "RN_LOCAL"}
    /\ \E node \in ActiveNodes(problem) :
      \E done \in {ReduceRN(problem, node, config.vector, fault)} :
        /\ node = SelectRnNode(problem, config.policy)
        /\ Fault(fault)
        /\ Record(done.status)
        /\ problem' = done.problem
        /\ IF done.status = "OK" THEN UNCHANGED <<mode, status>> ELSE Return(done.status)
        /\ approximate' = (approximate \/ done.status = "OK")
        /\ UNCHANGED <<calls, config, solution, search, local, solves, original, best>>

-----------------------------------------------------------------------------
(* The enumeration of the irreducible core.                                *)

EnterCore(fault) ==
    /\ Irreducible
    /\ config.strategy = "EXACT_CORE_ENUMERATION"
    /\ fault # "kernel"
    /\ Fault(fault)
    /\ IF fault = "alloc"
       THEN Return("CAPACITY_ERROR") /\ UNCHANGED <<search, solution>>
       ELSE /\ mode' = "searching"
            /\ search' = [depth |-> 0, assignment |-> [n \in NodeIds |-> 0], has |-> FALSE]
            /\ solution' = [solution EXCEPT !.optimum = Inf]
            /\ UNCHANGED status
    /\ UNCHANGED <<calls, problem, config, kernelStatus, local, solves, original, best,
                   approximate>>

Visited(p) == Bump(p, "visited")

LimitHit == config.limit # 0 /\ problem.statistics.visited = config.limit

SearchLimit ==
    /\ mode = "searching"
    /\ LimitHit
    /\ problem' = Bump(problem, "limitHits")
    /\ Return("SEARCH_LIMIT")
    /\ UNCHANGED <<calls, config, kernelStatus, solution, search, local, solves, budget,
                   original, best, approximate>>

(* A node of the enumeration above the leaves: an eliminated node is       *)
(* passed over, an active one starts with its first value.                 *)
Descend ==
    LET d == search.depth
        active == problem.nodes[d].active
    IN  /\ mode = "searching"
        /\ ~LimitHit
        /\ d < problem.node_count
        /\ problem' = IF active THEN Bump(Visited(problem), "branches") ELSE Visited(problem)
        /\ search' = [search EXCEPT !.depth = d + 1,
                                    !.assignment[d] = IF active THEN 0 ELSE @]
        /\ UNCHANGED <<calls, config, mode, status, kernelStatus, solution, local, solves,
                       budget, original, best, approximate>>

(* The positions whose loop over the values is not at its end.             *)
Open == {n \in ActiveNodes(problem) : search.assignment[n] + 1 < problem.nodes[n].domain}

Improves(value) == ~search.has \/ value < solution.optimum

(* A leaf: keep the assignment when it is better, then go on with the next *)
(* value of the innermost open loop, or return from the whole enumeration. *)
Leaf ==
    /\ mode = "searching"
    /\ ~LimitHit
    /\ search.depth = problem.node_count
    /\ \E kept \in {IF Improves(EvaluateActiveCore(problem, search.assignment))
                 THEN [optimum |-> EvaluateActiveCore(problem, search.assignment),
                       assignment |-> search.assignment]
                 ELSE solution} :
        /\ IF Open # {}
           THEN /\ search' = [depth |-> Greatest(Open) + 1, has |-> TRUE,
                              assignment |-> [search.assignment EXCEPT ![Greatest(Open)] = @ + 1]]
                /\ problem' = Bump(Visited(problem), "branches")
                /\ solution' = kept
                /\ UNCHANGED <<mode, status>>
           ELSE /\ search' = NoSearch
                /\ problem' = Visited(problem)
                /\ solution' = [optimum |-> CostAdd(problem.objective_offset, kept.optimum),
                                assignment |-> ReconstructSolution(problem, kept.assignment)]
                /\ Return("OK")
        /\ UNCHANGED <<calls, config, kernelStatus, local, solves, budget, original, best,
                       approximate>>

-----------------------------------------------------------------------------
(* The local searches.                                                     *)

(* RN_LOCAL: the solution of the RN solve is where the descent on the copy *)
(* starts.                                                                 *)
FinishRN ==
    /\ mode = "reducing"
    /\ ActiveNodes(problem) = {}
    /\ config.strategy = "RN_LOCAL"
    /\ local' = [local EXCEPT !.rn = problem.objective_offset,
                              !.descent = Descent(ReconstructSolution(problem,
                                                                      NoSolution.assignment))]
    /\ mode' = "starting"
    /\ UNCHANGED <<calls, problem, config, status, kernelStatus, solution, search, solves,
                   budget, original, best, approximate>>

(* RunLocalDescent takes two arrays from the workspace.                    *)
StartDescent(fault) ==
    /\ mode = "starting"
    /\ fault # "kernel"
    /\ Fault(fault)
    /\ IF fault = "alloc" THEN Return("CAPACITY_ERROR")
       ELSE mode' = "descending" /\ UNCHANGED status
    /\ UNCHANGED <<calls, problem, config, kernelStatus, solution, search, local, solves,
                   original, best, approximate>>

VisitNode(fault) ==
    /\ mode = "descending"
    /\ local.descent.node < local.problem.node_count
    /\ fault # "alloc"
    /\ Fault(fault)
    /\ \E seen \in {Visit(local.problem, local.descent.assignment, local.descent.node)} :
         IF fault = "kernel" \/ ~seen.ok
         THEN Record("KERNEL_ERROR") /\ Return("KERNEL_ERROR") /\ UNCHANGED local
         ELSE /\ local' = [local EXCEPT !.descent = AfterVisit(local.problem, @, seen)]
              /\ UNCHANGED <<mode, status, kernelStatus>>
    /\ UNCHANGED <<calls, problem, config, solution, search, solves, original, best,
                   approximate>>

(* A sweep has changed nothing.  LOCAL_SEARCH keeps the better solution    *)
(* and goes on from the assignment the descent has left.                   *)
Settled ==
    /\ mode = "descending"
    /\ local.descent.node = local.problem.node_count
    /\ \E a \in {local.descent.assignment} :
      \E found \in {[optimum |-> Evaluate(local.problem, a), assignment |-> a]} :
      \E kept \in {IF ~local.has \/ found.optimum < local.best.optimum THEN found
                   ELSE local.best} :
      \E next \in {IF config.strategy = "RN_LOCAL" THEN {}
                   ELSE NextStart(local.problem, local.start)} :
        IF next = {}
        THEN /\ solution' = kept
             /\ Return("OK")
             /\ UNCHANGED local
        ELSE \E start \in next :
             /\ local' = [local EXCEPT
                    !.best = kept, !.has = TRUE, !.start = start,
                    !.descent = Descent([IF local.has THEN [a EXCEPT ![local.start[1]] = 0] ELSE a
                                         EXCEPT ![start[1]] = start[2]])]
             /\ mode' = "starting"
             /\ UNCHANGED <<status, solution>>
    /\ UNCHANGED <<calls, problem, config, kernelStatus, search, solves, budget, original,
                   best, approximate>>

Configs == {c \in [strategy : Strategies, policy : Policies, vector : BOOLEAN, limit : Limits] :
                /\ c.strategy # "HEURISTIC_RN" => c.policy = "MIN_DEGREE"
                /\ c.strategy \in LocalStrategies => ~c.vector
                /\ c.strategy # "EXACT_CORE_ENUMERATION" => c.limit = 0}

Next == \/ BuildCall
        \/ \E c \in Configs, fault \in {"none", "alloc"} : SolveCall(c, fault)
        \/ SolveRefused
        \/ \E fault \in Faults : Reduce(fault)
        \/ Finish
        \/ GiveUp
        \/ \E fault \in Faults : ApplyRN(fault)
        \/ \E fault \in Faults : EnterCore(fault)
        \/ SearchLimit
        \/ Descend
        \/ Leaf
        \/ FinishRN
        \/ \E fault \in Faults : StartDescent(fault)
        \/ \E fault \in Faults : VisitNode(fault)
        \/ Settled

Spec == Init /\ [][Next]_vars

-----------------------------------------------------------------------------
(* The graph stays a simple graph on the active nodes, whatever failed:    *)
(* edge_count counts the active slots, an active edge joins two different  *)
(* active nodes and no other active edge joins the same two.               *)
GraphSound ==
    /\ problem.edge_count = Cardinality(ActiveEdges(problem))
    /\ \A e \in ActiveEdges(problem) :
         /\ problem.edges[e].first # problem.edges[e].second
         /\ {problem.edges[e].first, problem.edges[e].second} \subseteq ActiveNodes(problem)
         /\ \A f \in ActiveEdges(problem) \ {e} :
              {problem.edges[e].first, problem.edges[e].second}
                  # {problem.edges[f].first, problem.edges[f].second}

(* ReconstructSolution runs through the eliminations backwards: it reads   *)
(* the neighbours recorded for a node, so each is still active or was      *)
(* eliminated later.  Every inactive node is in the order, once.           *)
ReconstructionReady ==
    LET order == problem.elimination_order
        position(n) == CHOOSE i \in DOMAIN order : order[i] = n
        settledBefore(n, m) == \/ problem.nodes[m].active
                               \/ position(m) > position(n)
    IN  /\ \A i, j \in DOMAIN order : order[i] = order[j] => i = j
        /\ {order[i] : i \in DOMAIN order}
               = {n \in 0 .. problem.node_count - 1 : ~problem.nodes[n].active}
        /\ \A i \in DOMAIN order :
              LET n == problem.nodes[order[i]]
              IN  /\ n.kind \in {"R1", "R2"} => settledBefore(order[i], n.first)
                  /\ n.kind = "R2" => settledBefore(order[i], n.second)

(* The problem can be solved on at any time, after a failure too.          *)
ProblemSound == GraphSound /\ ReconstructionReady

(* R0, R1 and R2 are exact: what is settled plus the best the rest can     *)
(* still do is the least cost of the problem as it was built.  This holds  *)
(* after a call that failed half-way as well, so solving again is safe.    *)
OptimumPreserved ==
    mode # "building" /\ ~approximate =>
        best = CostAdd(problem.objective_offset,
                       Least({EvaluateActiveCore(problem, a) : a \in Assignments(problem)}))

(* What a solve returns is true.  The optimum is the cost, in the problem  *)
(* as it was built, of the assignment it comes with; no assignment does    *)
(* better unless an RN step was taken or the search is local; a local      *)
(* search ends where no node alone can improve, and never above the RN     *)
(* solution it started from.  last_kernel_status is nonzero after          *)
(* PBQP_KERNEL_ERROR only, whatever the solves before returned.            *)
SolutionTrue ==
    mode = "returned" =>
        /\ status = "OK" =>
              /\ solution.optimum = Evaluate(original, solution.assignment)
              /\ approximate \/ config.strategy = "LOCAL_SEARCH" \/ solution.optimum = best
              /\ config.strategy \in LocalStrategies =>
                    /\ \A n \in 0 .. original.node_count - 1 :
                          ~Visit(original, solution.assignment, n).moved
                    /\ solution.optimum <= local.rn
        /\ kernelStatus # 0 <=> status = "KERNEL_ERROR"

(* Why RunLocalDescent ends: every accepted move pays fewer infinite terms *)
(* or, with as many, a lower sum of the finite ones.                       *)
DescentImproves ==
    [][mode = "descending" /\ mode' = "descending"
            /\ local'.descent.assignment # local.descent.assignment
        => Lower(Terms(local.problem, local'.descent.assignment),
                 Terms(local.problem, local.descent.assignment))]_vars

(* One slot to spare is enough for R2: each fill edge takes the place of   *)
(* two, and a fill edge left by a failed R2 is found by the next one.      *)
SpareSlotSuffices ==
    mode = "reducing" /\ original.edge_count < EdgeCapacity /\ Reducible(problem) # {} =>
        LET E == EdgesOf(problem, Least(Reducible(problem)))
            m == OtherNode(problem.edges[Least(E)], Least(Reducible(problem)))
            k == OtherNode(problem.edges[Greatest(E)], Least(Reducible(problem)))
        IN  Cardinality(E) = 2 => FindEdge(problem, m, k) # {} \/ FreeSlots(problem) # {}

(* Why pbqp_max_finite_cost makes the saturating sums exact: the offset    *)
(* and the greatest finite cost of every active node and edge together     *)
(* stay below the infinite cost, so no sum of them saturates, and the      *)
(* scores the host adds up are those of the vector path.                   *)
Headroom ==
    LET magnitude(c) == IF c = Inf THEN 0 ELSE IF c < 0 THEN -c ELSE c
        largest(S) == Greatest({magnitude(c) : c \in S})
        node(n) == largest({problem.nodes[n].unary[v] : v \in 0 .. problem.nodes[n].domain - 1})
        edge(e) == LET x == problem.edges[e]
                   IN  largest({x.cost[v][w] : v \in 0 .. problem.nodes[x.first].domain - 1,
                                               w \in 0 .. problem.nodes[x.second].domain - 1})
    IN  /\ magnitude(problem.objective_offset) + SumOver(ActiveNodes(problem), node)
               + SumOver(ActiveEdges(problem), edge) < Inf
        /\ mode = "reducing" => \A n \in ActiveNodes(problem) :
               /\ HostScores(problem, n) = VectorScores(problem, n)
               /\ HostScores(problem, n).ok
=============================================================================
