---------------------------- MODULE PbqpOffload ----------------------------
(***************************************************************************)
(* The cost kernels that run the solver's operations on a device: the      *)
(* bare-metal adapter of software/pbqp/pbqp_accelerator.c, which packs     *)
(* strided vectors next to the caller's arrays, and the hosted adapter of  *)
(* tools/pbqp_model_kernel.cpp, which copies every operand into a staging  *)
(* memory and the results back.  Both are compared with the software       *)
(* kernel of software/pbqp/pbqp.cpp.                                       *)
(*                                                                         *)
(* Every cell is in one memory: the caller's arrays, the scratch and the   *)
(* packed views of the adapter's context, and the guest memory of the      *)
(* hosted model.  A job is a command on the caller's arrays, its vectors   *)
(* strided; a project_add job becomes two commands.  Descriptors are run   *)
(* without their encoding, which Codec and AcceleratorOps cover.  A kernel *)
(* call returns before the next one starts, and so is one step.            *)
(***************************************************************************)
EXTENDS AcceleratorOps, SequencesExt

CONSTANTS Kernels,          \* the adapters considered
          Caller,           \* the cells of the solver's arrays
          Images,           \* their contents at the start, and the rest of memory
          Edits,            \* the cells the solver rewrites, and the costs it writes
          EditCosts,
          Calls,            \* the kernel calls the solver makes
          FaultSets,        \* the cells of the caller a device cannot reach
          MaxDomain,        \* PBQP_MAX_DOMAIN
          MaxJobs,          \* PBQP_MAX_BATCH_JOBS
          MaxPackedViews,   \* PBQP_MAX_BATCH_PACKED_VIEWS
          ScratchBase, PackBase,    \* scratch0..2 and packed_views of the context
          GuestFirst, GuestLimits,  \* kFirstAllocationAddress and the staging limits
          MaxCalls                  \* bound on kernel calls

(* A job is a primitive, or the pair of them that project_add_batch makes  *)
(* of one of its jobs.                                                     *)
IsProjectAdd(job) == job \in [kind : {"project_add"}, m : MatrixViews, a : VectorViews,
                              temporary : Nat, scores : Nat]

(* The solver's operands and results are its own arrays.  The bare-metal   *)
(* adapter packs what a reduction reads into vectors of PBQP_MAX_DOMAIN    *)
(* costs and does not look at the length: its user must.                   *)
OnCaller(job) ==
    /\ \A v \in IF job.kind = "project_add" THEN {job.a, Vec(job.scores, job.m.rows, 1)}
                ELSE {job.a, job.b, job.c} :
         /\ \A i \in 0..v.length - 1 : VecAddr(v, i) \in Caller
         /\ job.kind \in ReduceKinds /\ "baremetal" \in Kernels => v.length <= MaxDomain
    /\ \A row \in 0..job.m.rows - 1, column \in 0..job.m.columns - 1 :
         MatAddr(job.m, row, column) \in Caller

ASSUME OffloadAssumption ==
    /\ Caller \subseteq Ram /\ Images \subseteq [Ram -> Int]
    /\ Edits \subseteq Caller /\ EditCosts \subseteq Int
    /\ {MaxDomain, MaxJobs, MaxPackedViews, MaxCalls, ScratchBase, PackBase, GuestFirst}
          \cup GuestLimits \subseteq Nat
    \* the members of the adapter's context and the guest memory are no array of the solver
    /\ (ScratchBase..ScratchBase + 3 * MaxDomain - 1) \cap Caller = {}
    /\ (PackBase..PackBase + MaxPackedViews * MaxDomain - 1) \cap Caller = {}
    /\ \A limit \in GuestLimits : GuestFirst..limit - 1 \subseteq Ram \ Caller
    /\ \A call \in Calls : /\ call.jobs # <<>> /\ Len(call.jobs) \in Nat
                            /\ DOMAIN call.jobs = 1..Len(call.jobs)
                            /\ \A i \in DOMAIN call.jobs :
                                 /\ IsPrimitive(call.jobs[i]) \/ IsProjectAdd(call.jobs[i])
                                 /\ OnCaller(call.jobs[i])

VARIABLES kernel,    \* the adapter in use
          mem,       \* memory, see above
          faults,
          packed,    \* the keys packed_bases/lengths/strides, packed_view_count of them
          guest,     \* the hosted adapter's limit_, next_address_ and view_cache_
          last,      \* the last kernel call: its jobs, the memory it began with, its status
          calls

vars == <<kernel, mem, faults, packed, guest, last, calls>>

NoFaults == [read |-> {}, write |-> {}]
NoCall   == [op |-> "none", jobs |-> <<>>, before |-> <<>>, status |-> "OK"]

ProjectAdd(m, unary, temporary, scores) ==
    [kind |-> "project_add", m |-> m, a |-> unary, temporary |-> temporary, scores |-> scores]

Costs1(base, length) == Vec(base, length, 1)
CostsOut(base, length) == Out(base, length, 1, "cost")

(* The two commands of a project_add, in the order they run.               *)
ProjectPart(job) == Project(job.m, job.a, CostsOut(job.temporary, job.m.rows))
AddPart(job)     == VectorAdd(Costs1(job.temporary, job.m.rows), Costs1(job.scores, job.m.rows),
                              CostsOut(job.scores, job.m.rows))

Lowered(job) == IF job.kind = "project_add" THEN <<ProjectPart(job), AddPart(job)>> ELSE <<job>>

AllCommands(jobs) == FlattenSeq([i \in DOMAIN jobs |-> Lowered(jobs[i])])

-----------------------------------------------------------------------------
(* The software kernel.                                                    *)

(* The least candidate of an output and the first column that has it.      *)
SoftwareResult(cmd, output, m) ==
    LET sum   == [i \in 0..Columns(cmd) - 1 |-> Candidate(cmd, output, i, m, NoFaults)]
        least == CHOOSE v \in Range(sum) : \A i \in DOMAIN sum : v <= sum[i]
    IN  [value |-> least, index |-> Min({i \in DOMAIN sum : sum[i] = least})]

SoftwareCommand(m, cmd) ==
    FoldLeft(LAMBDA before, k : Store(before, OutAddr(cmd, k - 1),
                                      ResultWords(cmd, SoftwareResult(cmd, k - 1, before))),
             m, [k \in 1..cmd.out.length |-> k])

Software(jobs, m) == FoldLeft(SoftwareCommand, m, AllCommands(jobs))

-----------------------------------------------------------------------------
(* The device: the commands in order until one fails.                      *)

RunCommand(before, cmd) ==
    IF before.ok THEN ExecuteCommand(cmd, before.mem, faults) ELSE before

Run(commands, m) ==
    LET done[i \in 0..Len(commands)] ==
          IF i = 0 THEN [ok |-> TRUE, mem |-> m] ELSE RunCommand(done[i - 1], commands[i])
    IN  done[Len(commands)]

Elements(m, view) == [i \in 1..view.length |-> m[VecAddr(view, i - 1)]]

-----------------------------------------------------------------------------
(* The bare-metal adapter.  A preparation p holds the memory, the packed   *)
(* keys and, operand by operand, the addresses the commands will use.      *)

(* contiguous: one scratch vector per operand.                             *)
Scratch(p, view) ==
    LET slot == ScratchBase + Len(p.at) * MaxDomain
    IN  IF view.stride = 1 THEN [p EXCEPT !.at = Append(@, view.base)]
        ELSE [p EXCEPT !.at = Append(@, slot), !.mem = Store(@, slot, Elements(@, view))]

PackSlot(i) == PackBase + (i - 1) * MaxDomain

(* batch_contiguous: the copy made for an equal view of this batch, or a   *)
(* new one, or 0.                                                          *)
BatchContiguous(p, view) ==
    LET slot == PackSlot(Len(p.packed) + 1)
    IN  IF view.stride = 1 THEN [p EXCEPT !.at = Append(@, view.base)]
        ELSE IF Contains(p.packed, view)
        THEN [p EXCEPT !.at = Append(@, PackSlot(Min({i \in DOMAIN p.packed :
                                                        p.packed[i] = view})))]
        ELSE IF Len(p.packed) = MaxPackedViews THEN [p EXCEPT !.at = Append(@, 0)]
        ELSE [p EXCEPT !.at = Append(@, slot), !.packed = Append(@, view),
                       !.mem = Store(@, slot, Elements(@, view))]

(* Mutant: the packed views of the last batch are kept.                    *)
BeginBatchKeeping(m) == [mem |-> m, packed |-> packed, at |-> <<>>, commands |-> <<>>,
                         status |-> "OK"]

(* begin_batch.                                                            *)
BeginBatch(m) == [mem |-> m, packed |-> <<>>, at |-> <<>>, commands |-> <<>>, status |-> "OK"]

(* pcaa_make_reduce2 or 3 on the packed operands.                          *)
Reduction(cmd, at, result) ==
    IF cmd.kind \in Reduce2Kinds
    THEN Reduce2(cmd.kind, Costs1(at[1], cmd.a.length), Costs1(at[2], cmd.b.length), result)
    ELSE Reduce3(cmd.kind, Costs1(at[1], cmd.a.length), Costs1(at[2], cmd.b.length),
                 Costs1(at[3], cmd.c.length), result)

(* The commands of a call, one after the other, until one is refused.      *)
Add(p, cmd) ==
    IF p.status # "OK" THEN p
    ELSE IF 0 \in Range(p.at) THEN [p EXCEPT !.status = "NO_SPACE"]
    ELSE IF ValidCommand(cmd) # "OK" THEN [p EXCEPT !.status = ValidCommand(cmd)]
    ELSE [p EXCEPT !.commands = Append(@, cmd)]

Pack(p, view, batched) == IF batched THEN BatchContiguous(p, view) ELSE Scratch(p, view)

(* A reduction needs contiguous vectors; the vector commands take strides. *)
Prepare(p, cmd, batched) ==
    IF p.status # "OK" \/ cmd.kind \notin ReduceKinds THEN Add(p, cmd)
    ELSE LET two == Pack(Pack([p EXCEPT !.at = <<>>], cmd.a, batched), cmd.b, batched)
             q   == IF cmd.kind \in Reduce2Kinds THEN two ELSE Pack(two, cmd.c, batched)
         IN  Add(q, IF 0 \in Range(q.at) THEN cmd ELSE Reduction(cmd, q.at, cmd.out.base))

PrepareJob(p, job, batched) ==
    IF job.kind # "project_add" THEN Prepare(p, job, batched)
    ELSE Prepare(Prepare(p, ProjectPart(job), batched), AddPart(job), batched)

PackedBatches == {"min2_batch", "min3_batch", "min2_value_batch"}

JobLimit(op) == IF op = "project_add_batch" THEN MaxJobs \div 2 ELSE MaxJobs

(* accel_min2 and the other entries of the kernel up to the submission.    *)
(* Only the packed batches begin one: the others leave the keys alone.     *)
Prepared(call) ==
    LET idle == [mem |-> mem, packed |-> packed, at |-> <<>>, commands |-> <<>>, status |-> "OK"]
        batched == call.op \in PackedBatches
        prepared[i \in 0..Len(call.jobs)] ==
          IF i = 0 THEN IF batched THEN BeginBatch(mem) ELSE idle
          ELSE PrepareJob(prepared[i - 1], call.jobs[i], batched)
    IN  IF Len(call.jobs) > JobLimit(call.op) THEN [idle EXCEPT !.status = "NO_SPACE"]
        ELSE prepared[Len(call.jobs)]

Ended(done) == IF done.ok THEN "OK" ELSE "DEVICE_ERROR"

(* submit_batch, submit_reduce2 and submit_reduce3: the device works on    *)
(* the caller's arrays in place.                                           *)
Submitted(p) ==
    LET done == Run(p.commands, p.mem)
    IN  IF p.status # "OK" THEN p ELSE [p EXCEPT !.mem = done.mem, !.status = Ended(done)]

BareMetalCall(call) ==
    /\ kernel = "baremetal"
    /\ \E p \in {Submitted(Prepared(call))} :
         /\ mem' = p.mem /\ packed' = p.packed
         /\ last' = [op |-> call.op, jobs |-> call.jobs, before |-> mem, status |-> p.status]
    /\ UNCHANGED guest

-----------------------------------------------------------------------------
(* The hosted adapter.  A preparation s holds the memory, the allocator,   *)
(* the copies made so far and what to read back where.                     *)

(* begin_batch.                                                            *)
BeginStaging == [mem |-> mem, next |-> GuestFirst, cache |-> <<>>, at |-> <<>>, commands |-> <<>>,
                 back |-> <<>>, status |-> "OK"]

(* GuestMemory::allocate, at eight bytes, through allocate_storage.  After *)
(* a refusal nothing more is staged; the code may go on allocating, but    *)
(* nothing of the batch is used again.                                     *)
AllocateStorage(s, cells) ==
    LET start == ((s.next + 1) \div 2) * 2
    IN  IF s.status # "OK" THEN s
        ELSE IF start + cells > guest.limit THEN [s EXCEPT !.status = "NO_SPACE"]
        ELSE [s EXCEPT !.at = Append(@, start), !.next = start + cells]

(* Words copied to newly allocated storage.                                *)
CopyWords(s, words) ==
    LET r == AllocateStorage(s, Len(words))
    IN  IF r.status # "OK" THEN r ELSE [r EXCEPT !.mem = Store(@, Last(r.at), words)]

(* copy_view: equal views of a batch share one copy.                       *)
CopyView(s, view) ==
    LET r == CopyWords(s, Elements(s.mem, view))
    IN  IF s.status = "OK" /\ view \in DOMAIN s.cache
        THEN [s EXCEPT !.at = Append(@, s.cache[view])]
        ELSE IF r.status # "OK" THEN r
        ELSE [r EXCEPT !.cache = [v \in DOMAIN @ \cup {view} |->
                                    IF v = view THEN Last(r.at) ELSE @[v]]]

(* copy_matrix: by rows, whatever the strides of the source.               *)
CopyMatrix(s, m) ==
    CopyWords(s, [i \in 1..m.rows * m.columns |->
                    s.mem[MatAddr(m, (i - 1) \div m.columns, (i - 1) % m.columns)]])

(* What a job stages, in order: its operands, then room for its results.   *)
Staged(s, job) ==
    CASE job.kind \in Reduce2Kinds ->
           AllocateStorage(CopyView(CopyView(s, job.a), job.b), OutWidth(job.out.kind))
      [] job.kind \in Reduce3Kinds ->
           AllocateStorage(CopyView(CopyView(CopyView(s, job.a), job.b), job.c),
                           OutWidth(job.out.kind))
      [] job.kind = "vector_add" ->
           AllocateStorage(CopyView(CopyView(s, job.a), job.b), job.a.length)
      [] job.kind = "project" ->
           AllocateStorage(CopyView(CopyMatrix(s, job.m), job.a), job.m.rows)
      [] job.kind = "map3" ->
           AllocateStorage(CopyMatrix(CopyView(CopyView(s, job.a), job.b), job.m),
                           job.m.rows * PairCells)
      [] job.kind = "project_add" ->
           AllocateStorage(CopyView(CopyMatrix(CopyView(s, Costs1(job.scores, job.m.rows)), job.m),
                                    job.a), job.m.rows)

Dense(m, base) == Mat(base, m.rows, m.columns, m.columns, 1)

(* The job on the staged operands.                                         *)
StagedJob(job, at) ==
    CASE job.kind \in ReduceKinds -> Reduction(job, at, Last(at))
      [] job.kind = "vector_add"  ->
           VectorAdd(Costs1(at[1], job.a.length), Costs1(at[2], job.b.length),
                     CostsOut(at[3], job.a.length))
      [] job.kind = "project"     ->
           Project(Dense(job.m, at[1]), Costs1(at[2], job.a.length), CostsOut(at[3], job.m.rows))
      [] job.kind = "map3"        ->
           Map3Project(Costs1(at[1], job.a.length), Costs1(at[2], job.b.length),
                       Dense(job.m, at[3]), Out(at[4], job.m.rows, 1, "pair"))
      [] job.kind = "project_add" ->
           ProjectAdd(Dense(job.m, at[2]), Costs1(at[3], job.a.length), at[4], at[1])

(* Where a job's results are and where the caller wants them.  The         *)
(* temporary of a project_add stays in the staging memory.                 *)
ReadBack(job, at) ==
    IF job.kind = "project_add" THEN [from |-> at[1], to |-> job.scores, cells |-> job.m.rows]
    ELSE [from |-> Last(at), to |-> job.out.base, cells |-> job.out.length * OutWidth(job.out.kind)]

AddJob(p, job) == IF job.kind # "project_add" THEN Add(p, job)
                  ELSE Add(Add(p, ProjectPart(job)), AddPart(job))

StageJob(s, job) ==
    LET r == Staged([s EXCEPT !.at = <<>>], job)
    IN  IF r.status # "OK" THEN r
        ELSE AddJob([r EXCEPT !.back = Append(@, ReadBack(job, r.at))], StagedJob(job, r.at))

StagedJobs(jobs) ==
    LET staged[i \in 0..Len(jobs)] ==
          IF i = 0 THEN BeginStaging ELSE StageJob(staged[i - 1], jobs[i])
    IN  staged[Len(jobs)]

(* PcaaSystemCDevice::submit_batch takes the child stream, the record and  *)
(* the parent from the same memory.                                        *)
DeviceStorage(s) ==
    LET stream == FoldLeft(LAMBDA cells, cmd : cells + EncodedSize(cmd), 0, s.commands)
    IN  AllocateStorage(AllocateStorage(AllocateStorage(s, stream), PairCells), 2 * SlotCells)

CopyBack(m, item) == Store(m, item.to, [i \in 1..item.cells |-> m[item.from + i - 1]])

CopiedBack(m, back) ==
    LET copied[i \in 0..Len(back)] == IF i = 0 THEN m ELSE CopyBack(copied[i - 1], back[i])
    IN  copied[Len(back)]

(* Mutant: the results are read back before the status is looked at.       *)
FinishReadingFirst(s) ==
    LET done == IF s.status = "OK" THEN Run(s.commands, s.mem) ELSE [ok |-> FALSE, mem |-> s.mem]
    IN  [s EXCEPT !.mem = CopiedBack(done.mem, s.back),
                  !.status = IF @ = "OK" THEN Ended(done) ELSE @]

(* submit_batch, and the results copied to the caller once all is well.    *)
Finish(s) ==
    LET done == Run(s.commands, s.mem)
    IN  IF s.status # "OK" THEN s
        ELSE [s EXCEPT !.mem = IF done.ok THEN CopiedBack(done.mem, s.back) ELSE done.mem,
                       !.status = Ended(done)]

HostedCall(call) ==
    /\ kernel = "hosted"
    /\ \E s \in {Finish(DeviceStorage(StagedJobs(call.jobs)))} :
         /\ mem' = s.mem /\ guest' = [guest EXCEPT !.next = s.next, !.cache = s.cache]
         /\ last' = [op |-> call.op, jobs |-> call.jobs, before |-> mem, status |-> s.status]
    /\ UNCHANGED packed

-----------------------------------------------------------------------------
Init == /\ kernel \in Kernels /\ mem \in Images /\ faults \in FaultSets
        /\ packed = <<>>
        /\ \E limit \in GuestLimits : guest = [limit |-> limit, next |-> GuestFirst, cache |-> <<>>]
        /\ last = NoCall /\ calls = 0

KernelCall == /\ calls < MaxCalls /\ calls' = calls + 1
              /\ \E call \in Calls : BareMetalCall(call) \/ HostedCall(call)
              /\ UNCHANGED <<kernel, faults>>

(* Between two calls the solver changes its arrays.                        *)
CallerWrites == /\ last # NoCall /\ last' = NoCall
                /\ \E x \in Edits, v \in EditCosts : mem' = [mem EXCEPT ![x] = v]
                /\ UNCHANGED <<kernel, faults, packed, guest, calls>>

Next == KernelCall \/ CallerWrites

Spec == Init /\ [][Next]_vars

-----------------------------------------------------------------------------
Temporaries(jobs) ==
    UNION {IF jobs[i].kind = "project_add"
           THEN jobs[i].temporary..jobs[i].temporary + jobs[i].m.rows - 1 ELSE {} :
             i \in DOMAIN jobs}

(* What the call may have stored to among the caller's cells.              *)
Outputs(jobs) == UNION {UNION {OutCells(Lowered(jobs[i])[k]) : k \in DOMAIN Lowered(jobs[i])} :
                          i \in DOMAIN jobs}

(* A kernel call that reports success leaves in the caller's arrays        *)
(* exactly what the software kernel computes from them: no packed vector   *)
(* and no staged copy is older than the call, equal views share a copy     *)
(* without hiding the updates of shared scores, and the strides of the     *)
(* source are followed.  Only the temporaries may differ.                  *)
OffloadExact ==
    last.status = "OK" /\ last # NoCall =>
        \A x \in Caller \ Temporaries(last.jobs) : mem[x] = Software(last.jobs, last.before)[x]

(* A call refused for want of jobs, packed views or staging memory, and    *)
(* any failed call of the hosted adapter, leaves the caller's arrays as    *)
(* they were; after a device error the bare-metal adapter has touched at   *)
(* most the outputs of the call.                                           *)
FailureContained ==
    last.status # "OK" =>
        \A x \in Caller \ (IF last.status = "DEVICE_ERROR" /\ kernel = "baremetal"
                            THEN Outputs(last.jobs) ELSE {}) : mem[x] = last.before[x]
=============================================================================
