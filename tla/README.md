# PCAA: a verification project

PCAA is a min-plus accelerator. A host encodes *commands* (vector reductions,
vector additions, projections, ordered batches of those) into descriptors in
shared memory, writes the address of one to two MMIO registers and rings a
doorbell; the device fetches the descriptor, executes it on shared memory and
reports DONE or ERROR. The repository holds two models of the device that must
agree (functional **L1**, structural **L2** with tiles, lanes and beats), the
codec both share, host and bare-metal submission layers, and a PBQP solver that
offloads its inner loops.

This directory specifies that system in TLA+, checks it with TLC on small
instances and proves part of it with TLAPS for every instance.

## 1. Inventory

| Component | State it keeps | Operations | Interacts through | What makes it correct |
|---|---|---|---|---|
| Cost algebra (`accelerator/src/cost_math.cpp`) | none | checked and host addition | calls, from devices and solver | exact, saturated or reported; monotone; distributes over min |
| Commands (`pcaalib/src/pcaa.c`, `codec.c: valid_command`) | none | views, constructors, validation, output overlap | values handed to codec and device | no view wraps; only harmless aliases |
| Codec (`pcaalib/src/codec.c`) | destination buffer | encode/decode one, two-pass stream encoding | bytes in shared memory | round trip, one encoding per command, all or nothing |
| L1 device (`accelerator/src/accelerator.cpp`) | registers, STATUS | MMIO write, execute, batch, primitives | MMIO, shared memory | a batch is its children in order; the record tells how many |
| L2 control (`l2_accelerator.cpp`: `b_transport`, `run`, `fetch`, `batch`, `protect`, `transfer`, `record`, `fail`) | registers, latched descriptor, event, diagnostic, cursor | one thread against MMIO calls | event, MMIO, memory in beats | no lost doorbell, descriptors survive, same outcome as L1, completion |
| L2 datapath (`l2_accelerator.cpp`: `primitive`, `load`, `add`, `reduce`) | three banks, running minima, loop counters | nested loops over tiles, chunks, rows, lane groups | memory | results independent of the configuration |
| Timing model (`timing_model.cpp`) | cycle counters | accumulate | called by L1 | observational only |
| Host device (`pcaalib/src/systemc_device.cpp`, `device.c`, `submission.c`) | `pending_`, record address, count | submit, submit batch, wait | MMIO, memory, allocator | one outstanding submission; the outcome belongs to it |
| Bare-metal device and driver (`baremetal_device.c`, `software/accel_driver.c`) | one static command buffer, `pending` | submit, wait, helpers | MMIO, fences | the buffer is not reused while the device may read it |
| Spike plugin (`spike_device.cpp`, `systemc_plugin_entry.cpp`) | device instance | MMIO load/store | Spike bus | accesses to its own aperture are refused |
| PBQP solver (`software/pbqp/pbqp.cpp`) | graph, elimination order, incumbents, statistics; the caller's problem is changed in place | building, R0, R1, R2, RN, core enumeration, local descent, branch and reduce, reconstruction | cost kernel, workspace arena | optimal where exact; a solution has the cost it claims; a failed solve leaves a problem that can be solved |
| PBQP storage (`pbqp_storage.cpp`) | `used`, a word before each block | sizes and layout of a problem, allocate, free, clone | called by the solver | blocks never share a byte; reverse order gives all back; sizes never wrap |
| PBQP offload (`pbqp_accelerator.c`, `tools/pbqp_model_kernel.cpp`) | packed views and their keys; staging memory, copies, commands | kernel calls, one by one and in batches | submission API | the software kernel's results, or a failure without damage |
| Probe, workload generator, tools, scripts | | | | clients, I/O and reports |

Hard behaviours: MMIO writes interleave with the L2 thread (registers may be
rewritten, and doorbells rung, while BUSY; the event is not remembered); memory
accesses fail at any beat, also half way through a result; a child's stores
change memory that later children (and, without protection, their descriptors)
are read from; state survives from one submission to the next; results are
merged in an order that depends on the configuration; unsigned arithmetic on
addresses and 16-bit fields sits at its limits; the submission libraries are
refused an access between two register writes, or between status and record;
solves fail half-way through a reduction and are repeated on what they left;
the recursive search runs out of workspace at any depth; copies made for the
device go stale. `PROJECT.json` lists these as hazards, each at its line.

## 2. Modules

| Module | Models | Notes |
|---|---|---|
| `CostMath` | `cost_math.cpp` | constants `Inf`, `MinInt`; an error is the number below every cost |
| `CostAlgebra` | | the laws, over three operands |
| `PcaaCommand` | `pcaa.c`, `valid_command`, `span` | commands are records; a reduction's result is an output view of length one |
| `Codec` | encode and decode of one descriptor | a descriptor is the record of its fields, each with its width |
| `CommandStream` | `pcaa_encode_stream`, then decoding | actions per command and pass; `Replace` is another producer |
| `AcceleratorOps` | what a submission does to memory (`accelerator.cpp`) | pure operators, used by every device module |
| `Accelerator` | L1 behind its MMIO port | the doorbell write is one step, as `write_register` executes synchronously |
| `BatchReplay` | two L1 devices: a batch, and its children one by one | |
| `IsaContract` | abstract: what any device promises at its port | no code of its own; the outcome of a submission is its parameter `Execute` |
| `L2Control` | the L2 MMIO target and thread | one action per early return and per acknowledged write beat |
| `PrimitiveContract` | abstract: what `L2Control` assumes of `primitive()` | no code of its own |
| `L2Datapath` | `primitive`, `load`, `add`, `reduce` | one action per load, lane group, result |
| `DevicePort` | registers, doorbell and status of either device, as a library sees them | a descriptor is the name of the submission it was encoded for; the device may fail at any child, and in the middle of a record |
| `HostDevice` | `device.c`, `systemc_device.cpp` and the owner's allocator | staging is one step, each register write of `ring()` is one |
| `BareMetal` | `accel_driver.c`, `baremetal_device.c` | one static buffer; copy, address, doorbell and poll are steps |
| `PbqpGraph` | nodes, edges, capacities, building calls, evaluation of an assignment | operators on a problem record |
| `PbqpReductions` | R0, R1, R2, RN, the conditioning on a value, reconstruction | each operator returns status and problem, with the place where a fault strikes as a parameter |
| `PbqpDescent` | one sweep of `RunLocalDescent` | |
| `PbqpSolve` | `Solver::Solve` under all strategies but one, and a caller that solves again | |
| `PbqpBranch` | `SolveBranchAndReduce` on its call stack, in the workspace | clones, statistics and their shared histogram included |
| `PbqpStorage` | size arithmetic, layout and placement of a block | wraps at `SizeMax` |
| `PbqpArena` | the allocator with a caller that allocates, writes and frees in any order | |
| `PbqpOffload` | both device adapters of the cost kernel, and the software kernel they stand for | |
| `AcceleratorOpsProofs`, `FunctionalProofs`, `L2ControlProofs`, `L2DatapathProofs`, `SubmissionProofs`, `WorkspaceProofs`, `PbqpSolveProofs`, `OffloadProofs` | | theorems; `AcceleratorOpsProofs` is shared by the device models, and `SubmissionProofs` is about both submission layers, which share the lemmas about the device behind them |
| `MC*` | | values of constants; `MCImages` holds the memories both devices are run on, `MCPbqpInputs` the PBQP problems |

Composition: `CostMath` and `PcaaCommand` → `Codec` → `AcceleratorOps` → the
devices. `L2Control` treats a primitive as `PrimitiveContract` does (outputs in
order, each with the functional value, stopping only if a later output has
none), `L2Datapath` is checked and proved to implement `PrimitiveContract`, and
`L2Control` is checked and proved to implement `IsaContract`, whose outcome is
`AcceleratorOps!Execute`. Together: the structural device does what the
functional one does. `DevicePort` keeps of that outcome what the submission
layers `HostDevice` and `BareMetal` can observe. `PbqpGraph` →
`PbqpReductions` → `PbqpDescent` → `PbqpSolve`; `PbqpReductions` and
`PbqpStorage` → `PbqpBranch`, which takes from `PbqpArena` that the word before
a block is intact (`WordsIntact`, proved). `PbqpOffload` runs its commands with
`AcceleratorOps` and compares with the software kernel, which is what
`PbqpReductions` computes with.

State and code. In `L2Control`, `status`, `reg`, `active`, `cursor`, `child`,
`command`, `parent`, `desc` are `status_`, `descriptor_register_`,
`active_descriptor_`, `cursor_`, `child_`, `command_`, `parent_` and the
descriptor in `descriptor_`; `notified` is the pending notification of
`doorbell_`; `cause` and `diagChild` are the diagnostic; `off` is the loop
variable of `transfer`, `scan` that of `protect`; `pc` is the place in `run()`.
A step of the thread is what it does between two `wait`s that another party can
notice: reads of a transfer are one step, because while the device is BUSY the
memory is its own; writes are one step per beat, because a later beat may fail.
In `L2Datapath`, `bank`, `valid`, `states`, `tile`, `row`, `chunk`, `group` are
the members of the same names.

In `HostDevice`, `host` is `pending_`, `pending_batch_count_` and
`batch_result_address_`, `next` the owner's allocator, `pc` and `sub` the place
in `ring()` and its argument. In `BareMetal`, `context` is the library's
context, `mem[Buffer]` the static `pending_command`, `place` and `request` the
place in `submit_bytes` or `accel_wait` and the submission it is for, `answer`
what the last call returned. `ran` in `DevicePort` is
history: what the device really did, against which answers are compared.
In `PbqpSolve`, `problem` is the caller's `pbqp_problem_t` (nodes, edges,
`elimination_order`, `objective_offset` and the counters), `original` the
problem as it was built (history); `PbqpBranch` has one record per active call
in `frames`, with the offsets of its arena objects, and `workspace` is the `used`
of its arena. In `PbqpArena`, `used` and
`memory` are the arena and its words, `live` what the caller holds.

Abstractions.
* The address unit is a *cell* of four bytes. Addresses are multiples of four;
  `UINT64_MAX`, `UINT16_MAX`, `UINT32_MAX` are the constants `MaxAddr`, `Max16`,
  `Max32`, so every limit test stays a limit test.
* A descriptor in memory is a sequence of words that are unique to it and are
  no costs: bytes of two descriptors, or overwritten ones, never decode. What
  the bytes mean is in `Codec`.
* `MemoryInterface` is external: a function from cells to words with sets of
  cells whose read or write is refused. It is atomic per call, and refuses a
  write as a whole. RAM is disjoint from the device's own MMIO aperture.
* Malformed MMIO transactions, and the doorbell refused while BUSY, change
  nothing and are not actions. Statistics, cycle counts, logging and the
  diagnostic's address, row and column are left out.
* Memory and register accesses of the submission layers may be refused at any
  time, and then have no effect. The owner of the staging storage recycles it
  only when nothing is pending. A bare-metal program calls the driver directly,
  or initialises the library again, only when nothing is pending, as the callers
  under `software/` do.
* A caller of the solver starts a local search on unreduced problems only, and
  gives no limit below the nodes already visited: the code tests that counter
  for equality. Both restrictions are named in `Callable`.
* Of the solver's statistics the counters of reductions and visited nodes, and
  one histogram, are kept. A call of an offload kernel is one step: it returns
  before the next starts.
* When a primitive fails, the functional and the structural model may have
  stored a different number of its outputs. `loose` in `AcceleratorOps` names
  those cells, and only those.

## 3. Runs

| Run | Question | Bounds, and why they are enough |
|---|---|---|
| `cost_algebra` | laws of the additions | all triples of 5-bit words, `Inf` a quarter of the positive range as in `ACCEL_INF`: every combination of below-range, in-range, saturating and above-`Inf` |
| `command_stream` | encoder against decoder, with one descriptor altered on the way | about 6400 single commands of every kind, legal or not, at both ends of a 19-cell address space with 16-bit fields limited to 3; all pairs and sandwiches of seven commands for capacity and refusal; one stream beyond the count limit |
| `batch_replay` | a batch against its children | 16 memories (good, nested, overlapping, too long, too short, trailing bytes, ...) × 3 fault sets × 2 submissions |
| `l2_batches` | one submission on L2 | the same memories × 6 fault sets; both register halves rewritten at any time; results and record that straddle a beat |
| `l2_resubmit` | state carried between submissions, completion | two submissions with memory and faults replaced in between, fairness |
| `l2_datapath` | the loops of `primitive()` | three configurations in which tiles, chunks and lanes divide the data unevenly, every 0/1 pattern of four columns (all ties), saturation, invalid costs and underflow, six fault sets, every placement of an addition's output on and around its operands |
| `pbqp_solve` | building, solving, failing and solving again | 21 scripts of building calls over eight graphs of up to five nodes with domains to three and six edge slots, every slot used in three of them, two solves with any pair of strategies, one failing allocation or kernel call anywhere; costs at `pbqp_max_finite_cost` of both signs, infinite and tied (30,732 states) |
| `pbqp_branch` | the recursive exact strategy | complete graphs of four and five nodes, where the search branches twice on a path, in workspaces that hold two, one or no copy or end between two objects; three policies, with and without a limit; one fault (3,495 states) |
| `pbqp_arena` | the allocator | five blocks of three sizes and six problems (fitting, too large, overflowing) in 104 bytes at a misaligned address near the end of an address space of 256 (153,160 states) |
| `pbqp_offload` | both adapters against the software kernel | every kernel entry, strided and transposed views, batches with one view, job or pair of jobs too many; cells rewritten between two calls; read and write faults; staging that suffices or runs out |
| `host_device` | the hosted library | four submissions of commands and batches in storage for one batch and two commands, recycled; both devices; every access refused (326,831 states) |
| `bare_metal` | driver and library on one buffer | three submissions, batches below, at and above the workspace; both devices (78,116 states) |

What they show, property by property, is in the comment before each definition.
In brief: `RefinesIsa` (with `SameAsFunctional` and `RefinesContract`) is the
differential contract between the device models, under interleaved MMIO writes;
`DescriptorsIntact` and `CursorInStream` are what makes a batch safe to walk;
`DiagnosticTruth` and `RecordTellsPrefix` say that a failed batch reports the
truth; `BusyIffWorking` and `Completes` that no doorbell is lost;
`RunningMinimum` and `SharedBankSurvives` that tiling does not change results;
`Canonical`, `StreamReadsBack`, `AllOrNothing` and `NoWrap` are the codec's.
`RunsWhatIsPending`, `WaitTellsTruth` and `SingleBufferSafe` tie an answer to
the submission it is about; `WaitReturns` says that polling ends.
`OptimumPreserved`, `SolutionTrue` and `BranchExact` compare the solver with
brute force, `Headroom` says why saturating sums are exact,
`SpareSlotSuffices` why R2 finds an edge slot, `DescentImproves` why the local
search ends, `StatisticsComplete` and `WorkspaceReturned` that the recursion
accounts for all its work and gives all its memory back. `OffloadExact` and
`FailureContained` are the adapters' contract, `WordsIntact`, `NothingLost` and
`SectionsFit` the arena's. `PBQP_PRUNED` is documented as never returned by
`pbqp_solver_solve` (`pbqp.h`); `BranchExact` includes that.
The numbers in these comments (MAS invariants) are those of `doc/mas.md`,
section 16. No disagreement between code and documents was met.

Every property has a mutant, an altered form of one definition (marked
*Mutant* in the modules) under which the property fails.

Deadlock is not checked in `command_stream`, `l2_datapath` and the four `pbqp_`
runs, which model a bounded number of calls that return. Everywhere else the
host can always write a register or wait.

Fairness. `FairSpec` of `L2Control` is weak fairness of the thread as a whole:
the SystemC kernel resumes a thread whose event or timeout is due, every
`tick` is a finite number of cycles and `transfer` waits a configured latency.
Nothing is assumed of the host, which may stop, or rewrite registers for ever.
`Spec` of `L2Datapath` is weak fairness of the only sequential process, and
so is `FairSpec` of `PbqpBranch`: the solve is one thread that nothing waits
for. `BareFairSpec` of `BareMetal` says that the program goes on with the call it
is in, and that a device which accepted a doorbell finishes (`Completes`).
The thread of `L2Control` is at `wait(doorbell_)` before the first doorbell because programs run a
zero-time simulation step first (`tools/pbqp_run.cpp`, `accelerator/tests/l2_unit.cpp`).

## 4. Proofs

| Module | Theorem | Statement |
|---|---|---|
| `AcceleratorOpsProofs` | `ViewsNeverWrap` | elements of an accepted view lie in `[base, end)`, `end <= MaxAddr` |
| | `OutputsUnroll`, `ChildrenUnroll`, `OutputsSoFar`, `OutputsIndependent` (lemmas) | the functional model's two loops, one step at a time |
| `FunctionalProofs` | `InvalidHidesNowhere`, `UnderflowIsReported`, `AdditionDistributes`, `HostAdditionMonotone` | the four laws, for all integers |
| | `RoundTrip` | what the encoder writes for a valid command is accepted, has the promised size and reads back as that command |
| | `StreamInvariant` | `StreamSpec => []StreamInv` |
| | `StreamIsAllOrNothing`, `StreamIsReadBack`, `OneEncoding`, `CommandsNeverWrap` | `StreamSpec => []AllOrNothing`, `[]StreamReadsBack`, `[]Canonical`, `[]NoWrap` |
| | `ReplayInvariant` | `ReplaySpec => []ReplayInv` |
| | `BatchIsItsChildren` | `ReplaySpec => []RecordTellsPrefix` |
| `L2ControlProofs` | `AlwaysIInv` | `Spec => []IInv` |
| | `TypeCorrect`, `NoLostDoorbell`, `CursorStaysInStream`, `DescriptorsNeverOverwritten`, `DiagnosticIsTrue` | `Spec => []TypeOK`, `[]BusyIffWorking`, `[]CursorInStream`, `[]DescriptorsIntact`, `[]DiagnosticTruth` |
| | `StructuralImplementsFunctional` | `Spec => RefinesIsa`: the structural device implements `IsaContract` with the functional model's `Execute` |
| `L2DatapathProofs` | `DatapathInvariant` | `Spec => []DataInv` |
| | `TreeIs`, `ResultIs` (lemmas) | what the reduction tree of `reduce()` and the functional model's scan select, for any number of entries |
| | `SharedBankKept`, `MinimumIsRunning`, `DatapathIsFunctional` | `Spec => []SharedBankSurvives`, `[]RunningMinimum`, `[]SameAsFunctional` |
| | `DatapathMeetsContract` | `Spec => RefinesContract`: `primitive()` implements `PrimitiveContract` |
| `SubmissionProofs` | `RunOutcome`, `RunEnds`, `HalvesJoin` (lemmas) | what a run of the device leaves in status, record and history |
| | `HostInvariant` | `Spec => []HostInv` of `HostDevice` |
| | `DeviceRunsWhatIsPending`, `WaitIsTruthful` | `Spec => []RunsWhatIsPending`, `[]WaitTellsTruth` |
| | `BareInvariant` | `BareSpec => []BareInv` |
| | `OneBufferIsEnough` | `BareSpec => []SingleBufferSafe` |
| `WorkspaceProofs` | `ArenaInvariant` | `ArenaSpec => []ArenaInv` |
| | `BlocksStayApart`, `WordsStayIntact`, `ReverseOrderLosesNothing`, `SectionsAlwaysFit` | blocks and their words are disjoint and inside the storage; `[]WordsIntact`; `[]NothingLost`; `[]SectionsFit` |
| | `SolveReturnsWorkspace`, `SolveCountsAll` | `Spec => []WorkspaceReturned`, `[]StatisticsComplete` of `PbqpBranch` |
| `PbqpSolveProofs` | `SolveInvariant` | `Spec => []SolveInv` |
| | `ProblemStaysSound`, `OneSpareSlot` | `Spec => []ProblemSound`, `[]SpareSlotSuffices` |
| `OffloadProofs` | `FailuresContained` | `Spec => []FailureContained` of `PbqpOffload` |

The proofs hold for every memory size, set of descriptors, fault set, beat
width, number of lanes, tile height and width, shape of a command, storage, block size, number of submissions, width of addresses and
fields, sequence of commands, capacity of a problem, sequence of building calls
and place of a fault. Assumptions: those named in the modules
(`OffloadAssumption`, `WidthAssumption`, `CostAssumption`, `RamAssumption`, `WiresAssumption`,
`StreamAssumption`, `L2Assumption`, `DatapathAssumption`, `PortAssumption`, `HostAssumption`,
`BareMetalAssumption`, `ReplayAssumption`, `StorageAssumption`,
`CallerAssumption` and those of the PBQP modules). They say that constants have their types, that RAM is disjoint
from the device's registers (an aperture of at least one cell), that the
driver's buffer, the workspaces and the records of library and caller are
different objects, that a stream is a finite sequence of commands of the types
in `pcaa.h`, that a problem to solve is one the building calls can make, and that a storage does not reach past the address space.
`OffloadAssumption` says that the adapter's context and the staging memory are no
array of the solver, and that a call's operands are; with the bare-metal adapter
also that they are no longer than `PBQP_MAX_DOMAIN`, the length of the vectors
they are packed into, which `contiguous` and `batch_contiguous` do not test. TLC
evaluates the assumptions in every run.

Why invariants stronger than the properties are needed.

`FunctionalProofs`, the stream: that the second pass cannot run out of room, and that the
decoder ends exactly at the end, are facts about sums of sizes. `StreamInv`
carries the partial sums as a function it says exists: `Sizes(F, n)`, built one
element longer by each step of the first pass, and `Cells(G, n)`, its image in
the destination once it is written. The sizes agree because of `RoundTrip`,
proved kind by kind. A descriptor replaced by another producer's
(`StreamReplace`) shifts `G` from its position on. `OneEncoding` needs only that
descriptors keep the shape of one (`IsWire`): fields a format does not use stay
zero, which is why no other producer's spelling can decode.

`FunctionalProofs`, the batch: a batch is the value of a recursive function over
its children, and each child that of one over its outputs. Each recursion is
unrolled once in `AcceleratorOpsProofs` into a sequence whose elements follow from one another
(`OutputsUnroll`, `ChildrenUnroll`), by the least index at which that would
fail. Along the sequence of children `Prefix` holds: those counted as done each
decode, are no batch and succeed on the memory the one before left, and the
last memory differs from the last success only in cells named loose. So
`BatchEffect` gives a run of the second device for the number the record
stores. `ReplayInv` says that such a run exists for the children still to come,
from the memory that device has now; `SubmitChild` takes its first step, which
must be the run's own because at most one descriptor is found at an address.

`L2ControlProofs`: that a store stays
clear of the descriptors is decided in `protect`, an arbitrary number of steps
before the store. `IInv` therefore carries, from the fetch to the last beat,
* `FetchOK`: the command is the decoding of the fetched descriptor, which has a
  size and fits into what is left of the stream;
* `BatchOK`: within a batch the parent was admitted (record clear of stream and
  descriptor) and the cursor has advanced by no more than the stream;
* `ScanOK`: elements below `scan` are clear of both protected ranges, and in
  the primitive all of them are;
* `OffOK`: the write offset is that of the result being written;
* `MemOK`: memory equals the snapshot of the doorbell on the protected cells,

besides `TypeOK` and `BusyIffWorking`. Each action has a step of its own in the
induction. `DescriptorsIntact` and `CursorInStream` are then read off;
`DiagnosticTruth` adds which cause and which words of the record each place of
`run()` has settled.

`L2ControlProofs`, the refinement: `IsaContract` completes a submission in one
step with what `Execute` makes of the memory at the doorbell (`mem0`), while the
thread fetches, compares and stores beat by beat. The simulation `SimOK` says
where in the functional model's two loops the thread is:
* `WalkOK`: the value of the loop over children at `child` is a success, with the
  thread's cursor and with the memory `Before` the child it is at;
* `FoundOK`: outside a primitive memory is `Before`, and the fetched descriptor is
  the one `read_command` finds there;
* `PrimOK`: the results were computed from `Before`, and memory is the value of
  the loop over outputs at `elem` with the first `off` words of the next output;
* `RecordOK`, `DrainOK`: verdict, child index and memory are the final ones of the
  batch and of the submission, memory outside the loose cells.

The thread computes all results before it stores one, the functional model
stores each before it computes the next: they agree because an output of a valid
command is no operand of a later one (`OutputsIndependent`). Per early return
there is a lemma that the functional model fails there too (`FetchStops`,
`AdmissionStops`, `ChildRefused`, `TrailingStops`, `PrimitiveStops`), and once it
has failed it stays so (`FailureSticks`, `WalkSticks`); a half-written output or
record lies in cells that are loose. The doorbell is `Submit`, `Finish` is
`Complete`, and every other step of the thread leaves what the port shows
unchanged.

`L2DatapathProofs`: whether an output is right is decided when it is stored, by
sums that were formed chunk by chunk and merged group by group long before.
`DataInv` has, besides the types and the ranges of the loop counters
(`LoopsOK`):
* `BanksOK`: per column of the current chunk, what each bank holds at each place
  of the loops; the shared bank holds the operand, or for a map the sum of the
  first two, through all rows of the tile;
* `MinimaOK`: the state of a row is the least sum of the columns behind it, with
  the first column that has it (`LeastSum`), where a sum is the functional
  model's `Candidate`;
* `StoredOK`: until it fails, memory is what the functional model's loop over
  outputs has after as many outputs as are stored (`Turns`, that loop as a
  function); once it has failed, that loop fails as well.

The tree and the scan are recursions over data. Each is taken as the sequence of
its values, whose steps follow from one another (`Iterates`, by the least index
at which that would fail), with an invariant along it: a level of the
tree consists of entries of the group, and no entry of the group comes before
all of the level (`TreeIs`); a scan holds the least of what it has passed, the first one on ties
(`ResultIs`). `MergeIs` joins the two: merging a group that starts at the next
column keeps `LeastSum`. Operands are read while outputs are being stored;
`OperandsOriginal` says that what is still to be read is as it was at the start,
because a valid command's outputs are no operands of later ones. Each action has
its lemma `...Keeps`, which proves the invariant and what the step does to memory
(`Effect`) together, so that the refinement of `PrimitiveContract` is read off.

`SubmissionProofs`, the hosted library: an answer of `wait()` depends on what was staged several
calls earlier. `HostInv` follows a submission: while `ring()` writes, nothing is
pending, the submission is whole in memory with an untouched record, and the
halves written so far are its own (`RingOK`); a BUSY device is at that
submission (`BusyOK`); once it has ended, history and the word `wait()` will
read agree (`EndedOK`), up to a record that was refused half-way; and a final
answer means that nothing is pending (`AnswerOK`).

`SubmissionProofs`, the driver: the same story, where the device may also
finish in parallel. `BareInv` says in addition what a submission under
construction has in its buffer (`MakingOK`) and when a status is that of the
submission waited for, and not one left by its predecessor (`PendingOK`,
`BareEndedOK`).

`WorkspaceProofs`, the arena: a free sets `used` to what a word in memory says, so that the
words are intact and that blocks lie below `used` depend on each other.
`ArenaInv` adds that of any two blocks one ends before `used` was when the
other was allocated (`Ordered`) and, for frees in reverse order, that `used` and
every saved value are ends of blocks still held (`Chained`). `SectionsFit` is
arithmetic: each addition that did not report an overflow was exact, so the
cursor of `BindProblemStorage` takes the same path as the sum of
`ProblemStorageSize`.

`WorkspaceProofs`, the search: the arena gives everything back only if blocks
are freed in reverse order, which across calls is a fact about the call stack.
`HeldInv` says that the blocks of all frames together, oldest first, are a
chain: each starts where `used` was, and the last one ends at `workspace`. A
return pops the frame's own blocks from the end of that chain. For
`SolveCountsAll`, `TallyInv` says where each unit of work is recorded at any
time. The work of a frame is split between its problem, its aggregate and, for
the value in progress, the frame above, which started from the frame's base:
summing aggregate minus base down the stack gives the work done (`AddsUp`). The
histogram is shared, so it alone has the total. Per reduction there is a lemma
that it raises exactly its own counter, when it fails as well.

`PbqpSolveProofs`: costs play no part in soundness, so every operation is
reduced to one of four changes of the graph (none, an edge more, edges less, a
node eliminated), each with a lemma, failures half-way included. That one slot
suffices is a matter of counting: `Balanced` says that a solve never has more
edges than the problem was built with, but for the fill edge of an R2 that
failed after making it, and then that same R2 is the next reduction (`Filled`).

`OffloadProofs`: both adapters are loops over the jobs of a call, and so are the
device and the reading back; the loops are unrolled once (`LoopsUnroll`), and an
invariant is carried along each. `PrepOK` and `StageOK` say that memory agrees
with the solver's at every cell of its arrays, and that the commands made so far
store only to the outputs of the call's jobs, or only to staging memory. The
latter needs more of the staging than its limit: an address may come from the
cache, so `StageOK` says that every cached copy lies inside the staging memory
with the length of the view it is cached for. `OffloadInv` adds to the property
the shape of memory, of the packed keys, which outlive a call, and of the staging
limit.

Only model-checked. Out of the prover's reach: liveness (`Completes`, `Returns`,
`SolveReturns`, `WaitReturns`). Properties that compare with a minimum over all
assignments of a problem, a nested recursion over graphs for which there is no
single sequence to unroll (`OptimumPreserved`, `SolutionTrue`, `Headroom`,
`DescentImproves`, `BranchExact`); and `OffloadExact`, which compares two folds
over the jobs, of the software kernel on strided views and of the device on
copies of them.

## 5. Not modelled

* Timing model, statistics of traffic and batches, traces: observational, no
  decision depends on them.
* Spike adapter: hands loads and stores on one to one and keeps no state.
* Bellman-Ford probe: a sequential client of the submission API.
* Workload generator, command-line tools, report scripts: random input, I/O and
  formatting. (`tools/pbqp_model_kernel.cpp` is modelled, in `PbqpOffload`.)
* Alignment of addresses below a cell; error texts.
* The arrays of per-step RN records, and what `begin_batch` of the hosted
  kernel does to a submission that a transport error left pending: both are
  listed as hazards, with the reason.

## 6. Plan

Done, in this order: cost algebra; commands and codec; functional device;
structural control with its proof; structural datapath; batch replay; PBQP
graph, reductions and solve; branch and reduce; arena with its proof; offload;
hosted library with its proof; bare-metal driver; then the proofs of section 4.

A proof to come: `OffloadExact`, on top of the lemmas of `OffloadProofs`.
