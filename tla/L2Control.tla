----------------------------- MODULE L2Control -----------------------------
(***************************************************************************)
(* The structural device model of accelerator/src/l2_accelerator.cpp: the  *)
(* MMIO target (b_transport, on the caller's thread) against the SC_THREAD *)
(* run, with descriptor fetch, batch sequencing, output protection and the *)
(* write path beat by beat.  A step of the thread is what it does between  *)
(* two waits that matter to anyone else.                                   *)
(*                                                                         *)
(* The arithmetic of primitive() is not repeated here: a primitive stores  *)
(* the outputs the functional model computes from the memory it started    *)
(* with, in order, and may stop with an error at any point when one of the *)
(* outputs still to come has none.  L2Datapath models how it gets them.    *)
(***************************************************************************)
EXTENDS AcceleratorOps, FiniteSets

CONSTANTS MemCells,        \* config_.mem_bytes: cells per beat
          Mmio,            \* [base, cells] of the device's own aperture
          Half,            \* 2^32: an address is hi * Half + lo
          LoWords, HiWords,\* what the host writes to the address registers
          Images, FaultSets,\* memory contents and access faults the host sets up
          MaxSubmissions   \* bound on doorbells

ASSUME L2Assumption == /\ MemCells \in Nat \ {0}
                       /\ Mmio \in [base : Nat, cells : Nat \ {0}]
                       /\ Ram \cap (Mmio.base..Mmio.base + Mmio.cells - 1) = {}
                       /\ Half \in Nat /\ LoWords \subseteq Nat /\ HiWords \subseteq Nat
                       /\ Images \subseteq [Ram -> Int]
                       /\ FaultSets \subseteq [read : SUBSET Ram, write : SUBSET Ram]
                       /\ MaxSubmissions \in Nat

VARIABLES
    status, reg, active, notified,   \* status_, descriptor_register_, active_descriptor_, doorbell_
    cause, diagChild,                \* diagnostic_.cause, diagnostic_.child
    submissions,                     \* statistics_.submissions, the bound
    pc, inBatch, ok,                 \* where run() is, within batch() or not, and its verdict
    desc, command,                   \* the descriptor in descriptor_, and command_
    parent, parentCells,             \* parent_ and parent_bytes
    cursor, child,                   \* cursor_, child_
    scan,                            \* protect(): output element to be compared
    elem, off,                       \* output being written, and cells of it already acknowledged
    results,                         \* the outputs the primitive will have computed
    mem, faults,                     \* guest memory and its access faults
    mem0                             \* memory at the doorbell

mmioVars   == <<status, reg, active, notified, submissions>>
diagVars   == <<cause, diagChild>>
fetchVars  == <<desc, command, parent, parentCells, inBatch>>
batchVars  == <<cursor, child>>
primVars   == <<scan, elem, off, results>>
hostVars   == <<faults, mem0>>
vars == <<mmioVars, diagVars, pc, ok, fetchVars, batchVars, primVars, mem, hostVars>>

NoCommand == [kind |-> "none"]

Address == reg.hi * Half + reg.lo

-----------------------------------------------------------------------------
(* The host side.                                                          *)

Init == /\ status = "IDLE" /\ reg = [lo |-> 0, hi |-> 0] /\ active = 0
        /\ notified = FALSE /\ submissions = 0
        /\ cause = "OK" /\ diagChild = 0
        /\ pc = "wait" /\ ok = TRUE /\ inBatch = FALSE
        /\ desc = 1 /\ command = NoCommand /\ parent = NoCommand /\ parentCells = 0
        /\ cursor = 0 /\ child = 0
        /\ scan = 0 /\ elem = 0 /\ off = 0 /\ results = <<>>
        /\ mem \in Images /\ faults \in FaultSets
        /\ mem0 = mem

WriteLo == /\ \E lo \in LoWords : reg' = [reg EXCEPT !.lo = lo]
           /\ UNCHANGED <<status, active, notified, submissions, diagVars, pc, ok,
                          fetchVars, batchVars, primVars, mem, hostVars>>

WriteHi == /\ \E hi \in HiWords : reg' = [reg EXCEPT !.hi = hi]
           /\ UNCHANGED <<status, active, notified, submissions, diagVars, pc, ok,
                          fetchVars, batchVars, primVars, mem, hostVars>>

(* Mutants of the doorbell: accepted while BUSY; the diagnostic not        *)
(* cleared; notified only the first time.                                  *)
DoorbellUnguarded ==
    /\ submissions < MaxSubmissions
    /\ active' = Address /\ status' = "BUSY" /\ notified' = TRUE
    /\ submissions' = submissions + 1
    /\ cause' = "OK" /\ diagChild' = 0
    /\ mem0' = mem
    /\ UNCHANGED <<reg, pc, ok, fetchVars, batchVars, primVars, mem, faults>>
DoorbellKeepsDiagnostic ==
    /\ status # "BUSY" /\ submissions < MaxSubmissions
    /\ active' = Address /\ status' = "BUSY" /\ notified' = TRUE
    /\ submissions' = submissions + 1
    /\ mem0' = mem
    /\ UNCHANGED <<reg, diagVars, pc, ok, fetchVars, batchVars, primVars, mem, faults>>
DoorbellSilent ==
    /\ status # "BUSY" /\ submissions < MaxSubmissions
    /\ active' = Address /\ status' = "BUSY" /\ notified' = (status = "IDLE")
    /\ submissions' = submissions + 1
    /\ cause' = "OK" /\ diagChild' = 0
    /\ mem0' = mem
    /\ UNCHANGED <<reg, pc, ok, fetchVars, batchVars, primVars, mem, faults>>

(* DOORBELL.  While BUSY it is refused and changes nothing.                *)
Doorbell == /\ status # "BUSY" /\ submissions < MaxSubmissions
            /\ active' = Address /\ status' = "BUSY" /\ notified' = TRUE
            /\ submissions' = submissions + 1
            /\ cause' = "OK" /\ diagChild' = 0
            /\ mem0' = mem
            /\ UNCHANGED <<reg, pc, ok, fetchVars, batchVars, primVars, mem, faults>>

(* Between submissions the host rewrites memory and repairs or breaks it;  *)
(* until completion the memory belongs to the device.                      *)
HostPrepare == /\ status # "BUSY" /\ submissions \in 1..MaxSubmissions - 1
               /\ mem' \in Images /\ faults' \in FaultSets
               /\ mem0' = mem'
               /\ UNCHANGED <<mmioVars, diagVars, pc, ok, fetchVars, batchVars, primVars>>

Host == WriteLo \/ WriteHi \/ Doorbell \/ HostPrepare

-----------------------------------------------------------------------------
(* Failure and transfer.                                                   *)

(* fail() keeps the first cause.                                           *)
Diagnose(c) == /\ cause' = IF cause = "OK" THEN c ELSE cause
               /\ diagChild' = IF cause = "OK" THEN child ELSE diagChild

(* A failed fetch, protection check or primitive: of a child it goes on to *)
(* the record, of a submitted command to the end of run().                 *)
Abort(c) == /\ Diagnose(c)
            /\ ok' = FALSE /\ off' = 0
            /\ pc' = IF inBatch THEN "record" ELSE "drain"
            /\ UNCHANGED <<mmioVars, fetchVars, batchVars, scan, elem, results, mem, hostVars>>

(* transfer() before its first beat: the range test, which keeps the       *)
(* device off its own registers.                                           *)
InRange(address, cells) ==
    /\ address # 0 /\ cells <= MaxAddr - address
    /\ ~Overlaps(address, address + cells, Mmio.base, Mmio.base + Mmio.cells)

ReadCause(address, cells) ==
    IF ~InRange(address, cells) THEN "RANGE"
    ELSE IF ReadOk(faults, address, cells) THEN "OK" ELSE "MEMORY_ERROR"

(* The beat that follows `off` acknowledged cells of a `total`-cell write: *)
(* up to the next multiple of the beat width.                              *)
BeatCells(address, total) ==
    LET room == MemCells - ((address + off) % MemCells)
    IN  IF total - off < room THEN total - off ELSE room

(* The cause with which that beat fails, or OK.                            *)
WriteCause(address, total) ==
    IF ~InRange(address, total) THEN "RANGE"
    ELSE IF WriteOk(faults, address + off, BeatCells(address, total)) THEN "OK"
    ELSE "MEMORY_ERROR"

LastBeat(address, total) == off + BeatCells(address, total) = total

(* One acknowledged beat of the write of `words` at `address`.             *)
WriteBeat(address, words) ==
    LET n == BeatCells(address, Len(words))
    IN  /\ WriteCause(address, Len(words)) = "OK"
        /\ mem' = StorePart(mem, address, words, off, n)
        /\ off' = IF LastBeat(address, Len(words)) THEN 0 ELSE off + n

-----------------------------------------------------------------------------
(* run() and fetch().                                                      *)

(* Mutant: a failure is remembered across submissions.                     *)
WakeKeepsVerdict ==
    /\ pc = "wait" /\ notified
    /\ notified' = FALSE /\ child' = 0 /\ inBatch' = FALSE
    /\ pc' = "header"
    /\ UNCHANGED <<status, reg, active, submissions, diagVars, ok, desc, command, parent,
                   parentCells, cursor,
                   primVars, mem, hostVars>>

Wake == /\ pc = "wait" /\ notified
        /\ notified' = FALSE /\ child' = 0 /\ ok' = TRUE /\ inBatch' = FALSE
        /\ pc' = "header"
        /\ UNCHANGED <<status, reg, active, submissions, diagVars, desc, command, parent,
                       parentCells, cursor,
                       primVars, mem, hostVars>>

(* Mutant: the register is read when the thread gets to it.                *)
FetchAddrUnlatched == IF inBatch THEN cursor ELSE Address

FetchAddr == IF inBatch THEN cursor ELSE active
Available == IF inBatch THEN StreamEnd(parent) - cursor ELSE MaxCells

(* Mutant: a descriptor may run past the bytes that are left.              *)
HeadersPastEnd ==
    {d \in DOMAIN Wires :
        /\ HasHeader(mem, FetchAddr, d)
        /\ DescriptorCells(d) # 0 /\ DescriptorCells(d) <= MaxAddr - FetchAddr}

(* The headers that name a format whose descriptor fits.                   *)
Headers ==
    {d \in DOMAIN Wires :
        /\ HasHeader(mem, FetchAddr, d)
        /\ DescriptorCells(d) # 0 /\ DescriptorCells(d) <= Available
        /\ DescriptorCells(d) <= MaxAddr - FetchAddr}

HeaderCause ==
    IF Available < HeaderCells THEN "INVALID_COMMAND"
    ELSE IF ReadCause(FetchAddr, HeaderCells) # "OK" THEN ReadCause(FetchAddr, HeaderCells)
    ELSE IF Headers = {} THEN "INVALID_COMMAND" ELSE "OK"

FetchHeader == /\ pc = "header" /\ HeaderCause = "OK"
               /\ desc' \in Headers
               /\ pc' = "body"
               /\ UNCHANGED <<mmioVars, diagVars, ok, command, parent, parentCells, inBatch, batchVars,
                              primVars, mem, hostVars>>

HeaderFails == pc = "header" /\ HeaderCause # "OK" /\ Abort(HeaderCause)

BodyCause ==
    LET body  == FetchAddr + HeaderCells
        cells == DescriptorCells(desc) - HeaderCells
    IN  IF ReadCause(body, cells) # "OK" THEN ReadCause(body, cells)
        ELSE IF HasBody(mem, FetchAddr, desc) /\ Decodes(Wires[desc]) THEN "OK"
        ELSE "INVALID_COMMAND"

BodyFails == pc = "body" /\ BodyCause # "OK" /\ Abort(BodyCause)

FetchBody == /\ pc = "body" /\ BodyCause = "OK"
             /\ command' = Fields(Wires[desc])
             /\ pc' = "dispatch"
             /\ UNCHANGED <<mmioVars, diagVars, ok, desc, parent, parentCells, inBatch, batchVars,
                            primVars, mem, hostVars>>

(* Where primitive() starts, its outputs those of the functional model on  *)
(* the memory it finds.                                                    *)
BeginPrimitive == /\ pc' = "prim" /\ elem' = 0 /\ off' = 0
                  /\ results' = [i \in 0..command.out.length - 1 |->
                                    OutputResult(command, i, mem, faults)]

RunPrimitive == /\ pc = "dispatch" /\ ~inBatch /\ command.kind # "batch"
                /\ BeginPrimitive
                /\ UNCHANGED <<mmioVars, diagVars, ok, fetchVars, batchVars, scan, mem, hostVars>>

-----------------------------------------------------------------------------
(* batch() and protect().                                                  *)

(* The batch is admitted only with its record clear of the child stream    *)
(* and of the descriptor itself; until then nothing is written.            *)
Admit == /\ pc = "dispatch" /\ ~inBatch /\ command.kind = "batch"
         /\ Admitted(command, active, DescriptorCells(desc))
         /\ parent' = command /\ parentCells' = DescriptorCells(desc) /\ inBatch' = TRUE
         /\ cursor' = command.stream /\ child' = 0
         /\ pc' = "next"
         /\ UNCHANGED <<mmioVars, diagVars, ok, desc, command, primVars, mem, hostVars>>

(* A refused parent_ is kept by the code too, but nothing reads it.         *)
AdmitFails == /\ pc = "dispatch" /\ ~inBatch /\ command.kind = "batch"
              /\ ~Admitted(command, active, DescriptorCells(desc))
              /\ Abort(IF \/ command.bytes > MaxAddr - command.stream
                          \/ PairCells > MaxAddr - command.result
                       THEN "RANGE" ELSE "INVALID_COMMAND")

(* A child: a nested batch is refused, a primitive has its outputs checked. *)
NestedBatch == /\ pc = "dispatch" /\ inBatch /\ command.kind = "batch"
               /\ Abort("INVALID_COMMAND")

BeginProtect == /\ pc = "dispatch" /\ inBatch /\ command.kind # "batch"
                /\ pc' = "protect" /\ scan' = 0
                /\ UNCHANGED <<mmioVars, diagVars, ok, fetchVars, batchVars, elem, off, results,
                               mem, hostVars>>

NextChild == /\ pc = "next" /\ child < parent.count
             /\ pc' = "header"
             /\ UNCHANGED <<mmioVars, diagVars, ok, fetchVars, batchVars, primVars, mem, hostVars>>

(* All children ran: bytes left over in the stream fail the parent.         *)
StreamDone == /\ pc = "next" /\ child = parent.count /\ cursor = StreamEnd(parent)
              /\ pc' = "record" /\ off' = 0
              /\ UNCHANGED <<mmioVars, diagVars, ok, fetchVars, batchVars, scan, elem, results,
                             mem, hostVars>>

TrailingBytes == /\ pc = "next" /\ child = parent.count /\ cursor # StreamEnd(parent)
                 /\ Abort("INVALID_COMMAND")

OutputElement(i) == OutAddr(command, i)
Width == OutWidth(command.out.kind)

(* Does output element i meet the child stream or the parent descriptor?   *)
HitsStream(i) ==
    Overlaps(OutputElement(i), OutputElement(i) + Width, parent.stream, StreamEnd(parent))
HitsParent(i) ==
    Overlaps(OutputElement(i), OutputElement(i) + Width, active, active + parentCells)

(* Mutant: only the stream is protected.                                   *)
ProtectStreamOnly ==
    /\ pc = "protect" /\ scan < command.out.length
    /\ ~HitsStream(scan)
    /\ scan' = scan + 1
    /\ UNCHANGED <<mmioVars, diagVars, pc, ok, fetchVars, batchVars, elem, off, results,
                   mem, hostVars>>

Protect == /\ pc = "protect" /\ scan < command.out.length
           /\ ~HitsStream(scan) /\ ~HitsParent(scan)
           /\ scan' = scan + 1
           /\ UNCHANGED <<mmioVars, diagVars, pc, ok, fetchVars, batchVars, elem, off, results,
                          mem, hostVars>>

ProtectFails == /\ pc = "protect" /\ scan < command.out.length
                /\ HitsStream(scan) \/ HitsParent(scan)
                /\ Abort("INVALID_COMMAND")

ProtectDone == /\ pc = "protect" /\ scan = command.out.length
               /\ BeginPrimitive
               /\ UNCHANGED <<mmioVars, diagVars, ok, fetchVars, batchVars, scan, mem, hostVars>>

-----------------------------------------------------------------------------
(* primitive(): outputs in order, each value the functional one.           *)

PrimWrite == /\ pc = "prim" /\ elem < command.out.length
             /\ results[elem].ok
             /\ WriteBeat(OutputElement(elem), ResultWords(command, results[elem]))
             /\ elem' = IF LastBeat(OutputElement(elem), Width) THEN elem + 1 ELSE elem
             /\ UNCHANGED <<mmioVars, diagVars, pc, ok, fetchVars, batchVars, scan, results, hostVars>>

PrimWriteFails == /\ pc = "prim" /\ elem < command.out.length
                  /\ results[elem].ok
                  /\ WriteCause(OutputElement(elem), Width) # "OK"
                  /\ Abort(WriteCause(OutputElement(elem), Width))

(* An operand of some output still to come cannot be read, or its sum is   *)
(* no cost: which is met first, and when, is the schedule's.               *)
PrimFails == /\ pc = "prim" /\ off = 0
             /\ \E i \in elem..command.out.length - 1 : ~results[i].ok
             /\ \E c \in {"RANGE", "MEMORY_ERROR", "DEVICE_ERROR"} : Abort(c)

PrimDone == /\ pc = "prim" /\ elem = command.out.length
            /\ \/ /\ inBatch
                  /\ child' = child + 1 /\ cursor' = cursor + DescriptorCells(desc)
                  /\ pc' = "next"
               \/ /\ ~inBatch
                  /\ pc' = "drain" /\ UNCHANGED batchVars
            /\ UNCHANGED <<mmioVars, diagVars, ok, fetchVars, primVars, mem, hostVars>>

-----------------------------------------------------------------------------
(* The batch record and the end of run().                                  *)

RecordWords == <<child, IF ok THEN NoFailure ELSE child>>

Record == /\ pc = "record"
          /\ WriteBeat(parent.result, RecordWords)
          /\ pc' = IF LastBeat(parent.result, PairCells) THEN "drain" ELSE "record"
          /\ UNCHANGED <<mmioVars, diagVars, ok, fetchVars, batchVars, scan, elem, results, hostVars>>

RecordFails == /\ pc = "record" /\ WriteCause(parent.result, PairCells) # "OK"
               /\ Diagnose(WriteCause(parent.result, PairCells))
               /\ ok' = FALSE /\ off' = 0 /\ pc' = "drain"
               /\ UNCHANGED <<mmioVars, fetchVars, batchVars, scan, elem, results, mem, hostVars>>

(* The thread is at wait(doorbell_) again before anyone can see STATUS.    *)
Finish == /\ pc = "drain"
          /\ status' = IF ok THEN "DONE" ELSE "ERROR"
          /\ pc' = "wait"
          /\ scan' = 0 /\ elem' = 0 /\ results' = <<>> /\ mem0' = mem
          /\ UNCHANGED <<reg, active, notified, submissions, diagVars, ok, fetchVars, batchVars,
                         off, mem, faults>>

Thread == \/ Wake \/ FetchHeader \/ HeaderFails \/ FetchBody \/ BodyFails \/ RunPrimitive
          \/ Admit \/ AdmitFails \/ NestedBatch
          \/ NextChild \/ StreamDone \/ TrailingBytes \/ BeginProtect
          \/ Protect \/ ProtectFails \/ ProtectDone
          \/ PrimWrite \/ PrimWriteFails \/ PrimFails \/ PrimDone
          \/ Record \/ RecordFails \/ Finish

Next == Host \/ Thread

Spec     == Init /\ [][Next]_vars
FairSpec == Spec /\ WF_vars(Thread)

-----------------------------------------------------------------------------
(* Properties.                                                             *)

Causes == {"OK", "RANGE", "INVALID_COMMAND", "MEMORY_ERROR", "DEVICE_ERROR"}
PCs    == {"wait", "header", "body", "dispatch", "next", "protect", "prim", "record", "drain"}

TypeOK == /\ status \in {"IDLE", "BUSY", "DONE", "ERROR"}
          /\ reg \in [lo : Nat, hi : Nat] /\ active \in Nat
          /\ notified \in BOOLEAN /\ submissions \in Nat
          /\ cause \in Causes /\ diagChild \in Nat
          /\ pc \in PCs /\ inBatch \in BOOLEAN /\ ok \in BOOLEAN
          /\ desc \in DOMAIN Wires /\ parentCells \in Nat
          /\ cursor \in Nat /\ child \in Nat
          /\ scan \in Nat /\ elem \in Nat /\ off \in 0..PairCells - 1
          /\ DOMAIN mem = Ram /\ DOMAIN mem0 = Ram
          /\ faults \in [read : SUBSET Ram, write : SUBSET Ram]

(* MAS invariants 10 and 15, protect() and the test of batch(): while a    *)
(* batch runs, neither its own descriptor nor any byte of its child stream *)
(* is changed, so every child is decoded as the host submitted it.         *)
ProtectedCells == parent.stream..StreamEnd(parent) - 1
                  \cup active..active + parentCells - 1
DescriptorsIntact ==
    status = "BUSY" /\ inBatch => \A x \in ProtectedCells \cap Ram : mem[x] = mem0[x]

(* MAS invariant 2: fetch() gets stream_end_ - cursor_ as an unsigned      *)
(* size, so the cursor stays inside the child stream and no child beyond   *)
(* the count is started.                                                   *)
CursorInStream ==
    status = "BUSY" /\ inBatch => /\ parent.stream <= cursor /\ cursor <= StreamEnd(parent)
                                  /\ child <= parent.count

(* MAS invariant 12, fail() and record(): when run() ends, the diagnostic  *)
(* is set exactly if the submission failed, and a record that could be     *)
(* written agrees with it: {count, UINT32_MAX}, or twice the index of the  *)
(* failed child.                                                           *)
DiagnosticTruth ==
    pc = "drain" =>
      /\ ok <=> cause = "OK"
      /\ inBatch /\ WriteOk(faults, parent.result, PairCells) =>
           /\ mem[parent.result] = IF ok THEN parent.count ELSE diagChild
           /\ mem[parent.result + 1] = IF ok THEN NoFailure ELSE diagChild

(* MAS invariant 1, b_transport and run(): the device is BUSY exactly      *)
(* while a doorbell is pending or the thread is working, and never both,   *)
(* so no doorbell can be accepted that the thread would miss.              *)
BusyIffWorking == /\ status = "BUSY" <=> notified \/ pc # "wait"
                  /\ ~(notified /\ pc # "wait")

(* MAS invariants 11, 13 and 14: the submission latched at the doorbell    *)
(* ends in the status and the memory the functional model computes, except *)
(* for the cells an error leaves unspecified.                              *)
Port == INSTANCE IsaContract WITH
          reg <- Address, active <- IF status = "BUSY" THEN active ELSE 0,
          mem <- IF status = "BUSY" THEN mem0 ELSE mem
RefinesIsa == Port!IsaSpec

(* run(): an accepted doorbell ends in DONE or ERROR whatever the          *)
(* descriptors and the memory faults are.                                  *)
Completes == status = "BUSY" ~> status \in {"DONE", "ERROR"}
=============================================================================
