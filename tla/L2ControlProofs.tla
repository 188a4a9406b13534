-------------------------- MODULE L2ControlProofs --------------------------
(***************************************************************************)
(* Safety of L2Control for every memory, descriptor set, beat width and    *)
(* register width, and its refinement of the functional model.             *)
(*                                                                         *)
(* The inductive invariant says what each point of run() may rely on: a    *)
(* submission is in progress exactly while the thread is away from its     *)
(* wait, the command is the decoded descriptor, the batch was admitted,    *)
(* the child fits in what is left of the stream, and the outputs compared  *)
(* so far are clear of the descriptors.  The second half of the module     *)
(* adds where the functional model is meanwhile, and shows that the result *)
(* it computes at once is the one the thread arrives at step by step.      *)
(***************************************************************************)
EXTENDS L2Control, AcceleratorOpsProofs

-----------------------------------------------------------------------------
(* The inductive invariant.                                                *)

Fetched  == pc \in {"body", "dispatch", "protect", "prim"}

(* The command is the decoded descriptor, and of a child it ends inside    *)
(* the stream.                                                             *)
FetchOK ==
    /\ Fetched => DescriptorCells(desc) # 0
    /\ pc \in {"dispatch", "protect", "prim"} => command = Fields(Wires[desc])
    /\ pc \in {"protect", "prim"} => command.kind # "batch"
    /\ Fetched /\ inBatch => cursor + DescriptorCells(desc) <= StreamEnd(parent)
    /\ inBatch /\ (Fetched \/ pc = "header") => child < parent.count

(* The batch: its fields, its admission, and how far it has come.          *)
BatchOK ==
    /\ pc \in {"next", "protect", "record"} => inBatch
    /\ inBatch => /\ BatchFields(parent)
                  /\ pc # "wait" => Admitted(parent, active, parentCells)
                  /\ parent.stream <= cursor /\ cursor <= StreamEnd(parent)
                  /\ child <= parent.count

(* The outputs already compared are clear of stream and parent.            *)
Clear(i) == ~HitsStream(i) /\ ~HitsParent(i)
ScanOK ==
    inBatch => /\ pc = "protect" => \A i \in 0..scan - 1 : Clear(i)
               /\ pc = "prim" => \A i \in 0..command.out.length - 1 : Clear(i)
OffOK == pc = "prim" => off < Width

(* Nothing is written before a command is dispatched.                      *)
Untouched == pc = "wait" \/ (~inBatch /\ pc \in {"header", "body", "dispatch"})
MemOK == /\ Untouched => mem = mem0
         /\ inBatch => \A x \in ProtectedCells \cap Ram : mem[x] = mem0[x]

IInv == TypeOK /\ BusyIffWorking /\ FetchOK /\ BatchOK /\ ScanOK /\ OffOK /\ MemOK

-----------------------------------------------------------------------------
(* Facts about the operators of the actions.                               *)

(* The output view of the command being checked or run has natural fields, *)
(* and elements of one or two cells.                                       *)
LEMMA OutputType ==
  ASSUME IInv, pc \in {"protect", "prim"}
  PROVE  /\ OutputFields(command)
         /\ \A i \in Nat : OutputElement(i) \in Nat
         /\ Width \in {1, 2}
  <1>1. OutputFields(command)
    BY FieldsType DEF IInv, FetchOK, Fetched, TypeOK
  <1>2. Width \in {1, 2}
    BY DEF Width, OutWidth, PairCells
  <1>3. ASSUME NEW i \in Nat PROVE OutputElement(i) \in Nat
    BY <1>1, <1>2 DEF OutputElement, OutAddr, OutputFields, Width
  <1>4. QED BY <1>1, <1>2, <1>3

(* A beat is not empty and stays within the write.                         *)
LEMMA BeatBound ==
  ASSUME NEW address \in Nat, NEW total \in Nat, off \in Nat, off < total
  PROVE  BeatCells(address, total) \in 1..total - off
  <1>1. ASSUME NEW a \in Nat PROVE a % MemCells \in 0..MemCells - 1
    BY L2Assumption
  <1>2. QED BY <1>1, L2Assumption DEF BeatCells

(* One beat changes memory inside the write only, and counts its cells.    *)
LEMMA BeatEffect ==
  ASSUME NEW address \in Nat, NEW words, NEW total \in {1, 2}, Len(words) = total,
         off \in Nat, off < total, DOMAIN mem = Ram, WriteBeat(address, words)
  PROVE  /\ DOMAIN mem' = Ram
         /\ \A x \in Ram : x \notin address..address + total - 1 => mem'[x] = mem[x]
         /\ off' \in 0..total - 1
         /\ LastBeat(address, total) => off' = 0
  <1> DEFINE n == BeatCells(address, total)
  <1>1. n \in 1..total - off
    BY BeatBound
  <1>2. mem' = [x \in Ram |-> IF x \in address + off..address + off + n - 1
                              THEN words[x - address + 1] ELSE mem[x]]
    BY DEF WriteBeat, StorePart
  <1>3. off' = IF off + n = total THEN 0 ELSE off + n
    BY DEF WriteBeat, LastBeat
  <1>4. Ram \subseteq Nat
    BY RamAssumption, WidthAssumption
  <1> HIDE DEF n
  <1>5. \A x \in Ram : x \notin address..address + total - 1 => mem'[x] = mem[x]
    <2> SUFFICES ASSUME NEW x \in Ram, x \notin address..address + total - 1
                 PROVE  mem'[x] = mem[x]
      OBVIOUS
    <2>1. x \in Int
      BY <1>4
    <2>2. x \notin address + off..address + off + n - 1
      BY <2>1, <1>1
    <2>3. QED BY <2>2, <1>2
  <1>6. QED BY <1>1, <1>2, <1>3, <1>5 DEF LastBeat, n

(* Whatever fails, fails with one of the causes fail() is called with.     *)
LEMMA CausesType ==
  /\ HeaderCause \in Causes /\ BodyCause \in Causes
  /\ \A address, total : WriteCause(address, total) \in Causes
  BY DEF HeaderCause, BodyCause, WriteCause, ReadCause, Causes

(* What an aborted step leaves of the invariant.                           *)
LEMMA AbortType ==
  ASSUME TypeOK, NEW c \in Causes, Abort(c)
  PROVE  TypeOK'
  <1>1. pc' \in PCs
    BY DEF Abort, PCs
  <1>2. ok' \in BOOLEAN /\ off' = 0
    BY DEF Abort
  <1>3. cause' \in Causes /\ diagChild' \in Nat
    BY DEF Abort, Diagnose, TypeOK
  <1>4. UNCHANGED <<mmioVars, fetchVars, batchVars, scan, elem, results, mem, hostVars>>
    BY DEF Abort
  <1>5. QED BY <1>1, <1>2, <1>3, <1>4
              DEF TypeOK, PairCells, mmioVars, fetchVars, batchVars, hostVars

-----------------------------------------------------------------------------
(* Type correctness.                                                       *)

(* No step of the host or of the thread leaves the types.                  *)
LEMMA TypeStep == IInv /\ [Next]_vars => TypeOK'
  <1> SUFFICES ASSUME IInv, [Next]_vars PROVE TypeOK'
    OBVIOUS
  <1> USE DEF mmioVars, diagVars, fetchVars, batchVars, primVars, hostVars
  <1>0. TypeOK
    BY DEF IInv
  <1>1. CASE UNCHANGED vars
    BY <1>0, <1>1 DEF TypeOK, vars
  <1>2. CASE WriteLo \/ WriteHi
    <2>1. reg' \in [lo : Nat, hi : Nat]
      BY <1>0, <1>2, L2Assumption DEF TypeOK, WriteLo, WriteHi
    <2>2. UNCHANGED <<status, active, notified, submissions, diagVars, pc, ok,
                      fetchVars, batchVars, primVars, mem, hostVars>>
      BY <1>2 DEF WriteLo, WriteHi
    <2>3. QED BY <1>0, <2>1, <2>2 DEF TypeOK
  <1>3. CASE Doorbell
    <2>1. active' \in Nat
      BY <1>0, <1>3, L2Assumption DEF Doorbell, TypeOK, Address
    <2>2. QED BY <1>0, <1>3, <2>1 DEF TypeOK, Doorbell, Causes
  <1>4. CASE HostPrepare
    <2>1. DOMAIN mem' = Ram /\ DOMAIN mem0' = Ram /\ faults' \in [read : SUBSET Ram, write : SUBSET Ram]
      BY <1>4, L2Assumption DEF HostPrepare
    <2>2. QED BY <1>0, <1>4, <2>1 DEF TypeOK, HostPrepare
  <1>5. CASE Wake
    BY <1>0, <1>5 DEF TypeOK, Wake, PCs
  <1>6. CASE FetchHeader
    <2>1. desc' \in DOMAIN Wires
      BY <1>6 DEF FetchHeader, Headers
    <2>2. QED BY <1>0, <1>6, <2>1 DEF TypeOK, FetchHeader, PCs
  <1>7. CASE HeaderFails
    BY <1>0, <1>7, CausesType, AbortType DEF HeaderFails
  <1>8. CASE FetchBody
    BY <1>0, <1>8 DEF TypeOK, FetchBody, PCs
  <1>9. CASE BodyFails
    BY <1>0, <1>9, CausesType, AbortType DEF BodyFails
  <1>10. CASE RunPrimitive
    BY <1>0, <1>10 DEF TypeOK, RunPrimitive, BeginPrimitive, PCs, PairCells
  <1>11. CASE Admit
    <2>1. command.stream \in Nat
      BY <1>11, FieldsType DEF Admit, IInv, FetchOK, Fetched, TypeOK, BatchFields
    <2>2. parentCells' \in Nat
      BY <1>0, <1>11, CellsBound DEF Admit, TypeOK
    <2>3. QED BY <1>0, <1>11, <2>1, <2>2 DEF TypeOK, Admit, PCs
  <1>12. CASE AdmitFails
    <2>1. PICK c \in Causes : Abort(c)
      BY <1>12 DEF AdmitFails, Causes
    <2>2. QED BY <1>0, <2>1, AbortType
  <1>13. CASE NestedBatch \/ TrailingBytes \/ ProtectFails
    <2>1. Abort("INVALID_COMMAND")
      BY <1>13 DEF NestedBatch, TrailingBytes, ProtectFails
    <2>2. QED BY <1>0, <2>1, AbortType DEF Causes
  <1>14. CASE BeginProtect
    BY <1>0, <1>14 DEF TypeOK, BeginProtect, PCs
  <1>15. CASE NextChild
    BY <1>0, <1>15 DEF TypeOK, NextChild, PCs
  <1>16. CASE StreamDone
    BY <1>0, <1>16 DEF TypeOK, StreamDone, PCs, PairCells
  <1>17. CASE Protect
    BY <1>0, <1>17 DEF TypeOK, Protect
  <1>18. CASE ProtectDone
    BY <1>0, <1>18 DEF TypeOK, ProtectDone, BeginPrimitive, PCs, PairCells
  <1>19. CASE PrimWrite
    <2> DEFINE words == ResultWords(command, results[elem])
    <2>1. Len(words) = Width
      BY DEF ResultWords, Width, OutWidth, PairCells
    <2>2. OutputElement(elem) \in Nat /\ Width \in {1, 2} /\ off < Width /\ off \in Nat
      BY <1>0, <1>19, OutputType DEF PrimWrite, IInv, OffOK, TypeOK, PairCells
    <2>3. WriteBeat(OutputElement(elem), words)
      BY <1>19 DEF PrimWrite
    <2> HIDE DEF words
    <2>m. DOMAIN mem = Ram
      BY <1>0 DEF TypeOK
    <2>w. DOMAIN mem' = Ram /\ off' \in 0..Width - 1
      BY <2>1, <2>2, <2>3, <2>m, BeatEffect
    <2>4. DOMAIN mem' = Ram /\ off' \in 0..PairCells - 1
      BY <2>2, <2>w DEF PairCells
    <2>5. elem' \in Nat
      BY <1>0, <1>19 DEF PrimWrite, TypeOK
    <2>6. QED BY <1>0, <1>19, <2>4, <2>5 DEF TypeOK, PrimWrite
  <1>20. CASE PrimWriteFails
    BY <1>0, <1>20, CausesType, AbortType DEF PrimWriteFails
  <1>21. CASE PrimFails
    <2>1. PICK c \in {"RANGE", "MEMORY_ERROR", "DEVICE_ERROR"} : Abort(c)
      BY <1>21 DEF PrimFails
    <2>2. c \in Causes
      BY DEF Causes
    <2>3. QED BY <1>0, <2>1, <2>2, AbortType
  <1>22. CASE PrimDone
    <2>1. child' \in Nat /\ cursor' \in Nat
      BY <1>0, <1>22, CellsBound DEF TypeOK, PrimDone
    <2>2. pc' \in PCs
      BY <1>22 DEF PrimDone, PCs
    <2>3. QED BY <1>0, <1>22, <2>1, <2>2 DEF TypeOK, PrimDone
  <1>23. CASE Record
    <2>1. parent.result \in Nat /\ Len(RecordWords) = PairCells /\ off < PairCells /\ off \in Nat
      BY <1>0, <1>23 DEF Record, IInv, BatchOK, BatchFields, RecordWords, TypeOK, PairCells
    <2>2. WriteBeat(parent.result, RecordWords)
      BY <1>23 DEF Record
    <2>3. DOMAIN mem' = Ram /\ off' \in 0..PairCells - 1
      BY <1>0, <2>1, <2>2, BeatEffect DEF TypeOK, PairCells
    <2>4. pc' \in PCs
      BY <1>23 DEF Record, PCs
    <2>5. QED BY <1>0, <1>23, <2>3, <2>4 DEF TypeOK, Record
  <1>24. CASE RecordFails
    <2>1. cause' \in Causes /\ diagChild' \in Nat
      BY <1>0, <1>24, CausesType DEF RecordFails, Diagnose, TypeOK
    <2>2. pc' \in PCs /\ ok' \in BOOLEAN /\ off' = 0
      BY <1>24 DEF RecordFails, PCs
    <2>3. UNCHANGED <<mmioVars, fetchVars, batchVars, scan, elem, results, mem, hostVars>>
      BY <1>24 DEF RecordFails
    <2>4. QED BY <1>0, <2>1, <2>2, <2>3 DEF TypeOK, PairCells
  <1>25. CASE Finish
    BY <1>0, <1>25 DEF TypeOK, Finish, PCs
  <1>26. QED
    BY <1>1, <1>2, <1>3, <1>4, <1>5, <1>6, <1>7, <1>8, <1>9, <1>10, <1>11, <1>12, <1>13, <1>14,
       <1>15, <1>16, <1>17, <1>18, <1>19, <1>20, <1>21, <1>22, <1>23, <1>24, <1>25
    DEF Next, Host, Thread

-----------------------------------------------------------------------------
(* The other conjuncts.  Steps that fail are alike: they leave everything  *)
(* but the verdict and the diagnostic alone.                               *)

Fails == \/ HeaderFails \/ BodyFails \/ AdmitFails \/ NestedBatch
         \/ TrailingBytes \/ ProtectFails \/ PrimWriteFails \/ PrimFails

(* All the failing steps have the effect of Abort.                         *)
LEMMA FailsEffect ==
  ASSUME Fails
  PROVE  /\ pc # "wait"
         /\ pc' = IF inBatch THEN "record" ELSE "drain"
         /\ UNCHANGED <<mmioVars, fetchVars, batchVars, scan, elem, results, mem, hostVars>>
  <1>1. pc # "wait"
    BY DEF Fails, HeaderFails, BodyFails, AdmitFails, NestedBatch, TrailingBytes, ProtectFails,
           PrimWriteFails, PrimFails
  <1>2. \E c : Abort(c)
    BY DEF Fails, HeaderFails, BodyFails, AdmitFails, NestedBatch, TrailingBytes, ProtectFails,
           PrimWriteFails, PrimFails
  <1>3. QED BY <1>1, <1>2 DEF Abort

(* Who is BUSY.                                                            *)
LEMMA BusyStep == IInv /\ [Next]_vars => BusyIffWorking'
  <1> SUFFICES ASSUME IInv, [Next]_vars PROVE BusyIffWorking'
    OBVIOUS
  <1> USE DEF mmioVars
  <1>0. BusyIffWorking /\ TypeOK
    BY DEF IInv
  <1>1. CASE UNCHANGED vars \/ WriteLo \/ WriteHi \/ HostPrepare
    BY <1>0, <1>1 DEF vars, WriteLo, WriteHi, HostPrepare, BusyIffWorking
  <1>2. CASE Doorbell
    BY <1>0, <1>2 DEF Doorbell, BusyIffWorking
  <1>3. CASE Wake
    BY <1>0, <1>3 DEF Wake, BusyIffWorking
  <1>4. CASE Fails
    BY <1>0, <1>4, FailsEffect DEF BusyIffWorking
  <1>5. CASE \/ FetchHeader \/ FetchBody \/ RunPrimitive \/ Admit \/ BeginProtect \/ NextChild
             \/ StreamDone \/ Protect \/ ProtectDone \/ PrimWrite
    <2>1. pc # "wait" /\ pc' # "wait" /\ UNCHANGED <<status, notified>>
      BY <1>5 DEF FetchHeader, FetchBody, RunPrimitive, BeginPrimitive, Admit, BeginProtect,
         NextChild, StreamDone, Protect, ProtectDone, PrimWrite
    <2>2. QED BY <1>0, <2>1 DEF BusyIffWorking
  <1>6. CASE PrimDone \/ Record \/ RecordFails
    BY <1>0, <1>6 DEF PrimDone, Record, RecordFails, BusyIffWorking
  <1>7. CASE Finish
    BY <1>0, <1>7 DEF Finish, BusyIffWorking, TypeOK
  <1>8. QED
    BY <1>1, <1>2, <1>3, <1>4, <1>5, <1>6, <1>7 DEF Next, Host, Thread, Fails

-----------------------------------------------------------------------------
(* A batch stays admitted, its cursor in the stream.                       *)
LEMMA BatchStep == IInv /\ [Next]_vars => BatchOK'
  <1> SUFFICES ASSUME IInv, [Next]_vars PROVE BatchOK'
    OBVIOUS
  <1> USE DEF mmioVars, fetchVars, batchVars
  <1>0. BatchOK /\ BusyIffWorking /\ TypeOK /\ FetchOK
    BY DEF IInv
  <1>1. CASE UNCHANGED vars \/ WriteLo \/ WriteHi \/ HostPrepare
    BY <1>0, <1>1 DEF vars, WriteLo, WriteHi, HostPrepare, BatchOK
  <1>2. CASE Doorbell
    BY <1>0, <1>2 DEF Doorbell, BatchOK, BusyIffWorking
  <1>3. CASE Wake
    BY <1>3 DEF Wake, BatchOK
  <1>4. CASE Fails
    BY <1>0, <1>4, FailsEffect DEF BatchOK
  <1>5. CASE \/ FetchHeader \/ FetchBody \/ RunPrimitive \/ BeginProtect \/ NextChild
             \/ StreamDone \/ Protect \/ ProtectDone \/ PrimWrite
    BY <1>0, <1>5 DEF FetchHeader, FetchBody, RunPrimitive, BeginPrimitive, BeginProtect,
       NextChild, StreamDone, Protect, ProtectDone, PrimWrite, BatchOK
  <1>6. CASE Record \/ RecordFails \/ Finish
    BY <1>0, <1>6 DEF Record, RecordFails, Finish, BatchOK
  <1>7. CASE Admit
    <2>1. BatchFields(command)
      BY <1>0, <1>7, FieldsType DEF Admit, FetchOK, Fetched, TypeOK
    <2>2. BatchFields(parent')
      BY <1>7, <2>1 DEF Admit
    <2>3. Admitted(parent, active, parentCells)'
      BY <1>7 DEF Admit, Admitted, StreamEnd
    <2>4. /\ parent'.stream <= cursor' /\ cursor' <= StreamEnd(parent')
          /\ child' <= parent'.count
      BY <1>7, <2>1 DEF Admit, StreamEnd, BatchFields
    <2>5. inBatch'
      BY <1>7 DEF Admit
    <2>6. QED BY <2>2, <2>3, <2>4, <2>5 DEF BatchOK
  <1>8. CASE PrimDone
    <2>1. CASE ~inBatch
      BY <1>8, <2>1 DEF PrimDone, BatchOK
    <2>2. CASE inBatch
      <3>1. /\ cursor' = cursor + DescriptorCells(desc) /\ child' = child + 1
            /\ pc' = "next" /\ inBatch' = inBatch /\ parent' = parent
            /\ active' = active /\ parentCells' = parentCells
        BY <1>8, <2>2 DEF PrimDone
      <3>2. cursor + DescriptorCells(desc) <= StreamEnd(parent) /\ child < parent.count
        BY <1>0, <1>8, <2>2 DEF PrimDone, FetchOK, Fetched
      <3>3. DescriptorCells(desc) \in Nat /\ cursor \in Nat /\ child \in Nat /\ parent.count \in Nat
            /\ parent.stream \in Nat
        BY <1>0, <2>2, CellsBound DEF TypeOK, BatchOK, BatchFields
      <3>4. parent.stream <= cursor' /\ cursor' <= StreamEnd(parent) /\ child' <= parent.count
        BY <1>0, <2>2, <3>1, <3>2, <3>3 DEF BatchOK
      <3>5. BatchFields(parent) /\ Admitted(parent, active, parentCells)
        BY <1>0, <1>8, <2>2 DEF BatchOK, PrimDone
      <3>6. QED BY <2>2, <3>1, <3>4, <3>5 DEF BatchOK
    <2>3. QED BY <1>0, <2>1, <2>2 DEF TypeOK
  <1>9. QED
    BY <1>1, <1>2, <1>3, <1>4, <1>5, <1>6, <1>7, <1>8 DEF Next, Host, Thread, Fails

-----------------------------------------------------------------------------
(* The command and the room left for it.                                   *)
LEMMA FetchStep == IInv /\ [Next]_vars => FetchOK'
  <1> SUFFICES ASSUME IInv, [Next]_vars PROVE FetchOK'
    OBVIOUS
  <1> USE DEF mmioVars, fetchVars, batchVars, Fetched
  <1>0. BatchOK /\ BusyIffWorking /\ TypeOK /\ FetchOK
    BY DEF IInv
  <1>1. CASE UNCHANGED vars \/ WriteLo \/ WriteHi \/ HostPrepare
    BY <1>0, <1>1 DEF vars, WriteLo, WriteHi, HostPrepare, FetchOK
  <1>2. CASE Doorbell
    BY <1>0, <1>2 DEF Doorbell, FetchOK, BusyIffWorking
  <1>3. CASE Wake
    BY <1>3 DEF Wake, FetchOK
  <1>4. CASE Fails
    BY <1>0, <1>4, FailsEffect DEF FetchOK
  <1>5. CASE FetchHeader
    <2>1. /\ desc' \in DOMAIN Wires /\ DescriptorCells(desc') # 0
          /\ DescriptorCells(desc') <= Available
      BY <1>5 DEF FetchHeader, Headers
    <2>2. inBatch => cursor + DescriptorCells(desc') <= StreamEnd(parent)
      <3> SUFFICES ASSUME inBatch PROVE cursor + DescriptorCells(desc') <= StreamEnd(parent)
        OBVIOUS
      <3>1. Available = StreamEnd(parent) - cursor
        BY DEF Available
      <3>2. StreamEnd(parent) \in Nat /\ cursor \in Nat /\ DescriptorCells(desc') \in Nat
        BY <1>0, <2>1, CellsBound DEF BatchOK, BatchFields, StreamEnd, TypeOK
      <3>3. QED BY <2>1, <3>1, <3>2
    <2>3. inBatch => child < parent.count
      BY <1>0, <1>5 DEF FetchHeader, FetchOK
    <2>4. pc' = "body" /\ UNCHANGED <<inBatch, cursor, child, parent>>
      BY <1>5 DEF FetchHeader
    <2>5. QED BY <2>1, <2>2, <2>3, <2>4 DEF FetchOK
  <1>6. CASE FetchBody
    BY <1>0, <1>6 DEF FetchBody, FetchOK
  <1>7. CASE RunPrimitive \/ BeginProtect \/ Protect \/ ProtectDone \/ PrimWrite
    BY <1>0, <1>7 DEF RunPrimitive, BeginPrimitive, BeginProtect, Protect, ProtectDone, PrimWrite,
       FetchOK
  <1>8. CASE Admit \/ StreamDone \/ PrimDone \/ Record \/ RecordFails \/ Finish
    BY <1>0, <1>8 DEF Admit, StreamDone, PrimDone, Record, RecordFails, Finish, FetchOK
  <1>9. CASE NextChild
    BY <1>0, <1>9 DEF NextChild, FetchOK
  <1>10. QED
    BY <1>1, <1>2, <1>3, <1>4, <1>5, <1>6, <1>7, <1>8, <1>9 DEF Next, Host, Thread, Fails

-----------------------------------------------------------------------------
(* Outputs are compared before they are written.                           *)
LEMMA ClearFrame ==
  ASSUME UNCHANGED <<command, parent, parentCells, active>>, NEW i
  PROVE  Clear(i)' <=> Clear(i)
  BY DEF Clear, HitsStream, HitsParent, OutputElement, Width

(* protect() has compared every output before primitive() writes it.       *)
LEMMA ScanStep == IInv /\ [Next]_vars => ScanOK' /\ OffOK'
  <1> SUFFICES ASSUME IInv, [Next]_vars PROVE ScanOK' /\ OffOK'
    OBVIOUS
  <1> USE DEF mmioVars, fetchVars, batchVars, primVars
  <1>0. ScanOK /\ OffOK /\ TypeOK /\ BatchOK /\ FetchOK /\ BusyIffWorking
    BY DEF IInv
  <1>1. CASE UNCHANGED vars \/ WriteLo \/ WriteHi
    <2>1. UNCHANGED <<command, parent, parentCells, active, pc, inBatch, scan, off>>
      BY <1>1 DEF vars, WriteLo, WriteHi
    <2>2. QED BY <1>0, <2>1, ClearFrame DEF ScanOK, OffOK, Width
  <1>2. CASE Doorbell \/ HostPrepare
    <2>1. pc' = "wait"
      BY <1>0, <1>2 DEF Doorbell, HostPrepare, BusyIffWorking
    <2>2. QED BY <2>1 DEF ScanOK, OffOK
  <1>3. CASE \/ Wake \/ FetchHeader \/ FetchBody \/ Admit \/ NextChild \/ StreamDone
             \/ PrimDone \/ Record \/ RecordFails \/ Finish
    <2>1. pc' \notin {"protect", "prim"}
      BY <1>3 DEF Wake, FetchHeader, FetchBody, Admit, NextChild, StreamDone, PrimDone, Record,
                  RecordFails, Finish
    <2>2. QED BY <2>1 DEF ScanOK, OffOK
  <1>4. CASE Fails
    <2>1. pc' \notin {"protect", "prim"}
      BY <1>4, FailsEffect
    <2>2. QED BY <2>1 DEF ScanOK, OffOK
  <1>5. CASE RunPrimitive
    <2>1. pc' = "prim" /\ off' = 0 /\ ~inBatch'
      BY <1>5 DEF RunPrimitive, BeginPrimitive
    <2>2. QED BY <2>1 DEF ScanOK, OffOK, Width, OutWidth, PairCells
  <1>6. CASE BeginProtect
    <2>1. pc' = "protect" /\ scan' = 0
      BY <1>6 DEF BeginProtect
    <2>2. QED BY <2>1 DEF ScanOK, OffOK
  <1>7. CASE Protect
    <2>1. /\ pc = "protect" /\ pc' = "protect" /\ scan' = scan + 1 /\ Clear(scan)
          /\ UNCHANGED <<command, parent, parentCells, active, inBatch>>
      BY <1>7 DEF Protect, Clear
    <2>2. inBatch /\ scan \in Nat
      BY <1>0, <2>1 DEF BatchOK, TypeOK
    <2>3. \A i \in 0..scan : Clear(i)
      BY <1>0, <2>1, <2>2 DEF ScanOK
    <2>4. \A i \in 0..scan' - 1 : Clear(i)'
      BY <2>1, <2>2, <2>3, ClearFrame
    <2>5. QED BY <2>1, <2>4 DEF ScanOK, OffOK
  <1>8. CASE ProtectDone
    <2>1. /\ pc = "protect" /\ pc' = "prim" /\ off' = 0 /\ scan = command.out.length
          /\ UNCHANGED <<command, parent, parentCells, active, inBatch>>
      BY <1>8 DEF ProtectDone, BeginPrimitive
    <2>2. inBatch
      BY <1>0, <2>1 DEF BatchOK
    <2>3. \A i \in 0..command.out.length - 1 : Clear(i)
      BY <1>0, <2>1, <2>2 DEF ScanOK
    <2>4. \A i \in 0..command'.out.length - 1 : Clear(i)'
      BY <2>1, <2>3, ClearFrame
    <2>5. QED BY <2>1, <2>4 DEF ScanOK, OffOK, Width, OutWidth, PairCells
  <1>9. CASE PrimWrite
    <2> DEFINE words == ResultWords(command, results[elem])
    <2>1. Len(words) = Width
      BY DEF ResultWords, Width, OutWidth, PairCells
    <2>2. OutputElement(elem) \in Nat /\ Width \in {1, 2} /\ off < Width /\ off \in Nat
      BY <1>0, <1>9, OutputType DEF PrimWrite, OffOK, TypeOK, PairCells
    <2>3. WriteBeat(OutputElement(elem), words) /\ DOMAIN mem = Ram
      BY <1>0, <1>9 DEF PrimWrite, TypeOK
    <2> HIDE DEF words
    <2>4. off' \in 0..Width - 1
      BY <2>1, <2>2, <2>3, BeatEffect
    <2>5. pc = "prim" /\ pc' = "prim" /\ UNCHANGED <<command, parent, parentCells, active, inBatch>>
      BY <1>9 DEF PrimWrite
    <2>6. Width' = Width
      BY <2>5 DEF Width
    <2>7. OffOK'
      BY <2>2, <2>4, <2>6 DEF OffOK
    <2>8. ScanOK'
      BY <1>0, <2>5, ClearFrame DEF ScanOK
    <2>9. QED BY <2>7, <2>8
  <1>10. QED
    BY <1>1, <1>2, <1>3, <1>4, <1>5, <1>6, <1>7, <1>8, <1>9 DEF Next, Host, Thread, Fails

-----------------------------------------------------------------------------
(* Writes stay clear of the descriptors.                                   *)

(* While a batch runs, no beat changes a cell of a descriptor.             *)
LEMMA MemStep == IInv /\ [Next]_vars => MemOK'
  <1> SUFFICES ASSUME IInv, [Next]_vars PROVE MemOK'
    OBVIOUS
  <1> USE DEF mmioVars, fetchVars, batchVars, primVars, hostVars
  <1>0. MemOK /\ TypeOK /\ BatchOK /\ FetchOK /\ ScanOK /\ OffOK /\ BusyIffWorking
    BY DEF IInv
  <1>f. ASSUME UNCHANGED <<parent, parentCells, active>> PROVE ProtectedCells' = ProtectedCells
    BY <1>f DEF ProtectedCells
  <1>1. CASE UNCHANGED vars \/ WriteLo \/ WriteHi
    <2>1. UNCHANGED <<parent, parentCells, active, pc, inBatch, mem, mem0>>
      BY <1>1 DEF vars, WriteLo, WriteHi
    <2>2. QED BY <1>0, <1>f, <2>1 DEF MemOK, Untouched
  <1>2. CASE Doorbell \/ HostPrepare \/ Finish
    <2>1. mem' = mem0'
      BY <1>2 DEF Doorbell, HostPrepare, Finish
    <2>2. QED BY <2>1 DEF MemOK
  <1>3. CASE Wake \/ Admit
    <2>1. mem = mem0 /\ UNCHANGED <<mem, mem0>>
      BY <1>0, <1>3 DEF Wake, Admit, MemOK, Untouched
    <2>2. QED BY <2>1 DEF MemOK
  <1>4. CASE Fails
    <2>1. ~Untouched' /\ UNCHANGED <<parent, parentCells, active, inBatch, mem, mem0>>
      BY <1>4, FailsEffect DEF Untouched
    <2>2. QED BY <1>0, <1>f, <2>1 DEF MemOK
  <1>5. CASE \/ FetchHeader \/ FetchBody \/ RunPrimitive \/ BeginProtect \/ NextChild
             \/ StreamDone \/ Protect \/ ProtectDone \/ PrimDone \/ RecordFails
    <2>1. (Untouched' => Untouched) /\ UNCHANGED <<parent, parentCells, active, inBatch, mem, mem0>>
      BY <1>0, <1>5 DEF FetchHeader, FetchBody, RunPrimitive, BeginPrimitive, BeginProtect, NextChild,
         StreamDone, Protect, ProtectDone, PrimDone, RecordFails, Untouched, BatchOK
    <2>2. QED BY <1>0, <1>f, <2>1 DEF MemOK
  <1>6. CASE PrimWrite
    <2> DEFINE words == ResultWords(command, results[elem])
               address == OutputElement(elem)
    <2>1. Len(words) = Width
      BY DEF ResultWords, Width, OutWidth, PairCells
    <2>2. /\ address \in Nat /\ Width \in {1, 2} /\ off < Width /\ off \in Nat
          /\ command.out.length \in Nat /\ elem \in Nat /\ elem < command.out.length
      BY <1>0, <1>6, OutputType DEF PrimWrite, OffOK, TypeOK, PairCells, OutputFields
    <2>3. WriteBeat(address, words) /\ DOMAIN mem = Ram
      BY <1>0, <1>6 DEF PrimWrite, TypeOK
    <2>4. /\ pc = "prim" /\ pc' = "prim"
          /\ UNCHANGED <<command, parent, parentCells, active, inBatch, mem0>>
      BY <1>6 DEF PrimWrite
    <2>5. \A x \in Ram : x \notin address..address + Width - 1 => mem'[x] = mem[x]
      <3> HIDE DEF words, address
      <3>1. QED BY <2>1, <2>2, <2>3, BeatEffect
    <2>6. ASSUME inBatch, NEW x \in ProtectedCells \cap Ram
          PROVE  x \notin address..address + Width - 1
      <3>1. ~HitsStream(elem) /\ ~HitsParent(elem)
        BY <1>0, <2>2, <2>4, <2>6 DEF ScanOK, Clear
      <3>2. /\ parent.stream \in Nat /\ StreamEnd(parent) \in Nat
            /\ active \in Nat /\ parentCells \in Nat
        BY <1>0, <2>6 DEF BatchOK, BatchFields, StreamEnd, TypeOK
      <3>3. CASE x \in parent.stream..StreamEnd(parent) - 1
        BY <2>2, <3>1, <3>2, <3>3 DEF HitsStream, Overlaps
      <3>4. CASE x \in active..active + parentCells - 1
        BY <2>2, <3>1, <3>2, <3>4 DEF HitsParent, Overlaps
      <3>5. QED BY <2>6, <3>3, <3>4 DEF ProtectedCells
    <2>7. QED BY <1>0, <1>f, <2>4, <2>5, <2>6 DEF MemOK, Untouched
  <1>7. CASE Record
    <2>1. /\ inBatch /\ parent.result \in Nat /\ parent.stream \in Nat
          /\ StreamEnd(parent) \in Nat /\ active \in Nat /\ parentCells \in Nat
          /\ Admitted(parent, active, parentCells)
      BY <1>0, <1>7 DEF Record, BatchOK, BatchFields, StreamEnd, TypeOK
    <2>2. Len(RecordWords) = 2 /\ off < 2 /\ off \in Nat /\ DOMAIN mem = Ram
      BY <1>0 DEF RecordWords, TypeOK, PairCells
    <2>3. WriteBeat(parent.result, RecordWords)
      BY <1>7 DEF Record
    <2>4. \A x \in Ram : x \notin parent.result..parent.result + 2 - 1 => mem'[x] = mem[x]
      BY <2>1, <2>2, <2>3, BeatEffect
    <2>5. ASSUME NEW x \in ProtectedCells PROVE x \notin parent.result..parent.result + 2 - 1
      <3>1. /\ ~Overlaps(parent.result, parent.result + 2, parent.stream, StreamEnd(parent))
            /\ ~Overlaps(parent.result, parent.result + 2, active, active + parentCells)
        BY <2>1 DEF Admitted, PairCells
      <3>2. CASE x \in parent.stream..StreamEnd(parent) - 1
        BY <2>1, <3>1, <3>2 DEF Overlaps
      <3>3. CASE x \in active..active + parentCells - 1
        BY <2>1, <3>1, <3>3 DEF Overlaps
      <3>4. QED BY <3>2, <3>3 DEF ProtectedCells
    <2>6. ~Untouched' /\ UNCHANGED <<parent, parentCells, active, inBatch, mem0>>
      BY <1>7 DEF Record, Untouched
    <2>7. QED BY <1>0, <1>f, <2>1, <2>4, <2>5, <2>6 DEF MemOK
  <1>8. QED
    BY <1>1, <1>2, <1>3, <1>4, <1>5, <1>6, <1>7 DEF Next, Host, Thread, Fails

-----------------------------------------------------------------------------
(* The verdict and the diagnostic.                                         *)

(* Success claims every child, a failure the child that failed.            *)
Told == IF ok THEN child = parent.count ELSE diagChild = child

(* The verdict follows the diagnostic from the doorbell on, the record is  *)
(* written from words that do not change between its beats, and where it   *)
(* can be written it has been when run() ends.                             *)
VerdictOK ==
    /\ notified => cause = "OK"
    /\ pc # "wait" => (ok <=> cause = "OK")
    /\ pc \notin {"wait", "record", "drain"} => ok
    /\ pc = "record" => /\ Told
                        /\ off # 0 /\ parent.result \in Ram => mem[parent.result] = child
    /\ pc = "drain" /\ inBatch /\ WriteOk(faults, parent.result, PairCells) =>
         /\ Told
         /\ mem[parent.result] = child
         /\ mem[parent.result + 1] = IF ok THEN NoFailure ELSE child

(* fail() is never called with OK, so the first failure sets the           *)
(* diagnostic, to the child being run.                                     *)
LEMMA FailsDiagnose ==
  ASSUME Fails, cause = "OK"
  PROVE  cause' # "OK" /\ diagChild' = child /\ ~ok' /\ off' = 0
  <1>1. PICK c : Abort(c) /\ c # "OK"
    BY DEF Fails, HeaderFails, BodyFails, AdmitFails, NestedBatch, TrailingBytes, ProtectFails,
           PrimWriteFails, PrimFails
  <1>2. QED BY <1>1 DEF Abort, Diagnose

(* A record whose cells can all be written is never refused: an admitted   *)
(* batch has it in range, and memory is clear of the device's registers.   *)
LEMMA RecordWritable ==
  ASSUME NEW result \in Nat, PairCells <= MaxAddr - result, off \in 0..1,
         WriteOk(faults, result, PairCells)
  PROVE  WriteCause(result, PairCells) = "OK"
  <1> USE DEF PairCells
  <1>1. result \in Ram /\ result + 1 \in Ram
    BY DEF WriteOk
  <1>2. result # 0
    BY <1>1, RamAssumption
  <1>3. ~Overlaps(result, result + 2, Mmio.base, Mmio.base + Mmio.cells)
    <2>1. Mmio.base \in Nat /\ Mmio.cells \in Nat \ {0}
      BY L2Assumption
    <2>2. \A x \in Ram : x \notin Mmio.base..Mmio.base + Mmio.cells - 1
      BY L2Assumption
    <2>3. QED BY <1>1, <2>1, <2>2 DEF Overlaps
  <1>4. InRange(result, 2)
    BY <1>2, <1>3 DEF InRange
  <1>5. BeatCells(result, 2) \in 1..2 - off
    BY BeatBound
  <1>6. WriteOk(faults, result + off, BeatCells(result, 2))
    <2> DEFINE n == BeatCells(result, 2)
    <2> HIDE DEF n
    <2>1. n \in 1..2 - off
      BY <1>5 DEF n
    <2>2. \A x \in result + off..result + off + n - 1 : x \in result..result + 2 - 1
      BY <2>1
    <2>3. QED BY <2>2 DEF WriteOk, n
  <1>7. QED BY <1>4, <1>6 DEF WriteCause

(* One beat of the record: its first word, its second, or both.            *)
LEMMA RecordBeat ==
  ASSUME NEW result \in Nat, NEW first, NEW second, off \in 0..1, DOMAIN mem = Ram,
         off # 0 /\ result \in Ram => mem[result] = first,
         WriteBeat(result, <<first, second>>)
  PROVE  /\ result \in Ram => mem'[result] = first
         /\ LastBeat(result, PairCells) /\ result + 1 \in Ram => mem'[result + 1] = second
  <1> DEFINE n == BeatCells(result, 2)
  <1>1. n \in 1..2 - off
    BY BeatBound
  <1>2. mem' = [x \in Ram |-> IF x \in result + off..result + off + n - 1
                              THEN <<first, second>>[x - result + 1] ELSE mem[x]]
    BY DEF WriteBeat, StorePart
  <1>3. LastBeat(result, PairCells) <=> off + n = 2
    BY DEF LastBeat, PairCells
  <1> HIDE DEF n
  <1>4. result \in Ram => mem'[result] = first
    <2> SUFFICES ASSUME result \in Ram PROVE mem'[result] = first
      OBVIOUS
    <2>1. CASE off = 0
      BY <1>1, <1>2, <2>1
    <2>2. CASE off = 1
      BY <1>1, <1>2, <2>2
    <2>3. QED BY <2>1, <2>2
  <1>5. ASSUME off + n = 2, result + 1 \in Ram PROVE mem'[result + 1] = second
    <2>1. result + 1 \in result + off..result + off + n - 1
      BY <1>1, <1>5
    <2>2. mem'[result + 1] = <<first, second>>[(result + 1) - result + 1]
      BY <1>2, <1>5, <2>1
    <2>3. (result + 1) - result + 1 = 2
      OBVIOUS
    <2>4. QED BY <2>2, <2>3
  <1>6. QED BY <1>3, <1>4, <1>5

(* Every step of the host and of the thread keeps the verdict honest.      *)
LEMMA VerdictStep == IInv /\ VerdictOK /\ [Next]_vars => VerdictOK'
  <1> SUFFICES ASSUME IInv, VerdictOK, [Next]_vars PROVE VerdictOK'
    OBVIOUS
  <1> USE DEF mmioVars, diagVars, fetchVars, batchVars, primVars, hostVars
  <1>0. BatchOK /\ BusyIffWorking /\ TypeOK /\ FetchOK
    BY DEF IInv
  <1>1. CASE UNCHANGED vars \/ WriteLo \/ WriteHi
    <2>1. UNCHANGED <<notified, cause, diagChild, pc, ok, inBatch, off, mem, child, parent, faults>>
      BY <1>1 DEF vars, WriteLo, WriteHi
    <2>2. QED BY <2>1 DEF VerdictOK, Told, WriteOk
  <1>2. CASE Doorbell \/ HostPrepare
    <2>1. pc' = "wait" /\ (notified' => cause' = "OK")
      BY <1>0, <1>2 DEF Doorbell, HostPrepare, BusyIffWorking, VerdictOK
    <2>2. QED BY <2>1 DEF VerdictOK
  <1>3. CASE Wake
    <2>1. ~notified' /\ ok' /\ pc' = "header" /\ cause' = "OK"
      BY <1>3 DEF Wake, VerdictOK
    <2>2. QED BY <2>1 DEF VerdictOK
  <1>4. CASE \/ FetchHeader \/ FetchBody \/ RunPrimitive \/ Admit \/ BeginProtect \/ NextChild
             \/ Protect \/ ProtectDone \/ PrimWrite
    <2>1. /\ pc \notin {"wait", "record", "drain"} /\ pc' \notin {"wait", "record", "drain"}
          /\ UNCHANGED <<notified, cause, ok>>
      BY <1>4 DEF FetchHeader, FetchBody, RunPrimitive, BeginPrimitive, Admit, BeginProtect,
                  NextChild, Protect, ProtectDone, PrimWrite
    <2>2. QED BY <2>1 DEF VerdictOK
  <1>5. CASE PrimDone
    <2>1. pc = "prim" /\ UNCHANGED <<notified, cause, ok, inBatch>>
      BY <1>5 DEF PrimDone
    <2>2. ok /\ cause = "OK"
      BY <2>1 DEF VerdictOK
    <2>3. pc' = "next" \/ (~inBatch /\ pc' = "drain")
      BY <1>5 DEF PrimDone
    <2>4. QED BY <2>1, <2>2, <2>3 DEF VerdictOK
  <1>6. CASE StreamDone
    <2>1. /\ pc = "next" /\ child = parent.count /\ pc' = "record" /\ off' = 0
          /\ UNCHANGED <<notified, cause, diagChild, ok, child, parent>>
      BY <1>6 DEF StreamDone
    <2>2. ok /\ cause = "OK"
      BY <2>1 DEF VerdictOK
    <2>3. QED BY <2>1, <2>2 DEF VerdictOK, Told
  <1>7. CASE Fails
    <2>1. /\ pc' = (IF inBatch THEN "record" ELSE "drain")
          /\ UNCHANGED <<notified, child, parent, inBatch, mem, faults>>
      BY <1>7, FailsEffect
    <2>2. pc \notin {"wait", "record", "drain"}
      BY <1>7 DEF Fails, HeaderFails, BodyFails, AdmitFails, NestedBatch, TrailingBytes,
                  ProtectFails, PrimWriteFails, PrimFails
    <2>3. cause = "OK"
      BY <2>2 DEF VerdictOK
    <2>4. cause' # "OK" /\ diagChild' = child /\ ~ok' /\ off' = 0 /\ ~notified'
      BY <1>0, <1>7, <2>1, <2>2, <2>3, FailsDiagnose DEF BusyIffWorking
    <2>5. QED BY <2>1, <2>4 DEF VerdictOK, Told
  <1>8. CASE Record
    <2>1. /\ pc = "record" /\ inBatch /\ parent.result \in Nat /\ off \in 0..1 /\ DOMAIN mem = Ram
      BY <1>0, <1>8 DEF Record, BatchOK, BatchFields, TypeOK, PairCells
    <2>2. /\ WriteBeat(parent.result, RecordWords)
          /\ pc' = (IF LastBeat(parent.result, PairCells) THEN "drain" ELSE "record")
          /\ UNCHANGED <<notified, cause, diagChild, ok, child, parent, inBatch, faults>>
      BY <1>8 DEF Record
    <2>3. /\ Told /\ (ok <=> cause = "OK") /\ (notified => cause = "OK")
          /\ off # 0 /\ parent.result \in Ram => mem[parent.result] = child
      BY <2>1 DEF VerdictOK
    <2>4. /\ parent.result \in Ram => mem'[parent.result] = child
          /\ LastBeat(parent.result, PairCells) /\ parent.result + 1 \in Ram =>
               mem'[parent.result + 1] = IF ok THEN NoFailure ELSE child
      BY <2>1, <2>2, <2>3, RecordBeat DEF RecordWords
    <2>5. ASSUME WriteOk(faults, parent.result, PairCells)
          PROVE  parent.result \in Ram /\ parent.result + 1 \in Ram
      BY <2>1, <2>5 DEF WriteOk, PairCells
    <2>6. Told' /\ (ok' <=> cause' = "OK") /\ (notified' => cause' = "OK")
      BY <2>2, <2>3 DEF Told
    <2>7. WriteOk(faults, parent.result, PairCells)' => WriteOk(faults, parent.result, PairCells)
      BY <2>2 DEF WriteOk
    <2>8. QED BY <2>2, <2>4, <2>5, <2>6, <2>7 DEF VerdictOK, NoFailure
  <1>9. CASE RecordFails
    <2>1. /\ pc = "record" /\ inBatch /\ parent.result \in Nat /\ off \in 0..1
          /\ Admitted(parent, active, parentCells)
      BY <1>0, <1>9 DEF RecordFails, BatchOK, BatchFields, TypeOK, PairCells
    <2>2. /\ WriteCause(parent.result, PairCells) # "OK"
          /\ Diagnose(WriteCause(parent.result, PairCells))
          /\ ~ok' /\ pc' = "drain" /\ UNCHANGED <<notified, parent, inBatch, faults>>
      BY <1>9 DEF RecordFails
    <2>3. ~WriteOk(faults, parent.result, PairCells)
      BY <2>1, <2>2, RecordWritable DEF Admitted
    <2>4. ~WriteOk(faults, parent.result, PairCells)'
      BY <2>2, <2>3 DEF WriteOk
    <2>5. cause' # "OK" /\ ~notified'
      BY <1>0, <2>1, <2>2 DEF Diagnose, BusyIffWorking
    <2>6. QED BY <2>2, <2>4, <2>5 DEF VerdictOK
  <1>10. CASE Finish
    <2>1. pc' = "wait" /\ UNCHANGED <<notified, cause>>
      BY <1>10 DEF Finish
    <2>2. QED BY <2>1 DEF VerdictOK
  <1>11. QED
    BY <1>1, <1>2, <1>3, <1>4, <1>5, <1>6, <1>7, <1>8, <1>9, <1>10
       DEF Next, Host, Thread, Fails

-----------------------------------------------------------------------------
(* The theorems.                                                           *)

(* The reset state satisfies the inductive invariant.                      *)
LEMMA Initially == Init => IInv
  <1> SUFFICES ASSUME Init PROVE IInv
    OBVIOUS
  <1>1. TypeOK
    <2>1. DOMAIN mem = Ram /\ DOMAIN mem0 = Ram /\ faults \in [read : SUBSET Ram, write : SUBSET Ram]
      BY L2Assumption DEF Init
    <2>2. reg \in [lo : Nat, hi : Nat]
      BY DEF Init
    <2>3. /\ status = "IDLE" /\ cause = "OK" /\ pc = "wait" /\ desc = 1
          /\ notified \in BOOLEAN /\ ok \in BOOLEAN /\ inBatch \in BOOLEAN
          /\ active = 0 /\ submissions = 0 /\ diagChild = 0 /\ parentCells = 0 /\ cursor = 0
          /\ child = 0 /\ scan = 0 /\ elem = 0 /\ off = 0
      BY DEF Init
    <2>4. desc \in DOMAIN Wires
      BY <2>3, WiresAssumption
    <2>5. QED BY <2>1, <2>2, <2>3, <2>4 DEF TypeOK, Causes, PCs, PairCells
  <1>2. BusyIffWorking /\ FetchOK /\ BatchOK /\ ScanOK /\ OffOK /\ MemOK
    <2>1. pc = "wait" /\ inBatch = FALSE /\ status = "IDLE" /\ notified = FALSE /\ mem0 = mem
      BY DEF Init
    <2>2. QED BY <2>1 DEF BusyIffWorking, FetchOK, Fetched, BatchOK, ScanOK, OffOK, MemOK
  <1>3. QED BY <1>1, <1>2 DEF IInv

(* Every step, of the host or of the thread, preserves it.                 *)
LEMMA Inductive == IInv /\ [Next]_vars => IInv'
  BY TypeStep, BusyStep, FetchStep, BatchStep, ScanStep, MemStep DEF IInv

(* The inductive invariant holds throughout: what b_transport, run, fetch, *)
(* batch and protect maintain together.                                    *)
THEOREM AlwaysIInv == Spec => []IInv
  BY Initially, Inductive, PTL DEF Spec

(* The state of b_transport and run() keeps its types: in particular a     *)
(* write never stops short of, or runs past, the words it has to store.    *)
THEOREM TypeCorrect == Spec => []TypeOK
  <1>1. IInv => TypeOK
    BY DEF IInv
  <1>2. QED BY <1>1, AlwaysIInv, PTL

(* b_transport and run(): no accepted doorbell is missed, and none is      *)
(* accepted while the thread works.                                        *)
THEOREM NoLostDoorbell == Spec => []BusyIffWorking
  <1>1. IInv => BusyIffWorking
    BY DEF IInv
  <1>2. QED BY <1>1, AlwaysIInv, PTL

(* fetch() and batch(): the bytes left in the stream are never negative.   *)
THEOREM CursorStaysInStream == Spec => []CursorInStream
  <1>1. IInv => CursorInStream
    BY DEF IInv, BatchOK, CursorInStream
  <1>2. QED BY <1>1, AlwaysIInv, PTL

(* protect() and batch(): whatever the descriptors say, no write of a      *)
(* batch reaches its own descriptor or its child stream.                   *)
THEOREM DescriptorsNeverOverwritten == Spec => []DescriptorsIntact
  <1>1. IInv => DescriptorsIntact
    BY DEF IInv, MemOK, DescriptorsIntact
  <1>2. QED BY <1>1, AlwaysIInv, PTL

(* fail(), record() and run(): a submission ends with a diagnostic exactly *)
(* if it failed, and a record that could be written tells the same story.  *)
THEOREM DiagnosticIsTrue == Spec => []DiagnosticTruth
  <1>1. Init => VerdictOK
    BY DEF Init, VerdictOK
  <1>2. IInv /\ VerdictOK => DiagnosticTruth
    BY DEF VerdictOK, Told, DiagnosticTruth
  <1>3. QED BY <1>1, <1>2, VerdictStep, AlwaysIInv, PTL DEF Spec

-----------------------------------------------------------------------------
(* The simulation: where the functional model is while the thread works.   *)
(* It runs the whole submission at once from the memory at the doorbell;   *)
(* what it has after each child, and within a child after each output, are *)
(* the values of its two loops.                                            *)

WalkOf(b, a, m, fs) ==
    CHOOSE f : Children(b, a, m, fs) = f[b.count] /\ Walk(b, a, m, fs, f)

walk   == WalkOf(parent, active, mem0, faults)
last   == walk[parent.count]
done   == Execute(active, mem0, faults)
Before == IF inBatch THEN walk[child].mem ELSE mem0
stored == OutputsOf(command, Before, faults)

Working == {"header", "body", "dispatch", "next", "protect", "prim"}

MemoriesOK == MemoryOf(mem) /\ MemoryOf(mem0)

(* The batch being run is the one the functional model runs.               *)
ParentOK ==
    inBatch /\ pc # "wait" => /\ parentCells = EncodedSize(parent)
                              /\ done = RecordBatch(parent, last, faults)

(* Its children so far are those of the functional model.                  *)
WalkOK ==
    inBatch /\ pc \in Working =>
      /\ walk[child] = [ok |-> TRUE, mem |-> Before, loose |-> {}, cursor |-> cursor,
                        done |-> child]
      /\ MemoryOf(Before)

(* Between children memory is what they left of it, and the descriptor     *)
(* fetched is the one found there.                                         *)
FoundOK ==
    /\ pc \in Working \ {"prim"} => mem = Before
    /\ pc = "body" => HeaderCause = "OK" /\ desc \in Headers
    /\ pc \in {"dispatch", "protect", "prim"} =>
         desc \in CommandAt(Before, faults, FetchAddr, Available)

(* Within a primitive: the outputs before elem are stored, and the first   *)
(* `off` words of the next one.                                            *)
PrimOK ==
    pc = "prim" =>
      /\ elem <= command.out.length /\ (elem = command.out.length => off = 0)
      /\ \A i \in 0..command.out.length - 1 :
           results[i] = OutputResult(command, i, Before, faults)
      /\ stored[elem].ok
      /\ mem = StorePart(stored[elem].mem, OutputElement(elem),
                         ResultWords(command, results[elem]), 0, off)
      /\ WriteOk(faults, OutputElement(elem), off)

(* At the record: the batch ended as it did for the functional model, and  *)
(* the first `off` words of the record are written.                        *)
RecordOK ==
    pc = "record" =>
      /\ ok <=> last.ok /\ last.cursor = StreamEnd(parent)
      /\ last.done = child /\ MemoryOf(last.mem)
      /\ \A x \in Ram \ last.loose : x \notin parent.result..parent.result + off - 1 =>
                                       mem[x] = last.mem[x]
      /\ \A x \in parent.result..parent.result + off - 1 :
           x \in Ram \ faults.write /\ mem[x] = RecordWords[x - parent.result + 1]

(* At the end: so did the submission.                                      *)
DrainOK ==
    pc = "drain" => /\ ok <=> done.ok
                    /\ \A x \in Ram \ done.loose : mem[x] = done.mem[x]

SimOK == MemoriesOK /\ ParentOK /\ WalkOK /\ FoundOK /\ PrimOK /\ RecordOK /\ DrainOK

-----------------------------------------------------------------------------
(* Facts about the operators.                                              *)

(* The children of a batch are the last value of their loop.               *)
LEMMA WalkIs ==
  ASSUME NEW b, NEW a, NEW m, NEW fs, BatchFields(b)
  PROVE  /\ Children(b, a, m, fs) = WalkOf(b, a, m, fs)[b.count]
         /\ Walk(b, a, m, fs, WalkOf(b, a, m, fs))
  BY BatchLoop DEF WalkOf

(* Memory is clear of the device's registers.                              *)
LEMMA ClearOfMmio ==
  ASSUME NEW address \in Nat, NEW cells \in Nat, cells # 0, cells <= MaxAddr - address,
         \A x \in address..address + cells - 1 : x \in Ram
  PROVE  InRange(address, cells)
  <1>1. Mmio.base \in Nat /\ Mmio.cells \in Nat /\ Mmio.cells # 0
    BY L2Assumption
  <1>2. \A x \in Ram : x \notin Mmio.base..Mmio.base + Mmio.cells - 1
    BY L2Assumption
  <1>3. address \in Ram
    OBVIOUS
  <1>4. address # 0
    BY <1>3, RamAssumption
  <1>5. ASSUME Overlaps(address, address + cells, Mmio.base, Mmio.base + Mmio.cells) PROVE FALSE
    <2>1. CASE address >= Mmio.base
      BY <1>1, <1>2, <1>3, <1>5, <2>1 DEF Overlaps
    <2>2. CASE address < Mmio.base
      <3>1. Mmio.base \in address..address + cells - 1
        BY <1>1, <1>5, <2>2 DEF Overlaps
      <3>2. Mmio.base \in Mmio.base..Mmio.base + Mmio.cells - 1
        BY <1>1
      <3>3. QED BY <3>1, <3>2, <1>2
    <2>3. QED BY <1>1, <2>1, <2>2
  <1>6. QED BY <1>4, <1>5 DEF InRange

(* What the functional model reads lies in RAM, so the bus of the          *)
(* structural model answers it with a success too.                         *)
LEMMA Readable ==
  ASSUME NEW address \in Nat, NEW cells \in Nat, cells # 0, cells <= MaxAddr - address,
         ReadOk(faults, address, cells)
  PROVE  ReadCause(address, cells) = "OK"
  <1>1. \A x \in address..address + cells - 1 : x \in Ram
    BY DEF ReadOk
  <1>2. QED BY <1>1, ClearOfMmio DEF ReadCause

(* fetch() reads the header and then the body; read_command of the         *)
(* functional model finds a descriptor exactly if neither fails.           *)
LEMMA FetchAddrType == IInv /\ pc \in Working => FetchAddr \in Nat /\ Available \in Int
  BY DEF IInv, TypeOK, BatchOK, BatchFields, FetchAddr, Available, StreamEnd, MaxCells

(* A header fetch() cannot read is no command for read_command.            *)
LEMMA NoHeader ==
  ASSUME IInv, pc = "header", HeaderCause # "OK"
  PROVE  CommandAt(mem, faults, FetchAddr, Available) = {}
  <1> SUFFICES ASSUME NEW d \in CommandAt(mem, faults, FetchAddr, Available) PROVE FALSE
    OBVIOUS
  <1>1. FetchAddr \in Nat /\ Available \in Int
    BY FetchAddrType DEF Working
  <1>2. /\ d \in Accepted /\ Available >= HeaderCells /\ ReadOk(faults, FetchAddr, HeaderCells)
        /\ HasHeader(mem, FetchAddr, d) /\ DescriptorCells(d) # 0
        /\ DescriptorCells(d) <= Available /\ DescriptorCells(d) <= MaxAddr - FetchAddr
    BY DEF CommandAt
  <1>3. d \in DOMAIN Wires /\ DescriptorCells(d) \in 8..MaxCells
    BY <1>2, AcceptedIs
  <1>4. d \in Headers
    BY <1>2, <1>3 DEF Headers
  <1>5. HeaderCells \in Nat /\ HeaderCells # 0 /\ HeaderCells <= MaxAddr - FetchAddr
    BY <1>1, <1>2, <1>3, WidthAssumption DEF HeaderCells, MaxCells
  <1>6. ReadCause(FetchAddr, HeaderCells) = "OK"
    BY <1>1, <1>2, <1>5, Readable
  <1>7. ~(Available < HeaderCells)
    BY <1>1, <1>2 DEF HeaderCells
  <1>8. QED BY <1>4, <1>6, <1>7 DEF HeaderCause

(* Nor is a body it cannot read or decode.                                 *)
LEMMA NoBody ==
  ASSUME IInv, pc = "body", desc \in Headers, BodyCause # "OK"
  PROVE  CommandAt(mem, faults, FetchAddr, Available) = {}
  <1> SUFFICES ASSUME NEW d \in CommandAt(mem, faults, FetchAddr, Available) PROVE FALSE
    OBVIOUS
  <1>1. FetchAddr \in Nat
    BY FetchAddrType DEF Working
  <1>2. /\ d \in Accepted /\ HasHeader(mem, FetchAddr, d)
        /\ DescriptorCells(d) <= MaxAddr - FetchAddr
        /\ ReadOk(faults, FetchAddr + HeaderCells, DescriptorCells(d) - HeaderCells)
        /\ HasBody(mem, FetchAddr, d)
    BY DEF CommandAt
  <1>3. d \in DOMAIN Wires /\ DescriptorCells(d) \in 8..MaxCells /\ Decodes(Wires[d])
    BY <1>2, AcceptedIs DEF Accepted
  <1>4. d = desc
    <2>1. HasHeader(mem, FetchAddr, desc) /\ desc \in DOMAIN Wires
      BY DEF Headers
    <2>2. Word(d, 0) = Word(desc, 0)
      BY <1>2, <2>1 DEF HasHeader, HeaderCells
    <2>3. d \in Nat /\ desc \in Nat
      BY <1>3, <2>1, WiresAssumption
    <2>4. QED BY <2>2, <2>3, CostAssumption DEF Word, MaxCells
  <1> DEFINE body == FetchAddr + HeaderCells
             cells == DescriptorCells(d) - HeaderCells
  <1>5. body \in Nat /\ cells \in Nat /\ cells # 0 /\ cells <= MaxAddr - body
    BY <1>1, <1>2, <1>3, WidthAssumption DEF HeaderCells, MaxCells
  <1>6. ReadCause(body, cells) = "OK"
    BY <1>2, <1>5, Readable
  <1>7. QED BY <1>2, <1>3, <1>4, <1>6 DEF BodyCause

(* A descriptor fetch() has read and decoded is one read_command finds.    *)
LEMMA BothRead ==
  ASSUME IInv, pc = "body", HeaderCause = "OK", desc \in Headers, BodyCause = "OK"
  PROVE  desc \in CommandAt(mem, faults, FetchAddr, Available)
  <1>1. /\ Available >= HeaderCells /\ ReadCause(FetchAddr, HeaderCells) = "OK"
    <2>1. Available \in Int
      BY FetchAddrType DEF Working
    <2>2. QED BY <2>1 DEF HeaderCause, HeaderCells
  <1>2. FetchAddr # 0 /\ ReadOk(faults, FetchAddr, HeaderCells)
    BY <1>1 DEF ReadCause, InRange
  <1>3. /\ ReadOk(faults, FetchAddr + HeaderCells, DescriptorCells(desc) - HeaderCells)
        /\ HasBody(mem, FetchAddr, desc) /\ Decodes(Wires[desc])
    BY DEF BodyCause, ReadCause
  <1>4. QED BY <1>1, <1>2, <1>3 DEF CommandAt, Headers, Accepted

-----------------------------------------------------------------------------
(* What the functional model does with the descriptor found.               *)

(* The command is the decoded descriptor, valid and of its own size.       *)
LEMMA CommandIs ==
  ASSUME IInv, SimOK, pc \in {"dispatch", "protect", "prim"}
  PROVE  /\ desc \in Accepted /\ Decoded[desc] = command /\ ValidCommand(command) = "OK"
         /\ EncodedSize(command) = DescriptorCells(desc)
         /\ CommandAt(Before, faults, FetchAddr, Available) = {desc}
         /\ command.kind # "batch" => Views(command) /\ OutputFields(command)
         /\ command.kind = "batch" => BatchFields(command)
  <1>1. desc \in CommandAt(Before, faults, FetchAddr, Available)
    BY DEF SimOK, FoundOK
  <1>2. desc \in Accepted
    BY <1>1 DEF CommandAt
  <1>3. command = Fields(Wires[desc])
    BY DEF IInv, FetchOK
  <1>4. Decoded[desc] = command
    BY <1>2, <1>3, AcceptedIs
  <1>5. CommandAt(Before, faults, FetchAddr, Available) = {desc}
    BY <1>1, OneCommand
  <1>6. QED BY <1>2, <1>4, <1>5, AcceptedIs

(* A submission without a descriptor.                                      *)
LEMMA NothingFound ==
  ASSUME CommandAt(mem0, faults, active, MaxCells) = {}
  PROVE  done = [ok |-> FALSE, mem |-> mem0, loose |-> {}]
  BY DEF done, Execute

(* A descriptor fetched at the address register is what the functional     *)
(* model executes.                                                         *)
LEMMA SubmissionIs ==
  ASSUME IInv, SimOK, ~inBatch, pc \in {"dispatch", "prim"}
  PROVE  done = ExecuteDecoded(command, active, mem0, faults)
  <1>1. CommandAt(mem0, faults, active, MaxCells) = {desc} /\ Decoded[desc] = command
    BY CommandIs DEF Before, FetchAddr, Available
  <1>2. (CHOOSE d \in {desc} : TRUE) = desc
    OBVIOUS
  <1>3. QED BY <1>1, <1>2 DEF done, Execute

(* One more child of the functional model.                                 *)
LEMMA NextWalk ==
  ASSUME IInv, SimOK, inBatch, pc \in Working, child < parent.count
  PROVE  /\ child + 1 \in 0..parent.count
         /\ walk[child + 1] = RunChild(walk[child],
              RunnableAt(parent, active, cursor, Before, faults), faults)
         /\ ~walk[child + 1].ok => last = walk[child + 1]
  <1>1. BatchFields(parent) /\ child \in Nat /\ parent.count \in Nat
    BY DEF IInv, BatchOK, TypeOK, BatchFields
  <1>2. Walk(parent, active, mem0, faults, walk)
    BY <1>1, WalkIs DEF walk
  <1>3. child + 1 \in 1..parent.count /\ (child + 1) - 1 = child /\ child + 1 \in 0..parent.count
    BY <1>1
  <1>4. walk[child + 1] = ChildStep(parent, active, faults, walk[child])
    BY <1>2, <1>3 DEF Walk
  <1>5. walk[child].cursor = cursor /\ walk[child].mem = Before
    BY DEF SimOK, WalkOK
  <1>6. ~walk[child + 1].ok => last = walk[child + 1]
    BY <1>1, <1>2, <1>3, WalkSticks DEF last
  <1>7. QED BY <1>3, <1>4, <1>5, <1>6 DEF ChildStep

(* A child that cannot be run.                                             *)
LEMMA NothingRunnable ==
  ASSUME IInv, SimOK, inBatch, pc \in Working, child < parent.count,
         RunnableAt(parent, active, cursor, Before, faults) = {}
  PROVE  last.ok = FALSE /\ last.mem = Before /\ last.loose = {} /\ last.done = child
  <1>1. walk[child] = [ok |-> TRUE, mem |-> Before, loose |-> {}, cursor |-> cursor,
                       done |-> child]
    BY DEF SimOK, WalkOK
  <1>2. walk[child + 1] = [walk[child] EXCEPT !.ok = FALSE]
    BY <1>1, NextWalk DEF RunChild
  <1>3. /\ walk[child + 1].ok = FALSE /\ walk[child + 1].mem = Before
        /\ walk[child + 1].loose = {} /\ walk[child + 1].done = child
    BY <1>1, <1>2
  <1>4. QED BY <1>3, NextWalk

(* protect() admits the children the functional model runs.                *)
LEMMA ProtectExact ==
  ASSUME IInv, SimOK, inBatch, pc \in {"protect", "prim"}
  PROVE  /\ (\A i \in 0..command.out.length - 1 : Clear(i)) =>
              RunnableAt(parent, active, cursor, Before, faults) = {desc}
         /\ (\E i \in 0..command.out.length - 1 : ~Clear(i)) =>
              RunnableAt(parent, active, cursor, Before, faults) = {}
  <1>1. /\ CommandAt(Before, faults, cursor, StreamEnd(parent) - cursor) = {desc}
        /\ Decoded[desc] = command /\ command.kind # "batch"
        /\ Views(command) /\ ValidCommand(command) = "OK"
    BY CommandIs DEF FetchAddr, Available, IInv, FetchOK
  <1>2. OutEnd(command.out) # 0 /\ Fits16({command.out.length, command.out.stride})
    BY <1>1, OutputsPlaced
  <1>3. /\ ~(parent.stream > StreamEnd(parent)) /\ ~(active > active + EncodedSize(parent))
        /\ parentCells = EncodedSize(parent)
    <2>1. parentCells = EncodedSize(parent) /\ BatchFields(parent) /\ active \in Nat
          /\ parentCells \in Nat
      BY DEF SimOK, ParentOK, IInv, BatchOK, TypeOK
    <2>2. QED BY <2>1 DEF BatchFields, StreamEnd
  <1>4. /\ OutputOverlaps(command, parent.stream, StreamEnd(parent)) <=>
             \E i \in 0..command.out.length - 1 : HitsStream(i)
        /\ OutputOverlaps(command, active, active + EncodedSize(parent)) <=>
             \E i \in 0..command.out.length - 1 : HitsParent(i)
    BY <1>1, <1>2, <1>3 DEF OutputOverlaps, HitsStream, HitsParent, OutputElement, Width
  <1>5. QED BY <1>1, <1>4 DEF RunnableAt, Clear

(* A child that runs.                                                      *)
LEMMA ChildRuns ==
  ASSUME IInv, SimOK, inBatch, pc = "prim"
  PROVE  /\ walk[child + 1] = AfterChild(walk[child], desc,
                                WithLoose(ExecuteCommand(command, Before, faults), command))
         /\ ~walk[child + 1].ok => last = walk[child + 1]
  <1>1. child < parent.count /\ \A i \in 0..command.out.length - 1 : Clear(i)
    BY DEF IInv, FetchOK, Fetched, ScanOK
  <1>2. RunnableAt(parent, active, cursor, Before, faults) = {desc} /\ Decoded[desc] = command
    BY <1>1, ProtectExact, CommandIs
  <1>3. walk[child].ok /\ walk[child].mem = Before
    BY DEF SimOK, WalkOK, Working
  <1>4. (CHOOSE x \in {desc} : TRUE) = desc
    OBVIOUS
  <1>5. walk[child + 1] = RunChild(walk[child], {desc}, faults)
    BY <1>1, <1>2, NextWalk DEF Working
  <1>6. QED BY <1>1, <1>2, <1>3, <1>4, <1>5, NextWalk DEF RunChild, Working

-----------------------------------------------------------------------------
(* Primitives, and the steps that fail.                                    *)

(* The outputs of the primitive being run, before they are stored and as   *)
(* the functional model stores them.                                       *)
LEMMA PrimIs ==
  ASSUME IInv, SimOK, pc = "prim"
  PROVE  /\ Views(command) /\ OutputFields(command) /\ ValidCommand(command) = "OK"
         /\ command.out.length \in Nat /\ elem \in 0..command.out.length
         /\ MemoryOf(Before) /\ OutputLoop(command, Before, faults, stored)
         /\ ExecuteCommand(command, Before, faults) = stored[command.out.length]
         /\ \A i \in 0..command.out.length :
              /\ MemoryOf(stored[i].mem) /\ DOMAIN stored[i] = {"ok", "mem"}
              /\ \A x \in Ram \ OutCells(command) : stored[i].mem[x] = Before[x]
         /\ \A i \in 0..command.out.length - 1 :
              stored[i + 1] = StoreResult(command, i, stored[i], results[i], faults)
  <1> DEFINE n == command.out.length
  <1>1. Views(command) /\ OutputFields(command) /\ ValidCommand(command) = "OK"
    BY CommandIs DEF IInv, FetchOK
  <1>2. n \in Nat /\ elem \in 0..n
    BY <1>1 DEF OutputFields, SimOK, PrimOK, IInv, TypeOK
  <1>3. MemoryOf(Before)
    BY DEF SimOK, MemoriesOK, WalkOK, Before, Working
  <1>4. /\ OutputLoop(command, Before, faults, stored)
        /\ ExecuteCommand(command, Before, faults) = stored[n]
    BY <1>1, OutputsAre DEF stored
  <1>5. ASSUME NEW i \in 0..n
        PROVE  /\ MemoryOf(stored[i].mem) /\ DOMAIN stored[i] = {"ok", "mem"}
               /\ \A x \in Ram \ OutCells(command) : stored[i].mem[x] = Before[x]
    <2>1. Within(stored[i], Before, StoredCells(command, i)) /\ MemoryOf(stored[i].mem)
      BY <1>1, <1>3, <1>4, OutputsSoFar
    <2>2. StoredCells(command, i) \subseteq OutCells(command)
      <3>1. \A j \in 0..i - 1 : j \in 0..n - 1
        BY <1>2
      <3>2. QED BY <3>1 DEF StoredCells, OutCells, OutputCells
    <2>3. DOMAIN Before = Ram
      BY <1>3 DEF MemoryOf
    <2>4. QED BY <2>1, <2>2, <2>3 DEF Within
  <1>6. ASSUME NEW i \in 0..n - 1
        PROVE  stored[i + 1] = StoreResult(command, i, stored[i], results[i], faults)
    <2>1. results[i] = OutputResult(command, i, Before, faults)
      BY DEF SimOK, PrimOK
    <2>2. QED BY <1>1, <1>3, <1>4, <2>1, OutputsIndependent
  <1>7. QED BY <1>1, <1>2, <1>3, <1>4, <1>5, <1>6

(* So far only its outputs have been stored to.                            *)
LEMMA PrimOutside ==
  ASSUME IInv, SimOK, pc = "prim"
  PROVE  \A x \in Ram \ OutCells(command) : mem[x] = Before[x]
  <1> SUFFICES ASSUME NEW x \in Ram \ OutCells(command) PROVE mem[x] = Before[x]
    OBVIOUS
  <1> DEFINE s == stored[elem].mem
             a == OutputElement(elem)
             words == ResultWords(command, results[elem])
  <1>1. /\ elem \in 0..command.out.length /\ command.out.length \in Nat
        /\ MemoryOf(s) /\ s[x] = Before[x]
    BY PrimIs
  <1>2. mem = StorePart(s, a, words, 0, off) /\ (elem = command.out.length => off = 0)
    BY DEF SimOK, PrimOK
  <1>3. off \in Nat /\ off < Width /\ a \in Nat /\ Width \in {1, 2}
    BY <1>1, OutputType DEF IInv, OffOK, TypeOK, PairCells
  <1>4. x \notin a + 0..a + 0 + off - 1
    <2>1. CASE elem = command.out.length
      BY <1>2, <1>3, <2>1
    <2>2. CASE elem # command.out.length
      <3>1. elem \in 0..command.out.length - 1
        BY <1>1, <2>2
      <3>2. x \notin a..a + Width - 1
        BY <3>1 DEF OutCells, OutputElement, Width
      <3>3. \A y \in a + 0..a + 0 + off - 1 : y \in a..a + Width - 1
        <4> HIDE DEF a
        <4> QED BY <1>3
      <3>4. QED BY <3>2, <3>3
    <2>3. QED BY <2>1, <2>2
  <1> HIDE DEF a, words, s
  <1>5. mem[x] = s[x]
    <2>1. x \in DOMAIN s
      BY <1>1 DEF MemoryOf
    <2>2. QED BY <1>2, <1>4, <2>1 DEF StorePart
  <1>6. QED BY <1>1, <1>5

(* A write whose cells can all be written is never refused.                *)
LEMMA Writable ==
  ASSUME NEW address \in Nat, NEW total \in {1, 2}, off \in Nat, off < total,
         total <= MaxAddr - address, WriteOk(faults, address, total)
  PROVE  WriteCause(address, total) = "OK"
  <1>1. \A x \in address..address + total - 1 : x \in Ram
    BY DEF WriteOk
  <1>2. InRange(address, total)
    BY <1>1, ClearOfMmio
  <1> DEFINE n == BeatCells(address, total)
  <1>3. n \in 1..total - off
    BY BeatBound
  <1> HIDE DEF n
  <1>4. \A x \in address + off..address + off + n - 1 : x \in address..address + total - 1
    BY <1>3
  <1>5. WriteOk(faults, address + off, n)
    BY <1>4 DEF WriteOk
  <1>6. QED BY <1>2, <1>5 DEF WriteCause, n

(* A primitive that fails, fails for the functional model too.             *)
LEMMA PrimStops ==
  ASSUME IInv, SimOK, PrimWriteFails \/ PrimFails
  PROVE  ~stored[command.out.length].ok
  <1> DEFINE n == command.out.length
  <1>0. pc = "prim"
    BY DEF PrimWriteFails, PrimFails
  <1>1. /\ n \in Nat /\ elem \in 0..n /\ OutputFields(command) /\ MemoryOf(Before)
        /\ OutputLoop(command, Before, faults, stored)
        /\ \A i \in 0..n : DOMAIN stored[i] = {"ok", "mem"}
        /\ \A i \in 0..n - 1 :
             stored[i + 1] = StoreResult(command, i, stored[i], results[i], faults)
    BY <1>0, PrimIs
  <1>2. \E i \in 0..n - 1 : \/ ~results[i].ok
                            \/ ~WriteOk(faults, OutputElement(i), Width)
    <2>1. CASE PrimWriteFails
      <3>1. elem \in 0..n - 1
        BY <1>1, <2>1 DEF PrimWriteFails
      <3>2. OutputElement(elem) \in Nat /\ Width \in {1, 2} /\ off < Width /\ off \in Nat
        BY <1>0, <3>1, OutputType DEF IInv, OffOK, TypeOK, PairCells
      <3>3. Width <= MaxAddr - OutputElement(elem)
        <4>1. Inside(command.out.base, OutputElement(elem), Width, OutEnd(command.out))
          BY <1>0, <3>1, PrimIs, OutputsPlaced DEF OutputElement, Width
        <4>2. OutEnd(command.out) \in Int
          BY <1>0, <1>1, SpanEndType DEF OutEnd, OutputFields, OutWidth, PairCells
        <4>3. QED BY <3>2, <4>1, <4>2, WidthAssumption DEF Inside
      <3>4. WriteCause(OutputElement(elem), Width) # "OK"
        BY <2>1 DEF PrimWriteFails
      <3>5. ~WriteOk(faults, OutputElement(elem), Width)
        BY <3>2, <3>3, <3>4, Writable
      <3>6. QED BY <3>1, <3>5
    <2>2. CASE PrimFails
      <3>1. PICK i \in elem..n - 1 : ~results[i].ok
        BY <2>2 DEF PrimFails
      <3>2. i \in 0..n - 1
        BY <1>1
      <3>3. QED BY <3>1, <3>2
    <2>3. QED BY <2>1, <2>2
  <1>3. PICK i \in 0..n - 1 : \/ ~results[i].ok
                              \/ ~WriteOk(faults, OutputElement(i), Width)
    BY <1>2
  <1>4. i \in 0..n /\ i + 1 \in 0..n
    BY <1>1
  <1>5. stored[i + 1] = [stored[i] EXCEPT !.ok = FALSE]
    BY <1>1, <1>3 DEF StoreResult, OutputElement, Width
  <1>6. ~stored[i + 1].ok
    BY <1>1, <1>4, <1>5
  <1>7. QED BY <1>1, <1>4, <1>6, FailureSticks

(* Where a step fails, the functional model fails as well: the submission, *)
(* or the child the record will name.                                      *)
Stopped ==
    IF inBatch
    THEN /\ ~(last.ok /\ last.cursor = StreamEnd(parent))
         /\ last.done = child /\ MemoryOf(last.mem)
         /\ \A x \in Ram \ last.loose : mem[x] = last.mem[x]
    ELSE ~done.ok /\ \A x \in Ram \ done.loose : mem[x] = done.mem[x]

(* A fetch that fails stops the functional model at the same child.        *)
LEMMA FetchStops ==
  ASSUME IInv, SimOK, HeaderFails \/ BodyFails
  PROVE  Stopped
  <1>1. pc \in {"header", "body"} /\ pc \in Working /\ mem = Before
    BY DEF HeaderFails, BodyFails, Working, SimOK, FoundOK
  <1>2. CommandAt(Before, faults, FetchAddr, Available) = {}
    BY <1>1, NoHeader, NoBody DEF HeaderFails, BodyFails, SimOK, FoundOK
  <1>3. CASE inBatch
    <2>1. child < parent.count
      BY <1>1, <1>3 DEF IInv, FetchOK, Fetched
    <2>2. CommandAt(Before, faults, cursor, StreamEnd(parent) - cursor) = {}
      BY <1>2, <1>3 DEF FetchAddr, Available
    <2>3. RunnableAt(parent, active, cursor, Before, faults) = {}
      BY <2>2 DEF RunnableAt
    <2>4. last.ok = FALSE /\ last.mem = Before /\ last.loose = {} /\ last.done = child
      BY <1>1, <1>3, <2>1, <2>3, NothingRunnable
    <2>5. MemoryOf(Before)
      BY <1>1, <1>3 DEF SimOK, WalkOK
    <2>6. QED BY <1>1, <1>3, <2>4, <2>5 DEF Stopped
  <1>4. CASE ~inBatch
    <2>1. Before = mem0 /\ CommandAt(mem0, faults, active, MaxCells) = {}
      BY <1>2, <1>4 DEF Before, FetchAddr, Available
    <2>2. done = [ok |-> FALSE, mem |-> mem0, loose |-> {}]
      BY <2>1, NothingFound
    <2>3. QED BY <1>1, <1>4, <2>1, <2>2 DEF Stopped
  <1>5. QED BY <1>3, <1>4

(* So does a batch that is not admitted,                                   *)
LEMMA AdmissionStops ==
  ASSUME IInv, SimOK, AdmitFails
  PROVE  Stopped
  <1>1. /\ pc = "dispatch" /\ ~inBatch /\ command.kind = "batch"
        /\ ~Admitted(command, active, DescriptorCells(desc))
    BY DEF AdmitFails
  <1>2. mem = mem0
    BY <1>1 DEF IInv, MemOK, Untouched
  <1>3. done = ExecuteBatch(command, active, mem0, faults)
    BY <1>1, SubmissionIs DEF ExecuteDecoded
  <1>4. EncodedSize(command) = DescriptorCells(desc)
    BY <1>1, CommandIs
  <1>5. done = [ok |-> FALSE, mem |-> mem0, loose |-> {}]
    BY <1>1, <1>3, <1>4 DEF ExecuteBatch
  <1>6. QED BY <1>1, <1>2, <1>5 DEF Stopped

(* a child that is a batch or writes over the descriptors,                 *)
LEMMA ChildRefused ==
  ASSUME IInv, SimOK, NestedBatch \/ ProtectFails
  PROVE  Stopped
  <1>1. /\ inBatch /\ pc \in {"dispatch", "protect"} /\ pc \in Working /\ mem = Before
        /\ child < parent.count /\ MemoryOf(Before)
    <2>1. pc \in {"dispatch", "protect"}
      BY DEF NestedBatch, ProtectFails
    <2>2. inBatch
      BY DEF NestedBatch, ProtectFails, IInv, BatchOK
    <2>3. QED BY <2>1, <2>2 DEF Working, SimOK, FoundOK, WalkOK, IInv, FetchOK, Fetched
  <1>2. RunnableAt(parent, active, cursor, Before, faults) = {}
    <2>1. CASE NestedBatch
      <3>1. /\ CommandAt(Before, faults, cursor, StreamEnd(parent) - cursor) = {desc}
            /\ Decoded[desc].kind = "batch"
        BY <1>1, <2>1, CommandIs DEF NestedBatch, FetchAddr, Available
      <3>2. QED BY <3>1 DEF RunnableAt
    <2>2. CASE ProtectFails
      <3>1. scan \in 0..command.out.length - 1 /\ ~Clear(scan) /\ pc = "protect"
        <4>1. pc = "protect" /\ scan < command.out.length /\ ~Clear(scan)
          BY <2>2 DEF ProtectFails, Clear
        <4>2. scan \in Nat /\ command.out.length \in Nat
          BY <4>1, OutputType DEF OutputFields, IInv, TypeOK
        <4>3. QED BY <4>1, <4>2
      <3>2. QED BY <1>1, <3>1, ProtectExact
    <2>3. QED BY <2>1, <2>2
  <1>3. last.ok = FALSE /\ last.mem = Before /\ last.loose = {} /\ last.done = child
    BY <1>1, <1>2, NothingRunnable
  <1>4. QED BY <1>1, <1>3 DEF Stopped

(* cells of the stream that no child used,                                 *)
LEMMA TrailingStops ==
  ASSUME IInv, SimOK, TrailingBytes
  PROVE  Stopped
  <1>1. /\ pc = "next" /\ pc \in Working /\ inBatch /\ mem = Before
        /\ child = parent.count /\ cursor # StreamEnd(parent)
    BY DEF TrailingBytes, Working, IInv, BatchOK, SimOK, FoundOK
  <1>2. /\ last = [ok |-> TRUE, mem |-> Before, loose |-> {}, cursor |-> cursor, done |-> child]
        /\ MemoryOf(Before)
    BY <1>1 DEF SimOK, WalkOK, last
  <1>3. QED BY <1>1, <1>2 DEF Stopped

(* and an output that has no result or cannot be written.                  *)
LEMMA PrimitiveStops ==
  ASSUME IInv, SimOK, PrimWriteFails \/ PrimFails
  PROVE  Stopped
  <1> DEFINE n == command.out.length
  <1>0. pc = "prim" /\ pc \in Working
    BY DEF PrimWriteFails, PrimFails, Working
  <1>1. /\ ~stored[n].ok /\ n \in 0..n /\ ExecuteCommand(command, Before, faults) = stored[n]
        /\ MemoryOf(stored[n].mem)
        /\ \A x \in Ram \ OutCells(command) : mem[x] = stored[n].mem[x]
    <2>1. n \in 0..n
      BY <1>0, PrimIs
    <2>2. QED BY <1>0, <2>1, PrimStops, PrimIs, PrimOutside
  <1> HIDE DEF n
  <1>2. WithLoose(stored[n], command)
          = [ok |-> stored[n].ok, mem |-> stored[n].mem, loose |-> OutCells(command)]
    BY <1>1 DEF WithLoose
  <1>3. CASE inBatch
    <2>1. walk[child].done = child
      BY <1>0, <1>3 DEF SimOK, WalkOK
    <2>2. /\ walk[child + 1] = AfterChild(walk[child], desc, WithLoose(stored[n], command))
          /\ ~walk[child + 1].ok => last = walk[child + 1]
      BY <1>0, <1>1, <1>3, ChildRuns
    <2>3. /\ ~walk[child + 1].ok /\ walk[child + 1].mem = stored[n].mem
          /\ walk[child + 1].loose = OutCells(command) /\ walk[child + 1].done = child
      BY <1>1, <1>2, <2>1, <2>2 DEF AfterChild
    <2>4. QED BY <1>1, <1>3, <2>2, <2>3 DEF Stopped
  <1>4. CASE ~inBatch
    <2>1. command.kind # "batch"
      BY <1>0 DEF IInv, FetchOK
    <2>2. done = WithLoose(stored[n], command)
      BY <1>0, <1>1, <1>4, <2>1, SubmissionIs DEF ExecuteDecoded, Before
    <2>3. QED BY <1>1, <1>2, <1>4, <2>2 DEF Stopped
  <1>5. QED BY <1>3, <1>4

-----------------------------------------------------------------------------
(* The simulation is kept.                                                 *)

(* What the functional model computes depends on the submission alone,     *)
LEMMA SameBatch ==
  ASSUME UNCHANGED <<parent, active, mem0, faults>>
  PROVE  walk' = walk /\ last' = last /\ done' = done
  <1>1. walk' = walk
    BY DEF walk
  <1>2. QED BY <1>1 DEF last, done

(* where it is in the stream on the child,                                 *)
LEMMA SameChild ==
  ASSUME UNCHANGED <<parent, active, mem0, faults, inBatch, child, cursor>>
  PROVE  Before' = Before /\ FetchAddr' = FetchAddr /\ Available' = Available
  <1>1. walk' = walk
    BY SameBatch
  <1>2. QED BY <1>1 DEF Before, FetchAddr, Available, StreamEnd

(* and its outputs on the command.                                         *)
LEMMA SamePrim ==
  ASSUME UNCHANGED <<parent, active, mem0, faults, inBatch, child, cursor, command>>
  PROVE  stored' = stored
  <1>1. Before' = Before
    BY SameChild
  <1>2. QED BY <1>1 DEF stored

(* Storing words in RAM keeps it a memory.                                 *)
LEMMA StoreMemory ==
  ASSUME NEW m, MemoryOf(m), NEW a, NEW words, NEW from, NEW n
  PROVE  MemoryOf(StorePart(m, a, words, from, n))
  <1>1. DOMAIN m = Ram
    BY DEF MemoryOf
  <1>2. QED BY <1>1 DEF StorePart, MemoryOf

(* Steps that leave the submission alone.                                  *)
LEMMA SimIdle ==
  ASSUME SimOK, UNCHANGED vars \/ WriteLo \/ WriteHi
  PROVE  SimOK'
  <1>1. UNCHANGED <<active, pc, ok, fetchVars, batchVars, primVars, mem, hostVars>>
    BY DEF vars, mmioVars, WriteLo, WriteHi
  <1>2. /\ UNCHANGED <<active, pc, ok, desc, command, parent, parentCells, inBatch, cursor, child>>
        /\ UNCHANGED <<elem, off, results, mem, faults, mem0>>
    BY <1>1 DEF fetchVars, batchVars, primVars, hostVars
  <1>3. /\ walk' = walk /\ last' = last /\ done' = done /\ Before' = Before
        /\ FetchAddr' = FetchAddr /\ Available' = Available /\ stored' = stored
    BY <1>2, SameBatch, SameChild, SamePrim
  <1>4. MemoriesOK' /\ ParentOK' /\ WalkOK'
    BY <1>2, <1>3 DEF SimOK, MemoriesOK, ParentOK, WalkOK
  <1>5. Headers' = Headers /\ HeaderCause' = HeaderCause
    <2>1. Headers' = Headers
      BY <1>2, <1>3 DEF Headers
    <2>2. ReadCause(FetchAddr, HeaderCells)' = ReadCause(FetchAddr, HeaderCells)
      BY <1>2, <1>3 DEF ReadCause, InRange
    <2>3. QED BY <1>3, <2>1, <2>2 DEF HeaderCause
  <1>6. FoundOK'
    BY <1>2, <1>3, <1>5 DEF SimOK, FoundOK
  <1>7. OutputElement(elem)' = OutputElement(elem)
    BY <1>2 DEF OutputElement
  <1>8. PrimOK'
    BY <1>2, <1>3, <1>7 DEF SimOK, PrimOK
  <1>9. RecordOK' /\ DrainOK'
    BY <1>2, <1>3 DEF SimOK, RecordOK, DrainOK, RecordWords
  <1>10. QED BY <1>4, <1>6, <1>8, <1>9 DEF SimOK

(* Steps at whose end no submission is being run.                          *)
LEMMA SimWaits ==
  ASSUME IInv, SimOK, Doorbell \/ HostPrepare \/ Finish
  PROVE  SimOK'
  <1>1. pc' = "wait"
    BY DEF IInv, BusyIffWorking, Doorbell, HostPrepare, Finish
  <1>2. MemoryOf(mem') /\ mem0' = mem'
    <2>1. CASE Doorbell \/ Finish
      BY <2>1 DEF Doorbell, Finish, SimOK, MemoriesOK
    <2>2. CASE HostPrepare
      <3>1. mem' \in [Ram -> Int] /\ mem0' = mem'
        BY <2>2, L2Assumption DEF HostPrepare
      <3>2. QED BY <3>1 DEF MemoryOf
    <2>3. QED BY <2>1, <2>2
  <1>3. QED BY <1>1, <1>2 DEF SimOK, MemoriesOK, ParentOK, WalkOK, FoundOK, PrimOK, RecordOK,
                              DrainOK, Working, MemoryOf

(* Every failure of the thread.                                            *)
LEMMA SimFails ==
  ASSUME IInv, SimOK, Fails
  PROVE  SimOK'
  <1>1. Stopped
    BY FetchStops, AdmissionStops, ChildRefused, TrailingStops, PrimitiveStops DEF Fails
  <1>2. /\ pc # "wait" /\ pc' = (IF inBatch THEN "record" ELSE "drain") /\ ~ok' /\ off' = 0
        /\ UNCHANGED <<active, parent, parentCells, inBatch, child, mem, faults, mem0>>
    <2>1. \E c : Abort(c)
      BY DEF Fails, HeaderFails, BodyFails, AdmitFails, NestedBatch, TrailingBytes, ProtectFails,
             PrimWriteFails, PrimFails
    <2>2. QED BY <2>1, FailsEffect DEF Abort, mmioVars, fetchVars, batchVars, hostVars
  <1>3. walk' = walk /\ last' = last /\ done' = done
    BY <1>2, SameBatch
  <1>4. MemoriesOK' /\ ParentOK' /\ WalkOK' /\ FoundOK' /\ PrimOK'
    BY <1>2, <1>3 DEF SimOK, MemoriesOK, ParentOK, WalkOK, FoundOK, PrimOK, Working
  <1>5. RecordOK' /\ DrainOK'
    <2>1. CASE inBatch
      <3>1. DrainOK' /\ StreamEnd(parent)' = StreamEnd(parent)
        BY <1>2, <2>1 DEF DrainOK, StreamEnd
      <3>2. parent.result \in Nat
        BY <2>1 DEF IInv, BatchOK, BatchFields
      <3>3. parent'.result..parent'.result + off' - 1 = {}
        BY <1>2, <3>2
      <3>4. QED BY <1>1, <1>2, <1>3, <2>1, <3>1, <3>3 DEF Stopped, RecordOK
    <2>2. CASE ~inBatch
      BY <1>1, <1>2, <1>3, <2>2 DEF Stopped, RecordOK, DrainOK
    <2>3. QED BY <2>1, <2>2
  <1>6. QED BY <1>4, <1>5 DEF SimOK

(* run() starts, and fetch() succeeds.                                     *)
LEMMA SimFetch ==
  ASSUME IInv, SimOK, Wake \/ FetchHeader \/ FetchBody
  PROVE  SimOK'
  <1> USE DEF mmioVars, fetchVars, batchVars, primVars, hostVars
  <1>1. CASE Wake
    <2>1. pc = "wait" /\ pc' = "header" /\ ~inBatch' /\ UNCHANGED <<mem, mem0, faults, active>>
      BY <1>1 DEF Wake
    <2>2. mem' = Before'
      BY <2>1 DEF IInv, MemOK, Untouched, Before
    <2>3. QED BY <2>1, <2>2 DEF SimOK, MemoriesOK, ParentOK, WalkOK, FoundOK, PrimOK, RecordOK,
                               DrainOK, Working
  <1>2. CASE FetchHeader
    <2>1. /\ pc = "header" /\ pc' = "body" /\ HeaderCause = "OK" /\ desc' \in Headers
          /\ UNCHANGED <<active, parent, parentCells, inBatch, cursor, child, mem, faults, mem0>>
      BY <1>2 DEF FetchHeader
    <2>2. /\ walk' = walk /\ last' = last /\ done' = done /\ Before' = Before
          /\ FetchAddr' = FetchAddr /\ Available' = Available
      BY <2>1, SameBatch, SameChild
    <2>3. Headers' = Headers /\ HeaderCause' = HeaderCause
      <3>1. Headers' = Headers
        BY <2>1, <2>2 DEF Headers
      <3>2. ReadCause(FetchAddr, HeaderCells)' = ReadCause(FetchAddr, HeaderCells)
        BY <2>1, <2>2 DEF ReadCause, InRange
      <3>3. QED BY <2>2, <3>1, <3>2 DEF HeaderCause
    <2>4. QED BY <2>1, <2>2, <2>3 DEF SimOK, MemoriesOK, ParentOK, WalkOK, FoundOK, PrimOK,
                                     RecordOK, DrainOK, Working
  <1>3. CASE FetchBody
    <2>1. /\ pc = "body" /\ pc' = "dispatch" /\ BodyCause = "OK" /\ desc' = desc
          /\ UNCHANGED <<active, parent, parentCells, inBatch, cursor, child, mem, faults, mem0>>
      BY <1>3 DEF FetchBody
    <2>2. /\ walk' = walk /\ last' = last /\ done' = done /\ Before' = Before
          /\ FetchAddr' = FetchAddr /\ Available' = Available
      BY <2>1, SameBatch, SameChild
    <2>3. mem = Before /\ desc \in CommandAt(mem, faults, FetchAddr, Available)
      BY <2>1, BothRead DEF SimOK, FoundOK, Working
    <2>4. QED BY <2>1, <2>2, <2>3 DEF SimOK, MemoriesOK, ParentOK, WalkOK, FoundOK, PrimOK,
                                     RecordOK, DrainOK, Working
  <1>4. QED BY <1>1, <1>2, <1>3

(* batch() and protect() go on.                                            *)
LEMMA SimSequence ==
  ASSUME IInv, SimOK, BeginProtect \/ NextChild \/ Protect
  PROVE  SimOK'
  <1>1. /\ pc \in {"dispatch", "next", "protect"} /\ pc' \in {"header", "protect"}
        /\ pc' = "protect" => pc \in {"dispatch", "protect"}
        /\ UNCHANGED <<active, parent, parentCells, inBatch, cursor, child, desc, mem, faults, mem0>>
    BY DEF BeginProtect, NextChild, Protect, mmioVars, fetchVars, batchVars, primVars, hostVars
  <1>2. /\ walk' = walk /\ last' = last /\ done' = done /\ Before' = Before
        /\ FetchAddr' = FetchAddr /\ Available' = Available
    BY <1>1, SameBatch, SameChild
  <1>3. QED BY <1>1, <1>2 DEF SimOK, MemoriesOK, ParentOK, WalkOK, FoundOK, PrimOK, RecordOK,
                              DrainOK, Working

(* The batch begins with none of its children run.                         *)
LEMMA SimAdmit ==
  ASSUME IInv, SimOK, Admit
  PROVE  SimOK'
  <1>1. /\ pc = "dispatch" /\ ~inBatch /\ command.kind = "batch"
        /\ Admitted(command, active, DescriptorCells(desc))
        /\ parent' = command /\ parentCells' = DescriptorCells(desc) /\ inBatch'
        /\ cursor' = command.stream /\ child' = 0 /\ pc' = "next"
        /\ UNCHANGED <<active, mem, mem0, faults>>
    BY DEF Admit, mmioVars, hostVars
  <1>2. BatchFields(command) /\ EncodedSize(command) = DescriptorCells(desc)
    BY <1>1, CommandIs
  <1>3. mem = mem0 /\ MemoryOf(mem0)
    BY <1>1 DEF IInv, MemOK, Untouched, SimOK, MemoriesOK
  <1>4. walk' = WalkOf(command, active, mem0, faults)
    BY <1>1 DEF walk
  <1>5. /\ Children(command, active, mem0, faults) = walk'[command.count]
        /\ walk'[0] = Started(command, mem0)
    BY <1>2, <1>4, WalkIs DEF Walk
  <1>6. last' = walk'[command.count] /\ Before' = mem0
    <2>1. last' = walk'[command.count]
      BY <1>1 DEF last
    <2>2. Before' = walk'[0].mem
      BY <1>1 DEF Before
    <2>3. QED BY <1>5, <2>1, <2>2 DEF Started
  <1>7. done' = RecordBatch(command, last', faults)
    <2>1. done = ExecuteBatch(command, active, mem0, faults)
      BY <1>1, SubmissionIs DEF ExecuteDecoded
    <2>2. done = RecordBatch(command, Children(command, active, mem0, faults), faults)
      BY <1>1, <1>2, <2>1 DEF ExecuteBatch
    <2>3. done' = done
      BY <1>1 DEF done
    <2>4. QED BY <1>5, <1>6, <2>2, <2>3
  <1>8. ParentOK'
    BY <1>1, <1>2, <1>7 DEF ParentOK
  <1>9. WalkOK'
    BY <1>1, <1>3, <1>5, <1>6 DEF WalkOK, Started
  <1>10. QED BY <1>1, <1>3, <1>6, <1>8, <1>9 DEF SimOK, MemoriesOK, FoundOK, PrimOK, RecordOK,
                                               DrainOK, Working

(* Nothing is stored before the first output.                              *)
LEMMA StoreNothing ==
  ASSUME NEW m, MemoryOf(m), NEW a \in Nat, NEW words
  PROVE  StorePart(m, a, words, 0, 0) = m
  <1>1. a + 0..a + 0 + 0 - 1 = {}
    OBVIOUS
  <1>2. DOMAIN m = Ram /\ m = [x \in Ram |-> m[x]]
    BY DEF MemoryOf
  <1>3. StorePart(m, a, words, 0, 0) = [x \in Ram |-> m[x]]
    BY <1>1, <1>2 DEF StorePart
  <1>4. QED BY <1>2, <1>3

(* A primitive begins with none of its outputs stored, and its results are *)
(* computed from the memory the functional model reads them from.          *)
LEMMA SimBegin ==
  ASSUME IInv, SimOK, RunPrimitive \/ ProtectDone
  PROVE  SimOK'
  <1>1. /\ pc \in {"dispatch", "protect"} /\ pc' = "prim" /\ elem' = 0 /\ off' = 0
        /\ results' = [i \in 0..command.out.length - 1 |-> OutputResult(command, i, mem, faults)]
        /\ command.kind # "batch" 
        /\ UNCHANGED <<active, parent, parentCells, inBatch, cursor, child, desc, command>>
        /\ UNCHANGED <<mem, faults, mem0>>
    BY DEF RunPrimitive, ProtectDone, BeginPrimitive, mmioVars, fetchVars, batchVars, hostVars,
           IInv, FetchOK
  <1>2. /\ walk' = walk /\ last' = last /\ done' = done /\ Before' = Before
        /\ FetchAddr' = FetchAddr /\ Available' = Available /\ stored' = stored
    BY <1>1, SameBatch, SameChild, SamePrim
  <1>3. mem = Before /\ MemoryOf(Before)
    BY <1>1 DEF SimOK, FoundOK, MemoriesOK, Working
  <1>4. OutputFields(command) /\ command.out.length \in Nat
    BY <1>1, CommandIs DEF OutputFields
  <1>5. stored[0] = [ok |-> TRUE, mem |-> Before]
    BY <1>4, OutputsAre DEF stored, OutputLoop
  <1>6. OutAddr(command, 0) \in Nat
    BY <1>4 DEF OutAddr, OutputFields, OutWidth, PairCells
  <1>7. PrimOK'
    <2>1. mem = StorePart(stored[0].mem, OutAddr(command, 0),
                          ResultWords(command, results'[0]), 0, 0)
      BY <1>3, <1>5, <1>6, StoreNothing
    <2>2. WriteOk(faults, OutAddr(command, 0), 0)
      BY <1>6 DEF WriteOk
    <2>3. \A i \in 0..command.out.length - 1 :
            results'[i] = OutputResult(command, i, Before, faults)
      BY <1>1, <1>3
    <2>4. OutputElement(elem)' = OutAddr(command, 0)
      BY <1>1 DEF OutputElement
    <2>5. elem' <= command'.out.length /\ stored'[elem'].ok
      BY <1>1, <1>2, <1>4, <1>5
    <2>6. /\ mem' = StorePart(stored'[elem'].mem, OutputElement(elem)',
                             ResultWords(command', results'[elem']), 0, off')
          /\ WriteOk(faults', OutputElement(elem)', off')
      BY <1>1, <1>2, <2>1, <2>2, <2>4
    <2>7. \A i \in 0..command'.out.length - 1 :
            results'[i] = OutputResult(command', i, Before', faults')
      BY <1>1, <1>2, <2>3
    <2>8. QED BY <1>1, <2>5, <2>6, <2>7 DEF PrimOK
  <1>8. QED BY <1>1, <1>2, <1>7 DEF SimOK, MemoriesOK, ParentOK, WalkOK, FoundOK, RecordOK,
                                    DrainOK, Working

(* A beat goes on where the last one stopped.                              *)
LEMMA StoreMore ==
  ASSUME NEW m, MemoryOf(m), NEW a \in Nat, NEW words, NEW p \in Nat, NEW q \in Nat
  PROVE  StorePart(StorePart(m, a, words, 0, p), a, words, p, q) = StorePart(m, a, words, 0, p + q)
  <1>1. DOMAIN m = Ram /\ Ram \subseteq Int
    BY RamAssumption, WidthAssumption DEF MemoryOf
  <1>2. StorePart(m, a, words, 0, p)
          = [x \in Ram |-> IF x \in a + 0..a + 0 + p - 1 THEN words[x - a + 1] ELSE m[x]]
    BY <1>1 DEF StorePart
  <1>3. StorePart(StorePart(m, a, words, 0, p), a, words, p, q)
          = [x \in Ram |-> IF x \in a + p..a + p + q - 1 THEN words[x - a + 1]
                           ELSE IF x \in a + 0..a + 0 + p - 1 THEN words[x - a + 1] ELSE m[x]]
    BY <1>2 DEF StorePart
  <1>4. StorePart(m, a, words, 0, p + q)
          = [x \in Ram |-> IF x \in a + 0..a + 0 + (p + q) - 1 THEN words[x - a + 1] ELSE m[x]]
    BY <1>1 DEF StorePart
  <1>5. \A x \in Ram : x \in a + 0..a + 0 + (p + q) - 1 <=>
                         x \in a + p..a + p + q - 1 \/ x \in a + 0..a + 0 + p - 1
    BY <1>1
  <1>6. \A x \in Ram : (IF x \in a + p..a + p + q - 1 THEN words[x - a + 1]
                        ELSE IF x \in a + 0..a + 0 + p - 1 THEN words[x - a + 1] ELSE m[x])
                     = (IF x \in a + 0..a + 0 + (p + q) - 1 THEN words[x - a + 1] ELSE m[x])
    BY <1>5
  <1>7. QED BY <1>3, <1>4, <1>6

(* A beat stores the next words of an output; the last beat of an output   *)
(* makes one more step of the functional model's loop.                     *)
LEMMA SimWrite ==
  ASSUME IInv, SimOK, PrimWrite
  PROVE  SimOK'
  <1> DEFINE n == command.out.length
             a == OutputElement(elem)
             words == ResultWords(command, results[elem])
             s == stored[elem].mem
             b == BeatCells(a, Width)
  <1>1. /\ pc = "prim" /\ pc' = "prim" /\ elem < n /\ results[elem].ok
        /\ WriteBeat(a, words) /\ elem' = (IF LastBeat(a, Width) THEN elem + 1 ELSE elem)
        /\ UNCHANGED <<active, parent, parentCells, inBatch, cursor, child, desc, command>>
        /\ UNCHANGED <<results, faults, mem0>>
    BY DEF PrimWrite, mmioVars, fetchVars, batchVars, hostVars
  <1>2. /\ walk' = walk /\ last' = last /\ done' = done /\ Before' = Before
        /\ FetchAddr' = FetchAddr /\ Available' = Available /\ stored' = stored
    BY <1>1, SameBatch, SameChild, SamePrim
  <1>3. /\ n \in Nat /\ elem \in 0..n - 1 /\ elem \in 0..n /\ MemoryOf(s)
        /\ \A i \in 0..n : MemoryOf(stored[i].mem)
        /\ stored[elem + 1] = StoreResult(command, elem, stored[elem], results[elem], faults)
    <2>1. n \in Nat /\ elem \in 0..n /\ elem \in 0..n - 1
      BY <1>1, PrimIs
    <2>2. QED BY <1>1, <2>1, PrimIs
  <1>4. /\ mem = StorePart(s, a, words, 0, off) /\ WriteOk(faults, a, off) /\ stored[elem].ok
        /\ \A i \in 0..n - 1 : results[i] = OutputResult(command, i, Before, faults)
    BY <1>1 DEF SimOK, PrimOK
  <1>5. /\ a \in Nat /\ Width \in {1, 2} /\ off \in Nat /\ off < Width /\ Len(words) = Width
        /\ \A i \in Nat : OutputElement(i) \in Nat
    BY <1>1, <1>3, OutputType
       DEF IInv, OffOK, TypeOK, PairCells, ResultWords, Width, OutWidth
  <1>6. b \in 1..Width - off
    BY <1>5, BeatBound
  <1>7. /\ mem' = StorePart(mem, a, words, off, b) /\ WriteOk(faults, a + off, b)
        /\ off' = (IF off + b = Width THEN 0 ELSE off + b) /\ (LastBeat(a, Width) <=> off + b = Width)
    BY <1>1, <1>5 DEF WriteBeat, WriteCause, LastBeat
  <1> HIDE DEF a, b, s, words, n
  <1>8. mem' = StorePart(s, a, words, 0, off + b)
    BY <1>3, <1>4, <1>5, <1>6, <1>7, StoreMore
  <1>9. WriteOk(faults, a, off + b)
    <2>1. \A x \in a..a + (off + b) - 1 : x \in a..a + off - 1 \/ x \in a + off..a + off + b - 1
      BY <1>5, <1>6
    <2>2. QED BY <1>4, <1>7, <2>1 DEF WriteOk
  <1>10. PrimOK'
    <2>1. CASE off + b = Width
      <3>1. off' = 0 /\ elem' = elem + 1
        BY <1>1, <1>7, <2>1
      <3>2. WriteOk(faults, OutAddr(command, elem), OutWidth(command.out.kind))
        BY <1>9, <2>1 DEF a, OutputElement, Width
      <3>3. stored[elem + 1] = [ok |-> TRUE, mem |-> Store(s, a, words)]
        BY <1>1, <1>3, <1>4, <3>2 DEF StoreResult, a, s, words, OutputElement
      <3>4. mem' = stored[elem + 1].mem /\ stored[elem + 1].ok
        BY <1>5, <1>8, <2>1, <3>3 DEF Store
      <3>5. elem + 1 \in 0..n /\ elem + 1 \in Nat
        BY <1>3
      <3>6. OutputElement(elem + 1) \in Nat
        BY <1>5, <3>5
      <3>7. /\ mem' = StorePart(stored[elem + 1].mem, OutputElement(elem + 1),
                                ResultWords(command, results[elem + 1]), 0, 0)
            /\ WriteOk(faults, OutputElement(elem + 1), 0)
        <4>1. MemoryOf(stored[elem + 1].mem)
          BY <1>3, <3>5
        <4>2. WriteOk(faults, OutputElement(elem + 1), 0)
          BY <3>6 DEF WriteOk
        <4>3. QED BY <3>4, <3>6, <4>1, <4>2, StoreNothing
      <3>8. OutputElement(elem)' = OutputElement(elem + 1)
        BY <1>1, <3>1 DEF OutputElement
      <3>9. elem' <= command'.out.length /\ stored'[elem'].ok
        BY <1>1, <1>2, <3>1, <3>4, <3>5 DEF n
      <3>10. /\ mem' = StorePart(stored'[elem'].mem, OutputElement(elem)',
                                 ResultWords(command', results'[elem']), 0, off')
             /\ WriteOk(faults', OutputElement(elem)', off')
        BY <1>1, <1>2, <3>1, <3>7, <3>8
      <3>11. \A i \in 0..command'.out.length - 1 :
               results'[i] = OutputResult(command', i, Before', faults')
        BY <1>1, <1>2, <1>4 DEF n
      <3>12. QED BY <1>1, <3>1, <3>9, <3>10, <3>11 DEF PrimOK
    <2>2. CASE off + b # Width
      <3>1. off' = off + b /\ elem' = elem
        BY <1>1, <1>7, <2>2
      <3>2. OutputElement(elem)' = a
        BY <1>1, <3>1 DEF OutputElement, a
      <3>3. elem' <= command'.out.length /\ stored'[elem'].ok /\ elem' # command'.out.length
        BY <1>1, <1>2, <1>3, <1>4, <3>1 DEF n
      <3>4. /\ mem' = StorePart(stored'[elem'].mem, OutputElement(elem)',
                                ResultWords(command', results'[elem']), 0, off')
            /\ WriteOk(faults', OutputElement(elem)', off')
        BY <1>1, <1>2, <1>8, <1>9, <3>1, <3>2 DEF s, words
      <3>5. \A i \in 0..command'.out.length - 1 :
              results'[i] = OutputResult(command', i, Before', faults')
        BY <1>1, <1>2, <1>4 DEF n
      <3>6. QED BY <1>1, <3>3, <3>4, <3>5 DEF PrimOK
    <2>3. QED BY <2>1, <2>2
  <1>11. MemoriesOK'
    BY <1>1, <1>3, <1>8, StoreMemory DEF SimOK, MemoriesOK
  <1>12. QED BY <1>1, <1>2, <1>10, <1>11 DEF SimOK, ParentOK, WalkOK, FoundOK, RecordOK,
                                             DrainOK, Working

(* The end of a primitive makes one more step of the loop over children, or*)
(* is the end of the submission.                                           *)
LEMMA SimPrimDone ==
  ASSUME IInv, VerdictOK, SimOK, PrimDone
  PROVE  SimOK'
  <1> DEFINE n == command.out.length
  <1>1. /\ pc = "prim" /\ elem = n
        /\ UNCHANGED <<active, parent, parentCells, inBatch, desc, mem, faults, mem0, ok>>
    BY DEF PrimDone, mmioVars, fetchVars, hostVars
  <1>2. walk' = walk /\ last' = last /\ done' = done
    BY <1>1, SameBatch
  <1>3. /\ n \in 0..n /\ ExecuteCommand(command, Before, faults) = stored[n]
        /\ MemoryOf(stored[n].mem) /\ OutputElement(elem) \in Nat
    <2>1. n \in 0..n /\ elem \in Nat
      BY <1>1, PrimIs
    <2>2. QED BY <1>1, <2>1, PrimIs, OutputType
  <1>4. stored[n].ok /\ mem = stored[n].mem
    <2>1. off = 0 /\ stored[n].ok
          /\ mem = StorePart(stored[n].mem, OutputElement(elem),
                             ResultWords(command, results[elem]), 0, 0)
      BY <1>1 DEF SimOK, PrimOK
    <2>2. QED BY <1>3, <2>1, StoreNothing
  <1> HIDE DEF n
  <1>5. WithLoose(stored[n], command) = [ok |-> stored[n].ok, mem |-> mem, loose |-> {}]
    BY <1>4 DEF WithLoose
  <1>6. CASE inBatch
    <2>1. pc' = "next" /\ child' = child + 1 /\ cursor' = cursor + DescriptorCells(desc)
      BY <1>6 DEF PrimDone
    <2>2. walk[child + 1] = AfterChild(walk[child], desc, WithLoose(stored[n], command))
      BY <1>1, <1>3, <1>6, ChildRuns
    <2>3. walk[child].cursor = cursor /\ walk[child].done = child
      BY <1>1, <1>6 DEF SimOK, WalkOK, Working
    <2>4. stored[n].ok = TRUE
      <3>1. stored[n] = StoreResult(command, n - 1, stored[n - 1], results[n - 1], faults)
            \/ stored[n] = [ok |-> TRUE, mem |-> Before]
        BY <1>1, PrimIs DEF OutputLoop, n
      <3>2. QED BY <1>4, <3>1 DEF StoreResult
    <2>5. walk[child + 1] = [ok |-> TRUE, mem |-> mem, loose |-> {},
                             cursor |-> cursor + DescriptorCells(desc), done |-> child + 1]
      <3> DEFINE w == WithLoose(stored[n], command)
      <3>1. w.ok = TRUE /\ w.mem = mem /\ w.loose = {}
        BY <1>5, <2>4
      <3> HIDE DEF w
      <3>2. walk[child + 1] = [ok |-> w.ok, mem |-> w.mem, loose |-> w.loose,
                               cursor |-> walk[child].cursor + DescriptorCells(desc),
                               done |-> IF w.ok THEN walk[child].done + 1 ELSE walk[child].done]
        BY <2>2 DEF AfterChild, w
      <3>3. QED BY <2>3, <3>1, <3>2
    <2>6. Before' = mem
      BY <1>1, <1>2, <1>6, <2>1, <2>5 DEF Before
    <2>7. QED BY <1>1, <1>2, <1>3, <1>4, <1>6, <2>1, <2>5, <2>6
              DEF SimOK, MemoriesOK, ParentOK, WalkOK, FoundOK, PrimOK, RecordOK, DrainOK, Working
  <1>7. CASE ~inBatch
    <2>1. pc' = "drain" /\ command.kind # "batch" /\ ok
      BY <1>1, <1>7 DEF PrimDone, IInv, FetchOK, VerdictOK
    <2>2. done = WithLoose(stored[n], command)
      BY <1>1, <1>3, <1>7, <2>1, SubmissionIs DEF ExecuteDecoded, Before
    <2>3. DrainOK'
      BY <1>1, <1>2, <1>4, <1>5, <2>1, <2>2 DEF DrainOK
    <2>4. QED BY <1>1, <1>2, <1>7, <2>1, <2>3 DEF SimOK, MemoriesOK, ParentOK, WalkOK, FoundOK,
                                                 PrimOK, RecordOK, Working
  <1>8. QED BY <1>6, <1>7

(* The loop over children ends where the stream does.                      *)
LEMMA SimStreamDone ==
  ASSUME IInv, VerdictOK, SimOK, StreamDone
  PROVE  SimOK'
  <1>1. /\ pc = "next" /\ pc' = "record" /\ child = parent.count /\ cursor = StreamEnd(parent)
        /\ off' = 0
        /\ UNCHANGED <<active, parent, parentCells, inBatch, child, mem, faults, mem0, ok>>
    BY DEF StreamDone, mmioVars, fetchVars, batchVars, hostVars
  <1>2. walk' = walk /\ last' = last /\ done' = done
    BY <1>1, SameBatch
  <1>3. inBatch /\ ok /\ mem = Before /\ parent.result \in Nat
    BY <1>1 DEF IInv, BatchOK, BatchFields, VerdictOK, SimOK, FoundOK, Working
  <1>4. /\ last = [ok |-> TRUE, mem |-> Before, loose |-> {}, cursor |-> cursor, done |-> child]
        /\ MemoryOf(Before)
    BY <1>1, <1>3 DEF SimOK, WalkOK, Working, last
  <1>5. parent'.result..parent'.result + off' - 1 = {}
    BY <1>1, <1>3
  <1>6. RecordOK'
    <2>1. StreamEnd(parent)' = StreamEnd(parent)
      BY <1>1 DEF StreamEnd
    <2>2. QED BY <1>1, <1>2, <1>3, <1>4, <1>5, <2>1 DEF RecordOK
  <1>7. QED BY <1>1, <1>2, <1>6 DEF SimOK, MemoriesOK, ParentOK, WalkOK, FoundOK, PrimOK,
                                    DrainOK, Working

(* The record of the functional model has the words of this one.           *)
LEMMA RecordIs ==
  ASSUME IInv, SimOK, pc = "record"
  PROVE  RecordWords = BatchRecord(parent, last)
  BY DEF SimOK, RecordOK, RecordWords, BatchRecord

(* A beat of the batch record.                                             *)
LEMMA SimRecord ==
  ASSUME IInv, SimOK, Record
  PROVE  SimOK'
  <1> DEFINE r == parent.result
             b == BeatCells(r, 2)
             words == RecordWords
  <1>1. /\ pc = "record" /\ WriteBeat(r, words)
        /\ pc' = (IF LastBeat(r, 2) THEN "drain" ELSE "record")
        /\ UNCHANGED <<active, parent, parentCells, inBatch, child, faults, mem0, ok>>
    BY DEF Record, mmioVars, fetchVars, batchVars, hostVars, PairCells
  <1>2. walk' = walk /\ last' = last /\ done' = done
    BY <1>1, SameBatch
  <1>3. /\ inBatch /\ r \in Nat /\ off \in 0..1 /\ Len(words) = 2 /\ DOMAIN mem = Ram
        /\ Ram \subseteq Int
    BY <1>1, RamAssumption, WidthAssumption
       DEF IInv, BatchOK, BatchFields, TypeOK, PairCells, RecordWords
  <1>4. /\ ok <=> last.ok /\ last.cursor = StreamEnd(parent)
        /\ last.done = child /\ MemoryOf(last.mem)
        /\ \A x \in Ram \ last.loose : x \notin r..r + off - 1 => mem[x] = last.mem[x]
        /\ \A x \in r..r + off - 1 : x \in Ram \ faults.write /\ mem[x] = words[x - r + 1]
    BY <1>1 DEF SimOK, RecordOK
  <1>5. b \in 1..2 - off
    BY <1>3, BeatBound
  <1>6. /\ mem' = [x \in Ram |-> IF x \in r + off..r + off + b - 1 THEN words[x - r + 1]
                                 ELSE mem[x]]
        /\ WriteOk(faults, r + off, b)
        /\ off' = (IF off + b = 2 THEN 0 ELSE off + b)
        /\ pc' = (IF off + b = 2 THEN "drain" ELSE "record")
    BY <1>1, <1>3 DEF WriteBeat, WriteCause, LastBeat, StorePart
  <1>w. words' = words
    BY <1>1 DEF RecordWords
  <1>m. MemoryOf(mem')
    BY <1>1, <1>3, StoreMemory DEF WriteBeat, SimOK, MemoriesOK
  <1> HIDE DEF r, b, words
  <1>7. \A x \in Int : x \in r..r + (off + b) - 1 <=>
                         x \in r..r + off - 1 \/ x \in r + off..r + off + b - 1
    BY <1>3, <1>5
  <1>8. \A x \in r..r + (off + b) - 1 : x \in Ram \ faults.write /\ mem'[x] = words[x - r + 1]
    <2> SUFFICES ASSUME NEW x \in r..r + (off + b) - 1
                 PROVE  x \in Ram \ faults.write /\ mem'[x] = words[x - r + 1]
      OBVIOUS
    <2>1. x \in Int
      BY <1>3
    <2>2. CASE x \in r + off..r + off + b - 1
      BY <1>6, <2>2 DEF WriteOk
    <2>3. CASE x \notin r + off..r + off + b - 1
      BY <1>4, <1>6, <1>7, <2>1, <2>3
    <2>4. QED BY <2>2, <2>3
  <1>9. \A x \in Ram \ last.loose : x \notin r..r + (off + b) - 1 => mem'[x] = last.mem[x]
    <2> SUFFICES ASSUME NEW x \in Ram \ last.loose, x \notin r..r + (off + b) - 1
                 PROVE  mem'[x] = last.mem[x]
      OBVIOUS
    <2>1. x \notin r..r + off - 1 /\ x \notin r + off..r + off + b - 1
      BY <1>3, <1>7
    <2>2. QED BY <1>4, <1>6, <2>1
  <1>10. RecordOK'
    <2> SUFFICES ASSUME pc' = "record" PROVE RecordOK'
      BY DEF RecordOK
    <2>1. off' = off + b
      BY <1>6
    <2>2. StreamEnd(parent)' = StreamEnd(parent) /\ parent'.result = r
      BY <1>1 DEF StreamEnd, r
    <2>3. QED BY <1>1, <1>2, <1>4, <1>8, <1>9, <1>w, <2>1, <2>2 DEF RecordOK, words
  <1>11. DrainOK'
    <2> SUFFICES ASSUME pc' = "drain" PROVE DrainOK'
      BY DEF DrainOK
    <2>1. off + b = 2
      BY <1>6
    <2>2. WriteOk(faults, r, 2)
      BY <1>8, <2>1 DEF WriteOk
    <2>3. done = [ok |-> last.ok /\ last.cursor = StreamEnd(parent),
                  mem |-> Store(last.mem, r, words), loose |-> last.loose \ r..r + 2 - 1]
      <3>1. done = RecordBatch(parent, last, faults)
        BY <1>1, <1>3 DEF SimOK, ParentOK
      <3>2. words = BatchRecord(parent, last)
        BY <1>1, RecordIs DEF words
      <3>3. QED BY <2>2, <3>1, <3>2 DEF RecordBatch, PairCells, r
    <2>4. Store(last.mem, r, words)
            = [x \in Ram |-> IF x \in r + 0..r + 0 + 2 - 1 THEN words[x - r + 1] ELSE last.mem[x]]
      BY <1>3, <1>4 DEF Store, StorePart, MemoryOf
    <2>5. ASSUME NEW x \in Ram \ done.loose PROVE mem'[x] = done.mem[x]
      <3>1. x \in Int
        BY <1>3
      <3>2. x \in r + 0..r + 0 + 2 - 1 <=> x \in r..r + (off + b) - 1
        BY <1>3, <2>1, <3>1
      <3>3. done.mem[x] = IF x \in r..r + (off + b) - 1 THEN words[x - r + 1] ELSE last.mem[x]
        BY <2>3, <2>4, <2>5, <3>2
      <3>4. CASE x \in r..r + (off + b) - 1
        BY <1>8, <3>3, <3>4
      <3>5. CASE x \notin r..r + (off + b) - 1
        <4>1. x \notin last.loose
          BY <2>1, <2>3, <2>5, <3>5
        <4>2. QED BY <1>9, <2>5, <3>3, <3>5, <4>1
      <3>6. QED BY <3>4, <3>5
    <2>6. ok <=> done.ok
      BY <1>4, <2>3
    <2>7. QED BY <1>1, <1>2, <2>5, <2>6 DEF DrainOK
  <1>12. QED BY <1>1, <1>2, <1>6, <1>10, <1>11, <1>m
             DEF SimOK, MemoriesOK, ParentOK, WalkOK, FoundOK, PrimOK, Working

(* A batch record that cannot be written fails the submission.             *)
LEMMA SimRecordFails ==
  ASSUME IInv, SimOK, RecordFails
  PROVE  SimOK'
  <1> DEFINE r == parent.result
  <1>1. /\ pc = "record" /\ WriteCause(r, 2) # "OK" /\ ~ok' /\ off' = 0 /\ pc' = "drain"
        /\ UNCHANGED <<active, parent, parentCells, inBatch, child, mem, faults, mem0>>
    BY DEF RecordFails, mmioVars, fetchVars, batchVars, hostVars, PairCells
  <1>2. walk' = walk /\ last' = last /\ done' = done
    BY <1>1, SameBatch
  <1>3. /\ inBatch /\ r \in Nat /\ off \in 0..1 /\ 2 <= MaxAddr - r
    BY <1>1 DEF IInv, BatchOK, BatchFields, TypeOK, PairCells, Admitted
  <1>4. ~WriteOk(faults, r, 2)
    BY <1>1, <1>3, Writable
  <1>5. done = [ok |-> FALSE, mem |-> last.mem, loose |-> last.loose \cup r..r + 2 - 1]
    BY <1>1, <1>3, <1>4 DEF SimOK, ParentOK, RecordBatch, PairCells
  <1>6. \A x \in r..r + off - 1 : x \in r..r + 2 - 1
    BY <1>3
  <1>7. \A x \in Ram \ last.loose : x \notin r..r + off - 1 => mem[x] = last.mem[x]
    BY <1>1 DEF SimOK, RecordOK
  <1>8. DrainOK'
    BY <1>1, <1>2, <1>5, <1>6, <1>7 DEF DrainOK
  <1>9. QED BY <1>1, <1>2, <1>3, <1>8 DEF SimOK, MemoriesOK, ParentOK, WalkOK, FoundOK, PrimOK,
                                         RecordOK, Working

(* Every step keeps the simulation,                                        *)
LEMMA SimStep == IInv /\ VerdictOK /\ SimOK /\ [Next]_vars => SimOK'
  BY SimIdle, SimWaits, SimFails, SimFetch, SimSequence, SimAdmit, SimBegin, SimWrite,
     SimPrimDone, SimStreamDone, SimRecord, SimRecordFails
     DEF Next, Host, Thread, Fails

(* which holds when the device starts.                                     *)
LEMMA SimInit == Init => SimOK
  <1> SUFFICES ASSUME Init PROVE SimOK
    OBVIOUS
  <1>1. pc = "wait" /\ mem \in [Ram -> Int] /\ mem0 = mem
    BY L2Assumption DEF Init
  <1>2. QED BY <1>1 DEF SimOK, MemoriesOK, ParentOK, WalkOK, FoundOK, PrimOK, RecordOK, DrainOK,
                        Working, MemoryOf

-----------------------------------------------------------------------------
(* The refinement.                                                         *)

(* Every step is one of the contract, or changes nothing the host can see  *)
(* through it.                                                             *)
LEMMA ContractStep == IInv /\ SimOK /\ [Next]_vars => [Port!IsaNext]_Port!isaVars
  <1> SUFFICES ASSUME IInv, SimOK, [Next]_vars PROVE Port!IsaNext \/ UNCHANGED Port!isaVars
    OBVIOUS
  <1> USE DEF mmioVars, hostVars
  <1>0. BusyIffWorking /\ TypeOK
    BY DEF IInv
  <1>1. CASE UNCHANGED vars
    BY <1>1 DEF vars, Port!isaVars, Address
  <1>2. CASE WriteLo \/ WriteHi
    <2>1. UNCHANGED <<status, active, mem, mem0, faults>>
      BY <1>2 DEF WriteLo, WriteHi
    <2>2. QED BY <2>1 DEF Port!IsaNext, Port!SetRegister, Port!isaVars
  <1>3. CASE HostPrepare
    BY <1>3 DEF HostPrepare, Port!IsaNext, Port!HostOwnsMemory, Address
  <1>4. CASE Doorbell
    BY <1>4 DEF Doorbell, Port!IsaNext, Port!Submit, Address
  <1>5. CASE Finish
    <2>1. /\ pc = "drain" /\ status' = (IF ok THEN "DONE" ELSE "ERROR") /\ mem' = mem
          /\ UNCHANGED <<reg, active, faults>>
      BY <1>5 DEF Finish
    <2>2. status = "BUSY" /\ status' # "BUSY"
      BY <1>0, <2>1 DEF BusyIffWorking
    <2>3. /\ ok <=> done.ok
          /\ \A x \in Ram \ done.loose : mem[x] = done.mem[x]
      BY <2>1 DEF SimOK, DrainOK
    <2>4. DOMAIN mem = Ram /\ DOMAIN mem0 = Ram
      BY <1>0 DEF TypeOK
    <2>5. Port!Outcome(active)
      BY <2>1, <2>2, <2>3, <2>4 DEF Port!Outcome, done
    <2>6. Port!Complete
      BY <2>1, <2>2, <2>5 DEF Port!Complete, Address
    <2>7. QED BY <2>6 DEF Port!IsaNext
  <1>6. CASE Thread /\ ~Finish
    <2>1. UNCHANGED <<status, reg, active, faults, mem0>> /\ status = "BUSY"
      <3>1. CASE Fails
        BY <1>0, <3>1, FailsEffect DEF BusyIffWorking
      <3>2. CASE ~Fails
        BY <1>0, <1>6, <3>2
           DEF Thread, Fails, Wake, FetchHeader, FetchBody, RunPrimitive, Admit, NextChild,
               StreamDone, BeginProtect, Protect, ProtectDone, PrimWrite, PrimDone, Record,
               RecordFails, BusyIffWorking
      <3>3. QED BY <3>1, <3>2
    <2>2. QED BY <2>1 DEF Port!isaVars, Address
  <1>7. QED BY <1>1, <1>2, <1>3, <1>4, <1>5, <1>6 DEF Next, Host

(* The structural device keeps the contract of the functional one: every   *)
(* submission ends in the status and the memory that accelerator.cpp       *)
(* computes from the memory at the doorbell, whatever the host writes to   *)
(* the registers meanwhile, except for the cells an error leaves           *)
(* unspecified.                                                            *)
THEOREM StructuralImplementsFunctional == Spec => RefinesIsa
  <1>1. Init => Port!IsaInit
    BY DEF Init, Port!IsaInit
  <1>2. Init => VerdictOK
    BY DEF Init, VerdictOK
  <1>3. QED BY <1>1, <1>2, SimInit, SimStep, VerdictStep, AlwaysIInv, ContractStep, PTL
           DEF Spec, RefinesIsa, Port!IsaSpec
=============================================================================
