---------------------------- MODULE BatchReplay ----------------------------
(***************************************************************************)
(* A batch against its children: after a batch the same children are       *)
(* submitted one by one to a second functional device with the memory the  *)
(* first one had, as many of them as the batch record says have completed. *)
(***************************************************************************)
EXTENDS Accelerator

(* Every memory is all of RAM.                                             *)
ASSUME ReplayAssumption == \A m \in Images : DOMAIN m = Ram

VARIABLES twin,       \* memory of the second device
          at, left,   \* descriptor it gets next, children it still has to get
          record,     \* cells of the record of the batch that is replayed
          twinOk      \* all its submissions ended in DONE

replayVars == <<twin, at, left, record, twinOk>>

ReplayInit == Init /\ twin = mem /\ at = 0 /\ left = 0 /\ record = {} /\ twinOk = TRUE

(* The batch at the address register, if its record can be written and is  *)
(* clear of the stream and of the descriptor.                              *)
SubmittedBatches ==
    {batch \in {Decoded[d] : d \in CommandAt(mem, faults, Address, MaxCells)} :
       /\ batch.kind = "batch" /\ Admitted(batch, Address, EncodedSize(batch))
       /\ WriteOk(faults, batch.result, PairCells)}

RecordCells(batch) == batch.result..batch.result + PairCells - 1

SubmitBatch == /\ left = 0 /\ Doorbell
               /\ \E batch \in SubmittedBatches :
                    /\ twin' = mem /\ record' = RecordCells(batch)
                    /\ at' = batch.stream /\ left' = mem'[batch.result] /\ twinOk' = TRUE

SubmitOther == /\ left = 0 /\ Doorbell /\ SubmittedBatches = {}
               /\ twin' = mem' /\ record' = {} /\ UNCHANGED <<at, left, twinOk>>

SubmitChild == /\ left > 0
               /\ \E done \in {Execute(at, twin, faults)} :
                    twin' = done.mem /\ twinOk' = (twinOk /\ done.ok)
               /\ \E d \in CommandAt(twin, faults, at, MaxCells) : at' = at + DescriptorCells(d)
               /\ left' = left - 1
               /\ UNCHANGED <<vars, record>>

HostStep == /\ left = 0
            /\ \/ WriteLo /\ UNCHANGED <<twin, record>>
               \/ WriteHi /\ UNCHANGED <<twin, record>>
               \/ HostPrepare /\ twin' = mem' /\ record' = {}
            /\ UNCHANGED <<at, left, twinOk>>

ReplayNext == SubmitBatch \/ SubmitOther \/ SubmitChild \/ HostStep

ReplaySpec == ReplayInit /\ [][ReplayNext]_<<vars, replayVars>>

-----------------------------------------------------------------------------
(* Properties.                                                             *)

(* MAS invariants 11 and 12, execute_batch: the first word of the record   *)
(* tells how many children have completed.  They have done to memory what  *)
(* they do when submitted one after the other, each seeing the results of  *)
(* the one before, and beyond that the batch has touched its record, and a *)
(* failed one at most the outputs of the child that failed.                *)
RecordTellsPrefix ==
    /\ twinOk
    /\ left = 0 => \A x \in Ram \ record :
                      mem[x] = twin[x] \/ (status = "ERROR" /\ x \in loose)
=============================================================================
