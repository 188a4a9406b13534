----------------------------- MODULE DevicePort -----------------------------
(***************************************************************************)
(* A device as a submission library sees it: an address register written   *)
(* in two halves, a doorbell and a status, and in memory descriptors,      *)
(* child streams and batch records.  What the commands compute is the      *)
(* subject of AcceleratorOps; here a descriptor is the name of the         *)
(* submission it was encoded for, and the device may fail at any child.    *)
(***************************************************************************)
EXTENDS Naturals

CONSTANTS Devices,    \* "functional" runs within the doorbell, "structural" does not
          Half,       \* an address is hi * Half + lo
          Addresses,  \* the addresses of memory a register can name
          NoFailure   \* UINT32_MAX in failed_index

ASSUME PortAssumption == Half \in Nat \ {0} /\ Addresses \subseteq Nat /\ NoFailure \in Nat

VARIABLES device,     \* the one in use
          status,     \* STATUS
          reg,        \* DESC_ADDR_LO and DESC_ADDR_HI
          active,     \* the address of the submission being run, or 0
          mem,        \* memory
          ran         \* what became of the last submission

portVars == <<device, status, reg, active, ran>>

Junk                   == [kind |-> "junk"]
Command(id)            == [kind |-> "command", id |-> id]
Stream(id)             == [kind |-> "stream", id |-> id]
Parent(id, at, n, rec) == [kind |-> "batch", id |-> id, stream |-> at, count |-> n, record |-> rec]
Record(done, failed)   == [kind |-> "record", completed |-> done, failed |-> failed]
Torn                   == [kind |-> "torn"]

Lo(address) == address % Half
Hi(address) == address \div Half

(* What became of a submission: the one the device really ran, or 0 for    *)
(* bytes of two; whether it succeeded; the record it wrote, Junk or Torn.  *)
Ran(id, ok, record) == [id |-> id, ok |-> ok, record |-> record]
NotRun == Ran(0, FALSE, Junk)

Refused == [mem |-> mem, ran |-> NotRun]

(* The record of the children completed, when it can be written.  The      *)
(* structural device stores it in beats, and an access may be refused      *)
(* between two of them.                                                    *)
Recorded(batch, run) ==
    {[mem |-> [mem EXCEPT ![batch.record] = run.record], ran |-> run],
     [mem |-> mem, ran |-> Ran(run.id, FALSE, Junk)]}
    \cup {[mem |-> [mem EXCEPT ![batch.record] = Record(run.record.completed, NoFailure)],
           ran |-> Ran(run.id, FALSE, Torn)] : d \in {device} \cap {"structural"}}

(* execute_batch, on a stream of the same submission or of another.        *)
RunsOfBatch(batch) ==
    LET same == mem[batch.stream] = Stream(batch.id)
        done == Ran(batch.id, TRUE, Record(batch.count, NoFailure))
        at(k) == Ran(IF same THEN batch.id ELSE 0, FALSE, Record(k, k))
    IN  UNION ({Recorded(batch, at(k)) : k \in 0..batch.count - 1}
                 \cup (IF same THEN {Recorded(batch, done)} ELSE {}))

(* execute: everything the device may do with the descriptor at address.   *)
Runs(address) ==
    IF address \notin Addresses THEN {Refused}
    ELSE CASE mem[address].kind = "command" ->
                {[mem |-> mem, ran |-> Ran(mem[address].id, ok, Junk)] : ok \in BOOLEAN}
           [] mem[address].kind = "batch" ->
                RunsOfBatch(mem[address]) \cup {Refused}
           [] OTHER -> {Refused}

PortInit == /\ device \in Devices /\ status = "IDLE" /\ reg = [lo |-> 0, hi |-> 0] /\ active = 0
            /\ mem = [a \in Addresses |-> Junk] /\ ran = NotRun

Finish(run) == /\ status' = IF run.ran.ok THEN "DONE" ELSE "ERROR"
               /\ mem' = run.mem /\ ran' = run.ran /\ active' = 0

(* A doorbell is taken unless the device is BUSY.                          *)
TakeDoorbell ==
    LET address == reg.hi * Half + reg.lo
    IN  /\ status # "BUSY"
        /\ \/ /\ device = "functional" /\ \E run \in Runs(address) : Finish(run)
           \/ /\ device = "structural" /\ status' = "BUSY" /\ active' = address
              /\ UNCHANGED <<mem, ran>>
        /\ UNCHANGED <<device, reg>>

EndRun == /\ status = "BUSY" /\ \E run \in Runs(active) : Finish(run)
          /\ UNCHANGED <<device, reg>>
=============================================================================
