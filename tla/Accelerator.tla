---------------------------- MODULE Accelerator ----------------------------
(***************************************************************************)
(* The functional device model of accelerator/src/accelerator.cpp behind   *)
(* its MMIO port: the doorbell write executes the submission and returns   *)
(* when it is complete.                                                    *)
(***************************************************************************)
EXTENDS AcceleratorOps

CONSTANTS Half, LoWords, HiWords,   \* an address is hi * Half + lo; what the host writes
          Images, FaultSets,        \* memories and access faults the host sets up
          MaxSubmissions            \* bound on doorbells

ASSUME AcceleratorAssumption == Half \in Nat /\ MaxSubmissions \in Nat

VARIABLES status, reg,     \* status_, descriptor_address_
          mem, faults,     \* guest memory and its access faults
          submissions,
          loose            \* cells the last submission left unspecified

vars == <<status, reg, mem, faults, submissions, loose>>

Address == reg.hi * Half + reg.lo

Init == /\ status = "IDLE" /\ reg = [lo |-> 0, hi |-> 0]
        /\ mem \in Images /\ faults \in FaultSets /\ submissions = 0
        /\ loose = {}

WriteLo == /\ \E lo \in LoWords : reg' = [reg EXCEPT !.lo = lo]
           /\ UNCHANGED <<status, mem, faults, submissions, loose>>
WriteHi == /\ \E hi \in HiWords : reg' = [reg EXCEPT !.hi = hi]
           /\ UNCHANGED <<status, mem, faults, submissions, loose>>

(* An error leaves the memory that execute() had written by then.          *)
Doorbell == /\ status # "BUSY" /\ submissions < MaxSubmissions
            /\ \E done \in {Execute(Address, mem, faults)} :
                   /\ status' = IF done.ok THEN "DONE" ELSE "ERROR"
                   /\ mem' = done.mem /\ loose' = done.loose
            /\ submissions' = submissions + 1
            /\ UNCHANGED <<reg, faults>>

HostPrepare == /\ submissions \in 1..MaxSubmissions - 1
               /\ mem' \in Images /\ faults' \in FaultSets
               /\ UNCHANGED <<status, reg, submissions, loose>>

Next == WriteLo \/ WriteHi \/ Doorbell \/ HostPrepare

Spec == Init /\ [][Next]_vars

=============================================================================
