---------------------------- MODULE IsaContract ----------------------------
(***************************************************************************)
(* What a host may rely on at the MMIO port, whatever model of the device  *)
(* is behind it: one submission at a time, of the descriptor the address   *)
(* register named at the doorbell, ending in DONE with exactly the memory  *)
(* Execute computes, or in ERROR with that memory except for  *)
(* the cells an error leaves unspecified.                                  *)
(***************************************************************************)
CONSTANT Execute(_, _, _)   \* what a descriptor does to a memory with faults

VARIABLES status,   \* STATUS
          reg,      \* the address in DESC_ADDR_LO/HI
          active,   \* the address snapshot of the submission being executed, or 0
          mem,      \* memory as a host that waits for completion sees it
          faults    \* the cells whose access fails

isaVars == <<status, reg, active, mem, faults>>

IsaInit == status = "IDLE" /\ active = 0

(* The register may be written at any time, BUSY or not.                   *)
SetRegister == /\ reg' # reg
               /\ UNCHANGED <<status, active, mem, faults>>

(* Between submissions memory belongs to the host.                         *)
HostOwnsMemory == /\ status # "BUSY"
                  /\ UNCHANGED <<status, reg, active>>

Submit == /\ status # "BUSY"
          /\ status' = "BUSY" /\ active' = reg
          /\ UNCHANGED <<reg, mem, faults>>

Outcome(descriptor) ==
    LET done == Execute(descriptor, mem, faults)
    IN  /\ status' = IF done.ok THEN "DONE" ELSE "ERROR"
        /\ DOMAIN mem' = DOMAIN mem
        /\ \A x \in DOMAIN mem \ done.loose : mem'[x] = done.mem[x]

Complete == /\ status = "BUSY" /\ status' # "BUSY" /\ active' = 0
            /\ Outcome(active)
            /\ UNCHANGED <<reg, faults>>

(* A device may also finish before the doorbell write returns.             *)
SubmitAndComplete == /\ status # "BUSY" /\ status' # "BUSY" /\ active' = 0
                     /\ Outcome(reg)
                     /\ UNCHANGED <<reg, faults>>

IsaNext == SetRegister \/ HostOwnsMemory \/ Submit \/ Complete \/ SubmitAndComplete

IsaSpec == IsaInit /\ [][IsaNext]_isaVars
=============================================================================
