----------------------------- MODULE BareMetal -----------------------------
(***************************************************************************)
(* The RV64 side: the polling driver of software/accel_driver.c, which has *)
(* one static command buffer, and the device of                            *)
(* pcaalib/src/baremetal_device.c on top of it.  The program is one        *)
(* thread.  It submits and waits through the library, or calls the driver, *)
(* whose entry points wait themselves; it makes such a call, and it        *)
(* initialises the library again, only when the library has nothing        *)
(* pending, as the callers under software/ do.  A store the device refuses *)
(* traps, which ends the program.                                          *)
(***************************************************************************)
EXTENDS DevicePort

CONSTANTS Buffer,           \* &pending_command
          Workspace, BatchResult,           \* of the library
          CallerWorkspace, CallerResult,    \* of a caller of accel_submit_command_batch
          BatchCounts,      \* batch sizes
          WorkspaceCount,   \* the children the library's workspace holds
          MaxRequests       \* bound on submissions

ASSUME BareMetalAssumption ==
    /\ {Buffer, Workspace, BatchResult, CallerWorkspace, CallerResult} \subseteq Addresses
    \* objects of their own: a static of the driver, the caller's buffers and records
    /\ Buffer \notin {Workspace, BatchResult, CallerWorkspace, CallerResult}
    /\ Workspace # BatchResult /\ CallerWorkspace # CallerResult
    /\ \A n \in BatchCounts : n \in Nat \ {0} /\ n < NoFailure
    /\ WorkspaceCount \in Nat /\ MaxRequests \in Nat

VARIABLES context,   \* pending and pending_batch_count of the library
          place,     \* where the program is in submit_bytes or accel_wait
          request,   \* the submission being made or waited for: id, descriptor, caller
          answer,    \* what the last call returned
          requests   \* how many there were

bareVars == <<device, status, reg, active, mem, ran, context, place, request, answer, requests>>

NoRequest == [id |-> 0, descriptor |-> Junk, by |-> "none"]
Returned(call, result, record) == [call |-> call, status |-> result, record |-> record]

BareInit ==
    /\ PortInit
    /\ context = [pending |-> FALSE, count |-> 0] /\ place = "idle" /\ request = NoRequest
    /\ answer = Returned("none", "OK", Junk) /\ requests = 0

-----------------------------------------------------------------------------
(* Submission.                                                             *)

Refuse(result) == /\ answer' = Returned("submit", result, Junk)
                  /\ UNCHANGED <<portVars, mem, context, place, request>>

(* The descriptor is ready in a variable of the caller: submit_bytes next. *)
Begin(descriptor, by) ==
    /\ request' = [id |-> requests + 1, descriptor |-> descriptor, by |-> by] /\ place' = "copy"
    /\ UNCHANGED <<portVars, context, answer>>

Try == place = "idle" /\ requests < MaxRequests /\ requests' = requests + 1

(* submit_command of the library.                                          *)
BareSubmitCommand ==
    /\ Try
    /\ \/ context.pending /\ Refuse("BUSY")
       \/ ~context.pending /\ Refuse("INVALID_COMMAND")
       \/ ~context.pending /\ Begin(Command(requests + 1), "library") /\ UNCHANGED mem

(* Children and a record at rest, where a batch keeps them.                *)
WithBatch(stream, record, initial) ==
    [mem EXCEPT ![stream] = Stream(requests + 1), ![record] = initial]

(* Mutant: the workspace is written before the pending test.               *)
BareSubmitBatchEarly ==
    /\ Try
    /\ \E n \in BatchCounts :
         /\ n <= WorkspaceCount
         /\ \/ /\ context.pending /\ mem' = WithBatch(Workspace, BatchResult, Record(0, NoFailure))
               /\ answer' = Returned("submit", "BUSY", Junk)
               /\ UNCHANGED <<portVars, context, place, request>>
            \/ /\ ~context.pending /\ mem' = WithBatch(Workspace, BatchResult, Record(0, NoFailure))
               /\ Begin(Parent(requests + 1, Workspace, n, BatchResult), "library")

(* submit_batch of the library.                                            *)
BareSubmitBatch ==
    /\ Try
    /\ \E n \in BatchCounts :
         \/ context.pending /\ Refuse("BUSY")
         \/ ~context.pending /\ Refuse(IF n > WorkspaceCount THEN "NO_SPACE" ELSE "INVALID_COMMAND")
         \/ /\ ~context.pending /\ n <= WorkspaceCount
            /\ mem' = WithBatch(Workspace, BatchResult, Record(0, NoFailure))
            /\ Begin(Parent(requests + 1, Workspace, n, BatchResult), "library")

(* accel_min_add_checked and its kin, and accel_submit_command_batch.      *)
DriverCall ==
    /\ Try /\ ~context.pending
    /\ \/ Refuse("INVALID_COMMAND")
       \/ Begin(Command(requests + 1), "driver") /\ UNCHANGED mem
       \/ \E n \in BatchCounts :
            /\ mem' = WithBatch(CallerWorkspace, CallerResult, mem[CallerResult])
            /\ Begin(Parent(requests + 1, CallerWorkspace, n, CallerResult), "driver")

(* submit_bytes: the bytes, the address, the doorbell, fences between.     *)
CopyBytes ==
    /\ place = "copy" /\ place' = "address"
    /\ mem' = [mem EXCEPT ![Buffer] = request.descriptor]
    /\ UNCHANGED <<portVars, context, request, answer, requests>>

WriteAddress ==
    /\ place = "address" /\ place' = "bell"
    /\ reg' = [lo |-> Lo(Buffer), hi |-> Hi(Buffer)]
    /\ UNCHANGED <<device, status, active, ran, mem, context, request, answer, requests>>

Count(descriptor) == IF descriptor.kind = "batch" THEN descriptor.count ELSE 0

(* The library notes what is pending and returns; a driver call polls.     *)
Rung ==
    \/ /\ request.by = "library" /\ place' = "idle"
       /\ context' = [pending |-> TRUE, count |-> Count(request.descriptor)]
       /\ answer' = Returned("submit", "OK", Junk)
    \/ /\ request.by = "driver" /\ place' = "polling" /\ UNCHANGED <<context, answer>>

Doorbell == place = "bell" /\ TakeDoorbell /\ Rung /\ UNCHANGED <<request, requests>>

-----------------------------------------------------------------------------
(* Completion.                                                             *)

BareDeviceFinishes ==
    /\ EndRun
    /\ UNCHANGED <<context, place, request, answer, requests>>

(* Mutant: nothing pending is not looked at.                               *)
WaitForAnything ==
    /\ place = "idle" /\ place' = "polling"
    /\ UNCHANGED <<portVars, mem, context, request, answer, requests>>

(* wait_for_completion of the library, up to the loop of accel_wait.       *)
WaitForCompletion ==
    /\ place = "idle"
    /\ \/ context.pending /\ place' = "polling" /\ UNCHANGED answer
       \/ ~context.pending /\ answer' = Returned("wait", "NO_PENDING", Junk) /\ UNCHANGED place
    /\ UNCHANGED <<portVars, mem, context, request, requests>>

LibraryVerdict(record) ==
    IF status = "DONE" /\ (context.count = 0 \/ record = Record(context.count, NoFailure))
    THEN "OK" ELSE "DEVICE_ERROR"

(* The loop ends when STATUS is neither IDLE nor BUSY.                     *)
Poll ==
    /\ place = "polling" /\ status \in {"DONE", "ERROR"} /\ place' = "idle"
    /\ \/ /\ request.by = "library" /\ context' = [context EXCEPT !.pending = FALSE]
          /\ \E record \in {IF context.count = 0 THEN Junk ELSE mem[BatchResult]} :
               answer' = Returned("wait", LibraryVerdict(record),
                              IF record = Record(0, NoFailure) THEN Junk ELSE record)
       \/ /\ request.by = "driver" /\ UNCHANGED context
          /\ answer' = Returned("driver", IF status = "DONE" THEN "OK" ELSE "DEVICE_ERROR", Junk)
    /\ UNCHANGED <<portVars, mem, request, requests>>

(* pcaa_baremetal_device_init, as accel_set_statistics calls it.           *)
Initialise ==
    /\ place = "idle" /\ ~context.pending /\ context.count # 0
    /\ context' = [pending |-> FALSE, count |-> 0]
    /\ UNCHANGED <<portVars, mem, place, request, answer, requests>>

BareNext ==
    \/ BareSubmitCommand \/ BareSubmitBatch \/ DriverCall \/ CopyBytes \/ WriteAddress \/ Doorbell
    \/ BareDeviceFinishes \/ WaitForCompletion \/ Poll \/ Initialise

BareSpec == BareInit /\ [][BareNext]_bareVars

(* The program goes on with the call it is in, and a device that accepted  *)
(* a doorbell finishes, as L2Control!Completes and the functional model    *)
(* promise.                                                                *)
BareFairSpec == /\ BareSpec
                /\ WF_bareVars(CopyBytes \/ WriteAddress \/ Doorbell \/ Poll)
                /\ WF_bareVars(BareDeviceFinishes)

-----------------------------------------------------------------------------
(* While the device is BUSY the static buffer, the workspace and so the    *)
(* whole submission stay as they were at the doorbell; no doorbell traps;  *)
(* and an answer is about the submission it was asked for: a DONE left by  *)
(* an earlier one is never taken for it, and the library reports a batch   *)
(* result exactly when the device wrote one, unless it was refused in the  *)
(* middle of it.                                                           *)
SingleBufferSafe ==
    /\ place = "bell" => status # "BUSY"
    /\ status = "BUSY" =>
         /\ active = Buffer /\ mem[Buffer] = request.descriptor
         /\ request.descriptor.kind = "batch" => mem[request.descriptor.stream] = Stream(request.id)
    /\ answer.call \in {"wait", "driver"} /\ answer.status \in {"OK", "DEVICE_ERROR"}
       /\ place = "idle" =>
         /\ answer.status = "OK" <=> (ran.id = request.id /\ ran.ok)
         /\ answer.call = "wait" => answer.record = ran.record \/ ran.record = Torn

(* Every call that polls returns: accel_wait is never entered with a       *)
(* device that has nothing to finish.                                      *)
WaitReturns == place = "polling" ~> place = "idle"
=============================================================================
