---------------------------- MODULE HostDevice ----------------------------
(***************************************************************************)
(* The hosted submission library: the dispatch of pcaalib/src/device.c,    *)
(* PcaaSystemCDevice of pcaalib/src/systemc_device.cpp, which stages       *)
(* descriptors in memory its owner allocates, and a device behind the      *)
(* port.  Any access to memory or to a register may be refused, and then   *)
(* has no effect.                                                          *)
(***************************************************************************)
EXTENDS DevicePort, Sequences

CONSTANTS First, Limit,     \* the storage the owner hands out
          Counts,           \* batch sizes
          MaxSubmissions    \* bound on the submissions tried

ASSUME HostAssumption == /\ First \in Nat /\ Limit \in Nat
                         /\ First..Limit \subseteq Addresses /\ 0 \notin First..Limit
                         /\ \A n \in Counts : n \in Nat \ {0} /\ n < NoFailure
                         /\ MaxSubmissions \in Nat

VARIABLES host,      \* pending_, pending_batch_count_, batch_result_address_
          next,      \* the owner's allocator
          pc, sub,   \* where ring() is, and the submission being made
          reply,     \* what the last call of the library returned
          tried

vars == <<device, status, reg, active, mem, ran, host, next, pc, sub, reply, tried>>

NoSubmission == [id |-> 0, address |-> 0, count |-> 0, record |-> 0]
Reply(call, result, id, record) ==
    [call |-> call, status |-> result, id |-> id, record |-> record]

Init == /\ PortInit
        /\ host = [pending |-> FALSE, id |-> 0, count |-> 0, record |-> 0] /\ next = First
        /\ pc = "idle" /\ sub = NoSubmission
        /\ reply = Reply("none", "OK", 0, Junk) /\ tried = 0

Answer(call, result, id, record) == reply' = Reply(call, result, id, record)

-----------------------------------------------------------------------------
(* Submission.                                                             *)

(* The descriptors of a submission in the order they are staged: the       *)
(* command, or the child stream, the record as it is before the device has *)
(* written it, and the parent.                                             *)
CommandWords(id) == <<Command(id)>>

(* Mutant: the record keeps what an earlier batch left there.              *)
BatchWordsKeepingRecord(id, n) ==
    <<Stream(id), IF next + 1 \in Addresses THEN mem[next + 1] ELSE Junk,
      Parent(id, next, n, next + 1)>>

BatchWords(id, n) == <<Stream(id), Record(0, NoFailure), Parent(id, next, n, next + 1)>>

(* Memory with the first k of the words at the storage allocated for them. *)
Staged(words, k) ==
    [a \in Addresses |-> IF a \in next..next + k - 1 THEN words[a - next + 1] ELSE mem[a]]

Submission(id, words, count) ==
    [id |-> id, address |-> next + Len(words) - 1, count |-> count, record |-> next + 1]

(* submit_command and submit_batch up to ring(): the command is refused,   *)
(* the storage does not suffice, one of the stores is refused, or all is   *)
(* staged.                                                                 *)
Stage(words, count) ==
    /\ pc = "idle" /\ tried < MaxSubmissions /\ tried' = tried + 1
    /\ \/ /\ host.pending
          /\ Answer("submit", "BUSY", 0, Junk) /\ UNCHANGED <<mem, next, pc, sub>>
       \/ /\ ~host.pending
          /\ Answer("submit", "INVALID_COMMAND", 0, Junk) /\ UNCHANGED <<mem, next, pc, sub>>
       \/ /\ ~host.pending /\ next + Len(words) - 1 > Limit
          /\ Answer("submit", "NO_SPACE", 0, Junk) /\ next' = Limit + 1
          /\ UNCHANGED <<mem, pc, sub>>
       \/ /\ ~host.pending /\ next + Len(words) - 1 <= Limit
          /\ next' = next + Len(words)
          /\ \/ \E k \in 0..Len(words) - 1 : mem' = Staged(words, k)
                /\ Answer("submit", "MEMORY_ERROR", 0, Junk) /\ UNCHANGED <<pc, sub>>
             \/ /\ mem' = Staged(words, Len(words))
                /\ pc' = "lo" /\ sub' = Submission(tried + 1, words, count) /\ UNCHANGED reply
    /\ UNCHANGED <<portVars, host>>

SubmitCommand == Stage(CommandWords(tried + 1), 0)
SubmitBatch   == \E n \in Counts : Stage(BatchWords(tried + 1, n), n)

(* An MMIO write of ring() refused: nothing is pending.                    *)
RingRefused ==
    /\ pc' = "idle" /\ sub' = NoSubmission
    /\ Answer("submit", "TRANSPORT_ERROR", 0, Junk)
    /\ UNCHANGED <<portVars, mem, host, next, tried>>

(* ring(): the address in two halves, then the doorbell.                   *)
RingLo ==
    /\ pc = "lo"
    /\ \/ RingRefused
       \/ /\ reg' = [reg EXCEPT !.lo = Lo(sub.address)] /\ pc' = "hi"
          /\ UNCHANGED <<device, status, active, ran, mem, host, next, sub, reply, tried>>

(* Mutant: the upper half is written only when it is not zero.             *)
RingHiIfNonzero ==
    /\ pc = "hi"
    /\ \/ RingRefused
       \/ /\ reg' = IF Hi(sub.address) = 0 THEN reg ELSE [reg EXCEPT !.hi = Hi(sub.address)]
          /\ pc' = "bell"
          /\ UNCHANGED <<device, status, active, ran, mem, host, next, sub, reply, tried>>

RingHi ==
    /\ pc = "hi"
    /\ \/ RingRefused
       \/ /\ reg' = [reg EXCEPT !.hi = Hi(sub.address)] /\ pc' = "bell"
          /\ UNCHANGED <<device, status, active, ran, mem, host, next, sub, reply, tried>>

Pend == host' = [pending |-> TRUE, id |-> sub.id, count |-> sub.count, record |-> sub.record]

RingDoorbell ==
    /\ pc = "bell"
    /\ \/ RingRefused
       \/ /\ TakeDoorbell /\ Pend
          /\ pc' = "idle" /\ sub' = NoSubmission
          /\ Answer("submit", "OK", sub.id, Junk)
          /\ UNCHANGED <<next, tried>>

-----------------------------------------------------------------------------
(* Completion.                                                             *)

DeviceFinishes ==
    /\ EndRun
    /\ UNCHANGED <<host, next, pc, sub, reply, tried>>

(* Whether the record says anything: it is no longer as submit_batch left  *)
(* it.                                                                     *)
Written(record) == record # Record(0, NoFailure)

Verdict(record) ==
    IF status = "DONE" /\ (host.count = 0 \/ record = Record(host.count, NoFailure))
    THEN "OK" ELSE "DEVICE_ERROR"

(* wait(): STATUS, then for a batch the record.                            *)
Wait ==
    /\ pc = "idle"
    /\ \/ /\ ~host.pending /\ Answer("wait", "NO_PENDING", 0, Junk) /\ UNCHANGED host
       \/ /\ host.pending /\ Answer("wait", "TRANSPORT_ERROR", host.id, Junk) /\ UNCHANGED host
       \/ /\ host.pending /\ status \in {"IDLE", "BUSY"}
          /\ Answer("wait", "BUSY", host.id, Junk) /\ UNCHANGED host
       \/ /\ host.pending /\ status \in {"DONE", "ERROR"}
          /\ host' = [host EXCEPT !.pending = FALSE]
          /\ \/ host.count = 0 /\ Answer("wait", Verdict(Junk), host.id, Junk)
             \/ host.count # 0 /\ Answer("wait", "MEMORY_ERROR", host.id, Junk)
             \/ /\ host.count # 0
                /\ \E record \in {mem[host.record]} :
                     Answer("wait", Verdict(record), host.id,
                            IF Written(record) THEN record ELSE Junk)
    /\ UNCHANGED <<portVars, mem, next, pc, sub, tried>>

(* begin_batch of the owner: the storage of ended submissions is used      *)
(* again, with what they left in it.                                       *)
Recycle == /\ pc = "idle" /\ ~host.pending /\ next # First /\ next' = First
           /\ UNCHANGED <<portVars, mem, host, pc, sub, reply, tried>>

Next == \/ SubmitCommand \/ SubmitBatch \/ RingLo \/ RingHi \/ RingDoorbell
        \/ DeviceFinishes \/ Wait \/ Recycle

Spec == Init /\ [][Next]_vars

-----------------------------------------------------------------------------
(* While the device is BUSY it runs the descriptor of the one submission   *)
(* the library waits for: never an address put together from two, and      *)
(* never storage that has been staged again under it.                      *)
RunsWhatIsPending ==
    status = "BUSY" =>
        /\ host.pending /\ active \in Addresses
        /\ mem[active].kind \in {"command", "batch"} /\ mem[active].id = host.id
        /\ host.count # 0 => /\ mem[active] = Parent(host.id, active - 2, host.count, host.record)
                             /\ mem[active - 2] = Stream(host.id)

(* A final answer of wait() is about the submission it was waiting for: OK *)
(* only if the device ran all of that one, DEVICE_ERROR only if it did     *)
(* not; and a batch result is reported exactly when the device wrote a     *)
(* record, as it wrote it, unless an access was refused in the middle of   *)
(* the record.                                                             *)
WaitTellsTruth ==
    reply.call = "wait" /\ reply.status \in {"OK", "DEVICE_ERROR"} =>
        /\ reply.status = "OK" <=> (ran.id = reply.id /\ ran.ok)
        /\ ran.id \in {0, reply.id}
        /\ reply.record = ran.record \/ ran.record = Torn
=============================================================================
