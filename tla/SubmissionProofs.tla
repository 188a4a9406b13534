-------------------------- MODULE SubmissionProofs --------------------------
(***************************************************************************)
(* Proofs about the two submission libraries, the hosted one and the       *)
(* bare-metal driver with its library, for every device, storage, batch    *)
(* size, workspace and number of submissions.                              *)
(*                                                                         *)
(* Both drive the same device, and the first part is about it: what a run  *)
(* makes of a submission that is whole in memory, and how an address       *)
(* survives being written in two halves.  The invariant of the hosted      *)
(* library follows a submission from its staging to the answer of wait().  *)
(* What makes the one static buffer of the driver enough is that the       *)
(* program is in no call and has nothing pending whenever it starts a      *)
(* submission, and that both are known only through STATUS: its invariant  *)
(* ties the place in the program to what the device is doing.              *)
(***************************************************************************)
EXTENDS HostDevice, BareMetal, TLAPS

-----------------------------------------------------------------------------
(* The device behind both libraries.                                       *)

(* A descriptor is in memory, and for a batch its stream with it.          *)
Loaded(id, address, stream, count, record) ==
    /\ address \in Addresses
    /\ \/ count = 0 /\ mem[address] = Command(id)
       \/ /\ count \in Nat \ {0} /\ count < NoFailure
          /\ mem[address] = Parent(id, stream, count, record)
          /\ mem[stream] = Stream(id) /\ record \in Addresses

(* What a submission of the given size came to: in the device's history    *)
(* and in the word at its record, which held another word before.          *)
OutcomeOf(run, before, word, id, count) ==
    /\ run.id \in {0, id} /\ run.ok \in BOOLEAN
    /\ run.ok => run.id = id
    /\ count = 0 => run.record = Junk
    /\ count # 0 => \/ run.record = Junk /\ ~run.ok /\ word = before
                    \/ run.record = Torn /\ ~run.ok
                    \/ /\ run.record = word /\ word # Record(0, NoFailure)
                       /\ run.ok <=> word = Record(count, NoFailure)

(* Storing the record of a batch, which may fail as a whole or half-way.   *)
LEMMA StoredOutcome ==
    ASSUME DOMAIN mem = Addresses,
           NEW batch, NEW wish, NEW id, NEW count,
           batch.record \in Addresses,
           count # 0, wish.id = id, wish.ok \in BOOLEAN,
           wish.record # Record(0, NoFailure),
           wish.ok <=> wish.record = Record(count, NoFailure),
           NEW run \in Recorded(batch, wish)
    PROVE  /\ OutcomeOf(run.ran, mem[batch.record], run.mem[batch.record], id, count)
           /\ DOMAIN run.mem = Addresses
           /\ \A a \in Addresses : a # batch.record => run.mem[a] = mem[a]
<1>1. CASE run = [mem |-> [mem EXCEPT ![batch.record] = wish.record], ran |-> wish]
  <2>1. /\ run.ran = wish /\ run.mem[batch.record] = wish.record /\ DOMAIN run.mem = Addresses
        /\ \A a \in Addresses : a # batch.record => run.mem[a] = mem[a]
    BY <1>1
  <2> QED
    BY <2>1 DEF OutcomeOf
<1>2. CASE run = [mem |-> mem, ran |-> Ran(id, FALSE, Junk)]
  BY <1>2 DEF OutcomeOf, Ran
<1>3. CASE run = [mem |-> [mem EXCEPT ![batch.record] = Record(wish.record.completed, NoFailure)],
                  ran |-> Ran(id, FALSE, Torn)]
  BY <1>3 DEF OutcomeOf, Ran
<1> QED
  BY <1>1, <1>2, <1>3 DEF Recorded

(* The device run on a submission: an outcome of that submission, no cell  *)
(* of memory added or lost, and none written but the record.               *)
LEMMA RunOutcome ==
    ASSUME DOMAIN mem = Addresses,
           NEW id, NEW address, NEW stream, NEW count, NEW record,
           Loaded(id, address, stream, count, record),
           NEW run \in Runs(address)
    PROVE  /\ OutcomeOf(run.ran, mem[record], run.mem[record], id, count)
           /\ DOMAIN run.mem = Addresses
           /\ \A a \in Addresses : a # record => run.mem[a] = mem[a]
<1>1. CASE count = 0
  <2>1. /\ address \in Addresses /\ mem[address].kind = "command" /\ mem[address].id = id
    BY <1>1 DEF Loaded, Command
  <2>2. PICK ok \in BOOLEAN : run = [mem |-> mem, ran |-> Ran(id, ok, Junk)]
    BY <2>1 DEF Runs
  <2> QED
    BY <1>1, <2>2 DEF OutcomeOf, Ran
<1>2. CASE count # 0
  <2> DEFINE batch == Parent(id, stream, count, record)
  <2>1. /\ address \in Addresses /\ record \in Addresses
        /\ count \in Nat \ {0} /\ count < NoFailure
        /\ mem[address] = batch /\ mem[stream] = Stream(id)
    BY <1>2 DEF Loaded
  <2>2. /\ batch.kind = "batch" /\ batch.id = id /\ batch.stream = stream
        /\ batch.count = count /\ batch.record = record
    BY DEF Parent
  <2> HIDE DEF batch
  <2>6. /\ batch.record \in Addresses /\ mem[batch.stream] = Stream(batch.id)
    BY <2>1, <2>2
  <2>3. run \in RunsOfBatch(batch) \cup {Refused}
    BY <2>1, <2>2 DEF Runs
  <2>4. CASE run = Refused
    BY <1>2, <2>1, <2>4 DEF Refused, NotRun, Ran, OutcomeOf
  <2>5. CASE run \in RunsOfBatch(batch)
    <3> DEFINE done == Ran(id, TRUE, Record(count, NoFailure))
               at(k) == Ran(id, FALSE, Record(k, k))
               Good == /\ OutcomeOf(run.ran, mem[batch.record], run.mem[batch.record], id, count)
                       /\ DOMAIN run.mem = Addresses
                       /\ \A a \in Addresses : a # batch.record => run.mem[a] = mem[a]
    <3>1. \/ run \in Recorded(batch, done)
          \/ \E k \in 0..count - 1 : run \in Recorded(batch, at(k))
      <4>1. run \in UNION ({Recorded(batch, at(k)) : k \in 0..count - 1} \cup {Recorded(batch, done)})
        BY <2>2, <2>5, <2>6 DEF RunsOfBatch
      <4> HIDE DEF at, done
      <4> QED
        BY <4>1
    <3>2. ASSUME run \in Recorded(batch, done) PROVE Good
      <4>1. /\ done.id = id /\ done.ok \in BOOLEAN
            /\ done.record # Record(0, NoFailure)
            /\ done.ok <=> done.record = Record(count, NoFailure)
        BY <2>1 DEF Ran, Record
      <4> HIDE DEF done
      <4> QED
        BY <1>2, <2>6, <3>2, <4>1, StoredOutcome
    <3>3. ASSUME NEW k \in 0..count - 1, run \in Recorded(batch, at(k))
          PROVE  Good
      <4>1. /\ at(k).id = id /\ at(k).ok \in BOOLEAN
            /\ at(k).record # Record(0, NoFailure)
            /\ at(k).ok <=> at(k).record = Record(count, NoFailure)
        BY <2>1, PortAssumption DEF Ran, Record
      <4> HIDE DEF at
      <4> QED
        BY <1>2, <2>6, <3>3, <4>1, StoredOutcome
    <3>4. Good
      BY <3>1, <3>2, <3>3
    <3> QED
      BY <2>2, <3>4
  <2> QED
    BY <2>3, <2>4, <2>5
<1> QED
  BY <1>1, <1>2

(* Ending a run, in the doorbell write or later.                           *)
LEMMA RunEnds ==
    ASSUME DOMAIN mem = Addresses,
           NEW id, NEW address, NEW stream, NEW count, NEW record,
           Loaded(id, address, stream, count, record),
           \E run \in Runs(address) : Finish(run)
    PROVE  /\ DOMAIN mem' = Addresses /\ active' = 0
           /\ status' = IF ran'.ok THEN "DONE" ELSE "ERROR"
           /\ OutcomeOf(ran', mem[record], mem'[record], id, count)
           /\ \A a \in Addresses : a # record => mem'[a] = mem[a]
<1>1. PICK run \in Runs(address) : Finish(run)
  OBVIOUS
<1>2. /\ OutcomeOf(run.ran, mem[record], run.mem[record], id, count)
      /\ DOMAIN run.mem = Addresses
      /\ \A a \in Addresses : a # record => run.mem[a] = mem[a]
  BY RunOutcome
<1> QED
  BY <1>1, <1>2 DEF Finish

(* An address is put together again from the halves the library wrote.     *)
LEMMA HalvesJoin ==
    ASSUME NEW address \in Addresses
    PROVE  /\ Hi(address) * Half + Lo(address) = address
           /\ Hi(address) \in Nat /\ Lo(address) \in Nat
BY PortAssumption DEF Hi, Lo

-----------------------------------------------------------------------------
(* The hosted library.                                                     *)

(* Descriptor and, for a batch, stream and untouched record are in place.  *)
StagedAt(id, address, count, record) ==
    /\ address \in Addresses
    /\ \/ count = 0 /\ mem[address] = Command(id)
       \/ /\ count \in Nat \ {0} /\ count < NoFailure
          /\ address - 2 \in Addresses /\ record = address - 1 /\ record \in Addresses
          /\ mem[address] = Parent(id, address - 2, count, record)
          /\ mem[address - 2] = Stream(id)
          /\ mem[record] = Record(0, NoFailure)

(* While ring() writes, nothing is pending, and the halves written so far  *)
(* are those of the submission.                                            *)
RingOK ==
    pc # "idle" =>
        /\ ~host.pending /\ sub.id \in Nat \ {0} /\ sub.record \in Nat
        /\ StagedAt(sub.id, sub.address, sub.count, sub.record)
        /\ pc \in {"hi", "bell"} => reg.lo = Lo(sub.address)
        /\ pc = "bell" => reg.hi = Hi(sub.address)

(* A BUSY device is at work on what is pending.                            *)
BusyOK ==
    status = "BUSY" =>
        host.pending /\ StagedAt(host.id, active, host.count, host.record)

(* A device that has ended the pending submission tells what it came to.   *)
EndedOK ==
    host.pending /\ status # "BUSY" =>
        /\ status = IF ran.ok THEN "DONE" ELSE "ERROR"
        /\ OutcomeOf(ran, Record(0, NoFailure), mem[host.record], host.id, host.count)

(* A final answer is about the last submission, which is pending no more.  *)
AnswerOK == /\ WaitTellsTruth
            /\ reply.call = "wait" /\ reply.status \in {"OK", "DEVICE_ERROR"} => ~host.pending

HostType == /\ pc \in {"idle", "lo", "hi", "bell"}
            /\ next \in Nat /\ (next <= Limit => First <= next)
            /\ tried \in Nat
            /\ status \in {"IDLE", "BUSY", "DONE", "ERROR"}
            /\ host \in [pending : BOOLEAN, id : Nat, count : Nat, record : Nat]
            /\ reg \in [lo : Nat, hi : Nat]
            /\ DOMAIN mem = Addresses

HostInv == HostType /\ RingOK /\ BusyOK /\ EndedOK /\ AnswerOK

-----------------------------------------------------------------------------
(* Steps that leave all of this alone.                                     *)
LEMMA StagedStays ==
    ASSUME mem' = mem, NEW id, NEW address, NEW count, NEW record
    PROVE  StagedAt(id, address, count, record)' <=> StagedAt(id, address, count, record)
BY DEF StagedAt, Command, Parent, Stream, Record

(* What submit_command and submit_batch put into memory is a submission    *)
(* as ring() and the device expect it.                                     *)
LEMMA StagingWorks ==
    ASSUME HostType, NEW words, NEW count, next + Len(words) - 1 <= Limit,
           \/ count = 0 /\ words = CommandWords(tried + 1)
           \/ count \in Counts /\ words = BatchWords(tried + 1, count),
           mem' = Staged(words, Len(words)),
           NEW id, NEW address, NEW record,
           id = tried + 1, address = next + Len(words) - 1, record = next + 1
    PROVE  StagedAt(id, address, count, record)'
<1>1. next \in Nat /\ Addresses \subseteq Nat /\ First..Limit \subseteq Addresses
  BY HostAssumption, PortAssumption DEF HostType
<1>2. CASE count = 0 /\ words = CommandWords(tried + 1)
  <2>1. Len(words) = 1 /\ words[1] = Command(tried + 1)
    BY <1>2 DEF CommandWords
  <2>2. next \in Addresses
    BY <1>1, <2>1, HostAssumption DEF HostType
  <2>3. mem'[next] = Command(tried + 1)
    BY <1>1, <2>1, <2>2 DEF Staged
  <2>4. address = next
    BY <1>1, <2>1
  <2>5. address \in Addresses /\ mem'[address] = Command(id)
    BY <2>2, <2>3, <2>4
  <2> QED
    BY <1>2, <2>5 DEF StagedAt, Command
<1>3. CASE count \in Counts /\ words = BatchWords(tried + 1, count)
  <2>1. /\ Len(words) = 3 /\ words[1] = Stream(tried + 1) /\ words[2] = Record(0, NoFailure)
        /\ words[3] = Parent(tried + 1, next, count, next + 1)
    BY <1>3 DEF BatchWords
  <2>2. next \in Addresses /\ next + 1 \in Addresses /\ next + 2 \in Addresses
    BY <1>1, <2>1, HostAssumption DEF HostType
  <2>3. /\ mem'[next] = Stream(tried + 1) /\ mem'[next + 1] = Record(0, NoFailure)
        /\ mem'[next + 2] = Parent(tried + 1, next, count, next + 1)
    BY <1>1, <2>1, <2>2 DEF Staged
  <2>4. count \in Nat \ {0} /\ count < NoFailure
    BY <1>3, HostAssumption
  <2>5. address = next + 2 /\ address - 2 = next /\ address - 1 = next + 1
    BY <1>1, <2>1
  <2>6. /\ address \in Addresses /\ address - 2 \in Addresses
        /\ record = address - 1 /\ record \in Addresses
        /\ mem'[address] = Parent(id, address - 2, count, record)
        /\ mem'[address - 2] = Stream(id) /\ mem'[record] = Record(0, NoFailure)
    BY <2>2, <2>3, <2>5
  <2> QED
    BY <2>4, <2>6 DEF StagedAt, Stream, Parent, Record
<1> QED
  BY <1>2, <1>3

LEMMA StageStep ==
    ASSUME HostInv, NEW words, NEW count, Stage(words, count),
           \/ count = 0 /\ words = CommandWords(tried + 1)
           \/ count \in Counts /\ words = BatchWords(tried + 1, count)
    PROVE  HostInv'
<1> USE DEF HostInv
<1>1. /\ pc = "idle" /\ tried' = tried + 1
      /\ UNCHANGED <<device, status, reg, active, ran, host>>
  BY DEF Stage, portVars
<1>2. Len(words) \in {1, 3}
  BY DEF CommandWords, BatchWords
<1>3. ASSUME UNCHANGED <<mem, pc, sub>>, reply'.call = "submit", next' \in {next, Limit + 1}
      PROVE  HostInv'
  <2>1. HostType'
    BY <1>1, <1>3, HostAssumption DEF HostType
  <2>2. RingOK' /\ AnswerOK'
    BY <1>1, <1>3 DEF RingOK, AnswerOK, WaitTellsTruth
  <2>3. BusyOK'
    BY <1>1, <1>3, StagedStays DEF BusyOK
  <2>4. EndedOK'
    BY <1>1, <1>3 DEF EndedOK, OutcomeOf, Junk, Torn, Record
  <2> QED
    BY <2>1, <2>2, <2>3, <2>4
<1>4. ASSUME ~host.pending, next + Len(words) - 1 <= Limit, next' = next + Len(words),
             NEW k \in 0..Len(words) - 1, mem' = Staged(words, k),
             reply'.call = "submit", UNCHANGED <<pc, sub>>
      PROVE  HostInv'
  <2>1. HostType'
    BY <1>1, <1>2, <1>4, HostAssumption DEF HostType, Staged
  <2>2. RingOK' /\ AnswerOK' /\ BusyOK' /\ EndedOK'
    BY <1>1, <1>4 DEF RingOK, AnswerOK, BusyOK, EndedOK, WaitTellsTruth
  <2> QED
    BY <2>1, <2>2
<1>5. ASSUME ~host.pending, next + Len(words) - 1 <= Limit, next' = next + Len(words),
             mem' = Staged(words, Len(words)), pc' = "lo",
             sub' = Submission(tried + 1, words, count), reply' = reply
      PROVE  HostInv'
  <2>1. HostType'
    BY <1>1, <1>2, <1>5, HostAssumption DEF HostType, Staged
  <2>2. RingOK'
    <3>0. PICK id, address, record :
             id = tried + 1 /\ address = next + Len(words) - 1 /\ record = next + 1
      OBVIOUS
    <3>1. sub'.id = id /\ sub'.address = address /\ sub'.count = count /\ sub'.record = record
      BY <1>5, <3>0 DEF Submission
    <3>2. StagedAt(id, address, count, record)'
      BY <1>5, <3>0, StagingWorks
    <3>3. StagedAt(sub.id, sub.address, sub.count, sub.record)'
      BY <3>1, <3>2 DEF StagedAt
    <3> QED
      BY <1>1, <1>5, <3>0, <3>1, <3>3 DEF RingOK, HostType
  <2>3. BusyOK' /\ EndedOK'
    BY <1>1, <1>5 DEF BusyOK, EndedOK
  <2>4. AnswerOK'
    BY <1>1, <1>5 DEF AnswerOK, WaitTellsTruth, Torn
  <2> QED
    BY <2>1, <2>2, <2>3, <2>4
<1> QED
  BY <1>3, <1>4, <1>5 DEF Stage, Answer, Reply

(* Ending a run, in the doorbell write or later, of what is pending.       *)
LEMMA EndStep ==
    ASSUME DOMAIN mem = Addresses, NEW address, NEW id, NEW count, NEW record,
           StagedAt(id, address, count, record),
           \E run \in Runs(address) : Finish(run)
    PROVE  /\ DOMAIN mem' = Addresses
           /\ status' = IF ran'.ok THEN "DONE" ELSE "ERROR"
           /\ OutcomeOf(ran', Record(0, NoFailure), mem'[record], id, count)
<1>1. CASE count = 0
  BY <1>1, RunEnds DEF StagedAt, Loaded, OutcomeOf
<1>2. CASE count # 0
  <2>1. Loaded(id, address, address - 2, count, record) /\ mem[record] = Record(0, NoFailure)
    BY <1>2 DEF StagedAt, Loaded
  <2> QED
    BY <2>1, RunEnds
<1> QED
  BY <1>1, <1>2

LEMMA RingRefusedStep == HostInv /\ RingRefused => HostInv'
<1> SUFFICES ASSUME HostInv, RingRefused PROVE HostInv'
  OBVIOUS
<1> USE DEF HostInv
<1>1. /\ pc' = "idle" /\ reply'.call = "submit"
      /\ UNCHANGED <<device, status, reg, active, ran, mem, host, next, tried>>
  BY DEF RingRefused, Answer, Reply, portVars
<1>2. HostType' /\ RingOK' /\ AnswerOK'
  BY <1>1 DEF HostType, RingOK, AnswerOK, WaitTellsTruth
<1>3. BusyOK'
  BY <1>1, StagedStays DEF BusyOK
<1>4. EndedOK'
  BY <1>1 DEF EndedOK, OutcomeOf, Junk, Torn, Record
<1> QED
  BY <1>2, <1>3, <1>4

LEMMA RingHalfStep == HostInv /\ (RingLo \/ RingHi) => HostInv'
<1> SUFFICES ASSUME HostInv, RingLo \/ RingHi, ~RingRefused PROVE HostInv'
  BY RingRefusedStep
<1> USE DEF HostInv
<1>1. UNCHANGED <<device, status, active, ran, mem, host, next, sub, reply, tried>>
  BY DEF RingLo, RingHi
<1>2. /\ ~host.pending /\ pc # "idle" /\ sub.address \in Addresses
      /\ StagedAt(sub.id, sub.address, sub.count, sub.record)
  BY DEF RingLo, RingHi, RingOK, StagedAt
<1>3. Lo(sub.address) \in Nat /\ Hi(sub.address) \in Nat
  BY <1>2, HalvesJoin
<1>4. HostType'
  BY <1>1, <1>3 DEF HostType, RingLo, RingHi
<1>5. RingOK'
  <2>1. StagedAt(sub.id, sub.address, sub.count, sub.record)'
    BY <1>1, <1>2 DEF StagedAt, Command, Parent, Stream, Record
  <2>2. CASE RingLo
    BY <1>1, <1>2, <2>1, <2>2 DEF HostType, RingLo, RingOK, Lo, Hi
  <2>3. CASE RingHi
    BY <1>1, <1>2, <2>1, <2>3 DEF HostType, RingHi, RingOK, Lo, Hi
  <2> QED
    BY <2>2, <2>3
<1>6. BusyOK' /\ EndedOK'
  BY <1>1, <1>2 DEF BusyOK, EndedOK
<1>7. AnswerOK'
  BY <1>1 DEF AnswerOK, WaitTellsTruth, Torn
<1> QED
  BY <1>4, <1>5, <1>6, <1>7

LEMMA DoorbellStep == HostInv /\ RingDoorbell => HostInv'
<1> SUFFICES ASSUME HostInv, RingDoorbell, ~RingRefused PROVE HostInv'
  BY RingRefusedStep
<1> USE DEF HostInv
<1>1. /\ pc = "bell" /\ pc' = "idle" /\ TakeDoorbell /\ reply'.call = "submit"
      /\ host' = [pending |-> TRUE, id |-> sub.id, count |-> sub.count, record |-> sub.record]
      /\ UNCHANGED <<next, tried, reg>>
  BY DEF RingDoorbell, Answer, Reply, Pend, TakeDoorbell
<1>2. /\ StagedAt(sub.id, sub.address, sub.count, sub.record) /\ sub.id \in Nat \ {0}
      /\ sub.address \in Addresses
      /\ reg.lo = Lo(sub.address) /\ reg.hi = Hi(sub.address)
  BY <1>1 DEF RingOK, StagedAt
<1>3. reg.hi * Half + reg.lo = sub.address
  BY <1>2, HalvesJoin
<1>4. sub.count \in Nat /\ sub.record \in Nat
  BY <1>1, <1>2 DEF RingOK, StagedAt
<1>5. RingOK' /\ AnswerOK'
  BY <1>1 DEF RingOK, AnswerOK, WaitTellsTruth
<1>6. CASE device = "functional" /\ \E run \in Runs(sub.address) : Finish(run)
  <2>1. /\ DOMAIN mem' = Addresses
        /\ status' = IF ran'.ok THEN "DONE" ELSE "ERROR"
        /\ OutcomeOf(ran', Record(0, NoFailure), mem'[sub.record], sub.id, sub.count)
    BY <1>2, <1>6, EndStep DEF HostType
  <2>2. HostType' /\ BusyOK'
    BY <1>1, <1>2, <1>4, <2>1 DEF HostType, BusyOK
  <2>3. EndedOK'
    BY <1>1, <2>1 DEF EndedOK, OutcomeOf, Junk, Torn, Record
  <2> QED
    BY <1>5, <2>2, <2>3
<1>7. CASE status' = "BUSY" /\ active' = sub.address /\ UNCHANGED mem
  <2>1. HostType' /\ EndedOK'
    BY <1>1, <1>2, <1>4, <1>7 DEF HostType, EndedOK
  <2>2. BusyOK'
    BY <1>1, <1>2, <1>7 DEF BusyOK, StagedAt, Command, Parent, Stream, Record
  <2> QED
    BY <1>5, <2>1, <2>2
<1> QED
  BY <1>1, <1>3, <1>6, <1>7 DEF TakeDoorbell

LEMMA FinishStep == HostInv /\ DeviceFinishes => HostInv'
<1> SUFFICES ASSUME HostInv, DeviceFinishes PROVE HostInv'
  OBVIOUS
<1> USE DEF HostInv
<1>1. /\ status = "BUSY" /\ \E run \in Runs(active) : Finish(run)
      /\ UNCHANGED <<reg, host, next, pc, sub, reply, tried>>
  BY DEF DeviceFinishes, EndRun
<1>2. host.pending /\ StagedAt(host.id, active, host.count, host.record)
  BY <1>1 DEF BusyOK
<1>3. /\ DOMAIN mem' = Addresses
      /\ status' = IF ran'.ok THEN "DONE" ELSE "ERROR"
      /\ OutcomeOf(ran', Record(0, NoFailure), mem'[host.record], host.id, host.count)
  BY <1>1, <1>2, EndStep DEF HostType
<1>4. HostType' /\ BusyOK'
  BY <1>1, <1>3 DEF HostType, BusyOK
<1>5. RingOK'
  BY <1>1, <1>2 DEF RingOK
<1>6. EndedOK'
  BY <1>1, <1>3 DEF EndedOK, OutcomeOf, Junk, Torn, Record
<1>7. AnswerOK'
  BY <1>1, <1>2 DEF AnswerOK, WaitTellsTruth
<1> QED
  BY <1>4, <1>5, <1>6, <1>7

(* wait() reads the verdict of the device and, for a batch, the word the   *)
(* device may have written.                                                *)
LEMMA WaitStep == HostInv /\ Wait => HostInv'
<1> SUFFICES ASSUME HostInv, Wait PROVE HostInv'
  OBVIOUS
<1> USE DEF HostInv
<1>1. /\ pc = "idle" /\ pc' = "idle"
      /\ UNCHANGED <<device, status, reg, active, ran, mem, next, sub, tried>>
  BY DEF Wait, portVars
<1>2. CASE /\ UNCHANGED host /\ reply'.call = "wait"
           /\ reply'.status \notin {"OK", "DEVICE_ERROR"}
  <2>1. HostType' /\ RingOK' /\ AnswerOK'
    BY <1>1, <1>2 DEF HostType, RingOK, AnswerOK, WaitTellsTruth
  <2>2. BusyOK'
    BY <1>1, <1>2, StagedStays DEF BusyOK
  <2>3. EndedOK'
    BY <1>1, <1>2 DEF EndedOK, OutcomeOf, Junk, Torn, Record
  <2> QED
    BY <2>1, <2>2, <2>3
<1>3. CASE /\ host.pending /\ status \in {"DONE", "ERROR"}
           /\ host' = [host EXCEPT !.pending = FALSE]
           /\ \/ host.count = 0 /\ Answer("wait", Verdict(Junk), host.id, Junk)
              \/ Answer("wait", "MEMORY_ERROR", host.id, Junk)
              \/ /\ host.count # 0
                 /\ \E record \in {mem[host.record]} :
                      Answer("wait", Verdict(record), host.id,
                             IF Written(record) THEN record ELSE Junk)
  <2>1. HostType' /\ RingOK' /\ BusyOK' /\ EndedOK' /\ ~host'.pending
    BY <1>1, <1>3 DEF HostType, RingOK, BusyOK, EndedOK
  <2>2. /\ status = IF ran.ok THEN "DONE" ELSE "ERROR"
        /\ OutcomeOf(ran, Record(0, NoFailure), mem[host.record], host.id, host.count)
    BY <1>3 DEF EndedOK
  <2>3. CASE host.count = 0 /\ Answer("wait", Verdict(Junk), host.id, Junk)
    <3>1. /\ ran.id \in {0, host.id} /\ ran.record = Junk
          /\ ran.ok => ran.id = host.id
      BY <2>2, <2>3 DEF OutcomeOf
    <3>2. reply'.id = host.id /\ reply'.record = Junk /\ reply'.status = Verdict(Junk)
      BY <2>3 DEF Answer, Reply
    <3>3. Verdict(Junk) = IF ran.ok THEN "OK" ELSE "DEVICE_ERROR"
      BY <2>2, <2>3 DEF Verdict
    <3> QED
      BY <1>1, <2>1, <2>2, <3>1, <3>2, <3>3 DEF AnswerOK, WaitTellsTruth, OutcomeOf, Junk
  <2>4. CASE Answer("wait", "MEMORY_ERROR", host.id, Junk)
    BY <2>1, <2>4 DEF AnswerOK, WaitTellsTruth, Answer, Reply
  <2>5. CASE /\ host.count # 0
             /\ Answer("wait", Verdict(mem[host.record]), host.id,
                       IF Written(mem[host.record]) THEN mem[host.record] ELSE Junk)
    <3> DEFINE word == mem[host.record]
    <3>1. /\ reply'.id = host.id /\ reply'.status = Verdict(word)
          /\ reply'.record = IF Written(word) THEN word ELSE Junk
      BY <2>5 DEF Answer, Reply
    <3>2. Verdict(word) = IF ran.ok THEN "OK" ELSE "DEVICE_ERROR"
      BY <2>2, <2>5 DEF Verdict, OutcomeOf
    <3>3. \/ reply'.record = ran.record
          \/ ran.record = Torn
      BY <2>2, <2>5, <3>1 DEF OutcomeOf, Written
    <3> HIDE DEF word
    <3> QED
      BY <1>1, <2>1, <2>2, <3>1, <3>2, <3>3 DEF AnswerOK, WaitTellsTruth, OutcomeOf, Torn
  <2> QED
    BY <1>3, <2>1, <2>3, <2>4, <2>5
<1> QED
  BY <1>2, <1>3 DEF Wait, Answer, Reply

-----------------------------------------------------------------------------
(* The inductive invariant, of systemc_device.cpp with any device behind   *)
(* it: submissions are staged whole before the first register is written,  *)
(* and stay so until the device has ended them.                            *)
THEOREM HostInvariant == Spec => []HostInv
<1>1. Init => HostInv
  <2> SUFFICES ASSUME Init PROVE HostInv
    OBVIOUS
  <2>1. HostType
    BY HostAssumption DEF Init, PortInit, HostType
  <2>2. RingOK /\ BusyOK /\ EndedOK /\ AnswerOK
    BY DEF Init, PortInit, RingOK, BusyOK, EndedOK, AnswerOK, WaitTellsTruth, Reply
  <2> QED
    BY <2>1, <2>2 DEF HostInv
<1>2. HostInv /\ [Next]_vars => HostInv'
  <2> SUFFICES ASSUME HostInv, [Next]_vars PROVE HostInv'
    OBVIOUS
  <2>1. CASE SubmitCommand
    BY <2>1, StageStep DEF SubmitCommand
  <2>2. CASE SubmitBatch
    BY <2>2, StageStep DEF SubmitBatch
  <2>3. CASE RingLo \/ RingHi
    BY <2>3, RingHalfStep
  <2>4. CASE RingDoorbell
    BY <2>4, DoorbellStep
  <2>5. CASE DeviceFinishes
    BY <2>5, FinishStep
  <2>6. CASE Wait
    BY <2>6, WaitStep
  <2>7. CASE Recycle \/ UNCHANGED vars
    <3> USE DEF HostInv
    <3>1. /\ next' \in {next, First}
          /\ UNCHANGED <<device, status, reg, active, ran, mem, host, pc, sub, reply, tried>>
      BY <2>7 DEF Recycle, portVars, vars
    <3>2. HostType'
      BY <3>1, HostAssumption DEF HostType
    <3>3. BusyOK'
      BY <3>1, StagedStays DEF BusyOK
    <3>4. RingOK'
      BY <3>1 DEF RingOK, StagedAt, Command, Parent, Stream, Record, Lo, Hi
    <3>5. EndedOK'
      BY <3>1 DEF EndedOK, OutcomeOf, Junk, Torn, Record
    <3>6. AnswerOK'
      BY <3>1 DEF AnswerOK, WaitTellsTruth, Torn
    <3> QED
      BY <3>2, <3>3, <3>4, <3>5, <3>6
  <2> QED
    BY <2>1, <2>2, <2>3, <2>4, <2>5, <2>6, <2>7 DEF Next
<1> QED
  BY <1>1, <1>2, PTL DEF Spec

(* ring() never lets the device loose on anything but the submission that  *)
(* becomes pending, and its storage is left alone while the device works.  *)
THEOREM DeviceRunsWhatIsPending == Spec => []RunsWhatIsPending
<1>1. HostInv => RunsWhatIsPending
  <2> SUFFICES ASSUME HostInv, status = "BUSY"
               PROVE  /\ host.pending /\ active \in Addresses
                      /\ mem[active].kind \in {"command", "batch"} /\ mem[active].id = host.id
                      /\ host.count # 0 =>
                           /\ mem[active] = Parent(host.id, active - 2, host.count, host.record)
                           /\ mem[active - 2] = Stream(host.id)
    BY DEF RunsWhatIsPending
  <2>1. host.pending /\ StagedAt(host.id, active, host.count, host.record)
    BY DEF HostInv, BusyOK
  <2>2. CASE host.count = 0
    BY <2>1, <2>2 DEF StagedAt, Command
  <2>3. CASE host.count # 0
    <3>1. /\ active \in Addresses /\ mem[active - 2] = Stream(host.id)
          /\ mem[active] = Parent(host.id, active - 2, host.count, host.record)
      BY <2>1, <2>3 DEF StagedAt
    <3>2. mem[active].kind = "batch" /\ mem[active].id = host.id
      BY <3>1 DEF Parent
    <3> QED
      BY <2>1, <3>1, <3>2
  <2> QED
    BY <2>2, <2>3
<1> QED
  BY <1>1, HostInvariant, PTL

(* What PcaaSystemCDevice::wait reports last about a submission is what    *)
(* the device did with that submission.                                    *)
THEOREM WaitIsTruthful == Spec => []WaitTellsTruth
<1>1. HostInv => WaitTellsTruth
  BY DEF HostInv, AnswerOK
<1> QED
  BY <1>1, HostInvariant, PTL

-----------------------------------------------------------------------------
(* The bare-metal driver and library.                                      *)

(* The descriptor of the current submission and where its parts are kept.  *)
LibraryBatch(n) ==
    /\ request.by = "library" /\ request.descriptor = Parent(request.id, Workspace, n, BatchResult)
    /\ mem[Workspace] = Stream(request.id) /\ mem[BatchResult] = Record(0, NoFailure)

DriverBatch(n) ==
    /\ request.by = "driver"
    /\ request.descriptor = Parent(request.id, CallerWorkspace, n, CallerResult)
    /\ mem[CallerWorkspace] = Stream(request.id)

Prepared ==
    /\ request.by \in {"library", "driver"}
    /\ \/ request.descriptor = Command(request.id)
       \/ \E n \in BatchCounts : LibraryBatch(n) \/ DriverBatch(n)

(* While a submission is being made nothing runs and nothing is pending.   *)
MakingOK ==
    place \in {"copy", "address", "bell"} =>
        /\ status # "BUSY" /\ ~context.pending /\ Prepared
        /\ place # "copy" => mem[Buffer] = request.descriptor
        /\ place = "bell" => reg = [lo |-> Lo(Buffer), hi |-> Hi(Buffer)]

(* The submission is with the device: the driver polls for it, or the      *)
(* library has it pending.                                                 *)
Given == place = "polling" \/ context.pending

PendingOK ==
    /\ context.pending => request.by = "library" /\ context.count = Count(request.descriptor)
    /\ place = "polling" => request.by = "driver" \/ context.pending

(* A BUSY device runs the buffer.                                          *)
BareBusyOK ==
    status = "BUSY" => Given /\ active = Buffer /\ mem[Buffer] = request.descriptor /\ Prepared

(* A device that is not BUSY has ended what it was given.                  *)
BareEndedOK ==
    Given /\ status # "BUSY" =>
        /\ status = IF ran.ok THEN "DONE" ELSE "ERROR"
        /\ ran.id \in {0, request.id} /\ ran.ok \in BOOLEAN
        /\ ran.ok => ran.id = request.id
        /\ context.pending =>
             OutcomeOf(ran, Record(0, NoFailure), mem[BatchResult], request.id, context.count)

(* A final answer is about the last submission, which is pending no more.  *)
Final == /\ answer.call \in {"wait", "driver"} /\ answer.status \in {"OK", "DEVICE_ERROR"}
         /\ place = "idle"

FinalOK ==
    Final => /\ ~context.pending
             /\ answer.status = "OK" <=> (ran.id = request.id /\ ran.ok)
             /\ answer.call = "wait" => answer.record = ran.record \/ ran.record = Torn

BareType == /\ place \in {"idle", "copy", "address", "bell", "polling"}
            /\ status \in {"IDLE", "BUSY", "DONE", "ERROR"}
            /\ context \in [pending : BOOLEAN, count : Nat]
            /\ DOMAIN mem = Addresses

BareInv == BareType /\ MakingOK /\ PendingOK /\ BareBusyOK /\ BareEndedOK /\ FinalOK

-----------------------------------------------------------------------------
(* A step that leaves memory and the submission alone.                     *)
LEMMA PreparedStays ==
    ASSUME UNCHANGED <<mem, request>>, Prepared
    PROVE  Prepared'
BY DEF Prepared, LibraryBatch, DriverBatch, Command, Parent, Stream, Record

LEMMA EndedStays ==
    ASSUME UNCHANGED <<status, ran, mem, request, context>>, BareEndedOK, Given' => Given
    PROVE  BareEndedOK'
BY DEF BareEndedOK, OutcomeOf, Junk, Torn, Record

(* Running what the buffer holds, in the doorbell write or later.          *)
LEMMA BufferRuns ==
    ASSUME DOMAIN mem = Addresses, Prepared, mem[Buffer] = request.descriptor,
           \E run \in Runs(Buffer) : Finish(run)
    PROVE  /\ DOMAIN mem' = Addresses
           /\ status' = IF ran'.ok THEN "DONE" ELSE "ERROR"
           /\ ran'.id \in {0, request.id} /\ ran'.ok \in BOOLEAN
           /\ ran'.ok => ran'.id = request.id
           /\ request.by = "library" =>
                OutcomeOf(ran', Record(0, NoFailure), mem'[BatchResult],
                          request.id, Count(request.descriptor))
<1>1. Buffer \in Addresses /\ BatchResult \in Addresses /\ CallerResult \in Addresses
  BY BareMetalAssumption
<1>2. CASE request.descriptor = Command(request.id)
  <2>1. Loaded(request.id, Buffer, Workspace, 0, BatchResult)
    BY <1>1, <1>2 DEF Loaded
  <2>2. Count(request.descriptor) = 0
    BY <1>2 DEF Command, Count
  <2> QED
    BY <2>1, <2>2, RunEnds DEF OutcomeOf
<1>3. ASSUME NEW n \in BatchCounts, LibraryBatch(n)
      PROVE  /\ DOMAIN mem' = Addresses
             /\ status' = IF ran'.ok THEN "DONE" ELSE "ERROR"
             /\ OutcomeOf(ran', Record(0, NoFailure), mem'[BatchResult],
                          request.id, Count(request.descriptor))
  <2>1. /\ Loaded(request.id, Buffer, Workspace, n, BatchResult)
        /\ mem[BatchResult] = Record(0, NoFailure)
    BY <1>1, <1>3, BareMetalAssumption DEF Loaded, LibraryBatch
  <2>2. Count(request.descriptor) = n
    BY <1>3 DEF LibraryBatch, Parent, Count
  <2> QED
    BY <2>1, <2>2, RunEnds
<1>4. ASSUME NEW n \in BatchCounts, DriverBatch(n)
      PROVE  /\ DOMAIN mem' = Addresses
             /\ status' = IF ran'.ok THEN "DONE" ELSE "ERROR"
             /\ OutcomeOf(ran', mem[CallerResult], mem'[CallerResult], request.id, n)
             /\ request.by # "library"
  <2>1. Loaded(request.id, Buffer, CallerWorkspace, n, CallerResult)
    BY <1>1, <1>4, BareMetalAssumption DEF Loaded, DriverBatch
  <2> QED
    BY <1>4, <2>1, RunEnds DEF DriverBatch
<1> QED
  BY <1>2, <1>3, <1>4 DEF Prepared, OutcomeOf

-----------------------------------------------------------------------------
(* A call that is refused changes its answer only.                         *)
LEMMA RefuseStep ==
    ASSUME BareInv, NEW result, Refuse(result) PROVE BareInv'
<1> USE DEF BareInv
<1>1. /\ UNCHANGED <<device, status, reg, active, ran, mem, context, place, request>>
      /\ answer'.call = "submit"
  BY DEF Refuse, Returned, portVars
<1>2. BareType' /\ PendingOK' /\ FinalOK'
  BY <1>1 DEF BareType, PendingOK, FinalOK, Final, Count
<1>3. MakingOK' /\ BareBusyOK'
  BY <1>1, PreparedStays DEF MakingOK, BareBusyOK, Given, Lo, Hi
<1>4. BareEndedOK'
  BY <1>1, EndedStays DEF Given
<1> QED
  BY <1>2, <1>3, <1>4

(* Putting the children of a batch in place.                               *)
LEMMA BatchInPlace ==
    ASSUME DOMAIN mem = Addresses, NEW stream \in Addresses, NEW record \in Addresses,
           stream # record, NEW initial, mem' = WithBatch(stream, record, initial)
    PROVE  /\ DOMAIN mem' = Addresses
           /\ mem'[stream] = Stream(requests + 1) /\ mem'[record] = initial
BY DEF WithBatch

(* A submission is begun when nothing is pending, so nothing runs either.  *)
LEMMA BeginStep ==
    ASSUME BareInv, place = "idle", ~context.pending,
           NEW descriptor, NEW by, Begin(descriptor, by),
           DOMAIN mem' = Addresses, Prepared'
    PROVE  BareInv'
<1> USE DEF BareInv
<1>1. /\ place' = "copy" /\ UNCHANGED <<device, status, reg, active, ran, context>>
  BY DEF Begin, portVars
<1>2. status # "BUSY"
  BY DEF BareBusyOK, Given
<1> QED
  BY <1>1, <1>2 DEF BareType, MakingOK, PendingOK, BareBusyOK, BareEndedOK, FinalOK, Given, Final

LEMMA BareSubmitCommandStep == BareInv /\ BareSubmitCommand => BareInv'
<1> SUFFICES ASSUME BareInv, BareSubmitCommand PROVE BareInv'
  OBVIOUS
<1>1. CASE \E result : Refuse(result)
  BY <1>1, RefuseStep
<1>2. CASE ~context.pending /\ Begin(Command(requests + 1), "library") /\ UNCHANGED mem
  <2>1. place = "idle" /\ DOMAIN mem' = Addresses
    BY <1>2 DEF BareSubmitCommand, Try, BareInv, BareType
  <2>2. Prepared'
    BY <1>2 DEF Begin, Prepared, Command
  <2> QED
    BY <1>2, <2>1, <2>2, BeginStep
<1> QED
  BY <1>1, <1>2 DEF BareSubmitCommand

LEMMA BareSubmitBatchStep == BareInv /\ BareSubmitBatch => BareInv'
<1> SUFFICES ASSUME BareInv, BareSubmitBatch PROVE BareInv'
  OBVIOUS
<1>1. CASE \E result : Refuse(result)
  BY <1>1, RefuseStep
<1>2. ASSUME NEW n \in BatchCounts, ~context.pending,
             mem' = WithBatch(Workspace, BatchResult, Record(0, NoFailure)),
             Begin(Parent(requests + 1, Workspace, n, BatchResult), "library")
      PROVE  BareInv'
  <2>1. place = "idle" /\ DOMAIN mem = Addresses
    BY DEF BareSubmitBatch, Try, BareInv, BareType
  <2>2. /\ DOMAIN mem' = Addresses
        /\ mem'[Workspace] = Stream(requests + 1) /\ mem'[BatchResult] = Record(0, NoFailure)
    BY <1>2, <2>1, BatchInPlace, BareMetalAssumption
  <2>3. Prepared'
    BY <1>2, <2>2 DEF Begin, Prepared, LibraryBatch, Parent, Stream, Record
  <2> QED
    BY <1>2, <2>1, <2>2, <2>3, BeginStep
<1> QED
  BY <1>1, <1>2 DEF BareSubmitBatch

LEMMA DriverCallStep == BareInv /\ DriverCall => BareInv'
<1> SUFFICES ASSUME BareInv, DriverCall PROVE BareInv'
  OBVIOUS
<1>1. place = "idle" /\ ~context.pending /\ DOMAIN mem = Addresses
  BY DEF DriverCall, Try, BareInv, BareType
<1>2. CASE Refuse("INVALID_COMMAND")
  BY <1>2, RefuseStep
<1>3. CASE Begin(Command(requests + 1), "driver") /\ UNCHANGED mem
  <2>1. Prepared'
    BY <1>3 DEF Begin, Prepared, Command
  <2> QED
    BY <1>1, <1>3, <2>1, BeginStep
<1>4. ASSUME NEW n \in BatchCounts,
             mem' = WithBatch(CallerWorkspace, CallerResult, mem[CallerResult]),
             Begin(Parent(requests + 1, CallerWorkspace, n, CallerResult), "driver")
      PROVE  BareInv'
  <2>1. DOMAIN mem' = Addresses /\ mem'[CallerWorkspace] = Stream(requests + 1)
    BY <1>1, <1>4, BatchInPlace, BareMetalAssumption
  <2>2. Prepared'
    BY <1>4, <2>1 DEF Begin, Prepared, DriverBatch, Parent, Stream
  <2> QED
    BY <1>1, <1>4, <2>1, <2>2, BeginStep
<1> QED
  BY <1>2, <1>3, <1>4 DEF DriverCall

-----------------------------------------------------------------------------
(* submit_bytes: the copy touches neither children nor record.             *)
LEMMA CopyStep == BareInv /\ CopyBytes => BareInv'
<1> SUFFICES ASSUME BareInv, CopyBytes PROVE BareInv'
  OBVIOUS
<1> USE DEF BareInv
<1>1. /\ place = "copy" /\ place' = "address" /\ mem' = [mem EXCEPT ![Buffer] = request.descriptor]
      /\ UNCHANGED <<device, status, reg, active, ran, context, request, answer, requests>>
  BY DEF CopyBytes, portVars
<1>2. status # "BUSY" /\ ~context.pending /\ Prepared
  BY <1>1 DEF MakingOK
<1>3. /\ DOMAIN mem' = Addresses /\ mem'[Buffer] = request.descriptor
      /\ \A a \in {Workspace, BatchResult, CallerWorkspace} : mem'[a] = mem[a]
  BY <1>1, BareMetalAssumption DEF BareType
<1>4. Prepared'
  BY <1>1, <1>2, <1>3 DEF Prepared, LibraryBatch, DriverBatch, Command, Parent, Stream, Record
<1> QED
  BY <1>1, <1>2, <1>3, <1>4
     DEF BareType, MakingOK, PendingOK, BareBusyOK, BareEndedOK, FinalOK, Given, Final

LEMMA AddressStep == BareInv /\ WriteAddress => BareInv'
<1> SUFFICES ASSUME BareInv, WriteAddress PROVE BareInv'
  OBVIOUS
<1> USE DEF BareInv
<1>1. /\ place = "address" /\ place' = "bell" /\ reg' = [lo |-> Lo(Buffer), hi |-> Hi(Buffer)]
      /\ UNCHANGED <<device, status, active, ran, mem, context, request, answer, requests>>
  BY DEF WriteAddress
<1>2. status # "BUSY" /\ ~context.pending /\ Prepared' /\ mem[Buffer] = request.descriptor
  BY <1>1, PreparedStays DEF MakingOK
<1> QED
  BY <1>1, <1>2
     DEF BareType, MakingOK, PendingOK, BareBusyOK, BareEndedOK, FinalOK, Given, Final, Lo, Hi

LEMMA BareDoorbellStep == BareInv /\ Doorbell => BareInv'
<1> SUFFICES ASSUME BareInv, Doorbell PROVE BareInv'
  OBVIOUS
<1> USE DEF BareInv
<1>1. /\ place = "bell" /\ TakeDoorbell /\ Rung /\ UNCHANGED <<request, requests>>
  BY DEF Doorbell
<1>2. /\ ~context.pending /\ Prepared /\ mem[Buffer] = request.descriptor
      /\ reg = [lo |-> Lo(Buffer), hi |-> Hi(Buffer)]
  BY <1>1 DEF MakingOK
<1>3. reg.hi * Half + reg.lo = Buffer
  BY <1>2, HalvesJoin, BareMetalAssumption
<1>4. Count(request.descriptor) \in Nat
  <2>1. CASE request.descriptor = Command(request.id)
    BY <2>1 DEF Count, Command
  <2>2. ASSUME NEW n \in BatchCounts, LibraryBatch(n) \/ DriverBatch(n)
        PROVE  Count(request.descriptor) \in Nat
    BY <2>2, BareMetalAssumption DEF LibraryBatch, DriverBatch, Count, Parent
  <2> QED
    BY <1>2, <2>1, <2>2 DEF Prepared
<1>5. /\ context' \in [pending : BOOLEAN, count : Nat] /\ place' \in {"idle", "polling"}
      /\ Given' /\ PendingOK' /\ FinalOK'
      /\ context'.pending => request.by = "library" /\ context'.count = Count(request.descriptor)
  <2>1. CASE /\ request.by = "library" /\ place' = "idle"
             /\ context' = [pending |-> TRUE, count |-> Count(request.descriptor)]
             /\ answer' = Returned("submit", "OK", Junk)
    <3>1. context'.pending /\ context'.count = Count(request.descriptor) /\ answer'.call = "submit"
      BY <2>1 DEF Returned
    <3>2. Count(request.descriptor)' = Count(request.descriptor)
      BY <1>1 DEF Count
    <3>3. context' \in [pending : BOOLEAN, count : Nat]
      BY <1>4, <2>1
    <3> QED
      BY <1>1, <2>1, <3>1, <3>2, <3>3 DEF Given, PendingOK, FinalOK, Final
  <2>2. CASE request.by = "driver" /\ place' = "polling" /\ UNCHANGED <<context, answer>>
    BY <1>1, <1>2, <2>2 DEF Given, PendingOK, FinalOK, Final, BareType
  <2> QED
    BY <1>1, <2>1, <2>2 DEF Rung
<1>6. CASE device = "functional" /\ \E run \in Runs(Buffer) : Finish(run)
  <2>1. /\ DOMAIN mem' = Addresses
        /\ status' = IF ran'.ok THEN "DONE" ELSE "ERROR"
        /\ ran'.id \in {0, request.id} /\ ran'.ok \in BOOLEAN
        /\ ran'.ok => ran'.id = request.id
        /\ request.by = "library" =>
             OutcomeOf(ran', Record(0, NoFailure), mem'[BatchResult],
                       request.id, Count(request.descriptor))
    BY <1>2, <1>6, BufferRuns DEF BareType
  <2>2. BareType' /\ MakingOK' /\ BareBusyOK'
    BY <1>5, <2>1 DEF BareType, MakingOK, BareBusyOK
  <2>3. BareEndedOK'
    BY <1>1, <1>5, <2>1 DEF BareEndedOK, OutcomeOf, Junk, Torn, Record
  <2> QED
    BY <1>5, <2>2, <2>3
<1>7. CASE status' = "BUSY" /\ active' = Buffer /\ UNCHANGED mem
  <2>1. Prepared'
    BY <1>1, <1>2, <1>7, PreparedStays
  <2> QED
    BY <1>1, <1>2, <1>5, <1>7, <2>1 DEF BareType, MakingOK, BareBusyOK, BareEndedOK
<1> QED
  BY <1>1, <1>3, <1>6, <1>7 DEF TakeDoorbell

LEMMA BareFinishStep == BareInv /\ BareDeviceFinishes => BareInv'
<1> SUFFICES ASSUME BareInv, BareDeviceFinishes PROVE BareInv'
  OBVIOUS
<1> USE DEF BareInv
<1>1. /\ status = "BUSY" /\ \E run \in Runs(active) : Finish(run)
      /\ UNCHANGED <<reg, context, place, request, answer, requests>>
  BY DEF BareDeviceFinishes, EndRun
<1>2. Given /\ active = Buffer /\ mem[Buffer] = request.descriptor /\ Prepared
  BY <1>1 DEF BareBusyOK
<1>3. /\ DOMAIN mem' = Addresses
      /\ status' = IF ran'.ok THEN "DONE" ELSE "ERROR"
      /\ ran'.id \in {0, request.id} /\ ran'.ok \in BOOLEAN
      /\ ran'.ok => ran'.id = request.id
      /\ request.by = "library" =>
           OutcomeOf(ran', Record(0, NoFailure), mem'[BatchResult],
                     request.id, Count(request.descriptor))
  BY <1>1, <1>2, BufferRuns DEF BareType
<1>4. BareType' /\ BareBusyOK'
  BY <1>1, <1>3 DEF BareType, BareBusyOK
<1>5. MakingOK' /\ FinalOK'
  BY <1>1, <1>2 DEF MakingOK, FinalOK, Final, Given
<1>6. PendingOK'
  BY <1>1 DEF PendingOK, Count
<1>7. BareEndedOK'
  BY <1>1, <1>3 DEF PendingOK, BareEndedOK, OutcomeOf, Junk, Torn, Record
<1> QED
  BY <1>4, <1>5, <1>6, <1>7

-----------------------------------------------------------------------------
LEMMA WaitForCompletionStep == BareInv /\ WaitForCompletion => BareInv'
<1> SUFFICES ASSUME BareInv, WaitForCompletion PROVE BareInv'
  OBVIOUS
<1> USE DEF BareInv
<1>1. /\ place = "idle"
      /\ UNCHANGED <<device, status, reg, active, ran, mem, context, request, requests>>
      /\ \/ context.pending /\ place' = "polling" /\ UNCHANGED answer
         \/ /\ ~context.pending /\ place' = "idle"
            /\ answer'.status = "NO_PENDING"
  BY DEF WaitForCompletion, Returned, portVars
<1>2. Given' <=> Given
  BY <1>1 DEF Given
<1>3. BareType' /\ PendingOK' /\ FinalOK' /\ MakingOK'
  BY <1>1 DEF BareType, PendingOK, FinalOK, Final, Count, MakingOK
<1>4. BareBusyOK'
  BY <1>1, <1>2, PreparedStays DEF BareBusyOK
<1>5. BareEndedOK'
  BY <1>1, <1>2, EndedStays
<1> QED
  BY <1>3, <1>4, <1>5

(* The loop of accel_wait ends: the verdict of the device and, for a batch *)
(* of the library, the word the device may have written.                   *)
LEMMA PollStep == BareInv /\ Poll => BareInv'
<1> SUFFICES ASSUME BareInv, Poll PROVE BareInv'
  OBVIOUS
<1> USE DEF BareInv
<1>1. /\ place = "polling" /\ status \in {"DONE", "ERROR"} /\ place' = "idle"
      /\ UNCHANGED <<device, status, reg, active, ran, mem, request, requests>>
  BY DEF Poll, portVars
<1>2. /\ status = IF ran.ok THEN "DONE" ELSE "ERROR"
      /\ ran.id \in {0, request.id} /\ ran.ok \in BOOLEAN
      /\ ran.ok => ran.id = request.id
      /\ context.pending =>
           OutcomeOf(ran, Record(0, NoFailure), mem[BatchResult], request.id, context.count)
  BY <1>1 DEF BareEndedOK, Given
<1>3. ASSUME ~context'.pending, context' \in [pending : BOOLEAN, count : Nat],
             answer'.status = IF ran.ok THEN "OK" ELSE "DEVICE_ERROR",
             answer'.call = "wait" => answer'.record = ran.record \/ ran.record = Torn
      PROVE  BareInv'
  BY <1>1, <1>2, <1>3
     DEF BareType, MakingOK, PendingOK, BareBusyOK, BareEndedOK, FinalOK, Given, Final, Torn
<1>4. CASE /\ request.by = "driver" /\ UNCHANGED context
           /\ answer' = Returned("driver", IF status = "DONE" THEN "OK" ELSE "DEVICE_ERROR", Junk)
  <2>1. ~context.pending
    BY <1>4 DEF PendingOK
  <2>2. /\ answer'.call = "driver"
        /\ answer'.status = IF ran.ok THEN "OK" ELSE "DEVICE_ERROR"
    BY <1>2, <1>4 DEF Returned
  <2> QED
    BY <1>3, <1>4, <2>1, <2>2 DEF BareType
<1>5. CASE /\ request.by = "library" /\ context' = [context EXCEPT !.pending = FALSE]
           /\ \E record \in {IF context.count = 0 THEN Junk ELSE mem[BatchResult]} :
                answer' = Returned("wait", LibraryVerdict(record),
                               IF record = Record(0, NoFailure) THEN Junk ELSE record)
  <2>1. context.pending
    BY <1>1, <1>5 DEF PendingOK
  <2>2. OutcomeOf(ran, Record(0, NoFailure), mem[BatchResult], request.id, context.count)
    BY <1>2, <2>1
  <2>3. ~context'.pending /\ context' \in [pending : BOOLEAN, count : Nat]
    BY <1>5 DEF BareType
  <2> DEFINE record == IF context.count = 0 THEN Junk ELSE mem[BatchResult]
  <2>4. /\ answer'.status = LibraryVerdict(record)
        /\ answer'.record = IF record = Record(0, NoFailure) THEN Junk ELSE record
    BY <1>5 DEF Returned
  <2>5. LibraryVerdict(record) = IF ran.ok THEN "OK" ELSE "DEVICE_ERROR"
    BY <1>2, <2>2 DEF LibraryVerdict, OutcomeOf
  <2>6. answer'.record = ran.record \/ ran.record = Torn
    BY <2>2, <2>4 DEF OutcomeOf, Junk, Record
  <2> QED
    BY <1>3, <2>3, <2>4, <2>5, <2>6
<1> QED
  BY <1>4, <1>5 DEF Poll

-----------------------------------------------------------------------------
(* The inductive invariant of accel_driver.c and baremetal_device.c: what  *)
(* the device was given is whole in memory until it has ended it, and      *)
(* nothing is prepared before that.                                        *)
THEOREM BareInvariant == BareSpec => []BareInv
<1>1. BareInit => BareInv
  BY DEF BareInit, PortInit, BareInv, BareType, MakingOK, PendingOK, BareBusyOK, BareEndedOK, FinalOK,
         Given, Final, Returned
<1>2. BareInv /\ [BareNext]_bareVars => BareInv'
  <2> SUFFICES ASSUME BareInv, [BareNext]_bareVars PROVE BareInv'
    OBVIOUS
  <2>1. CASE Initialise \/ UNCHANGED bareVars
    <3> USE DEF BareInv
    <3>1. /\ UNCHANGED <<device, status, reg, active, ran, mem, place, request, answer>>
          /\ \/ UNCHANGED context
             \/ /\ place = "idle" /\ ~context.pending
                /\ context' = [pending |-> FALSE, count |-> 0]
      BY <2>1 DEF Initialise, bareVars, portVars
    <3>2. /\ BareType' /\ FinalOK' /\ (context'.pending <=> context.pending)
          /\ Given' <=> Given
      <4>1. CASE UNCHANGED context
        BY <3>1, <4>1 DEF BareType, FinalOK, Final, Given, Torn
      <4>2. CASE place = "idle" /\ ~context.pending /\ context' = [pending |-> FALSE, count |-> 0]
        <5>1. ~context'.pending /\ context' \in [pending : BOOLEAN, count : Nat]
          BY <4>2
        <5> QED
          BY <3>1, <4>2, <5>1 DEF BareType, FinalOK, Final, Given, Torn
      <4> QED
        BY <3>1, <4>1, <4>2
    <3>5. PendingOK'
      BY <3>1, <3>2 DEF PendingOK, Count
    <3>3. MakingOK' /\ BareBusyOK'
      BY <3>1, <3>2, PreparedStays DEF MakingOK, BareBusyOK, Lo, Hi
    <3>4. BareEndedOK'
      BY <3>1, <3>2, EndedStays DEF BareEndedOK, Given
    <3> QED
      BY <3>2, <3>3, <3>4, <3>5
  <2> QED
    BY <2>1, BareSubmitCommandStep, BareSubmitBatchStep, DriverCallStep, CopyStep, AddressStep,
       BareDoorbellStep, BareFinishStep, WaitForCompletionStep, PollStep DEF BareNext
<1> QED
  BY <1>1, <1>2, PTL DEF BareSpec

(* The single static command buffer is safe: it is never rewritten under a *)
(* BUSY device, no doorbell traps, and no answer is about another          *)
(* submission.                                                             *)
THEOREM OneBufferIsEnough == BareSpec => []SingleBufferSafe
<1>1. BareInv => SingleBufferSafe
  <2> SUFFICES ASSUME BareInv PROVE SingleBufferSafe
    OBVIOUS
  <2> USE DEF BareInv
  <2>1. place = "bell" => status # "BUSY"
    BY DEF MakingOK
  <2>2. status = "BUSY" =>
          /\ active = Buffer /\ mem[Buffer] = request.descriptor
          /\ request.descriptor.kind = "batch" => mem[request.descriptor.stream] = Stream(request.id)
    <3>1. request.descriptor = Command(request.id) => request.descriptor.kind # "batch"
      BY DEF Command
    <3>2. ASSUME NEW n, LibraryBatch(n) \/ DriverBatch(n)
          PROVE  mem[request.descriptor.stream] = Stream(request.id)
      BY <3>2 DEF LibraryBatch, DriverBatch, Parent
    <3> QED
      BY <3>1, <3>2 DEF BareBusyOK, Prepared
  <2>3. Final => /\ answer.status = "OK" <=> (ran.id = request.id /\ ran.ok)
                 /\ answer.call = "wait" => answer.record = ran.record \/ ran.record = Torn
    BY DEF FinalOK
  <2> QED
    BY <2>1, <2>2, <2>3 DEF SingleBufferSafe, Final
<1> QED
  BY <1>1, BareInvariant, PTL
=============================================================================
