--------------------------- MODULE StorageClient ---------------------------
(***************************************************************************)
(* The client half of a storage session: the host's slot reservations      *)
(* (StorageClient) and the operators of the three backends that submit a   *)
(* command from a slot and probe its completion record.  A submission is   *)
(* one action: it claims the slot, writes the Pending completion and the   *)
(* command record and posts the Send, and nothing on the server can see    *)
(* the slot before that Send.                                              *)
(*                                                                         *)
(* The AIV and AICPU operators leave a slot whose Send failed in flight,   *)
(* with the status for storage_wait to report: QUEUE_FULL, which it takes  *)
(* for a pending command, or another one, which it answers (PROVIDER_FAILED*)
(* stands for them).  Such a Send was not posted, or it met an error       *)
(* completion, and a command on a broken pair is never served.  The RA     *)
(* operators check the range first and abandon the slot whenever a copy or *)
(* the Send fails; an RA Send that failed by its timeout is on its way all *)
(* the same.                                                               *)
(***************************************************************************)
EXTENDS StorageWire

VARIABLES
  backend,     \* the backend that submits and waits
  allocated,   \* slot -> allocated_slots_
  nextSlot,    \* next_slot_
  nextId,      \* next_command_id_, counted from 1
  slotState,   \* slot -> NdsStorageState
  asked,       \* command -> what the application submitted with it
  answers      \* command -> what storage_wait told the application

clientVars == <<backend, allocated, nextSlot, nextId, slotState, asked, answers>>

\* The ranges of a submission: a plain command has one; a batch has an entry at
\* the start of the namespace and one at the offset.
Entries(op, offset) ==
  LET entry(o) == serialize_batch_entry(op, o, Length)
  IN IF IsBatch(op) THEN <<entry(0), entry(offset)>> ELSE <<entry(offset)>>

\* a submission, as the application sees it; "bad" leaves the namespace's range
Kind(op, offset) ==
  IF offset + Length > Capacity THEN "bad" ELSE IF IsRead(op) THEN "read" ELSE "write"

Answers == {"none", "SUCCESS", "INVALID_ARGUMENT", "PROVIDER_FAILED"}
SendStatuses == {"SUCCESS", "QUEUE_FULL", "PROVIDER_FAILED"}
EmptyState == [id |-> NoId, expected |-> 0, inFlight |-> FALSE, status |-> "SUCCESS"]

ClientTypeOK ==
  /\ backend \in Backends
  /\ allocated \in [Slots -> BOOLEAN]
  /\ nextSlot \in Slots
  /\ nextId \in 1 .. CommandCount + 1
  /\ slotState \in [Slots -> [id : Ids \cup {NoId}, expected : 0 .. 2 * Length,
                              inFlight : BOOLEAN, status : SendStatuses]]
  /\ asked \in [Ids -> {"none", "read", "write", "bad"}]
  /\ answers \in [Ids -> Answers]

ClientInit ==
  /\ backend \in Backends
  /\ allocated = [s \in Slots |-> FALSE]
  /\ nextSlot = 0 /\ nextId = 1
  /\ slotState = [s \in Slots |-> EmptyState]
  /\ asked = [i \in Ids |-> "none"]
  /\ answers = [i \in Ids |-> "none"]

-----------------------------------------------------------------------------
NumSlots == Qps * SlotsPerQp

\* the slot the given number of places after next_slot_
Rotated(attempt) == (nextSlot + attempt) % NumSlots

\* attempts at which the search of allocate_slot would stop
FreeAttempts(queues) ==
  {a \in 0 .. NumSlots - 1 : ~allocated[Rotated(a)] /\ QueueOf(Rotated(a)) \in queues}

\* allocate_slot() with queues = Queues, allocate_slot(q) with queues = {q}:
\* one rotation is shared by both.  The slot gets a fresh command id.
AllocateSlot(queues) ==
  /\ nextId <= CommandCount /\ FreeAttempts(queues) # {}
  /\ LET s == Rotated(Min(FreeAttempts(queues))) IN
       /\ allocated' = [allocated EXCEPT ![s] = TRUE]
       /\ nextSlot' = (s + 1) % NumSlots
       /\ slotState' = [slotState EXCEPT ![s] = [EmptyState EXCEPT !.id = nextId]]
  /\ nextId' = nextId + 1
  /\ UNCHANGED <<backend, asked, answers, wireVars>>

\* The slot's state is in device memory for AIV and AICPU, and the copy may fail:
\* the slot is free again, but the rotation and the command id have moved on.
AllocateSlotFails(queues) ==
  /\ Faults /\ backend # "RA"
  /\ nextId <= CommandCount /\ FreeAttempts(queues) # {}
  /\ nextSlot' = (Rotated(Min(FreeAttempts(queues))) + 1) % NumSlots
  /\ nextId' = nextId + 1
  /\ UNCHANGED <<backend, allocated, slotState, asked, answers, wireVars>>

\* the Pending completion a submission starts with
PendingCompletion(id) == [id |-> id, state |-> "Pending", status |-> "Success", bytes |-> 0]

\* the application's entries lie in the memory its command will point to
WriteEntries(s, op, offset) ==
  entryBuf' = [entryBuf EXCEPT ![s] = IF IsBatch(op) THEN Entries(op, offset) ELSE <<>>]

PostCommand(s) ==
  sends' = [sends EXCEPT ![QueueOf(s)] = Append(@, [slot |-> s, id |-> slotState[s].id])]

\* decode_entries and the checks of NdsRaStorageRead and _Write
RaRangeCheck(op, offset) ==
  \A k \in DOMAIN Entries(op, offset) :
    LET e == Entries(op, offset)[k]
    IN deserialize_batch_entry(op, e) /\ InRange(e.offset, e.length)

\* Claim and ExecuteSerialized of nds_aiv_storage_read, _write and the batches;
\* execute of the AICPU operators and, when nothing fails, of RA.
StorageSubmit(s, op, offset) ==
  LET id == slotState[s].id
      entries == Entries(op, offset)
      record == SerializeStorageCommand(op, id, entries, s)
  IN
  /\ id # NoId /\ ~slotState[s].inFlight
  /\ CompletionValid(PendingCompletion(id)) /\ record # NoRecord
  /\ backend = "RA" => RaRangeCheck(op, offset)
  /\ WriteEntries(s, op, offset)
  /\ completionBuf' = [completionBuf EXCEPT ![s] = PendingCompletion(id)]
  /\ commandBuf' = [commandBuf EXCEPT ![s] = record]
  /\ asked' = [asked EXCEPT ![id] = Kind(op, offset)]
  /\ \E status \in SendStatuses :
       /\ slotState' = [slotState EXCEPT ![s] = [id |-> id, expected |-> TotalLength(entries),
                                                 inFlight |-> TRUE, status |-> status]]
       /\ \/ status = "SUCCESS" /\ PostCommand(s)
          \/ status # "SUCCESS" /\ Faults /\ backend # "RA" /\ UNCHANGED sends
  /\ UNCHANGED <<backend, allocated, nextSlot, nextId, answers, namespace, dataBuf>>

\* The RA operators turn a command out of range away before they claim the slot.
RaStorageRefused(s, op, offset) ==
  /\ backend = "RA" /\ ~RaRangeCheck(op, offset)
  /\ UNCHANGED <<clientVars, wireVars>>

\* execute of RA abandons the slot: a copy to the device failed (of the Pending
\* completion, or of the command), the Send was not posted, or it was posted and
\* its doorbell or its completion failed.
RaStorageAbandons(s, op, offset) ==
  LET id == slotState[s].id
      record == SerializeStorageCommand(op, id, Entries(op, offset), s)
  IN
  /\ Faults /\ backend = "RA" /\ RaRangeCheck(op, offset)
  /\ id # NoId /\ ~slotState[s].inFlight
  /\ WriteEntries(s, op, offset)
  /\ asked' = [asked EXCEPT ![id] = Kind(op, offset)]
  /\ \E written \in {{}, {"pending"}, {"pending", "command"}}, posted \in BOOLEAN :
       /\ posted => "command" \in written
       /\ completionBuf' = IF "pending" \in written
                           THEN [completionBuf EXCEPT ![s] = PendingCompletion(id)] ELSE completionBuf
       /\ commandBuf' = IF "command" \in written
                        THEN [commandBuf EXCEPT ![s] = record] ELSE commandBuf
       /\ IF posted THEN PostCommand(s) ELSE UNCHANGED sends
  /\ slotState' = [slotState EXCEPT ![s] = [EmptyState EXCEPT !.id = id]]
  /\ UNCHANGED <<backend, allocated, nextSlot, nextId, answers, namespace, dataBuf>>

\* Faulty form: the state of the completion record is not looked at.
WaitAnswerAnyState(s) ==
  LET state == slotState[s]
      c == completionBuf[s]
  IN CASE state.status # "SUCCESS" -> state.status
       [] state.status = "SUCCESS" /\ c.id # state.id -> "INVALID_ARGUMENT"
       [] state.status = "SUCCESS" /\ c.id = state.id ->
            IF c.status = "Success" THEN "SUCCESS" ELSE "PROVIDER_FAILED"

\* nds_aiv_storage_wait, nds_aicpu_storage_wait: QUEUE_FULL is "not complete yet",
\* and stands for a record that cannot be read as well
DeviceWaitAnswer(s) ==
  LET state == slotState[s]
      c == completionBuf[s]
  IN CASE state.status # "SUCCESS" -> state.status
       [] state.status = "SUCCESS" /\ (~CompletionValid(c) \/ c.state # "Complete") -> "QUEUE_FULL"
       [] state.status = "SUCCESS" /\ CompletionValid(c) /\ c.state = "Complete" ->
            IF c.id # state.id \/ c.bytes # state.expected THEN "INVALID_ARGUMENT"
            ELSE IF c.status = "Success" THEN "SUCCESS" ELSE "PROVIDER_FAILED"

\* NdsRaStorageWait with its entry point: a record that cannot be read is an error
RaWaitAnswer(s) ==
  LET state == slotState[s]
      c == completionBuf[s]
  IN CASE ~CompletionValid(c) -> "PROVIDER_FAILED"
       [] CompletionValid(c) /\ c.state # "Complete" -> "QUEUE_FULL"
       [] CompletionValid(c) /\ c.state = "Complete" ->
            IF c.id # state.id \/ c.bytes # state.expected \/ c.status # "Success"
            THEN "PROVIDER_FAILED" ELSE "SUCCESS"

WaitAnswer(s) == IF backend = "RA" THEN RaWaitAnswer(s) ELSE DeviceWaitAnswer(s)

\* The launcher probes until the answer is not QUEUE_FULL; a probe that finds the
\* record pending changes nothing.  The application waits for what it has
\* submitted without an error.
StorageWait(s) ==
  /\ slotState[s].inFlight /\ WaitAnswer(s) # "QUEUE_FULL"
  /\ answers[slotState[s].id] = "none"
  /\ answers' = [answers EXCEPT ![slotState[s].id] = WaitAnswer(s)]
  /\ UNCHANGED <<backend, allocated, nextSlot, nextId, slotState, asked, wireVars>>

\* The wait ends without an answer: the deadline passes, a launch or its
\* synchronization fails, or the record cannot be copied to the host.  Nothing
\* changes and the slot stays active, so the caller may wait again.
StorageWaitFails(s) ==
  /\ Faults /\ slotState[s].inFlight /\ answers[slotState[s].id] = "none"
  /\ UNCHANGED <<clientVars, wireVars>>

\* The launch of a submission fails before the operator runs.
LaunchFails(s) ==
  /\ Faults /\ backend # "RA" /\ slotState[s].id # NoId /\ ~slotState[s].inFlight
  /\ UNCHANGED <<clientVars, wireVars>>

\* release_slot, which the application calls only with the answer in hand
ReleaseSlot(s) ==
  /\ allocated[s] /\ slotState[s].id # NoId /\ answers[slotState[s].id] # "none"
  /\ allocated' = [allocated EXCEPT ![s] = FALSE]
  /\ slotState' = [slotState EXCEPT ![s] = EmptyState]
  /\ UNCHANGED <<backend, nextSlot, nextId, asked, answers, wireVars>>

\* clear_state cannot write the slot's state: the slot stays reserved
ReleaseSlotFails(s) ==
  /\ Faults /\ backend # "RA"
  /\ allocated[s] /\ slotState[s].id # NoId /\ answers[slotState[s].id] # "none"
  /\ UNCHANGED <<clientVars, wireVars>>

=============================================================================
