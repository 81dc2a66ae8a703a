--------------------------- MODULE StorageSession ---------------------------
(***************************************************************************)
(* A storage session: one client application, the server's workers and the *)
(* network between them.  The application is the most general one that     *)
(* keeps to the documented use of the slots: it allocates slots (from the  *)
(* rotation or for a queue it selects), submits commands of any kind, in   *)
(* range or not, waits in any order, and releases a slot when it has seen  *)
(* its completion.                                                         *)
(***************************************************************************)
EXTENDS StorageClient, StorageWorker

vars == <<commandBuf, entryBuf, completionBuf, sends, namespace, dataBuf,
          backend, allocated, nextSlot, nextId, slotState, asked, answers,
          worker, receives, recvBuf, arrived, requests, firstError>>

\* The variables of the client, the wire and the server have their types.
TypeOK == WireTypeOK /\ ClientTypeOK /\ ServerTypeOK

Init == WireInit /\ ClientInit /\ ServerInit

Allocate ==
  /\ \/ AllocateSlot(Queues)
     \/ \E q \in Queues : AllocateSlot({q})
  /\ UNCHANGED serverVars
AllocateFails ==
  /\ \/ AllocateSlotFails(Queues)
     \/ \E q \in Queues : AllocateSlotFails({q})
  /\ UNCHANGED serverVars
\* A command is submitted once, also when its submission failed.
Submit(s) ==
  /\ slotState[s].id # NoId /\ asked[slotState[s].id] = "none"
  /\ \E op \in Operations, offset \in Offsets : StorageSubmit(s, op, offset)
  /\ UNCHANGED serverVars
SubmitFails(s) ==
  /\ slotState[s].id # NoId /\ asked[slotState[s].id] = "none"
  /\ \E op \in Operations, offset \in Offsets :
       \/ RaStorageRefused(s, op, offset) \/ RaStorageAbandons(s, op, offset)
       \/ LaunchFails(s)
  /\ UNCHANGED serverVars
Wait(s) == StorageWait(s) /\ UNCHANGED serverVars
WaitFails(s) == StorageWaitFails(s) /\ UNCHANGED serverVars
Release(s) == ReleaseSlot(s) /\ UNCHANGED serverVars
ReleaseFails(s) == ReleaseSlotFails(s) /\ UNCHANGED serverVars

Server(q) == (WorkerStep(q) \/ WorkerFails(q) \/ Network(q)) /\ UNCHANGED clientVars

Next ==
  \/ Allocate \/ AllocateFails
  \/ \E s \in Slots : \/ Submit(s) \/ SubmitFails(s) \/ Wait(s) \/ WaitFails(s)
                     \/ Release(s) \/ ReleaseFails(s)
  \/ \E q \in Queues : Server(q)

Spec == Init /\ [][Next]_vars

-----------------------------------------------------------------------------
(* Properties. *)

TookEffect(i) == dataBuf[i] # NoData \/ \E k \in 1 .. Len(namespace) : namespace[k] = i

\* a command in a slot whose Send failed
Refused(i) ==
  \E s \in Slots : /\ slotState[s].id = i /\ slotState[s].inFlight
                    /\ slotState[s].status # "SUCCESS"

LifeOf(i) ==
  IF answers[i] = "SUCCESS" THEN "succeeded"
  ELSE IF answers[i] # "none" THEN "rejected"
  ELSE IF TookEffect(i) THEN "applied"
  ELSE IF Refused(i) THEN "refused"
  ELSE IF asked[i] # "none" THEN "submitted" ELSE "none"

Service == INSTANCE StorageService WITH
  life <- [i \in Ids |-> LifeOf(i)], kind <- asked, result <- dataBuf

\* The session implements StorageService: whatever the slots, windows, threads,
\* timeouts and failed Sends do, each command takes effect at most once, between
\* its submission and its answer, storage Reads see every write answered before
\* they were submitted, and a command that is out of range, or whose Send the
\* device operator saw fail, has no effect; no other is answered with an error.
ImplementsService == Service!Spec

\* The bytes a Send will carry are those of the command it was posted for: no
\* slot is handed out again, and no command buffer rewritten, while the adapter
\* still has to read it.
SendsIntact ==
  \A q \in Queues : \A k \in 1 .. Len(sends[q]) :
    commandBuf[sends[q][k].slot].id = sends[q][k].id

\* Once the application has its answer nothing reads or writes the command's
\* memory any more: no descriptor read and no payload is outstanding for it, so
\* the application may free its buffers.
NoAccessAfterAnswer ==
  \A q \in Queues : \A r \in requests[q] :
    r[1] # "completion" => answers[worker[q].pending[r[2]].command.id] = "none"

\* serve_commands returns success only when every command was served: each id
\* is answered or its completion record is in its slot.
CleanExitServedAll ==
  (Joined /\ firstError = "none") =>
    \A i \in Ids : \/ answers[i] # "none"
                   \/ \E s \in Slots : completionBuf[s].id = i /\ completionBuf[s].state = "Complete"
=============================================================================
