--------------------------- MODULE StorageWorker ---------------------------
(***************************************************************************)
(* The server half of a storage session: serve_commands starts one thread  *)
(* per queue pair that has commands, each runs run_worker.  A worker takes *)
(* its commands in windows: it receives every command of the window,       *)
(* posting the payload of a plain command or the descriptor read of a      *)
(* batch at once; then takes the descriptors in order, posting the batch   *)
(* payloads; then waits for all payloads; then posts all completion writes *)
(* and waits for them; then posts the receives of the next window.         *)
(*                                                                         *)
(* The network is outside the repository: a Send needs a posted receive    *)
(* (the sender retries without limit until there is one), and any          *)
(* outstanding RDMA request may be the next to finish, which includes the  *)
(* orders a reliable connection forbids.                                   *)
(***************************************************************************)
EXTENDS StorageWire

VARIABLES
  worker,      \* queue -> where its worker is
  receives,    \* queue -> command buffers of its posted receives, oldest first
  recvBuf,     \* queue -> command buffer -> the record received into it
  arrived,     \* queue -> receive completions not yet taken
  requests,    \* queue -> RDMA requests posted and not finished
  firstError   \* first_error of serve_commands

serverVars == <<worker, receives, recvBuf, arrived, requests, firstError>>

Buffers == 1 .. SlotsPerQp
Phases == {"start", "serve", "complete", "done", "failed", "skipped"}
Ended == {"done", "failed", "skipped"}
Requests == {"descriptor", "payload", "completion"} \X Buffers

\* A PendingCommand: its record, the status and bytes of its completion, whether
\* its descriptors are still to be taken, and the entries their read brought.
PendingCommands == [command : CommandRecords, status : Statuses, bytes : Nat,
                    descriptor : BOOLEAN, entries : Seq(BatchEntries)]

ServerTypeOK ==
  /\ worker \in [Queues -> [phase : Phases, served : Nat, pending : Seq(PendingCommands)]]
  /\ receives \in [Queues -> Seq(Buffers)]
  /\ recvBuf \in [Queues -> [Buffers -> CommandRecords]]
  /\ arrived \in [Queues -> Nat]
  /\ requests \in [Queues -> SUBSET Requests]
  /\ firstError \in {"none", "kProtocol", "kVerbs"}

\* commands of a worker: an even share, the first queues take the remainder
Share(q) == CommandCount \div Qps + (IF q < CommandCount % Qps THEN 1 ELSE 0)

\* Faulty form: the slots of a queue are taken to be consecutive.
WorkerSlotBlock(q, b) == q * SlotsPerQp + b - 1

\* the slots of a queue in slot order are its worker's buffers
WorkerSlot(q, b) == q + (b - 1) * Qps

\* Faulty form: the window is not limited to the queue's slots.
ActiveSlotsUncapped(q) == Share(q)

ActiveSlots(q) == Min({Share(q), SlotsPerQp})
Window(q) == Min({ActiveSlots(q), Share(q) - worker[q].served})

\* A queue without commands gets no thread.
ServerInit ==
  /\ worker = [q \in Queues |-> [phase |-> IF Share(q) = 0 THEN "done" ELSE "start",
                                 served |-> 0, pending |-> <<>>]]
  /\ receives = [q \in Queues |-> <<>>]
  /\ recvBuf = [q \in Queues |-> [b \in Buffers |-> NoRecord]]
  /\ arrived = [q \in Queues |-> 0]
  /\ requests = [q \in Queues |-> {}]
  /\ firstError = "none"

-----------------------------------------------------------------------------
(* What a worker waits for. *)

Received(q) == Len(worker[q].pending)

\* commands of the window whose descriptors are still to be taken
Untaken(q) == {i \in 1 .. Received(q) : worker[q].pending[i].descriptor}

CanReceive(q) ==
  worker[q].phase = "serve" /\ Received(q) < Window(q) /\ arrived[q] > 0

CanTakeDescriptor(q) ==
  /\ worker[q].phase = "serve" /\ Received(q) = Window(q)
  /\ Untaken(q) # {} /\ <<"descriptor", Min(Untaken(q))>> \notin requests[q]

\* Faulty form: the payloads are posted and not waited for.
CanCompleteUnwaited(q) ==
  worker[q].phase = "serve" /\ Received(q) = Window(q) /\ Untaken(q) = {}

CanComplete(q) ==
  /\ worker[q].phase = "serve" /\ Received(q) = Window(q) /\ Untaken(q) = {}
  /\ \A i \in Buffers : <<"payload", i>> \notin requests[q]

CanRetire(q) == worker[q].phase = "complete" /\ requests[q] = {}

-----------------------------------------------------------------------------
(* The worker's steps. *)

\* Faulty form: the thread's error is dropped.
FailSilently(q, error) ==
  /\ worker' = [worker EXCEPT ![q].phase = "failed"]
  /\ UNCHANGED firstError

\* the thread's epilogue after an error of run_worker
Fail(q, error) ==
  /\ worker' = [worker EXCEPT ![q].phase = "failed"]
  /\ firstError' = IF firstError = "none" THEN error ELSE firstError

\* A thread that finds failed already set returns; else it posts its receives.
StartWorker(q) ==
  /\ worker[q].phase = "start"
  /\ IF firstError # "none"
     THEN /\ worker' = [worker EXCEPT ![q].phase = "skipped"]
          /\ UNCHANGED receives
     ELSE /\ worker' = [worker EXCEPT ![q].phase = "serve"]
          /\ receives' = [receives EXCEPT ![q] = [b \in 1 .. ActiveSlots(q) |-> b]]
  /\ UNCHANGED <<recvBuf, arrived, requests, firstError, wireVars>>

\* status of a plain command's completion, from its range check
RangeStatus(c) == IF InRange(c.offset, c.length) THEN "Success" ELSE "RangeError"

\* the PendingCommand of a record that was accepted
Accepted(c) ==
  LET status == IF IsBatch(c.op) THEN "Success" ELSE RangeStatus(c)
  IN [command |-> c, status |-> status, descriptor |-> IsBatch(c.op), entries |-> <<>>,
      bytes |-> IF ~IsBatch(c.op) /\ status = "Success" THEN c.length ELSE 0]

\* what is posted for it at once: the descriptor read of a batch, else the payload
FirstRequest(c, b) ==
  IF IsBatch(c.op) THEN {<<"descriptor", b>>}
  ELSE IF RangeStatus(c) = "Success" THEN {<<"payload", b>>} ELSE {}

\* The next command of the window: a record that does not deserialize, or names
\* another slot than the one its receive is for, ends the worker.
ReceiveCommand(q) ==
  /\ CanReceive(q)
  /\ arrived' = [arrived EXCEPT ![q] = @ - 1]
  /\ LET b == Received(q) + 1
         c == recvBuf[q][b]
     IN IF ~CommandValid(c) \/ c.slot # WorkerSlot(q, b)
        THEN Fail(q, "kProtocol") /\ UNCHANGED requests
        ELSE /\ worker' = [worker EXCEPT ![q].pending = Append(@, Accepted(c))]
             /\ requests' = [requests EXCEPT ![q] = @ \cup FirstRequest(c, b)]
             /\ UNCHANGED firstError
  /\ UNCHANGED <<receives, recvBuf, wireVars>>

\* status of a batch: its first entry that is refused decides, then the total
BatchStatus(c, entries) ==
  LET invalid(k) == ~deserialize_batch_entry(c.op, entries[k])
      refused == {k \in DOMAIN entries :
                    invalid(k) \/ ~InRange(entries[k].offset, entries[k].length)}
  IN IF refused # {} THEN IF invalid(Min(refused)) THEN "InvalidCommand" ELSE "RangeError"
     ELSE IF TotalLength(entries) # c.length THEN "InvalidCommand" ELSE "Success"

\* Faulty form: the payload of a batch is posted before its entries are judged.
TakeDescriptorUnchecked(q) ==
  /\ CanTakeDescriptor(q)
  /\ LET i == Min(Untaken(q))
         p == worker[q].pending[i]
     IN /\ worker' = [worker EXCEPT ![q].pending[i] =
                        [p EXCEPT !.status = BatchStatus(p.command, p.entries), !.descriptor = FALSE]]
        /\ requests' = [requests EXCEPT ![q] = @ \cup {<<"payload", i>>}]
  /\ UNCHANGED <<receives, recvBuf, arrived, firstError, wireVars>>

\* All entries of a batch are validated before any of them is transferred.
TakeDescriptor(q) ==
  /\ CanTakeDescriptor(q)
  /\ LET i == Min(Untaken(q))
         p == worker[q].pending[i]
         status == BatchStatus(p.command, p.entries)
     IN /\ worker' = [worker EXCEPT ![q].pending[i] =
                        [p EXCEPT !.status = status, !.descriptor = FALSE,
                                  !.bytes = IF status = "Success" THEN TotalLength(p.entries) ELSE 0]]
        /\ requests' = IF status = "Success"
                       THEN [requests EXCEPT ![q] = @ \cup {<<"payload", i>>}]
                       ELSE requests
  /\ UNCHANGED <<receives, recvBuf, arrived, firstError, wireVars>>

\* the terminal record of a command of the window
CompletionOf(p) ==
  [id |-> p.command.id, state |-> "Complete", status |-> p.status, bytes |-> p.bytes]

\* The completions of the whole window are posted.
PostCompletions(q) ==
  /\ CanComplete(q)
  /\ \A i \in 1 .. Received(q) : CompletionValid(CompletionOf(worker[q].pending[i]))
  /\ worker' = [worker EXCEPT ![q].phase = "complete"]
  /\ requests' = [requests EXCEPT ![q] = @ \cup {<<"completion", i>> : i \in 1 .. Received(q)}]
  /\ UNCHANGED <<receives, recvBuf, arrived, firstError, wireVars>>

\* Faulty form: the receives of the next window are not posted.
RetireWindowNoReceives(q) ==
  /\ CanRetire(q)
  /\ LET served == worker[q].served + Received(q) IN
       worker' = [worker EXCEPT ![q] =
         [phase |-> IF served < Share(q) THEN "serve" ELSE "done", served |-> served, pending |-> <<>>]]
  /\ UNCHANGED <<receives, recvBuf, arrived, requests, firstError, wireVars>>

\* The window is over; its receives are posted again when commands remain.
RetireWindow(q) ==
  /\ CanRetire(q)
  /\ LET served == worker[q].served + Received(q)
         more == served < Share(q)
     IN /\ worker' = [worker EXCEPT ![q] =
              [phase |-> IF more THEN "serve" ELSE "done", served |-> served, pending |-> <<>>]]
        /\ receives' = IF more
                       THEN [receives EXCEPT ![q] = @ \o [b \in 1 .. Received(q) |-> b]]
                       ELSE receives
  /\ UNCHANGED <<recvBuf, arrived, requests, firstError, wireVars>>

\* Faulty form: the wait for a command has no deadline.
WorkerFailsUnlessServing(q) ==
  /\ Faults /\ worker[q].phase \in {"start", "complete"}
  /\ Fail(q, "kVerbs")
  /\ UNCHANGED <<receives, recvBuf, arrived, requests, wireVars>>

\* The thread is not pinned, a post is refused, or what the worker waits for does
\* not arrive in time or arrives with an error.
WorkerFails(q) ==
  /\ Faults /\ worker[q].phase \in {"start", "serve", "complete"}
  /\ Fail(q, "kVerbs")
  /\ UNCHANGED <<receives, recvBuf, arrived, requests, wireVars>>

WorkerStep(q) ==
  \/ StartWorker(q) \/ ReceiveCommand(q) \/ TakeDescriptor(q)
  \/ PostCompletions(q) \/ RetireWindow(q)

-----------------------------------------------------------------------------
(* The network (external), while the server keeps its queue pairs. *)

Joined == \A q \in Queues : worker[q].phase \in Ended

\* The oldest Send fills the oldest posted receive with the bytes its command
\* buffer holds now.
DeliverSend(q) ==
  /\ ~Joined /\ sends[q] # <<>> /\ receives[q] # <<>>
  /\ recvBuf' = [recvBuf EXCEPT ![q][Head(receives[q])] = commandBuf[Head(sends[q]).slot]]
  /\ sends' = [sends EXCEPT ![q] = Tail(@)]
  /\ receives' = [receives EXCEPT ![q] = Tail(@)]
  /\ arrived' = [arrived EXCEPT ![q] = @ + 1]
  /\ UNCHANGED <<worker, requests, firstError, commandBuf, entryBuf, completionBuf, namespace, dataBuf>>

\* An outstanding request finishes: a descriptor read brings the entries as they
\* are in the client's memory now, a storage Write's payload reads the client
\* buffer into the namespace, a storage Read's payload does the reverse, a
\* completion lands in the slot of the worker's buffer.
FinishRequest(q, kind, i) ==
  /\ ~Joined /\ <<kind, i>> \in requests[q]
  /\ requests' = [requests EXCEPT ![q] = @ \ {<<kind, i>>}]
  /\ LET p == worker[q].pending[i] IN
       /\ worker' = IF kind = "descriptor"
                    THEN [worker EXCEPT ![q].pending[i].entries =
                            SubSeq(entryBuf[p.command.slot], 1, p.command.offset)]
                    ELSE worker
       /\ namespace' = IF kind = "payload" /\ ~IsRead(p.command.op)
                       THEN Append(namespace, p.command.id) ELSE namespace
       /\ dataBuf' = IF kind = "payload" /\ IsRead(p.command.op)
                     THEN [dataBuf EXCEPT ![p.command.id] = Len(namespace)] ELSE dataBuf
       /\ completionBuf' = IF kind = "completion"
                           THEN [completionBuf EXCEPT ![WorkerSlot(q, i)] = CompletionOf(p)]
                           ELSE completionBuf
  /\ UNCHANGED <<receives, recvBuf, arrived, firstError, commandBuf, entryBuf, sends>>

Network(q) == DeliverSend(q) \/ \E r \in Requests : FinishRequest(q, r[1], r[2])

=============================================================================
