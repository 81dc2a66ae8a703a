---------------------------- MODULE StorageProofs ----------------------------
(***************************************************************************)
(* Proofs about StorageSession and StorageWindowed, for every number of    *)
(* queue pairs, slots and commands, every backend, with faults: the        *)
(* buffers of a command are left alone as long as somebody may read them,  *)
(* and the session implements StorageService.                              *)
(*                                                                         *)
(* The argument follows a command from its slot to its answer.  Three      *)
(* parties can carry it: its Send, a receive buffer of the worker that is  *)
(* filled and not taken, and the worker's pending list.  At most one of    *)
(* them has it; while one does, the slot is live: the application still    *)
(* holds it, the command record and the batch entries in it are those that *)
(* were submitted, its completion record is pending and it has no answer.  *)
(*                                                                         *)
(* The application loops of StorageWindowed keep to the use of the slots   *)
(* that StorageSession allows, so a session they drive is one of its       *)
(* sessions, and what is proved of those holds of it.  A clean exit of the *)
(* server has served everything: the workers have completed no more        *)
(* commands than are settled, and their shares add up to all commands. And *)
(* the rotation of the client hands out the slots in the order in which    *)
(* the workers post their receives.                                        *)
(***************************************************************************)
EXTENDS StorageWindowed, WellFoundedInduction, FiniteSetTheorems, TLAPS

-----------------------------------------------------------------------------
(* The inductive invariant. *)

\* What a submission of the operation from the slot leaves in memory.
Submitted(s, op, offset) ==
  /\ commandBuf[s] = SerializeStorageCommand(op, slotState[s].id, Entries(op, offset), s)
  /\ entryBuf[s] = IF IsBatch(op) THEN Entries(op, offset) ELSE <<>>
  /\ asked[slotState[s].id] = Kind(op, offset)
  /\ slotState[s].inFlight => slotState[s].expected = TotalLength(Entries(op, offset))

\* Slots whose command is submitted and completed by nobody.
LiveSlots ==
  {s \in Slots : /\ slotState[s].id \in Ids /\ answers[slotState[s].id] = "none"
                 /\ slotState[s].status = "SUCCESS"
                 /\ completionBuf[s] = PendingCompletion(slotState[s].id)
                 /\ \E op \in Operations, offset \in Offsets : Submitted(s, op, offset)}

\* A record is that of a live slot of the queue.
LiveRecord(q, c) == c.slot \in LiveSlots /\ QueueOf(c.slot) = q /\ c = commandBuf[c.slot]

\* Commands that took effect on the namespace or on the client's data.
Effects == {i \in Ids : TookEffect(i)}

\* Commands the worker still works on, and buffers with a record it has not taken.
Owned(q) ==
  {i \in 1 .. Received(q) :
     worker[q].phase = "serve" \/ \E kind \in {"descriptor", "payload", "completion"} :
                                    <<kind, i>> \in requests[q]}
Filled(q) ==
  {b \in Buffers : worker[q].phase = "serve" /\ b > Received(q) /\ b <= Received(q) + arrived[q]}

\* Slots are reserved for distinct commands.
SlotInv ==
  /\ \A s \in Slots : ~allocated[s] => slotState[s].id = NoId
  /\ \A s \in Slots : slotState[s].id < nextId
  /\ \A s, t \in Slots : slotState[s].id = slotState[t].id /\ slotState[s].id # NoId => s = t
  /\ \A s \in Slots : slotState[s].inFlight => slotState[s].id # NoId

\* A command that was not submitted has no answer and no effect.
UnaskedInv == \A i \in Ids : asked[i] = "none" => answers[i] = "none" /\ i \notin Effects

\* The slot's completion record has the outcome of the slot's own command.
Completed(s) ==
  /\ completionBuf[s].id = slotState[s].id /\ completionBuf[s].state = "Complete"
  /\ asked[slotState[s].id] # "none"
  /\ completionBuf[s].status = "Success" =>
       completionBuf[s].bytes = slotState[s].expected /\ slotState[s].id \in Effects
  /\ completionBuf[s].status # "Success" =>
       asked[slotState[s].id] = "bad" /\ slotState[s].id \notin Effects

\* What storage_wait may find: a command that is pending, which has no effect when
\* its Send was refused, or one that is completed.
Outcome(s) ==
  \/ /\ completionBuf[s] = PendingCompletion(slotState[s].id)
     /\ slotState[s].status # "SUCCESS" =>
          slotState[s].id \notin Effects /\ asked[slotState[s].id] # "none"
  \/ slotState[s].status = "SUCCESS" /\ Completed(s)

OutcomeInv == \A s \in Slots : slotState[s].inFlight => Outcome(s)

\* The posted receives are the buffers after those taken and those filled.
ReceiveInv(q) ==
  /\ worker[q].served <= Share(q)
  /\ worker[q].phase \in {"serve", "complete"} =>
       /\ Received(q) <= Window(q)
       /\ Len(receives[q]) + Received(q) + arrived[q] = ActiveSlots(q)
       /\ \A k \in 1 .. Len(receives[q]) : receives[q][k] = Received(q) + arrived[q] + k
  /\ worker[q].phase = "complete" => Received(q) = Window(q)
  /\ worker[q].phase = "start" => receives[q] = <<>> /\ arrived[q] = 0 /\ worker[q].pending = <<>>

\* A Send on its way is for a live slot; no other Send is for the same.
SendInv(q) ==
  /\ \A k \in 1 .. Len(sends[q]) :
       /\ sends[q][k].slot \in LiveSlots /\ QueueOf(sends[q][k].slot) = q
       /\ sends[q][k].id = slotState[sends[q][k].slot].id /\ sends[q][k].id \notin Effects
  /\ \A j, k \in 1 .. Len(sends[q]) : sends[q][j].slot = sends[q][k].slot => j = k

\* A filled buffer has the record of a live slot, which no Send carries and no
\* other buffer has.
FilledInv(q) ==
  \A b \in Filled(q) :
    /\ LiveRecord(q, recvBuf[q][b]) /\ recvBuf[q][b].id \notin Effects
    /\ \A d \in Filled(q) : recvBuf[q][d].slot = recvBuf[q][b].slot => d = b
    /\ \A k \in 1 .. Len(sends[q]) : sends[q][k].slot # recvBuf[q][b].slot

\* A command the worker owns is in the slot of its buffer, live, and carried by
\* nobody else.
OwnedInv(q) ==
  \A i \in Owned(q) :
    LET c == worker[q].pending[i].command IN
    /\ LiveRecord(q, c) /\ c.slot = WorkerSlot(q, i)
    /\ \A b \in Filled(q) : recvBuf[q][b].slot # c.slot
    /\ \A k \in 1 .. Len(sends[q]) : sends[q][k].slot # c.slot

\* How far a command is: its descriptors are fetched, then it is judged, then its
\* payload moves, then it is completed.
Progress(q, i) ==
  LET p == worker[q].pending[i] IN
  /\ p.descriptor =>
       /\ IsBatch(p.command.op) /\ p.command.id \notin Effects
       /\ <<"payload", i>> \notin requests[q] /\ <<"completion", i>> \notin requests[q]
       /\ <<"descriptor", i>> \notin requests[q] => p.entries = entryBuf[p.command.slot]
  /\ ~p.descriptor =>
       /\ <<"descriptor", i>> \notin requests[q]
       /\ p.status = "Success" =>
            /\ asked[p.command.id] = IF IsRead(p.command.op) THEN "read" ELSE "write"
            /\ slotState[p.command.slot].inFlight => p.bytes = slotState[p.command.slot].expected
            /\ (p.command.id \in Effects) <=> (<<"payload", i>> \notin requests[q])
       /\ p.status # "Success" =>
            /\ asked[p.command.id] = "bad" /\ p.command.id \notin Effects
            /\ <<"payload", i>> \notin requests[q]

ProgressInv(q) == \A i \in Owned(q) : Progress(q, i)

\* What is outstanding in which phase of a worker.
RequestInv(q) ==
  /\ \A r \in requests[q] : r[2] \in 1 .. Received(q)
  /\ worker[q].phase \in {"start", "done", "skipped"} => requests[q] = {}
  /\ worker[q].phase = "serve" => \A i \in Buffers : <<"completion", i>> \notin requests[q]
  /\ worker[q].phase = "complete" =>
       \A i \in Buffers : <<"descriptor", i>> \notin requests[q] /\ <<"payload", i>> \notin requests[q]
  /\ \A i \in Buffers : <<"completion", i>> \in requests[q] => <<"payload", i>> \notin requests[q]

QueueInv(q) ==
  /\ ReceiveInv(q) /\ SendInv(q) /\ FilledInv(q) /\ OwnedInv(q) /\ ProgressInv(q) /\ RequestInv(q)

IInv ==
  /\ TypeOK /\ SlotInv /\ UnaskedInv /\ OutcomeInv
  /\ \A q \in Queues : QueueInv(q)

-----------------------------------------------------------------------------
(* Lengths, entries and records. *)

\* The greatest index of a short sequence.
LEMMA MaxShort == Max({1}) = 1 /\ Max({1, 2}) = 2
<1>1. \E x \in {1} : \A y \in {1} : x >= y
  OBVIOUS
<1>2. \E x \in {1, 2} : \A y \in {1, 2} : x >= y
  OBVIOUS
<1>3. Max({1}) = 1
  BY <1>1 DEF Max
<1>4. Max({1, 2}) = 2
  <2>1. Max({1, 2}) \in {1, 2} /\ \A y \in {1, 2} : Max({1, 2}) >= y
    BY <1>2 DEF Max
  <2> QED  BY <2>1
<1> QED  BY <1>3, <1>4

\* The total length of one entry and of two.
LEMMA TotalOne ==
  ASSUME NEW e, e.length \in Nat
  PROVE  TotalLength(<<e>>) = e.length
<1> DEFINE s == <<e>>
           F(g) == [t \in SUBSET DOMAIN s |-> IF t = {} THEN 0 ELSE g[t \ {Max(t)}] + s[Max(t)].length]
           iter == CHOOSE g : g = F(g)
           w == [t \in SUBSET {1} |-> IF t = {} THEN 0 ELSE e.length]
<1>1. TotalLength(s) = iter[DOMAIN s]
  BY DEF TotalLength, FoldLeft, MapThenFoldSet
<1>2. DOMAIN s = {1} /\ s[1] = e
  OBVIOUS
<1>3. F(w) = w
  <2>1. F(w) = [t \in SUBSET {1} |-> IF t = {} THEN 0 ELSE w[t \ {Max(t)}] + s[Max(t)].length]
    BY <1>2
  <2>2. ASSUME NEW t \in SUBSET {1}
        PROVE  (IF t = {} THEN 0 ELSE w[t \ {Max(t)}] + s[Max(t)].length)
                 = (IF t = {} THEN 0 ELSE e.length)
    <3>1. CASE t = {}
      BY <3>1
    <3>2. CASE t = {1}
      <4>1. t \ {Max(t)} = {} /\ s[Max(t)] = e
        BY <3>2, <1>2, MaxShort
      <4>2. w[{}] = 0
        OBVIOUS
      <4> QED  BY <4>1, <4>2, <3>2
    <3> QED  BY <3>1, <3>2
  <2> QED  BY <2>1, <2>2
<1> HIDE DEF F, w
<1>4. iter = F(iter)
  <2>1. \E g : g = F(g)
    BY <1>3
  <2> QED  BY <2>1
<1> HIDE DEF iter
<1>5. iter = [t \in SUBSET {1} |-> IF t = {} THEN 0 ELSE iter[t \ {Max(t)}] + s[Max(t)].length]
  BY <1>2, <1>4 DEF F
<1>6. iter[{}] = 0
  BY <1>5
<1>7. iter[{1}] = iter[{1} \ {Max({1})}] + s[Max({1})].length
  BY <1>5
<1>8. {1} \ {Max({1})} = {} /\ s[Max({1})] = e
  BY <1>2, MaxShort
<1> QED  BY <1>1, <1>2, <1>6, <1>7, <1>8

\* The length of two entries.
LEMMA TotalTwo ==
  ASSUME NEW e, NEW d, e.length \in Nat, d.length \in Nat
  PROVE  TotalLength(<<e, d>>) = e.length + d.length
<1> DEFINE s == <<e, d>>
           F(g) == [t \in SUBSET DOMAIN s |-> IF t = {} THEN 0 ELSE g[t \ {Max(t)}] + s[Max(t)].length]
           iter == CHOOSE g : g = F(g)
           w == [t \in SUBSET {1, 2} |-> IF t = {} THEN 0 ELSE IF t = {1} THEN e.length
                                         ELSE IF t = {2} THEN d.length ELSE e.length + d.length]
<1>1. TotalLength(s) = iter[DOMAIN s]
  BY DEF TotalLength, FoldLeft, MapThenFoldSet
<1>2. DOMAIN s = {1, 2} /\ s[1] = e /\ s[2] = d
  OBVIOUS
<1>3. Max({1}) = 1 /\ Max({2}) = 2 /\ Max({1, 2}) = 2
  <2>1. \E x \in {2} : \A y \in {2} : x >= y
    OBVIOUS
  <2> QED  BY <2>1, MaxShort DEF Max
<1>4. F(w) = w
  <2>1. F(w) = [t \in SUBSET {1, 2} |-> IF t = {} THEN 0 ELSE w[t \ {Max(t)}] + s[Max(t)].length]
    BY <1>2
  <2>2. w[{}] = 0 /\ w[{1}] = e.length
    <3>1. {} \in SUBSET {1, 2} /\ {1} \in SUBSET {1, 2}
      OBVIOUS
    <3> QED  BY <3>1
  <2>3. ASSUME NEW t \in SUBSET {1, 2}
        PROVE  (IF t = {} THEN 0 ELSE w[t \ {Max(t)}] + s[Max(t)].length) = w[t]
    <3>1. CASE t = {}
      BY <3>1
    <3>2. CASE t = {1}
      <4>1. t \ {Max(t)} = {} /\ s[Max(t)] = e
        BY <3>2, <1>2, <1>3
      <4> QED  BY <4>1, <2>2, <3>2
    <3>3. CASE t = {2}
      <4>1. t \ {Max(t)} = {} /\ s[Max(t)] = d
        BY <3>3, <1>2, <1>3
      <4>2. w[t] = d.length
        BY <3>3
      <4> QED  BY <4>1, <4>2, <2>2, <3>3
    <3>4. CASE t = {1, 2}
      <4>1. t \ {Max(t)} = {1} /\ s[Max(t)] = d
        BY <3>4, <1>2, <1>3
      <4>2. w[t] = e.length + d.length
        BY <3>4
      <4> QED  BY <4>1, <4>2, <2>2, <3>4
    <3> QED  BY <3>1, <3>2, <3>3, <3>4
  <2> QED  BY <2>1, <2>3
<1> HIDE DEF F, w
<1>5. iter = F(iter)
  <2>1. \E g : g = F(g)
    BY <1>4
  <2> QED  BY <2>1
<1> HIDE DEF iter
<1>6. iter = [t \in SUBSET {1, 2} |-> IF t = {} THEN 0 ELSE iter[t \ {Max(t)}] + s[Max(t)].length]
  BY <1>2, <1>5 DEF F
<1>7. iter[{}] = 0
  BY <1>6
<1>8. iter[{1}] = iter[{1} \ {Max({1})}] + s[Max({1})].length
  BY <1>6
<1>9. iter[{1, 2}] = iter[{1, 2} \ {Max({1, 2})}] + s[Max({1, 2})].length
  BY <1>6
<1>10. {1} \ {Max({1})} = {} /\ {1, 2} \ {Max({1, 2})} = {1} /\ s[Max({1})] = e /\ s[Max({1, 2})] = d
  BY <1>2, <1>3
<1>11. iter[{1}] = 0 + e.length
  BY <1>7, <1>8, <1>10
<1>12. iter[{1, 2}] = iter[{1}] + d.length
  BY <1>9, <1>10
<1>13. iter[{1, 2}] = e.length + d.length
  BY <1>11, <1>12
<1> QED  BY <1>1, <1>2, <1>13

\* The operations and offsets of an application, and what it submits with them.
LEMMA EntriesFacts ==
  ASSUME NEW op \in Operations, NEW offset \in Offsets
  PROVE  /\ op \in AllOperations /\ offset \in 0 .. WordMax
         /\ Entries(op, offset) \in Seq(BatchEntries)
         /\ Kind(op, offset) \in {"read", "write", "bad"}
         /\ \A k \in DOMAIN Entries(op, offset) : deserialize_batch_entry(op, Entries(op, offset)[k])
         /\ IsBatch(op) => /\ Len(Entries(op, offset)) = 2 /\ DOMAIN Entries(op, offset) = {1, 2}
                           /\ TotalLength(Entries(op, offset)) = 2
         /\ ~IsBatch(op) => /\ Len(Entries(op, offset)) = 1
                            /\ Entries(op, offset)[1].offset = offset /\ Entries(op, offset)[1].length = 1
                            /\ TotalLength(Entries(op, offset)) = 1
         /\ Kind(op, offset) = "bad" <=>
              \E k \in DOMAIN Entries(op, offset) :
                ~InRange(Entries(op, offset)[k].offset, Entries(op, offset)[k].length)
<1> DEFINE e(o) == serialize_batch_entry(op, o, 1)
<1>1. op \in AllOperations /\ offset \in 0 .. WordMax /\ 0 \in 0 .. WordMax
      /\ Capacity \in Nat /\ Capacity >= 1 /\ WordMax \in Nat
  BY SerdeAssumption, WireAssumption
<1>2. \A o \in 0 .. WordMax : /\ e(o) \in BatchEntries /\ e(o).offset = o /\ e(o).length = 1
                              /\ deserialize_batch_entry(op, e(o))
  BY <1>1 DEF serialize_batch_entry, BatchEntries, DataAccess, deserialize_batch_entry
<1>3. Entries(op, offset) = IF IsBatch(op) THEN <<e(0), e(offset)>> ELSE <<e(offset)>>
  BY DEF Entries, Length
<1> HIDE DEF e
<1>4. Kind(op, offset) \in {"read", "write", "bad"}
  BY DEF Kind
<1>5. Kind(op, offset) = "bad" <=> offset + 1 > Capacity
  BY DEF Kind, Length
<1>6. /\ InRange(e(0).offset, e(0).length)
      /\ InRange(e(offset).offset, e(offset).length) <=> offset + 1 <= Capacity
  BY <1>1, <1>2 DEF InRange
<1>7. CASE IsBatch(op)
  <2>1. /\ Entries(op, offset) = <<e(0), e(offset)>> /\ Entries(op, offset) \in Seq(BatchEntries)
        /\ Len(Entries(op, offset)) = 2 /\ DOMAIN Entries(op, offset) = {1, 2}
        /\ Entries(op, offset)[1] = e(0) /\ Entries(op, offset)[2] = e(offset)
    BY <1>1, <1>2, <1>3, <1>7
  <2>2. TotalLength(<<e(0), e(offset)>>) = e(0).length + e(offset).length
    BY <1>1, <1>2, TotalTwo
  <2>3. TotalLength(Entries(op, offset)) = 2
    BY <2>1, <2>2, <1>1, <1>2
  <2> QED  BY <2>1, <2>3, <1>1, <1>2, <1>4, <1>5, <1>6, <1>7
<1>8. CASE ~IsBatch(op)
  <2>1. /\ Entries(op, offset) = <<e(offset)>> /\ Entries(op, offset) \in Seq(BatchEntries)
        /\ Len(Entries(op, offset)) = 1 /\ DOMAIN Entries(op, offset) = {1}
        /\ Entries(op, offset)[1] = e(offset)
    BY <1>1, <1>2, <1>3, <1>8
  <2>2. TotalLength(<<e(offset)>>) = e(offset).length
    BY <1>1, <1>2, TotalOne
  <2>3. TotalLength(Entries(op, offset)) = 1
    BY <2>1, <2>2, <1>1, <1>2
  <2> QED  BY <2>1, <2>3, <1>1, <1>2, <1>4, <1>5, <1>6, <1>8
<1> QED  BY <1>7, <1>8

\* The record of a submission.
LEMMA RecordFacts ==
  ASSUME NEW op \in Operations, NEW offset \in Offsets, NEW i \in Ids, NEW s \in Slots,
         NEW c, c = SerializeStorageCommand(op, i, Entries(op, offset), s)
  PROVE  /\ c \in CommandRecords /\ c # NoRecord /\ c.op = op /\ c.id = i /\ c.slot = s
         /\ IsBatch(op) => c.offset = 2 /\ c.length = TotalLength(Entries(op, offset))
         /\ ~IsBatch(op) => c.offset = offset /\ c.length = 1
<1>1. /\ op \in AllOperations /\ offset \in 0 .. WordMax /\ i \in Nat /\ i # 0 /\ s \in Nat
      /\ 2 \in 0 .. WordMax
  BY EntriesFacts, SerdeAssumption, WireAssumption DEF Ids, Slots, kStorageMaxBatchEntries
<1>2. CommandAccess(op) \in {"RemoteRead", "RemoteWrite"}
  BY DEF CommandAccess, DataAccess
<1>3. CASE IsBatch(op)
  <2>1. Len(Entries(op, offset)) = 2 /\ TotalLength(Entries(op, offset)) = 2
    BY <1>3, EntriesFacts
  <2>2. c = [op |-> op, id |-> i, offset |-> 2, length |-> TotalLength(Entries(op, offset)), size |-> 80,
             access |-> CommandAccess(op), slot |-> s]
    BY <2>1, <1>1, <1>3
       DEF SerializeStorageCommand, serialize_command, NoId, kStorageMaxBatchEntries, kStorageBatchEntryBytes
  <2>3. c.op # "none"
    BY <2>2, <1>1 DEF AllOperations
  <2> QED  BY <2>1, <2>2, <2>3, <1>1, <1>2, <1>3 DEF CommandRecords, NoRecord
<1>4. CASE ~IsBatch(op)
  <2>1. Entries(op, offset)[1].offset = offset /\ Entries(op, offset)[1].length = 1
    BY <1>4, EntriesFacts
  <2>2. c = [op |-> op, id |-> i, offset |-> offset, length |-> 1, size |-> 1,
             access |-> CommandAccess(op), slot |-> s]
    BY <2>1, <1>1, <1>4 DEF SerializeStorageCommand, serialize_command, NoId
  <2>3. c.op # "none"
    BY <2>2, <1>1 DEF AllOperations
  <2> QED  BY <2>1, <2>2, <2>3, <1>1, <1>2, <1>4 DEF CommandRecords, NoRecord
<1> QED  BY <1>3, <1>4

\* A batch is judged good when its submission is in range.
LEMMA BatchJudged ==
  ASSUME NEW op \in Operations, NEW offset \in Offsets, IsBatch(op),
         NEW c, c.op = op, c.length = TotalLength(Entries(op, offset))
  PROVE  /\ BatchStatus(c, Entries(op, offset)) \in Statuses
         /\ BatchStatus(c, Entries(op, offset)) = "Success" <=> Kind(op, offset) # "bad"
<1> DEFINE e == Entries(op, offset)
           refused == {k \in DOMAIN e : ~deserialize_batch_entry(c.op, e[k]) \/ ~InRange(e[k].offset, e[k].length)}
<1>1. BatchStatus(c, e) =
        IF refused # {}
        THEN IF ~deserialize_batch_entry(c.op, e[Min(refused)]) THEN "InvalidCommand" ELSE "RangeError"
        ELSE IF TotalLength(e) # c.length THEN "InvalidCommand" ELSE "Success"
  BY DEF BatchStatus
<1>2. refused = {} <=> Kind(op, offset) # "bad"
  <2> HIDE DEF e
  <2>1. \A k \in DOMAIN e : deserialize_batch_entry(c.op, e[k])
    BY EntriesFacts DEF e
  <2>2. Kind(op, offset) = "bad" <=> \E k \in DOMAIN e : ~InRange(e[k].offset, e[k].length)
    BY EntriesFacts DEF e
  <2> QED  BY <2>1, <2>2
<1> HIDE DEF refused, e
<1>3. TotalLength(e) = c.length
  BY DEF e
<1> QED  BY <1>1, <1>2, <1>3 DEF Statuses, e

\* So is a plain command.
LEMMA RangeJudged ==
  ASSUME NEW op \in Operations, NEW offset \in Offsets, ~IsBatch(op),
         NEW c, c.offset = offset, c.length = 1
  PROVE  /\ RangeStatus(c) \in Statuses
         /\ RangeStatus(c) = "Success" <=> Kind(op, offset) # "bad"
<1>1. Kind(op, offset) = "bad" <=> offset + 1 > Capacity
  BY DEF Kind, Length
<1>2. InRange(c.offset, c.length) <=> offset + 1 <= Capacity
  BY EntriesFacts, SerdeAssumption DEF InRange
<1>3. offset + 1 > Capacity <=> ~(offset + 1 <= Capacity)
  BY EntriesFacts, SerdeAssumption
<1> QED  BY <1>1, <1>2, <1>3 DEF RangeStatus, Statuses

\* The kind of a submission that is in range.
LEMMA GoodKind ==
  ASSUME NEW op, NEW offset, Kind(op, offset) # "bad"
  PROVE  Kind(op, offset) = IF IsRead(op) THEN "read" ELSE "write"
  BY DEF Kind

-----------------------------------------------------------------------------
(* Least elements, slots and windows. *)

\* A set of naturals that is not empty has a least element, which Min picks.
LEMMA LeastIn ==
  ASSUME NEW S, S \subseteq Nat, S # {}
  PROVE  Min(S) \in S /\ \A y \in S : Min(S) <= y
<1>1. PICK x \in S : \A y \in S : ~(<<y, x>> \in OpToRel(<, Nat))
  BY NatLessThanWellFounded, WFMin
<1>2. \A y \in S : ~(y < x)
  BY <1>1 DEF OpToRel
<1>3. \A y \in S : x =< y
  BY <1>2
<1> QED  BY <1>3, Zenon DEF Min

\* The least of two numbers.
LEMMA LeastOfTwo ==
  ASSUME NEW a \in Nat, NEW b \in Nat
  PROVE  Min({a, b}) = IF a <= b THEN a ELSE b
<1>1. Min({a, b}) \in {a, b} /\ \A y \in {a, b} : Min({a, b}) <= y
  BY LeastIn
<1> QED  BY <1>1

\* The constants, and the rotation of the slots.
LEMMA SlotFacts ==
  ASSUME TypeOK
  PROVE  /\ NumSlots \in Nat /\ NumSlots >= 1 /\ Slots = 0 .. NumSlots - 1
         /\ \A a \in Nat : a % NumSlots \in Slots
         /\ nextSlot \in Nat
<1>1. Qps \in Nat \ {0} /\ SlotsPerQp \in Nat \ {0}
  BY WireAssumption
<1>2. NumSlots \in Nat /\ NumSlots >= 1
  BY <1>1 DEF NumSlots
<1>3. Slots = 0 .. NumSlots - 1
  BY DEF NumSlots, Slots
<1> HIDE DEF NumSlots
<1>4. \A a \in Nat : a % NumSlots \in 0 .. NumSlots - 1
  BY <1>2
<1>5. nextSlot \in Nat
  BY <1>2, <1>3 DEF TypeOK, ClientTypeOK
<1> QED  BY <1>2, <1>3, <1>4, <1>5

\* The types of the variables, with opaque sets of records.
SendRecords == [slot : Slots, id : Ids]
SlotStates == [id : Ids \cup {NoId}, expected : 0 .. 2 * Length,
               inFlight : BOOLEAN, status : SendStatuses]
WorkerStates == [phase : Phases, served : Nat, pending : Seq(PendingCommands)]

\* The type invariant, unfolded to one fact per variable.
LEMMA StateFacts ==
  TypeOK <=>
    /\ commandBuf \in [Slots -> CommandRecords] /\ entryBuf \in [Slots -> Seq(BatchEntries)]
    /\ completionBuf \in [Slots -> Completions] /\ sends \in [Queues -> Seq(SendRecords)]
    /\ namespace \in Seq(Ids) /\ dataBuf \in [Ids -> Nat \cup {NoData}]
    /\ backend \in Backends /\ allocated \in [Slots -> BOOLEAN] /\ nextSlot \in Slots
    /\ nextId \in 1 .. CommandCount + 1 /\ slotState \in [Slots -> SlotStates]
    /\ asked \in [Ids -> {"none", "read", "write", "bad"}] /\ answers \in [Ids -> Answers]
    /\ worker \in [Queues -> WorkerStates] /\ receives \in [Queues -> Seq(Buffers)]
    /\ recvBuf \in [Queues -> [Buffers -> CommandRecords]] /\ arrived \in [Queues -> Nat]
    /\ requests \in [Queues -> SUBSET Requests] /\ firstError \in {"none", "kProtocol", "kVerbs"}
  BY Zenon DEF TypeOK, WireTypeOK, ClientTypeOK, ServerTypeOK, SendRecords, SlotStates, WorkerStates

\* The same after a step.
LEMMA StateFactsNext ==
  TypeOK' <=>
    /\ commandBuf' \in [Slots -> CommandRecords] /\ entryBuf' \in [Slots -> Seq(BatchEntries)]
    /\ completionBuf' \in [Slots -> Completions] /\ sends' \in [Queues -> Seq(SendRecords)]
    /\ namespace' \in Seq(Ids) /\ dataBuf' \in [Ids -> Nat \cup {NoData}]
    /\ backend' \in Backends /\ allocated' \in [Slots -> BOOLEAN] /\ nextSlot' \in Slots
    /\ nextId' \in 1 .. CommandCount + 1 /\ slotState' \in [Slots -> SlotStates]
    /\ asked' \in [Ids -> {"none", "read", "write", "bad"}] /\ answers' \in [Ids -> Answers]
    /\ worker' \in [Queues -> WorkerStates] /\ receives' \in [Queues -> Seq(Buffers)]
    /\ recvBuf' \in [Queues -> [Buffers -> CommandRecords]] /\ arrived' \in [Queues -> Nat]
    /\ requests' \in [Queues -> SUBSET Requests] /\ firstError' \in {"none", "kProtocol", "kVerbs"}
  BY Zenon DEF TypeOK, WireTypeOK, ClientTypeOK, ServerTypeOK, SendRecords, SlotStates, WorkerStates

\* The share of a worker, its receives and its windows.
LEMMA WindowFacts ==
  ASSUME TypeOK, NEW q \in Queues, worker[q].served <= Share(q)
  PROVE  /\ Share(q) \in Nat /\ ActiveSlots(q) \in Nat /\ Window(q) \in Nat
         /\ ActiveSlots(q) <= SlotsPerQp /\ SlotsPerQp \in Nat
         /\ Window(q) <= ActiveSlots(q) /\ Window(q) + worker[q].served <= Share(q)
         /\ Window(q) = ActiveSlots(q) \/ Window(q) + worker[q].served = Share(q)
<1>1. Qps \in Nat \ {0} /\ SlotsPerQp \in Nat \ {0} /\ CommandCount \in Nat
  BY WireAssumption
<1>2. CommandCount \div Qps \in Nat
  BY <1>1
<1>3. Share(q) \in Nat
  BY <1>2 DEF Share
<1>4. worker[q].served \in Nat
  BY DEF TypeOK, ServerTypeOK
<1>5. ActiveSlots(q) = IF Share(q) <= SlotsPerQp THEN Share(q) ELSE SlotsPerQp
  BY <1>1, <1>3, LeastOfTwo DEF ActiveSlots
<1>6. ActiveSlots(q) \in Nat /\ Share(q) - worker[q].served \in Nat
  BY <1>1, <1>3, <1>4, <1>5
<1>7. Window(q) = IF ActiveSlots(q) <= Share(q) - worker[q].served
                  THEN ActiveSlots(q) ELSE Share(q) - worker[q].served
  BY <1>6, LeastOfTwo DEF Window
<1> QED  BY <1>1, <1>3, <1>4, <1>5, <1>6, <1>7

-----------------------------------------------------------------------------
(* Live slots. *)

\* The memory of a live slot.
LEMMA LiveFacts ==
  ASSUME NEW s \in LiveSlots
  PROVE  /\ s \in Slots /\ slotState[s].id \in Ids /\ answers[slotState[s].id] = "none"
         /\ completionBuf[s] = PendingCompletion(slotState[s].id) /\ slotState[s].status = "SUCCESS"
         /\ commandBuf[s] \in CommandRecords /\ commandBuf[s].id = slotState[s].id
         /\ commandBuf[s].slot = s /\ asked[slotState[s].id] \in {"read", "write", "bad"}
         /\ \E op \in Operations, offset \in Offsets : Submitted(s, op, offset) /\ commandBuf[s].op = op
<1>1. /\ s \in Slots /\ slotState[s].id \in Ids /\ answers[slotState[s].id] = "none"
      /\ completionBuf[s] = PendingCompletion(slotState[s].id) /\ slotState[s].status = "SUCCESS"
      /\ \E op \in Operations, offset \in Offsets : Submitted(s, op, offset)
  BY DEF LiveSlots
<1>2. PICK op \in Operations, offset \in Offsets : Submitted(s, op, offset)
  BY <1>1
<1>3. /\ commandBuf[s] = SerializeStorageCommand(op, slotState[s].id, Entries(op, offset), s)
      /\ asked[slotState[s].id] = Kind(op, offset)
  BY <1>2 DEF Submitted
<1>4. /\ commandBuf[s] \in CommandRecords /\ commandBuf[s].op = op
      /\ commandBuf[s].id = slotState[s].id /\ commandBuf[s].slot = s
  BY <1>1, <1>3, RecordFacts
<1>5. asked[slotState[s].id] \in {"read", "write", "bad"}
  BY <1>3, EntriesFacts
<1> QED  BY <1>1, <1>2, <1>4, <1>5

\* A slot stays live when nobody touches it.
LEMMA LiveKept ==
  ASSUME NEW s \in LiveSlots,
         slotState'[s] = slotState[s], commandBuf'[s] = commandBuf[s], entryBuf'[s] = entryBuf[s],
         completionBuf'[s] = completionBuf[s], answers'[slotState[s].id] = answers[slotState[s].id],
         asked'[slotState[s].id] = asked[slotState[s].id]
  PROVE  s \in LiveSlots'
<1>1. PICK op \in Operations, offset \in Offsets : Submitted(s, op, offset)
  BY DEF LiveSlots
<1>2. Submitted(s, op, offset)'
  BY <1>1 DEF Submitted
<1>3. /\ s \in Slots /\ slotState'[s].id \in Ids /\ answers'[slotState'[s].id] = "none"
      /\ completionBuf'[s] = PendingCompletion(slotState'[s].id) /\ slotState'[s].status = "SUCCESS"
  BY DEF LiveSlots
<1> QED  BY <1>2, <1>3 DEF LiveSlots, PendingCompletion

\* The live slots of the queue stay as they are.
Undisturbed(q) ==
  \A t \in LiveSlots : QueueOf(t) = q =>
    /\ t \in LiveSlots' /\ slotState'[t] = slotState[t] /\ commandBuf'[t] = commandBuf[t]
    /\ entryBuf'[t] = entryBuf[t] /\ asked'[slotState[t].id] = asked[slotState[t].id]
    /\ (slotState[t].id \in Effects') <=> (slotState[t].id \in Effects)

\* A Send was posted for a slot of the queue that was not live.
Posted(q) ==
  \E s \in Slots \ LiveSlots :
    /\ s \in LiveSlots' /\ QueueOf(s) = q /\ slotState'[s].id = slotState[s].id
    /\ slotState[s].id \notin Effects'
    /\ sends'[q] = Append(sends[q], [slot |-> s, id |-> slotState[s].id])

\* A queue whose worker does nothing and whose live slots are left alone.
LEMMA QueueKept ==
  ASSUME TypeOK, NEW q \in Queues, QueueInv(q), Undisturbed(q), sends'[q] = sends[q] \/ Posted(q),
         worker'[q] = worker[q], receives'[q] = receives[q], recvBuf'[q] = recvBuf[q],
         arrived'[q] = arrived[q], requests'[q] = requests[q]
  PROVE  QueueInv(q)'
<1>0. ReceiveInv(q) /\ SendInv(q) /\ FilledInv(q) /\ OwnedInv(q) /\ ProgressInv(q) /\ RequestInv(q)
  BY DEF QueueInv
<1>1. /\ Received(q)' = Received(q) /\ Owned(q)' = Owned(q) /\ Filled(q)' = Filled(q)
      /\ Window(q)' = Window(q)
  BY DEF Received, Owned, Filled, Window
<1>2. ReceiveInv(q)'
  BY <1>0, <1>1 DEF ReceiveInv
<1>3. RequestInv(q)'
  BY <1>0, <1>1 DEF RequestInv
<1>4. sends[q] \in Seq(SendRecords) /\ Len(sends[q]) \in Nat
  BY StateFacts
<1>5. \A k \in 1 .. Len(sends'[q]) :
        \/ k \in 1 .. Len(sends[q]) /\ sends'[q][k] = sends[q][k]
        \/ Posted(q) /\ k = Len(sends[q]) + 1 /\ sends'[q][k].slot \notin LiveSlots
  <2>1. CASE sends'[q] = sends[q]
    BY <2>1
  <2>2. CASE Posted(q)
    <3>1. PICK s \in Slots \ LiveSlots : sends'[q] = Append(sends[q], [slot |-> s, id |-> slotState[s].id])
      BY <2>2 DEF Posted
    <3>2. PICK m : m = [slot |-> s, id |-> slotState[s].id]
      OBVIOUS
    <3>3. \A k \in 1 .. Len(sends'[q]) :
            \/ k \in 1 .. Len(sends[q]) /\ sends'[q][k] = sends[q][k]
            \/ k = Len(sends[q]) + 1 /\ sends'[q][k] = m
      BY <3>1, <3>2, <1>4
    <3>4. m.slot \notin LiveSlots
      BY <3>2
    <3> QED  BY <3>3, <3>4, <2>2
  <2> QED  BY <2>1, <2>2
<1>6. SendInv(q)'
  <2>1. ASSUME NEW k \in 1 .. Len(sends[q])
        PROVE  /\ sends[q][k].slot \in LiveSlots' /\ QueueOf(sends[q][k].slot) = q
               /\ sends[q][k].id = slotState'[sends[q][k].slot].id /\ sends[q][k].id \notin Effects'
    BY <1>0 DEF SendInv, Undisturbed
  <2>2. ASSUME Posted(q), NEW k, k = Len(sends[q]) + 1
        PROVE  /\ sends'[q][k].slot \in LiveSlots' /\ QueueOf(sends'[q][k].slot) = q
               /\ sends'[q][k].id = slotState'[sends'[q][k].slot].id /\ sends'[q][k].id \notin Effects'
    <3>1. PICK s \in Slots \ LiveSlots :
            /\ s \in LiveSlots' /\ QueueOf(s) = q /\ slotState'[s].id = slotState[s].id
            /\ slotState[s].id \notin Effects'
            /\ sends'[q] = Append(sends[q], [slot |-> s, id |-> slotState[s].id])
      BY <2>2 DEF Posted
    <3>2. PICK m : m = [slot |-> s, id |-> slotState[s].id]
      OBVIOUS
    <3>3. sends'[q][k] = m
      BY <3>1, <3>2, <2>2, <1>4
    <3>4. m.slot = s /\ m.id = slotState[s].id
      BY <3>2
    <3>5. /\ m.slot \in LiveSlots' /\ QueueOf(m.slot) = q
          /\ m.id = slotState'[m.slot].id /\ m.id \notin Effects'
      BY <3>1, <3>4
    <3> QED  BY <3>3, <3>5
  <2>3. ASSUME NEW j \in 1 .. Len(sends'[q]), NEW k \in 1 .. Len(sends'[q]),
               sends'[q][j].slot = sends'[q][k].slot
        PROVE  j = k
    BY <2>3, <1>0, <1>5 DEF SendInv
  <2>4. ASSUME NEW k \in 1 .. Len(sends'[q])
        PROVE  /\ sends'[q][k].slot \in LiveSlots' /\ QueueOf(sends'[q][k].slot) = q
               /\ sends'[q][k].id = slotState'[sends'[q][k].slot].id /\ sends'[q][k].id \notin Effects'
    BY <2>1, <2>2, <1>5
  <2> QED  BY <2>3, <2>4 DEF SendInv, QueueOf
<1>7. FilledInv(q)'
  <2>1. ASSUME NEW b \in Filled(q), NEW c, c = recvBuf[q][b]
        PROVE  /\ c.slot \in LiveSlots /\ c.slot \in LiveSlots' /\ QueueOf(c.slot) = q
               /\ c = commandBuf'[c.slot] /\ c.id \notin Effects'
    <3>1. /\ c.slot \in LiveSlots /\ QueueOf(c.slot) = q /\ c = commandBuf[c.slot] /\ c.id \notin Effects
      BY <2>1, <1>0 DEF FilledInv, LiveRecord
    <3>2. c.id = slotState[c.slot].id
      BY <3>1, LiveFacts
    <3> QED  BY <3>1, <3>2 DEF Undisturbed
  <2>2. ASSUME NEW b \in Filled(q), NEW d \in Filled(q), recvBuf[q][d].slot = recvBuf[q][b].slot
        PROVE  d = b
    BY <2>2, <1>0 DEF FilledInv
  <2>3. ASSUME NEW b \in Filled(q), NEW k \in 1 .. Len(sends'[q])
        PROVE  sends'[q][k].slot # recvBuf[q][b].slot
    BY <2>1, <1>0, <1>5 DEF FilledInv
  <2> QED  BY <2>1, <2>2, <2>3, <1>1 DEF FilledInv, LiveRecord, QueueOf
<1>8. OwnedInv(q)'
  <2>1. ASSUME NEW i \in Owned(q), NEW c, c = worker[q].pending[i].command
        PROVE  /\ c.slot \in LiveSlots /\ c.slot \in LiveSlots' /\ QueueOf(c.slot) = q
               /\ c = commandBuf'[c.slot] /\ c.slot = WorkerSlot(q, i)
               /\ \A b \in Filled(q) : recvBuf[q][b].slot # c.slot
    BY <2>1, <1>0 DEF OwnedInv, LiveRecord, Undisturbed
  <2>2. ASSUME NEW i \in Owned(q), NEW k \in 1 .. Len(sends'[q])
        PROVE  sends'[q][k].slot # worker[q].pending[i].command.slot
    BY <2>1, <1>0, <1>5, SMTT(30) DEF OwnedInv
  <2> QED  BY <2>1, <2>2, <1>1 DEF OwnedInv, LiveRecord, QueueOf, WorkerSlot
<1>9. ProgressInv(q)'
  <2>1. ASSUME NEW i \in Owned(q) PROVE Progress(q, i)'
    <3>1. PICK p : p = worker[q].pending[i] /\ p = worker'[q].pending[i]
      OBVIOUS
    <3>2. p.command.slot \in LiveSlots /\ QueueOf(p.command.slot) = q /\ p.command = commandBuf[p.command.slot]
      BY <3>1, <1>0 DEF OwnedInv, LiveRecord
    <3>3. p.command.id = slotState[p.command.slot].id
      BY <3>2, LiveFacts
    <3>4. /\ slotState'[p.command.slot] = slotState[p.command.slot]
          /\ entryBuf'[p.command.slot] = entryBuf[p.command.slot]
          /\ asked'[p.command.id] = asked[p.command.id]
          /\ (p.command.id \in Effects') <=> (p.command.id \in Effects)
      BY <3>2, <3>3 DEF Undisturbed
    <3>5. Progress(q, i)
      BY <1>0 DEF ProgressInv
    <3> QED  BY <3>1, <3>4, <3>5 DEF Progress
  <2> QED  BY <2>1, <1>1 DEF ProgressInv
<1> QED  BY <1>2, <1>3, <1>6, <1>7, <1>8, <1>9 DEF QueueInv

-----------------------------------------------------------------------------
(* Steps of the client. *)

\* Every slot belongs to a queue pair.
LEMMA QueueOfSlot ==
  ASSUME NEW s \in Slots PROVE QueueOf(s) \in Queues
<1>1. Qps \in Nat \ {0} /\ s \in Nat
  BY WireAssumption DEF Slots
<1>2. s % Qps \in 0 .. Qps - 1
  BY <1>1
<1> QED  BY <1>2 DEF QueueOf, Queues

\* The effects depend on the namespace and the client's data only.
LEMMA EffectsKept ==
  ASSUME namespace' = namespace, dataBuf' = dataBuf
  PROVE  Effects' = Effects
  BY DEF Effects, TookEffect

\* The application touches a slot that is not live, and what belongs to its command.
LEMMA ClientTouches ==
  ASSUME IInv, NEW s \in Slots, s \notin LiveSlots,
         \A t \in Slots : t # s => /\ slotState'[t] = slotState[t] /\ commandBuf'[t] = commandBuf[t]
                                   /\ entryBuf'[t] = entryBuf[t] /\ completionBuf'[t] = completionBuf[t],
         \A i \in Ids : i # slotState[s].id => asked'[i] = asked[i] /\ answers'[i] = answers[i],
         namespace' = namespace, dataBuf' = dataBuf, UNCHANGED serverVars,
         \/ sends' = sends
         \/ /\ PostCommand(s) /\ s \in LiveSlots' /\ slotState'[s].id = slotState[s].id
            /\ slotState[s].id \notin Effects
  PROVE  /\ \A q \in Queues : QueueInv(q)'
         /\ Effects' = Effects
         /\ \A t \in Slots : t # s /\ slotState'[t].inFlight => Outcome(t)'
<1>0. TypeOK /\ SlotInv /\ OutcomeInv /\ \A q \in Queues : QueueInv(q)
  BY DEF IInv
<1>1. Effects' = Effects
  BY EffectsKept
<1>2. ASSUME NEW t \in Slots, t # s, slotState[t].id \in Ids
      PROVE  /\ asked'[slotState[t].id] = asked[slotState[t].id]
             /\ answers'[slotState[t].id] = answers[slotState[t].id]
  <2>1. slotState[t].id # NoId
    BY <1>2 DEF Ids, NoId
  <2>2. slotState[t].id # slotState[s].id
    BY <2>1, <1>0, <1>2 DEF SlotInv
  <2> QED  BY <2>2, <1>2
<1>3. ASSUME NEW t \in LiveSlots
      PROVE  /\ t \in LiveSlots' /\ slotState'[t] = slotState[t] /\ commandBuf'[t] = commandBuf[t]
             /\ entryBuf'[t] = entryBuf[t] /\ asked'[slotState[t].id] = asked[slotState[t].id]
             /\ (slotState[t].id \in Effects') <=> (slotState[t].id \in Effects)
  <2>1. t \in Slots /\ t # s /\ slotState[t].id \in Ids
    BY LiveFacts
  <2>2. /\ slotState'[t] = slotState[t] /\ commandBuf'[t] = commandBuf[t]
        /\ entryBuf'[t] = entryBuf[t] /\ completionBuf'[t] = completionBuf[t]
    BY <2>1
  <2>3. /\ asked'[slotState[t].id] = asked[slotState[t].id]
        /\ answers'[slotState[t].id] = answers[slotState[t].id]
    BY <2>1, <1>2
  <2> QED  BY <2>2, <2>3, <1>1, LiveKept
<1>4. ASSUME NEW q \in Queues PROVE QueueInv(q)'
  <2>1. Undisturbed(q)
    BY <1>3 DEF Undisturbed
  <2>2. sends'[q] = sends[q] \/ Posted(q)
    <3>1. CASE sends' = sends
      BY <3>1
    <3>2. CASE /\ PostCommand(s) /\ s \in LiveSlots' /\ slotState'[s].id = slotState[s].id
               /\ slotState[s].id \notin Effects
      <4>1. sends \in [Queues -> Seq(SendRecords)]
        BY <1>0, StateFacts
      <4>2. PICK m : m = [slot |-> s, id |-> slotState[s].id]
        OBVIOUS
      <4>3. sends' = [sends EXCEPT ![QueueOf(s)] = Append(@, m)]
        BY <3>2, <4>2 DEF PostCommand
      <4>4. CASE q = QueueOf(s)
        <5>1. sends'[q] = Append(sends[q], m)
          BY <4>1, <4>3, <4>4
        <5>2. slotState[s].id \notin Effects'
          BY <3>2, <1>1
        <5> QED  BY <5>1, <5>2, <4>2, <4>4, <3>2 DEF Posted
      <4>5. CASE q # QueueOf(s)
        BY <4>1, <4>3, <4>5
      <4> QED  BY <4>4, <4>5
    <3> QED  BY <3>1, <3>2
  <2>3. /\ worker'[q] = worker[q] /\ receives'[q] = receives[q] /\ recvBuf'[q] = recvBuf[q]
        /\ arrived'[q] = arrived[q] /\ requests'[q] = requests[q]
    BY DEF serverVars
  <2> QED  BY <2>1, <2>2, <2>3, <1>0, QueueKept
<1>5. ASSUME NEW t \in Slots, t # s, slotState'[t].inFlight
      PROVE  Outcome(t)'
  <2>1. slotState'[t] = slotState[t] /\ completionBuf'[t] = completionBuf[t] /\ slotState[t].inFlight
    BY <1>5
  <2>2. slotState[t].id \in Ids
    <3>1. slotState[t].id # NoId
      BY <2>1, <1>0 DEF SlotInv
    <3>2. slotState[t].id \in Ids \cup {NoId}
      BY <1>0, StateFacts DEF SlotStates
    <3> QED  BY <3>1, <3>2
  <2>3. asked'[slotState[t].id] = asked[slotState[t].id]
    BY <2>2, <1>2, <1>5
  <2>4. Outcome(t)
    BY <2>1, <1>0 DEF OutcomeInv
  <2> QED  BY <2>1, <2>3, <2>4, <1>1 DEF Outcome, Completed, PendingCompletion
<1> QED  BY <1>1, <1>4, <1>5

\* The slot the rotation finds is free.
LEMMA AllocateFinds ==
  ASSUME TypeOK, NEW queues, FreeAttempts(queues) # {}
  PROVE  /\ Rotated(Min(FreeAttempts(queues))) \in Slots
         /\ ~allocated[Rotated(Min(FreeAttempts(queues)))]
<1>1. FreeAttempts(queues) \subseteq Nat
  BY SlotFacts DEF FreeAttempts
<1>2. PICK a : a = Min(FreeAttempts(queues)) /\ a \in FreeAttempts(queues)
  BY <1>1, LeastIn
<1>3. a \in Nat /\ ~allocated[Rotated(a)]
  BY <1>1, <1>2 DEF FreeAttempts
<1>4. Rotated(a) \in Slots
  <2>0. nextSlot \in Nat
    BY SlotFacts
  <2>1. nextSlot + a \in Nat
    BY <2>0, <1>3
  <2>2. (nextSlot + a) % NumSlots \in Slots
    BY <2>1, SlotFacts
  <2> QED  BY <2>2 DEF Rotated
<1> QED  BY <1>2, <1>3, <1>4

\* A slot that is reserved for a command and has not submitted it.
LEMMA EmptySlot ==
  ASSUME NEW i \in Ids
  PROVE  /\ [EmptyState EXCEPT !.id = i] \in SlotStates
         /\ [EmptyState EXCEPT !.id = i].id = i /\ ~[EmptyState EXCEPT !.id = i].inFlight
         /\ [EmptyState EXCEPT !.id = i].status = "SUCCESS"
         /\ EmptyState \in SlotStates /\ EmptyState.id = NoId /\ ~EmptyState.inFlight
<1>1. /\ EmptyState \in SlotStates /\ EmptyState.id = NoId /\ EmptyState.inFlight = FALSE
      /\ EmptyState.status = "SUCCESS"
  BY DEF SlotStates, Length, EmptyState, SendStatuses
<1>2. PICK r \in [id : Ids \cup {NoId}, expected : 0 .. 2 * Length,
                  inFlight : BOOLEAN, status : SendStatuses] : r = EmptyState
  BY <1>1 DEF SlotStates
<1>3. PICK t : t = [r EXCEPT !.id = i]
  OBVIOUS
<1>4. /\ t.id = i /\ t.inFlight = r.inFlight /\ t.status = r.status
      /\ t \in [id : Ids \cup {NoId}, expected : 0 .. 2 * Length,
                inFlight : BOOLEAN, status : SendStatuses]
  BY <1>3
<1>5. t \in SlotStates /\ t.id = i /\ ~t.inFlight /\ ~EmptyState.inFlight /\ t.status = "SUCCESS"
  BY <1>1, <1>2, <1>4 DEF SlotStates
<1> QED  BY <1>1, <1>2, <1>3, <1>5

\* Allocation of a slot.
LEMMA AllocateIInv ==
  ASSUME IInv, NEW queues, AllocateSlot(queues), UNCHANGED serverVars PROVE IInv'
<1>0. TypeOK /\ SlotInv /\ UnaskedInv
  BY DEF IInv
<1>1. PICK s \in Slots :
        /\ ~allocated[s] /\ nextId <= CommandCount
        /\ allocated' = [allocated EXCEPT ![s] = TRUE]
        /\ nextSlot' = (s + 1) % NumSlots
        /\ slotState' = [slotState EXCEPT ![s] = [EmptyState EXCEPT !.id = nextId]]
        /\ nextId' = nextId + 1
        /\ UNCHANGED <<backend, asked, answers, wireVars>>
  BY <1>0, AllocateFinds DEF AllocateSlot
<1>2. /\ nextId \in Ids /\ nextId' \in 1 .. CommandCount + 1 /\ nextId \in Nat /\ nextId # NoId
      /\ nextId < nextId'
  BY <1>0, <1>1, StateFacts, WireAssumption DEF Ids, NoId
<1>3. slotState[s].id = NoId
  BY <1>0, <1>1 DEF SlotInv
<1>4. s \notin LiveSlots
  <2>1. NoId \notin Ids
    BY DEF NoId, Ids
  <2> QED  BY <2>1, <1>3, LiveFacts
<1>5. PICK e \in SlotStates : e = [EmptyState EXCEPT !.id = nextId] /\ e.id = nextId /\ ~e.inFlight
  BY <1>2, EmptySlot
<1>6. e.id = nextId /\ ~e.inFlight
  BY <1>5
<1>7. /\ slotState' \in [Slots -> SlotStates] /\ slotState'[s] = e
      /\ \A t \in Slots : t # s => slotState'[t] = slotState[t]
  BY <1>0, <1>1, <1>5, StateFacts
<1>8. /\ commandBuf' = commandBuf /\ entryBuf' = entryBuf /\ completionBuf' = completionBuf
      /\ sends' = sends /\ namespace' = namespace /\ dataBuf' = dataBuf
      /\ asked' = asked /\ answers' = answers /\ backend' = backend
  BY <1>1 DEF wireVars
<1>9. /\ \A q \in Queues : QueueInv(q)'
      /\ Effects' = Effects
      /\ \A t \in Slots : t # s /\ slotState'[t].inFlight => Outcome(t)'
  BY <1>4, <1>7, <1>8, ClientTouches
<1>10. SlotInv'
  <2>1. \A t \in Slots : ~allocated'[t] => slotState'[t].id = NoId
    <3>1. allocated \in [Slots -> BOOLEAN]
      BY <1>0, StateFacts
    <3>2. allocated'[s] /\ \A t \in Slots : t # s => allocated'[t] = allocated[t]
      BY <3>1, <1>1
    <3> QED  BY <3>2, <1>0, <1>7 DEF SlotInv
  <2>2. \A t \in Slots : slotState[t].id < nextId /\ slotState[t].id \in Nat
    <3>1. \A t \in Slots : slotState[t].id \in Ids \cup {NoId}
      BY <1>0, StateFacts DEF SlotStates
    <3> QED  BY <3>1, <1>0 DEF SlotInv, Ids, NoId
  <2>3. \A t \in Slots : slotState'[t].id < nextId'
    BY <2>2, <1>2, <1>6, <1>7
  <2>4. ASSUME NEW t \in Slots, NEW u \in Slots, slotState'[t].id = slotState'[u].id,
               slotState'[t].id # NoId
        PROVE  t = u
    <3>1. \A v \in Slots : v # s => slotState'[v].id = slotState[v].id /\ slotState[v].id # nextId
      BY <2>2, <1>2, <1>7
    <3> QED  BY <3>1, <2>4, <1>0, <1>6, <1>7 DEF SlotInv
  <2>5. \A t \in Slots : slotState'[t].inFlight => slotState'[t].id # NoId
    BY <1>0, <1>6, <1>7 DEF SlotInv
  <2> QED  BY <2>1, <2>3, <2>4, <2>5 DEF SlotInv
<1>11. UnaskedInv' /\ OutcomeInv'
  BY <1>0, <1>6, <1>7, <1>8, <1>9 DEF UnaskedInv, OutcomeInv
<1>12. TypeOK'
  <2>1. nextSlot' \in Slots
    <3>1. s + 1 \in Nat
      BY DEF Slots
    <3> QED  BY <3>1, <1>0, <1>1, SlotFacts
  <2>2. allocated' \in [Slots -> BOOLEAN]
    BY <1>0, <1>1, StateFacts
  <2>3. /\ worker' = worker /\ receives' = receives /\ recvBuf' = recvBuf /\ arrived' = arrived
        /\ requests' = requests /\ firstError' = firstError
    BY DEF serverVars
  <2> QED  BY <2>1, <2>2, <2>3, <1>0, <1>2, <1>7, <1>8
           DEF TypeOK, WireTypeOK, ClientTypeOK, ServerTypeOK, SlotStates
<1> QED  BY <1>9, <1>10, <1>11, <1>12 DEF IInv

\* An allocation whose copy fails: the slot stays free, the rotation moves on.
LEMMA AllocateFailsIInv ==
  ASSUME IInv, NEW queues, AllocateSlotFails(queues), UNCHANGED serverVars PROVE IInv'
<1>0. TypeOK /\ SlotInv /\ UnaskedInv
  BY DEF IInv
<1>1. PICK s \in Slots :
        /\ ~allocated[s] /\ nextId <= CommandCount
        /\ nextSlot' = (s + 1) % NumSlots /\ nextId' = nextId + 1
        /\ UNCHANGED <<backend, allocated, slotState, asked, answers, wireVars>>
  BY <1>0, AllocateFinds DEF AllocateSlotFails
<1>2. nextId' \in 1 .. CommandCount + 1 /\ nextId \in Nat /\ nextId < nextId'
  BY <1>0, <1>1, StateFacts, WireAssumption
<1>3. slotState[s].id = NoId /\ ~slotState[s].inFlight
  BY <1>0, <1>1 DEF SlotInv
<1>4. s \notin LiveSlots
  <2>1. NoId \notin Ids
    BY DEF NoId, Ids
  <2> QED  BY <2>1, <1>3, LiveFacts
<1>5. /\ commandBuf' = commandBuf /\ entryBuf' = entryBuf /\ completionBuf' = completionBuf
      /\ sends' = sends /\ namespace' = namespace /\ dataBuf' = dataBuf
      /\ asked' = asked /\ answers' = answers /\ backend' = backend
      /\ slotState' = slotState /\ allocated' = allocated
  BY <1>1 DEF wireVars
<1>6. /\ \A q \in Queues : QueueInv(q)'
      /\ Effects' = Effects
      /\ \A t \in Slots : t # s /\ slotState'[t].inFlight => Outcome(t)'
  BY <1>4, <1>5, ClientTouches
<1>7. SlotInv'
  <2>1. \A t \in Slots : slotState[t].id < nextId /\ slotState[t].id \in Nat
    <3>1. \A t \in Slots : slotState[t].id \in Ids \cup {NoId}
      BY <1>0, StateFacts DEF SlotStates
    <3> QED  BY <3>1, <1>0 DEF SlotInv, Ids, NoId
  <2>2. \A t \in Slots : slotState'[t].id < nextId'
    BY <2>1, <1>2, <1>5
  <2> QED  BY <2>2, <1>0, <1>5 DEF SlotInv
<1>8. UnaskedInv' /\ OutcomeInv'
  BY <1>0, <1>3, <1>5, <1>6 DEF UnaskedInv, OutcomeInv
<1>9. TypeOK'
  <2>1. nextSlot' \in Slots
    <3>1. s + 1 \in Nat
      BY DEF Slots
    <3> QED  BY <3>1, <1>0, <1>1, SlotFacts
  <2>2. /\ worker' = worker /\ receives' = receives /\ recvBuf' = recvBuf /\ arrived' = arrived
        /\ requests' = requests /\ firstError' = firstError
    BY DEF serverVars
  <2> QED  BY <2>1, <2>2, <1>0, <1>2, <1>5, StateFacts, StateFactsNext
<1> QED  BY <1>6, <1>7, <1>8, <1>9 DEF IInv

\* A slot whose command has not been submitted is not live, and its command has
\* neither answer nor effect.
LEMMA UnsubmittedSlot ==
  ASSUME IInv, NEW s \in Slots, slotState[s].id # NoId, asked[slotState[s].id] = "none"
  PROVE  /\ s \notin LiveSlots /\ slotState[s].id \in Ids
         /\ answers[slotState[s].id] = "none" /\ slotState[s].id \notin Effects
<1>0. TypeOK /\ UnaskedInv
  BY DEF IInv
<1>1. slotState[s].id \in Ids
  BY <1>0, StateFacts DEF SlotStates
<1>2. s \notin LiveSlots
  BY LiveFacts
<1> QED  BY <1>0, <1>1, <1>2 DEF UnaskedInv

\* A submission that wrote its records makes the slot live.
LEMMA SubmissionLives ==
  ASSUME NEW s \in Slots, NEW op \in Operations, NEW offset \in Offsets, NEW i \in Ids,
         slotState'[s].id = i, slotState'[s].status = "SUCCESS", answers'[i] = "none",
         completionBuf'[s] = PendingCompletion(i),
         commandBuf'[s] = SerializeStorageCommand(op, i, Entries(op, offset), s),
         entryBuf'[s] = IF IsBatch(op) THEN Entries(op, offset) ELSE <<>>,
         asked'[i] = Kind(op, offset),
         slotState'[s].inFlight => slotState'[s].expected = TotalLength(Entries(op, offset))
  PROVE  s \in LiveSlots'
<1>1. Submitted(s, op, offset)'
  BY DEF Submitted
<1> QED  BY <1>1 DEF LiveSlots, PendingCompletion

\* What a submission writes has its type.
LEMMA SubmissionTypes ==
  ASSUME NEW s \in Slots, NEW op \in Operations, NEW offset \in Offsets, NEW i \in Ids
  PROVE  /\ SerializeStorageCommand(op, i, Entries(op, offset), s) \in CommandRecords
         /\ PendingCompletion(i) \in Completions
         /\ (IF IsBatch(op) THEN Entries(op, offset) ELSE <<>>) \in Seq(BatchEntries)
         /\ Kind(op, offset) \in {"read", "write", "bad"}
         /\ TotalLength(Entries(op, offset)) \in 0 .. 2 * Length
<1>1. SerializeStorageCommand(op, i, Entries(op, offset), s) \in CommandRecords
  BY RecordFacts
<1>2. PendingCompletion(i) \in Completions
  BY DEF PendingCompletion, Completions, Statuses, Ids
<1>3. Entries(op, offset) \in Seq(BatchEntries) /\ Kind(op, offset) \in {"read", "write", "bad"}
  BY EntriesFacts
<1>4. TotalLength(Entries(op, offset)) \in {1, 2}
  BY EntriesFacts
<1>5. <<>> \in Seq(BatchEntries)
  OBVIOUS
<1> QED  BY <1>1, <1>2, <1>3, <1>4, <1>5 DEF Length

\* Posting keeps the Sends well typed.
LEMMA PostTypes ==
  ASSUME TypeOK, NEW s \in Slots, slotState[s].id \in Ids, PostCommand(s) \/ sends' = sends
  PROVE  sends' \in [Queues -> Seq(SendRecords)]
<1>0. sends \in [Queues -> Seq(SendRecords)] /\ QueueOf(s) \in Queues
  BY StateFacts, QueueOfSlot
<1>1. PICK m : m = [slot |-> s, id |-> slotState[s].id]
  OBVIOUS
<1>2. m \in SendRecords
  BY <1>1 DEF SendRecords
<1>3. CASE PostCommand(s)
  <2>1. sends' = [sends EXCEPT ![QueueOf(s)] = Append(@, m)]
    BY <1>1, <1>3 DEF PostCommand
  <2>2. Append(sends[QueueOf(s)], m) \in Seq(SendRecords)
    BY <1>0, <1>2
  <2> QED  BY <1>0, <2>1, <2>2
<1> QED  BY <1>0, <1>3

\* A slot that keeps its command keeps SlotInv.
LEMMA SlotInvKept ==
  ASSUME SlotInv, NEW s \in Slots, slotState[s].id # NoId, slotState'[s].id = slotState[s].id,
         \A t \in Slots : t # s => slotState'[t] = slotState[t],
         allocated' = allocated, nextId' = nextId
  PROVE  SlotInv'
<1>1. \A t \in Slots : slotState'[t].id = slotState[t].id
  OBVIOUS
<1>2. \A t \in Slots : slotState'[t].inFlight => slotState'[t].id # NoId
  BY <1>1 DEF SlotInv
<1> QED  BY <1>1, <1>2 DEF SlotInv

\* A command that is submitted now leaves UnaskedInv.
LEMMA UnaskedInvKept ==
  ASSUME TypeOK, UnaskedInv, Effects' = Effects, answers' = answers, NEW i \in Ids, NEW k,
         k # "none", asked' = [asked EXCEPT ![i] = k]
  PROVE  UnaskedInv'
<1>1. asked \in [Ids -> {"none", "read", "write", "bad"}]
  BY StateFacts
<1>2. \A j \in Ids : asked'[j] = "none" => asked[j] = "none"
  BY <1>1
<1> QED  BY <1>2 DEF UnaskedInv

\* A submission, its Send posted or refused.
LEMMA SubmitIInv ==
  ASSUME IInv, NEW s \in Slots, Submit(s) PROVE IInv'
<1>0. TypeOK /\ SlotInv /\ UnaskedInv
  BY DEF IInv
<1>1. PICK op \in Operations, offset \in Offsets : StorageSubmit(s, op, offset)
  BY DEF Submit
<1>2. PICK i \in Ids : i = slotState[s].id
  BY UnsubmittedSlot DEF Submit
<1>3. /\ slotState[s].id # NoId /\ s \notin LiveSlots /\ answers[i] = "none" /\ i \notin Effects
  BY <1>2, UnsubmittedSlot DEF Submit
<1>4. PICK c, e, n, k :
        /\ c = SerializeStorageCommand(op, i, Entries(op, offset), s)
        /\ e = (IF IsBatch(op) THEN Entries(op, offset) ELSE <<>>)
        /\ n = TotalLength(Entries(op, offset)) /\ k = Kind(op, offset)
  OBVIOUS
<1>5. /\ c \in CommandRecords /\ PendingCompletion(i) \in Completions /\ e \in Seq(BatchEntries)
      /\ k \in {"read", "write", "bad"} /\ n \in 0 .. 2 * Length
  BY <1>4, SubmissionTypes
<1>6. /\ entryBuf' = [entryBuf EXCEPT ![s] = e]
      /\ completionBuf' = [completionBuf EXCEPT ![s] = PendingCompletion(i)]
      /\ commandBuf' = [commandBuf EXCEPT ![s] = c]
      /\ asked' = [asked EXCEPT ![i] = k]
      /\ UNCHANGED <<backend, allocated, nextSlot, nextId, answers, namespace, dataBuf>>
      /\ UNCHANGED serverVars
  BY <1>1, <1>2, <1>4 DEF StorageSubmit, WriteEntries, Submit
<1>7. PICK status \in SendStatuses :
        /\ slotState' = [slotState EXCEPT ![s] = [id |-> i, expected |-> n, inFlight |-> TRUE, status |-> status]]
        /\ (status = "SUCCESS" /\ PostCommand(s)) \/ sends' = sends
  BY <1>1, <1>2, <1>4 DEF StorageSubmit
<1>8. PICK r \in SlotStates : /\ slotState' = [slotState EXCEPT ![s] = r]
                              /\ r.id = i /\ r.expected = n /\ r.inFlight = TRUE /\ r.status = status
  <2>1. PICK r : r = [id |-> i, expected |-> n, inFlight |-> TRUE, status |-> status]
    OBVIOUS
  <2>2. r \in SlotStates /\ r.id = i /\ r.expected = n /\ r.inFlight = TRUE /\ r.status = status
    BY <2>1, <1>5 DEF SlotStates
  <2> QED  BY <2>1, <2>2, <1>7
<1>9. /\ slotState \in [Slots -> SlotStates] /\ commandBuf \in [Slots -> CommandRecords]
      /\ entryBuf \in [Slots -> Seq(BatchEntries)] /\ completionBuf \in [Slots -> Completions]
      /\ asked \in [Ids -> {"none", "read", "write", "bad"}] /\ answers \in [Ids -> Answers]
  BY <1>0, StateFacts
<1>10. /\ slotState' \in [Slots -> SlotStates] /\ commandBuf' \in [Slots -> CommandRecords]
       /\ entryBuf' \in [Slots -> Seq(BatchEntries)] /\ completionBuf' \in [Slots -> Completions]
       /\ asked' \in [Ids -> {"none", "read", "write", "bad"}]
  BY <1>5, <1>6, <1>8, <1>9
<1>11. /\ slotState'[s] = r /\ commandBuf'[s] = c /\ entryBuf'[s] = e
       /\ completionBuf'[s] = PendingCompletion(i) /\ asked'[i] = k
  BY <1>6, <1>8, <1>9
<1>12. /\ \A t \in Slots : t # s => /\ slotState'[t] = slotState[t] /\ commandBuf'[t] = commandBuf[t]
                                    /\ entryBuf'[t] = entryBuf[t] /\ completionBuf'[t] = completionBuf[t]
       /\ \A j \in Ids : j # slotState[s].id => asked'[j] = asked[j] /\ answers'[j] = answers[j]
  BY <1>2, <1>6, <1>8, <1>9
<1>13. /\ slotState'[s].id = i /\ slotState'[s].inFlight /\ slotState'[s].expected = n
       /\ slotState'[s].status = status
  BY <1>8, <1>11
<1>14. status = "SUCCESS" => s \in LiveSlots'
  <2>1. answers'[i] = "none"
    BY <1>3, <1>6
  <2> QED  BY <2>1, <1>4, <1>11, <1>13, SubmissionLives
<1>15. /\ \A q \in Queues : QueueInv(q)'
       /\ Effects' = Effects
       /\ \A t \in Slots : t # s /\ slotState'[t].inFlight => Outcome(t)'
  <2>1. \/ sends' = sends
        \/ /\ PostCommand(s) /\ s \in LiveSlots' /\ slotState'[s].id = slotState[s].id
           /\ slotState[s].id \notin Effects
    BY <1>2, <1>3, <1>7, <1>13, <1>14
  <2>2. namespace' = namespace /\ dataBuf' = dataBuf
    BY <1>6
  <2> QED  BY <2>1, <2>2, <1>3, <1>6, <1>12, ClientTouches
<1>16. SlotInv'
  <2>1. slotState'[s].id = slotState[s].id /\ allocated' = allocated /\ nextId' = nextId
    BY <1>2, <1>6, <1>13
  <2> QED  BY <2>1, <1>0, <1>3, <1>12, SlotInvKept
<1>17. UnaskedInv'
  <2>1. k # "none" /\ answers' = answers
    BY <1>5, <1>6
  <2> QED  BY <2>1, <1>0, <1>6, <1>15, UnaskedInvKept
<1>18. OutcomeInv'
  <2>1. Outcome(s)'
    <3>1. completionBuf'[s] = PendingCompletion(slotState'[s].id)
      BY <1>11, <1>13
    <3>2. slotState'[s].id \notin Effects' /\ asked'[slotState'[s].id] # "none"
      BY <1>3, <1>5, <1>11, <1>13, <1>15
    <3> QED  BY <3>1, <3>2 DEF Outcome, PendingCompletion
  <2> QED  BY <2>1, <1>15 DEF OutcomeInv
<1>19. TypeOK'
  <2>1. sends' \in [Queues -> Seq(SendRecords)]
    BY <1>0, <1>2, <1>7, PostTypes
  <2> QED  BY <2>1, <1>0, <1>6, <1>10, StateFacts, StateFactsNext DEF serverVars
<1> QED  BY <1>15, <1>16, <1>17, <1>18, <1>19 DEF IInv

\* A submission of RA that is abandoned, its Send on its way or not.
LEMMA AbandonIInv ==
  ASSUME IInv, NEW s \in Slots, slotState[s].id # NoId, asked[slotState[s].id] = "none",
         NEW op \in Operations, NEW offset \in Offsets, RaStorageAbandons(s, op, offset),
         UNCHANGED serverVars
  PROVE  IInv'
<1>0. TypeOK /\ SlotInv /\ UnaskedInv
  BY DEF IInv
<1>2. PICK i \in Ids : i = slotState[s].id
  BY UnsubmittedSlot
<1>3. /\ slotState[s].id # NoId /\ s \notin LiveSlots /\ answers[i] = "none" /\ i \notin Effects
  BY <1>2, UnsubmittedSlot
<1>4. PICK c, e, k :
        /\ c = SerializeStorageCommand(op, i, Entries(op, offset), s)
        /\ e = (IF IsBatch(op) THEN Entries(op, offset) ELSE <<>>)
        /\ k = Kind(op, offset)
  OBVIOUS
<1>5. /\ c \in CommandRecords /\ PendingCompletion(i) \in Completions /\ e \in Seq(BatchEntries)
      /\ k \in {"read", "write", "bad"}
  BY <1>4, SubmissionTypes
<1>6. /\ entryBuf' = [entryBuf EXCEPT ![s] = e]
      /\ asked' = [asked EXCEPT ![i] = k]
      /\ slotState' = [slotState EXCEPT ![s] = [EmptyState EXCEPT !.id = i]]
      /\ UNCHANGED <<backend, allocated, nextSlot, nextId, answers, namespace, dataBuf>>
  BY <1>2, <1>4 DEF RaStorageAbandons, WriteEntries
<1>7. PICK written \in {{}, {"pending"}, {"pending", "command"}}, posted \in BOOLEAN :
        /\ posted => "command" \in written
        /\ completionBuf' = IF "pending" \in written
                            THEN [completionBuf EXCEPT ![s] = PendingCompletion(i)] ELSE completionBuf
        /\ commandBuf' = IF "command" \in written THEN [commandBuf EXCEPT ![s] = c] ELSE commandBuf
        /\ IF posted THEN PostCommand(s) ELSE UNCHANGED sends
  BY <1>2, <1>4 DEF RaStorageAbandons
<1>8. PICK r \in SlotStates : /\ slotState' = [slotState EXCEPT ![s] = r]
                              /\ r.id = i /\ ~r.inFlight /\ r.status = "SUCCESS"
  BY <1>6, EmptySlot
<1>9. /\ slotState \in [Slots -> SlotStates] /\ commandBuf \in [Slots -> CommandRecords]
      /\ entryBuf \in [Slots -> Seq(BatchEntries)] /\ completionBuf \in [Slots -> Completions]
      /\ asked \in [Ids -> {"none", "read", "write", "bad"}] /\ answers \in [Ids -> Answers]
  BY <1>0, StateFacts
<1>10. /\ slotState' \in [Slots -> SlotStates] /\ commandBuf' \in [Slots -> CommandRecords]
       /\ entryBuf' \in [Slots -> Seq(BatchEntries)] /\ completionBuf' \in [Slots -> Completions]
       /\ asked' \in [Ids -> {"none", "read", "write", "bad"}]
  <2>1. /\ [completionBuf EXCEPT ![s] = PendingCompletion(i)] \in [Slots -> Completions]
        /\ [commandBuf EXCEPT ![s] = c] \in [Slots -> CommandRecords]
    BY <1>5, <1>9
  <2>2. completionBuf' \in [Slots -> Completions] /\ commandBuf' \in [Slots -> CommandRecords]
    BY <2>1, <1>7, <1>9
  <2>3. /\ slotState' \in [Slots -> SlotStates] /\ entryBuf' \in [Slots -> Seq(BatchEntries)]
        /\ asked' \in [Ids -> {"none", "read", "write", "bad"}]
    <3>1. entryBuf' = [entryBuf EXCEPT ![s] = e] /\ asked' = [asked EXCEPT ![i] = k]
      BY <1>6
    <3> QED  BY <3>1, <1>5, <1>8, <1>9
  <2> QED  BY <2>2, <2>3
<1>11. slotState'[s] = r /\ entryBuf'[s] = e /\ asked'[i] = k
  BY <1>6, <1>8, <1>9
<1>12. /\ \A t \in Slots : t # s => /\ slotState'[t] = slotState[t] /\ commandBuf'[t] = commandBuf[t]
                                    /\ entryBuf'[t] = entryBuf[t] /\ completionBuf'[t] = completionBuf[t]
       /\ \A j \in Ids : j # slotState[s].id => asked'[j] = asked[j] /\ answers'[j] = answers[j]
  BY <1>2, <1>6, <1>7, <1>8, <1>9
<1>13. slotState'[s].id = i /\ ~slotState'[s].inFlight /\ slotState'[s].status = "SUCCESS"
  BY <1>8, <1>11
<1>14. posted => s \in LiveSlots'
  <2>1. SUFFICES ASSUME posted PROVE s \in LiveSlots'
    OBVIOUS
  <2>2. completionBuf'[s] = PendingCompletion(i) /\ commandBuf'[s] = c
    <3>1. "command" \in written /\ "pending" \in written
      BY <2>1, <1>7
    <3>2. /\ completionBuf' = [completionBuf EXCEPT ![s] = PendingCompletion(i)]
          /\ commandBuf' = [commandBuf EXCEPT ![s] = c]
      BY <3>1, <1>7
    <3> QED  BY <3>2, <1>9
  <2>3. answers'[i] = "none"
    BY <1>3, <1>6
  <2> QED  BY <2>2, <2>3, <1>4, <1>11, <1>13, SubmissionLives
<1>15. /\ \A q \in Queues : QueueInv(q)'
       /\ Effects' = Effects
       /\ \A t \in Slots : t # s /\ slotState'[t].inFlight => Outcome(t)'
  <2>1. \/ sends' = sends
        \/ /\ PostCommand(s) /\ s \in LiveSlots' /\ slotState'[s].id = slotState[s].id
           /\ slotState[s].id \notin Effects
    BY <1>2, <1>3, <1>7, <1>13, <1>14
  <2>2. namespace' = namespace /\ dataBuf' = dataBuf
    BY <1>6
  <2> QED  BY <2>1, <2>2, <1>3, <1>12, ClientTouches
<1>16. SlotInv'
  <2>1. slotState'[s].id = slotState[s].id /\ allocated' = allocated /\ nextId' = nextId
    BY <1>2, <1>6, <1>13
  <2> QED  BY <2>1, <1>0, <1>3, <1>12, SlotInvKept
<1>17. UnaskedInv'
  <2>1. k # "none" /\ answers' = answers
    BY <1>5, <1>6
  <2> QED  BY <2>1, <1>0, <1>6, <1>15, UnaskedInvKept
<1>18. OutcomeInv'
  BY <1>13, <1>15 DEF OutcomeInv
<1>19. TypeOK'
  <2>1. sends' \in [Queues -> Seq(SendRecords)]
    <3>1. PostCommand(s) \/ sends' = sends
      BY <1>7
    <3> QED  BY <3>1, <1>0, <1>2, PostTypes
  <2> QED  BY <2>1, <1>0, <1>6, <1>10, StateFacts, StateFactsNext DEF serverVars
<1> QED  BY <1>15, <1>16, <1>17, <1>18, <1>19 DEF IInv

\* What an answer tells: the completion record is there and has the outcome, or
\* the Send was refused.
LEMMA AnswerFacts ==
  ASSUME IInv, NEW s \in Slots, slotState[s].inFlight, WaitAnswer(s) # "QUEUE_FULL"
  PROVE  /\ s \notin LiveSlots /\ slotState[s].id \in Ids /\ asked[slotState[s].id] # "none"
         /\ WaitAnswer(s) \in Answers \ {"none"}
         /\ WaitAnswer(s) = "SUCCESS" => slotState[s].id \in Effects
         /\ WaitAnswer(s) # "SUCCESS" =>
              /\ slotState[s].id \notin Effects
              /\ asked[slotState[s].id] = "bad" \/ slotState[s].status # "SUCCESS"
<1>0. TypeOK /\ SlotInv /\ Outcome(s)
  BY DEF IInv, OutcomeInv
<1>1. slotState[s].id \in Ids /\ slotState[s].id # NoId
  BY <1>0, StateFacts DEF SlotStates, SlotInv
<1>2. slotState[s].status \in {"SUCCESS", "QUEUE_FULL", "PROVIDER_FAILED"}
  BY <1>0, StateFacts DEF SlotStates, SendStatuses
<1>3. ASSUME completionBuf[s] = PendingCompletion(slotState[s].id)
      PROVE  backend # "RA" /\ slotState[s].status # "SUCCESS"
  <2>1. PICK c : c = completionBuf[s] /\ CompletionValid(c) /\ c.state # "Complete"
    BY <1>1, <1>3 DEF PendingCompletion, CompletionValid
  <2>2. CompletionValid(completionBuf[s]) /\ completionBuf[s].state # "Complete"
    BY <2>1
  <2>3. CASE backend = "RA"
    BY <2>2, <2>3 DEF WaitAnswer, RaWaitAnswer
  <2>4. CASE backend # "RA" /\ slotState[s].status = "SUCCESS"
    BY <2>2, <2>4 DEF WaitAnswer, DeviceWaitAnswer
  <2> QED  BY <2>3, <2>4
<1>4. CASE slotState[s].status # "SUCCESS"
  <2>1. /\ completionBuf[s] = PendingCompletion(slotState[s].id) /\ slotState[s].id \notin Effects
        /\ asked[slotState[s].id] # "none"
    BY <1>0, <1>4 DEF Outcome
  <2>2. backend # "RA"
    BY <2>1, <1>3
  <2>3. WaitAnswer(s) = slotState[s].status
    BY <2>2, <1>4 DEF WaitAnswer, DeviceWaitAnswer
  <2>4. s \notin LiveSlots
    BY <1>4, LiveFacts
  <2> QED  BY <2>1, <2>3, <2>4, <1>1, <1>2, <1>4 DEF Answers
<1>5. CASE slotState[s].status = "SUCCESS"
  <2>1. Completed(s) /\ s \notin LiveSlots
    BY <1>0, <1>3, <1>5, LiveFacts DEF Outcome
  <2>2. /\ completionBuf[s].id = slotState[s].id /\ completionBuf[s].state = "Complete"
        /\ completionBuf[s].status = "Success" => completionBuf[s].bytes = slotState[s].expected
        /\ CompletionValid(completionBuf[s])
    BY <2>1, <1>1 DEF Completed, CompletionValid
  <2>3. /\ asked[slotState[s].id] # "none"
        /\ completionBuf[s].status = "Success" => slotState[s].id \in Effects
        /\ completionBuf[s].status # "Success" =>
             asked[slotState[s].id] = "bad" /\ slotState[s].id \notin Effects
    BY <2>1 DEF Completed
  <2>4. CASE backend = "RA"
    <3>1. WaitAnswer(s) = IF completionBuf[s].bytes # slotState[s].expected \/ completionBuf[s].status # "Success"
                          THEN "PROVIDER_FAILED" ELSE "SUCCESS"
      BY <2>2, <2>4 DEF WaitAnswer, RaWaitAnswer
    <3> QED  BY <3>1, <2>1, <2>2, <2>3, <1>1 DEF Answers
  <2>5. CASE backend # "RA"
    <3>1. WaitAnswer(s) = IF completionBuf[s].bytes # slotState[s].expected THEN "INVALID_ARGUMENT"
                          ELSE IF completionBuf[s].status = "Success" THEN "SUCCESS" ELSE "PROVIDER_FAILED"
      BY <2>2, <2>5, <1>5 DEF WaitAnswer, DeviceWaitAnswer
    <3> QED  BY <3>1, <2>1, <2>2, <2>3, <1>1 DEF Answers
  <2> QED  BY <2>4, <2>5
<1> QED  BY <1>4, <1>5

\* The application is answered.
LEMMA WaitIInv ==
  ASSUME IInv, NEW s \in Slots, Wait(s) PROVE IInv'
<1>0. TypeOK /\ SlotInv /\ UnaskedInv /\ OutcomeInv
  BY DEF IInv
<1>1. PICK a : a = WaitAnswer(s)
  OBVIOUS
<1>2. /\ slotState[s].inFlight /\ a # "QUEUE_FULL" /\ answers[slotState[s].id] = "none"
      /\ answers' = [answers EXCEPT ![slotState[s].id] = a]
      /\ UNCHANGED <<backend, allocated, nextSlot, nextId, slotState, asked>> /\ UNCHANGED wireVars
      /\ UNCHANGED serverVars
  BY <1>1 DEF Wait, StorageWait
<1>3. s \notin LiveSlots /\ slotState[s].id \in Ids /\ asked[slotState[s].id] # "none" /\ a \in Answers
  BY <1>1, <1>2, AnswerFacts
<1>4. PICK i \in Ids : i = slotState[s].id
  BY <1>3
<1>5. /\ commandBuf' = commandBuf /\ entryBuf' = entryBuf /\ completionBuf' = completionBuf
      /\ sends' = sends /\ namespace' = namespace /\ dataBuf' = dataBuf
      /\ asked' = asked /\ slotState' = slotState /\ backend' = backend /\ allocated' = allocated
      /\ nextSlot' = nextSlot /\ nextId' = nextId
  BY <1>2 DEF wireVars
<1>6. answers' \in [Ids -> Answers] /\ \A j \in Ids : j # slotState[s].id => answers'[j] = answers[j]
  BY <1>0, <1>2, <1>3, StateFacts
<1>7. /\ \A q \in Queues : QueueInv(q)'
      /\ Effects' = Effects
      /\ \A t \in Slots : t # s /\ slotState'[t].inFlight => Outcome(t)'
  BY <1>2, <1>3, <1>5, <1>6, ClientTouches
<1>8. Outcome(s)'
  <2>1. Outcome(s)
    BY <1>0, <1>2 DEF OutcomeInv
  <2> QED  BY <2>1, <1>5, <1>7 DEF Outcome, Completed, PendingCompletion
<1>9. OutcomeInv'
  BY <1>7, <1>8 DEF OutcomeInv
<1>10. UnaskedInv'
  <2>1. asked[i] # "none"
    BY <1>3, <1>4
  <2> QED  BY <2>1, <1>0, <1>4, <1>5, <1>6, <1>7 DEF UnaskedInv
<1>11. SlotInv'
  BY <1>0, <1>5 DEF SlotInv
<1>12. TypeOK'
  BY <1>0, <1>2, <1>5, <1>6, StateFacts, StateFactsNext DEF serverVars
<1> QED  BY <1>7, <1>9, <1>10, <1>11, <1>12 DEF IInv

\* The application gives the slot back.
LEMMA ReleaseIInv ==
  ASSUME IInv, NEW s \in Slots, Release(s) PROVE IInv'
<1>0. TypeOK /\ SlotInv /\ UnaskedInv /\ OutcomeInv
  BY DEF IInv
<1>1. /\ answers[slotState[s].id] # "none" /\ slotState[s].id # NoId
      /\ allocated' = [allocated EXCEPT ![s] = FALSE]
      /\ slotState' = [slotState EXCEPT ![s] = EmptyState]
      /\ UNCHANGED <<backend, nextSlot, nextId, asked, answers>> /\ UNCHANGED wireVars
      /\ UNCHANGED serverVars
  BY DEF Release, ReleaseSlot
<1>2. s \notin LiveSlots
  BY <1>1, LiveFacts
<1>3. PICK e \in SlotStates : e = EmptyState /\ e.id = NoId /\ ~e.inFlight
  <2>1. 1 \in Ids
    BY WireAssumption DEF Ids
  <2> QED  BY <2>1, EmptySlot
<1>4. /\ slotState' \in [Slots -> SlotStates] /\ slotState'[s] = e
      /\ \A t \in Slots : t # s => slotState'[t] = slotState[t]
  BY <1>0, <1>1, <1>3, StateFacts
<1>5. /\ commandBuf' = commandBuf /\ entryBuf' = entryBuf /\ completionBuf' = completionBuf
      /\ sends' = sends /\ namespace' = namespace /\ dataBuf' = dataBuf
      /\ asked' = asked /\ answers' = answers /\ backend' = backend
      /\ nextSlot' = nextSlot /\ nextId' = nextId
  BY <1>1 DEF wireVars
<1>6. /\ \A q \in Queues : QueueInv(q)'
      /\ Effects' = Effects
      /\ \A t \in Slots : t # s /\ slotState'[t].inFlight => Outcome(t)'
  BY <1>1, <1>2, <1>4, <1>5, ClientTouches
<1>7. allocated' \in [Slots -> BOOLEAN] /\ \A t \in Slots : t # s => allocated'[t] = allocated[t]
  BY <1>0, <1>1, StateFacts
<1>8. slotState'[s].id = NoId /\ ~slotState'[s].inFlight
  BY <1>3, <1>4
<1>9. SlotInv'
  <2>1. NoId < nextId
    BY <1>0, StateFacts DEF NoId
  <2>2. \A t \in Slots : slotState'[t].id < nextId'
    BY <2>1, <1>0, <1>4, <1>5, <1>8 DEF SlotInv
  <2> QED  BY <2>2, <1>0, <1>4, <1>7, <1>8 DEF SlotInv
<1>10. UnaskedInv' /\ OutcomeInv'
  BY <1>0, <1>5, <1>6, <1>8 DEF UnaskedInv, OutcomeInv
<1>11. TypeOK'
  BY <1>0, <1>1, <1>4, <1>5, <1>7, StateFacts, StateFactsNext DEF serverVars
<1> QED  BY <1>6, <1>9, <1>10, <1>11 DEF IInv

-----------------------------------------------------------------------------
(* Steps of the server. *)

\* The server leaves the client's variables and the buffers it reads alone.
ServerStep == UNCHANGED clientVars /\ commandBuf' = commandBuf /\ entryBuf' = entryBuf

\* A queue that the step of another queue's worker leaves alone.
LEMMA OtherQueue ==
  ASSUME IInv, ServerStep, NEW q \in Queues, NEW r \in Queues, r # q,
         \A t \in LiveSlots : QueueOf(t) # q =>
           /\ completionBuf'[t] = completionBuf[t]
           /\ (slotState[t].id \in Effects') <=> (slotState[t].id \in Effects),
         sends'[r] = sends[r], worker'[r] = worker[r], receives'[r] = receives[r],
         recvBuf'[r] = recvBuf[r], arrived'[r] = arrived[r], requests'[r] = requests[r]
  PROVE  QueueInv(r)'
<1>1. TypeOK /\ QueueInv(r)
  BY DEF IInv
<1>2. slotState' = slotState /\ asked' = asked /\ answers' = answers /\ commandBuf' = commandBuf
      /\ entryBuf' = entryBuf
  BY DEF ServerStep, clientVars
<1>3. ASSUME NEW t \in LiveSlots, QueueOf(t) = r
      PROVE  /\ t \in LiveSlots' /\ slotState'[t] = slotState[t] /\ commandBuf'[t] = commandBuf[t]
             /\ entryBuf'[t] = entryBuf[t] /\ asked'[slotState[t].id] = asked[slotState[t].id]
             /\ (slotState[t].id \in Effects') <=> (slotState[t].id \in Effects)
  <2>1. /\ completionBuf'[t] = completionBuf[t]
        /\ (slotState[t].id \in Effects') <=> (slotState[t].id \in Effects)
    BY <1>3
  <2>2. t \in LiveSlots'
    BY <2>1, <1>2, LiveKept
  <2> QED  BY <2>1, <2>2, <1>2
<1>4. Undisturbed(r)
  BY <1>3 DEF Undisturbed
<1> QED  BY <1>1, <1>4, QueueKept

\* Nothing changes in client memory and in the namespace.
LEMMA MemoryKept ==
  ASSUME IInv, ServerStep, completionBuf' = completionBuf, namespace' = namespace, dataBuf' = dataBuf
  PROVE  /\ LiveSlots' = LiveSlots /\ Effects' = Effects
         /\ SlotInv' /\ UnaskedInv' /\ OutcomeInv'
<1>0. TypeOK /\ SlotInv /\ UnaskedInv /\ OutcomeInv
  BY DEF IInv
<1>1. /\ slotState' = slotState /\ asked' = asked /\ answers' = answers /\ commandBuf' = commandBuf
      /\ entryBuf' = entryBuf /\ allocated' = allocated /\ nextId' = nextId
  BY DEF ServerStep, clientVars
<1>2. Effects' = Effects
  BY EffectsKept
<1>3. \A s, op, offset : Submitted(s, op, offset)' <=> Submitted(s, op, offset)
  BY <1>1 DEF Submitted
<1>4. LiveSlots' = LiveSlots
  BY <1>1, <1>3 DEF LiveSlots, PendingCompletion
<1>5. \A s \in Slots : Outcome(s) => Outcome(s)'
  BY <1>1, <1>2 DEF Outcome, Completed, PendingCompletion
<1> QED  BY <1>0, <1>1, <1>2, <1>4, <1>5 DEF SlotInv, UnaskedInv, OutcomeInv

\* A step of the worker of a queue, which the client's memory does not see.
LEMMA OwnQueue ==
  ASSUME IInv, ServerStep, completionBuf' = completionBuf, namespace' = namespace, dataBuf' = dataBuf,
         NEW q \in Queues, TypeOK', QueueInv(q)',
         \A r \in Queues \ {q} :
           /\ sends'[r] = sends[r] /\ worker'[r] = worker[r] /\ receives'[r] = receives[r]
           /\ recvBuf'[r] = recvBuf[r] /\ arrived'[r] = arrived[r] /\ requests'[r] = requests[r]
  PROVE  IInv'
<1>1. LiveSlots' = LiveSlots /\ Effects' = Effects /\ SlotInv' /\ UnaskedInv' /\ OutcomeInv'
  BY MemoryKept
<1>2. ASSUME NEW r \in Queues, r # q PROVE QueueInv(r)'
  <2>1. /\ sends'[r] = sends[r] /\ worker'[r] = worker[r] /\ receives'[r] = receives[r]
        /\ recvBuf'[r] = recvBuf[r] /\ arrived'[r] = arrived[r] /\ requests'[r] = requests[r]
    BY <1>2
  <2> QED  BY <2>1, <1>1, <1>2, OtherQueue
<1> QED  BY <1>1, <1>2 DEF IInv

\* A worker that goes to another phase.
LEMMA PhaseEdit ==
  ASSUME TypeOK, NEW q \in Queues, NEW x \in Phases, worker' = [worker EXCEPT ![q].phase = x]
  PROVE  /\ worker' \in [Queues -> WorkerStates]
         /\ worker'[q].phase = x /\ worker'[q].served = worker[q].served
         /\ worker'[q].pending = worker[q].pending
         /\ \A r \in Queues \ {q} : worker'[r] = worker[r]
<1>1. worker \in [Queues -> WorkerStates]
  BY StateFacts
<1>2. PICK w \in [phase : Phases, served : Nat, pending : Seq(PendingCommands)] : w = worker[q]
  BY <1>1 DEF WorkerStates
<1>3. PICK v : v = [w EXCEPT !.phase = x]
  OBVIOUS
<1>4. worker' = [worker EXCEPT ![q] = v]
  BY <1>2, <1>3
<1>5. v \in WorkerStates
  BY <1>3 DEF WorkerStates
<1>6. v.phase = x /\ v.served = w.served /\ v.pending = w.pending
  BY <1>3
<1>7. worker' \in [Queues -> WorkerStates] /\ worker'[q] = v /\ \A r \in Queues \ {q} : worker'[r] = worker[r]
  BY <1>1, <1>4, <1>5
<1> QED  BY <1>2, <1>6, <1>7

\* A worker that edits its pending list.
LEMMA PendingEdit ==
  ASSUME TypeOK, NEW q \in Queues, NEW s \in Seq(PendingCommands),
         worker' = [worker EXCEPT ![q].pending = s]
  PROVE  /\ worker' \in [Queues -> WorkerStates]
         /\ worker'[q].phase = worker[q].phase /\ worker'[q].served = worker[q].served
         /\ worker'[q].pending = s
         /\ \A r \in Queues \ {q} : worker'[r] = worker[r]
<1>1. worker \in [Queues -> WorkerStates]
  BY StateFacts
<1>2. PICK w \in [phase : Phases, served : Nat, pending : Seq(PendingCommands)] : w = worker[q]
  BY <1>1 DEF WorkerStates
<1>3. PICK v : v = [w EXCEPT !.pending = s]
  OBVIOUS
<1>4. worker' = [worker EXCEPT ![q] = v]
  BY <1>2, <1>3
<1>5. v \in WorkerStates
  BY <1>3 DEF WorkerStates
<1>6. v.phase = w.phase /\ v.served = w.served /\ v.pending = s
  BY <1>3
<1>7. worker' \in [Queues -> WorkerStates] /\ worker'[q] = v /\ \A r \in Queues \ {q} : worker'[r] = worker[r]
  BY <1>1, <1>4, <1>5
<1> QED  BY <1>2, <1>6, <1>7

\* The state of a worker.
LEMMA WorkerFacts ==
  ASSUME IInv, NEW q \in Queues
  PROVE  /\ worker[q].phase \in Phases /\ worker[q].served \in Nat /\ worker[q].served <= Share(q)
         /\ worker[q].pending \in Seq(PendingCommands) /\ Received(q) \in Nat
         /\ arrived[q] \in Nat /\ receives[q] \in Seq(Buffers) /\ requests[q] \subseteq Requests
         /\ sends[q] \in Seq(SendRecords)
         /\ ReceiveInv(q) /\ SendInv(q) /\ FilledInv(q) /\ OwnedInv(q) /\ ProgressInv(q) /\ RequestInv(q)
         /\ SlotsPerQp \in Nat
<1>1. TypeOK /\ QueueInv(q)
  BY DEF IInv
<1>2. worker[q] \in WorkerStates
  BY <1>1, StateFacts
<1>3. worker[q].phase \in Phases /\ worker[q].served \in Nat /\ worker[q].pending \in Seq(PendingCommands)
  BY <1>2 DEF WorkerStates
<1>4. Received(q) \in Nat
  BY <1>3 DEF Received
<1>5. /\ arrived[q] \in Nat /\ receives[q] \in Seq(Buffers) /\ requests[q] \subseteq Requests
      /\ sends[q] \in Seq(SendRecords)
  BY <1>1, StateFacts
<1>6. worker[q].served <= Share(q)
  BY <1>1 DEF QueueInv, ReceiveInv
<1>7. SlotsPerQp \in Nat
  BY WireAssumption
<1> QED  BY <1>1, <1>3, <1>4, <1>5, <1>6, <1>7 DEF QueueInv

\* A worker that stops serving: what it has posted may still finish.
LEMMA WorkerStops ==
  ASSUME IInv, ServerStep, UNCHANGED wireVars, NEW q \in Queues, NEW x \in {"failed", "skipped"},
         worker' = [worker EXCEPT ![q].phase = x], x = "skipped" => requests[q] = {},
         receives' = receives, recvBuf' = recvBuf, requests' = requests,
         arrived' \in [Queues -> Nat], \A r \in Queues \ {q} : arrived'[r] = arrived[r],
         firstError' \in {"none", "kProtocol", "kVerbs"}
  PROVE  IInv'
<1>0. TypeOK
  BY DEF IInv
<1>1. /\ completionBuf' = completionBuf /\ namespace' = namespace /\ dataBuf' = dataBuf /\ sends' = sends
      /\ commandBuf' = commandBuf /\ entryBuf' = entryBuf
  BY DEF wireVars
<1>2. /\ worker' \in [Queues -> WorkerStates]
      /\ worker'[q].phase = x /\ worker'[q].served = worker[q].served
      /\ worker'[q].pending = worker[q].pending
      /\ \A r \in Queues \ {q} : worker'[r] = worker[r]
  <2>1. x \in Phases
    BY DEF Phases
  <2> QED  BY <2>1, <1>0, PhaseEdit
<1>3. /\ ReceiveInv(q) /\ SendInv(q) /\ FilledInv(q) /\ OwnedInv(q) /\ ProgressInv(q) /\ RequestInv(q)
  BY WorkerFacts
<1>4. LiveSlots' = LiveSlots /\ Effects' = Effects
  BY <1>1, MemoryKept
<1>5. Received(q)' = Received(q)
  BY <1>2 DEF Received
<1>6. Filled(q)' = {}
  BY <1>2 DEF Filled
<1>7. Owned(q)' \subseteq Owned(q)
  BY <1>2, <1>5 DEF Owned
<1>8. ReceiveInv(q)'
  BY <1>2, <1>3 DEF ReceiveInv
<1>9. SendInv(q)'
  <2>1. slotState' = slotState
    BY DEF ServerStep, clientVars
  <2> QED  BY <2>1, <1>1, <1>3, <1>4 DEF SendInv, QueueOf
<1>10. FilledInv(q)'
  BY <1>6 DEF FilledInv
<1>11. OwnedInv(q)'
  BY <1>1, <1>2, <1>3, <1>4, <1>6, <1>7 DEF OwnedInv, LiveRecord, QueueOf, WorkerSlot
<1>12. ProgressInv(q)'
  <2>1. slotState' = slotState /\ asked' = asked /\ entryBuf' = entryBuf
    BY <1>1 DEF ServerStep, clientVars
  <2>2. ASSUME NEW i PROVE Progress(q, i)' <=> Progress(q, i)
    BY <2>1, <1>2, <1>4 DEF Progress
  <2> QED  BY <2>2, <1>3, <1>7 DEF ProgressInv
<1>13. RequestInv(q)'
  BY <1>2, <1>3, <1>5 DEF RequestInv
<1>14. QueueInv(q)'
  BY <1>8, <1>9, <1>10, <1>11, <1>12, <1>13 DEF QueueInv
<1>15. TypeOK'
  BY <1>0, <1>1, <1>2, StateFacts, StateFactsNext DEF ServerStep, clientVars
<1> QED  BY <1>1, <1>2, <1>14, <1>15, OwnQueue

\* A timeout, a refused post, a failed request.
LEMMA WorkerFailsIInv ==
  ASSUME IInv, NEW q \in Queues, WorkerFails(q), UNCHANGED clientVars PROVE IInv'
<1>1. /\ worker' = [worker EXCEPT ![q].phase = "failed"]
      /\ receives' = receives /\ recvBuf' = recvBuf /\ arrived' = arrived /\ requests' = requests
      /\ UNCHANGED wireVars
  BY DEF WorkerFails, Fail
<1>2. firstError' \in {"none", "kProtocol", "kVerbs"} /\ arrived \in [Queues -> Nat]
  BY StateFacts DEF WorkerFails, Fail, IInv
<1>3. ServerStep
  BY <1>1 DEF ServerStep, wireVars
<1> QED  BY <1>1, <1>2, <1>3, WorkerStops

\* The receives of buffers in order.
LEMMA InOrder ==
  ASSUME NEW n \in Nat, n <= SlotsPerQp
  PROVE  /\ [b \in 1 .. n |-> b] \in Seq(Buffers) /\ Len([b \in 1 .. n |-> b]) = n
         /\ \A k \in 1 .. n : [b \in 1 .. n |-> b][k] = k
<1>1. \A b \in 1 .. n : b \in Buffers
  BY WireAssumption DEF Buffers
<1> QED  BY <1>1

\* A thread starts.
LEMMA StartIInv ==
  ASSUME IInv, NEW q \in Queues, StartWorker(q), UNCHANGED clientVars PROVE IInv'
<1>0. TypeOK
  BY DEF IInv
<1>1. /\ worker[q].phase = "start" /\ recvBuf' = recvBuf /\ arrived' = arrived /\ requests' = requests
      /\ firstError' = firstError /\ UNCHANGED wireVars
  BY DEF StartWorker
<1>2. ServerStep
  BY <1>1 DEF ServerStep, wireVars
<1>3. /\ ReceiveInv(q) /\ SendInv(q) /\ RequestInv(q) /\ worker[q].served \in Nat /\ worker[q].served <= Share(q)
  BY WorkerFacts
<1>4. receives[q] = <<>> /\ arrived[q] = 0 /\ worker[q].pending = <<>> /\ requests[q] = {}
  BY <1>1, <1>3 DEF ReceiveInv, RequestInv
<1>5. CASE firstError # "none"
  <2>1. worker' = [worker EXCEPT ![q].phase = "skipped"] /\ receives' = receives
    BY <1>5 DEF StartWorker
  <2>2. arrived' \in [Queues -> Nat] /\ firstError' \in {"none", "kProtocol", "kVerbs"}
    BY <1>0, <1>1, StateFacts
  <2> QED  BY <2>1, <2>2, <1>1, <1>2, <1>4, WorkerStops
<1>6. CASE firstError = "none"
  <2>1. PICK f : f = [b \in 1 .. ActiveSlots(q) |-> b]
    OBVIOUS
  <2>2. /\ worker' = [worker EXCEPT ![q].phase = "serve"]
        /\ receives' = [receives EXCEPT ![q] = f]
    BY <2>1, <1>6 DEF StartWorker
  <2>3. /\ worker' \in [Queues -> WorkerStates]
        /\ worker'[q].phase = "serve" /\ worker'[q].served = worker[q].served
        /\ worker'[q].pending = worker[q].pending
        /\ \A r \in Queues \ {q} : worker'[r] = worker[r]
    <3>1. "serve" \in Phases
      BY DEF Phases
    <3> QED  BY <3>1, <2>2, <1>0, PhaseEdit
  <2>4. ActiveSlots(q) \in Nat /\ ActiveSlots(q) <= SlotsPerQp /\ Window(q) \in Nat
    BY <1>0, <1>3, WindowFacts
  <2>5. /\ f \in Seq(Buffers) /\ Len(f) = ActiveSlots(q) /\ \A k \in 1 .. ActiveSlots(q) : f[k] = k
    BY <2>1, <2>4, InOrder
  <2>6. /\ receives' \in [Queues -> Seq(Buffers)] /\ receives'[q] = f
        /\ \A r \in Queues \ {q} : receives'[r] = receives[r]
    BY <2>2, <2>5, <1>0, StateFacts
  <2>7. /\ completionBuf' = completionBuf /\ namespace' = namespace /\ dataBuf' = dataBuf /\ sends' = sends
        /\ commandBuf' = commandBuf /\ entryBuf' = entryBuf
    BY <1>1 DEF wireVars
  <2>8. LiveSlots' = LiveSlots /\ Effects' = Effects
    BY <2>7, <1>2, MemoryKept
  <2>9. Received(q)' = 0 /\ Received(q) = 0 /\ Window(q)' = Window(q)
    BY <2>3, <1>4 DEF Received, Window
  <2>10. Filled(q)' = {} /\ Owned(q)' = {}
    BY <2>9, <1>1, <1>4 DEF Filled, Owned, Buffers
  <2>11. ReceiveInv(q)'
    <3>1. /\ Received(q)' <= Window(q)' /\ Len(receives'[q]) + Received(q)' + arrived'[q] = ActiveSlots(q)
          /\ \A k \in 1 .. Len(receives'[q]) : receives'[q][k] = Received(q)' + arrived'[q] + k
      BY <2>4, <2>5, <2>6, <2>9, <1>1, <1>4
    <3> QED  BY <3>1, <2>3, <1>3 DEF ReceiveInv, ActiveSlots, Share
  <2>12. SendInv(q)'
    <3>1. slotState' = slotState
      BY <1>2 DEF ServerStep, clientVars
    <3> QED  BY <3>1, <2>7, <2>8, <1>3 DEF SendInv, QueueOf
  <2>13. RequestInv(q)'
    BY <1>1, <1>4, <2>3 DEF RequestInv
  <2>14. QueueInv(q)'
    BY <2>10, <2>11, <2>12, <2>13 DEF QueueInv, FilledInv, OwnedInv, ProgressInv
  <2>15. TypeOK'
    BY <2>3, <2>6, <2>7, <1>0, <1>1, <1>2, StateFacts, StateFactsNext DEF ServerStep, clientVars
  <2> QED  BY <2>3, <2>6, <2>7, <2>14, <2>15, <1>1, <1>2, OwnQueue
<1> QED  BY <1>5, <1>6

\* The record of a live slot.
LEMMA LiveRecordFacts ==
  ASSUME NEW q, NEW c, LiveRecord(q, c)
  PROVE  /\ c \in CommandRecords /\ c.slot \in LiveSlots /\ c.slot \in Slots /\ c.id \in Ids
         /\ c.id = slotState[c.slot].id /\ answers[c.id] = "none" /\ asked[c.id] # "none"
         /\ c = commandBuf[c.slot] /\ completionBuf[c.slot] = PendingCompletion(c.id)
         /\ slotState[c.slot].status = "SUCCESS"
<1>1. c.slot \in LiveSlots /\ c = commandBuf[c.slot]
  BY DEF LiveRecord
<1>2. PICK s \in LiveSlots : s = c.slot
  BY <1>1
<1>3. /\ s \in Slots /\ slotState[s].id \in Ids /\ answers[slotState[s].id] = "none"
      /\ commandBuf[s] \in CommandRecords /\ commandBuf[s].id = slotState[s].id
      /\ asked[slotState[s].id] \in {"read", "write", "bad"}
      /\ completionBuf[s] = PendingCompletion(slotState[s].id) /\ slotState[s].status = "SUCCESS"
  BY LiveFacts, SMTT(30)
<1> QED  BY <1>1, <1>2, <1>3

\* What the worker finds out about a plain command of a live slot.
LEMMA PlainJudged ==
  ASSUME NEW q, NEW c, LiveRecord(q, c), ~IsBatch(c.op)
  PROVE  /\ RangeStatus(c) \in Statuses /\ c.length = 1
         /\ RangeStatus(c) = "Success" =>
              /\ asked[c.id] = IF IsRead(c.op) THEN "read" ELSE "write"
              /\ slotState[c.slot].inFlight => c.length = slotState[c.slot].expected
         /\ RangeStatus(c) # "Success" => asked[c.id] = "bad"
<1>1. PICK s \in LiveSlots : s = c.slot /\ c = commandBuf[s]
  BY DEF LiveRecord
<1>2. PICK op \in Operations, offset \in Offsets : Submitted(s, op, offset) /\ commandBuf[s].op = op
  BY LiveFacts
<1>3. /\ commandBuf[s] = SerializeStorageCommand(op, slotState[s].id, Entries(op, offset), s)
      /\ asked[slotState[s].id] = Kind(op, offset)
      /\ slotState[s].inFlight => slotState[s].expected = TotalLength(Entries(op, offset))
  BY <1>2 DEF Submitted
<1>4. s \in Slots /\ slotState[s].id \in Ids
  BY LiveFacts
<1>5. ~IsBatch(op) /\ c.op = op
  BY <1>1, <1>2, SMTT(30)
<1>6. c.id = slotState[s].id /\ c.offset = offset /\ c.length = 1
  BY <1>1, <1>3, <1>4, <1>5, RecordFacts
<1>7. RangeStatus(c) \in Statuses /\ (RangeStatus(c) = "Success" <=> Kind(op, offset) # "bad")
  BY <1>5, <1>6, RangeJudged
<1>8. TotalLength(Entries(op, offset)) = 1
  BY <1>5, EntriesFacts
<1>9. Kind(op, offset) # "bad" => Kind(op, offset) = IF IsRead(op) THEN "read" ELSE "write"
  BY GoodKind
<1> QED  BY <1>1, <1>3, <1>5, <1>6, <1>7, <1>8, <1>9

\* What it finds out about a batch whose entries it has fetched.
LEMMA FetchedJudged ==
  ASSUME NEW q, NEW c, LiveRecord(q, c), IsBatch(c.op), NEW e, e = entryBuf[c.slot]
  PROVE  /\ BatchStatus(c, e) \in Statuses /\ TotalLength(e) \in Nat
         /\ e \in Seq(BatchEntries) /\ SubSeq(e, 1, c.offset) = e
         /\ BatchStatus(c, e) = "Success" =>
              /\ asked[c.id] = IF IsRead(c.op) THEN "read" ELSE "write"
              /\ slotState[c.slot].inFlight => TotalLength(e) = slotState[c.slot].expected
         /\ BatchStatus(c, e) # "Success" => asked[c.id] = "bad"
<1>1. PICK s \in LiveSlots : s = c.slot /\ c = commandBuf[s]
  BY DEF LiveRecord
<1>2. PICK op \in Operations, offset \in Offsets : Submitted(s, op, offset) /\ commandBuf[s].op = op
  BY LiveFacts
<1>3. IsBatch(op) /\ c.op = op
  BY <1>1, <1>2
<1>4. /\ commandBuf[s] = SerializeStorageCommand(op, slotState[s].id, Entries(op, offset), s)
      /\ entryBuf[s] = Entries(op, offset)
      /\ asked[slotState[s].id] = Kind(op, offset)
      /\ slotState[s].inFlight => slotState[s].expected = TotalLength(Entries(op, offset))
  BY <1>2, <1>3 DEF Submitted
<1>5. s \in Slots /\ slotState[s].id \in Ids
  BY LiveFacts, SMTT(30)
<1>6. c.id = slotState[s].id /\ c.offset = 2 /\ c.length = TotalLength(Entries(op, offset))
  BY <1>1, <1>3, <1>4, <1>5, RecordFacts, SMTT(30)
<1>7. e = Entries(op, offset)
  BY <1>1, <1>4
<1>8. BatchStatus(c, e) \in Statuses /\ (BatchStatus(c, e) = "Success" <=> Kind(op, offset) # "bad")
  BY <1>3, <1>6, <1>7, BatchJudged
<1>9. e \in Seq(BatchEntries) /\ Len(e) = 2 /\ TotalLength(e) = 2
  BY <1>3, <1>7, EntriesFacts
<1>10. SubSeq(e, 1, 2) = e
  BY <1>9
<1>11. Kind(op, offset) # "bad" => Kind(op, offset) = IF IsRead(op) THEN "read" ELSE "write"
  BY GoodKind, SMTT(30)
<1>12. /\ asked[c.id] = Kind(op, offset)
       /\ slotState[c.slot].inFlight => slotState[c.slot].expected = TotalLength(e)
  BY <1>1, <1>4, <1>6, <1>7
<1>13. SubSeq(e, 1, c.offset) = e
  BY <1>6, <1>10
<1>14. BatchStatus(c, e) = "Success" => asked[c.id] = IF IsRead(c.op) THEN "read" ELSE "write"
  BY <1>3, <1>8, <1>11, <1>12
<1>15. TotalLength(e) \in Nat
  BY <1>9
<1> QED  BY <1>8, <1>9, <1>12, <1>13, <1>14, <1>15

\* The PendingCommand of a record.
LEMMA AcceptedFacts ==
  ASSUME NEW c \in CommandRecords, IsBatch(c.op) \/ RangeStatus(c) \in Statuses,
         NEW p, p = Accepted(c)
  PROVE  /\ p \in PendingCommands /\ p.command = c /\ p.descriptor = IsBatch(c.op)
         /\ ~IsBatch(c.op) => p.status = RangeStatus(c)
         /\ ~IsBatch(c.op) /\ RangeStatus(c) = "Success" => p.bytes = c.length
<1>1. PICK st, n, d : /\ st = (IF IsBatch(c.op) THEN "Success" ELSE RangeStatus(c))
                      /\ n = (IF ~IsBatch(c.op) /\ st = "Success" THEN c.length ELSE 0)
                      /\ d = IsBatch(c.op)
  OBVIOUS
<1>2. c.length \in Nat /\ d \in BOOLEAN /\ st \in Statuses /\ n \in Nat
  <2>1. c.length \in Nat
    BY DEF CommandRecords
  <2> QED  BY <2>1, <1>1 DEF IsBatch, Statuses
<1>3. p = [command |-> c, status |-> st, descriptor |-> d, entries |-> <<>>, bytes |-> n]
  BY <1>1, Zenon DEF Accepted
<1>4. /\ p.command = c /\ p.status = st /\ p.descriptor = d /\ p.bytes = n
  BY <1>3
<1>5. p \in PendingCommands
  <2>1. <<>> \in Seq(BatchEntries)
    OBVIOUS
  <2> QED  BY <1>2, <1>3, <2>1 DEF PendingCommands
<1> QED  BY <1>1, <1>4, <1>5

\* A worker takes the next command of its window.
LEMMA ReceiveIInv ==
  ASSUME IInv, NEW q \in Queues, ReceiveCommand(q), UNCHANGED clientVars PROVE IInv'
<1>0. TypeOK
  BY DEF IInv
<1>1. PICK n, b, c : n = Received(q) /\ b = n + 1 /\ c = recvBuf[q][b]
  OBVIOUS
<1>2. /\ worker[q].phase = "serve" /\ n < Window(q) /\ arrived[q] > 0
      /\ arrived' = [arrived EXCEPT ![q] = @ - 1]
      /\ receives' = receives /\ recvBuf' = recvBuf /\ UNCHANGED wireVars
  BY <1>1 DEF ReceiveCommand, CanReceive
<1>3. ServerStep
  BY <1>2 DEF ServerStep, wireVars
<1>4. /\ n \in Nat /\ arrived[q] \in Nat /\ worker[q].pending \in Seq(PendingCommands)
      /\ receives[q] \in Seq(Buffers) /\ requests[q] \subseteq Requests
      /\ worker[q].served \in Nat /\ worker[q].served <= Share(q) /\ SlotsPerQp \in Nat
  BY <1>1, WorkerFacts
<1>5. /\ ReceiveInv(q) /\ SendInv(q) /\ FilledInv(q) /\ OwnedInv(q) /\ ProgressInv(q) /\ RequestInv(q)
  BY WorkerFacts
<1>6. /\ arrived' \in [Queues -> Nat] /\ arrived'[q] = arrived[q] - 1
      /\ \A r \in Queues \ {q} : arrived'[r] = arrived[r]
  <2>1. arrived \in [Queues -> Nat] /\ arrived[q] - 1 \in Nat
    BY <1>0, <1>2, <1>4, StateFacts, SMTT(30)
  <2> QED  BY <2>1, <1>2
<1>7. Window(q) \in Nat /\ Window(q) <= ActiveSlots(q) /\ ActiveSlots(q) <= SlotsPerQp /\ ActiveSlots(q) \in Nat
  BY <1>0, <1>4, WindowFacts
<1>8. b \in Filled(q) /\ b \in Buffers
  <2>1. b \in 1 .. SlotsPerQp /\ b > n /\ b <= n + arrived[q]
    BY <1>1, <1>2, <1>4, <1>7, SMTT(30)
  <2> QED  BY <2>1, <1>1, <1>2 DEF Filled, Buffers
<1>9. /\ LiveRecord(q, c) /\ c.id \notin Effects
      /\ \A d \in Filled(q) : recvBuf[q][d].slot = c.slot => d = b
      /\ \A k \in 1 .. Len(sends[q]) : sends[q][k].slot # c.slot
  BY <1>1, <1>5, <1>8 DEF FilledInv
<1>10. CASE ~CommandValid(c) \/ c.slot # WorkerSlot(q, b)
  <2>1. /\ worker' = [worker EXCEPT ![q].phase = "failed"] /\ requests' = requests
        /\ firstError' = IF firstError = "none" THEN "kProtocol" ELSE firstError
    BY <1>1, <1>10 DEF ReceiveCommand, Fail
  <2>2. firstError' \in {"none", "kProtocol", "kVerbs"}
    BY <2>1, <1>0, StateFacts
  <2> QED  BY <2>1, <2>2, <1>2, <1>3, <1>6, WorkerStops
<1>11. CASE CommandValid(c) /\ c.slot = WorkerSlot(q, b)
  <2>1. PICK a, x : a = Accepted(c) /\ x = FirstRequest(c, b)
    OBVIOUS
  <2>2. /\ worker' = [worker EXCEPT ![q].pending = Append(@, a)]
        /\ requests' = [requests EXCEPT ![q] = @ \cup x]
        /\ firstError' = firstError
    BY <2>1, <1>1, <1>11 DEF ReceiveCommand
  <2>3. c \in CommandRecords /\ c.id \in Ids
    BY <1>9, LiveRecordFacts
  <2>4. /\ a \in PendingCommands /\ a.command = c /\ a.descriptor = IsBatch(c.op)
        /\ ~IsBatch(c.op) => a.status = RangeStatus(c)
        /\ ~IsBatch(c.op) /\ RangeStatus(c) = "Success" => a.bytes = c.length
    <3>1. ~IsBatch(c.op) => RangeStatus(c) \in Statuses
      BY <1>9, PlainJudged
    <3> QED  BY <3>1, <2>1, <2>3, AcceptedFacts
  <2>5. PICK s \in Seq(PendingCommands) : s = Append(worker[q].pending, a)
    <3>1. a \in PendingCommands /\ worker[q].pending \in Seq(PendingCommands)
      BY <2>4, <1>4
    <3>2. Append(worker[q].pending, a) \in Seq(PendingCommands)
      BY <3>1
    <3> QED  BY <3>2
  <2>6. /\ worker' \in [Queues -> WorkerStates]
        /\ worker'[q].phase = "serve" /\ worker'[q].served = worker[q].served
        /\ worker'[q].pending = s
        /\ \A r \in Queues \ {q} : worker'[r] = worker[r]
    <3>1. worker' = [worker EXCEPT ![q].pending = s]
      BY <2>2, <2>5
    <3> QED  BY <3>1, <1>0, <1>2, PendingEdit
  <2>7. /\ Len(s) = n + 1 /\ s[b] = a /\ \A i \in 1 .. n : s[i] = worker[q].pending[i]
    BY <2>5, <1>1, <1>4 DEF Received
  <2>8. x \subseteq Requests /\ \A r \in x : r[2] = b
    <3>1. x \subseteq {<<"descriptor", b>>, <<"payload", b>>}
      BY <2>1 DEF FirstRequest
    <3> QED  BY <3>1, <1>8 DEF Requests
  <2>9. /\ requests' \in [Queues -> SUBSET Requests] /\ requests'[q] = requests[q] \cup x
        /\ \A r \in Queues \ {q} : requests'[r] = requests[r]
    BY <2>2, <2>8, <1>0, StateFacts
  <2>10. /\ completionBuf' = completionBuf /\ namespace' = namespace /\ dataBuf' = dataBuf /\ sends' = sends
         /\ commandBuf' = commandBuf /\ entryBuf' = entryBuf
    BY <1>2 DEF wireVars
  <2>11. LiveSlots' = LiveSlots /\ Effects' = Effects
    BY <2>10, <1>3, MemoryKept
  <2>12. Received(q)' = n + 1 /\ Window(q)' = Window(q)
    BY <2>6, <2>7 DEF Received, Window
  <2>13. Filled(q)' \subseteq Filled(q) \ {b}
    <3>1. ASSUME NEW d \in Filled(q)' PROVE d \in Filled(q) /\ d # b
      <4>1. d \in Buffers /\ d > n + 1 /\ d <= n + 1 + (arrived[q] - 1)
        BY <3>1, <2>12, <1>6 DEF Filled
      <4>2. d > n /\ d <= n + arrived[q] /\ d # b
        BY <4>1, <1>1, <1>4, SMTT(30) DEF Buffers
      <4> QED  BY <4>1, <4>2, <1>1, <1>2 DEF Filled
    <3> QED  BY <3>1
  <2>14. Owned(q) = 1 .. n /\ Owned(q)' = 1 .. n + 1
    BY <2>6, <2>12, <1>1, <1>2 DEF Owned
  <2>15. slotState' = slotState /\ asked' = asked /\ entryBuf' = entryBuf
    BY <2>10, <1>3 DEF ServerStep, clientVars
  <2>16. ReceiveInv(q)'
    <3>1. /\ Len(receives[q]) + n + arrived[q] = ActiveSlots(q) /\ Len(receives[q]) \in Nat
          /\ \A k \in 1 .. Len(receives[q]) : receives[q][k] = n + arrived[q] + k
      BY <1>1, <1>2, <1>4, <1>5 DEF ReceiveInv
    <3>2. n + 1 + (arrived[q] - 1) = n + arrived[q]
      BY <1>4
    <3>3. /\ Len(receives'[q]) + Received(q)' + arrived'[q] = ActiveSlots(q)
          /\ \A k \in 1 .. Len(receives'[q]) : receives'[q][k] = Received(q)' + arrived'[q] + k
      <4>1. receives'[q] = receives[q] /\ Received(q)' + arrived'[q] = n + arrived[q]
        BY <3>2, <2>12, <1>2, <1>6
      <4>2. Len(receives[q]) + Received(q)' + arrived'[q] = Len(receives[q]) + (Received(q)' + arrived'[q])
        <5>1. PICK l \in Nat, m \in Nat, z \in Nat :
                l = Len(receives[q]) /\ m = Received(q)' /\ z = arrived'[q]
          BY <3>1, <2>12, <1>4, <1>6, SMTT(30)
        <5>2. l + m + z = l + (m + z)
          OBVIOUS
        <5> QED  BY <5>1, <5>2
      <4>3. Len(receives[q]) + (n + arrived[q]) = ActiveSlots(q)
        BY <3>1, <1>4
      <4> QED  BY <3>1, <4>1, <4>2, <4>3
    <3>4. Received(q)' <= Window(q)'
      BY <2>12, <1>2, <1>4, <1>7
    <3> QED  BY <3>3, <3>4, <2>6, <1>4 DEF ReceiveInv, ActiveSlots, Share
  <2>17. SendInv(q)'
    BY <2>10, <2>11, <2>15, <1>5 DEF SendInv, QueueOf
  <2>18. FilledInv(q)'
    BY <2>10, <2>11, <2>13, <1>2, <1>5 DEF FilledInv, LiveRecord, QueueOf
  <2>19. OwnedInv(q)'
    <3>1. ASSUME NEW i \in 1 .. n + 1, NEW e, e = s[i].command
          PROVE  /\ LiveRecord(q, e) /\ e.slot = WorkerSlot(q, i)
                 /\ \A d \in Filled(q)' : recvBuf[q][d].slot # e.slot
                 /\ \A k \in 1 .. Len(sends[q]) : sends[q][k].slot # e.slot
      <4>1. CASE i = b
        <5>1. e = c
          BY <3>1, <4>1, <2>4, <2>7
        <5> QED  BY <5>1, <4>1, <2>13, <1>9, <1>11
      <4>2. CASE i \in 1 .. n
        <5>1. e = worker[q].pending[i].command /\ i \in Owned(q)
          BY <3>1, <4>2, <2>7, <2>14
        <5> QED  BY <5>1, <2>13, <1>5 DEF OwnedInv
      <4> QED  BY <4>1, <4>2, <1>1, <1>4, SMTT(30)
    <3> QED  BY <3>1, <2>6, <2>10, <2>11, <2>14, <1>2 DEF OwnedInv, LiveRecord, QueueOf, WorkerSlot
  <2>20. ProgressInv(q)'
    <3>1. ASSUME NEW i \in 1 .. n PROVE Progress(q, i)'
      <4>1. PICK p : p = worker[q].pending[i] /\ p = worker'[q].pending[i]
        BY <2>6, <2>7
      <4>2. Progress(q, i)
        BY <2>14, <1>5 DEF ProgressInv
      <4>3. \A kind : <<kind, i>> \in requests'[q] <=> <<kind, i>> \in requests[q]
        <5>1. i # b
          BY <1>1, <1>4
        <5> QED  BY <5>1, <2>8, <2>9
      <4> QED  BY <4>1, <4>2, <4>3, <2>11, <2>15 DEF Progress
    <3>2. Progress(q, b)'
      <4>1. a = worker'[q].pending[b]
        BY <2>6, <2>7
      <4>2. \A kind : <<kind, b>> \in requests'[q] <=> <<kind, b>> \in x
        <5>1. \A r \in requests[q] : r[2] \in 1 .. n
          BY <1>1, <1>5 DEF RequestInv
        <5>2. b \notin 1 .. n
          BY <1>1, <1>4
        <5>3. \A kind : <<kind, b>> \notin requests[q]
          BY <5>1, <5>2
        <5> QED  BY <5>3, <2>9
      <4>3. CASE IsBatch(c.op)
        <5>1. x = {<<"descriptor", b>>} /\ a.descriptor
          BY <4>3, <2>1, <2>4 DEF FirstRequest
        <5>2. <<"descriptor", b>> \in x /\ <<"payload", b>> \notin x /\ <<"completion", b>> \notin x
          BY <5>1, SMTT(30)
        <5> QED  BY <5>1, <5>2, <4>1, <4>2, <4>3, <2>4, <2>11, <1>9 DEF Progress
      <4>4. CASE ~IsBatch(c.op)
        <5>1. x = (IF RangeStatus(c) = "Success" THEN {<<"payload", b>>} ELSE {}) /\ ~a.descriptor
          BY <4>4, <2>1, <2>4 DEF FirstRequest
        <5>2. /\ <<"descriptor", b>> \notin x
              /\ <<"payload", b>> \in x <=> RangeStatus(c) = "Success"
          BY <5>1
        <5>3. /\ RangeStatus(c) = "Success" =>
                   /\ asked[c.id] = IF IsRead(c.op) THEN "read" ELSE "write"
                   /\ slotState[c.slot].inFlight => c.length = slotState[c.slot].expected
              /\ RangeStatus(c) # "Success" => asked[c.id] = "bad"
          BY <4>4, <1>9, PlainJudged
        <5>4. a.command = c /\ a.status = RangeStatus(c) /\ (RangeStatus(c) = "Success" => a.bytes = c.length)
          BY <4>4, <2>4
        <5> QED  BY <5>1, <5>2, <5>3, <5>4, <4>1, <4>2, <2>11, <2>15, <1>9 DEF Progress
      <4> QED  BY <4>3, <4>4
    <3>3. \A i \in 1 .. n + 1 : i \in 1 .. n \/ i = b
      BY <1>1, <1>4
    <3> QED  BY <3>1, <3>2, <3>3, <2>14, SMTT(30) DEF ProgressInv
  <2>21. RequestInv(q)'
    <3>1. \A r \in requests'[q] : r[2] \in 1 .. n + 1
      <4>1. \A r \in requests[q] : r[2] \in 1 .. n
        BY <1>1, <1>5 DEF RequestInv
      <4>2. b \in 1 .. n + 1 /\ \A j \in 1 .. n : j \in 1 .. n + 1
        BY <1>1, <1>4
      <4> QED  BY <4>1, <4>2, <2>8, <2>9
    <3>2. \A i \in Buffers : <<"completion", i>> \notin requests'[q]
      <4>1. \A i \in Buffers : <<"completion", i>> \notin requests[q]
        BY <1>2, <1>5 DEF RequestInv
      <4>2. \A i \in Buffers : <<"completion", i>> \notin x
        BY <2>1 DEF FirstRequest
      <4> QED  BY <4>1, <4>2, <2>9
    <3> QED  BY <3>1, <3>2, <2>6, <2>12 DEF RequestInv
  <2>22. QueueInv(q)'
    BY <2>16, <2>17, <2>18, <2>19, <2>20, <2>21 DEF QueueInv
  <2>23. TypeOK'
    BY <2>2, <2>6, <2>9, <2>10, <1>0, <1>2, <1>3, <1>6, StateFacts, StateFactsNext DEF ServerStep, clientVars
  <2> QED  BY <2>6, <2>9, <2>10, <2>22, <2>23, <1>2, <1>3, <1>6, OwnQueue
<1> QED  BY <1>10, <1>11

\* A worker that edits one of its pending commands.
EditsCommand(q, i, p) == worker' = [worker EXCEPT ![q].pending[i] = p]

\* An edit of one pending command changes nothing else of the worker.
LEMMA CommandEdit ==
  ASSUME IInv, NEW q \in Queues, NEW i \in 1 .. Received(q), NEW p \in PendingCommands,
         EditsCommand(q, i, p)
  PROVE  /\ worker' \in [Queues -> WorkerStates]
         /\ worker'[q].phase = worker[q].phase /\ worker'[q].served = worker[q].served
         /\ Received(q)' = Received(q) /\ worker'[q].pending[i] = p
         /\ \A j \in 1 .. Received(q) : j # i => worker'[q].pending[j] = worker[q].pending[j]
         /\ \A r \in Queues \ {q} : worker'[r] = worker[r]
<1>1. TypeOK /\ worker[q].pending \in Seq(PendingCommands) /\ Received(q) \in Nat
  BY WorkerFacts DEF IInv
<1>2. PICK f \in Seq(PendingCommands) : f = worker[q].pending
  BY <1>1
<1>3. PICK s : s = [f EXCEPT ![i] = p]
  OBVIOUS
<1>4. i \in 1 .. Len(f) /\ Len(f) = Received(q)
  BY <1>2 DEF Received
<1>5. /\ s \in Seq(PendingCommands) /\ Len(s) = Len(f) /\ s[i] = p
      /\ \A j \in 1 .. Len(f) : j # i => s[j] = f[j]
  BY <1>3, <1>4
<1>6. worker' = [worker EXCEPT ![q].pending = s]
  BY <1>2, <1>3 DEF EditsCommand
<1>7. /\ worker' \in [Queues -> WorkerStates]
      /\ worker'[q].phase = worker[q].phase /\ worker'[q].served = worker[q].served
      /\ worker'[q].pending = s
      /\ \A r \in Queues \ {q} : worker'[r] = worker[r]
  BY <1>1, <1>5, <1>6, PendingEdit
<1> QED  BY <1>2, <1>4, <1>5, <1>7 DEF Received

\* A command that was judged.
Judged(r, st, n) == [r EXCEPT !.status = st, !.descriptor = FALSE, !.bytes = n]

\* A command with its verdict keeps its record.
LEMMA JudgedFacts ==
  ASSUME NEW r \in PendingCommands, NEW st \in Statuses, NEW n \in Nat,
         NEW p, p = Judged(r, st, n)
  PROVE  /\ p \in PendingCommands /\ p.command = r.command /\ p.status = st /\ ~p.descriptor /\ p.bytes = n
<1>1. PICK t \in [command : CommandRecords, status : Statuses, bytes : Nat,
                  descriptor : BOOLEAN, entries : Seq(BatchEntries)] : t = r
  BY DEF PendingCommands
<1>2. PICK u : u = [t EXCEPT !.status = st]
  OBVIOUS
<1>3. /\ u \in [command : CommandRecords, status : Statuses, bytes : Nat,
                descriptor : BOOLEAN, entries : Seq(BatchEntries)]
      /\ u.command = t.command /\ u.status = st
  BY <1>2
<1>4. PICK v : v = [u EXCEPT !.descriptor = FALSE]
  OBVIOUS
<1>5. /\ v \in [command : CommandRecords, status : Statuses, bytes : Nat,
                descriptor : BOOLEAN, entries : Seq(BatchEntries)]
      /\ v.command = t.command /\ v.status = st /\ ~v.descriptor
  BY <1>3, <1>4
<1>6. PICK w : w = [v EXCEPT !.bytes = n]
  OBVIOUS
<1>7. /\ w \in [command : CommandRecords, status : Statuses, bytes : Nat,
                descriptor : BOOLEAN, entries : Seq(BatchEntries)]
      /\ w.command = t.command /\ w.status = st /\ ~w.descriptor /\ w.bytes = n
  BY <1>5, <1>6
<1>8. p = w
  BY <1>1, <1>2, <1>4, <1>6 DEF Judged
<1> QED  BY <1>1, <1>7, <1>8 DEF PendingCommands

\* A step that concerns one command its worker owns.
LEMMA OneCommand ==
  ASSUME IInv, ServerStep, UNCHANGED wireVars, receives' = receives, recvBuf' = recvBuf,
         arrived' = arrived, firstError' = firstError,
         NEW q \in Queues, NEW i \in Owned(q), NEW p \in PendingCommands,
         p.command = worker[q].pending[i].command, EditsCommand(q, i, p),
         requests' \in [Queues -> SUBSET Requests],
         \A r \in Queues \ {q} : requests'[r] = requests[r],
         \A kind, j : j # i => (<<kind, j>> \in requests'[q] <=> <<kind, j>> \in requests[q]),
         Progress(q, i)', RequestInv(q)'
  PROVE  IInv'
<1>0. TypeOK
  BY DEF IInv
<1>1. /\ completionBuf' = completionBuf /\ namespace' = namespace /\ dataBuf' = dataBuf /\ sends' = sends
      /\ commandBuf' = commandBuf /\ entryBuf' = entryBuf
  BY DEF wireVars
<1>2. i \in 1 .. Received(q)
  BY DEF Owned
<1>3. /\ worker' \in [Queues -> WorkerStates]
      /\ worker'[q].phase = worker[q].phase /\ worker'[q].served = worker[q].served
      /\ Received(q)' = Received(q) /\ worker'[q].pending[i] = p
      /\ \A j \in 1 .. Received(q) : j # i => worker'[q].pending[j] = worker[q].pending[j]
      /\ \A r \in Queues \ {q} : worker'[r] = worker[r]
  BY <1>2, CommandEdit
<1>4. /\ ReceiveInv(q) /\ SendInv(q) /\ FilledInv(q) /\ OwnedInv(q) /\ ProgressInv(q) /\ RequestInv(q)
  BY WorkerFacts
<1>5. LiveSlots' = LiveSlots /\ Effects' = Effects
  BY <1>1, MemoryKept
<1>6. Filled(q)' = Filled(q) /\ Window(q)' = Window(q)
  BY <1>3 DEF Filled, Window
<1>7. Owned(q)' \subseteq Owned(q)
  <2>1. ASSUME NEW j \in Owned(q)', j # i PROVE j \in Owned(q)
    <3>1. /\ j \in 1 .. Received(q)
          /\ worker[q].phase = "serve" \/ \E kind \in {"descriptor", "payload", "completion"} :
                                            <<kind, j>> \in requests'[q]
      BY <2>1, <1>3 DEF Owned
    <3> QED  BY <3>1, <2>1 DEF Owned
  <2> QED  BY <2>1
<1>8. slotState' = slotState /\ asked' = asked /\ entryBuf' = entryBuf
  BY <1>1 DEF ServerStep, clientVars
<1>9. ReceiveInv(q)'
  <2>1. worker[q].phase = "start" => FALSE
    <3>1. Received(q) = Len(worker[q].pending)
      BY DEF Received
    <3> QED  BY <3>1, <1>2, <1>4 DEF ReceiveInv
  <2> QED  BY <2>1, <1>3, <1>4, <1>6 DEF ReceiveInv
<1>10. SendInv(q)'
  BY <1>1, <1>4, <1>5, <1>8 DEF SendInv, QueueOf
<1>11. FilledInv(q)'
  BY <1>1, <1>4, <1>5, <1>6 DEF FilledInv, LiveRecord, QueueOf
<1>12. ASSUME NEW j \in Owned(q)
       PROVE  worker'[q].pending[j].command = worker[q].pending[j].command
  BY <1>3, SMTT(30) DEF Owned
<1>13. OwnedInv(q)'
  BY <1>1, <1>4, <1>5, <1>6, <1>7, <1>12, SMTT(30) DEF OwnedInv, LiveRecord, QueueOf, WorkerSlot
<1>14. ProgressInv(q)'
  <2>1. ASSUME NEW j \in Owned(q), j # i PROVE Progress(q, j)'
    <3>1. PICK r : r = worker[q].pending[j] /\ r = worker'[q].pending[j]
      BY <2>1, <1>3 DEF Owned
    <3>2. Progress(q, j)
      BY <1>4 DEF ProgressInv
    <3>3. \A kind : <<kind, j>> \in requests'[q] <=> <<kind, j>> \in requests[q]
      BY <2>1
    <3>4. /\ <<"descriptor", j>> \in requests'[q] <=> <<"descriptor", j>> \in requests[q]
          /\ <<"payload", j>> \in requests'[q] <=> <<"payload", j>> \in requests[q]
          /\ <<"completion", j>> \in requests'[q] <=> <<"completion", j>> \in requests[q]
      BY <3>3
    <3> QED  BY <3>1, <3>2, <3>4, <1>5, <1>8 DEF Progress
  <2> QED  BY <2>1, <1>7 DEF ProgressInv
<1>15. QueueInv(q)'
  BY <1>9, <1>10, <1>11, <1>13, <1>14 DEF QueueInv
<1>16. TypeOK'
  BY <1>0, <1>1, <1>3, StateFacts, StateFactsNext DEF ServerStep, clientVars
<1> QED  BY <1>1, <1>3, <1>15, <1>16, OwnQueue

\* A worker takes the descriptors of the next batch.
LEMMA TakeIInv ==
  ASSUME IInv, NEW q \in Queues, TakeDescriptor(q), UNCHANGED clientVars PROVE IInv'
<1>0. TypeOK
  BY DEF IInv
<1>1. PICK i, r : i = Min(Untaken(q)) /\ r = worker[q].pending[i]
  OBVIOUS
<1>2. PICK st, n : st = BatchStatus(r.command, r.entries)
                   /\ n = (IF st = "Success" THEN TotalLength(r.entries) ELSE 0)
  OBVIOUS
<1>3. PICK p : p = Judged(r, st, n)
  OBVIOUS
<1>4. /\ worker[q].phase = "serve" /\ Untaken(q) # {} /\ <<"descriptor", i>> \notin requests[q]
      /\ EditsCommand(q, i, p)
      /\ requests' = IF st = "Success" THEN [requests EXCEPT ![q] = @ \cup {<<"payload", i>>}] ELSE requests
      /\ receives' = receives /\ recvBuf' = recvBuf /\ arrived' = arrived /\ firstError' = firstError
      /\ UNCHANGED wireVars
  BY <1>1, <1>2, <1>3 DEF TakeDescriptor, CanTakeDescriptor, Judged, EditsCommand
<1>5. ServerStep
  BY <1>4 DEF ServerStep, wireVars
<1>6. /\ Received(q) \in Nat /\ worker[q].pending \in Seq(PendingCommands) /\ SlotsPerQp \in Nat
      /\ ReceiveInv(q) /\ OwnedInv(q) /\ ProgressInv(q) /\ RequestInv(q)
      /\ worker[q].served <= Share(q) /\ requests[q] \subseteq Requests
  BY WorkerFacts
<1>7. i \in 1 .. Received(q) /\ r.descriptor
  <2>1. Untaken(q) \subseteq Nat
    BY <1>6 DEF Untaken
  <2>2. i \in Untaken(q)
    BY <2>1, <1>1, <1>4, LeastIn
  <2> QED  BY <2>2, <1>1 DEF Untaken
<1>8. i \in Owned(q)
  BY <1>4, <1>7 DEF Owned
<1>9. r \in PendingCommands
  <2>1. PICK f \in Seq(PendingCommands) : f = worker[q].pending
    BY <1>6
  <2>2. i \in 1 .. Len(f)
    BY <2>1, <1>7 DEF Received
  <2>3. f[i] \in PendingCommands
    BY <2>2
  <2> QED  BY <2>1, <2>3, <1>1
<1>10. PICK c : c = r.command
  OBVIOUS
<1>11. LiveRecord(q, c)
  BY <1>1, <1>6, <1>8, <1>10 DEF OwnedInv
<1>12. /\ IsBatch(c.op) /\ c.id \notin Effects /\ r.entries = entryBuf[c.slot]
       /\ <<"payload", i>> \notin requests[q] /\ <<"completion", i>> \notin requests[q]
  <2>1. Progress(q, i)
    BY <1>6, <1>8 DEF ProgressInv
  <2> QED  BY <2>1, <1>1, <1>4, <1>7, <1>10 DEF Progress
<1>13. /\ st \in Statuses /\ TotalLength(r.entries) \in Nat
       /\ st = "Success" =>
            /\ asked[c.id] = IF IsRead(c.op) THEN "read" ELSE "write"
            /\ slotState[c.slot].inFlight => TotalLength(r.entries) = slotState[c.slot].expected
       /\ st # "Success" => asked[c.id] = "bad"
  BY <1>2, <1>10, <1>11, <1>12, FetchedJudged
<1>14. n \in Nat
  BY <1>2, <1>13
<1>15. /\ p \in PendingCommands /\ p.command = c /\ p.status = st /\ ~p.descriptor /\ p.bytes = n
  <2>1. st \in Statuses
    BY <1>13
  <2>2. /\ p \in PendingCommands /\ p.command = r.command /\ p.status = st /\ ~p.descriptor /\ p.bytes = n
    BY <2>1, <1>3, <1>9, <1>14, JudgedFacts
  <2> QED  BY <2>2, <1>10
<1>16. i \in Buffers
  <2>1. Received(q) <= Window(q)
    BY <1>4, <1>6 DEF ReceiveInv
  <2>2. Window(q) <= ActiveSlots(q) /\ ActiveSlots(q) <= SlotsPerQp /\ Window(q) \in Nat /\ ActiveSlots(q) \in Nat
    BY <1>0, <1>6, WindowFacts
  <2> QED  BY <2>1, <2>2, <1>6, <1>7 DEF Buffers
<1>17. <<"payload", i>> \in Requests
  BY <1>16 DEF Requests
<1>18. /\ requests' \in [Queues -> SUBSET Requests]
       /\ \A t \in Queues \ {q} : requests'[t] = requests[t]
       /\ requests'[q] = IF st = "Success" THEN requests[q] \cup {<<"payload", i>>} ELSE requests[q]
  <2>1. requests \in [Queues -> SUBSET Requests]
    BY <1>0, StateFacts
  <2>2. CASE st = "Success"
    BY <2>1, <2>2, <1>4, <1>17
  <2>3. CASE st # "Success"
    BY <2>1, <2>3, <1>4
  <2> QED  BY <2>2, <2>3
<1>19. \A kind, j : j # i => (<<kind, j>> \in requests'[q] <=> <<kind, j>> \in requests[q])
  BY <1>18
<1>20. worker'[q].phase = "serve" /\ Received(q)' = Received(q) /\ worker'[q].pending[i] = p
  <2>1. p \in PendingCommands /\ EditsCommand(q, i, p)
    BY <1>4, <1>15
  <2>2. /\ worker'[q].phase = worker[q].phase /\ Received(q)' = Received(q)
        /\ worker'[q].pending[i] = p
    BY <2>1, <1>7, CommandEdit
  <2> QED  BY <2>2, <1>4
<1>21. slotState' = slotState /\ asked' = asked /\ Effects' = Effects
  <2>1. namespace' = namespace /\ dataBuf' = dataBuf
    BY <1>4 DEF wireVars
  <2> QED  BY <2>1, <1>5, EffectsKept DEF ServerStep, clientVars
<1>22. Progress(q, i)'
  <2>1. /\ <<"descriptor", i>> \notin requests'[q]
        /\ <<"payload", i>> \in requests'[q] <=> st = "Success"
    BY <1>4, <1>12, <1>18
  <2>2. st = "Success" => (slotState[c.slot].inFlight => p.bytes = slotState[c.slot].expected)
    BY <1>2, <1>13, <1>15
  <2> QED  BY <2>1, <2>2, <1>12, <1>13, <1>15, <1>20, <1>21 DEF Progress
<1>23. RequestInv(q)'
  <2>1. \A t \in requests'[q] : t[2] \in 1 .. Received(q)
    BY <1>6, <1>7, <1>18 DEF RequestInv
  <2>2. \A j \in Buffers : <<"completion", j>> \notin requests'[q]
    BY <1>4, <1>6, <1>18 DEF RequestInv
  <2> QED  BY <2>1, <2>2, <1>20 DEF RequestInv
<1>24. p.command = worker[q].pending[i].command
  BY <1>1, <1>10, <1>15
<1> QED  BY <1>4, <1>5, <1>8, <1>15, <1>18, <1>19, <1>22, <1>23, <1>24, OneCommand

\* A worker posts the completions of its window.
LEMMA PostIInv ==
  ASSUME IInv, NEW q \in Queues, PostCompletions(q), UNCHANGED clientVars PROVE IInv'
<1>0. TypeOK
  BY DEF IInv
<1>1. PICK x : x = {<<"completion", i>> : i \in 1 .. Received(q)}
  OBVIOUS
<1>2. /\ worker[q].phase = "serve" /\ Received(q) = Window(q) /\ Untaken(q) = {}
      /\ \A i \in Buffers : <<"payload", i>> \notin requests[q]
      /\ worker' = [worker EXCEPT ![q].phase = "complete"]
      /\ requests' = [requests EXCEPT ![q] = @ \cup x]
      /\ receives' = receives /\ recvBuf' = recvBuf /\ arrived' = arrived /\ firstError' = firstError
      /\ UNCHANGED wireVars
  BY <1>1 DEF PostCompletions, CanComplete
<1>3. ServerStep
  BY <1>2 DEF ServerStep, wireVars
<1>4. /\ ReceiveInv(q) /\ SendInv(q) /\ FilledInv(q) /\ OwnedInv(q) /\ ProgressInv(q) /\ RequestInv(q)
      /\ Received(q) \in Nat /\ worker[q].served <= Share(q) /\ SlotsPerQp \in Nat
  BY WorkerFacts
<1>5. /\ worker' \in [Queues -> WorkerStates]
      /\ worker'[q].phase = "complete" /\ worker'[q].served = worker[q].served
      /\ worker'[q].pending = worker[q].pending
      /\ \A r \in Queues \ {q} : worker'[r] = worker[r]
  <2>1. "complete" \in Phases
    BY DEF Phases
  <2> QED  BY <2>1, <1>0, <1>2, PhaseEdit
<1>6. \A i \in 1 .. Received(q) : i \in Buffers
  <2>1. Window(q) <= ActiveSlots(q) /\ ActiveSlots(q) <= SlotsPerQp /\ Window(q) \in Nat /\ ActiveSlots(q) \in Nat
    BY <1>0, <1>4, WindowFacts
  <2> QED  BY <2>1, <1>2, <1>4 DEF Buffers
<1>7. x \subseteq Requests
  BY <1>1, <1>6 DEF Requests
<1>8. /\ requests' \in [Queues -> SUBSET Requests] /\ requests'[q] = requests[q] \cup x
      /\ \A r \in Queues \ {q} : requests'[r] = requests[r]
  <2>1. requests \in [Queues -> SUBSET Requests]
    BY <1>0, StateFacts
  <2> QED  BY <2>1, <1>2, <1>7
<1>9. /\ completionBuf' = completionBuf /\ namespace' = namespace /\ dataBuf' = dataBuf /\ sends' = sends
      /\ commandBuf' = commandBuf /\ entryBuf' = entryBuf
  BY <1>2 DEF wireVars
<1>10. LiveSlots' = LiveSlots /\ Effects' = Effects
  BY <1>3, <1>9, MemoryKept
<1>11. slotState' = slotState /\ asked' = asked
  BY <1>3 DEF ServerStep, clientVars
<1>12. Received(q)' = Received(q) /\ Window(q)' = Window(q) /\ Filled(q)' = {}
  BY <1>5 DEF Received, Window, Filled
<1>13. Owned(q) = 1 .. Received(q) /\ Owned(q)' \subseteq Owned(q)
  BY <1>2, <1>12, SMTT(30) DEF Owned
<1>14. ASSUME NEW i \in 1 .. Received(q)
       PROVE  /\ ~worker[q].pending[i].descriptor /\ <<"descriptor", i>> \notin requests[q]
              /\ Progress(q, i)
  <2>1. Progress(q, i)
    BY <1>4, <1>13 DEF ProgressInv
  <2>2. ~worker[q].pending[i].descriptor
    BY <1>2 DEF Untaken
  <2> QED  BY <2>1, <2>2 DEF Progress
<1>15. \A i : /\ <<"descriptor", i>> \in requests'[q] <=> <<"descriptor", i>> \in requests[q]
              /\ <<"payload", i>> \in requests'[q] <=> <<"payload", i>> \in requests[q]
  BY <1>1, <1>8
<1>16. ReceiveInv(q)'
  BY <1>2, <1>4, <1>5, <1>12 DEF ReceiveInv
<1>17. SendInv(q)'
  BY <1>4, <1>9, <1>10, <1>11 DEF SendInv, QueueOf
<1>18. FilledInv(q)'
  BY <1>12 DEF FilledInv
<1>19. OwnedInv(q)'
  BY <1>4, <1>5, <1>9, <1>10, <1>12, <1>13 DEF OwnedInv, LiveRecord, QueueOf, WorkerSlot
<1>20. ProgressInv(q)'
  <2>1. ASSUME NEW i \in 1 .. Received(q) PROVE Progress(q, i)'
    <3>1. PICK p : p = worker[q].pending[i] /\ p = worker'[q].pending[i]
      BY <1>5
    <3>2. ~p.descriptor /\ Progress(q, i)
      BY <3>1, <1>14
    <3> QED  BY <3>1, <3>2, <1>10, <1>11, <1>15 DEF Progress
  <2> QED  BY <2>1, <1>13, SMTT(30) DEF ProgressInv
<1>21. RequestInv(q)'
  <2>1. \A r \in requests'[q] : r[2] \in 1 .. Received(q)
    BY <1>1, <1>4, <1>8 DEF RequestInv
  <2>2. \A i : <<"descriptor", i>> \notin requests[q]
    <3>1. ASSUME NEW i, <<"descriptor", i>> \in requests[q] PROVE i \in 1 .. Received(q)
      BY <3>1, <1>4 DEF RequestInv
    <3> QED  BY <3>1, <1>14
  <2>3. \A i \in Buffers : <<"descriptor", i>> \notin requests'[q] /\ <<"payload", i>> \notin requests'[q]
    BY <2>2, <1>2, <1>15
  <2> QED  BY <2>1, <2>3, <1>5, <1>12 DEF RequestInv
<1>22. QueueInv(q)'
  BY <1>16, <1>17, <1>18, <1>19, <1>20, <1>21 DEF QueueInv
<1>23. TypeOK'
  BY <1>0, <1>2, <1>3, <1>5, <1>8, <1>9, StateFacts, StateFactsNext DEF ServerStep, clientVars
<1> QED  BY <1>2, <1>3, <1>5, <1>8, <1>9, <1>22, <1>23, OwnQueue

\* A worker ends its window.
LEMMA RetireIInv ==
  ASSUME IInv, NEW q \in Queues, RetireWindow(q), UNCHANGED clientVars PROVE IInv'
<1>0. TypeOK
  BY DEF IInv
<1>1. PICK n, m, x, f : /\ n = Received(q) /\ m = worker[q].served + n
                        /\ x = (IF m < Share(q) THEN "serve" ELSE "done")
                        /\ f = [b \in 1 .. n |-> b]
  OBVIOUS
<1>2. /\ worker[q].phase = "complete" /\ requests[q] = {}
      /\ worker' = [worker EXCEPT ![q] = [phase |-> x, served |-> m, pending |-> <<>>]]
      /\ receives' = IF m < Share(q) THEN [receives EXCEPT ![q] = @ \o f] ELSE receives
      /\ recvBuf' = recvBuf /\ arrived' = arrived /\ requests' = requests /\ firstError' = firstError
      /\ UNCHANGED wireVars
  BY <1>1 DEF RetireWindow, CanRetire
<1>3. ServerStep
  BY <1>2 DEF ServerStep, wireVars
<1>4. /\ ReceiveInv(q) /\ SendInv(q) /\ n \in Nat /\ worker[q].served \in Nat /\ arrived[q] \in Nat
      /\ worker[q].served <= Share(q) /\ SlotsPerQp \in Nat /\ receives[q] \in Seq(Buffers)
      /\ Len(receives[q]) \in Nat
  BY <1>1, WorkerFacts
<1>5. /\ n = Window(q) /\ Len(receives[q]) + n + arrived[q] = ActiveSlots(q)
  BY <1>1, <1>2, <1>4 DEF ReceiveInv
<1>6. /\ Share(q) \in Nat /\ ActiveSlots(q) \in Nat /\ Window(q) \in Nat
      /\ ActiveSlots(q) <= SlotsPerQp /\ Window(q) <= ActiveSlots(q)
      /\ Window(q) + worker[q].served <= Share(q)
      /\ Window(q) = ActiveSlots(q) \/ Window(q) + worker[q].served = Share(q)
  BY <1>0, <1>4, WindowFacts
<1>7. m \in Nat /\ m <= Share(q) /\ n <= SlotsPerQp
  BY <1>1, <1>4, <1>5, <1>6, SMTT(30)
<1>8. m < Share(q) => n = ActiveSlots(q) /\ Len(receives[q]) = 0 /\ arrived[q] = 0
  BY <1>1, <1>4, <1>5, <1>6, SMTT(30)
<1>9. /\ worker' \in [Queues -> WorkerStates]
      /\ worker'[q].phase = x /\ worker'[q].served = m /\ worker'[q].pending = <<>>
      /\ \A r \in Queues \ {q} : worker'[r] = worker[r]
  <2>1. PICK w : w = [phase |-> x, served |-> m, pending |-> <<>>]
    OBVIOUS
  <2>2. x \in Phases /\ <<>> \in Seq(PendingCommands)
    BY <1>1 DEF Phases
  <2>3. w \in WorkerStates /\ w.phase = x /\ w.served = m /\ w.pending = <<>>
    BY <2>1, <2>2, <1>7 DEF WorkerStates
  <2>4. worker' = [worker EXCEPT ![q] = w] /\ worker \in [Queues -> WorkerStates]
    BY <2>1, <1>0, <1>2, StateFacts
  <2>5. /\ worker' \in [Queues -> WorkerStates] /\ worker'[q] = w
        /\ \A r \in Queues \ {q} : worker'[r] = worker[r]
    BY <2>3, <2>4
  <2> QED  BY <2>3, <2>5
<1>10. /\ f \in Seq(Buffers) /\ Len(f) = n /\ \A k \in 1 .. n : f[k] = k
  BY <1>1, <1>4, <1>7, InOrder
<1>11. m < Share(q) => receives[q] \o f = f
  <2>1. SUFFICES ASSUME m < Share(q) PROVE receives[q] \o f = f
    OBVIOUS
  <2>2. receives[q] = <<>>
    BY <2>1, <1>4, <1>8
  <2>3. <<>> \o f = f
    BY <1>10
  <2> QED  BY <2>2, <2>3
<1>12. /\ receives' \in [Queues -> Seq(Buffers)]
       /\ m < Share(q) => receives'[q] = f
       /\ \A r \in Queues \ {q} : receives'[r] = receives[r]
  <2>0. receives \in [Queues -> Seq(Buffers)]
    BY <1>0, StateFacts
  <2>1. CASE m < Share(q)
    <3>1. receives' = [receives EXCEPT ![q] = f]
      BY <2>1, <1>2, <1>11
    <3> QED  BY <3>1, <2>0, <1>10
  <2>2. CASE ~(m < Share(q))
    BY <2>0, <2>2, <1>2
  <2> QED  BY <2>1, <2>2
<1>13. /\ completionBuf' = completionBuf /\ namespace' = namespace /\ dataBuf' = dataBuf /\ sends' = sends
       /\ commandBuf' = commandBuf /\ entryBuf' = entryBuf
  BY <1>2 DEF wireVars
<1>14. LiveSlots' = LiveSlots /\ Effects' = Effects
  BY <1>3, <1>13, MemoryKept
<1>15. Received(q)' = 0
  BY <1>9 DEF Received
<1>16. Owned(q)' = {}
  BY <1>15 DEF Owned
<1>17. Filled(q)' = {}
  <2>1. ASSUME NEW b \in Filled(q)' PROVE FALSE
    <3>1. x = "serve" /\ b \in Buffers /\ b > 0 /\ b <= 0 + arrived[q]
      BY <2>1, <1>2, <1>9, <1>15 DEF Filled
    <3>2. arrived[q] = 0
      BY <3>1, <1>1, <1>8
    <3> QED  BY <3>1, <3>2 DEF Buffers
  <2> QED  BY <2>1
<1>23. recvBuf' = recvBuf /\ arrived' = arrived /\ requests' = requests /\ firstError' = firstError
  BY <1>2
<1>18. ReceiveInv(q)'
  <2>1. ASSUME x = "serve"
        PROVE  /\ Received(q)' <= Window(q)'
               /\ Len(receives'[q]) + Received(q)' + arrived'[q] = ActiveSlots(q)
               /\ \A k \in 1 .. Len(receives'[q]) : receives'[q][k] = Received(q)' + arrived'[q] + k
    <3>1. m < Share(q)
      BY <2>1, <1>1
    <3>2. arrived'[q] = 0 /\ receives'[q] = f /\ Len(f) = ActiveSlots(q)
      BY <3>1, <1>23, <1>8, <1>10, <1>12
    <3>3. Window(q)' \in Nat
      <4>1. Window(q)' = Min({ActiveSlots(q), Share(q) - m})
        BY <1>9 DEF Window, ActiveSlots, Share
      <4>2. Share(q) - m \in Nat
        BY <3>1, <1>6, <1>7
      <4>3. Min({ActiveSlots(q), Share(q) - m}) \in Nat
        BY <4>2, <1>6, LeastOfTwo
      <4> QED  BY <4>1, <4>3
    <3> QED  BY <3>2, <3>3, <1>6, <1>10, <1>15
  <2>2. x \in {"serve", "done"}
    BY <1>1
  <2> QED  BY <2>1, <2>2, <1>7, <1>9 DEF ReceiveInv, ActiveSlots, Share
<1>19. SendInv(q)'
  <2>1. slotState' = slotState
    BY <1>3 DEF ServerStep, clientVars
  <2> QED  BY <2>1, <1>4, <1>13, <1>14 DEF SendInv, QueueOf
<1>20. RequestInv(q)'
  BY <1>2 DEF RequestInv
<1>21. QueueInv(q)'
  BY <1>16, <1>17, <1>18, <1>19, <1>20 DEF QueueInv, FilledInv, OwnedInv, ProgressInv
<1>22. TypeOK'
  BY <1>0, <1>23, <1>3, <1>9, <1>12, <1>13, StateFacts, StateFactsNext DEF ServerStep, clientVars
<1> QED  BY <1>2, <1>3, <1>9, <1>12, <1>13, <1>21, <1>22, OwnQueue

\* A Send reaches the server.
LEMMA DeliverIInv ==
  ASSUME IInv, NEW q \in Queues, DeliverSend(q), UNCHANGED clientVars PROVE IInv'
<1>0. TypeOK
  BY DEF IInv
<1>1. PICK h, m, c, n : h = Head(receives[q]) /\ m = Head(sends[q]) /\ c = commandBuf[m.slot] /\ n = Received(q)
  OBVIOUS
<1>2. /\ sends[q] # <<>> /\ receives[q] # <<>>
      /\ recvBuf' = [recvBuf EXCEPT ![q][h] = c]
      /\ sends' = [sends EXCEPT ![q] = Tail(@)]
      /\ receives' = [receives EXCEPT ![q] = Tail(@)]
      /\ arrived' = [arrived EXCEPT ![q] = @ + 1]
      /\ worker' = worker /\ requests' = requests /\ firstError' = firstError
      /\ commandBuf' = commandBuf /\ entryBuf' = entryBuf /\ completionBuf' = completionBuf
      /\ namespace' = namespace /\ dataBuf' = dataBuf
  BY <1>1 DEF DeliverSend
<1>3. ServerStep
  BY <1>2 DEF ServerStep
<1>4. /\ ReceiveInv(q) /\ SendInv(q) /\ FilledInv(q) /\ OwnedInv(q) /\ ProgressInv(q) /\ RequestInv(q)
      /\ n \in Nat /\ arrived[q] \in Nat /\ receives[q] \in Seq(Buffers) /\ sends[q] \in Seq(SendRecords)
  BY <1>1, WorkerFacts
<1>5. /\ h \in Buffers /\ h = receives[q][1] /\ Len(receives[q]) \in Nat /\ Len(receives[q]) >= 1
      /\ Tail(receives[q]) \in Seq(Buffers) /\ Len(Tail(receives[q])) = Len(receives[q]) - 1
      /\ \A k \in 1 .. Len(Tail(receives[q])) : Tail(receives[q])[k] = receives[q][k + 1]
  BY <1>1, <1>2, <1>4, SMTT(30)
<1>6. /\ m = sends[q][1] /\ Len(sends[q]) \in Nat /\ Len(sends[q]) >= 1
      /\ Tail(sends[q]) \in Seq(SendRecords) /\ Len(Tail(sends[q])) = Len(sends[q]) - 1
      /\ \A k \in 1 .. Len(Tail(sends[q])) : Tail(sends[q])[k] = sends[q][k + 1]
  BY <1>1, <1>2, <1>4
<1>7. /\ m.slot \in LiveSlots /\ QueueOf(m.slot) = q /\ m.id = slotState[m.slot].id /\ m.id \notin Effects
  <2>1. 1 \in 1 .. Len(sends[q])
    BY <1>6
  <2> QED  BY <2>1, <1>4, <1>6 DEF SendInv
<1>8. LiveRecord(q, c) /\ c.slot = m.slot /\ c.id \notin Effects /\ c \in CommandRecords
  <2>1. PICK s \in LiveSlots : s = m.slot
    BY <1>7
  <2>2. commandBuf[s] \in CommandRecords /\ commandBuf[s].id = slotState[s].id /\ commandBuf[s].slot = s
    BY LiveFacts
  <2> QED  BY <2>1, <2>2, <1>1, <1>7 DEF LiveRecord
<1>9. /\ recvBuf' \in [Queues -> [Buffers -> CommandRecords]]
      /\ recvBuf'[q][h] = c /\ \A b \in Buffers : b # h => recvBuf'[q][b] = recvBuf[q][b]
      /\ \A r \in Queues \ {q} : recvBuf'[r] = recvBuf[r]
  <2>1. recvBuf \in [Queues -> [Buffers -> CommandRecords]]
    BY <1>0, StateFacts
  <2>2. PICK g \in [Buffers -> CommandRecords] : g = [recvBuf[q] EXCEPT ![h] = c]
    BY <2>1, <1>5, <1>8
  <2>3. recvBuf' = [recvBuf EXCEPT ![q] = g]
    BY <2>2, <1>2
  <2>4. recvBuf' \in [Queues -> [Buffers -> CommandRecords]] /\ recvBuf'[q] = g
        /\ \A r \in Queues \ {q} : recvBuf'[r] = recvBuf[r]
    BY <2>1, <2>3
  <2>5. g[h] = c /\ \A b \in Buffers : b # h => g[b] = recvBuf[q][b]
    BY <2>1, <2>2, <1>5
  <2> QED  BY <2>4, <2>5
<1>10. /\ sends' \in [Queues -> Seq(SendRecords)] /\ sends'[q] = Tail(sends[q])
       /\ \A r \in Queues \ {q} : sends'[r] = sends[r]
  <2>1. sends \in [Queues -> Seq(SendRecords)]
    BY <1>0, StateFacts
  <2> QED  BY <2>1, <1>2, <1>6
<1>11. /\ receives' \in [Queues -> Seq(Buffers)] /\ receives'[q] = Tail(receives[q])
       /\ \A r \in Queues \ {q} : receives'[r] = receives[r]
  <2>1. receives \in [Queues -> Seq(Buffers)]
    BY <1>0, StateFacts
  <2> QED  BY <2>1, <1>2, <1>5
<1>12. /\ arrived' \in [Queues -> Nat] /\ arrived'[q] = arrived[q] + 1
       /\ \A r \in Queues \ {q} : arrived'[r] = arrived[r]
  <2>1. arrived \in [Queues -> Nat]
    BY <1>0, StateFacts
  <2> QED  BY <2>1, <1>2
<1>13. LiveSlots' = LiveSlots /\ Effects' = Effects
  BY <1>2, <1>3, MemoryKept
<1>14. slotState' = slotState /\ asked' = asked
  BY <1>3 DEF ServerStep, clientVars
<1>15. worker' = worker /\ requests' = requests /\ commandBuf' = commandBuf /\ entryBuf' = entryBuf
       /\ firstError' = firstError
  BY <1>2
<1>16. Received(q)' = n /\ Window(q)' = Window(q) /\ Owned(q)' = Owned(q)
  BY <1>1, <1>15 DEF Received, Window, Owned
<1>17. ASSUME worker[q].phase \in {"serve", "complete"}
       PROVE  /\ h = n + arrived[q] + 1
              /\ Len(receives'[q]) + n + arrived'[q] = ActiveSlots(q)
              /\ \A k \in 1 .. Len(receives'[q]) : receives'[q][k] = n + arrived'[q] + k
  <2>1. /\ Len(receives[q]) + n + arrived[q] = ActiveSlots(q)
        /\ \A k \in 1 .. Len(receives[q]) : receives[q][k] = n + arrived[q] + k
    BY <1>1, <1>4, <1>17 DEF ReceiveInv
  <2>2. PICK l \in Nat, z \in Nat : l = Len(receives[q]) /\ z = arrived[q]
    BY <1>4, <1>5
  <2>3. h = n + z + 1
    <3>1. 1 \in 1 .. l
      BY <2>2, <1>5
    <3> QED  BY <3>1, <2>1, <2>2, <1>5
  <2>4. (l - 1) + n + (z + 1) = l + n + z
    BY <1>4
  <2>5. ASSUME NEW k \in 1 .. l - 1 PROVE receives'[q][k] = n + (z + 1) + k
    <3>1. k \in 1 .. Len(Tail(receives[q])) /\ k + 1 \in 1 .. l
      BY <2>2, <2>5, <1>5
    <3>2. receives'[q][k] = receives[q][k + 1]
      BY <3>1, <1>5, <1>11
    <3>3. receives[q][k + 1] = n + z + (k + 1)
      BY <3>1, <2>1, <2>2
    <3>4. n + z + (k + 1) = n + (z + 1) + k
      BY <1>4
    <3> QED  BY <3>2, <3>3, <3>4
  <2>6. Len(receives'[q]) = l - 1 /\ arrived'[q] = z + 1
    BY <2>2, <1>5, <1>11, <1>12
  <2> QED  BY <2>1, <2>2, <2>3, <2>4, <2>5, <2>6
<1>18. ReceiveInv(q)'
  <2>1. worker[q].phase # "start"
    BY <1>2, <1>4 DEF ReceiveInv
  <2> QED  BY <2>1, <1>1, <1>4, <1>15, <1>16, <1>17 DEF ReceiveInv, ActiveSlots, Share
<1>19. ASSUME NEW k \in 1 .. Len(sends'[q])
       PROVE  /\ k + 1 \in 1 .. Len(sends[q]) /\ sends'[q][k] = sends[q][k + 1]
              /\ sends'[q][k].slot # m.slot
  <2>1. k + 1 \in 1 .. Len(sends[q]) /\ 1 \in 1 .. Len(sends[q]) /\ k + 1 # 1
    BY <1>6, <1>10
  <2>2. sends'[q][k] = sends[q][k + 1]
    BY <1>6, <1>10
  <2>3. sends[q][k + 1].slot # sends[q][1].slot
    BY <2>1, <1>4 DEF SendInv
  <2> QED  BY <2>1, <2>2, <2>3, <1>6
<1>20. SendInv(q)'
  <2>1. ASSUME NEW k \in 1 .. Len(sends'[q])
        PROVE  /\ sends'[q][k].slot \in LiveSlots /\ QueueOf(sends'[q][k].slot) = q
               /\ sends'[q][k].id = slotState[sends'[q][k].slot].id /\ sends'[q][k].id \notin Effects
    BY <1>4, <1>19, SMTT(30) DEF SendInv
  <2>2. ASSUME NEW j \in 1 .. Len(sends'[q]), NEW k \in 1 .. Len(sends'[q]),
               sends'[q][j].slot = sends'[q][k].slot
        PROVE  j = k
    <3>1. j + 1 = k + 1
      BY <2>2, <1>4, <1>19 DEF SendInv
    <3>2. j \in Int /\ k \in Int
      OBVIOUS
    <3> QED  BY <3>1, <3>2
  <2> QED  BY <2>1, <2>2, <1>13, <1>14 DEF SendInv, QueueOf
<1>21. ASSUME NEW b \in Filled(q)'
       PROVE  b = h \/ (b # h /\ b \in Filled(q) /\ recvBuf'[q][b] = recvBuf[q][b])
  <2>1. /\ b \in Buffers /\ worker[q].phase = "serve" /\ b > n /\ b <= n + (arrived[q] + 1)
    BY <1>12, <1>15, <1>16 DEF Filled
  <2>2. h = n + arrived[q] + 1
    BY <2>1, <1>17
  <2>3. b # h => b <= n + arrived[q]
    BY <2>1, <2>2, <1>4 DEF Buffers
  <2> QED  BY <2>1, <2>3, <1>1, <1>9 DEF Filled
<1>22. ASSUME NEW b \in Filled(q)
       PROVE  recvBuf[q][b].slot # m.slot
  <2>1. 1 \in 1 .. Len(sends[q])
    BY <1>6
  <2> QED  BY <2>1, <1>4, <1>6 DEF FilledInv
<1>23. FilledInv(q)'
  <2>1. ASSUME NEW b \in Filled(q)'
        PROVE  /\ LiveRecord(q, recvBuf'[q][b]) /\ recvBuf'[q][b].id \notin Effects
               /\ \A k \in 1 .. Len(sends'[q]) : sends'[q][k].slot # recvBuf'[q][b].slot
    <3>1. CASE b = h
      BY <3>1, <1>8, <1>9, <1>19
    <3>2. CASE b # h
      <4>1. b \in Filled(q) /\ recvBuf'[q][b] = recvBuf[q][b]
        BY <3>2, <1>21
      <4> QED  BY <4>1, <1>4, <1>19, ZenonT(40) DEF FilledInv
    <3> QED  BY <3>1, <3>2
  <2>2. ASSUME NEW b \in Filled(q)', NEW d \in Filled(q)', recvBuf'[q][d].slot = recvBuf'[q][b].slot
        PROVE  d = b
    <3>1. \A e \in Filled(q)' : e # h => e \in Filled(q) /\ recvBuf'[q][e] = recvBuf[q][e]
      BY <1>21
    <3>2. recvBuf'[q][h].slot = m.slot
      BY <1>8, <1>9
    <3> QED  BY <3>1, <3>2, <2>2, <1>4, <1>22 DEF FilledInv
  <2> QED  BY <2>1, <2>2, <1>13, <1>15 DEF FilledInv, LiveRecord, QueueOf
<1>24. OwnedInv(q)'
  <2>1. ASSUME NEW i \in Owned(q), NEW e, e = worker[q].pending[i].command
        PROVE  /\ LiveRecord(q, e) /\ e.slot = WorkerSlot(q, i)
               /\ \A b \in Filled(q)' : recvBuf'[q][b].slot # e.slot
               /\ \A k \in 1 .. Len(sends'[q]) : sends'[q][k].slot # e.slot
    <3>1. /\ LiveRecord(q, e) /\ e.slot = WorkerSlot(q, i)
          /\ \A b \in Filled(q) : recvBuf[q][b].slot # e.slot
          /\ \A k \in 1 .. Len(sends[q]) : sends[q][k].slot # e.slot
      BY <2>1, <1>4 DEF OwnedInv
    <3>2. m.slot # e.slot
      <4>1. 1 \in 1 .. Len(sends[q])
        BY <1>6
      <4> QED  BY <4>1, <3>1, <1>6
    <3> QED  BY <3>1, <3>2, <1>8, <1>9, <1>19, <1>21
  <2> QED  BY <2>1, <1>13, <1>15, <1>16 DEF OwnedInv, LiveRecord, QueueOf, WorkerSlot
<1>25. ProgressInv(q)'
  <2>1. \A i : Progress(q, i) => Progress(q, i)'
    BY <1>13, <1>14, <1>15 DEF Progress
  <2> QED  BY <2>1, <1>4, <1>16, SMTT(30) DEF ProgressInv
<1>26. RequestInv(q)'
  BY <1>1, <1>4, <1>15, <1>16 DEF RequestInv
<1>27. QueueInv(q)'
  BY <1>18, <1>20, <1>23, <1>24, <1>25, <1>26 DEF QueueInv
<1>28. completionBuf' = completionBuf /\ namespace' = namespace /\ dataBuf' = dataBuf
  BY <1>2
<1>29. TypeOK'
  BY <1>0, <1>3, <1>9, <1>10, <1>11, <1>12, <1>15, <1>28, StateFacts, StateFactsNext DEF ServerStep, clientVars
<1> QED  BY <1>3, <1>9, <1>10, <1>11, <1>12, <1>15, <1>27, <1>28, <1>29, OwnQueue

\* Two buffers of a worker are for two slots.
LEMMA WorkerSlotInjective ==
  ASSUME NEW q \in Queues, NEW i \in Nat, NEW j \in Nat, WorkerSlot(q, i) = WorkerSlot(q, j)
  PROVE  i = j
<1>1. Qps \in Nat \ {0} /\ q \in Int
  BY WireAssumption DEF Queues
<1>2. PICK a \in Int, b \in Int, n \in Nat \ {0} : a = i - 1 /\ b = j - 1 /\ n = Qps
  BY <1>1
<1>3. q + a * n = q + b * n
  BY <1>2 DEF WorkerSlot
<1>4. a * n \in Int /\ b * n \in Int
  OBVIOUS
<1>5. a * n = b * n
  BY <1>1, <1>3, <1>4
<1>6. a = b
  BY <1>5
<1> QED  BY <1>2, <1>6

\* What an outstanding request tells about the worker and the command.
LEMMA RequestFacts ==
  ASSUME IInv, NEW q \in Queues, NEW kind \in {"descriptor", "payload", "completion"}, NEW i,
         <<kind, i>> \in requests[q], NEW r, r = worker[q].pending[i], NEW c, c = r.command
  PROVE  /\ i \in 1 .. Received(q) /\ i \in Owned(q) /\ i \in Buffers /\ r \in PendingCommands
         /\ LiveRecord(q, c) /\ c.slot = WorkerSlot(q, i)
         /\ \A b \in Filled(q) : recvBuf[q][b].slot # c.slot
         /\ \A k \in 1 .. Len(sends[q]) : sends[q][k].slot # c.slot
         /\ Progress(q, i)
         /\ \A j \in Owned(q) : j # i => worker[q].pending[j].command.slot # c.slot
<1>1. /\ OwnedInv(q) /\ ProgressInv(q) /\ RequestInv(q) /\ Received(q) \in Nat
      /\ worker[q].pending \in Seq(PendingCommands) /\ requests[q] \subseteq Requests
  BY WorkerFacts
<1>2. i \in 1 .. Received(q) /\ i \in Buffers
  <2>1. <<kind, i>> \in Requests
    BY <1>1
  <2> QED  BY <2>1, <1>1 DEF RequestInv, Requests
<1>3. i \in Owned(q)
  BY <1>2 DEF Owned
<1>4. r \in PendingCommands
  <2>1. PICK f \in Seq(PendingCommands) : f = worker[q].pending
    BY <1>1
  <2>2. i \in 1 .. Len(f)
    BY <2>1, <1>2 DEF Received
  <2>3. f[i] \in PendingCommands
    BY <2>2
  <2> QED  BY <2>1, <2>3
<1>5. /\ LiveRecord(q, c) /\ c.slot = WorkerSlot(q, i)
      /\ \A b \in Filled(q) : recvBuf[q][b].slot # c.slot
      /\ \A k \in 1 .. Len(sends[q]) : sends[q][k].slot # c.slot
  BY <1>1, <1>3 DEF OwnedInv
<1>6. ASSUME NEW j \in Owned(q), j # i PROVE worker[q].pending[j].command.slot # c.slot
  <2>1. worker[q].pending[j].command.slot = WorkerSlot(q, j) /\ j \in Nat /\ i \in Nat
    BY <1>1, <1>2 DEF OwnedInv, Owned
  <2> QED  BY <2>1, <1>5, <1>6, WorkerSlotInjective
<1>7. Progress(q, i)
  BY <1>1, <1>3 DEF ProgressInv
<1> QED  BY <1>2, <1>3, <1>4, <1>5, <1>6, <1>7

\* The request that finished is outstanding no more.
LEMMA RequestDone ==
  ASSUME IInv, NEW q \in Queues, NEW kind, NEW i, requests' = [requests EXCEPT ![q] = @ \ {<<kind, i>>}]
  PROVE  /\ requests' \in [Queues -> SUBSET Requests] /\ requests'[q] = requests[q] \ {<<kind, i>>}
         /\ \A r \in Queues \ {q} : requests'[r] = requests[r]
<1>1. requests \in [Queues -> SUBSET Requests]
  BY StateFacts DEF IInv
<1> QED  BY <1>1

\* A descriptor read brings the entries.
LEMMA DescriptorIInv ==
  ASSUME IInv, NEW q \in Queues, NEW i, FinishRequest(q, "descriptor", i), UNCHANGED clientVars
  PROVE  IInv'
<1>1. PICK r, c, e : r = worker[q].pending[i] /\ c = r.command /\ e = entryBuf[c.slot]
  OBVIOUS
<1>2. PICK x : x = SubSeq(e, 1, c.offset)
  OBVIOUS
<1>3. /\ <<"descriptor", i>> \in requests[q]
      /\ requests' = [requests EXCEPT ![q] = @ \ {<<"descriptor", i>>}]
      /\ worker' = [worker EXCEPT ![q].pending[i].entries = x]
      /\ namespace' = namespace /\ dataBuf' = dataBuf /\ completionBuf' = completionBuf
      /\ receives' = receives /\ recvBuf' = recvBuf /\ arrived' = arrived /\ firstError' = firstError
      /\ commandBuf' = commandBuf /\ entryBuf' = entryBuf /\ sends' = sends
  BY <1>1, <1>2 DEF FinishRequest
<1>4. ServerStep /\ UNCHANGED wireVars
  BY <1>3 DEF ServerStep, wireVars
<1>5. /\ i \in 1 .. Received(q) /\ i \in Owned(q) /\ r \in PendingCommands
      /\ LiveRecord(q, c) /\ Progress(q, i)
  BY <1>1, <1>3, RequestFacts, SMTT(30)
<1>6. r.descriptor /\ IsBatch(c.op) /\ c.id \notin Effects
      /\ <<"payload", i>> \notin requests[q] /\ <<"completion", i>> \notin requests[q]
  BY <1>1, <1>3, <1>5, SMTT(30) DEF Progress
<1>7. x = e /\ e \in Seq(BatchEntries)
  BY <1>1, <1>2, <1>5, <1>6, FetchedJudged
<1>8. PICK p : p = [r EXCEPT !.entries = x]
  OBVIOUS
<1>9. p \in PendingCommands /\ p.command = c /\ p.descriptor /\ p.entries = e
  <2>1. PICK t \in [command : CommandRecords, status : Statuses, bytes : Nat,
                    descriptor : BOOLEAN, entries : Seq(BatchEntries)] : t = r
    BY <1>5 DEF PendingCommands
  <2>2. p = [t EXCEPT !.entries = x]
    BY <2>1, <1>8
  <2>3. p \in [command : CommandRecords, status : Statuses, bytes : Nat,
               descriptor : BOOLEAN, entries : Seq(BatchEntries)]
    BY <2>2, <1>7
  <2>4. p.command = t.command /\ p.descriptor = t.descriptor /\ p.entries = x
    BY <2>2
  <2> QED  BY <2>1, <2>3, <2>4, <1>1, <1>6, <1>7 DEF PendingCommands
<1>10. EditsCommand(q, i, p)
  BY <1>1, <1>3, <1>8 DEF EditsCommand
<1>11. /\ requests' \in [Queues -> SUBSET Requests] /\ requests'[q] = requests[q] \ {<<"descriptor", i>>}
       /\ \A t \in Queues \ {q} : requests'[t] = requests[t]
  BY <1>3, RequestDone
<1>12. \A kind, j : j # i => (<<kind, j>> \in requests'[q] <=> <<kind, j>> \in requests[q])
  BY <1>11
<1>13. worker'[q].phase = worker[q].phase /\ Received(q)' = Received(q) /\ worker'[q].pending[i] = p
  <2>1. p \in PendingCommands /\ EditsCommand(q, i, p)
    BY <1>9, <1>10
  <2>2. i \in 1 .. Received(q)
    BY <1>5
  <2>3. /\ worker'[q].phase = worker[q].phase /\ Received(q)' = Received(q)
        /\ worker'[q].pending[i] = p
    BY <2>1, <2>2, CommandEdit
  <2> QED  BY <2>3
<1>14. Effects' = Effects /\ entryBuf' = entryBuf
  BY <1>3, EffectsKept
<1>15. Progress(q, i)'
  <2>1. <<"payload", i>> \notin requests'[q] /\ <<"completion", i>> \notin requests'[q]
    BY <1>6, <1>11
  <2> QED  BY <2>1, <1>1, <1>6, <1>9, <1>13, <1>14 DEF Progress
<1>16. RequestInv(q)'
  <2>1. RequestInv(q)
    BY WorkerFacts
  <2>2. requests'[q] \subseteq requests[q]
    BY <1>11
  <2> QED  BY <2>1, <2>2, <1>13 DEF RequestInv
<1>17. p.command = worker[q].pending[i].command /\ p \in PendingCommands
  BY <1>1, <1>9
<1> QED  BY <1>3, <1>4, <1>5, <1>10, <1>11, <1>12, <1>15, <1>16, <1>17, OneCommand

\* The command takes effect: the namespace or the client's data have it now.
LEMMA EffectOf ==
  ASSUME TypeOK, NEW i \in Ids,
         \/ namespace' = Append(namespace, i) /\ dataBuf' = dataBuf
         \/ dataBuf' = [dataBuf EXCEPT ![i] = Len(namespace)] /\ namespace' = namespace
  PROVE  /\ Effects' = Effects \cup {i}
         /\ namespace' \in Seq(Ids) /\ dataBuf' \in [Ids -> Nat \cup {NoData}]
<1>1. namespace \in Seq(Ids) /\ dataBuf \in [Ids -> Nat \cup {NoData}]
  BY StateFacts
<1>2. PICK n \in Nat : n = Len(namespace)
  BY <1>1
<1>3. CASE namespace' = Append(namespace, i) /\ dataBuf' = dataBuf
  <2>1. /\ namespace' \in Seq(Ids) /\ Len(namespace') = n + 1 /\ namespace'[n + 1] = i
        /\ \A k \in 1 .. n : namespace'[k] = namespace[k]
    BY <1>1, <1>2, <1>3
  <2>2. \A j : (\E k \in 1 .. Len(namespace') : namespace'[k] = j)
                 <=> (\E k \in 1 .. Len(namespace) : namespace[k] = j) \/ j = i
    <3>1. \A k \in 1 .. n + 1 : k \in 1 .. n \/ k = n + 1
      BY <1>2
    <3>2. n + 1 \in 1 .. n + 1 /\ \A k \in 1 .. n : k \in 1 .. n + 1
      BY <1>2
    <3> QED  BY <3>1, <3>2, <2>1, <1>2
  <2>3. \A j \in Ids : TookEffect(j)' <=> TookEffect(j) \/ j = i
    BY <2>2, <1>3 DEF TookEffect
  <2> QED  BY <2>1, <2>3, <1>1, <1>3 DEF Effects
<1>4. CASE dataBuf' = [dataBuf EXCEPT ![i] = Len(namespace)] /\ namespace' = namespace
  <2>1. /\ dataBuf' \in [Ids -> Nat \cup {NoData}] /\ dataBuf'[i] = n
        /\ \A j \in Ids : j # i => dataBuf'[j] = dataBuf[j]
    BY <1>1, <1>2, <1>4
  <2>2. n # NoData
    BY <1>2 DEF NoData
  <2>3. \A j \in Ids : TookEffect(j)' <=> TookEffect(j) \/ j = i
    BY <2>1, <2>2, <1>4 DEF TookEffect
  <2> QED  BY <2>1, <2>3, <1>1, <1>4 DEF Effects
<1> QED  BY <1>3, <1>4

\* A payload moves.
LEMMA PayloadIInv ==
  ASSUME IInv, NEW q \in Queues, NEW i, FinishRequest(q, "payload", i), UNCHANGED clientVars
  PROVE  /\ IInv'
         /\ \E j \in Ids : /\ j \notin Effects /\ Effects' = Effects \cup {j} /\ answers[j] = "none"
                           /\ ~Refused(j)
                           /\ \/ asked[j] = "write" /\ namespace' = Append(namespace, j) /\ dataBuf' = dataBuf
                              \/ /\ asked[j] = "read" /\ dataBuf' = [dataBuf EXCEPT ![j] = Len(namespace)]
                                 /\ namespace' = namespace
<1>0. TypeOK /\ SlotInv /\ UnaskedInv /\ OutcomeInv
  BY DEF IInv
<1>1. PICK r, c : r = worker[q].pending[i] /\ c = r.command
  OBVIOUS
<1>2. /\ <<"payload", i>> \in requests[q]
      /\ requests' = [requests EXCEPT ![q] = @ \ {<<"payload", i>>}]
      /\ worker' = worker
      /\ namespace' = IF ~IsRead(c.op) THEN Append(namespace, c.id) ELSE namespace
      /\ dataBuf' = IF IsRead(c.op) THEN [dataBuf EXCEPT ![c.id] = Len(namespace)] ELSE dataBuf
      /\ completionBuf' = completionBuf
      /\ receives' = receives /\ recvBuf' = recvBuf /\ arrived' = arrived /\ firstError' = firstError
      /\ commandBuf' = commandBuf /\ entryBuf' = entryBuf /\ sends' = sends
  BY <1>1 DEF FinishRequest
<1>3. ServerStep
  BY <1>2 DEF ServerStep
<1>4. /\ i \in Owned(q) /\ LiveRecord(q, c) /\ Progress(q, i)
      /\ \A b \in Filled(q) : recvBuf[q][b].slot # c.slot
      /\ \A k \in 1 .. Len(sends[q]) : sends[q][k].slot # c.slot
      /\ \A j \in Owned(q) : j # i => worker[q].pending[j].command.slot # c.slot
  BY <1>1, <1>2, RequestFacts, SMTT(30)
<1>5. /\ ~r.descriptor /\ r.status = "Success" /\ <<"descriptor", i>> \notin requests[q]
      /\ asked[c.id] = (IF IsRead(c.op) THEN "read" ELSE "write")
      /\ slotState[c.slot].inFlight => r.bytes = slotState[c.slot].expected
      /\ c.id \notin Effects
  BY <1>1, <1>2, <1>4 DEF Progress
<1>6. /\ c.slot \in LiveSlots /\ c.slot \in Slots /\ c.id \in Ids /\ c.id = slotState[c.slot].id
      /\ answers[c.id] = "none" /\ asked[c.id] # "none"
      /\ completionBuf[c.slot] = PendingCompletion(c.id) /\ QueueOf(c.slot) = q
      /\ slotState[c.slot].status = "SUCCESS"
  BY <1>4, LiveRecordFacts DEF LiveRecord
<1>7. \/ asked[c.id] = "write" /\ namespace' = Append(namespace, c.id) /\ dataBuf' = dataBuf
      \/ /\ asked[c.id] = "read" /\ dataBuf' = [dataBuf EXCEPT ![c.id] = Len(namespace)]
         /\ namespace' = namespace
  <2>1. CASE IsRead(c.op)
    BY <2>1, <1>2, <1>5
  <2>2. CASE ~IsRead(c.op)
    BY <2>2, <1>2, <1>5
  <2> QED  BY <2>1, <2>2
<1>8. /\ Effects' = Effects \cup {c.id}
      /\ namespace' \in Seq(Ids) /\ dataBuf' \in [Ids -> Nat \cup {NoData}]
  BY <1>0, <1>6, <1>7, EffectOf
<1>9. slotState' = slotState /\ asked' = asked /\ answers' = answers
  BY <1>3 DEF ServerStep, clientVars
<1>10. ASSUME NEW t \in Slots, t # c.slot
       PROVE  slotState[t].id # c.id
  <2>1. c.id # NoId
    BY <1>6 DEF Ids, NoId
  <2> QED  BY <2>1, <1>0, <1>6, <1>10 DEF SlotInv
<1>11. \A t \in LiveSlots : t # c.slot =>
         ((slotState[t].id \in Effects') <=> (slotState[t].id \in Effects))
  <2>1. \A t \in LiveSlots : t \in Slots
    BY DEF LiveSlots
  <2> QED  BY <2>1, <1>8, <1>10
<1>12. LiveSlots' = LiveSlots
  <2>1. \A s, op, offset : Submitted(s, op, offset)' <=> Submitted(s, op, offset)
    BY <1>2, <1>9 DEF Submitted
  <2> QED  BY <2>1, <1>2, <1>9 DEF LiveSlots, PendingCompletion
<1>13. /\ requests' \in [Queues -> SUBSET Requests] /\ requests'[q] = requests[q] \ {<<"payload", i>>}
       /\ \A t \in Queues \ {q} : requests'[t] = requests[t]
  BY <1>2, RequestDone
<1>14. SlotInv'
  BY <1>0, <1>3 DEF SlotInv, ServerStep, clientVars
<1>15. UnaskedInv'
  BY <1>0, <1>6, <1>8, <1>9 DEF UnaskedInv
<1>16. OutcomeInv'
  <2>1. ASSUME NEW t \in Slots, Completed(t) PROVE Completed(t)'
    <3>1. t # c.slot
      BY <2>1, <1>6 DEF Completed, PendingCompletion
    <3>2. slotState[t].id # c.id
      BY <3>1, <1>10
    <3> QED  BY <3>2, <2>1, <1>2, <1>8, <1>9 DEF Completed
  <2>2. ASSUME NEW t \in Slots, Outcome(t) PROVE Outcome(t)'
    <3>1. CASE slotState[t].status = "SUCCESS"
      BY <3>1, <2>1, <2>2, <1>2, <1>9 DEF Outcome, PendingCompletion
    <3>2. CASE slotState[t].status # "SUCCESS"
      <4>1. slotState[t].id # c.id
        BY <3>2, <1>6, <1>10
      <4> QED  BY <4>1, <3>2, <2>2, <1>2, <1>8, <1>9 DEF Outcome, PendingCompletion
    <3> QED  BY <3>1, <3>2
  <2> QED  BY <2>2, <1>0, <1>9 DEF OutcomeInv
<1>17. ASSUME NEW t \in Queues, t # q PROVE QueueInv(t)'
  <2>1. \A s \in LiveSlots : QueueOf(s) # q =>
          /\ completionBuf'[s] = completionBuf[s]
          /\ (slotState[s].id \in Effects') <=> (slotState[s].id \in Effects)
    BY <1>2, <1>6, <1>11
  <2>2. /\ sends'[t] = sends[t] /\ worker'[t] = worker[t] /\ receives'[t] = receives[t]
        /\ recvBuf'[t] = recvBuf[t] /\ arrived'[t] = arrived[t] /\ requests'[t] = requests[t]
    BY <1>2, <1>13, <1>17
  <2> QED  BY <2>1, <2>2, <1>3, <1>17, OtherQueue
<1>18. /\ ReceiveInv(q) /\ SendInv(q) /\ FilledInv(q) /\ OwnedInv(q) /\ ProgressInv(q) /\ RequestInv(q)
  BY WorkerFacts
<1>19. /\ worker' = worker /\ receives' = receives /\ recvBuf' = recvBuf /\ arrived' = arrived
       /\ commandBuf' = commandBuf /\ entryBuf' = entryBuf /\ sends' = sends /\ firstError' = firstError
       /\ completionBuf' = completionBuf
  BY <1>2
<1>20. /\ Received(q)' = Received(q) /\ Window(q)' = Window(q) /\ Filled(q)' = Filled(q)
       /\ Owned(q)' \subseteq Owned(q)
  BY <1>13, <1>19 DEF Received, Window, Filled, Owned
<1>21. ReceiveInv(q)'
  BY <1>18, <1>19, <1>20 DEF ReceiveInv
<1>22. SendInv(q)'
  <2>1. ASSUME NEW k \in 1 .. Len(sends[q]) PROVE sends[q][k].id \notin Effects'
    <3>1. /\ sends[q][k].slot \in LiveSlots /\ sends[q][k].slot # c.slot
          /\ sends[q][k].id = slotState[sends[q][k].slot].id /\ sends[q][k].id \notin Effects
      BY <1>4, <1>18 DEF SendInv
    <3> QED  BY <3>1, <1>11
  <2> QED  BY <2>1, <1>9, <1>12, <1>18, <1>19 DEF SendInv, QueueOf
<1>23. FilledInv(q)'
  <2>1. ASSUME NEW b \in Filled(q), NEW e, e = recvBuf[q][b] PROVE e.id \notin Effects'
    <3>1. LiveRecord(q, e) /\ e.id \notin Effects /\ e.slot # c.slot
      BY <2>1, <1>4, <1>18 DEF FilledInv
    <3>2. e.slot \in LiveSlots /\ e.id = slotState[e.slot].id
      BY <3>1, LiveRecordFacts
    <3> QED  BY <3>1, <3>2, <1>11
  <2> QED  BY <2>1, <1>12, <1>18, <1>19, <1>20 DEF FilledInv, LiveRecord, QueueOf
<1>24. OwnedInv(q)'
  BY <1>12, <1>18, <1>19, <1>20 DEF OwnedInv, LiveRecord, QueueOf, WorkerSlot
<1>25. ProgressInv(q)'
  <2>1. ASSUME NEW j \in Owned(q), j # i PROVE Progress(q, j)'
    <3>1. PICK p : p = worker[q].pending[j] /\ p = worker'[q].pending[j]
      BY <1>19
    <3>2. LiveRecord(q, p.command) /\ p.command.slot # c.slot
      BY <3>1, <2>1, <1>4, <1>18 DEF OwnedInv
    <3>3. p.command.slot \in LiveSlots /\ p.command.id = slotState[p.command.slot].id
      BY <3>2, LiveRecordFacts
    <3>4. (p.command.id \in Effects') <=> (p.command.id \in Effects)
      BY <3>2, <3>3, <1>11
    <3>5. /\ <<"descriptor", j>> \in requests'[q] <=> <<"descriptor", j>> \in requests[q]
          /\ <<"payload", j>> \in requests'[q] <=> <<"payload", j>> \in requests[q]
          /\ <<"completion", j>> \in requests'[q] <=> <<"completion", j>> \in requests[q]
      BY <2>1, <1>13
    <3>6. Progress(q, j)
      BY <1>18, SMTT(30) DEF ProgressInv
    <3> QED  BY <3>1, <3>4, <3>5, <3>6, <1>9, <1>19 DEF Progress
  <2>2. Progress(q, i)'
    <3>1. r = worker'[q].pending[i]
      BY <1>1, <1>19
    <3>2. <<"payload", i>> \notin requests'[q] /\ <<"descriptor", i>> \notin requests'[q] /\ c.id \in Effects'
      BY <1>5, <1>8, <1>13
    <3> QED  BY <3>1, <3>2, <1>1, <1>5, <1>9 DEF Progress
  <2> QED  BY <2>1, <2>2, <1>20, SMTT(30) DEF ProgressInv
<1>26. RequestInv(q)'
  <2>1. requests'[q] \subseteq requests[q]
    BY <1>13
  <2> QED  BY <2>1, <1>18, <1>19, <1>20 DEF RequestInv
<1>27. QueueInv(q)'
  BY <1>21, <1>22, <1>23, <1>24, <1>25, <1>26 DEF QueueInv
<1>28. TypeOK'
  BY <1>0, <1>3, <1>8, <1>13, <1>19, StateFacts, StateFactsNext DEF ServerStep, clientVars
<1>29. IInv'
  BY <1>14, <1>15, <1>16, <1>17, <1>27, <1>28 DEF IInv
<1>30. ~Refused(c.id)
  BY <1>6, <1>10 DEF Refused
<1> QED  BY <1>5, <1>6, <1>7, <1>8, <1>29, <1>30

\* A completion lands.
LEMMA CompletionIInv ==
  ASSUME IInv, NEW q \in Queues, NEW i, FinishRequest(q, "completion", i), UNCHANGED clientVars
  PROVE  IInv'
<1>0. TypeOK /\ SlotInv /\ UnaskedInv /\ OutcomeInv
  BY DEF IInv
<1>1. PICK r, c, z : r = worker[q].pending[i] /\ c = r.command /\ z = CompletionOf(r)
  OBVIOUS
<1>2. /\ <<"completion", i>> \in requests[q]
      /\ requests' = [requests EXCEPT ![q] = @ \ {<<"completion", i>>}]
      /\ worker' = worker /\ namespace' = namespace /\ dataBuf' = dataBuf
      /\ completionBuf' = [completionBuf EXCEPT ![WorkerSlot(q, i)] = z]
      /\ receives' = receives /\ recvBuf' = recvBuf /\ arrived' = arrived /\ firstError' = firstError
      /\ commandBuf' = commandBuf /\ entryBuf' = entryBuf /\ sends' = sends
  BY <1>1 DEF FinishRequest
<1>3. ServerStep
  BY <1>2 DEF ServerStep
<1>4. /\ i \in Owned(q) /\ i \in Buffers /\ LiveRecord(q, c) /\ Progress(q, i) /\ r \in PendingCommands
      /\ c.slot = WorkerSlot(q, i)
      /\ \A b \in Filled(q) : recvBuf[q][b].slot # c.slot
      /\ \A k \in 1 .. Len(sends[q]) : sends[q][k].slot # c.slot
      /\ \A j \in Owned(q) : j # i => worker[q].pending[j].command.slot # c.slot
  BY <1>1, <1>2, RequestFacts
<1>5. /\ ReceiveInv(q) /\ SendInv(q) /\ FilledInv(q) /\ OwnedInv(q) /\ ProgressInv(q) /\ RequestInv(q)
  BY WorkerFacts
<1>6. worker[q].phase # "serve" /\ <<"payload", i>> \notin requests[q]
  BY <1>2, <1>4, <1>5, SMTT(30) DEF RequestInv
<1>7. /\ ~r.descriptor /\ <<"descriptor", i>> \notin requests[q]
      /\ r.status = "Success" =>
           /\ slotState[c.slot].inFlight => r.bytes = slotState[c.slot].expected
           /\ c.id \in Effects
      /\ r.status # "Success" => asked[c.id] = "bad" /\ c.id \notin Effects
  BY <1>1, <1>2, <1>4, <1>6 DEF Progress
<1>8. PICK s \in Slots : s = c.slot
  BY <1>4, LiveRecordFacts
<1>9. /\ s \in LiveSlots /\ c.id \in Ids /\ c.id = slotState[s].id /\ asked[c.id] # "none"
      /\ QueueOf(s) = q /\ slotState[s].status = "SUCCESS"
  BY <1>4, <1>8, LiveRecordFacts DEF LiveRecord
<1>10. z \in Completions /\ z.id = c.id /\ z.state = "Complete" /\ z.status = r.status /\ z.bytes = r.bytes
  <2>1. r.status \in Statuses /\ r.bytes \in Nat /\ c.id \in Nat
    BY <1>4, <1>9 DEF PendingCommands, Ids
  <2>2. z = [id |-> c.id, state |-> "Complete", status |-> r.status, bytes |-> r.bytes]
    BY <1>1 DEF CompletionOf
  <2> QED  BY <2>1, <2>2 DEF Completions
<1>11. /\ completionBuf' \in [Slots -> Completions] /\ completionBuf'[s] = z
       /\ \A t \in Slots : t # s => completionBuf'[t] = completionBuf[t]
  <2>1. completionBuf \in [Slots -> Completions] /\ completionBuf' = [completionBuf EXCEPT ![s] = z]
    BY <1>0, <1>2, <1>4, <1>8, StateFacts
  <2> QED  BY <2>1, <1>10
<1>12. Effects' = Effects
  BY <1>2, EffectsKept
<1>13. slotState' = slotState /\ asked' = asked /\ answers' = answers
  BY <1>3 DEF ServerStep, clientVars
<1>14. \A t \in LiveSlots : t # s => t \in LiveSlots' /\ completionBuf'[t] = completionBuf[t]
  <2>1. ASSUME NEW t \in LiveSlots, t # s PROVE t \in LiveSlots' /\ completionBuf'[t] = completionBuf[t]
    <3>1. t \in Slots
      BY DEF LiveSlots
    <3>2. completionBuf'[t] = completionBuf[t]
      BY <3>1, <2>1, <1>11
    <3> QED  BY <3>2, <1>2, <1>13, LiveKept
  <2> QED  BY <2>1
<1>15. /\ requests' \in [Queues -> SUBSET Requests] /\ requests'[q] = requests[q] \ {<<"completion", i>>}
       /\ \A t \in Queues \ {q} : requests'[t] = requests[t]
  BY <1>2, RequestDone
<1>16. SlotInv' /\ UnaskedInv'
  BY <1>0, <1>3, <1>12 DEF SlotInv, UnaskedInv, ServerStep, clientVars
<1>17. OutcomeInv'
  <2>1. slotState[s].inFlight => Completed(s)'
    <3>1. /\ completionBuf'[s].id = slotState'[s].id /\ completionBuf'[s].state = "Complete"
          /\ completionBuf'[s].status = r.status /\ completionBuf'[s].bytes = r.bytes
      BY <1>9, <1>10, <1>11, <1>13
    <3>2. /\ slotState[s].inFlight /\ r.status = "Success" => r.bytes = slotState[s].expected
          /\ r.status = "Success" => slotState[s].id \in Effects
          /\ r.status # "Success" => asked[slotState[s].id] = "bad" /\ slotState[s].id \notin Effects
          /\ asked[slotState[s].id] # "none"
      BY <1>7, <1>8, <1>9
    <3> QED  BY <3>1, <3>2, <1>12, <1>13 DEF Completed
  <2>2. ASSUME NEW t \in Slots, t # s, slotState[t].inFlight
        PROVE  Outcome(t)'
    <3>1. completionBuf'[t] = completionBuf[t]
      BY <2>2, <1>11
    <3>2. Outcome(t)
      BY <2>2, <1>0 DEF OutcomeInv
    <3> QED  BY <3>1, <3>2, <1>12, <1>13 DEF Outcome, Completed, PendingCompletion
  <2>3. slotState[s].inFlight => Outcome(s)'
    BY <2>1, <1>9, <1>13 DEF Outcome
  <2> QED  BY <2>2, <2>3, <1>13 DEF OutcomeInv
<1>18. ASSUME NEW t \in Queues, t # q PROVE QueueInv(t)'
  <2>1. \A u \in LiveSlots : QueueOf(u) # q =>
          /\ completionBuf'[u] = completionBuf[u]
          /\ (slotState[u].id \in Effects') <=> (slotState[u].id \in Effects)
    BY <1>9, <1>12, <1>14
  <2>2. /\ sends'[t] = sends[t] /\ worker'[t] = worker[t] /\ receives'[t] = receives[t]
        /\ recvBuf'[t] = recvBuf[t] /\ arrived'[t] = arrived[t] /\ requests'[t] = requests[t]
    BY <1>2, <1>15, <1>18
  <2> QED  BY <2>1, <2>2, <1>3, <1>18, OtherQueue
<1>19. /\ worker' = worker /\ receives' = receives /\ recvBuf' = recvBuf /\ arrived' = arrived
       /\ commandBuf' = commandBuf /\ entryBuf' = entryBuf /\ sends' = sends /\ firstError' = firstError
       /\ namespace' = namespace /\ dataBuf' = dataBuf
  BY <1>2
<1>20. Received(q)' = Received(q) /\ Window(q)' = Window(q) /\ Filled(q)' = {}
  BY <1>6, <1>19 DEF Received, Window, Filled
<1>21. Owned(q)' \subseteq Owned(q) \ {i}
  <2>1. ASSUME NEW j \in Owned(q)' PROVE j \in Owned(q) /\ j # i
    <3>1. PICK kind \in {"descriptor", "payload", "completion"} : <<kind, j>> \in requests'[q]
      BY <1>6, <1>19 DEF Owned
    <3>2. j \in 1 .. Received(q)
      BY <1>20 DEF Owned
    <3>3. <<kind, j>> \in requests[q] /\ <<kind, j>> # <<"completion", i>>
      BY <3>1, <1>15
    <3>4. j # i
      BY <3>1, <3>3, <1>6, <1>7
    <3> QED  BY <3>1, <3>2, <3>3, <3>4 DEF Owned
  <2> QED  BY <2>1
<1>22. ReceiveInv(q)'
  BY <1>5, <1>19, <1>20 DEF ReceiveInv
<1>23. SendInv(q)'
  <2>1. ASSUME NEW k \in 1 .. Len(sends[q])
        PROVE  /\ sends[q][k].slot \in LiveSlots' /\ QueueOf(sends[q][k].slot) = q
               /\ sends[q][k].id = slotState[sends[q][k].slot].id /\ sends[q][k].id \notin Effects
    BY <1>4, <1>5, <1>8, <1>14 DEF SendInv
  <2> QED  BY <2>1, <1>5, <1>12, <1>13, <1>19 DEF SendInv, QueueOf
<1>24. FilledInv(q)'
  BY <1>20 DEF FilledInv
<1>25. OwnedInv(q)'
  <2>1. ASSUME NEW j \in Owned(q)', NEW e, e = worker[q].pending[j].command
        PROVE  /\ e.slot \in LiveSlots' /\ QueueOf(e.slot) = q /\ e = commandBuf[e.slot]
               /\ e.slot = WorkerSlot(q, j)
               /\ \A k \in 1 .. Len(sends[q]) : sends[q][k].slot # e.slot
    <3>1. j \in Owned(q) /\ j # i
      BY <1>21
    <3>2. /\ LiveRecord(q, e) /\ e.slot = WorkerSlot(q, j) /\ e.slot # s
          /\ \A k \in 1 .. Len(sends[q]) : sends[q][k].slot # e.slot
      BY <3>1, <2>1, <1>4, <1>5, <1>8 DEF OwnedInv
    <3> QED  BY <3>2, <1>14 DEF LiveRecord
  <2> QED  BY <2>1, <1>19, <1>20 DEF OwnedInv, LiveRecord, QueueOf, WorkerSlot
<1>26. ProgressInv(q)'
  <2>1. ASSUME NEW j \in Owned(q), j # i PROVE Progress(q, j)'
    <3>1. /\ <<"descriptor", j>> \in requests'[q] <=> <<"descriptor", j>> \in requests[q]
          /\ <<"payload", j>> \in requests'[q] <=> <<"payload", j>> \in requests[q]
          /\ <<"completion", j>> \in requests'[q] <=> <<"completion", j>> \in requests[q]
      BY <2>1, <1>15
    <3>2. Progress(q, j)
      BY <1>5 DEF ProgressInv
    <3>3. PICK p : p = worker[q].pending[j] /\ p = worker'[q].pending[j]
      BY <1>19
    <3> QED  BY <3>1, <3>2, <3>3, <1>12, <1>13, <1>19 DEF Progress
  <2> QED  BY <2>1, <1>21, SMTT(30) DEF ProgressInv
<1>27. RequestInv(q)'
  <2>1. requests'[q] \subseteq requests[q]
    BY <1>15
  <2> QED  BY <2>1, <1>5, <1>19, <1>20 DEF RequestInv
<1>28. QueueInv(q)'
  BY <1>22, <1>23, <1>24, <1>25, <1>26, <1>27 DEF QueueInv
<1>29. TypeOK'
  BY <1>0, <1>3, <1>11, <1>15, <1>19, StateFacts, StateFactsNext DEF ServerStep, clientVars
<1> QED  BY <1>16, <1>17, <1>18, <1>28, <1>29 DEF IInv

\* A step of the server or the network.
LEMMA ServerIInv ==
  ASSUME IInv, NEW q \in Queues, Server(q) PROVE IInv'
<1>1. UNCHANGED clientVars
  BY DEF Server
<1>2. CASE WorkerStep(q)
  BY <1>1, <1>2, StartIInv, ReceiveIInv, TakeIInv, PostIInv, RetireIInv DEF WorkerStep
<1>3. CASE WorkerFails(q)
  BY <1>1, <1>3, WorkerFailsIInv
<1>4. CASE DeliverSend(q)
  BY <1>1, <1>4, DeliverIInv
<1>5. ASSUME NEW r \in Requests, FinishRequest(q, r[1], r[2]) PROVE IInv'
  <2>1. PICK kind \in {"descriptor", "payload", "completion"}, i \in Buffers : FinishRequest(q, kind, i)
    BY <1>5 DEF Requests
  <2>2. CASE kind = "descriptor"
    BY <2>1, <2>2, <1>1, DescriptorIInv
  <2>3. CASE kind = "payload"
    BY <2>1, <2>3, <1>1, PayloadIInv
  <2>4. CASE kind = "completion"
    BY <2>1, <2>4, <1>1, CompletionIInv
  <2> QED  BY <2>2, <2>3, <2>4
<1> QED  BY <1>2, <1>3, <1>4, <1>5 DEF Server, Network

-----------------------------------------------------------------------------
(* The theorems. *)

\* The invariant holds when the session starts.
LEMMA InitIInv ==
  ASSUME Init PROVE IInv
<1>0. WireInit /\ ClientInit /\ ServerInit
  BY DEF Init
<1>1. /\ Qps \in Nat \ {0} /\ SlotsPerQp \in Nat \ {0} /\ CommandCount \in Nat \ {0} /\ WordMax \in Nat
  BY WireAssumption, SerdeAssumption
<1>2. NoRecord \in CommandRecords /\ NoCompletion \in Completions /\ EmptyState \in SlotStates
      /\ EmptyState.id = NoId /\ ~EmptyState.inFlight
  <2>1. NoRecord \in CommandRecords
    BY <1>1 DEF NoRecord, CommandRecords, NoId
  <2>2. NoCompletion \in Completions
    BY DEF NoCompletion, Completions, Statuses, NoId
  <2>3. 1 \in Ids
    BY <1>1 DEF Ids
  <2> QED  BY <2>1, <2>2, <2>3, EmptySlot
<1>3. 0 \in Slots
  <2>1. Qps * SlotsPerQp \in Nat /\ Qps * SlotsPerQp >= 1
    BY <1>1
  <2> QED  BY <2>1 DEF Slots
<1>4. /\ commandBuf = [s \in Slots |-> NoRecord] /\ entryBuf = [s \in Slots |-> <<>>]
      /\ completionBuf = [s \in Slots |-> NoCompletion] /\ sends = [q \in Queues |-> <<>>]
      /\ namespace = <<>> /\ dataBuf = [i \in Ids |-> NoData]
      /\ backend \in Backends /\ allocated = [s \in Slots |-> FALSE] /\ nextSlot = 0 /\ nextId = 1
      /\ slotState = [s \in Slots |-> EmptyState] /\ asked = [i \in Ids |-> "none"]
      /\ answers = [i \in Ids |-> "none"]
      /\ receives = [q \in Queues |-> <<>>] /\ recvBuf = [q \in Queues |-> [b \in Buffers |-> NoRecord]]
      /\ arrived = [q \in Queues |-> 0] /\ requests = [q \in Queues |-> {}] /\ firstError = "none"
  BY <1>0 DEF WireInit, ClientInit, ServerInit
<1>5. ASSUME NEW q \in Queues
      PROVE  /\ worker[q] \in WorkerStates /\ worker[q].phase \in {"start", "done"}
             /\ worker[q].served = 0 /\ worker[q].pending = <<>>
  <2>1. PICK x : x = IF Share(q) = 0 THEN "done" ELSE "start"
    OBVIOUS
  <2>2. worker[q] = [phase |-> x, served |-> 0, pending |-> <<>>]
    BY <2>1, <1>0 DEF ServerInit
  <2>3. x \in Phases /\ x \in {"start", "done"} /\ <<>> \in Seq(PendingCommands)
    BY <2>1 DEF Phases
  <2> QED  BY <2>2, <2>3 DEF WorkerStates
<1>6. worker \in [Queues -> WorkerStates]
  <2>1. DOMAIN worker = Queues /\ worker = [q \in DOMAIN worker |-> worker[q]]
    BY <1>0 DEF ServerInit
  <2> QED  BY <2>1, <1>5
<1>7. TypeOK
  <2>1. /\ commandBuf \in [Slots -> CommandRecords] /\ entryBuf \in [Slots -> Seq(BatchEntries)]
        /\ completionBuf \in [Slots -> Completions] /\ sends \in [Queues -> Seq(SendRecords)]
        /\ namespace \in Seq(Ids) /\ dataBuf \in [Ids -> Nat \cup {NoData}]
    BY <1>2, <1>4
  <2>2. /\ backend \in Backends /\ allocated \in [Slots -> BOOLEAN] /\ nextSlot \in Slots
        /\ nextId \in 1 .. CommandCount + 1 /\ slotState \in [Slots -> SlotStates]
        /\ asked \in [Ids -> {"none", "read", "write", "bad"}]
    BY <1>1, <1>2, <1>3, <1>4
  <2>3. answers \in [Ids -> Answers]
    BY <1>4 DEF Answers
  <2>4. /\ receives \in [Queues -> Seq(Buffers)]
        /\ recvBuf \in [Queues -> [Buffers -> CommandRecords]] /\ arrived \in [Queues -> Nat]
        /\ requests \in [Queues -> SUBSET Requests] /\ firstError \in {"none", "kProtocol", "kVerbs"}
    BY <1>2, <1>4
  <2> QED  BY <2>1, <2>2, <2>3, <2>4, <1>6, StateFacts
<1>8. \A s \in Slots : slotState[s].id = NoId /\ ~slotState[s].inFlight
  BY <1>2, <1>4
<1>9. SlotInv /\ OutcomeInv
  BY <1>4, <1>8 DEF SlotInv, OutcomeInv, NoId
<1>10. UnaskedInv
  <2>1. \A i \in Ids : ~TookEffect(i)
    BY <1>4 DEF TookEffect
  <2> QED  BY <2>1, <1>4 DEF UnaskedInv, Effects
<1>11. ASSUME NEW q \in Queues PROVE QueueInv(q)
  <2>1. Received(q) = 0
    BY <1>5 DEF Received
  <2>2. Owned(q) = {} /\ Filled(q) = {}
    BY <2>1, <1>5 DEF Owned, Filled
  <2>3. ReceiveInv(q)
    <3>1. 0 <= Share(q)
      <4>1. CommandCount \div Qps \in Nat
        BY <1>1
      <4> QED  BY <4>1 DEF Share
    <3> QED  BY <3>1, <1>4, <1>5 DEF ReceiveInv
  <2>4. SendInv(q)
    BY <1>4 DEF SendInv
  <2>5. RequestInv(q)
    BY <1>4 DEF RequestInv
  <2> QED  BY <2>2, <2>3, <2>4, <2>5 DEF QueueInv, FilledInv, OwnedInv, ProgressInv
<1> QED  BY <1>7, <1>9, <1>10, <1>11 DEF IInv

\* An operation of the client that fails before it changed anything.
LEMMA FailureStutters ==
  ASSUME UNCHANGED serverVars,
         \/ \E s \in Slots : StorageWaitFails(s) \/ LaunchFails(s) \/ ReleaseSlotFails(s)
         \/ \E s \in Slots, op \in Operations, offset \in Offsets : RaStorageRefused(s, op, offset)
  PROVE  UNCHANGED vars
<1>1. UNCHANGED clientVars /\ UNCHANGED wireVars
  BY DEF StorageWaitFails, LaunchFails, ReleaseSlotFails, RaStorageRefused
<1> QED  BY <1>1 DEF vars, clientVars, wireVars, serverVars

\* Every step preserves it.
LEMMA NextIInv ==
  ASSUME IInv, [Next]_vars PROVE IInv'
<1>1. CASE UNCHANGED vars
  <2>1. /\ UNCHANGED clientVars /\ commandBuf' = commandBuf /\ entryBuf' = entryBuf
        /\ completionBuf' = completionBuf /\ namespace' = namespace /\ dataBuf' = dataBuf
        /\ sends' = sends /\ worker' = worker /\ receives' = receives /\ recvBuf' = recvBuf
        /\ arrived' = arrived /\ requests' = requests /\ firstError' = firstError
    BY <1>1 DEF vars, clientVars
  <2>2. ServerStep
    BY <2>1 DEF ServerStep
  <2>3. TypeOK'
    BY <2>1, StateFacts, StateFactsNext DEF clientVars, IInv
  <2>4. LiveSlots' = LiveSlots /\ Effects' = Effects /\ SlotInv' /\ UnaskedInv' /\ OutcomeInv'
    BY <2>1, <2>2, MemoryKept
  <2>5. ASSUME NEW q \in Queues PROVE QueueInv(q)'
    <3>1. TypeOK /\ QueueInv(q)
      BY DEF IInv
    <3>2. Undisturbed(q)
      BY <2>1, <2>4 DEF Undisturbed, clientVars
    <3> QED  BY <3>1, <3>2, <2>1, QueueKept
  <2> QED  BY <2>3, <2>4, <2>5 DEF IInv
<1>2. CASE Allocate \/ AllocateFails
  BY <1>2, AllocateIInv, AllocateFailsIInv DEF Allocate, AllocateFails
<1>3. ASSUME NEW s \in Slots, Submit(s) PROVE IInv'
  BY <1>3, SubmitIInv
<1>4. ASSUME NEW s \in Slots, SubmitFails(s) PROVE IInv'
  <2>1. PICK op \in Operations, offset \in Offsets :
          RaStorageRefused(s, op, offset) \/ RaStorageAbandons(s, op, offset) \/ LaunchFails(s)
    BY <1>4 DEF SubmitFails
  <2>2. slotState[s].id # NoId /\ asked[slotState[s].id] = "none" /\ UNCHANGED serverVars
    BY <1>4 DEF SubmitFails
  <2>3. CASE RaStorageRefused(s, op, offset) \/ LaunchFails(s)
    BY <2>2, <2>3, <1>1, FailureStutters
  <2>4. CASE RaStorageAbandons(s, op, offset)
    BY <2>2, <2>4, AbandonIInv
  <2> QED  BY <2>1, <2>3, <2>4
<1>5. ASSUME NEW s \in Slots, Wait(s) \/ Release(s) \/ WaitFails(s) \/ ReleaseFails(s) PROVE IInv'
  <2>1. CASE WaitFails(s) \/ ReleaseFails(s)
    BY <2>1, <1>1, FailureStutters DEF WaitFails, ReleaseFails
  <2> QED  BY <2>1, <1>5, WaitIInv, ReleaseIInv
<1>6. ASSUME NEW q \in Queues, Server(q) PROVE IInv'
  BY <1>6, ServerIInv
<1> QED  BY <1>1, <1>2, <1>3, <1>4, <1>5, <1>6 DEF Next

\* The invariant holds in every state of a session.
THEOREM Invariance == Spec => []IInv
<1>1. Init => IInv
  BY InitIInv
<1>2. IInv /\ [Next]_vars => IInv'
  BY NextIInv
<1> QED  BY <1>1, <1>2, PTL DEF Spec

\* Every variable keeps its type.
THEOREM TypeCorrect == Spec => []TypeOK
<1>1. IInv => TypeOK
  BY DEF IInv
<1> QED  BY <1>1, Invariance, PTL

\* A Send carries the bytes of the command it was posted for: as long as it is on
\* its way nobody hands its slot out again or rewrites its command buffer.
THEOREM SendsKept == Spec => []SendsIntact
<1>1. ASSUME IInv PROVE SendsIntact
  <2>1. ASSUME NEW q \in Queues, NEW k \in 1 .. Len(sends[q])
        PROVE  commandBuf[sends[q][k].slot].id = sends[q][k].id
    <3>1. SendInv(q)
      BY <1>1, WorkerFacts
    <3>2. sends[q][k].slot \in LiveSlots /\ sends[q][k].id = slotState[sends[q][k].slot].id
      BY <3>1 DEF SendInv
    <3> QED  BY <3>2, LiveFacts
  <2> QED  BY <2>1 DEF SendsIntact
<1> QED  BY <1>1, Invariance, PTL

\* With its answer the application has its buffers to itself: no descriptor read
\* and no payload is outstanding for an answered command.
THEOREM NoLateAccess == Spec => []NoAccessAfterAnswer
<1>1. ASSUME IInv PROVE NoAccessAfterAnswer
  <2>1. ASSUME NEW q \in Queues, NEW r \in requests[q], r[1] # "completion"
        PROVE  answers[worker[q].pending[r[2]].command.id] = "none"
    <3>1. requests[q] \subseteq Requests
      BY <1>1, WorkerFacts
    <3>2. PICK kind \in {"descriptor", "payload", "completion"}, i \in Buffers : r = <<kind, i>>
      BY <3>1 DEF Requests
    <3>3. PICK p, c : p = worker[q].pending[i] /\ c = p.command
      OBVIOUS
    <3>4. LiveRecord(q, c)
      BY <3>2, <3>3, <1>1, RequestFacts
    <3>5. answers[c.id] = "none"
      BY <3>4, LiveRecordFacts
    <3> QED  BY <3>2, <3>3, <3>5
  <2> QED  BY <2>1 DEF NoAccessAfterAnswer
<1> QED  BY <1>1, Invariance, PTL

-----------------------------------------------------------------------------
(* The refinement. *)

\* How far every command is.
Life == [i \in Ids |-> LifeOf(i)]

\* A step that changes one slot, in which no Send of the command was or is refused.
LEMMA RefusedKept ==
  ASSUME NEW j, NEW s \in Slots, \A t \in Slots : t # s => slotState'[t] = slotState[t],
         slotState[s].inFlight /\ slotState[s].status # "SUCCESS" => slotState[s].id # j,
         slotState'[s].inFlight /\ slotState'[s].status # "SUCCESS" => slotState'[s].id # j
  PROVE  Refused(j)' <=> Refused(j)
  BY DEF Refused

\* One command gets further.
LEMMA LifeEdit ==
  ASSUME NEW i \in Ids, NEW x, LifeOf(i)' = x,
         \A j \in Ids : j # i => /\ answers'[j] = answers[j] /\ asked'[j] = asked[j]
                                 /\ (j \in Effects') <=> (j \in Effects)
                                 /\ Refused(j)' <=> Refused(j)
  PROVE  Life' = [Life EXCEPT ![i] = x]
<1>1. \A j \in Ids : (j \in Effects <=> TookEffect(j)) /\ (j \in Effects' <=> TookEffect(j)')
  BY DEF Effects
<1>2. \A j \in Ids : j # i => LifeOf(j)' = LifeOf(j)
  BY <1>1 DEF LifeOf
<1> QED  BY <1>2 DEF Life

\* How far a command is, and how far it is after a step.
LEMMA LifeFacts ==
  ASSUME NEW i \in Ids
  PROVE  /\ LifeOf(i) = IF answers[i] = "SUCCESS" THEN "succeeded"
                        ELSE IF answers[i] # "none" THEN "rejected"
                        ELSE IF i \in Effects THEN "applied"
                        ELSE IF Refused(i) THEN "refused"
                        ELSE IF asked[i] # "none" THEN "submitted" ELSE "none"
         /\ LifeOf(i)' = IF answers'[i] = "SUCCESS" THEN "succeeded"
                         ELSE IF answers'[i] # "none" THEN "rejected"
                         ELSE IF i \in Effects' THEN "applied"
                         ELSE IF Refused(i)' THEN "refused"
                         ELSE IF asked'[i] # "none" THEN "submitted" ELSE "none"
  BY DEF LifeOf, Effects

\* A step that the service does not see.
LEMMA ServiceStutters ==
  ASSUME answers' = answers, asked' = asked, namespace' = namespace, dataBuf' = dataBuf,
         \A i \in Ids : answers[i] = "none" => (Refused(i)' <=> Refused(i))
  PROVE  UNCHANGED Service!vars
<1>1. \A i \in Ids : TookEffect(i)' <=> TookEffect(i)
  BY DEF TookEffect
<1>2. \A i \in Ids : LifeOf(i)' = LifeOf(i)
  BY <1>1 DEF LifeOf
<1> QED  BY <1>2 DEF Service!vars

\* So is one that leaves the slots alone.
LEMMA SlotsStutter ==
  ASSUME answers' = answers, asked' = asked, namespace' = namespace, dataBuf' = dataBuf,
         slotState' = slotState
  PROVE  UNCHANGED Service!vars
<1>1. \A i \in Ids : Refused(i)' <=> Refused(i)
  BY DEF Refused
<1> QED  BY <1>1, ServiceStutters

\* A submission, refused, abandoned or neither.
LEMMA ServiceSubmits ==
  ASSUME IInv, NEW s \in Slots, slotState[s].id # NoId, asked[slotState[s].id] = "none",
         ~slotState[s].inFlight, slotState'[s].id = slotState[s].id,
         \A t \in Slots : t # s => slotState'[t] = slotState[t],
         NEW k \in {"read", "write", "bad"}, asked' = [asked EXCEPT ![slotState[s].id] = k],
         answers' = answers, namespace' = namespace, dataBuf' = dataBuf
  PROVE  Service!Next
<1>1. PICK i \in Ids : i = slotState[s].id /\ answers[i] = "none" /\ i \notin Effects
  BY UnsubmittedSlot
<1>2. asked \in [Ids -> {"none", "read", "write", "bad"}]
  BY StateFacts DEF IInv
<1>3. Effects' = Effects
  BY EffectsKept
<1>4. asked' = [asked EXCEPT ![i] = k] /\ asked'[i] = k /\ asked[i] = "none"
      /\ \A j \in Ids : j # i => asked'[j] = asked[j]
  BY <1>1, <1>2
<1>5. ~Refused(i)
  <2>1. \A t \in Slots : slotState[t].id = i => t = s
    BY <1>1 DEF IInv, SlotInv
  <2> QED  BY <2>1 DEF Refused
<1>6. ASSUME NEW j \in Ids, j # i PROVE Refused(j)' <=> Refused(j)
  <2>1. slotState[s].id # j /\ slotState'[s].id # j
    BY <1>1, <1>6
  <2> QED  BY <2>1, RefusedKept
<1>7. CASE Refused(i)'
  <2>1. LifeOf(i) = "none" /\ LifeOf(i)' = "refused"
    BY <1>1, <1>3, <1>4, <1>5, <1>7, LifeFacts
  <2>2. Life' = [Life EXCEPT ![i] = "refused"]
    BY <2>1, <1>3, <1>4, <1>6, LifeEdit
  <2>3. Service!Refuse(i, k)
    BY <2>1, <2>2, <1>4 DEF Service!Refuse, Life
  <2> QED  BY <2>3 DEF Service!Next
<1>8. CASE ~Refused(i)'
  <2>1. LifeOf(i) = "none" /\ LifeOf(i)' = "submitted"
    BY <1>1, <1>3, <1>4, <1>5, <1>8, LifeFacts
  <2>2. Life' = [Life EXCEPT ![i] = "submitted"]
    BY <2>1, <1>3, <1>4, <1>6, LifeEdit
  <2>3. Service!Submit(i, k)
    BY <2>1, <2>2, <1>4 DEF Service!Submit, Life
  <2> QED  BY <2>3 DEF Service!Next
<1> QED  BY <1>7, <1>8

\* A payload moves: the command takes effect.
LEMMA ServiceApplies ==
  ASSUME IInv, NEW q \in Queues, NEW i, FinishRequest(q, "payload", i), UNCHANGED clientVars
  PROVE  Service!Next
<1>1. PICK j \in Ids :
        /\ j \notin Effects /\ Effects' = Effects \cup {j} /\ answers[j] = "none" /\ ~Refused(j)
        /\ \/ asked[j] = "write" /\ namespace' = Append(namespace, j) /\ dataBuf' = dataBuf
           \/ /\ asked[j] = "read" /\ dataBuf' = [dataBuf EXCEPT ![j] = Len(namespace)]
              /\ namespace' = namespace
  BY PayloadIInv
<1>2. asked' = asked /\ answers' = answers /\ slotState' = slotState
  BY DEF clientVars
<1>3. LifeOf(j) = "submitted" /\ LifeOf(j)' = "applied"
  BY <1>1, <1>2, LifeFacts
<1>4. \A k \in Ids : Refused(k)' <=> Refused(k)
  BY <1>2 DEF Refused
<1>5. Life' = [Life EXCEPT ![j] = "applied"]
  BY <1>1, <1>2, <1>3, <1>4, LifeEdit
<1>6. Service!Apply(j)
  BY <1>1, <1>2, <1>3, <1>5 DEF Service!Apply, Life
<1> QED  BY <1>6 DEF Service!Next

\* An answer.
LEMMA ServiceAnswers ==
  ASSUME IInv, NEW s \in Slots, Wait(s)
  PROVE  Service!Next
<1>1. PICK a : a = WaitAnswer(s)
  OBVIOUS
<1>2. /\ slotState[s].inFlight /\ a # "QUEUE_FULL" /\ answers[slotState[s].id] = "none"
      /\ answers' = [answers EXCEPT ![slotState[s].id] = a] /\ asked' = asked
      /\ namespace' = namespace /\ dataBuf' = dataBuf /\ slotState' = slotState
  BY <1>1 DEF Wait, StorageWait, wireVars
<1>3. /\ slotState[s].id \in Ids /\ asked[slotState[s].id] # "none" /\ a \in Answers \ {"none"}
      /\ a = "SUCCESS" => slotState[s].id \in Effects
      /\ a # "SUCCESS" =>
           /\ slotState[s].id \notin Effects
           /\ asked[slotState[s].id] = "bad" \/ slotState[s].status # "SUCCESS"
  BY <1>1, <1>2, AnswerFacts
<1>4. PICK i \in Ids : i = slotState[s].id
  BY <1>3
<1>5. answers \in [Ids -> Answers]
  BY StateFacts DEF IInv
<1>6. answers[i] = "none" /\ answers'[i] = a /\ \A j \in Ids : j # i => answers'[j] = answers[j]
  BY <1>2, <1>4, <1>5
<1>7. Effects' = Effects /\ \A j \in Ids : Refused(j)' <=> Refused(j)
  BY <1>2, EffectsKept DEF Refused
<1>8. CASE a = "SUCCESS"
  <2>1. i \in Effects
    BY <1>3, <1>4, <1>8
  <2>2. LifeOf(i) = "applied" /\ LifeOf(i)' = "succeeded"
    BY <2>1, <1>6, <1>8, LifeFacts
  <2>3. Life' = [Life EXCEPT ![i] = "succeeded"]
    BY <2>2, <1>2, <1>6, <1>7, LifeEdit
  <2>4. Service!AnswerSuccess(i)
    BY <2>2, <2>3, <1>2 DEF Service!AnswerSuccess, Life
  <2> QED  BY <2>4 DEF Service!Next
<1>9. CASE a # "SUCCESS"
  <2>1. i \notin Effects /\ asked[i] # "none" /\ a # "none" /\ (asked[i] = "bad" \/ Refused(i))
    BY <1>2, <1>3, <1>4, <1>9 DEF Refused
  <2>2. /\ LifeOf(i) = "refused" \/ (LifeOf(i) = "submitted" /\ asked[i] = "bad")
        /\ LifeOf(i)' = "rejected"
    BY <2>1, <1>6, <1>9, LifeFacts
  <2>3. Life' = [Life EXCEPT ![i] = "rejected"]
    BY <2>2, <1>2, <1>6, <1>7, LifeEdit
  <2>4. Service!AnswerError(i)
    BY <2>2, <2>3, <1>2 DEF Service!AnswerError, Life
  <2> QED  BY <2>4 DEF Service!Next
<1> QED  BY <1>8, <1>9

\* The session starts as the service does.
LEMMA ServiceInit ==
  ASSUME Init PROVE Service!Init
<1>1. /\ asked = [i \in Ids |-> "none"] /\ answers = [i \in Ids |-> "none"]
      /\ namespace = <<>> /\ dataBuf = [i \in Ids |-> NoData]
  BY DEF Init, WireInit, ClientInit
<1>2. \A i \in Ids : LifeOf(i) = "none"
  <2>1. \A s \in Slots : ~slotState[s].inFlight
    <3>1. slotState = [s \in Slots |-> EmptyState]
      BY DEF Init, ClientInit
    <3> QED  BY <3>1 DEF EmptyState
  <2> QED  BY <2>1, <1>1 DEF LifeOf, TookEffect, Refused
<1>3. [i \in Ids |-> LifeOf(i)] = [i \in Ids |-> "none"]
  BY <1>2
<1> QED  BY <1>1, <1>3 DEF Service!Init, NoData

\* Every step of the session is a step of the service, or none.
LEMMA ServiceStep ==
  ASSUME IInv, [Next]_vars PROVE [Service!Next]_(Service!vars)
<1>1. CASE UNCHANGED vars
  BY <1>1, SlotsStutter DEF vars
<1>2. CASE Allocate \/ AllocateFails
  <2>1. CASE AllocateFails
    <3>1. /\ answers' = answers /\ asked' = asked /\ namespace' = namespace /\ dataBuf' = dataBuf
          /\ slotState' = slotState
      BY <2>1 DEF AllocateFails, AllocateSlotFails, wireVars
    <3> QED  BY <3>1, SlotsStutter
  <2>2. CASE Allocate
    <3>0. TypeOK /\ SlotInv
      BY DEF IInv
    <3>1. PICK queues : AllocateSlot(queues)
      BY <2>2 DEF Allocate
    <3>2. PICK s \in Slots : s = Rotated(Min(FreeAttempts(queues))) /\ ~allocated[s]
      BY <3>0, <3>1, AllocateFinds DEF AllocateSlot
    <3>3. /\ slotState' = [slotState EXCEPT ![s] = [EmptyState EXCEPT !.id = nextId]]
          /\ answers' = answers /\ asked' = asked /\ namespace' = namespace /\ dataBuf' = dataBuf
          /\ nextId <= CommandCount
      BY <3>1, <3>2 DEF AllocateSlot, wireVars
    <3>4. nextId \in Ids
      BY <3>0, <3>3, StateFacts, WireAssumption DEF Ids
    <3>5. PICK e \in SlotStates : e = [EmptyState EXCEPT !.id = nextId] /\ ~e.inFlight
      BY <3>4, EmptySlot
    <3>6. slotState'[s] = e /\ \A t \in Slots : t # s => slotState'[t] = slotState[t]
      BY <3>0, <3>3, <3>5, StateFacts
    <3>7. ~slotState[s].inFlight
      BY <3>0, <3>2 DEF SlotInv
    <3>8. \A i \in Ids : Refused(i)' <=> Refused(i)
      BY <3>5, <3>6, <3>7, RefusedKept
    <3> QED  BY <3>3, <3>8, ServiceStutters
  <2> QED  BY <2>1, <2>2, <1>2
<1>3. ASSUME NEW s \in Slots, Submit(s) PROVE Service!Next
  <2>1. PICK op \in Operations, offset \in Offsets : StorageSubmit(s, op, offset)
    BY <1>3 DEF Submit
  <2>2. PICK k : k = Kind(op, offset)
    OBVIOUS
  <2>3. /\ asked' = [asked EXCEPT ![slotState[s].id] = k]
        /\ answers' = answers /\ namespace' = namespace /\ dataBuf' = dataBuf
    BY <2>1, <2>2 DEF StorageSubmit
  <2>4. k \in {"read", "write", "bad"}
    BY <2>2, EntriesFacts
  <2>5. slotState[s].id # NoId /\ asked[slotState[s].id] = "none" /\ ~slotState[s].inFlight
    BY <1>3, <2>1 DEF Submit, StorageSubmit
  <2>6. PICK x : slotState' = [slotState EXCEPT ![s] = x] /\ x.id = slotState[s].id
    BY <2>1 DEF StorageSubmit
  <2>7. slotState'[s].id = slotState[s].id /\ \A t \in Slots : t # s => slotState'[t] = slotState[t]
    BY <2>6, StateFacts DEF IInv
  <2> QED  BY <2>3, <2>4, <2>5, <2>7, ServiceSubmits
<1>4. ASSUME NEW s \in Slots, SubmitFails(s) PROVE Service!Next \/ UNCHANGED Service!vars
  <2>1. PICK op \in Operations, offset \in Offsets :
          RaStorageRefused(s, op, offset) \/ RaStorageAbandons(s, op, offset) \/ LaunchFails(s)
    BY <1>4 DEF SubmitFails
  <2>2. CASE RaStorageRefused(s, op, offset) \/ LaunchFails(s)
    <3>1. UNCHANGED serverVars
      BY <1>4 DEF SubmitFails
    <3> QED  BY <2>2, <3>1, <1>1, FailureStutters
  <2>3. CASE RaStorageAbandons(s, op, offset)
    <3>1. PICK k : k = Kind(op, offset)
      OBVIOUS
    <3>2. /\ asked' = [asked EXCEPT ![slotState[s].id] = k]
          /\ answers' = answers /\ namespace' = namespace /\ dataBuf' = dataBuf
      BY <2>3, <3>1 DEF RaStorageAbandons
    <3>3. k \in {"read", "write", "bad"}
      BY <3>1, EntriesFacts
    <3>4. slotState[s].id # NoId /\ asked[slotState[s].id] = "none" /\ ~slotState[s].inFlight
      BY <1>4, <2>3 DEF SubmitFails, RaStorageAbandons
    <3>5. PICK x : slotState' = [slotState EXCEPT ![s] = x] /\ x = [EmptyState EXCEPT !.id = slotState[s].id]
      BY <2>3 DEF RaStorageAbandons
    <3>6. x.id = slotState[s].id
      BY <3>4, <3>5, UnsubmittedSlot, EmptySlot
    <3>7. slotState'[s].id = slotState[s].id /\ \A t \in Slots : t # s => slotState'[t] = slotState[t]
      BY <3>5, <3>6, StateFacts DEF IInv
    <3> QED  BY <3>2, <3>3, <3>4, <3>7, ServiceSubmits
  <2> QED  BY <2>1, <2>2, <2>3
<1>5. ASSUME NEW s \in Slots, Wait(s) PROVE Service!Next
  BY <1>5, ServiceAnswers
<1>6. ASSUME NEW s \in Slots, Release(s) PROVE UNCHANGED Service!vars
  <2>1. /\ answers' = answers /\ asked' = asked /\ namespace' = namespace /\ dataBuf' = dataBuf
        /\ slotState' = [slotState EXCEPT ![s] = EmptyState] /\ answers[slotState[s].id] # "none"
    BY <1>6 DEF Release, ReleaseSlot, wireVars
  <2>2. slotState'[s] = EmptyState /\ \A t \in Slots : t # s => slotState'[t] = slotState[t]
    BY <2>1, StateFacts DEF IInv
  <2>3. ~slotState'[s].inFlight
    BY <2>2 DEF EmptyState
  <2>4. \A i \in Ids : answers[i] = "none" => (Refused(i)' <=> Refused(i))
    BY <2>1, <2>2, <2>3, RefusedKept
  <2> QED  BY <2>1, <2>4, ServiceStutters
<1>8. ASSUME NEW s \in Slots, WaitFails(s) \/ ReleaseFails(s) PROVE UNCHANGED Service!vars
  <2>1. UNCHANGED vars
    BY <1>8, FailureStutters DEF WaitFails, ReleaseFails
  <2> QED  BY <2>1, SlotsStutter DEF vars
<1>7. ASSUME NEW q \in Queues, Server(q) PROVE Service!Next \/ UNCHANGED Service!vars
  <2>1. answers' = answers /\ asked' = asked /\ slotState' = slotState /\ UNCHANGED clientVars
    BY <1>7 DEF Server, clientVars
  <2>2. CASE WorkerStep(q) \/ WorkerFails(q) \/ DeliverSend(q)
    <3>1. namespace' = namespace /\ dataBuf' = dataBuf
      BY <2>2 DEF WorkerStep, StartWorker, ReceiveCommand, TakeDescriptor, PostCompletions, RetireWindow,
                  WorkerFails, DeliverSend, wireVars
    <3> QED  BY <3>1, <2>1, SlotsStutter
  <2>3. ASSUME NEW r \in Requests, FinishRequest(q, r[1], r[2])
        PROVE  Service!Next \/ UNCHANGED Service!vars
    <3>1. PICK kind \in {"descriptor", "payload", "completion"}, i \in Buffers : FinishRequest(q, kind, i)
      BY <2>3 DEF Requests
    <3>2. CASE kind = "payload"
      BY <3>1, <3>2, <2>1, ServiceApplies
    <3>3. CASE kind # "payload"
      <4>1. namespace' = namespace /\ dataBuf' = dataBuf
        BY <3>1, <3>3 DEF FinishRequest
      <4> QED  BY <4>1, <2>1, SlotsStutter
    <3> QED  BY <3>2, <3>3
  <2> QED  BY <2>2, <2>3, <1>7 DEF Server, Network
<1> QED  BY <1>1, <1>2, <1>3, <1>4, <1>5, <1>6, <1>7, <1>8 DEF Next

\* The session implements the service: whatever the slots, windows, threads,
\* timeouts and refused Sends do, a command takes effect at most once, between its
\* submission and its answer; it is answered SUCCESS only after that, and with an
\* error only when it had no effect and never will have one, since it left the
\* namespace's range or its Send was refused.
THEOREM Implements == Spec => ImplementsService
<1>1. Init => Service!Init
  BY ServiceInit
<1>2. IInv /\ [Next]_vars => [Service!Next]_(Service!vars)
  BY ServiceStep
<1> QED  BY <1>1, <1>2, Invariance, PTL DEF Spec, ImplementsService, Service!Spec

-----------------------------------------------------------------------------
(* The loops are applications of StorageSession. *)

\* The window has slots of the session; a slot was allocated before it is
\* submitted from.
LoopInv ==
  /\ phase \in {"allocate", "submit", "collect", "aborted", "done"}
  /\ window \in Seq(Slots)
  /\ perQueue \in [Queues -> Nat]
  /\ phase = "submit" => window # <<>>

\* The slots the loop submits from, waits for and releases are slots.
LEMMA WindowSlots ==
  ASSUME LoopInv, window # <<>>
  PROVE  /\ window[Len(window)] \in Slots /\ Head(window) \in Slots
         /\ Tail(window) \in Seq(Slots) /\ Len(window) \in Nat /\ Len(window) >= 1
         /\ Head(window) = window[1]
<1>1. window \in Seq(Slots)
  BY DEF LoopInv
<1>2. Len(window) \in Nat /\ Len(window) >= 1
  BY <1>1
<1>3. window[Len(window)] \in Slots /\ window[1] \in Slots
  BY <1>1, <1>2
<1> QED  BY <1>1, <1>2, <1>3

\* A step of the loop is a step of the application or changes nothing it can see.
LEMMA LoopStep ==
  ASSUME IInv, LoopInv, AppNext
  PROVE  LoopInv' /\ [Next]_vars
<1>1. CASE AppAllocate
  <2>1. PICK queues \in SUBSET Queues :
          /\ Eligible(queues)
          /\ IF FreeAttempts(queues) = {}
             THEN phase' = "aborted" /\ UNCHANGED <<vars, window, perQueue>>
             ELSE LET s == Rotated(Min(FreeAttempts(queues))) IN
                  /\ AllocateSlot(queues) /\ UNCHANGED serverVars
                  /\ window' = Append(window, s)
                  /\ perQueue' = [perQueue EXCEPT ![QueueOf(s)] = @ + 1]
                  /\ phase' = "submit"
    BY <1>1 DEF AppAllocate
  <2>2. CASE FreeAttempts(queues) = {}
    <3>1. phase' = "aborted" /\ UNCHANGED <<vars, window, perQueue>>
      BY <2>1, <2>2
    <3> QED  BY <3>1 DEF LoopInv
  <2>3. CASE FreeAttempts(queues) # {}
    <3>1. PICK s \in Slots : s = Rotated(Min(FreeAttempts(queues)))
      BY <2>3, AllocateFinds DEF IInv
    <3>2. /\ AllocateSlot(queues) /\ UNCHANGED serverVars /\ phase' = "submit"
          /\ window' = Append(window, s) /\ perQueue' = [perQueue EXCEPT ![QueueOf(s)] = @ + 1]
      BY <2>1, <2>3, <3>1
    <3>3. queues = Queues \/ \E q \in Queues : queues = {q}
      BY <2>1 DEF Eligible
    <3>4. Next
      BY <3>2, <3>3 DEF Next, Allocate
    <3>5. perQueue' \in [Queues -> Nat]
      BY <3>1, <3>2, QueueOfSlot DEF LoopInv
    <3>6. window' \in Seq(Slots) /\ window' # <<>>
      BY <3>1, <3>2 DEF LoopInv
    <3> QED  BY <3>2, <3>4, <3>5, <3>6 DEF LoopInv
  <2> QED  BY <2>2, <2>3
<1>2. CASE AppSubmit
  <2>1. window # <<>>
    BY <1>2 DEF AppSubmit, LoopInv
  <2>2. PICK s \in Slots : s = window[Len(window)]
    BY <2>1, WindowSlots
  <2>3. Submit(s) /\ phase' \in {"allocate", "collect", "aborted"} /\ UNCHANGED <<window, perQueue>>
    BY <2>2, <1>2 DEF AppSubmit
  <2> QED  BY <2>3 DEF Next, LoopInv
<1>3. CASE AppSubmitFails
  <2>1. window # <<>>
    BY <1>3 DEF AppSubmitFails, LoopInv
  <2>2. PICK s \in Slots : s = window[Len(window)]
    BY <2>1, WindowSlots
  <2>3. SubmitFails(s) /\ phase' = "aborted" /\ UNCHANGED <<window, perQueue>>
    BY <2>2, <1>3 DEF AppSubmitFails
  <2> QED  BY <2>3 DEF Next, LoopInv
<1>4. CASE AppWait
  <2>1. PICK s \in Slots : s = Head(window)
    BY <1>4, WindowSlots DEF AppWait
  <2>2. Wait(s) /\ phase' \in {"collect", "aborted"} /\ UNCHANGED <<window, perQueue>>
    BY <2>1, <1>4 DEF AppWait
  <2> QED  BY <2>2 DEF Next, LoopInv
<1>5. CASE AppWaitFails \/ AppReleaseFails
  <2>1. PICK s \in Slots : s = Head(window)
    BY <1>5, WindowSlots DEF AppWaitFails, AppReleaseFails
  <2>2. (WaitFails(s) \/ ReleaseFails(s)) /\ phase' = "aborted" /\ UNCHANGED <<window, perQueue>>
    BY <2>1, <1>5 DEF AppWaitFails, AppReleaseFails
  <2> QED  BY <2>2 DEF Next, LoopInv
<1>6. CASE AppRelease
  <2>1. PICK s \in Slots : s = Head(window)
    BY <1>6, WindowSlots DEF AppRelease
  <2>2. /\ Release(s) /\ phase' \in {"collect", "allocate", "done"} /\ perQueue' = perQueue
        /\ window' = Tail(window)
    BY <2>1, <1>6 DEF AppRelease
  <2>3. window' \in Seq(Slots)
    BY <2>2, <1>6, WindowSlots DEF AppRelease
  <2> QED  BY <2>2, <2>3 DEF Next, LoopInv
<1>7. ASSUME NEW q \in Queues, Server(q), UNCHANGED appVars
      PROVE  LoopInv' /\ Next
  BY <1>7 DEF LoopInv, appVars, Next
<1>8. CASE AppAllocateFails
  <2>1. PICK queues \in SUBSET Queues : Eligible(queues) /\ AllocateSlotFails(queues)
    BY <1>8 DEF AppAllocateFails
  <2>2. phase' = "aborted" /\ UNCHANGED serverVars /\ UNCHANGED <<window, perQueue>>
    BY <1>8 DEF AppAllocateFails, serverVars
  <2>3. queues = Queues \/ \E q \in Queues : queues = {q}
    BY <2>1 DEF Eligible
  <2>4. Next
    BY <2>1, <2>2, <2>3 DEF Next, AllocateFails
  <2> QED  BY <2>2, <2>4 DEF LoopInv
<1> QED  BY <1>1, <1>2, <1>3, <1>4, <1>5, <1>6, <1>7, <1>8 DEF AppNext, App

\* The invariant of the session and of the loop.
LEMMA LoopInvariance == AppSpec => [](IInv /\ LoopInv)
<1>1. AppInit => IInv /\ LoopInv
  <2>1. AppInit => IInv
    BY InitIInv DEF AppInit
  <2>2. AppInit => LoopInv
    BY DEF AppInit, LoopInv
  <2> QED  BY <2>1, <2>2
<1>2. IInv /\ LoopInv /\ [AppNext]_allVars => (IInv /\ LoopInv)'
  <2> SUFFICES ASSUME IInv, LoopInv, [AppNext]_allVars PROVE IInv' /\ LoopInv'
    OBVIOUS
  <2>1. CASE AppNext
    <3>1. LoopInv' /\ [Next]_vars
      BY <2>1, LoopStep
    <3> QED  BY <3>1, NextIInv
  <2>2. CASE UNCHANGED allVars
    <3>1. UNCHANGED vars
      BY <2>2 DEF allVars
    <3>2. UNCHANGED appVars
      BY <2>2 DEF allVars
    <3>3. IInv'
      BY <3>1, NextIInv
    <3>4. LoopInv'
      BY <3>2 DEF LoopInv, appVars
    <3> QED  BY <3>3, <3>4
  <2> QED  BY <2>1, <2>2
<1> QED  BY <1>1, <1>2, PTL DEF AppSpec

\* A session driven by the loop of the example client or of the torch session is
\* a session of StorageSession: its theorems hold of it.
THEOREM LoopIsApplication == AppSpec => Spec
<1>1. AppInit => Init
  BY DEF AppInit
<1>2. IInv /\ LoopInv /\ [AppNext]_allVars => [Next]_vars
  <2>1. ASSUME UNCHANGED allVars PROVE UNCHANGED vars
    BY <2>1 DEF allVars
  <2> QED  BY <2>1, LoopStep
<1> QED  BY <1>1, <1>2, LoopInvariance, PTL DEF AppSpec, Spec

\* With faults and with queues the application selects, the session of the loops
\* implements StorageService.
THEOREM LoopImplements == AppSpec => ImplementsService
  BY LoopIsApplication, Implements, PTL

-----------------------------------------------------------------------------
(* A clean exit has served everything. *)

\* Places of the queue's commands, in the order the worker takes them, whose
\* completion is in client memory.
Landed(q) ==
  {n \in Nat \ {0} :
     \/ n <= worker[q].served
     \/ /\ worker[q].phase = "complete"
        /\ \E i \in 1 .. Received(q) : n = worker[q].served + i /\ <<"completion", i>> \notin requests[q]}

ServedPlaces == {w \in Queues \X Nat : w[2] \in Landed(w[1])}

\* Commands that are answered or whose completion record is in a slot.
Settled ==
  {i \in Ids : \/ answers[i] # "none"
               \/ \E s \in Slots : completionBuf[s].id = i /\ completionBuf[s].state = "Complete"}

\* A terminal record in a slot is of a command that was submitted; it is the slot's
\* own command or one that is answered, so nothing is lost when it is overwritten.
RecordInv ==
  \A s \in Slots : completionBuf[s].state = "Complete" =>
    /\ completionBuf[s].id \in Ids /\ asked[completionBuf[s].id] # "none"
    /\ completionBuf[s].id = slotState[s].id \/ answers[completionBuf[s].id] # "none"

\* While no thread has failed the workers have completed no more commands than are
\* settled: no completion is for a command that was settled before.  A refused
\* command that storage_wait answered is settled and not served.
CountInv ==
  firstError = "none" =>
    /\ \A q \in Queues : /\ worker[q].phase \notin {"failed", "skipped"}
                         /\ worker[q].phase = "done" => worker[q].served = Share(q)
    /\ IsFiniteSet(ServedPlaces) /\ Cardinality(Settled) >= Cardinality(ServedPlaces)

ExitInv == RecordInv /\ CountInv

\* The settled commands are finitely many.
LEMMA SettledFinite == IsFiniteSet(Ids) /\ Cardinality(Ids) = CommandCount /\ IsFiniteSet(Settled)
<1>1. CommandCount \in Nat /\ CommandCount >= 1
  BY WireAssumption
<1>2. IsFiniteSet(1 .. CommandCount) /\ Cardinality(1 .. CommandCount) = CommandCount
  <2>1. /\ IsFiniteSet(1 .. CommandCount)
        /\ Cardinality(1 .. CommandCount) = IF 1 > CommandCount THEN 0 ELSE CommandCount - 1 + 1
    BY <1>1, FS_Interval
  <2> QED  BY <2>1, <1>1
<1>3. Settled \in SUBSET Ids
  BY DEF Settled
<1> QED  BY <1>2, <1>3, FS_Subset DEF Ids

\* What is settled stays settled.
LEMMA SettledGrows ==
  ASSUME Settled \subseteq Settled'
  PROVE  /\ Cardinality(Settled) \in Nat /\ Cardinality(Settled') \in Nat
         /\ Cardinality(Settled') >= Cardinality(Settled)
<1>1. IsFiniteSet(Settled) /\ IsFiniteSet(Ids) /\ Settled' \in SUBSET Ids
  BY SettledFinite DEF Settled
<1>2. IsFiniteSet(Settled')
  BY <1>1, FS_Subset
<1>3. Settled \in SUBSET Settled'
  OBVIOUS
<1>4. Cardinality(Settled) <= Cardinality(Settled')
  BY <1>2, <1>3, FS_Subset
<1> QED  BY <1>1, <1>2, <1>4, FS_CardinalityType

\* Nothing is served by a step.
LEMMA CountKept ==
  ASSUME ExitInv, RecordInv', Settled \subseteq Settled',
         firstError' = "none" =>
           /\ firstError = "none"
           /\ \A q \in Queues : /\ Landed(q)' = Landed(q)
                                /\ worker'[q].phase \notin {"failed", "skipped"}
                                /\ worker'[q].phase = "done" => worker'[q].served = Share(q)
  PROVE  ExitInv'
<1>1. CASE firstError' = "none"
  <2>1. \A q \in Queues : Landed(q)' = Landed(q)
    BY <1>1
  <2>2. ServedPlaces' = ServedPlaces
    <3>1. \A w \in Queues \X Nat : w[1] \in Queues
      OBVIOUS
    <3> QED  BY <2>1, <3>1 DEF ServedPlaces
  <2>3. IsFiniteSet(ServedPlaces) /\ Cardinality(Settled) >= Cardinality(ServedPlaces)
    BY <1>1 DEF ExitInv, CountInv
  <2>4. IsFiniteSet(ServedPlaces') /\ Cardinality(Settled') >= Cardinality(ServedPlaces')
    BY <2>2, <2>3, SettledGrows, FS_CardinalityType
  <2> QED  BY <2>4, <1>1 DEF ExitInv, CountInv
<1>2. CASE firstError' # "none"
  BY <1>2 DEF ExitInv, CountInv
<1> QED  BY <1>1, <1>2

\* Steps of the application leave the workers alone.
LEMMA ClientExit ==
  ASSUME ExitInv, UNCHANGED serverVars, RecordInv', Settled \subseteq Settled'
  PROVE  ExitInv'
<1>1. worker' = worker /\ requests' = requests /\ firstError' = firstError
  BY DEF serverVars
<1>2. \A q \in Queues : Landed(q)' = Landed(q)
  BY <1>1 DEF Landed, Received
<1> QED  BY <1>1, <1>2, CountKept DEF ExitInv, CountInv

\* Allocating preserves the count.
LEMMA AllocateExit ==
  ASSUME IInv, ExitInv, Allocate PROVE ExitInv'
<1>0. TypeOK /\ SlotInv /\ RecordInv
  BY DEF IInv, ExitInv
<1>1. PICK queues : AllocateSlot(queues) /\ UNCHANGED serverVars
  BY DEF Allocate
<1>2. PICK s \in Slots : s = Rotated(Min(FreeAttempts(queues))) /\ ~allocated[s]
  BY <1>0, <1>1, AllocateFinds DEF AllocateSlot
<1>3. /\ slotState' = [slotState EXCEPT ![s] = [EmptyState EXCEPT !.id = nextId]]
      /\ asked' = asked /\ answers' = answers /\ completionBuf' = completionBuf
  BY <1>1, <1>2 DEF AllocateSlot, wireVars
<1>4. slotState[s].id = NoId
  BY <1>0, <1>2 DEF SlotInv
<1>5. \A t \in Slots : t # s => slotState'[t] = slotState[t]
  BY <1>0, <1>3, StateFacts
<1>6. NoId \notin Ids
  BY DEF NoId, Ids
<1>7. RecordInv'
  BY <1>0, <1>3, <1>4, <1>5, <1>6 DEF RecordInv
<1>8. Settled' = Settled
  BY <1>3 DEF Settled
<1> QED  BY <1>1, <1>7, <1>8, ClientExit

\* An operation that fails without writing to a slot preserves it too.
LEMMA FailedExit ==
  ASSUME ExitInv, UNCHANGED serverVars, slotState' = slotState, asked' = asked,
         answers' = answers, completionBuf' = completionBuf
  PROVE  ExitInv'
<1>1. RecordInv' /\ Settled' = Settled
  BY DEF RecordInv, Settled, ExitInv
<1> QED  BY <1>1, ClientExit

\* A submission from a slot, of either outcome.  The record it overwrites is of a
\* command that is answered.
LEMMA OverwriteExit ==
  ASSUME IInv, ExitInv, NEW s \in Slots, NEW i \in Ids, i = slotState[s].id, asked[i] = "none",
         NEW k \in {"read", "write", "bad"}, asked' = [asked EXCEPT ![i] = k], answers' = answers,
         \/ completionBuf' = completionBuf
         \/ completionBuf' = [completionBuf EXCEPT ![s] = PendingCompletion(i)],
         \A t \in Slots : slotState'[t].id = slotState[t].id,
         UNCHANGED serverVars
  PROVE  ExitInv'
<1>0. TypeOK /\ RecordInv
  BY DEF IInv, ExitInv
<1>1. /\ asked \in [Ids -> {"none", "read", "write", "bad"}] /\ completionBuf \in [Slots -> Completions]
  BY <1>0, StateFacts
<1>2. \A j \in Ids : asked[j] # "none" => asked'[j] # "none"
  BY <1>1
<1>3. \A t \in Slots : \/ completionBuf'[t] = completionBuf[t]
                       \/ t = s /\ completionBuf'[t].state # "Complete"
  <2>1. PendingCompletion(i).state # "Complete"
    BY DEF PendingCompletion
  <2> QED  BY <2>1, <1>1
<1>4. RecordInv'
  BY <1>0, <1>2, <1>3 DEF RecordInv
<1>5. ASSUME completionBuf[s].state = "Complete" PROVE answers[completionBuf[s].id] # "none"
  BY <1>0, <1>5 DEF RecordInv
<1>6. Settled' = Settled
  BY <1>3, <1>5 DEF Settled
<1> QED  BY <1>4, <1>6, ClientExit

\* A submission, or one that fails, preserves the count.
LEMMA SubmitExit ==
  ASSUME IInv, ExitInv, NEW s \in Slots, Submit(s) \/ SubmitFails(s) PROVE ExitInv'
<1>0. slotState \in [Slots -> SlotStates]
  BY StateFacts DEF IInv
<1>1. /\ slotState[s].id # NoId /\ asked[slotState[s].id] = "none" /\ UNCHANGED serverVars
  BY DEF Submit, SubmitFails
<1>2. PICK i \in Ids : i = slotState[s].id
  BY <1>1, UnsubmittedSlot
<1>3. PICK op \in Operations, offset \in Offsets :
        \/ StorageSubmit(s, op, offset) \/ RaStorageAbandons(s, op, offset)
        \/ RaStorageRefused(s, op, offset) \/ LaunchFails(s)
  BY DEF Submit, SubmitFails
<1>4. PICK k \in {"read", "write", "bad"} : k = Kind(op, offset)
  BY EntriesFacts
<1>5. CASE StorageSubmit(s, op, offset)
  <2>1. /\ completionBuf' = [completionBuf EXCEPT ![s] = PendingCompletion(i)]
        /\ asked' = [asked EXCEPT ![i] = k] /\ answers' = answers
    BY <1>2, <1>4, <1>5 DEF StorageSubmit
  <2>2. PICK x : slotState' = [slotState EXCEPT ![s] = x] /\ x.id = i
    BY <1>2, <1>5 DEF StorageSubmit
  <2>3. \A t \in Slots : slotState'[t].id = slotState[t].id
    BY <2>2, <1>0, <1>2
  <2> QED  BY <2>1, <2>3, <1>1, <1>2, OverwriteExit
<1>6. CASE RaStorageRefused(s, op, offset) \/ LaunchFails(s)
  <2>1. slotState' = slotState /\ asked' = asked /\ answers' = answers /\ completionBuf' = completionBuf
    BY <1>6 DEF RaStorageRefused, LaunchFails, clientVars, wireVars
  <2> QED  BY <2>1, <1>1, FailedExit
<1>7. CASE RaStorageAbandons(s, op, offset)
  <2>1. /\ \/ completionBuf' = completionBuf
           \/ completionBuf' = [completionBuf EXCEPT ![s] = PendingCompletion(i)]
        /\ asked' = [asked EXCEPT ![i] = k] /\ answers' = answers
    BY <1>2, <1>4, <1>7 DEF RaStorageAbandons
  <2>2. PICK x : slotState' = [slotState EXCEPT ![s] = x] /\ x = [EmptyState EXCEPT !.id = i]
    BY <1>2, <1>7 DEF RaStorageAbandons
  <2>3. x.id = i
    BY <2>2, EmptySlot
  <2>4. \A t \in Slots : slotState'[t].id = slotState[t].id
    BY <2>2, <2>3, <1>0, <1>2
  <2> QED  BY <2>1, <2>4, <1>1, <1>2, OverwriteExit
<1> QED  BY <1>3, <1>5, <1>6, <1>7

\* The command that is answered is settled.
LEMMA WaitExit ==
  ASSUME IInv, ExitInv, NEW s \in Slots, Wait(s) PROVE ExitInv'
<1>0. TypeOK /\ RecordInv
  BY DEF IInv, ExitInv
<1>1. PICK i, a : i = slotState[s].id /\ a = WaitAnswer(s)
  OBVIOUS
<1>2. /\ slotState[s].inFlight /\ a # "QUEUE_FULL" /\ answers' = [answers EXCEPT ![i] = a]
      /\ slotState' = slotState /\ asked' = asked /\ completionBuf' = completionBuf
      /\ UNCHANGED serverVars
  BY <1>1 DEF Wait, StorageWait, wireVars
<1>3. i \in Ids /\ a # "none"
  BY <1>1, <1>2, AnswerFacts
<1>5. answers \in [Ids -> Answers]
  BY <1>0, StateFacts
<1>6. \A j \in Ids : answers'[j] # "none" <=> answers[j] # "none" \/ j = i
  BY <1>2, <1>3, <1>5
<1>7. RecordInv'
  BY <1>0, <1>2, <1>6 DEF RecordInv
<1>8. Settled \subseteq Settled'
  BY <1>2, <1>6 DEF Settled
<1> QED  BY <1>2, <1>7, <1>8, ClientExit

\* Releasing preserves the count.
LEMMA ReleaseExit ==
  ASSUME IInv, ExitInv, NEW s \in Slots, Release(s) PROVE ExitInv'
<1>0. TypeOK /\ RecordInv
  BY DEF IInv, ExitInv
<1>1. /\ answers[slotState[s].id] # "none" /\ slotState' = [slotState EXCEPT ![s] = EmptyState]
      /\ asked' = asked /\ answers' = answers /\ completionBuf' = completionBuf /\ UNCHANGED serverVars
  BY DEF Release, ReleaseSlot, wireVars
<1>2. \A t \in Slots : t # s => slotState'[t] = slotState[t]
  BY <1>0, <1>1, StateFacts
<1>3. RecordInv'
  BY <1>0, <1>1, <1>2 DEF RecordInv
<1>4. Settled' = Settled
  BY <1>1 DEF Settled
<1> QED  BY <1>1, <1>3, <1>4, ClientExit

\* Nothing lands: the worker of the queue goes on, the others do nothing.
LEMMA WorkerExit ==
  ASSUME IInv, ExitInv, UNCHANGED clientVars, completionBuf' = completionBuf, NEW q \in Queues,
         \A r \in Queues \ {q} : worker'[r] = worker[r] /\ requests'[r] = requests[r],
         firstError' = "none" =>
           /\ firstError = "none" /\ Landed(q)' = Landed(q)
           /\ worker'[q].phase \notin {"failed", "skipped"}
           /\ worker'[q].phase = "done" => worker'[q].served = Share(q)
  PROVE  ExitInv'
<1>1. slotState' = slotState /\ asked' = asked /\ answers' = answers
  BY DEF clientVars
<1>2. RecordInv' /\ Settled' = Settled
  BY <1>1 DEF RecordInv, Settled, ExitInv
<1>3. \A r \in Queues \ {q} : Landed(r)' = Landed(r)
  BY DEF Landed, Received
<1>4. firstError = "none" =>
        \A r \in Queues : /\ worker[r].phase \notin {"failed", "skipped"}
                          /\ worker[r].phase = "done" => worker[r].served = Share(r)
  BY DEF ExitInv, CountInv
<1>5. ASSUME firstError' = "none", NEW r \in Queues
      PROVE  /\ firstError = "none" /\ Landed(r)' = Landed(r)
             /\ worker'[r].phase \notin {"failed", "skipped"}
             /\ worker'[r].phase = "done" => worker'[r].served = Share(r)
  <2>1. CASE r = q
    BY <2>1, <1>5
  <2>2. CASE r # q
    <3>1. worker'[r] = worker[r] /\ firstError = "none"
      BY <2>2, <1>5
    <3> QED  BY <3>1, <2>2, <1>3, <1>4
  <2> QED  BY <2>1, <2>2
<1>6. firstError' = "none" => firstError = "none"
  OBVIOUS
<1> QED  BY <1>2, <1>5, <1>6, CountKept

\* A worker that fails records an error.
LEMMA FailExit ==
  ASSUME IInv, ExitInv, UNCHANGED clientVars, completionBuf' = completionBuf, NEW q \in Queues,
         NEW e \in {"kProtocol", "kVerbs"}, Fail(q, e), requests' = requests
  PROVE  ExitInv'
<1>1. firstError' # "none"
  BY DEF Fail
<1>2. worker' = [worker EXCEPT ![q].phase = "failed"]
  BY DEF Fail
<1>3. \A r \in Queues \ {q} : worker'[r] = worker[r]
  <2>1. TypeOK /\ "failed" \in Phases
    BY DEF IInv, Phases
  <2> QED  BY <2>1, <1>2, PhaseEdit
<1> QED  BY <1>1, <1>3, WorkerExit

\* The start of a worker preserves the count.
LEMMA StartExit ==
  ASSUME IInv, ExitInv, NEW q \in Queues, StartWorker(q), UNCHANGED clientVars PROVE ExitInv'
<1>0. TypeOK /\ {"skipped", "serve"} \subseteq Phases
  BY DEF IInv, Phases
<1>1. /\ worker[q].phase = "start" /\ completionBuf' = completionBuf /\ requests' = requests
      /\ firstError' = firstError
  BY DEF StartWorker, wireVars
<1>2. PICK x \in {"skipped", "serve"} :
        worker' = [worker EXCEPT ![q].phase = x] /\ (firstError = "none" => x = "serve")
  BY DEF StartWorker
<1>3. /\ worker'[q].phase = x /\ worker'[q].served = worker[q].served
      /\ \A r \in Queues \ {q} : worker'[r] = worker[r]
  BY <1>0, <1>2, PhaseEdit
<1>4. Landed(q)' = Landed(q)
  BY <1>1, <1>2, <1>3 DEF Landed
<1> QED  BY <1>1, <1>2, <1>3, <1>4, WorkerExit

\* A received command preserves the count.
LEMMA ReceiveExit ==
  ASSUME IInv, ExitInv, NEW q \in Queues, ReceiveCommand(q), UNCHANGED clientVars PROVE ExitInv'
<1>0. TypeOK /\ worker[q].pending \in Seq(PendingCommands)
  BY WorkerFacts DEF IInv
<1>1. worker[q].phase = "serve" /\ completionBuf' = completionBuf
  BY DEF ReceiveCommand, CanReceive, wireVars
<1>2. CASE Fail(q, "kProtocol") /\ UNCHANGED requests
  BY <1>1, <1>2, FailExit
<1>3. CASE ~(Fail(q, "kProtocol") /\ UNCHANGED requests)
  <2>1. PICK c, b : /\ worker' = [worker EXCEPT ![q].pending = Append(@, Accepted(c))]
                    /\ requests' = [requests EXCEPT ![q] = @ \cup FirstRequest(c, b)]
                    /\ firstError' = firstError
    BY <1>3 DEF ReceiveCommand
  <2>2. /\ worker'[q].phase = "serve" /\ worker'[q].served = worker[q].served
        /\ \A r \in Queues \ {q} : worker'[r] = worker[r]
    <3>1. PICK w \in [phase : Phases, served : Nat, pending : Seq(PendingCommands)] : w = worker[q]
      BY <1>0, StateFacts DEF WorkerStates
    <3>2. PICK v : v = [w EXCEPT !.pending = Append(@, Accepted(c))]
      OBVIOUS
    <3>3. v.phase = w.phase /\ v.served = w.served
      BY <3>2
    <3>4. worker' = [worker EXCEPT ![q] = v] /\ worker \in [Queues -> WorkerStates]
      BY <3>1, <3>2, <2>1, <1>0, StateFacts
    <3>5. worker'[q] = v /\ \A r \in Queues \ {q} : worker'[r] = worker[r]
      BY <3>4
    <3> QED  BY <3>1, <3>3, <3>5, <1>1
  <2>3. \A r \in Queues \ {q} : requests'[r] = requests[r]
    BY <2>1, <1>0, StateFacts
  <2>4. Landed(q)' = Landed(q)
    BY <2>2, <1>1 DEF Landed
  <2>5. firstError = "none" => worker'[q].phase \notin {"failed", "skipped", "done"}
    BY <2>2
  <2> QED  BY <2>1, <2>2, <2>3, <2>4, <2>5, <1>1, WorkerExit
<1> QED  BY <1>2, <1>3

\* A descriptor that is taken preserves the count.
LEMMA TakeExit ==
  ASSUME IInv, ExitInv, NEW q \in Queues, TakeDescriptor(q), UNCHANGED clientVars PROVE ExitInv'
<1>0. TypeOK /\ worker \in [Queues -> WorkerStates] /\ requests \in [Queues -> SUBSET Requests]
  BY StateFacts DEF IInv
<1>1. /\ worker[q].phase = "serve" /\ completionBuf' = completionBuf /\ firstError' = firstError
  BY DEF TakeDescriptor, CanTakeDescriptor, wireVars
<1>2. PICK i, p : worker' = [worker EXCEPT ![q].pending[i] = p]
  BY DEF TakeDescriptor
<1>3. /\ worker'[q].phase = "serve" /\ worker'[q].served = worker[q].served
      /\ \A r \in Queues \ {q} : worker'[r] = worker[r]
  <2>1. PICK w \in [phase : Phases, served : Nat, pending : Seq(PendingCommands)] : w = worker[q]
    BY <1>0 DEF WorkerStates
  <2>2. PICK v : v = [w EXCEPT !.pending[i] = p]
    OBVIOUS
  <2>3. v.phase = w.phase /\ v.served = w.served
    BY <2>2
  <2>4. worker' = [worker EXCEPT ![q] = v]
    BY <2>1, <2>2, <1>2
  <2>5. worker'[q] = v /\ \A r \in Queues \ {q} : worker'[r] = worker[r]
    BY <2>4, <1>0
  <2> QED  BY <2>1, <2>3, <2>5, <1>1
<1>4. \A r \in Queues \ {q} : requests'[r] = requests[r]
  BY <1>0 DEF TakeDescriptor
<1>5. Landed(q)' = Landed(q)
  BY <1>1, <1>3 DEF Landed
<1>6. worker'[q].phase \notin {"failed", "skipped", "done"}
  BY <1>3
<1> QED  BY <1>1, <1>3, <1>4, <1>5, <1>6, WorkerExit

\* The completions of the window are posted; none of them has landed.
LEMMA PostExit ==
  ASSUME IInv, ExitInv, NEW q \in Queues, PostCompletions(q), UNCHANGED clientVars PROVE ExitInv'
<1>0. TypeOK /\ "complete" \in Phases /\ requests \in [Queues -> SUBSET Requests]
  BY StateFacts DEF IInv, Phases
<1>1. /\ worker[q].phase = "serve" /\ completionBuf' = completionBuf /\ firstError' = firstError
      /\ worker' = [worker EXCEPT ![q].phase = "complete"]
      /\ requests' = [requests EXCEPT ![q] = @ \cup {<<"completion", i>> : i \in 1 .. Received(q)}]
  BY DEF PostCompletions, CanComplete, wireVars
<1>2. /\ worker'[q].phase = "complete" /\ worker'[q].served = worker[q].served
      /\ worker'[q].pending = worker[q].pending
      /\ \A r \in Queues \ {q} : worker'[r] = worker[r]
  BY <1>0, <1>1, PhaseEdit
<1>3. /\ \A r \in Queues \ {q} : requests'[r] = requests[r]
      /\ \A i \in 1 .. Received(q) : <<"completion", i>> \in requests'[q]
  BY <1>0, <1>1
<1>4. Received(q)' = Received(q)
  BY <1>2 DEF Received
<1>5. Landed(q)' = Landed(q)
  BY <1>1, <1>2, <1>3, <1>4 DEF Landed
<1>6. worker'[q].phase \notin {"failed", "skipped", "done"}
  BY <1>2
<1> QED  BY <1>1, <1>2, <1>3, <1>5, <1>6, WorkerExit

\* The window is over: all its completions have landed.
LEMMA RetireExit ==
  ASSUME IInv, ExitInv, NEW q \in Queues, RetireWindow(q), UNCHANGED clientVars PROVE ExitInv'
<1>0. /\ TypeOK /\ worker \in [Queues -> WorkerStates] /\ worker[q].served \in Nat /\ Received(q) \in Nat
      /\ ReceiveInv(q) /\ worker[q].served <= Share(q)
  BY StateFacts, WorkerFacts DEF IInv
<1>1. PICK n, more : n = worker[q].served + Received(q) /\ more = (n < Share(q))
  OBVIOUS
<1>2. PICK x, v : x = (IF more THEN "serve" ELSE "done") /\ v = [phase |-> x, served |-> n, pending |-> <<>>]
  OBVIOUS
<1>3. /\ worker[q].phase = "complete" /\ requests[q] = {} /\ requests' = requests
      /\ completionBuf' = completionBuf /\ firstError' = firstError
      /\ worker' = [worker EXCEPT ![q] = v]
  BY <1>1, <1>2 DEF RetireWindow, CanRetire, wireVars
<1>4. worker'[q].phase = x /\ worker'[q].served = n /\ \A r \in Queues \ {q} : worker'[r] = worker[r]
  BY <1>0, <1>2, <1>3
<1>5. Landed(q)' = Landed(q)
  <2>1. \A k \in Nat \ {0} : k <= n <=>
          \/ k <= worker[q].served \/ \E i \in 1 .. Received(q) : k = worker[q].served + i
    <3>1. PICK a \in Nat, b \in Nat : a = worker[q].served /\ b = Received(q) /\ n = a + b
      BY <1>0, <1>1
    <3>2. ASSUME NEW k \in Nat \ {0}
          PROVE  k <= a + b <=> k <= a \/ \E i \in 1 .. b : k = a + i
      <4>1. ASSUME k <= a + b, ~(k <= a) PROVE \E i \in 1 .. b : k = a + i
        <5>1. k - a \in 1 .. b /\ k = a + (k - a)
          BY <4>1
        <5> QED  BY <5>1
      <4>2. ASSUME k <= a \/ \E i \in 1 .. b : k = a + i PROVE k <= a + b
        BY <4>2
      <4> QED  BY <4>1, <4>2
    <3> QED  BY <3>1, <3>2
  <2>2. Landed(q)' = {k \in Nat \ {0} : k <= n}
    BY <1>2, <1>4 DEF Landed
  <2>3. Landed(q) = {k \in Nat \ {0} : \/ k <= worker[q].served
                                       \/ \E i \in 1 .. Received(q) : k = worker[q].served + i}
    BY <1>3 DEF Landed
  <2> QED  BY <2>1, <2>2, <2>3
<1>6. worker'[q].phase = "done" => worker'[q].served = Share(q)
  <2>1. Received(q) = Window(q)
    BY <1>0, <1>3 DEF ReceiveInv
  <2>2. Window(q) + worker[q].served <= Share(q) /\ Share(q) \in Nat /\ Window(q) \in Nat
    BY <1>0, WindowFacts
  <2>3. ~(n < Share(q)) => n = Share(q)
    BY <2>1, <2>2, <1>0, <1>1
  <2>4. ~more => n = Share(q)
    BY <2>3, <1>1, Zenon
  <2> QED  BY <2>4, <1>2, <1>4
<1>7. worker'[q].phase \notin {"failed", "skipped"}
  BY <1>2, <1>4
<1> QED  BY <1>3, <1>4, <1>5, <1>6, <1>7, WorkerExit

\* A delivered Send and the end of a descriptor or payload transfer preserve the count.
LEMMA NetworkExit ==
  ASSUME IInv, ExitInv, NEW q \in Queues, UNCHANGED clientVars, NEW kind \in {"descriptor", "payload"}, NEW i,
         DeliverSend(q) \/ FinishRequest(q, kind, i)
  PROVE  ExitInv'
<1>0. TypeOK /\ worker \in [Queues -> WorkerStates]
  BY StateFacts, SMTT(30) DEF IInv
<1>1. completionBuf' = completionBuf /\ firstError' = firstError
  BY DEF DeliverSend, FinishRequest
<1>2. CASE DeliverSend(q)
  <2>1. worker' = worker /\ requests' = requests
    BY <1>2 DEF DeliverSend
  <2>2. Landed(q)' = Landed(q)
    BY <2>1 DEF Landed, Received
  <2> QED  BY <2>1, <2>2, <1>1, WorkerExit DEF ExitInv, CountInv
<1>3. CASE FinishRequest(q, kind, i)
  <2>1. requests' = [requests EXCEPT ![q] = @ \ {<<kind, i>>}] /\ <<kind, i>> \in requests[q]
    BY <1>3 DEF FinishRequest
  <2>2. /\ requests'[q] = requests[q] \ {<<kind, i>>}
        /\ \A r \in Queues \ {q} : requests'[r] = requests[r]
    BY <2>1, RequestDone
  <2>3. PICK e : worker' = worker \/ worker' = [worker EXCEPT ![q].pending[i].entries = e]
    BY <1>3 DEF FinishRequest
  <2>4. i \in 1 .. Received(q)
    BY <2>1, RequestFacts
  <2>5. /\ worker'[q].phase = worker[q].phase /\ worker'[q].served = worker[q].served
        /\ Received(q)' = Received(q)
        /\ \A r \in Queues \ {q} : worker'[r] = worker[r]
    <3>1. CASE worker' = worker
      BY <3>1 DEF Received
    <3>2. CASE worker' = [worker EXCEPT ![q].pending[i].entries = e]
      <4>1. PICK w \in [phase : Phases, served : Nat, pending : Seq(PendingCommands)] : w = worker[q]
        BY <1>0 DEF WorkerStates
      <4>2. PICK p : p = [w.pending EXCEPT ![i].entries = e]
        OBVIOUS
      <4>3. PICK v : v = [w EXCEPT !.pending = p]
        OBVIOUS
      <4>4. v.phase = w.phase /\ v.served = w.served /\ v.pending = p
        BY <4>3
      <4>5. Len(p) = Len(w.pending)
        BY <4>2
      <4>6. worker' = [worker EXCEPT ![q] = v]
        BY <3>2, <4>1, <4>2, <4>3
      <4>7. worker'[q] = v /\ \A r \in Queues \ {q} : worker'[r] = worker[r]
        BY <4>6, <1>0
      <4> QED  BY <4>1, <4>4, <4>5, <4>7 DEF Received
    <3> QED  BY <2>3, <3>1, <3>2
  <2>6. \A j : <<"completion", j>> \in requests'[q] <=> <<"completion", j>> \in requests[q]
    BY <2>2
  <2>7. Landed(q)' = Landed(q)
    BY <2>5, <2>6 DEF Landed
  <2> QED  BY <2>2, <2>5, <2>7, <1>1, WorkerExit DEF ExitInv, CountInv
<1> QED  BY <1>2, <1>3

\* A completion lands: one command more is settled, and one place more is served.
LEMMA CompletionExit ==
  ASSUME IInv, ExitInv, NEW q \in Queues, NEW i, FinishRequest(q, "completion", i), UNCHANGED clientVars
  PROVE  ExitInv'
<1>0. TypeOK /\ SlotInv /\ RecordInv
  BY DEF IInv, ExitInv
<1>1. PICK r, c, z : r = worker[q].pending[i] /\ c = r.command /\ z = CompletionOf(r)
  OBVIOUS
<1>2. /\ <<"completion", i>> \in requests[q]
      /\ requests' = [requests EXCEPT ![q] = @ \ {<<"completion", i>>}]
      /\ worker' = worker /\ firstError' = firstError
      /\ completionBuf' = [completionBuf EXCEPT ![WorkerSlot(q, i)] = z]
  BY <1>1 DEF FinishRequest
<1>3. slotState' = slotState /\ asked' = asked /\ answers' = answers
  BY DEF clientVars
<1>4. LiveRecord(q, c) /\ c.slot = WorkerSlot(q, i) /\ i \in 1 .. Received(q)
  BY <1>1, <1>2, RequestFacts
<1>5. PICK s \in Slots : s = c.slot
  BY <1>4, LiveRecordFacts
<1>6. /\ c.id \in Ids /\ c.id = slotState[s].id /\ asked[c.id] # "none" /\ answers[c.id] = "none"
      /\ completionBuf[s] = PendingCompletion(c.id)
  BY <1>4, <1>5, LiveRecordFacts
<1>7. z.id = c.id /\ z.state = "Complete" /\ completionBuf[s].state # "Complete"
  BY <1>1, <1>6 DEF CompletionOf, PendingCompletion
<1>8. completionBuf'[s] = z /\ \A t \in Slots : t # s => completionBuf'[t] = completionBuf[t]
  <2>1. completionBuf \in [Slots -> Completions] /\ completionBuf' = [completionBuf EXCEPT ![s] = z]
    BY <1>0, <1>2, <1>4, <1>5, StateFacts
  <2> QED  BY <2>1
<1>9. RecordInv'
  BY <1>0, <1>3, <1>6, <1>7, <1>8 DEF RecordInv
<1>10. c.id \notin Settled
  <2>1. ASSUME NEW t \in Slots, completionBuf[t].state = "Complete", completionBuf[t].id = c.id PROVE FALSE
    <3>1. slotState[t].id = c.id
      BY <2>1, <1>0, <1>6 DEF RecordInv
    <3>2. c.id # NoId
      BY <1>6 DEF Ids, NoId
    <3>3. t = s
      BY <3>1, <3>2, <1>0, <1>6 DEF SlotInv
    <3> QED  BY <3>3, <2>1, <1>7
  <2> QED  BY <2>1, <1>6 DEF Settled
<1>11. Settled' = Settled \cup {c.id}
  <2>1. ASSUME NEW j \in Ids
        PROVE  (\E t \in Slots : completionBuf'[t].id = j /\ completionBuf'[t].state = "Complete")
                 <=> (\E t \in Slots : completionBuf[t].id = j /\ completionBuf[t].state = "Complete") \/ j = c.id
    BY <1>7, <1>8
  <2> QED  BY <2>1, <1>3, <1>6 DEF Settled
<1>12. CASE firstError' # "none"
  BY <1>9, <1>12 DEF ExitInv, CountInv
<1>13. CASE firstError' = "none"
  <2>1. firstError = "none"
    BY <1>2, <1>13
  <2>2. /\ \A t \in Queues : /\ worker[t].phase \notin {"failed", "skipped"}
                             /\ worker[t].phase = "done" => worker[t].served = Share(t)
        /\ IsFiniteSet(ServedPlaces) /\ Cardinality(Settled) >= Cardinality(ServedPlaces)
    BY <2>1 DEF ExitInv, CountInv
  <2>3. worker[q].phase = "complete" /\ worker[q].served \in Nat /\ Received(q) \in Nat
    <3>1. RequestInv(q) /\ worker[q].phase \in Phases /\ i \in Buffers
      BY <1>1, <1>2, WorkerFacts, RequestFacts
    <3>2. worker[q].phase \notin {"serve", "start", "done", "skipped"}
      BY <3>1, <1>2 DEF RequestInv
    <3> QED  BY <3>1, <3>2, <2>2, WorkerFacts DEF Phases
  <2>4. /\ requests'[q] = requests[q] \ {<<"completion", i>>}
        /\ \A t \in Queues \ {q} : requests'[t] = requests[t]
    BY <1>2, RequestDone
  <2>5. PICK a \in Nat, b \in Nat, n \in Nat \ {0} :
          a = worker[q].served /\ b = Received(q) /\ n = a + i /\ i \in 1 .. b
    BY <2>3, <1>4
  <2>6. /\ Landed(q) = {k \in Nat \ {0} : k <= a \/ \E j \in 1 .. b : k = a + j /\ <<"completion", j>> \notin requests[q]}
        /\ Landed(q)' = {k \in Nat \ {0} : k <= a \/ \E j \in 1 .. b : k = a + j /\ <<"completion", j>> \notin requests'[q]}
    BY <2>3, <2>5, <1>2 DEF Landed, Received
  <2>7. n \notin Landed(q)
    <3>1. ~(n <= a) /\ \A j \in 1 .. b : n = a + j => j = i
      BY <2>5
    <3> QED  BY <3>1, <2>6, <1>2
  <2>8. Landed(q)' = Landed(q) \cup {n}
    <3>1. \A j \in 1 .. b : <<"completion", j>> \notin requests'[q] <=> <<"completion", j>> \notin requests[q] \/ j = i
      BY <2>4, <1>2
    <3>2. \A k : (\E j \in 1 .. b : k = a + j /\ <<"completion", j>> \notin requests'[q])
                   <=> (\E j \in 1 .. b : k = a + j /\ <<"completion", j>> \notin requests[q]) \/ k = n
      BY <3>1, <2>5
    <3> QED  BY <3>2, <2>5, <2>6, ZenonT(40)
  <2>9. \A t \in Queues \ {q} : Landed(t)' = Landed(t)
    BY <2>4, <1>2 DEF Landed, Received
  <2>10. ServedPlaces' = ServedPlaces \cup {<<q, n>>} /\ <<q, n>> \notin ServedPlaces
    <3>1. ASSUME NEW t \in Queues, NEW k \in Nat
          PROVE  (k \in Landed(t)') <=> (k \in Landed(t) \/ <<t, k>> = <<q, n>>)
      <4>1. CASE t = q
        BY <4>1, <2>8
      <4>2. CASE t # q
        BY <4>2, <2>9
      <4> QED  BY <4>1, <4>2
    <3>2. <<q, n>> \in Queues \X Nat
      BY <2>5
    <3>3. \A w \in Queues \X Nat : w \in ServedPlaces' <=> w \in ServedPlaces \/ w = <<q, n>>
      BY <3>1 DEF ServedPlaces
    <3>4. <<q, n>> \notin ServedPlaces
      BY <2>7 DEF ServedPlaces
    <3>5. ServedPlaces \subseteq Queues \X Nat /\ ServedPlaces' \subseteq Queues \X Nat
      BY DEF ServedPlaces
    <3> QED  BY <3>2, <3>3, <3>4, <3>5
  <2>11. /\ IsFiniteSet(ServedPlaces \cup {<<q, n>>})
         /\ Cardinality(ServedPlaces \cup {<<q, n>>}) = Cardinality(ServedPlaces) + 1
    <3>1. Cardinality(ServedPlaces \cup {<<q, n>>}) =
            IF <<q, n>> \in ServedPlaces THEN Cardinality(ServedPlaces) ELSE Cardinality(ServedPlaces) + 1
      BY <2>2, FS_AddElement
    <3> QED  BY <3>1, <2>2, <2>10, FS_AddElement
  <2>12. Cardinality(Settled \cup {c.id}) = Cardinality(Settled) + 1
    <3>1. Cardinality(Settled \cup {c.id}) =
            IF c.id \in Settled THEN Cardinality(Settled) ELSE Cardinality(Settled) + 1
      BY SettledFinite, FS_AddElement
    <3> QED  BY <3>1, <1>10
  <2>13. IsFiniteSet(ServedPlaces') /\ Cardinality(Settled') >= Cardinality(ServedPlaces')
    <3>1. Cardinality(Settled) \in Nat /\ Cardinality(ServedPlaces) \in Nat
      BY <2>2, SettledFinite, FS_CardinalityType
    <3> QED  BY <3>1, <2>2, <2>10, <2>11, <2>12, <1>11
  <2> QED  BY <2>2, <2>13, <1>2, <1>9 DEF ExitInv, CountInv
<1> QED  BY <1>12, <1>13

\* Every step keeps the count.
LEMMA NextExit ==
  ASSUME IInv, ExitInv, [Next]_vars PROVE ExitInv'
<1>1. CASE UNCHANGED vars
  <2>1. /\ UNCHANGED serverVars /\ slotState' = slotState /\ asked' = asked /\ answers' = answers
        /\ completionBuf' = completionBuf
    BY <1>1 DEF vars, serverVars
  <2> QED  BY <2>1, FailedExit
<1>2. CASE Allocate \/ AllocateFails
  <2>1. CASE AllocateFails
    <3>1. /\ UNCHANGED serverVars /\ slotState' = slotState /\ asked' = asked /\ answers' = answers
          /\ completionBuf' = completionBuf
      BY <2>1 DEF AllocateFails, AllocateSlotFails, wireVars
    <3> QED  BY <3>1, FailedExit
  <2> QED  BY <2>1, <1>2, AllocateExit
<1>3. ASSUME NEW s \in Slots, Submit(s) \/ SubmitFails(s) \/ Wait(s) \/ Release(s) PROVE ExitInv'
  BY <1>3, SubmitExit, WaitExit, ReleaseExit
<1>5. ASSUME NEW s \in Slots, WaitFails(s) \/ ReleaseFails(s) PROVE ExitInv'
  BY <1>5, <1>1, FailureStutters DEF WaitFails, ReleaseFails
<1>4. ASSUME NEW q \in Queues, Server(q) PROVE ExitInv'
  <2>1. UNCHANGED clientVars
    BY <1>4 DEF Server
  <2>2. CASE WorkerStep(q)
    BY <2>1, <2>2, StartExit, ReceiveExit, TakeExit, PostExit, RetireExit DEF WorkerStep
  <2>3. CASE WorkerFails(q)
    <3>1. Fail(q, "kVerbs") /\ requests' = requests /\ completionBuf' = completionBuf
      BY <2>3 DEF WorkerFails, wireVars
    <3> QED  BY <3>1, <2>1, FailExit
  <2>4. CASE DeliverSend(q)
    BY <2>1, <2>4, NetworkExit
  <2>5. ASSUME NEW r \in Requests, FinishRequest(q, r[1], r[2]) PROVE ExitInv'
    <3>1. PICK kind \in {"descriptor", "payload", "completion"}, i \in Buffers : FinishRequest(q, kind, i)
      BY <2>5 DEF Requests
    <3>2. CASE kind = "completion"
      BY <3>1, <3>2, <2>1, CompletionExit
    <3>3. CASE kind \in {"descriptor", "payload"}
      BY <3>1, <3>3, <2>1, NetworkExit
    <3> QED  BY <3>2, <3>3
  <2> QED  BY <1>4, <2>2, <2>3, <2>4, <2>5 DEF Server, Network
<1> QED  BY <1>1, <1>2, <1>3, <1>4, <1>5 DEF Next

\* The count holds initially.
LEMMA InitExit ==
  ASSUME Init PROVE ExitInv
<1>1. /\ \A s \in Slots : completionBuf[s].state # "Complete"
      /\ \A i \in Ids : answers[i] = "none"
      /\ \A q \in Queues : /\ worker[q].served = 0
                           /\ worker[q].phase = IF Share(q) = 0 THEN "done" ELSE "start"
  <2>1. /\ completionBuf = [s \in Slots |-> NoCompletion] /\ answers = [i \in Ids |-> "none"]
        /\ worker = [q \in Queues |-> [phase |-> IF Share(q) = 0 THEN "done" ELSE "start",
                                       served |-> 0, pending |-> <<>>]]
    BY DEF Init, WireInit, ClientInit, ServerInit
  <2>2. NoCompletion.state # "Complete"
    BY DEF NoCompletion
  <2> QED  BY <2>1, <2>2
<1>2. Settled = {}
  BY <1>1 DEF Settled
<1>3. \A q \in Queues : Landed(q) = {}
  BY <1>1 DEF Landed
<1>4. ServedPlaces = {}
  BY <1>3 DEF ServedPlaces
<1>5. IsFiniteSet(ServedPlaces) /\ Cardinality(Settled) >= Cardinality(ServedPlaces)
  BY <1>2, <1>4, FS_EmptySet
<1>6. \A q \in Queues : /\ worker[q].phase \notin {"failed", "skipped"}
                        /\ worker[q].phase = "done" => worker[q].served = Share(q)
  BY <1>1
<1> QED  BY <1>1, <1>5, <1>6 DEF ExitInv, RecordInv, CountInv

\* The commands are dealt out to the queues without a rest: the i-th has a place
\* in a queue's share, no two have the same.
LEMMA PlaceOfCommand ==
  ASSUME NEW i \in Ids
  PROVE  \E q \in Queues, n \in Nat \ {0} : i = (n - 1) * Qps + q + 1 /\ n <= Share(q)
<1>1. PICK d \in Nat \ {0}, c \in Nat : d = Qps /\ c = CommandCount /\ i \in 1 .. c
  BY WireAssumption DEF Ids
<1>2. PICK m \in Nat : m = i - 1 /\ m < c
  BY <1>1
<1>3. PICK k \in Nat, q \in 0 .. d - 1 : m = d * k + q
  <2>1. m = d * (m \div d) + (m % d) /\ m \div d \in Nat /\ m % d \in 0 .. d - 1
    BY <1>1, <1>2
  <2> QED  BY <2>1
<1>4. PICK e \in Nat, r \in 0 .. d - 1 : c = d * e + r /\ e = c \div d /\ r = c % d
  <2>1. c = d * (c \div d) + (c % d) /\ c \div d \in Nat /\ c % d \in 0 .. d - 1
    BY <1>1, <1>2
  <2> QED  BY <2>1
<1>5. k <= e
  <2>1. ASSUME k > e PROVE FALSE
    <3>1. d * k >= d * e + d
      <4>1. PICK x \in Nat : k = e + 1 + x
        <5>1. k - e - 1 \in Nat /\ k = e + 1 + (k - e - 1)
          BY <2>1
        <5> QED  BY <5>1
      <4>2. d * k = d * e + d + d * x /\ d * x \in Nat /\ d * e \in Nat
        BY <4>1
      <4> QED  BY <4>2
    <3>2. d * k \in Nat /\ d * e \in Nat
      OBVIOUS
    <3> QED  BY <3>1, <3>2, <1>2, <1>3, <1>4
  <2> QED  BY <2>1
<1>6. k = e => q < r
  <2>1. d * k \in Nat
    OBVIOUS
  <2>2. ASSUME k = e PROVE q < r
    <3>1. d * k = d * e
      BY <2>2
    <3> QED  BY <2>1, <3>1, <1>2, <1>3, <1>4
  <2> QED  BY <2>2
<1>7. Share(q) = e + (IF q < r THEN 1 ELSE 0)
  BY <1>1, <1>4 DEF Share
<1>8. k + 1 <= Share(q)
  BY <1>5, <1>6, <1>7
<1>9. q \in Queues /\ k + 1 \in Nat \ {0} /\ i = (k + 1 - 1) * Qps + q + 1
  <2>1. k + 1 - 1 = k /\ d * k \in Nat /\ k * d = d * k
    OBVIOUS
  <2> QED  BY <2>1, <1>1, <1>2, <1>3 DEF Queues
<1> QED  BY <1>8, <1>9

\* serve_commands reports success only when every command is answered or has its
\* completion in its slot, whatever order the workers start, serve and fail in.
THEOREM CleanExit == Spec => []CleanExitServedAll
<1>1. Init => IInv /\ ExitInv
  BY InitIInv, InitExit
<1>2. IInv /\ ExitInv /\ [Next]_vars => (IInv /\ ExitInv)'
  <2>1. IInv /\ [Next]_vars => IInv'
    BY NextIInv
  <2>2. IInv /\ ExitInv /\ [Next]_vars => ExitInv'
    BY NextExit
  <2> QED  BY <2>1, <2>2
<1>3. ASSUME IInv, ExitInv PROVE CleanExitServedAll
  <2> SUFFICES ASSUME Joined, firstError = "none" PROVE \A i \in Ids : i \in Settled
    BY DEF CleanExitServedAll, Settled
  <2>1. /\ \A q \in Queues : /\ worker[q].phase \notin {"failed", "skipped"}
                             /\ worker[q].phase = "done" => worker[q].served = Share(q)
        /\ IsFiniteSet(ServedPlaces) /\ Cardinality(Settled) >= Cardinality(ServedPlaces)
    BY <1>3 DEF ExitInv, CountInv
  <2>2. \A q \in Queues : worker[q].served = Share(q)
    BY <2>1 DEF Joined, Ended
  <2>3. PICK place \in [Ids -> ServedPlaces] :
          \A i \in Ids : i = (place[i][2] - 1) * Qps + place[i][1] + 1
    <3> DEFINE P(i) == CHOOSE w \in ServedPlaces : i = (w[2] - 1) * Qps + w[1] + 1
               place == [i \in Ids |-> P(i)]
    <3>1. ASSUME NEW i \in Ids PROVE \E w \in ServedPlaces : i = (w[2] - 1) * Qps + w[1] + 1
      <4>1. PICK q \in Queues, n \in Nat \ {0} : i = (n - 1) * Qps + q + 1 /\ n <= Share(q)
        BY PlaceOfCommand
      <4>2. n \in Landed(q)
        BY <4>1, <2>2 DEF Landed
      <4>3. PICK w : w = <<q, n>>
        OBVIOUS
      <4>4. w \in ServedPlaces /\ w[1] = q /\ w[2] = n
        BY <4>2, <4>3 DEF ServedPlaces
      <4> QED  BY <4>1, <4>4
    <3>2. \A i \in Ids : P(i) \in ServedPlaces /\ i = (P(i)[2] - 1) * Qps + P(i)[1] + 1
      BY <3>1
    <3> HIDE DEF P
    <3>3. place \in [Ids -> ServedPlaces] /\ \A i \in Ids : place[i] = P(i)
      BY <3>2
    <3>4. \A i \in Ids : i = (place[i][2] - 1) * Qps + place[i][1] + 1
      BY <3>2, <3>3
    <3> HIDE DEF place
    <3> QED  BY <3>3, <3>4
  <2>4. place \in Injection(Ids, ServedPlaces)
    <3>1. ASSUME NEW i \in Ids, NEW j \in Ids, place[i] = place[j] PROVE i = j
      <4>1. /\ i = (place[i][2] - 1) * Qps + place[i][1] + 1
            /\ j = (place[j][2] - 1) * Qps + place[j][1] + 1
        BY <2>3
      <4> QED  BY <4>1, <3>1, Zenon
    <3> QED  BY <3>1, <2>3 DEF Injection, IsInjective
  <2>5. Cardinality(Ids) <= Cardinality(ServedPlaces)
    BY <2>1, <2>4, FS_Injection
  <2>6. Settled \in SUBSET Ids
    BY DEF Settled
  <2>7. /\ Cardinality(Settled) <= Cardinality(Ids)
        /\ Cardinality(Ids) = Cardinality(Settled) => Ids = Settled
    BY <2>6, SettledFinite, FS_Subset
  <2>8. Cardinality(Ids) \in Nat /\ Cardinality(Settled) \in Nat /\ Cardinality(ServedPlaces) \in Nat
    BY <2>1, SettledFinite, FS_CardinalityType
  <2>9. Ids = Settled
    BY <2>1, <2>5, <2>7, <2>8
  <2> QED  BY <2>9
<1>4. IInv /\ ExitInv => CleanExitServedAll
  BY <1>3
<1> QED  BY <1>1, <1>2, <1>4, PTL DEF Spec

-----------------------------------------------------------------------------
(* The order of the slots.  Without faults and with the rotation alone, the *)
(* m-th command is in slot m % NumSlots; a queue's commands fill its slots  *)
(* in turn, which is the order in which its worker posts the receives.      *)

\* The slot of the queue's n-th command.
NthSlot(q, n) == WorkerSlot(q, ((n - 1) % SlotsPerQp) + 1)

\* Of the first m commands the queue has n.
Dealt(q, n, m) == (n - 1) * Qps + q < m /\ m <= n * Qps + q

\* Commands of the queue whose Send was posted.
Carried(q) == worker[q].served + Received(q) + arrived[q] + Len(sends[q])

\* Commands posted: the last one allocated is not while the loop is to submit it.
PostedCommands == IF phase = "submit" THEN nextId - 2 ELSE nextId - 1

\* What a queue's worker will receive is in order.
OrderInv(q) ==
  /\ worker[q].phase # "done" => \E a \in Nat : worker[q].served = SlotsPerQp * a
  /\ \A b \in Filled(q) : recvBuf[q][b].slot = NthSlot(q, worker[q].served + b)
  /\ \A k \in 1 .. Len(sends[q]) :
       sends[q][k].slot = NthSlot(q, worker[q].served + Received(q) + arrived[q] + k)

\* The slots of the window are the last ones of the rotation.
RotationInv ==
  /\ nextSlot = (nextId - 1) % NumSlots
  /\ Len(window) <= NumSlots
  /\ \A j \in 0 .. NumSlots - 1 : allocated[Rotated(j)] <=> j >= NumSlots - Len(window)
  /\ \A k \in 1 .. Len(window) : window[k] = Rotated(NumSlots - Len(window) + k - 1)
  /\ phase = "submit" => nextId >= 2 /\ window[Len(window)] = (nextId - 2) % NumSlots
  /\ \A q \in Queues : Dealt(q, Carried(q), PostedCommands)

OrderedInv ==
  /\ firstError = "none"
  /\ \A q \in Queues : OrderInv(q)
  /\ phase # "aborted" => RotationInv

\* Quotient and remainder by a positive divisor.
LEMMA DivDef ==
  ASSUME NEW d \in Nat, d > 0, NEW x \in Int
  PROVE  /\ x % d \in 0 .. (d - 1) /\ x \div d \in Int
         /\ x = d * (x \div d) + (x % d)
  BY SMT

\* A larger quotient is larger by a divisor at least.
LEMMA ProductStep ==
  ASSUME NEW d \in Nat, NEW u \in Int, NEW v \in Int, u < v
  PROVE  d * u + d <= d * v /\ d * u \in Int /\ d * v \in Int
  BY SMT

\* There is only one way to divide with a remainder below the divisor.
LEMMA DivUnique ==
  ASSUME NEW d \in Nat, d > 0, NEW x \in Int, NEW a \in Int, NEW r \in 0 .. (d - 1),
         x = d * a + r
  PROVE  x % d = r /\ x \div d = a
<1>1. PICK b \in Int, s \in 0 .. (d - 1) : b = x \div d /\ s = x % d
  BY DivDef
<1>2. x = d * b + s
  BY <1>1, DivDef
<1>3. d * a \in Int /\ d * b \in Int
  BY SMT
<1>4. ~(a < b)
  <2>1. ASSUME a < b PROVE d * a + d <= d * b
    BY <2>1, ProductStep
  <2> QED  BY <2>1, <1>2, <1>3
<1>5. ~(b < a)
  <2>1. ASSUME b < a PROVE d * b + d <= d * a
    BY <2>1, ProductStep
  <2> QED  BY <2>1, <1>2, <1>3
<1>6. a = b
  BY <1>4, <1>5
<1>7. r = s
  BY <1>2, <1>3, <1>6
<1> QED  BY <1>1, <1>6, <1>7

\* Going one round further leads to the same slot, and the places of one round are
\* different slots.
LEMMA Rounds ==
  ASSUME NEW d \in Nat, d > 0, NEW x \in Nat
  PROVE  /\ (x + d) % d = x % d
         /\ \A j \in Nat : ((x % d) + j) % d = (x + j) % d
         /\ \A j \in 0 .. (d - 1), k \in 0 .. (d - 1) : (x + j) % d = (x + k) % d => j = k
         /\ x < d => x % d = x
<1>1. ASSUME NEW y \in Int, NEW c \in Int PROVE (y + d * c) % d = y % d
  <2>1. PICK a \in Int, r \in 0 .. (d - 1) : r = y % d /\ y = d * a + r
    BY DivDef
  <2>2. y + d * c = d * (a + c) + r /\ y + d * c \in Int
    BY <2>1
  <2> QED  BY <2>1, <2>2, DivUnique
<1>2. (x + d) % d = x % d
  <2>1. PICK c \in Int : d * c = d
    <3>1. d * 1 = d
      OBVIOUS
    <3> QED  BY <3>1
  <2>2. PICK y \in Int : y = x
    OBVIOUS
  <2>3. (y + d * c) % d = y % d
    BY <1>1
  <2> QED  BY <2>1, <2>2, <2>3
<1>3. ASSUME NEW j \in Nat PROVE ((x % d) + j) % d = (x + j) % d
  <2>1. PICK a \in Int, r \in 0 .. (d - 1) : r = x % d /\ x = d * a + r
    BY DivDef
  <2>2. x + j = (r + j) + d * a /\ r + j \in Int
    BY <2>1
  <2>3. ((r + j) + d * a) % d = (r + j) % d
    BY <2>2, <1>1
  <2> QED  BY <2>1, <2>2, <2>3
<1>4. ASSUME NEW j \in 0 .. (d - 1), NEW k \in 0 .. (d - 1), (x + j) % d = (x + k) % d PROVE j = k
  <2>1. PICK a \in Int, b \in Int, r \in 0 .. (d - 1) : x + j = d * a + r /\ x + k = d * b + r
    <3>1. x + j \in Int /\ x + k \in Int
      OBVIOUS
    <3>2. PICK a \in Int, r \in 0 .. (d - 1) : r = (x + j) % d /\ x + j = d * a + r
      BY <3>1, DivDef
    <3>3. PICK b \in Int, s \in 0 .. (d - 1) : s = (x + k) % d /\ x + k = d * b + s
      BY <3>1, DivDef
    <3> QED  BY <3>2, <3>3, <1>4
  <2>2. ~(a < b)
    <3>1. ASSUME a < b PROVE d * a + d <= d * b /\ d * a \in Int /\ d * b \in Int
      BY <3>1, ProductStep
    <3> QED  BY <3>1, <2>1
  <2>3. ~(b < a)
    <3>1. ASSUME b < a PROVE d * b + d <= d * a /\ d * a \in Int /\ d * b \in Int
      BY <3>1, ProductStep
    <3> QED  BY <3>1, <2>1
  <2>4. a = b /\ d * a \in Int
    BY <2>2, <2>3
  <2> QED  BY <2>1, <2>4
<1>5. x < d => x % d = x
  <2>1. ASSUME x < d PROVE x % d = x
    <3>1. x = d * 0 + x /\ x \in 0 .. (d - 1)
      BY <2>1
    <3> QED  BY <3>1, DivUnique
  <2> QED  BY <2>1
<1> QED  BY <1>2, <1>3, <1>4, <1>5

\* Where the rotation puts the m-th command: its queue, and its turn there.
LEMMA PlaceOfSlot ==
  ASSUME NEW m \in Nat, NEW s, s = m % NumSlots, NEW q, q = QueueOf(s)
  PROVE  \E n \in Nat : m = n * Qps + q /\ s = NthSlot(q, n + 1)
<1>1. PICK d \in Nat, w \in Nat : d = Qps /\ w = SlotsPerQp /\ d > 0 /\ w > 0
  BY WireAssumption
<1>2. PICK N \in Nat : N = NumSlots /\ N = d * w /\ N > 0
  BY <1>1 DEF NumSlots
<1>3. PICK a \in Int : m = N * a + s /\ s \in 0 .. (N - 1)
  <2>1. /\ m % N \in 0 .. (N - 1) /\ m \div N \in Int
        /\ m = N * (m \div N) + (m % N)
    BY <1>2, DivDef
  <2>2. s = m % N
    BY <1>2
  <2> QED  BY <2>1, <2>2
<1>4. PICK b \in Int : s = d * b + q /\ q \in 0 .. (d - 1)
  <2>0. s \in Int
    BY <1>2, <1>3
  <2>1. /\ s % d \in 0 .. (d - 1) /\ s \div d \in Int
        /\ s = d * (s \div d) + (s % d)
    BY <2>0, <1>1, DivDef
  <2>2. q = s % d
    BY <1>1 DEF QueueOf
  <2> QED  BY <2>1, <2>2
<1>5. a >= 0
  <2>1. ASSUME a < 0 PROVE FALSE
    <3>1. N * a + N <= N * 0 /\ N * a \in Int
      BY <2>1, ProductStep
    <3> QED  BY <3>1, <1>2, <1>3
  <2> QED  BY <2>1
<1>6. b >= 0
  <2>1. ASSUME b < 0 PROVE FALSE
    <3>1. d * b + d <= d * 0 /\ d * b \in Int
      BY <2>1, ProductStep
    <3> QED  BY <3>1, <1>1, <1>3, <1>4
  <2> QED  BY <2>1
<1>7. b < w
  <2>1. ASSUME w <= b PROVE FALSE
    <3>1. w = b \/ d * w + d <= d * b
      BY <2>1, ProductStep
    <3>2. d * w \in Int /\ d * b \in Int
      BY SMT
    <3>3. d * w <= d * b
      BY <3>1, <3>2
    <3> QED  BY <3>2, <3>3, <1>2, <1>3, <1>4
  <2> QED  BY <2>1
<1>8. PICK n \in Nat : n = w * a + b
  <2>1. w * a \in Nat
    BY <1>5
  <2> QED  BY <2>1, <1>6
<1>9. m = n * Qps + q
  <2>1. N * a = d * (w * a)
    BY <1>2
  <2>2. d * n = d * (w * a) + d * b /\ d * n = n * d
    BY <1>8
  <2>3. d * (w * a) \in Int /\ d * b \in Int
    BY SMT
  <2>4. PICK x \in Int, y \in Int : x = d * (w * a) /\ y = d * b
    BY <2>3
  <2>5. m = x + s /\ s = y + q
    BY <2>1, <2>4, <1>3, <1>4
  <2>6. m = (x + y) + q
    BY <2>5, <1>4
  <2>7. m = d * n + q
    BY <2>2, <2>4, <2>6
  <2> QED  BY <2>2, <2>7, <1>1
<1>10. n % w = b
  <2>1. b \in 0 .. (w - 1) /\ n \in Int
    BY <1>6, <1>7
  <2> QED  BY <2>1, <1>1, <1>8, DivUnique
<1>11. s = NthSlot(q, n + 1)
  <2>1. n + 1 - 1 = n /\ b + 1 - 1 = b /\ b * d = d * b
    OBVIOUS
  <2>2. NthSlot(q, n + 1) = WorkerSlot(q, b + 1)
    BY <2>1, <1>1, <1>10 DEF NthSlot
  <2>3. WorkerSlot(q, b + 1) = q + b * d
    BY <2>1, <1>1 DEF WorkerSlot
  <2>4. d * b \in Int
    BY SMT
  <2> QED  BY <2>1, <2>2, <2>3, <2>4, <1>4
<1> QED  BY <1>9, <1>11

\* The m-th command is the next of its queue, and no command of the others.
LEMMA DealtNext ==
  ASSUME NEW m \in Nat, NEW n \in Nat, NEW t \in Queues, Dealt(t, n, m),
         NEW s, s = m % NumSlots, NEW q, q = QueueOf(s)
  PROVE  /\ t = q => Dealt(t, n + 1, m + 1) /\ s = NthSlot(t, n + 1)
         /\ t # q => Dealt(t, n, m + 1)
<1>1. PICK k \in Nat : m = k * Qps + q /\ s = NthSlot(q, k + 1)
  BY PlaceOfSlot
<1>2. PICK d \in Nat : d = Qps /\ d > 0 /\ t \in 0 .. (d - 1)
  BY WireAssumption DEF Queues
<1>3. q \in 0 .. (d - 1)
  <2>1. NumSlots \in Nat /\ NumSlots > 0
    BY WireAssumption DEF NumSlots
  <2>2. s \in Int
    BY <2>1, DivDef
  <2>3. s % d \in 0 .. (d - 1)
    BY <2>2, <1>2, DivDef
  <2> QED  BY <2>3, <1>2 DEF QueueOf
<1>4. m = d * k + q /\ d * k \in Int
  <2>1. k * d = d * k /\ d * k \in Int
    BY SMT
  <2> QED  BY <2>1, <1>1, <1>2
<1>5. (n - 1) * d = d * n - d /\ n * d = d * n /\ d * n \in Int /\ (n + 1 - 1) * d = d * n
      /\ (n + 1) * d = d * n + d
  BY SMT
<1>6. d * n - d + t < m /\ m <= d * n + t
  BY <1>2, <1>5 DEF Dealt
<1>7. CASE t = q
  <2>0. PICK x \in Int, y \in Int : x = d * k /\ y = d * n
    BY <1>4, <1>5
  <2>1. ~(k < n)
    <3>1. ASSUME k < n PROVE x + d <= y
      BY <3>1, <2>0, ProductStep
    <3>2. y - d + t < x + t
      BY <2>0, <1>4, <1>6, <1>7
    <3> QED  BY <3>1, <3>2, <1>2
  <2>2. ~(n < k)
    <3>1. ASSUME n < k PROVE y + d <= x
      BY <3>1, <2>0, ProductStep
    <3>2. x + t <= y + t
      BY <2>0, <1>4, <1>6, <1>7
    <3> QED  BY <3>1, <3>2, <1>2
  <2>3. k = n
    BY <2>1, <2>2
  <2>4. m = d * n + t
    BY <2>3, <1>4, <1>7
  <2>5. d * n + t < m + 1 /\ m + 1 <= d * n + d + t
    BY <2>4, <1>2, <1>5
  <2>6. Dealt(t, n + 1, m + 1)
    BY <2>5, <1>2, <1>5 DEF Dealt
  <2> QED  BY <2>3, <2>6, <1>1, <1>7
<1>8. CASE t # q
  <2>1. m # d * n + t
    <3>1. ASSUME m = d * n + t PROVE m % d = t
      BY <3>1, <1>2, DivUnique
    <3>2. m % d = q
      <4>1. PICK p \in 0 .. (d - 1) : p = q
        BY <1>3
      <4>2. m = d * k + p
        BY <4>1, <1>4
      <4>3. k \in Int /\ m \in Int /\ d > 0
        BY <1>2
      <4>4. m % d = p
        BY <4>2, <4>3, DivUnique
      <4> QED  BY <4>1, <4>4
    <3> QED  BY <3>1, <3>2, <1>8
  <2>2. d * n - d + t < m + 1 /\ m + 1 <= d * n + t
    BY <2>1, <1>2, <1>5, <1>6
  <2>3. Dealt(t, n, m + 1)
    BY <2>2, <1>2, <1>5 DEF Dealt
  <2> QED  BY <2>3, <1>8
<1> QED  BY <1>7, <1>8

\* The n-th command of a window is for the n-th buffer.
LEMMA NthOfWindow ==
  ASSUME NEW q \in Queues, NEW a \in Nat, NEW b \in Buffers
  PROVE  NthSlot(q, SlotsPerQp * a + b) = WorkerSlot(q, b)
<1>1. PICK w \in Nat : w = SlotsPerQp /\ w > 0 /\ b \in 1 .. w
  BY WireAssumption DEF Buffers
<1>2. w * a + b - 1 = w * a + (b - 1) /\ b - 1 \in 0 .. (w - 1) /\ w * a + b - 1 \in Int
  BY <1>1
<1>3. (w * a + b - 1) % w = b - 1
  BY <1>1, <1>2, DivUnique
<1>4. b - 1 + 1 = b
  BY <1>1
<1> QED  BY <1>1, <1>3, <1>4 DEF NthSlot

\* The rotation: the places of a round are different slots, and a step of
\* next_slot_ moves all of them by one.
LEMMA RotatedFacts ==
  ASSUME TypeOK
  PROVE  /\ Rotated(0) = nextSlot /\ Rotated(NumSlots) = nextSlot
         /\ \A j \in Nat : Rotated(j) \in Slots
         /\ \A j \in 0 .. NumSlots - 1, k \in 0 .. NumSlots - 1 : Rotated(j) = Rotated(k) => j = k
         /\ nextSlot' = (nextSlot + 1) % NumSlots => \A j \in Nat : Rotated(j)' = Rotated(j + 1)
<1>1. NumSlots \in Nat /\ NumSlots >= 1 /\ nextSlot \in 0 .. NumSlots - 1
  BY SlotFacts DEF TypeOK, ClientTypeOK
<1>2. PICK d \in Nat, x \in Nat : d = NumSlots /\ x = nextSlot /\ d > 0 /\ x < d
  BY <1>1
<1>3. /\ (x + d) % d = x % d /\ x % d = x
      /\ \A j \in 0 .. (d - 1), k \in 0 .. (d - 1) : (x + j) % d = (x + k) % d => j = k
  BY <1>2, Rounds
<1>4. Rotated(0) = nextSlot
  <2>1. x + 0 = x
    OBVIOUS
  <2> QED  BY <2>1, <1>2, <1>3 DEF Rotated
<1>5. Rotated(NumSlots) = nextSlot
  BY <1>2, <1>3 DEF Rotated
<1>6. \A j \in Nat : Rotated(j) \in Slots
  <2>1. \A j \in Nat : nextSlot + j \in Nat
    BY <1>2
  <2> QED  BY <2>1, SlotFacts DEF Rotated
<1>7. \A j \in 0 .. NumSlots - 1, k \in 0 .. NumSlots - 1 : Rotated(j) = Rotated(k) => j = k
  BY <1>2, <1>3 DEF Rotated
<1>8. ASSUME nextSlot' = (nextSlot + 1) % NumSlots, NEW j \in Nat PROVE Rotated(j)' = Rotated(j + 1)
  <2>1. PICK y \in Nat : y = x + 1
    OBVIOUS
  <2>2. ((y % d) + j) % d = (y + j) % d
    <3>1. \A i \in Nat : ((y % d) + i) % d = (y + i) % d
      BY <1>2, Rounds, ZenonT(40)
    <3> QED  BY <3>1
  <2>3. y + j = x + (j + 1)
    BY <2>1
  <2>4. Rotated(j)' = ((y % d) + j) % d
    BY <2>1, <1>2, <1>8 DEF Rotated, NumSlots
  <2>5. Rotated(j + 1) = (x + (j + 1)) % d
    BY <1>2 DEF Rotated
  <2> QED  BY <2>2, <2>3, <2>4, <2>5
<1> QED  BY <1>4, <1>5, <1>6, <1>7, <1>8

\* A queue that nobody touches keeps its order.
LEMMA QueueOrderKept ==
  ASSUME NEW q \in Queues, OrderInv(q), worker'[q] = worker[q], recvBuf'[q] = recvBuf[q],
         arrived'[q] = arrived[q], sends'[q] = sends[q]
  PROVE  OrderInv(q)' /\ Carried(q)' = Carried(q)
<1>1. Received(q)' = Received(q) /\ Filled(q)' = Filled(q)
  BY DEF Received, Filled
<1>2. Carried(q)' = Carried(q)
  BY <1>1 DEF Carried
<1>3. \A n : NthSlot(q, n)' = NthSlot(q, n)
  BY DEF NthSlot, WorkerSlot
<1> QED  BY <1>1, <1>2, <1>3 DEF OrderInv

\* The application has done something that is not a submission.
LEMMA LoopOrderKept ==
  ASSUME OrderedInv, UNCHANGED serverVars, sends' = sends
  PROVE  /\ firstError' = "none" /\ \A q \in Queues : OrderInv(q)' /\ Carried(q)' = Carried(q)
<1>1. worker' = worker /\ recvBuf' = recvBuf /\ arrived' = arrived /\ firstError' = firstError
  BY DEF serverVars
<1>2. \A q \in Queues : OrderInv(q)' /\ Carried(q)' = Carried(q)
  BY <1>1, QueueOrderKept DEF OrderedInv
<1> QED  BY <1>1, <1>2 DEF OrderedInv

\* The loop allocates the slot the rotation is at.
LEMMA AllocateOrder ==
  ASSUME IInv, LoopInv, OrderedInv, ~SelectQueue, AppAllocate PROVE OrderedInv'
<1>0. /\ TypeOK /\ RotationInv /\ phase = "allocate" /\ allocated \in [Slots -> BOOLEAN]
      /\ window \in Seq(Slots) /\ nextId \in Nat /\ nextId >= 1
  BY StateFacts, WireAssumption DEF IInv, OrderedInv, AppAllocate, LoopInv
<1>1. /\ IF FreeAttempts(Queues) = {}
         THEN phase' = "aborted" /\ UNCHANGED <<vars, window, perQueue>>
         ELSE LET s == Rotated(Min(FreeAttempts(Queues))) IN
              /\ AllocateSlot(Queues) /\ UNCHANGED serverVars
              /\ window' = Append(window, s)
              /\ phase' = "submit"
  BY DEF AppAllocate, Eligible
<1>2. CASE FreeAttempts(Queues) = {}
  <2>1. phase' = "aborted" /\ UNCHANGED serverVars /\ sends' = sends
    BY <1>1, <1>2 DEF vars, serverVars
  <2> QED  BY <2>1, LoopOrderKept DEF OrderedInv
<1>3. CASE FreeAttempts(Queues) # {}
  <2>1. PICK N \in Nat, L \in Nat : N = NumSlots /\ L = Len(window) /\ N >= 1 /\ L <= N
    BY <1>0, SlotFacts, SMTT(30) DEF RotationInv
  <2>2. \A j \in 0 .. N - 1 : allocated[Rotated(j)] <=> j >= N - L
    BY <2>1, <1>0 DEF RotationInv
  <2>3. L < N
    <3>1. PICK a \in 0 .. N - 1 : ~allocated[Rotated(a)]
      BY <2>1, <1>3 DEF FreeAttempts
    <3>2. ~(a >= N - L)
      BY <3>1, <2>2
    <3> QED  BY <3>2, <2>1
  <2>4. Min(FreeAttempts(Queues)) = 0
    <3>1. 0 \in 0 .. N - 1 /\ ~(0 >= N - L)
      BY <2>1, <2>3
    <3>2. ~allocated[Rotated(0)]
      BY <3>1, <2>2
    <3>3. QueueOf(Rotated(0)) \in Queues
      BY <1>0, RotatedFacts, QueueOfSlot
    <3>4. 0 \in FreeAttempts(Queues)
      BY <3>1, <3>2, <3>3, <2>1 DEF FreeAttempts
    <3>5. FreeAttempts(Queues) \subseteq Nat
      BY <2>1 DEF FreeAttempts
    <3>6. Min(FreeAttempts(Queues)) \in Nat /\ Min(FreeAttempts(Queues)) <= 0
      BY <3>4, <3>5, LeastIn
    <3> QED  BY <3>6
  <2>5. PICK s \in Slots : s = Rotated(0) /\ s = nextSlot
    BY <1>0, RotatedFacts DEF TypeOK, ClientTypeOK
  <2>6. /\ allocated' = [allocated EXCEPT ![s] = TRUE] /\ nextSlot' = (nextSlot + 1) % NumSlots
        /\ nextId' = nextId + 1 /\ sends' = sends /\ UNCHANGED serverVars
        /\ window' = Append(window, s) /\ phase' = "submit"
    BY <2>4, <2>5, <1>1, <1>3 DEF AllocateSlot, wireVars
  <2>7. nextSlot = (nextId - 1) % NumSlots
    BY <1>0 DEF RotationInv
  <2>8. nextSlot' = (nextId' - 1) % NumSlots
    <3>1. PICK x \in Nat : x = nextId - 1 /\ x + 1 = nextId + 1 - 1
      BY <1>0
    <3>2. N > 0
      BY <2>1
    <3>3. ((x % N) + 1) % N = (x + 1) % N
      BY <3>2, Rounds
    <3>4. nextSlot = x % N
      BY <3>1, <2>1, <2>7
    <3>5. nextSlot' = (x + 1) % N
      BY <3>3, <3>4, <2>1, <2>6
    <3>6. nextId' - 1 = x + 1
      BY <3>1, <2>6, <1>0
    <3> QED  BY <3>5, <3>6, <2>1
  <2>9. Len(window') = L + 1 /\ window'[L + 1] = s /\ \A k \in 1 .. L : window'[k] = window[k]
    BY <2>1, <2>6, <1>0
  <2>10. \A j \in Nat : Rotated(j)' = Rotated(j + 1)
    BY <2>6, <1>0, RotatedFacts
  <2>11. Rotated(N) = s
    BY <2>1, <2>5, <1>0, RotatedFacts
  <2>12. ASSUME NEW j \in 0 .. N - 1
         PROVE  allocated'[Rotated(j)'] <=> j >= N - (L + 1)
    <3>1. Rotated(j)' = Rotated(j + 1)
      BY <2>10
    <3>2. CASE j = N - 1
      <4>1. Rotated(j)' = s
        <5>1. j + 1 = N
          BY <3>2
        <5> QED  BY <5>1, <3>1, <2>11
      <4>2. allocated'[s]
        BY <2>6, <1>0
      <4>3. j >= N - (L + 1)
        BY <3>2, <2>1
      <4> QED  BY <4>1, <4>2, <4>3
    <3>3. CASE j # N - 1
      <4>1. PICK i \in 0 .. N - 1 : i = j + 1 /\ i # 0
        BY <3>3
      <4>2. Rotated(i) # s
        <5>1. 0 \in 0 .. NumSlots - 1 /\ i \in 0 .. NumSlots - 1
          BY <2>1
        <5> QED  BY <5>1, <4>1, <2>5, <1>0, RotatedFacts
      <4>3. Rotated(i) \in Slots
        BY <1>0, RotatedFacts
      <4>4. allocated'[Rotated(i)] <=> allocated[Rotated(i)]
        BY <4>2, <4>3, <2>6, <1>0
      <4>5. (i >= N - L) <=> (j >= N - (L + 1))
        BY <4>1, <2>1
      <4>6. allocated[Rotated(i)] <=> i >= N - L
        BY <2>2
      <4> QED  BY <3>1, <4>1, <4>4, <4>5, <4>6
    <3> QED  BY <3>2, <3>3
  <2>13. ASSUME NEW k \in 1 .. L + 1 PROVE window'[k] = Rotated(N - (L + 1) + k - 1)'
    <3>1. PICK j \in Nat : j = N - (L + 1) + k - 1
      <4>1. N - (L + 1) + k - 1 \in Nat
        BY <2>3
      <4> QED  BY <4>1
    <3>2. Rotated(j)' = Rotated(j + 1)
      BY <2>10
    <3>3. CASE k = L + 1
      <4>1. j + 1 = N
        BY <3>1, <3>3
      <4> QED  BY <3>1, <3>2, <3>3, <4>1, <2>9, <2>11
    <3>4. CASE k # L + 1
      <4>1. k \in 1 .. L /\ j + 1 = N - L + k - 1
        BY <3>1, <3>4
      <4>2. window[k] = Rotated(N - L + k - 1)
        BY <4>1, <2>1, <1>0 DEF RotationInv
      <4> QED  BY <3>1, <3>2, <4>1, <4>2, <2>9
    <3> QED  BY <3>3, <3>4
  <2>14. nextId' >= 2 /\ window'[Len(window')] = (nextId' - 2) % NumSlots
    <3>1. nextId' - 2 = nextId - 1 /\ nextId' >= 2
      BY <2>6, <1>0
    <3> QED  BY <3>1, <2>5, <2>7, <2>9
  <2>15. \A q \in Queues : Dealt(q, Carried(q), PostedCommands)'
    <3>1. PostedCommands' = PostedCommands
      <4>1. nextId + 1 - 2 = nextId - 1
        BY <1>0
      <4> QED  BY <4>1, <2>6, <1>0 DEF PostedCommands
    <3>2. \A q \in Queues : Carried(q)' = Carried(q)
      BY <2>6, LoopOrderKept
    <3> QED  BY <3>1, <3>2, <1>0 DEF RotationInv, Dealt
  <2>16. NumSlots' = NumSlots
    BY DEF NumSlots
  <2>17. RotationInv'
    <3>1. \A j \in 0 .. NumSlots - 1 : allocated'[Rotated(j)'] <=> j >= NumSlots - Len(window')
      BY <2>1, <2>9, <2>12
    <3>2. \A k \in 1 .. Len(window') : (window[k] = Rotated(NumSlots - Len(window) + k - 1))'
      BY <2>1, <2>9, <2>13 DEF Rotated
    <3>3. Len(window') <= NumSlots
      BY <2>1, <2>3, <2>9
    <3> QED  BY <3>1, <3>2, <3>3, <2>8, <2>14, <2>15, <2>16 DEF RotationInv
  <2> QED  BY <2>6, <2>17, LoopOrderKept DEF OrderedInv
<1> QED  BY <1>2, <1>3

\* The loop submits from the slot it allocated last.
LEMMA SubmitOrder ==
  ASSUME IInv, LoopInv, OrderedInv, ~Faults, AppSubmit PROVE OrderedInv'
<1>0. /\ TypeOK /\ RotationInv /\ phase = "submit" /\ window # <<>> /\ nextId \in Nat
      /\ sends \in [Queues -> Seq(SendRecords)]
  BY StateFacts, WireAssumption DEF IInv, OrderedInv, AppSubmit, LoopInv
<1>1. PICK s \in Slots, m \in Nat : s = window[Len(window)] /\ m = nextId - 2 /\ s = m % NumSlots
  <2>1. nextId >= 2 /\ window[Len(window)] = (nextId - 2) % NumSlots
    BY <1>0 DEF RotationInv
  <2>2. nextId - 2 \in Nat
    BY <2>1, <1>0
  <2> QED  BY <2>1, <2>2, <1>0, WindowSlots
<1>2. Submit(s) /\ phase' \in {"allocate", "collect"} /\ window' = window
  BY <1>1 DEF AppSubmit
<1>3. PICK op \in Operations, offset \in Offsets : StorageSubmit(s, op, offset)
  BY <1>2 DEF Submit
<1>4. /\ PostCommand(s) /\ allocated' = allocated /\ nextSlot' = nextSlot /\ nextId' = nextId
      /\ UNCHANGED serverVars
  <2>1. PostCommand(s)
    BY <1>3 DEF StorageSubmit
  <2> QED  BY <2>1, <1>2, <1>3 DEF StorageSubmit, Submit
<1>5. worker' = worker /\ recvBuf' = recvBuf /\ arrived' = arrived /\ firstError' = firstError
  BY <1>4 DEF serverVars
<1>6. PICK q \in Queues : q = QueueOf(s)
  BY QueueOfSlot
<1>7. PICK x : x = [slot |-> s, id |-> slotState[s].id]
  OBVIOUS
<1>8. sends' = [sends EXCEPT ![q] = Append(@, x)]
  BY <1>4, <1>6, <1>7 DEF PostCommand
<1>9. /\ sends'[q] = Append(sends[q], x)
      /\ \A t \in Queues \ {q} : sends'[t] = sends[t]
  BY <1>0, <1>8
<1>10. PICK l \in Nat : /\ l = Len(sends[q]) /\ Len(sends'[q]) = l + 1 /\ sends'[q][l + 1] = x
                        /\ \A k \in 1 .. l : sends'[q][k] = sends[q][k]
  BY <1>0, <1>9
<1>11. ASSUME NEW t \in Queues, t # q PROVE OrderInv(t)' /\ Carried(t)' = Carried(t)
  BY <1>5, <1>9, <1>11, QueueOrderKept DEF OrderedInv
<1>12. PICK p \in Nat : p = worker[q].served + Received(q) + arrived[q]
  BY WorkerFacts
<1>13. /\ Received(q)' = Received(q) /\ Filled(q)' = Filled(q)
       /\ Carried(q) = p + l /\ Carried(q)' = p + l + 1
  <2>1. Received(q)' = Received(q) /\ Filled(q)' = Filled(q)
    BY <1>5 DEF Received, Filled
  <2>2. Carried(q) = p + l
    BY <1>10, <1>12 DEF Carried
  <2>3. Carried(q)' = p + (l + 1)
    BY <2>1, <1>5, <1>10, <1>12 DEF Carried
  <2> QED  BY <2>1, <2>2, <2>3
<1>14. PostedCommands = m /\ PostedCommands' = m + 1
  <2>1. nextId - 1 = m + 1
    BY <1>0, <1>1
  <2>2. phase' # "submit"
    BY <1>2
  <2> QED  BY <2>1, <2>2, <1>0, <1>1, <1>4 DEF PostedCommands
<1>15. \A t \in Queues : Dealt(t, Carried(t), m) /\ Carried(t) \in Nat
  <2>1. \A t \in Queues : Carried(t) \in Nat
    BY WorkerFacts, SMTT(30) DEF Carried
  <2> QED  BY <2>1, <1>0, <1>14 DEF RotationInv
<1>16. s = NthSlot(q, p + l + 1)
  BY <1>1, <1>6, <1>13, <1>15, DealtNext
<1>17. OrderInv(q)'
  <2>1. OrderInv(q)
    BY DEF OrderedInv
  <2>2. ASSUME NEW k \in 1 .. l + 1 PROVE sends'[q][k].slot = NthSlot(q, p + k)
    <3>1. CASE k = l + 1
      <4>1. p + k = p + l + 1
        BY <3>1
      <4>2. x.slot = s
        BY <1>7
      <4> QED  BY <3>1, <4>1, <4>2, <1>10, <1>16
    <3>2. CASE k # l + 1
      <4>1. k \in 1 .. l
        BY <3>2
      <4>2. sends[q][k].slot = NthSlot(q, p + k)
        BY <4>1, <2>1, <1>10, <1>12 DEF OrderInv
      <4> QED  BY <4>1, <4>2, <1>10
    <3> QED  BY <3>1, <3>2
  <2>3. \A n : NthSlot(q, n)' = NthSlot(q, n)
    BY DEF NthSlot, WorkerSlot
  <2> QED  BY <2>1, <2>2, <2>3, <1>5, <1>10, <1>12, <1>13 DEF OrderInv
<1>18. ASSUME NEW t \in Queues PROVE Dealt(t, Carried(t), PostedCommands)'
  <2>1. CASE t = q
    <3>1. Dealt(t, p + l + 1, m + 1)
      BY <2>1, <1>1, <1>6, <1>13, <1>15, DealtNext
    <3> QED  BY <3>1, <2>1, <1>13, <1>14 DEF Dealt
  <2>2. CASE t # q
    <3>1. Dealt(t, Carried(t), m + 1)
      BY <2>2, <1>1, <1>6, <1>15, DealtNext
    <3> QED  BY <3>1, <2>2, <1>11, <1>14 DEF Dealt
  <2> QED  BY <2>1, <2>2
<1>19. RotationInv'
  <2>1. \A j : Rotated(j)' = Rotated(j)
    BY <1>4 DEF Rotated, NumSlots
  <2>2. NumSlots' = NumSlots
    BY DEF NumSlots
  <2>3. phase' # "submit"
    BY <1>2
  <2>4. \A k \in 1 .. Len(window') : (window[k] = Rotated(NumSlots - Len(window) + k - 1))'
    BY <1>0, <1>2, <1>4 DEF RotationInv, Rotated
  <2> QED  BY <2>1, <2>2, <2>3, <2>4, <1>0, <1>2, <1>4, <1>18 DEF RotationInv
<1>20. \A t \in Queues : OrderInv(t)'
  BY <1>11, <1>17
<1> QED  BY <1>5, <1>19, <1>20 DEF OrderedInv

\* The loop releases the oldest slot of its window.
LEMMA ReleaseOrder ==
  ASSUME IInv, LoopInv, OrderedInv, AppRelease PROVE OrderedInv'
<1>0. /\ TypeOK /\ RotationInv /\ phase = "collect" /\ window # <<>>
      /\ allocated \in [Slots -> BOOLEAN] /\ window \in Seq(Slots)
  BY StateFacts DEF IInv, OrderedInv, AppRelease, LoopInv
<1>1. PICK s \in Slots : s = Head(window) /\ s = window[1]
  BY <1>0, WindowSlots
<1>2. /\ Release(s) /\ window' = Tail(window) /\ phase' \in {"collect", "allocate", "done"}
  BY <1>1 DEF AppRelease
<1>3. /\ allocated' = [allocated EXCEPT ![s] = FALSE] /\ nextSlot' = nextSlot /\ nextId' = nextId
      /\ sends' = sends /\ UNCHANGED serverVars
  BY <1>2 DEF Release, ReleaseSlot, wireVars
<1>4. PICK N \in Nat, L \in Nat :
        /\ N = NumSlots /\ L = Len(window) /\ N >= 1 /\ L <= N /\ L >= 1 /\ Len(window') = L - 1
        /\ \A k \in 1 .. L - 1 : window'[k] = window[k + 1]
  <2>1. /\ Len(window) \in Nat /\ Len(window) >= 1 /\ Len(window') = Len(window) - 1
        /\ \A k \in 1 .. Len(window) - 1 : window'[k] = window[k + 1]
    BY <1>0, <1>2
  <2>2. NumSlots \in Nat /\ NumSlots >= 1 /\ Len(window) <= NumSlots
    BY <1>0, SlotFacts DEF RotationInv
  <2> QED  BY <2>1, <2>2
<1>5. /\ \A j \in 0 .. N - 1 : allocated[Rotated(j)] <=> j >= N - L
      /\ \A k \in 1 .. L : window[k] = Rotated(N - L + k - 1)
  BY <1>0, <1>4 DEF RotationInv
<1>6. PICK o \in 0 .. N - 1 : o = N - L /\ s = Rotated(o)
  <2>1. N - L \in 0 .. N - 1 /\ 1 \in 1 .. L /\ N - L + 1 - 1 = N - L
    BY <1>4
  <2> QED  BY <2>1, <1>1, <1>5
<1>7. ASSUME NEW j \in 0 .. N - 1 PROVE allocated'[Rotated(j)] <=> j >= N - (L - 1)
  <2>1. Rotated(j) \in Slots
    BY <1>0, RotatedFacts
  <2>2. CASE j = o
    <3>1. ~allocated'[Rotated(j)]
      BY <2>1, <2>2, <1>0, <1>3, <1>6
    <3>2. ~(j >= N - (L - 1))
      BY <2>2, <1>6
    <3> QED  BY <3>1, <3>2
  <2>3. CASE j # o
    <3>1. Rotated(j) # s
      <4>1. j \in 0 .. NumSlots - 1 /\ o \in 0 .. NumSlots - 1
        BY <1>4
      <4> QED  BY <4>1, <2>3, <1>0, <1>6, RotatedFacts
    <3>2. allocated'[Rotated(j)] <=> allocated[Rotated(j)]
      BY <2>1, <3>1, <1>0, <1>3
    <3>3. (j >= N - L) <=> (j >= N - (L - 1))
      BY <2>3, <1>6
    <3>4. allocated[Rotated(j)] <=> j >= N - L
      BY <1>5
    <3> QED  BY <3>2, <3>3, <3>4
  <2> QED  BY <2>2, <2>3
<1>8. ASSUME NEW k \in 1 .. L - 1 PROVE window'[k] = Rotated(N - (L - 1) + k - 1)
  <2>1. k + 1 \in 1 .. L /\ N - L + (k + 1) - 1 = N - (L - 1) + k - 1
    OBVIOUS
  <2>2. window[k + 1] = Rotated(N - L + (k + 1) - 1)
    BY <2>1, <1>5
  <2> QED  BY <2>1, <2>2, <1>4
<1>9. \A j : Rotated(j)' = Rotated(j)
  BY <1>3 DEF Rotated, NumSlots
<1>10. NumSlots' = NumSlots
  BY DEF NumSlots
<1>11. RotationInv'
  <2>1. \A j \in 0 .. NumSlots - 1 : allocated'[Rotated(j)'] <=> j >= NumSlots - Len(window')
    BY <1>4, <1>7, <1>9
  <2>2. \A k \in 1 .. Len(window') : (window[k] = Rotated(NumSlots - Len(window) + k - 1))'
    BY <1>3, <1>4, <1>8 DEF Rotated
  <2>3. Len(window') <= NumSlots /\ phase' # "submit"
    BY <1>2, <1>4
  <2>4. \A q \in Queues : Dealt(q, Carried(q), PostedCommands)'
    <3>1. PostedCommands' = PostedCommands
      BY <1>0, <1>3, <2>3 DEF PostedCommands
    <3>2. \A q \in Queues : Carried(q)' = Carried(q)
      BY <1>3, LoopOrderKept
    <3> QED  BY <3>1, <3>2, <1>0 DEF RotationInv, Dealt
  <2>5. nextSlot' = (nextId' - 1) % NumSlots
    BY <1>0, <1>3 DEF RotationInv
  <2> QED  BY <2>1, <2>2, <2>3, <2>4, <2>5, <1>10 DEF RotationInv
<1> QED  BY <1>3, <1>11, LoopOrderKept DEF OrderedInv

\* Other steps of the loop leave the rotation and the queues alone.
LEMMA LoopOrder ==
  ASSUME IInv, LoopInv, OrderedInv, ~Faults, ~SelectQueue, App PROVE OrderedInv'
<1>1. CASE AppSubmitFails
  <2>1. PICK s : SubmitFails(s) /\ phase' = "aborted"
    BY <1>1 DEF AppSubmitFails
  <2>2. PICK op, offset : RaStorageRefused(s, op, offset)
    BY <2>1 DEF SubmitFails, RaStorageAbandons, LaunchFails
  <2>3. sends' = sends /\ UNCHANGED serverVars
    BY <2>1, <2>2 DEF SubmitFails, RaStorageRefused, wireVars
  <2> QED  BY <2>1, <2>3, LoopOrderKept DEF OrderedInv
<1>2. CASE AppWait
  <2>1. /\ Wait(Head(window)) /\ phase = "collect" /\ phase' \in {"collect", "aborted"} /\ window' = window
    BY <1>2 DEF AppWait
  <2>2. /\ sends' = sends /\ allocated' = allocated /\ nextSlot' = nextSlot /\ nextId' = nextId
        /\ UNCHANGED serverVars
    BY <2>1 DEF Wait, StorageWait, wireVars
  <2>3. /\ firstError' = "none" /\ \A q \in Queues : OrderInv(q)' /\ Carried(q)' = Carried(q)
    BY <2>2, LoopOrderKept
  <2>4. ASSUME phase' # "aborted" PROVE RotationInv'
    <3>1. RotationInv /\ phase' = phase
      BY <2>1, <2>4 DEF OrderedInv
    <3>2. PostedCommands' = PostedCommands
      BY <3>1, <2>2 DEF PostedCommands
    <3>3. \A q \in Queues : Dealt(q, Carried(q), PostedCommands)'
      BY <3>1, <3>2, <2>3 DEF RotationInv, Dealt
    <3>4. NumSlots' = NumSlots /\ \A j : Rotated(j)' = Rotated(j)
      BY <2>2 DEF Rotated, NumSlots
    <3>5. \A k \in 1 .. Len(window') : (window[k] = Rotated(NumSlots - Len(window) + k - 1))'
      BY <3>1, <2>1, <2>2 DEF RotationInv, Rotated
    <3> QED  BY <3>1, <3>3, <3>4, <3>5, <2>1, <2>2 DEF RotationInv
  <2> QED  BY <2>3, <2>4 DEF OrderedInv
<1>3. ~AppAllocateFails /\ ~AppWaitFails /\ ~AppReleaseFails
  BY DEF AppAllocateFails, AllocateSlotFails, AppWaitFails, WaitFails, StorageWaitFails,
         AppReleaseFails, ReleaseFails, ReleaseSlotFails
<1> QED  BY <1>1, <1>2, <1>3, AllocateOrder, SubmitOrder, ReleaseOrder DEF App

\* A step of the server on one queue: the client's rotation stays as it is.
LEMMA ServerOrder ==
  ASSUME OrderedInv, UNCHANGED clientVars, UNCHANGED appVars, firstError' = firstError,
         NEW q \in Queues, OrderInv(q)', Carried(q)' = Carried(q),
         \A t \in Queues \ {q} : /\ worker'[t] = worker[t] /\ recvBuf'[t] = recvBuf[t]
                                 /\ arrived'[t] = arrived[t] /\ sends'[t] = sends[t]
  PROVE  OrderedInv'
<1>1. /\ allocated' = allocated /\ nextSlot' = nextSlot /\ nextId' = nextId
      /\ phase' = phase /\ window' = window
  BY DEF clientVars, appVars
<1>2. \A t \in Queues : OrderInv(t)' /\ Carried(t)' = Carried(t)
  <2>1. ASSUME NEW t \in Queues, t # q PROVE OrderInv(t)' /\ Carried(t)' = Carried(t)
    BY <2>1, QueueOrderKept DEF OrderedInv
  <2> QED  BY <2>1
<1>3. ASSUME phase' # "aborted" PROVE RotationInv'
  <2>1. RotationInv
    BY <1>1, <1>3 DEF OrderedInv
  <2>2. PostedCommands' = PostedCommands
    BY <1>1 DEF PostedCommands
  <2>3. \A t \in Queues : Dealt(t, Carried(t), PostedCommands)'
    BY <2>1, <2>2, <1>2 DEF RotationInv, Dealt
  <2>4. NumSlots' = NumSlots /\ \A j : Rotated(j)' = Rotated(j)
    BY <1>1 DEF Rotated, NumSlots
  <2>5. \A k \in 1 .. Len(window') : (window[k] = Rotated(NumSlots - Len(window) + k - 1))'
    BY <2>1, <1>1 DEF RotationInv, Rotated
  <2> QED  BY <2>1, <2>3, <2>4, <2>5, <1>1 DEF RotationInv
<1> QED  BY <1>2, <1>3 DEF OrderedInv

\* A step in which the worker takes no command and finishes no window.
LEMMA WithinWindow ==
  ASSUME NEW q \in Queues, OrderInv(q), worker'[q].served = worker[q].served,
         Received(q)' = Received(q), recvBuf'[q] = recvBuf[q], arrived'[q] = arrived[q],
         sends'[q] = sends[q], Filled(q)' \subseteq Filled(q),
         worker'[q].phase # "done" => worker[q].phase # "done"
  PROVE  OrderInv(q)' /\ Carried(q)' = Carried(q)
<1>1. Carried(q)' = Carried(q)
  BY DEF Carried
<1>2. \A n : NthSlot(q, n)' = NthSlot(q, n)
  BY DEF NthSlot, WorkerSlot
<1> QED  BY <1>1, <1>2 DEF OrderInv

\* The record of a live slot deserializes.
LEMMA LiveValid ==
  ASSUME NEW q, NEW c, LiveRecord(q, c) PROVE CommandValid(c)
<1>1. PICK s \in LiveSlots : s = c.slot /\ c = commandBuf[s]
  BY DEF LiveRecord
<1>2. PICK op \in Operations, offset \in Offsets : Submitted(s, op, offset)
  BY DEF LiveSlots
<1>3. PICK i \in Ids : i = slotState[s].id /\ i # NoId /\ s \in Slots
  BY WireAssumption DEF LiveSlots, Ids, NoId
<1>4. c = SerializeStorageCommand(op, i, Entries(op, offset), s)
  BY <1>1, <1>2, <1>3 DEF Submitted
<1>5. op \in AllOperations /\ op # "none"
  BY EntriesFacts DEF AllOperations
<1>6. CASE IsBatch(op)
  <2>1. Len(Entries(op, offset)) = 2 /\ TotalLength(Entries(op, offset)) = 2
    BY <1>6, EntriesFacts
  <2>2. PICK n \in Nat : n = TotalLength(Entries(op, offset)) /\ n = 2
    BY <2>1
  <2>3. c = [op |-> op, id |-> i, offset |-> 2, length |-> n, size |-> 80,
             access |-> CommandAccess(op), slot |-> s]
    BY <2>1, <2>2, <1>3, <1>4, <1>6
       DEF SerializeStorageCommand, serialize_command, NoId, kStorageMaxBatchEntries, kStorageBatchEntryBytes
  <2>4. /\ c.op = op /\ c.access = CommandAccess(op) /\ c.id = i /\ c.length = 2 /\ c.offset = 2
        /\ c.size = 80
    BY <2>2, <2>3
  <2>5. c.offset <= kStorageMaxBatchEntries /\ c.size >= c.offset * kStorageBatchEntryBytes
    BY <2>4 DEF kStorageMaxBatchEntries, kStorageBatchEntryBytes
  <2>6. deserialize_command(c)
    BY <2>4, <1>3, <1>5 DEF deserialize_command
  <2> QED  BY <2>4, <2>5, <2>6, <1>6 DEF CommandValid
<1>7. CASE ~IsBatch(op)
  <2>1. Entries(op, offset)[1].offset = offset /\ Entries(op, offset)[1].length = 1
    BY <1>7, EntriesFacts
  <2>2. c = [op |-> op, id |-> i, offset |-> offset, length |-> 1, size |-> 1,
             access |-> CommandAccess(op), slot |-> s]
    BY <2>1, <1>3, <1>4, <1>7 DEF SerializeStorageCommand, serialize_command, NoId
  <2>3. c.op = op /\ c.access = CommandAccess(op) /\ c.id = i /\ c.length = 1 /\ c.size = 1
    BY <2>2
  <2>4. deserialize_command(c) /\ c.size >= c.length
    BY <2>3, <1>3, <1>5 DEF deserialize_command
  <2> QED  BY <2>3, <2>4, <1>7 DEF CommandValid
<1> QED  BY <1>6, <1>7

\* A thread starts with nothing received.
LEMMA StartOrder ==
  ASSUME IInv, OrderedInv, NEW q \in Queues, StartWorker(q), UNCHANGED clientVars, UNCHANGED appVars
  PROVE  OrderedInv'
<1>0. TypeOK /\ "serve" \in Phases /\ ReceiveInv(q) /\ OrderInv(q) /\ firstError = "none"
  BY WorkerFacts DEF IInv, Phases, OrderedInv
<1>1. /\ worker[q].phase = "start" /\ recvBuf' = recvBuf /\ arrived' = arrived /\ sends' = sends
      /\ firstError' = firstError /\ worker' = [worker EXCEPT ![q].phase = "serve"]
  BY <1>0 DEF StartWorker, wireVars
<1>2. /\ worker'[q].phase = "serve" /\ worker'[q].served = worker[q].served
      /\ worker'[q].pending = worker[q].pending
      /\ \A t \in Queues \ {q} : worker'[t] = worker[t]
  BY <1>0, <1>1, PhaseEdit
<1>3. arrived[q] = 0 /\ Received(q) = 0 /\ Received(q)' = Received(q)
  BY <1>0, <1>1, <1>2 DEF ReceiveInv, Received
<1>4. Filled(q)' \subseteq Filled(q)
  <2>1. Filled(q)' = {}
    BY <1>1, <1>3 DEF Filled, Buffers
  <2> QED  BY <2>1
<1>5. OrderInv(q)' /\ Carried(q)' = Carried(q)
  BY <1>0, <1>1, <1>2, <1>3, <1>4, WithinWindow
<1> QED  BY <1>1, <1>2, <1>5, ServerOrder

\* The next command is in the slot its receive is for, and it is taken.
LEMMA ReceiveOrder ==
  ASSUME IInv, OrderedInv, NEW q \in Queues, ReceiveCommand(q), UNCHANGED clientVars, UNCHANGED appVars
  PROVE  OrderedInv'
<1>0. /\ TypeOK /\ OrderInv(q) /\ firstError = "none" /\ worker[q].pending \in Seq(PendingCommands)
      /\ Received(q) \in Nat /\ arrived[q] \in Nat /\ worker[q].served \in Nat
      /\ worker[q].served <= Share(q) /\ FilledInv(q) /\ sends[q] \in Seq(SendRecords)
  BY WorkerFacts DEF IInv, OrderedInv
<1>1. PICK n \in Nat, z \in Nat, v \in Nat : n = Received(q) /\ z = arrived[q] /\ v = worker[q].served
  BY <1>0
<1>2. PICK b, c : b = n + 1 /\ c = recvBuf[q][b]
  OBVIOUS
<1>3. /\ worker[q].phase = "serve" /\ n < Window(q) /\ z > 0
      /\ arrived' = [arrived EXCEPT ![q] = @ - 1]
      /\ recvBuf' = recvBuf /\ sends' = sends
  BY <1>1 DEF ReceiveCommand, CanReceive, wireVars
<1>4. b \in Filled(q) /\ b \in Buffers
  <2>1. Window(q) \in Nat /\ Window(q) <= SlotsPerQp /\ SlotsPerQp \in Nat
    BY <1>0, WindowFacts
  <2>2. b \in 1 .. SlotsPerQp /\ b > n /\ b <= n + z
    BY <2>1, <1>2, <1>3
  <2> QED  BY <2>2, <1>1, <1>3 DEF Filled, Buffers
<1>5. CommandValid(c)
  BY <1>0, <1>2, <1>4, LiveValid DEF FilledInv
<1>6. c.slot = WorkerSlot(q, b)
  <2>1. PICK a \in Nat : v = SlotsPerQp * a
    BY <1>0, <1>1, <1>3 DEF OrderInv
  <2>2. c.slot = NthSlot(q, v + b)
    BY <1>0, <1>1, <1>2, <1>4 DEF OrderInv
  <2>3. NthSlot(q, SlotsPerQp * a + b) = WorkerSlot(q, b)
    BY <1>4, NthOfWindow
  <2> QED  BY <2>1, <2>2, <2>3
<1>7. worker' = [worker EXCEPT ![q].pending = Append(@, Accepted(c))] /\ firstError' = firstError
  BY <1>1, <1>2, <1>5, <1>6 DEF ReceiveCommand
<1>8. /\ worker'[q].phase = "serve" /\ worker'[q].served = v /\ Received(q)' = n + 1
      /\ \A t \in Queues \ {q} : worker'[t] = worker[t]
  <2>1. PICK w \in [phase : Phases, served : Nat, pending : Seq(PendingCommands)] : w = worker[q]
    BY <1>0, StateFacts DEF WorkerStates
  <2>2. PICK y, x : y = Append(w.pending, Accepted(c)) /\ x = [w EXCEPT !.pending = y]
    OBVIOUS
  <2>3. x.phase = w.phase /\ x.served = w.served /\ x.pending = y
    BY <2>2
  <2>4. Len(y) = n + 1
    BY <2>1, <2>2, <1>1 DEF Received
  <2>5. worker' = [worker EXCEPT ![q] = x] /\ worker \in [Queues -> WorkerStates]
    BY <2>1, <2>2, <1>0, <1>7, StateFacts
  <2>6. worker'[q] = x /\ \A t \in Queues \ {q} : worker'[t] = worker[t]
    BY <2>5
  <2> QED  BY <2>1, <2>3, <2>4, <2>6, <1>1, <1>3 DEF Received
<1>9. arrived'[q] = z - 1 /\ \A t \in Queues \ {q} : arrived'[t] = arrived[t]
  <2>1. arrived \in [Queues -> Nat]
    BY <1>0, StateFacts
  <2> QED  BY <2>1, <1>1, <1>3
<1>10. Filled(q)' \subseteq Filled(q)
  <2>1. ASSUME NEW d \in Filled(q)' PROVE d \in Filled(q)
    <3>1. d \in Buffers /\ d \in Nat /\ d > n + 1 /\ d <= n + 1 + (z - 1)
      BY <2>1, <1>8, <1>9, WireAssumption DEF Filled, Buffers
    <3>2. d > n /\ d <= n + z
      BY <3>1
    <3> QED  BY <3>1, <3>2, <1>1, <1>3 DEF Filled
  <2> QED  BY <2>1
<1>11. Carried(q)' = Carried(q)
  <2>1. PICK l \in Nat : l = Len(sends[q])
    BY <1>0
  <2>2. v + (n + 1) + (z - 1) + l = v + n + z + l
    OBVIOUS
  <2>3. Carried(q)' = v + (n + 1) + (z - 1) + l
    BY <2>1, <1>3, <1>8, <1>9 DEF Carried
  <2>4. Carried(q) = v + n + z + l
    BY <2>1, <1>1 DEF Carried
  <2> QED  BY <2>2, <2>3, <2>4
<1>12. OrderInv(q)'
  <2>1. \A d : NthSlot(q, d)' = NthSlot(q, d)
    BY DEF NthSlot, WorkerSlot
  <2>2. v + (n + 1) + (z - 1) = v + n + z
    OBVIOUS
  <2>3. \A k \in 1 .. Len(sends[q]) : sends[q][k].slot = NthSlot(q, v + n + z + k)
    BY <1>0, <1>1 DEF OrderInv
  <2>4. \A k \in 1 .. Len(sends'[q]) :
          sends'[q][k].slot = NthSlot(q, worker'[q].served + Received(q)' + arrived'[q] + k)
    BY <2>2, <2>3, <1>3, <1>8, <1>9
  <2>5. \A d \in Filled(q)' : recvBuf'[q][d].slot = NthSlot(q, worker'[q].served + d)
    BY <1>0, <1>1, <1>3, <1>8, <1>10 DEF OrderInv
  <2>6. \E a \in Nat : worker'[q].served = SlotsPerQp * a
    BY <1>0, <1>1, <1>3, <1>8 DEF OrderInv
  <2> QED  BY <2>1, <2>4, <2>5, <2>6 DEF OrderInv
<1> QED  BY <1>3, <1>7, <1>8, <1>9, <1>11, <1>12, ServerOrder

\* The descriptors of a batch are judged, or the completions posted.
LEMMA WindowOrder ==
  ASSUME IInv, OrderedInv, NEW q \in Queues, TakeDescriptor(q) \/ PostCompletions(q),
         UNCHANGED clientVars, UNCHANGED appVars
  PROVE  OrderedInv'
<1>0. TypeOK /\ OrderInv(q) /\ worker \in [Queues -> WorkerStates] /\ "complete" \in Phases
  BY StateFacts DEF IInv, OrderedInv, Phases
<1>1. /\ worker[q].phase = "serve" /\ recvBuf' = recvBuf /\ arrived' = arrived /\ sends' = sends
      /\ firstError' = firstError
  BY DEF TakeDescriptor, CanTakeDescriptor, PostCompletions, CanComplete, wireVars
<1>2. /\ worker'[q].phase \in {"serve", "complete"} /\ worker'[q].served = worker[q].served
      /\ Received(q)' = Received(q)
      /\ \A t \in Queues \ {q} : worker'[t] = worker[t]
  <2>1. CASE PostCompletions(q)
    <3>1. worker' = [worker EXCEPT ![q].phase = "complete"]
      BY <2>1 DEF PostCompletions
    <3>2. /\ worker'[q].phase = "complete" /\ worker'[q].served = worker[q].served
          /\ worker'[q].pending = worker[q].pending
          /\ \A t \in Queues \ {q} : worker'[t] = worker[t]
      BY <3>1, <1>0, PhaseEdit
    <3> QED  BY <3>2 DEF Received
  <2>2. CASE TakeDescriptor(q)
    <3>1. PICK i, p : worker' = [worker EXCEPT ![q].pending[i] = p]
      BY <2>2 DEF TakeDescriptor
    <3>2. PICK w \in [phase : Phases, served : Nat, pending : Seq(PendingCommands)] : w = worker[q]
      BY <1>0 DEF WorkerStates
    <3>3. PICK y : y = [w.pending EXCEPT ![i] = p]
      OBVIOUS
    <3>4. PICK v : v = [w EXCEPT !.pending = y]
      OBVIOUS
    <3>5. v.phase = w.phase /\ v.served = w.served /\ v.pending = y
      BY <3>4
    <3>6. Len(y) = Len(w.pending)
      BY <3>3
    <3>7. worker' = [worker EXCEPT ![q] = v]
      BY <3>1, <3>2, <3>3, <3>4
    <3>8. worker'[q] = v /\ \A t \in Queues \ {q} : worker'[t] = worker[t]
      BY <3>7, <1>0
    <3> QED  BY <3>2, <3>5, <3>6, <3>8, <1>1 DEF Received
  <2> QED  BY <2>1, <2>2
<1>3. Filled(q)' \subseteq Filled(q)
  BY <1>1, <1>2 DEF Filled
<1>4. OrderInv(q)' /\ Carried(q)' = Carried(q)
  BY <1>0, <1>1, <1>2, <1>3, WithinWindow
<1> QED  BY <1>1, <1>2, <1>4, ServerOrder

\* The window is over; a window that is not the last one took all slots of the
\* queue, so that the next one begins at the first of them again.
LEMMA RetireOrder ==
  ASSUME IInv, OrderedInv, NEW q \in Queues, RetireWindow(q), UNCHANGED clientVars, UNCHANGED appVars
  PROVE  OrderedInv'
<1>0. /\ TypeOK /\ OrderInv(q) /\ worker \in [Queues -> WorkerStates] /\ ReceiveInv(q)
      /\ Received(q) \in Nat /\ arrived[q] \in Nat /\ worker[q].served \in Nat
      /\ worker[q].served <= Share(q) /\ sends[q] \in Seq(SendRecords) /\ receives[q] \in Seq(Buffers)
  BY StateFacts, WorkerFacts DEF IInv, OrderedInv
<1>1. PICK n \in Nat, z \in Nat, v \in Nat, l \in Nat, r \in Nat :
        /\ n = Received(q) /\ z = arrived[q] /\ v = worker[q].served /\ l = Len(sends[q])
        /\ r = Len(receives[q])
  BY <1>0, SMTT(30)
<1>2. PICK x, y : /\ x = (IF v + n < Share(q) THEN "serve" ELSE "done")
                  /\ y = [phase |-> x, served |-> v + n, pending |-> <<>>]
  OBVIOUS
<1>3. /\ worker[q].phase = "complete" /\ recvBuf' = recvBuf /\ arrived' = arrived /\ sends' = sends
      /\ firstError' = firstError /\ worker' = [worker EXCEPT ![q] = y]
  BY <1>1, <1>2 DEF RetireWindow, CanRetire, wireVars
<1>4. /\ worker'[q].phase = x /\ worker'[q].served = v + n /\ Received(q)' = 0
      /\ \A t \in Queues \ {q} : worker'[t] = worker[t]
  <2>1. worker'[q] = y /\ \A t \in Queues \ {q} : worker'[t] = worker[t]
    BY <1>0, <1>3
  <2>2. y.phase = x /\ y.served = v + n /\ y.pending = <<>>
    BY <1>2
  <2> QED  BY <2>1, <2>2 DEF Received
<1>5. PICK S \in Nat, A \in Nat, W \in Nat, P \in Nat :
        /\ S = Share(q) /\ A = ActiveSlots(q) /\ W = Window(q) /\ P = SlotsPerQp
        /\ A = IF S <= P THEN S ELSE P
        /\ W <= A /\ W + v <= S /\ (W = A \/ W + v = S)
        /\ n = W /\ r + n + z = A
  <2>1. /\ Share(q) \in Nat /\ ActiveSlots(q) \in Nat /\ Window(q) \in Nat /\ SlotsPerQp \in Nat
        /\ Window(q) <= ActiveSlots(q) /\ Window(q) + worker[q].served <= Share(q)
        /\ Window(q) = ActiveSlots(q) \/ Window(q) + worker[q].served = Share(q)
    BY <1>0, WindowFacts
  <2>2. Received(q) = Window(q) /\ Len(receives[q]) + Received(q) + arrived[q] = ActiveSlots(q)
    BY <1>0, <1>3 DEF ReceiveInv
  <2>3. ActiveSlots(q) = IF Share(q) <= SlotsPerQp THEN Share(q) ELSE SlotsPerQp
    BY <2>1, LeastOfTwo DEF ActiveSlots
  <2> QED  BY <2>1, <2>2, <2>3, <1>1
<1>6. ASSUME x # "done" PROVE n = P /\ z = 0
  <2>1. v + n < S
    BY <1>2, <1>5, <1>6
  <2>2. W = A
    BY <2>1, <1>5
  <2>3. ~(S <= P)
    BY <2>1, <2>2, <1>5
  <2> QED  BY <2>2, <2>3, <1>5
<1>7. worker'[q].phase # "done" => \E a \in Nat : worker'[q].served = SlotsPerQp * a
  <2>1. ASSUME x # "done" PROVE \E a \in Nat : v + n = P * a
    <3>1. PICK a \in Nat : v = P * a
      BY <1>0, <1>1, <1>3, <1>5 DEF OrderInv
    <3>2. P * (a + 1) = P * a + P /\ a + 1 \in Nat
      BY SMT
    <3>3. v + n = P * (a + 1)
      BY <3>1, <3>2, <2>1, <1>6
    <3> QED  BY <3>2, <3>3
  <2> QED  BY <2>1, <1>4, <1>5
<1>8. Filled(q)' = {}
  <2>1. ASSUME NEW d \in Filled(q)' PROVE FALSE
    <3>1. x = "serve" /\ d \in 1 .. P /\ d <= 0 + z
      BY <2>1, <1>1, <1>3, <1>4, <1>5 DEF Filled, Buffers
    <3>2. z = 0
      BY <3>1, <1>6
    <3> QED  BY <3>1, <3>2
  <2> QED  BY <2>1
<1>9. Carried(q)' = Carried(q)
  <2>1. Carried(q)' = (v + n) + 0 + z + l
    BY <1>1, <1>3, <1>4 DEF Carried
  <2>2. Carried(q) = v + n + z + l
    BY <1>1 DEF Carried
  <2> QED  BY <2>1, <2>2
<1>10. OrderInv(q)'
  <2>1. \A d : NthSlot(q, d)' = NthSlot(q, d)
    BY DEF NthSlot, WorkerSlot
  <2>2. (v + n) + 0 + z = v + n + z
    OBVIOUS
  <2>3. \A k \in 1 .. Len(sends[q]) : sends[q][k].slot = NthSlot(q, v + n + z + k)
    BY <1>0, <1>1 DEF OrderInv
  <2>4. \A k \in 1 .. Len(sends'[q]) :
          sends'[q][k].slot = NthSlot(q, worker'[q].served + Received(q)' + arrived'[q] + k)
    <3>1. worker'[q].served + Received(q)' + arrived'[q] = v + n + z /\ sends'[q] = sends[q]
      BY <2>2, <1>1, <1>3, <1>4
    <3> QED  BY <3>1, <2>3, Zenon
  <2> QED  BY <2>1, <2>4, <1>7, <1>8 DEF OrderInv
<1> QED  BY <1>3, <1>4, <1>9, <1>10, ServerOrder

\* A Send goes to the receive of its slot.
LEMMA DeliverOrder ==
  ASSUME IInv, OrderedInv, NEW q \in Queues, DeliverSend(q), UNCHANGED clientVars, UNCHANGED appVars
  PROVE  OrderedInv'
<1>0. /\ TypeOK /\ OrderInv(q) /\ ReceiveInv(q) /\ SendInv(q)
      /\ Received(q) \in Nat /\ arrived[q] \in Nat /\ worker[q].served \in Nat
      /\ sends[q] \in Seq(SendRecords) /\ receives[q] \in Seq(Buffers)
  BY WorkerFacts DEF IInv, OrderedInv
<1>1. PICK n \in Nat, z \in Nat, v \in Nat, l \in Nat :
        n = Received(q) /\ z = arrived[q] /\ v = worker[q].served /\ l = Len(sends[q])
  BY <1>0
<1>2. PICK h, m, c : h = Head(receives[q]) /\ m = Head(sends[q]) /\ c = commandBuf[m.slot]
  OBVIOUS
<1>3. /\ sends[q] # <<>> /\ receives[q] # <<>>
      /\ recvBuf' = [recvBuf EXCEPT ![q][h] = c]
      /\ sends' = [sends EXCEPT ![q] = Tail(@)]
      /\ arrived' = [arrived EXCEPT ![q] = @ + 1]
      /\ worker' = worker /\ firstError' = firstError
  BY <1>2 DEF DeliverSend
<1>4. h \in Buffers /\ h = receives[q][1] /\ Len(receives[q]) \in Nat /\ Len(receives[q]) >= 1
  BY <1>0, <1>2, <1>3, SMTT(30)
<1>5. PICK s : s = Tail(sends[q])
  OBVIOUS
<1>6. /\ m = sends[q][1] /\ l >= 1 /\ Len(s) = l - 1
      /\ \A k \in 1 .. l - 1 : s[k] = sends[q][k + 1]
  BY <1>0, <1>1, <1>2, <1>3, <1>5
<1>7. c.slot = m.slot
  <2>1. 1 \in 1 .. Len(sends[q])
    BY <1>1, <1>6
  <2>2. PICK x \in LiveSlots : x = m.slot
    BY <2>1, <1>0, <1>6 DEF SendInv
  <2>3. commandBuf[x].slot = x
    BY LiveFacts
  <2> QED  BY <2>2, <2>3, <1>2
<1>8. \A k \in 1 .. l : sends[q][k].slot = NthSlot(q, v + n + z + k)
  BY <1>0, <1>1 DEF OrderInv
<1>9. /\ recvBuf'[q][h] = c /\ \A b \in Buffers : b # h => recvBuf'[q][b] = recvBuf[q][b]
      /\ \A t \in Queues \ {q} : recvBuf'[t] = recvBuf[t]
  <2>1. recvBuf \in [Queues -> [Buffers -> CommandRecords]]
    BY <1>0, StateFacts
  <2>2. PICK g : g = [recvBuf[q] EXCEPT ![h] = c]
    OBVIOUS
  <2>3. recvBuf' = [recvBuf EXCEPT ![q] = g]
    BY <2>2, <1>3
  <2>4. recvBuf'[q] = g /\ \A t \in Queues \ {q} : recvBuf'[t] = recvBuf[t]
    BY <2>1, <2>3
  <2>5. g[h] = c /\ \A b \in Buffers : b # h => g[b] = recvBuf[q][b]
    BY <2>1, <2>2, <1>4
  <2> QED  BY <2>4, <2>5
<1>10. /\ sends'[q] = s /\ \A t \in Queues \ {q} : sends'[t] = sends[t]
       /\ arrived'[q] = z + 1 /\ \A t \in Queues \ {q} : arrived'[t] = arrived[t]
  <2>1. sends \in [Queues -> Seq(SendRecords)] /\ arrived \in [Queues -> Nat]
    BY <1>0, StateFacts
  <2> QED  BY <2>1, <1>1, <1>3, <1>5
<1>11. worker'[q] = worker[q] /\ Received(q)' = n
  BY <1>1, <1>3 DEF Received
<1>12. ASSUME NEW b \in Filled(q)' PROVE recvBuf'[q][b].slot = NthSlot(q, v + b)
  <2>1. worker[q].phase = "serve" /\ b \in Buffers /\ b > n /\ b <= n + (z + 1) /\ b \in Nat
    BY <1>10, <1>11, <1>12, WireAssumption DEF Filled, Buffers
  <2>2. h = n + z + 1
    <3>1. \A k \in 1 .. Len(receives[q]) : receives[q][k] = n + z + k
      BY <2>1, <1>0, <1>1 DEF ReceiveInv
    <3>2. 1 \in 1 .. Len(receives[q])
      BY <1>4
    <3> QED  BY <3>1, <3>2, <1>4
  <2>3. CASE b = h
    <3>1. 1 \in 1 .. l /\ v + n + z + 1 = v + h
      BY <2>2, <1>6
    <3>2. m.slot = NthSlot(q, v + n + z + 1)
      BY <3>1, <1>6, <1>8
    <3> QED  BY <3>1, <3>2, <2>3, <1>7, <1>9
  <2>4. CASE b # h
    <3>1. b <= n + z
      BY <2>1, <2>2, <2>4
    <3>2. b \in Filled(q)
      BY <3>1, <2>1, <1>1 DEF Filled
    <3> QED  BY <3>2, <2>1, <2>4, <1>0, <1>1, <1>9 DEF OrderInv
  <2> QED  BY <2>3, <2>4
<1>13. ASSUME NEW k \in 1 .. l - 1 PROVE s[k].slot = NthSlot(q, v + n + (z + 1) + k)
  <2>1. k + 1 \in 1 .. l /\ v + n + (z + 1) + k = v + n + z + (k + 1)
    OBVIOUS
  <2>2. sends[q][k + 1].slot = NthSlot(q, v + n + z + (k + 1))
    BY <2>1, <1>8
  <2> QED  BY <2>1, <2>2, <1>6
<1>14. Carried(q)' = Carried(q)
  <2>1. Carried(q)' = v + n + (z + 1) + (l - 1)
    BY <1>1, <1>6, <1>10, <1>11 DEF Carried
  <2>2. Carried(q) = v + n + z + l
    BY <1>1 DEF Carried
  <2> QED  BY <2>1, <2>2
<1>15. OrderInv(q)'
  <2>1. \A d : NthSlot(q, d)' = NthSlot(q, d)
    BY DEF NthSlot, WorkerSlot
  <2>2. worker'[q].phase # "done" => \E a \in Nat : worker'[q].served = SlotsPerQp * a
    BY <1>0, <1>11 DEF OrderInv
  <2>3. \A b \in Filled(q)' : recvBuf'[q][b].slot = NthSlot(q, worker'[q].served + b)
    BY <1>1, <1>11, <1>12
  <2>4. \A k \in 1 .. Len(sends'[q]) :
          sends'[q][k].slot = NthSlot(q, worker'[q].served + Received(q)' + arrived'[q] + k)
    BY <1>1, <1>6, <1>10, <1>11, <1>13
  <2> QED  BY <2>1, <2>2, <2>3, <2>4 DEF OrderInv
<1>16. \A t \in Queues \ {q} : worker'[t] = worker[t]
  BY <1>3
<1> QED  BY <1>3, <1>9, <1>10, <1>14, <1>15, <1>16, ServerOrder

\* A request finishes: nothing the order depends on changes.
LEMMA FinishOrder ==
  ASSUME IInv, OrderedInv, NEW q \in Queues, NEW kind, NEW i, FinishRequest(q, kind, i),
         UNCHANGED clientVars, UNCHANGED appVars
  PROVE  OrderedInv'
<1>0. TypeOK /\ OrderInv(q) /\ worker \in [Queues -> WorkerStates]
  BY StateFacts DEF IInv, OrderedInv
<1>1. recvBuf' = recvBuf /\ arrived' = arrived /\ sends' = sends /\ firstError' = firstError
  BY SMTT(30) DEF FinishRequest
<1>2. PICK e : worker' = worker \/ worker' = [worker EXCEPT ![q].pending[i].entries = e]
  BY DEF FinishRequest
<1>3. /\ worker'[q].phase = worker[q].phase /\ worker'[q].served = worker[q].served
      /\ Received(q)' = Received(q)
      /\ \A t \in Queues \ {q} : worker'[t] = worker[t]
  <2>1. CASE worker' = worker
    BY <2>1 DEF Received
  <2>2. CASE worker' = [worker EXCEPT ![q].pending[i].entries = e]
    <3>1. PICK w \in [phase : Phases, served : Nat, pending : Seq(PendingCommands)] : w = worker[q]
      BY <1>0 DEF WorkerStates
    <3>2. PICK p : p = [w.pending EXCEPT ![i].entries = e]
      OBVIOUS
    <3>3. PICK v : v = [w EXCEPT !.pending = p]
      OBVIOUS
    <3>4. v.phase = w.phase /\ v.served = w.served /\ v.pending = p
      BY <3>3
    <3>5. Len(p) = Len(w.pending)
      BY <3>2
    <3>6. worker' = [worker EXCEPT ![q] = v]
      BY <2>2, <3>1, <3>2, <3>3
    <3>7. worker'[q] = v /\ \A t \in Queues \ {q} : worker'[t] = worker[t]
      BY <3>6, <1>0
    <3> QED  BY <3>1, <3>4, <3>5, <3>7 DEF Received
  <2> QED  BY <2>1, <2>2, <1>2
<1>4. Filled(q)' \subseteq Filled(q)
  BY <1>1, <1>3 DEF Filled
<1>5. OrderInv(q)' /\ Carried(q)' = Carried(q)
  BY <1>0, <1>1, <1>3, <1>4, WithinWindow
<1> QED  BY <1>1, <1>3, <1>5, ServerOrder

\* A loop that has not begun.
LEMMA InitOrder ==
  ASSUME AppInit PROVE OrderedInv
<1>1. Init /\ phase = "allocate" /\ window = <<>>
  BY DEF AppInit
<1>2. IInv
  BY <1>1, InitIInv
<1>3. /\ allocated = [s \in Slots |-> FALSE] /\ nextSlot = 0 /\ nextId = 1
      /\ sends = [q \in Queues |-> <<>>] /\ arrived = [q \in Queues |-> 0] /\ firstError = "none"
      /\ worker = [q \in Queues |-> [phase |-> IF Share(q) = 0 THEN "done" ELSE "start",
                                     served |-> 0, pending |-> <<>>]]
  BY <1>1 DEF Init, WireInit, ClientInit, ServerInit
<1>4. ASSUME NEW q \in Queues PROVE worker[q].served = 0 /\ Received(q) = 0 /\ arrived[q] = 0 /\ sends[q] = <<>>
  BY <1>3 DEF Received
<1>5. ASSUME NEW q \in Queues PROVE OrderInv(q)
  <2>1. SlotsPerQp * 0 = 0 /\ 0 \in Nat
    BY WireAssumption
  <2>2. Filled(q) = {}
    BY <1>4 DEF Filled, Buffers
  <2>3. Len(sends[q]) = 0
    BY <1>4
  <2> QED  BY <2>1, <2>2, <2>3, <1>4 DEF OrderInv
<1>6. \A q \in Queues : Dealt(q, Carried(q), PostedCommands)
  <2>1. ASSUME NEW q \in Queues PROVE Carried(q) = 0
    BY <1>4 DEF Carried
  <2>2. PostedCommands = 0
    BY <1>1, <1>3 DEF PostedCommands
  <2>3. PICK d \in Nat : d = Qps /\ d > 0
    BY WireAssumption
  <2>4. ASSUME NEW q \in Queues PROVE (0 - 1) * d + q < 0 /\ 0 <= 0 * d + q
    BY <2>3 DEF Queues
  <2> QED  BY <2>1, <2>2, <2>3, <2>4 DEF Dealt
<1>7. NumSlots \in Nat /\ NumSlots >= 1 /\ \A j \in Nat : Rotated(j) \in Slots
  BY <1>2, SlotFacts, RotatedFacts DEF IInv
<1>8. RotationInv
  <2>1. Len(window) = 0 /\ phase # "submit"
    BY <1>1
  <2>2. nextSlot = (nextId - 1) % NumSlots
    <3>1. PICK d \in Nat : d = NumSlots /\ d > 0 /\ 0 < d
      BY <1>7
    <3>2. 0 % d = 0
      BY <3>1
    <3>3. nextId - 1 = 0
      BY <1>3
    <3> QED  BY <3>1, <3>2, <3>3, <1>3
  <2>3. \A j \in 0 .. NumSlots - 1 : ~allocated[Rotated(j)] /\ ~(j >= NumSlots - 0)
    BY <1>3, <1>7
  <2> QED  BY <2>1, <2>2, <2>3, <1>6, <1>7 DEF RotationInv
<1> QED  BY <1>3, <1>5, <1>8 DEF OrderedInv

\* Any step of the loop, the workers or the network.
LEMMA NextOrder ==
  ASSUME IInv, LoopInv, OrderedInv, ~Faults, ~SelectQueue, [AppNext]_allVars PROVE OrderedInv'
<1>1. CASE UNCHANGED allVars
  <2>1. UNCHANGED clientVars /\ UNCHANGED appVars /\ UNCHANGED serverVars /\ sends' = sends
    BY <1>1 DEF allVars, vars, clientVars, serverVars
  <2>2. firstError' = firstError /\ worker' = worker /\ recvBuf' = recvBuf /\ arrived' = arrived
    BY <2>1 DEF serverVars
  <2>3. \A q \in Queues : OrderInv(q)' /\ Carried(q)' = Carried(q)
    BY <2>1, LoopOrderKept
  <2>4. PICK q \in Queues : TRUE
    <3>1. 0 \in Queues
      BY WireAssumption DEF Queues
    <3> QED  BY <3>1
  <2> QED  BY <2>1, <2>2, <2>3, <2>4, ServerOrder
<1>2. CASE App
  BY <1>2, LoopOrder
<1>3. ASSUME NEW q \in Queues, Server(q), UNCHANGED appVars PROVE OrderedInv'
  <2>1. UNCHANGED clientVars
    BY <1>3 DEF Server
  <2>2. CASE WorkerStep(q)
    BY <2>1, <2>2, <1>3, StartOrder, ReceiveOrder, WindowOrder, RetireOrder DEF WorkerStep
  <2>3. ~WorkerFails(q)
    BY DEF WorkerFails
  <2>4. CASE Network(q)
    BY <2>1, <2>4, <1>3, DeliverOrder, FinishOrder DEF Network
  <2> QED  BY <2>2, <2>3, <2>4, <1>3 DEF Server
<1> QED  BY <1>1, <1>2, <1>3 DEF AppNext

\* The order in which the client's rotation hands out slots is the order in which
\* every worker posts its receives, whatever the number of queues, slots and
\* commands and the submission window: no worker ends with a protocol error.  The
\* hypotheses are needed: a loop that selects queues, and a Send that is refused,
\* leave gaps in the rotation.
THEOREM SlotOrder ==
  ASSUME ~Faults, ~SelectQueue
  PROVE  AppSpec => []NoProtocolError
<1>1. AppInit => OrderedInv
  BY InitOrder
<1>2. IInv /\ LoopInv /\ OrderedInv /\ [AppNext]_allVars => OrderedInv'
  BY NextOrder
<1>3. OrderedInv => NoProtocolError
  BY DEF OrderedInv, NoProtocolError
<1>4. AppSpec => [](IInv /\ LoopInv)
  BY LoopInvariance
<1> QED  BY <1>1, <1>2, <1>3, <1>4, PTL DEF AppSpec

=============================================================================
