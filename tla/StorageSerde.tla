---------------------------- MODULE StorageSerde ----------------------------
(***************************************************************************)
(* The storage records as they lie in memory and travel on the wire: the   *)
(* command, the batch entry and the completion (storage_protocol.hh), with *)
(* what serializing puts into them and what deserializing refuses, and the *)
(* range arithmetic both sides do on unsigned words.                       *)
(*                                                                         *)
(* Addresses and keys are left out: they are those of registered buffers   *)
(* and never zero.  The second word of a command is its offset, or the     *)
(* number of entries of a batch.                                           *)
(***************************************************************************)
EXTENDS Integers, Sequences, SequencesExt

CONSTANTS
  Capacity,  \* bytes of the namespace
  WordMax    \* the largest unsigned word, UINT64_MAX in the code

AllOperations == {"Read", "Write", "BatchRead", "BatchWrite"}
IsRead(op) == op \in {"Read", "BatchRead"}
IsBatch(op) == op \in {"BatchRead", "BatchWrite"}

NoId == 0
\* 1024 in the code; the model's batches have two entries
kStorageMaxBatchEntries == 2
kStorageBatchEntryBytes == 40

ASSUME SerdeAssumption ==
  /\ Capacity \in Nat \ {0} /\ WordMax \in Nat
  /\ Capacity <= WordMax /\ kStorageMaxBatchEntries <= WordMax

\* what the server does to the client's data: a storage Read writes to it
DataAccess(op) == IF IsRead(op) THEN "RemoteWrite" ELSE "RemoteRead"

\* what it does to the memory a command names: the descriptors of a batch are read
CommandAccess(op) == IF IsBatch(op) THEN "RemoteRead" ELSE DataAccess(op)

-----------------------------------------------------------------------------
\* Memory that holds no record: zeroed, as open leaves it.  It deserializes as
\* nothing, and stands for a record that was not serialized.
NoRecord == [op |-> "none", id |-> NoId, offset |-> 0, length |-> 0, size |-> 0,
             access |-> "none", slot |-> 0]

CommandRecords ==
  [op : AllOperations \cup {"none"}, id : Nat, offset : 0 .. WordMax, length : Nat, size : Nat,
   access : {"none", "RemoteRead", "RemoteWrite"}, slot : Nat]

serialize_command(op, id, offset, length, size, required, slot) ==
  IF id = NoId \/ length = 0 \/ size < required THEN NoRecord
  ELSE [op |-> op, id |-> id, offset |-> offset, length |-> length, size |-> size,
        access |-> CommandAccess(op), slot |-> slot]

TotalLength(entries) == FoldLeft(LAMBDA total, e : total + e.length, 0, entries)

\* serialize_storage_read, _write, _batch_read, _batch_write
SerializeStorageCommand(op, id, entries, slot) ==
  LET n == Len(entries)
      first == entries[1]
      bytes == n * kStorageBatchEntryBytes
  IN IF ~IsBatch(op)
     THEN serialize_command(op, id, first.offset, first.length, first.length, first.length, slot)
     ELSE IF n > kStorageMaxBatchEntries THEN NoRecord
     ELSE serialize_command(op, id, n, TotalLength(entries), bytes, bytes, slot)

\* deserialize_storage_operation and deserialize_command with the record's own
\* operation
deserialize_command(r) ==
  r.op # "none" /\ r.access = CommandAccess(r.op) /\ r.id # NoId /\ r.length # 0

\* deserialize_storage_read, _write, _batch_read, _batch_write
CommandValid(r) ==
  /\ deserialize_command(r)
  /\ IF IsBatch(r.op)
     THEN r.offset <= kStorageMaxBatchEntries /\ r.size >= r.offset * kStorageBatchEntryBytes
     ELSE r.size >= r.length

-----------------------------------------------------------------------------
serialize_batch_entry(op, offset, length) ==
  [offset |-> offset, length |-> length, size |-> length, access |-> DataAccess(op)]

deserialize_batch_entry(op, e) ==
  e.access = DataAccess(op) /\ e.length # 0 /\ e.size >= e.length

BatchEntries == [offset : 0 .. WordMax, length : Nat, size : Nat,
                 access : {"RemoteRead", "RemoteWrite"}]

\* Faulty form: the end of the range is computed, in a word that wraps.
InRangeWrapping(offset, length) == (offset + length) % (WordMax + 1) <= Capacity

\* the range check of either side: no sum that could wrap
InRange(offset, length) == offset <= Capacity /\ length <= Capacity - offset

-----------------------------------------------------------------------------
Statuses == {"Success", "InvalidCommand", "RangeError"}

NoCompletion == [id |-> NoId, state |-> "none", status |-> "Success", bytes |-> 0]

Completions == [id : Nat, state : {"none", "Pending", "Complete"}, status : Statuses, bytes : Nat]

\* serialize_storage_completion and deserialize_storage_completion refuse the same
CompletionValid(c) ==
  /\ c.id # NoId /\ c.state \in {"Pending", "Complete"}
  /\ c.state = "Pending" => c.status = "Success" /\ c.bytes = 0

=============================================================================
