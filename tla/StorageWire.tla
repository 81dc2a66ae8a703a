---------------------------- MODULE StorageWire ----------------------------
(***************************************************************************)
(* What the storage client and the storage server share once the session   *)
(* is bootstrapped: per slot the command record and the completion record  *)
(* in registered client memory, per queue pair the command Sends on their  *)
(* way to the server, and the namespace with the client's data buffers.    *)
(*                                                                         *)
(* The namespace is the sequence of the writes whose payload was applied,  *)
(* and what a storage Read brings back is the number of writes its payload *)
(* saw: all commands in range are taken to overlap, and the payload of a   *)
(* batch to land as a whole.                                               *)
(***************************************************************************)
EXTENDS StorageSerde, FiniteSets, FiniteSetsExt

CONSTANTS
  Qps,          \* queue pairs of the session
  SlotsPerQp,   \* kStorageSlotsPerQp
  CommandCount, \* commands the server serves, --storage-commands
  Operations,   \* the StorageOperation values the application uses
  Offsets,      \* the namespace offsets the application uses
  Backends,     \* the backends a session may run on
  Faults        \* whether Sends, copies and launches fail and waits run into their timeout

ASSUME WireAssumption ==
  /\ Qps \in Nat \ {0} /\ SlotsPerQp \in Nat \ {0} /\ CommandCount \in Nat \ {0}
  /\ Operations \subseteq AllOperations /\ Offsets \subseteq 0 .. WordMax
  /\ Backends \subseteq {"AIV", "AICPU", "RA"} /\ Backends # {}
  /\ Faults \in BOOLEAN

VARIABLES
  commandBuf,    \* slot -> the command record last written there
  entryBuf,      \* slot -> the batch entries its command points to
  completionBuf, \* slot -> the completion record
  sends,         \* queue -> command Sends posted and not delivered, oldest first
  namespace,     \* the writes applied, oldest first
  dataBuf        \* command -> what its Read payload delivered

wireVars == <<commandBuf, entryBuf, completionBuf, sends, namespace, dataBuf>>

Queues == 0 .. Qps - 1
Slots == 0 .. Qps * SlotsPerQp - 1
Ids == 1 .. CommandCount
NoData == -1

\* StorageClient::open deals the slots out to the queue pairs in turn.
QueueOf(s) == s % Qps

\* bytes of a plain command and of a batch entry
Length == 1

WireTypeOK ==
  /\ commandBuf \in [Slots -> CommandRecords]
  /\ entryBuf \in [Slots -> Seq(BatchEntries)]
  /\ completionBuf \in [Slots -> Completions]
  /\ sends \in [Queues -> Seq([slot : Slots, id : Ids])]
  /\ namespace \in Seq(Ids)
  /\ dataBuf \in [Ids -> Nat \cup {NoData}]

WireInit ==
  /\ commandBuf = [s \in Slots |-> NoRecord]
  /\ entryBuf = [s \in Slots |-> <<>>]
  /\ completionBuf = [s \in Slots |-> NoCompletion]
  /\ sends = [q \in Queues |-> <<>>]
  /\ namespace = <<>>
  /\ dataBuf = [i \in Ids |-> NoData]

=============================================================================
