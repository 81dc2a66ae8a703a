# NDS: a TLA+ verification of the RDMA transport and the storage protocol

NDS lets an Ascend NPU read and write the storage of a CPU server over RDMA. The
client's queue pairs are driven by the NPU itself (AIV kernels, AICPU kernels) or by the
host (RA). This directory models the parts of it that carry state and can go wrong in an
order nobody tests: the accounting of rings and credits, the completion of requests, the
slot protocol between client and server, the set-up of a session, and the life of the host
objects and the device memory a client program uses.

`tlc -config X.cfg M` runs a configuration (the table under *Runs* names the module),
`tlapm M.tla` checks the proofs of a module `...Proofs`, and of `TransportQpLemmas`.

## 1. The system

### Components, state, operations

| component | source (under `src/src`) | state it keeps | operations |
|---|---|---|---|
| Transport scheduling | `client/include/backend_transport.h`, `client/backends/common/hns_hw.h` | `NdsTransportQpState`: unsignaled count, send and receive credits; ring heads and tails, CQ consumer | should-signal, record send / receive, reclaim |
| AIV transport | `client/backends/aiv/device/transport.cc`, `verbs.cc` | the above, in device memory | send / read / write, send batch, recv, reclaim, wait |
| RA transport | `client/backends/ra/transport.cc`, `verbs.cc` | the above, in host memory; rings belong to the provider | post (prepare, then doorbell), recv, wait with a deadline |
| AICPU transport | `client/backends/aicpu/device/transport.cc`, `verbs.cc` | the above and the wr_id array of the ring | post, recv, poll, wait |
| Storage client | `client/storage.cc` | allocated slots, rotation, command ids, one `NdsStorageState` per slot | open, bootstrap, allocate, release |
| Storage operators | `client/backends/{aiv/device,ra,aicpu/device}/storage.cc` | command and completion record of a slot | read, write, batches, wait; RA: abandon |
| Storage server | `server/storage.cc` | namespace, per worker the window of pending commands, `first_error` | serve_commands, run_worker |
| Server queue pair | `server/endpoint.cc` | pending receives, completions put aside, request ids | post, wait_receive, poll |
| Session set-up | `client/transport.cc`, `server/transport.cc`, `common/transport_protocol.cc`, `common/tcp_socket.cc` | TCP channel, negotiated count, peers of the queue pairs | open on both sides, accept |
| Launchers | `client/backends/*/launcher.cc` | device memory of the call under way, requests of asynchronous calls | load, launch, launch and wait, storage_wait, release |
| Runtime, endpoint | `client/runtime.cc`, `client/endpoint.cc` | device context, network service, endpoint handles, buffers, regions, queue pairs | open, allocate, register, reset |
| Torch session | `torch/nds_torch.cc` | a client, a stream, one slot at a time | construct, read_, write, destroy |
| Examples | `../examples` | the objects of `run()` | storage, transport and verbs clients; storage server |

### How they interact

* A launcher starts a kernel (or calls the RA functions). The kernel calls a *storage
  operator*, which fills the slot's records and posts a Send through the *transport* of its
  backend. The transport writes ring entries, rings the adapter and, every 32nd send, waits
  for a completion.
* The adapter moves data while both processors go on. The *server queue pair* gets the Send
  in a posted receive; the *worker* of that queue pair reads or writes the client's memory
  with RDMA and finally writes the completion record, for which the client probes.
* The session comes up over TCP: a count is negotiated, queue pair identities are exchanged,
  then the storage bootstrap runs over queue pair 0.

### What is hard

* *Concurrency*: adapter against kernel on the same rings; several workers against one
  application; the server process against clients in its backlog.
* *Ordering*: a wait counts credits and not requests; a worker expects its commands in slot
  order; completions of two directions share one queue on the server.
* *Failure*: any request may fail, after which the queue pair flushes and also completes
  unsignaled requests; doorbells fail after the request was written; a worker fails while
  others serve; a server error ends the process.
* *Teardown*: every open can fail half way, and what it took is given back partly by the
  function and partly by destructors, while kernels may still be queued on the stream.
* *Wrapping*: ring positions are words that wrap, a new completion is told from an old one by
  an owner bit that changes every lap; ranges are 64-bit words from the other side.
* *Time*: RA waits and all server waits expire, their completions arrive later. AIV and
  AICPU waits and all TCP reads have no deadline.

### What makes each part correct

Rings and completion queues are never overrun; credits account for the ring over any
sequence of calls; success of a waited call means that the request executed; a wait ends; a
receive is posted whenever there is credit for it. A storage command takes effect at most
once, between its submission and its answer, out-of-range commands never do; nothing touches
a command's memory after its answer; a clean exit of the server means everything was served;
the session completes, or everybody stops. A client that is open is connected queue pair by
queue pair; every open ends. Nothing is given back while something stands on it, nothing is
left at the end, a queued kernel finds its memory, and a program ends whatever kernel hangs.

`PROJECT.json` lists the hazards line by line, with the properties aimed at each.

## 2. The modules

    TransportQp --+-- AivTransport ---- AivTransportProofs ----+
                  +-- RaTransport ----- RaTransportProofs -----+-- TransportQpLemmas
                  +-- AicpuTransport -- AicpuTransportProofs --+

    StorageSerde -- StorageWire --+-- StorageClient --+
                                  +-- StorageWorker --+-- StorageSession ---- StorageWindowed
                                                             | refines                |
                                                      StorageService           StorageProofs

    SessionSetup -- SessionSetupProofs     ServerQueuePair -- ServerQueuePairProofs
    HostObjects -- ClientHost -- ClientHostProofs

Lines connect a module to the one that extends it; `TransportQpLemmas` extends `TransportQp`
and is extended by the three proof modules. Each `...Proofs` holds the theorems of its module,
`StorageProofs` those of `StorageSession` and of `StorageWindowed`.

**TransportQp** is one client queue pair: `unsignaled`, `sendCredits`, `recvCredits` are the
fields of `NdsTransportQpState`; `head`, `tail`, `rqHead`, `rqTail` the ring counters, not
wrapped; `sendCq`, `recvCq` the completions not yet taken, each send completion with the ring
position its `wqe_index` names. The schedule of signals is arithmetic (`SignalCount`,
`SignalPositions`) and not a loop over requests. The adapter is external: it executes rung
requests in order, completes signaled ones, and after the first failure completes everything
with an error. In the code the ring index of a completion is turned into a position by
`nds_hns_hw_send_tail_for_cqe`; here the position is stored, and AicpuTransport shows that
the code's words stand for it.

**AivTransport**: a call is split where it reads the completion queue, so that the adapter
can act in between: `RdmaSend` / `RdmaSendBatch` / `RdmaRecv` are the entry and its reclaim,
`PostTransportSend(Batch)` and `PostRecv` the post, `WaitForSendCompletion` one turn of the
loop. The `...Refused` actions are the error returns of the post. `ret` keeps what the
caller sees, `bad_wr` included. Since all of a batch's requests are valid or the batch is
refused as a whole, a request is just its index, and one index may be invalid.

**RaTransport**: the provider call and the doorbell are separate actions with separate
failures. A failed doorbell drops the copy of the scheduling state (`unrecorded`); a wait may
end at any turn without its completion, by its deadline or by a poll that fails (`abandoned`).
`stale` remembers whether an older completion was still owed when the request waited for was rung:
only then can the wait end on another's. `ReclaimFails` is the failing poll before a post.

**AicpuTransport** adds `wrIds`, the array `nds_aicpu_post_send` writes *before* it calls the
provider, `decoded`, what `nds_aicpu_poll_cq` reads from it, and the send completion ring as
it lies in memory: `cqRing` is never cleared, `consumer` and `tailWord` are words modulo
`WordMod`, the request index of an entry has `IndexMod` values, and `CqeIsReady` compares the
owner bit with the lap of the consumer. `TransportQp`'s `head`, `tail` and `sendCq` are kept
beside it as what the words have to mean (`RingExact`). AIV and AICPU share these functions
of `hns_hw.h`, so the abstract rings of AivTransport rest on the same fact.

**StorageSerde**: commands, batch entries and completions as records with what serializing
fills in and refuses and deserializing checks: operation, id, the second word (an offset, or
the number of entries), length, size of the memory named, access bits, slot. `InRange` is the
range check of both sides over unsigned words up to `WordMax`. Addresses and keys are left
out; they are those of registered buffers.

**StorageWire / StorageClient / StorageWorker**: the records in registered memory, the
client's reservations and the operators of the three backends (`backend` is chosen at the
start), and `serve_commands` / `run_worker`. The AIV and AICPU operators leave a slot whose
Send failed in flight, with its status for `storage_wait`: QUEUE_FULL reads as a pending
command, so the wait runs into its deadline, any other (PROVIDER_FAILED stands for them) is the
command's answer; RA checks ranges first
(`RaStorageRefused`) and abandons the slot when a copy or the Send fails
(`RaStorageAbandons`), although a Send that failed by its timeout is still on its way. The
data of a command is the number of writes it saw, and the payload of a batch lands as a
whole. Everything `run_worker` posts is a member of `requests` until the network finishes it,
in any order; descriptors are read from the client's memory at that moment. Deadlines,
refused posts and failed pinning are one action, `WorkerFails`: the thread's epilogue is the
same for all of them. A submission is one action because the server cannot see a slot before
its Send. The client's own failures are actions too: the copy of a slot's state in
`allocate_slot` (the slot is free again, rotation and id have moved on) and in `release_slot`
(the slot stays reserved), the launch of a submission, and a wait that ends without an answer.

**StorageService** is the promise to the application: submit, take effect once, answer. A
command whose Send the operator saw fail is `refused` and has no effect; only it and a command
out of range may be answered with an error.
**StorageSession** composes client, worker and network with the most general application
that keeps to the documented use of a slot (one submission, release after the answer), and states the
refinement (`Service`, with `life` computed from answers and effects). **StorageWindowed**
replaces that application by the loop of `examples/storage` (window = all slots) or of
`nds_torch.cc` (window = 1), with or without queue selection.

**SessionSetup**: both `Transport::open`s message by message, the backlog, the bootstrap
Send with the adapter's retries, the namespace record, the end of the server process on any
error. Serving the commands is one step here.

**ServerQueuePair**: `pending` is `pending_receive_ids_`, `stash` is `pending_completions_`;
a completion carries the opcode the adapter reports and, for the properties, the request it
really belongs to. `due` are the sends whose ids a caller still holds.

**HostObjects** has no state of its own: an open function (`RuntimeOpen`, `EndpointOpen`,
`QpCreate`, `TransportOpen`, `ClientOpen`, `LauncherOpen`) is the sequence of its steps, each
of which takes a resource or makes calls that may fail, with what the function itself gives
back then; a reset (`RuntimeReset`, ...) is the sequence a destructor releases, members in
reverse declaration order. `Needs` says what a live resource stands on, `CanRelease` whether
a reset still reaches the provider (a buffer freed after the runtime was reset does not).

**ClientHost** runs a program over these: `pc` walks through `Program(job)`, `held` is what
the providers hold, `todo` the destructors and resets still to run (one of an object that
holds nothing does nothing), `stream` the kernels not yet finished, each as the set of
resources it touches. The launchers are the
actions `LaunchSync`, `LaunchFails`, `SubmitAsync`, `SyncDone`, `SyncTimesOut` and
`CallLibrary`; a TCP read, in `Transport::open` or of the transport and verbs examples, is a
`Receive` step that ends with `ReceiveRecord`, with a failure, or never; the probe loop of `storage_wait` is `ProbeAgain` and `AfterProbe`. A torch call
that fails throws out of the call and leaves the Session alive; a constructor that throws
does not run the destructor, so the stream becomes an orphan.

Operators whose comment starts with *Faulty form* are plausible bugs. No specification uses
them; each is put in the place of the correct operator to see that a property notices.

## 3. Runs

| run | module | what it shows |
|---|---|---|
| AivTransport | AivTransport | with any request failing at any time: ring and CQ are never overrun (`RingSafe`, `CqNeverOverflows`), credits account for the ring (`CreditsExact`; after failures they are never too few: `CreditsNeverLost`), a waited success is an execution, a working pair never refuses a single post, receive credits are exact, every wait ends (`WaitEnds`) |
| AivBatchResult | AivTransport | *violation*: see findings |
| RaTransport | RaTransport | the accounting survives abandoned waits and late completions; a waited success is an execution unless, after an abandoned wait or a failed doorbell, an older completion was still owed when the request was rung; when credits run out a completion is always on its way |
| AicpuTransport | AicpuTransport | the wr_id array keeps the ids of all requests in the ring although refused posts write to it; every completion is decoded as its own request; the owner bits show exactly the completions not taken yet, on every lap and across the wrap of the words (`RingExact`) |
| StorageSession | StorageSession | AIV or RA operators, one queue pair, windows of two, any application, any fault, ranges at the edge of a word: refinement of StorageService, `SendsIntact`, `NoAccessAfterAnswer` |
| StorageFaults | StorageWindowed | two worker threads that fail independently, AIV or RA operators, application loop with deadlines: refinement, a clean exit of the server has served everything (`CleanExitServedAll`), and everybody stops |
| StorageWindowed | StorageWindowed | AICPU operators, no faults, two queue pairs of two slots, five commands (so a second, partial window): slot order equals receive order, the session completes |
| TorchRoundTrip | StorageWindowed | *violation*: see findings |
| SelectQueue | StorageWindowed | *violation*: see findings |
| SessionSetup | SessionSetup | two clients that ask for one or two queue pairs, a server that grants one or two, any step failing: `OpenMeansConnected`, every open and every session ends |
| ServerQueuePair | ServerQueuePair | ids that repeat in both directions, expired waits, batches that do not fit: no completion is lost, doubled or taken for another's; rings and CQ stay bounded |
| ClientHost | ClientHost | four programs, three backends, plain and batch commands, any step failing, kernels that hang, peers that never send: resources go in reverse order of ownership (`Supported`), nothing is left (`NothingLeft`), queued kernels find what they use (`KernelsSafe`), the program ends or stays in a TCP read (`ProgramEnds`) |

No configuration checks for deadlock: every specification may stop, because its counters are
bounded and a session ends. That nobody stops too early is what the liveness properties say.

### Bounds

* Transports: the code has an interval of 32, depths of 128 and more. Properties depend on
  the order between depth, interval and poll batch. AIV uses depth 6, interval 2, poll batch
  2: batches carry up to three signals, a reclaim may leave completions behind, a batch may
  be cut by the ring or by credits. Ten posts go round the ring; RA uses depth 4 and seven
  posts. AICPU uses depth 4 with ten posts, `WordMod` 8 and `IndexMod` 4 (2^32 and 2^16 in the
  code): two laps fit the counter word, which wraps once, the request index wraps twice.
* The theorems of section 5 hold for all values of the constants, in every component.
* Storage: two slots per queue is the least that has a window with an order; four or five
  commands need a second window and reuse slots; two queues are the least for the rotation
  and independent threads. A namespace of `Capacity` 2, commands of one byte and words up
  to `WordMax` 3 with offsets 1 and 3: the last byte in range, and the offset whose end wraps.
  A batch has a first entry in range and a second at the offset. The runs with faults take two
  or three of the four operations, among them a plain and a batch one, a reading and a writing
  one; the proofs have all four.
* ClientHost: two queue pairs and two commands, so that an open and a window can fail half
  way; `MaxProbes` 2 probes stand for a deadline.
* Set-up: two clients, so that one waits in the backlog while the other's session fails.
* ServerQueuePair: depth 2 with three receives and three sends reuses ring entries; sends
  start from id 2 instead of 4 so that the ids overlap within the bounds.

### Fairness

* AIV: the wait loop turns (it has no exit but a completion) and the adapter executes rung
  work. New calls are not required to happen.
* StorageWindowed: the application's loop, each worker thread and the network of each queue
  pair go on. A reliable connection delivers what is posted, and the sender retries without
  limit while no receive is posted. A worker's step and its failure share one fairness
  condition: either its wait ends or its deadline passes.
* ClientHost: the host thread runs. Kernels get no fairness: one may hang for ever, and the
  program has to end by its timeouts. A TCP read gets none either, since it has no deadline in the
  code: `ProgramEnds` lets a program stay in a `Receive` for ever, and nowhere else.
* SessionSetup: every process runs and the adapter delivers the bootstrap Send to a
  connected pair. TCP reads have no deadline in the code and get none here: they end with a
  message or with the peer's close, so a peer that is stopped without closing its socket is
  outside these results.

## 4. Findings

1. **AivBatchResult** (`PrefixReported`). `PostTransportSendBatch` returns the error of its
   wait before `bad_wr` is set (`client/backends/aiv/device/transport.cc:231`), and
   `launch_transport_batch_and_wait` takes a null `bad_wr` for a batch posted in full.
   `docs/design.md:304` promises the prefix length.
2. **TorchRoundTrip** (`SessionCompletes`). `run_worker` waits for a whole window before it
   answers any command of it (`server/storage.cc:156`), the torch session waits for each
   command before the next. The end-to-end script `tests/e2e/storage/run_torch.sh` starts
   the server for two commands on one queue pair and expects both sides to succeed.
3. **SelectQueue** (`NoProtocolError`). `allocate_slot(queue_index)` searches from the
   rotation it shares with `allocate_slot()` (`client/storage.cc:216`), so a queue's slots
   are not handed out in the queue's order, which the worker requires.

The code also does the following, which no run is about. Each case is set aside in the property
named, by the condition named, and TLC shows the behaviour when that condition is taken out.

* A late RA completion ends another request's wait (`WaitedSuccessIsExecuted`, `stale`).
  `wait_for_send_completion` waits for credits and takes whichever completion brings them
  (`client/backends/ra/transport.cc:31-36`). After a wait that ended by its deadline or by a
  failing `RaPollCq`, its completion ends the wait of the next signaled request before that has
  executed; `docs/design.md:297` speaks of "the corresponding CQE".
* `storage_wait` of AIV releases all asynchronous requests after every probe
  (`client/backends/aiv/launcher.cc:552`), also after one that could not be launched and
  synchronized nothing, against "retain their device argument until stream sync"
  (`launcher.hh:38`). A synchronization that runs into its timeout frees the arguments of a
  kernel that may still run (`:289`). Both are `freedEarly` in `KernelsSafe`.
* `examples/storage/client.cc:141` declares its commands after the stream owner: an early return
  frees batch entries that queued kernels still read, where `docs/design.md:309-311` has the
  caller keep them (`exposed` in `KernelsSafe`).
* `reg_mr` that gets a handle with a zero key drops the region before it knows its endpoint
  (`client/endpoint.cc:525`): the handle is never deregistered and outlives its memory, against
  the reverse ownership order of `docs/design.md:171` (`orphans` in `Supported` and
  `NothingLeft`).
* A torch `Session` whose constructor throws after `aclrtCreateStream` loses the stream
  (`torch/nds_torch.cc:66-76`; `orphans`).

And two observations outside the models' properties:

* An RA submission that failed by the timeout of its Send may be executed all the same. The
  slot keeps its command id and is free to be submitted again; the applications modelled
  submit a command once.
* `poll_matching` compares the opcode of failed completions, which verbs leaves undefined
  (`server/endpoint.cc:260`). One that does not match is put aside and its wait expires, where
  `docs/design.md:283` retires a receive after any observed completion.

Differences between text and code that need no run: `design.md:186-187` has the server post
its bootstrap receive before it publishes its queue pairs, the code publishes first
(`server/transport.cc:107`, `server/storage.cc:373`); `tests/e2e/README.md:72-74` has four slots per
queue pair, the code 16; the design speaks of up to eight queue pair descriptors,
`kMaxQpInfoBatch` is 16.

With a send ring no deeper than the signal interval no signaled request ever fits, and a
full ring stays full. `NoSpuriousQueueFull` therefore assumes `Interval < Depth`; no check
in the code does.

## 5. Proofs

Every theorem holds for all values of the constants that meet the assumptions named in the
modules: a depth of at least 2, an interval and a poll batch of at least 1 (`QpAssumption`);
`MaxBatchAssumption`; words of a whole number of double laps and indices of a whole number of
laps (`RingAssumption`; the code has powers of two); `QueuePairAssumption`; finitely many
clients (`SetupAssumption`); at least one queue pair, slot and command (`WireAssumption`); a
namespace and a batch that fit into a word (`SerdeAssumption`); a window of at least one
(`AppAssumption`); for the client programs at least one queue pair (`QpAssumption` of
`HostObjects`), one command and one probe (`HostAssumption`). TLC evaluates them in the runs. Further hypotheses are in the statement of
a theorem. Every one of the invariants below is inductive and stronger than the properties,
none of which is inductive as it stands.

**Shared facts** (`TransportQpLemmas`): what is used of multiplication (`SpanFacts`,
`SpanOrder`); what a reclaim and an append leave of the completion queue (`ReclaimCq`,
`AppendCqe`, `NicCq`, `CqLength`); the absolute schedule of signals (`Taken`, `Owed`): while
every request is recorded and none failed, the j-th signal is at position
`Span(j) - 1`, and the completion queue holds the next ones after those taken.

**AivTransportProofs**: `TypeOK`, `RingSafe`, `CqNeverOverflows`, `CreditsExact`,
`WaitedSuccessIsExecuted`, `NoSpuriousQueueFull`, `RecvCreditsExact`, `CreditsNeverLost`.
Credits come back as an interval per completion, the ring as the distance to the request the
completion names; that the two agree is a fact about *where* signaled requests are. `IInv` adds:

* `CqInv`: completions name distinct executed requests at or above `tail`, in order. With
  `RingSafe` this bounds the completion queue, also after failures.
* `FailInv`: a completion is successful exactly when its request is before the first failure.
* `SchedInv`: while no error completion was taken (`Clean`), there is a number `M` of
  outstanding signals with `head = tail + M * Interval + unsignaled` and credits equal to the
  free ring; the successful completions are the first of the `M` signaled requests in order,
  the others are still rung; outside the wait loop `M = 0`, inside it the target is the
  current credits plus `M` intervals. So a wait that reaches its target has emptied `M`.
* `CallInv`, `RecvInv`: what a call knows between its steps; the receive ring.

After an error completion the schedule is given up. What is left of it is `GapInv`: any run
of completions frees at most their intervals of the ring, and behind a failure every request
has a completion. So credits are never too few (`CreditsNeverLost`); that they may be too many
is why the ring is checked besides.

**RaTransportProofs**: `TypeOK`, `CreditsSurviveTimeouts`, `WaitedSuccessIsExecuted`,
`NoStrandedCredit` (for `Interval <= Depth`; a shorter ring fills up without a signal). A
deadline leaves completions for a later call, so outstanding signals are not tied to a call.
`SchedInv` counts from the start of the queue pair: `t` signals taken, `m` recorded. `OwnInv`:
without an abandoned wait or a failed doorbell the only successful completion around is the one
the call waits for. `FreshInv` says the same of a single call, whatever came before: when nothing
older was owed as its request was rung, the only completion that can bring its credits is its own.

**AicpuTransportProofs**: `TypeOK`, `WrIdsIntact`, `DecodedIsOwn`, `WaitedIsExecuted`,
`RingExact`. First the arithmetic: what the code computes from a wrapped word is what it
would compute from the counter (`WordsInv` says which counter). Then the ring: `EntriesInv`
says of the one lap the scan can look at that it holds the unread completions and then
entries with the owner bit of the lap before, so the scan stops at the right place on every
lap. `SchedInv` is the AIV one for single posts: at most the awaited request is signaled.

**ServerQueuePairProofs**: `TypeOK`, `QueuesBounded`, `CompletionNeverLost` and the action
property `WaitTakesOwn`. `stash` and, behind it, `cq` are one list (`At`): putting a completion
aside does not change it, a wait takes one element out, the adapter appends. Per direction
its ids increase and are below those the adapter still has (`OrderInv`, `CompletionInv`), so
a request has at most one completion, and one that left was found by its own wait (`FoundInv`).

**SessionSetupProofs**: `TypeOK`, `OpenMeansConnected`. A channel only holds the messages
that follow from what its client asks for and the server's limit (`MessageInv`); a client is
accepted once (`TurnInv`, `SessionInv`), so the pairs connected before the namespace is
published stay as they are (`PublishedInv`).

**StorageProofs**, the session: `TypeOK`, `SendsIntact`, `NoAccessAfterAnswer`, and the refinement
`ImplementsService`. A command is carried by its Send, by a filled receive buffer or by the
worker's pending list, by at most one of them, and while it is, its slot is live: held,
records as submitted, completion pending, no answer (`SlotInv`, `SendInv`, `FilledInv`,
`OwnedInv`). `Progress` says how far the worker is with a command it owns and which requests
may be out for it. In the refinement a submission, or an abandoned one, is a `Submit`, one
whose Send failed a `Refuse`, after which the slot is never carried by anything; the end of the
payload transfer is `Apply`; `storage_wait` is the answer; all other steps stutter.

**StorageProofs**, the loops: those of the example and of the torch session are applications
in the sense of `StorageSession` (`LoopIsApplication`), so all of the above holds of them
(`LoopImplements`). `CleanExitServedAll` is proved for any application by counting: the
workers have not completed more commands than are settled (`CountInv`; a command is settled by
its completion record or by the answer to a failed Send), and their shares add up to all commands. `NoProtocolError` is proved for loops without selected queues and without
faults: the m-th command takes slot `m % NumSlots` (`RotationInv`), so what a queue pair
carries is every `Qps`-th command in order (`Dealt`, `OrderInv`), and a window that is not the
last covers all slots of the queue. Both hypotheses are needed: with selected queues finding 3
is the counterexample, and after a refused Send the worker's order has a gap.

**ClientHostProofs**: `TypeOK`, `Supported`, `NothingLeft`, `KernelsSafe`. TLC ran with two queue
pairs and two commands; the programs are concatenations whose length depends on both, so the
proof first has to say what they are.

* The static half is about the texts. `ConcatFacts`, `FlattenFacts` and `CoversFlatten` say what
  concatenating and `FlattenSeq` do to elements and to orders, from the least counterexample
  (`Least`). `Covers`: resetting the sequence from left to right takes nothing away from
  under a resource of the given set. A reset is a `Teardown` of exactly what its object holds (`QpTeardown`,
  `ClientTeardown`, `LauncherTeardown`, ...), and these compose to the four scopes in the order in
  which the code's objects are declared. A step is `Good` when what it takes stands on what is open
  and belongs to a scope that will reset it, a kernel it launches finds what it uses, and what it
  undoes on a failure is a teardown of what the failing object has. `Sound` composes good
  steps from one set of open resources to the next, through every open function, to the whole
  program, which so has a plan (`PlanOf`): the resources open before each step.
* The dynamic half is inductive. `HostInv`: at any time what is held, orphans aside, is what the
  plan has opened, what a running call lends its kernel, the requests the launcher keeps and what
  `todo` will still reset, all of it stands on something held, and `todo` covers it. A failure
  exchanges the plan for `todo`, a `Release` takes one element off. `KernelInv`: unless memory
  was freed early, a stream with kernels is alive and named, and all its kernels use is held; in
  a torch program only while a synchronous call waits.

Neither `Supported` nor `NothingLeft` is inductive: what an error path gives back depends on all
that was opened before it. TLC checked `HostInv /\ KernelInv` on the instance of the run first.

Only model-checked is liveness (`WaitEnds`, `SessionCompletes`, `EverybodyStops`,
`ClientOpenEnds`, `SessionEnds`, `ProgramEnds`), which is out of the prover's reach. Every other
property of a passing run is a theorem.

## 6. Not modelled

* Layout of WQEs, byte order of the records, addresses and keys; the fields of the bootstrap
  and namespace records and of `TransportInfo` beyond kinds, counts and identities. They are
  straight-line encodings, which unit tests reach.
* A release the provider refuses (`client/runtime.cc:145` keeps host memory it cannot
  unregister): `Release` in ClientHost always succeeds where the code reaches the provider.
* Ring entries of failed sends on the server (`FreeRing`): they stay occupied, where a provider
  may free them. The pair is broken by then and everything posted to it fails.
* Arguments the operators turn away before they claim a slot; a second `open` of a
  `StorageClient`; an application that submits an abandoned RA command again.
* Memory regions, device selection and teardown of the server's endpoint; a storage session
  in which the client's queue pair breaks after its Sends were served (the server side of it is
  `WorkerFails`). A device Send whose wait met an error completion is on a broken pair, and its
  command is taken never to be served.
* Three of the four operations of the transport example: its program is a list of TCP reads and
  calls with the same kinds of steps for each of them.
* Moves between host objects, device discovery, library loading (only as a way to fail),
  logging, argument parsing, tensors and Python bindings: no protocol state.
* Partial TCP reads and writes.

## 7. State of the development

Modelled: transports with the completion ring, storage with its records and the operators of all
backends, set-up, server queue pair, the client programs from open to teardown. Every safety
property of the passing runs is proved for all values of the constants (section 5); liveness
stays with TLC. Parts that could be added are those of section 6.
