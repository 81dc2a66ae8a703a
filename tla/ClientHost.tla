----------------------------- MODULE ClientHost -----------------------------
(***************************************************************************)
(* A client program from its first open to the end of main: it opens the   *)
(* host objects, calls the device through its launcher, and leaves its     *)
(* scopes, after an error as after success.  Four programs are modelled:   *)
(* the storage, transport and verbs examples and a torch Session.          *)
(*                                                                         *)
(* The device is a process of its own.  A kernel on the stream is the set  *)
(* of resources it touches, and runs in stream order at any time after its *)
(* launch, or hangs.  The stream is external: once aclrtDestroyStream has  *)
(* returned, nothing of it runs any more.                                  *)
(***************************************************************************)
EXTENDS HostObjects

CONSTANTS
  CommandCount, \* storage commands of a program, at most one per slot
  MaxProbes     \* probes of a wait before its deadline has passed

ASSUME HostAssumption == CommandCount \in Nat \ {0} /\ MaxProbes \in Nat \ {0}

VARIABLES
  job,      \* the program, its backend, and whether its commands are batches
  pc,       \* the step of the program, after the last one once it leaves main
  held,     \* resources the providers hold for this process
  orphans,  \* the held ones no object of the program names any more
  todo,     \* resources the running destructors still have to reset
  stream,   \* kernels launched and not finished, oldest first
  launched, \* whether the host waits for the stream in a synchronous call
  probes,   \* probes of the current wait
  freedEarly \* whether a call has freed its memory without synchronizing the stream

vars == <<job, pc, held, orphans, todo, stream, launched, probes, freedEarly>>

Programs == {"storage", "transport", "verbs", "torch"}
Jobs == {j \in [program : Programs, backend : Backends, batch : BOOLEAN] :
           j.batch => j.program = "storage"}

\* device memory for the arguments and the results of the call under way
Args == Buffer("args", 0)
Completions == Buffer("completions", 0)
\* async_storage_requests_, one per command
Request(c) == Buffer("request", c)
Requests == {Request(c) : c \in 1 .. CommandCount}

-----------------------------------------------------------------------------
Each(S(_)) == FlattenSeq([c \in 1 .. CommandCount |-> S(c)])

Call(kind) == Step("call", <<"kernel", kind, 0>>, <<>>)
Poll == Step("wait", <<"kernel", "poll", 0>>, <<>>)
Submit(c) == Step("submit", <<"kernel", "storage", c>>, <<>>)
Wait(c) == Step("wait", <<"kernel", "wait", c>>, <<>>)

StreamOpen(backend) == IF backend = "RA" THEN <<>> ELSE <<Get(Stream)>>

\* run() of the storage example: bootstrap, buffers and regions, one window of
\* commands submitted without waiting, then the waits
StorageProgram(backend, batch) ==
  LET entries(c) == IF batch THEN <<Get(Buffer("entries", c)), Check, Get(Region("entries", c))>>
                    ELSE <<>>
      prepare(c) == <<Get(Buffer("data", c)), Get(Region("data", c)), Check>>
      submit(c) == <<Check>> \o entries(c) \o <<Submit(c)>>
      finish(c) == <<Wait(c), Check>>
  IN RuntimeOpen(FALSE) \o TransportOpen(backend) \o ClientOpen \o LauncherOpen(backend)
       \o StreamOpen(backend) \o <<Call("bootstrap"), Check>>
       \o Each(prepare) \o Each(submit) \o Each(finish)

\* run() of the transport example: every request is a synchronous call.  It runs one
\* of four operations, each with some of the exchanges around its requests: the
\* address of the remote memory before them, control signals after them.
TransportProgram(backend) ==
  RuntimeOpen(FALSE) \o TransportOpen(backend) \o LauncherOpen(backend)
    \o <<Get(Buffer("data", 1)), Check, Get(Region("data", 1))>>
    \o StreamOpen(backend) \o <<Receive, Call("rdma"), Receive, Call("rdma"), Receive>>

\* run() of the verbs example: one queue pair, connected after the registration and
\* the exchange with the server; a stream whatever the backend; post, poll, barrier
VerbsProgram(backend) ==
  RuntimeOpen(FALSE) \o EndpointOpen \o QpCreate(1, backend)
    \o <<Get(Buffer("data", 1)), Check, Get(Region("data", 1))>>
    \o LauncherOpen(backend) \o <<Receive, Get(Stream), Call("post"), Poll, Receive>>

\* the constructor of a torch Session, in the context torch_npu has opened
TorchConstructor(backend) ==
  RuntimeOpen(TRUE) \o TransportOpen(backend) \o ClientOpen \o LauncherOpen(backend)
    \o StreamOpen(backend) \o <<Call("bootstrap"), Check>>

\* Session::read_ and Session::write: their buffer and region are locals
TorchCall(c) ==
  LET locals == <<Region("data", c), Buffer("data", c)>>
  IN <<GetIn(Buffer("data", c), locals), CheckIn(locals), GetIn(Region("data", c), locals),
       CheckIn(locals), Step("call", <<"kernel", "storage", c>>, locals),
       Step("wait", <<"kernel", "wait", c>>, locals), CheckIn(locals), Step("leave", NoResource, locals)>>

Exit == Step("exit", NoResource, <<>>)

Program(j) ==
  (CASE j.program = "storage" -> StorageProgram(j.backend, j.batch)
     [] j.program = "transport" -> TransportProgram(j.backend)
     [] j.program = "verbs" -> VerbsProgram(j.backend)
     [] j.program = "torch" -> TorchConstructor(j.backend) \o Each(TorchCall)) \o <<Exit>>

\* AivLauncher::reset: the requests it retains, then its binary
LauncherReset == [c \in 1 .. CommandCount |-> Request(c)] \o <<Binary>>

\* CommandResources, last member first
CommandReset(c) ==
  <<Region("entries", c), Buffer("entries", c), Region("data", c), Buffer("data", c)>>

\* Faulty form: the stream is declared before the launcher and goes after it.
StorageScopeStreamLast ==
  Each(CommandReset) \o LauncherReset \o <<Stream>> \o ClientReset \o TransportReset \o RuntimeReset(FALSE)

\* the objects of the storage example's run(), last declared first
StorageScope ==
  Each(CommandReset) \o <<Stream>> \o LauncherReset \o ClientReset \o TransportReset \o RuntimeReset(FALSE)

\* the same for the other two examples and for a Session
TransportScope ==
  <<Stream, Region("data", 1), Buffer("data", 1)>> \o LauncherReset \o TransportReset \o RuntimeReset(FALSE)
VerbsScope ==
  <<Stream>> \o LauncherReset \o <<Region("data", 1), Buffer("data", 1)>>
    \o QpReset(1) \o EndpointReset \o RuntimeReset(FALSE)
TorchScope ==
  <<Stream>> \o LauncherReset \o ClientReset \o TransportReset \o RuntimeReset(TRUE)

ScopeReset(j) ==
  CASE j.program = "storage" -> StorageScope
    [] j.program = "transport" -> TransportScope
    [] j.program = "verbs" -> VerbsScope
    [] j.program = "torch" -> TorchScope

-----------------------------------------------------------------------------
Arguments(kind) == IF kind = "poll" THEN {Args, Completions} ELSE {Args}

\* what the transport and storage descriptors a kernel is given point to
Descriptors(kind) ==
  LET qps == IF kind \in {"post", "poll"} THEN {1} ELSE 1 .. QpCount
      queues == {Qp(q) : q \in qps} \cup {Buffer(n, q) : n \in {"sendWrIds", "recvWrIds"}, q \in qps}
      transport == {Buffer("qpStates", 0), Buffer("deviceQpAddresses", 0)}
      storage == {Buffer(n, 0) : n \in {"slotDescriptors", "storageStates", "command", "completion"}}
  IN {Binary} \cup queues
       \cup (CASE kind = "bootstrap" -> transport \cup {Buffer("bootstrap", 0)}
               [] kind \in {"storage", "wait"} -> transport \cup storage
               [] kind = "rdma" -> transport
               [] OTHER -> {})

\* ConfiguredLauncherView: only the storage operations run without waiting
MayBeAsync(kind) == kind = "storage"

\* An asynchronous AIV request lives in device memory the launcher keeps; the
\* AICPU launcher passes it by value.
AsyncArguments(c) == IF job.backend = "AIV" THEN {Request(c)} ELSE {}

\* BatchTotal and batch_bytes: the kernel of a batch reads the application's entries
EntriesRead(c) == IF job.batch THEN {Buffer("entries", c)} ELSE {}

\* release_async_storage_requests, which storage_wait of AIV calls after every probe
AfterProbe(step, now) ==
  IF job.backend = "AIV" /\ step.res[2] = "wait" THEN now \ Requests ELSE now

Current == Program(job)[pc]
Running == todo = <<>> /\ pc <= Len(Program(job))
Ended == todo = <<>> /\ pc > Len(Program(job))

\* A Session whose constructor throws is never destroyed: its members are, but
\* the stream is not a member object.
Constructing == job.program = "torch" /\ pc <= Len(TorchConstructor(job.backend))
InTorchCall == job.program = "torch" /\ ~Constructing /\ Current.do # "exit"
AfterCall == CHOOSE i \in pc + 1 .. Len(Program(job)) :
               /\ Program(job)[i - 1].do = "leave"
               /\ \A k \in pc .. i - 2 : Program(job)[k].do # "leave"

\* The step has failed, with the given resources held and lost: what the failing
\* object gives back, then the scopes that the error leaves.
Fail(step, now, lost) ==
  /\ todo' = step.undo \o (IF InTorchCall THEN <<>> ELSE ScopeReset(job))
  /\ orphans' = orphans \cup lost \cup (IF Constructing THEN {Stream} \cap now ELSE {})
  /\ pc' = IF InTorchCall THEN AfterCall ELSE Len(Program(job)) + 1
  /\ probes' = 0

Continue == pc' = pc + 1 /\ probes' = 0 /\ UNCHANGED <<todo, orphans>>

\* Faulty form: one probe more than the deadline allows.
ProbeAgainOnceMore(step) ==
  /\ step.do = "wait" /\ probes < MaxProbes
  /\ probes' = probes + 1
  /\ UNCHANGED <<pc, todo, orphans>>

\* the completion is pending and the deadline has not passed
ProbeAgain(step) ==
  /\ step.do = "wait" /\ probes + 1 < MaxProbes
  /\ probes' = probes + 1
  /\ UNCHANGED <<pc, todo, orphans>>

\* the ways a call can come back: success, failure (or the deadline), pending
Outcome(step, now) == Continue \/ Fail(step, now, {}) \/ ProbeAgain(step)

-----------------------------------------------------------------------------
Init ==
  /\ job \in Jobs
  /\ pc = 1 /\ todo = <<>> /\ orphans = {}
  /\ held = IF job.program = "torch" THEN {Acl} ELSE {}
  /\ stream = <<>> /\ launched = FALSE /\ probes = 0 /\ freedEarly = FALSE

Acquire ==
  /\ Running /\ Current.do = "get"
  /\ held' = held \cup {Current.res}
  /\ Continue
  /\ UNCHANGED <<job, stream, launched, freedEarly>>

Pass ==
  /\ Running /\ Current.do = "check"
  /\ Continue
  /\ UNCHANGED <<job, held, stream, launched, freedEarly>>

\* The peer's record arrives, or it is not the one expected, or the connection ends.
\* A peer that stays silent keeps the program here.
ReceiveRecord ==
  /\ Running /\ Current.do = "receive"
  /\ Continue \/ Fail(Current, held, {})
  /\ UNCHANGED <<job, held, stream, launched, freedEarly>>

StepFails ==
  /\ Running /\ Current.do \in {"get", "check"}
  /\ Fail(Current, held, {})
  /\ UNCHANGED <<job, held, stream, launched, freedEarly>>

\* reg_mr with a handle but a zero key: the region that is dropped has no
\* endpoint, and its handle is never deregistered
ZeroKey ==
  /\ Running /\ Current.do = "get" /\ Current.res[1] = "region"
  /\ held' = held \cup {Current.res}
  /\ Fail(Current, held', {Current.res})
  /\ UNCHANGED <<job, stream, launched, freedEarly>>

\* the RA launcher calls into its library and returns the result
CallLibrary ==
  /\ Running /\ Current.do \in {"call", "submit", "wait"} /\ job.backend = "RA"
  /\ Outcome(Current, held)
  /\ UNCHANGED <<job, held, stream, launched, freedEarly>>

\* launch_..._and_wait up to the synchronization
LaunchSync ==
  /\ Running /\ Current.do \in {"call", "wait"} /\ job.backend # "RA" /\ ~launched
  /\ held' = held \cup Arguments(Current.res[2])
  /\ stream' = Append(stream, Arguments(Current.res[2]) \cup Descriptors(Current.res[2]))
  /\ launched' = TRUE
  /\ UNCHANGED <<job, pc, orphans, todo, probes, freedEarly>>

\* An allocation, a copy, the lookup of the function or the launch fails.  A
\* probe of AIV that fails so releases the requests of kernels still queued.
LaunchFails ==
  /\ Running /\ Current.do \in {"call", "wait", "submit"} /\ job.backend # "RA" /\ ~launched
  /\ held' = AfterProbe(Current, held)
  /\ freedEarly' = (freedEarly \/ held' # held)
  /\ Fail(Current, held', {})
  /\ UNCHANGED <<job, stream, launched>>

\* a storage operation launched with sync = false
SubmitAsync ==
  /\ Running /\ Current.do = "submit" /\ MayBeAsync(Current.res[2]) /\ job.backend # "RA"
  /\ held' = held \cup AsyncArguments(Current.res[3])
  /\ stream' = Append(stream, AsyncArguments(Current.res[3]) \cup EntriesRead(Current.res[3])
                               \cup Descriptors(Current.res[2]))
  /\ Continue
  /\ UNCHANGED <<job, launched, freedEarly>>

\* the stream is drained: the result is copied back and the arguments are freed
SyncDone ==
  /\ Running /\ launched /\ stream = <<>>
  /\ held' = AfterProbe(Current, held \ Arguments(Current.res[2]))
  /\ launched' = FALSE
  /\ Outcome(Current, held')
  /\ UNCHANGED <<job, stream, freedEarly>>

\* Faulty form: the synchronization waits without a timeout.
SyncNeverTimesOut == FALSE /\ UNCHANGED vars

\* aclrtSynchronizeStreamWithTimeout gives up; the buffers are freed all the same
SyncTimesOut ==
  /\ Running /\ launched /\ stream # <<>>
  /\ held' = AfterProbe(Current, held \ Arguments(Current.res[2]))
  /\ launched' = FALSE /\ freedEarly' = TRUE
  /\ Fail(Current, held', {})
  /\ UNCHANGED <<job, stream>>

\* a Session call returns: its locals are destroyed
LeaveCall ==
  /\ Running /\ Current.do = "leave"
  /\ todo' = Current.undo /\ pc' = pc + 1
  /\ UNCHANGED <<job, held, orphans, stream, launched, probes, freedEarly>>

LeaveMain ==
  /\ Running /\ Current.do = "exit"
  /\ Fail(Current, held, {})
  /\ UNCHANGED <<job, held, stream, launched, freedEarly>>

\* One destructor or reset: of an object that holds nothing it does nothing.  The
\* provider grants what CanRelease lets through.
Release ==
  /\ todo # <<>>
  /\ todo' = Tail(todo)
  /\ held' = IF Head(todo) \notin orphans /\ CanRelease(Head(todo), job.backend, held)
             THEN held \ {Head(todo)} ELSE held
  /\ stream' = IF Head(todo) = Stream /\ Stream \in held \ orphans THEN <<>> ELSE stream
  /\ UNCHANGED <<job, pc, orphans, launched, probes, freedEarly>>

RunKernel ==
  /\ stream # <<>>
  /\ stream' = Tail(stream)
  /\ UNCHANGED <<job, pc, held, orphans, todo, launched, probes, freedEarly>>

Host ==
  \/ Acquire \/ Pass \/ StepFails \/ ZeroKey
  \/ CallLibrary \/ LaunchSync \/ LaunchFails \/ SubmitAsync \/ SyncDone \/ SyncTimesOut
  \/ LeaveCall \/ LeaveMain \/ Release

Next == Host \/ ReceiveRecord \/ RunKernel

\* The host thread is scheduled; a kernel need not ever finish, and the peer need
\* not ever send.
Spec == Init /\ [][Next]_vars /\ WF_vars(Host)

-----------------------------------------------------------------------------
Names == {"args", "completions", "request", "sendWrIds", "recvWrIds", "qpStates", "deviceQpAddresses",
          "bootstrap", "command", "completion", "namespace", "slotDescriptors", "storageStates",
          "slotTable", "data", "entries"}

\* The resources are known ones, the program stands at one of its steps, and a
\* wait never makes more probes than its deadline allows.
TypeOK ==
  /\ job \in Jobs /\ pc \in 1 .. Len(Program(job)) + 1
  /\ \A r \in held \cup ToSet(todo) :
       \/ r \in {Acl, NetService, Ra, Rdev, Binary, Stream} \cup {Qp(q) : q \in 1 .. QpCount}
       \/ r[1] \in {"buffer", "region"} /\ r[2] \in Names
  /\ orphans \subseteq held
  /\ probes \in 0 .. MaxProbes - 1
  /\ launched \in BOOLEAN /\ freedEarly \in BOOLEAN
  /\ launched => todo = <<>>

\* Teardown in reverse ownership order (docs/design.md, "Teardown is reverse
\* ownership order"): whatever step fails and whatever scope unwinds, no resource
\* is given back while one that stands on it is alive.  Two orphans are set aside:
\* a region reg_mr dropped for its zero key, a stream a Session constructor lost.
Supported ==
  \A r \in held \ orphans : Needs(r, job.backend) \subseteq held

\* Every open that fails half way and every destructor together give back all the
\* program took: at its end nothing is held but those orphans and, for a torch
\* Session, the context it was lent.
NothingLeft ==
  Ended => held \ orphans = IF job.program = "torch" THEN {Acl} ELSE {}

\* Every kernel still on the stream finds the memory, queue pairs and code it was
\* launched with: the launcher keeps an asynchronous request ("until stream sync",
\* backends/aiv/launcher.hh), and a program that leaves on an error destroys the
\* stream before anything its kernels use.  Set aside are the two ways a call frees
\* its memory without the stream having been synchronized (a synchronization that
\* runs into its timeout, an AIV probe that cannot be launched), and the entries of
\* a batch once the storage example leaves run(): its commands go before its stream.
KernelsSafe ==
  LET exposed == IF Running THEN {} ELSE {Buffer("entries", c) : c \in 1 .. CommandCount}
  IN ~freedEarly => \A i \in DOMAIN stream : stream[i] \ exposed \subseteq held

\* A program comes to its end whatever fails and even if a kernel hangs, unless it
\* waits for its peer in a TCP read for ever: every other wait of the host has a
\* timeout or a deadline.
ProgramEnds == <>Ended \/ <>[](Running /\ Current.do = "receive")

=============================================================================
