---------------------------- MODULE HostObjects ----------------------------
(***************************************************************************)
(* What the host objects of a client (Runtime, Endpoint, QueuePair,        *)
(* Transport, StorageClient, Launcher) take from the providers when they   *)
(* are opened, in which order, and what they give back when an open fails  *)
(* or a destructor runs.                                                   *)
(*                                                                         *)
(* A resource is a triple <<kind, name, number>>.  An open function is the *)
(* sequence of its steps.  A step takes a resource ("get"), only makes a   *)
(* call that may fail ("check": several such calls in a row are one step), *)
(* or reads from its peer over TCP, for as long as that takes ("receive",  *)
(* the calls around it included); undo lists what the function itself      *)
(* gives back, in order, when the step fails.  Everything else is left to  *)
(* the destructors of the caller's objects.                                *)
(***************************************************************************)
EXTENDS Integers, Sequences, FiniteSets, SequencesExt

CONSTANT
  QpCount   \* queue pairs the server accepts for a transport

ASSUME QpAssumption == QpCount \in Nat \ {0}

Backends == {"RA", "AIV", "AICPU"}

Acl == <<"acl", "context", 0>>
NetService == <<"net", "service", 0>>
Ra == <<"ra", "init", 0>>
Rdev == <<"rdev", "handle", 0>>
Qp(q) == <<"qp", "handle", q>>
Buffer(name, n) == <<"buffer", name, n>>
Region(name, n) == <<"region", name, n>>
Binary == <<"binary", "artifact", 0>>
Stream == <<"stream", "stream", 0>>

Step(do, res, undo) == [do |-> do, res |-> res, undo |-> undo]
NoResource == <<"none", "none", 0>>
Get(r) == Step("get", r, <<>>)
GetIn(r, undo) == Step("get", r, undo)
Check == Step("check", NoResource, <<>>)
CheckIn(undo) == Step("check", NoResource, undo)
\* TcpConnection::receive: read_full has no deadline
Receive == Step("receive", NoResource, <<>>)

\* Runtime::allocate: with the RA backend the descriptors and states that only
\* host code reads are plain host memory; the slot table is pinned.
HostNames == {"qpStates", "slotDescriptors", "storageStates"}
OnHost(r, backend) == backend = "RA" /\ r[2] \in HostNames

\* what a live resource stands on
Needs(r, backend) ==
  CASE r[1] = "net" -> {Acl}
    [] r[1] = "ra" -> {NetService}
    [] r[1] = "rdev" -> {Ra}
    [] r[1] = "qp" -> {Rdev}
    [] r[1] = "region" -> {Rdev, Buffer(r[2], r[3])}
    [] r[1] = "buffer" -> IF OnHost(r, backend) THEN {} ELSE {Acl}
    [] r[1] = "binary" -> IF backend = "RA" THEN {} ELSE {Acl}
    [] r[1] = "stream" -> {Acl}
    [] OTHER -> {}

\* Whether a reset reaches the provider: deregister refuses a closed endpoint,
\* the free functions a runtime that is not initialized, and MemoryBuffer and
\* MemoryRegion drop their handle all the same.
CanRelease(r, backend, held) ==
  CASE r[1] = "region" -> Rdev \in held
    [] r[1] = "buffer" -> OnHost(r, backend) \/ NetService \in held
    [] OTHER -> TRUE

-----------------------------------------------------------------------------
\* Runtime::reset; an adopted context is not the runtime's to finalize
RuntimeReset(adopted) == <<NetService>> \o IF adopted THEN <<>> ELSE <<Acl>>

\* Runtime::open: aclInit and the device unless the context is adopted, the two
\* libraries, the network service
RuntimeOpen(adopted) ==
  LET undo == RuntimeReset(adopted)
  IN (IF adopted THEN <<>> ELSE <<GetIn(Acl, undo), CheckIn(undo)>>)
       \o <<CheckIn(undo), GetIn(NetService, undo)>>

\* Endpoint::reset
EndpointReset == <<Rdev, Ra>>

\* Endpoint::open: device mapping and libra, RaInit, the device address, the handle
EndpointOpen ==
  LET undo == EndpointReset
  IN <<CheckIn(undo), GetIn(Ra, undo), CheckIn(undo), GetIn(Rdev, undo)>>

\* Faulty form: a queue pair that fails half way keeps its provider handle.
QpResetForgetsHandle(q) == <<Buffer("recvWrIds", q), Buffer("sendWrIds", q)>>

\* QueuePair::reset in the destructor's body, then the members
QpReset(q) == <<Qp(q), Buffer("recvWrIds", q), Buffer("sendWrIds", q)>>

\* QueuePair::initialize: a typical queue pair for RA; else an AI queue pair,
\* its attributes and the two WR-ID tables.  Then RaGetQpAttr.
QpCreate(q, backend) ==
  LET undo == QpReset(q)
  IN <<GetIn(Qp(q), undo)>>
       \o (IF backend = "RA" THEN <<>>
           ELSE <<CheckIn(undo), GetIn(Buffer("sendWrIds", q), undo),
                  GetIn(Buffer("recvWrIds", q), undo)>>)
       \o <<CheckIn(undo)>>

\* Transport::build_device_transport: each array is a local until it is copied
BuildDeviceTransport(backend) ==
  LET states == Buffer("qpStates", 0)
      addresses == Buffer("deviceQpAddresses", 0)
  IN <<Check, GetIn(states, <<states>>), CheckIn(<<states>>)>>
       \o IF backend = "RA" THEN <<>> ELSE <<GetIn(addresses, <<addresses>>), CheckIn(<<addresses>>)>>

\* Transport::open: endpoint, the accepted count over TCP, queue pairs, exchange of
\* their addresses and connect, device arrays, ready
TransportOpen(backend) ==
  EndpointOpen \o <<Receive>> \o FlattenSeq([q \in 1 .. QpCount |-> QpCreate(q, backend)])
    \o <<Receive>> \o BuildDeviceTransport(backend) \o <<Check>>

\* the members of Transport, last declared first
TransportReset ==
  <<Buffer("qpStates", 0), Buffer("deviceQpAddresses", 0)>>
    \o FlattenSeq([q \in 1 .. QpCount |-> QpReset(q)]) \o EndpointReset

\* a MemoryRegion member and the MemoryBuffer declared before it: opened, and reset
Registered(name) == <<Get(Buffer(name, 0)), Get(Region(name, 0))>>
Unregistered(name) == <<Region(name, 0), Buffer(name, 0)>>

\* Faulty form: the slot table's buffer is declared after the region that registers it.
ClientResetBuffersFirst ==
  <<Buffer("slotTable", 0), Region("slotTable", 0), Buffer("storageStates", 0),
    Buffer("slotDescriptors", 0)>>
    \o Unregistered("completion") \o Unregistered("command")
    \o Unregistered("namespace") \o Unregistered("bootstrap")

\* the members of StorageClient, last declared first
ClientReset ==
  Unregistered("slotTable") \o <<Buffer("storageStates", 0), Buffer("slotDescriptors", 0)>>
    \o Unregistered("completion") \o Unregistered("command")
    \o Unregistered("namespace") \o Unregistered("bootstrap")

\* StorageClient::open
ClientOpen ==
  Registered("bootstrap") \o Registered("command") \o Registered("completion")
    \o Registered("namespace")
    \o <<Get(Buffer("slotDescriptors", 0)), Check, Get(Buffer("storageStates", 0)), Check>>
    \o <<Get(Buffer("slotTable", 0)), Check, Get(Region("slotTable", 0)), Check>>

\* RaLauncher::load: a symbol that is missing closes the library again
RaLoad == <<Get(Binary), CheckIn(<<Binary>>)>>

\* AivLauncher::load, AicpuLauncher::load
BinaryLoad == <<Get(Binary)>>

\* Launcher::open
LauncherOpen(backend) == IF backend = "RA" THEN RaLoad ELSE BinaryLoad

=============================================================================
