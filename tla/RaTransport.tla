---------------------------- MODULE RaTransport ----------------------------
(***************************************************************************)
(* The transport operations the host runs for the RA backend on one queue  *)
(* pair: NdsRaRdmaSend, NdsRaRdmaRead and NdsRaRdmaWrite (all post) and    *)
(* NdsRaRdmaRecv.  A send is written by the provider (RaTypicalSendWr) and *)
(* then rung by the runtime (rtRDMADBSend); either may fail.  The wait for *)
(* a signaled send has a deadline and its poll of the CQ may itself fail,  *)
(* so a call can return while its own completion is still on its way, and  *)
(* a later call finds it.                                                  *)
(*                                                                         *)
(* The provider owns the rings: head counts the requests it has written,   *)
(* rung those the adapter was told of.  A doorbell covers every request    *)
(* written before it, also one whose own doorbell failed.                  *)
(***************************************************************************)
EXTENDS TransportQp

VARIABLES
  rung,      \* send requests the adapter has been told of
  pc,        \* where the current call is; "idle" between calls
  target,    \* credits wait_for_send_completion waits for
  result,    \* how the last call returned
  waitedFor, \* position of the last signaled request a call waited for
  stale,     \* history: an earlier completion was still owed when that was rung
  abandoned, \* history: a wait ended by its deadline or by a failed poll
  unrecorded \* history: a request was written and its doorbell failed

history == <<stale, abandoned, unrecorded>>
raVars == <<rung, pc, target, result, waitedFor, history>>
vars == <<unsignaled, sendCredits, recvCredits, head, tail, executed, signals,
          sendCq, failedAt, rqHead, rqTail, recvCq,
          rung, pc, target, result, waitedFor, stale, abandoned, unrecorded>>

Results == {"none", "ok", "waited", "kInvalidArgument", "kTransport", "kRa", "kRuntime"}

\* The least state every reachable state has.
TypeOK ==
  /\ QpTypeOK
  /\ rung \in Nat /\ target \in Nat
  /\ pc \in {"idle", "post", "ring", "wait", "recv"}
  /\ result \in Results
  /\ waitedFor \in Nat \cup {None}
  /\ stale \in BOOLEAN /\ abandoned \in BOOLEAN /\ unrecorded \in BOOLEAN

Init ==
  /\ QpInit
  /\ rung = 0 /\ pc = "idle" /\ target = 0 /\ result = "none"
  /\ waitedFor = None /\ stale = FALSE /\ abandoned = FALSE /\ unrecorded = FALSE

Return(r) == pc' = "idle" /\ result' = r

\* nds_transport_should_signal
ShouldSignal == unsignaled + 1 >= Interval

\* Faulty form: the interval is taken off instead of added.
WaitTargetBelow == sendCredits' - Interval

\* credits a signaled send waits for
WaitTarget == sendCredits' + Interval

-----------------------------------------------------------------------------
(* post: NdsRaRdmaSend, NdsRaRdmaRead, NdsRaRdmaWrite. *)

\* Faulty form: a completion gives back one credit.
ReclaimOneCredit(n) ==
  /\ sendCredits' = sendCredits + n
  /\ tail' = TailAfter(n)
  /\ sendCq' = SubSeq(sendCq, n + 1, Len(sendCq))

\* reclaim: every completion NdsRaPollCq takes gives an interval back
Reclaim(n) == ReclaimSend(n)
ReclaimReceives(n) == ReclaimRecv(n)

\* the call starts; reclaim_if_needed polls when no credit is left
Post ==
  /\ pc = "idle" /\ head < MaxPosts
  /\ LET n == IF sendCredits = 0 THEN SendReady ELSE 0 IN
       /\ Reclaim(n)
       /\ IF SendFailed(n) THEN Return("kRa")
          ELSE IF sendCredits' = 0 THEN Return("kTransport")
          ELSE pc' = "post" /\ result' = "none"
  /\ UNCHANGED <<unsignaled, head, executed, signals, failedAt, recvVars,
                 rung, target, waitedFor, history>>

\* The poll of reclaim_if_needed itself fails: the call returns, nothing taken.
ReclaimFails ==
  /\ pc = "idle"
  /\ (head < MaxPosts /\ sendCredits = 0) \/ (rqHead < MaxRecvs /\ recvCredits = 0)
  /\ Return("kRa")
  /\ UNCHANGED <<sendVars, nicVars, recvVars, rung, target, waitedFor, history>>

\* NdsRaPrepareSend: bad arguments, or the provider refuses; otherwise the
\* request is in the ring and the doorbell is next
PrepareSendFails ==
  /\ pc = "post"
  /\ \E r \in {"kInvalidArgument", "kRa"} : Return(r)
  /\ UNCHANGED <<sendVars, nicVars, recvVars, rung, target, waitedFor, history>>

PrepareSend ==
  /\ pc = "post" /\ head - tail < Depth
  /\ head' = head + 1
  /\ signals' = IF ShouldSignal THEN signals \cup {head} ELSE signals
  /\ pc' = "ring"
  /\ UNCHANGED <<unsignaled, sendCredits, tail, executed, sendCq, failedAt, recvVars,
                 rung, target, result, waitedFor, history>>

\* The doorbell fails: the request stays in the ring and the call's copy of the
\* scheduling state is dropped.
RingSendFails ==
  /\ pc = "ring"
  /\ Return("kRuntime")
  /\ unrecorded' = TRUE
  /\ UNCHANGED <<sendVars, nicVars, recvVars, rung, target, waitedFor, stale, abandoned>>

\* A completion of an earlier request is in the CQ or on its way.
EarlierOwed == sendCq # <<>> \/ signals \ {head - 1} # {}

\* Faulty form: the scheduling state is stored without the credit charge.
RingSendUncharged ==
  /\ pc = "ring"
  /\ rung' = head
  /\ UNCHANGED sendCredits
  /\ unsignaled' = IF ShouldSignal THEN 0 ELSE unsignaled + 1
  /\ target' = WaitTarget
  /\ IF ShouldSignal
     THEN pc' = "wait" /\ waitedFor' = head - 1 /\ stale' = EarlierOwed /\ UNCHANGED result
     ELSE Return("ok") /\ UNCHANGED <<waitedFor, stale>>
  /\ UNCHANGED <<head, tail, nicVars, recvVars, abandoned, unrecorded>>

\* The doorbell is rung and the send recorded; a signaled one is waited for.
RingSend ==
  /\ pc = "ring"
  /\ rung' = head
  /\ sendCredits' = sendCredits - 1
  /\ unsignaled' = IF ShouldSignal THEN 0 ELSE unsignaled + 1
  /\ target' = WaitTarget
  /\ IF ShouldSignal
     THEN pc' = "wait" /\ waitedFor' = head - 1 /\ stale' = EarlierOwed /\ UNCHANGED result
     ELSE Return("ok") /\ UNCHANGED <<waitedFor, stale>>
  /\ UNCHANGED <<head, tail, nicVars, recvVars, abandoned, unrecorded>>

\* Faulty form: a failed completion does not end the wait.
WaitIgnoresStatus ==
  /\ pc = "wait" /\ sendCq # <<>>
  /\ Reclaim(SendReady)
  /\ IF sendCredits' >= target THEN Return("waited") ELSE UNCHANGED <<pc, result>>
  /\ UNCHANGED <<unsignaled, head, executed, signals, failedAt, recvVars,
                 rung, target, waitedFor, history>>

\* one turn of wait_for_send_completion that finds completions
WaitForSendCompletion ==
  /\ pc = "wait" /\ sendCq # <<>>
  /\ Reclaim(SendReady)
  /\ IF SendFailed(SendReady) THEN Return("kRa")
     ELSE IF sendCredits' >= target THEN Return("waited")
     ELSE UNCHANGED <<pc, result>>
  /\ UNCHANGED <<unsignaled, head, executed, signals, failedAt, recvVars,
                 rung, target, waitedFor, history>>

\* The deadline passes (kRuntime), or the poll of the turn fails and takes
\* nothing (kRa): the call returns and the completion may still come.
WaitAbandoned ==
  /\ pc = "wait"
  /\ \E r \in {"kRuntime", "kRa"} : Return(r)
  /\ abandoned' = TRUE
  /\ UNCHANGED <<sendVars, nicVars, recvVars, rung, target, waitedFor, stale, unrecorded>>

-----------------------------------------------------------------------------
(* NdsRaRdmaRecv. *)

Recv ==
  /\ pc = "idle" /\ rqHead < MaxRecvs
  /\ LET n == IF recvCredits = 0 THEN RecvReady ELSE 0 IN
       /\ ReclaimReceives(n)
       /\ IF RecvFailed(n) THEN Return("kRa")
          ELSE IF recvCredits' = 0 THEN Return("kTransport")
          ELSE pc' = "recv" /\ result' = "none"
  /\ UNCHANGED <<sendVars, nicVars, rqHead, rung, target, waitedFor, history>>

\* NdsRaPostRecv succeeds and is charged, or fails
PostRecv ==
  /\ pc = "recv"
  /\ \/ /\ rqHead' = rqHead + 1 /\ recvCredits' = recvCredits - 1
        /\ Return("ok")
     \/ /\ \E r \in {"kInvalidArgument", "kRa"} : Return(r)
        /\ UNCHANGED <<rqHead, recvCredits>>
  /\ UNCHANGED <<sendVars, nicVars, rqTail, recvCq, rung, target, waitedFor, history>>

-----------------------------------------------------------------------------
\* The adapter executes what it was told of.
Nic ==
  \/ /\ executed < rung /\ (NicExecute \/ NicFail)
     /\ UNCHANGED <<unsignaled, sendCredits, head, tail, recvVars, raVars>>
  \/ /\ NicDeliver
     /\ UNCHANGED <<sendVars, nicVars, recvCredits, rqHead, rqTail, raVars>>

Next ==
  \/ Post \/ ReclaimFails \/ PrepareSendFails \/ PrepareSend \/ RingSendFails \/ RingSend
  \/ WaitForSendCompletion \/ WaitAbandoned
  \/ Recv \/ PostRecv
  \/ Nic

Spec == Init /\ [][Next]_vars

-----------------------------------------------------------------------------
(* Properties. *)

\* While every written request was rung and none failed, the credits account
\* for the ring, also across waits that ended without their completion: a late
\* one gives its interval back to whichever call finds it.
CreditsSurviveTimeouts ==
  (failedAt = None /\ ~unrecorded /\ pc # "ring") => sendCredits + (head - tail) = Depth

\* A successful wait means that the request it was for has executed, except
\* where wait_for_send_completion counts another request's completion: one that
\* was still owed when this request was rung, because an earlier wait ended
\* without it or an earlier doorbell failed.  A pair that has caught up is
\* exact again.
WaitedSuccessIsExecuted ==
  (result = "waited" /\ ~(stale /\ (abandoned \/ unrecorded))) =>
    /\ executed > waitedFor
    /\ failedAt # None => failedAt > waitedFor

\* Completions never wait for ever: each CQE that is not consumed is found by a
\* later call, because the credits it stands for are missing until then.
NoStrandedCredit ==
  (failedAt = None /\ ~unrecorded /\ pc = "idle" /\ sendCredits = 0) =>
    sendCq # <<>> \/ signals # {}
=============================================================================
