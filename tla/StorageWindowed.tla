-------------------------- MODULE StorageWindowed --------------------------
(***************************************************************************)
(* A storage session driven by the application loops of the repository:    *)
(* allocate and submit a window of commands, then wait for and release     *)
(* them in the order of submission, until all commands are done.  The      *)
(* example client's window is the slot count of the session, the torch     *)
(* session's is one command.  The application may also select the queue of *)
(* each slot, giving every queue the share its worker will serve.          *)
(***************************************************************************)
EXTENDS StorageSession

CONSTANTS
  SubmissionWindow,  \* commands submitted before the first is waited for
  SelectQueue        \* allocate_slot(queue_index) instead of allocate_slot()

ASSUME AppAssumption == SubmissionWindow \in Nat \ {0} /\ SelectQueue \in BOOLEAN

VARIABLES
  phase,     \* where the application loop is
  window,    \* slots of the current window not yet released, oldest first
  perQueue   \* queue -> commands the application has placed on it

appVars == <<phase, window, perQueue>>
allVars == <<vars, appVars>>

AppInit ==
  /\ Init
  /\ phase = "allocate" /\ window = <<>>
  /\ perQueue = [q \in Queues |-> 0]

\* the queues the next slot may come from
Eligible(queues) ==
  IF SelectQueue THEN \E q \in Queues : perQueue[q] < Share(q) /\ queues = {q}
  ELSE queues = Queues

\* An allocation that finds no slot aborts the application.
AppAllocate ==
  /\ phase = "allocate" /\ nextId <= CommandCount
  /\ \E queues \in SUBSET Queues :
       /\ Eligible(queues)
       /\ IF FreeAttempts(queues) = {}
          THEN phase' = "aborted" /\ UNCHANGED <<vars, window, perQueue>>
          ELSE LET s == Rotated(Min(FreeAttempts(queues))) IN
               /\ AllocateSlot(queues) /\ UNCHANGED serverVars
               /\ window' = Append(window, s)
               /\ perQueue' = [perQueue EXCEPT ![QueueOf(s)] = @ + 1]
               /\ phase' = "submit"

\* So does one whose copy of the slot's state fails.
AppAllocateFails ==
  /\ phase = "allocate"
  /\ \E queues \in SUBSET Queues : Eligible(queues) /\ AllocateSlotFails(queues)
  /\ phase' = "aborted"
  /\ UNCHANGED <<serverVars, window, perQueue>>

\* The loop submits the whole window before it waits.  A synchronous submission
\* of AIV or AICPU (the torch session's) also reports a refused Send and its own
\* timeout, which abort; the example client's are asynchronous and go on.
AppSubmit ==
  /\ phase = "submit"
  /\ Submit(window[Len(window)])
  /\ \/ phase' = IF Len(window) < SubmissionWindow /\ nextId <= CommandCount
                 THEN "allocate" ELSE "collect"
     \/ Faults /\ backend # "RA" /\ phase' = "aborted"
  /\ UNCHANGED <<window, perQueue>>

\* A submission that returns an error aborts the application.
AppSubmitFails ==
  /\ phase = "submit"
  /\ SubmitFails(window[Len(window)])
  /\ phase' = "aborted"
  /\ UNCHANGED <<window, perQueue>>

\* storage_wait on the oldest slot; an answer other than success aborts
AppWait ==
  /\ phase = "collect" /\ window # <<>>
  /\ Wait(Head(window))
  /\ phase' = IF WaitAnswer(Head(window)) = "SUCCESS" THEN "collect" ELSE "aborted"
  /\ UNCHANGED <<window, perQueue>>

\* storage_wait returns an error without an answer: the loop does not wait again
AppWaitFails ==
  /\ phase = "collect" /\ window # <<>>
  /\ WaitFails(Head(window))
  /\ phase' = "aborted"
  /\ UNCHANGED <<window, perQueue>>

AppRelease ==
  /\ phase = "collect" /\ window # <<>>
  /\ Release(Head(window))
  /\ window' = Tail(window)
  /\ phase' = IF Len(window) > 1 THEN "collect"
              ELSE IF nextId <= CommandCount THEN "allocate" ELSE "done"
  /\ UNCHANGED perQueue

AppReleaseFails ==
  /\ phase = "collect" /\ window # <<>>
  /\ ReleaseFails(Head(window))
  /\ phase' = "aborted"
  /\ UNCHANGED <<window, perQueue>>

App ==
  \/ AppAllocate \/ AppAllocateFails \/ AppSubmit \/ AppSubmitFails
  \/ AppWait \/ AppWaitFails \/ AppRelease \/ AppReleaseFails

AppNext ==
  \/ App
  \/ \E q \in Queues : Server(q) /\ UNCHANGED appVars

\* Application, workers and network make progress; a reliable connection
\* delivers what was posted.
AppSpec ==
  /\ AppInit /\ [][AppNext]_allVars
  /\ WF_allVars(App)
  /\ \A q \in Queues :
       /\ WF_allVars((WorkerStep(q) \/ WorkerFails(q)) /\ UNCHANGED <<clientVars, appVars>>)
       /\ WF_allVars(Network(q) /\ UNCHANGED <<clientVars, appVars>>)

-----------------------------------------------------------------------------
(* Properties. *)

\* No worker meets a command in another slot than the one its receive is for:
\* the order in which the client's rotation hands out slots is the order in
\* which the worker posted the receives, on every queue and across windows.
NoProtocolError == firstError # "kProtocol"

\* Without faults the session completes: every command is answered with
\* success and the server exits cleanly.  The worker completes nothing before
\* its whole window arrived, so this depends on the application's window.
SessionCompletes == <>(phase = "done" /\ Joined /\ firstError = "none")

\* Everybody stops: whatever is refused, lost or late, the application's loop
\* and all server threads come to an end, since every wait has a deadline.
EverybodyStops == <>(phase \in {"done", "aborted"} /\ Joined)
=============================================================================
