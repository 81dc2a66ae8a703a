--------------------------- MODULE StorageService ---------------------------
(***************************************************************************)
(* What a storage session promises its application, with no queue pair,    *)
(* slot, window or thread in sight: a submitted command takes effect on    *)
(* the namespace at one instant between its submission and its answer, at  *)
(* most once, and is answered SUCCESS only after that instant; an error    *)
(* answer means that the command has no effect and never will, because it  *)
(* leaves the namespace's range or because the transport refused it when   *)
(* it was submitted.  Commands are submitted concurrently and take effect  *)
(* in any order; a command may stay unanswered for ever (a timeout, a lost *)
(* server).                                                                *)
(***************************************************************************)
EXTENDS Integers, Sequences

CONSTANT Ids

VARIABLES
  life,       \* command -> how far it is
  kind,       \* command -> "read", "write" or "bad", once submitted
  namespace,  \* the writes that took effect, in order
  result      \* command -> writes a read saw when it took effect

vars == <<life, kind, namespace, result>>

Init ==
  /\ life = [i \in Ids |-> "none"]
  /\ kind = [i \in Ids |-> "none"]
  /\ namespace = <<>>
  /\ result = [i \in Ids |-> -1]

Submit(i, k) ==
  /\ life[i] = "none"
  /\ life' = [life EXCEPT ![i] = "submitted"]
  /\ kind' = [kind EXCEPT ![i] = k]
  /\ UNCHANGED <<namespace, result>>

\* The transport refuses the command: the server will never see it.
Refuse(i, k) ==
  /\ life[i] = "none"
  /\ life' = [life EXCEPT ![i] = "refused"]
  /\ kind' = [kind EXCEPT ![i] = k]
  /\ UNCHANGED <<namespace, result>>

Apply(i) ==
  /\ life[i] = "submitted"
  /\ life' = [life EXCEPT ![i] = "applied"]
  /\ \/ kind[i] = "write" /\ namespace' = Append(namespace, i) /\ UNCHANGED result
     \/ kind[i] = "read" /\ result' = [result EXCEPT ![i] = Len(namespace)]
                         /\ UNCHANGED namespace
  /\ UNCHANGED kind

AnswerSuccess(i) ==
  /\ life[i] = "applied"
  /\ life' = [life EXCEPT ![i] = "succeeded"]
  /\ UNCHANGED <<kind, namespace, result>>

AnswerError(i) ==
  /\ life[i] = "refused" \/ (life[i] = "submitted" /\ kind[i] = "bad")
  /\ life' = [life EXCEPT ![i] = "rejected"]
  /\ UNCHANGED <<kind, namespace, result>>

Next == \E i \in Ids :
  \/ \E k \in {"read", "write", "bad"} : Submit(i, k) \/ Refuse(i, k)
  \/ Apply(i) \/ AnswerSuccess(i) \/ AnswerError(i)

Spec == Init /\ [][Next]_vars

=============================================================================
