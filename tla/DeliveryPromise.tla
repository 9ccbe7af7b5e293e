-------------------------- MODULE DeliveryPromise --------------------------
(***************************************************************************)
(* What the sending of replies promises about the message and the ledger   *)
(* of external operations.  The intention to send is on record before the  *)
(* server can have the message; the message is handed over at most once;   *)
(* and what is then recorded of it is true, and is recorded once.  Only an *)
(* attempt that cannot have delivered is followed by another.              *)
(***************************************************************************)
CONSTANT Replies

VARIABLES fate,    \* held: the server cannot have the message; lost: it was handed over and
                   \* did not arrive; taken: the server took it
          ledger   \* the status of its external operation

vars == <<fate, ledger>>

Init == /\ fate = [r \in Replies |-> "held"]
        /\ ledger = [r \in Replies |-> "none"]

Intend(r) == /\ fate[r] = "held" /\ ledger[r] \in {"none", "failed_retryable"}
             /\ ledger' = [ledger EXCEPT ![r] = "running"]
             /\ UNCHANGED fate

HandOver(r) == /\ fate[r] = "held" /\ ledger[r] = "running"
               /\ \E end \in {"lost", "taken"} : fate' = [fate EXCEPT ![r] = end]
               /\ UNCHANGED ledger

(* succeeded, failed and uncertain are never taken back: nobody who was not  *)
(* there learns later what became of the message.                            *)
Record(r, status) == /\ ledger[r] = "running"
                     /\ \/ status = "succeeded" /\ fate[r] = "taken"
                        \/ status = "uncertain" /\ fate[r] # "held"
                        \/ status \in {"failed_retryable", "failed_terminal"}
                           /\ fate[r] = "held"
                     /\ ledger' = [ledger EXCEPT ![r] = status]
                     /\ UNCHANGED fate

(* Everything else that happens to a reply is none of the promise's business.*)
Elsewhere == UNCHANGED vars

Next == \/ Elsewhere
        \/ \E r \in Replies :
              \/ Intend(r) \/ HandOver(r)
              \/ \E status \in {"succeeded", "uncertain", "failed_retryable", "failed_terminal"} :
                    Record(r, status)

Spec == Init /\ [][Next]_vars
=============================================================================
