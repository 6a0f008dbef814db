------------------------------ MODULE SendOnce ------------------------------
(***************************************************************************)
(* What the outbox promises, without its queue, its workers or its status  *)
(* column: a reply is accepted at most once per idempotency key, one party *)
(* takes it, and it reaches WhatsApp once or never.  Outbox.tla implements *)
(* this specification.                                                     *)
(***************************************************************************)
EXTENDS Naturals

CONSTANTS
  Requests,  \* calls that ask for a reply to be sent
  KeyOf,     \* the idempotency key each call carries
  NoKey      \* the call carries none

VARIABLES
  fate,      \* what became of the reply each call asked for
  copies     \* how many copies of it WhatsApp accepted

promise == <<fate, copies>>

Fates == {"absent", "open", "taken", "delivered", "dropped"}

Init ==
  /\ fate = [r \in Requests |-> "absent"]
  /\ copies = [r \in Requests |-> 0]

\* A reply is accepted unless one with its key already was.
Accept(r) ==
  /\ fate[r] = "absent"
  /\ \A s \in Requests :
       fate[s] # "absent" => KeyOf[r] = NoKey \/ KeyOf[s] # KeyOf[r]
  /\ fate' = [fate EXCEPT ![r] = "open"]
  /\ UNCHANGED copies

Take(r) ==
  /\ fate[r] = "open"
  /\ fate' = [fate EXCEPT ![r] = "taken"]
  /\ UNCHANGED copies

Deliver(r) ==
  /\ fate[r] = "taken"
  /\ fate' = [fate EXCEPT ![r] = "delivered"]
  /\ copies' = [copies EXCEPT ![r] = @ + 1]

\* Cancelled, blocked by policy, failed, or lost with the worker that took it.
Drop(r) ==
  /\ fate[r] \in {"open", "taken"}
  /\ fate' = [fate EXCEPT ![r] = "dropped"]
  /\ UNCHANGED copies

Next == \E r \in Requests : Accept(r) \/ Take(r) \/ Deliver(r) \/ Drop(r)

Spec == Init /\ [][Next]_promise
=============================================================================
