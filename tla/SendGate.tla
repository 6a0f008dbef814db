------------------------------ MODULE SendGate ------------------------------
(***************************************************************************)
(* The verdict of the outbound gate while the circumstances of a send get  *)
(* worse: it grows, a cooldown starts, the spend cap is reached, the phone *)
(* is lost.  The steps are those that may happen between two evaluations   *)
(* of packages/policy-engine/src/send-policy.ts for one send.              *)
(***************************************************************************)
EXTENDS SendPolicy

CONSTANT MaxRecipients  \* bound on the recipients and on the thresholds

ASSUME RecipientsAssumption == MaxRecipients \in Nat \ {0}

VARIABLE in  \* the input of the next evaluation

Recipients == 1 .. MaxRecipients

TypeOK == in \in SendPolicyInput(Recipients)

\* A single reply over a phone that can send, under any thresholds.
Init ==
  /\ in \in SendPolicyInput(Recipients)
  /\ in.phoneStatus \in {"connected", "syncing", "degraded"}
  /\ in.recipientCount = 1
  /\ ~in.cooldownActive /\ ~in.costLimitExceeded

Grow ==
  /\ in.recipientCount < MaxRecipients
  /\ in' = [in EXCEPT !.recipientCount = @ + 1]

StartCooldown ==
  /\ ~in.cooldownActive
  /\ in' = [in EXCEPT !.cooldownActive = TRUE]

ReachSpendCap ==
  /\ ~in.costLimitExceeded
  /\ in' = [in EXCEPT !.costLimitExceeded = TRUE]

LosePhone ==
  /\ in.phoneStatus \in {"connected", "syncing", "degraded"}
  /\ \E lost \in {"disconnected", "qr_required", "restricted", "archived"} :
       in' = [in EXCEPT !.phoneStatus = lost]

Next == Grow \/ StartCooldown \/ ReachSpendCap \/ LosePhone

Spec == Init /\ [][Next]_in

-----------------------------------------------------------------------------
\* How far a verdict is from a send.
Severity(verdict) ==
  CASE verdict = "allowed" -> 0
    [] verdict = "needs_approval" -> 1
    [] verdict = "blocked" -> 2

\* For somebody who is not an admin no change for the worse brings a send closer
\* to the gateway, wherever the thresholds of send-policy.ts:82 lie and even if
\* they are configured in the wrong order.
NeverLoosens ==
  [][~in.actorIsAdmin =>
       Severity(evaluateSendPolicy(in')) >= Severity(evaluateSendPolicy(in))]_in
=============================================================================
