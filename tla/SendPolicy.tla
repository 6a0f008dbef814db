----------------------------- MODULE SendPolicy -----------------------------
(***************************************************************************)
(* The outbound gate of packages/policy-engine/src/send-policy.ts: a pure  *)
(* function from the state of the phone, the spend and cooldown flags and  *)
(* the number of recipients to a verdict.  The wording of the reasons is   *)
(* left out.                                                               *)
(***************************************************************************)
EXTENDS Naturals

\* Statuses of a phone instance.
PhoneStatus ==
  {"connected", "syncing", "disconnected", "qr_required", "degraded",
   "restricted", "archived"}

ConnectionMode == {"linked_device", "official_api"}

SendPolicyInput(recipients) ==
  [phoneStatus : PhoneStatus,
   connectionMode : ConnectionMode,
   cooldownActive : BOOLEAN,
   costLimitExceeded : BOOLEAN,
   recipientCount : recipients,
   mediumRiskThreshold : recipients,
   highRiskThreshold : recipients,
   actorIsAdmin : BOOLEAN]

-----------------------------------------------------------------------------
MutHighPastThreshold(recipients, medium, high) ==
  CASE recipients > high -> "high"
    [] recipients < high /\ recipients >= medium -> "medium"
    [] OTHER -> "low"
riskLevel(recipients, medium, high) ==
  CASE recipients >= high -> "high"
    [] recipients < high /\ recipients >= medium -> "medium"
    [] OTHER -> "low"

\* The conditions that block a send whoever asks for it.
HardBlocked(in) ==
  \/ in.phoneStatus \in {"restricted", "archived"}
  \/ in.phoneStatus \in {"disconnected", "qr_required"}
  \/ in.costLimitExceeded /\ in.connectionMode = "official_api"
  \/ in.cooldownActive

\* The size of a bulk send asks for somebody's approval first.
NeedsApproval(in) ==
  LET risk == riskLevel(in.recipientCount, in.mediumRiskThreshold,
                        in.highRiskThreshold)
  IN  \/ risk = "high" /\ ~in.actorIsAdmin
      \/ risk = "medium"

evaluateSendPolicy(in) ==
  CASE HardBlocked(in) -> "blocked"
    [] ~HardBlocked(in) /\ NeedsApproval(in) -> "needs_approval"
    [] OTHER -> "allowed"

\* The input the outbox worker builds for a row: one recipient, the default
\* thresholds, no cooldown, no cost limit, not an admin.
ReplyInput(phoneStatus, mode) ==
  [phoneStatus |-> phoneStatus,
   connectionMode |-> mode,
   cooldownActive |-> FALSE,
   costLimitExceeded |-> FALSE,
   recipientCount |-> 1,
   mediumRiskThreshold |-> 10,
   highRiskThreshold |-> 25,
   actorIsAdmin |-> FALSE]
=============================================================================
