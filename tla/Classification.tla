--------------------------- MODULE Classification ---------------------------
(***************************************************************************)
(* packages/policy-engine/src/classification.ts: is a message a live event *)
(* or historical context, and may it start the response clock?  A pure     *)
(* function of the message, the mapping of its channel and the way it      *)
(* arrived.  The reported reason is left out: it has no effect.            *)
(***************************************************************************)
EXTENDS Naturals

MappingMode == {"unmapped", "single_client", "mixed", "archived"}

MessageDirection == {"inbound", "outbound"}

\* A channel without an active mapping has mode "unmapped" and time 0.
Mapping == [mode : MappingMode, effectiveAt : Nat]

Unmapped == [mode |-> "unmapped", effectiveAt |-> 0]

ClassificationInput ==
  [providerTimestamp : Nat,
   now : Nat,
   mapping : Mapping,
   isHistorySync : BOOLEAN,
   isReconnectSync : BOOLEAN,
   staleSyncThreshold : Nat,
   explicitBackfill : BOOLEAN,
   direction : MessageDirection,
   operational : BOOLEAN,
   senderIsInternal : BOOLEAN,
   phoneRestricted : BOOLEAN]

ClassificationResult ==
  [isBackfill : BOOLEAN, automationSuppressed : BOOLEAN, slaEligible : BOOLEAN]

-----------------------------------------------------------------------------
MutIgnoreHistoryFlag(in) ==
  \/ in.explicitBackfill
  \/ in.providerTimestamp < in.mapping.effectiveAt
  \/ in.isReconnectSync /\ in.now > in.providerTimestamp + in.staleSyncThreshold
\* Historical context: imported, older than the mapping, or stale when the
\* backlog of a reconnect is drained.
IsBackfill(in) ==
  \/ in.explicitBackfill
  \/ in.isHistorySync
  \/ in.providerTimestamp < in.mapping.effectiveAt
  \/ in.isReconnectSync /\ in.now > in.providerTimestamp + in.staleSyncThreshold

\* A live message that must not drive automation all the same.
Suppressed(in) ==
  \/ ~in.operational
  \/ in.mapping.mode \in {"unmapped", "mixed"}
  \/ in.phoneRestricted
  \/ in.senderIsInternal

ClientInbound(in) == in.direction = "inbound" /\ ~in.senderIsInternal

\* isLiveEvent is the negation of isBackfill, and ticketAutoCreateEligible always
\* equals slaEligible.
classifyMessage(in) ==
  [isBackfill |-> IsBackfill(in),
   automationSuppressed |-> IsBackfill(in) \/ Suppressed(in),
   slaEligible |-> /\ ~IsBackfill(in) /\ ~Suppressed(in)
                   /\ in.mapping.mode = "single_client"
                   /\ ClientInbound(in)]
=============================================================================
