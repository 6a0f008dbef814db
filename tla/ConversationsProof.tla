------------------------- MODULE ConversationsProof -------------------------
(***************************************************************************)
(* Proofs about Conversations.tla for any number of calls, groups, crashes *)
(* and failures: a command that is repeated is done once.  The invariant   *)
(* says what a call may rely on at each of its statements, and counts the  *)
(* reservations: each can create one group.                                *)
(***************************************************************************)
EXTENDS Conversations, FiniteSetTheorems, SequenceTheorems, TLAPS

-----------------------------------------------------------------------------
(* The invariant.                                                          *)

\* The chats that calls can have got from the provider.
Existing == IF kind = "direct" THEN {Direct} ELSE 1 .. groups

RowIds == 1 .. Len(rows)

\* channels_ws_phone_chat_uq, and no row before its chat.
RowsAreChats ==
  /\ \A i \in RowIds : rows[i] \in Existing
  /\ \A i, j \in RowIds : rows[i] = rows[j] => i = j

\* What a call holds at each statement is there.
CallsKnow ==
  \A c \in Calls :
    /\ convCall[c].chat \in Existing \cup {NoRow}
    /\ convCall[c].at # "idle" => command # NoRow
    /\ convCall[c].at \in {"save", "find", "insert", "send", "complete", "done"}
         => convCall[c].chat # NoRow
    /\ convCall[c].at \in {"send", "complete", "done"}
         => convCall[c].channel \in RowIds
    /\ convCall[c].at \in {"complete", "done"} => convCall[c].outbox \in RowIds

\* And so is what the command's row names.
CommandKnows ==
  /\ queued = 0 \/ queued \in RowIds
  /\ command # NoRow =>
       /\ command.chat \in Existing \cup {NoRow}
       /\ command.status = "completed" =>
            /\ command.chat # NoRow
            /\ command.channel \in RowIds /\ command.outbox \in RowIds

Reserved == {c \in Calls : CallAt(c, "reserved")}

\* A group was created under a reservation, which is the first or a takeover.
ReservationsPay ==
  /\ IsFiniteSet(Reserved)
  /\ groups + Cardinality(Reserved) <= takeovers + (IF command = NoRow THEN 0 ELSE 1)

ConvInv == ConvTypeOK /\ RowsAreChats /\ CallsKnow /\ CommandKnows /\ ReservationsPay

-----------------------------------------------------------------------------
(* Rows.                                                                   *)

LEMMA RowOfMeans ==
  ASSUME ConvTypeOK, NEW chat
  PROVE  /\ RowOf(chat) # 0 => RowOf(chat) \in RowIds
         /\ RowOf(chat) \in Nat
         /\ Conflicts(chat) <=> \E i \in RowIds : rows[i] = chat
<1>1. DOMAIN rows = 1 .. Len(rows) /\ Len(rows) \in Nat
  BY LenProperties DEF ConvTypeOK
<1>2. CASE RowsOf(chat) = {}
  BY <1>1, <1>2 DEF RowOf, RowsOf, RowIds, Conflicts
<1>3. CASE RowsOf(chat) # {}
  <2>1. RowOf(chat) \in RowsOf(chat)
    BY <1>3 DEF RowOf
  <2> QED  BY <1>1, <1>3, <2>1 DEF RowsOf, RowIds, Conflicts
<1> QED  BY <1>2, <1>3

\* A chat has one row, so there are no more rows than chats.
LEMMA ChatRowsFit ==
  ASSUME ConvTypeOK, NEW s \in Seq(Chats),
         \A i \in 1 .. Len(s) : s[i] \in Existing,
         \A i, j \in 1 .. Len(s) : s[i] = s[j] => i = j
  PROVE  Len(s) <= MaxGroups
<1>1. Len(s) \in Nat /\ s \in [1 .. Len(s) -> Chats]
  BY LenProperties
<1>2. MaxGroups \in Nat /\ MaxGroups >= 1 /\ groups \in Nat /\ groups <= MaxGroups
  BY ConvAssumption DEF ConvTypeOK
<1>3. IsFiniteSet(Existing) /\ Cardinality(Existing) <= MaxGroups
  <2>1. CASE kind = "direct"
    <3>1. Existing = {Direct}
      BY <2>1 DEF Existing
    <3>2. IsFiniteSet({Direct}) /\ Cardinality({Direct}) = 1
      BY FS_Singleton, Zenon
    <3> QED  BY <1>2, <3>1, <3>2
  <2>2. CASE kind # "direct"
    <3>1. Existing = 1 .. groups
      BY <2>2 DEF Existing
    <3>2. IsFiniteSet(1 .. groups) /\ Cardinality(1 .. groups) = groups
      BY <1>2, FS_Interval
    <3> QED  BY <1>2, <3>1, <3>2
  <2> QED  BY <2>1, <2>2
<1>4. s \in Injection(1 .. Len(s), Existing)
  BY <1>1 DEF Injection, IsInjective
<1>5. Cardinality(1 .. Len(s)) <= Cardinality(Existing)
  BY <1>3, <1>4, FS_Injection
<1>6. \A n \in Nat : Cardinality(1 .. n) = n
  BY FS_Interval
<1>7. Cardinality(Existing) \in Nat
  BY <1>3, FS_CardinalityType
<1>8. Cardinality(1 .. Len(s)) = Len(s)
  BY <1>1, <1>6, Zenon
<1> QED  BY <1>1, <1>2, <1>3, <1>5, <1>7, <1>8

\* A chat that exists and has no row gets the next one.
LEMMA RowIsAdded ==
  ASSUME ConvTypeOK, RowsAreChats, NEW chat \in Existing, ~Conflicts(chat),
         rows' = Append(rows, chat), UNCHANGED <<kind, groups>>
  PROVE  /\ rows' \in Seq(Chats) /\ Len(rows') = Len(rows) + 1 /\ Len(rows') <= MaxGroups
         /\ RowsAreChats' /\ RowIds \subseteq RowIds' /\ Len(rows') \in RowIds'
<1>1. rows \in Seq(Chats) /\ Len(rows) \in Nat /\ groups \in Nat /\ groups <= MaxGroups
      /\ MaxGroups \in Nat
  BY LenProperties, ConvAssumption DEF ConvTypeOK
<1>2. chat \in Chats
  BY <1>1 DEF Existing, Chats
<1>3. /\ rows' \in Seq(Chats) /\ Len(rows') = Len(rows) + 1
      /\ \A i \in 1 .. Len(rows) : rows'[i] = rows[i]
      /\ rows'[Len(rows) + 1] = chat
  BY <1>1, <1>2, AppendProperties
<1>4. \A i \in 1 .. Len(rows) : rows[i] # chat
  BY RowOfMeans DEF RowIds
<1>5. Existing' = Existing
  BY DEF Existing
<1>6. \A i \in 1 .. Len(rows') : i \in 1 .. Len(rows) \/ i = Len(rows) + 1
  BY <1>1, <1>3
<1>7. \A i \in 1 .. Len(rows') : rows'[i] \in Existing
  BY <1>3, <1>6 DEF RowsAreChats, RowIds
<1>8. \A i, j \in 1 .. Len(rows') : rows'[i] = rows'[j] => i = j
  BY <1>3, <1>4, <1>6 DEF RowsAreChats, RowIds
<1>9. Len(rows') <= MaxGroups
  BY <1>3, <1>7, <1>8, ChatRowsFit
<1>10. RowsAreChats'
  BY <1>5, <1>7, <1>8 DEF RowsAreChats, RowIds
<1> QED  BY <1>1, <1>3, <1>9, <1>10 DEF RowIds

-----------------------------------------------------------------------------
(* Types and what is held.                                                 *)

\* A call goes to another statement and keeps what it holds.
LEMMA AdvanceMoves ==
  ASSUME convCall \in [Calls -> ConvCall], NEW c \in Calls,
         NEW s \in {"idle", "conflict", "takeover", "reserved", "provider", "save", "find",
                    "insert", "send", "complete", "fail", "done"},
         Advance(c, s)
  PROVE  /\ convCall' \in [Calls -> ConvCall]
         /\ convCall'[c].at = s
         /\ convCall'[c].chat = convCall[c].chat
         /\ convCall'[c].channel = convCall[c].channel
         /\ convCall'[c].outbox = convCall[c].outbox
         /\ \A d \in Calls \ {c} : convCall'[d] = convCall[d]
  BY DEF ConvCall, Advance

LEMMA ConvInitHolds == ConvInit => ConvInv
<1> SUFFICES ASSUME ConvInit PROVE ConvInv
  OBVIOUS
<1>1. Reserved = {}
  BY DEF ConvInit, Reserved, CallAt, Idle
<1>2. IsFiniteSet({}) /\ Cardinality({}) = 0
  BY FS_EmptySet
<1>3. rows = <<>> /\ rows \in Seq(Chats) /\ Len(rows) = 0
  BY DEF ConvInit
<1>4. ConvTypeOK
  <2>1. Idle \in ConvCall
    BY ConvAssumption DEF Idle, ConvCall, ChannelIds
  <2>2. convCall \in [Calls -> ConvCall]
    BY <2>1 DEF ConvInit
  <2>3. rows \in Seq(Chats) /\ Len(rows) <= MaxGroups
    BY <1>3, ConvAssumption
  <2>4. command \in Command \cup {NoRow}
    BY DEF ConvInit
  <2>5. /\ kind \in {"direct", "group"} /\ stale \in BOOLEAN
        /\ groups \in 0 .. MaxGroups /\ queued \in ChannelIds /\ takeovers \in Nat
        /\ convFaults \in 0 .. MaxConvFaults
    <3>1. MaxGroups \in Nat /\ MaxConvFaults \in Nat
      BY ConvAssumption
    <3>2. 0 \in 0 .. MaxGroups /\ 0 \in 0 .. MaxConvFaults /\ 0 \in Nat /\ FALSE \in BOOLEAN
      BY <3>1
    <3> QED  BY <3>2, Zenon DEF ConvInit, ChannelIds
  <2> QED  BY <2>2, <2>3, <2>4, <2>5 DEF ConvTypeOK
<1>5. RowsAreChats /\ CallsKnow /\ CommandKnows
  <2>1. RowIds = {}
    BY <1>3 DEF RowIds
  <2>2. command = NoRow /\ queued = 0 /\ \A c \in Calls : convCall[c] = Idle
    BY DEF ConvInit
  <2> QED  BY <2>1, <2>2 DEF RowsAreChats, CallsKnow, CommandKnows, Idle
<1>6. ReservationsPay
  BY <1>1, <1>2 DEF ConvInit, ReservationsPay
<1> QED  BY <1>4, <1>5, <1>6 DEF ConvInv

LEMMA HoldingStep ==
  ASSUME ConvInv, ConvNext
  PROVE  ConvTypeOK' /\ RowsAreChats' /\ CallsKnow' /\ CommandKnows'
<1> USE ConvAssumption, NoRowAssumption
<1>0. /\ Len(rows) \in Nat /\ rows \in Seq(Chats) /\ groups \in Nat
      /\ DOMAIN rows = 1 .. Len(rows)
      /\ ConvTypeOK /\ RowsAreChats /\ CallsKnow /\ CommandKnows
      /\ command # NoRow => command \in Command
  BY LenProperties DEF ConvInv, ConvTypeOK
<1>1. ASSUME NEW c \in Calls, Reserve(c)
      PROVE  ConvTypeOK' /\ RowsAreChats' /\ CallsKnow' /\ CommandKnows'
  <2>1. /\ convCall' \in [Calls -> ConvCall]
        /\ \A d \in Calls \ {c} : convCall'[d] = convCall[d]
        /\ convCall'[c].chat = convCall[c].chat
        /\ convCall'[c].at \in {"reserved", "conflict"}
    BY <1>0, <1>1, AdvanceMoves DEF ConvTypeOK, Reserve
  <2>6. command' \in Command /\ command' # NoRow /\ stale' \in BOOLEAN
    <3>1. CASE command # NoRow
      BY <1>0, <1>1, <3>1 DEF Reserve, KeyIsTaken, ConvTypeOK
    <3>2. CASE command = NoRow
      <4>1. command' = [status |-> "pending", chat |-> NoRow, channel |-> 0, outbox |-> 0]
        BY <1>1, <3>2 DEF Reserve, KeyIsTaken
      <4>2. command' \in Command
        BY <4>1 DEF Command, ChannelIds
      <4> QED  BY <1>1, <3>2, <4>2 DEF Reserve, KeyIsTaken
    <3> QED  BY <3>1, <3>2
  <2>2. ConvTypeOK'
    BY <1>0, <1>1, <2>1, <2>6 DEF ConvTypeOK, Reserve
  <2>3. RowsAreChats'
    BY <1>0, <1>1 DEF RowsAreChats, RowIds, Existing, Reserve
  <2>4. CallsKnow'
    BY <1>0, <1>1, <2>1, <2>6 DEF CallsKnow, Existing, RowIds, Reserve
  <2>5. CommandKnows'
    BY <1>0, <1>1, <2>1 DEF CommandKnows, Existing, RowIds, Reserve, KeyIsTaken, Command
  <2> QED  BY <2>2, <2>3, <2>4, <2>5
<1>2. ASSUME NEW c \in Calls, ReadCommand(c)
      PROVE  ConvTypeOK' /\ RowsAreChats' /\ CallsKnow' /\ CommandKnows'
  <2>1. /\ convCall' \in [Calls -> ConvCall]
        /\ \A d \in Calls \ {c} : convCall'[d] = convCall[d]
        /\ convCall'[c].at \in {"done", "takeover", "idle"}
        /\ convCall'[c].at # "idle" => convCall'[c].chat = command.chat
        /\ convCall'[c].at = "idle" => convCall'[c].chat = NoRow
        /\ convCall'[c].at = "done" => /\ command.status = "completed"
                                       /\ convCall'[c].channel = command.channel
                                       /\ convCall'[c].outbox = command.outbox
    <3>1. command \in Command
      BY <1>0, <1>2 DEF CallsKnow, CallAt, ReadCommand
    <3>2. PICK r : convCall' = [convCall EXCEPT ![c] = r] /\ r =
          CASE command.status = "completed" ->
                 [at |-> "done", chat |-> command.chat, channel |-> command.channel,
                  outbox |-> command.outbox]
            [] Available -> [Idle EXCEPT !.at = "takeover", !.chat = command.chat]
            [] OTHER -> Idle
      BY <1>2 DEF ReadCommand
    <3>3. CASE command.status = "completed"
      <4>1. r = [at |-> "done", chat |-> command.chat, channel |-> command.channel,
                 outbox |-> command.outbox]
        BY <3>2, <3>3 DEF Available
      <4>2. r \in ConvCall
        BY <3>1, <4>1 DEF Command, ConvCall
      <4> QED  BY <1>0, <3>2, <3>3, <4>1, <4>2 DEF ConvTypeOK
    <3>4. CASE command.status # "completed" /\ Available
      <4>1. r = [Idle EXCEPT !.at = "takeover", !.chat = command.chat]
        BY <3>2, <3>4
      <4>2. command.chat \in Chats \cup {NoRow}
        BY <3>1 DEF Command
      <4>3. r = [at |-> "takeover", chat |-> command.chat, channel |-> 0, outbox |-> 0]
        BY <4>1 DEF Idle
      <4>4. r \in ConvCall
        BY <4>2, <4>3 DEF ConvCall, ChannelIds
      <4> QED  BY <1>0, <3>2, <4>3, <4>4 DEF ConvTypeOK
    <3>5. CASE command.status # "completed" /\ ~Available
      <4>1. r = Idle
        BY <3>2, <3>5
      <4>2. r \in ConvCall
        BY <4>1 DEF ConvCall, Idle, ChannelIds
      <4> QED  BY <1>0, <3>2, <4>1, <4>2 DEF ConvTypeOK, Idle
    <3> QED  BY <3>3, <3>4, <3>5
  <2>2. ConvTypeOK'
    BY <1>0, <1>2, <2>1 DEF ConvTypeOK, ReadCommand
  <2>3. RowsAreChats'
    BY <1>0, <1>2 DEF RowsAreChats, RowIds, Existing, ReadCommand
  <2>4. CallsKnow'
    BY <1>0, <1>2, <2>1 DEF CallsKnow, Existing, RowIds, ReadCommand, CallAt, CommandKnows
  <2>5. CommandKnows'
    BY <1>0, <1>2, <2>1 DEF CommandKnows, Existing, RowIds, ReadCommand
  <2> QED  BY <2>2, <2>3, <2>4, <2>5
<1>3. ASSUME NEW c \in Calls, TakeOver(c)
      PROVE  ConvTypeOK' /\ RowsAreChats' /\ CallsKnow' /\ CommandKnows'
  <2>1. /\ convCall' \in [Calls -> ConvCall]
        /\ \A d \in Calls \ {c} : convCall'[d] = convCall[d]
        /\ convCall'[c].chat = convCall[c].chat
        /\ convCall'[c].at = "reserved"
    BY <1>0, <1>3, AdvanceMoves DEF ConvTypeOK, TakeOver
  <2>6. command # NoRow /\ command' \in Command /\ command' # NoRow
    BY <1>0, <1>3 DEF TakeOver, CallsKnow, CallAt, Command, ConvTypeOK, ConvCall
  <2>2. ConvTypeOK'
    <3>1. stale' = FALSE /\ takeovers' = takeovers + 1
          /\ UNCHANGED <<kind, groups, rows, queued, convFaults>>
      BY <1>3 DEF TakeOver
    <3>2. takeovers' \in Nat /\ convCall' \in [Calls -> ConvCall] /\ command' \in Command \cup {NoRow}
      BY <1>0, <2>1, <2>6, <3>1 DEF ConvTypeOK
    <3> QED  BY <1>0, <3>1, <3>2 DEF ConvTypeOK
  <2>3. RowsAreChats'
    BY <1>0, <1>3 DEF RowsAreChats, RowIds, Existing, TakeOver
  <2>4. CallsKnow'
    BY <1>0, <1>3, <2>1, <2>6 DEF CallsKnow, Existing, RowIds, TakeOver, CallAt
  <2>5. CommandKnows'
    BY <1>0, <1>3, <2>6 DEF CommandKnows, Existing, RowIds, TakeOver, CallsKnow, CallAt, Command
  <2> QED  BY <2>2, <2>3, <2>4, <2>5
<1>4. ASSUME NEW c \in Calls, UseProvider(c)
      PROVE  ConvTypeOK' /\ RowsAreChats' /\ CallsKnow' /\ CommandKnows'
  <2>1. /\ convCall' \in [Calls -> ConvCall]
        /\ \A d \in Calls \ {c} : convCall'[d] = convCall[d]
        /\ convCall'[c].at \in {"save", "find"}
        /\ convCall'[c].chat \in Existing' /\ convCall'[c].chat # NoRow
    <3>1. CASE kind = "direct"
      <4>1. Hold(c, "save", Direct) /\ groups' = groups /\ kind' = kind
        BY <1>4, <3>1 DEF UseProvider
      <4>2. [convCall[c] EXCEPT !.at = "save", !.chat = Direct] \in ConvCall
        BY <1>0 DEF ConvTypeOK, ConvCall, Chats
      <4> QED  BY <1>0, <3>1, <4>1, <4>2 DEF ConvTypeOK, Hold, Existing, ConvCall
    <3>2. CASE kind = "group" /\ convCall[c].chat # NoRow
      <4>1. Advance(c, "find") /\ groups' = groups /\ kind' = kind
        BY <1>4, <3>2 DEF UseProvider
      <4> QED  BY <1>0, <3>2, <4>1, AdvanceMoves DEF ConvTypeOK, Existing, CallsKnow
    <3>3. CASE kind # "direct" /\ ~(kind = "group" /\ convCall[c].chat # NoRow)
      <4>1. CreateGroup /\ Hold(c, "save", groups') /\ kind' = kind
        BY <1>4, <3>3 DEF UseProvider
      <4>2. groups' \in 1 .. groups' /\ groups' \in 1 .. MaxGroups
        BY <1>0, <4>1 DEF CreateGroup
      <4>3. [convCall[c] EXCEPT !.at = "save", !.chat = groups'] \in ConvCall
        BY <1>0, <4>2 DEF ConvTypeOK, ConvCall, Chats
      <4> QED  BY <1>0, <3>3, <4>1, <4>2, <4>3 DEF ConvTypeOK, Hold, Existing, ConvCall
    <3> QED  BY <3>1, <3>2, <3>3
  <2>2. ConvTypeOK'
    BY <1>0, <1>4, <2>1 DEF ConvTypeOK, UseProvider, CreateGroup
  <2>3. RowsAreChats'
    BY <1>0, <1>4 DEF RowsAreChats, RowIds, Existing, UseProvider, CreateGroup
  <2>4. CallsKnow'
    BY <1>0, <1>4, <2>1 DEF CallsKnow, Existing, RowIds, UseProvider, CreateGroup, CallAt
  <2>5. CommandKnows'
    BY <1>0, <1>4, <2>1 DEF CommandKnows, Existing, RowIds, UseProvider, CreateGroup
  <2> QED  BY <2>2, <2>3, <2>4, <2>5
<1>5. ASSUME NEW c \in Calls, ProviderFails(c)
      PROVE  ConvTypeOK' /\ RowsAreChats' /\ CallsKnow' /\ CommandKnows'
  <2>1. /\ convCall' \in [Calls -> ConvCall]
        /\ \A d \in Calls \ {c} : convCall'[d] = convCall[d]
        /\ convCall'[c].chat = convCall[c].chat
        /\ convCall'[c].at = "fail"
    BY <1>0, <1>5, AdvanceMoves DEF ConvTypeOK, ProviderFails
  <2>2. ConvTypeOK'
    BY <1>0, <1>5, <2>1 DEF ConvTypeOK, ProviderFails, CreateGroup, ConvFault
  <2>3. RowsAreChats'
    BY <1>0, <1>5 DEF RowsAreChats, RowIds, Existing, ProviderFails, CreateGroup
  <2>4. CallsKnow'
    BY <1>0, <1>5, <2>1 DEF CallsKnow, Existing, RowIds, ProviderFails, CreateGroup, CallAt
  <2>5. CommandKnows'
    BY <1>0, <1>5, <2>1 DEF CommandKnows, Existing, RowIds, ProviderFails, CreateGroup
  <2> QED  BY <2>2, <2>3, <2>4, <2>5
<1>6. ASSUME NEW c \in Calls, SaveProviderChatId(c)
      PROVE  ConvTypeOK' /\ RowsAreChats' /\ CallsKnow' /\ CommandKnows'
  <2>1. /\ convCall' \in [Calls -> ConvCall]
        /\ \A d \in Calls \ {c} : convCall'[d] = convCall[d]
        /\ convCall'[c].chat = convCall[c].chat
        /\ convCall'[c].at = "find"
    BY <1>0, <1>6, AdvanceMoves DEF ConvTypeOK, SaveProviderChatId
  <2>6. command # NoRow /\ command' \in Command /\ command' # NoRow
    BY <1>0, <1>6 DEF SaveProviderChatId, CallsKnow, CallAt, Command, ConvTypeOK, ConvCall
  <2>2. ConvTypeOK'
    BY <1>0, <1>6, <2>1, <2>6 DEF ConvTypeOK, SaveProviderChatId
  <2>3. RowsAreChats'
    BY <1>0, <1>6 DEF RowsAreChats, RowIds, Existing, SaveProviderChatId
  <2>4. CallsKnow'
    BY <1>0, <1>6, <2>1, <2>6 DEF CallsKnow, Existing, RowIds, SaveProviderChatId, CallAt
  <2>5. CommandKnows'
    <3>1. /\ command'.status = command.status /\ command'.chat = convCall[c].chat
          /\ command'.channel = command.channel /\ command'.outbox = command.outbox
          /\ UNCHANGED <<kind, groups, rows, queued>>
      BY <1>0, <1>6, <2>6 DEF SaveProviderChatId, Command
    <3> QED  BY <1>0, <1>6, <2>6, <3>1 DEF CommandKnows, Existing, RowIds, SaveProviderChatId, CallsKnow, CallAt
  <2> QED  BY <2>2, <2>3, <2>4, <2>5
<1>7. ASSUME NEW c \in Calls, FindChannel(c)
      PROVE  ConvTypeOK' /\ RowsAreChats' /\ CallsKnow' /\ CommandKnows'
  <2>1. /\ convCall' \in [Calls -> ConvCall]
        /\ \A d \in Calls \ {c} : convCall'[d] = convCall[d]
        /\ convCall'[c].chat = convCall[c].chat
        /\ convCall'[c].at \in {"insert", "send"}
        /\ convCall'[c].at = "send" => convCall'[c].channel \in RowIds
    <3> DEFINE n == RowOf(convCall[c].chat)
               to == IF n = 0 THEN "insert" ELSE "send"
    <3>1. n \in ChannelIds /\ (n # 0 => n \in RowIds)
      BY <1>0, RowOfMeans DEF ConvTypeOK, ChannelIds, RowIds
    <3>2. convCall' = [convCall EXCEPT ![c].channel = n, ![c].at = to]
      BY <1>7 DEF FindChannel
    <3>3. [convCall[c] EXCEPT !.channel = n, !.at = to] \in ConvCall
      BY <1>0, <3>1 DEF ConvTypeOK, ConvCall
    <3> HIDE DEF n
    <3> QED  BY <1>0, <3>1, <3>2, <3>3 DEF ConvTypeOK, ConvCall
  <2>2. ConvTypeOK'
    BY <1>0, <1>7, <2>1 DEF ConvTypeOK, FindChannel
  <2>3. RowsAreChats'
    BY <1>0, <1>7 DEF RowsAreChats, RowIds, Existing, FindChannel
  <2>4. CallsKnow'
    BY <1>0, <1>7, <2>1 DEF CallsKnow, Existing, RowIds, FindChannel, CallAt
  <2>5. CommandKnows'
    BY <1>0, <1>7, <2>1 DEF CommandKnows, Existing, RowIds, FindChannel
  <2> QED  BY <2>2, <2>3, <2>4, <2>5
<1>8. ASSUME NEW c \in Calls, InsertChannel(c)
      PROVE  ConvTypeOK' /\ RowsAreChats' /\ CallsKnow' /\ CommandKnows'
  <2> DEFINE chat == convCall[c].chat
  <2>0. chat \in Existing /\ chat \in Chats
    BY <1>0, <1>8 DEF ConvTypeOK, CallsKnow, InsertChannel, CallAt, Existing, Chats
  <2>1. CASE Conflicts(chat)
    <3>1. Advance(c, "fail") /\ rows' = rows
          /\ UNCHANGED <<kind, command, stale, groups, queued, takeovers, convFaults>>
      BY <1>8, <2>1 DEF InsertChannel
    <3>2. /\ convCall' \in [Calls -> ConvCall]
          /\ \A d \in Calls \ {c} : convCall'[d] = convCall[d]
          /\ convCall'[c].chat = convCall[c].chat
          /\ convCall'[c].at = "fail"
      BY <1>0, <3>1, AdvanceMoves DEF ConvTypeOK
    <3>3. ConvTypeOK'
      BY <1>0, <3>1, <3>2 DEF ConvTypeOK
    <3>4. RowsAreChats' /\ CommandKnows'
      BY <1>0, <3>1 DEF RowsAreChats, CommandKnows, RowIds, Existing
    <3>5. CallsKnow'
      BY <1>0, <1>8, <3>1, <3>2 DEF CallsKnow, RowIds, Existing, InsertChannel, CallAt
    <3> QED  BY <3>3, <3>4, <3>5
  <2>2. CASE ~Conflicts(chat)
    <3>1. /\ rows' = Append(rows, chat)
          /\ convCall' = [convCall EXCEPT ![c].channel = Len(rows'), ![c].at = "send"]
          /\ UNCHANGED <<kind, command, stale, groups, queued, takeovers, convFaults>>
      BY <1>8, <2>2 DEF InsertChannel
    <3>2. /\ rows' \in Seq(Chats) /\ Len(rows') = Len(rows) + 1 /\ Len(rows') <= MaxGroups
          /\ RowsAreChats' /\ RowIds \subseteq RowIds' /\ Len(rows') \in RowIds'
      BY <1>0, <2>0, <2>2, <3>1, RowIsAdded
    <3>3. /\ convCall' \in [Calls -> ConvCall]
          /\ \A d \in Calls \ {c} : convCall'[d] = convCall[d]
          /\ convCall'[c].chat = convCall[c].chat
          /\ convCall'[c].channel = Len(rows')
          /\ convCall'[c].at = "send"
      <4>1. Len(rows') \in ChannelIds
        BY <1>0, <3>2 DEF ChannelIds
      <4>2. [convCall[c] EXCEPT !.channel = Len(rows'), !.at = "send"] \in ConvCall
        BY <1>0, <4>1 DEF ConvTypeOK, ConvCall
      <4> QED  BY <1>0, <3>1, <4>2 DEF ConvTypeOK, ConvCall
    <3>4. ConvTypeOK'
      BY <1>0, <3>1, <3>2, <3>3 DEF ConvTypeOK
    <3>5. CommandKnows'
      BY <1>0, <3>1, <3>2 DEF CommandKnows, Existing
    <3>6. CallsKnow'
      <4>1. /\ CallAt(c, "insert") /\ Existing' = Existing /\ command' = command
            /\ command # NoRow /\ convCall[c].chat # NoRow
        BY <1>0, <1>8, <3>1 DEF CallsKnow, Existing, InsertChannel, CallAt
      <4>2. convCall[c].chat \in Existing \cup {NoRow}
        BY <1>0 DEF CallsKnow
      <4> QED  BY <1>0, <3>2, <3>3, <4>1, <4>2 DEF CallsKnow
    <3> QED  BY <3>2, <3>4, <3>5, <3>6
  <2> QED  BY <2>1, <2>2
<1>9. ASSUME NEW c \in Calls, SendFirst(c)
      PROVE  ConvTypeOK' /\ RowsAreChats' /\ CallsKnow' /\ CommandKnows'
  <2>1. /\ convCall' \in [Calls -> ConvCall]
        /\ \A d \in Calls \ {c} : convCall'[d] = convCall[d]
        /\ convCall'[c].chat = convCall[c].chat
        /\ convCall'[c].channel = convCall[c].channel
        /\ convCall'[c].at = "complete" /\ convCall'[c].outbox = queued'
        /\ queued' \in RowIds
    BY <1>0, <1>9 DEF ConvTypeOK, CallsKnow, CommandKnows, RowIds, SendFirst, CallAt, ConvCall, ChannelIds
  <2>2. ConvTypeOK'
    <3>1. queued' \in ChannelIds
      BY <1>0, <2>1 DEF ConvTypeOK, ChannelIds, RowIds
    <3> QED  BY <1>0, <1>9, <2>1, <3>1 DEF ConvTypeOK, SendFirst
  <2>3. RowsAreChats'
    BY <1>0, <1>9 DEF RowsAreChats, RowIds, Existing, SendFirst
  <2>4. CallsKnow'
    BY <1>0, <1>9, <2>1 DEF CallsKnow, Existing, RowIds, SendFirst, CallAt
  <2>5. CommandKnows'
    BY <1>0, <1>9, <2>1 DEF CommandKnows, Existing, RowIds, SendFirst
  <2> QED  BY <2>2, <2>3, <2>4, <2>5
<1>10. ASSUME NEW c \in Calls, CompleteCommand(c)
      PROVE  ConvTypeOK' /\ RowsAreChats' /\ CallsKnow' /\ CommandKnows'
  <2>1. /\ convCall' \in [Calls -> ConvCall]
        /\ \A d \in Calls \ {c} : convCall'[d] = convCall[d]
        /\ convCall'[c].chat = convCall[c].chat
        /\ convCall'[c].channel = convCall[c].channel
        /\ convCall'[c].outbox = convCall[c].outbox
        /\ convCall'[c].at = "done"
    BY <1>0, <1>10, AdvanceMoves DEF ConvTypeOK, CompleteCommand
  <2>6. command # NoRow /\ command' \in Command /\ command' # NoRow
    BY <1>0, <1>10 DEF CompleteCommand, CallsKnow, CallAt, Command, ConvTypeOK, ConvCall
  <2>2. ConvTypeOK'
    BY <1>0, <1>10, <2>1, <2>6 DEF ConvTypeOK, CompleteCommand
  <2>3. RowsAreChats'
    BY <1>0, <1>10 DEF RowsAreChats, RowIds, Existing, CompleteCommand
  <2>4. CallsKnow'
    BY <1>0, <1>10, <2>1, <2>6 DEF CallsKnow, Existing, RowIds, CompleteCommand, CallAt
  <2>5. CommandKnows'
    BY <1>0, <1>10, <2>6 DEF CommandKnows, Existing, RowIds, CompleteCommand, CallsKnow, CallAt, Command
  <2> QED  BY <2>2, <2>3, <2>4, <2>5
<1>11. ASSUME NEW c \in Calls, FailCommand(c)
      PROVE  ConvTypeOK' /\ RowsAreChats' /\ CallsKnow' /\ CommandKnows'
  <2>1. /\ convCall' \in [Calls -> ConvCall]
        /\ \A d \in Calls \ {c} : convCall'[d] = convCall[d]
        /\ convCall'[c].at = "idle" /\ convCall'[c].chat = NoRow
    BY <1>0, <1>11 DEF ConvTypeOK, FailCommand, Idle, ConvCall, ChannelIds
  <2>6. command # NoRow /\ command' \in Command /\ command' # NoRow
    BY <1>0, <1>11 DEF FailCommand, CallsKnow, CallAt, Command, ConvTypeOK, ConvCall
  <2>2. ConvTypeOK'
    BY <1>0, <1>11, <2>1, <2>6 DEF ConvTypeOK, FailCommand
  <2>3. RowsAreChats'
    BY <1>0, <1>11 DEF RowsAreChats, RowIds, Existing, FailCommand
  <2>4. CallsKnow'
    BY <1>0, <1>11, <2>1, <2>6 DEF CallsKnow, Existing, RowIds, FailCommand, CallAt
  <2>5. CommandKnows'
    BY <1>0, <1>11, <2>6 DEF CommandKnows, Existing, RowIds, FailCommand, CallsKnow, CallAt, Command
  <2> QED  BY <2>2, <2>3, <2>4, <2>5
<1>12. ASSUME NEW c \in Calls, CallThrows(c)
      PROVE  ConvTypeOK' /\ RowsAreChats' /\ CallsKnow' /\ CommandKnows'
  <2>1. /\ convCall' \in [Calls -> ConvCall]
        /\ \A d \in Calls \ {c} : convCall'[d] = convCall[d]
        /\ convCall'[c].chat = convCall[c].chat
        /\ convCall'[c].channel = convCall[c].channel
        /\ convCall'[c].outbox = convCall[c].outbox
        /\ convCall'[c].at = "fail"
    BY <1>0, <1>12, AdvanceMoves DEF ConvTypeOK, CallThrows
  <2>2. ConvTypeOK'
    BY <1>0, <1>12, <2>1 DEF ConvTypeOK, CallThrows, ConvFault
  <2>3. RowsAreChats'
    BY <1>0, <1>12 DEF RowsAreChats, RowIds, Existing, CallThrows
  <2>4. CallsKnow'
    BY <1>0, <1>12, <2>1 DEF CallsKnow, Existing, RowIds, CallThrows
  <2>5. CommandKnows'
    BY <1>0, <1>12, <2>1 DEF CommandKnows, Existing, RowIds, CallThrows
  <2> QED  BY <2>2, <2>3, <2>4, <2>5
<1>13. ASSUME NEW chat \in Chats, Discover(chat)
       PROVE  ConvTypeOK' /\ RowsAreChats' /\ CallsKnow' /\ CommandKnows'
  <2>1. /\ chat \in Existing /\ ~Conflicts(chat) /\ rows' = Append(rows, chat)
        /\ UNCHANGED <<kind, command, stale, convCall, groups, queued, takeovers, convFaults>>
    BY <1>13 DEF Discover, Existing
  <2>2. /\ rows' \in Seq(Chats) /\ Len(rows') = Len(rows) + 1 /\ Len(rows') <= MaxGroups
        /\ RowsAreChats' /\ RowIds \subseteq RowIds'
    BY <1>0, <2>1, RowIsAdded
  <2>3. ConvTypeOK'
    BY <1>0, <2>1, <2>2 DEF ConvTypeOK
  <2>4. CallsKnow'
    BY <1>0, <2>1, <2>2 DEF CallsKnow, Existing
  <2>5. CommandKnows'
    BY <1>0, <2>1, <2>2 DEF CommandKnows, Existing
  <2> QED  BY <2>2, <2>3, <2>4, <2>5
<1>14. CASE ConvCrash
  <2>1. /\ convCall' \in [Calls -> ConvCall]
        /\ \A c \in Calls : convCall'[c] \in {convCall[c], Idle}
    BY <1>0, <1>14 DEF ConvTypeOK, ConvCrash, Idle, ConvCall, ChannelIds
  <2>2. ConvTypeOK'
    BY <1>0, <1>14, <2>1 DEF ConvTypeOK, ConvCrash, ConvFault
  <2>3. RowsAreChats' /\ CommandKnows'
    BY <1>0, <1>14 DEF RowsAreChats, CommandKnows, Existing, RowIds, ConvCrash
  <2>4. CallsKnow'
    BY <1>0, <1>14, <2>1 DEF CallsKnow, Existing, RowIds, ConvCrash, Idle
  <2> QED  BY <2>2, <2>3, <2>4
<1>15. CASE FiveMinutes
  BY <1>0, <1>15 DEF ConvTypeOK, RowsAreChats, CallsKnow, CommandKnows, Existing, RowIds, FiveMinutes
<1> QED  BY <1>1, <1>2, <1>3, <1>4, <1>5, <1>6, <1>7, <1>8, <1>9, <1>10, <1>11, <1>12, <1>13,
            <1>14, <1>15 DEF ConvNext, CallRuns

-----------------------------------------------------------------------------
(* Reservations.                                                           *)

\* A call that is not reserved afterwards adds nothing to those that are, and one that
\* was counts for one.
LEMMA ReservedMoves ==
  ASSUME IsFiniteSet(Reserved), NEW c \in Calls,
         \A d \in Calls \ {c} : convCall'[d] = convCall[d]
  PROVE  /\ IsFiniteSet(Reserved')
         /\ Cardinality(Reserved) \in Nat /\ Cardinality(Reserved') \in Nat
         /\ Cardinality(Reserved') <= Cardinality(Reserved) + 1
         /\ CallAt(c, "reserved")' => Cardinality(Reserved') >= 1
         /\ ~CallAt(c, "reserved")' => Cardinality(Reserved') <= Cardinality(Reserved)
         /\ CallAt(c, "reserved") /\ ~CallAt(c, "reserved")'
              => Cardinality(Reserved') = Cardinality(Reserved) - 1
<1>1. Reserved \ {c} = Reserved' \ {c}
  BY DEF Reserved, CallAt
<1>2. IsFiniteSet(Reserved \ {c}) /\ Cardinality(Reserved) \in Nat
      /\ Cardinality(Reserved \ {c})
           = IF c \in Reserved THEN Cardinality(Reserved) - 1 ELSE Cardinality(Reserved)
  BY FS_RemoveElement, FS_CardinalityType
<1>3. c \in Reserved <=> CallAt(c, "reserved")
  BY DEF Reserved
<1>4. c \in Reserved' <=> CallAt(c, "reserved")'
  BY DEF Reserved
<1>5. CASE c \in Reserved'
  <2>1. Reserved' = (Reserved \ {c}) \cup {c}
    BY <1>1, <1>5
  <2>2. IsFiniteSet(Reserved') /\ Cardinality(Reserved') = Cardinality(Reserved \ {c}) + 1
    BY <1>2, <2>1, FS_AddElement
  <2>3. Cardinality(Reserved \ {c}) \in Nat
    BY <1>2, FS_CardinalityType
  <2> QED  BY <1>2, <1>3, <1>4, <1>5, <2>2, <2>3
<1>6. CASE c \notin Reserved'
  <2>1. Reserved' = Reserved \ {c}
    BY <1>1, <1>6
  <2>2. Cardinality(Reserved \ {c}) \in Nat
    BY <1>2, FS_CardinalityType
  <2> QED  BY <1>2, <1>3, <1>4, <1>6, <2>1, <2>2
<1> QED  BY <1>5, <1>6

\* A step of one call that leaves it elsewhere creates no reservation.
LEMMA NoNewReservation ==
  ASSUME ConvTypeOK, ReservationsPay, NEW c \in Calls,
         \A d \in Calls \ {c} : convCall'[d] = convCall[d],
         ~CallAt(c, "reserved")', command' = NoRow => command = NoRow,
         takeovers' = takeovers,
         groups' = groups \/ (groups' = groups + 1 /\ CallAt(c, "reserved"))
  PROVE  ReservationsPay'
<1>1. /\ IsFiniteSet(Reserved') /\ Cardinality(Reserved) \in Nat /\ Cardinality(Reserved') \in Nat
      /\ Cardinality(Reserved') <= Cardinality(Reserved)
      /\ CallAt(c, "reserved") => Cardinality(Reserved') = Cardinality(Reserved) - 1
  BY ReservedMoves DEF ReservationsPay
<1>2. groups \in Nat /\ takeovers \in Nat
      /\ groups + Cardinality(Reserved) <= takeovers + (IF command = NoRow THEN 0 ELSE 1)
  BY DEF ConvTypeOK, ReservationsPay
<1>3. groups' + Cardinality(Reserved') <= takeovers' + (IF command' = NoRow THEN 0 ELSE 1)
  BY <1>1, <1>2
<1> QED  BY <1>1, <1>3 DEF ReservationsPay

LEMMA ReservationsStep ==
  ASSUME ConvInv, ConvNext, ConvTypeOK'
  PROVE  ReservationsPay'
<1> USE NoRowAssumption
<1>0. /\ ConvTypeOK /\ ReservationsPay /\ CallsKnow
      /\ IsFiniteSet(Reserved) /\ Cardinality(Reserved) \in Nat
      /\ groups \in Nat /\ takeovers \in Nat /\ convCall \in [Calls -> ConvCall]
      /\ groups + Cardinality(Reserved) <= takeovers + (IF command = NoRow THEN 0 ELSE 1)
      /\ command # NoRow => command \in Command
  BY FS_CardinalityType DEF ConvInv, ConvTypeOK, ReservationsPay
<1>1. ASSUME NEW c \in Calls, Reserve(c)
      PROVE  ReservationsPay'
  <2>1. /\ \A d \in Calls \ {c} : convCall'[d] = convCall[d]
        /\ groups' = groups /\ takeovers' = takeovers
    BY <1>0, <1>1, AdvanceMoves DEF Reserve
  <2>2. CASE command # NoRow
    <3>1. ~CallAt(c, "reserved")' /\ command' = command
      BY <1>0, <1>1, <2>2, AdvanceMoves DEF Reserve, KeyIsTaken, CallAt
    <3> QED  BY <1>0, <2>1, <2>2, <3>1, NoNewReservation
  <2>3. CASE command = NoRow
    <3>1. command' # NoRow
      <4>1. command' = [status |-> "pending", chat |-> NoRow, channel |-> 0, outbox |-> 0]
        BY <1>1, <2>3 DEF Reserve, KeyIsTaken
      <4>2. command' \in Command
        BY <4>1, ConvAssumption DEF Command, ChannelIds
      <4> QED  BY <4>2
    <3>2. IsFiniteSet(Reserved') /\ Cardinality(Reserved') \in Nat
          /\ Cardinality(Reserved') <= Cardinality(Reserved) + 1
      BY <1>0, <2>1, ReservedMoves
    <3>3. groups' + Cardinality(Reserved') <= takeovers' + 1
      BY <1>0, <2>1, <2>3, <3>2
    <3> QED  BY <3>1, <3>2, <3>3 DEF ReservationsPay
  <2> QED  BY <2>2, <2>3
<1>2. ASSUME NEW c \in Calls, TakeOver(c)
      PROVE  ReservationsPay'
  <2>1. /\ \A d \in Calls \ {c} : convCall'[d] = convCall[d]
        /\ groups' = groups /\ takeovers' = takeovers + 1
        /\ command # NoRow
    BY <1>0, <1>2, AdvanceMoves DEF TakeOver, CallsKnow, CallAt
  <2>2. command' \in Command
    BY <1>0, <1>2, <2>1 DEF TakeOver, Command
  <2>3. IsFiniteSet(Reserved') /\ Cardinality(Reserved') \in Nat
        /\ Cardinality(Reserved') <= Cardinality(Reserved) + 1
    BY <1>0, <2>1, ReservedMoves
  <2>4. groups' + Cardinality(Reserved') <= takeovers' + 1
    BY <1>0, <2>1, <2>3
  <2> QED  BY <2>2, <2>3, <2>4 DEF ReservationsPay
<1>3. ASSUME NEW c \in Calls, UseProvider(c)
      PROVE  ReservationsPay'
  <2>1. /\ \A d \in Calls \ {c} : convCall'[d] = convCall[d]
        /\ convCall'[c].at \in {"save", "find"}
        /\ groups' = groups \/ groups' = groups + 1
        /\ CallAt(c, "reserved") /\ command' = command /\ takeovers' = takeovers
    <3>1. PICK s \in {"save", "find"} :
            \E ch : convCall' = [convCall EXCEPT ![c] = [@ EXCEPT !.at = s, !.chat = ch]] \/ Advance(c, s)
      BY <1>3 DEF UseProvider, Hold
    <3> QED  BY <1>0, <1>3, <3>1 DEF UseProvider, CreateGroup, Advance, ConvCall
  <2> QED  BY <1>0, <2>1, NoNewReservation DEF CallAt
<1>4. ASSUME NEW c \in Calls, ProviderFails(c)
      PROVE  ReservationsPay'
  <2>1. /\ \A d \in Calls \ {c} : convCall'[d] = convCall[d]
        /\ convCall'[c].at = "fail"
        /\ groups' = groups \/ groups' = groups + 1
        /\ CallAt(c, "reserved") /\ command' = command /\ takeovers' = takeovers
    BY <1>0, <1>4, AdvanceMoves DEF ProviderFails, CreateGroup
  <2> QED  BY <1>0, <2>1, NoNewReservation DEF CallAt
<1>5. ASSUME NEW c \in Calls, \/ ReadCommand(c) \/ SaveProviderChatId(c) \/ FindChannel(c)
                               \/ InsertChannel(c) \/ SendFirst(c) \/ CompleteCommand(c)
                               \/ CallThrows(c) \/ FailCommand(c)
      PROVE  ReservationsPay'
  <2>1. groups' = groups /\ takeovers' = takeovers
    BY <1>5 DEF ReadCommand, SaveProviderChatId, FindChannel, InsertChannel, SendFirst,
                CompleteCommand, CallThrows, FailCommand
  <2>2. command' = NoRow => command = NoRow
    <3>1. CASE ReadCommand(c) \/ FindChannel(c) \/ InsertChannel(c) \/ SendFirst(c) \/ CallThrows(c)
      BY <3>1 DEF ReadCommand, FindChannel, InsertChannel, SendFirst, CallThrows
    <3>2. CASE SaveProviderChatId(c) \/ CompleteCommand(c) \/ FailCommand(c)
      <4>1. command \in Command
        BY <1>0, <3>2 DEF CallsKnow, CallAt, SaveProviderChatId, CompleteCommand, FailCommand
      <4>2. CASE SaveProviderChatId(c)
        <5>1. command' \in Command
          BY <1>0, <4>1, <4>2 DEF SaveProviderChatId, Command, ConvCall
        <5> QED  BY <5>1
      <4>3. CASE CompleteCommand(c)
        <5>1. command' \in Command
          BY <1>0, <4>1, <4>3 DEF CompleteCommand, Command, ConvCall
        <5> QED  BY <5>1
      <4>4. CASE FailCommand(c)
        <5>1. command' \in Command
          BY <1>0, <4>1, <4>4 DEF FailCommand, Command
        <5> QED  BY <5>1
      <4> QED  BY <3>2, <4>2, <4>3, <4>4
    <3> QED  BY <1>5, <3>1, <3>2
  <2>3. /\ \A d \in Calls \ {c} : convCall'[d] = convCall[d]
        /\ convCall'[c].at # "reserved"
    <3>1. CASE SaveProviderChatId(c) \/ CompleteCommand(c) \/ CallThrows(c)
      BY <1>0, <3>1, AdvanceMoves DEF SaveProviderChatId, CompleteCommand, CallThrows
    <3>2. CASE FindChannel(c)
      BY <1>0, <3>2 DEF FindChannel, ConvCall
    <3>3. CASE InsertChannel(c)
      BY <1>0, <3>3, AdvanceMoves DEF InsertChannel, ConvCall
    <3>4. CASE SendFirst(c)
      BY <1>0, <3>4 DEF SendFirst, ConvCall
    <3>5. CASE FailCommand(c)
      BY <1>0, <3>5 DEF FailCommand, Idle
    <3>6. CASE ReadCommand(c)
      <4>1. PICK r : convCall' = [convCall EXCEPT ![c] = r] /\ r =
              CASE command.status = "completed" ->
                     [at |-> "done", chat |-> command.chat, channel |-> command.channel,
                      outbox |-> command.outbox]
                [] Available -> [Idle EXCEPT !.at = "takeover", !.chat = command.chat]
                [] OTHER -> Idle
        BY <3>6 DEF ReadCommand
      <4>2. r.at # "reserved"
        <5>1. CASE command.status = "completed"
          BY <4>1, <5>1 DEF Available
        <5>2. CASE command.status # "completed"
          BY <4>1, <5>2 DEF Idle
        <5> QED  BY <5>1, <5>2
      <4> QED  BY <1>0, <4>1, <4>2
    <3> QED  BY <1>5, <3>1, <3>2, <3>3, <3>4, <3>5, <3>6
  <2> QED  BY <1>0, <2>1, <2>2, <2>3, NoNewReservation DEF CallAt
<1>6. CASE (\E chat \in Chats : Discover(chat)) \/ FiveMinutes
  BY <1>0, <1>6 DEF Discover, FiveMinutes, ReservationsPay, Reserved, CallAt
<1>7. CASE ConvCrash
  <2>1. Reserved' = {}
    BY <1>7 DEF Reserved, ConvCrash, CallAt, Idle
  <2>2. IsFiniteSet({}) /\ Cardinality({}) = 0
    BY FS_EmptySet
  <2>3. groups' = groups /\ takeovers' = takeovers /\ command' = command
    BY <1>7 DEF ConvCrash
  <2>4. groups' + Cardinality(Reserved') <= takeovers' + (IF command' = NoRow THEN 0 ELSE 1)
    BY <1>0, <2>1, <2>2, <2>3
  <2> QED  BY <2>1, <2>2, <2>4 DEF ReservationsPay
<1> QED  BY <1>1, <1>2, <1>3, <1>4, <1>5, <1>6, <1>7 DEF ConvNext, CallRuns

-----------------------------------------------------------------------------
(* Results.                                                                *)

LEMMA ConvKeeps == ConvInv /\ [ConvNext]_convVars => ConvInv'
<1> SUFFICES ASSUME ConvInv, [ConvNext]_convVars PROVE ConvInv'
  OBVIOUS
<1>1. CASE ConvNext
  BY <1>1, HoldingStep, ReservationsStep DEF ConvInv
<1>2. CASE UNCHANGED convVars
  BY <1>2 DEF convVars, ConvInv, ConvTypeOK, RowsAreChats, CallsKnow, CommandKnows,
              ReservationsPay, Reserved, RowIds, Existing, CallAt
<1> QED  BY <1>1, <1>2

\* The types, what a call may rely on and the count of the reservations are invariant.
THEOREM ConversationsHold == ConvSpec => []ConvInv
  BY ConvKeeps, ConvInitHolds, PTL DEF ConvSpec

\* What the invariant says of the answers.
LEMMA ConvAgrees == ConvInv => CommandsAreIdempotent
<1> SUFFICES ASSUME ConvInv PROVE CommandsAreIdempotent
  OBVIOUS
<1>1. GroupsNeedTakeovers
  <2>1. Cardinality(Reserved) \in Nat /\ groups \in Nat /\ takeovers \in Nat
        /\ groups + Cardinality(Reserved) <= takeovers + (IF command = NoRow THEN 0 ELSE 1)
    BY FS_CardinalityType DEF ConvInv, ConvTypeOK, ReservationsPay
  <2> QED  BY <2>1 DEF GroupsNeedTakeovers
<1>2. ASSUME kind = "direct", NEW a \in Answers, NEW b \in Answers
      PROVE  a.channel = b.channel /\ rows[a.channel] = Direct /\ a.outbox = a.channel
  <2>1. a.channel \in RowIds /\ a.outbox \in RowIds /\ b.channel \in RowIds
    BY DEF ConvInv, CallsKnow, Answers, CallAt
  <2>2. \A i \in RowIds : rows[i] = Direct
    BY <1>2 DEF ConvInv, RowsAreChats, RowIds, Existing
  <2> QED  BY <2>1, <2>2 DEF ConvInv, RowsAreChats, RowIds
<1> QED  BY <1>1, <1>2 DEF CommandsAreIdempotent, DirectAnswersAgree

\* Calls with one idempotency key, however many, fail and overlap as they may: for a
\* direct chat all answers agree, and a second group takes a takeover
\* (conversations.service.ts:45-101, 192-254, 308-341).
THEOREM RepeatedCommandsAgree == ConvSpec => []CommandsAreIdempotent
  BY ConvAgrees, ConversationsHold, PTL
=============================================================================
