--------------------------- MODULE Conversations ---------------------------
(***************************************************************************)
(* Starting a chat (apps/api/src/conversations/conversations.service.ts):  *)
(* calls that carry one idempotency key reserve a row of                   *)
(* conversation_commands, create a group or resolve a number at the        *)
(* provider, make sure the chat has a channel, queue the first message and *)
(* complete the command.  The message normalizer and the chat sync create  *)
(* the same channel when they see the chat first.                          *)
(***************************************************************************)
EXTENDS Naturals, Sequences

CONSTANTS
  Calls,      \* the calls that carry the key
  Direct,     \* the provider's chat for the resolved number
  MaxGroups,  \* bound on the groups that are created
  NoRow,
  MaxConvFaults  \* bound on failures and API crashes

ASSUME ConvAssumption ==
  /\ Direct \notin Nat /\ NoRow \notin Nat \cup {Direct}
  /\ MaxGroups \in Nat \ {0} /\ MaxConvFaults \in Nat

VARIABLES
  kind,      \* what the calls start: "direct" or "group"
  command,   \* the row of conversation_commands
  stale,     \* it was not updated for five minutes
  convCall,  \* where each call is and what it holds
  groups,    \* number of groups created at the provider, which are its chats 1, 2 ...
  rows,      \* chats of the rows of channels; a row's id is its place
  queued,    \* channel of the outbox row with the key, 0 for none
  takeovers, \* history: reservations of an existing command
  convFaults

convVars == <<kind, command, stale, convCall, groups, rows, queued, takeovers, convFaults>>

Chats == {Direct} \cup 1 .. MaxGroups
ChannelIds == 0 .. MaxGroups  \* 0: none

Command == [status : {"pending", "completed", "failed"}, chat : Chats \cup {NoRow},
            channel : ChannelIds, outbox : ChannelIds]

ASSUME NoRowAssumption == NoRow \notin Command

\* chat, channel and outbox: what the call knows by now and, when done, answered.
ConvCall == [at : {"idle", "conflict", "takeover", "reserved", "provider", "save", "find",
                   "insert", "send", "complete", "fail", "done"},
             chat : Chats \cup {NoRow}, channel : ChannelIds, outbox : ChannelIds]

Idle == [at |-> "idle", chat |-> NoRow, channel |-> 0, outbox |-> 0]

CallAt(c, stage) == convCall[c].at = stage

Advance(c, stage) == convCall' = [convCall EXCEPT ![c].at = stage]

ConvFault == convFaults < MaxConvFaults /\ convFaults' = convFaults + 1

-----------------------------------------------------------------------------
(* beginCommand. *)

\* conversation_commands_ws_key_uq
KeyIsTaken == command # NoRow

\* The insert reserves a key nobody used.
Reserve(c) ==
  /\ CallAt(c, "idle")
  /\ IF ~KeyIsTaken
       THEN /\ command' = [status |-> "pending", chat |-> NoRow, channel |-> 0, outbox |-> 0]
            /\ stale' = FALSE
            /\ Advance(c, "reserved")
       ELSE Advance(c, "conflict") /\ UNCHANGED <<command, stale>>
  /\ UNCHANGED <<kind, groups, rows, queued, takeovers, convFaults>>

MutNoStale == command.status = "failed"
\* A failed command, or one that is pending for five minutes, can be taken over.
Available == command.status = "failed" \/ (command.status = "pending" /\ stale)

\* What the call does with the row it selects.
ReadCommand(c) ==
  /\ CallAt(c, "conflict")
  /\ convCall' =
       [convCall EXCEPT ![c] =
          CASE command.status = "completed" ->
                 [at |-> "done", chat |-> command.chat, channel |-> command.channel,
                  outbox |-> command.outbox]
            [] Available -> [Idle EXCEPT !.at = "takeover", !.chat = command.chat]
            [] OTHER -> Idle]
  /\ UNCHANGED <<kind, command, stale, groups, rows, queued, takeovers, convFaults>>

\* The update takes it over, whoever else did since.
TakeOver(c) ==
  /\ CallAt(c, "takeover")
  /\ command' = [command EXCEPT !.status = "pending"]
  /\ stale' = FALSE
  /\ takeovers' = takeovers + 1
  /\ Advance(c, "reserved")
  /\ UNCHANGED <<kind, groups, rows, queued, convFaults>>

-----------------------------------------------------------------------------
(* createDirect and createGroup. *)

Hold(c, stage, chat) ==
  convCall' = [convCall EXCEPT ![c] = [@ EXCEPT !.at = stage, !.chat = chat]]

CreateGroup == groups < MaxGroups /\ groups' = groups + 1

\* A group that the command knows is not created again; a number is always resolved.
UseProvider(c) ==
  /\ CallAt(c, "reserved")
  /\ CASE kind = "direct" -> Hold(c, "save", Direct) /\ groups' = groups
       [] kind = "group" /\ convCall[c].chat # NoRow -> Advance(c, "find") /\ groups' = groups
       [] OTHER -> CreateGroup /\ Hold(c, "save", groups')
  /\ UNCHANGED <<kind, command, stale, rows, queued, takeovers, convFaults>>

\* The number is not registered, or the answer does not come, of a group also after
\* the provider created it.
ProviderFails(c) ==
  /\ CallAt(c, "reserved")
  /\ ConvFault
  /\ \/ groups' = groups
     \/ kind = "group" /\ convCall[c].chat = NoRow /\ CreateGroup
  /\ Advance(c, "fail")
  /\ UNCHANGED <<kind, command, stale, rows, queued, takeovers>>

SaveProviderChatId(c) ==
  /\ CallAt(c, "save")
  /\ command' = [command EXCEPT !.chat = convCall[c].chat]
  /\ stale' = FALSE
  /\ Advance(c, "find")
  /\ UNCHANGED <<kind, groups, rows, queued, takeovers, convFaults>>

RowsOf(chat) == {i \in DOMAIN rows : rows[i] = chat}

RowOf(chat) == IF RowsOf(chat) = {} THEN 0 ELSE CHOOSE i \in RowsOf(chat) : TRUE

\* ensureChannel selects ...
FindChannel(c) ==
  /\ CallAt(c, "find")
  /\ LET found == RowOf(convCall[c].chat) IN
     convCall' = [convCall EXCEPT ![c].channel = found,
                                  ![c].at = IF found = 0 THEN "insert" ELSE "send"]
  /\ UNCHANGED <<kind, command, stale, groups, rows, queued, takeovers, convFaults>>

MutNoUniqueChat(chat) == FALSE
\* channels_ws_phone_chat_uq
Conflicts(chat) == RowsOf(chat) # {}

\* ... and inserts, which fails when the chat got its channel in between.
InsertChannel(c) ==
  /\ CallAt(c, "insert")
  /\ IF Conflicts(convCall[c].chat)
       THEN Advance(c, "fail") /\ rows' = rows
       ELSE /\ rows' = Append(rows, convCall[c].chat)
            /\ convCall' = [convCall EXCEPT ![c].channel = Len(rows'), ![c].at = "send"]
  /\ UNCHANGED <<kind, command, stale, groups, queued, takeovers, convFaults>>

\* The normalizer or the sync sees a chat that exists at the provider.
Discover(chat) ==
  /\ chat \in IF kind = "direct" THEN {Direct} ELSE 1 .. groups
  /\ ~Conflicts(chat)
  /\ rows' = Append(rows, chat)
  /\ UNCHANGED <<kind, command, stale, convCall, groups, queued, takeovers, convFaults>>

\* OutboxService.send answers a key it knows with the row it has.
SendFirst(c) ==
  /\ CallAt(c, "send")
  /\ queued' = IF queued = 0 THEN convCall[c].channel ELSE queued
  /\ convCall' = [convCall EXCEPT ![c].outbox = queued', ![c].at = "complete"]
  /\ UNCHANGED <<kind, command, stale, groups, rows, takeovers, convFaults>>

CompleteCommand(c) ==
  /\ CallAt(c, "complete")
  /\ command' = [status |-> "completed", chat |-> convCall[c].chat,
                 channel |-> convCall[c].channel, outbox |-> convCall[c].outbox]
  /\ stale' = FALSE
  /\ Advance(c, "done")
  /\ UNCHANGED <<kind, groups, rows, queued, takeovers, convFaults>>

\* Any statement of the call, or its send, can throw.
CallThrows(c) ==
  /\ convCall[c].at \in {"save", "find", "insert", "send", "complete"}
  /\ ConvFault
  /\ Advance(c, "fail")
  /\ UNCHANGED <<kind, command, stale, groups, rows, queued, takeovers>>

\* failCommand keeps the chat and whatever else the row has; the user can call again.
FailCommand(c) ==
  /\ CallAt(c, "fail")
  /\ command' = [command EXCEPT !.status = "failed"]
  /\ stale' = FALSE
  /\ convCall' = [convCall EXCEPT ![c] = Idle]
  /\ UNCHANGED <<kind, groups, rows, queued, takeovers, convFaults>>

\* The API dies, and its calls with it.
ConvCrash ==
  /\ ConvFault
  /\ convCall' = [c \in Calls |-> IF CallAt(c, "done") THEN convCall[c] ELSE Idle]
  /\ UNCHANGED <<kind, command, stale, groups, rows, queued, takeovers>>

FiveMinutes ==
  /\ command # NoRow /\ command.status = "pending" /\ ~stale
  /\ stale' = TRUE
  /\ UNCHANGED <<kind, command, convCall, groups, rows, queued, takeovers, convFaults>>

-----------------------------------------------------------------------------
ConvInit ==
  /\ kind \in {"direct", "group"}
  /\ command = NoRow /\ stale = FALSE
  /\ convCall = [c \in Calls |-> Idle]
  /\ groups = 0
  /\ rows = <<>>
  /\ queued = 0
  /\ takeovers = 0
  /\ convFaults = 0

CallRuns(c) ==
  \/ Reserve(c) \/ ReadCommand(c) \/ TakeOver(c) \/ UseProvider(c) \/ SaveProviderChatId(c)
  \/ FindChannel(c) \/ InsertChannel(c) \/ SendFirst(c) \/ CompleteCommand(c) \/ FailCommand(c)

ConvNext ==
  \/ \E c \in Calls : CallRuns(c) \/ ProviderFails(c) \/ CallThrows(c)
  \/ \E chat \in Chats : Discover(chat)
  \/ ConvCrash \/ FiveMinutes

\* Calls run and users repeat them; time passes.
ConvSpec == /\ ConvInit /\ [][ConvNext]_convVars /\ WF_convVars(FiveMinutes)
            /\ \A c \in Calls : WF_convVars(CallRuns(c))

-----------------------------------------------------------------------------
ConvTypeOK ==
  /\ kind \in {"direct", "group"}
  /\ command \in Command \cup {NoRow}
  /\ stale \in BOOLEAN
  /\ convCall \in [Calls -> ConvCall]
  /\ groups \in 0 .. MaxGroups
  /\ rows \in Seq(Chats) /\ Len(rows) <= MaxGroups
  /\ queued \in ChannelIds
  /\ takeovers \in Nat
  /\ convFaults \in 0 .. MaxConvFaults

Answers == {convCall[c] : c \in {d \in Calls : CallAt(d, "done")}}

\* However calls with one key overlap, fail and take each other over, all that are
\* answered for a direct chat name one channel, which is of that chat and has the one
\* first message (conversations.service.ts:45-101, 308-341).
DirectAnswersAgree ==
  kind = "direct" =>
    \A a, b \in Answers :
      a.channel = b.channel /\ rows[a.channel] = Direct /\ a.outbox = a.channel

\* A second group needs a call that took the command over; fresh commands are never
\* run twice (conversations.service.ts:192-254).
GroupsNeedTakeovers == groups <= takeovers + 1

\* A command that is repeated is done once: both of the above.
CommandsAreIdempotent == DirectAnswersAgree /\ GroupsNeedTakeovers

\* A user who repeats a call is answered in the end, also when a crash left the command
\* pending (conversations.service.ts:243-248).
CallsAreAnswered == <>[](\E c \in Calls : CallAt(c, "done"))

\* channel.ts:61 calls the command an idempotent reservation for the creation of a
\* group: one key creates one group.
OneGroupPerCommand == groups <= 1
=============================================================================
