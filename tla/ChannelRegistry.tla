-------------------------- MODULE ChannelRegistry --------------------------
(***************************************************************************)
(* One row of channels and its mappings (apps/api/src/channels/            *)
(* channels.service.ts, the chat sync of phones.service.ts) and what the   *)
(* gateway remembers of the chat (chatMeta in session-manager.ts).  Being  *)
(* pinned stands for being muted as well.  A mapping call is a transaction *)
(* under READ COMMITTED: a statement waits for the row or the index entry  *)
(* that another transaction holds and looks at the row again.              *)
(***************************************************************************)
EXTENDS Naturals, Sequences, FiniteSets

CONSTANTS
  RegCalls,     \* calls of the API in progress
  NoMeta, NoCall,
  MaxTouches,   \* bound on the changes of the chat's state at WhatsApp
  MaxMappings,  \* bound on the mappings made
  MaxRegFaults  \* bound on failures and restarts of the gateway

ASSUME RegAssumption ==
  /\ NoCall \notin RegCalls
  /\ {MaxTouches, MaxMappings, MaxRegFaults} \subseteq Nat

VARIABLES
  isGroup,    \* channelType
  whatsApp,   \* the chat's state at WhatsApp
  echoes,     \* chats.update events on their way to the gateway
  meta,       \* the gateway's chatMeta entry
  channel,    \* the row: status and isPinned
  unread,     \* isMarkedUnread of the one user
  mapHistory, \* rows of channel_mappings, oldest first
  mapLock,    \* the call whose transaction holds the active mapping
  regCall,    \* where each call is and what it holds
  touches, regFaults

regVars == <<isGroup, whatsApp, echoes, meta, channel, unread, mapHistory, mapLock, regCall,
             touches, regFaults>>

ChatState == [pinned : BOOLEAN, archived : BOOLEAN]

ASSUME NoMetaAssumption == NoMeta \notin ChatState

Blank == [pinned |-> FALSE, archived |-> FALSE]

ChannelStatus == {"unmapped", "active", "archived"}
Row == [status : ChannelStatus, pinned : BOOLEAN]

\* What each action sets at WhatsApp; the user's mark has no field there.
Actions ==
  [pin |-> [field |-> "pinned", to |-> TRUE], unpin |-> [field |-> "pinned", to |-> FALSE],
   archive |-> [field |-> "archived", to |-> TRUE],
   unarchive |-> [field |-> "archived", to |-> FALSE]]

Ops == DOMAIN Actions \cup {"mark_unread", "refresh", "sync", "map", "unmap"}

\* row and mapped: what loadChannel read; held: the gateway has an entry of the chat;
\* got: what it answered; ended: the mapping the transaction ends.
RegCall == [at : {"modify", "confirm", "ask", "answer", "write", "list", "reconcile",
                  "end", "blocked", "insert", "commit"},
            op : Ops, row : Row, mapped : BOOLEAN, held : BOOLEAN, got : ChatState,
            ended : 0 .. MaxMappings]

Idling == [at |-> "idle"]

CallIs(c, stage) == regCall[c].at = stage
To(c, stage) == regCall' = [regCall EXCEPT ![c].at = stage]
Finish(c) == regCall' = [regCall EXCEPT ![c] = Idling]

RegFault == regFaults < MaxRegFaults /\ regFaults' = regFaults + 1

-----------------------------------------------------------------------------
(* The gateway and WhatsApp. *)

Touch(field, to) ==
  /\ touches < MaxTouches
  /\ touches' = touches + 1
  /\ whatsApp' = [whatsApp EXCEPT ![field] = to]
  /\ echoes' = Append(echoes, [field |-> field, to |-> to])

\* Somebody pins or archives the chat on the phone.
TouchPhone ==
  /\ \E a \in DOMAIN Actions : Touch(Actions[a].field, Actions[a].to)
  /\ UNCHANGED <<isGroup, meta, channel, unread, mapHistory, mapLock, regCall, regFaults>>

\* upsertChatMeta, which changes the entry in place.
Upserted(entry, e) == [(IF entry = NoMeta THEN Blank ELSE entry) EXCEPT ![e.field] = e.to]

ReceiveEcho ==
  /\ echoes # <<>>
  /\ echoes' = Tail(echoes)
  /\ meta' = Upserted(meta, Head(echoes))
  /\ UNCHANGED <<isGroup, whatsApp, channel, unread, mapHistory, mapLock, regCall, touches,
                 regFaults>>

\* setChatState looks for the entry and has WhatsApp change the chat ...
Modify(c) ==
  LET op == regCall[c].op IN
  /\ CallIs(c, "modify")
  /\ IF op \in DOMAIN Actions
       THEN Touch(Actions[op].field, Actions[op].to)
       ELSE UNCHANGED <<whatsApp, echoes, touches>>
  /\ regCall' = [regCall EXCEPT ![c].at = "confirm", ![c].held = meta # NoMeta]
  /\ UNCHANGED <<isGroup, meta, channel, unread, mapHistory, mapLock, regFaults>>

\* ... and, confirmed, changes the entry it found.
Confirm(c) ==
  LET op == regCall[c].op IN
  /\ CallIs(c, "confirm")
  /\ meta' = IF op \in DOMAIN Actions /\ regCall[c].held
             THEN Upserted(meta, Actions[op]) ELSE meta
  /\ To(c, "ask")
  /\ UNCHANGED <<isGroup, whatsApp, echoes, channel, unread, mapHistory, mapLock, touches,
                 regFaults>>

\* chat() looks for the entry, asks WhatsApp for the picture and answers from the entry.
Ask(c) ==
  /\ CallIs(c, "ask")
  /\ regCall' = [regCall EXCEPT ![c].at = "answer", ![c].held = meta # NoMeta]
  /\ UNCHANGED <<isGroup, whatsApp, echoes, meta, channel, unread, mapHistory, mapLock, touches,
                 regFaults>>

Answer(c) ==
  /\ CallIs(c, "answer")
  /\ regCall' = [regCall EXCEPT ![c].at = "write",
                                ![c].got = IF regCall[c].held THEN meta ELSE Blank]
  /\ UNCHANGED <<isGroup, whatsApp, echoes, meta, channel, unread, mapHistory, mapLock, touches,
                 regFaults>>

InGateway(c) == regCall[c].at \in {"modify", "confirm", "ask", "answer", "list"}

\* The gateway's answer is an error or late, whatever it did.
GatewayErrs(c) ==
  /\ InGateway(c)
  /\ RegFault
  /\ Finish(c)
  /\ UNCHANGED <<isGroup, whatsApp, echoes, meta, channel, unread, mapHistory, mapLock, touches>>

\* A restart leaves the chats of the cached messages, without their state.
GatewayForgets ==
  /\ RegFault
  /\ meta' \in {NoMeta, Blank}
  /\ regCall' = [c \in RegCalls |-> IF InGateway(c) THEN Idling ELSE regCall[c]]
  /\ UNCHANGED <<isGroup, whatsApp, echoes, channel, unread, mapHistory, mapLock, touches>>

-----------------------------------------------------------------------------
(* ChannelsService and the chat sync. *)

Active == {i \in DOMAIN mapHistory : mapHistory[i].status = "active"}

ActiveRow == IF Active = {} THEN 0 ELSE CHOOSE i \in Active : TRUE

\* mappingMode of the active mapping, if any, names a client.
Mapped == \E i \in Active : mapHistory[i].mode = "client"

StageOf(op) == CASE op \in DOMAIN Actions \cup {"mark_unread"} -> "modify"
                 [] op = "refresh" -> "ask"
                 [] op = "sync" -> "list"
                 [] op \in {"map", "unmap"} -> "end"

\* A call starts and, if it needs the channel, loads it.
StartCall(c, op) ==
  /\ regCall[c] = Idling
  /\ regCall' = [regCall EXCEPT ![c] =
       [at |-> StageOf(op), op |-> op, row |-> channel, mapped |-> Mapped, held |-> FALSE,
        got |-> Blank, ended |-> 0]]
  /\ UNCHANGED <<isGroup, whatsApp, echoes, meta, channel, unread, mapHistory, mapLock, touches,
                 regFaults>>

Unarchived(mapped) == IF ~mapped /\ isGroup THEN "unmapped" ELSE "active"

\* applyAction writes the one column.
WriteAction(c) ==
  LET r == regCall[c] IN
  /\ CallIs(c, "write") /\ r.op # "refresh"
  /\ CASE r.op \in {"pin", "unpin"} ->
            channel' = [channel EXCEPT !.pinned = r.got.pinned] /\ unread' = unread
       [] r.op \in {"archive", "unarchive"} ->
            /\ channel' = [channel EXCEPT
                 !.status = IF r.got.archived THEN "archived" ELSE Unarchived(r.mapped)]
            /\ unread' = unread
       [] r.op = "mark_unread" -> unread' = TRUE /\ channel' = channel
  /\ Finish(c)
  /\ UNCHANGED <<isGroup, whatsApp, echoes, meta, mapHistory, mapLock, touches, regFaults>>

\* The user opens the chat.
updateReadState ==
  /\ unread
  /\ unread' = FALSE
  /\ UNCHANGED <<isGroup, whatsApp, echoes, meta, channel, mapHistory, mapLock, regCall, touches,
                 regFaults>>

MutStatusOnly(next, row) == next.status # row.status
\* metadataChanged
Changed(next, row) == next # row

\* refreshChannel compares with the row it loaded and writes all columns or none; what
\* comes out of the archive loses its mapping's status.
WriteRefresh(c) ==
  LET r == regCall[c]
      next == [status |-> IF r.got.archived THEN "archived"
                          ELSE IF r.row.status = "archived" THEN Unarchived(FALSE)
                          ELSE r.row.status,
               pinned |-> r.got.pinned]
  IN
  /\ CallIs(c, "write") /\ r.op = "refresh"
  /\ channel' = IF Changed(next, r.row) THEN next ELSE channel
  /\ Finish(c)
  /\ UNCHANGED <<isGroup, whatsApp, echoes, meta, unread, mapHistory, mapLock, touches, regFaults>>

\* syncGroups: the gateway lists the chats it has entries of, without their state ...
ListChats(c) ==
  /\ CallIs(c, "list")
  /\ regCall' = [regCall EXCEPT ![c].at = "reconcile", ![c].held = meta # NoMeta]
  /\ UNCHANGED <<isGroup, whatsApp, echoes, meta, channel, unread, mapHistory, mapLock, touches,
                 regFaults>>

\* ... and a channel that is not among them is archived, if there are any.
ReconcileChats(c) ==
  /\ CallIs(c, "reconcile")
  /\ IF regCall[c].held THEN channel' = channel
     ELSE channel' \in {channel, [channel EXCEPT !.status = "archived"]}
  /\ Finish(c)
  /\ UNCHANGED <<isGroup, whatsApp, echoes, meta, unread, mapHistory, mapLock, touches, regFaults>>

-----------------------------------------------------------------------------
(* map, a transaction. *)

\* The statement that ends the active mapping waits for another that holds it, and then
\* finds it ended or, after a rollback, active.
EndMapping(c) ==
  /\ CallIs(c, "end")
  /\ IF mapLock \in {NoCall, c} \/ Active = {}
       THEN /\ mapLock' = IF Active = {} THEN mapLock ELSE c
            /\ regCall' = [regCall EXCEPT ![c].at = "insert",
                                          ![c].ended = ActiveRow]
       ELSE /\ regCall' = [regCall EXCEPT ![c].at = "blocked",
                                          ![c].ended = ActiveRow]
            /\ mapLock' = mapLock
  /\ UNCHANGED <<isGroup, whatsApp, echoes, meta, channel, unread, mapHistory, touches, regFaults>>

Unblock(c) ==
  LET still == regCall[c].ended \in Active IN
  /\ CallIs(c, "blocked") /\ mapLock = NoCall
  /\ mapLock' = IF still THEN c ELSE NoCall
  /\ regCall' = [regCall EXCEPT ![c].at = "insert",
                                ![c].ended = IF still THEN regCall[c].ended ELSE 0]
  /\ UNCHANGED <<isGroup, whatsApp, echoes, meta, channel, unread, mapHistory, touches, regFaults>>

\* channel_mappings_one_active_uq
Duplicates(c) == Active \ {regCall[c].ended} # {}

\* The insert waits for an uncommitted one; a duplicate rolls the transaction back.
InsertMapping(c) ==
  /\ CallIs(c, "insert") /\ mapLock \in {NoCall, c}
  /\ Len(mapHistory) < MaxMappings
  /\ IF Duplicates(c) THEN Finish(c) /\ mapLock' = NoCall
                      ELSE To(c, "commit") /\ mapLock' = c
  /\ UNCHANGED <<isGroup, whatsApp, echoes, meta, channel, unread, mapHistory, touches, regFaults>>

\* The channel follows in the same transaction.
CommitMapping(c) ==
  LET mode == IF regCall[c].op = "map" THEN "client" ELSE "unmapped" IN
  /\ CallIs(c, "commit")
  /\ mapHistory' =
       Append([i \in DOMAIN mapHistory |-> IF i = regCall[c].ended
                                          THEN [mapHistory[i] EXCEPT !.status = "ended"]
                                          ELSE mapHistory[i]],
              [mode |-> mode, status |-> "active"])
  /\ channel' = [channel EXCEPT !.status = IF mode = "unmapped" THEN "unmapped" ELSE "active"]
  /\ mapLock' = NoCall
  /\ Finish(c)
  /\ UNCHANGED <<isGroup, whatsApp, echoes, meta, unread, touches, regFaults>>

\* A statement fails: nobody has such a client, or the connection is lost.
RollBack(c) ==
  /\ regCall[c].at \in {"end", "blocked", "insert", "commit"}
  /\ RegFault
  /\ mapLock' = IF mapLock = c THEN NoCall ELSE mapLock
  /\ Finish(c)
  /\ UNCHANGED <<isGroup, whatsApp, echoes, meta, channel, unread, mapHistory, touches>>

-----------------------------------------------------------------------------
RegInit ==
  /\ isGroup \in BOOLEAN
  /\ whatsApp = Blank
  /\ echoes = <<>>
  /\ meta = Blank
  /\ channel = [status |-> IF isGroup THEN "unmapped" ELSE "active", pinned |-> FALSE]
  /\ unread = FALSE
  /\ mapHistory = <<>>
  /\ mapLock = NoCall
  /\ regCall = [c \in RegCalls |-> Idling]
  /\ touches = 0
  /\ regFaults = 0

RegRuns(c) ==
  \/ Modify(c) \/ Confirm(c) \/ Ask(c) \/ Answer(c) \/ WriteAction(c) \/ WriteRefresh(c)
  \/ ListChats(c) \/ ReconcileChats(c)
  \/ EndMapping(c) \/ Unblock(c) \/ InsertMapping(c) \/ CommitMapping(c)

RegNext ==
  \/ \E c \in RegCalls : \/ \E op \in Ops : StartCall(c, op)
                         \/ RegRuns(c) \/ GatewayErrs(c) \/ RollBack(c)
  \/ TouchPhone \/ ReceiveEcho \/ GatewayForgets \/ updateReadState

\* Calls and events are worked off; nothing obliges a user.
RegSpec == /\ RegInit /\ [][RegNext]_regVars
           /\ WF_regVars(ReceiveEcho) /\ \A c \in RegCalls : WF_regVars(RegRuns(c))

-----------------------------------------------------------------------------
RegTypeOK ==
  /\ isGroup \in BOOLEAN /\ unread \in BOOLEAN
  /\ whatsApp \in ChatState
  /\ echoes \in Seq([field : {"pinned", "archived"}, to : BOOLEAN])
  /\ meta \in ChatState \cup {NoMeta}
  /\ channel \in Row
  /\ mapHistory \in Seq([mode : {"client", "unmapped"}, status : {"active", "ended"}])
  /\ mapLock \in RegCalls \cup {NoCall}
  /\ regCall \in [RegCalls -> RegCall \cup {Idling}]
  /\ touches \in 0 .. MaxTouches /\ regFaults \in 0 .. MaxRegFaults

\* A channel that was mapped once has exactly one active mapping from then on, however
\* mapping calls overlap, wait for each other and fail (channels.service.ts:312-341,
\* channel.ts:130): nobody who looks in between finds it without its client.
OneActiveMapping == mapHistory # <<>> => Cardinality(Active) = 1

\* Refreshes that are repeated bring the row to what the gateway remembers of the chat,
\* whatever stale rows, late answers and crossing actions they met before
\* (channels.service.ts:241-270).
RefreshesConverge ==
  /\ <>[](meta # NoMeta)
  /\ []<><<\E c \in RegCalls : WriteRefresh(c)>>_regVars
  => <>[](meta # NoMeta /\ channel.pinned = meta.pinned
            /\ (channel.status = "archived") = meta.archived)
=============================================================================
