------------------------------- MODULE MCDesk -------------------------------
(***************************************************************************)
(* The instance that TLC checks of the components around the message path: *)
(* conversations, notifications, stored media, channels and mappings, the  *)
(* gateway's message cache and formats, what a workspace sets up and the   *)
(* send gate.  They share no state, so a behaviour has one of them in      *)
(* focus while the others rest.                                            *)
(***************************************************************************)
EXTENDS MessageCache, GatewayWire, Settings, Conversations, Notifications,
        MediaStore, ChannelRegistry, SendGate

CONSTANTS
  visitor, \* the agent who comes and goes while presence is in focus
  changer, \* the call that changes the chat's state, while that is in focus
  live,    \* the handler of live messages, while the cache is in focus
  namer    \* the editor who renames rows, while they are in focus

VARIABLE focus

deskVars == <<convVars, notifyVars, mediaVars, regVars, cacheVars, wireVars, settingsVars, in, focus>>

OnlyConversations == UNCHANGED <<notifyVars, mediaVars, regVars, cacheVars, wireVars, settingsVars, in, focus>>
OnlyNotifications == UNCHANGED <<convVars, mediaVars, regVars, cacheVars, wireVars, settingsVars, in, focus>>
OnlyMedia == UNCHANGED <<convVars, notifyVars, regVars, cacheVars, wireVars, settingsVars, in, focus>>
OnlyChannels == UNCHANGED <<convVars, notifyVars, mediaVars, cacheVars, wireVars, settingsVars, in, focus>>
OnlyCache == UNCHANGED <<convVars, notifyVars, mediaVars, regVars, wireVars, settingsVars, in, focus>>
OnlyWire == UNCHANGED <<convVars, notifyVars, mediaVars, regVars, cacheVars, settingsVars, in, focus>>
OnlySettings == UNCHANGED <<convVars, notifyVars, mediaVars, regVars, cacheVars, wireVars, in, focus>>
OnlyGate == UNCHANGED <<convVars, notifyVars, mediaVars, regVars, cacheVars, wireVars, settingsVars, focus>>

DeskInit ==
  /\ focus \in {"conversations", "access", "presence", "media", "mapping", "state", "cache",
                "wire", "items", "draft", "people", "gate"}
  /\ ConvInit /\ (focus # "conversations" => kind = "direct")
  /\ NotifyInit
  /\ MediaInit
  /\ RegInit /\ (focus # "state" => isGroup)
  /\ CacheInit
  /\ WireInit /\ wireChat # "group" /\ (focus # "wire" => wireChat = "other")
  /\ SettingsInit
  /\ (focus # "items" => table = "ai") /\ (focus # "draft" => transcript = <<>>)
  /\ IF focus = "gate" THEN Init
     ELSE in = [phoneStatus |-> "connected", connectionMode |-> "linked_device",
                cooldownActive |-> FALSE, costLimitExceeded |-> FALSE, recipientCount |-> 1,
                mediumRiskThreshold |-> 1, highRiskThreshold |-> 1, actorIsAdmin |-> TRUE]

\* The normalizer or the sync sees the first group at most before the calls record it.
ConversationsFocus ==
  /\ focus = "conversations" /\ ConvNext /\ OnlyConversations
  /\ convCall' = convCall /\ rows' # rows => groups <= 1

\* Nobody connects while rights change ...
AccessFocus ==
  /\ focus = "access" /\ NotifyNext /\ OnlyNotifications
  /\ UNCHANGED <<conn, count, presence, pulsed, drops>>

\* ... and no rights change while one agent connects.
PresenceFocus ==
  /\ focus = "presence" /\ NotifyNext /\ OnlyNotifications
  /\ UNCHANGED <<mappings, clientGrants, channelGrants>>
  /\ \A s \in Conns : conn'[s] = NoConn \/ conn'[s].user = visitor

\* Calls for a mapping, on an account that nobody touches, with one that reads or marks
\* the chat; a second mapping is made while nothing failed ...
MappingFocus ==
  /\ focus = "mapping" /\ RegNext /\ OnlyChannels
  /\ touches' = 0
  /\ regFaults' # 0 => Len(mapHistory') <= 1
  /\ \A c \in RegCalls :
       regCall'[c] = Idling \/ regCall'[c].op \in
         {"map", "unmap"} \cup IF c = changer THEN {"refresh", "sync", "mark_unread"} ELSE {}

\* ... and one call that changes the state of the chat, while others refresh it.
StateFocus ==
  /\ focus = "state" /\ RegNext /\ OnlyChannels
  /\ regFaults' = 0 /\ UNCHANGED <<mapHistory, unread>>
  /\ \A c \in RegCalls :
       regCall'[c] = Idling \/ regCall'[c].op \in
         {"refresh"} \cup IF c = changer THEN {"pin", "unpin", "archive"} ELSE {}

\* One handler has a message of the history to the number again and again, the other live
\* ones to a LID; the process does not die once it was stopped.
CacheFocus ==
  /\ focus = "cache" /\ CacheNext /\ OnlyCache
  /\ stops' => cacheFaults' = 0
  /\ \A h \in Handlers :
       \/ handler'[h] = NoHandler
       \/ h # live /\ handler'[h].msg = 1 /\ handler'[h].history /\ handler'[h].to = "pn"
       \/ h = live /\ handler'[h].msg # 1 /\ ~handler'[h].history /\ handler'[h].to = "lid"

\* The chat's messages are of one content, reactions apart, the phone's user says words
\* only, and what is said second is said in reply to the first; the session starts and stops while nothing is on its way,
\* and its process dies after a first message that is a text or a picture.
WireFocus ==
  /\ focus = "wire" /\ WireNext /\ OnlyWire
  /\ \A i, j \in DOMAIN wire' :
       \/ wire'[i].content = wire'[j].content
       \/ wire'[i].content = "reactionMessage" \/ wire'[j].content = "reactionMessage"
  /\ Say => ~wire'[1].fromMe \/ wire'[1].content = "conversation"
  /\ Say /\ Len(wire) = 1 =>
       wire'[2] = [wire[1] EXCEPT !.quotes =
                     IF @ = 0 /\ [wire[1] EXCEPT !.quotes = 1] \in WireMessage THEN 1 ELSE 0]
  /\ session' # session => arriving = {} /\ unrecorded = <<>>
  /\ session = "absent" =>
       wire = <<>> \/ (Len(wire) = 1 /\ wire[1].content \in {"conversation", "imageMessage"})

\* One editor renames rows or switches them and creates some, the other replaces what
\* the first holds and tests them, of which the last write is an update; or somebody sets up
\* the connection that drafts use.
ItemsFocus ==
  /\ focus = "items" /\ ItemsNext /\ OnlySettings
  /\ \A c \in Editors :
       LET e == editing'[c] IN
       \/ e = NoEdit
       \/ e.op = "create" /\ e.content = FreshRow.content /\ edits' < MaxEdits - 1
       \/ e.op = "update" /\ IF c = namer THEN e.content = "" /\ (e.label = "" \/ e.status = "")
                           ELSE e.label = "" /\ e.status = "" /\ e.item = 1
       \/ e.op = "test" /\ c # namer /\ edits' < MaxEdits - 1

DraftFocus ==
  /\ focus = "draft" /\ OnlySettings
  /\ \/ DraftReply \/ Completion
     \/ ItemsNext /\ edits' <= 1
  /\ \A c \in Editors :
       LET e == editing'[c] IN
       \/ e = NoEdit
       \/ c = namer /\ e.op = "create" /\ e.content = FreshRow.content /\ e.label = FreshRow.label

DeskNext ==
  \/ ConversationsFocus
  \/ AccessFocus \/ PresenceFocus
  \/ focus = "media" /\ MediaNext /\ OnlyMedia
  \/ MappingFocus \/ StateFocus \/ CacheFocus \/ WireFocus
  \/ ItemsFocus \/ DraftFocus
  \/ focus = "people" /\ PeopleNext /\ OnlySettings
  \/ focus = "gate" /\ Next /\ OnlyGate

DeskSpec ==
  /\ DeskInit /\ [][DeskNext]_deskVars
  /\ WF_convVars(focus = "conversations" /\ FiveMinutes)
  /\ \A c \in Calls : WF_convVars(focus = "conversations" /\ CallRuns(c))
  /\ WF_notifyVars(focus = "presence" /\ (Pulse \/ PulsePeriod))
  /\ WF_mediaVars(focus = "media" /\ \E r \in Runners : DownloadRuns(r))
  /\ WF_regVars(focus = "state" /\ ReceiveEcho)
  /\ \A c \in RegCalls : WF_regVars(focus = "state" /\ RegRuns(c))
  /\ WF_cacheVars(focus = "cache" /\ FlushTimerFires)
  /\ WF_cacheVars(focus = "cache" /\ \E h \in Handlers : Handle(h))

-----------------------------------------------------------------------------
DeskTypeOK == ConvTypeOK /\ NotifyTypeOK /\ MediaTypeOK /\ RegTypeOK
              /\ CacheTypeOK /\ WireTypeOK /\ SettingsTypeOK /\ TypeOK

\* Who may see a channel is one thing wherever it is asked, and follows from its one active
\* mapping (CopiesMirrorAccess in Notifications.tla, OneActiveMapping in ChannelRegistry.tla).
AccessAgrees == CopiesMirrorAccess /\ OneActiveMapping
\* What is said to be there is there: the objects of media, the messages of the cache
\* (LinksLeadSomewhere in MediaStore.tla, SavedIsAtHand in MessageCache.tla).
NothingDangles == LinksLeadSomewhere /\ SavedIsAtHand
\* Repeated calls for a conversation are answered (CallsAreAnswered in
\* Conversations.tla).
CommandsAreAnswered == focus = "conversations" => CallsAreAnswered
\* See PresenceHeals in Notifications.tla.
PresenceRecovers == focus = "presence" => PresenceHeals
\* See DownloadsSettle in MediaStore.tla.
MediaSettles == focus = "media" => DownloadsSettle
\* See RefreshesConverge in ChannelRegistry.tla.
RowsConverge == focus = "state" => RefreshesConverge
\* See MessagesAreSaved in MessageCache.tla.
CacheIsSaved == focus = "cache" => MessagesAreSaved
=============================================================================
