----------------------------- MODULE GatewayWire -----------------------------
(***************************************************************************)
(* What a WhatsApp message becomes on its way through the gateway, the     *)
(* Clario adapter and the history import, and what the desk's replies and  *)
(* reactions become at WhatsApp, for one chat.  Its messages are named by  *)
(* their places in the chat.  Names, titles and times are left out, as are *)
(* connection losses (GatewaySession), the bounds of the session's cache   *)
(* (MessageCache), the attempts of a webhook (Ingest) and of a dispatch    *)
(* (Outbox).                                                               *)
(***************************************************************************)
EXTENDS Naturals, Sequences

LOCAL INSTANCE Classification

CONSTANTS
  MaxWire, \* bound on the messages of the chat
  Unstored

ASSUME WireAssumption == MaxWire \in Nat

VARIABLES
  wireChat,  \* the chat: "direct", "group", or "other" (a broadcast, a newsletter)
  wire,      \* its messages at WhatsApp
  session,   \* at the session manager: "absent", "created" or "ready"
  listeners, \* forwarders of the session's messages
  held,      \* the messages the session has the raw form of
  posted,    \* webhooks started for each message
  arriving,  \* events queued for the normalizer
  timeline,  \* the messages table
  unrecorded \* the row of what the worker sent and has not stored

wireVars == <<wireChat, wire, session, listeners, held, posted, arriving, timeline, unrecorded>>

Places == 1 .. MaxWire

Attachments == {"image", "video", "audio", "document"}

\* The content types of a message; a revocation is a protocolMessage.
ContentType ==
  {"conversation", "extendedTextMessage", "imageMessage", "videoMessage", "audioMessage",
   "documentMessage", "stickerMessage", "locationMessage", "contactMessage",
   "reactionMessage", "protocolMessage"}

\* caption: words that come with a file or a place; quotes: a message, or 0.
WireMessage ==
  {m \in [content : ContentType, fromMe : BOOLEAN, caption : BOOLEAN, quotes : 0 .. MaxWire] :
     /\ m.caption => m.content \in {"imageMessage", "videoMessage", "audioMessage", "documentMessage",
                                   "locationMessage"}
     /\ m.quotes # 0 => m.content \notin {"conversation", "reactionMessage", "protocolMessage"}}

MessageTypes == Attachments \cup {"text", "sticker", "location", "contact_card", "unknown"}

Bodies == {"words", "file name", "none"}

WireEvent == [at : Places, type : MessageTypes, direction : MessageDirection, body : Bodies,
              media : BOOLEAN, quotes : 0 .. MaxWire, history : BOOLEAN]

\* media: the rows of its attachments, of the provider or uploaded at the desk.
WireRow == [type : MessageTypes, direction : MessageDirection, body : Bodies,
            media : SUBSET {"provider", "upload"}, quotes : 0 .. MaxWire, sla : BOOLEAN,
            dispatched : BOOLEAN]

-----------------------------------------------------------------------------
(* The formats. *)

GatewayType(content) ==
  CASE content \in {"conversation", "extendedTextMessage"} -> "chat"
    [] content = "imageMessage" -> "image"
    [] content = "videoMessage" -> "video"
    [] content = "audioMessage" -> "audio"
    [] content = "documentMessage" -> "document"
    [] content = "stickerMessage" -> "sticker"
    [] content = "locationMessage" -> "location"
    [] content = "contactMessage" -> "vcard"
    [] OTHER -> "unknown"

DescribedBody(m) ==
  CASE GatewayType(m.content) = "chat" -> "words"
    [] m.content \in {"imageMessage", "videoMessage", "locationMessage"} /\ m.caption -> "words"
    [] m.content = "documentMessage" -> IF m.caption THEN "words" ELSE "file name"
    [] OTHER -> "none"

\* describeContent
Described(m) ==
  [type |-> GatewayType(m.content), body |-> DescribedBody(m),
   hasMedia |-> GatewayType(m.content) \in Attachments \cup {"sticker"}]

\* normalizeMessage; what wraps the content of a disappearing message is taken off.
Announced(i) ==
  LET d == Described(wire[i])
  IN [id |-> i, fromMe |-> wire[i].fromMe, quoted |-> wire[i].quotes,
      type |-> d.type, body |-> d.body, hasMedia |-> d.hasMedia]

\* mapMessageType
MappedType(type) ==
  CASE type = "chat" -> "text"
    [] type = "vcard" -> "contact_card"
    [] OTHER -> type

\* toGatewayChatMessage, and toNormalizedEvent, which copies it
LiveEvent(g) ==
  [at |-> g.id, type |-> MappedType(g.type),
   direction |-> IF g.fromMe THEN "outbound" ELSE "inbound",
   body |-> g.body, media |-> g.hasMedia, quotes |-> g.quoted, history |-> FALSE]

\* toKnownMessageType knows every type that the adapter makes.
KnownType(type) == type

\* toNormalizedHistoryEvent, of what fetchMessages returns
HistoryEvent(g) == [LiveEvent(g) EXCEPT !.type = KnownType(@), !.history = TRUE]

NON_OPERATIONAL_MESSAGE_TYPES == {"reaction", "system", "deleted"}

\* The chat is mapped to a client and its members are not of the team.
StoredRow(e) ==
  LET class == classifyMessage(
        [providerTimestamp |-> 1, now |-> 1,
         mapping |-> [mode |-> "single_client", effectiveAt |-> 0],
         isHistorySync |-> e.history, isReconnectSync |-> FALSE,
         staleSyncThreshold |-> 0, explicitBackfill |-> FALSE, direction |-> e.direction,
         operational |-> e.type \notin NON_OPERATIONAL_MESSAGE_TYPES,
         senderIsInternal |-> FALSE, phoneRestricted |-> FALSE])
  IN [type |-> e.type, direction |-> e.direction, body |-> e.body,
      media |-> IF e.media THEN {"provider"} ELSE {},
      quotes |-> e.quotes, sla |-> class.slaEligible, dispatched |-> FALSE]

\* insertMedia adds the attachments that a message does not have.
WithAttachments(row, more) == [row EXCEPT !.media = @ \cup more]

-----------------------------------------------------------------------------
(* The routes of the gateway that start and stop its session. *)

MutListenAgain == listeners + 1
\* The start route adds a forwarder to a session that has none.
Forwarders == IF listeners = 0 THEN 1 ELSE listeners

\* The adapter's connect creates the session and starts it, however often it is called.
CreateRoute ==
  /\ session = "absent"
  /\ session' = "created"
  /\ UNCHANGED <<wireChat, wire, listeners, held, posted, arriving, timeline, unrecorded>>

StartRoute ==
  /\ session' = "ready"
  /\ listeners' = Forwarders
  /\ UNCHANGED <<wireChat, wire, held, posted, arriving, timeline, unrecorded>>

StopRoute ==
  /\ session # "absent"
  /\ session' = "created"
  /\ UNCHANGED <<wireChat, wire, listeners, held, posted, arriving, timeline, unrecorded>>

\* The next start reads the raw messages from the cache file, if it was written.
GatewayDies ==
  /\ session # "absent"
  /\ session' = "absent" /\ listeners' = 0
  /\ held' \in {held, {}}
  /\ UNCHANGED <<wireChat, wire, posted, arriving, timeline, unrecorded>>

-----------------------------------------------------------------------------
(* From WhatsApp to the desk. *)

\* A member of the chat, or the user of the phone, says something.
Say ==
  /\ Len(wire) < MaxWire
  /\ \E m \in WireMessage : m.quotes <= Len(wire) /\ wire' = Append(wire, m)
  /\ UNCHANGED <<wireChat, session, listeners, held, posted, arriving, timeline, unrecorded>>

isTrackableChat == wireChat \in {"direct", "group"}

\* messages.upsert: the session records the message and announces it unless it comes
\* with the history; its webhook may be given up.
Deliver(i) ==
  /\ session = "ready" /\ i \in 1 .. Len(wire) \ held
  /\ isTrackableChat
  /\ held' = held \cup {i}
  /\ \/ posted' = posted /\ arriving' = arriving
     \/ /\ posted[i] = 0 /\ listeners > 0
        /\ posted' = [posted EXCEPT ![i] = listeners]
        /\ arriving' \in {arriving, arriving \cup {LiveEvent(Announced(i))}}
  /\ UNCHANGED <<wireChat, wire, session, listeners, timeline, unrecorded>>

\* syncMessages queues what the session has.
ImportChat ==
  /\ session = "ready" /\ held # {}
  /\ arriving' = arriving \cup {HistoryEvent(Announced(i)) : i \in held}
  /\ UNCHANGED <<wireChat, wire, session, listeners, held, posted, timeline, unrecorded>>

\* The normalizer stores a message it does not have, or completes its attachments.
NormalizeEvent ==
  /\ \E e \in arriving :
       /\ arriving' = arriving \ {e}
       /\ timeline' = [timeline EXCEPT ![e.at] =
                    IF @ = Unstored THEN StoredRow(e)
                    ELSE WithAttachments(@, StoredRow(e).media)]
  /\ UNCHANGED <<wireChat, wire, session, listeners, held, posted, unrecorded>>

-----------------------------------------------------------------------------
(* From the desk to WhatsApp. *)

\* requireClient, and room for a message
Sendable == session = "ready" /\ Len(wire) < MaxWire

OutboxRow(type, body, media) ==
  [type |-> type, direction |-> "outbound", body |-> body, media |-> media, quotes |-> 0,
   sla |-> FALSE, dispatched |-> TRUE]

\* The session posts a message and records what WhatsApp confirms.
Dispatched(content, caption, row) ==
  /\ Sendable /\ unrecorded = <<>>
  /\ wire' = Append(wire, [content |-> content, fromMe |-> TRUE, caption |-> caption,
                           quotes |-> 0])
  /\ held' = held \cup {Len(wire) + 1}
  /\ unrecorded' = <<[at |-> Len(wire) + 1, row |-> row]>>
  /\ UNCHANGED <<wireChat, session, listeners, posted, arriving, timeline>>

\* The worker dispatches a text.  One that quotes a message always fails: the worker
\* passes the row's id where the gateway looks for WhatsApp's.
DispatchText == Dispatched("extendedTextMessage", FALSE, OutboxRow("text", "words", {}))

\* mediaKindForMimeType of the gateway, for the part of the mime type before the slash
MediaContent(mime) ==
  CASE mime = "image" -> "imageMessage"
    [] mime = "video" -> "videoMessage"
    [] mime = "audio" -> "audioMessage"
    [] OTHER -> "documentMessage"

\* mediaTypeForMime of the API
MediaType(mime) == IF mime \in Attachments THEN mime ELSE "document"

DispatchFile ==
  \E mime \in {"image", "video", "audio", "application"}, worded \in BOOLEAN :
    Dispatched(MediaContent(mime), worded,
               OutboxRow(MediaType(mime), IF worded THEN "words" ELSE "none", {"upload"}))

\* The worker stores what it sent; if an event of it was faster, only the upload is linked.
StoreDispatched ==
  /\ unrecorded # <<>>
  /\ timeline' = [timeline EXCEPT ![unrecorded[1].at] =
               IF @ = Unstored THEN unrecorded[1].row
               ELSE WithAttachments(@, unrecorded[1].row.media)]
  /\ unrecorded' = <<>>
  /\ UNCHANGED <<wireChat, wire, session, listeners, held, posted, arriving>>

\* An agent reacts to a message of the timeline that the session holds.
React ==
  /\ Sendable /\ \E i \in held : timeline[i] # Unstored
  /\ wire' = Append(wire, [content |-> "reactionMessage", fromMe |-> TRUE,
                           caption |-> FALSE, quotes |-> 0])
  /\ UNCHANGED <<wireChat, session, listeners, held, posted, arriving, timeline, unrecorded>>

-----------------------------------------------------------------------------
WireInit ==
  /\ wireChat \in {"direct", "group", "other"}
  /\ wire = <<>> /\ held = {} /\ arriving = {} /\ unrecorded = <<>>
  /\ session = "absent" /\ listeners = 0
  /\ posted = [i \in Places |-> 0]
  /\ timeline = [i \in Places |-> Unstored]

WireNext ==
  \/ CreateRoute \/ StartRoute \/ StopRoute \/ GatewayDies
  \/ Say \/ (\E i \in Places : Deliver(i)) \/ ImportChat \/ NormalizeEvent
  \/ DispatchText \/ DispatchFile \/ StoreDispatched \/ React

WireSpec == WireInit /\ [][WireNext]_wireVars

-----------------------------------------------------------------------------
WireTypeOK ==
  /\ wireChat \in {"direct", "group", "other"}
  /\ wire \in Seq(WireMessage) /\ Len(wire) <= MaxWire
  /\ session \in {"absent", "created", "ready"} /\ listeners \in Nat
  /\ held \subseteq DOMAIN wire
  /\ posted \in [Places -> Nat]
  /\ arriving \subseteq WireEvent
  /\ timeline \in [Places -> WireRow \cup {Unstored}]
  /\ \A k \in DOMAIN unrecorded : unrecorded[k] \in [at : Places, row : WireRow]

\* A message looks the same in the timeline whether it was announced, imported with the
\* history or dispatched by the desk: three formats and two tables of mime types agree on
\* its type, its side and its attachment (normalizeMessage and mediaKindForMimeType of the
\* gateway, toNormalizedEvent, toNormalizedHistoryEvent, mediaTypeForMime of the API).
\* Dispatched rows have the text of the outbox for their body.
StoredAlike ==
  \A i, j \in DOMAIN wire :
    LET r == timeline[i]  s == timeline[j] IN
    wire[i] = wire[j] /\ r # Unstored /\ s # Unstored =>
      /\ r.type = s.type /\ r.direction = s.direction /\ r.quotes = s.quotes
      /\ (r.media = {}) = (s.media = {})
      /\ r.dispatched \/ s.dispatched \/ r.body = s.body

\* However often users connect a phone, stop it or restart the gateway, a message is
\* forwarded to the API by one chain of webhook attempts (the start route of index.ts).
ForwardedOnce == \A i \in Places : posted[i] <= 1

\* What happens in a chat comes to the timeline once, and the same by every way.
WireInv == StoredAlike /\ ForwardedOnce

\* A reaction or a deletion never starts the response clock (classification.ts).
NonOperationalStartsNothing ==
  \A i \in DOMAIN wire :
    wire[i].content \in {"reactionMessage", "protocolMessage"} /\ timeline[i] # Unstored
      => ~timeline[i].sla

\* A file that the desk sent has one attachment in the timeline.  It gets a second one
\* when an import of the chat brings the message back: the upload has no providerMediaId
\* that insertMedia could find it by.
OneAttachment == \A i \in Places : timeline[i] # Unstored => timeline[i].media # {"provider", "upload"}
=============================================================================
