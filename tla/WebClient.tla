----------------------------- MODULE WebClient -----------------------------
(***************************************************************************)
(* The inbox of one browser tab (apps/web/src/App.tsx Workbench, hooks.ts  *)
(* useAsyncData, realtime.ts): the pane that shows the timeline of the     *)
(* active chat, the loads and refreshes that fill it, and what triggers    *)
(* them: selecting a chat, realtime events, polling, reconnecting and the  *)
(* first sync of a chat.  Messages of a chat are counted, not told apart.  *)
(***************************************************************************)
EXTENDS Naturals, Sequences

LOCAL INSTANCE SequencesExt

CONSTANTS
  Channels,
  NoChannel,
  MaxStored,    \* bound on the messages of a chat
  MaxRequests,  \* bound on the timeline requests in flight
  MaxWebFaults  \* bound on failed requests and lost connections

ASSUME WebAssumption ==
  /\ NoChannel \notin Channels
  /\ {MaxStored, MaxWebFaults} \subseteq Nat
  /\ MaxRequests \in Nat \ {0}

VARIABLES
  stored,    \* messages of each chat in the database
  emitted,   \* chats with an event on its way through the relay
  active,    \* activeChannel
  pane,      \* state of the timeline's useAsyncData
  requests,  \* GET timeline requests in flight
  online,    \* realtime.status is "connected"
  joined,    \* the realtime server joined the socket to the rooms of its chats
  timer,     \* refreshTimers["timeline"] is set
  synced,    \* autoSyncedChannels
  syncs,     \* chats whose first sync or menu refresh is in flight
  webFaults

webVars == <<stored, emitted, active, pane, requests, online, joined, timer, synced, syncs,
             webFaults>>

\* of: the chat the data is of; upto: how many of its messages it has; by: what brought it.
Pane == [of : Channels \cup {NoChannel}, upto : 0 .. MaxStored,
         status : {"loading", "success", "error"}, by : {"load", "refresh"}]

\* A load belongs to the effect of a render; upto: what the API read, once answered.
Request == [of : Channels, kind : {"load", "refresh"}, current : BOOLEAN,
            answered : BOOLEAN, upto : 0 .. MaxStored]

WebFault == webFaults < MaxWebFaults /\ webFaults' = webFaults + 1

-----------------------------------------------------------------------------
(* useAsyncData. *)

Sent(c, kind) == [of |-> c, kind |-> kind, current |-> TRUE, answered |-> FALSE, upto |-> 0]

\* refresh: of the chat its closure was made for.
Refresh(c) ==
  /\ Len(requests) < MaxRequests
  /\ requests' = Append(requests, Sent(c, "refresh"))
  /\ pane' = [pane EXCEPT !.status = "loading"]

\* The effect of a render with another chat outdates the load of the one before.
Load(c) ==
  /\ Len(requests) < MaxRequests
  /\ requests' = Append([k \in DOMAIN requests |-> [requests[k] EXCEPT !.current = FALSE]],
                        Sent(c, "load"))
  /\ pane' = [pane EXCEPT !.status = "loading"]

MutLateLoads(r) == TRUE
\* An outdated load is ignored; a refresh is not.
Applies(r) == r.kind = "refresh" \/ r.current

\* The API's query.
ReadTimeline(k) ==
  /\ ~requests[k].answered
  /\ requests' = [requests EXCEPT ![k].answered = TRUE, ![k].upto = stored[requests[k].of]]
  /\ UNCHANGED <<stored, emitted, active, pane, online, joined, timer, synced, syncs, webFaults>>

TimelineAnswer(k) ==
  LET r == requests[k] IN
  /\ r.answered
  /\ requests' = RemoveAt(requests, k)
  /\ pane' = IF Applies(r)
             THEN [of |-> r.of, upto |-> r.upto, status |-> "success", by |-> r.kind] ELSE pane
  /\ UNCHANGED <<stored, emitted, active, online, joined, timer, synced, syncs, webFaults>>

TimelineFails(k) ==
  /\ WebFault
  /\ requests' = RemoveAt(requests, k)
  /\ pane' = IF Applies(requests[k]) THEN [pane EXCEPT !.status = "error"] ELSE pane
  /\ UNCHANGED <<stored, emitted, active, online, joined, timer, synced, syncs>>

-----------------------------------------------------------------------------
(* What the user and the browser do. *)

\* A click, a push notification, or another first chat after a filter or an archive.
Select(c) ==
  /\ c # active
  /\ active' = c
  /\ Load(c)
  /\ UNCHANGED <<stored, emitted, online, joined, timer, synced, syncs, webFaults>>

MutPollOnline == online
\* The five second poll runs without the realtime connection only.
Polls == ~online

Poll ==
  /\ Polls
  /\ Refresh(active)
  /\ UNCHANGED <<stored, emitted, active, online, joined, timer, synced, syncs, webFaults>>

\* The window is focused or visible again, or a history import is polled.
Reconcile ==
  /\ Refresh(active)
  /\ UNCHANGED <<stored, emitted, active, online, joined, timer, synced, syncs, webFaults>>

\* The first time a chat is active with any data in the pane, its history is fetched;
\* the menu's refresh asks for the metadata of its chat and then does the same.
AutoSync ==
  /\ pane.of # NoChannel /\ active \notin synced
  /\ synced' = synced \cup {active}
  /\ syncs' = syncs \cup {active}
  /\ UNCHANGED <<stored, emitted, active, pane, requests, online, joined, timer, webFaults>>

MenuRefresh ==
  /\ syncs' = syncs \cup {active}
  /\ UNCHANGED <<stored, emitted, active, pane, requests, online, joined, timer, synced, webFaults>>

\* Then the timeline is refreshed by the closure of the render that started it.
SyncAnswer(c) ==
  /\ c \in syncs
  /\ syncs' = syncs \ {c}
  /\ Refresh(c)
  /\ UNCHANGED <<stored, emitted, active, online, joined, timer, synced, webFaults>>

SyncFails(c) ==
  /\ c \in syncs
  /\ WebFault
  /\ syncs' = syncs \ {c}
  /\ synced' = synced \ {c}
  /\ UNCHANGED <<stored, emitted, active, pane, requests, online, joined, timer>>

-----------------------------------------------------------------------------
(* The realtime connection. *)

\* A refresh follows the connection; the server joins the rooms after a query of its own.
Connect ==
  /\ ~online
  /\ online' = TRUE
  /\ joined' \in BOOLEAN
  /\ Refresh(active)
  /\ UNCHANGED <<stored, emitted, active, timer, synced, syncs, webFaults>>

Join ==
  /\ online /\ ~joined
  /\ joined' = TRUE
  /\ UNCHANGED <<stored, emitted, active, pane, requests, online, timer, synced, syncs, webFaults>>

LoseRealtime ==
  /\ online
  /\ WebFault
  /\ online' = FALSE /\ joined' = FALSE
  /\ UNCHANGED <<stored, emitted, active, pane, requests, timer, synced, syncs>>

\* The worker or the API stores a message and publishes it.
StoreMessage(c) ==
  /\ stored[c] < MaxStored
  /\ stored' = [stored EXCEPT ![c] = @ + 1]
  /\ emitted' = emitted \cup {c}
  /\ UNCHANGED <<active, pane, requests, online, joined, timer, synced, syncs, webFaults>>

\* An event of the active chat sets the debounced refresh; unjoined sockets miss it.
DeliverEvent(c) ==
  /\ c \in emitted
  /\ emitted' = emitted \ {c}
  /\ timer' = (timer \/ (joined /\ c = active))
  /\ UNCHANGED <<stored, active, pane, requests, online, joined, synced, syncs, webFaults>>

\* timelineRefreshRef: the refresh of the latest render.
TimerFires ==
  /\ timer
  /\ timer' = FALSE
  /\ Refresh(active)
  /\ UNCHANGED <<stored, emitted, active, online, joined, synced, syncs, webFaults>>

-----------------------------------------------------------------------------
WebInit ==
  /\ stored = [c \in Channels |-> 0]
  /\ emitted = {}
  /\ active \in Channels
  /\ pane = [of |-> NoChannel, upto |-> 0, status |-> "loading", by |-> "load"]
  /\ requests = <<Sent(active, "load")>>
  /\ online = FALSE /\ joined = FALSE
  /\ timer = FALSE
  /\ synced = {} /\ syncs = {}
  /\ webFaults = 0

WebNext ==
  \/ \E k \in DOMAIN requests : ReadTimeline(k) \/ TimelineAnswer(k) \/ TimelineFails(k)
  \/ \E c \in Channels : \/ Select(c) \/ SyncAnswer(c) \/ SyncFails(c)
                         \/ StoreMessage(c) \/ DeliverEvent(c)
  \/ Poll \/ Reconcile \/ AutoSync \/ MenuRefresh
  \/ Connect \/ Join \/ LoseRealtime \/ TimerFires

\* The oldest request is answered in the end.
ServeOldest == requests # <<>> /\ (ReadTimeline(1) \/ TimelineAnswer(1))

\* Timers and requests run; nothing obliges the user, the relay or the network.
WebSpec == WebInit /\ [][WebNext]_webVars /\ WF_webVars(Poll) /\ WF_webVars(ServeOldest)

-----------------------------------------------------------------------------
WebTypeOK ==
  /\ stored \in [Channels -> 0 .. MaxStored]
  /\ emitted \cup synced \cup syncs \subseteq Channels
  /\ active \in Channels
  /\ pane \in Pane
  /\ requests \in Seq(Request) /\ Len(requests) <= MaxRequests
  /\ {online, joined, timer} \subseteq BOOLEAN
  /\ webFaults \in 0 .. MaxWebFaults

\* However late answers come, what a load brought is shown under its own chat
\* (hooks.ts:32-46).
LoadsStayInTheirChat == pane.status = "success" /\ pane.by = "load" => pane.of = active

\* A tab without its realtime connection that stays on a chat shows every message of
\* it time and again, however many answers of other chats, failures and outdated reads
\* come in between: the poll repairs them (App.tsx:632-635).
PollingCatchesUp ==
  \A c \in Channels :
    <>[](~online /\ active = c) => []<>(pane.of = c /\ pane.upto = stored[c])

\* hooks.ts:50 says that a manual refresh also guards against stale responses: what the
\* pane presents as loaded is of the active chat.  The refresh has no such guard.
TimelineOfChannel == pane.status = "success" => pane.of = active
=============================================================================
