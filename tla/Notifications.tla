--------------------------- MODULE Notifications ---------------------------
(***************************************************************************)
(* Who learns of a new message of one channel: the API's visibility rule   *)
(* (access.service.ts) and its copies in the realtime server (access.ts)   *)
(* and the push worker (recipients.ts), the sockets and rooms of the       *)
(* realtime server (apps/realtime/src/index.ts), presence in Redis         *)
(* (packages/events/src/presence.ts), and the push job that skips whoever  *)
(* is online (notify-push.processor.ts).  Every user has a device that is  *)
(* subscribed to pushes.                                                   *)
(***************************************************************************)
EXTENDS Naturals, FiniteSets

CONSTANTS
  Admins, Agents,  \* the workspace's users; nothing changes a role or a status
  Clients,
  Conns,           \* bound on the sockets open at a time
  FreshFor,        \* heartbeats that a presence entry stays fresh: 90 s of 30 s
  MaxDrops         \* bound on lost sockets and restarts of the realtime server

ASSUME NotifyAssumption ==
  /\ Admins \cap Agents = {}
  /\ FreshFor \in Nat \ {0} /\ MaxDrops \in Nat

VARIABLES
  mappings,  \* rows of channel_mappings: client and status
  clientGrants, channelGrants,  \* client_assignments and channel_assignments
  conn,      \* the sockets, as the realtime server knows them
  count,     \* socketCountByUser
  presence,  \* Redis: heartbeats since each user's entry was written, or no entry
  pulsed,    \* the heartbeat ran in this period
  alert,     \* where the message is: stored, relayed, addressed, pushed
  addressed, \* the push job's recipients
  reached,   \* users with the event on a socket or a push on a device
  drops

notifyVars == <<mappings, clientGrants, channelGrants, conn, count, presence, pulsed, alert,
                addressed, reached, drops>>

Users == Admins \cup Agents

NoEntry == FreshFor + 1

\* open: the socket still is; room: it was to join the channel's or the admin room.
Conn == [user : Users, at : {"accepted", "queried", "joined", "marking", "live"},
         open : BOOLEAN, room : BOOLEAN]

NoConn == [at |-> "none"]

ConnAt(s, stage) == conn[s].at = stage

-----------------------------------------------------------------------------
(* The three copies of the visibility rule. *)

ActiveClients == {m.client : m \in {n \in mappings : n.status = "active"}}

\* AccessService.accessibleChannelIds
MayAccess(u) ==
  \/ u \in Admins
  \/ \E c \in ActiveClients : <<c, u>> \in clientGrants
  \/ u \in channelGrants

\* accessibleChannelIds of the realtime server
RoomFor(u) ==
  u \in Admins \/ u \in channelGrants \/ (\E c \in ActiveClients : <<c, u>> \in clientGrants)

MutAnyMapping == {g[2] : g \in {h \in clientGrants : \E m \in mappings : m.client = h[1]}}
\* viaClient of usersWithChannelAccess
ViaClient == {g[2] : g \in {h \in clientGrants : h[1] \in ActiveClients}}

usersWithChannelAccess == Admins \cup channelGrants \cup ViaClient

\* An admin maps the channel to another client ...
MapTo(c) ==
  /\ mappings' = {[m EXCEPT !.status = "ended"] : m \in mappings}
                   \cup {[client |-> c, status |-> "active"]}
  /\ UNCHANGED <<clientGrants, channelGrants, conn, count, presence, pulsed, alert, addressed,
                 reached, drops>>

\* ... or assigns a client or the channel to an agent.
AssignClient(c, u) ==
  /\ clientGrants' = clientGrants \cup {<<c, u>>}
  /\ UNCHANGED <<mappings, channelGrants, conn, count, presence, pulsed, alert, addressed,
                 reached, drops>>

AssignChannel(u) ==
  /\ channelGrants' = channelGrants \cup {u}
  /\ UNCHANGED <<mappings, clientGrants, conn, count, presence, pulsed, alert, addressed,
                 reached, drops>>

-----------------------------------------------------------------------------
(* The realtime server: each await of its connection handler ends a step. *)

Move(s, stage) == conn' = [conn EXCEPT ![s].at = stage]

Unchanged == UNCHANGED <<mappings, clientGrants, channelGrants, alert, addressed, reached>>

Accept(s, u) ==
  /\ conn[s] = NoConn
  /\ conn' = [conn EXCEPT ![s] = [user |-> u, at |-> "accepted", open |-> TRUE, room |-> FALSE]]
  /\ Unchanged /\ UNCHANGED <<count, presence, pulsed, drops>>

QueryAccess(s) ==
  /\ ConnAt(s, "accepted")
  /\ conn' = [conn EXCEPT ![s].at = "queried", ![s].room = RoomFor(conn[s].user)]
  /\ Unchanged /\ UNCHANGED <<count, presence, pulsed, drops>>

JoinRooms(s) ==
  /\ ConnAt(s, "queried")
  /\ Move(s, "joined")
  /\ Unchanged /\ UNCHANGED <<count, presence, pulsed, drops>>

\* A handler that was registered too late never runs; the count of its socket stays.
Registered(s) == IF conn[s].open THEN [conn[s] EXCEPT !.at = "live"] ELSE NoConn

\* The first socket of a user marks him online and waits for Redis.
CountSocket(s) ==
  LET u == conn[s].user IN
  /\ ConnAt(s, "joined")
  /\ count' = [count EXCEPT ![u] = @ + 1]
  /\ IF count[u] = 0
       THEN Move(s, "marking") /\ presence' = [presence EXCEPT ![u] = 0]
       ELSE conn' = [conn EXCEPT ![s] = Registered(s)] /\ presence' = presence
  /\ Unchanged /\ UNCHANGED <<pulsed, drops>>

RegisterHandler(s) ==
  /\ ConnAt(s, "marking")
  /\ conn' = [conn EXCEPT ![s] = Registered(s)]
  /\ Unchanged /\ UNCHANGED <<count, presence, pulsed, drops>>

\* The disconnect handler, if there is one by now.
DropSocket(s) ==
  LET u == conn[s].user IN
  /\ conn[s] # NoConn /\ conn[s].open
  /\ drops < MaxDrops /\ drops' = drops + 1
  /\ IF ConnAt(s, "live")
       THEN /\ conn' = [conn EXCEPT ![s] = NoConn]
            /\ count' = [count EXCEPT ![u] = @ - 1]
            /\ presence' = IF count[u] = 1 THEN [presence EXCEPT ![u] = NoEntry] ELSE presence
       ELSE conn' = [conn EXCEPT ![s].open = FALSE] /\ UNCHANGED <<count, presence>>
  /\ Unchanged /\ UNCHANGED pulsed

\* Only Redis survives a restart.
RealtimeRestarts ==
  /\ drops < MaxDrops /\ drops' = drops + 1
  /\ conn' = [s \in Conns |-> NoConn]
  /\ count' = [u \in Users |-> 0]
  /\ Unchanged /\ UNCHANGED <<presence, pulsed>>

MutPulseCounted(u) == count[u] > 0
\* The heartbeat refreshes the users of the open sockets that have their state.
Pulses(u) ==
  \E s \in Conns : conn[s] # NoConn /\ conn[s].user = u /\ conn[s].open /\ ~ConnAt(s, "accepted")

Pulse ==
  /\ ~pulsed
  /\ pulsed' = TRUE
  /\ presence' = [u \in Users |-> IF Pulses(u) THEN 0 ELSE presence[u]]
  /\ Unchanged /\ UNCHANGED <<conn, count, drops>>

\* Thirty seconds: whose entry is too old is not online any more.
PulsePeriod ==
  /\ pulsed
  /\ pulsed' = FALSE
  /\ presence' = [u \in Users |-> IF presence[u] = NoEntry THEN NoEntry ELSE presence[u] + 1]
  /\ Unchanged /\ UNCHANGED <<conn, count, drops>>

-----------------------------------------------------------------------------
(* One message: the normalizer publishes it and adds the push job. *)

Online(u) == presence[u] # NoEntry

InRoom(u) ==
  \E s \in Conns : /\ conn[s] # NoConn /\ conn[s].user = u /\ conn[s].open /\ conn[s].room
                   /\ conn[s].at \in {"joined", "marking", "live"}

Relay ==
  /\ alert = "stored"
  /\ alert' = "relayed"
  /\ reached' = {u \in Users : InRoom(u)}
  /\ UNCHANGED <<mappings, clientGrants, channelGrants, conn, count, presence, pulsed,
                 addressed, drops>>

Address ==
  /\ alert = "relayed"
  /\ alert' = "addressed"
  /\ addressed' = usersWithChannelAccess
  /\ UNCHANGED <<mappings, clientGrants, channelGrants, conn, count, presence, pulsed, reached,
                 drops>>

PushOffline ==
  /\ alert = "addressed"
  /\ alert' = "pushed"
  /\ reached' = reached \cup {u \in addressed : ~Online(u)}
  /\ UNCHANGED <<mappings, clientGrants, channelGrants, conn, count, presence, pulsed,
                 addressed, drops>>

-----------------------------------------------------------------------------
NotifyInit ==
  /\ mappings = {} /\ clientGrants = {} /\ channelGrants = {}
  /\ conn = [s \in Conns |-> NoConn]
  /\ count = [u \in Users |-> 0]
  /\ presence = [u \in Users |-> NoEntry]
  /\ pulsed = FALSE
  /\ alert = "stored"
  /\ addressed = {} /\ reached = {}
  /\ drops = 0

NotifyNext ==
  \/ \E c \in Clients : MapTo(c) \/ \E u \in Agents : AssignClient(c, u)
  \/ \E u \in Agents : AssignChannel(u)
  \/ \E s \in Conns : \/ \E u \in Users : Accept(s, u)
                      \/ QueryAccess(s) \/ JoinRooms(s) \/ CountSocket(s) \/ RegisterHandler(s)
                      \/ DropSocket(s)
  \/ RealtimeRestarts \/ Pulse \/ PulsePeriod
  \/ Relay \/ Address \/ PushOffline

\* The heartbeat's timer keeps firing.
NotifySpec == NotifyInit /\ [][NotifyNext]_notifyVars /\ WF_notifyVars(Pulse \/ PulsePeriod)

-----------------------------------------------------------------------------
NotifyTypeOK ==
  /\ mappings \subseteq [client : Clients, status : {"active", "ended"}]
  /\ clientGrants \subseteq Clients \X Agents
  /\ channelGrants \subseteq Agents
  /\ conn \in [Conns -> Conn \cup {NoConn}]
  /\ count \in [Users -> Nat]
  /\ presence \in [Users -> 0 .. NoEntry]
  /\ pulsed \in BOOLEAN
  /\ alert \in {"stored", "relayed", "addressed", "pushed"}
  /\ addressed \cup reached \subseteq Users
  /\ drops \in 0 .. MaxDrops

\* However the channel is mapped and assigned, the worker and the realtime server
\* answer as the API does who may see it: "mirrors the API's AccessService rule"
\* (recipients.ts:6, realtime/src/access.ts:8).
CopiesMirrorAccess ==
  \A u \in Users : (u \in usersWithChannelAccess <=> MayAccess(u)) /\ (RoomFor(u) <=> MayAccess(u))

\* Presence heals: a user with sockets is online in the end, and one without is not,
\* whatever disconnects the handler missed and restarts left behind (presence.ts:38).
PresenceHeals ==
  \A u \in Users :
    /\ <>[](\E s \in Conns : ConnAt(s, "live") /\ conn[s].user = u) => <>[]Online(u)
    /\ <>[](\A s \in Conns : conn[s] = NoConn \/ conn[s].user # u) => <>[]~Online(u)

\* notify-push.processor.ts:58 says of the users it skips that everyone who can see the
\* message is already looking: who is addressed got the event or gets the push.
SkippedAreLooking == alert = "pushed" => addressed \subseteq reached
=============================================================================
