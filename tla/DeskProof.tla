-------------------------------- MODULE DeskProof --------------------------------
(***************************************************************************)
(* Proofs about the desk (MCDesk.tla and the components it composes): who  *)
(* is told, the registry of channels, media, settings, and what becomes of *)
(* a message on its way to the timeline.  A part for each, with the        *)
(* invariant that is inductive and the steps that keep it; the theorems    *)
(* about the whole desk rest on them, for one of its steps is a step of    *)
(* some and leaves the others be.                                          *)
(***************************************************************************)
EXTENDS MCDesk, ConversationsProof, OrderedProof, FiniteSetTheorems, SequenceTheorems, TLAPS

LOCAL INSTANCE Classification
LOCAL INSTANCE SequencesExt

-----------------------------------------------------------------------------
(* Who is told, and the sockets of the realtime server.                    *)

\* Sockets whose user was counted and whose end will be, or is missed.
Counted(u) == {s \in Conns : conn[s] # NoConn /\ conn[s].user = u /\ conn[s].at \in {"marking", "live"}}

CountsCover == \A u \in Users : IsFiniteSet(Counted(u)) /\ Cardinality(Counted(u)) <= count[u]

NotifyInv == NotifyTypeOK /\ CountsCover

\* A step of one socket leaves the others where they are.
LEMMA CountedMoves ==
  ASSUME NEW u \in Users, NEW s \in Conns, IsFiniteSet(Counted(u)),
         \A r \in Conns \ {s} : conn'[r] = conn[r]
  PROVE  /\ IsFiniteSet(Counted(u)') /\ Cardinality(Counted(u)) \in Nat
         /\ Cardinality(Counted(u)') \in Nat
         /\ Cardinality(Counted(u)') <= Cardinality(Counted(u)) + 1
         /\ s \notin Counted(u)' => Cardinality(Counted(u)') <= Cardinality(Counted(u))
         /\ s \in Counted(u) => Cardinality(Counted(u)') <= Cardinality(Counted(u))
         /\ s \in Counted(u) => Cardinality(Counted(u)) >= 1
         /\ s \in Counted(u) /\ s \notin Counted(u)'
              => Cardinality(Counted(u)') = Cardinality(Counted(u)) - 1
<1> DEFINE rest == Counted(u) \ {s}
<1>1. rest = Counted(u)' \ {s}
  BY DEF Counted
<1>2. IsFiniteSet(rest) /\ Cardinality(Counted(u)) \in Nat /\ Cardinality(rest) \in Nat
      /\ Cardinality(rest)
           = IF s \in Counted(u) THEN Cardinality(Counted(u)) - 1 ELSE Cardinality(Counted(u))
  BY FS_RemoveElement, FS_CardinalityType
<1>3. CASE s \in Counted(u)'
  <2>1. Counted(u)' = rest \cup {s} /\ s \notin rest
    BY <1>1, <1>3
  <2>2. IsFiniteSet(Counted(u)') /\ Cardinality(Counted(u)') = Cardinality(rest) + 1
    BY <1>2, <2>1, FS_AddElement
  <2> QED  BY <1>2, <1>3, <2>2
<1>4. CASE s \notin Counted(u)'
  <2>1. Counted(u)' = rest
    BY <1>1, <1>4
  <2> QED  BY <1>2, <1>4, <2>1
<1> QED  BY <1>3, <1>4

LEMMA NotifyInitHolds == NotifyInit => NotifyInv
<1> SUFFICES ASSUME NotifyInit PROVE NotifyInv
  OBVIOUS
<1>1. FreshFor \in Nat /\ MaxDrops \in Nat
  BY NotifyAssumption
<1>2. NoEntry \in 0 .. NoEntry /\ 0 \in 0 .. MaxDrops
  BY <1>1 DEF NoEntry
<1>3. NotifyTypeOK
  BY <1>2 DEF NotifyInit, NotifyTypeOK
<1>4. \A u \in Users : Counted(u) = {} /\ count[u] = 0
  BY DEF NotifyInit, Counted
<1>5. IsFiniteSet({}) /\ Cardinality({}) = 0
  BY FS_EmptySet
<1>6. CountsCover
  BY <1>4, <1>5 DEF CountsCover
<1> QED  BY <1>3, <1>6 DEF NotifyInv

LEMMA SocketMoves ==
  ASSUME conn \in [Conns -> Conn \cup {NoConn}], NEW s \in Conns, conn[s].at # "none",
         NEW stage \in {"accepted", "queried", "joined", "marking", "live"}, Move(s, stage)
  PROVE  /\ conn' \in [Conns -> Conn \cup {NoConn}]
         /\ \A r \in Conns \ {s} : conn'[r] = conn[r]
         /\ conn'[s].at = stage /\ conn'[s].user = conn[s].user
<1>1. conn[s] \in Conn
  BY DEF NoConn
<1>2. [conn[s] EXCEPT !.at = stage] \in Conn
  BY <1>1 DEF Conn
<1> QED  BY <1>1, <1>2 DEF Move, Conn

LEMMA NotifyStep ==
  ASSUME NotifyInv, NotifyNext
  PROVE  NotifyInv'
<1>0. /\ NotifyTypeOK /\ CountsCover
      /\ FreshFor \in Nat /\ MaxDrops \in Nat /\ NoEntry \in Nat
      /\ conn \in [Conns -> Conn \cup {NoConn}] /\ count \in [Users -> Nat]
      /\ presence \in [Users -> 0 .. NoEntry]
      /\ \A s \in Conns : conn[s].at # "none" => conn[s] \in Conn /\ conn[s] # NoConn
  BY NotifyAssumption DEF NotifyInv, NotifyTypeOK, NoEntry, NoConn
<1>1. ASSUME UNCHANGED <<conn, count, presence, pulsed, drops>>, mappings' \subseteq
               [client : Clients, status : {"active", "ended"}],
             clientGrants' \subseteq Clients \X Agents, channelGrants' \subseteq Agents,
             alert' \in {"stored", "relayed", "addressed", "pushed"},
             addressed' \cup reached' \subseteq Users
      PROVE  NotifyInv'
  BY <1>0, <1>1 DEF NotifyInv, NotifyTypeOK, CountsCover, Counted
<1>2. ASSUME Unchanged, conn' \in [Conns -> Conn \cup {NoConn}], count' \in [Users -> Nat],
             presence' \in [Users -> 0 .. NoEntry], pulsed' \in BOOLEAN,
             drops' \in 0 .. MaxDrops
      PROVE  NotifyTypeOK'
  BY <1>0, <1>2 DEF Unchanged, NotifyTypeOK
<1>3. ASSUME NEW s \in Conns, \A r \in Conns \ {s} : conn'[r] = conn[r],
             \A u \in Users : s \in Counted(u)' => s \in Counted(u),
             count' = count
      PROVE  CountsCover'
  <2>1. ASSUME NEW u \in Users
        PROVE  IsFiniteSet(Counted(u)') /\ Cardinality(Counted(u)') <= count'[u]
    <3>1. /\ IsFiniteSet(Counted(u)') /\ Cardinality(Counted(u)') \in Nat
          /\ Cardinality(Counted(u)') <= Cardinality(Counted(u)) /\ Cardinality(Counted(u)) \in Nat
      BY <1>0, <1>3, CountedMoves DEF CountsCover
    <3> QED  BY <1>0, <1>3, <3>1 DEF CountsCover
  <2> QED  BY <2>1 DEF CountsCover
<1>4. ASSUME NEW c \in Clients, MapTo(c)
      PROVE  NotifyInv'
  <2>1. mappings' \subseteq [client : Clients, status : {"active", "ended"}]
    <3>1. \A m \in mappings : [m EXCEPT !.status = "ended"] \in [client : Clients, status : {"active", "ended"}]
      BY <1>0 DEF NotifyTypeOK
    <3>2. [client |-> c, status |-> "active"] \in [client : Clients, status : {"active", "ended"}]
      OBVIOUS
    <3> QED  BY <1>4, <3>1, <3>2 DEF MapTo
  <2> QED  BY <1>0, <1>1, <1>4, <2>1 DEF MapTo, NotifyTypeOK
<1>5. ASSUME NEW c \in Clients, NEW u \in Agents, AssignClient(c, u)
      PROVE  NotifyInv'
  BY <1>0, <1>1, <1>5 DEF AssignClient, NotifyTypeOK
<1>6. ASSUME NEW u \in Agents, AssignChannel(u)
      PROVE  NotifyInv'
  BY <1>0, <1>1, <1>6 DEF AssignChannel, NotifyTypeOK
<1>7. ASSUME NEW s \in Conns, NEW u \in Users, Accept(s, u)
      PROVE  NotifyInv'
  <2> DEFINE new == [user |-> u, at |-> "accepted", open |-> TRUE, room |-> FALSE]
  <2>1. new \in Conn
    BY DEF Conn
  <2>2. conn' = [conn EXCEPT ![s] = new] /\ Unchanged /\ UNCHANGED <<count, presence, pulsed, drops>>
    BY <1>7 DEF Accept
  <2>3. /\ conn' \in [Conns -> Conn \cup {NoConn}] /\ conn'[s].at = "accepted"
        /\ \A r \in Conns \ {s} : conn'[r] = conn[r]
    BY <1>0, <2>1, <2>2
  <2>4. \A v \in Users : s \notin Counted(v)'
    BY <2>3 DEF Counted
  <2> QED  BY <1>0, <1>2, <1>3, <2>2, <2>3, <2>4 DEF NotifyInv, NotifyTypeOK
<1>8. ASSUME NEW s \in Conns, QueryAccess(s)
      PROVE  NotifyInv'
  <2>1. conn[s] \in Conn
    BY <1>0, <1>8 DEF QueryAccess, ConnAt
  <2>2. RoomFor(conn[s].user) \in BOOLEAN
    BY DEF RoomFor
  <2>3. [conn[s] EXCEPT !.at = "queried", !.room = RoomFor(conn[s].user)] \in Conn
    BY <2>1, <2>2 DEF Conn
  <2>4. conn' = [conn EXCEPT ![s].at = "queried", ![s].room = RoomFor(conn[s].user)]
        /\ Unchanged /\ UNCHANGED <<count, presence, pulsed, drops>>
    BY <1>8 DEF QueryAccess
  <2>5. /\ conn' \in [Conns -> Conn \cup {NoConn}] /\ conn'[s].at = "queried"
        /\ \A r \in Conns \ {s} : conn'[r] = conn[r]
    BY <1>0, <2>1, <2>3, <2>4 DEF Conn
  <2>6. \A v \in Users : s \notin Counted(v)'
    BY <2>5 DEF Counted
  <2> QED  BY <1>0, <1>2, <1>3, <2>4, <2>5, <2>6 DEF NotifyInv, NotifyTypeOK
<1>9. ASSUME NEW s \in Conns, JoinRooms(s)
      PROVE  NotifyInv'
  <2>1. /\ conn' \in [Conns -> Conn \cup {NoConn}] /\ conn'[s].at = "joined"
        /\ \A r \in Conns \ {s} : conn'[r] = conn[r]
    BY <1>0, <1>9, SocketMoves DEF JoinRooms, ConnAt
  <2>2. \A v \in Users : s \notin Counted(v)'
    BY <2>1 DEF Counted
  <2> QED  BY <1>0, <1>2, <1>3, <1>9, <2>1, <2>2 DEF NotifyInv, NotifyTypeOK, JoinRooms
<1>10. ASSUME NEW s \in Conns, CountSocket(s)
       PROVE  NotifyInv'
  <2> DEFINE u == conn[s].user
  <2>1. conn[s] \in Conn /\ u \in Users /\ conn[s].at = "joined" /\ conn[s] # NoConn
    BY <1>0, <1>10 DEF CountSocket, ConnAt, Conn
  <2>2. [conn[s] EXCEPT !.at = "live"] \in Conn
    BY <2>1 DEF Conn
  <2>3. /\ conn' \in [Conns -> Conn \cup {NoConn}]
        /\ \A r \in Conns \ {s} : conn'[r] = conn[r]
        /\ conn'[s] = NoConn \/ conn'[s].user = u
        /\ presence' \in [Users -> 0 .. NoEntry]
    <3>1. CASE count[u] = 0
      <4>1. Move(s, "marking") /\ presence' = [presence EXCEPT ![u] = 0]
        BY <1>10, <3>1 DEF CountSocket
      <4> QED  BY <1>0, <2>1, <4>1, SocketMoves
    <3>2. CASE count[u] # 0
      <4>1. conn' = [conn EXCEPT ![s] = Registered(s)] /\ presence' = presence
        BY <1>10, <3>2 DEF CountSocket
      <4> QED  BY <1>0, <2>1, <2>2, <4>1 DEF Registered, Conn
    <3> QED  BY <3>1, <3>2
  <2>4. /\ count' \in [Users -> Nat] /\ count'[u] = count[u] + 1
        /\ \A v \in Users \ {u} : count'[v] = count[v]
        /\ Unchanged /\ pulsed' = pulsed /\ drops' = drops
    BY <1>0, <1>10, <2>1 DEF CountSocket
  <2>5. NotifyTypeOK'
    BY <1>0, <1>2, <2>3, <2>4 DEF NotifyTypeOK
  <2>6. ASSUME NEW v \in Users
        PROVE  IsFiniteSet(Counted(v)') /\ Cardinality(Counted(v)') <= count'[v]
    <3>1. /\ IsFiniteSet(Counted(v)') /\ Cardinality(Counted(v)') \in Nat
          /\ Cardinality(Counted(v)) \in Nat /\ Cardinality(Counted(v)) <= count[v]
          /\ Cardinality(Counted(v)') <= Cardinality(Counted(v)) + 1
          /\ s \notin Counted(v)' => Cardinality(Counted(v)') <= Cardinality(Counted(v))
      BY <1>0, <2>3, CountedMoves DEF CountsCover
    <3>2. v # u => s \notin Counted(v)'
      BY <2>3 DEF Counted
    <3> QED  BY <1>0, <2>1, <2>4, <3>1, <3>2
  <2> QED  BY <2>5, <2>6 DEF NotifyInv, CountsCover
<1>11. ASSUME NEW s \in Conns, RegisterHandler(s)
       PROVE  NotifyInv'
  <2>1. conn[s] \in Conn /\ conn[s].at = "marking" /\ conn[s] # NoConn
    BY <1>0, <1>11 DEF RegisterHandler, ConnAt
  <2>2. [conn[s] EXCEPT !.at = "live"] \in Conn
    BY <2>1 DEF Conn
  <2>3. /\ conn' \in [Conns -> Conn \cup {NoConn}]
        /\ \A r \in Conns \ {s} : conn'[r] = conn[r]
        /\ conn'[s] = NoConn \/ conn'[s].user = conn[s].user
    BY <1>0, <1>11, <2>1, <2>2 DEF RegisterHandler, Registered, Conn
  <2>4. \A v \in Users : s \in Counted(v)' => s \in Counted(v)
    BY <2>1, <2>3 DEF Counted
  <2> QED  BY <1>0, <1>2, <1>3, <1>11, <2>3, <2>4 DEF NotifyInv, NotifyTypeOK, RegisterHandler
<1>12. ASSUME NEW s \in Conns, DropSocket(s)
       PROVE  NotifyInv'
  <2> DEFINE u == conn[s].user
  <2>1. conn[s] \in Conn /\ u \in Users /\ conn[s] # NoConn
    BY <1>0, <1>12 DEF DropSocket, Conn
  <2>2. drops' \in 0 .. MaxDrops /\ Unchanged /\ pulsed' = pulsed
    BY <1>0, <1>12 DEF DropSocket, NotifyTypeOK
  <2>3. CASE ConnAt(s, "live")
    <3>1. /\ conn' = [conn EXCEPT ![s] = NoConn] /\ count' = [count EXCEPT ![u] = @ - 1]
          /\ presence' = IF count[u] = 1 THEN [presence EXCEPT ![u] = NoEntry] ELSE presence
      BY <1>12, <2>3 DEF DropSocket
    <3>2. s \in Counted(u) /\ \A v \in Users : s \notin Counted(v)'
      BY <1>0, <2>1, <2>3, <3>1 DEF Counted, ConnAt
    <3>3. \A r \in Conns \ {s} : conn'[r] = conn[r]
      BY <1>0, <3>1
    <3>4. count[u] >= 1
      BY <1>0, <2>1, <3>2, <3>3, CountedMoves DEF CountsCover
    <3>5. count' \in [Users -> Nat] /\ count'[u] = count[u] - 1
          /\ \A v \in Users \ {u} : count'[v] = count[v]
      BY <1>0, <2>1, <3>1, <3>4
    <3>6. conn' \in [Conns -> Conn \cup {NoConn}] /\ presence' \in [Users -> 0 .. NoEntry]
      BY <1>0, <2>1, <3>1
    <3>7. ASSUME NEW v \in Users
          PROVE  IsFiniteSet(Counted(v)') /\ Cardinality(Counted(v)') <= count'[v]
      <4>1. /\ IsFiniteSet(Counted(v)') /\ Cardinality(Counted(v)') \in Nat
            /\ Cardinality(Counted(v)) \in Nat /\ Cardinality(Counted(v)) <= count[v]
            /\ Cardinality(Counted(v)') <= Cardinality(Counted(v))
            /\ s \in Counted(v) => Cardinality(Counted(v)') = Cardinality(Counted(v)) - 1
        BY <1>0, <3>2, <3>3, CountedMoves DEF CountsCover
      <4>2. v # u => count'[v] = count[v]
        BY <3>5
      <4> QED  BY <1>0, <2>1, <3>2, <3>5, <4>1, <4>2
    <3> QED  BY <1>2, <2>2, <3>5, <3>6, <3>7, <1>0 DEF NotifyInv, CountsCover, NotifyTypeOK
  <2>4. CASE ~ConnAt(s, "live")
    <3>1. conn' = [conn EXCEPT ![s].open = FALSE] /\ UNCHANGED <<count, presence>>
      BY <1>12, <2>4 DEF DropSocket
    <3>2. [conn[s] EXCEPT !.open = FALSE] \in Conn
      BY <2>1 DEF Conn
    <3>3. /\ conn' \in [Conns -> Conn \cup {NoConn}]
          /\ \A r \in Conns \ {s} : conn'[r] = conn[r]
          /\ conn'[s].at = conn[s].at /\ conn'[s].user = conn[s].user
      BY <1>0, <2>1, <3>1, <3>2 DEF Conn
    <3>4. \A v \in Users : s \in Counted(v)' => s \in Counted(v)
      BY <2>1, <3>3 DEF Counted
    <3> QED  BY <1>0, <1>2, <1>3, <2>2, <3>1, <3>3, <3>4 DEF NotifyInv, NotifyTypeOK
  <2> QED  BY <2>3, <2>4
<1>13. CASE RealtimeRestarts
  <2>1. /\ conn' = [s \in Conns |-> NoConn] /\ count' = [u \in Users |-> 0]
        /\ Unchanged /\ UNCHANGED <<presence, pulsed>> /\ drops' \in 0 .. MaxDrops
    BY <1>0, <1>13 DEF RealtimeRestarts, NotifyTypeOK
  <2>2. \A u \in Users : Counted(u)' = {} /\ count'[u] = 0
    BY <2>1 DEF Counted
  <2>3. IsFiniteSet({}) /\ Cardinality({}) = 0
    BY FS_EmptySet
  <2>4. NotifyTypeOK'
    BY <1>0, <1>2, <2>1 DEF NotifyTypeOK
  <2> QED  BY <2>2, <2>3, <2>4 DEF NotifyInv, CountsCover
<1>14. CASE Pulse \/ PulsePeriod
  <2>1. presence' \in [Users -> 0 .. NoEntry]
    <3>1. CASE Pulse
      BY <1>0, <3>1 DEF Pulse
    <3>2. CASE PulsePeriod
      BY <1>0, <3>2 DEF PulsePeriod
    <3> QED  BY <1>14, <3>1, <3>2
  <2>2. Unchanged /\ UNCHANGED <<conn, count, drops>> /\ pulsed' \in BOOLEAN
    BY <1>14 DEF Pulse, PulsePeriod
  <2>3. NotifyTypeOK'
    BY <1>0, <1>2, <2>1, <2>2 DEF NotifyTypeOK
  <2> QED  BY <1>0, <2>2, <2>3 DEF NotifyInv, CountsCover, Counted
<1>15. CASE Relay
  BY <1>0, <1>1, <1>15 DEF Relay, NotifyTypeOK
<1>16. CASE Address
  <2>1. usersWithChannelAccess \subseteq Users
    BY <1>0 DEF usersWithChannelAccess, ViaClient, Users, NotifyTypeOK
  <2> QED  BY <1>0, <1>1, <1>16, <2>1 DEF Address, NotifyTypeOK
<1>17. CASE PushOffline
  BY <1>0, <1>1, <1>17 DEF PushOffline, NotifyTypeOK
<1> QED  BY <1>4, <1>5, <1>6, <1>7, <1>8, <1>9, <1>10, <1>11, <1>12, <1>13, <1>14, <1>15, <1>16,
            <1>17 DEF NotifyNext

LEMMA NotifyKeeps == NotifyInv /\ [NotifyNext]_notifyVars => NotifyInv'
<1> SUFFICES ASSUME NotifyInv, UNCHANGED notifyVars PROVE NotifyInv'
  BY NotifyStep
<1> QED  BY DEF notifyVars, NotifyInv, NotifyTypeOK, CountsCover, Counted

\* No disconnect, however late, takes a user's count of sockets below what is left of them.
THEOREM CountsHold == NotifySpec => []NotifyInv
  BY NotifyInitHolds, NotifyKeeps, PTL DEF NotifySpec

LEMMA CopiesAgree == NotifyTypeOK => CopiesMirrorAccess
<1> SUFFICES ASSUME NotifyTypeOK, NEW u \in Users
             PROVE  (u \in usersWithChannelAccess <=> MayAccess(u)) /\ (RoomFor(u) <=> MayAccess(u))
  BY DEF CopiesMirrorAccess
<1>1. u \in ViaClient <=> \E c \in ActiveClients : <<c, u>> \in clientGrants
  <2>1. ASSUME u \in ViaClient
        PROVE  \E c \in ActiveClients : <<c, u>> \in clientGrants
    <3>1. PICK g \in clientGrants : g[1] \in ActiveClients /\ u = g[2]
      BY <2>1 DEF ViaClient
    <3>2. g = <<g[1], g[2]>>
      BY <3>1 DEF NotifyTypeOK
    <3> QED  BY <3>1, <3>2
  <2>2. ASSUME NEW c \in ActiveClients, <<c, u>> \in clientGrants
        PROVE  u \in ViaClient
    BY <2>2 DEF ViaClient
  <2> QED  BY <2>1, <2>2
<1> QED  BY <1>1 DEF usersWithChannelAccess, MayAccess, RoomFor

-----------------------------------------------------------------------------
(* Channels and their mappings.                                            *)

MappingRow == [mode : {"client", "unmapped"}, status : {"active", "ended"}]

\* Only actions and refreshes ask the gateway for the chat.  Whoever is about to commit a mapping has the lock and ends what is active; what the
\* gateway answers from is not forgotten without the call.
Asking == {"modify", "confirm", "ask", "answer", "write"}
OpsThatAsk == DOMAIN Actions \cup {"mark_unread", "refresh"}

CallsFit ==
  \A c \in RegCalls :
    /\ regCall[c].at \in Asking => regCall[c].op \in OpsThatAsk
    /\ CallIs(c, "commit") => /\ mapLock = c
                              /\ Active \subseteq {regCall[c].ended}
                              /\ Len(mapHistory) < MaxMappings
    /\ CallIs(c, "answer") /\ regCall[c].held => meta # NoMeta

MappedOnce == mapHistory # <<>> => \E i \in DOMAIN mapHistory : Active = {i}

RegInv == RegTypeOK /\ Len(mapHistory) <= MaxMappings /\ CallsFit /\ MappedOnce

Stages == {"modify", "confirm", "ask", "answer", "write", "list", "reconcile",
           "end", "blocked", "insert", "commit"}

LEMMA CallMoves ==
  ASSUME regCall \in [RegCalls -> RegCall \cup {Idling}], NEW c \in RegCalls,
         regCall[c].at # "idle", NEW s \in Stages, To(c, s)
  PROVE  /\ regCall' \in [RegCalls -> RegCall \cup {Idling}]
         /\ regCall'[c].at = s /\ regCall'[c].ended = regCall[c].ended
         /\ regCall'[c].op = regCall[c].op
         /\ \A d \in RegCalls \ {c} : regCall'[d] = regCall[d]
<1>1. regCall[c] \in RegCall
  BY DEF Idling
<1>2. [regCall[c] EXCEPT !.at = s] \in RegCall
  BY <1>1 DEF RegCall, Stages
<1> QED  BY <1>1, <1>2 DEF To, RegCall

LEMMA CallEnds ==
  ASSUME regCall \in [RegCalls -> RegCall \cup {Idling}], NEW c \in RegCalls, Finish(c)
  PROVE  /\ regCall' \in [RegCalls -> RegCall \cup {Idling}]
         /\ regCall'[c].at = "idle"
         /\ \A d \in RegCalls \ {c} : regCall'[d] = regCall[d]
  BY DEF Finish, Idling

LEMMA ActiveRowExists ==
  ASSUME RegInv
  PROVE  /\ ActiveRow \in 0 .. Len(mapHistory) /\ ActiveRow \in 0 .. MaxMappings
         /\ Active \subseteq {ActiveRow} /\ Active \subseteq 1 .. Len(mapHistory)
<1>1. Active \subseteq 1 .. Len(mapHistory) /\ Len(mapHistory) \in Nat /\ MaxMappings \in Nat
      /\ Len(mapHistory) <= MaxMappings /\ DOMAIN mapHistory = 1 .. Len(mapHistory)
  BY LenProperties, RegAssumption DEF RegInv, RegTypeOK, Active
<1>2. CASE Active = {}
  BY <1>1, <1>2 DEF ActiveRow
<1>3. CASE Active # {}
  <2>1. mapHistory # <<>>
    <3>1. Len(<<>>) = 0
      BY EmptySeq
    <3>2. 1 .. Len(mapHistory) # {}
      BY <1>1, <1>3
    <3> QED  BY <3>1, <3>2
  <2>2. PICK i \in 1 .. Len(mapHistory) : Active = {i}
    BY <1>1, <2>1 DEF RegInv, MappedOnce
  <2>3. ActiveRow = i
    BY <2>2 DEF ActiveRow
  <2> QED  BY <1>1, <2>2, <2>3
<1> QED  BY <1>2, <1>3

LEMMA RegInitHolds == RegInit => RegInv
<1> SUFFICES ASSUME RegInit PROVE RegInv
  OBVIOUS
<1>0. MaxMappings \in Nat /\ MaxTouches \in Nat /\ MaxRegFaults \in Nat
  BY RegAssumption
<1>1. mapHistory = <<>> /\ Len(mapHistory) = 0 /\ mapHistory \in Seq(MappingRow)
  BY DEF RegInit
<1>2. /\ isGroup \in BOOLEAN /\ unread \in BOOLEAN /\ whatsApp \in ChatState
      /\ meta \in ChatState \cup {NoMeta} /\ channel \in Row
  BY DEF RegInit, Blank, ChatState, Row, ChannelStatus
<1>3. echoes \in Seq([field : {"pinned", "archived"}, to : BOOLEAN])
  BY DEF RegInit
<1>4. /\ mapLock \in RegCalls \cup {NoCall}
      /\ regCall \in [RegCalls -> RegCall \cup {Idling}]
      /\ \A c \in RegCalls : regCall[c].at = "idle"
  BY DEF RegInit, Idling
<1>5. touches \in 0 .. MaxTouches /\ regFaults \in 0 .. MaxRegFaults
  BY <1>0 DEF RegInit
<1>6. RegTypeOK
  BY <1>1, <1>2, <1>3, <1>4, <1>5 DEF RegTypeOK, MappingRow
<1>7. CallsFit /\ MappedOnce
  BY <1>1, <1>4 DEF CallsFit, MappedOnce, CallIs, Asking
<1> QED  BY <1>0, <1>1, <1>6, <1>7 DEF RegInv

LEMMA ActionsSet ==
  /\ DOMAIN Actions = {"pin", "unpin", "archive", "unarchive"}
  /\ \A a \in DOMAIN Actions :
       Actions[a] \in [field : {"pinned", "archived"}, to : BOOLEAN]
<1>1. DOMAIN Actions = {"pin", "unpin", "archive", "unarchive"}
  BY DEF Actions
<1>2. /\ Actions["pin"] = [field |-> "pinned", to |-> TRUE]
      /\ Actions["unpin"] = [field |-> "pinned", to |-> FALSE]
      /\ Actions["archive"] = [field |-> "archived", to |-> TRUE]
      /\ Actions["unarchive"] = [field |-> "archived", to |-> FALSE]
  BY DEF Actions
<1> DEFINE Change == [field : {"pinned", "archived"}, to : BOOLEAN]
<1>3. Actions["pin"] \in Change /\ Actions["unpin"] \in Change
  BY <1>2
<1>4. Actions["archive"] \in Change /\ Actions["unarchive"] \in Change
  BY <1>2
<1> QED  BY <1>1, <1>3, <1>4, Zenon

\* What a phone or an action changes at WhatsApp.
LEMMA TouchTypes ==
  ASSUME RegTypeOK, NEW a \in DOMAIN Actions, Touch(Actions[a].field, Actions[a].to)
  PROVE  /\ whatsApp' \in ChatState /\ touches' \in 0 .. MaxTouches
         /\ echoes' \in Seq([field : {"pinned", "archived"}, to : BOOLEAN])
<1>1. Actions[a].field \in {"pinned", "archived"} /\ Actions[a].to \in BOOLEAN
  BY ActionsSet
<1>2. whatsApp' \in ChatState
  BY <1>1 DEF Touch, RegTypeOK, ChatState
<1>3. touches' \in 0 .. MaxTouches
  BY RegAssumption DEF Touch, RegTypeOK
<1>4. [field |-> Actions[a].field, to |-> Actions[a].to]
        \in [field : {"pinned", "archived"}, to : BOOLEAN]
  BY <1>1
<1> QED  BY <1>2, <1>3, <1>4, AppendProperties DEF Touch, RegTypeOK

LEMMA UpsertedTypes ==
  ASSUME NEW e \in [field : {"pinned", "archived"}, to : BOOLEAN],
         NEW entry \in ChatState \cup {NoMeta}
  PROVE  Upserted(entry, e) \in ChatState
<1>1. (IF entry = NoMeta THEN Blank ELSE entry) \in ChatState
  BY DEF Blank, ChatState
<1> QED  BY <1>1 DEF Upserted, ChatState

\* A step of one call that does not take it to the commit.
LEMMA MovesKeepFit ==
  ASSUME CallsFit, NEW c \in RegCalls,
         \A d \in RegCalls \ {c} : regCall'[d] = regCall[d],
         mapHistory' = mapHistory,
         mapLock \in {NoCall, c} \/ mapLock' = mapLock,
         meta # NoMeta => meta' # NoMeta,
         regCall'[c].at # "commit",
         regCall'[c].at \in Asking => regCall'[c].op \in OpsThatAsk,
         regCall'[c].at = "answer" /\ regCall'[c].held => meta' # NoMeta
  PROVE  CallsFit'
<1>1. Active' = Active
  BY DEF Active
<1>2. ASSUME NEW d \in RegCalls, d # c, regCall[d].at = "commit"
      PROVE  mapLock' = d
  BY <1>2, RegAssumption DEF CallsFit, CallIs
<1> QED  BY <1>1, <1>2 DEF CallsFit, CallIs

\* The history and who is active stay.
LEMMA HistoryStays ==
  ASSUME RegInv, UNCHANGED mapHistory
  PROVE  MappedOnce' /\ Len(mapHistory') <= MaxMappings
         /\ mapHistory' \in Seq(MappingRow)
  BY DEF RegInv, RegTypeOK, MappedOnce, Active, MappingRow

\* Types are proved by what a step changes.
LEMMA TypesByParts ==
  ASSUME RegTypeOK,
         isGroup' = isGroup, unread' \in BOOLEAN, whatsApp' \in ChatState,
         echoes' \in Seq([field : {"pinned", "archived"}, to : BOOLEAN]),
         meta' \in ChatState \cup {NoMeta}, channel' \in Row,
         mapHistory' \in Seq(MappingRow), mapLock' \in RegCalls \cup {NoCall},
         regCall' \in [RegCalls -> RegCall \cup {Idling}],
         touches' \in 0 .. MaxTouches, regFaults' \in 0 .. MaxRegFaults
  PROVE  RegTypeOK'
  BY DEF RegTypeOK, MappingRow

\* Steps of the gateway and of WhatsApp.
LEMMA GatewaySteps ==
  ASSUME RegInv, TouchPhone \/ ReceiveEcho \/ GatewayForgets \/ updateReadState
  PROVE  RegInv'
<1>0. RegTypeOK /\ CallsFit
  BY DEF RegInv
<1>1. CASE TouchPhone
  <2>1. PICK a \in DOMAIN Actions : Touch(Actions[a].field, Actions[a].to)
    BY <1>1 DEF TouchPhone
  <2>2. /\ whatsApp' \in ChatState /\ touches' \in 0 .. MaxTouches
        /\ echoes' \in Seq([field : {"pinned", "archived"}, to : BOOLEAN])
    BY <1>0, <2>1, TouchTypes
  <2>3. UNCHANGED <<isGroup, meta, channel, unread, mapHistory, mapLock, regCall, regFaults>>
    BY <1>1 DEF TouchPhone
  <2>4. RegTypeOK'
    BY <1>0, <2>2, <2>3 DEF RegTypeOK
  <2> QED  BY <1>0, <2>3, <2>4, HistoryStays DEF RegInv, CallsFit, CallIs, Active
<1>2. CASE ReceiveEcho
  <2>1. /\ echoes' \in Seq([field : {"pinned", "archived"}, to : BOOLEAN])
        /\ Head(echoes) \in [field : {"pinned", "archived"}, to : BOOLEAN]
        /\ meta' = Upserted(meta, Head(echoes))
        /\ UNCHANGED <<isGroup, whatsApp, channel, unread, mapHistory, mapLock, regCall, touches,
                       regFaults>>
    BY <1>0, <1>2, HeadTailProperties DEF RegTypeOK, ReceiveEcho
  <2>2. meta' \in ChatState
    BY <1>0, <2>1, UpsertedTypes DEF RegTypeOK
  <2>3. RegTypeOK'
    BY <1>0, <2>1, <2>2 DEF RegTypeOK
  <2> QED  BY <1>0, <2>1, <2>2, <2>3, HistoryStays, NoMetaAssumption DEF RegInv, CallsFit, CallIs, Active
<1>3. CASE GatewayForgets
  <2>1. /\ meta' \in ChatState \cup {NoMeta}
        /\ UNCHANGED <<isGroup, whatsApp, echoes, channel, unread, mapHistory, mapLock, touches>>
        /\ regFaults' \in 0 .. MaxRegFaults
    <3>1. Blank \in ChatState
      BY DEF Blank, ChatState
    <3>2. regFaults' \in 0 .. MaxRegFaults
      BY <1>0, <1>3, RegAssumption DEF GatewayForgets, RegFault, RegTypeOK
    <3> QED  BY <1>3, <3>1, <3>2 DEF GatewayForgets
  <2>2. /\ regCall' \in [RegCalls -> RegCall \cup {Idling}]
        /\ \A c \in RegCalls :
             \/ regCall'[c] = regCall[c] /\ regCall[c].at # "answer"
             \/ regCall'[c].at = "idle"
    BY <1>0, <1>3 DEF GatewayForgets, RegTypeOK, InGateway, Idling
  <2>3. RegTypeOK'
    BY <1>0, <2>1, <2>2 DEF RegTypeOK
  <2> QED  BY <1>0, <2>1, <2>2, <2>3, HistoryStays DEF RegInv, CallsFit, CallIs, Active, Asking
<1>4. CASE updateReadState
  <2>1. RegTypeOK'
    BY <1>0, <1>4 DEF RegTypeOK, updateReadState
  <2> QED  BY <1>0, <1>4, <2>1, HistoryStays DEF RegInv, CallsFit, CallIs, Active, updateReadState
<1> QED  BY <1>1, <1>2, <1>3, <1>4

\* Steps of a call before and after its transaction.
LEMMA CallSteps ==
  ASSUME RegInv, NEW c \in RegCalls,
         \/ \E op \in Ops : StartCall(c, op)
         \/ Modify(c) \/ Confirm(c) \/ Ask(c) \/ Answer(c) \/ WriteAction(c) \/ WriteRefresh(c)
         \/ ListChats(c) \/ ReconcileChats(c) \/ GatewayErrs(c)
  PROVE  RegInv'
<1>0. /\ RegTypeOK /\ CallsFit
      /\ regCall \in [RegCalls -> RegCall \cup {Idling}]
      /\ regCall[c].at # "idle" => regCall[c] \in RegCall
  BY DEF RegInv, RegTypeOK, Idling
<1>1. ASSUME regCall' \in [RegCalls -> RegCall \cup {Idling}],
             \A d \in RegCalls \ {c} : regCall'[d] = regCall[d],
             regCall'[c].at # "commit",
             regCall'[c].at \in Asking => regCall'[c].op \in OpsThatAsk,
             regCall'[c].at = "answer" /\ regCall'[c].held => meta' # NoMeta,
             UNCHANGED <<isGroup, mapHistory, mapLock>>,
             unread' \in BOOLEAN, whatsApp' \in ChatState,
             echoes' \in Seq([field : {"pinned", "archived"}, to : BOOLEAN]),
             meta' \in ChatState \/ meta' = meta, channel' \in Row,
             touches' \in 0 .. MaxTouches, regFaults' \in 0 .. MaxRegFaults
      PROVE  RegInv'
  <2>1. meta # NoMeta => meta' # NoMeta
    BY <1>1, NoMetaAssumption
  <2>2. CallsFit'
    BY <1>0, <1>1, <2>1, MovesKeepFit
  <2>3. RegTypeOK'
    <3>1. mapLock' \in RegCalls \cup {NoCall} /\ meta' \in ChatState \cup {NoMeta}
      BY <1>0, <1>1 DEF RegTypeOK
    <3> QED  BY <1>0, <1>1, <3>1, HistoryStays, TypesByParts
  <2> QED  BY <1>1, <2>2, <2>3, HistoryStays DEF RegInv
<1>2. CASE \E op \in Ops : StartCall(c, op)
  <2>1. PICK op \in Ops : StartCall(c, op)
    BY <1>2
  <2> DEFINE new == [at |-> StageOf(op), op |-> op, row |-> channel, mapped |-> Mapped,
                     held |-> FALSE, got |-> Blank, ended |-> 0]
  <2>2. StageOf(op) \in {"modify", "ask", "list", "end"}
    BY ActionsSet DEF Ops, StageOf
  <2>3. new \in RegCall
    BY <1>0, <2>2, RegAssumption DEF RegCall, RegTypeOK, Blank, ChatState, Mapped
  <2>4. regCall' = [regCall EXCEPT ![c] = new]
        /\ UNCHANGED <<isGroup, whatsApp, echoes, meta, channel, unread, mapHistory, mapLock,
                       touches, regFaults>>
    BY <2>1 DEF StartCall
  <2>5. /\ regCall' \in [RegCalls -> RegCall \cup {Idling}]
        /\ \A d \in RegCalls \ {c} : regCall'[d] = regCall[d]
        /\ regCall'[c].at = StageOf(op) /\ regCall'[c].op = op
    BY <1>0, <2>2, <2>3, <2>4
  <2>6. StageOf(op) \in Asking => op \in OpsThatAsk
    BY ActionsSet DEF Ops, StageOf, Asking, OpsThatAsk
  <2> QED  BY <1>0, <1>1, <2>2, <2>4, <2>5, <2>6 DEF RegTypeOK
<1>3. CASE Modify(c)
  <2>1. regCall[c] \in RegCall
    BY <1>0, <1>3 DEF Modify, CallIs
  <2>2. [regCall[c] EXCEPT !.at = "confirm", !.held = (meta # NoMeta)] \in RegCall
    BY <2>1 DEF RegCall
  <2>3. /\ regCall' \in [RegCalls -> RegCall \cup {Idling}]
        /\ \A d \in RegCalls \ {c} : regCall'[d] = regCall[d]
        /\ regCall'[c].at = "confirm" /\ regCall'[c].op = regCall[c].op
        /\ UNCHANGED <<isGroup, meta, channel, unread, mapHistory, mapLock, regFaults>>
    BY <1>0, <1>3, <2>1, <2>2 DEF Modify, RegCall
  <2>4. /\ whatsApp' \in ChatState /\ touches' \in 0 .. MaxTouches
        /\ echoes' \in Seq([field : {"pinned", "archived"}, to : BOOLEAN])
    <3>1. CASE regCall[c].op \in DOMAIN Actions
      BY <1>0, <1>3, <3>1, TouchTypes DEF Modify
    <3>2. CASE regCall[c].op \notin DOMAIN Actions
      BY <1>0, <1>3, <3>2 DEF Modify, RegTypeOK
    <3> QED  BY <3>1, <3>2
  <2> QED  BY <1>0, <1>1, <1>3, <2>3, <2>4 DEF RegTypeOK, CallsFit, Asking, Modify, CallIs
<1>4. CASE Confirm(c)
  <2>1. /\ regCall' \in [RegCalls -> RegCall \cup {Idling}]
        /\ \A d \in RegCalls \ {c} : regCall'[d] = regCall[d]
        /\ regCall'[c].at = "ask" /\ regCall'[c].op = regCall[c].op
    BY <1>0, <1>4, CallMoves DEF Confirm, CallIs, Stages
  <2>2. meta' \in ChatState \/ meta' = meta
    <3>1. CASE regCall[c].op \in DOMAIN Actions /\ regCall[c].held
      <4>1. meta' = Upserted(meta, Actions[regCall[c].op])
        BY <1>4, <3>1 DEF Confirm
      <4> QED  BY <1>0, <3>1, <4>1, ActionsSet, UpsertedTypes DEF RegTypeOK
    <3>2. CASE ~(regCall[c].op \in DOMAIN Actions /\ regCall[c].held)
      BY <1>4, <3>2 DEF Confirm
    <3> QED  BY <3>1, <3>2
  <2> QED  BY <1>0, <1>1, <1>4, <2>1, <2>2 DEF RegTypeOK, Confirm, CallsFit, Asking, CallIs
<1>5. CASE Ask(c)
  <2>1. regCall[c] \in RegCall
    BY <1>0, <1>5 DEF Ask, CallIs
  <2>2. [regCall[c] EXCEPT !.at = "answer", !.held = (meta # NoMeta)] \in RegCall
    BY <2>1 DEF RegCall
  <2>3. /\ regCall' \in [RegCalls -> RegCall \cup {Idling}]
        /\ \A d \in RegCalls \ {c} : regCall'[d] = regCall[d]
        /\ regCall'[c].at = "answer" /\ (regCall'[c].held => meta # NoMeta)
        /\ regCall'[c].op = regCall[c].op
        /\ UNCHANGED <<isGroup, whatsApp, echoes, meta, channel, unread, mapHistory, mapLock,
                       touches, regFaults>>
    BY <1>0, <1>5, <2>1, <2>2 DEF Ask, RegCall
  <2> QED  BY <1>0, <1>1, <1>5, <2>3 DEF RegTypeOK, CallsFit, Asking, Ask, CallIs
<1>6. CASE Answer(c)
  <2>1. regCall[c] \in RegCall
    BY <1>0, <1>6 DEF Answer, CallIs
  <2> DEFINE answer == IF regCall[c].held THEN meta ELSE Blank
  <2>2. answer \in ChatState
    <3>1. regCall[c].held => meta \in ChatState
      BY <1>0, <1>6 DEF Answer, CallsFit, RegTypeOK
    <3>2. Blank \in ChatState
      BY DEF Blank, ChatState
    <3> QED  BY <3>1, <3>2
  <2>3. regCall' = [regCall EXCEPT ![c].at = "write", ![c].got = answer]
        /\ UNCHANGED <<isGroup, whatsApp, echoes, meta, channel, unread, mapHistory, mapLock,
                       touches, regFaults>>
    BY <1>6 DEF Answer
  <2> HIDE DEF answer
  <2>4. [regCall[c] EXCEPT !.at = "write", !.got = answer] \in RegCall
    BY <2>1, <2>2 DEF RegCall
  <2>5. /\ regCall' \in [RegCalls -> RegCall \cup {Idling}]
        /\ \A d \in RegCalls \ {c} : regCall'[d] = regCall[d]
        /\ regCall'[c].at = "write" /\ regCall'[c].op = regCall[c].op
    BY <1>0, <2>1, <2>3, <2>4 DEF RegCall
  <2> QED  BY <1>0, <1>1, <1>6, <2>3, <2>5 DEF RegTypeOK, CallsFit, Asking, Answer, CallIs
<1>7. CASE WriteAction(c)
  <2>1. /\ regCall' \in [RegCalls -> RegCall \cup {Idling}]
        /\ \A d \in RegCalls \ {c} : regCall'[d] = regCall[d]
        /\ regCall'[c].at = "idle"
        /\ UNCHANGED <<isGroup, whatsApp, echoes, meta, mapHistory, mapLock, touches, regFaults>>
    BY <1>0, <1>7, CallEnds DEF WriteAction
  <2>2. regCall[c] \in RegCall /\ regCall[c].got \in ChatState
        /\ regCall[c].op \in OpsThatAsk \ {"refresh"}
    BY <1>0, <1>7 DEF WriteAction, CallIs, RegCall, CallsFit, Asking
  <2>3. channel' \in Row /\ unread' \in BOOLEAN
    <3>1. CASE regCall[c].op \in {"pin", "unpin"}
      <4>1. channel' = [channel EXCEPT !.pinned = regCall[c].got.pinned] /\ unread' = unread
        BY <1>7, <3>1 DEF WriteAction
      <4> QED  BY <1>0, <2>2, <4>1 DEF RegTypeOK, Row, ChatState
    <3>2. CASE regCall[c].op \in {"archive", "unarchive"}
      <4>1. channel' = [channel EXCEPT !.status =
              IF regCall[c].got.archived THEN "archived" ELSE Unarchived(regCall[c].mapped)]
            /\ unread' = unread
        BY <1>7, <3>2 DEF WriteAction
      <4> QED  BY <1>0, <4>1 DEF RegTypeOK, Row, ChannelStatus, Unarchived
    <3>3. CASE regCall[c].op = "mark_unread"
      BY <1>0, <1>7, <3>3 DEF WriteAction, RegTypeOK
    <3>4. regCall[c].op \in {"pin", "unpin", "archive", "unarchive", "mark_unread"}
      BY <2>2, ActionsSet DEF OpsThatAsk
    <3> QED  BY <3>1, <3>2, <3>3, <3>4
  <2> QED  BY <1>0, <1>1, <2>1, <2>3 DEF RegTypeOK, Asking
<1>8. CASE WriteRefresh(c)
  <2>1. /\ regCall' \in [RegCalls -> RegCall \cup {Idling}]
        /\ \A d \in RegCalls \ {c} : regCall'[d] = regCall[d]
        /\ regCall'[c].at = "idle"
        /\ UNCHANGED <<isGroup, whatsApp, echoes, meta, unread, mapHistory, mapLock, touches,
                       regFaults>>
    BY <1>0, <1>8, CallEnds DEF WriteRefresh
  <2>2. regCall[c].got \in ChatState /\ regCall[c].row \in Row
    BY <1>0, <1>8 DEF WriteRefresh, CallIs, RegCall
  <2>3. channel' \in Row
    BY <1>0, <1>8, <2>2 DEF WriteRefresh, Unarchived, Row, ChannelStatus, ChatState, RegTypeOK
  <2> QED  BY <1>0, <1>1, <2>1, <2>3 DEF RegTypeOK, Asking
<1>9. CASE ListChats(c)
  <2>1. regCall[c] \in RegCall
    BY <1>0, <1>9 DEF ListChats, CallIs
  <2>2. [regCall[c] EXCEPT !.at = "reconcile", !.held = (meta # NoMeta)] \in RegCall
    BY <2>1 DEF RegCall
  <2>3. /\ regCall' \in [RegCalls -> RegCall \cup {Idling}]
        /\ \A d \in RegCalls \ {c} : regCall'[d] = regCall[d]
        /\ regCall'[c].at = "reconcile"
        /\ UNCHANGED <<isGroup, whatsApp, echoes, meta, channel, unread, mapHistory, mapLock,
                       touches, regFaults>>
    BY <1>0, <1>9, <2>1, <2>2 DEF ListChats, RegCall
  <2> QED  BY <1>0, <1>1, <2>3 DEF RegTypeOK, Asking
<1>10. CASE ReconcileChats(c)
  <2>1. /\ regCall' \in [RegCalls -> RegCall \cup {Idling}]
        /\ \A d \in RegCalls \ {c} : regCall'[d] = regCall[d]
        /\ regCall'[c].at = "idle"
        /\ UNCHANGED <<isGroup, whatsApp, echoes, meta, unread, mapHistory, mapLock, touches,
                       regFaults>>
    BY <1>0, <1>10, CallEnds DEF ReconcileChats
  <2>2. channel' \in Row
    BY <1>0, <1>10 DEF ReconcileChats, Row, ChannelStatus, RegTypeOK
  <2> QED  BY <1>0, <1>1, <2>1, <2>2 DEF RegTypeOK, Asking
<1>11. CASE GatewayErrs(c)
  <2>1. /\ regCall' \in [RegCalls -> RegCall \cup {Idling}]
        /\ \A d \in RegCalls \ {c} : regCall'[d] = regCall[d]
        /\ regCall'[c].at = "idle"
        /\ UNCHANGED <<isGroup, whatsApp, echoes, meta, channel, unread, mapHistory, mapLock,
                       touches>>
    BY <1>0, <1>11, CallEnds DEF GatewayErrs
  <2>2. regFaults' \in 0 .. MaxRegFaults
    BY <1>0, <1>11, RegAssumption DEF GatewayErrs, RegFault, RegTypeOK
  <2> QED  BY <1>0, <1>1, <2>1, <2>2 DEF RegTypeOK, Asking
<1> QED  BY <1>2, <1>3, <1>4, <1>5, <1>6, <1>7, <1>8, <1>9, <1>10, <1>11

-----------------------------------------------------------------------------
\* The transaction of a mapping call.
LEMMA MappingSteps ==
  ASSUME RegInv, NEW c \in RegCalls,
         EndMapping(c) \/ Unblock(c) \/ InsertMapping(c) \/ CommitMapping(c) \/ RollBack(c)
  PROVE  RegInv'
<1>0. /\ RegTypeOK /\ CallsFit
      /\ regCall \in [RegCalls -> RegCall \cup {Idling}]
      /\ regCall[c].at # "idle" => regCall[c] \in RegCall
      /\ mapLock \in RegCalls \cup {NoCall} /\ NoCall \notin RegCalls
      /\ Len(mapHistory) \in Nat /\ Len(mapHistory) <= MaxMappings /\ MaxMappings \in Nat
      /\ mapHistory \in Seq(MappingRow) /\ DOMAIN mapHistory = 1 .. Len(mapHistory)
  BY RegAssumption, LenProperties DEF RegInv, RegTypeOK, Idling, MappingRow
<1>1. ASSUME regCall' \in [RegCalls -> RegCall \cup {Idling}],
             \A d \in RegCalls \ {c} : regCall'[d] = regCall[d],
             regCall'[c].at \notin Asking \cup {"commit"},
             mapLock' \in RegCalls \cup {NoCall},
             mapLock \in {NoCall, c} \/ mapLock' = mapLock,
             regFaults' \in 0 .. MaxRegFaults,
             UNCHANGED <<isGroup, whatsApp, echoes, meta, channel, unread, mapHistory, touches>>
      PROVE  RegInv'
  <2>1. CallsFit'
    BY <1>0, <1>1, MovesKeepFit DEF Asking
  <2>2. RegTypeOK'
    BY <1>0, <1>1 DEF RegTypeOK
  <2> QED  BY <1>1, <2>1, <2>2, HistoryStays DEF RegInv
<1>2. CASE EndMapping(c)
  <2>1. PICK s \in {"insert", "blocked"} :
             regCall' = [regCall EXCEPT ![c].at = s, ![c].ended = ActiveRow]
    BY <1>2 DEF EndMapping
  <2>2. ActiveRow \in 0 .. MaxMappings
    BY ActiveRowExists
  <2>3. regCall[c] \in RegCall
    BY <1>0, <1>2 DEF EndMapping, CallIs
  <2>4. [regCall[c] EXCEPT !.at = s, !.ended = ActiveRow] \in RegCall
    BY <2>2, <2>3 DEF RegCall
  <2>5. /\ regCall' \in [RegCalls -> RegCall \cup {Idling}]
        /\ \A d \in RegCalls \ {c} : regCall'[d] = regCall[d]
        /\ regCall'[c].at \in {"insert", "blocked"}
    BY <1>0, <2>1, <2>3, <2>4 DEF RegCall
  <2>6. /\ mapLock' \in RegCalls \cup {NoCall}
        /\ mapLock \in {NoCall, c} \/ mapLock' = mapLock
        /\ UNCHANGED <<isGroup, whatsApp, echoes, meta, channel, unread, mapHistory, touches,
                       regFaults>>
    BY <1>0, <1>2 DEF EndMapping
  <2> QED  BY <1>0, <1>1, <2>5, <2>6 DEF RegTypeOK, Asking
<1>3. CASE Unblock(c)
  <2> DEFINE e == IF regCall[c].ended \in Active THEN regCall[c].ended ELSE 0
  <2>1. regCall[c] \in RegCall
    BY <1>0, <1>3 DEF Unblock, CallIs
  <2>2. e \in 0 .. MaxMappings
    BY <1>0, <2>1 DEF RegCall
  <2>3. regCall' = [regCall EXCEPT ![c].at = "insert", ![c].ended = e]
    BY <1>3 DEF Unblock
  <2> HIDE DEF e
  <2>4. [regCall[c] EXCEPT !.at = "insert", !.ended = e] \in RegCall
    BY <2>1, <2>2 DEF RegCall
  <2>5. /\ regCall' \in [RegCalls -> RegCall \cup {Idling}]
        /\ \A d \in RegCalls \ {c} : regCall'[d] = regCall[d]
        /\ regCall'[c].at = "insert"
    BY <1>0, <2>1, <2>3, <2>4 DEF RegCall
  <2>6. /\ mapLock' \in RegCalls \cup {NoCall} /\ mapLock = NoCall
        /\ UNCHANGED <<isGroup, whatsApp, echoes, meta, channel, unread, mapHistory, touches,
                       regFaults>>
    BY <1>0, <1>3 DEF Unblock
  <2> QED  BY <1>0, <1>1, <2>5, <2>6 DEF RegTypeOK, Asking
<1>4. CASE InsertMapping(c)
  <2>1. /\ mapLock \in {NoCall, c} /\ Len(mapHistory) < MaxMappings
        /\ UNCHANGED <<isGroup, whatsApp, echoes, meta, channel, unread, mapHistory, touches,
                       regFaults>>
    BY <1>4 DEF InsertMapping
  <2>2. CASE Duplicates(c)
    <3>1. Finish(c) /\ mapLock' = NoCall
      BY <1>4, <2>2 DEF InsertMapping
    <3>2. /\ regCall' \in [RegCalls -> RegCall \cup {Idling}]
          /\ \A d \in RegCalls \ {c} : regCall'[d] = regCall[d]
          /\ regCall'[c].at = "idle"
      BY <1>0, <3>1, CallEnds
    <3> QED  BY <1>0, <1>1, <2>1, <3>1, <3>2 DEF RegTypeOK, Asking
  <2>3. CASE ~Duplicates(c)
    <3>1. To(c, "commit") /\ mapLock' = c /\ Active \subseteq {regCall[c].ended}
      BY <1>4, <2>3 DEF InsertMapping, Duplicates
    <3>2. /\ regCall' \in [RegCalls -> RegCall \cup {Idling}]
          /\ \A d \in RegCalls \ {c} : regCall'[d] = regCall[d]
          /\ regCall'[c].at = "commit" /\ regCall'[c].ended = regCall[c].ended
      BY <1>0, <1>4, <3>1, CallMoves DEF InsertMapping, CallIs, Stages
    <3>3. RegTypeOK'
      BY <1>0, <2>1, <3>1, <3>2 DEF RegTypeOK
    <3>4. \A d \in RegCalls \ {c} : ~CallIs(d, "commit")
      BY <1>0, <2>1 DEF CallsFit
    <3>5. CallsFit'
      <4>1. Active' = Active
        BY <2>1 DEF Active
      <4> QED  BY <1>0, <2>1, <3>1, <3>2, <3>4, <4>1 DEF CallsFit, CallIs, Asking
    <3> QED  BY <2>1, <3>3, <3>5, HistoryStays DEF RegInv
  <2> QED  BY <2>2, <2>3
<1>5. CASE CommitMapping(c)
  <2> DEFINE mode == IF regCall[c].op = "map" THEN "client" ELSE "unmapped"
             ended == [i \in DOMAIN mapHistory |->
                         IF i = regCall[c].ended THEN [mapHistory[i] EXCEPT !.status = "ended"]
                                                 ELSE mapHistory[i]]
  <2>1. /\ CallIs(c, "commit")
        /\ mapHistory' = Append(ended, [mode |-> mode, status |-> "active"])
        /\ channel' = [channel EXCEPT !.status = IF mode = "unmapped" THEN "unmapped" ELSE "active"]
        /\ mapLock' = NoCall /\ Finish(c)
        /\ UNCHANGED <<isGroup, whatsApp, echoes, meta, unread, touches, regFaults>>
    BY <1>5 DEF CommitMapping
  <2>2. /\ mapLock = c /\ Active \subseteq {regCall[c].ended}
        /\ Len(mapHistory) < MaxMappings
    BY <1>0, <2>1 DEF CallsFit
  <2>3. /\ regCall' \in [RegCalls -> RegCall \cup {Idling}]
        /\ \A d \in RegCalls \ {c} : regCall'[d] = regCall[d]
        /\ regCall'[c].at = "idle"
    BY <1>0, <2>1, CallEnds
  <2>4. \A i \in 1 .. Len(mapHistory) : mapHistory[i] \in MappingRow
    BY <1>0, ElementOfSeq
  <2>5. /\ ended \in Seq(MappingRow) /\ Len(ended) = Len(mapHistory)
        /\ \A i \in 1 .. Len(mapHistory) : ended[i].status = "ended"
    <3>1. \A i \in 1 .. Len(mapHistory) : [mapHistory[i] EXCEPT !.status = "ended"] \in MappingRow
      BY <2>4 DEF MappingRow
    <3>2. \A i \in 1 .. Len(mapHistory) : ended[i] \in MappingRow
      BY <1>0, <2>4, <3>1
    <3>3. ended = [i \in 1 .. Len(mapHistory) |-> ended[i]]
      BY <1>0
    <3>4. ended \in Seq(MappingRow) /\ Len(ended) = Len(mapHistory)
      BY <1>0, <3>2, <3>3, IsASeq, LenProperties
    <3>5. \A i \in 1 .. Len(mapHistory) : ended[i].status = "ended"
      <4> TAKE i \in 1 .. Len(mapHistory)
      <4>1. CASE i = regCall[c].ended
        BY <1>0, <2>4, <4>1 DEF MappingRow
      <4>2. CASE i # regCall[c].ended
        BY <1>0, <2>2, <2>4, <4>2 DEF MappingRow, Active
      <4> QED  BY <4>1, <4>2
    <3> QED  BY <3>4, <3>5
  <2> HIDE DEF ended
  <2>6. [mode |-> mode, status |-> "active"] \in MappingRow
    BY DEF MappingRow
  <2>7. /\ mapHistory' \in Seq(MappingRow) /\ Len(mapHistory') = Len(mapHistory) + 1
        /\ \A i \in 1 .. Len(mapHistory) : mapHistory'[i].status = "ended"
        /\ mapHistory'[Len(mapHistory) + 1].status = "active"
    BY <1>0, <2>1, <2>5, <2>6, AppendProperties
  <2>8. DOMAIN mapHistory' = 1 .. (Len(mapHistory) + 1)
    BY <2>7, LenProperties
  <2>9. Active' = {Len(mapHistory) + 1}
    BY <1>0, <2>7, <2>8 DEF Active
  <2>10. MappedOnce'
    <3>1. Len(mapHistory) + 1 \in DOMAIN mapHistory'
      BY <1>0, <2>8
    <3> QED  BY <2>9, <3>1, Zenon DEF MappedOnce
  <2>11. CallsFit'
    BY <1>0, <2>1, <2>2, <2>3 DEF CallsFit, CallIs, Asking
  <2>12. RegTypeOK'
    <3>1. channel' \in Row
      BY <1>0, <2>1 DEF RegTypeOK, Row, ChannelStatus
    <3> QED  BY <1>0, <2>1, <2>3, <2>7, <3>1, TypesByParts DEF RegTypeOK
  <2> QED  BY <1>0, <2>2, <2>7, <2>10, <2>11, <2>12 DEF RegInv
<1>6. CASE RollBack(c)
  <2>1. /\ regCall' \in [RegCalls -> RegCall \cup {Idling}]
        /\ \A d \in RegCalls \ {c} : regCall'[d] = regCall[d]
        /\ regCall'[c].at = "idle"
    BY <1>0, <1>6, CallEnds DEF RollBack
  <2>2. /\ mapLock' \in RegCalls \cup {NoCall}
        /\ mapLock \in {NoCall, c} \/ mapLock' = mapLock
        /\ UNCHANGED <<isGroup, whatsApp, echoes, meta, channel, unread, mapHistory, touches>>
    BY <1>0, <1>6 DEF RollBack
  <2>3. regFaults' \in 0 .. MaxRegFaults
    BY <1>0, <1>6, RegAssumption DEF RollBack, RegFault, RegTypeOK
  <2> QED  BY <1>1, <2>1, <2>2, <2>3 DEF Asking
<1> QED  BY <1>2, <1>3, <1>4, <1>5, <1>6

LEMMA RegistryStep == RegInv /\ [RegNext]_regVars => RegInv'
<1> SUFFICES ASSUME RegInv, [RegNext]_regVars PROVE RegInv'
  OBVIOUS
<1>1. CASE RegNext
  BY <1>1, GatewaySteps, CallSteps, MappingSteps DEF RegNext, RegRuns
<1>2. CASE UNCHANGED regVars
  BY <1>2 DEF regVars, RegInv, RegTypeOK, CallsFit, CallIs, MappedOnce, Active
<1> QED  BY <1>1, <1>2

\* Types, the lock of the mapping and the one active mapping are invariant.
THEOREM RegistryHolds == RegSpec => []RegInv
  BY RegInitHolds, RegistryStep, PTL DEF RegSpec

-----------------------------------------------------------------------------
(* Stored media.                                                           *)

Owns(r, m) == run[r] # NoRun /\ run[r].owner /\ run[r].of = m

\* A job is run by at most one run that has its lock, and has attempts left until it is over.
OwnersAlone ==
  /\ \A r \in Runners, m \in Media : Owns(r, m) => job[m] = "active"
  /\ \A r, q \in Runners, m \in Media : Owns(r, m) /\ Owns(q, m) => r = q
  /\ \A m \in Media : job[m] # "over" => made[m] < DownloadAttempts

\* What a run has stored, and what a row names, is there; only what is old is purged.
ObjectsStay ==
  /\ \A r \in Runners : run[r] # NoRun /\ run[r].at = "stored" /\ run[r].of \notin old
                          => <<run[r].of, run[r].key>> \in objects
  /\ \A p \in picked : p[1] \in old
  /\ emptied \subseteq old

MediaInv == MediaTypeOK /\ OwnersAlone /\ ObjectsStay /\ LinksLeadSomewhere

LEMMA MediaInitHolds == MediaInit => MediaInv
<1> SUFFICES ASSUME MediaInit PROVE MediaInv
  OBVIOUS
<1>1. DownloadAttempts \in Nat \ {0} /\ MaxMediaFaults \in Nat
  BY MediaAssumption
<1>2. MediaTypeOK
  BY <1>1 DEF MediaInit, MediaTypeOK, RowStatus, Months
<1>3. OwnersAlone /\ ObjectsStay
  BY <1>1 DEF MediaInit, OwnersAlone, ObjectsStay, Owns
<1>4. LinksLeadSomewhere
  BY DEF MediaInit, LinksLeadSomewhere, signedUrl
<1> QED  BY <1>2, <1>3, <1>4 DEF MediaInv

\* A run goes on without its job.
LEMMA RunsGoOn ==
  ASSUME OwnersAlone, NEW r \in Runners, job' = job, made' = made,
         \A q \in Runners \ {r} : run'[q] = run[q],
         \A m \in Media : Owns(r, m)' => Owns(r, m)
  PROVE  OwnersAlone'
<1>1. \A q \in Runners, m \in Media : Owns(q, m)' => Owns(q, m)
  BY DEF Owns
<1> QED  BY <1>1 DEF OwnersAlone

\* Jobs, rows and objects of a step that only moves a run.
LEMMA LinksStay ==
  ASSUME LinksLeadSomewhere, UNCHANGED <<row, keyOf>>, old \subseteq old',
         \A p \in objects : p \in objects' \/ p[1] \in old
  PROVE  LinksLeadSomewhere'
  BY DEF LinksLeadSomewhere, signedUrl

\* The job of a run that had it ends, or waits while it has attempts left.
LEMMA AttemptEnds ==
  ASSUME MediaTypeOK, OwnersAlone, NEW r \in Runners, run[r] \in Run, run[r] # NoRun,
         NEW j \in {"over", "waiting"}, EndJob(r, j),
         made' = IF run[r].owner THEN [made EXCEPT ![run[r].of] = @ + 1] ELSE made,
         j = "waiting" => made[run[r].of] + 1 # DownloadAttempts
  PROVE  /\ OwnersAlone' /\ run' \in [Runners -> Run \cup {NoRun}] /\ run'[r] = NoRun
         /\ \A q \in Runners \ {r} : run'[q] = run[q]
         /\ job' \in [Media -> {"waiting", "active", "over"}]
         /\ made' \in [Media -> 0 .. DownloadAttempts]
<1> DEFINE m == run[r].of
<1>1. m \in Media /\ run[r].owner \in BOOLEAN /\ DownloadAttempts \in Nat
  BY MediaAssumption DEF Run
<1>2. /\ run' \in [Runners -> Run \cup {NoRun}] /\ run'[r] = NoRun
      /\ \A q \in Runners \ {r} : run'[q] = run[q]
  BY DEF EndJob, MediaTypeOK
<1>3. /\ job' \in [Media -> {"waiting", "active", "over"}]
      /\ \A n \in Media : n # m \/ ~run[r].owner => job'[n] = job[n] /\ made'[n] = made[n]
      /\ run[r].owner => job'[m] = j /\ made'[m] = made[m] + 1
  BY <1>1 DEF EndJob, MediaTypeOK
<1>4. (run[r].owner => Owns(r, m) /\ made[m] < DownloadAttempts) /\ made[m] \in Nat
  BY <1>1 DEF OwnersAlone, Owns, MediaTypeOK
<1>5. made' \in [Media -> 0 .. DownloadAttempts]
  BY <1>1, <1>4 DEF MediaTypeOK
<1>6. \A q \in Runners, n \in Media : Owns(q, n)' => q # r /\ Owns(q, n)
  BY <1>2 DEF Owns
<1>7. ASSUME NEW q \in Runners, NEW n \in Media, Owns(q, n)' PROVE job'[n] = "active"
  <2>1. Owns(q, n) /\ q # r
    BY <1>6, <1>7
  <2>2. ~run[r].owner \/ n # m
    BY <1>4, <2>1 DEF OwnersAlone
  <2>3. job'[n] = job[n]
    BY <1>3, <2>2
  <2> QED  BY <2>1, <2>3 DEF OwnersAlone
<1>8. ASSUME NEW n \in Media, job'[n] # "over" PROVE made'[n] < DownloadAttempts
  <2>1. CASE n = m /\ run[r].owner
    <3>1. made[m] + 1 # DownloadAttempts /\ made'[m] = made[m] + 1 /\ made[m] < DownloadAttempts
      BY <1>3, <1>4, <1>8, <2>1
    <3> QED  BY <1>1, <1>4, <2>1, <3>1
  <2>2. CASE ~(n = m /\ run[r].owner)
    <3>1. job'[n] = job[n] /\ made'[n] = made[n]
      BY <1>3, <2>2
    <3> QED  BY <1>8, <3>1 DEF OwnersAlone
  <2> QED  BY <2>1, <2>2
<1>9. OwnersAlone'
  BY <1>6, <1>7, <1>8 DEF OwnersAlone
<1> QED  BY <1>2, <1>3, <1>5, <1>9

LEMMA MediaStep ==
  ASSUME MediaInv, MediaNext
  PROVE  MediaInv'
<1> USE MediaAssumption
<1>0. /\ MediaTypeOK /\ OwnersAlone /\ ObjectsStay /\ LinksLeadSomewhere
      /\ run \in [Runners -> Run \cup {NoRun}]
      /\ \A r \in Runners : run[r] # NoRun => run[r] \in Run
      /\ NoRun \notin Run
  BY DEF MediaInv, MediaTypeOK, NoRun, Run
<1>1. ASSUME NEW r \in Runners, NEW m \in Media, TakeDownload(r, m)
      PROVE  MediaInv'
  <2>0. /\ run[r] = NoRun /\ job[m] = "waiting"
        /\ UNCHANGED <<row, keyOf, objects, month, made, stalled, lost, Retention, mediaFaults>>
    BY <1>1 DEF TakeDownload
  <2>1. CASE row[m] \in {"gone", "downloaded"}
    <3>1. job' = [job EXCEPT ![m] = "over"] /\ run' = run
      BY <1>1, <2>1 DEF TakeDownload
    <3>2. MediaTypeOK'
      BY <1>0, <2>0, <3>1 DEF MediaTypeOK, Retention
    <3>3. OwnersAlone'
      BY <1>0, <2>0, <3>1 DEF OwnersAlone, Owns, MediaTypeOK
    <3>4. ObjectsStay' /\ LinksLeadSomewhere'
      BY <1>0, <2>0, <3>1 DEF ObjectsStay, LinksLeadSomewhere, signedUrl, Retention
    <3> QED  BY <3>2, <3>3, <3>4 DEF MediaInv
  <2>2. CASE row[m] \notin {"gone", "downloaded"}
    <3> DEFINE new == [at |-> "loaded", of |-> m, key |-> month, final |-> Final(m), owner |-> TRUE]
    <3>1. job' = [job EXCEPT ![m] = "active"] /\ run' = [run EXCEPT ![r] = new]
      BY <1>1, <2>2 DEF TakeDownload
    <3>2. new \in Run
      BY <1>0 DEF Run, MediaTypeOK, Final
    <3>3. /\ run' \in [Runners -> Run \cup {NoRun}]
          /\ run'[r].at = "loaded" /\ run'[r].of = m
          /\ \A q \in Runners \ {r} : run'[q] = run[q]
      BY <1>0, <3>1, <3>2
    <3>4. job' \in [Media -> {"waiting", "active", "over"}]
          /\ job'[m] = "active" /\ \A n \in Media \ {m} : job'[n] = job[n]
      BY <1>0, <3>1 DEF MediaTypeOK
    <3>5. MediaTypeOK'
      BY <1>0, <2>0, <3>3, <3>4 DEF MediaTypeOK, Retention
    <3>6. OwnersAlone'
      BY <1>0, <2>0, <3>3, <3>4 DEF OwnersAlone, Owns
    <3>7. ObjectsStay' /\ LinksLeadSomewhere'
      BY <1>0, <2>0, <3>3 DEF ObjectsStay, LinksLeadSomewhere, signedUrl, Retention
    <3> QED  BY <3>5, <3>6, <3>7 DEF MediaInv
  <2> QED  BY <2>1, <2>2
<1>2. ASSUME NEW r \in Runners, FetchBytes(r)
      PROVE  MediaInv'
  <2>1. run[r] \in Run /\ run' = [run EXCEPT ![r].at = "fetched", ![r].key = month]
        /\ UNCHANGED <<row, keyOf, objects, month, job, made, stalled, lost, Retention, mediaFaults>>
    BY <1>0, <1>2 DEF FetchBytes
  <2>2. [run[r] EXCEPT !.at = "fetched", !.key = month] \in Run
    BY <1>0, <2>1 DEF Run, MediaTypeOK
  <2>3. /\ run' \in [Runners -> Run \cup {NoRun}]
        /\ \A q \in Runners \ {r} : run'[q] = run[q]
        /\ run'[r].at = "fetched" /\ run'[r].of = run[r].of /\ run'[r].owner = run[r].owner
    BY <1>0, <2>1, <2>2 DEF Run
  <2>4. OwnersAlone'
    BY <1>0, <2>1, <2>3, RunsGoOn DEF Owns
  <2>5. MediaTypeOK'
    BY <1>0, <2>1, <2>3 DEF MediaTypeOK, Retention
  <2>6. ObjectsStay' /\ LinksLeadSomewhere'
    BY <1>0, <2>1, <2>3 DEF ObjectsStay, LinksLeadSomewhere, signedUrl, Retention
  <2> QED  BY <2>4, <2>5, <2>6 DEF MediaInv
<1>3. ASSUME NEW r \in Runners, PutObject(r)
      PROVE  MediaInv'
  <2>1. run[r] \in Run /\ run' = [run EXCEPT ![r].at = "stored"]
        /\ objects' = objects \cup {<<run[r].of, run[r].key>>}
        /\ UNCHANGED <<row, keyOf, month, job, made, stalled, lost, Retention, mediaFaults>>
    BY <1>0, <1>3 DEF PutObject
  <2>2. [run[r] EXCEPT !.at = "stored"] \in Run /\ <<run[r].of, run[r].key>> \in Key
    BY <2>1 DEF Run, Key
  <2>3. /\ run' \in [Runners -> Run \cup {NoRun}]
        /\ \A q \in Runners \ {r} : run'[q] = run[q]
        /\ run'[r].of = run[r].of /\ run'[r].owner = run[r].owner /\ run'[r].key = run[r].key
    BY <1>0, <2>1, <2>2 DEF Run
  <2>4. OwnersAlone'
    BY <1>0, <2>1, <2>3, RunsGoOn DEF Owns
  <2>5. MediaTypeOK'
    BY <1>0, <2>1, <2>2, <2>3 DEF MediaTypeOK, Retention
  <2>6. ObjectsStay'
    BY <1>0, <2>1, <2>3 DEF ObjectsStay, Retention
  <2>7. LinksLeadSomewhere'
    BY <1>0, <2>1, LinksStay DEF Retention
  <2> QED  BY <2>4, <2>5, <2>6, <2>7 DEF MediaInv
<1>4. ASSUME NEW r \in Runners, RecordDownload(r)
      PROVE  MediaInv'
  <2> DEFINE m == run[r].of  k == run[r].key
  <2>1. run[r] \in Run /\ run[r] # NoRun /\ run[r].at = "stored" /\ m \in Media /\ k \in Months
        /\ SetRow(m, "downloaded", k) /\ EndJob(r, "over") /\ lost' = lost \ {m}
        /\ UNCHANGED <<objects, month, made, stalled, Retention, mediaFaults>>
    BY <1>0, <1>4 DEF RecordDownload, Recordable, Run
  <2>2. MediaTypeOK' /\ OwnersAlone' /\ run'[r] = NoRun
        /\ \A q \in Runners \ {r} : run'[q] = run[q]
    <3>1. /\ run' \in [Runners -> Run \cup {NoRun}] /\ run'[r] = NoRun
          /\ \A q \in Runners \ {r} : run'[q] = run[q]
      BY <1>0, <2>1 DEF EndJob
    <3>2. job' \in [Media -> {"waiting", "active", "over"}]
      BY <1>0, <2>1 DEF EndJob, MediaTypeOK
    <3>3. row' \in [Media -> RowStatus] /\ keyOf' \in [Media -> Months \cup {0}]
      BY <1>0, <2>1 DEF SetRow, MediaTypeOK, RowStatus
    <3>4. MediaTypeOK'
      BY <1>0, <2>1, <3>1, <3>2, <3>3 DEF MediaTypeOK, Retention
    <3>5. OwnersAlone'
      BY <1>0, <2>1, <3>1 DEF OwnersAlone, Owns, EndJob, MediaTypeOK
    <3> QED  BY <3>1, <3>4, <3>5
  <2>3. ObjectsStay'
    BY <1>0, <2>1, <2>2 DEF ObjectsStay, Retention
  <2>4. LinksLeadSomewhere'
    BY <1>0, <2>1 DEF LinksLeadSomewhere, signedUrl, SetRow, ObjectsStay, Retention, MediaTypeOK
  <2> QED  BY <2>2, <2>3, <2>4 DEF MediaInv
<1>5. ASSUME NEW r \in Runners, DownloadFails(r)
      PROVE  MediaInv'
  <2>1. run[r] \in Run /\ run' = [run EXCEPT ![r].at = "failing"]
        /\ mediaFaults' \in 0 .. MaxMediaFaults
        /\ UNCHANGED <<row, keyOf, objects, month, job, made, stalled, lost, Retention>>
    BY <1>0, <1>5 DEF DownloadFails, MediaFault, MediaTypeOK
  <2>2. [run[r] EXCEPT !.at = "failing"] \in Run
    BY <2>1 DEF Run
  <2>3. /\ run' \in [Runners -> Run \cup {NoRun}]
        /\ \A q \in Runners \ {r} : run'[q] = run[q]
        /\ run'[r].at = "failing" /\ run'[r].of = run[r].of /\ run'[r].owner = run[r].owner
    BY <1>0, <2>1, <2>2 DEF Run
  <2>4. OwnersAlone'
    BY <1>0, <2>1, <2>3, RunsGoOn DEF Owns
  <2>5. MediaTypeOK'
    BY <1>0, <2>1, <2>3 DEF MediaTypeOK, Retention
  <2>6. ObjectsStay' /\ LinksLeadSomewhere'
    BY <1>0, <2>1, <2>3 DEF ObjectsStay, LinksLeadSomewhere, signedUrl, Retention
  <2> QED  BY <2>4, <2>5, <2>6 DEF MediaInv
<1>6. ASSUME NEW r \in Runners, RecordFailure(r)
      PROVE  MediaInv'
  <2> DEFINE m == run[r].of
             s == IF run[r].final THEN "expired" ELSE "failed"
             j == IF run[r].final \/ made[m] + 1 = DownloadAttempts THEN "over" ELSE "waiting"
  <2>1. /\ run[r] \in Run /\ run[r] # NoRun /\ m \in Media
        /\ SetRow(m, s, keyOf[m]) /\ EndJob(r, j)
        /\ made' = IF run[r].owner THEN [made EXCEPT ![m] = @ + 1] ELSE made
        /\ UNCHANGED <<objects, month, stalled, Retention, mediaFaults>>
    BY <1>0, <1>6 DEF RecordFailure, Run
  <2>2. lost' \subseteq Media
    BY <1>0, <1>6, <2>1 DEF RecordFailure, MediaTypeOK
  <2>3. j \in {"over", "waiting"} /\ (j = "waiting" => made[m] + 1 # DownloadAttempts)
    OBVIOUS
  <2>4. /\ OwnersAlone' /\ run' \in [Runners -> Run \cup {NoRun}] /\ run'[r] = NoRun
        /\ \A q \in Runners \ {r} : run'[q] = run[q]
        /\ job' \in [Media -> {"waiting", "active", "over"}]
        /\ made' \in [Media -> 0 .. DownloadAttempts]
    BY <1>0, <2>1, <2>3, AttemptEnds
  <2>5. row' \in [Media -> RowStatus] /\ keyOf' = keyOf
        /\ \A n \in Media : row'[n] = "downloaded" => row[n] = "downloaded"
    <3>1. CASE row[m] = "gone"
      BY <1>0, <2>1, <3>1 DEF SetRow, MediaTypeOK
    <3>2. CASE row[m] # "gone"
      <4>1. row' = [row EXCEPT ![m] = s] /\ keyOf' = [keyOf EXCEPT ![m] = keyOf[m]]
        BY <2>1, <3>2 DEF SetRow
      <4> QED  BY <1>0, <2>1, <4>1 DEF MediaTypeOK, RowStatus
    <3> QED  BY <3>1, <3>2
  <2>6. MediaTypeOK'
    BY <1>0, <2>1, <2>2, <2>4, <2>5 DEF MediaTypeOK, Retention
  <2>7. ObjectsStay'
    BY <1>0, <2>1, <2>4 DEF ObjectsStay, Retention
  <2>8. LinksLeadSomewhere'
    BY <1>0, <2>1, <2>5 DEF LinksLeadSomewhere, signedUrl, Retention
  <2> QED  BY <2>4, <2>6, <2>7, <2>8 DEF MediaInv
<1>7. ASSUME NEW r \in Runners, RunThrows(r)
       PROVE  MediaInv'
  <2> DEFINE m == run[r].of
             j == IF made[m] + 1 >= DownloadAttempts THEN "over" ELSE "waiting"
  <2>1. /\ run[r] \in Run /\ run[r] # NoRun /\ m \in Media /\ EndJob(r, j)
        /\ made' = IF run[r].owner THEN [made EXCEPT ![m] = @ + 1] ELSE made
        /\ mediaFaults' \in 0 .. MaxMediaFaults
        /\ UNCHANGED <<row, keyOf, objects, month, stalled, Retention>>
    BY <1>0, <1>7 DEF RunThrows, MediaFault, MediaTypeOK, Run
  <2>2. lost' \subseteq Media
    BY <1>0, <1>7, <2>1 DEF RunThrows, MediaTypeOK
  <2>3. made[m] \in Nat /\ DownloadAttempts \in Nat
    BY <1>0, <2>1 DEF MediaTypeOK
  <2>4. j \in {"over", "waiting"} /\ (j = "waiting" => made[m] + 1 # DownloadAttempts)
    BY <2>3
  <2>5. /\ OwnersAlone' /\ run' \in [Runners -> Run \cup {NoRun}] /\ run'[r] = NoRun
        /\ \A q \in Runners \ {r} : run'[q] = run[q]
        /\ job' \in [Media -> {"waiting", "active", "over"}]
        /\ made' \in [Media -> 0 .. DownloadAttempts]
    <3> HIDE DEF j
    <3> QED  BY <1>0, <2>1, <2>4, AttemptEnds
  <2>6. MediaTypeOK'
    BY <1>0, <2>1, <2>2, <2>5 DEF MediaTypeOK, Retention
  <2>7. ObjectsStay' /\ LinksLeadSomewhere'
    BY <1>0, <2>1, <2>5 DEF ObjectsStay, LinksLeadSomewhere, signedUrl, Retention
  <2> QED  BY <2>5, <2>6, <2>7 DEF MediaInv
<1>8. ASSUME NEW r \in Runners, Stalls(r), run[r] \in Run, run[r].of \in Media
       PROVE  /\ stalled' \in [Media -> BOOLEAN] /\ lost' \subseteq Media
              /\ AfterStall(r) \in {"over", "waiting"}
  BY <1>0, <1>8 DEF Stalls, AfterStall, MediaTypeOK
<1>9. ASSUME NEW r \in Runners, StallDownload(r)
      PROVE  MediaInv'
  <2>1. /\ run[r] \in Run /\ run[r] # NoRun /\ run[r].of \in Media /\ run[r].owner
        /\ run' = [run EXCEPT ![r].owner = FALSE]
        /\ job' = [job EXCEPT ![run[r].of] = AfterStall(r)]
        /\ mediaFaults' \in 0 .. MaxMediaFaults
        /\ UNCHANGED <<row, keyOf, objects, month, made, Retention>>
    BY <1>0, <1>9 DEF StallDownload, MediaFault, MediaTypeOK, Run
  <2>2. [run[r] EXCEPT !.owner = FALSE] \in Run
    BY <2>1 DEF Run
  <2>3. /\ run' \in [Runners -> Run \cup {NoRun}]
        /\ \A q \in Runners \ {r} : run'[q] = run[q]
        /\ run'[r].at = run[r].at /\ run'[r].of = run[r].of /\ run'[r].key = run[r].key
        /\ run'[r].owner = FALSE
    BY <1>0, <2>1, <2>2 DEF Run
  <2>4. /\ stalled' \in [Media -> BOOLEAN] /\ lost' \subseteq Media
        /\ AfterStall(r) \in {"over", "waiting"}
    BY <1>9, <1>8, <2>1 DEF StallDownload
  <2>5. MediaTypeOK'
    BY <1>0, <2>1, <2>3, <2>4 DEF MediaTypeOK, Retention
  <2>6. OwnersAlone'
    <3>1. \A q \in Runners, n \in Media : Owns(q, n)' => q # r /\ Owns(q, n)
      BY <2>3 DEF Owns
    <3>2. Owns(r, run[r].of)
      BY <2>1 DEF Owns
    <3>3. /\ \A n \in Media \ {run[r].of} : job'[n] = job[n]
          /\ job[run[r].of] = "active"
      BY <1>0, <2>1, <3>2 DEF OwnersAlone, MediaTypeOK
    <3> QED  BY <1>0, <2>1, <3>1, <3>2, <3>3 DEF OwnersAlone
  <2>7. ObjectsStay' /\ LinksLeadSomewhere'
    BY <1>0, <2>1, <2>3 DEF ObjectsStay, LinksLeadSomewhere, signedUrl, Retention
  <2> QED  BY <2>5, <2>6, <2>7 DEF MediaInv
<1>10. ASSUME NEW r \in Runners, WorkerDies(r)
      PROVE  MediaInv'
  <2>1. /\ run[r] \in Run /\ run[r] # NoRun /\ run[r].of \in Media /\ EndJob(r, AfterStall(r))
        /\ mediaFaults' \in 0 .. MaxMediaFaults
        /\ UNCHANGED <<row, keyOf, objects, month, made, Retention>>
    BY <1>0, <1>10 DEF WorkerDies, MediaFault, MediaTypeOK, Run
  <2>2. /\ run' \in [Runners -> Run \cup {NoRun}] /\ run'[r] = NoRun
        /\ \A q \in Runners \ {r} : run'[q] = run[q]
    BY <1>0, <2>1 DEF EndJob
  <2>3. /\ stalled' \in [Media -> BOOLEAN] /\ lost' \subseteq Media
        /\ AfterStall(r) \in {"over", "waiting"}
    BY <1>10, <1>8, <2>1 DEF WorkerDies
  <2>4. /\ job' \in [Media -> {"waiting", "active", "over"}]
        /\ \A n \in Media : n # run[r].of \/ ~run[r].owner => job'[n] = job[n]
    BY <1>0, <2>1, <2>3 DEF EndJob, MediaTypeOK
  <2>5. MediaTypeOK'
    BY <1>0, <2>1, <2>2, <2>3, <2>4 DEF MediaTypeOK, Retention
  <2>6. OwnersAlone'
    <3>1. \A q \in Runners, n \in Media : Owns(q, n)' => q # r /\ Owns(q, n)
      BY <2>2 DEF Owns
    <3>2. run[r].owner => job[run[r].of] = "active" /\ Owns(r, run[r].of)
      BY <1>0, <2>1 DEF OwnersAlone, Owns
    <3> QED  BY <1>0, <2>1, <2>4, <3>1, <3>2 DEF OwnersAlone
  <2>7. ObjectsStay' /\ LinksLeadSomewhere'
    BY <1>0, <2>1, <2>2 DEF ObjectsStay, LinksLeadSomewhere, signedUrl, Retention
  <2> QED  BY <2>5, <2>6, <2>7 DEF MediaInv
<1>11. ASSUME NEW m \in Media, LinkMessage(m)
      PROVE  MediaInv'
  BY <1>0, <1>11 DEF LinkMessage, MediaInv, MediaTypeOK, OwnersAlone, Owns, ObjectsStay,
                    LinksLeadSomewhere, signedUrl
<1>12. ASSUME NEW m \in Media, Age(m)
       PROVE  MediaInv'
  <2>1. old' = old \cup {m}
        /\ UNCHANGED <<row, keyOf, objects, month, job, made, stalled, lost, run, linked, message, purge,
                       picked, emptied, mediaFaults>>
    BY <1>12 DEF Age
  <2> QED  BY <1>0, <2>1 DEF MediaInv, MediaTypeOK, OwnersAlone, Owns, ObjectsStay,
                             LinksLeadSomewhere, signedUrl
<1>13. CASE SelectMedia
  <2>1. PICK batch \in SUBSET Purgeable : picked' = {<<m, keyOf[m]>> : m \in batch}
    BY <1>13 DEF SelectMedia
  <2>2. purge' = "media"
        /\ UNCHANGED <<row, keyOf, objects, month, job, made, stalled, lost, run, old, linked, message,
                       emptied, mediaFaults>>
    BY <1>13 DEF SelectMedia
  <2>3. /\ \A p \in picked' : p[1] \in old
        /\ picked' \subseteq Media \X (Months \cup {0})
    BY <1>0, <2>1 DEF Purgeable, MediaTypeOK
  <2>4. MediaTypeOK'
    BY <1>0, <2>2, <2>3 DEF MediaTypeOK
  <2>5. OwnersAlone' /\ LinksLeadSomewhere'
    BY <1>0, <2>2 DEF OwnersAlone, Owns, LinksLeadSomewhere, signedUrl
  <2>6. ObjectsStay'
    BY <1>0, <2>2, <2>3 DEF ObjectsStay
  <2> QED  BY <2>4, <2>5, <2>6 DEF MediaInv
<1>14. ASSUME NEW p \in picked, DeleteObject(p)
       PROVE  MediaInv'
  <2>1. /\ objects' \subseteq objects /\ \A k \in objects : k \in objects' \/ k = p
        /\ mediaFaults' \in 0 .. MaxMediaFaults
        /\ picked' = picked \ {p} /\ emptied' = {p[1]}
        /\ UNCHANGED <<row, keyOf, month, job, made, stalled, lost, run, old, linked, message, purge>>
    BY <1>0, <1>14 DEF DeleteObject, MediaFault, MediaTypeOK
  <2>2. p[1] \in old /\ p \in Media \X (Months \cup {0})
    BY <1>0 DEF ObjectsStay, MediaTypeOK
  <2>3. MediaTypeOK'
    BY <1>0, <2>1, <2>2 DEF MediaTypeOK
  <2>4. OwnersAlone'
    BY <1>0, <2>1 DEF OwnersAlone, Owns
  <2>5. ObjectsStay'
    BY <1>0, <2>1, <2>2 DEF ObjectsStay
  <2>6. LinksLeadSomewhere'
    BY <1>0, <2>1, <2>2, LinksStay
  <2> QED  BY <2>3, <2>4, <2>5, <2>6 DEF MediaInv
<1>15. ASSUME NEW m \in Media, MarkPurged(m)
       PROVE  MediaInv'
  <2>1. /\ m \in old /\ emptied' = {} /\ SetRow(m, "purged", 0)
        /\ UNCHANGED <<objects, month, job, made, stalled, lost, run, old, linked, message, purge, picked,
                       mediaFaults>>
    BY <1>0, <1>15 DEF MarkPurged, ObjectsStay
  <2>2. row' \in [Media -> RowStatus] /\ keyOf' \in [Media -> Months \cup {0}]
        /\ \A n \in Media \ {m} : row'[n] = row[n] /\ keyOf'[n] = keyOf[n]
    BY <1>0, <2>1 DEF SetRow, MediaTypeOK, RowStatus
  <2>3. MediaTypeOK'
    BY <1>0, <2>1, <2>2 DEF MediaTypeOK
  <2>4. OwnersAlone' /\ ObjectsStay'
    BY <1>0, <2>1 DEF OwnersAlone, Owns, ObjectsStay
  <2>5. LinksLeadSomewhere'
    BY <1>0, <2>1, <2>2 DEF LinksLeadSomewhere, signedUrl
  <2> QED  BY <2>3, <2>4, <2>5 DEF MediaInv
<1>16. CASE PurgeMessages
  <2>1. UNCHANGED <<objects, month, job, made, stalled, lost, run, old, linked, picked, emptied,
                    mediaFaults>> /\ purge' = "idle"
    BY <1>16 DEF PurgeMessages
  <2>2. message' \in [Media -> {"kept", "shell", "deleted"}]
    <3>1. \A m \in Media : message'[m] \in {"kept", "shell", "deleted"}
      BY <1>0, <1>16 DEF PurgeMessages, MediaTypeOK
    <3>2. message' = [m \in Media |-> message'[m]]
      BY <1>16 DEF PurgeMessages
    <3> QED  BY <3>1, <3>2
  <2>3. /\ row' \in [Media -> RowStatus] /\ keyOf' \in [Media -> Months \cup {0}]
        /\ \A m \in Media : row'[m] = "downloaded" => row[m] = "downloaded" /\ keyOf'[m] = keyOf[m]
    <3>1. row' = [m \in Media |-> IF message'[m] = "deleted" THEN "gone" ELSE row[m]]
          /\ keyOf' = [m \in Media |-> IF message'[m] = "deleted" THEN 0 ELSE keyOf[m]]
      BY <1>16 DEF PurgeMessages
    <3> QED  BY <1>0, <3>1 DEF MediaTypeOK, RowStatus
  <2>4. MediaTypeOK'
    BY <1>0, <2>1, <2>2, <2>3 DEF MediaTypeOK
  <2>5. OwnersAlone' /\ ObjectsStay'
    BY <1>0, <2>1 DEF OwnersAlone, Owns, ObjectsStay
  <2>6. LinksLeadSomewhere'
    BY <1>0, <2>1, <2>3 DEF LinksLeadSomewhere, signedUrl
  <2> QED  BY <2>4, <2>5, <2>6 DEF MediaInv
<1>17. CASE NextMonth
  BY <1>0, <1>17 DEF NextMonth, MediaInv, MediaTypeOK, OwnersAlone, Owns, ObjectsStay,
                     LinksLeadSomewhere, signedUrl, Retention, Months
<1> QED  BY <1>1, <1>2, <1>3, <1>4, <1>5, <1>6, <1>9, <1>10, <1>11, <1>12, <1>13, <1>14, <1>15,
            <1>16, <1>17, <1>7 DEF MediaNext, DownloadRuns

LEMMA MediaKeeps == MediaInv /\ [MediaNext]_mediaVars => MediaInv'
<1> SUFFICES ASSUME MediaInv, UNCHANGED mediaVars PROVE MediaInv'
  BY MediaStep
<1> QED  BY DEF mediaVars, MediaInv, MediaTypeOK, OwnersAlone, Owns, ObjectsStay,
                LinksLeadSomewhere, signedUrl

\* Whatever runs overlap, the lock of a job has one owner and links lead to objects.
THEOREM MediaHolds == MediaSpec => []MediaInv
  BY MediaInitHolds, MediaKeeps, PTL DEF MediaSpec

-----------------------------------------------------------------------------
(* What a workspace sets up.                                               *)

EditFields == {"op", "item", "label", "content", "status", "step", "read", "healthy"}

\* A row is numbered by the write that created it, so that no row is created twice.
RowsFit ==
  /\ edits \in Nat
  /\ DOMAIN items \subseteq 1 .. edits /\ DOMAIN given = DOMAIN items

\* A test gives no column anything.
EditsFit ==
  /\ DOMAIN editing = Editors
  /\ \A c \in Editors : editing[c] # NoEdit =>
       /\ DOMAIN editing[c] = EditFields
       /\ editing[c].op = "test" => /\ editing[c].label = "" /\ editing[c].content = ""
                                    /\ editing[c].status = ""

\* Who joins has an address and names a workspace or a slug for one; members are users.
JoiningFits ==
  /\ accounts \in Seq(Emails) /\ workspaces \in Seq(Slugs)
  /\ \A m \in members : m.user \in 1 .. Len(accounts)
  /\ DOMAIN joining = Editors
  /\ \A c \in Editors : joining[c] # NoEdit => joining[c].email \in Emails /\ joining[c].slug \in Slugs

\* A user has one membership.
Belongs(u) == \E m \in members : {n \in members : n.user = u} = {m}
Administered(w) == \E m \in members : m.workspace = w /\ m.role = "admin"

ItemsInv == RowsFit /\ EditsFit /\ EditsAreKept
PeopleInv == /\ JoiningFits
             /\ \A u \in 1 .. Len(accounts) : Belongs(u)
             /\ \A w \in 1 .. Len(workspaces) : Administered(w)
SetupInv == ItemsInv /\ PeopleInv

LEMMA SettingsInitHolds == SettingsInit => SetupInv
<1> SUFFICES ASSUME SettingsInit PROVE SetupInv
  OBVIOUS
<1>1. DOMAIN items = {} /\ DOMAIN given = {} /\ edits = 0
  BY DEF SettingsInit
<1>2. RowsFit /\ EditsFit
  <2>1. editing = [c \in Editors |-> NoEdit]
    BY DEF SettingsInit
  <2>2. EditsFit
    BY <2>1 DEF EditsFit
  <2>3. {} \subseteq 1 .. 0 /\ 0 \in Nat
    OBVIOUS
  <2> QED  BY <1>1, <2>2, <2>3 DEF RowsFit
<1>3. EditsAreKept
  BY <1>1 DEF EditsAreKept
<1>4. Len(accounts) = 0 /\ Len(workspaces) = 0 /\ accounts \in Seq(Emails) /\ workspaces \in Seq(Slugs)
  BY EmptySeq DEF SettingsInit
<1>5. 1 .. 0 = {}
  OBVIOUS
<1> QED  BY <1>2, <1>3, <1>4, <1>5 DEF SettingsInit, SetupInv, ItemsInv, PeopleInv, JoiningFits

\* A step of one request leaves the rows as they are.
LEMMA RequestMoves ==
  ASSUME ItemsInv, NEW c \in Editors, UNCHANGED <<items, edits, given>>,
         DOMAIN editing' = Editors, \A d \in Editors \ {c} : editing'[d] = editing[d],
         editing'[c] # NoEdit =>
           /\ DOMAIN editing'[c] = EditFields
           /\ editing'[c].op = "test" => /\ editing'[c].label = "" /\ editing'[c].content = ""
                                         /\ editing'[c].status = ""
  PROVE  ItemsInv'
<1>1. EditsFit'
  BY DEF ItemsInv, EditsFit
<1>2. RowsFit' /\ EditsAreKept'
  BY DEF ItemsInv, RowsFit, EditsAreKept
<1> QED  BY <1>1, <1>2 DEF ItemsInv

LEMMA RequestSteps ==
  ASSUME ItemsInv, NEW c \in Editors,
         \/ \E l \in Labels, k \in Contents : StartCreate(c, l, k)
         \/ \E i \in DOMAIN items, l \in Labels \cup {""}, k \in Contents \cup {""},
               s \in {"active", "disabled", ""} : StartUpdate(c, i, l, k, s)
         \/ \E i \in DOMAIN items : StartTest(c, i)
         \/ editing[c] # NoEdit /\ (CheckLabel(c) \/ Ping(c))
  PROVE  ItemsInv'
<1>0. DOMAIN editing = Editors
  BY DEF ItemsInv, EditsFit
<1>1. ASSUME NEW l \in Labels, NEW k \in Contents, StartCreate(c, l, k)
      PROVE  ItemsInv'
  <2> DEFINE e == [op |-> "create", item |-> 0, label |-> l, content |-> k, status |-> "active",
                   step |-> IF table = "ai" THEN "ping" ELSE "write", read |-> FreshRow,
                   healthy |-> FALSE]
  <2>1. editing' = [editing EXCEPT ![c] = e]
    BY <1>1 DEF StartCreate, Starts
  <2>2. DOMAIN e = EditFields /\ e.op = "create"
    BY DEF EditFields
  <2> HIDE DEF e
  <2> QED  BY <1>0, <1>1, <2>1, <2>2, RequestMoves DEF StartCreate
<1>2. ASSUME NEW i \in DOMAIN items, NEW l \in Labels \cup {""}, NEW k \in Contents \cup {""},
             NEW s \in {"active", "disabled", ""}, StartUpdate(c, i, l, k, s)
      PROVE  ItemsInv'
  <2> DEFINE e == [op |-> "update", item |-> i, label |-> l, content |-> k, status |-> s,
                   step |-> "check", read |-> IF table = "ai" THEN items[i] ELSE FreshRow,
                   healthy |-> FALSE]
  <2>1. editing' = [editing EXCEPT ![c] = e]
    BY <1>2 DEF StartUpdate, Starts
  <2>2. DOMAIN e = EditFields /\ e.op = "update"
    BY DEF EditFields
  <2> HIDE DEF e
  <2> QED  BY <1>0, <1>2, <2>1, <2>2, RequestMoves DEF StartUpdate
<1>3. ASSUME NEW i \in DOMAIN items, StartTest(c, i)
      PROVE  ItemsInv'
  <2>1. PICK e : /\ DOMAIN e = EditFields /\ e.label = "" /\ e.content = "" /\ e.status = ""
                 /\ editing' = [editing EXCEPT ![c] = e]
    BY <1>3 DEF StartTest, Starts, EditFields
  <2> QED  BY <1>0, <1>3, <2>1, RequestMoves DEF StartTest
<1>4. ASSUME editing[c] # NoEdit, CheckLabel(c) \/ Ping(c)
      PROVE  ItemsInv'
  <2>0. /\ DOMAIN editing[c] = EditFields
        /\ editing[c].op = "test" => /\ editing[c].label = "" /\ editing[c].content = ""
                                     /\ editing[c].status = ""
    BY <1>4 DEF ItemsInv, EditsFit
  <2>1. PICK e : /\ editing' = [editing EXCEPT ![c] = e]
                 /\ \/ e = NoEdit \/ e = [editing[c] EXCEPT !.step = "write"]
                    \/ \E ok \in BOOLEAN : e = [editing[c] EXCEPT !.healthy = ok, !.step = "write"]
    <3>1. CASE CheckLabel(c)
      <4>1. \/ editing' = [editing EXCEPT ![c] = NoEdit]
            \/ editing' = [editing EXCEPT ![c] = [editing[c] EXCEPT !.step = "write"]]
        BY <3>1 DEF CheckLabel, Ends, Proceeds
      <4> QED  BY <4>1
    <3>2. CASE Ping(c)
      <4>1. PICK ok \in BOOLEAN :
              editing' = [editing EXCEPT ![c] = [editing[c] EXCEPT !.healthy = ok, !.step = "write"]]
        BY <3>2 DEF Ping
      <4> QED  BY <4>1
    <3> QED  BY <1>4, <3>1, <3>2
  <2>2. e # NoEdit => /\ DOMAIN e = EditFields
                      /\ e.op = editing[c].op /\ e.label = editing[c].label
                      /\ e.content = editing[c].content /\ e.status = editing[c].status
    BY <2>0, <2>1 DEF EditFields
  <2> QED  BY <1>0, <1>4, <2>0, <2>1, <2>2, RequestMoves DEF CheckLabel, Ping
<1> QED  BY <1>1, <1>2, <1>3, <1>4

\* What the write acknowledges and what it leaves in the row agree.
LEMMA WriteStep ==
  ASSUME ItemsInv, NEW c \in Editors, editing[c] # NoEdit, WriteItem(c)
  PROVE  ItemsInv'
<1> DEFINE e == editing[c]
           i == IF e.op = "create" THEN NewItem ELSE e.item
           before == IF e.op = "create" THEN FreshRow ELSE items[i]
           base == IF i \in DOMAIN given THEN given[i] ELSE FreshRow
<1>0. /\ edits \in Nat /\ DOMAIN items \subseteq 1 .. edits /\ DOMAIN given = DOMAIN items
      /\ DOMAIN editing = Editors
      /\ e.op = "test" => e.label = "" /\ e.content = "" /\ e.status = ""
  BY DEF ItemsInv, RowsFit, EditsFit
<1>c. edits \in Nat /\ edits + 1 \in Nat /\ \A k \in DOMAIN items : k \in 1 .. edits + 1
  BY DEF ItemsInv, RowsFit
<1>1. editing' = [editing EXCEPT ![c] = NoEdit]
  BY DEF WriteItem, Ends
<1>2. CASE UNCHANGED <<items, edits, given>>
  BY <1>0, <1>1, <1>2, RequestMoves
<1>3. CASE ~UNCHANGED <<items, edits, given>>
  <2>1. /\ e.op # "create" => i \in DOMAIN items
        /\ edits' = edits + 1
        /\ items' = [j \in DOMAIN items \cup {i} |->
               IF j # i THEN items[j]
               ELSE LET w == IF e.op = "test" THEN before ELSE Written(before, e) IN
                    [label |-> w.label, content |-> w.content, active |-> w.active,
                     at |-> edits',
                     healthOf |-> CASE e.op = "create" -> e.content
                                    [] e.op = "test" -> e.read.content
                                    [] OTHER -> before.healthOf,
                     healthy |-> IF e.op = "update" THEN before.healthy ELSE e.healthy]]
        /\ given' = [j \in DOMAIN given \cup {i} |-> IF j # i THEN given[j] ELSE Given(base, e)]
    BY <1>3 DEF WriteItem, EditStep
  <2>2. /\ DOMAIN items' = DOMAIN items \cup {i} /\ DOMAIN given' = DOMAIN items'
        /\ i \in 1 .. edits + 1
        /\ e.op = "create" => i \notin DOMAIN items
    <3>1. /\ DOMAIN items' = DOMAIN items \cup {i}
          /\ DOMAIN given' = DOMAIN given \cup {i}
      BY <2>1
    <3>2. CASE e.op = "create"
      BY <1>0, <3>1, <3>2 DEF NewItem
    <3>3. CASE e.op # "create"
      <4>1. i \in DOMAIN items
        BY <2>1, <3>3
      <4> HIDE DEF i
      <4> QED  BY <1>0, <1>c, <3>1, <3>3, <4>1
    <3> QED  BY <3>2, <3>3
  <2>3. \A j \in DOMAIN items \ {i} : items'[j] = items[j] /\ given'[j] = given[j]
    BY <1>0, <2>1
  <2>4. /\ items'[i].label = (IF e.op = "test" THEN before ELSE Written(before, e)).label
        /\ items'[i].content = (IF e.op = "test" THEN before ELSE Written(before, e)).content
        /\ items'[i].active = (IF e.op = "test" THEN before ELSE Written(before, e)).active
        /\ given'[i] = Given(base, e)
    BY <1>0, <2>1
  <2>5. base.label = before.label /\ base.content = before.content /\ base.active = before.active
    <3>1. CASE e.op = "create"
      BY <1>0, <2>2, <3>1
    <3>2. CASE e.op # "create"
      <4>1. i \in DOMAIN items /\ before = items[i] /\ base = given[i]
        BY <1>0, <2>1, <3>2
      <4>2. given[i] = [label |-> items[i].label, content |-> items[i].content,
                        active |-> items[i].active]
        BY <4>1 DEF ItemsInv, EditsAreKept
      <4> HIDE DEF i, before, base
      <4> QED  BY <4>1, <4>2
    <3> QED  BY <3>1, <3>2
  <2>6. given'[i] = [label |-> items'[i].label, content |-> items'[i].content,
                     active |-> items'[i].active]
    <3>1. given'[i] = [label |-> given'[i].label, content |-> given'[i].content,
                       active |-> given'[i].active]
      BY <2>4 DEF Given
    <3> HIDE DEF i, before, base
    <3>2. CASE e.op = "test"
      <4>1. e.label = "" /\ e.content = "" /\ e.status = ""
        BY <1>0, <3>2
      <4> HIDE DEF e
      <4>2. Given(base, e) = [label |-> base.label, content |-> base.content, active |-> base.active]
        BY <4>1 DEF Given
      <4> QED  BY <2>4, <2>5, <3>2, <4>2
    <3>3. CASE e.op # "test"
      <4> HIDE DEF e
      <4>1. Given(before, e) = Given(base, e)
        BY <2>5 DEF Given
      <4> QED  BY <2>4, <3>1, <3>3, <4>1 DEF Written
    <3> QED  BY <3>2, <3>3
  <2>7. EditsAreKept'
    BY <2>2, <2>3, <2>6 DEF ItemsInv, EditsAreKept
  <2>8. RowsFit' /\ EditsFit'
    <3>1. edits' = edits + 1 /\ edits' \in Nat
      <4>1. edits' = edits + 1
        BY <2>1
      <4> QED  BY <1>c, <4>1
    <3>2. DOMAIN editing' = Editors /\ \A d \in Editors \ {c} : editing'[d] = editing[d]
      BY <1>0, <1>1
    <3>3. editing'[c] = NoEdit
      BY <1>0, <1>1
    <3>4. DOMAIN given' = DOMAIN items'
      BY <2>2
    <3>5. EditsFit'
      BY <3>2, <3>3 DEF ItemsInv, EditsFit
    <3>6. DOMAIN items' \subseteq 1 .. edits + 1
      <4> HIDE DEF i
      <4> QED  BY <1>c, <2>2
    <3>7. RowsFit'
      BY <3>1, <3>4, <3>6 DEF RowsFit
    <3> QED  BY <3>5, <3>7
  <2> QED  BY <2>7, <2>8 DEF ItemsInv
<1> QED  BY <1>2, <1>3

LEMMA RemoveStep ==
  ASSUME ItemsInv, NEW i \in DOMAIN items, RemoveItem(i)
  PROVE  ItemsInv'
<1>1. edits \in Nat /\ edits' = edits + 1 /\ editing' = editing
  BY DEF ItemsInv, RowsFit, RemoveItem, EditStep
<1>2. /\ DOMAIN items' = DOMAIN items \ {i} /\ DOMAIN given' = DOMAIN items \ {i}
      /\ \A j \in DOMAIN items \ {i} : items'[j] = items[j] /\ given'[j] = given[j]
  BY DEF ItemsInv, RowsFit, RemoveItem
<1>3. EditsFit'
  BY <1>1 DEF ItemsInv, EditsFit
<1>5. DOMAIN items \subseteq 1 .. edits
  BY DEF ItemsInv, RowsFit
<1>6. DOMAIN items' \subseteq 1 .. edits' /\ DOMAIN given' = DOMAIN items' /\ edits' \in Nat
  BY <1>1, <1>2, <1>5
<1>4. EditsAreKept'
  BY <1>2 DEF ItemsInv, EditsAreKept
<1> QED  BY <1>3, <1>4, <1>6 DEF ItemsInv, RowsFit

LEMMA StartJoinStep ==
  ASSUME PeopleInv, NEW c \in Editors, NEW email \in Emails, NEW slug \in Slugs, NEW w,
         StartJoin(c, email, slug, w)
  PROVE  PeopleInv'
<1>1. joining' = [joining EXCEPT ![c] = [email |-> email, slug |-> slug, workspace |-> w]]
      /\ UNCHANGED <<accounts, workspaces, members>>
  BY DEF StartJoin
<1>2. JoiningFits'
  BY <1>1 DEF PeopleInv, JoiningFits
<1> QED  BY <1>1, <1>2 DEF PeopleInv, Belongs, Administered

\* The transaction adds a user with the membership, and a workspace only with its administrator.
LEMMA JoinStep ==
  ASSUME PeopleInv, NEW c \in Editors, Join(c)
  PROVE  PeopleInv'
<1>a. PICK n : n = Len(accounts) + 1
  OBVIOUS
<1>b. PICK v : v = Len(workspaces) + 1
  OBVIOUS
<1> DEFINE j == joining[c]
           w == IF j.workspace = 0 THEN v ELSE j.workspace
           joins == ~HasAccount(j.email) /\ (j.workspace # 0 \/ LeavesWorkspace(j))
<1>0. /\ j.email \in Emails /\ j.slug \in Slugs
      /\ accounts \in Seq(Emails) /\ workspaces \in Seq(Slugs)
      /\ Len(accounts) \in Nat /\ Len(workspaces) \in Nat
      /\ \A m \in members : m.user \in 1 .. Len(accounts)
  BY LenProperties DEF PeopleInv, JoiningFits, Join
<1>1. /\ DOMAIN joining' = Editors
      /\ \A d \in Editors : joining'[d] # NoEdit => joining'[d].email \in Emails /\ joining'[d].slug \in Slugs
  BY DEF PeopleInv, JoiningFits, Join
<1>2. CASE joins
  <2>1. PICK role \in {"admin", "agent", "viewer"} :
          /\ j.workspace = 0 => role = "admin"
          /\ members' = members \cup {[user |-> n, workspace |-> w, role |-> role]}
    BY <1>2, <1>a, <1>b DEF Join, LeavesWorkspace
  <2> DEFINE new == [user |-> n, workspace |-> w, role |-> role]
  <2>2. /\ accounts' \in Seq(Emails) /\ Len(accounts') = n
    <3>1. accounts' = Append(accounts, j.email)
      BY <1>2 DEF Join, LeavesWorkspace
    <3> QED  BY <1>0, <1>a, <3>1, AppendProperties
  <2>3. \A m \in members' : m.user \in 1 .. n
    BY <1>0, <1>a, <2>1
  <2>4. \A u \in 1 .. n : Belongs(u)'
    <3>1. ASSUME NEW u \in 1 .. Len(accounts) PROVE Belongs(u)'
      <4>1. {m \in members' : m.user = u} = {m \in members : m.user = u}
        BY <1>0, <1>a, <2>1
      <4> QED  BY <2>1, <4>1 DEF PeopleInv, Belongs
    <3>2. {m \in members' : m.user = n} = {new}
      BY <1>0, <1>a, <2>1
    <3>3. Belongs(n)'
      <4>1. new \in members'
        BY <2>1
      <4> HIDE DEF new
      <4> QED  BY <3>2, <4>1 DEF Belongs
    <3>4. \A u \in 1 .. n : u = n \/ u \in 1 .. Len(accounts)
      BY <1>0, <1>a
    <3> QED  BY <3>1, <3>3, <3>4
  <2>5. /\ workspaces' \in Seq(Slugs)
        /\ \A x \in 1 .. Len(workspaces') : Administered(x)'
    <3>1. CASE LeavesWorkspace(j)
      <4>1. workspaces' = Append(workspaces, j.slug)
        BY <3>1 DEF Join
      <4>2. workspaces' \in Seq(Slugs) /\ Len(workspaces') = v
        BY <1>0, <1>b, <4>1, AppendProperties
      <4>3. Administered(v)'
        <5>1. new \in members' /\ new.role = "admin" /\ new.workspace = v
          BY <2>1, <3>1 DEF LeavesWorkspace
        <5> HIDE DEF new
        <5> QED  BY <5>1 DEF Administered
      <4>4. \A x \in 1 .. Len(workspaces) : Administered(x)'
        BY <2>1 DEF Administered, PeopleInv
      <4>5. \A x \in 1 .. v : x = v \/ x \in 1 .. Len(workspaces)
        BY <1>0, <1>b
      <4> QED  BY <4>2, <4>3, <4>4, <4>5
    <3>2. CASE ~LeavesWorkspace(j)
      <4>1. workspaces' = workspaces
        BY <3>2 DEF Join
      <4>2. \A x \in 1 .. Len(workspaces) : Administered(x)'
        BY <2>1 DEF Administered, PeopleInv
      <4> QED  BY <1>0, <4>1, <4>2
    <3> QED  BY <3>1, <3>2
  <2> QED  BY <1>1, <2>2, <2>3, <2>4, <2>5 DEF PeopleInv, JoiningFits
<1>3. CASE ~joins
  <2>1. UNCHANGED <<accounts, members, workspaces>>
    BY <1>3 DEF Join, LeavesWorkspace
  <2> QED  BY <1>1, <2>1 DEF PeopleInv, JoiningFits, Belongs, Administered
<1> QED  BY <1>2, <1>3

LEMMA SetupKeeps == SetupInv /\ [SettingsNext]_settingsVars => SetupInv'
<1> SUFFICES ASSUME SetupInv, [SettingsNext]_settingsVars PROVE ItemsInv' /\ PeopleInv'
  BY DEF SetupInv
<1>1. UNCHANGED itemVars => ItemsInv'
  BY DEF SetupInv, ItemsInv, RowsFit, EditsFit, EditsAreKept, itemVars
<1>2. UNCHANGED peopleVars => PeopleInv'
  BY DEF SetupInv, PeopleInv, JoiningFits, Belongs, Administered, peopleVars
<1>3. CASE ItemsNext
  <2>1. ItemsInv'
    BY <1>3, RequestSteps, WriteStep, RemoveStep DEF SetupInv, ItemsNext
  <2> QED  BY <1>2, <1>3, <2>1 DEF ItemsNext
<1>4. CASE DraftReply \/ Completion
  BY <1>1, <1>2, <1>4 DEF DraftReply, Completion
<1>5. CASE PeopleNext
  <2>0. \A k \in DOMAIN workspaces : workspaces[k] \in Slugs
    BY ElementOfSeq DEF SetupInv, PeopleInv, JoiningFits
  <2>1. PeopleInv'
    BY <1>5, <2>0, StartJoinStep, JoinStep DEF SetupInv, PeopleNext
  <2>2. UNCHANGED itemVars
    BY <1>5 DEF PeopleNext, StartJoin, Join
  <2> QED  BY <1>1, <2>1, <2>2
<1>6. CASE UNCHANGED settingsVars
  BY <1>1, <1>2, <1>6 DEF settingsVars
<1> QED  BY <1>3, <1>4, <1>5, <1>6 DEF SettingsNext

LEMMA SetupAgrees == SetupInv => EditsAreKept /\ EveryoneBelongs
<1> SUFFICES ASSUME PeopleInv PROVE EveryoneBelongs
  BY DEF SetupInv, ItemsInv
<1>1. /\ DOMAIN accounts = 1 .. Len(accounts) /\ DOMAIN workspaces = 1 .. Len(workspaces)
  BY LenProperties DEF PeopleInv, JoiningFits
<1>2. ASSUME NEW u \in DOMAIN accounts PROVE Cardinality({m \in members : m.user = u}) = 1
  <2>1. PICK m \in members : {n \in members : n.user = u} = {m}
    BY <1>1 DEF PeopleInv, Belongs
  <2>2. Cardinality({m}) = 1
    BY FS_Singleton, Zenon
  <2> QED  BY <2>1, <2>2
<1> QED  BY <1>1, <1>2 DEF EveryoneBelongs, PeopleInv, Administered

\* What a draft is made from.

\* Where the turns begin, and where the last one ends.
Begin(ms) == {k \in DOMAIN ms : k = 1 \/ transcript[ms[k]].role # transcript[ms[k - 1]].role}
Turns(ms) == Cardinality(Begin(ms))
Edges(ms) == Append(Ascending(Begin(ms)), Len(ms) + 1)

\* The turns are laid end to end.
LEMMA EdgesHold ==
  ASSUME NEW E, NEW ms \in Seq(E), Len(ms) > 0
  PROVE  /\ Turns(ms) \in Nat /\ Turns(ms) > 0
         /\ Edges(ms)[1] = 1 /\ Edges(ms)[Turns(ms) + 1] = Len(ms) + 1
         /\ \A t \in 1 .. Turns(ms) : Edges(ms)[t] \in Begin(ms)
         /\ \A t \in 1 .. Turns(ms) + 1 : Edges(ms)[t] \in 1 .. Len(ms) + 1
         /\ \A t, u \in 1 .. Turns(ms) + 1 : t < u => Edges(ms)[t] < Edges(ms)[u]
         /\ \A k \in Begin(ms) : \E t \in 1 .. Turns(ms) : Edges(ms)[t] = k
<1> DEFINE B == Begin(ms)
           n == Turns(ms)
           s == Ascending(B)
           e == Edges(ms)
<1>1. Len(ms) \in Nat /\ DOMAIN ms = 1 .. Len(ms)
  BY LenProperties
<1>2. B \subseteq 1 .. Len(ms) /\ 1 \in B
  BY <1>1 DEF Begin
<1>3. IsFiniteSet(B) /\ B \in SUBSET Nat
  <2>1. B \in SUBSET (1 .. Len(ms))
    BY <1>2
  <2> HIDE DEF B
  <2> QED  BY <1>1, <2>1, PlacesAreNumbers
<1>4. n = Cardinality(B)
  BY DEF Turns
<1>5. e = Append(s, Len(ms) + 1)
  BY DEF Edges
<1> HIDE DEF B, n, e
<1>6. /\ n \in Nat /\ s \in Seq(B) /\ Len(s) = n
      /\ \A i \in 1 .. n : s[i] \in B
  BY <1>3, <1>4, AscendingHolds
<1>7. /\ \A i, j \in 1 .. n : i < j => s[i] < s[j]
      /\ \A x \in B : \E i \in 1 .. n : s[i] = x
  BY <1>3, <1>4, AscendingHolds
<1> HIDE DEF s
<1>8. /\ \A t \in 1 .. n : e[t] = s[t]
      /\ e[n + 1] = Len(ms) + 1
  BY <1>1, <1>5, <1>6
<1>9. PICK o \in 1 .. n : s[o] = 1
  BY <1>2, <1>7
<1>10. n > 0 /\ s[1] = 1
  <2>0. n > 0 /\ 1 \in 1 .. n
    BY <1>6, <1>9
  <2>1. n > 0 /\ 1 \in 1 .. n /\ s[1] \in 1 .. Len(ms)
    BY <1>2, <1>6, <2>0
  <2>2. o = 1
    <3>1. o > 1 => s[1] < s[o]
      BY <1>7, <1>9, <2>1
    <3> QED  BY <1>1, <1>6, <1>9, <2>1, <3>1
  <2> QED  BY <1>9, <2>1, <2>2
<1>11. \A t \in 1 .. n : e[t] \in B /\ e[t] \in 1 .. Len(ms)
  BY <1>2, <1>6, <1>8
<1>12. \A t \in 1 .. n + 1 : e[t] \in 1 .. Len(ms) + 1
  BY <1>1, <1>6, <1>8, <1>11
<1>13. ASSUME NEW t \in 1 .. n + 1, NEW u \in 1 .. n + 1, t < u PROVE e[t] < e[u]
  <2>1. CASE u = n + 1
    <3>1. t \in 1 .. n
      BY <1>6, <1>13, <2>1
    <3> QED  BY <1>1, <1>8, <1>11, <2>1, <3>1
  <2>2. CASE u # n + 1
    BY <1>6, <1>7, <1>8, <1>13, <2>2
  <2> QED  BY <2>1, <2>2
<1>14. e[1] = 1
  BY <1>6, <1>8, <1>10
<1>15. \A k \in B : \E t \in 1 .. n : e[t] = k
  BY <1>7, <1>8
<1> QED  BY <1>6, <1>8, <1>10, <1>11, <1>12, <1>13, <1>14, <1>15 DEF B, n, e

\* The places of the turn t.
Turn(ms, t) == Edges(ms)[t] .. Edges(ms)[t + 1] - 1

\* Every place is in one, and the turns follow each other.
LEMMA TurnsCover ==
  ASSUME NEW E, NEW ms \in Seq(E), Len(ms) > 0
  PROVE  /\ \A t \in 1 .. Turns(ms) : Turn(ms, t) \subseteq 1 .. Len(ms) /\ Edges(ms)[t] \in Turn(ms, t)
         /\ \A k \in 1 .. Len(ms) : \E t \in 1 .. Turns(ms) : k \in Turn(ms, t)
         /\ \A t \in 1 .. Turns(ms) : \A u \in 1 .. t - 1 :
              \A i \in Turn(ms, u), j \in Turn(ms, t) : i < j
<1> DEFINE n == Turns(ms)
           e == Edges(ms)
<1>1. Len(ms) \in Nat /\ n \in Nat /\ n > 0
  BY EdgesHold, LenProperties
<1>2. /\ e[1] = 1 /\ e[n + 1] = Len(ms) + 1
      /\ \A t \in 1 .. n + 1 : e[t] \in 1 .. Len(ms) + 1
      /\ \A t, u \in 1 .. n + 1 : t < u => e[t] < e[u]
  BY EdgesHold
<1>d. \A t : Turn(ms, t) = e[t] .. e[t + 1] - 1
  BY DEF Turn
<1> HIDE DEF n, e
<1>3. ASSUME NEW t \in 1 .. n
      PROVE  /\ t \in 1 .. n + 1 /\ t + 1 \in 1 .. n + 1 /\ e[t] \in Nat /\ e[t + 1] \in Nat
             /\ e[t] < e[t + 1] /\ e[t] >= 1 /\ e[t + 1] <= Len(ms) + 1
  <2>1. t \in 1 .. n + 1 /\ t + 1 \in 1 .. n + 1 /\ t < t + 1
    BY <1>1
  <2>2. e[t] \in 1 .. Len(ms) + 1 /\ e[t + 1] \in 1 .. Len(ms) + 1 /\ e[t] < e[t + 1]
    BY <1>2, <2>1
  <2> QED  BY <1>1, <2>1, <2>2
<1>4. ASSUME NEW t \in 1 .. n PROVE Turn(ms, t) \subseteq 1 .. Len(ms) /\ e[t] \in Turn(ms, t)
  <2>1. /\ e[t] \in Nat /\ e[t + 1] \in Nat
        /\ e[t] < e[t + 1] /\ e[t] >= 1 /\ e[t + 1] <= Len(ms) + 1
    BY <1>3
  <2> QED  BY <1>1, <1>d, <2>1
<1>5. ASSUME NEW k \in 1 .. Len(ms) PROVE \E t \in 1 .. n : k \in Turn(ms, t)
  <2> DEFINE later == {u \in 1 .. n : e[u + 1] > k}
  <2>1. later \in SUBSET (1 .. n) /\ n \in later
    BY <1>1, <1>2
  <2>2. IsFiniteSet(later) /\ later \in SUBSET Nat /\ later # {}
    <3> HIDE DEF later
    <3> QED  BY <1>1, <2>1, PlacesAreNumbers
  <2>3. PICK t \in later : \A u \in later : t <= u
    <3> HIDE DEF later
    <3> QED  BY <2>2, LeastIs
  <2>4. t \in 1 .. n /\ e[t + 1] > k
    BY <2>3
  <2>5. e[t] <= k
    <3>1. CASE t = 1
      BY <1>1, <1>2, <3>1
    <3>2. CASE t # 1
      <4>1. t - 1 \in 1 .. n /\ t - 1 \notin later /\ t - 1 + 1 = t
        BY <1>1, <2>3, <2>4, <3>2
      <4>2. ~(e[t - 1 + 1] > k)
        BY <4>1
      <4> QED  BY <1>3, <2>4, <4>1, <4>2
    <3> QED  BY <3>1, <3>2
  <2>6. e[t] \in Nat /\ e[t + 1] \in Nat
    BY <1>3, <2>4
  <2> QED  BY <1>d, <2>4, <2>5, <2>6
<1>6. ASSUME NEW t \in 1 .. n, NEW u \in 1 .. t - 1, NEW i \in Turn(ms, u), NEW j \in Turn(ms, t)
      PROVE  i < j
  <2>1. u \in 1 .. n /\ u + 1 \in 1 .. n + 1 /\ t \in 1 .. n + 1 /\ (u + 1 = t \/ u + 1 < t)
    BY <1>1
  <2>2. e[u + 1] <= e[t] /\ e[u + 1] \in Nat /\ e[t] \in Nat
    BY <1>2, <1>3, <2>1
  <2>4. e[u] \in Nat /\ e[t + 1] \in Nat
    BY <1>3, <2>1
  <2>3. i \in Int /\ i < e[u + 1] /\ j \in Int /\ e[t] <= j
    <3>1. i \in e[u] .. e[u + 1] - 1 /\ j \in e[t] .. e[t + 1] - 1
      BY <1>d
    <3> QED  BY <2>2, <2>4, <3>1
  <2> QED  BY <2>2, <2>3
<1> QED  BY <1>4, <1>5, <1>6 DEF n, e

\* All of a turn is said by one side, and the other one has the next.
LEMMA SidesTakeTurns ==
  ASSUME NEW ms \in Seq(DOMAIN transcript), Len(ms) > 0,
         \A x \in DOMAIN transcript : transcript[x].role \in Roles,
         transcript[ms[1]].role = "user"
  PROVE  \A t \in 1 .. Turns(ms) : \A k \in Turn(ms, t) :
           transcript[ms[k]].role = IF t % 2 = 1 THEN "user" ELSE "assistant"
<1> DEFINE n == Turns(ms)
           e == Edges(ms)
           L == Len(ms)
           role == [k \in 1 .. L |-> transcript[ms[k]].role]
           side(t) == IF t % 2 = 1 THEN "user" ELSE "assistant"
<1>1. L \in Nat /\ n \in Nat /\ n > 0 /\ DOMAIN ms = 1 .. L /\ L > 0
  BY EdgesHold, LenProperties
<1>2. /\ e[1] = 1 /\ e[n + 1] = Len(ms) + 1
      /\ \A t \in 1 .. n : e[t] \in Begin(ms)
      /\ \A t, u \in 1 .. n + 1 : t < u => e[t] < e[u]
      /\ \A k \in Begin(ms) : \E t \in 1 .. n : e[t] = k
  BY EdgesHold
<1>3. \A t \in 1 .. n : Turn(ms, t) \subseteq 1 .. L /\ e[t] \in Turn(ms, t)
  BY TurnsCover
<1>4. \A t \in 1 .. n + 1 : e[t] \in Nat
  BY EdgesHold
<1>d. \A t : Turn(ms, t) = e[t] .. e[t + 1] - 1
  BY DEF Turn
<1>5. \A k \in 1 .. L : role[k] \in Roles /\ (k \in Begin(ms) <=> k = 1 \/ role[k] # role[k - 1])
  <2> SUFFICES ASSUME NEW k \in 1 .. L
               PROVE  role[k] \in Roles /\ (k \in Begin(ms) <=> k = 1 \/ role[k] # role[k - 1])
    OBVIOUS
  <2>1. ms[k] \in DOMAIN transcript
    BY <1>1
  <2>2. k = 1 \/ k - 1 \in 1 .. L
    BY <1>1
  <2> QED  BY <1>1, <2>1, <2>2 DEF Begin
<1>6. role[1] = "user"
  BY <1>1
<1>7. \A k \in 1 .. L : role[k] = transcript[ms[k]].role
  OBVIOUS
<1> HIDE DEF n, e, L, role
\* Within a turn nobody begins ...
<1>8. ASSUME NEW t \in 1 .. n, NEW k \in Turn(ms, t), k # e[t] PROVE k \notin Begin(ms)
  <2>1. t \in 1 .. n + 1 /\ t + 1 \in 1 .. n + 1 /\ e[t] \in Nat /\ e[t + 1] \in Nat
    BY <1>1, <1>4
  <2>2. k \in Int /\ e[t] < k /\ k < e[t + 1]
    BY <1>d, <1>8, <2>1
  <2>3. ASSUME NEW u \in 1 .. n, e[u] = k PROVE FALSE
    <3>1. u \in 1 .. n + 1 /\ (u = t \/ u < t \/ u = t + 1 \/ u > t + 1)
      BY <1>1
    <3>2. u < t => e[u] < e[t]
      BY <1>2, <2>1, <3>1
    <3>3. u > t + 1 => e[t + 1] < e[u]
      BY <1>2, <2>1, <3>1
    <3> QED  BY <2>1, <2>2, <2>3, <3>1, <3>2, <3>3
  <2> QED  BY <1>2, <2>3
\* ... so that it is one side's.
<1>9. ASSUME NEW t \in 1 .. n PROVE \A k \in Turn(ms, t) : role[k] = role[e[t]]
  <2> DEFINE bad == {k \in Turn(ms, t) : role[k] # role[e[t]]}
  <2>1. bad \in SUBSET (1 .. L)
    BY <1>3
  <2>2. IsFiniteSet(bad) /\ bad \in SUBSET Nat
    <3> HIDE DEF bad
    <3> QED  BY <1>1, <2>1, PlacesAreNumbers
  <2>3. ASSUME NEW k \in bad, \A j \in bad : k <= j PROVE FALSE
    <3>1. t \in 1 .. n + 1 /\ t + 1 \in 1 .. n + 1 /\ e[t] \in Nat /\ e[t + 1] \in Nat
      BY <1>1, <1>4
    <3>2. k \in Turn(ms, t) /\ k # e[t] /\ k \in 1 .. L
      BY <1>3
    <3>3. k \in Nat /\ e[t] < k /\ k <= e[t + 1] - 1
      BY <1>d, <3>1, <3>2
    <3>4. k - 1 \in Turn(ms, t) /\ k - 1 \notin bad
      <4>1. k - 1 \in Turn(ms, t)
        BY <1>d, <3>1, <3>3
      <4>2. k - 1 \in Nat /\ ~(k <= k - 1)
        BY <3>1, <3>3
      <4> HIDE DEF bad
      <4> QED  BY <2>3, <4>1, <4>2
    <3>5. role[k - 1] = role[e[t]]
      BY <3>4
    <3>6. k \notin Begin(ms)
      BY <1>8, <3>2
    <3> QED  BY <1>5, <2>3, <3>2, <3>5, <3>6
  <2>4. bad = {}
    <3> HIDE DEF bad
    <3> QED  BY <2>2, <2>3, LeastIs
  <2> QED  BY <2>4
<1>10. \A t \in 1 .. n : role[e[t]] = side(t)
  <2> DEFINE bad == {t \in 1 .. n : role[e[t]] # side(t)}
  <2>1. IsFiniteSet(bad) /\ bad \in SUBSET Nat
    <3>1. bad \in SUBSET (1 .. n)
      OBVIOUS
    <3> HIDE DEF bad
    <3> QED  BY <1>1, <3>1, PlacesAreNumbers
  <2>2. ASSUME NEW t \in bad, \A j \in bad : t <= j PROVE FALSE
    <3>1. t \in 1 .. n /\ role[e[t]] # side(t)
      OBVIOUS
    <3>2. t # 1
      BY <1>2, <1>6, <3>1
    <3>3. t - 1 \in 1 .. n /\ t \in 1 .. n + 1 /\ t - 1 + 1 = t /\ ~(t <= t - 1)
      BY <1>1, <3>1, <3>2
    <3>4. role[e[t - 1]] = side(t - 1)
      BY <2>2, <3>3
    <3>5. e[t - 1] \in Nat /\ e[t] \in Nat /\ e[t - 1] < e[t]
      BY <1>1, <1>2, <1>4, <3>3
    <3>6. e[t] - 1 \in Turn(ms, t - 1)
      BY <1>d, <3>3, <3>5
    <3>7. role[e[t] - 1] = side(t - 1)
      BY <1>9, <3>3, <3>4, <3>6
    <3>8. e[t] \in Begin(ms) /\ e[t] \in 1 .. L /\ e[t] # 1
      BY <1>1, <1>2, <1>3, <3>1, <3>3, <3>5
    <3>9. role[e[t]] # side(t - 1) /\ role[e[t]] \in Roles
      BY <1>5, <3>7, <3>8
    <3>10. side(t - 1) # side(t)
      <4>1. t \in Nat
        BY <1>1, <3>1
      <4>2. t % 2 = 1 <=> ~((t - 1) % 2 = 1)
        BY <4>1
      <4> QED  BY <4>2
    <3> QED  BY <3>1, <3>9, <3>10 DEF Roles
  <2>3. bad = {}
    <3> HIDE DEF bad
    <3> QED  BY <2>1, <2>2, LeastIs
  <2> QED  BY <2>3
<1>11. ASSUME NEW t \in 1 .. n, NEW k \in Turn(ms, t) PROVE transcript[ms[k]].role = side(t)
  BY <1>3, <1>7, <1>9, <1>10
<1> QED  BY <1>11 DEF n

\* The last messages that have a text.
Recent == {n \in DOMAIN transcript : n + HistoryLimit > Len(transcript) /\ ~transcript[n].blank}

\* What normalizeForCompletion starts from: the messages from the client's first on.
LEMMA FromTheClientOn ==
  ASSUME transcript \in Transcripts, HistoryLimit \in Nat, MaxTranscript \in Nat,
         normalizeForCompletion(recentMessages) # <<>>
  PROVE  \E ms \in Seq(DOMAIN transcript) :
           /\ normalizeForCompletion(recentMessages) = Merged(ms)
           /\ Len(ms) > 0 /\ transcript[ms[1]].role = "user"
           /\ \A i, j \in 1 .. Len(ms) : i < j => ms[i] < ms[j]
           /\ \A n \in DOMAIN transcript :
                (\E k \in 1 .. Len(ms) : ms[k] = n)
                  <=> n \in Recent /\ \E f \in Recent : f <= n /\ transcript[f].role = "user"
<1> DEFINE all == recentMessages
           n == Cardinality(Recent)
           client == {k \in DOMAIN all : transcript[all[k]].role = "user"}
           first == CHOOSE k \in client : \A j \in client : k <= j
           ms == SubSeq(all, first, Len(all))
<1>1. PICK m \in Nat : transcript \in [1 .. m -> [role : Roles, blank : BOOLEAN]]
  BY DEF Transcripts
<1>2. Len(transcript) = m /\ DOMAIN transcript = 1 .. m
  BY <1>1, LenProperties, SeqDef
<1>3. Recent \in SUBSET (1 .. m)
  BY <1>2 DEF Recent
<1>4. IsFiniteSet(Recent) /\ Recent \in SUBSET Nat
  BY <1>3, PlacesAreNumbers
<1>5. all = Ascending(Recent)
  BY DEF recentMessages, Recent
<1>6. /\ n \in Nat /\ all \in Seq(Recent) /\ Len(all) = n
      /\ \A i \in 1 .. n : all[i] \in Recent
  BY <1>4, <1>5, AscendingHolds
<1>7. /\ \A i, j \in 1 .. n : i < j => all[i] < all[j]
      /\ \A x \in Recent : \E i \in 1 .. n : all[i] = x
  BY <1>4, <1>5, AscendingHolds
<1>8. normalizeForCompletion(all) = IF client = {} THEN <<>> ELSE Merged(ms)
  BY DEF normalizeForCompletion
<1> HIDE DEF n, all
<1>9. client # {} /\ normalizeForCompletion(all) = Merged(ms)
  BY <1>8 DEF all
<1>10. DOMAIN all = 1 .. n
  BY <1>6, LenProperties
<1>11. first \in client /\ \A j \in client : first <= j
  <2>1. client \in SUBSET (1 .. n)
    BY <1>10
  <2>2. IsFiniteSet(client) /\ client \in SUBSET Nat
    <3> HIDE DEF client
    <3> QED  BY <1>6, <2>1, PlacesAreNumbers
  <2>3. \E x \in client : \A j \in client : x <= j
    <3> HIDE DEF client
    <3> QED  BY <1>9, <2>2, LeastIs
  <2> HIDE DEF client
  <2> QED  BY <2>3
<1>12. first \in 1 .. n /\ transcript[all[first]].role = "user"
  BY <1>10, <1>11
<1>c. \A k \in 1 .. n : transcript[all[k]].role = "user" => first <= k
  BY <1>10, <1>11
<1> HIDE DEF client, first
<1>13. /\ ms \in Seq(DOMAIN transcript) /\ Len(ms) = n - first + 1
       /\ \A i \in 1 .. Len(ms) : ms[i] = all[first + i - 1] /\ first + i - 1 \in 1 .. n
  <2>1. \A i \in first .. n : all[i] \in DOMAIN transcript
    BY <1>2, <1>3, <1>6, <1>12
  <2>2. first \in Int /\ n \in Int /\ first <= n /\ Len(all) = n
    BY <1>6, <1>12
  <2>3. ms \in Seq(DOMAIN transcript) /\ Len(ms) = n - first + 1
    BY <2>1, <2>2, SubSeqProperties
  <2>4. \A i \in 1 .. n - first + 1 : ms[i] = all[first + i - 1]
    BY <2>1, <2>2, SubSeqProperties
  <2>5. \A i \in 1 .. n - first + 1 : first + i - 1 \in 1 .. n
    BY <1>12, <2>2
  <2> HIDE DEF ms
  <2> QED  BY <2>3, <2>4, <2>5
<1> HIDE DEF ms
<1>14. Len(ms) > 0 /\ ms[1] = all[first]
  BY <1>6, <1>12, <1>13
<1>15. ASSUME NEW i \in 1 .. Len(ms), NEW j \in 1 .. Len(ms), i < j PROVE ms[i] < ms[j]
  <2>1. first + i - 1 < first + j - 1
    BY <1>6, <1>12, <1>15
  <2> QED  BY <1>7, <1>13, <2>1
<1>16. ASSUME NEW x \in Recent, NEW f \in Recent, f <= x, transcript[f].role = "user"
       PROVE  \E k \in 1 .. Len(ms) : ms[k] = x
  <2>1. PICK p \in 1 .. n : all[p] = f
    BY <1>7
  <2>2. PICK q \in 1 .. n : all[q] = x
    BY <1>7
  <2>3. first <= p
    BY <1>c, <1>16, <2>1
  <2>4. ~(q < p)
    <3>1. q < p => all[q] < all[p]
      BY <1>7
    <3>2. x \in Nat /\ f \in Nat
      BY <1>4
    <3> QED  BY <1>16, <2>1, <2>2, <3>1, <3>2
  <2>5. q - first + 1 \in 1 .. Len(ms) /\ first + (q - first + 1) - 1 = q
    BY <1>6, <1>12, <1>13, <2>3, <2>4
  <2> QED  BY <1>13, <2>2, <2>5
<1>17. ASSUME NEW k \in 1 .. Len(ms)
       PROVE  ms[k] \in Recent /\ \E f \in Recent : f <= ms[k] /\ transcript[f].role = "user"
  <2>1. ms[k] \in Recent /\ all[first] \in Recent
    BY <1>6, <1>12, <1>13
  <2>2. 1 \in 1 .. Len(ms) /\ (k = 1 \/ 1 < k)
    BY <1>6, <1>12, <1>13, <1>14
  <2>3. k = 1 \/ ms[1] < ms[k]
    BY <1>15, <2>2
  <2>4. ms[k] \in Nat /\ all[first] \in Nat
    BY <1>4, <2>1
  <2>5. all[first] <= ms[k]
    BY <1>14, <2>3, <2>4
  <2> QED  BY <1>12, <2>1, <2>5
<1>18. \A x \in DOMAIN transcript :
         (\E k \in 1 .. Len(ms) : ms[k] = x)
           <=> x \in Recent /\ \E f \in Recent : f <= x /\ transcript[f].role = "user"
  BY <1>16, <1>17
<1> QED  BY <1>9, <1>12, <1>13, <1>14, <1>15, <1>18 DEF all

\* What a turn holds.
LEMMA TurnsHold ==
  ASSUME NEW E, NEW ms \in Seq(E), Len(ms) > 0
  PROVE  /\ DOMAIN Merged(ms) = 1 .. Turns(ms)
         /\ \A t \in 1 .. Turns(ms) :
              /\ Merged(ms)[t].role = transcript[ms[Edges(ms)[t]]].role
              /\ \A j \in DOMAIN Merged(ms)[t].content :
                   /\ Edges(ms)[t] + j - 1 \in Turn(ms, t)
                   /\ Merged(ms)[t].content[j] = ms[Edges(ms)[t] + j - 1]
              /\ \A k \in Turn(ms, t) : \E j \in DOMAIN Merged(ms)[t].content :
                   Merged(ms)[t].content[j] = ms[k]
              /\ \E l \in Nat : DOMAIN Merged(ms)[t].content = 1 .. l
<1> DEFINE n == Turns(ms)
           e == Edges(ms)
           T == Merged(ms)
<1>1. T = [t \in 1 .. n |-> [role |-> transcript[ms[e[t]]].role,
                             content |-> SubSeq(ms, e[t], e[t + 1] - 1)]]
  BY DEF Merged, Turns, Edges, Begin
<1>2. Len(ms) \in Nat /\ n \in Nat /\ n > 0 /\ \A k \in 1 .. Len(ms) : ms[k] \in E
  BY EdgesHold, LenProperties
<1>3. /\ \A t \in 1 .. n + 1 : e[t] \in 1 .. Len(ms) + 1
      /\ \A t, u \in 1 .. n + 1 : t < u => e[t] < e[u]
  BY EdgesHold
<1>d. \A t : Turn(ms, t) = e[t] .. e[t + 1] - 1
  BY DEF Turn
<1> HIDE DEF n, e, T
<1>4. ASSUME NEW t \in 1 .. n
      PROVE  /\ \A j \in DOMAIN T[t].content :
                   /\ e[t] + j - 1 \in Turn(ms, t)
                   /\ T[t].content[j] = ms[e[t] + j - 1]
             /\ \A k \in Turn(ms, t) : \E j \in DOMAIN T[t].content : T[t].content[j] = ms[k]
             /\ \E l \in Nat : DOMAIN T[t].content = 1 .. l
  <2> DEFINE c == T[t].content
             a == e[t]
             b == e[t + 1] - 1
  <2>1. c = SubSeq(ms, a, b)
    BY <1>1
  <2>2. t \in 1 .. n + 1 /\ t + 1 \in 1 .. n + 1 /\ t < t + 1
    BY <1>2
  <2>3. a \in 1 .. Len(ms) + 1 /\ b + 1 \in 1 .. Len(ms) + 1 /\ a < b + 1 /\ b \in Int
    BY <1>2, <1>3, <2>2
  <2>4. Turn(ms, t) = a .. b
    BY <1>d
  <2> HIDE DEF a, b, c
  <2>5. \A k \in a .. b : ms[k] \in E
    BY <1>2, <2>3
  <2>6. c \in Seq(E) /\ Len(c) = b - a + 1
    BY <2>1, <2>3, <2>5, SubSeqProperties
  <2>7. \A j \in 1 .. b - a + 1 : c[j] = ms[a + j - 1]
    BY <2>1, <2>3, <2>5, SubSeqProperties
  <2>8. DOMAIN c = 1 .. b - a + 1
    BY <2>6, LenProperties
  <2>9. \A j \in DOMAIN c : a + j - 1 \in Turn(ms, t) /\ c[j] = ms[a + j - 1]
    BY <2>3, <2>4, <2>7, <2>8
  <2>10. ASSUME NEW k \in Turn(ms, t) PROVE \E j \in DOMAIN c : c[j] = ms[k]
    <3>1. k - a + 1 \in DOMAIN c /\ a + (k - a + 1) - 1 = k
      BY <2>3, <2>4, <2>8
    <3> QED  BY <2>9, <3>1
  <2>11. \E l \in Nat : DOMAIN c = 1 .. l
    <3>1. b - a + 1 \in Nat
      BY <2>3
    <3> QED  BY <2>8, <3>1
  <2> QED  BY <2>9, <2>10, <2>11 DEF a, c
<1>5. DOMAIN T = 1 .. n /\ \A t \in 1 .. n : T[t].role = transcript[ms[e[t]]].role
  BY <1>1
<1> QED  BY <1>4, <1>5 DEF n, e, T

\* So a draft is made from the client's and the team's turns.
LEMMA NormalizedFollows ==
  ASSUME transcript \in Transcripts, HistoryLimit \in Nat, MaxTranscript \in Nat,
         draft.turns = normalizeForCompletion(recentMessages)
  PROVE  DraftFollowsChat
<1> SUFFICES ASSUME draft.turns # <<>> PROVE DraftFollowsChat
  BY DEF DraftFollowsChat
<1>1. PICK ms \in Seq(DOMAIN transcript) :
        /\ draft.turns = Merged(ms)
        /\ Len(ms) > 0 /\ transcript[ms[1]].role = "user"
        /\ \A i, j \in 1 .. Len(ms) : i < j => ms[i] < ms[j]
        /\ \A n \in DOMAIN transcript :
             (\E k \in 1 .. Len(ms) : ms[k] = n)
               <=> n \in Recent /\ \E f \in Recent : f <= n /\ transcript[f].role = "user"
  BY FromTheClientOn
<1> DEFINE T == draft.turns
           n == Turns(ms)
           e == Edges(ms)
           Said(t) == {T[t].content[j] : j \in DOMAIN T[t].content}
           sent == UNION {Said(t) : t \in DOMAIN T}
<1>2. PICK m \in Nat : transcript \in [1 .. m -> [role : Roles, blank : BOOLEAN]]
  BY DEF Transcripts
<1>3. /\ Len(transcript) = m /\ DOMAIN transcript = 1 .. m
      /\ \A x \in DOMAIN transcript : transcript[x].role \in Roles
  BY <1>2, LenProperties, SeqDef
<1>4. DOMAIN T = 1 .. n
  BY <1>1, TurnsHold
<1>5. ASSUME NEW t \in 1 .. n
      PROVE  /\ T[t].role = transcript[ms[e[t]]].role
             /\ \A j \in DOMAIN T[t].content : e[t] + j - 1 \in Turn(ms, t) /\ T[t].content[j] = ms[e[t] + j - 1]
             /\ \A k \in Turn(ms, t) : \E j \in DOMAIN T[t].content : T[t].content[j] = ms[k]
             /\ \E l \in Nat : DOMAIN T[t].content = 1 .. l
  BY <1>1, TurnsHold
<1>6. /\ \A t \in 1 .. n : Turn(ms, t) \subseteq 1 .. Len(ms) /\ e[t] \in Turn(ms, t)
      /\ \A k \in 1 .. Len(ms) : \E t \in 1 .. n : k \in Turn(ms, t)
  BY <1>1, TurnsCover
<1>7. \A t \in 1 .. n : \A u \in 1 .. t - 1 : \A i \in Turn(ms, u), j \in Turn(ms, t) : i < j
  BY <1>1, TurnsCover
<1>8. \A t \in 1 .. n : \A k \in Turn(ms, t) :
        transcript[ms[k]].role = IF t % 2 = 1 THEN "user" ELSE "assistant"
  BY <1>1, <1>3, SidesTakeTurns
<1>e. \A t \in 1 .. n : e[t] \in Nat /\ n \in Nat
  BY <1>1, EdgesHold
<1> HIDE DEF T, n, e
<1>9. ASSUME NEW t \in DOMAIN T
      PROVE  /\ T[t].role = IF t % 2 = 1 THEN "user" ELSE "assistant"
             /\ \A x \in Said(t) : transcript[x].role = T[t].role
  <2>1. t \in 1 .. n /\ e[t] \in Turn(ms, t)
    BY <1>4, <1>6
  <2>2. T[t].role = IF t % 2 = 1 THEN "user" ELSE "assistant"
    BY <1>5, <1>8, <2>1
  <2>3. ASSUME NEW x \in Said(t) PROVE transcript[x].role = T[t].role
    <3>1. PICK j \in DOMAIN T[t].content : x = T[t].content[j]
      OBVIOUS
    <3>2. e[t] + j - 1 \in Turn(ms, t) /\ x = ms[e[t] + j - 1]
      BY <1>5, <2>1, <3>1
    <3> QED  BY <1>8, <2>1, <2>2, <3>2
  <2> QED  BY <2>2, <2>3
<1>10. \A x : x \in sent <=> \E k \in 1 .. Len(ms) : ms[k] = x
  <2>1. ASSUME NEW x \in sent PROVE \E k \in 1 .. Len(ms) : ms[k] = x
    <3>1. PICK t \in DOMAIN T : x \in Said(t)
      OBVIOUS
    <3>2. PICK j \in DOMAIN T[t].content : x = T[t].content[j]
      BY <3>1
    <3>3. e[t] + j - 1 \in Turn(ms, t) /\ x = ms[e[t] + j - 1] /\ t \in 1 .. n
      BY <1>4, <1>5, <3>2
    <3>4. e[t] + j - 1 \in 1 .. Len(ms)
      BY <1>6, <3>3
    <3> QED  BY <3>3, <3>4
  <2>2. ASSUME NEW x, NEW k \in 1 .. Len(ms), ms[k] = x PROVE x \in sent
    <3>1. PICK t \in 1 .. n : k \in Turn(ms, t)
      BY <1>6
    <3>2. PICK j \in DOMAIN T[t].content : T[t].content[j] = x
      BY <1>5, <2>2, <3>1
    <3>3. x \in Said(t) /\ t \in DOMAIN T
      BY <1>4, <3>2
    <3> QED  BY <3>3
  <2> QED  BY <2>1, <2>2
<1> HIDE DEF sent
<1>11. ASSUME NEW x \in DOMAIN transcript
       PROVE  x \in sent <=>
                /\ ~transcript[x].blank
                /\ \E f \in 1 .. x : /\ f + HistoryLimit > Len(transcript)
                                     /\ transcript[f].role = "user" /\ ~transcript[f].blank
  <2>1. x \in sent <=> x \in Recent /\ \E f \in Recent : f <= x /\ transcript[f].role = "user"
    BY <1>1, <1>10
  <2>2. ASSUME x \in Recent, NEW f \in Recent, f <= x, transcript[f].role = "user"
        PROVE  /\ ~transcript[x].blank
               /\ f \in 1 .. x /\ f + HistoryLimit > Len(transcript)
               /\ transcript[f].role = "user" /\ ~transcript[f].blank
    BY <1>3, <2>2 DEF Recent
  <2>3. ASSUME ~transcript[x].blank, NEW f \in 1 .. x, f + HistoryLimit > Len(transcript),
               transcript[f].role = "user", ~transcript[f].blank
        PROVE  x \in Recent /\ f \in Recent /\ f <= x
    <3>1. x \in Nat /\ f \in Nat /\ f <= x /\ f \in DOMAIN transcript /\ x + HistoryLimit > Len(transcript)
      BY <1>3, <2>3
    <3> QED  BY <2>3, <3>1 DEF Recent
  <2> QED  BY <2>1, <2>2, <2>3
<1>12. ASSUME NEW t \in DOMAIN T, NEW j \in DOMAIN T[t].content
       PROVE  /\ \A k \in 1 .. j - 1 : T[t].content[k] < T[t].content[j]
              /\ \A u \in 1 .. t - 1 : \A x \in Said(u) : x < T[t].content[j]
  <2>1. /\ t \in 1 .. n /\ e[t] + j - 1 \in Turn(ms, t) /\ T[t].content[j] = ms[e[t] + j - 1]
        /\ j \in Nat /\ e[t] \in Nat
    <3>1. t \in 1 .. n
      BY <1>4
    <3>2. PICK l \in Nat : DOMAIN T[t].content = 1 .. l
      BY <1>5, <3>1
    <3>3. e[t] + j - 1 \in Turn(ms, t) /\ T[t].content[j] = ms[e[t] + j - 1]
      BY <1>5, <3>1
    <3>4. j \in Nat /\ e[t] \in Nat
      BY <1>e, <3>1, <3>2
    <3> QED  BY <3>1, <3>3, <3>4
  <2>2. e[t] + j - 1 \in 1 .. Len(ms)
    BY <1>6, <2>1
  <2>3. ASSUME NEW u \in 1 .. t - 1, NEW x \in Said(u) PROVE x < T[t].content[j]
    <3>1. u \in 1 .. n
      BY <1>e, <2>1
    <3>2. PICK k \in DOMAIN T[u].content : x = T[u].content[k]
      OBVIOUS
    <3>3. e[u] + k - 1 \in Turn(ms, u) /\ x = ms[e[u] + k - 1]
      BY <1>5, <3>1, <3>2
    <3>4. e[u] + k - 1 < e[t] + j - 1 /\ e[u] + k - 1 \in 1 .. Len(ms)
      BY <1>6, <1>7, <2>1, <3>1, <3>3
    <3> QED  BY <1>1, <2>1, <2>2, <3>3, <3>4
  <2>4. ASSUME NEW k \in 1 .. j - 1 PROVE T[t].content[k] < T[t].content[j]
    <3>1. k \in DOMAIN T[t].content
      <4>1. PICK l \in Nat : DOMAIN T[t].content = 1 .. l
        BY <1>5, <2>1
      <4> QED  BY <4>1
    <3>2. t \in 1 .. n
      BY <2>1
    <3>3. T[t].content[k] = ms[e[t] + k - 1] /\ e[t] + k - 1 \in Turn(ms, t)
      BY <1>5, <3>1, <3>2
    <3>4. e[t] + k - 1 \in 1 .. Len(ms) /\ e[t] + k - 1 < e[t] + j - 1
      BY <1>6, <2>1, <3>3
    <3> QED  BY <1>1, <2>1, <2>2, <3>3, <3>4
  <2> QED  BY <2>3, <2>4
<1>13. /\ \A t \in DOMAIN T :
            /\ T[t].role = IF t % 2 = 1 THEN "user" ELSE "assistant"
            /\ \A x \in Said(t) : transcript[x].role = T[t].role
       /\ \A x \in DOMAIN transcript :
            x \in sent <=>
              /\ ~transcript[x].blank
              /\ \E f \in 1 .. x : /\ f + HistoryLimit > Len(transcript)
                                   /\ transcript[f].role = "user" /\ ~transcript[f].blank
       /\ \A t \in DOMAIN T : \A j \in DOMAIN T[t].content :
            /\ \A k \in 1 .. j - 1 : T[t].content[k] < T[t].content[j]
            /\ \A u \in 1 .. t - 1 : \A x \in Said(u) : x < T[t].content[j]
  BY <1>9, <1>11, <1>12
<1> QED  BY <1>13 DEF DraftFollowsChat, T, sent, Said

\* The types of the rows, of the requests and of the people.

\* What is created has a content.
CreatedWhole == \A c \in Editors : editing[c] # NoEdit /\ editing[c].op = "create" => editing[c].content \in Contents
\* Who joins names a workspace, or none.
JoinsSomewhere == \A c \in Editors : joining[c] # NoEdit => joining[c].workspace \in Nat

\* Rows are numbered up to the bound on writes.
RowsTyped == /\ edits \in 0 .. MaxEdits
             /\ DOMAIN items \subseteq 1 .. MaxEdits /\ \A i \in DOMAIN items : items[i] \in Item
             /\ DOMAIN given = DOMAIN items
EditsTyped == \A c \in Editors : editing[c] = NoEdit \/ editing[c] \in Edit

\* A request that is changed by itself.
LEMMA EditTyped ==
  ASSUME DOMAIN editing = Editors, EditsTyped, CreatedWhole, NEW c \in Editors, NEW e,
         editing' = [editing EXCEPT ![c] = e],
         e = NoEdit \/ (e \in Edit /\ (e.op = "create" => e.content \in Contents))
  PROVE  EditsTyped' /\ CreatedWhole'
<1>1. \A d \in Editors : editing'[d] = IF d = c THEN e ELSE editing[d]
  OBVIOUS
<1> QED  BY <1>1 DEF EditsTyped, CreatedWhole

LEMMA EditNumbers == MaxEdits \in Nat /\ 0 \in 0 .. MaxEdits /\ 1 .. MaxEdits \subseteq 0 .. MaxEdits
<1>1. MaxEdits \in Nat
  BY SettingsAssumption DEF SettingsAssumption
<1> QED  BY <1>1

LEMMA RequestsTyped ==
  ASSUME SetupInv, RowsTyped, EditsTyped, CreatedWhole, NEW c \in Editors,
         \/ \E l \in Labels, k \in Contents : StartCreate(c, l, k)
         \/ \E i \in DOMAIN items, l \in Labels \cup {""}, k \in Contents \cup {""},
               s \in {"active", "disabled", ""} : StartUpdate(c, i, l, k, s)
         \/ \E i \in DOMAIN items : StartTest(c, i)
         \/ editing[c] # NoEdit /\ (CheckLabel(c) \/ Ping(c))
  PROVE  EditsTyped' /\ CreatedWhole'
<1>0. DOMAIN editing = Editors /\ MaxEdits \in Nat
  BY SettingsAssumption DEF SetupInv, ItemsInv, EditsFit, SettingsAssumption
<1>n. 0 \in 0 .. MaxEdits /\ 1 .. MaxEdits \subseteq 0 .. MaxEdits
  BY EditNumbers
<1>1. ASSUME NEW l \in Labels, NEW k \in Contents PROVE FreshRow \in Item
  <2>1. (CHOOSE x \in Labels : TRUE) \in Labels /\ (CHOOSE x \in Contents : TRUE) \in Contents
    OBVIOUS
  <2> QED  BY <1>n, <2>1 DEF FreshRow, Item
<1>2. ASSUME NEW l \in Labels, NEW k \in Contents, StartCreate(c, l, k)
      PROVE  EditsTyped' /\ CreatedWhole'
  <2> DEFINE e == [op |-> "create", item |-> 0, label |-> l, content |-> k, status |-> "active",
                   step |-> IF table = "ai" THEN "ping" ELSE "write", read |-> FreshRow,
                   healthy |-> FALSE]
  <2>1. editing' = [editing EXCEPT ![c] = e]
    BY <1>2 DEF StartCreate, Starts
  <2>2. e \in Edit /\ e.content \in Contents
    BY <1>n, <1>1 DEF Edit
  <2> HIDE DEF e
  <2> QED  BY <1>0, <2>1, <2>2, EditTyped
<1>3. ASSUME NEW i \in DOMAIN items, NEW l \in Labels \cup {""}, NEW k \in Contents \cup {""},
             NEW s \in {"active", "disabled", ""}, StartUpdate(c, i, l, k, s)
      PROVE  EditsTyped' /\ CreatedWhole'
  <2> DEFINE r == IF table = "ai" THEN items[i] ELSE FreshRow
             e == [op |-> "update", item |-> i, label |-> l, content |-> k, status |-> s,
                   step |-> "check", read |-> r, healthy |-> FALSE]
  <2>1. editing' = [editing EXCEPT ![c] = e]
    BY <1>3 DEF StartUpdate, Starts
  <2>2. items[i] \in Item /\ i \in 0 .. MaxEdits
    BY <1>n DEF RowsTyped
  <2>3. items[i].label \in Labels /\ items[i].content \in Contents
    BY <2>2 DEF Item
  <2>4. r \in Item
    BY <1>1, <2>2, <2>3
  <2> HIDE DEF r
  <2>5. e \in Edit /\ e.op # "create"
    BY <2>2, <2>4 DEF Edit
  <2> HIDE DEF e
  <2> QED  BY <1>0, <2>1, <2>5, EditTyped
<1>4. ASSUME NEW i \in DOMAIN items, StartTest(c, i)
      PROVE  EditsTyped' /\ CreatedWhole'
  <2> DEFINE e == [op |-> "test", item |-> i, label |-> "", content |-> "", status |-> "",
                   step |-> "ping", read |-> items[i], healthy |-> FALSE]
  <2>1. editing' = [editing EXCEPT ![c] = e]
    BY <1>4 DEF StartTest, Starts
  <2>2. items[i] \in Item /\ i \in 0 .. MaxEdits
    BY <1>n DEF RowsTyped
  <2>3. e \in Edit /\ e.op # "create"
    BY <2>2 DEF Edit
  <2> HIDE DEF e
  <2> QED  BY <1>0, <2>1, <2>3, EditTyped
<1>5. ASSUME editing[c] # NoEdit, CheckLabel(c) \/ Ping(c)
      PROVE  EditsTyped' /\ CreatedWhole'
  <2>0. editing[c] \in Edit /\ (editing[c].op = "create" => editing[c].content \in Contents)
    BY <1>5 DEF EditsTyped, CreatedWhole
  <2>1. PICK e : /\ editing' = [editing EXCEPT ![c] = e]
                 /\ \/ e = NoEdit \/ e = [editing[c] EXCEPT !.step = "write"]
                    \/ \E ok \in BOOLEAN : e = [editing[c] EXCEPT !.healthy = ok, !.step = "write"]
    <3>1. CASE CheckLabel(c)
      <4>1. \/ editing' = [editing EXCEPT ![c] = NoEdit]
            \/ editing' = [editing EXCEPT ![c] = [editing[c] EXCEPT !.step = "write"]]
        BY <3>1 DEF CheckLabel, Ends, Proceeds
      <4> QED  BY <4>1
    <3>2. CASE Ping(c)
      <4>1. PICK ok \in BOOLEAN :
              editing' = [editing EXCEPT ![c] = [editing[c] EXCEPT !.healthy = ok, !.step = "write"]]
        BY <3>2 DEF Ping
      <4> QED  BY <4>1
    <3> QED  BY <1>5, <3>1, <3>2
  <2>2. e # NoEdit => /\ e \in Edit
                      /\ e.op = editing[c].op /\ e.content = editing[c].content
    BY <2>0, <2>1 DEF Edit
  <2> QED  BY <1>0, <2>0, <2>1, <2>2, EditTyped
<1> QED  BY <1>2, <1>3, <1>4, <1>5

LEMMA WriteTyped ==
  ASSUME SetupInv, RowsTyped, EditsTyped, CreatedWhole, NEW c \in Editors, editing[c] # NoEdit, WriteItem(c)
  PROVE  RowsTyped' /\ EditsTyped' /\ CreatedWhole'
<1> DEFINE e == editing[c]
           i == IF e.op = "create" THEN NewItem ELSE e.item
           before == IF e.op = "create" THEN FreshRow ELSE items[i]
           w == IF e.op = "test" THEN before ELSE Written(before, e)
           new == [label |-> w.label, content |-> w.content, active |-> w.active,
                   at |-> edits',
                   healthOf |-> CASE e.op = "create" -> e.content
                                  [] e.op = "test" -> e.read.content
                                  [] OTHER -> before.healthOf,
                   healthy |-> IF e.op = "update" THEN before.healthy ELSE e.healthy]
<1>0. DOMAIN editing = Editors /\ MaxEdits \in Nat
  BY SettingsAssumption DEF SetupInv, ItemsInv, EditsFit, SettingsAssumption
<1>n. 0 \in 0 .. MaxEdits
  BY EditNumbers
<1>1. EditsTyped' /\ CreatedWhole'
  <2>1. editing' = [editing EXCEPT ![c] = NoEdit]
    BY DEF WriteItem, Ends
  <2> QED  BY <1>0, <2>1, EditTyped
<1>2. CASE UNCHANGED <<items, edits, given>>
  BY <1>1, <1>2 DEF RowsTyped
<1>3. CASE ~UNCHANGED <<items, edits, given>>
  <2>1. /\ e.op # "create" => i \in DOMAIN items
        /\ edits < MaxEdits /\ edits' = edits + 1
        /\ items' = [j \in DOMAIN items \cup {i} |-> IF j # i THEN items[j] ELSE new]
        /\ DOMAIN given' = DOMAIN given \cup {i}
    BY <1>3 DEF WriteItem, EditStep
  <2>2. e \in Edit /\ (e.op = "create" => e.content \in Contents)
    BY DEF EditsTyped, CreatedWhole
  <2>3. /\ e.op \in {"create", "update", "test"} /\ e.label \in Labels \cup {""} /\ e.content \in Contents \cup {""}
        /\ e.healthy \in BOOLEAN /\ e.read \in Item
    BY <2>2 DEF Edit
  <2>4. e.read.label \in Labels /\ e.read.content \in Contents
    BY <2>3 DEF Item
  <2>5. before \in Item
    <3>1. (CHOOSE x \in Labels : TRUE) \in Labels /\ (CHOOSE x \in Contents : TRUE) \in Contents
      BY <2>4
    <3>2. FreshRow \in Item
      BY <1>n, <3>1 DEF FreshRow, Item
    <3> QED  BY <2>1, <3>2 DEF RowsTyped
  <2>6. edits' \in 0 .. MaxEdits /\ i \in 1 .. MaxEdits
    BY <1>0, <2>1 DEF RowsTyped, NewItem
  <2> HIDE DEF before, i, e
  <2>7. /\ before.label \in Labels /\ before.content \in Contents /\ before.active \in BOOLEAN
        /\ before.healthOf \in Contents /\ before.healthy \in BOOLEAN
    BY <2>5 DEF Item
  <2>8. w.label \in Labels /\ w.content \in Contents /\ w.active \in BOOLEAN
    <3>1. CASE e.op = "test"
      BY <2>7, <3>1
    <3>2. CASE e.op # "test"
      BY <2>3, <2>7, <3>2 DEF Written, Given
    <3> QED  BY <3>1, <3>2
  <2> HIDE DEF w
  <2>9. (CASE e.op = "create" -> e.content
           [] e.op = "test" -> e.read.content
           [] OTHER -> before.healthOf) \in Contents
    <3>1. CASE e.op = "create"
      BY <2>2, <3>1
    <3>2. CASE e.op = "test"
      BY <2>4, <3>2
    <3>3. CASE e.op = "update"
      BY <2>7, <3>3
    <3> QED  BY <2>3, <3>1, <3>2, <3>3
  <2>10. (IF e.op = "update" THEN before.healthy ELSE e.healthy) \in BOOLEAN
    BY <2>3, <2>7
  <2>11. new \in Item
    BY <2>6, <2>8, <2>9, <2>10 DEF Item
  <2> HIDE DEF new
  <2>12. DOMAIN items' = DOMAIN items \cup {i} /\ \A j \in DOMAIN items' : items'[j] \in Item
    BY <2>1, <2>11 DEF RowsTyped
  <2> QED  BY <1>1, <2>1, <2>6, <2>12 DEF RowsTyped
<1> QED  BY <1>2, <1>3

LEMMA ItemsTyped ==
  ASSUME SetupInv, RowsTyped, EditsTyped, CreatedWhole, ItemsNext
  PROVE  RowsTyped' /\ EditsTyped' /\ CreatedWhole'
<1>1. ASSUME NEW c \in Editors,
             \/ \E l \in Labels, k \in Contents : StartCreate(c, l, k)
             \/ \E i \in DOMAIN items, l \in Labels \cup {""}, k \in Contents \cup {""},
                   s \in {"active", "disabled", ""} : StartUpdate(c, i, l, k, s)
             \/ \E i \in DOMAIN items : StartTest(c, i)
             \/ editing[c] # NoEdit /\ (CheckLabel(c) \/ Ping(c))
      PROVE  RowsTyped' /\ EditsTyped' /\ CreatedWhole'
  <2>1. EditsTyped' /\ CreatedWhole'
    BY <1>1, RequestsTyped
  <2>2. UNCHANGED <<items, edits, given>>
    BY <1>1 DEF StartCreate, StartUpdate, StartTest, CheckLabel, Ping
  <2> QED  BY <2>1, <2>2 DEF RowsTyped
<1>2. ASSUME NEW i \in DOMAIN items, RemoveItem(i)
      PROVE  RowsTyped' /\ EditsTyped' /\ CreatedWhole'
  <2>1. /\ edits < MaxEdits /\ edits' = edits + 1
        /\ items' = [j \in DOMAIN items \ {i} |-> items[j]]
        /\ DOMAIN given' = DOMAIN given \ {i}
        /\ UNCHANGED editing
    BY <1>2 DEF RemoveItem, EditStep
  <2>2. edits' \in 0 .. MaxEdits
    BY <2>1, SettingsAssumption DEF RowsTyped, SettingsAssumption
  <2> QED  BY <2>1, <2>2 DEF RowsTyped, EditsTyped, CreatedWhole
<1>3. ASSUME NEW c \in Editors, editing[c] # NoEdit, WriteItem(c)
      PROVE  RowsTyped' /\ EditsTyped' /\ CreatedWhole'
  BY <1>3, WriteTyped
<1> QED  BY <1>1, <1>2, <1>3 DEF ItemsNext

\* Members are users of a workspace, in some role.
MembersTyped ==
  members \subseteq [user : DOMAIN accounts, workspace : Nat, role : {"admin", "agent", "viewer"}]

LEMMA PeopleTyped ==
  ASSUME SetupInv, MembersTyped, JoinsSomewhere, PeopleNext
  PROVE  MembersTyped' /\ JoinsSomewhere'
<1>0. /\ accounts \in Seq(Emails) /\ workspaces \in Seq(Slugs) /\ DOMAIN joining = Editors
      /\ Len(workspaces) \in Nat /\ DOMAIN workspaces = 1 .. Len(workspaces)
      /\ Len(accounts) \in Nat /\ DOMAIN accounts = 1 .. Len(accounts)
      /\ \A c \in Editors : joining[c] # NoEdit => joining[c].email \in Emails
  BY LenProperties DEF SetupInv, PeopleInv, JoiningFits
<1>1. ASSUME NEW c \in Editors, NEW email, NEW slug, NEW w \in Nat, StartJoin(c, email, slug, w)
      PROVE  MembersTyped' /\ JoinsSomewhere'
  <2>1. /\ joining' = [joining EXCEPT ![c] = [email |-> email, slug |-> slug, workspace |-> w]]
        /\ UNCHANGED <<accounts, members>>
    BY <1>1 DEF StartJoin
  <2> QED  BY <1>0, <2>1 DEF MembersTyped, JoinsSomewhere
<1>2. ASSUME NEW c \in Editors, Join(c)
      PROVE  MembersTyped' /\ JoinsSomewhere'
  <2> DEFINE j == joining[c]
             w == IF j.workspace = 0 THEN Len(workspaces) + 1 ELSE j.workspace
             u == Len(accounts) + 1
  <2>1. joining' = [joining EXCEPT ![c] = NoEdit] /\ j # NoEdit
    BY <1>2 DEF Join
  <2>2. JoinsSomewhere'
    BY <1>0, <2>1 DEF JoinsSomewhere
  <2>3. w \in Nat /\ j.email \in Emails
    BY <1>0, <2>1 DEF JoinsSomewhere
  <2>4. \/ UNCHANGED <<accounts, members>>
        \/ /\ accounts' = Append(accounts, j.email)
           /\ \E role \in {"admin", "agent", "viewer"} :
                members' = members \cup {[user |-> u, workspace |-> w, role |-> role]}
    BY <1>2 DEF Join
  <2> HIDE DEF j, w
  <2>5. ASSUME accounts' = Append(accounts, j.email), NEW role \in {"admin", "agent", "viewer"},
               members' = members \cup {[user |-> u, workspace |-> w, role |-> role]}
        PROVE  MembersTyped'
    <3>1. DOMAIN accounts' = 1 .. u
      BY <1>0, <2>3, <2>5, AppendProperties, LenProperties
    <3>2. DOMAIN accounts \subseteq DOMAIN accounts' /\ u \in DOMAIN accounts'
      BY <1>0, <3>1
    <3>3. [user |-> u, workspace |-> w, role |-> role]
            \in [user : DOMAIN accounts', workspace : Nat, role : {"admin", "agent", "viewer"}]
      BY <2>3, <3>2
    <3>4. [user : DOMAIN accounts, workspace : Nat, role : {"admin", "agent", "viewer"}]
            \subseteq [user : DOMAIN accounts', workspace : Nat, role : {"admin", "agent", "viewer"}]
      BY <3>2
    <3> QED  BY <2>5, <3>3, <3>4 DEF MembersTyped
  <2> QED  BY <2>2, <2>4, <2>5 DEF MembersTyped
<1> QED  BY <1>0, <1>1, <1>2 DEF PeopleNext

\* The draft is that of the chat, which stays as it is.
DraftFits == /\ transcript \in Transcripts
             /\ draft.turns = <<>> \/ draft.turns = normalizeForCompletion(recentMessages)

SettingsMore == /\ SetupInv /\ DraftFits
                /\ table \in {"ai", "canned"} /\ RowsTyped /\ EditsTyped /\ CreatedWhole
                /\ MembersTyped /\ JoinsSomewhere

LEMMA SettingsStart == SettingsInit => SettingsMore
<1> SUFFICES ASSUME SettingsInit PROVE SettingsMore
  OBVIOUS
<1>1. SetupInv
  BY SettingsInitHolds
<1>2. DraftFits /\ table \in {"ai", "canned"}
  BY DEF SettingsInit, DraftFits
<1>3. DOMAIN items = {} /\ DOMAIN given = {} /\ edits = 0 /\ editing = [c \in Editors |-> NoEdit]
      /\ joining = [c \in Editors |-> NoEdit] /\ members = {}
  BY DEF SettingsInit
<1>4. RowsTyped
  BY <1>3, SettingsAssumption DEF RowsTyped, SettingsAssumption
<1>5. EditsTyped /\ CreatedWhole /\ JoinsSomewhere /\ MembersTyped
  BY <1>3 DEF EditsTyped, CreatedWhole, JoinsSomewhere, MembersTyped
<1> QED  BY <1>1, <1>2, <1>4, <1>5 DEF SettingsMore

LEMMA SettingsGoOn == SettingsMore /\ [SettingsNext]_settingsVars => SettingsMore'
<1> SUFFICES ASSUME SettingsMore, [SettingsNext]_settingsVars PROVE SettingsMore'
  OBVIOUS
<1>1. SetupInv'
  BY SetupKeeps DEF SettingsMore
<1>2. ASSUME UNCHANGED draftVars PROVE DraftFits'
  <2>1. transcript' = transcript /\ draft' = draft
    BY <1>2 DEF draftVars
  <2>2. recentMessages' = recentMessages
    BY <2>1 DEF recentMessages
  <2>3. normalizeForCompletion(recentMessages)' = normalizeForCompletion(recentMessages)
    BY <2>1, <2>2 DEF normalizeForCompletion, Merged
  <2> QED  BY <2>1, <2>3 DEF SettingsMore, DraftFits
<1>3. ASSUME UNCHANGED itemVars PROVE table' \in {"ai", "canned"} /\ RowsTyped' /\ EditsTyped' /\ CreatedWhole'
  BY <1>3 DEF SettingsMore, RowsTyped, EditsTyped, CreatedWhole, itemVars
<1>4. ASSUME UNCHANGED peopleVars PROVE MembersTyped' /\ JoinsSomewhere'
  BY <1>4 DEF SettingsMore, MembersTyped, JoinsSomewhere, peopleVars
<1>5. CASE ItemsNext
  <2>1. RowsTyped' /\ EditsTyped' /\ CreatedWhole'
    BY <1>5, ItemsTyped DEF SettingsMore
  <2>2. table' = table
    BY <1>5 DEF ItemsNext, StartCreate, StartUpdate, StartTest, CheckLabel, Ping, WriteItem, RemoveItem
  <2>3. UNCHANGED <<draftVars, peopleVars>>
    BY <1>5 DEF ItemsNext
  <2> QED  BY <1>1, <1>2, <1>4, <2>1, <2>2, <2>3 DEF SettingsMore
<1>6. CASE DraftReply \/ Completion
  <2>1. UNCHANGED <<itemVars, transcript, peopleVars>>
    BY <1>6 DEF DraftReply, Completion
  <2>2. recentMessages' = recentMessages
    BY <2>1 DEF recentMessages
  <2>3. normalizeForCompletion(recentMessages)' = normalizeForCompletion(recentMessages)
    BY <2>1, <2>2 DEF normalizeForCompletion, Merged
  <2>4. draft'.turns = draft.turns \/ draft'.turns = normalizeForCompletion(recentMessages)
    <3>1. CASE DraftReply
      <4>1. CASE draft' = [draft EXCEPT !.at = "refused"]
        BY <4>1
      <4>2. CASE draft' = [at |-> "asking", key |-> items[Connection].content,
                           turns |-> normalizeForCompletion(recentMessages)]
        BY <4>2
      <4> QED  BY <3>1, <4>1, <4>2 DEF DraftReply
    <3>2. CASE Completion
      <4>1. PICK at \in {"drafted", "refused"} : draft' = [draft EXCEPT !.at = at]
        BY <3>2 DEF Completion
      <4> QED  BY <4>1
    <3> QED  BY <1>6, <3>1, <3>2
  <2>5. DraftFits'
    BY <2>1, <2>3, <2>4 DEF SettingsMore, DraftFits
  <2> QED  BY <1>1, <1>3, <1>4, <2>1, <2>5 DEF SettingsMore
<1>7. CASE PeopleNext
  <2>1. MembersTyped' /\ JoinsSomewhere'
    BY <1>7, PeopleTyped DEF SettingsMore
  <2>2. UNCHANGED <<itemVars, draftVars>>
    BY <1>7 DEF PeopleNext, StartJoin, Join
  <2> QED  BY <1>1, <1>2, <1>3, <2>1, <2>2 DEF SettingsMore
<1>8. CASE UNCHANGED settingsVars
  BY <1>1, <1>2, <1>3, <1>4, <1>8 DEF SettingsMore, settingsVars
<1> QED  BY <1>5, <1>6, <1>7, <1>8 DEF SettingsNext

LEMMA SettingsTyped == SettingsMore => SettingsTypeOK
<1> SUFFICES ASSUME SettingsMore PROVE SettingsTypeOK
  OBVIOUS
<1>1. accounts \in Seq(Emails) /\ workspaces \in Seq(Slugs)
  BY DEF SettingsMore, SetupInv, PeopleInv, JoiningFits
<1> QED  BY <1>1 DEF SettingsMore, SettingsTypeOK, RowsTyped, EditsTyped, MembersTyped, DraftFits

\* Every column has what the last successful request said of it, every user one membership and
\* every workspace an administrator, however the requests interleave, and a draft is made from
\* the turns of the chat, whatever its messages are.
LEMMA SettingsAgree == SettingsMore => SettingsInv
<1>1. SettingsMore => EditsAreKept /\ EveryoneBelongs
  BY SetupAgrees DEF SettingsMore
<1>2. SettingsMore => DraftFollowsChat
  <2> SUFFICES ASSUME SettingsMore PROVE DraftFollowsChat
    OBVIOUS
  <2>1. HistoryLimit \in Nat /\ MaxTranscript \in Nat
    BY SettingsAssumption DEF SettingsAssumption
  <2>2. CASE draft.turns = <<>>
    BY <2>2 DEF DraftFollowsChat
  <2>3. CASE draft.turns = normalizeForCompletion(recentMessages)
    BY <2>1, <2>3, NormalizedFollows DEF SettingsMore, DraftFits
  <2> QED  BY <2>2, <2>3 DEF SettingsMore, DraftFits
<1> QED  BY <1>1, <1>2 DEF SettingsInv

\* Any number of editors, of messages and of people who join.
THEOREM SetupHolds == SettingsSpec => []SettingsInv
  BY SettingsStart, SettingsGoOn, SettingsAgree, PTL DEF SettingsSpec

-----------------------------------------------------------------------------
(* The wire: what a message becomes on its way to the timeline.            *)

IsFile(m) == GatewayType(m.content) \in Attachments \cup {"sticker"}
Side(m) == IF m.fromMe THEN "outbound" ELSE "inbound"

\* An event on its way tells what was said at its place of the chat ...
Tells(e) ==
  /\ e \in WireEvent /\ e.at \in 1 .. Len(wire)
  /\ LET m == wire[e.at] IN
     /\ e.type = MappedType(GatewayType(m.content)) /\ e.direction = Side(m)
     /\ e.body = DescribedBody(m) /\ e.media = IsFile(m) /\ e.quotes = m.quotes

\* ... and so does a row of the timeline, but for the text of what the desk sent.
RowTells(r, m) ==
  /\ r \in WireRow
  /\ r.type = MappedType(GatewayType(m.content)) /\ r.direction = Side(m) /\ r.quotes = m.quotes
  /\ r.media = {} <=> ~IsFile(m)
  /\ r.dispatched \/ r.body = DescribedBody(m)

WireMore ==
  /\ wireChat \in {"direct", "group", "other"}
  /\ wire \in Seq(WireMessage) /\ Len(wire) <= MaxWire
  /\ session \in {"absent", "created", "ready"} /\ listeners \in {0, 1}
  /\ held \subseteq 1 .. Len(wire)
  /\ posted \in [Places -> {0, 1}]
  /\ \A e \in arriving : Tells(e)
  /\ timeline \in [Places -> WireRow \cup {Unstored}]
  /\ \A i \in Places : timeline[i] # Unstored => i \in 1 .. Len(wire) /\ RowTells(timeline[i], wire[i])
  /\ \/ unrecorded = <<>>
     \/ \E i \in 1 .. Len(wire), r \in WireRow :
          unrecorded = <<[at |-> i, row |-> r]>> /\ RowTells(r, wire[i])

LEMMA MessageShape ==
  ASSUME NEW m \in WireMessage
  PROVE  m.content \in ContentType /\ m.fromMe \in BOOLEAN /\ m.caption \in BOOLEAN /\ m.quotes \in 0 .. MaxWire
  BY DEF WireMessage

LEMMA TypesFit ==
  ASSUME NEW m \in WireMessage
  PROVE  /\ MappedType(GatewayType(m.content)) \in MessageTypes /\ DescribedBody(m) \in Bodies
         /\ Side(m) \in MessageDirection /\ IsFile(m) \in BOOLEAN
<1>1. m.content \in ContentType /\ m.fromMe \in BOOLEAN
  BY MessageShape
<1>2. GatewayType(m.content) \in Attachments \cup {"chat", "sticker", "location", "vcard", "unknown"}
  BY <1>1 DEF GatewayType, ContentType, Attachments
<1>3. MappedType(GatewayType(m.content)) \in MessageTypes
  BY <1>2 DEF MappedType, MessageTypes, Attachments
<1>4. DescribedBody(m) \in Bodies
  BY DEF DescribedBody, Bodies
<1> QED  BY <1>1, <1>3, <1>4 DEF Side, MessageDirection, IsFile

LEMMA AnnouncedTells ==
  ASSUME WireMore, NEW i \in 1 .. Len(wire)
  PROVE  /\ Tells(LiveEvent(Announced(i))) /\ LiveEvent(Announced(i)).at = i
         /\ Tells(HistoryEvent(Announced(i))) /\ HistoryEvent(Announced(i)).at = i
<1> DEFINE m == wire[i]
           g == Announced(i)
<1>1. m \in WireMessage /\ i \in Places
  BY ElementOfSeq, LenProperties, WireAssumption DEF WireMore, Places
<1>2. /\ g.id = i /\ g.fromMe = m.fromMe /\ g.quoted = m.quotes
      /\ g.type = GatewayType(m.content) /\ g.body = DescribedBody(m)
      /\ g.hasMedia = IsFile(m)
  BY DEF Announced, Described, IsFile
<1> DEFINE e == LiveEvent(g)
           h == HistoryEvent(g)
<1>3. e = [at |-> i, type |-> MappedType(GatewayType(m.content)), direction |-> Side(m),
           body |-> DescribedBody(m), media |-> IsFile(m), quotes |-> m.quotes, history |-> FALSE]
  BY <1>2 DEF LiveEvent, Side
<1>4. h = [e EXCEPT !.history = TRUE]
  BY <1>3 DEF HistoryEvent, KnownType
<1> HIDE DEF g, m
<1>5. m.quotes \in 0 .. MaxWire
  BY <1>1, MessageShape
<1>6. e \in WireEvent /\ h \in WireEvent
  <2>1. /\ MappedType(GatewayType(m.content)) \in MessageTypes /\ Side(m) \in MessageDirection
        /\ DescribedBody(m) \in Bodies /\ IsFile(m) \in BOOLEAN
    BY <1>1, TypesFit
  <2>2. e \in WireEvent
    BY <1>1, <1>3, <1>5, <2>1 DEF WireEvent
  <2> HIDE DEF e
  <2>3. h \in WireEvent
    BY <1>4, <2>2 DEF WireEvent
  <2> QED  BY <2>2, <2>3
<1> HIDE DEF e, h
<1>7. /\ e.at = i /\ e.type = MappedType(GatewayType(m.content)) /\ e.direction = Side(m)
      /\ e.body = DescribedBody(m) /\ e.media = IsFile(m) /\ e.quotes = m.quotes
      /\ h.at = i /\ h.type = e.type /\ h.direction = e.direction
      /\ h.body = e.body /\ h.media = e.media /\ h.quotes = e.quotes
  BY <1>3, <1>4
<1>8. Tells(e) /\ Tells(h)
  BY <1>6, <1>7 DEF Tells, m
<1> QED  BY <1>7, <1>8 DEF e, h, g

\* What the normalizer makes of an event.
LEMMA StoredTells ==
  ASSUME NEW e, Tells(e), wire[e.at] \in WireMessage
  PROVE  RowTells(StoredRow(e), wire[e.at])
<1> DEFINE m == wire[e.at]
           r == StoredRow(e)
<1>1. /\ e.type \in MessageTypes /\ e.direction \in MessageDirection /\ e.body \in Bodies
      /\ e.media \in BOOLEAN /\ e.quotes \in 0 .. MaxWire
      /\ e.type = MappedType(GatewayType(m.content)) /\ e.direction = Side(m)
      /\ e.body = DescribedBody(m) /\ e.media = IsFile(m) /\ e.quotes = m.quotes
  BY DEF Tells, WireEvent
<1>2. PICK sla \in BOOLEAN :
        r = [type |-> e.type, direction |-> e.direction, body |-> e.body,
             media |-> IF e.media THEN {"provider"} ELSE {},
             quotes |-> e.quotes, sla |-> sla, dispatched |-> FALSE]
  BY DEF StoredRow, classifyMessage
<1> HIDE DEF r, m
<1>3. (IF e.media THEN {"provider"} ELSE {}) \in SUBSET {"provider", "upload"}
  OBVIOUS
<1>4. r \in WireRow
  BY <1>1, <1>2, <1>3 DEF WireRow
<1>5. r.media = {} <=> ~IsFile(m)
  BY <1>1, <1>2
<1>6. r.type = e.type /\ r.direction = e.direction /\ r.body = e.body /\ r.quotes = e.quotes
  BY <1>2
<1>7. RowTells(r, m)
  BY <1>1, <1>4, <1>5, <1>6 DEF RowTells
<1> QED  BY <1>7 DEF r, m

\* Another attachment of a message that has one changes nothing of it but this.
LEMMA AttachedTells ==
  ASSUME NEW m, NEW r, RowTells(r, m), NEW more \in SUBSET {"provider", "upload"},
         more # {} => IsFile(m)
  PROVE  RowTells(WithAttachments(r, more), m)
<1> DEFINE s == WithAttachments(r, more)
<1>1. r \in WireRow /\ r.media \in SUBSET {"provider", "upload"}
  BY DEF RowTells, WireRow
<1>2. s \in WireRow /\ s.media = r.media \cup more
  BY <1>1 DEF WireRow, WithAttachments
<1>3. /\ s.type = r.type /\ s.direction = r.direction /\ s.quotes = r.quotes
      /\ s.dispatched = r.dispatched /\ s.body = r.body
  BY <1>1 DEF WireRow, WithAttachments
<1> HIDE DEF s
<1>4. s.media = {} <=> ~IsFile(m)
  BY <1>2 DEF RowTells
<1>5. RowTells(s, m)
  BY <1>2, <1>3, <1>4 DEF RowTells
<1> QED  BY <1>5 DEF s

\* The chat only grows, and what was told of it stays true.
LEMMA GrownTells ==
  ASSUME WireMore, NEW m \in WireMessage, wire' = Append(wire, m), Len(wire) < MaxWire
  PROVE  /\ wire' \in Seq(WireMessage) /\ Len(wire') = Len(wire) + 1 /\ Len(wire') <= MaxWire
         /\ Len(wire') \in Places /\ wire'[Len(wire')] = m
         /\ \A i \in 1 .. Len(wire) : i \in 1 .. Len(wire') /\ wire'[i] = wire[i]
         /\ \A e : Tells(e) => Tells(e)'
         /\ \A i \in 1 .. Len(wire) : \A r : RowTells(r, wire[i]) => RowTells(r, wire'[i])
<1>1. wire \in Seq(WireMessage) /\ Len(wire) \in Nat /\ MaxWire \in Nat
  BY WireAssumption, LenProperties DEF WireMore
<1>2. wire' \in Seq(WireMessage) /\ Len(wire') = Len(wire) + 1 /\ wire'[Len(wire) + 1] = m
      /\ \A i \in 1 .. Len(wire) : wire'[i] = wire[i]
  BY <1>1, AppendProperties
<1>3. Len(wire') <= MaxWire /\ Len(wire') \in Places /\ \A i \in 1 .. Len(wire) : i \in 1 .. Len(wire')
  BY <1>1, <1>2 DEF Places
<1>4. \A e : Tells(e) => Tells(e)'
  <2> SUFFICES ASSUME NEW e, Tells(e) PROVE Tells(e)'
    OBVIOUS
  <2>1. e.at \in 1 .. Len(wire) /\ e \in WireEvent
    BY DEF Tells
  <2>2. e.at \in 1 .. Len(wire') /\ wire'[e.at] = wire[e.at]
    BY <1>2, <1>3, <2>1
  <2> QED  BY <2>1, <2>2 DEF Tells
<1> QED  BY <1>2, <1>3, <1>4

\* The steps at the chat: somebody says or sends something, of which a row may be on its way.
LEMMA GrownKept ==
  ASSUME WireMore, NEW m \in WireMessage, wire' = Append(wire, m), Len(wire) < MaxWire,
         held' \subseteq held \cup {Len(wire) + 1},
         UNCHANGED <<wireChat, session, listeners, posted, arriving, timeline>>,
         \/ unrecorded' = unrecorded
         \/ \E r \in WireRow : unrecorded' = <<[at |-> Len(wire) + 1, row |-> r]>> /\ RowTells(r, m)
  PROVE  WireMore'
<1>1. /\ wire' \in Seq(WireMessage) /\ Len(wire') = Len(wire) + 1 /\ Len(wire') <= MaxWire
      /\ Len(wire') \in Places /\ wire'[Len(wire')] = m
      /\ \A i \in 1 .. Len(wire) : i \in 1 .. Len(wire') /\ wire'[i] = wire[i]
      /\ \A e : Tells(e) => Tells(e)'
      /\ \A i \in 1 .. Len(wire) : \A r : RowTells(r, wire[i]) => RowTells(r, wire'[i])
  BY GrownTells
<1>2. Len(wire) + 1 \in 1 .. Len(wire')
  BY <1>1 DEF Places
<1>3. held' \subseteq 1 .. Len(wire')
  BY <1>1, <1>2 DEF WireMore
<1>4. \A i \in Places : timeline'[i] # Unstored => i \in 1 .. Len(wire') /\ RowTells(timeline'[i], wire'[i])
  BY <1>1 DEF WireMore
<1>5. \/ unrecorded' = <<>>
      \/ \E i \in 1 .. Len(wire'), r \in WireRow :
           unrecorded' = <<[at |-> i, row |-> r]>> /\ RowTells(r, wire'[i])
  <2>1. CASE unrecorded' = unrecorded
    BY <1>1, <2>1 DEF WireMore
  <2>2. CASE \E r \in WireRow : unrecorded' = <<[at |-> Len(wire) + 1, row |-> r]>> /\ RowTells(r, m)
    BY <1>1, <1>2, <2>2
  <2> QED  BY <2>1, <2>2
<1>6. \A e \in arriving' : Tells(e)'
  BY <1>1 DEF WireMore
<1> QED  BY <1>1, <1>3, <1>4, <1>5, <1>6 DEF WireMore

\* The steps at the timeline: a row comes to a place that has none, or is given what it lacks.
LEMMA RecordedKept ==
  ASSUME WireMore, NEW i \in Places, NEW r, timeline' = [timeline EXCEPT ![i] = r],
         i \in 1 .. Len(wire), RowTells(r, wire[i]),
         UNCHANGED <<wireChat, wire, session, listeners, held, posted>>,
         arriving' \subseteq arriving, unrecorded' \in {unrecorded, <<>>}
  PROVE  WireMore'
<1>1. r \in WireRow
  BY DEF RowTells
<1>2. timeline' \in [Places -> WireRow \cup {Unstored}]
  BY <1>1 DEF WireMore
<1>3. \A k \in Places : timeline'[k] # Unstored => k \in 1 .. Len(wire') /\ RowTells(timeline'[k], wire'[k])
  BY DEF WireMore
<1>4. \A e \in arriving' : Tells(e)'
  BY DEF WireMore, Tells
<1>5. \/ unrecorded' = <<>>
      \/ \E k \in 1 .. Len(wire'), s \in WireRow :
           unrecorded' = <<[at |-> k, row |-> s]>> /\ RowTells(s, wire'[k])
  BY DEF WireMore
<1> QED  BY <1>2, <1>3, <1>4, <1>5 DEF WireMore

LEMMA WireStarts == WireInit => WireMore
<1> SUFFICES ASSUME WireInit PROVE WireMore
  OBVIOUS
<1>1. wire = <<>> /\ Len(wire) = 0 /\ wire \in Seq(WireMessage) /\ MaxWire \in Nat
  BY WireAssumption DEF WireInit
<1>2. held \subseteq 1 .. Len(wire)
  BY DEF WireInit
<1>3. posted \in [Places -> {0, 1}] /\ timeline \in [Places -> WireRow \cup {Unstored}]
  BY DEF WireInit
<1>4. \A i \in Places : timeline[i] = Unstored
  BY DEF WireInit
<1> QED  BY <1>1, <1>2, <1>3, <1>4 DEF WireInit, WireMore

LEMMA WireGoesOn == ASSUME WireMore, [WireNext]_wireVars PROVE WireMore'
<1>0. Len(wire) \in Nat /\ MaxWire \in Nat /\ \A i \in 1 .. Len(wire) : wire[i] \in WireMessage
  BY WireAssumption, LenProperties, ElementOfSeq DEF WireMore
<1>1. CASE CreateRoute \/ StartRoute \/ StopRoute \/ GatewayDies \/ UNCHANGED wireVars
  <2>1. /\ session' \in {"absent", "created", "ready"} /\ listeners' \in {0, 1} /\ held' \subseteq held
        /\ UNCHANGED <<wireChat, wire, posted, arriving, timeline, unrecorded>>
    BY <1>1 DEF CreateRoute, StartRoute, StopRoute, GatewayDies, Forwarders, WireMore, wireVars
  <2> QED  BY <2>1 DEF WireMore, Tells
<1>2. CASE Say
  <2>1. PICK m \in WireMessage : wire' = Append(wire, m)
    BY <1>2 DEF Say
  <2>2. /\ Len(wire) < MaxWire /\ held' = held
        /\ UNCHANGED <<wireChat, session, listeners, posted, arriving, timeline, unrecorded>>
    BY <1>2 DEF Say
  <2> QED  BY <2>1, <2>2, GrownKept
<1>3. ASSUME NEW i \in Places, Deliver(i) PROVE WireMore'
  <2>1. i \in 1 .. Len(wire)
    BY <1>3 DEF Deliver
  <2>2. /\ held' \subseteq 1 .. Len(wire) /\ posted' \in [Places -> {0, 1}]
        /\ arriving' \subseteq arriving \cup {LiveEvent(Announced(i))}
        /\ UNCHANGED <<wireChat, wire, session, listeners, timeline, unrecorded>>
    BY <1>3, <2>1 DEF Deliver, WireMore
  <2>3. Tells(LiveEvent(Announced(i)))
    BY <2>1, AnnouncedTells
  <2>4. \A e \in arriving' : Tells(e)
    BY <2>2, <2>3 DEF WireMore
  <2> QED  BY <2>2, <2>4 DEF WireMore, Tells
<1>4. CASE ImportChat
  <2>1. /\ arriving' = arriving \cup {HistoryEvent(Announced(i)) : i \in held}
        /\ UNCHANGED <<wireChat, wire, session, listeners, held, posted, timeline, unrecorded>>
    BY <1>4 DEF ImportChat
  <2>2. \A e \in arriving' : Tells(e)
    BY <2>1, AnnouncedTells DEF WireMore
  <2> QED  BY <2>1, <2>2 DEF WireMore, Tells
<1>5. CASE NormalizeEvent
  <2>1. PICK e \in arriving :
          /\ arriving' = arriving \ {e}
          /\ timeline' = [timeline EXCEPT ![e.at] =
                       IF @ = Unstored THEN StoredRow(e)
                       ELSE WithAttachments(@, StoredRow(e).media)]
          /\ UNCHANGED <<wireChat, wire, session, listeners, held, posted, unrecorded>>
    BY <1>5 DEF NormalizeEvent
  <2>2. Tells(e) /\ e.at \in 1 .. Len(wire) /\ e.at \in Places
    BY <1>0 DEF WireMore, Tells, Places
  <2>3. RowTells(StoredRow(e), wire[e.at])
    BY <1>0, <2>2, StoredTells
  <2> DEFINE i == e.at
             more == StoredRow(e).media
  <2>4. CASE timeline[i] = Unstored
    <3>1. timeline' = [timeline EXCEPT ![i] = StoredRow(e)]
      BY <2>1, <2>4
    <3> QED  BY <2>1, <2>2, <2>3, <3>1, RecordedKept
  <2>5. CASE timeline[i] # Unstored
    <3>1. timeline' = [timeline EXCEPT ![i] = WithAttachments(timeline[i], more)]
      BY <2>1, <2>5
    <3>2. more \in SUBSET {"provider", "upload"} /\ (more # {} => IsFile(wire[i]))
      BY <2>3 DEF RowTells, WireRow
    <3>3. RowTells(timeline[i], wire[i])
      BY <2>2, <2>5 DEF WireMore
    <3> HIDE DEF more
    <3>4. RowTells(WithAttachments(timeline[i], more), wire[i])
      BY <3>2, <3>3, AttachedTells
    <3> QED  BY <2>1, <2>2, <3>1, <3>4, RecordedKept
  <2> QED  BY <2>4, <2>5
<1>6. ASSUME NEW content \in ContentType, NEW caption \in BOOLEAN, NEW sentRow,
             Dispatched(content, caption, sentRow),
             LET m == [content |-> content, fromMe |-> TRUE, caption |-> caption, quotes |-> 0]
             IN m \in WireMessage /\ RowTells(sentRow, m)
      PROVE  WireMore'
  <2> DEFINE m == [content |-> content, fromMe |-> TRUE, caption |-> caption, quotes |-> 0]
  <2>1. m \in WireMessage /\ RowTells(sentRow, m) /\ sentRow \in WireRow
    BY <1>6 DEF RowTells
  <2>2. /\ Len(wire) < MaxWire /\ wire' = Append(wire, m) /\ held' = held \cup {Len(wire) + 1}
        /\ unrecorded' = <<[at |-> Len(wire) + 1, row |-> sentRow]>>
        /\ UNCHANGED <<wireChat, session, listeners, posted, arriving, timeline>>
    BY <1>6 DEF Dispatched, Sendable
  <2> HIDE DEF m
  <2> QED  BY <2>1, <2>2, GrownKept
<1>7. CASE DispatchText
  <2> DEFINE m == [content |-> "extendedTextMessage", fromMe |-> TRUE, caption |-> FALSE, quotes |-> 0]
             sentRow == OutboxRow("text", "words", {})
  <2>1. m \in WireMessage
    BY <1>0 DEF WireMessage, ContentType
  <2>2. sentRow \in WireRow
    BY <1>0 DEF OutboxRow, WireRow, MessageTypes, MessageDirection, Bodies
  <2>3. RowTells(sentRow, m)
    BY <2>2 DEF RowTells, OutboxRow, MappedType, GatewayType, Side, IsFile, Attachments
  <2>4. Dispatched("extendedTextMessage", FALSE, sentRow) /\ "extendedTextMessage" \in ContentType
    BY <1>7 DEF DispatchText, ContentType
  <2> HIDE DEF sentRow
  <2> QED  BY <1>6, <2>1, <2>3, <2>4
<1>8. CASE DispatchFile
  <2>1. PICK mime \in {"image", "video", "audio", "application"}, worded \in BOOLEAN :
          Dispatched(MediaContent(mime), worded,
                     OutboxRow(MediaType(mime), IF worded THEN "words" ELSE "none", {"upload"}))
    BY <1>8 DEF DispatchFile
  <2> DEFINE m == [content |-> MediaContent(mime), fromMe |-> TRUE, caption |-> worded, quotes |-> 0]
             sentRow == OutboxRow(MediaType(mime), IF worded THEN "words" ELSE "none", {"upload"})
  <2>2. MediaContent(mime) \in {"imageMessage", "videoMessage", "audioMessage", "documentMessage"}
    BY DEF MediaContent
  <2>3. m \in WireMessage /\ MediaContent(mime) \in ContentType
    BY <1>0, <2>2 DEF WireMessage, ContentType
  <2>4. /\ MappedType(GatewayType(MediaContent(mime))) = MediaType(mime)
        /\ MediaType(mime) \in Attachments /\ MediaType(mime) \in MessageTypes
        /\ GatewayType(MediaContent(mime)) \in Attachments
    BY DEF MediaContent, MediaType, MappedType, GatewayType, Attachments, MessageTypes
  <2>5. sentRow \in WireRow /\ sentRow.dispatched /\ sentRow.media # {}
    BY <1>0, <2>4 DEF OutboxRow, WireRow, MessageDirection, Bodies
  <2>6. sentRow.type = MediaType(mime) /\ sentRow.direction = "outbound" /\ sentRow.quotes = 0
    BY DEF OutboxRow
  <2> HIDE DEF sentRow
  <2>7. RowTells(sentRow, m)
    BY <2>4, <2>5, <2>6 DEF RowTells, Side, IsFile
  <2> QED  BY <1>6, <2>1, <2>3, <2>7 DEF sentRow
<1>9. CASE StoreDispatched
  <2>1. PICK i \in 1 .. Len(wire), r \in WireRow :
          unrecorded = <<[at |-> i, row |-> r]>> /\ RowTells(r, wire[i])
    BY <1>9 DEF StoreDispatched, WireMore
  <2>2. unrecorded[1].at = i /\ unrecorded[1].row = r /\ i \in Places
    BY <1>0, <2>1 DEF Places, WireMore
  <2>3. /\ timeline' = [timeline EXCEPT ![i] =
                     IF @ = Unstored THEN r ELSE WithAttachments(@, r.media)]
        /\ unrecorded' = <<>>
        /\ UNCHANGED <<wireChat, wire, session, listeners, held, posted, arriving>>
    BY <1>9, <2>2 DEF StoreDispatched
  <2> DEFINE more == r.media
  <2>4. CASE timeline[i] = Unstored
    <3>1. timeline' = [timeline EXCEPT ![i] = r]
      BY <2>3, <2>4
    <3> QED  BY <2>1, <2>2, <2>3, <3>1, RecordedKept
  <2>5. CASE timeline[i] # Unstored
    <3>1. timeline' = [timeline EXCEPT ![i] = WithAttachments(timeline[i], more)]
      BY <2>3, <2>5
    <3>2. more \in SUBSET {"provider", "upload"} /\ (more # {} => IsFile(wire[i]))
      BY <2>1 DEF RowTells, WireRow
    <3>3. RowTells(timeline[i], wire[i])
      BY <2>2, <2>5 DEF WireMore
    <3> HIDE DEF more
    <3>4. RowTells(WithAttachments(timeline[i], more), wire[i])
      BY <3>2, <3>3, AttachedTells
    <3> QED  BY <2>1, <2>2, <2>3, <3>1, <3>4, RecordedKept
  <2> QED  BY <2>4, <2>5
<1>10. CASE React
  <2> DEFINE m == [content |-> "reactionMessage", fromMe |-> TRUE, caption |-> FALSE, quotes |-> 0]
  <2>1. m \in WireMessage
    BY <1>0 DEF WireMessage, ContentType
  <2>2. /\ Len(wire) < MaxWire /\ wire' = Append(wire, m) /\ held' = held
        /\ UNCHANGED <<wireChat, session, listeners, posted, arriving, timeline, unrecorded>>
    BY <1>10 DEF React, Sendable
  <2> HIDE DEF m
  <2> QED  BY <2>1, <2>2, GrownKept
<1> QED  BY <1>1, <1>2, <1>3, <1>4, <1>5, <1>7, <1>8, <1>9, <1>10 DEF WireNext

\* What happens in a chat comes to the timeline once, and the same by every way: announced,
\* imported, dispatched by the desk, and in any order of these.
LEMMA WireAgrees == WireMore => WireInv /\ WireTypeOK
<1> SUFFICES ASSUME WireMore PROVE WireInv /\ WireTypeOK
  OBVIOUS
<1>0. Len(wire) \in Nat /\ MaxWire \in Nat /\ DOMAIN wire = 1 .. Len(wire)
  BY WireAssumption, LenProperties DEF WireMore
<1>1. StoredAlike
  <2> SUFFICES ASSUME NEW i \in 1 .. Len(wire), NEW j \in 1 .. Len(wire), wire[i] = wire[j],
                      timeline[i] # Unstored, timeline[j] # Unstored
               PROVE  /\ timeline[i].type = timeline[j].type
                      /\ timeline[i].direction = timeline[j].direction
                      /\ timeline[i].quotes = timeline[j].quotes
                      /\ (timeline[i].media = {}) = (timeline[j].media = {})
                      /\ \/ timeline[i].dispatched \/ timeline[j].dispatched
                         \/ timeline[i].body = timeline[j].body
    BY <1>0 DEF StoredAlike
  <2>1. i \in Places /\ j \in Places
    BY <1>0 DEF WireMore, Places
  <2>2. RowTells(timeline[i], wire[i]) /\ RowTells(timeline[j], wire[i])
    BY <2>1 DEF WireMore
  <2> QED  BY <2>2 DEF RowTells
<1>2. ForwardedOnce
  BY DEF ForwardedOnce, WireMore
<1>3. WireTypeOK
  <2>1. arriving \subseteq WireEvent
    BY DEF WireMore, Tells
  <2>2. \A k \in DOMAIN unrecorded : unrecorded[k] \in [at : Places, row : WireRow]
    <3>1. CASE unrecorded = <<>>
      BY <3>1
    <3>2. ASSUME NEW i \in 1 .. Len(wire), NEW r \in WireRow, unrecorded = <<[at |-> i, row |-> r]>>
          PROVE  \A k \in DOMAIN unrecorded : unrecorded[k] \in [at : Places, row : WireRow]
      <4>1. i \in Places
        BY <1>0 DEF WireMore, Places
      <4>2. [at |-> i, row |-> r] \in [at : Places, row : WireRow]
        BY <4>1
      <4>3. DOMAIN unrecorded = {1} /\ unrecorded[1] = [at |-> i, row |-> r]
        BY <3>2
      <4> QED  BY <4>2, <4>3
    <3> QED  BY <3>1, <3>2 DEF WireMore
  <2>3. held \subseteq DOMAIN wire /\ posted \in [Places -> Nat]
    BY <1>0 DEF WireMore
  <2> QED  BY <2>1, <2>2, <2>3 DEF WireMore, WireTypeOK
<1> QED  BY <1>1, <1>2, <1>3 DEF WireInv

-----------------------------------------------------------------------------
(* The gateway's cache of messages.                                        *)

\* No message is in a list twice.
Differ(s) == \A i, j \in DOMAIN s : s[i] = s[j] => i = j
MessagesDiffer(s) == \A i, j \in DOMAIN s : s[i].msg = s[j].msg => i = j

HasMessage(s, m) == \E k \in DOMAIN s : s[k].msg = m

\* While the chat does not overflow, what is saved is in memory, and what is in memory is
\* listed, unless an event of it is being handled.
Quotable == \A m \in Posted : Saved(m) => Holds(m)
Shown == \A m \in Posted : Holds(m) => Listed(m) \/ Recording(m)
NothingTwice == (\A a \in Addresses : Differ(lists[a])) /\ MessagesDiffer(raw) /\ MessagesDiffer(file)
CacheFits == Cardinality(Posted) <= MaxCached
CacheMore == CacheTypeOK /\ (CacheFits => NothingTwice /\ Quotable /\ Shown)

LEMMA CacheMoreImplies == CacheMore => SavedIsAtHand
  BY DEF CacheMore, CacheFits, Quotable, Shown, SavedIsAtHand

\* A list that has no message twice is not too long.
LEMMA DistinctFits ==
  ASSUME CacheFits, NEW s \in Seq(Posted), Differ(s)
  PROVE  Len(s) \in Nat /\ Len(s) <= MaxCached
<1>1. Len(s) \in Nat /\ Len(s) <= Cardinality(Posted)
  BY CacheAssumption, DistinctIsShort, LenProperties DEF Differ
<1>2. Cardinality(Posted) \in Nat
  BY CacheAssumption, FS_CardinalityType
<1> QED  BY <1>1, <1>2, CacheAssumption DEF CacheFits

\* The messages of raw ones, as a list.
LEMMA MessagesFit ==
  ASSUME CacheFits, NEW s \in Seq(Raw), MessagesDiffer(s)
  PROVE  Len(s) \in Nat /\ Len(s) <= MaxCached
<1> DEFINE q == [k \in DOMAIN s |-> s[k].msg]
<1>1. Len(s) \in Nat /\ DOMAIN s = 1 .. Len(s) /\ \A k \in 1 .. Len(s) : s[k] \in Raw
  BY LenProperties
<1>2. q \in [1 .. Len(s) -> Posted]
  BY <1>1 DEF Raw
<1>3. q \in Seq(Posted) /\ Len(q) = Len(s)
  <2> HIDE DEF q
  <2> QED  BY <1>1, <1>2, LenProperties, SeqDef
<1>4. Differ(q)
  BY <1>1 DEF Differ, MessagesDiffer
<1> HIDE DEF q
<1> QED  BY <1>3, <1>4, DistinctFits

\* A filter has nothing twice either, and drops only what it is about.
LEMMA AmongDiffers ==
  ASSUME NEW s \in Seq(Raw), NEW T
  PROVE  /\ Among(s, T) \in Seq(Raw)
         /\ \A k \in DOMAIN Among(s, T) : \E i \in DOMAIN s : Among(s, T)[k] = s[i] /\ s[i] \in T
         /\ \A i \in DOMAIN s : s[i] \in T => \E k \in DOMAIN Among(s, T) : Among(s, T)[k] = s[i]
         /\ MessagesDiffer(s) => MessagesDiffer(Among(s, T))
<1> DEFINE P == PlacesOf(s, T)
           q == Among(s, T)
<1>1. IsFiniteSet(P) /\ P \subseteq 1 .. Len(s) /\ q \in Seq(Raw \cap T) /\ Len(q) = Cardinality(P)
  <2>1. IsFiniteSet(P) /\ P \subseteq 1 .. Len(s)
    BY AmongHolds
  <2>2. q \in Seq(Raw \cap T) /\ Len(q) = Cardinality(P)
    BY AmongHolds
  <2> QED  BY <2>1, <2>2
<1>2. Len(s) \in Nat /\ DOMAIN s = 1 .. Len(s)
  BY LenProperties
<1>3. \A k : k \in P <=> k \in DOMAIN s /\ s[k] \in T
  BY DEF PlacesOf
<1>4. P \in SUBSET Nat
  <2> HIDE DEF P
  <2> QED  BY <1>1, <1>2
<1>5. /\ \A i \in 1 .. Cardinality(P) : Ascending(P)[i] \in P
      /\ \A i, j \in 1 .. Cardinality(P) : i < j => Ascending(P)[i] < Ascending(P)[j]
      /\ \A x \in P : \E i \in 1 .. Cardinality(P) : Ascending(P)[i] = x
  <2> HIDE DEF P
  <2> QED  BY <1>1, <1>4, AscendingHolds
<1>6. Cardinality(P) \in Nat /\ DOMAIN q = 1 .. Cardinality(P)
  <2> HIDE DEF P, q
  <2> QED  BY <1>1, LenProperties
<1>7. \A i \in DOMAIN q : q[i] = s[Ascending(P)[i]]
  BY DEF Among
<1> HIDE DEF P, q
<1>8. q \in Seq(Raw)
  BY <1>1, SeqMonotonic
<1>9. ASSUME MessagesDiffer(s) PROVE MessagesDiffer(q)
  <2> SUFFICES ASSUME NEW i \in DOMAIN q, NEW j \in DOMAIN q, q[i].msg = q[j].msg PROVE i = j
    BY DEF MessagesDiffer
  <2>1. Ascending(P)[i] \in P /\ Ascending(P)[j] \in P /\ i \in 1 .. Cardinality(P) /\ j \in 1 .. Cardinality(P)
    BY <1>5, <1>6
  <2>2. Ascending(P)[i] = Ascending(P)[j]
    BY <1>3, <1>7, <1>9, <2>1 DEF MessagesDiffer
  <2>3. Ascending(P)[i] \in Nat
    BY <1>4, <2>1
  <2>4. ~(i < j) /\ ~(j < i)
    BY <1>5, <2>1, <2>2, <2>3
  <2> QED  BY <1>6, <2>1, <2>4
<1>10. \A k \in DOMAIN q : \E i \in DOMAIN s : q[k] = s[i] /\ s[i] \in T
  BY <1>3, <1>5, <1>6, <1>7
<1>11. \A i \in DOMAIN s : s[i] \in T => \E k \in DOMAIN q : q[k] = s[i]
  BY <1>3, <1>5, <1>6, <1>7
<1> QED  BY <1>8, <1>9, <1>10, <1>11 DEF q

\* A raw message takes the place of the one that was there, or comes last.
LEMMA KeptHolds ==
  ASSUME raw \in Seq(Raw), NEW r \in Raw
  PROVE  /\ Kept(r) \in Seq(Raw)
         /\ \A m \in Posted : HasMessage(Kept(r), m) <=> HasMessage(raw, m) \/ m = r.msg
         /\ MessagesDiffer(raw) => MessagesDiffer(Kept(r))
<1> DEFINE q == Kept(r)
<1>1. Len(raw) \in Nat /\ DOMAIN raw = 1 .. Len(raw) /\ \A k \in 1 .. Len(raw) : raw[k] \in Raw
  BY LenProperties
<1>2. CASE \E k \in DOMAIN raw : raw[k].msg = r.msg
  <2>1. q = [k \in 1 .. Len(raw) |-> IF raw[k].msg = r.msg THEN r ELSE raw[k]]
    BY <1>1, <1>2 DEF Kept
  <2> HIDE DEF q
  <2>2. q \in [1 .. Len(raw) -> Raw]
    BY <1>1, <2>1
  <2>3. q \in Seq(Raw) /\ DOMAIN q = 1 .. Len(raw)
    BY <1>1, <2>2, LenProperties, SeqDef
  <2>4. \A k \in 1 .. Len(raw) : q[k].msg = raw[k].msg
    BY <2>1
  <2>5. \A m \in Posted : HasMessage(q, m) <=> HasMessage(raw, m) \/ m = r.msg
    BY <1>1, <1>2, <2>3, <2>4 DEF HasMessage
  <2>6. MessagesDiffer(raw) => MessagesDiffer(q)
    BY <1>1, <2>3, <2>4 DEF MessagesDiffer
  <2> QED  BY <2>3, <2>5, <2>6 DEF q
<1>3. CASE ~\E k \in DOMAIN raw : raw[k].msg = r.msg
  <2>1. q = Append(raw, r)
    BY <1>3 DEF Kept
  <2> HIDE DEF q
  <2>2. /\ q \in Seq(Raw) /\ Len(q) = Len(raw) + 1 /\ DOMAIN q = 1 .. Len(raw) + 1
        /\ \A k \in 1 .. Len(raw) : q[k] = raw[k]
        /\ q[Len(raw) + 1] = r
    BY <1>1, <2>1, AppendProperties, LenProperties
  <2>3. \A m \in Posted : HasMessage(q, m) <=> HasMessage(raw, m) \/ m = r.msg
    BY <1>1, <2>2 DEF HasMessage
  <2>4. MessagesDiffer(raw) => MessagesDiffer(q)
    BY <1>1, <1>3, <2>2 DEF MessagesDiffer
  <2> QED  BY <2>2, <2>3, <2>4 DEF q
<1> QED  BY <1>2, <1>3

\* A message more, last or first.
LEMMA LongerHolds ==
  ASSUME NEW s \in Seq(Posted), NEW m \in Posted, NEW q, q = Append(s, m) \/ q = <<m>> \o s
  PROVE  /\ q \in Seq(Posted) /\ Len(q) = Len(s) + 1
         /\ Contains(q, m) /\ \A x : Contains(s, x) => Contains(q, x)
         /\ Differ(s) /\ ~Contains(s, m) => Differ(q)
<1>1. Len(s) \in Nat /\ DOMAIN s = 1 .. Len(s)
  BY LenProperties
<1>2. CASE q = Append(s, m)
  <2>1. /\ q \in Seq(Posted) /\ Len(q) = Len(s) + 1 /\ DOMAIN q = 1 .. Len(s) + 1
        /\ \A k \in 1 .. Len(s) : q[k] = s[k]
        /\ q[Len(s) + 1] = m
    BY <1>1, <1>2, AppendProperties, LenProperties
  <2>2. Contains(q, m) /\ \A x : Contains(s, x) => Contains(q, x)
    BY <1>1, <2>1 DEF Contains
  <2>3. Differ(s) /\ ~Contains(s, m) => Differ(q)
    BY <1>1, <2>1 DEF Contains, Differ
  <2> QED  BY <2>1, <2>2, <2>3
<1>3. CASE q = <<m>> \o s
  <2>1. /\ q \in Seq(Posted) /\ Len(q) = Len(s) + 1 /\ DOMAIN q = 1 .. Len(s) + 1
        /\ \A k \in 1 .. Len(s) + 1 : q[k] = IF k = 1 THEN m ELSE s[k - 1]
    <3>1. <<m>> \in Seq(Posted) /\ Len(<<m>>) = 1 /\ <<m>>[1] = m
      OBVIOUS
    <3> QED  BY <1>1, <1>3, <3>1, ConcatProperties, LenProperties
  <2>2. \A k \in 1 .. Len(s) : q[k + 1] = s[k] /\ k + 1 \in 1 .. Len(q)
    BY <1>1, <2>1
  <2>3. q[1] = m /\ 1 \in 1 .. Len(q)
    BY <1>1, <2>1
  <2>4. Contains(q, m) /\ \A x : Contains(s, x) => Contains(q, x)
    BY <2>2, <2>3 DEF Contains
  <2>5. Differ(s) /\ ~Contains(s, m) => Differ(q)
    <3> SUFFICES ASSUME Differ(s), ~Contains(s, m), NEW i \in DOMAIN q, NEW j \in DOMAIN q, q[i] = q[j]
                 PROVE  i = j
      BY DEF Differ
    <3>1. \A k \in 1 .. Len(s) : s[k] # m
      BY DEF Contains
    <3>2. CASE i = 1
      BY <1>1, <2>1, <3>1, <3>2
    <3>3. CASE j = 1
      BY <1>1, <2>1, <3>1, <3>3
    <3>4. CASE i # 1 /\ j # 1
      <4>1. i - 1 \in DOMAIN s /\ j - 1 \in DOMAIN s /\ s[i - 1] = s[j - 1]
        BY <1>1, <2>1, <3>4
      <4>2. i - 1 = j - 1
        BY <4>1 DEF Differ
      <4> QED  BY <2>1, <1>1, <4>2
    <3> QED  BY <3>2, <3>3, <3>4
  <2> QED  BY <2>1, <2>4, <2>5
<1> QED  BY <1>2, <1>3

\* The rest of a list that is too long.
LEMMA RestHolds ==
  ASSUME CacheAssumption, NEW s \in Seq(Posted), NEW over,
         over = IF Len(s) > MaxCached THEN Len(s) - MaxCached ELSE 0
  PROVE  /\ SubSeq(s, over + 1, Len(s)) \in Seq(Posted)
         /\ Len(SubSeq(s, over + 1, Len(s))) <= MaxCached
         /\ Len(s) <= MaxCached => over = 0 /\ SubSeq(s, over + 1, Len(s)) = s
<1>1. Len(s) \in Nat /\ over \in Nat /\ Len(s) - over <= MaxCached /\ over <= Len(s)
  BY LenProperties DEF CacheAssumption
<1>2. \A k \in over + 1 .. Len(s) : s[k] \in Posted
  BY <1>1, LenProperties
<1>3. SubSeq(s, over + 1, Len(s)) \in Seq(Posted) /\ Len(SubSeq(s, over + 1, Len(s))) = Len(s) - over
  BY <1>1, <1>2, SubSeqProperties
<1>4. ASSUME Len(s) <= MaxCached PROVE over = 0 /\ SubSeq(s, over + 1, Len(s)) = s
  <2>1. over = 0 /\ over + 1 = 1
    BY <1>1, <1>4 DEF CacheAssumption
  <2> QED  BY <2>1, SubSeqFull
<1> QED  BY <1>1, <1>3, <1>4

\* A message that a chat lists: what was listed stays listed, unless the chat overflows.
LEMMA ListHolds ==
  ASSUME CacheTypeOK, NEW h \in Handlers, handler[h] \in Handler, NEW raws \in Seq(Raw), List(h, raws)
  PROVE  /\ lists' \in [Addresses -> Seq(Posted)] /\ raw' \in Seq(Raw)
         /\ \A a \in Addresses : Len(lists'[a]) <= MaxCached
         /\ handler' = [handler EXCEPT ![h] = NoHandler]
         /\ dirty' = TRUE /\ flushTimer' \in {"null", "running", "cleared"}
         /\ CacheFits /\ (\A a \in Addresses : Differ(lists[a]))
              => /\ \A a \in Addresses : Differ(lists'[a])
                 /\ MessagesDiffer(raws) => MessagesDiffer(raw')
                 /\ \A m \in Posted : HasMessage(raw', m) <=> HasMessage(raws, m)
                 /\ \A m \in Posted : Listed(m) \/ m = handler[h].msg => Listed(m)'
<1> DEFINE e == handler[h]
           s == lists[e.chat]
           longer == IF e.history THEN <<e.msg>> \o s ELSE Append(s, e.msg)
           over == IF Len(longer) > MaxCached THEN Len(longer) - MaxCached ELSE 0
           gone == {longer[k] : k \in 1 .. over}
           rest == SubSeq(longer, over + 1, Len(longer))
<1>1. /\ IF Contains(s, e.msg) THEN lists' = lists /\ raw' = raws
         ELSE /\ lists' = [lists EXCEPT ![e.chat] = rest]
              /\ raw' = Among(raws, {r \in Raw : r.msg \notin gone})
      /\ handler' = [handler EXCEPT ![h] = NoHandler]
      /\ dirty' = TRUE /\ flushTimer' \in {"null", "running", "cleared"}
  BY DEF List, Schedule, CacheTypeOK
<1>2. /\ lists \in [Addresses -> Seq(Posted)] /\ \A a \in Addresses : Len(lists[a]) <= MaxCached
      /\ e.chat \in Addresses /\ e.msg \in Posted /\ s \in Seq(Posted)
  BY DEF CacheTypeOK, Handler
<1>3. longer = Append(s, e.msg) \/ longer = <<e.msg>> \o s
  OBVIOUS
<1> HIDE DEF longer
<1>4. /\ longer \in Seq(Posted)
      /\ Contains(longer, e.msg) /\ \A x : Contains(s, x) => Contains(longer, x)
      /\ Differ(s) /\ ~Contains(s, e.msg) => Differ(longer)
  BY <1>2, <1>3, LongerHolds
<1>5. /\ rest \in Seq(Posted) /\ Len(rest) <= MaxCached
      /\ Len(longer) <= MaxCached => over = 0 /\ rest = longer
  BY <1>4, CacheAssumption, RestHolds
<1>6. CASE Contains(s, e.msg)
  <2>1. lists' = lists /\ raw' = raws
    BY <1>1, <1>6
  <2>2. \A m \in Posted : Listed(m) \/ m = e.msg => Listed(m)'
    BY <1>2, <1>6, <2>1 DEF Listed
  <2> QED  BY <1>1, <1>2, <2>1, <2>2
<1>7. CASE ~Contains(s, e.msg)
  <2>1. lists' = [lists EXCEPT ![e.chat] = rest] /\ raw' = Among(raws, {r \in Raw : r.msg \notin gone})
    BY <1>1, <1>7
  <2> HIDE DEF rest
  <2>2. /\ lists' \in [Addresses -> Seq(Posted)] /\ \A a \in Addresses : Len(lists'[a]) <= MaxCached
        /\ lists'[e.chat] = rest /\ \A a \in Addresses \ {e.chat} : lists'[a] = lists[a]
    BY <1>2, <1>5, <2>1
  <2>3. raw' \in Seq(Raw)
    BY <2>1, AmongDiffers
  <2>4. ASSUME CacheFits, \A a \in Addresses : Differ(lists[a])
        PROVE  /\ \A a \in Addresses : Differ(lists'[a])
               /\ MessagesDiffer(raws) => MessagesDiffer(raw')
               /\ \A m \in Posted : HasMessage(raw', m) <=> HasMessage(raws, m)
               /\ \A m \in Posted : Listed(m) \/ m = e.msg => Listed(m)'
    <3>1. Differ(longer)
      BY <1>2, <1>4, <1>7, <2>4
    <3>2. over = 0 /\ rest = longer
      BY <1>4, <1>5, <2>4, <3>1, DistinctFits
    <3>3. \A a \in Addresses : Differ(lists'[a])
      BY <2>2, <2>4, <3>1, <3>2
    <3>4. {r \in Raw : r.msg \notin gone} = Raw
      BY <3>2
    <3>5. /\ \A k \in DOMAIN raw' : \E i \in DOMAIN raws : raw'[k] = raws[i]
          /\ \A i \in DOMAIN raws : raws[i] \in Raw => \E k \in DOMAIN raw' : raw'[k] = raws[i]
          /\ MessagesDiffer(raws) => MessagesDiffer(raw')
      <4>1. raw' = Among(raws, Raw)
        BY <2>1, <3>4
      <4> QED  BY <4>1, AmongDiffers
    <3>6. \A i \in DOMAIN raws : raws[i] \in Raw
      BY LenProperties
    <3>7. \A m \in Posted : HasMessage(raw', m) <=> HasMessage(raws, m)
      BY <3>5, <3>6 DEF HasMessage
    <3>8. \A m \in Posted : Listed(m) \/ m = e.msg => Listed(m)'
      BY <1>2, <1>4, <2>2, <3>2 DEF Listed
    <3> QED  BY <3>3, <3>5, <3>7, <3>8
  <2> QED  BY <1>1, <2>2, <2>3, <2>4
<1> QED  BY <1>6, <1>7

LEMMA CacheStarts == CacheInit => CacheMore
<1> SUFFICES ASSUME CacheInit PROVE CacheMore
  OBVIOUS
<1>1. CacheTypeOK
  <2>1. /\ lists = [a \in Addresses |-> <<>>] /\ raw = <<>> /\ file = <<>>
        /\ <<>> \in Seq(Posted) /\ Len(<<>>) = 0 /\ <<>> \in Seq(Raw)
    BY DEF CacheInit
  <2>2. lists \in [Addresses -> Seq(Posted)] /\ \A a \in Addresses : Len(lists[a]) <= MaxCached
    BY <2>1, CacheAssumption DEF CacheAssumption
  <2>3. {socket, dirty, stops} \subseteq BOOLEAN
    BY DEF CacheInit
  <2>4. cacheFaults \in 0 .. MaxCacheFaults
    BY CacheAssumption DEF CacheInit, CacheAssumption
  <2>5. /\ mapping \in {"unknown", "stored", "announced"} /\ flushTimer \in {"null", "running", "cleared"}
        /\ metas \subseteq Addresses /\ handler \in [Handlers -> Handler \cup {NoHandler}]
    BY DEF CacheInit
  <2> QED  BY <2>1, <2>2, <2>3, <2>4, <2>5 DEF CacheTypeOK
<1>2. \A m : ~Saved(m) /\ ~Holds(m)
  BY DEF CacheInit, Saved, Holds
<1>3. NothingTwice /\ Quotable /\ Shown
  BY <1>2 DEF CacheInit, NothingTwice, Differ, MessagesDiffer, Quotable, Shown
<1> QED  BY <1>1, <1>3 DEF CacheMore

\* What is recorded by other handlers stays recorded.
LEMMA StillRecording ==
  ASSUME NEW h \in Handlers, NEW m, NEW e, handler' = [handler EXCEPT ![h] = e],
         handler \in [Handlers -> Handler \cup {NoHandler}],
         handler[h] = NoHandler \/ handler[h].msg # m \/ (e # NoHandler /\ e.msg = m)
  PROVE  Recording(m) => Recording(m)'
BY DEF Recording

LEMMA ReceiveKeeps ==
  ASSUME CacheMore, NEW h \in Handlers, ReceiveMessage(h)
  PROVE  CacheMore'
<1>1. PICK e : /\ handler[h] = NoHandler
               /\ handler' = [handler EXCEPT ![h] = e] /\ e \in Handler
  <2>1. PICK m \in Posted, a \in Addresses, past \in BOOLEAN :
          handler' = [handler EXCEPT ![h] = [at |-> "resolved", msg |-> m, to |-> a,
                                             chat |-> Canonical(a), history |-> past]]
    BY DEF ReceiveMessage
  <2>2. Canonical(a) \in Addresses
    BY DEF Canonical, Addresses
  <2>3. [at |-> "resolved", msg |-> m, to |-> a, chat |-> Canonical(a), history |-> past] \in Handler
    BY <2>2 DEF Handler
  <2> QED  BY <2>1, <2>3 DEF ReceiveMessage
<1>2. UNCHANGED <<socket, mapping, metas, lists, raw, flushTimer, dirty, file, stops, cacheFaults>>
  BY DEF ReceiveMessage
<1>3. CacheTypeOK'
  BY <1>1, <1>2 DEF CacheMore, CacheTypeOK
<1>4. ASSUME CacheFits PROVE (NothingTwice /\ Quotable /\ Shown)'
  <2>1. NothingTwice /\ Quotable /\ Shown /\ handler \in [Handlers -> Handler \cup {NoHandler}]
    BY <1>4 DEF CacheMore, CacheTypeOK
  <2>2. \A m \in Posted : Recording(m) => Recording(m)'
    BY <1>1, <2>1, StillRecording
  <2>3. \A m : (Saved(m)' <=> Saved(m)) /\ (Holds(m)' <=> Holds(m)) /\ (Listed(m)' <=> Listed(m))
    BY <1>2 DEF Saved, Holds, Listed
  <2>4. NothingTwice'
    BY <1>2, <2>1 DEF NothingTwice
  <2> QED  BY <2>1, <2>2, <2>3, <2>4 DEF Quotable, Shown
<1> QED  BY <1>3, <1>4 DEF CacheMore, CacheFits

LEMMA RecordKeeps ==
  ASSUME CacheMore, NEW h \in Handlers, RecordMessage(h)
  PROVE  CacheMore'
<1> DEFINE e == handler[h]
           raws == Kept([msg |-> e.msg, to |-> e.to])
<1>1. e # NoHandler /\ e \in Handler
  BY DEF RecordMessage, CacheMore, CacheTypeOK
<1>2. e.msg \in Posted /\ [msg |-> e.msg, to |-> e.to] \in Raw /\ [msg |-> e.msg, to |-> e.to].msg = e.msg
  BY <1>1 DEF Handler, Raw
<1>3. /\ raws \in Seq(Raw)
      /\ \A m \in Posted : HasMessage(raws, m) <=> HasMessage(raw, m) \/ m = e.msg
      /\ MessagesDiffer(raw) => MessagesDiffer(raws)
  BY <1>2, KeptHolds DEF CacheMore, CacheTypeOK
<1>4. IF e.chat \in metas THEN List(h, raws)
      ELSE /\ handler' = [handler EXCEPT ![h].at = "creating"]
           /\ raw' = raws
           /\ UNCHANGED <<lists, flushTimer, dirty>>
  BY DEF RecordMessage
<1>5. UNCHANGED <<socket, mapping, metas, file, stops, cacheFaults>>
  BY DEF RecordMessage
<1> HIDE DEF raws
<1>6. CASE e.chat \in metas
  <2>1. List(h, raws)
    BY <1>4, <1>6
  <2>2. /\ lists' \in [Addresses -> Seq(Posted)] /\ raw' \in Seq(Raw)
        /\ \A a \in Addresses : Len(lists'[a]) <= MaxCached
        /\ handler' = [handler EXCEPT ![h] = NoHandler]
        /\ dirty' = TRUE /\ flushTimer' \in {"null", "running", "cleared"}
    BY <1>1, <1>3, <2>1, ListHolds DEF CacheMore
  <2>3. CacheTypeOK'
    BY <1>5, <2>2 DEF CacheMore, CacheTypeOK
  <2>4. ASSUME CacheFits PROVE (NothingTwice /\ Quotable /\ Shown)'
    <3>1. NothingTwice /\ Quotable /\ Shown
      BY <2>4 DEF CacheMore
    <3>2. /\ \A a \in Addresses : Differ(lists'[a])
          /\ MessagesDiffer(raws) => MessagesDiffer(raw')
          /\ \A m \in Posted : HasMessage(raw', m) <=> HasMessage(raws, m)
          /\ \A m \in Posted : Listed(m) \/ m = e.msg => Listed(m)'
      BY <1>1, <1>3, <2>1, <2>4, <3>1, ListHolds DEF CacheMore, NothingTwice
    <3>3. NothingTwice'
      BY <1>3, <1>5, <3>1, <3>2 DEF NothingTwice
    <3>4. \A m \in Posted : (Holds(m)' <=> Holds(m) \/ m = e.msg) /\ (Saved(m)' <=> Saved(m))
      BY <1>3, <1>5, <3>2 DEF Holds, HasMessage, Saved
    <3>5. \A m \in Posted : m # e.msg /\ Recording(m) => Recording(m)'
      BY <1>1, <2>2, StillRecording DEF CacheMore, CacheTypeOK
    <3> QED  BY <3>1, <3>2, <3>3, <3>4, <3>5 DEF Quotable, Shown
  <2> QED  BY <2>3, <2>4 DEF CacheMore, CacheFits
<1>7. CASE e.chat \notin metas
  <2>1. /\ handler' = [handler EXCEPT ![h] = [e EXCEPT !.at = "creating"]]
        /\ raw' = raws
        /\ UNCHANGED <<lists, flushTimer, dirty>>
    BY <1>4, <1>7
  <2> DEFINE new == [e EXCEPT !.at = "creating"]
  <2>2. new \in Handler /\ new.msg = e.msg
    BY <1>1 DEF Handler
  <2> HIDE DEF new
  <2>3. CacheTypeOK'
    BY <1>3, <1>5, <2>1, <2>2 DEF CacheMore, CacheTypeOK, new
  <2>4. ASSUME CacheFits PROVE (NothingTwice /\ Quotable /\ Shown)'
    <3>1. NothingTwice /\ Quotable /\ Shown /\ handler \in [Handlers -> Handler \cup {NoHandler}]
      BY <2>4 DEF CacheMore, CacheTypeOK
    <3>2. NothingTwice'
      BY <1>3, <1>5, <2>1, <3>1 DEF NothingTwice
    <3>3. \A m \in Posted : (Holds(m)' <=> Holds(m) \/ m = e.msg) /\ (Saved(m)' <=> Saved(m))
                            /\ (Listed(m)' <=> Listed(m))
      BY <1>3, <1>5, <2>1 DEF Holds, HasMessage, Saved, Listed
    <3>4. handler' = [handler EXCEPT ![h] = new] /\ handler'[h] = new
      BY <2>1, <3>1 DEF new
    <3>5. new # NoHandler
      BY <2>2, CacheAssumption DEF CacheAssumption
    <3>6. \A m \in Posted : Recording(m) => Recording(m)'
      BY <2>2, <3>1, <3>4, <3>5, StillRecording
    <3>7. \A m : m = e.msg => Recording(m)'
      BY <2>2, <3>4, <3>5 DEF Recording
    <3>8. \A m \in Posted : Holds(m)' => Listed(m)' \/ Recording(m)'
      BY <3>1, <3>3, <3>6, <3>7 DEF Shown
    <3>9. \A m \in Posted : Saved(m)' => Holds(m)'
      BY <3>1, <3>3 DEF Quotable
    <3> QED  BY <3>2, <3>8, <3>9 DEF Quotable, Shown
  <2> QED  BY <2>3, <2>4 DEF CacheMore, CacheFits
<1> QED  BY <1>6, <1>7

LEMMA CreateKeeps ==
  ASSUME CacheMore, NEW h \in Handlers, CreateMeta(h)
  PROVE  CacheMore'
<1> DEFINE e == handler[h]
<1>1. e # NoHandler /\ e \in Handler
  BY DEF CreateMeta, CacheMore, CacheTypeOK
<1>2. List(h, raw) /\ raw \in Seq(Raw)
  BY DEF CreateMeta, CacheMore, CacheTypeOK
<1>3. UNCHANGED <<socket, mapping, file, stops, cacheFaults>> /\ metas' = metas \cup {Canonical(e.chat)}
  BY DEF CreateMeta
<1>4. /\ lists' \in [Addresses -> Seq(Posted)] /\ raw' \in Seq(Raw)
      /\ \A a \in Addresses : Len(lists'[a]) <= MaxCached
      /\ handler' = [handler EXCEPT ![h] = NoHandler]
      /\ dirty' = TRUE /\ flushTimer' \in {"null", "running", "cleared"}
  BY <1>1, <1>2, ListHolds DEF CacheMore
<1>5. CacheTypeOK'
  <2>1. Canonical(e.chat) \in Addresses
    BY <1>1 DEF Canonical, Addresses, Handler
  <2>2. metas' \subseteq Addresses
    BY <1>3, <2>1 DEF CacheMore, CacheTypeOK
  <2> QED  BY <1>3, <1>4, <2>2 DEF CacheMore, CacheTypeOK
<1>6. ASSUME CacheFits PROVE (NothingTwice /\ Quotable /\ Shown)'
  <2>1. NothingTwice /\ Quotable /\ Shown
    BY <1>6 DEF CacheMore
  <2>2. /\ \A a \in Addresses : Differ(lists'[a])
        /\ MessagesDiffer(raw) => MessagesDiffer(raw')
        /\ \A m \in Posted : HasMessage(raw', m) <=> HasMessage(raw, m)
        /\ \A m \in Posted : Listed(m) \/ m = e.msg => Listed(m)'
    BY <1>1, <1>2, <1>6, <2>1, ListHolds DEF CacheMore, NothingTwice
  <2>3. NothingTwice'
    BY <1>3, <2>1, <2>2 DEF NothingTwice
  <2>4. \A m \in Posted : (Holds(m)' <=> Holds(m)) /\ (Saved(m)' <=> Saved(m))
    BY <1>3, <2>2 DEF Holds, HasMessage, Saved
  <2>5. \A m \in Posted : m # e.msg /\ Recording(m) => Recording(m)'
    BY <1>1, <1>4, StillRecording DEF CacheMore, CacheTypeOK
  <2> QED  BY <2>1, <2>2, <2>3, <2>4, <2>5 DEF Quotable, Shown
<1> QED  BY <1>5, <1>6 DEF CacheMore, CacheFits

\* The two lists of the contact become one.
LEMMA MergeKeeps ==
  ASSUME CacheMore, MergeMapping
  PROVE  CacheMore'
<1> DEFINE S == ToSet(lists["pn"]) \cup ToSet(lists["lid"])
           all == Ascending(S)
           over == IF Len(all) > MaxCached THEN Len(all) - MaxCached ELSE 0
           rest == SubSeq(all, over + 1, Len(all))
<1>1. /\ mapping' = "announced"
      /\ IF "lid" \notin metas THEN UNCHANGED <<metas, lists, flushTimer, dirty>>
         ELSE /\ metas' = {"pn"}
              /\ lists' = IF lists["lid"] = <<>> THEN lists ELSE [lists EXCEPT !["pn"] = rest, !["lid"] = <<>>]
              /\ dirty' = TRUE /\ flushTimer' \in {"null", "running", "cleared"}
      /\ UNCHANGED <<socket, raw, handler, file, stops, cacheFaults>>
  BY DEF MergeMapping, Schedule, CacheMore, CacheTypeOK
<1>2. /\ lists \in [Addresses -> Seq(Posted)] /\ \A a \in Addresses : Len(lists[a]) <= MaxCached
      /\ lists["pn"] \in Seq(Posted) /\ lists["lid"] \in Seq(Posted)
  BY DEF CacheMore, CacheTypeOK, Addresses
<1>3. S \in SUBSET Posted /\ \A m : m \in S <=> Contains(lists["pn"], m) \/ Contains(lists["lid"], m)
  BY <1>2, LenProperties DEF ToSet, Contains
<1>4. IsFiniteSet(S) /\ S \in SUBSET Nat /\ Cardinality(S) <= Cardinality(Posted)
  <2> HIDE DEF S
  <2> QED  BY <1>3, CacheAssumption, FS_Subset DEF CacheAssumption
<1>5. /\ all \in Seq(Posted) /\ Len(all) = Cardinality(S) /\ Len(all) \in Nat
      /\ \A m : m \in S => Contains(all, m)
      /\ Differ(all)
  <2> HIDE DEF S
  <2>1. /\ Cardinality(S) \in Nat
        /\ all \in Seq(S)
        /\ Len(all) = Cardinality(S)
        /\ \A i \in 1 .. Cardinality(S) : all[i] \in S
    BY <1>4, AscendingHolds
  <2>2. /\ \A i, j \in 1 .. Cardinality(S) : i < j => all[i] < all[j]
        /\ \A x \in S : \E i \in 1 .. Cardinality(S) : all[i] = x
    BY <1>4, AscendingHolds
  <2> HIDE DEF all
  <2>3. all \in Seq(Posted) /\ DOMAIN all = 1 .. Cardinality(S)
    BY <1>3, <2>1, SeqMonotonic, LenProperties
  <2>4. Differ(all)
    <3> SUFFICES ASSUME NEW i \in DOMAIN all, NEW j \in DOMAIN all, all[i] = all[j] PROVE i = j
      BY DEF Differ
    <3>1. all[i] \in Nat /\ all[j] \in Nat
      BY <1>4, <2>1, <2>3
    <3>2. ~(i < j) /\ ~(j < i)
      BY <2>2, <2>3, <3>1
    <3> QED  BY <2>1, <2>3, <3>2
  <2>5. \A m : m \in S => Contains(all, m)
    BY <2>1, <2>2 DEF Contains
  <2> QED  BY <2>1, <2>3, <2>4, <2>5
<1> HIDE DEF S, all
<1>6. /\ rest \in Seq(Posted) /\ Len(rest) <= MaxCached
      /\ Len(all) <= MaxCached => rest = all
  BY <1>5, CacheAssumption, RestHolds
<1> HIDE DEF rest
<1>7. ASSUME lists' # lists
      PROVE  /\ lists' = [lists EXCEPT !["pn"] = rest, !["lid"] = <<>>] /\ lists' \in [Addresses -> Seq(Posted)]
             /\ lists'["pn"] = rest /\ lists'["lid"] = <<>>
             /\ \A a \in Addresses : Len(lists'[a]) <= MaxCached
  <2>1. lists' = [lists EXCEPT !["pn"] = rest, !["lid"] = <<>>]
    BY <1>1, <1>7
  <2>2. lists'["pn"] = rest /\ lists'["lid"] = <<>>
    BY <1>2, <2>1 DEF Addresses
  <2>3. lists' \in [Addresses -> Seq(Posted)]
    BY <1>2, <1>6, <2>1 DEF Addresses
  <2>4. Len(<<>>) = 0
    OBVIOUS
  <2> QED  BY <1>6, <2>1, <2>2, <2>3, <2>4, CacheAssumption DEF Addresses, CacheAssumption
<1>8. CacheTypeOK'
  <2>1. lists' \in [Addresses -> Seq(Posted)] /\ \A a \in Addresses : Len(lists'[a]) <= MaxCached
    BY <1>2, <1>7
  <2>2. metas' \subseteq Addresses /\ dirty' \in BOOLEAN /\ flushTimer' \in {"null", "running", "cleared"}
    BY <1>1 DEF CacheMore, CacheTypeOK, Addresses
  <2> QED  BY <1>1, <2>1, <2>2 DEF CacheMore, CacheTypeOK
<1>9. ASSUME CacheFits PROVE (NothingTwice /\ Quotable /\ Shown)'
  <2>1. NothingTwice /\ Quotable /\ Shown
    BY <1>9 DEF CacheMore
  <2>2. rest = all
    BY <1>5, <1>6, <1>9, DistinctFits
  <2>3. \A a \in Addresses : Differ(lists'[a])
    <3>1. CASE lists' = lists
      BY <2>1, <3>1 DEF NothingTwice
    <3>2. CASE lists' # lists
      BY <1>5, <1>7, <2>2, <3>2 DEF Differ, Addresses
    <3> QED  BY <3>1, <3>2
  <2>4. \A m : Listed(m) => Listed(m)'
    <3>1. CASE lists' = lists
      BY <3>1 DEF Listed
    <3>2. CASE lists' # lists
      BY <1>3, <1>5, <1>7, <2>2, <3>2 DEF Listed, Addresses
    <3> QED  BY <3>1, <3>2
  <2>5. \A m \in Posted : /\ Holds(m)' <=> Holds(m)
                          /\ Saved(m)' <=> Saved(m)
                          /\ Recording(m)' <=> Recording(m)
    BY <1>1 DEF Holds, Saved, Recording
  <2>6. NothingTwice'
    BY <1>1, <2>1, <2>3 DEF NothingTwice
  <2> QED  BY <2>1, <2>4, <2>5, <2>6 DEF Quotable, Shown
<1> QED  BY <1>8, <1>9 DEF CacheMore, CacheFits

\* The timer, a stop and a start leave what is in memory; a flush saves it.
LEMMA FileKeeps ==
  ASSUME CacheMore, FlushTimerFires \/ StopCache \/ StartCache
  PROVE  CacheMore'
<1>1. /\ UNCHANGED <<mapping, metas, lists, raw, handler>>
      /\ file' = raw \/ file' = file
      /\ socket' \in BOOLEAN /\ dirty' \in BOOLEAN /\ stops' \in BOOLEAN
      /\ flushTimer' \in {"null", "running", "cleared"}
      /\ cacheFaults' \in 0 .. MaxCacheFaults
  <2>1. CASE FlushTimerFires
    <3>1. /\ UNCHANGED <<socket, mapping, metas, lists, raw, handler, stops>>
          /\ flushTimer' = "null" /\ dirty' \in BOOLEAN /\ (file' = raw \/ file' = file)
      BY <2>1 DEF FlushTimerFires, Flush, TimerFired, CacheMore, CacheTypeOK
    <3>2. cacheFaults' = cacheFaults \/ (cacheFaults < MaxCacheFaults /\ cacheFaults' = cacheFaults + 1)
      BY <2>1 DEF FlushTimerFires, CacheFault
    <3>3. cacheFaults' \in 0 .. MaxCacheFaults
      BY <3>2, CacheAssumption DEF CacheMore, CacheTypeOK, CacheAssumption
    <3>4. socket \in BOOLEAN /\ stops \in BOOLEAN
      BY DEF CacheMore, CacheTypeOK
    <3> QED  BY <3>1, <3>3, <3>4
  <2>2. CASE StopCache
    BY <2>2 DEF StopCache, Flush, CacheMore, CacheTypeOK
  <2>3. CASE StartCache
    BY <2>3 DEF StartCache, CacheMore, CacheTypeOK
  <2> QED  BY <2>1, <2>2, <2>3
<1>2. CacheTypeOK'
  <2>1. {socket', dirty', stops'} \subseteq BOOLEAN
    BY <1>1
  <2> QED  BY <1>1, <2>1 DEF CacheMore, CacheTypeOK
<1>3. ASSUME CacheFits PROVE (NothingTwice /\ Quotable /\ Shown)'
  <2>1. NothingTwice /\ Quotable /\ Shown
    BY <1>3 DEF CacheMore
  <2>2. \A m \in Posted : /\ Holds(m)' <=> Holds(m)
                          /\ Listed(m)' <=> Listed(m)
                          /\ Recording(m)' <=> Recording(m)
    BY <1>1 DEF Holds, Listed, Recording
  <2>3. \A m \in Posted : Saved(m)' => Holds(m) \/ Saved(m)
    BY <1>1 DEF Holds, Saved
  <2>4. NothingTwice'
    BY <1>1, <2>1 DEF NothingTwice
  <2> QED  BY <2>1, <2>2, <2>3, <2>4 DEF Quotable, Shown
<1> QED  BY <1>2, <1>3 DEF CacheMore, CacheFits

LEMMA LearnKeeps ==
  ASSUME CacheMore, LearnMapping
  PROVE  CacheMore'
<1>1. /\ mapping' = "stored"
      /\ UNCHANGED <<socket, metas, lists, raw, handler, flushTimer, dirty, file, stops, cacheFaults>>
  BY DEF LearnMapping
<1>2. CacheTypeOK'
  BY <1>1 DEF CacheMore, CacheTypeOK
<1>3. (NothingTwice <=> NothingTwice') /\ (Quotable <=> Quotable') /\ (Shown <=> Shown')
  BY <1>1 DEF NothingTwice, Quotable, Shown, Holds, Saved, Listed, Recording
<1> QED  BY <1>2, <1>3 DEF CacheMore, CacheFits

LEMMA LogoutKeeps ==
  ASSUME CacheMore, LogoutCache
  PROVE  CacheMore'
<1>1. /\ socket' = FALSE /\ mapping' = "unknown" /\ metas' = {}
      /\ lists' = [a \in Addresses |-> <<>>] /\ raw' = <<>> /\ file' = <<>>
      /\ UNCHANGED <<handler, flushTimer, dirty, stops, cacheFaults>>
  BY DEF LogoutCache, Removed
<1>2. CacheTypeOK'
  <2>1. <<>> \in Seq(Posted) /\ Len(<<>>) = 0 /\ <<>> \in Seq(Raw)
    OBVIOUS
  <2>2. lists' \in [Addresses -> Seq(Posted)] /\ \A a \in Addresses : Len(lists'[a]) <= MaxCached
    BY <1>1, <2>1, CacheAssumption DEF CacheAssumption
  <2>3. {socket', dirty', stops'} \subseteq BOOLEAN /\ metas' \subseteq Addresses
    BY <1>1 DEF CacheMore, CacheTypeOK
  <2> QED  BY <1>1, <2>1, <2>2, <2>3 DEF CacheMore, CacheTypeOK
<1>3. \A m : ~Saved(m)' /\ ~Holds(m)'
  BY <1>1 DEF Saved, Holds
<1>4. (NothingTwice /\ Quotable /\ Shown)'
  BY <1>1, <1>3 DEF NothingTwice, Differ, MessagesDiffer, Quotable, Shown
<1> QED  BY <1>2, <1>4 DEF CacheMore, CacheFits

\* A list from the last on.
LEMMA ReverseHolds ==
  ASSUME NEW s \in Seq(Posted)
  PROVE  /\ Reverse(s) \in Seq(Posted) /\ Len(Reverse(s)) = Len(s)
         /\ \A m : Contains(s, m) => Contains(Reverse(s), m)
         /\ Differ(s) => Differ(Reverse(s))
<1> DEFINE q == Reverse(s)
<1>1. Len(s) \in Nat /\ DOMAIN s = 1 .. Len(s) /\ \A k \in 1 .. Len(s) : s[k] \in Posted
  BY LenProperties
<1>2. q = [k \in 1 .. Len(s) |-> s[Len(s) - k + 1]]
  BY DEF Reverse
<1> HIDE DEF q
<1>3. q \in [1 .. Len(s) -> Posted]
  BY <1>1, <1>2
<1>4. q \in Seq(Posted) /\ Len(q) = Len(s) /\ DOMAIN q = 1 .. Len(s)
  BY <1>1, <1>3, LenProperties, SeqDef
<1>5. \A k \in 1 .. Len(s) : Len(s) - k + 1 \in 1 .. Len(s) /\ q[Len(s) - k + 1] = s[k]
  BY <1>1, <1>2
<1>6. \A m : Contains(s, m) => Contains(q, m)
  BY <1>4, <1>5 DEF Contains
<1>7. ASSUME Differ(s) PROVE Differ(q)
  <2> SUFFICES ASSUME NEW i \in DOMAIN q, NEW j \in DOMAIN q, q[i] = q[j] PROVE i = j
    BY DEF Differ
  <2>1. Len(s) - i + 1 \in DOMAIN s /\ Len(s) - j + 1 \in DOMAIN s
    BY <1>1, <1>4
  <2>2. s[Len(s) - i + 1] = s[Len(s) - j + 1]
    BY <1>2, <1>4
  <2>3. Len(s) - i + 1 = Len(s) - j + 1
    BY <1>7, <2>1, <2>2 DEF Differ
  <2> QED  BY <1>1, <1>4, <2>3
<1> QED  BY <1>4, <1>6, <1>7 DEF q

\* What the file has to one address.
FileTo(a) == Among(file, {r \in Raw : r.to = a})
KeptTo(a) == SubSeq(FileTo(a), 1, IF Len(FileTo(a)) > MaxCached THEN MaxCached ELSE Len(FileTo(a)))

LEMMA FileToHolds ==
  ASSUME file \in Seq(Raw), NEW a
  PROVE  /\ FileTo(a) \in Seq(Raw)
         /\ \A i \in DOMAIN file : file[i].to = a => \E k \in DOMAIN FileTo(a) : FileTo(a)[k] = file[i]
         /\ MessagesDiffer(file) => MessagesDiffer(FileTo(a))
<1> DEFINE T == {r \in Raw : r.to = a}
<1>1. FileTo(a) = Among(file, T)
  BY DEF FileTo
<1>2. \A i \in DOMAIN file : file[i].to = a => file[i] \in T
  BY LenProperties
<1> HIDE DEF T
<1>3. FileTo(a) \in Seq(Raw) /\ (MessagesDiffer(file) => MessagesDiffer(FileTo(a)))
  BY <1>1, AmongDiffers
<1>4. \A i \in DOMAIN file : file[i] \in T => \E k \in DOMAIN FileTo(a) : FileTo(a)[k] = file[i]
  BY <1>1, AmongDiffers
<1> QED  BY <1>2, <1>3, <1>4

LEMMA KeptToHolds ==
  ASSUME file \in Seq(Raw), NEW a
  PROVE  /\ KeptTo(a) \in Seq(Raw) /\ Len(KeptTo(a)) <= MaxCached
         /\ CacheFits /\ MessagesDiffer(file) => KeptTo(a) = FileTo(a)
<1> DEFINE s == FileTo(a)
           n == IF Len(s) > MaxCached THEN MaxCached ELSE Len(s)
<1>1. s \in Seq(Raw) /\ (MessagesDiffer(file) => MessagesDiffer(s))
  BY FileToHolds
<1>2. KeptTo(a) = SubSeq(s, 1, n)
  BY DEF KeptTo
<1> HIDE DEF s
<1>3. Len(s) \in Nat /\ \A k \in 1 .. Len(s) : s[k] \in Raw
  BY <1>1, LenProperties
<1>4. n \in Nat /\ n <= MaxCached /\ n <= Len(s)
  BY <1>3, CacheAssumption DEF CacheAssumption
<1>5. KeptTo(a) \in Seq(Raw) /\ Len(KeptTo(a)) <= MaxCached
  <2>1. \A k \in 1 .. n : s[k] \in Raw
    BY <1>3, <1>4
  <2> HIDE DEF n
  <2> QED  BY <1>2, <1>4, <2>1, SubSeqProperties, CacheAssumption DEF CacheAssumption
<1>6. ASSUME CacheFits, MessagesDiffer(file) PROVE KeptTo(a) = s
  <2>1. Len(s) <= MaxCached
    BY <1>1, <1>6, MessagesFit
  <2>2. n = Len(s)
    BY <1>3, <2>1, CacheAssumption DEF CacheAssumption
  <2> QED  BY <1>1, <1>2, <2>2, SubSeqFull
<1> QED  BY <1>5, <1>6 DEF s

LEMMA ReloadKeeps ==
  ASSUME CacheMore, Reload
  PROVE  CacheMore'
<1> DEFINE T == {r \in Raw : Contains(KeptTo(r.to), r)}
           msgs(a) == [k \in DOMAIN KeptTo(a) |-> KeptTo(a)[k].msg]
<1>1. /\ socket' = TRUE
      /\ metas' = {a \in Addresses : FileTo(a) # <<>>}
      /\ lists' = [a \in Addresses |-> Reverse(msgs(a))]
      /\ raw' = Among(file, T)
      /\ handler' = [h \in Handlers |-> NoHandler]
      /\ flushTimer' = "null" /\ dirty' = FALSE
      /\ UNCHANGED <<mapping, file, stops>>
      /\ cacheFaults < MaxCacheFaults /\ cacheFaults' = cacheFaults + 1
  BY DEF Reload, FileTo, KeptTo, CacheFault
<1>2. file \in Seq(Raw) /\ cacheFaults \in 0 .. MaxCacheFaults /\ mapping \in {"unknown", "stored", "announced"}
  BY DEF CacheMore, CacheTypeOK
<1>3. ASSUME NEW a
      PROVE  /\ msgs(a) \in Seq(Posted) /\ Len(msgs(a)) <= MaxCached
             /\ \A k \in DOMAIN KeptTo(a) : Contains(msgs(a), KeptTo(a)[k].msg)
             /\ MessagesDiffer(KeptTo(a)) => Differ(msgs(a))
  <2> DEFINE s == KeptTo(a)
             q == msgs(a)
  <2>1. s \in Seq(Raw) /\ Len(s) <= MaxCached
    BY <1>2, KeptToHolds
  <2>2. q = [k \in DOMAIN s |-> s[k].msg]
    OBVIOUS
  <2> HIDE DEF s, q
  <2>3. Len(s) \in Nat /\ DOMAIN s = 1 .. Len(s) /\ \A k \in 1 .. Len(s) : s[k] \in Raw
    BY <2>1, LenProperties
  <2>4. q \in [1 .. Len(s) -> Posted]
    BY <2>2, <2>3 DEF Raw
  <2>5. q \in Seq(Posted) /\ Len(q) = Len(s)
    BY <2>3, <2>4, LenProperties, SeqDef
  <2>6. \A k \in DOMAIN s : Contains(q, s[k].msg)
    BY <2>2, <2>3, <2>5 DEF Contains
  <2>7. MessagesDiffer(s) => Differ(q)
    BY <2>2, <2>3, <2>5 DEF MessagesDiffer, Differ
  <2> QED  BY <2>1, <2>5, <2>6, <2>7 DEF s, q
<1> HIDE DEF msgs
<1>4. CacheTypeOK'
  <2>1. ASSUME NEW a \in Addresses PROVE lists'[a] \in Seq(Posted) /\ Len(lists'[a]) <= MaxCached
    BY <1>1, <1>3, ReverseHolds
  <2>2. lists' \in [Addresses -> Seq(Posted)] /\ \A a \in Addresses : Len(lists'[a]) <= MaxCached
    BY <1>1, <2>1
  <2>3. raw' \in Seq(Raw)
    <3> HIDE DEF T
    <3> QED  BY <1>1, <1>2, AmongDiffers
  <2>4. {socket', dirty', stops'} \subseteq BOOLEAN /\ metas' \subseteq Addresses
    BY <1>1 DEF CacheMore, CacheTypeOK
  <2>5. cacheFaults' \in 0 .. MaxCacheFaults
    BY <1>1, <1>2, CacheAssumption DEF CacheAssumption
  <2> QED  BY <1>1, <1>2, <2>2, <2>3, <2>4, <2>5 DEF CacheTypeOK
<1>5. ASSUME CacheFits PROVE (NothingTwice /\ Quotable /\ Shown)'
  <2>1. MessagesDiffer(file) /\ \A k \in DOMAIN file : file[k] \in Raw
    BY <1>2, <1>5, LenProperties DEF CacheMore, NothingTwice
  <2>2. ASSUME NEW a \in Addresses PROVE KeptTo(a) = FileTo(a) /\ MessagesDiffer(KeptTo(a))
    BY <1>2, <1>5, <2>1, KeptToHolds, FileToHolds
  <2>3. ASSUME NEW a \in Addresses PROVE Differ(lists'[a])
    BY <1>1, <1>3, <2>2, ReverseHolds
  <2>4. ASSUME NEW i \in DOMAIN file PROVE /\ file[i] \in T
                                           /\ \E a \in Addresses : Contains(lists'[a], file[i].msg)
    <3> DEFINE a == file[i].to
    <3>1. a \in Addresses
      BY <2>1 DEF Raw
    <3>2. PICK k \in DOMAIN FileTo(a) : FileTo(a)[k] = file[i]
      BY <1>2, FileToHolds
    <3>3. KeptTo(a) \in Seq(Raw) /\ k \in DOMAIN KeptTo(a) /\ KeptTo(a)[k] = file[i]
      BY <1>2, <2>2, <3>1, <3>2, KeptToHolds
    <3>4. Contains(KeptTo(a), file[i])
      BY <3>3, LenProperties DEF Contains
    <3>5. Contains(msgs(a), file[i].msg)
      BY <1>3, <3>3
    <3>6. Contains(lists'[a], file[i].msg)
      BY <1>1, <1>3, <3>1, <3>5, ReverseHolds
    <3> QED  BY <2>1, <3>1, <3>4, <3>6
  <2> HIDE DEF T
  <2>5. /\ \A k \in DOMAIN raw' : \E i \in DOMAIN file : raw'[k] = file[i]
        /\ \A i \in DOMAIN file : file[i] \in T => \E k \in DOMAIN raw' : raw'[k] = file[i]
    BY <1>1, <1>2, AmongDiffers
  <2>6. MessagesDiffer(raw')
    BY <1>1, <1>2, <2>1, AmongDiffers
  <2>7. \A m \in Posted : Saved(m)' => Holds(m)'
    BY <1>1, <2>4, <2>5 DEF Saved, Holds
  <2>8. \A m \in Posted : Holds(m)' => Listed(m)'
    BY <2>4, <2>5 DEF Holds, Listed
  <2>9. NothingTwice'
    BY <1>1, <2>1, <2>3, <2>6 DEF NothingTwice
  <2> QED  BY <2>7, <2>8, <2>9 DEF Quotable, Shown
<1> QED  BY <1>4, <1>5 DEF CacheMore, CacheFits

LEMMA CacheSteps == CacheMore /\ [CacheNext]_cacheVars => CacheMore'
<1> SUFFICES ASSUME CacheMore, [CacheNext]_cacheVars PROVE CacheMore'
  OBVIOUS
<1>1. CASE \E h \in Handlers : ReceiveMessage(h) \/ Handle(h)
  BY <1>1, ReceiveKeeps, RecordKeeps, CreateKeeps DEF Handle
<1>2. CASE LearnMapping \/ MergeMapping
  BY <1>2, LearnKeeps, MergeKeeps
<1>3. CASE FlushTimerFires \/ StopCache \/ StartCache
  BY <1>3, FileKeeps
<1>4. CASE LogoutCache \/ Reload
  BY <1>4, LogoutKeeps, ReloadKeeps
<1>5. CASE UNCHANGED cacheVars
  <2>1. UNCHANGED <<socket, mapping, metas, lists, raw, handler, flushTimer, dirty, file, stops, cacheFaults>>
    BY <1>5 DEF cacheVars
  <2>2. CacheTypeOK'
    BY <2>1 DEF CacheMore, CacheTypeOK
  <2>3. (NothingTwice <=> NothingTwice') /\ (Quotable <=> Quotable') /\ (Shown <=> Shown')
    BY <2>1 DEF NothingTwice, Quotable, Shown, Holds, Saved, Listed, Recording
  <2> QED  BY <2>2, <2>3 DEF CacheMore, CacheFits
<1> QED  BY <1>1, <1>2, <1>3, <1>4, <1>5 DEF CacheNext

-----------------------------------------------------------------------------
(* The verdict of the outbound gate, for all numbers of recipients and all thresholds. *)

\* The input stays well-formed.
LEMMA GateStarts == Init => TypeOK
  BY DEF Init, TypeOK

LEMMA GateKeeps == TypeOK /\ [Next]_in => TypeOK'
<1> SUFFICES ASSUME TypeOK, [Next]_in PROVE TypeOK'
  OBVIOUS
<1>1. CASE Grow
  <2>1. in.recipientCount + 1 \in Recipients
    BY <1>1, RecipientsAssumption DEF TypeOK, Grow, SendPolicyInput, Recipients
  <2> QED  BY <1>1, <2>1 DEF TypeOK, Grow, SendPolicyInput
<1>2. CASE StartCooldown
  BY <1>2 DEF TypeOK, StartCooldown, SendPolicyInput
<1>3. CASE ReachSpendCap
  BY <1>3 DEF TypeOK, ReachSpendCap, SendPolicyInput
<1>4. CASE LosePhone
  BY <1>4 DEF TypeOK, LosePhone, SendPolicyInput, PhoneStatus
<1>5. CASE UNCHANGED in
  BY <1>5 DEF TypeOK
<1> QED  BY <1>1, <1>2, <1>3, <1>4, <1>5 DEF Next

\* The input of the gate is one that it takes, whatever happens between two evaluations.
THEOREM GateTypeCorrect == Spec => []TypeOK
  BY GateStarts, GateKeeps, PTL DEF Spec

\* A step keeps what blocks a send and does not lower its risk.
LEMMA StepsWorsen ==
  ASSUME TypeOK, Next
  PROVE  /\ HardBlocked(in) => HardBlocked(in')
         /\ in'.recipientCount >= in.recipientCount
         /\ in'.mediumRiskThreshold = in.mediumRiskThreshold
         /\ in'.highRiskThreshold = in.highRiskThreshold
         /\ in'.actorIsAdmin = in.actorIsAdmin
  BY RecipientsAssumption
     DEF TypeOK, Next, Grow, StartCooldown, ReachSpendCap, LosePhone,
         SendPolicyInput, Recipients, HardBlocked

\* More recipients do not take the need for an approval away from a non-admin.
LEMMA MoreNeedApproval ==
  ASSUME TypeOK, TypeOK', Next, ~in.actorIsAdmin, NeedsApproval(in)
  PROVE  NeedsApproval(in')
<1>1. /\ in.recipientCount \in Nat /\ in'.recipientCount \in Nat
      /\ in.mediumRiskThreshold \in Nat /\ in.highRiskThreshold \in Nat
  BY RecipientsAssumption DEF TypeOK, SendPolicyInput, Recipients
<1>2. \/ in.recipientCount >= in.highRiskThreshold
      \/ in.recipientCount >= in.mediumRiskThreshold
  BY <1>1 DEF NeedsApproval, riskLevel
<1> QED  BY <1>1, <1>2, StepsWorsen DEF NeedsApproval, riskLevel

\* A verdict on a non-admin's send does not get milder in a step.
LEMMA VerdictsWorsen ==
  TypeOK /\ TypeOK' /\ [Next]_in =>
    [~in.actorIsAdmin =>
       Severity(evaluateSendPolicy(in')) >= Severity(evaluateSendPolicy(in))]_in
<1> SUFFICES ASSUME TypeOK, TypeOK', Next, ~in.actorIsAdmin
             PROVE  Severity(evaluateSendPolicy(in')) >= Severity(evaluateSendPolicy(in))
  OBVIOUS
<1>1. CASE HardBlocked(in')
  BY <1>1 DEF evaluateSendPolicy, Severity
<1>2. CASE ~HardBlocked(in')
  BY <1>2, StepsWorsen, MoreNeedApproval DEF evaluateSendPolicy, Severity
<1> QED  BY <1>1, <1>2

\* For a non-admin no change for the worse brings a send closer to the gateway.
THEOREM GateNeverLoosens == Spec => NeverLoosens
  BY VerdictsWorsen, GateTypeCorrect, PTL DEF Spec, NeverLoosens

-----------------------------------------------------------------------------
(* The components by themselves, in every instance and with nothing in focus. *)

\* Rights, sockets and pushes (access.ts, recipients.ts): the copies of the rule agree.
THEOREM RightsAgree == NotifySpec => []CopiesMirrorAccess
<1>1. NotifyInv => CopiesMirrorAccess
  BY CopiesAgree DEF NotifyInv
<1> QED  BY <1>1, NotifyInitHolds, NotifyKeeps, PTL DEF NotifySpec

\* A channel that was mapped has one active mapping.
LEMMA MappingIsAlone ==
  ASSUME RegInv, mapHistory # <<>>
  PROVE  Cardinality(Active) = 1
<1>1. PICK i \in DOMAIN mapHistory : Active = {i}
  BY DEF RegInv, MappedOnce
<1>2. Cardinality({i}) = 1
  BY FS_Singleton, Zenon
<1> QED  BY <1>1, <1>2

\* Any calls for the mapping of a channel (channels.service.ts).
THEOREM MappedChannelsAreMappedOnce == RegSpec => []OneActiveMapping
<1>1. RegInv => OneActiveMapping
  <2>1. RegInv /\ mapHistory # <<>> => Cardinality(Active) = 1
    BY MappingIsAlone
  <2> QED  BY <2>1, Zenon DEF OneActiveMapping
<1> QED  BY <1>1, RegInitHolds, RegistryStep, PTL DEF RegSpec

\* Downloads, uploads and purges of any media (media-download.processor.ts, jobs.ts).
THEOREM SignedLinksLead == MediaSpec => []LinksLeadSomewhere
<1>1. MediaInv => LinksLeadSomewhere
  BY DEF MediaInv
<1> QED  BY <1>1, MediaInitHolds, MediaKeeps, PTL DEF MediaSpec

\* The messages that a gateway session keeps (session-manager.ts): one that was saved is listed
\* and held raw, for any number of messages and handlers.
THEOREM CacheHolds == CacheSpec => []SavedIsAtHand
  BY CacheStarts, CacheSteps, CacheMoreImplies, PTL DEF CacheSpec

\* The chats of a phone (session-manager.ts, normalize.ts).
THEOREM ChatsComeThrough == WireSpec => [](WireInv /\ WireTypeOK)
  BY WireStarts, WireGoesOn, WireAgrees, PTL DEF WireSpec

-----------------------------------------------------------------------------
(* The components beside each other.                                       *)

\* Whatever is in focus, a component makes a step of its own or rests.
LEMMA DeskSteps ==
  [DeskNext]_deskVars => [RegNext]_regVars /\ [NotifyNext]_notifyVars /\ [MediaNext]_mediaVars
                         /\ [SettingsNext]_settingsVars /\ [WireNext]_wireVars /\ [CacheNext]_cacheVars
                         /\ [ConvNext]_convVars /\ [Next]_in
<1> SUFFICES ASSUME [DeskNext]_deskVars
             PROVE  [RegNext]_regVars /\ [NotifyNext]_notifyVars /\ [MediaNext]_mediaVars
                    /\ [SettingsNext]_settingsVars /\ [WireNext]_wireVars /\ [CacheNext]_cacheVars
                    /\ [ConvNext]_convVars /\ [Next]_in
  OBVIOUS
<1>1. CASE ConversationsFocus
  BY <1>1 DEF ConversationsFocus, OnlyConversations
<1>2. CASE AccessFocus \/ PresenceFocus
  BY <1>2 DEF AccessFocus, PresenceFocus, OnlyNotifications
<1>3. CASE focus = "media" /\ MediaNext /\ OnlyMedia
  BY <1>3 DEF OnlyMedia
<1>4. CASE MappingFocus \/ StateFocus
  BY <1>4 DEF MappingFocus, StateFocus, OnlyChannels
<1>5. CASE CacheFocus \/ WireFocus
  BY <1>5 DEF CacheFocus, WireFocus, OnlyCache, OnlyWire
<1>6. CASE ItemsFocus \/ DraftFocus
  BY <1>6 DEF ItemsFocus, DraftFocus, OnlySettings, SettingsNext
<1>7. CASE focus = "people" /\ PeopleNext /\ OnlySettings
  BY <1>7 DEF OnlySettings, SettingsNext
<1>8. CASE focus = "gate" /\ Next /\ OnlyGate
  BY <1>8 DEF OnlyGate
<1>9. CASE UNCHANGED deskVars
  BY <1>9 DEF deskVars
<1> QED  BY <1>1, <1>2, <1>3, <1>4, <1>5, <1>6, <1>7, <1>8, <1>9 DEF DeskNext

\* Whoever is told of a channel, finds it or joins its room is who may access it, and a channel
\* that was mapped has one active mapping, whatever calls overlap and fail.
THEOREM AccessHolds == DeskSpec => []AccessAgrees
<1>1. DeskInit => RegInv /\ NotifyInv
  BY RegInitHolds, NotifyInitHolds DEF DeskInit
<1>2. RegInv /\ NotifyInv /\ [DeskNext]_deskVars => RegInv' /\ NotifyInv'
  BY DeskSteps, RegistryStep, NotifyKeeps
<1>3. RegInv /\ NotifyInv => AccessAgrees
  <2> SUFFICES ASSUME RegInv, NotifyInv PROVE CopiesMirrorAccess /\ OneActiveMapping
    BY DEF AccessAgrees
  <2>1. CopiesMirrorAccess
    BY CopiesAgree DEF NotifyInv
  <2>2. ASSUME mapHistory # <<>> PROVE Cardinality(Active) = 1
    BY <2>2, MappingIsAlone
  <2>3. OneActiveMapping
    BY <2>2, Zenon DEF OneActiveMapping
  <2> QED  BY <2>1, <2>3
<1> QED  BY <1>1, <1>2, <1>3, PTL DEF DeskSpec

\* The object that the API signs a link for is in the store, and a message that the gateway
\* keeps is at hand: it is listed where it can be found, and a quote of it can be sent, however
\* purge, downloads and their retries, and live messages, history and saves, overlap.
THEOREM NothingIsLost == DeskSpec => []NothingDangles
<1>1. DeskInit => MediaInv /\ CacheMore
  BY MediaInitHolds, CacheStarts DEF DeskInit
<1>2. MediaInv /\ CacheMore /\ [DeskNext]_deskVars => MediaInv' /\ CacheMore'
  BY DeskSteps, MediaKeeps, CacheSteps
<1>3. MediaInv /\ CacheMore => NothingDangles
  BY CacheMoreImplies DEF MediaInv, NothingDangles
<1> QED  BY <1>1, <1>2, <1>3, PTL DEF DeskSpec

\* What was set up and said is kept and followed, whatever requests overlap.
THEOREM SettingsHold == DeskSpec => []SettingsInv
<1>1. DeskInit => SettingsMore
  BY SettingsStart DEF DeskInit
<1>2. SettingsMore /\ [DeskNext]_deskVars => SettingsMore'
  BY DeskSteps, SettingsGoOn
<1> QED  BY <1>1, <1>2, SettingsAgree, PTL DEF DeskSpec

\* Calls for a conversation that repeat each other agree.
THEOREM CommandsHold == DeskSpec => []CommandsAreIdempotent
<1>1. DeskInit => ConvInv
  BY ConvInitHolds DEF DeskInit
<1>2. ConvInv /\ [DeskNext]_deskVars => ConvInv'
  BY DeskSteps, ConvKeeps
<1> QED  BY <1>1, <1>2, ConvAgrees, PTL DEF DeskSpec

\* The input of the gate, which only a behaviour with the gate in focus chooses.
LEMMA GateAtTheDesk == DeskInit => TypeOK
<1> SUFFICES ASSUME DeskInit PROVE TypeOK
  OBVIOUS
<1>1. CASE focus = "gate"
  BY <1>1, GateStarts DEF DeskInit
<1>2. CASE focus # "gate"
  <2>1. 1 \in Recipients
    BY RecipientsAssumption DEF Recipients
  <2>2. in = [phoneStatus |-> "connected", connectionMode |-> "linked_device",
              cooldownActive |-> FALSE, costLimitExceeded |-> FALSE, recipientCount |-> 1,
              mediumRiskThreshold |-> 1, highRiskThreshold |-> 1, actorIsAdmin |-> TRUE]
    BY <1>2, Zenon DEF DeskInit
  <2> QED  BY <2>1, <2>2 DEF TypeOK, SendPolicyInput, PhoneStatus, ConnectionMode
<1> QED  BY <1>1, <1>2

\* The gate of the desk does not loosen either.
THEOREM DeskNeverLoosens == DeskSpec => NeverLoosens
<1>1. TypeOK /\ [DeskNext]_deskVars => TypeOK'
  BY DeskSteps, GateKeeps
<1>2. TypeOK /\ TypeOK' /\ [DeskNext]_deskVars =>
        [~in.actorIsAdmin =>
           Severity(evaluateSendPolicy(in')) >= Severity(evaluateSendPolicy(in))]_in
  BY DeskSteps, VerdictsWorsen
<1> QED  BY GateAtTheDesk, <1>1, <1>2, PTL DEF DeskSpec, NeverLoosens

\* However a message comes to the timeline, announced, imported or dispatched by the desk, it looks
\* the same there, and one chain of webhook attempts brings it.
THEOREM WireHolds == DeskSpec => []WireInv
<1>1. DeskInit => WireMore
  BY WireStarts DEF DeskInit
<1>2. WireMore /\ [DeskNext]_deskVars => WireMore'
  BY DeskSteps, WireGoesOn
<1> QED  BY <1>1, <1>2, WireAgrees, PTL DEF DeskSpec

\* What the components keep, side by side.
DeskInv == ConvInv /\ NotifyInv /\ MediaInv /\ RegInv /\ CacheMore /\ WireMore /\ SettingsMore /\ TypeOK

\* Every variable of the desk keeps its type, whatever calls, runs and handlers overlap: no
\* more channels than chats are recorded, and no list of the cache outgrows its limit.
THEOREM DeskTypeCorrect == DeskSpec => []DeskTypeOK
<1>1. DeskInit => DeskInv
  <2>1. DeskInit => ConvInv /\ NotifyInv /\ MediaInv /\ RegInv
    BY ConvInitHolds, NotifyInitHolds, MediaInitHolds, RegInitHolds DEF DeskInit
  <2>2. DeskInit => CacheMore /\ WireMore /\ SettingsMore
    BY CacheStarts, WireStarts, SettingsStart DEF DeskInit
  <2> QED  BY <2>1, <2>2, GateAtTheDesk DEF DeskInv
<1>2. DeskInv /\ [DeskNext]_deskVars => DeskInv'
  <2> SUFFICES ASSUME DeskInv, [DeskNext]_deskVars PROVE DeskInv'
    OBVIOUS
  <2>1. ConvInv' /\ NotifyInv' /\ MediaInv' /\ RegInv'
    BY DeskSteps, ConvKeeps, NotifyKeeps, MediaKeeps, RegistryStep DEF DeskInv
  <2>2. CacheMore' /\ WireMore' /\ SettingsMore' /\ TypeOK'
    BY DeskSteps, CacheSteps, WireGoesOn, SettingsGoOn, GateKeeps DEF DeskInv
  <2> QED  BY <2>1, <2>2 DEF DeskInv
<1>3. DeskInv => DeskTypeOK
  <2> SUFFICES ASSUME DeskInv PROVE DeskTypeOK
    OBVIOUS
  <2>1. ConvTypeOK /\ NotifyTypeOK /\ MediaTypeOK /\ RegTypeOK /\ CacheTypeOK /\ TypeOK
    BY DEF DeskInv, ConvInv, NotifyInv, MediaInv, RegInv, CacheMore
  <2>2. WireTypeOK /\ SettingsTypeOK
    BY WireAgrees, SettingsTyped DEF DeskInv
  <2> QED  BY <2>1, <2>2 DEF DeskTypeOK
<1> QED  BY <1>1, <1>2, <1>3, PTL DEF DeskSpec
=============================================================================
