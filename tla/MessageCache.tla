---------------------------- MODULE MessageCache ----------------------------
(***************************************************************************)
(* What a gateway session remembers of the messages of one contact         *)
(* (apps/gateway/src/session-manager.ts): the lists it answers from, the   *)
(* raw messages that replies, reactions and downloads need, and the file   *)
(* they are saved to.  WhatsApp addresses the contact by his number (pn)   *)
(* or by a LID; events resolve a LID once its mapping is known.  A message *)
(* is the time it was sent at.                                             *)
(***************************************************************************)
EXTENDS Naturals, Sequences, FiniteSets, Ordered

LOCAL INSTANCE SequencesExt

CONSTANTS
  Posted,       \* the messages
  Handlers,     \* bound on the event handlers that run at a time
  MaxCached,    \* MAX_MESSAGES_PER_CHAT
  NoHandler,
  MaxCacheFaults  \* bound on deaths of the process and on failed writes

Addresses == {"pn", "lid"}

Raw == [msg : Posted, to : Addresses]

\* chat: what the first look at the mapping said.
Handler == [at : {"resolved", "creating"}, msg : Posted, to : Addresses, chat : Addresses,
            history : BOOLEAN]

ASSUME CacheAssumption ==
  /\ Posted \subseteq Nat /\ IsFiniteSet(Posted)
  /\ MaxCached \in Nat \ {0} /\ MaxCacheFaults \in Nat
  /\ NoHandler \notin Handler

VARIABLES
  socket,     \* the session has one
  mapping,    \* the contact's LID: unknown, stored, or stored and announced
  metas,      \* keys of chatMeta
  lists,      \* messagesByChat
  raw,        \* rawMessages in the order of their insertion
  handler,    \* recordMessage calls that wait
  flushTimer, \* cacheFlushTimer: null, running, or cleared and not null
  dirty,      \* cacheDirty
  file,       \* the saved raw messages
  stops,      \* the session was stopped
  cacheFaults

cacheVars == <<socket, mapping, metas, lists, raw, handler, flushTimer, dirty, file, stops,
               cacheFaults>>

CacheFault == cacheFaults < MaxCacheFaults /\ cacheFaults' = cacheFaults + 1

\* canonicalJid: only a session with a socket can look a LID up.
Canonical(a) == IF socket /\ mapping # "unknown" THEN "pn" ELSE a

MutTimerKept == "cleared"
TimerFired == "null"

\* scheduleCacheFlush
Schedule == /\ dirty' = TRUE
            /\ flushTimer' = IF flushTimer = "null" THEN "running" ELSE flushTimer

-----------------------------------------------------------------------------
(* Events of the socket. *)

\* A message arrives, live or out of a history, a second time even.
ReceiveMessage(h) ==
  /\ socket /\ handler[h] = NoHandler
  /\ \E m \in Posted, a \in Addresses, old \in BOOLEAN :
       handler' = [handler EXCEPT ![h] = [at |-> "resolved", msg |-> m, to |-> a,
                                          chat |-> Canonical(a), history |-> old]]
  /\ UNCHANGED <<socket, mapping, metas, lists, raw, flushTimer, dirty, file, stops, cacheFaults>>

\* rawMessages.set: a message that is there keeps its place.
Kept(r) == IF \E k \in DOMAIN raw : raw[k].msg = r.msg
           THEN [k \in DOMAIN raw |-> IF raw[k].msg = r.msg THEN r ELSE raw[k]]
           ELSE Append(raw, r)

\* Unless the chat has the message, it comes last, or first when it is history; what is
\* too much is dropped at the front.
List(h, raws) ==
  LET e == handler[h]
      longer == IF e.history THEN <<e.msg>> \o lists[e.chat] ELSE Append(lists[e.chat], e.msg)
      over == IF Len(longer) > MaxCached THEN Len(longer) - MaxCached ELSE 0
      gone == {longer[k] : k \in 1 .. over}
  IN /\ IF Contains(lists[e.chat], e.msg) THEN lists' = lists /\ raw' = raws
        ELSE /\ lists' = [lists EXCEPT ![e.chat] = SubSeq(longer, over + 1, Len(longer))]
             /\ raw' = Among(raws, {r \in Raw : r.msg \notin gone})
     /\ handler' = [handler EXCEPT ![h] = NoHandler]
     /\ Schedule

\* A chat that has no entry gets one, of an id that is resolved again.
RecordMessage(h) ==
  LET e == handler[h]
      raws == Kept([msg |-> e.msg, to |-> e.to])
  IN
  /\ e # NoHandler /\ e.at = "resolved"
  /\ IF e.chat \in metas THEN List(h, raws)
     ELSE /\ handler' = [handler EXCEPT ![h].at = "creating"]
          /\ raw' = raws
          /\ UNCHANGED <<lists, flushTimer, dirty>>
  /\ UNCHANGED <<socket, mapping, metas, file, stops, cacheFaults>>

CreateMeta(h) ==
  LET e == handler[h] IN
  /\ e # NoHandler /\ e.at = "creating"
  /\ metas' = metas \cup {Canonical(e.chat)}
  /\ List(h, raw)
  /\ UNCHANGED <<socket, mapping, file, stops, cacheFaults>>

\* WhatsApp tells the contact's LID; Baileys stores it ...
LearnMapping ==
  /\ socket /\ mapping = "unknown"
  /\ mapping' = "stored"
  /\ UNCHANGED <<socket, metas, lists, raw, handler, flushTimer, dirty, file, stops, cacheFaults>>

\* ... and then announces it: mergeLidMapping moves the chat and its messages.
MergeMapping ==
  LET all == Ascending(ToSet(lists["pn"]) \cup ToSet(lists["lid"]))
      over == IF Len(all) > MaxCached THEN Len(all) - MaxCached ELSE 0
  IN
  /\ socket /\ mapping = "stored"
  /\ mapping' = "announced"
  /\ IF "lid" \notin metas THEN UNCHANGED <<metas, lists, flushTimer, dirty>>
     ELSE /\ metas' = {"pn"}
          /\ lists' = IF lists["lid"] = <<>> THEN lists
                      ELSE [lists EXCEPT !["pn"] = SubSeq(all, over + 1, Len(all)), !["lid"] = <<>>]
          /\ Schedule
  /\ UNCHANGED <<socket, raw, handler, file, stops, cacheFaults>>

-----------------------------------------------------------------------------
(* The file. *)

Flush == file' = raw /\ dirty' = FALSE

\* The timer's callback; a write that fails is only logged.
FlushTimerFires ==
  /\ flushTimer = "running"
  /\ flushTimer' = TimerFired
  /\ IF dirty THEN \/ Flush /\ UNCHANGED cacheFaults
                   \/ CacheFault /\ dirty' = FALSE /\ file' = file
              ELSE UNCHANGED <<file, dirty, cacheFaults>>
  /\ UNCHANGED <<socket, mapping, metas, lists, raw, handler, stops>>

\* stop() clears the timer without forgetting it.
StopCache ==
  /\ socket' = FALSE
  /\ stops' = TRUE
  /\ flushTimer' = IF flushTimer = "running" THEN "cleared" ELSE flushTimer
  /\ IF dirty THEN Flush ELSE UNCHANGED <<file, dirty>>
  /\ UNCHANGED <<mapping, metas, lists, raw, handler, cacheFaults>>

\* The same session is started again.
StartCache ==
  /\ ~socket
  /\ socket' = TRUE
  /\ UNCHANGED <<mapping, metas, lists, raw, handler, flushTimer, dirty, file, stops, cacheFaults>>

\* removeAuthData takes the file along.
Removed == <<>>

\* logout() forgets the messages, the file and the mapping.
LogoutCache ==
  /\ socket' = FALSE
  /\ mapping' = "unknown"
  /\ metas' = {} /\ lists' = [a \in Addresses |-> <<>>] /\ raw' = <<>>
  /\ file' = Removed
  /\ UNCHANGED <<handler, flushTimer, dirty, stops, cacheFaults>>

\* The process dies, and the next one loads the file before it has a socket that could
\* resolve a LID: each message as history of the chat it was addressed to.
Reload ==
  LET of(a) == Among(file, {r \in Raw : r.to = a})
      kept(a) == SubSeq(of(a), 1, IF Len(of(a)) > MaxCached THEN MaxCached ELSE Len(of(a)))
  IN
  /\ CacheFault
  /\ socket' = TRUE
  /\ metas' = {a \in Addresses : of(a) # <<>>}
  /\ lists' = [a \in Addresses |-> Reverse([k \in DOMAIN kept(a) |-> kept(a)[k].msg])]
  /\ raw' = Among(file, {r \in Raw : Contains(kept(r.to), r)})
  /\ handler' = [h \in Handlers |-> NoHandler]
  /\ flushTimer' = "null" /\ dirty' = FALSE
  /\ UNCHANGED <<mapping, file, stops>>

-----------------------------------------------------------------------------
CacheInit ==
  /\ socket = TRUE
  /\ mapping = "unknown"
  /\ metas = {} /\ lists = [a \in Addresses |-> <<>>] /\ raw = <<>>
  /\ handler = [h \in Handlers |-> NoHandler]
  /\ flushTimer = "null" /\ dirty = FALSE /\ file = <<>>
  /\ stops = FALSE
  /\ cacheFaults = 0

Handle(h) == RecordMessage(h) \/ CreateMeta(h)

CacheNext ==
  \/ \E h \in Handlers : ReceiveMessage(h) \/ Handle(h)
  \/ LearnMapping \/ MergeMapping
  \/ FlushTimerFires \/ StopCache \/ StartCache \/ LogoutCache \/ Reload

\* Handlers go on and timers fire.
CacheSpec == /\ CacheInit /\ [][CacheNext]_cacheVars
             /\ WF_cacheVars(FlushTimerFires) /\ WF_cacheVars(\E h \in Handlers : Handle(h))

-----------------------------------------------------------------------------
CacheTypeOK ==
  /\ {socket, dirty, stops} \subseteq BOOLEAN
  /\ mapping \in {"unknown", "stored", "announced"}
  /\ metas \subseteq Addresses
  /\ lists \in [Addresses -> Seq(Posted)]
  /\ \A a \in Addresses : Len(lists[a]) <= MaxCached
  /\ raw \in Seq(Raw) /\ file \in Seq(Raw)
  /\ handler \in [Handlers -> Handler \cup {NoHandler}]
  /\ flushTimer \in {"null", "running", "cleared"}
  /\ cacheFaults \in 0 .. MaxCacheFaults

Holds(m) == \E k \in DOMAIN raw : raw[k].msg = m
Saved(m) == \E k \in DOMAIN file : file[k].msg = m
Listed(m) == \E a \in Addresses : Contains(lists[a], m)

Recording(m) == \E h \in Handlers : handler[h] # NoHandler /\ handler[h].msg = m

\* What is saved can be listed, quoted and downloaded, as long as the chat does not
\* overflow: whatever LIDs are resolved late, events come twice, and the process dies
\* (session-manager.ts:477-486).
SavedIsAtHand ==
  Cardinality(Posted) <= MaxCached =>
    \A m \in Posted : Saved(m) /\ ~Recording(m) => Listed(m) /\ Holds(m)

\* session-manager.ts:477-483: a message is persisted, or it would be lost with the
\* process.  A message that stays in memory is saved in the end, if no write fails and
\* nobody stops the session.
MessagesAreSaved ==
  [](cacheFaults = 0 /\ ~stops) => \A m \in Posted : Holds(m) ~> Saved(m) \/ ~Holds(m)

\* The same of a session that is stopped and started again.
StoppedSessionsSaveToo ==
  [](cacheFaults = 0) => \A m \in Posted : Holds(m) ~> Saved(m) \/ ~Holds(m)

\* session-manager.ts:292-295: both forms of an address collapse onto one chat.
OneChat == mapping = "announced" => "lid" \notin metas /\ lists["lid"] = <<>>
=============================================================================
