------------------------------- MODULE Inbox -------------------------------
(***************************************************************************)
(* The chat list of one browser tab (apps/web/src/App.tsx Workbench,       *)
(* lib/ui-mappers.ts, lib/whatsapp-sort.ts): the rows its requests read,   *)
(* the view that filters and sorts them, the chat this puts on screen, the *)
(* menu's commands; and the notification centre (realtime.ts).  A chat's   *)
(* place in the order (pins, then activity, then id) is a rank.            *)
(***************************************************************************)
EXTENDS Naturals, Sequences, FiniteSets, Ordered

LOCAL INSTANCE SequencesExt

CONSTANTS
  Chats,
  NoChat,
  MaxChanges,     \* bound on the changes of chats
  MaxListReads,   \* bound on the requests of the list in flight
  MaxCommands,    \* bound on the commands in flight
  MaxInboxFaults, \* bound on failed requests and lost connections
  EventKeys,      \* what tells one notification from another
  MaxAlerts,      \* MAX_NOTIFICATIONS
  MaxHeard        \* bound on the events of the notification centre

ASSUME InboxAssumption ==
  /\ IsFiniteSet(Chats) /\ NoChat \notin Chats
  /\ {MaxChanges, MaxCommands, MaxInboxFaults, MaxHeard} \subseteq Nat
  /\ {MaxListReads, MaxAlerts} \subseteq Nat \ {0}

VARIABLES
  rows,     \* the chats in the database
  changes,
  told,     \* an event of a chat is on its way
  listed,   \* channels.data: the rows the tab has
  reads,    \* GET channels requests in flight
  view,     \* channelView
  picked,   \* activeChannelId
  commands, \* requests that change a chat in flight, with the view they were made in
  live,     \* the realtime connection
  due,      \* refreshTimers["channels"] is set
  inboxFaults,
  alerts,   \* notifications, the newest first
  heard     \* events since the notifications were cleared

listVars == <<rows, changes, told, listed, reads, view, picked, commands, live, due, inboxFaults>>
alertVars == <<alerts, heard>>
inboxVars == <<listVars, alertVars>>

Views == {"all", "unread", "archived"}
Row == [rank : 1 .. Cardinality(Chats) + MaxChanges, archived : BOOLEAN, marked : BOOLEAN]
Rows == UNION {[S -> Row] : S \in SUBSET Chats}
Top(S, of) == CHOOSE c \in S : \A d \in S : of[c].rank >= of[d].rank

Change == changes < MaxChanges /\ changes' = changes + 1
InboxFault == inboxFaults < MaxInboxFaults /\ inboxFaults' = inboxFaults + 1

-----------------------------------------------------------------------------
(* What is listed, and which chat is on screen. *)

\* ChannelsService.list.
Listing(lifecycle) ==
  [c \in {d \in Chats : rows[d].archived = (lifecycle = "archived")} |-> rows[c]]

Filtered(of, v) == {c \in DOMAIN of : /\ of[c].archived = (v = "archived")
                                      /\ v = "unread" => of[c].marked}

\* activeChannel: the one picked while the view has it, or else the first.
Shown(p, of, v) ==
  IF p \in Filtered(of, v) THEN p
  ELSE IF Filtered(of, v) # {} THEN Top(Filtered(of, v), of)
  ELSE IF DOMAIN of # {} THEN Top(DOMAIN of, of) ELSE NoChat

OnScreen == Shown(picked, listed, view)

-----------------------------------------------------------------------------
(* useAsyncData of the list. *)

MutInboxOnly(v) == "inbox"
\* What a view asks the API for.
Lifecycle(v) == IF v = "archived" THEN "archived" ELSE "inbox"

ListRead(v, kind) == [of |-> Lifecycle(v), kind |-> kind, current |-> TRUE, answered |-> FALSE,
                      rows |-> [c \in {} |-> rows[c]]]

\* channels.refresh of a render in view v.
RefreshList(v) ==
  /\ Len(reads) < MaxListReads
  /\ reads' = Append(reads, ListRead(v, "refresh"))

ReadList(k) ==
  /\ ~reads[k].answered
  /\ reads' = [reads EXCEPT ![k].answered = TRUE, ![k].rows = Listing(reads[k].of)]
  /\ UNCHANGED <<rows, changes, told, listed, view, picked, commands, live, due, inboxFaults>>

ListAnswer(k) ==
  /\ reads[k].answered
  /\ listed' = IF reads[k].kind = "refresh" \/ reads[k].current THEN reads[k].rows ELSE listed
  /\ reads' = RemoveAt(reads, k)
  /\ UNCHANGED <<rows, changes, told, view, picked, commands, live, due, inboxFaults>>

\* The rows stay.
ListFails(k) ==
  /\ InboxFault
  /\ reads' = RemoveAt(reads, k)
  /\ UNCHANGED <<rows, changes, told, listed, view, picked, commands, live, due>>

-----------------------------------------------------------------------------
(* The agent. *)

\* deps has channelView: another view loads its own list.
ViewLoads(v) == Append([k \in DOMAIN reads |-> [reads[k] EXCEPT !.current = FALSE]],
                       ListRead(v, "load"))

SwitchView(v) ==
  /\ v # view
  /\ view' = v
  /\ Len(reads) < MaxListReads
  /\ reads' = ViewLoads(v)
  /\ UNCHANGED <<rows, changes, told, listed, picked, commands, live, due, inboxFaults>>

StartCommand(op, c) ==
  /\ Cardinality(commands) < MaxCommands
  /\ commands' = commands \cup {[op |-> op, chat |-> c, view |-> view]}

\* selectChannel, of the list or of a push that was tapped: what the tab takes for
\* marked is unmarked at once.
Open(c) ==
  /\ c # picked
  /\ picked' = c
  /\ IF c \in DOMAIN listed /\ listed[c].marked THEN StartCommand("clear", c)
     ELSE UNCHANGED commands
  /\ UNCHANGED <<rows, changes, told, listed, reads, view, live, due, inboxFaults>>

\* The menu, the search results and the notifications only pick.
Jump(c) ==
  /\ c \in DOMAIN listed /\ c # picked
  /\ picked' = c
  /\ UNCHANGED <<rows, changes, told, listed, reads, view, commands, live, due, inboxFaults>>

\* The menu's commands name the state the tab does not see the chat in.
Command(c) ==
  /\ c \in DOMAIN listed
  /\ \E op \in {IF listed[c].archived THEN "unarchive" ELSE "archive", "pin"}
                 \cup IF listed[c].marked THEN {} ELSE {"mark"} : StartCommand(op, c)
  /\ UNCHANGED <<rows, changes, told, listed, reads, view, picked, live, due, inboxFaults>>

MaxRank == CHOOSE k \in {rows[c].rank : c \in Chats} : \A c \in Chats : rows[c].rank <= k

Effect(row, op) ==
  CASE op = "archive"   -> [row EXCEPT !.archived = TRUE]
    [] op = "unarchive" -> [row EXCEPT !.archived = FALSE]
    [] op = "mark"      -> [row EXCEPT !.marked = TRUE]
    [] op = "clear"     -> [row EXCEPT !.marked = FALSE]
    [] op = "pin"       -> [row EXCEPT !.rank = MaxRank + 1]

\* The API did it: the list of the view it was asked in is read again, and after an
\* archive nothing is picked any more.
CommandAnswer(m) ==
  /\ Change
  /\ rows' = [rows EXCEPT ![m.chat] = Effect(@, m.op)]
  /\ told' = (told \/ m.op # "clear")
  /\ picked' = IF m.op \in {"archive", "unarchive"} THEN NoChat ELSE picked
  /\ RefreshList(m.view)
  /\ commands' = commands \ {m}
  /\ UNCHANGED <<listed, view, live, due, inboxFaults>>

\* A toast tells.
CommandFails(m) ==
  /\ InboxFault
  /\ commands' = commands \ {m}
  /\ UNCHANGED <<rows, changes, told, listed, reads, view, picked, live, due>>

-----------------------------------------------------------------------------
(* The rest of the world. *)

\* A message moves its chat up; another agent archives it.
ChatChanges(c) ==
  /\ Change
  /\ \E op \in {"pin", "archive"} : rows' = [rows EXCEPT ![c] = Effect(@, op)]
  /\ told' = TRUE
  /\ UNCHANGED <<listed, reads, view, picked, commands, live, due, inboxFaults>>

HearOfChat ==
  /\ told
  /\ told' = FALSE /\ due' = (due \/ live)
  /\ UNCHANGED <<rows, changes, listed, reads, view, picked, commands, live, inboxFaults>>

\* channelsRefreshRef: the refresh of the latest render.
DueFires ==
  /\ due
  /\ due' = FALSE
  /\ RefreshList(view)
  /\ UNCHANGED <<rows, changes, told, listed, view, picked, commands, live, inboxFaults>>

PollList ==
  /\ ~live
  /\ RefreshList(view)
  /\ UNCHANGED <<rows, changes, told, listed, view, picked, commands, live, due, inboxFaults>>

GoLive ==
  /\ ~live
  /\ live' = TRUE
  /\ RefreshList(view)
  /\ UNCHANGED <<rows, changes, told, listed, view, picked, commands, due, inboxFaults>>

GoOffline ==
  /\ live
  /\ InboxFault
  /\ live' = FALSE
  /\ UNCHANGED <<rows, changes, told, listed, reads, view, picked, commands, due>>

-----------------------------------------------------------------------------
(* The notification centre. *)

Alert == [key : EventKeys, read : BOOLEAN]

\* An event that says the same again replaces the notification it gave.
Others(key) == Among(alerts, {a \in Alert : a.key # key})

MutKeepAll(all) == all
Newest(all) == SubSeq(all, 1, IF Len(all) > MaxAlerts THEN MaxAlerts ELSE Len(all))

Hear(key) ==
  /\ Len(heard) < MaxHeard
  /\ heard' = <<key>> \o heard
  /\ alerts' = Newest(<<[key |-> key, read |-> FALSE]>> \o Others(key))
  /\ UNCHANGED listVars

MarkRead(key) ==
  /\ alerts' = [k \in DOMAIN alerts |-> [alerts[k] EXCEPT !.read = @ \/ alerts[k].key = key]]
  /\ UNCHANGED <<listVars, heard>>

MarkAllRead ==
  /\ alerts' = [k \in DOMAIN alerts |-> [alerts[k] EXCEPT !.read = TRUE]]
  /\ UNCHANGED <<listVars, heard>>

ClearAlerts ==
  /\ alerts' = <<>> /\ heard' = <<>>
  /\ UNCHANGED listVars

-----------------------------------------------------------------------------
InboxInit ==
  /\ rows \in [Chats -> [rank : 1 .. Cardinality(Chats), archived : {FALSE}, marked : {FALSE}]]
  /\ \A c, d \in Chats : rows[c].rank = rows[d].rank => c = d
  /\ changes = 0 /\ told = FALSE
  /\ listed = [c \in {} |-> rows[c]]
  /\ view = "all"
  /\ reads = <<ListRead("all", "load")>>
  /\ picked = NoChat
  /\ commands = {}
  /\ live = FALSE /\ due = FALSE
  /\ inboxFaults = 0
  /\ alerts = <<>> /\ heard = <<>>

ListNext ==
  /\ \/ \E k \in DOMAIN reads : ReadList(k) \/ ListAnswer(k) \/ ListFails(k)
     \/ \E v \in Views : SwitchView(v)
     \/ \E c \in Chats : Open(c) \/ Jump(c) \/ Command(c) \/ ChatChanges(c)
     \/ \E m \in commands : CommandAnswer(m) \/ CommandFails(m)
     \/ HearOfChat \/ DueFires \/ PollList \/ GoLive \/ GoOffline
  /\ UNCHANGED alertVars

AlertNext ==
  \/ \E key \in EventKeys : Hear(key) \/ MarkRead(key)
  \/ MarkAllRead \/ ClearAlerts

ServeFirstRead == reads # <<>> /\ (ReadList(1) \/ ListAnswer(1)) /\ UNCHANGED alertVars
PollsList == PollList /\ UNCHANGED alertVars

InboxSpec == /\ InboxInit /\ [][ListNext \/ AlertNext]_inboxVars
             /\ WF_inboxVars(PollsList) /\ WF_inboxVars(ServeFirstRead)

-----------------------------------------------------------------------------
InboxTypeOK ==
  /\ rows \in [Chats -> Row] /\ listed \in Rows
  /\ changes \in 0 .. MaxChanges /\ inboxFaults \in 0 .. MaxInboxFaults
  /\ {told, live, due} \subseteq BOOLEAN
  /\ Len(reads) <= MaxListReads
  /\ reads \in Seq([of : {"inbox", "archived"}, kind : {"load", "refresh"}, current : BOOLEAN,
                    answered : BOOLEAN, rows : Rows])
  /\ view \in Views /\ picked \in Chats \cup {NoChat}
  /\ commands \subseteq [op : {"clear", "mark", "pin", "archive", "unarchive"}, chat : Chats,
                         view : Views]
  /\ Len(alerts) <= MaxAlerts /\ alerts \in Seq(Alert)

\* A tab without its realtime connection that stays in a view lists, time and again,
\* what the database has for that view, whatever lists of other views come late
\* (App.tsx:400-403, 621-645).
ListCatchesUp ==
  \A v \in Views :
    LET wanted == {c \in Chats : rows[c].archived = (v = "archived")} IN
    <>[](~live /\ view = v) => []<>(listed = [c \in wanted |-> rows[c]])

\* Where the events that were heard are, each at its newest.
News == {k \in DOMAIN heard : \A j \in 1 .. k - 1 : heard[j] # heard[k]}

Latest(n) ==
  LET kept == {k \in News : Before(News, k) < n}
  IN  [i \in 1 .. Cardinality(kept) |-> heard[Ascending(kept)[i]]]

\* The notification centre holds the last events heard, each of them once, the newest
\* first: none is pushed out by copies of another (realtime.ts:83-93).
AlertsAreLatest == [k \in DOMAIN alerts |-> alerts[k].key] = Latest(MaxAlerts)

\* chat-actions-menu-design.md:115 says that the tab retains the active conversation when
\* it remains visible.  Where nothing is picked, which is so at the start and after every
\* archive, the first of the list is active, whichever that is.
ActiveRemains ==
  [][view' = view /\ picked' \in {picked, NoChat} /\ OnScreen \in Filtered(listed', view)
       => OnScreen' = OnScreen]_inboxVars

\* chat-actions-menu-design.md:49 says that archived chats disappear from all views but
\* their own: so must the chat on screen.  A list read for another view can come late.
ArchivedOffScreen ==
  view # "archived" /\ OnScreen # NoChat => ~listed[OnScreen].archived
=============================================================================
