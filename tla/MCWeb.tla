------------------------------- MODULE MCWeb -------------------------------
(***************************************************************************)
(* The instance that TLC checks of the web client: the pane of a chat, the *)
(* list of chats with its notifications, what the agent writes, the        *)
(* browser's sessions and pushes, the screen that links a phone, what is   *)
(* done with a message, and what is looked up.  A behaviour has one of     *)
(* them in focus, or one side of it, while the others rest.                *)
(***************************************************************************)
EXTENDS Composer, Lookups, WebClient, LinkScreen, MessageActions,
        BrowserSession

CONSTANTS
  inbox,    \* the chat of the pane that has messages and a first sync
  menuChat, \* the chat of the list that commands are about
  firstAgent, \* who signs in first
  firstChat \* the chat whose messages are acted on

VARIABLE focus

browserTabVars == <<webVars, inboxVars, composerVars, browserVars, linkVars, actionVars, lookupVars,
                    focus>>

OnlyPane == UNCHANGED <<inboxVars, composerVars, browserVars, linkVars, actionVars, lookupVars, focus>>
OnlyInbox == UNCHANGED <<webVars, composerVars, browserVars, linkVars, actionVars, lookupVars, focus>>
OnlyWriting == UNCHANGED <<webVars, browserVars, linkVars, actionVars, lookupVars, focus>>
OnlyBrowser == UNCHANGED <<webVars, inboxVars, composerVars, linkVars, actionVars, lookupVars, focus>>
OnlyLink == UNCHANGED <<webVars, inboxVars, composerVars, browserVars, actionVars, lookupVars, focus>>
OnlyActions == UNCHANGED <<webVars, inboxVars, composerVars, browserVars, linkVars, lookupVars, focus>>
OnlyLookups == UNCHANGED <<webVars, inboxVars, composerVars, browserVars, linkVars, actionVars, focus>>

WebClientInit ==
  /\ focus \in {"pane", "list", "marks", "news", "alerts", "composer", "files", "dialog",
                "browser", "link", "sync", "actions", "lookups"}
  /\ WebInit /\ (focus # "pane" => active = inbox)
  /\ InboxInit /\ (focus \notin {"list", "marks", "news"} => rows[menuChat].rank = 1)
  /\ ComposerInit
  /\ BrowserInit
  /\ LinkInit /\ (focus \notin {"link", "sync"} => device = "none")
  /\ ActionsInit /\ onScreen = firstChat
  /\ LookupsInit /\ (focus # "lookups" => box = "search") /\ \A t \in Things : reach[t] = 1

\* Messages and syncs are those of one chat, without a sync once something failed.
PaneFocus ==
  /\ focus = "pane" /\ WebNext /\ OnlyPane
  /\ \A c \in Channels \ {inbox} : stored'[c] = 0 /\ c \notin syncs'
  /\ webFaults' # 0 => syncs' = {}

\* One command about one chat, without the realtime connection, so that nothing is heard:
\* it is archived ...
ListFocus ==
  /\ focus = "list" /\ ListNext /\ OnlyInbox
  /\ ~live' /\ ~due' /\ inboxFaults' = 0 /\ changes' <= 1 /\ (told => told')
  /\ view' # "unread"
  /\ picked' \in {NoChat, menuChat}
  /\ \A m \in commands' : m.chat = menuChat /\ m.op \in {"archive", "unarchive"}

\* ... or marked, or pinned ...
MarksFocus ==
  /\ focus = "marks" /\ ListNext /\ OnlyInbox
  /\ ~live' /\ ~due' /\ inboxFaults' = 0 /\ changes' <= 1 /\ (told => told')
  /\ view' # "archived"
  /\ picked' \in {NoChat, menuChat}
  /\ \A c \in Chats : ~rows'[c].archived /\ (c # menuChat => rows'[c] = rows[c])
  /\ \A m \in commands' : m.chat = menuChat /\ m.op \in {"mark", "clear", "pin"}

\* ... or nobody but the world changes chats, which the tab hears of.
NewsFocus ==
  /\ focus = "news" /\ ListNext /\ OnlyInbox
  /\ UNCHANGED <<commands, view, picked>>
  /\ \A c \in Chats : ~rows'[c].archived

AlertsFocus == focus = "alerts" /\ AlertNext /\ OnlyInbox

\* The list is loaded, and another chat comes on screen.
ChatSwitches ==
  /\ ListNext
  /\ UNCHANGED <<rows, view, commands, live, due, told, inboxFaults>>
  /\ Len(reads') <= Len(reads)
  /\ picked' # picked => picked = NoChat /\ listed # <<>>

\* Text is written, quoted and suggested, while another chat comes on screen; files are
\* attached; dialogs are opened.  One error, of the first text.
WritingFocus ==
  /\ focus \in {"composer", "files", "dialog"} /\ OnlyWriting
  /\ ComposerNext \/ (ChatSwitches /\ UNCHANGED composerVars)
  /\ \A t \in 1 .. MaxTexts : errors'[t] <= IF t = 1 THEN 1 ELSE 0
  /\ CASE focus = "composer" -> dialogs' = 0 /\ ~attachment' /\ ~degraded'
       [] focus = "files" -> dialogs' = 0 /\ Len(texts') <= 1 /\ drafting' = NoChat
       [] focus = "dialog" -> /\ mode' = "reply" /\ body' = 0 /\ ~attachment' /\ ~degraded'
                              /\ submission' = Idle /\ drafting' = NoChat

\* A request for data is the only one while it is on its way; the first who signs in is
\* one of two like agents, and the token of that sign-in alone expires.
BrowserFocus ==
  /\ focus = "browser" /\ BrowserNext /\ OnlyBrowser
  /\ \A r \in callsOut' : r.op = "data" => callsOut' = {r}
  /\ 1 \in DOMAIN bearer' => bearer'[1] = firstAgent
  /\ outdated' \subseteq {1}

\* QRs are asked for, by the button or not, and twice at a time while nothing failed and
\* the phone has not moved, of which one happens ...
LinkFocus ==
  /\ focus = "link" /\ LinkNext /\ OnlyLink
  /\ \A k \in DOMAIN linkCalls' : linkCalls'[k].op \in {"link", "autoQr", "connect"}
  /\ Len(linkCalls') > 1 => linkFaults' = 0 /\ moves' = 0 /\ issued' <= 1
  /\ linkFaults' = 0 \/ moves' = 0

\* ... or chats are synced and the phone's status is asked for.
SyncFocus ==
  /\ focus = "sync" /\ LinkNext /\ OnlyLink
  /\ issued' = 0
  /\ moves' # 0 \/ Len(linkCalls') > 1 => linkFaults' = 0
  /\ \A k \in DOMAIN linkCalls' : linkCalls'[k].op \in {"poll", "autoSync", "sync", "status"}

\* Messages are acted on, and their chat leaves the screen; a message is quoted after one
\* request at most.
ActionsFocus ==
  /\ focus = "actions" /\ ActionsNext /\ OnlyActions
  /\ viewer' # NoBubble => quoted' = <<>>
  /\ quoted' # <<>> => demands' <= 1
  /\ tickets' # {} => quoted' = <<>>

\* Somebody types, when the agent's channels have changed, if they do.
LookupsFocus ==
  /\ focus = "lookups" /\ LookupsNext /\ OnlyLookups
  /\ tries # 0 => reach' = reach

WebClientNext ==
  \/ PaneFocus \/ ListFocus \/ MarksFocus \/ NewsFocus \/ AlertsFocus
  \/ WritingFocus \/ BrowserFocus \/ LinkFocus \/ SyncFocus
  \/ ActionsFocus \/ LookupsFocus

WebClientSpec ==
  /\ WebClientInit /\ [][WebClientNext]_browserTabVars
  /\ WF_webVars(focus = "pane" /\ Poll) /\ WF_webVars(focus = "pane" /\ ServeOldest)
  /\ WF_inboxVars(focus = "list" /\ PollsList) /\ WF_inboxVars(focus = "list" /\ ServeFirstRead)

-----------------------------------------------------------------------------
WebClientTypeOK ==
  WebTypeOK /\ InboxTypeOK /\ ComposerTypeOK /\ BrowserTypeOK /\ LinkTypeOK
  /\ ActionsTypeOK /\ LookupsTypeOK

\* What comes late or twice does not get in the way of what is newer, in the pane or among
\* the notifications (LoadsStayInTheirChat in WebClient.tla, AlertsAreLatest in Inbox.tla).
NoStaleNews == LoadsStayInTheirChat /\ AlertsAreLatest
\* The pane of a tab without its realtime connection catches up by polling
\* (PollingCatchesUp in WebClient.tla).
PaneCatchesUp == focus = "pane" => PollingCatchesUp
\* And so does its list of chats (ListCatchesUp in Inbox.tla).
ChatsCatchUp == focus = "list" => ListCatchesUp
=============================================================================
