--------------------------- MODULE MessageActions ---------------------------
(***************************************************************************)
(* What an agent does with the messages of the chat on screen              *)
(* (components/Timeline.tsx and its callbacks in App.tsx): the menu of a   *)
(* message, the reaction picker, the attachments and their viewer.  All of *)
(* it outlives a change of the chat, which the agent makes, or the list    *)
(* when the chat leaves the view.  A chat has a message with a file, and   *)
(* an internal note.                                                       *)
(***************************************************************************)
EXTENDS Naturals

CONSTANTS
  PaneChats,
  MaxSwitches, \* bound on the changes of the chat on screen
  MaxAsked,    \* bound on the requests made
  NoBubble

ASSUME ActionBounds ==
  /\ MaxSwitches \in Nat /\ MaxAsked \in Nat
  /\ NoBubble \notin PaneChats \X {"message", "file", "note"}

VARIABLES
  onScreen,  \* the active chat
  switches,
  files,     \* storage status of the files in the timeline: "pending" or "downloaded"
  fileView,  \* state of the preview of the file on screen
  menu,      \* the message whose menu is open
  picker,    \* the message whose reaction picker is open, ...
  sending,   \* ... and does it wait for an answer?
  viewer,    \* the message whose attachment is open
  demanded,  \* requests in flight
  demands,   \* how many were made
  quoted,    \* the draft handed to the composer: the message and the composer's chat
  tickets    \* tickets created: the message and the channel

actionVars == <<onScreen, switches, files, fileView, menu, picker, sending, viewer, demanded,
                demands, quoted, tickets>>

\* A message, without its file or with it, or a note: as it was when its menu was opened.
Bubbles == PaneChats \X {"message", "file", "note"}

isNote(b) == b[2] = "note"

\* live: of a preview that is mounted still.
ActionRequest == [n : 1 .. MaxAsked, op : {"preview", "view", "react", "ticket"}, of : Bubbles,
                  chat : PaneChats, live : BOOLEAN]

Demand(op, b) ==
  /\ demands < MaxAsked
  /\ demands' = demands + 1
  /\ demanded' = demanded \cup
                   {[n |-> demands + 1, op |-> op, of |-> b, chat |-> onScreen, live |-> TRUE]}

Mount(c) == <<c, "file">>

-----------------------------------------------------------------------------
(* The chat on screen. *)

\* The previews of the old chat are unmounted, and that of the new one asks for its file
\* if that is there.  A click elsewhere closes menu and picker; the keyboard, or a chat
\* that leaves the list, does not.
SwitchChat ==
  /\ switches < MaxSwitches /\ switches' = switches + 1
  /\ \E c \in PaneChats \ {onScreen} :
       LET cancelled == {[r EXCEPT !.live = FALSE] : r \in demanded} IN
       /\ onScreen' = c
       /\ IF files[c] = "downloaded"
            THEN /\ demands < MaxAsked /\ demands' = demands + 1
                 /\ fileView' = "loading"
                 /\ demanded' = cancelled \cup
                                  {[n |-> demands + 1, op |-> "preview", of |-> Mount(c),
                                    chat |-> c, live |-> TRUE]}
            ELSE /\ fileView' = "idle" /\ demanded' = cancelled
                 /\ UNCHANGED demands
  /\ \/ UNCHANGED <<menu, picker, sending>>
     \/ menu' = NoBubble /\ picker' = NoBubble /\ sending' = FALSE
  /\ UNCHANGED <<files, viewer, quoted, tickets>>

MutOnlyOnMount(c) == FALSE
\* The effect of a preview depends on the storage status.
EffectRuns(c) == c = onScreen

\* A refresh of the timeline brings a file that was downloaded.
FileArrives(c) ==
  /\ files[c] = "pending"
  /\ files' = [files EXCEPT ![c] = "downloaded"]
  /\ IF EffectRuns(c) THEN fileView' = "loading" /\ Demand("preview", Mount(c))
                      ELSE UNCHANGED <<fileView, demanded, demands>>
  /\ UNCHANGED <<onScreen, switches, menu, picker, sending, viewer, quoted, tickets>>

PreviewAnswer ==
  /\ \E r \in demanded :
       /\ r.op = "preview"
       /\ demanded' = demanded \ {r}
       /\ IF r.live THEN fileView' \in {"ready", "error"} ELSE fileView' = fileView
  /\ UNCHANGED <<onScreen, switches, files, menu, picker, sending, viewer, demands, quoted,
                 tickets>>

-----------------------------------------------------------------------------
(* The menu of a message. *)

\* openMenu, by a click, which closes the picker, or by the keyboard.
OpenMenu ==
  /\ menu' \in {<<onScreen, "note">>,
                <<onScreen, IF files[onScreen] = "downloaded" THEN "file" ELSE "message">>}
  /\ \/ UNCHANGED <<picker, sending>>
     \/ picker' = NoBubble /\ sending' = FALSE
  /\ UNCHANGED <<onScreen, switches, files, fileView, viewer, demanded, demands, quoted,
                 tickets>>

\* Menu, picker and viewer hear the Escape key.
Escape ==
  /\ {menu, picker, viewer} # {NoBubble}
  /\ menu' = NoBubble /\ picker' = NoBubble /\ sending' = FALSE /\ viewer' = NoBubble
  /\ UNCHANGED <<onScreen, switches, files, fileView, demanded, demands, quoted, tickets>>

\* Copying and refreshing.
CloseMenu ==
  /\ menu # NoBubble /\ menu' = NoBubble
  /\ UNCHANGED <<onScreen, switches, files, fileView, picker, sending, viewer, demanded,
                 demands,
                 quoted, tickets>>

\* A picker that is open stays mounted.
ChooseReact ==
  /\ menu # NoBubble
  /\ picker' = menu /\ menu' = NoBubble
  /\ UNCHANGED <<onScreen, switches, files, fileView, sending, viewer, demanded, demands,
                 quoted, tickets>>

\* Or downloadAttachment: the menu stays open until the answer.
viewAttachment ==
  /\ menu # NoBubble /\ menu[2] = "file"
  /\ Demand("view", menu)
  /\ UNCHANGED <<onScreen, switches, files, fileView, menu, picker, sending, viewer,
                 quoted, tickets>>

\* The ticket is one of the chat on screen.
CreateTicket ==
  /\ menu # NoBubble /\ ~isNote(menu)
  /\ Demand("ticket", menu)
  /\ menu' = NoBubble
  /\ UNCHANGED <<onScreen, switches, files, fileView, picker, sending, viewer, quoted, tickets>>

\* A reply or a private note quotes the message in the composer of the chat on screen.
QuoteMessage ==
  /\ menu # NoBubble /\ ~isNote(menu)
  /\ quoted' = <<menu, onScreen>>
  /\ menu' = NoBubble
  /\ UNCHANGED <<onScreen, switches, files, fileView, picker, sending, viewer, demanded,
                 demands, tickets>>

\* The buttons are disabled while a reaction is sent.
PickReaction ==
  /\ picker # NoBubble /\ ~sending
  /\ Demand("react", picker)
  /\ sending' = TRUE
  /\ UNCHANGED <<onScreen, switches, files, fileView, menu, picker, viewer, quoted, tickets>>

-----------------------------------------------------------------------------
(* The answers. *)

\* TicketsService.create looks for the source message in the channel.
SourceFound(r) == r.of[1] = r.chat

TicketAnswer ==
  /\ \E r \in demanded :
       /\ r.op = "ticket"
       /\ demanded' = demanded \ {r}
       /\ tickets' = IF SourceFound(r) THEN tickets \cup {<<r.of, r.chat>>} ELSE tickets
  /\ UNCHANGED <<onScreen, switches, files, fileView, menu, picker, sending, viewer,
                 demands, quoted>>

\* An answer opens the viewer, or saves the file, and closes whatever menu is open; an error
\* does nothing.
ViewAnswer ==
  /\ \E r \in demanded :
       /\ r.op = "view"
       /\ demanded' = demanded \ {r}
       /\ \/ UNCHANGED <<menu, viewer>>
          \/ viewer' \in {r.of, viewer} /\ menu' = NoBubble
  /\ UNCHANGED <<onScreen, switches, files, fileView, picker, sending, demands, quoted,
                 tickets>>

\* A reaction that was sent closes whatever picker is open; after an error, which a note
\* always gives, the picker of the request takes another.
ReactAnswer ==
  /\ \E r \in demanded :
       /\ r.op = "react"
       /\ demanded' = demanded \ {r}
       /\ \/ picker' = picker /\ sending' = (sending /\ \E q \in demanded' : q.op = "react")
          \/ ~isNote(r.of) /\ picker' = NoBubble /\ sending' = FALSE
  /\ UNCHANGED <<onScreen, switches, files, fileView, menu, viewer, demands, quoted, tickets>>

-----------------------------------------------------------------------------
ActionsInit ==
  /\ onScreen \in PaneChats /\ switches = 0
  /\ files = [c \in PaneChats |-> "pending"] /\ fileView = "idle"
  /\ menu = NoBubble /\ picker = NoBubble /\ sending = FALSE /\ viewer = NoBubble
  /\ demanded = {} /\ demands = 0
  /\ quoted = <<>> /\ tickets = {}

ActionsNext ==
  \/ SwitchChat \/ (\E c \in PaneChats : FileArrives(c)) \/ PreviewAnswer
  \/ OpenMenu \/ Escape \/ CloseMenu
  \/ ChooseReact \/ viewAttachment \/ CreateTicket \/ QuoteMessage
  \/ PickReaction \/ TicketAnswer \/ ViewAnswer \/ ReactAnswer

ActionsSpec == ActionsInit /\ [][ActionsNext]_actionVars

-----------------------------------------------------------------------------
ActionsTypeOK ==
  /\ onScreen \in PaneChats /\ switches \in 0 .. MaxSwitches
  /\ files \in [PaneChats -> {"pending", "downloaded"}]
  /\ fileView \in {"idle", "loading", "ready", "error"}
  /\ {menu, picker, viewer} \subseteq Bubbles \cup {NoBubble} /\ sending \in BOOLEAN
  /\ demanded \subseteq ActionRequest /\ demands \in 0 .. MaxAsked
  /\ quoted \in {<<>>} \cup (Bubbles \X PaneChats)
  /\ tickets \subseteq Bubbles \X PaneChats

\* A ticket is created from a message of its own channel, although the menu of a message
\* outlives its chat and App.tsx pairs it with the chat on screen.
TicketsOfTheirChannel == \A t \in tickets : t[1][1] = t[2]

\* The preview of a downloaded file is shown, has failed or is being asked for: it says
\* "Loading..." only while a request that it listens to is in flight.
PreviewsAreAnswered ==
  /\ files[onScreen] = "downloaded" => fileView # "idle"
  /\ fileView = "loading" => \E r \in demanded : r.op = "preview" /\ r.live /\ r.chat = onScreen

\* What was asked for in one chat does no harm in the next: both of the above.
ActionsInv == TicketsOfTheirChannel /\ PreviewsAreAnswered

\* What is quoted in a composer is of its own chat.  A menu that is open when the chat
\* leaves the list quotes the old chat's message in the new one.
QuotesStayInTheirChat == quoted = <<>> \/ quoted[1][1] = quoted[2]

\* The viewer shows an attachment of the chat on screen.  A late answer opens another's.
ViewerShowsItsChat == viewer = NoBubble \/ viewer[1] = onScreen
=============================================================================
