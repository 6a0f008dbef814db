------------------------------ MODULE Composer ------------------------------
(***************************************************************************)
(* What an agent writes (apps/web/src/components/Composer.tsx,             *)
(* NewChatDialog.tsx, NewGroupDialog.tsx): the composer below the chat on  *)
(* screen, which keeps its text when another chat comes on screen, its     *)
(* submissions and AI suggestions; the dialog that starts a chat or group. *)
(* Texts are numbered in the order in which they come into being.          *)
(***************************************************************************)
EXTENDS Inbox

CONSTANTS
  MaxTexts,    \* bound on the texts
  MaxDialogs   \* bound on the dialogs opened

ASSUME ComposerAssumption == {MaxTexts, MaxDialogs} \subseteq Nat

VARIABLES
  texts,       \* what each text is: the chat it was written for, the mode, whether the agent
               \* took it along into replies himself
  mode, body, attachment,  \* the composer; body is 0 when it is empty
  submission,  \* what it is submitting
  drafting,    \* the chat a suggestion is awaited for
  degraded,    \* phoneStatus, of the phones list, is "degraded"
  dialog,      \* the dialog that is open
  dialogs,     \* dialogs opened so far
  creating,    \* commands of dialogs in flight
  posted,      \* how often the API took each text
  errors       \* how often the agent saw an error for each

composerVars == <<texts, mode, body, attachment, submission, drafting, degraded, dialog, dialogs,
                  creating, posted, errors>>

Modes == {"reply", "note"}
Idle == [to |-> NoChat, text |-> 0, file |-> FALSE, as |-> "reply", served |-> FALSE]
NoDialog == [n |-> 0, text |-> 0, file |-> FALSE, submitting |-> FALSE]

\* A text comes into being.
Text(c, as) ==
  /\ Len(texts) < MaxTexts
  /\ texts' = Append(texts, [for |-> c, as |-> as, taken |-> FALSE])
NewText == Len(texts) + 1

Count(f, t) == IF t = 0 THEN f ELSE [f EXCEPT ![t] = @ + 1]
NothingPosted == UNCHANGED <<posted, errors>>

-----------------------------------------------------------------------------
(* The composer. *)

Write ==
  /\ OnScreen # NoChat
  /\ Text(OnScreen, mode)
  /\ body' = NewText
  /\ UNCHANGED <<mode, attachment, submission, drafting, degraded, dialog, dialogs, creating>>
  /\ NothingPosted

Attach ==
  /\ mode = "reply" /\ ~attachment
  /\ attachment' = TRUE
  /\ UNCHANGED <<texts, mode, body, submission, drafting, degraded, dialog, dialogs, creating>>
  /\ NothingPosted

selectMode(m) ==
  /\ m # mode
  /\ mode' = m
  /\ attachment' = (attachment /\ m # "note")
  /\ texts' = IF body # 0 /\ m = "reply" THEN [texts EXCEPT ![body].taken = TRUE] ELSE texts
  /\ UNCHANGED <<body, submission, drafting, degraded, dialog, dialogs, creating>>
  /\ NothingPosted

MutKeepBody(n) == body
\* Replying to a message, or noting on it, replaces the text with the message's.
QuotedBody(n) == n

Quote(m) ==
  /\ OnScreen # NoChat
  /\ Text(OnScreen, m)
  /\ mode' = m /\ body' = QuotedBody(NewText)
  /\ UNCHANGED <<attachment, submission, drafting, degraded, dialog, dialogs, creating>>
  /\ NothingPosted

suggestReply ==
  /\ mode = "reply" /\ drafting = NoChat /\ OnScreen # NoChat
  /\ drafting' = OnScreen
  /\ UNCHANGED <<texts, mode, body, attachment, submission, degraded, dialog, dialogs, creating>>
  /\ NothingPosted

\* The suggestion replaces whatever is in the composer by now.
Suggestion ==
  /\ drafting # NoChat
  /\ Text(drafting, "reply")
  /\ body' = NewText
  /\ drafting' = NoChat
  /\ UNCHANGED <<mode, attachment, submission, degraded, dialog, dialogs, creating>>
  /\ NothingPosted

SuggestionFails ==
  /\ drafting # NoChat
  /\ drafting' = NoChat
  /\ UNCHANGED <<texts, mode, body, attachment, submission, degraded, dialog, dialogs, creating>>
  /\ NothingPosted

\* The status of the phones as the list was last read.
PhonesRead ==
  /\ degraded' = ~degraded
  /\ UNCHANGED <<texts, mode, body, attachment, submission, drafting, dialog, dialogs, creating>>
  /\ NothingPosted

MutSubmitTwice == (body # 0 \/ attachment) /\ ~(mode = "reply" /\ degraded)
canSubmit ==
  /\ submission = Idle
  /\ body # 0 \/ (mode = "reply" /\ attachment)
  /\ ~(mode = "reply" /\ degraded)

handleSubmit ==
  /\ OnScreen # NoChat
  /\ canSubmit
  /\ submission' = [to |-> OnScreen, text |-> body, file |-> attachment, as |-> mode,
                    served |-> FALSE]
  /\ UNCHANGED <<texts, mode, body, attachment, drafting, degraded, dialog, dialogs, creating>>
  /\ NothingPosted

\* Every attempt has an idempotency key of its own: the API takes it for a new one.
Served ==
  /\ submission # Idle /\ ~submission.served
  /\ submission' = [submission EXCEPT !.served = TRUE]
  /\ posted' = Count(posted, submission.text)
  /\ UNCHANGED <<texts, mode, body, attachment, drafting, degraded, dialog, dialogs, creating, errors>>

\* The composer is cleared, of what was written since too.
Submitted ==
  /\ submission.served
  /\ submission' = Idle
  /\ body' = 0 /\ attachment' = FALSE
  /\ UNCHANGED <<texts, mode, drafting, degraded, dialog, dialogs, creating>>
  /\ NothingPosted

\* The request failed, or its answer did: the text stays.
SubmitFails ==
  /\ submission # Idle
  /\ errors' = Count(errors, submission.text)
  /\ submission' = Idle
  /\ UNCHANGED <<texts, mode, body, attachment, drafting, degraded, dialog, dialogs, creating,
                 posted>>

-----------------------------------------------------------------------------
(* The dialog for a new chat or group; a group has no attachment. *)

OpenDialog ==
  /\ dialog = NoDialog
  /\ dialogs < MaxDialogs
  /\ Text(NoChat, "reply")
  /\ dialogs' = dialogs + 1
  /\ \E file \in BOOLEAN :
       dialog' = [n |-> dialogs', text |-> NewText, file |-> file, submitting |-> FALSE]
  /\ UNCHANGED <<mode, body, attachment, submission, drafting, degraded, creating>>
  /\ NothingPosted

\* Cancel and Close are there while the command runs, too.
CloseDialog ==
  /\ dialog # NoDialog
  /\ dialog' = NoDialog
  /\ UNCHANGED <<texts, mode, body, attachment, submission, drafting, degraded, dialogs, creating>>
  /\ NothingPosted

submit ==
  /\ dialog # NoDialog /\ ~dialog.submitting
  /\ dialog' = [dialog EXCEPT !.submitting = TRUE]
  /\ creating' = creating \cup
       {[n |-> dialog.n, text |-> dialog.text, file |-> dialog.file, step |-> "create"]}
  /\ UNCHANGED <<texts, mode, body, attachment, submission, drafting, degraded, dialogs>>
  /\ NothingPosted

\* The conversation with its first message; then the attachment, on its own.
Create(d) ==
  /\ d.step = "create"
  /\ creating' = (creating \ {d}) \cup {[d EXCEPT !.step = IF d.file THEN "media" ELSE "done"]}
  /\ posted' = Count(posted, d.text)
  /\ UNCHANGED <<texts, mode, body, attachment, submission, drafting, degraded, dialog, dialogs, errors>>

SendMedia(d) ==
  /\ d.step = "media"
  /\ creating' = (creating \ {d}) \cup {[d EXCEPT !.step = "done"]}
  /\ UNCHANGED <<texts, mode, body, attachment, submission, drafting, degraded, dialog, dialogs>>
  /\ NothingPosted

\* The list is read again, the new chat is picked, and the dialog closed: whichever is open.
Created(d, c) ==
  /\ d.step = "done"
  /\ creating' = creating \ {d}
  /\ dialog' = NoDialog
  /\ RefreshList(view)
  /\ picked' = c
  /\ UNCHANGED <<texts, mode, body, attachment, submission, drafting, degraded, dialogs>>
  /\ UNCHANGED <<rows, changes, told, listed, view, commands, live, due, inboxFaults, alertVars>>
  /\ NothingPosted

\* At any step; the text can be submitted again if its dialog is still open.
CreateFails(d) ==
  /\ creating' = creating \ {d}
  /\ errors' = Count(errors, d.text)
  /\ dialog' = IF dialog.n = d.n THEN [dialog EXCEPT !.submitting = FALSE] ELSE dialog
  /\ UNCHANGED <<texts, mode, body, attachment, submission, drafting, degraded, dialogs, posted>>

-----------------------------------------------------------------------------
ComposerInit ==
  /\ texts = <<>>
  /\ mode = "reply" /\ body = 0 /\ attachment = FALSE
  /\ submission = Idle
  /\ drafting = NoChat
  /\ degraded = FALSE
  /\ dialog = NoDialog /\ dialogs = 0 /\ creating = {}
  /\ posted = [t \in 1 .. MaxTexts |-> 0] /\ errors = posted

ComposerStep ==
  \/ Write \/ Attach \/ suggestReply \/ Suggestion \/ SuggestionFails \/ PhonesRead
  \/ \E m \in Modes : selectMode(m) \/ Quote(m)
  \/ handleSubmit \/ Served \/ Submitted \/ SubmitFails
  \/ OpenDialog \/ CloseDialog \/ submit
  \/ \E d \in creating : Create(d) \/ SendMedia(d) \/ CreateFails(d)

ComposerNext ==
  \/ ComposerStep /\ UNCHANGED inboxVars
  \/ \E d \in creating, c \in Chats : Created(d, c)

-----------------------------------------------------------------------------
ComposerTypeOK ==
  /\ Len(texts) <= MaxTexts
  /\ texts \in Seq([for : Chats \cup {NoChat}, as : Modes, taken : BOOLEAN])
  /\ mode \in Modes
  /\ {body, submission.text, dialog.text} \subseteq 0 .. Len(texts)
  /\ submission \in [to : Chats \cup {NoChat}, text : Nat, file : BOOLEAN, as : Modes,
                     served : BOOLEAN]
  /\ drafting \in Chats \cup {NoChat}
  /\ {attachment, degraded, dialog.file, dialog.submitting} \subseteq BOOLEAN
  /\ dialog.n \in {0, dialogs} /\ dialogs \in 0 .. MaxDialogs
  /\ \A d \in creating : d.n \in 1 .. dialogs /\ d.step \in {"create", "media", "done"}

\* A text, of the composer or of a dialog, is taken once by the API and once more for
\* every error that the agent saw for it: no click, no late answer, no chat that changes
\* below the composer posts it again (Composer.tsx:57-62, 84-108; NewChatDialog.tsx:75-99).
RepeatsFollowErrors == \A t \in DOMAIN texts : posted[t] <= 1 + errors[t]

\* What was written as a private note goes to WhatsApp only if the agent took it along
\* into the reply tab, however replies, quotes and suggestions come in between
\* (Composer.tsx:70-75, 110-116).
NotesStayInside ==
  [][Served /\ submission.as = "reply" /\ submission.text # 0 =>
       LET t == texts[submission.text] IN t.as = "reply" \/ t.taken]_composerVars

\* compact-composer-new-conversations-design.md says that duplicate submission is
\* prevented in the UI and API: a retry has a key of its own, and after a lost answer, or
\* an attachment that failed, the text is posted again.
PostedOnce == \A t \in DOMAIN texts : posted[t] <= 1

\* A text is sent to the chat it was written for, or suggested for.  The composer keeps it
\* when another chat comes on screen.
TextsStayInTheirChat ==
  [][Served /\ submission.text # 0 => texts[submission.text].for = submission.to]_composerVars

\* A dialog is closed by the agent or by its own command; a command that was cancelled
\* closes the dialog that is open when it ends.
DialogsCloseThemselves ==
  [][\A d \in creating, c \in Chats : Created(d, c) => dialog.n \in {0, d.n}]_composerVars
=============================================================================
