----------------------------- MODULE LinkScreen -----------------------------
(***************************************************************************)
(* The screen that links a phone (apps/web/src/views/PhonesView.tsx), with *)
(* the workspace's only phone: the status the tab last read, the QR it     *)
(* shows, what its effects and its interval start by themselves, and the   *)
(* requests of both and of the buttons.  The phone, as the API sees it,    *)
(* changes by itself and by these requests.  A QR is known by its number.  *)
(***************************************************************************)
EXTENDS Naturals, Sequences

LOCAL INSTANCE SequencesExt

CONSTANTS
  MaxQrs,         \* bound on the QRs issued
  MaxLinkCalls,   \* bound on the requests in flight
  MaxPhoneMoves,  \* bound on the changes of the phone by itself
  MaxLinkFaults   \* bound on failed requests

ASSUME LinkAssumption == {MaxQrs, MaxLinkCalls, MaxPhoneMoves, MaxLinkFaults} \subseteq Nat

VARIABLES
  device,      \* phone_instances.status; "none" before there is one
  moves,
  issued,      \* QRs issued so far, of which the last one links
  phoneRead,   \* a status that was read, and has not arrived yet
  shownPhone,  \* the status in the phones property
  qrImage,     \* the QR on screen, 0 for none
  asked,       \* autoQrRequestedPhones has the phone
  autoSynced,  \* autoSyncedPhones has it
  linkCalls,   \* requests in flight
  actionKey,   \* the button that is disabled
  chatsSynced, \* chats were synced while the screen was open
  failureTold, \* the screen has told of a failure
  unlinks,     \* connected phones were unlinked without the agent's consent
  linkFaults

linkVars == <<device, moves, issued, phoneRead, shownPhone, qrImage, asked, autoSynced,
              linkCalls, actionKey, chatsSynced, failureTold, unlinks, linkFaults>>

Statuses == {"none", "qr_required", "disconnected", "syncing", "connected", "degraded"}
Unlinked == {"qr_required", "disconnected"}
Buttons == {"link", "connect", "repair", "sync", "status"}
Background == {"autoQr", "poll", "autoSync"}

\* The answer: a QR, or 0, and a status.
LinkCall == [op : Buttons \cup Background, at : {"create", "connect", "repair", "ask", "sync", "done"},
             qr : Nat, status : Statuses, ok : BOOLEAN]
NewLinkCall(op, at) == [op |-> op, at |-> at, qr |-> 0, status |-> "none", ok |-> TRUE]

LinkFault == linkFaults < MaxLinkFaults /\ linkFaults' = linkFaults + 1

-----------------------------------------------------------------------------
(* Rendering: the effects that follow another status or another QR. *)

\* The QR is asked for by itself, and not again before that request came to nothing.
Wanted(status, image) ==
  /\ status # shownPhone \/ image # qrImage
  /\ status \in Unlinked /\ image = 0
  /\ ~asked

\* rest, key: the calls and the disabled button where nothing is asked.
Render(status, image, rest, key) ==
  /\ shownPhone' = status /\ qrImage' = image
  /\ IF Wanted(status, image)
     THEN /\ Len(rest) < MaxLinkCalls
          /\ asked' = TRUE /\ actionKey' = "autoQr"
          /\ linkCalls' = Append(rest, NewLinkCall("autoQr", "connect"))
     ELSE linkCalls' = rest /\ actionKey' = key /\ UNCHANGED asked

\* Without another status or QR.
Stay(rest) == linkCalls' = rest /\ UNCHANGED <<shownPhone, qrImage, asked>>

ReadPhone ==
  /\ phoneRead' = device
  /\ UNCHANGED <<device, moves, issued, shownPhone, qrImage, asked, autoSynced, linkCalls,
                 actionKey, chatsSynced, failureTold, unlinks, linkFaults>>

ShowPhone ==
  /\ phoneRead # "none"
  /\ Render(phoneRead, qrImage, linkCalls, actionKey)
  /\ phoneRead' = "none"
  /\ UNCHANGED <<device, moves, issued, autoSynced, chatsSynced, failureTold, unlinks,
                 linkFaults>>

-----------------------------------------------------------------------------
(* What starts requests. *)

\* The buttons the screen has in the status it shows.
Offered ==
  CASE shownPhone \in {"none"} \cup Unlinked -> {"link"}
    [] shownPhone = "connected" -> {"sync", "repair", "status"}
    [] OTHER -> {"connect", "status"}

FirstStep(op) ==
  CASE op = "link" -> IF shownPhone = "none" THEN "create" ELSE "connect"
    [] op = "status" -> "ask"
    [] OTHER -> op

Press(op) ==
  /\ op \in Offered /\ actionKey # op
  /\ Len(linkCalls) < MaxLinkCalls
  /\ actionKey' = op
  /\ Stay(Append(linkCalls, NewLinkCall(op, FirstStep(op))))
  /\ UNCHANGED <<device, moves, issued, phoneRead, autoSynced, chatsSynced, failureTold,
                 unlinks, linkFaults>>

\* The five second interval asks how an unlinked or importing phone is, and syncs the
\* chats of a connected one once.
Tick ==
  /\ Len(linkCalls) < MaxLinkCalls
  /\ CASE shownPhone \in {"qr_required", "syncing"} ->
            Stay(Append(linkCalls, NewLinkCall("poll", "ask"))) /\ UNCHANGED autoSynced
       [] shownPhone = "connected" ->
            /\ ~autoSynced
            /\ autoSynced' = TRUE
            /\ Stay(Append(linkCalls, NewLinkCall("autoSync", "sync")))
       [] OTHER -> FALSE
  /\ UNCHANGED <<device, moves, issued, phoneRead, actionKey, chatsSynced, failureTold,
                 unlinks, linkFaults>>

-----------------------------------------------------------------------------
(* The API serves a request. *)

Serves(k, at) == linkCalls[k].at = at /\ linkCalls[k].ok

Answer(k, at, q, s) == linkCalls' = [linkCalls EXCEPT ![k].at = at, ![k].qr = q, ![k].status = s]

CreatePhone(k) ==
  /\ Serves(k, "create")
  /\ device' = IF device = "none" THEN "qr_required" ELSE device
  /\ Answer(k, "connect", 0, "none")
  /\ UNCHANGED <<moves, issued, phoneRead, shownPhone, qrImage, asked, autoSynced,
                 actionKey, chatsSynced, failureTold, unlinks, linkFaults>>

\* A saved session resumes without a QR; startLink then pairs again.
ConnectPhone(k) ==
  LET without == IF linkCalls[k].op = "link" THEN "repair" ELSE "done" IN
  /\ Serves(k, "connect")
  /\ \/ device \in Unlinked /\ issued < MaxQrs
        /\ issued' = issued + 1 /\ device' = "qr_required" /\ Answer(k, "done", issued', "none")
     \/ device = "qr_required" /\ issued > 0
        /\ Answer(k, "done", issued, "none") /\ UNCHANGED <<issued, device>>
     \/ device = "disconnected"
        /\ device' = "connected" /\ Answer(k, without, 0, "none") /\ UNCHANGED issued
     \/ Answer(k, without, 0, "none") /\ UNCHANGED <<issued, device>>
  /\ UNCHANGED <<moves, phoneRead, shownPhone, qrImage, asked, autoSynced, actionKey,
                 chatsSynced, failureTold, unlinks, linkFaults>>

\* The link that is there ends.
RepairPhone(k) ==
  /\ Serves(k, "repair")
  /\ \/ issued < MaxQrs /\ issued' = issued + 1 /\ device' = "qr_required"
        /\ Answer(k, "done", issued', "none")
     \/ device' = "disconnected" /\ Answer(k, "done", 0, "none") /\ UNCHANGED issued
  /\ unlinks' = (unlinks \/ (device = "connected" /\ linkCalls[k].op = "link"))
  /\ UNCHANGED <<moves, phoneRead, shownPhone, qrImage, asked, autoSynced, actionKey,
                 chatsSynced, failureTold, linkFaults>>

PhoneStatus(k) ==
  /\ Serves(k, "ask")
  /\ Answer(k, "done", 0, device)
  /\ UNCHANGED <<device, moves, issued, phoneRead, shownPhone, qrImage, asked, autoSynced,
                 actionKey, chatsSynced, failureTold, unlinks, linkFaults>>

\* The import of its history goes on when the request is answered.
SyncGroups(k) ==
  /\ Serves(k, "sync")
  /\ device \in {"connected", "syncing"}
  /\ chatsSynced' = TRUE
  /\ device' \in {"syncing", "connected"}
  /\ Answer(k, "done", 0, "none")
  /\ UNCHANGED <<moves, issued, phoneRead, shownPhone, qrImage, asked, autoSynced,
                 actionKey, failureTold, unlinks, linkFaults>>

\* The gateway does not have the phone connected.
SyncRefused(k) ==
  /\ Serves(k, "sync")
  /\ device \notin {"connected", "syncing"}
  /\ linkCalls' = [linkCalls EXCEPT ![k].ok = FALSE]
  /\ UNCHANGED <<device, moves, issued, phoneRead, shownPhone, qrImage, asked, autoSynced,
                 actionKey, chatsSynced, failureTold, unlinks, linkFaults>>

LinkCallFails(k) ==
  /\ linkCalls[k].ok
  /\ LinkFault
  /\ linkCalls' = [linkCalls EXCEPT ![k].ok = FALSE]
  /\ UNCHANGED <<device, moves, issued, phoneRead, shownPhone, qrImage, asked, autoSynced,
                 actionKey, chatsSynced, failureTold, unlinks>>

-----------------------------------------------------------------------------
(* A request ends. *)

Done(k, ops) == linkCalls[k].at = "done" /\ linkCalls[k].ok /\ linkCalls[k].op \in ops

\* setActionKey(null), whichever button is disabled by now.
Enabled(op) == actionKey' = IF op \in {"poll", "autoSync"} THEN actionKey ELSE "none"

ShowQr(k) ==
  LET call == linkCalls[k]
      rest == RemoveAt(linkCalls, k)
  IN
  /\ Done(k, {"link", "connect", "repair", "autoQr"})
  /\ IF call.op = "autoQr" /\ call.qr = 0
     THEN \* "It will retry shortly."
          /\ linkCalls' = rest /\ asked' = FALSE /\ actionKey' = "none"
          /\ UNCHANGED <<shownPhone, qrImage>>
     ELSE Render(shownPhone, call.qr, rest, "none")
  /\ UNCHANGED <<device, moves, issued, phoneRead, autoSynced, chatsSynced, failureTold, unlinks,
                 linkFaults>>

MutSyncShown(s) == s = "connected" /\ shownPhone = "connected"
\* A phone that has connected gets its chats, unless that was tried.
SyncsAfter(s) == s = "connected" /\ ~autoSynced

\* A poll that finds the phone unlinked lets the next link sync again; the button does
\* not.  The sync that follows is part of the request.
ShowStatus(k) ==
  LET call == linkCalls[k] IN
  /\ Done(k, {"poll", "status"})
  /\ autoSynced' = (call.status = "connected" \/ (autoSynced /\ call.op = "status"))
  /\ IF SyncsAfter(call.status)
     THEN /\ linkCalls' = [linkCalls EXCEPT ![k].at = "sync", ![k].op =
                             IF @ = "poll" THEN "autoSync" ELSE @, ![k].status = "none"]
          /\ UNCHANGED <<shownPhone, qrImage, asked, actionKey>>
     ELSE Stay(RemoveAt(linkCalls, k)) /\ Enabled(call.op)
  /\ UNCHANGED <<device, moves, issued, phoneRead, chatsSynced, failureTold, unlinks,
                 linkFaults>>

Synced(k) ==
  /\ Done(k, {"sync", "autoSync"})
  /\ Stay(RemoveAt(linkCalls, k))
  /\ autoSynced' = (autoSynced \/ linkCalls[k].op = "sync")
  /\ Enabled(linkCalls[k].op)
  /\ UNCHANGED <<device, moves, issued, phoneRead, chatsSynced, failureTold, unlinks,
                 linkFaults>>

\* A toast or the line above the phone tells; the marks of a sync stay.
TellFailure(k) ==
  /\ ~linkCalls[k].ok
  /\ failureTold' = TRUE
  /\ linkCalls' = RemoveAt(linkCalls, k)
  /\ asked' = (asked /\ linkCalls[k].op # "autoQr")
  /\ Enabled(linkCalls[k].op)
  /\ UNCHANGED <<device, moves, issued, phoneRead, shownPhone, qrImage, autoSynced,
                 chatsSynced, unlinks, linkFaults>>

\* The phone by itself: it is scanned, imports, connects, drops, or turns stale.
PhoneMoves ==
  /\ device # "none" /\ moves < MaxPhoneMoves
  /\ \/ device = "qr_required" /\ device' \in {"syncing", "connected", "disconnected"}
     \/ device = "syncing" /\ device' \in {"connected", "disconnected", "degraded"}
     \/ device = "connected" /\ device' \in {"disconnected", "syncing", "degraded", "qr_required"}
     \/ device \in {"disconnected", "degraded"} /\ device' = "connected"
  /\ moves' = moves + 1
  /\ UNCHANGED <<issued, phoneRead, shownPhone, qrImage, asked, autoSynced, linkCalls,
                 actionKey, chatsSynced, failureTold, unlinks, linkFaults>>

-----------------------------------------------------------------------------
LinkInit ==
  /\ device \in {"none", "disconnected", "connected"}
  /\ moves = 0 /\ issued = 0 /\ linkFaults = 0
  /\ phoneRead = "none" /\ shownPhone = "none"
  /\ qrImage = 0
  /\ asked = FALSE /\ autoSynced = FALSE
  /\ linkCalls = <<>> /\ actionKey = "none"
  /\ chatsSynced = FALSE /\ failureTold = FALSE /\ unlinks = FALSE

LinkNext ==
  \/ ReadPhone \/ ShowPhone \/ Tick \/ PhoneMoves
  \/ \E op \in Buttons : Press(op)
  \/ \E k \in DOMAIN linkCalls :
       \/ CreatePhone(k) \/ ConnectPhone(k) \/ RepairPhone(k) \/ PhoneStatus(k)
       \/ SyncGroups(k) \/ SyncRefused(k) \/ LinkCallFails(k)
       \/ ShowQr(k) \/ ShowStatus(k) \/ Synced(k) \/ TellFailure(k)

LinkSpec == LinkInit /\ [][LinkNext]_linkVars

-----------------------------------------------------------------------------
LinkTypeOK ==
  /\ {device, phoneRead, shownPhone} \subseteq Statuses
  /\ issued \in 0 .. MaxQrs /\ qrImage \in 0 .. issued
  /\ {asked, autoSynced, chatsSynced, failureTold, unlinks} \subseteq BOOLEAN
  /\ linkCalls \in Seq(LinkCall) /\ Len(linkCalls) <= MaxLinkCalls
  /\ actionKey \in Buttons \cup {"none", "autoQr"}
  /\ moves \in 0 .. MaxPhoneMoves /\ linkFaults \in 0 .. MaxLinkFaults

\* However the phone's status, its reads and the QR change, the screen never has two
\* requests of its own for a QR in flight, which would start the session twice
\* (PhonesView.tsx:142-174).
OneAutoRequest ==
  \A j, k \in DOMAIN linkCalls : linkCalls[j].op = "autoQr" /\ linkCalls[k].op = "autoQr" => j = k

\* The mark that keeps the screen from syncing again stands for a sync: one that is
\* running, one that succeeded, or a failure the agent was told of, whichever of the
\* poll, the interval and the buttons set it (PhonesView.tsx:188-236, 390-401).
MarkMeansTried ==
  autoSynced => \/ chatsSynced \/ failureTold
                \/ \E k \in DOMAIN linkCalls : linkCalls[k].at = "sync" \/ ~linkCalls[k].ok

\* What the screen does by itself it does once, and not in place of what failed: both of
\* the above.
LinkScreenInv == OneAutoRequest /\ MarkMeansTried

\* Re-pairing asks the agent first, for it unlinks the device (PhonesView.tsx:348-354).
\* startLink pairs again, unasked, where the session resumed meanwhile.
UnlinkIsConfirmed == ~unlinks

\* "QR is still generating. It will retry shortly." (PhonesView.tsx:159): the effect
\* that asks runs when the status or the QR changes, and neither does.
QrIsRetried ==
  (shownPhone = "qr_required" /\ qrImage = 0 /\ ~asked) ~> (asked \/ shownPhone # "qr_required")

\* The QR on screen is the last one issued while the phone waits for it.
QrOnScreenLinks == qrImage # 0 /\ linkCalls = <<>> /\ device = "qr_required" => qrImage = issued
=============================================================================
