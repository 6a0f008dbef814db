--------------------------- MODULE GatewaySession ---------------------------
(***************************************************************************)
(* The WhatsApp session of one phone in the gateway process                *)
(* (apps/gateway/src/session-manager.ts): how sockets are launched,        *)
(* reported, replaced and torn down.  A launch awaits the saved            *)
(* credentials before it makes its socket, and a socket reports to the     *)
(* session as long as it lives, also when another one took its place.      *)
(* WhatsApp and Baileys are external.                                      *)
(***************************************************************************)
EXTENDS Naturals

CONSTANTS
  Sockets,    \* bound on the Baileys sockets alive at a time
  Launchers,  \* requests that may start the session
  Timer,      \* the launch of the reconnect timer
  MaxSessionFaults,  \* bound on lost connections, failed launches and restarts
  NoSocket

ASSUME SessionAssumption ==
  /\ Timer \notin Launchers /\ NoSocket \notin Sockets
  /\ MaxSessionFaults \in Nat

VARIABLES
  known,     \* the manager has the session in memory
  socket,    \* this.socket
  line,      \* what each Baileys socket is doing
  sessionStatus,
  qr,        \* a QR code is on display
  rendering, \* a QR code is turned into an image
  reconnecting,  \* the reconnect timer is set
  launch,    \* where each launch is
  creds,     \* the saved credentials: "fresh" or "linked"
  linked,    \* WhatsApp has the device linked
  why,       \* history: why the session lost its last socket: the connection was lost
             \* ("relaunch" once the relaunch failed too), a logout is under way, or another
  sessionFaults

sessionVars == <<known, socket, line, sessionStatus, qr, rendering, reconnecting, launch,
                 creds, linked, why, sessionFaults>>

SessionStatus ==
  {"created", "initializing", "qr_required", "authenticating", "ready", "disconnected", "failed"}

Launches == Launchers \cup {Timer}

SessionFault == sessionFaults < MaxSessionFaults /\ sessionFaults' = sessionFaults + 1

-----------------------------------------------------------------------------
(* Launching. *)

\* start: nothing to do while there is a socket.
StartSession(k) ==
  /\ known' = TRUE
  /\ IF socket # NoSocket
       THEN UNCHANGED <<sessionStatus, launch>>
       ELSE /\ sessionStatus' = "initializing"
            /\ launch' = [launch EXCEPT ![k] = "begun"]
  /\ UNCHANGED <<socket, line, qr, rendering, reconnecting, creds, linked, why, sessionFaults>>

\* useMultiFileAuthState
ReadAuthState(k) ==
  /\ launch[k] = "begun"
  /\ launch' = [launch EXCEPT ![k] = creds]
  /\ UNCHANGED <<known, socket, line, sessionStatus, qr, rendering, reconnecting, creds, linked,
                 why, sessionFaults>>

\* makeWASocket with the credentials that were read.
MakeSocket(k) ==
  /\ launch[k] \in {"fresh", "linked"}
  /\ \E i \in Sockets :
       /\ line[i] = "none"
       /\ line' = [line EXCEPT ![i] = launch[k]]
       /\ socket' = i
  /\ launch' = [launch EXCEPT ![k] = "idle"]
  /\ UNCHANGED <<known, sessionStatus, qr, rendering, reconnecting, creds, linked, why,
                 sessionFaults>>

\* A launch throws: start marks the session failed, the timer only logs.
LaunchFails(k) ==
  /\ launch[k] # "idle"
  /\ SessionFault
  /\ launch' = [launch EXCEPT ![k] = "idle"]
  /\ why' = CASE k # Timer -> "other" [] why = "lost" -> "relaunch" [] OTHER -> why
  /\ IF k = Timer THEN UNCHANGED <<socket, sessionStatus>>
                  ELSE socket' = NoSocket /\ sessionStatus' = "failed"
  /\ UNCHANGED <<known, line, qr, rendering, reconnecting, creds, linked>>

-----------------------------------------------------------------------------
(* What the sockets report: connection.update. *)

Alive(i) == line[i] # "none"

Connecting(i) ==
  /\ line[i] \in {"fresh", "linked"} /\ ~qr
  /\ sessionStatus' = "authenticating"
  /\ UNCHANGED <<known, socket, line, qr, rendering, reconnecting, launch, creds, linked, why,
                 sessionFaults>>

ReceiveQr(i) ==
  /\ line[i] = "fresh"
  /\ rendering' = TRUE
  /\ UNCHANGED <<known, socket, line, sessionStatus, qr, reconnecting, launch, creds, linked,
                 why, sessionFaults>>

\* The image is ready some time later.
ShowQr ==
  /\ rendering
  /\ rendering' = FALSE /\ qr' = TRUE
  /\ sessionStatus' = "qr_required"
  /\ UNCHANGED <<known, socket, line, reconnecting, launch, creds, linked, why, sessionFaults>>

Open(i) ==
  /\ line[i] = "linked" /\ linked
  /\ line' = [line EXCEPT ![i] = "open"]
  /\ qr' = FALSE
  /\ sessionStatus' = "ready"
  /\ UNCHANGED <<known, socket, rendering, reconnecting, launch, creds, linked, why,
                 sessionFaults>>

MutReconnectIfOpen(i) == IF line[i] = "open" THEN TRUE ELSE reconnecting
\* scheduleReconnect sets one timer.
AfterLoss(i) == TRUE

MutCloseKeepsSocket == socket
SocketAfterClose == NoSocket

\* A socket that closes resets the session, whichever socket the session has by now.
Close(i, reason) ==
  /\ line' = [line EXCEPT ![i] = "none"]
  /\ socket' = SocketAfterClose
  /\ sessionStatus' = "disconnected"
  /\ why' = reason

\* The connection breaks, or WhatsApp replaces it.
LoseConnection(i) ==
  /\ Alive(i)
  /\ SessionFault
  /\ Close(i, "lost")
  /\ reconnecting' = AfterLoss(i)
  /\ UNCHANGED <<known, qr, rendering, launch, creds, linked>>

\* The user scans the code: the credentials are saved and WhatsApp asks for a restart.
Scan(i) ==
  /\ line[i] = "fresh" /\ qr
  /\ creds' = "linked" /\ linked' = TRUE
  /\ Close(i, "lost")
  /\ reconnecting' = TRUE
  /\ UNCHANGED <<known, qr, rendering, launch, sessionFaults>>

\* WhatsApp refuses a device that is no longer linked: no reconnect.
LoggedOut(i) ==
  /\ line[i] = "linked" /\ ~linked
  /\ Close(i, "other")
  /\ UNCHANGED <<known, qr, rendering, reconnecting, launch, creds, linked, sessionFaults>>

\* The user unlinks the device in the WhatsApp app.
Unlink ==
  /\ linked /\ sessionFaults < MaxSessionFaults /\ sessionFaults' = sessionFaults + 1
  /\ linked' = FALSE
  /\ line' = [i \in Sockets |-> IF line[i] = "open" THEN "linked" ELSE line[i]]
  /\ UNCHANGED <<known, socket, sessionStatus, qr, rendering, reconnecting, launch, creds, why>>

\* Three seconds later.
Reconnect ==
  /\ reconnecting /\ launch[Timer] = "idle"
  /\ reconnecting' = FALSE
  /\ launch' = IF socket # NoSocket \/ sessionStatus = "disconnected"
               THEN [launch EXCEPT ![Timer] = "begun"] ELSE launch
  /\ UNCHANGED <<known, socket, line, sessionStatus, qr, rendering, creds, linked, why,
                 sessionFaults>>

-----------------------------------------------------------------------------
(* Teardown. *)

\* Ending the current socket; Baileys may report that as a close without an error.
EndSocket ==
  IF socket = NoSocket
    THEN UNCHANGED <<line, socket, reconnecting>>
    ELSE /\ line' = [line EXCEPT ![socket] = "none"]
         /\ socket' = NoSocket
         /\ reconnecting' \in {reconnecting, TRUE}

StopSession ==
  /\ known
  /\ EndSocket
  /\ sessionStatus' = "disconnected"
  /\ why' = "other"
  /\ UNCHANGED <<known, qr, rendering, launch, creds, linked, sessionFaults>>

\* logout unlinks the device if there is a socket to ask through ...
LogoutSession ==
  /\ known' = TRUE
  /\ qr' = FALSE
  /\ linked' \in IF socket = NoSocket THEN {linked} ELSE {FALSE, linked}
  /\ EndSocket
  /\ why' = "logout"
  /\ UNCHANGED <<sessionStatus, rendering, launch, creds, sessionFaults>>

\* ... and removes the saved credentials.
RemoveAuthData ==
  /\ creds' = "fresh"
  /\ sessionStatus' = "disconnected"
  /\ why' = "other"
  /\ UNCHANGED <<known, socket, line, qr, rendering, reconnecting, launch, linked, sessionFaults>>

\* The gateway process dies and comes back without any session in memory.
GatewayRestarts ==
  /\ SessionFault
  /\ known' = FALSE
  /\ socket' = NoSocket
  /\ line' = [i \in Sockets |-> "none"]
  /\ sessionStatus' = "created"
  /\ qr' = FALSE /\ rendering' = FALSE /\ reconnecting' = FALSE
  /\ launch' = [k \in Launches |-> "idle"]
  /\ why' = "other"
  /\ UNCHANGED <<creds, linked>>

-----------------------------------------------------------------------------
SessionInit ==
  /\ known = FALSE
  /\ socket = NoSocket
  /\ line = [i \in Sockets |-> "none"]
  /\ sessionStatus = "created"
  /\ qr = FALSE /\ rendering = FALSE /\ reconnecting = FALSE
  /\ launch = [k \in Launches |-> "idle"]
  /\ creds \in {"fresh", "linked"} /\ linked = (creds = "linked")
  /\ why = "other"
  /\ sessionFaults = 0

\* What the session does without a request.
SessionRuns ==
  \/ ReadAuthState(Timer) \/ MakeSocket(Timer) \/ LaunchFails(Timer)
  \/ \E i \in Sockets : \/ Connecting(i) \/ ReceiveQr(i) \/ Open(i) \/ LoseConnection(i)
                        \/ Scan(i) \/ LoggedOut(i)
  \/ ShowQr \/ Unlink \/ Reconnect

-----------------------------------------------------------------------------
SessionTypeOK ==
  /\ {known, qr, rendering, reconnecting, linked} \subseteq BOOLEAN
  /\ socket \in Sockets \cup {NoSocket}
  /\ line \in [Sockets -> {"none", "fresh", "linked", "open"}]
  /\ sessionStatus \in SessionStatus
  /\ launch \in [Launches -> {"idle", "begun", "fresh", "linked"}]
  /\ creds \in {"fresh", "linked"}
  /\ why \in {"lost", "relaunch", "logout", "other"}
  /\ sessionFaults \in 0 .. MaxSessionFaults

\* However launches overlap and sockets outlive each other, requests never go to a
\* dead socket, and outside of a logout a session that calls itself ready has an open
\* one, if not always the one the requests go to (session-manager.ts:784).
SessionIsHonest ==
  /\ socket # NoSocket => Alive(socket)
  /\ sessionStatus = "ready" /\ why # "logout" =>
       \E i \in Sockets : line[i] = "open" \/ (line[i] = "linked" /\ ~linked)

\* A session that lost its connection by itself gets a socket again, unless its
\* launch fails, somebody intervenes, or its status has moved on: the timer relaunches
\* a disconnected session only (session-manager.ts:280, 418).
LinkComesBack ==
  (why = "lost" /\ socket = NoSocket /\ sessionStatus = "disconnected")
    ~> (socket # NoSocket \/ why # "lost" \/ sessionStatus # "disconnected")

\* session-manager.ts:280 promises more: a close that is not a logout is transient and
\* is always followed by a reconnect.  A launch of the timer that throws is only logged.
ReconnectsByItself ==
  (why = "lost" /\ socket = NoSocket) ~> (socket # NoSocket \/ why \notin {"lost", "relaunch"})
=============================================================================
