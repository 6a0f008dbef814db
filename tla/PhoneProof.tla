------------------------------ MODULE PhoneProof ------------------------------
(***************************************************************************)
(* The session of a phone is honest about its sockets, and the row only    *)
(* ever has a status of the list, for any number of sockets, requests and  *)
(* users.                                                                  *)
(***************************************************************************)
EXTENDS PhoneLifecycle, TLAPS

-----------------------------------------------------------------------------
(* The session in the gateway. *)

\* Requests that are made of the session, and what it does by itself.
SessionStep ==
  \/ \E k \in Launches : StartSession(k) \/ ReadAuthState(k) \/ MakeSocket(k) \/ LaunchFails(k)
  \/ \E i \in Sockets : \/ Connecting(i) \/ ReceiveQr(i) \/ Open(i) \/ LoseConnection(i)
                        \/ Scan(i) \/ LoggedOut(i)
  \/ ShowQr \/ Unlink \/ Reconnect
  \/ StopSession \/ LogoutSession \/ RemoveAuthData \/ GatewayRestarts

SessionInv == SessionTypeOK /\ SessionIsHonest

LineStates == {"none", "fresh", "linked", "open"}
LaunchStates == {"idle", "begun", "fresh", "linked"}

\* The flags, what the sockets and launches are, and what the status says have types of
\* their own.
FlagsOK == /\ known \in BOOLEAN /\ qr \in BOOLEAN /\ rendering \in BOOLEAN
           /\ reconnecting \in BOOLEAN /\ linked \in BOOLEAN
LinesOK == /\ socket \in Sockets \cup {NoSocket}
           /\ line \in [Sockets -> LineStates] /\ launch \in [Launches -> LaunchStates]
LabelsOK == /\ sessionStatus \in SessionStatus /\ creds \in {"fresh", "linked"}
            /\ why \in {"lost", "relaunch", "logout", "other"}
            /\ sessionFaults \in 0 .. MaxSessionFaults

LEMMA TypesByParts == SessionTypeOK <=> FlagsOK /\ LinesOK /\ LabelsOK
  BY DEF SessionTypeOK, FlagsOK, LinesOK, LabelsOK, LineStates, LaunchStates

LEMMA FlagsKept == FlagsOK /\ SessionStep => FlagsOK'
<1> SUFFICES ASSUME FlagsOK, SessionStep PROVE FlagsOK'
  OBVIOUS
<1>1. CASE \E k \in Launches : StartSession(k) \/ ReadAuthState(k) \/ MakeSocket(k) \/ LaunchFails(k)
  BY <1>1 DEF FlagsOK, StartSession, ReadAuthState, MakeSocket, LaunchFails
<1>2. CASE \E i \in Sockets : \/ Connecting(i) \/ ReceiveQr(i) \/ Open(i) \/ LoseConnection(i)
                              \/ Scan(i) \/ LoggedOut(i)
  BY <1>2 DEF FlagsOK, Connecting, ReceiveQr, Open, LoseConnection, Scan, LoggedOut, Close, AfterLoss
<1>3. CASE ShowQr \/ Unlink \/ Reconnect
  BY <1>3 DEF FlagsOK, ShowQr, Unlink, Reconnect
<1>4. CASE StopSession \/ LogoutSession
  BY <1>4 DEF FlagsOK, StopSession, LogoutSession, EndSocket
<1>5. CASE RemoveAuthData \/ GatewayRestarts
  BY <1>5 DEF FlagsOK, RemoveAuthData, GatewayRestarts
<1> QED  BY <1>1, <1>2, <1>3, <1>4, <1>5 DEF SessionStep

LEMMA LinesKept == LinesOK /\ LabelsOK /\ SessionStep => LinesOK'
<1> SUFFICES ASSUME LinesOK, LabelsOK, SessionStep PROVE LinesOK'
  OBVIOUS
<1>1. CASE \E k \in Launches : StartSession(k) \/ ReadAuthState(k) \/ MakeSocket(k) \/ LaunchFails(k)
  BY <1>1 DEF LinesOK, LabelsOK, LineStates, LaunchStates, StartSession, ReadAuthState, MakeSocket,
              LaunchFails
<1>2. CASE \E i \in Sockets : \/ Connecting(i) \/ ReceiveQr(i) \/ Open(i) \/ LoseConnection(i)
                              \/ Scan(i) \/ LoggedOut(i)
  BY <1>2 DEF LinesOK, LineStates, Connecting, ReceiveQr, Open, LoseConnection, Scan, LoggedOut,
              Close, SocketAfterClose
<1>3. CASE ShowQr \/ Unlink \/ Reconnect
  BY <1>3 DEF LinesOK, LineStates, LaunchStates, Launches, ShowQr, Unlink, Reconnect
<1>4. CASE StopSession \/ LogoutSession
  BY <1>4 DEF LinesOK, LineStates, StopSession, LogoutSession, EndSocket
<1>5. CASE RemoveAuthData \/ GatewayRestarts
  BY <1>5 DEF LinesOK, LineStates, LaunchStates, RemoveAuthData, GatewayRestarts
<1> QED  BY <1>1, <1>2, <1>3, <1>4, <1>5 DEF SessionStep

LEMMA LabelsKept == LabelsOK /\ SessionStep => LabelsOK'
<1> SUFFICES ASSUME LabelsOK, SessionStep PROVE LabelsOK'
  OBVIOUS
<1>0. SessionFault => sessionFaults' \in 0 .. MaxSessionFaults
  BY SessionAssumption DEF LabelsOK, SessionFault
<1>1. CASE \E k \in Launches : StartSession(k) \/ ReadAuthState(k) \/ MakeSocket(k) \/ LaunchFails(k)
  BY <1>0, <1>1 DEF LabelsOK, SessionStatus, StartSession, ReadAuthState, MakeSocket, LaunchFails
<1>2. CASE \E i \in Sockets : \/ Connecting(i) \/ ReceiveQr(i) \/ Open(i) \/ LoseConnection(i)
                              \/ Scan(i) \/ LoggedOut(i)
  BY <1>0, <1>2 DEF LabelsOK, SessionStatus, Connecting, ReceiveQr, Open, LoseConnection, Scan,
                    LoggedOut, Close
<1>3. CASE ShowQr \/ Unlink \/ Reconnect
  BY <1>0, <1>3 DEF LabelsOK, SessionStatus, SessionFault, ShowQr, Unlink, Reconnect
<1>4. CASE StopSession \/ LogoutSession
  BY <1>4 DEF LabelsOK, SessionStatus, StopSession, LogoutSession
<1>5. CASE RemoveAuthData \/ GatewayRestarts
  BY <1>0, <1>5 DEF LabelsOK, SessionStatus, RemoveAuthData, GatewayRestarts
<1> QED  BY <1>1, <1>2, <1>3, <1>4, <1>5 DEF SessionStep

\* What socket the requests go to, and what the status says of the sockets.
SocketLives == socket # NoSocket => Alive(socket)
Linked(i) == line[i] = "open" \/ (line[i] = "linked" /\ ~linked)
ReadyIsLinked == sessionStatus = "ready" /\ why # "logout" => \E i \in Sockets : Linked(i)

LEMMA SocketKept == LinesOK /\ SocketLives /\ SessionStep => SocketLives'
<1> SUFFICES ASSUME LinesOK, SocketLives, SessionStep PROVE SocketLives'
  OBVIOUS
<1>1. CASE \E k \in Launches : StartSession(k) \/ ReadAuthState(k) \/ MakeSocket(k) \/ LaunchFails(k)
  BY <1>1 DEF LinesOK, SocketLives, Alive, StartSession, ReadAuthState, MakeSocket, LaunchFails
<1>2. CASE \E i \in Sockets : \/ Connecting(i) \/ ReceiveQr(i) \/ Open(i) \/ LoseConnection(i)
                              \/ Scan(i) \/ LoggedOut(i)
  BY <1>2 DEF LinesOK, SocketLives, Alive, Connecting, ReceiveQr, Open, LoseConnection, Scan,
              LoggedOut, Close, SocketAfterClose
<1>3. CASE ShowQr \/ Unlink \/ Reconnect
  BY <1>3 DEF LinesOK, SocketLives, Alive, ShowQr, Unlink, Reconnect
<1>4. CASE StopSession \/ LogoutSession
  BY <1>4 DEF SocketLives, Alive, StopSession, LogoutSession, EndSocket
<1>5. CASE RemoveAuthData \/ GatewayRestarts
  BY <1>5 DEF SocketLives, Alive, RemoveAuthData, GatewayRestarts
<1> QED  BY <1>1, <1>2, <1>3, <1>4, <1>5 DEF SessionStep

\* Only an open socket makes the session ready; a socket that closes, whichever it is, a stop
\* and a launch that fails take that back, and scanning a code, which links the device again,
\* closes its socket.
LEMMA ReadyKept == LinesOK /\ FlagsOK /\ ReadyIsLinked /\ SessionStep => ReadyIsLinked'
<1> SUFFICES ASSUME LinesOK, FlagsOK, ReadyIsLinked, SessionStep PROVE ReadyIsLinked'
  OBVIOUS
<1>1. CASE \E k \in Launches : StartSession(k) \/ ReadAuthState(k)
  BY <1>1 DEF ReadyIsLinked, Linked, StartSession, ReadAuthState
<1>2. CASE \E k \in Launches : MakeSocket(k)
  <2>1. \A i \in Sockets : Linked(i) => Linked(i)'
    BY <1>2 DEF LinesOK, Linked, MakeSocket
  <2> QED  BY <1>2, <2>1 DEF ReadyIsLinked, MakeSocket
<1>3. CASE \E k \in Launches : LaunchFails(k)
  BY <1>3 DEF ReadyIsLinked, Linked, LaunchFails
<1>4. ASSUME NEW i \in Sockets, Open(i) PROVE ReadyIsLinked'
  <2>1. Linked(i)'
    BY <1>4 DEF LinesOK, Linked, Open
  <2> QED  BY <2>1 DEF ReadyIsLinked
<1>5. ASSUME NEW i \in Sockets,
             Connecting(i) \/ ReceiveQr(i) \/ LoseConnection(i) \/ Scan(i) \/ LoggedOut(i)
      PROVE  ReadyIsLinked'
  BY <1>5 DEF ReadyIsLinked, Linked, Connecting, ReceiveQr, LoseConnection, Scan, LoggedOut, Close
<1>6. CASE Unlink
  <2>1. \A i \in Sockets : Linked(i) => Linked(i)'
    BY <1>6 DEF LinesOK, Linked, Unlink
  <2> QED  BY <1>6, <2>1 DEF ReadyIsLinked, Unlink
<1>7. CASE ShowQr \/ Reconnect
  BY <1>7 DEF ReadyIsLinked, Linked, ShowQr, Reconnect
<1>8. CASE StopSession \/ LogoutSession \/ RemoveAuthData \/ GatewayRestarts
  BY <1>8 DEF ReadyIsLinked, StopSession, LogoutSession, RemoveAuthData, GatewayRestarts
<1> QED  BY <1>1, <1>2, <1>3, <1>4, <1>5, <1>6, <1>7, <1>8 DEF SessionStep

LEMMA HonestByParts == SessionIsHonest <=> SocketLives /\ ReadyIsLinked
  BY DEF SessionIsHonest, SocketLives, ReadyIsLinked, Linked

LEMMA SessionKept == SessionInv /\ SessionStep => SessionInv'
<1> SUFFICES ASSUME SessionInv, SessionStep PROVE SessionInv'
  OBVIOUS
<1>1. SocketLives /\ ReadyIsLinked /\ FlagsOK /\ LinesOK /\ LabelsOK
  BY TypesByParts, HonestByParts DEF SessionInv
<1>2. (FlagsOK /\ LinesOK /\ LabelsOK)'
  BY <1>1, FlagsKept, LinesKept, LabelsKept
<1>3. (SocketLives /\ ReadyIsLinked)'
  BY <1>1, SocketKept, ReadyKept
<1>4. SessionTypeOK'
  BY <1>2 DEF SessionTypeOK, FlagsOK, LinesOK, LabelsOK, LineStates, LaunchStates
<1>5. SessionIsHonest'
  BY <1>3 DEF SessionIsHonest, SocketLives, ReadyIsLinked, Linked
<1> QED  BY <1>4, <1>5 DEF SessionInv

LEMMA SessionInitHolds == SessionInit => SessionInv
<1> SUFFICES ASSUME SessionInit PROVE SessionInv
  OBVIOUS
<1>1. LabelsOK
  BY SessionAssumption DEF SessionInit, LabelsOK, SessionStatus
<1>2. FlagsOK
  BY DEF SessionInit, FlagsOK
<1>3. LinesOK
  BY DEF SessionInit, LinesOK, LineStates, LaunchStates
<1>4. SessionIsHonest
  BY DEF SessionInit, SessionIsHonest
<1> QED  BY <1>1, <1>2, <1>3, <1>4, TypesByParts DEF SessionInv

-----------------------------------------------------------------------------
(* The row and the calls that write it. *)

RowOK == /\ status \in PhoneStatus /\ age \in 0 .. StaleAfter
         /\ importing \subseteq Launchers /\ beaten \in BOOLEAN

\* A call that was answered knows a status to write, and the heartbeat imports nothing.
Fits(c, r) == /\ r \in Call \cup {NoCall}
              /\ r # NoCall /\ r.at = "answered" => r.live \in PhoneStatus
              /\ r # NoCall /\ c = Beat => r.op = "beat"
CallsOK == /\ call \in [Callers -> Call \cup {NoCall}]
           /\ \A c \in Callers : Fits(c, call[c])

PhoneIInv == SessionInv /\ RowOK /\ CallsOK

LEMMA CallMoves ==
  ASSUME CallsOK, NEW c \in Callers, NEW r, Fits(c, r), call' = [call EXCEPT ![c] = r]
  PROVE  CallsOK'
  BY DEF CallsOK, Fits

LEMMA EndFits == \A c \in Callers : Fits(c, NoCall)
  BY DEF Fits

\* A call that goes on keeps what it is; its answer is a status.
LEMMA GoesOn ==
  ASSUME CallsOK, NEW c \in Callers, call[c] # NoCall,
         NEW stage \in {"loaded", "wiping", "wiped", "started", "asking"}, Go(c, stage)
  PROVE  CallsOK'
<1> DEFINE r == [call[c] EXCEPT !.at = stage]
<1>1. call[c] \in Call /\ (c = Beat => call[c].op = "beat")
  BY DEF CallsOK, Fits
<1>2. r \in Call /\ r.at = stage /\ r.op = call[c].op
  BY <1>1 DEF Call
<1>3. call' = [call EXCEPT ![c] = r]
  BY DEF Go
<1> HIDE DEF r
<1>4. Fits(c, r)
  BY <1>1, <1>2 DEF Fits
<1> QED  BY <1>3, <1>4, CallMoves

LEMMA IsAnswered ==
  ASSUME CallsOK, NEW c \in Callers, call[c] # NoCall, NEW live \in PhoneStatus, Answered(c, live)
  PROVE  CallsOK'
<1> DEFINE r == [call[c] EXCEPT !.at = "answered", !.live = live]
<1>1. call[c] \in Call /\ (c = Beat => call[c].op = "beat")
  BY DEF CallsOK, Fits
<1>2. r \in Call /\ r.live = live /\ r.op = call[c].op
  BY <1>1 DEF Call
<1>3. call' = [call EXCEPT ![c] = r]
  BY DEF Answered
<1> HIDE DEF r
<1>4. Fits(c, r)
  BY <1>1, <1>2 DEF Fits
<1> QED  BY <1>3, <1>4, CallMoves

LEMMA Begins ==
  ASSUME CallsOK, NEW c \in Callers,
         NEW op \in {"connect", "repair", "status", "sync", "disconnect", "beat"},
         NEW stage \in {"loaded", "asking"}, c = Beat => op = "beat",
         call' = [call EXCEPT ![c] = NewCall(op, stage)]
  PROVE  CallsOK'
<1>1. /\ NewCall(op, stage) \in Call
      /\ NewCall(op, stage).at = stage /\ NewCall(op, stage).op = op
  BY DEF NewCall, Call
<1>2. Fits(c, NewCall(op, stage))
  BY <1>1 DEF Fits
<1> QED  BY <1>2, CallMoves

LEMMA Ends ==
  ASSUME CallsOK, NEW c \in Callers, call' = [call EXCEPT ![c] = NoCall]
  PROVE  CallsOK'
  BY CallMoves, EndFits

LEMMA MappedFits == Mapped \in PhoneStatus
  BY DEF Mapped, PhoneStatus

\* What a call writes is a status, also where it keeps the one that it loaded.
LEMMA WriteKept ==
  ASSUME RowOK, CallsOK, NEW c \in Callers, Write(c)
  PROVE  RowOK' /\ CallsOK'
<1>1. call[c] # NoCall /\ call[c].live \in PhoneStatus /\ (c = Beat => call[c].op = "beat")
  BY DEF Write, CallsOK, Fits
<1>2. status' \in PhoneStatus
  BY <1>1 DEF Write, Shown, PhoneStatus
<1>3. importing' \subseteq Launchers
  BY <1>1 DEF Write, RowOK, Callers
<1>4. age' \in 0 .. StaleAfter
  BY PhoneAssumption DEF Write
<1>5. CallsOK'
  BY Ends DEF Write
<1> QED  BY <1>2, <1>3, <1>4, <1>5 DEF Write, RowOK

LEMMA AskKept ==
  ASSUME CallsOK, NEW c \in Callers, Ask(c) \/ CallFails(c)
  PROVE  CallsOK'
  BY IsAnswered, Ends, MappedFits DEF Ask, CallFails, At

LEMMA UserCallsKept ==
  ASSUME RowOK, CallsOK, UserCalls
  PROVE  RowOK' /\ CallsOK' /\ (SessionStep \/ UNCHANGED sessionVars)
<1> PICK u \in Launchers :
    \/ \E op \in {"connect", "repair", "status", "sync", "disconnect"} : Begin(u, op)
    \/ Wipe(u) \/ Start(u) \/ Launch(u) \/ WaitForQr(u) \/ Ask(u) \/ FetchChats(u)
    \/ Disconnect(u) \/ Write(u) \/ CallFails(u) \/ ImportEnds(u)
  BY DEF UserCalls
<1>0. u \in Callers /\ u # Beat /\ u \in Launches
  BY PhoneAssumption DEF Callers, Launches
<1>1. ASSUME NEW op \in {"connect", "repair", "status", "sync", "disconnect"}, Begin(u, op)
      PROVE  RowOK' /\ CallsOK' /\ UNCHANGED sessionVars
  BY <1>0, <1>1, Begins DEF Begin, RowOK
<1>2. CASE Wipe(u)
  <2>1. CallsOK'
    BY <1>0, <1>2, GoesOn DEF Wipe, At
  <2>2. SessionStep
    BY <1>2 DEF Wipe, SessionStep
  <2> QED  BY <1>2, <2>1, <2>2 DEF Wipe, RowOK
<1>3. CASE Start(u)
  <2>1. CallsOK'
    BY <1>0, <1>3, GoesOn DEF Start, At
  <2>2. SessionStep
    BY <1>0, <1>3 DEF Start, SessionStep
  <2> QED  BY <1>3, <2>1, <2>2 DEF Start, RowOK
<1>4. CASE Launch(u)
  <2>1. CallsOK'
    BY <1>0, <1>4, Ends DEF Launch, CallsOK
  <2>2. SessionStep
    BY <1>0, <1>4 DEF Launch, SessionStep
  <2> QED  BY <1>4, <2>1, <2>2 DEF Launch, RowOK
<1>5. CASE WaitForQr(u)
  <2>1. call[u] # NoCall
    BY <1>5 DEF WaitForQr, At
  <2>2. CallsOK'
    BY <1>0, <1>5, <2>1, GoesOn, IsAnswered DEF WaitForQr, PhoneStatus
  <2> QED  BY <1>5, <2>2 DEF WaitForQr, RowOK
<1>6. CASE Ask(u) \/ CallFails(u)
  BY <1>0, <1>6, AskKept DEF Ask, CallFails, RowOK
<1>7. CASE FetchChats(u)
  <2>1. CallsOK'
    BY <1>0, <1>7, IsAnswered DEF FetchChats, At, PhoneStatus
  <2> QED  BY <1>7, <2>1 DEF FetchChats, RowOK
<1>8. CASE Disconnect(u)
  <2>1. CallsOK'
    BY <1>0, <1>8, IsAnswered DEF Disconnect, At, PhoneStatus
  <2> QED  BY <1>8, <2>1 DEF Disconnect, RowOK, SessionStep
<1>9. CASE Write(u)
  BY <1>0, <1>9, WriteKept DEF Write
<1>10. CASE ImportEnds(u)
  <2>1. status' \in PhoneStatus /\ age' \in 0 .. StaleAfter
    BY <1>10, PhoneAssumption DEF ImportEnds, Finish, RowOK, PhoneStatus
  <2> QED  BY <1>10, <2>1 DEF ImportEnds, RowOK, CallsOK
<1> QED  BY <1>1, <1>2, <1>3, <1>4, <1>5, <1>6, <1>7, <1>8, <1>9, <1>10

LEMMA SchedulerKept ==
  ASSUME RowOK, CallsOK, Scheduler \/ CheckHealth
  PROVE  RowOK' /\ CallsOK' /\ UNCHANGED sessionVars
<1>0. Beat \in Callers
  BY DEF Callers
<1>1. CASE Heartbeat
  <2>1. CallsOK'
    <3>1. CASE call' = call
      BY <3>1 DEF CallsOK
    <3>2. CASE call' # call
      BY <1>0, <1>1, <3>2, Begins DEF Heartbeat
    <3> QED  BY <3>1, <3>2
  <2> QED  BY <1>1, <2>1 DEF Heartbeat, RowOK
<1>2. CASE Ask(Beat) \/ CallFails(Beat)
  BY <1>0, <1>2, AskKept DEF Ask, CallFails, RowOK
<1>3. CASE Write(Beat)
  BY <1>0, <1>3, WriteKept DEF Write
<1>4. CASE Tick
  <2>1. age' \in 0 .. StaleAfter
    BY <1>4, PhoneAssumption DEF Tick, RowOK
  <2> QED  BY <1>4, <2>1 DEF Tick, RowOK, CallsOK
<1>5. CASE CheckHealth
  <2>1. age' \in 0 .. StaleAfter
    BY <1>5, PhoneAssumption DEF CheckHealth
  <2> QED  BY <1>5, <2>1 DEF CheckHealth, RowOK, CallsOK, PhoneStatus
<1> QED  BY <1>1, <1>2, <1>3, <1>4, <1>5 DEF Scheduler

LEMMA CrashKept ==
  ASSUME RowOK, CallsOK, ApiCrashes
  PROVE  RowOK' /\ CallsOK' /\ UNCHANGED sessionVars
<1>1. CallsOK'
  BY DEF CallsOK, Fits, ApiCrashes
<1> QED  BY <1>1 DEF ApiCrashes, RowOK

\* However requests, calls, timers and failures overlap, requests go to a live socket only, a
\* session that says it is ready has an open one, and the row has a status of the list.
THEOREM PhoneHolds == Spec => []PhoneInv
<1>1. Init => PhoneIInv
  <2> SUFFICES ASSUME Init PROVE PhoneIInv
    OBVIOUS
  <2>1. RowOK
    <3>1. 0 \in 0 .. StaleAfter
      BY PhoneAssumption
    <3> QED  BY <3>1 DEF Init, RowOK, PhoneStatus
  <2>2. CallsOK
    BY DEF Init, CallsOK, Fits
  <2> QED  BY <2>1, <2>2, SessionInitHolds DEF Init, PhoneIInv
<1>2. PhoneIInv /\ [Next]_vars => PhoneIInv'
  <2> SUFFICES ASSUME PhoneIInv, [Next]_vars PROVE PhoneIInv'
    OBVIOUS
  <2>1. UNCHANGED sessionVars => SessionInv'
    BY DEF PhoneIInv, SessionInv, SessionTypeOK, SessionIsHonest, Alive, sessionVars
  <2>2. UNCHANGED phoneVars => RowOK' /\ CallsOK'
    BY DEF PhoneIInv, RowOK, CallsOK, phoneVars
  <2>3. CASE UserCalls
    BY <2>1, <2>3, UserCallsKept, SessionKept DEF PhoneIInv
  <2>4. CASE ApiCrashes
    BY <2>1, <2>4, CrashKept DEF PhoneIInv
  <2>5. CASE Scheduler \/ CheckHealth
    BY <2>1, <2>5, SchedulerKept DEF PhoneIInv
  <2>6. CASE Gateway
    <3>1. SessionStep
      BY <2>6 DEF Gateway, SessionRuns, SessionStep, Launches
    <3> QED  BY <2>2, <2>6, <3>1, SessionKept DEF PhoneIInv, Gateway
  <2>7. CASE UNCHANGED vars
    BY <2>1, <2>2, <2>7 DEF vars, PhoneIInv
  <2> QED  BY <2>3, <2>4, <2>5, <2>6, <2>7 DEF Next
<1>3. PhoneIInv => PhoneInv
  BY DEF PhoneIInv, PhoneInv, SessionInv, TypeOK, RowOK, CallsOK
<1> QED  BY <1>1, <1>2, <1>3, PTL DEF Spec
=============================================================================
