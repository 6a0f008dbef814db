------------------------------ MODULE MCPhone ------------------------------
(***************************************************************************)
(* The instance of PhoneLifecycle that TLC checks.  To keep it small, a    *)
(* behaviour is either about the session, with two sockets and nothing     *)
(* that changes the row, while a user connects and disconnects or repairs; *)
(* or about the row of a linked phone, with one socket, while a user       *)
(* connects, asks for the status, and disconnects or imports.              *)
(***************************************************************************)
EXTENDS PhoneLifecycle

CONSTANTS s1, s2

VARIABLE part

SessionParts == {"session", "repair"}
RowParts == {"row", "import"}

MCInit ==
  /\ Init /\ part \in SessionParts \cup RowParts
  /\ part \in RowParts => linked

CallsOf ==
  CASE part = "session" -> {"connect", "disconnect"}
    [] part = "repair" -> {"repair"}
    [] part = "row" -> {"connect", "status", "disconnect"}
    [] part = "import" -> {"connect", "status", "sync"}

\* Sockets are alike: a new one takes the first free place.
InOrder == line[s1] = "none" /\ line[s2] = "none" => line'[s2] = "none"

SessionPart ==
  /\ part \in SessionParts /\ InOrder
  /\ beaten' = beaten /\ call'[Beat] = NoCall /\ status' = status
  /\ \A u \in Launchers :
       call'[u] = NoCall \/ call'[u].op = "disconnect" \/ call'[u].live \in {"unknown", status}

RowPart == part \in RowParts /\ line'[s2] = "none" /\ creds' = "linked"

MCNext ==
  /\ Next /\ UNCHANGED part
  /\ \A u \in Launchers : call'[u] = NoCall \/ call'[u].op \in CallsOf
  /\ SessionPart \/ RowPart

MCSpec ==
  /\ MCInit /\ [][MCNext]_<<vars, part>>
  /\ WF_vars(part \in RowParts /\ Scheduler) /\ WF_vars(CheckHealth)
  /\ WF_vars(Relaunch /\ (part \in RowParts => line'[s2] = "none"))
=============================================================================
