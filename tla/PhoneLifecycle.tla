--------------------------- MODULE PhoneLifecycle ---------------------------
(***************************************************************************)
(* The row of one phone in phone_instances: the calls of the phones        *)
(* service (apps/api/src/phones/phones.service.ts), each of which loads    *)
(* the row, asks the gateway and writes without a condition, and the       *)
(* scheduler's heartbeat and health check (apps/scheduler/src/jobs.ts),    *)
(* around the gateway session of GatewaySession.                           *)
(***************************************************************************)
EXTENDS GatewaySession

CONSTANTS
  Beat,       \* the heartbeat job
  StaleAfter  \* heartbeat periods after which an untouched row is stale

ASSUME PhoneAssumption ==
  /\ Beat \notin Launchers \cup {Timer}
  /\ StaleAfter \in Nat \ {0}

VARIABLES
  status,     \* phone_instances.status
  age,        \* heartbeat periods since last_seen_at and updated_at were written
  call,       \* where each user's call and the heartbeat are
  importing,  \* users whose syncGroups left a history import running
  beaten      \* the heartbeat ran in this period

phoneVars == <<status, age, call, importing, beaten>>
vars == <<sessionVars, phoneVars>>

PhoneStatus == {"connected", "syncing", "disconnected", "qr_required", "degraded"}

Callers == Launchers \cup {Beat}

\* keep: the call loaded a syncing phone, and does not end that; live: what it will
\* write, once it is "answered".
Call == [op : {"connect", "repair", "status", "sync", "disconnect", "beat"},
         at : {"loaded", "wiping", "wiped", "started", "asking", "answered"},
         keep : BOOLEAN, live : PhoneStatus \cup {"unknown"}]

NoCall == [op |-> "none"]

NewCall(op, stage) ==
  [op |-> op, at |-> stage, live |-> "unknown",
   keep |-> op \in {"status", "beat"} /\ status = "syncing"]

\* mapStatus of the adapter, then STATUS_MAP.
Mapped ==
  CASE sessionStatus = "ready" -> "connected"
    [] sessionStatus \in {"initializing", "authenticating"} -> "syncing"
    [] sessionStatus \in {"created", "qr_required"} -> "qr_required"
    [] sessionStatus = "disconnected" -> "disconnected"
    [] OTHER -> "degraded"

At(c, op, stage) == call[c] # NoCall /\ call[c].op \in op /\ call[c].at = stage

Go(c, stage) == call' = [call EXCEPT ![c].at = stage]

Answered(c, live) == call' = [call EXCEPT ![c].at = "answered", ![c].live = live]

-----------------------------------------------------------------------------
(* The calls of the phones service. *)

\* One call of a user at a time, and none while a launch of an abandoned one runs.
Begin(u, op) ==
  /\ call[u] = NoCall /\ launch[u] = "idle"
  /\ call' = [call EXCEPT ![u] = NewCall(op, IF op = "status" THEN "asking" ELSE "loaded")]
  /\ UNCHANGED <<sessionVars, status, age, importing, beaten>>

\* Repair logs the device out and clears its credentials before it starts again.
Wipe(u) ==
  /\ \/ At(u, {"repair"}, "loaded") /\ LogoutSession /\ Go(u, "wiping")
     \/ At(u, {"repair"}, "wiping") /\ RemoveAuthData /\ Go(u, "wiped")
  /\ UNCHANGED <<status, age, importing, beaten>>

Start(u) ==
  /\ At(u, {"connect"}, "loaded") \/ At(u, {"repair"}, "wiped")
  /\ StartSession(u)
  /\ Go(u, "started")
  /\ UNCHANGED <<status, age, importing, beaten>>

\* The start request is answered when the launch ends; one that throws fails the call.
Launch(u) ==
  /\ \/ (ReadAuthState(u) \/ MakeSocket(u)) /\ UNCHANGED call
     \/ LaunchFails(u) /\ call' = [call EXCEPT ![u] = NoCall]
  /\ UNCHANGED <<status, age, importing, beaten>>

\* waitForQr, then connect asks for the status and repair does not.
WaitForQr(u) ==
  /\ At(u, {"connect", "repair"}, "started") /\ launch[u] = "idle" /\ known
  /\ CASE qr -> Answered(u, "qr_required")
       [] ~qr /\ call[u].op = "connect" -> Go(u, "asking")
       [] OTHER -> Answered(u, "disconnected")
  /\ UNCHANGED <<sessionVars, status, age, importing, beaten>>

\* getConnectionInfo of a session the gateway has in memory.
Ask(c) ==
  /\ At(c, {"connect", "status", "beat"}, "asking") /\ known
  /\ Answered(c, Mapped)
  /\ UNCHANGED <<sessionVars, status, age, importing, beaten>>

\* fetchChats needs a ready session; without chats there is no history to import.
FetchChats(u) ==
  /\ At(u, {"sync"}, "loaded") /\ sessionStatus = "ready" /\ socket # NoSocket
  /\ \E live \in {"syncing", "connected"} : Answered(u, live)
  /\ UNCHANGED <<sessionVars, status, age, importing, beaten>>

\* Disconnect ignores what the gateway answers.
Disconnect(u) ==
  /\ At(u, {"disconnect"}, "loaded")
  /\ StopSession \/ UNCHANGED sessionVars
  /\ Answered(u, "disconnected")
  /\ UNCHANGED <<status, age, importing, beaten>>

MutKeepSyncing(c) == IF call[c].keep THEN "syncing" ELSE call[c].live
\* A session that answers does not end an import the call knew of.
Shown(c) ==
  IF call[c].keep /\ call[c].live = "connected" THEN "syncing" ELSE call[c].live

\* The update that ends a call, whatever the row says by now.
Write(c) ==
  /\ call[c] # NoCall /\ call[c].at = "answered"
  /\ status' = Shown(c)
  /\ age' = 0
  /\ importing' = IF call[c].op = "sync" /\ call[c].live = "syncing"
                  THEN importing \cup {c} ELSE importing
  /\ call' = [call EXCEPT ![c] = NoCall]
  /\ UNCHANGED <<sessionVars, beaten>>

\* A request that fails, or a session the gateway does not know, ends the call.
CallFails(c) ==
  /\ call[c] # NoCall
  /\ call' = [call EXCEPT ![c] = NoCall]
  /\ UNCHANGED <<sessionVars, status, age, importing, beaten>>

\* finishHistorySync
Finish(outcome) ==
  IF status = "syncing" THEN status' = outcome /\ age' = 0 ELSE UNCHANGED <<status, age>>

ImportEnds(u) ==
  /\ u \in importing
  /\ importing' = importing \ {u}
  /\ \E outcome \in {"connected", "degraded"} : Finish(outcome)
  /\ UNCHANGED <<sessionVars, call, beaten>>

\* The API dies with its calls and imports.
ApiCrashes ==
  /\ importing' = {}
  /\ call' = [c \in Callers |-> IF c = Beat THEN call[c] ELSE NoCall]
  /\ UNCHANGED <<sessionVars, status, age, beaten>>

-----------------------------------------------------------------------------
(* The scheduler. *)

\* refreshConnectedPhones loads the phones believed to be connected or syncing.
Heartbeat ==
  /\ ~beaten /\ call[Beat] = NoCall
  /\ beaten' = TRUE
  /\ call' = IF status \in {"connected", "syncing"}
             THEN [call EXCEPT ![Beat] = NewCall("beat", "asking")] ELSE call
  /\ UNCHANGED <<sessionVars, status, age, importing>>

\* The time from one heartbeat to the next; only a connected or syncing row is ever
\* asked for its age, and whatever makes it one writes it.
Tick ==
  /\ beaten /\ call[Beat] = NoCall
  /\ beaten' = FALSE
  /\ age' = IF status \in {"connected", "syncing"} /\ age < StaleAfter THEN age + 1 ELSE age
  /\ UNCHANGED <<sessionVars, status, call, importing>>

\* checkPhoneHealth
CheckHealth ==
  /\ status \in {"connected", "syncing"} /\ age = StaleAfter
  /\ status' = "degraded" /\ age' = 0
  /\ UNCHANGED <<sessionVars, call, importing, beaten>>

-----------------------------------------------------------------------------
Init ==
  /\ SessionInit
  /\ status = "qr_required" /\ age = 0
  /\ call = [c \in Callers |-> NoCall]
  /\ importing = {}
  /\ beaten = FALSE

UserCalls ==
  \E u \in Launchers :
    \/ \E op \in {"connect", "repair", "status", "sync", "disconnect"} : Begin(u, op)
    \/ Wipe(u) \/ Start(u) \/ Launch(u) \/ WaitForQr(u) \/ Ask(u) \/ FetchChats(u)
    \/ Disconnect(u) \/ Write(u) \/ CallFails(u) \/ ImportEnds(u)

Scheduler == Heartbeat \/ Ask(Beat) \/ Write(Beat) \/ CallFails(Beat) \/ Tick

Gateway ==
  /\ SessionRuns \/ GatewayRestarts
  /\ UNCHANGED phoneVars

Next == UserCalls \/ ApiCrashes \/ Scheduler \/ CheckHealth \/ Gateway

Relaunch == (Reconnect \/ ReadAuthState(Timer) \/ MakeSocket(Timer)) /\ UNCHANGED phoneVars

\* The scheduler's timers keep firing, and the gateway's reconnect runs.
Spec == Init /\ [][Next]_vars /\ WF_vars(Scheduler) /\ WF_vars(CheckHealth) /\ WF_vars(Relaunch)

-----------------------------------------------------------------------------
TypeOK ==
  /\ SessionTypeOK
  /\ status \in PhoneStatus
  /\ age \in 0 .. StaleAfter
  /\ call \in [Callers -> Call \cup {NoCall}]
  /\ importing \subseteq Launchers
  /\ beaten \in BOOLEAN

\* The row and its session, whose status is what a socket of it last was
\* (SessionIsHonest in GatewaySession.tla).
PhoneInv == TypeOK /\ SessionIsHonest

Dead == {"created", "qr_required", "disconnected", "failed"}

\* A phone whose session is gone for good is not shown as connected or syncing for
\* good: the heartbeat reads the session, and where nobody answers the row goes stale
\* and the health check degrades it, whatever calls and imports were in flight
\* (jobs.ts:133-147, 203-206).
ShownLinkIsReal ==
  <>[](sessionStatus \in Dead) => <>[](status \notin {"connected", "syncing"})

\* jobs.ts:204 promises that a phone stuck syncing past the stale threshold is degraded.
\* The heartbeat keeps the row fresh, also when the import it waits for is gone.
StuckSyncingDegrades ==
  (status = "syncing" /\ importing = {} /\ sessionStatus = "ready")
    ~> (status # "syncing" \/ importing # {} \/ sessionStatus # "ready")
=============================================================================
