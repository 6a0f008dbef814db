------------------------------- MODULE Outbox -------------------------------
(***************************************************************************)
(* The path of an outbound reply: the API calls that create and cancel an  *)
(* outbox row (apps/api/src/outbox/outbox.service.ts), the BullMQ job that *)
(* carries it, the worker that dispatches it (apps/worker/src/processors/  *)
(* outbox-send.processor.ts) and the normalization of the echo that        *)
(* WhatsApp may send back (apps/worker/src/pipeline/normalize.ts).         *)
(*                                                                         *)
(* Each action is one statement the database, the queue or the gateway     *)
(* executes atomically; every interleaving between two of them is a        *)
(* behaviour.  A row, its job and its message are named by the API call    *)
(* that inserted the row.  All rows belong to one channel of one phone,    *)
(* which has one open ticket that nobody has answered yet.                 *)
(*                                                                         *)
(* Left out: message bodies, audit records, realtime notifications, the    *)
(* mapping of the channel (it does not influence the gate) and wall-clock  *)
(* time (the send delay and the retry backoff are timers that may fire at  *)
(* any moment).                                                            *)
(***************************************************************************)
EXTENDS Naturals, SendPolicy

CONSTANTS
  Requests,     \* calls of POST /outbox and POST /outbox/media
  KeyOf,        \* the idempotency key of each call
  NoKey,        \* the call carries no key
  KindOf,       \* "immediate" or "delayed" text, or "media"
  Cancels,      \* calls of POST /outbox/:id/cancel
  Workers,      \* worker processes; each runs one outbox-send job at a time
  PhoneStates,  \* the states the phone takes, Unpaired among them or not
  Unpaired,     \* the phone was stored without a provider instance id
  None,         \* no row, no worker
  MaxAttempts,  \* attempts of a BullMQ job (3 in outbox.service.ts)
  MaxStalls,    \* times BullMQ hands out a job whose lock expired
  MaxFaults,    \* bound: crashes, database errors and redelivered echoes
  ClientWrites  \* bound: whether the client writes while replies are sent

ASSUME KindAssumption ==
  KindOf \in [Requests -> {"immediate", "delayed", "media"}]
ASSUME MediaKeyAssumption ==
  \A q \in Requests : KindOf[q] = "media" => KeyOf[q] # NoKey
ASSUME PhoneAssumption == PhoneStates \subseteq PhoneStatus \cup {Unpaired}
ASSUME NoneAssumption == None \notin Requests \cup Workers
ASSUME BoundAssumption ==
  /\ MaxAttempts \in Nat \ {0}
  /\ MaxStalls \in Nat
  /\ MaxFaults \in Nat
  /\ ClientWrites \in BOOLEAN

VARIABLES
  call,       \* where each send call is
  answer,     \* the outbox id it returned
  stored,     \* the media objects in storage
  status,     \* outbox_messages.status, "none" before the insert
  stamped,    \* the rows that carry a provider message id
  job,        \* the BullMQ job of each row
  holder,     \* the worker that holds the lock of the job
  tries,      \* attempts made
  stalls,     \* times the lock expired
  at,         \* where each worker is
  row,        \* the row it works on
  saw,        \* the phone state it read
  step,       \* where each cancel call is
  target,     \* the row it cancels
  phone,      \* the state of the phone
  delivered,  \* copies of the reply WhatsApp accepted
  echo,       \* the webhook event WhatsApp sends back for the reply
  timeline,   \* sentByType of the stored message, "none" before the insert
  awaiting,   \* channels.awaitingResponseSince is set
  responded,  \* tickets.firstResponseAt of the open ticket is set
  unanswered, \* history: the client wrote after the last delivery
  faults      \* crashes, errors and redeliveries so far

apiVars     == <<call, answer, stored>>
rowVars     == <<status, stamped>>
queueVars   == <<job, holder, tries, stalls>>
workerVars  == <<at, row, saw>>
cancelVars  == <<step, target>>
gatewayVars == <<phone, delivered>>
storeVars   == <<echo, timeline, responded>>
clockVars   == <<awaiting, unanswered>>
vars == <<apiVars, rowVars, queueVars, workerVars, cancelVars, gatewayVars,
          storeVars, clockVars, faults>>

RowStatus ==
  {"waiting_delay", "pending", "sending", "sent", "failed", "cancelled",
   "policy_blocked"}

-----------------------------------------------------------------------------
TypeOK ==
  /\ call \in [Requests -> {"idle", "put", "insert", "enqueue", "done",
                            "refused", "error"}]
  /\ answer \in [Requests -> Requests \cup {None}]
  /\ stored \subseteq Requests
  /\ status \in [Requests -> RowStatus \cup {"none"}]
  /\ stamped \subseteq Requests
  /\ job \in [Requests -> {"none", "delayed", "waiting", "active", "backoff",
                           "completed", "dead", "removed"}]
  /\ holder \in [Requests -> Workers \cup {None}]
  /\ tries \in [Requests -> Nat]
  /\ stalls \in [Requests -> Nat]
  /\ at \in [Workers -> {"idle", "claim", "load", "gate", "dispatch", "stamp",
                         "record", "touch", "fail", "ack", "nack"}]
  /\ row \in [Workers -> Requests \cup {None}]
  /\ \A w \in Workers : at[w] # "idle" => row[w] \in Requests
  /\ saw \in [Workers -> PhoneStates \cup {None}]
  /\ step \in [Cancels -> {"idle", "update", "remove", "ok", "refused"}]
  /\ target \in [Cancels -> Requests \cup {None}]
  /\ phone \in PhoneStates
  /\ delivered \in [Requests -> Nat]
  /\ echo \in [Requests -> {"none", "posted", "lookup", "merge", "ghost",
                            "respond", "done"}]
  /\ timeline \in [Requests -> {"none", "dashboard_agent", "phone_user"}]
  /\ awaiting \in BOOLEAN
  /\ responded \in BOOLEAN
  /\ unanswered \in BOOLEAN
  /\ faults \in Nat

Init ==
  /\ call = [q \in Requests |-> "idle"]
  /\ answer = [q \in Requests |-> None]
  /\ stored = {}
  /\ status = [r \in Requests |-> "none"]
  /\ stamped = {}
  /\ job = [r \in Requests |-> "none"]
  /\ holder = [r \in Requests |-> None]
  /\ tries = [r \in Requests |-> 0]
  /\ stalls = [r \in Requests |-> 0]
  /\ at = [w \in Workers |-> "idle"]
  /\ row = [w \in Workers |-> None]
  /\ saw = [w \in Workers |-> None]
  /\ step = [c \in Cancels |-> "idle"]
  /\ target = [c \in Cancels |-> None]
  /\ phone \in PhoneStates
  /\ delivered = [r \in Requests |-> 0]
  /\ echo = [r \in Requests |-> "none"]
  /\ timeline = [r \in Requests |-> "none"]
  /\ awaiting = FALSE
  /\ responded = FALSE
  /\ unanswered = FALSE
  /\ faults = 0

-----------------------------------------------------------------------------
(* Creating a reply: OutboxService.send and OutboxService.sendMedia.       *)

Exists(r) == status[r] # "none"

\* The rows that carry the key of the call.
RowsWithKeyOf(q) ==
  IF KeyOf[q] = NoKey THEN {}
  ELSE {r \in Requests : Exists(r) /\ KeyOf[r] = KeyOf[q]}

\* The unique index outbox_ws_idempotency_uq refuses a second row with the key.
MutNoUniqueIndex(q) == FALSE
Conflicts(q) == RowsWithKeyOf(q) # {}

\* Where a call goes once it knows that its key is new.
FirstStep(q) == IF KindOf[q] = "media" THEN "put" ELSE "insert"

\* A viewer, a channel out of reach or a malformed attachment.
Refuse(q) ==
  /\ call[q] = "idle"
  /\ call' = [call EXCEPT ![q] = "refused"]
  /\ UNCHANGED <<answer, stored, rowVars, queueVars, workerVars, cancelVars,
                 gatewayVars, storeVars, clockVars, faults>>

\* The key is known: the call returns the row it finds and does nothing else.
FindExisting(q) ==
  /\ call[q] = "idle"
  /\ \E r \in RowsWithKeyOf(q) : answer' = [answer EXCEPT ![q] = r]
  /\ call' = [call EXCEPT ![q] = "done"]
  /\ UNCHANGED <<stored, rowVars, queueVars, workerVars, cancelVars,
                 gatewayVars, storeVars, clockVars, faults>>

\* The key is new: read the channel, then store the media or insert the row.
FindNothing(q) ==
  /\ call[q] = "idle"
  /\ RowsWithKeyOf(q) = {}
  /\ call' = [call EXCEPT ![q] = FirstStep(q)]
  /\ UNCHANGED <<answer, stored, rowVars, queueVars, workerVars, cancelVars,
                 gatewayVars, storeVars, clockVars, faults>>

PutMedia(q) ==
  /\ call[q] = "put"
  /\ stored' = stored \cup {q}
  /\ call' = [call EXCEPT ![q] = "insert"]
  /\ UNCHANGED <<answer, rowVars, queueVars, workerVars, cancelVars,
                 gatewayVars, storeVars, clockVars, faults>>

InitialStatus(q) == IF KindOf[q] = "delayed" THEN "waiting_delay" ELSE "pending"

InsertRow(q) ==
  /\ call[q] = "insert"
  /\ ~Conflicts(q)
  /\ status' = [status EXCEPT ![q] = InitialStatus(q)]
  /\ call' = [call EXCEPT ![q] = "enqueue"]
  /\ UNCHANGED <<answer, stored, stamped, queueVars, workerVars, cancelVars,
                 gatewayVars, storeVars, clockVars, faults>>

\* The insert throws: another call won the key, or the database failed, maybe
\* after it committed.  sendMedia then deletes the object, if storage lets it.
InsertThrows(q) ==
  /\ call[q] = "insert"
  /\ \/ UNCHANGED status
     \/ /\ ~Conflicts(q)
        /\ status' = [status EXCEPT ![q] = InitialStatus(q)]
  /\ stored' \in {stored, stored \ {q}}
  /\ call' = [call EXCEPT ![q] = "error"]
  /\ UNCHANGED <<answer, stamped, queueVars, workerVars, cancelVars,
                 gatewayVars, storeVars, clockVars, faults>>

\* The job is added; the audit record that follows may still fail the call.
Enqueue(q) ==
  /\ call[q] = "enqueue"
  /\ job' = [job EXCEPT ![q] =
               IF KindOf[q] = "delayed" THEN "delayed" ELSE "waiting"]
  /\ \/ /\ call' = [call EXCEPT ![q] = "done"]
        /\ answer' = [answer EXCEPT ![q] = q]
     \/ /\ call' = [call EXCEPT ![q] = "error"]
        /\ UNCHANGED answer
  /\ UNCHANGED <<stored, rowVars, holder, tries, stalls, workerVars,
                 cancelVars, gatewayVars, storeVars, clockVars, faults>>

\* The API process dies, or storage or the queue refuses, between two steps.
Abandon(q) ==
  /\ call[q] \in {"put", "insert", "enqueue"}
  /\ call' = [call EXCEPT ![q] = "error"]
  /\ UNCHANGED <<answer, stored, rowVars, queueVars, workerVars, cancelVars,
                 gatewayVars, storeVars, clockVars, faults>>

-----------------------------------------------------------------------------
(* Cancelling a reply: OutboxService.cancel reads, then writes.            *)

\* What a user may cancel and a worker may claim.
MutClaimSending == {"waiting_delay", "pending", "sending"}
MutClaimCancelled == {"waiting_delay", "pending", "cancelled"}
Claimable == {"waiting_delay", "pending"}

CancelRead(c) ==
  /\ step[c] = "idle"
  /\ \E r \in Requests :
       /\ Exists(r)
       /\ target' = [target EXCEPT ![c] = r]
       /\ step' = [step EXCEPT ![c] =
                     IF status[r] \in Claimable THEN "update" ELSE "refused"]
  /\ UNCHANGED <<apiVars, rowVars, queueVars, workerVars, gatewayVars,
                 storeVars, clockVars, faults>>

\* The update does not look at the status again.
CancelUpdate(c) ==
  /\ step[c] = "update"
  /\ status' = [status EXCEPT ![target[c]] = "cancelled"]
  /\ step' = [step EXCEPT ![c] = "remove"]
  /\ UNCHANGED <<apiVars, stamped, queueVars, workerVars, target, gatewayVars,
                 storeVars, clockVars, faults>>

\* Best effort: BullMQ refuses to remove a locked job and errors are ignored.
CancelRemove(c) ==
  /\ step[c] = "remove"
  /\ \/ UNCHANGED job
     \/ /\ job[target[c]] \in {"delayed", "waiting", "backoff"}
        /\ job' = [job EXCEPT ![target[c]] = "removed"]
  /\ step' = [step EXCEPT ![c] = "ok"]
  /\ UNCHANGED <<apiVars, rowVars, holder, tries, stalls, workerVars, target,
                 gatewayVars, storeVars, clockVars, faults>>

-----------------------------------------------------------------------------
(* The BullMQ queue.                                                       *)

\* The send delay or the retry backoff is over.
Promote(r) ==
  /\ job[r] \in {"delayed", "backoff"}
  /\ job' = [job EXCEPT ![r] = "waiting"]
  /\ UNCHANGED <<apiVars, rowVars, holder, tries, stalls, workerVars,
                 cancelVars, gatewayVars, storeVars, clockVars, faults>>

Take(w) ==
  /\ at[w] = "idle"
  /\ \E r \in Requests :
       /\ job[r] = "waiting"
       /\ job' = [job EXCEPT ![r] = "active"]
       /\ holder' = [holder EXCEPT ![r] = w]
       /\ row' = [row EXCEPT ![w] = r]
  /\ at' = [at EXCEPT ![w] = "claim"]
  /\ UNCHANGED <<apiVars, rowVars, tries, stalls, saw, cancelVars,
                 gatewayVars, storeVars, clockVars, faults>>

\* The lock expires: its worker died, or is too slow and does not know.
Stall(r) ==
  /\ job[r] = "active"
  /\ job' = [job EXCEPT ![r] = IF stalls[r] < MaxStalls THEN "waiting" ELSE "dead"]
  /\ stalls' = [stalls EXCEPT ![r] = @ + 1]
  /\ holder' = [holder EXCEPT ![r] = None]
  /\ UNCHANGED <<apiVars, rowVars, tries, workerVars, cancelVars, gatewayVars,
                 storeVars, clockVars, faults>>

\* The worker leaves its job; only the holder of the lock moves it on.
Leave(w, next, made) ==
  /\ at' = [at EXCEPT ![w] = "idle"]
  /\ row' = [row EXCEPT ![w] = None]
  /\ saw' = [saw EXCEPT ![w] = None]
  /\ IF holder[row[w]] = w
     THEN /\ job' = [job EXCEPT ![row[w]] = next]
          /\ tries' = [tries EXCEPT ![row[w]] = @ + made]
          /\ holder' = [holder EXCEPT ![row[w]] = None]
     ELSE UNCHANGED <<job, tries, holder>>
  /\ UNCHANGED <<apiVars, rowVars, stalls, cancelVars, gatewayVars,
                 storeVars, clockVars, faults>>

Complete(w) == at[w] = "ack" /\ Leave(w, "completed", 0)

\* The job threw: BullMQ runs it again after a backoff, MaxAttempts times.
Retry(w) ==
  /\ at[w] = "nack"
  /\ Leave(w, IF tries[row[w]] + 1 < MaxAttempts THEN "backoff" ELSE "dead", 1)

-----------------------------------------------------------------------------
(* Dispatching a reply: makeOutboxSendProcessor.                           *)

Goto(w, label) == at' = [at EXCEPT ![w] = label]

\* What the claim, the gate and the catch block write.
MutSentAtClaim == "sent"
ClaimedStatus == "sending"
MutVerdictAsStatus(p) == evaluateSendPolicy(ReplyInput(p, "linked_device"))
RefusedStatus(p) == IF p = Unpaired THEN "failed" ELSE "policy_blocked"
FailedStatus == "failed"

\* Where the worker goes when the send throws.
MutNoCatch == "nack"
OnThrow == "fail"

\* The conditional UPDATE ... RETURNING; an empty result ends the job.
Claim(w) ==
  /\ at[w] = "claim"
  /\ IF status[row[w]] \in Claimable
     THEN /\ status' = [status EXCEPT ![row[w]] = ClaimedStatus]
          /\ Goto(w, "load")
     ELSE /\ Goto(w, "ack")
          /\ UNCHANGED status
  /\ UNCHANGED <<apiVars, stamped, queueVars, row, saw, cancelVars,
                 gatewayVars, storeVars, clockVars, faults>>

\* Read the phone, the channel and its mapping.
Load(w) ==
  /\ at[w] = "load"
  /\ saw' = [saw EXCEPT ![w] = phone]
  /\ Goto(w, "gate")
  /\ UNCHANGED <<apiVars, rowVars, queueVars, row, cancelVars, gatewayVars,
                 storeVars, clockVars, faults>>

\* What the policy says of a single reply over a phone in state p.
Allowed(p) ==
  p # Unpaired /\ evaluateSendPolicy(ReplyInput(p, "linked_device")) = "allowed"

\* The gate judges the phone that was read, and writes the row if it refuses.
Gate(w) ==
  /\ at[w] = "gate"
  /\ IF Allowed(saw[w])
     THEN Goto(w, "dispatch") /\ UNCHANGED status
     ELSE /\ Goto(w, "ack")
          /\ status' = [status EXCEPT ![row[w]] = RefusedStatus(saw[w])]
  /\ UNCHANGED <<apiVars, stamped, queueVars, row, saw, cancelVars,
                 gatewayVars, storeVars, clockVars, faults>>

\* A reply can be handed over if it is a text or its object can be read.
Sendable(r) == KindOf[r] = "media" => r \in stored

\* The gateway call.  WhatsApp may have the message although the call throws,
\* and may or may not echo it.
Dispatch(w) ==
  /\ at[w] = "dispatch"
  /\ \/ /\ Sendable(row[w])
        /\ delivered' = [delivered EXCEPT ![row[w]] = @ + 1]
        /\ unanswered' = FALSE
        /\ \/ echo' = [echo EXCEPT ![row[w]] = "posted"]
           \/ UNCHANGED echo
        /\ Goto(w, "stamp") \/ Goto(w, OnThrow)
     \/ /\ Goto(w, OnThrow)
        /\ UNCHANGED <<delivered, unanswered, echo>>
  /\ UNCHANGED <<apiVars, rowVars, queueVars, row, saw, cancelVars, phone,
                 timeline, responded, awaiting, faults>>

\* Status "sent" and the provider message id, whatever the status is by now.
Stamp(w) ==
  /\ at[w] = "stamp"
  /\ status' = [status EXCEPT ![row[w]] = "sent"]
  /\ stamped' = stamped \cup {row[w]}
  /\ Goto(w, "record")
  /\ UNCHANGED <<apiVars, queueVars, row, saw, cancelVars, gatewayVars,
                 storeVars, clockVars, faults>>

\* The message is inserted unless the echo was first (messages_idempotency_uq).
MutMessageDropped(r, author) == UNCHANGED timeline
StoreAs(r, author) ==
  timeline' = [timeline EXCEPT ![r] = IF @ = "none" THEN author ELSE @]

Record(w) ==
  /\ at[w] = "record"
  /\ StoreAs(row[w], "dashboard_agent")
  /\ Goto(w, "touch")
  /\ UNCHANGED <<apiVars, rowVars, queueVars, row, saw, cancelVars,
                 gatewayVars, echo, responded, clockVars, faults>>

\* The channel's waiting clock is cleared.
Touch(w) ==
  /\ at[w] = "touch"
  /\ awaiting' = FALSE
  /\ Goto(w, "ack")
  /\ UNCHANGED <<apiVars, rowVars, queueVars, row, saw, cancelVars,
                 gatewayVars, storeVars, unanswered, faults>>

\* The catch block: fail() writes the status, and the job throws.
Fail(w) ==
  /\ at[w] = "fail"
  /\ status' = [status EXCEPT ![row[w]] = FailedStatus]
  /\ Goto(w, "nack")
  /\ UNCHANGED <<apiVars, stamped, queueVars, row, saw, cancelVars,
                 gatewayVars, storeVars, clockVars, faults>>

Fault == faults < MaxFaults /\ faults' = faults + 1

\* A database statement throws: after the send the catch block runs, before it
\* (and in the catch block itself) the job just throws.
DbError(w) ==
  /\ Fault
  /\ \/ /\ at[w] \in {"claim", "load", "fail"}
        /\ Goto(w, "nack")
     \/ /\ at[w] = "gate" /\ ~Allowed(saw[w])
        /\ Goto(w, "nack")
     \/ /\ at[w] \in {"stamp", "record", "touch"}
        /\ Goto(w, OnThrow)
  /\ UNCHANGED <<apiVars, rowVars, queueVars, row, saw, cancelVars,
                 gatewayVars, storeVars, clockVars>>

\* The worker process dies and is restarted; its lock stays until it expires.
Crash(w) ==
  /\ Fault
  /\ at[w] # "idle"
  /\ Goto(w, "idle")
  /\ row' = [row EXCEPT ![w] = None]
  /\ saw' = [saw EXCEPT ![w] = None]
  /\ UNCHANGED <<apiVars, rowVars, queueVars, cancelVars, gatewayVars,
                 storeVars, clockVars>>

-----------------------------------------------------------------------------
(* The echo of a delivered reply, an outbound event of the normalizer.     *)

SetEcho(r, label) == echo' = [echo EXCEPT ![r] = label]

MutStoredIfStamped(r) == r \in stamped
AlreadyStored(r) == timeline[r] # "none"

\* The message is already stored: a duplicate, nothing else happens.
EchoFind(r) ==
  /\ echo[r] = "posted"
  /\ SetEcho(r, IF AlreadyStored(r) THEN "done" ELSE "lookup")
  /\ UNCHANGED <<apiVars, rowVars, queueVars, workerVars, cancelVars,
                 gatewayVars, timeline, responded, clockVars, faults>>

EchoLookup(r) ==
  /\ echo[r] = "lookup"
  /\ SetEcho(r, IF r \in stamped THEN "merge" ELSE "ghost")
  /\ UNCHANGED <<apiVars, rowVars, queueVars, workerVars, cancelVars,
                 gatewayVars, timeline, responded, clockVars, faults>>

\* mergeOutboxEcho: one transaction over the outbox row and the message.
EchoMerge(r) ==
  /\ echo[r] = "merge"
  /\ status' = [status EXCEPT ![r] = "sent"]
  /\ StoreAs(r, "dashboard_agent")
  /\ SetEcho(r, "respond")
  /\ UNCHANGED <<apiVars, stamped, queueVars, workerVars, cancelVars,
                 gatewayVars, responded, clockVars, faults>>

\* No row carries the id: a reply somebody typed on the phone.
EchoGhost(r) ==
  /\ echo[r] = "ghost"
  /\ StoreAs(r, "phone_user")
  /\ SetEcho(r, "respond")
  /\ UNCHANGED <<apiVars, rowVars, queueVars, workerVars, cancelVars,
                 gatewayVars, responded, clockVars, faults>>

\* recordTeamResponse: the clock stops and the open ticket is stamped.
EchoRespond(r) ==
  /\ echo[r] = "respond"
  /\ awaiting' = FALSE
  /\ responded' = TRUE
  /\ SetEcho(r, "done")
  /\ UNCHANGED <<apiVars, rowVars, queueVars, workerVars, cancelVars,
                 gatewayVars, timeline, unanswered, faults>>

\* The webhook arrives again, or its job throws and BullMQ runs it again.
EchoAgain(r) ==
  /\ Fault
  /\ echo[r] \notin {"none", "posted"}
  /\ SetEcho(r, "posted")
  /\ UNCHANGED <<apiVars, rowVars, queueVars, workerVars, cancelVars,
                 gatewayVars, timeline, responded, clockVars>>

-----------------------------------------------------------------------------
(* The environment.                                                        *)

\* A status check, a disconnect or the scheduler writes another status; nothing
\* writes the provider instance id of a phone after its creation.
PhoneChanges ==
  /\ phone # Unpaired
  /\ phone' \in PhoneStates \ {phone, Unpaired}
  /\ UNCHANGED <<apiVars, rowVars, queueVars, workerVars, cancelVars,
                 delivered, storeVars, clockVars, faults>>

\* A live client message starts the clock (markAwaitingResponse).
ClientMessage ==
  /\ ClientWrites
  /\ awaiting' = TRUE
  /\ unanswered' = TRUE
  /\ UNCHANGED <<apiVars, rowVars, queueVars, workerVars, cancelVars,
                 gatewayVars, storeVars, faults>>

-----------------------------------------------------------------------------
SendStep(q) ==
  \/ Refuse(q) \/ FindExisting(q) \/ FindNothing(q) \/ PutMedia(q)
  \/ InsertRow(q) \/ InsertThrows(q) \/ Enqueue(q) \/ Abandon(q)

CancelStep(c) == CancelRead(c) \/ CancelUpdate(c) \/ CancelRemove(c)

\* What a worker process does by itself once it has a job.
Process(w) ==
  \/ Claim(w) \/ Load(w) \/ Gate(w) \/ Dispatch(w) \/ Stamp(w) \/ Record(w)
  \/ Touch(w) \/ Fail(w) \/ Complete(w) \/ Retry(w)

EchoStep(r) ==
  EchoFind(r) \/ EchoLookup(r) \/ EchoMerge(r) \/ EchoGhost(r) \/ EchoRespond(r)

Next ==
  \/ \E q \in Requests : SendStep(q)
  \/ \E c \in Cancels : CancelStep(c)
  \/ \E r \in Requests : Promote(r) \/ Stall(r)
  \/ \E w \in Workers : Take(w) \/ Process(w) \/ DbError(w) \/ Crash(w)
  \/ \E r \in Requests : EchoStep(r) \/ EchoAgain(r)
  \/ PhoneChanges
  \/ ClientMessage

Spec == Init /\ [][Next]_vars

\* Timers fire, worker processes take jobs and run them, and the normalizer
\* works off its events.  Nothing obliges a user to write, cancel or retry.
Runs ==
  \/ \E r \in Requests : Promote(r) \/ EchoStep(r)
  \/ \E w \in Workers : Take(w) \/ Process(w)

Fairness == WF_vars(Runs)


-----------------------------------------------------------------------------
(* Properties.                                                             *)

\* The worker has claimed its row and has not let go of it.
PastClaim(w) ==
  at[w] \in {"load", "gate", "dispatch", "stamp", "record", "touch", "fail"}

\* The worker may still hand the row to the gateway.
BeforeSend(w) == at[w] \in {"load", "gate", "dispatch"}

Taken(r) == \E w \in Workers : BeforeSend(w) /\ row[w] = r

\* What the workers, the calls and the echoes in progress know about the rows:
\* the inductive core of the properties below.
WorkersKnow ==
  \A w \in Workers :
    /\ PastClaim(w) => status[row[w]] \notin Claimable \cup {"none"}
    /\ BeforeSend(w) =>
         /\ delivered[row[w]] = 0
         /\ status[row[w]] \in {"sending", "cancelled"}
    /\ at[w] \in {"stamp", "record", "touch"} => delivered[row[w]] > 0
CallsKnow ==
  /\ \A q \in Requests :
       /\ call[q] \in {"idle", "put", "insert"} => status[q] = "none"
       /\ call[q] = "enqueue" => Exists(q)
  /\ \A c \in Cancels :
       step[c] \in {"update", "remove", "ok"} =>
         target[c] \in Requests /\ Exists(target[c])
RowsKnow ==
  \A r \in Requests :
    /\ delivered[r] > 0 =>
         status[r] \notin Claimable \cup {"none", "policy_blocked"}
    /\ r \in stamped => delivered[r] > 0
    /\ echo[r] # "none" => delivered[r] > 0
    /\ echo[r] = "merge" => r \in stamped

\* Whatever stalls, redeliveries, crashes, retries and cancellations happen, and
\* however many workers run, a row reaches WhatsApp at most once: the claim of
\* outbox-send.processor.ts:31 (ADR-002).
AtMostOnce == \A r \in Requests : delivered[r] <= 1

\* Two workers never work on the same claimed row, not even when the lock of a
\* slow worker expires and BullMQ gives its job to another.
OneDispatcher ==
  \A v, w \in Workers :
    PastClaim(v) /\ PastClaim(w) /\ row[v] = row[w] => v = w

\* A call answers with a row that exists and has the key of the call.
AnswersKnown ==
  \A q \in Requests :
    answer[q] # None => Exists(answer[q]) /\ KeyOf[answer[q]] = KeyOf[q]

\* The object of an attachment is in storage from before its row is inserted.
ObjectsKnown ==
  \A q \in Requests : KindOf[q] = "media" =>
    /\ call[q] \in {"insert", "enqueue"} => q \in stored
    /\ job[q] # "none" => call[q] \in {"done", "error"} /\ q \in stored

\* What every party in progress holds about its row stays true while the others
\* move: a claimed row is not handed out again, a row in front of the gateway is
\* still undelivered, and an echo only exists for a delivered reply.
Custody ==
  WorkersKnow /\ CallsKnow /\ RowsKnow /\ OneDispatcher

\* A row that the gate refused (outbox-send.processor.ts:90) was not delivered,
\* before or after the refusal.
BlockedNeverDelivered ==
  \A r \in Requests : status[r] = "policy_blocked" => delivered[r] = 0

\* A row shown as sent was delivered and carries the provider message id that
\* later revokes and quotes refer to, whoever wrote the status last.
SentWasDelivered ==
  \A r \in Requests : status[r] = "sent" => delivered[r] > 0 /\ r \in stamped

\* Calls that race with the same idempotency key leave one row, and a call that
\* returns an outbox id returns that of a row with its own key.
OneRowPerKey ==
  /\ \A q, r \in Requests :
       Exists(q) /\ Exists(r) /\ KeyOf[q] = KeyOf[r] /\ KeyOf[q] # NoKey => q = r
  /\ AnswersKnown

\* A queued attachment has its object in storage, however the calls that put
\* and clean up objects failed.
QueuedMediaHasObject ==
  \A r \in Requests : job[r] # "none" /\ KindOf[r] = "media" => r \in stored

\* A row that was claimed or cancelled never becomes claimable again, so that a
\* late worker, a retry or an echo cannot bring it back.
SettledStays ==
  [][\A r \in Requests :
       Exists(r) /\ status[r] \notin Claimable => status'[r] \notin Claimable]_vars

\* A row that cannot be claimed, that nobody has taken and that was not sent.
Stopped(r) ==
  /\ status[r] \notin Claimable \cup {"none"}
  /\ ~Taken(r)
  /\ delivered[r] = 0

\* A cancellation that is written before the claim prevents the send for good, also when
\* the job was already dequeued or could not be removed from the queue; so does whatever
\* else stopped the row.
CancelBeforeClaimHolds == [][\A r \in Requests : Stopped(r) => Stopped(r)']_vars

\* The outbox keeps the promise of SendOnce: what a row has become there is
\* read off the row, the gateway and the workers.
Fate(r) ==
  CASE delivered[r] > 0 -> "delivered"
    [] delivered[r] = 0 /\ Taken(r) -> "taken"
    [] delivered[r] = 0 /\ ~Taken(r) /\ status[r] = "none" -> "absent"
    [] delivered[r] = 0 /\ ~Taken(r) /\ status[r] \in Claimable -> "open"
    [] OTHER -> "dropped"

Promise == INSTANCE SendOnce WITH
  fate <- [r \in Requests |-> Fate(r)],
  copies <- delivered

\* Every step of the outbox is a step of SendOnce or leaves its state alone.
KeepsPromise == Promise!Spec

\* With no crash and no database error, a reply that was queued does not stay
\* on its way: it is sent, refused, failed or cancelled in the end.
QueuedSettles ==
  [](faults = 0) =>
    \A r \in Requests :
      job[r] # "none" ~>
        status[r] \in {"sent", "failed", "policy_blocked", "cancelled"}

\* With no crash and no database error, a reply the gateway took appears on the
\* timeline and stops the clock of the channel.
DispatchedIsRecorded ==
  [](faults = 0) =>
    \A w \in Workers, r \in Requests :
      at[w] = "stamp" /\ row[w] = r ~> timeline[r] # "none" /\ ~awaiting

\* A delivered reply whose echo arrives appears on the timeline, even if the
\* worker died or the gateway call timed out right after the delivery.
EchoReachesTimeline ==
  \A r \in Requests : echo[r] = "posted" ~> timeline[r] # "none"

-----------------------------------------------------------------------------
(* What documents say and the code does not do; see README.md.             *)

\* ADR-002 line 68: a cancellation that was acknowledged prevents the send.
AckedCancelPreventsSend ==
  \A c \in Cancels : step[c] = "ok" => delivered[target[c]] = 0

\* message-pipeline.md lines 70 and 164: no row is created while the policy
\* forbids to send.
CreateIsPrechecked ==
  [][\A r \in Requests : ~Exists(r) /\ status'[r] # "none" => Allowed(phone)]_vars

\* outbox-send.processor.ts line 220 and message-pipeline.md line 95: a send
\* that failed is attempted again.
FailedIsRetried ==
  \A r \in Requests :
    job[r] = "backoff" ~> Taken(r) \/ status[r] \in {"sent", "cancelled"}

\* message-pipeline.md lines 138 and 139: only a reply that somebody typed on
\* the phone is recorded as one.
GhostsComeFromThePhone == \A r \in Requests : timeline[r] # "phone_user"

\* normalize.ts lines 227 to 229: a team reply, from the dashboard or from the
\* phone, stamps the open tickets of the channel.
ReplyStampsTickets ==
  \A r \in Requests : echo[r] = "posted" ~> responded

\* drizzle-store.ts lines 437 and 438: the clock runs as long as there is a
\* client message that nobody answered.
UnansweredIsAwaiting == unanswered => awaiting
=============================================================================
