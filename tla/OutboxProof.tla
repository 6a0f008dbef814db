---------------------------- MODULE OutboxProof ----------------------------
(***************************************************************************)
(* Proofs about Outbox.tla for any number of calls, cancellations and      *)
(* workers, any number of attempts, stalls and faults.  The invariant that *)
(* carries them is Custody: what each party in progress may rely on while  *)
(* the others move.                                                        *)
(***************************************************************************)
EXTENDS Outbox, TLAPS

USE DEF apiVars, rowVars, queueVars, workerVars, cancelVars, gatewayVars, storeVars,
      clockVars

-----------------------------------------------------------------------------
(* Types.                                                                  *)

LEMMA InitTypes == Init => TypeOK
<1> SUFFICES ASSUME Init PROVE TypeOK
  OBVIOUS
<1>1. /\ stored = {} /\ stamped = {} /\ phone \in PhoneStates /\ faults = 0
      /\ awaiting = FALSE /\ responded = FALSE /\ unanswered = FALSE
      /\ call = [q \in Requests |-> "idle"]
      /\ answer = [q \in Requests |-> None]
      /\ status = [r \in Requests |-> "none"]
  BY DEF Init
<1>2. /\ job = [r \in Requests |-> "none"]
      /\ holder = [r \in Requests |-> None]
      /\ tries = [r \in Requests |-> 0]
      /\ stalls = [r \in Requests |-> 0]
      /\ at = [w \in Workers |-> "idle"]
      /\ row = [w \in Workers |-> None]
      /\ saw = [w \in Workers |-> None]
  BY DEF Init
<1>3. /\ step = [c \in Cancels |-> "idle"]
      /\ target = [c \in Cancels |-> None]
      /\ delivered = [r \in Requests |-> 0]
      /\ echo = [r \in Requests |-> "none"]
      /\ timeline = [r \in Requests |-> "none"]
  BY DEF Init
<1> QED  BY <1>1, <1>2, <1>3 DEF TypeOK

LEMMA StepTypes == TypeOK /\ [Next]_vars => TypeOK'
<1> SUFFICES ASSUME TypeOK, [Next]_vars PROVE TypeOK'
  OBVIOUS
<1>1. ASSUME NEW q \in Requests, SendStep(q)
      PROVE  TypeOK'
  <2>1. CASE Refuse(q)
    BY <2>1 DEF TypeOK, Refuse
  <2>2. CASE FindExisting(q)
    BY <2>2 DEF TypeOK, FindExisting, RowsWithKeyOf
  <2>3. CASE FindNothing(q)
    BY <2>3 DEF TypeOK, FindNothing, FirstStep
  <2>4. CASE PutMedia(q)
    BY <2>4 DEF TypeOK, PutMedia
  <2>5. CASE InsertRow(q)
    BY <2>5 DEF TypeOK, InsertRow, InitialStatus, RowStatus
  <2>6. CASE InsertThrows(q)
    BY <2>6 DEF TypeOK, InsertThrows, InitialStatus, RowStatus
  <2>7. CASE Enqueue(q)
    BY <2>7 DEF TypeOK, Enqueue
  <2>8. CASE Abandon(q)
    BY <2>8 DEF TypeOK, Abandon
  <2> QED  BY <1>1, <2>1, <2>2, <2>3, <2>4, <2>5, <2>6, <2>7, <2>8 DEF SendStep
<1>2. ASSUME NEW c \in Cancels, CancelStep(c)
      PROVE  TypeOK'
  <2>1. CASE CancelRead(c)
    BY <2>1 DEF TypeOK, CancelRead
  <2>2. CASE CancelUpdate(c)
    BY <2>2 DEF TypeOK, CancelUpdate, RowStatus
  <2>3. CASE CancelRemove(c)
    BY <2>3 DEF TypeOK, CancelRemove
  <2> QED  BY <1>2, <2>1, <2>2, <2>3 DEF CancelStep
<1>3. ASSUME NEW r \in Requests, Promote(r) \/ Stall(r)
      PROVE  TypeOK'
  BY <1>3 DEF TypeOK, Promote, Stall
<1>4. ASSUME NEW w \in Workers, Take(w) \/ DbError(w) \/ Crash(w)
      PROVE  TypeOK'
  <2>1. CASE Take(w)
    BY <2>1 DEF TypeOK, Take
  <2>2. CASE DbError(w)
    BY <2>2 DEF TypeOK, DbError, Goto, Fault, OnThrow
  <2>3. CASE Crash(w)
    BY <2>3 DEF TypeOK, Crash, Goto, Fault
  <2> QED  BY <1>4, <2>1, <2>2, <2>3
<1>5. ASSUME NEW w \in Workers, Process(w)
      PROVE  TypeOK'
  <2>1. CASE Claim(w)
    BY <2>1 DEF TypeOK, Claim, Goto, ClaimedStatus, RowStatus
  <2>2. CASE Load(w)
    BY <2>2 DEF TypeOK, Load, Goto
  <2>3. CASE Gate(w)
    BY <2>3 DEF TypeOK, Gate, Goto, RefusedStatus, RowStatus
  <2>4. CASE Dispatch(w)
    <3>1. /\ delivered' \in [Requests -> Nat]
          /\ unanswered' \in BOOLEAN
      <4>1. delivered \in [Requests -> Nat]
        BY DEF TypeOK
      <4>2. \/ delivered' = [delivered EXCEPT ![row[w]] = @ + 1]
            \/ UNCHANGED delivered
        BY <2>4 DEF Dispatch
      <4>3. delivered' \in [Requests -> Nat]
        BY <4>1, <4>2
      <4>4. unanswered' = FALSE \/ unanswered' = unanswered
        BY <2>4 DEF Dispatch
      <4> QED  BY <4>3, <4>4 DEF TypeOK
    <3>2. echo' \in [Requests -> {"none", "posted", "lookup", "merge", "ghost",
                                 "respond", "done"}]
      BY <2>4 DEF TypeOK, Dispatch
    <3>3. /\ at' \in [Workers -> {"idle", "claim", "load", "gate", "dispatch",
                                  "stamp", "record", "touch", "fail", "ack",
                                  "nack"}]
          /\ \A v \in Workers : at'[v] # "idle" => row[v] \in Requests
      BY <2>4 DEF TypeOK, Dispatch, Goto, OnThrow
    <3> QED  BY <2>4, <3>1, <3>2, <3>3 DEF TypeOK, Dispatch
  <2>5. CASE Stamp(w)
    BY <2>5 DEF TypeOK, Stamp, Goto, RowStatus
  <2>6. CASE Record(w)
    BY <2>6 DEF TypeOK, Record, Goto, StoreAs
  <2>7. CASE Touch(w)
    BY <2>7 DEF TypeOK, Touch, Goto
  <2>8. CASE Fail(w)
    BY <2>8 DEF TypeOK, Fail, Goto, FailedStatus, RowStatus
  <2>9. CASE Complete(w)
    BY <2>9 DEF TypeOK, Complete, Leave
  <2>10. CASE Retry(w)
    BY <2>10 DEF TypeOK, Retry, Leave
  <2> QED  BY <1>5, <2>1, <2>2, <2>3, <2>4, <2>5, <2>6, <2>7, <2>8, <2>9, <2>10 DEF Process
<1>6. ASSUME NEW r \in Requests, EchoStep(r) \/ EchoAgain(r)
      PROVE  TypeOK'
  <2>1. CASE EchoFind(r)
    BY <2>1 DEF TypeOK, EchoFind, SetEcho
  <2>2. CASE EchoLookup(r)
    BY <2>2 DEF TypeOK, EchoLookup, SetEcho
  <2>3. CASE EchoMerge(r)
    BY <2>3 DEF TypeOK, EchoMerge, SetEcho, StoreAs, RowStatus
  <2>4. CASE EchoGhost(r)
    BY <2>4 DEF TypeOK, EchoGhost, SetEcho, StoreAs
  <2>5. CASE EchoRespond(r)
    BY <2>5 DEF TypeOK, EchoRespond, SetEcho
  <2>6. CASE EchoAgain(r)
    BY <2>6 DEF TypeOK, EchoAgain, SetEcho, Fault
  <2> QED  BY <1>6, <2>1, <2>2, <2>3, <2>4, <2>5, <2>6 DEF EchoStep
<1>7. CASE PhoneChanges
  BY <1>7 DEF TypeOK, PhoneChanges
<1>8. CASE ClientMessage
  BY <1>8 DEF TypeOK, ClientMessage
<1>9. CASE UNCHANGED vars
  BY <1>9 DEF TypeOK, vars
<1> QED  BY <1>1, <1>2, <1>3, <1>4, <1>5, <1>6, <1>7, <1>8, <1>9 DEF Next
-----------------------------------------------------------------------------
(* The inductive invariant.                                                *)

LEMMA InitCustody == Init => Custody
  BY DEF Init, Custody, WorkersKnow, CallsKnow, RowsKnow, OneDispatcher,
         PastClaim, BeforeSend, Exists

LEMMA StepCustody == TypeOK /\ Custody /\ [Next]_vars => Custody'
<1> SUFFICES ASSUME TypeOK, Custody, [Next]_vars PROVE Custody'
  OBVIOUS
<1> USE DEF TypeOK, Custody, WorkersKnow, CallsKnow, RowsKnow, OneDispatcher,
            PastClaim, BeforeSend, Exists, Claimable, RowStatus
<1>1. ASSUME NEW q \in Requests, SendStep(q)
      PROVE  Custody'
  <2>1. CASE Refuse(q)
    BY <2>1 DEF Refuse
  <2>2. CASE FindExisting(q)
    BY <2>2 DEF FindExisting
  <2>3. CASE FindNothing(q)
    BY <2>3 DEF FindNothing, FirstStep
  <2>4. CASE PutMedia(q)
    BY <2>4 DEF PutMedia
  <2>5. CASE InsertRow(q)
    BY <2>5 DEF InsertRow, InitialStatus
  <2>6. CASE InsertThrows(q)
    BY <2>6 DEF InsertThrows, InitialStatus
  <2>7. CASE Enqueue(q)
    BY <2>7 DEF Enqueue
  <2>8. CASE Abandon(q)
    BY <2>8 DEF Abandon
  <2> QED  BY <1>1, <2>1, <2>2, <2>3, <2>4, <2>5, <2>6, <2>7, <2>8 DEF SendStep
<1>2. ASSUME NEW c \in Cancels, CancelStep(c)
      PROVE  Custody'
  <2>1. CASE CancelRead(c)
    BY <2>1 DEF CancelRead
  <2>2. CASE CancelUpdate(c)
    BY <2>2 DEF CancelUpdate
  <2>3. CASE CancelRemove(c)
    BY <2>3 DEF CancelRemove
  <2> QED  BY <1>2, <2>1, <2>2, <2>3 DEF CancelStep
<1>3. ASSUME NEW r \in Requests, Promote(r) \/ Stall(r)
      PROVE  Custody'
  BY <1>3 DEF Promote, Stall
<1>4. ASSUME NEW w \in Workers, Take(w) \/ DbError(w) \/ Crash(w)
      PROVE  Custody'
  <2>1. CASE Take(w)
    BY <2>1 DEF Take
  <2>2. CASE DbError(w)
    BY <2>2 DEF DbError, Goto, OnThrow
  <2>3. CASE Crash(w)
    BY <2>3 DEF Crash, Goto
  <2> QED  BY <1>4, <2>1, <2>2, <2>3
<1>5. ASSUME NEW w \in Workers, Process(w)
      PROVE  Custody'
  <2>1. CASE Claim(w)
    BY <2>1 DEF Claim, Goto, ClaimedStatus
  <2>2. CASE Load(w)
    BY <2>2 DEF Load, Goto
  <2>3. CASE Gate(w)
    BY <2>3 DEF Gate, Goto, RefusedStatus
  <2>4. CASE Dispatch(w)
    BY <2>4 DEF Dispatch, Goto, OnThrow
  <2>5. CASE Stamp(w)
    BY <2>5 DEF Stamp, Goto
  <2>6. CASE Record(w)
    BY <2>6 DEF Record, Goto
  <2>7. CASE Touch(w)
    BY <2>7 DEF Touch, Goto
  <2>8. CASE Fail(w)
    BY <2>8 DEF Fail, Goto, FailedStatus
  <2>9. CASE Complete(w)
    BY <2>9 DEF Complete, Leave
  <2>10. CASE Retry(w)
    BY <2>10 DEF Retry, Leave
  <2> QED  BY <1>5, <2>1, <2>2, <2>3, <2>4, <2>5, <2>6, <2>7, <2>8, <2>9, <2>10 DEF Process
<1>6. ASSUME NEW r \in Requests, EchoStep(r) \/ EchoAgain(r)
      PROVE  Custody'
  <2>1. CASE EchoFind(r)
    BY <2>1 DEF EchoFind, SetEcho
  <2>2. CASE EchoLookup(r)
    BY <2>2 DEF EchoLookup, SetEcho
  <2>3. CASE EchoMerge(r)
    BY <2>3 DEF EchoMerge, SetEcho
  <2>4. CASE EchoGhost(r)
    BY <2>4 DEF EchoGhost, SetEcho
  <2>5. CASE EchoRespond(r)
    BY <2>5 DEF EchoRespond, SetEcho
  <2>6. CASE EchoAgain(r)
    BY <2>6 DEF EchoAgain, SetEcho
  <2> QED  BY <1>6, <2>1, <2>2, <2>3, <2>4, <2>5, <2>6 DEF EchoStep
<1>7. CASE PhoneChanges
  BY <1>7 DEF PhoneChanges
<1>8. CASE ClientMessage
  BY <1>8 DEF ClientMessage
<1>9. CASE UNCHANGED vars
  BY <1>9 DEF vars
<1> QED  BY <1>1, <1>2, <1>3, <1>4, <1>5, <1>6, <1>7, <1>8, <1>9 DEF Next
-----------------------------------------------------------------------------
(* Types and custody, for every behaviour.                                 *)

\* Every variable keeps its type, and a worker that is not idle has a row.
THEOREM TypeCorrect == Spec => []TypeOK
<1>1. Init => TypeOK
  BY InitTypes
<1>2. TypeOK /\ [Next]_vars => TypeOK'
  BY StepTypes
<1> QED  BY <1>1, <1>2, PTL DEF Spec

\* Stalls, redeliveries, crashes and cancellations never take from a worker, a
\* call or an echo what it relies on: the claim of outbox-send.processor.ts:31
\* is exclusive, and a claimed row is undelivered until its worker sends it.
THEOREM CustodyHolds == Spec => []Custody
<1>1. Init => Custody
  BY InitCustody
<1>2. TypeOK /\ Custody /\ [Next]_vars => Custody'
  BY StepCustody
<1> QED  BY <1>1, <1>2, TypeCorrect, PTL DEF Spec

\* No two workers are ever past the claim of the same row.
THEOREM DispatchersAreAlone == Spec => []OneDispatcher
<1>1. Custody => OneDispatcher
  BY DEF Custody
<1> QED  BY <1>1, CustodyHolds, PTL

\* Only the gateway call of a worker delivers.
LEMMA DeliveryWriters ==
  ASSUME [Next]_vars
  PROVE  UNCHANGED delivered \/ \E w \in Workers : Dispatch(w)
  BY DEF Next, SendStep, CancelStep, Process, EchoStep, vars,
         Refuse, FindExisting, FindNothing, PutMedia, InsertRow, InsertThrows,
         Enqueue, Abandon, CancelRead, CancelUpdate, CancelRemove, Promote,
         Stall, Take, DbError, Crash, Claim, Load, Gate, Stamp, Record, Touch,
         Fail, Complete, Retry, Leave, EchoFind, EchoLookup, EchoMerge,
         EchoGhost, EchoRespond, EchoAgain, PhoneChanges, ClientMessage

\* A row reaches WhatsApp at most once, for every number of workers, attempts,
\* stalls, crashes and cancellations.
THEOREM SentAtMostOnce == Spec => []AtMostOnce
<1>1. Init => AtMostOnce
  BY DEF Init, AtMostOnce
<1>2. TypeOK /\ Custody /\ AtMostOnce /\ [Next]_vars => AtMostOnce'
  <2> SUFFICES ASSUME TypeOK, Custody, AtMostOnce, [Next]_vars
               PROVE  AtMostOnce'
    OBVIOUS
  <2>1. CASE UNCHANGED delivered
    BY <2>1 DEF AtMostOnce
  <2>2. ASSUME NEW w \in Workers, Dispatch(w)
        PROVE  AtMostOnce'
    <3>1. row[w] \in Requests /\ delivered[row[w]] = 0
      BY <2>2 DEF Dispatch, TypeOK, Custody, WorkersKnow, BeforeSend
    <3>2. \/ delivered' = [delivered EXCEPT ![row[w]] = @ + 1]
          \/ UNCHANGED delivered
      BY <2>2 DEF Dispatch
    <3> QED  BY <3>1, <3>2 DEF AtMostOnce, TypeOK
  <2>3. UNCHANGED delivered \/ \E w \in Workers : Dispatch(w)
    BY DeliveryWriters
  <2> QED  BY <2>1, <2>2, <2>3
<1> QED  BY <1>1, <1>2, TypeCorrect, CustodyHolds, PTL DEF Spec

\* A row the gate refused was not delivered and never will be.
THEOREM RefusedIsNotDelivered == Spec => []BlockedNeverDelivered
<1>1. TypeOK /\ Custody => BlockedNeverDelivered
  BY DEF TypeOK, Custody, RowsKnow, BlockedNeverDelivered
<1> QED  BY <1>1, TypeCorrect, CustodyHolds, PTL

-----------------------------------------------------------------------------
(* How the status of a row moves.                                          *)

\* Every write of outbox_messages.status: the insert, the cancellation, the
\* claim, the gate, the stamp, the catch block and the merge of the echo.
LEMMA StatusWriters ==
  ASSUME [Next]_vars
  PROVE  \/ UNCHANGED <<status, stamped>>
         \/ \E q \in Requests : InsertRow(q) \/ InsertThrows(q)
         \/ \E c \in Cancels : CancelUpdate(c)
         \/ \E w \in Workers : Claim(w) \/ Gate(w) \/ Stamp(w) \/ Fail(w)
         \/ \E r \in Requests : EchoMerge(r)
  BY DEF Next, SendStep, CancelStep, Process, EchoStep, vars,
         Refuse, FindExisting, FindNothing, PutMedia, Enqueue, Abandon,
         CancelRead, CancelRemove, Promote, Stall, Take, DbError, Crash, Load,
         Dispatch, Record, Touch, Complete, Retry, Leave, EchoFind,
         EchoLookup, EchoGhost, EchoRespond, EchoAgain, PhoneChanges,
         ClientMessage

\* The life of one row: it is inserted claimable, it leaves that state by a
\* claim or a cancellation, and nothing leads back.
LEMMA StatusMoves ==
  ASSUME TypeOK, Custody, [Next]_vars, NEW r \in Requests
  PROVE  \/ status'[r] = status[r]
         \/ status[r] = "none" /\ status'[r] \in Claimable
         \/ Exists(r) /\ status'[r] = "cancelled"
         \/ status[r] \in Claimable /\ status'[r] = "sending"
         \/ /\ Exists(r) /\ status[r] \notin Claimable
            /\ status'[r] \in {"policy_blocked", "failed"}
         \/ /\ Exists(r) /\ status[r] \notin Claimable
            /\ status'[r] = "sent" /\ delivered[r] > 0 /\ r \in stamped'
<1> USE DEF TypeOK, Exists, Claimable
<1>1. ASSUME NEW q \in Requests, InsertRow(q) \/ InsertThrows(q),
             status'[r] # status[r]
      PROVE  status[r] = "none" /\ status'[r] \in Claimable
  BY <1>1 DEF InsertRow, InsertThrows, InitialStatus, Custody, CallsKnow
<1>2. ASSUME NEW c \in Cancels, CancelUpdate(c), status'[r] # status[r]
      PROVE  Exists(r) /\ status'[r] = "cancelled"
  BY <1>2 DEF CancelUpdate, Custody, CallsKnow
<1>3. ASSUME NEW w \in Workers, Claim(w), status'[r] # status[r]
      PROVE  status[r] \in Claimable /\ status'[r] = "sending"
  BY <1>3 DEF Claim, ClaimedStatus
<1>4. ASSUME NEW w \in Workers, Gate(w) \/ Fail(w), status'[r] # status[r]
      PROVE  /\ Exists(r) /\ status[r] \notin Claimable
             /\ status'[r] \in {"policy_blocked", "failed"}
  BY <1>4 DEF Gate, Fail, RefusedStatus, FailedStatus, Custody, WorkersKnow,
              PastClaim
<1>5. ASSUME NEW w \in Workers, Stamp(w), status'[r] # status[r]
      PROVE  /\ Exists(r) /\ status[r] \notin Claimable
             /\ status'[r] = "sent" /\ delivered[r] > 0 /\ r \in stamped'
  BY <1>5 DEF Stamp, Custody, WorkersKnow, PastClaim
<1>6. ASSUME NEW e \in Requests, EchoMerge(e), status'[r] # status[r]
      PROVE  /\ Exists(r) /\ status[r] \notin Claimable
             /\ status'[r] = "sent" /\ delivered[r] > 0 /\ r \in stamped'
  BY <1>6 DEF EchoMerge, Custody, RowsKnow
<1> QED  BY StatusWriters, <1>1, <1>2, <1>3, <1>4, <1>5, <1>6

\* Deliveries are never taken back, and neither are provider message ids.
LEMMA DeliveriesGrow ==
  ASSUME TypeOK, [Next]_vars, NEW r \in Requests
  PROVE  /\ delivered'[r] >= delivered[r]
         /\ r \in stamped => r \in stamped'
<1>1. UNCHANGED delivered \/ \E w \in Workers : Dispatch(w)
  BY DeliveryWriters
<1>2. delivered'[r] >= delivered[r]
  <2>1. ASSUME NEW w \in Workers, Dispatch(w)
        PROVE  \/ delivered' = [delivered EXCEPT ![row[w]] = @ + 1]
               \/ UNCHANGED delivered
    BY <2>1 DEF Dispatch
  <2> QED  BY <1>1, <2>1 DEF TypeOK
<1>3. r \in stamped => r \in stamped'
  BY StatusWriters DEF InsertRow, InsertThrows, CancelUpdate, Claim, Gate,
                       Stamp, Fail, EchoMerge
<1> QED  BY <1>2, <1>3

\* A row that was claimed or cancelled never becomes claimable again.
THEOREM SettledForGood == Spec => SettledStays
<1>1. TypeOK /\ Custody /\ [Next]_vars =>
        [\A r \in Requests :
           Exists(r) /\ status[r] \notin Claimable
             => status'[r] \notin Claimable]_vars
  BY StatusMoves DEF Exists, Claimable
<1> QED  BY <1>1, TypeCorrect, CustodyHolds, PTL DEF Spec, SettledStays

\* A row shown as sent was delivered and carries its provider message id.
THEOREM SentIsDelivered == Spec => []SentWasDelivered
<1>1. Init => SentWasDelivered
  BY DEF Init, SentWasDelivered
<1>2. TypeOK /\ Custody /\ SentWasDelivered /\ [Next]_vars => SentWasDelivered'
  <2> SUFFICES ASSUME TypeOK, Custody, SentWasDelivered, [Next]_vars,
                      NEW r \in Requests, status'[r] = "sent"
               PROVE  delivered'[r] > 0 /\ r \in stamped'
    BY DEF SentWasDelivered
  <2>1. delivered[r] > 0 /\ r \in stamped'
    BY StatusMoves, DeliveriesGrow DEF SentWasDelivered, Claimable
  <2>2. delivered'[r] \in Nat /\ delivered[r] \in Nat
    BY StepTypes DEF TypeOK
  <2> QED  BY <2>1, <2>2, DeliveriesGrow
<1> QED  BY <1>1, <1>2, TypeCorrect, CustodyHolds, PTL DEF Spec

-----------------------------------------------------------------------------
(* Idempotency keys and media objects.                                     *)

\* The steps of the API calls, and the only ones that touch what they own.
LEMMA CallOwners ==
  ASSUME [Next]_vars
  PROVE  \/ \E q \in Requests : SendStep(q)
         \/ UNCHANGED <<call, answer, stored>>
  BY DEF Next, CancelStep, Process, EchoStep, vars, CancelRead, CancelUpdate,
         CancelRemove, Promote, Stall, Take, DbError, Crash, Claim, Load,
         Gate, Dispatch, Stamp, Record, Touch, Fail, Complete, Retry, Leave,
         EchoFind, EchoLookup, EchoMerge, EchoGhost, EchoRespond, EchoAgain,
         PhoneChanges, ClientMessage

\* A row that exists stays; a row that appears has a key no other row has.
LEMMA NewRowHasNewKey ==
  ASSUME TypeOK, Custody, [Next]_vars, NEW r \in Requests
  PROVE  /\ Exists(r) => Exists(r)'
         /\ ~Exists(r) /\ Exists(r)' =>
              /\ KeyOf[r] # NoKey =>
                   \A s \in Requests : Exists(s) => KeyOf[s] # KeyOf[r]
              /\ \A s \in Requests : s # r => status'[s] = status[s]
<1>1. Exists(r) => Exists(r)'
  BY StatusMoves DEF Exists, Claimable
<1>2. ASSUME ~Exists(r), Exists(r)'
      PROVE  InsertRow(r) \/ InsertThrows(r)
  <2>1. \/ \E q \in Requests : InsertRow(q) \/ InsertThrows(q)
        \/ \E c \in Cancels : CancelUpdate(c)
        \/ \E w \in Workers : Claim(w) \/ Gate(w) \/ Stamp(w) \/ Fail(w)
        \/ \E e \in Requests : EchoMerge(e)
    BY <1>2, StatusWriters DEF Exists
  <2>2. ASSUME NEW q \in Requests, InsertRow(q) \/ InsertThrows(q)
        PROVE  q = r
    BY <1>2, <2>2 DEF InsertRow, InsertThrows, Exists, TypeOK
  <2>3. ASSUME NEW c \in Cancels, CancelUpdate(c) PROVE FALSE
    BY <1>2, <2>3 DEF CancelUpdate, Exists, TypeOK, Custody, CallsKnow
  <2>4. ASSUME NEW w \in Workers, Claim(w) \/ Gate(w) \/ Stamp(w) \/ Fail(w)
        PROVE  FALSE
    BY <1>2, <2>4 DEF Claim, Gate, Stamp, Fail, Exists, TypeOK, Custody,
                      WorkersKnow, PastClaim, Claimable
  <2>5. ASSUME NEW e \in Requests, EchoMerge(e) PROVE FALSE
    BY <1>2, <2>5 DEF EchoMerge, Exists, TypeOK, Custody, RowsKnow
  <2> QED  BY <2>1, <2>2, <2>3, <2>4, <2>5
<1>3. ASSUME ~Exists(r), Exists(r)', KeyOf[r] # NoKey, NEW s \in Requests, Exists(s)
      PROVE  KeyOf[s] # KeyOf[r]
  BY <1>2, <1>3 DEF InsertRow, InsertThrows, Conflicts, RowsWithKeyOf, Exists,
                    TypeOK
<1>4. ASSUME ~Exists(r), Exists(r)', NEW s \in Requests, s # r
      PROVE  status'[s] = status[s]
  BY <1>2, <1>4 DEF InsertRow, InsertThrows, Exists, TypeOK
<1> QED  BY <1>1, <1>3, <1>4

\* Racing calls with one idempotency key leave one row, and a call only answers
\* with a row that carries its own key.
THEOREM KeysAreRespected == Spec => []OneRowPerKey
<1>1. Init => OneRowPerKey
  BY DEF Init, OneRowPerKey, AnswersKnown, Exists
<1>2. TypeOK /\ Custody /\ OneRowPerKey /\ [Next]_vars => OneRowPerKey'
  <2> SUFFICES ASSUME TypeOK, Custody, OneRowPerKey, [Next]_vars
               PROVE  OneRowPerKey'
    OBVIOUS
  <2>1. ASSUME NEW q \in Requests, NEW r \in Requests, Exists(q)', Exists(r)',
               KeyOf[q] = KeyOf[r], KeyOf[q] # NoKey
        PROVE  q = r
    BY <2>1, NewRowHasNewKey DEF OneRowPerKey, Exists
  <2>2. ASSUME NEW q \in Requests, answer'[q] # None
        PROVE  status'[answer'[q]] # "none" /\ KeyOf[answer'[q]] = KeyOf[q]
    <3>1. CASE answer'[q] = answer[q]
      BY <2>2, <3>1, NewRowHasNewKey
         DEF OneRowPerKey, AnswersKnown, TypeOK, Exists
    <3>2. CASE answer'[q] # answer[q]
      <4>1. PICK s \in Requests : FindExisting(s) \/ Enqueue(s)
        BY <3>2, CallOwners
           DEF SendStep, Refuse, FindNothing, PutMedia, InsertRow,
               InsertThrows, Abandon
      <4>2. s = q
        BY <3>2, <4>1 DEF FindExisting, Enqueue, TypeOK
      <4>3. /\ answer'[q] \in Requests /\ Exists(answer'[q])
            /\ KeyOf[answer'[q]] = KeyOf[q]
        BY <3>2, <4>1, <4>2 DEF FindExisting, Enqueue, RowsWithKeyOf, TypeOK,
                                Custody, CallsKnow
      <4> QED  BY <4>3, NewRowHasNewKey DEF Exists
    <3> QED  BY <3>1, <3>2
  <2> QED  BY <2>1, <2>2 DEF OneRowPerKey, AnswersKnown, Exists
<1> QED  BY <1>1, <1>2, TypeCorrect, CustodyHolds, PTL DEF Spec

\* BullMQ only locks jobs that are active, and a call that has not come to its
\* queue step has no job.
LockedIsActive ==
  /\ \A r \in Requests : holder[r] # None => job[r] = "active"
  /\ \A q \in Requests :
       call[q] \in {"idle", "put", "insert", "enqueue"} => job[q] = "none"

\* That stays so, and nothing but the queue step of a call creates a job.
LEMMA StepLocks ==
  ASSUME TypeOK, LockedIsActive, [Next]_vars
  PROVE  /\ LockedIsActive'
         /\ UNCHANGED call =>
              \A r \in Requests : job[r] = "none" => job'[r] = "none"
<1> USE DEF TypeOK, LockedIsActive
<1>1. ASSUME NEW q \in Requests, SendStep(q)
      PROVE  /\ LockedIsActive'
             /\ UNCHANGED call => UNCHANGED job
  <2>1. CASE Enqueue(q)
    BY <2>1, NoneAssumption DEF Enqueue
  <2>2. CASE ~Enqueue(q)
    BY <1>1, <2>2
       DEF SendStep, Refuse, FindExisting, FindNothing, FirstStep, PutMedia,
           InsertRow, InsertThrows, Abandon, queueVars
  <2> QED  BY <2>1, <2>2
<1>2. ASSUME NEW c \in Cancels, CancelRemove(c)
      PROVE  /\ LockedIsActive'
             /\ \A r \in Requests : job[r] = "none" => job'[r] = "none"
  BY <1>2 DEF CancelRemove, apiVars
<1>3. ASSUME NEW r \in Requests, Promote(r) \/ Stall(r)
      PROVE  /\ LockedIsActive'
             /\ \A s \in Requests : job[s] = "none" => job'[s] = "none"
  BY <1>3 DEF Promote, Stall, apiVars
<1>4. ASSUME NEW w \in Workers, Take(w)
      PROVE  /\ LockedIsActive'
             /\ \A r \in Requests : job[r] = "none" => job'[r] = "none"
  BY <1>4, NoneAssumption DEF Take, apiVars
<1>5. ASSUME NEW w \in Workers, Complete(w) \/ Retry(w)
      PROVE  /\ LockedIsActive'
             /\ \A r \in Requests : job[r] = "none" => job'[r] = "none"
  BY <1>5, NoneAssumption DEF Complete, Retry, Leave, apiVars
<1>6. CASE UNCHANGED <<call, job, holder>>
  BY <1>6
<1>7. \/ \E q \in Requests : SendStep(q)
      \/ \E c \in Cancels : CancelRemove(c)
      \/ \E r \in Requests : Promote(r) \/ Stall(r)
      \/ \E w \in Workers : Take(w) \/ Complete(w) \/ Retry(w)
      \/ UNCHANGED <<call, job, holder>>
  BY DEF Next, CancelStep, Process, EchoStep, vars, CancelRead, CancelUpdate,
         DbError, Crash, Claim, Load, Gate, Dispatch, Stamp, Record, Touch,
         Fail, EchoFind, EchoLookup, EchoMerge, EchoGhost, EchoRespond,
         EchoAgain, PhoneChanges, ClientMessage, apiVars, queueVars
<1> QED  BY <1>1, <1>2, <1>3, <1>4, <1>5, <1>6, <1>7

\* A queued attachment has its object: it is put before the row is inserted, and
\* only a call whose insert threw, which queues nothing, takes it away.
THEOREM QueuedObjectsAreStored == Spec => []QueuedMediaHasObject
<1>1. Init => LockedIsActive /\ ObjectsKnown
  BY DEF Init, LockedIsActive, ObjectsKnown
<1>2. TypeOK /\ LockedIsActive /\ ObjectsKnown /\ [Next]_vars =>
        LockedIsActive' /\ ObjectsKnown'
  <2> SUFFICES ASSUME TypeOK, LockedIsActive, ObjectsKnown, [Next]_vars
               PROVE  ObjectsKnown'
    BY StepLocks
  <2>1. ASSUME NEW q \in Requests, SendStep(q) PROVE ObjectsKnown'
    BY <2>1 DEF SendStep, ObjectsKnown, TypeOK, Refuse, FindExisting,
                FindNothing, FirstStep, PutMedia, InsertRow, InsertThrows,
                Enqueue, Abandon
  <2>2. CASE UNCHANGED <<call, answer, stored>>
    BY <2>2, StepLocks DEF ObjectsKnown
  <2> QED  BY <2>1, <2>2, CallOwners
<1>3. ObjectsKnown => QueuedMediaHasObject
  BY DEF ObjectsKnown, QueuedMediaHasObject
<1> QED  BY <1>1, <1>2, <1>3, TypeCorrect, PTL DEF Spec
=============================================================================
