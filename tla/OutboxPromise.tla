--------------------------- MODULE OutboxPromise ---------------------------
(***************************************************************************)
(* Proofs that Outbox.tla implements SendOnce.tla and that a cancellation  *)
(* written before the claim holds.  Both follow the fate of one row: every *)
(* step leaves it alone or moves it along                                  *)
(*    absent -> open -> taken -> delivered,                                *)
(* or from open or taken to dropped, and no step moves two rows.           *)
(***************************************************************************)
EXTENDS OutboxProof

USE DEF apiVars, rowVars, queueVars, workerVars, cancelVars, gatewayVars, storeVars,
      clockVars

-----------------------------------------------------------------------------
(* The rows a step leaves alone.                                           *)

\* The step does not touch what Fate is read off.
Untouched(r) ==
  /\ status'[r] = status[r]
  /\ delivered'[r] = delivered[r]
  /\ Taken(r)' <=> Taken(r)

LEMMA UntouchedKeepsFate ==
  ASSUME NEW r \in Requests, Untouched(r)
  PROVE  Fate(r)' = Fate(r)
  BY DEF Untouched, Fate

\* A worker touches the row it works on and no other.
LEMMA WorkerTouchesItsRow ==
  ASSUME TypeOK, NEW w \in Workers,
         Take(w) \/ Process(w) \/ DbError(w) \/ Crash(w),
         NEW r \in Requests, row[w] # r
  PROVE  Untouched(r)
<1> USE DEF TypeOK, Untouched, Taken, BeforeSend
<1>1. CASE Take(w)
  BY <1>1 DEF Take
<1>2. CASE DbError(w) \/ Crash(w)
  BY <1>2 DEF DbError, Crash, Goto, OnThrow
<1>3. CASE Claim(w) \/ Load(w) \/ Gate(w)
  BY <1>3 DEF Claim, Load, Gate, Goto
<1>4. CASE Dispatch(w)
  BY <1>4 DEF Dispatch, Goto, OnThrow
<1>5. CASE Stamp(w) \/ Record(w) \/ Touch(w) \/ Fail(w)
  BY <1>5 DEF Stamp, Record, Touch, Fail, Goto
<1>6. CASE Complete(w) \/ Retry(w)
  BY <1>6 DEF Complete, Retry, Leave
<1> QED  BY <1>1, <1>2, <1>3, <1>4, <1>5, <1>6 DEF Process

\* Nobody but a worker takes, delivers or drops a row, so the other steps touch
\* a row only through its status.
LEMMA OthersOnlyWriteStatus ==
  ASSUME TypeOK, [Next]_vars, NEW r \in Requests, status'[r] = status[r]
  PROVE  \/ Untouched(r)
         \/ \E w \in Workers :
              /\ row[w] = r
              /\ Take(w) \/ Process(w) \/ DbError(w) \/ Crash(w)
<1>1. \/ UNCHANGED <<at, row, delivered>>
      \/ \E w \in Workers : Take(w) \/ Process(w) \/ DbError(w) \/ Crash(w)
  BY DEF Next, SendStep, CancelStep, EchoStep, vars, Refuse, FindExisting,
         FindNothing, PutMedia, InsertRow, InsertThrows, Enqueue, Abandon,
         CancelRead, CancelUpdate, CancelRemove, Promote, Stall, EchoFind,
         EchoLookup, EchoMerge, EchoGhost, EchoRespond, EchoAgain,
         PhoneChanges, ClientMessage
<1>2. CASE UNCHANGED <<at, row, delivered>>
  BY <1>2 DEF Untouched, Taken, BeforeSend
<1> QED  BY <1>1, <1>2, WorkerTouchesItsRow

-----------------------------------------------------------------------------
(* The steps of one row.                                                   *)

\* The fate of the row of a worker that takes a step.
LEMMA FateOfWorkedRow ==
  ASSUME TypeOK, Custody, NEW w \in Workers, NEW r \in Requests, row[w] = r,
         Take(w) \/ Process(w) \/ DbError(w) \/ Crash(w)
  PROVE  \/ Fate(r)' = Fate(r) /\ delivered'[r] = delivered[r]
         \/ /\ Fate(r) = "open" /\ Fate(r)' = "taken"
            /\ delivered'[r] = delivered[r]
         \/ /\ Fate(r) = "taken" /\ Fate(r)' = "delivered"
            /\ delivered' = [delivered EXCEPT ![r] = @ + 1]
         \/ /\ Fate(r) = "taken" /\ Fate(r)' = "dropped"
            /\ delivered'[r] = delivered[r]
<1> USE DEF TypeOK, Fate, Taken, BeforeSend, PastClaim
<1>0. /\ PastClaim(w) => status[r] \notin Claimable \cup {"none"}
      /\ BeforeSend(w) => delivered[r] = 0
      /\ \A v \in Workers : BeforeSend(v) /\ row[v] = r =>
           delivered[r] = 0 /\ status[r] \in {"sending", "cancelled"}
      /\ \A v \in Workers : PastClaim(w) /\ v # w /\ BeforeSend(v) => row[v] # r
      /\ at[w] \in {"stamp", "record", "touch"} => delivered[r] > 0
  BY DEF Custody, WorkersKnow, OneDispatcher
<1>1. CASE Take(w)
  BY <1>1 DEF Take
<1>2. CASE DbError(w) \/ Crash(w)
  BY <1>0, <1>2 DEF DbError, Crash, Goto, OnThrow
<1>3. CASE Claim(w)
  BY <1>0, <1>3 DEF Claim, Goto, ClaimedStatus, Claimable
<1>4. CASE Load(w)
  BY <1>0, <1>4 DEF Load, Goto
<1>5. CASE Gate(w)
  BY <1>0, <1>5 DEF Gate, Goto, RefusedStatus, Claimable
<1>6. CASE Dispatch(w)
  BY <1>0, <1>6 DEF Dispatch, Goto, OnThrow
<1>7. CASE Stamp(w) \/ Record(w) \/ Touch(w)
  BY <1>0, <1>7 DEF Stamp, Record, Touch, Goto
<1>8. CASE Fail(w)
  BY <1>0, <1>8 DEF Fail, Goto, FailedStatus, Claimable
<1>9. CASE Complete(w) \/ Retry(w)
  BY <1>0, <1>9 DEF Complete, Retry, Leave
<1> QED
  BY <1>1, <1>2, <1>3, <1>4, <1>5, <1>6, <1>7, <1>8, <1>9 DEF Process

\* A step of SendOnce that moves one row.
RowMoves(r) ==
  \/ Fate(r) = "absent" /\ Fate(r)' = "open" /\ delivered'[r] = delivered[r]
  \/ Fate(r) = "open" /\ Fate(r)' = "taken" /\ delivered'[r] = delivered[r]
  \/ /\ Fate(r) = "taken" /\ Fate(r)' = "delivered"
     /\ delivered' = [delivered EXCEPT ![r] = @ + 1]
  \/ /\ Fate(r) \in {"open", "taken"} /\ Fate(r)' = "dropped"
     /\ delivered'[r] = delivered[r]

RowStays(r) == Fate(r)' = Fate(r) /\ delivered'[r] = delivered[r]

\* The fate of a row somebody else than its worker writes: an insert opens it,
\* a cancellation drops it if nobody has taken it, an echo changes nothing.
LEMMA FateOfWrittenRow ==
  ASSUME TypeOK, Custody, NEW r \in Requests, status'[r] # status[r],
         \/ \E q \in Requests : InsertRow(q) \/ InsertThrows(q)
         \/ \E c \in Cancels : CancelUpdate(c)
         \/ \E e \in Requests : EchoMerge(e)
  PROVE  RowStays(r) \/ RowMoves(r)
<1> USE DEF TypeOK, RowStays, RowMoves
<1>1. UNCHANGED <<delivered, at, row>>
  BY DEF InsertRow, InsertThrows, CancelUpdate, EchoMerge
<1>2. Taken(r)' <=> Taken(r)
  BY <1>1 DEF Taken, BeforeSend
<1>3. Taken(r) => status[r] \notin Claimable \cup {"none"}
  BY DEF Taken, BeforeSend, PastClaim, Custody, WorkersKnow
<1>4. delivered[r] > 0 => status[r] \notin Claimable \cup {"none"}
  BY DEF Custody, RowsKnow
<1>5. ASSUME NEW q \in Requests, InsertRow(q) \/ InsertThrows(q)
      PROVE  RowStays(r) \/ RowMoves(r)
  <2>1. status[r] = "none" /\ status'[r] \in Claimable
    BY <1>5 DEF InsertRow, InsertThrows, InitialStatus, Claimable, Custody,
                CallsKnow
  <2> QED  BY <1>1, <1>2, <1>3, <1>4, <2>1 DEF Fate, Claimable
<1>6. ASSUME NEW c \in Cancels, CancelUpdate(c)
      PROVE  RowStays(r) \/ RowMoves(r)
  <2>1. status[r] # "none" /\ status'[r] = "cancelled"
    BY <1>6 DEF CancelUpdate, Custody, CallsKnow, Exists
  <2> QED  BY <1>1, <1>2, <1>3, <1>4, <2>1 DEF Fate, Claimable
<1>7. ASSUME NEW e \in Requests, EchoMerge(e)
      PROVE  RowStays(r) \/ RowMoves(r)
  <2>1. delivered[r] > 0
    BY <1>7 DEF EchoMerge, Custody, RowsKnow
  <2> QED  BY <1>1, <2>1 DEF Fate
<1> QED  BY <1>5, <1>6, <1>7

\* Whatever happens, the fate of a row stays or moves along.
LEMMA FateMoves ==
  ASSUME TypeOK, Custody, [Next]_vars, NEW r \in Requests
  PROVE  RowStays(r) \/ RowMoves(r)
<1>1. CASE \E w \in Workers :
             /\ row[w] = r
             /\ Take(w) \/ Process(w) \/ DbError(w) \/ Crash(w)
  BY <1>1, FateOfWorkedRow DEF RowStays, RowMoves
<1>2. CASE Untouched(r)
  BY <1>2, UntouchedKeepsFate DEF RowStays, Untouched
<1>3. CASE /\ status'[r] # status[r]
           /\ \A w \in Workers : row[w] = r =>
                ~(Take(w) \/ Process(w) \/ DbError(w) \/ Crash(w))
  <2>1. ASSUME NEW w \in Workers, Claim(w) \/ Gate(w) \/ Stamp(w) \/ Fail(w)
        PROVE  FALSE
    BY <1>3, <2>1, WorkerTouchesItsRow DEF Process, Untouched
  <2> QED  BY <1>3, <2>1, StatusWriters, FateOfWrittenRow
<1> QED  BY <1>1, <1>2, <1>3, OthersOnlyWriteStatus

\* A step that moves one row leaves the others alone.
LEMMA OneRowMoves ==
  ASSUME TypeOK, Custody, [Next]_vars, NEW r \in Requests, RowMoves(r),
         NEW s \in Requests, s # r
  PROVE  RowStays(s)
<1> USE DEF TypeOK
<1>1. ~Untouched(r)
  BY UntouchedKeepsFate DEF RowMoves, Untouched
<1>2. CASE \E w \in Workers :
             /\ row[w] = r
             /\ Take(w) \/ Process(w) \/ DbError(w) \/ Crash(w)
  BY <1>2, WorkerTouchesItsRow, UntouchedKeepsFate DEF RowStays, Untouched
<1>3. CASE /\ status'[r] # status[r]
           /\ \A w \in Workers : row[w] = r =>
                ~(Take(w) \/ Process(w) \/ DbError(w) \/ Crash(w))
  <2>1. ASSUME NEW w \in Workers, Claim(w) \/ Gate(w) \/ Stamp(w) \/ Fail(w)
        PROVE  FALSE
    BY <1>3, <2>1, WorkerTouchesItsRow DEF Process, Untouched
  <2>2. \/ \E q \in Requests : InsertRow(q) \/ InsertThrows(q)
        \/ \E c \in Cancels : CancelUpdate(c)
        \/ \E e \in Requests : EchoMerge(e)
    BY <1>3, <2>1, StatusWriters
  <2>3. UNCHANGED <<delivered, at, row>> /\ status'[s] = status[s]
    BY <1>3, <2>2 DEF InsertRow, InsertThrows, CancelUpdate, EchoMerge
  <2>4. Untouched(s)
    BY <2>3 DEF Untouched, Taken, BeforeSend
  <2> QED  BY <2>4, UntouchedKeepsFate DEF RowStays, Untouched
<1> QED  BY <1>1, <1>2, <1>3, OthersOnlyWriteStatus

-----------------------------------------------------------------------------
(* The outbox implements SendOnce.                                         *)

\* A row without a fate in SendOnce is a row that was not inserted.
LEMMA AbsentIsNotInserted ==
  ASSUME TypeOK, Custody, NEW r \in Requests
  PROVE  Fate(r) = "absent" <=> ~Exists(r)
<1>1. Taken(r) \/ delivered[r] > 0 => Exists(r)
  BY DEF Custody, RowsKnow, WorkersKnow, Taken, BeforeSend, PastClaim, Exists
<1>2. delivered[r] \in Nat
  BY DEF TypeOK
<1>3. CASE Exists(r)
  BY <1>3 DEF Fate, Exists, Claimable
<1>4. CASE ~Exists(r)
  <2>1. delivered[r] = 0 /\ ~Taken(r) /\ status[r] = "none"
    BY <1>1, <1>2, <1>4 DEF Exists
  <2> QED  BY <1>4, <2>1 DEF Fate, Claimable
<1> QED  BY <1>3, <1>4

\* The state SendOnce sees.
LEMMA InitPromise == Init => Promise!Init
<1> SUFFICES ASSUME Init PROVE Promise!Init
  OBVIOUS
<1>1. ASSUME NEW r \in Requests PROVE Fate(r) = "absent"
  <2>1. delivered[r] = 0 /\ status[r] = "none"
    BY DEF Init
  <2>2. ~Taken(r)
    BY DEF Init, Taken, BeforeSend
  <2> QED  BY <2>1, <2>2 DEF Fate, Claimable
<1> QED  BY <1>1 DEF Promise!Init, Init

LEMMA StepPromise ==
  ASSUME TypeOK, Custody, [Next]_vars
  PROVE  [Promise!Next]_(Promise!promise)
<1> DEFINE fate == [r \in Requests |-> Fate(r)]
<1>1. CASE \A r \in Requests : RowStays(r)
  <2>1. fate' = fate
    BY <1>1 DEF RowStays
  <2>2. delivered' = delivered
    BY <1>1, StepTypes DEF RowStays, TypeOK
  <2> QED  BY <2>1, <2>2 DEF Promise!promise
<1>2. ASSUME NEW r \in Requests, RowMoves(r)
      PROVE  Promise!Next
  <2>1. \A s \in Requests : s # r => RowStays(s)
    BY <1>2, OneRowMoves
  <2>2. fate' = [fate EXCEPT ![r] = Fate(r)']
    BY <2>1 DEF RowStays
  <2>3. delivered' = [delivered EXCEPT ![r] = delivered'[r]]
    BY <2>1, StepTypes DEF RowStays, TypeOK
  <2>4. CASE Fate(r) = "absent" /\ Fate(r)' = "open" /\ delivered'[r] = delivered[r]
    <3>1. ~Exists(r) /\ Exists(r)'
      BY <2>4, AbsentIsNotInserted DEF Fate, Exists, TypeOK
    <3>2. \A s \in Requests : fate[s] # "absent" => KeyOf[r] = NoKey \/ KeyOf[s] # KeyOf[r]
      BY <3>1, NewRowHasNewKey, AbsentIsNotInserted
    <3>3. delivered' = delivered
      BY <2>3, <2>4 DEF TypeOK
    <3>4. Promise!Accept(r)
      BY <2>2, <2>4, <3>2, <3>3 DEF Promise!Accept
    <3> QED  BY <3>4 DEF Promise!Next
  <2>5. CASE Fate(r) = "open" /\ Fate(r)' = "taken" /\ delivered'[r] = delivered[r]
    <3>1. delivered' = delivered
      BY <2>3, <2>5 DEF TypeOK
    <3>2. Promise!Take(r)
      BY <2>2, <2>5, <3>1 DEF Promise!Take
    <3> QED  BY <3>2 DEF Promise!Next
  <2>6. CASE /\ Fate(r) = "taken" /\ Fate(r)' = "delivered"
             /\ delivered' = [delivered EXCEPT ![r] = @ + 1]
    <3>1. Promise!Deliver(r)
      BY <2>2, <2>6 DEF Promise!Deliver
    <3> QED  BY <3>1 DEF Promise!Next
  <2>7. CASE /\ Fate(r) \in {"open", "taken"} /\ Fate(r)' = "dropped"
             /\ delivered'[r] = delivered[r]
    <3>1. delivered' = delivered
      BY <2>3, <2>7 DEF TypeOK
    <3>2. Promise!Drop(r)
      BY <2>2, <2>7, <3>1 DEF Promise!Drop
    <3> QED  BY <3>2 DEF Promise!Next
  <2> QED  BY <1>2, <2>4, <2>5, <2>6, <2>7 DEF RowMoves
<1> QED  BY <1>1, <1>2, FateMoves

\* Every behaviour of the outbox is one of SendOnce: a reply is accepted once per
\* key, taken once, and reaches WhatsApp once or never.
THEOREM PromiseKept == Spec => KeepsPromise
<1>1. Init => Promise!Init
  BY InitPromise
<1>2. TypeOK /\ Custody /\ [Next]_vars => [Promise!Next]_(Promise!promise)
  BY StepPromise
<1> QED
  BY <1>1, <1>2, TypeCorrect, CustodyHolds, PTL
     DEF Spec, KeepsPromise, Promise!Spec

-----------------------------------------------------------------------------
(* Cancellation.                                                           *)

\* Such a row has no way back: its fate is "dropped".
LEMMA StoppedForGood ==
  ASSUME TypeOK, Custody, [Next]_vars, NEW r \in Requests, Stopped(r)
  PROVE  Stopped(r)'
<1>1. Fate(r) = "dropped"
  BY DEF Stopped, Fate, TypeOK
<1>2. Fate(r)' = "dropped" /\ delivered'[r] = 0
  BY <1>1, FateMoves DEF RowStays, RowMoves, Stopped
<1>3. delivered' \in [Requests -> Nat]
  BY StepTypes DEF TypeOK
<1> QED  BY <1>2, <1>3 DEF Fate, Stopped

\* A cancellation written while nobody has claimed the row prevents the send for
\* good, whatever the queue still does with the job.
THEOREM EarlyCancelHolds == Spec => CancelBeforeClaimHolds
<1>1. TypeOK /\ Custody /\ [Next]_vars
        => [\A r \in Requests : Stopped(r) => Stopped(r)']_vars
  BY StoppedForGood
<1> QED
  BY <1>1, TypeCorrect, CustodyHolds, PTL DEF Spec, CancelBeforeClaimHolds
=============================================================================
