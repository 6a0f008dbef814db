----------------------------- MODULE IngestProof -----------------------------
(***************************************************************************)
(* What a webhook or a history sync brings is stored whole, told of once   *)
(* for each run that could not know of another, and starts or stops the    *)
(* clock of the channel for a reason, for any messages, jobs and workers.  *)
(***************************************************************************)
EXTENDS Ingest, FiniteSetTheorems, SequenceTheorems, TLAPS

-----------------------------------------------------------------------------
(* Jobs, events and classes. *)

Ats == {"find", "insert", "mediaFind", "mediaInsert", "touch", "clock", "stamp", "notify", "fetch"}
JobStates == {"absent", "waiting", "active", "done", "failed"}

\* Every job has events, a live one the message that was posted.
LEMMA EventsFit ==
  ASSUME NEW j \in Jobs
  PROVE  /\ Len(EventsOf(j)) \in Nat \ {0} /\ DOMAIN EventsOf(j) = 1 .. Len(EventsOf(j))
         /\ \A i \in 1 .. Len(EventsOf(j)) : EventsOf(j)[i] \in Messages
         /\ j \in LiveJobs => /\ j \notin Batches /\ Len(EventsOf(j)) = 1
                              /\ EventsOf(j)[1] = j[1] /\ j[1] \in Messages
                              /\ j[2] \in 1 .. MaxPosts /\ j = <<j[1], j[2]>>
<1>1. CASE j \in LiveJobs
  <2>1. j[1] \in Messages /\ j[2] \in 1 .. MaxPosts /\ j = <<j[1], j[2]>> /\ j \in Messages \X Nat
    BY <1>1, IngestAssumption DEF LiveJobs
  <2>2. j \notin Batches
    BY <2>1, IngestAssumption
  <2>3. EventsOf(j) = <<j[1]>>
    BY <2>2 DEF EventsOf
  <2> QED  BY <2>1, <2>2, <2>3
<1>2. CASE j \notin LiveJobs
  <2>1. j \in Batches /\ EventsOf(j) = EventsIn[j]
    BY <1>2 DEF Jobs, EventsOf
  <2>2. EventsIn[j] \in Seq(Messages) /\ EventsIn[j] # <<>>
    BY <2>1, IngestAssumption
  <2> HIDE DEF EventsOf
  <2> QED  BY <1>2, <2>1, <2>2, LenProperties, ElementOfSeq, EmptySeq
<1> QED  BY <1>1, <1>2

\* What comes from a history sync is historical; what is eligible is a client's, and live.
LEMMA ClassFits ==
  ASSUME NEW j \in Jobs, NEW m \in Messages, NEW mapping \in Mappings, NEW syncing \in BOOLEAN,
         NEW restricted \in BOOLEAN, NEW now
  PROVE  LET class == ClassName(Classify(j, m, mapping, syncing, restricted, now)) IN
         /\ class \in Class
         /\ j \in Batches => class = "backfill"
         /\ class = "eligible" => DirectionOf[m] = "inbound" /\ ~resolveSender(m)
  BY DEF ClassName, Classify, classifyMessage, IsBackfill, Suppressed, ClientInbound, Class

-----------------------------------------------------------------------------
(* What a worker may rely on at the event it has reached. *)

Whole(st, md, m) == st[m] # "none" /\ (m \in HasMedia => md[m] > 0)
Complete(j, st, md) == \A i \in 1 .. Len(EventsOf(j)) : Whole(st, md, EventsOf(j)[i])

\* w: the state of a worker that has job j; st, md: stored and media.
Fits(w, j, st, md) ==
  \/ w = Idle
  \/ LET m == EventsOf(j)[w.pos] IN
     /\ w \in WorkState /\ w.pos <= Len(EventsOf(j))
     /\ \A i \in 1 .. w.pos - 1 : Whole(st, md, EventsOf(j)[i])
     /\ w.at \in {"find", "insert"} <=> w.class = "none"
     /\ w.class # "none" => st[m] # "none"
     /\ w.at \in {"touch", "clock", "stamp", "notify", "fetch"} => (m \in HasMedia => md[m] > 0)
     /\ w.at \in {"touch", "clock", "stamp", "notify"} => w.class # "duplicate"
     /\ w.at = "stamp" => DirectionOf[m] = "outbound"
     /\ w.class = "eligible" => DirectionOf[m] = "inbound" /\ ~resolveSender(m)
     /\ j \in Batches => w.class \in {"none", "duplicate", "backfill"}

Works == {Idle} \cup WorkState

\* An active job has a worker that holds it, one that waits or is done has none; a second run is
\* only there beside one that lost the lock.
JobFits(j) == /\ job[j] = "active" => work[Holder(j)] # Idle
              /\ job[j] \in {"absent", "waiting", "done"} => work[Holder(j)] = Idle
              /\ work[<<j, 2>>] # Idle => j \in expired
              /\ job[j] = "absent" => j \notin expired
              /\ job[j] = "done" => Complete(j, stored, media)

JobsOK == /\ stored \in [Messages -> {"none"} \cup Class] /\ media \in [Messages -> Nat]
          /\ job \in [Jobs -> JobStates] /\ work \in [Runs -> Works]
          /\ \A r \in Runs : Fits(work[r], r[1], stored, media)
          /\ \A j \in Jobs : JobFits(j)

\* Counters and locks; no lock expires while nothing fails.
RestOK == /\ tries \in [Jobs -> Nat] /\ stalled \subseteq Jobs /\ expired \subseteq stalled
          /\ fetches \in [Messages -> Nat] /\ faults \in Nat
          /\ faults = 0 => expired = {}

\* Rows are never taken away.
RowsStay == \A m \in Messages : /\ stored[m] # "none" => stored'[m] # "none"
                                /\ media[m] > 0 => media'[m] > 0

LEMMA RunsAreRuns ==
  /\ \A r \in Runs : r[1] \in Jobs /\ r[2] \in {1, 2} /\ r = <<r[1], r[2]>>
  /\ \A j \in Jobs : /\ <<j, 1>> \in Runs /\ <<j, 2>> \in Runs
                     /\ Holder(j) \in Runs /\ Holder(j)[1] = j
                     /\ Holder(j) = IF j \in expired THEN <<j, 2>> ELSE <<j, 1>>
  BY DEF Runs, Holder

LEMMA BusyIsNotIdle == \A w \in WorkState : w # Idle /\ DOMAIN w = {"at", "pos", "class", "fetch"}
  BY DEF WorkState, Idle

LEMMA FitsStays ==
  ASSUME RowsStay, NEW j \in Jobs, NEW w, Fits(w, j, stored, media)
  PROVE  Fits(w, j, stored', media')
<1>1. CASE w = Idle
  BY <1>1 DEF Fits
<1>2. CASE w # Idle
  <2> DEFINE m == EventsOf(j)[w.pos]
  <2>0. w \in WorkState /\ w.pos <= Len(EventsOf(j)) /\ w.pos \in Nat \ {0} /\ Len(EventsOf(j)) \in Nat
    BY <1>2, EventsFit DEF Fits, WorkState
  <2>1. m \in Messages /\ \A i \in 1 .. w.pos - 1 : EventsOf(j)[i] \in Messages
    BY <2>0, EventsFit
  <2>2. /\ \A i \in 1 .. w.pos - 1 : Whole(stored, media, EventsOf(j)[i])
        /\ w.at \in {"find", "insert"} <=> w.class = "none"
        /\ w.class # "none" => stored[m] # "none"
        /\ w.at \in {"touch", "clock", "stamp", "notify", "fetch"} => (m \in HasMedia => media[m] > 0)
        /\ w.at \in {"touch", "clock", "stamp", "notify"} => w.class # "duplicate"
        /\ w.at = "stamp" => DirectionOf[m] = "outbound"
        /\ w.class = "eligible" => DirectionOf[m] = "inbound" /\ ~resolveSender(m)
        /\ j \in Batches => w.class \in {"none", "duplicate", "backfill"}
    BY <1>2 DEF Fits
  <2>3. \A i \in 1 .. w.pos - 1 : Whole(stored', media', EventsOf(j)[i])
    BY <2>1, <2>2 DEF RowsStay, Whole
  <2>4. /\ w.class # "none" => stored'[m] # "none"
        /\ w.at \in {"touch", "clock", "stamp", "notify", "fetch"} => (m \in HasMedia => media'[m] > 0)
    BY <2>1, <2>2 DEF RowsStay
  <2> HIDE DEF m
  <2> QED  BY <2>0, <2>2, <2>3, <2>4 DEF Fits, m
<1> QED  BY <1>1, <1>2

\* One run changes, and its job.
LEMMA JobChanges ==
  ASSUME JobsOK, RowsStay, stored' \in [Messages -> {"none"} \cup Class],
         media' \in [Messages -> Nat], expired' = expired, NEW r \in Runs, NEW w,
         work' = [work EXCEPT ![r] = w], Fits(w, r[1], stored', media'),
         job' \in [Jobs -> JobStates], \A k \in Jobs : k # r[1] => job'[k] = job[k],
         JobFits(r[1])'
  PROVE  JobsOK'
<1>0. w \in Works /\ r[1] \in Jobs
  BY RunsAreRuns DEF Fits, Works
<1>1. work' \in [Runs -> Works]
  BY <1>0 DEF JobsOK
<1>2. ASSUME NEW q \in Runs PROVE Fits(work'[q], q[1], stored', media')
  <2>1. CASE q = r
    BY <2>1 DEF JobsOK
  <2>2. CASE q # r
    <3>1. work'[q] = work[q] /\ q[1] \in Jobs /\ Fits(work[q], q[1], stored, media)
      BY <2>2, RunsAreRuns DEF JobsOK
    <3> QED  BY <3>1, FitsStays
  <2> QED  BY <2>1, <2>2
<1>3. ASSUME NEW k \in Jobs, k # r[1] PROVE JobFits(k)'
  <2>1. job'[k] = job[k] /\ JobFits(k)
    BY <1>3 DEF JobsOK
  <2>2. \A q \in Runs : q[1] = k => work'[q] = work[q]
    BY <1>3 DEF JobsOK
  <2>3. work'[Holder(k)] = work[Holder(k)] /\ work'[<<k, 2>>] = work[<<k, 2>>] /\ Holder(k)' = Holder(k)
    BY <2>2, RunsAreRuns DEF Holder
  <2>4. job[k] = "done" => Complete(k, stored', media')
    BY <2>1, EventsFit DEF JobFits, Complete, Whole, RowsStay
  <2> QED  BY <2>1, <2>3, <2>4 DEF JobFits
<1> QED  BY <1>1, <1>2, <1>3 DEF JobsOK

\* A run goes on.
LEMMA WorkChanges ==
  ASSUME JobsOK, RowsStay, stored' \in [Messages -> {"none"} \cup Class],
         media' \in [Messages -> Nat], expired' = expired, NEW r \in Runs, work[r] # Idle,
         NEW w \in WorkState, job' = job, work' = [work EXCEPT ![r] = w],
         Fits(w, r[1], stored', media')
  PROVE  JobsOK'
<1> DEFINE j == r[1]
<1>1. j \in Jobs /\ JobFits(j) /\ w # Idle /\ job' \in [Jobs -> JobStates]
  BY RunsAreRuns, BusyIsNotIdle DEF JobsOK
<1>2. \A q \in Runs : work'[q] = IF q = r THEN w ELSE work[q]
  BY DEF JobsOK
<1>3. Holder(j)' = Holder(j) /\ Holder(j) \in Runs /\ <<j, 2>> \in Runs
  BY <1>1, RunsAreRuns DEF Holder
<1>4. \A q \in Runs : work'[q] # Idle <=> work[q] # Idle
  BY <1>1, <1>2
<1>5. job[j] = "done" => Complete(j, stored', media')
  BY <1>1, EventsFit DEF JobFits, Complete, Whole, RowsStay
<1>6. JobFits(j)'
  BY <1>1, <1>3, <1>4, <1>5 DEF JobFits
<1> QED  BY <1>1, <1>6, JobChanges

\* A run ends, and its job with it if the run holds it.
LEMMA RunEnds ==
  ASSUME JobsOK, RowsStay, stored' \in [Messages -> {"none"} \cup Class],
         media' \in [Messages -> Nat], expired' = expired, NEW r \in Runs, work[r] # Idle,
         NEW state \in {"waiting", "failed", "done"}, Ends(r, state),
         state = "done" => Complete(r[1], stored', media')
  PROVE  JobsOK'
<1> DEFINE j == r[1]
<1>1. j \in Jobs /\ JobFits(j) /\ state \in JobStates
  BY RunsAreRuns DEF JobsOK, JobStates
<1>2. work' = [work EXCEPT ![r] = Idle] /\ job' = [job EXCEPT ![j] = IF Holds(r) THEN state ELSE @]
  BY DEF Ends
<1>3. \A q \in Runs : work'[q] = IF q = r THEN Idle ELSE work[q]
  BY <1>2 DEF JobsOK
<1>4. /\ job' \in [Jobs -> JobStates] /\ \A k \in Jobs : k # j => job'[k] = job[k]
      /\ job'[j] = IF Holds(r) THEN state ELSE job[j]
  BY <1>1, <1>2 DEF JobsOK
<1>5. Holder(j)' = Holder(j) /\ Holder(j) \in Runs /\ <<j, 2>> \in Runs
  BY <1>1, RunsAreRuns DEF Holder
<1>6. work'[<<j, 2>>] # Idle => j \in expired
  BY <1>1, <1>3, <1>5 DEF JobFits
<1>7. job[j] = "done" => Complete(j, stored', media')
  BY <1>1, EventsFit DEF JobFits, Complete, Whole, RowsStay
<1>8. CASE Holds(r)
  <2>1. r = Holder(j) /\ job[j] = "active" /\ job'[j] = state
    BY <1>4, <1>8 DEF Holds
  <2>2. work'[Holder(j)] = Idle
    BY <1>3, <1>5, <2>1
  <2>3. JobFits(j)'
    BY <1>5, <1>6, <2>1, <2>2 DEF JobFits
  <2> QED  BY <1>2, <1>4, <2>3, JobChanges DEF Fits
<1>9. CASE ~Holds(r)
  <2>1. job'[j] = job[j]
    BY <1>4, <1>9
  <2>2. job[j] \in {"active", "absent", "waiting", "done"} => r # Holder(j)
    BY <1>1, <1>9 DEF JobFits, Holds
  <2>3. r # Holder(j) => work'[Holder(j)] = work[Holder(j)]
    BY <1>3, <1>5
  <2>4. JobFits(j)'
    BY <1>1, <1>5, <1>6, <1>7, <2>1, <2>2, <2>3 DEF JobFits
  <2> QED  BY <1>2, <1>4, <2>4, JobChanges DEF Fits
<1> QED  BY <1>8, <1>9

\* The run of an attempt that was queued.
LEMMA BusyIsQueued ==
  ASSUME JobsOK, NEW r \in Runs, work[r] # Idle
  PROVE  job[r[1]] # "absent" /\ (r[2] = 2 => r[1] \in expired)
<1>1. r[1] \in Jobs /\ r \in {<<r[1], 1>>, <<r[1], 2>>} /\ r = <<r[1], r[2]>> /\ JobFits(r[1])
  BY RunsAreRuns DEF JobsOK
<1>2. r[2] = 2 => r[1] \in expired
  BY <1>1 DEF JobFits
<1>3. job[r[1]] # "absent"
  <2> SUFFICES ASSUME job[r[1]] = "absent" PROVE FALSE
    OBVIOUS
  <2>1. r[1] \notin expired /\ work[Holder(r[1])] = Idle
    BY <1>1 DEF JobFits
  <2>2. Holder(r[1]) = <<r[1], 1>>
    BY <2>1 DEF Holder
  <2> QED  BY <1>1, <1>2, <2>1, <2>2
<1> QED  BY <1>2, <1>3

LEMMA AtFirst ==
  ASSUME NEW j \in Jobs, NEW st, NEW md, NEW pos \in 1 .. Len(EventsOf(j)),
         \A i \in 1 .. pos - 1 : Whole(st, md, EventsOf(j)[i])
  PROVE  Fits(Start(pos), j, st, md) /\ Start(pos) \in WorkState
<1>1. pos \in Nat \ {0} /\ pos <= Len(EventsOf(j))
  BY EventsFit
<1> DEFINE w == Start(pos)
<1>2. w \in WorkState /\ w.pos = pos /\ w.at = "find" /\ w.class = "none"
  BY <1>1 DEF Start, WorkState
<1> HIDE DEF w
<1>3. Fits(w, j, st, md)
  BY <1>1, <1>2 DEF Fits
<1> QED  BY <1>2, <1>3 DEF w

\* What a busy worker has reached.
LEMMA Reached ==
  ASSUME JobsOK, NEW r \in Runs, work[r].at \in Ats
  PROVE  /\ work[r] # Idle /\ work[r] \in WorkState
         /\ work[r].pos \in 1 .. Len(EventsOf(r[1])) /\ Current(r) \in Messages
         /\ \A i \in 1 .. work[r].pos - 1 : Whole(stored, media, EventsOf(r[1])[i])
         /\ work[r].at \in {"find", "insert"} <=> work[r].class = "none"
         /\ work[r].class # "none" => stored[Current(r)] # "none"
         /\ work[r].at \in {"touch", "clock", "stamp", "notify", "fetch"} =>
              (Current(r) \in HasMedia => media[Current(r)] > 0)
         /\ work[r].at \in {"touch", "clock", "stamp", "notify"} => work[r].class # "duplicate"
         /\ work[r].at = "stamp" => DirectionOf[Current(r)] = "outbound"
         /\ work[r].class = "eligible" =>
              DirectionOf[Current(r)] = "inbound" /\ ~resolveSender(Current(r))
         /\ r[1] \in Batches => work[r].class \in {"none", "duplicate", "backfill"}
<1>1. work[r] # Idle
  BY DEF Idle, Ats
<1>2. r[1] \in Jobs /\ Fits(work[r], r[1], stored, media)
  BY RunsAreRuns DEF JobsOK
<1> DEFINE w == work[r]
           m == EventsOf(r[1])[w.pos]
<1>3. /\ w \in WorkState /\ w.pos <= Len(EventsOf(r[1]))
      /\ \A i \in 1 .. w.pos - 1 : Whole(stored, media, EventsOf(r[1])[i])
      /\ w.at \in {"find", "insert"} <=> w.class = "none"
      /\ w.class # "none" => stored[m] # "none"
      /\ w.at \in {"touch", "clock", "stamp", "notify", "fetch"} => (m \in HasMedia => media[m] > 0)
      /\ w.at \in {"touch", "clock", "stamp", "notify"} => w.class # "duplicate"
      /\ w.at = "stamp" => DirectionOf[m] = "outbound"
      /\ w.class = "eligible" => DirectionOf[m] = "inbound" /\ ~resolveSender(m)
      /\ r[1] \in Batches => w.class \in {"none", "duplicate", "backfill"}
  BY <1>1, <1>2 DEF Fits
<1>4. w.pos \in Nat \ {0} /\ Len(EventsOf(r[1])) \in Nat
  BY <1>2, <1>3, EventsFit DEF WorkState
<1>5. w.pos \in 1 .. Len(EventsOf(r[1])) /\ m \in Messages
  BY <1>2, <1>3, <1>4, EventsFit
<1>6. Current(r) = m
  BY DEF Current
<1> QED  BY <1>1, <1>3, <1>5, <1>6

-----------------------------------------------------------------------------
(* The steps of a run. *)

\* The event the worker has reached is whole: it goes on to the next, or is done.
LEMMA NextKept ==
  ASSUME JobsOK, NEW r \in Runs, work[r].at \in Ats, NextEvent(r), RowsStay, expired' = expired,
         stored' \in [Messages -> {"none"} \cup Class], media' \in [Messages -> Nat],
         Whole(stored', media', Current(r))
  PROVE  JobsOK'
<1> DEFINE pos == work[r].pos
<1>1. /\ work[r] # Idle /\ pos \in 1 .. Len(EventsOf(r[1]))
      /\ \A i \in 1 .. pos - 1 : Whole(stored, media, EventsOf(r[1])[i])
  BY Reached, RunsAreRuns
<1>2. Len(EventsOf(r[1])) \in Nat \ {0} /\ \A i \in 1 .. Len(EventsOf(r[1])) : EventsOf(r[1])[i] \in Messages
  BY EventsFit, RunsAreRuns
<1>3. \A i \in 1 .. pos - 1 : EventsOf(r[1])[i] \in Messages
  BY <1>1, <1>2
<1>4. \A i \in 1 .. pos - 1 : Whole(stored', media', EventsOf(r[1])[i])
  BY <1>1, <1>3 DEF RowsStay, Whole
<1>5. Whole(stored', media', EventsOf(r[1])[pos])
  BY DEF Current
<1>6. \A i \in 1 .. pos : i \in 1 .. pos - 1 \/ i = pos
  BY <1>1, <1>2
<1>7. \A i \in 1 .. pos : Whole(stored', media', EventsOf(r[1])[i])
  BY <1>4, <1>5, <1>6
<1>8. CASE pos < Len(EventsOf(r[1]))
  <2>1. pos + 1 \in 1 .. Len(EventsOf(r[1])) /\ \A i \in 1 .. (pos + 1) - 1 : i \in 1 .. pos
    BY <1>1, <1>2, <1>8
  <2>2. Fits(Start(pos + 1), r[1], stored', media') /\ Start(pos + 1) \in WorkState
    BY <1>7, <2>1, AtFirst, RunsAreRuns
  <2>3. work' = [work EXCEPT ![r] = Start(pos + 1)] /\ job' = job
    BY <1>8 DEF NextEvent, JobsOK
  <2> QED  BY <1>1, <2>2, <2>3, WorkChanges
<1>9. CASE ~(pos < Len(EventsOf(r[1])))
  <2>1. \A i \in 1 .. Len(EventsOf(r[1])) : i \in 1 .. pos
    BY <1>1, <1>2, <1>9
  <2>2. Complete(r[1], stored', media')
    BY <1>7, <2>1 DEF Complete
  <2>3. Ends(r, "done")
    BY <1>9 DEF NextEvent
  <2> QED  BY <1>1, <2>2, <2>3, RunEnds
<1> QED  BY <1>8, <1>9

\* The worker stays with its event.
LEMMA StaysWith ==
  ASSUME JobsOK, NEW r \in Runs, work[r].at \in Ats, NEW w \in WorkState,
         w.pos = work[r].pos, job' = job, work' = [work EXCEPT ![r] = w], RowsStay, expired' = expired,
         stored' \in [Messages -> {"none"} \cup Class], media' \in [Messages -> Nat],
         w.at \in {"find", "insert"} <=> w.class = "none",
         w.class # "none" => stored'[Current(r)] # "none",
         w.at \in {"touch", "clock", "stamp", "notify", "fetch"} =>
           (Current(r) \in HasMedia => media'[Current(r)] > 0),
         w.at \in {"touch", "clock", "stamp", "notify"} => w.class # "duplicate",
         w.at = "stamp" => DirectionOf[Current(r)] = "outbound",
         w.class = "eligible" => DirectionOf[Current(r)] = "inbound" /\ ~resolveSender(Current(r)),
         r[1] \in Batches => w.class \in {"none", "duplicate", "backfill"}
  PROVE  JobsOK'
<1>1. /\ work[r] # Idle /\ w.pos \in 1 .. Len(EventsOf(r[1]))
      /\ \A i \in 1 .. w.pos - 1 : Whole(stored, media, EventsOf(r[1])[i])
  BY Reached, RunsAreRuns
<1>2. Len(EventsOf(r[1])) \in Nat \ {0} /\ \A i \in 1 .. Len(EventsOf(r[1])) : EventsOf(r[1])[i] \in Messages
  BY EventsFit, RunsAreRuns
<1>3. w.pos <= Len(EventsOf(r[1])) /\ \A i \in 1 .. w.pos - 1 : EventsOf(r[1])[i] \in Messages
  BY <1>1, <1>2
<1>4. \A i \in 1 .. w.pos - 1 : Whole(stored', media', EventsOf(r[1])[i])
  BY <1>1, <1>3 DEF RowsStay, Whole
<1>5. Current(r) = EventsOf(r[1])[w.pos]
  BY DEF Current
<1>6. Fits(w, r[1], stored', media')
  BY <1>3, <1>4, <1>5 DEF Fits
<1> QED  BY <1>1, <1>6, WorkChanges

\* To another of its steps, with what it knew.
LEMMA AtFits ==
  ASSUME NEW w \in WorkState, NEW at \in Ats
  PROVE  /\ [w EXCEPT !.at = at] \in WorkState
         /\ [w EXCEPT !.at = at].at = at /\ [w EXCEPT !.at = at].pos = w.pos
         /\ [w EXCEPT !.at = at].class = w.class /\ [w EXCEPT !.at = at].fetch = w.fetch
  BY DEF WorkState, Ats

LEMMA GoesTo ==
  ASSUME JobsOK, NEW r \in Runs, work[r].at \in Ats, NEW at \in Ats, To(r, at),
         UNCHANGED <<stored, media, expired>>,
         at \in {"find", "insert"} <=> work[r].class = "none",
         at \in {"touch", "clock", "stamp", "notify", "fetch"} =>
           (Current(r) \in HasMedia => media[Current(r)] > 0),
         at \in {"touch", "clock", "stamp", "notify"} => work[r].class # "duplicate",
         at = "stamp" => DirectionOf[Current(r)] = "outbound"
  PROVE  JobsOK'
<1> DEFINE w == [work[r] EXCEPT !.at = at]
<1>1. work[r] \in WorkState
  BY Reached, RunsAreRuns
<1>2. /\ w \in WorkState /\ w.at = at /\ w.pos = work[r].pos /\ w.class = work[r].class
  BY <1>1, AtFits
<1>3. job' = job /\ work' = [work EXCEPT ![r] = w]
  BY DEF To
<1> HIDE DEF w
<1>4. RowsStay /\ stored' \in [Messages -> {"none"} \cup Class] /\ media' \in [Messages -> Nat]
  BY DEF JobsOK, RowsStay
<1>5. /\ w.class # "none" => stored[Current(r)] # "none"
      /\ w.class = "eligible" => DirectionOf[Current(r)] = "inbound" /\ ~resolveSender(Current(r))
      /\ r[1] \in Batches => w.class \in {"none", "duplicate", "backfill"}
  BY <1>2, Reached
<1> QED  BY <1>2, <1>3, <1>4, <1>5, StaysWith

LEMMA NextStays ==
  ASSUME JobsOK, NEW r \in Runs, work[r].at \in Ats, NextEvent(r), UNCHANGED <<stored, media, expired>>,
         Whole(stored, media, Current(r))
  PROVE  JobsOK'
<1>1. RowsStay /\ stored' \in [Messages -> {"none"} \cup Class] /\ media' \in [Messages -> Nat]
  BY DEF JobsOK, RowsStay
<1> QED  BY <1>1, NextKept

LEMMA FindKept == ASSUME JobsOK, NEW r \in Runs, Find(r) PROVE JobsOK'
<1>1. work[r].at = "find" /\ work[r].at \in Ats /\ UNCHANGED <<stored, media, expired>>
  BY DEF Find, Ats, messageVars
<1>2. work[r].class = "none" /\ work[r] \in WorkState /\ Current(r) \in Messages
  BY <1>1, Reached
<1>3. CASE ~IsDuplicate(Current(r))
  <2>1. To(r, "insert")
    BY <1>3 DEF Find
  <2> QED  BY <1>1, <1>2, <2>1, GoesTo DEF Ats
<1>4. CASE IsDuplicate(Current(r)) /\ CompletesMedia(Current(r))
  <2> DEFINE w == [work[r] EXCEPT !.at = "mediaFind", !.class = "duplicate"]
  <2>1. /\ w \in WorkState /\ w.at = "mediaFind" /\ w.class = "duplicate" /\ w.pos = work[r].pos
    BY <1>2 DEF WorkState
  <2>2. job' = job /\ work' = [work EXCEPT ![r] = w]
    BY <1>4 DEF Find
  <2> HIDE DEF w
  <2>3. RowsStay /\ stored' \in [Messages -> {"none"} \cup Class] /\ media' \in [Messages -> Nat]
    BY <1>1 DEF JobsOK, RowsStay
  <2>4. stored'[Current(r)] # "none"
    BY <1>1, <1>4 DEF IsDuplicate
  <2> QED  BY <1>1, <2>1, <2>2, <2>3, <2>4, StaysWith
<1>5. CASE IsDuplicate(Current(r)) /\ ~CompletesMedia(Current(r))
  <2>1. NextEvent(r) /\ Whole(stored, media, Current(r))
    BY <1>5 DEF Find, IsDuplicate, CompletesMedia, Whole
  <2> QED  BY <1>1, <2>1, NextStays
<1> QED  BY <1>3, <1>4, <1>5

\* What an insert leaves: the class the worker found for its event.
LEMMA InsertDoes ==
  ASSUME NEW r \in Runs, Insert(r), Current(r) \in Messages
  PROVE  \E class \in Class :
           /\ stored' = [stored EXCEPT ![Current(r)] = Inserted(Current(r), class)]
           /\ work' = [work EXCEPT ![r].class = class,
                                   ![r].at = IF Current(r) \in HasMedia THEN "mediaFind" ELSE "touch"]
           /\ r[1] \in Batches => class = "backfill"
           /\ class = "eligible" => /\ DirectionOf[Current(r)] = "inbound"
                                    /\ ~resolveSender(Current(r))
<1> DEFINE m == Current(r)
<1>1. PICK mapping \in Mappings, syncing \in BOOLEAN, restricted \in BOOLEAN, now \in TimeOf[m] .. Now :
        LET class == ClassName(Classify(r[1], m, mapping, syncing, restricted, now)) IN
        /\ stored' = [stored EXCEPT ![m] = Inserted(m, class)]
        /\ work' = [work EXCEPT ![r].class = class,
                                ![r].at = IF m \in HasMedia THEN "mediaFind" ELSE "touch"]
  BY DEF Insert, getOrCreateChannel
<1> DEFINE class == ClassName(Classify(r[1], m, mapping, syncing, restricted, now))
<1>2. /\ class \in Class /\ (r[1] \in Batches => class = "backfill")
      /\ class = "eligible" => DirectionOf[m] = "inbound" /\ ~resolveSender(m)
  BY RunsAreRuns, ClassFits
<1> HIDE DEF class
<1>3. /\ stored' = [stored EXCEPT ![m] = Inserted(m, class)]
      /\ work' = [work EXCEPT ![r].class = class,
                              ![r].at = IF m \in HasMedia THEN "mediaFind" ELSE "touch"]
  BY <1>1 DEF class
<1> QED  BY <1>2, <1>3

LEMMA InsertKept == ASSUME JobsOK, NEW r \in Runs, Insert(r) PROVE JobsOK' /\ RowsStay
<1> DEFINE m == Current(r)
<1>1. work[r].at = "insert" /\ work[r].at \in Ats /\ UNCHANGED <<job, media, expired>>
  BY DEF Insert, Ats
<1>2. work[r] \in WorkState /\ m \in Messages
  BY <1>1, Reached
<1>3. PICK class \in Class :
        /\ stored' = [stored EXCEPT ![m] = Inserted(m, class)]
        /\ work' = [work EXCEPT ![r].class = class,
                                ![r].at = IF m \in HasMedia THEN "mediaFind" ELSE "touch"]
        /\ r[1] \in Batches => class = "backfill"
        /\ class = "eligible" => DirectionOf[m] = "inbound" /\ ~resolveSender(m)
  BY <1>2, InsertDoes
<1> DEFINE w == [work[r] EXCEPT !.class = class, !.at = IF m \in HasMedia THEN "mediaFind" ELSE "touch"]
<1>4. /\ w \in WorkState /\ w.at = IF m \in HasMedia THEN "mediaFind" ELSE "touch"
      /\ w.class = class /\ w.pos = work[r].pos
  BY <1>2 DEF WorkState
<1>5. work' = [work EXCEPT ![r] = w]
  BY <1>3
<1> HIDE DEF w
<1>6. "none" \notin Class /\ "duplicate" \notin Class
  BY DEF Class
<1>7. /\ stored' \in [Messages -> {"none"} \cup Class] /\ stored'[m] # "none"
      /\ \A k \in Messages : stored[k] # "none" => stored'[k] = stored[k]
  BY <1>2, <1>3, <1>6 DEF JobsOK, Inserted
<1>8. RowsStay
  BY <1>1, <1>7 DEF RowsStay
<1>9. media' \in [Messages -> Nat]
  BY <1>1 DEF JobsOK
<1>10. JobsOK'
  BY <1>1, <1>3, <1>4, <1>5, <1>6, <1>7, <1>8, <1>9, StaysWith
<1> QED  BY <1>8, <1>10

\* A complete media row sends a duplicate on, and everybody else to the channel.
LEMMA MediaKept == ASSUME JobsOK, NEW r \in Runs, MediaFind(r) \/ MediaInsert(r) PROVE JobsOK' /\ RowsStay
<1> DEFINE m == Current(r)
<1>1. work[r].at \in {"mediaFind", "mediaInsert"} /\ work[r].at \in Ats /\ UNCHANGED <<stored, expired>>
  BY DEF MediaFind, MediaInsert, Ats, messageVars
<1>2. /\ work[r] \in WorkState /\ m \in Messages /\ work[r].class # "none" /\ stored[m] # "none"
      /\ work[r].class = "eligible" => DirectionOf[m] = "inbound" /\ ~resolveSender(m)
      /\ r[1] \in Batches => work[r].class \in {"none", "duplicate", "backfill"}
  BY <1>1, Reached
<1>3. CASE MediaFind(r) /\ media[m] > 0
  <2>1. AfterMedia(r) /\ UNCHANGED <<stored, media, expired>>
    BY <1>3 DEF MediaFind, messageVars
  <2>2. CASE work[r].class = "duplicate"
    <3>1. NextEvent(r) /\ Whole(stored, media, m)
      BY <1>2, <1>3, <2>1, <2>2 DEF AfterMedia, Whole
    <3> QED  BY <1>1, <2>1, <3>1, NextStays DEF RowsStay
  <2>3. CASE work[r].class # "duplicate"
    <3>1. To(r, "touch")
      BY <2>1, <2>3 DEF AfterMedia
    <3>2. JobsOK'
      BY <1>1, <1>2, <1>3, <2>1, <2>3, <3>1, GoesTo DEF Ats
    <3> QED  BY <2>1, <3>2 DEF RowsStay
  <2> QED  BY <2>2, <2>3
<1>4. CASE MediaFind(r) /\ ~(media[m] > 0)
  <2>1. To(r, "mediaInsert") /\ UNCHANGED <<stored, media, expired>>
    BY <1>4 DEF MediaFind, messageVars
  <2>2. JobsOK'
    BY <1>1, <1>2, <2>1, GoesTo DEF Ats
  <2> QED  BY <2>1, <2>2 DEF RowsStay
<1>5. CASE MediaInsert(r)
  <2> DEFINE at == IF work[r].class = "duplicate" THEN "fetch" ELSE "touch"
             w == [work[r] EXCEPT !.fetch = TRUE, !.at = at]
  <2>1. /\ w \in WorkState /\ w.at = at /\ w.class = work[r].class /\ w.pos = work[r].pos
    BY <1>2 DEF WorkState
  <2>2. /\ work' = [work EXCEPT ![r] = w] /\ job' = job
        /\ media' = [media EXCEPT ![m] = @ + 1]
    BY <1>5 DEF MediaInsert
  <2> HIDE DEF w
  <2>3. media' \in [Messages -> Nat] /\ media'[m] > 0 /\ \A k \in Messages : media'[k] >= media[k]
    BY <1>2, <2>2 DEF JobsOK
  <2>4. RowsStay
    BY <1>1, <2>3 DEF RowsStay, JobsOK
  <2>5. stored' \in [Messages -> {"none"} \cup Class]
    BY <1>1 DEF JobsOK
  <2>6. JobsOK'
    BY <1>1, <1>2, <2>1, <2>2, <2>3, <2>4, <2>5, StaysWith
  <2> QED  BY <2>4, <2>6
<1> QED  BY <1>3, <1>4, <1>5

LEMMA TellKept ==
  ASSUME JobsOK, NEW r \in Runs, Touch(r) \/ Clock(r) \/ Stamp(r) \/ Notify(r) \/ Fetch(r)
  PROVE  JobsOK'
<1> DEFINE m == Current(r)
<1>1. /\ work[r].at \in {"touch", "clock", "stamp", "notify", "fetch"} /\ work[r].at \in Ats
      /\ UNCHANGED <<stored, media, expired>>
  BY DEF Touch, Clock, Stamp, Notify, Fetch, Ats, messageVars
<1>2. /\ work[r].class # "none" /\ Whole(stored, media, m)
      /\ work[r].at # "fetch" => work[r].class # "duplicate"
  BY <1>1, Reached DEF Whole
<1>3. m \in HasMedia => media[m] > 0
  BY <1>2 DEF Whole
<1>4. CASE \E at \in {"clock", "stamp", "notify"} :
             To(r, at) /\ work[r].at # "fetch" /\ (at = "stamp" => DirectionOf[m] = "outbound")
  BY <1>1, <1>2, <1>3, <1>4, GoesTo DEF Ats
<1>5. CASE To(r, "fetch")
  BY <1>1, <1>2, <1>3, <1>5, GoesTo DEF Ats
<1>6. CASE NextEvent(r)
  BY <1>1, <1>2, <1>6, NextStays
<1>7. CASE Clock(r)
  <2>1. work[r].at = "clock" /\ To(r, IF DirectionOf[m] = "outbound" THEN "stamp" ELSE "notify")
    BY <1>7 DEF Clock
  <2>2. CASE DirectionOf[m] = "outbound"
    BY <2>1, <2>2, <1>4
  <2>3. CASE DirectionOf[m] # "outbound"
    BY <2>1, <2>3, <1>4
  <2> QED  BY <2>2, <2>3
<1>8. CASE Touch(r) \/ Stamp(r)
  BY <1>4, <1>8 DEF Touch, Stamp
<1>9. CASE Notify(r) \/ Fetch(r)
  BY <1>5, <1>6, <1>9 DEF Notify, Fetch
<1> QED  BY <1>7, <1>8, <1>9

-----------------------------------------------------------------------------
(* The steps of all of them. *)

\* Failing and dying end a run.
LEMMA EndedKept ==
  ASSUME JobsOK, NEW r \in Runs, Throw(r) \/ Crash(r)
  PROVE  JobsOK'
<1>1. RowsStay /\ stored' \in [Messages -> {"none"} \cup Class] /\ media' \in [Messages -> Nat]
  BY DEF JobsOK, RowsStay, Throw, Crash, messageVars
<1>2. work[r] # Idle /\ expired' = expired /\ \E state \in {"waiting", "failed"} : Ends(r, state)
  BY DEF Throw, Crash, AfterStall
<1> QED  BY <1>1, <1>2, RunEnds

\* A worker that takes a job puts its run at the start.
LEMMA TakenKept ==
  ASSUME JobsOK, NEW j \in Jobs, Take(j)
  PROVE  JobsOK'
<1> DEFINE r == Holder(j)
<1>1. /\ RowsStay /\ stored' \in [Messages -> {"none"} \cup Class] /\ media' \in [Messages -> Nat]
      /\ expired' = expired
  BY DEF JobsOK, RowsStay, Take, messageVars
<1>2. r \in Runs /\ r[1] = j /\ <<j, 2>> \in Runs /\ Holder(j)' = Holder(j)
  BY <1>1, RunsAreRuns DEF Holder
<1>3. 1 \in 1 .. Len(EventsOf(j)) /\ \A i \in 1 .. 1 - 1 : FALSE
  BY EventsFit
<1>4. Fits(Start(1), j, stored', media') /\ Start(1) \in WorkState /\ Start(1) # Idle
  BY <1>3, AtFirst, BusyIsNotIdle
<1>5. job' = [job EXCEPT ![j] = "active"] /\ work' = [work EXCEPT ![r] = Start(1)] /\ job[j] = "waiting"
  BY DEF Take
<1>6. job' \in [Jobs -> JobStates] /\ job'[j] = "active" /\ \A k \in Jobs : k # j => job'[k] = job[k]
  BY <1>5 DEF JobsOK, JobStates
<1>7. work'[r] = Start(1) /\ work'[<<j, 2>>] # Idle => j \in expired
  <2>1. JobFits(j)
    BY DEF JobsOK
  <2>2. CASE r = <<j, 2>>
    BY <2>2 DEF Holder
  <2>3. CASE r # <<j, 2>>
    BY <1>2, <1>5, <2>1, <2>3 DEF JobsOK, JobFits
  <2> QED  BY <2>2, <2>3
<1>8. work'[r] = Start(1)
  BY <1>2, <1>5 DEF JobsOK
<1>9. JobFits(j)'
  BY <1>1, <1>2, <1>4, <1>6, <1>7, <1>8 DEF JobFits
<1> HIDE DEF r
<1> QED  BY <1>1, <1>2, <1>4, <1>5, <1>6, <1>9, JobChanges

\* A lock expires: the run goes on, and the next one of the job has a place of its own.
LEMMA ExpiredKept ==
  ASSUME JobsOK, RestOK, NEW j \in Jobs, Expire(j)
  PROVE  JobsOK'
<1>1. /\ UNCHANGED <<work, stored, media>> /\ job[j] = "active"
      /\ job' = [job EXCEPT ![j] = AfterStall(j)]
      /\ expired' = IF j \in stalled THEN expired ELSE expired \cup {j}
  BY DEF Expire, messageVars
<1>2. /\ job' \in [Jobs -> JobStates] /\ job'[j] = AfterStall(j)
      /\ \A k \in Jobs : k # j => job'[k] = job[k]
  BY <1>1 DEF JobsOK, JobStates, AfterStall
<1>3. ASSUME NEW k \in Jobs PROVE JobFits(k)'
  <2>1. JobFits(k)
    BY DEF JobsOK
  <2>2. CASE k # j
    <3>1. (k \in expired') = (k \in expired) /\ job'[k] = job[k]
      BY <1>1, <1>2, <2>2
    <3>2. Holder(k)' = Holder(k)
      BY <3>1 DEF Holder
    <3> QED  BY <1>1, <2>1, <3>1, <3>2 DEF JobFits, Complete
  <2>3. CASE k = j /\ j \in stalled
    BY <1>1, <1>2, <2>1, <2>3 DEF JobFits, AfterStall
  <2>4. CASE k = j /\ j \notin stalled
    <3>1. j \notin expired /\ j \in expired' /\ job'[j] = "waiting"
      BY <1>1, <1>2, <2>4 DEF RestOK, AfterStall
    <3>2. Holder(j)' = <<j, 2>> /\ work[<<j, 2>>] = Idle
      BY <2>1, <2>4, <3>1 DEF Holder, JobFits
    <3> QED  BY <1>1, <2>4, <3>1, <3>2 DEF JobFits
  <2> QED  BY <2>2, <2>3, <2>4
<1> QED  BY <1>1, <1>2, <1>3 DEF JobsOK

\* A job is queued.
LEMMA QueuedKept ==
  ASSUME JobsOK, NEW j \in Jobs, job[j] = "absent", job' = [job EXCEPT ![j] = "waiting"],
         UNCHANGED <<work, stored, media, expired>>
  PROVE  JobsOK'
<1>1. /\ job' \in [Jobs -> JobStates] /\ job'[j] = "waiting"
      /\ \A k \in Jobs : k # j => job'[k] = job[k]
  BY DEF JobsOK, JobStates
<1>2. ASSUME NEW k \in Jobs PROVE JobFits(k)'
  <2>1. JobFits(k) /\ Holder(k)' = Holder(k)
    BY DEF JobsOK, Holder
  <2> QED  BY <1>1, <2>1 DEF JobFits, Complete
<1> QED  BY <1>1, <1>2 DEF JobsOK

\* The step of a run, as far as others see it.  A run that may still push its message had not
\* found it, and may push it before; one that has stored it moves the marker, or did so; one that
\* is about to insert a media row found none.
PushAts == {"insert", "mediaFind", "mediaInsert", "touch", "clock", "stamp", "notify"}
MarkAts == {"mediaFind", "mediaInsert", "touch"}
Pushing(w) == w.at \in PushAts /\ w.class # "duplicate"
Marks(w) == w.at \in MarkAts /\ w.class # "duplicate"
Racing(w) == w.at = "mediaInsert"

StepShape(r, w) ==
  /\ work' = [work EXCEPT ![r] = w]
  /\ Pushing(w) => Pushing(work[r]) \/ stored[Current(r)] = "none"
  /\ Marks(work[r]) => work[r].at = "touch" \/ (Marks(w) /\ w.pos = work[r].pos)
  /\ Racing(w) => ~(media[Current(r)] > 0) /\ w.pos = work[r].pos /\ ~MediaInsert(r)

LEMMA NotPushing ==
  /\ ~Pushing(Idle) /\ ~Marks(Idle) /\ ~Racing(Idle)
  /\ \A pos : ~Pushing(Start(pos)) /\ ~Marks(Start(pos)) /\ ~Racing(Start(pos))
  BY DEF Pushing, Marks, Racing, PushAts, MarkAts, Idle, Start

LEMMA NextShape ==
  ASSUME NEW r \in Runs, NextEvent(r), ~Marks(work[r])
  PROVE  \E w : StepShape(r, w) /\ ~Pushing(w)
<1>1. PICK w : work' = [work EXCEPT ![r] = w] /\ (w = Idle \/ w = Start(work[r].pos + 1))
  BY DEF NextEvent, Ends
<1>2. ~Pushing(w) /\ ~Racing(w)
  BY <1>1, NotPushing
<1> QED  BY <1>1, <1>2 DEF StepShape

LEMMA ToShape ==
  ASSUME JobsOK, NEW r \in Runs, work[r].at \in Ats, NEW at \in Ats, To(r, at),
         at \in PushAts /\ work[r].class # "duplicate" =>
           Pushing(work[r]) \/ stored[Current(r)] = "none",
         Marks(work[r]) => work[r].at = "touch" \/ at \in MarkAts,
         at = "mediaInsert" => ~(media[Current(r)] > 0) /\ ~MediaInsert(r)
  PROVE  \E w : StepShape(r, w) /\ w.at = at
<1> DEFINE w == [work[r] EXCEPT !.at = at]
<1>1. w.at = at /\ w.class = work[r].class /\ w.pos = work[r].pos
  BY Reached, AtFits
<1>2. work' = [work EXCEPT ![r] = w]
  BY DEF To
<1> HIDE DEF w
<1>3. StepShape(r, w)
  BY <1>1, <1>2 DEF StepShape, Pushing, Marks, Racing
<1> QED  BY <1>1, <1>3

LEMMA Shapes ==
  ASSUME JobsOK, NEW r \in Runs, Normalize(r)
  PROVE  \E w : /\ StepShape(r, w)
                /\ Notify(r) => ~Pushing(w)
                /\ Insert(r) => Marks(w) /\ w.pos = work[r].pos
<1>1. CASE Find(r)
  <2>1. /\ work[r].at = "find" /\ work[r].at \in Ats /\ ~Marks(work[r])
        /\ ~Notify(r) /\ ~Insert(r)
    BY <1>1 DEF Find, Notify, Insert, Ats, Marks, MarkAts
  <2>2. CASE ~IsDuplicate(Current(r))
    <3>1. To(r, "insert") /\ stored[Current(r)] = "none"
      BY <1>1, <2>2 DEF Find, IsDuplicate
    <3>2. \E w : StepShape(r, w)
      BY <2>1, <3>1, ToShape DEF Ats
    <3> QED  BY <2>1, <3>2
  <2>3. CASE IsDuplicate(Current(r)) /\ CompletesMedia(Current(r))
    <3> DEFINE w == [work[r] EXCEPT !.at = "mediaFind", !.class = "duplicate"]
    <3>1. work' = [work EXCEPT ![r] = w]
      BY <1>1, <2>3 DEF Find
    <3>2. w.class = "duplicate" /\ w.at = "mediaFind"
      BY <2>1, Reached, BusyIsNotIdle
    <3> HIDE DEF w
    <3>3. StepShape(r, w)
      BY <2>1, <3>1, <3>2 DEF StepShape, Pushing, Racing
    <3> QED  BY <2>1, <3>3
  <2>4. CASE IsDuplicate(Current(r)) /\ ~CompletesMedia(Current(r))
    <3>1. NextEvent(r)
      BY <1>1, <2>4 DEF Find
    <3> QED  BY <2>1, <3>1, NextShape
  <2> QED  BY <2>2, <2>3, <2>4
<1>2. CASE Insert(r)
  <2>1. work[r].at = "insert" /\ work[r].at \in Ats /\ ~Notify(r)
    BY <1>2 DEF Insert, Notify, Ats
  <2>2. work[r] \in WorkState /\ work[r].class = "none" /\ Current(r) \in Messages
    BY <2>1, Reached
  <2>3. PICK class \in Class :
          work' = [work EXCEPT ![r].class = class,
                               ![r].at = IF Current(r) \in HasMedia THEN "mediaFind" ELSE "touch"]
    BY <1>2, <2>2, InsertDoes
  <2> DEFINE at == IF Current(r) \in HasMedia THEN "mediaFind" ELSE "touch"
  <2> DEFINE w == [work[r] EXCEPT !.class = class, !.at = at]
  <2>4. w.at = at /\ w.class = class /\ w.pos = work[r].pos
    BY <2>2 DEF WorkState
  <2>5. work' = [work EXCEPT ![r] = w]
    BY <2>3
  <2> HIDE DEF w
  <2>6. StepShape(r, w) /\ Marks(w)
    BY <2>1, <2>2, <2>4, <2>5 DEF StepShape, Pushing, Marks, Racing, PushAts, MarkAts, Class
  <2> QED  BY <2>1, <2>4, <2>6
<1>3. CASE MediaFind(r)
  <2>1. /\ work[r].at = "mediaFind" /\ work[r].at \in Ats
        /\ ~Notify(r) /\ ~Insert(r) /\ ~MediaInsert(r)
    BY <1>3 DEF MediaFind, MediaInsert, Notify, Insert, Ats
  <2>2. {"mediaInsert", "touch"} \subseteq Ats \cap MarkAts /\ (work[r].class # "duplicate" => Pushing(work[r]))
    BY <2>1 DEF Ats, MarkAts, PushAts, Pushing
  <2>3. CASE ~(media[Current(r)] > 0)
    <3>1. To(r, "mediaInsert")
      BY <1>3, <2>3 DEF MediaFind
    <3>2. \E w : StepShape(r, w)
      BY <2>1, <2>2, <2>3, <3>1, ToShape
    <3> QED  BY <2>1, <3>2
  <2>4. CASE media[Current(r)] > 0 /\ work[r].class # "duplicate"
    <3>1. To(r, "touch")
      BY <1>3, <2>4 DEF MediaFind, AfterMedia
    <3>2. \E w : StepShape(r, w)
      BY <2>1, <2>2, <3>1, ToShape
    <3> QED  BY <2>1, <3>2
  <2>5. CASE media[Current(r)] > 0 /\ work[r].class = "duplicate"
    <3>1. NextEvent(r) /\ ~Marks(work[r])
      BY <1>3, <2>5 DEF MediaFind, AfterMedia, Marks
    <3> QED  BY <2>1, <3>1, NextShape
  <2> QED  BY <2>3, <2>4, <2>5
<1>4. CASE MediaInsert(r)
  <2>1. work[r].at = "mediaInsert" /\ work[r].at \in Ats /\ ~Notify(r) /\ ~Insert(r)
    BY <1>4 DEF MediaInsert, Notify, Insert, Ats
  <2> DEFINE w == [work[r] EXCEPT !.fetch = TRUE,
                                  !.at = IF work[r].class = "duplicate" THEN "fetch" ELSE "touch"]
  <2>2. /\ w.at = IF work[r].class = "duplicate" THEN "fetch" ELSE "touch"
        /\ w.class = work[r].class /\ w.pos = work[r].pos
    BY <2>1, Reached, BusyIsNotIdle
  <2>3. work' = [work EXCEPT ![r] = w]
    BY <1>4 DEF MediaInsert
  <2> HIDE DEF w
  <2>4. StepShape(r, w)
    BY <2>1, <2>2, <2>3 DEF StepShape, Pushing, Marks, Racing, PushAts, MarkAts
  <2> QED  BY <2>1, <2>4
<1>5. CASE Touch(r)
  <2>1. work[r].at = "touch" /\ work[r].at \in Ats /\ To(r, "clock") /\ ~Notify(r) /\ ~Insert(r)
    BY <1>5 DEF Touch, Notify, Insert, Ats
  <2>2. "clock" \in Ats /\ (work[r].class # "duplicate" => Pushing(work[r]))
    BY <2>1 DEF Ats, Pushing, PushAts
  <2>3. \E w : StepShape(r, w)
    BY <2>1, <2>2, ToShape
  <2> QED  BY <2>1, <2>3
<1>6. CASE Clock(r) \/ Stamp(r)
  <2>1. /\ work[r].at \in {"clock", "stamp"} /\ work[r].at \in Ats /\ ~Notify(r) /\ ~Insert(r)
        /\ \E at \in {"stamp", "notify"} : To(r, at)
    BY <1>6 DEF Clock, Stamp, Notify, Insert, Ats
  <2>2. PICK at \in {"stamp", "notify"} : To(r, at)
    BY <2>1
  <2>3. at \in Ats /\ (work[r].class # "duplicate" => Pushing(work[r])) /\ ~Marks(work[r])
    BY <2>1 DEF Ats, Pushing, PushAts, Marks, MarkAts
  <2>4. \E w : StepShape(r, w)
    BY <2>1, <2>2, <2>3, ToShape
  <2> QED  BY <2>1, <2>4
<1>7. CASE Notify(r)
  <2>1. work[r].at = "notify" /\ work[r].at \in Ats /\ ~Insert(r) /\ ~Marks(work[r])
    BY <1>7 DEF Insert, Notify, Ats, Marks, MarkAts
  <2>2. CASE To(r, "fetch")
    <3>1. "fetch" \in Ats /\ "fetch" \notin PushAts
      BY DEF Ats, PushAts
    <3>2. \E w : StepShape(r, w) /\ w.at = "fetch"
      BY <2>1, <2>2, <3>1, ToShape
    <3> QED  BY <2>1, <3>1, <3>2 DEF Pushing
  <2>3. CASE NextEvent(r)
    BY <2>1, <2>3, NextShape
  <2> QED  BY <1>7, <2>2, <2>3 DEF Notify
<1>8. CASE Fetch(r)
  <2>1. work[r].at = "fetch" /\ ~Insert(r) /\ ~Notify(r) /\ ~Marks(work[r]) /\ NextEvent(r)
    BY <1>8 DEF Insert, Notify, Fetch, Marks, MarkAts
  <2> QED  BY <2>1, NextShape
<1> QED  BY <1>1, <1>2, <1>3, <1>4, <1>5, <1>6, <1>7, <1>8 DEF Normalize

-----------------------------------------------------------------------------
(* The gateway, and the steps that lead to a job. *)

Worker(r) == Normalize(r) \/ Throw(r) \/ Crash(r)
Locking(j) == Take(j) \/ Expire(j)
Working == (\E r \in Runs : Worker(r)) \/ \E j \in Jobs : Locking(j)

\* A request that is still worked on has queued nothing; what is queued was posted.
GatewayOK ==
  /\ post \in [Messages -> {"unseen", "posting", "answered", "dropped"}]
  /\ posts \in [Messages -> 0 .. MaxPosts]
  /\ requests \subseteq LiveJobs
  /\ \A m \in Messages : post[m] = "unseen" <=> posts[m] = 0
  /\ \A p \in requests : p[2] <= posts[p[1]] /\ job[p] = "absent"
  /\ \A p \in LiveJobs : job[p] # "absent" => p[2] <= posts[p[1]]

LEMMA PostsAreNumbers ==
  MaxPosts \in Nat \ {0} /\ 0 .. MaxPosts \subseteq Nat /\ \A p \in LiveJobs :
    p[1] \in Messages /\ p[2] \in 1 .. MaxPosts /\ p[2] \in Nat /\ p = <<p[1], p[2]>> /\ p \in Jobs
<1>1. MaxPosts \in Nat \ {0}
  BY IngestAssumption
<1> QED  BY <1>1 DEF LiveJobs, Jobs

\* A worker queues nothing and takes nothing back.
LEMMA WorkerKeepsGateway ==
  ASSUME JobsOK, Working
  PROVE  UNCHANGED gatewayVars /\ \A k \in Jobs : job'[k] = "absent" <=> job[k] = "absent"
<1>1. ASSUME NEW r \in Runs, Worker(r)
      PROVE  UNCHANGED gatewayVars /\ \A k \in Jobs : job'[k] = "absent" <=> job[k] = "absent"
  <2>0. r[1] \in Jobs
    BY RunsAreRuns
  <2>1. UNCHANGED gatewayVars
    BY <1>1 DEF Worker, Throw, Crash, Normalize, Find, Insert, MediaFind, MediaInsert, Touch, Clock, Stamp,
                Notify, Fetch
  <2>2. job' = job \/ \E state \in {"waiting", "failed", "done"} : Ends(r, state)
    BY <1>1 DEF Worker, Throw, Crash, AfterStall, Normalize, Find, Insert, MediaFind, MediaInsert, Touch, Clock,
                Stamp, Notify, Fetch, AfterMedia, To, NextEvent
  <2>3. ASSUME NEW state \in {"waiting", "failed", "done"}, Ends(r, state)
        PROVE  \A k \in Jobs : job'[k] = "absent" <=> job[k] = "absent"
    <3>1. job' = [job EXCEPT ![r[1]] = IF Holds(r) THEN state ELSE @] /\ (Holds(r) => job[r[1]] = "active")
      BY <2>3 DEF Ends, Holds
    <3> QED  BY <2>0, <3>1 DEF JobsOK
  <2> QED  BY <2>1, <2>2, <2>3
<1>2. ASSUME NEW j \in Jobs, Locking(j)
      PROVE  UNCHANGED gatewayVars /\ \A k \in Jobs : job'[k] = "absent" <=> job[k] = "absent"
  <2>1. /\ UNCHANGED gatewayVars /\ job[j] \in {"waiting", "active"}
        /\ \E x \in {"waiting", "active", "failed"} : job' = [job EXCEPT ![j] = x]
    BY <1>2 DEF Locking, Take, Expire, AfterStall
  <2> QED  BY <2>1 DEF JobsOK
<1> QED  BY <1>1, <1>2 DEF Working

\* The other steps leave the workers alone.
LEMMA OthersKeepWork ==
  ASSUME [Next]_vars, ~Working
  PROVE  UNCHANGED <<work, stored, media, fetches, pushes, tries, stalled, expired>>
<1>1. \/ Webhook
      \/ \E b \in Batches : SyncHistory(b)
      \/ \E m \in Messages : ReadTicketSource(m)
      \/ InsertTicket \/ UpdateTicket
      \/ UNCHANGED vars
  BY DEF Next, Working, Worker, Locking
<1> QED  BY <1>1 DEF Webhook, Receive, Answer, PostFails, Accept, SyncHistory, ReadTicketSource, InsertTicket,
                     UpdateTicket, vars, gatewayVars, jobVars, messageVars

LEMMA PostedKept ==
  ASSUME GatewayOK, NEW m \in Messages, NEW n \in 1 .. MaxPosts, n = posts[m] + 1,
         posts' = [posts EXCEPT ![m] = n], post' \in [Messages -> {"posting", "answered", "dropped", "unseen"}],
         post'[m] # "unseen", \A k \in Messages \ {m} : post'[k] = post[k],
         requests' \subseteq requests \cup {<<m, n>>}, job' = job
  PROVE  GatewayOK'
<1>1. <<m, n>> \in LiveJobs
  BY DEF LiveJobs
<1>2. posts' \in [Messages -> 0 .. MaxPosts] /\ \A k \in Messages : posts'[k] >= posts[k]
  BY PostsAreNumbers DEF GatewayOK
<1>3. requests' \subseteq LiveJobs
  BY <1>1 DEF GatewayOK
<1>4. posts'[m] = n /\ n \in Nat \ {0} /\ posts[m] \in Nat
  BY PostsAreNumbers DEF GatewayOK
<1>5. \A k \in Messages : post'[k] = "unseen" <=> posts'[k] = 0
  BY <1>4 DEF GatewayOK
<1>6. \A p \in LiveJobs : p[2] <= posts[p[1]] => p[2] <= posts'[p[1]]
  BY <1>2, PostsAreNumbers DEF GatewayOK
<1>7. \A p \in LiveJobs : job'[p] # "absent" => p[2] <= posts'[p[1]]
  BY <1>6 DEF GatewayOK
<1>8. <<m, n>>[2] <= posts'[<<m, n>>[1]] /\ job'[<<m, n>>] = "absent"
  <2>1. <<m, n>>[1] = m /\ <<m, n>>[2] = n /\ ~(n <= posts[m])
    BY <1>4
  <2> QED  BY <1>1, <1>4, <2>1 DEF GatewayOK
<1>9. \A p \in requests' : p[2] <= posts'[p[1]] /\ job'[p] = "absent"
  BY <1>6, <1>8 DEF GatewayOK
<1> QED  BY <1>2, <1>3, <1>5, <1>7, <1>9 DEF GatewayOK

LEMMA GatewayStep == ASSUME JobsOK, GatewayOK, [Next]_vars PROVE GatewayOK'
<1>1. CASE UNCHANGED gatewayVars /\ \A k \in Jobs : job'[k] = "absent" <=> job[k] = "absent"
  BY <1>1, PostsAreNumbers DEF GatewayOK, gatewayVars
<1>2. ASSUME NEW m \in Messages, Receive(m) PROVE GatewayOK'
  <2>1. post[m] = "unseen" /\ posts[m] = 0 /\ 1 \in 1 .. MaxPosts /\ 1 = posts[m] + 1
    BY <1>2, PostsAreNumbers DEF Receive, GatewayOK
  <2>2. /\ post' = [post EXCEPT ![m] = "posting"] /\ posts' = [posts EXCEPT ![m] = 1]
        /\ requests' = requests \cup {<<m, 1>>} /\ job' = job
    BY <1>2 DEF Receive, jobVars
  <2>3. /\ post' \in [Messages -> {"posting", "answered", "dropped", "unseen"}]
        /\ post'[m] # "unseen" /\ \A k \in Messages \ {m} : post'[k] = post[k]
    BY <2>2 DEF GatewayOK
  <2> QED  BY <2>1, <2>2, <2>3, PostedKept
<1>3. ASSUME NEW m \in Messages, Answer(m) PROVE GatewayOK'
  <2>1. /\ post[m] = "posting" /\ post' = [post EXCEPT ![m] = "answered"]
        /\ UNCHANGED <<posts, requests, job>>
    BY <1>3 DEF Answer, jobVars
  <2> QED  BY <2>1 DEF GatewayOK
<1>4. ASSUME NEW m \in Messages, PostFails(m) PROVE GatewayOK'
  <2>1. PICK left \in SUBSET requests :
          /\ post[m] = "posting" /\ job' = job
          /\ IF posts[m] < MaxPosts
               THEN /\ requests' = left \cup {<<m, posts[m] + 1>>}
                    /\ posts' = [posts EXCEPT ![m] = @ + 1]
                    /\ UNCHANGED post
               ELSE /\ requests' = left
                    /\ post' = [post EXCEPT ![m] = "dropped"]
                    /\ UNCHANGED posts
    BY <1>4 DEF PostFails, jobVars
  <2>2. CASE posts[m] < MaxPosts
    <3> DEFINE n == posts[m] + 1
    <3>1. n \in 1 .. MaxPosts
      BY <2>2, PostsAreNumbers DEF GatewayOK
    <3>2. posts' = [posts EXCEPT ![m] = n] /\ requests' = left \cup {<<m, n>>} /\ post' = post
      BY <2>1, <2>2
    <3>3. post' \in [Messages -> {"posting", "answered", "dropped", "unseen"}] /\ post'[m] # "unseen"
      BY <2>1, <3>2 DEF GatewayOK
    <3> HIDE DEF n
    <3>4. n = posts[m] + 1
      BY DEF n
    <3> QED  BY <2>1, <3>1, <3>2, <3>3, <3>4, PostedKept
  <2>3. CASE ~(posts[m] < MaxPosts)
    BY <2>1, <2>3 DEF GatewayOK
  <2> QED  BY <2>2, <2>3
<1>5. ASSUME NEW p \in LiveJobs, Accept(p) PROVE GatewayOK'
  <2>1. /\ p \in requests /\ requests' = requests \ {p} /\ job' = [job EXCEPT ![p] = "waiting"]
        /\ UNCHANGED <<post, posts>>
    BY <1>5 DEF Accept
  <2> QED  BY <2>1, PostsAreNumbers DEF GatewayOK, JobsOK
<1>6. ASSUME NEW b \in Batches, SyncHistory(b) PROVE GatewayOK'
  <2>1. job' = [job EXCEPT ![b] = "waiting"] /\ UNCHANGED <<post, posts, requests>>
    BY <1>6 DEF SyncHistory, gatewayVars
  <2>2. b \notin LiveJobs
    BY EventsFit DEF Jobs
  <2> QED  BY <2>1, <2>2, PostsAreNumbers DEF GatewayOK, JobsOK
<1>7. CASE Working
  BY <1>1, <1>7, WorkerKeepsGateway
<1>8. CASE (\E m \in Messages : ReadTicketSource(m)) \/ InsertTicket \/ UpdateTicket \/ UNCHANGED vars
  BY <1>1, <1>8 DEF ReadTicketSource, InsertTicket, UpdateTicket, vars, jobVars
<1> QED  BY <1>2, <1>3, <1>4, <1>5, <1>6, <1>7, <1>8 DEF Next, Webhook, Working, Worker, Locking

LEMMA JobsStep == ASSUME JobsOK, GatewayOK, RestOK, [Next]_vars PROVE JobsOK' /\ RowsStay
<1>1. CASE UNCHANGED <<job, work, stored, media, expired>>
  BY <1>1 DEF JobsOK, JobFits, Holder, RowsStay
<1>2. ASSUME NEW r \in Runs, Worker(r) PROVE JobsOK' /\ RowsStay
  <2>1. CASE Throw(r) \/ Crash(r)
    <3>1. RowsStay
      BY <2>1 DEF Throw, Crash, messageVars, RowsStay
    <3> QED  BY <2>1, <3>1, EndedKept
  <2>2. CASE Find(r)
    <3>1. RowsStay
      BY <2>2 DEF Find, messageVars, RowsStay
    <3> QED  BY <2>2, <3>1, FindKept
  <2>3. CASE Insert(r)
    BY <2>3, InsertKept
  <2>4. CASE MediaFind(r) \/ MediaInsert(r)
    BY <2>4, MediaKept
  <2>5. CASE Touch(r) \/ Clock(r) \/ Stamp(r) \/ Notify(r) \/ Fetch(r)
    <3>1. RowsStay
      BY <2>5 DEF Touch, Clock, Stamp, Notify, Fetch, messageVars, RowsStay
    <3> QED  BY <2>5, <3>1, TellKept
  <2> QED  BY <1>2, <2>1, <2>2, <2>3, <2>4, <2>5 DEF Worker, Normalize
<1>3. ASSUME NEW j \in Jobs, Locking(j) PROVE JobsOK' /\ RowsStay
  <2>1. RowsStay
    BY <1>3 DEF Locking, Take, Expire, messageVars, RowsStay
  <2> QED  BY <1>3, <2>1, TakenKept, ExpiredKept DEF Locking
<1>4. ASSUME NEW j \in Jobs, job[j] = "absent", job' = [job EXCEPT ![j] = "waiting"],
             UNCHANGED <<work, stored, media, expired>>
      PROVE  JobsOK' /\ RowsStay
  BY <1>4, QueuedKept DEF RowsStay
<1>5. ASSUME NEW p \in LiveJobs, Accept(p) PROVE JobsOK' /\ RowsStay
  <2>1. p \in Jobs /\ job[p] = "absent" /\ job' = [job EXCEPT ![p] = "waiting"]
        /\ UNCHANGED <<work, stored, media, expired>>
    BY <1>5, PostsAreNumbers DEF Accept, GatewayOK, messageVars
  <2> QED  BY <1>4, <2>1
<1>6. ASSUME NEW b \in Batches, SyncHistory(b) PROVE JobsOK' /\ RowsStay
  <2>1. b \in Jobs /\ job[b] = "absent" /\ job' = [job EXCEPT ![b] = "waiting"]
        /\ UNCHANGED <<work, stored, media, expired>>
    BY <1>6 DEF SyncHistory, Jobs, messageVars
  <2> QED  BY <1>4, <2>1
<1>7. CASE \/ \E m \in Messages : Receive(m) \/ Answer(m) \/ PostFails(m)
           \/ \E m \in Messages : ReadTicketSource(m)
           \/ InsertTicket \/ UpdateTicket \/ UNCHANGED vars
  BY <1>1, <1>7 DEF Receive, Answer, PostFails, ReadTicketSource, InsertTicket, UpdateTicket, vars,
                    jobVars, messageVars
<1> QED  BY <1>2, <1>3, <1>5, <1>6, <1>7 DEF Next, Webhook, Worker, Locking

-----------------------------------------------------------------------------
(* A run tells of a message once. *)

\* The runs that may still tell of a message, and those about to insert a media row for it.
Pushers(m) == {r \in Runs : r[1] \in LiveJobs /\ r[1][1] = m /\ Pushing(work[r])}
Racers(m) == {r \in Runs : Racing(work[r]) /\ Current(r) = m}

\* Each run that could stand beside others told of the message, may still do so, or neither;
\* likewise for the media row.
PushOK ==
  /\ pushes \in [Messages -> Nat]
  /\ \A m \in Messages : pushes[m] + Cardinality(Pushers(m)) <= Cardinality(LiveRunsOf(m))
  /\ \A m \in Messages : pushes[m] > 0 => stored[m] # "none" /\ DirectionOf[m] = "inbound"

RaceOK == \A m \in Messages : media[m] + Cardinality(Racers(m)) <= Cardinality(RunsOf(m))

\* All runs there may ever be for a message.
AllRunsOf(m) == {r \in Runs : Brings(r[1], m)}

LEMMA RunsAreFinite ==
  ASSUME NEW m \in Messages
  PROVE  IsFiniteSet(AllRunsOf(m)) /\ LiveRunsOf(m) \subseteq RunsOf(m) /\ RunsOf(m) \subseteq AllRunsOf(m)
<1> DEFINE P == {m} \X (1 .. MaxPosts)
           J == P \cup Batches
           R == J \X {1, 2}
<1>1. IsFiniteSet(P)
  <2>1. IsFiniteSet({m}) /\ IsFiniteSet(1 .. MaxPosts)
    <3>1. 1 \in Int /\ MaxPosts \in Int
      BY PostsAreNumbers
    <3> QED  BY <3>1, FS_Singleton, FS_Interval
  <2> QED  BY <2>1, FS_Product
<1>2. IsFiniteSet(J)
  BY <1>1, IngestAssumption, FS_Union
<1>3. IsFiniteSet({1, 2})
  <2>1. IsFiniteSet(1 .. 2)
    <3>1. 1 \in Int /\ 2 \in Int
      OBVIOUS
    <3> QED  BY <3>1, FS_Interval
  <2>2. {1, 2} = 1 .. 2
    OBVIOUS
  <2> QED  BY <2>1, <2>2
<1>4. IsFiniteSet(R)
  <2> HIDE DEF J
  <2> QED  BY <1>2, <1>3, FS_Product
<1>5. AllRunsOf(m) \subseteq R
  <2> SUFFICES ASSUME NEW r \in Runs, Brings(r[1], m) PROVE r \in R
    BY DEF AllRunsOf
  <2>1. r[1] \in Jobs /\ r[2] \in {1, 2} /\ r = <<r[1], r[2]>>
    BY RunsAreRuns
  <2>2. r[1] \in LiveJobs => r[1] \in P
    <3> SUFFICES ASSUME r[1] \in LiveJobs PROVE r[1] \in P
      OBVIOUS
    <3>1. r[1][1] = m /\ r[1][2] \in 1 .. MaxPosts /\ r[1] = <<r[1][1], r[1][2]>>
      BY <2>1, EventsFit DEF Brings
    <3> QED  BY <3>1
  <2>3. r[1] \in J
    BY <2>1, <2>2 DEF Jobs
  <2> QED  BY <2>1, <2>3
<1>6. IsFiniteSet(AllRunsOf(m))
  <2> HIDE DEF R
  <2> QED  BY <1>4, <1>5, FS_Subset
<1> QED  BY <1>6 DEF AllRunsOf, RunsOf, LiveRunsOf

\* The message of a live job.
LEMMA LiveCurrent ==
  ASSUME JobsOK, NEW r \in Runs, work[r].at \in Ats, r[1] \in LiveJobs
  PROVE  Current(r) = r[1][1]
<1>1. work[r].pos \in 1 .. Len(EventsOf(r[1])) /\ Len(EventsOf(r[1])) = 1 /\ EventsOf(r[1])[1] = r[1][1]
  BY RunsAreRuns, Reached, EventsFit
<1>2. work[r].pos = 1
  BY <1>1
<1> QED  BY <1>1, <1>2 DEF Current

\* They are runs of jobs that were queued.
Queued == \A m \in Messages : Pushers(m) \subseteq LiveRunsOf(m) /\ Racers(m) \subseteq RunsOf(m)

LEMMA RunsAreQueued == JobsOK => Queued
<1> SUFFICES ASSUME JobsOK, NEW m \in Messages
             PROVE  Pushers(m) \subseteq LiveRunsOf(m) /\ Racers(m) \subseteq RunsOf(m)
  BY DEF Queued
<1>1. ASSUME NEW r \in Runs, r[1] \in LiveJobs, r[1][1] = m, Pushing(work[r]) PROVE r \in LiveRunsOf(m)
  <2>1. job[r[1]] # "absent" /\ (r[2] = 2 => r[1] \in expired)
    BY <1>1, NotPushing, BusyIsQueued
  <2>2. Brings(r[1], m)
    <3>1. 1 \in DOMAIN EventsOf(r[1]) /\ EventsOf(r[1])[1] = m
      BY <1>1, RunsAreRuns, EventsFit
    <3> QED  BY <3>1 DEF Brings
  <2> QED  BY <1>1, <2>1, <2>2 DEF LiveRunsOf, RunsOf
<1>2. ASSUME NEW r \in Runs, Racing(work[r]), Current(r) = m PROVE r \in RunsOf(m)
  <2>1. work[r].at \in Ats
    BY <1>2 DEF Racing, Ats
  <2>2. job[r[1]] # "absent" /\ (r[2] = 2 => r[1] \in expired)
    BY <1>2, NotPushing, BusyIsQueued
  <2>3. Brings(r[1], m)
    <3>1. work[r].pos \in DOMAIN EventsOf(r[1]) /\ EventsOf(r[1])[work[r].pos] = m
      BY <1>2, <2>1, RunsAreRuns, Reached, EventsFit DEF Current
    <3> QED  BY <3>1 DEF Brings
  <2> QED  BY <2>2, <2>3 DEF RunsOf
<1> QED  BY <1>1, <1>2 DEF Pushers, Racers

LEMMA RunsAreCounted ==
  ASSUME NEW m \in Messages
  PROVE  /\ Cardinality(LiveRunsOf(m)) \in Nat /\ Cardinality(RunsOf(m)) \in Nat
         /\ JobsOK => Cardinality(Pushers(m)) \in Nat /\ Cardinality(Racers(m)) \in Nat
<1>1. IsFiniteSet(LiveRunsOf(m)) /\ IsFiniteSet(RunsOf(m))
  BY RunsAreFinite, FS_Subset
<1>2. JobsOK => IsFiniteSet(Pushers(m)) /\ IsFiniteSet(Racers(m))
  BY <1>1, RunsAreQueued, FS_Subset DEF Queued
<1> QED  BY <1>1, <1>2, FS_CardinalityType

\* The runs of a message are there for good.
LEMMA RunsOfGrow ==
  ASSUME JobsOK, [Next]_vars, NEW m \in Messages
  PROVE  RunsOf(m) \subseteq RunsOf(m)' /\ LiveRunsOf(m) \subseteq LiveRunsOf(m)'
<1>1. expired \subseteq expired'
  <2>1. ASSUME NEW r \in Runs, Worker(r) PROVE expired' = expired
    BY <2>1 DEF Worker, Throw, Crash, Normalize, Find, Insert, MediaFind, MediaInsert, Touch, Clock, Stamp,
                Notify, Fetch
  <2>2. ASSUME NEW j \in Jobs, Locking(j) PROVE expired \subseteq expired'
    BY <2>2 DEF Locking, Take, Expire
  <2>3. CASE ~Working
    BY <2>3, OthersKeepWork
  <2> QED  BY <2>1, <2>2, <2>3 DEF Working
<1>2. \A k \in Jobs : job[k] # "absent" => job'[k] # "absent"
  <2>1. CASE Working
    BY <2>1, WorkerKeepsGateway
  <2>2. CASE ~Working
    BY <2>2 DEF Next, Working, Worker, Locking, Webhook, Receive, Answer, PostFails, Accept, SyncHistory,
                ReadTicketSource, InsertTicket, UpdateTicket, vars, jobVars, JobsOK
  <2> QED  BY <2>1, <2>2
<1> QED  BY <1>1, <1>2, RunsAreRuns DEF RunsOf, LiveRunsOf

\* c are done and S may be, of the runs in A.
LEMMA CountKept ==
  ASSUME NEW F, IsFiniteSet(F), NEW A \in SUBSET F, NEW B \in SUBSET F, A \subseteq B,
         NEW S \in SUBSET A, NEW T \in SUBSET B, NEW c \in Nat, NEW d \in Nat,
         c + Cardinality(S) <= Cardinality(A),
         \/ d = c /\ T \subseteq S
         \/ d = 0
         \/ d = c + 1 /\ \E x \in S : T \subseteq S \ {x}
  PROVE  d + Cardinality(T) <= Cardinality(B)
<1>1. IsFiniteSet(B) /\ IsFiniteSet(A)
  BY FS_Subset
<1>2. /\ IsFiniteSet(S) /\ IsFiniteSet(T) /\ Cardinality(T) <= Cardinality(B)
      /\ Cardinality(A) <= Cardinality(B)
  BY <1>1, FS_Subset
<1>3. /\ Cardinality(A) \in Nat /\ Cardinality(B) \in Nat
      /\ Cardinality(S) \in Nat /\ Cardinality(T) \in Nat
  BY <1>1, <1>2, FS_CardinalityType
<1>4. CASE d = c /\ T \subseteq S
  <2>1. Cardinality(T) <= Cardinality(S)
    BY <1>2, <1>4, FS_Subset
  <2> QED  BY <1>2, <1>3, <1>4, <2>1
<1>5. CASE d = 0
  BY <1>2, <1>3, <1>5
<1>6. CASE d = c + 1 /\ \E x \in S : T \subseteq S \ {x}
  <2>1. PICK x \in S : T \subseteq S \ {x}
    BY <1>6
  <2>2. IsFiniteSet(S \ {x}) /\ Cardinality(S \ {x}) = Cardinality(S) - 1
    BY <1>2, FS_RemoveElement
  <2>3. Cardinality(T) <= Cardinality(S \ {x})
    BY <2>1, <2>2, FS_Subset
  <2> QED  BY <1>2, <1>3, <1>6, <2>2, <2>3
<1> QED  BY <1>4, <1>5, <1>6

\* What the counts of a message are made of before and after a step.
LEMMA CountsFit ==
  ASSUME JobsOK, JobsOK', [Next]_vars, NEW m \in Messages
  PROVE  /\ IsFiniteSet(AllRunsOf(m))
         /\ RunsOf(m)' \subseteq AllRunsOf(m) /\ LiveRunsOf(m)' \subseteq AllRunsOf(m)
         /\ RunsOf(m) \subseteq RunsOf(m)' /\ LiveRunsOf(m) \subseteq LiveRunsOf(m)'
         /\ Pushers(m) \subseteq LiveRunsOf(m) /\ Racers(m) \subseteq RunsOf(m)
         /\ Pushers(m)' \subseteq LiveRunsOf(m)' /\ Racers(m)' \subseteq RunsOf(m)'
<1>1. RunsOf(m)' \subseteq AllRunsOf(m) /\ LiveRunsOf(m)' \subseteq AllRunsOf(m)
  BY DEF RunsOf, LiveRunsOf, AllRunsOf
<1>2. JobsOK'
  OBVIOUS
<1>3. Queued'
  BY <1>2, RunsAreQueued, PTL
<1> QED  BY <1>1, <1>3, RunsAreFinite, RunsAreQueued, RunsOfGrow DEF Queued

\* A step that only starts or ends runs adds nobody.
LEMMA NobodyAdded ==
  ASSUME JobsOK, NEW m \in Messages,
         \A q \in Runs : work'[q] = work[q] \/ (~Pushing(work'[q]) /\ ~Racing(work'[q]))
  PROVE  Pushers(m)' \subseteq Pushers(m) /\ Racers(m)' \subseteq Racers(m)
  BY DEF Pushers, Racers, Current

LEMMA RunsOnlyEnd ==
  ASSUME JobsOK, [Next]_vars, ~(\E r \in Runs : Normalize(r))
  PROVE  /\ UNCHANGED <<pushes, media>>
         /\ \A q \in Runs : work'[q] = work[q] \/ (~Pushing(work'[q]) /\ ~Racing(work'[q]))
<1>1. ASSUME NEW r \in Runs, Throw(r) \/ Crash(r)
      PROVE  /\ UNCHANGED <<pushes, media>>
             /\ \A q \in Runs : work'[q] = work[q] \/ (~Pushing(work'[q]) /\ ~Racing(work'[q]))
  <2>1. UNCHANGED <<pushes, media>> /\ work' = [work EXCEPT ![r] = Idle]
    BY <1>1 DEF Throw, Crash, Ends, messageVars
  <2> QED  BY <2>1, NotPushing DEF JobsOK
<1>2. ASSUME NEW j \in Jobs, Take(j)
      PROVE  /\ UNCHANGED <<pushes, media>>
             /\ \A q \in Runs : work'[q] = work[q] \/ (~Pushing(work'[q]) /\ ~Racing(work'[q]))
  <2>1. UNCHANGED <<pushes, media>> /\ work' = [work EXCEPT ![Holder(j)] = Start(1)]
    BY <1>2 DEF Take, messageVars
  <2> QED  BY <2>1, NotPushing DEF JobsOK
<1>3. ASSUME NEW j \in Jobs, Expire(j) PROVE UNCHANGED <<pushes, media, work>>
  BY <1>3 DEF Expire, messageVars
<1>4. CASE ~Working
  BY <1>4, OthersKeepWork
<1> QED  BY <1>1, <1>2, <1>3, <1>4 DEF Working, Worker, Locking

LEMMA PushStep == ASSUME JobsOK, GatewayOK, RestOK, PushOK, [Next]_vars PROVE PushOK'
<1>1. JobsOK' /\ RowsStay
  BY JobsStep
<1>2. ASSUME NEW d, d \in [Messages -> Nat], pushes' = d,
             \A m \in Messages : \/ d[m] = pushes[m] /\ Pushers(m)' \subseteq Pushers(m)
                                 \/ d[m] = 0
                                 \/ /\ d[m] = pushes[m] + 1 /\ stored[m] # "none"
                                    /\ DirectionOf[m] = "inbound"
                                    /\ \E x \in Pushers(m) : Pushers(m)' \subseteq Pushers(m) \ {x}
      PROVE  PushOK'
  <2>1. ASSUME NEW m \in Messages
        PROVE  d[m] + Cardinality(Pushers(m)') <= Cardinality(LiveRunsOf(m)')
    <3>1. /\ IsFiniteSet(AllRunsOf(m)) /\ LiveRunsOf(m)' \subseteq AllRunsOf(m)
          /\ LiveRunsOf(m) \subseteq LiveRunsOf(m)' /\ Pushers(m) \subseteq LiveRunsOf(m)
          /\ Pushers(m)' \subseteq LiveRunsOf(m)'
      BY <1>1, CountsFit
    <3>2. pushes[m] \in Nat /\ d[m] \in Nat
          /\ pushes[m] + Cardinality(Pushers(m)) <= Cardinality(LiveRunsOf(m))
      BY <1>2 DEF PushOK
    <3>3. \/ d[m] = pushes[m] /\ Pushers(m)' \subseteq Pushers(m)
          \/ d[m] = 0
          \/ d[m] = pushes[m] + 1 /\ \E x \in Pushers(m) : Pushers(m)' \subseteq Pushers(m) \ {x}
      BY <1>2
    <3> QED  BY <3>1, <3>2, <3>3, CountKept
  <2>2. \A m \in Messages : d[m] > 0 => stored'[m] # "none" /\ DirectionOf[m] = "inbound"
    BY <1>1, <1>2 DEF PushOK, RowsStay
  <2> QED  BY <1>2, <2>1, <2>2 DEF PushOK
<1>3. CASE ~\E r \in Runs : Normalize(r)
  <2>1. pushes' = pushes /\ \A m \in Messages : Pushers(m)' \subseteq Pushers(m)
    BY <1>3, RunsOnlyEnd, NobodyAdded
  <2> QED  BY <1>2, <2>1 DEF PushOK
<1>4. ASSUME NEW r \in Runs, Normalize(r) PROVE PushOK'
  <2>1. work[r].at \in Ats
    BY <1>4 DEF Normalize, Find, Insert, MediaFind, MediaInsert, Touch, Clock, Stamp, Notify, Fetch, Ats
  <2>2. PICK w : StepShape(r, w) /\ (Notify(r) => ~Pushing(w))
    BY <1>4, Shapes
  <2>3. \A q \in Runs : work'[q] = IF q = r THEN w ELSE work[q]
    BY <2>2 DEF StepShape, JobsOK
  <2>4. ASSUME NEW m \in Messages, pushes[m] > 0 \/ stored[m] # "none"
        PROVE  Pushers(m)' \subseteq Pushers(m)
    <3>1. stored[m] # "none"
      BY <2>4 DEF PushOK
    <3>2. ASSUME r[1] \in LiveJobs, r[1][1] = m, Pushing(w) PROVE Pushing(work[r])
      <4>1. Current(r) = m
        BY <2>1, <3>2, LiveCurrent
      <4> QED  BY <2>2, <3>1, <3>2, <4>1 DEF StepShape
    <3> QED  BY <2>3, <3>2 DEF Pushers
  <2>5. \A m \in Messages : pushes[m] = 0 \/ Pushers(m)' \subseteq Pushers(m)
    BY <2>4 DEF PushOK
  <2>6. CASE pushes' = pushes
    BY <1>2, <2>5, <2>6 DEF PushOK
  <2>7. CASE Notify(r) /\ Pushed(r)
    <3>1. PICK m \in Messages : m = Current(r)
      BY <2>1, Reached
    <3>2. /\ work[r].class \notin {"none", "duplicate", "backfill"} /\ work[r].at = "notify"
          /\ stored[m] # "none" /\ DirectionOf[m] = "inbound" /\ r[1] \notin Batches
      BY <2>1, <2>7, <3>1, Reached DEF Notify, Pushed
    <3>3. r[1] \in LiveJobs /\ Pushing(work[r])
      BY <3>2, RunsAreRuns DEF Jobs, Pushing, PushAts
    <3>4. r \in Pushers(m)
      BY <2>1, <3>1, <3>3, LiveCurrent DEF Pushers
    <3>5. Pushers(m)' \subseteq Pushers(m) \ {r}
      <4>1. r \notin Pushers(m)'
        BY <2>2, <2>3, <2>7 DEF Pushers
      <4> QED  BY <2>4, <3>2, <4>1
    <3>6. pushes' = [pushes EXCEPT ![m] = @ + 1]
      BY <2>7, <3>1 DEF Notify
    <3>7. pushes' \in [Messages -> Nat] /\ pushes'[m] = pushes[m] + 1
          /\ \A k \in Messages : k # m => pushes'[k] = pushes[k]
      BY <3>6 DEF PushOK
    <3> QED  BY <1>2, <2>5, <3>2, <3>4, <3>5, <3>7
  <2>8. CASE ~(Notify(r) /\ Pushed(r))
    <3>1. pushes' = pushes
      BY <1>4, <2>8 DEF Normalize, Find, Insert, MediaFind, MediaInsert, Touch, Clock, Stamp, Notify, Fetch,
                        messageVars
    <3> QED  BY <2>6, <3>1
  <2> QED  BY <2>7, <2>8
<1> QED  BY <1>3, <1>4

LEMMA RaceStep == ASSUME JobsOK, GatewayOK, RestOK, RaceOK, [Next]_vars PROVE RaceOK'
<1>1. JobsOK' /\ RowsStay
  BY JobsStep
<1>2. ASSUME NEW d, d \in [Messages -> Nat], media' = d,
             \A m \in Messages : \/ d[m] = media[m] /\ Racers(m)' \subseteq Racers(m)
                                 \/ d[m] = 0
                                 \/ /\ d[m] = media[m] + 1
                                    /\ \E x \in Racers(m) : Racers(m)' \subseteq Racers(m) \ {x}
      PROVE  RaceOK'
  <2>1. ASSUME NEW m \in Messages
        PROVE  d[m] + Cardinality(Racers(m)') <= Cardinality(RunsOf(m)')
    <3>1. /\ IsFiniteSet(AllRunsOf(m)) /\ RunsOf(m)' \subseteq AllRunsOf(m)
          /\ RunsOf(m) \subseteq RunsOf(m)' /\ Racers(m) \subseteq RunsOf(m)
          /\ Racers(m)' \subseteq RunsOf(m)'
      BY <1>1, CountsFit
    <3>2. media[m] \in Nat /\ d[m] \in Nat
          /\ media[m] + Cardinality(Racers(m)) <= Cardinality(RunsOf(m))
      BY <1>2 DEF RaceOK, JobsOK
    <3>3. \/ d[m] = media[m] /\ Racers(m)' \subseteq Racers(m)
          \/ d[m] = 0
          \/ d[m] = media[m] + 1 /\ \E x \in Racers(m) : Racers(m)' \subseteq Racers(m) \ {x}
      BY <1>2
    <3> QED  BY <3>1, <3>2, <3>3, CountKept
  <2> QED  BY <1>2, <2>1 DEF RaceOK
<1>3. CASE ~\E r \in Runs : Normalize(r)
  <2>1. media' = media /\ \A m \in Messages : Racers(m)' \subseteq Racers(m)
    BY <1>3, RunsOnlyEnd, NobodyAdded
  <2> QED  BY <1>2, <2>1 DEF JobsOK
<1>4. ASSUME NEW r \in Runs, Normalize(r) PROVE RaceOK'
  <2>1. work[r].at \in Ats
    BY <1>4 DEF Normalize, Find, Insert, MediaFind, MediaInsert, Touch, Clock, Stamp, Notify, Fetch, Ats
  <2>2. PICK w : StepShape(r, w)
    BY <1>4, Shapes
  <2>3. \A q \in Runs : work'[q] = IF q = r THEN w ELSE work[q]
    BY <2>2 DEF StepShape, JobsOK
  <2>4. \A q \in Runs : work'[q].pos = work[q].pos => Current(q)' = Current(q)
    BY DEF Current
  <2>5. ASSUME NEW m \in Messages, media[m] > 0 \/ MediaInsert(r)
        PROVE  Racers(m)' \subseteq Racers(m) /\ (MediaInsert(r) => r \notin Racers(m)')
    <3>1. ASSUME Racing(w), Current(r)' = m PROVE FALSE
      <4>1. ~(media[Current(r)] > 0) /\ w.pos = work[r].pos /\ ~MediaInsert(r)
        BY <2>2, <3>1 DEF StepShape
      <4>2. Current(r) = m
        BY <2>3, <2>4, <3>1, <4>1
      <4> QED  BY <2>5, <4>1, <4>2
    <3>2. r \notin Racers(m)'
      BY <2>3, <3>1 DEF Racers
    <3>3. \A q \in Runs : q # r => work'[q] = work[q] /\ Current(q)' = Current(q)
      BY <2>3, <2>4
    <3> QED  BY <3>2, <3>3 DEF Racers
  <2>6. \A m \in Messages : media[m] = 0 \/ media[m] > 0
    BY DEF JobsOK
  <2>7. CASE ~MediaInsert(r)
    <3>1. media' = media
      BY <1>4, <2>7 DEF Normalize, Find, Insert, MediaFind, Touch, Clock, Stamp, Notify, Fetch, messageVars
    <3> QED  BY <1>2, <2>5, <2>6, <3>1 DEF JobsOK
  <2>8. CASE MediaInsert(r)
    <3>1. PICK m \in Messages : m = Current(r)
      BY <2>1, Reached
    <3>2. r \in Racers(m)
      BY <2>8, <3>1 DEF Racers, Racing, MediaInsert
    <3>3. Racers(m)' \subseteq Racers(m) \ {r}
      BY <2>5, <2>8
    <3>4. media' = [media EXCEPT ![m] = @ + 1]
      BY <2>8, <3>1 DEF MediaInsert
    <3>5. media' \in [Messages -> Nat] /\ media'[m] = media[m] + 1
          /\ \A k \in Messages : k # m => media'[k] = media[k]
      BY <3>4 DEF JobsOK
    <3> QED  BY <1>2, <2>5, <2>8, <3>2, <3>3, <3>5
  <2> QED  BY <2>7, <2>8
<1> QED  BY <1>3, <1>4

-----------------------------------------------------------------------------
(* The clock of the channel, and its marker. *)

\* A client said something at this time, and it came in live; the team did.
Spoken(t) == \E m \in Messages : /\ TimeOf[m] = t /\ stored[m] # "none"
                                 /\ DirectionOf[m] = "inbound" /\ ~resolveSender(m)
                                 /\ post[m] # "unseen"
Replied(t) == \E m \in Messages :
                TimeOf[m] = t /\ DirectionOf[m] = "outbound" /\ stored[m] # "none"

ClockOK ==
  /\ channel \in [lastMessageAt : Nat, awaiting : Time, lastReply : Time]
  /\ ticket \in [status : {"none", "open", "closed"}, firstResponse : Time]
  /\ desk \in [at : {"idle", "create", "done"}, reply : Time]
  /\ channel.awaiting # None => Spoken(channel.awaiting)
  /\ channel.lastReply # None => Replied(channel.lastReply)
  /\ ticket.firstResponse # None => Replied(ticket.firstResponse)
  /\ desk.reply # None => Replied(desk.reply)

LEMMA TimesAreTimes == \A m \in Messages : TimeOf[m] \in Nat \ {0} /\ TimeOf[m] \in Time /\ None \in Time
  BY IngestAssumption DEF Time

LEMMA WordsStay ==
  ASSUME JobsOK, GatewayOK, RestOK, [Next]_vars
  PROVE  \A t : (Spoken(t) => Spoken(t)') /\ (Replied(t) => Replied(t)')
<1>1. RowsStay
  BY JobsStep
<1>2. \A m \in Messages : post[m] # "unseen" => post'[m] # "unseen"
  <2>1. \A m \in Messages : posts[m] \in Nat /\ posts'[m] \in Nat /\ posts'[m] >= posts[m]
    <3>1. GatewayOK'
      BY GatewayStep
    <3>2. CASE \E k \in Messages : Receive(k)
      BY <3>1, <3>2, PostsAreNumbers DEF Receive, GatewayOK
    <3>3. CASE \E k \in Messages : PostFails(k)
      BY <3>1, <3>3, PostsAreNumbers DEF PostFails, GatewayOK
    <3>4. CASE Working
      <4>1. posts' = posts
        BY <3>4, WorkerKeepsGateway DEF gatewayVars
      <4> QED  BY <4>1, PostsAreNumbers DEF GatewayOK
    <3>5. CASE \/ \E k \in Messages : Answer(k) \/ ReadTicketSource(k)
               \/ \E p \in LiveJobs : Accept(p)
               \/ \E b \in Batches : SyncHistory(b)
               \/ InsertTicket \/ UpdateTicket \/ UNCHANGED vars
      <4>1. posts' = posts
        BY <3>5 DEF Answer, ReadTicketSource, Accept, SyncHistory, InsertTicket, UpdateTicket, vars,
                    gatewayVars
      <4> QED  BY <4>1, PostsAreNumbers DEF GatewayOK
    <3> QED  BY <3>2, <3>3, <3>4, <3>5 DEF Next, Webhook, Working, Worker, Locking
  <2>2. \A m \in Messages : (post[m] = "unseen" <=> posts[m] = 0) /\ (post'[m] = "unseen" <=> posts'[m] = 0)
    BY GatewayStep DEF GatewayOK
  <2> QED  BY <2>1, <2>2
<1> QED  BY <1>1, <1>2 DEF Spoken, Replied, RowsStay

\* A live job was queued by a post.
LEMMA QueuedIsPosted ==
  ASSUME GatewayOK, NEW p \in LiveJobs, job[p] # "absent"
  PROVE  post[p[1]] # "unseen"
<1>1. p[1] \in Messages /\ p[2] \in 1 .. MaxPosts /\ p[2] <= posts[p[1]] /\ posts[p[1]] \in Nat
  BY PostsAreNumbers DEF GatewayOK
<1>2. posts[p[1]] # 0
  BY <1>1
<1> QED  BY <1>1, <1>2 DEF GatewayOK

LEMMA ClockStep == ASSUME JobsOK, GatewayOK, RestOK, ClockOK, [Next]_vars PROVE ClockOK'
<1>0. \A t : (Spoken(t) => Spoken(t)') /\ (Replied(t) => Replied(t)')
  BY WordsStay
<1>1. CASE UNCHANGED <<channel, ticketVars>>
  BY <1>0, <1>1 DEF ClockOK, ticketVars
<1>2. ASSUME NEW r \in Runs, Touch(r) PROVE ClockOK'
  <2>1. Current(r) \in Messages
    BY <1>2, Reached DEF Touch, Ats
  <2>2. /\ channel' = [channel EXCEPT !.lastMessageAt = LastMessage(TimeOf[Current(r)])]
        /\ UNCHANGED ticketVars
    BY <1>2 DEF Touch
  <2>3. LastMessage(TimeOf[Current(r)]) \in Nat
    BY <2>1, TimesAreTimes DEF LastMessage, ClockOK
  <2>4. /\ channel' \in [lastMessageAt : Nat, awaiting : Time, lastReply : Time]
        /\ channel'.awaiting = channel.awaiting /\ channel'.lastReply = channel.lastReply
    BY <2>2, <2>3 DEF ClockOK
  <2> QED  BY <1>0, <2>2, <2>4 DEF ClockOK, ticketVars
<1>3. ASSUME NEW r \in Runs, Clock(r) PROVE ClockOK'
  <2>0. PICK m \in Messages : m = Current(r)
    BY <1>3, Reached DEF Clock, Ats
  <2>1. /\ work[r].at \in Ats /\ stored[m] # "none" /\ stored' = stored
        /\ UNCHANGED <<ticketVars, post>>
        /\ work[r].class = "eligible" =>
             DirectionOf[m] = "inbound" /\ ~resolveSender(m) /\ r[1] \notin Batches
    BY <1>3, <2>0, Reached DEF Clock, Ats, gatewayVars, messageVars
  <2>2. CASE work[r].class = "eligible"
    <3>1. channel' = [channel EXCEPT !.awaiting = Awaiting(TimeOf[m])]
      BY <1>3, <2>0, <2>1, <2>2 DEF Clock
    <3>2. r[1] \in LiveJobs
      BY <2>1, <2>2, RunsAreRuns DEF Jobs
    <3>3. r[1][1] = m /\ job[r[1]] # "absent"
      <4>1. work[r] # Idle
        BY <2>1, Reached
      <4> QED  BY <2>0, <2>1, <3>2, <4>1, LiveCurrent, BusyIsQueued
    <3>4. post[m] # "unseen"
      BY <3>2, <3>3, QueuedIsPosted
    <3>5. Spoken(TimeOf[m])'
      BY <2>1, <2>2, <3>4 DEF Spoken
    <3>6. PICK t \in {TimeOf[m], channel.awaiting} :
            /\ channel' = [channel EXCEPT !.awaiting = t]
            /\ t # None => Spoken(t)'
      BY <1>0, <3>1, <3>5 DEF Awaiting, ClockOK
    <3>7. /\ channel' \in [lastMessageAt : Nat, awaiting : Time, lastReply : Time]
          /\ channel'.lastReply = channel.lastReply /\ channel'.awaiting = t
      BY <3>6, TimesAreTimes DEF ClockOK
    <3> QED  BY <1>0, <2>1, <3>6, <3>7 DEF ClockOK, ticketVars
  <2>3. CASE work[r].class # "eligible" /\ DirectionOf[m] = "outbound"
    <3>1. channel' = [channel EXCEPT !.awaiting = None, !.lastReply = TimeOf[m]]
      BY <1>3, <2>0, <2>3 DEF Clock, LastReply
    <3>2. Replied(TimeOf[m])'
      BY <2>1, <2>3 DEF Replied
    <3>3. /\ channel' \in [lastMessageAt : Nat, awaiting : Time, lastReply : Time]
          /\ channel'.awaiting = None /\ channel'.lastReply = TimeOf[m]
      BY <3>1, TimesAreTimes DEF ClockOK
    <3> QED  BY <1>0, <2>1, <3>2, <3>3 DEF ClockOK, ticketVars
  <2>4. CASE work[r].class # "eligible" /\ DirectionOf[m] # "outbound"
    <3>1. channel' = channel
      BY <1>3, <2>0, <2>4 DEF Clock
    <3> QED  BY <1>1, <2>1, <3>1
  <2> QED  BY <2>2, <2>3, <2>4
<1>4. ASSUME NEW r \in Runs, Stamp(r) PROVE ClockOK'
  <2>0. PICK m \in Messages : m = Current(r)
    BY <1>4, Reached DEF Stamp, Ats
  <2>1. /\ stored[m] # "none" /\ stored' = stored /\ DirectionOf[m] = "outbound"
        /\ UNCHANGED <<channel, desk>>
    BY <1>4, <2>0, Reached DEF Stamp, Ats, messageVars
  <2>2. Replied(TimeOf[m])'
    BY <2>1 DEF Replied
  <2>3. CASE ticket' = ticket
    BY <1>0, <2>1, <2>3 DEF ClockOK
  <2>4. CASE ticket' = [ticket EXCEPT !.firstResponse = TimeOf[m]]
    <3>1. /\ ticket' \in [status : {"none", "open", "closed"}, firstResponse : Time]
          /\ ticket'.firstResponse = TimeOf[m]
      BY <2>4, TimesAreTimes DEF ClockOK
    <3> QED  BY <1>0, <2>1, <2>2, <3>1 DEF ClockOK
  <2> QED  BY <1>4, <2>0, <2>3, <2>4 DEF Stamp
<1>5. ASSUME NEW m \in Messages, ReadTicketSource(m) PROVE ClockOK'
  <2>1. PICK reply \in {channel.lastReply, None} :
          desk' = [at |-> "create", reply |-> reply] /\ UNCHANGED <<channel, ticket>>
    BY <1>5 DEF ReadTicketSource
  <2>2. reply \in Time
    BY TimesAreTimes DEF ClockOK
  <2>3. desk' \in [at : {"idle", "create", "done"}, reply : Time] /\ desk'.reply = reply
    BY <2>1, <2>2
  <2> QED  BY <1>0, <2>1, <2>3 DEF ClockOK
<1>6. CASE InsertTicket
  <2>1. /\ ticket' = [status |-> "open", firstResponse |-> desk.reply]
        /\ desk' = [at |-> "done", reply |-> None] /\ channel' = channel
    BY <1>6 DEF InsertTicket
  <2>2. /\ ticket' \in [status : {"none", "open", "closed"}, firstResponse : Time]
        /\ desk' \in [at : {"idle", "create", "done"}, reply : Time]
        /\ ticket'.firstResponse = desk.reply /\ desk'.reply = None
    BY <2>1, TimesAreTimes DEF ClockOK, Time
  <2> QED  BY <1>0, <2>1, <2>2 DEF ClockOK
<1>7. CASE UpdateTicket
  <2>1. PICK status \in {"open", "closed"} : ticket' = [ticket EXCEPT !.status = status]
    BY <1>7 DEF UpdateTicket
  <2>2. /\ ticket' \in [status : {"none", "open", "closed"}, firstResponse : Time]
        /\ ticket'.firstResponse = ticket.firstResponse
    BY <2>1 DEF ClockOK
  <2>3. UNCHANGED <<channel, desk>>
    BY <1>7 DEF UpdateTicket
  <2> QED  BY <1>0, <2>2, <2>3 DEF ClockOK
<1>8. ASSUME NEW r \in Runs, Worker(r), ~Touch(r), ~Clock(r), ~Stamp(r)
      PROVE  UNCHANGED <<channel, ticketVars>>
  BY <1>8 DEF Worker, Normalize, Throw, Crash, Find, Insert, MediaFind, MediaInsert, Notify, Fetch
<1>9. ASSUME NEW j \in Jobs, Locking(j) PROVE UNCHANGED <<channel, ticketVars>>
  BY <1>9 DEF Locking, Take, Expire
<1>10. CASE Webhook \/ (\E b \in Batches : SyncHistory(b)) \/ UNCHANGED vars
  BY <1>1, <1>10 DEF Webhook, Receive, Answer, PostFails, Accept, SyncHistory, vars
<1> QED  BY <1>1, <1>2, <1>3, <1>4, <1>5, <1>6, <1>7, <1>8, <1>9, <1>10 DEF Next, Worker, Locking

\* While nothing has failed, a stored message is behind the marker or in the hands of the
\* worker that stored it and will move it.
MarkerOK ==
  faults = 0 => \A m \in Messages : stored[m] # "none" =>
    channel.lastMessageAt >= TimeOf[m] \/ \E r \in Runs : Marks(work[r]) /\ Current(r) = m

LEMMA RestStep == ASSUME JobsOK, RestOK, [Next]_vars PROVE RestOK'
<1>1. CASE UNCHANGED <<tries, stalled, expired, fetches, faults>>
  BY <1>1 DEF RestOK
<1>2. CASE Fault /\ UNCHANGED <<tries, stalled, expired, fetches>>
  BY <1>2 DEF RestOK, Fault
<1>3. ASSUME NEW r \in Runs, Throw(r) \/ Crash(r) PROVE RestOK'
  <2>1. r[1] \in Jobs /\ Fault /\ UNCHANGED <<expired, fetches>>
    BY <1>3, RunsAreRuns DEF Throw, Crash, messageVars
  <2>2. tries' \in [Jobs -> Nat] /\ stalled' \in {stalled, stalled \cup {r[1]}}
    BY <1>3, <2>1 DEF Throw, Crash, RestOK
  <2> QED  BY <2>1, <2>2 DEF RestOK, Fault
<1>4. ASSUME NEW j \in Jobs, Expire(j) PROVE RestOK'
  <2>1. Fault /\ UNCHANGED <<tries, fetches>> /\ stalled' = stalled \cup {j}
        /\ expired' \in {expired, expired \cup {j}}
    BY <1>4 DEF Expire, messageVars
  <2> QED  BY <2>1 DEF RestOK, Fault
<1>5. ASSUME NEW r \in Runs, Fetch(r) PROVE RestOK'
  <2>1. Current(r) \in Messages
    BY <1>5, Reached DEF Fetch, Ats
  <2> QED  BY <1>5, <2>1 DEF Fetch, RestOK
<1>6. ASSUME NEW m \in Messages, PostFails(m) PROVE RestOK'
  BY <1>2, <1>6 DEF PostFails, jobVars, messageVars
<1>7. ASSUME NEW r \in Runs, Normalize(r), ~Fetch(r)
      PROVE  UNCHANGED <<tries, stalled, expired, fetches, faults>>
  BY <1>7 DEF Normalize, Find, Insert, MediaFind, MediaInsert, Touch, Clock, Stamp, Notify, messageVars
<1>8. CASE \/ \E j \in Jobs : Take(j)
           \/ \E m \in Messages : Receive(m) \/ Answer(m) \/ ReadTicketSource(m)
           \/ \E p \in LiveJobs : Accept(p)
           \/ \E b \in Batches : SyncHistory(b)
           \/ InsertTicket \/ UpdateTicket \/ UNCHANGED vars
  BY <1>1, <1>8 DEF Take, Receive, Answer, ReadTicketSource, Accept, SyncHistory, InsertTicket,
                    UpdateTicket, vars, jobVars, messageVars
<1> QED  BY <1>1, <1>3, <1>4, <1>5, <1>6, <1>7, <1>8 DEF Next, Webhook

LEMMA MarkerStep == ASSUME JobsOK, GatewayOK, ClockOK, RestOK, MarkerOK, [Next]_vars PROVE MarkerOK'
<1> SUFFICES ASSUME faults' = 0, NEW m \in Messages, stored'[m] # "none"
             PROVE  \/ channel'.lastMessageAt >= TimeOf[m]
                    \/ \E r \in Runs : Marks(work'[r]) /\ Current(r)' = m
  BY DEF MarkerOK
<1>0. TimeOf[m] \in Nat /\ channel.lastMessageAt \in Nat /\ \A k \in Messages : TimeOf[k] \in Nat
  BY TimesAreTimes DEF ClockOK
<1>1. ~Fault /\ faults \in Nat
  BY DEF Fault, RestOK
<1> DEFINE Before == stored[m] # "none" =>
             channel.lastMessageAt >= TimeOf[m] \/ \E r \in Runs : Marks(work[r]) /\ Current(r) = m
<1>2. faults = 0 => Before
  BY DEF MarkerOK
<1>3. CASE UNCHANGED <<work, stored, channel, faults>>
  BY <1>2, <1>3 DEF Current
<1>4. ASSUME NEW j \in Jobs, Take(j)
      PROVE  \/ channel'.lastMessageAt >= TimeOf[m]
             \/ \E k \in Runs : Marks(work'[k]) /\ Current(k)' = m
  <2>1. work' = [work EXCEPT ![Holder(j)] = Start(1)] /\ UNCHANGED <<stored, channel, faults>>
    BY <1>4 DEF Take, messageVars
  <2>2. ~Marks(work[Holder(j)])
    BY <1>4, NotPushing DEF Take, JobsOK, JobFits
  <2>3. \A k \in Runs : Marks(work[k]) => work'[k] = work[k]
    BY <2>1, <2>2 DEF JobsOK
  <2> QED  BY <1>2, <2>1, <2>3 DEF Current
<1>5. ASSUME NEW r \in Runs, Normalize(r)
      PROVE  \/ channel'.lastMessageAt >= TimeOf[m]
             \/ \E k \in Runs : Marks(work'[k]) /\ Current(k)' = m
  <2>0. faults' = faults
    BY <1>5 DEF Normalize, Find, Insert, MediaFind, MediaInsert, Touch, Clock, Stamp, Notify, Fetch
  <2>1. PICK w : StepShape(r, w) /\ (Insert(r) => Marks(w) /\ w.pos = work[r].pos)
    BY <1>5, Shapes
  <2>2. work' = [work EXCEPT ![r] = w] /\ work'[r] = w /\ \A k \in Runs : k # r => work'[k] = work[k]
    BY <2>1 DEF StepShape, JobsOK
  <2>3. \A k \in Runs : work'[k].pos = work[k].pos => Current(k)' = Current(k)
    BY DEF Current
  <2>4. channel.lastMessageAt <= channel'.lastMessageAt
    <3>1. CASE Touch(r)
      BY <1>0, <3>1, Reached DEF Touch, LastMessage, Ats, ClockOK
    <3>2. CASE ~Touch(r)
      <4>1. channel'.lastMessageAt = channel.lastMessageAt
        BY <1>5, <3>2 DEF Normalize, Find, Insert, MediaFind, MediaInsert, Clock, Stamp, Notify, Fetch,
                          ClockOK
      <4> QED  BY <1>0, <4>1
    <3> QED  BY <3>1, <3>2
  <2>5. CASE stored[m] = "none"
    <3>1. Insert(r)
      BY <1>5, <2>5 DEF Normalize, Find, MediaFind, MediaInsert, Touch, Clock, Stamp, Notify, Fetch,
                        messageVars
    <3>2. Current(r) = m
      <4>1. Current(r) \in Messages
        BY <3>1, Reached DEF Insert, Ats
      <4>2. PICK class \in Class : stored' = [stored EXCEPT ![Current(r)] = Inserted(Current(r), class)]
        BY <3>1, <4>1, InsertDoes
      <4> QED  BY <2>5, <4>1, <4>2 DEF JobsOK
    <3>3. Marks(work'[r]) /\ Current(r)' = Current(r)
      BY <2>1, <2>2, <2>3, <3>1
    <3> QED  BY <3>2, <3>3
  <2>6. CASE channel.lastMessageAt >= TimeOf[m]
    <3>1. channel'.lastMessageAt \in Nat
      BY ClockStep DEF ClockOK
    <3> QED  BY <1>0, <2>4, <2>6, <3>1
  <2>7. ASSUME NEW k \in Runs, Marks(work[k]), Current(k) = m
        PROVE  \/ channel'.lastMessageAt >= TimeOf[m]
               \/ \E i \in Runs : Marks(work'[i]) /\ Current(i)' = m
    <3>1. CASE k # r
      BY <2>2, <2>3, <2>7, <3>1
    <3>2. CASE k = r /\ work[r].at # "touch"
      <4>1. Marks(w) /\ w.pos = work[r].pos
        BY <2>1, <2>7, <3>2 DEF StepShape
      <4> QED  BY <2>2, <2>3, <2>7, <3>2, <4>1
    <3>3. CASE k = r /\ work[r].at = "touch"
      <4>1. Touch(r)
        BY <1>5, <3>3 DEF Normalize, Find, Insert, MediaFind, MediaInsert, Clock, Stamp, Notify, Fetch
      <4>2. channel'.lastMessageAt = LastMessage(TimeOf[m])
        BY <2>7, <3>3, <4>1 DEF Touch, ClockOK
      <4> QED  BY <1>0, <4>2 DEF LastMessage
    <3> QED  BY <3>1, <3>2, <3>3
  <2> QED  BY <1>2, <2>0, <2>5, <2>6, <2>7
<1>6. CASE Webhook \/ (\E b \in Batches : SyncHistory(b)) \/ UNCHANGED vars
  <2>1. UNCHANGED <<work, stored, channel, faults>>
    BY <1>1, <1>6 DEF Webhook, Receive, Answer, PostFails, Accept, SyncHistory, vars, jobVars, messageVars
  <2> QED  BY <1>3, <2>1
<1>7. CASE (\E k \in Messages : ReadTicketSource(k)) \/ InsertTicket \/ UpdateTicket
  <2>1. UNCHANGED <<work, stored, channel, faults>>
    BY <1>7 DEF ReadTicketSource, InsertTicket, UpdateTicket, jobVars, messageVars
  <2> QED  BY <1>3, <2>1
<1>8. (\A r \in Runs : ~Throw(r) /\ ~Crash(r)) /\ \A j \in Jobs : ~Expire(j)
  BY <1>1 DEF Throw, Crash, Expire
<1> QED  BY <1>4, <1>5, <1>6, <1>7, <1>8 DEF Next

-----------------------------------------------------------------------------
(* All of it. *)

IngestIInv ==
  JobsOK /\ GatewayOK /\ PushOK /\ RaceOK /\ ClockOK /\ RestOK /\ MarkerOK

LEMMA IngestInit == Init => IngestIInv
<1> SUFFICES ASSUME Init PROVE IngestIInv
  OBVIOUS
<1>0. \A r \in Runs : work[r] = Idle
  BY DEF Init
<1>1. JobsOK
  BY <1>0, RunsAreRuns DEF Init, JobsOK, JobFits, JobStates, Works, Fits
<1>2. GatewayOK
  BY PostsAreNumbers DEF Init, GatewayOK
<1>3. PushOK /\ RaceOK
  <2>1. ASSUME NEW m \in Messages
        PROVE  Cardinality(Pushers(m)) = 0 /\ Cardinality(Racers(m)) = 0
    <3>1. Pushers(m) = {} /\ Racers(m) = {}
      BY <1>0, NotPushing DEF Pushers, Racers
    <3> QED  BY <3>1, FS_EmptySet
  <2>2. ASSUME NEW m \in Messages
        PROVE  Cardinality(LiveRunsOf(m)) \in Nat /\ Cardinality(RunsOf(m)) \in Nat
    BY RunsAreCounted
  <2>3. \A m \in Messages : pushes[m] = 0 /\ media[m] = 0
    BY DEF Init
  <2>4. pushes \in [Messages -> Nat]
    BY DEF Init
  <2> QED  BY <2>1, <2>2, <2>3, <2>4 DEF PushOK, RaceOK
<1>4. ClockOK
  BY TimesAreTimes DEF Init, ClockOK, Time
<1>5. RestOK
  BY DEF Init, RestOK
<1>6. MarkerOK
  BY DEF Init, MarkerOK
<1> QED  BY <1>1, <1>2, <1>3, <1>4, <1>5, <1>6 DEF IngestIInv

LEMMA IngestStep == IngestIInv /\ [Next]_vars => IngestIInv'
  BY JobsStep, GatewayStep, PushStep, RaceStep, ClockStep, RestStep, MarkerStep DEF IngestIInv

LEMMA IngestAlways == Spec => []IngestIInv
  BY IngestInit, IngestStep, PTL DEF Spec

\* Whatever is posted, imported, repeated, dies half way or goes on after its lock expired: a job
\* that ends well has stored its messages with their attachments, and a message is told of, and
\* given a media row, no more often than there are runs of its jobs that could stand beside each
\* other: one of each job, and one more where a lock expired under a live worker
\* (normalize.ts:103, 108, drizzle-store.ts:413).
THEOREM IngestHolds == Spec => []IngestInv
<1>1. ASSUME IngestIInv PROVE IngestInv
  <2>1. \A r \in Runs : work[r] # Idle => work[r].pos <= Len(EventsOf(r[1]))
    BY <1>1 DEF IngestIInv, JobsOK, Fits
  <2>2. \A j \in Jobs : /\ job[j] = "active" => work[Holder(j)] # Idle
                        /\ job[j] \in {"absent", "waiting", "done"} => work[Holder(j)] = Idle
                        /\ work[<<j, 2>>] # Idle => j \in expired
    BY <1>1 DEF IngestIInv, JobsOK, JobFits
  <2>3. TypeOK
    <3>1. /\ job \in [Jobs -> {"absent", "waiting", "active", "done", "failed"}]
          /\ tries \in [Jobs -> Nat] /\ stalled \subseteq Jobs /\ expired \subseteq stalled
          /\ work \in [Runs -> {Idle} \cup WorkState]
          /\ stored \in [Messages -> {"none"} \cup Class] /\ media \in [Messages -> Nat]
          /\ fetches \in [Messages -> Nat] /\ pushes \in [Messages -> Nat] /\ faults \in Nat
      BY <1>1 DEF IngestIInv, JobsOK, PushOK, RestOK, JobStates, Works
    <3>2. /\ post \in [Messages -> {"unseen", "posting", "answered", "dropped"}]
          /\ posts \in [Messages -> 0 .. MaxPosts] /\ requests \subseteq LiveJobs
          /\ channel \in [lastMessageAt : Nat, awaiting : Time, lastReply : Time]
          /\ ticket \in [status : {"none", "open", "closed"}, firstResponse : Time]
          /\ desk \in [at : {"idle", "create", "done"}, reply : Time]
      BY <1>1 DEF IngestIInv, GatewayOK, ClockOK
    <3> QED  BY <2>1, <2>2, <3>1, <3>2 DEF TypeOK
  <2>4. DoneIsComplete
    <3> SUFFICES ASSUME NEW j \in Jobs, job[j] = "done", NEW i \in DOMAIN EventsOf(j)
                 PROVE  Whole(stored, media, EventsOf(j)[i])
      BY DEF DoneIsComplete, Whole
    <3> QED  BY <1>1, EventsFit DEF IngestIInv, JobsOK, JobFits, Complete
  <2>5. OncePerRun
    <3> SUFFICES ASSUME NEW m \in Messages
                 PROVE  pushes[m] <= Cardinality(LiveRunsOf(m)) /\ media[m] <= Cardinality(RunsOf(m))
      BY DEF OncePerRun
    <3>1. /\ pushes[m] \in Nat /\ pushes[m] + Cardinality(Pushers(m)) <= Cardinality(LiveRunsOf(m))
          /\ media[m] \in Nat /\ media[m] + Cardinality(Racers(m)) <= Cardinality(RunsOf(m))
      BY <1>1 DEF IngestIInv, JobsOK, PushOK, RaceOK
    <3>2. Cardinality(Pushers(m)) \in Nat /\ Cardinality(Racers(m)) \in Nat
      BY <1>1, RunsAreCounted DEF IngestIInv
    <3>3. Cardinality(LiveRunsOf(m)) \in Nat /\ Cardinality(RunsOf(m)) \in Nat
      BY RunsAreCounted
    <3> QED  BY <3>1, <3>2, <3>3
  <2> QED  BY <2>3, <2>4, <2>5 DEF IngestInv
<1> QED  BY <1>1, IngestAlways, PTL

\* An import alone starts no clock and notifies nobody: what did had come in live
\* (classification.ts:63, normalize.processor.ts:127).
THEOREM ImportsAreQuiet == Spec => []HistoryStartsNothing
<1>1. ASSUME IngestIInv PROVE HistoryStartsNothing
  <2>1. channel.awaiting # None => Spoken(channel.awaiting)
    BY <1>1 DEF IngestIInv, ClockOK
  <2>2. ASSUME NEW m \in Messages, pushes[m] > 0
        PROVE  stored[m] # "none" /\ post[m] # "unseen" /\ DirectionOf[m] = "inbound"
    <3>1. pushes[m] \in Nat /\ pushes[m] + Cardinality(Pushers(m)) <= Cardinality(LiveRunsOf(m))
      BY <1>1 DEF IngestIInv, PushOK
    <3>2. Cardinality(Pushers(m)) \in Nat /\ Cardinality(LiveRunsOf(m)) \in Nat
      BY <1>1, RunsAreCounted DEF IngestIInv
    <3>3. LiveRunsOf(m) # {}
      <4>1. Cardinality(LiveRunsOf(m)) # 0
        BY <2>2, <3>1, <3>2
      <4> QED  BY <4>1, FS_EmptySet
    <3>4. PICK r \in LiveRunsOf(m) : TRUE
      BY <3>3
    <3>5. r[1] \in LiveJobs /\ job[r[1]] # "absent" /\ r[1][1] = m
      <4>1. r[1] \in LiveJobs /\ job[r[1]] # "absent" /\ Brings(r[1], m) /\ r[1] \in Jobs
        BY <3>4, RunsAreRuns DEF LiveRunsOf, RunsOf
      <4> QED  BY <4>1, EventsFit DEF Brings
    <3> QED  BY <1>1, <2>2, <3>5, QueuedIsPosted DEF IngestIInv, PushOK
  <2> QED  BY <2>1, <2>2 DEF HistoryStartsNothing, Spoken
<1> QED  BY <1>1, IngestAlways, PTL

\* While nothing fails, the channel stands at its latest message once all jobs are done, in
\* whatever order they were taken (drizzle-store.ts:430).
THEOREM MarkerHolds == Spec => []MarkerIsLatest
<1>1. ASSUME IngestIInv PROVE MarkerIsLatest
  <2> SUFFICES ASSUME faults = 0, \A j \in Jobs : job[j] \in {"absent", "done"},
                      NEW m \in Messages, stored[m] # "none"
               PROVE  channel.lastMessageAt >= TimeOf[m]
    BY DEF MarkerIsLatest
  <2>1. \A r \in Runs : work[r] = Idle
    <3> SUFFICES ASSUME NEW r \in Runs, work[r] # Idle PROVE FALSE
      OBVIOUS
    <3>1. r[1] \in Jobs /\ r \in {<<r[1], 1>>, <<r[1], 2>>} /\ r = <<r[1], r[2]>>
      BY RunsAreRuns
    <3>2. expired = {} /\ JobFits(r[1])
      BY <1>1, <3>1 DEF IngestIInv, RestOK, JobsOK
    <3>3. r # <<r[1], 2>> /\ work[Holder(r[1])] = Idle
      BY <3>1, <3>2 DEF JobFits
    <3>4. Holder(r[1]) = <<r[1], 1>>
      BY <3>2 DEF Holder
    <3> QED  BY <3>1, <3>3, <3>4
  <2>2. \A r \in Runs : ~Marks(work[r])
    BY <2>1, NotPushing
  <2> QED  BY <1>1, <2>2 DEF IngestIInv, MarkerOK
<1> QED  BY <1>1, IngestAlways, PTL

\* A reply time, on the channel, on a ticket or on its way there, is the time of a stored
\* message of the team (drizzle-store.ts:450, tickets.service.ts:142).
THEOREM ResponsesHold == Spec => []ResponsesAreReplies
<1>1. ASSUME IngestIInv PROVE ResponsesAreReplies
  BY <1>1 DEF IngestIInv, ClockOK, ResponsesAreReplies, Replied
<1> QED  BY <1>1, IngestAlways, PTL
=============================================================================
