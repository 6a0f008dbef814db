------------------------------- MODULE Ingest -------------------------------
(***************************************************************************)
(* The way of a WhatsApp message into the database, for one channel of one *)
(* phone: the gateway posts it to the API, which records it and queues a   *)
(* job; a history sync queues the same messages again; the normalize       *)
(* workers run the jobs and write message, media row, response clock,      *)
(* ticket, notification and download.  A worker may lose the lock of its   *)
(* job and go on beside the run that BullMQ starts again.  One action is   *)
(* one statement of a database, a queue or an HTTP call; reads that meet   *)
(* in one action have no write that concerns them in between.  The phone's *)
(* status (when the API queues a job and when a worker takes it) and the   *)
(* channel's mapping, which other components write, may have any value at  *)
(* each read.  Echoes of dashboard replies are the subject of Outbox: an   *)
(* outbound message here was typed on the phone.                           *)
(***************************************************************************)
EXTENDS Classification, Sequences, FiniteSets

CONSTANTS
  Messages,    \* messages of the channel at WhatsApp
  TimeOf,      \* their provider timestamps
  DirectionOf, \* "inbound" or "outbound"
  HasMedia,    \* the messages with an attachment
  Internal,    \* the messages of senders who are team members
  Batches,     \* history syncs that users or the phone's import may start
  EventsIn,    \* the messages a history sync fetches, in order
  Concurrency, \* jobs that the normalize workers run at a time
  MaxPosts,    \* attempts of the gateway to post a webhook
  MaxAttempts, \* attempts of a live job
  HistoryAttempts,   \* attempts of a history job
  StaleSyncThreshold,
  Now,         \* bound on the clock, past the time of every message
  Mappings,    \* mappings the channel may have
  MaxFaults,   \* bound on failures
  None

ASSUME IngestAssumption ==
  /\ TimeOf \in [Messages -> Nat \ {0}]
  /\ DirectionOf \in [Messages -> MessageDirection]
  /\ EventsIn \in [Batches -> Seq(Messages)]
  /\ \A b \in Batches : EventsIn[b] # <<>>
  /\ IsFiniteSet(Batches) /\ Batches \cap (Messages \X Nat) = {}
  /\ Mappings \subseteq Mapping
  /\ {MaxPosts, MaxAttempts, HistoryAttempts, Concurrency} \subseteq Nat \ {0}
  /\ {StaleSyncThreshold, Now, MaxFaults} \subseteq Nat
  /\ None \notin Nat

VARIABLES
  post,     \* where the gateway is with the webhook of a message
  posts,    \* attempts made to post it
  requests, \* posts the API is still working on
  job,      \* state of the normalize jobs
  tries,    \* failed attempts of the jobs
  stalled,  \* jobs that BullMQ found without a lock once
  expired,  \* those of them whose worker went on
  work,     \* what the workers do: the runs of the jobs
  stored,   \* messages of the channel: "none", "live", "eligible" or "backfill"
  media,    \* how many media rows a message has
  fetches,  \* how many download jobs were queued for it
  pushes,   \* how many notifications were queued for it
  channel,  \* lastMessageAt, awaitingResponseSince and lastAgentReplyAt
  ticket,   \* the ticket of the channel
  desk,     \* the request that creates it
  faults

gatewayVars == <<post, posts, requests>>
jobVars == <<job, tries, stalled, expired, work>>
messageVars == <<stored, media, fetches, pushes>>
ticketVars == <<ticket, desk>>
vars == <<gatewayVars, jobVars, messageVars, channel, ticketVars, faults>>

-----------------------------------------------------------------------------
\* A job is named by the post that queued it or by its history sync.
LiveJobs == Messages \X (1 .. MaxPosts)
Jobs == LiveJobs \cup Batches

EventsOf(j) == IF j \in Batches THEN EventsIn[j] ELSE <<j[1]>>

AttemptsOf(j) == IF j \in Batches THEN HistoryAttempts ELSE MaxAttempts

\* Two runs of a job are alive at most: a stalled job is run again only once, so there is the
\* worker that lost the lock (1) and the one that has it (2).
Runs == Jobs \X {1, 2}

Holder(j) == <<j, IF j \in expired THEN 2 ELSE 1>>

\* BullMQ moves the job at the end of a run only if the run still has the lock.
Holds(r) == r = Holder(r[1]) /\ job[r[1]] = "active"

Idle == [at |-> "idle"]

\* The event a run has reached.
Current(r) == EventsOf(r[1])[work[r].pos]

Fault == faults < MaxFaults /\ faults' = faults + 1

-----------------------------------------------------------------------------
(* The gateway and the webhook endpoint. *)

\* The session emits a message that WhatsApp delivered; forwardWebhook starts.
Receive(m) ==
  /\ post[m] = "unseen"
  /\ post' = [post EXCEPT ![m] = "posting"]
  /\ posts' = [posts EXCEPT ![m] = 1]
  /\ requests' = requests \cup {<<m, 1>>}
  /\ UNCHANGED <<jobVars, messageVars, channel, ticketVars, faults>>

\* ingest reads the phone, inserts the raw event (a failed upload of its payload
\* is only logged) and queues the job.
Accept(p) ==
  /\ p \in requests
  /\ requests' = requests \ {p}
  /\ job' = [job EXCEPT ![p] = "waiting"]
  /\ UNCHANGED <<post, posts, tries, stalled, expired, work, messageVars, channel, ticketVars, faults>>

\* The request answers once the job is queued.
Answerable(p) == job[p] # "absent"

Answer(m) ==
  /\ post[m] = "posting" /\ Answerable(<<m, posts[m]>>)
  /\ post' = [post EXCEPT ![m] = "answered"]
  /\ UNCHANGED <<posts, requests, jobVars, messageVars, channel, ticketVars, faults>>

\* The request throws, or its answer is lost while the API goes on with it: the
\* gateway posts again or gives up.
PostFails(m) ==
  /\ post[m] = "posting"
  /\ Fault
  /\ \E left \in {requests, requests \ {<<m, posts[m]>>}} :
       IF posts[m] < MaxPosts
         THEN /\ requests' = left \cup {<<m, posts[m] + 1>>}
              /\ posts' = [posts EXCEPT ![m] = @ + 1]
              /\ UNCHANGED post
         ELSE /\ requests' = left
              /\ post' = [post EXCEPT ![m] = "dropped"]
              /\ UNCHANGED posts
  /\ UNCHANGED <<jobVars, messageVars, channel, ticketVars>>

\* syncMessages or the import of a phone queues what WhatsApp has.
SyncHistory(b) ==
  /\ job[b] = "absent"
  /\ job' = [job EXCEPT ![b] = "waiting"]
  /\ UNCHANGED <<gatewayVars, tries, stalled, expired, work, messageVars, channel, ticketVars, faults>>

-----------------------------------------------------------------------------
(* The normalize worker. *)

Start(pos) == [at |-> "find", pos |-> pos, class |-> "none", fetch |-> FALSE]

\* A worker takes a waiting job and starts with its first event.
Take(j) ==
  /\ job[j] = "waiting"
  /\ Cardinality({r \in Runs : work[r] # Idle}) < Concurrency
  /\ job' = [job EXCEPT ![j] = "active"]
  /\ work' = [work EXCEPT ![Holder(j)] = Start(1)]
  /\ UNCHANGED <<gatewayVars, tries, stalled, expired, messageVars, channel, ticketVars, faults>>

To(r, at) == work' = [work EXCEPT ![r].at = at] /\ UNCHANGED job

\* The run is over; its job is in this state if the run still holds it.
Ends(r, state) ==
  /\ work' = [work EXCEPT ![r] = Idle]
  /\ job' = [job EXCEPT ![r[1]] = IF Holds(r) THEN state ELSE @]

\* The next event of the batch, or the end of the job.
NextEvent(r) ==
  IF work[r].pos < Len(EventsOf(r[1]))
    THEN work' = [work EXCEPT ![r] = Start(@.pos + 1)] /\ UNCHANGED job
    ELSE Ends(r, "done")

\* A duplicate only has its media row completed.
AfterMedia(r) == IF work[r].class = "duplicate" THEN NextEvent(r) ELSE To(r, "touch")

\* findMessageByIdempotency
IsDuplicate(m) == stored[m] # "none"

MutDuplicateSkipsMedia(m) == FALSE
CompletesMedia(m) == m \in HasMedia

\* getOrCreateChannel and the duplicate check.
Find(r) ==
  LET m == Current(r)
  IN /\ work[r].at = "find"
     /\ CASE ~IsDuplicate(m) -> To(r, "insert")
          [] IsDuplicate(m) /\ CompletesMedia(m) ->
               /\ work' = [work EXCEPT ![r].at = "mediaFind", ![r].class = "duplicate"]
               /\ UNCHANGED job
          [] OTHER -> NextEvent(r)
     /\ UNCHANGED <<gatewayVars, tries, stalled, expired, messageVars, channel, ticketVars, faults>>

\* getOrCreateChannel: the channel has one row, and its active mapping, if any, may
\* change from one read to the next.
getOrCreateChannel == Mappings

\* resolveSender: is the participant one of the team's internal senders?
resolveSender(m) == m \in Internal

\* What normalizeEvent hands to classifyMessage for a job's message.
Classify(j, m, mapping, syncing, restricted, now) ==
  classifyMessage(
    [providerTimestamp |-> TimeOf[m],
     now |-> now,
     mapping |-> mapping,
     isHistorySync |-> j \in Batches,
     isReconnectSync |-> j \in Batches \/ syncing,
     staleSyncThreshold |-> StaleSyncThreshold,
     explicitBackfill |-> FALSE,
     direction |-> DirectionOf[m],
     operational |-> TRUE,
     senderIsInternal |-> resolveSender(m),
     phoneRestricted |-> restricted])

\* The flags of a message that other parts read: isBackfill and slaEligible.
ClassName(result) ==
  CASE result.isBackfill -> "backfill"
    [] result.slaEligible -> "eligible"
    [] OTHER -> "live"

\* ON CONFLICT DO NOTHING: the row of the winner stays.
Inserted(m, class) == IF stored[m] = "none" THEN class ELSE stored[m]

\* resolveSender, classifyMessage and insertMessage.  The worker goes on with its
\* own classification even if another one inserted the row.
Insert(r) ==
  LET m == Current(r)
  IN /\ work[r].at = "insert"
     /\ \E mapping \in getOrCreateChannel, syncing, restricted \in BOOLEAN, now \in TimeOf[m] .. Now :
          LET class == ClassName(Classify(r[1], m, mapping, syncing, restricted, now))
          IN /\ stored' = [stored EXCEPT ![m] = Inserted(m, class)]
             /\ work' = [work EXCEPT ![r].class = class,
                                     ![r].at = IF m \in HasMedia THEN "mediaFind" ELSE "touch"]
     /\ UNCHANGED <<gatewayVars, job, tries, stalled, expired, media, fetches, pushes, channel,
                    ticketVars, faults>>

\* insertMedia looks for the row ...
MediaFind(r) ==
  /\ work[r].at = "mediaFind"
  /\ IF media[Current(r)] > 0 THEN AfterMedia(r) ELSE To(r, "mediaInsert")
  /\ UNCHANGED <<gatewayVars, tries, stalled, expired, messageVars, channel, ticketVars, faults>>

\* ... and inserts it; only a worker that inserted one queues a download.
MediaInsert(r) ==
  /\ work[r].at = "mediaInsert"
  /\ media' = [media EXCEPT ![Current(r)] = @ + 1]
  /\ work' = [work EXCEPT ![r].fetch = TRUE,
                          ![r].at = IF work[r].class = "duplicate" THEN "fetch" ELSE "touch"]
  /\ UNCHANGED <<gatewayVars, job, tries, stalled, expired, stored, fetches, pushes, channel,
                 ticketVars, faults>>

MutMoveMarker(at) == at
\* Only move the marker forward.
LastMessage(at) == IF channel.lastMessageAt < at THEN at ELSE channel.lastMessageAt

Touch(r) ==
  /\ work[r].at = "touch"
  /\ channel' = [channel EXCEPT !.lastMessageAt = LastMessage(TimeOf[Current(r)])]
  /\ To(r, "clock")
  /\ UNCHANGED <<gatewayVars, tries, stalled, expired, messageVars, ticketVars, faults>>

\* Only set when the channel is not already waiting.
Awaiting(at) == IF channel.awaiting = None THEN at ELSE channel.awaiting

MutTrackLatestReply(at) == LastMessage(at)
\* recordTeamResponse writes the time of the reply as it comes.
LastReply(at) == at

\* An eligible client message starts the clock, an answer typed on the phone stops
\* it, whatever its class.
Clock(r) ==
  LET m == Current(r)
  IN /\ work[r].at = "clock"
     /\ CASE work[r].class = "eligible" ->
               channel' = [channel EXCEPT !.awaiting = Awaiting(TimeOf[m])]
          [] DirectionOf[m] = "outbound" ->
               channel' = [channel EXCEPT !.awaiting = None, !.lastReply = LastReply(TimeOf[m])]
          [] OTHER -> UNCHANGED channel
     /\ To(r, IF DirectionOf[m] = "outbound" THEN "stamp" ELSE "notify")
     /\ UNCHANGED <<gatewayVars, tries, stalled, expired, messageVars, ticketVars, faults>>

\* The answer stamps the open tickets that have no first response.
Stampable == ticket.status = "open" /\ ticket.firstResponse = None

Stamp(r) ==
  /\ work[r].at = "stamp"
  /\ ticket' = IF Stampable THEN [ticket EXCEPT !.firstResponse = TimeOf[Current(r)]]
               ELSE ticket
  /\ To(r, "notify")
  /\ UNCHANGED <<gatewayVars, tries, stalled, expired, messageVars, channel, desk, faults>>

MutFetchLiveOnly(r) == work[r].fetch /\ work[r].class # "backfill"
\* A worker that inserted the media row downloads it, history or not.
Downloads(r) == work[r].fetch

\* Only live inbound messages are pushed to the agents.
Pushed(r) == DirectionOf[Current(r)] = "inbound" /\ work[r].class # "backfill"

Notify(r) ==
  /\ work[r].at = "notify"
  /\ pushes' = IF Pushed(r) THEN [pushes EXCEPT ![Current(r)] = @ + 1] ELSE pushes
  /\ IF Downloads(r) THEN To(r, "fetch") ELSE NextEvent(r)
  /\ UNCHANGED <<gatewayVars, tries, stalled, expired, stored, media, fetches, channel, ticketVars, faults>>

\* enqueueMediaDownload
Fetch(r) ==
  /\ work[r].at = "fetch"
  /\ fetches' = [fetches EXCEPT ![Current(r)] = @ + 1]
  /\ NextEvent(r)
  /\ UNCHANGED <<gatewayVars, tries, stalled, expired, stored, media, pushes, channel, ticketVars, faults>>

MutNeverRetry(j) == FALSE
Retriable(j) == tries[j] + 1 < AttemptsOf(j)

\* A statement throws: the job is run again while attempts are left.
Throw(r) ==
  /\ work[r] # Idle
  /\ Fault
  /\ Ends(r, IF Retriable(r[1]) THEN "waiting" ELSE "failed")
  /\ tries' = [tries EXCEPT ![r[1]] = IF Holds(r) THEN @ + 1 ELSE @]
  /\ UNCHANGED <<gatewayVars, stalled, expired, messageVars, channel, ticketVars>>

\* BullMQ runs a job without a lock again, but only once.
AfterStall(j) == IF j \in stalled THEN "failed" ELSE "waiting"

\* The process dies, and with it the lock, if it had it.
Crash(r) ==
  /\ work[r] # Idle
  /\ Fault
  /\ Ends(r, AfterStall(r[1]))
  /\ stalled' = IF Holds(r) THEN stalled \cup {r[1]} ELSE stalled
  /\ UNCHANGED <<gatewayVars, tries, expired, messageVars, channel, ticketVars>>

\* The lock of a job expires while its worker is slow: the worker goes on.
Expire(j) ==
  /\ job[j] = "active"
  /\ Fault
  /\ job' = [job EXCEPT ![j] = AfterStall(j)]
  /\ stalled' = stalled \cup {j}
  /\ expired' = IF j \in stalled THEN expired ELSE expired \cup {j}
  /\ UNCHANGED <<gatewayVars, tries, work, messageVars, channel, ticketVars>>

-----------------------------------------------------------------------------
(* Tickets. *)

\* tickets.create reads the source message and the last reply ...
ReadTicketSource(m) ==
  /\ desk.at = "idle" /\ stored[m] # "none"
  /\ desk' = [at |-> "create",
              reply |-> IF /\ stored[m] = "eligible" /\ channel.lastReply # None
                           /\ channel.lastReply >= TimeOf[m]
                        THEN channel.lastReply ELSE None]
  /\ UNCHANGED <<gatewayVars, jobVars, messageVars, channel, ticket, faults>>

\* ... and inserts the ticket.
InsertTicket ==
  /\ desk.at = "create"
  /\ ticket' = [status |-> "open", firstResponse |-> desk.reply]
  /\ desk' = [at |-> "done", reply |-> None]
  /\ UNCHANGED <<gatewayVars, jobVars, messageVars, channel, faults>>

\* tickets.update closes the ticket and may open it again.
UpdateTicket ==
  /\ ticket.status # "none"
  /\ \E status \in {"open", "closed"} \ {ticket.status} :
       ticket' = [ticket EXCEPT !.status = status]
  /\ UNCHANGED <<gatewayVars, jobVars, messageVars, channel, desk, faults>>

-----------------------------------------------------------------------------
Init ==
  /\ post = [m \in Messages |-> "unseen"]
  /\ posts = [m \in Messages |-> 0]
  /\ requests = {}
  /\ job = [j \in Jobs |-> "absent"]
  /\ tries = [j \in Jobs |-> 0]
  /\ stalled = {} /\ expired = {}
  /\ work = [r \in Runs |-> Idle]
  /\ stored = [m \in Messages |-> "none"]
  /\ media = [m \in Messages |-> 0]
  /\ fetches = [m \in Messages |-> 0]
  /\ pushes = [m \in Messages |-> 0]
  /\ channel = [lastMessageAt |-> 0, awaiting |-> None, lastReply |-> None]
  /\ ticket = [status |-> "none", firstResponse |-> None]
  /\ desk = [at |-> "idle", reply |-> None]
  /\ faults = 0

Webhook ==
  \/ \E m \in Messages : Receive(m) \/ Answer(m) \/ PostFails(m)
  \/ \E p \in LiveJobs : Accept(p)

\* normalizeEvent and what the processor does with its outcome.
Normalize(r) ==
  \/ Find(r) \/ Insert(r) \/ MediaFind(r) \/ MediaInsert(r) \/ Touch(r)
  \/ Clock(r) \/ Stamp(r) \/ Notify(r) \/ Fetch(r)

Next ==
  \/ Webhook
  \/ \E b \in Batches : SyncHistory(b)
  \/ \E j \in Jobs : Take(j) \/ Expire(j)
  \/ \E r \in Runs : Normalize(r) \/ Throw(r) \/ Crash(r)
  \/ \E m \in Messages : ReadTicketSource(m)
  \/ InsertTicket \/ UpdateTicket

Spec == Init /\ [][Next]_vars

\* BullMQ workers poll forever, and some worker goes on unless it dies.
Fairness == WF_vars((\E j \in Jobs : Take(j)) \/ \E r \in Runs : Normalize(r))

-----------------------------------------------------------------------------
(* Properties. *)

Class == {"live", "eligible", "backfill"}

WorkState ==
  [at : {"find", "insert", "mediaFind", "mediaInsert", "touch", "clock", "stamp",
         "notify", "fetch"},
   pos : Nat \ {0}, class : Class \cup {"none", "duplicate"}, fetch : BOOLEAN]

Time == Nat \cup {None}

\* Every variable keeps its type; an active job has a worker that holds it, one that waits
\* or is done has none, and a second run is only there beside one that lost the lock.
TypeOK ==
  /\ post \in [Messages -> {"unseen", "posting", "answered", "dropped"}]
  /\ posts \in [Messages -> 0 .. MaxPosts]
  /\ requests \subseteq LiveJobs
  /\ job \in [Jobs -> {"absent", "waiting", "active", "done", "failed"}]
  /\ tries \in [Jobs -> Nat] /\ stalled \subseteq Jobs /\ expired \subseteq stalled
  /\ work \in [Runs -> {Idle} \cup WorkState]
  /\ \A r \in Runs : work[r] # Idle => work[r].pos <= Len(EventsOf(r[1]))
  /\ \A j \in Jobs : /\ job[j] = "active" => work[Holder(j)] # Idle
                     /\ job[j] \in {"absent", "waiting", "done"} => work[Holder(j)] = Idle
                     /\ work[<<j, 2>>] # Idle => j \in expired
  /\ stored \in [Messages -> {"none"} \cup Class]
  /\ media \in [Messages -> Nat] /\ fetches \in [Messages -> Nat]
  /\ pushes \in [Messages -> Nat]
  /\ channel \in [lastMessageAt : Nat, awaiting : Time, lastReply : Time]
  /\ ticket \in [status : {"none", "open", "closed"}, firstResponse : Time]
  /\ desk \in [at : {"idle", "create", "done"}, reply : Time]
  /\ faults \in Nat

\* Whatever imports and webhooks race on a message, an import alone starts no clock
\* and sends no notification: the message came in live as well
\* (classification.ts:63, normalize.processor.ts:127).
HistoryStartsNothing ==
  /\ channel.awaiting # None =>
       \E m \in Messages : /\ TimeOf[m] = channel.awaiting /\ stored[m] # "none"
                           /\ DirectionOf[m] = "inbound" /\ ~resolveSender(m)
                           /\ post[m] # "unseen"
  /\ \A m \in Messages : pushes[m] > 0 =>
       stored[m] # "none" /\ post[m] # "unseen" /\ DirectionOf[m] = "inbound"

\* A job that ends well has stored all its messages with their attachments, also
\* when an earlier attempt died half way (normalize.ts:108).
DoneIsComplete ==
  \A j \in Jobs : job[j] = "done" =>
    \A i \in DOMAIN EventsOf(j) :
      LET m == EventsOf(j)[i]
      IN stored[m] # "none" /\ (m \in HasMedia => media[m] > 0)

\* The runs of a message's jobs that could stand beside each other: one of each job, and a
\* second one where a lock expired under a live worker.
Brings(j, m) == \E i \in DOMAIN EventsOf(j) : EventsOf(j)[i] = m

RunsOf(m) ==
  {r \in Runs : /\ Brings(r[1], m) /\ job[r[1]] # "absent"
                /\ r[2] = 2 => r[1] \in expired}

LiveRunsOf(m) == {r \in RunsOf(m) : r[1] \in LiveJobs}

\* Two runs that both find nothing both tell of the message, and both give it a media row;
\* but there is no more than one of each for a run that could stand beside others.  The
\* retry of a job that threw or died half way adds neither, and an import tells of nothing
\* (normalize.ts:103, drizzle-store.ts:413, normalize.processor.ts:127).
OncePerRun ==
  \A m \in Messages : /\ pushes[m] <= Cardinality(LiveRunsOf(m))
                      /\ media[m] <= Cardinality(RunsOf(m))

\* What an event brings is stored whole, and no run repeats what another did: all of the above.
IngestInv == TypeOK /\ DoneIsComplete /\ OncePerRun

\* Once all jobs are done, and nothing failed on the way, the channel is ordered by
\* its latest message, in whatever order they were normalized (drizzle-store.ts:430).
MarkerIsLatest ==
  faults = 0 /\ (\A j \in Jobs : job[j] \in {"absent", "done"}) =>
    \A m \in Messages : stored[m] # "none" => channel.lastMessageAt >= TimeOf[m]

\* A reply time of the channel or of a ticket is the time of a stored message that
\* the team sent (drizzle-store.ts:450, tickets.service.ts:142).
ResponsesAreReplies ==
  \A t \in {channel.lastReply, ticket.firstResponse, desk.reply} \ {None} :
    \E m \in Messages :
      TimeOf[m] = t /\ DirectionOf[m] = "outbound" /\ stored[m] # "none"

\* A message whose webhook was answered is stored in the end, if at most one thing
\* fails: the job is queued before the answer and run again after the failure.
AnsweredIsStored ==
  <>[](faults > 1 \/ \A m \in Messages : post[m] = "answered" => stored[m] # "none")

\* The download of an attachment is queued in the end unless something failed
\* (normalize.processor.ts:142).
MediaIsFetched ==
  <>[](faults > 0 \/ \A m \in Messages : media[m] > 0 => fetches[m] > 0)

\* normalize.ts lines 102 and 103: live and backfill duplicates are collapsed.  They are not
\* when both copies are looked up before either is inserted: OncePerRun says how often.
ToldOnce == \A m \in Messages : pushes[m] <= 1 /\ media[m] <= 1

\* classification.ts lines 10 to 12: historical context must never trigger SLA: a
\* clock is only stopped by a live answer.
HistoryIsQuiet ==
  [][channel.awaiting # None /\ channel'.awaiting = None =>
       \E m \in Messages : TimeOf[m] = channel'.lastReply /\ stored[m] # "backfill"]_vars
=============================================================================
