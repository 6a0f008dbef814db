# ClarioDesk: TLA+ models, checks and proofs

ClarioDesk is a team inbox for WhatsApp. A gateway holds the WhatsApp sessions
of a company's phones; incoming messages are normalized into a database, agents
answer them from a web app, and every answer goes through an outbox. This
directory models the parts of it whose correctness depends on the order in which
several processes act on the same rows. Everything is translated from the code;
documents are quoted only where they promise something the code does not do.

- [The system](#the-system)
- [What is modelled](#what-is-modelled)
- [The runs](#the-runs)
- [The proofs](#the-proofs)
- [Where documents and code disagree](#where-documents-and-code-disagree)
- [What is left out](#what-is-left-out)
- [What is next](#what-is-next)

## The system

Six programs share one Postgres database, one Redis (BullMQ queues and pub/sub)
and one object store. Paths are relative to the repository.

| Part | State | Hard because |
|---|---|---|
| Outbox API, `apps/api/src/outbox` | `outbox_messages`, objects, jobs | a request and its retry race on a key; cancel reads, then writes; insert and enqueue are not one transaction |
| Outbox worker, `apps/worker/src/processors/outbox-send.processor.ts` | row status, provider id, message, channel clock | job locks expire; processes die; the gateway call may fail after WhatsApp has the message |
| Normalizer, `apps/worker/src/pipeline`, `processors/normalize.processor.ts` | messages, media rows, clock, first responses | redelivered and reordered events, retries of half-done batches, echoes that overtake the worker |
| Gateway, `apps/gateway/src` | sockets, credentials, message cache, formats | reconnect timers against stop and logout; debounced writes; LIDs that are resolved late |
| Phones, `apps/api/src/phones`, scheduler, `apps/scheduler/src` | `phone_instances.status`, retention | calls, heartbeats, health checks and imports overwrite one column |
| Media download, `processors/media-download.processor.ts` | `message_media`, objects | runs that overlap after a stall, and the purge |
| Conversations, `apps/api/src/conversations` | `conversation_commands`, groups at WhatsApp | idempotent commands whose retries take over |
| Channels, tickets, `apps/api/src/channels`, `tickets` | mappings, channel state, tickets | calls that ask the gateway in between; the first response is copied |
| Access and realtime, `apps/realtime/src`, `packages/events`, `notify` | sockets, presence keys, push jobs | one rule in three copies; disconnects during awaits |
| Settings, `apps/api/src/ai`, `canned-responses`, `team`, `auth` | labelled rows, members | rows loaded before a slow call and written after; select, then insert |
| Web app, `apps/web/src` | what is on screen, requests in flight | answers come late, twice, never, or for what was left |

How they interact. The API writes a row and adds a job; the worker claims the
row, calls the gateway over HTTP and writes row, message and channel; the gateway
posts webhook events to the API, which stores them and adds normalize jobs; the
normalizer writes messages and channels and queues downloads and pushes. WhatsApp
echoes a reply as such an event, so the normalizer and the outbox worker write the
same message, outbox row and channel. The scheduler and the phones API write the
phone status that the worker's gate reads. The web app polls and listens to
notices that the realtime server relays from Redis.

The hazards that the properties are for are listed with their lines in
`PROJECT.json`, and so is every component with what is and is not modelled of it.

## What is modelled

One module per component; an action is one statement that the database, the
queue, the gateway or the browser executes at once, so that whatever can happen
between two `await`s of the code can happen between two actions.

| Module | Models | Its state |
|---|---|---|
| `Outbox` | the way of a reply: API calls, queue, workers, gateway, echo | rows, jobs, workers' lines, what WhatsApp accepted |
| `SendOnce` | what the outbox promises, without queue, workers or status | the fate of a reply |
| `SendPolicy`, `SendGate` | `evaluateSendPolicy`, and circumstances that get worse | the input of the verdict |
| `Classification` | `classifyMessage`: live, eligible or history | none |
| `Ingest` | webhook, normalize jobs with redelivery and imports, clock, marker, tickets' first response, pushes | posts, jobs, workers, stored messages, channel, ticket |
| `GatewaySession` | start, launch, QR, loss, reconnect, stop and logout of one session | sockets, launches, timer, credentials |
| `PhoneLifecycle` | the row of that phone: API calls, heartbeat, health check, imports | status, age, calls |
| `GatewayWire` | what a message becomes in the gateway's, adapter's and outbox's formats | chat, events, timeline rows |
| `MessageCache` | recordMessage, merging of LIDs, the debounced file | lists, raw messages, file |
| `Conversations` | reserve, take over, create, first message, complete | command, calls, rows |
| `ChannelRegistry` | mapping, refresh, pin, archive, unread of one channel | row, mappings, gateway's copy |
| `Notifications` | the access rule and its copies, sockets, presence, one push | grants, sockets, counts, keys |
| `MediaStore` | downloads with retries and stalls, links, retention | rows, objects, runs |
| `Ordered` | ascending sorts and filters of lists, stated by what they give | none |
| `Settings` | AI connections, quick replies, drafts, registrations, invitations | rows, requests, members |
| `WebClient` | the pane of a chat: loads, refreshes, polls, events | pane, requests |
| `Inbox` | the list of chats, its commands, the notification centre | list, reads, commands, alerts |
| `Composer` | replies, notes, quotes, drafts, files, the dialog of a new chat | texts, submission, dialog |
| `BrowserSession` | a shared browser: tokens, tabs, push subscription | tokens, calls, endpoints |
| `LinkScreen` | QR requests, polls, syncs, buttons of the phones view | calls, QR, marks |
| `MessageActions` | menu, reactions, quotes, tickets, previews, viewer | menu, requests, tickets |
| `Lookups` | contacts, quick replies, search | typed words, requests, list |

`MCOutbox`, `MCIngest`, `MCPhone`, `MCDesk` and `MCWeb` compose them for TLC: the
last two put the small components side by side, one in `focus` at a time while the
others rest, because they share no state but the chat on screen. `Ingest` uses
`Classification`, `Outbox` and `SendGate` use `SendPolicy`, `PhoneLifecycle` extends
`GatewaySession`, `Composer` extends `Inbox`.

### `Outbox`

A row, its job and its WhatsApp message are named by the API call that inserted
the row. `FindExisting`, `FindNothing`, `PutMedia`, `InsertRow`, `InsertThrows`,
`Enqueue`, `Abandon`, `Refuse` are `send` and `sendMedia`; `CancelRead`,
`CancelUpdate`, `CancelRemove` are `cancel`; `Claim`, `Load`, `Gate`, `Dispatch`,
`Stamp`, `Record`, `Touch`, `Fail` the processor; `EchoFind` to `EchoRespond` the
outbound half of `normalizeEvent`. Failures are actions too: a process that dies
(`Abandon`, `Crash`), a statement that throws (`InsertThrows`, `DbError`), a gateway
call that throws before or after WhatsApp accepted the message, a webhook that comes
again. BullMQ is external: `Promote`, `Take`, `Stall`, `Complete`, `Retry`; only the
holder of a lock moves a job, and a lock may expire although its worker is alive.
`SendOnce` is the abstract specification: a fate goes from `absent` to `open`, `taken`
and `delivered`, or is `dropped` on the way; `Fate` reads it off row, gateway and workers.

### `Ingest`

`Receive`, `Answer`, `PostFails` are the gateway's webhook with its attempts, `Accept`
the API's; `SyncHistory` queues an import; `Take`, `Find` to `Fetch` are the statements of
the normalizer for one event of a job, `Throw` and `Crash` its failures. Several jobs
run at a time (`Concurrency`), and so may two runs of one job: `Expire` takes the lock from a
live worker, who goes on beside the run that BullMQ starts again; only the run that holds the
lock (`Holder`) moves the job at its end. A second stall fails the job, so there are never three
runs. `ReadTicketSource`, `InsertTicket` and `UpdateTicket` are the tickets API, which
copies the channel's reply time before its own transaction.

### Phones and gateway

A session has sockets that open, ask for a QR, are scanned, lose the connection or
are logged out, each at its own time; a launch awaits the credentials between two
steps; the reconnect timer is a flag. The row's callers (`Launchers` and the
scheduler's `Beat`) read the session and write the row in separate steps.
`MessageCache` follows `recordMessage` from the first await on, and has the three
states of the flush timer that the code can tell apart (null, running, cleared but
not null). `GatewayWire` carries what the properties tell apart of a message: its
content, side, caption and quote, and the tables that map types of WhatsApp, gateway,
API and database to each other.

### Desk and web

A download run of `MediaStore` fails in the try block, which writes the row (`DownloadFails`,
`RecordFailure`), or outside of it, which does not (`RunThrows`: the selects, a missing phone, or the
update of the catch block itself); its lock may expire and its worker die, the second time for good.
`lost` is a history variable: the media whose job is over without its outcome in the row.
The calls of `Conversations`, `ChannelRegistry`, `Settings` and `MediaStore` hold what they read in a
record while others go on. The web modules have the requests in flight as state and
answer them in any order; a rerender that reruns an effect is part of the action
that causes it. Timers fire at any time. The scheduler's and the cache's periods are
the only times that are counted (`age`, `presence`), each in units of its own period.

## The runs

`CHECK_DEADLOCK FALSE` everywhere: when all calls are done and nobody does anything,
the system rests.

| Run | Instance | Shows |
|---|---|---|
| `outbox_safety` | an attachment with the phone's states, a delayed text with its retry under one key; 1 cancellation, 2 workers, 1 expired lock, 1 fault, 3 attempts; workers, and the text and its retry, symmetric | `AtMostOnce`, `Custody`, `SentWasDelivered`, `CancelBeforeClaimHolds`, `KeepsPromise` |
| `outbox_live` | an attachment while the client writes; a text, its echo and crashes | `QueuedSettles`, `DispatchedIsRecorded`, `EchoReachesTimeline` |
| `ingest` | a question between two answers; either 2 posts each, an import and 1 failure, or a ticket; 2 jobs at a time | `IngestInv`, `HistoryStartsNothing`, `MarkerIsLatest`, `ResponsesAreReplies`, `AnsweredIsStored`, `MediaIsFetched` |
| `phone` | 2 sockets without the row, or 1 with it; 1 user, the heartbeat, 1 fault, stale after 2 periods | `PhoneInv`, `ShownLinkIsReal`, `LinkComesBack` |
| `desk` | one component at a time: 2 calls, sockets, runners, editors, handlers or messages each | `CommandsAreIdempotent`, `AccessAgrees`, `NothingDangles`, `SettingsInv`, `WireInv`, `NeverLoosens`, `CommandsAreAnswered`, `PresenceRecovers`, `MediaSettles`, `RowsConverge`, `CacheIsSaved` |
| `web` | one screen at a time: 2 chats, 2 requests, 2 texts, 2 users and tabs, 3 notices | `NoStaleNews`, `RepeatsFollowErrors`, `PushesFollowTheBrowser`, `LinkScreenInv`, `ActionsInv`, `LookupsInv`, `PaneCatchesUp`, `ChatsCatchUp`, `NotesStayInside` |

Each has one type invariant besides, inside of `IngestInv` and `PhoneInv` where it is not named.
Six further runs find a violation each, see [below](#where-documents-and-code-disagree).

What they show. *Outbox*: whichever locks expire and processes die, a reply reaches
WhatsApp at most once, `sent` always stands for a delivery with a provider id, one key
leaves one row, and a cancellation written before the claim holds. The converse is
not claimed: a delivered reply may be shown as failed or cancelled. *Ingest*: what was
answered is stored whole; it is told of, and gets a media row, at most once for each run of its
jobs that could stand beside the others, that is once per job and once more per expired lock, so that
retries, crashes and imports repeat nothing; an import alone
starts no clock and pushes nothing; reply times are those of replies. *Phone*: requests
never go to a socket that closed, `ready` means an open one, and what the row shows
follows the session in the end. *Desk*: repeated commands are done once per reservation,
the copies of the access rule agree, one mapping is active in every state that others
can see, links lead to objects, a download is there or given up for good except in the three cases that
`DownloadsSettle` names, requests about one row take nothing from each other,
and a message looks the same whichever way it came. *Web*: late answers are not shown
under another chat's or word's name, a text is posted again only after an error that the
agent saw, a note becomes a reply only by his hand, and polls repair what was missed.

Bounds. Two calls, workers, sockets, chats or requests are the smallest number that
race, cross or share; a third adds no new pair, except to conversations (three groups, so that the
bound does not hide one) and to the notification centre (three
notices, one more than its places). One expired lock hands a job to a second worker and a
second expiry kills it; `ingest` has one fault, which may be the expired lock of a live worker. One fault, with the retry that follows it, is what each property survives or is
stated under; `media` has three so that a job can use up its attempts after a stall.
Attempts are 2 where the code has 3 to 5: those after the second meet the same state. `StaleAfter` and
`FreshFor` are a few heartbeats, as in the code. Two of the wire's messages make a quote, a
reaction and a repetition. Constants named `Max...` bound the models only.

What a focus leaves out is said in the MC modules at each. It keeps two sources of
interleaving apart that share no variable, or one that is covered by another focus;
the proofs below are of the components without any focus.

Fairness. Workers of BullMQ poll for ever and a process that died is restarted by its
supervisor: `Take`, `Process`, `EchoStep`, the steps of normalizers, `DownloadRuns`. Timers of the
scheduler, the gateway, the cache and the tab fire: `Promote`, `Scheduler`, `CheckHealth`,
`Relaunch`, `Pulse`, `FlushTimerFires`, `Poll`. A call that runs goes on unless it crashes (`CallRuns`,
`RegRuns`), and the server answers the oldest request (`ServeOldest`, `ServeFirstRead`). Nothing is assumed about users, the
phone, the network or locks. `QueuedSettles` and `DispatchedIsRecorded` are
checked without crashes and database errors because the code does not recover from
them: a worker that dies after its claim leaves the row `sending` for good.

## The proofs

TLAPS proves every invariant and every action property of the passing runs, and the refinement of
`SendOnce`, for every value of the constants: any number of calls, workers, messages, sockets, tabs,
attempts and faults. Liveness is left to TLC. The assumptions are the named ones of the modules:
bounds are numbers, `None` and its like are none of the values they stand beside, batches are finitely many and have
events, attachments carry a key, chats and cached messages are finitely many. TLC evaluates them for
every instance.

None of the properties is inductive. What carries each of them is an invariant that says, for every
step somebody has reached, what he may rely on while the others move.

| Module | Invariant | Theorems |
|---|---|---|
| `OutboxProof` | `Custody` | `TypeCorrect`, `CustodyHolds`, `SentAtMostOnce`, `DispatchersAreAlone`, `RefusedIsNotDelivered`, `SettledForGood`, `SentIsDelivered`, `KeysAreRespected`, `QueuedObjectsAreStored` |
| `OutboxPromise` | the same | `PromiseKept`: every step is one of `SendOnce` or none; `EarlyCancelHolds` |
| `IngestProof` | `IngestIInv` | `IngestHolds`, `ImportsAreQuiet`, `MarkerHolds`, `ResponsesHold` |
| `PhoneProof` | `PhoneIInv` | `PhoneHolds` |
| `ConversationsProof` | `ConvInv` | `ConversationsHold`, `RepeatedCommandsAgree` |
| `DeskProof` | `NotifyInv`, `RegInv`, `MediaInv`, `SettingsMore`, `CacheMore`, `WireMore`; `DeskInv` is all of them | `CountsHold`, `RegistryHolds`, `MediaHolds`, `SetupHolds`, `GateNeverLoosens`; `RightsAgree`, `MappedChannelsAreMappedOnce`, `SignedLinksLead`, `CacheHolds`, `ChatsComeThrough` of the components; `AccessHolds`, `NothingIsLost`, `SettingsHold`, `CommandsHold`, `DeskNeverLoosens`, `WireHolds`, `DeskTypeCorrect` of the desk |
| `WebProof` | `PaneMore`, `AlertsMore`, `ComposerMore`, `BrowserInv`, `LinkMore`, `ActionsMore`, `LookupsMore`; `ClientInv` adds the rest of the types | `PaneHolds`, `AlertsAreLast`, `BrowserHolds`, `LinksAreAsked`, `TicketsHold`, `BoxesHold` of the components; `LoadsAreOfTheirChat`, `NoNewsGetsStale`, `PushesReachTheLast`, `LinkScreenHolds`, `ActionsHold`, `LookupsHold`, `TextsArePostedOnce`, `NotesAreNotSent`, `ClientTypeCorrect` of the client |
| `OrderedProof` | none | lemmas about `Ordered`: `AscendingHolds`, `AmongHolds`, `AscendingIsUnique`, `DistinctIsShort` |

The arguments.

- **Outbox.** `Custody`: past its claim a worker's row is not claimable; in front of the gateway it
  is undelivered; no two workers are past the claim of one row; a call that has not inserted its row
  finds it absent; a delivered row is neither claimable nor refused. `StatusMoves` lists all ways a
  status changes, `NewRowHasNewKey` carries the keys, `FateMoves` and `OneRowMoves` the refinement
  of `SendOnce`.
- **Gate.** Every step makes the input worse (`StepsWorsen`), and a larger send needs approval if a
  smaller one did (`MoreNeedApproval`).
- **Ingest.** `JobsOK`: a worker that has reached an event has all before it stored with their
  attachments, and its class fits how far it is; rows are never taken away (`RowsStay`), so other
  workers cannot break that. `JobFits`: a second run is only there beside one whose lock expired, and only
  the run that holds the lock can end the job. `GatewayOK`: a request that is worked on has queued
  nothing. `PushOK` and `RaceOK` count: the pushes of a message and the runs that may still push it
  are no more than the live runs there could be, its media rows and the runs about to insert one no
  more than all of them. Once a message is stored nobody joins the first, once it has a media row
  nobody joins the second, and who pushes or inserts leaves them (`CountKept`). `ClockOK`: every time on the channel, the ticket and the desk is
  that of a message that somebody said; `MarkerOK`: a stored message is behind the marker or in the
  hands of a worker that will move it.
- **Phone.** `ReadyIsLinked` and `SocketLives` hold through every crossing of launches, timers,
  closes and logouts; a call that was answered carries a status of the list.
- **Conversations.** `ConvInv` says what a call holds at each statement (`CallsKnow`), what the row
  may name (`CommandKnows`) and counts: the groups and the reservations that can still create one
  are no more than takeovers plus one (`ReservationsPay`). The unique index on chats makes the rows
  a bijection (`RowsAreChats`).
- **Desk.** `CountsCover`: a user's live sockets are no more than his count. `RegInv`: who is at the
  commit holds the lock of the mapping and has ended what was active. `MediaInv`: a job has one
  owner; a run that stored its object keeps it stored unless retention began, and only what is old
  is emptied. `SetupInv`: a row carries what the last writes gave it, and a test gives nothing; a
  new user comes with his one membership, in the same transaction. The turns of a draft are runs of
  one role between the places where the role changes: that two neighbours differ holds by the choice
  of those places, that every text is in a turn because the last place before it exists, and that
  the client begins because leading answers are dropped. `CacheMore`: while a chat does not
  overflow, no list names a message twice, so none is longer than there are messages, so nothing is
  trimmed, and what the file has is held and listed; a merge, a flush or a restart may not take one
  copy without the other. `WireMore`: an event, a row and what the worker has not yet stored all
  *tell* the message at their place (`Tells`, `RowTells`), and one forwarder listens at most.
- **Web.** `PaneMore`: a current load is for the active chat. `AlertsMore`: some ascending map takes
  the places of the notification centre to where its events were heard first among the newest, and
  only a full centre leaves out news, which is older; such a map is unique (`AscendingIsUnique`),
  hence the list is the one that `Latest` describes. `ComposerMore`: a text is posted at most once
  more than errors were seen, and what is in the composer, in flight or in a dialog are different
  texts (`Apart`); what a reply holds is a reply or was taken along. `BrowserInv`: a call in flight
  carries a token that was issued. `LinkMore`: one automatic request, and a mark has its sync
  (`Tried`). `LookupsMore`: a live request is the only one of the box that listens, for the word
  shown.

The theorems over `DeskSpec` and `WebClientSpec` rest on `DeskSteps` and `WebSteps`: a step of the
whole is a step of each component or leaves it alone.

Only model-checked:

- liveness (`QueuedSettles`, `DispatchedIsRecorded`, `EchoReachesTimeline`, `AnsweredIsStored`,
  `MediaIsFetched`, `ShownLinkIsReal`, `LinkComesBack`, `CommandsAreAnswered`, `PresenceRecovers`,
  `MediaSettles`, `RowsConverge`, `CacheIsSaved`, `PaneCatchesUp`, `ChatsCatchUp`): fairness and
  `ENABLED` are out of the prover's reach.

Sorts and filters of sequences are recursive in the library, and an induction over them cannot be
cited there. The models therefore define them by what they give: `Ordered` takes the members of a
set of numbers by how many come before each (`Ascending`) and the elements of a list by their places
(`Among`), and `Merged` cuts a chat where the role changes. TLC finds as many states with these
definitions as with a sort and a fold. Where a proof needs an induction after all, it takes a least
or a greatest counterexample of a finite set of numbers (`LeastIs`, `HighestIs`).

## Where documents and code disagree

Each of these is a run that finds the violation; `PROJECT.json` quotes the lines.

| Run | The document says | The code does |
|---|---|---|
| `cancel_acknowledged` | ADR-002: a cancellation prevents the send even if the job was dequeued | `cancel` writes the status without looking at it again; it answers ok for a reply that is delivered |
| `non_operational` | reactions and deletions never drive operations | `describeContent` has no case for them: they come in as "unknown" and start the clock |
| `stuck_syncing` | a phone stuck syncing past the threshold is degraded | the heartbeat refreshes the time that is compared |
| `timeline_of_channel` | a refresh guards against stale responses | `refreshGuarded` sets what it gets: the old chat's messages under the new name |
| `one_group` | an idempotency key prevents duplicate groups | a takeover creates a second one |
| `signed_out_push` | the subscription is removed on logout | nobody calls `unsubscribe` there |

Further properties that the code does not have are stated in the modules, with the
lines of both sides, and no run checks them:

- `Outbox`: `CreateIsPrechecked` (message-pipeline.md:70 against outbox.service.ts:239),
  `FailedIsRetried` (:95 against outbox-send.processor.ts:220), `GhostsComeFromThePhone` (:139 against
  normalize.ts:161), `ReplyStampsTickets` (normalize.ts:227 against :108), `UnansweredIsAwaiting`
  (drizzle-store.ts:437 against outbox-send.processor.ts:195);
- `Ingest`: `HistoryIsQuiet` (classification.ts:10 against normalize.ts:232): an imported answer stops a live clock;
  `ToldOnce` (normalize.ts:102): two runs that look before either inserts both tell of the message and both insert a media row;
- `GatewaySession`: `ReconnectsByItself`; `MessageCache`: `OneChat`, `StoppedSessionsSaveToo`
  (session-manager.ts:477 against 438, 515); `GatewayWire`: `OneAttachment`;
- `Notifications`: `SkippedAreLooking` (notify-push.processor.ts:58); `MediaStore`: `NoOrphans` (technical_design.md:1592
  against jobs.ts:124);
- `Settings`: `HealthIsOfTheKey` (ai-native-byok-architecture.md:42), `TestsChooseNothing`;
- `Inbox`: `ActiveRemains`, `ArchivedOffScreen` (chat-actions-menu-design.md:115, :49); `Composer`:
  `PostedOnce`, `TextsStayInTheirChat`, `DialogsCloseThemselves`; `MessageActions`: `QuotesStayInTheirChat`,
  `ViewerShowsItsChat`; `Lookups`: `ErrorsPass`, `NobodyIsMissed`; `BrowserSession`: `OnlyItsOwnSession`,
  `ActsAsShown`; `LinkScreen`: `UnlinkIsConfirmed`, `QrIsRetried` (PhonesView.tsx:159), `QrOnScreenLinks`.

The models also follow the code where it may surprise a reader:

- *Phones.* A timer launches a second socket when one exists; stop and logout may be
  followed by a reconnect; a QR image that is rendered late overwrites the status; disconnect
  stops the socket where API_REFERENCE.md:235 says it logs the device out; sessions are
  not started after a restart of the gateway.
- *Channels.* The gateway's `chatMeta` is only in memory, so that after a restart a refresh writes
  what nobody said; a confirmation that comes late overwrites a newer change from the phone; an
  unarchive of a mapped group may answer "unmapped"; mapping calls that cross end in a unique violation.
- *Cache.* Reloaded lists are reversed; a merge trims lists without the raw messages; writes
  that fail are not repeated.
- *Wire.* A reply that quotes by the id of the row is refused by the gateway; an import brings a
  second media row for a file that the desk sent.
- *Media.* The purge of a medium that is linked after the selection goes on; a stalled run's
  failure overwrites "downloaded"; an error outside the try block leaves "pending" or "failed" for good; a run in another month leaks the first one's object.
- *Conversations.* After a takeover the answer can name an outbox row of the first group's channel.
- *Web.* An archive's answer leaves the chat the agent moved on to; text survives a switch of
  chats and a suggestion overwrites it; a note drops its file; an expired stored session throws
  without signing out; a label's race in the settings ends as 500.

## What is left out

Bodies, formatting and wording, audit rows, realtime notices as such (publishing swallows its
errors; the models let one be lost), wall-clock time except as said above, pagination, the
ranking of searches, and the layout of views. Of the outbox: the mapping of the channel, on
which the verdict does not depend, and the re-parenting of media. Writes of the cache's file
are atomic. The branches for revocations and group metadata that nothing reaches are not modelled.

Not modelled at all: the evolution and openwa adapters (webhooks accept only `clario_gateway`), clients and
contacts as records, operations, reports and the audit trail, configuration, crypto, logger, validation,
the storage client, the service worker, and the other views of the web app: single statements,
reads, pure I/O, or conversions without state. `PROJECT.json` lists them with the reasons.

## What is next

1. Clients and contacts as records, and the evolution and openwa adapters if webhooks come to
   accept them.
2. Abstract specifications for conversations and media like `SendOnce` for the outbox: one
   channel per command, one owner per object.
3. Liveness with a third worker, call or tab, where the theorems say nothing.
