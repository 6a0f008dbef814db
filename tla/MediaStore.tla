----------------------------- MODULE MediaStore -----------------------------
(***************************************************************************)
(* Received media between the download worker                              *)
(* (apps/worker/src/processors/media-download.processor.ts), the object    *)
(* storage, the links handed out by the API (media.service.ts) and the     *)
(* retention of the scheduler (apps/scheduler/src/jobs.ts purgeMedia and   *)
(* purgeMessages).  Each medium has its message, its row in message_media  *)
(* and its download job.                                                   *)
(***************************************************************************)
EXTENDS Naturals, FiniteSets

CONSTANTS
  Media,
  Runners,      \* bound on the overlapping runs of a download job
  DownloadAttempts,
  PurgeBatch,   \* media purged in one retention run
  MaxMediaFaults  \* bound on failures, crashes and lost job locks

ASSUME MediaAssumption ==
  /\ DownloadAttempts \in Nat \ {0} /\ PurgeBatch \in Nat \ {0}
  /\ MaxMediaFaults \in Nat

VARIABLES
  row,      \* storage_status of each medium, "gone" without a row
  keyOf,    \* month in its storage_key, 0 for none
  objects,  \* media and month of the stored objects
  month,
  job,      \* the download jobs: waiting, active or over
  made,     \* attemptsMade
  stalled,  \* the job was given back once
  lost,     \* media whose job is over without its outcome in the row
  run,      \* the runs of the jobs' processor
  old,      \* media past the retention
  linked,   \* media whose message a ticket has
  message,  \* the messages: kept, a shell without contents, or deleted
  purge,    \* where the retention run is
  picked,   \* media it selected, with their keys
  emptied,  \* the medium whose object it deleted
  mediaFaults

mediaVars == <<row, keyOf, objects, month, job, made, stalled, lost, run, old, linked, message,
               purge, picked, emptied, mediaFaults>>

Months == 1 .. 2

Key == Media \X Months

RowStatus == {"pending", "downloaded", "failed", "expired", "purged", "gone"}

\* key: the month of the object it makes; final: this was the job's last attempt;
\* owner: the run has the lock of its job.
Run == [at : {"loaded", "fetched", "stored", "failing"}, of : Media, key : Months,
        final : BOOLEAN, owner : BOOLEAN]

NoRun == [at |-> "none"]

MediaFault == mediaFaults < MaxMediaFaults /\ mediaFaults' = mediaFaults + 1

Retention == <<old, linked, message, purge, picked, emptied>>

-----------------------------------------------------------------------------
(* The download worker. *)

MutNeverFinal(m) == FALSE
Final(m) == made[m] + 1 >= DownloadAttempts

\* A job without a row, or of a medium that is there, has nothing to do.
TakeDownload(r, m) ==
  /\ run[r] = NoRun /\ job[m] = "waiting"
  /\ IF row[m] \in {"gone", "downloaded"}
       THEN job' = [job EXCEPT ![m] = "over"] /\ run' = run
       ELSE /\ job' = [job EXCEPT ![m] = "active"]
            /\ run' = [run EXCEPT ![r] = [at |-> "loaded", of |-> m, key |-> month,
                                          final |-> Final(m), owner |-> TRUE]]
  /\ UNCHANGED <<row, keyOf, objects, month, made, stalled, lost, Retention, mediaFaults>>

\* The bytes are there; the object's name has the month of now.
FetchBytes(r) ==
  /\ run[r] # NoRun /\ run[r].at = "loaded"
  /\ run' = [run EXCEPT ![r].at = "fetched", ![r].key = month]
  /\ UNCHANGED <<row, keyOf, objects, month, job, made, stalled, lost, Retention, mediaFaults>>

PutObject(r) ==
  /\ run[r] # NoRun /\ run[r].at = "fetched"
  /\ objects' = objects \cup {<<run[r].of, run[r].key>>}
  /\ run' = [run EXCEPT ![r].at = "stored"]
  /\ UNCHANGED <<row, keyOf, month, job, made, stalled, lost, Retention, mediaFaults>>

\* Only the run that has the lock ends its job.
EndJob(r, state) ==
  /\ job' = IF run[r].owner THEN [job EXCEPT ![run[r].of] = state] ELSE job
  /\ run' = [run EXCEPT ![r] = NoRun]

SetRow(m, s, key) ==
  IF row[m] = "gone" THEN UNCHANGED <<row, keyOf>>
  ELSE row' = [row EXCEPT ![m] = s] /\ keyOf' = [keyOf EXCEPT ![m] = key]

MutRecordFirst == {"fetched", "stored"}
Recordable == {"stored"}

RecordDownload(r) ==
  /\ run[r] # NoRun /\ run[r].at \in Recordable
  /\ SetRow(run[r].of, "downloaded", run[r].key)
  /\ EndJob(r, "over")
  /\ lost' = lost \ {run[r].of}
  /\ UNCHANGED <<objects, month, made, stalled, Retention, mediaFaults>>

\* What fails in the try block is written down.
DownloadFails(r) ==
  /\ run[r] # NoRun /\ run[r].at \in {"loaded", "fetched", "stored"}
  /\ MediaFault
  /\ run' = [run EXCEPT ![r].at = "failing"]
  /\ UNCHANGED <<row, keyOf, objects, month, job, made, stalled, lost, Retention>>

\* The last attempt gives up and the others are retried; neither looks at the row again, so
\* a run that lost its job may write over what the other one made of it.
RecordFailure(r) ==
  LET m == run[r].of IN
  /\ run[r] # NoRun /\ run[r].at = "failing"
  /\ SetRow(m, IF run[r].final THEN "expired" ELSE "failed", keyOf[m])
  /\ EndJob(r, IF run[r].final \/ made[m] + 1 = DownloadAttempts THEN "over" ELSE "waiting")
  /\ made' = IF run[r].owner THEN [made EXCEPT ![m] = @ + 1] ELSE made
  /\ lost' = CASE run[r].final -> lost \ {m}
              [] ~run[r].final /\ ~run[r].owner /\ job[m] = "over" -> lost \cup {m}
              [] OTHER -> lost
  /\ UNCHANGED <<objects, month, stalled, Retention, mediaFaults>>

\* A select before the try block fails or finds no phone, or the update in its catch block
\* fails: the attempt ends with the row as it is, the last one too.
RunThrows(r) ==
  LET m == run[r].of
      last == made[m] + 1 >= DownloadAttempts
  IN /\ run[r] # NoRun /\ run[r].at \in {"loaded", "failing"}
     /\ MediaFault
     /\ EndJob(r, IF last THEN "over" ELSE "waiting")
     /\ made' = IF run[r].owner THEN [made EXCEPT ![m] = @ + 1] ELSE made
     /\ lost' = IF run[r].owner /\ last THEN lost \cup {m} ELSE lost
     /\ UNCHANGED <<row, keyOf, objects, month, stalled, Retention>>

\* BullMQ finds the job of run r without its lock: it is run again, the second time failed.
Stalls(r) ==
  LET m == run[r].of IN
  /\ stalled' = IF run[r].owner THEN [stalled EXCEPT ![m] = TRUE] ELSE stalled
  /\ lost' = IF run[r].owner /\ stalled[m] THEN lost \cup {m} ELSE lost

AfterStall(r) == IF stalled[run[r].of] THEN "over" ELSE "waiting"

\* The lock of a job runs out; the run that had it goes on.
StallDownload(r) ==
  /\ run[r] # NoRun /\ run[r].owner
  /\ MediaFault
  /\ Stalls(r)
  /\ job' = [job EXCEPT ![run[r].of] = AfterStall(r)]
  /\ run' = [run EXCEPT ![r].owner = FALSE]
  /\ UNCHANGED <<row, keyOf, objects, month, made, Retention>>

\* A worker dies, and its run; the job is found stalled later.
WorkerDies(r) ==
  /\ run[r] # NoRun
  /\ MediaFault
  /\ Stalls(r)
  /\ EndJob(r, AfterStall(r))
  /\ UNCHANGED <<row, keyOf, objects, month, made, Retention>>

NextMonth ==
  /\ month = 1
  /\ month' = 2
  /\ UNCHANGED <<row, keyOf, objects, job, made, stalled, lost, run, Retention, mediaFaults>>

-----------------------------------------------------------------------------
(* Tickets and retention. *)

\* A ticket takes a message for its source or links it.
LinkMessage(m) ==
  /\ message[m] = "kept"
  /\ linked' = linked \cup {m}
  /\ UNCHANGED <<row, keyOf, objects, month, job, made, stalled, lost, run, old, message, purge,
                 picked, emptied, mediaFaults>>

\* Half a year later no download job is left; nothing ages during a retention run.
Age(m) ==
  /\ purge = "idle"
  /\ job[m] = "over" /\ m \notin {run[r].of : r \in {q \in Runners : run[q] # NoRun}}
  /\ old' = old \cup {m}
  /\ UNCHANGED <<row, keyOf, objects, month, job, made, stalled, lost, run, linked, message, purge,
                 picked, emptied, mediaFaults>>

Purgeable == {m \in old \ linked : row[m] \notin {"purged", "gone"}}

\* purgeMedia selects a batch ...
SelectMedia ==
  /\ purge = "idle"
  /\ \E batch \in SUBSET Purgeable :
       /\ Cardinality(batch) = PurgeBatch
            \/ (batch = Purgeable /\ Cardinality(batch) < PurgeBatch)
       /\ picked' = {<<m, keyOf[m]>> : m \in batch}
  /\ purge' = "media"
  /\ UNCHANGED <<row, keyOf, objects, month, job, made, stalled, lost, run, old, linked, message,
                 emptied, mediaFaults>>

\* ... and for each deletes the object, if the storage answers ...
DeleteObject(p) ==
  /\ purge = "media" /\ emptied = {} /\ p \in picked
  /\ \/ objects' = objects \ {p} /\ UNCHANGED mediaFaults
     \/ objects' = objects /\ MediaFault
  /\ picked' = picked \ {p} /\ emptied' = {p[1]}
  /\ UNCHANGED <<row, keyOf, month, job, made, stalled, lost, run, old, linked, message, purge>>

\* ... and marks the row.
MarkPurged(m) ==
  /\ m \in emptied
  /\ emptied' = {}
  /\ SetRow(m, "purged", 0)
  /\ UNCHANGED <<objects, month, job, made, stalled, lost, run, old, linked, message, purge, picked,
                 mediaFaults>>

\* purgeMessages empties linked messages and deletes the others, and their media rows.
PurgeMessages ==
  /\ purge = "media" /\ picked \cup emptied = {}
  /\ purge' = "idle"
  /\ message' = [m \in Media |-> CASE m \in old /\ m \in linked -> "shell"
                                   [] m \in old /\ m \notin linked -> "deleted"
                                   [] OTHER -> message[m]]
  /\ row' = [m \in Media |-> IF message'[m] = "deleted" THEN "gone" ELSE row[m]]
  /\ keyOf' = [m \in Media |-> IF message'[m] = "deleted" THEN 0 ELSE keyOf[m]]
  /\ UNCHANGED <<objects, month, job, made, stalled, lost, run, old, linked, picked, emptied,
                 mediaFaults>>

\* MediaService gives a link.
signedUrl(m) == row[m] = "downloaded" /\ keyOf[m] # 0

-----------------------------------------------------------------------------
MediaInit ==
  /\ row = [m \in Media |-> "pending"]
  /\ keyOf = [m \in Media |-> 0]
  /\ objects = {}
  /\ month = 1
  /\ job = [m \in Media |-> "waiting"]
  /\ made = [m \in Media |-> 0]
  /\ stalled = [m \in Media |-> FALSE]
  /\ lost = {}
  /\ run = [r \in Runners |-> NoRun]
  /\ old = {} /\ linked = {}
  /\ message = [m \in Media |-> "kept"]
  /\ purge = "idle" /\ picked = {} /\ emptied = {}
  /\ mediaFaults = 0

DownloadRuns(r) ==
  \/ \E m \in Media : TakeDownload(r, m)
  \/ FetchBytes(r) \/ PutObject(r) \/ RecordDownload(r) \/ RecordFailure(r)

MediaNext ==
  \/ \E r \in Runners : \/ DownloadRuns(r) \/ DownloadFails(r) \/ RunThrows(r)
                       \/ StallDownload(r) \/ WorkerDies(r)
  \/ \E m \in Media : LinkMessage(m) \/ Age(m) \/ MarkPurged(m)
  \/ \E p \in picked : DeleteObject(p)
  \/ SelectMedia \/ PurgeMessages \/ NextMonth

\* The download workers run.
MediaSpec ==
  MediaInit /\ [][MediaNext]_mediaVars /\ WF_mediaVars(\E r \in Runners : DownloadRuns(r))

-----------------------------------------------------------------------------
MediaTypeOK ==
  /\ row \in [Media -> RowStatus]
  /\ keyOf \in [Media -> Months \cup {0}]
  /\ objects \subseteq Key /\ month \in Months
  /\ job \in [Media -> {"waiting", "active", "over"}]
  /\ made \in [Media -> 0 .. DownloadAttempts]
  /\ stalled \in [Media -> BOOLEAN]
  /\ run \in [Runners -> Run \cup {NoRun}]
  /\ old \cup linked \cup emptied \cup lost \subseteq Media
  /\ message \in [Media -> {"kept", "shell", "deleted"}]
  /\ purge \in {"idle", "media"}
  /\ picked \subseteq Media \X (Months \cup {0})
  /\ mediaFaults \in 0 .. MaxMediaFaults

\* A link that is handed out leads to an object, whatever runs of the download overlap,
\* fail or die, until the retention of the medium begins (media.service.ts:47,
\* media-download.processor.ts:73-94).
LinksLeadSomewhere == \A m \in Media \ old : signedUrl(m) => <<m, keyOf[m]>> \in objects

\* A medium is there or given up in the end, and stays so: it is not pending or failed for
\* good, whatever runs of its job overlap and write last.  Only these outcomes never reach
\* the row: an error outside the try block in the last attempt, a second stall, and the
\* failure of a run that lost its job, written over the row of a job that is over
\* (media-download.processor.ts:30-58, 96-110).
DownloadsSettle ==
  \A m \in Media :
    <>[](row[m] \in {"downloaded", "expired", "purged", "gone"} \/ m \in lost)

\* The technical design (1592) has unlinked media purged after their window, and
\* purgeMedia deletes the object with the row: no object outlives its row.
NoOrphans == \A k \in objects : row[k[1]] # "gone"
=============================================================================
