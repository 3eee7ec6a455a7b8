--------------------------- MODULE PayrollExport ---------------------------
(***************************************************************************)
(* One asynchronous payroll export, with its private object storage        *)
(* configured: the request that creates the job, the queue, the consumer   *)
(* that generates and stores the file, the dead letter queue, and the cron *)
(* job that expires the file (payroll-export.ts).  Jobs share nothing but  *)
(* the status of their period.                                             *)
(*                                                                         *)
(* The queue is Cloudflare's: it delivers a message until it is            *)
(* acknowledged, max_retries times.                                        *)
(***************************************************************************)
EXTENDS Naturals, FiniteSets

CONSTANTS
  Copy,              \* bound: the messages ever sent for the job
  MaxRetries,        \* max_retries of the queue
  ConsumersMayStop   \* whether a consumer can stop after its claim, or its catch block fail

ASSUME PayrollExportAssumption == MaxRetries \in Nat /\ ConsumersMayStop \in BOOLEAN

VARIABLES
  period,    \* PayPeriod.status
  status,    \* ExportJob.status, "NONE" before the row exists
  stored,    \* the bucket holds the file of the job
  expires,   \* ExportJob.expiresAt, against the clock
  sender,    \* the request has yet to enqueue the job it created
  listed,    \* a cron run has read the row as PENDING and has yet to enqueue it
  expiring,  \* how far a cron run has come with the expired job
  copy       \* the messages: where each one is, and how often it was retried

exportVars == <<period, status, stored, expires, sender, listed, expiring, copy>>
file == <<stored, expires, expiring>>
producers == <<sender, listed>>

JobStatus == {"PENDING", "PROCESSING", "COMPLETED", "FAILED", "EXPIRED"}

\* "generating" has claimed the job, "put" has stored the file, "failing" is in the catch
\* block, "ended" returns and will be acknowledged.
Place == {"unsent", "queued", "generating", "put", "failing", "ended",
          "dead", "dead again", "done", "lost"}

Working == {c \in Copy : copy[c].at \in {"generating", "put", "failing"}}

\* Every variable has its type.
ExportTypeOK ==
  /\ period \in {"APPROVED", "LOCKED", "EXPORTED"}
  /\ status \in JobStatus \cup {"NONE"}
  /\ stored \in BOOLEAN
  /\ expires \in {"never", "later", "past"}
  /\ sender \in BOOLEAN /\ listed \in BOOLEAN
  /\ expiring \in {"idle", "listed", "deleted"}
  /\ copy \in [Copy -> [at : Place, retries : 0..MaxRetries]]

ExportInit ==
  /\ period \in {"APPROVED", "LOCKED"}
  /\ status = "NONE" /\ stored = FALSE /\ expires = "never"
  /\ sender = FALSE /\ listed = FALSE /\ expiring = "idle"
  /\ copy = [c \in Copy |-> [at |-> "unsent", retries |-> 0]]

Move(c, place) == copy' = [copy EXCEPT ![c].at = place]

\* A message whose consumer threw or never answered is delivered again, or moved to the
\* dead letter queue when its retries are used up.
Return(c) ==
  copy' = [copy EXCEPT ![c] = IF @.retries < MaxRetries
                              THEN [at |-> "queued", retries |-> @.retries + 1]
                              ELSE [@ EXCEPT !.at = "dead"]]

-----------------------------------------------------------------------------
(* Producers.                                                              *)

Lock ==
  /\ period = "APPROVED"
  /\ period' = "LOCKED"
  /\ UNCHANGED <<status, file, producers, copy>>

\* createPayrollExportV2: PAY_PERIOD_NOT_LOCKED otherwise.
CreateJob ==
  /\ status = "NONE"
  /\ period \in {"LOCKED", "EXPORTED"}
  /\ status' = "PENDING" /\ sender' = TRUE
  /\ UNCHANGED <<period, file, listed, copy>>

Enqueue(c) ==
  /\ sender /\ copy[c].at = "unsent"
  /\ sender' = FALSE
  /\ Move(c, "queued")
  /\ UNCHANGED <<period, status, file, listed>>

\* send() fails, which the request ignores, or the Worker stops before it.
EnqueueFails ==
  /\ sender
  /\ sender' = FALSE
  /\ UNCHANGED <<period, status, file, listed, copy>>

\* Mutant: the cron job enqueues nothing, as if every send had succeeded.
enqueuePendingPayrollExports_MutantNone == FALSE /\ UNCHANGED exportVars

enqueuePendingPayrollExports ==
  /\ status = "PENDING" /\ ~listed
  /\ listed' = TRUE
  /\ UNCHANGED <<period, status, file, sender, copy>>

EnqueuePending(c) ==
  /\ listed /\ copy[c].at = "unsent"
  /\ listed' = FALSE
  /\ Move(c, "queued")
  /\ UNCHANGED <<period, status, file, sender>>

\* downloadPayPeriodExportV2, which needs no job.
DirectDownload ==
  /\ period \in {"LOCKED", "EXPORTED"}
  /\ period' = "EXPORTED"
  /\ UNCHANGED <<status, file, producers, copy>>

-----------------------------------------------------------------------------
(* processPayrollExport.                                                   *)

\* Mutant: the claim accepts a job that another consumer is processing.
Claimable_MutantProcessingToo == status \in {"PENDING", "PROCESSING", "FAILED"}

Claimable == status \in {"PENDING", "FAILED"}

\* A message that claims nothing is acknowledged.
Claim(c) ==
  /\ copy[c].at = "queued"
  /\ IF Claimable
     THEN status' = "PROCESSING" /\ Move(c, "generating")
     ELSE Move(c, "ended") /\ UNCHANGED status
  /\ UNCHANGED <<period, file, producers>>

Put(c) ==
  /\ copy[c].at = "generating"
  /\ stored' = TRUE
  /\ Move(c, "put")
  /\ UNCHANGED <<period, status, expires, expiring, producers>>

\* Mutant: the job is completed first, and the file stored by a retry.
Complete_MutantBeforePut(c) ==
  /\ copy[c].at \in {"generating", "put"}
  /\ status' = "COMPLETED" /\ expires' = "later" /\ period' = "EXPORTED"
  /\ Move(c, "ended")
  /\ UNCHANGED <<stored, expiring, producers>>

\* One batch, and the return of the consumer.
Complete(c) ==
  /\ copy[c].at = "put"
  /\ status' = "COMPLETED" /\ expires' = "later" /\ period' = "EXPORTED"
  /\ Move(c, "ended")
  /\ UNCHANGED <<stored, expiring, producers>>

\* The generation, the put (whether the object was stored or not) or the batch throws.
Throw(c) ==
  /\ copy[c].at \in {"generating", "put"}
  /\ stored' \in {stored, TRUE}
  /\ Move(c, "failing")
  /\ UNCHANGED <<period, status, expires, expiring, producers>>

\* The catch block, whatever the status has become; the error makes the queue retry.
Fail(c) ==
  /\ copy[c].at = "failing"
  /\ status' = "FAILED"
  /\ Return(c)
  /\ UNCHANGED <<period, file, producers>>

\* The claim fails, before the try block, or its consumer stops.
ConsumerStops(c) ==
  /\ \/ copy[c].at = "queued"
     \/ ConsumersMayStop /\ (c \in Working \/ copy[c].at = "ended")
  /\ Return(c)
  /\ UNCHANGED <<period, status, file, producers>>

AcknowledgeMessage(c) ==
  /\ copy[c].at = "ended"
  /\ Move(c, "done")
  /\ UNCHANGED <<period, status, file, producers>>

markPayrollExportDeadLetter(c) ==
  /\ copy[c].at \in {"dead", "dead again"}
  /\ status' = IF status \in {"PENDING", "PROCESSING", "FAILED"} THEN "FAILED" ELSE status
  /\ Move(c, "done")
  /\ UNCHANGED <<period, file, producers>>

\* Its update fails or its consumer stops; that queue retries once.
DeadLetterFails(c) ==
  /\ copy[c].at \in {"dead", "dead again"}
  /\ Move(c, IF copy[c].at = "dead" THEN "dead again" ELSE "lost")
  /\ UNCHANGED <<period, status, file, producers>>

-----------------------------------------------------------------------------
(* Expiry.                                                                 *)

\* 30 days pass.  A consumer lives for minutes and a message for days.
Age ==
  /\ expires = "later"
  /\ \A c \in Copy : copy[c].at \in {"unsent", "done", "lost"}
  /\ expires' = "past"
  /\ UNCHANGED <<period, status, stored, producers, expiring, copy>>

expirePayrollExports ==
  /\ status = "COMPLETED" /\ expires = "past" /\ expiring = "idle"
  /\ expiring' = "listed"
  /\ UNCHANGED <<period, status, stored, expires, producers, copy>>

DeleteObject ==
  /\ expiring = "listed"
  /\ stored' = FALSE /\ expiring' = "deleted"
  /\ UNCHANGED <<period, status, expires, producers, copy>>

MarkExpired ==
  /\ expiring = "deleted"
  /\ status' = "EXPIRED" /\ expiring' = "idle"
  /\ UNCHANGED <<period, stored, expires, producers, copy>>

CronStops ==
  /\ expiring # "idle"
  /\ expiring' = "idle"
  /\ UNCHANGED <<period, status, stored, expires, producers, copy>>

-----------------------------------------------------------------------------

Consume(c) ==
  \/ Claim(c) \/ Put(c) \/ Complete(c) \/ Throw(c) \/ Fail(c)
  \/ AcknowledgeMessage(c) \/ markPayrollExportDeadLetter(c)

Expire == expirePayrollExports \/ DeleteObject \/ MarkExpired

ExportNext ==
  \/ Lock \/ CreateJob \/ EnqueueFails \/ DirectDownload
  \/ enqueuePendingPayrollExports
  \/ Age \/ Expire \/ CronStops
  \/ \E c \in Copy : \/ Enqueue(c) \/ EnqueuePending(c) \/ Consume(c)
                     \/ ConsumerStops(c) \/ DeadLetterFails(c)

ExportSpec == ExportInit /\ [][ExportNext]_exportVars

\* Time passes, the cron trigger fires every five minutes, and a cron run that is not
\* stopped for ever gets to the end; the queue delivers every message.
FairExportSpec ==
  /\ ExportSpec
  /\ WF_exportVars(enqueuePendingPayrollExports)
  /\ WF_exportVars(\E c \in Copy : EnqueuePending(c))
  /\ WF_exportVars(Age)
  /\ WF_exportVars(expirePayrollExports) /\ SF_exportVars(DeleteObject) /\ SF_exportVars(MarkExpired)
  /\ \A c \in Copy : WF_exportVars(Consume(c))

-----------------------------------------------------------------------------
(* Properties.                                                             *)

\* downloadPayrollExportV2 finds the file of every job it offers: what is COMPLETED and
\* has not expired is in the bucket, whatever copies of the message are still under way
\* and wherever a cron run was interrupted.
DownloadableHasFile == status = "COMPLETED" /\ expires = "later" => stored

\* The claim is exclusive: while consumers stop, fail and are retried, two of them work on
\* the job at once only after a dead letter made it claimable under the first one.
ClaimIsExclusive ==
  Cardinality(Working) > 1 =>
    \E c \in Copy : copy[c].at = "done" /\ copy[c].retries = MaxRetries

\* An expired job keeps no file behind.
ExpiredHasNoFile == status = "EXPIRED" => ~stored

\* Every export that was asked for ends: completed, expired later, or failed for good.
\* What stays PROCESSING nobody will ever look at again.  Unless the dead letter consumer
\* itself failed twice for every message there can be.
ExportsSettle ==
  (status = "PENDING") ~>
    [](\/ status \in {"COMPLETED", "FAILED", "EXPIRED"}
       \/ \A c \in Copy : copy[c].at = "lost")

\* "private files expire after 30 days": no file stays in the bucket for ever.
PrivateFilesExpire == stored ~> ~stored
=============================================================================
