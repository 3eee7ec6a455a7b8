--------------------------- MODULE WebhookDelivery ---------------------------
(***************************************************************************)
(* The delivery of one attendance webhook.  The batch of a clock action    *)
(* inserts a WebhookDelivery row; the request that made it and every later *)
(* run of the cron job may put a message for it on the queue, so several   *)
(* copies can be under way at once.  Each is consumed by                   *)
(* processWebhookDelivery, retried a bounded number of times when that     *)
(* fails or never ends, and moved to the dead letter queue after that.     *)
(*                                                                         *)
(* Deliveries share nothing but the endpoint, so one row is modelled.  The *)
(* queue is Cloudflare's: it keeps a message until it is acknowledged.     *)
(***************************************************************************)
EXTENDS Naturals, FiniteSets

CONSTANTS
  Copy,        \* bound: the messages ever sent for the delivery
  MaxRetries   \* max_retries of the queue

ASSUME WebhookAssumption == MaxRetries \in Nat

VARIABLES
  status,    \* WebhookDelivery.status, "NONE" before the row exists
  attempts,  \* WebhookDelivery.attempts
  accepted,  \* how often the endpoint has accepted the event
  sender,    \* the clock request that has yet to enqueue its delivery: "idle", "sending"
  listed,    \* a cron run has read the row as PENDING and has yet to enqueue it
  copy       \* the messages: where each one is, and how often it was retried

vars == <<status, attempts, accepted, sender, listed, copy>>
row == <<status, attempts>>

Settled == {"DELIVERED", "DEAD_LETTER"}
DeliveryStatus == {"NONE", "PENDING", "RETRYING"} \cup Settled

\* "queued" waits for its consumer; "read" has found the row unsettled; "posting"
\* has counted the attempt; "ok" and "failed" know the answer; "ended" has written it
\* and not yet been acknowledged; "dead" is on the dead letter queue, "dead again"
\* after the one retry of that queue, and "lost" after that.
Place == {"unsent", "queued", "read", "posting", "ok", "failed", "ended",
          "dead", "dead again", "done", "lost"}

Sending == {"read", "posting", "ok", "failed"}

Move(c, place) == copy' = [copy EXCEPT ![c].at = place]

Init ==
  /\ status = "NONE" /\ attempts = 0 /\ accepted = 0
  /\ sender = "idle" /\ listed = FALSE
  /\ copy = [c \in Copy |-> [at |-> "unsent", retries |-> 0]]

-----------------------------------------------------------------------------
(* Producers.                                                              *)

\* The batch of the clock action commits.
CreateDelivery ==
  /\ status = "NONE"
  /\ status' = "PENDING" /\ sender' = "sending"
  /\ UNCHANGED <<attempts, accepted, listed, copy>>

\* enqueueWebhookDelivery after the batch.
Enqueue(c) ==
  /\ sender = "sending" /\ copy[c].at = "unsent"
  /\ sender' = "idle"
  /\ Move(c, "queued")
  /\ UNCHANGED <<row, accepted, listed>>

\* send() fails, or the Worker stops before it.
EnqueueFails ==
  /\ sender = "sending"
  /\ sender' = "idle"
  /\ UNCHANGED <<row, accepted, listed, copy>>

\* enqueuePendingWebhookDeliveries: the query, and the sends of what it found.
ListPending ==
  /\ status = "PENDING" /\ ~listed
  /\ listed' = TRUE
  /\ UNCHANGED <<row, accepted, sender, copy>>

EnqueuePending(c) ==
  /\ listed /\ copy[c].at = "unsent"
  /\ listed' = FALSE
  /\ Move(c, "queued")
  /\ UNCHANGED <<row, accepted, sender>>

-----------------------------------------------------------------------------
(* The consumer.                                                           *)

\* The queue keeps a message whose consumer threw or never answered: it delivers it
\* again, or moves it to the dead letter queue when its retries are used up.
Return(c) ==
  copy' = [copy EXCEPT ![c] = IF @.retries < MaxRetries
                              THEN [at |-> "queued", retries |-> @.retries + 1]
                              ELSE [@ EXCEPT !.at = "dead"]]

\* Mutant: a given-up delivery is sent again.
Unsettled_MutantDeadLetterToo == status # "DELIVERED"

\* processWebhookDelivery returns at once for a settled row.
Unsettled == status \notin Settled

Read(c) ==
  /\ copy[c].at = "queued"
  /\ Move(c, IF Unsettled THEN "read" ELSE "ended")
  /\ UNCHANGED <<row, accepted, sender, listed>>

\* Mutant: only the first attempt is counted.
AttemptsAfter_MutantFirstOnly == IF status = "PENDING" THEN attempts + 1 ELSE attempts

\* attempts: { increment: 1 }
AttemptsAfter == attempts + 1

BeginAttempt(c) ==
  /\ copy[c].at = "read"
  /\ status' = "RETRYING" /\ attempts' = AttemptsAfter
  /\ Move(c, "posting")
  /\ UNCHANGED <<accepted, sender, listed>>

\* sendAttendanceWebhook: the endpoint accepts and its answer arrives, or the answer
\* is an error or none, whether the endpoint accepted or not.
PostAccepted(c) ==
  /\ copy[c].at = "posting"
  /\ accepted' = accepted + 1
  /\ \E place \in {"ok", "failed"} : Move(c, place)
  /\ UNCHANGED <<row, sender, listed>>

PostRefused(c) ==
  /\ copy[c].at = "posting"
  /\ Move(c, "failed")
  /\ UNCHANGED <<row, accepted, sender, listed>>

RecordSuccess(c) ==
  /\ copy[c].at = "ok"
  /\ status' = "DELIVERED"
  /\ Move(c, "ended")
  /\ UNCHANGED <<attempts, accepted, sender, listed>>

StatusAfterFailure == "RETRYING"

\* The catch block: it also runs when the update of RecordSuccess itself fails.
RecordFailure(c) ==
  /\ copy[c].at \in {"ok", "failed"}
  /\ status' = StatusAfterFailure
  /\ Return(c)
  /\ UNCHANGED <<attempts, accepted, sender, listed>>

Acknowledge(c) ==
  /\ copy[c].at = "ended"
  /\ Move(c, "done")
  /\ UNCHANGED <<row, accepted, sender, listed>>

\* The consumer stops anywhere before the acknowledgement, or its read of the row fails.
ConsumerStops(c) ==
  /\ copy[c].at \in Sending \cup {"queued", "ended"}
  /\ Return(c)
  /\ UNCHANGED <<row, accepted, sender, listed>>

StatusAfterDeadLetter == IF status = "DELIVERED" THEN "DELIVERED" ELSE "DEAD_LETTER"

markWebhookDeadLetter(c) ==
  /\ copy[c].at \in {"dead", "dead again"}
  /\ status' = StatusAfterDeadLetter
  /\ Move(c, "done")
  /\ UNCHANGED <<attempts, accepted, sender, listed>>

\* Its update fails or its consumer stops; the queue drops the message after one retry.
DeadLetterFails(c) ==
  /\ copy[c].at \in {"dead", "dead again"}
  /\ Move(c, IF copy[c].at = "dead" THEN "dead again" ELSE "lost")
  /\ UNCHANGED <<row, accepted, sender, listed>>

-----------------------------------------------------------------------------

Consume(c) ==
  \/ Read(c) \/ BeginAttempt(c) \/ PostAccepted(c) \/ PostRefused(c)
  \/ RecordSuccess(c) \/ RecordFailure(c) \/ Acknowledge(c) \/ markWebhookDeadLetter(c)

Next ==
  \/ CreateDelivery
  \/ EnqueueFails
  \/ ListPending
  \/ \E c \in Copy : Enqueue(c) \/ EnqueuePending(c) \/ Consume(c)
                    \/ ConsumerStops(c) \/ DeadLetterFails(c)

Spec == Init /\ [][Next]_vars

\* The cron trigger lists and enqueues what is pending, and the queue delivers every
\* message; whether a consumer then stops is up to the environment, but each time
\* costs a retry.
FairSpec ==
  /\ Spec
  /\ WF_vars(ListPending)
  /\ WF_vars(\E c \in Copy : EnqueuePending(c))
  /\ \A c \in Copy : WF_vars(Consume(c))

-----------------------------------------------------------------------------
(* Properties.                                                             *)

\* Every variable has its type.
TypeOK ==
  /\ status \in DeliveryStatus
  /\ attempts \in Nat /\ accepted \in Nat
  /\ sender \in {"idle", "sending"} /\ listed \in BOOLEAN
  /\ copy \in [Copy -> [at : Place, retries : 0..MaxRetries]]

\* The history of a delivery tells the truth: what it calls delivered the endpoint has
\* accepted, even when copies overtake each other and consumers stop half-way.
DeliveredWasAccepted == status = "DELIVERED" => accepted > 0

\* Every post is counted before it is made: the endpoint never received the event more
\* often than the row admits, with any number of copies posting at the same time.
PostsAreCounted == accepted <= attempts

\* A row is given up only when one of its messages has used up its retries.
GivenUpOnlyWhenExhausted ==
  status = "DEAD_LETTER" => \E c \in Copy : copy[c].at = "done" /\ copy[c].retries = MaxRetries

\* Nothing is sent for the delivery any more.
Finished ==
  /\ status \in Settled
  /\ \A c \in Copy : copy[c].at \notin Sending

\* A settled delivery that no consumer is working on is final: neither a redelivered
\* message, nor the cron job, nor the dead letter queue sends it again or changes what
\* became of it.  (While a second copy is being sent, it may.)
SettledIsFinal == [][Finished => Finished' /\ status' = status]_vars

\* Every webhook is settled in the end, and stays settled: none is lost between the
\* batch, the queue and the cron job, and late copies do not leave it half-way; unless
\* the dead letter consumer itself failed twice.
EventuallySettled ==
  (status # "NONE") ~> [](status \in Settled \/ \E c \in Copy : copy[c].at = "lost")
=============================================================================
