---------------------------- MODULE WebhookProofs ----------------------------
(***************************************************************************)
(* Proofs about WebhookDelivery, for any number of copies and of retries.  *)
(*                                                                         *)
(* DeliveredWasAccepted is inductive once the copies that know of an       *)
(* accepted post are included (Known).  PostsAreCounted is not: a post     *)
(* under way is already counted and will be accepted later, so the         *)
(* inductive invariant adds the posts under way to the accepted ones       *)
(* (Counted).  Both rest on TypeOK.  Late copies give up only what has     *)
(* used up its retries because the dead letter queue holds nothing else    *)
(* (Exhausted).                                                            *)
(*                                                                         *)
(* And about the other jobs of MCJobs, in its settings: whom the reminder  *)
(* is about to tell has not been told (ReminderInv); since the day of a    *)
(* recovery check under way nothing was checked, and audit rows are not of *)
(* a day to come (Finds, Dated); a sweep of coordinates works with the     *)
(* policies in force (SweepsAreCurrent).                                   *)
(***************************************************************************)
EXTENDS MCJobs, Sequences, FiniteSetTheorems, TLAPS

\* The initial state has the types.
LEMMA InitTyped == ASSUME Init PROVE TypeOK
<1>1. 0 \in 0..MaxRetries
  BY WebhookAssumption
<1>2. [at |-> "unsent", retries |-> 0] \in [at : Place, retries : 0..MaxRetries]
  BY <1>1 DEF Place
<1> QED BY <1>2 DEF Init, TypeOK, DeliveryStatus, Settled

\* Moving a copy keeps the type of copy and the other copies.
LEMMA MoveKeeps ==
  ASSUME TypeOK, NEW c \in Copy, NEW place \in Place, Move(c, place)
  PROVE  /\ copy' \in [Copy -> [at : Place, retries : 0..MaxRetries]]
         /\ copy'[c].at = place
         /\ \A d \in Copy \ {c} : copy'[d] = copy[d]
  BY DEF TypeOK, Move

\* A returned message is queued again or dead.
LEMMA ReturnKeeps ==
  ASSUME TypeOK, NEW c \in Copy, Return(c)
  PROVE  /\ copy' \in [Copy -> [at : Place, retries : 0..MaxRetries]]
         /\ copy'[c].at \in {"queued", "dead"}
         /\ \A d \in Copy \ {c} : copy'[d] = copy[d]
<1> DEFINE Message == [at : Place, retries : 0..MaxRetries]
<1> DEFINE m == IF copy[c].retries < MaxRetries
                THEN [at |-> "queued", retries |-> copy[c].retries + 1]
                ELSE [copy[c] EXCEPT !.at = "dead"]
<1>1. copy[c] \in Message /\ copy \in [Copy -> Message]
  BY DEF TypeOK
<1>2. m \in Message /\ m.at \in {"queued", "dead"}
  <2>1. CASE copy[c].retries < MaxRetries
    <3>1. copy[c].retries + 1 \in 0..MaxRetries
      <4> copy[c].retries \in 0..MaxRetries BY <1>1
      <4> MaxRetries \in Nat BY WebhookAssumption
      <4> QED BY <2>1
    <3> QED BY <3>1, <2>1 DEF Place
  <2>2. CASE ~(copy[c].retries < MaxRetries)
    BY <1>1, <2>2 DEF Place
  <2> QED BY <2>1, <2>2
<1>3. copy' = [copy EXCEPT ![c] = m]
  BY DEF Return
<1> QED BY <1>1, <1>2, <1>3

\* One step of one copy, as the proofs below use it: what happens to the counters,
\* where the copy was and is, and that the others stay where they are.
LEMMA CopyStep ==
  ASSUME TypeOK, NEW c \in Copy,
         Enqueue(c) \/ EnqueuePending(c) \/ Consume(c) \/ ConsumerStops(c) \/ DeadLetterFails(c)
  PROVE  /\ TypeOK'
         /\ \A d \in Copy \ {c} : copy'[d] = copy[d]
         /\ \/ /\ copy'[c].at = "posting" /\ attempts' = attempts + 1
               /\ accepted' = accepted /\ status' = "RETRYING" /\ copy[c].at = "read"
            \/ /\ copy[c].at = "posting" /\ attempts' = attempts
               /\ accepted' = accepted + 1 /\ status' = status
               /\ copy'[c].at \in {"ok", "failed"}
            \/ /\ copy'[c].at \notin {"posting", "ok"} /\ attempts' = attempts
               /\ accepted' = accepted
               /\ \/ status' = status
                  \/ status' = "DELIVERED" /\ copy[c].at = "ok"
                  \/ status' \in {"RETRYING", "DEAD_LETTER"}
         /\ Finished => /\ copy'[c].at \notin Sending
                        /\ status' = status
<1> USE DEF Place, Sending, DeliveryStatus, Settled, row
<1>1. CASE Enqueue(c)
  <2>1. Move(c, "queued") BY <1>1 DEF Enqueue
  <2> QED BY <1>1, <2>1, MoveKeeps DEF Enqueue, TypeOK, Finished
<1>2. CASE EnqueuePending(c)
  <2>1. Move(c, "queued") BY <1>2 DEF EnqueuePending
  <2> QED BY <1>2, <2>1, MoveKeeps DEF EnqueuePending, TypeOK, Finished
<1>3. CASE Read(c)
  <2>1. PICK place \in {"read", "ended"} :
          Move(c, place) /\ (status \in Settled => place = "ended")
    BY <1>3 DEF Read, Unsettled
  <2> QED BY <1>3, <2>1, MoveKeeps DEF Read, TypeOK, Finished
<1>4. CASE BeginAttempt(c)
  <2>1. Move(c, "posting") BY <1>4 DEF BeginAttempt
  <2>2. /\ copy[c].at = "read" /\ status' = "RETRYING" /\ attempts' = attempts + 1
        /\ UNCHANGED <<accepted, sender, listed>>
    BY <1>4 DEF BeginAttempt, AttemptsAfter
  <2>3. attempts \in Nat BY DEF TypeOK
  <2>4. attempts' \in Nat BY <2>2, <2>3
  <2>5. TypeOK' BY <2>1, <2>2, <2>4, MoveKeeps DEF TypeOK
  <2>6. ~Finished BY <2>2 DEF Finished
  <2> QED BY <2>1, <2>2, <2>5, <2>6, MoveKeeps
<1>5. CASE PostAccepted(c)
  <2>1. PICK place \in {"ok", "failed"} : Move(c, place) BY <1>5 DEF PostAccepted
  <2>2. /\ copy[c].at = "posting" /\ accepted' = accepted + 1
        /\ UNCHANGED <<status, attempts, sender, listed>>
    BY <1>5 DEF PostAccepted
  <2>3. accepted \in Nat BY DEF TypeOK
  <2>4. accepted' \in Nat BY <2>2, <2>3
  <2>5. TypeOK' BY <2>1, <2>2, <2>4, MoveKeeps DEF TypeOK
  <2>6. ~Finished BY <2>2 DEF Finished
  <2> QED BY <2>1, <2>2, <2>5, <2>6, MoveKeeps
<1>6. CASE PostRefused(c)
  <2>1. Move(c, "failed") BY <1>6 DEF PostRefused
  <2> QED BY <1>6, <2>1, MoveKeeps DEF PostRefused, TypeOK, Finished
<1>7. CASE RecordSuccess(c)
  <2>1. Move(c, "ended") BY <1>7 DEF RecordSuccess
  <2> QED BY <1>7, <2>1, MoveKeeps DEF RecordSuccess, TypeOK, Finished
<1>8. CASE RecordFailure(c)
  <2>1. Return(c) BY <1>8 DEF RecordFailure
  <2> QED BY <1>8, <2>1, ReturnKeeps DEF RecordFailure, StatusAfterFailure, TypeOK, Finished
<1>9. CASE Acknowledge(c)
  <2>1. Move(c, "done") BY <1>9 DEF Acknowledge
  <2> QED BY <1>9, <2>1, MoveKeeps DEF Acknowledge, TypeOK, Finished
<1>10. CASE markWebhookDeadLetter(c)
  <2>1. Move(c, "done") BY <1>10 DEF markWebhookDeadLetter
  <2> QED BY <1>10, <2>1, MoveKeeps
          DEF markWebhookDeadLetter, StatusAfterDeadLetter, TypeOK, Finished
<1>11. CASE ConsumerStops(c)
  <2>1. Return(c) BY <1>11 DEF ConsumerStops
  <2> QED BY <1>11, <2>1, ReturnKeeps DEF ConsumerStops, TypeOK, Finished
<1>12. CASE DeadLetterFails(c)
  <2>1. PICK place \in {"dead again", "lost"} : Move(c, place) BY <1>12 DEF DeadLetterFails
  <2> QED BY <1>12, <2>1, MoveKeeps DEF DeadLetterFails, TypeOK, Finished
<1> QED BY <1>1, <1>2, <1>3, <1>4, <1>5, <1>6, <1>7, <1>8, <1>9, <1>10, <1>11, <1>12
        DEF Consume

\* The remaining steps leave the copies and both counters alone.
LEMMA OtherStep ==
  ASSUME TypeOK, CreateDelivery \/ EnqueueFails \/ ListPending \/ UNCHANGED vars
  PROVE  /\ TypeOK'
         /\ copy' = copy /\ attempts' = attempts /\ accepted' = accepted
         /\ status' = status \/ (status' = "PENDING" /\ ~Finished)
  BY DEF CreateDelivery, EnqueueFails, ListPending, vars, row, TypeOK, Finished,
         DeliveryStatus, Settled

\* A step of the specification is one or the other.
LEMMA Steps ==
  ASSUME [Next]_vars
  PROVE  \/ CreateDelivery \/ EnqueueFails \/ ListPending \/ UNCHANGED vars
         \/ \E c \in Copy : \/ Enqueue(c) \/ EnqueuePending(c) \/ Consume(c)
                            \/ ConsumerStops(c) \/ DeadLetterFails(c)
  BY DEF Next

\* Every variable keeps its type (all of webhook-queue.ts).
THEOREM WebhookTypes == Spec => []TypeOK
<1>1. Init => TypeOK BY InitTyped
<1>2. TypeOK /\ [Next]_vars => TypeOK'
  BY Steps, CopyStep, OtherStep
<1> QED BY <1>1, <1>2, PTL DEF Spec

-----------------------------------------------------------------------------

\* A copy that is about to record a delivery knows of an accepted post.
Known == \A c \in Copy : copy[c].at = "ok" => accepted > 0

\* What the row calls delivered, the endpoint has accepted (processWebhookDelivery).
THEOREM DeliveredWasAcceptedHolds == Spec => []DeliveredWasAccepted
<1> DEFINE IInv == DeliveredWasAccepted /\ Known
<1>1. Init => IInv
  BY DEF Init, DeliveredWasAccepted, Known
<1>2. TypeOK /\ IInv /\ [Next]_vars => IInv'
  <2> SUFFICES ASSUME TypeOK, IInv, [Next]_vars PROVE IInv'
    OBVIOUS
  <2>0. accepted \in Nat
    BY DEF TypeOK
  <2>1. CASE CreateDelivery \/ EnqueueFails \/ ListPending \/ UNCHANGED vars
    BY <2>1, OtherStep DEF DeliveredWasAccepted, Known
  <2>2. ASSUME NEW c \in Copy,
               Enqueue(c) \/ EnqueuePending(c) \/ Consume(c) \/ ConsumerStops(c) \/ DeadLetterFails(c)
        PROVE  IInv'
    BY <2>0, <2>2, CopyStep DEF DeliveredWasAccepted, Known
  <2> QED BY <2>1, <2>2, Steps
<1> QED BY <1>1, <1>2, WebhookTypes, PTL DEF Spec

-----------------------------------------------------------------------------

Posting == {c \in Copy : copy[c].at = "posting"}

\* The posts under way are counted too.
Counted == accepted + Cardinality(Posting) <= attempts

\* The copies are finitely many, and so are those that are posting.
LEMMA PostingFinite ==
  ASSUME IsFiniteSet(Copy)
  PROVE  IsFiniteSet(Posting) /\ Cardinality(Posting) \in Nat
  BY FS_Subset, FS_CardinalityType DEF Posting

\* No post is under way at the start.
LEMMA CountedInit ==
  ASSUME Init
  PROVE  Counted
<1>1. Posting = {} BY DEF Init, Posting
<1> QED BY <1>1, FS_EmptySet DEF Init, Counted

\* Every step counts the posts under way.
LEMMA CountedSteps ==
  ASSUME IsFiniteSet(Copy), TypeOK, Counted, [Next]_vars
  PROVE  Counted'
<1>0. /\ accepted \in Nat /\ attempts \in Nat
      /\ IsFiniteSet(Posting) /\ Cardinality(Posting) \in Nat
      /\ IsFiniteSet(Posting') /\ Cardinality(Posting') \in Nat
  <2>1. IsFiniteSet(Posting') BY FS_Subset DEF Posting
  <2> QED BY <2>1, PostingFinite, FS_CardinalityType DEF TypeOK
<1>1. CASE CreateDelivery \/ EnqueueFails \/ ListPending \/ UNCHANGED vars
  <2>1. Posting' = Posting BY <1>1, OtherStep DEF Posting
  <2> QED BY <1>1, <2>1, OtherStep DEF Counted
<1>2. ASSUME NEW c \in Copy,
             Enqueue(c) \/ EnqueuePending(c) \/ Consume(c) \/ ConsumerStops(c) \/ DeadLetterFails(c)
      PROVE  Counted'
  <2>1. CASE copy[c].at = "read" /\ copy'[c].at = "posting" /\ attempts' = attempts + 1
               /\ accepted' = accepted
    <3>1. Posting' = Posting \cup {c} BY <1>2, <2>1, CopyStep DEF Posting
    <3>2. Cardinality(Posting') <= Cardinality(Posting) + 1
      BY <1>0, <3>1, FS_AddElement
    <3> QED BY <1>0, <2>1, <3>2 DEF Counted
  <2>2. CASE copy[c].at = "posting" /\ attempts' = attempts /\ accepted' = accepted + 1
               /\ copy'[c].at \in {"ok", "failed"}
    <3>1. Posting' = Posting \ {c} /\ c \in Posting
      BY <1>2, <2>2, CopyStep DEF Posting
    <3>2. Cardinality(Posting') = Cardinality(Posting) - 1
      BY <1>0, <3>1, FS_RemoveElement
    <3> QED BY <1>0, <2>2, <3>2 DEF Counted
  <2>3. CASE copy'[c].at # "posting" /\ attempts' = attempts /\ accepted' = accepted
    <3>1. Posting' \subseteq Posting BY <1>2, <2>3, CopyStep DEF Posting
    <3>2. Cardinality(Posting') <= Cardinality(Posting)
      BY <1>0, <3>1, FS_Subset
    <3> QED BY <1>0, <2>3, <3>2 DEF Counted
  <2> QED BY <1>2, <2>1, <2>2, <2>3, CopyStep
<1> QED BY <1>1, <1>2, Steps

\* The endpoint never accepted the event more often than the row has counted
\* (the increment of attempts before sendAttendanceWebhook).
THEOREM PostsAreCountedHolds == IsFiniteSet(Copy) => (Spec => []PostsAreCounted)
<1> SUFFICES ASSUME IsFiniteSet(Copy) PROVE Spec => []PostsAreCounted
  OBVIOUS
<1>1. Init => Counted
  BY CountedInit
<1>2. TypeOK /\ Counted /\ [Next]_vars => Counted'
  BY CountedSteps
<1>3. TypeOK /\ Counted => PostsAreCounted
  BY PostingFinite DEF TypeOK, Counted, PostsAreCounted
<1> QED BY <1>1, <1>2, <1>3, WebhookTypes, PTL DEF Spec

-----------------------------------------------------------------------------

\* A settled delivery that no consumer is working on is final
\* (the early return of processWebhookDelivery, the condition of markWebhookDeadLetter).
THEOREM SettledIsFinalHolds == Spec => SettledIsFinal
<1>1. TypeOK /\ [Next]_vars => [Finished => Finished' /\ status' = status]_vars
  <2> SUFFICES ASSUME TypeOK, [Next]_vars, Finished PROVE Finished' /\ status' = status
    OBVIOUS
  <2>1. CASE CreateDelivery \/ EnqueueFails \/ ListPending \/ UNCHANGED vars
    BY <2>1, OtherStep DEF Finished
  <2>2. ASSUME NEW c \in Copy,
               Enqueue(c) \/ EnqueuePending(c) \/ Consume(c) \/ ConsumerStops(c) \/ DeadLetterFails(c)
        PROVE  Finished' /\ status' = status
    BY <2>2, CopyStep DEF Finished
  <2> QED BY <2>1, <2>2, Steps
<1> QED BY <1>1, WebhookTypes, PTL DEF Spec, SettledIsFinal

-----------------------------------------------------------------------------

\* What is on the dead letter queue has used up its retries.
Exhausted ==
  \A c \in Copy : copy[c].at \in {"dead", "dead again"} => copy[c].retries = MaxRetries

\* What is not below its bound has reached it.
LEMMA LastRetry ==
  ASSUME NEW tries \in 0..MaxRetries, ~(tries < MaxRetries)
  PROVE  tries = MaxRetries
BY WebhookAssumption

\* A returned message goes to the dead letter queue only without retries left.
LEMMA ReturnExhausts ==
  ASSUME TypeOK, NEW c \in Copy, Return(c), copy'[c].at \in {"dead", "dead again"}
  PROVE  copy'[c].retries = MaxRetries
<1>1. /\ copy[c] \in [at : Place, retries : 0..MaxRetries]
      /\ copy \in [Copy -> [at : Place, retries : 0..MaxRetries]]
  BY DEF TypeOK
<1>2. PICK tries \in 0..MaxRetries : tries = copy[c].retries
  BY <1>1
<1>3. CASE copy[c].retries < MaxRetries
  <2>1. copy'[c] = [at |-> "queued", retries |-> copy[c].retries + 1]
    BY <1>1, <1>3 DEF Return
  <2>2. copy'[c].at = "queued"
    <3>1. PICK n : n = copy[c].retries + 1
      OBVIOUS
    <3>2. copy'[c] = [at |-> "queued", retries |-> n]
      BY <2>1, <3>1
    <3>3. QED
      BY <3>2
  <2>3. QED
    BY <2>2
<1>4. CASE ~(copy[c].retries < MaxRetries)
  <2>1. copy'[c] = [copy[c] EXCEPT !.at = "dead"]
    BY <1>1, <1>4 DEF Return
  <2>2. copy'[c].retries = copy[c].retries
    BY <1>1, <2>1
  <2>3. tries = MaxRetries
    <3>1. ~(tries < MaxRetries)
      BY <1>2, <1>4
    <3>2. QED
      BY <3>1, LastRetry
  <2>4. QED
    BY <1>2, <2>2, <2>3
<1>5. QED
  BY <1>3, <1>4

\* What a step of one copy does to a delivery that is, or is about to be, given up.
LEMMA CopyGivesUp ==
  ASSUME TypeOK, Exhausted, NEW c \in Copy,
         Enqueue(c) \/ EnqueuePending(c) \/ Consume(c) \/ ConsumerStops(c) \/ DeadLetterFails(c)
  PROVE  /\ copy[c].at # "done"
         /\ copy'[c].at \in {"dead", "dead again"} => copy'[c].retries = MaxRetries
         /\ status' = "DEAD_LETTER" =>
              status = "DEAD_LETTER" \/ (copy'[c].at = "done" /\ copy'[c].retries = MaxRetries)
<1>1. /\ copy[c] \in [at : Place, retries : 0..MaxRetries]
      /\ copy \in [Copy -> [at : Place, retries : 0..MaxRetries]]
  BY DEF TypeOK
<1>2. ASSUME NEW place, Move(c, place)
      PROVE  copy'[c].at = place /\ copy'[c].retries = copy[c].retries
  BY <1>1, <1>2 DEF Move
<1>3. CASE Enqueue(c) \/ EnqueuePending(c) \/ Acknowledge(c)
  <2>1. PICK place \in {"queued", "done"} : Move(c, place)
    BY <1>3 DEF Enqueue, EnqueuePending, Acknowledge
  <2>2. copy[c].at # "done" /\ status' = status
    BY <1>3 DEF Enqueue, EnqueuePending, Acknowledge, row
  <2>3. QED
    BY <1>2, <2>1, <2>2
<1>4. CASE Read(c)
  <2>1. PICK place \in {"read", "ended"} : Move(c, place)
    BY <1>4 DEF Read
  <2>2. QED
    BY <1>2, <1>4, <2>1 DEF Read, row
<1>5. CASE BeginAttempt(c) \/ RecordSuccess(c)
  <2>1. PICK place \in {"posting", "ended"} : Move(c, place)
    BY <1>5 DEF BeginAttempt, RecordSuccess
  <2>2. copy[c].at # "done" /\ status' # "DEAD_LETTER"
    BY <1>5 DEF BeginAttempt, RecordSuccess
  <2>3. QED
    BY <1>2, <2>1, <2>2
<1>6. CASE PostAccepted(c) \/ PostRefused(c)
  <2>1. PICK place \in {"ok", "failed"} : Move(c, place)
    BY <1>6 DEF PostAccepted, PostRefused
  <2>2. copy[c].at # "done" /\ status' = status
    BY <1>6 DEF PostAccepted, PostRefused, row
  <2>3. QED
    BY <1>2, <2>1, <2>2
<1>7. CASE RecordFailure(c) \/ ConsumerStops(c)
  BY <1>7, ReturnExhausts DEF RecordFailure, ConsumerStops, StatusAfterFailure, Sending, row
<1>8. CASE markWebhookDeadLetter(c)
  BY <1>2, <1>8 DEF markWebhookDeadLetter, Exhausted
<1>9. CASE DeadLetterFails(c)
  <2>1. PICK place \in {"dead again", "lost"} : Move(c, place)
    BY <1>9 DEF DeadLetterFails
  <2>2. QED
    BY <1>2, <1>9, <2>1 DEF DeadLetterFails, Exhausted, row
<1>10. QED
  BY <1>3, <1>4, <1>5, <1>6, <1>7, <1>8, <1>9 DEF Consume

\* Every step gives up only what is exhausted.
LEMMA GivenUpSteps ==
  ASSUME TypeOK, Exhausted, GivenUpOnlyWhenExhausted, [Next]_vars
  PROVE  Exhausted' /\ GivenUpOnlyWhenExhausted'
<1>1. CASE CreateDelivery \/ EnqueueFails \/ ListPending \/ UNCHANGED vars
  BY <1>1, OtherStep DEF Exhausted, GivenUpOnlyWhenExhausted
<1>2. ASSUME NEW c \in Copy,
             Enqueue(c) \/ EnqueuePending(c) \/ Consume(c) \/ ConsumerStops(c) \/ DeadLetterFails(c)
      PROVE  Exhausted' /\ GivenUpOnlyWhenExhausted'
  <2>1. \A d \in Copy \ {c} : copy'[d] = copy[d]
    BY <1>2, CopyStep
  <2>2. Exhausted'
    BY <1>2, <2>1, CopyGivesUp DEF Exhausted
  <2>3. \A d \in Copy : copy[d].at = "done" => copy'[d] = copy[d]
    BY <1>2, <2>1, CopyGivesUp
  <2>4. GivenUpOnlyWhenExhausted'
    BY <1>2, <2>3, CopyGivesUp DEF GivenUpOnlyWhenExhausted
  <2>5. QED
    BY <2>2, <2>4
<1>3. QED
  BY <1>1, <1>2, Steps

-----------------------------------------------------------------------------
(* The other jobs of MCJobs: the export.                                   *)

\* Moving or returning a message of the export keeps the type of its messages.
LEMMA ExportMessages ==
  ASSUME Export!ExportTypeOK, NEW c \in Copy,
         Export!Return(c) \/ \E place \in Export!Place : Export!Move(c, place)
  PROVE  exportCopy' \in [Copy -> [at : Export!Place, retries : 0..MaxRetries]]
<1> DEFINE Message == [at : Export!Place, retries : 0..MaxRetries]
<1>1. exportCopy \in [Copy -> Message] /\ exportCopy[c] \in Message
  BY DEF Export!ExportTypeOK
<1>2. ASSUME NEW place \in Export!Place, Export!Move(c, place)
      PROVE  exportCopy' \in [Copy -> Message]
  BY <1>1, <1>2 DEF Export!Move
<1>3. CASE Export!Return(c)
  <2>1. PICK m : m = IF exportCopy[c].retries < MaxRetries
                     THEN [at |-> "queued", retries |-> exportCopy[c].retries + 1]
                     ELSE [exportCopy[c] EXCEPT !.at = "dead"]
    OBVIOUS
  <2>2. m \in Message
    <3>1. exportCopy[c].retries \in 0..MaxRetries /\ MaxRetries \in Nat
      BY <1>1, WebhookAssumption
    <3>2. CASE exportCopy[c].retries < MaxRetries
      <4>1. exportCopy[c].retries + 1 \in 0..MaxRetries
        BY <3>1, <3>2
      <4>2. QED
        BY <2>1, <3>2, <4>1 DEF Export!Place
    <3>3. CASE ~(exportCopy[c].retries < MaxRetries)
      BY <1>1, <2>1, <3>3 DEF Export!Place
    <3>4. QED
      BY <3>2, <3>3
  <2>3. exportCopy' = [exportCopy EXCEPT ![c] = m]
    BY <1>3, <2>1 DEF Export!Return
  <2>4. QED
    BY <1>1, <2>2, <2>3
<1>4. QED
  BY <1>2, <1>3

\* Every step of the export keeps the types.
LEMMA ExportTypes ==
  ASSUME Export!ExportTypeOK, Export!ExportNext \/ UNCHANGED exportVars
  PROVE  Export!ExportTypeOK'
<1>1. CASE UNCHANGED exportVars
  BY <1>1 DEF exportVars, Export!ExportTypeOK, Export!JobStatus, Export!Place
<1>2. CASE \/ Export!Lock \/ Export!CreateJob \/ Export!EnqueueFails \/ Export!DirectDownload
           \/ Export!enqueuePendingPayrollExports \/ Export!Age \/ Export!Expire \/ Export!CronStops
  <2>1. UNCHANGED exportCopy
    BY <1>2 DEF Export!Lock, Export!CreateJob, Export!EnqueueFails, Export!DirectDownload,
         Export!enqueuePendingPayrollExports, Export!Age, Export!Expire, Export!CronStops,
         Export!expirePayrollExports, Export!DeleteObject, Export!MarkExpired
  <2>2. QED
    BY <1>2, <2>1
    DEF Export!Lock, Export!CreateJob, Export!EnqueueFails, Export!DirectDownload,
        Export!enqueuePendingPayrollExports, Export!Age, Export!Expire, Export!CronStops,
        Export!expirePayrollExports, Export!DeleteObject, Export!MarkExpired, Export!file,
        Export!producers, Export!ExportTypeOK, Export!JobStatus, Export!Place
<1>3. ASSUME NEW c \in Copy,
             \/ Export!Enqueue(c) \/ Export!EnqueuePending(c) \/ Export!Consume(c)
             \/ Export!ConsumerStops(c) \/ Export!DeadLetterFails(c)
      PROVE  Export!ExportTypeOK'
  <2>1. Export!Return(c) \/ \E place \in Export!Place : Export!Move(c, place)
    BY <1>3
    DEF Export!Enqueue, Export!EnqueuePending, Export!Consume, Export!ConsumerStops,
        Export!DeadLetterFails, Export!Claim, Export!Put, Export!Complete, Export!Throw, Export!Fail,
        Export!AcknowledgeMessage, Export!markPayrollExportDeadLetter, Export!Place
  <2>2. exportCopy' \in [Copy -> [at : Export!Place, retries : 0..MaxRetries]]
    BY <2>1, ExportMessages
  <2>3. /\ period' \in {period, "EXPORTED"}
        /\ exportStatus' \in Export!JobStatus \cup {exportStatus}
        /\ expires' \in {expires, "later"} /\ expiring' = expiring
        /\ exportSender' \in {exportSender, FALSE} /\ exportListed' \in {exportListed, FALSE}
    BY <1>3
    DEF Export!Enqueue, Export!EnqueuePending, Export!Consume, Export!ConsumerStops,
        Export!DeadLetterFails, Export!Claim, Export!Put, Export!Complete, Export!Throw, Export!Fail,
        Export!AcknowledgeMessage, Export!markPayrollExportDeadLetter, Export!file, Export!producers,
        Export!JobStatus
  <2>4. stored' \in {stored, TRUE}
    BY <1>3
    DEF Export!Enqueue, Export!EnqueuePending, Export!Consume, Export!ConsumerStops,
        Export!DeadLetterFails, Export!Claim, Export!Put, Export!Complete, Export!Throw, Export!Fail,
        Export!AcknowledgeMessage, Export!markPayrollExportDeadLetter, Export!file
  <2>5. QED
    BY <2>2, <2>3, <2>4 DEF Export!ExportTypeOK
<1>4. QED
  BY <1>1, <1>2, <1>3 DEF Export!ExportNext

-----------------------------------------------------------------------------
(* The reminder to import next year's holidays.                            *)

\* Who the one invocation is about to tell has not been told.
ReminderInv ==
  /\ Reminder!TypeOK
  /\ Reminder!RemindedOnce
  /\ cron[i1].pc \in {"recipients", "create"} => \A u \in cron[i1].users : notifications[u] = 0

\* What an invocation is at, from its type.
LEMMA ReminderStages ==
  ASSUME NEW s \in {Reminder!Idle} \cup Reminder!Invocations
  PROVE  /\ s.pc \in {"idle", "count", "users", "existing", "recipients", "create"}
         /\ s.pc \in {"existing", "recipients", "create"} => s.users \in SUBSET {u1, u2}
         /\ s = Reminder!Idle <=> s.pc = "idle"
<1>1. Reminder!Idle.pc = "idle"
  BY DEF Reminder!Idle
<1>2. CASE s = Reminder!Idle
  BY <1>1, <1>2
<1>3. CASE s \in Reminder!Invocations
  BY <1>1, <1>3 DEF Reminder!Invocations
<1>4. QED
  BY <1>2, <1>3

\* An invocation goes on to another step.
LEMMA ReminderContinues ==
  ASSUME ReminderInv, NEW s \in {Reminder!Idle} \cup Reminder!Invocations, Reminder!Continue(i1, s),
         UNCHANGED <<window, library, malaysia, organization, active, notifications>>,
         cronStops' \in 0..1,
         s.pc \in {"recipients", "create"} => \A u \in s.users : notifications[u] = 0
  PROVE  ReminderInv'
<1>1. cron' = [i \in {i1} |-> s] /\ cron'[i1] = s
  BY DEF ReminderInv, Reminder!TypeOK, Reminder!Continue
<1>2. cron' \in [{i1} -> {Reminder!Idle} \cup Reminder!Invocations]
  BY <1>1
<1>3. Reminder!TypeOK'
  BY <1>2 DEF ReminderInv, Reminder!TypeOK, Reminder!Idle, Reminder!Invocations, Reminder!MalaysiaHoliday,
       Reminder!Holiday
<1>4. QED
  BY <1>1, <1>3 DEF ReminderInv, Reminder!RemindedOnce

\* The requests, and the days that pass, tell nobody.
LEMMA OthersRemindNobody ==
  ASSUME ReminderInv,
         \/ \E u \in {u1, u2} : Reminder!Import(u) \/ Reminder!SetActive(u)
         \/ \E h \in Reminder!Holiday : Reminder!CreateHoliday(h)
         \/ \E calendar \in {[s \in {my} |-> {d1}]} : Reminder!Deploy(calendar)
         \/ Reminder!NextDay
         \/ UNCHANGED reminderVars
  PROVE  ReminderInv'
<1>1. UNCHANGED <<cron, notifications, cronStops>>
  BY DEF Reminder!Import, Reminder!SetActive, Reminder!CreateHoliday, Reminder!Deploy, Reminder!NextDay,
         reminderVars
<1>2. window' \in 0..3
  BY DEF ReminderInv, Reminder!TypeOK, Reminder!Import, Reminder!SetActive, Reminder!CreateHoliday,
         Reminder!Deploy, Reminder!NextDay, reminderVars
<1>3. library' \in {[s \in {my} |-> {d1}]} /\ active' \subseteq {u1, u2}
  BY DEF ReminderInv, Reminder!TypeOK, Reminder!Import, Reminder!SetActive, Reminder!CreateHoliday,
         Reminder!Deploy, Reminder!NextDay, reminderVars
<1>4. malaysia' \subseteq Reminder!MalaysiaHoliday
  BY DEF ReminderInv, Reminder!TypeOK, Reminder!Import, Reminder!SetActive, Reminder!CreateHoliday,
         Reminder!Deploy, Reminder!NextDay, Reminder!allMalaysiaHolidays, reminderVars
<1>5. organization' \subseteq Reminder!Holiday
  BY DEF ReminderInv, Reminder!TypeOK, Reminder!Import, Reminder!SetActive, Reminder!CreateHoliday,
         Reminder!Deploy, Reminder!NextDay, reminderVars
<1>6. Reminder!TypeOK'
  BY <1>1, <1>2, <1>3, <1>4, <1>5
  DEF ReminderInv, Reminder!TypeOK, Reminder!Idle, Reminder!Invocations, Reminder!MalaysiaHoliday,
      Reminder!Holiday
<1>7. QED
  BY <1>1, <1>6 DEF ReminderInv, Reminder!RemindedOnce

\* A step of the invocation tells somebody only what nobody told them.
LEMMA ReminderSteps ==
  ASSUME ReminderInv, Reminder!Remind(i1) \/ Reminder!StopCron(i1)
  PROVE  ReminderInv'
<1>1. /\ cron[i1] \in {Reminder!Idle} \cup Reminder!Invocations
      /\ active \subseteq {u1, u2} /\ cronStops \in 0..1
      /\ notifications \in [{u1, u2} -> Nat]
  BY DEF ReminderInv, Reminder!TypeOK
<1>2. Reminder!Idle.pc = "idle"
  BY DEF Reminder!Idle
<1>3. ASSUME Reminder!Continue(i1, Reminder!Idle), cronStops' \in 0..1,
             UNCHANGED <<window, library, malaysia, organization, active, notifications>>
      PROVE  ReminderInv'
  BY <1>2, <1>3, ReminderContinues
<1>4. CASE Reminder!StartReminder(i1)
  <2>1. PICK s : s = [pc |-> "count"]
    OBVIOUS
  <2>2. s \in Reminder!Invocations /\ s.pc = "count"
    BY <2>1 DEF Reminder!Invocations
  <2>3. QED
    BY <1>1, <1>4, <2>1, <2>2, ReminderContinues DEF Reminder!StartReminder
<1>5. CASE Reminder!CountImported(i1)
  <2>1. PICK s : s = [pc |-> "users"]
    OBVIOUS
  <2>2. s \in Reminder!Invocations /\ s.pc = "users"
    BY <2>1 DEF Reminder!Invocations
  <2>3. QED
    BY <1>1, <1>3, <1>5, <2>1, <2>2, ReminderContinues DEF Reminder!CountImported
<1>6. CASE Reminder!FindUsers(i1)
  <2>1. PICK s : s = [pc |-> "existing", users |-> active]
    OBVIOUS
  <2>2. s \in Reminder!Invocations /\ s.pc = "existing"
    BY <1>1, <2>1 DEF Reminder!Invocations
  <2>3. QED
    BY <1>1, <1>3, <1>6, <2>1, <2>2, ReminderContinues DEF Reminder!FindUsers
<1>7. CASE Reminder!FindExisting(i1)
  <2>1. cron[i1].users \in SUBSET {u1, u2}
    BY <1>1, <1>7, ReminderStages DEF Reminder!FindExisting
  <2>2. PICK missing \in SUBSET {u1, u2} : missing = {u \in cron[i1].users : notifications[u] = 0}
    BY <2>1
  <2>3. PICK s : s = [pc |-> "recipients", users |-> missing]
    OBVIOUS
  <2>4. s \in Reminder!Invocations /\ s.pc = "recipients" /\ s.users = missing
    BY <2>3 DEF Reminder!Invocations
  <2>5. QED
    BY <1>1, <1>3, <1>7, <2>2, <2>3, <2>4, ReminderContinues DEF Reminder!FindExisting
<1>8. CASE Reminder!FindRecipients(i1)
  <2>1. /\ cron[i1].users \in SUBSET {u1, u2} /\ cron[i1].pc = "recipients"
    BY <1>1, <1>8, ReminderStages DEF Reminder!FindRecipients
  <2>2. PICK users \in SUBSET {u1, u2} : users = cron[i1].users \cap active
    BY <1>1, <2>1
  <2>3. PICK s : s = [pc |-> "create", users |-> users]
    OBVIOUS
  <2>4. s \in Reminder!Invocations /\ s.pc = "create" /\ s.users = users
    BY <2>3 DEF Reminder!Invocations
  <2>5. \A u \in users : notifications[u] = 0
    BY <2>1, <2>2 DEF ReminderInv
  <2>6. QED
    BY <1>1, <1>3, <1>8, <2>2, <2>3, <2>4, <2>5, ReminderContinues DEF Reminder!FindRecipients
<1>9. CASE Reminder!CreateNotifications(i1)
  <2>1. cron[i1].pc = "create" /\ \A u \in cron[i1].users : notifications[u] = 0
    BY <1>9 DEF Reminder!CreateNotifications, ReminderInv
  <2>2. /\ cron' = [i \in {i1} |-> Reminder!Idle]
        /\ UNCHANGED <<window, library, malaysia, organization, active, cronStops>>
        /\ notifications' = [u \in {u1, u2} |->
             IF u \in cron[i1].users THEN notifications[u] + 1 ELSE notifications[u]]
    BY <1>9 DEF Reminder!CreateNotifications, Reminder!Continue, ReminderInv, Reminder!TypeOK
  <2>3. \A u \in {u1, u2} : notifications'[u] \in Nat /\ notifications'[u] <= 1
    BY <1>1, <2>1, <2>2 DEF ReminderInv, Reminder!RemindedOnce
  <2>4. notifications' \in [{u1, u2} -> Nat]
    BY <2>2, <2>3
  <2>5. cron' \in [{i1} -> {Reminder!Idle} \cup Reminder!Invocations] /\ cron'[i1].pc = "idle"
    BY <1>2, <2>2
  <2>6. Reminder!TypeOK'
    BY <2>2, <2>4, <2>5 DEF ReminderInv, Reminder!TypeOK, Reminder!Idle, Reminder!Invocations,
         Reminder!MalaysiaHoliday, Reminder!Holiday
  <2>7. QED
    BY <2>3, <2>5, <2>6 DEF ReminderInv, Reminder!RemindedOnce
<1>10. CASE Reminder!StopCron(i1)
  <2>1. cronStops' \in 0..1
    BY <1>1, <1>10 DEF Reminder!StopCron
  <2>2. QED
    BY <1>3, <1>10, <2>1 DEF Reminder!StopCron
<1>11. QED
  BY <1>4, <1>5, <1>6, <1>7, <1>8, <1>9, <1>10 DEF Reminder!Remind

\* Every step of the reminder keeps its invariant.
LEMMA ReminderNext ==
  ASSUME ReminderInv, Reminder!Next \/ UNCHANGED reminderVars
  PROVE  ReminderInv'
BY OthersRemindNobody, ReminderSteps DEF Reminder!Next

\* Nobody is told at the start.
LEMMA ReminderInit ==
  ASSUME Reminder!Init
  PROVE  ReminderInv
<1>1. cron = [i \in {i1} |-> Reminder!Idle] /\ cron[i1] = Reminder!Idle /\ Reminder!Idle.pc = "idle"
  BY DEF Reminder!Init, Reminder!Idle
<1>2. Reminder!TypeOK
  BY <1>1 DEF Reminder!Init, Reminder!TypeOK
<1>3. QED
  BY <1>1, <1>2 DEF Reminder!Init, ReminderInv, Reminder!RemindedOnce

-----------------------------------------------------------------------------
(* The recovery check.                                                     *)

\* What the one invocation has found out and will act on: nothing was checked since its day
\* began, and, while nothing changed, how many owners there are and whether the check passes.
Finds(s) ==
  /\ s.pc # "idle" => s.day \in Recovery!Day /\ s.day <= day
  /\ s.pc \in {"owners", "totals", "integrity", "audit"} => ~Recovery!CheckedSince(s.day)
  /\ changes = 0 /\ s.pc = "integrity" => s.ownerCount = Recovery!Cardinality(owners)
  /\ changes = 0 /\ s.pc = "audit" => (s.passed <=> healthy /\ Recovery!Cardinality(owners) = 1)

\* Audit rows are not of a day to come.
Dated == \A n \in DOMAIN checks : checks[n].createdAt <= day

RecoveryInv ==
  /\ Recovery!TypeOK
  /\ Recovery!OneCheckPerDay /\ Recovery!QuietResultIsRight
  /\ Dated /\ Finds(checker[i1])

\* The owners are at most the accounts.
LEMMA OwnersCounted ==
  ASSUME owners \subseteq {u1, u2}
  PROVE  Recovery!Cardinality(owners) \in 0..Recovery!Cardinality({u1, u2})
<1>1. \A S : Recovery!Cardinality(S) = Cardinality(S)
  BY DEF Recovery!Cardinality, Cardinality
<1>2. IsFiniteSet({u1, u2})
  <2>1. IsFiniteSet({}) /\ {u1, u2} = ({} \cup {u1}) \cup {u2}
    BY FS_EmptySet
  <2>2. QED
    BY <2>1, FS_AddElement
<1>3. /\ IsFiniteSet(owners) /\ Cardinality(owners) <= Cardinality({u1, u2})
      /\ Cardinality(owners) \in Nat /\ Cardinality({u1, u2}) \in Nat
  BY <1>2, FS_Subset, FS_CardinalityType
<1>4. QED
  BY <1>1, <1>3

\* What an invocation is at, from its type.
LEMMA RecoveryStages ==
  ASSUME NEW s \in {Recovery!Idle} \cup Recovery!Invocations
  PROVE  /\ s.pc \in {"idle", "already", "owners", "totals", "integrity", "audit", "notify", "report"}
         /\ s = Recovery!Idle <=> s.pc = "idle"
         /\ s.pc # "idle" => s.day \in Recovery!Day
         /\ s.pc \in {"totals", "integrity", "audit", "notify", "report"} => s.owners \in SUBSET {u1, u2}
         /\ s.pc = "integrity" => s.ownerCount \in 0..Recovery!Cardinality({u1, u2})
         /\ s.pc = "audit" => s.passed \in BOOLEAN
<1>1. Recovery!Idle.pc = "idle"
  BY DEF Recovery!Idle
<1>2. CASE s = Recovery!Idle
  BY <1>1, <1>2
<1>3. CASE s \in Recovery!Invocations
  BY <1>1, <1>3 DEF Recovery!Invocations
<1>4. QED
  BY <1>2, <1>3

\* An invocation goes on to another step.
LEMMA RecoveryContinues ==
  ASSUME RecoveryInv, NEW s \in {Recovery!Idle} \cup Recovery!Invocations, Recovery!Continue(i1, s),
         UNCHANGED <<day, owners, healthy, checks, changes>>,
         told' \in [Recovery!Day -> SUBSET {u1, u2}], faults' \in 0..2, Finds(s)
  PROVE  RecoveryInv'
<1>1. checker' = [i \in {i1} |-> s] /\ checker'[i1] = s
  BY DEF RecoveryInv, Recovery!TypeOK, Recovery!Continue
<1>2. checker' \in [{i1} -> {Recovery!Idle} \cup Recovery!Invocations]
  BY <1>1
<1>3. /\ day' \in Recovery!Day /\ owners' \subseteq {u1, u2} /\ healthy' \in BOOLEAN
      /\ checks' \in Seq([entityId : Recovery!Day, createdAt : Recovery!Day, passed : BOOLEAN])
      /\ changes' \in 0..2
  BY DEF RecoveryInv, Recovery!TypeOK
<1>4. /\ Recovery!Invocations' = Recovery!Invocations /\ Recovery!Idle' = Recovery!Idle
      /\ Recovery!Day' = Recovery!Day
  BY DEF Recovery!Invocations, Recovery!Idle, Recovery!Day, Recovery!Cardinality
<1>5. Recovery!TypeOK'
  BY <1>2, <1>3, <1>4 DEF Recovery!TypeOK
<1>6. Recovery!Cardinality(owners)' = Recovery!Cardinality(owners)
  BY DEF Recovery!Cardinality
<1>7. Recovery!OneCheckPerDay' /\ Recovery!QuietResultIsRight' /\ Dated'
  BY <1>6 DEF RecoveryInv, Recovery!OneCheckPerDay, Recovery!QuietResultIsRight, Dated
<1>8. Finds(s)'
  BY <1>4, <1>6 DEF Finds, Recovery!CheckedSince
<1>9. QED
  BY <1>1, <1>5, <1>7, <1>8 DEF RecoveryInv, Finds

\* Days pass, owners come and go, and the file changes.
LEMMA DatabaseChanges ==
  ASSUME RecoveryInv, Recovery!NextDay \/ Recovery!Change \/ UNCHANGED recoveryVars
  PROVE  RecoveryInv'
<1>1. /\ day \in 1..2 /\ changes \in 0..2 /\ healthy \in BOOLEAN
      /\ checks \in Seq([entityId : Recovery!Day, createdAt : Recovery!Day, passed : BOOLEAN])
  BY DEF RecoveryInv, Recovery!TypeOK, Recovery!Day
<1>2. /\ Recovery!Invocations' = Recovery!Invocations /\ Recovery!Idle' = Recovery!Idle
      /\ Recovery!Day' = Recovery!Day
  BY DEF Recovery!Invocations, Recovery!Idle, Recovery!Day, Recovery!Cardinality
<1>3. /\ UNCHANGED <<checks, told, checker, faults>>
      /\ day' \in 1..2 /\ day <= day' /\ changes' \in 0..2
      /\ owners' \subseteq {u1, u2} /\ healthy' \in BOOLEAN
  <2>1. owners \subseteq {u1, u2}
    BY DEF RecoveryInv, Recovery!TypeOK
  <2>2. CASE Recovery!NextDay
    BY <1>1, <2>1, <2>2 DEF Recovery!NextDay
  <2>3. CASE Recovery!Change
    <3>1. UNCHANGED <<checks, told, checker, faults, day>> /\ changes' \in 0..2
      BY <1>1, <2>3 DEF Recovery!Change
    <3>2. owners' \subseteq {u1, u2} /\ healthy' \in BOOLEAN
      BY <1>1, <2>1, <2>3 DEF Recovery!Change
    <3>3. QED
      BY <1>1, <3>1, <3>2
  <2>4. CASE UNCHANGED recoveryVars
    BY <1>1, <2>1, <2>4 DEF recoveryVars
  <2>5. QED
    BY <2>2, <2>3, <2>4
<1>4. changes' = 0 => changes = 0 /\ owners' = owners /\ healthy' = healthy
  BY <1>1 DEF Recovery!NextDay, Recovery!Change, recoveryVars
<1>5. Recovery!TypeOK'
  BY <1>2, <1>3 DEF RecoveryInv, Recovery!TypeOK, Recovery!Day
<1>6. changes' = 0 => Recovery!Cardinality(owners)' = Recovery!Cardinality(owners)
  BY <1>4 DEF Recovery!Cardinality
<1>7. Recovery!OneCheckPerDay'
  BY <1>3 DEF RecoveryInv, Recovery!OneCheckPerDay
<1>8. Recovery!QuietResultIsRight'
  BY <1>3, <1>4, <1>6 DEF RecoveryInv, Recovery!QuietResultIsRight
<1>9. Dated'
  <2>1. ASSUME NEW n \in DOMAIN checks
        PROVE  checks[n].createdAt \in 1..2
    <3> DEFINE Row == [entityId : Recovery!Day, createdAt : Recovery!Day, passed : BOOLEAN]
    <3>1. checks \in Seq(Row)
      BY <1>1
    <3> HIDE DEF Row
    <3>2. checks[n] \in Row
      BY <3>1
    <3>3. QED
      BY <3>2 DEF Row, Recovery!Day
  <2>2. QED
    BY <1>1, <1>3, <2>1 DEF RecoveryInv, Dated
<1>10. PICK s : s = checker[i1] /\ s = checker'[i1]
  BY <1>3
<1>11. Finds(s)
  BY <1>10 DEF RecoveryInv
<1>12. Finds(s)'
  <2>1. s.pc # "idle" => s.day \in Recovery!Day /\ s.day <= day'
    BY <1>1, <1>3, <1>11 DEF Finds, Recovery!Day
  <2>2. \A d : Recovery!CheckedSince(d)' <=> Recovery!CheckedSince(d)
    BY <1>3 DEF Recovery!CheckedSince
  <2>3. s.pc \in {"owners", "totals", "integrity", "audit"} => ~Recovery!CheckedSince(s.day)'
    BY <1>11, <2>2 DEF Finds
  <2>4. changes' = 0 /\ s.pc = "integrity" => s.ownerCount = Recovery!Cardinality(owners)'
    BY <1>4, <1>6, <1>11 DEF Finds
  <2>5. changes' = 0 /\ s.pc = "audit" => (s.passed <=> healthy' /\ Recovery!Cardinality(owners)' = 1)
    BY <1>4, <1>6, <1>11 DEF Finds
  <2>6. QED
    BY <1>2, <2>1, <2>3, <2>4, <2>5 DEF Finds
<1>13. QED
  BY <1>5, <1>7, <1>8, <1>9, <1>10, <1>12 DEF RecoveryInv, Finds

\* The steps before the audit row, and the ends of an invocation.
LEMMA RecoveryReads ==
  ASSUME RecoveryInv,
         \/ Recovery!Start(i1) \/ Recovery!AlreadyChecked(i1) \/ Recovery!FindOwners(i1)
         \/ Recovery!CountTotals(i1) \/ Recovery!CheckIntegrity(i1) \/ Recovery!Notify(i1)
         \/ Recovery!Fail(i1) \/ Recovery!Stop(i1)
  PROVE  RecoveryInv'
<1>1. /\ checker[i1] \in {Recovery!Idle} \cup Recovery!Invocations
      /\ day \in Recovery!Day /\ owners \subseteq {u1, u2} /\ healthy \in BOOLEAN /\ faults \in 0..2
      /\ told \in [Recovery!Day -> SUBSET {u1, u2}]
  BY DEF RecoveryInv, Recovery!TypeOK
<1>2. Finds(checker[i1]) /\ day <= day
  BY <1>1 DEF RecoveryInv, Recovery!Day
<1>3. Finds(Recovery!Idle)
  <2>1. Recovery!Idle.pc = "idle"
    BY DEF Recovery!Idle
  <2>2. QED
    BY <2>1 DEF Finds
<1>4. /\ UNCHANGED <<day, owners, healthy, checks, changes>> /\ faults' \in 0..2
  BY <1>1 DEF Recovery!Start, Recovery!AlreadyChecked, Recovery!FindOwners, Recovery!CountTotals,
       Recovery!CheckIntegrity, Recovery!Notify, Recovery!Fail, Recovery!Stop
<1>5. ASSUME Recovery!Continue(i1, Recovery!Idle), told' \in [Recovery!Day -> SUBSET {u1, u2}]
      PROVE  RecoveryInv'
  BY <1>3, <1>4, <1>5, RecoveryContinues
<1>6. CASE Recovery!Start(i1)
  <2>1. PICK s : s = [pc |-> "already", day |-> day]
    OBVIOUS
  <2>2. s \in Recovery!Invocations /\ s.pc = "already" /\ s.day = day
    BY <1>1, <2>1 DEF Recovery!Invocations
  <2>3. Finds(s)
    BY <1>1, <1>2, <2>2 DEF Finds
  <2>4. QED
    BY <1>1, <1>4, <1>6, <2>1, <2>2, <2>3, RecoveryContinues DEF Recovery!Start
<1>7. CASE Recovery!AlreadyChecked(i1)
  <2>1. PICK d \in Recovery!Day : d = checker[i1].day /\ d <= day
    BY <1>1, <1>2, <1>7, RecoveryStages DEF Recovery!AlreadyChecked, Finds
  <2>2. PICK s : s = [pc |-> "owners", day |-> d]
    OBVIOUS
  <2>3. s \in Recovery!Invocations /\ s.pc = "owners" /\ s.day = d
    BY <2>2 DEF Recovery!Invocations
  <2>4. CASE Recovery!CheckedSince(d)
    BY <1>1, <1>5, <1>7, <2>1, <2>4 DEF Recovery!AlreadyChecked
  <2>5. CASE ~Recovery!CheckedSince(d)
    <3>1. Finds(s)
      BY <2>1, <2>3, <2>5 DEF Finds
    <3>2. QED
      BY <1>1, <1>4, <1>7, <2>1, <2>2, <2>3, <2>5, <3>1, RecoveryContinues DEF Recovery!AlreadyChecked
  <2>6. QED
    BY <2>4, <2>5
<1>8. CASE Recovery!FindOwners(i1)
  <2>1. PICK d \in Recovery!Day : d = checker[i1].day /\ d <= day /\ ~Recovery!CheckedSince(d)
    BY <1>1, <1>2, <1>8, RecoveryStages DEF Recovery!FindOwners, Finds
  <2>2. PICK s : s = [pc |-> "totals", day |-> d, owners |-> owners]
    OBVIOUS
  <2>3. s \in Recovery!Invocations /\ s.pc = "totals" /\ s.day = d
    BY <1>1, <2>2 DEF Recovery!Invocations
  <2>4. Finds(s)
    BY <2>1, <2>3 DEF Finds
  <2>5. QED
    BY <1>1, <1>4, <1>5, <1>8, <2>1, <2>2, <2>3, <2>4, RecoveryContinues DEF Recovery!FindOwners
<1>9. CASE Recovery!CountTotals(i1)
  <2>1. PICK d \in Recovery!Day, S \in SUBSET {u1, u2} :
          d = checker[i1].day /\ S = checker[i1].owners /\ d <= day /\ ~Recovery!CheckedSince(d)
    BY <1>1, <1>2, <1>9, RecoveryStages DEF Recovery!CountTotals, Finds
  <2>2. PICK n \in 0..Recovery!Cardinality({u1, u2}) : n = Recovery!Cardinality(owners)
    BY <1>1, OwnersCounted
  <2>3. PICK s : s = [pc |-> "integrity", day |-> d, owners |-> S, ownerCount |-> n]
    OBVIOUS
  <2>4. s \in Recovery!Invocations /\ s.pc = "integrity" /\ s.day = d /\ s.ownerCount = n
    BY <2>3 DEF Recovery!Invocations
  <2>5. Finds(s)
    BY <2>1, <2>2, <2>4 DEF Finds
  <2>6. QED
    BY <1>1, <1>4, <1>9, <2>1, <2>2, <2>3, <2>4, <2>5, RecoveryContinues DEF Recovery!CountTotals
<1>10. CASE Recovery!CheckIntegrity(i1)
  <2>1. PICK d \in Recovery!Day, S \in SUBSET {u1, u2}, n \in 0..Recovery!Cardinality({u1, u2}) :
          /\ d = checker[i1].day /\ S = checker[i1].owners /\ n = checker[i1].ownerCount
          /\ d <= day /\ ~Recovery!CheckedSince(d)
          /\ changes = 0 => n = Recovery!Cardinality(owners)
    BY <1>1, <1>2, <1>10, RecoveryStages DEF Recovery!CheckIntegrity, Finds
  <2>2. PICK p \in BOOLEAN : p = (healthy /\ n = 1)
    BY <1>1
  <2>3. PICK s : s = [pc |-> "audit", day |-> d, owners |-> S, passed |-> p]
    OBVIOUS
  <2>4. s \in Recovery!Invocations /\ s.pc = "audit" /\ s.day = d /\ s.passed = p
    BY <2>3 DEF Recovery!Invocations
  <2>5. Finds(s)
    BY <2>1, <2>2, <2>4 DEF Finds
  <2>6. QED
    BY <1>1, <1>4, <1>10, <2>1, <2>2, <2>3, <2>4, <2>5, RecoveryContinues
    DEF Recovery!CheckIntegrity, Recovery!recoveryChecksPass
<1>11. CASE Recovery!Notify(i1)
  <2>1. checker[i1].day \in Recovery!Day /\ checker[i1].owners \in SUBSET {u1, u2}
    BY <1>1, <1>11, RecoveryStages DEF Recovery!Notify
  <2>2. told' \in [Recovery!Day -> SUBSET {u1, u2}]
    BY <1>1, <1>11, <2>1 DEF Recovery!Notify
  <2>3. QED
    BY <1>5, <1>11, <2>2 DEF Recovery!Notify
<1>12. CASE Recovery!Fail(i1)
  <2>1. PICK d \in Recovery!Day, S \in SUBSET {u1, u2} :
          d = checker[i1].day /\ S = checker[i1].owners /\ d <= day
    BY <1>1, <1>2, <1>12, RecoveryStages DEF Recovery!Fail, Finds
  <2>2. PICK s : s = [pc |-> "report", day |-> d, owners |-> S]
    OBVIOUS
  <2>3. s \in Recovery!Invocations /\ s.pc = "report" /\ s.day = d
    BY <2>2 DEF Recovery!Invocations
  <2>4. Finds(s)
    BY <2>1, <2>3 DEF Finds
  <2>5. QED
    BY <1>1, <1>4, <1>12, <2>1, <2>2, <2>3, <2>4, RecoveryContinues DEF Recovery!Fail
<1>13. CASE Recovery!Stop(i1)
  BY <1>1, <1>5, <1>13 DEF Recovery!Stop
<1>14. QED
  BY <1>6, <1>7, <1>8, <1>9, <1>10, <1>11, <1>12, <1>13

\* The audit row is the first of its day, and says what the file is.
LEMMA RecoveryAudits ==
  ASSUME RecoveryInv, Recovery!Audit(i1)
  PROVE  RecoveryInv'
<1> DEFINE Row == [entityId : Recovery!Day, createdAt : Recovery!Day, passed : BOOLEAN]
<1>1. /\ checker[i1] \in {Recovery!Idle} \cup Recovery!Invocations
      /\ day \in Recovery!Day /\ checks \in Seq(Row)
      /\ Finds(checker[i1]) /\ Dated /\ Recovery!OneCheckPerDay /\ Recovery!QuietResultIsRight
  BY DEF RecoveryInv, Recovery!TypeOK
<1>2. PICK d \in Recovery!Day, S \in SUBSET {u1, u2}, p \in BOOLEAN :
        /\ d = checker[i1].day /\ S = checker[i1].owners /\ p = checker[i1].passed
        /\ d <= day /\ ~Recovery!CheckedSince(d)
        /\ changes = 0 => (p <=> healthy /\ Recovery!Cardinality(owners) = 1)
  BY <1>1, RecoveryStages DEF Recovery!Audit, Finds
<1>3. PICK s : s = IF p THEN Recovery!Idle ELSE [pc |-> "notify", day |-> d, owners |-> S]
  OBVIOUS
<1>4. /\ s \in {Recovery!Idle} \cup Recovery!Invocations
      /\ s.pc \in {"idle", "notify"} /\ (s.pc # "idle" => s.day = d)
  <2>1. CASE p
    BY <1>3, <2>1 DEF Recovery!Idle
  <2>2. CASE ~p
    <3>1. s = [pc |-> "notify", day |-> d, owners |-> S]
      BY <1>3, <2>2
    <3>2. s.pc = "notify" /\ s.day = d
      BY <3>1
    <3>3. QED
      BY <3>1, <3>2 DEF Recovery!Invocations
  <2>3. QED
    BY <2>1, <2>2
<1>5. PICK r : r = [entityId |-> d, createdAt |-> day, passed |-> p]
  OBVIOUS
<1>6. r \in Row /\ r.createdAt = day /\ r.passed = p
  BY <1>1, <1>5
<1>7. /\ checks' = Append(checks, r)
      /\ Recovery!Continue(i1, s)
      /\ UNCHANGED <<day, owners, healthy, told, faults, changes>>
  BY <1>2, <1>3, <1>5 DEF Recovery!Audit, Recovery!Record
<1>8. checker' = [i \in {i1} |-> s] /\ checker'[i1] = s
  BY <1>7 DEF RecoveryInv, Recovery!TypeOK, Recovery!Continue
<1> HIDE DEF Row
<1>9. /\ checks' \in Seq(Row) /\ DOMAIN checks' = DOMAIN checks \cup {Len(checks) + 1}
      /\ checks'[Len(checks) + 1] = r
      /\ \A n \in DOMAIN checks : checks'[n] = checks[n] /\ checks[n] \in Row
  BY <1>1, <1>6, <1>7
<1>10. PICK last : last = Len(checks) + 1
  OBVIOUS
<1>11. \A n \in DOMAIN checks : checks[n].createdAt \in 1..2 /\ checks[n].createdAt < day
  <2>1. SUFFICES ASSUME NEW n \in DOMAIN checks
                 PROVE  checks[n].createdAt \in 1..2 /\ checks[n].createdAt < day
    OBVIOUS
  <2>2. PICK t \in 1..2 : t = checks[n].createdAt
    BY <1>9, <2>1 DEF Row, Recovery!Day
  <2>3. ~(t >= d)
    BY <1>2, <2>1, <2>2 DEF Recovery!CheckedSince
  <2>4. t < day
    BY <1>1, <1>2, <2>3 DEF Recovery!Day
  <2>5. QED
    BY <2>2, <2>4
<1>12. Recovery!OneCheckPerDay'
  <2>1. SUFFICES ASSUME NEW m \in DOMAIN checks', NEW n \in DOMAIN checks',
                        checks'[m].createdAt = checks'[n].createdAt
                 PROVE  m = n
    BY DEF Recovery!OneCheckPerDay
  <2>2. CASE m \in DOMAIN checks /\ n \in DOMAIN checks
    BY <1>1, <1>9, <2>1, <2>2 DEF Recovery!OneCheckPerDay
  <2>3. ASSUME NEW k \in DOMAIN checks PROVE checks'[k].createdAt # checks'[last].createdAt
    BY <1>1, <1>6, <1>9, <1>10, <1>11 DEF Recovery!Day
  <2>4. QED
    BY <1>9, <1>10, <2>1, <2>2, <2>3
<1>13. Recovery!QuietResultIsRight'
  <2>1. Recovery!Cardinality(owners)' = Recovery!Cardinality(owners)
    BY <1>7 DEF Recovery!Cardinality
  <2>2. changes = 0 => (checks'[last].passed <=> healthy /\ Recovery!Cardinality(owners) = 1)
    BY <1>2, <1>6, <1>9, <1>10
  <2>3. changes = 0 => \A n \in DOMAIN checks :
          checks'[n].passed <=> healthy /\ Recovery!Cardinality(owners) = 1
    BY <1>1, <1>9 DEF Recovery!QuietResultIsRight
  <2>4. QED
    BY <1>7, <1>9, <1>10, <2>1, <2>2, <2>3 DEF Recovery!QuietResultIsRight
<1>14. Dated'
  <2>1. checks'[last].createdAt <= day
    BY <1>1, <1>6, <1>9, <1>10 DEF Recovery!Day
  <2>2. ASSUME NEW n \in DOMAIN checks PROVE checks'[n].createdAt <= day
    BY <1>1, <1>9, <1>11 DEF Recovery!Day
  <2>3. QED
    BY <1>7, <1>9, <1>10, <2>1, <2>2 DEF Dated
<1>15. Finds(s)'
  BY <1>2, <1>4, <1>7 DEF Finds, Recovery!Day
<1>16. Recovery!TypeOK'
  <2>1. /\ Recovery!Invocations' = Recovery!Invocations /\ Recovery!Idle' = Recovery!Idle
        /\ Recovery!Day' = Recovery!Day
    BY DEF Recovery!Invocations, Recovery!Idle, Recovery!Day, Recovery!Cardinality
  <2>2. checker' \in [{i1} -> {Recovery!Idle} \cup Recovery!Invocations]
    BY <1>4, <1>8
  <2>3. checks' \in Seq([entityId : Recovery!Day, createdAt : Recovery!Day, passed : BOOLEAN])
    BY <1>9 DEF Row
  <2>4. QED
    BY <1>7, <2>1, <2>2, <2>3 DEF RecoveryInv, Recovery!TypeOK
<1>17. QED
  BY <1>8, <1>12, <1>13, <1>14, <1>15, <1>16 DEF RecoveryInv, Finds

\* Every step of the check keeps its invariant.
LEMMA RecoveryNext ==
  ASSUME RecoveryInv, Recovery!Next \/ UNCHANGED recoveryVars
  PROVE  RecoveryInv'
BY DatabaseChanges, RecoveryReads, RecoveryAudits DEF Recovery!Next, Recovery!Step

\* Nothing is checked at the start.
LEMMA RecoveryInit ==
  ASSUME Recovery!Init
  PROVE  RecoveryInv
<1>1. checker = [i \in {i1} |-> Recovery!Idle] /\ checker[i1] = Recovery!Idle /\ Recovery!Idle.pc = "idle"
  BY DEF Recovery!Init, Recovery!Idle
<1>2. Recovery!TypeOK
  BY <1>1 DEF Recovery!Init, Recovery!TypeOK, Recovery!Day
<1>3. DOMAIN checks = {}
  BY DEF Recovery!Init
<1>4. QED
  BY <1>1, <1>2, <1>3 DEF RecoveryInv, Recovery!OneCheckPerDay, Recovery!QuietResultIsRight, Dated, Finds

-----------------------------------------------------------------------------
(* The retention of coordinates, for the clients and days of either part.  *)

\* A clock event of a range of days.
GpsEvent(D) ==
  [type : {"CLOCK_IN", "CLOCK_OUT"}, workDate : D, occurredAt : D,
   coordinates : BOOLEAN, distance : BOOLEAN]

\* Its two coordinates in the record of a day.
GpsRecord(D) == [clockIn : D \cup {0}, clockOut : D \cup {0}]

\* What a sweep still has to purge of the clients C, and the policies in force since it read them.
Turn(C) == [client : C, days : {1, 2}, granted : SUBSET {1, 2}]

\* The rows and the sweeps of the clients C over the days D.
GpsTypes(C, D) ==
  /\ now \in D
  /\ created \subseteq C /\ unfinished \subseteq created
  /\ policy \in [C -> {0, 1, 2}]
  /\ events \in [C -> Seq(GpsEvent(D))]
  /\ record \in [C -> [D -> GpsRecord(D)]]
  /\ sweep \in [{s1, s2} -> SUBSET Turn(C)]
  /\ edits \in 0..1 /\ stops \in 0..1

\* A client has its policy only once it is created; the days a sweep read and the policy of the
\* moment, edited since or not, are among those its turn has seen in force.
SweepsAreCurrent(C) ==
  /\ \A c \in C : c \notin created \/ c \in unfinished => policy[c] = 0
  /\ \A s \in {s1, s2} : \A turn \in sweep[s] :
       turn.days \in turn.granted /\ policy[turn.client] \in turn.granted

\* What a step leaves in the events: only a turn that ends with it removes coordinates.
GpsKeeps(C) ==
  \A c \in C : \A i \in DOMAIN events[c] :
    events[c][i].coordinates /\ ~events'[c][i].coordinates =>
      \E s \in {s1, s2} : \E turn \in sweep[s] \ sweep'[s] :
        /\ turn.client = c /\ Gps!Granted(c) \in turn.granted
        /\ \E days \in turn.granted : events[c][i].occurredAt + days < now

\* An edit of the policy of c to days, seen by the turns S of a sweep.
Seen(S, c, days) ==
  {IF turn.client = c THEN [turn EXCEPT !.granted = @ \cup {days}] ELSE turn : turn \in S}

\* An edit adds to what the turns of a sweep have seen in force, so that they stay current.
LEMMA EditsAreSeen ==
  ASSUME NEW C, policy \in [C -> {0, 1, 2}], SweepsAreCurrent(C), NEW s \in {s1, s2},
         sweep[s] \in SUBSET Turn(C), NEW c \in C, NEW days \in {1, 2},
         policy' = [policy EXCEPT ![c] = days]
  PROVE  /\ Seen(sweep[s], c, days) \in SUBSET Turn(C)
         /\ \A turn \in Seen(sweep[s], c, days) :
              turn.days \in turn.granted /\ policy'[turn.client] \in turn.granted
<1>1. ASSUME NEW turn \in Seen(sweep[s], c, days)
      PROVE  /\ turn \in Turn(C)
             /\ turn.days \in turn.granted /\ policy'[turn.client] \in turn.granted
  <2>1. PICK t \in sweep[s] :
           turn = IF t.client = c THEN [t EXCEPT !.granted = @ \cup {days}] ELSE t
    BY <1>1 DEF Seen
  <2>2. t \in Turn(C) /\ t.days \in t.granted /\ policy[t.client] \in t.granted
    BY <2>1 DEF SweepsAreCurrent
  <2>3. CASE t.client = c
    <3>1. turn = [t EXCEPT !.granted = t.granted \cup {days}]
      BY <2>1, <2>3
    <3>2. /\ turn \in Turn(C) /\ turn.client = c /\ turn.days = t.days
          /\ turn.granted = t.granted \cup {days}
      BY <2>2, <2>3, <3>1 DEF Turn
    <3>3. policy'[c] = days
      OBVIOUS
    <3>4. QED
      BY <2>2, <3>2, <3>3
  <2>4. CASE t.client # c
    <3>1. turn = t /\ t.client \in C
      BY <2>1, <2>2, <2>4 DEF Turn
    <3>2. policy'[t.client] = policy[t.client]
      BY <2>4, <3>1
    <3>3. QED
      BY <2>2, <3>1, <3>2
  <2>5. QED
    BY <2>3, <2>4
<1>2. QED
  BY <1>1

\* The requests that create clients and write policies: a sweep has seen what they write.
LEMMA PoliciesStay ==
  ASSUME NEW C, NEW D, GpsTypes(C, D), SweepsAreCurrent(C), NEW c \in C,
         \/ Gps!CreateClient(c) \/ Gps!CreatePolicy(c) \/ Gps!GetPolicy(c)
         \/ Gps!StopCreate(c) \/ Policy!StopCreate(c)
         \/ \E days \in {1, 2} : Gps!UpdatePolicy(c, days)
  PROVE  GpsTypes(C, D)' /\ SweepsAreCurrent(C)' /\ GpsKeeps(C)
<1>1. UNCHANGED <<now, events, record, stops>>
  BY DEF Gps!CreateClient, Gps!CreatePolicy, Gps!GetPolicy, Gps!StopCreate, Policy!StopCreate,
         Gps!UpdatePolicy
<1>2. GpsKeeps(C)
  BY <1>1 DEF GpsKeeps
<1>3. \A s \in {s1, s2} : \A turn \in sweep[s] : turn.client \in C /\ turn.granted \subseteq {1, 2}
  BY DEF GpsTypes, Turn
<1>4. ASSUME UNCHANGED <<policy, sweep, edits>>, created' \subseteq C, unfinished' \subseteq created',
             \A d \in C : d \notin created' \/ d \in unfinished' => d \notin created \/ d \in unfinished
      PROVE  GpsTypes(C, D)' /\ SweepsAreCurrent(C)'
  BY <1>1, <1>4 DEF GpsTypes, SweepsAreCurrent, GpsEvent, GpsRecord, Turn
<1>5. ASSUME NEW days \in {1, 2}, policy' = [policy EXCEPT ![c] = days], UNCHANGED created,
             unfinished' = unfinished \ {c}, edits' \in 0..1, c \in created,
             \/ UNCHANGED sweep /\ \A s \in {s1, s2} : \A turn \in sweep[s] : turn.client # c
             \/ sweep' = [s \in {s1, s2} |-> Seen(sweep[s], c, days)]
      PROVE  GpsTypes(C, D)' /\ SweepsAreCurrent(C)'
  <2>1. policy' \in [C -> {0, 1, 2}] /\ \A d \in C : d # c => policy'[d] = policy[d]
    BY <1>5 DEF GpsTypes
  <2>2. /\ sweep' \in [{s1, s2} -> SUBSET Turn(C)]
        /\ \A s \in {s1, s2} : \A turn \in sweep'[s] :
             turn.days \in turn.granted /\ policy'[turn.client] \in turn.granted
    <3>1. sweep \in [{s1, s2} -> SUBSET Turn(C)] /\ policy \in [C -> {0, 1, 2}]
      BY DEF GpsTypes
    <3>2. CASE UNCHANGED sweep /\ \A s \in {s1, s2} : \A turn \in sweep[s] : turn.client # c
      BY <1>3, <2>1, <3>1, <3>2 DEF SweepsAreCurrent
    <3>3. CASE sweep' = [s \in {s1, s2} |-> Seen(sweep[s], c, days)]
      <4>1. ASSUME NEW s \in {s1, s2}
            PROVE  /\ sweep'[s] \in SUBSET Turn(C)
                   /\ \A turn \in sweep'[s] :
                        turn.days \in turn.granted /\ policy'[turn.client] \in turn.granted
        <5>1. sweep[s] \in SUBSET Turn(C) /\ sweep'[s] = Seen(sweep[s], c, days)
          BY <3>1, <3>3
        <5>2. policy' = [policy EXCEPT ![c] = days] /\ policy \in [C -> {0, 1, 2}]
          BY <1>5, <3>1
        <5>3. /\ Seen(sweep[s], c, days) \in SUBSET Turn(C)
              /\ \A turn \in Seen(sweep[s], c, days) :
                   turn.days \in turn.granted /\ policy'[turn.client] \in turn.granted
          BY <5>1, <5>2, EditsAreSeen
        <5>4. QED
          BY <5>1, <5>3
      <4>2. sweep' \in [{s1, s2} -> SUBSET Turn(C)]
        BY <3>3, <4>1
      <4>3. QED
        BY <4>1, <4>2
    <3>4. QED
      BY <1>5, <3>2, <3>3
  <2>3. \A d \in C : d \notin created' \/ d \in unfinished' => policy'[d] = 0
    BY <1>5, <2>1 DEF SweepsAreCurrent
  <2>4. GpsTypes(C, D)'
    BY <1>1, <1>5, <2>1, <2>2 DEF GpsTypes, GpsEvent, GpsRecord
  <2>5. QED
    BY <2>2, <2>3, <2>4 DEF SweepsAreCurrent
<1>6. ASSUME policy[c] = 0
      PROVE  \A s \in {s1, s2} : \A turn \in sweep[s] : turn.client # c
  BY <1>3, <1>6 DEF SweepsAreCurrent
<1>7. created \subseteq C /\ unfinished \subseteq created /\ edits \in 0..1
  BY DEF GpsTypes
<1>8. CASE Gps!CreateClient(c)
  BY <1>2, <1>4, <1>7, <1>8 DEF Gps!CreateClient
<1>9. CASE Gps!CreatePolicy(c)
  <2>1. c \in unfinished /\ c \in created /\ policy[c] = 0
    BY <1>7, <1>9 DEF Gps!CreatePolicy, SweepsAreCurrent
  <2>2. /\ policy' = [policy EXCEPT ![c] = 1] /\ UNCHANGED <<created, sweep, edits>>
        /\ unfinished' = unfinished \ {c}
    BY <1>9 DEF Gps!CreatePolicy
  <2>3. QED
    BY <1>2, <1>5, <1>6, <1>7, <2>1, <2>2
<1>10. CASE Gps!GetPolicy(c)
  <2>1. c \in created \ unfinished /\ policy[c] = 0
    BY <1>10 DEF Gps!GetPolicy, Gps!NoPolicy
  <2>2. /\ policy' = [policy EXCEPT ![c] = 1] /\ UNCHANGED <<created, sweep, edits>>
        /\ unfinished' = unfinished \ {c}
    BY <1>10, <2>1 DEF Gps!GetPolicy
  <2>3. QED
    BY <1>2, <1>5, <1>6, <1>7, <2>1, <2>2
<1>11. CASE Gps!StopCreate(c) \/ Policy!StopCreate(c)
  <2>1. c \in unfinished /\ unfinished' = unfinished \ {c} /\ UNCHANGED <<created, policy, sweep, edits>>
    BY <1>11 DEF Gps!StopCreate, Policy!StopCreate
  <2>2. QED
    BY <1>2, <1>4, <1>7, <2>1
<1>12. CASE \E days \in {1, 2} : Gps!UpdatePolicy(c, days)
  <2>1. PICK days \in {1, 2} : Gps!UpdatePolicy(c, days)
    BY <1>12
  <2>2. /\ c \in created \ unfinished /\ edits < 1 /\ edits' = edits + 1
        /\ sweep' = [s \in {s1, s2} |-> Seen(sweep[s], c, days)]
        /\ policy' = [policy EXCEPT ![c] = days] /\ UNCHANGED <<created, unfinished>>
    BY <2>1 DEF Gps!UpdatePolicy, Seen
  <2>3. edits' \in 0..1 /\ unfinished' = unfinished \ {c}
    BY <1>7, <2>2
  <2>4. QED
    BY <1>2, <1>5, <2>2, <2>3
<1>13. QED
  BY <1>8, <1>9, <1>10, <1>11, <1>12

\* A clock action only adds an event.
LEMMA EventsAppended ==
  ASSUME NEW C, NEW D, GpsTypes(C, D), NEW c \in C, NEW e \in GpsEvent(D),
         events' = [events EXCEPT ![c] = Append(@, e)]
  PROVE  events' \in [C -> Seq(GpsEvent(D))] /\ GpsKeeps(C)
<1>1. events \in [C -> Seq(GpsEvent(D))]
  BY DEF GpsTypes
<1>2. PICK E : E = GpsEvent(D)
  OBVIOUS
<1>3. events[c] \in Seq(E) /\ e \in E
  BY <1>1, <1>2
<1>4. Append(events[c], e) \in Seq(E) /\ \A i \in DOMAIN events[c] : Append(events[c], e)[i] = events[c][i]
  BY <1>3
<1>5. /\ \A d \in C : d # c => events'[d] = events[d]
      /\ events'[c] = Append(events[c], e)
  BY <1>1
<1>6. events' \in [C -> Seq(E)]
  BY <1>1, <1>2, <1>4
<1>7. \A d \in C : \A i \in DOMAIN events[d] : events'[d][i] = events[d][i]
  BY <1>4, <1>5
<1>8. QED
  BY <1>2, <1>6, <1>7 DEF GpsKeeps

\* The record of a day changes with a clock action.
LEMMA RecordChanged ==
  ASSUME NEW C, NEW D, record \in [C -> [D -> GpsRecord(D)]], NEW c \in C, NEW d \in D,
         NEW t \in D \cup {0},
         \/ record' = [record EXCEPT ![c][d].clockIn = t]
         \/ record' = [record EXCEPT ![c][d].clockOut = t]
  PROVE  record' \in [C -> [D -> GpsRecord(D)]]
<1>1. record[c] \in [D -> GpsRecord(D)] /\ record[c][d] \in GpsRecord(D)
  OBVIOUS
<1>2. /\ [record[c][d] EXCEPT !.clockIn = t] \in GpsRecord(D)
      /\ [record[c][d] EXCEPT !.clockOut = t] \in GpsRecord(D)
  BY <1>1 DEF GpsRecord
<1>3. PICK r \in GpsRecord(D) : record' = [record EXCEPT ![c] = [record[c] EXCEPT ![d] = r]]
  BY <1>2
<1>4. [record[c] EXCEPT ![d] = r] \in [D -> GpsRecord(D)]
  BY <1>1
<1>5. QED
  BY <1>3, <1>4

\* The clock actions: they are about the day it is, or about the date of the shift.
LEMMA ClocksStay ==
  ASSUME NEW C, NEW D, GpsTypes(C, D), SweepsAreCurrent(C), NEW c \in C,
         \/ Gps!ClockIn(c) \/ Policy!ClockIn(c)
         \/ Gps!ClockOut(c) \/ Policy!ClockOut(c)
  PROVE  GpsTypes(C, D)' /\ SweepsAreCurrent(C)' /\ GpsKeeps(C)
<1>1. UNCHANGED <<now, created, unfinished, policy, sweep, edits, stops>>
  BY DEF Gps!ClockIn, Policy!ClockIn, Gps!ClockOut, Policy!ClockOut
<1>2. now \in D /\ events \in [C -> Seq(GpsEvent(D))] /\ record \in [C -> [D -> GpsRecord(D)]]
  BY DEF GpsTypes
<1>3. ASSUME NEW e \in GpsEvent(D), events' = [events EXCEPT ![c] = Append(@, e)],
             record' \in [C -> [D -> GpsRecord(D)]]
      PROVE  GpsTypes(C, D)' /\ SweepsAreCurrent(C)' /\ GpsKeeps(C)
  <2>1. events' \in [C -> Seq(GpsEvent(D))] /\ GpsKeeps(C)
    BY <1>3, EventsAppended
  <2>2. GpsTypes(C, D)'
    BY <1>1, <1>3, <2>1 DEF GpsTypes, GpsEvent, GpsRecord, Turn
  <2>3. SweepsAreCurrent(C)'
    BY <1>1 DEF SweepsAreCurrent
  <2>4. QED
    BY <2>1, <2>2, <2>3
<1>4. CASE Gps!ClockIn(c) \/ Policy!ClockIn(c)
  <2>1. PICK e : e = [type |-> "CLOCK_IN", workDate |-> now, occurredAt |-> now,
                      coordinates |-> TRUE, distance |-> TRUE]
    OBVIOUS
  <2>2. e \in GpsEvent(D)
    BY <1>2, <2>1 DEF GpsEvent
  <2>3. events' = [events EXCEPT ![c] = Append(@, e)]
    BY <1>4, <2>1 DEF Gps!ClockIn, Policy!ClockIn, Gps!Clock, Policy!Clock
  <2>4. \/ record' = [record EXCEPT ![c][now].clockIn = now]
        \/ record' = [record EXCEPT ![c][now].clockOut = 0]
    BY <1>4 DEF Gps!ClockIn, Policy!ClockIn, Gps!NoDay, Policy!NoDay
  <2>5. record' \in [C -> [D -> GpsRecord(D)]]
    <3>1. PICK d \in D, t \in D \cup {0}, u \in D \cup {0} : d = now /\ t = now /\ u = 0
      BY <1>2
    <3>2. CASE record' = [record EXCEPT ![c][now].clockIn = now]
      <4>1. record' = [record EXCEPT ![c][d].clockIn = t]
        BY <3>1, <3>2
      <4>2. QED
        BY <1>2, <4>1, RecordChanged
    <3>3. CASE record' = [record EXCEPT ![c][now].clockOut = 0]
      <4>1. record' = [record EXCEPT ![c][d].clockOut = u]
        BY <3>1, <3>3
      <4>2. QED
        BY <1>2, <4>1, RecordChanged
    <3>4. QED
      BY <2>4, <3>2, <3>3
  <2>6. QED
    BY <1>3, <2>2, <2>3, <2>5
<1>5. CASE Gps!ClockOut(c) \/ Policy!ClockOut(c)
  <2>1. PICK d : d = events[c][Len(events[c])].workDate
    OBVIOUS
  <2>2. d \in D
    <3>1. PICK E : E = GpsEvent(D)
      OBVIOUS
    <3>2. events[c] \in Seq(E) /\ events[c] # <<>>
      BY <1>2, <1>5, <3>1 DEF Gps!ClockOut, Policy!ClockOut, Gps!OnShift, Policy!OnShift
    <3>3. events[c][Len(events[c])] \in E
      BY <3>2
    <3>4. QED
      BY <2>1, <3>1, <3>3 DEF GpsEvent
  <2>3. PICK e : e = [type |-> "CLOCK_OUT", workDate |-> d, occurredAt |-> now,
                      coordinates |-> TRUE, distance |-> TRUE]
    OBVIOUS
  <2>4. e \in GpsEvent(D)
    BY <1>2, <2>2, <2>3 DEF GpsEvent
  <2>5. events' = [events EXCEPT ![c] = Append(@, e)] /\ record' = [record EXCEPT ![c][d].clockOut = now]
    BY <1>5, <2>1, <2>3
    DEF Gps!ClockOut, Policy!ClockOut, Gps!Latest, Policy!Latest, Gps!Clock, Policy!Clock
  <2>6. record' \in [C -> [D -> GpsRecord(D)]]
    <3>1. PICK t \in D \cup {0} : t = now
      BY <1>2
    <3>2. record' = [record EXCEPT ![c][d].clockOut = t]
      BY <2>5, <3>1
    <3>3. QED
      BY <1>2, <2>2, <3>1, <3>2, RecordChanged
  <2>7. QED
    BY <1>3, <2>4, <2>5, <2>6
<1>6. QED
  BY <1>4, <1>5

\* A sweep: it starts with the policies in force, and removes what is older than they allow, or than
\* one in force meanwhile does.
LEMMA SweepsStay ==
  ASSUME NEW C, NEW D, D \subseteq Int, GpsTypes(C, D), SweepsAreCurrent(C), NEW s \in {s1, s2},
         \/ /\ sweep' = [sweep EXCEPT ![s] =
                  {[client |-> c, days |-> policy[c], granted |-> {policy[c]}] :
                     c \in {c \in C : policy[c] # 0}}]
            /\ UNCHANGED <<now, created, unfinished, policy, events, record, edits, stops>>
         \/ \E turn \in Turn(C) : Gps!Purge(s, turn) \/ Policy!Purge(s, turn)
         \/ Gps!StopSweep(s) \/ Policy!StopSweep(s)
  PROVE  GpsTypes(C, D)' /\ SweepsAreCurrent(C)' /\ GpsKeeps(C)
<1>1. UNCHANGED <<now, created, unfinished, policy, record, edits>>
  BY DEF Gps!Purge, Policy!Purge, Gps!StopSweep, Policy!StopSweep
<1>2. stops' \in 0..1
  <2>1. stops \in 0..1
    BY DEF GpsTypes
  <2>2. stops' = stops \/ (stops < 1 /\ stops' = stops + 1)
    BY DEF Gps!Purge, Policy!Purge, Gps!StopSweep, Policy!StopSweep
  <2>3. QED
    BY <2>1, <2>2
<1>3. sweep \in [{s1, s2} -> SUBSET Turn(C)] /\ events \in [C -> Seq(GpsEvent(D))] /\ now \in Int
      /\ policy \in [C -> {0, 1, 2}]
  BY DEF GpsTypes
<1>4. ASSUME NEW S \in SUBSET Turn(C), sweep' = [sweep EXCEPT ![s] = S],
             \A turn \in S : turn.days \in turn.granted /\ policy[turn.client] \in turn.granted,
             events' \in [C -> Seq(GpsEvent(D))]
      PROVE  GpsTypes(C, D)' /\ SweepsAreCurrent(C)'
  <2>1. /\ sweep' \in [{s1, s2} -> SUBSET Turn(C)]
        /\ sweep'[s] = S /\ \A r \in {s1, s2} : r # s => sweep'[r] = sweep[r]
    BY <1>3, <1>4
  <2>2. GpsTypes(C, D)'
    BY <1>1, <1>2, <1>4, <2>1 DEF GpsTypes, GpsEvent, GpsRecord, Turn
  <2>3. SweepsAreCurrent(C)'
    BY <1>1, <1>4, <2>1 DEF SweepsAreCurrent
  <2>4. QED
    BY <2>2, <2>3
<1>5. CASE /\ sweep' = [sweep EXCEPT ![s] =
                 {[client |-> c, days |-> policy[c], granted |-> {policy[c]}] :
                    c \in {c \in C : policy[c] # 0}}]
           /\ UNCHANGED <<now, created, unfinished, policy, events, record, edits, stops>>
  <2>1. PICK S : S = {[client |-> c, days |-> policy[c], granted |-> {policy[c]}] :
                        c \in {c \in C : policy[c] # 0}}
    OBVIOUS
  <2>2. /\ S \in SUBSET Turn(C)
        /\ \A turn \in S : turn.days \in turn.granted /\ policy[turn.client] \in turn.granted
    <3>1. ASSUME NEW c \in C, policy[c] # 0
          PROVE  [client |-> c, days |-> policy[c], granted |-> {policy[c]}] \in Turn(C)
      BY <1>3, <3>1 DEF Turn
    <3>2. QED
      BY <2>1, <3>1
  <2>3. QED
    BY <1>3, <1>4, <1>5, <2>1, <2>2 DEF GpsKeeps
<1>6. CASE Gps!StopSweep(s) \/ Policy!StopSweep(s)
  <2>1. sweep' = [sweep EXCEPT ![s] = {}] /\ UNCHANGED events
    BY <1>6 DEF Gps!StopSweep, Policy!StopSweep
  <2>2. PICK S \in SUBSET Turn(C) : S = {}
    OBVIOUS
  <2>3. events' \in [C -> Seq(GpsEvent(D))]
    BY <1>3, <2>1
  <2>4. GpsKeeps(C)
    BY <2>1 DEF GpsKeeps
  <2>5. QED
    BY <1>4, <2>1, <2>2, <2>3, <2>4
<1>7. ASSUME NEW turn \in Turn(C), Gps!Purge(s, turn) \/ Policy!Purge(s, turn)
      PROVE  GpsTypes(C, D)' /\ SweepsAreCurrent(C)' /\ GpsKeeps(C)
  <2>1. PICK c \in C, days \in {1, 2} :
           /\ c = turn.client /\ days = turn.days /\ turn \in sweep[s]
           /\ days \in turn.granted /\ policy[c] \in turn.granted /\ turn.granted \subseteq {1, 2}
    BY <1>7 DEF Turn, Gps!Purge, Policy!Purge, SweepsAreCurrent
  <2>2. PICK purged : purged = [i \in DOMAIN events[c] |->
            IF events[c][i].occurredAt < now - days
            THEN [events[c][i] EXCEPT !.coordinates = FALSE]
            ELSE events[c][i]]
    OBVIOUS
  <2>3. \/ events' = [events EXCEPT ![c] = purged] /\ sweep' = [sweep EXCEPT ![s] = sweep[s] \ {turn}]
        \/ UNCHANGED events /\ sweep' = [sweep EXCEPT ![s] = {}]
    BY <1>3, <1>7, <2>1, <2>2
    DEF Gps!Purge, Policy!Purge, Gps!Purged, Policy!Purged, Gps!Expired, Policy!Expired
  <2>4. PICK E : E = GpsEvent(D)
    OBVIOUS
  <2>5. events[c] \in Seq(E) /\ \A i \in DOMAIN events[c] : events[c][i] \in E
    BY <1>3, <2>4
  <2>6. \A e \in E : [e EXCEPT !.coordinates = FALSE] \in E /\ e.occurredAt \in Int
    BY <2>4 DEF GpsEvent
  <2>7. purged \in [1..Len(events[c]) -> E]
    BY <2>2, <2>5, <2>6
  <2>8. purged \in Seq(E)
    BY <2>5, <2>7
  <2>9. events' \in [C -> Seq(GpsEvent(D))]
    BY <1>3, <2>3, <2>4, <2>8
  <2>10. GpsKeeps(C)
    <3>1. Gps!Granted(c) \in turn.granted
      BY <2>1 DEF Gps!Granted, Gps!NoPolicy
    <3>2. \A d \in C : d # c => events'[d] = events[d]
      BY <1>3, <2>3
    <3>3. \/ events'[c] = purged /\ turn \in sweep[s] \ sweep'[s]
          \/ events'[c] = events[c]
      BY <1>3, <2>1, <2>3
    <3>4. ASSUME NEW i \in DOMAIN events[c], events[c][i].coordinates, ~events'[c][i].coordinates
          PROVE  turn \in sweep[s] \ sweep'[s] /\ events[c][i].occurredAt + days < now
      <4>1. /\ events'[c] = purged /\ events[c][i].occurredAt < now - days
            /\ turn \in sweep[s] \ sweep'[s]
        BY <2>2, <3>3, <3>4
      <4>2. events[c][i].occurredAt \in Int
        BY <2>5, <2>6
      <4>3. QED
        BY <1>3, <4>1, <4>2
    <3>5. QED
      BY <2>1, <3>1, <3>2, <3>4 DEF GpsKeeps
  <2>11. GpsTypes(C, D)' /\ SweepsAreCurrent(C)'
    <3>1. /\ sweep[s] \in SUBSET Turn(C)
          /\ \A t \in sweep[s] : t.days \in t.granted /\ policy[t.client] \in t.granted
      BY <1>3 DEF SweepsAreCurrent
    <3>2. PICK S \in SUBSET Turn(C) : sweep' = [sweep EXCEPT ![s] = S] /\ S \subseteq sweep[s]
      <4>1. sweep[s] \ {turn} \in SUBSET Turn(C) /\ {} \in SUBSET Turn(C)
        BY <3>1
      <4>2. CASE sweep' = [sweep EXCEPT ![s] = {}]
        BY <4>1, <4>2
      <4>3. CASE sweep' = [sweep EXCEPT ![s] = sweep[s] \ {turn}]
        BY <4>1, <4>3
      <4>4. QED
        BY <2>3, <4>2, <4>3
    <3>3. QED
      BY <1>4, <2>9, <3>1, <3>2
  <2>12. QED
    BY <2>10, <2>11
<1>8. QED
  BY <1>5, <1>6, <1>7

\* A day passes, or nothing happens.
LEMMA DaysPass ==
  ASSUME NEW C, NEW D, GpsTypes(C, D), SweepsAreCurrent(C), now' \in D,
         UNCHANGED <<created, unfinished, policy, events, record, sweep, edits, stops>>
  PROVE  GpsTypes(C, D)' /\ SweepsAreCurrent(C)' /\ GpsKeeps(C)
BY DEF GpsTypes, SweepsAreCurrent, GpsKeeps, GpsEvent, GpsRecord, Turn

\* Every step of two organizations purges by their policies.
LEMMA GpsNext ==
  ASSUME GpsTypes({c1, c2}, 1..3), SweepsAreCurrent({c1, c2}), Gps!Next \/ UNCHANGED gpsVars
  PROVE  GpsTypes({c1, c2}, 1..3)' /\ SweepsAreCurrent({c1, c2})' /\ GpsKeeps({c1, c2})
<1>1. PICK C, D : C = {c1, c2} /\ D = 1..3
  OBVIOUS
<1>2. GpsTypes(C, D) /\ SweepsAreCurrent(C) /\ D \subseteq Int
  BY <1>1
<1>3. CASE \E c \in C : Gps!CreateClient(c) \/ Gps!CreatePolicy(c) \/ Gps!StopCreate(c) \/ Gps!GetPolicy(c)
                        \/ \E days \in {1, 2} : Gps!UpdatePolicy(c, days)
  <2>1. GpsTypes(C, D)' /\ SweepsAreCurrent(C)' /\ GpsKeeps(C)
    BY <1>2, <1>3, PoliciesStay
  <2>2. QED
    BY <1>1, <2>1
<1>4. CASE \E c \in C : Gps!ClockIn(c) \/ Gps!ClockOut(c)
  <2>1. GpsTypes(C, D)' /\ SweepsAreCurrent(C)' /\ GpsKeeps(C)
    BY <1>2, <1>4, ClocksStay
  <2>2. QED
    BY <1>1, <2>1
<1>5. CASE Gps!Tick \/ UNCHANGED gpsVars
  <2>1. now \in 1..3
    BY <1>1, <1>2 DEF GpsTypes
  <2>2. now' \in 1..3 /\ UNCHANGED <<created, unfinished, policy, events, record, sweep, edits, stops>>
    BY <1>5, <2>1 DEF Gps!Tick, gpsVars
  <2>3. GpsTypes(C, D)' /\ SweepsAreCurrent(C)' /\ GpsKeeps(C)
    BY <1>1, <1>2, <2>2, DaysPass
  <2>4. QED
    BY <1>1, <2>3
<1>6. ASSUME NEW s \in {s1, s2},
             Gps!StartSweep(s) \/ (\E turn \in Turn(C) : Gps!Purge(s, turn)) \/ Gps!StopSweep(s)
      PROVE  GpsTypes({c1, c2}, 1..3)' /\ SweepsAreCurrent({c1, c2})' /\ GpsKeeps({c1, c2})
  <2>1. CASE Gps!StartSweep(s)
    <3>1. /\ sweep' = [sweep EXCEPT ![s] =
                {[client |-> c, days |-> policy[c], granted |-> {policy[c]}] :
                   c \in {c \in C : policy[c] # 0}}]
          /\ UNCHANGED <<now, created, unfinished, policy, events, record, edits, stops>>
      BY <1>1, <2>1 DEF Gps!StartSweep, Gps!NoPolicy
    <3>2. GpsTypes(C, D)' /\ SweepsAreCurrent(C)' /\ GpsKeeps(C)
      BY <1>2, <3>1, SweepsStay
    <3>3. QED
      BY <1>1, <3>2
  <2>2. CASE (\E turn \in Turn(C) : Gps!Purge(s, turn)) \/ Gps!StopSweep(s)
    <3>1. GpsTypes(C, D)' /\ SweepsAreCurrent(C)' /\ GpsKeeps(C)
      BY <1>2, <2>2, SweepsStay
    <3>2. QED
      BY <1>1, <3>1
  <2>3. QED
    BY <1>6, <2>1, <2>2
<1>7. QED
  BY <1>1, <1>3, <1>4, <1>5, <1>6 DEF Gps!Next, Gps!Turn, Turn

\* The actions about one organization are those about two.
LEMMA PolicyActions ==
  ASSUME NEW c
  PROVE  /\ Policy!CreateClient(c) => Gps!CreateClient(c)
         /\ Policy!CreatePolicy(c) => Gps!CreatePolicy(c)
         /\ Policy!GetPolicy(c) => Gps!GetPolicy(c)
         /\ \A days : Policy!UpdatePolicy(c, days) => Gps!UpdatePolicy(c, days)
<1>1. Policy!CreateClient(c) => Gps!CreateClient(c)
  BY DEF Policy!CreateClient, Gps!CreateClient
<1>2. Policy!CreatePolicy(c) => Gps!CreatePolicy(c)
  BY DEF Policy!CreatePolicy, Gps!CreatePolicy
<1>3. Policy!GetPolicy(c) => Gps!GetPolicy(c)
  BY DEF Policy!GetPolicy, Gps!GetPolicy, Policy!NoPolicy, Gps!NoPolicy
<1>4. ASSUME NEW days PROVE Policy!UpdatePolicy(c, days) => Gps!UpdatePolicy(c, days)
  BY DEF Policy!UpdatePolicy, Gps!UpdatePolicy
<1>5. QED
  BY <1>1, <1>2, <1>3, <1>4

\* Every step of one organization, whose nested create may stop, purges by its policy.
LEMMA PolicyNext ==
  ASSUME GpsTypes({c1}, 1..4), SweepsAreCurrent({c1}), Policy!Next \/ UNCHANGED gpsVars
  PROVE  GpsTypes({c1}, 1..4)' /\ SweepsAreCurrent({c1})' /\ GpsKeeps({c1})
<1>1. PICK C, D : C = {c1} /\ D = 1..4
  OBVIOUS
<1>2. GpsTypes(C, D) /\ SweepsAreCurrent(C) /\ D \subseteq Int
  BY <1>1
<1>3. CASE \E c \in C : \/ Policy!CreateClient(c) \/ Policy!CreatePolicy(c)
                        \/ Policy!StopCreate(c) \/ Policy!GetPolicy(c)
                        \/ \E days \in {1, 2} : Policy!UpdatePolicy(c, days)
  <2>1. \E c \in C : Gps!CreateClient(c) \/ Gps!CreatePolicy(c) \/ Policy!StopCreate(c) \/ Gps!GetPolicy(c)
                     \/ \E days \in {1, 2} : Gps!UpdatePolicy(c, days)
    BY <1>3, PolicyActions
  <2>2. GpsTypes(C, D)' /\ SweepsAreCurrent(C)' /\ GpsKeeps(C)
    BY <1>2, <2>1, PoliciesStay
  <2>3. QED
    BY <1>1, <2>2
<1>4. CASE \E c \in C : Policy!ClockIn(c) \/ Policy!ClockOut(c)
  <2>1. GpsTypes(C, D)' /\ SweepsAreCurrent(C)' /\ GpsKeeps(C)
    BY <1>2, <1>4, ClocksStay
  <2>2. QED
    BY <1>1, <2>1
<1>5. CASE Policy!Tick \/ UNCHANGED gpsVars
  <2>1. now \in 1..4
    BY <1>1, <1>2 DEF GpsTypes
  <2>2. now' \in 1..4 /\ UNCHANGED <<created, unfinished, policy, events, record, sweep, edits, stops>>
    BY <1>5, <2>1 DEF Policy!Tick, gpsVars
  <2>3. GpsTypes(C, D)' /\ SweepsAreCurrent(C)' /\ GpsKeeps(C)
    BY <1>1, <1>2, <2>2, DaysPass
  <2>4. QED
    BY <1>1, <2>3
<1>6. ASSUME NEW s \in {s1, s2},
             Policy!StartSweep(s) \/ (\E turn \in Turn(C) : Policy!Purge(s, turn)) \/ Policy!StopSweep(s)
      PROVE  GpsTypes({c1}, 1..4)' /\ SweepsAreCurrent({c1})' /\ GpsKeeps({c1})
  <2>1. CASE Policy!StartSweep(s)
    <3>1. /\ sweep' = [sweep EXCEPT ![s] =
                {[client |-> c, days |-> policy[c], granted |-> {policy[c]}] :
                   c \in {c \in C : policy[c] # 0}}]
          /\ UNCHANGED <<now, created, unfinished, policy, events, record, edits, stops>>
      BY <1>1, <2>1 DEF Policy!StartSweep, Policy!NoPolicy
    <3>2. GpsTypes(C, D)' /\ SweepsAreCurrent(C)' /\ GpsKeeps(C)
      BY <1>2, <3>1, SweepsStay
    <3>3. QED
      BY <1>1, <3>2
  <2>2. CASE (\E turn \in Turn(C) : Policy!Purge(s, turn)) \/ Policy!StopSweep(s)
    <3>1. GpsTypes(C, D)' /\ SweepsAreCurrent(C)' /\ GpsKeeps(C)
      BY <1>2, <2>2, SweepsStay
    <3>2. QED
      BY <1>1, <3>1
  <2>3. QED
    BY <1>6, <2>1, <2>2
<1>7. QED
  BY <1>1, <1>3, <1>4, <1>5, <1>6 DEF Policy!Next, Policy!Turn, Turn

\* Nobody has clocked at the start, and nothing is swept.
LEMMA GpsInit ==
  ASSUME NEW C, NEW D, now = 1, 1 \in D, created = {}, unfinished = {}, policy = [c \in C |-> 0],
         events = [c \in C |-> <<>>],
         record = [c \in C |-> [d \in D |-> [clockIn |-> 0, clockOut |-> 0]]],
         sweep = [s \in {s1, s2} |-> {}], edits = 0, stops = 0
  PROVE  GpsTypes(C, D) /\ SweepsAreCurrent(C)
BY DEF GpsTypes, SweepsAreCurrent, GpsEvent, GpsRecord, Turn

-----------------------------------------------------------------------------
(* Each part of the suite keeps its own invariant.                         *)

\* What holds of the job the part is about, and of the webhook whatever the part.
JobsInv ==
  /\ TypeOK /\ Exhausted /\ GivenUpOnlyWhenExhausted
  /\ part = "export" => Export!ExportTypeOK
  /\ part = "gps" => GpsTypes({c1, c2}, 1..3) /\ SweepsAreCurrent({c1, c2})
  /\ part = "policy" => GpsTypes({c1}, 1..4) /\ SweepsAreCurrent({c1})
  /\ part = "reminder" => ReminderInv
  /\ part = "recovery" => RecoveryInv

\* Whatever the part, the suite starts it in its initial state.
LEMMA JobsInit ==
  ASSUME SuiteInit
  PROVE  JobsInv
<1>1. TypeOK
  BY InitTyped DEF SuiteInit
<1>2. Exhausted /\ GivenUpOnlyWhenExhausted
  <2>1. /\ status # "DEAD_LETTER"
        /\ copy = [c \in Copy |-> [at |-> "unsent", retries |-> 0]]
    BY DEF SuiteInit, Init
  <2>2. \A c \in Copy : copy[c].at = "unsent"
    BY <2>1
  <2>3. QED
    BY <2>1, <2>2 DEF Exhausted, GivenUpOnlyWhenExhausted
<1>3. Export!ExportTypeOK
  <2>1. 0 \in 0..MaxRetries
    BY WebhookAssumption
  <2>2. [at |-> "unsent", retries |-> 0] \in [at : Export!Place, retries : 0..MaxRetries]
    BY <2>1 DEF Export!Place
  <2>3. QED
    BY <2>2 DEF SuiteInit, Export!ExportInit, Export!ExportTypeOK, Export!JobStatus
<1>4. ASSUME part = "gps"
      PROVE  GpsTypes({c1, c2}, 1..3) /\ SweepsAreCurrent({c1, c2})
  BY <1>4, GpsInit DEF SuiteInit, Gps!Init, Gps!Day, Gps!NoDay, Gps!NoPolicy
<1>5. ASSUME part = "policy"
      PROVE  GpsTypes({c1}, 1..4) /\ SweepsAreCurrent({c1})
  <2>1. Policy!Init
    BY <1>5 DEF SuiteInit
  <2>2. PICK C, D : C = {c1} /\ D = 1..4
    OBVIOUS
  <2>3. /\ now = 1 /\ created = {} /\ unfinished = {} /\ policy = [c \in C |-> 0]
        /\ events = [c \in C |-> <<>>]
        /\ record = [c \in C |-> [d \in D |-> [clockIn |-> 0, clockOut |-> 0]]]
        /\ sweep = [s \in {s1, s2} |-> {}] /\ edits = 0 /\ stops = 0
    BY <2>1, <2>2 DEF Policy!Init, Policy!Day, Policy!NoDay, Policy!NoPolicy
  <2>4. GpsTypes(C, D) /\ SweepsAreCurrent(C)
    <3>1. 1 \in D
      BY <2>2
    <3>2. QED
      BY <2>3, <3>1, GpsInit
  <2>5. QED
    BY <2>2, <2>4
<1>6. ReminderInv /\ RecoveryInv
  BY ReminderInit, RecoveryInit DEF SuiteInit
<1>7. QED
  BY <1>1, <1>2, <1>3, <1>4, <1>5, <1>6 DEF JobsInv

\* A step of the suite is one of its part.
LEMMA JobSteps ==
  ASSUME [SuiteNext]_suiteVars
  PROVE  /\ part' = part
         /\ [Next]_vars
         /\ part = "export" => Export!ExportNext \/ UNCHANGED exportVars
         /\ part = "gps" => Gps!Next \/ UNCHANGED gpsVars
         /\ part = "policy" => Policy!Next \/ UNCHANGED gpsVars
         /\ part = "reminder" => Reminder!Next \/ UNCHANGED reminderVars
         /\ part = "recovery" => Recovery!Next \/ UNCHANGED recoveryVars
<1>1. CASE UNCHANGED suiteVars
  BY <1>1 DEF suiteVars
<1>2. CASE SuiteNext
  BY <1>2 DEF SuiteNext
<1>3. QED
  BY <1>1, <1>2

\* Every step keeps the invariant, and purges by the policies.
LEMMA JobsNext ==
  ASSUME JobsInv, [SuiteNext]_suiteVars
  PROVE  /\ JobsInv'
         /\ part = "gps" => GpsKeeps({c1, c2})
         /\ part = "policy" => GpsKeeps({c1})
<1>1. part' = part /\ [Next]_vars
  BY JobSteps
<1>2. TypeOK' /\ Exhausted' /\ GivenUpOnlyWhenExhausted'
  BY <1>1, Steps, CopyStep, OtherStep, GivenUpSteps DEF JobsInv
<1>3. ASSUME part = "export" PROVE Export!ExportTypeOK'
  BY <1>3, JobSteps, ExportTypes DEF JobsInv
<1>4. ASSUME part = "gps"
      PROVE  GpsTypes({c1, c2}, 1..3)' /\ SweepsAreCurrent({c1, c2})' /\ GpsKeeps({c1, c2})
  BY <1>4, JobSteps, GpsNext DEF JobsInv
<1>5. ASSUME part = "policy"
      PROVE  GpsTypes({c1}, 1..4)' /\ SweepsAreCurrent({c1})' /\ GpsKeeps({c1})
  BY <1>5, JobSteps, PolicyNext DEF JobsInv
<1>6. ASSUME part = "reminder" PROVE ReminderInv'
  BY <1>6, JobSteps, ReminderNext DEF JobsInv
<1>7. ASSUME part = "recovery" PROVE RecoveryInv'
  BY <1>7, JobSteps, RecoveryNext DEF JobsInv
<1>8. QED
  BY <1>1, <1>2, <1>3, <1>4, <1>5, <1>6, <1>7 DEF JobsInv

\* The types of two organizations are those of GpsRetention.
LEMMA GpsTyped ==
  ASSUME GpsTypes({c1, c2}, 1..3)
  PROVE  Gps!TypeOK
<1>1. {1, 2} \cup {0} = {0, 1, 2} /\ created \subseteq {c1, c2} /\ unfinished \subseteq {c1, c2}
  BY DEF GpsTypes
<1>2. Gps!Event = GpsEvent(1..3) /\ Gps!Day = 1..3 /\ Gps!NoDay = 0 /\ Gps!NoPolicy = 0
  BY DEF Gps!Event, GpsEvent, Gps!Day, Gps!NoDay, Gps!NoPolicy
<1>3. record \in [{c1, c2} -> [1..3 -> [clockIn : Gps!Day \cup {Gps!NoDay},
                                       clockOut : Gps!Day \cup {Gps!NoDay}]]]
  BY <1>2 DEF GpsTypes, GpsRecord
<1>4. sweep \in [{s1, s2} -> SUBSET Gps!Turn]
  BY DEF GpsTypes, Turn, Gps!Turn
<1>5. QED
  BY <1>1, <1>2, <1>3, <1>4 DEF GpsTypes, Gps!TypeOK

\* Every POST to a webhook is counted, whatever copies of its message arrive, and a delivery is given up
\* only by a message that has used up its retries (webhook-queue.ts); one reminder invocation tells nobody
\* twice (holiday-update.ts), and one recovery invocation checks no day twice and, while nothing changes,
\* passes exactly a sound file with one owner (recovery-readiness.ts).
THEOREM JobsActOnceHolds == IsFiniteSet(Copy) => (Suite => []JobsActOnce)
<1> SUFFICES ASSUME IsFiniteSet(Copy) PROVE Suite => []JobsActOnce
  OBVIOUS
<1>1. SuiteInit => JobsInv
  BY JobsInit
<1>2. JobsInv /\ [SuiteNext]_suiteVars => JobsInv'
  BY JobsNext
<1>3. SuiteInit => Counted
  BY CountedInit DEF SuiteInit
<1>4. JobsInv /\ Counted /\ [SuiteNext]_suiteVars => Counted'
  BY JobSteps, CountedSteps DEF JobsInv
<1>5. JobsInv /\ Counted => JobsActOnce
  <2> SUFFICES ASSUME JobsInv, Counted PROVE JobsActOnce
    OBVIOUS
  <2>1. PostsAreCounted
    BY PostingFinite DEF JobsInv, TypeOK, Counted, PostsAreCounted
  <2>2. part = "gps" => Gps!TypeOK
    BY GpsTyped DEF JobsInv
  <2>3. QED
    BY <2>1, <2>2 DEF JobsInv, JobsActOnce, ReminderInv, RecoveryInv
<1>6. QED
  BY <1>1, <1>2, <1>3, <1>4, <1>5, PTL DEF Suite

\* A sweep removes coordinates only when a policy lets them go that was in force at some moment since the
\* sweep read it: the one in force at that moment, unless it was edited in between (purgeExpiredExactGps).
THEOREM PurgedByPolicyHolds == Suite => PurgedByPolicy
<1>1. SuiteInit => JobsInv
  BY JobsInit
<1>2. JobsInv /\ [SuiteNext]_suiteVars => JobsInv'
  BY JobsNext
<1>3. JobsInv /\ [SuiteNext]_suiteVars =>
        [ /\ part = "gps" => Gps!PurgesByPolicy
          /\ part = "policy" => Policy!PurgesByPolicy ]_suiteVars
  <2> SUFFICES ASSUME JobsInv, [SuiteNext]_suiteVars
               PROVE  /\ part = "gps" => Gps!PurgesByPolicy
                      /\ part = "policy" => Policy!PurgesByPolicy
    OBVIOUS
  <2>1. ASSUME NEW c PROVE Policy!Granted(c) = Gps!Granted(c)
    BY DEF Policy!Granted, Gps!Granted, Policy!NoPolicy, Gps!NoPolicy
  <2>2. GpsKeeps({c1, c2}) => Gps!PurgesByPolicy
    BY DEF GpsKeeps, Gps!PurgesByPolicy, Gps!Removes
  <2>3. GpsKeeps({c1}) => Policy!PurgesByPolicy
    BY <2>1 DEF GpsKeeps, Policy!PurgesByPolicy, Policy!Removes
  <2>4. QED
    BY <2>2, <2>3, JobsNext
<1>4. QED
  BY <1>1, <1>2, <1>3, PTL DEF Suite, PurgedByPolicy
=============================================================================
