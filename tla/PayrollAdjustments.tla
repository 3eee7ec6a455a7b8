------------------------- MODULE PayrollAdjustments -------------------------
(***************************************************************************)
(* The locked result of one employee: its monetary adjustments, their      *)
(* decisions, the statement that adds them up, and the e-mails that        *)
(* deliver it (payroll-statements.controller.ts on D1).  The period is     *)
(* LOCKED or EXPORTED throughout.                                          *)
(*                                                                         *)
(* The requests name the coordinator "global"; each statement commits by   *)
(* itself, and a request may fail or stop after any of them.               *)
(***************************************************************************)
EXTENDS FiniteSetsExt, Integers

CONSTANTS
  Adjustment, Admin,
  Flight,         \* the requests that can be in flight
  CalculatedPay,  \* calculatedPaySen of the result
  MaxAmount,      \* bound: amountSen of an adjustment
  MaxMails,       \* bound: e-mails the provider accepts
  CoordinatorSerializes

\* What the constants may be.
Parameters ==
  CalculatedPay \in Nat /\ MaxAmount \in Nat \ {0} /\ MaxMails \in Nat /\ CoordinatorSerializes \in BOOLEAN

VARIABLES
  adjustments,    \* PayrollMonetaryAdjustment rows
  decisions,      \* PayrollMonetaryAdjustmentDecision rows, adjustmentId is unique
  notified,       \* the adjustments whose decision the employee was notified of
  deliveries,     \* per status, how many PayrollStatementDelivery rows
  mails,          \* how many e-mails the provider accepted and refused
  flight

vars == <<adjustments, decisions, notified, deliveries, mails, flight>>

Row == [direction : {"EARNING", "DEDUCTION"}, amount : 1..MaxAmount, creator : Admin]

NoRow == [direction |-> "NONE"]

Idle == [pc |-> "idle"]

Flights ==
  [pc : {"create"}, row : Row]
    \cup [pc : {"decide"}, adjustment : Adjustment, outcome : {"APPROVED", "REJECTED"}]
    \cup [pc : {"notify"}, adjustment : Adjustment]
    \cup [pc : {"send", "sent", "audit", "failed"}]

TypeOK ==
  /\ adjustments \in [Adjustment -> Row \cup {NoRow}]
  /\ decisions \in [Adjustment -> {"NONE", "APPROVED", "REJECTED"}]
  /\ notified \subseteq Adjustment
  /\ deliveries \in [{"SENT", "FAILED"} -> Nat]
  /\ mails \in [{"accepted", "refused"} -> 0..MaxMails]
  /\ flight \in [Flight -> {Idle} \cup Flights]

Init ==
  /\ adjustments = [a \in Adjustment |-> NoRow]
  /\ decisions = [a \in Adjustment |-> "NONE"]
  /\ notified = {}
  /\ deliveries = [s \in {"SENT", "FAILED"} |-> 0]
  /\ mails = [m \in {"accepted", "refused"} |-> 0]
  /\ flight = [f \in Flight |-> Idle]

-----------------------------------------------------------------------------

Deliver(f) ==
  /\ flight[f] = Idle
  /\ CoordinatorSerializes => \A g \in Flight : flight[g] = Idle

Continue(f, step) == flight' = [flight EXCEPT ![f] = step]

Finish(f) == Continue(f, Idle)

Signed(row) == IF row.direction = "EARNING" THEN row.amount ELSE -row.amount

Approved == {a \in Adjustment : decisions[a] = "APPROVED"}

ApprovedTotal == MapThenSumSet(LAMBDA a : Signed(adjustments[a]), Approved)

-----------------------------------------------------------------------------
(* createPayrollAdjustmentV2.                                              *)

\* ADJUSTMENT_EXCEEDS_PAY otherwise.
CreateRead(f) ==
  /\ Deliver(f)
  /\ \E row \in Row :
       /\ CalculatedPay + ApprovedTotal + Signed(row) >= 0
       /\ Continue(f, [pc |-> "create", row |-> row])
  /\ UNCHANGED <<adjustments, decisions, notified, deliveries, mails>>

Create(f, a) ==
  /\ flight[f].pc = "create"
  /\ adjustments[a] = NoRow
  /\ adjustments' = [adjustments EXCEPT ![a] = flight[f].row]
  /\ Finish(f)
  /\ UNCHANGED <<decisions, notified, deliveries, mails>>

-----------------------------------------------------------------------------
(* decidePayrollAdjustmentV2.                                              *)

\* ADJUSTMENT_EXCEEDS_PAY otherwise.
Affordable(a) ==
  adjustments[a].direction = "DEDUCTION" => CalculatedPay + ApprovedTotal - adjustments[a].amount >= 0

\* SELF_APPROVAL_NOT_ALLOWED when the creator decides, to reject it just as well.
DecideRead(f, a, admin, outcome) ==
  /\ Deliver(f)
  /\ adjustments[a] # NoRow
  /\ decisions[a] = "NONE"
  /\ adjustments[a].creator # admin
  /\ outcome = "APPROVED" => Affordable(a)
  /\ Continue(f, [pc |-> "decide", adjustment |-> a, outcome |-> outcome])
  /\ UNCHANGED <<adjustments, decisions, notified, deliveries, mails>>

\* The create fails when another decision is there.
Decide(f) ==
  /\ flight[f].pc = "decide"
  /\ LET a == flight[f].adjustment
     IN IF decisions[a] = "NONE"
        THEN /\ decisions' = [decisions EXCEPT ![a] = flight[f].outcome]
             /\ Continue(f, [pc |-> "notify", adjustment |-> a])
        ELSE Finish(f) /\ UNCHANGED decisions
  /\ UNCHANGED <<adjustments, notified, deliveries, mails>>

Notify(f) ==
  /\ flight[f].pc = "notify"
  /\ notified' = notified \cup {flight[f].adjustment}
  /\ Finish(f)
  /\ UNCHANGED <<adjustments, decisions, deliveries, mails>>

-----------------------------------------------------------------------------
(* emailPayrollStatementV2.                                                *)

EmailRead(f) ==
  /\ Deliver(f)
  /\ Continue(f, [pc |-> "send"])
  /\ UNCHANGED <<adjustments, decisions, notified, deliveries, mails>>

\* The provider accepts the e-mail or refuses it, which throws.
Send(f) ==
  /\ flight[f].pc = "send"
  /\ \E answer \in {"accepted", "refused"} :
       /\ mails[answer] < MaxMails
       /\ mails' = [mails EXCEPT ![answer] = @ + 1]
       /\ Continue(f, [pc |-> IF answer = "accepted" THEN "sent" ELSE "failed"])
  /\ UNCHANGED <<adjustments, decisions, notified, deliveries>>

\* The SENT row, then the audit row.
RecordSent(f) ==
  /\ flight[f].pc = "sent"
  /\ deliveries' = [deliveries EXCEPT !["SENT"] = @ + 1]
  /\ Continue(f, [pc |-> "audit"])
  /\ UNCHANGED <<adjustments, decisions, notified, mails>>

Audit(f) ==
  /\ flight[f].pc = "audit"
  /\ Finish(f)
  /\ UNCHANGED <<adjustments, decisions, notified, deliveries, mails>>

\* One of the two fails inside the try block.
RecordFails(f) ==
  /\ flight[f].pc \in {"sent", "audit"}
  /\ Continue(f, [pc |-> "failed"])
  /\ UNCHANGED <<adjustments, decisions, notified, deliveries, mails>>

\* The catch block.
RecordFailed(f) ==
  /\ flight[f].pc = "failed"
  /\ deliveries' = [deliveries EXCEPT !["FAILED"] = @ + 1]
  /\ Finish(f)
  /\ UNCHANGED <<adjustments, decisions, notified, mails>>

\* A statement fails outside that block, or the Worker stops.
Stop(f) ==
  /\ flight[f] # Idle
  /\ Finish(f)
  /\ UNCHANGED <<adjustments, decisions, notified, deliveries, mails>>

Next ==
  \E f \in Flight :
    \/ CreateRead(f)
    \/ \E a \in Adjustment :
         \/ Create(f, a)
         \/ \E admin \in Admin, outcome \in {"APPROVED", "REJECTED"} : DecideRead(f, a, admin, outcome)
    \/ Decide(f) \/ Notify(f)
    \/ EmailRead(f) \/ Send(f) \/ RecordSent(f) \/ Audit(f) \/ RecordFails(f) \/ RecordFailed(f)
    \/ Stop(f)

Spec == Init /\ [][Next]_vars

-----------------------------------------------------------------------------
(* statementView, and what it promises.                                    *)

Total(direction) ==
  MapThenSumSet(LAMBDA a : adjustments[a].amount, {a \in Approved : adjustments[a].direction = direction})

\* finalCalculatedPaySen; adjustments that are pending or rejected are left out.
FinalPay == Max({CalculatedPay + Total("EARNING") - Total("DEDUCTION"), 0})

\* ADJUSTMENT_EXCEEDS_PAY: "The deduction cannot reduce the final calculated amount
\* below zero", so the floor of the statement never swallows an approved deduction,
\* however many pending ones were created against the same pay.
NothingIsSwallowed == FinalPay = CalculatedPay + ApprovedTotal

\* A decision is final, and until there is one an adjustment is off the statement,
\* whichever requests overtake each other: adjustmentId is unique.
KeepsDecisions ==
  \A a \in Adjustment :
    /\ decisions[a] # "NONE" => decisions'[a] = decisions[a]
    /\ adjustments[a] # NoRow => adjustments'[a] = adjustments[a]

\* A delivery is recorded as SENT only for an e-mail that the provider accepted,
\* wherever its request stopped.
SentRowsWereSent == deliveries["SENT"] <= mails["accepted"]

\* "The statement email could not be delivered" is recorded and said only of e-mails
\* that the provider refused.
FailedRowsWereRefused == deliveries["FAILED"] <= mails["refused"]

\* The employee is notified of every decision, once its request is over.
DecisionsAreNotified ==
  (\A f \in Flight : flight[f] = Idle) => \A a \in Adjustment : decisions[a] # "NONE" => a \in notified
=============================================================================
