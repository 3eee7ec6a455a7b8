------------------------------ MODULE MCPayroll ------------------------------
(***************************************************************************)
(* The payroll of an organization on small instances: the calculation runs *)
(* of PayrollRun, the adjustments and e-mails of PayrollAdjustments, and   *)
(* the export of PayrollExport.  They share nothing here, so a behaviour   *)
(* is about one of them, the one part names, and the others stay in their  *)
(* initial states.                                                         *)
(*                                                                         *)
(*   export    an export, its messages, and consumers that may stop        *)
(*   runs      one period, one employee, two runs, requests that may stop  *)
(*   joining   one period, two employees who come and go, one run          *)
(*   advances  two periods that repay advances of two employees            *)
(*   overlap   two periods that share a day                                *)
(*   serial    adjustments of a result, one request at a time              *)
(*   together  the same, two requests at a time                            *)
(***************************************************************************)
EXTENDS PayrollRun, PayrollExport, TLC

CONSTANTS e1, e2, p1, p2, p3, f1, f2, a1, a2, u1, u2

VARIABLES part, adjustments, decisions, notified, deliveries, mails, request

statementVars == <<adjustments, decisions, notified, deliveries, mails, request>>
suiteVars == <<part, vars, exportVars, statementVars>>

Serial == INSTANCE PayrollAdjustments WITH
  Adjustment <- {a1, a2}, Admin <- {u1, u2}, Flight <- {f1}, CalculatedPay <- 2, MaxAmount <- 2,
  MaxMails <- 1, CoordinatorSerializes <- TRUE, flight <- request

Together == INSTANCE PayrollAdjustments WITH
  Adjustment <- {a1, a2}, Admin <- {u1, u2}, Flight <- {f1, f2}, CalculatedPay <- 1,
  MaxAmount <- 1, MaxMails <- 1, CoordinatorSerializes <- FALSE, flight <- request

ASSUME AdjustmentParameters == Serial!Parameters /\ Together!Parameters

\* The last two periods share a day.
ThreePeriods == p1 :> 1..2 @@ p2 :> 3..4 @@ p3 :> 4..5

\* Balances and installments: the second installment of e1 is cut.
Advances == e1 :> 3 @@ e2 :> 4
Installments == e1 :> 2 @@ e2 :> 2

\* What a part of the calculation runs is about.
PartPeriods ==
  CASE part \in {"runs", "joining"} -> {p1} [] part = "advances" -> {p1, p2}
    [] part = "overlap" -> {p2, p3} [] OTHER -> {}
PartEmployees ==
  CASE part \in {"joining", "advances"} -> {e1, e2} [] part \in {"runs", "overlap"} -> {e1}
    [] OTHER -> {}
PartRuns == IF part = "runs" THEN MaxRuns ELSE 1

SuiteInit ==
  /\ part \in {"export", "runs", "joining", "advances", "overlap", "serial", "together"}
  /\ Init /\ eligible = PartEmployees
  /\ ExportInit /\ (part # "export" => period = "LOCKED")
  /\ IF part = "together" THEN Together!Init ELSE Serial!Init

WithinPart ==
  /\ \A f \in Flight : flight'[f] # Idle => flight'[f].period \in PartPeriods
  /\ eligible' \subseteq PartEmployees
  /\ \A e \in Employee \ PartEmployees : data'[e] = data[e]
  /\ \A p \in PartPeriods : Len(runs'[p]) <= PartRuns

RunNext ==
  /\ part \in {"runs", "joining", "advances", "overlap"}
  /\ IF part = "advances" THEN Progress ELSE Next
  /\ WithinPart

StatementNext ==
  \/ part = "serial" /\ Serial!Next
  \/ part = "together" /\ Together!Next

SuiteNext ==
  /\ UNCHANGED part
  /\ \/ RunNext /\ UNCHANGED <<exportVars, statementVars>>
     \/ part = "export" /\ ExportNext /\ UNCHANGED <<vars, statementVars>>
     \/ StatementNext /\ UNCHANGED <<vars, exportVars>>

Suite == SuiteInit /\ [][SuiteNext]_suiteVars

-----------------------------------------------------------------------------

\* What the locked calculations deducted for an advance was taken off its balance, though
\* several periods are calculated from the same balance (lockPayrollCalculation); the
\* statement's floor of zero never swallows an approved deduction, however many pending ones
\* were created against the same pay; and no delivery is recorded as SENT that the mail
\* provider did not accept.
RecordsAgree ==
  /\ part = "advances" => LockedDeductionsAreRepaid
  /\ part = "serial" => Serial!TypeOK /\ Serial!NothingIsSwallowed
  /\ part = "together" => Together!SentRowsWereSent

\* What payroll has on record after any step was carried out, and a decision about an
\* adjustment is final, whichever of two requests overtakes the other
\* (decidePayrollAdjustmentV2).  Nothing is on record at first.
RecordsAreCarriedOut ==
  [][RecordsAgree' /\ (part = "together" => Together!KeepsDecisions)]_suiteVars

\* "return the period to draft and calculate again" (payroll-calculation-run.ts): while no
\* lock is under way, only the locked runs have taken anything off an advance, so that a
\* refused lock can be repeated.
RefusedLocksAreUndone == part = "advances" => BalancesFollowLockedRuns
=============================================================================
