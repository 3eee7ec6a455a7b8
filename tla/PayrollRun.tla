----------------------------- MODULE PayrollRun -----------------------------
(***************************************************************************)
(* The pay periods of one organization and their calculation runs, on D1:  *)
(* createPayPeriodV2, calculatePayrollRun, acknowledgePayrollWarningV2 and *)
(* transitionPayPeriodV2 with lockPayrollCalculation.  PayPeriodLock has   *)
(* the timesheets of a transition; here are the runs it asserts and the    *)
(* salary advances it repays.                                              *)
(*                                                                         *)
(* All of these requests name the coordinator "global".  Each statement    *)
(* commits by itself and a request may stop after any of them.  A refused  *)
(* request is a stutter.                                                   *)
(***************************************************************************)
EXTENDS FiniteSetsExt, Integers, Sequences

CONSTANTS
  Employee, Period,
  Flight,        \* the requests that can be in flight
  Days,          \* the days of each period
  Opening,       \* outstandingAmountSen of each employee's salary advance at first
  Installment,   \* what a calculation deducts for it, if there is as much
  MaxRuns,       \* bound: calculation runs of one period
  CoordinatorSerializes,
  MayStop        \* whether requests may stop between two statements

ASSUME PayrollRunAssumption ==
  /\ IsFiniteSet(Employee)
  /\ Opening \in [Employee -> Nat] /\ Installment \in [Employee -> Nat]
  /\ Days \in [Period -> SUBSET Nat] /\ MaxRuns \in Nat
  /\ CoordinatorSerializes \in BOOLEAN /\ MayStop \in BOOLEAN

VARIABLES
  periods,      \* PayPeriod rows
  runs,         \* PayrollCalculationRun rows of each period, by version
  outstanding,  \* EmployeePayComponent.outstandingAmountSen
  eligible,     \* the employees that eligibleEmployeeWhere selects
  data,         \* what a calculation of today would say about an employee
  flight        \* per request in flight, what it read and what it does next

vars == <<periods, runs, outstanding, eligible, data, flight>>

\* "warned": warnings that can be acknowledged; "blocked": blockingWarnings.
Data == {"clean", "warned", "blocked"}

\* deducted: advanceDeductionSen of the result; line: its ADVANCE_REPAYMENT line.
Result == [data : Data, deducted : Nat, line : Nat]

NoResult == [data |-> "none", deducted |-> 0, line |-> 0]

Results == [Employee -> Result \cup {NoResult}]

Run == [expected : Nat, blocked : BOOLEAN, results : Results,
        acknowledged : SUBSET Employee, status : {"DRAFT", "LOCKED"}]

\* reviewed and approved are versions of runs, 0 for none.
PayPeriod == [status : {"NONE", "DRAFT", "REVIEWED", "APPROVED", "LOCKED"},
              reviewed : Nat, approved : Nat]

NoPeriod == [status |-> "NONE", reviewed |-> 0, approved |-> 0]

Idle == [pc |-> "idle"]

Flights ==
  [pc : {"create", "inputs", "reopen"}, period : Period]
    \cup [pc : {"run", "results"}, period : Period, version : Nat, calculated : Results]
    \cup [pc : {"lines"}, period : Period, version : Nat, calculated : Results, employee : Employee]
    \cup [pc : {"acknowledge"}, period : Period, version : Nat, employee : Employee]
    \cup [pc : {"assert"}, period : Period, action : {"REVIEW", "APPROVE", "LOCK"}, current : PayPeriod]
    \cup [pc : {"REVIEW", "APPROVE", "LOCK", "close"}, period : Period, version : Nat]
    \cup [pc : {"repay"}, period : Period, version : Nat, left : SUBSET Employee]

TypeOK ==
  /\ periods \in [Period -> PayPeriod \cup {NoPeriod}]
  /\ runs \in [Period -> Seq(Run)]
  /\ outstanding \in [Employee -> Nat]
  /\ eligible \subseteq Employee
  /\ data \in [Employee -> Data]
  /\ flight \in [Flight -> {Idle} \cup Flights]

Init ==
  /\ periods = [p \in Period |-> NoPeriod]
  /\ runs = [p \in Period |-> <<>>]
  /\ outstanding = Opening
  /\ eligible \in SUBSET Employee
  /\ data = [e \in Employee |-> "clean"]
  /\ flight = [f \in Flight |-> Idle]

-----------------------------------------------------------------------------

Busy == {f \in Flight : flight[f] # Idle}

\* The coordinator starts a request.
Deliver(f) == flight[f] = Idle /\ (CoordinatorSerializes => Busy = {})

Continue(f, step) == flight' = [flight EXCEPT ![f] = step]

Finish(f) == Continue(f, Idle)

Latest(p) == Len(runs[p])

-----------------------------------------------------------------------------
(* createPayPeriodV2.                                                      *)

\* PAY_PERIOD_OVERLAP otherwise.
NoOverlap(p) == \A q \in Period : periods[q].status # "NONE" => Days[p] \cap Days[q] = {}

CreatePeriodRead(f, p) ==
  /\ Deliver(f)
  /\ periods[p] = NoPeriod
  /\ NoOverlap(p)
  /\ Continue(f, [pc |-> "create", period |-> p])
  /\ UNCHANGED <<periods, runs, outstanding, eligible, data>>

\* (client, first day, last day) is unique.
CreatePeriod(f) ==
  /\ flight[f].pc = "create"
  /\ periods[flight[f].period] = NoPeriod
  /\ periods' = [periods EXCEPT ![flight[f].period].status = "DRAFT"]
  /\ Finish(f)
  /\ UNCHANGED <<runs, outstanding, eligible, data>>

-----------------------------------------------------------------------------
(* calculatePayrollRun.                                                    *)

\* Mutant: a reviewed period can be calculated again.
Calculable_MutantReviewedToo(p) == periods[p].status \in {"DRAFT", "REVIEWED"}

\* PAY_PERIOD_NOT_DRAFT otherwise.
Calculable(p) == periods[p].status = "DRAFT"

CalculateRead(f, p) ==
  /\ Deliver(f)
  /\ Calculable(p)
  /\ Continue(f, [pc |-> "inputs", period |-> p])
  /\ UNCHANGED <<periods, runs, outstanding, eligible, data>>

\* calculateEmployeePayroll on an advance of a fixed amount.
Repayment(e) == Min({Installment[e], outstanding[e]})

Calculated ==
  [e \in Employee |-> IF e \in eligible
                      THEN [data |-> data[e], deducted |-> Repayment(e), line |-> 0] ELSE NoResult]

\* NO_PAYROLL_EMPLOYEES otherwise.
CalculateInputs(f) ==
  /\ flight[f].pc = "inputs"
  /\ eligible # {}
  /\ Continue(f, [pc |-> "run", period |-> flight[f].period, version |-> Latest(flight[f].period) + 1,
                  calculated |-> Calculated])
  /\ UNCHANGED <<periods, runs, outstanding, eligible, data>>

Covered(results) == {e \in Employee : results[e] # NoResult}

\* The nested create, row by row: the run, then each result before its lines.
\* (payPeriodId, version) is unique.
CreateRun(f) ==
  /\ flight[f].pc = "run"
  /\ flight[f].version \in (Latest(flight[f].period) + 1)..MaxRuns
  /\ LET results == flight[f].calculated
     IN runs' = [runs EXCEPT ![flight[f].period] = Append(@,
          [expected |-> Cardinality(Covered(results)), acknowledged |-> {}, status |-> "DRAFT",
           blocked |-> \E e \in Employee : results[e].data = "blocked",
           results |-> [e \in Employee |-> NoResult]])]
  /\ Continue(f, [flight[f] EXCEPT !.pc = "results"])
  /\ UNCHANGED <<periods, outstanding, eligible, data>>

Written(f) == Covered(runs[flight[f].period][flight[f].version].results)

CreateResult(f, e) ==
  /\ flight[f].pc = "results"
  /\ e \in Covered(flight[f].calculated) \ Written(f)
  /\ runs' = [runs EXCEPT ![flight[f].period][flight[f].version].results[e] = flight[f].calculated[e]]
  /\ Continue(f, [pc |-> "lines", period |-> flight[f].period, version |-> flight[f].version,
                  calculated |-> flight[f].calculated, employee |-> e])
  /\ UNCHANGED <<periods, outstanding, eligible, data>>

\* The last line ends the request.
CreateLines(f) ==
  /\ flight[f].pc = "lines"
  /\ LET e == flight[f].employee
     IN runs' = [runs EXCEPT ![flight[f].period][flight[f].version].results[e].line =
                   flight[f].calculated[e].deducted]
  /\ IF Written(f) = Covered(flight[f].calculated) THEN Finish(f)
     ELSE Continue(f, [pc |-> "results", period |-> flight[f].period, version |-> flight[f].version,
                       calculated |-> flight[f].calculated])
  /\ UNCHANGED <<periods, outstanding, eligible, data>>

-----------------------------------------------------------------------------
(* acknowledgePayrollWarningV2, on the latest run of a draft period.       *)

AcknowledgeRead(f, p, e) ==
  /\ Deliver(f)
  /\ periods[p].status = "DRAFT"
  /\ Latest(p) > 0
  /\ runs[p][Latest(p)].results[e].data = "warned"
  /\ Continue(f, [pc |-> "acknowledge", period |-> p, version |-> Latest(p), employee |-> e])
  /\ UNCHANGED <<periods, runs, outstanding, eligible, data>>

\* (result, code) is unique.
Acknowledge(f) ==
  /\ flight[f].pc = "acknowledge"
  /\ runs' = [runs EXCEPT ![flight[f].period][flight[f].version].acknowledged = @ \cup {flight[f].employee}]
  /\ Finish(f)
  /\ UNCHANGED <<periods, outstanding, eligible, data>>

-----------------------------------------------------------------------------
(* transitionPayPeriodV2.                                                  *)

validTransition(status, action) ==
  \/ action = "REVIEW" /\ status = "DRAFT"
  \/ action = "APPROVE" /\ status = "REVIEWED"
  \/ action = "LOCK" /\ status = "APPROVED"
  \/ action = "REOPEN" /\ status \in {"REVIEWED", "APPROVED"}

ReopenRead(f, p) ==
  /\ Deliver(f)
  /\ validTransition(periods[p].status, "REOPEN")
  /\ Continue(f, [pc |-> "reopen", period |-> p])
  /\ UNCHANGED <<periods, runs, outstanding, eligible, data>>

\* By id, whatever the status is by now.
Reopen(f) ==
  /\ flight[f].pc = "reopen"
  /\ periods' = [periods EXCEPT ![flight[f].period] = [status |-> "DRAFT", reviewed |-> 0, approved |-> 0]]
  /\ Finish(f)
  /\ UNCHANGED <<runs, outstanding, eligible, data>>

\* The period; the counts of what is unresolved may refuse the request here.
TransitionRead(f, p, action) ==
  /\ Deliver(f)
  /\ validTransition(periods[p].status, action)
  /\ Continue(f, [pc |-> "assert", period |-> p, action |-> action, current |-> periods[p]])
  /\ UNCHANGED <<periods, runs, outstanding, eligible, data>>

\* PAYROLL_CALCULATION_BLOCKED or PAYROLL_WARNINGS_UNACKNOWLEDGED otherwise.
Ready(run) ==
  /\ ~ run.blocked
  /\ \A e \in Employee : run.results[e].data = "warned" => e \in run.acknowledged

\* Mutant: the number of employees is compared, not who they are.
Coverage_MutantCountOnly(run) == run.expected = Cardinality(eligible)

\* comparePayrollEmployeeCoverage; PAYROLL_CALCULATION_INCOMPLETE otherwise.
Coverage(run) == Covered(run.results) = eligible /\ run.expected = Cardinality(eligible)

\* PAYROLL_CALCULATION_CHANGED otherwise.
Unchanged(action, current, version) ==
  /\ action = "APPROVE" => current.reviewed = version
  /\ action = "LOCK" => current.approved = version

\* assertReviewablePayrollCalculation.
AssertReviewable(f) ==
  /\ flight[f].pc = "assert"
  /\ LET p == flight[f].period
     IN IF /\ Latest(p) > 0
           /\ Coverage(runs[p][Latest(p)])
           /\ Ready(runs[p][Latest(p)])
           /\ Unchanged(flight[f].action, flight[f].current, Latest(p))
        THEN Continue(f, [pc |-> flight[f].action, period |-> p, version |-> Latest(p)])
        ELSE Finish(f)
  /\ UNCHANGED <<periods, runs, outstanding, eligible, data>>

Review(f) ==
  /\ flight[f].pc = "REVIEW"
  /\ periods' = [periods EXCEPT ![flight[f].period] =
                   [status |-> "REVIEWED", reviewed |-> flight[f].version, approved |-> 0]]
  /\ Finish(f)
  /\ UNCHANGED <<runs, outstanding, eligible, data>>

Approve(f) ==
  /\ flight[f].pc = "APPROVE"
  /\ periods' = [periods EXCEPT ![flight[f].period] =
                   [@ EXCEPT !.status = "APPROVED", !.approved = flight[f].version]]
  /\ Finish(f)
  /\ UNCHANGED <<runs, outstanding, eligible, data>>

\* The advances the run repays; none when it is locked already.
Repayments(run) == {e \in Employee : run.status = "DRAFT" /\ run.results[e].line > 0}

\* lockPayrollCalculation reads the run and its lines.
LockRead(f) ==
  /\ flight[f].pc = "LOCK"
  /\ LET p == flight[f].period
         run == runs[p][flight[f].version]
     IN IF Ready(run)
        THEN Continue(f, [pc |-> "repay", period |-> p, version |-> flight[f].version,
                          left |-> Repayments(run)])
        ELSE Finish(f)
  /\ UNCHANGED <<periods, runs, outstanding, eligible, data>>

\* Mutant: how many rows were updated is not looked at.
RepayAdvance_MutantCountIgnored(f, e) ==
  /\ flight[f].pc = "repay"
  /\ e \in flight[f].left
  /\ LET amount == runs[flight[f].period][flight[f].version].results[e].line
     IN outstanding' = IF outstanding[e] >= amount THEN [outstanding EXCEPT ![e] = @ - amount] ELSE outstanding
  /\ Continue(f, [flight[f] EXCEPT !.left = @ \ {e}])
  /\ UNCHANGED <<periods, runs, eligible, data>>

\* updateMany where as much is outstanding; ADVANCE_BALANCE_CHANGED otherwise, and
\* what was repaid before stays repaid.
RepayAdvance(f, e) ==
  /\ flight[f].pc = "repay"
  /\ e \in flight[f].left
  /\ LET amount == runs[flight[f].period][flight[f].version].results[e].line
     IN \/ /\ outstanding[e] >= amount
           /\ outstanding' = [outstanding EXCEPT ![e] = @ - amount]
           /\ Continue(f, [flight[f] EXCEPT !.left = @ \ {e}])
        \/ outstanding[e] < amount /\ Finish(f) /\ UNCHANGED outstanding
  /\ UNCHANGED <<periods, runs, eligible, data>>

LockRun(f) ==
  /\ flight[f].pc = "repay" /\ flight[f].left = {}
  /\ runs' = [runs EXCEPT ![flight[f].period][flight[f].version].status = "LOCKED"]
  /\ Continue(f, [pc |-> "close", period |-> flight[f].period, version |-> flight[f].version])
  /\ UNCHANGED <<periods, outstanding, eligible, data>>

LockPeriod(f) ==
  /\ flight[f].pc = "close"
  /\ periods' = [periods EXCEPT ![flight[f].period].status = "LOCKED"]
  /\ Finish(f)
  /\ UNCHANGED <<runs, outstanding, eligible, data>>

-----------------------------------------------------------------------------
(* Everything else.                                                        *)

\* A join or termination date, a new or a deleted employee: also "global".
ChangeEligible(e) ==
  /\ CoordinatorSerializes => Busy = {}
  /\ eligible' = IF e \in eligible THEN eligible \ {e} ELSE eligible \cup {e}
  /\ UNCHANGED <<periods, runs, outstanding, data, flight>>

\* A clock action, the cron job or an administrator changes an input.
ChangeData(e, d) ==
  /\ data[e] # d
  /\ data' = [data EXCEPT ![e] = d]
  /\ UNCHANGED <<periods, runs, outstanding, eligible, flight>>

\* The Worker stops, or a statement fails: there is no rollback.
Stop(f) ==
  /\ MayStop
  /\ flight[f] # Idle
  /\ Finish(f)
  /\ UNCHANGED <<periods, runs, outstanding, eligible, data>>

\* What happens while no request stops half-way.
Progress ==
  \/ \E f \in Flight :
       \/ \E p \in Period :
            \/ CreatePeriodRead(f, p) \/ CalculateRead(f, p) \/ ReopenRead(f, p)
            \/ \E e \in Employee : AcknowledgeRead(f, p, e)
            \/ \E action \in {"REVIEW", "APPROVE", "LOCK"} : TransitionRead(f, p, action)
       \/ CreatePeriod(f)
       \/ CalculateInputs(f) \/ CreateRun(f) \/ CreateLines(f)
       \/ \E e \in Employee : CreateResult(f, e) \/ RepayAdvance(f, e)
       \/ Acknowledge(f)
       \/ AssertReviewable(f) \/ Review(f) \/ Approve(f) \/ Reopen(f)
       \/ LockRead(f) \/ LockRun(f) \/ LockPeriod(f)
  \/ \E e \in Employee : ChangeEligible(e) \/ \E d \in Data : ChangeData(e, d)

Next == Progress \/ \E f \in Flight : Stop(f)

Spec == Init /\ [][Next]_vars

-----------------------------------------------------------------------------
(* What the payroll of an organization promises.                           *)

\* createPayPeriodV2: two pay periods never share a day.
PeriodsAreDisjoint ==
  \A p, q \in Period :
    p # q /\ periods[p].status # "NONE" /\ periods[q].status # "NONE" => Days[p] \cap Days[q] = {}

\* What a period carries is the latest calculation: no run slips in between its review
\* and its lock, however often the period is reopened.
CarriesTheLatest ==
  \A p \in Period :
    /\ periods[p].status \in {"REVIEWED", "APPROVED", "LOCKED"} => periods[p].reviewed = Latest(p)
    /\ periods[p].status \in {"APPROVED", "LOCKED"} => periods[p].approved = periods[p].reviewed

\* A run that a period carries is decided: nothing in it blocks, and an
\* administrator acknowledged its warnings before the review, not after.
WarningsAreAcknowledgedFirst ==
  /\ \A p \in Period : periods[p].reviewed # 0 => Ready(runs[p][periods[p].reviewed])
  /\ \A p \in Period : \A v \in 1..Latest(p) : runs[p][v].status = "LOCKED" => Ready(runs[p][v])

\* What is approved and locked is the calculation that was reviewed, the latest one, with
\* its warnings acknowledged before, and nobody's pay period shares a day with another,
\* wherever requests stop and however the inputs change meanwhile.
ApprovedIsReviewed == TypeOK /\ CarriesTheLatest /\ WarningsAreAcknowledgedFirst /\ PeriodsAreDisjoint

\* A period is locked on a run that has exactly the employees of that moment,
\* however many joined and left since the calculation, or stopped it half-way.
Covers ==
  \A p \in Period : periods[p].status # "LOCKED" /\ periods'[p].status = "LOCKED" =>
    Covered(runs[p][periods[p].approved].results) = eligible

\* "immutable result": a locked period stays locked.
StaysLocked == \A p \in Period : periods[p].status = "LOCKED" => periods'[p] = periods[p]

\* A period is locked on the right employees, and then for good.
LocksStand == [][Covers /\ StaysLocked]_vars

LockedRuns == {r \in Period \X (1..MaxRuns) : r[2] <= Latest(r[1]) /\ runs[r[1]][r[2]].status = "LOCKED"}

Deducted(e) == MapThenSumSet(LAMBDA r : runs[r[1]][r[2]].results[e].deducted, LockedRuns)

\* What the locked calculations deducted for an advance was taken off its balance,
\* though several periods are calculated from the same balance.
LockedDeductionsAreRepaid == \A e \in Employee : Opening[e] - outstanding[e] >= Deducted(e)

\* "return the period to draft and calculate again": while no lock is under way,
\* nothing else was taken off, so that a refused lock can be repeated.
BalancesFollowLockedRuns ==
  (\A f \in Flight : flight[f].pc # "repay") =>
    \A e \in Employee : Opening[e] - outstanding[e] = Deducted(e)

\* A second LOCK leaves the balance alone: one period takes at most one installment.
RepaidOncePerPeriod ==
  \A e \in Employee :
    Opening[e] - outstanding[e] <= Installment[e] * Cardinality({p \in Period : Latest(p) > 0})

\* An employee has one statement of a locked period.
OneStatementPerPeriod ==
  \A p \in Period : periods[p].status = "LOCKED" => Cardinality({r \in LockedRuns : r[1] = p}) = 1

\* A locked result itemizes what it deducts.
DeductionsAreItemized ==
  \A r \in LockedRuns, e \in Employee :
    runs[r[1]][r[2]].results[e].line = runs[r[1]][r[2]].results[e].deducted
=============================================================================
