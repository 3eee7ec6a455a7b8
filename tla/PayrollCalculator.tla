-------------------------- MODULE PayrollCalculator --------------------------
(***************************************************************************)
(* calculateEmployeePayroll for one employee and one pay period.  The days *)
(* of the period, the components assigned and the settings are its input;  *)
(* they are put together one by one, so that the results before and after  *)
(* a change can be compared.                                               *)
(*                                                                         *)
(* Amounts are sen.  The quotients are exact here and rounded as the code  *)
(* rounds them, a half up; the code computes them in floating point.       *)
(***************************************************************************)
EXTENDS StatutoryContributions, FiniteSetsExt

CONSTANTS
  MonthLength,    \* per date of the period, the days of its month
  CommonLength,   \* a common multiple of them
  SalaryDivisor,
  Setting,        \* bound: the profiles and settings an employee can have
  RegularDay,     \* regularDayMinutes of the timesheets, from which work is overtime
  DayInput,       \* bound: the timesheets a date can have
  ExtraMinutes,   \* bound: the minutes of work that can be added to a date
  Assignment,     \* bound: the components that can be assigned
  MaxDays, MaxAssignments,
  NoDay

Date == 1..Len(MonthLength)

\* What the constants may be.
Parameters ==
  /\ \A d \in Date : MonthLength[d] \in Nat \ {0} /\ CommonLength % MonthLength[d] = 0
  /\ SalaryDivisor \in Nat \ {0} /\ ExtraMinutes \subseteq Nat \ {0} /\ NoDay \notin DayInput

VARIABLES
  setting,   \* profile, employment, jurisdiction and statutory profile
  days,      \* the timesheet of each date
  assigned   \* the employee's components, in order

vars == <<setting, days, assigned>>

Init ==
  /\ setting \in Setting
  /\ days = [d \in Date |-> NoDay]
  /\ assigned = <<>>

Larger(a, b) == IF a >= b THEN a ELSE b
Smaller(a, b) == IF a <= b THEN a ELSE b

Entered == {d \in Date : days[d] # NoDay}

Enter(d, day) ==
  /\ days[d] = NoDay /\ Cardinality(Entered) < MaxDays
  /\ days' = [days EXCEPT ![d] = day]
  /\ UNCHANGED <<setting, assigned>>

\* The timesheet of the date is calculated from more minutes.
WorkMore(d, minutes) ==
  /\ days[d] # NoDay /\ days[d].overtime = 0
  /\ LET worked == days[d].regular + minutes
     IN days' = [days EXCEPT ![d].regular = Smaller(worked, RegularDay),
                             ![d].overtime = Larger(worked - RegularDay, 0)]
  /\ UNCHANGED <<setting, assigned>>

Assign(a) ==
  /\ Len(assigned) < MaxAssignments
  /\ assigned' = Append(assigned, a)
  /\ UNCHANGED <<setting, days>>

Next ==
  \/ \E d \in Date : \/ \E day \in DayInput : Enter(d, day)
                     \/ \E minutes \in ExtraMinutes : WorkMore(d, minutes)
  \/ \E a \in Assignment : Assign(a)

Spec == Init /\ [][Next]_vars

-----------------------------------------------------------------------------
(* Arithmetic.                                                             *)

\* Math.round of p / q, both natural.
rounded(p, q) == p \div q + (IF 2 * (p % q) >= q THEN 1 ELSE 0)

\* rate: a quotient; multiplier: halves.
amountForMinutes(rate, minutes, halves) ==
  rounded(rate[1] * minutes * halves, 2 * rate[2] * setting.normal)

activeOn(d, from, to) == from <= d /\ d <= to

\* The period dates on which the employee is employed.
activeDates == {d \in Date : activeOn(d, setting.from, setting.to)}

-----------------------------------------------------------------------------
(* Base pay and the days.                                                  *)

\* The pay of an ordinary day, a quotient.
ordinaryDaySen ==
  CASE setting.payType = "MONTHLY" -> <<setting.base, SalaryDivisor>>
    [] setting.payType = "DAILY"   -> <<setting.base, 1>>
    [] setting.payType = "HOURLY"  -> <<setting.base * setting.normal, 60>>

\* The monthly salary for these dates, each a share of its own month.
BaseOf(dates) ==
  rounded(MapThenSumSet(LAMBDA d : setting.base * (CommonLength \div MonthLength[d]), dates), CommonLength)

basePay == IF setting.payType = "MONTHLY" THEN BaseOf(activeDates) ELSE 0

Kind(d) == days[d].kind

\* The entered dates of employment of this kind: a public holiday on a rest day counts as a
\* holiday.
DatesOf(kind) == {d \in Entered \cap activeDates : Kind(d) = kind}

Worked(d) == days[d].regular + days[d].overtime

HolidayPay(d) ==
  IF Worked(d) = 0 THEN 0
  ELSE rounded(ordinaryDaySen[1] * (IF setting.payType = "MONTHLY" THEN 2 ELSE 3), ordinaryDaySen[2])
         + amountForMinutes(ordinaryDaySen, Larger(Worked(d) - setting.normal, 0), 6)

\* Mutant: a long rest day pays the overtime only.
RestDayPay_MutantOvertimeOnly(d) ==
  LET halves == CASE Worked(d) = 0 -> 0 [] Worked(d) > setting.normal -> 0
                  [] OTHER -> IF setting.payType = "MONTHLY" THEN 1 ELSE 2
  IN rounded(ordinaryDaySen[1] * halves, 2 * ordinaryDaySen[2])
       + amountForMinutes(ordinaryDaySen, Larger(Worked(d) - setting.normal, 0), 4)

\* Up to half a day counts half as much as more.
RestDayPay(d) ==
  LET short  == 2 * Worked(d) <= setting.normal
      halves == CASE Worked(d) = 0                -> 0
                  [] Worked(d) > 0 /\ short        -> IF setting.payType = "MONTHLY" THEN 1 ELSE 2
                  [] Worked(d) > 0 /\ ~short       -> IF setting.payType = "MONTHLY" THEN 2 ELSE 4
  IN rounded(ordinaryDaySen[1] * halves, 2 * ordinaryDaySen[2])
       + amountForMinutes(ordinaryDaySen, Larger(Worked(d) - setting.normal, 0), 4)

publicHolidayPay == MapThenSumSet(HolidayPay, DatesOf("holiday"))
restDayPay == MapThenSumSet(RestDayPay, DatesOf("rest"))

UnpaidLeaveOf(d) == amountForMinutes(<<setting.base, MonthLength[d]>>, days[d].unpaid, 2)

unpaidLeaveDeduction ==
  IF setting.payType = "MONTHLY" THEN MapThenSumSet(UnpaidLeaveOf, DatesOf("normal")) ELSE 0

regularMinutes == MapThenSumSet(LAMBDA d : days[d].regular, DatesOf("normal"))
paidLeaveMinutes == MapThenSumSet(LAMBDA d : days[d].paid, DatesOf("normal"))
overtimeMinutes == MapThenSumSet(LAMBDA d : days[d].overtime, DatesOf("normal"))

\* Pay for minutes at the ordinary rate, which a monthly salary includes.
TimePay(minutes) ==
  CASE setting.payType = "MONTHLY" -> 0
    [] setting.payType = "DAILY"   -> amountForMinutes(<<setting.base, 1>>, minutes, 2)
    [] setting.payType = "HOURLY"  -> rounded(setting.base * minutes, 60)

regularPay == TimePay(regularMinutes)
paidLeavePay == TimePay(paidLeaveMinutes)

overtimePay == IF setting.overtimeEligible THEN amountForMinutes(ordinaryDaySen, overtimeMinutes, 3) ELSE 0

-----------------------------------------------------------------------------
(* Components.                                                             *)

payableMinutes == regularMinutes + paidLeaveMinutes
baseEarnings == basePay + regularPay + paidLeavePay

ComponentDates(a) == {d \in activeDates : activeOn(d, a.from, a.to)}

\* What the basis of the component gives; nothing when no date is covered.
ByBasis(a) ==
  CASE ComponentDates(a) = {}       -> 0
    [] a.basis = "FIXED_AMOUNT" /\ ComponentDates(a) # {} ->
         rounded(a.amount * Cardinality(ComponentDates(a)), Cardinality(Date))
    [] a.basis = "PER_DAY" /\ ComponentDates(a) # {}      -> rounded(a.amount * payableMinutes, setting.normal)
    [] a.basis = "PER_HOUR" /\ ComponentDates(a) # {}     -> rounded(a.amount * payableMinutes, 60)
    [] a.basis = "PERCENTAGE" /\ ComponentDates(a) # {}   -> rounded(baseEarnings * a.amount, 10000)

\* An advance is repaid at most once.
ComponentAmount(a) ==
  IF a.type = "ADVANCE_REPAYMENT" THEN Smaller(ByBasis(a), a.outstanding) ELSE ByBasis(a)

Assigned(type) == {i \in 1..Len(assigned) : assigned[i].type = type}

SumAssigned(members) == MapThenSumSet(LAMBDA i : ComponentAmount(assigned[i]), members)

additionalEarnings == SumAssigned(Assigned("EARNING"))
otherDeductions == SumAssigned(Assigned("DEDUCTION"))
advanceDeduction == SumAssigned(Assigned("ADVANCE_REPAYMENT"))
EligibleEarnings(fund) == SumAssigned({i \in Assigned("EARNING") : fund \in assigned[i].eligible})

-----------------------------------------------------------------------------
(* Totals.                                                                 *)

dayPay == baseEarnings + restDayPay + publicHolidayPay

grossPay == dayPay + overtimePay + additionalEarnings

\* EPF does not count overtime.
fundWages ==
  [epf   |-> dayPay + EligibleEarnings("epf"),
   socso |-> dayPay + overtimePay + EligibleEarnings("socso"),
   eis   |-> dayPay + overtimePay + EligibleEarnings("eis")]

\* A fund takes part only with a profile of the employee and the rules of this version.
statutory ==
  IF setting.statutory = "complete"
  THEN calculateMalaysiaStatutoryContributions(fundWages, setting.epf, setting.socso, setting.eis)
  ELSE [epf |-> NoContribution, socso |-> NoContribution, eis |-> NoContribution,
        employeeTotal |-> 0, employerTotal |-> 0]

totalDeductions == unpaidLeaveDeduction + otherDeductions + advanceDeduction + statutory.employeeTotal

differsSignificantlyFromGross(wages) ==
  /\ grossPay > 0
  /\ Larger(wages - grossPay, grossPay - wages) >= Larger(10000, rounded(grossPay, 10))

\* What the reviewer of the run is told; MISSING_SCHEDULE, which depends on nothing here, is
\* left out.
Warnings ==
  {w \in {"OVERTIME_NOT_ELIGIBLE", "DEDUCTIONS_EXCEED_HALF_GROSS", "EPF_EXEMPT", "SOCSO_EXEMPT",
          "EIS_EXEMPT", "SOCSO_WAGE_CEILING_REACHED", "EIS_WAGE_CEILING_REACHED",
          "CONTRIBUTION_WAGES_DIFFER_SIGNIFICANTLY_FROM_GROSS"} :
     \/ w = "OVERTIME_NOT_ELIGIBLE" /\ ~setting.overtimeEligible /\ overtimeMinutes > 0
     \/ w = "DEDUCTIONS_EXCEED_HALF_GROSS" /\ 2 * totalDeductions > grossPay
     \/ /\ setting.statutory = "complete"
        /\ \/ w = "EPF_EXEMPT" /\ setting.epf = "EXEMPT"
           \/ w = "SOCSO_EXEMPT" /\ setting.socso = "EXEMPT"
           \/ w = "EIS_EXEMPT" /\ ~setting.eis
           \/ w = "SOCSO_WAGE_CEILING_REACHED" /\ setting.socso # "EXEMPT" /\ fundWages.socso >= 600000
           \/ w = "EIS_WAGE_CEILING_REACHED" /\ setting.eis /\ fundWages.eis >= 600000
           \/ /\ w = "CONTRIBUTION_WAGES_DIFFER_SIGNIFICANTLY_FROM_GROSS"
              /\ \E fund \in DOMAIN fundWages : differsSignificantlyFromGross(fundWages[fund])}

BlockingWarnings ==
  {w \in {"UNRESOLVED_TIMESHEET", "MISSING_STATUTORY_PROFILE", "UNSUPPORTED_STATUTORY_RULE_VERSION",
          "DEDUCTIONS_EXCEED_GROSS", "STATUTORY_DEDUCTIONS_EXCEED_GROSS"} :
     \/ w = "UNRESOLVED_TIMESHEET" /\ \E d \in Entered : ~days[d].resolved
     \/ w = "MISSING_STATUTORY_PROFILE" /\ setting.statutory = "no profile"
     \/ w = "UNSUPPORTED_STATUTORY_RULE_VERSION" /\ setting.statutory = "other rules"
     \/ w = "DEDUCTIONS_EXCEED_GROSS" /\ totalDeductions > grossPay
     \/ w = "STATUTORY_DEDUCTIONS_EXCEED_GROSS" /\ statutory.employeeTotal > grossPay}

calculatedPay == Larger(grossPay - totalDeductions, 0)

-----------------------------------------------------------------------------
(* The lines of the statement.                                             *)

Line(direction, code, amount) == [direction |-> direction, code |-> code, amount |-> amount]

DayLines ==
  {Line("EARNING", <<"BASE_PAY">>, basePay), Line("EARNING", <<"REGULAR_PAY">>, regularPay),
   Line("EARNING", <<"PAID_LEAVE">>, paidLeavePay), Line("EARNING", <<"OVERTIME">>, overtimePay),
   Line("EARNING", <<"REST_DAY">>, restDayPay), Line("EARNING", <<"PUBLIC_HOLIDAY">>, publicHolidayPay),
   Line("DEDUCTION", <<"UNPAID_LEAVE">>, unpaidLeaveDeduction)}

\* The code of a component's line is its place among the assigned ones.
ComponentLines ==
  {Line(IF assigned[i].type = "EARNING" THEN "EARNING" ELSE "DEDUCTION", <<"COMPONENT", i>>, ComponentAmount(assigned[i])) :
     i \in 1..Len(assigned)}

StatutoryLines ==
  UNION {{Line("DEDUCTION", <<fund, "EMPLOYEE">>, statutory[fund].employee),
          Line("EMPLOYER_CONTRIBUTION", <<fund, "EMPLOYER">>, statutory[fund].employer)} :
            fund \in {"epf", "socso", "eis"}}

\* pushLine keeps the positive ones.
lines == {l \in DayLines \cup ComponentLines \cup StatutoryLines : l.amount > 0}

-----------------------------------------------------------------------------
(* Properties.                                                             *)

Total(direction) == MapThenSumSet(LAMBDA l : l.amount, {l \in lines : l.direction = direction})

\* The statement adds up: unless a warning blocks the run, its earnings less its deductions
\* are the pay, to the sen, and what the employer contributes is no part of it.
StatementAddsUp ==
  BlockingWarnings = {} =>
    /\ Total("EARNING") - Total("DEDUCTION") = calculatedPay
    /\ Total("EMPLOYER_CONTRIBUTION") = statutory.employerTotal

\* A fund that gets nothing is explained: the employer contributes nothing for wages above ten
\* ringgit exactly when a warning says that the employee is exempt from that fund.
ExemptionsAreTold ==
  setting.statutory = "complete" =>
    LET share == statutory
        wages == fundWages
        told  == Warnings
    IN \A <<fund, warning>> \in {<<"epf", "EPF_EXEMPT">>, <<"socso", "SOCSO_EXEMPT">>, <<"eis", "EIS_EXEMPT">>} :
         wages[fund] > 1000 => (share[fund].employer = 0) = (warning \in told)

\* A salary is divided by calendar days without loss: who is employed throughout a month
\* that is one period gets the salary, and an employment that changes on some date makes up
\* the whole from its two parts, to a sen.
SalaryAddsUp ==
  setting.payType = "MONTHLY" =>
    /\ activeDates = Date /\ (\A d \in Date : MonthLength[d] = Cardinality(Date)) => basePay = setting.base
    /\ \A cut \in activeDates :
         LET early == {d \in activeDates : d < cut}
             parts == BaseOf(early) + BaseOf(activeDates \ early)
         IN Larger(parts - basePay, basePay - parts) <= 1

\* A day of unpaid leave costs what the salary pays for that date.
UnpaidDayCostsItsBase ==
  \A d \in DatesOf("normal") :
    setting.payType = "MONTHLY" /\ days[d].unpaid = setting.normal => UnpaidLeaveOf(d) = BaseOf({d})

\* The pay for the work of one date, were its kind this one.
PayAs(d, kind) ==
  CASE kind = "holiday" -> HolidayPay(d)
    [] kind = "rest"    -> RestDayPay(d)
    [] kind = "normal"  ->
         TimePay(days[d].regular)
           + (IF setting.overtimeEligible THEN amountForMinutes(ordinaryDaySen, days[d].overtime, 3) ELSE 0)

\* The same work pays at least as much on a rest day as on a normal one, and at least as
\* much on a public holiday as on a rest day, whatever the tiers and the pay type.
DayKindsAreOrdered ==
  \A d \in Entered : PayAs(d, "normal") <= PayAs(d, "rest") /\ PayAs(d, "rest") <= PayAs(d, "holiday")

\* More work never lowers the gross pay, across the tiers of rest days and holidays.
WorkIsRewarded ==
  (\E d \in Date, minutes \in ExtraMinutes : WorkMore(d, minutes)) => grossPay' >= grossPay
=============================================================================
