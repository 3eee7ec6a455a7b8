------------------------------- MODULE MCRules -------------------------------
(***************************************************************************)
(* The calculations, over small inputs: TimesheetCalculator, and           *)
(* PayrollCalculator, StatutoryContributions and LeaveRules.  They share   *)
(* nothing, so a behaviour is about the one that part names.               *)
(*                                                                         *)
(*   timesheet  the events of a day with a shift over midnight             *)
(*   pay        October 31 to November 2, a timesheet, two components      *)
(*   month      the whole of October, a timesheet                          *)
(*   wages      contributions on both sides of every edge of the tables    *)
(*   leave      requests of Thursday to Sunday, in days of eight minutes   *)
(***************************************************************************)
EXTENDS TimesheetCalculator, FiniteSetsExt

CONSTANT none

VARIABLES part,
          setting, days, assigned,
          wages,
          calendar, request

payVars == <<setting, days, assigned>>
leaveVars == <<calendar, request>>
suiteVars == <<part, log, payVars, wages, leaveVars>>

OvernightShift == [start |-> 1, end |-> 1, grace |-> 1, overnight |-> TRUE]

-----------------------------------------------------------------------------
(* Payroll.                                                                *)

TurnOfMonth == <<31, 30, 30>>
October == [d \in 1..31 |-> 31]

Wage == [MONTHLY |-> 261000, DAILY |-> 9955, HOURLY |-> 1245]

SettingOf(payType, eligible, from, to, funds, category) ==
  [payType |-> payType, base |-> Wage[payType], normal |-> 480, overtimeEligible |-> eligible,
   from |-> from, to |-> to, statutory |-> funds, epf |-> category, socso |-> "FIRST", eis |-> TRUE]

Settings(last) ==
  {SettingOf(p, e, IF e THEN 2 ELSE 1, last, "complete", "STANDARD_UNDER_60") :
     p \in DOMAIN Wage, e \in BOOLEAN}
  \cup {SettingOf("MONTHLY", TRUE, 1, last - 1, s, "EXEMPT") :
     s \in {"complete", "off", "no profile", "other rules"}}

\* Exempt from SOCSO and EIS, with EPF and without.
Exempted ==
  {[SettingOf("MONTHLY", TRUE, 1, 31, "complete", category) EXCEPT !.socso = "EXEMPT", !.eis = FALSE] :
     category \in {"STANDARD_UNDER_60", "EXEMPT"}}

DayOf(kind, regular, overtime, paid, unpaid) ==
  [kind |-> kind, regular |-> regular, overtime |-> overtime, paid |-> paid, unpaid |-> unpaid,
   resolved |-> TRUE]

DayInputs ==
  {DayOf(kind, regular, 0, 0, 0) : kind \in {"normal", "rest", "holiday"}, regular \in {0, 240, 480}}
  \cup {DayOf("normal", 0, 0, 480, 0), DayOf("normal", 0, 0, 0, 480), DayOf("normal", 200, 0, 0, 280),
        [DayOf("normal", 100, 0, 0, 0) EXCEPT !.resolved = FALSE]}

AssignmentOf(type, basis, amount, from, outstanding, eligible) ==
  [type |-> type, basis |-> basis, amount |-> amount, from |-> from, to |-> Len(TurnOfMonth),
   outstanding |-> outstanding, eligible |-> eligible]

Assignments ==
  {AssignmentOf("EARNING", "FIXED_AMOUNT", 10001, 2, 0, {"epf", "socso"}),
   AssignmentOf("EARNING", "PER_HOUR", 115, 1, 0, {"epf", "socso", "eis"}),
   AssignmentOf("DEDUCTION", "PERCENTAGE", 1005, 1, 0, {}),
   AssignmentOf("DEDUCTION", "PER_DAY", 333, 1, 0, {}),
   AssignmentOf("ADVANCE_REPAYMENT", "FIXED_AMOUNT", 20000, 1, 5000, {})}

Pay == INSTANCE PayrollCalculator WITH
  MonthLength <- TurnOfMonth, CommonLength <- 930, SalaryDivisor <- 26,
  Setting <- Settings(3), RegularDay <- 480, DayInput <- DayInputs, ExtraMinutes <- {241},
  Assignment <- Assignments, MaxDays <- 1, MaxAssignments <- 2, NoDay <- none

Month == INSTANCE PayrollCalculator WITH
  MonthLength <- October, CommonLength <- 31, SalaryDivisor <- 26,
  Setting <- Settings(31) \cup Exempted, RegularDay <- 480, DayInput <- {}, ExtraMinutes <- {},
  Assignment <- {}, MaxDays <- 0, MaxAssignments <- 0, NoDay <- none

ASSUME PayParameters == Pay!Parameters /\ Month!Parameters

-----------------------------------------------------------------------------
(* Contributions: each band of 20 ringgit up to 5,000, of 100 ringgit up   *)
(* to 6,000 and about 20,000, and the ends of the small bands.             *)

Fund == INSTANCE StatutoryContributions

Edges == {2000 * i : i \in 1..251} \cup {10000 * i : i \in 1..62} \cup {10000 * i : i \in 195..203}
           \cup {3000, 5000, 7000, 15, 1000}

AroundEdges == {0} \cup UNION {{e - 1, e, e + 1} : e \in Edges}

Raise ==
  LET higher == {w \in AroundEdges : w > wages}
  IN higher # {} /\ wages' = Min(higher)

-----------------------------------------------------------------------------
(* Leave, on dates 4 (a Thursday) to 7.                                    *)

Leave == INSTANCE LeaveRules WITH MinutesPerDay <- 8

Shifts ==
  {[from |-> 1, to |-> 0, days |-> {1, 2, 3, 4, 6}, start |-> 2, end |-> 6, breaks |-> 1, active |-> TRUE],
   [from |-> 5, to |-> 6, days |-> {0, 5, 6}, start |-> 6, end |-> 2, breaks |-> 2, active |-> TRUE],
   [from |-> 4, to |-> 0, days |-> {0, 5}, start |-> 1, end |-> 1, breaks |-> 0, active |-> FALSE]}

LegacySchedules ==
  {Leave!NoSchedule, [days |-> {4, 6}, start |-> 7, end |-> 4, active |-> TRUE]}

OrganizationHolidays ==
  {[date |-> 4, state |-> "10", override |-> FALSE], [date |-> 6, state |-> "ANY", override |-> TRUE]}

NationalHolidays ==
  {[date |-> 6, state |-> "01", override |-> FALSE], [date |-> 5, state |-> "14", override |-> FALSE]}

Calendars ==
  {[holidays |-> Leave!Holidays(organization, NationalHolidays, Leave!StateCode(worksite, client)),
    assignments |-> assignments, legacy |-> legacy, defaultDay |-> 5, defaultBreak |-> 1] :
     organization \in SUBSET OrganizationHolidays, worksite \in {"NONE", "01"},
     client \in {"NONE", "10"}, assignments \in SUBSET Shifts, legacy \in LegacySchedules}

EmptyCalendar ==
  [holidays |-> {}, assignments |-> {}, legacy |-> Leave!NoSchedule, defaultDay |-> 5, defaultBreak |-> 1]

NoRequest == [first |-> 4, last |-> 4, minutes |-> 0]

Ask ==
  /\ request = NoRequest
  /\ \E first \in 4..7 : \E last \in first..7, minutes \in 1..8 :
       request' = [first |-> first, last |-> last, minutes |-> minutes]
  /\ UNCHANGED calendar

-----------------------------------------------------------------------------

SuiteInit ==
  /\ part \in {"timesheet", "pay", "month", "wages", "leave"}
  /\ Init /\ wages = 0 /\ request = NoRequest
  /\ IF part = "month" THEN Month!Init ELSE Pay!Init
  /\ part \notin {"pay", "month"} => setting = SettingOf("DAILY", TRUE, 2, 3, "complete", "STANDARD_UNDER_60")
  /\ IF part = "leave" THEN calendar \in Calendars ELSE calendar = EmptyCalendar

SuiteNext ==
  /\ UNCHANGED part
  /\ \/ part = "timesheet" /\ Next /\ UNCHANGED <<payVars, wages, leaveVars>>
     \/ part = "pay" /\ Pay!Next /\ UNCHANGED <<log, wages, leaveVars>>
     \/ part = "month" /\ Month!Next /\ UNCHANGED <<log, wages, leaveVars>>
     \/ part = "wages" /\ Raise /\ UNCHANGED <<log, payVars, leaveVars>>
     \/ part = "leave" /\ Ask /\ UNCHANGED <<log, payVars, wages>>

Suite == SuiteInit /\ [][SuiteNext]_suiteVars

-----------------------------------------------------------------------------

\* The days of the request and what is scheduled on them.
Dates == request.first..request.last
Scheduled == [d \in Dates |-> Leave!ScheduledMinutes(calendar, d)]

\* Time is counted as it was spent.  A closed day's work and breaks are those of its events,
\* rounded fairly, and its codes say when the schedule was missed; a plan of leave is the
\* leave that was asked for, on the time the employee would have worked
\* (timesheet-calculator.ts, leave-allocation.ts).
TimeIsCounted ==
  /\ part = "timesheet" =>
       TypeOK /\ CountedTimeIsTimeSpent /\ RoundingIsFair /\ ScheduleCodesMeanAbsence /\ DayRulesAgree
  /\ part = "leave" =>
       /\ Leave!PlanIsTheRequest(Scheduled, Dates, request.minutes)
       /\ Leave!EarliestDaysFirst(Scheduled, Dates, request.minutes)
       /\ \A d \in Dates : Leave!LeaveReplacesWork(calendar, d)
       /\ \A a \in calendar.assignments : Leave!ShiftsAreMeasuredRound(a)

\* The sums, in the month or for the wages of the state.
SumsAreRight ==
  /\ part = "pay" => Pay!StatementAddsUp /\ Pay!UnpaidDayCostsItsBase /\ Pay!DayKindsAreOrdered
  /\ part = "month" => Month!SalaryAddsUp /\ Month!ExemptionsAreTold
  /\ part = "wages" =>
       /\ \A higher \in {w \in AroundEdges : w > wages /\ w <= wages + 2000} :
            Fund!RisesNeverLowerContributions(wages, higher)
       /\ Fund!FormulasFollowTheRates(wages)
       /\ Fund!EpfCoversTheRate(wages)
       /\ Fund!ContributionsFitTheWages(wages)

\* Money adds up, and work is worth it.  Unless a warning blocks the run, the lines of a
\* statement are the pay; a fund gets nothing only when a warning says so; a salary divided by days loses nothing; the kinds of days are paid
\* in their order and more work never lowers the gross pay; contributions follow their rates,
\* fit the wages and never fall when wages rise (payroll-calculator.ts,
\* malaysia-statutory-contributions.ts).
MoneyAddsUp ==
  []SumsAreRight /\ [][part = "pay" => Pay!WorkIsRewarded]_suiteVars
=============================================================================
