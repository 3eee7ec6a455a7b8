----------------------------- MODULE LeaveRules -----------------------------
(***************************************************************************)
(* How many minutes an employee is scheduled to work on a day, and how     *)
(* planLeaveAllocations spreads a leave request over the days it covers,   *)
(* as pure operators.  Dates are calendar days, as numbers (dateRange      *)
(* carries a 31st of February over into March); the weekday of date 0 is   *)
(* Sunday, and 0 minutes stand for a day that gets no allocation.          *)
(***************************************************************************)
EXTENDS Integers, FiniteSets, FiniteSetsExt

CONSTANT MinutesPerDay  \* 24 * 60

ASSUME LeaveRulesAssumption == MinutesPerDay \in Nat \ {0}

Weekday(date) == date % 7

shiftDuration(start, end, breakMinutes) ==
  LET worked == (IF end <= start THEN end + MinutesPerDay ELSE end) - start - breakMinutes
  IN IF worked > 1 THEN worked ELSE 1

-----------------------------------------------------------------------------
(* Holidays: rows [date, state, override]; the state "ANY" is a null       *)
(* stateCode of an organization's holiday, "NONE" an unknown state.        *)

StateCode(worksiteState, clientState) ==
  CASE worksiteState # "NONE"                        -> worksiteState
    [] worksiteState = "NONE" /\ clientState # "NONE" -> clientState
    [] OTHER                                         -> "14"

Holidays(organization, national, state) ==
  {h \in organization : h.state \in {"ANY", state}}
    \cup {[h EXCEPT !.override = FALSE] : h \in {n \in national : n.state = state}}

IsHoliday(holidays, date) ==
  /\ \E h \in holidays : h.date = date /\ ~ h.override
  /\ ~ \E h \in holidays : h.date = date /\ h.override

-----------------------------------------------------------------------------
(* Schedules: assignments [from, to, days, start, end, breaks, active],    *)
(* where to = 0 is open ended, and the legacy schedule [days, start, end,  *)
(* active] or NoSchedule.                                                  *)

NoSchedule == [days |-> {}, start |-> 0, end |-> 0, active |-> FALSE]

Effective(assignments, date) ==
  {a \in assignments : a.active /\ a.from <= date /\ (a.to = 0 \/ date <= a.to)}

Assignment(assignments, date) ==
  CHOOSE a \in Effective(assignments, date) : \A b \in Effective(assignments, date) : b.from <= a.from

\* calendar : [holidays, assignments, legacy, defaultDay, defaultBreak]
ScheduledMinutes(calendar, date) ==
  CASE IsHoliday(calendar.holidays, date) -> 0
    [] ~ IsHoliday(calendar.holidays, date) /\ Effective(calendar.assignments, date) # {} ->
         LET a == Assignment(calendar.assignments, date)
         IN IF Weekday(date) \in a.days THEN shiftDuration(a.start, a.end, a.breaks) ELSE 0
    [] ~ IsHoliday(calendar.holidays, date) /\ Effective(calendar.assignments, date) = {} ->
         LET s == calendar.legacy
         IN CASE s.active   -> IF Weekday(date) \in s.days
                               THEN shiftDuration(s.start, s.end, calendar.defaultBreak) ELSE 0
              [] ~ s.active -> IF Weekday(date) \in 1..5 THEN calendar.defaultDay ELSE 0

-----------------------------------------------------------------------------
(* The plan: minutes per day, given the scheduled minutes of the days.     *)

TotalMinutes(minutes, dates) == MapThenSumSet(LAMBDA d : minutes[d], dates)

\* INSUFFICIENT_SCHEDULED_MINUTES otherwise.
HasRoom(scheduled, dates, requested) == TotalMinutes(scheduled, dates) >= requested

planLeaveAllocations(scheduled, dates, requested) ==
  [d \in dates |->
     LET left == requested - TotalMinutes(scheduled, {e \in dates : e < d})
     IN CASE left <= 0                          -> 0
          [] left > 0 /\ left <= scheduled[d]   -> left
          [] OTHER                              -> scheduled[d]]

-----------------------------------------------------------------------------
(* Properties.                                                             *)

\* A plan is exactly the leave that was asked for, when the days have room for it, and puts
\* on no day more than is worked there.
PlanIsTheRequest(scheduled, dates, requested) ==
  LET plan == planLeaveAllocations(scheduled, dates, requested)
  IN /\ HasRoom(scheduled, dates, requested) => TotalMinutes(plan, dates) = requested
     /\ \A d \in dates : plan[d] \in 0..scheduled[d]

\* The earliest days are filled first: a day after one with room left gets nothing.
EarliestDaysFirst(scheduled, dates, requested) ==
  LET plan == planLeaveAllocations(scheduled, dates, requested)
  IN \A d, e \in dates : d < e /\ plan[e] > 0 => plan[d] = scheduled[d]

\* Leave is taken exactly where the employee would have worked: never on a holiday unless
\* someone overrode it, by the days and the length of the shift that started to apply last,
\* and by the legacy schedule only where no shift applies.
LeaveReplacesWork(calendar, d) ==
  LET rows    == {h \in calendar.holidays : h.date = d}
      shifts  == {a \in calendar.assignments : a.active /\ d >= a.from /\ (a.to = 0 \/ a.to >= d)}
      latest  == {a \in shifts : \A b \in shifts : b.from <= a.from}
      minutes == ScheduledMinutes(calendar, d)
  IN /\ rows # {} /\ (\A h \in rows : ~ h.override) => minutes = 0
     /\ \A a \in latest : Weekday(d) \notin a.days => minutes = 0
     /\ \A a \in latest : minutes <= shiftDuration(a.start, a.end, a.breaks)
     /\ shifts = {} /\ calendar.legacy.active => Weekday(d) \in calendar.legacy.days \/ minutes = 0
     /\ (\E h \in rows : h.override) /\ (\E a \in latest : Weekday(d) \in a.days) => minutes > 0

\* The length of a shift is the time on the clock from its start round to its end, over
\* midnight if need be, less the breaks, and never less than a minute.
ShiftsAreMeasuredRound(a) ==
  LET onTheClock == IF a.start = a.end THEN MinutesPerDay ELSE
                      Cardinality({t \in 0..(MinutesPerDay - 1) :
                        IF a.start < a.end THEN a.start <= t /\ t < a.end
                        ELSE a.start <= t \/ t < a.end})
  IN shiftDuration(a.start, a.end, a.breaks) =
       IF onTheClock - a.breaks > 1 THEN onTheClock - a.breaks ELSE 1
=============================================================================
