------------------------- MODULE TimesheetCalculator -------------------------
(***************************************************************************)
(* calculateTimesheet and calculateScheduleMetrics with their minutes: how *)
(* long a day's events say the employee worked and rested, how the policy  *)
(* rounds and splits that, and how late or early the schedule finds it.    *)
(* AttendanceRules keeps only the state and the codes of the same          *)
(* computation; DayRulesAgree relates the two.                             *)
(*                                                                         *)
(* Times are counted in ticks from local midnight of the work date, with   *)
(* TicksPerMinute ticks to a minute (60000 milliseconds in the code), and  *)
(* the days have MinutesPerDay minutes (1440).                             *)
(***************************************************************************)
EXTENDS AttendanceRules, Integers

CONSTANTS
  TicksPerMinute, MinutesPerDay,
  RegularDay,      \* policy.regularDayMinutes
  Increment,       \* policy.roundingIncrement
  MaximumShift,    \* policy.maximumShiftMinutes, 0 when there is none
  Shift,           \* the shift template: [start, end, grace : minutes, overnight : BOOLEAN]
  MaxEvents,       \* bound: events of the day
  MaxTick          \* bound: the latest tick

ASSUME CalculatorAssumption ==
  /\ {TicksPerMinute, MinutesPerDay, RegularDay, Increment} \subseteq Nat \ {0}
  /\ {MaximumShift, MaxEvents, MaxTick} \subseteq Nat
  /\ Shift \in [start : Nat, end : Nat, grace : Nat, overnight : BOOLEAN]

VARIABLE log  \* the events of the day in order of occurredAt: [type, at]

Unset == -1

Larger(a, b) == IF a >= b THEN a ELSE b
Smaller(a, b) == IF a <= b THEN a ELSE b

-----------------------------------------------------------------------------
(* The loop.                                                               *)

Start == [working |-> Unset, break |-> Unset, firstIn |-> Unset, lastOut |-> Unset,
          worked |-> 0, rested |-> 0, codes |-> {}]

AddCode(c, code) == [c EXCEPT !.codes = @ \cup {code}]

ClockIn(c, at) ==
  IF c.working # Unset \/ c.break # Unset
  THEN AddCode(c, "DUPLICATE_CLOCK_IN")
  ELSE [c EXCEPT !.working = at, !.firstIn = IF @ = Unset THEN at ELSE @]

BreakStart(c, at) ==
  IF c.working = Unset \/ c.break # Unset
  THEN AddCode(c, "UNPAIRED_BREAK_START")
  ELSE [c EXCEPT !.worked = @ + Larger(at - c.working, 0), !.working = Unset, !.break = at]

BreakEnd(c, at) ==
  IF c.break = Unset \/ c.working # Unset
  THEN AddCode(c, "UNPAIRED_BREAK_END")
  ELSE [c EXCEPT !.rested = @ + Larger(at - c.break, 0), !.break = Unset, !.working = at]

\* Mutant: a clock-out during a break counts the break as work.
ClockOut_MutantBreakIsWork(c, at) ==
  [(CASE c.break # Unset   -> [c EXCEPT !.worked = @ + Larger(at - c.break, 0), !.break = Unset,
                                        !.codes = @ \cup {"BREAK_NOT_ENDED"}]
      [] c.working # Unset -> [c EXCEPT !.worked = @ + Larger(at - c.working, 0), !.working = Unset]
      [] OTHER             -> AddCode(c, "UNPAIRED_CLOCK_OUT"))
   EXCEPT !.lastOut = at]

ClockOut(c, at) ==
  [(CASE c.break # Unset   -> [c EXCEPT !.rested = @ + Larger(at - c.break, 0), !.break = Unset,
                                        !.codes = @ \cup {"BREAK_NOT_ENDED"}]
      [] c.working # Unset -> [c EXCEPT !.worked = @ + Larger(at - c.working, 0), !.working = Unset]
      [] OTHER             -> AddCode(c, "UNPAIRED_CLOCK_OUT"))
   EXCEPT !.lastOut = at]

Apply(c, event) ==
  CASE event.type = "CLOCK_IN"    -> ClockIn(c, event.at)
    [] event.type = "BREAK_START" -> BreakStart(c, event.at)
    [] event.type = "BREAK_END"   -> BreakEnd(c, event.at)
    [] event.type = "CLOCK_OUT"   -> ClockOut(c, event.at)

Loop(events) ==
  LET state[i \in 0..Len(events)] == IF i = 0 THEN Start ELSE Apply(state[i - 1], events[i])
  IN state[Len(events)]

IsOpen(c) == c.working # Unset \/ c.break # Unset

\* roundedMinutes: Math.round takes a half up.
Rounded(ticks) ==
  ((2 * ticks + Increment * TicksPerMinute) \div (2 * Increment * TicksPerMinute)) * Increment

calculateTimesheet(events) ==
  LET c      == Loop(events)
      worked == Rounded(c.worked)
      codes  == c.codes
                  \cup (IF IsOpen(c) THEN {"MISSING_CLOCK_OUT"} ELSE {})
                  \cup (IF MaximumShift # 0 /\ worked > MaximumShift THEN {"EXCESSIVE_HOURS"} ELSE {})
  IN [state    |-> IF IsOpen(c) THEN "OPEN" ELSE IF codes # {} THEN "EXCEPTION" ELSE "COMPLETE",
      firstIn  |-> c.firstIn,
      lastOut  |-> c.lastOut,
      regular  |-> Smaller(worked, RegularDay),
      overtime |-> Larger(worked - RegularDay, 0),
      break    |-> Rounded(c.rested),
      codes    |-> codes]

-----------------------------------------------------------------------------
(* The schedule.                                                           *)

\* The local minute a tick falls in.
Minute(tick) == tick \div TicksPerMinute

ShiftEnd == Shift.end + (IF Shift.overnight THEN MinutesPerDay ELSE 0)

calculateScheduleMetrics(firstIn, lastOut) ==
  [late  |-> IF firstIn = Unset THEN 0 ELSE Larger(Minute(firstIn) - Shift.start - Shift.grace, 0),
   early |-> IF lastOut = Unset THEN 0 ELSE Larger(ShiftEnd - Minute(lastOut), 0)]

applyScheduleExceptions(calculation, metrics) ==
  LET codes == calculation.codes
                 \cup (IF metrics.late > 0 THEN {"LATE_ARRIVAL"} ELSE {})
                 \cup (IF metrics.early > 0 THEN {"EARLY_DEPARTURE"} ELSE {})
  IN [state |-> IF calculation.state = "OPEN" THEN "OPEN"
                ELSE IF codes # {} THEN "EXCEPTION" ELSE calculation.state,
      codes |-> codes]

\* The timesheet of the day as the handlers store it.
Timesheet ==
  LET calculation == calculateTimesheet(log)
      metrics     == calculateScheduleMetrics(calculation.firstIn, calculation.lastOut)
  IN [calculation |-> calculation, metrics |-> metrics,
      stored |-> applyScheduleExceptions(calculation, metrics)]

-----------------------------------------------------------------------------
(* Every history of a day, also those that the transition rule would not   *)
(* allow: corrections and imported events are calculated the same way.     *)

Init == log = <<>>

Record(type, at) ==
  /\ Len(log) < MaxEvents
  /\ log # <<>> => at >= log[Len(log)].at
  /\ log' = Append(log, [type |-> type, at |-> at])

Next == \E type \in EventType, at \in 0..MaxTick : Record(type, at)

Spec == Init /\ [][Next]_log

-----------------------------------------------------------------------------
(* Properties.                                                             *)

Types(events) == [i \in 1..Len(events) |-> events[i].type]

\* The log has its type, the minutes are natural numbers and the codes known ones.
TypeOK ==
  /\ log \in Seq([type : EventType, at : 0..MaxTick])
  /\ {Timesheet.calculation.regular, Timesheet.calculation.overtime,
      Timesheet.calculation.break, Timesheet.metrics.late, Timesheet.metrics.early} \subseteq Nat
  /\ Timesheet.stored.codes \subseteq ExceptionCode

\* What the employee is doing at a tick, from the events up to then alone.
ModeAt(tick) == Scan(Types(SelectSeq(log, LAMBDA e : e.at <= tick))).mode

\* Once the day is closed, the time calculateTimesheet counts as worked and as
\* rested is exactly the time spent working and on a break, counted tick by tick,
\* whatever unpaired events lie between.
CountedTimeIsTimeSpent ==
  ~IsOpen(Loop(log)) =>
    /\ Loop(log).worked = Cardinality({t \in 0..MaxTick : ModeAt(t) = "working"})
    /\ Loop(log).rested = Cardinality({t \in 0..MaxTick : ModeAt(t) = "break"})

\* Rounding moves what is paid by at most half an increment, in either direction.
RoundingIsFair ==
  LET paid  == (Timesheet.calculation.regular + Timesheet.calculation.overtime) * TicksPerMinute
      exact == Loop(log).worked
  IN /\ 2 * (paid - exact) <= Increment * TicksPerMinute
     /\ 2 * (exact - paid) < Increment * TicksPerMinute \/ exact = paid

\* The minutes of the schedule at which the employee must be there: from the end of
\* the grace period to the end of the shift, which may be on the next day.
ScheduledMinutes ==
  {m \in (Shift.start + Shift.grace)..(2 * MinutesPerDay) :
     IF Shift.overnight THEN m < MinutesPerDay \/ m - MinutesPerDay < Shift.end
                        ELSE m < Shift.end}

\* A day is free of LATE_ARRIVAL and EARLY_DEPARTURE exactly when the time between
\* its first clock-in and its last clock-out covers the schedule, to the minute.
ScheduleCodesMeanAbsence ==
  LET calculation == Timesheet.calculation
  IN calculation.firstIn # Unset /\ calculation.lastOut # Unset =>
       ({"LATE_ARRIVAL", "EARLY_DEPARTURE"} \cap Timesheet.stored.codes = {}
          <=> \A m \in ScheduledMinutes :
                Minute(calculation.firstIn) <= m /\ m < Minute(calculation.lastOut))

\* The state and the codes are the ones that AttendanceRules gives the same events,
\* the measured codes being those of the schedule and the hours; and a day has a
\* first clock-in exactly when one of its events is one.
DayRulesAgree ==
  LET measured == Timesheet.stored.codes \cap ScheduleAndHoursCodes
  IN /\ Timesheet.stored.state = DayState(Types(log), measured)
     /\ Timesheet.stored.codes = DayCodes(Types(log), measured)
     /\ Timesheet.calculation.firstIn # Unset <=> \E i \in 1..Len(log) : log[i].type = "CLOCK_IN"
=============================================================================
