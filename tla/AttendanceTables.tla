-------------------------- MODULE AttendanceTables --------------------------
(***************************************************************************)
(* The tables of one employee that the attendance handlers share, and the  *)
(* server's clock.  Every query of these handlers filters by employee, so  *)
(* the rows of other employees never appear in them.                       *)
(*                                                                         *)
(* The components that read and write the tables extend this module:       *)
(* ClockActions (the attendance write coordinator), AttendanceCron (the    *)
(* scheduled job) and PayPeriodLock (the global write coordinator).        *)
(***************************************************************************)
EXTENDS AttendanceRules

CONSTANTS
  MaxDay,   \* bound: the work dates 1..MaxDay
  MaxTime,  \* bound: at most MaxTime clock requests reach the transition rule
  Key       \* the idempotency keys the employee's clients make up

ASSUME BoundsAssumption == MaxDay \in Nat \ {0} /\ MaxTime \in Nat

VARIABLES
  events,   \* AttendanceEvent: a set of rows
  record,   \* AttendanceRecord: status per work date, "NONE" when there is no row
  sheet,    \* TimesheetDay: a row per work date, NoSheet when there is none
  today,    \* attendanceDate()
  now       \* server time, counted in accepted clock requests

tables == <<events, record, sheet>>

Day == 1..MaxDay

\* at is occurredAt, the server time at which the request's preflight ran.
Event == [type : EventType, day : Day, key : Key, at : 1..MaxTime]

\* basis: the events from which the row's minutes, firstClockInAt and
\* lastClockOutAt were calculated.
Sheet == [state : SheetState, codes : SUBSET ExceptionCode, basis : SUBSET Event]

NoSheet == [state |-> "NONE", codes |-> {}, basis |-> {}]

RecordStatus == {"NONE", "CLOCKED_IN", "CLOCKED_OUT"}

TablesInit ==
  /\ events = {}
  /\ record = [d \in Day |-> "NONE"]
  /\ sheet = [d \in Day |-> NoSheet]
  /\ today = 1
  /\ now = 0

TablesTypeOK ==
  /\ events \subseteq Event
  /\ record \in [Day -> RecordStatus]
  /\ sheet \in [Day -> Sheet \cup {NoSheet}]
  /\ today \in Day
  /\ now \in 0..MaxTime

DayEvents(d) == {e \in events : e.day = d}

\* The row ORDER BY occurredAt DESC LIMIT 1 returns.
Latest == CHOOSE e \in events : \A f \in events : f.at <= e.at

LatestType == IF events = {} THEN "NONE" ELSE Latest.type

\* The timesheet columns calculateTimesheet and applyScheduleExceptions give for
\* these events, the measured codes being what the minutes and the schedule add.
CalculatedSheet(rows, measured) ==
  [state |-> DayState(TypesInOrder(rows), measured),
   codes |-> DayCodes(TypesInOrder(rows), measured),
   basis |-> rows]

\* An update of the state and the codes of a row; the columns calculated from the
\* events stay.
Edited(row, state, codes) == [state |-> state, codes |-> codes, basis |-> row.basis]

HasClockIn(row) == \E e \in row.basis : e.type = "CLOCK_IN"

\* The work date changes at local midnight.
Midnight ==
  /\ today < MaxDay
  /\ today' = today + 1
  /\ UNCHANGED <<tables, now>>
=============================================================================
