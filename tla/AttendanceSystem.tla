-------------------------- MODULE AttendanceSystem --------------------------
(***************************************************************************)
(* The attendance tables of one employee under everything that writes them *)
(* without an administrator's decision on a request: the clock actions,    *)
(* the cron job and the pay period that locks the days.  The three run on  *)
(* separate coordinators, or on none, so their steps interleave freely.    *)
(***************************************************************************)
EXTENDS ClockActions, AttendanceCron, PayPeriodLock, TLC

vars == <<events, record, sheet, today, now, handler, flagging, period, transition>>

Init == TablesInit /\ ClockInit /\ CronInit /\ PeriodInit

Next ==
  \/ ClockNext /\ UNCHANGED <<flagging, period, transition>>
  \/ CronNext /\ UNCHANGED <<handler, period, transition>>
  \/ PeriodNext /\ UNCHANGED <<handler, flagging>>
  \/ Midnight /\ UNCHANGED <<handler, flagging, period, transition>>

Spec == Init /\ [][Next]_vars

\* The cron trigger fires for ever: a shift that stays open becomes overdue and
\* some run's query finds it, and not every run is cut off before its update.
FairSpec ==
  /\ Spec
  /\ \A d \in Day :
       /\ SF_vars((\E overdue \in SUBSET Day : d \in overdue /\ FindOverdue(overdue))
                    /\ UNCHANGED <<handler, period, transition>>)
       /\ SF_vars(FlagMissedClockOut(d) /\ UNCHANGED <<handler, period, transition>>)

-----------------------------------------------------------------------------
(* Invariants.                                                             *)

\* Every variable has the type its component declares.
TypeOK == TablesTypeOK /\ ClockTypeOK /\ CronTypeOK /\ PeriodTypeOK

\* A clock request that is sent again with its idempotency key, even while the
\* first one is still in flight, never records a second event.
OneEventPerKey == \A e, f \in events : e.key = f.key => e = f

\* No update is lost: the timesheet of a day is calculated from every event of
\* that day, whatever the cron job, a GPS rejection or the payroll did to it.
NoEventLost == \A d \in Day : sheet[d].basis = DayEvents(d)

\* A day that payroll will pay carries no exception: no writer leaves COMPLETE
\* or APPROVED beside an exception code, however stale what it read.
PayableDaysAreClean ==
  \A d \in Day : sheet[d].state \in {"COMPLETE", "APPROVED"} => sheet[d].codes = {}

\* A day that payroll will pay has no shift still running: the last event of
\* such a day is a clock-out.
PayableDaysAreClosed ==
  \A d \in Day : sheet[d].state \in {"COMPLETE", "APPROVED"} =>
    \E e \in DayEvents(d) : e.type = "CLOCK_OUT" /\ \A f \in DayEvents(d) : f.at <= e.at

\* The AttendanceRecord that /api/v1 reads agrees with the events: its status is
\* that of the latest clock-in or clock-out of its day.
RecordFollowsEvents ==
  \A d \in Day :
    LET clock == {e \in DayEvents(d) : e.type \in {"CLOCK_IN", "CLOCK_OUT"}}
    IN IF clock = {} THEN record[d] = "NONE"
       ELSE \E e \in clock : /\ \A f \in clock : f.at <= e.at
                             /\ record[d] = IF e.type = "CLOCK_IN" THEN "CLOCKED_IN"
                                                                  ELSE "CLOCKED_OUT"

\* The tables of a day tell one story: every row is of its type, what payroll will pay is
\* closed, and /api/v1 reads what the events say.
TablesAgree == TypeOK /\ PayableDaysAreClosed /\ RecordFollowsEvents

-----------------------------------------------------------------------------
(* The clock actions implement the log of shifts.                          *)

Shifts == INSTANCE ShiftLog WITH log <- events

\* The AttendanceEvent table grows as ShiftLog promises, whatever the cron job
\* and the payroll do meanwhile.
EventsAreShifts == Shifts!Spec

-----------------------------------------------------------------------------
(* Liveness.                                                               *)

\* A forgotten clock-out does not stay unnoticed: every day left OPEN leaves
\* that state, by its clock-out, by the cron job or by the lock.
OpenDaysEnd == \A d \in Day : (d \in OpenDays) ~> (sheet[d].state # "OPEN")

-----------------------------------------------------------------------------
(* What the documentation and the code say of the same tables.  The code   *)
(* does not keep these.                                                    *)

\* docs/architecture.md: "Locked timesheets are not edited"; here, not by a
\* rejected clock request that found the timesheet locked.
RejectionsSpareLockedTimesheets ==
  [][\A h \in Handler : handler[h].pc = "gps" /\ handler[h].seen = "LOCKED"
       => sheet'[handler[h].day] = sheet[handler[h].day]]_sheet

\* applyAttendanceActionOnD1: "This timesheet is locked and cannot accept new events".
LockedTimesheetsAcceptNoEvents ==
  [][\A e \in events' \ events : sheet[e.day].state # "LOCKED"]_events

\* docs/architecture.md: "Locking is rejected while exceptions ... remain".
LockingIsRejectedWhileUnresolved ==
  [][\A d \in Day : sheet'[d].state = "LOCKED" => sheet[d].state \notin {"OPEN", "EXCEPTION"}]_sheet

\* detectAttendanceExceptions tells the employee "Your attendance for ... is
\* missing a clock-out" when it flags a day: the day is one without it.
FlaggedDaysMissAClockOut ==
  [][\A d \in Day : "MISSED_CLOCK_OUT" \in sheet'[d].codes \ sheet[d].codes
                      => sheet[d].state = "OPEN"]_sheet

-----------------------------------------------------------------------------
\* For TLC: keys and handlers are interchangeable, nothing compares them but by equality.
Symmetry == Permutations(Key) \cup Permutations(Handler)
=============================================================================
