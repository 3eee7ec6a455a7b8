--------------------------- MODULE AttendanceCron ---------------------------
(***************************************************************************)
(* detectAttendanceExceptions, which the Worker's cron trigger runs every  *)
(* five minutes.  It goes through no write coordinator: it may read and    *)
(* write between any two steps of a request.  It reads the OPEN days in    *)
(* one query and then updates them one by one, from what that query saw.   *)
(***************************************************************************)
EXTENDS AttendanceTables

VARIABLE
  flagging  \* the rows of the query still to be updated: a set of [day, codes]

CronInit == flagging = {}

CronTypeOK == flagging \subseteq [day : Day, codes : SUBSET ExceptionCode]

\* where: { state: OPEN, firstClockInAt: { not: null } }
OpenDays == {d \in Day : sheet[d].state = "OPEN" /\ HasClockIn(sheet[d])}

\* Yesterday was a working day and has no timesheet: the employee was absent.
\* The insert of a day that got a row meanwhile fails and changes nothing.
MarkAbsent ==
  /\ today > 1
  /\ sheet[today - 1].state = "NONE"
  /\ sheet' = [sheet EXCEPT ![today - 1] =
       [state |-> "EXCEPTION", codes |-> {"ABSENT"}, basis |-> {}]]
  /\ UNCHANGED <<events, record, today, now, flagging>>

\* The query; overdue are the days whose first clock-in is longer ago than the
\* policy's missedClockOutMinutes (one hour to two days).
FindOverdue(overdue) ==
  /\ flagging = {}
  /\ overdue # {} /\ overdue \subseteq OpenDays
  /\ flagging' = {[day |-> d, codes |-> sheet[d].codes] : d \in overdue}
  /\ UNCHANGED <<tables, today, now>>

\* Mutant: the update adds the code and forgets the state.
FlagMissedClockOut_MutantCodeOnly(d) ==
  /\ \E r \in flagging :
       /\ r.day = d
       /\ sheet' = [sheet EXCEPT ![d] = Edited(@, @.state, r.codes \cup {"MISSED_CLOCK_OUT"})]
       /\ flagging' = flagging \ {r}
  /\ UNCHANGED <<events, record, today, now>>

\* The update of one of its days, by row id.
FlagMissedClockOut(d) ==
  /\ \E r \in flagging :
       /\ r.day = d
       /\ sheet' = [sheet EXCEPT ![d] =
            Edited(@, "EXCEPTION", r.codes \cup {"MISSED_CLOCK_OUT"})]
       /\ flagging' = flagging \ {r}
  /\ UNCHANGED <<events, record, today, now>>

\* The invocation ends before it has updated every day.
CronStops ==
  /\ flagging # {}
  /\ flagging' = {}
  /\ UNCHANGED <<tables, today, now>>

CronNext ==
  \/ MarkAbsent
  \/ \E overdue \in SUBSET Day : FindOverdue(overdue)
  \/ \E d \in Day : FlagMissedClockOut(d)
  \/ CronStops
=============================================================================
