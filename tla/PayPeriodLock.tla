---------------------------- MODULE PayPeriodLock ----------------------------
(***************************************************************************)
(* transitionPayPeriodV2 on the timesheets of the period, on D1.  Prisma's *)
(* interactive transaction does not roll back there and takes no lock, so  *)
(* every statement commits by itself.  The requests go to the coordinator  *)
(* "global", the clock actions to another one and the cron job to none.    *)
(* Assumed here, and not enforced by the code: one transition of the       *)
(* period at a time.                                                       *)
(*                                                                         *)
(* The calculation run that every action except REOPEN also asserts is not *)
(* among these tables: that assertion may fail here at any time, which     *)
(* leaves the tables as they are.                                          *)
(***************************************************************************)
EXTENDS AttendanceTables

CONSTANT PeriodEnd  \* the pay period covers the work dates 1..PeriodEnd

ASSUME PeriodAssumption == PeriodEnd \in Day

VARIABLES
  period,      \* PayPeriod.status
  transition   \* the action whose last statements are outstanding

PeriodStatus == {"DRAFT", "REVIEWED", "APPROVED", "LOCKED"}

\* "LOCK" has counted the unresolved timesheets, "LOCKED" has written them.
TransitionStep == {"idle", "REOPEN", "APPROVE", "LOCK", "LOCKED"}

PeriodInit == period = "DRAFT" /\ transition = "idle"

PeriodTypeOK == period \in PeriodStatus /\ transition \in TransitionStep

PeriodDays == 1..PeriodEnd

validTransition(status, action) ==
  \/ action = "REVIEW" /\ status = "DRAFT"
  \/ action = "APPROVE" /\ status = "REVIEWED"
  \/ action = "LOCK" /\ status = "APPROVED"
  \/ action = "REOPEN" /\ status \in {"REVIEWED", "APPROVED"}

\* The count of unresolvedTimesheets is zero.
NothingUnresolved == \A d \in PeriodDays : sheet[d].state \notin {"OPEN", "EXCEPTION"}

\* updateMany on the rows of the period that are in one of these states.
UpdateSheets(from, to) ==
  sheet' = [d \in Day |-> IF d \in PeriodDays /\ sheet[d].state \in from
                          THEN [sheet[d] EXCEPT !.state = to] ELSE sheet[d]]

Accepts(action) == transition = "idle" /\ validTransition(period, action)

Review ==
  /\ Accepts("REVIEW")
  /\ NothingUnresolved
  /\ period' = "REVIEWED"
  /\ UNCHANGED <<transition, tables, today, now>>

\* Mutant: APPROVE updates the days of the period whatever their state.
ApproveSheets_MutantEveryState ==
  /\ Accepts("APPROVE")
  /\ UpdateSheets(SheetState, "APPROVED")
  /\ transition' = "APPROVE"
  /\ UNCHANGED <<period, events, record, today, now>>

\* REOPEN and APPROVE: the timesheets first, the period in a later statement.
ReopenSheets ==
  /\ Accepts("REOPEN")
  /\ UpdateSheets({"APPROVED"}, "COMPLETE")
  /\ transition' = "REOPEN"
  /\ UNCHANGED <<period, events, record, today, now>>

ApproveSheets ==
  /\ Accepts("APPROVE")
  /\ UpdateSheets({"COMPLETE"}, "APPROVED")
  /\ transition' = "APPROVE"
  /\ UNCHANGED <<period, events, record, today, now>>

\* LOCK: the counts, then every timesheet of the period, then the period.
LockChecks ==
  /\ Accepts("LOCK")
  /\ NothingUnresolved
  /\ transition' = "LOCK"
  /\ UNCHANGED <<period, tables, today, now>>

LockSheets ==
  /\ transition = "LOCK"
  /\ UpdateSheets(SheetState, "LOCKED")
  /\ transition' = "LOCKED"
  /\ UNCHANGED <<period, events, record, today, now>>

\* The last statement, on the PayPeriod row.
UpdatePeriod ==
  /\ \/ transition = "REOPEN" /\ period' = "DRAFT"
     \/ transition = "APPROVE" /\ period' = "APPROVED"
     \/ transition = "LOCKED" /\ period' = "LOCKED"
  /\ transition' = "idle"
  /\ UNCHANGED <<tables, today, now>>

\* The handler ends between two statements; what it wrote stays.
TransitionStops ==
  /\ transition # "idle"
  /\ transition' = "idle"
  /\ UNCHANGED <<period, tables, today, now>>

PeriodNext ==
  \/ Review
  \/ ReopenSheets
  \/ ApproveSheets
  \/ LockChecks
  \/ LockSheets
  \/ UpdatePeriod
  \/ TransitionStops
=============================================================================
