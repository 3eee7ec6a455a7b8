-------------------------- MODULE EffectiveDating --------------------------
(***************************************************************************)
(* The effective-dated rows of one employee: pay profiles and statutory    *)
(* profiles (payroll-foundation.controller.ts) and schedule assignments    *)
(* (workforce-v2.controller.ts).  A new row ends the one it follows.       *)
(*                                                                         *)
(* On D1 acquireDatabaseLock returns at once and an interactive            *)
(* transaction neither isolates nor rolls back: each statement commits by  *)
(* itself, and a request may stop after any of them.                       *)
(***************************************************************************)
EXTENDS FiniteSets, Integers

CONSTANTS
  Flight,                \* the requests that can be in flight
  MaxDate,               \* bound: the dates are 1..MaxDate
  CoordinatorSerializes, \* at most one request at a time
  MayStop                \* a request may stop between two statements

ASSUME EffectiveDatingAssumption ==
  MaxDate \in Nat \ {0} /\ CoordinatorSerializes \in BOOLEAN /\ MayStop \in BOOLEAN

VARIABLES
  rows,   \* per table, the rows of the employee
  flight

vars == <<rows, flight>>

\* createPayProfileV2 and createEmployeeStatutoryProfileV2 run the same statements on
\* two tables.
Profiles == {"PayProfile", "EmployeeStatutoryProfile"}

Table == Profiles \cup {"ScheduleAssignment"}

Date == 1..MaxDate

\* effectiveTo is null: later than every date.
OpenEnd == MaxDate + 1

Row == [from : Date, to : 0..OpenEnd]

NewRow(t) == {r \in Row : r.from <= r.to /\ (t \in Profiles => r.to = OpenEnd)}

Idle == [pc |-> "idle"]

Flights ==
  [pc : {"prior", "create"}, table : Table, row : Row]
    \cup [pc : {"truncate"}, table : Table, row : Row, prior : Date]

TypeOK ==
  /\ rows \in [Table -> SUBSET Row]
  /\ flight \in [Flight -> {Idle} \cup Flights]

Init ==
  /\ rows = [t \in Table |-> {}]
  /\ flight = [f \in Flight |-> Idle]

-----------------------------------------------------------------------------

Deliver(f) ==
  /\ flight[f] = Idle
  /\ CoordinatorSerializes => \A g \in Flight : flight[g] = Idle

Continue(f, step) == flight' = [flight EXCEPT ![f] = step]

Finish(f) == Continue(f, Idle)

\* A row keeps its id and its effectiveFrom, which is unique per employee.
Latest(S) == CHOOSE r \in S : \A q \in S : q.from <= r.from

\* Dates are calendar days: isoDate also accepts a 31st of February, which previousIsoDate
\* takes for a day of March.
\*
\* Mutant: the prior row is cut on the day the new one starts.
previousIsoDate_MutantSameDay(d) == d

previousIsoDate(d) == d - 1

CreateStep(t, row) == [pc |-> "create", table |-> t, row |-> row]

TruncateStep(t, row, prior) == [pc |-> "truncate", table |-> t, row |-> row, prior |-> prior]

\* Mutant: any date is accepted, and the latest row it overlaps is cut.
CreateProfile_MutantAnyDate(f, t) ==
  /\ Deliver(f)
  /\ \E row \in NewRow(t) :
       LET overlapped == {r \in rows[t] : r.to >= row.from}
       IN IF overlapped = {}
          THEN Continue(f, CreateStep(t, row))
          ELSE Continue(f, TruncateStep(t, row, Latest(overlapped).from))
  /\ UNCHANGED rows

\* PAY_PROFILE_DATE_CONFLICT or STATUTORY_PROFILE_DATE_CONFLICT otherwise; then the
\* latest row is truncated unless it ends before the new one starts.
CreateProfile(f, t) ==
  /\ Deliver(f)
  /\ \E row \in NewRow(t) :
       /\ \A r \in rows[t] : r.from < row.from
       /\ IF rows[t] = {} \/ Latest(rows[t]).to < row.from
          THEN Continue(f, CreateStep(t, row))
          ELSE Continue(f, TruncateStep(t, row, Latest(rows[t]).from))
  /\ UNCHANGED rows

\* createScheduleAssignmentV2 up to futureOverlap: SCHEDULE_ASSIGNMENT_OVERLAP otherwise.
CreateAssignment(f) ==
  /\ Deliver(f)
  /\ \E row \in NewRow("ScheduleAssignment") :
       /\ \A r \in rows["ScheduleAssignment"] : ~(row.from <= r.from /\ r.from <= row.to)
       /\ Continue(f, [pc |-> "prior", table |-> "ScheduleAssignment", row |-> row])
  /\ UNCHANGED rows

Covering(d) == {r \in rows["ScheduleAssignment"] : r.from < d /\ r.to >= d}

Prior(f) ==
  /\ flight[f].pc = "prior"
  /\ LET row == flight[f].row
         covering == Covering(row.from)
     IN IF covering = {}
        THEN Continue(f, CreateStep("ScheduleAssignment", row))
        ELSE Continue(f, TruncateStep("ScheduleAssignment", row, Latest(covering).from))
  /\ UNCHANGED rows

\* By its id, whatever its effectiveTo has become.
Truncate(f) ==
  /\ flight[f].pc = "truncate"
  /\ LET t == flight[f].table
         row == flight[f].row
     IN /\ rows' = [rows EXCEPT ![t] =
             {IF r.from = flight[f].prior THEN [r EXCEPT !.to = previousIsoDate(row.from)] ELSE r : r \in @}]
        /\ Continue(f, CreateStep(t, row))

\* P2002 when another row starts on that date: the truncation stays.
Create(f) ==
  /\ flight[f].pc = "create"
  /\ LET t == flight[f].table
         row == flight[f].row
     IN rows' = IF \E r \in rows[t] : r.from = row.from THEN rows ELSE [rows EXCEPT ![t] = @ \cup {row}]
  /\ Finish(f)

\* A statement fails, or the Worker stops.
Stop(f) ==
  /\ MayStop
  /\ flight[f] # Idle
  /\ Finish(f)
  /\ UNCHANGED rows

Next ==
  \E f \in Flight :
    \/ \E t \in Profiles : CreateProfile(f, t)
    \/ CreateAssignment(f)
    \/ Prior(f) \/ Truncate(f) \/ Create(f)
    \/ Stop(f)

Spec == Init /\ [][Next]_vars

-----------------------------------------------------------------------------
(* What the readers rely on: the clock, the cron job, the approval of a     *)
(* leave and the payroll run look for the row in force on a date.           *)

InForce(t, d) == {r \in rows[t] : r.from <= d /\ d <= r.to}

\* MULTIPLE_PAY_PROFILES_IN_PERIOD blocks a payroll with two rates, but nothing tells two
\* rates on one day apart: at most one row of a table is in force on a date.
OneInForce == \A t \in Table, d \in Date : Cardinality(InForce(t, d)) <= 1

\* The rate and the contribution category of a date before the latest profile starts are
\* history: creating a profile never changes them, so a payroll that is calculated again
\* finds what the first one found.
HistoryIsFixed ==
  [][\A t \in Profiles, d \in Date :
       (\E r \in rows[t] : r.from > d) => InForce(t, d)' = InForce(t, d)]_vars

\* "The effective date must be later than the employee's latest pay profile": a profile
\* follows on the latest one, so once every request is over each date from the first
\* profile on has one.  A date without one is left out of the salary without a warning.
NoGapBetweenProfiles ==
  (\A f \in Flight : flight[f] = Idle) =>
    \A t \in Profiles : \A r \in rows[t] : \A d \in r.from..MaxDate : InForce(t, d) # {}
=============================================================================
