------------------------- MODULE AttendanceRequests -------------------------
(***************************************************************************)
(* One work date of one employee, written by everything that decides about *)
(* it outside the plain clock actions: correction requests, GPS clock      *)
(* exceptions, their reviews on D1, the legacy /api/v1 clock and the pay   *)
(* period that locks the day; with the v2 clock actions as the source of   *)
(* events in between.                                                      *)
(*                                                                         *)
(* The v2 clock actions go to the coordinator attendance:<sub>, all the    *)
(* other requests to the coordinator "global".  CoordinatorSerializes is   *)
(* the claim that each of the two handles one request at a time; the two   *)
(* never wait for each other.  A refused request is a stuttering step.     *)
(***************************************************************************)
EXTENDS AttendanceRules

CONSTANTS
  Correction,             \* AttendanceCorrection ids
  Flight,                 \* the requests that can be in flight
  MaxTime,                \* bound: the server time, counted in events and requests
  CoordinatorSerializes,
  EmployeesEdit,          \* employees ask for corrections of the times of the day
  LegacyClients,          \* clients of the /api/v1 clock exist
  RequestsStop            \* a Worker may stop in the middle of a request

ASSUME RequestsAssumption ==
  /\ MaxTime \in Nat \ {0}
  /\ {CoordinatorSerializes, EmployeesEdit, LegacyClients, RequestsStop} \subseteq BOOLEAN
  /\ Correction \cap {"v1", "v2"} = {}

VARIABLES
  events,       \* AttendanceEvent rows of the day
  record,       \* its AttendanceRecord
  sheet,        \* its TimesheetDay
  corrections,  \* AttendanceCorrection rows
  adjustments,  \* the corrections that have a PayrollAdjustment row
  period,       \* status of the pay period over the day
  flight,       \* per request in flight, what it read and what it does next
  now           \* server time

vars == <<events, record, sheet, corrections, adjustments, period, flight, now>>

Time == 0..MaxTime  \* 0 stands for NULL in a column

\* source is what the idempotency key is made of: the client's own key for a v2
\* action, v1-<record>-<type> for a legacy one, correction:<id> for a review.
Event == [type : EventType, at : 1..MaxTime, source : {"v1", "v2"} \cup Correction]

Record == [status : {"NONE", "CLOCKED_IN", "CLOCKED_OUT"}, out : Time]

\* The codes that only requests raise, beside those of AttendanceRules.
Code == ExceptionCode \cup {"GPS_CLOCK_REQUEST_PENDING", "CORRECTION_INCOMPLETE"}

\* closed: payPeriodId is set.
Sheet == [state : SheetState \cup {"NONE"}, codes : SUBSET Code,
          first : Time, last : Time, closed : BOOLEAN]

Columns == [state : SheetState, codes : SUBSET Code, first : Time, last : Time]

NoSheet == [state |-> "NONE", codes |-> {}, first |-> 0, last |-> 0, closed |-> FALSE]

\* requestedValues: the two times, and for a GPS exception the action and serverReceivedAt.
Request == [status : {"PENDING", "APPROVED", "REJECTED"},
            kind : {"EDIT", "CLOCK_IN", "CLOCK_OUT"}, first : Time, last : Time, at : Time]

NoRequest == [status |-> "NONE", kind |-> "EDIT", first |-> 0, last |-> 0, at |-> 0]

Idle == [pc |-> "idle"]

Flights ==
  [pc : {"clock"}, event : Event, found : BOOLEAN, row : Columns]
    \cup [pc : {"edit"}, first : Time, last : Time]
    \cup [pc : {"gps"}, request : Request, seen : Sheet]
    \cup [pc : {"review"}, correction : Correction, decision : {"APPROVED", "REJECTED"}, seen : Sheet]
    \cup [pc : {"v1 record", "v1 reread", "v1 event", "v1 events"},
          type : {"CLOCK_IN", "CLOCK_OUT"}, at : Time]
    \cup [pc : {"v1 sheet"}, rows : SUBSET Event]
    \cup [pc : {"lock"}]

TypeOK ==
  /\ events \subseteq Event
  /\ record \in Record
  /\ sheet \in Sheet
  /\ corrections \in [Correction -> Request \cup {NoRequest}]
  /\ adjustments \subseteq Correction
  /\ period \in {"OPEN", "LOCKED"}
  /\ flight \in [Flight -> {Idle} \cup Flights]
  /\ now \in Time

Init ==
  /\ events = {}
  /\ record = [status |-> "NONE", out |-> 0]
  /\ sheet = NoSheet
  /\ corrections = [c \in Correction |-> NoRequest]
  /\ adjustments = {}
  /\ period = "OPEN"
  /\ flight = [f \in Flight |-> Idle]
  /\ now = 0

-----------------------------------------------------------------------------
(* Requests in flight, and the columns calculateTimesheet gives.           *)

Coordinator(pc) == IF pc = "clock" THEN "attendance" ELSE "global"

\* The coordinator starts a request whose first step leads to pc.
Deliver(f, pc) ==
  /\ flight[f] = Idle
  /\ CoordinatorSerializes =>
       \A g \in Flight : flight[g] # Idle => Coordinator(flight[g].pc) # Coordinator(pc)

Continue(f, step) == flight' = [flight EXCEPT ![f] = step]

Finish(f) == Continue(f, Idle)

Tick == now < MaxTime /\ now' = now + 1

Pending == {c \in Correction : corrections[c].status = "PENDING"}

TimesOf(rows, type) == {e.at : e \in {r \in rows : r.type = type}}

Earliest(times) == IF times = {} THEN 0 ELSE CHOOSE t \in times : \A u \in times : t <= u

Latest(times) == IF times = {} THEN 0 ELSE CHOOSE t \in times : \A u \in times : u <= t

\* firstClockInAt is the first clock-in, lastClockOutAt the last clock-out.
Calculated(rows, measured) ==
  [state |-> DayState(TypesInOrder(rows), measured), codes |-> DayCodes(TypesInOrder(rows), measured),
   first |-> Earliest(TimesOf(rows, "CLOCK_IN")), last |-> Latest(TimesOf(rows, "CLOCK_OUT"))]

\* An upsert or update of those columns; payPeriodId is not among them.
Written(columns) ==
  [state |-> columns.state, codes |-> columns.codes, first |-> columns.first,
   last |-> columns.last, closed |-> sheet.closed]

LatestType == IF events = {} THEN "NONE" ELSE
  (CHOOSE e \in events : \A g \in events : g.at <= e.at).type

-----------------------------------------------------------------------------
(* The v2 clock actions, abridged: ClockActions has them in full.          *)

\* A pending GPS exception for the same action, if it is the newest request.
ExceptionPending(type) ==
  \E c \in Pending : /\ corrections[c].kind = type
                     /\ \A d \in Pending : corrections[d].at <= corrections[c].at

ClockRead(f, type) ==
  /\ Deliver(f, "clock")
  /\ ~ ExceptionPending(type)
  /\ transitionAllowed(LatestType, type)
  /\ sheet.state # "LOCKED"
  /\ Tick
  /\ LET event == [type |-> type, at |-> now + 1, source |-> "v2"]
     IN \E measured \in SUBSET MeasuredCodes :
          Continue(f, [pc |-> "clock", event |-> event, found |-> record.status # "NONE",
                       row |-> Calculated(events \cup {event}, measured)])
  /\ UNCHANGED <<events, record, sheet, corrections, adjustments, period>>

ClockCommit(f) ==
  /\ flight[f].pc = "clock"
  /\ LET e == flight[f].event
     IN /\ e.type = "CLOCK_IN" /\ ~ flight[f].found => record.status = "NONE"
        /\ events' = events \cup {e}
        /\ record' = CASE e.type = "CLOCK_IN" -> [status |-> "CLOCKED_IN", out |-> 0]
                       [] e.type = "CLOCK_OUT" /\ flight[f].found -> [status |-> "CLOCKED_OUT", out |-> e.at]
                       [] OTHER -> record
        /\ sheet' = Written(flight[f].row)
  /\ Finish(f)
  /\ UNCHANGED <<corrections, adjustments, period, now>>

-----------------------------------------------------------------------------
(* Requests of the employee.                                               *)

\* CORRECTION_PENDING otherwise.
NonePending == Pending = {}

\* createCorrectionV2 up to its create.  Which times the employee enters does not
\* matter below, only whether they are there.
EditRead(f) ==
  /\ EmployeesEdit
  /\ Deliver(f, "edit")
  /\ sheet # NoSheet
  /\ NonePending
  /\ \E first, last \in {0, 1} : Continue(f, [pc |-> "edit", first |-> first, last |-> last])
  /\ UNCHANGED <<events, record, sheet, corrections, adjustments, period, now>>

EditCreate(f, c) ==
  /\ flight[f].pc = "edit"
  /\ corrections[c] = NoRequest
  /\ Tick
  /\ corrections' = [corrections EXCEPT ![c] =
       [status |-> "PENDING", kind |-> "EDIT", first |-> flight[f].first,
        last |-> flight[f].last, at |-> now + 1]]
  /\ Finish(f)
  /\ UNCHANGED <<events, record, sheet, adjustments, period>>

\* createClockExceptionV2 up to its batch.
GpsRead(f, action) ==
  /\ Deliver(f, "gps")
  /\ sheet.state # "LOCKED"
  /\ NonePending
  /\ \/ action = "CLOCK_IN" /\ sheet.first = 0
     \/ action = "CLOCK_OUT" /\ sheet.first # 0 /\ sheet.last = 0
  /\ Tick
  /\ Continue(f, [pc |-> "gps", seen |-> sheet, request |->
       [status |-> "PENDING", kind |-> action, at |-> now + 1,
        first |-> IF action = "CLOCK_IN" THEN now + 1 ELSE sheet.first,
        last |-> IF action = "CLOCK_OUT" THEN now + 1 ELSE sheet.last]])
  /\ UNCHANGED <<events, record, sheet, corrections, adjustments, period>>

\* The batch: the timesheet is updated by id, or inserted under its unique index.
GpsCommit(f, c) ==
  /\ flight[f].pc = "gps"
  /\ corrections[c] = NoRequest
  /\ flight[f].seen = NoSheet => sheet = NoSheet
  /\ sheet' = [sheet EXCEPT !.state = "EXCEPTION",
                            !.codes = flight[f].seen.codes \cup {"GPS_CLOCK_REQUEST_PENDING"}]
  /\ corrections' = [corrections EXCEPT ![c] = flight[f].request]
  /\ Finish(f)
  /\ UNCHANGED <<events, record, adjustments, period, now>>

-----------------------------------------------------------------------------
(* Reviews.                                                                *)

RequestCodes == {"GPS_CLOCK_REQUEST_PENDING", "GPS_ACCURACY_REJECTED", "CORRECTION_INCOMPLETE"}

RemainingCodes(r, seen) ==
  (seen.codes \ RequestCodes)
    \cup {c \in {"CORRECTION_INCOMPLETE"} : r.kind = "EDIT" /\ (r.first = 0 \/ r.last = 0)}

CorrectedState(r, seen) ==
  CASE r.kind = "CLOCK_IN" /\ r.first # 0 /\ r.last = 0                          -> "OPEN"
    [] r.first # 0 /\ r.last # 0 /\ RemainingCodes(r, seen) = {}                -> "COMPLETE"
    [] OTHER                                                                     -> "EXCEPTION"

correctedTimesheet(r, seen) ==
  [state |-> CorrectedState(r, seen), codes |-> RemainingCodes(r, seen),
   first |-> r.first, last |-> r.last]

\* reviewCorrectionV2 up to reviewCorrectionOnD1: one query with the timesheet.
ReviewRead(f, c, decision) ==
  /\ Deliver(f, "review")
  /\ corrections[c].status = "PENDING"
  /\ decision = "APPROVED" =>
       /\ corrections[c].kind = "CLOCK_IN" => sheet.first = 0
       /\ corrections[c].kind = "CLOCK_OUT" => sheet.last = 0
  /\ Continue(f, [pc |-> "review", correction |-> c, decision |-> decision, seen |-> sheet])
  /\ UNCHANGED <<events, record, sheet, corrections, adjustments, period, now>>

\* The claim; how many rows it changed is never looked at.
Decided(c, decision) ==
  IF corrections[c].status = "PENDING" THEN [corrections EXCEPT ![c].status = decision] ELSE corrections

\* Mutant: an approval writes the times and records no event.
RecordGpsEvent_MutantTimesOnly(c) == UNCHANGED <<events, record>>

\* gpsAdjustmentOperations: the unique key correction:<id> refuses a second event.
RecordGpsEvent(c) ==
  LET r == corrections[c]
  IN IF r.kind = "EDIT" THEN UNCHANGED <<events, record>>
     ELSE /\ ~ \E e \in events : e.source = c
          /\ events' = events \cup {[type |-> r.kind, at |-> r.at, source |-> c]}
          /\ record' = IF r.kind = "CLOCK_IN" THEN [record EXCEPT !.status = "CLOCKED_IN"]
                       ELSE [status |-> "CLOCKED_OUT", out |-> r.at]

ApproveOpen(c, seen) ==
  /\ RecordGpsEvent(c)
  /\ sheet' = Written(correctedTimesheet(corrections[c], seen))
  /\ UNCHANGED adjustments

\* Mutant: the correction of a locked day is also written to the timesheet.
ApproveLocked_MutantAlsoEdited(c, seen) ==
  /\ adjustments' = adjustments \cup {c}
  /\ sheet' = Written(correctedTimesheet(corrections[c], seen))
  /\ UNCHANGED <<events, record>>

\* LOCKED_PERIOD_REQUIRED without a period; correctionId is unique.
ApproveLocked(c, seen) ==
  /\ seen.closed
  /\ c \notin adjustments
  /\ adjustments' = adjustments \cup {c}
  /\ UNCHANGED <<events, record, sheet>>

\* Mutant: the effects are applied whatever the decision.
Effects_MutantAlways(c, decision, seen) ==
  IF seen.state = "LOCKED" THEN ApproveLocked(c, seen) ELSE ApproveOpen(c, seen)

Effects(c, decision, seen) ==
  CASE decision = "REJECTED" -> UNCHANGED <<events, record, sheet, adjustments>>
    [] decision = "APPROVED" /\ seen.state = "LOCKED" -> ApproveLocked(c, seen)
    [] OTHER -> ApproveOpen(c, seen)

\* The batch of reviewCorrectionOnD1.
ReviewCommit(f) ==
  /\ flight[f].pc = "review"
  /\ corrections' = Decided(flight[f].correction, flight[f].decision)
  /\ Effects(flight[f].correction, flight[f].decision, flight[f].seen)
  /\ Finish(f)
  /\ UNCHANGED <<period, now>>

-----------------------------------------------------------------------------
(* The /api/v1 clock: a Prisma transaction, which D1 runs statement by     *)
(* statement.                                                              *)

LegacyRead(f, type) ==
  /\ LegacyClients
  /\ Deliver(f, "v1 record")
  /\ IF type = "CLOCK_IN" THEN record.status = "NONE" ELSE record.status # "NONE" /\ record.out = 0
  /\ Continue(f, [pc |-> "v1 record", type |-> type, at |-> 0])
  /\ UNCHANGED <<events, record, sheet, corrections, adjustments, period, now>>

\* create, under the unique index, or updateMany where clockOutAt is null.
LegacyRecord(f) ==
  /\ flight[f].pc = "v1 record"
  /\ Tick
  /\ IF flight[f].type = "CLOCK_IN"
     THEN /\ record.status = "NONE"
          /\ record' = [status |-> "CLOCKED_IN", out |-> 0]
          /\ Continue(f, [pc |-> "v1 event", type |-> "CLOCK_IN", at |-> now + 1])
     ELSE /\ record.out = 0
          /\ record' = [status |-> "CLOCKED_OUT", out |-> now + 1]
          /\ Continue(f, [pc |-> "v1 reread", type |-> "CLOCK_OUT", at |-> 0])
  /\ UNCHANGED <<events, sheet, corrections, adjustments, period>>

\* findUniqueOrThrow, whose clockOutAt is the time of the event.
LegacyReread(f) ==
  /\ flight[f].pc = "v1 reread"
  /\ IF record.out = 0 THEN Finish(f)
     ELSE Continue(f, [pc |-> "v1 event", type |-> "CLOCK_OUT", at |-> record.out])
  /\ UNCHANGED <<events, record, sheet, corrections, adjustments, period, now>>

\* The upsert under the key v1-<record>-<type>: an event that is there stays.
LegacyEvent(f) ==
  /\ flight[f].pc = "v1 event"
  /\ events' = IF \E e \in events : e.source = "v1" /\ e.type = flight[f].type THEN events
               ELSE events \cup {[type |-> flight[f].type, at |-> flight[f].at, source |-> "v1"]}
  /\ Continue(f, [flight[f] EXCEPT !.pc = "v1 events"])
  /\ UNCHANGED <<record, sheet, corrections, adjustments, period, now>>

LegacyEvents(f) ==
  /\ flight[f].pc = "v1 events"
  /\ Continue(f, [pc |-> "v1 sheet", rows |-> events])
  /\ UNCHANGED <<events, record, sheet, corrections, adjustments, period, now>>

\* The upsert of calculateTimesheet alone, without the schedule and without a look
\* at the state of the row.
LegacySheet(f) ==
  /\ flight[f].pc = "v1 sheet"
  /\ \E measured \in SUBSET (MeasuredCodes \cap {"EXCESSIVE_HOURS"}) :
       sheet' = Written(Calculated(flight[f].rows, measured))
  /\ Finish(f)
  /\ UNCHANGED <<events, record, corrections, adjustments, period, now>>

-----------------------------------------------------------------------------
(* The pay period over the day.                                            *)

\* Mutant: pending corrections are not counted.
NothingUnresolved_MutantRequestsIgnored == sheet.state \notin {"OPEN", "EXCEPTION"}

NothingUnresolved == sheet.state \notin {"OPEN", "EXCEPTION"} /\ Pending = {}

\* The LOCK action of transitionPayPeriodV2: the counts, then the updates.
LockChecks(f) ==
  /\ period = "OPEN"
  /\ Deliver(f, "lock")
  /\ NothingUnresolved
  /\ Continue(f, [pc |-> "lock"])
  /\ UNCHANGED <<events, record, sheet, corrections, adjustments, period, now>>

\* The two updates; that they are two steps is the subject of PayPeriodLock.
Lock(f) ==
  /\ flight[f].pc = "lock"
  /\ period' = "LOCKED"
  /\ sheet' = IF sheet = NoSheet THEN sheet ELSE [sheet EXCEPT !.state = "LOCKED", !.closed = TRUE]
  /\ Finish(f)
  /\ UNCHANGED <<events, record, corrections, adjustments, now>>

-----------------------------------------------------------------------------

\* The request ends where it is: its batch is refused, or the Worker stops.
Stop(f) ==
  /\ flight[f] # Idle
  /\ RequestsStop \/ flight[f].pc \in {"clock", "edit", "gps", "review", "lock", "v1 record"}
  /\ Finish(f)
  /\ UNCHANGED <<events, record, sheet, corrections, adjustments, period, now>>

Next ==
  \E f \in Flight :
    \/ \E type \in EventType : ClockRead(f, type)
    \/ ClockCommit(f)
    \/ EditRead(f)
    \/ \E c \in Correction : EditCreate(f, c) \/ GpsCommit(f, c)
    \/ \E action \in {"CLOCK_IN", "CLOCK_OUT"} : GpsRead(f, action)
    \/ \E c \in Correction, decision \in {"APPROVED", "REJECTED"} : ReviewRead(f, c, decision)
    \/ ReviewCommit(f)
    \/ \E type \in {"CLOCK_IN", "CLOCK_OUT"} : LegacyRead(f, type)
    \/ LegacyRecord(f) \/ LegacyReread(f) \/ LegacyEvent(f) \/ LegacyEvents(f) \/ LegacySheet(f)
    \/ LockChecks(f) \/ Lock(f)
    \/ Stop(f)

Spec == Init /\ [][Next]_vars

-----------------------------------------------------------------------------
(* What reviews, requests and the lock promise.                            *)

GpsKinds == {"CLOCK_IN", "CLOCK_OUT"}

\* A decision has the effects it says and no others: only an approved correction
\* has a payroll adjustment or an event, never both, and an approved GPS clock
\* request has one of them.
EffectsMatchDecisions ==
  \A c \in Correction :
    LET inPayroll == c \in adjustments
        inLog     == \E e \in events : e.source = c
    IN /\ inPayroll \/ inLog => corrections[c].status = "APPROVED"
       /\ ~ (inPayroll /\ inLog)
       /\ corrections[c].status = "APPROVED" /\ corrections[c].kind \in GpsKinds => inPayroll \/ inLog

\* createCorrectionV2 and createClockExceptionV2 keep each other out: a day never
\* has two pending corrections.
AtMostOnePending == \A c, d \in Pending : c = d

\* A review leaves a timesheet alone that is LOCKED when its batch runs, although it read the
\* state of the row before.
ReviewsSpareLockedDays ==
  [][\A f \in Flight : flight[f].pc = "review" /\ flight'[f] = Idle /\ sheet.state = "LOCKED"
       => sheet' = sheet]_vars

\* A day is locked with every GPS clock request about it decided: none can be
\* added or left pending under the lock.
LockedDaysAreDecided ==
  sheet.state = "LOCKED" => \A c \in Pending : corrections[c].kind = "EDIT"

\* A day that payroll will pay carries no exception code, whoever wrote it last:
\* a clock action, a GPS request, a review or the legacy clock.
CorrectedDaysAreClean == sheet.state \in {"COMPLETE", "APPROVED"} => sheet.codes = {}

\* Whatever employees, reviewers and the legacy clock do to a day before it is locked, it is
\* locked with its GPS requests decided and is never asked about twice at a time; and a day
\* that payroll will pay carries no exception code, whoever wrote it last.
DaysAreSettled == TypeOK /\ LockedDaysAreDecided /\ AtMostOnePending /\ CorrectedDaysAreClean

\* Once an administrator has approved a GPS clock request, the timesheet keeps
\* counting it: later clock actions recalculate the day from an event.
ApprovedTimesAreKept ==
  \A c \in Correction :
    corrections[c].status = "APPROVED" /\ c \notin adjustments =>
      /\ corrections[c].kind = "CLOCK_IN"  => sheet.first # 0 /\ sheet.first <= corrections[c].at
      /\ corrections[c].kind = "CLOCK_OUT" => sheet.last >= corrections[c].at

-----------------------------------------------------------------------------
(* What the documentation and the messages of the code say, and the code   *)
(* does not keep.                                                          *)

\* docs/api-v2.md: "Legacy clock actions atomically dual-write attendance events
\* and timesheets": with no request running, the clock-out of the record is an event.
RecordedClockOutsAreEvents ==
  (\A f \in Flight : flight[f] = Idle) /\ record.out # 0 =>
    \E e \in events : e.type = "CLOCK_OUT" /\ e.at = record.out

\* docs/architecture.md: "Locked timesheets are not edited"; here, by the v1 clock.
LegacyClockSparesLockedDays ==
  [][\A f \in Flight : flight[f].pc = "v1 sheet" /\ sheet.state = "LOCKED" => sheet' = sheet]_vars

\* CORRECTION_STALE, "Attendance has changed since this request was submitted": an
\* approval inserts no event among events that came after its request.
ApprovalsAppend ==
  [][\A e \in events' \ events : e.source \in Correction => \A g \in events : g.at < e.at]_events
=============================================================================
