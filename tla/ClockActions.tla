---------------------------- MODULE ClockActions ----------------------------
(***************************************************************************)
(* The v2 clock actions of one employee on Cloudflare D1: performAction    *)
(* reads everything it needs in one preflight query, decides, and writes   *)
(* one D1 batch.  Nothing holds the tables between the two, so they are    *)
(* two steps, and the batch is prepared from what the preflight saw.       *)
(*                                                                         *)
(* The requests of an employee go to the Durable Object attendance:<sub>.  *)
(* CoordinatorSerializes is the claim made of that object in the           *)
(* documentation, that it handles one request at a time; when it is FALSE  *)
(* the object starts a request while another one waits for the database.   *)
(*                                                                         *)
(* A request that is refused, or replayed because its idempotency key has  *)
(* an event already, changes nothing: it is a stuttering step.             *)
(***************************************************************************)
EXTENDS AttendanceTables

CONSTANTS
  Handler,                \* the requests of the employee that can be in flight
  CoordinatorSerializes

ASSUME CoordinatorAssumption == CoordinatorSerializes \in BOOLEAN

VARIABLE handler

Idle == [pc |-> "idle"]

\* A clock action past its checks: the event row to insert, the status of the
\* AttendanceRecord the preflight found, and the timesheet row to write.
ClockBatch == [pc : {"clock"}, event : Event, found : RecordStatus, row : Sheet]

\* A GPS rejection past its read: the state and codes of the row it found, "NONE"
\* when the day had no row.
GpsBatch == [pc : {"gps"}, day : Day, seen : SheetState \cup {"NONE"},
             codes : SUBSET ExceptionCode]

ClockInit == handler = [h \in Handler |-> Idle]

ClockTypeOK == handler \in [Handler -> {Idle} \cup ClockBatch \cup GpsBatch]

\* The coordinator delivers a request to the handler h.
Deliver(h) ==
  /\ handler[h] = Idle
  /\ CoordinatorSerializes => \A g \in Handler : handler[g] = Idle

Finish(h) == handler' = [handler EXCEPT ![h] = Idle]

-----------------------------------------------------------------------------
(* A clock action.                                                         *)

\* Mutant: every action belongs to the day on which it arrives.
WorkDate_MutantToday(type) == today

\* CLOCK_IN opens a shift today; the other actions belong to the work date of
\* the latest event.
WorkDate(type) == IF type = "CLOCK_IN" THEN today ELSE Latest.day

\* loadD1AttendancePreflight and the checks of applyAttendanceActionOnD1.
Preflight(h, type, key) ==
  /\ Deliver(h)
  /\ now < MaxTime
  /\ ~ \E e \in events : e.key = key
  /\ transitionAllowed(LatestType, type)
  /\ LET day   == WorkDate(type)
         event == [type |-> type, day |-> day, key |-> key, at |-> now + 1]
     IN /\ sheet[day].state # "LOCKED"
        /\ \E measured \in SUBSET MeasuredCodes :
             handler' = [handler EXCEPT ![h] =
               [pc |-> "clock", event |-> event, found |-> record[day],
                row |-> CalculatedSheet(DayEvents(day) \cup {event}, measured)]]
  /\ now' = now + 1
  /\ UNCHANGED <<tables, today>>

\* Mutant: the unique index is missing.
KeyIsFree_MutantNoIndex(key) == TRUE

\* UNIQUE (employeeId, idempotencyKey) on AttendanceEvent.
KeyIsFree(key) == ~ \E e \in events : e.key = key

\* UNIQUE (employeeId, workDate) on AttendanceRecord, for the batch that inserts.
RecordIsFree(b) ==
  b.event.type = "CLOCK_IN" /\ b.found = "NONE" => record[b.event.day] = "NONE"

\* The AttendanceRecord statement of the batch, if it has one.
RecordAfter(b) ==
  CASE b.event.type = "CLOCK_IN"                         -> "CLOCKED_IN"
    [] b.event.type = "CLOCK_OUT" /\ b.found # "NONE"    -> "CLOCKED_OUT"
    [] OTHER                                             -> record[b.event.day]

\* Mutant: ON CONFLICT DO NOTHING.
SheetAfter_MutantInsertOnly(b) ==
  IF sheet[b.event.day].state = "NONE" THEN b.row ELSE sheet[b.event.day]

\* The TimesheetDay upsert overwrites the row, whatever it has become.
SheetAfter(b) == b.row

CommitClock(h) ==
  /\ handler[h].pc = "clock"
  /\ LET b == handler[h]
     IN /\ KeyIsFree(b.event.key)
        /\ RecordIsFree(b)
        /\ events' = events \cup {b.event}
        /\ record' = [record EXCEPT ![b.event.day] = RecordAfter(b)]
        /\ sheet' = [sheet EXCEPT ![b.event.day] = SheetAfter(b)]
  /\ Finish(h)
  /\ UNCHANGED <<today, now>>

-----------------------------------------------------------------------------
(* A clock action whose GPS accuracy the policy rejects.                   *)

\* Mutant: a rejection leaves the state of the day.
GpsState_MutantKept(state) == state

\* The state the rejected day gets, from the one it had ("NONE": no row).
GpsState(state) == IF state = "OPEN" THEN "OPEN" ELSE "EXCEPTION"

GpsRead(h) ==
  /\ Deliver(h)
  /\ handler' = [handler EXCEPT ![h] =
       [pc |-> "gps", day |-> today,
        seen |-> sheet[today].state, codes |-> sheet[today].codes]]
  /\ UNCHANGED <<tables, today, now>>

\* An insert meets UNIQUE (employeeId, workDate); an update goes by row id.
CommitGps(h) ==
  /\ handler[h].pc = "gps"
  /\ LET b == handler[h]
     IN /\ b.seen = "NONE" => sheet[b.day].state = "NONE"
        /\ sheet' = [sheet EXCEPT ![b.day] =
             Edited(@, GpsState(b.seen), b.codes \cup {"GPS_ACCURACY_REJECTED"})]
  /\ Finish(h)
  /\ UNCHANGED <<events, record, today, now>>

-----------------------------------------------------------------------------

\* The request ends without its batch: the Worker stops, or the batch breaks a
\* uniqueness constraint and D1 rolls all of it back.
Drop(h) ==
  /\ handler[h].pc # "idle"
  /\ Finish(h)
  /\ UNCHANGED <<tables, today, now>>

ClockNext ==
  \E h \in Handler :
    \/ \E type \in EventType, key \in Key : Preflight(h, type, key)
    \/ CommitClock(h)
    \/ GpsRead(h)
    \/ CommitGps(h)
    \/ Drop(h)
=============================================================================
