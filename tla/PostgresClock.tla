---------------------------- MODULE PostgresClock ----------------------------
(***************************************************************************)
(* The v2 clock actions of one employee on PostgreSQL, the branch of       *)
(* performAction that local development runs: an interactive transaction   *)
(* that holds an advisory lock of the employee from its first statement to *)
(* its end, at READ COMMITTED, next to the transaction of a GPS rejection, *)
(* which takes no lock, and that of a pay period transition, which is      *)
(* SERIALIZABLE and locks the period only.                                 *)
(*                                                                         *)
(* What a clock transaction reads of the events and of the record is       *)
(* written under the same lock, so only its test of the timesheet and its  *)
(* commit are apart.  All server processes are taken to share one clock.   *)
(***************************************************************************)
EXTENDS AttendanceTables

CONSTANTS
  Handler,    \* the requests of the employee that can be in flight
  NoHandler,
  PeriodEnd   \* the pay period covers the work dates 1..PeriodEnd

ASSUME PostgresAssumption == NoHandler \notin Handler /\ PeriodEnd \in Day

VARIABLES
  handler,
  lock,       \* who holds pg_advisory_xact_lock(employee)
  period,     \* PayPeriod.status
  transition  \* the transaction of a transition: its action and its snapshot

vars == <<events, record, sheet, today, now, handler, lock, period, transition>>

Idle == [pc |-> "idle"]

\* raced: a period was locked while the request was in its transaction.
Waiting == [pc : {"wait", "check"}, type : EventType, key : Key, raced : BOOLEAN]

Deciding == [pc : {"write"}, event : Event, raced : BOOLEAN]

Rejecting == [pc : {"gps"}, day : Day, seen : (SheetState \ {"LOCKED"}) \cup {"NONE"},
              codes : SUBSET ExceptionCode, raced : BOOLEAN]

PeriodStatus == {"DRAFT", "REVIEWED", "APPROVED", "LOCKED"}

TransitionAction == {"REVIEW", "APPROVE", "LOCK", "REOPEN"}

PeriodDays == 1..PeriodEnd

\* Every variable has its type, and the lock is held by the request that is past its first
\* statement and by no other.
TypeOK ==
  /\ TablesTypeOK
  /\ handler \in [Handler -> {Idle} \cup Waiting \cup Deciding \cup Rejecting]
  /\ \A h \in Handler : lock = h <=> handler[h].pc \in {"check", "write"}
  /\ lock \in Handler \cup {NoHandler}
  /\ period \in PeriodStatus
  /\ transition \in {Idle} \cup
       [pc : {"begun"}, action : TransitionAction, sheet : [Day -> Sheet \cup {NoSheet}]]

Init ==
  /\ TablesInit
  /\ handler = [h \in Handler |-> Idle]
  /\ lock = NoHandler
  /\ period = "DRAFT"
  /\ transition = Idle

-----------------------------------------------------------------------------
(* A clock action.                                                         *)

\* Bound: a request that finds no time left is not sent, or refused.
NoTimeLeft == now = MaxTime

Request(h, type, key) ==
  /\ handler[h] = Idle
  /\ ~NoTimeLeft
  /\ handler' = [handler EXCEPT ![h] = [pc |-> "wait", type |-> type, key |-> key, raced |-> FALSE]]
  /\ UNCHANGED <<tables, today, now, lock, period, transition>>

\* acquireDatabaseLock.
Acquire(h) ==
  /\ handler[h].pc = "wait"
  /\ lock = NoHandler
  /\ lock' = h
  /\ handler' = [handler EXCEPT ![h].pc = "check"]
  /\ UNCHANGED <<tables, today, now, period, transition>>

\* Mutant: a lock of the session, which an error does not release.
EndTransaction_MutantSessionLock(h) ==
  /\ handler' = [handler EXCEPT ![h] = Idle]
  /\ UNCHANGED lock

\* The advisory lock ends with its transaction, committed or not.
EndTransaction(h) ==
  /\ handler' = [handler EXCEPT ![h] = Idle]
  /\ lock' = IF lock = h THEN NoHandler ELSE lock

WorkDate(type) == IF type = "CLOCK_IN" THEN today ELSE Latest.day

\* The key has its event already, the action may not follow the latest one, or the
\* timesheet of its work date is locked.
Refused(h) ==
  \/ NoTimeLeft
  \/ \E e \in events : e.key = handler[h].key
  \/ ~transitionAllowed(LatestType, handler[h].type)
  \/ /\ transitionAllowed(LatestType, handler[h].type)
     /\ sheet[WorkDate(handler[h].type)].state = "LOCKED"

Refuse(h) ==
  /\ handler[h].pc = "check"
  /\ Refused(h)
  /\ EndTransaction(h)
  /\ UNCHANGED <<tables, today, now, period, transition>>

Check(h) ==
  /\ handler[h].pc = "check"
  /\ ~Refused(h)
  /\ now' = now + 1
  /\ handler' = [handler EXCEPT ![h] =
       [pc |-> "write", raced |-> @.raced,
        event |-> [type |-> @.type, day |-> WorkDate(@.type), key |-> @.key, at |-> now + 1]]]
  /\ UNCHANGED <<tables, today, lock, period, transition>>

\* The AttendanceRecord of the day, which a clock-out does not create.
RecordAfter(e) ==
  CASE e.type = "CLOCK_IN"                                -> "CLOCKED_IN"
    [] e.type = "CLOCK_OUT" /\ record[e.day] # "NONE"     -> "CLOCKED_OUT"
    [] OTHER                                              -> record[e.day]

\* Mutant: the events are read before the new one is created.
EventsOf_MutantBefore(e) == DayEvents(e.day)

\* The events of the day, the one that this transaction created among them.
EventsOf(e) == DayEvents(e.day) \cup {e}

\* The event, the record and the upsert of the timesheet, which take effect together.
Commit(h) ==
  /\ handler[h].pc = "write"
  /\ LET e == handler[h].event
     IN /\ events' = events \cup {e}
        /\ record' = [record EXCEPT ![e.day] = RecordAfter(e)]
        /\ \E measured \in SUBSET MeasuredCodes :
             sheet' = [sheet EXCEPT ![e.day] = CalculatedSheet(EventsOf(e), measured)]
  /\ EndTransaction(h)
  /\ UNCHANGED <<today, now, period, transition>>

\* The process or its connection is lost: PostgreSQL rolls back.
Drop(h) ==
  /\ handler[h] # Idle
  /\ EndTransaction(h)
  /\ UNCHANGED <<tables, today, now, period, transition>>

-----------------------------------------------------------------------------
(* recordGpsRejection.  A timesheet it finds locked is left alone.         *)

\* Mutant: a locked timesheet is rejected into like any other.
GpsRead_MutantLocked(h) ==
  /\ handler[h] = Idle
  /\ handler' = [handler EXCEPT ![h] =
       [pc |-> "gps", day |-> today, seen |-> sheet[today].state,
        codes |-> sheet[today].codes, raced |-> FALSE]]
  /\ UNCHANGED <<tables, today, now, lock, period, transition>>

GpsRead(h) ==
  /\ handler[h] = Idle
  /\ sheet[today].state # "LOCKED"
  /\ handler' = [handler EXCEPT ![h] =
       [pc |-> "gps", day |-> today, seen |-> sheet[today].state,
        codes |-> sheet[today].codes, raced |-> FALSE]]
  /\ UNCHANGED <<tables, today, now, lock, period, transition>>

\* A create meets UNIQUE (employeeId, workDate); an update goes by row id.
GpsCommit(h) ==
  /\ handler[h].pc = "gps"
  /\ LET b == handler[h]
     IN /\ b.seen = "NONE" => sheet[b.day].state = "NONE"
        /\ sheet' = [sheet EXCEPT ![b.day] =
             Edited(@, IF b.seen = "OPEN" THEN "OPEN" ELSE "EXCEPTION",
                    b.codes \cup {"GPS_ACCURACY_REJECTED"})]
  /\ EndTransaction(h)
  /\ UNCHANGED <<events, record, today, now, period, transition>>

-----------------------------------------------------------------------------
(* transitionPayPeriodV2.  It reads the snapshot of its first statement;   *)
(* transitions of one period wait for each other, and one whose snapshot   *)
(* is older than the period's last change fails.                           *)

validTransition(status, action) ==
  \/ action = "REVIEW" /\ status = "DRAFT"
  \/ action = "APPROVE" /\ status = "REVIEWED"
  \/ action = "LOCK" /\ status = "APPROVED"
  \/ action = "REOPEN" /\ status \in {"REVIEWED", "APPROVED"}

NothingUnresolved == \A d \in PeriodDays : sheet[d].state \notin {"OPEN", "EXCEPTION"}

Begin(action) ==
  /\ transition = Idle
  /\ validTransition(period, action)
  /\ action \in {"REVIEW", "LOCK"} => NothingUnresolved
  /\ transition' = [pc |-> "begun", action |-> action, sheet |-> sheet]
  /\ UNCHANGED <<tables, today, now, handler, lock, period>>

\* The states updateMany looks for, and what it writes.
From == [REVIEW |-> {}, APPROVE |-> {"COMPLETE"}, LOCK |-> SheetState, REOPEN |-> {"APPROVED"}]

To == [APPROVE |-> "APPROVED", LOCK |-> "LOCKED", REOPEN |-> "COMPLETE"]

StatusAfter ==
  [REVIEW |-> "REVIEWED", APPROVE |-> "APPROVED", LOCK |-> "LOCKED", REOPEN |-> "DRAFT"]

Updated == {d \in PeriodDays : transition.sheet[d].state \in From[transition.action]}

\* PostgreSQL lets a serializable transaction update no row that changed after its
\* snapshot.
CommitTransition ==
  /\ transition # Idle
  /\ \A d \in Updated : sheet[d] = transition.sheet[d]
  /\ sheet' = [d \in Day |-> IF d \in Updated
                             THEN [sheet[d] EXCEPT !.state = To[transition.action]] ELSE sheet[d]]
  /\ period' = StatusAfter[transition.action]
  /\ transition' = Idle
  /\ handler' = [h \in Handler |->
       IF transition.action = "LOCK" /\ handler[h] # Idle
       THEN [handler[h] EXCEPT !.raced = TRUE] ELSE handler[h]]
  /\ UNCHANGED <<events, record, today, now, lock>>

\* It conflicts, an assertion about the calculation fails, or its process ends.
RollBack ==
  /\ transition # Idle
  /\ transition' = Idle
  /\ UNCHANGED <<tables, today, now, handler, lock, period>>

-----------------------------------------------------------------------------

ClockNext ==
  \E h \in Handler :
    \/ \E type \in EventType, key \in Key : Request(h, type, key)
    \/ Acquire(h) \/ Refuse(h) \/ Check(h) \/ Commit(h) \/ Drop(h)
    \/ GpsRead(h) \/ GpsCommit(h)

Next ==
  \/ ClockNext
  \/ \E action \in TransitionAction : Begin(action)
  \/ CommitTransition
  \/ RollBack
  \/ Midnight /\ UNCHANGED <<handler, lock, period, transition>>

Spec == Init /\ [][Next]_vars

\* PostgreSQL grants a lock in the order in which it was asked for, and a transaction
\* that holds it runs on.
FairSpec ==
  /\ Spec
  /\ \A h \in Handler :
       SF_vars(Acquire(h)) /\ WF_vars(Refuse(h) \/ Check(h) \/ Commit(h))

-----------------------------------------------------------------------------

\* The AttendanceEvent table is the log of shifts that ShiftLog promises: the lock makes
\* the latest event and the server time of concurrent requests agree.
Shifts == INSTANCE ShiftLog WITH log <- events

EventsAreShifts == Shifts!Spec

\* The timesheet of a day is calculated from every event of the day, whichever of the
\* transactions overwrites it.
NoEventLost == \A d \in Day : sheet[d].basis = DayEvents(d)

\* A locked timesheet changes only through a request that was in its transaction when the
\* period was locked: the tests for LOCKED stop every later one.
OnlyRacesChangeLocked ==
  [][\A d \in Day : sheet[d].state = "LOCKED" /\ sheet'[d] # sheet[d] =>
       \E h \in Handler : handler[h] # Idle /\ handler[h].raced /\ handler'[h] = Idle]_vars

\* performAction: "This timesheet is locked and cannot accept new events".  The code does
\* not keep this one.
LockedTimesheetsAcceptNoEvents ==
  [][\A e \in events' \ events : sheet[e.day].state # "LOCKED"]_vars

\* No request waits for the lock of the employee for ever.
EveryRequestIsAnswered == \A h \in Handler : handler[h].pc = "wait" ~> handler[h] = Idle
=============================================================================
