--------------------------- MODULE PostgresProofs ---------------------------
(***************************************************************************)
(* Proofs about PostgresClock, for every set of keys and requests, any     *)
(* number of days and of requests, and any pay period: under the advisory  *)
(* lock the events are the log of shifts, no event is lost from a          *)
(* timesheet, and only a request that raced with the lock of the period    *)
(* changes a locked timesheet.                                             *)
(***************************************************************************)
EXTENDS PostgresClock, TLAPS

-----------------------------------------------------------------------------
(* Rows and events: as for D1 in AttendanceProofs, on the same tables.     *)

\* A calculated row is a timesheet; it is COMPLETE only without a code, and the
\* calculator never approves or locks a day.
LEMMA CalculatedRow ==
  ASSUME NEW rows \in SUBSET Event, NEW measured
  PROVE  LET row == CalculatedSheet(rows, measured)
         IN /\ row \in Sheet
            /\ row.state \in {"OPEN", "COMPLETE", "EXCEPTION"}
            /\ row.state \in {"COMPLETE", "APPROVED"} => row.codes = {}
            /\ row.basis = rows
<1> DEFINE types == TypesInOrder(rows)
           codes == DayCodes(types, measured)
           state == DayState(types, measured)
<1>1. codes \in SUBSET ExceptionCode
  BY DEF DayCodes
<1>2. state \in {"OPEN", "COMPLETE", "EXCEPTION"}
  BY DEF DayState
<1>3. state = "COMPLETE" => codes = {}
  BY DEF DayState
<1>4. CalculatedSheet(rows, measured) = [state |-> state, codes |-> codes, basis |-> rows]
  BY DEF CalculatedSheet
<1> HIDE DEF types, codes, state
<1>5. QED
  BY <1>1, <1>2, <1>3, <1>4 DEF Sheet, SheetState

\* Editing the state and the codes of a row, or of a day without one, gives a row.
LEMMA EditedRow ==
  ASSUME NEW row \in Sheet \cup {NoSheet}, NEW state \in SheetState,
         NEW codes \in SUBSET ExceptionCode
  PROVE  Edited(row, state, codes) \in Sheet
<1>1. row.basis \subseteq Event
  BY DEF Sheet, NoSheet
<1>2. QED
  BY <1>1 DEF Edited, Sheet

\* A non-empty set of events has one that no other is later than.
LatestExists == events # {} => \E e \in events : \A f \in events : f.at <= e.at

\* Latest is such an event.
LEMMA LatestIsLast ==
  ASSUME LatestExists, events # {}
  PROVE  Latest \in events /\ \A f \in events : f.at <= Latest.at
BY DEF LatestExists, Latest

\* Adding an event to the table keeps the types and the existence of a latest one.
LEMMA AddEvent ==
  ASSUME events \subseteq Event, LatestExists, NEW e \in Event, events' = events \cup {e}
  PROVE  events' \subseteq Event /\ LatestExists'
<1>1. events' \subseteq Event
  OBVIOUS
<1>2. \A f \in events' : f.at \in Nat
  BY <1>1, BoundsAssumption DEF Event
<1>3. CASE events = {}
  BY <1>2, <1>3 DEF LatestExists
<1>4. CASE events # {}
  <2>1. PICK l \in events : \A f \in events : f.at <= l.at
    BY <1>4 DEF LatestExists
  <2>2. CASE l.at <= e.at
    <3>1. \A f \in events' : f.at <= e.at
      BY <1>2, <2>1, <2>2
    <3>2. QED
      BY <1>1, <3>1 DEF LatestExists
  <2>3. CASE ~(l.at <= e.at)
    <3>1. \A f \in events' : f.at <= l.at
      BY <1>2, <2>1, <2>3
    <3>2. QED
      BY <1>1, <2>1, <3>1 DEF LatestExists
  <2>4. QED
    BY <2>2, <2>3
<1>5. QED
  BY <1>1, <1>3, <1>4

-----------------------------------------------------------------------------
(* Type correctness.                                                       *)

HandlerType == {Idle} \cup Waiting \cup Deciding \cup Rejecting

\* What the types say of the requests and the lock, and of the transitions.
RequestsTyped ==
  /\ handler \in [Handler -> HandlerType]
  /\ \A h \in Handler : lock = h <=> handler[h].pc \in {"check", "write"}
  /\ lock \in Handler \cup {NoHandler}

TransitionsTyped ==
  /\ period \in PeriodStatus
  /\ transition \in {Idle} \cup
       [pc : {"begun"}, action : TransitionAction, sheet : [Day -> Sheet \cup {NoSheet}]]

TypeInv == TablesTypeOK /\ LatestExists /\ RequestsTyped /\ TransitionsTyped

\* The kind of a request tells its fields.
LEMMA Kinds ==
  ASSUME TypeInv, NEW h \in Handler
  PROVE  /\ handler[h].pc \in {"wait", "check"} => handler[h] \in Waiting
         /\ handler[h].pc = "write" => handler[h] \in Deciding
         /\ handler[h].pc = "gps" => handler[h] \in Rejecting
BY DEF TypeInv, RequestsTyped, HandlerType, Waiting, Deciding, Rejecting, Idle

\* The initial tables are well typed.
LEMMA TypeInit == Init => TypeInv
BY BoundsAssumption, PostgresAssumption
   DEF Init, TablesInit, TypeInv, RequestsTyped, TransitionsTyped, HandlerType, TablesTypeOK, LatestExists, Day, RecordStatus, NoSheet,
       PeriodStatus, Idle

\* The work date of an allowed action is a day: only CLOCK_IN is allowed without events.
LEMMA WorkDateIsDay ==
  ASSUME TypeInv, NEW type \in EventType, transitionAllowed(LatestType, type)
  PROVE  /\ WorkDate(type) \in Day
         /\ type # "CLOCK_IN" => events # {}
<1>1. type # "CLOCK_IN" => events # {}
  BY DEF transitionAllowed, LatestType
<1>2. CASE type = "CLOCK_IN"
  BY <1>2 DEF WorkDate, TypeInv, TablesTypeOK
<1>3. CASE type # "CLOCK_IN"
  BY <1>1, <1>3, LatestIsLast DEF WorkDate, TypeInv, TablesTypeOK, Event
<1>4. QED
  BY <1>1, <1>2, <1>3

\* A transaction that ends leaves the requests and the lock in order.
LEMMA TypeEnd ==
  ASSUME RequestsTyped, NEW h \in Handler, EndTransaction(h)
  PROVE  RequestsTyped'
<1>1. handler' \in [Handler -> HandlerType]
  BY DEF RequestsTyped, EndTransaction, HandlerType
<1>2. lock' \in Handler \cup {NoHandler}
  BY DEF RequestsTyped, EndTransaction
<1>3. ASSUME NEW g \in Handler
      PROVE  lock' = g <=> handler'[g].pc \in {"check", "write"}
  BY PostgresAssumption DEF RequestsTyped, EndTransaction, Idle
<1>4. QED
  BY <1>1, <1>2, <1>3 DEF RequestsTyped

\* A request without the lock that takes a step without the lock.
LEMMA TypeUnlocked ==
  ASSUME RequestsTyped, NEW h \in Handler, NEW b \in HandlerType,
         handler[h].pc \notin {"check", "write"}, b.pc \notin {"check", "write"},
         handler' = [handler EXCEPT ![h] = b], UNCHANGED lock
  PROVE  RequestsTyped'
BY DEF RequestsTyped

\* A step of a request keeps the types.
LEMMA TypeClock ==
  ASSUME TypeInv, ClockNext
  PROVE  TypeInv'
<1>1. PICK h \in Handler :
        \/ \E type \in EventType, key \in Key : Request(h, type, key)
        \/ Acquire(h) \/ Refuse(h) \/ Check(h) \/ Commit(h) \/ Drop(h)
        \/ GpsRead(h) \/ GpsCommit(h)
  BY DEF ClockNext
<1>2. TablesTypeOK /\ LatestExists /\ RequestsTyped /\ TransitionsTyped
  BY DEF TypeInv
<1>3. UNCHANGED <<period, transition>>
  BY <1>1 DEF Request, Acquire, Refuse, Check, Commit, Drop, GpsRead, GpsCommit
<1>4. TransitionsTyped'
  BY <1>2, <1>3 DEF TransitionsTyped
<1>5. UNCHANGED <<tables, today, now>> => TablesTypeOK' /\ LatestExists'
  BY <1>2 DEF TablesTypeOK, LatestExists, tables
<1>6. ASSUME NEW type \in EventType, NEW key \in Key, Request(h, type, key)
      PROVE  TypeInv'
  <2> DEFINE b == [pc |-> "wait", type |-> type, key |-> key, raced |-> FALSE]
  <2>1. b \in HandlerType
    BY DEF HandlerType, Waiting
  <2>2. handler' = [handler EXCEPT ![h] = b] /\ UNCHANGED lock /\ handler[h] = Idle
    BY <1>6 DEF Request
  <2>3. RequestsTyped'
    <3>1. handler[h].pc \notin {"check", "write"} /\ b.pc \notin {"check", "write"}
      BY <2>2 DEF Idle
    <3> HIDE DEF b
    <3>2. QED
      BY <1>2, <2>1, <2>2, <3>1, TypeUnlocked
  <2>4. QED
    BY <1>4, <1>5, <1>6, <2>3 DEF TypeInv, Request
<1>7. CASE Acquire(h)
  <2>1. handler[h] \in Waiting
    BY <1>7, Kinds DEF Acquire
  <2>2. [handler[h] EXCEPT !.pc = "check"] \in Waiting
    BY <2>1 DEF Waiting
  <2>3. handler' \in [Handler -> HandlerType]
    BY <1>2, <1>7, <2>2 DEF Acquire, RequestsTyped, HandlerType
  <2>4. \A g \in Handler : lock' = g <=> handler'[g].pc \in {"check", "write"}
    BY <1>2, <1>7, <2>1, PostgresAssumption DEF Acquire, RequestsTyped, Waiting
  <2>5. RequestsTyped'
    BY <1>7, <2>3, <2>4 DEF Acquire, RequestsTyped
  <2>6. QED
    BY <1>4, <1>5, <1>7, <2>5 DEF TypeInv, Acquire
<1>8. CASE Refuse(h) \/ Drop(h)
  BY <1>2, <1>4, <1>5, <1>8, TypeEnd DEF TypeInv, Refuse, Drop
<1>9. CASE Check(h)
  <2> DEFINE type == handler[h].type
             e == [type |-> type, day |-> WorkDate(type), key |-> handler[h].key, at |-> now + 1]
             b == [pc |-> "write", raced |-> handler[h].raced, event |-> e]
  <2>1. handler[h] \in Waiting /\ handler[h].pc = "check"
    BY <1>9, Kinds DEF Check
  <2>2. type \in EventType /\ handler[h].key \in Key /\ handler[h].raced \in BOOLEAN
    BY <2>1 DEF Waiting
  <2>3. WorkDate(type) \in Day
    BY <1>9, <2>2, WorkDateIsDay DEF Check, Refused
  <2>4. now + 1 \in 1..MaxTime /\ now' \in 0..MaxTime
    BY <1>2, <1>9, BoundsAssumption DEF Check, Refused, NoTimeLeft, TablesTypeOK
  <2>5. e \in Event
    BY <2>2, <2>3, <2>4 DEF Event
  <2> HIDE DEF e
  <2>6. b \in HandlerType
    BY <2>2, <2>5 DEF HandlerType, Deciding
  <2>7. handler' = [handler EXCEPT ![h] = b] /\ UNCHANGED lock
    BY <1>9, <1>2 DEF Check, e, RequestsTyped
  <2>8. RequestsTyped'
    BY <1>2, <2>1, <2>6, <2>7 DEF RequestsTyped
  <2>9. UNCHANGED <<tables, today>>
    BY <1>9 DEF Check
  <2>10. TablesTypeOK' /\ LatestExists'
    BY <1>2, <2>4, <2>9 DEF TablesTypeOK, LatestExists, tables
  <2>11. QED
    BY <1>4, <2>8, <2>10 DEF TypeInv
<1>10. CASE Commit(h)
  <2> DEFINE e == handler[h].event
  <2>1. e \in Event /\ e.day \in Day
    BY <1>10, Kinds DEF Commit, Deciding, Event
  <2>2. events' = events \cup {e}
    BY <1>10 DEF Commit
  <2>3. EventsOf(e) \in SUBSET Event
    BY <1>2, <2>1 DEF EventsOf, DayEvents, TablesTypeOK
  <2>4. PICK measured \in SUBSET MeasuredCodes :
          sheet' = [sheet EXCEPT ![e.day] = CalculatedSheet(EventsOf(e), measured)]
    BY <1>10 DEF Commit
  <2>5. CalculatedSheet(EventsOf(e), measured) \in Sheet
    BY <2>3, CalculatedRow
  <2>6. record' = [record EXCEPT ![e.day] = RecordAfter(e)]
    BY <1>10 DEF Commit
  <2> HIDE DEF e
  <2>7. events' \subseteq Event /\ LatestExists'
    BY <1>2, <2>1, <2>2, AddEvent DEF TablesTypeOK
  <2>8. RecordAfter(e) \in RecordStatus
    BY <1>2, <2>1 DEF RecordAfter, RecordStatus, TablesTypeOK
  <2>9. record' \in [Day -> RecordStatus] /\ sheet' \in [Day -> Sheet \cup {NoSheet}]
    BY <1>2, <2>1, <2>4, <2>5, <2>6, <2>8 DEF TablesTypeOK
  <2>10. TablesTypeOK' /\ RequestsTyped'
    BY <1>2, <1>10, <2>7, <2>9, TypeEnd DEF Commit, TablesTypeOK
  <2>11. QED
    BY <1>4, <2>7, <2>10 DEF TypeInv
<1>11. CASE GpsRead(h)
  <2> DEFINE b == [pc |-> "gps", day |-> today, seen |-> sheet[today].state,
                   codes |-> sheet[today].codes, raced |-> FALSE]
  <2>1. today \in Day /\ sheet[today] \in Sheet \cup {NoSheet} /\ sheet[today].state # "LOCKED"
    BY <1>2, <1>11 DEF TablesTypeOK, GpsRead
  <2>2. b \in HandlerType
    BY <2>1 DEF HandlerType, Rejecting, Sheet, NoSheet
  <2>3. handler' = [handler EXCEPT ![h] = b] /\ UNCHANGED lock /\ handler[h] = Idle
    BY <1>11 DEF GpsRead
  <2>4. RequestsTyped'
    <3>1. handler[h].pc \notin {"check", "write"} /\ b.pc \notin {"check", "write"}
      BY <2>3 DEF Idle
    <3> HIDE DEF b
    <3>2. QED
      BY <1>2, <2>2, <2>3, <3>1, TypeUnlocked
  <2>5. QED
    BY <1>4, <1>5, <1>11, <2>4 DEF TypeInv, GpsRead
<1>12. CASE GpsCommit(h)
  <2> DEFINE b == handler[h]
             state == IF b.seen = "OPEN" THEN "OPEN" ELSE "EXCEPTION"
             row == Edited(sheet[b.day], state, b.codes \cup {"GPS_ACCURACY_REJECTED"})
  <2>1. b.day \in Day /\ b.codes \subseteq ExceptionCode
    BY <1>12, Kinds DEF GpsCommit, Rejecting
  <2>2. sheet[b.day] \in Sheet \cup {NoSheet} /\ state \in SheetState
    BY <1>2, <2>1 DEF TablesTypeOK, SheetState
  <2>3. b.codes \cup {"GPS_ACCURACY_REJECTED"} \in SUBSET ExceptionCode
    BY <2>1 DEF ExceptionCode
  <2>4. sheet' = [sheet EXCEPT ![b.day] = row]
    BY <1>2, <1>12, <2>1 DEF GpsCommit, TablesTypeOK
  <2> HIDE DEF b, state
  <2>5. row \in Sheet
    BY <2>2, <2>3, EditedRow
  <2> HIDE DEF row
  <2>6. sheet' \in [Day -> Sheet \cup {NoSheet}]
    BY <1>2, <2>1, <2>4, <2>5 DEF TablesTypeOK
  <2>7. TablesTypeOK' /\ LatestExists' /\ RequestsTyped'
    BY <1>2, <1>12, <2>6, TypeEnd DEF GpsCommit, TablesTypeOK, LatestExists
  <2>8. QED
    BY <1>4, <2>7 DEF TypeInv
<1>13. QED
  BY <1>1, <1>6, <1>7, <1>8, <1>9, <1>10, <1>11, <1>12

\* A transition of the pay period keeps the types.
LEMMA TypeTransition ==
  ASSUME TypeInv, CommitTransition
  PROVE  TypeInv'
<1>1. PICK a \in TransitionAction, s \in [Day -> Sheet \cup {NoSheet}] :
        transition = [pc |-> "begun", action |-> a, sheet |-> s]
  BY DEF TypeInv, TransitionsTyped, CommitTransition
<1>2. /\ sheet' = [d \in Day |-> IF d \in Updated THEN [sheet[d] EXCEPT !.state = To[a]] ELSE sheet[d]]
      /\ period' = StatusAfter[a]
      /\ transition' = Idle
      /\ UNCHANGED <<events, record, today, now, lock>>
  BY <1>1 DEF CommitTransition
<1>3. ASSUME NEW d \in Updated
      PROVE  [sheet[d] EXCEPT !.state = To[a]] \in Sheet \cup {NoSheet}
  <2>1. d \in Day /\ sheet[d] = s[d] /\ s[d].state \in From[a]
    BY <1>1, <1>3, PostgresAssumption, BoundsAssumption
       DEF Updated, CommitTransition, PeriodDays, Day
  <2>2. a # "REVIEW" /\ s[d].state \in SheetState
    BY <2>1 DEF From, TransitionAction, SheetState
  <2>3. s[d] \in Sheet
    BY <2>1, <2>2 DEF NoSheet, SheetState
  <2>4. To[a] \in SheetState
    BY <2>2 DEF To, TransitionAction, SheetState
  <2>5. QED
    BY <2>1, <2>3, <2>4 DEF Sheet
<1>4. sheet' \in [Day -> Sheet \cup {NoSheet}]
  BY <1>2, <1>3 DEF TypeInv, TablesTypeOK
<1>5. TransitionsTyped'
  BY <1>2 DEF TransitionsTyped, StatusAfter, TransitionAction, PeriodStatus
<1>6. ASSUME NEW h \in Handler
      PROVE  /\ handler'[h] \in HandlerType
             /\ handler'[h].pc = handler[h].pc
  <2>1. \/ handler'[h] = handler[h]
        \/ handler[h] # Idle /\ handler'[h] = [handler[h] EXCEPT !.raced = TRUE]
    BY DEF CommitTransition
  <2>2. handler[h] \in HandlerType
    BY DEF TypeInv, RequestsTyped
  <2>3. CASE handler'[h] = handler[h]
    BY <2>2, <2>3
  <2>4. CASE handler[h] # Idle /\ handler'[h] = [handler[h] EXCEPT !.raced = TRUE]
    BY <2>2, <2>4 DEF HandlerType, Waiting, Deciding, Rejecting
  <2>5. QED
    BY <2>1, <2>3, <2>4
<1>7. RequestsTyped'
  BY <1>2, <1>6 DEF TypeInv, RequestsTyped, CommitTransition
<1>8. QED
  BY <1>2, <1>4, <1>5, <1>7 DEF TypeInv, TablesTypeOK, LatestExists

\* No step leaves the types.
LEMMA TypeNext == TypeInv /\ [Next]_vars => TypeInv'
<1> SUFFICES ASSUME TypeInv, [Next]_vars PROVE TypeInv'
  OBVIOUS
<1>1. CASE ClockNext
  BY <1>1, TypeClock
<1>2. ASSUME NEW action \in TransitionAction, Begin(action)
      PROVE  TypeInv'
  <2>1. TransitionsTyped'
    BY <1>2 DEF Begin, TypeInv, TransitionsTyped, TablesTypeOK
  <2>2. QED
    BY <1>2, <2>1 DEF Begin, TypeInv, TablesTypeOK, LatestExists, RequestsTyped, tables
<1>3. CASE CommitTransition
  BY <1>3, TypeTransition
<1>4. CASE RollBack
  BY <1>4 DEF RollBack, TypeInv, TablesTypeOK, LatestExists, RequestsTyped, TransitionsTyped, tables
<1>5. CASE Midnight /\ UNCHANGED <<handler, lock, period, transition>>
  BY <1>5, BoundsAssumption DEF Midnight, TypeInv, TablesTypeOK, LatestExists, RequestsTyped,
     TransitionsTyped, tables, Day
<1>6. CASE UNCHANGED vars
  BY <1>6 DEF vars, TypeInv, TablesTypeOK, LatestExists, RequestsTyped, TransitionsTyped
<1>7. QED
  BY <1>1, <1>2, <1>3, <1>4, <1>5, <1>6 DEF Next

\* The types hold in every state.
LEMMA TypeInvariant == Spec => []TypeInv
BY TypeInit, TypeNext, PTL DEF Spec

\* Every variable keeps its type, and the advisory lock is held by the one request that is
\* past its first statement.
THEOREM TypeCorrect == Spec => []TypeOK
<1>1. TypeInv => TypeOK
  BY DEF TypeInv, RequestsTyped, TransitionsTyped, HandlerType, TypeOK
<1>2. QED
  BY <1>1, TypeInvariant, PTL

-----------------------------------------------------------------------------
(* Under the lock.                                                         *)

EventsArePast == \A e \in events : e.at <= now /\ e.day <= today

\* e continues the log: it is later than every event, has a key of its own and may follow
\* the latest one.
Continues(e) ==
  /\ \A f \in events : f.at < e.at /\ f.key # e.key
  /\ IF events = {}
     THEN e.type = "CLOCK_IN"
     ELSE \E l \in events : (\A f \in events : f.at <= l.at) /\ Shifts!Follows(e, l)

\* What the holder of the lock has decided is still right: nobody else adds an event.
Decided(e) == e.at <= now /\ e.day <= today /\ Continues(e)

LockInv ==
  /\ EventsArePast
  /\ NoEventLost
  /\ \A h \in Handler : handler[h].pc = "write" => Decided(handler[h].event)

\* It holds of the empty tables.
LEMMA LockInit == Init => LockInv
BY DEF Init, TablesInit, Idle, NoSheet, LockInv, EventsArePast, NoEventLost, DayEvents

\* A step that adds no event, lets no time pass and changes no basis keeps the invariant.
LEMMA LockQuiet ==
  ASSUME TypeInv, LockInv, UNCHANGED <<events, now>>, today' \in Day, today <= today',
         \A d \in Day : sheet'[d].basis = sheet[d].basis,
         \A h \in Handler : handler'[h].pc = "write" =>
           handler[h].pc = "write" /\ handler'[h].event = handler[h].event
  PROVE  LockInv'
<1>1. today \in Nat /\ today' \in Nat /\ \A e \in Event : e.day \in Nat
  BY DEF TypeInv, TablesTypeOK, Event, Day
<1>2. EventsArePast'
  BY <1>1 DEF LockInv, EventsArePast, TypeInv, TablesTypeOK
<1>3. NoEventLost'
  BY DEF LockInv, NoEventLost, DayEvents
<1>4. ASSUME NEW h \in Handler, handler'[h].pc = "write"
      PROVE  Decided(handler[h].event)'
  <2>1. /\ handler'[h].event = handler[h].event
        /\ handler[h].event \in Event
        /\ Decided(handler[h].event)
    BY <1>4, Kinds DEF LockInv, Deciding
  <2>2. PICK e \in Event : e = handler[h].event
    BY <2>1
  <2>3. e.at <= now' /\ e.day <= today' /\ Continues(e)'
    BY <1>1, <2>1, <2>2 DEF Decided, Continues, Shifts!Follows
  <2>4. handler'[h].event = e
    BY <2>1, <2>2
  <2>5. QED
    BY <2>3, <2>4 DEF Decided, Continues, Shifts!Follows
<1>5. QED
  BY <1>2, <1>3, <1>4 DEF LockInv

\* What passes the tests comes after every event and follows the latest one.
LEMMA CheckDecides ==
  ASSUME TypeInv, LockInv, NEW h \in Handler, Check(h)
  PROVE  /\ handler'[h].event.at = now + 1
         /\ handler'[h].event.day \in Day /\ handler'[h].event.day <= today
         /\ Continues(handler'[h].event)
<1> DEFINE type == handler[h].type
           e == [type |-> type, day |-> WorkDate(type), key |-> handler[h].key, at |-> now + 1]
<1>1. handler'[h].event = e
  BY DEF Check, TypeInv, RequestsTyped
<1>2. type \in EventType /\ transitionAllowed(LatestType, type)
      /\ \A f \in events : f.key # handler[h].key
  BY Kinds DEF Check, Refused, Waiting
<1>3. WorkDate(type) \in Day /\ (type # "CLOCK_IN" => events # {})
  BY <1>2, WorkDateIsDay
<1>4. /\ now \in Nat /\ today \in Nat
      /\ \A f \in events : f.at \in Nat /\ f.day \in Nat /\ f.type \in EventType
  BY BoundsAssumption DEF TypeInv, TablesTypeOK, Event, Day
<1>5. \A f \in events : f.at < e.at /\ f.key # e.key
  BY <1>2, <1>4 DEF LockInv, EventsArePast
<1>6. e.day <= today
  BY <1>3, <1>4, LatestIsLast DEF WorkDate, TypeInv, LockInv, EventsArePast
<1>7. ASSUME events # {}
      PROVE  \E l \in events : (\A f \in events : f.at <= l.at) /\ Shifts!Follows(e, l)
  <2>1. Latest \in events /\ \A f \in events : f.at <= Latest.at
    BY <1>7, LatestIsLast DEF TypeInv
  <2>2. transitionAllowed(Latest.type, type)
    BY <1>2, <1>7 DEF LatestType
  <2>3. Latest.type \in EventType /\ Latest.day <= today
    BY <1>4, <2>1 DEF LockInv, EventsArePast
  <2>4. Shifts!Needs(type) = Shifts!Phase(Latest.type)
    BY <2>2, <2>3 DEF transitionAllowed, EventType, Shifts!Needs, Shifts!Phase
  <2>5. IF type = "CLOCK_IN" THEN e.day >= Latest.day ELSE e.day = Latest.day
    BY <1>4, <2>1, <2>3 DEF WorkDate
  <2>6. Shifts!Follows(e, Latest)
    BY <2>4, <2>5 DEF Shifts!Follows
  <2>7. QED
    BY <2>1, <2>6
<1>8. Continues(e)
  BY <1>3, <1>5, <1>7 DEF Continues
<1> HIDE DEF e
<1>9. e.day \in Day /\ e.at = now + 1
  BY <1>3 DEF e
<1>10. QED
  BY <1>1, <1>6, <1>8, <1>9

\* Nobody but the holder of the lock is past the tests.
LEMMA OneHolder ==
  ASSUME TypeInv, NEW g \in Handler, NEW h \in Handler,
         handler[g].pc \in {"check", "write"}, handler[h].pc \in {"check", "write"}
  PROVE  g = h
BY DEF TypeInv, RequestsTyped

\* The tests leave the invariant.
LEMMA LockCheck ==
  ASSUME TypeInv, LockInv, NEW h \in Handler, Check(h)
  PROVE  LockInv'
<1>1. UNCHANGED <<events, sheet, today>> /\ now' = now + 1 /\ now \in Nat
  BY BoundsAssumption DEF Check, tables, TypeInv, TablesTypeOK
<1>2. EventsArePast' /\ NoEventLost'
  BY <1>1 DEF LockInv, EventsArePast, NoEventLost, DayEvents, TypeInv, TablesTypeOK, Event
<1>3. ASSUME NEW g \in Handler, handler'[g].pc = "write"
      PROVE  Decided(handler[g].event)'
  <2>1. g = h
    BY <1>3, OneHolder DEF Check, TypeInv, RequestsTyped
  <2>2. Continues(handler[h].event)'
    BY <1>1, CheckDecides DEF Continues, Shifts!Follows
  <2>3. handler'[h].event.at <= now' /\ handler'[h].event.day <= today'
    BY <1>1, CheckDecides
  <2>4. QED
    BY <2>1, <2>2, <2>3 DEF Decided, Continues, Shifts!Follows
<1>4. QED
  BY <1>2, <1>3 DEF LockInv

\* The commit adds the event to the timesheet it belongs to.
LEMMA LockCommit ==
  ASSUME TypeInv, LockInv, NEW h \in Handler, Commit(h)
  PROVE  LockInv'
<1> DEFINE e == handler[h].event
<1>1. e \in Event /\ e.day \in Day /\ Decided(e)
  BY Kinds DEF Commit, LockInv, Deciding, Event
<1>2. events' = events \cup {e} /\ UNCHANGED <<today, now>>
  BY DEF Commit
<1>3. PICK measured \in SUBSET MeasuredCodes :
        sheet' = [sheet EXCEPT ![e.day] = CalculatedSheet(EventsOf(e), measured)]
  BY DEF Commit
<1>4. CalculatedSheet(EventsOf(e), measured).basis = EventsOf(e)
  BY DEF CalculatedSheet
<1>5. ASSUME NEW g \in Handler PROVE handler'[g].pc # "write"
  BY OneHolder DEF Commit, EndTransaction, Idle, TypeInv, RequestsTyped
<1> HIDE DEF e
<1>6. EventsArePast'
  BY <1>1, <1>2 DEF LockInv, EventsArePast, Decided
<1>7. ASSUME NEW d \in Day
      PROVE  sheet'[d].basis = DayEvents(d)'
  <2>1. CASE d = e.day
    BY <1>1, <1>2, <1>3, <1>4, <2>1 DEF EventsOf, DayEvents, TypeInv, TablesTypeOK
  <2>2. CASE d # e.day
    <3>1. sheet'[d] = sheet[d]
      BY <1>3, <2>2 DEF TypeInv, TablesTypeOK
    <3>2. DayEvents(d)' = DayEvents(d)
      BY <1>2, <2>2 DEF DayEvents
    <3>3. QED
      BY <3>1, <3>2 DEF LockInv, NoEventLost
  <2>3. QED
    BY <2>1, <2>2
<1>8. QED
  BY <1>5, <1>6, <1>7 DEF LockInv, NoEventLost

\* A step of a request keeps the invariant.
LEMMA LockClock ==
  ASSUME TypeInv, LockInv, ClockNext
  PROVE  LockInv'
<1>1. PICK h \in Handler :
        \/ \E type \in EventType, key \in Key : Request(h, type, key)
        \/ Acquire(h) \/ Refuse(h) \/ Check(h) \/ Commit(h) \/ Drop(h)
        \/ GpsRead(h) \/ GpsCommit(h)
  BY DEF ClockNext
<1>2. today \in Day /\ today <= today
  BY DEF TypeInv, TablesTypeOK, Day
<1>3. CASE Check(h)
  BY <1>3, LockCheck
<1>4. CASE Commit(h)
  BY <1>4, LockCommit
<1>5. CASE GpsCommit(h)
  <2>1. \A d \in Day : sheet'[d].basis = sheet[d].basis
    BY <1>5 DEF GpsCommit, Edited, TypeInv, TablesTypeOK
  <2>2. \A g \in Handler : handler'[g].pc = "write" => handler'[g] = handler[g]
    BY <1>5 DEF GpsCommit, EndTransaction, Idle, TypeInv, RequestsTyped
  <2>3. UNCHANGED <<events, now, today>>
    BY <1>5 DEF GpsCommit
  <2>4. QED
    BY <1>2, <2>1, <2>2, <2>3, LockQuiet
<1>6. ASSUME NEW type \in EventType, NEW key \in Key, Request(h, type, key)
      PROVE  LockInv'
  <2>1. UNCHANGED <<events, now, today, sheet>>
    BY <1>6 DEF Request, tables
  <2>2. \A g \in Handler : handler'[g].pc = "write" => handler'[g] = handler[g]
    BY <1>6 DEF Request, TypeInv, RequestsTyped
  <2>3. QED
    BY <1>2, <2>1, <2>2, LockQuiet
<1>7. CASE Acquire(h) \/ Refuse(h) \/ Drop(h) \/ GpsRead(h)
  <2>1. UNCHANGED <<events, now, today, sheet>>
    BY <1>7 DEF Acquire, Refuse, Drop, GpsRead, tables
  <2>2. \A g \in Handler : handler'[g].pc = "write" => handler'[g] = handler[g]
    <3>1. CASE Acquire(h) \/ GpsRead(h)
      BY <3>1 DEF Acquire, GpsRead, TypeInv, RequestsTyped, HandlerType, Waiting, Deciding,
                  Rejecting, Idle
    <3>2. CASE Refuse(h) \/ Drop(h)
      BY <3>2 DEF Refuse, Drop, EndTransaction, Idle, TypeInv, RequestsTyped
    <3>3. QED
      BY <1>7, <3>1, <3>2
  <2>3. QED
    BY <1>2, <2>1, <2>2, LockQuiet
<1>8. QED
  BY <1>1, <1>3, <1>4, <1>5, <1>6, <1>7

\* No step leaves the invariant.
LEMMA LockNext == TypeInv /\ LockInv /\ [Next]_vars => LockInv'
<1> SUFFICES ASSUME TypeInv, LockInv, [Next]_vars PROVE LockInv'
  OBVIOUS
<1>1. today \in Day /\ today \in Nat
  BY DEF TypeInv, TablesTypeOK, Day
<1>2. CASE ClockNext
  BY <1>2, LockClock
<1>3. CASE CommitTransition
  <2>1. \A d \in Day : sheet'[d].basis = sheet[d].basis
    <3>1. ASSUME NEW d \in Day PROVE sheet'[d].basis = sheet[d].basis
      <4>1. sheet[d] \in [state : SheetState \cup {"NONE"}, codes : SUBSET ExceptionCode,
                          basis : SUBSET Event]
        BY DEF TypeInv, TablesTypeOK, Sheet, NoSheet
      <4>2. \/ sheet'[d] = sheet[d]
            \/ sheet'[d] = [sheet[d] EXCEPT !.state = To[transition.action]]
        BY <1>3 DEF CommitTransition
      <4>3. QED
        BY <4>1, <4>2
    <3>2. QED
      BY <3>1
  <2>2. ASSUME NEW h \in Handler, handler'[h].pc = "write"
        PROVE  handler[h].pc = "write" /\ handler'[h].event = handler[h].event
    <3>1. \/ handler'[h] = handler[h]
          \/ handler[h] # Idle /\ handler'[h] = [handler[h] EXCEPT !.raced = TRUE]
      BY <1>3 DEF CommitTransition
    <3>2. QED
      BY <2>2, <3>1 DEF TypeInv, RequestsTyped, HandlerType, Waiting, Deciding, Rejecting, Idle
  <2>3. UNCHANGED <<events, now, today>>
    BY <1>3 DEF CommitTransition
  <2>4. QED
    BY <1>1, <2>1, <2>2, <2>3, LockQuiet
<1>4. ASSUME NEW action \in TransitionAction, Begin(action)
      PROVE  LockInv'
  BY <1>1, <1>4, LockQuiet DEF Begin, tables
<1>5. CASE RollBack \/ UNCHANGED vars
  BY <1>1, <1>5, LockQuiet DEF RollBack, tables, vars
<1>6. CASE Midnight /\ UNCHANGED <<handler, lock, period, transition>>
  <2>1. UNCHANGED <<events, now, sheet, handler>> /\ today' \in Day /\ today <= today'
    BY <1>6, BoundsAssumption DEF Midnight, tables, Day, TypeInv, TablesTypeOK
  <2>2. QED
    BY <2>1, LockQuiet
<1>7. QED
  BY <1>2, <1>3, <1>4, <1>5, <1>6 DEF Next

\* The invariant holds in every state.
LEMMA LockInvariant == Spec => []LockInv
BY LockInit, LockNext, TypeInvariant, PTL DEF Spec

\* Whatever the GPS rejections and the pay period write, the timesheet of a day is
\* calculated from every event of the day.
THEOREM NoEventLostHolds == Spec => []NoEventLost
<1>1. LockInv => NoEventLost
  BY DEF LockInv
<1>2. QED
  BY <1>1, LockInvariant, PTL

\* The committed event is one that ShiftLog may record.
LEMMA CommitRecords ==
  ASSUME TypeInv, LockInv, NEW h \in Handler, Commit(h)
  PROVE  Shifts!Record(handler[h].event) /\ handler[h].event \in Event
<1>1. Decided(handler[h].event) /\ handler[h].event \in Event
  BY Kinds DEF Commit, LockInv, Deciding
<1>2. events' = events \cup {handler[h].event}
  BY DEF Commit
<1>3. QED
  BY <1>1, <1>2 DEF Shifts!Record, Decided, Continues

\* The events under the advisory lock are the log of shifts of ShiftLog: a step records the
\* next event or leaves the log.
THEOREM EventsAreShiftsHolds == Spec => EventsAreShifts
<1>1. Init => Shifts!Init
  BY DEF Init, TablesInit, Shifts!Init
<1>2. TypeInv /\ LockInv /\ [Next]_vars => [Shifts!Next]_events
  <2> SUFFICES ASSUME TypeInv, LockInv, [Next]_vars, events' # events PROVE Shifts!Next
    OBVIOUS
  <2>1. PICK h \in Handler : Commit(h)
    BY DEF Next, ClockNext, Request, Acquire, Refuse, Check, Drop, GpsRead, GpsCommit, Begin,
           CommitTransition, RollBack, Midnight, tables, vars
  <2>2. QED
    BY <2>1, CommitRecords DEF Shifts!Next
<1>3. QED
  BY <1>1, <1>2, TypeInvariant, LockInvariant, PTL DEF Spec, EventsAreShifts, Shifts!Spec

-----------------------------------------------------------------------------
(* Locked timesheets.                                                      *)

\* A request that writes to a locked timesheet has raced with the lock.
RacedInv ==
  \A h \in Handler :
    /\ handler[h].pc = "write" /\ sheet[handler[h].event.day].state = "LOCKED" => handler[h].raced
    /\ handler[h].pc = "gps" /\ sheet[handler[h].day].state = "LOCKED" => handler[h].raced

\* A step in which no request decides anything and no row becomes locked.
LEMMA RacedQuiet ==
  ASSUME TypeInv, RacedInv,
         \A d \in Day : sheet'[d].state = "LOCKED" => sheet[d].state = "LOCKED",
         \A h \in Handler : handler'[h].pc \in {"write", "gps"} => handler'[h] = handler[h]
  PROVE  RacedInv'
<1> SUFFICES ASSUME NEW h \in Handler, handler'[h].pc \in {"write", "gps"}
             PROVE  /\ handler'[h].pc = "write" /\ sheet'[handler'[h].event.day].state = "LOCKED"
                         => handler'[h].raced
                    /\ handler'[h].pc = "gps" /\ sheet'[handler'[h].day].state = "LOCKED"
                         => handler'[h].raced
  BY DEF RacedInv
<1>1. handler'[h] = handler[h]
  OBVIOUS
<1>2. /\ handler[h].pc = "write" => handler[h].event.day \in Day
      /\ handler[h].pc = "gps" => handler[h].day \in Day
  BY Kinds DEF Deciding, Rejecting, Event
<1>3. QED
  BY <1>1, <1>2 DEF RacedInv

\* A step of a request keeps the invariant.
LEMMA RacedClock ==
  ASSUME TypeInv, RacedInv, ClockNext
  PROVE  RacedInv'
<1>1. PICK h \in Handler :
        \/ \E type \in EventType, key \in Key : Request(h, type, key)
        \/ Acquire(h) \/ Refuse(h) \/ Check(h) \/ Commit(h) \/ Drop(h)
        \/ GpsRead(h) \/ GpsCommit(h)
  BY DEF ClockNext
<1>2. \A g \in Handler : g # h => handler'[g] = handler[g]
  BY <1>1 DEF Request, Acquire, Refuse, Check, Commit, Drop, GpsRead, GpsCommit, EndTransaction,
              TypeInv, RequestsTyped
<1>3. CASE Check(h)
  <2>1. UNCHANGED sheet
    BY <1>3 DEF Check, tables
  <2>2. /\ handler'[h].pc = "write"
        /\ handler'[h].event.day = WorkDate(handler[h].type)
    BY <1>3 DEF Check, TypeInv, RequestsTyped
  <2>3. sheet[WorkDate(handler[h].type)].state # "LOCKED"
    BY <1>3 DEF Check, Refused
  <2>4. QED
    BY <1>2, <2>1, <2>2, <2>3 DEF RacedInv
<1>4. CASE GpsRead(h)
  <2>1. UNCHANGED sheet
    BY <1>4 DEF GpsRead, tables
  <2>2. handler'[h].pc = "gps" /\ handler'[h].day = today /\ sheet[today].state # "LOCKED"
    BY <1>4 DEF GpsRead, TypeInv, RequestsTyped
  <2>3. QED
    BY <1>2, <2>1, <2>2 DEF RacedInv
<1>5. CASE Commit(h)
  <2>1. \A d \in Day : sheet'[d].state = "LOCKED" => sheet[d].state = "LOCKED"
    <3>1. PICK measured \in SUBSET MeasuredCodes :
            sheet' = [sheet EXCEPT ![handler[h].event.day] =
              CalculatedSheet(EventsOf(handler[h].event), measured)]
      BY <1>5 DEF Commit
    <3>2. EventsOf(handler[h].event) \in SUBSET Event
      BY <1>5, Kinds DEF Commit, Deciding, EventsOf, DayEvents, TypeInv, TablesTypeOK
    <3>3. CalculatedSheet(EventsOf(handler[h].event), measured).state # "LOCKED"
      BY <3>2, CalculatedRow
    <3>4. QED
      BY <3>1, <3>3 DEF TypeInv, TablesTypeOK
  <2>2. handler'[h] = Idle
    BY <1>5 DEF Commit, EndTransaction, TypeInv, RequestsTyped
  <2>3. QED
    BY <1>2, <2>1, <2>2, RacedQuiet DEF Idle
<1>6. CASE GpsCommit(h)
  <2>1. \A d \in Day : sheet'[d].state = "LOCKED" => sheet[d].state = "LOCKED"
    BY <1>6 DEF GpsCommit, Edited, TypeInv, TablesTypeOK
  <2>2. handler'[h] = Idle
    BY <1>6 DEF GpsCommit, EndTransaction, TypeInv, RequestsTyped
  <2>3. QED
    BY <1>2, <2>1, <2>2, RacedQuiet DEF Idle
<1>7. CASE (\E type \in EventType, key \in Key : Request(h, type, key))
             \/ Acquire(h) \/ Refuse(h) \/ Drop(h)
  <2>1. UNCHANGED sheet
    BY <1>7 DEF Request, Acquire, Refuse, Drop, tables
  <2>2. handler'[h].pc \notin {"write", "gps"}
    BY <1>7 DEF Request, Acquire, Refuse, Drop, EndTransaction, Idle, TypeInv, RequestsTyped,
                HandlerType, Waiting, Deciding, Rejecting
  <2>3. QED
    BY <1>2, <2>1, <2>2, RacedQuiet
<1>8. QED
  BY <1>1, <1>3, <1>4, <1>5, <1>6, <1>7

\* The lock of the period marks the requests it races with.
LEMMA RacedTransition ==
  ASSUME TypeInv, RacedInv, CommitTransition
  PROVE  RacedInv'
<1>1. PICK a \in TransitionAction : transition.action = a
  BY DEF TypeInv, TransitionsTyped, CommitTransition
<1>2. CASE a = "LOCK"
  <2> SUFFICES ASSUME NEW h \in Handler, handler'[h].pc \in {"write", "gps"}
               PROVE  handler'[h].raced
    BY DEF RacedInv
  <2>1. handler'[h] = IF handler[h] # Idle THEN [handler[h] EXCEPT !.raced = TRUE] ELSE handler[h]
    BY <1>1, <1>2 DEF CommitTransition
  <2>2. handler[h] \in HandlerType
    BY DEF TypeInv, RequestsTyped
  <2>3. QED
    BY <2>1, <2>2 DEF HandlerType, Waiting, Deciding, Rejecting, Idle
<1>3. CASE a # "LOCK"
  <2>1. \A d \in Day : sheet'[d].state = "LOCKED" => sheet[d].state = "LOCKED"
    <3> SUFFICES ASSUME NEW d \in Day, sheet'[d] # sheet[d] PROVE sheet'[d].state # "LOCKED"
      OBVIOUS
    <3>1. d \in Updated /\ sheet'[d] = [sheet[d] EXCEPT !.state = To[a]]
      BY <1>1 DEF CommitTransition
    <3>2. a # "REVIEW"
      BY <1>1, <3>1 DEF Updated, From
    <3>3. sheet[d] \in [state : SheetState \cup {"NONE"}, codes : SUBSET ExceptionCode,
                        basis : SUBSET Event]
      BY DEF TypeInv, TablesTypeOK, Sheet, NoSheet
    <3>4. To[a] # "LOCKED"
      BY <1>3, <3>2 DEF To, TransitionAction
    <3>5. QED
      BY <3>1, <3>3, <3>4
  <2>2. \A h \in Handler : handler'[h] = handler[h]
    BY <1>1, <1>3 DEF CommitTransition
  <2>3. QED
    BY <2>1, <2>2, RacedQuiet
<1>4. QED
  BY <1>2, <1>3

\* No step leaves the invariant.
LEMMA RacedNext == TypeInv /\ RacedInv /\ [Next]_vars => RacedInv'
<1> SUFFICES ASSUME TypeInv, RacedInv, [Next]_vars PROVE RacedInv'
  OBVIOUS
<1>1. CASE ClockNext
  BY <1>1, RacedClock
<1>2. CASE CommitTransition
  BY <1>2, RacedTransition
<1>3. CASE \/ \E action \in TransitionAction : Begin(action)
           \/ RollBack
           \/ Midnight /\ UNCHANGED <<handler, lock, period, transition>>
           \/ UNCHANGED vars
  <2>1. UNCHANGED <<sheet, handler>>
    BY <1>3 DEF Begin, RollBack, Midnight, tables, vars
  <2>2. QED
    BY <2>1 DEF RacedInv
<1>4. QED
  BY <1>1, <1>2, <1>3 DEF Next

\* The invariant holds in every state.
LEMMA RacedInvariant == Spec => []RacedInv
<1>1. Init => RacedInv
  BY DEF Init, RacedInv, Idle
<1>2. QED
  BY <1>1, RacedNext, TypeInvariant, PTL DEF Spec

\* Every step that changes a locked timesheet ends a request that raced with the lock.
RacedStep ==
  \A d \in Day : sheet[d].state = "LOCKED" /\ sheet'[d] # sheet[d] =>
    \E h \in Handler : handler[h] # Idle /\ handler[h].raced /\ handler'[h] = Idle

\* The commit of a request is such a step or leaves the locked timesheets alone.
LEMMA RacedSteps ==
  ASSUME TypeInv, RacedInv, Next
  PROVE  RacedStep
<1> SUFFICES ASSUME NEW d \in Day, sheet[d].state = "LOCKED", sheet'[d] # sheet[d]
             PROVE  \E h \in Handler : handler[h] # Idle /\ handler[h].raced /\ handler'[h] = Idle
  BY DEF RacedStep
<1>1. \/ \E h \in Handler : Commit(h) \/ GpsCommit(h)
      \/ CommitTransition
  BY DEF Next, ClockNext, Request, Acquire, Refuse, Check, Drop, GpsRead, Begin, RollBack,
         Midnight, tables
<1>2. ASSUME NEW h \in Handler, Commit(h) \/ GpsCommit(h)
      PROVE  handler[h] # Idle /\ handler[h].raced /\ handler'[h] = Idle
  <2>1. handler'[h] = Idle
    BY <1>2 DEF Commit, GpsCommit, EndTransaction, TypeInv, RequestsTyped
  <2>2. handler[h].pc # "idle"
    BY <1>2 DEF Commit, GpsCommit
  <2>3. \/ handler[h].pc = "write" /\ d = handler[h].event.day
        \/ handler[h].pc = "gps" /\ d = handler[h].day
    BY <1>2 DEF Commit, GpsCommit, TypeInv, TablesTypeOK
  <2>4. QED
    BY <2>1, <2>2, <2>3 DEF RacedInv, Idle
<1>3. ASSUME CommitTransition
      PROVE  FALSE
  <2>1. PICK a \in TransitionAction : transition.action = a
    BY <1>3 DEF TypeInv, TransitionsTyped, CommitTransition
  <2>2. d \in Updated /\ sheet'[d] = [sheet[d] EXCEPT !.state = To[a]]
    BY <1>3, <2>1 DEF CommitTransition
  <2>3. "LOCKED" \in From[a]
    BY <1>3, <2>1, <2>2 DEF Updated, CommitTransition
  <2>4. a = "LOCK"
    BY <2>3 DEF From, TransitionAction
  <2>5. sheet[d] \in [state : SheetState \cup {"NONE"}, codes : SUBSET ExceptionCode,
                      basis : SUBSET Event]
    BY DEF TypeInv, TablesTypeOK, Sheet, NoSheet
  <2>6. QED
    BY <2>2, <2>4, <2>5 DEF To
<1>4. QED
  BY <1>1, <1>2, <1>3

\* The tests for LOCKED stop every request that begins its transaction after the lock of the
\* period: what changes a locked timesheet was in its transaction before.
THEOREM OnlyRacesChangeLockedHolds == Spec => OnlyRacesChangeLocked
<1>1. TypeInv /\ RacedInv /\ [Next]_vars => [RacedStep]_vars
  BY RacedSteps
<1>2. QED
  BY <1>1, TypeInvariant, RacedInvariant, PTL DEF Spec, OnlyRacesChangeLocked, RacedStep
=============================================================================
