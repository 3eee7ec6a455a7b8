----------------------------- MODULE ClockClient -----------------------------
(***************************************************************************)
(* The web client of ClockActions: the employee page, what it shows and    *)
(* which buttons it offers (EmployeePage.tsx), and the idempotency keys it *)
(* keeps per action until the action is acknowledged (lib/attendance.ts),  *)
(* on a network that may lose requests and answers.                        *)
(*                                                                         *)
(* One page is open at a time; it can be loaded again whenever the user    *)
(* likes, and then waits for no answer any more.  The GPS is good and no   *)
(* period is locked.  The two reads that fill the page are one step.       *)
(***************************************************************************)
EXTENDS ClockActions

CONSTANTS
  NoKey, NoHandler,
  MayLose   \* whether requests and answers get lost and pages are loaded again

Parameters ==
  NoKey \notin Key /\ NoHandler \notin Handler /\ MayLose \in BOOLEAN

VARIABLES
  page,     \* the attendance and the last event the page shows
  pending,  \* sessionStorage: the key of an action that is not acknowledged
  made,     \* the keys the client has made up
  acked,    \* the keys acknowledged to the page
  waiting,  \* the request whose answer the page awaits
  request   \* the requests on the network

clientVars == <<page, pending, made, acked, waiting, request>>
vars == <<tables, today, now, handler, clientVars>>

None == [at |-> "none"]

Request ==
  [at : {"sent", "server"}, type : EventType, key : Key]
    \cup [at : {"refused"}, type : EventType, key : Key]
    \cup [at : {"answered"}, type : EventType, key : Key, attendance : RecordStatus]

Page == [attendance : RecordStatus, last : EventType \cup {"NONE"}]

\* Every variable has its type.
TypeOK ==
  /\ TablesTypeOK /\ ClockTypeOK
  /\ page \in Page
  /\ pending \in [EventType -> Key \cup {NoKey}]
  /\ made \subseteq Key /\ acked \subseteq made
  /\ waiting \in Handler \cup {NoHandler}
  /\ request \in [Handler -> Request \cup {None}]

\* getTodayTimesheet: the type of the last event of today.
LastToday ==
  LET rows == DayEvents(today)
  IN IF rows = {} THEN "NONE" ELSE (CHOOSE e \in rows : \A f \in rows : f.at <= e.at).type

\* getTodayAttendance and getTodayTimesheet.
Loaded == [attendance |-> record[today], last |-> LastToday]

Init ==
  /\ TablesInit /\ ClockInit
  /\ page = [attendance |-> "NONE", last |-> "NONE"]
  /\ pending = [type \in EventType |-> NoKey]
  /\ made = {} /\ acked = {}
  /\ waiting = NoHandler
  /\ request = [h \in Handler |-> None]

-----------------------------------------------------------------------------
(* The page.                                                               *)

\* The employee page is opened or loaded again.
Load ==
  /\ MayLose
  /\ page' = Loaded
  /\ waiting' = NoHandler
  /\ UNCHANGED <<tables, today, now, handler, pending, made, acked, request>>

\* The buttons that are not disabled.
Offered(type) ==
  \/ type = "CLOCK_IN" /\ page.attendance = "NONE" /\ page.last # "BREAK_START"
  \/ type = "CLOCK_OUT" /\ page.attendance = "CLOCKED_IN" /\ page.last # "BREAK_START"
  \/ type = "BREAK_START" /\ page.attendance = "CLOCKED_IN" /\ page.last \in {"CLOCK_IN", "BREAK_END"}
  \/ type = "BREAK_END" /\ page.attendance = "CLOCKED_IN" /\ page.last = "BREAK_START"

\* Mutant: one pending key for all actions.
PendingKey_MutantShared(type) ==
  IF \E t \in EventType : pending[t] # NoKey
  THEN pending[CHOOSE t \in EventType : pending[t] # NoKey] ELSE NoKey

PendingKey(type) == pending[type]

\* act and eventRequest: the pending key of the action, or a new one.
Act(h, type, key) ==
  /\ waiting = NoHandler /\ request[h] = None /\ handler[h] = Idle
  /\ Offered(type)
  /\ IF PendingKey(type) = NoKey THEN key \notin made ELSE key = PendingKey(type)
  /\ pending' = [pending EXCEPT ![type] = key]
  /\ made' = made \cup {key}
  /\ request' = [request EXCEPT ![h] = [at |-> "sent", type |-> type, key |-> key]]
  /\ waiting' = h
  /\ UNCHANGED <<tables, today, now, handler, page, acked>>

\* Mutant: the key is given up after every answer.
PendingAfter_MutantAlways(h) == [pending EXCEPT ![request[h].type] = NoKey]

\* sessionStorage.removeItem, for an answer with an attendance in it.
PendingAfter(h) ==
  IF request[h].at = "answered" THEN [pending EXCEPT ![request[h].type] = NoKey] ELSE pending

PageAfter(attendance) == [attendance |-> attendance, last |-> LastToday]

\* The answer the page awaits; the events are loaded with a request that can fail too.
Receive(h) ==
  /\ waiting = h
  /\ request[h].at \in {"answered", "refused"}
  /\ pending' = PendingAfter(h)
  /\ IF request[h].at = "answered"
     THEN /\ acked' = acked \cup {request[h].key}
          /\ \/ page' = PageAfter(request[h].attendance)
             \/ MayLose /\ page' = [page EXCEPT !.attendance = request[h].attendance]
     ELSE UNCHANGED <<acked, page>>
  /\ waiting' = NoHandler
  /\ request' = [request EXCEPT ![h] = None]
  /\ UNCHANGED <<tables, today, now, handler, made>>

\* An answer that no page awaits.
Ignore(h) ==
  /\ waiting # h
  /\ request[h].at \in {"answered", "refused"}
  /\ request' = [request EXCEPT ![h] = None]
  /\ UNCHANGED <<tables, today, now, handler, page, pending, made, acked, waiting>>

\* A request or its answer is lost.
Lose(h) ==
  /\ MayLose
  /\ request[h].at \in {"sent", "answered", "refused"}
  /\ request' = [request EXCEPT ![h] = None]
  /\ waiting' = IF waiting = h THEN NoHandler ELSE waiting
  /\ UNCHANGED <<tables, today, now, handler, page, pending, made, acked>>

-----------------------------------------------------------------------------
(* The server.                                                             *)

Answer(h, attendance) ==
  request' = [request EXCEPT ![h] = [at |-> "answered", type |-> @.type, key |-> @.key,
                                     attendance |-> attendance]]

Refuse(h) == request' = [request EXCEPT ![h].at = "refused"]

Accept(h) ==
  /\ request[h].at = "sent"
  /\ Preflight(h, request[h].type, request[h].key)
  /\ request' = [request EXCEPT ![h].at = "server"]
  /\ UNCHANGED <<page, pending, made, acked, waiting>>

\* The key has an event: the answer is that event and its day, as they are now.
Replay(h) ==
  /\ request[h].at = "sent"
  /\ Deliver(h)
  /\ \E e \in events : e.key = request[h].key /\ Answer(h, record[e.day])
  /\ UNCHANGED <<tables, today, now, handler, page, pending, made, acked, waiting>>

\* INVALID_ATTENDANCE_TRANSITION.
RefuseTransition(h) ==
  /\ request[h].at = "sent"
  /\ Deliver(h)
  /\ ~ \E e \in events : e.key = request[h].key
  /\ ~transitionAllowed(LatestType, request[h].type)
  /\ Refuse(h)
  /\ UNCHANGED <<tables, today, now, handler, page, pending, made, acked, waiting>>

Commit(h) ==
  /\ CommitClock(h)
  /\ Answer(h, RecordAfter(handler[h]))
  /\ UNCHANGED <<page, pending, made, acked, waiting>>

\* The batch fails and the request with it.
Fail(h) ==
  /\ Drop(h)
  /\ Refuse(h)
  /\ UNCHANGED <<page, pending, made, acked, waiting>>

-----------------------------------------------------------------------------

Next ==
  \/ Load
  \/ Midnight /\ UNCHANGED <<handler, clientVars>>
  \/ \E h \in Handler :
       \/ \E type \in EventType, key \in Key : Act(h, type, key)
       \/ Receive(h) \/ Ignore(h) \/ Lose(h)
       \/ Accept(h) \/ Replay(h) \/ RefuseTransition(h) \/ Commit(h) \/ Fail(h)

Spec == Init /\ [][Next]_vars

-----------------------------------------------------------------------------
(* Properties.                                                             *)

Acknowledged(h) == request[h].at = "answered" /\ Receive(h)

\* Whatever was lost or answered for an earlier try, an action the page reports as done has
\* its event, and one of its own type.
DoneIsRecorded ==
  [][\A h \in Handler : Acknowledged(h) =>
       \E e \in events : e.key = request[h].key /\ e.type = request[h].type]_vars

\* Repeating an action that nothing acknowledged adds no second event: of each action there
\* is at most one event the page was never told of.
RetriesAddNothing ==
  \A type \in EventType : Cardinality({e \in events : e.type = type /\ e.key \notin acked}) <= 1

\* What the page reports as done is what the employee did last, not an action of another
\* shift or day.
DoneIsCurrent ==
  [][\A h \in Handler : Acknowledged(h) => LatestType = request[h].type]_vars

Quiet == waiting = NoHandler /\ \A h \in Handler : request[h] = None

\* The page offers only what the server would accept.
OfferedIsAllowed ==
  Quiet => \A type \in EventType : Offered(type) => transitionAllowed(LatestType, type)

\* An employee in a shift who has just loaded the page can end the break or the shift.
OpenShiftCanEnd ==
  Quiet /\ page = Loaded /\ LatestType \notin {"NONE", "CLOCK_OUT"} =>
    Offered("CLOCK_OUT") \/ Offered("BREAK_END")
=============================================================================
