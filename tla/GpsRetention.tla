---------------------------- MODULE GpsRetention ----------------------------
(***************************************************************************)
(* The exact coordinates of the clock actions of each organization, the    *)
(* retention its policy grants them, and the cron job that removes those   *)
(* that are older (gps-retention.ts).  The coordinates of an action are    *)
(* written twice: in its AttendanceEvent and in the AttendanceRecord of    *)
(* the day.  One employee per organization; a day is the unit of time.     *)
(*                                                                         *)
(* The sweeps of two cron invocations may overlap, and the requests that   *)
(* edit a policy do not wait for a sweep.                                  *)
(***************************************************************************)
EXTENDS Integers, Sequences

CONSTANTS
  Client,
  Retention,         \* the values of exactGpsRetentionDays
  DefaultRetention,  \* the default of the column
  MaxDay,            \* bound: the days of a behaviour
  MaxEvents,         \* bound: the events of one client
  MaxEdits,          \* bound: the edits of the policies
  MaxStops,          \* bound: the stops of the Worker
  Sweep,             \* the cron invocations that can overlap
  NestedMayStop      \* a client may be left without the policy created with it

\* What the constants may be.
Parameters ==
  /\ Retention \subseteq Nat \ {0} /\ DefaultRetention \in Retention
  /\ MaxDay \in Nat /\ MaxEvents \in Nat /\ MaxEdits \in Nat /\ MaxStops \in Nat
  /\ NestedMayStop \in BOOLEAN

VARIABLES
  now,        \* the day it is
  created,    \* Client rows
  unfinished, \* the clients whose nested create still has to write the policy
  policy,     \* WorkPolicy rows: exactGpsRetentionDays, or 0 without a row
  events,     \* AttendanceEvent rows of each client, in order
  record,     \* AttendanceRecord rows: the day each kept coordinate was taken, or 0
  sweep,      \* what each cron invocation still has to purge
  edits, stops

vars == <<now, created, unfinished, policy, events, record, sweep, edits, stops>>

Day == 1..MaxDay

NoDay == 0

NoPolicy == 0

\* A client a sweep still has to purge, and the days it read.  History: granted are all the days
\* that were the client's policy at some moment since the sweep read them.
Turn == [client : Client, days : Retention, granted : SUBSET Retention]

Event ==
  [type : {"CLOCK_IN", "CLOCK_OUT"}, workDate : Day, occurredAt : Day,
   coordinates : BOOLEAN, distance : BOOLEAN]

TypeOK ==
  /\ now \in Day
  /\ created \subseteq Client /\ unfinished \subseteq Client
  /\ policy \in [Client -> Retention \cup {NoPolicy}]
  /\ events \in [Client -> Seq(Event)]
  /\ record \in [Client -> [Day -> [clockIn : Day \cup {NoDay}, clockOut : Day \cup {NoDay}]]]
  /\ sweep \in [Sweep -> SUBSET Turn]
  /\ edits \in 0..MaxEdits /\ stops \in 0..MaxStops

Init ==
  /\ now = 1
  /\ created = {} /\ unfinished = {}
  /\ policy = [c \in Client |-> NoPolicy]
  /\ events = [c \in Client |-> <<>>]
  /\ record = [c \in Client |-> [d \in Day |-> [clockIn |-> NoDay, clockOut |-> NoDay]]]
  /\ sweep = [s \in Sweep |-> {}]
  /\ edits = 0 /\ stops = 0

-----------------------------------------------------------------------------
(* createAdminClient: the policy is a row of the nested create.            *)

CreateClient(c) ==
  /\ c \notin created
  /\ created' = created \cup {c}
  /\ unfinished' = unfinished \cup {c}
  /\ UNCHANGED <<now, policy, events, record, sweep, edits, stops>>

CreatePolicy(c) ==
  /\ c \in unfinished
  /\ unfinished' = unfinished \ {c}
  /\ policy' = [policy EXCEPT ![c] = DefaultRetention]
  /\ UNCHANGED <<now, created, events, record, sweep, edits, stops>>

\* The Worker stops between the two rows.
StopCreate(c) ==
  /\ NestedMayStop
  /\ c \in unfinished
  /\ unfinished' = unfinished \ {c}
  /\ UNCHANGED <<now, created, policy, events, record, sweep, edits, stops>>

\* Both are upserts; reading the policy of a client that has none creates the default.
GetPolicy(c) ==
  /\ c \in created \ unfinished
  /\ policy[c] = NoPolicy
  /\ policy' = [policy EXCEPT ![c] = DefaultRetention]
  /\ UNCHANGED <<now, created, unfinished, events, record, sweep, edits, stops>>

UpdatePolicy(c, days) ==
  /\ c \in created \ unfinished
  /\ edits < MaxEdits
  /\ policy' = [policy EXCEPT ![c] = days]
  /\ edits' = edits + 1
  /\ sweep' = [s \in Sweep |->
       {IF turn.client = c THEN [turn EXCEPT !.granted = @ \cup {days}] ELSE turn : turn \in sweep[s]}]
  /\ UNCHANGED <<now, created, unfinished, events, record, stops>>

-----------------------------------------------------------------------------
(* A clock action: the event and the record of its work date, in one batch. *)

Latest(c) == events[c][Len(events[c])]

OnShift(c) == events[c] # <<>> /\ Latest(c).type = "CLOCK_IN"

Clock(c, type, workDate) ==
  events' = [events EXCEPT ![c] = Append(@,
    [type |-> type, workDate |-> workDate, occurredAt |-> now,
     coordinates |-> TRUE, distance |-> TRUE])]

\* Clocking in again on a date reopens its record: only the coordinates of the clock-out go.
ClockIn(c) ==
  /\ c \in created
  /\ Len(events[c]) < MaxEvents /\ ~OnShift(c)
  /\ Clock(c, "CLOCK_IN", now)
  /\ record' = IF record[c][now].clockIn = NoDay
               THEN [record EXCEPT ![c][now].clockIn = now]
               ELSE [record EXCEPT ![c][now].clockOut = NoDay]
  /\ UNCHANGED <<now, created, unfinished, policy, sweep, edits, stops>>

ClockOut(c) ==
  /\ Len(events[c]) < MaxEvents /\ OnShift(c)
  /\ LET workDate == Latest(c).workDate
     IN /\ Clock(c, "CLOCK_OUT", workDate)
        /\ record' = [record EXCEPT ![c][workDate].clockOut = now]
  /\ UNCHANGED <<now, created, unfinished, policy, sweep, edits, stops>>

Tick ==
  /\ now < MaxDay
  /\ now' = now + 1
  /\ UNCHANGED <<created, unfinished, policy, events, record, sweep, edits, stops>>

-----------------------------------------------------------------------------
(* purgeExpiredExactGps: the policies are read once, then each client is a *)
(* statement whose cutoff is taken when it is its turn.                    *)

StartSweep(s) ==
  /\ sweep[s] = {}
  /\ sweep' = [sweep EXCEPT ![s] =
       {[client |-> c, days |-> policy[c], granted |-> {policy[c]}] :
          c \in {c \in Client : policy[c] # NoPolicy}}]
  /\ UNCHANGED <<now, created, unfinished, policy, events, record, edits, stops>>

\* Mutant: the cutoff day itself is purged.
Expired_MutantInclusive(day, days) == day <= now - days

Expired(day, days) == day < now - days

Purged(e, days) ==
  IF Expired(e.occurredAt, days) THEN [e EXCEPT !.coordinates = FALSE] ELSE e

\* The trigger AttendanceEvent_immutable_update: everything but the coordinates is fixed,
\* and those may only be removed.
TriggerAllows(old, new) ==
  /\ [new EXCEPT !.coordinates = TRUE] = [old EXCEPT !.coordinates = TRUE]
  /\ new.coordinates => old.coordinates

\* The trigger aborts the statement, and with it the sweep.
Purge(s, turn) ==
  /\ turn \in sweep[s]
  /\ LET c == turn.client
         purged == [i \in DOMAIN events[c] |-> Purged(events[c][i], turn.days)]
     IN IF \A i \in DOMAIN purged : TriggerAllows(events[c][i], purged[i])
        THEN /\ events' = [events EXCEPT ![c] = purged]
             /\ sweep' = [sweep EXCEPT ![s] = @ \ {turn}]
        ELSE UNCHANGED events /\ sweep' = [sweep EXCEPT ![s] = {}]
  /\ UNCHANGED <<now, created, unfinished, policy, record, edits, stops>>

StopSweep(s) ==
  /\ sweep[s] # {}
  /\ stops < MaxStops
  /\ stops' = stops + 1
  /\ sweep' = [sweep EXCEPT ![s] = {}]
  /\ UNCHANGED <<now, created, unfinished, policy, events, record, edits>>

Next ==
  \/ \E c \in Client :
       \/ CreateClient(c) \/ CreatePolicy(c) \/ StopCreate(c)
       \/ GetPolicy(c)
       \/ \E days \in Retention : UpdatePolicy(c, days)
       \/ ClockIn(c) \/ ClockOut(c)
  \/ Tick
  \/ \E s \in Sweep :
       \/ StartSweep(s)
       \/ \E turn \in Turn : Purge(s, turn)
       \/ StopSweep(s)

Spec == Init /\ [][Next]_vars

\* The cron fires every five minutes and an invocation that is not stopped finishes; so
\* does a request.
LiveSpec ==
  /\ Spec
  /\ \A c \in Client : WF_vars(CreatePolicy(c))
  /\ \A s \in Sweep :
       /\ WF_vars(StartSweep(s))
       /\ \A turn \in Turn : WF_vars(Purge(s, turn))

-----------------------------------------------------------------------------

\* "Exact GPS is purged according to the organization policy, which defaults to 90 days":
\* what the organization grants now, with or without a policy row.
Granted(c) == IF policy[c] = NoPolicy THEN DefaultRetention ELSE policy[c]

Removes(c, i) == events[c][i].coordinates /\ ~events'[c][i].coordinates

\* A sweep removes coordinates only when a policy lets them go that was in force at some moment
\* since the sweep began: the one in force now, unless it was edited meanwhile.
PurgesByPolicy ==
  \A c \in Client : \A i \in DOMAIN events[c] : Removes(c, i) =>
    \E s \in Sweep : \E turn \in sweep[s] \ sweep'[s] :
      /\ turn.client = c /\ Granted(c) \in turn.granted
      /\ \E days \in turn.granted : events[c][i].occurredAt + days < now

\* Only the policy in force now decides, though it was edited while the sweep runs.
PurgesByCurrentPolicy ==
  \A c \in Client : \A i \in DOMAIN events[c] :
    Removes(c, i) => events[c][i].occurredAt + Granted(c) < now

\* Coordinates past their retention do not stay in the event, though a sweep may be stopped
\* between two clients: a later one removes them, unless the retention is extended.
ExpiredArePurged ==
  \A c \in Client, i \in 1..MaxEvents :
    LET Overdue ==
          /\ c \in created
          /\ i \in DOMAIN events[c]
          /\ events[c][i].coordinates
          /\ events[c][i].occurredAt + Granted(c) < now
    IN Overdue ~> ~Overdue

\* The same of the coordinates in the AttendanceRecord of a day.
RecordsArePurged ==
  \A c \in Client, d \in Day :
    LET Overdue ==
          \E day \in {record[c][d].clockIn, record[c][d].clockOut} \ {NoDay} : day + Granted(c) < now
    IN Overdue ~> ~Overdue
=============================================================================
