-------------------------- MODULE HolidayCatalogue --------------------------
(***************************************************************************)
(* The public holidays: the catalogue a DEV_ADMIN imports for a year, the  *)
(* entries an organization adds, which of them decides on a date, and the  *)
(* reminder of the cron job to import the next year                        *)
(* (malaysia-holidays.ts, workforce-v2.controller.ts, notifications.ts).   *)
(*                                                                         *)
(* One organization, the dates of one year and their catalogue.  An import *)
(* is one batch.  Cron invocations may overlap.                            *)
(***************************************************************************)
EXTENDS Integers

CONSTANTS
  State,       \* the codes of the states and federal territories
  Date,
  AnyState,    \* the stateCode null of an entry for every state
  Library,     \* what date-holidays may list: [State -> SUBSET Date]
  DevAdmin,
  WindowDays,  \* the days of the reminder before 1 January (25 to 31 December)
  Cron,        \* the cron invocations that can overlap
  MaxStops     \* bound: the stops of the Worker

\* What the constants may be.
Parameters ==
  /\ AnyState \notin State
  /\ Library \subseteq [State -> SUBSET Date]
  /\ WindowDays \in Nat \ {0} /\ MaxStops \in Nat

VARIABLES
  day,           \* 0 before the window, then its days, then the new year
  library,       \* the calendar of the version that is deployed
  malaysia,      \* MalaysiaHoliday rows of the year
  organization,  \* Holiday rows
  active,        \* the DEV_ADMINs that are active
  notifications, \* HOLIDAY_IMPORT_REMINDER rows of the year, per user
  cron,
  stops

vars == <<day, library, malaysia, organization, active, notifications, cron, stops>>

Idle == [pc |-> "idle"]

Invocations ==
  [pc : {"count", "users"}]
    \cup [pc : {"existing", "recipients", "create"}, users : SUBSET DevAdmin]

MalaysiaHoliday == [date : Date, stateCode : State]

Holiday == [date : Date, stateCode : State \cup {AnyState}, isWorkingDayOverride : BOOLEAN]

TypeOK ==
  /\ day \in 0..WindowDays + 1
  /\ library \in Library
  /\ malaysia \subseteq MalaysiaHoliday
  /\ organization \subseteq Holiday
  /\ active \subseteq DevAdmin
  /\ notifications \in [DevAdmin -> Nat]
  /\ cron \in [Cron -> {Idle} \cup Invocations]
  /\ stops \in 0..MaxStops

Init ==
  /\ day = 0
  /\ library \in Library
  /\ malaysia = {} /\ organization = {}
  /\ active = DevAdmin
  /\ notifications = [u \in DevAdmin |-> 0]
  /\ cron = [i \in Cron |-> Idle]
  /\ stops = 0

-----------------------------------------------------------------------------
(* isPublicHolidayForState.                                                *)

organizationMatches(date, state) ==
  {h \in organization : h.date = date /\ h.stateCode \in {AnyState, state}}

isPublicHolidayForState(date, state) ==
  /\ ~\E h \in organizationMatches(date, state) : h.isWorkingDayOverride
  /\ \/ \E h \in organizationMatches(date, state) : ~h.isWorkingDayOverride
     \/ [date |-> date, stateCode |-> state] \in malaysia

-----------------------------------------------------------------------------
(* The requests.                                                           *)

allMalaysiaHolidays == {h \in MalaysiaHoliday : h.date \in library[h.stateCode]}

\* importMalaysiaHolidayCalendarV2: an upsert, which deletes nothing.
Import(u) ==
  /\ u \in active
  /\ malaysia' = malaysia \cup allMalaysiaHolidays
  /\ UNCHANGED <<day, library, organization, active, notifications, cron, stops>>

\* createHolidayV2; no request changes or deletes an entry.
CreateHoliday(h) ==
  /\ organization' = organization \cup {h}
  /\ UNCHANGED <<day, library, malaysia, active, notifications, cron, stops>>

\* A version with another date-holidays is deployed.
Deploy(calendar) ==
  /\ library' = calendar
  /\ UNCHANGED <<day, malaysia, organization, active, notifications, cron, stops>>

\* No request does: the seed, or the operator.
SetActive(u) ==
  /\ active' = IF u \in active THEN active \ {u} ELSE active \cup {u}
  /\ UNCHANGED <<day, library, malaysia, organization, notifications, cron, stops>>

NextDay ==
  /\ day <= WindowDays
  /\ day' = day + 1
  /\ UNCHANGED <<library, malaysia, organization, active, notifications, cron, stops>>

-----------------------------------------------------------------------------
(* remindDevAdminsToImportNextYearHolidays.                                *)

\* holidayImportReminderYear: a year in the window, null outside it.
InWindow == day \in 1..WindowDays

Continue(i, step) == cron' = [cron EXCEPT ![i] = step]

StartReminder(i) ==
  /\ cron[i] = Idle
  /\ InWindow
  /\ Continue(i, [pc |-> "count"])
  /\ UNCHANGED <<day, library, malaysia, organization, active, notifications, stops>>

CountImported(i) ==
  /\ cron[i].pc = "count"
  /\ Continue(i, IF malaysia # {} THEN Idle ELSE [pc |-> "users"])
  /\ UNCHANGED <<day, library, malaysia, organization, active, notifications, stops>>

FindUsers(i) ==
  /\ cron[i].pc = "users"
  /\ Continue(i, IF active = {} THEN Idle ELSE [pc |-> "existing", users |-> active])
  /\ UNCHANGED <<day, library, malaysia, organization, active, notifications, stops>>

\* Mutant: one user that was reminded is enough.
FindExisting_MutantAnyUser(i) ==
  /\ cron[i].pc = "existing"
  /\ LET missing == IF \E u \in cron[i].users : notifications[u] > 0 THEN {} ELSE cron[i].users
     IN Continue(i, IF missing = {} THEN Idle ELSE [pc |-> "recipients", users |-> missing])
  /\ UNCHANGED <<day, library, malaysia, organization, active, notifications, stops>>

FindExisting(i) ==
  /\ cron[i].pc = "existing"
  /\ LET missing == {u \in cron[i].users : notifications[u] = 0}
     IN Continue(i, IF missing = {} THEN Idle ELSE [pc |-> "recipients", users |-> missing])
  /\ UNCHANGED <<day, library, malaysia, organization, active, notifications, stops>>

\* notifyUsers: who of them is active now, then one createMany.
FindRecipients(i) ==
  /\ cron[i].pc = "recipients"
  /\ LET users == cron[i].users \cap active
     IN Continue(i, IF users = {} THEN Idle ELSE [pc |-> "create", users |-> users])
  /\ UNCHANGED <<day, library, malaysia, organization, active, notifications, stops>>

CreateNotifications(i) ==
  /\ cron[i].pc = "create"
  /\ notifications' = [u \in DevAdmin |->
       IF u \in cron[i].users THEN notifications[u] + 1 ELSE notifications[u]]
  /\ Continue(i, Idle)
  /\ UNCHANGED <<day, library, malaysia, organization, active, stops>>

StopCron(i) ==
  /\ cron[i] # Idle
  /\ stops < MaxStops
  /\ stops' = stops + 1
  /\ Continue(i, Idle)
  /\ UNCHANGED <<day, library, malaysia, organization, active, notifications>>

Remind(i) ==
  \/ StartReminder(i) \/ CountImported(i) \/ FindUsers(i) \/ FindExisting(i)
  \/ FindRecipients(i) \/ CreateNotifications(i)

Next ==
  \/ \E u \in DevAdmin : Import(u) \/ SetActive(u)
  \/ \E h \in Holiday : CreateHoliday(h)
  \/ \E calendar \in Library : Deploy(calendar)
  \/ NextDay
  \/ \E i \in Cron : Remind(i) \/ StopCron(i)

Spec == Init /\ [][Next]_vars

\* The cron fires every five minutes, and an invocation that is not stopped finishes.
LiveSpec == Spec /\ \A i \in Cron : WF_vars(Remind(i))

-----------------------------------------------------------------------------

\* A working-day override decides for good, whatever is imported or created before or
\* after it and whichever of the two names the state.
OverrideIsFinal ==
  \A h \in organization, state \in State :
    h.isWorkingDayOverride /\ h.stateCode \in {AnyState, state}
      => ~isPublicHolidayForState(h.date, state)

\* A day off stays one unless the organization says otherwise: an import, with the same
\* calendar or with a newer one, makes no date a working day.
ImportOnlyAdds ==
  \A date \in Date, state \in State :
    isPublicHolidayForState(date, state)
      => \/ isPublicHolidayForState(date, state)'
         \/ \E h \in organization' \ organization :
              h.date = date /\ h.stateCode \in {AnyState, state} /\ h.isWorkingDayOverride

\* "the scheduled Worker sends a deduplicated reminder": nobody gets a second one.
RemindedOnce == \A u \in DevAdmin : notifications[u] <= 1

\* Somebody active who was not reminded is, while the window lasts and no year is imported.
EverybodyIsReminded ==
  \A u \in DevAdmin :
    InWindow /\ malaysia = {} /\ u \in active
      ~> notifications[u] > 0 \/ malaysia # {} \/ u \notin active \/ ~InWindow
=============================================================================
