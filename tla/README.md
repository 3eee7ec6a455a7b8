# Attendance: formal model

TLA+ modules, TLC configurations and TLAPS proofs about the state-changing code of the attendance,
leave and payroll service in this repository: the API (`src/apps/api`), the Cloudflare Worker with
its D1 database, queues and cron job (`src/cloudflare`), and those parts of the web client that keep
state (`src/apps/web/src/lib`). Where a handler has a D1 and a PostgreSQL branch, the module of the
component is about D1, which is what is deployed; `PostgresClock` and `PostgresLeave` model the
other branch of the clock actions and of leave.

## The system

| Component | State | Operations | Interacts with | Modules |
|---|---|---|---|---|
| Clock actions v2 (`attendance-v2.controller.ts`) | events, record, timesheet, webhook row | clock in/out, breaks, GPS rejection, replay of a key | coordinator `attendance:<sub>`, webhook queue | `AttendanceRules`, `AttendanceTables`, `ClockActions`, `PostgresClock`, `ShiftLog` |
| Attendance cron job (`attendance-exceptions.ts`) | timesheets | mark absences, flag overdue days | no coordinator | `AttendanceCron` |
| Pay periods (`payroll-v2.controller.ts`) | period status, timesheet states | create, REVIEW, APPROVE, LOCK, REOPEN | coordinator `global` | `PayPeriodLock`, `PayrollRun` |
| Write coordinator (`worker.ts`) | none: it awaits the handler | routes a mutating request to one Durable Object | all handlers | `CoordinatorSerializes` in every module |
| Corrections, GPS requests, v1 clock (`requests-v2`, `attendance.controller.ts`) | corrections, adjustments, timesheets, events | request, review, legacy clock in/out | both coordinators, the lock | `AttendanceRequests` |
| Leave (`requests-v2`, `leave-allocation.ts`) | requests, balance, allocations, timesheets | request, cancel, review, entitle, allocate | both coordinators, the lock | `LeaveRequests`, `PostgresLeave`, `LeaveRules` |
| Payroll calculation run (`payroll-calculation-run.ts`) | runs, acknowledgements, advance balances | calculate, acknowledge, lock | period transitions | `PayrollRun` |
| Adjustments and statements | adjustments, decisions, deliveries | create, decide, e-mail | locked runs, mail provider | `PayrollAdjustments` |
| Payroll exports (`payroll-export.ts`) | export job, object storage | request, claim, complete, expire, download | queue, cron, bucket | `PayrollExport` |
| Webhook queue (`webhook-queue.ts`) | delivery row | enqueue, process, dead letter | queue, endpoint, cron | `WebhookDelivery` |
| Sessions (`auth-sessions.ts`, `auth-v2`, `password-recovery`) | sessions, password version, reset tokens | sign in, rotate, sign out, change, reset | coordinators, browser | `AuthSessions` |
| Lockout and second factor (`auth-v2`, `mfa.ts`) | counters, secret, recovery codes | sign in, verify, set up, enable | coordinators | `AccountSecurity` |
| Web client (`auth.ts`, `attendance.ts`, `EmployeePage.tsx`) | tokens and cookie; pending keys and the page | refresh, sign out; act, retry, reload | the API over a lossy network | `SessionClient`, `ClockClient` |
| GPS retention, holidays, recovery check | policies, coordinates; holidays, notifications; audit rows | sweep; import, remind; check, tell | cron | `GpsRetention`, `HolidayCatalogue`, `RecoveryReadiness` |
| Administration | accounts, memberships, reports; organizations, numbers; effective-dated rows | create, deactivate, assign; create; create from a date | coordinator `global` | `OrganizationAccounts`, `OrganizationSetup`, `EffectiveDating` |
| D1 shadow comparison (`d1-shadow.ts`) | configuration, counters | configure, compare | both readers of the database | `D1Shadow` |
| Calculations | none (pure) | timesheet, schedule, pay, contributions, leave plan | called by the writers | `TimesheetCalculator`, `PayrollCalculator`, `StatutoryContributions`, `LeaveRules` |

What is hard in it: requests that interleave wherever they await the database; writers of one
timesheet on different coordinators or on none; D1 transactions that neither lock nor roll back, so
that a handler of several statements can stop half-way; on PostgreSQL, transactions that read what
others are about to change; keys, messages and answers that are lost, repeated or reordered; cron
jobs that act on rows they read earlier; shifts over midnight; and money that must add up at every
edge of a table. `PROJECT.json` lists each hazard at its line with the properties that cover it.

## How code and model correspond

A handler is one action per database statement, batch or await, each with the tests the code makes
there. A request in flight is a record in `flight[f]` (or `handler[h]`) that holds what the code
holds in variables: its `pc` and the rows it has read, which may be stale when they are used. A
refused request is an action that is not enabled, or one that finishes without an effect.
`CoordinatorSerializes` says whether a request may start while another one of the same coordinator
is in flight: `FALSE` is what `worker.ts` does, which awaits the handler without a lock; `TRUE` is
what `docs/architecture.md` promises. `MayStop` (and `ConsumersMayStop`, `RequestsStop`,
`NestedMayStop`) lets a Worker stop between any two statements.

| Code | Model |
|---|---|
| `AttendanceEvent` rows of an employee | `events`, with `type`, work date, key and a step of `now` |
| `TimesheetDay` | `sheet[d]`: `state`, `codes`, and `basis`, the events its minutes were calculated from |
| `attendanceDate()` | `today`, advanced by `Midnight` |
| `$transaction([...])` or `batch()` on D1 | one atomic action |
| `$transaction(async tx => ...)` on D1 | one action per statement, with a stop or an error between any two |
| the same on PostgreSQL | a snapshot or the current rows, by isolation level, and a commit that conflicts |
| queue messages | `copy[c]`, with its place and its retries |
| `PayrollCalculationRun` rows | `runs[p]`: status, version, employees, what was acknowledged and repaid |
| `AuthSession` rows | `sessions`: family, status and successor |
| browser storage | `cookie`, `token[t]`, the pending keys of `ClockClient` |

`ClockActions`, `AttendanceCron` and `PayPeriodLock` extend `AttendanceTables` and are composed by
`AttendanceSystem`; `SessionClient` extends `AuthSessions`, the server it talks to; `ClockClient`
extends `ClockActions` likewise; `PostgresClock` and `PostgresLeave` use the tables and rules of
their D1 counterparts. `ShiftLog` is the abstract specification of the clock: a history of shifts,
each a clock-in, breaks and a clock-out on one work date. `AttendanceSystem` and `PostgresClock`
state by INSTANCE that they implement it.

## What the runs check

Components that share no state are checked together: an MC module extends one of them, instantiates
the others on variables of their own, and its variable `part` says which one a behaviour is about.
The header of each MC module lists the parts with their bounds. A property of such a suite is a
conjunction of the properties of its parts; each of these is defined and explained in the
component's module. Models stop when their bounds are used up, so the configurations turn deadlock
checking off.

* **requests** (`MCRequests`). `EffectsMatchDecisions`: a correction has the effects its decision
  says, once, and approved times survive. `DaysAreSettled`: a locked day has its GPS requests
  decided, one correction is pending at a time, payable days are clean, whoever wrote last.
  `ReviewsSpareLockedDays`: a review leaves a row alone that was locked after it was read.
  `ApprovalsStay`: where requests do not overlap, later clock actions recalculate the day from an
  event that the approval recorded. `PageTellsTheTruth`: repeating an action that nothing
  acknowledged adds no second event, on a reliable network the page offers only what the server
  accepts, and what it shows as done is in the table. Two requests in flight reach every pair of
  writers of a day, and four steps of the clock a shift with a correction on either side; three
  keys and two days are a retry, its successor and the day after.
* **leave** (`MCLeave`). `BalanceFollowsRequests`: the balance is the sum of the requests, and their
  minutes are reserved within what is left. `ApprovedLeaveCounts`: exactly the approved requests are
  on the timesheets, no day is taken twice, and an allocation stays inside its request.
  `ChecksHoldUntilWritten`: the lock of a period and leave inside it exclude each other, whatever
  was checked before. `PostgresKeepsLeave`: the same of two transactions and the conflicts of their
  isolation levels. Two requests and two days are an overlap, a request across the end of the
  period, and two claims on one balance.
* **payroll** (`MCPayroll`). `ApprovedIsReviewed`: what a period carries is the latest calculation,
  reviewed in that version with its warnings acknowledged, and periods are disjoint. `LocksStand`: a
  period is locked on exactly the employees of that moment, and stays locked.
  `RecordsAreCarriedOut`: what locked runs deduct for an advance was taken off its balance, the
  floor of zero swallows no approved deduction, a SENT row was sent, decisions are final.
  `DownloadableHasFile`, `ClaimIsExclusive`: an export with a download has its file, and one
  consumer works on it. Two runs of a period are a reopened calculation; two employees and two
  periods are an advance that two calculations see.
* **jobs** (`MCJobs`). `JobsActOnce`, `SettledIsFinal`, `PurgedByPolicy`, `QueuesSettle` and
  `CronJobsGetDone`: deliveries are counted and final, reminders and checks happen once; and, under
  fairness, every delivery and export settles, expired coordinates go, owners are told. A sweep
  works with the policies it read first, and an edit does not wait for it: `PurgedByPolicy` says
  that it removes coordinates only when a policy lets them go that was in force since it read them,
  which is the current one where no edit came between.
* **clock_safety**, **clock_races** (`AttendanceSystem`). With one request at a time
  `NoEventLost`, `TablesAgree` and `EventsAreShifts`; with requests that interleave still
  `OneEventPerKey`, `PayableDaysAreClean` and `OpenDaysEnd`. Two days are needed for shifts over
  midnight and a day outside the period; four requests make a shift with a break, or two shifts in a
  day.
* **sessions** (`MCSessions`). `ExchangedOnce`, `OneUsablePerFamily`, `FamilyEndsForGood` for
  requests that interleave and stop; `SessionsAreSound`: a password change ends the sessions of the
  old one, and one tab keeps a cookie that works; `OneTabStaysSignedIn`; `SignInsAreGuarded`: the
  lockout counts, recovery codes work once, and a second factor is asked for only after it was
  proved. The lockout is tried by sign-ins that interleave, the second factor by one request at a
  time that may stop, except between a count and its lock: a stop there gives one more try, which no
  bound on the tries survives. Three sessions are two generations and a rival.
* **administration** (`MCAdministration`). `OneInForce` and `HistoryIsFixed` of the effective-dated
  tables; `AdministrationHoldsTogether`: accounts, organizations, names, numbers and reports, and
  whom an employee's request tells. Each statement of `approvalRecipientIds` and `notifyUsers` is a
  step after the request is stored, next to a request that deactivates or reassigns (part
  "requests", not serialized). `RequestsReachSomeone`: once answered it has told somebody, and only
  users who can sign in, if an administrator could when it began and nobody was deactivated since;
  `ApproversAreInCharge`: where requests do not overlap, those told can review it.
  `ReadersAgree`: holidays and the shadow comparison. Three dates are one before, between and after.
* **postgres_clock** (`MCPostgresClock`). `NoEventLost`, `OnlyRacesChangeLocked`,
  `EveryRequestIsAnswered` of the clock transactions under the advisory lock.
* **rules** (`MCRules`). `TimeIsCounted` compares the calculators of time with tick-by-tick and
  day-by-day counts over every log of up to four events and every small calendar, also orders of
  events that the transition rule refuses, since corrections and imports reach the calculator too.
  `MoneyAddsUp`: statements, daily salaries, tiers and contributions, the latter on both sides of
  every edge of their tables.

Two runs end in a violation and show a statement of the docs that the code does not keep
(`PROJECT.json`, "findings"): **coordinator_interleaves** and **payroll_partial_lock**.

### Fairness

Liveness is checked in four runs. The cron trigger fires every five minutes for ever
(`wrangler.jsonc`), so the query of a cron job has weak fairness; a job that the Worker cuts off
again and again has strong fairness of the step that follows (`OpenDaysEnd`, the expiry of exports)
or a bound on the stops (`MaxStops`). A queue delivers a message until it is acknowledged or its
retries are used up: weak fairness of each message's consumer, and none of the steps by which an
enqueue, a statement or a consumer fails. A PostgreSQL transaction that holds the lock ends, and a
waiting one is granted it if it is free again and again (the server's lock queue). Nothing is
assumed of employees, administrators or the network of a browser.

## What the code does not keep

Further disagreements between the code and what its docs, comments or answers say. Each is a
property of the module named, false under the constants given (`S` for `CoordinatorSerializes`);
none of the runs above checks it, or only with the other value.

| Property (module) | Constants | Code | What happens |
|---|---|---|---|
| `RejectionsSpareLockedTimesheets` (`AttendanceSystem`) | any | `attendance-v2.controller.ts:403` | the GPS rejection writes to a LOCKED timesheet |
| `LockedTimesheetsAcceptNoEvents` (`AttendanceSystem`) | any | `attendance-v2.controller.ts:276` | a clock action that read the day before the lock commits after it |
| `LockingIsRejectedWhileUnresolved` (`AttendanceSystem`) | any | `payroll-v2.controller.ts:175` | a day that became unresolved after the counts of LOCK is locked |
| `FlaggedDaysMissAClockOut` (`AttendanceSystem`) | any | `attendance-exceptions.ts:49` | the cron job flags a day that was clocked out after its query |
| `EffectsMatchDecisions` (`AttendanceRequests`) | not S | `requests-v2.controller.ts:187` | two reviews of one correction both apply |
| `ApprovedTimesAreKept` (`AttendanceRequests`) | S, two in flight | `attendance-v2.controller.ts:276` | a clock action that read before an approval overwrites its time |
| `ApprovalsAppend` (`AttendanceRequests`) | any | `requests-v2.controller.ts:383` | an approved GPS clock-out lands before a later break |
| `RecordedClockOutsAreEvents` (`AttendanceRequests`) | `RequestsStop` | `attendance.controller.ts:76` | a v1 clock-out stops before its event |
| `RecordedClockOutsAreEvents` (`AttendanceRequests`) | `LegacyClients` | `legacy-attendance-events.ts:14` | the second v1 clock-out of a day finds the event of the first |
| `LegacyClockSparesLockedDays` (`AttendanceRequests`) | `LegacyClients` | `legacy-attendance-events.ts:21` | the v1 clock recalculates a LOCKED day |
| `BalanceMatchesRequests` (`LeaveRequests`) | not S | `requests-v2.controller.ts:117` | two decisions on one request both release its minutes |
| `AcceptedWithinBalance` (`LeaveRequests`) | not S | `requests-v2.controller.ts:326` | two requests exceed the balance |
| `ApprovalsKeepShiftsRunning` (`LeaveRequests`) | S, two in flight | `requests-v2.controller.ts:162` | an approval closes a day that was clocked in after its read |
| `OneStatementPerPeriod` (`PayrollRun`) | `MayStop`, two runs | `payroll-calculation-run.ts:249` | a stop inside LOCK leaves a locked run in a period that is locked again |
| `DeductionsAreItemized` (`PayrollRun`) | `MayStop` | `payroll-calculation-run.ts:216` | a run whose lines are missing is locked and repays nothing |
| `RepaidOncePerPeriod` (`PayrollRun`) | not S | `payroll-calculation-run.ts:243` | two LOCK requests repay an advance twice |
| `PeriodsAreDisjoint` (`PayrollRun`) | not S, two periods | `payroll-v2.controller.ts:57` | two periods share a day |
| `NothingIsSwallowed` (`PayrollAdjustments`) | not S | `payroll-statements.controller.ts:232` | two deductions are approved against one total |
| `DecisionsAreNotified` (`PayrollAdjustments`) | any | `payroll-statements.controller.ts:235` | a decision stands without its notification |
| `FailedRowsWereRefused` (`PayrollAdjustments`) | any | `payroll-statements.controller.ts:119` | a mail the provider accepted is recorded as FAILED |
| `ExportsSettle` (`PayrollExport`) | `ConsumersMayStop` | `payroll-export.ts:104` | a consumer that stops leaves the job PROCESSING for ever |
| `PrivateFilesExpire` (`PayrollExport`) | any | `payroll-export.ts:141` | a file whose row was never completed is never removed |
| `ClaimedByOneRefresh` (`AuthSessions`) | not S | `auth-sessions.ts:86` | two refreshes both create a successor (which stays harmless) |
| `PasswordEndsSessions` (`AuthSessions`) | `MayStop` | `password-recovery.controller.ts:41` | a reset stops before it ends the old sessions |
| `StaysSignedIn` (`SessionClient`) | two tabs | `auth.ts:74` | the refreshes of two tabs end the session |
| `StaysSignedIn` (`SessionClient`) | `MayLose` | `auth-sessions.ts:71` | a lost answer to a refresh ends the session |
| `SignOutTakes` (`SessionClient`) | one tab, two in flight | `auth.ts:132` | a refresh under way undoes a sign-out |
| `CodesAreOneTime` (`AccountSecurity`) | not S | `auth-v2.controller.ts:151` | two sign-ins use one recovery code |
| `EnabledStays` (`AccountSecurity`) | not S | `auth-v2.controller.ts:170` | a set-up that read "not enabled" disables a second factor enabled since |
| `DoneIsCurrent` (`ClockClient`) | `MayLose`, two days | `attendance.ts:27` | a kept key answers a later action with the old event |
| `OpenShiftCanEnd` (`ClockClient`) | two days | `attendance.controller.ts:32` | after midnight the page offers no clock-out of an open shift |
| `OneInForce` (`EffectiveDating`) | not S | `payroll-foundation.controller.ts:165` | two profiles are in force on one day |
| `NoGapBetweenProfiles` (`EffectiveDating`) | `MayStop` | `payroll-foundation.controller.ts:169` | a stop leaves a gap between two profiles |
| `AccountsAreComplete` (`OrganizationAccounts`) | `MayStop` | `admin-employees.controller.ts:59` | an account without its membership takes the name for good |
| `ReportsAreKept` (`OrganizationAccounts`) | `MayStop` | `workforce-v2.controller.ts:258` | a stop leaves a manager without reports |
| `ReviewsAreInScope` (`OrganizationAccounts`) | not S | `requests-v2.controller.ts:378` | a manager decides after the report was reassigned |
| `AdminManagesOwnEmployees` (`OrganizationAccounts`) | any | `admin-scope.ts:44` | an administrator manages employees that others created |
| `AnswersReachSomeone` (`OrganizationAccounts`) | not S | `notifications.ts:10` | a manager deactivated after `approvalRecipientIds` chose it is filtered out: nobody is told, though an administrator could be |
| `ApproversAreInCharge` (`OrganizationAccounts`) | not S | `notifications.ts:20` | the report was reassigned, or the recipient deactivated, before the request is answered |
| `[][NobodyIsLeftOut]_vars` (`OrganizationAccounts`) | `MayStop` | `requests-v2.controller.ts:342` | a request that stops after its commit is stored and told to nobody |
| `[][PurgesByCurrentPolicy]_vars` (`GpsRetention`) | any | `gps-retention.ts:5` | a sweep follows the retention it read, though it was extended meanwhile |
| `ExpiredArePurged` (`GpsRetention`) | `NestedMayStop` | `gps-retention.ts:5` | an organization without a policy row is never swept |
| `RecordsArePurged` (`GpsRetention`) | any | `gps-retention.ts:8` | coordinates stay in the attendance record |
| `RemindedOnce` (`HolidayCatalogue`) | two cron invocations | `malaysia-holidays.ts:72` | a user is reminded twice |
| `OneCheckPerDay` (`RecoveryReadiness`) | two cron invocations | `database-recovery.ts:69` | a day is checked twice |
| `FailureIsTold` (`RecoveryReadiness`) | `MaxFaults` > 0, stops | `database-recovery.ts:84` | a failed check is told to nobody |
| `LockedTimesheetsAcceptNoEvents` (`PostgresClock`) | any | `attendance-v2.controller.ts:465` | a clock transaction commits an event after the lock |
| `BalanceMatchesRequests` (`PostgresLeave`) | with "cancel" | `requests-v2.controller.ts:359` | a request cancelled twice gives its minutes back twice |
| `OrganizationNamesDiffer` (`OrganizationSetup`) | not S | `admin-clients.controller.ts:33` | two organizations get one name |
| `EmployeeNumbersDiffer` (`OrganizationSetup`) | not S | `workforce-v2.controller.ts:103` | two employees get one number |
| `WorksiteNamesDiffer` (`OrganizationSetup`) | any, on D1 | `admin-worksites.controller.ts:40` | two worksites get one name |
| `OrganizationsAreComplete` (`OrganizationSetup`) | `MayStop` | `admin-clients.controller.ts:37` | an organization has no policy and its name is taken |

## Assumptions

* A D1 batch is atomic, one statement is atomic; a Prisma interactive transaction or nested create
  on D1 is neither, and writes its rows one by one (`docs/operations/d1-migration.md`, `prisma.ts`).
  `acquireDatabaseLock` does nothing on D1.
* `occurredAt` orders events as their preflights ran: one server clock, which does not run
  backwards.
* `PayPeriodLock` runs one transition of a period at a time; `PayrollRun` has them interleave.
* `MeasuredCodes` leaves open which schedule and hours codes a recalculation raises; a theorem holds
  for any choice. The absence marking of a day is one step.
* The webhook endpoint stays configured while a delivery exists; an update that reports failure was
  not applied. In `PayrollExport` a consumer lives less long than a file is kept (`Age`).
* `PayrollCalculator` divides exactly and rounds where the code rounds. Wages are in sen.
* `ClockClient` has one page open at a time, and a page loads in one step.
* `PostgresLeave` takes the conflicts of SERIALIZABLE per row; the requests it models have no
  others.
* A leave year has at least one day (`LastDay > 0`).
* Dates are calendar days. The code's patterns (`payroll-foundation.controller.ts:19`,
  `requests-v2.controller.ts:11`) also accept 2026-02-31, which `previousIsoDate` and the `dateRange`
  of leave carry over into March: a row that is cut before such a date ends after it starts, so
  that `OneInForce` fails even serialized, and leave is put on days the request does not name.
* Who is a platform owner is set by an operator, not by a request (`HolidayCatalogue`,
  `RecoveryReadiness`). In `D1Shadow` both readers see one database, as the staging binding does.

## What is proved

TLAPS checks these for all values of the constants that satisfy the modules' named assumptions.
"Serialized" marks theorems that have `CoordinatorSerializes` as a hypothesis: they say what the
code keeps if one request of a coordinator runs at a time, as `docs/architecture.md` promises. The
others hold without it.

* `AttendanceProofs`: `TypeCorrect`, `OneEventPerKeyHolds`, `PayableDaysAreCleanHolds`, for any
  number of days, requests and handlers. `TypeInv` adds `LatestExists` to the types; `CleanInv` says
  that the batches handlers hold are clean too, since they are written later whatever happened to
  the row. Serialized: `NoEventLostHolds` and `ClockActionsImplementShiftLog`, by `SerialInv`: at
  most one handler is busy, and its batch is what a preflight would prepare now; and
  `TablesAgreeHolds`, by `StoryInv`: a row that payroll pays was calculated from events that end
  with a clock-out (`ClosedRow`), and the record tells of the first clock-in and the last clock-out
  (`Tells`).
* `PostgresProofs`: `TypeCorrect`, `NoEventLostHolds`, `EventsAreShiftsHolds`,
  `OnlyRacesChangeLockedHolds`. `TypeCorrect` includes that exactly the request past its first
  statement holds the lock; `LockInv` says that what it has decided is therefore still right, and
  `RacedInv` that a request about to write to a LOCKED day was in its transaction when the period
  was locked.
* `RequestsProofs`: `TypeCorrect` and `CorrectedDaysAreCleanHolds`. A clock action in flight carries
  a clean row that is not LOCKED (`Sound`), and GPS requests have a time (`Timed`). Serialized:
  `EffectsMatchDecisionsHolds`, `DaysAreSettledHolds`, `ReviewsSpareLockedDaysHolds`. Clock actions
  of the other coordinator go on beside the one request of `global` (`OneAtATime`), so `Current`
  says what they leave true: nothing is pending where a request is created or the day is locked,
  the correction under review is undecided, and a row that is LOCKED was LOCKED when the review
  read it, since no clock action writes LOCKED. `ApprovalsStayHolds` is about `MCRequests` with any
  constants, in the part without overlapping requests: approved times have their events
  (`HasEvents`), and whatever is pending or in flight repeats what was approved before (`Kept`).
  `PageTellsTheTruthHolds` is about the page in `MCRequests`, with any times, keys and requests. A
  key stands for one action, which is acknowledged or still pending (`KeysAreActions`), an answer
  has its event (`AnswersAreEvents`), so the events of a type that nothing acknowledged all have
  the pending key. The steps of the reliable network are steps of the other one
  (`ReliableIsLossy`), on which the page is also up to date but for one request (`UpToDate`).
* `LeaveProofs`: `PlansAreExact` and `EarliestDaysAreFilledFirst`, about `planLeaveAllocations` for
  any finite set of days; instead of an induction over them, the proofs look at a smallest set of
  days for which a claim about a sum fails, or at the first day that does. `TypeCorrect` and
  `LeaveExcusesAbsenceHolds`: a clock action never writes that a day is an absence, and rows that a
  request relies on are there (`Sound`). Serialized: `BalanceFollowsRequestsHolds`,
  `ApprovedLeaveCountsHolds`, `ChecksHoldUntilWrittenHolds`. `Serial` is again `OneAtATime` with
  what the one request has checked (`Current`); `BooksInv` relates balance, requests, allocations
  and timesheets, and needs that only approved requests are allocated.
  On PostgreSQL, `PostgresKeepsLeaveHolds`, about both parts of `MCLeave` with any number of
  transactions in flight. `PgInv` says what each of them relies on when it commits (`Relies`): a row
  that it was not told of is as its checks saw it, and an approval in a locked period precedes and
  follows the lock, so it is rolled back. The generic steps `PgStep` stand for both parts; in
  "requests", without cancellations, `PgBooks` keeps the copies of the minutes equal.
* `WebhookProofs`: `DeliveredWasAcceptedHolds`, `PostsAreCountedHolds` (for finitely many copies),
  `SettledIsFinalHolds`, strengthened by what a copy that saw success knows and by counting the
  posts under way. And of the suite `MCJobs`, with its instances of the other jobs:
  `JobsActOnceHolds`. What is on the dead letter queue has used up its retries (`Exhausted`); whom
  the reminder is about to tell has not been told (`ReminderInv`); since the day of a recovery check
  under way nothing was checked, and no audit row is of a day to come (`Finds`, `Dated`).
  `PurgedByPolicyHolds`, with edits at any moment of a sweep: what it read of a client and what is
  in force now are both among the policies seen in force since (`SweepsAreCurrent`; the field
  `granted` of a turn is a history variable), because an edit adds to them and a client that has no
  policy is in no sweep.
* `AuthSessionsProofs`: `ExchangedOnceHolds`, `OneUsablePerFamilyHolds`, `FamilyEndsForGoodHolds`,
  wherever requests stop. The invariant: a session succeeds one that the client knew and that is
  revoked (`Chained`), requests work on rows and sessions the client knows (`Held`), and at most one
  successor of a session is told, or will be (`ToldOnce`). The key lemma, `ShapeNext`, is that a
  step keeps all sessions but for one it may create. Serialized, and while no request stops:
  `PasswordEndsSessionsHolds`. A reset has four statements, so `Shown` is silent between the new
  password and the end of the sessions; otherwise it says that whoever can use a session, and a
  sign-in under way, has shown the current password. Of what comes before a session:
  `SecurityTypeCorrect`, where a code's uses are at most the requests (`CodesCounted`), and
  `TriesAreBoundedHolds`, for requests that interleave and do not stop: while the account is open,
  whoever counted to the limit is about to lock it, and while it is locked only the requests that
  read it before can still count (`TriesCounted`). Serialized, wherever a request stops:
  `CodesAreOneTimeHolds`, `EnabledIsProvedHolds`, `EnabledStaysHolds`, since what the one request
  read stays true until it acts on it (`ReadsHold`). `SignInsAreGuardedHolds` joins them. Of the
  browser with one tab: `SessionsAreSoundHolds`, `OneTabStaysSignedInHolds`. Unless the user is about
  to sign out, one request is on its way, with a session that works until it is exchanged, or
  nothing is and the cookie works (`TabInv`); so no answer that signs out can come.
* `EffectiveDatingProofs`, serialized: `OneInForceHolds`, `HistoryIsFixedHolds`. Rows do not overlap
  (`Apart`), a table with rows has a latest one (`HasLatest`), one request is in flight (`Alone`),
  and the row it is about to write fits (`Ready`). Of the suite `MCAdministration`, with its
  settings: `AdministrationHoldsTogetherHolds`. A date from a profile's start on has a profile or is
  about to get one (`Followed`), what the request in flight checked about names and numbers still
  holds (`NamesHold`), parts of an organization are missing only while its nested create is under
  way (`NestedIsUnderWay`), and an account's rows have their users (`RowsHaveUsers`, `AccountsHold`).
  Of the requests that tell somebody, whoever overlaps: as long as nobody is deactivated (the
  history variable `steady`), whom a request has found can sign in, and an administrator is there to
  be found (`SteadyHold`). Serialized, what it found stays in charge too (`ToldInCharge`).
  `ReadersAgreeHolds`, about the shadow comparison: the override of an organization is among the
  entries that decide, imports only add, and a comparison that nobody wrote during holds what the
  rows say (`Unwritten`).
* `PayrollProofs`: `RunsTypeCorrect`, which needs that the run and the result a request writes to
  are there, however requests interleave (`Sound`). Serialized, and wherever a request stops:
  `ApprovedIsReviewedHolds`, `LocksStandHolds`. What the one request in flight checked is still so
  when it writes (`Current`): the period has its status, the run is the latest one, it is ready and
  covers the employees, who cannot change meanwhile. A draft carries no run (`Unreviewed`), so that
  a new calculation takes nothing from a review. Of the export: `ExportTypeCorrect`,
  `DownloadableHasFileHolds`, `ExpiredHasNoFileHolds`, `ClaimIsExclusiveHolds`: what was put and has
  not expired is in the bucket (`FileInv`), nobody works on a job that has expired (`ExpiryInv`),
  and one consumer works until a dead letter was processed (`ClaimInv`).

Only model-checked, and why: liveness under fairness, which is out of the prover's reach; what the
calculators compute for every input (`TimeIsCounted`, `MoneyAddsUp`), which needs induction over
data that the installed provers cannot do; the sums of the advances in `RecordsAreCarriedOut`; and
the adjustments.

## Not modelled, and why

* Rendering: PDF, spreadsheets, e-mail texts, web pages, language, logging, and the geofence
  formula. No state follows from them.
* Departments, shift templates, work policies, payroll settings, pay components and permissions:
  single writes of what a form holds, which the other modules take as input.
* The recovery drill (`scripts/d1/run-recovery-drill.mjs`): a script that an operator runs against a
  copy.
* In modelled components: the list of organizations in the shadow comparison; the PostgreSQL branch
  of correction reviews and of the token rotation; the early return of the payroll calculator
  without a profile, where all amounts are zero; paid against unpaid minutes in the leave module;
  notifications and audit rows where no property is about them.
