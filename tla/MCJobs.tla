------------------------------- MODULE MCJobs -------------------------------
(***************************************************************************)
(* What runs without a user waiting, on small instances: the queues of     *)
(* WebhookDelivery and PayrollExport, and the cron jobs of GpsRetention,   *)
(* HolidayCatalogue and RecoveryReadiness.  They share nothing, so a       *)
(* behaviour is about one of them, the one part names, and the others stay *)
(* in their initial states.  Fairness is that of the part.                 *)
(*                                                                         *)
(*   webhook   one delivery and two copies of its message                  *)
(*   export    one export, two copies, consumers that end what they claim  *)
(*   gps       two organizations, two sweeps at a time, a stop, an edit    *)
(*   policy    one organization, two events, a day more                    *)
(*   reminder  two platform owners to be reminded                          *)
(*   recovery  two days, two owners, two faults and two changes            *)
(*   failure   two days without faults or changes                          *)
(***************************************************************************)
EXTENDS WebhookDelivery, TLC

CONSTANTS c1, c2, s1, s2, my, any, d1, u1, u2, i1

VARIABLES part,
          period, exportStatus, stored, expires, exportSender, exportListed, expiring, exportCopy,
          now, created, unfinished, policy, events, record, sweep, edits, stops,
          window, library, malaysia, organization, active, notifications, cron, cronStops,
          day, owners, healthy, checks, told, checker, faults, changes

exportVars == <<period, exportStatus, stored, expires, exportSender, exportListed, expiring, exportCopy>>
gpsVars == <<now, created, unfinished, policy, events, record, sweep, edits, stops>>
reminderVars == <<window, library, malaysia, organization, active, notifications, cron, cronStops>>
recoveryVars == <<day, owners, healthy, checks, told, checker, faults, changes>>
suiteVars == <<part, vars, exportVars, gpsVars, reminderVars, recoveryVars>>

Export == INSTANCE PayrollExport WITH
  ConsumersMayStop <- FALSE, status <- exportStatus, sender <- exportSender,
  listed <- exportListed, copy <- exportCopy

Gps == INSTANCE GpsRetention WITH
  Client <- {c1, c2}, Retention <- {1, 2}, DefaultRetention <- 1, MaxDay <- 3, MaxEvents <- 1,
  MaxEdits <- 1, MaxStops <- 1, Sweep <- {s1, s2}, NestedMayStop <- FALSE

Policy == INSTANCE GpsRetention WITH
  Client <- {c1}, Retention <- {1, 2}, DefaultRetention <- 1, MaxDay <- 4, MaxEvents <- 2,
  MaxEdits <- 1, MaxStops <- 1, Sweep <- {s1, s2}, NestedMayStop <- TRUE

Reminder == INSTANCE HolidayCatalogue WITH
  State <- {my}, Date <- {d1}, AnyState <- any, Library <- {[s \in {my} |-> {d1}]},
  DevAdmin <- {u1, u2}, WindowDays <- 2, Cron <- {i1}, MaxStops <- 1,
  day <- window, stops <- cronStops

Recovery == INSTANCE RecoveryReadiness WITH
  User <- {u1, u2}, MaxDay <- 2, Cron <- {i1}, MaxFaults <- 2, MaxEdits <- 2,
  active <- owners, cron <- checker, edits <- changes

Failure == INSTANCE RecoveryReadiness WITH
  User <- {u1, u2}, MaxDay <- 2, Cron <- {i1}, MaxFaults <- 0, MaxEdits <- 0,
  active <- owners, cron <- checker, edits <- changes

ASSUME JobParameters ==
  /\ Gps!Parameters /\ Policy!Parameters /\ Reminder!Parameters
  /\ Recovery!Parameters /\ Failure!Parameters

\* Outside their parts, the export is that of a locked period and the recovery check that of
\* a sound database with one owner.
SuiteInit ==
  /\ part \in {"webhook", "export", "gps", "policy", "reminder", "recovery", "failure"}
  /\ Init /\ Export!ExportInit /\ Reminder!Init /\ Recovery!Init
  /\ IF part = "policy" THEN Policy!Init ELSE Gps!Init
  /\ part # "export" => period = "LOCKED"
  /\ part \notin {"recovery", "failure"} => owners = {u1} /\ healthy

SuiteNext ==
  /\ UNCHANGED part
  /\ \/ /\ part = "webhook" /\ Next
        /\ UNCHANGED <<exportVars, gpsVars, reminderVars, recoveryVars>>
     \/ /\ part = "export" /\ Export!ExportNext
        /\ UNCHANGED <<vars, gpsVars, reminderVars, recoveryVars>>
     \/ /\ part = "gps" /\ Gps!Next
        /\ UNCHANGED <<vars, exportVars, reminderVars, recoveryVars>>
     \/ /\ part = "policy" /\ Policy!Next
        /\ UNCHANGED <<vars, exportVars, reminderVars, recoveryVars>>
     \/ /\ part = "reminder" /\ Reminder!Next
        /\ UNCHANGED <<vars, exportVars, gpsVars, recoveryVars>>
     \/ /\ part = "recovery" /\ Recovery!Next
        /\ UNCHANGED <<vars, exportVars, gpsVars, reminderVars>>
     \/ /\ part = "failure" /\ Failure!Next
        /\ UNCHANGED <<vars, exportVars, gpsVars, reminderVars>>

\* The FairSpec or LiveSpec of each component, in its own part.
WebhookFairness ==
  /\ WF_vars(part = "webhook" /\ ListPending)
  /\ WF_vars(part = "webhook" /\ \E c \in Copy : EnqueuePending(c))
  /\ \A c \in Copy : WF_vars(part = "webhook" /\ Consume(c))

ExportFairness ==
  /\ WF_exportVars(part = "export" /\ Export!enqueuePendingPayrollExports)
  /\ WF_exportVars(part = "export" /\ \E c \in Copy : Export!EnqueuePending(c))
  /\ WF_exportVars(part = "export" /\ Export!Age)
  /\ WF_exportVars(part = "export" /\ Export!expirePayrollExports)
  /\ SF_exportVars(part = "export" /\ Export!DeleteObject)
  /\ SF_exportVars(part = "export" /\ Export!MarkExpired)
  /\ \A c \in Copy : WF_exportVars(part = "export" /\ Export!Consume(c))

CronFairness ==
  /\ \A c \in {c1, c2} : WF_gpsVars(part = "gps" /\ Gps!CreatePolicy(c))
  /\ \A s \in {s1, s2} :
       /\ WF_gpsVars(part = "gps" /\ Gps!StartSweep(s))
       /\ \A turn \in Gps!Turn :
            WF_gpsVars(part = "gps" /\ Gps!Purge(s, turn))
  /\ WF_reminderVars(part = "reminder" /\ Reminder!Remind(i1))
  /\ WF_recoveryVars(part = "recovery" /\ Recovery!Step(i1))
  /\ WF_recoveryVars(part = "failure" /\ Failure!Step(i1))

Suite ==
  SuiteInit /\ [][SuiteNext]_suiteVars /\ WebhookFairness /\ ExportFairness /\ CronFairness

-----------------------------------------------------------------------------

\* Every webhook and every export that was asked for is settled in the end and stays so:
\* none is lost between the request, the queue and the cron job, and late copies of a
\* message leave none half-way (webhook-queue.ts, payroll-export.ts); unless the dead letter
\* consumer fails twice.
QueuesSettle == EventuallySettled /\ Export!ExportsSettle

\* What the cron jobs are for gets done although the Worker stops between two statements:
\* coordinates past their retention go, everybody who should import the next year's holidays
\* is told, each day gets its recovery check or its owner hears that there was none, and a
\* failed check is told to the owner.
CronJobsGetDone ==
  /\ part = "gps" => Gps!ExpiredArePurged
  /\ Reminder!EverybodyIsReminded
  /\ part = "recovery" => Recovery!EveryDayIsChecked
  /\ part = "failure" => Failure!FailureIsTold

\* A sweep removes coordinates only when a policy lets them go that was in force at some moment
\* since the sweep read all policies (purgeExpiredExactGps): an edit that falls into the sweep
\* may come too late for it, but no older policy decides, and no later day.
PurgedByPolicy ==
  [][ /\ part = "gps" => Gps!PurgesByPolicy
      /\ part = "policy" => Policy!PurgesByPolicy ]_suiteVars

\* Every POST to a webhook is counted, whatever copies of its message arrive, and a delivery
\* is given up only when a message has used up its retries.  One cron invocation at a time
\* reminds nobody twice and checks no day twice, and while nothing changes its check passes
\* exactly for a sound file with one owner.
JobsActOnce ==
  /\ TypeOK /\ PostsAreCounted /\ GivenUpOnlyWhenExhausted
  /\ part = "export" => Export!ExportTypeOK
  /\ part = "gps" => Gps!TypeOK
  /\ part = "reminder" => Reminder!TypeOK /\ Reminder!RemindedOnce
  /\ part = "recovery" => Recovery!TypeOK /\ Recovery!OneCheckPerDay /\ Recovery!QuietResultIsRight
=============================================================================
