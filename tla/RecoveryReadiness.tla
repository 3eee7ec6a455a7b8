-------------------------- MODULE RecoveryReadiness --------------------------
(***************************************************************************)
(* The daily check of the database by the cron job: its totals and the     *)
(* integrity of the file are read, an audit row records whether they pass, *)
(* and the platform owners are told of a failure (database-recovery.ts).   *)
(*                                                                         *)
(* Cron invocations may overlap, and each query of one is a step.  The     *)
(* counts of rows are reported and decide nothing: they are left out.      *)
(***************************************************************************)
EXTENDS Integers, FiniteSets, Sequences

CONSTANTS
  User,     \* the accounts with platformRole DEV_ADMIN
  MaxDay,   \* bound: the UTC days of a behaviour
  Cron,     \* the cron invocations that can overlap
  MaxFaults, \* bound: the statements that fail and the stops of the Worker
  MaxEdits  \* bound: the changes of owners and of the file

\* What the constants may be.
Parameters ==
  /\ MaxDay \in Nat \ {0} /\ MaxFaults \in Nat /\ MaxEdits \in Nat

VARIABLES
  day,
  active,  \* the users that are active
  healthy, \* quick_check answers "ok" and foreign_key_check nothing
  checks,  \* the audit rows D1_RECOVERY_CHECK_PASSED and _FAILED, in order
  told,    \* per entityId, the users with a D1_RECOVERY_CHECK_FAILED notification
  cron, faults, edits

vars == <<day, active, healthy, checks, told, cron, faults, edits>>

Day == 1..MaxDay

Idle == [pc |-> "idle"]

Invocations ==
  [pc : {"already", "owners"}, day : Day]
    \cup [pc : {"totals"}, day : Day, owners : SUBSET User]
    \cup [pc : {"integrity"}, day : Day, owners : SUBSET User, ownerCount : 0..Cardinality(User)]
    \cup [pc : {"audit"}, day : Day, owners : SUBSET User, passed : BOOLEAN]
    \cup [pc : {"notify", "report"}, day : Day, owners : SUBSET User]

TypeOK ==
  /\ day \in Day
  /\ active \subseteq User
  /\ healthy \in BOOLEAN
  /\ checks \in Seq([entityId : Day, createdAt : Day, passed : BOOLEAN])
  /\ told \in [Day -> SUBSET User]
  /\ cron \in [Cron -> {Idle} \cup Invocations]
  /\ faults \in 0..MaxFaults /\ edits \in 0..MaxEdits

Init ==
  /\ day = 1
  /\ active \in SUBSET User
  /\ healthy \in BOOLEAN
  /\ checks = <<>>
  /\ told = [d \in Day |-> {}]
  /\ cron = [i \in Cron |-> Idle]
  /\ faults = 0 /\ edits = 0

-----------------------------------------------------------------------------
(* What happens to the database.                                           *)

NextDay ==
  /\ day < MaxDay
  /\ day' = day + 1
  /\ UNCHANGED <<active, healthy, checks, told, cron, faults, edits>>

Change ==
  /\ edits < MaxEdits
  /\ edits' = edits + 1
  /\ \/ \E u \in User : active' = (active \ {u}) \cup ({u} \ active)
        /\ UNCHANGED healthy
     \/ healthy' = ~healthy /\ UNCHANGED active
  /\ UNCHANGED <<day, checks, told, cron, faults>>

-----------------------------------------------------------------------------
(* verifyDatabaseRecoveryReadiness.                                        *)

Continue(i, step) == cron' = [cron EXCEPT ![i] = step]

Start(i) ==
  /\ cron[i] = Idle
  /\ Continue(i, [pc |-> "already", day |-> day])
  /\ UNCHANGED <<day, active, healthy, checks, told, faults, edits>>

CheckedSince(d) == \E n \in DOMAIN checks : checks[n].createdAt >= d

\* An audit row created since the start of the invocation's day.
AlreadyChecked(i) ==
  /\ cron[i].pc = "already"
  /\ Continue(i, IF CheckedSince(cron[i].day) THEN Idle ELSE [pc |-> "owners", day |-> cron[i].day])
  /\ UNCHANGED <<day, active, healthy, checks, told, faults, edits>>

\* The actor of the audit row is one of them: without an owner there is only a log line.
FindOwners(i) ==
  /\ cron[i].pc = "owners"
  /\ Continue(i, IF active = {} THEN Idle
                 ELSE [pc |-> "totals", day |-> cron[i].day, owners |-> active])
  /\ UNCHANGED <<day, active, healthy, checks, told, faults, edits>>

\* collectDatabaseControlTotals: the owners are counted with the rows, the file is checked
\* after that.
CountTotals(i) ==
  /\ cron[i].pc = "totals"
  /\ Continue(i, [pc |-> "integrity", day |-> cron[i].day, owners |-> cron[i].owners,
                  ownerCount |-> Cardinality(active)])
  /\ UNCHANGED <<day, active, healthy, checks, told, faults, edits>>

recoveryChecksPass(ownerCount) == healthy /\ ownerCount = 1

CheckIntegrity(i) ==
  /\ cron[i].pc = "integrity"
  /\ Continue(i, [pc |-> "audit", day |-> cron[i].day, owners |-> cron[i].owners,
                  passed |-> recoveryChecksPass(cron[i].ownerCount)])
  /\ UNCHANGED <<day, active, healthy, checks, told, faults, edits>>

\* The row's entityId is the day the invocation started, its createdAt the time it is written.
Record(i) ==
  checks' = Append(checks,
    [entityId |-> cron[i].day, createdAt |-> day, passed |-> cron[i].passed])

Audit(i) ==
  /\ cron[i].pc = "audit"
  /\ Record(i)
  /\ Continue(i, IF cron[i].passed THEN Idle
                 ELSE [pc |-> "notify", day |-> cron[i].day, owners |-> cron[i].owners])
  /\ UNCHANGED <<day, active, healthy, told, faults, edits>>

\* Those of them who are active now.
Notify(i) ==
  /\ cron[i].pc \in {"notify", "report"}
  /\ told' = [told EXCEPT ![cron[i].day] = @ \cup (cron[i].owners \cap active)]
  /\ Continue(i, Idle)
  /\ UNCHANGED <<day, active, healthy, checks, faults, edits>>

\* A statement inside the try fails: the owners are told that the check could not run, once.
Fail(i) ==
  /\ faults < MaxFaults
  /\ faults' = faults + 1
  /\ cron[i].pc \in {"totals", "integrity", "audit", "notify"}
  /\ Continue(i, [pc |-> "report", day |-> cron[i].day, owners |-> cron[i].owners])
  /\ UNCHANGED <<day, active, healthy, checks, told, edits>>

\* The Worker stops, or a statement outside the try fails.
Stop(i) ==
  /\ faults < MaxFaults
  /\ faults' = faults + 1
  /\ cron[i] # Idle
  /\ Continue(i, Idle)
  /\ UNCHANGED <<day, active, healthy, checks, told, edits>>

Step(i) ==
  \/ Start(i) \/ AlreadyChecked(i) \/ FindOwners(i)
  \/ CountTotals(i) \/ CheckIntegrity(i) \/ Audit(i) \/ Notify(i)

Next == NextDay \/ Change \/ \E i \in Cron : Step(i) \/ Fail(i) \/ Stop(i)

Spec == Init /\ [][Next]_vars

\* The cron fires every five minutes, and an invocation that does not stop finishes.
LiveSpec == Spec /\ \A i \in Cron : WF_vars(Step(i))

-----------------------------------------------------------------------------

\* "The scheduled Worker runs one D1 recovery-readiness check per UTC day."
OneCheckPerDay ==
  \A m, n \in DOMAIN checks : checks[m].createdAt = checks[n].createdAt => m = n

\* A day on which the platform has an owner gets its check, or the owner is told that it could
\* not run, though statements fail and invocations stop.
EveryDayIsChecked ==
  \A d \in Day :
    day = d /\ active # {}
      ~> CheckedSince(d) \/ told[d] # {} \/ active = {} \/ day # d

\* "Active platform-owner count, which must equal one": while nothing changes, a check
\* passes exactly when the file is sound and one owner is active.
QuietResultIsRight ==
  edits = 0 =>
    \A n \in DOMAIN checks : checks[n].passed <=> healthy /\ Cardinality(active) = 1

\* "Failures create an in-app notification for the active platform owner."
FailureIsTold ==
  \A d \in Day :
    (\E n \in DOMAIN checks : checks[n].entityId = d /\ ~checks[n].passed) ~> told[d] # {}
=============================================================================
