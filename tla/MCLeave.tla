------------------------------- MODULE MCLeave -------------------------------
(***************************************************************************)
(* LeaveRequests on D1 and PostgresLeave on PostgreSQL, on small           *)
(* instances: a day of two scheduled minutes in the pay period and one of  *)
(* a single minute after it.  Each database has its own rows; part says    *)
(* which of them a behaviour writes to, and the other one stays as it was. *)
(*                                                                         *)
(*   D1         two requests for leave, the coordinator serializing        *)
(*   requests   PostgreSQL: two requests for leave, nothing cancelled      *)
(*   shifts     PostgreSQL: one request, with cancellation and the clock   *)
(***************************************************************************)
EXTENDS LeaveRequests, TLC

CONSTANT l1

VARIABLES part, pgRequests, pgBalance, pgSheet, pgAllocations, pgPeriod, tx

pgVars == <<pgRequests, pgBalance, pgSheet, pgAllocations, pgPeriod, tx>>

suiteVars == <<part, vars, pgVars>>

TwoDays == <<2, 1>>

PgRequests == INSTANCE PostgresLeave WITH
  requests <- pgRequests, balance <- pgBalance, sheet <- pgSheet, allocations <- pgAllocations,
  period <- pgPeriod, Kind <- {"create", "approve", "reject", "lock"}

PgShifts == INSTANCE PostgresLeave WITH
  requests <- pgRequests, balance <- pgBalance, sheet <- pgSheet, allocations <- pgAllocations,
  period <- pgPeriod, Leave <- {l1}, Kind <- {"create", "approve", "reject", "cancel", "lock", "clock"}

ASSUME KindsAreKnown == PgRequests!Parameters /\ PgShifts!Parameters

SuiteInit ==
  /\ Init
  /\ \/ part \in {"D1", "requests"} /\ PgRequests!Init
     \/ part = "shifts" /\ PgShifts!Init

SuiteNext ==
  /\ UNCHANGED part
  /\ \/ part = "D1" /\ Next /\ UNCHANGED pgVars
     \/ part = "requests" /\ PgRequests!Next /\ UNCHANGED vars
     \/ part = "shifts" /\ PgShifts!Next /\ UNCHANGED vars

Suite == SuiteInit /\ [][SuiteNext]_suiteVars

\* Ids and requests in flight are compared only by equality.
Symmetry == Permutations(Leave) \cup Permutations(Flight)

-----------------------------------------------------------------------------
(* What the database keeps of the promises of LeaveRequests on PostgreSQL, *)
(* where requests run at the same time (see PostgresLeave).                *)

\* On PostgreSQL, the balance row is the sum of the requests that are created and reviewed at
\* once, two of them never cover the same day since the second fails on the balance row that
\* both update, and the timesheets carry exactly the approved leave.
PostgresRecordsAgree ==
  /\ part = "requests" => /\ PgRequests!TypeOK /\ PgRequests!BalanceMatchesRequests
                          /\ PgRequests!NoDayTwice /\ PgRequests!LeaveIsOnTheSheets
  /\ part = "shifts" => PgShifts!TypeOK

\* What PostgreSQL keeps of the leave records, whichever requests run at the same time:
\* they agree, minutes are reserved only within the balance, the leave of a locked period
\* never changes, although approval and lock may write no row in common, and no approval
\* closes a day whose shift is running.
PostgresKeepsLeave ==
  /\ []PostgresRecordsAgree
  /\ PgRequests!AcceptedWithinBalance
  /\ PgRequests!LockedPeriodsKeepTheirLeave
  /\ PgRequests!ApprovalsKeepShiftsRunning
=============================================================================
