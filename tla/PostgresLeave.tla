---------------------------- MODULE PostgresLeave ----------------------------
(***************************************************************************)
(* The leave requests of LeaveRequests on PostgreSQL.  Creation, review    *)
(* and the lock of the pay period are SERIALIZABLE transactions there,     *)
(* the cancellation is a read and a later batch at READ COMMITTED, and so  *)
(* is a clock action.  No coordinator is between the requests.             *)
(*                                                                         *)
(* A serializable transaction works on the snapshot of its first           *)
(* statement.  PostgreSQL aborts it when a row it writes has changed since *)
(* (by whatever transaction), and when other serializable transactions     *)
(* leave no order for it: the rules are those of its serializable snapshot *)
(* isolation, applied to the rows each transaction reads and writes.       *)
(***************************************************************************)
EXTENDS Integers, FiniteSets

CONSTANTS
  Leave,               \* LeaveRequest ids
  Flight,              \* the requests that can be in flight
  Kind,                \* the requests that are sent
  LastDay,             \* bound: the days of the year are 1..LastDay
  MaxMinutes,          \* bound: minutes of a request
  MinutesPerDay,
  Entitlement,         \* bound: the minutes an administrator enters
  DefaultEntitlement,  \* the leave type's defaultEntitlementMinutes
  Scheduled,           \* the employee's ScheduledMinutes per day
  PeriodEnd            \* the pay period is 1..PeriodEnd

Serializable == {"create", "approve", "reject", "lock"}

\* The kinds of requests there are.
Parameters == Kind \subseteq Serializable \cup {"cancel", "clock"}

VARIABLES
  requests,     \* LeaveRequest rows
  balance,      \* the LeaveBalance row
  sheet,        \* TimesheetDay rows
  allocations,  \* LeaveAllocation rows
  period,       \* status of the pay period
  tx            \* the transactions in flight

vars == <<requests, balance, sheet, allocations, period, tx>>

\* The rows, the checks and the effects that both databases have in common.
Db == INSTANCE LeaveRequests WITH flight <- tx, CoordinatorSerializes <- FALSE

Day == Db!Day

Idle == Db!Idle

Row == ({"request"} \X Leave) \cup ({"sheet"} \X Day) \cup {<<"balance">>, <<"period">>}

\* stale: rows that others changed since the snapshot.  precedes, follows: there is a
\* committed serializable transaction that has to come after this one, or before it.
\* doomed: no order is left.
Transaction ==
  [pc : Serializable, first : Day, last : Day, minutes : 0..MaxMinutes, request : Leave,
   seen : [Day -> Db!Sheet], stale : SUBSET Row, precedes : BOOLEAN, follows : BOOLEAN,
   doomed : BOOLEAN]

\* Every variable has its type.
TypeOK ==
  /\ requests \in [Leave -> Db!Request \cup {Db!NoRequest}]
  /\ balance \in Db!Balance \cup {Db!NoBalance}
  /\ sheet \in [Day -> Db!Sheet]
  /\ allocations \subseteq Db!Allocation
  /\ period \in {"OPEN", "LOCKED"}
  /\ tx \in [Flight -> {Idle} \cup Transaction
                        \cup [pc : {"cancel"}, request : Leave] \cup [pc : {"clock"}, day : Day, row : Db!Sheet]]

Init == Db!Init

-----------------------------------------------------------------------------
(* Serializable snapshot isolation.                                        *)

IsSerializable(t) == t.pc \in Serializable

Planned(t) == {a.day : a \in Db!Allocations(t.request)}

\* The rows a transaction reads.  A query over rows that are not there yet reads them too.
Reads(t) ==
  CASE t.pc = "create"  -> ({"request"} \X Leave) \cup {<<"balance">>}
    [] t.pc = "approve" -> {<<"request", t.request>>, <<"period">>} \cup ({"sheet"} \X Planned(t))
    [] t.pc = "reject"  -> {<<"request", t.request>>}
    [] t.pc = "lock"    -> ({"request"} \X Leave) \cup ({"sheet"} \X {d \in Day : d <= PeriodEnd}) \cup {<<"period">>}

\* updateMany on the timesheets of the period finds those of the snapshot.
Lockable(t) == {d \in Day : d <= PeriodEnd /\ t.seen[d].state # "NONE"}

Writes(t) ==
  CASE t.pc \in {"create", "reject"} -> {<<"request", t.request>>, <<"balance">>}
    [] t.pc = "approve"              -> {<<"request", t.request>>, <<"balance">>} \cup ({"sheet"} \X Planned(t))
    [] t.pc = "lock"                 -> {<<"period">>} \cup ({"sheet"} \X Lockable(t))

Start(f, pc, t) ==
  /\ tx[f] = Idle
  /\ pc \in Kind
  /\ tx' = [tx EXCEPT ![f] =
       [pc |-> pc, first |-> t.first, last |-> t.last, minutes |-> t.minutes, request |-> t.request,
        seen |-> sheet, stale |-> {}, precedes |-> FALSE, follows |-> FALSE, doomed |-> FALSE]]

\* f ends and has written these rows: what the other transactions learn of it.  Another one
\* that read what f wrote comes before f, one that writes what f read comes after it.
Told(f, reads, writes, serializable) ==
  [g \in Flight |->
     CASE g = f                                      -> Idle
       [] g # f /\ ~ IsSerializable(tx[g])           -> tx[g]
       [] OTHER ->
            LET before == serializable /\ Reads(tx[g]) \cap writes # {}
            IN [tx[g] EXCEPT !.stale = @ \cup writes,
                  !.precedes = @ \/ before,
                  !.follows = @ \/ (serializable /\ Writes(tx[g]) \cap reads # {}),
                  !.doomed = @ \/ (before /\ tx[f].precedes)]]

\* Mutant: snapshots only, the isolation level REPEATABLE READ.
MayCommit_MutantRepeatableRead(t) == t.stale \cap Writes(t) = {}

\* Mutant: READ COMMITTED, the default of a transaction without isolationLevel.
MayCommit_MutantReadCommitted(t) == TRUE

MayCommit(t) ==
  /\ t.stale \cap Writes(t) = {}
  /\ ~ t.doomed
  /\ ~ (t.precedes /\ t.follows)

Commit(f) ==
  /\ IsSerializable(tx[f])
  /\ MayCommit(tx[f])
  /\ tx' = Told(f, Reads(tx[f]), Writes(tx[f]), TRUE)

-----------------------------------------------------------------------------
(* createLeaveRequestV2.  Its checks all see the snapshot, the upsert of   *)
(* the balance is undone when they fail.                                   *)

Creatable(t) ==
  /\ Db!NoOverlap(t)
  /\ Db!Available(Db!UpsertedBalance) >= t.minutes

\* The id of the new row is that of no other request.
BeginCreate(f, l) ==
  /\ requests[l] = Db!NoRequest
  /\ \A g \in Flight : IsSerializable(tx[g]) /\ tx[g].pc = "create" => tx[g].request # l
  /\ \E first, last \in Day, minutes \in 1..MaxMinutes :
       LET t == [first |-> first, last |-> last, minutes |-> minutes, request |-> l]
       IN first <= last /\ Creatable(t) /\ Start(f, "create", t)
  /\ UNCHANGED <<requests, balance, sheet, allocations, period>>

CommitCreate(f) ==
  /\ tx[f].pc = "create"
  /\ Commit(f)
  /\ balance' = [Db!UpsertedBalance EXCEPT !.pending = @ + tx[f].minutes]
  /\ requests' = [requests EXCEPT ![tx[f].request] =
       [status |-> "PENDING", first |-> tx[f].first, last |-> tx[f].last, minutes |-> tx[f].minutes]]
  /\ UNCHANGED <<sheet, allocations, period>>

-----------------------------------------------------------------------------
(* reviewLeaveRequestV2.  The request it read before the transaction has   *)
(* no column that changes but its status, which the claim tests again.     *)

Review(l) == [first |-> requests[l].first, last |-> requests[l].last, minutes |-> requests[l].minutes, request |-> l]

\* LEAVE_ALREADY_REVIEWED otherwise.
Claimable(l) == requests[l].status = "PENDING"

Approvable(l) ==
  /\ Db!OutsideLockedPeriod(requests[l])
  /\ Db!HasRoom(Scheduled, Db!DaysOf(requests[l]), requests[l].minutes)

BeginReview(f, l, decision) ==
  /\ Claimable(l)
  /\ decision = "approve" => Approvable(l)
  /\ Start(f, decision, Review(l))
  /\ UNCHANGED <<requests, balance, sheet, allocations, period>>

\* The timesheets are computed from those of the snapshot.
CommitApproval(f) ==
  /\ tx[f].pc = "approve"
  /\ Commit(f)
  /\ LET l == tx[f].request
     IN /\ \A a \in allocations : a.request # l
        /\ requests' = [requests EXCEPT ![l].status = "APPROVED"]
        /\ sheet' = Db!Allocated(l, tx[f].seen)
        /\ allocations' = allocations \cup Db!Allocations(l)
        /\ balance' = Db!Used(l)
  /\ UNCHANGED period

CommitRejection(f) ==
  /\ tx[f].pc = "reject"
  /\ Commit(f)
  /\ requests' = [requests EXCEPT ![tx[f].request].status = "REJECTED"]
  /\ balance' = Db!Released(tx[f].request)
  /\ UNCHANGED <<sheet, allocations, period>>

-----------------------------------------------------------------------------
(* cancelLeaveRequestV2: a query, then a batch that looks at nothing.      *)

ReadForCancel(f, l) ==
  /\ tx[f] = Idle
  /\ "cancel" \in Kind
  /\ requests[l].status = "PENDING"
  /\ tx' = [tx EXCEPT ![f] = [pc |-> "cancel", request |-> l]]
  /\ UNCHANGED <<requests, balance, sheet, allocations, period>>

Cancel(f) ==
  /\ tx[f].pc = "cancel"
  /\ requests' = [requests EXCEPT ![tx[f].request].status = "CANCELLED"]
  /\ balance' = Db!Released(tx[f].request)
  /\ tx' = Told(f, {}, {<<"request", tx[f].request>>, <<"balance">>}, FALSE)
  /\ UNCHANGED <<sheet, allocations, period>>

\* setLeaveBalanceV2: one upsert.
SetBalance(minutes) ==
  /\ balance' = [entitled |-> minutes, used |-> balance.used, pending |-> balance.pending]
  /\ tx' = [g \in Flight |->
       IF IsSerializable(tx[g]) THEN [tx[g] EXCEPT !.stale = @ \cup {<<"balance">>}] ELSE tx[g]]
  /\ UNCHANGED <<requests, sheet, allocations, period>>

-----------------------------------------------------------------------------
(* The transaction of a clock action, abridged: PostgresClock has it in    *)
(* full.  And transitionPayPeriodV2, action LOCK.                          *)

ReadForClock(f, d) ==
  /\ tx[f] = Idle
  /\ "clock" \in Kind
  /\ sheet[d].state # "LOCKED"
  /\ \E state \in {"OPEN", "COMPLETE"} :
       tx' = [tx EXCEPT ![f] = [pc |-> "clock", day |-> d, row |->
                [state |-> state, worked |-> IF state = "OPEN" THEN 0 ELSE 1, leave |-> 0, codes |-> {}]]]
  /\ UNCHANGED <<requests, balance, sheet, allocations, period>>

Clock(f) ==
  /\ tx[f].pc = "clock"
  /\ LET d == tx[f].day
     IN /\ sheet' = [sheet EXCEPT ![d] = [tx[f].row EXCEPT !.leave = sheet[d].leave]]
        /\ tx' = Told(f, {}, {<<"sheet", d>>}, FALSE)
  /\ UNCHANGED <<requests, balance, allocations, period>>

\* A lock is about no request: any id stands for none.
BeginLock(f) ==
  /\ period = "OPEN"
  /\ Db!NothingUnresolved
  /\ \E l \in Leave : Start(f, "lock", [first |-> 1, last |-> 1, minutes |-> 0, request |-> l])
  /\ UNCHANGED <<requests, balance, sheet, allocations, period>>

CommitLock(f) ==
  /\ tx[f].pc = "lock"
  /\ Commit(f)
  /\ period' = "LOCKED"
  /\ sheet' = [d \in Day |-> IF d \in Lockable(tx[f]) THEN [sheet[d] EXCEPT !.state = "LOCKED"] ELSE sheet[d]]
  /\ UNCHANGED <<requests, balance, allocations>>

\* PostgreSQL aborts the transaction, or its process ends.
RollBack(f) ==
  /\ tx[f] # Idle
  /\ tx' = [tx EXCEPT ![f] = Idle]
  /\ UNCHANGED <<requests, balance, sheet, allocations, period>>

Next ==
  \/ \E f \in Flight :
       \/ \E l \in Leave :
            \/ BeginCreate(f, l) \/ ReadForCancel(f, l)
            \/ \E decision \in {"approve", "reject"} : BeginReview(f, l, decision)
       \/ CommitCreate(f) \/ CommitApproval(f) \/ CommitRejection(f) \/ Cancel(f)
       \/ \E d \in Day : ReadForClock(f, d)
       \/ Clock(f)
       \/ BeginLock(f) \/ CommitLock(f)
       \/ RollBack(f)
  \/ \E minutes \in Entitlement : SetBalance(minutes)

Spec == Init /\ [][Next]_vars

-----------------------------------------------------------------------------
(* What LeaveRequests promises, kept here by the database.                 *)

\* The balance is the sum of the requests, as long as none is cancelled while it is
\* being reviewed.
BalanceMatchesRequests == Db!BalanceMatchesRequests

\* Two active requests never cover the same day: the second of two that are created at
\* once fails on the balance row that both update.
NoDayTwice == Db!NoDayTwice

\* Exactly the approved requests are allocated, and the timesheets carry that leave.
LeaveIsOnTheSheets == Db!LeaveIsOnTheSheets

\* Minutes are reserved only within what is left of the entitlement, which an
\* administrator may be changing.
AcceptedWithinBalance == Db!AcceptedWithinBalance

\* The leave on the timesheets of a locked period never changes.  Approval and lock write
\* no row in common when the day has no timesheet yet: only the rule for serializable
\* transactions keeps one of them out.
LockedPeriodsKeepTheirLeave == Db!LockedPeriodsKeepTheirLeave

\* An approval never closes a day whose shift is running, although clock actions are not
\* serializable.
ApprovalsKeepShiftsRunning == Db!ApprovalsKeepShiftsRunning
=============================================================================
