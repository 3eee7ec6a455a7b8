---------------------------- MODULE LeaveRequests ----------------------------
(***************************************************************************)
(* The leave requests of one employee for one leave type and year on D1:   *)
(* creation, cancellation and review, the balance they reserve and use,    *)
(* and the timesheets that approved leave is written to, next to the clock *)
(* actions, the cron job and the pay period over the first days.           *)
(*                                                                         *)
(* Every step of a request between two database calls is an action, so     *)
(* that requests interleave as far as the coordinators let them: leave and *)
(* payroll requests share the coordinator "global", clock actions have one *)
(* of their own, the cron job none.  A refused request is a stutter.       *)
(***************************************************************************)
EXTENDS LeaveRules

CONSTANTS
  Leave,               \* LeaveRequest ids
  Flight,              \* the requests that can be in flight
  LastDay,             \* bound: the days of the year are 1..LastDay
  MaxMinutes,          \* bound: minutes of a request
  Entitlement,         \* bound: the minutes an administrator enters
  DefaultEntitlement,  \* the leave type's defaultEntitlementMinutes
  Scheduled,           \* the employee's ScheduledMinutes per day
  PeriodEnd,           \* the pay period is 1..PeriodEnd
  CoordinatorSerializes

Day == 1..LastDay

ASSUME LeaveRequestsAssumption ==
  /\ IsFiniteSet(Leave)
  /\ LastDay \in Nat \ {0} /\ PeriodEnd \in Nat /\ MaxMinutes \in Nat \ {0}
  /\ DefaultEntitlement \in 0..MaxMinutes /\ Entitlement \subseteq 0..MaxMinutes
  /\ Scheduled \in [Day -> Nat]
  /\ CoordinatorSerializes \in BOOLEAN

VARIABLES
  requests,     \* LeaveRequest rows
  balance,      \* the LeaveBalance row
  sheet,        \* TimesheetDay rows
  allocations,  \* LeaveAllocation rows
  period,       \* status of the pay period
  flight        \* per request in flight, what it read and what it does next

vars == <<requests, balance, sheet, allocations, period, flight>>

Request == [status : {"PENDING", "APPROVED", "REJECTED", "CANCELLED"},
            first : Day, last : Day, minutes : 1..MaxMinutes]

NoRequest == [status |-> "NONE", first |-> 1, last |-> 1, minutes |-> 0]

\* A request released twice can take pendingMinutes below zero.
Balance == [entitled : 0..MaxMinutes, used : Nat, pending : Int]

NoBalance == [entitled |-> -1, used |-> 0, pending |-> 0]

Code == {"ABSENT", "PARTIAL_DAY_UNACCOUNTED", "LATE_ARRIVAL"}

\* worked: regularMinutes and overtimeMinutes; leave: leaveMinutes.
Sheet == [state : {"NONE", "OPEN", "COMPLETE", "EXCEPTION", "LOCKED"},
          codes : SUBSET Code, worked : Nat, leave : Nat]

NoSheet == [state |-> "NONE", codes |-> {}, worked |-> 0, leave |-> 0]

Allocation == [request : Leave, day : Day, minutes : Nat]

Idle == [pc |-> "idle"]

Flights ==
  [pc : {"create", "reserve"}, first : Day, last : Day, minutes : 1..MaxMinutes]
    \cup [pc : {"cancel", "plan", "read days"}, request : Leave]
    \cup [pc : {"approve"}, request : Leave, seen : [Day -> Sheet]]
    \cup [pc : {"reject"}, request : Leave]
    \cup [pc : {"clock"}, day : Day, row : Sheet]
    \cup [pc : {"lock"}]

TypeOK ==
  /\ requests \in [Leave -> Request \cup {NoRequest}]
  /\ balance \in Balance \cup {NoBalance}
  /\ sheet \in [Day -> Sheet]
  /\ allocations \subseteq Allocation
  /\ period \in {"OPEN", "LOCKED"}
  /\ flight \in [Flight -> {Idle} \cup Flights]

Init ==
  /\ requests = [l \in Leave |-> NoRequest]
  /\ balance = NoBalance
  /\ sheet = [d \in Day |-> NoSheet]
  /\ allocations = {}
  /\ period = "OPEN"
  /\ flight = [f \in Flight |-> Idle]

-----------------------------------------------------------------------------

Coordinator(pc) == IF pc = "clock" THEN "attendance" ELSE "global"

\* The coordinator starts a request whose first step leads to pc.
Deliver(f, pc) ==
  /\ flight[f] = Idle
  /\ CoordinatorSerializes =>
       \A g \in Flight : flight[g] # Idle => Coordinator(flight[g].pc) # Coordinator(pc)

Continue(f, step) == flight' = [flight EXCEPT ![f] = step]

Finish(f) == Continue(f, Idle)

With(status) == {l \in Leave : requests[l].status = status}

Active == With("PENDING") \cup With("APPROVED")

DaysOf(r) == r.first..r.last

Overlap(r, s) == r.first <= s.last /\ s.first <= r.last

-----------------------------------------------------------------------------
(* createLeaveRequestV2: the overlap query, the upsert of the balance, the *)
(* batch.                                                                  *)

\* LEAVE_DATES_OVERLAP otherwise.
NoOverlap(r) == \A l \in Active : ~ Overlap(requests[l], r)

CreateRead(f) ==
  /\ Deliver(f, "create")
  /\ \E first, last \in Day, minutes \in 1..MaxMinutes :
       LET r == [pc |-> "create", first |-> first, last |-> last, minutes |-> minutes]
       IN first <= last /\ NoOverlap(r) /\ Continue(f, r)
  /\ UNCHANGED <<requests, balance, sheet, allocations, period>>

UpsertedBalance ==
  IF balance = NoBalance THEN [entitled |-> DefaultEntitlement, used |-> 0, pending |-> 0] ELSE balance

Available(b) == b.entitled - b.used - b.pending

\* INSUFFICIENT_LEAVE otherwise; the row is there either way.
CreateBalance(f) ==
  /\ flight[f].pc = "create"
  /\ balance' = UpsertedBalance
  /\ IF Available(UpsertedBalance) >= flight[f].minutes
     THEN Continue(f, [flight[f] EXCEPT !.pc = "reserve"]) ELSE Finish(f)
  /\ UNCHANGED <<requests, sheet, allocations, period>>

CreateCommit(f, l) ==
  /\ flight[f].pc = "reserve"
  /\ requests[l] = NoRequest
  /\ balance' = [balance EXCEPT !.pending = @ + flight[f].minutes]
  /\ requests' = [requests EXCEPT ![l] = [status |-> "PENDING", first |-> flight[f].first,
                                          last |-> flight[f].last, minutes |-> flight[f].minutes]]
  /\ Finish(f)
  /\ UNCHANGED <<sheet, allocations, period>>

-----------------------------------------------------------------------------
(* cancelLeaveRequestV2.                                                   *)

CancelRead(f, l) ==
  /\ Deliver(f, "cancel")
  /\ requests[l].status = "PENDING"
  /\ Continue(f, [pc |-> "cancel", request |-> l])
  /\ UNCHANGED <<requests, balance, sheet, allocations, period>>

\* Mutant: the reserved minutes are not given back.
Released_MutantKept(l) == balance

Released(l) == [balance EXCEPT !.pending = @ - requests[l].minutes]

\* The batch updates the request by id, whatever its status is by now.
CancelCommit(f) ==
  /\ flight[f].pc = "cancel"
  /\ requests' = [requests EXCEPT ![flight[f].request].status = "CANCELLED"]
  /\ balance' = Released(flight[f].request)
  /\ Finish(f)
  /\ UNCHANGED <<sheet, allocations, period>>

-----------------------------------------------------------------------------
(* reviewLeaveRequestV2 with reviewLeaveRequestOnD1.                       *)

ReviewRead(f, l, pc) ==
  /\ Deliver(f, pc)
  /\ requests[l].status = "PENDING"
  /\ Continue(f, [pc |-> pc, request |-> l])
  /\ UNCHANGED <<requests, balance, sheet, allocations, period>>

\* Mutant: only the last day of the leave is looked at.
OutsideLockedPeriod_MutantLastDay(r) == period = "LOCKED" => r.last > PeriodEnd

\* PAY_PERIOD_LOCKED otherwise.
OutsideLockedPeriod(r) == period = "LOCKED" => r.first > PeriodEnd

\* The period, the schedule and the holidays; a plan without room ends the request.
ApprovePlan(f) ==
  /\ flight[f].pc = "plan"
  /\ LET r == requests[flight[f].request]
     IN IF OutsideLockedPeriod(r) /\ HasRoom(Scheduled, DaysOf(r), r.minutes)
        THEN Continue(f, [flight[f] EXCEPT !.pc = "read days"]) ELSE Finish(f)
  /\ UNCHANGED <<requests, balance, sheet, allocations, period>>

ApproveDays(f) ==
  /\ flight[f].pc = "read days"
  /\ Continue(f, [pc |-> "approve", request |-> flight[f].request, seen |-> sheet])
  /\ UNCHANGED <<requests, balance, sheet, allocations, period>>

\* updateMany where the request is PENDING; how many rows it changed is not used.
Claimed(l, decision) ==
  IF requests[l].status = "PENDING" THEN [requests EXCEPT ![l].status = decision] ELSE requests

Allocations(l) ==
  LET r == requests[l]
      plan == planLeaveAllocations([d \in DaysOf(r) |-> Scheduled[d]], DaysOf(r), r.minutes)
  IN {[request |-> l, day |-> d, minutes |-> plan[d]] : d \in {e \in DaysOf(r) : plan[e] > 0}}

\* Mutant: a day that is only partly covered stays an absence.
DayWithLeave_MutantStillAbsent(a, seen) ==
  LET covered == seen.worked + seen.leave + a.minutes >= Scheduled[a.day]
  IN [seen EXCEPT !.leave = @ + a.minutes, !.codes = IF covered THEN {} ELSE @,
        !.state = IF covered THEN "COMPLETE" ELSE "EXCEPTION"]

\* What the approval writes to a day it saw in this form.
DayWithLeave(a, seen) ==
  LET leave == seen.leave + a.minutes
      codes == (seen.codes \ {"ABSENT", "PARTIAL_DAY_UNACCOUNTED"})
                 \cup {c \in {"PARTIAL_DAY_UNACCOUNTED"} : seen.worked + leave < Scheduled[a.day]}
  IN [seen EXCEPT !.leave = leave, !.codes = codes,
        !.state = IF seen.state = "OPEN" THEN "OPEN" ELSE IF codes # {} THEN "EXCEPTION" ELSE "COMPLETE"]

\* The upserts leave the worked minutes alone.
Allocated(l, seen) ==
  [d \in Day |->
     IF \E a \in Allocations(l) : a.day = d
     THEN [DayWithLeave(CHOOSE a \in Allocations(l) : a.day = d, seen[d]) EXCEPT !.worked = sheet[d].worked]
     ELSE sheet[d]]

Used(l) == [Released(l) EXCEPT !.used = @ + requests[l].minutes]

\* The batch; (leaveRequestId, workDate) is unique in LeaveAllocation.
ApproveCommit(f) ==
  /\ flight[f].pc = "approve"
  /\ LET l == flight[f].request
     IN /\ \A a \in allocations, b \in Allocations(l) : ~ (a.request = b.request /\ a.day = b.day)
        /\ requests' = Claimed(l, "APPROVED")
        /\ sheet' = Allocated(l, flight[f].seen)
        /\ allocations' = allocations \cup Allocations(l)
        /\ balance' = Used(l)
  /\ Finish(f)
  /\ UNCHANGED period

RejectCommit(f) ==
  /\ flight[f].pc = "reject"
  /\ requests' = Claimed(flight[f].request, "REJECTED")
  /\ balance' = Released(flight[f].request)
  /\ Finish(f)
  /\ UNCHANGED <<sheet, allocations, period>>

\* setLeaveBalanceV2: one upsert.
SetBalance(minutes) ==
  /\ CoordinatorSerializes => \A g \in Flight : flight[g] = Idle \/ Coordinator(flight[g].pc) = "attendance"
  /\ balance' = [entitled |-> minutes, used |-> balance.used, pending |-> balance.pending]
  /\ UNCHANGED <<requests, sheet, allocations, period, flight>>

-----------------------------------------------------------------------------
(* The other writers of the timesheets, abridged: ClockActions,            *)
(* AttendanceCron and PayPeriodLock have them in full.                     *)

\* A clock action opens the day or closes it after some minutes of work.
ClockRead(f, d) ==
  /\ Deliver(f, "clock")
  /\ sheet[d].state # "LOCKED"
  /\ \E state \in {"OPEN", "COMPLETE", "EXCEPTION"} :
       Continue(f, [pc |-> "clock", day |-> d, row |->
         [state |-> state, worked |-> IF state = "OPEN" THEN 0 ELSE 1, leave |-> 0,
          codes |-> IF state = "EXCEPTION" THEN {"LATE_ARRIVAL"} ELSE {}]])
  /\ UNCHANGED <<requests, balance, sheet, allocations, period>>

\* The upsert of the calculated columns, which the leave is not among.
ClockCommit(f) ==
  /\ flight[f].pc = "clock"
  /\ sheet' = [sheet EXCEPT ![flight[f].day] = [flight[f].row EXCEPT !.leave = sheet[flight[f].day].leave]]
  /\ Finish(f)
  /\ UNCHANGED <<requests, balance, allocations, period>>

MarkAbsent(d) ==
  /\ sheet[d] = NoSheet
  /\ sheet' = [sheet EXCEPT ![d] = [state |-> "EXCEPTION", codes |-> {"ABSENT"}, worked |-> 0, leave |-> 0]]
  /\ UNCHANGED <<requests, balance, allocations, period, flight>>

NothingUnresolved ==
  /\ \A d \in 1..PeriodEnd : d \in Day => sheet[d].state \notin {"OPEN", "EXCEPTION"}
  /\ \A l \in With("PENDING") : requests[l].first > PeriodEnd

LockChecks(f) ==
  /\ period = "OPEN"
  /\ Deliver(f, "lock")
  /\ NothingUnresolved
  /\ Continue(f, [pc |-> "lock"])
  /\ UNCHANGED <<requests, balance, sheet, allocations, period>>

Lock(f) ==
  /\ flight[f].pc = "lock"
  /\ period' = "LOCKED"
  /\ sheet' = [d \in Day |-> IF d <= PeriodEnd /\ sheet[d].state # "NONE"
                             THEN [sheet[d] EXCEPT !.state = "LOCKED"] ELSE sheet[d]]
  /\ Finish(f)
  /\ UNCHANGED <<requests, balance, allocations>>

\* The batch is refused, or the Worker stops.
Stop(f) ==
  /\ flight[f] # Idle
  /\ Finish(f)
  /\ UNCHANGED <<requests, balance, sheet, allocations, period>>

Next ==
  \/ \E f \in Flight :
       \/ CreateRead(f) \/ CreateBalance(f)
       \/ \E l \in Leave :
            \/ CreateCommit(f, l) \/ CancelRead(f, l)
            \/ \E pc \in {"plan", "reject"} : ReviewRead(f, l, pc)
       \/ CancelCommit(f)
       \/ ApprovePlan(f) \/ ApproveDays(f) \/ ApproveCommit(f) \/ RejectCommit(f)
       \/ \E d \in Day : ClockRead(f, d)
       \/ ClockCommit(f)
       \/ LockChecks(f) \/ Lock(f)
       \/ Stop(f)
  \/ \E minutes \in Entitlement : SetBalance(minutes)
  \/ \E d \in Day : MarkAbsent(d)

Spec == Init /\ [][Next]_vars

-----------------------------------------------------------------------------
(* What the leave records promise.                                         *)

MinutesOf(leave) == TotalMinutes([l \in Leave |-> requests[l].minutes], leave)

AllocatedIn(rows) == TotalMinutes([a \in rows |-> a.minutes], rows)

\* The balance is the sum of the requests: minutes are reserved exactly for the
\* pending ones and used exactly for the approved ones.
BalanceMatchesRequests ==
  balance.pending = MinutesOf(With("PENDING")) /\ balance.used = MinutesOf(With("APPROVED"))

\* Two active requests of an employee never cover the same day.
NoDayTwice == \A l, m \in Active : Overlap(requests[l], requests[m]) => l = m

\* Exactly the approved requests are allocated, in full, and a timesheet carries the
\* leave that was allocated to its day, whoever else wrote to it.
LeaveIsOnTheSheets ==
  /\ \A l \in Leave : AllocatedIn({a \in allocations : a.request = l})
                        = IF l \in With("APPROVED") THEN requests[l].minutes ELSE 0
  /\ \A d \in Day : sheet[d].leave = AllocatedIn({a \in allocations : a.day = d})

\* A day with approved leave is not counted as an absence, however the cron job and
\* the approval interleave.
LeaveExcusesAbsence == \A d \in Day : sheet[d].leave > 0 => "ABSENT" \notin sheet[d].codes

\* The balance row is the sum of the requests, as they are created, cancelled and reviewed
\* one at a time, and two active requests never cover the same day.
BalanceFollowsRequests == TypeOK /\ BalanceMatchesRequests /\ NoDayTwice

\* Exactly the approved requests are allocated, the timesheets carry that leave whoever else
\* writes to them, and no day with leave is counted as an absence.
ApprovedLeaveCounts == LeaveIsOnTheSheets /\ LeaveExcusesAbsence

\* A request is accepted only within what is left of the entitlement when its
\* minutes are reserved.
AcceptedWithinBalance ==
  [][balance'.pending > balance.pending => balance'.used + balance'.pending <= balance'.entitled]_vars

\* The leave on the timesheets of a locked period never changes: reviews and the
\* lock keep each other out although each reads first and writes later.
LockedPeriodsKeepTheirLeave ==
  [][period = "LOCKED" => \A d \in Day : d <= PeriodEnd => sheet'[d].leave = sheet[d].leave]_vars

\* A period is locked only when all leave in it is decided, although the lock looks at
\* the requests before it writes.
LockFindsLeaveDecided ==
  [][period' # period => \A l \in With("PENDING") : requests[l].first > PeriodEnd]_vars

\* Minutes are reserved only within what is left of the entitlement, which an administrator
\* may be changing; the leave in a locked period never changes, and all of it was decided
\* when the period was locked: every check holds until its request has written.
ChecksHoldUntilWritten == AcceptedWithinBalance /\ LockedPeriodsKeepTheirLeave /\ LockFindsLeaveDecided

\* reviewLeaveRequestOnD1: "existing?.state === TimesheetState.OPEN ? OPEN", an
\* approval never closes a day whose shift is running.
ApprovalsKeepShiftsRunning ==
  [][\A f \in Flight : flight[f].pc = "approve" /\ flight'[f] = Idle =>
       \A d \in Day : sheet[d].state = "OPEN" => sheet'[d].state = "OPEN"]_vars
=============================================================================
