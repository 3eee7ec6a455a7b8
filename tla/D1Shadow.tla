------------------------------ MODULE D1Shadow ------------------------------
(***************************************************************************)
(* The comparison of what Prisma reads with what hand-written SQL reads    *)
(* from the shadow binding (d1-shadow.ts), and its counters, which are     *)
(* variables of the Worker isolate that every request in it shares.  In    *)
(* staging the shadow binding is the database of the application itself.   *)
(*                                                                         *)
(* One organization.  A comparison is one of the four areas for one        *)
(* reader; names, hashes and dates are left out, and so is the order of a  *)
(* list, which both sides sort by the same unique key.                     *)
(***************************************************************************)
EXTENDS Integers, FiniteSets

CONSTANTS
  Manager, Employee,
  NoManager,
  Flight,      \* the requests that can be in flight in the isolate
  Environment, \* the binding and read mode configureBindings may be given
  NoBinding,
  MaxComparisons, \* bound: the comparisons counted
  MaxWrites       \* bound: the writes of a behaviour

User == Manager \cup Employee

\* What the constants may be.
Parameters ==
  /\ Manager \cap Employee = {} /\ NoManager \notin Manager
  /\ MaxComparisons \in Nat /\ MaxWrites \in Nat

VARIABLES
  users,   \* the User row of each account, with its Employee and membership rows
  config,  \* the binding and the mode that were configured last
  stats,
  flight,
  writes

vars == <<users, config, stats, flight, writes>>

NoRow == [row |-> "none"]

Membership == [isActive : BOOLEAN, manager : Manager \cup {NoManager}]

\* owner: the role of the account that createdByUserId names.
UserRow ==
  [isActive : BOOLEAN, hasEmployee : BOOLEAN, owner : {"ADMIN", "DEV_ADMIN"},
   membership : Membership \cup {NoRow}]

Idle == [pc |-> "idle"]

Query ==
  [area : {"auth_identity", "admin_scope"}, user : User]
    \cup {[area |-> "employee_list", role |-> "ADMIN"]}
    \cup [area : {"employee_list"}, role : {"MANAGER"}, manager : Manager]

NoStats == [comparisons |-> 0, matches |-> 0, mismatches |-> 0, errors |-> 0]

\* Rows, counters and requests have their types, and nothing is compared without a binding.
TypeOK ==
  /\ users \in [User -> UserRow]
  /\ config \in [binding : {NoBinding} \cup {e.binding : e \in Environment}, mode : {"off", "compare"}]
  /\ config.binding = NoBinding => config.mode = "off"
  /\ stats \in [comparisons : Nat, matches : Nat, mismatches : Nat, errors : Nat]
  /\ \A f \in Flight :
       /\ flight[f].pc \in {"idle", "read", "compare", "first", "second", "result"}
       /\ flight[f].pc # "idle" => flight[f].query \in Query /\ flight[f].written \in BOOLEAN
  /\ writes \in 0..MaxWrites

\* Accounts are as the requests that create them leave them, or stop at.
Init ==
  /\ users \in [User -> {r \in UserRow :
       r.membership # NoRow => r.membership.manager = NoManager \/ r.hasEmployee}]
  /\ \A m \in Manager : ~users[m].hasEmployee
  /\ config = [binding |-> NoBinding, mode |-> "off"]
  /\ stats = NoStats
  /\ flight = [f \in Flight |-> Idle]
  /\ writes = 0

-----------------------------------------------------------------------------
(* What the application reads.                                             *)

ActiveMember(u) == users[u].membership # NoRow /\ users[u].membership.isActive

\* login: the user with its employee and its active memberships.
AuthIdentity(u) ==
  [isActive |-> users[u].isActive, employee |-> users[u].hasEmployee,
   memberships |-> IF ActiveMember(u) THEN {users[u].membership} ELSE {}]

\* getAdminContext.
AdminScope(u) == [membership |-> users[u].membership]

\* employeeUserWhere.
InScope(q, e) ==
  q.role = "MANAGER" => ActiveMember(e) /\ users[e].membership.manager = q.manager

employeeView(e) ==
  [user |-> e, employee |-> users[e].hasEmployee, isActive |-> users[e].isActive,
   ownerAdmin |-> users[e].owner = "ADMIN"]

Expected(q) ==
  CASE q.area = "auth_identity" -> AuthIdentity(q.user)
    [] q.area = "admin_scope" -> AdminScope(q.user)
    [] q.area = "employee_list" -> {employeeView(e) : e \in {e \in Employee : InScope(q, e)}}

-----------------------------------------------------------------------------
(* What the SQL reads: the user first, its memberships in a second         *)
(* statement.                                                              *)

UserStatement(u) == [isActive |-> users[u].isActive, employee |-> users[u].hasEmployee]

\* Mutant: memberships of any status are read.
MembershipStatement_MutantAnyStatus(q) ==
  IF users[q.user].membership = NoRow THEN {} ELSE {users[q.user].membership}

MembershipStatement(q) ==
  {m \in {users[q.user].membership} \ {NoRow} : q.area = "auth_identity" => m.isActive}

\* The inner join of a manager leaves out who is not an active report.
EmployeeStatement(q) ==
  {[user |-> e, employee |-> users[e].hasEmployee, isActive |-> users[e].isActive,
    ownerAdmin |-> users[e].owner = "ADMIN"] :
     e \in {e \in Employee : q.role = "MANAGER" =>
              users[e].membership # NoRow /\ users[e].membership.isActive
                /\ users[e].membership.manager = q.manager}}

-----------------------------------------------------------------------------
(* A request.                                                              *)

Continue(f, step) == flight' = [flight EXCEPT ![f] = step]

configureD1Shadow(e) ==
  LET mode == IF e.binding = NoBinding THEN "off" ELSE e.mode
  IN /\ stats' = IF config = [binding |-> e.binding, mode |-> mode] THEN stats ELSE NoStats
     /\ config' = [binding |-> e.binding, mode |-> mode]

\* configureBindings comes before anything else.
Arrive(f, e, q) ==
  /\ flight[f] = Idle
  /\ configureD1Shadow(e)
  /\ Continue(f, [pc |-> "read", query |-> q, written |-> FALSE])
  /\ UNCHANGED <<users, writes>>

\* Prisma's statements, taken as one; whatever is written from here on counts.
Read(f) ==
  /\ flight[f].pc = "read"
  /\ Continue(f, [pc |-> "compare", query |-> flight[f].query,
                  expected |-> Expected(flight[f].query), written |-> FALSE])
  /\ UNCHANGED <<users, config, stats, writes>>

\* compare.
Compare(f) ==
  /\ flight[f].pc = "compare"
  /\ IF config.mode # "compare" \/ config.binding = NoBinding
     THEN Continue(f, Idle) /\ UNCHANGED stats
     ELSE /\ stats.comparisons < MaxComparisons
          /\ stats' = [stats EXCEPT !.comparisons = @ + 1]
          /\ Continue(f, [flight[f] EXCEPT !.pc = "first"])
  /\ UNCHANGED <<users, config, writes>>

FirstStatement(f) ==
  /\ flight[f].pc = "first"
  /\ LET q == flight[f].query
         step(pc, actual) ==
           [pc |-> pc, query |-> q, expected |-> flight[f].expected, actual |-> actual,
            written |-> flight[f].written]
     IN Continue(f, IF q.area = "employee_list"
                    THEN step("result", EmployeeStatement(q))
                    ELSE step("second", UserStatement(q.user)))
  /\ UNCHANGED <<users, config, stats, writes>>

SecondStatement(f) ==
  /\ flight[f].pc = "second"
  /\ LET q == flight[f].query
         found == MembershipStatement(q)
     IN Continue(f, [flight[f] EXCEPT
          !.pc = "result",
          !.actual = IF q.area = "auth_identity"
                     THEN [isActive |-> @.isActive, employee |-> @.employee, memberships |-> found]
                     ELSE [membership |-> IF found = {} THEN NoRow ELSE CHOOSE m \in found : TRUE]])
  /\ UNCHANGED <<users, config, stats, writes>>

Result(f) ==
  /\ flight[f].pc = "result"
  /\ stats' = IF flight[f].actual = flight[f].expected
              THEN [stats EXCEPT !.matches = @ + 1]
              ELSE [stats EXCEPT !.mismatches = @ + 1]
  /\ Continue(f, Idle)
  /\ UNCHANGED <<users, config, writes>>

\* A statement fails: the request is answered all the same.
Fail(f) ==
  /\ flight[f].pc \in {"first", "second"}
  /\ stats' = [stats EXCEPT !.errors = @ + 1]
  /\ Continue(f, Idle)
  /\ UNCHANGED <<users, config, writes>>

\* Another request of the application commits.
Write(u, row) ==
  /\ writes < MaxWrites
  /\ writes' = writes + 1
  /\ row # users[u]
  /\ u \in Manager => ~row.hasEmployee
  /\ row.membership # NoRow => row.membership.manager = NoManager \/ row.hasEmployee
  /\ users' = [users EXCEPT ![u] = row]
  /\ flight' = [f \in Flight |->
       IF flight[f] = Idle THEN Idle ELSE [flight[f] EXCEPT !.written = TRUE]]
  /\ UNCHANGED <<config, stats>>

Next ==
  \/ \E f \in Flight :
       \/ \E e \in Environment, q \in Query : Arrive(f, e, q)
       \/ Read(f) \/ Compare(f) \/ FirstStatement(f) \/ SecondStatement(f)
       \/ Result(f) \/ Fail(f)
  \/ \E u \in User, row \in UserRow : Write(u, row)

Spec == Init /\ [][Next]_vars

-----------------------------------------------------------------------------

\* The SQL reads what the application reads, whatever the rows: a comparison during which
\* nobody writes does not end in a mismatch.
QuietComparisonMatches ==
  \A f \in Flight :
    flight[f].pc = "result" /\ ~flight[f].written /\ flight'[f] = Idle
      => stats'.mismatches = stats.mismatches

=============================================================================
