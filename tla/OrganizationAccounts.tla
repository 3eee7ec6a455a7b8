------------------------ MODULE OrganizationAccounts ------------------------
(***************************************************************************)
(* The accounts of one organization: who exists, who may sign in, which    *)
(* employees report to which manager, and whom a request of an employee    *)
(* reaches (admin-accounts, admin-employees, workforce-v2 and requests-v2  *)
(* controllers, admin-scope.ts, notifications.ts).                         *)
(*                                                                         *)
(* Every request names the coordinator "global".  A batch is atomic; the   *)
(* statements of a nested create and of an interactive transaction commit  *)
(* one by one on D1.  Audit rows are left out.                             *)
(***************************************************************************)
EXTENDS FiniteSets

CONSTANTS
  Dev,                     \* the DEV_ADMIN, who has selected the organization
  Admin, Manager, Employee, \* the usernames, by the role of their account
  NoManager,
  Flight,                  \* the requests that can be in flight
  CoordinatorSerializes,   \* at most one request at a time
  MayStop                  \* a request may stop between two statements

User == Admin \cup Manager \cup Employee

\* What the constants may be.
Parameters ==
  /\ Dev \notin User
  /\ Admin \cap Manager = {} /\ Admin \cap Employee = {} /\ Manager \cap Employee = {}
  /\ NoManager \notin Manager
  /\ CoordinatorSerializes \in BOOLEAN /\ MayStop \in BOOLEAN

VARIABLES
  users,     \* User rows
  employees, \* the users with an Employee row
  members,   \* OrganizationMembership rows
  signedIn,  \* the users with a session that is not revoked
  reports,   \* per manager, the employees an answered request made its reports
  flight,
  steady     \* history: the employees' requests in flight at whose start some administrator
             \* had access and since whose start nobody was deactivated

vars == <<users, employees, members, signedIn, reports, flight, steady>>

NoRow == [row |-> "none"]

UserRow == [isActive : BOOLEAN, createdBy : {Dev} \cup Admin]

Membership == [isActive : BOOLEAN, manager : Manager \cup {NoManager}]

Idle == [pc |-> "idle"]

Flights ==
  [pc : {"session"}, user : User]
    \cup [pc : {"user"}, user : User, actor : {Dev} \cup Admin]
    \cup [pc : {"rows"}, user : User, left : SUBSET {"Employee", "Membership"}]
    \cup [pc : {"status"}, user : User, isActive : BOOLEAN]
    \cup [pc : {"clear", "assign"}, user : Manager, employees : SUBSET Employee]
    \cup [pc : {"review"}, actor : Admin \cup Manager, user : Employee]
    \cup [pc : {"asked", "admins"}, user : Employee]
    \cup [pc : {"recipients", "notify", "answer"}, user : Employee, told : SUBSET User]

TypeOK ==
  /\ users \in [User -> UserRow \cup {NoRow}]
  /\ employees \subseteq Employee
  /\ members \in [User -> Membership \cup {NoRow}]
  /\ signedIn \subseteq User
  /\ reports \in [Manager -> SUBSET Employee]
  /\ flight \in [Flight -> {Idle} \cup Flights]
  /\ steady \subseteq Flight

Init ==
  /\ users = [u \in User |-> NoRow]
  /\ employees = {}
  /\ members = [u \in User |-> NoRow]
  /\ signedIn = {}
  /\ reports = [m \in Manager |-> {}]
  /\ flight = [f \in Flight |-> Idle]
  /\ steady = {}

-----------------------------------------------------------------------------

Deliver(f) ==
  /\ flight[f] = Idle
  /\ CoordinatorSerializes => \A g \in Flight : flight[g] = Idle

Continue(f, step) == flight' = [flight EXCEPT ![f] = step]

Finish(f) == Continue(f, Idle)

Exists(u) == users[u] # NoRow

Active(u) == Exists(u) /\ users[u].isActive

ActiveMember(u) == members[u] # NoRow /\ members[u].isActive

\* hasActiveSessionAccess of a user that is active.
HasAccess(u) == Active(u) /\ ActiveMember(u)

\* requireCurrentSession and getAdminContext.
MayAct(a) == a # Dev => HasAccess(a) /\ a \in signedIn

ReportsOf(m) == {e \in Employee : members[e] # NoRow /\ members[e].manager = m}

\* employeeUserWhere.
InScope(a, e) ==
  /\ Exists(e)
  /\ a \in Manager => ActiveMember(e) /\ members[e].manager = a

-----------------------------------------------------------------------------
(* Signing in.                                                             *)

SignIn(f, u) ==
  /\ Deliver(f)
  /\ HasAccess(u)
  /\ Continue(f, [pc |-> "session", user |-> u])
  /\ UNCHANGED <<users, employees, members, signedIn, reports, steady>>

CreateSession(f) ==
  /\ flight[f].pc = "session"
  /\ signedIn' = signedIn \cup {flight[f].user}
  /\ Finish(f)
  /\ UNCHANGED <<users, employees, members, reports, steady>>

-----------------------------------------------------------------------------
(* createAdminAccount, createManagerV2 and createAdminEmployee.            *)

Create(f, a, u) ==
  /\ Deliver(f)
  /\ MayAct(a)
  /\ u \in Admin => a = Dev
  /\ Continue(f, [pc |-> "user", user |-> u, actor |-> a])
  /\ UNCHANGED <<users, employees, members, signedIn, reports, steady>>

\* The rows created with the user.
Nested(u) == IF u \in Employee THEN {"Employee", "Membership"} ELSE {"Membership"}

\* P2002 when the username is taken.
CreateUser(f) ==
  /\ flight[f].pc = "user"
  /\ LET u == flight[f].user
     IN IF Exists(u)
        THEN Finish(f) /\ UNCHANGED users
        ELSE /\ users' = [users EXCEPT ![u] = [isActive |-> TRUE, createdBy |-> flight[f].actor]]
             /\ Continue(f, [pc |-> "rows", user |-> u, left |-> Nested(u)])
  /\ UNCHANGED <<employees, members, signedIn, reports, steady>>

CreateNested(f, row) ==
  /\ flight[f].pc = "rows"
  /\ row \in flight[f].left
  /\ LET u == flight[f].user
         left == flight[f].left \ {row}
     IN /\ employees' = IF row = "Employee" THEN employees \cup {u} ELSE employees
        /\ members' = IF row = "Membership"
                      THEN [members EXCEPT ![u] = [isActive |-> TRUE, manager |-> NoManager]]
                      ELSE members
        /\ IF left = {} THEN Finish(f) ELSE Continue(f, [pc |-> "rows", user |-> u, left |-> left])
  /\ UNCHANGED <<users, signedIn, reports, steady>>

-----------------------------------------------------------------------------
(* updateAdminAccountStatus, updateManagerStatusV2, updateAdminEmployeeStatus. *)

\* A manager is found by the membership, the others by the user row.
ChangeStatus(f, a, u, isActive) ==
  /\ Deliver(f)
  /\ MayAct(a)
  /\ u \in Admin => a = Dev
  /\ IF u \in Manager THEN members[u] # NoRow ELSE Exists(u)
  /\ Continue(f, [pc |-> "status", user |-> u, isActive |-> isActive])
  /\ UNCHANGED <<users, employees, members, signedIn, reports, steady>>

\* A manager's sessions end on activation too.
SessionsAfter(u, isActive) == IF ~isActive \/ u \in Manager THEN signedIn \ {u} ELSE signedIn

\* One batch; the membership may not be there yet.
SetStatus(f) ==
  /\ flight[f].pc = "status"
  /\ LET u == flight[f].user
         isActive == flight[f].isActive
     IN /\ users' = [users EXCEPT ![u].isActive = isActive]
        /\ members' = IF members[u] = NoRow THEN members ELSE [members EXCEPT ![u].isActive = isActive]
        /\ signedIn' = SessionsAfter(u, isActive)
        /\ steady' = IF isActive THEN steady ELSE {}
  /\ Finish(f)
  /\ UNCHANGED <<employees, reports>>

-----------------------------------------------------------------------------
(* assignManagerReportsV2.                                                 *)

\* MANAGER_NOT_FOUND or EMPLOYEE_SCOPE_VIOLATION otherwise.
AssignReports(f, a, m, S) ==
  /\ Deliver(f)
  /\ MayAct(a)
  /\ ActiveMember(m)
  /\ S \subseteq employees
  /\ Continue(f, [pc |-> "clear", user |-> m, employees |-> S])
  /\ UNCHANGED <<users, employees, members, signedIn, reports, steady>>

Cleared(m) == ReportsOf(m)

SetManager(S, m) ==
  members' = [u \in User |-> IF u \in S THEN [members[u] EXCEPT !.manager = m] ELSE members[u]]

Clear(f) ==
  /\ flight[f].pc = "clear"
  /\ SetManager(Cleared(flight[f].user), NoManager)
  /\ Continue(f, [flight[f] EXCEPT !.pc = "assign"])
  /\ UNCHANGED <<users, employees, signedIn, reports, steady>>

\* Only memberships that are active change; the answer is 204 all the same.
Assign(f) ==
  /\ flight[f].pc = "assign"
  /\ LET m == flight[f].user
         taken == {e \in flight[f].employees : ActiveMember(e)}
     IN /\ SetManager(taken, m)
        /\ reports' = [n \in Manager |-> IF n = m THEN taken ELSE reports[n] \ taken]
  /\ Finish(f)
  /\ UNCHANGED <<users, employees, signedIn, steady>>

-----------------------------------------------------------------------------
(* reviewCorrectionV2 and reviewLeaveRequestV2, as far as the scope goes:   *)
(* the context and the request are read first, the decision is written     *)
(* later.                                                                  *)

Review(f, a, e) ==
  /\ Deliver(f)
  /\ MayAct(a)
  /\ InScope(a, e)
  /\ Continue(f, [pc |-> "review", actor |-> a, user |-> e])
  /\ UNCHANGED <<users, employees, members, signedIn, reports, steady>>

Decide(f) ==
  /\ flight[f].pc = "review"
  /\ Finish(f)
  /\ UNCHANGED <<users, employees, members, signedIn, reports, steady>>

-----------------------------------------------------------------------------
(* createLeaveRequestV2, createCorrectionV2 and createClockExceptionV2, as  *)
(* far as they tell somebody: the request commits first, and each statement *)
(* of approvalRecipientIds and notifyUsers awaits the one before.  Refused  *)
(* requests tell nobody.                                                    *)

\* The request of employee e is stored.
Ask(f, e) ==
  /\ Deliver(f)
  /\ HasAccess(e) /\ e \in signedIn
  /\ e \in employees
  /\ Continue(f, [pc |-> "asked", user |-> e])
  /\ steady' = IF \E a \in Admin : HasAccess(a) THEN steady \cup {f} ELSE steady
  /\ UNCHANGED <<users, employees, members, signedIn, reports>>

FindRecipients(f, step) ==
  /\ Continue(f, step)
  /\ UNCHANGED <<users, employees, members, signedIn, reports, steady>>

\* Mutant: the manager is told whether it can sign in or not.
FindManager_MutantAnyManager(f) ==
  /\ flight[f].pc = "asked"
  /\ LET e == flight[f].user
         m == members[e].manager
     IN FindRecipients(f,
          IF m # NoManager
          THEN [pc |-> "recipients", user |-> e, told |-> {m}]
          ELSE [pc |-> "admins", user |-> e])

\* The manager, if it can sign in (one findUnique with what it includes).
FindManager(f) ==
  /\ flight[f].pc = "asked"
  /\ LET e == flight[f].user
         m == members[e].manager
     IN FindRecipients(f,
          IF m # NoManager /\ HasAccess(m)
          THEN [pc |-> "recipients", user |-> e, told |-> {m}]
          ELSE [pc |-> "admins", user |-> e])

\* The administrators with an active membership.
FindAdmins(f) ==
  /\ flight[f].pc = "admins"
  /\ FindRecipients(f, [pc |-> "recipients", user |-> flight[f].user,
                        told |-> {a \in Admin : ActiveMember(a)}])

\* notifyUsers keeps the recipients that are active, and returns if there is none.
FindActive(f) ==
  /\ flight[f].pc = "recipients"
  /\ LET active == {u \in flight[f].told : Active(u)}
     IN FindRecipients(f, [flight[f] EXCEPT
          !.pc = IF active = {} THEN "answer" ELSE "notify", !.told = active])

\* One createMany; that a mail fails is only logged.
Notify(f) ==
  /\ flight[f].pc = "notify"
  /\ FindRecipients(f, [flight[f] EXCEPT !.pc = "answer"])

Answer(f) ==
  /\ flight[f].pc = "answer"
  /\ Finish(f)
  /\ steady' = steady \ {f}
  /\ UNCHANGED <<users, employees, members, signedIn, reports>>

-----------------------------------------------------------------------------

\* A statement fails, or the Worker stops.
Stop(f) ==
  /\ MayStop
  /\ flight[f] # Idle
  /\ Finish(f)
  /\ steady' = steady \ {f}
  /\ UNCHANGED <<users, employees, members, signedIn, reports>>

Next ==
  \E f \in Flight :
    \/ \E u \in User : SignIn(f, u)
    \/ CreateSession(f)
    \/ \E a \in {Dev} \cup Admin :
         \/ \E u \in User : Create(f, a, u)
         \/ \E u \in User, isActive \in BOOLEAN : ChangeStatus(f, a, u, isActive)
         \/ \E m \in Manager, S \in SUBSET Employee : AssignReports(f, a, m, S)
    \/ CreateUser(f)
    \/ \E row \in {"Employee", "Membership"} : CreateNested(f, row)
    \/ SetStatus(f)
    \/ Clear(f) \/ Assign(f)
    \/ \E a \in Admin \cup Manager, e \in Employee : Review(f, a, e)
    \/ Decide(f)
    \/ \E e \in Employee : Ask(f, e)
    \/ FindManager(f) \/ FindAdmins(f) \/ FindActive(f) \/ Notify(f) \/ Answer(f)
    \/ Stop(f)

Spec == Init /\ [][Next]_vars

-----------------------------------------------------------------------------

\* A request that is answered has told somebody, and only users who can sign in, whoever the
\* manager was and whatever other requests did meanwhile: provided that an administrator
\* could sign in when it began, and that nobody was deactivated since.
RequestsReachSomeone ==
  \A f \in Flight :
    flight[f].pc = "answer" /\ f \in steady =>
      flight[f].told # {} /\ \A u \in flight[f].told : HasAccess(u)

\* The same for an administrator who can sign in when the request is answered, though somebody
\* is deactivated meanwhile: a manager that was found is active no more when notifyUsers reads
\* the users, and nobody is told.
AnswersReachSomeone ==
  \A f \in Flight :
    flight[f].pc = "answer" /\ (\E a \in Admin : HasAccess(a)) => flight[f].told # {}

\* Who is told of a request can review it: the manager the employee reports to, or an
\* administrator, who can sign in when the request is answered.
ApproversAreInCharge ==
  \A f \in Flight :
    flight[f].pc = "answer" => \A u \in flight[f].told : HasAccess(u) /\ InScope(u, flight[f].user)

\* A request that is stored ends only once it has told whom it found, though it may stop.
NobodyIsLeftOut ==
  \A f \in Flight :
    flight[f].pc \in {"asked", "admins", "recipients", "notify"} => flight'[f] # Idle

\* Once an account is deactivated none of its sessions is left, and none can be created.
InactiveIsSignedOut == \A u \in signedIn : HasAccess(u)

Quiet == \A f \in Flight : flight[f] = Idle

\* "`ADMIN`, `MANAGER`, and `EMPLOYEE` are active organization memberships": a username
\* that is taken has its membership, and an employee's has its Employee row.  Without
\* them it can neither sign in nor be created again.
AccountsAreComplete ==
  Quiet => \A u \in User : Exists(u) => members[u] # NoRow /\ (u \in Employee => u \in employees)

\* The employees a manager was given by an answered request stay the manager's reports
\* until a later request gives them to another manager or takes them away.
ReportsAreKept == Quiet => \A m \in Manager : reports[m] \subseteq ReportsOf(m)

\* "A manager sees approvals only for memberships assigned as direct reports": the
\* reviewer still is in charge of the employee when the decision is written.
ReviewsAreInScope ==
  \A f \in Flight : flight[f].pc = "review" => HasAccess(flight[f].actor) /\ InScope(flight[f].actor, flight[f].user)

\* "An administrator manages only employees created by that administrator."
AdminManagesOwnEmployees ==
  \A f \in Flight :
    flight[f].pc = "review" /\ flight[f].actor \in Admin => users[flight[f].user].createdBy = flight[f].actor
=============================================================================
