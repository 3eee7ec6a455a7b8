-------------------------- MODULE OrganizationSetup --------------------------
(***************************************************************************)
(* The names of organizations, employee numbers and worksites: what        *)
(* createAdminClient and updateWorkforceEmployeeV2 look up before they     *)
(* write, since no index keeps these names apart, and what the worksite    *)
(* handlers leave to the database.                                         *)
(*                                                                         *)
(* Every request names the coordinator "global".  The organization, its    *)
(* policy and its leave types are one nested create, whose statements      *)
(* commit one by one on D1.                                                *)
(***************************************************************************)
EXTENDS FiniteSets

CONSTANTS
  Organization,  \* Client ids
  Name,          \* what a name is in lower case
  Employee,      \* the employees
  Number,        \* employee numbers
  NoNumber,
  Worksite,      \* Worksite ids
  Flight,        \* the requests that can be in flight
  EmployerOf,    \* the organization of each employee
  CoordinatorSerializes,
  MayStop        \* a request may stop between two statements

\* What the constants may be.
Parameters ==
  /\ NoNumber \notin Number
  /\ EmployerOf \in [Employee -> Organization]
  /\ CoordinatorSerializes \in BOOLEAN /\ MayStop \in BOOLEAN

VARIABLES
  organizations,  \* Client rows: their names, as they are written
  policies,       \* the organizations with a WorkPolicy row
  leaveTypes,     \* LeaveType rows
  numbers,        \* per employee, the employeeNumber
  worksites,      \* Worksite rows of one organization
  flight

vars == <<organizations, policies, leaveTypes, numbers, worksites, flight>>

\* A name is written in lower or in upper case.
Spelling == [name : Name, upper : BOOLEAN]

NoRow == [name |-> "none"]

DefaultLeave == {"ANNUAL", "SICK", "UNPAID"}

Idle == [pc |-> "idle"]

Flights ==
  [pc : {"create"}, organization : Organization, spelling : Spelling]
    \cup [pc : {"nested"}, organization : Organization, left : SUBSET ({"policy"} \cup DefaultLeave)]
    \cup [pc : {"update"}, employee : Employee, number : Number \cup {NoNumber}]

TypeOK ==
  /\ organizations \in [Organization -> Spelling \cup {NoRow}]
  /\ policies \subseteq Organization
  /\ leaveTypes \subseteq Organization \X DefaultLeave
  /\ numbers \in [Employee -> Number \cup {NoNumber}]
  /\ worksites \in [Worksite -> Spelling \cup {NoRow}]
  /\ flight \in [Flight -> {Idle} \cup Flights]

Init ==
  /\ organizations = [o \in Organization |-> NoRow]
  /\ policies = {}
  /\ leaveTypes = {}
  /\ numbers = [e \in Employee |-> NoNumber]
  /\ worksites = [w \in Worksite |-> NoRow]
  /\ flight = [f \in Flight |-> Idle]

Existing(table) == {x \in DOMAIN table : table[x] # NoRow}

-----------------------------------------------------------------------------

\* The coordinator starts a request.
Deliver(f) ==
  /\ flight[f] = Idle
  /\ CoordinatorSerializes => \A g \in Flight : flight[g] = Idle

Continue(f, step) == flight' = [flight EXCEPT ![f] = step]

\* toLocaleLowerCase on both sides.
Duplicate(spelling) == \E o \in Existing(organizations) : organizations[o].name = spelling.name

\* createAdminClient: all names are read.
ReadNames(f, o, spelling) ==
  /\ Deliver(f)
  /\ organizations[o] = NoRow
  /\ ~ Duplicate(spelling)
  /\ Continue(f, [pc |-> "create", organization |-> o, spelling |-> spelling])
  /\ UNCHANGED <<organizations, policies, leaveTypes, numbers, worksites>>

\* The ids of new rows differ.
CreateOrganization(f) ==
  /\ flight[f].pc = "create"
  /\ LET o == flight[f].organization
     IN /\ organizations[o] = NoRow
        /\ organizations' = [organizations EXCEPT ![o] = flight[f].spelling]
        /\ Continue(f, [pc |-> "nested", organization |-> o, left |-> {"policy"} \cup DefaultLeave])
  /\ UNCHANGED <<policies, leaveTypes, numbers, worksites>>

\* The rows of the nested create, in some order.
CreateNested(f) ==
  /\ flight[f].pc = "nested"
  /\ \E row \in flight[f].left :
       LET o == flight[f].organization
           left == flight[f].left \ {row}
       IN /\ IF row = "policy"
             THEN policies' = policies \cup {o} /\ UNCHANGED leaveTypes
             ELSE leaveTypes' = leaveTypes \cup {<<o, row>>} /\ UNCHANGED policies
          /\ Continue(f, IF left = {} THEN Idle ELSE [flight[f] EXCEPT !.left = left])
  /\ UNCHANGED <<organizations, numbers, worksites>>

\* EMPLOYEE_NUMBER_EXISTS: another employee of the organization has the number.
NumberTaken(e, number) ==
  /\ number # NoNumber
  /\ \E d \in Employee \ {e} : numbers[d] = number /\ EmployerOf[d] = EmployerOf[e]

\* updateWorkforceEmployeeV2.
ReadNumbers(f, e, number) ==
  /\ Deliver(f)
  /\ ~ NumberTaken(e, number)
  /\ Continue(f, [pc |-> "update", employee |-> e, number |-> number])
  /\ UNCHANGED <<organizations, policies, leaveTypes, numbers, worksites>>

UpdateEmployee(f) ==
  /\ flight[f].pc = "update"
  /\ numbers' = [numbers EXCEPT ![flight[f].employee] = flight[f].number]
  /\ Continue(f, Idle)
  /\ UNCHANGED <<organizations, policies, leaveTypes, worksites>>

\* A handler of one statement runs when the coordinator lets it.
AtOnce == CoordinatorSerializes => \A g \in Flight : flight[g] = Idle

\* createAdminWorksite, updateAdminWorksite and deleteAdminWorksite.  Nothing but an error
\* of the database refuses a name, and D1 has no index on it.
SaveWorksite(w, spelling) ==
  /\ AtOnce
  /\ worksites' = [worksites EXCEPT ![w] = spelling]
  /\ UNCHANGED <<organizations, policies, leaveTypes, numbers, flight>>

DeleteWorksite(w) ==
  /\ AtOnce
  /\ worksites[w] # NoRow
  /\ worksites' = [worksites EXCEPT ![w] = NoRow]
  /\ UNCHANGED <<organizations, policies, leaveTypes, numbers, flight>>

Stop(f) ==
  /\ MayStop
  /\ flight[f] # Idle
  /\ Continue(f, Idle)
  /\ UNCHANGED <<organizations, policies, leaveTypes, numbers, worksites>>

Next ==
  \/ \E f \in Flight :
       \/ \E o \in Organization, spelling \in Spelling : ReadNames(f, o, spelling)
       \/ CreateOrganization(f) \/ CreateNested(f)
       \/ \E e \in Employee, number \in Number \cup {NoNumber} : ReadNumbers(f, e, number)
       \/ UpdateEmployee(f)
       \/ Stop(f)
  \/ \E w \in Worksite :
       \/ \E spelling \in Spelling : SaveWorksite(w, spelling)
       \/ DeleteWorksite(w)

Spec == Init /\ [][Next]_vars

-----------------------------------------------------------------------------

\* createAdminClient: "An organization with that name already exists", in whatever case
\* it is written.
OrganizationNamesDiffer ==
  \A o, p \in Existing(organizations) : organizations[o].name = organizations[p].name => o = p

\* updateWorkforceEmployeeV2: "That employee number is already in use".  Two organizations
\* may use the same number.
EmployeeNumbersDiffer ==
  \A d, e \in Employee :
    numbers[d] # NoNumber /\ numbers[d] = numbers[e] /\ EmployerOf[d] = EmployerOf[e] => d = e

\* handleDuplicateName: "A worksite with that name already exists in this scope".
WorksiteNamesDiffer == \A v, w \in Existing(worksites) : worksites[v] = worksites[w] => v = w

\* When no request is running, every organization has its policy and its three leave types:
\* a second attempt is refused because the name is taken.
OrganizationsAreComplete ==
  (\A f \in Flight : flight[f] = Idle) =>
    \A o \in Existing(organizations) : o \in policies /\ \A t \in DefaultLeave : <<o, t>> \in leaveTypes
=============================================================================
