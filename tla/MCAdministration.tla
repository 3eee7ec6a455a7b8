-------------------------- MODULE MCAdministration --------------------------
(***************************************************************************)
(* What administrators set up, on small instances: the effective-dated     *)
(* rows of EffectiveDating, and OrganizationAccounts, OrganizationSetup,   *)
(* HolidayCatalogue and D1Shadow.  They share nothing here, so a behaviour *)
(* is about the one setting part names; the others stay as they start.     *)
(*                                                                         *)
(*   dates          two requests, serialized, that may stop                *)
(*   profiles       the same without stops                                 *)
(*   requests       accounts: two requests that interleave and may stop    *)
(*   accounts       accounts: one request at a time, none stops            *)
(*   names          set-up: serialized requests that may stop              *)
(*   organizations  set-up: the same without stops                         *)
(*   holidays       two states, one date, an older and a newer calendar    *)
(*   shadow         a manager and an employee in any state, one write      *)
(***************************************************************************)
EXTENDS EffectiveDating, TLC

CONSTANTS f1, f2, dev, a1, m1, m2, e1, e2, e3, none, o1, o2, Name, Number, w1,
          s1, s2, any, d1, u1, binding, nobinding

VARIABLES part,
          users, employees, members, signedIn, reports, accountFlight, steady,
          organizations, policies, leaveTypes, numbers, worksites, setupFlight,
          day, library, malaysia, organization, active, notifications, cron, stops,
          rowsRead, config, stats, comparing, writes

accountVars == <<users, employees, members, signedIn, reports, accountFlight, steady>>
setupVars == <<organizations, policies, leaveTypes, numbers, worksites, setupFlight>>
holidayVars == <<day, library, malaysia, organization, active, notifications, cron, stops>>
shadowVars == <<rowsRead, config, stats, comparing, writes>>
suiteVars == <<part, vars, accountVars, setupVars, holidayVars, shadowVars>>

Profile == INSTANCE EffectiveDating WITH MayStop <- FALSE

Requests == INSTANCE OrganizationAccounts WITH
  Dev <- dev, Admin <- {a1}, Manager <- {m1}, Employee <- {e1}, NoManager <- none,
  CoordinatorSerializes <- FALSE, flight <- accountFlight

Accounts == INSTANCE OrganizationAccounts WITH
  Dev <- dev, Admin <- {a1}, Manager <- {m1, m2}, Employee <- {e1}, NoManager <- none,
  Flight <- {f1}, CoordinatorSerializes <- TRUE, MayStop <- FALSE, flight <- accountFlight

Setup == INSTANCE OrganizationSetup WITH
  Organization <- {o1, o2}, Employee <- {e1, e2, e3}, NoNumber <- none, Worksite <- {},
  EmployerOf <- [e \in {e1, e2, e3} |-> IF e = e3 THEN o2 ELSE o1],
  CoordinatorSerializes <- TRUE, flight <- setupFlight

WholeSetup == INSTANCE OrganizationSetup WITH
  Organization <- {o1, o2}, Employee <- {e1, e2, e3}, NoNumber <- none, Worksite <- {w1},
  EmployerOf <- [e \in {e1, e2, e3} |-> IF e = e3 THEN o2 ELSE o1],
  CoordinatorSerializes <- TRUE, MayStop <- FALSE, flight <- setupFlight

Holidays == INSTANCE HolidayCatalogue WITH
  State <- {s1, s2}, Date <- {d1}, AnyState <- any, DevAdmin <- {u1}, WindowDays <- 1,
  Cron <- {}, MaxStops <- 0,
  Library <- {[s \in {s1, s2} |-> {d1}], [s \in {s1, s2} |-> IF s = s1 THEN {} ELSE {d1}]}

Shadow == INSTANCE D1Shadow WITH
  Manager <- {m1}, Employee <- {e1}, NoManager <- none, Flight <- {f1},
  Environment <- {[binding |-> binding, mode |-> "compare"], [binding |-> binding, mode |-> "off"],
                  [binding |-> nobinding, mode |-> "compare"]},
  NoBinding <- nobinding, MaxComparisons <- 1, MaxWrites <- 1,
  users <- rowsRead, flight <- comparing

ASSUME AdministrationParameters ==
  /\ Requests!Parameters /\ Accounts!Parameters /\ Setup!Parameters /\ WholeSetup!Parameters
  /\ Holidays!Parameters /\ Shadow!Parameters

\* Requests and names are compared only by equality.
Symmetry == Permutations({f1, f2}) \cup Permutations(Name)

\* Outside its part the shadow compares two users who have no rows, and the deployed
\* calendar is the older one.
SuiteInit ==
  /\ part \in {"dates", "profiles", "requests", "accounts", "names", "organizations",
               "holidays", "shadow"}
  /\ Init /\ Holidays!Init
  /\ IF part = "organizations" THEN WholeSetup!Init ELSE Setup!Init
  /\ IF part = "accounts" THEN Accounts!Init ELSE Requests!Init
  /\ part # "holidays" => library = [s \in {s1, s2} |-> {d1}]
  /\ IF part = "shadow" THEN Shadow!Init
     ELSE /\ rowsRead = <<>> /\ stats = Shadow!NoStats /\ writes = 0
          /\ config = [binding |-> nobinding, mode |-> "off"]
          /\ comparing = [f \in {f1} |-> Shadow!Idle]

SuiteNext ==
  /\ UNCHANGED part
  /\ \/ /\ part = "dates" /\ Next
        /\ UNCHANGED <<accountVars, setupVars, holidayVars, shadowVars>>
     \/ /\ part = "profiles" /\ Profile!Next
        /\ UNCHANGED <<accountVars, setupVars, holidayVars, shadowVars>>
     \/ /\ part = "requests" /\ Requests!Next
        /\ UNCHANGED <<vars, setupVars, holidayVars, shadowVars>>
     \/ /\ part = "accounts" /\ Accounts!Next
        /\ UNCHANGED <<vars, setupVars, holidayVars, shadowVars>>
     \/ /\ part = "names" /\ Setup!Next
        /\ UNCHANGED <<vars, accountVars, holidayVars, shadowVars>>
     \/ /\ part = "organizations" /\ WholeSetup!Next
        /\ UNCHANGED <<vars, accountVars, holidayVars, shadowVars>>
     \/ /\ part = "holidays" /\ Holidays!Next
        /\ UNCHANGED <<vars, accountVars, setupVars, shadowVars>>
     \/ /\ part = "shadow" /\ Shadow!Next
        /\ UNCHANGED <<vars, accountVars, setupVars, holidayVars>>

Suite == SuiteInit /\ [][SuiteNext]_suiteVars

-----------------------------------------------------------------------------

\* What requests leave behind.  With two in any order that may stop, an employee's request is
\* answered only after somebody who can sign in was told of it, provided that nobody was
\* deactivated in between and there was an administrator to tell.  One at a time and none
\* stopping, those told may review it, accounts, organizations and pay profiles are complete, a
\* deactivated account is signed out and managers keep their reports; and no name or number is
\* taken twice although requests stop.
AdministrationHoldsTogether ==
  /\ part = "profiles" => Profile!NoGapBetweenProfiles
  /\ part = "requests" => Requests!TypeOK /\ Requests!RequestsReachSomeone
  /\ part = "accounts" =>
       /\ Accounts!TypeOK /\ Accounts!InactiveIsSignedOut
       /\ Accounts!AccountsAreComplete /\ Accounts!ReportsAreKept
       /\ Accounts!RequestsReachSomeone /\ Accounts!ApproversAreInCharge
  /\ part = "names" => Setup!TypeOK
  /\ part = "organizations" => WholeSetup!TypeOK /\ WholeSetup!OrganizationsAreComplete
  /\ Setup!OrganizationNamesDiffer /\ Setup!EmployeeNumbersDiffer

\* What decides on a date, and what two readers of the same rows see: a working-day override
\* is final, an import makes no holiday a working day, and a comparison during which nobody
\* writes finds that SQL and Prisma read the same.
ReadersAgree ==
  [][ /\ Holidays!TypeOK /\ Holidays!OverrideIsFinal
      /\ part = "holidays" => Holidays!ImportOnlyAdds
      /\ part = "shadow" => Shadow!TypeOK /\ Shadow!QuietComparisonMatches ]_suiteVars
=============================================================================
