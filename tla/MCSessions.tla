----------------------------- MODULE MCSessions -----------------------------
(***************************************************************************)
(* The sessions of one account, the browser that holds them and what comes *)
(* before them (AuthSessions, SessionClient, AccountSecurity) on small     *)
(* instances.  A behaviour is about the setting part names; what that      *)
(* setting does not use stays in its initial state.                        *)
(*                                                                         *)
(*   account    requests that interleave and stop, one reset token, one    *)
(*              change of the password                                     *)
(*   passwords  one request at a time that is not stopped, two reset       *)
(*              tokens and two changes of the password                     *)
(*   network    two tabs, requests that interleave, answers that get lost  *)
(*   tab        one tab, one request at a time on the server, answers in   *)
(*              any order, none lost                                       *)
(*   lockout    two sign-ins that interleave and are not stopped           *)
(*   factor     one request at a time, which may stop, though not between  *)
(*              the count of a wrong password and the lock                 *)
(***************************************************************************)
EXTENDS SessionClient, AccountSecurity, TLC

CONSTANTS k2, t1

VARIABLE part

suiteVars == <<part, allVars, securityVars>>

ASSUME OneTabAssumption == t1 \in Tab

\* Sessions and requests are compared only by equality.
Symmetry == Permutations(Session) \cup Permutations(Flight)

SuiteInit ==
  /\ part \in {"account", "passwords", "network", "tab", "lockout", "factor"}
  /\ ClientInit /\ SecurityInit

\* No other request is in flight, neither here nor in the coordinator.
OnlyRequest(f) == \A g \in Flight \ {f} : flight[g] = Idle

AccountNext == Next /\ version' <= 1 /\ (k2 \in ResetToken => resets'[k2] = "none")

PasswordsNext ==
  \/ \E f \in Flight : OnlyRequest(f) /\ Handle(f)
  \/ \E s \in Session : Expire(s)

TabNext ==
  \/ Refused(t1)
  \/ \E r \in Flight :
       \/ SignIn(r, t1) \/ refreshAccessToken(r, t1) \/ SignOut(r, t1) \/ Receive(r)
       \/ OnlyRequest(r) /\ (Arrive(r) \/ Serve(r) \/ Answer(r))

OneSignInAtATime ==
  \A f, g \in Flight : signIns'[f] # Idle /\ signIns'[g] # Idle => f = g

LocksWithoutStop == (\E f \in Flight : signIns[f].pc = "lock") => locked'

SuiteNext ==
  /\ UNCHANGED part
  /\ \/ part = "account" /\ AccountNext /\ UNCHANGED <<clientVars, securityVars>>
     \/ part = "passwords" /\ PasswordsNext /\ UNCHANGED <<clientVars, securityVars>>
     \/ part = "network" /\ ClientNext /\ UNCHANGED securityVars
     \/ part = "tab" /\ TabNext /\ UNCHANGED securityVars
     \/ /\ part = "lockout"
        /\ LockRunsOut \/ \E f \in Flight : CheckPassword(f)
        /\ UNCHANGED allVars
     \/ /\ part = "factor"
        /\ SecurityNext /\ OneSignInAtATime /\ LocksWithoutStop
        /\ UNCHANGED allVars

Suite == SuiteInit /\ [][SuiteNext]_suiteVars

-----------------------------------------------------------------------------

\* Every row and request has its type.  With one request at a time, and none that stops,
\* every session that is still usable was opened or kept by someone who knew the current
\* password; and a browser with one tab and no lost answer, when it believes it is signed in
\* and waits for nothing, has a refresh token that works, in whatever order its answers came.
SessionsAreSound ==
  /\ part \in {"account", "network"} => ClientTypeOK
  /\ part = "passwords" => PasswordEndsSessions
  /\ part = "tab" => CookieIsUsable

\* Nobody is told "Your session has expired" who has not signed out, while the browser has
\* one tab and no answer is lost: its refreshes never overtake each other.
OneTabStaysSignedIn == [][part = "tab" /\ signedIn /\ ~signedIn' => leaving]_suiteVars
=============================================================================
