---------------------------- MODULE SessionClient ----------------------------
(***************************************************************************)
(* The web client of AuthSessions: the tabs of one browser, which share    *)
(* the refresh cookie and the stored user, and each keep an access token   *)
(* and at most one pending refresh of their own (lib/auth.ts).             *)
(*                                                                         *)
(* Nothing else ends the sessions: the password, the access of the account *)
(* and the 30 days of a session stay as they are.  A request in flight is  *)
(* the flight of AuthSessions with the same name, between its way to the   *)
(* server and its answer's way back, which can both be lost.               *)
(***************************************************************************)
EXTENDS AuthSessions

CONSTANTS
  Tab,
  MayLose   \* whether the network can lose a request or its answer

ASSUME SessionClientAssumption == MayLose \in BOOLEAN

VARIABLES
  cookie,     \* the refresh cookie of the browser
  signedIn,   \* localStorage has a user
  leaving,    \* the user has signed out since the last sign-in
  token,      \* per tab, the session of its access token
  request     \* the requests on the network

clientVars == <<cookie, signedIn, leaving, token, request>>
allVars == <<vars, clientVars>>

None == [at |-> "none"]

Request ==
  [at : {"sent", "server", "answered"}, kind : {"login", "refresh", "logout"}, tab : Tab,
   session : Session \cup {NoSession}]

\* Every variable has its type, those of AuthSessions too.
ClientTypeOK ==
  /\ TypeOK
  /\ cookie \in Session \cup {NoSession}
  /\ signedIn \in BOOLEAN /\ leaving \in BOOLEAN
  /\ token \in [Tab -> Session \cup {NoSession}]
  /\ request \in [Flight -> Request \cup {None}]

ClientInit ==
  /\ Init
  /\ cookie = NoSession /\ signedIn = FALSE /\ leaving = FALSE
  /\ token = [t \in Tab |-> NoSession]
  /\ request = [r \in Flight |-> None]

-----------------------------------------------------------------------------

Pending(t, kind) == \E r \in Flight : request[r] # None /\ request[r].tab = t /\ request[r].kind = kind

\* fetch, with the cookie of that moment.
Fetch(r, t, kind) ==
  /\ request[r] = None
  /\ request' = [request EXCEPT ![r] = [at |-> "sent", kind |-> kind, tab |-> t, session |-> cookie]]

\* login or verifyMfaLogin, from the sign-in page.
SignIn(r, t) ==
  /\ ~signedIn /\ \A q \in Flight : request[q] = None
  /\ Fetch(r, t, "login")
  /\ leaving' = FALSE
  /\ UNCHANGED <<vars, cookie, signedIn, token>>

\* Mutant: every call of authenticatedFetch refreshes for itself.
RefreshAllowed_MutantNoSharing(t) == TRUE

\* refreshPromise is shared by the calls of a tab.
RefreshAllowed(t) == ~Pending(t, "refresh")

refreshAccessToken(r, t) ==
  /\ signedIn /\ token[t] = NoSession
  /\ RefreshAllowed(t)
  /\ Fetch(r, t, "refresh")
  /\ UNCHANGED <<vars, cookie, signedIn, leaving, token>>

\* A call is answered 401, for an access token of 15 minutes ago or of a session that has
\* been rotated, and drops whatever token the tab now has.
Refused(t) ==
  /\ token[t] # NoSession
  /\ token' = [token EXCEPT ![t] = NoSession]
  /\ UNCHANGED <<vars, cookie, signedIn, leaving, request>>

SignOut(r, t) ==
  /\ signedIn /\ ~Pending(t, "logout")
  /\ Fetch(r, t, "logout")
  /\ leaving' = TRUE
  /\ UNCHANGED <<vars, cookie, signedIn, token>>

-----------------------------------------------------------------------------
(* The server.                                                             *)

At(r, place) == request' = [request EXCEPT ![r].at = place]

Arrive(r) ==
  /\ request[r].at = "sent"
  /\ IF request[r].kind = "login" THEN Login(r) /\ At(r, "server")
     ELSE IF request[r].session = NoSession
     THEN At(r, "answered") /\ UNCHANGED vars
     ELSE IF request[r].kind = "refresh"
     THEN Refresh(r, request[r].session) /\ At(r, "server")
     ELSE /\ End(r, request[r].session)
          /\ request' = [request EXCEPT ![r].at = "answered", ![r].session = NoSession]
  /\ UNCHANGED <<cookie, signedIn, leaving, token>>

Serve(r) ==
  /\ request[r].at = "server"
  /\ EndFamily(r) \/ Undo(r) \/ \E s \in Session : createAuthSession(r, s) \/ Rotate(r, s)
  /\ UNCHANGED clientVars

Answer(r) ==
  /\ request[r].at = "server"
  /\ Respond(r)
  /\ request' = [request EXCEPT ![r].at = "answered", ![r].session = flight[r].session]
  /\ UNCHANGED <<cookie, signedIn, leaving, token>>

-----------------------------------------------------------------------------
(* The answers, in any order.                                              *)

\* saveSession with a new session, clearSession on 401 and after logout; the browser takes
\* the cookie of the answer, the cleared one too.
Receive(r) ==
  LET session == request[r].session
      t == request[r].tab
  IN /\ request[r].at = "answered"
     /\ request' = [request EXCEPT ![r] = None]
     /\ cookie' = session
     /\ token' = [token EXCEPT ![t] = session]
     /\ signedIn' = (session # NoSession)
     /\ UNCHANGED <<vars, leaving>>

\* fetch rejects; only logout clears the stored user even so.
Lose(r) ==
  /\ MayLose
  /\ request[r].at \in {"sent", "answered"}
  /\ request' = [request EXCEPT ![r] = None]
  /\ IF request[r].kind = "logout"
     THEN signedIn' = FALSE /\ token' = [token EXCEPT ![request[r].tab] = NoSession]
     ELSE UNCHANGED <<signedIn, token>>
  /\ UNCHANGED <<vars, cookie, leaving>>

-----------------------------------------------------------------------------

ClientNext ==
  \E r \in Flight :
    \/ \E t \in Tab : SignIn(r, t) \/ refreshAccessToken(r, t) \/ SignOut(r, t)
    \/ Arrive(r) \/ Serve(r) \/ Answer(r) \/ Receive(r) \/ Lose(r)
    \/ \E t \in Tab : Refused(t)

ClientSpec == ClientInit /\ [][ClientNext]_allVars

-----------------------------------------------------------------------------
(* Properties.                                                             *)

\* What expires or is refused for other reasons is not modelled, so nobody is told "Your
\* session has expired" who has not signed out.
StaysSignedIn == [][signedIn /\ ~signedIn' => leaving]_allVars

\* A browser that believes it is signed in, and waits for no answer, has a refresh token
\* that works.
CookieIsUsable ==
  signedIn /\ ~leaving /\ (\A r \in Flight : request[r] = None) => cookie # NoSession /\ Usable(cookie)

\* Signing out takes: when all is answered the browser is not signed in again.
SignOutTakes == leaving /\ (\A r \in Flight : request[r] = None) => ~signedIn
=============================================================================
