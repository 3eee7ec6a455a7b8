---------------------------- MODULE AuthSessions ----------------------------
(***************************************************************************)
(* The sessions of one account on D1: sign-in, the rotation of refresh     *)
(* tokens, sign-out, and everything that ends sessions: a change or reset  *)
(* of the password, the end of the account's access, and time              *)
(* (auth-sessions.ts and its callers).  AccountSecurity has what comes     *)
(* before a session: lockout and the second factor.                        *)
(*                                                                         *)
(* A session is known by its refresh token, which only an answer discloses.*)
(* All requests are in the coordinator "global"; a request may fail or     *)
(* stop after any statement that has committed.                            *)
(***************************************************************************)
EXTENDS FiniteSets, Naturals

CONSTANTS
  Session,      \* bound: the AuthSession rows ever created
  ResetToken,   \* bound: the PasswordResetToken rows ever created
  Flight,       \* the requests that can be in flight
  NoSession,
  MaxVersion,   \* bound: User.passwordVersion
  CoordinatorSerializes,
  MayStop       \* whether a request can stop half-way

ASSUME AuthSessionsAssumption ==
  NoSession \notin Session /\ MaxVersion \in Nat /\ CoordinatorSerializes \in BOOLEAN /\ MayStop \in BOOLEAN

VARIABLES
  version,    \* User.passwordVersion
  access,     \* User.isActive and an ACTIVE membership of the right role
  sessions,   \* AuthSession rows
  expired,    \* the sessions whose expiresAt has passed
  known,      \* the sessions whose refresh token was answered to the client
  resets,     \* PasswordResetToken rows
  flight

vars == <<version, access, sessions, expired, known, resets, flight>>
account == <<version, access, resets>>

NoRow == [family |-> NoSession, from |-> NoSession, proven |-> 0, revoked |-> TRUE]

\* familyId is the first session of the family; proven is the password under which its
\* owner last showed the password.
Row == [family : Session, from : Session \cup {NoSession}, proven : 0..MaxVersion, revoked : BOOLEAN]

Idle == [pc |-> "idle"]

Flights ==
  [pc : {"login"}, version : 0..MaxVersion]
    \cup [pc : {"rotate", "undo", "change", "end family"}, session : Session]
    \cup [pc : {"respond"}, session : Session \cup {NoSession}]
    \cup [pc : {"password", "use", "use others", "end sessions"}, token : ResetToken]

\* Every variable has its type.
TypeOK ==
  /\ version \in 0..MaxVersion /\ access \in BOOLEAN
  /\ sessions \in [Session -> Row \cup {NoRow}]
  /\ expired \subseteq Session /\ known \subseteq Session
  /\ resets \in [ResetToken -> {"none", "sent", "used"}]
  /\ flight \in [Flight -> {Idle} \cup Flights]

Init ==
  /\ version = 0 /\ access = TRUE
  /\ sessions = [s \in Session |-> NoRow]
  /\ expired = {} /\ known = {}
  /\ resets = [t \in ResetToken |-> "none"]
  /\ flight = [f \in Flight |-> Idle]

-----------------------------------------------------------------------------

Deliver(f) ==
  /\ flight[f] = Idle
  /\ CoordinatorSerializes => \A g \in Flight : flight[g] = Idle

Continue(f, step) == flight' = [flight EXCEPT ![f] = step]

Finish(f) == Continue(f, Idle)

Live(s) == ~sessions[s].revoked

Family(s) == {m \in Session : sessions[m].family = sessions[s].family}

Revoke(S) == [s \in Session |-> IF s \in S THEN [sessions[s] EXCEPT !.revoked = TRUE] ELSE sessions[s]]

\* requireCurrentSession: the access token of a session with the current password.
Current(s) == s \in known /\ Live(s) /\ s \notin expired /\ access

-----------------------------------------------------------------------------
(* Sign-in, sign-out.                                                      *)

\* The password is right for the version read; the second factor follows.
Login(f) ==
  /\ Deliver(f)
  /\ access
  /\ Continue(f, [pc |-> "login", version |-> version])
  /\ UNCHANGED <<account, sessions, expired, known>>

createAuthSession(f, s) ==
  /\ flight[f].pc = "login"
  /\ sessions[s] = NoRow
  /\ sessions' = [sessions EXCEPT ![s] =
       [family |-> s, from |-> NoSession, proven |-> flight[f].version, revoked |-> FALSE]]
  /\ Continue(f, [pc |-> "respond", session |-> s])
  /\ UNCHANGED <<account, expired, known>>

\* Mutant: the token of a session that was never committed, or was taken back, is answered.
Respond_MutantUndone(f) ==
  /\ flight[f].pc \in {"respond", "undo"}
  /\ known' = known \cup ({flight[f].session} \ {NoSession})
  /\ Finish(f)
  /\ UNCHANGED <<account, sessions, expired>>

\* The answer of a sign-in or of a refresh: the new token, or 401 and no cookie.
Respond(f) ==
  /\ flight[f].pc = "respond"
  /\ known' = known \cup ({flight[f].session} \ {NoSession})
  /\ Finish(f)
  /\ UNCHANGED <<account, sessions, expired>>

\* logoutV2 with the token of s, or revokeSessionV2 of s from a current session.
End(f, s) ==
  /\ Deliver(f)
  /\ s \in known \/ (sessions[s] # NoRow /\ \E c \in Session : Current(c))
  /\ sessions' = Revoke({s})
  /\ UNCHANGED <<account, expired, known, flight>>

-----------------------------------------------------------------------------
(* rotateAuthSession.                                                      *)

AfterRead(s) ==
  [pc |-> IF ~Live(s) \/ s \in expired \/ ~access THEN "end family" ELSE "rotate", session |-> s]

Refresh(f, s) ==
  /\ Deliver(f)
  /\ s \in known
  /\ Continue(f, AfterRead(s))
  /\ UNCHANGED <<account, sessions, expired, known>>

EndFamily(f) ==
  /\ flight[f].pc = "end family"
  /\ sessions' = Revoke(Family(flight[f].session))
  /\ Continue(f, [pc |-> "respond", session |-> NoSession])
  /\ UNCHANGED <<account, expired, known>>

\* Mutant: what the batch revoked is not looked at.
Rotate_MutantCountIgnored(f, n) ==
  LET s == flight[f].session
  IN /\ flight[f].pc = "rotate"
     /\ sessions[n] = NoRow
     /\ sessions' = [Revoke({s}) EXCEPT ![n] = [sessions[s] EXCEPT !.from = s, !.revoked = FALSE]]
     /\ Continue(f, [pc |-> "respond", session |-> n])
     /\ UNCHANGED <<account, expired, known>>

\* Mutant: the batch creates the successor and forgets the current session.
Rotate_MutantKeepsCurrent(f, n) ==
  LET s == flight[f].session
  IN /\ flight[f].pc = "rotate"
     /\ sessions[n] = NoRow
     /\ sessions' = [sessions EXCEPT ![n] = [sessions[s] EXCEPT !.from = s, !.revoked = FALSE]]
     /\ Continue(f, [pc |-> IF Live(s) THEN "respond" ELSE "undo", session |-> n])
     /\ UNCHANGED <<account, expired, known>>

\* One batch: the current session is revoked if it still is live, and its successor n is
\* created whether it was or not.
Rotate(f, n) ==
  LET s == flight[f].session
  IN /\ flight[f].pc = "rotate"
     /\ sessions[n] = NoRow
     /\ sessions' = [Revoke({s}) EXCEPT ![n] = [sessions[s] EXCEPT !.from = s, !.revoked = FALSE]]
     /\ Continue(f, [pc |-> IF Live(s) THEN "respond" ELSE "undo", session |-> n])
     /\ UNCHANGED <<account, expired, known>>

\* The batch revoked nothing: the successor is revoked in its turn.
Undo(f) ==
  /\ flight[f].pc = "undo"
  /\ sessions' = Revoke({flight[f].session})
  /\ Continue(f, [pc |-> "respond", session |-> NoSession])
  /\ UNCHANGED <<account, expired, known>>

-----------------------------------------------------------------------------
(* Passwords and access.                                                   *)

\* updateProfile with a new password, from the session s.
ChangePassword(f, s) ==
  /\ Deliver(f)
  /\ Current(s)
  /\ Continue(f, [pc |-> "change", session |-> s])
  /\ UNCHANGED <<account, sessions, expired, known>>

\* Mutant: the other sessions stay.
Change_MutantKeepsOthers(f) ==
  /\ flight[f].pc = "change"
  /\ version < MaxVersion
  /\ version' = version + 1
  /\ sessions' = [sessions EXCEPT ![flight[f].session].proven = version + 1]
  /\ Finish(f)
  /\ UNCHANGED <<access, resets, expired, known>>

\* One batch: the password, and the end of the other sessions.
Change(f) ==
  /\ flight[f].pc = "change"
  /\ version < MaxVersion
  /\ version' = version + 1
  /\ LET own == flight[f].session
     IN sessions' = [Revoke(Session \ {own}) EXCEPT ![own].proven = version + 1]
  /\ Finish(f)
  /\ UNCHANGED <<access, resets, expired, known>>

\* resetManagedAccountPassword, resetGlobalAdminPassword: one batch.
AdminReset(f) ==
  /\ Deliver(f)
  /\ version < MaxVersion
  /\ version' = version + 1
  /\ sessions' = Revoke(Session)
  /\ UNCHANGED <<access, resets, expired, known, flight>>

\* requestPasswordResetV2; a mail that cannot be sent takes its token back.
RequestReset(f, t) ==
  /\ Deliver(f)
  /\ access /\ resets[t] = "none"
  /\ resets' = [resets EXCEPT ![t] = "sent"]
  /\ UNCHANGED <<version, access, sessions, expired, known, flight>>

\* resetPasswordV2: four statements, in the order of the code.
Reset(f, t) ==
  /\ Deliver(f)
  /\ access /\ resets[t] = "sent"
  /\ Continue(f, [pc |-> "password", token |-> t])
  /\ UNCHANGED <<account, sessions, expired, known>>

ResetPassword(f) ==
  /\ flight[f].pc = "password"
  /\ version < MaxVersion
  /\ version' = version + 1
  /\ Continue(f, [flight[f] EXCEPT !.pc = "use"])
  /\ UNCHANGED <<access, resets, sessions, expired, known>>

UseToken(f) ==
  /\ flight[f].pc = "use"
  /\ resets' = [resets EXCEPT ![flight[f].token] = "used"]
  /\ Continue(f, [flight[f] EXCEPT !.pc = "use others"])
  /\ UNCHANGED <<version, access, sessions, expired, known>>

UseOtherTokens(f) ==
  /\ flight[f].pc = "use others"
  /\ resets' = [t \in ResetToken |-> IF resets[t] = "sent" THEN "used" ELSE resets[t]]
  /\ Continue(f, [flight[f] EXCEPT !.pc = "end sessions"])
  /\ UNCHANGED <<version, access, sessions, expired, known>>

EndSessions(f) ==
  /\ flight[f].pc = "end sessions"
  /\ sessions' = Revoke(Session)
  /\ Finish(f)
  /\ UNCHANGED <<account, expired, known>>

\* updateAdminEmployeeStatus, updateAdminAccountStatus, updateGlobalAdminAccountStatus.
Deactivate(f) ==
  /\ Deliver(f)
  /\ access' = FALSE
  /\ sessions' = Revoke(Session)
  /\ UNCHANGED <<version, resets, expired, known, flight>>

Activate(f) ==
  /\ Deliver(f)
  /\ access' = TRUE
  /\ UNCHANGED <<version, resets, sessions, expired, known, flight>>

-----------------------------------------------------------------------------

Expire(s) ==
  /\ sessions[s] # NoRow
  /\ expired' = expired \cup {s}
  /\ UNCHANGED <<account, sessions, known, flight>>

\* The request fails, is refused after all, or stops; its answer, if any, is lost.
Stop(f) ==
  /\ MayStop
  /\ flight[f] # Idle
  /\ Finish(f)
  /\ UNCHANGED <<account, sessions, expired, known>>

Handle(f) ==
  \/ Login(f) \/ Respond(f)
  \/ EndFamily(f) \/ Undo(f)
  \/ Change(f) \/ AdminReset(f)
  \/ ResetPassword(f) \/ UseToken(f) \/ UseOtherTokens(f) \/ EndSessions(f)
  \/ Deactivate(f) \/ Activate(f)
  \/ \E s \in Session : \/ createAuthSession(f, s) \/ End(f, s)
                        \/ Refresh(f, s) \/ Rotate(f, s) \/ ChangePassword(f, s)
  \/ \E t \in ResetToken : RequestReset(f, t) \/ Reset(f, t)

Next ==
  \/ \E f \in Flight : Handle(f) \/ Stop(f)
  \/ \E s \in Session : Expire(s)

Spec == Init /\ [][Next]_vars

-----------------------------------------------------------------------------
(* Properties.                                                             *)

\* The sessions whose token the client has or is about to get.
Usable(s) == Live(s) /\ (s \in known \/ \E f \in Flight : flight[f] = [pc |-> "respond", session |-> s])

\* A token is exchanged once: however many refreshes of it race, are repeated or stop
\* half-way, the client is answered at most one successor.
ExchangedOnce ==
  \A m, n \in known : m # n /\ sessions[m].from = sessions[n].from => sessions[m].from = NoSession

\* A family has one usable session at a time.
OneUsablePerFamily ==
  \A m, n \in Session : Usable(m) /\ Usable(n) /\ sessions[m].family = sessions[n].family => m = n

\* Once no session of a family can be used (signed out, or ended because an old token came
\* back), none ever can again: a refresh that was under way does not bring it back.
FamilyEndsForGood ==
  [][\A s \in Session :
       sessions[s] # NoRow /\ (\A m \in Family(s) : ~Usable(m)) => \A m \in Family(s)' : ~Usable(m)']_vars

\* A refresh leaves one live row in a family: the comment in rotateAuthSession, "the row
\* cannot be claimed by another refresh request between the read and this batch".
ClaimedByOneRefresh ==
  \A m, n \in Session : m # n /\ sessions[m].from = sessions[n].from => sessions[m].from = NoSession

\* Every session that is still usable belongs to someone who knew the current password.
PasswordEndsSessions ==
  (\A f \in Flight : flight[f] = Idle) =>
    \A s \in Session : Usable(s) => sessions[s].proven = version
=============================================================================
