--------------------------- MODULE AccountSecurity ---------------------------
(***************************************************************************)
(* What comes before a session of one account (AuthSessions): the lockout  *)
(* after wrong passwords, the second factor with its recovery codes, and   *)
(* its set-up (auth-v2.controller.ts on D1).                               *)
(*                                                                         *)
(* The requests are those of AuthSessions, up to createAuthSession: all in *)
(* the coordinator "global", and each may fail or stop after any statement *)
(* that has committed.                                                     *)
(***************************************************************************)
EXTENDS AuthSessions

CONSTANTS
  LockoutAttempts,  \* lockoutAttempts
  MaxFailed,        \* bound: User.failedLoginAttempts
  Secret,           \* bound: the secrets ever generated
  Code,             \* bound: the recovery codes ever generated
  NoSecret

ASSUME AccountSecurityAssumption ==
  /\ LockoutAttempts \in Nat \ {0} /\ MaxFailed \in Nat /\ NoSecret \notin Secret
  /\ IsFiniteSet(Flight)

VARIABLES
  failed,    \* User.failedLoginAttempts
  locked,    \* User.lockedUntil is in the future
  tries,     \* wrong passwords counted since a right one, or since the last lock ran out
  enabled,   \* MfaCredential.enabled
  secret,    \* MfaCredential.encryptedSecret
  codes,     \* the MfaRecoveryCode rows that are unused
  shown,     \* the secrets and codes ever generated
  proved,    \* the secrets the user has proved to hold
  uses,      \* per code, how many sign-ins it completed
  challenge, \* a challenge token has been answered
  signIns    \* the requests in flight, up to the session

securityVars == <<failed, locked, tries, enabled, secret, codes, shown, proved, uses, challenge, signIns>>
lockout == <<failed, locked, tries>>
credential == <<enabled, secret, codes, shown, proved>>

SignInFlights ==
  [pc : {"count", "lock", "complete"}]
    \cup [pc : {"clear"}, mfa : BOOLEAN]
    \cup [pc : {"use"}, code : Code]
    \cup [pc : {"setup", "enable"}]

\* Every variable has its type.
SecurityTypeOK ==
  /\ failed \in 0..MaxFailed /\ locked \in BOOLEAN /\ tries \in 0..MaxFailed
  /\ enabled \in BOOLEAN /\ secret \in Secret \cup {NoSecret}
  /\ codes \subseteq Code /\ shown \subseteq Secret \cup Code /\ proved \subseteq Secret
  /\ uses \in [Code -> 0..Cardinality(Flight)] /\ challenge \in BOOLEAN
  /\ signIns \in [Flight -> {Idle} \cup SignInFlights]

SecurityInit ==
  /\ failed = 0 /\ locked = FALSE /\ tries = 0
  /\ enabled = FALSE /\ secret = NoSecret /\ codes = {} /\ shown = {} /\ proved = {}
  /\ uses = [c \in Code |-> 0] /\ challenge = FALSE
  /\ signIns = [f \in Flight |-> Idle]

-----------------------------------------------------------------------------

Admit(f) ==
  /\ signIns[f] = Idle
  /\ CoordinatorSerializes => \A g \in Flight : signIns[g] = Idle

GoOn(f, step) == signIns' = [signIns EXCEPT ![f] = step]

Done(f) == GoOn(f, Idle)

-----------------------------------------------------------------------------
(* login.                                                                  *)

\* ACCOUNT_LOCKED otherwise.
Read(f) ==
  /\ Admit(f)
  /\ ~locked
  /\ GoOn(f, [pc |-> "count"]) \/ GoOn(f, [pc |-> "clear", mfa |-> enabled])
  /\ UNCHANGED <<lockout, credential, uses, challenge>>

\* Mutant: off by one.
AtLimit_MutantOneMore(count) == count > LockoutAttempts

AtLimit(count) == count >= LockoutAttempts

\* A wrong password; the update returns the new count.
Count(f) ==
  /\ signIns[f].pc = "count"
  /\ failed < MaxFailed
  /\ failed' = failed + 1 /\ tries' = tries + 1
  /\ GoOn(f, IF AtLimit(failed + 1) THEN [pc |-> "lock"] ELSE Idle)
  /\ UNCHANGED <<locked, credential, uses, challenge>>

Lock(f) ==
  /\ signIns[f].pc = "lock"
  /\ locked' = TRUE
  /\ Done(f)
  /\ UNCHANGED <<failed, tries, credential, uses, challenge>>

\* 15 minutes pass; the count stays.
LockRunsOut ==
  /\ locked
  /\ locked' = FALSE /\ tries' = 0
  /\ UNCHANGED <<failed, credential, uses, challenge, signIns>>

\* The right password: the count is cleared, and the second factor asked for if there was
\* one when the account was read.
Clear(f) ==
  /\ signIns[f].pc = "clear"
  /\ failed' = 0 /\ locked' = FALSE /\ tries' = 0
  /\ IF signIns[f].mfa THEN challenge' = TRUE /\ Done(f)
     ELSE UNCHANGED challenge /\ GoOn(f, [pc |-> "complete"])
  /\ UNCHANGED <<credential, uses>>

\* completeLogin; createAuthSession of AuthSessions follows.
Complete(f) ==
  /\ signIns[f].pc = "complete"
  /\ failed' = 0 /\ locked' = FALSE /\ tries' = 0
  /\ Done(f)
  /\ UNCHANGED <<credential, uses, challenge>>

-----------------------------------------------------------------------------
(* verifyMfaLoginV2.                                                       *)

\* The code of the authenticator.
VerifyTotp(f) ==
  /\ Admit(f)
  /\ challenge /\ enabled
  /\ GoOn(f, [pc |-> "complete"])
  /\ UNCHANGED <<lockout, credential, uses, challenge>>

VerifyRecoveryCode(f, c) ==
  /\ Admit(f)
  /\ challenge /\ enabled /\ c \in codes
  /\ GoOn(f, [pc |-> "use", code |-> c])
  /\ UNCHANGED <<lockout, credential, uses, challenge>>

CodesAfterUse(c) == codes \ {c}

\* The update sets usedAt whether it is set or not.
UseCode(f) ==
  /\ signIns[f].pc = "use"
  /\ LET c == signIns[f].code
     IN codes' = CodesAfterUse(c) /\ uses' = [uses EXCEPT ![c] = @ + 1]
  /\ GoOn(f, [pc |-> "complete"])
  /\ UNCHANGED <<lockout, enabled, secret, shown, proved, challenge>>

-----------------------------------------------------------------------------
(* setupMfaV2, enableMfaV2.                                                *)

\* MFA_ALREADY_ENABLED otherwise.
MaySetUp == ~enabled

Setup(f) ==
  /\ Admit(f)
  /\ MaySetUp
  /\ GoOn(f, [pc |-> "setup"])
  /\ UNCHANGED <<lockout, credential, uses, challenge>>

\* The upsert, with its nested delete.
Upsert(f, s) ==
  /\ signIns[f].pc = "setup"
  /\ s \notin shown
  /\ secret' = s /\ enabled' = FALSE /\ codes' = {}
  /\ shown' = shown \cup {s}
  /\ Done(f)
  /\ UNCHANGED <<lockout, proved, uses, challenge>>

\* verifyTotp with the secret that was read.
ProvedByEnabling == {secret}

\* Enabling again replaces the recovery codes.
Enable(f) ==
  /\ Admit(f)
  /\ secret # NoSecret
  /\ proved' = proved \cup ProvedByEnabling
  /\ GoOn(f, [pc |-> "enable"])
  /\ UNCHANGED <<lockout, enabled, secret, codes, shown, uses, challenge>>

\* The first statement of the transaction, with its nested delete and create; the audit row
\* is the second.
EnableUpdate(f, new) ==
  /\ signIns[f].pc = "enable"
  /\ new \cap shown = {}
  /\ enabled' = TRUE /\ codes' = new
  /\ shown' = shown \cup new
  /\ Done(f)
  /\ UNCHANGED <<lockout, secret, proved, uses, challenge>>

-----------------------------------------------------------------------------

\* The request fails or stops.
GiveUp(f) ==
  /\ MayStop
  /\ signIns[f] # Idle
  /\ Done(f)
  /\ UNCHANGED <<lockout, credential, uses, challenge>>

CheckPassword(f) == Read(f) \/ Count(f) \/ Lock(f) \/ Clear(f) \/ Complete(f)

SecondFactor(f) ==
  \/ VerifyTotp(f) \/ UseCode(f) \/ \E c \in Code : VerifyRecoveryCode(f, c)
  \/ Setup(f) \/ Enable(f)
  \/ \E s \in Secret : Upsert(f, s)
  \/ \E new \in SUBSET Code \ {{}} : EnableUpdate(f, new)

SecurityNext ==
  LockRunsOut \/ \E f \in Flight : CheckPassword(f) \/ SecondFactor(f) \/ GiveUp(f)

SecuritySpec == SecurityInit /\ [][SecurityNext]_securityVars

-----------------------------------------------------------------------------
(* Properties.                                                             *)

\* Requests that interleave buy one more wrong password each at most: whoever counts to
\* the limit locks the account before it can try again, and no success of another request
\* in between is missed.
TriesAreBounded == tries < LockoutAttempts + Cardinality(Flight)

\* A recovery code completes one sign-in.
CodesAreOneTime == \A c \in Code : uses[c] <= 1

\* Sign-ins never ask for the code of a secret that the user has not shown to have.
EnabledIsProved == enabled => secret \in proved

\* What guards a sign-in: a lockout that requests which interleave put off by one wrong
\* password each at most, recovery codes that complete one sign-in, and no sign-in that asks
\* for the code of a secret the user has not shown to have.
SignInsAreGuarded == SecurityTypeOK /\ TriesAreBounded /\ CodesAreOneTime /\ EnabledIsProved

\* Nothing turns the second factor off again.
EnabledStays == [][enabled => enabled']_securityVars
=============================================================================
