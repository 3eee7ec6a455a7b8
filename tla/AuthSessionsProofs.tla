------------------------- MODULE AuthSessionsProofs -------------------------
(***************************************************************************)
(* Proofs about AuthSessions, for every set of sessions, reset tokens and  *)
(* requests, with or without a coordinator that serializes, and whether or *)
(* not requests stop half-way: a refresh token is exchanged once, a family *)
(* has one usable session, and a family that has ended never comes back.   *)
(* With one request at a time, and none that stops, a new password ends    *)
(* the sessions of the old one.  About AccountSecurity: the lockout, the   *)
(* recovery codes and the second factor guard a sign-in.  About            *)
(* SessionClient: a browser with one tab and no lost answer stays signed   *)
(* in with a refresh token that works.                                     *)
(***************************************************************************)
EXTENDS MCSessions, FiniteSetTheorems, TLAPS

\* The row of s has been created.
Exists(s) == sessions[s] \in Row

\* The client has the token of s, or an answer that carries it is on its way.
Told(s) == s \in known \/ \E f \in Flight : flight[f] = [pc |-> "respond", session |-> s]

-----------------------------------------------------------------------------
(* The inductive invariant.                                                *)

\* A row belongs to the family of a row, and the session it succeeds was told and is revoked.
Chained ==
  \A m \in Session : Exists(m) =>
    /\ Exists(sessions[m].family)
    /\ sessions[m].from # NoSession => sessions[m].from \in known /\ ~Live(sessions[m].from)

\* The client knows only rows; a request works on a session the client knows, and answers,
\* or takes back, a row.
Held ==
  /\ \A s \in known : Exists(s)
  /\ \A f \in Flight :
       /\ flight[f].pc \in {"rotate", "change", "end family"} => flight[f].session \in known
       /\ flight[f].pc = "undo" => Exists(flight[f].session)
       /\ flight[f].pc = "respond" => flight[f].session = NoSession \/ Exists(flight[f].session)

\* At most one successor of a session is told, or will be.
ToldOnce ==
  \A m, n \in Session :
    Told(m) /\ Told(n) /\ sessions[m].from = sessions[n].from /\ sessions[m].from # NoSession => m = n

Inv == TypeOK /\ Chained /\ Held /\ ToldOnce /\ OneUsablePerFamily

-----------------------------------------------------------------------------
(* Requests and rows.                                                      *)

\* The kind of a request tells its fields.
LEMMA Kinds ==
  ASSUME TypeOK, NEW f \in Flight
  PROVE  /\ flight[f].pc = "login" => flight[f].version \in 0..MaxVersion
         /\ flight[f].pc \in {"rotate", "undo", "change", "end family"} => flight[f].session \in Session
         /\ flight[f].pc = "respond" => flight[f] \in [pc : {"respond"}, session : Session \cup {NoSession}]
         /\ flight[f].pc \in {"password", "use", "use others", "end sessions"} =>
              flight[f] \in [pc : {"password", "use", "use others", "end sessions"}, token : ResetToken]
<1>1. flight[f] \in {Idle} \cup Flights
  BY DEF TypeOK
<1>2. CASE flight[f] = Idle
  BY <1>2 DEF Idle
<1>3. CASE flight[f] \in [pc : {"login"}, version : 0..MaxVersion]
  BY <1>3
<1>4. CASE flight[f] \in [pc : {"rotate", "undo", "change", "end family"}, session : Session]
  BY <1>4
<1>5. CASE flight[f] \in [pc : {"respond"}, session : Session \cup {NoSession}]
  BY <1>5
<1>6. CASE flight[f] \in [pc : {"password", "use", "use others", "end sessions"}, token : ResetToken]
  BY <1>6
<1>7. QED
  BY <1>1, <1>2, <1>3, <1>4, <1>5, <1>6 DEF Flights

\* A row that was not created is not one.
LEMMA NoRowIsNone == NoRow \notin Row
BY AuthSessionsAssumption DEF NoRow, Row

\* Revoking rows keeps their families and predecessors, and never makes a row live.
LEMMA Revoking ==
  ASSUME TypeOK, NEW S \in SUBSET Session
  PROVE  /\ Revoke(S) \in [Session -> Row \cup {NoRow}]
         /\ \A m \in Session :
              /\ Revoke(S)[m] \in Row <=> sessions[m] \in Row
              /\ Revoke(S)[m].family = sessions[m].family
              /\ Revoke(S)[m].from = sessions[m].from
              /\ Revoke(S)[m].revoked <=> (sessions[m].revoked \/ m \in S)
<1>1. ASSUME NEW m \in Session
      PROVE  /\ Revoke(S)[m] \in Row \cup {NoRow}
             /\ Revoke(S)[m] \in Row <=> sessions[m] \in Row
             /\ Revoke(S)[m].family = sessions[m].family
             /\ Revoke(S)[m].from = sessions[m].from
             /\ Revoke(S)[m].revoked <=> (sessions[m].revoked \/ m \in S)
  <2>1. CASE sessions[m] \in Row
    <3>1. CASE m \in S
      <4>1. Revoke(S)[m] = [sessions[m] EXCEPT !.revoked = TRUE]
        BY <3>1 DEF Revoke
      <4>2. QED
        BY <2>1, <3>1, <4>1 DEF Row
    <3>2. CASE m \notin S
      <4>1. Revoke(S)[m] = sessions[m]
        BY <3>2 DEF Revoke
      <4>2. QED
        BY <2>1, <3>2, <4>1
    <3>3. QED
      BY <3>1, <3>2
  <2>2. CASE sessions[m] = NoRow
    <3>1. NoRow \in [family : {NoSession}, from : {NoSession}, proven : {0}, revoked : {TRUE}]
      BY DEF NoRow
    <3>2. [NoRow EXCEPT !.revoked = TRUE] = NoRow
      BY <3>1
    <3>3. Revoke(S)[m] = NoRow
      BY <2>2, <3>2 DEF Revoke
    <3>4. NoRow.revoked
      BY DEF NoRow
    <3>5. QED
      BY <2>2, <3>3, <3>4, NoRowIsNone
  <2>3. QED
    BY <2>1, <2>2 DEF TypeOK
<1>2. QED
  BY <1>1 DEF Revoke

-----------------------------------------------------------------------------
(* What a step does to the sessions.                                       *)

\* s stays the row it was, or becomes revoked.
Keeps(s) ==
  /\ Exists(s)' <=> Exists(s)
  /\ sessions'[s].family = sessions[s].family
  /\ sessions'[s].from = sessions[s].from
  /\ sessions[s].revoked => sessions'[s].revoked
  /\ Told(s)' => Told(s)

\* n is created as the first session of a family.
Opens(n) ==
  /\ sessions[n] = NoRow /\ Exists(n)'
  /\ sessions'[n].family = n /\ sessions'[n].from = NoSession

\* n is created as a successor of s, and told only if s was live.
Succeeds(n, s) ==
  /\ sessions[n] = NoRow /\ Exists(n)'
  /\ s \in known /\ sessions'[s].revoked
  /\ sessions'[n].family = sessions[s].family /\ sessions'[n].from = s
  /\ Told(n)' => Live(s)

Shape ==
  \/ \A m \in Session : Keeps(m)
  \/ \E n \in Session : Opens(n) /\ \A m \in Session \ {n} : Keeps(m)
  \/ \E n \in Session, s \in Session : Succeeds(n, s) /\ \A m \in Session \ {n} : Keeps(m)

\* Nobody was told of a row that does not exist.
LEMMA ToldExists ==
  ASSUME TypeOK, Held, NEW s \in Session, Told(s)
  PROVE  Exists(s)
<1>1. CASE s \in known
  BY <1>1 DEF Held
<1>2. ASSUME NEW f \in Flight, flight[f] = [pc |-> "respond", session |-> s]
      PROVE  Exists(s)
  <2>1. flight[f].pc = "respond" /\ flight[f].session = s
    BY <1>2
  <2>2. s # NoSession
    BY AuthSessionsAssumption
  <2>3. QED
    BY <2>1, <2>2 DEF Held
<1>3. QED
  BY <1>1, <1>2 DEF Told

\* A request that takes a step without an answer tells nothing.
LEMMA NothingTold ==
  ASSUME TypeOK, NEW f \in Flight, NEW step, UNCHANGED known,
         flight' = [flight EXCEPT ![f] = step],
         step.pc # "respond" \/ step = [pc |-> "respond", session |-> NoSession]
  PROVE  \A m \in Session : Told(m)' => Told(m)
BY AuthSessionsAssumption DEF Told, TypeOK

\* Rows only revoked, and nothing told: every session is kept.
LEMMA OnlyRevoked ==
  ASSUME TypeOK, NEW S \in SUBSET Session, sessions' = Revoke(S),
         \A m \in Session : Told(m)' => Told(m)
  PROVE  \A m \in Session : Keeps(m)
BY Revoking DEF Keeps, Exists

\* A step that leaves the sessions, and tells nothing, keeps every session.
LEMMA Unchanged ==
  ASSUME UNCHANGED sessions, \A m \in Session : Told(m)' => Told(m)
  PROVE  \A m \in Session : Keeps(m)
BY DEF Keeps, Exists

\* A request that fails, or stops, tells nothing.
LEMMA IdleTellsNothing ==
  ASSUME TypeOK, NEW f \in Flight, UNCHANGED known, Finish(f)
  PROVE  \A m \in Session : Told(m)' => Told(m)
<1>1. Idle.pc # "respond"
  BY DEF Idle
<1>2. QED
  BY <1>1, NothingTold DEF Finish, Continue

\* The steps of a request that neither create a row nor answer one.
LEMMA ShapeQuiet ==
  ASSUME TypeOK, NEW f \in Flight,
         \/ Login(f) \/ EndFamily(f) \/ Undo(f) \/ AdminReset(f) \/ ResetPassword(f) \/ UseToken(f)
         \/ UseOtherTokens(f) \/ EndSessions(f) \/ Deactivate(f) \/ Activate(f) \/ Stop(f)
         \/ \E s \in Session : End(f, s) \/ Refresh(f, s) \/ ChangePassword(f, s)
         \/ \E t \in ResetToken : RequestReset(f, t) \/ Reset(f, t)
  PROVE  \A m \in Session : Keeps(m)
<1>1. CASE Login(f)
  <2> DEFINE step == [pc |-> "login", version |-> version]
  <2>1. step.pc # "respond"
    OBVIOUS
  <2> HIDE DEF step
  <2>2. flight' = [flight EXCEPT ![f] = step] /\ UNCHANGED <<known, sessions>>
    BY <1>1 DEF Login, Continue, step
  <2>3. QED
    BY <2>1, <2>2, NothingTold, Unchanged
<1>2. CASE EndFamily(f) \/ Undo(f)
  <2>1. PICK S \in SUBSET Session : sessions' = Revoke(S)
    <3>1. CASE EndFamily(f)
      BY <3>1 DEF EndFamily, Family
    <3>2. CASE Undo(f)
      BY <3>2, Kinds DEF Undo
    <3>3. QED
      BY <1>2, <3>1, <3>2
  <2>2. flight' = [flight EXCEPT ![f] = [pc |-> "respond", session |-> NoSession]] /\ UNCHANGED known
    BY <1>2 DEF EndFamily, Undo, Continue
  <2>3. \A m \in Session : Told(m)' => Told(m)
    BY <2>2, NothingTold
  <2>4. QED
    BY <2>1, <2>3, OnlyRevoked
<1>3. CASE AdminReset(f) \/ Deactivate(f)
  <2>1. sessions' = Revoke(Session) /\ UNCHANGED <<known, flight>>
    BY <1>3 DEF AdminReset, Deactivate
  <2>2. \A m \in Session : Told(m)' => Told(m)
    BY <2>1 DEF Told
  <2>3. QED
    BY <2>1, <2>2, OnlyRevoked
<1>4. CASE ResetPassword(f) \/ UseToken(f) \/ UseOtherTokens(f)
  <2>1. PICK pc \in {"use", "use others", "end sessions"} : flight' = [flight EXCEPT ![f].pc = pc]
    BY <1>4 DEF ResetPassword, UseToken, UseOtherTokens, Continue
  <2>2. flight[f] \in [pc : {"password", "use", "use others", "end sessions"}, token : ResetToken]
    BY <1>4, Kinds DEF ResetPassword, UseToken, UseOtherTokens
  <2> DEFINE step == [flight[f] EXCEPT !.pc = pc]
  <2>3. step.pc # "respond"
    BY <2>2
  <2>4. flight' = [flight EXCEPT ![f] = step]
    BY <2>1
  <2>5. UNCHANGED <<known, sessions>>
    BY <1>4 DEF ResetPassword, UseToken, UseOtherTokens
  <2> HIDE DEF step
  <2>6. QED
    BY <2>3, <2>4, <2>5, NothingTold, Unchanged
<1>5. CASE EndSessions(f)
  <2>1. \A m \in Session : Told(m)' => Told(m)
    BY <1>5, IdleTellsNothing DEF EndSessions
  <2>2. QED
    BY <1>5, <2>1, OnlyRevoked DEF EndSessions
<1>6. CASE Activate(f) \/ \E t \in ResetToken : RequestReset(f, t)
  <2>1. UNCHANGED <<known, flight, sessions>>
    BY <1>6 DEF Activate, RequestReset
  <2>2. QED
    BY <2>1, Unchanged DEF Told
<1>7. CASE Stop(f)
  BY <1>7, IdleTellsNothing, Unchanged DEF Stop
<1>8. ASSUME NEW s \in Session, End(f, s)
      PROVE  \A m \in Session : Keeps(m)
  <2>1. sessions' = Revoke({s}) /\ UNCHANGED <<known, flight>>
    BY <1>8 DEF End
  <2>2. \A m \in Session : Told(m)' => Told(m)
    BY <2>1 DEF Told
  <2>3. QED
    BY <2>1, <2>2, OnlyRevoked
<1>9. ASSUME NEW s \in Session, Refresh(f, s) \/ ChangePassword(f, s)
      PROVE  \A m \in Session : Keeps(m)
  <2>1. PICK pc \in {"end family", "rotate", "change"} :
          flight' = [flight EXCEPT ![f] = [pc |-> pc, session |-> s]]
    BY <1>9 DEF Refresh, ChangePassword, Continue, AfterRead
  <2>2. UNCHANGED <<known, sessions>>
    BY <1>9 DEF Refresh, ChangePassword
  <2>3. QED
    BY <2>1, <2>2, NothingTold, Unchanged
<1>10. ASSUME NEW t \in ResetToken, Reset(f, t)
       PROVE  \A m \in Session : Keeps(m)
  <2>1. flight' = [flight EXCEPT ![f] = [pc |-> "password", token |-> t]] /\ UNCHANGED <<known, sessions>>
    BY <1>10 DEF Reset, Continue
  <2>2. QED
    BY <2>1, NothingTold, Unchanged
<1>11. QED
  BY <1>1, <1>2, <1>3, <1>4, <1>5, <1>6, <1>7, <1>8, <1>9, <1>10

\* An answer discloses the token it carried, which was told already.
LEMMA ShapeRespond ==
  ASSUME TypeOK, NEW f \in Flight, Respond(f)
  PROVE  \A m \in Session : Keeps(m)
<1>1. ASSUME NEW m \in Session, Told(m)'
      PROVE  Told(m)
  <2>1. CASE m \in known \/ m # flight[f].session
    <3>1. m \in known \/ m \notin known'
      BY <2>1 DEF Respond
    <3>2. CASE m \notin known'
      <4>1. PICK g \in Flight : flight'[g] = [pc |-> "respond", session |-> m]
        BY <1>1, <3>2 DEF Told
      <4>2. Idle # [pc |-> "respond", session |-> m]
        BY DEF Idle
      <4>3. flight[g] = [pc |-> "respond", session |-> m]
        BY <4>1, <4>2 DEF Respond, Finish, Continue, TypeOK
      <4>4. QED
        BY <4>3 DEF Told
    <3>3. QED
      BY <3>1, <3>2 DEF Told
  <2>2. CASE m = flight[f].session
    <3>1. flight[f] \in [pc : {"respond"}, session : Session \cup {NoSession}]
      BY Kinds DEF Respond
    <3>2. flight[f] = [pc |-> "respond", session |-> m]
      BY <2>2, <3>1
    <3>3. QED
      BY <3>2 DEF Told
  <2>3. QED
    BY <2>1, <2>2
<1>2. QED
  BY <1>1, Unchanged DEF Respond

\* A change of the password gives its own session a new proof and revokes the others.
LEMMA ShapeChange ==
  ASSUME TypeOK, Held, NEW f \in Flight, Change(f)
  PROVE  /\ \A m \in Session : Keeps(m)
         /\ sessions' \in [Session -> Row \cup {NoRow}]
<1> DEFINE own == flight[f].session
           others == Revoke(Session \ {own})
<1>1. own \in Session /\ own \in known /\ sessions[own] \in Row
  BY Kinds DEF Change, Held, Exists, TypeOK
<1>2. others[own] \in Row /\ others \in [Session -> Row \cup {NoRow}]
  BY <1>1, Revoking
<1>3. \A m \in Session : Told(m)' => Told(m)
  BY IdleTellsNothing DEF Change
<1>4. sessions' = [others EXCEPT ![own] = [others[own] EXCEPT !.proven = version + 1]]
  BY DEF Change
<1>5. version + 1 \in 0..MaxVersion
  BY AuthSessionsAssumption DEF Change, TypeOK
<1> DEFINE row == [others[own] EXCEPT !.proven = version + 1]
<1>6. /\ row \in Row
      /\ row.family = others[own].family /\ row.from = others[own].from /\ row.revoked = others[own].revoked
  BY <1>2, <1>5 DEF Row
<1>7. sessions' = [others EXCEPT ![own] = row]
  BY <1>4
<1> HIDE DEF row
<1>8. ASSUME NEW m \in Session
      PROVE  Keeps(m)
  <2>1. /\ others[m] \in Row <=> sessions[m] \in Row
        /\ others[m].family = sessions[m].family
        /\ others[m].from = sessions[m].from
        /\ sessions[m].revoked => others[m].revoked
    BY Revoking
  <2>2. CASE m = own
    <3>1. sessions'[m] = row
      BY <1>1, <1>2, <1>7, <2>2
    <3>2. QED
      BY <1>1, <1>3, <1>6, <2>1, <2>2, <3>1 DEF Keeps, Exists
  <2>3. CASE m # own
    <3>1. sessions'[m] = others[m]
      BY <1>2, <1>7, <2>3
    <3>2. QED
      BY <1>3, <2>1, <3>1 DEF Keeps, Exists
  <2>4. QED
    BY <2>2, <2>3
<1>9. QED
  BY <1>2, <1>6, <1>7, <1>8

\* A sign-in opens a family.
LEMMA ShapeCreate ==
  ASSUME TypeOK, Held, NEW f \in Flight, NEW n \in Session, createAuthSession(f, n)
  PROVE  /\ Opens(n)
         /\ \A m \in Session \ {n} : Keeps(m)
         /\ sessions' \in [Session -> Row \cup {NoRow}]
<1> DEFINE row == [family |-> n, from |-> NoSession, proven |-> flight[f].version, revoked |-> FALSE]
<1>1. row \in Row
  BY Kinds DEF createAuthSession, Row
<1>2. sessions' = [sessions EXCEPT ![n] = row] /\ sessions[n] = NoRow /\ UNCHANGED known
  BY DEF createAuthSession
<1>3. flight' = [flight EXCEPT ![f] = [pc |-> "respond", session |-> n]]
  BY DEF createAuthSession, Continue
<1>4. ASSUME NEW m \in Session \ {n}
      PROVE  Keeps(m)
  <2>1. sessions'[m] = sessions[m]
    BY <1>2 DEF TypeOK
  <2>2. [pc |-> "respond", session |-> n] # [pc |-> "respond", session |-> m]
    <3>1. [pc |-> "respond", session |-> n].session # [pc |-> "respond", session |-> m].session
      BY <1>4
    <3>2. QED
      BY <3>1
  <2>3. ASSUME NEW g \in Flight, flight'[g] = [pc |-> "respond", session |-> m]
        PROVE  flight[g] = [pc |-> "respond", session |-> m]
    BY <1>3, <2>2, <2>3 DEF TypeOK
  <2>4. Told(m)' => Told(m)
    BY <1>2, <2>3 DEF Told
  <2>5. QED
    BY <2>1, <2>4 DEF Keeps, Exists
<1>5. sessions'[n] = row
  BY <1>2 DEF TypeOK
<1>6. Opens(n)
  BY <1>1, <1>2, <1>5 DEF Opens, Exists
<1>7. QED
  BY <1>1, <1>2, <1>4, <1>6 DEF TypeOK

\* A refresh creates a successor, told only if the batch revoked the current session.
LEMMA ShapeRotate ==
  ASSUME TypeOK, Held, NEW f \in Flight, NEW n \in Session, Rotate(f, n)
  PROVE  /\ Succeeds(n, flight[f].session)
         /\ \A m \in Session \ {n} : Keeps(m)
         /\ sessions' \in [Session -> Row \cup {NoRow}]
<1> DEFINE s == flight[f].session
           row == [sessions[s] EXCEPT !.from = s, !.revoked = FALSE]
           pc == IF Live(s) THEN "respond" ELSE "undo"
           step == [pc |-> pc, session |-> n]
<1>1. s \in Session /\ s \in known /\ sessions[s] \in Row
  BY Kinds DEF Rotate, Held, Exists, TypeOK
<1>2. row \in Row /\ row.family = sessions[s].family /\ row.from = s
  BY <1>1 DEF Row
<1>3. /\ sessions' = [Revoke({s}) EXCEPT ![n] = row]
      /\ sessions[n] = NoRow /\ UNCHANGED known
      /\ flight' = [flight EXCEPT ![f] = step]
  BY DEF Rotate, Continue
<1>4. Revoke({s}) \in [Session -> Row \cup {NoRow}]
  BY <1>1, Revoking
<1>5. step.session = n /\ step.pc = pc
  OBVIOUS
<1> HIDE DEF row, step
<1>6. n # s
  BY <1>1, <1>3, NoRowIsNone
<1>7. ASSUME NEW m \in Session \ {n}
      PROVE  Keeps(m)
  <2>1. sessions'[m] = Revoke({s})[m]
    BY <1>3, <1>4
  <2>2. step # [pc |-> "respond", session |-> m]
    BY <1>5
  <2>3. ASSUME NEW g \in Flight, flight'[g] = [pc |-> "respond", session |-> m]
        PROVE  flight[g] = [pc |-> "respond", session |-> m]
    BY <1>3, <2>2, <2>3 DEF TypeOK
  <2>4. Told(m)' => Told(m)
    BY <1>3, <2>3 DEF Told
  <2>5. QED
    BY <1>1, <2>1, <2>4, Revoking DEF Keeps, Exists
<1>8. sessions'[n] = row
  BY <1>3, <1>4
<1>9. Told(n)' => Live(s)
  <2>1. SUFFICES ASSUME ~Live(s), Told(n)' PROVE FALSE
    OBVIOUS
  <2>2. n \notin known'
    BY <1>3, NoRowIsNone DEF Held, Exists
  <2>3. PICK g \in Flight : flight'[g] = [pc |-> "respond", session |-> n]
    BY <2>1, <2>2 DEF Told
  <2>4. step.pc = "undo"
    BY <1>5, <2>1
  <2>5. step # [pc |-> "respond", session |-> n]
    BY <2>4
  <2>6. flight[g] = [pc |-> "respond", session |-> n]
    BY <1>3, <2>3, <2>5 DEF TypeOK
  <2>7. Told(n)
    BY <2>6 DEF Told
  <2>8. QED
    BY <1>3, <2>7, ToldExists, NoRowIsNone DEF Exists
<1>10. sessions'[s].revoked
  <2>1. sessions'[s] = Revoke({s})[s]
    BY <1>1, <1>3, <1>4, <1>6
  <2>2. QED
    BY <1>1, <2>1, Revoking
<1>11. Succeeds(n, s)
  BY <1>1, <1>2, <1>3, <1>8, <1>9, <1>10 DEF Succeeds, Exists
<1>12. QED
  BY <1>2, <1>3, <1>4, <1>7, <1>11

\* Every step keeps the sessions, but for one it may create.
LEMMA ShapeNext ==
  ASSUME TypeOK, Held, [Next]_vars
  PROVE  Shape
<1>1. CASE UNCHANGED vars
  BY <1>1, Unchanged DEF vars, Told, Shape
<1>2. ASSUME NEW s \in Session, Expire(s)
      PROVE  Shape
  BY <1>2, Unchanged DEF Expire, Told, Shape
<1>3. ASSUME NEW f \in Flight, Handle(f) \/ Stop(f)
      PROVE  Shape
  <2>1. ASSUME NEW n \in Session, createAuthSession(f, n)
        PROVE  Shape
    BY <2>1, ShapeCreate DEF Shape
  <2>2. ASSUME NEW n \in Session, Rotate(f, n)
        PROVE  Shape
    <3>1. flight[f].session \in Session
      BY <2>2, Kinds DEF Rotate
    <3>2. Succeeds(n, flight[f].session) /\ \A m \in Session \ {n} : Keeps(m)
      BY <2>2, ShapeRotate
    <3>3. PICK s \in Session : s = flight[f].session
      BY <3>1
    <3>4. Succeeds(n, s)
      BY <3>2, <3>3
    <3>5. QED
      BY <3>2, <3>4 DEF Shape
  <2>3. CASE Respond(f) \/ Change(f)
    BY <2>3, ShapeRespond, ShapeChange DEF Shape
  <2>4. CASE \/ Login(f) \/ EndFamily(f) \/ Undo(f) \/ AdminReset(f) \/ ResetPassword(f) \/ UseToken(f)
             \/ UseOtherTokens(f) \/ EndSessions(f) \/ Deactivate(f) \/ Activate(f) \/ Stop(f)
             \/ \E s \in Session : End(f, s) \/ Refresh(f, s) \/ ChangePassword(f, s)
             \/ \E t \in ResetToken : RequestReset(f, t) \/ Reset(f, t)
    BY <2>4, ShapeQuiet DEF Shape
  <2>5. QED
    BY <1>3, <2>1, <2>2, <2>3, <2>4 DEF Handle
<1>4. QED
  BY <1>1, <1>2, <1>3 DEF Next

-----------------------------------------------------------------------------
(* The invariant is inductive.                                             *)

\* A request that takes a well-typed step leaves the requests well typed.
LEMMA TypeStep ==
  ASSUME TypeOK, NEW f \in Flight, NEW step \in {Idle} \cup Flights,
         flight' = [flight EXCEPT ![f] = step]
  PROVE  flight' \in [Flight -> {Idle} \cup Flights]
BY DEF TypeOK

\* The steps of a request keep the types.
LEMMA TypeNext ==
  ASSUME TypeOK, Held, [Next]_vars
  PROVE  TypeOK'
<1>1. CASE UNCHANGED vars
  BY <1>1 DEF vars, TypeOK
<1>2. ASSUME NEW s \in Session, Expire(s)
      PROVE  TypeOK'
  BY <1>2 DEF Expire, account, TypeOK
<1>3. ASSUME NEW f \in Flight, Handle(f) \/ Stop(f)
      PROVE  TypeOK'
  <2>1. /\ version' \in 0..MaxVersion /\ access' \in BOOLEAN
        /\ expired' \subseteq Session
        /\ resets' \in [ResetToken -> {"none", "sent", "used"}]
    <3>1. CASE \/ Login(f) \/ Respond(f) \/ EndFamily(f) \/ Undo(f) \/ EndSessions(f) \/ Stop(f)
               \/ \E s \in Session : \/ createAuthSession(f, s) \/ End(f, s) \/ Refresh(f, s)
                                     \/ Rotate(f, s) \/ ChangePassword(f, s)
               \/ \E t \in ResetToken : Reset(f, t)
      <4>1. UNCHANGED <<account, expired>>
        BY <3>1 DEF Login, Respond, EndFamily, Undo, EndSessions, Stop, createAuthSession, End, Refresh, Rotate,
                    ChangePassword, Reset
      <4>2. QED
        BY <4>1 DEF account, TypeOK
    <3>2. CASE Change(f) \/ AdminReset(f) \/ ResetPassword(f)
      <4>1. version < MaxVersion /\ version' = version + 1 /\ UNCHANGED <<access, resets, expired>>
        BY <3>2 DEF Change, AdminReset, ResetPassword
      <4>2. QED
        BY <4>1, AuthSessionsAssumption DEF TypeOK
    <3>3. CASE Deactivate(f) \/ Activate(f)
      <4>1. access' \in BOOLEAN /\ UNCHANGED <<version, resets, expired>>
        BY <3>3 DEF Deactivate, Activate
      <4>2. QED
        BY <4>1 DEF TypeOK
    <3>4. CASE UseToken(f) \/ UseOtherTokens(f) \/ \E t \in ResetToken : RequestReset(f, t)
      <4>1. UNCHANGED <<version, access, expired>>
        BY <3>4 DEF UseToken, UseOtherTokens, RequestReset
      <4>2. resets' \in [ResetToken -> {"none", "sent", "used"}]
        BY <3>4 DEF UseToken, UseOtherTokens, RequestReset, TypeOK
      <4>3. QED
        BY <4>1, <4>2 DEF TypeOK
    <3>5. QED
      BY <1>3, <3>1, <3>2, <3>3, <3>4 DEF Handle
  <2>2. known' \subseteq Session
    <3>1. CASE Respond(f)
      <4>1. flight[f].session \in Session \cup {NoSession}
        BY <3>1, Kinds DEF Respond
      <4>2. QED
        BY <3>1, <4>1 DEF Respond, TypeOK
    <3>2. CASE UNCHANGED known
      BY <3>2 DEF TypeOK
    <3>3. QED
      BY <1>3, <3>1, <3>2
         DEF Handle, Login, EndFamily, Undo, Change, AdminReset, ResetPassword, UseToken, UseOtherTokens,
             EndSessions, Deactivate, Activate, Stop, createAuthSession, End, Refresh, Rotate, ChangePassword,
             RequestReset, Reset
  <2>3. sessions' \in [Session -> Row \cup {NoRow}]
    <3>1. CASE \E n \in Session : createAuthSession(f, n) \/ Rotate(f, n)
      BY <3>1, ShapeCreate, ShapeRotate
    <3>2. CASE Change(f)
      BY <3>2, ShapeChange
    <3>3. CASE UNCHANGED sessions
      BY <3>3 DEF TypeOK
    <3>4. CASE Undo(f)
      <4>1. {flight[f].session} \in SUBSET Session /\ sessions' = Revoke({flight[f].session})
        BY <3>4, Kinds DEF Undo
      <4>2. QED
        BY <4>1, Revoking
    <3>5. CASE EndFamily(f)
      <4>1. Family(flight[f].session) \in SUBSET Session
        BY DEF Family
      <4>2. QED
        BY <3>5, <4>1, Revoking DEF EndFamily
    <3>6. CASE EndSessions(f) \/ AdminReset(f) \/ Deactivate(f) \/ \E s \in Session : End(f, s)
      <4>1. PICK S \in SUBSET Session : sessions' = Revoke(S)
        BY <3>6 DEF EndSessions, AdminReset, Deactivate, End
      <4>2. QED
        BY <4>1, Revoking
    <3>7. QED
      BY <1>3, <3>1, <3>2, <3>3, <3>4, <3>5, <3>6
         DEF Handle, Login, Respond, ResetPassword, UseToken, UseOtherTokens, Activate, Stop,
             Refresh, ChangePassword, RequestReset, Reset
  <2>4. flight' \in [Flight -> {Idle} \cup Flights]
    <3>1. CASE UNCHANGED flight
      BY <3>1 DEF TypeOK
    <3>2. CASE Finish(f)
      BY <3>2, TypeStep DEF Finish, Continue
    <3>3. CASE Login(f)
      <4>1. [pc |-> "login", version |-> version] \in Flights
        BY DEF Flights, TypeOK
      <4>2. QED
        BY <3>3, <4>1, TypeStep DEF Login, Continue
    <3>4. ASSUME NEW s \in Session \cup {NoSession}, flight' = [flight EXCEPT ![f] = [pc |-> "respond", session |-> s]]
          PROVE  flight' \in [Flight -> {Idle} \cup Flights]
      <4>1. [pc |-> "respond", session |-> s] \in Flights
        BY DEF Flights
      <4>2. QED
        BY <3>4, <4>1, TypeStep
    <3>5. ASSUME NEW s \in Session, NEW pc \in {"rotate", "undo", "change", "end family"},
                 flight' = [flight EXCEPT ![f] = [pc |-> pc, session |-> s]]
          PROVE  flight' \in [Flight -> {Idle} \cup Flights]
      <4>1. [pc |-> pc, session |-> s] \in Flights
        BY DEF Flights
      <4>2. QED
        BY <3>5, <4>1, TypeStep
    <3>6. CASE EndFamily(f) \/ Undo(f)
      BY <3>4, <3>6 DEF EndFamily, Undo, Continue
    <3>7. CASE \E s \in Session : createAuthSession(f, s) \/ Rotate(f, s)
      BY <3>4, <3>5, <3>7 DEF createAuthSession, Rotate, Continue
    <3>8. CASE \E s \in Session : Refresh(f, s) \/ ChangePassword(f, s)
      BY <3>5, <3>8 DEF Refresh, AfterRead, ChangePassword, Continue
    <3>9. CASE ResetPassword(f) \/ UseToken(f)
      <4>1. PICK pc \in {"use", "use others"} : flight' = [flight EXCEPT ![f].pc = pc]
        BY <3>9 DEF ResetPassword, UseToken, Continue
      <4>2. flight[f] \in [pc : {"password", "use", "use others", "end sessions"}, token : ResetToken]
        BY <3>9, Kinds DEF ResetPassword, UseToken
      <4>3. [flight[f] EXCEPT !.pc = pc] \in Flights
        BY <4>2 DEF Flights
      <4>4. QED
        BY <4>1, <4>3, TypeStep
    <3>10. CASE UseOtherTokens(f)
      <4>1. flight[f] \in [pc : {"password", "use", "use others", "end sessions"}, token : ResetToken]
        BY <3>10, Kinds DEF UseOtherTokens
      <4>2. [flight[f] EXCEPT !.pc = "end sessions"] \in Flights
        BY <4>1 DEF Flights
      <4>3. QED
        BY <3>10, <4>2, TypeStep DEF UseOtherTokens, Continue
    <3>11. ASSUME NEW t \in ResetToken, Reset(f, t)
           PROVE  flight' \in [Flight -> {Idle} \cup Flights]
      <4>1. [pc |-> "password", token |-> t] \in Flights
        BY DEF Flights
      <4>2. QED
        BY <3>11, <4>1, TypeStep DEF Reset, Continue
    <3>12. QED
      BY <1>3, <3>1, <3>2, <3>3, <3>6, <3>7, <3>8, <3>9, <3>10, <3>11
         DEF Handle, Respond, Change, AdminReset, EndSessions, Deactivate, Activate, Stop, End, RequestReset
  <2>5. QED
    BY <2>1, <2>2, <2>3, <2>4 DEF TypeOK
<1>4. QED
  BY <1>1, <1>2, <1>3 DEF Next

\* A row stays in its family, and a revoked row stays revoked.
LEMMA RowsStay ==
  ASSUME Shape, NEW m \in Session, Exists(m)
  PROVE  /\ Exists(m)'
         /\ sessions'[m].family = sessions[m].family
         /\ sessions'[m].from = sessions[m].from
         /\ sessions[m].revoked => sessions'[m].revoked
BY NoRowIsNone DEF Shape, Opens, Succeeds, Keeps, Exists

\* The client forgets no token.
LEMMA KnownGrows ==
  ASSUME [Next]_vars
  PROVE  known \subseteq known'
BY DEF Next, Handle, Login, Respond, EndFamily, Undo, Change, AdminReset, ResetPassword, UseToken, UseOtherTokens,
       EndSessions, Deactivate, Activate, Stop, createAuthSession, End, Refresh, Rotate, ChangePassword,
       RequestReset, Reset, Expire, vars

\* What a request may do next: without a session, with one the client knows, with an answer
\* that has no token, or with a row.
Fits(step) ==
  \/ step.pc \in {"idle", "login", "password", "use", "use others", "end sessions"}
  \/ step.pc \in {"rotate", "change", "end family"} /\ step.session \in known
  \/ step.pc = "respond" /\ step.session = NoSession
  \/ step.pc \in {"respond", "undo"} /\ sessions'[step.session] \in Row

\* One request takes a step that fits, and the others none.
LEMMA FitsStep ==
  ASSUME TypeOK, NEW f \in Flight, NEW step, Fits(step), flight' = [flight EXCEPT ![f] = step]
  PROVE  \A g \in Flight : flight'[g] = flight[g] \/ Fits(flight'[g])
<1>1. \A g \in Flight : flight'[g] = flight[g] \/ flight'[g] = step
  BY DEF TypeOK
<1>2. QED
  BY <1>1

\* Every step of a request fits.
LEMMA FitsNext ==
  ASSUME TypeOK, Held, NEW f \in Flight, Handle(f) \/ Stop(f)
  PROVE  \A g \in Flight : flight'[g] = flight[g] \/ Fits(flight'[g])
<1>1. CASE flight' = flight
  BY <1>1
<1>2. CASE Finish(f)
  <2>1. Fits(Idle)
    BY DEF Idle, Fits
  <2>2. QED
    BY <1>2, <2>1, FitsStep DEF Finish, Continue
<1>3. CASE Login(f)
  <2>1. Fits([pc |-> "login", version |-> version])
    BY DEF Fits
  <2>2. QED
    BY <1>3, <2>1, FitsStep DEF Login, Continue
<1>4. CASE EndFamily(f) \/ Undo(f)
  <2>1. Fits([pc |-> "respond", session |-> NoSession])
    BY DEF Fits
  <2>2. QED
    BY <1>4, <2>1, FitsStep DEF EndFamily, Undo, Continue
<1>5. ASSUME NEW n \in Session, NEW pc \in {"respond", "undo"}, sessions'[n] \in Row,
             flight' = [flight EXCEPT ![f] = [pc |-> pc, session |-> n]]
      PROVE  \A g \in Flight : flight'[g] = flight[g] \/ Fits(flight'[g])
  <2>1. Fits([pc |-> pc, session |-> n])
    BY <1>5 DEF Fits
  <2>2. QED
    BY <1>5, <2>1, FitsStep
<1>6. ASSUME NEW n \in Session, createAuthSession(f, n)
      PROVE  \A g \in Flight : flight'[g] = flight[g] \/ Fits(flight'[g])
  <2>1. sessions'[n] \in Row
    BY <1>6, ShapeCreate DEF Opens, Exists
  <2>2. flight' = [flight EXCEPT ![f] = [pc |-> "respond", session |-> n]]
    BY <1>6 DEF createAuthSession, Continue
  <2>3. QED
    BY <1>5, <2>1, <2>2
<1>7. ASSUME NEW n \in Session, Rotate(f, n)
      PROVE  \A g \in Flight : flight'[g] = flight[g] \/ Fits(flight'[g])
  <2>1. sessions'[n] \in Row
    BY <1>7, ShapeRotate DEF Succeeds, Exists
  <2>2. PICK pc \in {"respond", "undo"} : flight' = [flight EXCEPT ![f] = [pc |-> pc, session |-> n]]
    BY <1>7 DEF Rotate, Continue
  <2>3. QED
    BY <1>5, <2>1, <2>2
<1>8. ASSUME NEW s \in Session, Refresh(f, s) \/ ChangePassword(f, s)
      PROVE  \A g \in Flight : flight'[g] = flight[g] \/ Fits(flight'[g])
  <2>1. s \in known
    BY <1>8 DEF Refresh, ChangePassword, Current
  <2>2. PICK pc \in {"rotate", "change", "end family"} : flight' = [flight EXCEPT ![f] = [pc |-> pc, session |-> s]]
    BY <1>8 DEF Refresh, ChangePassword, AfterRead, Continue
  <2>3. Fits([pc |-> pc, session |-> s])
    BY <2>1 DEF Fits
  <2>4. QED
    BY <2>2, <2>3, FitsStep
<1>9. CASE ResetPassword(f) \/ UseToken(f) \/ UseOtherTokens(f)
  <2>1. PICK pc \in {"use", "use others", "end sessions"} : flight' = [flight EXCEPT ![f].pc = pc]
    BY <1>9 DEF ResetPassword, UseToken, UseOtherTokens, Continue
  <2>2. flight[f] \in [pc : {"password", "use", "use others", "end sessions"}, token : ResetToken]
    BY <1>9, Kinds DEF ResetPassword, UseToken, UseOtherTokens
  <2>3. Fits([flight[f] EXCEPT !.pc = pc])
    BY <2>2 DEF Fits
  <2>4. QED
    BY <2>1, <2>3, FitsStep
<1>10. ASSUME NEW t \in ResetToken, Reset(f, t)
       PROVE  \A g \in Flight : flight'[g] = flight[g] \/ Fits(flight'[g])
  <2>1. Fits([pc |-> "password", token |-> t])
    BY DEF Fits
  <2>2. QED
    BY <1>10, <2>1, FitsStep DEF Reset, Continue
<1>11. QED
  BY <1>1, <1>2, <1>3, <1>4, <1>6, <1>7, <1>8, <1>9, <1>10
     DEF Handle, Respond, Change, AdminReset, EndSessions, Deactivate, Activate, Stop, End, RequestReset

\* Nobody is told of a row that does not exist.
LEMMA HeldNext ==
  ASSUME TypeOK, Held, [Next]_vars, Shape, TypeOK'
  PROVE  Held'
<1>1. ASSUME NEW m \in known'
      PROVE  Exists(m)'
  <2>1. m \in Session /\ Told(m)'
    BY <1>1 DEF TypeOK, Told
  <2>2. CASE Keeps(m)
    BY <2>1, <2>2, ToldExists DEF Keeps
  <2>3. CASE ~Keeps(m)
    BY <2>1, <2>3 DEF Shape, Opens, Succeeds
  <2>4. QED
    BY <2>2, <2>3
<1>2. \A g \in Flight : flight'[g] = flight[g] \/ Fits(flight'[g])
  BY FitsNext DEF Next, Expire, vars
<1>3. ASSUME NEW g \in Flight
      PROVE  /\ flight'[g].pc \in {"rotate", "change", "end family"} => flight'[g].session \in known'
             /\ flight'[g].pc = "undo" => sessions'[flight'[g].session] \in Row
             /\ flight'[g].pc = "respond" =>
                  flight'[g].session = NoSession \/ sessions'[flight'[g].session] \in Row
  <2>1. CASE flight'[g] = flight[g]
    <3>1. /\ flight[g].pc \in {"rotate", "change", "end family"} => flight[g].session \in known
          /\ flight[g].pc = "undo" => sessions[flight[g].session] \in Row
          /\ flight[g].pc = "respond" => flight[g].session = NoSession \/ sessions[flight[g].session] \in Row
      BY DEF Held, Exists
    <3>2. flight[g].pc \in {"undo", "respond"} => flight[g].session = NoSession \/ flight[g].session \in Session
      BY Kinds
    <3>3. \A m \in Session : sessions[m] \in Row => sessions'[m] \in Row
      BY RowsStay DEF Exists
    <3>4. flight[g].pc = "undo" => flight[g].session \in Session
      BY Kinds
    <3>5. QED
      BY <2>1, <3>1, <3>2, <3>3, <3>4, KnownGrows
  <2>2. CASE Fits(flight'[g])
    BY <2>2, KnownGrows DEF Fits
  <2>3. QED
    BY <1>2, <2>1, <2>2
<1>4. QED
  BY <1>1, <1>3 DEF Held, Exists

\* A usable session is a live one that is told.
LEMMA UsableIsTold ==
  ASSUME NEW s
  PROVE  /\ Usable(s) <=> Live(s) /\ Told(s)
         /\ Usable(s)' <=> ~sessions'[s].revoked /\ Told(s)'
BY DEF Usable, Live, Told

\* A session that is kept and is usable after a step was usable before.
LEMMA KeptUsable ==
  ASSUME NEW m \in Session, Keeps(m), Usable(m)'
  PROVE  Usable(m)
BY UsableIsTold DEF Keeps, Live

\* Families stay, and a told session's predecessor stays revoked.
LEMMA ChainedNext ==
  ASSUME TypeOK, Chained, Held, Shape, known \subseteq known'
  PROVE  Chained'
<1>1. ASSUME NEW m \in Session, Exists(m)
      PROVE  /\ sessions'[sessions'[m].family] \in Row
             /\ sessions'[m].from # NoSession =>
                  sessions'[m].from \in known' /\ sessions'[sessions'[m].from].revoked
  <2>1. sessions[m].family \in Session /\ Exists(sessions[m].family)
    BY <1>1 DEF Chained, Exists, Row
  <2>2. /\ sessions'[m].family = sessions[m].family
        /\ sessions'[m].from = sessions[m].from
    BY <1>1, RowsStay
  <2>3. sessions'[sessions[m].family] \in Row
    BY <2>1, RowsStay DEF Exists
  <2>4. ASSUME sessions[m].from # NoSession
        PROVE  sessions[m].from \in known' /\ sessions'[sessions[m].from].revoked
    <3>1. PICK p \in known : p = sessions[m].from /\ sessions[p].revoked
      BY <1>1, <2>4 DEF Chained, Live
    <3>2. p \in Session /\ Exists(p)
      BY <3>1 DEF Held, TypeOK
    <3>3. sessions'[p].revoked
      BY <3>1, <3>2, RowsStay
    <3>4. QED
      BY <3>1, <3>3
  <2>5. QED
    BY <2>2, <2>3, <2>4
<1>2. ASSUME NEW n \in Session, Opens(n)
      PROVE  /\ sessions'[sessions'[n].family] \in Row
             /\ sessions'[n].from = NoSession
  BY <1>2 DEF Opens, Exists
<1>3. ASSUME NEW n \in Session, NEW s \in Session, Succeeds(n, s)
      PROVE  /\ sessions'[sessions'[n].family] \in Row
             /\ sessions'[n].from \in known' /\ sessions'[sessions'[n].from].revoked
  <2>1. s \in known /\ sessions'[s].revoked /\ sessions'[n].family = sessions[s].family /\ sessions'[n].from = s
    BY <1>3 DEF Succeeds
  <2>2. Exists(s)
    BY <2>1 DEF Held
  <2>3. sessions'[sessions'[s].family] \in Row
    BY <1>1, <2>2
  <2>4. sessions'[s].family = sessions[s].family
    BY <2>2, RowsStay
  <2>5. QED
    BY <2>1, <2>3, <2>4
<1>4. ASSUME NEW m \in Session, Exists(m)'
      PROVE  /\ sessions'[sessions'[m].family] \in Row
             /\ sessions'[m].from # NoSession =>
                  sessions'[m].from \in known' /\ sessions'[sessions'[m].from].revoked
  <2>1. CASE Keeps(m)
    BY <1>1, <1>4, <2>1 DEF Keeps
  <2>2. CASE Opens(m) \/ \E s \in Session : Succeeds(m, s)
    BY <1>2, <1>3, <2>2
  <2>3. QED
    BY <2>1, <2>2 DEF Shape
<1>5. QED
  BY <1>4 DEF Chained, Exists, Live

\* The current session was live when its successor was created, so no other was told.
LEMMA ToldOnceNext ==
  ASSUME TypeOK, Chained, Held, ToldOnce, Shape
  PROVE  ToldOnce'
<1>1. ASSUME NEW m \in Session, Keeps(m), Told(m)'
      PROVE  Told(m) /\ Exists(m) /\ sessions'[m].from = sessions[m].from
  BY <1>1, ToldExists DEF Keeps
<1>2. ASSUME NEW n \in Session, NEW s \in Session, Succeeds(n, s), Told(n)',
             NEW m \in Session \ {n}, Keeps(m), Told(m)'
      PROVE  sessions'[m].from # s
  <2>1. Live(s) /\ s \in Session /\ s # NoSession
    BY <1>2, AuthSessionsAssumption DEF Succeeds
  <2>2. Exists(m) /\ sessions'[m].from = sessions[m].from
    BY <1>1, <1>2
  <2>3. QED
    BY <2>1, <2>2 DEF Chained
<1>3. ASSUME NEW m \in Session, NEW n \in Session, m # n, Told(m)', Told(n)',
             sessions'[m].from = sessions'[n].from, sessions'[m].from # NoSession
      PROVE  FALSE
  <2>1. CASE Keeps(m) /\ Keeps(n)
    BY <1>1, <1>3, <2>1 DEF ToldOnce
  <2>2. CASE ~Keeps(m)
    <3>1. PICK s \in Session : Succeeds(m, s) /\ Keeps(n)
      BY <1>3, <2>2 DEF Shape, Opens
    <3>2. sessions'[m].from = s
      BY <3>1 DEF Succeeds
    <3>3. QED
      BY <1>2, <1>3, <3>1, <3>2
  <2>3. CASE ~Keeps(n)
    <3>1. PICK s \in Session : Succeeds(n, s) /\ Keeps(m)
      BY <1>3, <2>3 DEF Shape, Opens
    <3>2. sessions'[n].from = s
      BY <3>1 DEF Succeeds
    <3>3. QED
      BY <1>2, <1>3, <3>1, <3>2
  <2>4. QED
    BY <2>1, <2>2, <2>3
<1>4. QED
  BY <1>3 DEF ToldOnce

\* A successor takes the place of the one usable session of its family.
LEMMA OneUsableNext ==
  ASSUME TypeOK, Chained, Held, OneUsablePerFamily, Shape
  PROVE  OneUsablePerFamily'
<1>1. ASSUME NEW m \in Session, Keeps(m), Usable(m)'
      PROVE  Usable(m) /\ Exists(m) /\ Exists(sessions[m].family) /\ sessions'[m].family = sessions[m].family
  <2>1. Usable(m) /\ Told(m)
    BY <1>1, KeptUsable, UsableIsTold
  <2>2. QED
    BY <1>1, <2>1, ToldExists DEF Keeps, Chained
<1>2. ASSUME NEW n \in Session, Opens(n), NEW m \in Session, Keeps(m), Usable(m)'
      PROVE  sessions'[m].family # sessions'[n].family
  <2>1. Exists(sessions[m].family) /\ sessions'[m].family = sessions[m].family
    BY <1>1, <1>2
  <2>2. ~Exists(n) /\ sessions'[n].family = n
    BY <1>2, NoRowIsNone DEF Opens, Exists
  <2>3. QED
    BY <2>1, <2>2
<1>3. ASSUME NEW n \in Session, NEW s \in Session, Succeeds(n, s), Usable(n)', NEW m \in Session, Keeps(m), Usable(m)'
      PROVE  sessions'[m].family # sessions'[n].family
  <2>1. Usable(m) /\ sessions'[m].family = sessions[m].family
    BY <1>1, <1>3
  <2>2. Usable(s) /\ sessions'[n].family = sessions[s].family
    BY <1>3, UsableIsTold DEF Succeeds, Told
  <2>3. m # s
    BY <1>3, UsableIsTold DEF Succeeds
  <2>4. QED
    BY <2>1, <2>2, <2>3 DEF OneUsablePerFamily
<1>4. ASSUME NEW m \in Session, NEW n \in Session, m # n, Usable(m)', Usable(n)',
             sessions'[m].family = sessions'[n].family
      PROVE  FALSE
  <2>1. CASE Keeps(m) /\ Keeps(n)
    BY <1>1, <1>4, <2>1 DEF OneUsablePerFamily
  <2>2. CASE ~Keeps(m)
    BY <1>2, <1>3, <1>4, <2>2 DEF Shape
  <2>3. CASE ~Keeps(n)
    BY <1>2, <1>3, <1>4, <2>3 DEF Shape
  <2>4. QED
    BY <2>1, <2>2, <2>3
<1>5. QED
  BY <1>4 DEF OneUsablePerFamily

\* The invariant holds at the start.
LEMMA InvInit == Init => Inv
<1> SUFFICES ASSUME Init PROVE Inv
  OBVIOUS
<1>1. TypeOK
  BY AuthSessionsAssumption DEF Init, TypeOK
<1>2. \A s \in Session : ~Told(s) /\ ~Exists(s)
  <2>1. Idle # [pc |-> "respond", session |-> NoSession]
    BY DEF Idle
  <2>2. \A s \in Session : Idle # [pc |-> "respond", session |-> s]
    BY DEF Idle
  <2>3. QED
    BY <2>2, NoRowIsNone DEF Init, Told, Exists
<1>3. Chained
  BY <1>2 DEF Chained
<1>4. Held
  BY DEF Init, Held, Idle
<1>5. ToldOnce /\ OneUsablePerFamily
  BY <1>2, UsableIsTold DEF ToldOnce, OneUsablePerFamily
<1>6. QED
  BY <1>1, <1>3, <1>4, <1>5 DEF Inv

\* Every step keeps the invariant.
LEMMA InvNext ==
  ASSUME Inv, [Next]_vars
  PROVE  Inv'
<1>1. TypeOK /\ Chained /\ Held /\ ToldOnce /\ OneUsablePerFamily
  BY DEF Inv
<1>2. Shape
  BY <1>1, ShapeNext
<1>3. TypeOK'
  BY <1>1, TypeNext
<1>4. Held'
  BY <1>1, <1>2, <1>3, HeldNext
<1>5. Chained'
  BY <1>1, <1>2, ChainedNext, KnownGrows
<1>6. ToldOnce' /\ OneUsablePerFamily'
  BY <1>1, <1>2, ToldOnceNext, OneUsableNext
<1>7. QED
  BY <1>3, <1>4, <1>5, <1>6 DEF Inv

-----------------------------------------------------------------------------
(* The theorems.                                                           *)

\* The invariant holds in every behaviour.
LEMMA InvHolds == Spec => []Inv
<1>1. Init => Inv
  BY InvInit
<1>2. Inv /\ [Next]_vars => Inv'
  BY InvNext
<1>3. QED
  BY <1>1, <1>2, PTL DEF Spec

\* Type correctness of the sessions, the reset tokens and the requests in flight.
THEOREM TypeCorrect == Spec => []TypeOK
<1>1. Inv => TypeOK
  BY DEF Inv
<1>2. QED
  BY <1>1, InvHolds, PTL

\* rotateAuthSession answers at most one successor of a refresh token, however its refreshes
\* race, are repeated or stop half-way.
THEOREM ExchangedOnceHolds == Spec => []ExchangedOnce
<1>1. Inv => ExchangedOnce
  <2>1. ASSUME Inv, NEW m \in known, NEW n \in known, m # n, sessions[m].from = sessions[n].from,
               sessions[m].from # NoSession
        PROVE  FALSE
    BY <2>1 DEF Inv, TypeOK, ToldOnce, Told
  <2>2. QED
    BY <2>1 DEF ExchangedOnce
<1>2. QED
  BY <1>1, InvHolds, PTL

\* rotateAuthSession and createAuthSession leave a family one usable session at a time.
THEOREM OneUsablePerFamilyHolds == Spec => []OneUsablePerFamily
<1>1. Inv => OneUsablePerFamily
  BY DEF Inv
<1>2. QED
  BY <1>1, InvHolds, PTL

\* A family without a usable session never gets one again: a refresh under way when the family
\* ended does not revive it.
THEOREM FamilyEndsForGoodHolds == Spec => FamilyEndsForGood
<1> DEFINE Ends == \A s \in Session :
             sessions[s] # NoRow /\ (\A m \in Family(s) : ~Usable(m)) => \A m \in Family(s)' : ~Usable(m)'
<1>1. ASSUME Inv, [Next]_vars
      PROVE  Ends
  <2>1. TypeOK /\ Chained /\ Held /\ Shape
    BY <1>1, ShapeNext DEF Inv
  <2>2. ASSUME NEW s \in Session, sessions[s] # NoRow, \A m \in Family(s) : ~Usable(m),
               NEW m \in Session, sessions'[m].family = sessions'[s].family, Usable(m)'
        PROVE  FALSE
    <3>1. Exists(s) /\ sessions'[s].family = sessions[s].family
      BY <2>1, <2>2, RowsStay DEF TypeOK, Exists
    <3>2. Exists(sessions[s].family)
      BY <2>1, <3>1 DEF Chained
    <3>3. CASE Keeps(m)
      <4>1. Usable(m) /\ sessions'[m].family = sessions[m].family
        BY <2>2, <3>3, KeptUsable DEF Keeps
      <4>2. QED
        BY <2>2, <3>1, <4>1 DEF Family
    <3>4. CASE Opens(m)
      BY <2>2, <3>1, <3>2, <3>4, NoRowIsNone DEF Opens, Exists
    <3>5. ASSUME NEW p \in Session, Succeeds(m, p)
          PROVE  FALSE
      <4>1. Usable(p) /\ sessions'[m].family = sessions[p].family
        BY <2>2, <3>5, UsableIsTold DEF Succeeds, Told
      <4>2. QED
        BY <2>2, <3>1, <4>1 DEF Family
    <3>6. QED
      BY <2>1, <3>3, <3>4, <3>5 DEF Shape
  <2>3. \A s \in Session : Family(s)' = {m \in Session : sessions'[m].family = sessions'[s].family}
    BY DEF Family
  <2>4. QED
    BY <2>2, <2>3
<1>2. QED
  BY <1>1, InvHolds, PTL DEF Spec, FamilyEndsForGood

-----------------------------------------------------------------------------
(* One request at a time, and none that stops.                             *)

\* At most one request is in flight.
OneRequest == \A f, g \in Flight : flight[f] # Idle /\ flight[g] # Idle => f = g

\* resetPasswordV2 has written the password and not yet ended the sessions.
Resetting(f) == flight[f].pc \in {"use", "use others", "end sessions"}

\* A sign-in under way has shown the current password, and so has the owner of every session
\* that is still usable, unless a reset is about to end them all.
Shown ==
  /\ \A f \in Flight : flight[f].pc = "login" => flight[f].version = version
  /\ (\A f \in Flight : ~Resetting(f)) => \A s \in Session : Usable(s) => sessions[s].proven = version

\* A request that is not there is in no reset, and no sign-in.
LEMMA IdleKind ==
  ASSUME NEW g \in Flight
  PROVE  /\ flight[g] = Idle => flight[g].pc # "login" /\ ~Resetting(g)
         /\ flight'[g] = Idle => flight'[g].pc # "login" /\ ~Resetting(g)'
<1>1. Idle.pc = "idle"
  BY DEF Idle
<1>2. flight[g] = Idle => flight[g].pc = "idle"
  BY <1>1
<1>3. flight'[g] = Idle => flight'[g].pc = "idle"
  BY <1>1
<1>4. QED
  BY <1>2, <1>3 DEF Resetting

\* Revoking rows keeps what their owners have shown.
LEMMA RevokingProven ==
  ASSUME NEW S \in SUBSET Session, TypeOK, NEW m \in Session
  PROVE  Revoke(S)[m].proven = sessions[m].proven
<1>1. CASE m \in S
  <2>1. Revoke(S)[m] = [sessions[m] EXCEPT !.revoked = TRUE]
    BY <1>1 DEF Revoke
  <2>2. CASE sessions[m] \in Row
    BY <2>1, <2>2 DEF Row
  <2>3. CASE sessions[m] = NoRow
    BY <2>1, <2>3 DEF NoRow
  <2>4. QED
    BY <2>2, <2>3 DEF TypeOK
<1>2. CASE m \notin S
  BY <1>2 DEF Revoke
<1>3. QED
  BY <1>1, <1>2

\* While the only request takes a step, the others stay idle.
LEMMA Alone ==
  ASSUME TypeOK, NEW f \in Flight, OnlyRequest(f), Handle(f)
  PROVE  \A g \in Flight \ {f} : flight[g] = Idle /\ flight'[g] = Idle
<1>1. UNCHANGED flight \/ \E step : flight' = [flight EXCEPT ![f] = step]
  BY DEF Handle, Login, Respond, EndFamily, Undo, Change, AdminReset, ResetPassword, UseToken, UseOtherTokens,
         EndSessions, Deactivate, Activate, createAuthSession, End, Refresh, Rotate, ChangePassword,
         RequestReset, Reset, Continue, Finish
<1>2. QED
  BY <1>1 DEF TypeOK, OnlyRequest

\* A coordinator that serializes lets the request in flight alone take a step.
LEMMA Serialized ==
  ASSUME TypeOK, OneRequest, CoordinatorSerializes, NEW f \in Flight, Handle(f)
  PROVE  OnlyRequest(f)
<1>1. (\A g \in Flight : flight[g] = Idle) \/ flight[f].pc # "idle"
  BY DEF Handle, Login, Respond, EndFamily, Undo, Change, AdminReset, ResetPassword, UseToken, UseOtherTokens,
         EndSessions, Deactivate, Activate, createAuthSession, End, Refresh, Rotate, ChangePassword,
         RequestReset, Reset, Deliver
<1>2. QED
  BY <1>1 DEF OneRequest, OnlyRequest, Idle

\* Nothing is usable once every session is revoked.
LEMMA NothingUsable ==
  ASSUME TypeOK, sessions' = Revoke(Session)
  PROVE  \A s \in Session : ~Usable(s)'
BY Revoking DEF Usable, Live

\* The step of the request in flight keeps Shown, given what it leaves of its own.
LEMMA ShownStep ==
  ASSUME NEW f \in Flight, \A g \in Flight \ {f} : flight'[g] = Idle,
         flight'[f].pc = "login" => flight'[f].version = version',
         Resetting(f)' \/ \A s \in Session : Usable(s)' => sessions'[s].proven = version'
  PROVE  Shown'
<1>1. \A g \in Flight \ {f} : flight'[g].pc # "login" /\ ~Resetting(g)'
  BY IdleKind
<1>2. \A g \in Flight : flight'[g].pc = "login" => flight'[g].version = version'
  BY <1>1
<1>3. (\A g \in Flight : ~Resetting(g)') => \A s \in Session : Usable(s)' => sessions'[s].proven = version'
  OBVIOUS
<1>4. QED
  BY <1>2, <1>3 DEF Shown

\* What a request with no part in a reset may count on.
LEMMA ShownNow ==
  ASSUME Shown, NEW f \in Flight, \A g \in Flight \ {f} : flight[g] = Idle, ~Resetting(f)
  PROVE  \A s \in Session : Usable(s) => sessions[s].proven = version
<1>1. \A g \in Flight \ {f} : ~Resetting(g)
  BY IdleKind
<1>2. \A g \in Flight : ~Resetting(g)
  BY <1>1
<1>3. QED
  BY <1>2 DEF Shown

\* The step after which a request has the kind pc, and is not a sign-in.
LEMMA StepKind ==
  ASSUME TypeOK, NEW f \in Flight, NEW step, flight' = [flight EXCEPT ![f] = step]
  PROVE  flight'[f] = step
BY DEF TypeOK

\* A step with no part in a reset that keeps the password, and revokes at most, keeps Shown.
LEMMA ShownKept ==
  ASSUME TypeOK, Shown, NEW f \in Flight, OnlyRequest(f), Handle(f),
         ~Resetting(f), UNCHANGED version, \A m \in Session : Keeps(m),
         \A m \in Session : sessions'[m].proven = sessions[m].proven,
         flight'[f].pc = "login" => flight'[f].version = version
  PROVE  Shown'
<1>1. \A g \in Flight \ {f} : flight[g] = Idle /\ flight'[g] = Idle
  BY Alone
<1>2. \A s \in Session : Usable(s) => sessions[s].proven = version
  BY <1>1, ShownNow
<1>3. \A s \in Session : Usable(s)' => sessions'[s].proven = version'
  BY <1>2, KeptUsable
<1>4. flight'[f].pc = "login" => flight'[f].version = version'
  OBVIOUS
<1>5. QED
  BY <1>1, <1>3, <1>4, ShownStep

\* The request in flight keeps Shown.
LEMMA ShownHandle ==
  ASSUME TypeOK, Held, Shown, NEW f \in Flight, OnlyRequest(f), Handle(f)
  PROVE  Shown'
<1>1. \A g \in Flight \ {f} : flight[g] = Idle /\ flight'[g] = Idle
  BY Alone
<1>2. CASE Login(f)
  <2>1. flight'[f] = [pc |-> "login", version |-> version] /\ flight[f] = Idle
    BY <1>2, StepKind DEF Login, Continue, Deliver
  <2>2. flight'[f].version = version /\ ~Resetting(f)
    BY <2>1 DEF Resetting, Idle
  <2>3. UNCHANGED <<version, sessions>>
    BY <1>2 DEF Login, account
  <2>4. \A m \in Session : Keeps(m)
    BY <1>2, ShapeQuiet
  <2>5. QED
    BY <2>2, <2>3, <2>4, ShownKept
<1>3. CASE EndFamily(f) \/ Undo(f)
  <2>1. PICK S \in SUBSET Session : sessions' = Revoke(S)
    <3>1. CASE EndFamily(f)
      BY <3>1 DEF EndFamily, Family
    <3>2. CASE Undo(f)
      BY <3>2, Kinds DEF Undo
    <3>3. QED
      BY <1>3, <3>1, <3>2
  <2>2. flight'[f] = [pc |-> "respond", session |-> NoSession]
    BY <1>3, StepKind DEF EndFamily, Undo, Continue
  <2>3. UNCHANGED version /\ ~Resetting(f)
    BY <1>3 DEF EndFamily, Undo, account, Resetting
  <2>4. \A m \in Session : sessions'[m].proven = sessions[m].proven
    BY <2>1, RevokingProven
  <2>5. \A m \in Session : Keeps(m)
    BY <1>3, ShapeQuiet
  <2>6. flight'[f].pc # "login"
    BY <2>2
  <2>7. QED
    BY <2>3, <2>4, <2>5, <2>6, ShownKept
<1>4. CASE Respond(f)
  <2>1. flight'[f] = Idle
    BY <1>4, StepKind DEF Respond, Finish, Continue
  <2>2. flight'[f].pc # "login"
    BY <2>1 DEF Idle
  <2>3. UNCHANGED <<version, sessions>> /\ ~Resetting(f)
    BY <1>4 DEF Respond, account, Resetting
  <2>4. \A m \in Session : Keeps(m)
    BY <1>4, ShapeRespond
  <2>5. QED
    BY <2>2, <2>3, <2>4, ShownKept
<1>5. CASE Activate(f) \/ \E t \in ResetToken : RequestReset(f, t)
  <2>1. UNCHANGED <<version, sessions, flight>> /\ flight[f] = Idle
    BY <1>5 DEF Activate, RequestReset, Deliver
  <2>2. flight'[f].pc # "login" /\ ~Resetting(f)
    BY <2>1, IdleKind
  <2>3. \A m \in Session : Keeps(m)
    BY <1>5, ShapeQuiet
  <2>4. QED
    BY <2>1, <2>2, <2>3, ShownKept
<1>6. ASSUME NEW s \in Session, End(f, s)
      PROVE  Shown'
  <2>1. sessions' = Revoke({s}) /\ UNCHANGED <<version, flight>> /\ flight[f] = Idle
    BY <1>6 DEF End, account, Deliver
  <2>2. flight'[f].pc # "login" /\ ~Resetting(f)
    BY <2>1, IdleKind
  <2>3. \A m \in Session : sessions'[m].proven = sessions[m].proven
    BY <2>1, RevokingProven
  <2>4. \A m \in Session : Keeps(m)
    BY <1>6, ShapeQuiet
  <2>5. QED
    BY <2>1, <2>2, <2>3, <2>4, ShownKept
<1>7. ASSUME NEW s \in Session, Refresh(f, s) \/ ChangePassword(f, s)
      PROVE  Shown'
  <2>1. PICK pc \in {"end family", "rotate", "change"} :
          flight' = [flight EXCEPT ![f] = [pc |-> pc, session |-> s]]
    BY <1>7 DEF Refresh, ChangePassword, Continue, AfterRead
  <2>2. flight'[f].pc = pc
    BY <2>1 DEF TypeOK
  <2>3. UNCHANGED <<version, sessions>> /\ flight[f] = Idle
    BY <1>7 DEF Refresh, ChangePassword, Deliver, account
  <2>4. ~Resetting(f)
    BY <2>3, IdleKind
  <2>5. flight'[f].pc # "login"
    BY <2>2
  <2>6. \A m \in Session : Keeps(m)
    BY <1>7, ShapeQuiet
  <2>7. QED
    BY <2>3, <2>4, <2>5, <2>6, ShownKept
<1>8. ASSUME NEW t \in ResetToken, Reset(f, t)
      PROVE  Shown'
  <2>1. flight'[f] = [pc |-> "password", token |-> t]
    BY <1>8, StepKind DEF Reset, Continue
  <2>2. UNCHANGED <<version, sessions>> /\ flight[f] = Idle
    BY <1>8 DEF Reset, Deliver, account
  <2>3. flight'[f].pc # "login" /\ ~Resetting(f)
    BY <2>1, <2>2, IdleKind
  <2>4. \A m \in Session : Keeps(m)
    BY <1>8, ShapeQuiet
  <2>5. QED
    BY <2>2, <2>3, <2>4, ShownKept
<1>9. CASE AdminReset(f) \/ Deactivate(f) \/ EndSessions(f)
  <2>1. \A s \in Session : ~Usable(s)'
    BY <1>9, NothingUsable DEF AdminReset, Deactivate, EndSessions
  <2>2. flight'[f] = Idle
    BY <1>9, StepKind DEF AdminReset, Deactivate, EndSessions, Deliver, Finish, Continue
  <2>3. flight'[f].pc # "login"
    BY <2>2 DEF Idle
  <2>4. QED
    BY <1>1, <2>1, <2>3, ShownStep
<1>10. CASE ResetPassword(f) \/ UseToken(f) \/ UseOtherTokens(f)
  <2>1. flight[f] \in [pc : {"password", "use", "use others", "end sessions"}, token : ResetToken]
    BY <1>10, Kinds DEF ResetPassword, UseToken, UseOtherTokens
  <2>2. PICK pc \in {"use", "use others", "end sessions"} :
          flight' = [flight EXCEPT ![f] = [flight[f] EXCEPT !.pc = pc]]
    BY <1>10 DEF ResetPassword, UseToken, UseOtherTokens, Continue
  <2>3. flight'[f] = [flight[f] EXCEPT !.pc = pc]
    BY <2>2, StepKind
  <2>4. flight'[f].pc = pc
    BY <2>1, <2>3
  <2>5. Resetting(f)' /\ flight'[f].pc # "login"
    BY <2>4 DEF Resetting
  <2>6. QED
    BY <1>1, <2>5, ShownStep
<1>11. CASE Change(f)
  <2>1. PICK own \in Session : own = flight[f].session
    BY <1>11, Kinds DEF Change
  <2>2. /\ sessions' = [Revoke(Session \ {own}) EXCEPT ![own].proven = version + 1]
        /\ version' = version + 1
    BY <1>11, <2>1 DEF Change
  <2>3. flight'[f] = Idle
    BY <1>11, StepKind DEF Change, Finish, Continue
  <2>4. Revoke(Session \ {own}) \in [Session -> Row \cup {NoRow}]
    BY Revoking
  <2>5. own \in known /\ sessions[own] \in Row
    BY <1>11, <2>1 DEF Change, Held, Exists
  <2>6. Revoke(Session \ {own})[own] \in Row
    BY <2>5, Revoking
  <2>7. sessions'[own].proven = version'
    BY <2>2, <2>4, <2>6 DEF Row
  <2>8. \A s \in Session : s # own => sessions'[s].revoked
    <3>1. \A s \in Session : s # own => sessions'[s] = Revoke(Session \ {own})[s]
      BY <2>2, <2>4
    <3>2. QED
      BY <3>1, Revoking
  <2>9. \A s \in Session : Usable(s)' => sessions'[s].proven = version'
    BY <2>7, <2>8 DEF Usable, Live
  <2>10. flight'[f].pc # "login"
    BY <2>3 DEF Idle
  <2>11. QED
    BY <1>1, <2>9, <2>10, ShownStep
<1>12. ASSUME NEW n \in Session, createAuthSession(f, n)
       PROVE  Shown'
  <2> DEFINE row == [family |-> n, from |-> NoSession, proven |-> flight[f].version, revoked |-> FALSE]
  <2>1. flight[f].pc = "login" /\ flight[f].version = version /\ ~Resetting(f)
    BY <1>12 DEF createAuthSession, Shown, Resetting
  <2>2. \A s \in Session : Usable(s) => sessions[s].proven = version
    BY <1>1, <2>1, ShownNow
  <2>3. sessions' = [sessions EXCEPT ![n] = row] /\ UNCHANGED version
    BY <1>12 DEF createAuthSession, account
  <2>4. row.proven = version
    BY <2>1
  <2> HIDE DEF row
  <2>5. sessions'[n].proven = version
    BY <2>3, <2>4 DEF TypeOK
  <2>6. \A m \in Session \ {n} : Keeps(m) /\ sessions'[m] = sessions[m]
    BY <1>12, <2>3, ShapeCreate DEF TypeOK
  <2>7. \A s \in Session : Usable(s)' => sessions'[s].proven = version'
    BY <2>2, <2>3, <2>5, <2>6, KeptUsable
  <2>8. flight'[f] = [pc |-> "respond", session |-> n]
    BY <1>12, StepKind DEF createAuthSession, Continue
  <2>9. flight'[f].pc # "login"
    BY <2>8
  <2>10. QED
    BY <1>1, <2>7, <2>9, ShownStep
<1>13. ASSUME NEW n \in Session, Rotate(f, n)
       PROVE  Shown'
  <2>1. PICK s \in Session : s = flight[f].session
    BY <1>13, Kinds DEF Rotate
  <2>2. s \in known /\ sessions[s] \in Row /\ ~Resetting(f)
    BY <1>13, <2>1 DEF Rotate, Held, Exists, Resetting
  <2> DEFINE row == [sessions[s] EXCEPT !.from = s, !.revoked = FALSE]
             step == [pc |-> IF Live(s) THEN "respond" ELSE "undo", session |-> n]
  <2>3. /\ sessions' = [Revoke({s}) EXCEPT ![n] = row]
        /\ flight' = [flight EXCEPT ![f] = step] /\ UNCHANGED version
    BY <1>13, <2>1 DEF Rotate, Continue, account
  <2>4. row.proven = sessions[s].proven
    BY <2>2 DEF Row
  <2>5. step.pc # "login"
    OBVIOUS
  <2> HIDE DEF row, step
  <2>6. Revoke({s}) \in [Session -> Row \cup {NoRow}]
    BY Revoking
  <2>7. \A s2 \in Session : Usable(s2) => sessions[s2].proven = version
    BY <1>1, <2>2, ShownNow
  <2>8. \A m \in Session \ {n} : Keeps(m) /\ sessions'[m].proven = sessions[m].proven
    <3>1. \A m \in Session \ {n} : sessions'[m] = Revoke({s})[m]
      BY <2>3, <2>6
    <3>2. QED
      BY <1>13, <3>1, ShapeRotate, RevokingProven
  <2>9. Usable(n)' => Live(s)
    BY <1>13, <2>1, ShapeRotate, UsableIsTold DEF Succeeds, Usable, Told
  <2>10. Live(s) => sessions[s].proven = version
    BY <2>2, <2>7 DEF Usable
  <2>11. sessions'[n].proven = sessions[s].proven
    BY <2>3, <2>4, <2>6
  <2>12. \A m \in Session : Usable(m)' => sessions'[m].proven = version'
    BY <2>3, <2>7, <2>8, <2>9, <2>10, <2>11, KeptUsable
  <2>13. flight'[f].pc # "login"
    BY <2>3, <2>5, StepKind
  <2>14. QED
    BY <1>1, <2>12, <2>13, ShownStep
<1>14. QED
  BY <1>2, <1>3, <1>4, <1>5, <1>6, <1>7, <1>8, <1>9, <1>10, <1>11, <1>12, <1>13 DEF Handle

\* Every step keeps that one request is in flight, and Shown.
LEMMA OnlyNext ==
  ASSUME Inv, OneRequest, Shown, [PasswordsNext]_vars
  PROVE  OneRequest' /\ Shown'
<1>1. TypeOK /\ Held
  BY DEF Inv
<1>2. CASE UNCHANGED vars
  BY <1>2 DEF vars, OneRequest, Shown, Resetting, Usable, Live
<1>3. ASSUME NEW s \in Session, Expire(s)
      PROVE  OneRequest' /\ Shown'
  BY <1>3 DEF Expire, account, OneRequest, Shown, Resetting, Usable, Live
<1>4. ASSUME NEW f \in Flight, OnlyRequest(f), Handle(f)
      PROVE  OneRequest' /\ Shown'
  <2>1. \A g \in Flight \ {f} : flight'[g] = Idle
    BY <1>1, <1>4, Alone
  <2>2. OneRequest'
    BY <2>1 DEF OneRequest
  <2>3. QED
    BY <1>1, <1>4, <2>2, ShownHandle
<1>5. QED
  BY <1>2, <1>3, <1>4 DEF PasswordsNext

\* So the coordinator does, while no request stops.
LEMMA SerialNext ==
  ASSUME Inv, OneRequest, Shown, CoordinatorSerializes, ~MayStop, [Next]_vars
  PROVE  OneRequest' /\ Shown'
<1>1. \A f \in Flight : Handle(f) => OnlyRequest(f)
  BY Serialized DEF Inv
<1>2. [PasswordsNext]_vars
  BY <1>1 DEF Next, Stop, PasswordsNext
<1>3. QED
  BY <1>2, OnlyNext

\* At first nobody is signed in.
LEMMA ShownInit == Init => OneRequest /\ Shown
<1> SUFFICES ASSUME Init PROVE OneRequest /\ Shown
  OBVIOUS
<1>1. \A f \in Flight : flight[f] = Idle /\ flight[f].pc # "login"
  BY DEF Init, Idle
<1>2. \A s \in Session : sessions[s].revoked
  BY DEF Init, NoRow
<1>3. QED
  BY <1>1, <1>2 DEF OneRequest, Shown, Usable, Live

\* With nothing in flight, Shown is the property.
LEMMA ShownEnds == Shown => PasswordEndsSessions
<1>1. ASSUME \A f \in Flight : flight[f] = Idle
      PROVE  \A f \in Flight : ~Resetting(f)
  BY <1>1, IdleKind
<1>2. QED
  BY <1>1 DEF Shown, PasswordEndsSessions

\* updateProfile, resetPasswordV2 and the resets of administrators: when no request is in
\* flight, every session that is still usable belongs to someone who knew the current
\* password, as long as requests are handled one at a time and to their end.
THEOREM PasswordEndsSessionsHolds ==
  ASSUME CoordinatorSerializes, ~MayStop
  PROVE  Spec => []PasswordEndsSessions
<1>1. Inv /\ OneRequest /\ Shown /\ [Next]_vars => OneRequest' /\ Shown'
  BY SerialNext
<1>2. QED
  BY <1>1, ShownInit, ShownEnds, InvHolds, PTL DEF Spec

-----------------------------------------------------------------------------
(* Before the session (AccountSecurity): what the counts and codes rest    *)
(* on, with or without a coordinator that serializes.                      *)

Counting == {f \in Flight : signIns[f].pc = "count"}

Locking == {f \in Flight : signIns[f].pc = "lock"}

UsingCode(c) == {f \in Flight : signIns[f].pc = "use" /\ signIns[f].code = c}

\* A code that is left has completed no sign-in; one that has, or is about to, was shown; and
\* each request completes at most one sign-in with it.
CodesCounted ==
  /\ codes \subseteq shown
  /\ \A c \in codes : uses[c] = 0
  /\ \A c \in Code : uses[c] # 0 \/ UsingCode(c) # {} => c \in shown
  /\ \A c \in Code : uses[c] + Cardinality(UsingCode(c)) <= Cardinality(Flight)

SignInInv == SecurityTypeOK /\ tries <= failed /\ CodesCounted

\* A request that is not there is at no step.
LEMMA IdleSignIn ==
  ASSUME NEW f \in Flight
  PROVE  /\ signIns[f] = Idle => signIns[f].pc = "idle"
         /\ signIns'[f] = Idle => signIns'[f].pc = "idle"
<1>1. Idle.pc = "idle"
  BY DEF Idle
<1>2. QED
  BY <1>1

\* A request at the use of a code has one.
LEMMA CodeOfUse ==
  ASSUME SecurityTypeOK, NEW f \in Flight, signIns[f].pc = "use"
  PROVE  signIns[f].code \in Code
<1>1. signIns[f] \in {Idle} \cup SignInFlights
  BY DEF SecurityTypeOK
<1>2. signIns[f] \in [pc : {"use"}, code : Code]
  BY <1>1 DEF SignInFlights, Idle
<1>3. QED
  BY <1>2

\* A request that goes on changes nothing for the others.
LEMMA GoesOn ==
  ASSUME SecurityTypeOK, NEW f \in Flight, NEW step \in {Idle} \cup SignInFlights, GoOn(f, step)
  PROVE  /\ signIns' \in [Flight -> {Idle} \cup SignInFlights]
         /\ signIns'[f] = step
         /\ \A g \in Flight \ {f} : signIns'[g] = signIns[g]
BY DEF GoOn, SecurityTypeOK

\* The requests are finitely many, and so are those at a step.
LEMMA FewRequests ==
  ASSUME NEW S \in SUBSET Flight
  PROVE  IsFiniteSet(S) /\ Cardinality(S) \in Nat /\ Cardinality(S) <= Cardinality(Flight)
<1>1. IsFiniteSet(Flight)
  BY AccountSecurityAssumption
<1>2. IsFiniteSet(S) /\ Cardinality(S) <= Cardinality(Flight)
  BY <1>1, FS_Subset
<1>3. QED
  BY <1>2, FS_CardinalityType

\* One request more, or fewer.
LEMMA OneMore ==
  ASSUME NEW S \in SUBSET Flight, NEW f \in Flight
  PROVE  /\ f \notin S => Cardinality(S \cup {f}) = Cardinality(S) + 1
         /\ f \in S => Cardinality(S \ {f}) = Cardinality(S) - 1
<1>1. IsFiniteSet(S)
  BY FewRequests
<1>2. QED
  BY <1>1, FS_AddElement, FS_RemoveElement

\* Fewer requests cannot be more.
LEMMA FewerRequests ==
  ASSUME NEW S \in SUBSET Flight, NEW T \in SUBSET S
  PROVE  Cardinality(T) <= Cardinality(S)
BY FewRequests, FS_Subset

\* Steps that use no code keep what is counted of the codes.
LEMMA CodesKept ==
  ASSUME SecurityTypeOK, CodesCounted, uses' = uses, shown \subseteq shown', codes' \subseteq Code,
         \A c \in codes' : c \in codes \/ c \notin shown, codes' \subseteq shown',
         \A f \in Flight : signIns'[f].pc = "use" => signIns'[f] = signIns[f]
  PROVE  CodesCounted'
<1>1. ASSUME NEW c \in Code
      PROVE  UsingCode(c)' \subseteq UsingCode(c) /\ UsingCode(c) \subseteq Flight
  BY DEF UsingCode
<1>2. \A c \in codes' : uses'[c] = 0
  BY DEF CodesCounted
<1>3. ASSUME NEW c \in Code, uses'[c] # 0 \/ UsingCode(c)' # {}
      PROVE  c \in shown'
  BY <1>1, <1>3 DEF CodesCounted
<1>4. ASSUME NEW c \in Code
      PROVE  uses'[c] + Cardinality(UsingCode(c)') <= Cardinality(Flight)
  <2>1. Cardinality(UsingCode(c)') <= Cardinality(UsingCode(c))
    BY <1>1, FewerRequests
  <2>2. Cardinality(UsingCode(c)') \in Nat /\ Cardinality(UsingCode(c)) \in Nat
    BY <1>1, FewRequests
  <2>3. uses[c] + Cardinality(UsingCode(c)) <= Cardinality(Flight)
    BY DEF CodesCounted
  <2>4. uses[c] \in Nat /\ uses'[c] = uses[c] /\ Cardinality(Flight) \in Nat
    BY FewRequests DEF SecurityTypeOK
  <2>5. QED
    BY <2>1, <2>2, <2>3, <2>4
<1>5. QED
  BY <1>2, <1>3, <1>4 DEF CodesCounted

\* The sign-ins a request completes with a code are no more than the requests.
LEMMA UsesBounded ==
  ASSUME SecurityTypeOK, CodesCounted, NEW c \in Code
  PROVE  /\ UsingCode(c) \in SUBSET Flight
         /\ Cardinality(UsingCode(c)) \in Nat /\ Cardinality(Flight) \in Nat /\ uses[c] \in Nat
         /\ uses[c] + Cardinality(UsingCode(c)) <= Cardinality(Flight)
<1>1. UsingCode(c) \in SUBSET Flight
  BY DEF UsingCode
<1>2. QED
  BY <1>1, FewRequests DEF SecurityTypeOK, CodesCounted

\* verifyMfaLoginV2 reads a code that has completed no sign-in.
LEMMA CodesVerify ==
  ASSUME SignInInv, NEW f \in Flight, NEW c \in Code, VerifyRecoveryCode(f, c)
  PROVE  CodesCounted'
<1>1. SecurityTypeOK /\ CodesCounted /\ c \in codes
  BY DEF SignInInv, VerifyRecoveryCode
<1>2. /\ signIns' = [signIns EXCEPT ![f] = [pc |-> "use", code |-> c]]
      /\ uses' = uses
      /\ codes' = codes
      /\ shown' = shown
  BY DEF VerifyRecoveryCode, GoOn, credential
<1>3. signIns[f].pc = "idle"
  BY IdleSignIn DEF VerifyRecoveryCode, Admit
<1>4. UsingCode(c)' = UsingCode(c) \cup {f} /\ f \notin UsingCode(c)
  BY <1>1, <1>2, <1>3 DEF UsingCode, SecurityTypeOK
<1>5. \A d \in Code \ {c} : UsingCode(d)' = UsingCode(d)
  BY <1>1, <1>2, <1>3 DEF UsingCode, SecurityTypeOK
<1>6. uses[c] = 0 /\ c \in shown
  BY <1>1 DEF CodesCounted
<1>7. UsingCode(c)' \in SUBSET Flight
  BY DEF UsingCode
<1>8. uses'[c] + Cardinality(UsingCode(c)') <= Cardinality(Flight)
  BY <1>2, <1>6, <1>7, FewRequests
<1>9. QED
  BY <1>1, <1>2, <1>5, <1>6, <1>8 DEF CodesCounted

\* The update of verifyMfaLoginV2 takes the code out of those that are left.
LEMMA CodesUse ==
  ASSUME SignInInv, NEW f \in Flight, UseCode(f)
  PROVE  CodesCounted'
<1>1. SecurityTypeOK /\ CodesCounted /\ signIns[f].pc = "use"
  BY DEF SignInInv, UseCode
<1>2. PICK d \in Code : d = signIns[f].code
  BY <1>1, CodeOfUse
<1>3. /\ signIns' = [signIns EXCEPT ![f] = [pc |-> "complete"]]
      /\ uses' = [uses EXCEPT ![d] = @ + 1]
      /\ codes' = codes \ {d}
      /\ shown' = shown
  BY <1>2 DEF UseCode, GoOn, CodesAfterUse
<1>4. f \in UsingCode(d) /\ UsingCode(d)' = UsingCode(d) \ {f}
  BY <1>1, <1>2, <1>3 DEF UsingCode, SecurityTypeOK
<1>5. \A e \in Code \ {d} : UsingCode(e)' = UsingCode(e)
  BY <1>1, <1>2, <1>3 DEF UsingCode, SecurityTypeOK
<1>6. uses'[d] = uses[d] + 1 /\ \A e \in Code \ {d} : uses'[e] = uses[e]
  BY <1>1, <1>3 DEF SecurityTypeOK
<1>7. d \in shown
  BY <1>1, <1>4 DEF CodesCounted
<1>8. uses'[d] + Cardinality(UsingCode(d)') <= Cardinality(Flight)
  <2>1. Cardinality(UsingCode(d)') = Cardinality(UsingCode(d)) - 1
    BY <1>1, <1>4, UsesBounded, OneMore
  <2>2. QED
    BY <1>1, <1>6, <2>1, UsesBounded
<1>9. \A e \in codes' : uses'[e] = 0
  BY <1>1, <1>3, <1>6 DEF CodesCounted, SecurityTypeOK
<1>10. QED
  BY <1>1, <1>3, <1>5, <1>6, <1>7, <1>8, <1>9 DEF CodesCounted

\* The steps that complete no sign-in with a code, and do not replace the codes.
LEMMA CodesOfPasswords ==
  ASSUME SignInInv, NEW f \in Flight, CheckPassword(f) \/ GiveUp(f)
  PROVE  CodesCounted'
<1>1. SecurityTypeOK /\ CodesCounted
  BY DEF SignInInv
<1>2. PICK step \in {Idle} \cup SignInFlights : GoOn(f, step) /\ step.pc # "use"
  <2>1. \E step : GoOn(f, step) /\ (step = Idle \/ step.pc \in {"count", "lock", "complete", "clear"})
                  /\ step \in {Idle} \cup SignInFlights
    BY <1>1 DEF CheckPassword, GiveUp, Read, Count, Lock, Clear, Complete, Done, SecurityTypeOK,
                SignInFlights
  <2>2. QED
    BY <2>1 DEF Idle
<1>3. \A g \in Flight : signIns'[g].pc = "use" => signIns'[g] = signIns[g]
  BY <1>1, <1>2, GoesOn
<1>4. uses' = uses /\ UNCHANGED credential
  BY DEF CheckPassword, GiveUp, Read, Count, Lock, Clear, Complete
<1>5. codes' = codes /\ shown' = shown
  BY <1>4 DEF credential
<1>6. codes \subseteq Code /\ codes \subseteq shown
  BY <1>1 DEF SecurityTypeOK, CodesCounted
<1>7. QED
  BY <1>1, <1>3, <1>4, <1>5, <1>6, CodesKept

\* The steps of setupMfaV2 and enableMfaV2, and the check of a code of the authenticator.
LEMMA CodesOfFactors ==
  ASSUME SignInInv, NEW f \in Flight,
         \/ VerifyTotp(f) \/ Setup(f) \/ Enable(f)
         \/ \E s \in Secret : Upsert(f, s)
         \/ \E new \in SUBSET Code \ {{}} : EnableUpdate(f, new)
  PROVE  CodesCounted'
<1>1. SecurityTypeOK /\ CodesCounted
  BY DEF SignInInv
<1>2. \A g \in Flight : signIns'[g].pc = "use" => signIns'[g] = signIns[g]
  <2>1. PICK step \in {Idle} \cup SignInFlights : GoOn(f, step) /\ step.pc # "use"
    <3>1. \E step : GoOn(f, step) /\ (step = Idle \/ step.pc \in {"complete", "setup", "enable"})
                    /\ step \in {Idle} \cup SignInFlights
      BY DEF VerifyTotp, Setup, Enable, Upsert, EnableUpdate, Done, SignInFlights
    <3>2. QED
      BY <3>1 DEF Idle
  <2>2. QED
    BY <1>1, <2>1, GoesOn
<1>3. uses' = uses
  BY DEF VerifyTotp, Setup, Enable, Upsert, EnableUpdate
<1>4. codes \subseteq Code /\ codes \subseteq shown
  BY <1>1 DEF SecurityTypeOK, CodesCounted
<1>5. CASE VerifyTotp(f) \/ Setup(f) \/ Enable(f)
  <2>1. codes' = codes /\ shown' = shown
    BY <1>5 DEF VerifyTotp, Setup, Enable, credential
  <2>2. QED
    BY <1>1, <1>2, <1>3, <1>4, <2>1, CodesKept
<1>6. ASSUME NEW s \in Secret, Upsert(f, s)
      PROVE  CodesCounted'
  <2>1. codes' = {} /\ shown' = shown \cup {s}
    BY <1>6 DEF Upsert
  <2>2. QED
    BY <1>1, <1>2, <1>3, <2>1, CodesKept
<1>7. ASSUME NEW new \in SUBSET Code, EnableUpdate(f, new)
      PROVE  CodesCounted'
  <2>1. codes' = new /\ shown' = shown \cup new /\ new \cap shown = {}
    BY <1>7 DEF EnableUpdate
  <2>2. QED
    BY <1>1, <1>2, <1>3, <2>1, CodesKept
<1>8. QED
  BY <1>5, <1>6, <1>7

\* Every step keeps the counts and the type of what login writes.
LEMMA LockoutType ==
  ASSUME SignInInv, [SecurityNext]_securityVars
  PROVE  failed' \in 0..MaxFailed /\ locked' \in BOOLEAN /\ tries' \in 0..MaxFailed /\ tries' <= failed'
<1>1. /\ failed \in 0..MaxFailed /\ locked \in BOOLEAN /\ tries \in 0..MaxFailed
      /\ tries <= failed /\ MaxFailed \in Nat
  BY AccountSecurityAssumption DEF SignInInv, SecurityTypeOK
<1>2. CASE UNCHANGED lockout \/ UNCHANGED securityVars
  BY <1>1, <1>2 DEF lockout, securityVars
<1>3. CASE LockRunsOut
  <2>1. failed' = failed /\ locked' = FALSE /\ tries' = 0
    BY <1>3 DEF LockRunsOut
  <2>2. 0 \in 0..MaxFailed
    BY <1>1
  <2>3. 0 <= failed
    BY <1>1
  <2>4. QED
    BY <1>1, <2>1, <2>2, <2>3
<1>4. ASSUME NEW f \in Flight, CheckPassword(f), ~UNCHANGED lockout
      PROVE  failed' \in 0..MaxFailed /\ locked' \in BOOLEAN /\ tries' \in 0..MaxFailed /\ tries' <= failed'
  <2>1. CASE Count(f)
    <3>1. failed < MaxFailed /\ failed' = failed + 1 /\ tries' = tries + 1 /\ locked' = locked
      BY <2>1 DEF Count
    <3>2. QED
      BY <1>1, <3>1
  <2>2. CASE Lock(f)
    <3>1. failed' = failed /\ tries' = tries /\ locked' = TRUE
      BY <2>2 DEF Lock
    <3>2. QED
      BY <1>1, <3>1
  <2>3. CASE Clear(f) \/ Complete(f)
    <3>1. failed' = 0 /\ tries' = 0 /\ locked' = FALSE
      BY <2>3 DEF Clear, Complete
    <3>2. 0 \in 0..MaxFailed /\ 0 <= 0
      BY <1>1
    <3>3. QED
      BY <3>1, <3>2
  <2>4. QED
    BY <1>4, <2>1, <2>2, <2>3 DEF CheckPassword, Read
<1>5. ASSUME NEW f \in Flight, SecondFactor(f) \/ GiveUp(f)
      PROVE  UNCHANGED lockout
  BY <1>5 DEF SecondFactor, GiveUp, VerifyTotp, UseCode, VerifyRecoveryCode, Setup, Enable, Upsert,
              EnableUpdate
<1>6. QED
  BY <1>2, <1>3, <1>4, <1>5 DEF SecurityNext

\* Every step keeps the type of the second factor.
LEMMA FactorType ==
  ASSUME SignInInv, [SecurityNext]_securityVars
  PROVE  /\ enabled' \in BOOLEAN /\ secret' \in Secret \cup {NoSecret}
         /\ codes' \subseteq Code /\ shown' \subseteq Secret \cup Code /\ proved' \subseteq Secret
         /\ challenge' \in BOOLEAN
<1>1. /\ enabled \in BOOLEAN /\ secret \in Secret \cup {NoSecret} /\ codes \subseteq Code
      /\ shown \subseteq Secret \cup Code /\ proved \subseteq Secret /\ challenge \in BOOLEAN
  BY DEF SignInInv, SecurityTypeOK
<1>2. CASE UNCHANGED securityVars \/ LockRunsOut
  BY <1>1, <1>2 DEF LockRunsOut, securityVars, credential
<1>3. ASSUME NEW f \in Flight, CheckPassword(f) \/ GiveUp(f)
      PROVE  UNCHANGED credential /\ challenge' \in BOOLEAN
  BY <1>1, <1>3 DEF CheckPassword, GiveUp, Read, Count, Lock, Clear, Complete
<1>4. ASSUME NEW f \in Flight,
             VerifyTotp(f) \/ UseCode(f) \/ Setup(f) \/ \E c \in Code : VerifyRecoveryCode(f, c)
      PROVE  /\ enabled' = enabled /\ secret' = secret /\ codes' \subseteq codes
             /\ shown' = shown /\ proved' = proved /\ challenge' = challenge
  BY <1>4 DEF VerifyTotp, UseCode, Setup, VerifyRecoveryCode, credential, CodesAfterUse
<1>5. ASSUME NEW f \in Flight, Enable(f)
      PROVE  /\ enabled' = enabled /\ secret' = secret /\ codes' = codes
             /\ shown' = shown /\ proved' \subseteq Secret /\ challenge' = challenge
  BY <1>1, <1>5 DEF Enable, ProvedByEnabling
<1>6. ASSUME NEW f \in Flight, NEW s \in Secret, Upsert(f, s)
      PROVE  /\ enabled' = FALSE /\ secret' \in Secret /\ codes' = {}
             /\ shown' \subseteq Secret \cup Code /\ proved' = proved /\ challenge' = challenge
  BY <1>1, <1>6 DEF Upsert
<1>7. ASSUME NEW f \in Flight, NEW new \in SUBSET Code, EnableUpdate(f, new)
      PROVE  /\ enabled' = TRUE /\ secret' = secret /\ codes' \subseteq Code
             /\ shown' \subseteq Secret \cup Code /\ proved' = proved /\ challenge' = challenge
  BY <1>1, <1>7 DEF EnableUpdate
<1>8. CASE \E f \in Flight : CheckPassword(f) \/ GiveUp(f)
  BY <1>1, <1>3, <1>8 DEF credential
<1>9. CASE \E f \in Flight : SecondFactor(f)
  BY <1>1, <1>4, <1>5, <1>6, <1>7, <1>9 DEF SecondFactor
<1>10. QED
  BY <1>2, <1>8, <1>9 DEF SecurityNext

\* Every step sends a request to a step of its own, if any.
LEMMA RequestType ==
  ASSUME SignInInv, [SecurityNext]_securityVars
  PROVE  signIns' \in [Flight -> {Idle} \cup SignInFlights]
<1>1. SecurityTypeOK
  BY DEF SignInInv
<1>2. CASE UNCHANGED securityVars \/ LockRunsOut
  BY <1>1, <1>2 DEF securityVars, LockRunsOut, SecurityTypeOK
<1>3. ASSUME NEW f \in Flight, CheckPassword(f) \/ SecondFactor(f) \/ GiveUp(f)
      PROVE  \E step \in {Idle} \cup SignInFlights : GoOn(f, step)
  <2>1. CASE CheckPassword(f) \/ GiveUp(f)
    BY <1>1, <2>1 DEF CheckPassword, GiveUp, Read, Count, Lock, Clear, Complete, Done, SignInFlights,
                      SecurityTypeOK
  <2>2. CASE SecondFactor(f)
    BY <2>2 DEF SecondFactor, VerifyTotp, UseCode, VerifyRecoveryCode, Setup, Enable, Upsert,
                EnableUpdate, Done, SignInFlights
  <2>3. QED
    BY <1>3, <2>1, <2>2
<1>4. QED
  BY <1>1, <1>2, <1>3, GoesOn DEF SecurityNext

\* Every step keeps the counts, the codes and the types.
LEMMA SignInNext ==
  ASSUME SignInInv, [SecurityNext]_securityVars
  PROVE  SignInInv'
<1>1. SecurityTypeOK /\ CodesCounted
  BY DEF SignInInv
<1>2. CodesCounted'
  <2>1. CASE UNCHANGED securityVars \/ LockRunsOut
    <3>1. codes' = codes /\ shown' = shown /\ uses' = uses /\ signIns' = signIns
      BY <2>1 DEF securityVars, LockRunsOut, credential
    <3>2. codes \subseteq Code /\ codes \subseteq shown
      BY <1>1 DEF SecurityTypeOK, CodesCounted
    <3>3. QED
      BY <1>1, <3>1, <3>2, CodesKept
  <2>2. QED
    BY <2>1, CodesVerify, CodesUse, CodesOfPasswords, CodesOfFactors DEF SecurityNext, SecondFactor
<1>3. uses' \in [Code -> 0..Cardinality(Flight)]
  <2>1. uses' \in [Code -> Nat]
    <3>1. uses \in [Code -> Nat]
      BY <1>1, FewRequests DEF SecurityTypeOK
    <3>2. ASSUME NEW f \in Flight, UseCode(f)
          PROVE  uses' \in [Code -> Nat]
      <4>1. PICK c \in Code : c = signIns[f].code
        BY <1>1, <3>2, CodeOfUse DEF UseCode
      <4>2. uses' = [uses EXCEPT ![c] = @ + 1]
        BY <3>2, <4>1 DEF UseCode
      <4>3. QED
        BY <3>1, <4>2
    <3>3. ASSUME ~\E f \in Flight : UseCode(f)
          PROVE  uses' = uses
      BY <3>3 DEF SecurityNext, securityVars, LockRunsOut, CheckPassword, Read, Count, Lock, Clear, Complete,
                  SecondFactor, VerifyTotp, VerifyRecoveryCode, Setup, Enable, Upsert, EnableUpdate, GiveUp
    <3>4. QED
      BY <3>1, <3>2, <3>3
  <2>2. \A c \in Code : uses'[c] <= Cardinality(Flight)
    <3>1. ASSUME NEW c \in Code
          PROVE  uses'[c] <= Cardinality(Flight)
      <4>1. uses'[c] + Cardinality(UsingCode(c)') <= Cardinality(Flight)
        BY <1>2 DEF CodesCounted
      <4>2. UsingCode(c)' \in SUBSET Flight
        BY DEF UsingCode
      <4>3. Cardinality(UsingCode(c)') \in Nat /\ Cardinality(Flight) \in Nat
        BY <4>2, FewRequests
      <4>4. QED
        BY <2>1, <4>1, <4>3
    <3>2. QED
      BY <3>1
  <2>3. Cardinality(Flight) \in Nat
    BY FewRequests
  <2>4. QED
    BY <2>1, <2>2, <2>3
<1>4. SecurityTypeOK' /\ tries' <= failed'
  BY <1>3, LockoutType, FactorType, RequestType DEF SecurityTypeOK
<1>5. QED
  BY <1>2, <1>4 DEF SignInInv

\* No request, no wrong password, no second factor.
LEMMA SignInInit == SecurityInit => SignInInv
<1> SUFFICES ASSUME SecurityInit PROVE SignInInv
  OBVIOUS
<1>1. Cardinality(Flight) \in Nat
  BY FewRequests
<1>2. SecurityTypeOK /\ tries <= failed
  <2>1. 0 \in 0..MaxFailed /\ 0 \in 0..Cardinality(Flight)
    BY <1>1, AccountSecurityAssumption
  <2>2. failed = 0 /\ tries = 0 /\ locked = FALSE
    BY DEF SecurityInit
  <2>3. uses \in [Code -> 0..Cardinality(Flight)]
    BY <2>1 DEF SecurityInit
  <2>4. /\ enabled = FALSE /\ secret = NoSecret /\ codes = {} /\ shown = {} /\ proved = {}
        /\ challenge = FALSE /\ signIns \in [Flight -> {Idle} \cup SignInFlights]
    BY DEF SecurityInit
  <2>5. tries <= failed
    BY <2>2
  <2>6. QED
    BY <2>1, <2>2, <2>3, <2>4, <2>5 DEF SecurityTypeOK
<1>3. \A c \in Code : UsingCode(c) = {} /\ uses[c] = 0
  BY IdleSignIn DEF SecurityInit, UsingCode
<1>4. CodesCounted
  BY <1>1, <1>3, FS_EmptySet DEF SecurityInit, CodesCounted
<1>5. QED
  BY <1>2, <1>4 DEF SignInInv

\* The counts, the codes and the types hold in every behaviour.
LEMMA SignInHolds == SecuritySpec => []SignInInv
BY SignInInit, SignInNext, PTL DEF SecuritySpec

\* Type correctness of the lockout, the second factor and their requests.
THEOREM SecurityTypeCorrect == SecuritySpec => []SecurityTypeOK
<1>1. SignInInv => SecurityTypeOK
  BY DEF SignInInv
<1>2. QED
  BY <1>1, SignInHolds, PTL

-----------------------------------------------------------------------------
(* The lockout, when no request stops between the count and the lock.      *)

\* While the account is open, whoever counted to the limit is about to lock it; while it is
\* locked, only the requests that read it before can still count.
TriesCounted ==
  /\ ~locked => tries < LockoutAttempts + Cardinality(Locking)
  /\ locked => tries + Cardinality(Counting) < LockoutAttempts + Cardinality(Flight)

\* The numbers the lockout is about.
LEMMA LockoutNumbers ==
  /\ LockoutAttempts \in Nat /\ LockoutAttempts >= 1 /\ Cardinality(Flight) \in Nat
  /\ Counting \in SUBSET Flight /\ Cardinality(Counting) \in Nat
  /\ Locking \in SUBSET Flight /\ Cardinality(Locking) \in Nat
  /\ Cardinality(Counting) + Cardinality(Locking) <= Cardinality(Flight)
<1>1. Counting \in SUBSET Flight /\ Locking \in SUBSET Flight /\ Counting \cap Locking = {}
  BY DEF Counting, Locking
<1>2. IsFiniteSet(Counting) /\ IsFiniteSet(Locking) /\ Cardinality({}) = 0
  BY <1>1, FewRequests, FS_EmptySet
<1>3. Cardinality(Counting \cup Locking)
        = Cardinality(Counting) + Cardinality(Locking) - Cardinality(Counting \cap Locking)
  BY <1>2, FS_Union
<1>4. Cardinality(Counting \cup Locking) <= Cardinality(Flight)
  BY <1>1, FewRequests
<1>5. /\ Cardinality(Counting) \in Nat /\ Cardinality(Locking) \in Nat /\ Cardinality(Flight) \in Nat
      /\ LockoutAttempts \in Nat /\ LockoutAttempts >= 1
  BY <1>1, FewRequests, AccountSecurityAssumption
<1>6. QED
  BY <1>1, <1>2, <1>3, <1>4, <1>5

\* A cleared count is below every limit.
LEMMA ClearedCount ==
  ASSUME tries' = 0, locked' = FALSE
  PROVE  TriesCounted'
<1>1. Locking' \in SUBSET Flight
  BY DEF Locking
<1>2. Cardinality(Locking') \in Nat /\ LockoutAttempts \in Nat /\ LockoutAttempts >= 1
  BY <1>1, FewRequests, AccountSecurityAssumption
<1>3. tries' < LockoutAttempts + Cardinality(Locking')
  BY <1>2
<1>4. QED
  BY <1>3 DEF TriesCounted

\* A wrong password that is counted: at the limit the request goes on to lock the account.
LEMMA CountStep ==
  ASSUME SignInInv, TriesCounted, NEW f \in Flight, Count(f)
  PROVE  TriesCounted'
<1>1. SecurityTypeOK /\ failed \in Nat /\ tries \in Nat /\ tries <= failed
  BY AccountSecurityAssumption DEF SignInInv, SecurityTypeOK
<1>2. locked' = locked /\ tries' = tries + 1 /\ signIns[f].pc = "count"
  BY DEF Count
<1>3. f \in Counting /\ f \notin Locking
  BY <1>2 DEF Counting, Locking
<1>4. CASE locked
  <2>1. Counting' = Counting \ {f}
    <3>1. \A g \in Flight : signIns'[g].pc = "count" <=> signIns[g].pc = "count" /\ g # f
      <4>1. GoOn(f, [pc |-> "lock"]) \/ GoOn(f, Idle)
        BY DEF Count
      <4>2. \A g \in Flight \ {f} : signIns'[g] = signIns[g]
        BY <1>1, <4>1 DEF GoOn, SecurityTypeOK
      <4>3. signIns'[f].pc # "count"
        BY <1>1, <4>1 DEF GoOn, SecurityTypeOK, Idle
      <4>4. QED
        BY <4>2, <4>3
    <3>2. QED
      BY <3>1 DEF Counting
  <2>2. Cardinality(Counting') = Cardinality(Counting) - 1
    BY <1>3, <2>1, LockoutNumbers, OneMore
  <2>3. tries' + Cardinality(Counting') < LockoutAttempts + Cardinality(Flight)
    BY <1>1, <1>2, <1>4, <2>2, LockoutNumbers DEF TriesCounted
  <2>4. QED
    BY <1>2, <1>4, <2>3 DEF TriesCounted
<1>5. CASE ~locked
  <2>1. CASE AtLimit(failed + 1)
    <3>1. signIns' = [signIns EXCEPT ![f] = [pc |-> "lock"]]
      BY <2>1 DEF Count, GoOn
    <3>2. Locking' = Locking \cup {f}
      BY <1>1, <3>1 DEF Locking, SecurityTypeOK
    <3>3. Cardinality(Locking') = Cardinality(Locking) + 1
      BY <1>3, <3>2, LockoutNumbers, OneMore
    <3>4. tries < LockoutAttempts + Cardinality(Locking)
      BY <1>5 DEF TriesCounted
    <3>5. tries' < LockoutAttempts + Cardinality(Locking')
      BY <1>1, <1>2, <3>3, <3>4, LockoutNumbers
    <3>6. QED
      BY <1>2, <1>5, <3>5 DEF TriesCounted
  <2>2. CASE ~AtLimit(failed + 1)
    <3>1. failed + 1 < LockoutAttempts
      BY <1>1, <2>2, LockoutNumbers DEF AtLimit
    <3>2. Locking' \in SUBSET Flight
      BY DEF Locking
    <3>3. Cardinality(Locking') \in Nat
      BY <3>2, FewRequests
    <3>4. tries' < LockoutAttempts + Cardinality(Locking')
      BY <1>1, <1>2, <3>1, <3>3, LockoutNumbers
    <3>5. QED
      BY <1>2, <1>5, <3>4 DEF TriesCounted
  <2>3. QED
    BY <2>1, <2>2
<1>6. QED
  BY <1>4, <1>5

\* The lock, after which nobody starts to count.
LEMMA LockStep ==
  ASSUME SignInInv, TriesCounted, NEW f \in Flight, Lock(f)
  PROVE  TriesCounted'
<1>1. SecurityTypeOK /\ tries \in Nat
  BY AccountSecurityAssumption DEF SignInInv, SecurityTypeOK
<1>2. locked' = TRUE /\ tries' = tries /\ signIns[f].pc = "lock"
  BY DEF Lock
<1>3. signIns' = [signIns EXCEPT ![f] = Idle]
  BY DEF Lock, Done, GoOn
<1>4. Counting' = Counting
  <2>1. Idle.pc # "count"
    BY DEF Idle
  <2>2. QED
    BY <1>1, <1>2, <1>3, <2>1 DEF Counting, SecurityTypeOK
<1>5. tries + Cardinality(Counting) < LockoutAttempts + Cardinality(Flight)
  BY <1>1, LockoutNumbers DEF TriesCounted
<1>6. QED
  BY <1>2, <1>4, <1>5 DEF TriesCounted

\* A sign-in that reads the account while it is open.
LEMMA ReadStep ==
  ASSUME SignInInv, TriesCounted, NEW f \in Flight, Read(f)
  PROVE  TriesCounted'
<1>1. SecurityTypeOK
  BY DEF SignInInv
<1>2. ~locked /\ locked' = locked /\ tries' = tries
  BY DEF Read, lockout
<1>3. signIns[f].pc = "idle"
  BY IdleSignIn DEF Read, Admit
<1>4. Locking' = Locking
  <2>1. \A g \in Flight \ {f} : signIns'[g] = signIns[g]
    BY <1>1 DEF Read, GoOn, SecurityTypeOK
  <2>2. signIns'[f].pc # "lock"
    BY <1>1 DEF Read, GoOn, SecurityTypeOK
  <2>3. QED
    BY <1>3, <2>1, <2>2 DEF Locking
<1>5. QED
  BY <1>2, <1>4 DEF TriesCounted

\* The second factor counts nothing, and locks nothing.
LEMMA FactorStep ==
  ASSUME SignInInv, TriesCounted, NEW f \in Flight, SecondFactor(f)
  PROVE  TriesCounted'
<1>1. SecurityTypeOK
  BY DEF SignInInv
<1>2. locked' = locked /\ tries' = tries
  BY DEF SecondFactor, VerifyTotp, UseCode, VerifyRecoveryCode, Setup, Enable, Upsert, EnableUpdate, lockout
<1>3. \E step : GoOn(f, step) /\ step.pc \notin {"count", "lock"}
  <2>1. \E step : GoOn(f, step) /\ (step = Idle \/ step.pc \in {"complete", "use", "setup", "enable"})
    <3>1. ASSUME NEW c \in Code, VerifyRecoveryCode(f, c)
          PROVE  GoOn(f, [pc |-> "use", code |-> c])
      BY <3>1 DEF VerifyRecoveryCode
    <3>2. CASE VerifyTotp(f) \/ UseCode(f) \/ Setup(f) \/ Enable(f)
      BY <3>2 DEF VerifyTotp, UseCode, Setup, Enable
    <3>3. CASE (\E s \in Secret : Upsert(f, s)) \/ \E new \in SUBSET Code \ {{}} : EnableUpdate(f, new)
      BY <3>3 DEF Upsert, EnableUpdate, Done
    <3>4. CASE \E c \in Code : VerifyRecoveryCode(f, c)
      <4>1. PICK c \in Code : GoOn(f, [pc |-> "use", code |-> c])
        BY <3>1, <3>4
      <4>2. [pc |-> "use", code |-> c].pc = "use"
        OBVIOUS
      <4>3. QED
        BY <4>1, <4>2
    <3>5. QED
      BY <3>2, <3>3, <3>4 DEF SecondFactor
  <2>2. QED
    BY <2>1 DEF Idle
<1>4. signIns[f].pc \notin {"count", "lock"}
  BY IdleSignIn DEF SecondFactor, VerifyTotp, UseCode, VerifyRecoveryCode, Setup, Enable, Upsert,
                    EnableUpdate, Admit
<1>5. \A g \in Flight : /\ signIns'[g].pc = "count" <=> signIns[g].pc = "count"
                        /\ signIns'[g].pc = "lock" <=> signIns[g].pc = "lock"
  BY <1>1, <1>3, <1>4 DEF GoOn, SecurityTypeOK
<1>6. Counting' = Counting /\ Locking' = Locking
  BY <1>5 DEF Counting, Locking
<1>7. QED
  BY <1>2, <1>6 DEF TriesCounted

\* Every step keeps the count of the tries, when no request stops.
LEMMA TriesNext ==
  ASSUME SignInInv, TriesCounted, ~MayStop, [SecurityNext]_securityVars
  PROVE  TriesCounted'
<1>1. CASE UNCHANGED securityVars
  BY <1>1 DEF securityVars, TriesCounted, Counting, Locking
<1>2. CASE LockRunsOut
  BY <1>2, ClearedCount DEF LockRunsOut
<1>3. ASSUME NEW f \in Flight, CheckPassword(f)
      PROVE  TriesCounted'
  <2>1. CASE Clear(f) \/ Complete(f)
    BY <2>1, ClearedCount DEF Clear, Complete
  <2>2. QED
    BY <1>3, <2>1, CountStep, LockStep, ReadStep DEF CheckPassword
<1>4. QED
  BY <1>1, <1>2, <1>3, FactorStep DEF SecurityNext, GiveUp

\* login: sign-ins that interleave put the lock off by one wrong password each at most, as
\* long as none stops between the count and the lock.
THEOREM TriesAreBoundedHolds ==
  ASSUME ~MayStop
  PROVE  SecuritySpec => []TriesAreBounded
<1>1. SecurityInit => TriesCounted
  <2> SUFFICES ASSUME SecurityInit PROVE TriesCounted
    OBVIOUS
  <2>1. tries = 0 /\ locked = FALSE
    BY DEF SecurityInit
  <2>2. tries < LockoutAttempts + Cardinality(Locking)
    BY <2>1, LockoutNumbers
  <2>3. QED
    BY <2>1, <2>2 DEF TriesCounted
<1>2. SignInInv /\ TriesCounted => TriesAreBounded
  <2>1. ASSUME SignInInv, TriesCounted
        PROVE  tries < LockoutAttempts + Cardinality(Flight)
    <3>1. tries \in Nat
      BY <2>1, AccountSecurityAssumption DEF SignInInv, SecurityTypeOK
    <3>2. CASE locked
      BY <2>1, <3>1, <3>2, LockoutNumbers DEF TriesCounted
    <3>3. CASE ~locked
      BY <2>1, <3>1, <3>3, LockoutNumbers DEF TriesCounted
    <3>4. QED
      BY <3>2, <3>3
  <2>2. QED
    BY <2>1 DEF TriesAreBounded
<1>3. SignInInv /\ TriesCounted /\ [SecurityNext]_securityVars => TriesCounted'
  BY TriesNext
<1>4. QED
  BY <1>1, <1>2, <1>3, SignInHolds, PTL DEF SecuritySpec

-----------------------------------------------------------------------------
(* The second factor, one request at a time, which may stop anywhere.      *)

OneSignIn == \A f, g \in Flight : signIns[f] # Idle /\ signIns[g] # Idle => f = g

\* What a request has read stays true until it acts on it.
ReadsHold ==
  /\ \A c \in Code : uses[c] <= 1
  /\ enabled => secret \in proved
  /\ \A f \in Flight :
       /\ signIns[f].pc = "use" => uses[signIns[f].code] = 0
       /\ signIns[f].pc = "setup" => ~enabled
       /\ signIns[f].pc = "enable" => secret \in proved

\* While one request takes a step, the others are idle.
LEMMA AloneSigningIn ==
  ASSUME SecurityTypeOK, OneSignIn, CoordinatorSerializes, NEW f \in Flight,
         CheckPassword(f) \/ SecondFactor(f) \/ GiveUp(f)
  PROVE  \A g \in Flight \ {f} : signIns[g] = Idle /\ signIns'[g] = Idle
<1>1. (\A g \in Flight : signIns[g] = Idle) \/ signIns[f] # Idle
  <2>1. CASE signIns[f].pc # "idle" \/ GiveUp(f)
    BY <2>1, IdleSignIn DEF GiveUp
  <2>2. CASE Admit(f)
    BY <2>2 DEF Admit
  <2>3. QED
    BY <2>1, <2>2 DEF CheckPassword, SecondFactor, Read, Count, Lock, Clear, Complete, VerifyTotp, UseCode,
                      VerifyRecoveryCode, Setup, Enable, Upsert, EnableUpdate
<1>2. \A g \in Flight \ {f} : signIns[g] = Idle
  BY <1>1 DEF OneSignIn
<1>3. \E step : GoOn(f, step)
  BY DEF CheckPassword, SecondFactor, Read, Count, Lock, Clear, Complete, VerifyTotp, UseCode,
         VerifyRecoveryCode, Setup, Enable, Upsert, EnableUpdate, GiveUp, Done
<1>4. QED
  BY <1>2, <1>3 DEF GoOn, SecurityTypeOK

\* A step after which the one request in flight holds on to nothing it has read.
LEMMA ReadsForgotten ==
  ASSUME NEW f \in Flight, \A g \in Flight \ {f} : signIns'[g] = Idle,
         signIns'[f].pc \notin {"use", "setup", "enable"},
         \A c \in Code : uses'[c] <= 1, enabled' => secret' \in proved'
  PROVE  ReadsHold'
<1>1. \A g \in Flight : signIns'[g].pc \notin {"use", "setup", "enable"}
  <2>1. \A g \in Flight \ {f} : signIns'[g].pc = "idle"
    BY IdleSignIn
  <2>2. QED
    BY <2>1
<1>2. QED
  BY <1>1 DEF ReadsHold

\* login, completeLogin, and requests that stop.
LEMMA ReadsPasswords ==
  ASSUME SignInInv, ReadsHold, OneSignIn, CoordinatorSerializes, NEW f \in Flight,
         CheckPassword(f) \/ GiveUp(f)
  PROVE  ReadsHold'
<1>1. SecurityTypeOK
  BY DEF SignInInv
<1>2. \A g \in Flight \ {f} : signIns'[g] = Idle
  BY <1>1, AloneSigningIn
<1>3. signIns'[f].pc \notin {"use", "setup", "enable"}
  <2>1. \E step : GoOn(f, step) /\ (step = Idle \/ step.pc \in {"count", "lock", "complete", "clear"})
    BY DEF CheckPassword, GiveUp, Read, Count, Lock, Clear, Complete, Done
  <2>2. QED
    BY <1>1, <2>1 DEF GoOn, SecurityTypeOK, Idle
<1>4. uses' = uses /\ UNCHANGED credential
  BY DEF CheckPassword, GiveUp, Read, Count, Lock, Clear, Complete
<1>5. (\A c \in Code : uses'[c] <= 1) /\ (enabled' => secret' \in proved')
  BY <1>4 DEF ReadsHold, credential
<1>6. QED
  BY <1>2, <1>3, <1>5, ReadsForgotten

\* verifyMfaLoginV2: a code that is left has completed no sign-in, and its use completes one.
LEMMA ReadsVerify ==
  ASSUME SignInInv, ReadsHold, OneSignIn, CoordinatorSerializes, NEW f \in Flight,
         VerifyTotp(f) \/ UseCode(f) \/ \E c \in Code : VerifyRecoveryCode(f, c)
  PROVE  ReadsHold'
<1>1. SecurityTypeOK
  BY DEF SignInInv
<1>2. \A g \in Flight \ {f} : signIns'[g] = Idle
  BY <1>1, AloneSigningIn DEF SecondFactor
<1>3. CASE VerifyTotp(f)
  <2>1. signIns'[f].pc = "complete"
    BY <1>1, <1>3 DEF VerifyTotp, GoOn, SecurityTypeOK
  <2>2. uses' = uses /\ enabled' = enabled /\ secret' = secret /\ proved' = proved
    BY <1>3 DEF VerifyTotp, credential
  <2>3. (\A c \in Code : uses'[c] <= 1) /\ (enabled' => secret' \in proved')
    BY <2>2 DEF ReadsHold
  <2>4. QED
    BY <1>2, <2>1, <2>3, ReadsForgotten
<1>4. CASE UseCode(f)
  <2>1. signIns'[f].pc = "complete" /\ signIns[f].pc = "use"
    BY <1>1, <1>4 DEF UseCode, GoOn, SecurityTypeOK
  <2>2. PICK c \in Code : c = signIns[f].code
    BY <1>1, <2>1, CodeOfUse
  <2>3. uses' = [uses EXCEPT ![c] = @ + 1] /\ uses[c] = 0
    BY <1>4, <2>1, <2>2 DEF UseCode, ReadsHold
  <2>4. \A d \in Code : uses'[d] <= 1
    BY <1>1, <2>3 DEF ReadsHold, SecurityTypeOK
  <2>5. enabled' => secret' \in proved'
    BY <1>4 DEF UseCode, ReadsHold
  <2>6. QED
    BY <1>2, <2>1, <2>4, <2>5, ReadsForgotten
<1>5. ASSUME NEW c \in Code, VerifyRecoveryCode(f, c)
      PROVE  ReadsHold'
  <2>1. signIns'[f].pc = "use" /\ signIns'[f].code = c
    BY <1>1, <1>5 DEF VerifyRecoveryCode, GoOn, SecurityTypeOK
  <2>2. uses' = uses /\ enabled' = enabled /\ secret' = secret /\ proved' = proved /\ c \in codes
    BY <1>5 DEF VerifyRecoveryCode, credential
  <2>3. uses'[c] = 0
    BY <2>2 DEF SignInInv, CodesCounted
  <2>4. \A g \in Flight \ {f} : signIns'[g].pc = "idle"
    BY <1>2, IdleSignIn
  <2>5. (\A d \in Code : uses'[d] <= 1) /\ (enabled' => secret' \in proved')
    BY <2>2 DEF ReadsHold
  <2>6. QED
    BY <2>1, <2>3, <2>4, <2>5 DEF ReadsHold
<1>6. QED
  BY <1>3, <1>4, <1>5

\* setupMfaV2 and enableMfaV2: the secret that was proved is the one that is enabled.
LEMMA ReadsSetUp ==
  ASSUME SignInInv, ReadsHold, OneSignIn, CoordinatorSerializes, NEW f \in Flight,
         \/ Setup(f) \/ Enable(f)
         \/ \E s \in Secret : Upsert(f, s)
         \/ \E new \in SUBSET Code \ {{}} : EnableUpdate(f, new)
  PROVE  ReadsHold' /\ (enabled => enabled')
<1>1. SecurityTypeOK
  BY DEF SignInInv
<1>2. \A g \in Flight \ {f} : signIns'[g] = Idle
  BY <1>1, AloneSigningIn DEF SecondFactor
<1>3. \A g \in Flight \ {f} : signIns'[g].pc = "idle"
  BY <1>2, IdleSignIn
<1>4. \A c \in Code : uses'[c] <= 1
  BY DEF ReadsHold, Setup, Enable, Upsert, EnableUpdate
<1>5. CASE Setup(f)
  <2>1. signIns'[f].pc = "setup"
    BY <1>1, <1>5 DEF Setup, GoOn, SecurityTypeOK
  <2>2. ~enabled /\ enabled' = enabled
    BY <1>5 DEF Setup, MaySetUp, credential
  <2>3. QED
    BY <1>3, <1>4, <2>1, <2>2 DEF ReadsHold
<1>6. CASE Enable(f)
  <2>1. signIns'[f].pc = "enable"
    BY <1>1, <1>6 DEF Enable, GoOn, SecurityTypeOK
  <2>2. secret' = secret /\ enabled' = enabled /\ secret' \in proved'
    BY <1>6 DEF Enable, ProvedByEnabling
  <2>3. QED
    BY <1>3, <1>4, <2>1, <2>2 DEF ReadsHold
<1>7. ASSUME NEW s \in Secret, Upsert(f, s)
      PROVE  ReadsHold' /\ (enabled => enabled')
  <2>1. enabled' = FALSE /\ signIns[f].pc = "setup"
    BY <1>7 DEF Upsert
  <2>2. ~enabled
    BY <2>1 DEF ReadsHold
  <2>3. signIns'[f].pc = "idle"
    BY <1>1, <1>7, IdleSignIn DEF Upsert, Done, GoOn, SecurityTypeOK
  <2>4. QED
    BY <1>2, <1>4, <2>1, <2>2, <2>3, ReadsForgotten
<1>8. ASSUME NEW new \in SUBSET Code, EnableUpdate(f, new)
      PROVE  ReadsHold' /\ (enabled => enabled')
  <2>1. enabled' = TRUE /\ secret' = secret /\ proved' = proved /\ signIns[f].pc = "enable"
    BY <1>8 DEF EnableUpdate
  <2>2. secret \in proved
    BY <2>1 DEF ReadsHold
  <2>3. signIns'[f].pc = "idle"
    BY <1>1, <1>8, IdleSignIn DEF EnableUpdate, Done, GoOn, SecurityTypeOK
  <2>4. QED
    BY <1>2, <1>4, <2>1, <2>2, <2>3, ReadsForgotten
<1>9. QED
  BY <1>5, <1>6, <1>7, <1>8

\* Every step keeps one request in flight, and what it has read; none disables.
LEMMA ReadsNext ==
  ASSUME SignInInv, ReadsHold, OneSignIn, CoordinatorSerializes, [SecurityNext]_securityVars
  PROVE  ReadsHold' /\ OneSignIn' /\ (enabled => enabled')
<1>1. SecurityTypeOK
  BY DEF SignInInv
<1>2. CASE UNCHANGED securityVars \/ LockRunsOut
  <2>1. signIns' = signIns /\ uses' = uses /\ enabled' = enabled /\ secret' = secret /\ proved' = proved
    BY <1>2 DEF securityVars, LockRunsOut, credential
  <2>2. QED
    BY <2>1 DEF ReadsHold, OneSignIn
<1>3. ASSUME NEW f \in Flight, CheckPassword(f) \/ SecondFactor(f) \/ GiveUp(f)
      PROVE  ReadsHold' /\ OneSignIn' /\ (enabled => enabled')
  <2>1. \A g \in Flight \ {f} : signIns'[g] = Idle
    BY <1>1, <1>3, AloneSigningIn
  <2>2. OneSignIn'
    BY <2>1 DEF OneSignIn
  <2>3. CASE CheckPassword(f) \/ GiveUp(f)
    <3>1. UNCHANGED credential
      BY <2>3 DEF CheckPassword, GiveUp, Read, Count, Lock, Clear, Complete
    <3>2. enabled' = enabled
      BY <3>1 DEF credential
    <3>3. QED
      BY <2>2, <2>3, <3>2, ReadsPasswords
  <2>4. CASE VerifyTotp(f) \/ UseCode(f) \/ \E c \in Code : VerifyRecoveryCode(f, c)
    <3>1. enabled' = enabled
      BY <2>4 DEF VerifyTotp, UseCode, VerifyRecoveryCode, credential
    <3>2. QED
      BY <2>2, <2>4, <3>1, ReadsVerify
  <2>5. QED
    BY <1>3, <2>2, <2>3, <2>4, ReadsSetUp DEF SecondFactor
<1>4. QED
  BY <1>2, <1>3 DEF SecurityNext

\* One request in flight, and what it has read, in every behaviour.
LEMMA ReadsInvariant ==
  ASSUME CoordinatorSerializes
  PROVE  SecuritySpec => [](ReadsHold /\ OneSignIn)
<1>1. SecurityInit => ReadsHold /\ OneSignIn
  <2> SUFFICES ASSUME SecurityInit PROVE ReadsHold /\ OneSignIn
    OBVIOUS
  <2>1. \A f \in Flight : signIns[f] = Idle /\ signIns[f].pc = "idle"
    BY IdleSignIn DEF SecurityInit
  <2>2. enabled = FALSE /\ \A c \in Code : uses[c] <= 1
    BY DEF SecurityInit
  <2>3. QED
    BY <2>1, <2>2 DEF ReadsHold, OneSignIn
<1>2. SignInInv /\ ReadsHold /\ OneSignIn /\ [SecurityNext]_securityVars => ReadsHold' /\ OneSignIn'
  BY ReadsNext
<1>3. QED
  BY <1>1, <1>2, SignInHolds, PTL DEF SecuritySpec

\* verifyMfaLoginV2: a recovery code completes one sign-in, though requests stop half-way.
THEOREM CodesAreOneTimeHolds ==
  ASSUME CoordinatorSerializes
  PROVE  SecuritySpec => []CodesAreOneTime
<1>1. ReadsHold => CodesAreOneTime
  BY DEF ReadsHold, CodesAreOneTime
<1>2. QED
  BY <1>1, ReadsInvariant, PTL

\* enableMfaV2: sign-ins ask only for the code of a secret the user has shown to have.
THEOREM EnabledIsProvedHolds ==
  ASSUME CoordinatorSerializes
  PROVE  SecuritySpec => []EnabledIsProved
<1>1. ReadsHold => EnabledIsProved
  BY DEF ReadsHold, EnabledIsProved
<1>2. QED
  BY <1>1, ReadsInvariant, PTL

\* setupMfaV2 never disables a second factor that is enabled.
THEOREM EnabledStaysHolds ==
  ASSUME CoordinatorSerializes
  PROVE  SecuritySpec => EnabledStays
<1>1. SignInInv /\ ReadsHold /\ OneSignIn /\ [SecurityNext]_securityVars
        => [enabled => enabled']_securityVars
  BY ReadsNext
<1>2. QED
  BY <1>1, SignInHolds, ReadsInvariant, PTL DEF SecuritySpec, EnabledStays

\* auth-v2.controller.ts guards a sign-in: the lockout, the recovery codes and the second
\* factor hold together, for requests handled one at a time and to their end.
THEOREM SignInsAreGuardedHolds ==
  ASSUME CoordinatorSerializes, ~MayStop
  PROVE  SecuritySpec => []SignInsAreGuarded
<1>1. SecurityTypeOK /\ TriesAreBounded /\ CodesAreOneTime /\ EnabledIsProved => SignInsAreGuarded
  BY DEF SignInsAreGuarded
<1>2. QED
  BY <1>1, SecurityTypeCorrect, TriesAreBoundedHolds, CodesAreOneTimeHolds, EnabledIsProvedHolds, PTL

-----------------------------------------------------------------------------
(* The browser.                                                            *)

\* What the network does with the request of r: it becomes q.
LEMMA Becomes ==
  ASSUME ClientTypeOK, NEW r \in Flight, NEW q \in Request \cup {None}, request' = [request EXCEPT ![r] = q]
  PROVE  /\ request' \in [Flight -> Request \cup {None}]
         /\ request'[r] = q /\ \A g \in Flight : g # r => request'[g] = request[g]
<1> DEFINE T == Request \cup {None}
<1>1. request \in [Flight -> T]
  BY DEF ClientTypeOK
<1> HIDE DEF T
<1>2. q \in T
  BY DEF T
<1>3. request' \in [Flight -> T] /\ request'[r] = q /\ \A g \in Flight : g # r => request'[g] = request[g]
  BY <1>1, <1>2
<1>4. QED
  BY <1>3 DEF T

\* A request is sent with the cookie of that moment.
LEMMA Sent ==
  ASSUME ClientTypeOK, NEW r \in Flight, NEW t \in Tab, NEW kind \in {"login", "refresh", "logout"},
         Fetch(r, t, kind)
  PROVE  \E q \in Request :
           /\ q.at = "sent" /\ q.kind = kind /\ q.tab = t /\ q.session = cookie
           /\ request' = [request EXCEPT ![r] = q]
<1> DEFINE q == [at |-> "sent", kind |-> kind, tab |-> t, session |-> cookie]
<1>1. q \in Request
  BY DEF ClientTypeOK, Request
<1>2. q.at = "sent" /\ q.kind = kind /\ q.tab = t /\ q.session = cookie
  OBVIOUS
<1>3. request' = [request EXCEPT ![r] = q]
  BY DEF Fetch
<1> HIDE DEF q
<1>4. QED
  BY <1>1, <1>2, <1>3

\* A request on the network has its fields.
LEMMA OnNetwork ==
  ASSUME ClientTypeOK, NEW r \in Flight, request[r].at # "none"
  PROVE  request[r] \in Request /\ request[r] # None
BY DEF ClientTypeOK, None

\* It moves on, or is answered at once.
LEMMA Arrives ==
  ASSUME ClientTypeOK, NEW r \in Flight, request[r].at # "none", NEW place \in {"server", "answered"},
         At(r, place)
  PROVE  \E q \in Request :
           /\ q.at = place /\ q.kind = request[r].kind /\ q.tab = request[r].tab
           /\ q.session = request[r].session
           /\ request' = [request EXCEPT ![r] = q]
<1> DEFINE q == [request[r] EXCEPT !.at = place]
<1>1. /\ q \in Request
      /\ q.at = place /\ q.kind = request[r].kind /\ q.tab = request[r].tab
      /\ q.session = request[r].session
  BY OnNetwork DEF Request
<1>2. request' = [request EXCEPT ![r] = q]
  BY DEF At
<1> HIDE DEF q
<1>3. QED
  BY <1>1, <1>2

\* It is answered with a session or without one.
LEMMA Answers ==
  ASSUME ClientTypeOK, NEW r \in Flight, request[r].at # "none", NEW s \in Session \cup {NoSession},
         request' = [request EXCEPT ![r].at = "answered", ![r].session = s]
  PROVE  \E q \in Request :
           /\ q.at = "answered" /\ q.kind = request[r].kind /\ q.tab = request[r].tab /\ q.session = s
           /\ request' = [request EXCEPT ![r] = q]
<1> DEFINE q == [request[r] EXCEPT !.at = "answered", !.session = s]
<1>1. /\ q \in Request
      /\ q.at = "answered" /\ q.kind = request[r].kind /\ q.tab = request[r].tab /\ q.session = s
  BY OnNetwork DEF Request
<1>2. request' = [request EXCEPT ![r] = q]
  BY DEF ClientTypeOK
<1> HIDE DEF q
<1>3. QED
  BY <1>1, <1>2

\* What the server does for a browser is a step of AuthSessions.
LEMMA ServerStep ==
  ASSUME ClientTypeOK, [ClientNext]_allVars
  PROVE  [Next]_vars
<1>1. CASE UNCHANGED vars
  BY <1>1
<1>2. ASSUME NEW r \in Flight, Arrive(r), ~UNCHANGED vars
      PROVE  \E f \in Flight : Handle(f)
  <2>1. CASE request[r].kind = "login"
    BY <1>2, <2>1 DEF Arrive, Handle
  <2>2. CASE request[r].kind # "login"
    <3>1. PICK s : s = request[r].session
      OBVIOUS
    <3>2. s \in Session
      <4>1. request[r] \in Request
        BY <1>2, OnNetwork DEF Arrive
      <4>2. s \in Session \cup {NoSession} /\ s # NoSession
        BY <1>2, <2>2, <3>1, <4>1 DEF Arrive, Request
      <4>3. QED
        BY <4>2
    <3>3. Refresh(r, s) \/ End(r, s)
      BY <1>2, <2>2, <3>1 DEF Arrive
    <3>4. QED
      BY <3>2, <3>3 DEF Handle
  <2>3. QED
    BY <2>1, <2>2
<1>3. ASSUME NEW r \in Flight, Serve(r) \/ Answer(r)
      PROVE  \E f \in Flight : Handle(f)
  BY <1>3 DEF Serve, Answer, Handle
<1>4. ASSUME NEW r \in Flight,
             \/ \E t \in Tab : SignIn(r, t) \/ refreshAccessToken(r, t) \/ SignOut(r, t) \/ Refused(t)
             \/ Receive(r) \/ Lose(r)
      PROVE  UNCHANGED vars
  BY <1>4 DEF SignIn, refreshAccessToken, SignOut, Refused, Receive, Lose
<1>5. QED
  BY <1>1, <1>2, <1>3, <1>4 DEF ClientNext, allVars, Next

\* Every step keeps the types of the browser.
LEMMA ClientTypeNext ==
  ASSUME Inv, ClientTypeOK, [ClientNext]_allVars
  PROVE  ClientTypeOK'
<1>1. TypeOK'
  BY ServerStep, InvNext DEF Inv
<1>2. ASSUME UNCHANGED <<cookie, signedIn, leaving, token>>, request' \in [Flight -> Request \cup {None}]
      PROVE  ClientTypeOK'
  BY <1>1, <1>2 DEF ClientTypeOK
<1>3. CASE UNCHANGED allVars
  BY <1>1, <1>3 DEF allVars, clientVars, ClientTypeOK
<1>4. ASSUME NEW r \in Flight, NEW t \in Tab, SignIn(r, t) \/ refreshAccessToken(r, t) \/ SignOut(r, t)
      PROVE  ClientTypeOK'
  <2>1. PICK kind \in {"login", "refresh", "logout"} : Fetch(r, t, kind)
    BY <1>4 DEF SignIn, refreshAccessToken, SignOut
  <2>2. request' \in [Flight -> Request \cup {None}]
    <3>1. PICK q \in Request : request' = [request EXCEPT ![r] = q]
      BY <2>1, Sent
    <3>2. QED
      BY <3>1, Becomes
  <2>3. leaving' \in BOOLEAN /\ UNCHANGED <<cookie, signedIn, token>>
    BY <1>4 DEF SignIn, refreshAccessToken, SignOut, ClientTypeOK
  <2>4. QED
    BY <1>1, <2>2, <2>3 DEF ClientTypeOK
<1>5. ASSUME NEW r \in Flight, Arrive(r)
      PROVE  ClientTypeOK'
  <2>1. request[r].at # "none" /\ UNCHANGED <<cookie, signedIn, leaving, token>>
    BY <1>5 DEF Arrive
  <2>2. ASSUME NEW place \in {"server", "answered"}, At(r, place)
        PROVE  ClientTypeOK'
    <3>1. PICK q \in Request : request' = [request EXCEPT ![r] = q]
      BY <2>1, <2>2, Arrives
    <3>2. QED
      BY <1>2, <2>1, <3>1, Becomes
  <2>3. CASE request' = [request EXCEPT ![r].at = "answered", ![r].session = NoSession]
    <3>1. PICK q \in Request : request' = [request EXCEPT ![r] = q]
      BY <2>1, <2>3, Answers
    <3>2. QED
      BY <1>2, <2>1, <3>1, Becomes
  <2>4. QED
    BY <1>5, <2>2, <2>3 DEF Arrive
<1>6. ASSUME NEW r \in Flight, Serve(r)
      PROVE  ClientTypeOK'
  BY <1>1, <1>6 DEF Serve, clientVars, ClientTypeOK
<1>7. ASSUME NEW r \in Flight, Answer(r)
      PROVE  ClientTypeOK'
  <2>1. request[r].at # "none" /\ flight[r].pc = "respond" /\ UNCHANGED <<cookie, signedIn, leaving, token>>
    BY <1>7 DEF Answer, Respond
  <2>2. PICK s : s = flight[r].session
    OBVIOUS
  <2>3. s \in Session \cup {NoSession}
    BY <2>1, <2>2, Kinds DEF Inv
  <2>4. request' = [request EXCEPT ![r].at = "answered", ![r].session = s]
    BY <1>7, <2>2 DEF Answer
  <2>5. ASSUME NEW a \in Session \cup {NoSession},
               request' = [request EXCEPT ![r].at = "answered", ![r].session = a]
        PROVE  ClientTypeOK'
    <3>1. PICK q \in Request :
             /\ q.at = "answered" /\ q.kind = request[r].kind /\ q.tab = request[r].tab /\ q.session = a
             /\ request' = [request EXCEPT ![r] = q]
      BY <2>1, <2>5, Answers
    <3>2. QED
      BY <1>2, <2>1, <3>1, Becomes
  <2>6. QED
    BY <2>3, <2>4, <2>5
<1>8. ASSUME NEW r \in Flight, Receive(r) \/ Lose(r)
      PROVE  ClientTypeOK'
  <2>1. request' \in [Flight -> Request \cup {None}]
    BY <1>8, Becomes DEF Receive, Lose
  <2>2. request[r].session \in Session \cup {NoSession} /\ NoSession \in Session \cup {NoSession}
    <3>1. request[r].at # "none"
      BY <1>8 DEF Receive, Lose
    <3>2. QED
      BY <3>1, OnNetwork DEF Request
  <2>3. token' \in [Tab -> Session \cup {NoSession}] /\ cookie' \in Session \cup {NoSession}
    <3>1. token' = token \/ \E t, s : s \in Session \cup {NoSession} /\ token' = [token EXCEPT ![t] = s]
      BY <1>8, <2>2 DEF Receive, Lose
    <3>2. cookie' \in Session \cup {NoSession}
      BY <1>8, <2>2 DEF Receive, Lose, ClientTypeOK
    <3>3. token' \in [Tab -> Session \cup {NoSession}]
      BY <3>1 DEF ClientTypeOK
    <3>4. QED
      BY <3>2, <3>3
  <2>4. signedIn' \in BOOLEAN /\ leaving' \in BOOLEAN
    <3>1. leaving' \in BOOLEAN
      BY <1>8 DEF Receive, Lose, ClientTypeOK
    <3>2. signedIn' \in BOOLEAN
      BY <1>8 DEF Receive, Lose, ClientTypeOK
    <3>3. QED
      BY <3>1, <3>2
  <2>5. QED
    BY <1>1, <2>1, <2>3, <2>4 DEF ClientTypeOK
<1>9. ASSUME NEW t \in Tab, Refused(t)
      PROVE  ClientTypeOK'
  <2>1. token' = [token EXCEPT ![t] = NoSession] /\ token \in [Tab -> Session \cup {NoSession}]
    BY <1>9 DEF Refused, ClientTypeOK
  <2>2. token' \in [Tab -> Session \cup {NoSession}]
    BY <2>1
  <2>3. QED
    BY <1>1, <1>9, <2>2 DEF Refused, ClientTypeOK
<1>10. QED
  BY <1>3, <1>4, <1>5, <1>6, <1>7, <1>8, <1>9 DEF ClientNext

\* Nothing keeps the token of s from working.
Works(s) == s \in known /\ Live(s)

\* A request is on the server exactly while it is in flight there.
Served == \A r \in Flight : flight[r] # Idle <=> request[r].at = "server"

\* A sign-in or a refresh of the browser's cookie, on its way to an answer with a session.
OnTheWay(r) ==
  /\ request[r].kind = (IF signedIn THEN "refresh" ELSE "login")
  /\ request[r].at = "sent" /\ signedIn => request[r].session = cookie /\ Works(cookie)
  /\ request[r].at = "server" =>
       \/ flight[r].pc = "login"
       \/ flight[r].pc = "rotate" /\ Works(flight[r].session)
       \/ flight[r].pc = "respond" /\ flight[r].session \in Session /\ Live(flight[r].session)
  /\ request[r].at = "answered" => Works(request[r].session)

\* Nothing is waited for.
Answered == \A r \in Flight : request[r] = None

\* Unless the user is about to sign out, one request is on its way, or the cookie works.
TabInv ==
  /\ access /\ expired = {} /\ Served
  /\ \A r \in Flight : request[r] # None => request[r].tab = t1
  /\ ~leaving =>
       /\ \A q, r \in Flight : request[q] # None /\ request[r] # None => q = r
       /\ \A r \in Flight : request[r] # None => OnTheWay(r)
       /\ signedIn /\ Answered => Works(cookie)

\* A step of the request r alone.
LEMMA TabStep ==
  ASSUME TabInv, NEW r \in Flight, access' = access, expired' = expired,
         \A g \in Flight : g # r => request'[g] = request[g] /\ flight'[g] = flight[g],
         flight'[r] # Idle <=> request'[r].at = "server",
         request'[r] # None => request'[r].tab = t1,
         ~leaving' => /\ \A g \in Flight : g # r => request[g] = None
                      /\ request'[r] # None => OnTheWay(r)'
                      /\ signedIn' /\ request'[r] = None => Works(cookie)'
  PROVE  TabInv'
<1>1. \A g \in Flight : flight'[g] # Idle <=> request'[g].at = "server"
  BY DEF TabInv, Served
<1>2. \A g \in Flight : request'[g] # None => request'[g].tab = t1
  BY DEF TabInv
<1>3. ASSUME ~leaving'
      PROVE  /\ \A g, h \in Flight : request'[g] # None /\ request'[h] # None => g = h
             /\ \A g \in Flight : request'[g] # None => OnTheWay(g)'
             /\ signedIn' /\ Answered' => Works(cookie)'
  <2>1. \A g \in Flight : g # r => request'[g] = None
    BY <1>3
  <2>2. QED
    BY <1>3, <2>1 DEF Answered
<1>4. QED
  BY <1>1, <1>2, <1>3 DEF TabInv, Served

\* While the user stays, a request that is there is the only one and on its way.
LEMMA TabOne ==
  ASSUME TabInv, ~leaving, NEW r \in Flight, request[r] # None
  PROVE  OnTheWay(r) /\ \A g \in Flight : g # r => request[g] = None
BY DEF TabInv

\* What the page asks for is the only request, unless the user signs out.
LEMMA TabActs ==
  ASSUME ClientTypeOK, TabInv, NEW r \in Flight,
         SignIn(r, t1) \/ refreshAccessToken(r, t1) \/ SignOut(r, t1)
  PROVE  TabInv'
<1>1. UNCHANGED vars /\ UNCHANGED <<cookie, signedIn>>
  BY DEF SignIn, refreshAccessToken, SignOut
<1>2. ASSUME NEW kind \in {"login", "refresh", "logout"}, Fetch(r, t1, kind),
             ~leaving' => /\ Answered
                          /\ kind = (IF signedIn THEN "refresh" ELSE "login")
                          /\ signedIn => Works(cookie)
      PROVE  TabInv'
  <2>1. PICK q \in Request : /\ q.at = "sent" /\ q.kind = kind /\ q.tab = t1 /\ q.session = cookie
                             /\ request' = [request EXCEPT ![r] = q]
    BY <1>2, OneTabAssumption, Sent
  <2>2. request'[r] = q /\ \A g \in Flight : g # r => request'[g] = request[g]
    BY <2>1, Becomes
  <2>3. request[r] = None /\ None.at = "none" /\ flight' = flight
    BY <1>1, <1>2 DEF Fetch, None, vars
  <2>4. flight'[r] = Idle
    BY <2>3 DEF TabInv, Served
  <2>5. q # None
    BY <2>1, <2>3
  <2>6. ~leaving' => OnTheWay(r)'
    BY <1>1, <1>2, <2>1, <2>2 DEF vars, OnTheWay, Works, Live
  <2>7. access' = access /\ expired' = expired
    BY <1>1 DEF vars
  <2>8. ~leaving' => \A g \in Flight : g # r => request[g] = None
    BY <1>2 DEF Answered
  <2>9. QED
    BY <2>1, <2>2, <2>3, <2>4, <2>5, <2>6, <2>7, <2>8, TabStep
<1>3. CASE SignIn(r, t1)
  <2>1. Fetch(r, t1, "login") /\ ~signedIn /\ Answered
    BY <1>3 DEF SignIn, Answered
  <2>2. QED
    BY <1>2, <2>1
<1>4. CASE refreshAccessToken(r, t1)
  <2>1. Fetch(r, t1, "refresh") /\ signedIn /\ leaving' = leaving /\ ~Pending(t1, "refresh")
    BY <1>4 DEF refreshAccessToken, RefreshAllowed
  <2>2. ASSUME ~leaving
        PROVE  Answered /\ Works(cookie)
    <3>1. ASSUME NEW q \in Flight, request[q] # None
          PROVE  FALSE
      <4>1. OnTheWay(q) /\ request[q].tab = t1
        BY <2>2, <3>1, TabOne DEF TabInv
      <4>2. request[q].kind = "refresh"
        BY <2>1, <4>1 DEF OnTheWay
      <4>3. QED
        BY <2>1, <3>1, <4>1, <4>2 DEF Pending
    <3>2. Answered
      BY <3>1 DEF Answered
    <3>3. QED
      BY <2>1, <2>2, <3>2 DEF TabInv
  <2>3. QED
    BY <1>2, <2>1, <2>2
<1>5. CASE SignOut(r, t1)
  <2>1. Fetch(r, t1, "logout") /\ leaving'
    BY <1>5 DEF SignOut
  <2>2. QED
    BY <1>2, <2>1
<1>6. QED
  BY <1>3, <1>4, <1>5

\* An answer that is awaited carries a session that works.
LEMMA TabReceive ==
  ASSUME Inv, ClientTypeOK, TabInv, NEW r \in Flight, Receive(r)
  PROVE  TabInv' /\ (signedIn /\ ~signedIn' => leaving)
<1>1. PICK s : s = request[r].session
  OBVIOUS
<1>2. /\ request[r].at = "answered" /\ request' = [request EXCEPT ![r] = None] /\ cookie' = s
      /\ signedIn' = (s # NoSession) /\ UNCHANGED vars /\ leaving' = leaving
  BY <1>1 DEF Receive
<1>3. request[r] # None /\ None.at = "none"
  BY <1>2, OnNetwork DEF None
<1>4. request'[r] = None /\ \A g \in Flight : g # r => request'[g] = request[g]
  BY <1>2, Becomes
<1>5. ~leaving => Works(s) /\ \A g \in Flight : g # r => request[g] = None
  BY <1>1, <1>2, <1>3, TabOne DEF OnTheWay
<1>6. ~leaving => s # NoSession /\ Works(cookie)'
  BY <1>2, <1>5, AuthSessionsAssumption DEF Works, Live, Inv, TypeOK, vars
<1>7. flight' = flight /\ flight[r] = Idle /\ access' = access /\ expired' = expired
  BY <1>2 DEF TabInv, Served, vars
<1>8. TabInv'
  BY <1>2, <1>3, <1>4, <1>5, <1>6, <1>7, TabStep
<1>9. QED
  BY <1>2, <1>6, <1>8

\* The server starts a refresh with a session that works.
LEMMA TabArrive ==
  ASSUME Inv, ClientTypeOK, TabInv, NEW r \in Flight, Arrive(r)
  PROVE  TabInv'
<1>1. request[r].at = "sent" /\ UNCHANGED <<cookie, signedIn, leaving, token>>
  BY DEF Arrive
<1>2. request[r].at # "none" /\ request[r] \in Request /\ request[r] # None /\ request[r].tab = t1
  BY <1>1, OnNetwork DEF TabInv
<1>3. /\ flight[r] = Idle /\ flight \in [Flight -> {Idle} \cup Flights]
      /\ \A s \in known : s \in Session /\ s # NoSession
  BY <1>1, AuthSessionsAssumption DEF TabInv, Served, Inv, TypeOK
<1>4. ASSUME NEW place \in {"server", "answered"}, NEW q \in Request,
             q.at = place /\ q.tab = request[r].tab, request' = [request EXCEPT ![r] = q],
             access' = access, expired' = expired,
             NEW step, flight' = [flight EXCEPT ![r] = step], step # Idle <=> place = "server",
             ~leaving => OnTheWay(r)'
      PROVE  TabInv'
  <2>1. request'[r] = q /\ \A g \in Flight : g # r => request'[g] = request[g]
    BY <1>4, Becomes
  <2>2. flight'[r] = step /\ \A g \in Flight : g # r => flight'[g] = flight[g]
    BY <1>3, <1>4
  <2>3. q # None
    BY <1>4 DEF None
  <2>4. ~leaving => \A g \in Flight : g # r => request[g] = None
    BY <1>2, TabOne
  <2>5. QED
    BY <1>1, <1>2, <1>4, <2>1, <2>2, <2>3, <2>4, TabStep
<1>5. ASSUME ~leaving
      PROVE  OnTheWay(r)
  BY <1>2, <1>5, TabOne
<1>6. CASE request[r].kind = "login"
  <2>1. Login(r) /\ At(r, "server")
    BY <1>6 DEF Arrive
  <2>2. PICK q \in Request :
           /\ q.at = "server" /\ q.kind = request[r].kind /\ q.tab = request[r].tab
           /\ q.session = request[r].session
           /\ request' = [request EXCEPT ![r] = q]
    BY <1>2, <2>1, Arrives
  <2>3. PICK step : step = [pc |-> "login", version |-> version] /\ step.pc = "login"
    <3>1. [pc |-> "login", version |-> version].pc = "login"
      OBVIOUS
    <3>2. QED
      BY <3>1
  <2>4. flight' = [flight EXCEPT ![r] = step] /\ access' = access /\ expired' = expired
    BY <2>1, <2>3 DEF Login, Continue, account
  <2>5. ~leaving => OnTheWay(r)'
    <3>1. request'[r] = q /\ flight'[r] = step
      BY <1>3, <2>2, <2>4, Becomes
    <3>2. QED
      BY <1>1, <1>5, <2>2, <2>3, <3>1 DEF OnTheWay
  <2>6. step # Idle
    <3>1. Idle.pc = "idle"
      BY DEF Idle
    <3>2. step.pc # "idle"
      BY <2>3
    <3>3. QED
      BY <3>1, <3>2
  <2>7. QED
    BY <1>4, <2>2, <2>4, <2>5, <2>6
<1>7. CASE request[r].kind = "refresh" /\ request[r].session # NoSession
  <2>1. PICK s : s = request[r].session /\ Refresh(r, s) /\ At(r, "server")
    BY <1>7 DEF Arrive
  <2>2. PICK q \in Request :
           /\ q.at = "server" /\ q.kind = request[r].kind /\ q.tab = request[r].tab
           /\ q.session = request[r].session
           /\ request' = [request EXCEPT ![r] = q]
    BY <1>2, <2>1, Arrives
  <2>3. PICK step : step = AfterRead(s) /\ step.pc \in {"rotate", "end family"} /\ step.session = s
    <3>1. AfterRead(s).pc \in {"rotate", "end family"} /\ AfterRead(s).session = s
      BY DEF AfterRead
    <3>2. QED
      BY <3>1
  <2>4. /\ flight' = [flight EXCEPT ![r] = step] /\ access' = access /\ expired' = expired
        /\ sessions' = sessions /\ known' = known
    BY <2>1, <2>3 DEF Refresh, Continue, account
  <2>5. ~leaving => OnTheWay(r)'
    <3>1. request'[r] = q /\ flight'[r] = step
      BY <1>3, <2>2, <2>4, Becomes
    <3>2. ASSUME ~leaving
          PROVE  signedIn /\ Works(s)
      BY <1>1, <1>5, <1>7, <2>1, <3>2 DEF OnTheWay
    <3>3. ASSUME ~leaving
          PROVE  step.pc = "rotate"
      BY <2>3, <3>2, <3>3 DEF AfterRead, TabInv, Works
    <3>4. Works(s) => Works(s)'
      BY <2>4 DEF Works, Live
    <3>5. QED
      BY <1>1, <1>7, <2>2, <2>3, <3>1, <3>2, <3>3, <3>4 DEF OnTheWay, Works, Live
  <2>6. step # Idle
    <3>1. Idle.pc = "idle"
      BY DEF Idle
    <3>2. step.pc # "idle"
      BY <2>3
    <3>3. QED
      BY <3>1, <3>2
  <2>7. QED
    BY <1>4, <2>2, <2>4, <2>5, <2>6
<1>8. CASE request[r].kind # "login" /\ (request[r].session = NoSession \/ request[r].kind = "logout")
  <2>1. leaving
    <3>1. ASSUME ~leaving
          PROVE  FALSE
      <4>1. request[r].kind = "refresh" /\ request[r].session = cookie /\ cookie \in known
        BY <1>1, <1>5, <1>8, <3>1 DEF OnTheWay, Works
      <4>2. QED
        BY <1>3, <1>8, <4>1
    <3>2. QED
      BY <3>1
  <2>2. UNCHANGED flight /\ access' = access /\ expired' = expired
    BY <1>8 DEF Arrive, End, vars, account
  <2>3. PICK q \in Request :
           /\ q.at = "answered" /\ q.tab = request[r].tab
           /\ request' = [request EXCEPT ![r] = q]
    <3>1. CASE request[r].session = NoSession
      <4>1. At(r, "answered")
        BY <1>8, <3>1 DEF Arrive
      <4>2. QED
        BY <1>2, <4>1, Arrives
    <3>2. CASE request[r].session # NoSession
      <4>1. PICK none \in Session \cup {NoSession} : none = NoSession
        OBVIOUS
      <4>2. request' = [request EXCEPT ![r].at = "answered", ![r].session = none]
        BY <1>8, <3>2, <4>1 DEF Arrive
      <4>3. PICK q \in Request :
              /\ q.at = "answered" /\ q.kind = request[r].kind /\ q.tab = request[r].tab /\ q.session = none
              /\ request' = [request EXCEPT ![r] = q]
        BY <1>2, <4>2, Answers
      <4>4. QED
        BY <4>3
    <3>3. QED
      BY <3>1, <3>2
  <2>4. flight' = [flight EXCEPT ![r] = Idle]
    BY <1>3, <2>2
  <2>5. QED
    BY <1>4, <2>1, <2>2, <2>3, <2>4
<1>9. QED
  BY <1>2, <1>6, <1>7, <1>8 DEF Request

\* The server goes on with it: it creates a session, or exchanges one that works.
LEMMA TabServe ==
  ASSUME Inv, ClientTypeOK, TabInv, NEW r \in Flight, Serve(r)
  PROVE  TabInv'
<1>1. /\ request[r].at = "server" /\ request' = request /\ UNCHANGED <<cookie, signedIn, leaving>>
      /\ access' = access /\ expired' = expired /\ known' = known
  BY DEF Serve, clientVars, EndFamily, Undo, createAuthSession, Rotate, account
<1>2. request[r] # None /\ request[r].tab = t1
  BY <1>1, OnNetwork DEF TabInv, ClientTypeOK
<1>3. flight \in [Flight -> {Idle} \cup Flights] /\ sessions \in [Session -> Row \cup {NoRow}]
  BY DEF Inv, TypeOK
<1>4. ASSUME NEW step, flight' = [flight EXCEPT ![r] = step], step.pc \in {"respond", "undo"},
             ~leaving => step.pc = "respond" /\ step.session \in Session /\ Live(step.session)'
      PROVE  TabInv'
  <2>1. flight'[r] = step /\ \A g \in Flight : g # r => flight'[g] = flight[g]
    BY <1>3, <1>4
  <2>2. step # Idle
    <3>1. Idle.pc = "idle" /\ step.pc # "idle"
      BY <1>4 DEF Idle
    <3>2. QED
      BY <3>1
  <2>3. ASSUME ~leaving
        PROVE  OnTheWay(r)' /\ \A g \in Flight : g # r => request[g] = None
    <3>1. OnTheWay(r) /\ \A g \in Flight : g # r => request[g] = None
      BY <1>2, <2>3, TabOne
    <3>2. OnTheWay(r)'
      BY <1>1, <1>4, <2>1, <2>3, <3>1 DEF OnTheWay
    <3>3. QED
      BY <3>1, <3>2
  <2>4. QED
    BY <1>1, <1>2, <1>4, <2>1, <2>2, <2>3, TabStep
<1>5. ASSUME ~leaving
      PROVE  flight[r].pc \in {"login", "respond"} \/ (flight[r].pc = "rotate" /\ Works(flight[r].session))
  BY <1>1, <1>2, <1>5, TabOne DEF OnTheWay
<1>6. ASSUME EndFamily(r) \/ Undo(r)
      PROVE  TabInv'
  <2>1. PICK step : step = [pc |-> "respond", session |-> NoSession] /\ step.pc = "respond"
    <3>1. [pc |-> "respond", session |-> NoSession].pc = "respond"
      OBVIOUS
    <3>2. QED
      BY <3>1
  <2>2. flight' = [flight EXCEPT ![r] = step] /\ flight[r].pc \in {"end family", "undo"}
    BY <1>6, <2>1 DEF EndFamily, Undo, Continue
  <2>3. leaving
    <3>1. ASSUME ~leaving
          PROVE  FALSE
      BY <1>5, <2>2, <3>1
    <3>2. QED
      BY <3>1
  <2>4. QED
    BY <1>4, <2>1, <2>2, <2>3
<1>7. ASSUME NEW s \in Session, createAuthSession(r, s)
      PROVE  TabInv'
  <2>1. PICK step : step = [pc |-> "respond", session |-> s] /\ step.pc = "respond" /\ step.session = s
    <3>1. [pc |-> "respond", session |-> s].pc = "respond" /\ [pc |-> "respond", session |-> s].session = s
      OBVIOUS
    <3>2. QED
      BY <3>1
  <2>2. flight' = [flight EXCEPT ![r] = step]
    BY <1>7, <2>1 DEF createAuthSession, Continue
  <2>3. Live(s)'
    BY <1>3, <1>7 DEF createAuthSession, Live
  <2>4. QED
    BY <1>4, <2>1, <2>2, <2>3
<1>8. ASSUME NEW n \in Session, Rotate(r, n)
      PROVE  TabInv'
  <2>1. PICK pc : pc = (IF Live(flight[r].session) THEN "respond" ELSE "undo")
    OBVIOUS
  <2>2. PICK step : step = [pc |-> pc, session |-> n] /\ step.pc = pc /\ step.session = n
    <3>1. [pc |-> pc, session |-> n].pc = pc /\ [pc |-> pc, session |-> n].session = n
      OBVIOUS
    <3>2. QED
      BY <3>1
  <2>3. flight' = [flight EXCEPT ![r] = step] /\ flight[r].pc = "rotate"
    BY <1>8, <2>1, <2>2 DEF Rotate, Continue
  <2>4. Live(n)'
    <3>1. sessions' = [Revoke({flight[r].session}) EXCEPT ![n] =
                         [sessions[flight[r].session] EXCEPT !.from = flight[r].session, !.revoked = FALSE]]
      BY <1>8 DEF Rotate
    <3>2. DOMAIN Revoke({flight[r].session}) = Session
      BY DEF Revoke
    <3>3. sessions'[n] = [sessions[flight[r].session] EXCEPT !.from = flight[r].session, !.revoked = FALSE]
      BY <3>1, <3>2
    <3>4. flight[r].session \in Session
      BY <2>3, Kinds DEF Inv
    <3>5. sessions[flight[r].session] \in Row \cup {NoRow}
      BY <1>3, <3>4
    <3>6. sessions'[n].revoked = FALSE
      BY <3>3, <3>5 DEF Row, NoRow
    <3>7. QED
      BY <3>6 DEF Live
  <2>5. ~leaving => pc = "respond"
    BY <1>5, <2>1, <2>3 DEF Works
  <2>6. pc \in {"respond", "undo"}
    BY <2>1
  <2>7. QED
    BY <1>4, <2>2, <2>3, <2>4, <2>5, <2>6
<1>9. QED
  BY <1>6, <1>7, <1>8 DEF Serve

\* The answer takes a session to the browser, which then works.
LEMMA TabAnswer ==
  ASSUME Inv, ClientTypeOK, TabInv, NEW r \in Flight, Answer(r)
  PROVE  TabInv'
<1>1. PICK s : s = flight[r].session
  OBVIOUS
<1>2. /\ request[r].at = "server" /\ request' = [request EXCEPT ![r].at = "answered", ![r].session = s]
      /\ UNCHANGED <<cookie, signedIn, leaving>> /\ flight[r].pc = "respond"
      /\ known' = known \cup ({s} \ {NoSession}) /\ flight' = [flight EXCEPT ![r] = Idle]
      /\ sessions' = sessions /\ access' = access /\ expired' = expired
  BY <1>1 DEF Answer, Respond, Finish, Continue, account
<1>3. request[r] # None /\ request[r].tab = t1 /\ request[r].at # "none"
  BY <1>2, OnNetwork DEF TabInv, ClientTypeOK
<1>4. s \in Session \cup {NoSession}
  BY <1>1, <1>2, Kinds DEF Inv
<1>5. PICK q \in Request :
         /\ q.at = "answered" /\ q.kind = request[r].kind /\ q.tab = request[r].tab /\ q.session = s
         /\ request' = [request EXCEPT ![r] = q]
  BY <1>2, <1>3, <1>4, Answers
<1>6. request'[r] = q /\ \A g \in Flight : g # r => request'[g] = request[g]
  BY <1>5, Becomes
<1>7. flight'[r] = Idle /\ \A g \in Flight : g # r => flight'[g] = flight[g]
  BY <1>2 DEF Inv, TypeOK
<1>8. ASSUME ~leaving
      PROVE  OnTheWay(r)' /\ \A g \in Flight : g # r => request[g] = None
  <2>1. OnTheWay(r) /\ \A g \in Flight : g # r => request[g] = None
    BY <1>3, <1>8, TabOne
  <2>2. s \in Session /\ Live(s)
    BY <1>1, <1>2, <2>1 DEF OnTheWay
  <2>3. s \in known'
    BY <1>2, <2>2, AuthSessionsAssumption
  <2>4. Works(s)'
    BY <1>2, <2>2, <2>3 DEF Works, Live
  <2>5. OnTheWay(r)'
    BY <1>2, <1>5, <1>6, <2>1, <2>4 DEF OnTheWay, Works, Live
  <2>6. QED
    BY <2>1, <2>5
<1>9. q # None
  BY <1>5 DEF None
<1>10. QED
  BY <1>2, <1>3, <1>5, <1>6, <1>7, <1>8, <1>9, TabStep

\* What one tab and one request on the server at a time can do, if no answer is lost.
LEMMA TabNextKeeps ==
  ASSUME Inv, ClientTypeOK, TabInv, TabNext
  PROVE  TabInv' /\ (signedIn /\ ~signedIn' => leaving)
<1>1. ASSUME NEW r \in Flight, SignIn(r, t1) \/ refreshAccessToken(r, t1) \/ SignOut(r, t1)
      PROVE  TabInv' /\ signedIn' = signedIn
  <2>1. signedIn' = signedIn
    BY <1>1 DEF SignIn, refreshAccessToken, SignOut
  <2>2. QED
    BY <1>1, <2>1, TabActs
<1>2. ASSUME NEW r \in Flight, Arrive(r) \/ Serve(r) \/ Answer(r)
      PROVE  TabInv' /\ signedIn' = signedIn
  <2>1. signedIn' = signedIn
    BY <1>2 DEF Arrive, Serve, Answer, clientVars
  <2>2. QED
    BY <1>2, <2>1, TabArrive, TabServe, TabAnswer
<1>3. CASE Refused(t1)
  <2>1. UNCHANGED <<vars, cookie, signedIn, leaving, request>>
    BY <1>3 DEF Refused
  <2>2. TabInv'
    BY <2>1 DEF TabInv, Served, OnTheWay, Works, Live, Answered, vars
  <2>3. QED
    BY <2>1, <2>2
<1>4. QED
  BY <1>1, <1>2, <1>3, TabReceive DEF TabNext

-----------------------------------------------------------------------------
(* The settings of MCSessions.                                             *)

\* What holds of a behaviour of each setting.
SuiteInv ==
  /\ Inv /\ ClientTypeOK
  /\ part = "passwords" => OneRequest /\ Shown
  /\ part = "tab" => TabInv

\* The settings start as AuthSessions and the browser do.
LEMMA SuiteInvInit == SuiteInit => SuiteInv
<1> SUFFICES ASSUME SuiteInit PROVE SuiteInv
  OBVIOUS
<1>1. ClientInit /\ Init
  BY DEF SuiteInit, ClientInit
<1>2. Inv /\ OneRequest /\ Shown
  BY <1>1, InvInit, ShownInit
<1>3. \A r \in Flight : request[r] = None /\ flight[r] = Idle
  BY <1>1 DEF ClientInit, Init
<1>4. ClientTypeOK
  <2>1. TypeOK
    BY <1>2 DEF Inv
  <2>2. QED
    BY <1>1, <2>1 DEF ClientInit, ClientTypeOK
<1>5. TabInv
  <2>1. access /\ expired = {} /\ ~signedIn
    BY <1>1 DEF ClientInit, Init
  <2>2. None.at = "none"
    BY DEF None
  <2>3. Served
    BY <1>3, <2>2 DEF Served
  <2>4. QED
    BY <1>3, <2>1, <2>3 DEF TabInv
<1>6. QED
  BY <1>2, <1>4, <1>5 DEF SuiteInv

\* A step of any setting keeps it, and the tab does not sign out by itself.
LEMMA SuiteInvNext ==
  ASSUME SuiteInv, [SuiteNext]_suiteVars
  PROVE  SuiteInv' /\ (part = "tab" /\ signedIn /\ ~signedIn' => leaving)
<1>1. Inv /\ ClientTypeOK
  BY DEF SuiteInv
<1>2. ASSUME UNCHANGED clientVars, Inv'
      PROVE  ClientTypeOK'
  BY <1>1, <1>2 DEF ClientTypeOK, clientVars, Inv
<1>3. CASE UNCHANGED <<part, allVars>>
  <2>1. UNCHANGED <<vars, clientVars>> /\ part' = part
    BY <1>3 DEF allVars
  <2>2. Inv'
    BY <1>1, <2>1, InvNext
  <2>3. part = "passwords" => OneRequest' /\ Shown'
    BY <1>1, <2>1, OnlyNext DEF SuiteInv, Inv
  <2>4. part = "tab" => TabInv'
    BY <2>1 DEF SuiteInv, TabInv, Served, OnTheWay, Works, Live, Answered, vars, clientVars
  <2>5. signedIn' = signedIn
    BY <2>1 DEF clientVars
  <2>6. QED
    BY <1>2, <2>1, <2>2, <2>3, <2>4, <2>5 DEF SuiteInv
<1>4. CASE part = "account" /\ part' = part /\ AccountNext /\ UNCHANGED clientVars
  <2>1. Inv'
    BY <1>1, <1>4, InvNext DEF AccountNext
  <2>2. QED
    BY <1>2, <1>4, <2>1 DEF SuiteInv
<1>5. CASE part = "passwords" /\ part' = part /\ PasswordsNext /\ UNCHANGED clientVars
  <2>1. Next
    BY <1>5 DEF PasswordsNext, Next
  <2>2. Inv'
    BY <1>1, <2>1, InvNext
  <2>3. OneRequest' /\ Shown'
    BY <1>1, <1>5, OnlyNext DEF SuiteInv, Inv
  <2>4. QED
    BY <1>2, <1>5, <2>2, <2>3 DEF SuiteInv
<1>6. ASSUME ClientNext
      PROVE  Inv' /\ ClientTypeOK'
  BY <1>1, <1>6, ClientTypeNext, ServerStep, InvNext
<1>7. CASE part = "network" /\ part' = part /\ ClientNext
  BY <1>6, <1>7 DEF SuiteInv
<1>8. CASE part = "tab" /\ part' = part /\ TabNext
  <2>1. Inv' /\ ClientTypeOK'
    <3>1. CASE Refused(t1)
      <4>1. Inv'
        BY <1>1, <3>1, InvNext DEF Refused
      <4>2. token' \in [Tab -> Session \cup {NoSession}]
        <5>1. token' = [token EXCEPT ![t1] = NoSession] /\ token \in [Tab -> Session \cup {NoSession}]
          BY <1>1, <3>1 DEF Refused, ClientTypeOK
        <5>2. QED
          BY <5>1
      <4>3. QED
        BY <1>1, <3>1, <4>1, <4>2 DEF Refused, ClientTypeOK, Inv
    <3>2. CASE ~Refused(t1)
      <4>1. ClientNext
        BY <1>8, <3>2, OneTabAssumption DEF TabNext, ClientNext
      <4>2. QED
        BY <1>6, <4>1
    <3>3. QED
      BY <3>1, <3>2
  <2>2. TabInv' /\ (signedIn /\ ~signedIn' => leaving)
    BY <1>1, <1>8, TabNextKeeps DEF SuiteInv
  <2>3. QED
    BY <1>8, <2>1, <2>2 DEF SuiteInv
<1>9. QED
  BY <1>3, <1>4, <1>5, <1>7, <1>8 DEF SuiteNext, suiteVars, allVars

\* The invariant of the settings, in every behaviour.
LEMMA SuiteInvHolds == Suite => []SuiteInv
BY SuiteInvInit, SuiteInvNext, PTL DEF Suite

\* auth-sessions.ts and lib/auth.ts: rows and requests have their types, a new password ends
\* the sessions of the old one, and a browser that believes it is signed in has a refresh
\* token that works, each in its setting.
THEOREM SessionsAreSoundHolds == Suite => []SessionsAreSound
<1>1. SuiteInv => SessionsAreSound
  <2> SUFFICES ASSUME SuiteInv PROVE SessionsAreSound
    OBVIOUS
  <2>1. part = "passwords" => PasswordEndsSessions
    BY ShownEnds DEF SuiteInv
  <2>2. part = "tab" => CookieIsUsable
    <3>1. ASSUME part = "tab", signedIn, ~leaving, \A r \in Flight : request[r] = None
          PROVE  cookie # NoSession /\ Usable(cookie)
      <4>1. Works(cookie)
        BY <3>1 DEF SuiteInv, TabInv, Answered
      <4>2. QED
        BY <4>1, AuthSessionsAssumption DEF Works, Usable, SuiteInv, Inv, TypeOK
    <3>2. QED
      BY <3>1 DEF CookieIsUsable
  <2>3. QED
    BY <2>1, <2>2 DEF SessionsAreSound, SuiteInv
<1>2. QED
  BY <1>1, SuiteInvHolds, PTL

\* refreshPromise: with one tab, one request at a time on the server and no lost answer,
\* nobody who has not signed out is told that the session has expired.
THEOREM OneTabStaysSignedInHolds == Suite => OneTabStaysSignedIn
<1>1. SuiteInv /\ [SuiteNext]_suiteVars => [part = "tab" /\ signedIn /\ ~signedIn' => leaving]_suiteVars
  BY SuiteInvNext
<1>2. QED
  BY <1>1, SuiteInvHolds, PTL DEF Suite, OneTabStaysSignedIn
=============================================================================
