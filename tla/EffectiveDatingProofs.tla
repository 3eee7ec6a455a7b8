----------------------- MODULE EffectiveDatingProofs -----------------------
(***************************************************************************)
(* Proofs about what administrators set up.  About EffectiveDating, for    *)
(* every set of requests and every range of dates: when the requests take  *)
(* turns, and whether or not they stop half-way, at most one row is in     *)
(* force on a date and what was in force before the latest profile never   *)
(* changes.  Then, in the settings of MCAdministration and for every set   *)
(* of requests, dates, names and numbers: profiles follow on each other,   *)
(* accounts and organizations are complete once a request that does not    *)
(* stop has ended, names and numbers differ, and readers of the same rows  *)
(* agree.                                                                  *)
(***************************************************************************)
EXTENDS MCAdministration, FiniteSetTheorems, TLAPS

-----------------------------------------------------------------------------
(* The inductive invariant.                                                *)

\* The rows of a table are intervals, one per start, none reaching the start of a later one.
Apart(t) ==
  \A r, q \in rows[t] :
    /\ r.from <= r.to
    /\ r.from = q.from => r = q
    /\ r.from < q.from => r.to < q.from

\* One of the rows starts last.
HasLatest(t) == rows[t] # {} => \E r \in rows[t] : \A q \in rows[t] : q.from <= r.from

\* No row starts within the new one; a new profile is open-ended.
Fits(t, row) ==
  /\ row.from <= row.to
  /\ t \in Profiles => row.to = OpenEnd
  /\ \A r \in rows[t] : r.from < row.from \/ row.to < r.from

\* What a request that is about to truncate, or to create, has made sure of.
Ready(step) ==
  /\ Fits(step.table, step.row)
  /\ step.pc = "prior" => step.table = "ScheduleAssignment"
  /\ step.pc = "truncate" =>
       \E p \in rows[step.table] : p.from = step.prior /\ p.from < step.row.from /\ step.row.from <= p.to
  /\ step.pc = "create" =>
       \A r \in rows[step.table] : r.from < step.row.from => r.to < step.row.from

Alone == \A f, g \in Flight : flight[f] # Idle /\ flight[g] # Idle => f = g

Inv ==
  /\ TypeOK
  /\ \A t \in Table : Apart(t) /\ HasLatest(t)
  /\ Alone
  /\ \A f \in Flight : flight[f] # Idle => Ready(flight[f])

-----------------------------------------------------------------------------
(* Types and turns.                                                        *)

\* A request in flight names a table and a row, and one that truncates also a date.
LEMMA Kinds ==
  ASSUME TypeOK, NEW f \in Flight, flight[f].pc \in {"prior", "truncate", "create"}
  PROVE  /\ flight[f] # Idle
         /\ flight[f].table \in Table /\ flight[f].row \in Row
         /\ flight[f].pc = "truncate" => flight[f].prior \in Date
         /\ flight[f].pc = "prior" => flight[f] \in Flights
BY DEF TypeOK, Flights, Idle

\* The fields of a row are integers, and its start is a date.
LEMMA RowFields ==
  ASSUME NEW r \in Row
  PROVE  r.from \in Date /\ r.from \in Int /\ r.to \in Int /\ r.to \in 0..OpenEnd /\ r.to <= OpenEnd
BY EffectiveDatingAssumption DEF Row, Date, OpenEnd

\* A request that is delivered, or goes on, is the only one.
LEMMA AloneStep ==
  ASSUME CoordinatorSerializes, TypeOK, Alone, NEW f \in Flight, NEW step,
         flight[f] # Idle \/ Deliver(f), flight' = [flight EXCEPT ![f] = step]
  PROVE  /\ \A g \in Flight \ {f} : flight'[g] = Idle
         /\ Alone'
         /\ flight'[f] = step
<1>1. \A g \in Flight \ {f} : flight[g] = Idle
  BY DEF Alone, Deliver
<1>2. \A g \in Flight \ {f} : flight'[g] = Idle
  BY <1>1 DEF TypeOK
<1>3. flight'[f] = step
  BY DEF TypeOK
<1>4. QED
  BY <1>2, <1>3 DEF Alone

\* A step that leaves the rows keeps the invariant when the request is ready for the next one.
LEMMA ReadStep ==
  ASSUME CoordinatorSerializes, Inv, NEW f \in Flight, NEW step \in {Idle} \cup Flights,
         flight[f] # Idle \/ Deliver(f), flight' = [flight EXCEPT ![f] = step],
         UNCHANGED rows, step # Idle => Ready(step)
  PROVE  Inv'
<1>1. TypeOK'
  BY DEF Inv, TypeOK
<1>2. /\ \A g \in Flight \ {f} : flight'[g] = Idle
      /\ Alone' /\ flight'[f] = step
  BY AloneStep DEF Inv
<1>3. ASSUME NEW g \in Flight, flight'[g] # Idle
      PROVE  Ready(flight[g])'
  <2>1. flight'[g] = step
    BY <1>2, <1>3
  <2>2. Ready(step)
    BY <1>3, <2>1
  <2>3. QED
    BY <2>1, <2>2 DEF Ready, Fits
<1>4. \A t \in Table : Apart(t)' /\ HasLatest(t)'
  BY DEF Inv, Apart, HasLatest
<1>5. QED
  BY <1>1, <1>2, <1>3, <1>4 DEF Inv

-----------------------------------------------------------------------------
(* The steps of a request.                                                 *)

\* The latest row is a row that starts last.
LEMMA LatestIsLast ==
  ASSUME NEW t \in Table, HasLatest(t), rows[t] # {}
  PROVE  Latest(rows[t]) \in rows[t] /\ \A q \in rows[t] : q.from <= Latest(rows[t]).from
BY DEF HasLatest, Latest

\* A date is covered by at most one row that starts before it.
LEMMA OneCovering ==
  ASSUME TypeOK, Apart("ScheduleAssignment"), NEW d \in Date, Covering(d) # {}
  PROVE  Latest(Covering(d)) \in Covering(d)
<1>1. ASSUME NEW r \in Covering(d), NEW q \in Covering(d)
      PROVE  q.from <= r.from
  <2>1. /\ r \in rows["ScheduleAssignment"] /\ q \in rows["ScheduleAssignment"]
        /\ r.from < d /\ d <= r.to /\ q.from < d /\ d <= q.to
    BY <1>1, RowFields DEF Covering, TypeOK, Table, Date
  <2>2. r \in Row /\ q \in Row
    BY <2>1 DEF TypeOK, Table
  <2>3. r.from < q.from => r.to < q.from
    BY <2>1 DEF Apart
  <2>4. QED
    BY <2>1, <2>2, <2>3, RowFields DEF Date
<1>2. \E r \in Covering(d) : \A q \in Covering(d) : q.from <= r.from
  BY <1>1
<1>3. QED
  BY <1>2 DEF Latest

\* createPayProfileV2 and createEmployeeStatutoryProfileV2 truncate the latest row or none.
LEMMA ProfileStep ==
  ASSUME CoordinatorSerializes, Inv, NEW f \in Flight, NEW t \in Profiles, CreateProfile(f, t)
  PROVE  Inv'
<1>1. Deliver(f) /\ UNCHANGED rows
  BY DEF CreateProfile
<1>2. PICK row \in NewRow(t) :
        /\ \A r \in rows[t] : r.from < row.from
        /\ IF rows[t] = {} \/ Latest(rows[t]).to < row.from
           THEN Continue(f, CreateStep(t, row))
           ELSE Continue(f, TruncateStep(t, row, Latest(rows[t]).from))
  BY DEF CreateProfile
<1>3. t \in Table /\ row \in Row /\ rows[t] \subseteq Row /\ row.to = OpenEnd /\ row.from <= row.to
  BY DEF Inv, TypeOK, Table, NewRow
<1>4. Fits(t, row)
  BY <1>2, <1>3 DEF Fits
<1>5. Apart(t) /\ HasLatest(t)
  BY <1>3 DEF Inv
<1>6. CASE rows[t] = {} \/ Latest(rows[t]).to < row.from
  <2> DEFINE step == CreateStep(t, row)
  <2>1. step \in Flights /\ step.pc = "create" /\ step.table = t /\ step.row = row
    BY <1>3 DEF Flights, CreateStep
  <2>2. ASSUME NEW r \in rows[t]
        PROVE  r.to < row.from
    <3> DEFINE l == Latest(rows[t])
    <3>1. l \in rows[t] /\ r.from <= l.from /\ l.to < row.from
      BY <1>3, <1>5, <1>6, <2>2, LatestIsLast
    <3>2. /\ r.from < l.from => r.to < l.from
          /\ r.from = l.from => r = l
          /\ l.from <= l.to
      BY <1>5, <2>2, <3>1 DEF Apart
    <3>3. r \in Row /\ l \in Row
      BY <1>3, <2>2, <3>1
    <3> HIDE DEF l
    <3>4. QED
      BY <1>3, <3>1, <3>2, <3>3, RowFields
  <2>3. flight' = [flight EXCEPT ![f] = step]
    BY <1>2, <1>6 DEF Continue
  <2> HIDE DEF step
  <2>4. Ready(step)
    BY <1>4, <2>1, <2>2 DEF Ready
  <2>5. QED
    BY <1>1, <2>1, <2>3, <2>4, ReadStep
<1>7. CASE ~(rows[t] = {} \/ Latest(rows[t]).to < row.from)
  <2> DEFINE l == Latest(rows[t])
             step == TruncateStep(t, row, l.from)
  <2>1. l \in rows[t] /\ l \in Row
    BY <1>3, <1>5, <1>7, LatestIsLast
  <2>2. flight' = [flight EXCEPT ![f] = step]
    BY <1>2, <1>7 DEF Continue
  <2>3. l.from < row.from /\ row.from <= l.to
    BY <1>2, <1>3, <1>7, <2>1, RowFields
  <2> HIDE DEF l
  <2>4. step \in Flights /\ step.pc = "truncate" /\ step.table = t /\ step.row = row /\ step.prior = l.from
    BY <1>3, <2>1, RowFields DEF Flights, TruncateStep
  <2> HIDE DEF step
  <2>5. Ready(step)
    BY <1>4, <2>1, <2>3, <2>4 DEF Ready
  <2>6. QED
    BY <1>1, <2>2, <2>4, <2>5, ReadStep
<1>8. QED
  BY <1>6, <1>7

\* createScheduleAssignmentV2 goes on only when no row starts within the new one.
LEMMA AssignmentStep ==
  ASSUME CoordinatorSerializes, Inv, NEW f \in Flight, CreateAssignment(f)
  PROVE  Inv'
<1> DEFINE t == "ScheduleAssignment"
<1>1. Deliver(f) /\ UNCHANGED rows
  BY DEF CreateAssignment
<1>2. PICK row \in NewRow(t) :
        /\ \A r \in rows[t] : ~(row.from <= r.from /\ r.from <= row.to)
        /\ Continue(f, [pc |-> "prior", table |-> t, row |-> row])
  BY DEF CreateAssignment
<1> DEFINE step == [pc |-> "prior", table |-> t, row |-> row]
<1>3. t \in Table /\ t \notin Profiles /\ row \in Row /\ rows[t] \subseteq Row /\ row.from <= row.to
  BY DEF Inv, TypeOK, Table, NewRow, Profiles
<1>4. ASSUME NEW r \in rows[t]
      PROVE  r.from < row.from \/ row.to < r.from
  BY <1>2, <1>3, <1>4, RowFields
<1>5. step \in Flights /\ step.pc = "prior" /\ step.table = t /\ step.row = row
  BY <1>3 DEF Flights
<1>6. flight' = [flight EXCEPT ![f] = step]
  BY <1>2 DEF Continue
<1> HIDE DEF step
<1>7. Ready(step)
  BY <1>3, <1>4, <1>5 DEF Ready, Fits
<1>8. QED
  BY <1>1, <1>5, <1>6, <1>7, ReadStep

\* It truncates the row that covers the start of the new one, if there is one.
LEMMA PriorStep ==
  ASSUME CoordinatorSerializes, Inv, NEW f \in Flight, Prior(f)
  PROVE  Inv'
<1> DEFINE t == "ScheduleAssignment"
           row == flight[f].row
           covering == Covering(row.from)
<1>1. flight[f].pc = "prior" /\ UNCHANGED rows /\ flight[f] # Idle
  BY DEF Prior, Idle
<1>2. Ready(flight[f])
  BY <1>1 DEF Inv
<1>3. row \in Row /\ t \in Table /\ rows[t] \subseteq Row /\ Fits(t, row) /\ Apart(t)
  BY <1>1, <1>2, Kinds DEF Inv, TypeOK, Table, Ready
<1>4. covering = {r \in rows[t] : r.from < row.from /\ r.to >= row.from}
  BY DEF Covering
<1>5. CASE covering = {}
  <2> DEFINE step == CreateStep(t, row)
  <2>1. step \in Flights /\ step.pc = "create" /\ step.table = t /\ step.row = row
    BY <1>3 DEF Flights, CreateStep
  <2>2. ASSUME NEW r \in rows[t], r.from < row.from
        PROVE  r.to < row.from
    BY <1>3, <1>4, <1>5, <2>2, RowFields
  <2>3. flight' = [flight EXCEPT ![f] = step]
    BY <1>5 DEF Prior, Continue
  <2> HIDE DEF step, row, t
  <2>4. Ready(step)
    BY <1>3, <2>1, <2>2 DEF Ready
  <2>5. QED
    BY <1>1, <2>1, <2>3, <2>4, ReadStep
<1>6. CASE covering # {}
  <2> DEFINE l == Latest(covering)
             step == TruncateStep(t, row, l.from)
  <2>1. l \in covering
    <3>1. row.from \in Date /\ Covering(row.from) # {}
      BY <1>3, <1>6, RowFields
    <3>2. QED
      BY <1>3, <3>1, OneCovering DEF Inv
  <2>2. flight' = [flight EXCEPT ![f] = step]
    BY <1>6 DEF Prior, Continue
  <2>3. l \in rows[t] /\ l \in Row /\ l.from < row.from /\ row.from <= l.to
    <3>1. l \in rows[t] /\ l.from < row.from /\ l.to >= row.from
      BY <1>4, <2>1
    <3> HIDE DEF l, row, t
    <3>2. QED
      BY <1>3, <3>1, RowFields
  <2> HIDE DEF l
  <2>4. step \in Flights /\ step.pc = "truncate" /\ step.table = t /\ step.row = row /\ step.prior = l.from
    BY <1>3, <2>3, RowFields DEF Flights, TruncateStep
  <2> HIDE DEF step, row, t
  <2>5. Ready(step)
    BY <1>3, <2>3, <2>4 DEF Ready
  <2>6. QED
    BY <1>1, <2>2, <2>4, <2>5, ReadStep
<1>7. QED
  BY <1>5, <1>6

-----------------------------------------------------------------------------
(* The truncation and the creation.                                        *)

Cut(r, prior, date) == IF r.from = prior THEN [r EXCEPT !.to = previousIsoDate(date)] ELSE r

\* Truncating keeps the starts, and cuts the one row that starts on the prior date.
LEMMA Cutting ==
  ASSUME NEW r \in Row, NEW prior, NEW date \in Date
  PROVE  /\ Cut(r, prior, date) \in Row
         /\ Cut(r, prior, date).from = r.from
         /\ r.from = prior => Cut(r, prior, date).to = date - 1
         /\ r.from # prior => Cut(r, prior, date) = r
<1>1. date - 1 \in 0..OpenEnd
  BY EffectiveDatingAssumption DEF Date, OpenEnd
<1>2. QED
  BY <1>1 DEF Cut, Row, previousIsoDate

\* Only the row of the truncation reaches the start of the new one; cut, it ends the day before.
LEMMA TruncateStays ==
  ASSUME CoordinatorSerializes, Inv, NEW f \in Flight, Truncate(f)
  PROVE  Inv'
<1>1. flight[f].pc = "truncate" /\ flight[f] # Idle
  BY DEF Truncate, Idle
<1>2. PICK t \in Table, row \in Row, prior \in Date :
        t = flight[f].table /\ row = flight[f].row /\ prior = flight[f].prior
  BY <1>1, Kinds DEF Inv
<1> DEFINE cut == {Cut(r, prior, row.from) : r \in rows[t]}
           step == CreateStep(t, row)
<1>3. rows' = [rows EXCEPT ![t] = cut] /\ flight' = [flight EXCEPT ![f] = step]
  BY <1>2 DEF Truncate, Cut, Continue
<1>4. /\ Fits(t, row)
      /\ \E p \in rows[t] : p.from = prior /\ p.from < row.from /\ row.from <= p.to
  BY <1>1, <1>2 DEF Inv, Ready
<1>5. PICK p \in rows[t] : p.from = prior /\ p.from < row.from /\ row.from <= p.to
  BY <1>4
<1>6. rows[t] \subseteq Row /\ Apart(t) /\ HasLatest(t) /\ row.from \in Date
  BY RowFields DEF Inv, TypeOK
<1>7. ASSUME NEW r \in rows[t]
      PROVE  /\ Cut(r, prior, row.from) \in Row
             /\ Cut(r, prior, row.from).from = r.from
             /\ r.from = prior => Cut(r, prior, row.from).to = row.from - 1
             /\ r.from # prior => Cut(r, prior, row.from) = r
  BY <1>6, Cutting
<1>8. ASSUME NEW r \in rows[t], NEW q \in rows[t]
      PROVE  LET c == Cut(r, prior, row.from)
                 d == Cut(q, prior, row.from)
             IN /\ c.from <= c.to
                /\ c.from = d.from => c = d
                /\ c.from < d.from => c.to < d.from
                /\ c.from < row.from => c.to < row.from
  <2>1. /\ r.from <= r.to
        /\ r.from = q.from => r = q
        /\ r.from < q.from => r.to < q.from
        /\ r.from < p.from => r.to < p.from
        /\ p.from < q.from => p.to < q.from
        /\ p.from < r.from => p.to < r.from
    BY <1>5, <1>6 DEF Apart
  <2>2. /\ r \in Row /\ q \in Row /\ p \in Row
        /\ Cut(r, prior, row.from) \in Row /\ Cut(q, prior, row.from) \in Row
    BY <1>5, <1>6, <1>7
  <2>3. CASE r.from = prior
    BY <1>5, <1>7, <2>1, <2>2, <2>3, RowFields
  <2>4. CASE r.from # prior
    <3>1. Cut(r, prior, row.from) = r /\ Cut(q, prior, row.from).from = q.from
      BY <1>7, <2>4
    <3>2. r.from = q.from => Cut(q, prior, row.from) = r
      BY <1>7, <2>1, <2>4
    <3>3. r.from < row.from => r.to < row.from
      BY <1>5, <2>1, <2>2, <2>4, RowFields
    <3>4. QED
      BY <2>1, <3>1, <3>2, <3>3
  <2>5. QED
    BY <2>3, <2>4
<1>9. cut \in SUBSET Row
  BY <1>7
<1>10. ASSUME NEW c \in cut, NEW d \in cut
       PROVE  /\ c.from <= c.to /\ (c.from = d.from => c = d) /\ (c.from < d.from => c.to < d.from)
              /\ c.from < row.from => c.to < row.from
              /\ c.from < row.from \/ row.to < c.from
  <2>1. PICK r \in rows[t], q \in rows[t] : c = Cut(r, prior, row.from) /\ d = Cut(q, prior, row.from)
    OBVIOUS
  <2>2. c.from < row.from \/ row.to < c.from
    BY <1>4, <1>7, <2>1 DEF Fits
  <2>3. QED
    BY <1>8, <2>1, <2>2
<1>11. cut # {} => \E c \in cut : \A d \in cut : d.from <= c.from
  <2>1. SUFFICES ASSUME cut # {} PROVE \E c \in cut : \A d \in cut : d.from <= c.from
    OBVIOUS
  <2>2. PICK l \in rows[t] : \A q \in rows[t] : q.from <= l.from
    BY <1>5, <1>6 DEF HasLatest
  <2>3. \A d \in cut : d.from <= Cut(l, prior, row.from).from
    BY <1>7, <2>2
  <2>4. QED
    BY <2>3
<1> HIDE DEF cut
<1>12. rows' \in [Table -> SUBSET Row] /\ rows'[t] = cut /\ \A u \in Table \ {t} : rows'[u] = rows[u]
  BY <1>3, <1>9 DEF Inv, TypeOK
<1>13. ASSUME NEW u \in Table
       PROVE  Apart(u)' /\ HasLatest(u)'
  <2>1. CASE u = t
    BY <1>10, <1>11, <1>12, <2>1 DEF Apart, HasLatest
  <2>2. CASE u # t
    BY <1>12, <2>2 DEF Inv, Apart, HasLatest
  <2>3. QED
    BY <2>1, <2>2
<1>14. step \in Flights /\ step.pc = "create" /\ step.table = t /\ step.row = row
  BY DEF Flights, CreateStep
<1> HIDE DEF step
<1>15. /\ \A g \in Flight \ {f} : flight'[g] = Idle
       /\ Alone' /\ flight'[f] = step
  BY <1>1, <1>3, AloneStep DEF Inv
<1>16. /\ row.from <= row.to
       /\ t \in Profiles => row.to = OpenEnd
       /\ \A r \in rows'[t] : r.from < row.from \/ row.to < r.from
       /\ \A r \in rows'[t] : r.from < row.from => r.to < row.from
  BY <1>4, <1>10, <1>12 DEF Fits
<1>17. ASSUME NEW g \in Flight, flight'[g] # Idle
       PROVE  Ready(flight[g])'
  <2>1. flight'[g] = step
    BY <1>15, <1>17
  <2>2. QED
    BY <1>14, <1>16, <2>1 DEF Ready, Fits
<1>18. TypeOK'
  BY <1>3, <1>12, <1>14 DEF Inv, TypeOK
<1>19. QED
  BY <1>13, <1>15, <1>17, <1>18 DEF Inv

\* The new row starts when no other does, and none reaches it.
LEMMA CreateStays ==
  ASSUME CoordinatorSerializes, Inv, NEW f \in Flight, Create(f)
  PROVE  Inv'
<1>1. flight[f].pc = "create" /\ flight[f] # Idle /\ flight' = [flight EXCEPT ![f] = Idle]
  BY DEF Create, Idle, Finish, Continue
<1>2. PICK t \in Table, row \in Row : t = flight[f].table /\ row = flight[f].row
  BY <1>1, Kinds DEF Inv
<1>3. CASE UNCHANGED rows
  <2>1. Idle \in {Idle} \cup Flights
    OBVIOUS
  <2>2. QED
    BY <1>1, <1>3, <2>1, ReadStep
<1>4. CASE rows' # rows
  <2>1. /\ rows' = [rows EXCEPT ![t] = rows[t] \cup {row}]
        /\ \A r \in rows[t] : r.from # row.from
    BY <1>2, <1>4 DEF Create
  <2>2. /\ Fits(t, row)
        /\ \A r \in rows[t] : r.from < row.from => r.to < row.from
    BY <1>1, <1>2 DEF Inv, Ready
  <2>3. rows[t] \subseteq Row /\ Apart(t) /\ HasLatest(t)
    BY DEF Inv, TypeOK
  <2>4. /\ rows' \in [Table -> SUBSET Row]
        /\ rows'[t] = rows[t] \cup {row}
        /\ \A u \in Table \ {t} : rows'[u] = rows[u]
    BY <2>1, <2>3 DEF Inv, TypeOK
  <2>5. ASSUME NEW r \in rows[t]
        PROVE  /\ r.from # row.from
               /\ r.from < row.from => r.to < row.from
               /\ row.from < r.from => row.to < r.from
    BY <2>1, <2>2, <2>3, RowFields DEF Fits
  <2>6. Apart(t)'
    <3>1. ASSUME NEW r \in rows[t] \cup {row}, NEW q \in rows[t] \cup {row}
          PROVE  r.from <= r.to /\ (r.from = q.from => r = q) /\ (r.from < q.from => r.to < q.from)
      <4>1. CASE r \in rows[t] /\ q \in rows[t]
        BY <2>3, <4>1 DEF Apart
      <4>2. CASE r \in rows[t] /\ q = row
        BY <2>3, <2>5, <4>2 DEF Apart
      <4>3. CASE r = row /\ q \in rows[t]
        BY <2>2, <2>5, <4>3 DEF Fits
      <4>4. CASE r = row /\ q = row
        BY <2>2, <4>4, RowFields DEF Fits
      <4>5. QED
        BY <4>1, <4>2, <4>3, <4>4
    <3>2. QED
      BY <2>4, <3>1 DEF Apart
  <2>7. HasLatest(t)'
    <3>1. CASE rows[t] = {}
      BY <2>4, <3>1, RowFields DEF HasLatest
    <3>2. CASE rows[t] # {}
      <4>1. PICK l \in rows[t] : \A q \in rows[t] : q.from <= l.from
        BY <2>3, <3>2 DEF HasLatest
      <4>2. CASE l.from <= row.from
        <5>1. \A q \in rows[t] \cup {row} : q.from <= row.from
          BY <2>3, <4>1, <4>2, RowFields
        <5>2. QED
          BY <2>4, <5>1 DEF HasLatest
      <4>3. CASE ~(l.from <= row.from)
        <5>1. \A q \in rows[t] \cup {row} : q.from <= l.from
          BY <2>3, <4>1, <4>3, RowFields
        <5>2. QED
          BY <2>4, <5>1 DEF HasLatest
      <4>4. QED
        BY <4>2, <4>3
    <3>3. QED
      BY <3>1, <3>2
  <2>8. \A u \in Table : Apart(u)' /\ HasLatest(u)'
    <3>1. ASSUME NEW u \in Table \ {t}
          PROVE  Apart(u)' /\ HasLatest(u)'
      BY <2>4, <3>1 DEF Inv, Apart, HasLatest
    <3>2. QED
      BY <2>6, <2>7, <3>1
  <2>9. Alone' /\ \A g \in Flight : flight'[g] = Idle
    BY <1>1, AloneStep DEF Inv
  <2>10. TypeOK'
    BY <1>1, <2>4 DEF Inv, TypeOK
  <2>11. QED
    BY <2>8, <2>9, <2>10 DEF Inv
<1>5. QED
  BY <1>3, <1>4

-----------------------------------------------------------------------------
(* The theorems.                                                           *)

\* The invariant holds at the start.
LEMMA InvInit == Init => Inv
BY DEF Init, Inv, TypeOK, Apart, HasLatest, Alone

\* Every step keeps the invariant when the requests take turns.
LEMMA InvNext ==
  ASSUME CoordinatorSerializes, Inv, [Next]_vars
  PROVE  Inv'
<1>1. CASE UNCHANGED vars
  BY <1>1 DEF vars, Inv, TypeOK, Apart, HasLatest, Alone, Ready, Fits
<1>2. ASSUME NEW f \in Flight, Stop(f)
      PROVE  Inv'
  BY <1>2, ReadStep DEF Stop, Finish, Continue
<1>3. QED
  BY <1>1, <1>2, ProfileStep, AssignmentStep, PriorStep, TruncateStays, CreateStays DEF Next

\* The invariant holds in every behaviour.
LEMMA InvHolds ==
  ASSUME CoordinatorSerializes
  PROVE  Spec => []Inv
<1>1. Init => Inv
  BY InvInit
<1>2. Inv /\ [Next]_vars => Inv'
  BY InvNext
<1>3. QED
  BY <1>1, <1>2, PTL DEF Spec

\* Type correctness: the truncation of a row leaves a row.
THEOREM TypeCorrect ==
  ASSUME CoordinatorSerializes
  PROVE  Spec => []TypeOK
<1>1. Inv => TypeOK
  BY DEF Inv
<1>2. QED
  BY <1>1, InvHolds, PTL

\* The clock, the cron job, the approval of a leave and the payroll run find at most one row
\* in force on a date, wherever the requests that created the rows stopped.
THEOREM OneInForceHolds ==
  ASSUME CoordinatorSerializes
  PROVE  Spec => []OneInForce
<1>1. ASSUME Inv, NEW t \in Table, NEW d \in Date
      PROVE  Cardinality(InForce(t, d)) <= 1
  <2>1. rows[t] \subseteq Row /\ Apart(t)
    BY <1>1 DEF Inv, TypeOK
  <2>2. ASSUME NEW r \in InForce(t, d), NEW q \in InForce(t, d)
        PROVE  r = q
    <3>1. /\ r \in rows[t] /\ q \in rows[t] /\ r \in Row /\ q \in Row
          /\ r.from <= d /\ d <= r.to /\ q.from <= d /\ d <= q.to
      BY <2>1 DEF InForce
    <3>2. /\ r.from = q.from => r = q
          /\ r.from < q.from => r.to < q.from
          /\ q.from < r.from => q.to < r.from
      BY <2>1, <3>1 DEF Apart
    <3>3. QED
      BY <3>1, <3>2, RowFields DEF Date
  <2>3. CASE InForce(t, d) = {}
    BY <2>3, FS_EmptySet
  <2>4. CASE InForce(t, d) # {}
    <3>1. PICK r : InForce(t, d) = {r}
      BY <2>2, <2>4
    <3>2. Cardinality({r}) = 1
      BY FS_Singleton
    <3>3. QED
      BY <3>1, <3>2
  <2>5. QED
    BY <2>3, <2>4
<1>2. Inv => OneInForce
  BY <1>1 DEF OneInForce
<1>3. QED
  BY <1>2, InvHolds, PTL

\* createPayProfileV2 and createEmployeeStatutoryProfileV2 leave what is in force on a date
\* before the latest profile as it is.
THEOREM HistoryIsFixedHolds ==
  ASSUME CoordinatorSerializes
  PROVE  Spec => HistoryIsFixed
<1> DEFINE Fixed == \A t \in Profiles, d \in Date :
                      (\E r \in rows[t] : r.from > d) => InForce(t, d)' = InForce(t, d)
<1>1. ASSUME Inv, [Next]_vars, NEW t \in Profiles, NEW d \in Date, NEW later \in rows[t], later.from > d
      PROVE  InForce(t, d)' = InForce(t, d)
  <2>1. TypeOK /\ t \in Table /\ rows[t] \subseteq Row /\ Apart(t) /\ later \in Row
    BY <1>1 DEF Inv, TypeOK, Table
  <2>2. CASE rows'[t] = rows[t]
    BY <2>2 DEF InForce
  <2>3. ASSUME NEW f \in Flight, Create(f), rows'[t] # rows[t]
        PROVE  InForce(t, d)' = InForce(t, d)
    <3>1. flight[f].pc = "create" /\ flight[f] # Idle
      BY <2>3 DEF Create, Idle
    <3>2. PICK row \in Row : row = flight[f].row
      BY <2>1, <3>1, Kinds
    <3>3. t = flight[f].table /\ rows'[t] = rows[t] \cup {row}
      BY <2>1, <2>3, <3>1, <3>2, Kinds DEF Create, TypeOK
    <3>4. Fits(t, row)
      BY <1>1, <3>1, <3>2, <3>3 DEF Inv, Ready
    <3>5. later.from < row.from
      <4>1. later.from < row.from \/ OpenEnd < later.from
        BY <3>4 DEF Fits
      <4>2. QED
        BY <2>1, <4>1, RowFields, EffectiveDatingAssumption DEF Date, OpenEnd
    <3>6. ~(row.from <= d)
      BY <1>1, <2>1, <3>5, RowFields DEF Date
    <3>7. QED
      BY <3>3, <3>6 DEF InForce
  <2>4. ASSUME NEW f \in Flight, Truncate(f), rows'[t] # rows[t]
        PROVE  InForce(t, d)' = InForce(t, d)
    <3>1. flight[f].pc = "truncate" /\ flight[f] # Idle
      BY <2>4 DEF Truncate, Idle
    <3>2. PICK row \in Row, prior \in Date : row = flight[f].row /\ prior = flight[f].prior
      BY <2>1, <3>1, Kinds
    <3>3. t = flight[f].table /\ rows'[t] = {Cut(r, prior, row.from) : r \in rows[t]}
      BY <2>1, <2>4, <3>1, <3>2, Kinds DEF Truncate, Cut, TypeOK
    <3>4. /\ Fits(t, row)
          /\ \E p \in rows[t] : p.from = prior /\ p.from < row.from /\ row.from <= p.to
      BY <1>1, <3>1, <3>2, <3>3 DEF Inv, Ready
    <3>5. PICK p \in rows[t] : p.from = prior /\ p.from < row.from /\ row.from <= p.to
      BY <3>4
    <3>6. d < p.from
      <4>1. p \in Row /\ later.from < row.from
        <5>1. later.from < row.from \/ OpenEnd < later.from
          BY <3>4 DEF Fits
        <5>2. QED
          BY <2>1, <3>5, <5>1, RowFields, EffectiveDatingAssumption DEF Date, OpenEnd
      <4>2. p.from < later.from => p.to < later.from
        BY <2>1, <3>5 DEF Apart
      <4>3. QED
        BY <1>1, <2>1, <3>5, <4>1, <4>2, RowFields DEF Date
    <3>7. ASSUME NEW r \in rows[t]
          PROVE  /\ Cut(r, prior, row.from).from = r.from
                 /\ r.from <= d => Cut(r, prior, row.from) = r
      <4>1. r \in Row /\ p \in Row /\ row.from \in Date
        BY <2>1, <3>5, RowFields
      <4>2. /\ Cut(r, prior, row.from).from = r.from
            /\ r.from # prior => Cut(r, prior, row.from) = r
        BY <4>1, Cutting
      <4>3. r.from <= d => r.from # prior
        BY <3>5, <3>6, <4>1, RowFields DEF Date
      <4>4. QED
        BY <4>2, <4>3
    <3>8. QED
      BY <3>3, <3>7 DEF InForce
  <2>5. QED
    BY <1>1, <2>2, <2>3, <2>4 DEF Next, CreateProfile, CreateAssignment, Prior, Stop, vars
<1>2. Inv /\ [Next]_vars => Fixed
  BY <1>1
<1>3. Inv /\ [Next]_vars => [Fixed]_vars
  BY <1>2
<1>4. QED
  BY <1>3, InvHolds, PTL DEF Spec, HistoryIsFixed

-----------------------------------------------------------------------------
(* The profiles in the settings of MCAdministration.                       *)

\* A date from the start of some profile on has a profile, or is about to get one.
Followed(t) ==
  \A r \in rows[t], d \in Date :
    r.from <= d => \/ InForce(t, d) # {}
                   \/ \E f \in Flight : /\ flight[f].pc = "create" /\ flight[f].table = t
                                        /\ flight[f].row.from <= d

\* A request that does not stop takes the steps of one that may.
LEMMA ProfileSteps ==
  Profile!Next => \E f \in Flight : \/ \E t \in Profiles : CreateProfile(f, t)
                                    \/ CreateAssignment(f) \/ Prior(f) \/ Truncate(f) \/ Create(f)
BY DEF Profile!Next, Profile!CreateProfile, Profile!CreateAssignment, Profile!Prior, Profile!Truncate,
       Profile!Create, Profile!Stop, Profile!Profiles, Profile!Deliver, Profile!Continue, Profile!Finish,
       Profile!Latest, Profile!NewRow, Profile!Row, Profile!Date, Profile!OpenEnd, Profile!Covering,
       Profile!CreateStep, Profile!TruncateStep, Profile!Idle, Profile!previousIsoDate, CreateProfile,
       CreateAssignment, Prior, Truncate, Create, Profiles, Deliver, Continue, Finish, Latest, NewRow,
       Row, Date, OpenEnd, Covering, CreateStep, TruncateStep, Idle, previousIsoDate

\* A new profile starts on the row it follows, or once that row has ended: a request that reads
\* leaves what is covered, and before it nothing was about to be created.
LEMMA FollowedRead ==
  ASSUME CoordinatorSerializes, Inv, \A t \in Profiles : Followed(t), NEW f \in Flight,
         (\E t \in Profiles : CreateProfile(f, t)) \/ CreateAssignment(f) \/ Prior(f), NEW t \in Profiles
  PROVE  Followed(t)'
<1>1. UNCHANGED rows /\ flight[f].pc # "create"
  BY DEF CreateProfile, CreateAssignment, Prior, Deliver, Idle
<1>2. \E step : flight' = [flight EXCEPT ![f] = step]
  BY DEF CreateProfile, CreateAssignment, Prior, Continue
<1>3. \A g \in Flight : flight[g].pc = "create" => flight'[g] = flight[g]
  BY <1>1, <1>2 DEF Inv, TypeOK
<1>4. QED
  BY <1>1, <1>3 DEF Followed, InForce

\* The dates that a truncation uncovers are those of the profile about to be created.
LEMMA FollowedTruncate ==
  ASSUME CoordinatorSerializes, Inv, \A t \in Profiles : Followed(t),
         NEW f \in Flight, Truncate(f), NEW u \in Profiles
  PROVE  Followed(u)'
<1>1. flight[f].pc = "truncate" /\ flight[f] # Idle
  BY DEF Truncate, Idle
<1>2. PICK t \in Table, row \in Row, prior \in Date :
        t = flight[f].table /\ row = flight[f].row /\ prior = flight[f].prior
  BY <1>1, Kinds DEF Inv
<1>3. /\ rows' = [rows EXCEPT ![t] = {Cut(r, prior, row.from) : r \in rows[t]}]
      /\ flight' = [flight EXCEPT ![f] = CreateStep(t, row)]
  BY <1>2 DEF Truncate, Cut, Continue
<1>4. \A g \in Flight : flight[g].pc # "create"
  BY <1>1 DEF Inv, Alone, Idle
<1>5. flight'[f] = CreateStep(t, row)
  BY <1>3 DEF Inv, TypeOK
<1>6. u \in Table /\ rows[u] \subseteq Row /\ row.from \in Date
  BY RowFields DEF Inv, TypeOK, Table
<1>7. CASE u # t
  <2>1. rows'[u] = rows[u]
    BY <1>3, <1>7
  <2>2. QED
    BY <1>4, <2>1 DEF Followed, InForce
<1>8. CASE u = t
  <2>1. rows'[t] = {Cut(r, prior, row.from) : r \in rows[t]}
    BY <1>3 DEF Inv, TypeOK
  <2>2. SUFFICES ASSUME NEW c \in rows'[t], NEW d \in Date, c.from <= d, ~(row.from <= d)
                 PROVE  InForce(t, d)' # {}
    BY <1>5, <1>8 DEF Followed, CreateStep
  <2>3. PICK r \in rows[t] : c = Cut(r, prior, row.from)
    BY <2>1
  <2>4. r.from <= d
    BY <1>6, <1>8, <2>2, <2>3, Cutting
  <2>5. PICK q \in rows[t] : q.from <= d /\ d <= q.to
    BY <1>4, <1>8, <2>4 DEF Followed, InForce
  <2>6. q \in Row /\ Cut(q, prior, row.from) \in rows'[t]
    BY <1>6, <1>8, <2>1
  <2>7. Cut(q, prior, row.from).from <= d /\ d <= Cut(q, prior, row.from).to
    <3>1. CASE q.from = prior
      <4>1. Cut(q, prior, row.from).to = row.from - 1 /\ Cut(q, prior, row.from).from = q.from
        BY <1>6, <2>6, <3>1, Cutting
      <4>2. d <= row.from - 1
        BY <1>6, <2>2 DEF Date
      <4>3. QED
        BY <2>5, <4>1, <4>2
    <3>2. CASE q.from # prior
      BY <1>6, <2>5, <2>6, <3>2, Cutting
    <3>3. QED
      BY <3>1, <3>2
  <2>8. QED
    BY <2>6, <2>7 DEF InForce
<1>9. QED
  BY <1>7, <1>8

\* The profile that is created covers the dates that waited for it.
LEMMA FollowedCreate ==
  ASSUME CoordinatorSerializes, Inv, \A t \in Profiles : Followed(t),
         NEW f \in Flight, Create(f), NEW u \in Profiles
  PROVE  Followed(u)'
<1>1. flight[f].pc = "create" /\ flight[f] # Idle
  BY DEF Create, Idle
<1>2. PICK t \in Table, row \in Row : t = flight[f].table /\ row = flight[f].row
  BY <1>1, Kinds DEF Inv
<1>3. rows' = IF \E r \in rows[t] : r.from = row.from THEN rows ELSE [rows EXCEPT ![t] = rows[t] \cup {row}]
  BY <1>2 DEF Create
<1>4. \A g \in Flight : flight[g].pc = "create" => g = f
  BY <1>1 DEF Inv, Alone, Idle
<1>5. u \in Table /\ rows[u] \subseteq Row /\ row.from \in Date
  BY RowFields DEF Inv, TypeOK, Table
<1>6. CASE u # t
  <2>1. rows'[u] = rows[u]
    BY <1>3, <1>6
  <2>2. ASSUME NEW r \in rows[u], NEW d \in Date, r.from <= d
        PROVE  InForce(u, d) # {}
    BY <1>2, <1>4, <1>6, <2>2 DEF Followed
  <2>3. QED
    BY <2>1, <2>2 DEF Followed, InForce
<1>7. CASE u = t
  <2>1. row.to = OpenEnd /\ \A r \in rows[t] : r.from < row.from \/ row.to < r.from
    BY <1>1, <1>2, <1>7 DEF Inv, Ready, Fits
  <2>2. \A r \in rows[t] : r.from # row.from
    <3>1. SUFFICES ASSUME NEW r \in rows[t] PROVE r.from # row.from
      OBVIOUS
    <3>2. r \in Row
      BY <1>5, <1>7
    <3>3. QED
      BY <1>5, <2>1, <3>2, RowFields, EffectiveDatingAssumption DEF Date, OpenEnd
  <2>3. rows'[t] = rows[t] \cup {row}
    BY <1>3, <2>2 DEF Inv, TypeOK
  <2>4. ASSUME NEW d \in Date, row.from <= d
        PROVE  row \in InForce(t, d)'
    <3>1. d <= row.to
      BY <2>1, EffectiveDatingAssumption DEF Date, OpenEnd
    <3>2. QED
      BY <2>3, <2>4, <3>1 DEF InForce
  <2>5. ASSUME NEW r \in rows[t], NEW d \in Date, r.from <= d, ~(row.from <= d)
        PROVE  InForce(t, d)' # {}
    <3>1. InForce(t, d) # {}
      BY <1>2, <1>4, <1>7, <2>5 DEF Followed
    <3>2. QED
      BY <2>3, <3>1 DEF InForce
  <2>6. ASSUME NEW r \in rows'[t], NEW d \in Date, r.from <= d
        PROVE  InForce(t, d)' # {}
    BY <2>3, <2>4, <2>5, <2>6
  <2>7. QED
    BY <1>7, <2>6 DEF Followed
<1>8. QED
  BY <1>6, <1>7

ProfilesInv == Inv /\ \A t \in Profiles : Followed(t)

\* Every step of the part without stops keeps both.
LEMMA ProfilesNext ==
  ASSUME CoordinatorSerializes, ProfilesInv, Profile!Next
  PROVE  ProfilesInv'
<1>1. PICK f \in Flight : \/ \E t \in Profiles : CreateProfile(f, t)
                          \/ CreateAssignment(f) \/ Prior(f) \/ Truncate(f) \/ Create(f)
  BY ProfileSteps
<1>2. Inv'
  BY <1>1, ProfileStep, AssignmentStep, PriorStep, TruncateStays, CreateStays DEF ProfilesInv
<1>3. ASSUME NEW t \in Profiles
      PROVE  Followed(t)'
  BY <1>1, FollowedRead, FollowedTruncate, FollowedCreate DEF ProfilesInv
<1>4. QED
  BY <1>2, <1>3 DEF ProfilesInv, Profiles

\* Once every request is over, each date from the first profile on has one.
LEMMA ProfilesFollow == ProfilesInv => Profile!NoGapBetweenProfiles
<1> SUFFICES ASSUME ProfilesInv, \A f \in Flight : flight[f] = Idle,
                    NEW t \in Profiles, NEW r \in rows[t], NEW d \in r.from..MaxDate
             PROVE  InForce(t, d) # {}
  BY DEF Profile!NoGapBetweenProfiles, Profile!Idle, Idle, Profile!Profiles, Profiles, Profile!InForce,
         InForce
<1>1. r \in Row
  BY DEF ProfilesInv, Inv, TypeOK, Table
<1>2. d \in Date /\ r.from <= d
  BY <1>1, RowFields, EffectiveDatingAssumption DEF Date
<1>3. \A f \in Flight : flight[f].pc # "create"
  BY DEF Idle
<1>4. QED
  BY <1>2, <1>3 DEF ProfilesInv, Followed

-----------------------------------------------------------------------------
(* What createAdminClient and updateWorkforceEmployeeV2 set up.            *)

SetupOrganization == {o1, o2}
SetupEmployee == {e1, e2, e3}
SetupParts == {"policy"} \cup WholeSetup!DefaultLeave

\* The types of both parts of the set-up, but for the worksites, of which one part has none.
SetupTypes ==
  /\ organizations \in [SetupOrganization -> WholeSetup!Spelling \cup {WholeSetup!NoRow}]
  /\ policies \subseteq SetupOrganization
  /\ leaveTypes \subseteq SetupOrganization \X WholeSetup!DefaultLeave
  /\ numbers \in [SetupEmployee -> Number \cup {none}]
  /\ setupFlight \in [Flight -> {WholeSetup!Idle} \cup WholeSetup!Flights]

SetupAlone == \A f, g \in Flight : setupFlight[f] # WholeSetup!Idle /\ setupFlight[g] # WholeSetup!Idle => f = g

\* What a request has looked up is still so when it writes.
NamesHold ==
  \A f \in Flight :
    /\ setupFlight[f].pc = "create" => ~WholeSetup!Duplicate(setupFlight[f].spelling)
    /\ setupFlight[f].pc = "update" => ~WholeSetup!NumberTaken(setupFlight[f].employee, setupFlight[f].number)

SetupInv ==
  /\ SetupTypes /\ SetupAlone /\ NamesHold
  /\ WholeSetup!OrganizationNamesDiffer /\ WholeSetup!EmployeeNumbersDiffer

HasPart(o, row) == IF row = "policy" THEN o \in policies ELSE <<o, row>> \in leaveTypes

\* An organization has its policy and leave types, or the request that creates them is under way.
NestedIsUnderWay ==
  \A o \in WholeSetup!Existing(organizations), row \in SetupParts :
    \/ HasPart(o, row)
    \/ \E f \in Flight : /\ setupFlight[f].pc = "nested" /\ setupFlight[f].organization = o
                         /\ row \in setupFlight[f].left

\* The fields of a request in flight.
LEMMA SetupKinds ==
  ASSUME SetupTypes, NEW f \in Flight
  PROVE  /\ setupFlight[f].pc = "create" =>
              /\ setupFlight[f].organization \in SetupOrganization
              /\ setupFlight[f].spelling \in WholeSetup!Spelling
         /\ setupFlight[f].pc = "nested" =>
              /\ setupFlight[f].organization \in SetupOrganization
              /\ setupFlight[f].left \in SUBSET SetupParts
              /\ setupFlight[f] \in [pc : {"nested"}, organization : SetupOrganization, left : SUBSET SetupParts]
         /\ setupFlight[f].pc = "update" =>
              /\ setupFlight[f].employee \in SetupEmployee /\ setupFlight[f].number \in Number \cup {none}
BY DEF SetupTypes, WholeSetup!Flights, WholeSetup!Idle, SetupOrganization, SetupEmployee, SetupParts

\* A request that is delivered, or goes on, is the only one.
LEMMA SetupTurns ==
  ASSUME SetupTypes, SetupAlone, NEW f \in Flight, NEW step,
         setupFlight[f] # WholeSetup!Idle \/ \A g \in Flight : setupFlight[g] = WholeSetup!Idle,
         setupFlight' = [setupFlight EXCEPT ![f] = step]
  PROVE  /\ setupFlight'[f] = step
         /\ \A g \in Flight : g # f => setupFlight'[g] = WholeSetup!Idle /\ setupFlight[g] = WholeSetup!Idle
         /\ SetupAlone'
<1>1. \A g \in Flight : g # f => setupFlight[g] = WholeSetup!Idle
  BY DEF SetupAlone
<1>2. setupFlight'[f] = step /\ \A g \in Flight : g # f => setupFlight'[g] = WholeSetup!Idle
  BY <1>1 DEF SetupTypes
<1>3. \A g \in Flight : setupFlight'[g] # WholeSetup!Idle => g = f
  BY <1>2
<1>4. SetupAlone'
  BY <1>3 DEF SetupAlone, WholeSetup!Idle
<1>5. QED
  BY <1>1, <1>2, <1>4

\* Names are looked up before an organization is created.
LEMMA SetupReadNames ==
  ASSUME SetupInv, NEW f \in Flight, NEW o \in SetupOrganization, NEW spelling \in WholeSetup!Spelling,
         Setup!ReadNames(f, o, spelling) \/ WholeSetup!ReadNames(f, o, spelling)
  PROVE  SetupInv' /\ (NestedIsUnderWay => NestedIsUnderWay')
<1> DEFINE step == [pc |-> "create", organization |-> o, spelling |-> spelling]
<1>1. /\ \A g \in Flight : setupFlight[g] = WholeSetup!Idle
      /\ setupFlight' = [setupFlight EXCEPT ![f] = step]
      /\ ~WholeSetup!Duplicate(spelling)
      /\ UNCHANGED <<organizations, policies, leaveTypes, numbers>>
  BY DEF Setup!ReadNames, WholeSetup!ReadNames, Setup!Deliver, WholeSetup!Deliver, Setup!Continue,
         WholeSetup!Continue, Setup!Duplicate, WholeSetup!Duplicate, Setup!Existing, WholeSetup!Existing,
         Setup!NoRow, WholeSetup!NoRow, Setup!Idle, WholeSetup!Idle
<1>2. step \in WholeSetup!Flights /\ step.pc = "create" /\ step.spelling = spelling
  BY DEF WholeSetup!Flights, SetupOrganization
<1> HIDE DEF step
<1>3. /\ setupFlight'[f] = step
      /\ \A g \in Flight : g # f => setupFlight'[g] = WholeSetup!Idle
      /\ SetupAlone'
  BY <1>1, SetupTurns DEF SetupInv
<1>4. SetupTypes'
  BY <1>1, <1>2
  DEF SetupInv, SetupTypes, WholeSetup!Idle, WholeSetup!Flights, WholeSetup!Spelling, WholeSetup!NoRow,
      WholeSetup!DefaultLeave
<1>5. NamesHold'
  BY <1>1, <1>2, <1>3
  DEF NamesHold, WholeSetup!Idle, WholeSetup!Duplicate, WholeSetup!Existing, WholeSetup!NoRow,
      WholeSetup!NumberTaken
<1>6. QED
  BY <1>1, <1>3, <1>4, <1>5
  DEF SetupInv, WholeSetup!OrganizationNamesDiffer, WholeSetup!EmployeeNumbersDiffer, NestedIsUnderWay,
      HasPart, WholeSetup!Existing, WholeSetup!Idle, WholeSetup!NoRow, WholeSetup!DefaultLeave

\* createAdminClient creates an organization whose name is still free.
LEMMA SetupCreate ==
  ASSUME SetupInv, NEW f \in Flight, Setup!CreateOrganization(f) \/ WholeSetup!CreateOrganization(f)
  PROVE  SetupInv' /\ (NestedIsUnderWay => NestedIsUnderWay')
<1>1. setupFlight[f].pc = "create" /\ setupFlight[f] # WholeSetup!Idle
  BY DEF Setup!CreateOrganization, WholeSetup!CreateOrganization, WholeSetup!Idle
<1>2. PICK o \in SetupOrganization, spelling \in WholeSetup!Spelling :
        o = setupFlight[f].organization /\ spelling = setupFlight[f].spelling
  BY <1>1, SetupKinds DEF SetupInv
<1> DEFINE step == [pc |-> "nested", organization |-> o, left |-> SetupParts]
<1>3. /\ organizations[o] = WholeSetup!NoRow
      /\ organizations' = [organizations EXCEPT ![o] = spelling]
      /\ setupFlight' = [setupFlight EXCEPT ![f] = step]
      /\ UNCHANGED <<policies, leaveTypes, numbers>>
  BY <1>2 DEF Setup!CreateOrganization, WholeSetup!CreateOrganization, Setup!Continue, WholeSetup!Continue,
              Setup!NoRow, WholeSetup!NoRow, Setup!DefaultLeave, WholeSetup!DefaultLeave, SetupParts
<1>4. /\ step \in WholeSetup!Flights /\ step.pc = "nested" /\ step.organization = o /\ step.left = SetupParts
  BY DEF WholeSetup!Flights, SetupOrganization, SetupParts
<1> HIDE DEF step
<1>5. /\ setupFlight'[f] = step
      /\ \A g \in Flight : g # f => setupFlight'[g] = WholeSetup!Idle
      /\ SetupAlone'
  BY <1>1, <1>3, SetupTurns DEF SetupInv
<1>6. /\ organizations' \in [SetupOrganization -> WholeSetup!Spelling \cup {WholeSetup!NoRow}]
      /\ organizations'[o] = spelling /\ \A p \in SetupOrganization : p # o => organizations'[p] = organizations[p]
  BY <1>2, <1>3 DEF SetupInv, SetupTypes
<1>7. SetupTypes'
  BY <1>3, <1>4, <1>6 DEF SetupInv, SetupTypes, WholeSetup!Idle, WholeSetup!Flights, WholeSetup!Spelling,
                          WholeSetup!NoRow, WholeSetup!DefaultLeave
<1>8. NamesHold'
  BY <1>4, <1>5 DEF NamesHold, WholeSetup!Idle
<1>9. WholeSetup!OrganizationNamesDiffer'
  <2>1. ~WholeSetup!Duplicate(spelling)
    BY <1>1, <1>2 DEF SetupInv, NamesHold
  <2>2. \A p \in SetupOrganization : organizations[p] # WholeSetup!NoRow => organizations[p].name # spelling.name
    BY <2>1 DEF WholeSetup!Duplicate, WholeSetup!Existing, SetupInv, SetupTypes
  <2>3. \A p, q \in SetupOrganization :
          organizations[p] # WholeSetup!NoRow /\ organizations[q] # WholeSetup!NoRow
            /\ organizations[p].name = organizations[q].name => p = q
    BY DEF SetupInv, WholeSetup!OrganizationNamesDiffer, WholeSetup!Existing, SetupTypes
  <2>4. \A p, q \in SetupOrganization :
          organizations'[p] # WholeSetup!NoRow /\ organizations'[q] # WholeSetup!NoRow
            /\ organizations'[p].name = organizations'[q].name => p = q
    BY <1>6, <2>2, <2>3
  <2>5. DOMAIN organizations' = SetupOrganization
    BY <1>6
  <2>6. QED
    BY <2>4, <2>5 DEF WholeSetup!OrganizationNamesDiffer, WholeSetup!Existing, WholeSetup!NoRow
<1>10. WholeSetup!EmployeeNumbersDiffer'
  BY <1>3 DEF SetupInv, WholeSetup!EmployeeNumbersDiffer
<1>11. NestedIsUnderWay => NestedIsUnderWay'
  <2> SUFFICES ASSUME NestedIsUnderWay, NEW p \in WholeSetup!Existing(organizations)', NEW row \in SetupParts
                 PROVE  HasPart(p, row)' \/ \E g \in Flight : /\ setupFlight'[g].pc = "nested"
                                                              /\ setupFlight'[g].organization = p
                                                              /\ row \in setupFlight'[g].left
    BY DEF NestedIsUnderWay, SetupParts, WholeSetup!DefaultLeave
  <2>2. p \in SetupOrganization /\ organizations'[p] # WholeSetup!NoRow
    BY <1>6 DEF WholeSetup!Existing, WholeSetup!NoRow
  <2>3. CASE p = o
    BY <1>4, <1>5, <2>3
  <2>4. CASE p # o
    <3>1. p \in WholeSetup!Existing(organizations)
      BY <1>6, <2>2, <2>4 DEF WholeSetup!Existing, SetupInv, SetupTypes
    <3>2. \A g \in Flight : setupFlight[g].pc # "nested"
      BY <1>1 DEF SetupInv, SetupAlone, WholeSetup!Idle
    <3>3. HasPart(p, row)
      BY <3>1, <3>2 DEF NestedIsUnderWay
    <3>4. QED
      BY <1>3, <3>3 DEF HasPart
  <2>5. QED
    BY <2>3, <2>4
<1>12. QED
  BY <1>5, <1>7, <1>8, <1>9, <1>10, <1>11 DEF SetupInv

\* The nested rows, one by one: what is left is what is missing.
LEMMA SetupNested ==
  ASSUME SetupInv, NEW f \in Flight, Setup!CreateNested(f) \/ WholeSetup!CreateNested(f)
  PROVE  SetupInv' /\ (NestedIsUnderWay => NestedIsUnderWay')
<1>1. setupFlight[f].pc = "nested" /\ setupFlight[f] # WholeSetup!Idle
  BY DEF Setup!CreateNested, WholeSetup!CreateNested, WholeSetup!Idle
<1>2. PICK o \in SetupOrganization, all \in SUBSET SetupParts :
        /\ o = setupFlight[f].organization /\ all = setupFlight[f].left
  BY <1>1, SetupKinds DEF SetupInv
<1>3. PICK row \in all :
        /\ IF row = "policy"
           THEN policies' = policies \cup {o} /\ UNCHANGED leaveTypes
           ELSE leaveTypes' = leaveTypes \cup {<<o, row>>} /\ UNCHANGED policies
        /\ setupFlight' = [setupFlight EXCEPT ![f] =
             IF all \ {row} = {} THEN WholeSetup!Idle ELSE [setupFlight[f] EXCEPT !.left = all \ {row}]]
        /\ UNCHANGED <<organizations, numbers>>
  BY <1>2 DEF Setup!CreateNested, WholeSetup!CreateNested, Setup!Continue, WholeSetup!Continue,
              Setup!Idle, WholeSetup!Idle
<1> DEFINE step == IF all \ {row} = {} THEN WholeSetup!Idle ELSE [setupFlight[f] EXCEPT !.left = all \ {row}]
<1>4. setupFlight[f] \in [pc : {"nested"}, organization : SetupOrganization, left : SUBSET SetupParts]
  BY <1>1, SetupKinds DEF SetupInv
<1>5. /\ step \in {WholeSetup!Idle} \cup WholeSetup!Flights
      /\ step.pc \notin {"create", "update"}
      /\ all \ {row} # {} => step.pc = "nested" /\ step.organization = o /\ step.left = all \ {row}
  <2>1. CASE all \ {row} = {}
    BY <2>1 DEF WholeSetup!Idle
  <2>2. CASE all \ {row} # {}
    <3>1. step = [pc |-> "nested", organization |-> o, left |-> all \ {row}]
      BY <1>2, <1>4, <2>2
    <3>2. QED
      BY <2>2, <3>1 DEF WholeSetup!Flights, SetupOrganization, SetupParts
  <2>3. QED
    BY <2>1, <2>2
<1>6. setupFlight' = [setupFlight EXCEPT ![f] = step]
  BY <1>3
<1> HIDE DEF step
<1>7. /\ setupFlight'[f] = step
      /\ \A g \in Flight : g # f => setupFlight'[g] = WholeSetup!Idle /\ setupFlight[g] = WholeSetup!Idle
      /\ SetupAlone'
  BY <1>1, <1>6, SetupTurns DEF SetupInv
<1>8. policies' \subseteq SetupOrganization /\ leaveTypes' \subseteq SetupOrganization \X WholeSetup!DefaultLeave
  BY <1>3 DEF SetupInv, SetupTypes, SetupParts
<1>9. SetupTypes'
  BY <1>3, <1>5, <1>6, <1>8
  DEF SetupInv, SetupTypes, WholeSetup!Idle, WholeSetup!Flights, WholeSetup!Spelling, WholeSetup!NoRow,
      WholeSetup!DefaultLeave
<1>10. NamesHold'
  BY <1>5, <1>7 DEF NamesHold, WholeSetup!Idle
<1>11. WholeSetup!OrganizationNamesDiffer' /\ WholeSetup!EmployeeNumbersDiffer'
  BY <1>3
  DEF SetupInv, WholeSetup!OrganizationNamesDiffer, WholeSetup!EmployeeNumbersDiffer, WholeSetup!Existing,
      WholeSetup!NoRow
<1>12. NestedIsUnderWay => NestedIsUnderWay'
  <2> SUFFICES ASSUME NestedIsUnderWay, NEW p \in WholeSetup!Existing(organizations), NEW part2 \in SetupParts
                 PROVE  HasPart(p, part2)' \/ \E g \in Flight : /\ setupFlight'[g].pc = "nested"
                                                                /\ setupFlight'[g].organization = p
                                                                /\ part2 \in setupFlight'[g].left
    BY <1>3 DEF NestedIsUnderWay, SetupParts, WholeSetup!DefaultLeave, WholeSetup!Existing, WholeSetup!NoRow
  <2>2. CASE HasPart(p, part2)
    BY <1>3, <2>2 DEF HasPart
  <2>3. ASSUME NEW g \in Flight, setupFlight[g].pc = "nested", setupFlight[g].organization = p,
               part2 \in setupFlight[g].left
        PROVE  HasPart(p, part2)' \/ \E h \in Flight : /\ setupFlight'[h].pc = "nested"
                                                       /\ setupFlight'[h].organization = p
                                                       /\ part2 \in setupFlight'[h].left
    <3>1. g = f /\ p = o /\ part2 \in all
      BY <1>2, <1>7, <2>3 DEF WholeSetup!Idle
    <3>2. CASE part2 = row
      BY <1>3, <3>1, <3>2 DEF HasPart
    <3>3. CASE part2 # row
      BY <1>5, <1>7, <3>1, <3>3
    <3>4. QED
      BY <3>2, <3>3
  <2>4. QED
    BY <2>2, <2>3 DEF NestedIsUnderWay
<1>13. QED
  BY <1>7, <1>9, <1>10, <1>11, <1>12 DEF SetupInv

\* updateWorkforceEmployeeV2 looks for another employee with the number.
LEMMA SetupReadNumbers ==
  ASSUME SetupInv, NEW f \in Flight, NEW e \in SetupEmployee, NEW number \in Number \cup {none},
         Setup!ReadNumbers(f, e, number) \/ WholeSetup!ReadNumbers(f, e, number)
  PROVE  SetupInv' /\ (NestedIsUnderWay => NestedIsUnderWay')
<1> DEFINE step == [pc |-> "update", employee |-> e, number |-> number]
<1>1. /\ \A g \in Flight : setupFlight[g] = WholeSetup!Idle
      /\ setupFlight' = [setupFlight EXCEPT ![f] = step]
      /\ ~WholeSetup!NumberTaken(e, number)
      /\ UNCHANGED <<organizations, policies, leaveTypes, numbers>>
  BY DEF Setup!ReadNumbers, WholeSetup!ReadNumbers, Setup!Deliver, WholeSetup!Deliver, Setup!Continue,
         WholeSetup!Continue, Setup!NumberTaken, WholeSetup!NumberTaken, Setup!Idle, WholeSetup!Idle
<1>2. step \in WholeSetup!Flights /\ step.pc = "update" /\ step.employee = e /\ step.number = number
  BY DEF WholeSetup!Flights, SetupEmployee
<1> HIDE DEF step
<1>3. /\ setupFlight'[f] = step
      /\ \A g \in Flight : g # f => setupFlight'[g] = WholeSetup!Idle
      /\ SetupAlone'
  BY <1>1, SetupTurns DEF SetupInv
<1>4. SetupTypes'
  BY <1>1, <1>2
  DEF SetupInv, SetupTypes, WholeSetup!Idle, WholeSetup!Flights, WholeSetup!Spelling, WholeSetup!NoRow,
      WholeSetup!DefaultLeave
<1>5. NamesHold'
  <2>1. ~WholeSetup!NumberTaken(e, number)'
    BY <1>1 DEF WholeSetup!NumberTaken
  <2>2. setupFlight'[f].pc = "update" /\ \A g \in Flight : g # f => setupFlight'[g].pc = "idle"
    BY <1>2, <1>3 DEF WholeSetup!Idle
  <2>3. setupFlight'[f].employee = e /\ setupFlight'[f].number = number
    BY <1>2, <1>3
  <2>4. ~WholeSetup!NumberTaken(setupFlight[f].employee, setupFlight[f].number)'
    BY <2>1, <2>3 DEF WholeSetup!NumberTaken
  <2>5. QED
    BY <2>2, <2>4 DEF NamesHold
<1>6. QED
  BY <1>1, <1>3, <1>4, <1>5
  DEF SetupInv, WholeSetup!OrganizationNamesDiffer, WholeSetup!EmployeeNumbersDiffer, NestedIsUnderWay,
      HasPart, WholeSetup!Existing, WholeSetup!Idle, WholeSetup!NoRow, WholeSetup!DefaultLeave

\* It writes the number while no other employee of the organization has it.
LEMMA SetupUpdate ==
  ASSUME SetupInv, NEW f \in Flight, Setup!UpdateEmployee(f) \/ WholeSetup!UpdateEmployee(f)
  PROVE  SetupInv' /\ (NestedIsUnderWay => NestedIsUnderWay')
<1>1. setupFlight[f].pc = "update" /\ setupFlight[f] # WholeSetup!Idle
  BY DEF Setup!UpdateEmployee, WholeSetup!UpdateEmployee, WholeSetup!Idle
<1>2. PICK e \in SetupEmployee, number \in Number \cup {none} :
        e = setupFlight[f].employee /\ number = setupFlight[f].number
  BY <1>1, SetupKinds DEF SetupInv
<1>3. /\ numbers' = [numbers EXCEPT ![e] = number]
      /\ setupFlight' = [setupFlight EXCEPT ![f] = WholeSetup!Idle]
      /\ UNCHANGED <<organizations, policies, leaveTypes>>
  BY <1>2 DEF Setup!UpdateEmployee, WholeSetup!UpdateEmployee, Setup!Continue, WholeSetup!Continue,
              Setup!Idle, WholeSetup!Idle
<1>4. /\ setupFlight'[f] = WholeSetup!Idle
      /\ \A g \in Flight : g # f => setupFlight'[g] = WholeSetup!Idle /\ setupFlight[g] = WholeSetup!Idle
      /\ SetupAlone'
  BY <1>1, <1>3, SetupTurns DEF SetupInv
<1>5. /\ numbers' \in [SetupEmployee -> Number \cup {none}]
      /\ numbers'[e] = number /\ \A d \in SetupEmployee : d # e => numbers'[d] = numbers[d]
  BY <1>2, <1>3 DEF SetupInv, SetupTypes
<1>6. SetupTypes'
  BY <1>3, <1>5 DEF SetupInv, SetupTypes, WholeSetup!Idle, WholeSetup!Flights, WholeSetup!Spelling,
                    WholeSetup!NoRow, WholeSetup!DefaultLeave
<1>7. NamesHold'
  BY <1>4 DEF NamesHold, WholeSetup!Idle
<1>8. WholeSetup!OrganizationNamesDiffer'
  BY <1>3 DEF SetupInv, WholeSetup!OrganizationNamesDiffer, WholeSetup!Existing, WholeSetup!NoRow
<1>9. WholeSetup!EmployeeNumbersDiffer'
  <2> DEFINE EmployerOf(d) == IF d = e3 THEN o2 ELSE o1
  <2>1. number # none => \A d \in SetupEmployee : d # e => ~(numbers[d] = number /\ EmployerOf(d) = EmployerOf(e))
    <3>1. ~WholeSetup!NumberTaken(e, number)
      BY <1>1, <1>2 DEF SetupInv, NamesHold
    <3>2. QED
      BY <3>1 DEF WholeSetup!NumberTaken, SetupEmployee
  <2>2. \A c, d \in SetupEmployee :
          numbers[c] # none /\ numbers[c] = numbers[d] /\ EmployerOf(c) = EmployerOf(d) => c = d
    BY DEF SetupInv, WholeSetup!EmployeeNumbersDiffer, SetupEmployee
  <2> HIDE DEF EmployerOf
  <2>3. \A c, d \in SetupEmployee :
          numbers'[c] # none /\ numbers'[c] = numbers'[d] /\ EmployerOf(c) = EmployerOf(d) => c = d
    BY <1>5, <2>1, <2>2
  <2>4. QED
    BY <2>3 DEF EmployerOf, WholeSetup!EmployeeNumbersDiffer, SetupEmployee
<1>10. NestedIsUnderWay => NestedIsUnderWay'
  <2>1. \A g \in Flight : setupFlight[g].pc # "nested"
    BY <1>1, <1>4 DEF WholeSetup!Idle
  <2>2. NestedIsUnderWay => \A o \in WholeSetup!Existing(organizations), row \in SetupParts : HasPart(o, row)
    BY <2>1 DEF NestedIsUnderWay
  <2>3. QED
    BY <1>3, <2>2 DEF NestedIsUnderWay, HasPart, WholeSetup!Existing, WholeSetup!NoRow, SetupParts,
                      WholeSetup!DefaultLeave
<1>11. QED
  BY <1>4, <1>6, <1>7, <1>8, <1>9, <1>10 DEF SetupInv

\* A step that leaves the tables, and of the requests ends at most one.
LEMMA SetupEnds ==
  ASSUME SetupInv, UNCHANGED <<organizations, policies, leaveTypes, numbers>>,
         \/ setupFlight' = setupFlight
         \/ \E f \in Flight : setupFlight' = [setupFlight EXCEPT ![f] = WholeSetup!Idle]
  PROVE  SetupInv'
<1>1. \A g \in Flight : setupFlight'[g] \in {setupFlight[g], WholeSetup!Idle}
  BY DEF SetupInv, SetupTypes
<1>2. SetupTypes'
  BY DEF SetupInv, SetupTypes, WholeSetup!Idle, WholeSetup!Flights, WholeSetup!Spelling, WholeSetup!NoRow,
         WholeSetup!DefaultLeave
<1>3. SetupAlone'
  BY <1>1 DEF SetupInv, SetupAlone, WholeSetup!Idle
<1>4. NamesHold'
  BY <1>1
  DEF SetupInv, NamesHold, WholeSetup!Idle, WholeSetup!Duplicate, WholeSetup!Existing, WholeSetup!NoRow,
      WholeSetup!NumberTaken
<1>5. QED
  BY <1>2, <1>3, <1>4 DEF SetupInv, WholeSetup!OrganizationNamesDiffer, WholeSetup!EmployeeNumbersDiffer,
                          WholeSetup!Existing, WholeSetup!NoRow

\* Wherever its requests stop, a step of the set-up keeps names and numbers apart.
LEMMA NamesNext ==
  ASSUME SetupInv, Setup!Next
  PROVE  SetupInv'
<1>1. ASSUME NEW f \in Flight, Setup!Stop(f)
      PROVE  SetupInv'
  <2>1. UNCHANGED <<organizations, policies, leaveTypes, numbers>>
        /\ setupFlight' = [setupFlight EXCEPT ![f] = WholeSetup!Idle]
    BY <1>1 DEF Setup!Stop, Setup!Continue, Setup!Idle, WholeSetup!Idle
  <2>2. QED
    BY <2>1, SetupEnds
<1>2. Setup!Next =>
        \E f \in Flight :
          \/ \E o \in SetupOrganization, spelling \in WholeSetup!Spelling : Setup!ReadNames(f, o, spelling)
          \/ Setup!CreateOrganization(f) \/ Setup!CreateNested(f)
          \/ \E e \in SetupEmployee, number \in Number \cup {none} : Setup!ReadNumbers(f, e, number)
          \/ Setup!UpdateEmployee(f)
          \/ Setup!Stop(f)
  BY DEF Setup!Next, SetupOrganization, SetupEmployee, Setup!Spelling, WholeSetup!Spelling
<1>3. QED
  BY <1>1, <1>2, SetupReadNames, SetupCreate, SetupNested, SetupReadNumbers, SetupUpdate

\* While no request stops, an organization gets its policy and leave types too.
LEMMA OrganizationsNext ==
  ASSUME SetupInv, NestedIsUnderWay, WholeSetup!TypeOK, WholeSetup!Next
  PROVE  SetupInv' /\ NestedIsUnderWay' /\ WholeSetup!TypeOK'
<1>1. \/ \E f \in Flight :
           \/ \E o \in SetupOrganization, spelling \in WholeSetup!Spelling : WholeSetup!ReadNames(f, o, spelling)
           \/ WholeSetup!CreateOrganization(f) \/ WholeSetup!CreateNested(f)
           \/ \E e \in SetupEmployee, number \in Number \cup {none} : WholeSetup!ReadNumbers(f, e, number)
           \/ WholeSetup!UpdateEmployee(f)
      \/ /\ UNCHANGED <<organizations, policies, leaveTypes, numbers, setupFlight>>
         /\ \E spelling \in WholeSetup!Spelling \cup {WholeSetup!NoRow} :
              worksites' = [worksites EXCEPT ![w1] = spelling]
  BY DEF WholeSetup!Next, WholeSetup!Stop, WholeSetup!SaveWorksite, WholeSetup!DeleteWorksite,
         SetupOrganization, SetupEmployee
<1>2. SetupInv' /\ NestedIsUnderWay'
  <2>1. CASE UNCHANGED <<organizations, policies, leaveTypes, numbers, setupFlight>>
    <3>1. NestedIsUnderWay'
      <4>1. WholeSetup!Existing(organizations)' = WholeSetup!Existing(organizations) /\ SetupParts' = SetupParts
        BY <2>1 DEF WholeSetup!Existing, WholeSetup!NoRow, SetupParts, WholeSetup!DefaultLeave
      <4>2. \A o, row : HasPart(o, row)' = HasPart(o, row)
        BY <2>1 DEF HasPart
      <4>3. setupFlight' = setupFlight
        BY <2>1
      <4>4. QED
        BY <4>1, <4>2, <4>3 DEF NestedIsUnderWay
    <3>2. QED
      BY <2>1, <3>1, SetupEnds
  <2>2. QED
    BY <1>1, <2>1, SetupReadNames, SetupCreate, SetupNested, SetupReadNumbers, SetupUpdate
<1>3. worksites' \in [{w1} -> WholeSetup!Spelling \cup {WholeSetup!NoRow}]
  BY <1>1
  DEF WholeSetup!TypeOK, WholeSetup!ReadNames, WholeSetup!CreateOrganization, WholeSetup!CreateNested,
      WholeSetup!ReadNumbers, WholeSetup!UpdateEmployee
<1>4. WholeSetup!TypeOK'
  BY <1>2, <1>3
  DEF SetupInv, SetupTypes, WholeSetup!TypeOK, SetupOrganization, SetupEmployee, WholeSetup!Idle,
      WholeSetup!Flights, WholeSetup!Spelling, WholeSetup!NoRow, WholeSetup!DefaultLeave
<1>5. QED
  BY <1>2, <1>4

-----------------------------------------------------------------------------
(* The accounts of an organization.                                        *)

\* What the two parts about accounts differ in.
Managers == IF part = "accounts" THEN {m1, m2} ELSE {m1}
Handlers == IF part = "accounts" THEN {f1} ELSE Flight

AccountUser == {a1} \cup Managers \cup {e1}

AccountMembership == [isActive : BOOLEAN, manager : Managers \cup {none}]

AccountSteps ==
  [pc : {"session"}, user : AccountUser]
    \cup [pc : {"user"}, user : AccountUser, actor : {dev} \cup {a1}]
    \cup [pc : {"rows"}, user : AccountUser, left : SUBSET {"Employee", "Membership"}]
    \cup [pc : {"status"}, user : AccountUser, isActive : BOOLEAN]
    \cup [pc : {"clear", "assign"}, user : Managers, employees : SUBSET {e1}]
    \cup [pc : {"review"}, actor : {a1} \cup Managers, user : {e1}]
    \cup [pc : {"asked", "admins"}, user : {e1}]
    \cup [pc : {"recipients", "notify", "answer"}, user : {e1}, told : SUBSET AccountUser]

AccountTypes ==
  /\ users \in [AccountUser -> Accounts!UserRow \cup {Accounts!NoRow}]
  /\ employees \subseteq {e1}
  /\ members \in [AccountUser -> AccountMembership \cup {Accounts!NoRow}]
  /\ signedIn \subseteq AccountUser
  /\ reports \in [Managers -> SUBSET {e1}]
  /\ accountFlight \in [Handlers -> {Accounts!Idle} \cup AccountSteps]

\* No row is without its user, now or when a request goes on, only an employee gets an Employee
\* row, and whoever asks has its membership.
RowsHaveUsers ==
  /\ \A u \in AccountUser : members[u] # Accounts!NoRow => users[u] # Accounts!NoRow
  /\ \A f \in Handlers :
       /\ accountFlight[f].pc \in {"rows", "status"} => users[accountFlight[f].user] # Accounts!NoRow
       /\ accountFlight[f].pc = "rows" /\ "Employee" \in accountFlight[f].left => accountFlight[f].user = e1
       /\ accountFlight[f].pc = "asked" => members[e1] # Accounts!NoRow

AccountInv == AccountTypes /\ RowsHaveUsers

\* The fields of a request in flight.
LEMMA AccountKinds ==
  ASSUME AccountTypes, NEW f \in Handlers
  PROVE  LET step == accountFlight[f]
         IN /\ step.pc \in {"session", "user", "rows", "status"} => step.user \in AccountUser
            /\ step.pc = "user" => step.actor \in {dev, a1}
            /\ step.pc = "rows" => step.left \in SUBSET {"Employee", "Membership"}
            /\ step.pc = "status" => step.isActive \in BOOLEAN
            /\ step.pc \in {"clear", "assign"} =>
                 /\ step.user \in Managers /\ step.employees \in SUBSET {e1}
                 /\ step \in [pc : {"clear", "assign"}, user : Managers, employees : SUBSET {e1}]
            /\ step.pc \in {"asked", "admins"} => step.user = e1
            /\ step.pc \in {"recipients", "notify", "answer"} =>
                 step \in [pc : {"recipients", "notify", "answer"}, user : {e1}, told : SUBSET AccountUser]
BY DEF AccountTypes, AccountSteps, Accounts!Idle

\* A row is not the record that stands for none.
LEMMA AccountRows ==
  /\ \A r \in Accounts!UserRow : r # Accounts!NoRow /\ r.isActive \in BOOLEAN
  /\ \A r \in Accounts!UserRow, b \in BOOLEAN :
       [r EXCEPT !.isActive = b] \in Accounts!UserRow /\ [r EXCEPT !.isActive = b].isActive = b
  /\ \A r \in AccountMembership : r # Accounts!NoRow /\ r.isActive \in BOOLEAN /\ r.manager \in Managers \cup {none}
  /\ \A r \in AccountMembership, b \in BOOLEAN :
       /\ [r EXCEPT !.isActive = b] \in AccountMembership
       /\ [r EXCEPT !.isActive = b].isActive = b /\ [r EXCEPT !.isActive = b].manager = r.manager
  /\ \A r \in AccountMembership, m \in Managers \cup {none} :
       /\ [r EXCEPT !.manager = m] \in AccountMembership
       /\ [r EXCEPT !.manager = m].isActive = r.isActive /\ [r EXCEPT !.manager = m].manager = m
BY DEF Accounts!UserRow, Accounts!NoRow, AccountMembership

\* A request that only reads, or ends.
AccountReads(f) ==
  /\ UNCHANGED <<users, employees, members, signedIn, reports>>
  /\ \E step \in {Accounts!Idle} \cup AccountSteps :
       /\ accountFlight' = [accountFlight EXCEPT ![f] = step]
       /\ step.pc # "rows"
       /\ step.pc = "status" => users[step.user] # Accounts!NoRow \/ members[step.user] # Accounts!NoRow
       /\ step.pc = "asked" => members[e1] # Accounts!NoRow

\* A statement of assignManagerReportsV2: the memberships of S, all of them there, get the manager.
Reassigns(f) ==
  \E S \in SUBSET {e1}, m \in Managers \cup {none}, step \in {Accounts!Idle} \cup AccountSteps :
    /\ \A e \in S : members[e] # Accounts!NoRow
    /\ members' = [u \in AccountUser |-> IF u \in S THEN [members[u] EXCEPT !.manager = m] ELSE members[u]]
    /\ accountFlight' = [accountFlight EXCEPT ![f] = step] /\ step.pc \notin {"rows", "status", "asked"}
    /\ reports' \in [Managers -> SUBSET {e1}]
    /\ UNCHANGED <<users, employees, signedIn>>

\* updateAdminAccountStatus and its like.
SetsStatus(f) ==
  /\ accountFlight[f].pc = "status"
  /\ LET u == accountFlight[f].user
         isActive == accountFlight[f].isActive
     IN /\ users' = [users EXCEPT ![u].isActive = isActive]
        /\ members' = IF members[u] = Accounts!NoRow THEN members ELSE [members EXCEPT ![u].isActive = isActive]
        /\ signedIn' \in {signedIn, signedIn \ {u}}
  /\ accountFlight' = [accountFlight EXCEPT ![f] = Accounts!Idle]
  /\ UNCHANGED <<employees, reports>>

AccountStep(f) ==
  \/ AccountReads(f) \/ Reassigns(f) \/ SetsStatus(f)
  \/ Accounts!CreateSession(f) \/ Accounts!CreateUser(f)
  \/ \E row \in {"Employee", "Membership"} : Accounts!CreateNested(f, row)

\* What the statements of approvalRecipientIds and notifyUsers leave of the request.
LEMMA RecipientSteps ==
  ASSUME AccountTypes, NEW f \in Handlers
  PROVE  /\ Accounts!FindManager(f) =>
              \/ /\ accountFlight'[f].pc = "recipients" /\ accountFlight'[f].told = {members[e1].manager}
                 /\ Accounts!HasAccess(members[e1].manager)
              \/ accountFlight'[f].pc = "admins"
         /\ Accounts!FindAdmins(f) =>
              /\ accountFlight'[f].pc = "recipients"
              /\ accountFlight'[f].told = {a \in {a1} : Accounts!ActiveMember(a)}
         /\ Accounts!FindActive(f) =>
              /\ accountFlight[f].pc = "recipients"
              /\ accountFlight'[f].told = {u \in accountFlight[f].told : Accounts!Active(u)}
              /\ accountFlight'[f].pc = IF accountFlight'[f].told = {} THEN "answer" ELSE "notify"
         /\ Accounts!Notify(f) =>
              /\ accountFlight[f].pc = "notify"
              /\ accountFlight'[f].told = accountFlight[f].told /\ accountFlight'[f].pc = "answer"
<1>1. accountFlight \in [Handlers -> {Accounts!Idle} \cup AccountSteps]
  BY DEF AccountTypes
<1>2. Accounts!FindManager(f) \/ Accounts!FindAdmins(f) => accountFlight[f].user = e1
  BY AccountKinds DEF Accounts!FindManager, Accounts!FindAdmins
<1>3. Accounts!FindActive(f) \/ Accounts!Notify(f) =>
        accountFlight[f] \in [pc : {"recipients", "notify", "answer"}, user : {e1}, told : SUBSET AccountUser]
  BY AccountKinds DEF Accounts!FindActive, Accounts!Notify
<1> DEFINE m == members[e1].manager
           found == [pc |-> "recipients", user |-> e1, told |-> {m}]
           unfound == [pc |-> "admins", user |-> e1]
           admins == [pc |-> "recipients", user |-> e1, told |-> {a \in {a1} : Accounts!ActiveMember(a)}]
<1>4. /\ Accounts!FindManager(f) => \/ accountFlight'[f] = found /\ Accounts!HasAccess(m)
                                   \/ accountFlight'[f] = unfound
      /\ Accounts!FindAdmins(f) => accountFlight'[f] = admins
  BY <1>1, <1>2
  DEF Accounts!FindManager, Accounts!FindAdmins, Accounts!FindRecipients, Accounts!Continue
<1>5. /\ found.pc = "recipients" /\ found.told = {m} /\ unfound.pc = "admins"
      /\ admins.pc = "recipients" /\ admins.told = {a \in {a1} : Accounts!ActiveMember(a)}
  OBVIOUS
<1> HIDE DEF found, unfound, admins
<1>6. ASSUME Accounts!FindActive(f)
      PROVE  /\ accountFlight[f].pc = "recipients"
             /\ accountFlight'[f].told = {u \in accountFlight[f].told : Accounts!Active(u)}
             /\ accountFlight'[f].pc = IF accountFlight'[f].told = {} THEN "answer" ELSE "notify"
  <2> DEFINE remaining == {u \in accountFlight[f].told : Accounts!Active(u)}
             place == IF remaining = {} THEN "answer" ELSE "notify"
             step == [accountFlight[f] EXCEPT !.pc = place, !.told = remaining]
  <2>1. accountFlight[f].pc = "recipients" /\ accountFlight' = [accountFlight EXCEPT ![f] = step]
    BY <1>6 DEF Accounts!FindActive, Accounts!FindRecipients, Accounts!Continue
  <2>2. step.pc = place /\ step.told = remaining
    <3> HIDE DEF remaining, place
    <3>1. QED
      BY <1>3, <1>6
  <2>3. accountFlight'[f] = step
    <3> HIDE DEF step
    <3>1. QED
      BY <1>1, <2>1
  <2>4. accountFlight'[f].told = remaining /\ accountFlight'[f].pc = place
    <3> HIDE DEF remaining, place, step
    <3>1. QED
      BY <2>2, <2>3
  <2>5. QED
    BY <2>1, <2>4
<1>7. ASSUME Accounts!Notify(f)
      PROVE  /\ accountFlight[f].pc = "notify"
             /\ accountFlight'[f].told = accountFlight[f].told /\ accountFlight'[f].pc = "answer"
  <2> DEFINE step == [accountFlight[f] EXCEPT !.pc = "answer"]
  <2>1. accountFlight[f].pc = "notify" /\ accountFlight' = [accountFlight EXCEPT ![f] = step]
    BY <1>7 DEF Accounts!Notify, Accounts!FindRecipients, Accounts!Continue
  <2>2. step.pc = "answer" /\ step.told = accountFlight[f].told
    BY <1>3, <1>7
  <2>3. accountFlight'[f] = step
    <3> HIDE DEF step
    <3>1. QED
      BY <1>1, <2>1
  <2>4. QED
    BY <2>1, <2>2, <2>3
<1>8. QED
  BY <1>4, <1>5, <1>6, <1>7

\* The steps of either part.
LEMMA AccountReadSteps ==
  ASSUME AccountInv, NEW f \in Handlers,
         \/ /\ part = "requests"
            /\ \/ \E u \in AccountUser : Requests!SignIn(f, u)
               \/ \E a \in {dev, a1} : \/ \E u \in AccountUser : Requests!Create(f, a, u)
                                       \/ \E u \in AccountUser, b \in BOOLEAN : Requests!ChangeStatus(f, a, u, b)
                                       \/ \E m \in Managers, S \in SUBSET {e1} : Requests!AssignReports(f, a, m, S)
               \/ \E a \in {a1} \cup Managers : Requests!Review(f, a, e1)
               \/ Requests!Decide(f) \/ Requests!Stop(f) \/ Requests!Ask(f, e1)
               \/ Requests!FindManager(f) \/ Requests!FindAdmins(f) \/ Requests!FindActive(f)
               \/ Requests!Notify(f) \/ Requests!Answer(f)
         \/ /\ part = "accounts"
            /\ \/ \E u \in AccountUser : Accounts!SignIn(f, u)
               \/ \E a \in {dev, a1} : \/ \E u \in AccountUser : Accounts!Create(f, a, u)
                                       \/ \E u \in AccountUser, b \in BOOLEAN : Accounts!ChangeStatus(f, a, u, b)
                                       \/ \E m \in Managers, S \in SUBSET {e1} : Accounts!AssignReports(f, a, m, S)
               \/ \E a \in {a1} \cup Managers : Accounts!Review(f, a, e1)
               \/ Accounts!Decide(f) \/ Accounts!Ask(f, e1)
               \/ Accounts!FindManager(f) \/ Accounts!FindAdmins(f) \/ Accounts!FindActive(f)
               \/ Accounts!Notify(f) \/ Accounts!Answer(f)
  PROVE  AccountReads(f)
<1>1. ASSUME NEW step \in {Accounts!Idle} \cup AccountSteps, step.pc # "rows",
             step.pc = "status" => users[step.user] # Accounts!NoRow \/ members[step.user] # Accounts!NoRow,
             step.pc = "asked" => members[e1] # Accounts!NoRow,
             accountFlight' = [accountFlight EXCEPT ![f] = step],
             UNCHANGED <<users, employees, members, signedIn, reports>>
      PROVE  AccountReads(f)
  BY <1>1 DEF AccountReads
<1>2. ASSUME NEW u \in AccountUser, Requests!SignIn(f, u) \/ Accounts!SignIn(f, u)
      PROVE  AccountReads(f)
  <2> DEFINE step == [pc |-> "session", user |-> u]
  <2>1. /\ accountFlight' = [accountFlight EXCEPT ![f] = step]
        /\ UNCHANGED <<users, employees, members, signedIn, reports>>
    BY <1>2 DEF Requests!SignIn, Accounts!SignIn, Requests!Continue, Accounts!Continue
  <2>2. step \in AccountSteps /\ step.pc = "session"
    BY DEF AccountSteps
  <2> HIDE DEF step
  <2>3. QED
    BY <1>1, <2>1, <2>2
<1>3. ASSUME NEW a \in {dev, a1}, NEW u \in AccountUser, Requests!Create(f, a, u) \/ Accounts!Create(f, a, u)
      PROVE  AccountReads(f)
  <2> DEFINE step == [pc |-> "user", user |-> u, actor |-> a]
  <2>1. /\ accountFlight' = [accountFlight EXCEPT ![f] = step]
        /\ UNCHANGED <<users, employees, members, signedIn, reports>>
    BY <1>3 DEF Requests!Create, Accounts!Create, Requests!Continue, Accounts!Continue
  <2>2. step \in AccountSteps /\ step.pc = "user"
    BY DEF AccountSteps
  <2> HIDE DEF step
  <2>3. QED
    BY <1>1, <2>1, <2>2
<1>4. ASSUME NEW a \in {dev, a1}, NEW u \in AccountUser, NEW b \in BOOLEAN,
             Requests!ChangeStatus(f, a, u, b) \/ Accounts!ChangeStatus(f, a, u, b)
      PROVE  AccountReads(f)
  <2> DEFINE step == [pc |-> "status", user |-> u, isActive |-> b]
  <2>1. /\ accountFlight' = [accountFlight EXCEPT ![f] = step]
        /\ UNCHANGED <<users, employees, members, signedIn, reports>>
        /\ users[u] # Accounts!NoRow \/ members[u] # Accounts!NoRow
    BY <1>4 DEF Requests!ChangeStatus, Accounts!ChangeStatus, Requests!Continue, Accounts!Continue,
                Requests!Exists, Accounts!Exists, Requests!NoRow, Accounts!NoRow
  <2>2. step \in AccountSteps /\ step.pc = "status" /\ step.user = u
    BY DEF AccountSteps
  <2> HIDE DEF step
  <2>3. QED
    BY <1>1, <2>1, <2>2
<1>5. ASSUME NEW a \in {dev, a1}, NEW m \in Managers, NEW S \in SUBSET {e1},
             Requests!AssignReports(f, a, m, S) \/ Accounts!AssignReports(f, a, m, S)
      PROVE  AccountReads(f)
  <2> DEFINE step == [pc |-> "clear", user |-> m, employees |-> S]
  <2>1. /\ accountFlight' = [accountFlight EXCEPT ![f] = step]
        /\ UNCHANGED <<users, employees, members, signedIn, reports>>
    BY <1>5 DEF Requests!AssignReports, Accounts!AssignReports, Requests!Continue, Accounts!Continue
  <2>2. step \in AccountSteps /\ step.pc = "clear"
    BY DEF AccountSteps
  <2> HIDE DEF step
  <2>3. QED
    BY <1>1, <2>1, <2>2
<1>6. ASSUME NEW a \in {a1} \cup Managers, Requests!Review(f, a, e1) \/ Accounts!Review(f, a, e1)
      PROVE  AccountReads(f)
  <2> DEFINE step == [pc |-> "review", actor |-> a, user |-> e1]
  <2>1. /\ accountFlight' = [accountFlight EXCEPT ![f] = step]
        /\ UNCHANGED <<users, employees, members, signedIn, reports>>
    BY <1>6 DEF Requests!Review, Accounts!Review, Requests!Continue, Accounts!Continue
  <2>2. step \in AccountSteps /\ step.pc = "review"
    BY DEF AccountSteps
  <2> HIDE DEF step
  <2>3. QED
    BY <1>1, <2>1, <2>2
<1>7. ASSUME \/ Requests!Decide(f) \/ Requests!Stop(f) \/ Requests!Answer(f)
             \/ Accounts!Decide(f) \/ Accounts!Answer(f)
      PROVE  AccountReads(f)
  <2>1. /\ accountFlight' = [accountFlight EXCEPT ![f] = Accounts!Idle]
        /\ UNCHANGED <<users, employees, members, signedIn, reports>>
    BY <1>7
    DEF Requests!Decide, Requests!Stop, Requests!Answer, Accounts!Decide, Accounts!Answer,
        Requests!Finish, Accounts!Finish, Requests!Continue, Accounts!Continue, Requests!Idle,
        Accounts!Idle
  <2>2. Accounts!Idle.pc = "idle"
    BY DEF Accounts!Idle
  <2>3. QED
    BY <1>1, <2>1, <2>2
<1>8. ASSUME Requests!Ask(f, e1) \/ Accounts!Ask(f, e1)
      PROVE  AccountReads(f)
  <2> DEFINE step == [pc |-> "asked", user |-> e1]
  <2>1. /\ accountFlight' = [accountFlight EXCEPT ![f] = step]
        /\ UNCHANGED <<users, employees, members, signedIn, reports>>
        /\ members[e1] # Accounts!NoRow
    BY <1>8
    DEF Requests!Ask, Accounts!Ask, Requests!Continue, Accounts!Continue, Requests!HasAccess,
        Accounts!HasAccess, Requests!ActiveMember, Accounts!ActiveMember, Requests!NoRow,
        Accounts!NoRow
  <2>2. step \in AccountSteps /\ step.pc = "asked"
    BY DEF AccountSteps
  <2> HIDE DEF step
  <2>3. QED
    BY <1>1, <2>1, <2>2
<1>9. ASSUME \/ part = "requests" /\ Requests!FindManager(f)
             \/ part = "accounts" /\ Accounts!FindManager(f)
      PROVE  AccountReads(f)
  <2> DEFINE m == members[e1].manager
             found == [pc |-> "recipients", user |-> e1, told |-> {m}]
             unfound == [pc |-> "admins", user |-> e1]
  <2>1. accountFlight[f].pc = "asked"
    BY <1>9 DEF Requests!FindManager, Accounts!FindManager
  <2>2. accountFlight[f].user = e1 /\ members[e1] # Accounts!NoRow
    BY <2>1, AccountKinds DEF AccountInv, RowsHaveUsers
  <2>3. m \in Managers \cup {none}
    BY <2>2, AccountRows DEF AccountInv, AccountTypes, AccountUser
  <2>4. /\ \/ m # none /\ accountFlight' = [accountFlight EXCEPT ![f] = found]
           \/ accountFlight' = [accountFlight EXCEPT ![f] = unfound]
        /\ UNCHANGED <<users, employees, members, signedIn, reports>>
    BY <1>9, <2>2
    DEF Requests!FindManager, Accounts!FindManager, Requests!FindRecipients, Accounts!FindRecipients,
        Requests!Continue, Accounts!Continue
  <2>5. /\ m # none => found \in AccountSteps
        /\ found.pc = "recipients" /\ unfound \in AccountSteps /\ unfound.pc = "admins"
    BY <2>3 DEF AccountSteps, AccountUser
  <2> HIDE DEF m, found, unfound
  <2>6. QED
    BY <1>1, <2>4, <2>5
<1>10. ASSUME Requests!FindAdmins(f) \/ Accounts!FindAdmins(f)
       PROVE  AccountReads(f)
  <2>1. accountFlight[f].pc = "admins"
    BY <1>10 DEF Requests!FindAdmins, Accounts!FindAdmins
  <2>2. accountFlight[f].user = e1
    BY <2>1, AccountKinds DEF AccountInv
  <2>3. PICK S \in SUBSET {a1} :
          /\ accountFlight' = [accountFlight EXCEPT ![f] = [pc |-> "recipients", user |-> e1, told |-> S]]
          /\ UNCHANGED <<users, employees, members, signedIn, reports>>
    BY <1>10, <2>2
    DEF Requests!FindAdmins, Accounts!FindAdmins, Requests!FindRecipients, Accounts!FindRecipients,
        Requests!Continue, Accounts!Continue
  <2> DEFINE step == [pc |-> "recipients", user |-> e1, told |-> S]
  <2>4. step \in AccountSteps /\ step.pc = "recipients"
    BY DEF AccountSteps, AccountUser
  <2>5. accountFlight' = [accountFlight EXCEPT ![f] = step]
    BY <2>3
  <2> HIDE DEF step
  <2>6. QED
    BY <1>1, <2>3, <2>4, <2>5
<1>11. ASSUME \/ Requests!FindActive(f) \/ Requests!Notify(f)
              \/ Accounts!FindActive(f) \/ Accounts!Notify(f)
       PROVE  AccountReads(f)
  <2>1. accountFlight[f].pc \in {"recipients", "notify"}
    BY <1>11 DEF Requests!FindActive, Requests!Notify, Accounts!FindActive, Accounts!Notify
  <2>2. accountFlight[f] \in [pc : {"recipients", "notify", "answer"}, user : {e1}, told : SUBSET AccountUser]
    BY <2>1, AccountKinds DEF AccountInv
  <2>3. PICK S \in SUBSET AccountUser, pc \in {"notify", "answer"} :
          /\ accountFlight' = [accountFlight EXCEPT ![f] = [accountFlight[f] EXCEPT !.pc = pc, !.told = S]]
          /\ UNCHANGED <<users, employees, members, signedIn, reports>>
    <3>1. accountFlight[f].told \in SUBSET AccountUser
      BY <2>2
    <3>2. [accountFlight[f] EXCEPT !.pc = "answer"]
            = [accountFlight[f] EXCEPT !.pc = "answer", !.told = accountFlight[f].told]
      BY <2>2
    <3>3. QED
      BY <1>11, <3>1, <3>2
      DEF Requests!FindActive, Requests!Notify, Accounts!FindActive, Accounts!Notify,
          Requests!FindRecipients, Accounts!FindRecipients, Requests!Continue, Accounts!Continue
  <2> DEFINE step == [accountFlight[f] EXCEPT !.pc = pc, !.told = S]
  <2>4. step \in AccountSteps /\ step.pc = pc
    <3>1. step \in [pc : {"recipients", "notify", "answer"}, user : {e1}, told : SUBSET AccountUser] /\ step.pc = pc
      BY <2>2
    <3>2. QED
      BY <3>1 DEF AccountSteps
  <2>5. accountFlight' = [accountFlight EXCEPT ![f] = step]
    BY <2>3
  <2> HIDE DEF step
  <2>6. QED
    BY <1>1, <2>3, <2>4, <2>5
<1>12. QED
  BY <1>2, <1>3, <1>4, <1>5, <1>6, <1>7, <1>8, <1>9, <1>10, <1>11

\* The two statements of assignManagerReportsV2 write memberships that are there.
LEMMA AccountReassigns ==
  ASSUME AccountTypes, NEW f \in Handlers,
         \/ part = "requests" /\ (Requests!Clear(f) \/ Requests!Assign(f))
         \/ part = "accounts" /\ (Accounts!Clear(f) \/ Accounts!Assign(f))
  PROVE  Reassigns(f)
<1>1. accountFlight[f].pc \in {"clear", "assign"}
  BY DEF Requests!Clear, Accounts!Clear, Requests!Assign, Accounts!Assign
<1>2. PICK m \in Managers, S \in SUBSET {e1} : m = accountFlight[f].user /\ S = accountFlight[f].employees
  BY <1>1, AccountKinds
<1>3. CASE Requests!Clear(f) \/ Accounts!Clear(f)
  <2> DEFINE step == [pc |-> "assign", user |-> m, employees |-> S]
             cleared == {e \in {e1} : members[e] # Accounts!NoRow /\ members[e].manager = m}
  <2>1. [accountFlight[f] EXCEPT !.pc = "assign"] = step
    <3>1. accountFlight[f] \in [pc : {"clear", "assign"}, user : Managers, employees : SUBSET {e1}]
      BY <1>1, AccountKinds
    <3>2. QED
      BY <1>2, <3>1
  <2>2. members' = [u \in AccountUser |-> IF u \in cleared THEN [members[u] EXCEPT !.manager = none] ELSE members[u]]
    <3>1. CASE part = "requests" /\ Requests!Clear(f)
      BY <1>2, <3>1
      DEF Requests!Clear, Requests!SetManager, Requests!Cleared, Requests!ReportsOf, Requests!User,
          AccountUser, Managers, Requests!NoRow, Accounts!NoRow
    <3>2. CASE part = "accounts" /\ Accounts!Clear(f)
      BY <1>2, <3>2
      DEF Accounts!Clear, Accounts!SetManager, Accounts!Cleared, Accounts!ReportsOf, Accounts!User,
          AccountUser, Managers
    <3>3. QED
      BY <1>3, <3>1, <3>2 DEF Requests!Clear, Requests!Assign, Accounts!Clear, Accounts!Assign
  <2>3. /\ accountFlight' = [accountFlight EXCEPT ![f] = step]
        /\ UNCHANGED <<users, employees, signedIn, reports>>
    BY <1>3, <2>1 DEF Requests!Clear, Accounts!Clear, Requests!Continue, Accounts!Continue
  <2>4. step \in AccountSteps /\ step.pc = "assign"
    BY DEF AccountSteps
  <2>5. cleared \in SUBSET {e1} /\ \A e \in cleared : members[e] # Accounts!NoRow
    OBVIOUS
  <2> HIDE DEF step, cleared
  <2>6. reports' \in [Managers -> SUBSET {e1}]
    BY <2>3 DEF AccountTypes
  <2>7. QED
    BY <2>2, <2>3, <2>4, <2>5, <2>6 DEF Reassigns
<1>4. CASE Requests!Assign(f) \/ Accounts!Assign(f)
  <2> DEFINE taken == {e \in S : members[e] # Accounts!NoRow /\ members[e].isActive}
  <2>1. /\ members' = [u \in AccountUser |-> IF u \in taken THEN [members[u] EXCEPT !.manager = m] ELSE members[u]]
        /\ reports' = [n \in Managers |-> IF n = m THEN taken ELSE reports[n] \ taken]
    <3>1. CASE part = "requests" /\ Requests!Assign(f)
      BY <1>2, <3>1 DEF Requests!Assign, Requests!SetManager, Requests!ActiveMember, Requests!User,
                        AccountUser, Managers, Requests!NoRow, Accounts!NoRow
    <3>2. CASE part = "accounts" /\ Accounts!Assign(f)
      BY <1>2, <3>2 DEF Accounts!Assign, Accounts!SetManager, Accounts!ActiveMember, Accounts!User,
                        AccountUser, Managers
    <3>3. QED
      BY <1>4, <3>1, <3>2 DEF Requests!Clear, Requests!Assign, Accounts!Clear, Accounts!Assign
  <2>2. /\ accountFlight' = [accountFlight EXCEPT ![f] = Accounts!Idle]
        /\ UNCHANGED <<users, employees, signedIn>>
    BY <1>4 DEF Requests!Assign, Accounts!Assign, Requests!Finish, Accounts!Finish, Requests!Continue,
                Accounts!Continue, Requests!Idle, Accounts!Idle
  <2>3. taken \in SUBSET {e1} /\ \A e \in taken : members[e] # Accounts!NoRow
    BY <1>2
  <2> HIDE DEF taken
  <2>4. reports' \in [Managers -> SUBSET {e1}]
    BY <2>1, <2>3 DEF AccountTypes
  <2>5. Accounts!Idle.pc = "idle" /\ m \in Managers \cup {none}
    BY DEF Accounts!Idle
  <2>6. QED
    BY <2>1, <2>2, <2>3, <2>4, <2>5 DEF Reassigns
<1>5. QED
  BY <1>3, <1>4

-----------------------------------------------------------------------------
(* Whom a request of an employee reaches.                                  *)

Telling == {"asked", "admins", "recipients", "notify", "answer"}

\* What such a request holds as long as nobody was deactivated since it began.
WillTell(step) ==
  /\ step.pc \in Telling
  /\ step.pc \in {"asked", "admins"} => Accounts!HasAccess(a1)
  /\ step.pc = "recipients" => /\ \E u \in step.told : Accounts!HasAccess(u)
                               /\ \A u \in step.told : Accounts!ActiveMember(u)
  /\ step.pc \in {"notify", "answer"} => step.told # {} /\ \A u \in step.told : Accounts!HasAccess(u)

SteadyHold ==
  /\ steady \subseteq Handlers
  /\ \A f \in steady : WillTell(accountFlight[f])

\* And where one request runs at a time: who was found is in charge of the employee who asks.
ToldInCharge ==
  LET step == accountFlight[f1]
  IN /\ step.pc \in Telling => Accounts!HasAccess(e1)
     /\ step.pc \in {"recipients", "notify", "answer"} =>
          \A u \in step.told : Accounts!ActiveMember(u) /\ (u \in Managers => members[e1].manager = u)
     /\ step.pc \in {"notify", "answer"} => \A u \in step.told : Accounts!HasAccess(u)

NobodyLosesAccess ==
  \A u \in AccountUser : /\ Accounts!ActiveMember(u) => Accounts!ActiveMember(u)'
                         /\ Accounts!HasAccess(u) => Accounts!HasAccess(u)'

Asks(f) ==
  /\ accountFlight[f] = Accounts!Idle
  /\ Accounts!HasAccess(e1)
  /\ accountFlight' = [accountFlight EXCEPT ![f] = [pc |-> "asked", user |-> e1]]
  /\ steady' = IF Accounts!HasAccess(a1) THEN steady \cup {f} ELSE steady
  /\ UNCHANGED <<users, members>>

\* A step on the way to the answer.
TellStep(f) ==
  \/ Asks(f)
  \/ Accounts!FindManager(f) \/ Accounts!FindAdmins(f) \/ Accounts!FindActive(f) \/ Accounts!Notify(f)

\* Any other step: it begins no such request, may end one, and whoever is deactivated ends steadiness.
QuietStep(f) ==
  /\ accountFlight'[f].pc \notin Telling
  /\ \A g \in Handlers : g # f => accountFlight'[g] = accountFlight[g]
  /\ steady' \subseteq steady
  /\ accountFlight[f].pc \in Telling => f \notin steady'
  /\ steady' = {} \/ NobodyLosesAccess

\* The statements that only read, and the ends of a request.
LEMMA QuietReads ==
  ASSUME AccountTypes, NEW f \in Handlers,
         \/ \E u \in AccountUser : Requests!SignIn(f, u) \/ Accounts!SignIn(f, u)
         \/ Requests!CreateSession(f) \/ Accounts!CreateSession(f)
         \/ \E a \in {dev, a1}, u \in AccountUser : Requests!Create(f, a, u) \/ Accounts!Create(f, a, u)
         \/ \E a \in {dev, a1}, u \in AccountUser, b \in BOOLEAN :
              Requests!ChangeStatus(f, a, u, b) \/ Accounts!ChangeStatus(f, a, u, b)
         \/ \E a \in {dev, a1}, m \in Managers, S \in SUBSET {e1} :
              Requests!AssignReports(f, a, m, S) \/ Accounts!AssignReports(f, a, m, S)
         \/ \E a \in {a1} \cup Managers : Requests!Review(f, a, e1) \/ Accounts!Review(f, a, e1)
         \/ Requests!Decide(f) \/ Accounts!Decide(f)
         \/ Requests!Answer(f) \/ Accounts!Answer(f)
         \/ Requests!Stop(f)
  PROVE  QuietStep(f)
<1>1. PICK step :
        /\ accountFlight' = [accountFlight EXCEPT ![f] = step]
        /\ step.pc \in {"session", "user", "status", "clear", "review", "idle"}
        /\ UNCHANGED <<users, members>>
        /\ \/ steady' = steady \ {f}
           \/ steady' = steady /\ accountFlight[f].pc \in {"idle", "session", "review"}
  <2>1. Accounts!Idle.pc = "idle" /\ Requests!Idle = Accounts!Idle
    BY DEF Accounts!Idle, Requests!Idle
  <2>2. CASE \E u \in AccountUser : Requests!SignIn(f, u) \/ Accounts!SignIn(f, u)
    BY <2>1, <2>2
    DEF Requests!SignIn, Accounts!SignIn, Requests!Deliver, Accounts!Deliver, Requests!Continue,
        Accounts!Continue
  <2>3. CASE \E a \in {dev, a1}, u \in AccountUser : Requests!Create(f, a, u) \/ Accounts!Create(f, a, u)
    BY <2>1, <2>3
    DEF Requests!Create, Accounts!Create, Requests!Deliver, Accounts!Deliver, Requests!Continue,
        Accounts!Continue
  <2>4. CASE \E a \in {dev, a1}, u \in AccountUser, b \in BOOLEAN :
               Requests!ChangeStatus(f, a, u, b) \/ Accounts!ChangeStatus(f, a, u, b)
    BY <2>1, <2>4
    DEF Requests!ChangeStatus, Accounts!ChangeStatus, Requests!Deliver, Accounts!Deliver,
        Requests!Continue, Accounts!Continue
  <2>5. CASE \E a \in {dev, a1}, m \in Managers, S \in SUBSET {e1} :
               Requests!AssignReports(f, a, m, S) \/ Accounts!AssignReports(f, a, m, S)
    BY <2>1, <2>5
    DEF Requests!AssignReports, Accounts!AssignReports, Requests!Deliver, Accounts!Deliver,
        Requests!Continue, Accounts!Continue
  <2>6. CASE \E a \in {a1} \cup Managers : Requests!Review(f, a, e1) \/ Accounts!Review(f, a, e1)
    BY <2>1, <2>6
    DEF Requests!Review, Accounts!Review, Requests!Deliver, Accounts!Deliver, Requests!Continue,
        Accounts!Continue
  <2>7. CASE \/ Requests!CreateSession(f) \/ Accounts!CreateSession(f) \/ Requests!Decide(f)
             \/ Accounts!Decide(f)
    BY <2>1, <2>7
    DEF Requests!CreateSession, Accounts!CreateSession, Requests!Decide, Accounts!Decide,
        Requests!Finish, Accounts!Finish, Requests!Continue, Accounts!Continue
  <2>8. CASE Requests!Answer(f) \/ Accounts!Answer(f) \/ Requests!Stop(f)
    BY <2>1, <2>8
    DEF Requests!Answer, Accounts!Answer, Requests!Stop, Requests!Finish, Accounts!Finish,
        Requests!Continue, Accounts!Continue
  <2>9. QED
    BY <2>2, <2>3, <2>4, <2>5, <2>6, <2>7, <2>8
<1>2. accountFlight'[f] = step /\ \A g \in Handlers : g # f => accountFlight'[g] = accountFlight[g]
  BY <1>1 DEF AccountTypes
<1>3. NobodyLosesAccess
  BY <1>1
  DEF NobodyLosesAccess, Accounts!HasAccess, Accounts!Active, Accounts!Exists, Accounts!ActiveMember,
      Accounts!NoRow
<1>4. QED
  BY <1>1, <1>2, <1>3 DEF QuietStep, Telling

\* A new user, and the rows created with it.
LEMMA QuietCreates ==
  ASSUME AccountInv, NEW f \in Handlers,
         Accounts!CreateUser(f) \/ \E row \in {"Employee", "Membership"} : Accounts!CreateNested(f, row)
  PROVE  QuietStep(f)
<1>1. /\ users \in [AccountUser -> Accounts!UserRow \cup {Accounts!NoRow}]
      /\ members \in [AccountUser -> AccountMembership \cup {Accounts!NoRow}]
      /\ accountFlight \in [Handlers -> {Accounts!Idle} \cup AccountSteps]
  BY DEF AccountInv, AccountTypes
<1>2. /\ accountFlight[f].pc \in {"user", "rows"} /\ steady' = steady
      /\ \E step : accountFlight' = [accountFlight EXCEPT ![f] = step] /\ step.pc \in {"idle", "rows"}
  <2> DEFINE Rows(left) == [pc |-> "rows", user |-> accountFlight[f].user, left |-> left]
  <2>1. Accounts!Idle.pc = "idle" /\ \A left : Rows(left).pc = "rows"
    BY DEF Accounts!Idle
  <2>2. /\ accountFlight[f].pc \in {"user", "rows"} /\ steady' = steady
        /\ \/ accountFlight' = [accountFlight EXCEPT ![f] = Accounts!Idle]
           \/ \E left : accountFlight' = [accountFlight EXCEPT ![f] = Rows(left)]
    <3>1. CASE Accounts!CreateUser(f)
      BY <3>1 DEF Accounts!CreateUser, Accounts!Finish, Accounts!Continue
    <3>2. CASE \E row \in {"Employee", "Membership"} : Accounts!CreateNested(f, row)
      BY <3>2 DEF Accounts!CreateNested, Accounts!Finish, Accounts!Continue
    <3>3. QED
      BY <3>1, <3>2
  <2> HIDE DEF Rows
  <2>3. QED
    BY <2>1, <2>2
<1>3. NobodyLosesAccess
  <2>1. CASE Accounts!CreateUser(f)
    <3>1. UNCHANGED members
      BY <2>1 DEF Accounts!CreateUser
    <3>2. \A u \in AccountUser : users[u] # Accounts!NoRow => users'[u] = users[u]
      BY <1>1, <2>1 DEF Accounts!CreateUser, Accounts!Exists
    <3>3. QED
      BY <3>1, <3>2
      DEF NobodyLosesAccess, Accounts!HasAccess, Accounts!Active, Accounts!Exists,
          Accounts!ActiveMember, Accounts!NoRow
  <2>2. ASSUME NEW row \in {"Employee", "Membership"}, Accounts!CreateNested(f, row)
        PROVE  NobodyLosesAccess
    <3> DEFINE member == [isActive |-> TRUE, manager |-> none]
               u == accountFlight[f].user
    <3>1. /\ UNCHANGED users
          /\ members' = members \/ members' = [members EXCEPT ![u] = member]
      BY <2>2 DEF Accounts!CreateNested
    <3>2. member # Accounts!NoRow /\ member.isActive
      BY DEF Accounts!NoRow
    <3> HIDE DEF member, u
    <3>3. \A v \in AccountUser : \/ members'[v] = members[v]
                                 \/ members'[v] # Accounts!NoRow /\ members'[v].isActive
      BY <1>1, <3>1, <3>2
    <3>4. QED
      BY <3>1, <3>3
      DEF NobodyLosesAccess, Accounts!HasAccess, Accounts!Active, Accounts!Exists,
          Accounts!ActiveMember, Accounts!NoRow
  <2>3. QED
    BY <2>1, <2>2
<1>4. QED
  BY <1>1, <1>2, <1>3 DEF QuietStep, Telling

\* A status, and the statements of assignManagerReportsV2.
LEMMA QuietWrites ==
  ASSUME AccountInv, NEW f \in Handlers,
         \/ /\ SetsStatus(f)
            /\ steady' = IF accountFlight[f].isActive THEN steady ELSE {}
         \/ /\ Reassigns(f)
            /\ accountFlight[f].pc \in {"clear", "assign"} /\ accountFlight'[f].pc \in {"assign", "idle"}
            /\ steady' = steady
  PROVE  QuietStep(f)
<1>1. /\ users \in [AccountUser -> Accounts!UserRow \cup {Accounts!NoRow}]
      /\ members \in [AccountUser -> AccountMembership \cup {Accounts!NoRow}]
      /\ accountFlight \in [Handlers -> {Accounts!Idle} \cup AccountSteps]
  BY DEF AccountInv, AccountTypes
<1>2. CASE /\ SetsStatus(f)
           /\ steady' = IF accountFlight[f].isActive THEN steady ELSE {}
  <2>1. /\ accountFlight[f].pc = "status"
        /\ accountFlight' = [accountFlight EXCEPT ![f] = Accounts!Idle] /\ Accounts!Idle.pc = "idle"
    BY <1>2 DEF SetsStatus, Accounts!Idle
  <2>2. PICK u \in AccountUser, b \in BOOLEAN : u = accountFlight[f].user /\ b = accountFlight[f].isActive
    BY <2>1, AccountKinds DEF AccountInv
  <2>3. /\ users' = [users EXCEPT ![u].isActive = b]
        /\ members' = IF members[u] = Accounts!NoRow THEN members ELSE [members EXCEPT ![u].isActive = b]
    BY <1>2, <2>2 DEF SetsStatus
  <2>4. users[u] # Accounts!NoRow
    BY <2>1, <2>2 DEF AccountInv, RowsHaveUsers
  <2>5. ASSUME b
        PROVE  NobodyLosesAccess
    <3>1. \A v \in AccountUser : \/ users'[v] = users[v]
                                 \/ users'[v] # Accounts!NoRow /\ users'[v].isActive
      <4>1. \A v \in AccountUser : v # u => users'[v] = users[v]
        BY <1>1, <2>3
      <4>2. users'[u] = [users[u] EXCEPT !.isActive = b] /\ users[u] \in Accounts!UserRow
        BY <1>1, <2>3, <2>4
      <4>3. users'[u] # Accounts!NoRow /\ users'[u].isActive = b
        BY <4>2, AccountRows
      <4>4. QED
        BY <2>5, <4>1, <4>3
    <3>2. \A v \in AccountUser : \/ members'[v] = members[v]
                                 \/ members'[v] # Accounts!NoRow /\ members'[v].isActive
      <4>1. \A v \in AccountUser : v # u => members'[v] = members[v]
        BY <1>1, <2>3
      <4>2. members[u] = Accounts!NoRow => members'[u] = members[u]
        BY <2>3
      <4>3. members[u] # Accounts!NoRow => members'[u] # Accounts!NoRow /\ members'[u].isActive = b
        <5>1. SUFFICES ASSUME members[u] # Accounts!NoRow
                       PROVE  members'[u] # Accounts!NoRow /\ members'[u].isActive = b
          OBVIOUS
        <5>2. members'[u] = [members[u] EXCEPT !.isActive = b] /\ members[u] \in AccountMembership
          BY <1>1, <2>3, <5>1
        <5>3. QED
          BY <5>2, AccountRows
      <4>4. QED
        BY <2>5, <4>1, <4>2, <4>3
    <3>3. QED
      BY <3>1, <3>2
      DEF NobodyLosesAccess, Accounts!HasAccess, Accounts!Active, Accounts!Exists,
          Accounts!ActiveMember, Accounts!NoRow
  <2>6. steady' = {} \/ (b /\ steady' = steady)
    BY <1>2, <2>2
  <2>7. QED
    BY <1>1, <2>1, <2>5, <2>6 DEF QuietStep, Telling
<1>3. CASE /\ Reassigns(f)
           /\ accountFlight[f].pc \in {"clear", "assign"} /\ accountFlight'[f].pc \in {"assign", "idle"}
           /\ steady' = steady
  <2>1. PICK S \in SUBSET {e1}, m \in Managers \cup {none} :
          /\ \A e \in S : members[e] # Accounts!NoRow
          /\ members' = [u \in AccountUser |-> IF u \in S THEN [members[u] EXCEPT !.manager = m] ELSE members[u]]
          /\ UNCHANGED users
    BY <1>3 DEF Reassigns
  <2>2. \A g \in Handlers : g # f => accountFlight'[g] = accountFlight[g]
    BY <1>1, <1>3 DEF Reassigns
  <2>3. \A u \in AccountUser : members[u] # Accounts!NoRow =>
          members'[u] # Accounts!NoRow /\ members'[u].isActive = members[u].isActive
    <3>1. ASSUME NEW u \in AccountUser, members[u] # Accounts!NoRow
          PROVE  members'[u] # Accounts!NoRow /\ members'[u].isActive = members[u].isActive
      <4>1. members[u] \in AccountMembership
        BY <1>1, <3>1
      <4>2. CASE u \in S
        BY <2>1, <4>1, <4>2, AccountRows
      <4>3. CASE u \notin S
        BY <2>1, <3>1, <4>3
      <4>4. QED
        BY <4>2, <4>3
    <3>2. QED
      BY <3>1
  <2>4. NobodyLosesAccess
    BY <2>1, <2>3
    DEF NobodyLosesAccess, Accounts!HasAccess, Accounts!Active, Accounts!Exists, Accounts!ActiveMember,
        Accounts!NoRow
  <2>5. QED
    BY <1>3, <2>2, <2>4 DEF QuietStep, Telling
<1>4. QED
  BY <1>2, <1>3

\* Every step of the two parts.
LEMMA AccountStepsOf ==
  ASSUME AccountInv,
         (part = "requests" /\ Requests!Next) \/ (part = "accounts" /\ Accounts!Next)
  PROVE  \E f \in Handlers : AccountStep(f) /\ (TellStep(f) \/ QuietStep(f))
<1>1. CASE part = "requests" /\ Requests!Next
  <2>1. PICK f \in Handlers :
          \/ \E u \in AccountUser : Requests!SignIn(f, u)
          \/ Requests!CreateSession(f)
          \/ \E a \in {dev, a1} : \/ \E u \in AccountUser : Requests!Create(f, a, u)
                                  \/ \E u \in AccountUser, b \in BOOLEAN : Requests!ChangeStatus(f, a, u, b)
                                  \/ \E m \in Managers, S \in SUBSET {e1} : Requests!AssignReports(f, a, m, S)
          \/ Requests!CreateUser(f)
          \/ \E row \in {"Employee", "Membership"} : Requests!CreateNested(f, row)
          \/ Requests!SetStatus(f) \/ Requests!Clear(f) \/ Requests!Assign(f)
          \/ \E a \in {a1} \cup Managers : Requests!Review(f, a, e1)
          \/ Requests!Decide(f) \/ Requests!Stop(f) \/ Requests!Ask(f, e1)
          \/ Requests!FindManager(f) \/ Requests!FindAdmins(f) \/ Requests!FindActive(f)
          \/ Requests!Notify(f) \/ Requests!Answer(f)
    BY <1>1 DEF Requests!Next, Requests!User, AccountUser, Managers, Handlers
  <2>2. Requests!CreateSession(f) => Accounts!CreateSession(f)
    BY DEF Requests!CreateSession, Accounts!CreateSession, Requests!Finish, Accounts!Finish,
           Requests!Continue, Accounts!Continue, Requests!Idle, Accounts!Idle
  <2>3. Requests!CreateUser(f) => Accounts!CreateUser(f)
    BY DEF Requests!CreateUser, Accounts!CreateUser, Requests!Finish, Accounts!Finish, Requests!Continue,
           Accounts!Continue, Requests!Idle, Accounts!Idle, Requests!Exists, Accounts!Exists,
           Requests!NoRow, Accounts!NoRow, Requests!Nested, Accounts!Nested
  <2>4. ASSUME NEW row \in {"Employee", "Membership"}, Requests!CreateNested(f, row)
        PROVE  Accounts!CreateNested(f, row)
    BY <2>4
    DEF Requests!CreateNested, Accounts!CreateNested, Requests!Finish, Accounts!Finish, Requests!Continue,
        Accounts!Continue, Requests!Idle, Accounts!Idle
  <2>5. Requests!SetStatus(f) => SetsStatus(f)
    BY DEF Requests!SetStatus, SetsStatus, Requests!SessionsAfter, Requests!Finish, Requests!Continue,
           Requests!Idle, Accounts!Idle, Requests!NoRow, Accounts!NoRow
  <2>6. AccountStep(f)
    BY <1>1, <2>1, <2>2, <2>3, <2>4, <2>5, AccountReadSteps, AccountReassigns DEF AccountInv, AccountStep
  <2>7. Requests!CreateUser(f) \/ (\E row \in {"Employee", "Membership"} : Requests!CreateNested(f, row))
          => QuietStep(f)
    BY <2>3, <2>4, QuietCreates
  <2>8. Requests!SetStatus(f) => QuietStep(f)
    BY <2>5, QuietWrites DEF Requests!SetStatus
  <2>9. Requests!Clear(f) \/ Requests!Assign(f) => QuietStep(f)
    <3>1. ASSUME Requests!Clear(f) \/ Requests!Assign(f)
          PROVE  /\ accountFlight[f].pc \in {"clear", "assign"} /\ accountFlight'[f].pc \in {"assign", "idle"}
                 /\ steady' = steady
      <4>1. accountFlight[f].pc \in {"clear", "assign"} /\ steady' = steady
        BY <3>1 DEF Requests!Clear, Requests!Assign
      <4>2. accountFlight[f] \in [pc : {"clear", "assign"}, user : Managers, employees : SUBSET {e1}]
        BY <4>1, AccountKinds DEF AccountInv
      <4>3. accountFlight'[f].pc \in {"assign", "idle"}
        BY <3>1, <4>2
        DEF Requests!Clear, Requests!Assign, Requests!Finish, Requests!Continue, Requests!Idle,
            AccountInv, AccountTypes
      <4>4. QED
        BY <4>1, <4>3
    <3>2. QED
      BY <1>1, <3>1, AccountReassigns, QuietWrites DEF AccountInv
  <2>10. /\ Requests!Ask(f, e1) => Asks(f)
         /\ Requests!FindManager(f) => Accounts!FindManager(f)
         /\ Requests!FindAdmins(f) => Accounts!FindAdmins(f)
         /\ Requests!FindActive(f) => Accounts!FindActive(f)
         /\ Requests!Notify(f) => Accounts!Notify(f)
    BY DEF Requests!Ask, Asks, Requests!Deliver, Requests!FindManager, Accounts!FindManager,
           Requests!FindAdmins, Accounts!FindAdmins, Requests!FindActive, Accounts!FindActive,
           Requests!Notify, Accounts!Notify, Requests!FindRecipients, Accounts!FindRecipients,
           Requests!Continue, Accounts!Continue, Requests!Idle, Accounts!Idle, Requests!HasAccess,
           Accounts!HasAccess, Requests!Active, Accounts!Active, Requests!Exists, Accounts!Exists,
           Requests!ActiveMember, Accounts!ActiveMember, Requests!NoRow, Accounts!NoRow
  <2>11. TellStep(f) \/ QuietStep(f)
    BY <2>1, <2>7, <2>8, <2>9, <2>10, QuietReads DEF AccountInv, TellStep
  <2>12. QED
    BY <2>6, <2>11
<1>2. CASE part = "accounts" /\ Accounts!Next
  <2>1. PICK f \in Handlers :
          \/ \E u \in AccountUser : Accounts!SignIn(f, u)
          \/ Accounts!CreateSession(f)
          \/ \E a \in {dev, a1} : \/ \E u \in AccountUser : Accounts!Create(f, a, u)
                                  \/ \E u \in AccountUser, b \in BOOLEAN : Accounts!ChangeStatus(f, a, u, b)
                                  \/ \E m \in Managers, S \in SUBSET {e1} : Accounts!AssignReports(f, a, m, S)
          \/ Accounts!CreateUser(f)
          \/ \E row \in {"Employee", "Membership"} : Accounts!CreateNested(f, row)
          \/ Accounts!SetStatus(f) \/ Accounts!Clear(f) \/ Accounts!Assign(f)
          \/ \E a \in {a1} \cup Managers : Accounts!Review(f, a, e1)
          \/ Accounts!Decide(f) \/ Accounts!Ask(f, e1)
          \/ Accounts!FindManager(f) \/ Accounts!FindAdmins(f) \/ Accounts!FindActive(f)
          \/ Accounts!Notify(f) \/ Accounts!Answer(f)
    BY <1>2 DEF Accounts!Next, Accounts!User, Accounts!Stop, AccountUser, Managers, Handlers
  <2>2. Accounts!SetStatus(f) => SetsStatus(f)
    BY DEF Accounts!SetStatus, SetsStatus, Accounts!SessionsAfter, Accounts!Finish, Accounts!Continue
  <2>3. AccountStep(f)
    BY <1>2, <2>1, <2>2, AccountReadSteps, AccountReassigns DEF AccountInv, AccountStep
  <2>4. Accounts!SetStatus(f) => QuietStep(f)
    BY <2>2, QuietWrites DEF Accounts!SetStatus
  <2>5. Accounts!Clear(f) \/ Accounts!Assign(f) => QuietStep(f)
    <3>1. ASSUME Accounts!Clear(f) \/ Accounts!Assign(f)
          PROVE  /\ accountFlight[f].pc \in {"clear", "assign"} /\ accountFlight'[f].pc \in {"assign", "idle"}
                 /\ steady' = steady
      <4>1. accountFlight[f].pc \in {"clear", "assign"} /\ steady' = steady
        BY <3>1 DEF Accounts!Clear, Accounts!Assign
      <4>2. accountFlight[f] \in [pc : {"clear", "assign"}, user : Managers, employees : SUBSET {e1}]
        BY <4>1, AccountKinds DEF AccountInv
      <4>3. accountFlight'[f].pc \in {"assign", "idle"}
        BY <3>1, <4>2
        DEF Accounts!Clear, Accounts!Assign, Accounts!Finish, Accounts!Continue, Accounts!Idle,
            AccountInv, AccountTypes
      <4>4. QED
        BY <4>1, <4>3
    <3>2. QED
      BY <1>2, <3>1, AccountReassigns, QuietWrites DEF AccountInv
  <2>6. Accounts!Ask(f, e1) => Asks(f)
    BY DEF Accounts!Ask, Asks, Accounts!Deliver, Accounts!Continue
  <2>7. TellStep(f) \/ QuietStep(f)
    BY <2>1, <2>4, <2>5, <2>6, QuietCreates, QuietReads DEF AccountInv, TellStep
  <2>8. QED
    BY <2>3, <2>7
<1>3. QED
  BY <1>1, <1>2

\* Who has only read keeps the tables; its next statement finds the user it found.
LEMMA AccountReadsKeep ==
  ASSUME AccountInv, part' = part, NEW f \in Handlers, AccountReads(f)
  PROVE  AccountInv'
<1>1. PICK step \in {Accounts!Idle} \cup AccountSteps :
        /\ accountFlight' = [accountFlight EXCEPT ![f] = step]
        /\ step.pc # "rows"
        /\ step.pc = "status" => users[step.user] # Accounts!NoRow \/ members[step.user] # Accounts!NoRow
        /\ step.pc = "asked" => members[e1] # Accounts!NoRow
  BY DEF AccountReads
<1>2. UNCHANGED <<users, employees, members, signedIn, reports, AccountUser, Managers, Handlers>>
  BY DEF AccountReads, AccountUser, Managers, Handlers
<1>3. AccountTypes'
  BY <1>1, <1>2
  DEF AccountInv, AccountTypes, AccountSteps, AccountMembership, Accounts!Idle, Accounts!UserRow,
      Accounts!NoRow
<1>4. step.pc = "status" => users[step.user] # Accounts!NoRow
  <2>1. step.pc = "status" => step.user \in AccountUser
    BY DEF AccountSteps, Accounts!Idle
  <2>2. QED
    BY <1>1, <2>1 DEF AccountInv, RowsHaveUsers
<1>5. ASSUME NEW g \in Handlers
      PROVE  /\ accountFlight'[g].pc \in {"rows", "status"} => users[accountFlight'[g].user] # Accounts!NoRow
             /\ accountFlight'[g].pc = "rows" /\ "Employee" \in accountFlight'[g].left => accountFlight'[g].user = e1
             /\ accountFlight'[g].pc = "asked" => members[e1] # Accounts!NoRow
  <2>1. CASE g = f
    <3>1. accountFlight'[g] = step
      BY <1>1, <2>1 DEF AccountInv, AccountTypes
    <3>2. QED
      BY <1>1, <1>4, <3>1
  <2>2. CASE g # f
    <3>1. accountFlight'[g] = accountFlight[g]
      BY <1>1, <2>2 DEF AccountInv, AccountTypes
    <3>2. QED
      BY <3>1 DEF AccountInv, RowsHaveUsers
  <2>3. QED
    BY <2>1, <2>2
<1>6. RowsHaveUsers'
  BY <1>2, <1>5 DEF AccountInv, RowsHaveUsers, Accounts!NoRow
<1>7. QED
  BY <1>3, <1>6 DEF AccountInv

\* A step that loses no user and creates no row without one.
LEMMA AccountWrites ==
  ASSUME AccountInv, part' = part, NEW f \in Handlers, NEW step \in {Accounts!Idle} \cup AccountSteps,
         accountFlight' = [accountFlight EXCEPT ![f] = step],
         users' \in [AccountUser -> Accounts!UserRow \cup {Accounts!NoRow}],
         employees' \subseteq {e1},
         members' \in [AccountUser -> AccountMembership \cup {Accounts!NoRow}],
         signedIn' \subseteq AccountUser,
         reports' \in [Managers -> SUBSET {e1}],
         \A u \in AccountUser : users[u] # Accounts!NoRow => users'[u] # Accounts!NoRow,
         \A u \in AccountUser : members'[u] # Accounts!NoRow => users'[u] # Accounts!NoRow,
         \A u \in AccountUser : members[u] # Accounts!NoRow => members'[u] # Accounts!NoRow,
         step.pc \notin {"status", "asked"},
         step.pc = "rows" => /\ users'[step.user] # Accounts!NoRow
                             /\ "Employee" \in step.left => step.user = e1
  PROVE  AccountInv'
<1>1. UNCHANGED <<AccountUser, Managers, Handlers>>
  BY DEF AccountUser, Managers, Handlers
<1>2. AccountTypes'
  BY <1>1 DEF AccountInv, AccountTypes, AccountSteps, AccountMembership, Accounts!Idle, Accounts!UserRow,
              Accounts!NoRow
<1>3. ASSUME NEW g \in Handlers
      PROVE  /\ accountFlight'[g].pc \in {"rows", "status"} => users'[accountFlight'[g].user] # Accounts!NoRow
             /\ accountFlight'[g].pc = "rows" /\ "Employee" \in accountFlight'[g].left => accountFlight'[g].user = e1
             /\ accountFlight'[g].pc = "asked" => members'[e1] # Accounts!NoRow
  <2>1. CASE g = f
    <3>1. accountFlight'[g] = step
      BY <2>1 DEF AccountInv, AccountTypes
    <3>2. QED
      BY <3>1
  <2>2. CASE g # f
    <3>1. accountFlight'[g] = accountFlight[g]
      BY <2>2 DEF AccountInv, AccountTypes
    <3>2. /\ accountFlight[g].pc \in {"rows", "status"} => accountFlight[g].user \in AccountUser
          /\ e1 \in AccountUser
      BY AccountKinds DEF AccountInv, AccountUser
    <3>3. QED
      BY <3>1, <3>2 DEF AccountInv, RowsHaveUsers
  <2>3. QED
    BY <2>1, <2>2
<1>4. RowsHaveUsers'
  BY <1>1, <1>3 DEF AccountInv, RowsHaveUsers, Accounts!NoRow
<1>5. QED
  BY <1>2, <1>4 DEF AccountInv

\* Every step of either part keeps the types, whatever runs at the same time.
LEMMA AccountsNext ==
  ASSUME AccountInv, part' = part, NEW f \in Handlers, AccountStep(f)
  PROVE  AccountInv'
<1>1. /\ users \in [AccountUser -> Accounts!UserRow \cup {Accounts!NoRow}] /\ employees \subseteq {e1}
      /\ members \in [AccountUser -> AccountMembership \cup {Accounts!NoRow}] /\ signedIn \subseteq AccountUser
      /\ reports \in [Managers -> SUBSET {e1}]
      /\ \A u \in AccountUser : members[u] # Accounts!NoRow => users[u] # Accounts!NoRow
      /\ Accounts!Idle.pc = "idle"
  BY DEF AccountInv, AccountTypes, RowsHaveUsers, Accounts!Idle
<1>2. CASE AccountReads(f)
  BY <1>2, AccountReadsKeep
<1>3. CASE Reassigns(f)
  <2>1. PICK S \in SUBSET {e1}, m \in Managers \cup {none}, step \in {Accounts!Idle} \cup AccountSteps :
          /\ \A e \in S : members[e] # Accounts!NoRow
          /\ members' = [u \in AccountUser |-> IF u \in S THEN [members[u] EXCEPT !.manager = m] ELSE members[u]]
          /\ accountFlight' = [accountFlight EXCEPT ![f] = step] /\ step.pc \notin {"rows", "status", "asked"}
          /\ reports' \in [Managers -> SUBSET {e1}]
          /\ UNCHANGED <<users, employees, signedIn>>
    BY <1>3 DEF Reassigns
  <2>2. \A u \in S : members[u] \in AccountMembership /\ u \in AccountUser
    BY <1>1, <2>1 DEF AccountUser
  <2>3. /\ members' \in [AccountUser -> AccountMembership \cup {Accounts!NoRow}]
        /\ \A u \in AccountUser : members'[u] # Accounts!NoRow <=> members[u] # Accounts!NoRow
    BY <1>1, <2>1, <2>2, AccountRows
  <2>4. QED
    BY <1>1, <2>1, <2>3, AccountWrites
<1>4. CASE SetsStatus(f)
  <2>1. PICK u \in AccountUser, b \in BOOLEAN : u = accountFlight[f].user /\ b = accountFlight[f].isActive
    BY <1>4, AccountKinds DEF SetsStatus, AccountInv
  <2>2. /\ users' = [users EXCEPT ![u].isActive = b]
        /\ members' = IF members[u] = Accounts!NoRow THEN members ELSE [members EXCEPT ![u].isActive = b]
        /\ signedIn' \in {signedIn, signedIn \ {u}}
        /\ accountFlight' = [accountFlight EXCEPT ![f] = Accounts!Idle]
        /\ UNCHANGED <<employees, reports>>
    BY <1>4, <2>1 DEF SetsStatus
  <2>3. users[u] # Accounts!NoRow
    BY <1>4, <2>1 DEF SetsStatus, AccountInv, RowsHaveUsers
  <2>4. /\ users' \in [AccountUser -> Accounts!UserRow \cup {Accounts!NoRow}]
        /\ \A v \in AccountUser : users[v] # Accounts!NoRow => users'[v] # Accounts!NoRow
    BY <1>1, <2>2, <2>3, AccountRows
  <2>5. /\ members' \in [AccountUser -> AccountMembership \cup {Accounts!NoRow}]
        /\ \A v \in AccountUser : members'[v] # Accounts!NoRow <=> members[v] # Accounts!NoRow
    BY <1>1, <2>2, AccountRows
  <2>6. signedIn' \subseteq AccountUser
    BY <1>1, <2>2
  <2>7. QED
    BY <1>1, <2>2, <2>4, <2>5, <2>6, AccountWrites
<1>5. CASE Accounts!CreateSession(f)
  <2>1. accountFlight[f].pc = "session"
    BY <1>5 DEF Accounts!CreateSession
  <2>2. accountFlight[f].user \in AccountUser
    BY <2>1, AccountKinds DEF AccountInv
  <2>3. /\ signedIn' \subseteq AccountUser
        /\ accountFlight' = [accountFlight EXCEPT ![f] = Accounts!Idle]
        /\ UNCHANGED <<users, employees, members, reports>>
    BY <1>1, <1>5, <2>2 DEF Accounts!CreateSession, Accounts!Finish, Accounts!Continue
  <2>4. QED
    BY <1>1, <2>3, AccountWrites
<1>6. CASE Accounts!CreateUser(f)
  <2>1. accountFlight[f].pc = "user"
    BY <1>6 DEF Accounts!CreateUser
  <2>2. PICK u \in AccountUser, a \in {dev, a1} : u = accountFlight[f].user /\ a = accountFlight[f].actor
    BY <2>1, AccountKinds DEF AccountInv
  <2> DEFINE row == [isActive |-> TRUE, createdBy |-> a]
             step == [pc |-> "rows", user |-> u, left |-> Accounts!Nested(u)]
  <2>3. /\ UNCHANGED <<employees, members, signedIn, reports>>
        /\ \/ /\ users' = users
              /\ accountFlight' = [accountFlight EXCEPT ![f] = Accounts!Idle]
           \/ /\ users' = [users EXCEPT ![u] = row]
              /\ accountFlight' = [accountFlight EXCEPT ![f] = step]
    BY <1>6, <2>2 DEF Accounts!CreateUser, Accounts!Finish, Accounts!Continue
  <2>4. row \in Accounts!UserRow
    BY DEF Accounts!UserRow
  <2>5. /\ step \in AccountSteps /\ step.pc = "rows" /\ step.user = u
        /\ "Employee" \in step.left => u = e1
    BY DEF AccountSteps, Accounts!Nested
  <2> HIDE DEF row, step
  <2>6. CASE users' = users /\ accountFlight' = [accountFlight EXCEPT ![f] = Accounts!Idle]
    BY <1>1, <2>3, <2>6, AccountWrites
  <2>7. CASE users' = [users EXCEPT ![u] = row] /\ accountFlight' = [accountFlight EXCEPT ![f] = step]
    <3>1. /\ users' \in [AccountUser -> Accounts!UserRow \cup {Accounts!NoRow}]
          /\ \A v \in AccountUser : users[v] # Accounts!NoRow => users'[v] # Accounts!NoRow
          /\ users'[u] # Accounts!NoRow
      BY <1>1, <2>4, <2>7, AccountRows
    <3>2. QED
      BY <1>1, <2>3, <2>5, <2>7, <3>1, AccountWrites
  <2>8. QED
    BY <2>3, <2>6, <2>7
<1>7. ASSUME NEW row \in {"Employee", "Membership"}, Accounts!CreateNested(f, row)
      PROVE  AccountInv'
  <2>1. accountFlight[f].pc = "rows" /\ row \in accountFlight[f].left
    BY <1>7 DEF Accounts!CreateNested
  <2>2. PICK u \in AccountUser, left \in SUBSET {"Employee", "Membership"} :
          u = accountFlight[f].user /\ left = accountFlight[f].left
    BY <2>1, AccountKinds DEF AccountInv
  <2> DEFINE member == [isActive |-> TRUE, manager |-> none]
             step == IF left \ {row} = {} THEN Accounts!Idle
                     ELSE [pc |-> "rows", user |-> u, left |-> left \ {row}]
  <2>3. /\ employees' = IF row = "Employee" THEN employees \cup {u} ELSE employees
        /\ members' = IF row = "Membership" THEN [members EXCEPT ![u] = member] ELSE members
        /\ accountFlight' = [accountFlight EXCEPT ![f] = step]
        /\ UNCHANGED <<users, signedIn, reports>>
    BY <1>7, <2>2 DEF Accounts!CreateNested, Accounts!Finish, Accounts!Continue
  <2>4. users[u] # Accounts!NoRow /\ ("Employee" \in left => u = e1)
    BY <2>1, <2>2 DEF AccountInv, RowsHaveUsers
  <2>5. member \in AccountMembership
    BY DEF AccountMembership
  <2>6. /\ step \in {Accounts!Idle} \cup AccountSteps /\ step.pc \notin {"status", "asked"}
        /\ step.pc = "rows" => step.user = u /\ step.left \subseteq left
    BY DEF AccountSteps, Accounts!Idle
  <2> HIDE DEF member, step
  <2>7. employees' \subseteq {e1}
    BY <1>1, <2>1, <2>2, <2>3, <2>4
  <2>8. /\ members' \in [AccountUser -> AccountMembership \cup {Accounts!NoRow}]
        /\ \A v \in AccountUser : members'[v] # Accounts!NoRow => users[v] # Accounts!NoRow
        /\ \A v \in AccountUser : members[v] # Accounts!NoRow => members'[v] # Accounts!NoRow
    BY <1>1, <2>3, <2>4, <2>5, AccountRows
  <2>9. step.pc = "rows" => users[step.user] # Accounts!NoRow /\ ("Employee" \in step.left => step.user = e1)
    BY <2>4, <2>6
  <2>10. QED
    BY <1>1, <2>3, <2>6, <2>7, <2>8, <2>9, AccountWrites
<1>8. QED
  BY <1>2, <1>3, <1>4, <1>5, <1>6, <1>7 DEF AccountStep

\* The request of the part where one runs at a time and none stops has still to create a row.
Missing(u, row) ==
  /\ accountFlight[f1].pc = "rows" /\ accountFlight[f1].user = u
  /\ row \in accountFlight[f1].left

\* There, who is signed in has access, accounts miss only what is about to be created, and reports
\* are where they were assigned, or are cleared and about to be assigned.
AccountsHold ==
  /\ \A u \in signedIn : Accounts!HasAccess(u)
  /\ accountFlight[f1].pc = "session" => Accounts!HasAccess(accountFlight[f1].user)
  /\ \A u \in AccountUser : users[u] # Accounts!NoRow =>
       /\ members[u] # Accounts!NoRow \/ Missing(u, "Membership")
       /\ u = e1 => u \in employees \/ Missing(u, "Employee")
  /\ \A u \in AccountUser : Missing(u, "Membership") => members[u] = Accounts!NoRow
  /\ \A m \in Managers : \A e \in reports[m] :
       /\ members[e] # Accounts!NoRow
       /\ members[e].manager = m \/ (accountFlight[f1].pc = "assign" /\ accountFlight[f1].user = m)

\* What access is: an active user with an active membership.
LEMMA AccessIs ==
  \A u : Accounts!HasAccess(u) <=> /\ users[u] # Accounts!NoRow /\ users[u].isActive
                                   /\ members[u] # Accounts!NoRow /\ members[u].isActive
BY DEF Accounts!HasAccess, Accounts!Active, Accounts!Exists, Accounts!ActiveMember

\* A step that leaves the tables, at whose start no row was to be created or report to be assigned.
LEMMA HoldsRead ==
  ASSUME AccountInv, AccountsHold, part = "accounts", part' = part,
         UNCHANGED <<users, employees, members, signedIn, reports>>,
         accountFlight[f1].pc \notin {"rows", "assign"},
         accountFlight'[f1].pc # "rows",
         accountFlight'[f1].pc = "session" => Accounts!HasAccess(accountFlight'[f1].user)
  PROVE  AccountsHold'
<1>1. UNCHANGED <<AccountUser, Managers>>
  BY DEF AccountUser, Managers
<1>2. \A u : Accounts!HasAccess(u)' <=> Accounts!HasAccess(u)
  BY DEF Accounts!HasAccess, Accounts!Active, Accounts!Exists, Accounts!ActiveMember, Accounts!NoRow
<1>3. \A u, row : ~Missing(u, row) /\ ~Missing(u, row)'
  BY DEF Missing
<1>4. accountFlight'[f1].pc = "session" => Accounts!HasAccess(accountFlight[f1].user)'
  BY DEF Accounts!HasAccess, Accounts!Active, Accounts!Exists, Accounts!ActiveMember, Accounts!NoRow
<1>5. QED
  BY <1>1, <1>2, <1>3, <1>4 DEF AccountsHold, Accounts!NoRow

\* What the one request does.
LEMMA HoldsReads ==
  ASSUME AccountInv, AccountsHold, part = "accounts", part' = part,
         \/ \E u \in AccountUser : Accounts!SignIn(f1, u)
         \/ \E a \in {dev, a1} : \/ \E u \in AccountUser : Accounts!Create(f1, a, u)
                                 \/ \E u \in AccountUser, b \in BOOLEAN : Accounts!ChangeStatus(f1, a, u, b)
                                 \/ \E m \in Managers, S \in SUBSET {e1} : Accounts!AssignReports(f1, a, m, S)
         \/ \E a \in {a1} \cup Managers : Accounts!Review(f1, a, e1)
         \/ Accounts!Decide(f1) \/ Accounts!Ask(f1, e1)
         \/ Accounts!FindManager(f1) \/ Accounts!FindAdmins(f1) \/ Accounts!FindActive(f1)
         \/ Accounts!Notify(f1) \/ Accounts!Answer(f1)
  PROVE  AccountsHold'
<1>1. UNCHANGED <<users, employees, members, signedIn, reports>>
  BY DEF Accounts!SignIn, Accounts!Create, Accounts!ChangeStatus, Accounts!AssignReports, Accounts!Review,
         Accounts!Decide, Accounts!Ask, Accounts!FindManager, Accounts!FindAdmins, Accounts!FindActive,
         Accounts!Notify, Accounts!Answer, Accounts!FindRecipients
<1>2. accountFlight[f1].pc \notin {"rows", "assign"}
  <2>1. Accounts!Idle.pc = "idle"
    BY DEF Accounts!Idle
  <2>2. \/ accountFlight[f1] = Accounts!Idle
        \/ accountFlight[f1].pc \in {"review", "asked", "admins", "recipients", "notify", "answer"}
    BY DEF Accounts!SignIn, Accounts!Create, Accounts!ChangeStatus, Accounts!AssignReports, Accounts!Review,
           Accounts!Decide, Accounts!Deliver, Accounts!Ask, Accounts!FindManager, Accounts!FindAdmins,
           Accounts!FindActive, Accounts!Notify, Accounts!Answer
  <2>3. QED
    BY <2>1, <2>2
<1>3. f1 \in DOMAIN accountFlight
  BY DEF AccountInv, AccountTypes, Handlers
<1>4. CASE \E u \in AccountUser : Accounts!SignIn(f1, u)
  <2>1. PICK u \in AccountUser : Accounts!HasAccess(u) /\ accountFlight'[f1] = [pc |-> "session", user |-> u]
    BY <1>3, <1>4 DEF Accounts!SignIn, Accounts!Continue
  <2>2. QED
    BY <1>1, <1>2, <2>1, HoldsRead
<1>5. CASE ~\E u \in AccountUser : Accounts!SignIn(f1, u)
  <2>1. CASE \/ Accounts!FindManager(f1) \/ Accounts!FindAdmins(f1) \/ Accounts!FindActive(f1)
             \/ Accounts!Notify(f1)
    <3>1. accountFlight'[f1].pc \in {"recipients", "admins", "notify", "answer"}
      BY <1>3, <2>1, RecipientSteps DEF AccountInv, Handlers
    <3>2. QED
      BY <1>1, <1>2, <3>1, HoldsRead
  <2>2. CASE ~(\/ Accounts!FindManager(f1) \/ Accounts!FindAdmins(f1) \/ Accounts!FindActive(f1)
               \/ Accounts!Notify(f1))
    <3>1. accountFlight'[f1].pc \in {"user", "status", "clear", "review", "idle", "asked"}
      BY <1>3, <1>5, <2>2
      DEF Accounts!Create, Accounts!ChangeStatus, Accounts!AssignReports, Accounts!Review,
          Accounts!Decide, Accounts!Ask, Accounts!Answer, Accounts!Finish, Accounts!Continue, Accounts!Idle
    <3>2. QED
      BY <1>1, <1>2, <3>1, HoldsRead
  <2>3. QED
    BY <2>1, <2>2
<1>6. QED
  BY <1>4, <1>5

\* createSession, for a user who has had access since.
LEMMA HoldsSession ==
  ASSUME AccountInv, AccountsHold, part = "accounts", part' = part, Accounts!CreateSession(f1)
  PROVE  AccountsHold'
<1>1. /\ accountFlight[f1].pc = "session"
      /\ signedIn' = signedIn \cup {accountFlight[f1].user}
      /\ accountFlight'[f1] = Accounts!Idle
      /\ UNCHANGED <<users, employees, members, reports, AccountUser, Managers>>
  BY DEF Accounts!CreateSession, Accounts!Finish, Accounts!Continue, AccountInv, AccountTypes, Handlers,
         AccountUser, Managers
<1>2. \A u : Accounts!HasAccess(u)' <=> Accounts!HasAccess(u)
  BY <1>1 DEF Accounts!HasAccess, Accounts!Active, Accounts!Exists, Accounts!ActiveMember, Accounts!NoRow
<1>3. \A u, row : ~Missing(u, row) /\ ~Missing(u, row)'
  BY <1>1 DEF Missing, Accounts!Idle
<1>4. \A u \in signedIn' : Accounts!HasAccess(u)
  BY <1>1 DEF AccountsHold
<1>5. accountFlight'[f1].pc = "idle" /\ accountFlight[f1].pc # "assign"
  BY <1>1 DEF Accounts!Idle
<1>6. QED
  BY <1>1, <1>2, <1>3, <1>4, <1>5 DEF AccountsHold, Accounts!NoRow

\* createAdminAccount and its like: a taken name ends the request, a new user misses its rows.
LEMMA HoldsCreateUser ==
  ASSUME AccountInv, AccountsHold, part = "accounts", part' = part, Accounts!CreateUser(f1)
  PROVE  AccountsHold'
<1>1. accountFlight[f1].pc = "user" /\ f1 \in Handlers
  BY DEF Accounts!CreateUser, Handlers
<1>2. PICK u \in AccountUser, a \in {dev, a1} : u = accountFlight[f1].user /\ a = accountFlight[f1].actor
  BY <1>1, AccountKinds DEF AccountInv
<1>3. UNCHANGED <<employees, members, signedIn, reports, AccountUser, Managers>>
  BY DEF Accounts!CreateUser, AccountUser, Managers
<1>4. \A v, row : ~Missing(v, row)
  BY <1>1 DEF Missing
<1>5. /\ users \in [AccountUser -> Accounts!UserRow \cup {Accounts!NoRow}]
      /\ accountFlight \in [Handlers -> {Accounts!Idle} \cup AccountSteps]
  BY DEF AccountInv, AccountTypes
<1>6. CASE users[u] # Accounts!NoRow
  <2>1. users' = users /\ accountFlight'[f1] = Accounts!Idle
    BY <1>1, <1>2, <1>5, <1>6 DEF Accounts!CreateUser, Accounts!Exists, Accounts!Finish, Accounts!Continue
  <2>2. accountFlight'[f1].pc = "idle"
    BY <2>1 DEF Accounts!Idle
  <2>3. QED
    BY <1>1, <1>3, <2>1, <2>2, HoldsRead
<1>7. CASE users[u] = Accounts!NoRow
  <2> DEFINE row == [isActive |-> TRUE, createdBy |-> a]
             step == [pc |-> "rows", user |-> u, left |-> Accounts!Nested(u)]
  <2>1. users' = [users EXCEPT ![u] = row] /\ accountFlight'[f1] = step
    BY <1>1, <1>2, <1>5, <1>7 DEF Accounts!CreateUser, Accounts!Exists, Accounts!Continue
  <2>2. step.pc = "rows" /\ step.user = u /\ "Membership" \in step.left /\ (u = e1 => "Employee" \in step.left)
    BY DEF Accounts!Nested
  <2>3. row \in Accounts!UserRow
    BY DEF Accounts!UserRow
  <2> HIDE DEF row, step
  <2>4. \A v \in AccountUser : v # u => users'[v] = users[v]
    BY <1>5, <2>1
  <2>5. members[u] = Accounts!NoRow
    BY <1>7 DEF AccountInv, RowsHaveUsers
  <2>6. \A v \in AccountUser : Missing(v, "Membership")' <=> v = u
    BY <2>1, <2>2 DEF Missing
  <2>7. u = e1 => Missing(u, "Employee")'
    BY <2>1, <2>2 DEF Missing
  <2>8. \A v \in signedIn : v # u /\ v \in AccountUser /\ Accounts!HasAccess(v)
    BY <1>7, AccessIs DEF AccountsHold, AccountInv, AccountTypes
  <2>9. \A v \in signedIn : Accounts!HasAccess(v)'
    BY <1>3, <2>4, <2>8
    DEF Accounts!HasAccess, Accounts!Active, Accounts!Exists, Accounts!ActiveMember, Accounts!NoRow
  <2>10. \A v \in AccountUser : users'[v] # Accounts!NoRow =>
           /\ members[v] # Accounts!NoRow \/ Missing(v, "Membership")'
           /\ v = e1 => v \in employees \/ Missing(v, "Employee")'
    BY <1>4, <2>4, <2>6, <2>7 DEF AccountsHold
  <2>11. \A m \in Managers : \A e \in reports[m] : members[e] # Accounts!NoRow /\ members[e].manager = m
    BY <1>1 DEF AccountsHold
  <2>12. accountFlight'[f1].pc # "session"
    BY <2>1, <2>2
  <2>13. \A v \in AccountUser : Missing(v, "Membership")' => members[v] = Accounts!NoRow
    BY <2>5, <2>6
  <2>14. QED
    BY <1>3, <2>9, <2>10, <2>11, <2>12, <2>13 DEF AccountsHold, Accounts!NoRow
<1>8. QED
  BY <1>6, <1>7

\* The rows created with the user.
LEMMA HoldsNested ==
  ASSUME AccountInv, AccountsHold, part = "accounts", part' = part,
         NEW row \in {"Employee", "Membership"}, Accounts!CreateNested(f1, row)
  PROVE  AccountsHold'
<1>1. accountFlight[f1].pc = "rows" /\ row \in accountFlight[f1].left /\ f1 \in Handlers
  BY DEF Accounts!CreateNested, Handlers
<1>2. PICK u \in AccountUser, left \in SUBSET {"Employee", "Membership"} :
        u = accountFlight[f1].user /\ left = accountFlight[f1].left
  BY <1>1, AccountKinds DEF AccountInv
<1> DEFINE member == [isActive |-> TRUE, manager |-> none]
           step == IF left \ {row} = {} THEN Accounts!Idle ELSE [pc |-> "rows", user |-> u, left |-> left \ {row}]
<1>3. /\ employees' = IF row = "Employee" THEN employees \cup {u} ELSE employees
      /\ members' = IF row = "Membership" THEN [members EXCEPT ![u] = member] ELSE members
      /\ accountFlight'[f1] = step
      /\ UNCHANGED <<users, signedIn, reports, AccountUser, Managers>>
  BY <1>1, <1>2
  DEF Accounts!CreateNested, Accounts!Finish, Accounts!Continue, AccountUser, Managers, AccountInv,
      AccountTypes
<1>4. step.pc \in {"idle", "rows"}
  BY DEF Accounts!Idle
<1>5. \A v, missing : (step.pc = "rows" /\ step.user = v /\ missing \in step.left)
                        <=> (v = u /\ missing \in left /\ missing # row)
  <2>1. CASE left \ {row} = {}
    <3>1. step.pc = "idle"
      BY <2>1 DEF Accounts!Idle
    <3> HIDE DEF step
    <3>2. QED
      BY <2>1, <3>1
  <2>2. CASE left \ {row} # {}
    <3>1. step.pc = "rows" /\ step.user = u /\ step.left = left \ {row}
      BY <2>2
    <3> HIDE DEF step
    <3>2. QED
      BY <3>1
  <2>3. QED
    BY <2>1, <2>2
<1>6. member # Accounts!NoRow /\ member.isActive
  BY DEF Accounts!NoRow
<1> HIDE DEF member, step
<1>7. \A v, missing : Missing(v, missing) <=> (v = u /\ missing \in left)
  BY <1>1, <1>2 DEF Missing
<1>8. \A v, missing : Missing(v, missing)' <=> (v = u /\ missing \in left /\ missing # row)
  BY <1>3, <1>5 DEF Missing
<1>9. members \in [AccountUser -> AccountMembership \cup {Accounts!NoRow}]
  BY DEF AccountInv, AccountTypes
<1>10. /\ \A v \in AccountUser : v # u => members'[v] = members[v]
       /\ row = "Membership" => members[u] = Accounts!NoRow /\ members'[u] = member
       /\ row # "Membership" => members' = members
  BY <1>1, <1>2, <1>3, <1>7, <1>9 DEF AccountsHold
<1>11. \A v \in AccountUser : members[v] # Accounts!NoRow => members'[v] = members[v]
  BY <1>10
<1>12. \A v \in signedIn : Accounts!HasAccess(v)'
  <2>1. \A v \in signedIn : v \in AccountUser /\ members'[v] = members[v] /\ Accounts!HasAccess(v)
    BY <1>11, AccessIs DEF AccountsHold, AccountInv, AccountTypes
  <2>2. QED
    BY <1>3, <2>1
    DEF Accounts!HasAccess, Accounts!Active, Accounts!Exists, Accounts!ActiveMember, Accounts!NoRow
<1>13. \A v \in AccountUser : users[v] # Accounts!NoRow =>
         /\ members'[v] # Accounts!NoRow \/ Missing(v, "Membership")'
         /\ v = e1 => v \in employees' \/ Missing(v, "Employee")'
  <2>1. SUFFICES ASSUME NEW v \in AccountUser, users[v] # Accounts!NoRow
                 PROVE  /\ members'[v] # Accounts!NoRow \/ Missing(v, "Membership")'
                        /\ v = e1 => v \in employees' \/ Missing(v, "Employee")'
    OBVIOUS
  <2>2. /\ members[v] # Accounts!NoRow \/ Missing(v, "Membership")
        /\ v = e1 => v \in employees \/ Missing(v, "Employee")
    BY <2>1 DEF AccountsHold
  <2>3. members'[v] # Accounts!NoRow \/ Missing(v, "Membership")'
    BY <1>6, <1>7, <1>8, <1>10, <1>11, <2>1, <2>2
  <2>4. v = e1 => v \in employees' \/ Missing(v, "Employee")'
    BY <1>3, <1>7, <1>8, <2>2
  <2>5. QED
    BY <2>3, <2>4
<1>14. \A v \in AccountUser : Missing(v, "Membership")' => members'[v] = Accounts!NoRow
  BY <1>7, <1>8, <1>10 DEF AccountsHold
<1>15. \A m \in Managers : \A e \in reports[m] : members'[e] # Accounts!NoRow /\ members'[e].manager = m
  <2>1. \A m \in Managers : \A e \in reports[m] :
          e \in AccountUser /\ members[e] # Accounts!NoRow /\ members[e].manager = m
    BY <1>1 DEF AccountsHold, AccountInv, AccountTypes, AccountUser
  <2>2. QED
    BY <1>11, <2>1
<1>16. accountFlight'[f1].pc \notin {"session", "assign"}
  BY <1>3, <1>4
<1>17. QED
  BY <1>3, <1>12, <1>13, <1>14, <1>15, <1>16 DEF AccountsHold, Accounts!NoRow

\* A deactivated account is signed out in the batch that deactivates it.
LEMMA HoldsStatus ==
  ASSUME AccountInv, AccountsHold, part = "accounts", part' = part, Accounts!SetStatus(f1)
  PROVE  AccountsHold'
<1>1. accountFlight[f1].pc = "status" /\ f1 \in Handlers
  BY DEF Accounts!SetStatus, Handlers
<1>2. PICK u \in AccountUser, b \in BOOLEAN : u = accountFlight[f1].user /\ b = accountFlight[f1].isActive
  BY <1>1, AccountKinds DEF AccountInv
<1>3. /\ users' = [users EXCEPT ![u].isActive = b]
      /\ members' = IF members[u] = Accounts!NoRow THEN members ELSE [members EXCEPT ![u].isActive = b]
      /\ signedIn' \subseteq signedIn /\ (u \in signedIn' => b)
      /\ accountFlight'[f1] = Accounts!Idle
      /\ UNCHANGED <<employees, reports, AccountUser, Managers>>
  <2>1. signedIn' = Accounts!SessionsAfter(u, b)
    BY <1>2 DEF Accounts!SetStatus
  <2>2. signedIn' \subseteq signedIn /\ (u \in signedIn' => b)
    BY <2>1 DEF Accounts!SessionsAfter
  <2>3. QED
    BY <1>1, <1>2, <2>2 DEF Accounts!SetStatus, Accounts!Finish, Accounts!Continue, AccountUser, Managers,
                            AccountInv, AccountTypes
<1>4. /\ users \in [AccountUser -> Accounts!UserRow \cup {Accounts!NoRow}]
      /\ members \in [AccountUser -> AccountMembership \cup {Accounts!NoRow}]
      /\ signedIn \subseteq AccountUser
      /\ reports \in [Managers -> SUBSET {e1}]
  BY DEF AccountInv, AccountTypes
<1>5. users[u] # Accounts!NoRow
  BY <1>1, <1>2 DEF AccountInv, RowsHaveUsers
<1>6. \A v, row : ~Missing(v, row) /\ ~Missing(v, row)'
  BY <1>1, <1>3 DEF Missing, Accounts!Idle
<1>7. members[u] # Accounts!NoRow
  BY <1>5, <1>6 DEF AccountsHold
<1>8. /\ \A v \in AccountUser : v # u => users'[v] = users[v] /\ members'[v] = members[v]
      /\ users'[u] # Accounts!NoRow /\ users'[u].isActive = b
      /\ members'[u] # Accounts!NoRow /\ members'[u].isActive = b /\ members'[u].manager = members[u].manager
  <2>1. users[u] \in Accounts!UserRow /\ members[u] \in AccountMembership
    BY <1>4, <1>5, <1>7
  <2>2. users'[u] = [users[u] EXCEPT !.isActive = b] /\ members'[u] = [members[u] EXCEPT !.isActive = b]
    BY <1>3, <1>4, <1>7
  <2>3. QED
    BY <1>3, <1>4, <1>7, <2>1, <2>2, AccountRows
<1>9. \A v \in signedIn' : Accounts!HasAccess(v)'
  <2>1. ASSUME NEW v \in signedIn'
        PROVE  /\ users'[v] # Accounts!NoRow /\ users'[v].isActive
               /\ members'[v] # Accounts!NoRow /\ members'[v].isActive
    <3>1. v \in AccountUser /\ Accounts!HasAccess(v)
      BY <1>3, <1>4 DEF AccountsHold
    <3>2. CASE v = u
      BY <1>3, <1>8, <3>2
    <3>3. CASE v # u
      BY <1>8, <3>1, <3>3, AccessIs
    <3>4. QED
      BY <3>2, <3>3
  <2>2. QED
    BY <2>1 DEF Accounts!HasAccess, Accounts!Active, Accounts!Exists, Accounts!ActiveMember, Accounts!NoRow
<1>10. \A v \in AccountUser : users'[v] # Accounts!NoRow =>
         /\ members'[v] # Accounts!NoRow
         /\ v = e1 => v \in employees
  BY <1>5, <1>6, <1>8 DEF AccountsHold
<1>11. \A m \in Managers : \A e \in reports[m] : members'[e] # Accounts!NoRow /\ members'[e].manager = m
  <2>1. \A m \in Managers : \A e \in reports[m] :
          e \in AccountUser /\ members[e] # Accounts!NoRow /\ members[e].manager = m
    BY <1>1, <1>4 DEF AccountsHold, AccountUser
  <2>2. QED
    BY <1>8, <2>1
<1>12. accountFlight'[f1].pc = "idle"
  BY <1>3 DEF Accounts!Idle
<1>13. QED
  BY <1>3, <1>6, <1>9, <1>10, <1>11, <1>12 DEF AccountsHold, Accounts!NoRow

\* Who is signed in keeps the access when only managers of memberships change.
LEMMA ManagersGiveNoAccess ==
  ASSUME AccountInv, AccountsHold, UNCHANGED <<users, signedIn>>,
         \A u \in AccountUser : /\ members[u] # Accounts!NoRow <=> members'[u] # Accounts!NoRow
                                /\ members[u] # Accounts!NoRow => members'[u].isActive = members[u].isActive
  PROVE  \A u \in signedIn' : Accounts!HasAccess(u)'
<1>1. ASSUME NEW u \in signedIn
      PROVE  users[u] # Accounts!NoRow /\ users[u].isActive /\ members'[u] # Accounts!NoRow /\ members'[u].isActive
  <2>1. u \in AccountUser
    BY DEF AccountInv, AccountTypes
  <2>2. Accounts!HasAccess(u)
    BY DEF AccountsHold
  <2>3. QED
    BY <2>1, <2>2, AccessIs
<1>2. QED
  BY <1>1 DEF Accounts!HasAccess, Accounts!Active, Accounts!Exists, Accounts!ActiveMember, Accounts!NoRow

\* assignManagerReportsV2 first takes all employees from the manager.
LEMMA HoldsClear ==
  ASSUME AccountInv, AccountsHold, part = "accounts", part' = part, Accounts!Clear(f1)
  PROVE  AccountsHold'
<1>1. accountFlight[f1].pc = "clear" /\ f1 \in Handlers
  BY DEF Accounts!Clear, Handlers
<1>2. PICK m \in Managers : m = accountFlight[f1].user
  BY <1>1, AccountKinds DEF AccountInv
<1> DEFINE S == {e \in {e1} : members[e] # Accounts!NoRow /\ members[e].manager = m}
<1>3. /\ members' = [u \in AccountUser |-> IF u \in S THEN [members[u] EXCEPT !.manager = none] ELSE members[u]]
      /\ UNCHANGED <<users, employees, signedIn, reports, AccountUser, Managers>>
  BY <1>2
  DEF Accounts!Clear, Accounts!SetManager, Accounts!Cleared, Accounts!ReportsOf, Accounts!User,
      AccountUser, Managers
<1>4. accountFlight'[f1].pc = "assign" /\ accountFlight'[f1].user = m
  <2>1. accountFlight[f1] \in [pc : {"clear", "assign"}, user : Managers, employees : SUBSET {e1}]
    BY <1>1, AccountKinds DEF AccountInv
  <2>2. accountFlight'[f1] = [accountFlight[f1] EXCEPT !.pc = "assign"]
    BY <1>1 DEF Accounts!Clear, Accounts!Continue, AccountInv, AccountTypes
  <2>3. QED
    BY <1>2, <2>1, <2>2
<1>5. /\ members \in [AccountUser -> AccountMembership \cup {Accounts!NoRow}]
      /\ reports \in [Managers -> SUBSET {e1}] /\ e1 \in AccountUser
  BY DEF AccountInv, AccountTypes, AccountUser
<1>6. \A u \in S : u \in AccountUser /\ members[u] \in AccountMembership
  BY <1>5
<1>7. /\ S \subseteq {e1}
      /\ \A u \in AccountUser :
           u \notin S => ~(u = e1 /\ members[u] # Accounts!NoRow /\ members[u].manager = m)
  OBVIOUS
<1> HIDE DEF S
<1>8. \A u \in AccountUser :
        /\ members[u] # Accounts!NoRow <=> members'[u] # Accounts!NoRow
        /\ members[u] # Accounts!NoRow => members'[u].isActive = members[u].isActive
        /\ u \notin S => members'[u] = members[u]
  BY <1>3, <1>5, <1>6, AccountRows
<1>9. \A u \in signedIn' : Accounts!HasAccess(u)'
  BY <1>3, <1>8, ManagersGiveNoAccess
<1>10. \A v, row : ~Missing(v, row) /\ ~Missing(v, row)'
  BY <1>1, <1>4 DEF Missing
<1>11. \A n \in Managers : \A e \in reports[n] :
         members'[e] # Accounts!NoRow /\ (members'[e].manager = n \/ n = m)
  <2>1. SUFFICES ASSUME NEW n \in Managers, NEW e \in reports[n]
                 PROVE  members'[e] # Accounts!NoRow /\ (members'[e].manager = n \/ n = m)
    OBVIOUS
  <2>2. e = e1 /\ e \in AccountUser /\ members[e] # Accounts!NoRow /\ members[e].manager = n
    BY <1>1, <1>5 DEF AccountsHold
  <2>3. n # m => e \notin S
    BY <1>2, <2>2 DEF S
  <2>4. QED
    BY <1>8, <2>2, <2>3
<1>12. \A u \in AccountUser :
         users[u] # Accounts!NoRow => members[u] # Accounts!NoRow /\ (u = e1 => u \in employees)
  BY <1>10 DEF AccountsHold
<1>13. QED
  BY <1>3, <1>4, <1>8, <1>9, <1>10, <1>11, <1>12 DEF AccountsHold, Accounts!NoRow

\* Then it gives the manager those of the request that are active.
LEMMA HoldsAssign ==
  ASSUME AccountInv, AccountsHold, part = "accounts", part' = part, Accounts!Assign(f1)
  PROVE  AccountsHold'
<1>1. accountFlight[f1].pc = "assign" /\ f1 \in Handlers
  BY DEF Accounts!Assign, Handlers
<1>2. PICK m \in Managers, S \in SUBSET {e1} : m = accountFlight[f1].user /\ S = accountFlight[f1].employees
  BY <1>1, AccountKinds DEF AccountInv
<1> DEFINE taken == {e \in S : members[e] # Accounts!NoRow /\ members[e].isActive}
<1>3. /\ members' = [u \in AccountUser |-> IF u \in taken THEN [members[u] EXCEPT !.manager = m] ELSE members[u]]
      /\ reports' = [n \in Managers |-> IF n = m THEN taken ELSE reports[n] \ taken]
      /\ UNCHANGED <<users, employees, signedIn, AccountUser, Managers>>
  BY <1>2
  DEF Accounts!Assign, Accounts!SetManager, Accounts!ActiveMember, Accounts!User, AccountUser, Managers
<1>4. accountFlight'[f1].pc = "idle"
  <2>1. accountFlight'[f1] = Accounts!Idle
    BY <1>1 DEF Accounts!Assign, Accounts!Finish, Accounts!Continue, AccountInv, AccountTypes
  <2>2. QED
    BY <2>1 DEF Accounts!Idle
<1>5. /\ members \in [AccountUser -> AccountMembership \cup {Accounts!NoRow}]
      /\ reports \in [Managers -> SUBSET {e1}] /\ e1 \in AccountUser
  BY DEF AccountInv, AccountTypes, AccountUser
<1>6. \A u \in taken :
        u = e1 /\ u \in AccountUser /\ members[u] # Accounts!NoRow /\ members[u] \in AccountMembership
  BY <1>5
<1> HIDE DEF taken
<1>7. \A u \in AccountUser :
        /\ members[u] # Accounts!NoRow <=> members'[u] # Accounts!NoRow
        /\ members[u] # Accounts!NoRow => members'[u].isActive = members[u].isActive
        /\ u \notin taken => members'[u] = members[u]
        /\ u \in taken => members'[u].manager = m
  BY <1>3, <1>5, <1>6, AccountRows
<1>8. \A u \in signedIn' : Accounts!HasAccess(u)'
  BY <1>3, <1>7, ManagersGiveNoAccess
<1>9. \A v, row : ~Missing(v, row) /\ ~Missing(v, row)'
  BY <1>1, <1>4 DEF Missing
<1>10. \A n \in Managers : \A e \in reports'[n] : members'[e] # Accounts!NoRow /\ members'[e].manager = n
  <2>1. SUFFICES ASSUME NEW n \in Managers, NEW e \in reports'[n]
                 PROVE  members'[e] # Accounts!NoRow /\ members'[e].manager = n
    OBVIOUS
  <2>2. CASE n = m
    BY <1>3, <1>6, <1>7, <2>1, <2>2
  <2>3. CASE n # m
    <3>1. e \in reports[n] /\ e \notin taken
      BY <1>3, <2>1, <2>3
    <3>2. e \in AccountUser /\ members[e] # Accounts!NoRow /\ members[e].manager = n
      BY <1>2, <1>5, <2>1, <2>3, <3>1 DEF AccountsHold
    <3>3. QED
      BY <1>7, <3>1, <3>2
  <2>4. QED
    BY <2>2, <2>3
<1>11. \A u \in AccountUser :
         users[u] # Accounts!NoRow => members[u] # Accounts!NoRow /\ (u = e1 => u \in employees)
  BY <1>9 DEF AccountsHold
<1>12. QED
  BY <1>3, <1>4, <1>7, <1>8, <1>9, <1>10, <1>11 DEF AccountsHold, Accounts!NoRow

\* The one request of the part keeps what it holds together.
LEMMA HoldsNext ==
  ASSUME AccountInv, AccountsHold, part = "accounts", part' = part, Accounts!Next
  PROVE  AccountsHold'
<1>1. \/ \E u \in AccountUser : Accounts!SignIn(f1, u)
      \/ Accounts!CreateSession(f1)
      \/ \E a \in {dev, a1} : \/ \E u \in AccountUser : Accounts!Create(f1, a, u)
                              \/ \E u \in AccountUser, b \in BOOLEAN : Accounts!ChangeStatus(f1, a, u, b)
                              \/ \E m \in Managers, S \in SUBSET {e1} : Accounts!AssignReports(f1, a, m, S)
      \/ Accounts!CreateUser(f1)
      \/ \E row \in {"Employee", "Membership"} : Accounts!CreateNested(f1, row)
      \/ Accounts!SetStatus(f1) \/ Accounts!Clear(f1) \/ Accounts!Assign(f1)
      \/ \E a \in {a1} \cup Managers : Accounts!Review(f1, a, e1)
      \/ Accounts!Decide(f1) \/ Accounts!Ask(f1, e1)
      \/ Accounts!FindManager(f1) \/ Accounts!FindAdmins(f1) \/ Accounts!FindActive(f1)
      \/ Accounts!Notify(f1) \/ Accounts!Answer(f1)
  BY DEF Accounts!Next, Accounts!User, Accounts!Stop, AccountUser, Managers
<1>2. QED
  BY <1>1, HoldsReads, HoldsSession, HoldsCreateUser, HoldsNested, HoldsStatus, HoldsClear, HoldsAssign

\* Whoever runs, what steady requests hold they keep.
LEMMA SteadyNext ==
  ASSUME AccountInv, SteadyHold, part' = part, NEW f \in Handlers, TellStep(f) \/ QuietStep(f)
  PROVE  SteadyHold'
<1>1. UNCHANGED Handlers /\ a1 \in AccountUser /\ steady \subseteq Handlers
  BY DEF Handlers, AccountUser, SteadyHold
<1>2. ASSUME NobodyLosesAccess, NEW g \in steady, accountFlight'[g] = accountFlight[g]
      PROVE  WillTell(accountFlight[g])'
  <2>1. g \in Handlers /\ WillTell(accountFlight[g])
    BY <1>2 DEF SteadyHold
  <2>2. PICK step : step = accountFlight[g] /\ step = accountFlight'[g]
    BY <1>2
  <2>3. step.pc \in {"recipients", "notify", "answer"} => step.told \subseteq AccountUser
    BY <2>1, <2>2, AccountKinds DEF AccountInv
  <2>4. /\ step.pc \in Telling
        /\ step.pc \in {"asked", "admins"} => Accounts!HasAccess(a1)'
        /\ step.pc = "recipients" => /\ \E u \in step.told : Accounts!HasAccess(u)'
                                     /\ \A u \in step.told : Accounts!ActiveMember(u)'
        /\ step.pc \in {"notify", "answer"} => step.told # {} /\ \A u \in step.told : Accounts!HasAccess(u)'
    <3>1. /\ Accounts!HasAccess(a1) => Accounts!HasAccess(a1)'
          /\ \A u \in AccountUser : /\ Accounts!ActiveMember(u) => Accounts!ActiveMember(u)'
                                    /\ Accounts!HasAccess(u) => Accounts!HasAccess(u)'
      BY <1>1, <1>2 DEF NobodyLosesAccess
    <3>2. WillTell(step)
      BY <2>1, <2>2
    <3>3. QED
      BY <2>3, <3>1, <3>2 DEF WillTell
  <2>5. QED
    BY <2>2, <2>4 DEF WillTell, Telling
<1>3. CASE QuietStep(f)
  <2>1. ASSUME NEW g \in steady'
        PROVE  WillTell(accountFlight[g])'
    <3>1. g \in steady /\ NobodyLosesAccess
      BY <1>3, <2>1 DEF QuietStep
    <3>2. accountFlight[g].pc \in Telling
      BY <3>1 DEF SteadyHold, WillTell
    <3>3. accountFlight'[g] = accountFlight[g]
      BY <1>1, <1>3, <2>1, <3>1, <3>2 DEF QuietStep
    <3>4. QED
      BY <1>2, <3>1, <3>3
  <2>2. QED
    BY <1>1, <1>3, <2>1 DEF QuietStep, SteadyHold
<1>4. CASE TellStep(f)
  <2>1. /\ UNCHANGED <<users, members>>
        /\ \A g \in Handlers : g # f => accountFlight'[g] = accountFlight[g]
    BY <1>4
    DEF TellStep, Asks, Accounts!FindManager, Accounts!FindAdmins, Accounts!FindActive, Accounts!Notify,
        Accounts!FindRecipients, Accounts!Continue, AccountInv, AccountTypes
  <2>2. \A u : /\ Accounts!ActiveMember(u)' = Accounts!ActiveMember(u)
               /\ Accounts!HasAccess(u)' = Accounts!HasAccess(u)
    BY <2>1 DEF Accounts!HasAccess, Accounts!Active, Accounts!Exists, Accounts!ActiveMember, Accounts!NoRow
  <2>3. NobodyLosesAccess
    BY <2>2 DEF NobodyLosesAccess
  <2>4. ASSUME f \in steady'
        PROVE  WillTell(accountFlight[f])'
    <3> DEFINE before == accountFlight[f]
               after == accountFlight'[f]
    <3>1. CASE Asks(f)
      <4>1. f \notin steady
        <5>1. accountFlight[f].pc = "idle"
          BY <3>1 DEF Asks, Accounts!Idle
        <5>2. QED
          BY <5>1 DEF SteadyHold, WillTell, Telling
      <4>2. Accounts!HasAccess(a1)'
        BY <2>2, <2>4, <3>1, <4>1 DEF Asks
      <4>3. after.pc = "asked"
        BY <3>1 DEF Asks, AccountInv, AccountTypes
      <4>4. QED
        BY <4>2, <4>3 DEF WillTell, Telling
    <3>2. CASE ~Asks(f)
      <4>1. steady' = steady /\ WillTell(before)
        BY <1>4, <2>4, <3>2
        DEF TellStep, Accounts!FindManager, Accounts!FindAdmins, Accounts!FindActive, Accounts!Notify,
            Accounts!FindRecipients, SteadyHold
      <4> HIDE DEF before, after
      <4>2. /\ after.pc \in {"admins", "recipients", "notify", "answer"}
            /\ after.pc = "admins" => Accounts!HasAccess(a1)
            /\ after.pc = "recipients" => /\ \E u \in after.told : Accounts!HasAccess(u)
                                          /\ \A u \in after.told : Accounts!ActiveMember(u)
            /\ after.pc \in {"notify", "answer"} => after.told # {} /\ \A u \in after.told : Accounts!HasAccess(u)
        <5>1. CASE Accounts!FindManager(f)
          <6>1. Accounts!HasAccess(a1)
            BY <4>1, <5>1 DEF WillTell, Accounts!FindManager, before
          <6>2. \A u : Accounts!HasAccess(u) => Accounts!ActiveMember(u)
            BY DEF Accounts!HasAccess
          <6>3. \/ /\ after.pc = "recipients" /\ after.told = {members[e1].manager}
                   /\ Accounts!HasAccess(members[e1].manager)
                \/ after.pc = "admins"
            BY <5>1, RecipientSteps DEF AccountInv, after
          <6>4. QED
            BY <6>1, <6>2, <6>3
        <5>2. CASE Accounts!FindAdmins(f)
          <6>1. Accounts!HasAccess(a1) /\ Accounts!ActiveMember(a1)
            BY <4>1, <5>2 DEF WillTell, Accounts!FindAdmins, Accounts!HasAccess, before
          <6>2. after.pc = "recipients" /\ after.told = {a \in {a1} : Accounts!ActiveMember(a)}
            BY <5>2, RecipientSteps DEF AccountInv, after
          <6>3. QED
            BY <6>1, <6>2
        <5>3. CASE Accounts!FindActive(f)
          <6>1. /\ before.pc = "recipients"
                /\ after.told = {u \in before.told : Accounts!Active(u)}
                /\ after.pc = IF after.told = {} THEN "answer" ELSE "notify"
            BY <5>3, RecipientSteps DEF AccountInv, before, after
          <6>2. \A u : Accounts!HasAccess(u) <=> Accounts!Active(u) /\ Accounts!ActiveMember(u)
            BY DEF Accounts!HasAccess
          <6>3. QED
            BY <4>1, <6>1, <6>2 DEF WillTell
        <5>4. CASE Accounts!Notify(f)
          <6>1. before.pc = "notify" /\ after.told = before.told /\ after.pc = "answer"
            BY <5>4, RecipientSteps DEF AccountInv, before, after
          <6>2. QED
            BY <4>1, <6>1 DEF WillTell
        <5>5. QED
          BY <1>4, <3>2, <5>1, <5>2, <5>3, <5>4 DEF TellStep
      <4>3. PICK step : step = after
        OBVIOUS
      <4>4. /\ step.pc \in {"admins", "recipients", "notify", "answer"}
            /\ step.pc = "admins" => Accounts!HasAccess(a1)'
            /\ step.pc = "recipients" => /\ \E u \in step.told : Accounts!HasAccess(u)'
                                         /\ \A u \in step.told : Accounts!ActiveMember(u)'
            /\ step.pc \in {"notify", "answer"} => step.told # {} /\ \A u \in step.told : Accounts!HasAccess(u)'
        BY <2>2, <4>2, <4>3
      <4>5. QED
        BY <4>3, <4>4 DEF WillTell, Telling, after
    <3>3. QED
      BY <3>1, <3>2
  <2>5. steady' \subseteq steady \cup {f}
    BY <1>4
    DEF TellStep, Asks, Accounts!FindManager, Accounts!FindAdmins, Accounts!FindActive, Accounts!Notify,
        Accounts!FindRecipients
  <2>6. ASSUME NEW g \in steady', g # f
        PROVE  WillTell(accountFlight[g])'
    BY <1>1, <1>2, <2>1, <2>3, <2>5, <2>6
  <2>7. QED
    BY <1>1, <2>4, <2>5, <2>6 DEF SteadyHold
<1>5. QED
  BY <1>3, <1>4

\* And while it is the only request, whom it found stays in charge.
LEMMA ChargeNext ==
  ASSUME AccountInv, ToldInCharge, part = "accounts", part' = part, NEW f \in Handlers,
         TellStep(f) \/ QuietStep(f)
  PROVE  ToldInCharge'
<1>1. f = f1 /\ f1 \in Handlers /\ UNCHANGED Managers
  BY DEF Handlers, Managers
<1>2. CASE QuietStep(f)
  <2>1. accountFlight'[f1].pc \notin Telling
    BY <1>1, <1>2 DEF QuietStep
  <2>2. QED
    BY <2>1 DEF ToldInCharge, Telling
<1>3. CASE TellStep(f)
  <2> DEFINE before == accountFlight[f1]
             after == accountFlight'[f1]
  <2>1. UNCHANGED <<users, members>>
    BY <1>3
    DEF TellStep, Asks, Accounts!FindManager, Accounts!FindAdmins, Accounts!FindActive, Accounts!Notify,
        Accounts!FindRecipients
  <2>2. \A u : /\ Accounts!ActiveMember(u)' = Accounts!ActiveMember(u)
               /\ Accounts!HasAccess(u)' = Accounts!HasAccess(u)
    BY <2>1 DEF Accounts!HasAccess, Accounts!Active, Accounts!Exists, Accounts!ActiveMember, Accounts!NoRow
  <2>3. Accounts!HasAccess(e1)
    BY <1>1, <1>3
    DEF TellStep, Asks, ToldInCharge, Telling, Accounts!FindManager, Accounts!FindAdmins,
        Accounts!FindActive, Accounts!Notify
  <2>4. \A u : Accounts!HasAccess(u) <=> Accounts!Active(u) /\ Accounts!ActiveMember(u)
    BY DEF Accounts!HasAccess
  <2>5. /\ after.pc \in {"recipients", "notify", "answer"} =>
             \A u \in after.told : Accounts!ActiveMember(u) /\ (u \in Managers => members[e1].manager = u)
        /\ after.pc \in {"notify", "answer"} => \A u \in after.told : Accounts!HasAccess(u)
    <3>1. CASE Asks(f)
      <4>1. after.pc = "asked"
        BY <1>1, <3>1 DEF Asks, AccountInv, AccountTypes
      <4>2. QED
        BY <4>1
    <3>2. CASE Accounts!FindManager(f)
      <4>1. \/ /\ after.pc = "recipients" /\ after.told = {members[e1].manager}
               /\ Accounts!HasAccess(members[e1].manager)
            \/ after.pc = "admins"
        BY <1>1, <3>2, RecipientSteps DEF AccountInv
      <4> HIDE DEF after
      <4>2. QED
        BY <2>4, <4>1
    <3>3. CASE Accounts!FindAdmins(f)
      <4>1. a1 \notin Managers
        BY AdministrationParameters DEF Managers, Accounts!Parameters
      <4>2. after.pc = "recipients" /\ after.told = {a \in {a1} : Accounts!ActiveMember(a)}
        BY <1>1, <3>3, RecipientSteps DEF AccountInv
      <4> HIDE DEF after
      <4>3. QED
        BY <4>1, <4>2
    <3>4. CASE Accounts!FindActive(f)
      <4>1. /\ before.pc = "recipients"
            /\ after.told = {u \in before.told : Accounts!Active(u)}
            /\ after.pc = IF after.told = {} THEN "answer" ELSE "notify"
        BY <1>1, <3>4, RecipientSteps DEF AccountInv
      <4>2. QED
        BY <2>4, <4>1 DEF ToldInCharge
    <3>5. CASE Accounts!Notify(f)
      <4>1. before.pc = "notify" /\ after.told = before.told /\ after.pc = "answer"
        BY <1>1, <3>5, RecipientSteps DEF AccountInv
      <4>2. QED
        BY <4>1 DEF ToldInCharge
    <3>6. QED
      BY <1>3, <3>1, <3>2, <3>3, <3>4, <3>5 DEF TellStep
  <2>6. PICK step : step = after
    OBVIOUS
  <2>7. /\ step.pc \in Telling => Accounts!HasAccess(e1)'
        /\ step.pc \in {"recipients", "notify", "answer"} =>
             \A u \in step.told : Accounts!ActiveMember(u)' /\ (u \in Managers' => members'[e1].manager = u)
        /\ step.pc \in {"notify", "answer"} => \A u \in step.told : Accounts!HasAccess(u)'
    BY <1>1, <2>1, <2>2, <2>3, <2>5, <2>6
  <2>8. QED
    BY <2>6, <2>7 DEF ToldInCharge, Telling
<1>4. QED
  BY <1>2, <1>3

-----------------------------------------------------------------------------
(* The settings of MCAdministration.                                       *)

SuiteInv ==
  /\ part = "profiles" => ProfilesInv
  /\ part \in {"requests", "accounts"} => AccountInv /\ SteadyHold
  /\ part = "accounts" => AccountsHold /\ ToldInCharge
  /\ SetupInv
  /\ part = "names" => Setup!TypeOK
  /\ part = "organizations" => NestedIsUnderWay /\ WholeSetup!TypeOK

\* There is nothing at first.
LEMMA SuiteInvInit == SuiteInit => SuiteInv
<1> SUFFICES ASSUME SuiteInit PROVE SuiteInv
  OBVIOUS
<1>1. ProfilesInv
  <2>1. \A t \in Profiles : rows[t] = {}
    BY DEF SuiteInit, Init, Table
  <2>2. QED
    BY <2>1, InvInit DEF SuiteInit, ProfilesInv, Followed
<1>2. /\ organizations = [o \in SetupOrganization |-> WholeSetup!NoRow] /\ policies = {} /\ leaveTypes = {}
      /\ numbers = [e \in SetupEmployee |-> none] /\ setupFlight = [f \in Flight |-> WholeSetup!Idle]
      /\ part = "organizations" => worksites = [w \in {w1} |-> WholeSetup!NoRow]
      /\ part # "organizations" => worksites = [w \in {} |-> Setup!NoRow]
  BY DEF SuiteInit, Setup!Init, WholeSetup!Init, SetupOrganization, SetupEmployee, Setup!NoRow,
         WholeSetup!NoRow, Setup!Idle, WholeSetup!Idle
<1>3. SetupTypes
  BY <1>2 DEF SetupTypes
<1>4. WholeSetup!Existing(organizations) = {} /\ WholeSetup!Idle.pc = "idle"
  BY <1>2 DEF WholeSetup!Existing, WholeSetup!Idle
<1>5. SetupInv /\ NestedIsUnderWay
  <2>1. SetupAlone
    BY <1>2 DEF SetupAlone
  <2>2. NamesHold
    BY <1>2, <1>4 DEF NamesHold
  <2>3. WholeSetup!OrganizationNamesDiffer /\ NestedIsUnderWay
    BY <1>4 DEF WholeSetup!OrganizationNamesDiffer, NestedIsUnderWay
  <2>4. WholeSetup!EmployeeNumbersDiffer
    BY <1>2 DEF WholeSetup!EmployeeNumbersDiffer, SetupEmployee
  <2>5. QED
    BY <1>3, <2>1, <2>2, <2>3, <2>4 DEF SetupInv
<1>6. ASSUME part = "names"
      PROVE  Setup!TypeOK
  <2>1. worksites \in [{} -> Setup!Spelling \cup {Setup!NoRow}]
    BY <1>2, <1>6
  <2>2. QED
    BY <1>3, <2>1
    DEF SetupTypes, Setup!TypeOK, SetupOrganization, SetupEmployee, Setup!Idle, WholeSetup!Idle,
        Setup!Flights, WholeSetup!Flights, Setup!Spelling, WholeSetup!Spelling, Setup!NoRow,
        WholeSetup!NoRow, Setup!DefaultLeave, WholeSetup!DefaultLeave
<1>7. ASSUME part = "organizations"
      PROVE  WholeSetup!TypeOK
  <2>1. worksites \in [{w1} -> WholeSetup!Spelling \cup {WholeSetup!NoRow}]
    BY <1>2, <1>7
  <2>2. QED
    BY <1>3, <2>1 DEF SetupTypes, WholeSetup!TypeOK, SetupOrganization, SetupEmployee
<1>8. ASSUME part \in {"requests", "accounts"}
      PROVE  /\ users = [u \in AccountUser |-> Accounts!NoRow] /\ employees = {}
             /\ members = [u \in AccountUser |-> Accounts!NoRow] /\ signedIn = {}
             /\ reports = [m \in Managers |-> {}]
             /\ accountFlight = [f \in Handlers |-> Accounts!Idle] /\ steady = {}
  BY <1>8
  DEF SuiteInit, Requests!Init, Accounts!Init, AccountUser, Managers, Handlers, Requests!User,
      Accounts!User, Requests!NoRow, Accounts!NoRow, Requests!Idle, Accounts!Idle
<1>9. Accounts!Idle.pc = "idle"
  BY DEF Accounts!Idle
<1>10. ASSUME part \in {"requests", "accounts"}
       PROVE  AccountInv /\ SteadyHold
  <2>1. AccountTypes
    BY <1>8, <1>10 DEF AccountTypes
  <2>2. RowsHaveUsers
    BY <1>8, <1>9, <1>10 DEF RowsHaveUsers
  <2>3. SteadyHold
    BY <1>8, <1>10 DEF SteadyHold
  <2>4. QED
    BY <2>1, <2>2, <2>3 DEF AccountInv
<1>11. ASSUME part = "accounts"
       PROVE  AccountsHold /\ ToldInCharge
  <2>1. accountFlight[f1].pc = "idle"
    BY <1>8, <1>9, <1>11 DEF Handlers
  <2>2. QED
    BY <1>8, <1>11, <2>1 DEF AccountsHold, Missing, ToldInCharge, Telling
<1>12. QED
  BY <1>1, <1>5, <1>6, <1>7, <1>10, <1>11 DEF SuiteInv

\* Every step keeps what its part promises.
LEMMA SuiteInvNext ==
  ASSUME CoordinatorSerializes, SuiteInv, [SuiteNext]_suiteVars
  PROVE  SuiteInv'
<1>1. part' = part
  BY DEF SuiteNext, suiteVars
<1>2. part = "profiles" => ProfilesInv'
  <2>1. CASE part = "profiles" /\ Profile!Next
    BY <2>1, ProfilesNext DEF SuiteInv
  <2>2. CASE part = "profiles" /\ UNCHANGED vars
    <3>1. Inv'
      BY <2>2, InvNext DEF SuiteInv, ProfilesInv
    <3>2. QED
      BY <2>2, <3>1 DEF SuiteInv, ProfilesInv, Followed, InForce, vars
  <2>3. QED
    BY <2>1, <2>2 DEF SuiteNext, suiteVars
<1>3. part \in {"requests", "accounts"} =>
        /\ AccountInv' /\ SteadyHold'
        /\ part = "accounts" => AccountsHold' /\ ToldInCharge'
  <2>1. ASSUME (part = "requests" /\ Requests!Next) \/ (part = "accounts" /\ Accounts!Next)
        PROVE  /\ AccountInv' /\ SteadyHold'
               /\ part = "accounts" => AccountsHold' /\ ToldInCharge'
    <3>1. AccountInv /\ AccountTypes /\ SteadyHold
      BY <2>1 DEF SuiteInv, AccountInv
    <3>2. PICK f \in Handlers : AccountStep(f) /\ (TellStep(f) \/ QuietStep(f))
      BY <2>1, <3>1, AccountStepsOf
    <3>3. AccountInv' /\ SteadyHold'
      BY <1>1, <3>1, <3>2, AccountsNext, SteadyNext
    <3>4. part = "accounts" => AccountsHold' /\ ToldInCharge'
      BY <1>1, <2>1, <3>1, <3>2, HoldsNext, ChargeNext DEF SuiteInv
    <3>5. QED
      BY <3>3, <3>4
  <2>2. ASSUME part \in {"requests", "accounts"}, UNCHANGED accountVars
        PROVE  /\ AccountInv' /\ SteadyHold'
               /\ part = "accounts" => AccountsHold' /\ ToldInCharge'
    <3>1. AccountInv /\ SteadyHold /\ UNCHANGED <<AccountUser, Managers, Handlers>>
      BY <1>1, <2>2 DEF SuiteInv, AccountUser, Managers, Handlers
    <3>2. AccountTypes'
      BY <2>2, <3>1
      DEF accountVars, AccountInv, AccountTypes, AccountSteps, AccountMembership, Accounts!Idle,
          Accounts!UserRow, Accounts!NoRow
    <3>3. RowsHaveUsers'
      BY <2>2, <3>1 DEF accountVars, AccountInv, RowsHaveUsers, Accounts!NoRow
    <3>4. AccountsHold => AccountsHold'
      BY <2>2, <3>1
      DEF accountVars, AccountsHold, Missing, Accounts!HasAccess, Accounts!Active, Accounts!Exists,
          Accounts!ActiveMember, Accounts!NoRow
    <3>5. SteadyHold'
      BY <2>2, <3>1
      DEF accountVars, SteadyHold, WillTell, Telling, Accounts!HasAccess, Accounts!Active,
          Accounts!Exists, Accounts!ActiveMember, Accounts!NoRow
    <3>6. ToldInCharge => ToldInCharge'
      BY <2>2, <3>1
      DEF accountVars, ToldInCharge, Telling, Accounts!HasAccess, Accounts!Active, Accounts!Exists,
          Accounts!ActiveMember, Accounts!NoRow
    <3>7. QED
      BY <2>2, <3>2, <3>3, <3>4, <3>5, <3>6 DEF SuiteInv, AccountInv
  <2>3. part \in {"requests", "accounts"} => \/ part = "requests" /\ Requests!Next
                                             \/ part = "accounts" /\ Accounts!Next
                                             \/ UNCHANGED accountVars
    BY DEF SuiteNext, suiteVars
  <2>4. QED
    BY <2>1, <2>2, <2>3
<1>4. /\ SetupInv'
      /\ part = "names" => Setup!TypeOK'
      /\ part = "organizations" => NestedIsUnderWay' /\ WholeSetup!TypeOK'
  <2>1. CASE part = "names" /\ Setup!Next
    <3>1. SetupInv'
      BY <2>1, NamesNext DEF SuiteInv
    <3>2. UNCHANGED worksites
      BY <2>1
      DEF Setup!Next, Setup!ReadNames, Setup!CreateOrganization, Setup!CreateNested, Setup!ReadNumbers,
          Setup!UpdateEmployee, Setup!Stop
    <3>3. worksites' \in [{} -> Setup!Spelling \cup {Setup!NoRow}]
      BY <2>1, <3>2 DEF SuiteInv, Setup!TypeOK, Setup!Spelling, Setup!NoRow
    <3>4. SetupTypes'
      BY <3>1 DEF SetupInv
    <3>5. Setup!TypeOK'
      BY <3>3, <3>4
      DEF SetupTypes, Setup!TypeOK, SetupOrganization, SetupEmployee, Setup!Idle, WholeSetup!Idle,
          Setup!Flights, WholeSetup!Flights, Setup!Spelling, WholeSetup!Spelling, Setup!NoRow,
          WholeSetup!NoRow, Setup!DefaultLeave, WholeSetup!DefaultLeave
    <3>6. QED
      BY <2>1, <3>1, <3>5
  <2>2. CASE part = "organizations" /\ WholeSetup!Next
    BY <2>2, OrganizationsNext DEF SuiteInv
  <2>3. CASE UNCHANGED setupVars
    <3>1. SetupInv'
      BY <2>3, SetupEnds DEF setupVars, SuiteInv
    <3>2. Setup!TypeOK => Setup!TypeOK'
      BY <2>3
      DEF setupVars, Setup!TypeOK, Setup!Idle, Setup!Flights, Setup!Spelling, Setup!NoRow,
          Setup!DefaultLeave
    <3>3. WholeSetup!TypeOK => WholeSetup!TypeOK'
      BY <2>3 DEF setupVars, WholeSetup!TypeOK, WholeSetup!Idle, WholeSetup!Flights, WholeSetup!Spelling,
                  WholeSetup!NoRow, WholeSetup!DefaultLeave
    <3>4. NestedIsUnderWay => NestedIsUnderWay'
      <4>1. WholeSetup!Existing(organizations)' = WholeSetup!Existing(organizations) /\ SetupParts' = SetupParts
        BY <2>3 DEF setupVars, WholeSetup!Existing, WholeSetup!NoRow, SetupParts, WholeSetup!DefaultLeave
      <4>2. \A o, row : HasPart(o, row)' = HasPart(o, row)
        BY <2>3 DEF setupVars, HasPart
      <4>3. setupFlight' = setupFlight
        BY <2>3 DEF setupVars
      <4>4. QED
        BY <4>1, <4>2, <4>3 DEF NestedIsUnderWay
    <3>5. QED
      BY <3>1, <3>2, <3>3, <3>4 DEF SuiteInv
  <2>4. QED
    BY <2>1, <2>2, <2>3 DEF SuiteNext, suiteVars
<1>5. QED
  BY <1>1, <1>2, <1>3, <1>4 DEF SuiteInv

\* What the invariant says of each part.
LEMMA SuiteHolds == SuiteInv => AdministrationHoldsTogether
<1> SUFFICES ASSUME SuiteInv PROVE AdministrationHoldsTogether
  OBVIOUS
<1>1. part = "profiles" => Profile!NoGapBetweenProfiles
  BY ProfilesFollow DEF SuiteInv
<1>2. ASSUME part = "requests"
      PROVE  Requests!TypeOK /\ Requests!RequestsReachSomeone
  <2>1. AccountInv /\ AccountTypes /\ SteadyHold
    BY <1>2 DEF SuiteInv, AccountInv
  <2>2. Requests!TypeOK
    BY <1>2, <2>1
    DEF AccountTypes, AccountUser, AccountMembership, AccountSteps, Managers, Handlers, Requests!TypeOK,
        Requests!User, Requests!UserRow, Requests!Membership, Requests!NoRow, Requests!Idle,
        Requests!Flights, Accounts!UserRow, Accounts!NoRow, Accounts!Idle, SteadyHold
  <2>3. Requests!RequestsReachSomeone
    BY <2>1
    DEF SteadyHold, WillTell, Requests!RequestsReachSomeone, Requests!HasAccess, Accounts!HasAccess,
        Requests!Active, Accounts!Active, Requests!Exists, Accounts!Exists, Requests!ActiveMember,
        Accounts!ActiveMember, Requests!NoRow, Accounts!NoRow
  <2>4. QED
    BY <2>2, <2>3
<1>3. ASSUME part = "accounts"
      PROVE  /\ Accounts!TypeOK /\ Accounts!InactiveIsSignedOut
             /\ Accounts!AccountsAreComplete /\ Accounts!ReportsAreKept
             /\ Accounts!RequestsReachSomeone /\ Accounts!ApproversAreInCharge
  <2>1. AccountInv /\ AccountTypes /\ AccountsHold /\ SteadyHold /\ ToldInCharge
    BY <1>3 DEF SuiteInv, AccountInv
  <2>2. Accounts!TypeOK
    BY <1>3, <2>1
    DEF AccountTypes, AccountUser, AccountMembership, AccountSteps, Managers, Handlers, Accounts!TypeOK,
        Accounts!User, Accounts!Membership, Accounts!Flights, SteadyHold
  <2>3. Accounts!InactiveIsSignedOut
    BY <2>1 DEF AccountsHold, Accounts!InactiveIsSignedOut
  <2>4. Accounts!Quiet => accountFlight[f1].pc = "idle"
    BY DEF Accounts!Quiet, Accounts!Idle
  <2>5. Accounts!AccountsAreComplete
    BY <1>3, <2>1, <2>4
    DEF AccountsHold, Missing, Accounts!AccountsAreComplete, Accounts!Exists, Accounts!User, AccountUser,
        Managers
  <2>6. Accounts!ReportsAreKept
    BY <1>3, <2>1, <2>4
    DEF AccountsHold, AccountTypes, Accounts!ReportsAreKept, Accounts!ReportsOf, Managers
  <2>7. Accounts!RequestsReachSomeone
    BY <2>1 DEF SteadyHold, WillTell, Accounts!RequestsReachSomeone
  <2>8. Accounts!ApproversAreInCharge
    <3>1. accountFlight[f1].pc = "answer" => accountFlight[f1].user = e1
      BY <1>3, <2>1, AccountKinds DEF Handlers
    <3>2. QED
      BY <1>3, <2>1, <3>1
      DEF ToldInCharge, Telling, Accounts!ApproversAreInCharge, Accounts!InScope, Accounts!HasAccess,
          Accounts!Active, Managers
  <2>9. QED
    BY <2>2, <2>3, <2>5, <2>6, <2>7, <2>8
<1>4. ASSUME part = "organizations"
      PROVE  WholeSetup!TypeOK /\ WholeSetup!OrganizationsAreComplete
  <2>1. NestedIsUnderWay /\ WholeSetup!TypeOK
    BY <1>4 DEF SuiteInv
  <2>2. (\A f \in Flight : setupFlight[f] = WholeSetup!Idle) => \A f \in Flight : setupFlight[f].pc # "nested"
    BY DEF WholeSetup!Idle
  <2>3. (\A f \in Flight : setupFlight[f] = WholeSetup!Idle) =>
          \A o \in WholeSetup!Existing(organizations), row \in SetupParts : HasPart(o, row)
    BY <2>1, <2>2 DEF NestedIsUnderWay
  <2>4. QED
    BY <2>1, <2>3 DEF WholeSetup!OrganizationsAreComplete, HasPart, SetupParts, WholeSetup!DefaultLeave
<1>5. Setup!OrganizationNamesDiffer /\ Setup!EmployeeNumbersDiffer
  BY DEF SuiteInv, SetupInv, Setup!OrganizationNamesDiffer, WholeSetup!OrganizationNamesDiffer,
         Setup!Existing, WholeSetup!Existing, Setup!NoRow, WholeSetup!NoRow, Setup!EmployeeNumbersDiffer,
         WholeSetup!EmployeeNumbersDiffer
<1>6. QED
  BY <1>1, <1>2, <1>3, <1>4, <1>5 DEF SuiteInv, AdministrationHoldsTogether

\* createAdminClient, createPayProfileV2, assignManagerReportsV2, createLeaveRequestV2 and their like:
\* a profile follows on the one before it; a request of an employee that is answered told somebody who
\* can sign in, unless somebody was deactivated meanwhile or there was no administrator; those told
\* may review it where requests are serialized; accounts and organizations are complete, a deactivated
\* account is signed out, and no name or number is taken twice.
THEOREM AdministrationHoldsTogetherHolds ==
  ASSUME CoordinatorSerializes
  PROVE  Suite => []AdministrationHoldsTogether
<1>1. SuiteInit => SuiteInv
  BY SuiteInvInit
<1>2. SuiteInv /\ [SuiteNext]_suiteVars => SuiteInv'
  BY SuiteInvNext
<1>3. SuiteInv => AdministrationHoldsTogether
  BY SuiteHolds
<1>4. QED
  BY <1>1, <1>2, <1>3, PTL DEF Suite

-----------------------------------------------------------------------------
(* What readers of the same rows see: holidays and the shadow.             *)

\* The types of the calendar in the part about it, and at the start in the others.
LEMMA HolidayTypes ==
  ASSUME Holidays!TypeOK, Holidays!Next \/ UNCHANGED holidayVars
  PROVE  Holidays!TypeOK'
<1>1. CASE UNCHANGED holidayVars
  BY <1>1
  DEF holidayVars, Holidays!TypeOK, Holidays!MalaysiaHoliday, Holidays!Holiday, Holidays!Invocations,
      Holidays!Idle
<1>2. CASE Holidays!Next
  <2>1. UNCHANGED <<cron, stops, notifications>>
    BY <1>2
    DEF Holidays!Next, Holidays!Import, Holidays!SetActive, Holidays!CreateHoliday, Holidays!Deploy,
        Holidays!NextDay
  <2>2. day' \in 0..2
    BY <1>2 DEF Holidays!TypeOK, Holidays!Next, Holidays!Import, Holidays!SetActive, Holidays!CreateHoliday,
                Holidays!Deploy, Holidays!NextDay
  <2>3. malaysia' \subseteq Holidays!MalaysiaHoliday
    BY <1>2 DEF Holidays!TypeOK, Holidays!Next, Holidays!Import, Holidays!SetActive, Holidays!CreateHoliday,
                Holidays!Deploy, Holidays!NextDay, Holidays!allMalaysiaHolidays
  <2>4. organization' \subseteq Holidays!Holiday /\ active' \subseteq {u1}
    BY <1>2 DEF Holidays!TypeOK, Holidays!Next, Holidays!Import, Holidays!SetActive, Holidays!CreateHoliday,
                Holidays!Deploy, Holidays!NextDay
  <2>5. library' \in {[s \in {s1, s2} |-> {d1}], [s \in {s1, s2} |-> IF s = s1 THEN {} ELSE {d1}]}
    BY <1>2 DEF Holidays!TypeOK, Holidays!Next, Holidays!Import, Holidays!SetActive, Holidays!CreateHoliday,
                Holidays!Deploy, Holidays!NextDay
  <2>6. QED
    BY <2>1, <2>2, <2>3, <2>4, <2>5
    DEF Holidays!TypeOK, Holidays!MalaysiaHoliday, Holidays!Holiday, Holidays!Invocations, Holidays!Idle
<1>3. QED
  BY <1>1, <1>2

\* An override is among the entries that decide.
LEMMA OverridesDecide == Holidays!OverrideIsFinal
BY DEF Holidays!OverrideIsFinal, Holidays!isPublicHolidayForState, Holidays!organizationMatches

\* Nothing is deleted, so that only a new override makes a holiday a working day.
LEMMA ImportsAdd ==
  ASSUME Holidays!Next \/ UNCHANGED holidayVars
  PROVE  Holidays!ImportOnlyAdds
<1>1. malaysia \subseteq malaysia' /\ organization \subseteq organization'
  BY DEF holidayVars, Holidays!Next, Holidays!Import, Holidays!SetActive, Holidays!CreateHoliday,
         Holidays!Deploy, Holidays!NextDay
<1>2. ASSUME NEW date, NEW state, Holidays!isPublicHolidayForState(date, state),
             ~\E h \in organization' \ organization :
                h.date = date /\ h.stateCode \in {any, state} /\ h.isWorkingDayOverride
      PROVE  Holidays!isPublicHolidayForState(date, state)'
  BY <1>1, <1>2 DEF Holidays!isPublicHolidayForState, Holidays!organizationMatches
<1>3. QED
  BY <1>2 DEF Holidays!ImportOnlyAdds

-----------------------------------------------------------------------------
(* The comparison of what Prisma reads with what the SQL reads.            *)

\* What a comparison holds during which nobody has written.
Unwritten(s) ==
  /\ s.pc \in {"compare", "first", "second"} => s.expected = Shadow!Expected(s.query)
  /\ s.pc = "second" => s.query.area # "employee_list" /\ s.actual = Shadow!UserStatement(s.query.user)
  /\ s.pc = "result" => s.actual = s.expected

\* The records that a comparison is, step by step.
Shape(s) ==
  \/ s = Shadow!Idle
  \/ \E q \in Shadow!Query, w \in BOOLEAN : s = [pc |-> "read", query |-> q, written |-> w]
  \/ \E pc, q, w, x :
       /\ pc \in {"compare", "first"} /\ q \in Shadow!Query /\ w \in BOOLEAN
       /\ s = [pc |-> pc, query |-> q, expected |-> x, written |-> w]
  \/ \E pc, q, w, x, y :
       /\ pc \in {"second", "result"} /\ q \in Shadow!Query /\ w \in BOOLEAN
       /\ s = [pc |-> pc, query |-> q, expected |-> x, actual |-> y, written |-> w]

ShadowInv ==
  /\ Shadow!TypeOK
  /\ DOMAIN comparing = {f1}
  /\ comparing = [f \in {f1} |-> comparing[f]]
  /\ Shape(comparing[f1])
  /\ comparing[f1].pc # "idle" /\ ~comparing[f1].written => Unwritten(comparing[f1])

\* Both statements of the SQL find what Prisma found, when nobody has written in between.
LEMMA StatementsAgree ==
  ASSUME NEW q \in Shadow!Query
  PROVE  /\ q.area = "employee_list" => Shadow!EmployeeStatement(q) = Shadow!Expected(q)
         /\ q.area = "auth_identity" =>
              [isActive |-> Shadow!UserStatement(q.user).isActive,
               employee |-> Shadow!UserStatement(q.user).employee,
               memberships |-> Shadow!MembershipStatement(q)] = Shadow!Expected(q)
         /\ q.area = "admin_scope" =>
              [membership |-> IF Shadow!MembershipStatement(q) = {} THEN Shadow!NoRow
                              ELSE CHOOSE m \in Shadow!MembershipStatement(q) : TRUE] = Shadow!Expected(q)
<1>1. q.area = "employee_list" => Shadow!EmployeeStatement(q) = Shadow!Expected(q)
  BY DEF Shadow!EmployeeStatement, Shadow!Expected, Shadow!InScope, Shadow!ActiveMember, Shadow!employeeView
<1>2. ASSUME q.area = "auth_identity"
      PROVE  [isActive |-> Shadow!UserStatement(q.user).isActive,
              employee |-> Shadow!UserStatement(q.user).employee,
              memberships |-> Shadow!MembershipStatement(q)] = Shadow!Expected(q)
  <2> DEFINE m == rowsRead[q.user].membership
  <2>1. Shadow!MembershipStatement(q) = {x \in {m} \ {Shadow!NoRow} : x.isActive}
    BY <1>2 DEF Shadow!MembershipStatement
  <2>2. Shadow!MembershipStatement(q) = IF m # Shadow!NoRow /\ m.isActive THEN {m} ELSE {}
    <3> HIDE DEF m
    <3>1. QED
      BY <2>1
  <2>3. Shadow!Expected(q) = Shadow!AuthIdentity(q.user)
    BY <1>2 DEF Shadow!Expected
  <2>4. QED
    BY <2>2, <2>3 DEF Shadow!AuthIdentity, Shadow!ActiveMember, Shadow!UserStatement
<1>3. ASSUME q.area = "admin_scope"
      PROVE  [membership |-> IF Shadow!MembershipStatement(q) = {} THEN Shadow!NoRow
                             ELSE CHOOSE m \in Shadow!MembershipStatement(q) : TRUE] = Shadow!Expected(q)
  <2> DEFINE m == rowsRead[q.user].membership
             found == Shadow!MembershipStatement(q)
  <2>1. found = {m} \ {Shadow!NoRow}
    BY <1>3 DEF Shadow!MembershipStatement
  <2>2. Shadow!Expected(q) = [membership |-> m]
    BY <1>3 DEF Shadow!Expected, Shadow!AdminScope
  <2>3. (IF found = {} THEN Shadow!NoRow ELSE CHOOSE x \in found : TRUE) = m
    <3> HIDE DEF m, found
    <3>1. CASE m = Shadow!NoRow
      BY <2>1, <3>1
    <3>2. CASE m # Shadow!NoRow
      BY <2>1, <3>2
    <3>3. QED
      BY <3>1, <3>2
  <2>4. QED
    BY <2>2, <2>3
<1>4. QED
  BY <1>1, <1>2, <1>3

\* What an area is.
LEMMA Areas ==
  ASSUME NEW q \in Shadow!Query
  PROVE  q.area \in {"auth_identity", "admin_scope", "employee_list"}
BY DEF Shadow!Query

\* A comparison keeps its types and goes on with what it has read.
LEMMA ShadowSteps ==
  ASSUME ShadowInv, NEW step, comparing' = [comparing EXCEPT ![f1] = step],
         UNCHANGED <<rowsRead, writes>>, Shape(step),
         stats' \in [comparisons : Nat, matches : Nat, mismatches : Nat, errors : Nat],
         config' = config, step.pc # "idle" /\ ~step.written => Unwritten(step)
  PROVE  ShadowInv'
<1>1. comparing'[f1] = step /\ DOMAIN comparing' = {f1} /\ comparing' = [f \in {f1} |-> comparing'[f]]
  BY DEF ShadowInv
<1>2. Shape(step)' /\ (step.pc # "idle" /\ ~step.written => Unwritten(step)')
  BY DEF Shape, Unwritten, Shadow!Idle, Shadow!Query, Shadow!Expected, Shadow!AuthIdentity,
         Shadow!AdminScope, Shadow!InScope, Shadow!employeeView, Shadow!ActiveMember,
         Shadow!UserStatement, Shadow!NoRow
<1>3. /\ step.pc \in {"idle", "read", "compare", "first", "second", "result"}
      /\ step.pc # "idle" => step.query \in Shadow!Query /\ step.written \in BOOLEAN
  BY DEF Shape, Shadow!Idle
<1>4. Shadow!TypeOK'
  BY <1>1, <1>3
  DEF ShadowInv, Shadow!TypeOK, Shadow!User, Shadow!UserRow, Shadow!Membership, Shadow!NoRow, Shadow!Query
<1>5. QED
  BY <1>1, <1>2, <1>4 DEF ShadowInv, Shape, Unwritten

\* A request arrives, and Prisma reads.
LEMMA ShadowReads ==
  ASSUME ShadowInv,
         \/ \E e \in {[binding |-> binding, mode |-> "compare"], [binding |-> binding, mode |-> "off"],
                      [binding |-> nobinding, mode |-> "compare"]}, q \in Shadow!Query : Shadow!Arrive(f1, e, q)
         \/ Shadow!Read(f1)
  PROVE  ShadowInv'
<1>1. Shadow!TypeOK
  BY DEF ShadowInv
<1>2. ASSUME NEW e \in {[binding |-> binding, mode |-> "compare"], [binding |-> binding, mode |-> "off"],
                        [binding |-> nobinding, mode |-> "compare"]},
             NEW q \in Shadow!Query, Shadow!Arrive(f1, e, q)
      PROVE  ShadowInv'
  <2> DEFINE step == [pc |-> "read", query |-> q, written |-> FALSE]
  <2>1. /\ comparing' = [comparing EXCEPT ![f1] = step]
        /\ UNCHANGED <<rowsRead, writes>>
        /\ Shadow!configureD1Shadow(e)
    BY <1>2 DEF Shadow!Arrive, Shadow!Continue
  <2>2. /\ stats' \in [comparisons : Nat, matches : Nat, mismatches : Nat, errors : Nat]
        /\ config' = [binding |-> e.binding, mode |-> IF e.binding = nobinding THEN "off" ELSE e.mode]
    BY <1>1, <2>1 DEF Shadow!configureD1Shadow, Shadow!TypeOK, Shadow!NoStats
  <2>3. config' \in [binding : {nobinding} \cup {x.binding : x \in
                       {[binding |-> binding, mode |-> "compare"], [binding |-> binding, mode |-> "off"],
                        [binding |-> nobinding, mode |-> "compare"]}}, mode : {"off", "compare"}]
        /\ (config'.binding = nobinding => config'.mode = "off")
    <3>1. e.binding \in {binding, nobinding} /\ e.mode \in {"off", "compare"}
      BY <1>2
    <3>2. e.binding \in {x.binding : x \in
                       {[binding |-> binding, mode |-> "compare"], [binding |-> binding, mode |-> "off"],
                        [binding |-> nobinding, mode |-> "compare"]}}
      BY <1>2
    <3>3. QED
      BY <2>2, <3>1, <3>2
  <2>4. step.pc = "read" /\ step.query = q /\ step.written = FALSE
    OBVIOUS
  <2>5. Shape(step)
    BY DEF Shape
  <2>6. Unwritten(step)
    BY DEF Unwritten
  <2> HIDE DEF step
  <2>7. comparing'[f1] = step /\ DOMAIN comparing' = {f1} /\ comparing' = [f \in {f1} |-> comparing'[f]]
    BY <2>1 DEF ShadowInv
  <2>8. Shadow!TypeOK'
    BY <1>1, <2>1, <2>2, <2>3, <2>4, <2>7
    DEF Shadow!TypeOK, Shadow!User, Shadow!UserRow, Shadow!Membership, Shadow!NoRow, Shadow!Query
  <2>9. Shape(step)' /\ Unwritten(step)'
    BY <2>4, <2>5 DEF Shape, Unwritten, Shadow!Idle, Shadow!Query
  <2>10. QED
    BY <2>7, <2>8, <2>9 DEF ShadowInv, Shape, Unwritten
<1>3. ASSUME Shadow!Read(f1)
      PROVE  ShadowInv'
  <2>1. PICK q \in Shadow!Query : q = comparing[f1].query
    BY <1>1, <1>3 DEF Shadow!Read, Shadow!TypeOK
  <2>2. PICK x : x = Shadow!Expected(q)
    OBVIOUS
  <2> DEFINE step == [pc |-> "compare", query |-> q, expected |-> x, written |-> FALSE]
  <2>3. /\ comparing' = [comparing EXCEPT ![f1] = step]
        /\ UNCHANGED <<rowsRead, writes, config, stats>>
    BY <1>3, <2>1, <2>2 DEF Shadow!Read, Shadow!Continue
  <2>4. Shape(step)
    BY DEF Shape
  <2>5. Unwritten(step)
    BY <2>2 DEF Unwritten
  <2> HIDE DEF step
  <2>6. stats' \in [comparisons : Nat, matches : Nat, mismatches : Nat, errors : Nat]
    BY <1>1, <2>3 DEF Shadow!TypeOK
  <2>7. QED
    BY <2>3, <2>4, <2>5, <2>6, ShadowSteps
<1>4. QED
  BY <1>2, <1>3

\* The record of a comparison, from its stage.
LEMMA Stages ==
  ASSUME NEW s, Shape(s)
  PROVE  /\ s.pc \in {"compare", "first"} =>
              \E q, w, x :
                /\ q \in Shadow!Query /\ w \in BOOLEAN
                /\ s = [pc |-> s.pc, query |-> q, expected |-> x, written |-> w]
         /\ s.pc \in {"second", "result"} =>
              \E q, w, x, y :
                /\ q \in Shadow!Query /\ w \in BOOLEAN
                /\ s = [pc |-> s.pc, query |-> q, expected |-> x, actual |-> y, written |-> w]
<1>1. CASE s = Shadow!Idle
  <2>1. s.pc = "idle"
    BY <1>1 DEF Shadow!Idle
  <2>2. QED
    BY <2>1
<1>2. CASE \E q \in Shadow!Query, w \in BOOLEAN : s = [pc |-> "read", query |-> q, written |-> w]
  <2>1. s.pc = "read"
    BY <1>2
  <2>2. QED
    BY <2>1
<1>3. ASSUME NEW pc \in {"compare", "first"}, NEW q \in Shadow!Query, NEW w \in BOOLEAN, NEW x,
             s = [pc |-> pc, query |-> q, expected |-> x, written |-> w]
      PROVE  /\ s.pc \notin {"second", "result"}
             /\ \E q_1, w_1, x_1 :
                  /\ q_1 \in Shadow!Query /\ w_1 \in BOOLEAN
                  /\ s = [pc |-> s.pc, query |-> q_1, expected |-> x_1, written |-> w_1]
  <2>1. s.pc = pc
    BY <1>3
  <2>2. s = [pc |-> s.pc, query |-> q, expected |-> x, written |-> w]
    BY <1>3, <2>1
  <2>3. QED
    BY <2>1, <2>2
<1>4. ASSUME NEW pc \in {"second", "result"}, NEW q \in Shadow!Query, NEW w \in BOOLEAN, NEW x, NEW y,
             s = [pc |-> pc, query |-> q, expected |-> x, actual |-> y, written |-> w]
      PROVE  /\ s.pc \notin {"compare", "first"}
             /\ \E q_1, w_1, x_1, y_1 :
                  /\ q_1 \in Shadow!Query /\ w_1 \in BOOLEAN
                  /\ s = [pc |-> s.pc, query |-> q_1, expected |-> x_1, actual |-> y_1, written |-> w_1]
  <2>1. s.pc = pc
    BY <1>4
  <2>2. s = [pc |-> s.pc, query |-> q, expected |-> x, actual |-> y, written |-> w]
    BY <1>4, <2>1
  <2>3. QED
    BY <2>1, <2>2
<1>5. QED
  BY <1>1, <1>2, <1>3, <1>4 DEF Shape

\* The comparison itself, statement by statement.
LEMMA ShadowCompares ==
  ASSUME ShadowInv,
         \/ Shadow!Compare(f1) \/ Shadow!FirstStatement(f1) \/ Shadow!SecondStatement(f1)
         \/ Shadow!Result(f1) \/ Shadow!Fail(f1)
  PROVE  ShadowInv'
<1> DEFINE s == comparing[f1]
<1>1. /\ stats \in [comparisons : Nat, matches : Nat, mismatches : Nat, errors : Nat]
      /\ Shape(s)
      /\ s.pc # "idle" /\ ~s.written => Unwritten(s)
  BY DEF ShadowInv, Shadow!TypeOK
<1>2. /\ [stats EXCEPT !.comparisons = @ + 1] \in [comparisons : Nat, matches : Nat, mismatches : Nat, errors : Nat]
      /\ [stats EXCEPT !.matches = @ + 1] \in [comparisons : Nat, matches : Nat, mismatches : Nat, errors : Nat]
      /\ [stats EXCEPT !.mismatches = @ + 1] \in [comparisons : Nat, matches : Nat, mismatches : Nat, errors : Nat]
      /\ [stats EXCEPT !.errors = @ + 1] \in [comparisons : Nat, matches : Nat, mismatches : Nat, errors : Nat]
  BY <1>1
<1>3. UNCHANGED <<rowsRead, writes, config>>
  BY DEF Shadow!Compare, Shadow!FirstStatement, Shadow!SecondStatement, Shadow!Result, Shadow!Fail
<1>4. ASSUME comparing' = [comparing EXCEPT ![f1] = Shadow!Idle],
             stats' \in [comparisons : Nat, matches : Nat, mismatches : Nat, errors : Nat]
      PROVE  ShadowInv'
  <2>1. Shadow!Idle.pc = "idle" /\ Shape(Shadow!Idle)
    BY DEF Shadow!Idle, Shape
  <2>2. QED
    BY <1>3, <1>4, <2>1, ShadowSteps
<1>5. ASSUME Shadow!Result(f1) \/ Shadow!Fail(f1)
      PROVE  ShadowInv'
  BY <1>2, <1>4, <1>5 DEF Shadow!Result, Shadow!Fail, Shadow!Continue
<1>6. ASSUME Shadow!Compare(f1)
      PROVE  ShadowInv'
  <2>1. s.pc = "compare"
    BY <1>6 DEF Shadow!Compare
  <2>2. PICK q, w, x :
          /\ q \in Shadow!Query /\ w \in BOOLEAN
          /\ s = [pc |-> "compare", query |-> q, expected |-> x, written |-> w]
    <3> HIDE DEF s
    <3>1. PICK q, w, x :
            /\ q \in Shadow!Query /\ w \in BOOLEAN
            /\ s = [pc |-> s.pc, query |-> q, expected |-> x, written |-> w]
      BY <1>1, <2>1, Stages
    <3>2. s = [pc |-> "compare", query |-> q, expected |-> x, written |-> w]
      BY <2>1, <3>1
    <3>3. QED
      BY <3>1, <3>2
  <2> DEFINE step == [pc |-> "first", query |-> q, expected |-> x, written |-> w]
  <2>3. [s EXCEPT !.pc = "first"] = step
    BY <2>2
  <2>4. \/ comparing' = [comparing EXCEPT ![f1] = Shadow!Idle] /\ stats' = stats
        \/ comparing' = [comparing EXCEPT ![f1] = step] /\ stats' = [stats EXCEPT !.comparisons = @ + 1]
    BY <1>6, <2>3 DEF Shadow!Compare, Shadow!Continue
  <2>5. Shape(step)
    BY <2>2 DEF Shape
  <2>6. ~step.written => Unwritten(step)
    BY <1>1, <2>1, <2>2 DEF Unwritten
  <2> HIDE DEF step
  <2>7. CASE comparing' = [comparing EXCEPT ![f1] = Shadow!Idle] /\ stats' = stats
    BY <1>1, <1>4, <2>7
  <2>8. CASE comparing' = [comparing EXCEPT ![f1] = step] /\ stats' = [stats EXCEPT !.comparisons = @ + 1]
    BY <1>2, <1>3, <2>5, <2>6, <2>8, ShadowSteps
  <2>9. QED
    BY <2>4, <2>7, <2>8
<1>7. ASSUME Shadow!FirstStatement(f1)
      PROVE  ShadowInv'
  <2>1. s.pc = "first" /\ stats' = stats
    BY <1>7 DEF Shadow!FirstStatement
  <2>2. PICK q, w, x :
          /\ q \in Shadow!Query /\ w \in BOOLEAN
          /\ s = [pc |-> "first", query |-> q, expected |-> x, written |-> w]
    <3> HIDE DEF s
    <3>1. PICK q, w, x :
            /\ q \in Shadow!Query /\ w \in BOOLEAN
            /\ s = [pc |-> s.pc, query |-> q, expected |-> x, written |-> w]
      BY <1>1, <2>1, Stages
    <3>2. s = [pc |-> "first", query |-> q, expected |-> x, written |-> w]
      BY <2>1, <3>1
    <3>3. QED
      BY <3>1, <3>2
  <2>3. ~w => x = Shadow!Expected(q)
    BY <1>1, <2>1, <2>2 DEF Unwritten
  <2>4. PICK pc, y : IF q.area = "employee_list"
                     THEN pc = "result" /\ y = Shadow!EmployeeStatement(q)
                     ELSE pc = "second" /\ y = Shadow!UserStatement(q.user)
    <3>1. CASE q.area = "employee_list"
      BY <3>1
    <3>2. CASE q.area # "employee_list"
      BY <3>2
    <3>3. QED
      BY <3>1, <3>2
  <2> DEFINE step == [pc |-> pc, query |-> q, expected |-> x, actual |-> y, written |-> w]
  <2>5. Shape(step)
    BY <2>2, <2>4 DEF Shape
  <2>6. /\ step.pc = pc /\ step.query = q /\ step.expected = x /\ step.actual = y /\ step.written = w
    OBVIOUS
  <2>7. comparing' = [comparing EXCEPT ![f1] = step]
    <3>1. s.query = q /\ s.expected = x /\ s.written = w
      BY <2>2
    <3>2. CASE q.area = "employee_list"
      BY <1>7, <2>4, <3>1, <3>2 DEF Shadow!FirstStatement, Shadow!Continue
    <3>3. CASE q.area # "employee_list"
      BY <1>7, <2>4, <3>1, <3>3 DEF Shadow!FirstStatement, Shadow!Continue
    <3>4. QED
      BY <3>2, <3>3
  <2> HIDE DEF step
  <2>8. ~step.written => Unwritten(step)
    BY <2>2, <2>3, <2>4, <2>6, StatementsAgree DEF Unwritten
  <2>9. QED
    BY <1>1, <1>3, <2>1, <2>5, <2>7, <2>8, ShadowSteps
<1>8. ASSUME Shadow!SecondStatement(f1)
      PROVE  ShadowInv'
  <2>1. s.pc = "second" /\ stats' = stats
    BY <1>8 DEF Shadow!SecondStatement
  <2>2. PICK q, w, x, y :
          /\ q \in Shadow!Query /\ w \in BOOLEAN
          /\ s = [pc |-> "second", query |-> q, expected |-> x, actual |-> y, written |-> w]
    <3> HIDE DEF s
    <3>1. PICK q, w, x, y :
            /\ q \in Shadow!Query /\ w \in BOOLEAN
            /\ s = [pc |-> s.pc, query |-> q, expected |-> x, actual |-> y, written |-> w]
      BY <1>1, <2>1, Stages
    <3>2. s = [pc |-> "second", query |-> q, expected |-> x, actual |-> y, written |-> w]
      BY <2>1, <3>1
    <3>3. QED
      BY <3>1, <3>2
  <2>3. ~w => x = Shadow!Expected(q) /\ q.area # "employee_list" /\ y = Shadow!UserStatement(q.user)
    BY <1>1, <2>1, <2>2 DEF Unwritten
  <2> DEFINE found == Shadow!MembershipStatement(q)
  <2>4. PICK z : z = IF q.area = "auth_identity"
                     THEN [isActive |-> y.isActive, employee |-> y.employee, memberships |-> found]
                     ELSE [membership |-> IF found = {} THEN Shadow!NoRow ELSE CHOOSE m \in found : TRUE]
    OBVIOUS
  <2> DEFINE step == [pc |-> "result", query |-> q, expected |-> x, actual |-> z, written |-> w]
  <2>5. comparing' = [comparing EXCEPT ![f1] = step]
    <3>1. /\ s.query = q /\ s.actual = y
          /\ [s EXCEPT !.pc = "result", !.actual = z] = step
      <4> HIDE DEF s
      <4>1. s.query = q /\ s.actual = y
        BY <2>2
      <4>2. /\ [s EXCEPT !.pc = "result", !.actual = z] =
                 [[pc |-> "second", query |-> q, expected |-> x, actual |-> y, written |-> w]
                    EXCEPT !.pc = "result", !.actual = z]
        BY <2>2
      <4>3. [[pc |-> "second", query |-> q, expected |-> x, actual |-> y, written |-> w]
                    EXCEPT !.pc = "result", !.actual = z] = step
        <5> DEFINE r == [pc |-> "second", query |-> q, expected |-> x, actual |-> y, written |-> w]
                   t == [pc |-> "result", query |-> q, expected |-> x, actual |-> y, written |-> w]
        <5>1. [r EXCEPT !.pc = "result"] = t
          OBVIOUS
        <5>2. [t EXCEPT !.actual = z] = step
          OBVIOUS
        <5>3. [r EXCEPT !.pc = "result", !.actual = z] = [[r EXCEPT !.pc = "result"] EXCEPT !.actual = z]
          <6> HIDE DEF r
          <6>1. QED
            OBVIOUS
        <5>4. QED
          BY <5>1, <5>2, <5>3
      <4>4. QED
        BY <4>1, <4>2, <4>3
    <3>2. CASE q.area = "auth_identity"
      <4>1. comparing' = [comparing EXCEPT ![f1] =
              [s EXCEPT !.pc = "result",
                        !.actual = [isActive |-> @.isActive, employee |-> @.employee, memberships |-> found]]]
        BY <1>8, <3>1, <3>2 DEF Shadow!SecondStatement, Shadow!Continue
      <4>2. z = [isActive |-> s.actual.isActive, employee |-> s.actual.employee, memberships |-> found]
        BY <2>4, <3>1, <3>2
      <4>3. QED
        BY <3>1, <4>1, <4>2
    <3>3. CASE q.area # "auth_identity"
      BY <1>8, <2>4, <3>1, <3>3 DEF Shadow!SecondStatement, Shadow!Continue
    <3>4. QED
      BY <3>2, <3>3
  <2>6. Shape(step)
    BY <2>2 DEF Shape
  <2>7. step.pc = "result" /\ step.actual = z /\ step.expected = x /\ step.written = w
    OBVIOUS
  <2>8. ~w => z = x
    BY <2>2, <2>3, <2>4, StatementsAgree, Areas
  <2> HIDE DEF step
  <2>9. ~step.written => Unwritten(step)
    BY <2>7, <2>8 DEF Unwritten
  <2>10. QED
    BY <1>1, <1>3, <2>1, <2>5, <2>6, <2>9, ShadowSteps
<1>9. QED
  BY <1>5, <1>6, <1>7, <1>8

\* Another request writes: every comparison under way is marked, and keeps its shape.
LEMMA ShadowWrites ==
  ASSUME ShadowInv, NEW u \in Shadow!User, NEW row \in Shadow!UserRow, Shadow!Write(u, row)
  PROVE  ShadowInv'
<1>1. Shadow!TypeOK /\ Shape(comparing[f1]) /\ DOMAIN comparing = {f1}
  BY DEF ShadowInv
<1>2. PICK s : s = comparing[f1]
  OBVIOUS
<1>3. PICK t : t = IF s = Shadow!Idle THEN Shadow!Idle ELSE [s EXCEPT !.written = TRUE]
  OBVIOUS
<1>4. comparing' = [f \in {f1} |-> t]
  BY <1>2, <1>3 DEF Shadow!Write
<1>5. Shadow!Idle.pc = "idle"
  BY DEF Shadow!Idle
<1>6. Shape(t) /\ (t.pc # "idle" => t.written /\ t.query \in Shadow!Query /\ t.written \in BOOLEAN)
      /\ t.pc \in {"idle", "read", "compare", "first", "second", "result"}
  <2>1. CASE s = Shadow!Idle
    BY <1>3, <1>5, <2>1 DEF Shape
  <2>2. ASSUME NEW q \in Shadow!Query, NEW w \in BOOLEAN, s = [pc |-> "read", query |-> q, written |-> w]
        PROVE  t = [pc |-> "read", query |-> q, written |-> TRUE]
    <3>1. s # Shadow!Idle
      <4>1. s.pc # "idle"
        BY <2>2
      <4>2. QED
        BY <1>5, <4>1
    <3>2. t = [s EXCEPT !.written = TRUE]
      BY <1>3, <3>1
    <3>3. QED
      BY <2>2, <3>2
  <2>3. ASSUME NEW pc \in {"compare", "first"}, NEW q \in Shadow!Query, NEW w \in BOOLEAN, NEW x,
               s = [pc |-> pc, query |-> q, expected |-> x, written |-> w]
        PROVE  t = [pc |-> pc, query |-> q, expected |-> x, written |-> TRUE]
    <3>1. s # Shadow!Idle
      <4>1. s.pc # "idle"
        BY <2>3
      <4>2. QED
        BY <1>5, <4>1
    <3>2. t = [s EXCEPT !.written = TRUE]
      BY <1>3, <3>1
    <3>3. QED
      BY <2>3, <3>2
  <2>4. ASSUME NEW pc \in {"second", "result"}, NEW q \in Shadow!Query, NEW w \in BOOLEAN, NEW x, NEW y,
               s = [pc |-> pc, query |-> q, expected |-> x, actual |-> y, written |-> w]
        PROVE  t = [pc |-> pc, query |-> q, expected |-> x, actual |-> y, written |-> TRUE]
    <3>1. s # Shadow!Idle
      <4>1. s.pc # "idle"
        BY <2>4
      <4>2. QED
        BY <1>5, <4>1
    <3>2. t = [s EXCEPT !.written = TRUE]
      BY <1>3, <3>1
    <3>3. QED
      BY <2>4, <3>2
  <2>5. Shape(s)
    BY <1>1, <1>2
  <2>6. CASE \E q \in Shadow!Query, w \in BOOLEAN : s = [pc |-> "read", query |-> q, written |-> w]
    <3>1. PICK q \in Shadow!Query : t = [pc |-> "read", query |-> q, written |-> TRUE]
      BY <2>2, <2>6
    <3>2. QED
      BY <3>1 DEF Shape
  <2>7. CASE \E pc, q, w, x :
               /\ pc \in {"compare", "first"} /\ q \in Shadow!Query /\ w \in BOOLEAN
               /\ s = [pc |-> pc, query |-> q, expected |-> x, written |-> w]
    <3>1. PICK pc, q, x :
            /\ pc \in {"compare", "first"} /\ q \in Shadow!Query
            /\ t = [pc |-> pc, query |-> q, expected |-> x, written |-> TRUE]
      BY <2>3, <2>7
    <3>2. QED
      BY <3>1 DEF Shape
  <2>8. CASE \E pc, q, w, x, y :
               /\ pc \in {"second", "result"} /\ q \in Shadow!Query /\ w \in BOOLEAN
               /\ s = [pc |-> pc, query |-> q, expected |-> x, actual |-> y, written |-> w]
    <3>1. PICK pc, q, x, y :
            /\ pc \in {"second", "result"} /\ q \in Shadow!Query
            /\ t = [pc |-> pc, query |-> q, expected |-> x, actual |-> y, written |-> TRUE]
      BY <2>4, <2>8
    <3>2. QED
      BY <3>1 DEF Shape
  <2>9. QED
    BY <2>1, <2>5, <2>6, <2>7, <2>8 DEF Shape
<1>7. /\ rowsRead' \in [Shadow!User -> Shadow!UserRow]
      /\ writes' \in 0..1 /\ UNCHANGED <<config, stats>>
  BY <1>1 DEF Shadow!TypeOK, Shadow!Write
<1>8. comparing'[f1] = t /\ DOMAIN comparing' = {f1} /\ comparing' = [f \in {f1} |-> comparing'[f]]
  BY <1>4
<1>9. Shadow!TypeOK'
  BY <1>1, <1>6, <1>7, <1>8
  DEF Shadow!TypeOK, Shadow!User, Shadow!UserRow, Shadow!Membership, Shadow!NoRow, Shadow!Query
<1>10. Shape(t)'
  BY <1>6 DEF Shape, Shadow!Idle, Shadow!Query
<1>11. QED
  BY <1>6, <1>8, <1>9, <1>10 DEF ShadowInv, Shape, Unwritten

\* The accounts that the shadow starts from, before anything is compared.
LEMMA ShadowInit == Shadow!Init => ShadowInv
<1> SUFFICES ASSUME Shadow!Init PROVE ShadowInv
  OBVIOUS
<1>1. comparing = [f \in {f1} |-> Shadow!Idle] /\ comparing[f1] = Shadow!Idle
  BY DEF Shadow!Init
<1>2. Shadow!Idle.pc = "idle"
  BY DEF Shadow!Idle
<1>3. /\ rowsRead \in [Shadow!User -> Shadow!UserRow]
      /\ config = [binding |-> nobinding, mode |-> "off"]
      /\ stats = Shadow!NoStats /\ writes = 0
  BY DEF Shadow!Init
<1>4. Shadow!TypeOK
  BY <1>1, <1>2, <1>3 DEF Shadow!TypeOK, Shadow!NoStats
<1>5. QED
  BY <1>1, <1>2, <1>4 DEF ShadowInv, Shape

\* Every step of the shadow keeps the invariant.
LEMMA ShadowNext ==
  ASSUME ShadowInv, Shadow!Next \/ UNCHANGED shadowVars
  PROVE  ShadowInv'
<1>1. CASE UNCHANGED shadowVars
  BY <1>1
  DEF shadowVars, ShadowInv, Shape, Unwritten, Shadow!TypeOK, Shadow!Idle, Shadow!Query, Shadow!User,
      Shadow!UserRow, Shadow!Membership, Shadow!NoRow, Shadow!Expected, Shadow!AuthIdentity,
      Shadow!AdminScope, Shadow!InScope, Shadow!employeeView, Shadow!ActiveMember, Shadow!UserStatement
<1>2. CASE \E e \in {[binding |-> binding, mode |-> "compare"], [binding |-> binding, mode |-> "off"],
                     [binding |-> nobinding, mode |-> "compare"]}, q \in Shadow!Query : Shadow!Arrive(f1, e, q)
  BY <1>2, ShadowReads
<1>3. CASE Shadow!Read(f1)
  BY <1>3, ShadowReads
<1>4. CASE \/ Shadow!Compare(f1) \/ Shadow!FirstStatement(f1) \/ Shadow!SecondStatement(f1)
           \/ Shadow!Result(f1) \/ Shadow!Fail(f1)
  BY <1>4, ShadowCompares
<1>5. CASE \E u \in Shadow!User, row \in Shadow!UserRow : Shadow!Write(u, row)
  BY <1>5, ShadowWrites
<1>6. QED
  BY <1>1, <1>2, <1>3, <1>4, <1>5 DEF Shadow!Next

\* A comparison during which nobody writes is no mismatch.
LEMMA QuietMatches ==
  ASSUME ShadowInv, Shadow!Next \/ UNCHANGED shadowVars
  PROVE  Shadow!QuietComparisonMatches
<1> SUFFICES ASSUME comparing[f1].pc = "result", ~comparing[f1].written, comparing'[f1] = Shadow!Idle
             PROVE  stats'.mismatches = stats.mismatches
  BY DEF Shadow!QuietComparisonMatches
<1>1. /\ comparing[f1].actual = comparing[f1].expected
      /\ stats \in [comparisons : Nat, matches : Nat, mismatches : Nat, errors : Nat]
  BY DEF ShadowInv, Unwritten, Shadow!TypeOK
<1>2. Shadow!Idle.pc = "idle"
  BY DEF Shadow!Idle
<1>3. \A e, q : ~Shadow!Arrive(f1, e, q)
  BY <1>2 DEF Shadow!Arrive
<1>4. CASE Shadow!Result(f1)
  BY <1>1, <1>4 DEF Shadow!Result
<1>5. ~(\/ Shadow!Read(f1) \/ Shadow!Compare(f1) \/ Shadow!FirstStatement(f1)
        \/ Shadow!SecondStatement(f1) \/ Shadow!Fail(f1))
  BY DEF Shadow!Read, Shadow!Compare, Shadow!FirstStatement, Shadow!SecondStatement, Shadow!Fail
<1>6. CASE \E u \in Shadow!User, row \in Shadow!UserRow : Shadow!Write(u, row)
  BY <1>6 DEF Shadow!Write
<1>7. CASE UNCHANGED shadowVars
  BY <1>7 DEF shadowVars
<1>8. QED
  BY <1>3, <1>4, <1>5, <1>6, <1>7 DEF Shadow!Next

\* What holds of the readers in every state of the suite.
ReadersInv ==
  /\ Holidays!TypeOK
  /\ part = "shadow" => ShadowInv

\* The readers as the suite starts.
LEMMA ReadersInit == SuiteInit => ReadersInv
<1> SUFFICES ASSUME SuiteInit PROVE ReadersInv
  OBVIOUS
<1>1. Holidays!Init
  BY DEF SuiteInit
<1>2. Holidays!TypeOK
  BY <1>1
  DEF Holidays!Init, Holidays!TypeOK, Holidays!MalaysiaHoliday, Holidays!Holiday, Holidays!Invocations,
      Holidays!Idle
<1>3. part = "shadow" => ShadowInv
  BY ShadowInit DEF SuiteInit
<1>4. QED
  BY <1>2, <1>3 DEF ReadersInv

\* What a step of the suite is for the readers.
LEMMA ReaderSteps ==
  ASSUME [SuiteNext]_suiteVars
  PROVE  /\ UNCHANGED part
         /\ Holidays!Next \/ UNCHANGED holidayVars
         /\ part = "shadow" => Shadow!Next \/ UNCHANGED shadowVars
<1>1. CASE SuiteNext
  <2>1. UNCHANGED part
    BY <1>1 DEF SuiteNext
  <2>2. Holidays!Next \/ UNCHANGED holidayVars
    BY <1>1 DEF SuiteNext
  <2>3. part = "shadow" => Shadow!Next \/ UNCHANGED shadowVars
    BY <1>1 DEF SuiteNext
  <2>4. QED
    BY <2>1, <2>2, <2>3
<1>2. CASE UNCHANGED suiteVars
  BY <1>2 DEF suiteVars, holidayVars, shadowVars
<1>3. QED
  BY <1>1, <1>2

\* Every step keeps it.
LEMMA ReadersNext == ReadersInv /\ [SuiteNext]_suiteVars => ReadersInv'
<1> SUFFICES ASSUME ReadersInv, [SuiteNext]_suiteVars PROVE ReadersInv'
  OBVIOUS
<1>1. Holidays!TypeOK'
  BY ReaderSteps, HolidayTypes DEF ReadersInv
<1>2. part = "shadow" => ShadowInv'
  BY ReaderSteps, ShadowNext DEF ReadersInv
<1>3. UNCHANGED part
  BY ReaderSteps
<1>4. QED
  BY <1>1, <1>2, <1>3 DEF ReadersInv

\* isPublicHolidayForState, importHolidays and compare: a working-day override is final, an import
\* makes no holiday a working day, and a comparison during which nobody writes finds that the SQL
\* and Prisma read the same.
THEOREM ReadersAgreeHolds == Suite => ReadersAgree
<1> DEFINE Agree == /\ Holidays!TypeOK /\ Holidays!OverrideIsFinal
                    /\ part = "holidays" => Holidays!ImportOnlyAdds
                    /\ part = "shadow" => Shadow!TypeOK /\ Shadow!QuietComparisonMatches
<1>1. ReadersInv /\ [SuiteNext]_suiteVars => Agree
  <2> SUFFICES ASSUME ReadersInv, [SuiteNext]_suiteVars PROVE Agree
    OBVIOUS
  <2>1. Holidays!TypeOK /\ Holidays!OverrideIsFinal
    BY OverridesDecide DEF ReadersInv
  <2>2. Holidays!ImportOnlyAdds
    BY ReaderSteps, ImportsAdd
  <2>3. part = "shadow" => Shadow!TypeOK /\ Shadow!QuietComparisonMatches
    BY ReaderSteps, QuietMatches DEF ReadersInv, ShadowInv
  <2>4. QED
    BY <2>1, <2>2, <2>3
<1>2. ReadersInv /\ [SuiteNext]_suiteVars => [Agree]_suiteVars
  BY <1>1
<1>3. QED
  BY <1>2, ReadersInit, ReadersNext, PTL DEF Suite, ReadersAgree
=============================================================================
