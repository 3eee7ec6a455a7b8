--------------------------- MODULE RequestsProofs ---------------------------
(***************************************************************************)
(* Proofs about the day that AttendanceRequests writes: the types and the  *)
(* rule that a day fit for payroll carries no exception code, whoever runs *)
(* at the same time; when the coordinator "global" handles one request at  *)
(* a time beside the clock actions, the effects of decisions, the pending  *)
(* requests and the days under a lock; and in the part of MCRequests where *)
(* no requests overlap, that approved times are kept.  Then the page in    *)
(* front of the clock (ClockClient) on a network that loses and repeats,   *)
(* and, by mapping its steps to those, on one that does neither.           *)
(***************************************************************************)
EXTENDS MCRequests, FiniteSetTheorems, TLAPS

-----------------------------------------------------------------------------
(* The columns that calculateTimesheet gives a day.                        *)

\* A finite set's subsets, however they are chosen, have a smallest one.
LEMMA MinimalSubset ==
  ASSUME NEW S, IsFiniteSet(S), NEW T, \A x \in T : x \subseteq S, T # {}
  PROVE  \E x \in T : \A y \in T : y \subseteq x => y = x
<1>1. IsWellFoundedOn(StrictSubsetOrdering(S), SUBSET S)
  BY FS_StrictSubsetOrderingWellFounded, FS_FiniteSubsetsOfFinite
<1>2. T \in SUBSET SUBSET S
  OBVIOUS
<1>3. \E x \in T : \A y \in T : ~(<<y, x>> \in StrictSubsetOrdering(S))
  BY <1>1, <1>2, WFMin
<1>4. QED
  BY <1>2, <1>3 DEF StrictSubsetOrdering

\* Some of the times up to n is the latest one.
LEMMA LatestTime ==
  ASSUME NEW n \in Nat, NEW R \in SUBSET (0..n), R # {}
  PROVE  \E m \in R : \A x \in R : x <= m
<1> DEFINE after == {{x \in R : m <= x} : m \in R}
<1>1. \A s \in after : s \subseteq R
  OBVIOUS
<1>2. after # {}
  OBVIOUS
<1>3. IsFiniteSet(R)
  <2>1. IsFiniteSet(0..n)
    BY FS_Interval
  <2>2. QED
    BY <2>1, FS_Subset
<1>4. PICK s \in after : \A t \in after : t \subseteq s => t = s
  <2> HIDE DEF after
  <2>1. QED
    BY <1>1, <1>2, <1>3, MinimalSubset
<1>5. PICK m \in R : s = {x \in R : m <= x}
  OBVIOUS
<1>6. ASSUME NEW x \in R, ~ (x <= m) PROVE FALSE
  <2>1. {y \in R : x <= y} \in after
    OBVIOUS
  <2>2. {y \in R : x <= y} \subseteq s
    <3> SUFFICES ASSUME NEW y \in R, x <= y PROVE m <= y
      BY <1>5
    <3>1. x \in Int /\ m \in Int /\ y \in Int
      OBVIOUS
    <3>2. QED
      BY <1>6, <3>1
  <2>3. m \notin {y \in R : x <= y} /\ m \in s
    BY <1>5, <1>6
  <2>4. QED
    BY <1>4, <2>1, <2>2, <2>3
<1>7. QED
  BY <1>6

\* And some of them is the earliest one.
LEMMA EarliestTime ==
  ASSUME NEW n \in Nat, NEW R \in SUBSET (0..n), R # {}
  PROVE  \E m \in R : \A x \in R : m <= x
<1> DEFINE M == {n - x : x \in R}
<1>1. M \in SUBSET (0..n)
  OBVIOUS
<1>2. M # {}
  OBVIOUS
<1>3. PICK k \in M : \A y \in M : y <= k
  <2> HIDE DEF M
  <2>1. QED
    BY <1>1, <1>2, LatestTime
<1>4. PICK m \in R : k = n - m
  OBVIOUS
<1>5. ASSUME NEW x \in R PROVE m <= x
  <2>1. n - x <= n - m
    BY <1>3, <1>4
  <2>2. x \in Nat /\ m \in Nat
    OBVIOUS
  <2>3. QED
    BY <2>1, <2>2
<1>6. QED
  BY <1>5

\* A row that payroll will pay has no code.
Clean(row) == row.state \in {"COMPLETE", "APPROVED"} => row.codes = {}

\* What is calculated from events are columns of the table, clean and never LOCKED.
LEMMA CalculatedColumns ==
  ASSUME NEW rows \in SUBSET Event, NEW measured
  PROVE  /\ Calculated(rows, measured) \in Columns
         /\ Clean(Calculated(rows, measured))
         /\ Calculated(rows, measured).state # "LOCKED"
<1> DEFINE types == TypesInOrder(rows)
           state == DayState(types, measured)
           codes == DayCodes(types, measured)
<1>1. state \in {"OPEN", "EXCEPTION", "COMPLETE"} /\ (state = "COMPLETE" => codes = {})
  <2> HIDE DEF types
  <2>1. CASE Scan(types).mode # "off"
    BY <2>1 DEF DayState
  <2>2. CASE Scan(types).mode = "off" /\ codes # {}
    BY <2>2 DEF DayState
  <2>3. CASE Scan(types).mode = "off" /\ codes = {}
    BY <2>3 DEF DayState
  <2>4. QED
    BY <2>1, <2>2, <2>3
<1>2. codes \subseteq Code
  BY DEF DayCodes, Code
<1>3. \A type : TimesOf(rows, type) \in SUBSET (0..MaxTime)
  BY RequestsAssumption DEF TimesOf, Event
<1>4. ASSUME NEW R \in SUBSET (0..MaxTime) PROVE Earliest(R) \in Time /\ Latest(R) \in Time
  <2>1. MaxTime \in Nat
    BY RequestsAssumption
  <2>2. CASE R = {}
    BY <2>1, <2>2 DEF Earliest, Latest, Time
  <2>3. CASE R # {}
    <3>1. \E m \in R : \A x \in R : m <= x
      BY <2>1, <2>3, EarliestTime
    <3>2. \E m \in R : \A x \in R : x <= m
      BY <2>1, <2>3, LatestTime
    <3>3. Earliest(R) \in R
      BY <2>3, <3>1 DEF Earliest
    <3>4. Latest(R) \in R
      BY <2>3, <3>2 DEF Latest
    <3>5. QED
      BY <3>3, <3>4 DEF Time
  <2>4. QED
    BY <2>2, <2>3
<1> DEFINE first == Earliest(TimesOf(rows, "CLOCK_IN"))
           last  == Latest(TimesOf(rows, "CLOCK_OUT"))
<1>5. first \in Time /\ last \in Time
  BY <1>3, <1>4
<1>6. Calculated(rows, measured) = [state |-> state, codes |-> codes, first |-> first, last |-> last]
  BY DEF Calculated
<1> HIDE DEF state, codes, first, last
<1>7. QED
  BY <1>1, <1>2, <1>5, <1>6 DEF Columns, Clean, SheetState

-----------------------------------------------------------------------------
(* Types, and what a request in flight relies on however they interleave.  *)

\* A clock action carries an event of its own source and a clean row that is not LOCKED, a GPS
\* request asks for one of its actions at a time, and the legacy clock has read one.
Sound(s) ==
  /\ s.pc = "clock" => s.event.source = "v2" /\ Clean(s.row) /\ s.row.state # "LOCKED"
  /\ s.pc = "gps" => s.request.status = "PENDING" /\ s.request.kind \in GpsKinds /\ s.request.at # 0
  /\ s.pc = "v1 event" => s.at # 0

\* The rows that say when: a GPS request has a time.
Timed == \A c \in Correction : corrections[c].kind \in GpsKinds => corrections[c].at # 0

\* The types with what they need to be inductive.
TypeInv ==
  /\ TypeOK
  /\ Timed
  /\ \A f \in Flight : Sound(flight[f])
  /\ CorrectedDaysAreClean

\* The step of the idle process.
LEMMA IdlePc == Idle.pc = "idle"
BY DEF Idle

\* Steps of requests are not the idle one.
LEMMA NotIdle ==
  ASSUME NEW s, s.pc # "idle"
  PROVE  s # Idle
BY IdlePc

\* The steps of the legacy clock up to its last one.
Legacy == [pc : {"v1 record", "v1 reread", "v1 event", "v1 events"}, type : {"CLOCK_IN", "CLOCK_OUT"}, at : Time]

\* The step s tells its fields.
Fields(s) ==
  /\ s.pc = "idle" <=> s = Idle
  /\ s.pc = "clock"  => s.event \in Event /\ s.row \in Columns
  /\ s.pc = "edit"   => s.first \in Time /\ s.last \in Time
  /\ s.pc = "gps"    => s.request \in Request /\ s.seen \in Sheet
  /\ s.pc = "review" => s.correction \in Correction /\ s.decision \in {"APPROVED", "REJECTED"} /\ s.seen \in Sheet
  /\ s.pc \in {"v1 record", "v1 reread", "v1 event", "v1 events"} => s \in Legacy
  /\ s.pc = "v1 sheet" => s.rows \in SUBSET Event

\* Every step has the fields that its pc tells of.
LEMMA FieldsOf ==
  ASSUME NEW s \in {Idle} \cup Flights
  PROVE  Fields(s)
<1>1. s.pc # "idle" => s # Idle
  BY NotIdle
<1>2. CASE s = Idle
  BY <1>2 DEF Idle, Fields
<1>3. CASE s \in [pc : {"clock"}, event : Event, found : BOOLEAN, row : Columns]
  BY <1>1, <1>3 DEF Fields
<1>4. CASE s \in [pc : {"edit"}, first : Time, last : Time]
  BY <1>1, <1>4 DEF Fields
<1>5. CASE s \in [pc : {"gps"}, request : Request, seen : Sheet]
  BY <1>1, <1>5 DEF Fields
<1>6. CASE s \in [pc : {"review"}, correction : Correction, decision : {"APPROVED", "REJECTED"}, seen : Sheet]
  BY <1>1, <1>6 DEF Fields
<1>7. CASE s \in Legacy
  <2>1. s.pc \in {"v1 record", "v1 reread", "v1 event", "v1 events"}
    BY <1>7 DEF Legacy
  <2>2. QED
    BY <1>1, <1>7, <2>1 DEF Fields
<1>8. CASE s \in [pc : {"v1 sheet"}, rows : SUBSET Event]
  BY <1>1, <1>8 DEF Fields
<1>9. CASE s \in [pc : {"lock"}]
  BY <1>1, <1>9 DEF Fields
<1>10. QED
  BY <1>2, <1>3, <1>4, <1>5, <1>6, <1>7, <1>8, <1>9 DEF Flights, Legacy

\* So does the step of a request.
LEMMA Kinds ==
  ASSUME TypeOK, NEW f \in Flight
  PROVE  Fields(flight[f])
BY FieldsOf DEF TypeOK

\* A request moves to a step of its type and leaves the others where they are.
LEMMA Moved ==
  ASSUME TypeOK, NEW f \in Flight, NEW s \in {Idle} \cup Flights, Continue(f, s)
  PROVE  /\ flight' \in [Flight -> {Idle} \cup Flights]
         /\ flight'[f] = s
         /\ \A g \in Flight : g # f => flight'[g] = flight[g]
<1>1. flight \in [Flight -> {Idle} \cup Flights] /\ flight' = [flight EXCEPT ![f] = s]
  BY DEF TypeOK, Continue
<1> DEFINE T == {Idle} \cup Flights
<1> HIDE DEF T
<1>2. QED
  BY <1>1 DEF T

\* Ending is a move, too.
LEMMA Finished ==
  ASSUME TypeOK, NEW f \in Flight, Finish(f)
  PROVE  /\ flight' \in [Flight -> {Idle} \cup Flights]
         /\ flight'[f] = Idle
         /\ \A g \in Flight : g # f => flight'[g] = flight[g]
BY Moved DEF Finish

\* The idle step relies on nothing.
LEMMA IdleStep == Idle \in {Idle} \cup Flights /\ Sound(Idle)
BY IdlePc DEF Sound

\* A step to s that keeps the types of the tables.
LEMMA TypeStep ==
  ASSUME TypeInv, NEW f \in Flight, NEW s \in {Idle} \cup Flights, Continue(f, s), Sound(s),
         events' \subseteq Event, record' \in Record, sheet' \in Sheet,
         corrections' \in [Correction -> Request \cup {NoRequest}],
         adjustments' \subseteq Correction, period' \in {"OPEN", "LOCKED"}, now' \in Time,
         Timed', CorrectedDaysAreClean'
  PROVE  TypeInv'
<1>1. TypeOK /\ \A g \in Flight : Sound(flight[g])
  BY DEF TypeInv
<1>2. /\ flight' \in [Flight -> {Idle} \cup Flights]
      /\ \A g \in Flight : flight'[g] = flight[g] \/ flight'[g] = s
  BY <1>1, Moved
<1>3. TypeOK'
  BY <1>2 DEF TypeOK
<1>4. \A g \in Flight : Sound(flight[g])'
  BY <1>1, <1>2 DEF Sound, Clean
<1>5. QED
  BY <1>3, <1>4 DEF TypeInv

\* A step that writes no row.
LEMMA TypeQuiet ==
  ASSUME TypeInv, NEW f \in Flight, NEW s \in {Idle} \cup Flights, Continue(f, s), Sound(s),
         UNCHANGED <<events, record, sheet, corrections, adjustments, period>>, now' \in Time
  PROVE  TypeInv'
<1>1. Timed' /\ CorrectedDaysAreClean'
  BY DEF TypeInv, Timed, CorrectedDaysAreClean
<1>2. QED
  BY <1>1, TypeStep DEF TypeInv, TypeOK

\* The types hold at first.
LEMMA TypeInit == Init => TypeInv
<1> SUFFICES ASSUME Init PROVE TypeInv
  OBVIOUS
<1>1. MaxTime \in Nat
  BY RequestsAssumption
<1>2. NoSheet \in Sheet
  BY <1>1 DEF NoSheet, Sheet, Time
<1>3. TypeOK
  BY <1>1, <1>2 DEF Init, TypeOK, Record, Time
<1>4. \A f \in Flight : Sound(flight[f])
  BY IdlePc DEF Init, Sound
<1>5. Timed
  BY DEF Init, Timed, NoRequest, GpsKinds
<1>6. CorrectedDaysAreClean
  BY DEF Init, CorrectedDaysAreClean, NoSheet
<1>7. QED
  BY <1>3, <1>4, <1>5, <1>6 DEF TypeInv

\* The clock goes on within its bound.
LEMMA NextTime ==
  ASSUME TypeOK, Tick
  PROVE  now' \in Time /\ now' = now + 1 /\ now + 1 \in 1..MaxTime /\ now + 1 # 0
BY RequestsAssumption DEF TypeOK, Tick, Time

\* A clock action reads the day and computes its columns.
LEMMA TypeClockRead ==
  ASSUME TypeInv, NEW f \in Flight, NEW type \in EventType, ClockRead(f, type)
  PROVE  TypeInv'
<1> DEFINE event == [type |-> type, at |-> now + 1, source |-> "v2"]
<1>1. TypeOK /\ events \subseteq Event
  BY DEF TypeInv, TypeOK
<1>2. now' \in Time /\ event \in Event
  BY <1>1, NextTime DEF ClockRead, Event
<1>3. PICK measured \in SUBSET MeasuredCodes :
        Continue(f, [pc |-> "clock", event |-> event, found |-> record.status # "NONE",
                     row |-> Calculated(events \cup {event}, measured)])
  BY DEF ClockRead
<1> DEFINE row == Calculated(events \cup {event}, measured)
           s == [pc |-> "clock", event |-> event, found |-> record.status # "NONE", row |-> row]
<1>4. events \cup {event} \in SUBSET Event
  BY <1>1, <1>2
<1>5. row \in Columns /\ Clean(row) /\ row.state # "LOCKED"
  <2> HIDE DEF event
  <2>1. QED
    BY <1>4, CalculatedColumns
<1>6. event.source = "v2"
  OBVIOUS
<1> HIDE DEF event, row
<1>7. s \in {Idle} \cup Flights
  BY <1>2, <1>5 DEF Flights
<1>8. Sound(s)
  BY <1>5, <1>6 DEF Sound
<1>9. Continue(f, s)
  BY <1>3 DEF row
<1> HIDE DEF s
<1>10. QED
  BY <1>2, <1>7, <1>8, <1>9, TypeQuiet DEF ClockRead

\* A GPS request reads the day.
LEMMA TypeGpsRead ==
  ASSUME TypeInv, NEW f \in Flight, NEW action \in GpsKinds, GpsRead(f, action)
  PROVE  TypeInv'
<1> DEFINE asked == [status |-> "PENDING", kind |-> action, at |-> now + 1,
                     first |-> IF action = "CLOCK_IN" THEN now + 1 ELSE sheet.first,
                     last |-> IF action = "CLOCK_OUT" THEN now + 1 ELSE sheet.last]
           s == [pc |-> "gps", seen |-> sheet, request |-> asked]
<1>1. TypeOK /\ sheet \in Sheet
  BY DEF TypeInv, TypeOK
<1>2. sheet.first \in Time /\ sheet.last \in Time
  BY <1>1 DEF Sheet
<1>3. now' \in Time /\ now + 1 \in Time /\ now + 1 # 0
  BY <1>1, NextTime DEF GpsRead
<1>4. asked \in Request
  BY <1>2, <1>3 DEF Request, GpsKinds
<1>5. asked.status = "PENDING" /\ asked.kind \in GpsKinds /\ asked.at # 0
  BY <1>3
<1> HIDE DEF asked
<1>6. s \in {Idle} \cup Flights
  BY <1>1, <1>4 DEF Flights
<1>7. Sound(s)
  BY <1>5 DEF Sound
<1>8. Continue(f, s)
  BY DEF GpsRead, asked
<1> HIDE DEF s
<1>9. QED
  BY <1>3, <1>6, <1>7, <1>8, TypeQuiet DEF GpsRead

\* The other requests that read, check or stop, and write no table.
LEMMA TypeReads ==
  ASSUME TypeInv, NEW f \in Flight,
         \/ EditRead(f) \/ LegacyReread(f) \/ LegacyEvents(f) \/ LockChecks(f) \/ Stop(f)
         \/ \E c \in Correction, decision \in {"APPROVED", "REJECTED"} : ReviewRead(f, c, decision)
         \/ \E type \in {"CLOCK_IN", "CLOCK_OUT"} : LegacyRead(f, type)
  PROVE  TypeInv'
<1>1. TypeOK /\ now \in Time /\ 0 \in Time /\ 1 \in Time /\ sheet \in Sheet /\ events \subseteq Event /\ record \in Record
  BY RequestsAssumption DEF TypeInv, TypeOK, Time
<1>2. Fields(flight[f]) /\ Sound(flight[f])
  BY <1>1, Kinds DEF TypeInv
<1>3. /\ UNCHANGED <<events, record, sheet, corrections, adjustments, period>>
      /\ now' = now
  BY DEF EditRead, LegacyReread, LegacyEvents, LockChecks, Stop, ReviewRead, LegacyRead
<1>4. ASSUME NEW s \in {Idle} \cup Flights, Continue(f, s), Sound(s) PROVE TypeInv'
  BY <1>1, <1>3, <1>4, TypeQuiet
<1>5. CASE EditRead(f)
  <2>1. PICK first \in {0, 1}, last \in {0, 1} : Continue(f, [pc |-> "edit", first |-> first, last |-> last])
    BY <1>5 DEF EditRead
  <2> DEFINE s == [pc |-> "edit", first |-> first, last |-> last]
  <2>2. s \in {Idle} \cup Flights /\ Sound(s)
    BY <1>1 DEF Flights, Sound
  <2> HIDE DEF s
  <2>3. QED
    BY <1>4, <2>1, <2>2 DEF s
<1>6. CASE LegacyReread(f)
  <2> DEFINE s == [pc |-> "v1 event", type |-> "CLOCK_OUT", at |-> record.out]
  <2>1. s \in {Idle} \cup Flights
    BY <1>1 DEF Flights, Record
  <2>2. record.out # 0 => Sound(s)
    BY DEF Sound
  <2>3. (record.out # 0 /\ Continue(f, s)) \/ Continue(f, Idle)
    BY <1>6 DEF LegacyReread, Finish
  <2> HIDE DEF s
  <2>4. QED
    BY <1>4, <2>1, <2>2, <2>3, IdleStep
<1>7. CASE LegacyEvents(f)
  <2> DEFINE s == [pc |-> "v1 sheet", rows |-> events]
  <2>1. s \in {Idle} \cup Flights /\ Sound(s)
    BY <1>1 DEF Flights, Sound
  <2>2. Continue(f, s)
    BY <1>7 DEF LegacyEvents
  <2> HIDE DEF s
  <2>3. QED
    BY <1>4, <2>1, <2>2
<1>8. CASE LockChecks(f)
  <2> DEFINE s == [pc |-> "lock"]
  <2>1. s \in {Idle} \cup Flights /\ Sound(s)
    BY DEF Flights, Sound
  <2>2. Continue(f, s)
    BY <1>8 DEF LockChecks
  <2> HIDE DEF s
  <2>3. QED
    BY <1>4, <2>1, <2>2
<1>9. CASE Stop(f)
  BY <1>4, <1>9, IdleStep DEF Stop, Finish
<1>10. ASSUME NEW c \in Correction, NEW decision \in {"APPROVED", "REJECTED"}, ReviewRead(f, c, decision)
       PROVE  TypeInv'
  <2> DEFINE s == [pc |-> "review", correction |-> c, decision |-> decision, seen |-> sheet]
  <2>1. s \in {Idle} \cup Flights /\ Sound(s)
    BY <1>1 DEF Flights, Sound
  <2>2. Continue(f, s)
    BY <1>10 DEF ReviewRead
  <2> HIDE DEF s
  <2>3. QED
    BY <1>4, <2>1, <2>2
<1>11. ASSUME NEW type \in {"CLOCK_IN", "CLOCK_OUT"}, LegacyRead(f, type)
       PROVE  TypeInv'
  <2> DEFINE s == [pc |-> "v1 record", type |-> type, at |-> 0]
  <2>1. s \in {Idle} \cup Flights /\ Sound(s)
    BY <1>1 DEF Flights, Sound
  <2>2. Continue(f, s)
    BY <1>11 DEF LegacyRead
  <2> HIDE DEF s
  <2>3. QED
    BY <1>4, <2>1, <2>2
<1>12. QED
  BY <1>5, <1>6, <1>7, <1>8, <1>9, <1>10, <1>11

\* Columns are written to a row of the timesheet.
LEMMA WrittenSheet ==
  ASSUME TypeOK, NEW row \in Columns
  PROVE  Written(row) \in Sheet /\ Written(row).state = row.state /\ Written(row).codes = row.codes
BY DEF TypeOK, Written, Columns, Sheet

\* A clock action writes the row that it computed.
LEMMA TypeClockCommit ==
  ASSUME TypeInv, NEW f \in Flight, ClockCommit(f)
  PROVE  TypeInv' /\ sheet'.state # "LOCKED" /\ \A g \in events' \ events : g.source = "v2"
<1> DEFINE e == flight[f].event
           row == flight[f].row
<1>1. TypeOK /\ Fields(flight[f]) /\ Sound(flight[f]) /\ flight[f].pc = "clock"
  BY Kinds DEF TypeInv, ClockCommit
<1>2. e \in Event /\ e.source = "v2" /\ row \in Columns /\ Clean(row) /\ row.state # "LOCKED"
  BY <1>1 DEF Fields, Sound
<1>3. /\ events' = events \cup {e}
      /\ record' = CASE e.type = "CLOCK_IN" -> [status |-> "CLOCKED_IN", out |-> 0]
                     [] e.type = "CLOCK_OUT" /\ flight[f].found -> [status |-> "CLOCKED_OUT", out |-> e.at]
                     [] OTHER -> record
      /\ sheet' = Written(row)
      /\ Continue(f, Idle)
  BY DEF ClockCommit, Finish
<1> HIDE DEF e, row
<1>4. events' \subseteq Event /\ \A g \in events' \ events : g.source = "v2"
  BY <1>1, <1>2, <1>3 DEF TypeOK
<1>5. record' \in Record
  <2>1. e.at \in Time /\ 0 \in Time /\ record \in Record
    BY <1>1, <1>2, RequestsAssumption DEF Event, Time, TypeOK
  <2>2. \/ record' = [status |-> "CLOCKED_IN", out |-> 0]
        \/ record' = [status |-> "CLOCKED_OUT", out |-> e.at]
        \/ record' = record
    BY <1>3
  <2>3. QED
    BY <2>1, <2>2 DEF Record
<1>6. sheet' \in Sheet /\ CorrectedDaysAreClean' /\ sheet'.state # "LOCKED"
  BY <1>1, <1>2, <1>3, WrittenSheet DEF Clean, CorrectedDaysAreClean
<1>7. Timed'
  BY DEF ClockCommit, TypeInv, Timed
<1>8. TypeInv'
  BY <1>1, <1>3, <1>4, <1>5, <1>6, <1>7, TypeStep, IdleStep DEF ClockCommit, TypeOK
<1>9. QED
  BY <1>4, <1>6, <1>8

\* An employee's correction has no time of its own.
LEMMA TypeEditCreate ==
  ASSUME TypeInv, NEW f \in Flight, NEW c \in Correction, EditCreate(f, c)
  PROVE  TypeInv'
<1> DEFINE r == [status |-> "PENDING", kind |-> "EDIT", first |-> flight[f].first,
                 last |-> flight[f].last, at |-> now + 1]
<1>1. TypeOK /\ Fields(flight[f]) /\ flight[f].pc = "edit"
  BY Kinds DEF TypeInv, EditCreate
<1>2. now' \in Time /\ now + 1 \in Time
  BY <1>1, NextTime DEF EditCreate
<1>3. r \in Request /\ r.kind = "EDIT"
  BY <1>1, <1>2 DEF Fields, Request
<1>4. corrections' = [corrections EXCEPT ![c] = r]
  BY DEF EditCreate
<1> HIDE DEF r
<1>5. corrections' \in [Correction -> Request \cup {NoRequest}]
  BY <1>1, <1>3, <1>4 DEF TypeOK
<1>6. Timed'
  BY <1>1, <1>3, <1>4 DEF TypeInv, TypeOK, Timed, GpsKinds
<1>7. CorrectedDaysAreClean'
  BY DEF EditCreate, TypeInv, CorrectedDaysAreClean
<1>8. QED
  BY <1>1, <1>2, <1>5, <1>6, <1>7, TypeStep, IdleStep DEF EditCreate, Finish, TypeOK

\* A GPS request makes the day an exception until it is decided.
LEMMA TypeGpsCommit ==
  ASSUME TypeInv, NEW f \in Flight, NEW c \in Correction, GpsCommit(f, c)
  PROVE  TypeInv'
<1> DEFINE r == flight[f].request
           codes == flight[f].seen.codes \cup {"GPS_CLOCK_REQUEST_PENDING"}
<1>1. TypeOK /\ Fields(flight[f]) /\ Sound(flight[f]) /\ flight[f].pc = "gps"
  BY Kinds DEF TypeInv, GpsCommit
<1>2. r \in Request /\ r.at # 0 /\ flight[f].seen \in Sheet
  BY <1>1 DEF Fields, Sound
<1>3. codes \subseteq Code
  BY <1>2 DEF Sheet, Code
<1>4. /\ corrections' = [corrections EXCEPT ![c] = r]
      /\ sheet' = [sheet EXCEPT !.state = "EXCEPTION", !.codes = codes]
      /\ Continue(f, Idle)
  BY DEF GpsCommit, Finish
<1> HIDE DEF r, codes
<1>5. corrections' \in [Correction -> Request \cup {NoRequest}]
  BY <1>1, <1>2, <1>4 DEF TypeOK
<1>6. Timed'
  BY <1>1, <1>2, <1>4 DEF TypeInv, TypeOK, Timed
<1>7. sheet' \in Sheet /\ sheet'.state = "EXCEPTION"
  BY <1>1, <1>3, <1>4 DEF TypeOK, Sheet, SheetState
<1>8. CorrectedDaysAreClean'
  BY <1>7 DEF CorrectedDaysAreClean
<1>9. QED
  BY <1>1, <1>4, <1>5, <1>6, <1>7, <1>8, TypeStep, IdleStep DEF GpsCommit, TypeOK

\* An approval of an open day writes the corrected row.
LEMMA CorrectedColumns ==
  ASSUME TypeOK, NEW r \in Request \cup {NoRequest}, NEW seen \in Sheet
  PROVE  correctedTimesheet(r, seen) \in Columns /\ Clean(correctedTimesheet(r, seen))
<1>1. r.first \in Time /\ r.last \in Time
  BY RequestsAssumption DEF Request, NoRequest, Time
<1>2. RemainingCodes(r, seen) \subseteq Code
  BY DEF RemainingCodes, Sheet, Code
<1>3. /\ CorrectedState(r, seen) \in {"OPEN", "COMPLETE", "EXCEPTION"}
      /\ CorrectedState(r, seen) = "COMPLETE" => RemainingCodes(r, seen) = {}
  <2>1. CASE r.kind = "CLOCK_IN" /\ r.first # 0 /\ r.last = 0
    BY <2>1 DEF CorrectedState
  <2>2. CASE ~ (r.kind = "CLOCK_IN" /\ r.first # 0 /\ r.last = 0)
             /\ r.first # 0 /\ r.last # 0 /\ RemainingCodes(r, seen) = {}
    BY <2>2 DEF CorrectedState
  <2>3. CASE /\ ~ (r.kind = "CLOCK_IN" /\ r.first # 0 /\ r.last = 0)
             /\ ~ (r.first # 0 /\ r.last # 0 /\ RemainingCodes(r, seen) = {})
    BY <2>3 DEF CorrectedState
  <2>4. QED
    BY <2>1, <2>2, <2>3
<1>4. QED
  BY <1>1, <1>2, <1>3 DEF correctedTimesheet, Columns, Clean, SheetState

\* A decision keeps every row a row, and its kind and times.
LEMMA DecidedRows ==
  ASSUME TypeOK, NEW c \in Correction, NEW decision \in {"APPROVED", "REJECTED"},
         corrections' = Decided(c, decision)
  PROVE  /\ corrections' \in [Correction -> Request \cup {NoRequest}]
         /\ \A d \in Correction : /\ corrections'[d].kind = corrections[d].kind
                                  /\ corrections'[d].at = corrections[d].at
                                  /\ d # c => corrections'[d] = corrections[d]
         /\ corrections[c].status = "PENDING" => corrections'[c].status = decision
<1>1. corrections \in [Correction -> Request \cup {NoRequest}] /\ corrections[c] \in Request \cup {NoRequest}
  BY DEF TypeOK
<1>2. CASE corrections[c].status = "PENDING"
  <2> DEFINE r == [corrections[c] EXCEPT !.status = decision]
  <2>1. corrections[c] \in Request
    BY <1>1, <1>2 DEF NoRequest
  <2>2. r \in Request /\ r.kind = corrections[c].kind /\ r.at = corrections[c].at /\ r.status = decision
    BY <2>1 DEF Request
  <2>3. corrections' = [corrections EXCEPT ![c] = r]
    BY <1>1, <1>2 DEF Decided
  <2> HIDE DEF r
  <2>4. QED
    BY <1>1, <2>2, <2>3
<1>3. CASE corrections[c].status # "PENDING"
  BY <1>1, <1>3 DEF Decided
<1>4. QED
  BY <1>2, <1>3

\* The event of an approved GPS request.
LEMMA GpsEvent ==
  ASSUME TypeInv, NEW c \in Correction, RecordGpsEvent(c)
  PROVE  events' \subseteq Event /\ record' \in Record
<1> DEFINE r == corrections[c]
<1>1. TypeOK /\ r \in Request \cup {NoRequest} /\ (r.kind \in GpsKinds => r.at # 0)
  BY DEF TypeInv, TypeOK, Timed
<1>2. CASE r.kind = "EDIT"
  BY <1>1, <1>2 DEF RecordGpsEvent, TypeOK
<1>3. CASE r.kind # "EDIT"
  <2>1. r \in Request /\ r.kind \in {"CLOCK_IN", "CLOCK_OUT"} /\ r.at \in Time /\ r.at # 0
    BY <1>1, <1>3 DEF NoRequest, Request, GpsKinds
  <2>2. r.at \in 1..MaxTime
    BY <2>1, RequestsAssumption DEF Time
  <2> DEFINE e == [type |-> r.kind, at |-> r.at, source |-> c]
  <2>3. e \in Event
    BY <2>1, <2>2 DEF Event, EventType
  <2>4. /\ events' = events \cup {e}
        /\ record' = IF r.kind = "CLOCK_IN" THEN [record EXCEPT !.status = "CLOCKED_IN"]
                     ELSE [status |-> "CLOCKED_OUT", out |-> r.at]
    BY <1>3 DEF RecordGpsEvent
  <2> HIDE DEF e
  <2>5. events' \subseteq Event
    BY <1>1, <2>3, <2>4 DEF TypeOK
  <2>6. record' \in Record
    BY <1>1, <2>1, <2>4 DEF TypeOK, Record
  <2>7. QED
    BY <2>5, <2>6
<1>4. QED
  BY <1>2, <1>3

\* Which of the effects a decision has.
LEMMA EffectsOf ==
  ASSUME NEW c, NEW decision \in {"APPROVED", "REJECTED"}, NEW seen, Effects(c, decision, seen)
  PROVE  \/ decision = "REJECTED" /\ UNCHANGED <<events, record, sheet, adjustments>>
         \/ decision = "APPROVED" /\ seen.state = "LOCKED" /\ ApproveLocked(c, seen)
         \/ decision = "APPROVED" /\ seen.state # "LOCKED" /\ ApproveOpen(c, seen)
<1>1. CASE decision = "REJECTED"
  BY <1>1 DEF Effects
<1>2. CASE decision = "APPROVED" /\ seen.state = "LOCKED"
  BY <1>2 DEF Effects
<1>3. CASE decision = "APPROVED" /\ seen.state # "LOCKED"
  BY <1>3 DEF Effects
<1>4. QED
  BY <1>1, <1>2, <1>3

\* A review writes events, records, rows and adjustments of their types.
LEMMA TypeReviewCommit ==
  ASSUME TypeInv, NEW f \in Flight, ReviewCommit(f)
  PROVE  TypeInv'
<1> DEFINE c == flight[f].correction
           decision == flight[f].decision
           seen == flight[f].seen
<1>1. TypeOK /\ Fields(flight[f]) /\ flight[f].pc = "review"
  BY Kinds DEF TypeInv, ReviewCommit
<1>2. c \in Correction /\ decision \in {"APPROVED", "REJECTED"} /\ seen \in Sheet
  BY <1>1 DEF Fields
<1>3. corrections' = Decided(c, decision) /\ Effects(c, decision, seen) /\ Continue(f, Idle)
  BY DEF ReviewCommit, Finish
<1> HIDE DEF c, decision, seen
<1>4. corrections' \in [Correction -> Request \cup {NoRequest}] /\ Timed'
  BY <1>1, <1>2, <1>3, DecidedRows DEF TypeInv, Timed
<1>5. /\ events' \subseteq Event /\ record' \in Record /\ sheet' \in Sheet
      /\ adjustments' \subseteq Correction /\ CorrectedDaysAreClean'
  <2>1. CASE UNCHANGED <<events, record, sheet, adjustments>>
    BY <1>1, <2>1 DEF TypeInv, TypeOK, CorrectedDaysAreClean
  <2>2. CASE ApproveLocked(c, seen)
    BY <1>1, <1>2, <2>2 DEF ApproveLocked, TypeInv, TypeOK, CorrectedDaysAreClean
  <2>3. CASE ApproveOpen(c, seen)
    <3> DEFINE row == correctedTimesheet(corrections[c], seen)
    <3>1. corrections[c] \in Request \cup {NoRequest}
      BY <1>1, <1>2 DEF TypeOK
    <3>2. row \in Columns /\ Clean(row)
      BY <1>1, <1>2, <3>1, CorrectedColumns
    <3>3. sheet' = Written(row) /\ RecordGpsEvent(c) /\ adjustments' = adjustments
      BY <2>3 DEF ApproveOpen
    <3> HIDE DEF row
    <3>4. sheet' \in Sheet /\ CorrectedDaysAreClean'
      BY <1>1, <3>2, <3>3, WrittenSheet DEF Clean, CorrectedDaysAreClean
    <3>5. events' \subseteq Event /\ record' \in Record
      BY <1>2, <3>3, GpsEvent
    <3>6. QED
      BY <1>1, <3>3, <3>4, <3>5 DEF TypeOK
  <2>4. QED
    BY <1>2, <1>3, <2>1, <2>2, <2>3, EffectsOf
<1>6. QED
  BY <1>1, <1>3, <1>4, <1>5, TypeStep, IdleStep DEF ReviewCommit, TypeOK

\* The statements of the legacy transaction.
LEMMA TypeLegacyRecord ==
  ASSUME TypeInv, NEW f \in Flight, LegacyRecord(f)
  PROVE  TypeInv'
<1>1. TypeOK /\ now' \in Time /\ now + 1 \in Time /\ now + 1 # 0 /\ 0 \in Time
  <2>1. TypeOK /\ Tick
    BY DEF TypeInv, LegacyRecord
  <2>2. 0 \in Time
    BY RequestsAssumption DEF Time
  <2>3. QED
    BY <2>1, <2>2, NextTime DEF Time
<1>2. UNCHANGED <<events, sheet, corrections, adjustments, period>>
  BY DEF LegacyRecord
<1>3. Timed' /\ CorrectedDaysAreClean'
  BY <1>2 DEF TypeInv, Timed, CorrectedDaysAreClean
<1>4. ASSUME NEW s \in {Idle} \cup Flights, Continue(f, s), Sound(s), record' \in Record PROVE TypeInv'
  BY <1>1, <1>2, <1>3, <1>4, TypeStep DEF TypeOK
<1>5. CASE flight[f].type = "CLOCK_IN"
  <2> DEFINE s == [pc |-> "v1 event", type |-> "CLOCK_IN", at |-> now + 1]
  <2>1. s \in {Idle} \cup Flights /\ Sound(s)
    BY <1>1 DEF Flights, Sound
  <2>2. Continue(f, s) /\ record' = [status |-> "CLOCKED_IN", out |-> 0]
    BY <1>5 DEF LegacyRecord
  <2>3. record' \in Record
    BY <1>1, <2>2 DEF Record
  <2> HIDE DEF s
  <2>4. QED
    BY <1>4, <2>1, <2>2, <2>3
<1>6. CASE flight[f].type # "CLOCK_IN"
  <2> DEFINE s == [pc |-> "v1 reread", type |-> "CLOCK_OUT", at |-> 0]
  <2>1. s \in {Idle} \cup Flights /\ Sound(s)
    BY <1>1 DEF Flights, Sound
  <2>2. Continue(f, s) /\ record' = [status |-> "CLOCKED_OUT", out |-> now + 1]
    BY <1>6 DEF LegacyRecord
  <2>3. record' \in Record
    BY <1>1, <2>2 DEF Record
  <2> HIDE DEF s
  <2>4. QED
    BY <1>4, <2>1, <2>2, <2>3
<1>7. QED
  BY <1>5, <1>6

\* The event is of its own source; one that is there stays.
LEMMA TypeLegacyEvent ==
  ASSUME TypeInv, NEW f \in Flight, LegacyEvent(f)
  PROVE  TypeInv' /\ \A e \in events' \ events : e.source = "v1"
<1> DEFINE s == [flight[f] EXCEPT !.pc = "v1 events"]
           e == [type |-> flight[f].type, at |-> flight[f].at, source |-> "v1"]
<1>1. TypeOK /\ flight[f] \in Legacy /\ flight[f].at # 0
  BY Kinds DEF TypeInv, LegacyEvent, Fields, Sound
<1>2. s \in {Idle} \cup Flights /\ Sound(s)
  BY <1>1 DEF Flights, Sound, Legacy
<1>3. flight[f].at \in 1..MaxTime /\ flight[f].type \in {"CLOCK_IN", "CLOCK_OUT"}
  <2>1. flight[f].at \in Time /\ flight[f].type \in {"CLOCK_IN", "CLOCK_OUT"}
    BY <1>1 DEF Legacy
  <2>2. QED
    BY <1>1, <2>1, RequestsAssumption DEF Time
<1>4. e \in Event /\ e.source = "v1"
  BY <1>3 DEF Event, EventType
<1>5. Continue(f, s) /\ (events' = events \/ events' = events \cup {e})
  BY DEF LegacyEvent
<1> HIDE DEF s, e
<1>6. events' \subseteq Event /\ \A g \in events' \ events : g.source = "v1"
  BY <1>1, <1>4, <1>5 DEF TypeOK
<1>7. Timed' /\ CorrectedDaysAreClean'
  BY DEF LegacyEvent, TypeInv, Timed, CorrectedDaysAreClean
<1>8. TypeInv'
  BY <1>1, <1>2, <1>5, <1>6, <1>7, TypeStep DEF LegacyEvent, TypeOK
<1>9. QED
  BY <1>6, <1>8

\* The row is the calculated one, which is never LOCKED.
LEMMA TypeLegacySheet ==
  ASSUME TypeInv, NEW f \in Flight, LegacySheet(f)
  PROVE  TypeInv' /\ sheet'.state # "LOCKED"
<1>1. TypeOK /\ flight[f].rows \in SUBSET Event
  BY Kinds DEF TypeInv, LegacySheet, Fields
<1>2. PICK measured : sheet' = Written(Calculated(flight[f].rows, measured))
  BY DEF LegacySheet
<1> DEFINE row == Calculated(flight[f].rows, measured)
<1>3. row \in Columns /\ Clean(row) /\ row.state # "LOCKED"
  BY <1>1, CalculatedColumns
<1> HIDE DEF row
<1>4. sheet' \in Sheet /\ sheet'.state = row.state /\ sheet'.codes = row.codes
  BY <1>1, <1>2, <1>3, WrittenSheet DEF row
<1>5. CorrectedDaysAreClean'
  BY <1>3, <1>4 DEF Clean, CorrectedDaysAreClean
<1>6. Timed'
  BY DEF LegacySheet, TypeInv, Timed
<1>7. TypeInv'
  BY <1>1, <1>4, <1>5, <1>6, TypeStep, IdleStep DEF LegacySheet, Finish, TypeOK
<1>8. QED
  BY <1>3, <1>4, <1>7

\* The lock changes the state of the row.
LEMMA TypeLock ==
  ASSUME TypeInv, NEW f \in Flight, Lock(f)
  PROVE  TypeInv'
<1>1. TypeOK /\ sheet \in Sheet
  BY DEF TypeInv, TypeOK
<1>2. sheet' = IF sheet = NoSheet THEN sheet ELSE [sheet EXCEPT !.state = "LOCKED", !.closed = TRUE]
  BY DEF Lock
<1>3. CASE sheet = NoSheet
  BY <1>1, <1>2, <1>3, TypeStep, IdleStep DEF Lock, Finish, TypeInv, TypeOK, Timed, CorrectedDaysAreClean
<1>4. CASE sheet # NoSheet
  <2>1. sheet' \in Sheet /\ sheet'.state = "LOCKED"
    BY <1>1, <1>2, <1>4 DEF Sheet, SheetState
  <2>2. CorrectedDaysAreClean'
    BY <2>1 DEF CorrectedDaysAreClean
  <2>3. Timed'
    BY DEF Lock, TypeInv, Timed
  <2>4. QED
    BY <1>1, <2>1, <2>2, <2>3, TypeStep, IdleStep DEF Lock, Finish, TypeOK
<1>5. QED
  BY <1>3, <1>4

\* Every step keeps the types.
LEMMA TypeNext == TypeInv /\ [Next]_vars => TypeInv'
<1> SUFFICES ASSUME TypeInv, [Next]_vars PROVE TypeInv'
  OBVIOUS
<1>1. CASE UNCHANGED vars
  <2>1. TypeOK' /\ Timed' /\ CorrectedDaysAreClean'
    BY <1>1 DEF TypeInv, TypeOK, Timed, CorrectedDaysAreClean, vars
  <2>2. \A f \in Flight : Sound(flight[f])'
    BY <1>1 DEF TypeInv, Sound, Clean, vars
  <2>3. QED
    BY <2>1, <2>2 DEF TypeInv
<1>2. ASSUME NEW f \in Flight, NEW type \in EventType, ClockRead(f, type) PROVE TypeInv'
  BY <1>2, TypeClockRead
<1>3. ASSUME NEW f \in Flight, NEW action \in {"CLOCK_IN", "CLOCK_OUT"}, GpsRead(f, action) PROVE TypeInv'
  BY <1>3, TypeGpsRead DEF GpsKinds
<1>4. ASSUME NEW f \in Flight,
             \/ EditRead(f) \/ LegacyReread(f) \/ LegacyEvents(f) \/ LockChecks(f) \/ Stop(f)
             \/ \E c \in Correction, decision \in {"APPROVED", "REJECTED"} : ReviewRead(f, c, decision)
             \/ \E type \in {"CLOCK_IN", "CLOCK_OUT"} : LegacyRead(f, type)
      PROVE  TypeInv'
  BY <1>4, TypeReads
<1>5. ASSUME NEW f \in Flight, ClockCommit(f) PROVE TypeInv'
  BY <1>5, TypeClockCommit
<1>6. ASSUME NEW f \in Flight, NEW c \in Correction, EditCreate(f, c) PROVE TypeInv'
  BY <1>6, TypeEditCreate
<1>7. ASSUME NEW f \in Flight, NEW c \in Correction, GpsCommit(f, c) PROVE TypeInv'
  BY <1>7, TypeGpsCommit
<1>8. ASSUME NEW f \in Flight, ReviewCommit(f) PROVE TypeInv'
  BY <1>8, TypeReviewCommit
<1>9. ASSUME NEW f \in Flight, LegacyRecord(f) \/ LegacyEvent(f) \/ LegacySheet(f) PROVE TypeInv'
  BY <1>9, TypeLegacyRecord, TypeLegacyEvent, TypeLegacySheet
<1>10. ASSUME NEW f \in Flight, Lock(f) PROVE TypeInv'
  BY <1>10, TypeLock
<1>11. QED
  BY <1>1, <1>2, <1>3, <1>4, <1>5, <1>6, <1>7, <1>8, <1>9, <1>10 DEF Next

\* The types hold in every behaviour.
LEMMA TypeInvariant == Spec => []TypeInv
BY TypeInit, TypeNext, PTL DEF Spec

-----------------------------------------------------------------------------
(* One request at a time beside the clock actions: the coordinator         *)
(* "global" serializes.                                                    *)

\* At most one request of the coordinator "global" is in flight.
OneAtATime ==
  \A f, g \in Flight : flight[f].pc \notin {"idle", "clock"} /\ flight[g].pc \notin {"idle", "clock"} => f = g

\* What the step s of such a request has checked is still so when it writes: no request is
\* pending when one is created or the day is locked; the correction under review is not
\* decided; and a row that is LOCKED was LOCKED when the review read it.
Current(s) ==
  /\ s.pc \in {"edit", "gps", "lock"} => Pending = {}
  /\ s.pc = "review" => /\ corrections[s.correction].status = "PENDING"
                        /\ sheet.state = "LOCKED" => s.seen.state = "LOCKED"

Serial == OneAtATime /\ \A f \in Flight : Current(flight[f])

\* What the theorems say of a state.
Decisions == EffectsMatchDecisions /\ AtMostOnePending /\ LockedDaysAreDecided

\* The inductive invariant.
Inv == TypeInv /\ Serial /\ Decisions

\* The requests of "global".
GlobalSteps == {"edit", "gps", "review", "v1 record", "lock"}

\* The others are idle or clock actions, whether a request starts or goes on.
LEMMA Alone ==
  ASSUME TypeOK, CoordinatorSerializes, OneAtATime, NEW f \in Flight,
         (\E pc \in GlobalSteps : Deliver(f, pc)) \/ flight[f].pc \notin {"idle", "clock"}
  PROVE  \A g \in Flight : g # f => flight[g].pc \in {"idle", "clock"}
<1>1. CASE \E pc \in GlobalSteps : Deliver(f, pc)
  <2>1. PICK pc \in GlobalSteps : Deliver(f, pc)
    BY <1>1
  <2>2. Coordinator(pc) = "global"
    BY <2>1 DEF Coordinator, GlobalSteps
  <2>3. \A g \in Flight : flight[g] # Idle => Coordinator(flight[g].pc) # "global"
    BY <2>1, <2>2 DEF Deliver
  <2>4. \A g \in Flight : flight[g] # Idle => flight[g].pc = "clock"
    BY <2>3 DEF Coordinator
  <2>5. QED
    BY <2>4, IdlePc
<1>2. CASE flight[f].pc \notin {"idle", "clock"}
  BY <1>2 DEF OneAtATime
<1>3. QED
  BY <1>1, <1>2

\* A step of a clock action leaves what the others have checked: it decides nothing and locks
\* nothing.
LEMMA OthersStay ==
  ASSUME TypeOK, Serial, corrections' = corrections, sheet'.state = "LOCKED" => sheet.state = "LOCKED",
         \A g \in Flight : flight'[g] = flight[g] \/ flight'[g].pc \in {"idle", "clock"}
  PROVE  Serial'
<1>1. Pending' = Pending
  BY DEF Pending
<1>2. ASSUME NEW g \in Flight PROVE Current(flight[g])'
  <2>1. CASE flight'[g] = flight[g]
    BY <1>1, <2>1 DEF Serial, Current
  <2>2. CASE flight'[g].pc \in {"idle", "clock"}
    BY <2>2 DEF Current
  <2>3. QED
    BY <2>1, <2>2
<1>3. OneAtATime'
  BY DEF OneAtATime, Serial
<1>4. QED
  BY <1>2, <1>3 DEF Serial

\* Decisions are about events only by their sources; a step that decides nothing, adjusts
\* nothing, adds only events of the clocks and locks nothing keeps them.
LEMMA DecisionsStay ==
  ASSUME Decisions, corrections' = corrections, adjustments' = adjustments,
         events \subseteq events', \A e \in events' \ events : e.source \in {"v1", "v2"},
         sheet'.state = "LOCKED" => sheet.state = "LOCKED" \/ Pending = {}
  PROVE  Decisions'
<1>1. Pending' = Pending
  BY DEF Pending
<1>2. \A c \in Correction : (\E e \in events' : e.source = c) <=> \E e \in events : e.source = c
  BY RequestsAssumption
<1>3. EffectsMatchDecisions'
  BY <1>2 DEF Decisions, EffectsMatchDecisions
<1>4. AtMostOnePending' /\ LockedDaysAreDecided'
  BY <1>1 DEF Decisions, AtMostOnePending, LockedDaysAreDecided
<1>5. QED
  BY <1>3, <1>4 DEF Decisions

\* Reads and stops keep all of it.
LEMMA SerialReads ==
  ASSUME CoordinatorSerializes, TypeInv, Serial, NEW f \in Flight,
         \/ EditRead(f) \/ LockChecks(f) \/ LegacyReread(f) \/ LegacyEvents(f)
         \/ \E c \in Correction, decision \in {"APPROVED", "REJECTED"} : ReviewRead(f, c, decision)
         \/ \E type \in {"CLOCK_IN", "CLOCK_OUT"} : LegacyRead(f, type)
         \/ \E action \in GpsKinds : GpsRead(f, action)
  PROVE  Serial'
<1>1. TypeOK /\ OneAtATime /\ flight \in [Flight -> {Idle} \cup Flights]
  BY DEF TypeInv, Serial, TypeOK
<1>2. /\ corrections' = corrections /\ sheet' = sheet
      /\ Pending' = Pending
  BY DEF EditRead, LockChecks, LegacyReread, LegacyEvents, ReviewRead, LegacyRead, GpsRead, Pending
<1>3. \A g \in Flight : g # f => flight[g].pc \in {"idle", "clock"}
  <2>1. (\E pc \in GlobalSteps : Deliver(f, pc)) \/ flight[f].pc \notin {"idle", "clock"}
    BY DEF EditRead, LockChecks, LegacyReread, LegacyEvents, ReviewRead, LegacyRead, GpsRead, GlobalSteps
  <2>2. QED
    BY <1>1, <2>1, Alone
<1>4. \A g \in Flight : g # f => flight'[g] = flight[g]
  BY <1>1 DEF EditRead, LockChecks, LegacyReread, LegacyEvents, ReviewRead, LegacyRead, GpsRead, Continue, Finish
<1>5. OneAtATime' /\ \A g \in Flight : g # f => Current(flight[g])'
  BY <1>3, <1>4 DEF OneAtATime, Current
<1>6. ASSUME NEW s, Continue(f, s), s.pc \in {"edit", "gps", "lock"} => Pending = {}, s.pc # "review"
      PROVE  Serial'
  <2>1. flight'[f] = s
    BY <1>1, <1>6 DEF Continue
  <2>2. Current(flight[f])'
    BY <1>2, <1>6, <2>1 DEF Current
  <2>3. QED
    BY <1>5, <2>2 DEF Serial
<1>7. CASE EditRead(f)
  <2>1. PICK first \in {0, 1}, last \in {0, 1} : Continue(f, [pc |-> "edit", first |-> first, last |-> last])
    BY <1>7 DEF EditRead
  <2>2. Pending = {}
    BY <1>7 DEF EditRead, NonePending
  <2>3. QED
    BY <1>6, <2>1, <2>2
<1>8. CASE LockChecks(f)
  <2>1. Pending = {} /\ Continue(f, [pc |-> "lock"])
    BY <1>8 DEF LockChecks, NothingUnresolved
  <2>2. QED
    BY <1>6, <2>1
<1>9. ASSUME NEW action \in GpsKinds, GpsRead(f, action) PROVE Serial'
  <2> DEFINE s == [pc |-> "gps", seen |-> sheet, request |->
                    [status |-> "PENDING", kind |-> action, at |-> now + 1,
                     first |-> IF action = "CLOCK_IN" THEN now + 1 ELSE sheet.first,
                     last |-> IF action = "CLOCK_OUT" THEN now + 1 ELSE sheet.last]]
  <2>1. Pending = {} /\ Continue(f, s)
    BY <1>9 DEF GpsRead, NonePending
  <2>2. s.pc = "gps"
    OBVIOUS
  <2> HIDE DEF s
  <2>3. QED
    BY <1>6, <2>1, <2>2
<1>10. CASE LegacyReread(f) \/ LegacyEvents(f) \/ \E type \in {"CLOCK_IN", "CLOCK_OUT"} : LegacyRead(f, type)
  <2>1. ASSUME LegacyReread(f) PROVE Serial'
    <3>1. Continue(f, Idle) \/ Continue(f, [pc |-> "v1 event", type |-> "CLOCK_OUT", at |-> record.out])
      BY <2>1 DEF LegacyReread, Finish
    <3>2. QED
      BY <1>6, <3>1, IdlePc
  <2>2. ASSUME LegacyEvents(f) PROVE Serial'
    <3>1. Continue(f, [pc |-> "v1 sheet", rows |-> events])
      BY <2>2 DEF LegacyEvents
    <3>2. QED
      BY <1>6, <3>1
  <2>3. ASSUME NEW type \in {"CLOCK_IN", "CLOCK_OUT"}, LegacyRead(f, type) PROVE Serial'
    <3>1. Continue(f, [pc |-> "v1 record", type |-> type, at |-> 0])
      BY <2>3 DEF LegacyRead
    <3>2. QED
      BY <1>6, <3>1
  <2>4. QED
    BY <1>10, <2>1, <2>2, <2>3
<1>11. ASSUME NEW c \in Correction, NEW decision \in {"APPROVED", "REJECTED"}, ReviewRead(f, c, decision)
      PROVE  Serial'
  <2> DEFINE s == [pc |-> "review", correction |-> c, decision |-> decision, seen |-> sheet]
  <2>1. Continue(f, s) /\ corrections[c].status = "PENDING"
    BY <1>11 DEF ReviewRead
  <2>2. s.pc = "review" /\ s.correction = c /\ s.seen = sheet
    OBVIOUS
  <2> HIDE DEF s
  <2>3. flight'[f] = s
    BY <1>1, <2>1 DEF Continue
  <2>4. Current(flight[f])'
    BY <1>2, <2>1, <2>2, <2>3 DEF Current
  <2>5. QED
    BY <1>5, <2>4 DEF Serial
<1>12. QED
  BY <1>7, <1>8, <1>9, <1>10, <1>11

\* A request of "global" that goes on with the legacy clock's transaction or ends, alone.
LEMMA SerialWrites ==
  ASSUME CoordinatorSerializes, TypeInv, Serial, NEW f \in Flight, flight[f].pc \notin {"idle", "clock"},
         NEW s, Continue(f, s), s.pc \in {"idle", "v1 reread", "v1 event", "v1 events"}
  PROVE  Serial'
<1>1. TypeOK /\ OneAtATime /\ flight \in [Flight -> {Idle} \cup Flights]
  BY DEF TypeInv, Serial, TypeOK
<1>2. \A g \in Flight : g # f => flight[g].pc \in {"idle", "clock"}
  BY <1>1, Alone
<1>3. flight'[f] = s /\ \A g \in Flight : g # f => flight'[g] = flight[g]
  BY <1>1 DEF Continue
<1>4. OneAtATime' /\ \A g \in Flight : Current(flight[g])'
  BY <1>2, <1>3 DEF OneAtATime, Current
<1>5. QED
  BY <1>4 DEF Serial

\* A request is created when no other one is pending.
LEMMA CreateDecisions ==
  ASSUME TypeOK, Decisions, NEW c \in Correction, NEW r, corrections[c] = NoRequest, Pending = {},
         corrections' = [corrections EXCEPT ![c] = r], r.status = "PENDING",
         UNCHANGED <<events, adjustments>>, sheet'.state = "LOCKED" => r.kind = "EDIT"
  PROVE  Decisions'
<1>1. corrections \in [Correction -> Request \cup {NoRequest}]
  BY DEF TypeOK
<1>2. corrections'[c] = r /\ \A d \in Correction : d # c => corrections'[d] = corrections[d]
  BY <1>1
<1>3. \A d \in Correction : d # c => corrections[d].status # "PENDING"
  BY DEF Pending
<1>4. Pending' = {c}
  BY <1>2, <1>3 DEF Pending
<1>5. EffectsMatchDecisions'
  <2> DEFINE inPayroll(d) == d \in adjustments
             inLog(d) == \E e \in events : e.source = d
  <2>1. \A d \in Correction : /\ inPayroll(d) \/ inLog(d) => corrections[d].status = "APPROVED"
                              /\ ~ (inPayroll(d) /\ inLog(d))
                              /\ corrections[d].status = "APPROVED" /\ corrections[d].kind \in GpsKinds => inPayroll(d) \/ inLog(d)
    BY DEF Decisions, EffectsMatchDecisions
  <2>2. corrections[c].status = "NONE"
    BY DEF NoRequest
  <2> HIDE DEF inPayroll, inLog
  <2>3. \A d \in Correction : /\ inPayroll(d) \/ inLog(d) => corrections'[d].status = "APPROVED"
                              /\ ~ (inPayroll(d) /\ inLog(d))
                              /\ corrections'[d].status = "APPROVED" /\ corrections'[d].kind \in GpsKinds => inPayroll(d) \/ inLog(d)
    BY <1>2, <2>1, <2>2
  <2>4. QED
    BY <2>3 DEF EffectsMatchDecisions, inPayroll, inLog
<1>6. AtMostOnePending' /\ LockedDaysAreDecided'
  BY <1>2, <1>4 DEF AtMostOnePending, LockedDaysAreDecided
<1>7. QED
  BY <1>5, <1>6 DEF Decisions

\* The two ways to create one.
LEMMA CreateSteps ==
  ASSUME CoordinatorSerializes, Inv, NEW f \in Flight, NEW c \in Correction, EditCreate(f, c) \/ GpsCommit(f, c)
  PROVE  Serial' /\ Decisions'
<1>1. TypeOK /\ Fields(flight[f]) /\ Sound(flight[f]) /\ Current(flight[f]) /\ Decisions /\ TypeInv /\ Serial
  BY Kinds DEF Inv, TypeInv, Serial
<1>2. flight[f].pc \in {"edit", "gps"} /\ Continue(f, Idle)
  BY DEF EditCreate, GpsCommit, Finish
<1>3. Serial'
  BY <1>1, <1>2, IdlePc, SerialWrites
<1>4. CASE EditCreate(f, c)
  <2> DEFINE r == [status |-> "PENDING", kind |-> "EDIT", first |-> flight[f].first,
                   last |-> flight[f].last, at |-> now + 1]
  <2>1. corrections' = [corrections EXCEPT ![c] = r] /\ corrections[c] = NoRequest
    BY <1>4 DEF EditCreate
  <2>2. r.status = "PENDING" /\ r.kind = "EDIT"
    OBVIOUS
  <2>3. UNCHANGED <<events, adjustments>> /\ Pending = {}
    BY <1>1, <1>4 DEF EditCreate, Current
  <2> HIDE DEF r
  <2>4. QED
    BY <1>1, <1>3, <2>1, <2>2, <2>3, CreateDecisions
<1>5. CASE GpsCommit(f, c)
  <2> DEFINE r == flight[f].request
  <2>1. corrections' = [corrections EXCEPT ![c] = r] /\ corrections[c] = NoRequest
    BY <1>5 DEF GpsCommit
  <2>2. r.status = "PENDING"
    BY <1>1, <1>5 DEF GpsCommit, Sound
  <2>3. UNCHANGED <<events, adjustments>> /\ Pending = {}
    BY <1>1, <1>5 DEF GpsCommit, Current
  <2>4. sheet'.state # "LOCKED"
    BY <1>1, <1>5 DEF GpsCommit, TypeOK, Sheet
  <2> HIDE DEF r
  <2>5. QED
    BY <1>1, <1>3, <2>1, <2>2, <2>3, <2>4, CreateDecisions
<1>6. QED
  BY <1>4, <1>5

\* A decision has the effects it says: the payroll adjustment or the event of the correction,
\* and those of no other one.
LEMMA DecideDecisions ==
  ASSUME TypeOK, Decisions, NEW c \in Correction, NEW decision \in {"APPROVED", "REJECTED"}, NEW seen,
         corrections[c].status = "PENDING", corrections' = Decided(c, decision),
         Effects(c, decision, seen), sheet.state = "LOCKED" => seen.state = "LOCKED"
  PROVE  EffectsMatchDecisions'
<1> DEFINE inPayroll(d) == d \in adjustments
           inLog(d) == \E e \in events : e.source = d
           paid(d) == d \in adjustments'
           logged(d) == \E e \in events' : e.source = d
<1>1. \A d \in Correction : /\ inPayroll(d) \/ inLog(d) => corrections[d].status = "APPROVED"
                            /\ ~ (inPayroll(d) /\ inLog(d))
                            /\ corrections[d].status = "APPROVED" /\ corrections[d].kind \in GpsKinds => inPayroll(d) \/ inLog(d)
  BY DEF Decisions, EffectsMatchDecisions
<1>2. ~ inPayroll(c) /\ ~ inLog(c)
  <2> HIDE DEF inPayroll, inLog
  <2>1. QED
    BY <1>1
<1>3. /\ \A d \in Correction : corrections'[d].kind = corrections[d].kind
      /\ \A d \in Correction : d # c => corrections'[d] = corrections[d]
      /\ corrections'[c].status = decision
  BY DecidedRows
<1>4. \A d \in Correction : d # c => (paid(d) <=> inPayroll(d)) /\ (logged(d) <=> inLog(d))
  <2>1. CASE UNCHANGED <<events, record, sheet, adjustments>>
    BY <2>1
  <2>2. CASE ApproveLocked(c, seen)
    BY <2>2 DEF ApproveLocked
  <2>3. CASE ApproveOpen(c, seen)
    <3>1. adjustments' = adjustments
      BY <2>3 DEF ApproveOpen
    <3>2. events' = events \/ events' = events \cup {[type |-> corrections[c].kind, at |-> corrections[c].at, source |-> c]}
      BY <2>3 DEF ApproveOpen, RecordGpsEvent
    <3>3. QED
      BY <3>1, <3>2
  <2>4. QED
    BY <2>1, <2>2, <2>3, EffectsOf
<1>5. /\ paid(c) \/ logged(c) => decision = "APPROVED"
      /\ ~ (paid(c) /\ logged(c))
      /\ decision = "APPROVED" /\ corrections[c].kind \in GpsKinds => paid(c) \/ logged(c)
  <2>1. CASE decision = "REJECTED" /\ UNCHANGED <<events, record, sheet, adjustments>>
    <3>1. (paid(c) <=> inPayroll(c)) /\ (logged(c) <=> inLog(c))
      BY <2>1
    <3> HIDE DEF paid, logged, inPayroll, inLog
    <3>2. QED
      BY <1>2, <2>1, <3>1
  <2>2. CASE decision = "APPROVED" /\ ApproveLocked(c, seen)
    <3>1. paid(c) /\ (logged(c) <=> inLog(c))
      BY <2>2 DEF ApproveLocked
    <3> HIDE DEF paid, logged, inPayroll, inLog
    <3>2. QED
      BY <1>2, <2>2, <3>1
  <2>3. CASE decision = "APPROVED" /\ ApproveOpen(c, seen)
    <3>1. paid(c) <=> inPayroll(c)
      BY <2>3 DEF ApproveOpen
    <3>2. corrections[c].kind \in GpsKinds => logged(c)
      <4> DEFINE e == [type |-> corrections[c].kind, at |-> corrections[c].at, source |-> c]
      <4> SUFFICES ASSUME corrections[c].kind \in GpsKinds PROVE logged(c)
        OBVIOUS
      <4>1. events' = events \cup {e}
        BY <2>3 DEF ApproveOpen, RecordGpsEvent, GpsKinds
      <4>2. e.source = c
        OBVIOUS
      <4> HIDE DEF e
      <4>3. QED
        BY <4>1, <4>2
    <3> HIDE DEF paid, logged, inPayroll, inLog
    <3>3. QED
      BY <1>2, <2>3, <3>1, <3>2
  <2>4. QED
    BY <2>1, <2>2, <2>3, EffectsOf
<1>6. \A d \in Correction : /\ paid(d) \/ logged(d) => corrections'[d].status = "APPROVED"
                            /\ ~ (paid(d) /\ logged(d))
                            /\ corrections'[d].status = "APPROVED" /\ corrections'[d].kind \in GpsKinds => paid(d) \/ logged(d)
  <2> HIDE DEF paid, logged, inPayroll, inLog
  <2> SUFFICES ASSUME NEW d \in Correction
               PROVE  /\ paid(d) \/ logged(d) => corrections'[d].status = "APPROVED"
                      /\ ~ (paid(d) /\ logged(d))
                      /\ corrections'[d].status = "APPROVED" /\ corrections'[d].kind \in GpsKinds => paid(d) \/ logged(d)
    OBVIOUS
  <2>1. CASE d = c
    BY <1>3, <1>5, <2>1
  <2>2. CASE d # c
    BY <1>1, <1>3, <1>4, <2>2
  <2>3. QED
    BY <2>1, <2>2
<1>7. QED
  BY <1>6 DEF EffectsMatchDecisions

\* A review leaves a day alone that is locked when it writes, and locks none.
LEMMA ReviewedSheet ==
  ASSUME TypeOK, NEW c \in Correction, NEW decision \in {"APPROVED", "REJECTED"}, NEW seen \in Sheet,
         Effects(c, decision, seen), sheet.state = "LOCKED" => seen.state = "LOCKED"
  PROVE  (sheet.state = "LOCKED" => sheet' = sheet) /\ (sheet'.state = "LOCKED" => sheet.state = "LOCKED")
<1>1. CASE UNCHANGED <<events, record, sheet, adjustments>> \/ ApproveLocked(c, seen)
  BY <1>1 DEF ApproveLocked
<1>2. CASE seen.state # "LOCKED" /\ ApproveOpen(c, seen)
  <2> DEFINE row == correctedTimesheet(corrections[c], seen)
  <2>1. corrections[c] \in Request \cup {NoRequest}
    BY DEF TypeOK
  <2>2. row \in Columns
    BY <2>1, CorrectedColumns
  <2>3. row.state # "LOCKED"
    <3>1. CorrectedState(corrections[c], seen) \in {"OPEN", "COMPLETE", "EXCEPTION"}
      BY DEF CorrectedState
    <3>2. QED
      BY <3>1 DEF correctedTimesheet
  <2>4. sheet' = Written(row)
    BY <1>2 DEF ApproveOpen
  <2> HIDE DEF row
  <2>5. QED
    BY <1>2, <2>2, <2>3, <2>4, WrittenSheet
<1>3. QED
  BY <1>1, <1>2, EffectsOf

\* The batch of a review.
LEMMA ReviewSteps ==
  ASSUME CoordinatorSerializes, Inv, NEW f \in Flight, ReviewCommit(f)
  PROVE  /\ Serial' /\ Decisions'
         /\ sheet.state = "LOCKED" => sheet' = sheet
<1> DEFINE c == flight[f].correction
           decision == flight[f].decision
           seen == flight[f].seen
<1>1. TypeOK /\ Fields(flight[f]) /\ Current(flight[f]) /\ Decisions /\ TypeInv /\ Serial /\ flight[f].pc = "review"
  BY Kinds DEF Inv, TypeInv, Serial, ReviewCommit
<1>2. Continue(f, Idle) /\ corrections' = Decided(c, decision) /\ Effects(c, decision, seen)
  BY DEF ReviewCommit, Finish
<1>3. Serial'
  BY <1>1, <1>2, IdlePc, SerialWrites
<1>4. c \in Correction /\ decision \in {"APPROVED", "REJECTED"} /\ seen \in Sheet
  BY <1>1 DEF Fields
<1>5. corrections[c].status = "PENDING" /\ (sheet.state = "LOCKED" => seen.state = "LOCKED")
  BY <1>1 DEF Current
<1> HIDE DEF c, decision, seen
<1>6. EffectsMatchDecisions'
  BY <1>1, <1>2, <1>4, <1>5, DecideDecisions
<1>7. (sheet.state = "LOCKED" => sheet' = sheet) /\ (sheet'.state = "LOCKED" => sheet.state = "LOCKED")
  BY <1>1, <1>2, <1>4, <1>5, ReviewedSheet
<1>8. /\ \A d \in Correction : corrections'[d].kind = corrections[d].kind
      /\ \A d \in Correction : d # c => corrections'[d] = corrections[d]
      /\ corrections'[c].status = decision
  BY <1>1, <1>2, <1>4, <1>5, DecidedRows
<1>9. Pending' \subseteq Pending
  BY <1>4, <1>8 DEF Pending
<1>10. AtMostOnePending' /\ LockedDaysAreDecided'
  <2>1. \A d \in Pending' : d \in Correction
    BY DEF Pending
  <2>2. QED
    BY <1>1, <1>7, <1>8, <1>9, <2>1 DEF Decisions, AtMostOnePending, LockedDaysAreDecided
<1>11. QED
  BY <1>3, <1>6, <1>7, <1>10 DEF Decisions

\* The lock finds no request undecided.
LEMMA LockStep ==
  ASSUME CoordinatorSerializes, Inv, NEW f \in Flight, Lock(f)
  PROVE  Serial' /\ Decisions'
<1>1. Current(flight[f]) /\ Decisions /\ TypeInv /\ Serial /\ flight[f].pc = "lock" /\ Continue(f, Idle)
  BY DEF Inv, Serial, Lock, Finish
<1>2. Serial'
  BY <1>1, IdlePc, SerialWrites
<1>3. Pending = {}
  BY <1>1 DEF Current
<1>4. Decisions'
  BY <1>1, <1>3, DecisionsStay DEF Lock
<1>5. QED
  BY <1>2, <1>4

\* The clocks add events of their own and lock no day.
LEMMA ClockSteps ==
  ASSUME CoordinatorSerializes, Inv, NEW f \in Flight,
         \/ \E type \in EventType : ClockRead(f, type)
         \/ ClockCommit(f) \/ Stop(f) \/ LegacyRecord(f) \/ LegacyEvent(f) \/ LegacySheet(f)
  PROVE  Serial' /\ Decisions'
<1>1. TypeInv /\ TypeOK /\ Serial /\ Decisions /\ flight \in [Flight -> {Idle} \cup Flights]
  BY DEF Inv, TypeInv, TypeOK
<1>2. ASSUME NEW type \in EventType, ClockRead(f, type) PROVE Serial' /\ Decisions'
  <2>1. \E s : s.pc = "clock" /\ flight' = [flight EXCEPT ![f] = s]
    BY <1>2 DEF ClockRead, Continue
  <2>2. \A g \in Flight : flight'[g] = flight[g] \/ flight'[g].pc \in {"idle", "clock"}
    BY <1>1, <2>1
  <2>3. corrections' = corrections /\ sheet' = sheet /\ adjustments' = adjustments /\ events' = events
    BY <1>2 DEF ClockRead
  <2>4. QED
    BY <1>1, <2>2, <2>3, OthersStay, DecisionsStay
<1>3. ASSUME ClockCommit(f) \/ Stop(f) PROVE Serial' /\ Decisions'
  <2>1. Continue(f, Idle) /\ corrections' = corrections /\ adjustments' = adjustments /\ events \subseteq events'
    BY <1>3 DEF ClockCommit, Stop, Finish
  <2>2. \A g \in Flight : flight'[g] = flight[g] \/ flight'[g].pc \in {"idle", "clock"}
    BY <1>1, <2>1, IdlePc DEF Continue
  <2>3. (sheet'.state = "LOCKED" => sheet.state = "LOCKED") /\ \A e \in events' \ events : e.source = "v2"
    BY <1>1, <1>3, TypeClockCommit DEF Stop
  <2>4. QED
    BY <1>1, <2>1, <2>2, <2>3, OthersStay, DecisionsStay
<1>4. ASSUME LegacyRecord(f) PROVE Serial' /\ Decisions'
  <2>1. flight[f].pc = "v1 record" /\ corrections' = corrections /\ adjustments' = adjustments /\ events' = events /\ sheet' = sheet
    BY <1>4 DEF LegacyRecord
  <2>2. \/ Continue(f, [pc |-> "v1 event", type |-> "CLOCK_IN", at |-> now + 1])
        \/ Continue(f, [pc |-> "v1 reread", type |-> "CLOCK_OUT", at |-> 0])
    BY <1>4 DEF LegacyRecord
  <2>3. Serial'
    BY <1>1, <2>1, <2>2, SerialWrites
  <2>4. QED
    BY <1>1, <2>1, <2>3, DecisionsStay
<1>5. ASSUME LegacyEvent(f) PROVE Serial' /\ Decisions'
  <2>1. /\ flight[f].pc = "v1 event" /\ corrections' = corrections /\ adjustments' = adjustments /\ sheet' = sheet
        /\ events \subseteq events'
    BY <1>5 DEF LegacyEvent
  <2>2. \A e \in events' \ events : e.source = "v1"
    BY <1>1, <1>5, TypeLegacyEvent
  <2> DEFINE s == [flight[f] EXCEPT !.pc = "v1 events"]
  <2>3. flight[f] \in Legacy
    BY <1>1, <2>1, Kinds DEF Fields
  <2>4. s.pc = "v1 events"
    BY <2>3 DEF Legacy
  <2>5. Continue(f, s)
    BY <1>5 DEF LegacyEvent
  <2> HIDE DEF s
  <2>6. Serial'
    BY <1>1, <2>1, <2>4, <2>5, SerialWrites
  <2>7. QED
    BY <1>1, <2>1, <2>2, <2>6, DecisionsStay
<1>6. ASSUME LegacySheet(f) PROVE Serial' /\ Decisions'
  <2>1. /\ flight[f].pc = "v1 sheet" /\ corrections' = corrections /\ adjustments' = adjustments /\ events' = events
        /\ Continue(f, Idle)
    BY <1>6 DEF LegacySheet, Finish
  <2>2. sheet'.state # "LOCKED"
    BY <1>1, <1>6, TypeLegacySheet
  <2>3. Serial'
    BY <1>1, <2>1, IdlePc, SerialWrites
  <2>4. QED
    BY <1>1, <2>1, <2>2, <2>3, DecisionsStay
<1>7. QED
  BY <1>2, <1>3, <1>4, <1>5, <1>6

\* The inductive invariant, at first ...
LEMMA InvInit == Init => Inv
<1> SUFFICES ASSUME Init PROVE Inv
  OBVIOUS
<1>1. TypeInv
  BY TypeInit
<1>2. Serial
  BY IdlePc DEF Init, Serial, OneAtATime, Current
<1>3. Pending = {}
  BY DEF Init, Pending, NoRequest
<1>4. Decisions
  BY <1>3 DEF Init, Decisions, EffectsMatchDecisions, AtMostOnePending, LockedDaysAreDecided, NoRequest
<1>5. QED
  BY <1>1, <1>2, <1>4 DEF Inv

\* ... after every step ...
LEMMA InvNext ==
  ASSUME CoordinatorSerializes
  PROVE  Inv /\ [Next]_vars => Inv'
<1> SUFFICES ASSUME Inv, [Next]_vars PROVE Inv'
  OBVIOUS
<1>1. TypeInv /\ TypeOK /\ Serial /\ Decisions /\ TypeInv'
  BY TypeNext DEF Inv, TypeInv
<1>2. CASE UNCHANGED vars
  <2>1. Serial'
    BY <1>1, <1>2, OthersStay DEF vars
  <2>2. Decisions'
    BY <1>1, <1>2, DecisionsStay DEF vars
  <2>3. QED
    BY <1>1, <2>1, <2>2 DEF Inv
<1>3. ASSUME NEW f \in Flight,
             \/ EditRead(f) \/ LockChecks(f) \/ LegacyReread(f) \/ LegacyEvents(f)
             \/ \E c \in Correction, decision \in {"APPROVED", "REJECTED"} : ReviewRead(f, c, decision)
             \/ \E type \in {"CLOCK_IN", "CLOCK_OUT"} : LegacyRead(f, type)
             \/ \E action \in GpsKinds : GpsRead(f, action)
      PROVE  Inv'
  <2>1. corrections' = corrections /\ sheet' = sheet /\ adjustments' = adjustments /\ events' = events
    BY <1>3 DEF EditRead, LockChecks, LegacyReread, LegacyEvents, ReviewRead, LegacyRead, GpsRead
  <2>2. Decisions'
    BY <1>1, <2>1, DecisionsStay
  <2>3. QED
    BY <1>1, <1>3, <2>2, SerialReads DEF Inv
<1>4. ASSUME NEW f \in Flight, NEW c \in Correction, EditCreate(f, c) \/ GpsCommit(f, c) PROVE Inv'
  BY <1>1, <1>4, CreateSteps DEF Inv
<1>5. ASSUME NEW f \in Flight, ReviewCommit(f) PROVE Inv'
  BY <1>1, <1>5, ReviewSteps DEF Inv
<1>6. ASSUME NEW f \in Flight, Lock(f) PROVE Inv'
  BY <1>1, <1>6, LockStep DEF Inv
<1>7. ASSUME NEW f \in Flight,
             \/ \E type \in EventType : ClockRead(f, type)
             \/ ClockCommit(f) \/ Stop(f) \/ LegacyRecord(f) \/ LegacyEvent(f) \/ LegacySheet(f)
      PROVE  Inv'
  BY <1>1, <1>7, ClockSteps DEF Inv
<1>8. QED
  BY <1>2, <1>3, <1>4, <1>5, <1>6, <1>7 DEF Next, GpsKinds

\* ... and so always.
LEMMA InvHolds ==
  ASSUME CoordinatorSerializes
  PROVE  Spec => []Inv
BY InvInit, InvNext, PTL DEF Spec

\* A review that ends finds the row as it is LOCKED, and leaves it so.
LEMMA ReviewEnds ==
  ASSUME CoordinatorSerializes, Inv, [Next]_vars, NEW f \in Flight,
         flight[f].pc = "review", flight'[f] = Idle, sheet.state = "LOCKED"
  PROVE  sheet' = sheet
<1>1. TypeOK /\ flight \in [Flight -> {Idle} \cup Flights]
  BY DEF Inv, TypeInv, TypeOK
<1>2. flight'[f] # flight[f]
  BY IdlePc
<1>3. ASSUME NEW g \in Flight, ReviewCommit(g) PROVE sheet' = sheet
  BY <1>3, ReviewSteps
<1>4. ASSUME NEW g \in Flight, NEW s, Continue(g, s), flight[g].pc # "review" PROVE FALSE
  BY <1>1, <1>2, <1>4 DEF Continue
<1>5. ASSUME NEW g \in Flight, ClockCommit(g) \/ LegacySheet(g) \/ Lock(g) \/ \E c \in Correction : GpsCommit(g, c)
      PROVE  FALSE
  <2>1. Continue(g, Idle) /\ flight[g].pc # "review"
    BY <1>5 DEF ClockCommit, LegacySheet, Lock, GpsCommit, Finish
  <2>2. QED
    BY <1>4, <2>1
<1>6. QED
  BY <1>3, <1>5
     DEF Next, vars, ClockRead, EditRead, EditCreate, GpsRead, ReviewRead, LegacyRead, LegacyRecord, LegacyReread,
         LegacyEvent, LegacyEvents, LockChecks, Stop

-----------------------------------------------------------------------------
(* The theorems.                                                           *)

\* Every variable keeps its type, however the requests of the two coordinators interleave.
THEOREM TypeCorrect == Spec => []TypeOK
<1>1. TypeInv => TypeOK
  BY DEF TypeInv
<1>2. QED
  BY <1>1, TypeInvariant, PTL

\* A day that payroll will pay carries no exception code, whoever wrote it last and whether or
\* not the coordinators serialize.
THEOREM CorrectedDaysAreCleanHolds == Spec => []CorrectedDaysAreClean
<1>1. TypeInv => CorrectedDaysAreClean
  BY DEF TypeInv
<1>2. QED
  BY <1>1, TypeInvariant, PTL

\* A decision has the effects it says and no others: no review is half done, done twice or
\* undone, whatever the clocks write in between.
THEOREM EffectsMatchDecisionsHolds ==
  ASSUME CoordinatorSerializes
  PROVE  Spec => []EffectsMatchDecisions
<1>1. Inv => EffectsMatchDecisions
  BY DEF Inv, Decisions
<1>2. QED
  BY <1>1, InvHolds, PTL

\* A day is never asked about twice at a time, it is locked with its GPS requests decided, and
\* it is paid without exception codes.
THEOREM DaysAreSettledHolds ==
  ASSUME CoordinatorSerializes
  PROVE  Spec => []DaysAreSettled
<1>1. Inv => DaysAreSettled
  BY DEF Inv, TypeInv, Decisions, DaysAreSettled
<1>2. QED
  BY <1>1, InvHolds, PTL

\* A review leaves a row alone that is LOCKED when its batch runs, although it looked at the
\* state of the row long before.
THEOREM ReviewsSpareLockedDaysHolds ==
  ASSUME CoordinatorSerializes
  PROVE  Spec => ReviewsSpareLockedDays
<1>1. Inv /\ [Next]_vars =>
        [\A f \in Flight : flight[f].pc = "review" /\ flight'[f] = Idle /\ sheet.state = "LOCKED"
           => sheet' = sheet]_vars
  BY ReviewEnds
<1>2. QED
  BY <1>1, InvHolds, PTL DEF Spec, ReviewsSpareLockedDays

-----------------------------------------------------------------------------
(* One request at a time, without edits of the times and the legacy clock  *)
(* (the part "reviews" of MCRequests): approved times are kept.            *)

\* The approved requests that were not left to payroll.
Recorded == {c \in Correction : corrections[c].status = "APPROVED" /\ c \notin adjustments}

\* The two times of a row count what was approved.
Keeps(first, last) ==
  \A c \in Recorded :
    /\ corrections[c].kind = "CLOCK_IN" => first # 0 /\ first <= corrections[c].at
    /\ corrections[c].kind = "CLOCK_OUT" => corrections[c].at <= last

\* A GPS request asks for its own time, and repeats what was approved before.
Asked(r) ==
  /\ r.kind \in GpsKinds /\ Keeps(r.first, r.last)
  /\ r.kind = "CLOCK_IN" => r.first = r.at
  /\ r.kind = "CLOCK_OUT" => r.last = r.at

\* What a request in flight is about to write counts what was approved.
Held(s) ==
  /\ s.pc \in {"idle", "clock", "gps", "review", "lock"}
  /\ s.pc = "clock" => Keeps(s.row.first, s.row.last)
  /\ s.pc = "gps" => Asked(s.request)

\* An approved request has its event, from which later clock actions calculate.
HasEvents ==
  \A c \in Recorded : [type |-> corrections[c].kind, at |-> corrections[c].at, source |-> c] \in events

Kept ==
  /\ \A f, g \in Flight : flight[f] # Idle /\ flight[g] # Idle => f = g
  /\ \A f \in Flight : Held(flight[f])
  /\ Keeps(sheet.first, sheet.last)
  /\ HasEvents
  /\ \A c \in Pending : Asked(corrections[c])

\* A step that decides nothing keeps Kept if what it carries and what it writes do.
LEMMA KeptQuiet ==
  ASSUME TypeOK, Kept, OneByOne, NEW f \in Flight, NEW s \in {Idle} \cup Flights, Continue(f, s), Held(s),
         events \subseteq events', corrections' = corrections, adjustments' = adjustments,
         NEW first, NEW last, sheet'.first = first, sheet'.last = last, Keeps(first, last)
  PROVE  Kept'
<1>1. Recorded' = Recorded /\ Pending' = Pending
  BY DEF Recorded, Pending
<1>2. ASSUME NEW g \in Flight
      PROVE  Held(flight[g])'
  <2>1. PICK t : t = flight'[g] /\ Held(t)
    BY Moved DEF Kept
  <2>2. QED
    BY <1>1, <2>1 DEF Held, Asked, Keeps
<1>3. Keeps(sheet.first, sheet.last)'
  BY <1>1 DEF Keeps
<1>4. HasEvents'
  BY <1>1 DEF Kept, HasEvents
<1>5. \A c \in Pending' : Asked(corrections[c])'
  BY <1>1 DEF Kept, Asked, Keeps
<1>6. QED
  BY <1>2, <1>3, <1>4, <1>5 DEF Kept, OneByOne

\* What is calculated from all events counts what was approved.
LEMMA CalculatedKeeps ==
  ASSUME TypeOK, HasEvents, NEW rows \in SUBSET Event, events \subseteq rows, NEW measured
  PROVE  Keeps(Calculated(rows, measured).first, Calculated(rows, measured).last)
<1> DEFINE ins == TimesOf(rows, "CLOCK_IN")
           outs == TimesOf(rows, "CLOCK_OUT")
<1>1. Calculated(rows, measured).first = Earliest(ins) /\ Calculated(rows, measured).last = Latest(outs)
  BY DEF Calculated
<1>2. ins \in SUBSET (1..MaxTime) /\ outs \in SUBSET (1..MaxTime) /\ MaxTime \in Nat
  BY RequestsAssumption DEF TimesOf, Event
<1>3. ASSUME NEW c \in Recorded, corrections[c].kind = "CLOCK_IN"
      PROVE  corrections[c].at \in ins
  <2>1. [type |-> "CLOCK_IN", at |-> corrections[c].at, source |-> c] \in rows
    BY <1>3 DEF HasEvents
  <2>2. QED
    BY <2>1 DEF TimesOf
<1>4. ASSUME NEW c \in Recorded, corrections[c].kind = "CLOCK_OUT"
      PROVE  corrections[c].at \in outs
  <2>1. [type |-> "CLOCK_OUT", at |-> corrections[c].at, source |-> c] \in rows
    BY <1>4 DEF HasEvents
  <2>2. QED
    BY <2>1 DEF TimesOf
<1> HIDE DEF ins, outs
<1>5. ASSUME NEW t \in ins
      PROVE  Earliest(ins) # 0 /\ Earliest(ins) <= t
  <2>1. ins \in SUBSET (0..MaxTime) /\ ins # {}
    BY <1>2, <1>5
  <2>2. \E m \in ins : \A x \in ins : m <= x
    BY <1>2, <2>1, EarliestTime
  <2>3. Earliest(ins) \in ins /\ \A x \in ins : Earliest(ins) <= x
    BY <2>1, <2>2 DEF Earliest
  <2>4. QED
    BY <1>2, <1>5, <2>3
<1>6. ASSUME NEW t \in outs
      PROVE  t <= Latest(outs)
  <2>1. outs \in SUBSET (0..MaxTime) /\ outs # {}
    BY <1>2, <1>6
  <2>2. \E m \in outs : \A x \in outs : x <= m
    BY <1>2, <2>1, LatestTime
  <2>3. Latest(outs) \in outs /\ \A x \in outs : x <= Latest(outs)
    BY <2>1, <2>2 DEF Latest
  <2>4. QED
    BY <1>6, <2>3
<1>7. QED
  BY <1>1, <1>3, <1>4, <1>5, <1>6 DEF Keeps

\* The clock actions: the new columns are calculated from all events, and so is the row.
LEMMA KeptClock ==
  ASSUME TypeOK, Kept, OneByOne, NEW f \in Flight, ClockCommit(f) \/ \E type \in EventType : ClockRead(f, type)
  PROVE  Kept'
<1>1. CASE ClockCommit(f)
  <2>1. PICK s : s = flight[f] /\ s.pc = "clock" /\ Held(s)
    BY <1>1 DEF ClockCommit, Kept
  <2>2. sheet'.first = s.row.first /\ sheet'.last = s.row.last /\ Keeps(s.row.first, s.row.last)
    BY <1>1, <2>1 DEF ClockCommit, Written, Held
  <2>3. events \subseteq events' /\ corrections' = corrections /\ adjustments' = adjustments /\ Continue(f, Idle)
    BY <1>1 DEF ClockCommit, Finish
  <2>4. Held(Idle) /\ Idle \in {Idle} \cup Flights
    BY IdlePc DEF Held
  <2>5. QED
    BY <2>2, <2>3, <2>4, KeptQuiet
<1>2. ASSUME NEW type \in EventType, ClockRead(f, type)
      PROVE  Kept'
  <2> DEFINE event == [type |-> type, at |-> now + 1, source |-> "v2"]
             rows == events \cup {event}
             step(measured) == [pc |-> "clock", event |-> event, found |-> record.status # "NONE",
                                row |-> Calculated(rows, measured)]
  <2>1. PICK measured \in SUBSET MeasuredCodes : Continue(f, step(measured))
    BY <1>2 DEF ClockRead
  <2>2. event \in Event
    BY <1>2, NextTime DEF ClockRead, Event
  <2>3. rows \in SUBSET Event /\ events \subseteq rows
    BY <2>2 DEF TypeOK
  <2> HIDE DEF rows, event
  <2>4. Keeps(Calculated(rows, measured).first, Calculated(rows, measured).last)
    BY <2>3, CalculatedKeeps DEF Kept
  <2>5. Calculated(rows, measured) \in Columns
    BY <2>3, CalculatedColumns
  <2>6. step(measured) \in Flights
    BY <2>2, <2>5 DEF Flights
  <2>7. step(measured).pc = "clock" /\ step(measured).row = Calculated(rows, measured)
    OBVIOUS
  <2> HIDE DEF step
  <2>8. Held(step(measured))
    BY <2>4, <2>7 DEF Held
  <2>9. /\ events' = events /\ corrections' = corrections /\ adjustments' = adjustments
        /\ sheet' = sheet
    BY <1>2 DEF ClockRead
  <2>10. Keeps(sheet.first, sheet.last)
    BY DEF Kept
  <2>11. QED
    BY <2>1, <2>6, <2>8, <2>9, <2>10, KeptQuiet
<1>3. QED
  BY <1>1, <1>2

\* A GPS request is about a time that is not there; the other time is the one of the row.
LEMMA KeptGpsRead ==
  ASSUME TypeInv, Kept, OneByOne, NEW f \in Flight, NEW action \in GpsKinds, GpsRead(f, action)
  PROVE  Kept'
<1> DEFINE r == [status |-> "PENDING", kind |-> action, at |-> now + 1,
                 first |-> IF action = "CLOCK_IN" THEN now + 1 ELSE sheet.first,
                 last |-> IF action = "CLOCK_OUT" THEN now + 1 ELSE sheet.last]
           s == [pc |-> "gps", seen |-> sheet, request |-> r]
<1>1. TypeOK /\ Timed
  BY DEF TypeInv
<1>2. /\ Continue(f, s) /\ Tick
      /\ (action = "CLOCK_IN" /\ sheet.first = 0) \/ (action = "CLOCK_OUT" /\ sheet.last = 0)
  BY DEF GpsRead
<1>3. now + 1 \in Time /\ sheet \in Sheet /\ sheet.first \in Time /\ sheet.last \in Time
  BY <1>1, <1>2, NextTime, RequestsAssumption DEF TypeOK, Sheet, Time
<1>4. r \in Request
  BY <1>3 DEF Request, GpsKinds
<1>5. s \in Flights
  BY <1>3, <1>4 DEF Flights
<1>6. Keeps(r.first, r.last)
  <2>1. ASSUME NEW c \in Recorded, corrections[c].kind = "CLOCK_IN"
        PROVE  r.first # 0 /\ r.first <= corrections[c].at
    <3>1. sheet.first # 0 /\ sheet.first <= corrections[c].at
      BY <2>1 DEF Kept, Keeps
    <3>2. action # "CLOCK_IN"
      BY <1>2, <3>1
    <3>3. QED
      BY <3>1, <3>2
  <2>2. ASSUME NEW c \in Recorded, corrections[c].kind = "CLOCK_OUT"
        PROVE  corrections[c].at <= r.last
    <3>1. corrections[c].at <= sheet.last
      BY <2>2 DEF Kept, Keeps
    <3>2. corrections[c].at # 0 /\ corrections[c].at \in Nat
      <4>1. c \in Correction /\ corrections[c] \in Request \cup {NoRequest}
        BY <1>1 DEF Recorded, TypeOK
      <4>2. corrections[c].at # 0
        BY <1>1, <2>2, <4>1 DEF Timed, GpsKinds
      <4>3. corrections[c].at \in Time
        BY <4>1, RequestsAssumption DEF Request, NoRequest, Time
      <4>4. QED
        BY <4>2, <4>3, RequestsAssumption DEF Time
    <3>3. action # "CLOCK_OUT"
      BY <1>2, <3>1, <3>2
    <3>4. QED
      BY <3>1, <3>3
  <2>3. QED
    BY <2>1, <2>2 DEF Keeps
<1>7. Asked(r)
  BY <1>6 DEF Asked
<1>8. s.pc = "gps" /\ s.request = r
  OBVIOUS
<1>9. /\ events' = events /\ corrections' = corrections /\ adjustments' = adjustments
      /\ sheet' = sheet /\ Keeps(sheet.first, sheet.last)
  BY DEF GpsRead, Kept
<1> HIDE DEF s, r
<1>10. Held(s)
  BY <1>7, <1>8 DEF Held
<1>11. QED
  BY <1>1, <1>2, <1>5, <1>9, <1>10, KeptQuiet

\* Reads of a review or a lock, the lock itself, and requests that end.
LEMMA KeptReads ==
  ASSUME TypeOK, Kept, OneByOne, NEW f \in Flight,
         \/ LockChecks(f) \/ Lock(f) \/ Stop(f)
         \/ \E c \in Correction, decision \in {"APPROVED", "REJECTED"} : ReviewRead(f, c, decision)
  PROVE  Kept'
<1>1. /\ events' = events /\ corrections' = corrections /\ adjustments' = adjustments
  BY DEF LockChecks, Lock, Stop, ReviewRead
<1>2. sheet'.first = sheet.first /\ sheet'.last = sheet.last
  <2>1. sheet' = sheet \/ sheet' = [sheet EXCEPT !.state = "LOCKED", !.closed = TRUE]
    BY DEF LockChecks, Lock, Stop, ReviewRead
  <2>2. QED
    BY <2>1 DEF TypeOK, Sheet
<1>3. PICK s \in {Idle} \cup Flights : Continue(f, s) /\ (s = Idle \/ s.pc \in {"lock", "review"})
  <2>1. CASE Lock(f) \/ Stop(f)
    BY <2>1 DEF Lock, Stop, Finish
  <2>2. CASE LockChecks(f)
    <3>1. Continue(f, [pc |-> "lock"]) /\ [pc |-> "lock"] \in Flights
      BY <2>2 DEF LockChecks, Flights
    <3>2. [pc |-> "lock"].pc = "lock"
      OBVIOUS
    <3>3. QED
      BY <3>1, <3>2
  <2>3. ASSUME NEW c \in Correction, NEW decision \in {"APPROVED", "REJECTED"}, ReviewRead(f, c, decision)
        PROVE  \E s \in {Idle} \cup Flights : Continue(f, s) /\ (s = Idle \/ s.pc \in {"lock", "review"})
    <3>1. Continue(f, [pc |-> "review", correction |-> c, decision |-> decision, seen |-> sheet])
      BY <2>3 DEF ReviewRead
    <3>2. [pc |-> "review", correction |-> c, decision |-> decision, seen |-> sheet] \in Flights
      BY DEF Flights, TypeOK
    <3>3. [pc |-> "review", correction |-> c, decision |-> decision, seen |-> sheet].pc = "review"
      OBVIOUS
    <3>4. QED
      BY <3>1, <3>2, <3>3
  <2>4. QED
    BY <2>1, <2>2, <2>3
<1>4. Held(s)
  BY <1>3, IdlePc DEF Held
<1>5. Keeps(sheet.first, sheet.last)
  BY DEF Kept
<1>6. QED
  BY <1>1, <1>2, <1>3, <1>4, <1>5, KeptQuiet

\* A request that ends was the only one.
LEMMA KeptEnds ==
  ASSUME TypeOK, Kept, NEW f \in Flight, flight[f].pc # "idle", Finish(f),
         Keeps(sheet.first, sheet.last)', HasEvents', \A c \in Pending' : Asked(corrections[c])'
  PROVE  Kept'
<1>1. \A g \in Flight : flight'[g] = Idle
  BY Finished, IdlePc DEF Kept
<1>2. \A g \in Flight : Held(flight[g])'
  BY <1>1, IdlePc DEF Held
<1>3. QED
  BY <1>1, <1>2 DEF Kept

\* A GPS request is written as it was read; it is no approved one.
LEMMA KeptGpsCommit ==
  ASSUME TypeInv, Kept, NEW f \in Flight, NEW c \in Correction, GpsCommit(f, c)
  PROVE  Kept'
<1>1. TypeOK /\ flight[f].pc = "gps" /\ Finish(f) /\ flight[f].pc # "idle"
  BY DEF TypeInv, GpsCommit
<1>2. PICK r : r = flight[f].request /\ Asked(r) /\ r.status = "PENDING"
  <2>1. Held(flight[f]) /\ Sound(flight[f])
    BY DEF Kept, TypeInv
  <2>2. QED
    BY <1>1, <2>1 DEF Held, Sound
<1>3. /\ corrections' = [corrections EXCEPT ![c] = r] /\ corrections[c] = NoRequest
      /\ adjustments' = adjustments /\ events' = events
  BY <1>2 DEF GpsCommit
<1>4. sheet'.first = sheet.first /\ sheet'.last = sheet.last
  BY <1>1 DEF GpsCommit, TypeOK, Sheet
<1>5. corrections'[c] = r /\ \A d \in Correction : d # c => corrections'[d] = corrections[d]
  BY <1>1, <1>3 DEF TypeOK
<1>6. Recorded' = Recorded /\ \A d \in Recorded : corrections'[d] = corrections[d]
  <2>1. corrections[c].status = "NONE"
    BY <1>3 DEF NoRequest
  <2>2. QED
    BY <1>2, <1>3, <1>5, <2>1 DEF Recorded
<1>7. Keeps(sheet.first, sheet.last)'
  BY <1>4, <1>6 DEF Kept, Keeps
<1>8. HasEvents'
  BY <1>3, <1>6 DEF Kept, HasEvents
<1>9. ASSUME NEW d \in Pending'
      PROVE  Asked(corrections[d])'
  <2>1. d \in Correction
    BY DEF Pending
  <2>2. CASE d = c
    BY <1>2, <1>5, <1>6, <2>2 DEF Asked, Keeps
  <2>3. CASE d # c
    <3>1. corrections'[d] = corrections[d] /\ d \in Pending
      BY <1>5, <2>1, <2>3 DEF Pending
    <3>2. Asked(corrections[d])
      BY <3>1 DEF Kept
    <3>3. QED
      BY <1>6, <3>1, <3>2 DEF Asked, Keeps
  <2>4. QED
    BY <2>2, <2>3
<1>10. QED
  BY <1>1, <1>7, <1>8, <1>9, KeptEnds

\* What a decision with its effects does to the row and the log.
LEMMA Approved ==
  ASSUME TypeOK, NEW c \in Correction, NEW decision \in {"APPROVED", "REJECTED"}, NEW seen,
         Effects(c, decision, seen), corrections[c].kind \in GpsKinds
  PROVE  \/ /\ decision = "REJECTED" \/ c \in adjustments'
            /\ UNCHANGED <<events, sheet>> /\ adjustments \subseteq adjustments'
         \/ /\ sheet'.first = corrections[c].first /\ sheet'.last = corrections[c].last
            /\ events' = events \cup {[type |-> corrections[c].kind, at |-> corrections[c].at, source |-> c]}
            /\ adjustments' = adjustments
<1>1. CASE decision = "REJECTED" /\ UNCHANGED <<events, record, sheet, adjustments>>
  BY <1>1
<1>2. CASE ApproveLocked(c, seen)
  BY <1>2 DEF ApproveLocked
<1>3. CASE ApproveOpen(c, seen)
  <2>1. sheet'.first = corrections[c].first /\ sheet'.last = corrections[c].last
    BY <1>3 DEF ApproveOpen, Written, correctedTimesheet
  <2>2. events' = events \cup {[type |-> corrections[c].kind, at |-> corrections[c].at, source |-> c]}
    BY <1>3 DEF ApproveOpen, RecordGpsEvent, GpsKinds
  <2>3. adjustments' = adjustments
    BY <1>3 DEF ApproveOpen
  <2>4. QED
    BY <2>1, <2>2, <2>3
<1>4. QED
  BY <1>1, <1>2, <1>3, EffectsOf

\* A review decides the one request that is pending.
LEMMA KeptReviewCommit ==
  ASSUME Inv, Kept, NEW f \in Flight, ReviewCommit(f)
  PROVE  Kept'
<1>1. TypeOK /\ Fields(flight[f]) /\ Current(flight[f]) /\ AtMostOnePending /\ flight[f].pc = "review"
  BY Kinds DEF Inv, TypeInv, Serial, Decisions, ReviewCommit
<1>2. PICK c \in Correction, decision \in {"APPROVED", "REJECTED"}, seen \in Sheet :
        /\ corrections' = Decided(c, decision) /\ Effects(c, decision, seen)
        /\ corrections[c].status = "PENDING"
  BY <1>1 DEF Fields, ReviewCommit, Current
<1>3. c \in Pending /\ Pending = {c} /\ Asked(corrections[c])
  BY <1>1, <1>2 DEF Pending, AtMostOnePending, Kept
<1>4. PICK r : r = corrections[c] /\ Asked(r)
  BY <1>3
<1>5. /\ corrections'[c].kind = r.kind /\ corrections'[c].at = r.at /\ corrections'[c].status = decision
      /\ \A d \in Correction : d # c => corrections'[d] = corrections[d]
  BY <1>1, <1>2, <1>4, DecidedRows
<1>6. Pending' = {}
  BY <1>3, <1>5 DEF Pending
<1>7. CASE /\ decision = "REJECTED" \/ c \in adjustments'
           /\ UNCHANGED <<events, sheet>> /\ adjustments \subseteq adjustments'
  <2>1. \A d \in Recorded' : d \in Recorded /\ corrections'[d] = corrections[d]
    BY <1>5, <1>7 DEF Recorded
  <2>2. Keeps(sheet.first, sheet.last)' /\ HasEvents'
    BY <1>7, <2>1 DEF Kept, Keeps, HasEvents
  <2>3. QED
    BY <1>1, <1>6, <2>2, KeptEnds DEF ReviewCommit
<1>8. CASE /\ sheet'.first = r.first /\ sheet'.last = r.last
           /\ events' = events \cup {[type |-> r.kind, at |-> r.at, source |-> c]}
           /\ adjustments' = adjustments
  <2>1. \A d \in Recorded' : d = c \/ (d \in Recorded /\ corrections'[d] = corrections[d])
    BY <1>5, <1>8 DEF Recorded
  <2>2. r.kind = "CLOCK_IN" => r.first = r.at /\ r.at # 0 /\ r.at <= r.at
    <3>1. r.at # 0 /\ r.at \in Nat
      <4>1. r.at # 0
        BY <1>4 DEF Inv, TypeInv, Timed, Asked
      <4>2. r \in Request \cup {NoRequest}
        BY <1>1, <1>4 DEF TypeOK
      <4>3. r.at \in Time
        BY <4>2, RequestsAssumption DEF Request, NoRequest, Time
      <4>4. QED
        BY <4>1, <4>3, RequestsAssumption DEF Time
    <3>2. QED
      BY <1>4, <3>1 DEF Asked
  <2>3. r.kind = "CLOCK_OUT" => r.at <= r.last
    <3>1. r \in Request \cup {NoRequest}
      BY <1>1, <1>4 DEF TypeOK
    <3>2. r.at \in Time
      BY <3>1, RequestsAssumption DEF Request, NoRequest, Time
    <3>3. QED
      BY <1>4, <3>2, RequestsAssumption DEF Asked, Time
  <2>4. Keeps(sheet.first, sheet.last)'
    <3>1. ASSUME NEW d \in Recorded'
          PROVE  /\ corrections'[d].kind = "CLOCK_IN" => r.first # 0 /\ r.first <= corrections'[d].at
                 /\ corrections'[d].kind = "CLOCK_OUT" => corrections'[d].at <= r.last
      <4>1. CASE d = c
        BY <1>5, <2>2, <2>3, <4>1
      <4>2. CASE d \in Recorded /\ corrections'[d] = corrections[d]
        BY <1>4, <4>2 DEF Asked, Keeps
      <4>3. QED
        BY <2>1, <4>1, <4>2
    <3>2. QED
      BY <1>8, <3>1 DEF Keeps
  <2>5. HasEvents'
    BY <1>5, <1>8, <2>1 DEF Kept, HasEvents
  <2>6. QED
    BY <1>1, <1>6, <2>4, <2>5, KeptEnds DEF ReviewCommit
<1>9. QED
  <2>1. r.kind \in GpsKinds
    BY <1>4 DEF Asked
  <2>2. QED
    BY <1>1, <1>2, <1>4, <1>7, <1>8, <2>1, Approved

\* Every step of "reviews" keeps what was approved.
LEMMA KeptNext ==
  ASSUME Inv, Kept, [Next]_vars, OneByOne \/ UNCHANGED vars
  PROVE  Kept'
<1>1. TypeInv /\ TypeOK
  BY DEF Inv, TypeInv
<1>2. CASE UNCHANGED vars
  <2>1. Recorded' = Recorded /\ Pending' = Pending
    BY <1>2 DEF vars, Recorded, Pending
  <2>2. \A f \in Flight : Held(flight[f])'
    BY <1>2, <2>1 DEF vars, Kept, Held, Asked, Keeps
  <2>3. Keeps(sheet.first, sheet.last)' /\ HasEvents'
    BY <1>2, <2>1 DEF vars, Kept, Keeps, HasEvents
  <2>4. \A c \in Pending' : Asked(corrections[c])'
    BY <1>2, <2>1 DEF vars, Kept, Asked, Keeps
  <2>5. QED
    BY <1>2, <2>2, <2>3, <2>4 DEF vars, Kept
<1>3. CASE ~ UNCHANGED vars
  <2>1. OneByOne /\ Next
    BY <1>3
  <2>2. ASSUME NEW f \in Flight, ClockCommit(f) \/ \E type \in EventType : ClockRead(f, type) PROVE Kept'
    BY <1>1, <2>1, <2>2, KeptClock
  <2>3. ASSUME NEW f \in Flight, NEW action \in {"CLOCK_IN", "CLOCK_OUT"}, GpsRead(f, action) PROVE Kept'
    BY <1>1, <2>1, <2>3, KeptGpsRead DEF GpsKinds
  <2>4. ASSUME NEW f \in Flight,
               \/ LockChecks(f) \/ Lock(f) \/ Stop(f)
               \/ \E c \in Correction, decision \in {"APPROVED", "REJECTED"} : ReviewRead(f, c, decision)
        PROVE  Kept'
    BY <1>1, <2>1, <2>4, KeptReads
  <2>5. ASSUME NEW f \in Flight, NEW c \in Correction, GpsCommit(f, c) PROVE Kept'
    BY <1>1, <2>5, KeptGpsCommit
  <2>6. ASSUME NEW f \in Flight, ReviewCommit(f) PROVE Kept'
    BY <2>6, KeptReviewCommit
  <2>7. ASSUME NEW f \in Flight, EditRead(f) PROVE FALSE
    <3>1. PICK first \in {0, 1}, last \in {0, 1} : Continue(f, [pc |-> "edit", first |-> first, last |-> last])
      BY <2>7 DEF EditRead
    <3>2. flight'[f].pc = "edit"
      BY <1>1, <3>1 DEF Continue, TypeOK
    <3>3. QED
      BY <2>1, <3>2 DEF OneByOne
  <2>8. ASSUME NEW f \in Flight, NEW type \in {"CLOCK_IN", "CLOCK_OUT"}, LegacyRead(f, type) PROVE FALSE
    <3>1. flight'[f].pc = "v1 record"
      BY <1>1, <2>8 DEF LegacyRead, Continue, TypeOK
    <3>2. QED
      BY <2>1, <3>1 DEF OneByOne
  <2>9. ASSUME NEW f \in Flight,
               \/ LegacyRecord(f) \/ LegacyReread(f) \/ LegacyEvent(f) \/ LegacyEvents(f) \/ LegacySheet(f)
               \/ \E c \in Correction : EditCreate(f, c)
        PROVE  FALSE
    <3>1. flight[f].pc \in {"idle", "clock", "gps", "review", "lock"}
      BY DEF Kept, Held
    <3>2. QED
      BY <2>9, <3>1 DEF LegacyRecord, LegacyReread, LegacyEvent, LegacyEvents, LegacySheet, EditCreate
  <2>10. QED
    BY <2>1, <2>2, <2>3, <2>4, <2>5, <2>6, <2>7, <2>8, <2>9 DEF Next
<1>4. QED
  BY <1>2, <1>3

\* At first nothing is approved.
LEMMA KeptInit == Init => Kept
<1> SUFFICES ASSUME Init PROVE Kept
  OBVIOUS
<1>1. Recorded = {} /\ Pending = {}
  BY DEF Init, Recorded, Pending, NoRequest
<1>2. \A f \in Flight : Held(flight[f])
  BY IdlePc DEF Init, Held
<1>3. QED
  BY <1>1, <1>2 DEF Init, Kept, Keeps, HasEvents

\* While requests come one at a time, nobody edits times and nobody uses the v1 clock, the day
\* keeps counting an approved GPS request: every later write of the row was calculated from the
\* event of the approval, or repeats its time.
THEOREM ApprovalsStayHolds ==
  ASSUME CoordinatorSerializes
  PROVE  Suite => []ApprovalsStay
<1> DEFINE Stays == Inv /\ (part = "reviews" => Kept)
<1>1. SuiteInit => Stays
  BY InvInit, KeptInit DEF SuiteInit
<1>2. Stays /\ [SuiteNext]_suiteVars => Stays'
  <2> SUFFICES ASSUME Stays, [SuiteNext]_suiteVars PROVE Stays'
    OBVIOUS
  <2>1. [Next]_vars /\ part' = part /\ (part = "reviews" => OneByOne \/ UNCHANGED vars)
    BY DEF SuiteNext, suiteVars
  <2>2. Inv'
    BY <2>1, InvNext
  <2>3. QED
    BY <2>1, <2>2, KeptNext
<1>3. Stays => ApprovalsStay
  <2> SUFFICES ASSUME Inv, Kept PROVE ApprovedTimesAreKept
    BY DEF ApprovalsStay
  <2>1. ASSUME NEW c \in Correction, corrections[c].kind = "CLOCK_OUT", corrections[c].at <= sheet.last
        PROVE  sheet.last >= corrections[c].at
    <3>1. TypeOK
      BY DEF Inv, TypeInv
    <3>2. corrections[c] \in Request \cup {NoRequest} /\ sheet \in Sheet
      BY <3>1 DEF TypeOK
    <3>3. corrections[c].at \in Int /\ sheet.last \in Int
      BY <3>2, RequestsAssumption DEF Request, NoRequest, Sheet, Time
    <3>4. QED
      BY <2>1, <3>3
  <2>2. QED
    BY <2>1 DEF ApprovedTimesAreKept, Kept, Keeps, Recorded
<1> HIDE DEF Stays
<1>4. QED
  BY <1>1, <1>2, <1>3, PTL DEF Suite

-----------------------------------------------------------------------------
(* The page in front of the clock (ClockClient), on either network.        *)

PageDay == IF part = "reliable" THEN 1..1 ELSE 1..2

PageEvent == [type : EventType, day : PageDay, key : Correction, at : 1..MaxTime]

PageSheet == [state : SheetState, codes : SUBSET ExceptionCode, basis : SUBSET PageEvent]

PageBatch == [pc : {"clock"}, event : PageEvent, found : Lossy!RecordStatus, row : PageSheet]

\* The types of both parts, whose days differ; the page clocks, and waits for no GPS batch.
PageTypes ==
  /\ pageEvents \subseteq PageEvent
  /\ pageRecord \in [PageDay -> Lossy!RecordStatus]
  /\ pageSheet \in [PageDay -> PageSheet \cup {Lossy!NoSheet}]
  /\ today \in PageDay
  /\ pageNow \in 0..MaxTime
  /\ handler \in [Flight -> {Idle} \cup PageBatch]
  /\ page \in Lossy!Page
  /\ pending \in [EventType -> Correction \cup {NoKey}]
  /\ made \subseteq Correction /\ acked \subseteq made
  /\ waiting \in Flight \cup {NoHandler}
  /\ request \in [Flight -> Lossy!Request \cup {Lossy!None}]

\* The key k stands for an action of this type, with the client, on the network or in a row.
StandsFor(k, type) ==
  \/ pending[type] = k
  \/ \E h \in Flight : request[h].at # "none" /\ request[h].key = k /\ request[h].type = type
  \/ \E e \in pageEvents : e.key = k /\ e.type = type

\* A key stands for one action, which is acknowledged or pending.
KeysAreActions ==
  /\ \A k \in Correction, type \in EventType : StandsFor(k, type) =>
       /\ k \in made /\ (k \in acked \/ pending[type] = k)
       /\ \A other \in EventType : StandsFor(k, other) => other = type
  /\ \A type \in EventType : pending[type] \notin acked

\* An answer has its event, a batch its request, and the page waits for what it last sent.
AnswersAreEvents ==
  /\ \A e, f \in pageEvents : e.key = f.key => e = f
  /\ \A h \in Flight : request[h].at = "answered" =>
       \E e \in pageEvents : e.key = request[h].key /\ e.type = request[h].type
  /\ \A h \in Flight : handler[h] # Idle =>
       /\ request[h].at = "server"
       /\ handler[h].event.key = request[h].key /\ handler[h].event.type = request[h].type
  /\ waiting # NoHandler =>
       request[waiting].at # "none" /\ pending[request[waiting].type] = request[waiting].key

PageInv == PageTypes /\ KeysAreActions /\ AnswersAreEvents

\* The record that goes with the last action.
RecordOf(type) ==
  IF type = "NONE" THEN "NONE" ELSE IF type = "CLOCK_OUT" THEN "CLOCKED_OUT" ELSE "CLOCKED_IN"

\* On the reliable network one request is under way, and the page is up to date but for it.
UpToDate ==
  /\ \A h \in Flight : request[h] # Lossy!None => h = waiting
  /\ \A e \in pageEvents : e.at <= pageNow
  /\ pageRecord[1] = RecordOf(Lossy!LatestType)
  /\ page # Lossy!Loaded => \E h \in Flight : request[h].at = "answered"
  /\ \A h \in Flight : request[h].at = "answered" => request[h].attendance = pageRecord[1]
  /\ \A h \in Flight : handler[h] # Idle =>
       /\ Lossy!transitionAllowed(Lossy!LatestType, handler[h].event.type)
       /\ handler[h].found = pageRecord[1]
       /\ \A e \in pageEvents : e.at < handler[h].event.at
       /\ handler[h].event.at <= pageNow

\* The names of the instance are those of the rules that both extend.
LEMMA PageNames ==
  /\ Lossy!EventType = EventType /\ Lossy!SheetState = SheetState /\ Lossy!ExceptionCode = ExceptionCode
  /\ Lossy!Idle = Idle
BY DEF Lossy!EventType, EventType, Lossy!SheetState, SheetState, Lossy!ExceptionCode, ExceptionCode,
       Lossy!PairingCodes, PairingCodes, Lossy!ScheduleAndHoursCodes, ScheduleAndHoursCodes, Lossy!Idle, Idle

\* There is a day, and time has its bound.
LEMMA PageDays == 1 \in PageDay /\ PageDay \subseteq Nat /\ MaxTime \in Nat
BY RequestsAssumption DEF PageDay

\* A request that is there has its fields.
LEMMA PageRequest ==
  ASSUME PageTypes, NEW h \in Flight, request[h].at # "none"
  PROVE  /\ request[h] \in Lossy!Request /\ request[h].at \in {"sent", "server", "refused", "answered"}
         /\ request[h].type \in EventType /\ request[h].key \in Correction
<1>1. request[h] \in Lossy!Request
  BY DEF PageTypes, Lossy!None
<1>2. QED
  BY <1>1, PageNames DEF Lossy!Request

\* The network changes the request of h.
LEMMA PageSends ==
  ASSUME PageTypes, NEW h \in Flight, NEW q \in Lossy!Request \cup {Lossy!None},
         request' = [request EXCEPT ![h] = q]
  PROVE  /\ request' \in [Flight -> Lossy!Request \cup {Lossy!None}]
         /\ request'[h] = q /\ \A g \in Flight : g # h => request'[g] = request[g]
<1> DEFINE T == Lossy!Request \cup {Lossy!None}
<1>1. request \in [Flight -> T]
  BY DEF PageTypes
<1> HIDE DEF T
<1>2. q \in T
  BY DEF T
<1>3. request' \in [Flight -> T] /\ request'[h] = q /\ \A g \in Flight : g # h => request'[g] = request[g]
  BY <1>1, <1>2
<1>4. QED
  BY <1>3 DEF T

\* The server goes on with the request of h.
LEMMA PageServes ==
  ASSUME PageTypes, NEW h \in Flight, NEW b \in {Idle} \cup PageBatch, handler' = [handler EXCEPT ![h] = b]
  PROVE  /\ handler' \in [Flight -> {Idle} \cup PageBatch]
         /\ handler'[h] = b /\ \A g \in Flight : g # h => handler'[g] = handler[g]
<1> DEFINE T == {Idle} \cup PageBatch
<1>1. handler \in [Flight -> T]
  BY DEF PageTypes
<1> HIDE DEF T
<1>2. b \in T
  BY DEF T
<1>3. handler' \in [Flight -> T] /\ handler'[h] = b /\ \A g \in Flight : g # h => handler'[g] = handler[g]
  BY <1>1, <1>2
<1>4. QED
  BY <1>3 DEF T

\* A step of the request of h that leaves the keys of the client as they are.
LEMMA PageMoves ==
  ASSUME PageTypes, KeysAreActions, AnswersAreEvents, NEW h \in Flight,
         UNCHANGED <<pending, made, acked>>,
         \A g \in Flight : g # h => request'[g] = request[g] /\ handler'[g] = handler[g],
         request'[h].at # "none" =>
           request[h].at # "none" /\ request'[h].key = request[h].key /\ request'[h].type = request[h].type,
         pageEvents \subseteq pageEvents',
         \A e \in pageEvents' \ pageEvents :
           request[h].at # "none" /\ e.key = request[h].key /\ e.type = request[h].type,
         \A e, f \in pageEvents' : e.key = f.key => e = f,
         request'[h].at = "answered" =>
           \E e \in pageEvents' : e.key = request'[h].key /\ e.type = request'[h].type,
         handler'[h] # Idle =>
           /\ request'[h].at = "server"
           /\ handler'[h].event.key = request'[h].key /\ handler'[h].event.type = request'[h].type,
         waiting' \in {waiting, NoHandler}, request'[h].at = "none" => waiting' # h,
         waiting \in Flight \cup {NoHandler}
  PROVE  KeysAreActions' /\ AnswersAreEvents'
<1>1. ASSUME NEW k \in Correction, NEW type \in EventType, StandsFor(k, type)'
      PROVE  StandsFor(k, type)
  <2>1. CASE pending'[type] = k
    BY <2>1 DEF StandsFor
  <2>2. ASSUME NEW g \in Flight, request'[g].at # "none", request'[g].key = k, request'[g].type = type
        PROVE  StandsFor(k, type)
    <3>1. request[g].at # "none" /\ request[g].key = k /\ request[g].type = type
      BY <2>2
    <3>2. QED
      BY <3>1 DEF StandsFor
  <2>3. ASSUME NEW e \in pageEvents', e.key = k, e.type = type
        PROVE  StandsFor(k, type)
    <3>1. CASE e \in pageEvents
      BY <2>3, <3>1 DEF StandsFor
    <3>2. CASE e \notin pageEvents
      <4>1. request[h].at # "none" /\ request[h].key = k /\ request[h].type = type
        BY <2>3, <3>2
      <4>2. QED
        BY <4>1 DEF StandsFor
    <3>3. QED
      BY <3>1, <3>2
  <2>4. QED
    BY <1>1, <2>1, <2>2, <2>3 DEF StandsFor
<1>2. KeysAreActions'
  BY <1>1 DEF KeysAreActions
<1>3. \A g \in Flight : request'[g].at = "answered" =>
        \E e \in pageEvents' : e.key = request'[g].key /\ e.type = request'[g].type
  <2> SUFFICES ASSUME NEW g \in Flight, g # h, request'[g].at = "answered"
               PROVE  \E e \in pageEvents' : e.key = request'[g].key /\ e.type = request'[g].type
    OBVIOUS
  <2>1. request'[g] = request[g]
    OBVIOUS
  <2>2. \E e \in pageEvents : e.key = request[g].key /\ e.type = request[g].type
    BY <2>1 DEF AnswersAreEvents
  <2>3. QED
    BY <2>1, <2>2
<1>4. \A g \in Flight : handler'[g] # Idle =>
        /\ request'[g].at = "server"
        /\ handler'[g].event.key = request'[g].key /\ handler'[g].event.type = request'[g].type
  <2> SUFFICES ASSUME NEW g \in Flight, g # h, handler'[g] # Idle
               PROVE  /\ request'[g].at = "server"
                      /\ handler'[g].event.key = request'[g].key /\ handler'[g].event.type = request'[g].type
    OBVIOUS
  <2>1. request'[g] = request[g] /\ handler'[g] = handler[g]
    OBVIOUS
  <2>2. QED
    BY <2>1 DEF AnswersAreEvents
<1>5. waiting' # NoHandler =>
        request'[waiting'].at # "none" /\ pending'[request'[waiting'].type] = request'[waiting'].key
  <2> SUFFICES ASSUME waiting' # NoHandler
               PROVE  request'[waiting'].at # "none" /\ pending'[request'[waiting'].type] = request'[waiting'].key
    OBVIOUS
  <2>1. waiting' = waiting /\ waiting \in Flight
    OBVIOUS
  <2>2. request[waiting].at # "none" /\ pending[request[waiting].type] = request[waiting].key
    BY <2>1 DEF AnswersAreEvents
  <2>3. CASE waiting = h
    <3>1. request'[h].at # "none" /\ request'[h].key = request[h].key /\ request'[h].type = request[h].type
      BY <2>1, <2>3
    <3>2. QED
      BY <2>1, <2>2, <2>3, <3>1
  <2>4. CASE waiting # h
    <3>1. request'[waiting] = request[waiting]
      BY <2>1, <2>4
    <3>2. QED
      BY <2>1, <2>2, <3>1
  <2>5. QED
    BY <2>3, <2>4
<1>6. AnswersAreEvents'
  BY <1>3, <1>4, <1>5 DEF AnswersAreEvents
<1>7. QED
  BY <1>2, <1>6

\* Some of the events have a latest one.
LEMMA LatestPageEvent ==
  ASSUME NEW R \in SUBSET PageEvent, R # {}
  PROVE  \E e \in R : \A f \in R : f.at <= e.at
<1> DEFINE times == {e.at : e \in R}
<1>1. times \in SUBSET (0..MaxTime) /\ times # {}
  BY PageDays DEF PageEvent
<1>2. PICK t \in times : \A u \in times : u <= t
  <2> HIDE DEF times
  <2>1. QED
    BY <1>1, PageDays, LatestTime
<1>3. QED
  BY <1>2

\* The last event of today is one, if there is any.
LEMMA PageLast ==
  ASSUME PageTypes
  PROVE  /\ Lossy!LastToday \in EventType \cup {"NONE"}
         /\ pageEvents = {} => Lossy!LatestType = "NONE"
         /\ pageEvents # {} => /\ Lossy!Latest \in pageEvents /\ Lossy!LatestType = Lossy!Latest.type
                               /\ \A f \in pageEvents : f.at <= Lossy!Latest.at
<1>1. pageEvents \in SUBSET PageEvent
  BY DEF PageTypes
<1>2. ASSUME NEW R \in SUBSET PageEvent, R # {}
      PROVE  LET last == CHOOSE e \in R : \A f \in R : f.at <= e.at
             IN last \in R /\ \A f \in R : f.at <= last.at
  BY <1>2, LatestPageEvent
<1>3. Lossy!LastToday \in EventType \cup {"NONE"}
  <2> DEFINE R == Lossy!DayEvents(today)
  <2>1. R \in SUBSET PageEvent
    BY <1>1 DEF Lossy!DayEvents
  <2> HIDE DEF R
  <2>2. Lossy!LastToday =
          IF R = {} THEN "NONE" ELSE (CHOOSE e \in R : \A f \in R : f.at <= e.at).type
    BY DEF Lossy!LastToday, R
  <2>3. CASE R # {}
    <3>1. PICK last \in R : last = CHOOSE e \in R : \A f \in R : f.at <= e.at
      BY <1>2, <2>1, <2>3
    <3>2. QED
      BY <2>1, <2>2, <2>3, <3>1 DEF PageEvent
  <2>4. QED
    BY <2>2, <2>3
<1>4. QED
  BY <1>1, <1>2, <1>3 DEF Lossy!LatestType, Lossy!Latest

\* What the client does alone leaves the tables and the handlers as they are.
PageQuiet == UNCHANGED <<part, pageEvents, pageRecord, pageSheet, today, pageNow, handler>>

\* act and eventRequest: a new key, or the pending one of the same action.
LEMMA PageAct ==
  ASSUME PageInv, part' = part, NEW h \in Flight, NEW type \in EventType, NEW key \in Correction,
         Lossy!Act(h, type, key)
  PROVE  PageInv'
<1>1. PageTypes /\ KeysAreActions /\ AnswersAreEvents /\ NoKey \notin Correction /\ NoHandler \notin Flight
  BY PageParameters DEF PageInv, Lossy!Parameters
<1>2. /\ waiting = NoHandler /\ request[h] = Lossy!None /\ handler[h] = Idle
      /\ IF pending[type] = NoKey THEN key \notin made ELSE key = pending[type]
      /\ pending' = [pending EXCEPT ![type] = key] /\ made' = made \cup {key}
      /\ waiting' = h /\ UNCHANGED <<page, acked>> /\ PageQuiet
  BY PageNames DEF Lossy!Act, Lossy!PendingKey, PageQuiet, Lossy!tables
<1>3. PICK q \in Lossy!Request : /\ q.at = "sent" /\ q.type = type /\ q.key = key
                                 /\ request' = [request EXCEPT ![h] = q]
  <2>1. [at |-> "sent", type |-> type, key |-> key] \in Lossy!Request
    BY PageNames DEF Lossy!Request
  <2>2. /\ [at |-> "sent", type |-> type, key |-> key].at = "sent"
        /\ [at |-> "sent", type |-> type, key |-> key].type = type
        /\ [at |-> "sent", type |-> type, key |-> key].key = key
    OBVIOUS
  <2>3. QED
    BY <2>1, <2>2 DEF Lossy!Act
<1>4. /\ request' \in [Flight -> Lossy!Request \cup {Lossy!None}]
      /\ request'[h] = q /\ \A g \in Flight : g # h => request'[g] = request[g]
  BY <1>1, <1>3, PageSends
<1>5. pending' \in [EventType -> Correction \cup {NoKey}]
  BY <1>1, <1>2 DEF PageTypes
<1>6. pending'[type] = key /\ \A t \in EventType : t # type => pending'[t] = pending[t]
  BY <1>1, <1>2 DEF PageTypes
<1>7. PageTypes'
  BY <1>1, <1>2, <1>4, <1>5 DEF PageTypes, PageQuiet, PageDay, PageEvent, PageSheet, PageBatch
<1>8. \A k \in Correction, t \in EventType : StandsFor(k, t)' => StandsFor(k, t) \/ (k = key /\ t = type)
  <2> SUFFICES ASSUME NEW k \in Correction, NEW t \in EventType, StandsFor(k, t)', ~(k = key /\ t = type)
               PROVE  StandsFor(k, t)
    OBVIOUS
  <2>1. CASE pending'[t] = k
    <3>1. pending[t] = k
      BY <1>6, <2>1
    <3>2. QED
      BY <3>1 DEF StandsFor
  <2>2. ASSUME NEW g \in Flight, request'[g].at # "none", request'[g].key = k, request'[g].type = t
        PROVE  StandsFor(k, t)
    <3>1. g # h
      BY <1>3, <1>4, <2>2
    <3>2. request'[g] = request[g]
      BY <1>4, <3>1
    <3>3. QED
      BY <2>2, <3>2 DEF StandsFor
  <2>3. CASE \E e \in pageEvents : e.key = k /\ e.type = t
    BY <2>3 DEF StandsFor
  <2>4. QED
    BY <1>2, <2>1, <2>2, <2>3 DEF StandsFor, PageQuiet
<1>9. ASSUME pending[type] = NoKey
      PROVE  KeysAreActions'
  <2>1. key \notin made /\ \A t \in EventType : ~StandsFor(key, t)
    BY <1>1, <1>2, <1>9 DEF KeysAreActions
  <2>2. ASSUME NEW k \in Correction, NEW t \in EventType, StandsFor(k, t)'
        PROVE  /\ k \in made' /\ (k \in acked' \/ pending'[t] = k)
               /\ \A u \in EventType : StandsFor(k, u)' => u = t
    <3>1. CASE k = key
      <4>1. \A u \in EventType : StandsFor(k, u)' => u = type
        BY <1>8, <2>1, <3>1
      <4>2. QED
        BY <1>2, <1>6, <2>2, <3>1, <4>1
    <3>2. CASE k # key
      <4>1. StandsFor(k, t) /\ \A u \in EventType : StandsFor(k, u)' => StandsFor(k, u)
        BY <1>8, <2>2, <3>2
      <4>2. /\ k \in made /\ (k \in acked \/ pending[t] = k)
            /\ \A u \in EventType : StandsFor(k, u) => u = t
        BY <1>1, <4>1 DEF KeysAreActions
      <4>3. pending[t] = k => t # type
        BY <1>1, <1>9
      <4>4. QED
        BY <1>2, <1>6, <4>1, <4>2, <4>3
    <3>3. QED
      BY <3>1, <3>2
  <2>3. \A t \in EventType : pending'[t] \notin acked'
    <3>1. key \notin acked
      BY <1>1, <2>1 DEF PageTypes
    <3>2. QED
      BY <1>1, <1>2, <1>6, <3>1 DEF KeysAreActions
  <2>4. QED
    BY <2>2, <2>3 DEF KeysAreActions
<1>10. ASSUME pending[type] # NoKey
       PROVE  KeysAreActions'
  <2>1. key = pending[type] /\ pending' = pending
    BY <1>1, <1>2, <1>10 DEF PageTypes
  <2>2. StandsFor(key, type)
    BY <2>1 DEF StandsFor
  <2>3. \A k \in Correction, t \in EventType : StandsFor(k, t)' => StandsFor(k, t)
    BY <1>8, <2>2
  <2>4. made' = made
    BY <1>1, <1>2, <2>2 DEF KeysAreActions
  <2>5. QED
    BY <1>1, <1>2, <2>1, <2>3, <2>4 DEF KeysAreActions
<1>11. AnswersAreEvents'
  <2>1. \A g \in Flight : request'[g].at = "answered" =>
          \E e \in pageEvents : e.key = request'[g].key /\ e.type = request'[g].type
    <3> SUFFICES ASSUME NEW g \in Flight, request'[g].at = "answered"
                 PROVE  \E e \in pageEvents : e.key = request'[g].key /\ e.type = request'[g].type
      OBVIOUS
    <3>1. g # h
      BY <1>3, <1>4
    <3>2. request'[g] = request[g]
      BY <1>4, <3>1
    <3>3. QED
      BY <1>1, <3>2 DEF AnswersAreEvents
  <2>2. \A g \in Flight : handler[g] # Idle =>
          /\ request'[g].at = "server"
          /\ handler[g].event.key = request'[g].key /\ handler[g].event.type = request'[g].type
    <3> SUFFICES ASSUME NEW g \in Flight, handler[g] # Idle
                 PROVE  /\ request'[g].at = "server"
                        /\ handler[g].event.key = request'[g].key /\ handler[g].event.type = request'[g].type
      OBVIOUS
    <3>1. g # h
      BY <1>2
    <3>2. request'[g] = request[g]
      BY <1>4, <3>1
    <3>3. QED
      BY <1>1, <3>2 DEF AnswersAreEvents
  <2>3. request'[waiting'].at # "none" /\ pending'[request'[waiting'].type] = request'[waiting'].key
    BY <1>2, <1>3, <1>4, <1>6
  <2>4. QED
    BY <1>1, <1>2, <2>1, <2>2, <2>3 DEF AnswersAreEvents, PageQuiet
<1>12. QED
  BY <1>2, <1>7, <1>9, <1>10, <1>11 DEF PageInv, PageQuiet

\* What the page awaits is what it keeps the key of.
LEMMA PageReceive ==
  ASSUME PageInv, part' = part, NEW h \in Flight, Lossy!Receive(h)
  PROVE  PageInv'
<1>1. PageTypes /\ KeysAreActions /\ AnswersAreEvents /\ NoKey \notin Correction /\ NoHandler \notin Flight
  BY PageParameters DEF PageInv, Lossy!Parameters
<1>2. /\ waiting = h /\ request[h].at \in {"answered", "refused"} /\ waiting' = NoHandler
      /\ request' = [request EXCEPT ![h] = Lossy!None] /\ made' = made /\ PageQuiet
  BY DEF Lossy!Receive, PageQuiet, Lossy!tables
<1>3. PICK key, type : key = request[h].key /\ type = request[h].type
  OBVIOUS
<1>4. request[h].at # "none" /\ request[h] \in Lossy!Request /\ type \in EventType /\ key \in Correction
  <2>1. request[h].at # "none"
    BY <1>2
  <2>2. QED
    BY <1>1, <1>3, <2>1, PageRequest
<1>5. pending[type] = key
  BY <1>1, <1>2, <1>3 DEF AnswersAreEvents
<1>6. \/ pending' = pending /\ acked' = acked /\ page' = page
      \/ /\ pending' = [pending EXCEPT ![type] = NoKey] /\ acked' = acked \cup {key}
         /\ page' = Lossy!PageAfter(request[h].attendance)
              \/ page' = [page EXCEPT !.attendance = request[h].attendance]
         /\ request[h].at = "answered"
  BY <1>3 DEF Lossy!Receive, Lossy!PendingAfter
<1>7. /\ request' \in [Flight -> Lossy!Request \cup {Lossy!None}]
      /\ request'[h] = Lossy!None /\ \A g \in Flight : g # h => request'[g] = request[g]
  BY <1>1, <1>2, PageSends
<1>8. Lossy!None.at = "none"
  BY DEF Lossy!None
<1>9. key \in made
  BY <1>1, <1>3, <1>4 DEF KeysAreActions, StandsFor
<1>10. pending' \in [EventType -> Correction \cup {NoKey}] /\ acked' \subseteq made'
  BY <1>1, <1>2, <1>6, <1>9 DEF PageTypes
<1>11. page' \in Lossy!Page
  <2>1. CASE request[h].at = "answered" /\ Lossy!LastToday \in EventType \cup {"NONE"}
    <3>1. request[h].attendance \in Lossy!RecordStatus
      BY <1>4, <2>1 DEF Lossy!Request
    <3>2. QED
      BY <1>1, <1>6, <2>1, <3>1, PageNames DEF PageTypes, Lossy!Page, Lossy!PageAfter
  <2>2. Lossy!LastToday \in EventType \cup {"NONE"}
    BY <1>1, PageLast
  <2>3. QED
    BY <1>1, <1>6, <2>1, <2>2 DEF PageTypes
<1>12. PageTypes'
  BY <1>1, <1>2, <1>7, <1>10, <1>11 DEF PageTypes, PageQuiet, PageDay, PageEvent, PageSheet, PageBatch
<1>13. \A k \in Correction, t \in EventType : StandsFor(k, t)' => StandsFor(k, t)
  <2> SUFFICES ASSUME NEW k \in Correction, NEW t \in EventType, StandsFor(k, t)'
               PROVE  StandsFor(k, t)
    OBVIOUS
  <2>1. CASE pending'[t] = k
    <3>1. pending[t] = k
      BY <1>1, <1>6, <2>1 DEF PageTypes
    <3>2. QED
      BY <3>1 DEF StandsFor
  <2>2. ASSUME NEW g \in Flight, request'[g].at # "none", request'[g].key = k, request'[g].type = t
        PROVE  StandsFor(k, t)
    <3>1. request'[g] = request[g]
      BY <1>7, <1>8, <2>2
    <3>2. QED
      BY <2>2, <3>1 DEF StandsFor
  <2>3. CASE \E e \in pageEvents : e.key = k /\ e.type = t
    BY <2>3 DEF StandsFor
  <2>4. QED
    BY <1>2, <2>1, <2>2, <2>3 DEF StandsFor, PageQuiet
<1>14. KeysAreActions'
  <2>1. CASE pending' = pending /\ acked' = acked
    BY <1>1, <1>2, <1>13, <2>1 DEF KeysAreActions
  <2>2. CASE pending' = [pending EXCEPT ![type] = NoKey] /\ acked' = acked \cup {key}
    <3>1. pending'[type] = NoKey /\ \A t \in EventType : t # type => pending'[t] = pending[t]
      BY <1>1, <1>4, <2>2 DEF PageTypes
    <3>2. ASSUME NEW k \in Correction, NEW t \in EventType, StandsFor(k, t)
          PROVE  k \in made' /\ (k \in acked' \/ pending'[t] = k)
      BY <1>1, <1>2, <1>5, <2>2, <3>1, <3>2 DEF KeysAreActions
    <3>3. ASSUME NEW t \in EventType, pending'[t] \in acked'
          PROVE  FALSE
      <4>1. t # type
        BY <1>1, <1>4, <2>2, <3>1, <3>3 DEF PageTypes
      <4>2. pending[t] = key
        BY <1>1, <2>2, <3>1, <3>3, <4>1 DEF KeysAreActions
      <4>3. StandsFor(key, t) /\ StandsFor(key, type)
        BY <1>5, <4>2 DEF StandsFor
      <4>4. QED
        BY <1>1, <1>4, <4>1, <4>3 DEF KeysAreActions
    <3>4. QED
      BY <1>1, <1>13, <3>2, <3>3 DEF KeysAreActions
  <2>3. QED
    BY <1>6, <2>1, <2>2
<1>15. AnswersAreEvents'
  <2>1. ASSUME NEW g \in Flight, request'[g].at # "none"
        PROVE  request'[g] = request[g]
    BY <1>7, <1>8, <2>1
  <2>2. ASSUME NEW g \in Flight, handler[g] # Idle
        PROVE  request'[g] = request[g]
    <3>1. g # h
      BY <1>1, <1>2, <2>2 DEF AnswersAreEvents
    <3>2. QED
      BY <1>7, <3>1
  <2>3. QED
    BY <1>1, <1>2, <2>1, <2>2 DEF AnswersAreEvents, PageQuiet
<1>16. QED
  BY <1>2, <1>12, <1>14, <1>15 DEF PageInv, PageQuiet

\* The calculator gives a row of the page's days.
LEMMA PageRow ==
  ASSUME NEW rows \in SUBSET PageEvent, NEW measured
  PROVE  Lossy!CalculatedSheet(rows, measured) \in PageSheet
<1> DEFINE types == Lossy!TypesInOrder(rows)
           codes == Lossy!DayCodes(types, measured)
           state == Lossy!DayState(types, measured)
<1>1. codes \in SUBSET ExceptionCode
  BY PageNames DEF Lossy!DayCodes
<1>2. state \in SheetState
  BY DEF Lossy!DayState, SheetState
<1>3. Lossy!CalculatedSheet(rows, measured) = [state |-> state, codes |-> codes, basis |-> rows]
  BY DEF Lossy!CalculatedSheet
<1> HIDE DEF types, codes, state
<1>4. QED
  BY <1>1, <1>2, <1>3 DEF PageSheet

\* Accept, Replay and RefuseTransition keep the events; the server goes on, or answers.
LEMMA PagePreflight ==
  ASSUME PageInv, part' = part, NEW h \in Flight,
         Lossy!Accept(h) \/ Lossy!Replay(h) \/ Lossy!RefuseTransition(h)
  PROVE  PageInv'
<1>1. PageTypes /\ KeysAreActions /\ AnswersAreEvents
  BY DEF PageInv
<1>2. /\ request[h].at = "sent" /\ handler[h] = Idle
      /\ UNCHANGED <<part, pageEvents, pageRecord, pageSheet, today, page, pending, made, acked, waiting>>
  BY PageNames DEF Lossy!Accept, Lossy!Replay, Lossy!RefuseTransition, Lossy!Preflight, Lossy!Deliver, Lossy!tables
<1>3. PICK key, type : key = request[h].key /\ type = request[h].type
  OBVIOUS
<1>4. request[h].at # "none" /\ request[h] \in Lossy!Request /\ type \in EventType /\ key \in Correction
  <2>1. request[h].at # "none"
    BY <1>2
  <2>2. QED
    BY <1>1, <1>3, <2>1, PageRequest
<1>5. ASSUME NEW q \in Lossy!Request, q.at # "none", q.key = key, q.type = type, request' = [request EXCEPT ![h] = q],
             NEW b \in {Idle} \cup PageBatch, handler' = [handler EXCEPT ![h] = b],
             b # Idle => q.at = "server" /\ b.event.key = key /\ b.event.type = type,
             q.at = "answered" => \E e \in pageEvents : e.key = key /\ e.type = type,
             pageNow' \in 0..MaxTime
      PROVE  PageInv'
  <2>1. /\ request' \in [Flight -> Lossy!Request \cup {Lossy!None}]
        /\ request'[h] = q /\ \A g \in Flight : g # h => request'[g] = request[g]
    BY <1>1, <1>5, PageSends
  <2>2. /\ handler' \in [Flight -> {Idle} \cup PageBatch]
        /\ handler'[h] = b /\ \A g \in Flight : g # h => handler'[g] = handler[g]
    BY <1>1, <1>5, PageServes
  <2>3. PageTypes'
    BY <1>1, <1>2, <1>5, <2>1, <2>2 DEF PageTypes, PageDay, PageEvent, PageSheet, PageBatch
  <2>4. waiting \in Flight \cup {NoHandler}
    BY <1>1 DEF PageTypes
  <2>5. \A e, f \in pageEvents : e.key = f.key => e = f
    BY <1>1 DEF AnswersAreEvents
  <2>6. KeysAreActions' /\ AnswersAreEvents'
    <3>1. request'[h].at # "none" /\ request'[h].key = request[h].key /\ request'[h].type = request[h].type
      BY <1>3, <1>5, <2>1
    <3>2. request'[h].at = "answered" =>
            \E e \in pageEvents' : e.key = request'[h].key /\ e.type = request'[h].type
      BY <1>2, <1>5, <2>1
    <3>3. handler'[h] # Idle =>
            /\ request'[h].at = "server"
            /\ handler'[h].event.key = request'[h].key /\ handler'[h].event.type = request'[h].type
      BY <1>5, <2>1, <2>2
    <3>4. QED
      BY <1>1, <1>2, <1>4, <2>1, <2>2, <2>4, <2>5, <3>1, <3>2, <3>3, PageMoves
  <2>7. QED
    BY <2>3, <2>6 DEF PageInv
<1>6. pageNow \in 0..MaxTime /\ MaxTime \in Nat /\ handler = [handler EXCEPT ![h] = Idle]
  <2>1. pageNow \in 0..MaxTime /\ handler \in [Flight -> {Idle} \cup PageBatch]
    BY <1>1 DEF PageTypes
  <2>2. QED
    BY <1>2, <2>1, PageDays
<1>7. CASE Lossy!Accept(h)
  <2>1. /\ Lossy!Preflight(h, type, key) /\ request' = [request EXCEPT ![h].at = "server"]
    BY <1>3, <1>7 DEF Lossy!Accept
  <2>2. PICK q \in Lossy!Request : /\ q.at = "server" /\ q.key = key /\ q.type = type
                                   /\ request' = [request EXCEPT ![h] = q]
    <3> DEFINE q == [request[h] EXCEPT !.at = "server"]
    <3>1. q \in Lossy!Request /\ q.at = "server" /\ q.key = key /\ q.type = type
      BY <1>2, <1>3, <1>4 DEF Lossy!Request
    <3>2. request' = [request EXCEPT ![h] = q]
      BY <2>1
    <3> HIDE DEF q
    <3>3. QED
      BY <3>1, <3>2
  <2>3. pageNow < MaxTime /\ pageNow' = pageNow + 1
    BY <2>1 DEF Lossy!Preflight
  <2>4. PICK day : day = Lossy!WorkDate(type) /\ day \in PageDay
    <3>1. CASE type = "CLOCK_IN"
      BY <1>1, <3>1 DEF Lossy!WorkDate, PageTypes
    <3>2. CASE type # "CLOCK_IN"
      <4>1. pageEvents # {}
        BY <1>1, <2>1, <3>2, PageLast DEF Lossy!Preflight, Lossy!transitionAllowed
      <4>2. Lossy!Latest \in PageEvent
        BY <1>1, <4>1, PageLast DEF PageTypes
      <4>3. QED
        BY <3>2, <4>2 DEF Lossy!WorkDate, PageEvent
    <3>3. QED
      BY <3>1, <3>2
  <2>5. PICK event : event = [type |-> type, day |-> day, key |-> key, at |-> pageNow + 1]
    OBVIOUS
  <2>6. event \in PageEvent /\ event.key = key /\ event.type = type
    <3>1. pageNow + 1 \in 1..MaxTime
      BY <1>6, <2>3
    <3>2. QED
      BY <1>4, <2>4, <2>5, <3>1 DEF PageEvent
  <2>7. PICK measured \in SUBSET {} :
          handler' = [handler EXCEPT ![h] =
            [pc |-> "clock", event |-> event, found |-> pageRecord[day],
             row |-> Lossy!CalculatedSheet(Lossy!DayEvents(day) \cup {event}, measured)]]
    BY <2>1, <2>4, <2>5 DEF Lossy!Preflight
  <2>8. PICK row \in PageSheet : row = Lossy!CalculatedSheet(Lossy!DayEvents(day) \cup {event}, measured)
    <3>1. Lossy!DayEvents(day) \cup {event} \in SUBSET PageEvent
      BY <1>1, <2>6 DEF Lossy!DayEvents, PageTypes
    <3>2. QED
      BY <3>1, PageRow
  <2>9. PICK found \in Lossy!RecordStatus : found = pageRecord[day]
    BY <1>1, <2>4 DEF PageTypes
  <2>10. PICK b \in PageBatch : /\ b.event = event
                                /\ handler' = [handler EXCEPT ![h] = b]
    <3> DEFINE b == [pc |-> "clock", event |-> event, found |-> found, row |-> row]
    <3>1. b \in PageBatch
      BY <2>6 DEF PageBatch
    <3>2. b.event = event
      OBVIOUS
    <3>3. handler' = [handler EXCEPT ![h] = b]
      BY <2>7, <2>8, <2>9
    <3> HIDE DEF b
    <3>4. QED
      BY <3>1, <3>2, <3>3
  <2>11. pageNow' \in 0..MaxTime
    BY <1>6, <2>3
  <2>12. b.event.key = key /\ b.event.type = type
    BY <2>6, <2>10
  <2>13. QED
    BY <1>5, <2>2, <2>10, <2>11, <2>12
<1>8. CASE Lossy!Replay(h)
  <2>1. PICK e \in pageEvents : e.key = key /\ Lossy!Answer(h, pageRecord[e.day])
    BY <1>3, <1>8 DEF Lossy!Replay
  <2>2. handler' = handler /\ pageNow' = pageNow
    BY <1>8 DEF Lossy!Replay
  <2>3. e.type = type
    <3>1. StandsFor(key, type) /\ StandsFor(key, e.type) /\ e.type \in EventType
      BY <1>1, <1>3, <1>4, <2>1 DEF StandsFor, PageTypes, PageEvent
    <3>2. QED
      BY <1>1, <1>4, <3>1 DEF KeysAreActions
  <2>4. PICK a \in Lossy!RecordStatus : a = pageRecord[e.day]
    BY <1>1 DEF PageTypes, PageEvent
  <2>5. PICK q \in Lossy!Request : /\ q.at = "answered" /\ q.key = key /\ q.type = type
                                   /\ request' = [request EXCEPT ![h] = q]
    <3> DEFINE q == [at |-> "answered", type |-> type, key |-> key, attendance |-> a]
    <3>1. q \in Lossy!Request
      BY <1>4, PageNames DEF Lossy!Request
    <3>2. q.at = "answered" /\ q.key = key /\ q.type = type
      OBVIOUS
    <3>3. request' = [request EXCEPT ![h] = q]
      BY <1>3, <2>1, <2>4 DEF Lossy!Answer
    <3> HIDE DEF q
    <3>4. QED
      BY <3>1, <3>2, <3>3
  <2>6. handler' = [handler EXCEPT ![h] = Idle] /\ pageNow' \in 0..MaxTime
    BY <1>6, <2>2
  <2>7. QED
    BY <1>5, <2>1, <2>3, <2>5, <2>6
<1>9. CASE Lossy!RefuseTransition(h)
  <2>1. handler' = handler /\ pageNow' = pageNow /\ request' = [request EXCEPT ![h].at = "refused"]
    BY <1>9 DEF Lossy!RefuseTransition, Lossy!Refuse
  <2>2. PICK q \in Lossy!Request : /\ q.at = "refused" /\ q.key = key /\ q.type = type
                                   /\ request' = [request EXCEPT ![h] = q]
    <3> DEFINE q == [request[h] EXCEPT !.at = "refused"]
    <3>1. q \in Lossy!Request /\ q.at = "refused" /\ q.key = key /\ q.type = type
      BY <1>2, <1>3, <1>4 DEF Lossy!Request
    <3>2. request' = [request EXCEPT ![h] = q]
      BY <2>1
    <3> HIDE DEF q
    <3>3. QED
      BY <3>1, <3>2
  <2>3. handler' = [handler EXCEPT ![h] = Idle] /\ pageNow' \in 0..MaxTime
    BY <1>6, <2>1
  <2>4. QED
    BY <1>5, <2>2, <2>3
<1>10. QED
  BY <1>7, <1>8, <1>9

\* The batch adds the event of its request, whose key was free, and answers.
LEMMA PageCommit ==
  ASSUME PageInv, part' = part, NEW h \in Flight, Lossy!Commit(h) \/ Lossy!Fail(h)
  PROVE  PageInv'
<1>1. PageTypes /\ KeysAreActions /\ AnswersAreEvents
  BY DEF PageInv
<1>2. /\ handler[h].pc # "idle" /\ handler' = [handler EXCEPT ![h] = Idle]
      /\ UNCHANGED <<part, today, pageNow, page, pending, made, acked, waiting>>
  BY PageNames DEF Lossy!Commit, Lossy!Fail, Lossy!CommitClock, Lossy!Drop, Lossy!Finish, Lossy!tables
<1>3. handler[h] # Idle
  BY <1>2, IdlePc
<1>4. PICK b \in PageBatch : b = handler[h]
  BY <1>1, <1>3 DEF PageTypes
<1>5. PICK key, type : key = request[h].key /\ type = request[h].type
  OBVIOUS
<1>6. request[h].at = "server" /\ b.event.key = key /\ b.event.type = type
  BY <1>1, <1>3, <1>4, <1>5 DEF AnswersAreEvents
<1>7. request[h].at # "none" /\ request[h] \in Lossy!Request /\ type \in EventType /\ key \in Correction
  <2>1. request[h].at # "none"
    BY <1>6
  <2>2. QED
    BY <1>1, <1>5, <2>1, PageRequest
<1>8. b.event \in PageEvent /\ b.event.day \in PageDay /\ b.row \in PageSheet
  BY <1>4 DEF PageBatch, PageEvent
<1>9. Idle \in {Idle} \cup PageBatch
  OBVIOUS
<1>10. /\ handler' \in [Flight -> {Idle} \cup PageBatch]
       /\ handler'[h] = Idle /\ \A g \in Flight : g # h => handler'[g] = handler[g]
  BY <1>1, <1>2, <1>9, PageServes
<1>11. ASSUME NEW q \in Lossy!Request, q.at # "none", q.key = key, q.type = type, request' = [request EXCEPT ![h] = q],
              pageEvents \subseteq pageEvents', pageEvents' \subseteq pageEvents \cup {b.event},
              \A e, f \in pageEvents' : e.key = f.key => e = f,
              pageRecord' \in [PageDay -> Lossy!RecordStatus],
              pageSheet' \in [PageDay -> PageSheet \cup {Lossy!NoSheet}],
              q.at = "answered" => b.event \in pageEvents'
       PROVE  PageInv'
  <2>1. /\ request' \in [Flight -> Lossy!Request \cup {Lossy!None}]
        /\ request'[h] = q /\ \A g \in Flight : g # h => request'[g] = request[g]
    BY <1>1, <1>11, PageSends
  <2>2. PageTypes'
    BY <1>1, <1>2, <1>8, <1>10, <1>11, <2>1 DEF PageTypes, PageDay, PageEvent, PageSheet, PageBatch
  <2>3. waiting \in Flight \cup {NoHandler}
    BY <1>1 DEF PageTypes
  <2>4. \A e \in pageEvents' \ pageEvents : e.key = request[h].key /\ e.type = request[h].type
    BY <1>5, <1>6, <1>11
  <2>5. KeysAreActions' /\ AnswersAreEvents'
    <3>1. request'[h].at # "none" /\ request'[h].key = request[h].key /\ request'[h].type = request[h].type
      BY <1>5, <1>11, <2>1
    <3>2. request'[h].at = "answered" =>
            \E e \in pageEvents' : e.key = request'[h].key /\ e.type = request'[h].type
      BY <1>6, <1>11, <2>1
    <3>3. QED
      BY <1>1, <1>2, <1>7, <1>10, <1>11, <2>1, <2>3, <2>4, <3>1, <3>2, PageMoves
  <2>6. QED
    BY <2>2, <2>5 DEF PageInv
<1>12. CASE Lossy!Commit(h)
  <2>1. /\ ~ \E e \in pageEvents : e.key = b.event.key
        /\ pageEvents' = pageEvents \cup {b.event}
        /\ pageRecord' = [pageRecord EXCEPT ![b.event.day] = Lossy!RecordAfter(b)]
        /\ pageSheet' = [pageSheet EXCEPT ![b.event.day] = b.row]
        /\ Lossy!Answer(h, Lossy!RecordAfter(b))
    BY <1>4, <1>12 DEF Lossy!Commit, Lossy!CommitClock, Lossy!KeyIsFree, Lossy!SheetAfter
  <2>2. PICK a \in Lossy!RecordStatus : a = Lossy!RecordAfter(b)
    <3>1. pageRecord[b.event.day] \in Lossy!RecordStatus
      BY <1>1, <1>8 DEF PageTypes
    <3>2. QED
      BY <3>1 DEF Lossy!RecordAfter, Lossy!RecordStatus
  <2>3. PICK q \in Lossy!Request : /\ q.at = "answered" /\ q.key = key /\ q.type = type
                                   /\ request' = [request EXCEPT ![h] = q]
    <3> DEFINE q == [at |-> "answered", type |-> type, key |-> key, attendance |-> a]
    <3>1. q \in Lossy!Request
      BY <1>7, PageNames DEF Lossy!Request
    <3>2. q.at = "answered" /\ q.key = key /\ q.type = type
      OBVIOUS
    <3>3. request' = [request EXCEPT ![h] = q]
      BY <1>5, <2>1, <2>2 DEF Lossy!Answer
    <3> HIDE DEF q
    <3>4. QED
      BY <3>1, <3>2, <3>3
  <2>4. \A e, f \in pageEvents' : e.key = f.key => e = f
    BY <1>1, <2>1 DEF AnswersAreEvents
  <2>5. pageRecord' \in [PageDay -> Lossy!RecordStatus]
    BY <1>1, <1>8, <2>1, <2>2 DEF PageTypes
  <2>6. pageSheet' \in [PageDay -> PageSheet \cup {Lossy!NoSheet}]
    BY <1>1, <1>8, <2>1 DEF PageTypes
  <2>7. QED
    BY <1>11, <2>1, <2>3, <2>4, <2>5, <2>6
<1>13. CASE Lossy!Fail(h)
  <2>1. UNCHANGED <<pageEvents, pageRecord, pageSheet>> /\ request' = [request EXCEPT ![h].at = "refused"]
    BY <1>13 DEF Lossy!Fail, Lossy!Drop, Lossy!Refuse, Lossy!tables
  <2>2. PICK q \in Lossy!Request : /\ q.at = "refused" /\ q.key = key /\ q.type = type
                                   /\ request' = [request EXCEPT ![h] = q]
    <3> DEFINE q == [request[h] EXCEPT !.at = "refused"]
    <3>1. q \in Lossy!Request /\ q.at = "refused" /\ q.key = key /\ q.type = type
      BY <1>5, <1>6, <1>7 DEF Lossy!Request
    <3>2. request' = [request EXCEPT ![h] = q]
      BY <2>1
    <3> HIDE DEF q
    <3>3. QED
      BY <3>1, <3>2
  <2>3. /\ pageRecord' \in [PageDay -> Lossy!RecordStatus]
        /\ pageSheet' \in [PageDay -> PageSheet \cup {Lossy!NoSheet}]
    BY <1>1, <2>1 DEF PageTypes
  <2>4. \A e, f \in pageEvents' : e.key = f.key => e = f
    BY <1>1, <2>1 DEF AnswersAreEvents
  <2>5. QED
    BY <1>11, <2>1, <2>2, <2>3, <2>4
<1>14. QED
  BY <1>12, <1>13

\* Answers that nobody awaits, losses, a page that is loaded again, midnight.
LEMMA PageForgets ==
  ASSUME PageInv, part' = part, today' \in PageDay,
         \/ Lossy!Load
         \/ \E h \in Flight : Lossy!Ignore(h) \/ Lossy!Lose(h)
         \/ Lossy!Midnight /\ UNCHANGED <<handler, page, pending, made, acked, waiting, request>>
  PROVE  PageInv'
<1>1. PageTypes /\ KeysAreActions /\ AnswersAreEvents /\ NoHandler \notin Flight
  BY PageParameters DEF PageInv, Lossy!Parameters
<1>2. waiting \in Flight \cup {NoHandler}
  BY <1>1 DEF PageTypes
<1>3. CASE Lossy!Load
  <2>1. /\ UNCHANGED <<pageEvents, pageRecord, pageSheet, today, pageNow, handler, pending, made, acked, request>>
        /\ page' = Lossy!Loaded /\ waiting' = NoHandler
    BY <1>3 DEF Lossy!Load, Lossy!tables
  <2>2. page' \in Lossy!Page
    <3>1. pageRecord[today] \in Lossy!RecordStatus
      BY <1>1 DEF PageTypes
    <3>2. QED
      BY <1>1, <2>1, <3>1, PageLast, PageNames DEF Lossy!Loaded, Lossy!Page
  <2>3. PageTypes'
    BY <1>1, <2>1, <2>2 DEF PageTypes, PageDay, PageEvent, PageSheet, PageBatch
  <2>4. KeysAreActions' /\ AnswersAreEvents'
    BY <1>1, <2>1 DEF KeysAreActions, StandsFor, AnswersAreEvents
  <2>5. QED
    BY <2>3, <2>4 DEF PageInv
<1>4. CASE Lossy!Midnight /\ UNCHANGED <<handler, page, pending, made, acked, waiting, request>>
  <2>1. UNCHANGED <<pageEvents, pageRecord, pageSheet, pageNow, handler, page, pending, made, acked, waiting, request>>
    BY <1>4 DEF Lossy!Midnight, Lossy!tables
  <2>2. PageTypes'
    BY <1>1, <2>1 DEF PageTypes, PageDay, PageEvent, PageSheet, PageBatch
  <2>3. KeysAreActions' /\ AnswersAreEvents'
    BY <1>1, <2>1 DEF KeysAreActions, StandsFor, AnswersAreEvents
  <2>4. QED
    BY <2>2, <2>3 DEF PageInv
<1>5. ASSUME NEW h \in Flight, Lossy!Ignore(h) \/ Lossy!Lose(h)
      PROVE  PageInv'
  <2>1. /\ UNCHANGED <<pageEvents, pageRecord, pageSheet, today, pageNow, handler, page, pending, made, acked>>
        /\ request' = [request EXCEPT ![h] = Lossy!None]
        /\ request[h].at \in {"sent", "answered", "refused"}
        /\ waiting' \in {waiting, NoHandler} /\ waiting' # h
    BY <1>1, <1>5 DEF Lossy!Ignore, Lossy!Lose, Lossy!tables
  <2>2. Lossy!None \in Lossy!Request \cup {Lossy!None} /\ Lossy!None.at = "none"
    BY DEF Lossy!None
  <2>3. /\ request' \in [Flight -> Lossy!Request \cup {Lossy!None}]
        /\ request'[h] = Lossy!None /\ \A g \in Flight : g # h => request'[g] = request[g]
    BY <1>1, <2>1, <2>2, PageSends
  <2>4. PageTypes'
    BY <1>1, <1>2, <2>1, <2>3 DEF PageTypes, PageDay, PageEvent, PageSheet, PageBatch
  <2>5. handler'[h] = Idle
    BY <1>1, <2>1 DEF AnswersAreEvents
  <2>6. \A e, f \in pageEvents : e.key = f.key => e = f
    BY <1>1 DEF AnswersAreEvents
  <2>7. KeysAreActions' /\ AnswersAreEvents'
    BY <1>1, <1>2, <2>1, <2>2, <2>3, <2>5, <2>6, PageMoves
  <2>8. QED
    BY <2>4, <2>7 DEF PageInv
<1>6. QED
  BY <1>3, <1>4, <1>5

\* Every step of the page, the network and the server.
LEMMA PageNext ==
  ASSUME PageInv, part' = part, today' \in PageDay, Lossy!Next \/ UNCHANGED pageVars
  PROVE  PageInv'
<1>1. CASE UNCHANGED pageVars
  BY <1>1 DEF pageVars, PageInv, PageTypes, PageDay, PageEvent, PageSheet, PageBatch, KeysAreActions, StandsFor,
              AnswersAreEvents
<1>2. CASE Lossy!Next
  BY <1>2, PageAct, PageReceive, PagePreflight, PageCommit, PageForgets, PageNames DEF Lossy!Next, Lossy!clientVars
<1>3. QED
  BY <1>1, <1>2

\* The two instances calculate the same rows and follow the same rules.
LEMMA SameRules ==
  /\ \A rows, measured : Reliable!CalculatedSheet(rows, measured) = Lossy!CalculatedSheet(rows, measured)
  /\ \A last, type : Reliable!transitionAllowed(last, type) = Lossy!transitionAllowed(last, type)
  /\ Reliable!EventType = Lossy!EventType /\ Reliable!Idle = Lossy!Idle /\ Reliable!None = Lossy!None
  /\ Reliable!LatestType = Lossy!LatestType /\ Reliable!LastToday = Lossy!LastToday
<1>1. ASSUME NEW types
      PROVE  Reliable!Scan(types) = Lossy!Scan(types)
  BY DEF Reliable!Scan, Lossy!Scan, Reliable!ScanEvent, Lossy!ScanEvent, Reliable!ScanStart, Lossy!ScanStart
<1>2. Reliable!ExceptionCode = Lossy!ExceptionCode
  BY DEF Reliable!ExceptionCode, Lossy!ExceptionCode, Reliable!PairingCodes, Lossy!PairingCodes,
         Reliable!ScheduleAndHoursCodes, Lossy!ScheduleAndHoursCodes
<1>3. ASSUME NEW types, NEW measured
      PROVE  Reliable!DayCodes(types, measured) = Lossy!DayCodes(types, measured)
  BY <1>1, <1>2 DEF Reliable!DayCodes, Lossy!DayCodes
<1>4. ASSUME NEW types, NEW measured
      PROVE  Reliable!DayState(types, measured) = Lossy!DayState(types, measured)
  BY <1>1, <1>3 DEF Reliable!DayState, Lossy!DayState
<1>5. ASSUME NEW rows
      PROVE  Reliable!TypesInOrder(rows) = Lossy!TypesInOrder(rows)
  BY DEF Reliable!TypesInOrder, Lossy!TypesInOrder, Reliable!Cardinality, Lossy!Cardinality
<1>6. ASSUME NEW rows, NEW measured
      PROVE  Reliable!CalculatedSheet(rows, measured) = Lossy!CalculatedSheet(rows, measured)
  BY <1>3, <1>4, <1>5 DEF Reliable!CalculatedSheet, Lossy!CalculatedSheet
<1>7. \A last, type : Reliable!transitionAllowed(last, type) = Lossy!transitionAllowed(last, type)
  BY DEF Reliable!transitionAllowed, Lossy!transitionAllowed
<1>8. Reliable!EventType = Lossy!EventType /\ Reliable!Idle = Lossy!Idle /\ Reliable!None = Lossy!None
  BY DEF Reliable!EventType, Lossy!EventType, Reliable!Idle, Lossy!Idle, Reliable!None, Lossy!None
<1>9. Reliable!LatestType = Lossy!LatestType
  BY DEF Reliable!LatestType, Lossy!LatestType, Reliable!Latest, Lossy!Latest
<1>10. Reliable!LastToday = Lossy!LastToday
  BY DEF Reliable!LastToday, Lossy!LastToday, Reliable!DayEvents, Lossy!DayEvents
<1>11. QED
  BY <1>6, <1>7, <1>8, <1>9, <1>10

\* What can happen on the reliable network: nothing is lost and the page loads its events.
ReliableStep(h) ==
  \/ \E type \in EventType, key \in Correction : Lossy!Act(h, type, key)
  \/ /\ Lossy!Receive(h)
     /\ request[h].at = "answered" => page' = Lossy!PageAfter(request[h].attendance)
  \/ Lossy!Ignore(h)
  \/ Lossy!Accept(h) \/ Lossy!Replay(h) \/ Lossy!RefuseTransition(h)
  \/ Lossy!Commit(h) \/ Lossy!Fail(h)

\* It is what the lossy network can do without a loss, on one day.
LEMMA ReliableIsLossy ==
  ASSUME PageTypes, part = "reliable", Reliable!Next
  PROVE  today' = today /\ \E h \in Flight : ReliableStep(h)
<1>1. today \in 1..1
  BY DEF PageTypes, PageDay
<1>2. ~Reliable!Load /\ ~Reliable!Midnight /\ \A h \in Flight : ~Reliable!Lose(h)
  BY <1>1 DEF Reliable!Load, Reliable!Midnight, Reliable!Lose
<1>3. ASSUME NEW h \in Flight, NEW type \in EventType, NEW key \in Correction, Reliable!Act(h, type, key)
      PROVE  Lossy!Act(h, type, key) /\ today' = today
  <2>1. Reliable!Offered(type) = Lossy!Offered(type) /\ Reliable!PendingKey(type) = Lossy!PendingKey(type)
    BY DEF Reliable!Offered, Lossy!Offered, Reliable!PendingKey, Lossy!PendingKey
  <2>2. QED
    BY <1>3, <2>1, SameRules DEF Reliable!Act, Lossy!Act, Reliable!tables, Lossy!tables
<1>4. ASSUME NEW h \in Flight, Reliable!Receive(h)
      PROVE  /\ Lossy!Receive(h) /\ today' = today
             /\ request[h].at = "answered" => page' = Lossy!PageAfter(request[h].attendance)
  <2>1. \A attendance : Reliable!PageAfter(attendance) = Lossy!PageAfter(attendance)
    BY SameRules DEF Reliable!PageAfter, Lossy!PageAfter
  <2>2. Reliable!PendingAfter(h) = Lossy!PendingAfter(h)
    BY DEF Reliable!PendingAfter, Lossy!PendingAfter
  <2>3. QED
    BY <1>4, <2>1, <2>2, SameRules DEF Reliable!Receive, Lossy!Receive, Reliable!tables, Lossy!tables
<1>5. ASSUME NEW h \in Flight, Reliable!Ignore(h)
      PROVE  Lossy!Ignore(h) /\ today' = today
  BY <1>5, SameRules DEF Reliable!Ignore, Lossy!Ignore, Reliable!tables, Lossy!tables
<1>6. ASSUME NEW h \in Flight, Reliable!Deliver(h)
      PROVE  Lossy!Deliver(h)
  BY <1>6, SameRules DEF Reliable!Deliver, Lossy!Deliver
<1>7. ASSUME NEW h \in Flight, NEW type, NEW key, Reliable!Preflight(h, type, key)
      PROVE  Lossy!Preflight(h, type, key)
  <2>1. Reliable!WorkDate(type) = Lossy!WorkDate(type)
    BY DEF Reliable!WorkDate, Lossy!WorkDate, Reliable!Latest, Lossy!Latest
  <2>2. \A d : Reliable!DayEvents(d) = Lossy!DayEvents(d)
    BY DEF Reliable!DayEvents, Lossy!DayEvents
  <2>3. QED
    BY <1>6, <1>7, <2>1, <2>2, SameRules DEF Reliable!Preflight, Lossy!Preflight, Reliable!tables, Lossy!tables
<1>8. ASSUME NEW h \in Flight, Reliable!Accept(h)
      PROVE  Lossy!Accept(h) /\ today' = today
  BY <1>7, <1>8 DEF Reliable!Accept, Lossy!Accept, Lossy!Preflight
<1>9. ASSUME NEW h \in Flight, Reliable!Replay(h) \/ Reliable!RefuseTransition(h)
      PROVE  (Lossy!Replay(h) \/ Lossy!RefuseTransition(h)) /\ today' = today
  <2>1. \A a : Reliable!Answer(h, a) = Lossy!Answer(h, a)
    BY DEF Reliable!Answer, Lossy!Answer
  <2>2. Reliable!Refuse(h) = Lossy!Refuse(h)
    BY DEF Reliable!Refuse, Lossy!Refuse
  <2>3. CASE Reliable!Replay(h)
    BY <1>6, <2>1, <2>3 DEF Reliable!Replay, Lossy!Replay, Reliable!tables, Lossy!tables
  <2>4. CASE Reliable!RefuseTransition(h)
    BY <1>6, <2>2, <2>4, SameRules DEF Reliable!RefuseTransition, Lossy!RefuseTransition, Reliable!tables,
                                      Lossy!tables
  <2>5. QED
    BY <1>9, <2>3, <2>4
<1>10. ASSUME NEW h \in Flight, Reliable!Commit(h) \/ Reliable!Fail(h)
       PROVE  (Lossy!Commit(h) \/ Lossy!Fail(h)) /\ today' = today
  <2>1. Reliable!Finish(h) = Lossy!Finish(h)
    BY DEF Reliable!Finish, Lossy!Finish, Reliable!Idle, Lossy!Idle
  <2>2. CASE Reliable!Commit(h)
    <3>1. \A b : Reliable!RecordAfter(b) = Lossy!RecordAfter(b)
      BY DEF Reliable!RecordAfter, Lossy!RecordAfter
    <3>2. \A b : Reliable!RecordIsFree(b) = Lossy!RecordIsFree(b)
      BY DEF Reliable!RecordIsFree, Lossy!RecordIsFree
    <3>3. \A b : Reliable!SheetAfter(b) = Lossy!SheetAfter(b)
      BY DEF Reliable!SheetAfter, Lossy!SheetAfter
    <3>4. \A k : Reliable!KeyIsFree(k) = Lossy!KeyIsFree(k)
      BY DEF Reliable!KeyIsFree, Lossy!KeyIsFree
    <3>5. \A a : Reliable!Answer(h, a) = Lossy!Answer(h, a)
      BY DEF Reliable!Answer, Lossy!Answer
    <3>6. Reliable!CommitClock(h) => Lossy!CommitClock(h) /\ today' = today
      BY <2>1, <3>1, <3>2, <3>3, <3>4 DEF Reliable!CommitClock, Lossy!CommitClock
    <3>7. QED
      BY <2>2, <3>1, <3>5, <3>6 DEF Reliable!Commit, Lossy!Commit
  <2>3. CASE Reliable!Fail(h)
    BY <2>1, <2>3 DEF Reliable!Fail, Lossy!Fail, Reliable!Drop, Lossy!Drop, Reliable!Refuse, Lossy!Refuse,
                      Reliable!tables, Lossy!tables
  <2>4. QED
    BY <1>10, <2>2, <2>3
<1>11. QED
  BY <1>2, <1>3, <1>4, <1>5, <1>8, <1>9, <1>10, PageNames, SameRules DEF Reliable!Next, ReliableStep

\* What the tables say stays while they do.
LEMMA SameTables ==
  ASSUME UNCHANGED <<pageEvents, pageRecord, today>>
  PROVE  Lossy!LatestType' = Lossy!LatestType /\ Lossy!Loaded' = Lossy!Loaded
BY DEF Lossy!LatestType, Lossy!Latest, Lossy!Loaded, Lossy!LastToday, Lossy!DayEvents

\* While one request is under way, the others are not there and have no batch.
LEMMA OneUnderWay ==
  ASSUME PageInv, UpToDate, NEW h \in Flight, request[h].at # "none" \/ waiting = NoHandler
  PROVE  \A g \in Flight : g # h =>
           request[g] = Lossy!None /\ request[g].at = "none" /\ handler[g] = Idle
<1>1. NoHandler \notin Flight /\ Lossy!None.at = "none"
  BY PageParameters DEF Lossy!Parameters, Lossy!None
<1>2. \A g \in Flight : g # h => request[g] = Lossy!None
  BY <1>1 DEF UpToDate
<1>3. QED
  BY <1>1, <1>2 DEF PageInv, AnswersAreEvents

\* A step that keeps the tables keeps the page up to date, unless it answers.
LEMMA UpToDateKept ==
  ASSUME PageInv, part = "reliable", UpToDate, NEW h \in Flight,
         UNCHANGED <<pageEvents, pageRecord, today, handler>>,
         pageNow' = pageNow,
         \A g \in Flight : g # h => request'[g] = Lossy!None,
         request'[h] # Lossy!None => h = waiting',
         page' # Lossy!Loaded => request'[h].at = "answered",
         request'[h].at = "answered" => request'[h].attendance = pageRecord[1]
  PROVE  UpToDate'
<1>1. Lossy!LatestType' = Lossy!LatestType /\ Lossy!Loaded' = Lossy!Loaded
  BY SameTables
<1>2. Lossy!None.at # "answered"
  BY DEF Lossy!None
<1>3. \A g \in Flight : request'[g] # Lossy!None => g = waiting'
  OBVIOUS
<1>4. \A g \in Flight : request'[g].at = "answered" => request'[g].attendance = pageRecord'[1]
  BY <1>2
<1>5. page' # Lossy!Loaded' => \E g \in Flight : request'[g].at = "answered"
  BY <1>1
<1>6. \A last, type : Lossy!transitionAllowed(last, type)' = Lossy!transitionAllowed(last, type)
  BY DEF Lossy!transitionAllowed
<1>7. \A g \in Flight : handler'[g] # Idle =>
        /\ Lossy!transitionAllowed(Lossy!LatestType, handler[g].event.type)'
        /\ handler'[g].found = pageRecord'[1]
        /\ \A e \in pageEvents' : e.at < handler'[g].event.at
        /\ handler'[g].event.at <= pageNow'
  BY <1>1 DEF UpToDate, Lossy!transitionAllowed
<1>8. pageRecord'[1] = RecordOf(Lossy!LatestType)' /\ \A e \in pageEvents' : e.at <= pageNow'
  BY <1>1 DEF UpToDate, RecordOf
<1>9. QED
  BY <1>3, <1>4, <1>5, <1>7, <1>8, PageNames DEF UpToDate, Lossy!None

\* On one day the last event of today is the last one.
LEMMA OneDay ==
  ASSUME PageTypes, part = "reliable"
  PROVE  today = 1 /\ PageDay = {1} /\ Lossy!LastToday = Lossy!LatestType
<1>1. PageDay = {1}
  BY DEF PageDay
<1>2. today = 1 /\ \A e \in pageEvents : e.day = 1
  BY <1>1 DEF PageTypes, PageEvent
<1>3. Lossy!DayEvents(today) = pageEvents
  BY <1>2 DEF Lossy!DayEvents
<1>4. Lossy!LastToday = Lossy!LatestType
  BY <1>3 DEF Lossy!LastToday, Lossy!LatestType, Lossy!Latest
<1>5. QED
  BY <1>1, <1>2, <1>4

\* The client asks and is answered.
LEMMA UpToDateClient ==
  ASSUME PageInv, part = "reliable", UpToDate, NEW h \in Flight,
         \/ \E type \in EventType, key \in Correction : Lossy!Act(h, type, key)
         \/ /\ Lossy!Receive(h)
            /\ request[h].at = "answered" => page' = Lossy!PageAfter(request[h].attendance)
         \/ Lossy!Ignore(h)
  PROVE  UpToDate'
<1>1. PageTypes /\ NoHandler \notin Flight /\ Lossy!None.at = "none"
  BY PageParameters DEF PageInv, Lossy!Parameters, Lossy!None
<1>2. UNCHANGED <<pageEvents, pageRecord, today, handler>> /\ pageNow' = pageNow
  BY DEF Lossy!Act, Lossy!Receive, Lossy!Ignore, Lossy!tables
<1>3. ASSUME NEW type \in EventType, NEW key \in Correction, Lossy!Act(h, type, key)
      PROVE  UpToDate'
  <2>1. waiting = NoHandler /\ waiting' = h /\ page' = page /\ request[h] = Lossy!None
    BY <1>3 DEF Lossy!Act
  <2>2. \A g \in Flight : request[g] = Lossy!None
    BY <2>1, OneUnderWay
  <2>3. request' = [request EXCEPT ![h] = [at |-> "sent", type |-> type, key |-> key]]
    BY <1>3 DEF Lossy!Act
  <2>4. \A g \in Flight : g # h => request'[g] = Lossy!None
    BY <1>1, <2>2, <2>3 DEF PageTypes
  <2>5. request'[h].at = "sent"
    BY <1>1, <2>3 DEF PageTypes
  <2>6. page = Lossy!Loaded
    BY <1>1, <2>2 DEF UpToDate
  <2>7. QED
    BY <1>2, <2>1, <2>4, <2>5, <2>6, UpToDateKept
<1>4. CASE Lossy!Receive(h) /\ (request[h].at = "answered" => page' = Lossy!PageAfter(request[h].attendance))
  <2>1. request' = [request EXCEPT ![h] = Lossy!None] /\ request[h].at \in {"answered", "refused"}
    BY <1>4 DEF Lossy!Receive
  <2>2. \A g \in Flight : g # h => request[g] = Lossy!None /\ request[g].at = "none"
    BY <2>1, OneUnderWay
  <2>3. \A g \in Flight : request'[g] = Lossy!None
    BY <1>1, <2>1, <2>2 DEF PageTypes
  <2>4. CASE request[h].at = "answered"
    <3>1. page' = Lossy!PageAfter(pageRecord[1])
      BY <1>4, <2>4 DEF UpToDate
    <3>2. page' = Lossy!Loaded
      BY <1>1, <3>1, OneDay DEF Lossy!PageAfter, Lossy!Loaded
    <3>3. QED
      BY <1>1, <1>2, <2>3, <3>2, UpToDateKept
  <2>5. CASE request[h].at = "refused"
    <3>1. page' = page
      BY <1>4, <2>5 DEF Lossy!Receive
    <3>2. page = Lossy!Loaded
      BY <2>2, <2>5 DEF UpToDate
    <3>3. QED
      BY <1>1, <1>2, <2>3, <3>1, <3>2, UpToDateKept
  <2>6. QED
    BY <2>1, <2>4, <2>5
<1>5. CASE Lossy!Ignore(h)
  <2>1. waiting # h /\ request[h].at \in {"answered", "refused"}
    BY <1>5 DEF Lossy!Ignore
  <2>2. request[h] # Lossy!None
    BY <1>1, <2>1
  <2>3. QED
    BY <2>1, <2>2 DEF UpToDate
<1>6. QED
  BY <1>3, <1>4, <1>5

\* A preflight that goes on is allowed by what the tables say.
LEMMA UpToDatePreflight ==
  ASSUME PageInv, PageInv', part = "reliable", part' = part, UpToDate, NEW h \in Flight,
         Lossy!Accept(h) \/ Lossy!Replay(h) \/ Lossy!RefuseTransition(h)
  PROVE  UpToDate'
<1>1. PageTypes /\ NoHandler \notin Flight /\ Lossy!None.at = "none"
  BY PageParameters DEF PageInv, Lossy!Parameters, Lossy!None
<1>2. request[h].at = "sent" /\ UNCHANGED <<pageEvents, pageRecord, today, waiting, page>> /\ handler[h] = Idle
  BY PageNames DEF Lossy!Accept, Lossy!Replay, Lossy!RefuseTransition, Lossy!Preflight, Lossy!Deliver, Lossy!tables
<1>3. /\ \A g \in Flight : g # h => request[g] = Lossy!None /\ request[g].at = "none" /\ handler[g] = Idle
      /\ h = waiting
  <2>1. request[h].at # "none"
    BY <1>2
  <2>2. request[h] # Lossy!None
    BY <1>1, <2>1
  <2>3. QED
    BY <2>1, <2>2, OneUnderWay DEF UpToDate
<1>4. page = Lossy!Loaded
  <2>1. \A g \in Flight : request[g].at # "answered"
    BY <1>2, <1>3
  <2>2. QED
    BY <2>1 DEF UpToDate
<1>5. \E q : request' = [request EXCEPT ![h] = q]
  BY DEF Lossy!Accept, Lossy!Replay, Lossy!RefuseTransition, Lossy!Answer, Lossy!Refuse
<1>6. \A g \in Flight : g # h => request'[g] = Lossy!None
  BY <1>1, <1>3, <1>5 DEF PageTypes
<1>7. CASE Lossy!Accept(h)
  <2>1. PICK key, type : key = request[h].key /\ type = request[h].type
    OBVIOUS
  <2>2. Lossy!Preflight(h, type, key) /\ request' = [request EXCEPT ![h].at = "server"]
    BY <1>7, <2>1 DEF Lossy!Accept
  <2>3. request'[h].at = "server"
    <3>1. request[h] \in Lossy!Request
      BY <1>1, <1>2, PageRequest
    <3>2. QED
      BY <1>1, <2>2, <3>1 DEF PageTypes, Lossy!Request
  <2>4. pageNow < MaxTime /\ pageNow' = pageNow + 1 /\ Lossy!transitionAllowed(Lossy!LatestType, type)
    BY <2>2 DEF Lossy!Preflight
  <2>5. Lossy!WorkDate(type) = 1
    <3>1. CASE type = "CLOCK_IN"
      BY <1>1, <3>1, OneDay DEF Lossy!WorkDate
    <3>2. CASE type # "CLOCK_IN"
      <4>1. pageEvents # {}
        BY <1>1, <2>4, <3>2, PageLast DEF Lossy!transitionAllowed
      <4>2. Lossy!Latest \in PageEvent
        BY <1>1, <4>1, PageLast DEF PageTypes
      <4>3. QED
        BY <1>1, <3>2, <4>2, OneDay DEF Lossy!WorkDate, PageEvent
    <3>3. QED
      BY <3>1, <3>2
  <2>6. PICK row, b : /\ b = [pc |-> "clock", event |-> [type |-> type, day |-> 1, key |-> key, at |-> pageNow + 1],
                              found |-> pageRecord[1], row |-> row]
                      /\ handler' = [handler EXCEPT ![h] = b]
    BY <2>2, <2>5 DEF Lossy!Preflight
  <2>7. b.event.type = type /\ b.event.at = pageNow + 1 /\ b.found = pageRecord[1]
    BY <2>6
  <2>8. handler'[h] = b /\ \A g \in Flight : g # h => handler'[g] = Idle
    BY <1>1, <1>3, <2>6 DEF PageTypes
  <2>9. Lossy!LatestType' = Lossy!LatestType /\ Lossy!Loaded' = Lossy!Loaded
    BY <1>2, SameTables
  <2>10. pageNow \in Nat /\ \A e \in pageEvents : e.at \in Nat /\ e.at <= pageNow
    BY <1>1, PageDays DEF PageTypes, PageEvent, UpToDate
  <2>11. ASSUME NEW g \in Flight, handler'[g] # Idle
         PROVE  /\ Lossy!transitionAllowed(Lossy!LatestType', handler'[g].event.type)
                /\ handler'[g].found = pageRecord'[1]
                /\ \A e \in pageEvents' : e.at < handler'[g].event.at
                /\ handler'[g].event.at <= pageNow'
    <3>1. g = h
      BY <2>8, <2>11
    <3>2. Lossy!transitionAllowed(Lossy!LatestType', handler'[g].event.type) /\ handler'[g].found = pageRecord'[1]
      BY <1>2, <2>4, <2>7, <2>8, <2>9, <3>1
    <3>3. \A e \in pageEvents' : e.at < handler'[g].event.at
      BY <1>2, <2>7, <2>8, <2>10, <3>1
    <3>4. handler'[g].event.at <= pageNow'
      BY <2>4, <2>7, <2>8, <2>10, <3>1
    <3>5. QED
      BY <3>2, <3>3, <3>4
  <2>12. \A e \in pageEvents' : e.at <= pageNow'
    BY <1>2, <2>4, <2>10
  <2>13. pageRecord'[1] = RecordOf(Lossy!LatestType')
    BY <1>2, <2>9 DEF UpToDate
  <2>14. \A g \in Flight : request'[g].at # "answered"
    BY <1>1, <1>6, <2>3
  <2>15. \A g \in Flight : request'[g] # Lossy!None => g = waiting'
    BY <1>2, <1>3, <1>6
  <2>16. page' = Lossy!Loaded'
    BY <1>2, <1>4, <2>9
  <2>17. QED
    BY <2>11, <2>12, <2>13, <2>14, <2>15, <2>16 DEF UpToDate, Lossy!None, RecordOf, Lossy!transitionAllowed
<1>8. CASE Lossy!Replay(h)
  <2>1. PICK e \in pageEvents : Lossy!Answer(h, pageRecord[e.day])
    BY <1>8 DEF Lossy!Replay
  <2>2. e.day = 1
    BY <1>1, OneDay DEF PageTypes, PageEvent
  <2>3. request'[h].at = "answered" /\ request'[h].attendance = pageRecord[1]
    BY <1>1, <2>1, <2>2 DEF Lossy!Answer, PageTypes
  <2>4. UNCHANGED handler /\ pageNow' = pageNow
    BY <1>8 DEF Lossy!Replay
  <2>5. QED
    BY <1>2, <1>3, <1>4, <1>6, <2>3, <2>4, UpToDateKept
<1>9. CASE Lossy!RefuseTransition(h)
  <2>1. UNCHANGED handler /\ pageNow' = pageNow /\ request' = [request EXCEPT ![h].at = "refused"]
    BY <1>9 DEF Lossy!RefuseTransition, Lossy!Refuse
  <2>2. request'[h].at = "refused"
    <3>1. request[h] \in Lossy!Request
      BY <1>1, <1>2, PageRequest
    <3>2. QED
      BY <1>1, <2>1, <3>1 DEF PageTypes, Lossy!Request
  <2>3. QED
    BY <1>2, <1>3, <1>4, <1>6, <2>1, <2>2, UpToDateKept
<1>10. QED
  BY <1>7, <1>8, <1>9

\* The batch writes what the preflight allowed: nothing else has changed the day.
LEMMA UpToDateCommit ==
  ASSUME PageInv, part = "reliable", UpToDate, NEW h \in Flight, Lossy!Commit(h) \/ Lossy!Fail(h)
  PROVE  UpToDate'
<1>1. PageTypes /\ AnswersAreEvents /\ NoHandler \notin Flight /\ Lossy!None.at = "none"
  BY PageParameters DEF PageInv, Lossy!Parameters, Lossy!None
<1>2. /\ handler[h].pc # "idle" /\ handler' = [handler EXCEPT ![h] = Idle]
      /\ UNCHANGED <<today, pageNow, page, waiting>>
  BY PageNames DEF Lossy!Commit, Lossy!Fail, Lossy!CommitClock, Lossy!Drop, Lossy!Finish, Lossy!tables
<1>3. handler[h] # Idle
  BY <1>2, IdlePc
<1>4. request[h].at = "server"
  BY <1>1, <1>3 DEF AnswersAreEvents
<1>5. /\ \A g \in Flight : g # h => request[g] = Lossy!None /\ request[g].at = "none" /\ handler[g] = Idle
      /\ h = waiting
  <2>1. request[h].at # "none"
    BY <1>4
  <2>2. request[h] # Lossy!None
    BY <1>1, <2>1
  <2>3. QED
    BY <2>1, <2>2, OneUnderWay DEF UpToDate
<1>6. \A g \in Flight : handler'[g] = Idle
  BY <1>1, <1>2, <1>5 DEF PageTypes
<1>7. \E q : request' = [request EXCEPT ![h] = q]
  BY DEF Lossy!Commit, Lossy!Fail, Lossy!Answer, Lossy!Refuse
<1>8. \A g \in Flight : g # h => request'[g] = Lossy!None
  BY <1>1, <1>5, <1>7 DEF PageTypes
<1>9. \A g \in Flight : request'[g] # Lossy!None => g = waiting'
  BY <1>2, <1>5, <1>8
<1>10. CASE Lossy!Commit(h)
  <2>1. PICK b \in PageBatch : b = handler[h]
    BY <1>1, <1>3 DEF PageTypes
  <2>2. /\ pageEvents' = pageEvents \cup {b.event}
        /\ pageRecord' = [pageRecord EXCEPT ![b.event.day] = Lossy!RecordAfter(b)]
        /\ Lossy!Answer(h, Lossy!RecordAfter(b))
    BY <1>10, <2>1 DEF Lossy!Commit, Lossy!CommitClock
  <2>3. b.event \in PageEvent /\ b.event.day = 1
    BY <1>1, <2>1, OneDay DEF PageBatch, PageEvent
  <2>4. pageRecord'[1] = Lossy!RecordAfter(b)
    BY <1>1, <2>2, <2>3, OneDay DEF PageTypes
  <2>5. request'[h].at = "answered" /\ request'[h].attendance = pageRecord'[1]
    BY <1>1, <2>2, <2>4 DEF Lossy!Answer, PageTypes
  <2>6. /\ Lossy!transitionAllowed(Lossy!LatestType, b.event.type) /\ b.found = pageRecord[1]
        /\ \A e \in pageEvents : e.at < b.event.at
        /\ b.event.at <= pageNow
    BY <1>3, <2>1 DEF UpToDate
  <2>7. \A e \in pageEvents' : e.at <= pageNow'
    BY <1>2, <2>2, <2>6 DEF UpToDate
  <2>8. Lossy!LatestType' = b.event.type
    <3> DEFINE last == CHOOSE e \in pageEvents' : \A f \in pageEvents' : f.at <= e.at
    <3>1. b.event \in pageEvents' /\ \A e \in pageEvents' : e.at \in Nat /\ (e = b.event \/ e.at < b.event.at)
      BY <1>1, <2>2, <2>3, <2>6, PageDays DEF PageTypes, PageEvent
    <3>2. \A f \in pageEvents' : f.at <= b.event.at
      BY <3>1
    <3>3. last \in pageEvents' /\ \A f \in pageEvents' : f.at <= last.at
      BY <3>1, <3>2
    <3>4. Lossy!LatestType' = last.type
      BY <3>1 DEF Lossy!LatestType, Lossy!Latest
    <3> HIDE DEF last
    <3>5. last = b.event
      BY <3>1, <3>3
    <3>6. QED
      BY <3>4, <3>5
  <2>9. Lossy!RecordAfter(b) = RecordOf(b.event.type)
    <3>1. b.event.type \in EventType
      BY <2>3 DEF PageEvent
    <3>2. pageRecord[1] = RecordOf(Lossy!LatestType) /\ pageRecord[b.event.day] = pageRecord[1]
      BY <2>3 DEF UpToDate
    <3>3. CASE b.event.type = "CLOCK_IN"
      BY <3>3 DEF Lossy!RecordAfter, RecordOf
    <3>4. CASE b.event.type # "CLOCK_IN"
      <4>1. pageRecord[1] = "CLOCKED_IN"
        BY <2>6, <3>2, <3>4 DEF Lossy!transitionAllowed, RecordOf
      <4>2. QED
        BY <2>6, <3>1, <3>2, <3>4, <4>1 DEF Lossy!RecordAfter, RecordOf, EventType
    <3>5. QED
      BY <3>3, <3>4
  <2>10. pageRecord'[1] = RecordOf(Lossy!LatestType')
    BY <2>4, <2>8, <2>9
  <2>11. \A g \in Flight : request'[g].at = "answered" => request'[g].attendance = pageRecord'[1]
    BY <1>1, <1>8, <2>5
  <2>12. \E g \in Flight : request'[g].at = "answered"
    BY <2>5
  <2>13. QED
    BY <1>6, <1>9, <2>7, <2>10, <2>11, <2>12 DEF UpToDate, Lossy!None, RecordOf
<1>11. CASE Lossy!Fail(h)
  <2>1. UNCHANGED <<pageEvents, pageRecord>> /\ request' = [request EXCEPT ![h].at = "refused"]
    BY <1>11 DEF Lossy!Fail, Lossy!Drop, Lossy!Refuse, Lossy!tables
  <2>2. request'[h].at = "refused"
    <3>1. request[h] \in Lossy!Request
      BY <1>1, <1>4, PageRequest
    <3>2. QED
      BY <1>1, <2>1, <3>1 DEF PageTypes, Lossy!Request
  <2>3. page = Lossy!Loaded
    <3>1. \A g \in Flight : request[g].at # "answered"
      BY <1>4, <1>5
    <3>2. QED
      BY <3>1 DEF UpToDate
  <2>4. Lossy!LatestType' = Lossy!LatestType /\ Lossy!Loaded' = Lossy!Loaded
    BY <1>2, <2>1, SameTables
  <2>5. \A g \in Flight : request'[g].at # "answered"
    BY <1>1, <1>8, <2>2
  <2>6. pageRecord'[1] = RecordOf(Lossy!LatestType') /\ \A e \in pageEvents' : e.at <= pageNow'
    BY <1>2, <2>1, <2>4 DEF UpToDate
  <2>7. page' = Lossy!Loaded'
    BY <1>2, <2>3, <2>4
  <2>8. QED
    BY <1>6, <1>9, <2>5, <2>6, <2>7 DEF UpToDate, Lossy!None, RecordOf
<1>12. QED
  BY <1>10, <1>11

-----------------------------------------------------------------------------
(* The page in the settings of MCRequests.                                 *)

SuitePage == PageInv /\ (part = "reliable" => UpToDate)

\* Nothing is asked and nothing recorded at first.
LEMMA SuitePageInit == SuiteInit => SuitePage
<1> SUFFICES ASSUME SuiteInit PROVE SuitePage
  OBVIOUS
<1>1. /\ pageEvents = {} /\ today = 1 /\ pageNow = 0 /\ handler = [h \in Flight |-> Idle]
      /\ page = [attendance |-> "NONE", last |-> "NONE"]
      /\ pending = [type \in EventType |-> NoKey] /\ made = {} /\ acked = {} /\ waiting = NoHandler
      /\ request = [h \in Flight |-> Lossy!None]
      /\ pageRecord = [d \in PageDay |-> "NONE"] /\ pageSheet = [d \in PageDay |-> Lossy!NoSheet]
  <2>1. CASE part = "reliable" /\ Reliable!Init
    <3>1. Reliable!NoSheet = Lossy!NoSheet /\ Reliable!Day = PageDay
      BY <2>1 DEF Reliable!NoSheet, Lossy!NoSheet, Reliable!Day, PageDay
    <3>2. QED
      BY <2>1, <3>1, PageNames, SameRules DEF Reliable!Init, Reliable!TablesInit, Reliable!ClockInit
  <2>2. CASE part # "reliable" /\ Lossy!Init
    <3>1. Lossy!Day = PageDay
      BY <2>2 DEF Lossy!Day, PageDay
    <3>2. QED
      BY <2>2, <3>1, PageNames DEF Lossy!Init, Lossy!TablesInit, Lossy!ClockInit
  <2>3. QED
    BY <2>1, <2>2 DEF SuiteInit
<1>2. NoKey \notin Correction /\ NoHandler \notin Flight /\ Lossy!None.at = "none"
  BY PageParameters DEF Lossy!Parameters, Lossy!None
<1>3. \A h \in Flight : handler[h] = Idle /\ request[h] = Lossy!None /\ request[h].at = "none"
  BY <1>1, <1>2
<1>4. PageTypes
  <2>1. pageRecord \in [PageDay -> Lossy!RecordStatus] /\ page \in Lossy!Page
    BY <1>1 DEF Lossy!RecordStatus, Lossy!Page
  <2>2. pageNow \in 0..MaxTime /\ today \in PageDay
    BY <1>1, PageDays
  <2>3. pageSheet \in [PageDay -> PageSheet \cup {Lossy!NoSheet}] /\ handler \in [Flight -> {Idle} \cup PageBatch]
    BY <1>1
  <2>4. QED
    BY <1>1, <2>1, <2>2, <2>3 DEF PageTypes
<1>5. KeysAreActions /\ AnswersAreEvents
  <2>1. \A k \in Correction, type \in EventType : ~StandsFor(k, type)
    BY <1>1, <1>2, <1>3 DEF StandsFor
  <2>2. QED
    BY <1>1, <1>3, <2>1 DEF KeysAreActions, AnswersAreEvents
<1>6. ASSUME part = "reliable"
      PROVE  UpToDate
  <2>1. Lossy!LatestType = "NONE" /\ Lossy!LastToday = "NONE"
    BY <1>1 DEF Lossy!LatestType, Lossy!LastToday, Lossy!DayEvents
  <2>2. pageRecord[1] = "NONE"
    BY <1>1, PageDays
  <2>3. page = Lossy!Loaded
    BY <1>1, <2>1, <2>2 DEF Lossy!Loaded
  <2>4. QED
    BY <1>1, <1>3, <2>1, <2>2, <2>3 DEF UpToDate, RecordOf
<1>7. QED
  BY <1>4, <1>5, <1>6 DEF SuitePage, PageInv

\* Every step of every setting keeps it.
LEMMA SuitePageNext ==
  ASSUME SuitePage, [SuiteNext]_suiteVars
  PROVE  SuitePage'
<1>1. PageInv /\ PageTypes /\ part' = part
  BY DEF SuitePage, PageInv, SuiteNext, suiteVars
<1>2. CASE UNCHANGED pageVars
  <2>1. PageInv'
    BY <1>1, <1>2, PageNext DEF pageVars, PageTypes
  <2>2. UpToDate => UpToDate'
    BY <1>2 DEF pageVars, UpToDate, Lossy!LatestType, Lossy!Latest, Lossy!Loaded, Lossy!LastToday, Lossy!DayEvents,
                Lossy!None, RecordOf, Lossy!transitionAllowed
  <2>3. QED
    BY <1>1, <2>1, <2>2 DEF SuitePage
<1>3. CASE part = "lossy" /\ Lossy!Next
  <2>1. today' \in PageDay
    <3>1. today \in 1..2 /\ PageDay = 1..2
      BY <1>1, <1>3 DEF PageTypes, PageDay
    <3>2. today' = today \/ (today < 2 /\ today' = today + 1)
      BY <1>3 DEF Lossy!Next, Lossy!Load, Lossy!Midnight, Lossy!Act, Lossy!Receive, Lossy!Ignore, Lossy!Lose,
                  Lossy!Accept, Lossy!Preflight, Lossy!Replay, Lossy!RefuseTransition, Lossy!Commit,
                  Lossy!CommitClock, Lossy!Fail, Lossy!Drop
    <3>3. QED
      BY <3>1, <3>2
  <2>2. QED
    BY <1>1, <1>3, <2>1, PageNext DEF SuitePage
<1>4. CASE part = "reliable" /\ Reliable!Next
  <2>1. today' = today /\ UpToDate
    BY <1>1, <1>4, ReliableIsLossy DEF SuitePage
  <2>2. PICK h \in Flight : ReliableStep(h)
    BY <1>1, <1>4, ReliableIsLossy
  <2>3. Lossy!Next
    BY <2>2, PageNames DEF ReliableStep, Lossy!Next
  <2>4. today' \in PageDay
    BY <1>1, <2>1 DEF PageTypes
  <2>5. PageInv'
    BY <1>1, <2>3, <2>4, PageNext
  <2>6. UpToDate'
    BY <1>1, <1>4, <2>1, <2>2, <2>5, UpToDateClient, UpToDatePreflight, UpToDateCommit DEF ReliableStep
  <2>7. QED
    BY <2>5, <2>6 DEF SuitePage
<1>5. QED
  BY <1>2, <1>3, <1>4 DEF SuiteNext, suiteVars

\* Of the events of one type that the page was never told of there is at most one: they all
\* have the pending key.
LEMMA RetriesEnd == PageInv => Lossy!RetriesAddNothing
<1> SUFFICES ASSUME PageInv, NEW type \in EventType
             PROVE  Lossy!Cardinality({e \in pageEvents : e.type = type /\ e.key \notin acked}) <= 1
  BY PageNames DEF Lossy!RetriesAddNothing
<1> DEFINE S == {e \in pageEvents : e.type = type /\ e.key \notin acked}
<1>1. Lossy!Cardinality(S) = Cardinality(S)
  BY DEF Lossy!Cardinality, Cardinality
<1>2. \A e \in S : e.key = pending[type]
  <2> SUFFICES ASSUME NEW e \in S PROVE e.key = pending[type]
    OBVIOUS
  <2>1. e.key \in Correction /\ StandsFor(e.key, type)
    BY DEF PageInv, PageTypes, PageEvent, StandsFor
  <2>2. QED
    BY <2>1 DEF PageInv, KeysAreActions
<1>3. \A e, f \in S : e = f
  BY <1>2 DEF PageInv, AnswersAreEvents
<1> HIDE DEF S
<1>4. Cardinality(S) <= 1
  <2>1. CASE S = {}
    BY <2>1, FS_EmptySet
  <2>2. CASE S # {}
    <3>1. PICK e : S = {e}
      BY <1>3, <2>2
    <3>2. QED
      BY <3>1, FS_Singleton
  <2>3. QED
    BY <2>1, <2>2
<1>5. QED
  BY <1>1, <1>4 DEF S

\* The types of the page on the lossy network, whose days are two.
LEMMA LossyTypes == PageTypes /\ part = "lossy" => Lossy!TypeOK
<1> SUFFICES ASSUME PageTypes, part = "lossy" PROVE Lossy!TypeOK
  OBVIOUS
<1>1. PageDay = Lossy!Day
  BY DEF PageDay, Lossy!Day
<1>2. PageEvent = Lossy!Event /\ PageSheet = Lossy!Sheet
  BY <1>1, PageNames DEF PageEvent, Lossy!Event, PageSheet, Lossy!Sheet
<1>3. PageBatch = Lossy!ClockBatch
  BY <1>2 DEF PageBatch, Lossy!ClockBatch
<1>4. handler \in [Flight -> {Lossy!Idle} \cup Lossy!ClockBatch \cup Lossy!GpsBatch]
  BY <1>3, PageNames DEF PageTypes
<1>5. Lossy!TablesTypeOK
  BY <1>1, <1>2 DEF PageTypes, Lossy!TablesTypeOK
<1>6. Lossy!ClockTypeOK
  BY <1>4 DEF Lossy!ClockTypeOK
<1>7. QED
  BY <1>5, <1>6, PageNames DEF PageTypes, Lossy!TypeOK

\* A page that waits for nothing offers what the last event allows.
LEMMA OffersAreAllowed ==
  ASSUME PageTypes, part = "reliable", UpToDate
  PROVE  Reliable!OfferedIsAllowed
<1> SUFFICES ASSUME Reliable!Quiet, NEW type \in EventType, Reliable!Offered(type)
             PROVE  Reliable!transitionAllowed(Reliable!LatestType, type)
  BY SameRules, PageNames DEF Reliable!OfferedIsAllowed
<1> DEFINE last == Lossy!LatestType
<1>1. \A h \in Flight : request[h].at # "answered"
  BY PageNames, SameRules, PageParameters DEF Reliable!Quiet, Reliable!None, Lossy!None
<1>2. page = Lossy!Loaded /\ pageRecord[1] = RecordOf(last)
  BY <1>1 DEF UpToDate
<1>3. page.attendance = RecordOf(last) /\ page.last = last
  BY <1>2, OneDay DEF Lossy!Loaded
<1>4. last \in EventType \cup {"NONE"}
  BY PageLast DEF PageTypes, PageEvent, Lossy!LatestType
<1>5. Reliable!LatestType = last
  BY SameRules DEF Reliable!LatestType, Lossy!LatestType
<1> HIDE DEF last
<1>6. Reliable!transitionAllowed(last, type)
  BY <1>3, <1>4 DEF Reliable!Offered, RecordOf, Reliable!transitionAllowed, EventType
<1>7. QED
  BY <1>5, <1>6

\* lib/attendance.ts and EmployeePage.tsx: an action the page reports as done has its event, of
\* its own type, whatever was lost before; repeating what nothing acknowledged adds no second
\* event; and on a reliable network every button that is offered is accepted.
THEOREM PageTellsTheTruthHolds == Suite => PageTellsTheTruth
<1>1. SuitePage => RetryAddsNothing
  BY RetriesEnd, LossyTypes, OffersAreAllowed DEF SuitePage, PageInv, RetryAddsNothing
<1>2. SuitePage /\ [SuiteNext]_suiteVars => SuitePage'
  BY SuitePageNext
<1>3. SuitePage =>
        [\A h \in Flight : Lossy!Acknowledged(h) =>
           \E e \in pageEvents : e.key = request[h].key /\ e.type = request[h].type]_(Lossy!vars)
  BY DEF SuitePage, PageInv, AnswersAreEvents, Lossy!Acknowledged
<1>4. QED
  BY <1>1, <1>2, <1>3, SuitePageInit, PTL DEF Suite, PageTellsTheTruth, Lossy!DoneIsRecorded
=============================================================================
