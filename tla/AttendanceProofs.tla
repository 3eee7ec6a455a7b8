-------------------------- MODULE AttendanceProofs --------------------------
(***************************************************************************)
(* Proofs about AttendanceSystem, for every set of keys and requests, any  *)
(* number of days and of clock requests, and any pay period.               *)
(***************************************************************************)
EXTENDS AttendanceSystem, FiniteSetTheorems, SequenceTheorems, TLAPS

-----------------------------------------------------------------------------
(* Rows and events.                                                        *)

\* A calculated row is a timesheet; it is COMPLETE only without a code, and the
\* calculator never approves or locks a day.
LEMMA CalculatedRow ==
  ASSUME NEW rows \in SUBSET Event, NEW measured
  PROVE  LET row == CalculatedSheet(rows, measured)
         IN /\ row \in Sheet
            /\ row.state \in {"OPEN", "COMPLETE", "EXCEPTION"}
            /\ row.state \in {"COMPLETE", "APPROVED"} => row.codes = {}
            /\ row.basis = rows
<1> DEFINE types == TypesInOrder(rows)
           codes == DayCodes(types, measured)
           state == DayState(types, measured)
<1>1. codes \in SUBSET ExceptionCode
  BY DEF DayCodes
<1>2. state \in {"OPEN", "COMPLETE", "EXCEPTION"}
  BY DEF DayState
<1>3. state = "COMPLETE" => codes = {}
  BY DEF DayState
<1>4. CalculatedSheet(rows, measured) = [state |-> state, codes |-> codes, basis |-> rows]
  BY DEF CalculatedSheet
<1> HIDE DEF types, codes, state
<1>5. QED
  BY <1>1, <1>2, <1>3, <1>4 DEF Sheet, SheetState

\* Editing the state and the codes of a row, or of a day without one, gives a row.
LEMMA EditedRow ==
  ASSUME NEW row \in Sheet \cup {NoSheet}, NEW state \in SheetState,
         NEW codes \in SUBSET ExceptionCode
  PROVE  Edited(row, state, codes) \in Sheet
<1>1. row.basis \subseteq Event
  BY DEF Sheet, NoSheet
<1>2. QED
  BY <1>1 DEF Edited, Sheet

\* A non-empty set of events has one that no other is later than.
LatestExists == events # {} => \E e \in events : \A f \in events : f.at <= e.at

\* Latest is such an event.
LEMMA LatestIsLast ==
  ASSUME LatestExists, events # {}
  PROVE  Latest \in events /\ \A f \in events : f.at <= Latest.at
BY DEF LatestExists, Latest

\* Adding an event to the table keeps the types and the existence of a latest one.
LEMMA AddEvent ==
  ASSUME events \subseteq Event, LatestExists, NEW e \in Event, events' = events \cup {e}
  PROVE  events' \subseteq Event /\ LatestExists'
<1>1. events' \subseteq Event
  OBVIOUS
<1>2. \A f \in events' : f.at \in Nat
  BY <1>1, BoundsAssumption DEF Event
<1>3. CASE events = {}
  BY <1>2, <1>3 DEF LatestExists
<1>4. CASE events # {}
  <2>1. PICK l \in events : \A f \in events : f.at <= l.at
    BY <1>4 DEF LatestExists
  <2>2. CASE l.at <= e.at
    <3>1. \A f \in events' : f.at <= e.at
      BY <1>2, <2>1, <2>2
    <3>2. QED
      BY <1>1, <3>1 DEF LatestExists
  <2>3. CASE ~(l.at <= e.at)
    <3>1. \A f \in events' : f.at <= l.at
      BY <1>2, <2>1, <2>3
    <3>2. QED
      BY <1>1, <2>1, <3>1 DEF LatestExists
  <2>4. QED
    BY <2>2, <2>3
<1>5. QED
  BY <1>1, <1>3, <1>4

-----------------------------------------------------------------------------
(* The order of the events of a day, and what the calculator makes of the   *)
(* last one.                                                               *)

\* A finite set's subsets, however they are chosen, have a smallest one: induction over the
\* size of a set, as a search for the smallest counterexample.
LEMMA MinimalSubset ==
  ASSUME NEW S, IsFiniteSet(S), NEW T, \A x \in T : x \subseteq S, T # {}
  PROVE  \E x \in T : \A y \in T : y \subseteq x => y = x
<1>1. IsWellFoundedOn(StrictSubsetOrdering(S), SUBSET S)
  BY FS_StrictSubsetOrderingWellFounded, FS_FiniteSubsetsOfFinite
<1>2. T \in SUBSET SUBSET S
  OBVIOUS
<1>3. \E x \in T : \A y \in T : ~(<<y, x>> \in StrictSubsetOrdering(S))
  BY <1>1, <1>2, WFMin
<1>4. QED
  BY <1>2, <1>3 DEF StrictSubsetOrdering

\* A set of numbers has a least one.
LEMMA LeastNumber ==
  ASSUME NEW T \in SUBSET Nat, T # {}
  PROVE  \E n \in T : \A m \in T : n <= m
<1>1. PICK t \in T : TRUE
  OBVIOUS
<1> DEFINE below == {0..n : n \in {m \in T : m <= t}}
<1>2. t \in Nat
  BY <1>1
<1>3. IsFiniteSet(0..t)
  BY <1>2, FS_Interval
<1>4. below \in SUBSET SUBSET (0..t)
  BY <1>2
<1>5. below # {}
  BY <1>1, <1>2
<1>6. PICK x \in below : \A y \in below : y \subseteq x => y = x
  <2> DEFINE whole == 0..t
  <2>1. IsFiniteSet(whole) /\ (\A x \in below : x \subseteq whole) /\ below # {}
    BY <1>3, <1>4, <1>5
  <2> HIDE DEF below, whole
  <2>2. QED
    BY <2>1, MinimalSubset
<1>7. PICK n \in T : n <= t /\ x = 0..n
  BY <1>6
<1>8. ASSUME NEW m \in T, m < n
      PROVE  FALSE
  <2>1. m \in Nat /\ n \in Nat
    OBVIOUS
  <2>2. 0..m \in below
    BY <1>2, <1>7, <1>8, <2>1
  <2>3. 0..m \subseteq x
    BY <1>7, <1>8, <2>1
  <2>4. 0..m = 0..n
    BY <1>6, <1>7, <2>2, <2>3
  <2>5. n \in 0..n /\ n \notin 0..m
    BY <1>8, <2>1
  <2>6. QED
    BY <2>4, <2>5
<1>9. QED
  <2>1. \A m \in T : n <= m
    <3> SUFFICES ASSUME NEW m \in T PROVE n <= m
      OBVIOUS
    <3>1. m \in Nat /\ n \in Nat
      OBVIOUS
    <3>2. QED
      BY <1>8, <3>1
  <2>2. QED
    BY <2>1

\* The modes and codes that the pairing loop can reach.
Scanned == [mode : {"off", "working", "break"}, codes : SUBSET PairingCodes]

\* One event keeps the loop in its modes; only a clock-out leaves it off duty without a code.
LEMMA ScanStep ==
  ASSUME NEW s \in Scanned, NEW type \in EventType
  PROVE  /\ ScanEvent(s, type) \in Scanned
         /\ type # "CLOCK_OUT" /\ ScanEvent(s, type).mode = "off" => ScanEvent(s, type).codes # {}
<1>1. CASE type = "CLOCK_IN"
  BY <1>1 DEF ScanEvent, Scanned, PairingCodes
<1>2. CASE type = "BREAK_START"
  BY <1>2 DEF ScanEvent, Scanned, PairingCodes
<1>3. CASE type = "BREAK_END"
  BY <1>3 DEF ScanEvent, Scanned, PairingCodes
<1>4. CASE type = "CLOCK_OUT"
  BY <1>4 DEF ScanEvent, Scanned, PairingCodes
<1>5. QED
  BY <1>1, <1>2, <1>3, <1>4 DEF EventType

\* The loop is a recursive function, once one exists; so its last step is one of these.
LEMMA ScanEnds ==
  ASSUME NEW n \in Nat \ {0}, NEW types \in [1..n -> EventType]
  PROVE  \E s \in Scanned : Scan(types) = ScanEvent(s, types[n])
<1> DEFINE Good(k) == \E g \in [0..k -> Scanned] : \A i \in 0..k : g[i] = IF i = 0 THEN ScanStart ELSE ScanEvent(g[i - 1], types[i])
           bad == {k \in 0..n : ~ Good(k)}
           F(g) == [i \in 0..n |-> IF i = 0 THEN ScanStart ELSE ScanEvent(g[i - 1], types[i])]
           scan == CHOOSE g : g = F(g)
<1>1. Good(0)
  <2>1. ScanStart \in Scanned
    BY DEF ScanStart, Scanned
  <2> DEFINE g == [i \in 0..0 |-> ScanStart]
  <2>2. g \in [0..0 -> Scanned] /\ \A i \in 0..0 : i = 0 /\ g[i] = ScanStart
    BY <2>1
  <2> HIDE DEF g
  <2>3. \A i \in 0..0 : g[i] = IF i = 0 THEN ScanStart ELSE ScanEvent(g[i - 1], types[i])
    BY <2>2
  <2>4. QED
    BY <2>2, <2>3
<1>2. ASSUME NEW k \in Nat, k < n, Good(k)
      PROVE  Good(k + 1)
  <2>1. PICK g \in [0..k -> Scanned] : \A i \in 0..k : g[i] = IF i = 0 THEN ScanStart ELSE ScanEvent(g[i - 1], types[i])
    BY <1>2
  <2> DEFINE h == [i \in 0..(k + 1) |-> IF i = k + 1 THEN ScanEvent(g[k], types[k + 1]) ELSE g[i]]
  <2>2. ScanEvent(g[k], types[k + 1]) \in Scanned
    BY <1>2, ScanStep
  <2>3. h \in [0..(k + 1) -> Scanned]
    BY <1>2, <2>2
  <2>4. \A i \in 0..(k + 1) : h[i] = IF i = 0 THEN ScanStart ELSE ScanEvent(h[i - 1], types[i])
    <3> SUFFICES ASSUME NEW i \in 0..(k + 1) PROVE h[i] = IF i = 0 THEN ScanStart ELSE ScanEvent(h[i - 1], types[i])
      OBVIOUS
    <3>1. CASE i = k + 1
      BY <1>2, <3>1
    <3>2. CASE i \in 0..k
      BY <1>2, <2>1, <3>2
    <3>3. QED
      BY <1>2, <3>1, <3>2
  <2>5. QED
    BY <2>3, <2>4
<1>3. bad = {}
  <2> SUFFICES ASSUME bad # {} PROVE FALSE
    OBVIOUS
  <2>1. PICK k \in bad : \A m \in bad : k <= m
    <3>1. bad \in SUBSET Nat
      OBVIOUS
    <3> HIDE DEF bad
    <3>2. QED
      BY <3>1, LeastNumber
  <2> HIDE DEF Good
  <2>2. k # 0 /\ k - 1 \in Nat /\ k - 1 \notin bad /\ k - 1 < n
    BY <1>1, <2>1
  <2>3. Good(k - 1) /\ ~ Good((k - 1) + 1)
    BY <2>1, <2>2
  <2>4. QED
    BY <1>2, <2>2, <2>3
<1>4. PICK g \in [0..n -> Scanned] : \A i \in 0..n : g[i] = IF i = 0 THEN ScanStart ELSE ScanEvent(g[i - 1], types[i])
  BY <1>3
<1>5. g = F(g)
  BY <1>4
<1>6. scan = F(scan)
  BY <1>5
<1>7. Len(types) = n
  <2>1. types \in Seq(EventType)
    BY SeqDef
  <2>2. Len(types) \in Nat /\ DOMAIN types = 1..Len(types)
    BY <2>1, LenProperties
  <2>3. DOMAIN types = 1..n
    OBVIOUS
  <2>4. QED
    BY <2>2, <2>3
<1>12. Scan(types) = scan[n]
  BY <1>7 DEF Scan
<1> HIDE DEF scan
<1>8. \A i \in 0..n : scan[i] = IF i = 0 THEN ScanStart ELSE ScanEvent(scan[i - 1], types[i])
  BY <1>6
<1> DEFINE differ == {i \in 0..n : scan[i] # g[i]}
<1>9. differ = {}
  <2> SUFFICES ASSUME differ # {} PROVE FALSE
    OBVIOUS
  <2>1. PICK k \in differ : \A m \in differ : k <= m
    <3>1. differ \in SUBSET Nat
      OBVIOUS
    <3> HIDE DEF differ
    <3>2. QED
      BY <3>1, LeastNumber
  <2>2. k = 0 \/ scan[k - 1] = g[k - 1]
    BY <2>1
  <2>3. QED
    BY <1>4, <1>8, <2>2
<1>10. scan[n] = ScanEvent(g[n - 1], types[n]) /\ g[n - 1] \in Scanned
  BY <1>4, <1>9
<1>11. QED
  BY <1>10, <1>12

\* How many rows are before the row e, and up to it.
Before(rows, e) == {f \in rows : f.at < e.at}
UpTo(rows, e) == {f \in rows : f.at <= e.at}

\* Every place in the order has a row.
LEMMA RowInPlace ==
  ASSUME NEW rows \in SUBSET Event, IsFiniteSet(rows), NEW i \in 1..Cardinality(rows)
  PROVE  \E e \in rows : Cardinality(Before(rows, e)) < i /\ Cardinality(UpTo(rows, e)) >= i
<1>1. \A f \in rows : f.at \in Nat
  BY BoundsAssumption DEF Event
<1>2. \A e \in rows : /\ IsFiniteSet(Before(rows, e)) /\ Cardinality(Before(rows, e)) \in Nat
                      /\ IsFiniteSet(UpTo(rows, e)) /\ Cardinality(UpTo(rows, e)) \in Nat
  <2>1. \A e \in rows : Before(rows, e) \in SUBSET rows /\ UpTo(rows, e) \in SUBSET rows
    BY DEF Before, UpTo
  <2>2. QED
    BY <2>1, FS_Subset, FS_CardinalityType
<1>3. ASSUME NEW R \in SUBSET rows, R # {}
      PROVE  \E e \in R : \A f \in R : f.at <= e.at
  <2> DEFINE rest == {{f \in R : e.at <= f.at} : e \in R}
  <2>1. IsFiniteSet(R) /\ (\A x \in rest : x \subseteq R) /\ rest # {}
    <3>1. IsFiniteSet(R)
      BY FS_Subset
    <3>2. (\A x \in rest : x \subseteq R) /\ rest # {}
      BY <1>3
    <3>3. QED
      BY <3>1, <3>2
  <2>2. PICK x \in rest : \A y \in rest : y \subseteq x => y = x
    <3> HIDE DEF rest
    <3>1. QED
      BY <2>1, MinimalSubset
  <2>3. PICK e \in R : x = {f \in R : e.at <= f.at}
    OBVIOUS
  <2>4. ASSUME NEW f \in R, ~ (f.at <= e.at) PROVE FALSE
    <3>1. {g \in R : f.at <= g.at} \in rest
      OBVIOUS
    <3>2. {g \in R : f.at <= g.at} \subseteq x /\ e \in x /\ e \notin {g \in R : f.at <= g.at}
      BY <1>1, <2>3, <2>4
    <3>3. QED
      BY <2>2, <3>1, <3>2
  <2>5. QED
    BY <2>4
<1> DEFINE enough == {e \in rows : Cardinality(UpTo(rows, e)) >= i}
           times == {e.at : e \in enough}
<1>4. enough # {}
  <2>1. rows # {}
    BY FS_EmptySet
  <2>2. PICK e \in rows : \A f \in rows : f.at <= e.at
    BY <1>3, <2>1
  <2>3. UpTo(rows, e) = rows
    BY <2>2 DEF UpTo
  <2>4. i <= Cardinality(rows) /\ Cardinality(rows) \in Nat
    BY FS_CardinalityType
  <2>5. QED
    BY <2>3, <2>4
<1>5. PICK t \in times : \A u \in times : t <= u
  <2>1. times \in SUBSET Nat /\ times # {}
    BY <1>1, <1>4
  <2> HIDE DEF times
  <2>2. QED
    BY <2>1, LeastNumber
<1>6. PICK e \in enough : t = e.at
  OBVIOUS
<1>7. ASSUME ~ (Cardinality(Before(rows, e)) < i) PROVE FALSE
  <2>1. Before(rows, e) # {}
    BY <1>7, FS_EmptySet
  <2>2. Before(rows, e) \in SUBSET rows
    BY DEF Before
  <2>3. PICK f \in Before(rows, e) : \A g \in Before(rows, e) : g.at <= f.at
    BY <1>3, <2>1, <2>2
  <2>4. f \in rows /\ f.at < e.at /\ UpTo(rows, f) = Before(rows, e)
    BY <1>1, <2>3 DEF Before, UpTo
  <2>5. f \in enough
    BY <1>2, <1>7, <2>4
  <2>6. QED
    BY <1>1, <1>5, <1>6, <2>4, <2>5
<1>8. QED
  BY <1>6, <1>7

\* The types of rows with a last one, in order: one for every row, and that of the last one last.
LEMMA LastType ==
  ASSUME NEW rows \in SUBSET Event, IsFiniteSet(rows), NEW last \in rows,
         \A f \in rows : f # last => f.at < last.at
  PROVE  /\ Cardinality(rows) \in Nat \ {0}
         /\ TypesInOrder(rows) \in [1..Cardinality(rows) -> EventType]
         /\ TypesInOrder(rows)[Cardinality(rows)] = last.type
<1> DEFINE n == Cardinality(rows)
           InPlace(e, i) == Cardinality(Before(rows, e)) < i /\ Cardinality(UpTo(rows, e)) >= i
           place(i) == CHOOSE e \in rows : InPlace(e, i)
<1>1. n \in Nat \ {0}
  BY FS_CardinalityType, FS_EmptySet
<1>2. TypesInOrder(rows) = [i \in 1..n |-> place(i).type]
  BY DEF TypesInOrder, Before, UpTo
<1>3. \A i \in 1..n : place(i) \in rows /\ InPlace(place(i), i)
  <2>1. \A i \in 1..n : \E e \in rows : InPlace(e, i)
    BY RowInPlace
  <2> HIDE DEF InPlace
  <2>2. QED
    BY <2>1
<1>4. place(n) = last
  <2> DEFINE p == place(n)
  <2>1. p \in rows /\ Cardinality(UpTo(rows, p)) >= n
    BY <1>1, <1>3
  <2> HIDE DEF p
  <2>2. UpTo(rows, p) \in SUBSET rows
    BY DEF UpTo
  <2>3. UpTo(rows, p) = rows
    BY <1>1, <2>1, <2>2, FS_Subset, FS_CardinalityType
  <2>4. last.at <= p.at
    BY <2>3 DEF UpTo
  <2>5. last.at \in Nat /\ p.at \in Nat
    BY <2>1, BoundsAssumption DEF Event
  <2>6. p = last
    BY <2>1, <2>4, <2>5
  <2>7. QED
    BY <2>6 DEF p
<1> HIDE DEF place
<1>5. \A i \in 1..n : place(i).type \in EventType
  BY <1>3 DEF Event
<1>6. QED
  BY <1>1, <1>2, <1>4, <1>5

\* The calculator leaves a day payable only when its last event is the clock-out.
LEMMA PayableIsClosed ==
  ASSUME NEW rows \in SUBSET Event, IsFiniteSet(rows), NEW last \in rows,
         \A f \in rows : f # last => f.at < last.at,
         NEW measured, CalculatedSheet(rows, measured).state \in {"COMPLETE", "APPROVED"}
  PROVE  last.type = "CLOCK_OUT"
<1> DEFINE n == Cardinality(rows)
           types == TypesInOrder(rows)
<1>1. n \in Nat \ {0} /\ types \in [1..n -> EventType] /\ types[n] = last.type
  BY LastType
<1> HIDE DEF n, types
<1>2. PICK s \in Scanned : Scan(types) = ScanEvent(s, types[n])
  BY <1>1, ScanEnds
<1>3. types[n] \in EventType
  BY <1>1
<1>4. Scan(types) \in Scanned /\ (types[n] # "CLOCK_OUT" /\ Scan(types).mode = "off" => Scan(types).codes # {})
  BY <1>2, <1>3, ScanStep
<1>5. Scan(types).codes \subseteq DayCodes(types, measured)
  BY <1>4 DEF DayCodes, Scanned, ExceptionCode
<1>6. DayState(types, measured) \in {"COMPLETE", "APPROVED"}
  BY DEF CalculatedSheet, types
<1>7. Scan(types).mode = "off" /\ DayCodes(types, measured) = {}
  BY <1>6 DEF DayState
<1>8. QED
  BY <1>1, <1>4, <1>5, <1>7

-----------------------------------------------------------------------------
(* The work date of a clock action.                                        *)

\* The preflight's work date is a day: only CLOCK_IN is allowed without events.
LEMMA WorkDateIsDay ==
  ASSUME TypeOK, LatestExists, NEW type \in EventType, transitionAllowed(LatestType, type)
  PROVE  /\ WorkDate(type) \in Day
         /\ type # "CLOCK_IN" => events # {}
<1>1. type # "CLOCK_IN" => events # {}
  BY DEF transitionAllowed, LatestType
<1>2. CASE type = "CLOCK_IN"
  BY <1>2 DEF WorkDate, TypeOK, TablesTypeOK
<1>3. CASE type # "CLOCK_IN"
  BY <1>1, <1>3, LatestIsLast DEF WorkDate, TypeOK, TablesTypeOK, Event
<1>4. QED
  BY <1>1, <1>2, <1>3

-----------------------------------------------------------------------------
(* Type correctness.                                                       *)

TypeInv == TypeOK /\ LatestExists

\* The initial tables are well typed.
LEMMA TypeInit == Init => TypeInv
BY BoundsAssumption
   DEF Init, TablesInit, ClockInit, CronInit, PeriodInit, TypeInv, TypeOK, TablesTypeOK,
       ClockTypeOK, CronTypeOK, PeriodTypeOK, LatestExists, Day, RecordStatus, NoSheet,
       PeriodStatus, TransitionStep

\* A preflight prepares a well-typed batch.
LEMMA TypePreflight ==
  ASSUME TypeInv, NEW h \in Handler, NEW type \in EventType, NEW key \in Key,
         Preflight(h, type, key)
  PROVE  ClockTypeOK' /\ now' \in 0..MaxTime
<1> DEFINE day   == WorkDate(type)
           event == [type |-> type, day |-> day, key |-> key, at |-> now + 1]
<1>1. now \in 0..MaxTime /\ now < MaxTime /\ MaxTime \in Nat
  BY BoundsAssumption DEF TypeInv, TypeOK, TablesTypeOK, Preflight
<1>2. day \in Day
  BY WorkDateIsDay DEF TypeInv, Preflight
<1>3. event \in Event
  BY <1>1, <1>2 DEF Event
<1>4. DayEvents(day) \cup {event} \in SUBSET Event
  BY <1>3 DEF DayEvents, TypeInv, TypeOK, TablesTypeOK
<1>5. record[day] \in RecordStatus
  BY <1>2 DEF TypeInv, TypeOK, TablesTypeOK
<1>6. PICK measured \in SUBSET MeasuredCodes :
        handler' = [handler EXCEPT ![h] =
          [pc |-> "clock", event |-> event, found |-> record[day],
           row |-> CalculatedSheet(DayEvents(day) \cup {event}, measured)]]
  BY DEF Preflight
<1>7. CalculatedSheet(DayEvents(day) \cup {event}, measured) \in Sheet
  BY <1>4, CalculatedRow
<1> HIDE DEF event, day
<1>8. [pc |-> "clock", event |-> event, found |-> record[day],
       row |-> CalculatedSheet(DayEvents(day) \cup {event}, measured)] \in ClockBatch
  BY <1>3, <1>5, <1>7 DEF ClockBatch
<1>9. ClockTypeOK'
  BY <1>6, <1>8 DEF TypeInv, TypeOK, ClockTypeOK
<1>10. now' \in 0..MaxTime
  BY <1>1 DEF Preflight
<1>11. QED
  BY <1>9, <1>10

\* The kind of a batch tells its fields.
LEMMA BatchKinds ==
  ASSUME TypeInv, NEW h \in Handler
  PROVE  /\ handler[h].pc = "clock" => handler[h] \in ClockBatch
         /\ handler[h].pc = "gps" => handler[h] \in GpsBatch
         /\ handler[h].pc = "idle" => handler[h] = Idle
BY DEF TypeInv, TypeOK, ClockTypeOK, ClockBatch, GpsBatch, Idle

\* A step of a clock request keeps the types.
LEMMA TypeClock ==
  ASSUME TypeInv, ClockNext, UNCHANGED <<flagging, period, transition>>
  PROVE  TypeInv'
<1>1. PICK h \in Handler :
        \/ \E type \in EventType, key \in Key : Preflight(h, type, key)
        \/ CommitClock(h)
        \/ GpsRead(h)
        \/ CommitGps(h)
        \/ Drop(h)
  BY DEF ClockNext
<1>2. CronTypeOK' /\ PeriodTypeOK'
  BY DEF TypeInv, TypeOK, CronTypeOK, PeriodTypeOK
<1>3. handler' = [handler EXCEPT ![h] = Idle] => ClockTypeOK'
  BY DEF TypeInv, TypeOK, ClockTypeOK
<1>4. ASSUME NEW type \in EventType, NEW key \in Key, Preflight(h, type, key)
      PROVE  TypeInv'
  <2>1. ClockTypeOK' /\ now' \in 0..MaxTime
    BY <1>4, TypePreflight
  <2>2. UNCHANGED <<tables, today>>
    BY <1>4 DEF Preflight
  <2>3. QED
    BY <1>2, <2>1, <2>2 DEF TypeInv, TypeOK, TablesTypeOK, LatestExists, tables
<1>5. CASE CommitClock(h)
  <2> DEFINE b == handler[h]
  <2>1. b \in ClockBatch
    BY <1>5, BatchKinds DEF CommitClock
  <2>2. b.event \in Event /\ b.event.day \in Day /\ b.row \in Sheet
    BY <2>1 DEF ClockBatch, Event
  <2>3. events' = events \cup {b.event}
    BY <1>5 DEF CommitClock
  <2> HIDE DEF b
  <2>4. events' \subseteq Event /\ LatestExists'
    BY <2>2, <2>3, AddEvent DEF TypeInv, TypeOK, TablesTypeOK
  <2>5. RecordAfter(b) \in RecordStatus
    BY <2>2 DEF RecordAfter, RecordStatus, TypeInv, TypeOK, TablesTypeOK
  <2>6. record' \in [Day -> RecordStatus] /\ sheet' \in [Day -> Sheet \cup {NoSheet}]
    BY <1>5, <2>2, <2>5 DEF CommitClock, SheetAfter, TypeInv, TypeOK, TablesTypeOK, b
  <2>7. ClockTypeOK' /\ today' = today /\ now' = now
    BY <1>3, <1>5 DEF CommitClock, Finish
  <2>8. QED
    BY <1>2, <2>4, <2>6, <2>7 DEF TypeInv, TypeOK, TablesTypeOK
<1>6. CASE GpsRead(h)
  <2>1. [pc |-> "gps", day |-> today, seen |-> sheet[today].state,
         codes |-> sheet[today].codes] \in GpsBatch
    BY DEF GpsBatch, TypeInv, TypeOK, TablesTypeOK, Sheet, NoSheet
  <2>2. ClockTypeOK' /\ UNCHANGED <<tables, today, now>>
    BY <1>6, <2>1 DEF GpsRead, TypeInv, TypeOK, ClockTypeOK
  <2>3. QED
    BY <1>2, <2>2 DEF TypeInv, TypeOK, TablesTypeOK, LatestExists, tables
<1>7. CASE CommitGps(h)
  <2> DEFINE b == handler[h]
             row == Edited(sheet[b.day], GpsState(b.seen),
                           b.codes \cup {"GPS_ACCURACY_REJECTED"})
  <2>1. b \in GpsBatch
    BY <1>7, BatchKinds DEF CommitGps
  <2>2. b.day \in Day /\ b.codes \subseteq ExceptionCode
    BY <2>1 DEF GpsBatch
  <2>3. GpsState(b.seen) \in SheetState
    BY DEF GpsState, SheetState
  <2>4. row \in Sheet
    <3>1. sheet[b.day] \in Sheet \cup {NoSheet}
      BY <2>2 DEF TypeInv, TypeOK, TablesTypeOK
    <3>2. b.codes \cup {"GPS_ACCURACY_REJECTED"} \in SUBSET ExceptionCode
      BY <2>2 DEF ExceptionCode
    <3> HIDE DEF b
    <3>3. QED
      BY <2>3, <3>1, <3>2, EditedRow
  <2>5. sheet' = [sheet EXCEPT ![b.day] = row]
    BY <1>7, <2>2 DEF CommitGps, TypeInv, TypeOK, TablesTypeOK
  <2> HIDE DEF row
  <2>6. sheet' \in [Day -> Sheet \cup {NoSheet}]
    BY <2>2, <2>4, <2>5 DEF TypeInv, TypeOK, TablesTypeOK
  <2>7. ClockTypeOK' /\ UNCHANGED <<events, record, today, now>>
    BY <1>3, <1>7 DEF CommitGps, Finish
  <2>8. QED
    BY <1>2, <2>6, <2>7 DEF TypeInv, TypeOK, TablesTypeOK, LatestExists
<1>8. CASE Drop(h)
  BY <1>2, <1>3, <1>8 DEF Drop, Finish, TypeInv, TypeOK, TablesTypeOK, LatestExists, tables
<1>9. QED
  BY <1>1, <1>4, <1>5, <1>6, <1>7, <1>8

\* A step of the cron job keeps the types.
LEMMA TypeCron ==
  ASSUME TypeInv, CronNext, UNCHANGED <<handler, period, transition>>
  PROVE  TypeInv'
<1>1. ClockTypeOK' /\ PeriodTypeOK'
  BY DEF TypeInv, TypeOK, ClockTypeOK, PeriodTypeOK
<1>2. CASE MarkAbsent
  <2>1. [state |-> "EXCEPTION", codes |-> {"ABSENT"}, basis |-> {}] \in Sheet
    BY DEF Sheet, SheetState, ExceptionCode
  <2>2. sheet' \in [Day -> Sheet \cup {NoSheet}]
    BY <1>2, <2>1 DEF MarkAbsent, TypeInv, TypeOK, TablesTypeOK
  <2>3. QED
    BY <1>1, <1>2, <2>2 DEF MarkAbsent, TypeInv, TypeOK, TablesTypeOK, CronTypeOK, LatestExists
<1>3. ASSUME NEW overdue \in SUBSET Day, FindOverdue(overdue)
      PROVE  TypeInv'
  <2>1. \A d \in overdue : [day |-> d, codes |-> sheet[d].codes]
                              \in [day : Day, codes : SUBSET ExceptionCode]
    BY DEF TypeInv, TypeOK, TablesTypeOK, Sheet, NoSheet
  <2>2. CronTypeOK'
    BY <1>3, <2>1 DEF FindOverdue, CronTypeOK
  <2>3. QED
    BY <1>1, <1>3, <2>2 DEF FindOverdue, TypeInv, TypeOK, TablesTypeOK, LatestExists, tables
<1>4. ASSUME NEW d \in Day, FlagMissedClockOut(d)
      PROVE  TypeInv'
  <2>1. PICK r \in flagging :
          /\ r.day = d
          /\ sheet' = [sheet EXCEPT ![d] =
               Edited(@, "EXCEPTION", r.codes \cup {"MISSED_CLOCK_OUT"})]
          /\ flagging' = flagging \ {r}
    BY <1>4 DEF FlagMissedClockOut
  <2> DEFINE row == Edited(sheet[d], "EXCEPTION", r.codes \cup {"MISSED_CLOCK_OUT"})
  <2>2. sheet' = [sheet EXCEPT ![d] = row]
    BY <2>1 DEF TypeInv, TypeOK, TablesTypeOK
  <2>3. row \in Sheet
    <3>1. r.codes \cup {"MISSED_CLOCK_OUT"} \in SUBSET ExceptionCode
      BY DEF TypeInv, TypeOK, CronTypeOK, ExceptionCode
    <3>2. sheet[d] \in Sheet \cup {NoSheet} /\ "EXCEPTION" \in SheetState
      BY DEF TypeInv, TypeOK, TablesTypeOK, SheetState
    <3>3. QED
      BY <3>1, <3>2, EditedRow
  <2> HIDE DEF row
  <2>4. sheet' \in [Day -> Sheet \cup {NoSheet}]
    BY <2>2, <2>3 DEF TypeInv, TypeOK, TablesTypeOK
  <2>5. CronTypeOK'
    BY <2>1 DEF TypeInv, TypeOK, CronTypeOK
  <2>6. QED
    BY <1>1, <1>4, <2>4, <2>5 DEF FlagMissedClockOut, TypeInv, TypeOK, TablesTypeOK, LatestExists
<1>5. CASE CronStops
  BY <1>1, <1>5 DEF CronStops, TypeInv, TypeOK, TablesTypeOK, CronTypeOK, LatestExists, tables
<1>6. QED
  BY <1>2, <1>3, <1>4, <1>5 DEF CronNext

\* An updateMany keeps the type of the table.
LEMMA TypeUpdateSheets ==
  ASSUME TypeInv, NEW from, NEW to \in SheetState, UpdateSheets(from, to)
  PROVE  sheet' \in [Day -> Sheet \cup {NoSheet}]
<1> SUFFICES ASSUME NEW d \in Day
             PROVE  (IF d \in PeriodDays /\ sheet[d].state \in from
                     THEN [sheet[d] EXCEPT !.state = to] ELSE sheet[d]) \in Sheet \cup {NoSheet}
  BY DEF UpdateSheets
<1>1. sheet[d] \in Sheet \cup {NoSheet}
  BY DEF TypeInv, TypeOK, TablesTypeOK
<1>2. CASE sheet[d] \in Sheet
  BY <1>2 DEF Sheet
<1>3. CASE sheet[d] = NoSheet
  <2>1. [sheet[d] EXCEPT !.state = to] = [state |-> to, codes |-> {}, basis |-> {}]
    BY <1>3 DEF NoSheet
  <2>2. [state |-> to, codes |-> {}, basis |-> {}] \in Sheet
    BY DEF Sheet
  <2>3. QED
    BY <1>3, <2>1, <2>2
<1>4. QED
  BY <1>1, <1>2, <1>3

\* A step of a pay period transition keeps the types.
LEMMA TypePeriod ==
  ASSUME TypeInv, PeriodNext, UNCHANGED <<handler, flagging>>
  PROVE  TypeInv'
<1>1. ClockTypeOK' /\ CronTypeOK'
  BY DEF TypeInv, TypeOK, ClockTypeOK, CronTypeOK
<1>2. UNCHANGED <<events, record, today, now>>
  BY DEF PeriodNext, Review, ReopenSheets, ApproveSheets, LockChecks, LockSheets,
         UpdatePeriod, TransitionStops, tables
<1>3. PeriodTypeOK'
  BY DEF PeriodNext, Review, ReopenSheets, ApproveSheets, LockChecks, LockSheets,
         UpdatePeriod, TransitionStops, TypeInv, TypeOK, PeriodTypeOK, PeriodStatus,
         TransitionStep
<1>4. sheet' = sheet \/ \E to \in SheetState, from \in SUBSET SheetState : UpdateSheets(from, to)
  BY DEF PeriodNext, Review, ReopenSheets, ApproveSheets, LockChecks, LockSheets,
         UpdatePeriod, TransitionStops, tables, SheetState
<1>5. sheet' \in [Day -> Sheet \cup {NoSheet}]
  <2>1. CASE sheet' = sheet
    BY <2>1 DEF TypeInv, TypeOK, TablesTypeOK
  <2>2. ASSUME NEW to \in SheetState, NEW from \in SUBSET SheetState, UpdateSheets(from, to)
        PROVE  sheet' \in [Day -> Sheet \cup {NoSheet}]
    BY <2>2, TypeUpdateSheets
  <2>3. QED
    BY <1>4, <2>1, <2>2
<1>6. QED
  BY <1>1, <1>2, <1>3, <1>5 DEF TypeInv, TypeOK, TablesTypeOK, LatestExists

\* No step of the system leaves the types.
LEMMA TypeNext == TypeInv /\ [Next]_vars => TypeInv'
<1> SUFFICES ASSUME TypeInv, [Next]_vars PROVE TypeInv'
  OBVIOUS
<1>1. CASE ClockNext /\ UNCHANGED <<flagging, period, transition>>
  BY <1>1, TypeClock
<1>2. CASE CronNext /\ UNCHANGED <<handler, period, transition>>
  BY <1>2, TypeCron
<1>3. CASE PeriodNext /\ UNCHANGED <<handler, flagging>>
  BY <1>3, TypePeriod
<1>4. CASE Midnight /\ UNCHANGED <<handler, flagging, period, transition>>
  <2>1. today' \in Day
    BY <1>4, BoundsAssumption DEF Midnight, TypeInv, TypeOK, TablesTypeOK, Day
  <2>2. QED
    BY <1>4, <2>1 DEF Midnight, TypeInv, TypeOK, TablesTypeOK, ClockTypeOK, CronTypeOK,
                      PeriodTypeOK, LatestExists, tables
<1>5. CASE UNCHANGED vars
  BY <1>5 DEF vars, TypeInv, TypeOK, TablesTypeOK, ClockTypeOK, CronTypeOK, PeriodTypeOK,
              LatestExists
<1>6. QED
  BY <1>1, <1>2, <1>3, <1>4, <1>5 DEF Next

\* The types, and a latest event when there is any, hold in every state.
LEMMA TypeInvariant == Spec => []TypeInv
BY TypeInit, TypeNext, PTL DEF Spec

\* Every variable keeps its type, under any interleaving of the clock requests,
\* the cron job and the payroll, whatever the coordinator does.
THEOREM TypeCorrect == Spec => []TypeOK
<1>1. TypeInv => TypeOK
  BY DEF TypeInv
<1>2. QED
  BY <1>1, TypeInvariant, PTL

-----------------------------------------------------------------------------
(* One event per idempotency key.                                          *)

\* However often a clock request is sent, and however its copies interleave, its
\* idempotency key has at most one event: the unique index refuses the rest.
THEOREM OneEventPerKeyHolds == Spec => []OneEventPerKey
<1>1. Init => OneEventPerKey
  BY DEF Init, TablesInit, OneEventPerKey
<1>2. ASSUME OneEventPerKey, [Next]_vars
      PROVE  OneEventPerKey'
  <2>1. CASE UNCHANGED events
    BY <1>2, <2>1 DEF OneEventPerKey
  <2>2. ASSUME NEW h \in Handler, CommitClock(h)
        PROVE  OneEventPerKey'
    BY <1>2, <2>2 DEF CommitClock, KeyIsFree, OneEventPerKey
  <2>3. UNCHANGED events \/ \E h \in Handler : CommitClock(h)
    BY <1>2 DEF Next, vars, tables, ClockNext, Preflight, GpsRead, CommitGps, Drop, CronNext,
                MarkAbsent, FindOverdue, FlagMissedClockOut, CronStops, PeriodNext, Review,
                ReopenSheets, ApproveSheets, LockChecks, LockSheets, UpdatePeriod,
                TransitionStops, Midnight
  <2>4. QED
    BY <2>1, <2>2, <2>3
<1>3. QED
  BY <1>1, <1>2, PTL DEF Spec

-----------------------------------------------------------------------------
(* Days that payroll pays carry no exception.                              *)

CleanRow(row) == row.state \in {"COMPLETE", "APPROVED"} => row.codes = {}

\* The strengthening: the rows about to be written are clean as well.
CleanInv ==
  /\ \A d \in Day : CleanRow(sheet[d])
  /\ \A h \in Handler : handler[h].pc = "clock" => CleanRow(handler[h].row)

\* An exception state is no payable one.
LEMMA EditedException ==
  ASSUME NEW row, NEW state \in {"OPEN", "EXCEPTION"}, NEW codes
  PROVE  CleanRow(Edited(row, state, codes))
BY DEF Edited, CleanRow

\* Writing one clean row keeps the timesheets clean.
LEMMA CleanWrite ==
  ASSUME TypeInv, CleanInv, NEW d \in Day, NEW row, CleanRow(row),
         sheet' = [sheet EXCEPT ![d] = row]
  PROVE  \A e \in Day : CleanRow(sheet'[e])
BY DEF CleanInv, TypeInv, TypeOK, TablesTypeOK

\* A handler that goes idle leaves no batch behind.
LEMMA CleanFinish ==
  ASSUME TypeInv, CleanInv, NEW h \in Handler, Finish(h)
  PROVE  \A g \in Handler : handler'[g].pc = "clock" => CleanRow(handler'[g].row)
BY DEF CleanInv, TypeInv, TypeOK, ClockTypeOK, Finish, Idle

\* A clock request keeps rows and batches clean: the calculator gives COMPLETE only
\* without a code, and a rejection writes no payable state.
LEMMA CleanClock ==
  ASSUME TypeInv, CleanInv, ClockNext
  PROVE  CleanInv'
<1>1. PICK h \in Handler :
        \/ \E type \in EventType, key \in Key : Preflight(h, type, key)
        \/ CommitClock(h)
        \/ GpsRead(h)
        \/ CommitGps(h)
        \/ Drop(h)
  BY DEF ClockNext
<1>2. ASSUME NEW type \in EventType, NEW key \in Key, Preflight(h, type, key)
      PROVE  CleanInv'
  <2> DEFINE day   == WorkDate(type)
             event == [type |-> type, day |-> day, key |-> key, at |-> now + 1]
             rows  == DayEvents(day) \cup {event}
  <2>1. PICK measured \in SUBSET MeasuredCodes :
          handler' = [handler EXCEPT ![h] =
            [pc |-> "clock", event |-> event, found |-> record[day],
             row |-> CalculatedSheet(rows, measured)]]
    BY <1>2 DEF Preflight
  <2>2. CleanRow(CalculatedSheet(rows, measured))
    BY DEF CleanRow, CalculatedSheet, DayState
  <2>3. sheet' = sheet
    BY <1>2 DEF Preflight, tables
  <2> HIDE DEF event, rows, day
  <2>4. QED
    BY <2>1, <2>2, <2>3 DEF CleanInv, TypeInv, TypeOK, ClockTypeOK
<1>3. CASE CommitClock(h)
  <2>1. handler[h] \in ClockBatch
    BY <1>3, BatchKinds DEF CommitClock
  <2>2. handler[h].event.day \in Day /\ CleanRow(handler[h].row)
    BY <1>3, <2>1 DEF ClockBatch, Event, CommitClock, CleanInv
  <2>3. sheet' = [sheet EXCEPT ![handler[h].event.day] = handler[h].row] /\ Finish(h)
    BY <1>3 DEF CommitClock, SheetAfter
  <2>4. QED
    BY <2>2, <2>3, CleanWrite, CleanFinish DEF CleanInv
<1>4. CASE GpsRead(h)
  BY <1>4 DEF GpsRead, tables, CleanInv, TypeInv, TypeOK, ClockTypeOK
<1>5. CASE CommitGps(h)
  <2> DEFINE b   == handler[h]
             row == Edited(sheet[b.day], GpsState(b.seen),
                           b.codes \cup {"GPS_ACCURACY_REJECTED"})
  <2>1. b.day \in Day
    BY <1>5, BatchKinds DEF CommitGps, GpsBatch
  <2>2. GpsState(b.seen) \in {"OPEN", "EXCEPTION"}
    BY DEF GpsState
  <2>3. CleanRow(row)
    BY <2>2, EditedException
  <2>4. sheet' = [sheet EXCEPT ![b.day] = row] /\ Finish(h)
    BY <1>5, <2>1 DEF CommitGps, TypeInv, TypeOK, TablesTypeOK
  <2> HIDE DEF row, b
  <2>5. QED
    BY <2>1, <2>3, <2>4, CleanWrite, CleanFinish DEF CleanInv
<1>6. CASE Drop(h)
  BY <1>6, CleanFinish DEF Drop, tables, CleanInv
<1>7. QED
  BY <1>1, <1>2, <1>3, <1>4, <1>5, <1>6

\* The cron job writes EXCEPTION with every code.
LEMMA CleanCron ==
  ASSUME TypeInv, CleanInv, CronNext, UNCHANGED handler
  PROVE  CleanInv'
<1>1. CASE MarkAbsent
  <2>1. today - 1 \in Day
    BY <1>1, BoundsAssumption DEF MarkAbsent, TypeInv, TypeOK, TablesTypeOK, Day
  <2>2. CleanRow([state |-> "EXCEPTION", codes |-> {"ABSENT"}, basis |-> {}])
    BY DEF CleanRow
  <2>3. QED
    BY <1>1, <2>1, <2>2, CleanWrite DEF MarkAbsent, CleanInv
<1>2. ASSUME NEW d \in Day, FlagMissedClockOut(d)
      PROVE  CleanInv'
  <2>1. PICK r \in flagging :
          sheet' = [sheet EXCEPT ![d] =
            Edited(@, "EXCEPTION", r.codes \cup {"MISSED_CLOCK_OUT"})]
    BY <1>2 DEF FlagMissedClockOut
  <2>2. sheet' = [sheet EXCEPT ![d] =
          Edited(sheet[d], "EXCEPTION", r.codes \cup {"MISSED_CLOCK_OUT"})]
    BY <2>1 DEF TypeInv, TypeOK, TablesTypeOK
  <2>3. CleanRow(Edited(sheet[d], "EXCEPTION", r.codes \cup {"MISSED_CLOCK_OUT"}))
    BY EditedException
  <2>4. QED
    BY <2>2, <2>3, CleanWrite DEF CleanInv
<1>3. CASE \/ \E overdue \in SUBSET Day : FindOverdue(overdue)
           \/ CronStops
  BY <1>3 DEF FindOverdue, CronStops, tables, CleanInv
<1>4. QED
  BY <1>1, <1>2, <1>3 DEF CronNext

\* The transitions move days between COMPLETE and APPROVED, which are equally
\* clean, or to LOCKED, which is not payable any more.
LEMMA CleanPeriod ==
  ASSUME TypeInv, CleanInv, PeriodNext, UNCHANGED handler
  PROVE  CleanInv'
<1>1. ASSUME NEW from, NEW to, UpdateSheets(from, to),
             to = "LOCKED" \/ from \subseteq {"COMPLETE", "APPROVED"}
      PROVE  CleanInv'
  <2> SUFFICES ASSUME NEW d \in Day PROVE CleanRow(sheet'[d])
    BY DEF CleanInv
  <2>1. CASE sheet'[d] = sheet[d]
    BY <2>1 DEF CleanInv
  <2>2. CASE sheet[d].state \in from /\ sheet'[d] = [sheet[d] EXCEPT !.state = to]
    <3>1. sheet[d] \in [state : SheetState \cup {"NONE"}, codes : SUBSET ExceptionCode,
                        basis : SUBSET Event]
      BY DEF TypeInv, TypeOK, TablesTypeOK, Sheet, NoSheet
    <3>2. sheet'[d].state = to /\ sheet'[d].codes = sheet[d].codes
      BY <2>2, <3>1
    <3>3. QED
      BY <1>1, <2>2, <3>2 DEF CleanInv, CleanRow
  <2>3. QED
    BY <1>1, <2>1, <2>2 DEF UpdateSheets
<1>2. CASE ReopenSheets
  BY <1>1, <1>2 DEF ReopenSheets
<1>3. CASE ApproveSheets
  BY <1>1, <1>3 DEF ApproveSheets
<1>4. CASE LockSheets
  BY <1>1, <1>4 DEF LockSheets
<1>5. CASE Review \/ LockChecks \/ UpdatePeriod \/ TransitionStops
  BY <1>5 DEF Review, LockChecks, UpdatePeriod, TransitionStops, tables, CleanInv
<1>6. QED
  BY <1>2, <1>3, <1>4, <1>5 DEF PeriodNext

\* No writer leaves a payable day beside an exception code, even with requests of
\* the employee interleaved, stale reads and cut off runs: every one of them writes
\* state and codes together, or a state that is not payable.
THEOREM PayableDaysAreCleanHolds == Spec => []PayableDaysAreClean
<1>1. Init => CleanInv
  BY DEF Init, TablesInit, ClockInit, NoSheet, Idle, CleanInv, CleanRow
<1>2. TypeInv /\ CleanInv /\ [Next]_vars => CleanInv'
  <2> SUFFICES ASSUME TypeInv, CleanInv, [Next]_vars PROVE CleanInv'
    OBVIOUS
  <2>1. CASE ClockNext
    BY <2>1, CleanClock
  <2>2. CASE CronNext /\ UNCHANGED <<handler, period, transition>>
    BY <2>2, CleanCron
  <2>3. CASE PeriodNext /\ UNCHANGED <<handler, flagging>>
    BY <2>3, CleanPeriod
  <2>4. CASE (Midnight /\ UNCHANGED <<handler, flagging, period, transition>>) \/ UNCHANGED vars
    BY <2>4 DEF Midnight, vars, tables, CleanInv
  <2>5. QED
    BY <2>1, <2>2, <2>3, <2>4 DEF Next
<1>3. CleanInv => PayableDaysAreClean
  BY DEF CleanInv, CleanRow, PayableDaysAreClean
<1>4. QED
  BY <1>1, <1>2, <1>3, TypeInvariant, PTL DEF Spec

-----------------------------------------------------------------------------
(***************************************************************************)
(* What the clock actions guarantee when the coordinator really handles    *)
(* one request of the employee at a time: no event is lost from a          *)
(* timesheet, and the events are the log of shifts that ShiftLog promises. *)
(* The theorems assume CoordinatorSerializes; the run                      *)
(* coordinator_interleaves shows that they fail without it.                *)
(***************************************************************************)

OneAtATime == \A g, h \in Handler : handler[g] # Idle /\ handler[h] # Idle => g = h

EventsArePast == \A e \in events : e.at <= now /\ e.day <= today

\* e continues the log: it is later than every event and may follow the latest.
Continues(e) ==
  /\ \A f \in events : f.at < e.at
  /\ IF events = {}
     THEN e.type = "CLOCK_IN"
     ELSE \E l \in events : (\A f \in events : f.at <= l.at) /\ Shifts!Follows(e, l)

\* The batch is still what a preflight would prepare now.
UpToDate(b) ==
  /\ b.event.at <= now /\ b.event.day <= today
  /\ Continues(b.event)
  /\ b.row.basis = DayEvents(b.event.day) \cup {b.event}

SerialInv ==
  /\ OneAtATime
  /\ EventsArePast
  /\ NoEventLost
  /\ \A h \in Handler : handler[h].pc = "clock" => UpToDate(handler[h])

\* It holds of the empty tables.
LEMMA SerialInit == Init => SerialInv
BY DEF Init, TablesInit, ClockInit, NoSheet, Idle, SerialInv, OneAtATime, EventsArePast,
       NoEventLost, DayEvents

-----------------------------------------------------------------------------
(* Steps that add no event.                                                *)

\* While no event is added, what is past stays past and a batch stays up to date.
LEMMA StaysUpToDate ==
  ASSUME TypeInv, SerialInv, UNCHANGED <<events, now>>, today' \in Day, today <= today'
  PROVE  /\ EventsArePast'
         /\ \A b \in ClockBatch : UpToDate(b) => UpToDate(b)'
<1>1. today \in Nat /\ today' \in Nat /\ \A e \in Event : e.day \in Nat
  BY DEF TypeInv, TypeOK, TablesTypeOK, Event, Day
<1>2. EventsArePast'
  BY <1>1 DEF SerialInv, EventsArePast, TypeInv, TypeOK, TablesTypeOK
<1>3. ASSUME NEW b \in ClockBatch, UpToDate(b)
      PROVE  UpToDate(b)'
  <2>1. b.event.at <= now' /\ b.event.day <= today'
    BY <1>1, <1>3 DEF UpToDate, ClockBatch
  <2>2. Continues(b.event)' /\ DayEvents(b.event.day)' = DayEvents(b.event.day)
    BY <1>3 DEF UpToDate, Continues, DayEvents, Shifts!Follows
  <2>3. QED
    BY <1>3, <2>1, <2>2 DEF UpToDate
<1>4. QED
  BY <1>2, <1>3

\* A step that adds no event, starts no clock action and changes no row's basis
\* keeps the invariant.
LEMMA SerialQuiet ==
  ASSUME TypeInv, TypeInv', SerialInv, UNCHANGED <<events, now>>, today <= today',
         \A d \in Day : sheet'[d].basis = sheet[d].basis,
         OneAtATime',
         \A h \in Handler : handler'[h].pc = "clock" => handler'[h] = handler[h]
  PROVE  SerialInv'
<1>1. /\ EventsArePast'
      /\ \A b \in ClockBatch : UpToDate(b) => UpToDate(b)'
  BY StaysUpToDate DEF TypeInv, TypeOK, TablesTypeOK
<1>2. NoEventLost'
  BY DEF SerialInv, NoEventLost, DayEvents
<1>3. ASSUME NEW h \in Handler, handler'[h].pc = "clock"
      PROVE  UpToDate(handler[h])'
  <2>1. handler'[h] = handler[h] /\ handler[h] \in ClockBatch /\ UpToDate(handler[h])
    BY <1>3, BatchKinds DEF SerialInv
  <2>2. PICK b \in ClockBatch : b = handler[h]
    BY <2>1
  <2>3. UpToDate(b)'
    BY <1>1, <2>1, <2>2
  <2>4. QED
    BY <2>1, <2>2, <2>3 DEF UpToDate, Continues, DayEvents, Shifts!Follows
<1>4. QED
  BY <1>1, <1>2, <1>3 DEF SerialInv

\* With one request at a time, the handler that starts is the only one.
LEMMA OneStarts ==
  ASSUME CoordinatorSerializes, NEW h \in Handler, Deliver(h), NEW b,
         handler \in [Handler -> {Idle} \cup ClockBatch \cup GpsBatch],
         handler' = [handler EXCEPT ![h] = b]
  PROVE  \A g \in Handler : g # h => handler'[g] = Idle
BY DEF Deliver

\* After the one request that runs has finished, none is left.
LEMMA OneFinishes ==
  ASSUME TypeInv, OneAtATime, NEW h \in Handler, handler[h].pc # "idle", Finish(h)
  PROVE  \A g \in Handler : handler'[g] = Idle
BY DEF OneAtATime, Finish, Idle, TypeInv, TypeOK, ClockTypeOK

-----------------------------------------------------------------------------
(* The preflight: what it prepares continues the log.                      *)

\* What the preflight accepts comes after every event and follows the latest one.
LEMMA PreparedContinues ==
  ASSUME TypeInv, SerialInv, NEW type \in EventType, NEW key \in Key,
         transitionAllowed(LatestType, type)
  PROVE  LET e == [type |-> type, day |-> WorkDate(type), key |-> key, at |-> now + 1]
         IN /\ e.day \in Day /\ e.day <= today
            /\ Continues(e)
<1> DEFINE e == [type |-> type, day |-> WorkDate(type), key |-> key, at |-> now + 1]
<1>1. e.day \in Day /\ (type # "CLOCK_IN" => events # {})
  BY WorkDateIsDay DEF TypeInv
<1>2. /\ now \in Nat /\ today \in Nat
      /\ \A f \in events : f.at \in Nat /\ f.day \in Nat /\ f.type \in EventType
  BY BoundsAssumption DEF TypeInv, TypeOK, TablesTypeOK, Event, Day
<1>3. \A f \in events : f.at <= now /\ f.day <= today
  BY DEF SerialInv, EventsArePast
<1>4. \A f \in events : f.at < e.at
  BY <1>2, <1>3
<1>5. e.day <= today
  BY <1>1, <1>2, <1>3, LatestIsLast DEF WorkDate, TypeInv
<1>6. ASSUME events # {}
      PROVE  \E l \in events : (\A f \in events : f.at <= l.at) /\ Shifts!Follows(e, l)
  <2>1. Latest \in events /\ \A f \in events : f.at <= Latest.at
    BY <1>6, LatestIsLast DEF TypeInv
  <2>2. transitionAllowed(Latest.type, type)
    BY <1>6 DEF LatestType
  <2>3. Latest.type \in EventType /\ Latest.day <= today
    BY <1>2, <1>3, <2>1
  <2>4. Shifts!Needs(type) = Shifts!Phase(Latest.type)
    BY <2>2, <2>3 DEF transitionAllowed, EventType, Shifts!Needs, Shifts!Phase
  <2>5. IF type = "CLOCK_IN" THEN e.day >= Latest.day ELSE e.day = Latest.day
    BY <1>2, <2>1, <2>3 DEF WorkDate
  <2>6. Shifts!Follows(e, Latest)
    BY <2>4, <2>5 DEF Shifts!Follows
  <2>7. QED
    BY <2>1, <2>6
<1>7. Continues(e)
  BY <1>1, <1>4, <1>6 DEF Continues
<1>8. QED
  BY <1>1, <1>5, <1>7

\* A preflight prepares a batch that is up to date.
LEMMA SerialPreflight ==
  ASSUME TypeInv, SerialInv, CoordinatorSerializes,
         NEW h \in Handler, NEW type \in EventType, NEW key \in Key, Preflight(h, type, key)
  PROVE  SerialInv'
<1> DEFINE day   == WorkDate(type)
           event == [type |-> type, day |-> day, key |-> key, at |-> now + 1]
           rows  == DayEvents(day) \cup {event}
<1>1. PICK measured \in SUBSET MeasuredCodes :
        handler' = [handler EXCEPT ![h] =
          [pc |-> "clock", event |-> event, found |-> record[day],
           row |-> CalculatedSheet(rows, measured)]]
  BY DEF Preflight
<1>2. UNCHANGED <<events, sheet, today>> /\ now' = now + 1 /\ now \in Nat
  BY BoundsAssumption DEF Preflight, tables, TypeInv, TypeOK, TablesTypeOK
<1>3. event.day <= today /\ Continues(event)
  BY PreparedContinues DEF Preflight
<1>4. \A g \in Handler : g # h => handler'[g] = Idle
  BY <1>1, OneStarts DEF Preflight, TypeInv, TypeOK, ClockTypeOK
<1>5. OneAtATime'
  BY <1>4 DEF OneAtATime
<1>6. EventsArePast'
  BY <1>2 DEF SerialInv, EventsArePast, TypeInv, TypeOK, TablesTypeOK, Event
<1>7. NoEventLost'
  BY <1>2 DEF SerialInv, NoEventLost, DayEvents
<1>8. /\ handler'[h].event = event
      /\ handler'[h].row.basis = rows
  BY <1>1 DEF CalculatedSheet, TypeInv, TypeOK, ClockTypeOK
<1>9. event.day = day /\ event.at = now'
  BY <1>2
<1> HIDE DEF event
<1>10. UpToDate(handler[h])'
  <2>1. handler'[h].event.at <= now' /\ handler'[h].event.day <= today'
    BY <1>2, <1>3, <1>8, <1>9
  <2>2. Continues(handler[h].event)'
    BY <1>2, <1>3, <1>8 DEF Continues, Shifts!Follows
  <2>3. DayEvents(handler[h].event.day)' = DayEvents(day)
    BY <1>2, <1>8, <1>9 DEF DayEvents
  <2>4. QED
    BY <1>8, <2>1, <2>2, <2>3 DEF UpToDate
<1>11. QED
  BY <1>4, <1>5, <1>6, <1>7, <1>10 DEF SerialInv, Idle

-----------------------------------------------------------------------------
(* The commit: the batch is still up to date when it is written.           *)

\* The committed event is one that ShiftLog may record.
LEMMA CommitRecords ==
  ASSUME TypeInv, SerialInv, NEW h \in Handler, CommitClock(h)
  PROVE  Shifts!Record(handler[h].event) /\ handler[h].event \in Event
<1>1. UpToDate(handler[h]) /\ handler[h] \in ClockBatch
  BY BatchKinds DEF CommitClock, SerialInv
<1>2. /\ KeyIsFree(handler[h].event.key)
      /\ events' = events \cup {handler[h].event}
  BY DEF CommitClock
<1>3. handler[h].event \in Event
  BY <1>1 DEF ClockBatch
<1>4. QED
  BY <1>1, <1>2, <1>3 DEF Shifts!Record, UpToDate, Continues, KeyIsFree

\* Writing a batch that is up to date loses no event.
LEMMA SerialCommit ==
  ASSUME TypeInv, SerialInv, NEW h \in Handler, CommitClock(h)
  PROVE  SerialInv'
<1> DEFINE b == handler[h]
<1>1. b \in ClockBatch /\ UpToDate(b) /\ b.event \in Event /\ b.event.day \in Day
  BY BatchKinds DEF CommitClock, SerialInv, ClockBatch, Event
<1>2. /\ events' = events \cup {b.event}
      /\ sheet' = [sheet EXCEPT ![b.event.day] = b.row]
      /\ UNCHANGED <<today, now>>
      /\ Finish(h)
  BY DEF CommitClock, SheetAfter
<1>3. \A g \in Handler : handler'[g] = Idle
  BY <1>2, OneFinishes DEF CommitClock, SerialInv
<1> HIDE DEF b
<1>4. EventsArePast'
  BY <1>1, <1>2 DEF SerialInv, EventsArePast, UpToDate
<1>5. \A d \in Day : sheet'[d].basis = DayEvents(d)'
  <2> SUFFICES ASSUME NEW d \in Day PROVE sheet'[d].basis = DayEvents(d)'
    OBVIOUS
  <2>1. CASE d = b.event.day
    <3>1. sheet'[d] = b.row
      BY <1>1, <1>2, <2>1 DEF TypeInv, TypeOK, TablesTypeOK
    <3>2. DayEvents(d)' = DayEvents(d) \cup {b.event}
      BY <1>2, <2>1 DEF DayEvents
    <3>3. QED
      BY <1>1, <2>1, <3>1, <3>2 DEF UpToDate
  <2>2. CASE d # b.event.day
    <3>1. sheet'[d] = sheet[d]
      BY <1>2, <2>2 DEF TypeInv, TypeOK, TablesTypeOK
    <3>2. DayEvents(d)' = DayEvents(d)
      BY <1>2, <2>2 DEF DayEvents
    <3>3. QED
      BY <3>1, <3>2 DEF SerialInv, NoEventLost
  <2>3. QED
    BY <2>1, <2>2
<1>6. QED
  BY <1>3, <1>4, <1>5 DEF SerialInv, OneAtATime, NoEventLost, Idle

-----------------------------------------------------------------------------
(* Every step.                                                             *)

\* A step of a clock request keeps the invariant.
LEMMA SerialClock ==
  ASSUME TypeInv, TypeInv', SerialInv, CoordinatorSerializes, ClockNext
  PROVE  SerialInv'
<1>1. PICK h \in Handler :
        \/ \E type \in EventType, key \in Key : Preflight(h, type, key)
        \/ CommitClock(h)
        \/ GpsRead(h)
        \/ CommitGps(h)
        \/ Drop(h)
  BY DEF ClockNext
<1>2. today <= today
  BY DEF TypeInv, TypeOK, TablesTypeOK, Day
<1>3. CASE \E type \in EventType, key \in Key : Preflight(h, type, key)
  BY <1>3, SerialPreflight
<1>4. CASE CommitClock(h)
  BY <1>4, SerialCommit
<1>5. CASE GpsRead(h)
  <2> DEFINE b == [pc |-> "gps", day |-> today,
                   seen |-> sheet[today].state, codes |-> sheet[today].codes]
  <2>1. handler' = [handler EXCEPT ![h] = b] /\ Deliver(h)
    BY <1>5 DEF GpsRead
  <2>2. \A g \in Handler : g # h => handler'[g] = Idle
    BY <2>1, OneStarts DEF TypeInv, TypeOK, ClockTypeOK
  <2>3. handler'[h].pc = "gps"
    BY <2>1 DEF TypeInv, TypeOK, ClockTypeOK
  <2>4. OneAtATime' /\ \A g \in Handler : handler'[g].pc # "clock"
    BY <2>2, <2>3 DEF OneAtATime, Idle
  <2>5. QED
    BY <1>2, <1>5, <2>4, SerialQuiet DEF GpsRead, tables
<1>6. CASE CommitGps(h)
  <2>1. \A g \in Handler : handler'[g] = Idle
    BY <1>6, OneFinishes DEF CommitGps, SerialInv
  <2>2. OneAtATime' /\ \A g \in Handler : handler'[g].pc # "clock"
    BY <2>1 DEF OneAtATime, Idle
  <2>3. \A d \in Day : sheet'[d].basis = sheet[d].basis
    BY <1>6 DEF CommitGps, Edited, TypeInv, TypeOK, TablesTypeOK
  <2>4. QED
    BY <1>2, <1>6, <2>2, <2>3, SerialQuiet DEF CommitGps
<1>7. CASE Drop(h)
  <2>1. \A g \in Handler : handler'[g] = Idle
    BY <1>7, OneFinishes DEF Drop, SerialInv
  <2>2. OneAtATime' /\ \A g \in Handler : handler'[g].pc # "clock"
    BY <2>1 DEF OneAtATime, Idle
  <2>3. QED
    BY <1>2, <1>7, <2>2, SerialQuiet DEF Drop, tables
<1>8. QED
  BY <1>1, <1>3, <1>4, <1>5, <1>6, <1>7

\* The cron job, the payroll and midnight touch neither the events nor the basis of
\* a row: what they insert is a day that has no event.
LEMMA SerialOthers ==
  ASSUME TypeInv, TypeInv', SerialInv, UNCHANGED <<events, now, handler>>, today <= today',
         \A d \in Day : sheet'[d].basis = sheet[d].basis
  PROVE  SerialInv'
<1>1. OneAtATime'
  BY DEF SerialInv, OneAtATime
<1>2. QED
  BY <1>1, SerialQuiet

\* The cron job leaves every basis: the absent day it inserts had no row.
LEMMA CronKeepsBasis ==
  ASSUME TypeInv, CronNext
  PROVE  \A d \in Day : sheet'[d].basis = sheet[d].basis
<1>1. CASE MarkAbsent
  <2>1. today - 1 \in Day
    BY <1>1, BoundsAssumption DEF MarkAbsent, TypeInv, TypeOK, TablesTypeOK, Day
  <2>2. sheet[today - 1] = NoSheet
    BY <1>1, <2>1 DEF MarkAbsent, TypeInv, TypeOK, TablesTypeOK, Sheet, SheetState
  <2> DEFINE row == [state |-> "EXCEPTION", codes |-> {"ABSENT"}, basis |-> {}]
  <2>3. row.basis = sheet[today - 1].basis
    BY <2>2 DEF NoSheet
  <2>4. sheet' = [sheet EXCEPT ![today - 1] = row]
    BY <1>1 DEF MarkAbsent
  <2> HIDE DEF row
  <2>5. QED
    BY <2>1, <2>3, <2>4 DEF TypeInv, TypeOK, TablesTypeOK
<1>2. ASSUME NEW d \in Day, FlagMissedClockOut(d)
      PROVE  \A e \in Day : sheet'[e].basis = sheet[e].basis
  BY <1>2 DEF FlagMissedClockOut, Edited, TypeInv, TypeOK, TablesTypeOK
<1>3. CASE (\E overdue \in SUBSET Day : FindOverdue(overdue)) \/ CronStops
  BY <1>3 DEF FindOverdue, CronStops, tables
<1>4. QED
  BY <1>1, <1>2, <1>3 DEF CronNext

\* So do the transitions of the pay period.
LEMMA PeriodKeepsBasis ==
  ASSUME TypeInv, PeriodNext
  PROVE  \A d \in Day : sheet'[d].basis = sheet[d].basis
<1>1. sheet' = sheet \/ \E to \in SheetState, from \in SUBSET SheetState : UpdateSheets(from, to)
  BY DEF PeriodNext, Review, ReopenSheets, ApproveSheets, LockChecks, LockSheets,
         UpdatePeriod, TransitionStops, tables, SheetState
<1>2. ASSUME NEW to \in SheetState, NEW from \in SUBSET SheetState, UpdateSheets(from, to),
             NEW d \in Day
      PROVE  sheet'[d].basis = sheet[d].basis
  <2>1. sheet[d] \in [state : SheetState \cup {"NONE"}, codes : SUBSET ExceptionCode,
                      basis : SUBSET Event]
    BY DEF TypeInv, TypeOK, TablesTypeOK, Sheet, NoSheet
  <2>2. sheet'[d] = sheet[d] \/ sheet'[d] = [sheet[d] EXCEPT !.state = to]
    BY <1>2 DEF UpdateSheets
  <2>3. QED
    BY <2>1, <2>2
<1>3. QED
  BY <1>1, <1>2

\* No step leaves the invariant.
LEMMA SerialNext ==
  ASSUME CoordinatorSerializes
  PROVE  TypeInv /\ TypeInv' /\ SerialInv /\ [Next]_vars => SerialInv'
<1> SUFFICES ASSUME TypeInv, TypeInv', SerialInv, [Next]_vars PROVE SerialInv'
  OBVIOUS
<1>1. today \in Nat
  BY DEF TypeInv, TypeOK, TablesTypeOK, Day
<1>2. CASE ClockNext
  BY <1>2, SerialClock
<1>3. CASE CronNext /\ UNCHANGED <<handler, period, transition>>
  <2>1. UNCHANGED <<events, now, today, handler>>
    BY <1>3 DEF CronNext, MarkAbsent, FindOverdue, FlagMissedClockOut, CronStops, tables
  <2>2. QED
    BY <1>1, <1>3, <2>1, CronKeepsBasis, SerialOthers
<1>4. CASE PeriodNext /\ UNCHANGED <<handler, flagging>>
  <2>1. UNCHANGED <<events, now, today, handler>>
    BY <1>4 DEF PeriodNext, Review, ReopenSheets, ApproveSheets, LockChecks, LockSheets,
                UpdatePeriod, TransitionStops, tables
  <2>2. QED
    BY <1>1, <1>4, <2>1, PeriodKeepsBasis, SerialOthers
<1>5. CASE Midnight /\ UNCHANGED <<handler, flagging, period, transition>>
  BY <1>1, <1>5, SerialOthers DEF Midnight, tables
<1>6. CASE UNCHANGED vars
  BY <1>1, <1>6, SerialOthers DEF vars
<1>7. QED
  BY <1>2, <1>3, <1>4, <1>5, <1>6 DEF Next

\* The invariant holds in every state of a serialized system.
LEMMA SerialInvariant ==
  ASSUME CoordinatorSerializes
  PROVE  Spec => []SerialInv
BY SerialInit, SerialNext, TypeInvariant, PTL DEF Spec

-----------------------------------------------------------------------------
(* The results.                                                            *)

\* Under a coordinator that serializes, the timesheet of a day is always calculated
\* from all events of the day, whatever the cron job, the payroll, GPS rejections and
\* requests that end half-way do.
THEOREM NoEventLostHolds ==
  ASSUME CoordinatorSerializes
  PROVE  Spec => []NoEventLost
<1>1. SerialInv => NoEventLost
  BY DEF SerialInv
<1>2. QED
  BY <1>1, SerialInvariant, PTL

\* Under a coordinator that serializes, the clock actions implement ShiftLog: the
\* AttendanceEvent table is a growing, ordered history of complete shifts.
THEOREM ClockActionsImplementShiftLog ==
  ASSUME CoordinatorSerializes
  PROVE  Spec => EventsAreShifts
<1>1. Init => Shifts!Init
  BY DEF Init, TablesInit, Shifts!Init
<1>2. TypeInv /\ SerialInv /\ [Next]_vars => [Shifts!Next]_events
  <2> SUFFICES ASSUME TypeInv, SerialInv, [Next]_vars
               PROVE  Shifts!Next \/ UNCHANGED events
    OBVIOUS
  <2>1. ASSUME NEW h \in Handler, CommitClock(h)
        PROVE  Shifts!Next
    BY <2>1, CommitRecords DEF Shifts!Next
  <2>2. UNCHANGED events \/ \E h \in Handler : CommitClock(h)
    BY DEF Next, vars, tables, ClockNext, Preflight, GpsRead, CommitGps, Drop, CronNext,
           MarkAbsent, FindOverdue, FlagMissedClockOut, CronStops, PeriodNext, Review,
           ReopenSheets, ApproveSheets, LockChecks, LockSheets, UpdatePeriod,
           TransitionStops, Midnight
  <2>3. QED
    BY <2>1, <2>2
<1>3. QED
  BY <1>1, <1>2, TypeInvariant, SerialInvariant, PTL DEF Spec, EventsAreShifts, Shifts!Spec

-----------------------------------------------------------------------------
(***************************************************************************)
(* The tables of a day tell one story: its payable row ends with the       *)
(* clock-out, and its record is that of the last clock event.  The batch   *)
(* in flight has to be right already, as nothing looks at it again when it *)
(* is written; and a clock-out finds a record, as its day has a clock-in.  *)
(***************************************************************************)

\* A payable row ends with the clock-out.
ClosedRow(row) ==
  row.state \in {"COMPLETE", "APPROVED"} =>
    \E e \in row.basis : e.type = "CLOCK_OUT" /\ \A f \in row.basis : f.at <= e.at

\* The status is that of the latest clock-in or clock-out among the rows.
Tells(status, rows) ==
  LET clock == {e \in rows : e.type \in {"CLOCK_IN", "CLOCK_OUT"}}
  IN IF clock = {} THEN status = "NONE"
     ELSE \E e \in clock : /\ \A f \in clock : f.at <= e.at
                           /\ status = IF e.type = "CLOCK_IN" THEN "CLOCKED_IN" ELSE "CLOCKED_OUT"

\* The strengthening: the events are finitely many, a day with events has a clock-in, and a
\* batch that is about to be written is closed like a row and knows the record of its day.
StoryInv ==
  /\ IsFiniteSet(events)
  /\ \A d \in Day : DayEvents(d) # {} => \E e \in DayEvents(d) : e.type = "CLOCK_IN"
  /\ \A d \in Day : ClosedRow(sheet[d])
  /\ \A d \in Day : Tells(record[d], DayEvents(d))
  /\ \A h \in Handler : handler[h].pc = "clock" =>
       ClosedRow(handler[h].row) /\ handler[h].found = record[handler[h].event.day]

\* It holds of the empty tables.
LEMMA StoryInit == Init => StoryInv
BY FS_EmptySet
   DEF Init, TablesInit, ClockInit, NoSheet, Idle, StoryInv, DayEvents, ClosedRow, Tells

\* A step that adds no event and starts no clock action keeps it, when the rows stay closed.
LEMMA StoryQuiet ==
  ASSUME StoryInv, UNCHANGED <<events, record>>, \A d \in Day : ClosedRow(sheet'[d]),
         \A h \in Handler : handler'[h].pc = "clock" => handler'[h] = handler[h]
  PROVE  StoryInv'
<1>1. \A d : DayEvents(d)' = DayEvents(d)
  BY DEF DayEvents
<1>2. ASSUME NEW h \in Handler, handler'[h].pc = "clock"
      PROVE  ClosedRow(handler'[h].row) /\ handler'[h].found = record[handler'[h].event.day]
  BY <1>2 DEF StoryInv
<1>3. QED
  BY <1>1, <1>2 DEF StoryInv, ClosedRow, Tells

\* The preflight: the calculator closes a day only at its clock-out.
LEMMA StoryPreflight ==
  ASSUME TypeInv, SerialInv, StoryInv, CoordinatorSerializes,
         NEW h \in Handler, NEW type \in EventType, NEW key \in Key, Preflight(h, type, key)
  PROVE  StoryInv'
<1> DEFINE day   == WorkDate(type)
           event == [type |-> type, day |-> day, key |-> key, at |-> now + 1]
           rows  == DayEvents(day) \cup {event}
<1>1. PICK measured \in SUBSET MeasuredCodes :
        handler' = [handler EXCEPT ![h] =
          [pc |-> "clock", event |-> event, found |-> record[day],
           row |-> CalculatedSheet(rows, measured)]]
  BY DEF Preflight
<1>2. UNCHANGED <<events, record, sheet>> /\ now < MaxTime
  BY DEF Preflight, tables
<1>3. event.day \in Day /\ Continues(event)
  BY PreparedContinues DEF Preflight
<1>4. now \in Nat /\ now + 1 \in 1..MaxTime /\ \A f \in events : f.at < event.at
  BY <1>2, <1>3, BoundsAssumption DEF TypeInv, TypeOK, TablesTypeOK, Continues
<1>5. event \in Event
  BY <1>3, <1>4 DEF Event
<1>6. rows \in SUBSET Event /\ (\A f \in rows : f # event => f.at < event.at) /\ event \in rows
  BY <1>4, <1>5 DEF DayEvents, TypeInv, TypeOK, TablesTypeOK
<1>7. IsFiniteSet(rows)
  <2>1. IsFiniteSet(DayEvents(day))
    BY FS_Subset DEF StoryInv, DayEvents
  <2>2. QED
    BY <2>1, FS_AddElement
<1>8. event.type = type /\ event.day = day
  OBVIOUS
<1> HIDE DEF event, rows, day
<1>9. ClosedRow(CalculatedSheet(rows, measured))
  <2> SUFFICES ASSUME CalculatedSheet(rows, measured).state \in {"COMPLETE", "APPROVED"}
               PROVE  \E e \in rows : e.type = "CLOCK_OUT" /\ \A f \in rows : f.at <= e.at
    BY DEF ClosedRow, CalculatedSheet
  <2>1. event.type = "CLOCK_OUT"
    BY <1>6, <1>7, PayableIsClosed
  <2>2. \A f \in rows : f.at <= event.at
    BY <1>5, <1>6, BoundsAssumption DEF Event
  <2>3. QED
    BY <1>6, <2>1, <2>2
<1>10. /\ handler'[h].row = CalculatedSheet(rows, measured)
       /\ handler'[h].found = record[day] /\ handler'[h].event = event
       /\ \A g \in Handler : g # h => handler'[g] = handler[g]
  BY <1>1 DEF TypeInv, TypeOK, ClockTypeOK
<1>11. ASSUME NEW g \in Handler, handler'[g].pc = "clock"
       PROVE  ClosedRow(handler'[g].row) /\ handler'[g].found = record'[handler'[g].event.day]
  <2>1. CASE g = h
    BY <1>2, <1>8, <1>9, <1>10, <2>1
  <2>2. CASE g # h
    BY <1>2, <1>10, <1>11, <2>2 DEF StoryInv
  <2>3. QED
    BY <2>1, <2>2
<1>12. \A d : DayEvents(d)' = DayEvents(d)
  BY <1>2 DEF DayEvents
<1>13. QED
  BY <1>2, <1>11, <1>12 DEF StoryInv, ClosedRow, Tells

\* The commit: the event, the record and the row of the day are written together.
LEMMA StoryCommit ==
  ASSUME TypeInv, SerialInv, StoryInv, NEW h \in Handler, CommitClock(h)
  PROVE  StoryInv'
<1> DEFINE b == handler[h]
           e == b.event
           day == e.day
<1>1. b \in ClockBatch /\ UpToDate(b) /\ e \in Event /\ day \in Day
  BY BatchKinds DEF CommitClock, SerialInv, ClockBatch, Event
<1>2. /\ events' = events \cup {e}
      /\ record' = [record EXCEPT ![day] = RecordAfter(b)]
      /\ sheet' = [sheet EXCEPT ![day] = b.row]
      /\ Finish(h)
  BY DEF CommitClock, SheetAfter
<1>3. ClosedRow(b.row) /\ b.found = record[day]
  BY DEF CommitClock, StoryInv
<1>4. \A g \in Handler : handler'[g] = Idle
  BY <1>2, OneFinishes DEF CommitClock, SerialInv
<1>5. Continues(e)
  BY <1>1 DEF UpToDate
<1> HIDE DEF b
<1>6. \A f \in events : f.at < e.at
  BY <1>5 DEF Continues
<1>7. e.type # "CLOCK_IN" => \E l \in events : l.day = day
  BY <1>5 DEF Continues, Shifts!Follows
<1>8. e.type \in EventType /\ e.at \in Nat /\ \A f \in events : f.at \in Nat
  BY <1>1, BoundsAssumption DEF Event, TypeInv, TypeOK, TablesTypeOK
<1> HIDE DEF e, day
<1>9. \A d \in Day : DayEvents(d)' = IF d = day THEN DayEvents(d) \cup {e} ELSE DayEvents(d)
  BY <1>2 DEF DayEvents, day
<1>10. IsFiniteSet(events')
  BY <1>2, FS_AddElement DEF StoryInv
<1>11. e.type # "CLOCK_IN" => \E f \in DayEvents(day) : f.type = "CLOCK_IN"
  BY <1>1, <1>7 DEF StoryInv, DayEvents
<1>12. ASSUME NEW d \in Day, DayEvents(d)' # {}
       PROVE  \E f \in DayEvents(d)' : f.type = "CLOCK_IN"
  <2>1. CASE d # day
    BY <1>9, <1>12, <2>1 DEF StoryInv
  <2>2. CASE d = day
    BY <1>9, <1>11, <2>2
  <2>3. QED
    BY <2>1, <2>2
<1>13. ASSUME NEW d \in Day PROVE ClosedRow(sheet'[d])
  <2>1. sheet'[d] = b.row \/ sheet'[d] = sheet[d]
    BY <1>1, <1>2 DEF TypeInv, TypeOK, TablesTypeOK
  <2>2. QED
    BY <1>3, <2>1 DEF StoryInv
<1>14. Tells(record'[day], DayEvents(day) \cup {e})
  <2> DEFINE clock == {f \in DayEvents(day) : f.type \in {"CLOCK_IN", "CLOCK_OUT"}}
             new == {f \in DayEvents(day) \cup {e} : f.type \in {"CLOCK_IN", "CLOCK_OUT"}}
  <2>1. record'[day] = RecordAfter(b) /\ Tells(record[day], DayEvents(day))
    BY <1>1, <1>2 DEF TypeInv, TypeOK, TablesTypeOK, StoryInv
  <2>2. \A f \in DayEvents(day) : f.at < e.at /\ f.at \in Nat
    BY <1>6, <1>8 DEF DayEvents
  <2>3. CASE e.type = "CLOCK_IN"
    <3>1. RecordAfter(b) = "CLOCKED_IN"
      BY <2>3 DEF RecordAfter, e
    <3>2. e \in new /\ \A f \in new : f.at <= e.at
      BY <1>8, <2>2, <2>3
    <3>3. QED
      BY <2>1, <2>3, <3>1, <3>2 DEF Tells
  <2>4. CASE e.type = "CLOCK_OUT"
    <3>1. clock # {}
      BY <1>11, <2>4
    <3>2. record[day] \in {"CLOCKED_IN", "CLOCKED_OUT"}
      BY <2>1, <3>1 DEF Tells
    <3>3. RecordAfter(b) = "CLOCKED_OUT"
      BY <1>3, <2>4, <3>2 DEF RecordAfter, e
    <3>4. e \in new /\ \A f \in new : f.at <= e.at
      BY <1>8, <2>2, <2>4
    <3>5. QED
      BY <2>1, <2>4, <3>3, <3>4 DEF Tells
  <2>5. CASE e.type \in {"BREAK_START", "BREAK_END"}
    <3>1. new = clock
      BY <2>5
    <3>2. RecordAfter(b) = record[day]
      BY <2>5 DEF RecordAfter, e, day
    <3>3. QED
      BY <2>1, <3>1, <3>2 DEF Tells
  <2>6. QED
    BY <1>8, <2>3, <2>4, <2>5 DEF EventType
<1>15. ASSUME NEW d \in Day PROVE Tells(record'[d], DayEvents(d)')
  <2>1. CASE d = day
    BY <1>9, <1>14, <2>1
  <2>2. CASE d # day
    BY <1>2, <1>9, <2>2 DEF StoryInv, TypeInv, TypeOK, TablesTypeOK
  <2>3. QED
    BY <2>1, <2>2
<1>16. \A d \in Day : Tells(record[d], DayEvents(d))'
  BY <1>15 DEF Tells
<1>17. QED
  BY <1>4, <1>10, <1>12, <1>13, <1>16 DEF StoryInv, ClosedRow, Idle

\* What is not payable is closed in any case.
LEMMA EditedIsClosed ==
  ASSUME NEW row, NEW state \in {"OPEN", "EXCEPTION"}, NEW codes
  PROVE  ClosedRow(Edited(row, state, codes))
BY DEF Edited, ClosedRow

\* Writing one closed row leaves all of them closed.
LEMMA ClosedWrite ==
  ASSUME TypeInv, StoryInv, NEW d \in Day, NEW row, ClosedRow(row), sheet' = [sheet EXCEPT ![d] = row]
  PROVE  \A e \in Day : ClosedRow(sheet'[e])
BY DEF StoryInv, TypeInv, TypeOK, TablesTypeOK

\* A step of a clock request keeps it.
LEMMA StoryClock ==
  ASSUME TypeInv, SerialInv, StoryInv, CoordinatorSerializes, ClockNext
  PROVE  StoryInv'
<1>1. PICK h \in Handler :
        \/ \E type \in EventType, key \in Key : Preflight(h, type, key)
        \/ CommitClock(h)
        \/ GpsRead(h)
        \/ CommitGps(h)
        \/ Drop(h)
  BY DEF ClockNext
<1>2. CASE \E type \in EventType, key \in Key : Preflight(h, type, key)
  BY <1>2, StoryPreflight
<1>3. CASE CommitClock(h)
  BY <1>3, StoryCommit
<1>4. Finish(h) => \A g \in Handler : handler'[g].pc = "clock" => handler'[g] = handler[g]
  BY DEF Finish, Idle, TypeInv, TypeOK, ClockTypeOK
<1>5. CASE GpsRead(h)
  <2>1. \A g \in Handler : handler'[g].pc = "clock" => handler'[g] = handler[g]
    BY <1>5 DEF GpsRead, TypeInv, TypeOK, ClockTypeOK
  <2>2. QED
    BY <1>5, <2>1, StoryQuiet DEF GpsRead, tables, StoryInv
<1>6. CASE CommitGps(h)
  <2> DEFINE b   == handler[h]
             row == Edited(sheet[b.day], GpsState(b.seen), b.codes \cup {"GPS_ACCURACY_REJECTED"})
  <2>1. b.day \in Day
    BY <1>6, BatchKinds DEF CommitGps, GpsBatch
  <2>2. GpsState(b.seen) \in {"OPEN", "EXCEPTION"}
    BY DEF GpsState
  <2>3. ClosedRow(row)
    BY <2>2, EditedIsClosed
  <2>4. sheet' = [sheet EXCEPT ![b.day] = row]
    BY <1>6, <2>1 DEF CommitGps, TypeInv, TypeOK, TablesTypeOK
  <2> HIDE DEF row, b
  <2>5. \A d \in Day : ClosedRow(sheet'[d])
    BY <2>1, <2>3, <2>4, ClosedWrite
  <2>6. QED
    BY <1>4, <1>6, <2>5, StoryQuiet DEF CommitGps
<1>7. CASE Drop(h)
  BY <1>4, <1>7, StoryQuiet DEF Drop, tables, StoryInv
<1>8. QED
  BY <1>1, <1>2, <1>3, <1>5, <1>6, <1>7

\* The cron job writes EXCEPTION.
LEMMA StoryCron ==
  ASSUME TypeInv, StoryInv, CronNext, UNCHANGED handler
  PROVE  StoryInv'
<1>1. UNCHANGED <<events, record>>
  BY DEF CronNext, MarkAbsent, FindOverdue, FlagMissedClockOut, CronStops, tables
<1>2. \A d \in Day : ClosedRow(sheet'[d])
  <2>1. CASE MarkAbsent
    <3>1. today - 1 \in Day
      BY <2>1, BoundsAssumption DEF MarkAbsent, TypeInv, TypeOK, TablesTypeOK, Day
    <3>2. ClosedRow([state |-> "EXCEPTION", codes |-> {"ABSENT"}, basis |-> {}])
      BY DEF ClosedRow
    <3>3. QED
      BY <2>1, <3>1, <3>2, ClosedWrite DEF MarkAbsent
  <2>2. ASSUME NEW d \in Day, FlagMissedClockOut(d)
        PROVE  \A e \in Day : ClosedRow(sheet'[e])
    <3>1. PICK r \in flagging :
            sheet' = [sheet EXCEPT ![d] = Edited(@, "EXCEPTION", r.codes \cup {"MISSED_CLOCK_OUT"})]
      BY <2>2 DEF FlagMissedClockOut
    <3>2. sheet' = [sheet EXCEPT ![d] = Edited(sheet[d], "EXCEPTION", r.codes \cup {"MISSED_CLOCK_OUT"})]
      BY <3>1 DEF TypeInv, TypeOK, TablesTypeOK
    <3>3. ClosedRow(Edited(sheet[d], "EXCEPTION", r.codes \cup {"MISSED_CLOCK_OUT"}))
      BY EditedIsClosed
    <3>4. QED
      BY <3>2, <3>3, ClosedWrite
  <2>3. CASE (\E overdue \in SUBSET Day : FindOverdue(overdue)) \/ CronStops
    BY <2>3 DEF FindOverdue, CronStops, tables, StoryInv
  <2>4. QED
    BY <2>1, <2>2, <2>3 DEF CronNext
<1>3. QED
  BY <1>1, <1>2, StoryQuiet

\* The transitions move days between COMPLETE and APPROVED, which are equally closed, or to
\* LOCKED.
LEMMA StoryPeriod ==
  ASSUME TypeInv, StoryInv, PeriodNext, UNCHANGED handler
  PROVE  StoryInv'
<1>1. ASSUME NEW from, NEW to, UpdateSheets(from, to),
             to = "LOCKED" \/ from \subseteq {"COMPLETE", "APPROVED"}, NEW d \in Day
      PROVE  ClosedRow(sheet'[d])
  <2>1. CASE sheet'[d] = sheet[d]
    BY <2>1 DEF StoryInv
  <2>2. CASE sheet[d].state \in from /\ sheet'[d] = [sheet[d] EXCEPT !.state = to]
    <3>1. sheet[d] \in [state : SheetState \cup {"NONE"}, codes : SUBSET ExceptionCode,
                        basis : SUBSET Event]
      BY DEF TypeInv, TypeOK, TablesTypeOK, Sheet, NoSheet
    <3>2. sheet'[d].state = to /\ sheet'[d].basis = sheet[d].basis
      BY <2>2, <3>1
    <3>3. QED
      BY <1>1, <2>2, <3>2 DEF StoryInv, ClosedRow
  <2>3. QED
    BY <1>1, <2>1, <2>2 DEF UpdateSheets
<1>2. \A d \in Day : ClosedRow(sheet'[d])
  <2>1. CASE ReopenSheets
    BY <1>1, <2>1 DEF ReopenSheets
  <2>2. CASE ApproveSheets
    BY <1>1, <2>2 DEF ApproveSheets
  <2>3. CASE LockSheets
    BY <1>1, <2>3 DEF LockSheets
  <2>4. CASE Review \/ LockChecks \/ UpdatePeriod \/ TransitionStops
    BY <2>4 DEF Review, LockChecks, UpdatePeriod, TransitionStops, tables, StoryInv
  <2>5. QED
    BY <2>1, <2>2, <2>3, <2>4 DEF PeriodNext
<1>3. UNCHANGED <<events, record>>
  BY DEF PeriodNext, Review, ReopenSheets, ApproveSheets, LockChecks, LockSheets,
         UpdatePeriod, TransitionStops, tables
<1>4. QED
  BY <1>2, <1>3, StoryQuiet

\* No step leaves it.
LEMMA StoryNext ==
  ASSUME CoordinatorSerializes
  PROVE  TypeInv /\ SerialInv /\ StoryInv /\ [Next]_vars => StoryInv'
<1> SUFFICES ASSUME TypeInv, SerialInv, StoryInv, [Next]_vars PROVE StoryInv'
  OBVIOUS
<1>1. CASE ClockNext
  BY <1>1, StoryClock
<1>2. CASE CronNext /\ UNCHANGED <<handler, period, transition>>
  BY <1>2, StoryCron
<1>3. CASE PeriodNext /\ UNCHANGED <<handler, flagging>>
  BY <1>3, StoryPeriod
<1>4. CASE (Midnight /\ UNCHANGED <<handler, flagging, period, transition>>) \/ UNCHANGED vars
  BY <1>4, StoryQuiet DEF Midnight, vars, tables, StoryInv
<1>5. QED
  BY <1>1, <1>2, <1>3, <1>4 DEF Next

\* Under a coordinator that serializes, the tables of a day tell one story: what payroll
\* pays ends with a clock-out, and the record that /api/v1 reads is what the events say.
THEOREM TablesAgreeHolds ==
  ASSUME CoordinatorSerializes
  PROVE  Spec => []TablesAgree
<1>1. TypeInv /\ SerialInv /\ StoryInv => TablesAgree
  <2> SUFFICES ASSUME TypeInv, SerialInv, StoryInv PROVE TablesAgree
    OBVIOUS
  <2>1. PayableDaysAreClosed
    BY DEF StoryInv, SerialInv, NoEventLost, ClosedRow, PayableDaysAreClosed
  <2>2. RecordFollowsEvents
    BY DEF StoryInv, Tells, RecordFollowsEvents
  <2>3. QED
    BY <2>1, <2>2 DEF TypeInv, TablesAgree
<1>2. QED
  BY <1>1, StoryInit, StoryNext, TypeInvariant, SerialInvariant, PTL DEF Spec
=============================================================================
