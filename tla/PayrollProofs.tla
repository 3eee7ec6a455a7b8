--------------------------- MODULE PayrollProofs ---------------------------
(***************************************************************************)
(* Proofs about the payroll of an organization: its pay periods and their  *)
(* calculation runs (PayrollRun), and the export of a locked period        *)
(* (PayrollExport).                                                        *)
(*                                                                         *)
(* The types of the runs hold however the requests interleave; what is     *)
(* approved and locked is right when the coordinator serializes them,      *)
(* wherever they stop: Sound says what a request in flight finds, Current  *)
(* that what it checked is still so, and Decided what the tables say.      *)
(* The export is proved for every set of messages and every number of      *)
(* retries, whether or not its consumers stop.                             *)
(***************************************************************************)
EXTENDS PayrollRun, PayrollExport, FiniteSetTheorems, SequenceTheorems, TLAPS

-----------------------------------------------------------------------------
(* Calculation runs: types, and what a request in flight relies on however *)
(* they interleave.                                                        *)

\* The run a request works on exists, a new one is at most the next, and the result whose lines
\* are about to be written exists, too.
Sound(s) ==
  /\ s.pc = "run" => s.version <= Latest(s.period) + 1
  /\ s.pc \in {"results", "lines", "acknowledge", "REVIEW", "APPROVE", "LOCK", "repay", "close"} =>
       s.version \in 1..Latest(s.period)
  /\ s.pc = "lines" => runs[s.period][s.version].results[s.employee] # NoResult

\* The types with what they need to be inductive.
TypeInv == TypeOK /\ \A f \in Flight : Sound(flight[f])

\* The step of the idle process.
LEMMA IdlePc == Idle.pc = "idle"
BY DEF Idle

\* Steps of requests are not the idle one.
LEMMA NotIdle ==
  ASSUME NEW s, s.pc # "idle"
  PROVE  s # Idle
BY IdlePc

\* The step s tells its fields.
Fields(s) ==
  /\ s.pc = "idle" <=> s = Idle
  /\ s.pc # "idle" => s.period \in Period
  /\ s.pc \in {"run", "results", "lines"} => s.version \in Nat /\ s.calculated \in Results
  /\ s.pc \in {"acknowledge", "REVIEW", "APPROVE", "LOCK", "close", "repay"} => s.version \in Nat
  /\ s.pc \in {"lines", "acknowledge"} => s.employee \in Employee
  /\ s.pc = "assert" => s.action \in {"REVIEW", "APPROVE", "LOCK"} /\ s.current \in PayPeriod
  /\ s.pc = "repay" => s.left \in SUBSET Employee

\* Every step has the fields that its pc tells of.
LEMMA FieldsOf ==
  ASSUME NEW s \in {Idle} \cup Flights
  PROVE  Fields(s)
<1>1. s.pc # "idle" => s # Idle
  BY NotIdle
<1>2. CASE s = Idle
  BY <1>2 DEF Idle, Fields
<1>3. CASE s \in [pc : {"create", "inputs", "reopen"}, period : Period]
  BY <1>1, <1>3 DEF Fields
<1>4. CASE s \in [pc : {"run", "results"}, period : Period, version : Nat, calculated : Results]
  BY <1>1, <1>4 DEF Fields
<1>5. CASE s \in [pc : {"lines"}, period : Period, version : Nat, calculated : Results, employee : Employee]
  BY <1>1, <1>5 DEF Fields
<1>6. CASE s \in [pc : {"acknowledge"}, period : Period, version : Nat, employee : Employee]
  BY <1>1, <1>6 DEF Fields
<1>7. CASE s \in [pc : {"assert"}, period : Period, action : {"REVIEW", "APPROVE", "LOCK"}, current : PayPeriod]
  BY <1>1, <1>7 DEF Fields
<1>8. CASE s \in [pc : {"REVIEW", "APPROVE", "LOCK", "close"}, period : Period, version : Nat]
  BY <1>1, <1>8 DEF Fields
<1>9. CASE s \in [pc : {"repay"}, period : Period, version : Nat, left : SUBSET Employee]
  BY <1>1, <1>9 DEF Fields
<1>10. QED
  BY <1>2, <1>3, <1>4, <1>5, <1>6, <1>7, <1>8, <1>9 DEF Flights

\* So does the step of a request.
LEMMA Kinds ==
  ASSUME TypeOK, NEW f \in Flight
  PROVE  Fields(flight[f])
BY FieldsOf DEF TypeOK

\* A request f moves: the others stay where they are.
Goes(f) ==
  /\ flight' \in [Flight -> {Idle} \cup Flights]
  /\ \A g \in Flight : g # f => flight'[g] = flight[g]

\* A request moves to a step of its type.
LEMMA Moved ==
  ASSUME TypeOK, NEW f \in Flight, NEW s \in {Idle} \cup Flights, Continue(f, s)
  PROVE  Goes(f) /\ flight'[f] = s
<1>1. flight \in [Flight -> {Idle} \cup Flights] /\ flight' = [flight EXCEPT ![f] = s]
  BY DEF TypeOK, Continue
<1> DEFINE T == {Idle} \cup Flights
<1> HIDE DEF T
<1>2. flight \in [Flight -> T] /\ s \in T
  BY <1>1 DEF T
<1>3. flight' \in [Flight -> T] /\ flight'[f] = s /\ \A g \in Flight : g # f => flight'[g] = flight[g]
  BY <1>1, <1>2
<1>4. QED
  BY <1>3 DEF T, Goes

\* Ending is a move, too.
LEMMA Finished ==
  ASSUME TypeOK, NEW f \in Flight, Finish(f)
  PROVE  Goes(f) /\ flight'[f] = Idle
BY Moved DEF Finish

\* No run and no result of one disappears.
Keeps ==
  \A p \in Period :
    /\ Latest(p)' \in Nat /\ Latest(p) <= Latest(p)'
    /\ \A v \in 1..Latest(p), e \in Employee :
         runs[p][v].results[e] # NoResult => runs'[p][v].results[e] # NoResult

\* The number of runs of a period.
LEMMA LatestType ==
  ASSUME TypeOK, NEW p \in Period
  PROVE  /\ runs[p] \in Seq(Run) /\ Latest(p) \in Nat /\ DOMAIN runs[p] = 1..Latest(p)
         /\ \A v \in 1..Latest(p) : runs[p][v] \in Run
<1>1. runs[p] \in Seq(Run)
  BY DEF TypeOK
<1>2. /\ Len(runs[p]) \in Nat /\ DOMAIN runs[p] = 1..Len(runs[p])
      /\ runs[p] \in [1..Len(runs[p]) -> Run]
  BY <1>1, LenProperties
<1>3. QED
  BY <1>1, <1>2 DEF Latest

\* A table that does not change keeps what is in it.
LEMMA SameKeeps ==
  ASSUME TypeOK, runs' = runs
  PROVE  Keeps
BY LatestType DEF Keeps, Latest

\* A step of a request that keeps the types of the tables and the runs there are.
LEMMA TypeStep ==
  ASSUME TypeInv, NEW f \in Flight, Goes(f), Sound(flight[f])', Keeps,
         periods' \in [Period -> PayPeriod \cup {NoPeriod}],
         runs' \in [Period -> Seq(Run)], outstanding' \in [Employee -> Nat],
         eligible' \subseteq Employee, data' \in [Employee -> Data]
  PROVE  TypeInv'
<1>1. TypeOK'
  BY DEF TypeOK, Goes
<1>2. ASSUME NEW g \in Flight, g # f
      PROVE  Sound(flight[g])'
  <2> PICK s \in {Idle} \cup Flights : s = flight[g]
    BY DEF TypeInv, TypeOK
  <2>1. flight'[g] = s /\ Sound(s) /\ Fields(s) /\ TypeOK
    BY <1>2, Kinds DEF TypeInv, Goes
  <2>2. s.pc # "idle" => s.period \in Period /\ Latest(s.period) \in Nat /\ Latest(s.period)' \in Nat
                         /\ Latest(s.period) <= Latest(s.period)'
    BY <2>1, LatestType DEF Keeps, Fields
  <2>3. s.pc = "lines" => s.employee \in Employee /\ s.version \in 1..Latest(s.period)
    BY <2>1 DEF Fields, Sound
  <2>4. ASSUME s.pc = "lines"
        PROVE  runs'[s.period][s.version].results[s.employee] # NoResult
    <3>1. s.period \in Period /\ s.employee \in Employee /\ s.version \in 1..Latest(s.period)
      BY <2>2, <2>3, <2>4
    <3>2. runs[s.period][s.version].results[s.employee] # NoResult
      BY <2>1, <2>4 DEF Sound
    <3>3. QED
      BY <3>1, <3>2 DEF Keeps
  <2>5. s.pc \in {"results", "lines", "acknowledge", "REVIEW", "APPROVE", "LOCK", "repay", "close"} =>
          s.version \in 1..Latest(s.period)'
    BY <2>1, <2>2 DEF Sound, Latest
  <2>6. s.pc = "run" => s.version <= Latest(s.period)' + 1
    BY <2>1, <2>2 DEF Sound, Fields
  <2>7. QED
    BY <2>1, <2>4, <2>5, <2>6 DEF Sound, Latest
<1>3. QED
  BY <1>1, <1>2 DEF TypeInv

\* A step that only reads.
LEMMA TypeRead ==
  ASSUME TypeInv, NEW f \in Flight, Goes(f), Sound(flight[f])',
         UNCHANGED <<periods, runs, outstanding, eligible, data>>
  PROVE  TypeInv'
BY TypeStep, SameKeeps DEF TypeInv, TypeOK

-----------------------------------------------------------------------------
(* The runs, one written at a time.                                        *)

\* The run v of the period p becomes r.
Writes(p, v, r) == runs' = [runs EXCEPT ![p] = [runs[p] EXCEPT ![v] = r]]

\* The other runs stay as they are.
LEMMA RowWritten ==
  ASSUME TypeOK, NEW p \in Period, NEW v \in 1..Latest(p), NEW r \in Run, Writes(p, v, r)
  PROVE  /\ runs' \in [Period -> Seq(Run)]
         /\ \A q \in Period : Latest(q)' = Latest(q)
         /\ runs'[p][v] = r
         /\ \A q \in Period : \A w \in 1..Latest(q) : q # p \/ w # v => runs'[q][w] = runs[q][w]
<1> DEFINE row == [runs[p] EXCEPT ![v] = r]
<1>1. runs[p] \in Seq(Run) /\ v \in 1..Len(runs[p]) /\ runs \in [Period -> Seq(Run)]
  BY DEF TypeOK, Latest
<1>2. /\ row \in Seq(Run) /\ Len(row) = Len(runs[p])
      /\ \A w \in 1..Len(runs[p]) : row[w] = IF w = v THEN r ELSE runs[p][w]
  BY <1>1, ExceptSeq
<1>3. runs' = [runs EXCEPT ![p] = row]
  BY DEF Writes
<1> HIDE DEF row
<1>4. runs' \in [Period -> Seq(Run)] /\ runs'[p] = row /\ \A q \in Period : q # p => runs'[q] = runs[q]
  BY <1>1, <1>2, <1>3
<1>5. QED
  BY <1>1, <1>2, <1>4 DEF Latest

\* A period gets a run r more.
LEMMA RunAppended ==
  ASSUME TypeOK, NEW p \in Period, NEW r \in Run, runs' = [runs EXCEPT ![p] = Append(runs[p], r)]
  PROVE  /\ runs' \in [Period -> Seq(Run)]
         /\ Latest(p)' = Latest(p) + 1 /\ \A q \in Period : q # p => Latest(q)' = Latest(q)
         /\ runs'[p][Latest(p) + 1] = r
         /\ \A q \in Period : \A w \in 1..Latest(q) : runs'[q][w] = runs[q][w]
<1> DEFINE row == Append(runs[p], r)
<1>1. runs[p] \in Seq(Run) /\ runs \in [Period -> Seq(Run)]
  BY DEF TypeOK
<1>2. /\ row \in Seq(Run) /\ Len(row) = Len(runs[p]) + 1
      /\ \A w \in 1..Len(runs[p]) : row[w] = runs[p][w]
      /\ row[Len(runs[p]) + 1] = r
  BY <1>1, AppendProperties
<1>3. runs' = [runs EXCEPT ![p] = row]
  OBVIOUS
<1> HIDE DEF row
<1>4. runs' \in [Period -> Seq(Run)] /\ runs'[p] = row /\ \A q \in Period : q # p => runs'[q] = runs[q]
  BY <1>1, <1>2, <1>3
<1>5. QED
  BY <1>1, <1>2, <1>4 DEF Latest

\* A run that loses no result keeps the others, too.
LEMMA WriteKeeps ==
  ASSUME TypeOK, NEW p \in Period, NEW v \in 1..Latest(p), NEW r \in Run, Writes(p, v, r),
         \A e \in Employee : runs[p][v].results[e] # NoResult => r.results[e] # NoResult
  PROVE  Keeps
<1>1. /\ \A q \in Period : Latest(q)' = Latest(q)
      /\ runs'[p][v] = r
      /\ \A q \in Period : \A w \in 1..Latest(q) : q # p \/ w # v => runs'[q][w] = runs[q][w]
  BY RowWritten
<1>2. \A q \in Period : Latest(q) \in Nat
  BY LatestType
<1>3. ASSUME NEW q \in Period, NEW w \in 1..Latest(q), NEW e \in Employee, runs[q][w].results[e] # NoResult
      PROVE  runs'[q][w].results[e] # NoResult
  <2>1. CASE q = p /\ w = v
    BY <1>1, <1>3, <2>1
  <2>2. CASE q # p \/ w # v
    BY <1>1, <1>3, <2>2
  <2>3. QED
    BY <2>1, <2>2
<1>4. QED
  BY <1>1, <1>2, <1>3 DEF Keeps

\* No result is not a result.
LEMMA NoResultIsNone == NoResult \notin Result
BY DEF NoResult, Result, Data

\* A result is added to the run.
LEMMA CreateResultWrites ==
  ASSUME TypeInv, NEW f \in Flight, NEW e \in Employee, CreateResult(f, e)
  PROVE  \E p \in Period : \E v \in 1..Latest(p), r \in Run :
           /\ p = flight[f].period /\ v = flight[f].version
           /\ Writes(p, v, r)
           /\ r.status = runs[p][v].status /\ r.acknowledged = runs[p][v].acknowledged
           /\ r.blocked = runs[p][v].blocked
           /\ r.results[e] # NoResult
           /\ \A x \in Employee : x # e => r.results[x] = runs[p][v].results[x]
<1> DEFINE p == flight[f].period
           v == flight[f].version
           old == runs[p][v]
           results == [old.results EXCEPT ![e] = flight[f].calculated[e]]
           r == [old EXCEPT !.results = results]
<1>1. TypeOK /\ flight[f].pc = "results" /\ Fields(flight[f]) /\ Sound(flight[f])
  BY Kinds DEF TypeInv, CreateResult
<1>2. p \in Period /\ v \in 1..Latest(p) /\ flight[f].calculated \in Results
  BY <1>1 DEF Fields, Sound
<1>3. old \in Run
  BY <1>1, <1>2, LatestType
<1>4. flight[f].calculated[e] # NoResult /\ flight[f].calculated[e] \in Result \cup {NoResult}
  BY <1>2 DEF CreateResult, Covered, Results
<1>5. Writes(p, v, r)
  BY DEF CreateResult, Writes
<1> HIDE DEF p, v, old
<1>6. /\ results \in Results /\ results[e] # NoResult
      /\ \A x \in Employee : x # e => results[x] = old.results[x]
  BY <1>3, <1>4 DEF Run, Results
<1> HIDE DEF results
<1>7. /\ r \in Run /\ r.results = results /\ r.status = old.status
      /\ r.acknowledged = old.acknowledged /\ r.blocked = old.blocked
  BY <1>3, <1>6 DEF Run
<1> HIDE DEF r
<1>8. QED
  BY <1>2, <1>5, <1>6, <1>7 DEF p, v, old

\* A result of the run gets its lines.
LEMMA CreateLinesWrites ==
  ASSUME TypeInv, NEW f \in Flight, CreateLines(f)
  PROVE  \E p \in Period : \E v \in 1..Latest(p), r \in Run :
           /\ p = flight[f].period /\ v = flight[f].version
           /\ Writes(p, v, r)
           /\ r.status = runs[p][v].status /\ r.acknowledged = runs[p][v].acknowledged
           /\ r.blocked = runs[p][v].blocked
           /\ \A x \in Employee : runs[p][v].results[x] # NoResult => r.results[x] # NoResult
<1> DEFINE p == flight[f].period
           v == flight[f].version
           e == flight[f].employee
           old == runs[p][v]
           result == [old.results[e] EXCEPT !.line = flight[f].calculated[e].deducted]
           results == [old.results EXCEPT ![e] = result]
           r == [old EXCEPT !.results = results]
<1>1. TypeOK /\ flight[f].pc = "lines" /\ Fields(flight[f]) /\ Sound(flight[f])
  BY Kinds DEF TypeInv, CreateLines
<1>2. p \in Period /\ v \in 1..Latest(p) /\ flight[f].calculated \in Results /\ e \in Employee
  BY <1>1 DEF Fields, Sound
<1>3. old \in Run /\ old.results[e] # NoResult
  BY <1>1, <1>2, LatestType DEF Sound
<1>4. flight[f].calculated[e].deducted \in Nat
  BY <1>2 DEF Results, Result, NoResult
<1>5. Writes(p, v, r)
  BY DEF CreateLines, Writes
<1>6. old.results[e] \in Result
  BY <1>2, <1>3 DEF Run, Results
<1> HIDE DEF p, v, e, old
<1>7. result \in Result
  BY <1>4, <1>6 DEF Result
<1> HIDE DEF result
<1>8. /\ results \in Results /\ results[e] = result
      /\ \A x \in Employee : x # e => results[x] = old.results[x]
  BY <1>2, <1>3, <1>7 DEF Run, Results
<1> HIDE DEF results
<1>9. /\ r \in Run /\ r.results = results /\ r.status = old.status
      /\ r.acknowledged = old.acknowledged /\ r.blocked = old.blocked
  BY <1>3, <1>8 DEF Run
<1> HIDE DEF r
<1>10. QED
  BY <1>2, <1>5, <1>7, <1>8, <1>9, NoResultIsNone DEF p, v, old

\* A warning of the run is acknowledged.
LEMMA AcknowledgeWrites ==
  ASSUME TypeInv, NEW f \in Flight, Acknowledge(f)
  PROVE  \E p \in Period : \E v \in 1..Latest(p), r \in Run :
           /\ p = flight[f].period /\ v = flight[f].version
           /\ Writes(p, v, r)
           /\ r.status = runs[p][v].status /\ r.results = runs[p][v].results
           /\ r.blocked = runs[p][v].blocked /\ runs[p][v].acknowledged \subseteq r.acknowledged
<1> DEFINE p == flight[f].period
           v == flight[f].version
           old == runs[p][v]
           r == [old EXCEPT !.acknowledged = @ \cup {flight[f].employee}]
<1>1. TypeOK /\ flight[f].pc = "acknowledge" /\ Fields(flight[f]) /\ Sound(flight[f])
  BY Kinds DEF TypeInv, Acknowledge
<1>2. p \in Period /\ v \in 1..Latest(p) /\ flight[f].employee \in Employee
  BY <1>1 DEF Fields, Sound
<1>3. old \in Run
  BY <1>1, <1>2, LatestType
<1>4. Writes(p, v, r)
  BY DEF Acknowledge, Writes
<1> HIDE DEF p, v, old
<1>5. /\ r \in Run /\ r.results = old.results /\ r.status = old.status
      /\ old.acknowledged \subseteq r.acknowledged /\ r.blocked = old.blocked
  BY <1>2, <1>3 DEF Run
<1> HIDE DEF r
<1>6. QED
  BY <1>2, <1>4, <1>5 DEF p, v, old

\* The run is locked.
LEMMA LockRunWrites ==
  ASSUME TypeInv, NEW f \in Flight, LockRun(f)
  PROVE  \E p \in Period : \E v \in 1..Latest(p), r \in Run :
           /\ p = flight[f].period /\ v = flight[f].version
           /\ Writes(p, v, r)
           /\ r.status = "LOCKED" /\ r.results = runs[p][v].results
           /\ r.blocked = runs[p][v].blocked /\ r.acknowledged = runs[p][v].acknowledged
<1> DEFINE p == flight[f].period
           v == flight[f].version
           old == runs[p][v]
           r == [old EXCEPT !.status = "LOCKED"]
<1>1. TypeOK /\ flight[f].pc = "repay" /\ Fields(flight[f]) /\ Sound(flight[f])
  BY Kinds DEF TypeInv, LockRun
<1>2. p \in Period /\ v \in 1..Latest(p)
  BY <1>1 DEF Fields, Sound
<1>3. old \in Run
  BY <1>1, <1>2, LatestType
<1>4. Writes(p, v, r)
  BY DEF LockRun, Writes
<1> HIDE DEF p, v, old
<1>5. /\ r \in Run /\ r.results = old.results /\ r.status = "LOCKED"
      /\ old.acknowledged = r.acknowledged /\ r.blocked = old.blocked
  BY <1>3 DEF Run
<1> HIDE DEF r
<1>6. QED
  BY <1>2, <1>4, <1>5 DEF p, v, old

\* A calculation starts a run without results.
LEMMA CreateRunAppends ==
  ASSUME TypeInv, NEW f \in Flight, CreateRun(f)
  PROVE  \E p \in Period : \E r \in Run :
           /\ p = flight[f].period /\ flight[f].version = Latest(p) + 1
           /\ runs' = [runs EXCEPT ![p] = Append(runs[p], r)]
           /\ r.status = "DRAFT" /\ \A e \in Employee : r.results[e] = NoResult
<1> DEFINE p == flight[f].period
           covered == Covered(flight[f].calculated)
           none == [e \in Employee |-> NoResult]
           r == [expected |-> Cardinality(covered), acknowledged |-> {}, status |-> "DRAFT",
                 blocked |-> \E e \in Employee : flight[f].calculated[e].data = "blocked",
                 results |-> none]
<1>1. TypeOK /\ flight[f].pc = "run" /\ Fields(flight[f])
  BY Kinds DEF TypeInv, CreateRun
<1>2. p \in Period /\ flight[f].version \in Nat
  BY <1>1 DEF Fields
<1>3. Latest(p) \in Nat
  BY <1>1, <1>2, LatestType
<1>4. runs' = [runs EXCEPT ![p] = Append(runs[p], r)]
  BY DEF CreateRun
<1>5. IsFiniteSet(covered) /\ Cardinality(covered) \in Nat
  BY PayrollRunAssumption, FS_Subset, FS_CardinalityType DEF Covered
<1> HIDE DEF covered
<1>6. none \in Results /\ \A e \in Employee : none[e] = NoResult
  BY DEF Results
<1> HIDE DEF none
<1>7. r \in Run /\ r.status = "DRAFT" /\ r.results = none
  BY <1>5, <1>6 DEF Run
<1> HIDE DEF r
<1>8. flight[f].version = Latest(p) + 1
  BY <1>1, <1>2, <1>3, PayrollRunAssumption DEF CreateRun, TypeInv, Sound
<1>9. QED
  BY <1>2, <1>4, <1>6, <1>7, <1>8

-----------------------------------------------------------------------------
(* The steps that only read.                                               *)

tables == <<periods, runs, outstanding, eligible, data>>

\* A request that has read something moves to a sound step.
LEMMA Reads ==
  ASSUME TypeInv, NEW f \in Flight, NEW s \in {Idle} \cup Flights, Continue(f, s), Sound(s),
         UNCHANGED tables
  PROVE  TypeInv' /\ Goes(f) /\ flight'[f] = s
<1>1. Goes(f) /\ flight'[f] = s
  BY Moved DEF TypeInv
<1>2. Sound(flight[f])'
  BY <1>1 DEF Sound, Latest, tables
<1>3. QED
  BY <1>1, <1>2, TypeRead DEF tables

\* The idle step relies on nothing.
LEMMA IdleStep == Idle \in {Idle} \cup Flights /\ Sound(Idle)
BY IdlePc DEF Sound

\* A request that ends without having written anything.
LEMMA Ends ==
  ASSUME TypeInv, NEW f \in Flight, Finish(f), UNCHANGED tables
  PROVE  TypeInv' /\ Goes(f) /\ flight'[f] = Idle
BY IdleStep, Reads DEF Finish

\* A step that relies on a period only.
LEMMA PeriodStep ==
  ASSUME NEW p \in Period, NEW pc \in {"create", "inputs", "reopen"}
  PROVE  LET s == [pc |-> pc, period |-> p] IN s \in {Idle} \cup Flights /\ Sound(s)
BY DEF Flights, Sound

\* createPayPeriodV2 has found no overlap.
LEMMA CreatePeriodReads ==
  ASSUME TypeInv, NEW f \in Flight, NEW p \in Period, CreatePeriodRead(f, p)
  PROVE  TypeInv' /\ Goes(f) /\ flight'[f] = [pc |-> "create", period |-> p] /\ UNCHANGED tables
BY PeriodStep, Reads DEF CreatePeriodRead, tables

\* calculatePayrollRun has read the period.
LEMMA CalculateReads ==
  ASSUME TypeInv, NEW f \in Flight, NEW p \in Period, CalculateRead(f, p)
  PROVE  TypeInv' /\ Goes(f) /\ flight'[f] = [pc |-> "inputs", period |-> p] /\ UNCHANGED tables
BY PeriodStep, Reads DEF CalculateRead, tables

\* transitionPayPeriodV2 has read a period to reopen.
LEMMA ReopenReads ==
  ASSUME TypeInv, NEW f \in Flight, NEW p \in Period, ReopenRead(f, p)
  PROVE  TypeInv' /\ Goes(f) /\ flight'[f] = [pc |-> "reopen", period |-> p] /\ UNCHANGED tables
BY PeriodStep, Reads DEF ReopenRead, tables

\* A repayment is a number of sen within the balance.
LEMMA RepaymentType ==
  ASSUME TypeOK, NEW e \in Employee
  PROVE  Repayment(e) \in Nat /\ Repayment(e) <= outstanding[e]
<1>1. Installment[e] \in Nat /\ outstanding[e] \in Nat
  BY PayrollRunAssumption DEF TypeOK
<1> DEFINE pair == {Installment[e], outstanding[e]}
<1>2. \E x \in pair : \A y \in pair : x <= y
  BY <1>1
<1>3. Repayment(e) \in pair /\ \A y \in pair : Repayment(e) <= y
  BY <1>2 DEF Repayment, Min
<1>4. QED
  BY <1>1, <1>3

\* What a calculation says of the employees.
LEMMA CalculatedType ==
  ASSUME TypeOK
  PROVE  Calculated \in Results
<1>1. ASSUME NEW e \in Employee
      PROVE  [data |-> data[e], deducted |-> Repayment(e), line |-> 0] \in Result
  BY <1>1, RepaymentType DEF TypeOK, Result
<1>2. QED
  BY <1>1 DEF Calculated, Results

\* calculatePayrollRun has calculated.
LEMMA CalculateInputsReads ==
  ASSUME TypeInv, NEW f \in Flight, CalculateInputs(f)
  PROVE  /\ TypeInv' /\ Goes(f) /\ UNCHANGED tables
         /\ flight'[f] = [pc |-> "run", period |-> flight[f].period, version |-> Latest(flight[f].period) + 1,
                          calculated |-> Calculated]
<1> DEFINE p == flight[f].period
           s == [pc |-> "run", period |-> p, version |-> Latest(p) + 1, calculated |-> Calculated]
<1>1. TypeOK /\ Fields(flight[f]) /\ flight[f].pc = "inputs" /\ Continue(f, s) /\ UNCHANGED tables
  BY Kinds DEF TypeInv, CalculateInputs, tables
<1>2. p \in Period
  BY <1>1 DEF Fields
<1>3. Latest(p) \in Nat /\ Calculated \in Results
  BY <1>1, <1>2, LatestType, CalculatedType
<1> HIDE DEF p
<1>4. s \in {Idle} \cup Flights /\ Sound(s)
  BY <1>2, <1>3 DEF Flights, Sound
<1> HIDE DEF s
<1>5. TypeInv' /\ Goes(f) /\ flight'[f] = s
  BY <1>1, <1>4, Reads
<1>6. QED
  BY <1>1, <1>5 DEF s, p

\* acknowledgePayrollWarningV2 has read the latest run.
LEMMA AcknowledgeReads ==
  ASSUME TypeInv, NEW f \in Flight, NEW p \in Period, NEW e \in Employee, AcknowledgeRead(f, p, e)
  PROVE  /\ TypeInv' /\ Goes(f) /\ UNCHANGED tables
         /\ flight'[f] = [pc |-> "acknowledge", period |-> p, version |-> Latest(p), employee |-> e]
<1> DEFINE s == [pc |-> "acknowledge", period |-> p, version |-> Latest(p), employee |-> e]
<1>1. Continue(f, s) /\ Latest(p) > 0 /\ UNCHANGED tables
  BY DEF AcknowledgeRead, tables
<1>2. Latest(p) \in Nat
  BY LatestType DEF TypeInv
<1>3. s \in {Idle} \cup Flights /\ Sound(s)
  BY <1>1, <1>2 DEF Flights, Sound
<1> HIDE DEF s
<1>4. TypeInv' /\ Goes(f) /\ flight'[f] = s
  BY <1>1, <1>3, Reads
<1>5. QED
  BY <1>1, <1>4 DEF s

\* A period that is there has its fields.
LEMMA PeriodType ==
  ASSUME TypeOK, NEW p \in Period
  PROVE  periods[p] \in PayPeriod
BY DEF TypeOK, PayPeriod, NoPeriod

\* transitionPayPeriodV2 has read the period.
LEMMA TransitionReads ==
  ASSUME TypeInv, NEW f \in Flight, NEW p \in Period, NEW action \in {"REVIEW", "APPROVE", "LOCK"},
         TransitionRead(f, p, action)
  PROVE  /\ TypeInv' /\ Goes(f) /\ UNCHANGED tables
         /\ flight'[f] = [pc |-> "assert", period |-> p, action |-> action, current |-> periods[p]]
<1> DEFINE s == [pc |-> "assert", period |-> p, action |-> action, current |-> periods[p]]
<1>1. Continue(f, s) /\ UNCHANGED tables
  BY DEF TransitionRead, tables
<1>2. s \in {Idle} \cup Flights /\ Sound(s)
  BY PeriodType DEF TypeInv, Flights, Sound
<1> HIDE DEF s
<1>3. TypeInv' /\ Goes(f) /\ flight'[f] = s
  BY <1>1, <1>2, Reads
<1>4. QED
  BY <1>1, <1>3 DEF s

\* What assertReviewablePayrollCalculation asks of the latest run, for a request that is at s.
Reviewable(s) ==
  /\ Latest(s.period) > 0
  /\ Coverage(runs[s.period][Latest(s.period)])
  /\ Ready(runs[s.period][Latest(s.period)])
  /\ Unchanged(s.action, s.current, Latest(s.period))

\* assertReviewablePayrollCalculation has passed or refused.
LEMMA AssertReads ==
  ASSUME TypeInv, NEW f \in Flight, AssertReviewable(f)
  PROVE  /\ TypeInv' /\ Goes(f) /\ UNCHANGED tables
         /\ \/ flight'[f] = Idle
            \/ /\ Reviewable(flight[f])
               /\ flight'[f] = [pc |-> flight[f].action, period |-> flight[f].period,
                                version |-> Latest(flight[f].period)]
<1> DEFINE p == flight[f].period
           s == [pc |-> flight[f].action, period |-> p, version |-> Latest(p)]
<1>1. TypeOK /\ Fields(flight[f]) /\ flight[f].pc = "assert" /\ UNCHANGED tables
  BY Kinds DEF TypeInv, AssertReviewable, tables
<1>2. p \in Period /\ flight[f].action \in {"REVIEW", "APPROVE", "LOCK"} /\ Latest(p) \in Nat
  BY <1>1, LatestType DEF Fields
<1>3. CASE Reviewable(flight[f])
  <2>1. Continue(f, s)
    BY <1>3 DEF AssertReviewable, Reviewable
  <2>2. Latest(p) > 0
    BY <1>3 DEF Reviewable
  <2> HIDE DEF p
  <2>3. s \in {Idle} \cup Flights /\ Sound(s)
    BY <1>2, <2>2 DEF Flights, Sound
  <2> HIDE DEF s
  <2>4. TypeInv' /\ Goes(f) /\ flight'[f] = s
    BY <1>1, <2>1, <2>3, Reads
  <2>5. QED
    BY <1>1, <1>3, <2>4 DEF s, p
<1>4. CASE ~Reviewable(flight[f])
  <2>1. Finish(f)
    BY <1>4 DEF AssertReviewable, Reviewable
  <2>2. QED
    BY <1>1, <2>1, Ends
<1>5. QED
  BY <1>3, <1>4

\* lockPayrollCalculation has read the run, or refused.
LEMMA LockReads ==
  ASSUME TypeInv, NEW f \in Flight, LockRead(f)
  PROVE  /\ TypeInv' /\ Goes(f) /\ UNCHANGED tables
         /\ \/ flight'[f] = Idle
            \/ flight'[f] = [pc |-> "repay", period |-> flight[f].period, version |-> flight[f].version,
                             left |-> Repayments(runs[flight[f].period][flight[f].version])]
<1> DEFINE p == flight[f].period
           v == flight[f].version
           s == [pc |-> "repay", period |-> p, version |-> v, left |-> Repayments(runs[p][v])]
<1>1. TypeOK /\ Fields(flight[f]) /\ flight[f].pc = "LOCK" /\ UNCHANGED tables
  BY Kinds DEF TypeInv, LockRead, tables
<1>2. p \in Period /\ v \in Nat /\ v \in 1..Latest(p)
  BY <1>1 DEF Fields, TypeInv, Sound
<1>3. CASE Ready(runs[p][v])
  <2>1. Continue(f, s)
    BY <1>3 DEF LockRead
  <2> HIDE DEF p, v
  <2>2. s \in {Idle} \cup Flights /\ Sound(s)
    BY <1>2 DEF Flights, Sound, Repayments
  <2> HIDE DEF s
  <2>3. TypeInv' /\ Goes(f) /\ flight'[f] = s
    BY <1>1, <2>1, <2>2, Reads
  <2>4. QED
    BY <1>1, <2>3 DEF s, p, v
<1>4. CASE ~Ready(runs[p][v])
  <2>1. Finish(f)
    BY <1>4 DEF LockRead
  <2>2. QED
    BY <1>1, <2>1, Ends
<1>5. QED
  BY <1>3, <1>4

-----------------------------------------------------------------------------
(* The steps that write.                                                   *)

\* A request that writes one period and ends.
LEMMA WritesPeriod ==
  ASSUME TypeInv, NEW f \in Flight, Finish(f), NEW p \in Period, NEW row \in PayPeriod,
         periods' = [periods EXCEPT ![p] = row], UNCHANGED <<runs, outstanding, eligible, data>>
  PROVE  /\ TypeInv' /\ Goes(f) /\ flight'[f] = Idle
         /\ periods'[p] = row /\ \A q \in Period : q # p => periods'[q] = periods[q]
<1>1. TypeOK /\ Goes(f) /\ flight'[f] = Idle
  BY Finished DEF TypeInv
<1>2. periods \in [Period -> PayPeriod \cup {NoPeriod}]
  BY <1>1 DEF TypeOK
<1>3. /\ periods' \in [Period -> PayPeriod \cup {NoPeriod}]
      /\ periods'[p] = row /\ \A q \in Period : q # p => periods'[q] = periods[q]
  BY <1>2
<1>4. Sound(flight[f])'
  BY <1>1, IdlePc DEF Sound
<1>5. Keeps
  BY <1>1, SameKeeps
<1>6. TypeInv'
  BY <1>1, <1>3, <1>4, <1>5, TypeStep DEF TypeOK
<1>7. QED
  BY <1>1, <1>3, <1>6

\* createPayPeriodV2 writes the new row.
LEMMA CreatePeriodWrites ==
  ASSUME TypeInv, NEW f \in Flight, CreatePeriod(f)
  PROVE  LET p == flight[f].period IN
         /\ TypeInv' /\ Goes(f) /\ flight'[f] = Idle /\ p \in Period
         /\ periods[p] = NoPeriod /\ periods'[p] = [status |-> "DRAFT", reviewed |-> 0, approved |-> 0]
         /\ \A q \in Period : q # p => periods'[q] = periods[q]
<1> DEFINE p == flight[f].period
           row == [status |-> "DRAFT", reviewed |-> 0, approved |-> 0]
<1>1. TypeOK /\ Fields(flight[f]) /\ flight[f].pc = "create"
  BY Kinds DEF TypeInv, CreatePeriod
<1>2. p \in Period /\ row \in PayPeriod
  BY <1>1 DEF Fields, PayPeriod
<1>3. [periods[p] EXCEPT !.status = "DRAFT"] = row /\ periods[p] = NoPeriod
  BY DEF CreatePeriod, NoPeriod
<1>4. Finish(f) /\ UNCHANGED <<runs, outstanding, eligible, data>>
  BY DEF CreatePeriod
<1>5. periods' = [periods EXCEPT ![p] = [periods[p] EXCEPT !.status = "DRAFT"]]
  BY DEF CreatePeriod
<1> HIDE DEF row, p
<1>6. periods' = [periods EXCEPT ![p] = row]
  BY <1>3, <1>5
<1>7. /\ TypeInv' /\ Goes(f) /\ flight'[f] = Idle
      /\ periods'[p] = row /\ \A q \in Period : q # p => periods'[q] = periods[q]
  BY <1>2, <1>4, <1>6, WritesPeriod
<1>8. QED
  BY <1>2, <1>3, <1>7 DEF row, p

\* REOPEN writes the row.
LEMMA ReopenWrites ==
  ASSUME TypeInv, NEW f \in Flight, Reopen(f)
  PROVE  LET p == flight[f].period IN
         /\ TypeInv' /\ Goes(f) /\ flight'[f] = Idle /\ p \in Period
         /\ periods'[p] = [status |-> "DRAFT", reviewed |-> 0, approved |-> 0]
         /\ \A q \in Period : q # p => periods'[q] = periods[q]
<1> DEFINE p == flight[f].period
           row == [status |-> "DRAFT", reviewed |-> 0, approved |-> 0]
<1>1. TypeOK /\ Fields(flight[f]) /\ flight[f].pc = "reopen"
  BY Kinds DEF TypeInv, Reopen
<1>2. p \in Period /\ row \in PayPeriod
  BY <1>1 DEF Fields, PayPeriod
<1>3. periods' = [periods EXCEPT ![p] = row] /\ Finish(f) /\ UNCHANGED <<runs, outstanding, eligible, data>>
  BY DEF Reopen
<1> HIDE DEF row, p
<1>4. QED
  BY <1>2, <1>3, WritesPeriod DEF row, p

\* REVIEW writes the row.
LEMMA ReviewWrites ==
  ASSUME TypeInv, NEW f \in Flight, Review(f)
  PROVE  LET p == flight[f].period IN
         /\ TypeInv' /\ Goes(f) /\ flight'[f] = Idle /\ p \in Period
         /\ periods'[p] = [status |-> "REVIEWED", reviewed |-> flight[f].version, approved |-> 0]
         /\ \A q \in Period : q # p => periods'[q] = periods[q]
<1> DEFINE p == flight[f].period
           row == [status |-> "REVIEWED", reviewed |-> flight[f].version, approved |-> 0]
<1>1. TypeOK /\ Fields(flight[f]) /\ flight[f].pc = "REVIEW"
  BY Kinds DEF TypeInv, Review
<1>2. p \in Period /\ row \in PayPeriod
  BY <1>1 DEF Fields, PayPeriod
<1>3. periods' = [periods EXCEPT ![p] = row] /\ Finish(f) /\ UNCHANGED <<runs, outstanding, eligible, data>>
  BY DEF Review
<1> HIDE DEF row, p
<1>4. QED
  BY <1>2, <1>3, WritesPeriod DEF row, p

\* APPROVE writes the row.
LEMMA ApproveWrites ==
  ASSUME TypeInv, NEW f \in Flight, Approve(f)
  PROVE  LET p == flight[f].period IN
         /\ TypeInv' /\ Goes(f) /\ flight'[f] = Idle /\ p \in Period
         /\ periods'[p].status = "APPROVED" /\ periods'[p].approved = flight[f].version
         /\ periods'[p].reviewed = periods[p].reviewed
         /\ \A q \in Period : q # p => periods'[q] = periods[q]
<1> DEFINE p == flight[f].period
           row == [periods[p] EXCEPT !.status = "APPROVED", !.approved = flight[f].version]
<1>1. TypeOK /\ Fields(flight[f]) /\ flight[f].pc = "APPROVE"
  BY Kinds DEF TypeInv, Approve
<1>2. p \in Period /\ flight[f].version \in Nat
  BY <1>1 DEF Fields
<1>3. /\ row \in PayPeriod /\ row.status = "APPROVED" /\ row.approved = flight[f].version
      /\ row.reviewed = periods[p].reviewed
  BY <1>1, <1>2, PeriodType DEF PayPeriod
<1>4. periods' = [periods EXCEPT ![p] = row] /\ Finish(f) /\ UNCHANGED <<runs, outstanding, eligible, data>>
  BY DEF Approve
<1> HIDE DEF row, p
<1>5. TypeInv' /\ Goes(f) /\ flight'[f] = Idle
         /\ periods'[p] = row /\ \A q \in Period : q # p => periods'[q] = periods[q]
  BY <1>2, <1>3, <1>4, WritesPeriod
<1>6. QED
  BY <1>2, <1>3, <1>5 DEF p

\* The end of LOCK writes the row.
LEMMA LockPeriodWrites ==
  ASSUME TypeInv, NEW f \in Flight, LockPeriod(f)
  PROVE  LET p == flight[f].period IN
         /\ TypeInv' /\ Goes(f) /\ flight'[f] = Idle /\ p \in Period
         /\ periods'[p].status = "LOCKED" /\ periods'[p].approved = periods[p].approved
         /\ periods'[p].reviewed = periods[p].reviewed
         /\ \A q \in Period : q # p => periods'[q] = periods[q]
<1> DEFINE p == flight[f].period
           row == [periods[p] EXCEPT !.status = "LOCKED"]
<1>1. TypeOK /\ Fields(flight[f]) /\ flight[f].pc = "close"
  BY Kinds DEF TypeInv, LockPeriod
<1>2. p \in Period
  BY <1>1 DEF Fields
<1>3. /\ row \in PayPeriod /\ row.status = "LOCKED" /\ row.approved = periods[p].approved
      /\ row.reviewed = periods[p].reviewed
  BY <1>1, <1>2, PeriodType DEF PayPeriod
<1>4. periods' = [periods EXCEPT ![p] = row] /\ Finish(f) /\ UNCHANGED <<runs, outstanding, eligible, data>>
  BY DEF LockPeriod
<1> HIDE DEF row, p
<1>5. TypeInv' /\ Goes(f) /\ flight'[f] = Idle
         /\ periods'[p] = row /\ \A q \in Period : q # p => periods'[q] = periods[q]
  BY <1>2, <1>3, <1>4, WritesPeriod
<1>6. QED
  BY <1>2, <1>3, <1>5 DEF p

\* A result is written.
LEMMA CreateResultTypes ==
  ASSUME TypeInv, NEW f \in Flight, NEW e \in Employee, CreateResult(f, e)
  PROVE  /\ TypeInv' /\ Goes(f) /\ UNCHANGED <<periods, outstanding, eligible, data>>
         /\ flight'[f] = [pc |-> "lines", period |-> flight[f].period, version |-> flight[f].version,
                          calculated |-> flight[f].calculated, employee |-> e]
<1> DEFINE s == [pc |-> "lines", period |-> flight[f].period, version |-> flight[f].version,
                 calculated |-> flight[f].calculated, employee |-> e]
<1>1. TypeOK /\ Fields(flight[f]) /\ flight[f].pc = "results"
  BY Kinds DEF TypeInv, CreateResult
<1>2. s \in {Idle} \cup Flights
  BY <1>1 DEF Fields, Flights
<1>3. Continue(f, s) /\ UNCHANGED <<periods, outstanding, eligible, data>>
  BY DEF CreateResult
<1>4. Goes(f) /\ flight'[f] = s
  BY <1>1, <1>2, <1>3, Moved
<1>5. PICK p \in Period : \E v \in 1..Latest(p), r \in Run :
           /\ p = flight[f].period /\ v = flight[f].version
           /\ Writes(p, v, r)
           /\ r.status = runs[p][v].status /\ r.acknowledged = runs[p][v].acknowledged
           /\ r.blocked = runs[p][v].blocked
           /\ r.results[e] # NoResult
           /\ \A x \in Employee : x # e => r.results[x] = runs[p][v].results[x]
  BY CreateResultWrites
<1>6. PICK v \in 1..Latest(p), r \in Run :
           /\ p = flight[f].period /\ v = flight[f].version
           /\ Writes(p, v, r)
           /\ r.results[e] # NoResult
           /\ \A x \in Employee : x # e => r.results[x] = runs[p][v].results[x]
  BY <1>5
<1>7. /\ runs' \in [Period -> Seq(Run)] /\ runs'[p][v] = r
      /\ Latest(p)' = Latest(p)
  BY <1>1, <1>6, RowWritten
<1>8. Keeps
  BY <1>1, <1>6, WriteKeeps
<1>9. /\ s.pc = "lines" /\ s.period = p /\ s.version = v /\ s.employee = e
  BY <1>6
<1> HIDE DEF s
<1>10. Sound(flight[f])'
  BY <1>4, <1>6, <1>7, <1>9 DEF Sound, Latest
<1>11. TypeInv'
  BY <1>1, <1>3, <1>4, <1>7, <1>8, <1>10, TypeStep DEF TypeOK
<1>12. QED
  BY <1>3, <1>4, <1>11 DEF s

\* The lines of a result are written.
LEMMA CreateLinesTypes ==
  ASSUME TypeInv, NEW f \in Flight, CreateLines(f)
  PROVE  /\ TypeInv' /\ Goes(f) /\ UNCHANGED <<periods, outstanding, eligible, data>>
         /\ \/ flight'[f] = Idle
            \/ flight'[f] = [pc |-> "results", period |-> flight[f].period, version |-> flight[f].version,
                             calculated |-> flight[f].calculated]
<1> DEFINE s == [pc |-> "results", period |-> flight[f].period, version |-> flight[f].version,
                 calculated |-> flight[f].calculated]
<1>1. TypeOK /\ Fields(flight[f]) /\ flight[f].pc = "lines" /\ Sound(flight[f])
  BY Kinds DEF TypeInv, CreateLines
<1>2. s \in {Idle} \cup Flights /\ Idle \in {Idle} \cup Flights
  BY <1>1 DEF Fields, Flights
<1>3. (Finish(f) \/ Continue(f, s)) /\ UNCHANGED <<periods, outstanding, eligible, data>>
  BY DEF CreateLines
<1>4. Goes(f) /\ (flight'[f] = Idle \/ flight'[f] = s)
  BY <1>1, <1>2, <1>3, Moved, Finished
<1>5. PICK p \in Period : \E v \in 1..Latest(p), r \in Run :
           /\ p = flight[f].period /\ v = flight[f].version
           /\ Writes(p, v, r)
           /\ r.status = runs[p][v].status /\ r.acknowledged = runs[p][v].acknowledged
           /\ r.blocked = runs[p][v].blocked
           /\ \A x \in Employee : runs[p][v].results[x] # NoResult => r.results[x] # NoResult
  BY CreateLinesWrites
<1>6. PICK v \in 1..Latest(p), r \in Run :
           /\ p = flight[f].period /\ v = flight[f].version
           /\ Writes(p, v, r)
           /\ \A x \in Employee : runs[p][v].results[x] # NoResult => r.results[x] # NoResult
  BY <1>5
<1>7. runs' \in [Period -> Seq(Run)] /\ Latest(p)' = Latest(p)
  BY <1>1, <1>6, RowWritten
<1>8. Keeps
  BY <1>1, <1>6, WriteKeeps
<1>9. /\ s.pc = "results" /\ s.period = p /\ s.version = v
  BY <1>6
<1> HIDE DEF s
<1>10. Sound(flight[f])'
  BY <1>4, <1>6, <1>7, <1>9, IdlePc DEF Sound, Latest
<1>11. TypeInv'
  BY <1>1, <1>3, <1>4, <1>7, <1>8, <1>10, TypeStep DEF TypeOK
<1>12. QED
  BY <1>3, <1>4, <1>11 DEF s

\* A warning is acknowledged.
LEMMA AcknowledgeTypes ==
  ASSUME TypeInv, NEW f \in Flight, Acknowledge(f)
  PROVE  TypeInv' /\ Goes(f) /\ flight'[f] = Idle /\ UNCHANGED <<periods, outstanding, eligible, data>>
<1>1. TypeOK /\ Finish(f) /\ UNCHANGED <<periods, outstanding, eligible, data>>
  BY DEF TypeInv, Acknowledge
<1>2. Goes(f) /\ flight'[f] = Idle
  BY <1>1, Finished
<1>3. PICK p \in Period : \E v \in 1..Latest(p), r \in Run :
           /\ p = flight[f].period /\ v = flight[f].version
           /\ Writes(p, v, r)
           /\ r.status = runs[p][v].status /\ r.results = runs[p][v].results
           /\ r.blocked = runs[p][v].blocked /\ runs[p][v].acknowledged \subseteq r.acknowledged
  BY AcknowledgeWrites
<1>4. PICK v \in 1..Latest(p), r \in Run : Writes(p, v, r) /\ r.results = runs[p][v].results
  BY <1>3
<1>5. runs' \in [Period -> Seq(Run)]
  BY <1>1, <1>4, RowWritten
<1>6. Keeps
  BY <1>1, <1>4, WriteKeeps
<1>7. Sound(flight[f])'
  BY <1>2, IdlePc DEF Sound
<1>8. QED
  BY <1>1, <1>2, <1>5, <1>6, <1>7, TypeStep DEF TypeOK

\* A run is locked.
LEMMA LockRunTypes ==
  ASSUME TypeInv, NEW f \in Flight, LockRun(f)
  PROVE  /\ TypeInv' /\ Goes(f) /\ UNCHANGED <<periods, outstanding, eligible, data>>
         /\ flight'[f] = [pc |-> "close", period |-> flight[f].period, version |-> flight[f].version]
<1> DEFINE s == [pc |-> "close", period |-> flight[f].period, version |-> flight[f].version]
<1>1. TypeOK /\ Fields(flight[f]) /\ flight[f].pc = "repay"
  BY Kinds DEF TypeInv, LockRun
<1>2. s \in {Idle} \cup Flights
  BY <1>1 DEF Fields, Flights
<1>3. Continue(f, s) /\ UNCHANGED <<periods, outstanding, eligible, data>>
  BY DEF LockRun
<1>4. Goes(f) /\ flight'[f] = s
  BY <1>1, <1>2, <1>3, Moved
<1>5. PICK p \in Period : \E v \in 1..Latest(p), r \in Run :
           /\ p = flight[f].period /\ v = flight[f].version
           /\ Writes(p, v, r)
           /\ r.status = "LOCKED" /\ r.results = runs[p][v].results
           /\ r.blocked = runs[p][v].blocked /\ r.acknowledged = runs[p][v].acknowledged
  BY LockRunWrites
<1>6. PICK v \in 1..Latest(p), r \in Run :
           /\ p = flight[f].period /\ v = flight[f].version
           /\ Writes(p, v, r) /\ r.results = runs[p][v].results
  BY <1>5
<1>7. runs' \in [Period -> Seq(Run)] /\ Latest(p)' = Latest(p)
  BY <1>1, <1>6, RowWritten
<1>8. Keeps
  BY <1>1, <1>6, WriteKeeps
<1>9. /\ s.pc = "close" /\ s.period = p /\ s.version = v
  BY <1>6
<1> HIDE DEF s
<1>10. Sound(flight[f])'
  BY <1>4, <1>6, <1>7, <1>9 DEF Sound, Latest
<1>11. TypeInv'
  BY <1>1, <1>3, <1>4, <1>7, <1>8, <1>10, TypeStep DEF TypeOK
<1>12. QED
  BY <1>3, <1>4, <1>11 DEF s

\* A run starts.
LEMMA CreateRunTypes ==
  ASSUME TypeInv, NEW f \in Flight, CreateRun(f)
  PROVE  /\ TypeInv' /\ Goes(f) /\ UNCHANGED <<periods, outstanding, eligible, data>>
         /\ flight'[f] = [pc |-> "results", period |-> flight[f].period, version |-> flight[f].version,
                          calculated |-> flight[f].calculated]
<1> DEFINE s == [pc |-> "results", period |-> flight[f].period, version |-> flight[f].version,
                 calculated |-> flight[f].calculated]
<1>1. TypeOK /\ flight[f].pc = "run" /\ flight[f] \in {Idle} \cup Flights /\ Fields(flight[f])
  BY Kinds DEF TypeInv, CreateRun, TypeOK
<1>2. s \in {Idle} \cup Flights
  BY <1>1 DEF Fields, Flights
<1>3. [flight[f] EXCEPT !.pc = "results"] = s
  <2>1. flight[f] # Idle
    BY <1>1, NotIdle
  <2>2. flight[f] \in [pc : {"run", "results"}, period : Period, version : Nat, calculated : Results]
    BY <1>1, <2>1 DEF Flights
  <2>3. QED
    BY <2>2
<1>4. Continue(f, s) /\ UNCHANGED <<periods, outstanding, eligible, data>>
  BY <1>3 DEF CreateRun
<1>5. Goes(f) /\ flight'[f] = s
  BY <1>1, <1>2, <1>4, Moved
<1>6. PICK p \in Period : \E r \in Run :
           /\ p = flight[f].period /\ flight[f].version = Latest(p) + 1
           /\ runs' = [runs EXCEPT ![p] = Append(runs[p], r)]
           /\ r.status = "DRAFT" /\ \A e \in Employee : r.results[e] = NoResult
  BY CreateRunAppends
<1>7. PICK r \in Run :
           /\ p = flight[f].period /\ flight[f].version = Latest(p) + 1
           /\ runs' = [runs EXCEPT ![p] = Append(runs[p], r)]
  BY <1>6
<1>8. /\ runs' \in [Period -> Seq(Run)]
      /\ Latest(p)' = Latest(p) + 1 /\ \A q \in Period : q # p => Latest(q)' = Latest(q)
      /\ \A q \in Period : \A w \in 1..Latest(q) : runs'[q][w] = runs[q][w]
  BY <1>1, <1>7, RunAppended
<1>9. \A q \in Period : Latest(q) \in Nat
  BY <1>1, LatestType
<1>10. Keeps
  BY <1>8, <1>9 DEF Keeps
<1>11. s.pc = "results" /\ s.period = p /\ s.version = Latest(p) + 1
  BY <1>7
<1> HIDE DEF s
<1>12. Sound(flight[f])'
  BY <1>5, <1>8, <1>9, <1>11 DEF Sound, Latest
<1>13. TypeInv'
  BY <1>1, <1>4, <1>5, <1>8, <1>10, <1>12, TypeStep DEF TypeOK
<1>14. QED
  BY <1>4, <1>5, <1>13 DEF s

\* An advance is repaid, or the lock is refused.
LEMMA RepayTypes ==
  ASSUME TypeInv, NEW f \in Flight, NEW e \in Employee, RepayAdvance(f, e)
  PROVE  /\ TypeInv' /\ Goes(f) /\ UNCHANGED <<periods, runs, eligible, data>>
         /\ \/ flight'[f] = Idle
            \/ flight'[f] = [pc |-> "repay", period |-> flight[f].period, version |-> flight[f].version,
                             left |-> flight[f].left \ {e}]
<1> DEFINE p == flight[f].period
           v == flight[f].version
           s == [pc |-> "repay", period |-> p, version |-> v, left |-> flight[f].left \ {e}]
           amount == runs[p][v].results[e].line
<1>1. TypeOK /\ flight[f].pc = "repay" /\ flight[f] \in {Idle} \cup Flights /\ Fields(flight[f])
      /\ Sound(flight[f])
  BY Kinds DEF TypeInv, RepayAdvance, TypeOK
<1>2. s \in {Idle} \cup Flights /\ Idle \in {Idle} \cup Flights
  BY <1>1 DEF Fields, Flights
<1>3. [flight[f] EXCEPT !.left = @ \ {e}] = s
  <2>1. flight[f] # Idle
    BY <1>1, NotIdle
  <2>2. flight[f] \in [pc : {"repay"}, period : Period, version : Nat, left : SUBSET Employee]
    BY <1>1, <2>1 DEF Flights
  <2>3. QED
    BY <2>2
<1>4. UNCHANGED <<periods, runs, eligible, data>>
  BY DEF RepayAdvance
<1>5. \/ Continue(f, s) /\ outstanding[e] >= amount /\ outstanding' = [outstanding EXCEPT ![e] = @ - amount]
      \/ Finish(f) /\ outstanding' = outstanding
  BY <1>3 DEF RepayAdvance
<1>6. Goes(f) /\ (flight'[f] = s \/ flight'[f] = Idle)
  BY <1>1, <1>2, <1>5, Moved, Finished
<1>7. p \in Period /\ v \in 1..Latest(p)
  BY <1>1 DEF Fields, Sound
<1>8. amount \in Nat
  <2>1. runs[p][v] \in Run
    BY <1>1, <1>7, LatestType
  <2> HIDE DEF p, v
  <2>2. QED
    BY <2>1 DEF Run, Results, Result, NoResult
<1>9. s.pc = "repay" /\ s.period = p /\ s.version = v
  OBVIOUS
<1> HIDE DEF s, amount, p, v
<1>10. outstanding' \in [Employee -> Nat]
  BY <1>1, <1>5, <1>8 DEF TypeOK
<1>11. Sound(flight[f])'
  BY <1>4, <1>6, <1>7, <1>9, IdlePc DEF Sound, Latest
<1>12. Keeps
  BY <1>1, <1>4, SameKeeps
<1>13. TypeInv'
  BY <1>1, <1>4, <1>6, <1>10, <1>11, <1>12, TypeStep DEF TypeOK
<1>14. QED
  BY <1>4, <1>6, <1>13 DEF s, p, v

\* Employees come and go, and inputs change, beside the requests.
LEMMA InputTypes ==
  ASSUME TypeInv, UNCHANGED <<periods, runs, outstanding, flight>>,
         eligible' \subseteq Employee, data' \in [Employee -> Data]
  PROVE  TypeInv'
<1>1. TypeOK'
  BY DEF TypeInv, TypeOK
<1>2. \A g \in Flight : Sound(flight[g])'
  BY DEF TypeInv, Sound, Latest
<1>3. QED
  BY <1>1, <1>2 DEF TypeInv

\* Initially the types are right.
LEMMA TypeInit == Init => TypeInv
<1> SUFFICES ASSUME Init PROVE TypeInv
  OBVIOUS
<1>1. TypeOK
  BY PayrollRunAssumption, EmptySeq DEF Init, TypeOK, Data
<1>2. \A f \in Flight : Sound(flight[f])
  BY IdleStep DEF Init
<1>3. QED
  BY <1>1, <1>2 DEF TypeInv

\* Every step keeps them.
LEMMA TypeNext == TypeInv /\ [Next]_vars => TypeInv'
<1> SUFFICES ASSUME TypeInv, [Next]_vars PROVE TypeInv'
  OBVIOUS
<1>1. ASSUME NEW f \in Flight, NEW p \in Period,
             CreatePeriodRead(f, p) \/ CalculateRead(f, p) \/ ReopenRead(f, p)
      PROVE  TypeInv'
  BY <1>1, CreatePeriodReads, CalculateReads, ReopenReads
<1>2. ASSUME NEW f \in Flight, NEW p \in Period, NEW e \in Employee, AcknowledgeRead(f, p, e)
      PROVE  TypeInv'
  BY <1>2, AcknowledgeReads
<1>3. ASSUME NEW f \in Flight, NEW p \in Period, NEW action \in {"REVIEW", "APPROVE", "LOCK"},
             TransitionRead(f, p, action)
      PROVE  TypeInv'
  BY <1>3, TransitionReads
<1>4. ASSUME NEW f \in Flight, CreatePeriod(f) \/ Reopen(f) \/ Review(f) \/ Approve(f) \/ LockPeriod(f)
      PROVE  TypeInv'
  BY <1>4, CreatePeriodWrites, ReopenWrites, ReviewWrites, ApproveWrites, LockPeriodWrites
<1>5. ASSUME NEW f \in Flight, CalculateInputs(f) \/ AssertReviewable(f) \/ LockRead(f)
      PROVE  TypeInv'
  BY <1>5, CalculateInputsReads, AssertReads, LockReads
<1>6. ASSUME NEW f \in Flight, CreateRun(f) \/ CreateLines(f) \/ Acknowledge(f) \/ LockRun(f)
      PROVE  TypeInv'
  BY <1>6, CreateRunTypes, CreateLinesTypes, AcknowledgeTypes, LockRunTypes
<1>7. ASSUME NEW f \in Flight, NEW e \in Employee, CreateResult(f, e) \/ RepayAdvance(f, e)
      PROVE  TypeInv'
  BY <1>7, CreateResultTypes, RepayTypes
<1>8. ASSUME NEW f \in Flight, Stop(f)
      PROVE  TypeInv'
  BY <1>8, Ends DEF Stop, tables
<1>9. ASSUME NEW e \in Employee, ChangeEligible(e) PROVE TypeInv'
  BY <1>9, InputTypes DEF ChangeEligible, TypeInv, TypeOK
<1>10. ASSUME NEW e \in Employee, NEW d \in Data, ChangeData(e, d) PROVE TypeInv'
  BY <1>10, InputTypes DEF ChangeData, TypeInv, TypeOK
<1>11. CASE UNCHANGED vars
  BY <1>11, InputTypes DEF vars, TypeInv, TypeOK
<1>12. QED
  BY <1>1, <1>2, <1>3, <1>4, <1>5, <1>6, <1>7, <1>8, <1>9, <1>10, <1>11 DEF Next, Progress

\* They hold in every state.
LEMMA TypeInvariant == Spec => []TypeInv
BY TypeInit, TypeNext, PTL DEF Spec

-----------------------------------------------------------------------------
(* Calculation runs: one request at a time.                                *)

\* At most one request is in flight.
OneAtATime == \A f, g \in Flight : flight[f] # Idle /\ flight[g] # Idle => f = g

\* What the step s of a request has checked is still so when it writes.
Current(s) ==
  /\ s.pc = "create" => periods[s.period] = NoPeriod /\ NoOverlap(s.period)
  /\ s.pc \in {"inputs", "run", "results", "lines", "acknowledge"} => periods[s.period].status = "DRAFT"
  /\ s.pc \in {"results", "lines"} =>
       s.version = Latest(s.period) /\ runs[s.period][s.version].status = "DRAFT"
  /\ s.pc = "assert" => s.current = periods[s.period] /\ validTransition(s.current.status, s.action)
  /\ s.pc \in {"REVIEW", "APPROVE", "LOCK"} => validTransition(periods[s.period].status, s.pc)
  /\ s.pc \in {"repay", "close"} => periods[s.period].status = "APPROVED"
  /\ s.pc \in {"REVIEW", "APPROVE", "LOCK", "repay", "close"} =>
       LET run == runs[s.period][s.version]
       IN s.version = Latest(s.period) /\ Ready(run) /\ Covered(run.results) = eligible
  /\ s.pc = "APPROVE" => periods[s.period].reviewed = s.version
  /\ s.pc \in {"LOCK", "repay", "close"} => periods[s.period].approved = s.version
  /\ s.pc = "reopen" => periods[s.period].status \in {"REVIEWED", "APPROVED"}

Serial == OneAtATime /\ \A f \in Flight : Current(flight[f])

\* A period that is not reviewed carries no run.
Unreviewed == \A p \in Period : periods[p].status \in {"NONE", "DRAFT"} => periods[p].reviewed = 0

Decided == CarriesTheLatest /\ WarningsAreAcknowledgedFirst /\ PeriodsAreDisjoint /\ Unreviewed

\* The inductive invariant.
Inv == TypeInv /\ Serial /\ Decided

\* The requests other than f are idle.
Alone(f) == \A g \in Flight : g # f => flight[g] = Idle

\* So they are when f starts, and while it is in flight.
LEMMA OthersAreIdle ==
  ASSUME TypeOK, CoordinatorSerializes, OneAtATime, NEW f \in Flight, Deliver(f) \/ flight[f].pc # "idle"
  PROVE  Alone(f)
BY IdlePc DEF Deliver, Busy, OneAtATime, Alone

\* A request that was alone in flight, and moves to a step that is current.
LEMMA SerialStep ==
  ASSUME TypeOK, NEW f \in Flight, Alone(f), Goes(f), Current(flight[f])'
  PROVE  Serial'
<1>1. \A g \in Flight : g # f => flight'[g] = Idle
  BY DEF Alone, Goes
<1>2. \A g \in Flight : g # f => Current(flight[g])'
  BY <1>1, IdlePc DEF Current
<1>3. QED
  BY <1>1, <1>2 DEF Serial, OneAtATime

\* What is decided stays decided when neither periods nor runs change.
LEMMA DecidedStays ==
  ASSUME Decided, UNCHANGED <<periods, runs>>
  PROVE  Decided'
BY DEF Decided, CarriesTheLatest, WarningsAreAcknowledgedFirst, PeriodsAreDisjoint, Unreviewed, Latest, Ready

\* A request that ends without having written anything.
LEMMA SerialEnds ==
  ASSUME Inv, NEW f \in Flight, Alone(f), Goes(f), flight'[f] = Idle, TypeInv',
         UNCHANGED <<periods, runs>>
  PROVE  Inv'
<1>1. Current(flight[f])'
  BY IdlePc DEF Current
<1>2. QED
  BY <1>1, SerialStep, DecidedStays DEF Inv, TypeInv

\* A request that has read what its step says.
LEMMA SerialReads ==
  ASSUME Inv, NEW f \in Flight, Alone(f), Goes(f), TypeInv', UNCHANGED tables,
         NEW s, flight'[f] = s, Current(s)
  PROVE  Inv'
<1>1. Current(flight[f])'
  BY DEF Current, NoOverlap, Latest, Ready, Covered, validTransition, tables
<1>2. QED
  BY <1>1, SerialStep, DecidedStays DEF Inv, TypeInv, tables

\* createPayPeriodV2, calculatePayrollRun and REOPEN have read the period.
LEMMA PeriodsRead ==
  ASSUME Inv, CoordinatorSerializes, NEW f \in Flight, NEW p \in Period,
         CreatePeriodRead(f, p) \/ CalculateRead(f, p) \/ ReopenRead(f, p)
  PROVE  Inv'
<1>1. TypeInv /\ Alone(f)
  BY OthersAreIdle DEF Inv, Serial, TypeInv, CreatePeriodRead, CalculateRead, ReopenRead
<1>2. CASE CreatePeriodRead(f, p)
  <2> DEFINE s == [pc |-> "create", period |-> p]
  <2>1. TypeInv' /\ Goes(f) /\ flight'[f] = s /\ UNCHANGED tables
    BY <1>1, <1>2, CreatePeriodReads
  <2>2. Current(s)
    BY <1>2 DEF CreatePeriodRead, Current
  <2> HIDE DEF s
  <2>3. QED
    BY <1>1, <2>1, <2>2, SerialReads
<1>3. CASE CalculateRead(f, p)
  <2> DEFINE s == [pc |-> "inputs", period |-> p]
  <2>1. TypeInv' /\ Goes(f) /\ flight'[f] = s /\ UNCHANGED tables
    BY <1>1, <1>3, CalculateReads
  <2>2. Current(s)
    BY <1>3 DEF CalculateRead, Calculable, Current
  <2> HIDE DEF s
  <2>3. QED
    BY <1>1, <2>1, <2>2, SerialReads
<1>4. CASE ReopenRead(f, p)
  <2> DEFINE s == [pc |-> "reopen", period |-> p]
  <2>1. TypeInv' /\ Goes(f) /\ flight'[f] = s /\ UNCHANGED tables
    BY <1>1, <1>4, ReopenReads
  <2>2. Current(s)
    BY <1>4 DEF ReopenRead, validTransition, Current
  <2> HIDE DEF s
  <2>3. QED
    BY <1>1, <2>1, <2>2, SerialReads
<1>5. QED
  BY <1>2, <1>3, <1>4

\* The calculation goes on with a period that is still a draft.
LEMMA InputsRead ==
  ASSUME Inv, CoordinatorSerializes, NEW f \in Flight, CalculateInputs(f)
  PROVE  Inv'
<1> DEFINE s == [pc |-> "run", period |-> flight[f].period, version |-> Latest(flight[f].period) + 1,
                 calculated |-> Calculated]
<1>1. TypeInv /\ Alone(f) /\ Current(flight[f]) /\ flight[f].pc = "inputs"
  BY OthersAreIdle DEF Inv, Serial, TypeInv, CalculateInputs
<1>2. TypeInv' /\ Goes(f) /\ flight'[f] = s /\ UNCHANGED tables
  BY <1>1, CalculateInputsReads
<1>3. Current(s)
  BY <1>1 DEF Current
<1> HIDE DEF s
<1>4. QED
  BY <1>1, <1>2, <1>3, SerialReads

\* A warning of the latest run of a draft.
LEMMA WarningRead ==
  ASSUME Inv, CoordinatorSerializes, NEW f \in Flight, NEW p \in Period, NEW e \in Employee,
         AcknowledgeRead(f, p, e)
  PROVE  Inv'
<1> DEFINE s == [pc |-> "acknowledge", period |-> p, version |-> Latest(p), employee |-> e]
<1>1. TypeInv /\ Alone(f)
  BY OthersAreIdle DEF Inv, Serial, TypeInv, AcknowledgeRead
<1>2. TypeInv' /\ Goes(f) /\ flight'[f] = s /\ UNCHANGED tables
  BY <1>1, AcknowledgeReads
<1>3. Current(s)
  BY DEF AcknowledgeRead, Current
<1> HIDE DEF s
<1>4. QED
  BY <1>1, <1>2, <1>3, SerialReads

\* The period whose transition is asked for.
LEMMA TransitionsRead ==
  ASSUME Inv, CoordinatorSerializes, NEW f \in Flight, NEW p \in Period,
         NEW action \in {"REVIEW", "APPROVE", "LOCK"}, TransitionRead(f, p, action)
  PROVE  Inv'
<1> DEFINE s == [pc |-> "assert", period |-> p, action |-> action, current |-> periods[p]]
<1>1. TypeInv /\ Alone(f)
  BY OthersAreIdle DEF Inv, Serial, TypeInv, TransitionRead
<1>2. TypeInv' /\ Goes(f) /\ flight'[f] = s /\ UNCHANGED tables
  BY <1>1, TransitionReads
<1>3. Current(s)
  BY DEF TransitionRead, Current
<1> HIDE DEF s
<1>4. QED
  BY <1>1, <1>2, <1>3, SerialReads

\* The calculation is the one that was reviewed and approved.
LEMMA AssertRead ==
  ASSUME Inv, CoordinatorSerializes, NEW f \in Flight, AssertReviewable(f)
  PROVE  Inv'
<1> DEFINE p == flight[f].period
           a == flight[f].action
           s == [pc |-> a, period |-> p, version |-> Latest(p)]
<1>1. /\ TypeInv /\ Alone(f) /\ Current(flight[f]) /\ flight[f].pc = "assert" /\ Fields(flight[f])
  BY OthersAreIdle, Kinds DEF Inv, Serial, TypeInv, AssertReviewable
<1>2. /\ TypeInv' /\ Goes(f) /\ UNCHANGED tables
      /\ \/ flight'[f] = Idle
         \/ Reviewable(flight[f]) /\ flight'[f] = s
  BY <1>1, AssertReads
<1>3. CASE flight'[f] = Idle
  BY <1>1, <1>2, <1>3, SerialEnds DEF tables
<1>4. CASE Reviewable(flight[f]) /\ flight'[f] = s
  <2>1. /\ flight[f].current = periods[p] /\ validTransition(periods[p].status, a)
        /\ a \in {"REVIEW", "APPROVE", "LOCK"} /\ p \in Period
    BY <1>1 DEF Current, Fields
  <2>2. /\ Coverage(runs[p][Latest(p)]) /\ Ready(runs[p][Latest(p)])
        /\ Unchanged(a, periods[p], Latest(p))
    BY <1>4, <2>1 DEF Reviewable
  <2>3. Covered(runs[p][Latest(p)].results) = eligible
    BY <2>2 DEF Coverage
  <2> HIDE DEF p, a
  <2>4. Current(s)
    BY <2>1, <2>2, <2>3 DEF Current, Unchanged
  <2> HIDE DEF s
  <2>5. QED
    BY <1>1, <1>2, <1>4, <2>4, SerialReads
<1>5. QED
  BY <1>2, <1>3, <1>4

\* The run that is about to be locked is still the one that was approved.
LEMMA LockRunRead ==
  ASSUME Inv, CoordinatorSerializes, NEW f \in Flight, LockRead(f)
  PROVE  Inv'
<1> DEFINE s == [pc |-> "repay", period |-> flight[f].period, version |-> flight[f].version,
                 left |-> Repayments(runs[flight[f].period][flight[f].version])]
<1>1. TypeInv /\ Alone(f) /\ Current(flight[f]) /\ flight[f].pc = "LOCK"
  BY OthersAreIdle DEF Inv, Serial, TypeInv, LockRead
<1>2. TypeInv' /\ Goes(f) /\ UNCHANGED tables /\ (flight'[f] = Idle \/ flight'[f] = s)
  BY <1>1, LockReads
<1>3. CASE flight'[f] = Idle
  BY <1>1, <1>2, <1>3, SerialEnds DEF tables
<1>4. CASE flight'[f] = s
  <2>1. Current(s)
    BY <1>1 DEF Current, validTransition
  <2> HIDE DEF s
  <2>2. QED
    BY <1>1, <1>2, <1>4, <2>1, SerialReads
<1>5. QED
  BY <1>2, <1>3, <1>4

-----------------------------------------------------------------------------
(* What the writes leave behind.                                           *)

\* A request that ends alone.
LEMMA SerialFinish ==
  ASSUME TypeOK, NEW f \in Flight, Alone(f), Goes(f), flight'[f] = Idle
  PROVE  Serial'
<1>1. Current(flight[f])'
  BY IdlePc DEF Current
<1>2. QED
  BY <1>1, SerialStep

\* One period changes as its run allows.
LEMMA DecidedPeriod ==
  ASSUME Decided, TypeOK, UNCHANGED runs, NEW p \in Period,
         \A q \in Period : q # p => periods'[q] = periods[q],
         periods[p].status # "NONE" \/ NoOverlap(p),
         periods'[p].status \in {"NONE", "DRAFT"} => periods'[p].reviewed = 0,
         periods'[p].status \in {"REVIEWED", "APPROVED", "LOCKED"} => periods'[p].reviewed = Latest(p),
         periods'[p].status \in {"APPROVED", "LOCKED"} => periods'[p].approved = periods'[p].reviewed,
         periods'[p].reviewed # 0 => Ready(runs[p][periods'[p].reviewed])
  PROVE  Decided'
<1>1. CarriesTheLatest'
  BY DEF Decided, CarriesTheLatest, Latest
<1>2. Unreviewed'
  BY DEF Decided, Unreviewed
<1>3. ASSUME NEW q \in Period, periods'[q].reviewed # 0 PROVE Ready(runs[q][periods[q].reviewed])'
  <2>1. Ready(runs[q][periods'[q].reviewed])
    BY <1>3 DEF Decided, WarningsAreAcknowledgedFirst
  <2>2. QED
    BY <2>1 DEF Ready
<1>4. ASSUME NEW q \in Period, NEW v \in 1..Latest(q)', runs'[q][v].status = "LOCKED"
      PROVE  Ready(runs[q][v])'
  BY <1>4 DEF Decided, WarningsAreAcknowledgedFirst, Latest, Ready
<1>5. WarningsAreAcknowledgedFirst'
  BY <1>3, <1>4 DEF WarningsAreAcknowledgedFirst
<1>6. PeriodsAreDisjoint'
  <2> SUFFICES ASSUME NEW q \in Period, NEW r \in Period, q # r, periods'[q].status # "NONE",
                      periods'[r].status # "NONE"
               PROVE  Days[q] \cap Days[r] = {}
    BY DEF PeriodsAreDisjoint
  <2>1. CASE periods[q].status # "NONE" /\ periods[r].status # "NONE"
    BY <2>1 DEF Decided, PeriodsAreDisjoint
  <2>2. CASE periods[q].status = "NONE"
    BY <2>2 DEF NoOverlap
  <2>3. CASE periods[r].status = "NONE"
    BY <2>3 DEF NoOverlap
  <2>4. QED
    BY <2>1, <2>2, <2>3
<1>7. QED
  BY <1>1, <1>2, <1>5, <1>6 DEF Decided

\* A new period is a draft and shares no day with another one.
LEMMA CreatePeriodDecides ==
  ASSUME Inv, CoordinatorSerializes, NEW f \in Flight, CreatePeriod(f)
  PROVE  Inv'
<1> DEFINE p == flight[f].period
<1>1. TypeInv /\ TypeOK /\ Alone(f) /\ Current(flight[f]) /\ flight[f].pc = "create" /\ Decided
  BY OthersAreIdle DEF Inv, Serial, TypeInv, CreatePeriod
<1>2. /\ TypeInv' /\ Goes(f) /\ flight'[f] = Idle /\ p \in Period
      /\ periods'[p] = [status |-> "DRAFT", reviewed |-> 0, approved |-> 0]
      /\ \A q \in Period : q # p => periods'[q] = periods[q]
  BY <1>1, CreatePeriodWrites
<1>3. NoOverlap(p) /\ UNCHANGED runs
  BY <1>1 DEF Current, CreatePeriod
<1> HIDE DEF p
<1>4. Decided'
  BY <1>1, <1>2, <1>3, DecidedPeriod
<1>5. QED
  BY <1>1, <1>2, <1>4, SerialFinish DEF Inv

\* A period that is reopened is a draft again.
LEMMA ReopenDecides ==
  ASSUME Inv, CoordinatorSerializes, NEW f \in Flight, Reopen(f)
  PROVE  Inv' /\ periods[flight[f].period].status # "LOCKED"
<1> DEFINE p == flight[f].period
<1>1. TypeInv /\ TypeOK /\ Alone(f) /\ Current(flight[f]) /\ flight[f].pc = "reopen" /\ Decided
  BY OthersAreIdle DEF Inv, Serial, TypeInv, Reopen
<1>2. /\ TypeInv' /\ Goes(f) /\ flight'[f] = Idle /\ p \in Period
      /\ periods'[p] = [status |-> "DRAFT", reviewed |-> 0, approved |-> 0]
      /\ \A q \in Period : q # p => periods'[q] = periods[q]
  BY <1>1, ReopenWrites
<1>3. periods[p].status \in {"REVIEWED", "APPROVED"} /\ UNCHANGED runs
  BY <1>1 DEF Current, Reopen
<1> HIDE DEF p
<1>4. Decided'
  BY <1>1, <1>2, <1>3, DecidedPeriod
<1>5. Inv'
  BY <1>1, <1>2, <1>4, SerialFinish DEF Inv
<1>6. QED
  BY <1>3, <1>5 DEF p

\* A review carries the latest run, which is ready.
LEMMA ReviewDecides ==
  ASSUME Inv, CoordinatorSerializes, NEW f \in Flight, Review(f)
  PROVE  Inv' /\ periods[flight[f].period].status # "LOCKED"
<1> DEFINE p == flight[f].period
           v == flight[f].version
<1>1. TypeInv /\ TypeOK /\ Alone(f) /\ Current(flight[f]) /\ flight[f].pc = "REVIEW" /\ Decided
  BY OthersAreIdle DEF Inv, Serial, TypeInv, Review
<1>2. /\ TypeInv' /\ Goes(f) /\ flight'[f] = Idle /\ p \in Period
      /\ periods'[p] = [status |-> "REVIEWED", reviewed |-> v, approved |-> 0]
      /\ \A q \in Period : q # p => periods'[q] = periods[q]
  BY <1>1, ReviewWrites
<1>3. periods[p].status = "DRAFT" /\ v = Latest(p) /\ Ready(runs[p][v]) /\ UNCHANGED runs
  BY <1>1 DEF Current, Review, validTransition
<1> HIDE DEF p, v
<1>4. Decided'
  BY <1>1, <1>2, <1>3, DecidedPeriod
<1>5. Inv'
  BY <1>1, <1>2, <1>4, SerialFinish DEF Inv
<1>6. QED
  BY <1>3, <1>5 DEF p

\* An approval carries the run that was reviewed.
LEMMA ApproveDecides ==
  ASSUME Inv, CoordinatorSerializes, NEW f \in Flight, Approve(f)
  PROVE  Inv' /\ periods[flight[f].period].status # "LOCKED"
<1> DEFINE p == flight[f].period
           v == flight[f].version
<1>1. TypeInv /\ TypeOK /\ Alone(f) /\ Current(flight[f]) /\ flight[f].pc = "APPROVE" /\ Decided
  BY OthersAreIdle DEF Inv, Serial, TypeInv, Approve
<1>2. /\ TypeInv' /\ Goes(f) /\ flight'[f] = Idle /\ p \in Period
      /\ periods'[p].status = "APPROVED" /\ periods'[p].approved = v
      /\ periods'[p].reviewed = periods[p].reviewed
      /\ \A q \in Period : q # p => periods'[q] = periods[q]
  BY <1>1, ApproveWrites
<1>3. /\ periods[p].status = "REVIEWED" /\ v = Latest(p) /\ periods[p].reviewed = v
      /\ Ready(runs[p][v]) /\ UNCHANGED runs
  BY <1>1 DEF Current, Approve, validTransition
<1> HIDE DEF p, v
<1>4. Decided'
  BY <1>1, <1>2, <1>3, DecidedPeriod
<1>5. Inv'
  BY <1>1, <1>2, <1>4, SerialFinish DEF Inv
<1>6. QED
  BY <1>3, <1>5 DEF p

\* A period is locked on the approved run, which covers the employees of this moment.
LEMMA LockPeriodDecides ==
  ASSUME Inv, CoordinatorSerializes, NEW f \in Flight, LockPeriod(f)
  PROVE  /\ Inv' /\ periods[flight[f].period].status # "LOCKED"
         /\ Covered(runs[flight[f].period][periods[flight[f].period].approved].results) = eligible
<1> DEFINE p == flight[f].period
           v == flight[f].version
<1>1. TypeInv /\ TypeOK /\ Alone(f) /\ Current(flight[f]) /\ flight[f].pc = "close" /\ Decided
  BY OthersAreIdle DEF Inv, Serial, TypeInv, LockPeriod
<1>2. /\ TypeInv' /\ Goes(f) /\ flight'[f] = Idle /\ p \in Period
      /\ periods'[p].status = "LOCKED" /\ periods'[p].approved = periods[p].approved
      /\ periods'[p].reviewed = periods[p].reviewed
      /\ \A q \in Period : q # p => periods'[q] = periods[q]
  BY <1>1, LockPeriodWrites
<1>3. /\ periods[p].status = "APPROVED" /\ v = Latest(p) /\ periods[p].approved = v
      /\ Ready(runs[p][v]) /\ Covered(runs[p][v].results) = eligible /\ UNCHANGED runs
  BY <1>1 DEF Current, LockPeriod
<1> HIDE DEF p, v
<1>4. periods[p].reviewed = v
  BY <1>1, <1>2, <1>3 DEF Decided, CarriesTheLatest
<1>5. Decided'
  BY <1>1, <1>2, <1>3, <1>4, DecidedPeriod
<1>6. Inv'
  BY <1>1, <1>2, <1>5, SerialFinish DEF Inv
<1>7. QED
  BY <1>3, <1>6 DEF p

\* One run changes that is ready if it is carried or locked.
LEMMA DecidedRun ==
  ASSUME Decided, TypeOK, UNCHANGED periods, NEW p \in Period, NEW v \in 1..Latest(p), NEW r \in Run,
         Writes(p, v, r), periods[p].reviewed = v => Ready(r), r.status = "LOCKED" => Ready(r)
  PROVE  Decided'
<1>1. /\ \A q \in Period : Latest(q)' = Latest(q)
      /\ runs'[p][v] = r
      /\ \A q \in Period : \A w \in 1..Latest(q) : q # p \/ w # v => runs'[q][w] = runs[q][w]
  BY RowWritten
<1>2. CarriesTheLatest'
  BY <1>1 DEF Decided, CarriesTheLatest
<1>3. Unreviewed' /\ PeriodsAreDisjoint'
  BY DEF Decided, Unreviewed, PeriodsAreDisjoint
<1>4. ASSUME NEW q \in Period, periods[q].reviewed # 0 PROVE Ready(runs'[q][periods[q].reviewed])
  <2>1. Ready(runs[q][periods[q].reviewed])
    BY <1>4 DEF Decided, WarningsAreAcknowledgedFirst
  <2>2. CASE q # p
    <3>1. runs'[q] = runs[q]
      BY <2>2 DEF Writes, TypeOK
    <3>2. QED
      BY <2>1, <3>1
  <2>3. CASE q = p /\ periods[q].reviewed = v
    BY <1>1, <2>3
  <2>4. CASE q = p /\ periods[q].reviewed # v
    <3>1. periods[q] \in PayPeriod
      BY PeriodType
    <3>2. periods[q].reviewed = Latest(q)
      BY <1>4, <3>1 DEF Decided, Unreviewed, CarriesTheLatest, PayPeriod
    <3>3. Latest(q) \in 1..Latest(q)
      BY <2>4, LatestType
    <3>4. runs'[q][periods[q].reviewed] = runs[q][periods[q].reviewed]
      BY <1>1, <2>4, <3>2, <3>3
    <3>5. QED
      BY <2>1, <3>4
  <2>5. QED
    BY <2>2, <2>3, <2>4
<1>5. ASSUME NEW q \in Period, NEW w \in 1..Latest(q), runs'[q][w].status = "LOCKED" PROVE Ready(runs'[q][w])
  <2>1. CASE q = p /\ w = v
    BY <1>1, <1>5, <2>1
  <2>2. CASE q # p \/ w # v
    BY <1>1, <1>5, <2>2 DEF Decided, WarningsAreAcknowledgedFirst
  <2>3. QED
    BY <2>1, <2>2
<1>6. WarningsAreAcknowledgedFirst'
  BY <1>1, <1>4, <1>5 DEF WarningsAreAcknowledgedFirst, Ready
<1>7. QED
  BY <1>2, <1>3, <1>6 DEF Decided

\* A draft carries no run.
LEMMA DraftCarriesNone ==
  ASSUME Decided, NEW p \in Period, periods[p].status = "DRAFT"
  PROVE  periods[p].reviewed = 0
BY DEF Decided, Unreviewed

\* A result is written to the latest run of a draft.
LEMMA CreateResultDecides ==
  ASSUME Inv, CoordinatorSerializes, NEW f \in Flight, NEW e \in Employee, CreateResult(f, e)
  PROVE  Inv'
<1> DEFINE s == [pc |-> "lines", period |-> flight[f].period, version |-> flight[f].version,
                 calculated |-> flight[f].calculated, employee |-> e]
<1>1. TypeInv /\ TypeOK /\ Alone(f) /\ Current(flight[f]) /\ flight[f].pc = "results" /\ Decided
  BY OthersAreIdle DEF Inv, Serial, TypeInv, CreateResult
<1>2. TypeInv' /\ Goes(f) /\ UNCHANGED periods /\ flight'[f] = s
  BY <1>1, CreateResultTypes
<1>3. PICK p \in Period : \E v \in 1..Latest(p), r \in Run :
           /\ p = flight[f].period /\ v = flight[f].version
           /\ Writes(p, v, r)
           /\ r.status = runs[p][v].status /\ r.acknowledged = runs[p][v].acknowledged
           /\ r.blocked = runs[p][v].blocked
           /\ r.results[e] # NoResult
           /\ \A x \in Employee : x # e => r.results[x] = runs[p][v].results[x]
  BY <1>1, CreateResultWrites
<1>4. PICK v \in 1..Latest(p), r \in Run :
           /\ p = flight[f].period /\ v = flight[f].version
           /\ Writes(p, v, r) /\ r.status = runs[p][v].status
  BY <1>3
<1>5. periods[p].status = "DRAFT" /\ v = Latest(p) /\ r.status = "DRAFT"
  BY <1>1, <1>4 DEF Current
<1>6. periods[p].reviewed = 0
  BY <1>1, <1>5, DraftCarriesNone
<1>7. Decided'
  BY <1>1, <1>2, <1>4, <1>5, <1>6, DecidedRun
<1>8. runs'[p][v] = r /\ Latest(p)' = Latest(p)
  BY <1>1, <1>4, RowWritten
<1>9. s.pc = "lines" /\ s.period = p /\ s.version = v
  BY <1>4
<1> HIDE DEF s
<1>10. Current(flight[f])'
  BY <1>2, <1>5, <1>8, <1>9 DEF Current, Latest
<1>11. QED
  BY <1>1, <1>2, <1>7, <1>10, SerialStep DEF Inv

\* The lines of a result are written to the latest run of a draft.
LEMMA CreateLinesDecides ==
  ASSUME Inv, CoordinatorSerializes, NEW f \in Flight, CreateLines(f)
  PROVE  Inv'
<1> DEFINE s == [pc |-> "results", period |-> flight[f].period, version |-> flight[f].version,
                 calculated |-> flight[f].calculated]
<1>1. TypeInv /\ TypeOK /\ Alone(f) /\ Current(flight[f]) /\ flight[f].pc = "lines" /\ Decided
  BY OthersAreIdle DEF Inv, Serial, TypeInv, CreateLines
<1>2. TypeInv' /\ Goes(f) /\ UNCHANGED periods /\ (flight'[f] = Idle \/ flight'[f] = s)
  BY <1>1, CreateLinesTypes
<1>3. PICK p \in Period : \E v \in 1..Latest(p), r \in Run :
           /\ p = flight[f].period /\ v = flight[f].version
           /\ Writes(p, v, r)
           /\ r.status = runs[p][v].status /\ r.acknowledged = runs[p][v].acknowledged
           /\ r.blocked = runs[p][v].blocked
           /\ \A x \in Employee : runs[p][v].results[x] # NoResult => r.results[x] # NoResult
  BY <1>1, CreateLinesWrites
<1>4. PICK v \in 1..Latest(p), r \in Run :
           /\ p = flight[f].period /\ v = flight[f].version
           /\ Writes(p, v, r) /\ r.status = runs[p][v].status
  BY <1>3
<1>5. periods[p].status = "DRAFT" /\ v = Latest(p) /\ r.status = "DRAFT"
  BY <1>1, <1>4 DEF Current
<1>6. periods[p].reviewed = 0
  BY <1>1, <1>5, DraftCarriesNone
<1>7. Decided'
  BY <1>1, <1>2, <1>4, <1>5, <1>6, DecidedRun
<1>8. runs'[p][v] = r /\ Latest(p)' = Latest(p)
  BY <1>1, <1>4, RowWritten
<1>9. s.pc = "results" /\ s.period = p /\ s.version = v
  BY <1>4
<1> HIDE DEF s
<1>10. Current(flight[f])'
  BY <1>2, <1>5, <1>8, <1>9, IdlePc DEF Current, Latest
<1>11. QED
  BY <1>1, <1>2, <1>7, <1>10, SerialStep DEF Inv

\* An acknowledgement makes no run less ready, and its period is a draft.
LEMMA AcknowledgeDecides ==
  ASSUME Inv, CoordinatorSerializes, NEW f \in Flight, Acknowledge(f)
  PROVE  Inv'
<1>1. TypeInv /\ TypeOK /\ Alone(f) /\ Current(flight[f]) /\ flight[f].pc = "acknowledge" /\ Decided
  BY OthersAreIdle DEF Inv, Serial, TypeInv, Acknowledge
<1>2. TypeInv' /\ Goes(f) /\ UNCHANGED periods /\ flight'[f] = Idle
  BY <1>1, AcknowledgeTypes
<1>3. PICK p \in Period : \E v \in 1..Latest(p), r \in Run :
           /\ p = flight[f].period /\ v = flight[f].version
           /\ Writes(p, v, r)
           /\ r.status = runs[p][v].status /\ r.results = runs[p][v].results
           /\ r.blocked = runs[p][v].blocked /\ runs[p][v].acknowledged \subseteq r.acknowledged
  BY <1>1, AcknowledgeWrites
<1>4. PICK v \in 1..Latest(p), r \in Run :
           /\ p = flight[f].period
           /\ Writes(p, v, r)
           /\ r.status = runs[p][v].status /\ r.results = runs[p][v].results
           /\ r.blocked = runs[p][v].blocked /\ runs[p][v].acknowledged \subseteq r.acknowledged
  BY <1>3
<1>5. periods[p].reviewed = 0
  BY <1>1, <1>4, DraftCarriesNone DEF Current
<1>6. r.status = "LOCKED" => Ready(r)
  BY <1>1, <1>4 DEF Decided, WarningsAreAcknowledgedFirst, Ready
<1>7. Decided'
  BY <1>1, <1>2, <1>4, <1>5, <1>6, DecidedRun
<1>8. QED
  BY <1>1, <1>2, <1>7, SerialFinish DEF Inv

\* A run is ready when it is locked.
LEMMA LockRunDecides ==
  ASSUME Inv, CoordinatorSerializes, NEW f \in Flight, LockRun(f)
  PROVE  Inv'
<1> DEFINE s == [pc |-> "close", period |-> flight[f].period, version |-> flight[f].version]
<1>1. TypeInv /\ TypeOK /\ Alone(f) /\ Current(flight[f]) /\ flight[f].pc = "repay" /\ Decided
  BY OthersAreIdle DEF Inv, Serial, TypeInv, LockRun
<1>2. TypeInv' /\ Goes(f) /\ UNCHANGED <<periods, eligible>> /\ flight'[f] = s
  BY <1>1, LockRunTypes
<1>3. PICK p \in Period : \E v \in 1..Latest(p), r \in Run :
           /\ p = flight[f].period /\ v = flight[f].version
           /\ Writes(p, v, r)
           /\ r.status = "LOCKED" /\ r.results = runs[p][v].results
           /\ r.blocked = runs[p][v].blocked /\ r.acknowledged = runs[p][v].acknowledged
  BY <1>1, LockRunWrites
<1>4. PICK v \in 1..Latest(p), r \in Run :
           /\ p = flight[f].period /\ v = flight[f].version
           /\ Writes(p, v, r)
           /\ r.status = "LOCKED" /\ r.results = runs[p][v].results
           /\ r.blocked = runs[p][v].blocked /\ r.acknowledged = runs[p][v].acknowledged
  BY <1>3
<1>5. /\ periods[p].status = "APPROVED" /\ v = Latest(p) /\ periods[p].approved = v
      /\ Ready(runs[p][v]) /\ Covered(runs[p][v].results) = eligible
  BY <1>1, <1>4 DEF Current
<1>6. Ready(r) /\ Covered(r.results) = eligible
  BY <1>4, <1>5 DEF Ready
<1>7. Decided'
  BY <1>1, <1>2, <1>4, <1>6, DecidedRun
<1>8. runs'[p][v] = r /\ Latest(p)' = Latest(p)
  BY <1>1, <1>4, RowWritten
<1>9. s.pc = "close" /\ s.period = p /\ s.version = v
  BY <1>4
<1> HIDE DEF s
<1>10. /\ flight'[f].pc = "close" /\ flight'[f].period = p /\ flight'[f].version = v
       /\ eligible' = eligible /\ periods'[p] = periods[p]
  BY <1>2, <1>9
<1>11. Current(flight[f])'
  BY <1>5, <1>6, <1>8, <1>10 DEF Current, Ready, Covered, Latest
<1>12. QED
  BY <1>1, <1>2, <1>7, <1>11, SerialStep DEF Inv

\* A new run of a draft.
LEMMA CreateRunDecides ==
  ASSUME Inv, CoordinatorSerializes, NEW f \in Flight, CreateRun(f)
  PROVE  Inv'
<1> DEFINE s == [pc |-> "results", period |-> flight[f].period, version |-> flight[f].version,
                 calculated |-> flight[f].calculated]
<1>1. TypeInv /\ TypeOK /\ Alone(f) /\ Current(flight[f]) /\ flight[f].pc = "run" /\ Decided
  BY OthersAreIdle DEF Inv, Serial, TypeInv, CreateRun
<1>2. TypeInv' /\ Goes(f) /\ UNCHANGED periods /\ flight'[f] = s
  BY <1>1, CreateRunTypes
<1>3. PICK p \in Period : \E r \in Run :
           /\ p = flight[f].period /\ flight[f].version = Latest(p) + 1
           /\ runs' = [runs EXCEPT ![p] = Append(runs[p], r)]
           /\ r.status = "DRAFT" /\ \A e \in Employee : r.results[e] = NoResult
  BY <1>1, CreateRunAppends
<1>4. PICK r \in Run :
           /\ p = flight[f].period /\ flight[f].version = Latest(p) + 1
           /\ runs' = [runs EXCEPT ![p] = Append(runs[p], r)]
           /\ r.status = "DRAFT"
  BY <1>3
<1>5. /\ Latest(p)' = Latest(p) + 1 /\ \A q \in Period : q # p => Latest(q)' = Latest(q)
      /\ runs'[p][Latest(p) + 1] = r
      /\ \A q \in Period : \A w \in 1..Latest(q) : runs'[q][w] = runs[q][w]
  BY <1>1, <1>4, RunAppended
<1>6. \A q \in Period : Latest(q) \in Nat
  BY <1>1, LatestType
<1>7. periods[p].status = "DRAFT" /\ periods[p].reviewed = 0
  BY <1>1, <1>4, DraftCarriesNone DEF Current
<1>8. CarriesTheLatest' /\ Unreviewed' /\ PeriodsAreDisjoint'
  BY <1>1, <1>2, <1>5, <1>7 DEF Decided, CarriesTheLatest, Unreviewed, PeriodsAreDisjoint
<1>9. ASSUME NEW q \in Period, periods'[q].reviewed # 0 PROVE Ready(runs'[q][periods'[q].reviewed])
  <2>1. Ready(runs[q][periods[q].reviewed]) /\ q # p
    BY <1>1, <1>2, <1>7, <1>9 DEF Decided, WarningsAreAcknowledgedFirst
  <2>2. runs'[q] = runs[q]
    BY <1>1, <1>4, <2>1 DEF TypeOK
  <2>3. QED
    BY <1>2, <2>1, <2>2
<1>10. ASSUME NEW q \in Period, NEW w \in 1..Latest(q)', runs'[q][w].status = "LOCKED"
       PROVE  Ready(runs'[q][w])
  <2>1. CASE w \in 1..Latest(q)
    BY <1>1, <1>5, <1>10, <2>1 DEF Decided, WarningsAreAcknowledgedFirst
  <2>2. CASE w \notin 1..Latest(q)
    <3>1. q = p
      BY <1>5, <1>10, <2>2
    <3>2. w = Latest(p) + 1
      BY <1>5, <1>6, <1>10, <2>2, <3>1
    <3>3. QED
      BY <1>4, <1>5, <1>10, <3>1, <3>2
  <2>3. QED
    BY <2>1, <2>2
<1>11. WarningsAreAcknowledgedFirst'
  BY <1>9, <1>10 DEF WarningsAreAcknowledgedFirst, Ready
<1>12. s.pc = "results" /\ s.period = p /\ s.version = Latest(p) + 1
  BY <1>4
<1> HIDE DEF s
<1>13. Current(flight[f])'
  BY <1>2, <1>4, <1>5, <1>7, <1>12 DEF Current, Latest
<1>14. QED
  BY <1>1, <1>2, <1>8, <1>11, <1>13, SerialStep DEF Inv, Decided


\* A repayment changes a balance, which is none of a period's business.
LEMMA RepayDecides ==
  ASSUME Inv, CoordinatorSerializes, NEW f \in Flight, NEW e \in Employee, RepayAdvance(f, e)
  PROVE  Inv'
<1> DEFINE s == [pc |-> "repay", period |-> flight[f].period, version |-> flight[f].version,
                 left |-> flight[f].left \ {e}]
<1>1. TypeInv /\ TypeOK /\ Alone(f) /\ Current(flight[f]) /\ flight[f].pc = "repay" /\ Decided
  BY OthersAreIdle DEF Inv, Serial, TypeInv, RepayAdvance
<1>2. /\ TypeInv' /\ Goes(f) /\ UNCHANGED <<periods, runs, eligible, data>>
      /\ flight'[f] = Idle \/ flight'[f] = s
  BY <1>1, RepayTypes
<1>3. Decided'
  BY <1>1, <1>2, DecidedStays
<1>4. s.pc = "repay" /\ s.period = flight[f].period /\ s.version = flight[f].version
  OBVIOUS
<1> HIDE DEF s
<1>5. Current(flight[f])'
  BY <1>1, <1>2, <1>4, IdlePc DEF Current, Latest, Ready, Covered
<1>6. QED
  BY <1>1, <1>2, <1>3, <1>5, SerialStep DEF Inv

\* A request that stops writes nothing more.
LEMMA StopDecides ==
  ASSUME Inv, CoordinatorSerializes, NEW f \in Flight, Stop(f)
  PROVE  Inv'
<1>1. TypeInv /\ TypeOK /\ flight[f] # Idle /\ OneAtATime
  BY DEF Inv, TypeInv, Serial, Stop
<1>2. flight[f].pc # "idle"
  BY <1>1, Kinds DEF Fields
<1>3. Alone(f)
  BY <1>1, <1>2, OthersAreIdle
<1>4. TypeInv' /\ Goes(f) /\ flight'[f] = Idle
  BY <1>1, Ends DEF Stop, tables
<1>5. QED
  BY <1>3, <1>4, SerialEnds DEF Stop

\* Employees come and go while no request is in flight; inputs change at any time.
LEMMA InputsDecide ==
  ASSUME Inv, CoordinatorSerializes, TypeInv', UNCHANGED <<periods, runs, flight>>,
         Busy = {} \/ UNCHANGED eligible
  PROVE  Inv'
<1>1. Decided'
  BY DecidedStays DEF Inv
<1>2. OneAtATime'
  BY DEF Inv, Serial, OneAtATime
<1>3. ASSUME NEW f \in Flight PROVE Current(flight[f])'
  <2>1. Current(flight[f])
    BY DEF Inv, Serial
  <2>2. CASE Busy = {}
    BY <2>2, IdlePc DEF Busy, Current
  <2>3. CASE UNCHANGED eligible
    BY <2>1, <2>3 DEF Current, NoOverlap, Latest, Ready, Covered
  <2>4. QED
    BY <2>2, <2>3
<1>4. QED
  BY <1>1, <1>2, <1>3 DEF Inv, Serial

\* Initially nothing is decided, and nobody asks for anything.
LEMMA InvInit == Init => Inv
<1> SUFFICES ASSUME Init PROVE Inv
  OBVIOUS
<1>1. TypeInv
  BY TypeInit
<1>2. Serial
  BY IdlePc DEF Init, Serial, OneAtATime, Current
<1>3. \A p \in Period : periods[p] = NoPeriod /\ Latest(p) = 0
  BY EmptySeq DEF Init, Latest
<1>4. Decided
  BY <1>3 DEF Decided, CarriesTheLatest, WarningsAreAcknowledgedFirst, PeriodsAreDisjoint, Unreviewed, NoPeriod
<1>5. QED
  BY <1>1, <1>2, <1>4 DEF Inv

\* Every step keeps the invariant.
LEMMA InvNext == CoordinatorSerializes /\ Inv /\ [Next]_vars => Inv'
<1> SUFFICES ASSUME CoordinatorSerializes, Inv, [Next]_vars PROVE Inv'
  OBVIOUS
<1>1. TypeInv'
  BY TypeNext DEF Inv
<1>2. ASSUME NEW f \in Flight, NEW p \in Period,
             CreatePeriodRead(f, p) \/ CalculateRead(f, p) \/ ReopenRead(f, p)
      PROVE  Inv'
  BY <1>2, PeriodsRead
<1>3. ASSUME NEW f \in Flight, NEW p \in Period, NEW e \in Employee, AcknowledgeRead(f, p, e)
      PROVE  Inv'
  BY <1>3, WarningRead
<1>4. ASSUME NEW f \in Flight, NEW p \in Period, NEW action \in {"REVIEW", "APPROVE", "LOCK"},
             TransitionRead(f, p, action)
      PROVE  Inv'
  BY <1>4, TransitionsRead
<1>5. ASSUME NEW f \in Flight, CreatePeriod(f) \/ Reopen(f) \/ Review(f) \/ Approve(f) \/ LockPeriod(f)
      PROVE  Inv'
  BY <1>5, CreatePeriodDecides, ReopenDecides, ReviewDecides, ApproveDecides, LockPeriodDecides
<1>6. ASSUME NEW f \in Flight, CalculateInputs(f) \/ AssertReviewable(f) \/ LockRead(f)
      PROVE  Inv'
  BY <1>6, InputsRead, AssertRead, LockRunRead
<1>7. ASSUME NEW f \in Flight, CreateRun(f) \/ CreateLines(f) \/ Acknowledge(f) \/ LockRun(f)
      PROVE  Inv'
  BY <1>7, CreateRunDecides, CreateLinesDecides, AcknowledgeDecides, LockRunDecides
<1>8. ASSUME NEW f \in Flight, NEW e \in Employee, CreateResult(f, e) \/ RepayAdvance(f, e)
      PROVE  Inv'
  BY <1>8, CreateResultDecides, RepayDecides
<1>9. ASSUME NEW f \in Flight, Stop(f) PROVE Inv'
  BY <1>9, StopDecides
<1>10. ASSUME NEW e \in Employee, ChangeEligible(e) PROVE Inv'
  BY <1>1, <1>10, InputsDecide DEF ChangeEligible
<1>11. ASSUME NEW e \in Employee, NEW d \in Data, ChangeData(e, d) PROVE Inv'
  BY <1>1, <1>11, InputsDecide DEF ChangeData
<1>12. CASE UNCHANGED vars
  BY <1>1, <1>12, InputsDecide DEF vars
<1>13. QED
  BY <1>2, <1>3, <1>4, <1>5, <1>6, <1>7, <1>8, <1>9, <1>10, <1>11, <1>12 DEF Next, Progress

\* The invariant holds in every behaviour.
LEMMA InvHolds ==
  ASSUME CoordinatorSerializes
  PROVE  Spec => []Inv
<1>1. Init => Inv
  BY InvInit
<1>2. Inv /\ [Next]_vars => Inv'
  BY InvNext
<1>3. QED
  BY <1>1, <1>2, PTL DEF Spec

\* Type correctness of the periods, the runs and the requests, coordinator or not.
THEOREM RunsTypeCorrect == Spec => []TypeOK
<1>1. TypeInv => TypeOK
  BY DEF TypeInv
<1>2. QED
  BY <1>1, TypeInvariant, PTL

\* What transitionPayPeriodV2 approves and locks is the latest calculation, the one that was
\* reviewed, with its warnings acknowledged before; and createPayPeriodV2 gives no day to two
\* periods, wherever a request stops.
THEOREM ApprovedIsReviewedHolds ==
  ASSUME CoordinatorSerializes
  PROVE  Spec => []ApprovedIsReviewed
<1>1. Inv => ApprovedIsReviewed
  BY DEF Inv, TypeInv, Decided, ApprovedIsReviewed
<1>2. QED
  BY <1>1, InvHolds, PTL

\* A step that leaves the periods alone locks none and changes none that is locked.
LEMMA PeriodsStand ==
  ASSUME UNCHANGED periods
  PROVE  Covers /\ StaysLocked
BY DEF Covers, StaysLocked

\* A period changes that was not locked, and if it is locked now, on whom it should be.
LEMMA PeriodStands ==
  ASSUME NEW p \in Period, \A q \in Period : q # p => periods'[q] = periods[q],
         periods[p].status # "LOCKED",
         periods'[p].status = "LOCKED" => Covered(runs[p][periods[p].approved].results) = eligible
  PROVE  Covers /\ StaysLocked
BY DEF Covers, StaysLocked

\* Every step of the requests lets the locks stand.
LEMMA LocksStep ==
  ASSUME CoordinatorSerializes, Inv, Next
  PROVE  Covers /\ StaysLocked
<1>1. TypeInv
  BY DEF Inv
<1>2. CASE UNCHANGED periods
  BY <1>2, PeriodsStand
<1>3. ASSUME NEW f \in Flight, CreatePeriod(f) PROVE Covers /\ StaysLocked
  <2> DEFINE p == flight[f].period
  <2>1. /\ p \in Period /\ periods[p] = NoPeriod
        /\ periods'[p] = [status |-> "DRAFT", reviewed |-> 0, approved |-> 0]
        /\ \A q \in Period : q # p => periods'[q] = periods[q]
    BY <1>1, <1>3, CreatePeriodWrites
  <2>2. periods[p].status # "LOCKED" /\ periods'[p].status # "LOCKED"
    BY <2>1 DEF NoPeriod
  <2> HIDE DEF p
  <2>3. QED
    BY <2>1, <2>2, PeriodStands
<1>4. ASSUME NEW f \in Flight, Reopen(f) PROVE Covers /\ StaysLocked
  <2> DEFINE p == flight[f].period
  <2>1. /\ p \in Period /\ periods'[p] = [status |-> "DRAFT", reviewed |-> 0, approved |-> 0]
        /\ \A q \in Period : q # p => periods'[q] = periods[q]
    BY <1>1, <1>4, ReopenWrites
  <2>2. periods[p].status # "LOCKED" /\ periods'[p].status # "LOCKED"
    BY <1>4, <2>1, ReopenDecides
  <2> HIDE DEF p
  <2>3. QED
    BY <2>1, <2>2, PeriodStands
<1>5. ASSUME NEW f \in Flight, Review(f) PROVE Covers /\ StaysLocked
  <2> DEFINE p == flight[f].period
  <2>1. /\ p \in Period /\ periods'[p] = [status |-> "REVIEWED", reviewed |-> flight[f].version, approved |-> 0]
        /\ \A q \in Period : q # p => periods'[q] = periods[q]
    BY <1>1, <1>5, ReviewWrites
  <2>2. periods[p].status # "LOCKED" /\ periods'[p].status # "LOCKED"
    BY <1>5, <2>1, ReviewDecides
  <2> HIDE DEF p
  <2>3. QED
    BY <2>1, <2>2, PeriodStands
<1>6. ASSUME NEW f \in Flight, Approve(f) PROVE Covers /\ StaysLocked
  <2> DEFINE p == flight[f].period
  <2>1. /\ p \in Period /\ periods'[p].status # "LOCKED"
        /\ \A q \in Period : q # p => periods'[q] = periods[q]
    BY <1>1, <1>6, ApproveWrites
  <2>2. periods[p].status # "LOCKED"
    BY <1>6, ApproveDecides
  <2> HIDE DEF p
  <2>3. QED
    BY <2>1, <2>2, PeriodStands
<1>7. ASSUME NEW f \in Flight, LockPeriod(f) PROVE Covers /\ StaysLocked
  <2> DEFINE p == flight[f].period
  <2>1. p \in Period /\ \A q \in Period : q # p => periods'[q] = periods[q]
    BY <1>1, <1>7, LockPeriodWrites
  <2>2. periods[p].status # "LOCKED" /\ Covered(runs[p][periods[p].approved].results) = eligible
    BY <1>7, LockPeriodDecides
  <2> HIDE DEF p
  <2>3. QED
    BY <2>1, <2>2, PeriodStands
<1>8. \/ UNCHANGED periods
      \/ \E f \in Flight : CreatePeriod(f) \/ Reopen(f) \/ Review(f) \/ Approve(f) \/ LockPeriod(f)
  BY DEF Next, Progress, CreatePeriodRead, CalculateRead, ReopenRead, AcknowledgeRead, TransitionRead,
         CalculateInputs, CreateRun, CreateLines, CreateResult, RepayAdvance, Acknowledge,
         AssertReviewable, LockRead, LockRun, ChangeEligible, ChangeData, Stop
<1>9. QED
  BY <1>2, <1>3, <1>4, <1>5, <1>6, <1>7, <1>8

\* A period is locked on a run that has exactly the employees of that moment
\* (comparePayrollEmployeeCoverage), and it stays locked: "immutable result".
THEOREM LocksStandHolds ==
  ASSUME CoordinatorSerializes
  PROVE  Spec => LocksStand
<1>1. Inv /\ [Next]_vars => [Covers /\ StaysLocked]_vars
  BY LocksStep
<1>2. Spec => []Inv
  BY InvHolds
<1>3. QED
  BY <1>1, <1>2, PTL DEF Spec, LocksStand

-----------------------------------------------------------------------------
(* The export of a locked period: the inductive invariant.                 *)

\* A consumer works only on a job that was claimed; one that has stored the file, or a job
\* that is COMPLETED and has not expired, has it in the bucket.
FileInv ==
  /\ \A c \in Copy : copy[c].at = "put" => stored
  /\ status = "COMPLETED" /\ expires = "later" => stored

\* While a job that has expired is taken down nobody works on it, and nobody ever will.
ExpiryInv ==
  /\ status = "EXPIRED" => Working = {} /\ ~stored
  /\ status = "COMPLETED" /\ expires = "past" => Working = {}
  /\ expiring # "idle" => expires = "past" /\ status \in {"COMPLETED", "EXPIRED"}
  /\ expiring = "deleted" => ~stored

\* Until a dead letter was processed, one consumer works, and only on a job that cannot be
\* claimed.
ClaimInv ==
  /\ \A c \in Copy : copy[c].at \in {"dead", "dead again"} => copy[c].retries = MaxRetries
  /\ \/ \E c \in Copy : copy[c].at = "done" /\ copy[c].retries = MaxRetries
     \/ /\ \A c, d \in Working : c = d
        /\ Working # {} => status \notin {"NONE", "PENDING", "FAILED"}

ExportInv == ExportTypeOK /\ FileInv /\ ExpiryInv /\ ClaimInv

-----------------------------------------------------------------------------
(* The messages.                                                           *)

\* A message that moves leaves the others where they were, and keeps its retries.
LEMMA Moving ==
  ASSUME ExportTypeOK, NEW c \in Copy, NEW place \in Place, Move(c, place)
  PROVE  /\ copy' \in [Copy -> [at : Place, retries : 0..MaxRetries]]
         /\ copy'[c].at = place /\ copy'[c].retries = copy[c].retries
         /\ \A d \in Copy \ {c} : copy'[d] = copy[d]
BY DEF ExportTypeOK, Move

\* A message that returns is queued again, or is a dead letter with its retries used up.
LEMMA Returning ==
  ASSUME ExportTypeOK, NEW c \in Copy, Return(c)
  PROVE  /\ copy' \in [Copy -> [at : Place, retries : 0..MaxRetries]]
         /\ \/ copy'[c].at = "queued"
            \/ copy'[c].at = "dead" /\ copy'[c].retries = MaxRetries
         /\ \A d \in Copy \ {c} : copy'[d] = copy[d]
<1>1. /\ copy[c] \in [at : Place, retries : 0..MaxRetries]
      /\ copy[c].retries \in 0..MaxRetries
      /\ "queued" \in Place /\ "dead" \in Place
  BY DEF ExportTypeOK, Place
<1>2. CASE copy[c].retries < MaxRetries
  <2> DEFINE m == [at |-> "queued", retries |-> copy[c].retries + 1]
  <2>1. m \in [at : Place, retries : 0..MaxRetries]
    <3>1. copy[c].retries + 1 \in 0..MaxRetries
      BY <1>1, <1>2, PayrollExportAssumption
    <3>2. QED
      BY <1>1, <3>1
  <2>2. copy' = [copy EXCEPT ![c] = m]
    BY <1>2 DEF Return
  <2>3. m.at = "queued"
    OBVIOUS
  <2> HIDE DEF m
  <2>4. QED
    BY <2>1, <2>2, <2>3 DEF ExportTypeOK
<1>3. CASE ~(copy[c].retries < MaxRetries)
  <2> DEFINE m == [copy[c] EXCEPT !.at = "dead"]
  <2>1. m \in [at : Place, retries : 0..MaxRetries] /\ m.at = "dead" /\ m.retries = MaxRetries
    <3>1. copy[c].retries = MaxRetries
      BY <1>1, <1>3, PayrollExportAssumption
    <3>2. QED
      BY <1>1, <3>1
  <2>2. copy' = [copy EXCEPT ![c] = m]
    BY <1>3 DEF Return
  <2> HIDE DEF m
  <2>3. QED
    BY <2>1, <2>2 DEF ExportTypeOK
<1>4. QED
  BY <1>2, <1>3

-----------------------------------------------------------------------------
(* The steps.                                                              *)

\* The request, the cron job and time leave the messages where they are.
LEMMA ProducersStay ==
  ASSUME ExportInv, Lock \/ CreateJob \/ EnqueueFails \/ DirectDownload \/ enqueuePendingPayrollExports
              \/ Age \/ Expire \/ CronStops
  PROVE  ExportInv'
<1>1. UNCHANGED copy
  BY DEF Lock, CreateJob, EnqueueFails, DirectDownload, enqueuePendingPayrollExports, Age, Expire,
         expirePayrollExports, DeleteObject, MarkExpired, CronStops, file, producers
<1>2. Working' = Working
  BY <1>1 DEF Working
<1>3. ExportTypeOK /\ FileInv /\ ExpiryInv /\ ClaimInv
  BY DEF ExportInv
<1>4. CASE Lock \/ EnqueueFails \/ DirectDownload \/ enqueuePendingPayrollExports
  <2>1. UNCHANGED <<status, stored, expires, expiring>>
    BY <1>4 DEF Lock, EnqueueFails, DirectDownload, enqueuePendingPayrollExports, file, producers
  <2>2. ExportTypeOK'
    BY <1>1, <1>3, <1>4 DEF Lock, EnqueueFails, DirectDownload, enqueuePendingPayrollExports, file, producers, ExportTypeOK
  <2>3. QED
    BY <1>1, <1>2, <1>3, <2>1, <2>2 DEF ExportInv, FileInv, ExpiryInv, ClaimInv
<1>5. CASE CreateJob
  <2>1. Working = {} \/ \E c \in Copy : copy[c].at = "done" /\ copy[c].retries = MaxRetries
    BY <1>3, <1>5 DEF CreateJob, ClaimInv
  <2>2. ExportTypeOK'
    BY <1>1, <1>3, <1>5 DEF CreateJob, file, ExportTypeOK, JobStatus
  <2>3. QED
    BY <1>1, <1>2, <1>3, <1>5, <2>1, <2>2 DEF CreateJob, file, ExportInv, FileInv, ExpiryInv, ClaimInv
<1>6. CASE Age
  <2>1. Working = {}
    BY <1>6 DEF Age, Working
  <2>2. ExportTypeOK'
    BY <1>1, <1>3, <1>6 DEF Age, producers, ExportTypeOK
  <2>3. QED
    BY <1>1, <1>2, <1>3, <1>6, <2>1, <2>2 DEF Age, ExportInv, FileInv, ExpiryInv, ClaimInv
<1>7. CASE Expire \/ CronStops
  <2>1. ExportTypeOK'
    BY <1>1, <1>3, <1>7
       DEF Expire, CronStops, expirePayrollExports, DeleteObject, MarkExpired, producers, ExportTypeOK, JobStatus
  <2>2. FileInv'
    BY <1>1, <1>2, <1>3, <1>7
       DEF Expire, CronStops, expirePayrollExports, DeleteObject, MarkExpired, FileInv, ExpiryInv, Working
  <2>3. ExpiryInv'
    BY <1>1, <1>2, <1>3, <1>7 DEF Expire, CronStops, expirePayrollExports, DeleteObject, MarkExpired, ExpiryInv
  <2>4. ClaimInv'
    BY <1>1, <1>2, <1>3, <1>7
       DEF Expire, CronStops, expirePayrollExports, DeleteObject, MarkExpired, ClaimInv
  <2>5. QED
    BY <2>1, <2>2, <2>3, <2>4 DEF ExportInv
<1>8. QED
  BY <1>4, <1>5, <1>6, <1>7

\* A message that is sent, acknowledged, or dead touches neither the file nor a consumer.
LEMMA MessagesStay ==
  ASSUME ExportInv, NEW c \in Copy,
         \/ Enqueue(c) \/ EnqueuePending(c) \/ AcknowledgeMessage(c)
         \/ markPayrollExportDeadLetter(c) \/ DeadLetterFails(c)
  PROVE  ExportInv'
<1>1. ExportTypeOK /\ FileInv /\ ExpiryInv /\ ClaimInv
  BY DEF ExportInv
<1>2. PICK place \in {"queued", "done", "dead again", "lost"} : Move(c, place)
  BY DEF Enqueue, EnqueuePending, AcknowledgeMessage, markPayrollExportDeadLetter, DeadLetterFails
<1>3. /\ copy' \in [Copy -> [at : Place, retries : 0..MaxRetries]]
      /\ copy'[c].at = place /\ copy'[c].retries = copy[c].retries
      /\ \A d \in Copy \ {c} : copy'[d] = copy[d]
  BY <1>1, <1>2, Moving DEF Place
<1>4. copy[c].at \in {"unsent", "ended", "dead", "dead again"}
  BY DEF Enqueue, EnqueuePending, AcknowledgeMessage, markPayrollExportDeadLetter, DeadLetterFails
<1>5. Working' = Working
  BY <1>3, <1>4 DEF Working
<1>6. \A d \in Copy : copy'[d].at = "put" => copy[d].at = "put"
  BY <1>3
<1>7. UNCHANGED <<stored, expires, expiring>>
  BY DEF Enqueue, EnqueuePending, AcknowledgeMessage, markPayrollExportDeadLetter, DeadLetterFails, file
<1>8. status' = status \/ (status \in {"PENDING", "PROCESSING", "FAILED"} /\ status' = "FAILED")
  BY DEF Enqueue, EnqueuePending, AcknowledgeMessage, markPayrollExportDeadLetter, DeadLetterFails
<1>9. ExportTypeOK'
  BY <1>1, <1>3, <1>7, <1>8
     DEF Enqueue, EnqueuePending, AcknowledgeMessage, markPayrollExportDeadLetter, DeadLetterFails, producers, ExportTypeOK, JobStatus
<1>10. FileInv' /\ ExpiryInv'
  BY <1>1, <1>5, <1>6, <1>7, <1>8 DEF FileInv, ExpiryInv
<1>11. ClaimInv'
  <2>1. \A d \in Copy : copy'[d].at \in {"dead", "dead again"} => copy'[d].retries = MaxRetries
    <3>1. copy[c].at \in {"dead", "dead again"} \/ place \in {"queued", "done"}
      BY <1>2, <1>3 DEF Enqueue, EnqueuePending, AcknowledgeMessage, markPayrollExportDeadLetter, DeadLetterFails, Move, ExportTypeOK
    <3>2. QED
      BY <1>1, <1>3, <3>1 DEF ClaimInv
  <2>2. ASSUME NEW d \in Copy, copy[d].at = "done", copy[d].retries = MaxRetries
        PROVE  copy'[d].at = "done" /\ copy'[d].retries = MaxRetries
    BY <1>3, <1>4, <2>2
  <2>3. CASE status' # status
    <3>1. copy[c].at \in {"dead", "dead again"} /\ Move(c, "done")
      BY <2>3 DEF Enqueue, EnqueuePending, AcknowledgeMessage, markPayrollExportDeadLetter, DeadLetterFails
    <3>2. copy'[c].at = "done" /\ copy'[c].retries = MaxRetries
      BY <1>1, <3>1, Moving DEF ClaimInv, Place
    <3>3. QED
      BY <2>1, <3>2 DEF ClaimInv
  <2>4. CASE status' = status
    BY <1>1, <1>5, <2>1, <2>2, <2>4 DEF ClaimInv
  <2>5. QED
    BY <2>3, <2>4
<1>12. QED
  BY <1>9, <1>10, <1>11 DEF ExportInv

\* A consumer claims only what nobody else may be working on.
LEMMA ClaimStays ==
  ASSUME ExportInv, NEW c \in Copy, Claim(c)
  PROVE  ExportInv'
<1>1. ExportTypeOK /\ FileInv /\ ExpiryInv /\ ClaimInv
  BY DEF ExportInv
<1>2. PICK place \in {"generating", "ended"} : Move(c, place) /\ (place = "generating" <=> Claimable)
  BY DEF Claim
<1>3. /\ copy' \in [Copy -> [at : Place, retries : 0..MaxRetries]]
      /\ copy'[c].at = place /\ copy'[c].retries = copy[c].retries
      /\ \A d \in Copy \ {c} : copy'[d] = copy[d]
  BY <1>1, <1>2, Moving DEF Place
<1>4. copy[c].at = "queued" /\ UNCHANGED <<stored, expires, expiring, period, sender, listed>>
  BY DEF Claim, file, producers
<1>5. status' = IF Claimable THEN "PROCESSING" ELSE status
  BY DEF Claim
<1>6. Working' = IF Claimable THEN Working \cup {c} ELSE Working
  BY <1>2, <1>3, <1>4 DEF Working
<1>7. ExportTypeOK'
  BY <1>1, <1>3, <1>4, <1>5 DEF ExportTypeOK, JobStatus
<1>8. FileInv'
  BY <1>1, <1>3, <1>4, <1>5 DEF FileInv
<1>9. ExpiryInv'
  BY <1>1, <1>4, <1>5, <1>6 DEF ExpiryInv, Claimable
<1>10. \A d \in Copy : copy'[d].at \in {"dead", "dead again"} => copy'[d].retries = MaxRetries
  BY <1>1, <1>2, <1>3 DEF ClaimInv
<1>11. ASSUME NEW d \in Copy, copy[d].at = "done", copy[d].retries = MaxRetries
       PROVE  copy'[d].at = "done" /\ copy'[d].retries = MaxRetries
  BY <1>3, <1>4, <1>11
<1>12. ClaimInv'
  BY <1>1, <1>5, <1>6, <1>10, <1>11 DEF ClaimInv, Claimable
<1>13. QED
  BY <1>7, <1>8, <1>9, <1>12 DEF ExportInv

\* A consumer that goes on keeps its claim; it gives it up when it completes the job, which
\* has its file, or fails it.
LEMMA ConsumersStay ==
  ASSUME ExportInv, NEW c \in Copy, Put(c) \/ Complete(c) \/ Throw(c) \/ Fail(c) \/ ConsumerStops(c)
  PROVE  ExportInv'
<1>1. ExportTypeOK /\ FileInv /\ ExpiryInv /\ ClaimInv
  BY DEF ExportInv
<1>2. /\ c \in Working \/ copy[c].at \in {"queued", "ended"}
      /\ copy[c].at \notin {"queued", "ended"} => c \in Working
  BY DEF Put, Complete, Throw, Fail, ConsumerStops, Working
<1>3. /\ copy' \in [Copy -> [at : Place, retries : 0..MaxRetries]]
      /\ \A d \in Copy \ {c} : copy'[d] = copy[d]
      /\ copy'[c].at \in {"put", "ended", "failing", "queued", "dead"}
      /\ copy'[c].at = "put" => Put(c)
      /\ copy'[c].at \in {"put", "failing"} => c \in Working
      /\ copy'[c].at = "dead" => copy'[c].retries = MaxRetries
  <2>1. CASE Put(c) \/ Complete(c) \/ Throw(c)
    <3>1. PICK place \in {"put", "ended", "failing"} : Move(c, place) /\ (place = "put" => Put(c))
      BY <2>1 DEF Put, Complete, Throw
    <3>2. c \in Working
      BY <2>1 DEF Put, Complete, Throw, Working
    <3>3. QED
      BY <1>1, <3>1, <3>2, Moving DEF Place
  <2>2. CASE Fail(c) \/ ConsumerStops(c)
    BY <1>1, <2>2, Returning DEF Fail, ConsumerStops
  <2>3. QED
    BY <2>1, <2>2
<1>4. Working' \subseteq Working
  BY <1>3 DEF Working
<1>5. \A d \in Copy : copy'[d].at \in {"dead", "dead again"} => copy'[d].retries = MaxRetries
  BY <1>1, <1>3 DEF ClaimInv
<1>6. ASSUME NEW d \in Copy, copy[d].at = "done", copy[d].retries = MaxRetries
      PROVE  copy'[d].at = "done" /\ copy'[d].retries = MaxRetries
  BY <1>2, <1>3, <1>6 DEF Working
<1>7. CASE Put(c) \/ Throw(c) \/ ConsumerStops(c)
  <2>1. /\ UNCHANGED <<status, expires, expiring, period, sender, listed>> /\ stored' \in {stored, TRUE}
        /\ stored' = stored \/ Working # {}
        /\ (Put(c) => stored') /\ (stored => stored')
    <3>1. CASE Put(c)
      BY <1>1, <1>2, <3>1 DEF Put, producers, Working
    <3>2. CASE Throw(c)
      <4>1. /\ UNCHANGED <<status, expires, expiring, period, sender, listed>> /\ c \in Working
            /\ stored' = stored \/ stored' = TRUE
        BY <3>2 DEF Throw, producers, Working
      <4>2. Put(c) => stored' = TRUE
        BY DEF Put
      <4>3. CASE stored' = stored
        BY <4>1, <4>2, <4>3
      <4>4. CASE stored' = TRUE
        BY <4>1, <4>4
      <4>5. QED
        BY <4>1, <4>3, <4>4
    <3>3. CASE ConsumerStops(c)
      <4>1. UNCHANGED <<status, stored, expires, expiring, period, sender, listed>>
        BY <3>3 DEF ConsumerStops, file, producers
      <4>2. ~Put(c) \/ stored'
        BY DEF Put
      <4>3. QED
        BY <4>1, <4>2
    <3>4. QED
      BY <1>7, <3>1, <3>2, <3>3
  <2>2. ExportTypeOK'
    BY <1>1, <1>3, <2>1 DEF ExportTypeOK
  <2>3. FileInv'
    <3>1. ASSUME NEW d \in Copy, copy'[d].at = "put"
          PROVE  stored'
      BY <1>1, <1>3, <2>1, <3>1 DEF FileInv
    <3>2. QED
      BY <1>1, <2>1, <3>1 DEF FileInv
  <2>4. ExpiryInv'
    <3>1. expiring = "deleted" => Working = {}
      BY <1>1 DEF ExpiryInv
    <3>2. QED
      BY <1>1, <1>4, <2>1, <3>1 DEF ExpiryInv
  <2>5. ClaimInv'
    BY <1>1, <1>4, <1>5, <1>6, <2>1 DEF ClaimInv
  <2>6. QED
    BY <2>2, <2>3, <2>4, <2>5 DEF ExportInv
<1>8. CASE Complete(c)
  <2>1. copy[c].at = "put" /\ status' = "COMPLETED" /\ expires' = "later" /\ period' = "EXPORTED"
        /\ UNCHANGED <<stored, expiring, sender, listed>>
    BY <1>8 DEF Complete, producers
  <2>2. stored /\ c \in Working
    BY <1>1, <2>1 DEF FileInv, Working
  <2>3. expiring = "idle"
    BY <1>1, <2>2 DEF ExpiryInv
  <2>4. ExportTypeOK'
    BY <1>1, <1>3, <2>1 DEF ExportTypeOK, JobStatus
  <2>5. FileInv' /\ ExpiryInv'
    BY <2>1, <2>2, <2>3 DEF FileInv, ExpiryInv
  <2>6. ClaimInv'
    BY <1>1, <1>4, <1>5, <1>6, <2>1 DEF ClaimInv
  <2>7. QED
    BY <2>4, <2>5, <2>6 DEF ExportInv
<1>9. CASE Fail(c)
  <2>1. copy[c].at = "failing" /\ status' = "FAILED" /\ UNCHANGED <<stored, expires, expiring, period, sender, listed>>
    BY <1>9 DEF Fail, file, producers
  <2>2. c \in Working /\ c \notin Working'
    <3>1. copy'[c].at \notin {"generating", "put", "failing"}
      BY <1>1, <1>9, Returning DEF Fail
    <3>2. QED
      BY <2>1, <3>1 DEF Working
  <2>3. expiring = "idle"
    BY <1>1, <2>2 DEF ExpiryInv
  <2>4. ExportTypeOK'
    BY <1>1, <1>3, <2>1 DEF ExportTypeOK, JobStatus
  <2>5. FileInv' /\ ExpiryInv'
    <3>1. \A d \in Copy : copy'[d].at = "put" => copy[d].at = "put"
      BY <1>3, <2>2 DEF Working
    <3>2. QED
      BY <1>1, <2>1, <2>3, <3>1 DEF FileInv, ExpiryInv
  <2>6. ClaimInv'
    BY <1>1, <1>4, <1>5, <1>6, <2>2 DEF ClaimInv
  <2>7. QED
    BY <2>4, <2>5, <2>6 DEF ExportInv
<1>10. QED
  BY <1>7, <1>8, <1>9

-----------------------------------------------------------------------------
(* The theorems.                                                           *)

\* The invariant holds in every behaviour.
LEMMA ExportInvHolds == ExportSpec => []ExportInv
<1>1. ExportInit => ExportInv
  <2>1. SUFFICES ASSUME ExportInit PROVE ExportInv
    OBVIOUS
  <2>2. ExportTypeOK
    <3>1. [at |-> "unsent", retries |-> 0] \in [at : Place, retries : 0..MaxRetries]
      BY PayrollExportAssumption DEF Place
    <3>2. QED
      BY <2>1, <3>1 DEF ExportInit, ExportTypeOK
  <2>3. \A c \in Copy : copy[c].at = "unsent"
    BY <2>1 DEF ExportInit
  <2>4. Working = {}
    BY <2>3 DEF Working
  <2>5. QED
    BY <2>1, <2>2, <2>3, <2>4 DEF ExportInit, ExportInv, FileInv, ExpiryInv, ClaimInv
<1>2. ExportInv /\ [ExportNext]_exportVars => ExportInv'
  <2>1. ASSUME ExportInv, UNCHANGED exportVars
        PROVE  ExportInv'
    BY <2>1 DEF exportVars, ExportInv, ExportTypeOK, FileInv, ExpiryInv, ClaimInv, Working
  <2>2. ASSUME ExportInv, ExportNext
        PROVE  ExportInv'
    BY <2>2, ProducersStay, MessagesStay, ClaimStays, ConsumersStay DEF ExportNext, Consume
  <2>3. QED
    BY <2>1, <2>2
<1>3. QED
  BY <1>1, <1>2, PTL DEF ExportSpec

\* Type correctness of the job, its file and its messages.
THEOREM ExportTypeCorrect == ExportSpec => []ExportTypeOK
<1>1. ExportInv => ExportTypeOK
  BY DEF ExportInv
<1>2. QED
  BY <1>1, ExportInvHolds, PTL

\* downloadPayrollExportV2 finds the file of a job that is COMPLETED and has not expired, however
\* many copies of its message processPayrollExport works on.
THEOREM DownloadableHasFileHolds == ExportSpec => []DownloadableHasFile
<1>1. ExportInv => DownloadableHasFile
  BY DEF ExportInv, FileInv, DownloadableHasFile
<1>2. QED
  BY <1>1, ExportInvHolds, PTL

\* expirePayrollExports deletes the file before it marks the job, and nothing stores it again.
THEOREM ExpiredHasNoFileHolds == ExportSpec => []ExpiredHasNoFile
<1>1. ExportInv => ExpiredHasNoFile
  BY DEF ExportInv, ExpiryInv, ExpiredHasNoFile
<1>2. QED
  BY <1>1, ExportInvHolds, PTL

\* The claim of processPayrollExport is exclusive until a message has used up its retries.
THEOREM ClaimIsExclusiveHolds == ExportSpec => []ClaimIsExclusive
<1>1. ASSUME ExportInv, Cardinality(Working) > 1
      PROVE  \E c \in Copy : copy[c].at = "done" /\ copy[c].retries = MaxRetries
  <2>1. SUFFICES ASSUME \A c, d \in Working : c = d
                 PROVE  FALSE
    BY <1>1 DEF ExportInv, ClaimInv
  <2>2. Working # {}
    BY <1>1, FS_EmptySet
  <2>3. PICK c : Working = {c}
    BY <2>1, <2>2
  <2>4. Cardinality({c}) = 1
    BY FS_Singleton
  <2>5. QED
    BY <1>1, <2>3, <2>4
<1>2. ExportInv => ClaimIsExclusive
  BY <1>1 DEF ClaimIsExclusive
<1>3. QED
  BY <1>2, ExportInvHolds, PTL
=============================================================================
