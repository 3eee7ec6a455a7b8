---------------------------- MODULE LeaveProofs ----------------------------
(***************************************************************************)
(* Proofs about the leave requests (LeaveRequests on D1, PostgresLeave on  *)
(* PostgreSQL) and the way their minutes are laid over the working days    *)
(* (LeaveRules).  On D1: the types, and what approved leave is worth       *)
(* against the cron job and the clock actions, whoever runs at the same    *)
(* time; the balance row, the allocations and the timesheets as three      *)
(* copies of the same minutes, and the checks that are still true when a   *)
(* request writes, when the coordinator serializes them.  On PostgreSQL:   *)
(* the same copies and checks, kept by its serializable transactions.      *)
(***************************************************************************)
EXTENDS MCLeave, FiniteSetTheorems, TLAPS

-----------------------------------------------------------------------------
(* The sum of the minutes of some days or rows (LeaveRules!TotalMinutes).   *)

\* A finite set's subsets, however they are chosen, have a smallest one: induction over the
\* size of a set, as a search for the smallest counterexample.
LEMMA MinimalSubset ==
  ASSUME NEW S, IsFiniteSet(S), NEW T, \A x \in T : x \subseteq S, T # {}
  PROVE  \E x \in T : \A y \in T : y \subseteq x => y = x
<1>1. IsWellFoundedOn(StrictSubsetOrdering(S), SUBSET S)
  BY FS_StrictSubsetOrderingWellFounded, FS_FiniteSubsetsOfFinite
<1>2. T \in SUBSET SUBSET S
  OBVIOUS
<1>3. \E x \in T : \A y \in T : ~(<<y, x>> \in StrictSubsetOrdering(S))
  BY <1>1, <1>2, WFMin
<1>4. QED
  BY <1>2, <1>3 DEF StrictSubsetOrdering

\* The element that the fold takes first.
Some(s) == CHOOSE x \in s : TRUE

\* g adds f up over the subsets of S.
Adds(g, f, S) ==
  \A s \in SUBSET S : g[s] = IF s = {} THEN 0 ELSE f[Some(s)] + g[s \ {Some(s)}]

\* g has the totals of f for all the subsets of S.
Totals(g, f, S) == \A R \in SUBSET S : TotalMinutes(f, R) = g[R]

\* The fold of the sums is a recursive function on the subsets, once one exists.
LEMMA SumIsChosen ==
  ASSUME NEW f, NEW S, NEW h, h \in [SUBSET S -> Int], Adds(h, f, S)
  PROVE  \E g : g = [s \in SUBSET S |-> g[s]] /\ Adds(g, f, S) /\ TotalMinutes(f, S) = g[S]
<1> DEFINE F(g) == [s \in SUBSET S |-> IF s = {} THEN 0 ELSE f[Some(s)] + g[s \ {Some(s)}]]
           g == CHOOSE k : k = F(k)
<1>1. TotalMinutes(f, S) = g[S]
  BY DEF TotalMinutes, MapThenSumSet, MapThenFoldSet, Some
<1>2. h = F(h)
  BY DEF Adds
<1>3. g = F(g)
  BY <1>2
<1>4. Adds(g, f, S) /\ g = [s \in SUBSET S |-> g[s]]
  BY <1>3 DEF Adds
<1>5. QED
  BY <1>1, <1>4

\* A set of numbers has a least one.
LEMMA LeastNumber ==
  ASSUME NEW T \in SUBSET Nat, T # {}
  PROVE  \E n \in T : \A m \in T : n <= m
<1>1. PICK t \in T : TRUE
  OBVIOUS
<1> DEFINE below == {0..n : n \in {m \in T : m <= t}}
<1>2. t \in Nat
  BY <1>1
<1>3. IsFiniteSet(0..t)
  BY <1>2, FS_Interval
<1>4. below \in SUBSET SUBSET (0..t)
  BY <1>2
<1>5. below # {}
  BY <1>1, <1>2
<1>6. PICK x \in below : \A y \in below : y \subseteq x => y = x
  <2> DEFINE whole == 0..t
  <2>1. IsFiniteSet(whole) /\ (\A x \in below : x \subseteq whole) /\ below # {}
    BY <1>3, <1>4, <1>5
  <2> HIDE DEF below, whole
  <2>2. QED
    BY <2>1, MinimalSubset
<1>7. PICK n \in T : n <= t /\ x = 0..n
  BY <1>6
<1>8. ASSUME NEW m \in T, m < n
      PROVE  FALSE
  <2>1. m \in Nat /\ n \in Nat
    OBVIOUS
  <2>2. 0..m \in below
    BY <1>2, <1>7, <1>8, <2>1
  <2>3. 0..m \subseteq x
    BY <1>7, <1>8, <2>1
  <2>4. 0..m = 0..n
    BY <1>6, <1>7, <2>2, <2>3
  <2>5. n \in 0..n /\ n \notin 0..m
    BY <1>8, <2>1
  <2>6. QED
    BY <2>4, <2>5
<1>9. QED
  <2>1. \A m \in T : n <= m
    <3> SUFFICES ASSUME NEW m \in T PROVE n <= m
      OBVIOUS
    <3>1. m \in Nat /\ n \in Nat
      OBVIOUS
    <3>2. QED
      BY <1>8, <3>1
  <2>2. QED
    BY <2>1

\* The function that adds f up over the subsets of a finite set exists.
LEMMA AddingExists ==
  ASSUME NEW S, IsFiniteSet(S), NEW f, \A x \in S : f[x] \in Int
  PROVE  \E g \in [SUBSET S -> Int] : Adds(g, f, S)
<1> DEFINE Level(n) == {s \in SUBSET S : Cardinality(s) <= n}
           Good(n) == \E g \in [Level(n) -> Int] :
             \A s \in Level(n) : g[s] = IF s = {} THEN 0 ELSE f[Some(s)] + g[s \ {Some(s)}]
           bad == {n \in Nat : ~Good(n)}
<1>1. \A s \in SUBSET S : IsFiniteSet(s) /\ Cardinality(s) \in Nat
  BY FS_Subset, FS_CardinalityType
<1>2. Good(0)
  <2> DEFINE g == [s \in Level(0) |-> 0]
  <2>1. \A s \in Level(0) : s = {}
    BY <1>1, FS_EmptySet
  <2>2. g \in [Level(0) -> Int] /\ \A s \in Level(0) : g[s] = IF s = {} THEN 0 ELSE f[Some(s)] + g[s \ {Some(s)}]
    BY <2>1
  <2>3. QED
    BY <2>2
<1>3. ASSUME NEW n \in Nat, Good(n)
      PROVE  Good(n + 1)
  <2>1. PICK g \in [Level(n) -> Int] :
          \A s \in Level(n) : g[s] = IF s = {} THEN 0 ELSE f[Some(s)] + g[s \ {Some(s)}]
    BY <1>3
  <2> DEFINE h == [s \in Level(n + 1) |-> IF s \in Level(n) THEN g[s] ELSE f[Some(s)] + g[s \ {Some(s)}]]
  <2>2. ASSUME NEW s \in Level(n + 1), s # {}
        PROVE  Some(s) \in S /\ s \ {Some(s)} \in Level(n)
    <3>1. Some(s) \in s
      BY <2>2 DEF Some
    <3>2. Cardinality(s \ {Some(s)}) = Cardinality(s) - 1
      BY <1>1, <3>1, FS_RemoveElement
    <3>3. QED
      BY <1>1, <3>1, <3>2
  <2>3. {} \in Level(n)
    BY FS_EmptySet
  <2>4. h \in [Level(n + 1) -> Int]
    <3>1. ASSUME NEW s \in Level(n + 1)
          PROVE  h[s] \in Int
      <4>1. CASE s \in Level(n)
        BY <2>1, <4>1
      <4>2. CASE s \notin Level(n)
        <5>1. g[s \ {Some(s)}] \in Int /\ f[Some(s)] \in Int
          BY <2>1, <2>2, <2>3, <4>2
        <5>2. QED
          BY <4>2, <5>1
      <4>3. QED
        BY <4>1, <4>2
    <3>2. QED
      BY <3>1
  <2>5. \A s \in Level(n + 1) : h[s] = IF s = {} THEN 0 ELSE f[Some(s)] + h[s \ {Some(s)}]
    <3> SUFFICES ASSUME NEW s \in Level(n + 1)
                 PROVE  h[s] = IF s = {} THEN 0 ELSE f[Some(s)] + h[s \ {Some(s)}]
      OBVIOUS
    <3>1. CASE s = {}
      BY <2>1, <2>3, <3>1
    <3>2. CASE s # {}
      <4>1. s \ {Some(s)} \in Level(n) /\ s \ {Some(s)} \in Level(n + 1)
        BY <1>1, <2>2, <3>2
      <4>2. h[s \ {Some(s)}] = g[s \ {Some(s)}]
        BY <4>1
      <4>3. QED
        BY <2>1, <3>2, <4>2
    <3>3. QED
      BY <3>1, <3>2
  <2>6. QED
    BY <2>4, <2>5
<1>4. \A n \in Nat : Good(n)
  <2> SUFFICES ASSUME bad # {} PROVE FALSE
    OBVIOUS
  <2>1. PICK n \in bad : \A m \in bad : n <= m
    BY LeastNumber
  <2> HIDE DEF Good
  <2>2. n # 0 /\ n - 1 \in Nat /\ ~(n - 1 \in bad)
    BY <1>2, <2>1
  <2>3. Good(n - 1) /\ ~Good((n - 1) + 1)
    BY <2>1, <2>2
  <2>4. QED
    BY <1>3, <2>2, <2>3
<1>5. Level(Cardinality(S)) = SUBSET S
  BY <1>1, FS_Subset
<1>6. Good(Cardinality(S)) 
  BY <1>1, <1>4
<1>7. QED
  BY <1>5, <1>6 DEF Adds

\* TotalMinutes is that function, for every subset.
LEMMA TotalOfParts ==
  ASSUME NEW S, IsFiniteSet(S), NEW f, \A x \in S : f[x] \in Int
  PROVE  \E g \in [SUBSET S -> Int] : Adds(g, f, S) /\ Totals(g, f, S)
<1>1. PICK g \in [SUBSET S -> Int] : Adds(g, f, S)
  BY AddingExists
<1>2. ASSUME NEW R \in SUBSET S
      PROVE  TotalMinutes(f, R) = g[R]
  <2> DEFINE r == [s \in SUBSET R |-> g[s]]
  <2>1. r \in [SUBSET R -> Int]
    BY <1>1
  <2>2. \A s \in SUBSET R : s # {} => Some(s) \in s
    BY DEF Some
  <2>3. Adds(r, f, R)
    BY <1>1, <2>2 DEF Adds
  <2>4. PICK k : Adds(k, f, R) /\ TotalMinutes(f, R) = k[R]
    BY <2>1, <2>3, SumIsChosen
  <2> DEFINE differ == {s \in SUBSET R : k[s] # g[s]}
  <2>5. ASSUME differ # {} PROVE FALSE
    <3>1. IsFiniteSet(R)
      BY FS_Subset
    <3>2. \A s \in differ : s \subseteq R
      OBVIOUS
    <3>3. PICK s \in differ : \A t \in differ : t \subseteq s => t = s
      <4> HIDE DEF differ
      <4>1. QED
        BY <2>5, <3>1, <3>2, MinimalSubset
    <3>4. k[s] # g[s] /\ s \in SUBSET R /\ s \in SUBSET S
      OBVIOUS
    <3>5. s # {}
      BY <1>1, <2>4, <3>4 DEF Adds
    <3>6. Some(s) \in s /\ s \ {Some(s)} \in SUBSET R
      BY <2>2, <3>4, <3>5
    <3>7. s \ {Some(s)} \notin differ
      BY <3>3, <3>6
    <3>8. k[s \ {Some(s)}] = g[s \ {Some(s)}]
      BY <3>6, <3>7
    <3>9. k[s] = f[Some(s)] + k[s \ {Some(s)}]
      BY <2>4, <3>4, <3>5 DEF Adds
    <3>10. g[s] = f[Some(s)] + g[s \ {Some(s)}]
      BY <1>1, <3>4, <3>5 DEF Adds
    <3>11. QED
      BY <3>4, <3>8, <3>9, <3>10
  <2>6. R \in SUBSET R
    OBVIOUS
  <2>7. k[R] = g[R]
    BY <2>5, <2>6
  <2>8. QED
    BY <2>4, <2>7
<1>3. QED
  BY <1>1, <1>2 DEF Totals

\* Nothing adds up to zero.
LEMMA TotalEmpty ==
  ASSUME NEW f
  PROVE  TotalMinutes(f, {}) = 0
<1> DEFINE none == {}
<1>1. IsFiniteSet(none) /\ \A x \in none : f[x] \in Int
  BY FS_EmptySet
<1>2. PICK g \in [SUBSET none -> Int] : Adds(g, f, none) /\ Totals(g, f, none)
  <2> HIDE DEF none
  <2>1. QED
    BY <1>1, TotalOfParts
<1>3. none \in SUBSET none
  OBVIOUS
<1>4. QED
  BY <1>2, <1>3 DEF Adds, Totals

\* A total is a number.
LEMMA TotalInt ==
  ASSUME NEW S, IsFiniteSet(S), NEW f, \A x \in S : f[x] \in Int
  PROVE  TotalMinutes(f, S) \in Int
<1>1. PICK g \in [SUBSET S -> Int] : Adds(g, f, S) /\ Totals(g, f, S)
  BY TotalOfParts
<1>2. S \in SUBSET S
  OBVIOUS
<1>3. QED
  BY <1>1, <1>2 DEF Totals

\* A total is one of its terms and the total of the others ...
LEMMA TotalSome ==
  ASSUME NEW S, IsFiniteSet(S), NEW f, \A x \in S : f[x] \in Int, S # {}
  PROVE  /\ Some(S) \in S
         /\ TotalMinutes(f, S) = f[Some(S)] + TotalMinutes(f, S \ {Some(S)})
<1>1. PICK g \in [SUBSET S -> Int] : Adds(g, f, S) /\ Totals(g, f, S)
  BY TotalOfParts
<1>2. S \in SUBSET S /\ S \ {Some(S)} \in SUBSET S
  OBVIOUS
<1>3. g[S] = f[Some(S)] + g[S \ {Some(S)}]
  BY <1>1, <1>2 DEF Adds
<1>4. QED
  BY <1>1, <1>2, <1>3 DEF Some, Totals

\* ... whichever term is taken first.
LEMMA TotalPick ==
  ASSUME NEW S, IsFiniteSet(S), NEW f, \A x \in S : f[x] \in Int, NEW x \in S
  PROVE  TotalMinutes(f, S) = f[x] + TotalMinutes(f, S \ {x})
<1> DEFINE wrong == {R \in SUBSET S : \E y \in R : TotalMinutes(f, R) # f[y] + TotalMinutes(f, R \ {y})}
<1>1. ASSUME wrong # {} PROVE FALSE
  <2>1. \A R \in wrong : R \subseteq S
    OBVIOUS
  <2>2. PICK R \in wrong : \A Q \in wrong : Q \subseteq R => Q = R
    <3> HIDE DEF wrong
    <3>1. QED
      BY <1>1, <2>1, MinimalSubset
  <2>3. PICK y \in R : TotalMinutes(f, R) # f[y] + TotalMinutes(f, R \ {y})
    OBVIOUS
  <2> DEFINE z == Some(R)
  <2>4. R \subseteq S /\ IsFiniteSet(R) /\ R # {} /\ \A a \in R : f[a] \in Int
    BY <2>3, FS_Subset
  <2>5. z \in R /\ TotalMinutes(f, R) = f[z] + TotalMinutes(f, R \ {z})
    BY <2>4, TotalSome
  <2>6. z # y
    BY <2>3, <2>5
  <2> HIDE DEF z
  <2>7. R \ {y} \notin wrong /\ R \ {z} \notin wrong
    BY <2>2, <2>5
  <2>8. TotalMinutes(f, R \ {z}) = f[y] + TotalMinutes(f, (R \ {z}) \ {y})
    BY <2>4, <2>6, <2>7
  <2>9. TotalMinutes(f, R \ {y}) = f[z] + TotalMinutes(f, (R \ {y}) \ {z})
    BY <2>4, <2>5, <2>6, <2>7
  <2>10. (R \ {y}) \ {z} = (R \ {z}) \ {y}
    OBVIOUS
  <2>11. IsFiniteSet((R \ {z}) \ {y}) /\ \A a \in (R \ {z}) \ {y} : f[a] \in Int
    BY <2>4, FS_Subset
  <2>12. f[y] \in Int /\ f[z] \in Int /\ TotalMinutes(f, (R \ {z}) \ {y}) \in Int
    BY <2>4, <2>5, <2>11, TotalInt
  <2>13. TotalMinutes(f, R) = f[z] + (f[y] + TotalMinutes(f, (R \ {z}) \ {y}))
    BY <2>5, <2>8
  <2>14. f[y] + TotalMinutes(f, R \ {y}) = f[y] + (f[z] + TotalMinutes(f, (R \ {z}) \ {y}))
    BY <2>9, <2>10
  <2>15. QED
    BY <2>3, <2>12, <2>13, <2>14
<1>2. S \in SUBSET S
  OBVIOUS
<1>3. S \notin wrong
  BY <1>1
<1>4. QED
  BY <1>2, <1>3

\* One more term adds to the total.
LEMMA TotalAdd ==
  ASSUME NEW S, IsFiniteSet(S), NEW f, \A x \in S : f[x] \in Int, NEW y, y \notin S, f[y] \in Int
  PROVE  TotalMinutes(f, S \cup {y}) = f[y] + TotalMinutes(f, S)
<1>1. IsFiniteSet(S \cup {y})
  BY FS_AddElement
<1>2. (S \cup {y}) \ {y} = S
  OBVIOUS
<1>3. \A x \in S \cup {y} : f[x] \in Int
  OBVIOUS
<1>4. QED
  BY <1>1, <1>2, <1>3, TotalPick

\* Equal terms have equal totals.
LEMMA TotalSame ==
  ASSUME NEW S, IsFiniteSet(S), NEW f, NEW g, \A x \in S : f[x] = g[x] /\ f[x] \in Int
  PROVE  TotalMinutes(f, S) = TotalMinutes(g, S)
<1> DEFINE wrong == {R \in SUBSET S : TotalMinutes(f, R) # TotalMinutes(g, R)}
<1>1. ASSUME wrong # {} PROVE FALSE
  <2>1. \A R \in wrong : R \subseteq S
    OBVIOUS
  <2>2. PICK R \in wrong : \A Q \in wrong : Q \subseteq R => Q = R
    <3> HIDE DEF wrong
    <3>1. QED
      BY <1>1, <2>1, MinimalSubset
  <2>3. R \subseteq S /\ TotalMinutes(f, R) # TotalMinutes(g, R)
    OBVIOUS
  <2>4. R # {}
    BY <2>3, TotalEmpty
  <2>5. IsFiniteSet(R) /\ (\A x \in R : f[x] \in Int) /\ (\A x \in R : g[x] \in Int)
    BY <2>3, FS_Subset
  <2> DEFINE z == Some(R)
  <2>6. z \in R /\ TotalMinutes(f, R) = f[z] + TotalMinutes(f, R \ {z})
    BY <2>4, <2>5, TotalSome
  <2>7. TotalMinutes(g, R) = g[z] + TotalMinutes(g, R \ {z})
    BY <2>4, <2>5, TotalSome
  <2> HIDE DEF z
  <2>8. R \ {z} \notin wrong
    BY <2>2, <2>6
  <2>9. TotalMinutes(f, R \ {z}) = TotalMinutes(g, R \ {z})
    BY <2>3, <2>8
  <2>10. f[z] = g[z]
    BY <2>3, <2>6
  <2>11. QED
    BY <2>3, <2>6, <2>7, <2>9, <2>10
<1>2. S \in SUBSET S
  OBVIOUS
<1>3. QED
  BY <1>1, <1>2

\* Minutes that are not negative add up to a total that is not negative.
LEMMA TotalNat ==
  ASSUME NEW S, IsFiniteSet(S), NEW f, \A x \in S : f[x] \in Nat
  PROVE  TotalMinutes(f, S) \in Nat
<1> DEFINE wrong == {R \in SUBSET S : TotalMinutes(f, R) \notin Nat}
<1>1. ASSUME wrong # {} PROVE FALSE
  <2>1. \A R \in wrong : R \subseteq S
    OBVIOUS
  <2>2. PICK R \in wrong : \A Q \in wrong : Q \subseteq R => Q = R
    <3> HIDE DEF wrong
    <3>1. QED
      BY <1>1, <2>1, MinimalSubset
  <2>3. R \subseteq S /\ TotalMinutes(f, R) \notin Nat
    OBVIOUS
  <2>4. R # {}
    BY <2>3, TotalEmpty
  <2>5. IsFiniteSet(R) /\ (\A x \in R : f[x] \in Int)
    BY <2>3, FS_Subset
  <2> DEFINE z == Some(R)
  <2>6. z \in R /\ TotalMinutes(f, R) = f[z] + TotalMinutes(f, R \ {z})
    BY <2>4, <2>5, TotalSome
  <2> HIDE DEF z
  <2>7. R \ {z} \notin wrong
    BY <2>2, <2>6
  <2>8. TotalMinutes(f, R \ {z}) \in Nat /\ f[z] \in Nat
    BY <2>3, <2>6, <2>7
  <2>9. QED
    BY <2>3, <2>6, <2>8
<1>2. S \in SUBSET S
  OBVIOUS
<1>3. QED
  BY <1>1, <1>2

\* The sum over the image of a one-to-one function.
LEMMA TotalImage ==
  ASSUME NEW S, IsFiniteSet(S), NEW f, \A x \in S : f[x] \in Int,
         NEW h, \A x, y \in S : h[x] = h[y] => x = y,
         NEW g, \A x \in S : g[h[x]] = f[x]
  PROVE  TotalMinutes(g, {h[x] : x \in S}) = TotalMinutes(f, S)
<1> DEFINE image(R) == {h[x] : x \in R}
           wrong == {R \in SUBSET S : TotalMinutes(g, image(R)) # TotalMinutes(f, R)}
<1>1. ASSUME wrong # {} PROVE FALSE
  <2>1. \A R \in wrong : R \subseteq S
    OBVIOUS
  <2>2. PICK R \in wrong : \A Q \in wrong : Q \subseteq R => Q = R
    <3> HIDE DEF wrong
    <3>1. QED
      BY <1>1, <2>1, MinimalSubset
  <2>3. R \subseteq S /\ TotalMinutes(g, image(R)) # TotalMinutes(f, R)
    OBVIOUS
  <2>4. R # {}
    <3>1. ASSUME R = {} PROVE image(R) = {}
      BY <3>1
    <3>2. QED
      BY <2>3, <3>1, TotalEmpty
  <2>5. IsFiniteSet(R) /\ (\A x \in R : f[x] \in Int)
    BY <2>3, FS_Subset
  <2> DEFINE z == Some(R)
  <2>6. z \in R /\ TotalMinutes(f, R) = f[z] + TotalMinutes(f, R \ {z})
    BY <2>4, <2>5, TotalSome
  <2> HIDE DEF z
  <2>7. IsFiniteSet(image(R))
    <3> DEFINE onto == [x \in R |-> h[x]]
    <3>1. onto \in Surjection(R, image(R))
      BY DEF Surjection
    <3> HIDE DEF onto, image
    <3>2. QED
      BY <2>5, <3>1, FS_Surjection
  <2>8. \A y \in image(R) : g[y] \in Int
    BY <2>3
  <2>9. h[z] \in image(R)
    BY <2>6
  <2>10. TotalMinutes(g, image(R)) = g[h[z]] + TotalMinutes(g, image(R) \ {h[z]})
    <3> HIDE DEF image
    <3>1. QED
      BY <2>7, <2>8, <2>9, TotalPick
  <2>11. image(R) \ {h[z]} = image(R \ {z})
    BY <2>3, <2>6
  <2>12. R \ {z} \notin wrong
    BY <2>2, <2>6
  <2>13. TotalMinutes(g, image(R \ {z})) = TotalMinutes(f, R \ {z})
    BY <2>3, <2>12
  <2>14. g[h[z]] = f[z]
    BY <2>3, <2>6
  <2>15. QED
    BY <2>3, <2>6, <2>10, <2>11, <2>13, <2>14
<1>2. S \in SUBSET S
  OBVIOUS
<1>3. QED
  BY <1>1, <1>2

\* What is zero adds nothing.
LEMMA TotalOfPositive ==
  ASSUME NEW S, IsFiniteSet(S), NEW f, \A x \in S : f[x] \in Nat
  PROVE  TotalMinutes(f, {x \in S : f[x] > 0}) = TotalMinutes(f, S)
<1> DEFINE positive(R) == {x \in R : f[x] > 0}
           wrong == {R \in SUBSET S : TotalMinutes(f, positive(R)) # TotalMinutes(f, R)}
<1>1. ASSUME wrong # {} PROVE FALSE
  <2>1. \A R \in wrong : R \subseteq S
    OBVIOUS
  <2>2. PICK R \in wrong : \A Q \in wrong : Q \subseteq R => Q = R
    <3> HIDE DEF wrong
    <3>1. QED
      BY <1>1, <2>1, MinimalSubset
  <2>3. R \subseteq S /\ TotalMinutes(f, positive(R)) # TotalMinutes(f, R)
    OBVIOUS
  <2>4. R # {}
    <3>1. ASSUME R = {} PROVE positive(R) = R
      BY <3>1
    <3>2. QED
      BY <2>3, <3>1
  <2>5. IsFiniteSet(R) /\ (\A x \in R : f[x] \in Int)
    BY <2>3, FS_Subset
  <2> DEFINE z == Some(R)
  <2>6. z \in R /\ TotalMinutes(f, R) = f[z] + TotalMinutes(f, R \ {z})
    BY <2>4, <2>5, TotalSome
  <2> HIDE DEF z
  <2>7. R \ {z} \notin wrong
    BY <2>2, <2>6
  <2>8. TotalMinutes(f, positive(R \ {z})) = TotalMinutes(f, R \ {z})
    BY <2>3, <2>7
  <2>9. IsFiniteSet(positive(R \ {z})) /\ (\A x \in positive(R \ {z}) : f[x] \in Int) /\ z \notin positive(R \ {z})
    BY <2>3, <2>5, FS_Subset
  <2>10. CASE f[z] > 0
    <3>1. positive(R) = positive(R \ {z}) \cup {z}
      BY <2>6, <2>10
    <3>2. TotalMinutes(f, positive(R \ {z}) \cup {z}) = f[z] + TotalMinutes(f, positive(R \ {z}))
      <4>1. f[z] \in Int
        BY <2>5, <2>6
      <4> HIDE DEF positive
      <4>2. QED
        BY <2>9, <4>1, TotalAdd
    <3>3. QED
      BY <2>3, <2>6, <2>8, <3>1, <3>2
  <2>11. CASE ~ (f[z] > 0)
    <3>1. positive(R) = positive(R \ {z})
      BY <2>11
    <3>2. f[z] = 0
      BY <2>3, <2>6, <2>11
    <3>3. TotalMinutes(f, R \ {z}) \in Int
      BY <2>5, FS_Subset, TotalInt
    <3>4. QED
      BY <2>3, <2>6, <2>8, <3>1, <3>2, <3>3
  <2>12. QED
    BY <2>10, <2>11
<1>2. S \in SUBSET S
  OBVIOUS
<1>3. QED
  BY <1>1, <1>2

-----------------------------------------------------------------------------
(* planLeaveAllocations.                                                    *)

\* A finite set of days has a latest one.
LEMMA Latest ==
  ASSUME NEW R \in SUBSET Int, IsFiniteSet(R), R # {}
  PROVE  \E m \in R : \A x \in R : x <= m
<1> DEFINE after == {{x \in R : m <= x} : m \in R}
<1>1. \A s \in after : s \subseteq R
  OBVIOUS
<1>2. after # {}
  OBVIOUS
<1>3. PICK s \in after : \A t \in after : t \subseteq s => t = s
  <2> HIDE DEF after
  <2>1. QED
    BY <1>1, <1>2, MinimalSubset
<1>4. PICK m \in R : s = {x \in R : m <= x}
  OBVIOUS
<1>5. ASSUME NEW x \in R, ~ (x <= m) PROVE FALSE
  <2>1. {y \in R : x <= y} \in after
    OBVIOUS
  <2>2. {y \in R : x <= y} \subseteq s
    <3> SUFFICES ASSUME NEW y \in R, x <= y PROVE m <= y
      BY <1>4
    <3>1. x \in Int /\ m \in Int /\ y \in Int
      OBVIOUS
    <3>2. QED
      BY <1>5, <3>1
  <2>3. m \notin {y \in R : x <= y} /\ m \in s
    BY <1>4, <1>5
  <2>4. QED
    BY <1>3, <2>1, <2>2, <2>3
<1>6. QED
  BY <1>5

\* planLeaveAllocations gives out exactly the minutes that were asked for, whenever the days
\* have room for them, and never more on a day than is worked there.
THEOREM PlansAreExact ==
  ASSUME NEW dates \in SUBSET Int, IsFiniteSet(dates),
         NEW scheduled, \A d \in dates : scheduled[d] \in Nat,
         NEW requested \in Nat
  PROVE  PlanIsTheRequest(scheduled, dates, requested)
<1> DEFINE plan == planLeaveAllocations(scheduled, dates, requested)
           before(d) == {e \in dates : e < d}
           left(d) == requested - TotalMinutes(scheduled, before(d))
           room(R) == TotalMinutes(scheduled, R)
           Earliest(R) == \A d \in R, e \in dates : e < d => e \in R
           Right(R) == TotalMinutes(plan, R) = IF room(R) >= requested THEN requested ELSE room(R)
           wrong == {R \in SUBSET dates : Earliest(R) /\ ~ Right(R)}
<1>1. \A R \in SUBSET dates : IsFiniteSet(R) /\ R \in SUBSET Int /\ room(R) \in Nat
  <2> SUFFICES ASSUME NEW R \in SUBSET dates
               PROVE  IsFiniteSet(R) /\ R \in SUBSET Int /\ room(R) \in Nat
    OBVIOUS
  <2>1. IsFiniteSet(R)
    BY FS_Subset
  <2>2. QED
    BY <2>1, TotalNat
<1>2. \A d \in dates : before(d) \in SUBSET dates /\ left(d) \in Int
  BY <1>1
<1>3. \A d \in dates :
        /\ left(d) <= 0 => plan[d] = 0
        /\ left(d) > 0 /\ left(d) <= scheduled[d] => plan[d] = left(d)
        /\ left(d) > 0 /\ left(d) > scheduled[d] => plan[d] = scheduled[d]
  <2> SUFFICES ASSUME NEW d \in dates
               PROVE  /\ left(d) <= 0 => plan[d] = 0
                      /\ left(d) > 0 /\ left(d) <= scheduled[d] => plan[d] = left(d)
                      /\ left(d) > 0 /\ left(d) > scheduled[d] => plan[d] = scheduled[d]
    OBVIOUS
  <2>1. plan[d] = CASE left(d) <= 0                             -> 0
                    [] left(d) > 0 /\ left(d) <= scheduled[d]   -> left(d)
                    [] OTHER                                    -> scheduled[d]
    BY DEF planLeaveAllocations
  <2>2. left(d) \in Int /\ scheduled[d] \in Nat
    BY <1>2
  <2> HIDE DEF left, plan
  <2>3. QED
    BY <2>1, <2>2
<1>4. \A d \in dates : plan[d] \in 0..scheduled[d]
  <2> HIDE DEF left, plan
  <2>1. QED
    BY <1>2, <1>3
<1>5. ASSUME wrong # {} PROVE FALSE
  <2>1. \A R \in wrong : R \subseteq dates
    OBVIOUS
  <2>2. PICK R \in wrong : \A Q \in wrong : Q \subseteq R => Q = R
    <3> HIDE DEF wrong
    <3>1. QED
      BY <1>5, <2>1, MinimalSubset
  <2>3. R \in SUBSET dates /\ Earliest(R) /\ ~ Right(R)
    OBVIOUS
  <2>4. R # {}
    <3>1. ASSUME R = {} PROVE Right(R)
      <4> HIDE DEF plan
      <4>1. QED
        BY <3>1, TotalEmpty
    <3>2. QED
      BY <2>3, <3>1
  <2>5. PICK m \in R : \A x \in R : x <= m
    BY <1>1, <2>3, <2>4, Latest
  <2>6. m \in dates /\ m \in Int
    BY <2>3
  <2>7. R \ {m} = before(m)
    <3>1. ASSUME NEW x \in R \ {m} PROVE x \in before(m)
      <4>1. x \in dates /\ x \in Int /\ x <= m /\ x # m
        BY <2>3, <2>5
      <4>2. QED
        BY <2>6, <4>1
    <3>2. ASSUME NEW x \in before(m) PROVE x \in R \ {m}
      <4>1. x \in dates /\ x \in Int /\ x < m
        OBVIOUS
      <4>2. QED
        BY <2>3, <2>6, <4>1
    <3>3. QED
      BY <3>1, <3>2
  <2>8. before(m) \in SUBSET dates /\ Earliest(before(m)) /\ before(m) # R
    BY <2>5, <2>6
  <2>9. before(m) \subseteq R
    BY <2>7
  <2>10. Right(before(m))
    <3>1. before(m) \notin wrong
      <4> HIDE DEF wrong, before
      <4>1. QED
        BY <2>2, <2>8, <2>9
    <3> HIDE DEF Right, before, Earliest
    <3>2. QED
      BY <2>8, <3>1
  <2>11. IsFiniteSet(R) /\ \A x \in R : scheduled[x] \in Int /\ plan[x] \in Int
    <3> HIDE DEF plan
    <3>1. QED
      BY <1>1, <1>4, <2>3
  <2>12. room(R) = scheduled[m] + room(before(m))
    <3>1. room(R) = scheduled[m] + room(R \ {m})
      BY <2>11, TotalPick
    <3>2. QED
      BY <2>7, <3>1
  <2>13. TotalMinutes(plan, R) = plan[m] + TotalMinutes(plan, before(m))
    <3> HIDE DEF plan, before
    <3>1. TotalMinutes(plan, R) = plan[m] + TotalMinutes(plan, R \ {m})
      BY <2>11, TotalPick
    <3>2. QED
      BY <2>7, <3>1
  <2>14. room(before(m)) \in Nat /\ scheduled[m] \in Nat /\ left(m) = requested - room(before(m))
    BY <1>1, <2>6, <2>8
  <2>15. Right(R)
    <3>1. /\ left(m) <= 0 => plan[m] = 0
          /\ left(m) > 0 /\ left(m) <= scheduled[m] => plan[m] = left(m)
          /\ left(m) > 0 /\ left(m) > scheduled[m] => plan[m] = scheduled[m]
      BY <1>3, <2>6
    <3> HIDE DEF plan, left, room, before
    <3>2. QED
      BY <2>10, <2>12, <2>13, <2>14, <3>1
  <2>16. QED
    BY <2>3, <2>15
<1>6. Right(dates)
  <2>1. dates \in SUBSET dates /\ Earliest(dates)
    OBVIOUS
  <2>2. dates \notin wrong
    BY <1>5
  <2> HIDE DEF Right, Earliest
  <2>3. QED
    BY <2>1, <2>2
<1>7. HasRoom(scheduled, dates, requested) => TotalMinutes(plan, dates) = requested
  <2> HIDE DEF plan
  <2>1. QED
    BY <1>6 DEF HasRoom
<1>8. QED
  BY <1>4, <1>7 DEF PlanIsTheRequest

\* More days never have fewer minutes.
LEMMA TotalGrows ==
  ASSUME NEW S, IsFiniteSet(S), NEW f, \A x \in S : f[x] \in Nat, NEW R \in SUBSET S
  PROVE  TotalMinutes(f, R) <= TotalMinutes(f, S)
<1> DEFINE wrong == {Q \in SUBSET S : R \subseteq Q /\ ~ (TotalMinutes(f, R) <= TotalMinutes(f, Q))}
<1>1. ASSUME wrong # {} PROVE FALSE
  <2>1. \A Q \in wrong : Q \subseteq S
    OBVIOUS
  <2>2. PICK Q \in wrong : \A P \in wrong : P \subseteq Q => P = Q
    <3> HIDE DEF wrong
    <3>1. QED
      BY <1>1, <2>1, MinimalSubset
  <2>3. Q \in SUBSET S /\ R \subseteq Q /\ ~ (TotalMinutes(f, R) <= TotalMinutes(f, Q))
    OBVIOUS
  <2>4. IsFiniteSet(Q) /\ IsFiniteSet(R) /\ (\A x \in Q : f[x] \in Nat) /\ (\A x \in R : f[x] \in Nat)
    BY <2>3, FS_Subset
  <2>5. TotalMinutes(f, R) \in Nat
    BY <2>4, TotalNat
  <2>6. PICK x \in Q : x \notin R
    BY <2>3, <2>5
  <2>7. \A y \in Q : f[y] \in Int
    BY <2>4
  <2>8. TotalMinutes(f, Q) = f[x] + TotalMinutes(f, Q \ {x})
    BY <2>4, <2>7, TotalPick
  <2>9. Q \ {x} \notin wrong
    BY <2>2
  <2>10. TotalMinutes(f, R) <= TotalMinutes(f, Q \ {x})
    BY <2>3, <2>6, <2>9
  <2>11. IsFiniteSet(Q \ {x}) /\ \A y \in Q \ {x} : f[y] \in Nat
    BY <2>4, FS_Subset
  <2>12. TotalMinutes(f, Q \ {x}) \in Nat /\ f[x] \in Nat
    <3> DEFINE P == Q \ {x}
    <3>1. IsFiniteSet(P) /\ \A y \in P : f[y] \in Nat
      BY <2>11
    <3> HIDE DEF P
    <3>2. TotalMinutes(f, P) \in Nat
      BY <3>1, TotalNat
    <3>3. QED
      BY <2>4, <3>2 DEF P
  <2>13. QED
    BY <2>3, <2>5, <2>8, <2>10, <2>12
<1>2. S \in SUBSET S /\ R \subseteq S
  OBVIOUS
<1>3. S \notin wrong
  BY <1>1
<1>4. QED
  BY <1>2, <1>3

\* planLeaveAllocations fills the earliest days first: a day after one with room left gets nothing.
THEOREM EarliestDaysAreFilledFirst ==
  ASSUME NEW dates \in SUBSET Int, IsFiniteSet(dates),
         NEW scheduled, \A d \in dates : scheduled[d] \in Nat,
         NEW requested \in Nat
  PROVE  EarliestDaysFirst(scheduled, dates, requested)
<1> DEFINE plan == planLeaveAllocations(scheduled, dates, requested)
           before(d) == {x \in dates : x < d}
           left(d) == requested - TotalMinutes(scheduled, before(d))
<1>1. ASSUME NEW d \in dates
      PROVE  /\ before(d) \subseteq dates /\ IsFiniteSet(before(d)) /\ left(d) \in Int
             /\ TotalMinutes(scheduled, before(d)) \in Nat
             /\ plan[d] = IF left(d) <= 0 THEN 0 ELSE IF left(d) <= scheduled[d] THEN left(d) ELSE scheduled[d]
  <2>1. before(d) \subseteq dates /\ IsFiniteSet(before(d))
    BY FS_Subset
  <2>2. TotalMinutes(scheduled, before(d)) \in Nat
    <3>1. \A x \in before(d) : scheduled[x] \in Nat
      OBVIOUS
    <3> HIDE DEF before
    <3>2. QED
      BY <2>1, <3>1, TotalNat
  <2>3. left(d) \in Int /\ scheduled[d] \in Nat
    BY <2>2
  <2>4. plan[d] = CASE left(d) <= 0                             -> 0
                    [] left(d) > 0 /\ left(d) <= scheduled[d]   -> left(d)
                    [] OTHER                                    -> scheduled[d]
    BY DEF planLeaveAllocations
  <2> HIDE DEF left, plan, before
  <2>5. left(d) > 0 <=> ~ (left(d) <= 0)
    BY <2>3
  <2>6. QED
    BY <2>1, <2>2, <2>3, <2>4, <2>5
<1>2. ASSUME NEW d \in dates, NEW e \in dates, d < e, plan[e] > 0
      PROVE  plan[d] = scheduled[d]
  <2>1. left(e) > 0
    <3> HIDE DEF left, plan, before
    <3>1. QED
      BY <1>1, <1>2
  <2>2. before(d) \cup {d} \subseteq before(e) /\ d \notin before(d)
    <3>1. d \in Int /\ e \in Int
      OBVIOUS
    <3>2. ASSUME NEW x \in before(d) PROVE x \in before(e)
      <4>1. x \in Int /\ x < d /\ x \in dates
        OBVIOUS
      <4>2. QED
        BY <1>2, <3>1, <4>1
    <3>3. d \in before(e) /\ d \notin before(d)
      BY <1>2, <3>1
    <3> HIDE DEF before
    <3>4. QED
      BY <3>2, <3>3
  <2>3. IsFiniteSet(before(d)) /\ IsFiniteSet(before(e)) /\ before(e) \subseteq dates /\ before(d) \subseteq dates
    BY <1>1
  <2> DEFINE room(S) == TotalMinutes(scheduled, S)
  <2>4. room(before(d) \cup {d}) <= room(before(e))
    <3>1. \A x \in before(e) : scheduled[x] \in Nat
      BY <2>3
    <3> HIDE DEF before
    <3>2. QED
      BY <2>2, <2>3, <3>1, TotalGrows
  <2>5. room(before(d) \cup {d}) = scheduled[d] + room(before(d))
    <3>1. \A x \in before(d) : scheduled[x] \in Int
      BY <2>3
    <3> HIDE DEF before
    <3>2. QED
      BY <2>2, <2>3, <3>1, TotalAdd
  <2>6. room(before(d)) \in Nat /\ room(before(e)) \in Nat /\ scheduled[d] \in Nat
    BY <1>1
  <2>7. left(d) = requested - room(before(d)) /\ left(e) = requested - room(before(e))
    OBVIOUS
  <2> HIDE DEF left, plan, before, room
  <2>8. left(d) > scheduled[d]
    BY <2>1, <2>4, <2>5, <2>6, <2>7
  <2>9. left(d) \in Int
    BY <1>1
  <2>10. QED
    BY <1>1, <2>6, <2>8, <2>9
<1>3. QED
  BY <1>2 DEF EarliestDaysFirst

-----------------------------------------------------------------------------
(* The rows, of whichever database: requests req, timesheets sh, the       *)
(* balance row bal, and the allocations alloc.                             *)

\* Request rows, with those that are not there yet.
Rows == Request \cup {NoRequest}

\* The allocations of the request l.
AllocationOf(l) == [request : {l}, day : Day, minutes : Nat]

\* The allocations that approving the row r of the request l adds.
PlanRows(l, r) ==
  LET plan == planLeaveAllocations([d \in DaysOf(r) |-> Scheduled[d]], DaysOf(r), r.minutes)
  IN {[request |-> l, day |-> d, minutes |-> plan[d]] : d \in {e \in DaysOf(r) : plan[e] > 0}}

\* The timesheets sh with these allocations, computed from the days as they were seen.
Written(rows, seen, sh) ==
  [d \in Day |->
     IF \E a \in rows : a.day = d
     THEN [DayWithLeave(CHOOSE a \in rows : a.day = d, seen[d]) EXCEPT !.worked = sh[d].worked]
     ELSE sh[d]]

\* The rows that an approval adds: each for a day of its own, with the minutes the request
\* asks for when the days have room for them.
LEMMA PlannedRows ==
  ASSUME NEW l, NEW r \in Request
  PROVE  LET rows == PlanRows(l, r)
         IN /\ rows \subseteq AllocationOf(l) /\ IsFiniteSet(rows)
            /\ \A a \in rows : a.request = l /\ a.minutes \in Nat \ {0} /\ a.day \in DaysOf(r)
            /\ \A a, b \in rows : a.day = b.day => a = b
            /\ HasRoom(Scheduled, DaysOf(r), r.minutes) =>
                 AllocatedIn(rows) = r.minutes
<1> DEFINE days == DaysOf(r)
           scheduled == [d \in days |-> Scheduled[d]]
           plan == planLeaveAllocations(scheduled, days, r.minutes)
           given == {d \in days : plan[d] > 0}
           row == [d \in given |-> [request |-> l, day |-> d, minutes |-> plan[d]]]
           rows == PlanRows(l, r)
<1>1. r.first \in Day /\ r.last \in Day /\ r.minutes \in Nat
  BY LeaveRequestsAssumption DEF Request
<1>2. days \in SUBSET Day /\ days \in SUBSET Int /\ IsFiniteSet(days)
  <2>1. r.first \in Int /\ r.last \in Int
    BY <1>1 DEF Day
  <2>2. IsFiniteSet(r.first..r.last)
    BY <2>1, FS_Interval
  <2>3. QED
    BY <1>1, <2>1, <2>2, LeaveRequestsAssumption DEF Day, DaysOf
<1>3. \A d \in days : scheduled[d] = Scheduled[d] /\ scheduled[d] \in Nat
  BY <1>2, LeaveRequestsAssumption
<1>4. PlanIsTheRequest(scheduled, days, r.minutes)
  <2> HIDE DEF scheduled, days
  <2>1. QED
    BY <1>1, <1>2, <1>3, PlansAreExact
<1>5. \A d \in days : plan[d] \in Nat
  <2> HIDE DEF plan, scheduled, days
  <2>1. \A d \in days : plan[d] \in 0..scheduled[d]
    BY <1>4 DEF PlanIsTheRequest, plan
  <2>2. QED
    BY <1>3, <2>1
<1>6. rows = {row[d] : d \in given}
  <2> HIDE DEF plan
  <2>1. {row[d] : d \in given} = {[request |-> l, day |-> d, minutes |-> plan[d]] : d \in given}
    OBVIOUS
  <2>2. rows = {[request |-> l, day |-> d, minutes |-> plan[d]] : d \in given}
    BY DEF PlanRows, plan
  <2>3. QED
    BY <2>1, <2>2
<1> HIDE DEF rows
<1>7. given \in SUBSET Day /\ given \in SUBSET days /\ IsFiniteSet(given)
  <2> HIDE DEF plan, days
  <2>1. given \subseteq days
    OBVIOUS
  <2> HIDE DEF given
  <2>2. QED
    BY <1>2, <2>1, FS_Subset
<1>8. \A d \in given : /\ row[d] \in AllocationOf(l) /\ row[d].request = l /\ row[d].day = d
                      /\ row[d].minutes = plan[d] /\ plan[d] \in Nat \ {0}
  <2> SUFFICES ASSUME NEW d \in given
               PROVE  /\ row[d] \in AllocationOf(l) /\ row[d].request = l /\ row[d].day = d
                      /\ row[d].minutes = plan[d] /\ plan[d] \in Nat \ {0}
    OBVIOUS
  <2> HIDE DEF plan, days
  <2>1. d \in Day /\ plan[d] \in Nat \ {0}
    BY <1>2, <1>5
  <2>2. row[d] = [request |-> l, day |-> d, minutes |-> plan[d]]
    OBVIOUS
  <2> HIDE DEF row, given
  <2>3. QED
    BY <2>1, <2>2 DEF AllocationOf
<1> HIDE DEF row
<1>9. IsFiniteSet(rows)
  <2>1. row \in Surjection(given, rows)
    <3>1. row \in [given -> rows]
      <4>1. DOMAIN row = given /\ row = [d \in given |-> row[d]]
        BY DEF row
      <4> HIDE DEF given
      <4>2. QED
        BY <1>6, <4>1
    <3> HIDE DEF given
    <3>2. QED
      BY <1>6, <3>1 DEF Surjection
  <2> HIDE DEF given
  <2>2. QED
    BY <1>7, <2>1, FS_Surjection
<1>10. /\ rows \subseteq AllocationOf(l)
       /\ \A a \in rows : a.request = l /\ a.minutes \in Nat \ {0} /\ a.day \in days
       /\ \A a, b \in rows : a.day = b.day => a = b
  <2> HIDE DEF given, plan, days
  <2>1. QED
    BY <1>6, <1>7, <1>8
<1>11. AllocatedIn(rows) = TotalMinutes(plan, given)
  <2> DEFINE minutes == [a \in rows |-> a.minutes]
  <2> HIDE DEF given, plan
  <2>1. \A d \in given : minutes[row[d]] = plan[d] /\ plan[d] \in Int
    BY <1>6, <1>8
  <2>2. \A d, e \in given : row[d] = row[e] => d = e
    BY <1>8
  <2>3. AllocatedIn(rows) = TotalMinutes(minutes, {row[d] : d \in given})
    BY <1>6 DEF AllocatedIn
  <2> HIDE DEF minutes
  <2>4. QED
    BY <1>7, <2>1, <2>2, <2>3, TotalImage
<1>12. TotalMinutes(plan, given) = TotalMinutes(plan, days)
  <2> HIDE DEF plan, days
  <2>1. QED
    BY <1>2, <1>5, TotalOfPositive
<1>13. TotalMinutes(scheduled, days) = TotalMinutes(Scheduled, days)
  <2> HIDE DEF scheduled, days
  <2>1. \A d \in days : scheduled[d] = Scheduled[d] /\ scheduled[d] \in Int
    BY <1>3
  <2>2. QED
    BY <1>2, <2>1, TotalSame
<1>14. HasRoom(Scheduled, days, r.minutes) => AllocatedIn(rows) = r.minutes
  <2> HIDE DEF scheduled, days, given
  <2>1. HasRoom(scheduled, days, r.minutes) => TotalMinutes(plan, days) = r.minutes
    BY <1>4 DEF PlanIsTheRequest
  <2>2. QED
    BY <1>11, <1>12, <1>13, <2>1 DEF HasRoom
<1>15. QED
  BY <1>9, <1>10, <1>14 DEF rows

\* What an approval writes to the timesheets.
LEMMA WrittenSheets ==
  ASSUME NEW l, NEW r \in Request, NEW seen \in [Day -> Sheet], NEW sh \in [Day -> Sheet]
  PROVE  LET new == Written(PlanRows(l, r), seen, sh)
         IN /\ new \in [Day -> Sheet]
            /\ \A d \in Day : (~ \E a \in PlanRows(l, r) : a.day = d) => new[d] = sh[d]
            /\ \A a \in PlanRows(l, r) : /\ new[a.day].leave = seen[a.day].leave + a.minutes
                                         /\ "ABSENT" \notin new[a.day].codes
                                         /\ seen[a.day].state = "OPEN" => new[a.day].state = "OPEN"
<1> DEFINE new == Written(PlanRows(l, r), seen, sh)
           rows == PlanRows(l, r)
           day(a, d) == [DayWithLeave(a, seen[d]) EXCEPT !.worked = sh[d].worked]
<1>1. /\ rows \subseteq AllocationOf(l)
      /\ \A a, b \in rows : a.day = b.day => a = b
  BY PlannedRows
<1>2. ASSUME NEW a \in rows
      PROVE  /\ a.day \in Day
             /\ day(a, a.day) \in Sheet
             /\ day(a, a.day).leave = seen[a.day].leave + a.minutes
             /\ "ABSENT" \notin day(a, a.day).codes
             /\ seen[a.day].state = "OPEN" => day(a, a.day).state = "OPEN"
  <2> DEFINE old == seen[a.day]
             leave == old.leave + a.minutes
             codes == (old.codes \ {"ABSENT", "PARTIAL_DAY_UNACCOUNTED"})
                        \cup {c \in {"PARTIAL_DAY_UNACCOUNTED"} : old.worked + leave < Scheduled[a.day]}
             state == IF old.state = "OPEN" THEN "OPEN" ELSE IF codes # {} THEN "EXCEPTION" ELSE "COMPLETE"
  <2>1. a \in AllocationOf(l)
    BY <1>1
  <2>2. a.day \in Day /\ a.minutes \in Nat
    BY <2>1 DEF AllocationOf
  <2>3. old \in Sheet /\ sh[a.day] \in Sheet
    BY <2>2
  <2>4. /\ leave \in Nat /\ codes \subseteq Code /\ "ABSENT" \notin codes
        /\ state \in {"OPEN", "EXCEPTION", "COMPLETE"} /\ (seen[a.day].state = "OPEN" => state = "OPEN")
    BY <2>2, <2>3 DEF Sheet, Code
  <2>5. DayWithLeave(a, old) = [old EXCEPT !.leave = leave, !.codes = codes, !.state = state]
    BY DEF DayWithLeave
  <2>6. sh[a.day].worked \in Nat
    BY <2>3 DEF Sheet
  <2>7. day(a, a.day) = [DayWithLeave(a, old) EXCEPT !.worked = sh[a.day].worked]
    OBVIOUS
  <2>8. day(a, a.day) = [state |-> state, codes |-> codes, worked |-> sh[a.day].worked, leave |-> leave]
    <3> HIDE DEF leave, codes, state, old, day
    <3>1. QED
      BY <2>3, <2>5, <2>7 DEF Sheet
  <2> HIDE DEF codes, state, day
  <2>9. QED
    BY <2>2, <2>4, <2>6, <2>8 DEF Sheet
<1>3. ASSUME NEW a \in rows PROVE new[a.day] = day(a, a.day)
  <2>1. \A b \in rows : b.day = a.day => b = a
    BY <1>1
  <2>2. a = CHOOSE b \in rows : b.day = a.day
    <3> HIDE DEF rows
    <3>1. QED
      BY <2>1
  <2>3. new[a.day] = [DayWithLeave(CHOOSE b \in rows : b.day = a.day, seen[a.day])
                        EXCEPT !.worked = sh[a.day].worked]
    <3>1. a.day \in Day
      BY <1>2
    <3>2. \E b \in PlanRows(l, r) : b.day = a.day
      OBVIOUS
    <3>3. QED
      BY <3>1, <3>2, Zenon DEF Written
  <2>4. QED
    BY <2>2, <2>3
<1>4. \A d \in Day : (~ \E a \in rows : a.day = d) => new[d] = sh[d]
  BY DEF Written
<1>5. new \in [Day -> Sheet]
  <2>1. ASSUME NEW d \in Day PROVE new[d] \in Sheet
    <3>1. CASE \E a \in rows : a.day = d
      <4>1. PICK a \in rows : a.day = d
        BY <3>1
      <4> HIDE DEF new, day, rows
      <4>2. QED
        BY <1>2, <1>3, <4>1
    <3>2. CASE ~ \E a \in rows : a.day = d
      <4> HIDE DEF new, rows
      <4>1. QED
        BY <1>4, <3>2
    <3>3. QED
      BY <3>1, <3>2
  <2>2. new = [d \in Day |-> new[d]]
    BY DEF Written
  <2> HIDE DEF new
  <2>3. QED
    BY <2>1, <2>2
<1> HIDE DEF new, day, rows
<1>6. QED
  BY <1>2, <1>3, <1>4, <1>5 DEF new, rows

\* The minutes of the requests with a status.
MinutesIn(req, status) ==
  TotalMinutes([l \in Leave |-> req[l].minutes], {l \in Leave : req[l].status = status})

IsActive(r) == r.status \in {"PENDING", "APPROVED"}

\* The balance, the allocations and the timesheets tell of the same minutes, only approved
\* requests are allocated, and no day is asked for twice.
Books(req, bal, sh, alloc) ==
  /\ bal.pending = MinutesIn(req, "PENDING") /\ bal.used = MinutesIn(req, "APPROVED")
  /\ \A l, m \in Leave : IsActive(req[l]) /\ IsActive(req[m]) /\ Overlap(req[l], req[m]) => l = m
  /\ \A l \in Leave : AllocatedIn({a \in alloc : a.request = l})
                        = IF req[l].status = "APPROVED" THEN req[l].minutes ELSE 0
  /\ \A d \in Day : sh[d].leave = AllocatedIn({a \in alloc : a.day = d})
  /\ IsFiniteSet(alloc)
  /\ \A a \in alloc : a.request \in Leave /\ a.minutes \in Nat /\ req[a.request].status = "APPROVED"

\* A row has a status; its minutes count whether or not it was created.
LEMMA OneRow ==
  ASSUME NEW r \in Rows
  PROVE  /\ r # NoRequest <=> r.status # "NONE"
         /\ r # NoRequest => r \in Request
         /\ r.minutes \in Nat /\ r.first \in Int /\ r.last \in Int
         /\ r.status = "PENDING" => r # NoRequest
<1>1. CASE r \in Request
  BY <1>1 DEF Request, NoRequest, Day
<1>2. CASE r = NoRequest
  BY <1>2 DEF NoRequest
<1>3. QED
  BY <1>1, <1>2 DEF Rows

\* The minutes of the requests with a status, when one request changes.
LEMMA MinutesChange ==
  ASSUME NEW req \in [Leave -> Rows], NEW new \in [Leave -> Rows], NEW l \in Leave,
         \A m \in Leave : m # l => new[m] = req[m], NEW status
  PROVE  LET before == MinutesIn(req, status)
             after  == MinutesIn(new, status)
         IN /\ before \in Int
            /\ req[l].status # status /\ new[l].status # status => after = before
            /\ req[l].status = status /\ new[l].status # status => after = before - req[l].minutes
            /\ req[l].status # status /\ new[l].status = status => after = before + new[l].minutes
<1> DEFINE f == [m \in Leave |-> req[m].minutes]
           g == [m \in Leave |-> new[m].minutes]
           S == {m \in Leave : req[m].status = status}
           T == {m \in Leave : new[m].status = status}
           R == S \ {l}
<1>1. IsFiniteSet(S) /\ IsFiniteSet(R) /\ l \notin R
  BY LeaveRequestsAssumption, FS_Subset
<1>2. \A m \in Leave : f[m] \in Nat /\ f[m] = req[m].minutes /\ g[m] \in Nat /\ g[m] = new[m].minutes
  BY OneRow
<1>3. \A m \in R : f[m] = g[m] /\ f[m] \in Int
  BY <1>2
<1>4. TotalMinutes(f, R) = TotalMinutes(g, R) /\ TotalMinutes(f, R) \in Int
  <2> HIDE DEF f, g, R, S
  <2>1. QED
    BY <1>1, <1>3, TotalSame, TotalInt
<1>5. l \in S => TotalMinutes(f, S) = f[l] + TotalMinutes(f, R)
  <2>1. \A m \in S : f[m] \in Int
    BY <1>2
  <2> HIDE DEF f, S
  <2>2. QED
    BY <1>1, <2>1, TotalPick
<1>6. l \notin S => R = S
  OBVIOUS
<1>7. l \in T => TotalMinutes(g, T) = g[l] + TotalMinutes(g, R)
  <2> SUFFICES ASSUME l \in T PROVE TotalMinutes(g, T) = g[l] + TotalMinutes(g, R)
    OBVIOUS
  <2>1. T = R \cup {l}
    OBVIOUS
  <2>2. g[l] \in Int /\ \A m \in R : g[m] \in Int
    BY <1>2
  <2> HIDE DEF g, R, T
  <2>3. QED
    BY <1>1, <2>1, <2>2, TotalAdd
<1>8. l \notin T => T = R
  OBVIOUS
<1>9. MinutesIn(req, status) = TotalMinutes(f, S) /\ MinutesIn(new, status) = TotalMinutes(g, T)
  BY DEF MinutesIn
<1>10. (l \in S <=> req[l].status = status) /\ (l \in T <=> new[l].status = status)
  OBVIOUS
<1> HIDE DEF f, g, R, S, T
<1>11. QED
  BY <1>2, <1>4, <1>5, <1>6, <1>7, <1>8, <1>9, <1>10

\* One more row adds its minutes.
LEMMA AllocatedOne ==
  ASSUME NEW S, IsFiniteSet(S), \A a \in S : a.minutes \in Nat, NEW b, b \notin S, b.minutes \in Nat
  PROVE  AllocatedIn(S \cup {b}) = AllocatedIn(S) + b.minutes
<1> DEFINE f == [a \in S |-> a.minutes]
           g == [a \in S \cup {b} |-> a.minutes]
<1>1. \A a \in S : f[a] = g[a] /\ f[a] \in Int
  OBVIOUS
<1>2. g[b] = b.minutes /\ g[b] \in Int
  OBVIOUS
<1>3. AllocatedIn(S \cup {b}) = TotalMinutes(g, S \cup {b}) /\ AllocatedIn(S) = TotalMinutes(f, S)
  BY DEF AllocatedIn
<1> HIDE DEF f, g
<1>4. TotalMinutes(g, S \cup {b}) = g[b] + TotalMinutes(g, S)
  BY <1>1, <1>2, TotalAdd
<1>5. TotalMinutes(f, S) = TotalMinutes(g, S) /\ TotalMinutes(f, S) \in Int
  BY <1>1, TotalSame, TotalInt
<1>6. QED
  BY <1>2, <1>3, <1>4, <1>5

\* A request that is decided: what its row becomes.
LEMMA RowDecided ==
  ASSUME NEW L, NEW req \in [L -> Rows], NEW l \in L, req[l] # NoRequest,
         NEW decision \in {"APPROVED", "REJECTED", "CANCELLED"}, NEW new,
         new = [req EXCEPT ![l].status = decision]
  PROVE  /\ new \in [L -> Rows]
         /\ new[l] \in Request /\ new[l].status = decision /\ new[l].minutes = req[l].minutes
         /\ new[l].first = req[l].first /\ new[l].last = req[l].last
         /\ \A m \in L : m # l => new[m] = req[m]
         /\ \A m \in L : new[m] = NoRequest <=> req[m] = NoRequest
<1>1. req[l] \in Request
  BY OneRow
<1>2. PICK row : row = [req[l] EXCEPT !.status = decision]
  OBVIOUS
<1>3. /\ row \in Request /\ row.status = decision /\ row.minutes = req[l].minutes
      /\ row.first = req[l].first /\ row.last = req[l].last
  BY <1>1, <1>2 DEF Request
<1>4. row \in Rows /\ row # NoRequest
  BY <1>3 DEF Rows, NoRequest
<1>5. new = [req EXCEPT ![l] = row]
  BY <1>2
<1>6. new \in [L -> Rows] /\ new[l] = row /\ \A m \in L : m # l => new[m] = req[m]
  BY <1>4, <1>5
<1>7. QED
  BY <1>3, <1>4, <1>6

\* A balance less the minutes of a request, and with them used.
LEMMA BalanceReleased ==
  ASSUME NEW bal \in Balance, NEW minutes \in Nat, NEW b,
         \/ b = [bal EXCEPT !.pending = @ - minutes]
         \/ b = [[bal EXCEPT !.pending = @ - minutes] EXCEPT !.used = @ + minutes]
  PROVE  /\ b \in Balance /\ b.entitled = bal.entitled /\ b.pending = bal.pending - minutes
         /\ b = [bal EXCEPT !.pending = @ - minutes] => b.used = bal.used
         /\ b = [[bal EXCEPT !.pending = @ - minutes] EXCEPT !.used = @ + minutes] => b.used = bal.used + minutes
<1>1. PICK released : released = [bal EXCEPT !.pending = @ - minutes]
  OBVIOUS
<1>2. /\ released \in Balance /\ released.entitled = bal.entitled /\ released.used = bal.used
      /\ released.used \in Nat /\ released.pending = bal.pending - minutes
  BY <1>1 DEF Balance
<1>3. PICK used : used = [released EXCEPT !.used = @ + minutes]
  OBVIOUS
<1>4. /\ used \in Balance /\ used.entitled = bal.entitled /\ used.used = bal.used + minutes
      /\ used.pending = bal.pending - minutes
  BY <1>2, <1>3 DEF Balance
<1>5. b = released \/ b = used
  BY <1>1, <1>3
<1>6. CASE b = released
  <2>1. b # used \/ minutes = 0
    BY <1>2, <1>4, <1>6
  <2>2. QED
    BY <1>1, <1>2, <1>3, <1>4, <1>6, <2>1
<1>7. CASE b = used
  <2>1. b # released \/ minutes = 0
    BY <1>2, <1>4, <1>7
  <2>2. QED
    BY <1>1, <1>2, <1>3, <1>4, <1>7, <2>1
<1>8. QED
  BY <1>5, <1>6, <1>7

\* A new request reserves its minutes and covers no day twice.
LEMMA BooksCreated ==
  ASSUME NEW req \in [Leave -> Rows], NEW bal, NEW sh, NEW alloc, Books(req, bal, sh, alloc),
         NEW l \in Leave, req[l] = NoRequest, NEW row \in Request, row.status = "PENDING",
         \A m \in Leave : IsActive(req[m]) => ~Overlap(req[m], row),
         NEW new \in [Leave -> Rows], new[l] = row, \A m \in Leave : m # l => new[m] = req[m],
         NEW b, b.pending = bal.pending + row.minutes, b.used = bal.used
  PROVE  Books(new, b, sh, alloc)
<1>1. req[l].status = "NONE" /\ row.minutes \in Nat
  BY OneRow DEF NoRequest, Rows
<1>2. b.pending = MinutesIn(new, "PENDING") /\ b.used = MinutesIn(new, "APPROVED")
  <2>1. MinutesIn(new, "PENDING") = MinutesIn(req, "PENDING") + row.minutes
    BY <1>1, MinutesChange
  <2>2. MinutesIn(new, "APPROVED") = MinutesIn(req, "APPROVED")
    BY <1>1, MinutesChange
  <2>3. QED
    BY <2>1, <2>2 DEF Books
<1>3. ASSUME NEW m \in Leave, NEW n \in Leave, IsActive(new[m]), IsActive(new[n]), Overlap(new[m], new[n])
      PROVE  m = n
  <2>1. \A k \in Leave : IsActive(req[k]) => ~Overlap(req[k], row) /\ ~Overlap(row, req[k])
    BY DEF Overlap
  <2>2. QED
    BY <1>3, <2>1 DEF Books
<1>4. \A a \in alloc : a.request # l
  BY <1>1 DEF Books
<1>5. \A m \in Leave : (new[m].status = "APPROVED" <=> req[m].status = "APPROVED")
                       /\ (req[m].status = "APPROVED" => new[m].minutes = req[m].minutes)
  BY <1>1
<1>6. \A m \in Leave : AllocatedIn({a \in alloc : a.request = m})
                          = IF new[m].status = "APPROVED" THEN new[m].minutes ELSE 0
  BY <1>5 DEF Books
<1>7. QED
  BY <1>2, <1>3, <1>5, <1>6 DEF Books

\* Nothing overlaps that did not when a pending request is decided.
LEMMA NoDayTwiceDecided ==
  ASSUME NEW req, NEW new, NEW l \in Leave, req[l].status = "PENDING",
         new[l].first = req[l].first, new[l].last = req[l].last,
         \A m \in Leave : m # l => new[m] = req[m],
         \A m, n \in Leave : IsActive(req[m]) /\ IsActive(req[n]) /\ Overlap(req[m], req[n]) => m = n
  PROVE  \A m, n \in Leave : IsActive(new[m]) /\ IsActive(new[n]) /\ Overlap(new[m], new[n]) => m = n
<1>1. \A m \in Leave : IsActive(new[m]) => IsActive(req[m])
  BY DEF IsActive
<1>2. \A m \in Leave : new[m].first = req[m].first /\ new[m].last = req[m].last
  OBVIOUS
<1>3. QED
  BY <1>1, <1>2 DEF Overlap

\* A pending request that is rejected or cancelled gives its minutes back.
LEMMA BooksDecided ==
  ASSUME NEW req \in [Leave -> Rows], NEW bal, NEW sh, NEW alloc, Books(req, bal, sh, alloc),
         NEW l \in Leave, req[l].status = "PENDING", NEW decision \in {"REJECTED", "CANCELLED"},
         NEW new \in [Leave -> Rows], new[l].status = decision, new[l].minutes = req[l].minutes,
         new[l].first = req[l].first, new[l].last = req[l].last, \A m \in Leave : m # l => new[m] = req[m],
         NEW b, b.pending = bal.pending - req[l].minutes, b.used = bal.used
  PROVE  Books(new, b, sh, alloc)
<1>1. req[l] # NoRequest /\ req[l].minutes \in Nat
  BY OneRow
<1>2. b.pending = MinutesIn(new, "PENDING") /\ b.used = MinutesIn(new, "APPROVED")
  <2>1. MinutesIn(new, "PENDING") = MinutesIn(req, "PENDING") - req[l].minutes
    BY MinutesChange
  <2>2. MinutesIn(new, "APPROVED") = MinutesIn(req, "APPROVED")
    BY MinutesChange
  <2>3. QED
    BY <2>1, <2>2 DEF Books
<1>3. \A m, n \in Leave : IsActive(new[m]) /\ IsActive(new[n]) /\ Overlap(new[m], new[n]) => m = n
  BY NoDayTwiceDecided DEF Books
<1>4. \A m \in Leave : (new[m].status = "APPROVED" <=> req[m].status = "APPROVED")
                       /\ new[m].minutes = req[m].minutes
  OBVIOUS
<1>5. QED
  BY <1>2, <1>3, <1>4 DEF Books

\* An approval uses what the request reserved, allocates it in full, and puts it on the
\* timesheets as they are.
LEMMA BooksApproved ==
  ASSUME NEW req \in [Leave -> Rows], NEW bal, NEW sh, NEW alloc, Books(req, bal, sh, alloc),
         NEW l \in Leave, req[l].status = "PENDING", NEW sh2,
         HasRoom(Scheduled, DaysOf(req[l]), req[l].minutes),
         \A d \in Day : (~ \E a \in PlanRows(l, req[l]) : a.day = d) => sh2[d].leave = sh[d].leave,
         \A a \in PlanRows(l, req[l]) : sh2[a.day].leave = sh[a.day].leave + a.minutes,
         NEW new \in [Leave -> Rows], new[l].status = "APPROVED", new[l].minutes = req[l].minutes,
         new[l].first = req[l].first, new[l].last = req[l].last, \A m \in Leave : m # l => new[m] = req[m],
         NEW b, b.pending = bal.pending - req[l].minutes, b.used = bal.used + req[l].minutes
  PROVE  Books(new, b, sh2, alloc \cup PlanRows(l, req[l]))
<1>1. req[l] # NoRequest /\ req[l] \in Request /\ req[l].minutes \in Nat
  BY OneRow
<1>2. b.pending = MinutesIn(new, "PENDING") /\ b.used = MinutesIn(new, "APPROVED")
  <2>1. MinutesIn(new, "PENDING") = MinutesIn(req, "PENDING") - req[l].minutes
    BY MinutesChange
  <2>2. MinutesIn(new, "APPROVED") = MinutesIn(req, "APPROVED") + new[l].minutes
    BY MinutesChange
  <2>3. QED
    BY <2>1, <2>2 DEF Books
<1>3. \A m, n \in Leave : IsActive(new[m]) /\ IsActive(new[n]) /\ Overlap(new[m], new[n]) => m = n
  BY NoDayTwiceDecided DEF Books
<1>4. PICK rows : rows = PlanRows(l, req[l])
  OBVIOUS
<1>5. /\ IsFiniteSet(rows)
      /\ \A a \in rows : a.request = l /\ a.minutes \in Nat
      /\ \A a, c \in rows : a.day = c.day => a = c
      /\ AllocatedIn(rows) = req[l].minutes
  BY <1>1, <1>4, PlannedRows
<1>6. IsFiniteSet(alloc) /\ \A a \in alloc : a.request \in Leave /\ a.request # l /\ a.minutes \in Nat
  BY DEF Books
<1>7. /\ IsFiniteSet(alloc \cup rows)
       /\ \A a \in alloc \cup rows : a.request \in Leave /\ a.minutes \in Nat /\ new[a.request].status = "APPROVED"
  BY <1>5, <1>6, FS_Union DEF Books
<1>8. ASSUME NEW m \in Leave
       PROVE  AllocatedIn({a \in alloc \cup rows : a.request = m})
                = IF new[m].status = "APPROVED" THEN new[m].minutes ELSE 0
  <2>1. CASE m = l
    <3>1. {a \in alloc \cup rows : a.request = m} = rows
      BY <1>5, <1>6, <2>1
    <3>2. QED
      BY <1>5, <2>1, <3>1
  <2>2. CASE m # l
    <3>1. {a \in alloc \cup rows : a.request = m} = {a \in alloc : a.request = m}
      BY <1>5, <2>2
    <3>2. QED
      BY <2>2, <3>1 DEF Books
  <2>3. QED
    BY <2>1, <2>2
<1>9. ASSUME NEW d \in Day
       PROVE  sh2[d].leave = AllocatedIn({a \in alloc \cup rows : a.day = d})
  <2>1. PICK old : old = {a \in alloc : a.day = d}
    OBVIOUS
  <2>2. sh[d].leave = AllocatedIn(old)
    BY <2>1 DEF Books
  <2>3. CASE \E a \in rows : a.day = d
    <3>1. PICK c \in rows : c.day = d
      BY <2>3
    <3>2. {a \in alloc \cup rows : a.day = d} = old \cup {c}
      BY <1>5, <2>1, <3>1
    <3>3. c \notin old /\ c.minutes \in Nat /\ \A a \in old : a.minutes \in Nat
      BY <1>5, <1>6, <2>1
    <3>4. IsFiniteSet(old)
      BY <1>6, <2>1, FS_Subset
    <3>5. sh2[d].leave = sh[d].leave + c.minutes
      BY <1>4, <3>1
    <3>6. AllocatedIn(old \cup {c}) = AllocatedIn(old) + c.minutes
      BY <3>3, <3>4, AllocatedOne
    <3>7. QED
      BY <2>2, <3>2, <3>5, <3>6
  <2>4. CASE ~ \E a \in rows : a.day = d
    <3>1. {a \in alloc \cup rows : a.day = d} = old
      BY <2>1, <2>4
    <3>2. sh2[d].leave = sh[d].leave
      BY <1>4, <2>4
    <3>3. QED
      BY <2>2, <3>1, <3>2
  <2>5. QED
    BY <2>3, <2>4
<1>10. Books(new, b, sh2, alloc \cup rows)
  BY <1>2, <1>3, <1>7, <1>8, <1>9 DEF Books
<1>11. QED
  BY <1>4, <1>10

\* Books are about minutes: a balance and timesheets that tell of the same ones are as good.
LEMMA BooksSame ==
  ASSUME NEW req, NEW bal, NEW sh, NEW alloc, Books(req, bal, sh, alloc), NEW bal2, NEW sh2,
         bal2.pending = bal.pending, bal2.used = bal.used, \A d \in Day : sh2[d].leave = sh[d].leave
  PROVE  Books(req, bal2, sh2, alloc)
BY DEF Books

\* The books of a year without requests.
LEMMA BooksEmpty ==
  ASSUME NEW req, \A l \in Leave : req[l] = NoRequest, NEW sh, \A d \in Day : sh[d].leave = 0
  PROVE  Books(req, NoBalance, sh, {})
<1>1. \A status : status # "NONE" => {l \in Leave : req[l].status = status} = {}
  BY DEF NoRequest
<1>2. MinutesIn(req, "PENDING") = 0 /\ MinutesIn(req, "APPROVED") = 0
  BY <1>1, TotalEmpty DEF MinutesIn
<1>3. \A l \in Leave : ~ IsActive(req[l]) /\ req[l].status # "APPROVED"
  BY DEF IsActive, NoRequest
<1>4. AllocatedIn({}) = 0
  BY TotalEmpty DEF AllocatedIn
<1>5. \A l \in Leave : {a \in {} : a.request = l} = {}
  OBVIOUS
<1>6. \A d \in Day : {a \in {} : a.day = d} = {}
  OBVIOUS
<1>7. IsFiniteSet({})
  BY FS_EmptySet
<1>8. NoBalance.pending = 0 /\ NoBalance.used = 0
  BY DEF NoBalance
<1>9. QED
  BY <1>2, <1>3, <1>4, <1>5, <1>6, <1>7, <1>8 DEF Books

-----------------------------------------------------------------------------
(* Types, and what a step relies on however the requests interleave.        *)

\* The steps of a review.
Reviewing == {"plan", "read days", "approve", "reject"}

\* What a request in flight relies on, whatever runs at the same time: the balance it
\* reserves minutes of and the request it decides are there, and a clock action never
\* writes that the day is an absence.
Sound(s) ==
  /\ s.pc = "reserve" => balance # NoBalance
  /\ s.pc \in {"cancel"} \cup Reviewing => requests[s.request] # NoRequest
  /\ s.pc = "clock" => "ABSENT" \notin s.row.codes

\* The types with what they need to be inductive: who is in flight relies on rows that are there.
TypeInv ==
  /\ TypeOK
  /\ \A l \in Leave : requests[l] # NoRequest => balance # NoBalance
  /\ \A f \in Flight : Sound(flight[f])
  /\ LeaveExcusesAbsence

\* The step of the idle process.
LEMMA IdlePc == Idle.pc = "idle"
BY DEF Idle

\* The kind of a request tells its fields.
LEMMA Kinds ==
  ASSUME TypeOK, NEW f \in Flight
  PROVE  /\ flight[f].pc = "idle" <=> flight[f] = Idle
         /\ flight[f].pc \in {"create", "reserve"} =>
              flight[f] \in [pc : {"create", "reserve"}, first : Day, last : Day, minutes : 1..MaxMinutes]
         /\ flight[f].pc \in {"cancel"} \cup Reviewing => flight[f].request \in Leave
         /\ flight[f].pc \in {"cancel", "plan", "read days"} =>
              flight[f] \in [pc : {"cancel", "plan", "read days"}, request : Leave]
         /\ flight[f].pc = "approve" => flight[f].seen \in [Day -> Sheet]
         /\ flight[f].pc = "clock" => flight[f].day \in Day /\ flight[f].row \in Sheet
<1>1. flight[f] \in {Idle} \cup Flights
  BY DEF TypeOK
<1>2. CASE flight[f] = Idle
  BY <1>2 DEF Idle, Reviewing
<1>3. CASE flight[f] \in [pc : {"create", "reserve"}, first : Day, last : Day, minutes : 1..MaxMinutes]
  <2>1. flight[f].pc # "idle" /\ flight[f] # Idle
    <3>1. flight[f].pc \in {"create", "reserve"}
      BY <1>3
    <3>2. QED
      BY <3>1, IdlePc
  <2>2. QED
    BY <1>3, <2>1 DEF Reviewing
<1>4. CASE flight[f] \in [pc : {"cancel", "plan", "read days"}, request : Leave]
  <2>1. flight[f].pc # "idle" /\ flight[f] # Idle
    <3>1. flight[f].pc \in {"cancel", "plan", "read days"}
      BY <1>4
    <3>2. QED
      BY <3>1, IdlePc
  <2>2. QED
    BY <1>4, <2>1 DEF Reviewing
<1>5. CASE flight[f] \in [pc : {"approve"}, request : Leave, seen : [Day -> Sheet]]
  <2>1. flight[f].pc # "idle" /\ flight[f] # Idle
    <3>1. flight[f].pc \in {"approve"}
      BY <1>5
    <3>2. QED
      BY <3>1, IdlePc
  <2>2. QED
    BY <1>5, <2>1 DEF Reviewing
<1>6. CASE flight[f] \in [pc : {"reject"}, request : Leave]
  <2>1. flight[f].pc # "idle" /\ flight[f] # Idle
    <3>1. flight[f].pc \in {"reject"}
      BY <1>6
    <3>2. QED
      BY <3>1, IdlePc
  <2>2. QED
    BY <1>6, <2>1 DEF Reviewing
<1>7. CASE flight[f] \in [pc : {"clock"}, day : Day, row : Sheet]
  <2>1. flight[f].pc # "idle" /\ flight[f] # Idle
    <3>1. flight[f].pc \in {"clock"}
      BY <1>7
    <3>2. QED
      BY <3>1, IdlePc
  <2>2. QED
    BY <1>7, <2>1 DEF Reviewing
<1>8. CASE flight[f] \in [pc : {"lock"}]
  <2>1. flight[f].pc # "idle" /\ flight[f] # Idle
    <3>1. flight[f].pc \in {"lock"}
      BY <1>8
    <3>2. QED
      BY <3>1, IdlePc
  <2>2. QED
    BY <1>8, <2>1 DEF Reviewing
<1>9. QED
  BY <1>1, <1>2, <1>3, <1>4, <1>5, <1>6, <1>7, <1>8 DEF Flights

\* A request has a status; its minutes count whether or not it was created.
LEMMA RequestRow ==
  ASSUME TypeOK, NEW l \in Leave
  PROVE  /\ requests \in [Leave -> Rows]
         /\ requests[l] # NoRequest <=> requests[l].status # "NONE"
         /\ requests[l] # NoRequest => requests[l] \in Request
         /\ requests[l].minutes \in Nat
         /\ requests[l].first \in Int /\ requests[l].last \in Int
         /\ requests[l].status = "PENDING" => requests[l] # NoRequest
<1>1. requests \in [Leave -> Rows]
  BY DEF TypeOK, Rows
<1>2. requests[l] \in Rows
  BY <1>1
<1>3. QED
  BY <1>1, <1>2, OneRow

\* The rows that an approval adds: each for a day of its own.
LEMMA NewRows ==
  ASSUME NEW l \in Leave, requests[l] \in Request
  PROVE  LET rows == Allocations(l)
         IN /\ rows = PlanRows(l, requests[l])
            /\ rows \subseteq Allocation
            /\ \A a \in rows : a.day \in DaysOf(requests[l])
<1>1. Allocations(l) = PlanRows(l, requests[l])
  BY DEF Allocations, PlanRows
<1>2. AllocationOf(l) \subseteq Allocation
  BY DEF AllocationOf, Allocation
<1>3. PlanRows(l, requests[l]) \subseteq AllocationOf(l) /\ \A a \in PlanRows(l, requests[l]) : a.day \in DaysOf(requests[l])
  BY PlannedRows
<1>4. QED
  BY <1>1, <1>2, <1>3

\* What an approval writes to the timesheets.
LEMMA NewSheets ==
  ASSUME TypeOK, NEW l \in Leave, requests[l] \in Request, NEW seen \in [Day -> Sheet]
  PROVE  LET new == Allocated(l, seen)
         IN /\ new = Written(PlanRows(l, requests[l]), seen, sheet)
            /\ new \in [Day -> Sheet]
            /\ \A d \in Day : (~ \E a \in Allocations(l) : a.day = d) => new[d] = sheet[d]
            /\ \A a \in Allocations(l) : /\ new[a.day].leave = seen[a.day].leave + a.minutes
                                         /\ "ABSENT" \notin new[a.day].codes
<1>1. sheet \in [Day -> Sheet]
  BY DEF TypeOK
<1>2. Allocations(l) = PlanRows(l, requests[l])
  BY NewRows
<1>3. Allocated(l, seen) = Written(PlanRows(l, requests[l]), seen, sheet)
  BY <1>2 DEF Allocated, Written
<1>4. QED
  BY <1>1, <1>2, <1>3, WrittenSheets

\* A process that moves to a step of its type leaves the others where they are.
LEMMA Moved ==
  ASSUME TypeOK, NEW f \in Flight, NEW s \in {Idle} \cup Flights, Continue(f, s)
  PROVE  /\ flight' \in [Flight -> {Idle} \cup Flights]
         /\ flight'[f] = s
         /\ \A g \in Flight : g # f => flight'[g] = flight[g]
<1>1. flight \in [Flight -> {Idle} \cup Flights] /\ flight' = [flight EXCEPT ![f] = s]
  BY DEF TypeOK, Continue
<1> DEFINE T == {Idle} \cup Flights
<1> HIDE DEF T
<1>2. QED
  BY <1>1 DEF T

\* Finishing is a move, too.
LEMMA Finished ==
  ASSUME TypeOK, NEW f \in Flight, Finish(f)
  PROVE  /\ flight' \in [Flight -> {Idle} \cup Flights]
         /\ flight'[f] = Idle
         /\ \A g \in Flight : g # f => flight'[g] = flight[g]
BY Moved DEF Finish

\* A step that keeps the types and the rows that others rely on.
LEMMA TypeStep ==
  ASSUME TypeInv,
         requests' \in [Leave -> Request \cup {NoRequest}],
         balance' \in Balance \cup {NoBalance},
         sheet' \in [Day -> Sheet],
         allocations' \subseteq Allocation,
         period' \in {"OPEN", "LOCKED"},
         flight' \in [Flight -> {Idle} \cup Flights],
         balance # NoBalance => balance' # NoBalance,
         \A l \in Leave : requests[l] # NoRequest => requests'[l] # NoRequest,
         \A l \in Leave : requests'[l] # NoRequest => requests[l] # NoRequest \/ balance' # NoBalance,
         \A f \in Flight : flight'[f] = flight[f] \/ Sound(flight[f])',
         LeaveExcusesAbsence'
  PROVE  TypeInv'
<1>1. TypeOK'
  BY DEF TypeOK
<1>2. \A l \in Leave : requests'[l] # NoRequest => balance' # NoBalance
  BY DEF TypeInv
<1>3. ASSUME NEW f \in Flight, flight'[f] = flight[f]
      PROVE  Sound(flight[f])'
  <2>1. Sound(flight[f]) /\ TypeOK
    BY DEF TypeInv
  <2>2. flight[f].pc \in {"cancel"} \cup Reviewing => flight[f].request \in Leave
    BY <2>1, Kinds
  <2>3. QED
    BY <1>3, <2>1, <2>2 DEF Sound
<1>4. QED
  BY <1>1, <1>2, <1>3 DEF TypeInv

\* A step of a request that writes nothing.
LEMMA TypeQuiet ==
  ASSUME TypeInv, NEW f \in Flight, NEW s \in {Idle} \cup Flights, Continue(f, s), Sound(s),
         UNCHANGED <<requests, balance, sheet, allocations, period>>
  PROVE  TypeInv'
<1>1. TypeOK
  BY DEF TypeInv
<1>2. /\ flight' \in [Flight -> {Idle} \cup Flights]
      /\ \A g \in Flight : flight'[g] = flight[g] \/ flight'[g] = s
  BY <1>1, Moved
<1>3. \A g \in Flight : flight'[g] = flight[g] \/ Sound(flight[g])'
  BY <1>2 DEF Sound
<1>4. LeaveExcusesAbsence'
  BY DEF TypeInv, LeaveExcusesAbsence
<1>5. QED
  BY <1>1, <1>2, <1>3, <1>4, TypeStep DEF TypeOK

\* The types hold at first.
LEMMA TypeInit == Init => TypeInv
<1> SUFFICES ASSUME Init PROVE TypeInv
  OBVIOUS
<1>1. NoSheet \in Sheet
  BY DEF NoSheet, Sheet
<1>2. TypeOK
  BY <1>1 DEF Init, TypeOK
<1>3. \A f \in Flight : Sound(flight[f])
  BY IdlePc DEF Init, Sound, Reviewing
<1>4. LeaveExcusesAbsence
  BY DEF Init, LeaveExcusesAbsence, NoSheet
<1>5. QED
  BY <1>2, <1>3, <1>4 DEF TypeInv, Init

\* An idle process relies on nothing.
LEMMA IdleStep == Idle \in {Idle} \cup Flights /\ Sound(Idle)
BY IdlePc DEF Sound, Reviewing

\* The actions that read, stop or check, and write no table.
LEMMA QuietActions ==
  ASSUME TypeInv, NEW f \in Flight,
         \/ CreateRead(f) \/ ApprovePlan(f) \/ ApproveDays(f) \/ LockChecks(f) \/ Stop(f)
         \/ \E l \in Leave : CancelRead(f, l) \/ \E pc \in {"plan", "reject"} : ReviewRead(f, l, pc)
         \/ \E d \in Day : ClockRead(f, d)
  PROVE  TypeInv'
<1>1. TypeOK /\ Sound(flight[f])
  BY DEF TypeInv
<1>2. CASE CreateRead(f)
  <2>1. PICK first \in Day, last \in Day, minutes \in 1..MaxMinutes :
          Continue(f, [pc |-> "create", first |-> first, last |-> last, minutes |-> minutes])
    BY <1>2 DEF CreateRead
  <2> DEFINE s == [pc |-> "create", first |-> first, last |-> last, minutes |-> minutes]
  <2>2. s \in {Idle} \cup Flights /\ Sound(s)
    BY DEF Flights, Sound, Reviewing
  <2> HIDE DEF s
  <2>3. QED
    BY <1>2, <2>1, <2>2, TypeQuiet DEF CreateRead, s
<1>3. CASE ApprovePlan(f)
  <2> DEFINE s == [flight[f] EXCEPT !.pc = "read days"]
  <2>1. flight[f].pc = "plan"
    BY <1>3 DEF ApprovePlan
  <2>2. flight[f] \in [pc : {"cancel", "plan", "read days"}, request : Leave]
    BY <1>1, <2>1, Kinds
  <2>3. s \in {Idle} \cup Flights
    BY <2>2 DEF Flights
  <2>4. Sound(s)
    BY <1>1, <2>1, <2>2 DEF Sound, Reviewing
  <2>5. Continue(f, s) \/ Continue(f, Idle)
    BY <1>3 DEF ApprovePlan, Finish
  <2> HIDE DEF s
  <2>6. QED
    BY <1>3, <2>3, <2>4, <2>5, IdleStep, TypeQuiet DEF ApprovePlan
<1>4. CASE ApproveDays(f)
  <2> DEFINE s == [pc |-> "approve", request |-> flight[f].request, seen |-> sheet]
  <2>1. flight[f].pc = "read days"
    BY <1>4 DEF ApproveDays
  <2>2. flight[f].request \in Leave /\ requests[flight[f].request] # NoRequest
    BY <1>1, <2>1, Kinds DEF Sound, Reviewing
  <2>3. s \in {Idle} \cup Flights
    BY <1>1, <2>2 DEF Flights, TypeOK
  <2>4. Sound(s)
    BY <2>2 DEF Sound
  <2> HIDE DEF s
  <2>5. QED
    BY <1>4, <2>3, <2>4, TypeQuiet DEF ApproveDays, s
<1>5. CASE LockChecks(f)
  <2> DEFINE s == [pc |-> "lock"]
  <2>1. s \in {Idle} \cup Flights /\ Sound(s)
    BY DEF Flights, Sound, Reviewing
  <2> HIDE DEF s
  <2>2. QED
    BY <1>5, <2>1, TypeQuiet DEF LockChecks, s
<1>6. CASE Stop(f)
  BY <1>6, IdleStep, TypeQuiet DEF Stop, Finish
<1>7. ASSUME NEW l \in Leave, CancelRead(f, l)
      PROVE  TypeInv'
  <2> DEFINE s == [pc |-> "cancel", request |-> l]
  <2>1. requests[l] # NoRequest
    BY <1>1, <1>7, RequestRow DEF CancelRead
  <2>2. s \in {Idle} \cup Flights /\ Sound(s)
    BY <2>1 DEF Flights, Sound
  <2> HIDE DEF s
  <2>3. QED
    BY <1>7, <2>2, TypeQuiet DEF CancelRead, s
<1>8. ASSUME NEW l \in Leave, NEW pc \in {"plan", "reject"}, ReviewRead(f, l, pc)
      PROVE  TypeInv'
  <2> DEFINE s == [pc |-> pc, request |-> l]
  <2>1. requests[l] # NoRequest
    BY <1>1, <1>8, RequestRow DEF ReviewRead
  <2>2. s \in {Idle} \cup Flights /\ Sound(s)
    BY <2>1 DEF Flights, Sound
  <2> HIDE DEF s
  <2>3. QED
    BY <1>8, <2>2, TypeQuiet DEF ReviewRead, s
<1>9. ASSUME NEW d \in Day, ClockRead(f, d)
      PROVE  TypeInv'
  <2>1. PICK state \in {"OPEN", "COMPLETE", "EXCEPTION"} :
          Continue(f, [pc |-> "clock", day |-> d, row |->
            [state |-> state, worked |-> IF state = "OPEN" THEN 0 ELSE 1, leave |-> 0,
             codes |-> IF state = "EXCEPTION" THEN {"LATE_ARRIVAL"} ELSE {}]])
    BY <1>9 DEF ClockRead
  <2> DEFINE r == [state |-> state, worked |-> IF state = "OPEN" THEN 0 ELSE 1, leave |-> 0,
                   codes |-> IF state = "EXCEPTION" THEN {"LATE_ARRIVAL"} ELSE {}]
             s == [pc |-> "clock", day |-> d, row |-> r]
  <2>2. r \in Sheet /\ "ABSENT" \notin r.codes
    BY DEF Sheet, Code
  <2> HIDE DEF r
  <2>3. s \in {Idle} \cup Flights /\ Sound(s)
    BY <2>2 DEF Flights, Sound, Reviewing
  <2> HIDE DEF s
  <2>4. QED
    BY <1>9, <2>1, <2>3, TypeQuiet DEF ClockRead, s, r
<1>10. QED
  BY <1>2, <1>3, <1>4, <1>5, <1>6, <1>7, <1>8, <1>9

\* A balance that is there is a row of numbers.
LEMMA BalanceRow ==
  ASSUME TypeOK, balance # NoBalance
  PROVE  /\ balance \in Balance
         /\ balance.used \in Nat /\ balance.pending \in Int /\ balance.entitled \in Int
         /\ \A b \in Balance : b # NoBalance
BY LeaveRequestsAssumption DEF TypeOK, Balance, NoBalance

\* The balance that the upsert leaves is a row.
LEMMA UpsertedRow ==
  ASSUME TypeOK
  PROVE  UpsertedBalance \in Balance /\ UpsertedBalance # NoBalance
<1>1. CASE balance = NoBalance
  BY <1>1, LeaveRequestsAssumption DEF UpsertedBalance, Balance, NoBalance
<1>2. CASE balance # NoBalance
  BY <1>2, BalanceRow DEF UpsertedBalance
<1>3. QED
  BY <1>1, <1>2

\* Releasing the minutes of a request, and using them, leaves a row.
LEMMA ReleasedRow ==
  ASSUME TypeInv, NEW l \in Leave, requests[l] # NoRequest
  PROVE  /\ Released(l) \in Balance /\ Used(l) \in Balance
         /\ Released(l) # NoBalance /\ Used(l) # NoBalance
         /\ Released(l) = [balance EXCEPT !.pending = balance.pending - requests[l].minutes]
         /\ Released(l).used = balance.used
         /\ Released(l).pending = balance.pending - requests[l].minutes
         /\ Used(l).used = balance.used + requests[l].minutes
         /\ Used(l).pending = balance.pending - requests[l].minutes
<1>1. TypeOK /\ balance # NoBalance
  BY DEF TypeInv
<1>2. balance \in Balance /\ requests[l].minutes \in Nat /\ \A b \in Balance : b # NoBalance
  BY <1>1, BalanceRow, RequestRow
<1>3. Released(l) \in Balance /\ Released(l) = [balance EXCEPT !.pending = balance.pending - requests[l].minutes]
  BY <1>2 DEF Released, Balance
<1>4. Used(l) = [Released(l) EXCEPT !.used = Released(l).used + requests[l].minutes]
  BY DEF Used
<1>5. Used(l) \in Balance
  <2> DEFINE b == Released(l)
             used == b.used + requests[l].minutes
  <2>1. b \in Balance /\ Used(l) = [b EXCEPT !.used = used]
    BY <1>3, <1>4
  <2>2. used \in Nat
    BY <1>2, <2>1 DEF Balance
  <2> HIDE DEF b, used
  <2>3. QED
    BY <2>1, <2>2 DEF Balance
<1>6. QED
  BY <1>2, <1>3, <1>4, <1>5 DEF Balance

\* A decision leaves every row a row: claimed by its status, or set outright.
LEMMA ClaimedRows ==
  ASSUME TypeOK, NEW l \in Leave, NEW decision \in {"APPROVED", "REJECTED", "CANCELLED"}, requests[l] # NoRequest
  PROVE  /\ Claimed(l, decision) \in [Leave -> Request \cup {NoRequest}]
         /\ [requests EXCEPT ![l].status = decision] \in [Leave -> Request \cup {NoRequest}]
         /\ \A m \in Leave : Claimed(l, decision)[m] # NoRequest <=> requests[m] # NoRequest
         /\ \A m \in Leave : [requests EXCEPT ![l].status = decision][m] # NoRequest <=> requests[m] # NoRequest
<1>1. requests \in [Leave -> Rows]
  BY RequestRow
<1>2. PICK decided : decided = [requests EXCEPT ![l].status = decision]
  OBVIOUS
<1>3. decided \in [Leave -> Rows] /\ \A m \in Leave : decided[m] = NoRequest <=> requests[m] = NoRequest
  BY <1>1, <1>2, RowDecided
<1>4. Claimed(l, decision) = decided \/ Claimed(l, decision) = requests
  BY <1>2 DEF Claimed
<1>5. QED
  BY <1>1, <1>2, <1>3, <1>4 DEF Rows

\* Creating the balance row keeps the types.
LEMMA TypeCreateBalance ==
  ASSUME TypeInv, NEW f \in Flight, CreateBalance(f)
  PROVE  TypeInv'
<1>1. TypeOK /\ flight[f].pc = "create"
  BY DEF TypeInv, CreateBalance
<1>2. balance' \in Balance /\ balance' # NoBalance
  BY <1>1, UpsertedRow DEF CreateBalance
<1> DEFINE s == [flight[f] EXCEPT !.pc = "reserve"]
<1>3. flight[f] \in [pc : {"create", "reserve"}, first : Day, last : Day, minutes : 1..MaxMinutes]
  BY <1>1, Kinds
<1>4. s \in [pc : {"create", "reserve"}, first : Day, last : Day, minutes : 1..MaxMinutes] /\ s.pc = "reserve"
  BY <1>3
<1>5. s \in {Idle} \cup Flights
  BY <1>4 DEF Flights
<1>6. Continue(f, s) \/ Continue(f, Idle)
  BY DEF CreateBalance, Finish
<1> HIDE DEF s
<1>7. /\ flight' \in [Flight -> {Idle} \cup Flights]
      /\ \A g \in Flight : flight'[g] = flight[g] \/ flight'[g] = s \/ flight'[g] = Idle
  BY <1>1, <1>5, <1>6, IdleStep, Moved
<1>8. \A g \in Flight : flight'[g] = flight[g] \/ Sound(flight[g])'
  BY <1>2, <1>4, <1>7, IdlePc DEF Sound, Reviewing
<1>9. LeaveExcusesAbsence'
  BY DEF TypeInv, LeaveExcusesAbsence, CreateBalance
<1>10. QED
  BY <1>1, <1>2, <1>7, <1>8, <1>9, TypeStep DEF CreateBalance, TypeOK

\* The insert of a request and the reservation of its minutes.
LEMMA TypeCreateCommit ==
  ASSUME TypeInv, NEW f \in Flight, NEW l \in Leave, CreateCommit(f, l)
  PROVE  TypeInv'
<1>1. TypeOK /\ flight[f].pc = "reserve" /\ Sound(flight[f])
  BY DEF TypeInv, CreateCommit
<1>2. flight[f] \in [pc : {"create", "reserve"}, first : Day, last : Day, minutes : 1..MaxMinutes]
  BY <1>1, Kinds
<1>3. balance \in Balance /\ \A b \in Balance : b # NoBalance
  BY <1>1, BalanceRow DEF Sound
<1>4. balance' \in Balance /\ balance' # NoBalance
  BY <1>2, <1>3 DEF CreateCommit, Balance
<1> DEFINE row == [status |-> "PENDING", first |-> flight[f].first, last |-> flight[f].last, minutes |-> flight[f].minutes]
<1>5. row \in Request /\ row # NoRequest
  BY <1>2 DEF Request, NoRequest
<1>6. requests' = [requests EXCEPT ![l] = row]
  BY DEF CreateCommit
<1> HIDE DEF row
<1>7. row \in Rows /\ requests \in [Leave -> Rows]
  BY <1>1, <1>5 DEF TypeOK, Rows
<1>8. requests' \in [Leave -> Rows] /\ requests'[l] = row /\ \A m \in Leave : m # l => requests'[m] = requests[m]
  BY <1>6, <1>7
<1>9. /\ flight' \in [Flight -> {Idle} \cup Flights]
      /\ \A g \in Flight : flight'[g] = flight[g] \/ flight'[g] = Idle
  BY <1>1, Finished DEF CreateCommit
<1>10. \A g \in Flight : flight'[g] = flight[g] \/ Sound(flight[g])'
  BY <1>9, IdlePc DEF Sound, Reviewing
<1>11. LeaveExcusesAbsence'
  BY DEF TypeInv, LeaveExcusesAbsence, CreateCommit
<1>12. \A m \in Leave : requests[m] # NoRequest => requests'[m] # NoRequest
  BY <1>5, <1>8
<1>13. requests' \in [Leave -> Request \cup {NoRequest}]
  BY <1>8 DEF Rows
<1>14. UNCHANGED <<sheet, allocations, period>>
  BY DEF CreateCommit
<1>15. QED
  BY <1>1, <1>4, <1>9, <1>10, <1>11, <1>12, <1>13, <1>14, TypeStep DEF TypeOK

\* A cancellation and a rejection: the status of a row and the balance.
LEMMA TypeDecided ==
  ASSUME TypeInv, NEW f \in Flight, CancelCommit(f) \/ RejectCommit(f)
  PROVE  TypeInv'
<1> DEFINE l == flight[f].request
<1>1. TypeOK /\ Sound(flight[f]) /\ flight[f].pc \in {"cancel", "reject"}
  BY DEF TypeInv, CancelCommit, RejectCommit
<1>2. l \in Leave /\ requests[l] # NoRequest
  BY <1>1, Kinds DEF Sound, Reviewing
<1>3. /\ balance' = Released(l)
      /\ requests' = Claimed(l, "REJECTED") \/ requests' = [requests EXCEPT ![l].status = "CANCELLED"]
      /\ Finish(f) /\ UNCHANGED <<sheet, allocations, period>>
  BY DEF CancelCommit, RejectCommit
<1> HIDE DEF l
<1>4. balance' \in Balance /\ balance' # NoBalance
  BY <1>2, <1>3, ReleasedRow
<1>5. requests' \in [Leave -> Request \cup {NoRequest}] /\ \A m \in Leave : requests'[m] # NoRequest <=> requests[m] # NoRequest
  <2>1. CASE requests' = Claimed(l, "REJECTED")
    BY <1>1, <1>2, <2>1, ClaimedRows
  <2>2. CASE requests' = [requests EXCEPT ![l].status = "CANCELLED"]
    BY <1>1, <1>2, <2>2, ClaimedRows
  <2>3. QED
    BY <1>3, <2>1, <2>2
<1>6. /\ flight' \in [Flight -> {Idle} \cup Flights]
      /\ \A g \in Flight : flight'[g] = flight[g] \/ flight'[g] = Idle
  BY <1>1, <1>3, Finished
<1>7. \A g \in Flight : flight'[g] = flight[g] \/ Sound(flight[g])'
  BY <1>6, IdlePc DEF Sound, Reviewing
<1>8. LeaveExcusesAbsence'
  BY <1>3 DEF TypeInv, LeaveExcusesAbsence
<1>9. QED
  BY <1>1, <1>3, <1>4, <1>5, <1>6, <1>7, <1>8, TypeStep DEF TypeOK

\* The approval: request, balance, allocations and timesheets in one batch.
LEMMA TypeApprove ==
  ASSUME TypeInv, NEW f \in Flight, ApproveCommit(f)
  PROVE  TypeInv'
<1> DEFINE l == flight[f].request
           seen == flight[f].seen
<1>1. TypeOK /\ Sound(flight[f]) /\ flight[f].pc = "approve"
  BY DEF TypeInv, ApproveCommit
<1>2. l \in Leave /\ requests[l] # NoRequest /\ seen \in [Day -> Sheet] /\ requests[l] \in Request
  BY <1>1, Kinds, RequestRow DEF Sound, Reviewing
<1>3. /\ balance' = Used(l)
      /\ requests' = Claimed(l, "APPROVED")
      /\ sheet' = Allocated(l, seen)
      /\ allocations' = allocations \cup Allocations(l)
      /\ Finish(f) /\ period' = period
  BY DEF ApproveCommit
<1> HIDE DEF l, seen
<1>4. balance' \in Balance /\ balance' # NoBalance
  BY <1>2, <1>3, ReleasedRow
<1>5. requests' \in [Leave -> Request \cup {NoRequest}] /\ \A m \in Leave : requests'[m] # NoRequest <=> requests[m] # NoRequest
  BY <1>1, <1>2, <1>3, ClaimedRows
<1>6. /\ flight' \in [Flight -> {Idle} \cup Flights]
      /\ \A g \in Flight : flight'[g] = flight[g] \/ flight'[g] = Idle
  BY <1>1, <1>3, Finished
<1>7. \A g \in Flight : flight'[g] = flight[g] \/ Sound(flight[g])'
  BY <1>6, IdlePc DEF Sound, Reviewing
<1>8. sheet' \in [Day -> Sheet]
  BY <1>1, <1>2, <1>3, NewSheets
<1>9. allocations' \subseteq Allocation
  BY <1>1, <1>2, <1>3, NewRows DEF TypeOK
<1>10. LeaveExcusesAbsence'
  <2> SUFFICES ASSUME NEW d \in Day, sheet'[d].leave > 0 PROVE "ABSENT" \notin sheet'[d].codes
    BY DEF LeaveExcusesAbsence
  <2>1. CASE \E a \in Allocations(l) : a.day = d
    BY <1>1, <1>2, <1>3, <2>1, NewSheets
  <2>2. CASE ~ \E a \in Allocations(l) : a.day = d
    <3>1. sheet'[d] = sheet[d]
      BY <1>1, <1>2, <1>3, <2>2, NewSheets
    <3>2. QED
      BY <3>1 DEF TypeInv, LeaveExcusesAbsence
  <2>3. QED
    BY <2>1, <2>2
<1>11. QED
  BY <1>1, <1>3, <1>4, <1>5, <1>6, <1>7, <1>8, <1>9, <1>10, TypeStep DEF TypeOK

\* The administrator's entitlement.
LEMMA TypeSetBalance ==
  ASSUME TypeInv, NEW minutes \in Entitlement, SetBalance(minutes)
  PROVE  TypeInv'
<1>1. TypeOK
  BY DEF TypeInv
<1>2. balance.used \in Nat /\ balance.pending \in Int
  BY <1>1 DEF TypeOK, Balance, NoBalance
<1>3. balance' \in Balance /\ balance' # NoBalance
  BY <1>2, LeaveRequestsAssumption DEF SetBalance, Balance, NoBalance
<1>4. LeaveExcusesAbsence'
  BY DEF TypeInv, LeaveExcusesAbsence, SetBalance
<1>5. QED
  BY <1>1, <1>3, <1>4, TypeStep DEF SetBalance, TypeOK

\* The other writers of the timesheets: a clock action, the cron job, the lock.
LEMMA TypeSheets ==
  ASSUME TypeInv, UNCHANGED <<requests, balance, allocations>>,
         sheet' \in [Day -> Sheet], LeaveExcusesAbsence', period' \in {"OPEN", "LOCKED"},
         flight' = flight \/ \E f \in Flight : Finish(f)
  PROVE  TypeInv'
<1>1. TypeOK
  BY DEF TypeInv
<1>2. /\ flight' \in [Flight -> {Idle} \cup Flights]
      /\ \A g \in Flight : flight'[g] = flight[g] \/ flight'[g] = Idle
  BY <1>1, Finished DEF TypeOK
<1>3. \A g \in Flight : flight'[g] = flight[g] \/ Sound(flight[g])'
  BY <1>2, IdlePc DEF Sound, Reviewing
<1>4. QED
  BY <1>1, <1>2, <1>3, TypeStep DEF TypeOK

\* A clock action writes the row that it computed; an absence is not among its codes.
LEMMA TypeClockCommit ==
  ASSUME TypeInv, NEW f \in Flight, ClockCommit(f)
  PROVE  TypeInv' /\ \A d \in Day : sheet'[d].leave = sheet[d].leave
<1> DEFINE d == flight[f].day
           row == [flight[f].row EXCEPT !.leave = sheet[d].leave]
<1>1. TypeOK /\ Sound(flight[f]) /\ flight[f].pc = "clock"
  BY DEF TypeInv, ClockCommit
<1>2. d \in Day /\ flight[f].row \in Sheet /\ "ABSENT" \notin flight[f].row.codes /\ sheet \in [Day -> Sheet]
  BY <1>1, Kinds DEF Sound, TypeOK
<1>3. sheet' = [sheet EXCEPT ![d] = row]
  BY DEF ClockCommit
<1>4. row \in Sheet /\ row.leave = sheet[d].leave /\ "ABSENT" \notin row.codes
  <2>1. sheet[d] \in Sheet
    BY <1>2
  <2>2. sheet[d].leave \in Nat
    BY <2>1 DEF Sheet
  <2>3. QED
    BY <1>2, <2>2 DEF Sheet
<1> HIDE DEF d, row
<1>5. sheet' \in [Day -> Sheet] /\ sheet'[d] = row /\ \A e \in Day : e # d => sheet'[e] = sheet[e]
  BY <1>2, <1>3, <1>4
<1>6. LeaveExcusesAbsence'
  BY <1>4, <1>5 DEF TypeInv, LeaveExcusesAbsence
<1>7. QED
  BY <1>1, <1>4, <1>5, <1>6, TypeSheets DEF ClockCommit, TypeOK

\* The cron job marks a day absent only when no leave is on it.
LEMMA TypeMarkAbsent ==
  ASSUME TypeInv, NEW d \in Day, MarkAbsent(d)
  PROVE  TypeInv' /\ \A e \in Day : sheet'[e].leave = sheet[e].leave
<1> DEFINE row == [state |-> "EXCEPTION", codes |-> {"ABSENT"}, worked |-> 0, leave |-> 0]
<1>1. TypeOK
  BY DEF TypeInv
<1>2. row \in Sheet /\ row.leave = 0 /\ sheet[d].leave = 0
  BY DEF MarkAbsent, NoSheet, Sheet, Code
<1>3. sheet' = [sheet EXCEPT ![d] = row]
  BY DEF MarkAbsent
<1> HIDE DEF row
<1>4. sheet' \in [Day -> Sheet] /\ sheet'[d] = row /\ \A e \in Day : e # d => sheet'[e] = sheet[e]
  BY <1>1, <1>2, <1>3 DEF TypeOK
<1>5. LeaveExcusesAbsence'
  BY <1>2, <1>4 DEF TypeInv, LeaveExcusesAbsence
<1>6. QED
  BY <1>1, <1>2, <1>4, <1>5, TypeSheets DEF MarkAbsent, TypeOK

\* The lock changes the state of the days, and neither leave nor codes.
LEMMA TypeLock ==
  ASSUME TypeInv, NEW f \in Flight, Lock(f)
  PROVE  TypeInv' /\ \A d \in Day : sheet'[d].leave = sheet[d].leave
<1>1. TypeOK /\ sheet \in [Day -> Sheet]
  BY DEF TypeInv, TypeOK
<1>2. ASSUME NEW d \in Day
      PROVE  sheet'[d] \in Sheet /\ sheet'[d].leave = sheet[d].leave /\ sheet'[d].codes = sheet[d].codes
  <2>1. sheet[d] \in Sheet
    BY <1>1
  <2>2. sheet'[d] = sheet[d] \/ sheet'[d] = [sheet[d] EXCEPT !.state = "LOCKED"]
    BY DEF Lock
  <2>3. QED
    BY <2>1, <2>2 DEF Sheet
<1>3. sheet' = [d \in Day |-> sheet'[d]]
  BY DEF Lock
<1>4. sheet' \in [Day -> Sheet]
  BY <1>2, <1>3
<1>5. LeaveExcusesAbsence'
  BY <1>2 DEF TypeInv, LeaveExcusesAbsence
<1>6. QED
  BY <1>1, <1>2, <1>4, <1>5, TypeSheets DEF Lock

\* Every step keeps the types.
LEMMA TypeNext == TypeInv /\ [Next]_vars => TypeInv'
<1> SUFFICES ASSUME TypeInv, [Next]_vars PROVE TypeInv'
  OBVIOUS
<1>1. CASE UNCHANGED vars
  <2>1. TypeOK' /\ LeaveExcusesAbsence'
    BY <1>1 DEF TypeInv, TypeOK, LeaveExcusesAbsence, vars
  <2>2. \A f \in Flight : Sound(flight[f])'
    BY <1>1 DEF TypeInv, Sound, vars
  <2>3. QED
    BY <1>1, <2>1, <2>2 DEF TypeInv, vars
<1>2. ASSUME NEW f \in Flight,
             \/ CreateRead(f) \/ ApprovePlan(f) \/ ApproveDays(f) \/ LockChecks(f) \/ Stop(f)
             \/ \E l \in Leave : CancelRead(f, l) \/ \E pc \in {"plan", "reject"} : ReviewRead(f, l, pc)
             \/ \E d \in Day : ClockRead(f, d)
      PROVE  TypeInv'
  BY <1>2, QuietActions
<1>3. ASSUME NEW f \in Flight, CreateBalance(f) PROVE TypeInv'
  BY <1>3, TypeCreateBalance
<1>4. ASSUME NEW f \in Flight, NEW l \in Leave, CreateCommit(f, l) PROVE TypeInv'
  BY <1>4, TypeCreateCommit
<1>5. ASSUME NEW f \in Flight, CancelCommit(f) \/ RejectCommit(f) PROVE TypeInv'
  BY <1>5, TypeDecided
<1>6. ASSUME NEW f \in Flight, ApproveCommit(f) PROVE TypeInv'
  BY <1>6, TypeApprove
<1>7. ASSUME NEW f \in Flight, ClockCommit(f) PROVE TypeInv'
  BY <1>7, TypeClockCommit
<1>8. ASSUME NEW f \in Flight, Lock(f) PROVE TypeInv'
  BY <1>8, TypeLock
<1>9. ASSUME NEW minutes \in Entitlement, SetBalance(minutes) PROVE TypeInv'
  BY <1>9, TypeSetBalance
<1>10. ASSUME NEW d \in Day, MarkAbsent(d) PROVE TypeInv'
  BY <1>10, TypeMarkAbsent
<1>11. QED
  BY <1>1, <1>2, <1>3, <1>4, <1>5, <1>6, <1>7, <1>8, <1>9, <1>10 DEF Next

\* The types, and approved leave against absence, for every behaviour.
LEMMA TypeInvariant == Spec => []TypeInv
BY TypeInit, TypeNext, PTL DEF Spec

-----------------------------------------------------------------------------
(* One request at a time: the coordinator serializes.                      *)

\* At most one request of the coordinator "global" is in flight.
OneAtATime ==
  \A f, g \in Flight : flight[f].pc \notin {"idle", "clock"} /\ flight[g].pc \notin {"idle", "clock"} => f = g

\* What the step s of such a request has checked is still so when it writes.
Current(s) ==
  /\ s.pc \in {"create", "reserve"} => NoOverlap(s)
  /\ s.pc = "reserve" => Available(balance) >= s.minutes
  /\ s.pc \in {"cancel"} \cup Reviewing => requests[s.request].status = "PENDING"
  /\ s.pc \in {"read days", "approve"} =>
       /\ OutsideLockedPeriod(requests[s.request])
       /\ HasRoom(Scheduled, DaysOf(requests[s.request]), requests[s.request].minutes)
  /\ s.pc = "approve" => \A d \in Day : s.seen[d].leave = sheet[d].leave
  /\ s.pc = "lock" => \A l \in With("PENDING") : requests[l].first > PeriodEnd

\* The balance, the allocations and the timesheets tell of the same minutes.
BooksInv == Books(requests, balance, sheet, allocations)

\* What the books say of the records.
LEMMA BooksAgree == BooksInv => BalanceMatchesRequests /\ NoDayTwice /\ LeaveIsOnTheSheets
<1> SUFFICES ASSUME BooksInv PROVE BalanceMatchesRequests /\ NoDayTwice /\ LeaveIsOnTheSheets
  OBVIOUS
<1>1. \A status : With(status) = {l \in Leave : requests[l].status = status}
  BY DEF With
<1>2. \A status : MinutesOf(With(status)) = MinutesIn(requests, status)
  BY <1>1 DEF MinutesOf, MinutesIn
<1>3. \A l \in Active : l \in Leave /\ IsActive(requests[l])
  BY <1>1 DEF Active, IsActive
<1>4. BalanceMatchesRequests
  BY <1>2 DEF BooksInv, Books, BalanceMatchesRequests
<1>5. NoDayTwice
  BY <1>3 DEF BooksInv, Books, NoDayTwice
<1>6. LeaveIsOnTheSheets
  BY <1>1 DEF BooksInv, Books, LeaveIsOnTheSheets
<1>7. QED
  BY <1>4, <1>5, <1>6

\* What a step has checked stays so while nobody writes the rows that it read.
LEMMA CurrentStays ==
  ASSUME TypeOK, NEW f \in Flight, Current(flight[f]), flight'[f] = flight[f],
         UNCHANGED <<requests, balance, period>>, \A d \in Day : sheet'[d].leave = sheet[d].leave
  PROVE  Current(flight[f])'
BY DEF Current, NoOverlap, Active, With, Overlap, Available, OutsideLockedPeriod, DaysOf

\* A clock action and an idle process have checked nothing.
LEMMA QuietStep ==
  ASSUME NEW s, s.pc \in {"idle", "clock"}
  PROVE  Current(s)
BY DEF Current, Reviewing

\* A request of the coordinator "global" takes the step s: no other one is in flight.
LEMMA SerialStep ==
  ASSUME TypeOK, OneAtATime, NEW f \in Flight, NEW s \in {Idle} \cup Flights, Continue(f, s),
         \A g \in Flight : g # f => flight[g].pc \in {"idle", "clock"}, Current(flight[f])'
  PROVE  OneAtATime' /\ \A g \in Flight : Current(flight[g])'
<1>1. \A g \in Flight : g # f => flight'[g] = flight[g]
  BY Moved
<1>2. \A g \in Flight : g # f => flight'[g].pc \in {"idle", "clock"}
  BY <1>1
<1>3. OneAtATime'
  BY <1>2 DEF OneAtATime
<1>4. \A g \in Flight : g # f => Current(flight[g])'
  BY <1>2 DEF Current, Reviewing
<1>5. QED
  BY <1>3, <1>4

\* The others are idle or clock actions, whether a request starts or goes on.
LEMMA Alone ==
  ASSUME TypeOK, CoordinatorSerializes, OneAtATime, NEW f \in Flight,
         (\E pc \in {"create", "cancel", "plan", "reject", "lock"} : Deliver(f, pc)) \/ flight[f].pc \notin {"idle", "clock"}
  PROVE  \A g \in Flight : g # f => flight[g].pc \in {"idle", "clock"}
<1>1. CASE \E pc \in {"create", "cancel", "plan", "reject", "lock"} : Deliver(f, pc)
  <2>1. PICK pc \in {"create", "cancel", "plan", "reject", "lock"} : Deliver(f, pc)
    BY <1>1
  <2>2. Coordinator(pc) = "global"
    BY <2>1 DEF Coordinator
  <2>3. \A g \in Flight : flight[g] # Idle => Coordinator(flight[g].pc) # "global"
    BY <2>1, <2>2 DEF Deliver
  <2>4. \A g \in Flight : flight[g] # Idle => flight[g].pc = "clock"
    BY <2>3 DEF Coordinator
  <2>5. QED
    BY <2>4, IdlePc
<1>2. CASE flight[f].pc \notin {"idle", "clock"}
  BY <1>2 DEF OneAtATime
<1>3. QED
  BY <1>1, <1>2

\* Steps that leave the requests, the balance, the allocations and the leave on the
\* timesheets alone.
LEMMA BooksStay ==
  ASSUME BooksInv, UNCHANGED <<requests, balance, allocations>>, \A d \in Day : sheet'[d].leave = sheet[d].leave
  PROVE  BooksInv'
BY BooksSame DEF BooksInv

\* The requests of the coordinator "global" one at a time, with checks that still hold.
Serial == OneAtATime /\ \A f \in Flight : Current(flight[f])

\* A step of a clock action, of the cron job or of the lock's last one may leave the others alone.
LEMMA OthersStay ==
  ASSUME TypeOK, Serial, UNCHANGED <<requests, balance, period>>, \A d \in Day : sheet'[d].leave = sheet[d].leave,
         \A g \in Flight : flight'[g] = flight[g] \/ flight'[g].pc \in {"idle", "clock"}
  PROVE  Serial'
<1>1. ASSUME NEW g \in Flight PROVE Current(flight[g])'
  <2>1. CASE flight'[g] = flight[g]
    BY <2>1, CurrentStays DEF Serial
  <2>2. CASE flight'[g].pc \in {"idle", "clock"}
    BY <2>2 DEF Current, Reviewing
  <2>3. QED
    BY <2>1, <2>2
<1>2. OneAtATime'
  BY DEF OneAtATime, Serial
<1>3. QED
  BY <1>1, <1>2 DEF Serial

\* Requests that start or go on without writing.
LEMMA SerialReads ==
  ASSUME CoordinatorSerializes, TypeInv, Serial, NEW f \in Flight,
         \/ CreateRead(f) \/ ApprovePlan(f) \/ ApproveDays(f) \/ LockChecks(f)
         \/ \E l \in Leave : CancelRead(f, l) \/ \E pc \in {"plan", "reject"} : ReviewRead(f, l, pc)
  PROVE  Serial'
<1>1. TypeOK /\ OneAtATime /\ Current(flight[f])
  BY DEF TypeInv, Serial
<1>2. UNCHANGED <<requests, balance, sheet, allocations, period>>
  BY DEF CreateRead, ApprovePlan, ApproveDays, LockChecks, CancelRead, ReviewRead
<1>3. \A g \in Flight : g # f => flight[g].pc \in {"idle", "clock"}
  <2>1. (\E pc \in {"create", "cancel", "plan", "reject", "lock"} : Deliver(f, pc)) \/ flight[f].pc \notin {"idle", "clock"}
    BY DEF CreateRead, ApprovePlan, ApproveDays, LockChecks, CancelRead, ReviewRead
  <2>2. QED
    BY <1>1, <2>1, Alone
<1>4. ASSUME NEW s, s \in {Idle} \cup Flights, Continue(f, s), Current(s) PROVE Serial'
  <2>1. flight'[f] = s
    BY <1>1, <1>4, Moved
  <2>2. Current(flight[f])'
    BY <1>2, <1>4, <2>1
    DEF Current, NoOverlap, Active, With, Overlap, Available, OutsideLockedPeriod, DaysOf
  <2>3. QED
    BY <1>1, <1>3, <1>4, <2>2, SerialStep DEF Serial
<1>5. CASE CreateRead(f)
  <2>1. PICK first \in Day, last \in Day, minutes \in 1..MaxMinutes :
          LET r == [pc |-> "create", first |-> first, last |-> last, minutes |-> minutes]
          IN NoOverlap(r) /\ Continue(f, r)
    BY <1>5 DEF CreateRead
  <2> DEFINE s == [pc |-> "create", first |-> first, last |-> last, minutes |-> minutes]
  <2>2. s \in {Idle} \cup Flights /\ s.pc = "create"
    BY DEF Flights
  <2>3. Continue(f, s) /\ NoOverlap(s)
    BY <2>1
  <2> HIDE DEF s
  <2>4. QED
    BY <1>4, <2>2, <2>3 DEF Current, Reviewing
<1>6. CASE ApprovePlan(f)
  <2> DEFINE s == [flight[f] EXCEPT !.pc = "read days"]
             r == requests[flight[f].request]
  <2>1. flight[f].pc = "plan"
    BY <1>6 DEF ApprovePlan
  <2>2. flight[f] \in [pc : {"cancel", "plan", "read days"}, request : Leave]
    BY <1>1, <2>1, Kinds
  <2>3. s \in {Idle} \cup Flights /\ s.pc = "read days" /\ s.request = flight[f].request
    BY <2>2 DEF Flights
  <2>4. \/ Continue(f, s) /\ OutsideLockedPeriod(r) /\ HasRoom(Scheduled, DaysOf(r), r.minutes)
        \/ Continue(f, Idle)
    BY <1>6 DEF ApprovePlan, Finish
  <2>5. r.status = "PENDING"
    BY <1>1, <2>1 DEF Current, Reviewing
  <2> HIDE DEF s
  <2>6. CASE Continue(f, s) /\ OutsideLockedPeriod(r) /\ HasRoom(Scheduled, DaysOf(r), r.minutes)
    <3>1. Current(s)
      BY <2>3, <2>5, <2>6 DEF Current
    <3>2. QED
      BY <1>4, <2>3, <2>6, <3>1
  <2>7. CASE Continue(f, Idle)
    BY <1>4, <2>7, IdlePc, QuietStep
  <2>8. QED
    BY <2>4, <2>6, <2>7
<1>7. CASE ApproveDays(f)
  <2> DEFINE s == [pc |-> "approve", request |-> flight[f].request, seen |-> sheet]
  <2>1. flight[f].pc = "read days"
    BY <1>7 DEF ApproveDays
  <2>2. flight[f].request \in Leave
    BY <1>1, <2>1, Kinds DEF Reviewing
  <2>3. s \in {Idle} \cup Flights
    BY <1>1, <2>2 DEF Flights, TypeOK
  <2>4. Continue(f, s)
    BY <1>7 DEF ApproveDays
  <2>5. s.pc = "approve" /\ s.request = flight[f].request /\ s.seen = sheet
    OBVIOUS
  <2> HIDE DEF s
  <2>6. Current(s)
    BY <1>1, <2>1, <2>5 DEF Current, Reviewing
  <2>7. QED
    BY <1>4, <2>3, <2>4, <2>6
<1>8. CASE LockChecks(f)
  <2> DEFINE s == [pc |-> "lock"]
  <2>1. s \in {Idle} \cup Flights /\ s.pc = "lock"
    BY DEF Flights
  <2>2. Continue(f, s) /\ \A l \in With("PENDING") : requests[l].first > PeriodEnd
    BY <1>8 DEF LockChecks, NothingUnresolved
  <2> HIDE DEF s
  <2>3. QED
    BY <1>4, <2>1, <2>2 DEF Current, Reviewing
<1>9. ASSUME NEW l \in Leave, NEW pc \in {"cancel", "plan", "reject"},
             Continue(f, [pc |-> pc, request |-> l]), requests[l].status = "PENDING"
      PROVE  Serial'
  <2> DEFINE s == [pc |-> pc, request |-> l]
  <2>1. s \in {Idle} \cup Flights /\ s.pc = pc /\ s.request = l
    BY DEF Flights
  <2>2. Continue(f, s)
    BY <1>9
  <2> HIDE DEF s
  <2>3. Current(s)
    BY <1>9, <2>1 DEF Current
  <2>4. QED
    BY <1>4, <2>1, <2>2, <2>3
<1>10. ASSUME NEW l \in Leave, CancelRead(f, l) PROVE Serial'
  BY <1>9, <1>10 DEF CancelRead
<1>11. ASSUME NEW l \in Leave, NEW pc \in {"plan", "reject"}, ReviewRead(f, l, pc) PROVE Serial'
  BY <1>9, <1>11 DEF ReviewRead
<1>12. QED
  BY <1>5, <1>6, <1>7, <1>8, <1>10, <1>11

\* A request that ends leaves no other one of its coordinator in flight.
LEMMA SerialFinish ==
  ASSUME CoordinatorSerializes, TypeInv, Serial, NEW f \in Flight, Finish(f), flight[f].pc \notin {"idle", "clock"}
  PROVE  Serial'
<1>1. TypeOK /\ OneAtATime
  BY DEF TypeInv, Serial
<1>2. \A g \in Flight : g # f => flight[g].pc \in {"idle", "clock"}
  BY <1>1, Alone
<1>3. flight'[f] = Idle
  BY <1>1, Finished
<1>4. Current(flight[f])'
  BY <1>3, IdlePc DEF Current, Reviewing
<1>5. QED
  BY <1>1, <1>2, <1>4, SerialStep, IdleStep DEF Serial, Finish

\* The balance row is created before the request that needs it.
LEMMA SerialCreateBalance ==
  ASSUME CoordinatorSerializes, TypeInv, Serial, BooksInv, NEW f \in Flight, CreateBalance(f)
  PROVE  Serial' /\ BooksInv'
<1>1. TypeOK /\ OneAtATime /\ Current(flight[f]) /\ flight[f].pc = "create"
  BY DEF TypeInv, Serial, CreateBalance
<1>2. \A g \in Flight : g # f => flight[g].pc \in {"idle", "clock"}
  BY <1>1, Alone
<1> DEFINE s == [flight[f] EXCEPT !.pc = "reserve"]
<1>3. flight[f] \in [pc : {"create", "reserve"}, first : Day, last : Day, minutes : 1..MaxMinutes]
  BY <1>1, Kinds
<1>4. /\ s \in [pc : {"create", "reserve"}, first : Day, last : Day, minutes : 1..MaxMinutes] /\ s.pc = "reserve"
      /\ s.first = flight[f].first /\ s.last = flight[f].last /\ s.minutes = flight[f].minutes
  BY <1>3
<1>5. s \in {Idle} \cup Flights
  BY <1>4 DEF Flights
<1>6. (Continue(f, s) /\ Available(balance') >= s.minutes) \/ Finish(f)
  BY <1>4 DEF CreateBalance
<1> HIDE DEF s
<1>7. ASSUME Continue(f, s), Available(balance') >= s.minutes PROVE Serial'
  <2>1. flight'[f] = s
    BY <1>1, <1>5, <1>7, Moved
  <2>2. NoOverlap(flight[f]) /\ requests' = requests
    BY <1>1 DEF Current, CreateBalance
  <2>3. NoOverlap(flight[f])'
    BY <1>4, <2>1, <2>2 DEF NoOverlap, Active, With, Overlap
  <2>4. flight'[f].pc = "reserve" /\ (Available(balance) >= flight[f].minutes)'
    BY <1>4, <1>7, <2>1 DEF Available
  <2>5. Current(flight[f])'
    BY <2>3, <2>4 DEF Current, Reviewing
  <2>6. QED
    BY <1>1, <1>2, <1>5, <1>7, <2>5, SerialStep DEF Serial
<1>8. ASSUME Finish(f) PROVE Serial'
  BY <1>1, <1>8, SerialFinish
<1>9. balance'.pending = balance.pending /\ balance'.used = balance.used
  BY DEF CreateBalance, UpsertedBalance, NoBalance
<1>10. BooksInv'
  BY <1>9, BooksSame DEF CreateBalance, BooksInv
<1>11. QED
  BY <1>6, <1>7, <1>8, <1>10

\* The administrator's entitlement waits for the others.
LEMMA SerialSetBalance ==
  ASSUME CoordinatorSerializes, TypeInv, Serial, BooksInv, NEW minutes \in Entitlement, SetBalance(minutes)
  PROVE  Serial' /\ BooksInv'
<1>1. \A g \in Flight : flight[g].pc \in {"idle", "clock"}
  BY IdlePc DEF SetBalance, Coordinator
<1>2. \A g \in Flight : Current(flight[g])'
  BY <1>1 DEF SetBalance, Current, Reviewing
<1>3. OneAtATime'
  BY <1>1 DEF OneAtATime, SetBalance
<1>4. balance'.pending = balance.pending /\ balance'.used = balance.used
  BY DEF SetBalance
<1>5. BooksInv'
  BY <1>4, BooksSame DEF SetBalance, BooksInv
<1>6. QED
  BY <1>2, <1>3, <1>5 DEF Serial

\* A request that is created reserves its minutes and covers no day twice.
LEMMA SerialCreateCommit ==
  ASSUME CoordinatorSerializes, TypeInv, TypeInv', Serial, BooksInv, NEW f \in Flight, NEW l \in Leave, CreateCommit(f, l)
  PROVE  Serial' /\ BooksInv'
<1>1. TypeOK /\ TypeOK' /\ OneAtATime /\ Current(flight[f]) /\ flight[f].pc = "reserve"
  BY DEF TypeInv, Serial, CreateCommit
<1>2. Serial'
  BY <1>1, SerialFinish DEF CreateCommit
<1> DEFINE row == [status |-> "PENDING", first |-> flight[f].first, last |-> flight[f].last, minutes |-> flight[f].minutes]
<1>3. requests' = [requests EXCEPT ![l] = row] /\ requests[l] = NoRequest
  BY DEF CreateCommit
<1>4. flight[f] \in [pc : {"create", "reserve"}, first : Day, last : Day, minutes : 1..MaxMinutes]
  BY <1>1, Kinds
<1>5. row \in Request /\ row.status = "PENDING" /\ row.minutes = flight[f].minutes
  BY <1>4 DEF Request
<1>6. \A m \in Leave : IsActive(requests[m]) => ~ Overlap(requests[m], row)
  BY <1>1 DEF Current, NoOverlap, Active, With, IsActive, Overlap
<1>7. requests \in [Leave -> Rows] /\ balance \in Balance
  <2>1. Sound(flight[f])
    BY DEF TypeInv
  <2>2. QED
    BY <1>1, <2>1, RequestRow, BalanceRow DEF Sound
<1>8. balance' = [balance EXCEPT !.pending = @ + row.minutes] /\ UNCHANGED <<sheet, allocations>>
  BY <1>5 DEF CreateCommit
<1> HIDE DEF row
<1>9. requests' \in [Leave -> Rows] /\ requests'[l] = row /\ \A m \in Leave : m # l => requests'[m] = requests[m]
  BY <1>3, <1>5, <1>7 DEF Rows
<1>10. balance'.pending = balance.pending + row.minutes /\ balance'.used = balance.used
  BY <1>7, <1>8 DEF Balance
<1>11. BooksInv'
  <2>1. PICK req, new, bal, b, sh, alloc :
          /\ req = requests /\ new = requests' /\ bal = balance /\ b = balance' /\ sh = sheet /\ alloc = allocations
    OBVIOUS
  <2>2. req \in [Leave -> Rows] /\ Books(req, bal, sh, alloc) /\ req[l] = NoRequest
    BY <1>3, <1>7, <2>1 DEF BooksInv
  <2>3. new \in [Leave -> Rows] /\ new[l] = row /\ \A m \in Leave : m # l => new[m] = req[m]
    BY <1>9, <2>1
  <2>4. b.pending = bal.pending + row.minutes /\ b.used = bal.used
    BY <1>10, <2>1
  <2>5. \A m \in Leave : IsActive(req[m]) => ~ Overlap(req[m], row)
    BY <1>6, <2>1
  <2>6. Books(new, b, sh, alloc)
    BY <1>5, <2>2, <2>3, <2>4, <2>5, BooksCreated
  <2>7. QED
    BY <1>8, <2>1, <2>6 DEF BooksInv
<1>12. QED
  BY <1>2, <1>11

\* A cancellation or a rejection under way is of a pending request, and the row follows.
LEMMA SerialDecided ==
  ASSUME CoordinatorSerializes, TypeInv, Serial, BooksInv, NEW f \in Flight, CancelCommit(f) \/ RejectCommit(f)
  PROVE  Serial' /\ BooksInv'
<1> DEFINE l == flight[f].request
           decision == IF flight[f].pc = "cancel" THEN "CANCELLED" ELSE "REJECTED"
<1>1. TypeOK /\ Sound(flight[f]) /\ Current(flight[f]) /\ flight[f].pc \in {"cancel", "reject"}
  BY DEF TypeInv, Serial, CancelCommit, RejectCommit
<1>2. l \in Leave /\ requests[l].status = "PENDING" /\ requests[l] # NoRequest
  BY <1>1, Kinds, RequestRow DEF Current, Reviewing
<1>3. Serial'
  BY <1>1, SerialFinish DEF CancelCommit, RejectCommit
<1>4. requests' = [requests EXCEPT ![l].status = decision] /\ balance' = Released(l) /\ UNCHANGED <<sheet, allocations>>
  BY <1>1, <1>2 DEF CancelCommit, RejectCommit, Claimed
<1>5. decision \in {"CANCELLED", "REJECTED"}
  OBVIOUS
<1> HIDE DEF l, decision
<1>6. requests \in [Leave -> Rows] /\ decision \in {"APPROVED", "REJECTED", "CANCELLED"}
  BY <1>1, <1>2, <1>5, RequestRow
<1>7. balance'.used = balance.used /\ balance'.pending = balance.pending - requests[l].minutes
  BY <1>2, <1>4, ReleasedRow
<1>8. BooksInv'
  <2>1. PICK req, new, bal, b, sh, sh2, alloc, alloc2 :
          /\ req = requests /\ new = requests' /\ bal = balance /\ b = balance'
          /\ sh = sheet /\ sh2 = sheet' /\ alloc = allocations /\ alloc2 = allocations'
    OBVIOUS
  <2>2. req \in [Leave -> Rows] /\ Books(req, bal, sh, alloc) /\ req[l].status = "PENDING" /\ req[l] # NoRequest
    BY <1>2, <1>6, <2>1 DEF BooksInv
  <2>3. new = [req EXCEPT ![l].status = decision]
    BY <1>4, <2>1
  <2>4. /\ new \in [Leave -> Rows] /\ new[l].status = decision /\ new[l].minutes = req[l].minutes
        /\ new[l].first = req[l].first /\ new[l].last = req[l].last /\ \A m \in Leave : m # l => new[m] = req[m]
    BY <1>2, <1>6, <2>2, <2>3, RowDecided
  <2>5. b.pending = bal.pending - req[l].minutes /\ b.used = bal.used
    BY <1>7, <2>1
  <2>6. Books(new, b, sh, alloc)
    BY <1>2, <1>5, <2>2, <2>4, <2>5, BooksDecided
  <2>7. QED
    BY <1>4, <2>1, <2>6 DEF BooksInv
<1>9. QED
  BY <1>3, <1>8

\* An approval uses what the request reserved, allocates it in full, and puts it on the
\* timesheets as they are.
LEMMA SerialApprove ==
  ASSUME CoordinatorSerializes, TypeInv, TypeInv', Serial, BooksInv, NEW f \in Flight, ApproveCommit(f)
  PROVE  Serial' /\ BooksInv'
<1> DEFINE l == flight[f].request
           seen == flight[f].seen
           rows == Allocations(l)
<1>1. TypeOK /\ TypeOK' /\ Sound(flight[f]) /\ Current(flight[f]) /\ flight[f].pc = "approve"
  BY DEF TypeInv, Serial, ApproveCommit
<1>2. /\ l \in Leave /\ requests[l].status = "PENDING" /\ requests[l] # NoRequest /\ requests[l] \in Request
      /\ seen \in [Day -> Sheet] /\ \A d \in Day : seen[d].leave = sheet[d].leave
      /\ HasRoom(Scheduled, DaysOf(requests[l]), requests[l].minutes)
  BY <1>1, Kinds, RequestRow DEF Current, Reviewing
<1>3. Serial'
  BY <1>1, SerialFinish DEF ApproveCommit
<1>4. /\ requests' = [requests EXCEPT ![l].status = "APPROVED"] /\ balance' = Used(l)
      /\ sheet' = Allocated(l, seen) /\ allocations' = allocations \cup rows
  BY <1>2 DEF ApproveCommit, Claimed
<1> HIDE DEF l, seen
<1>5. rows = PlanRows(l, requests[l])
  BY <1>2, NewRows
<1>6. /\ \A d \in Day : (~ \E a \in rows : a.day = d) => sheet'[d] = sheet[d]
      /\ \A a \in rows : a.day \in Day /\ sheet'[a.day].leave = seen[a.day].leave + a.minutes
  <2>1. \A a \in Allocations(l) : a.day \in Day
    BY <1>2, NewRows DEF Allocation
  <2>2. QED
    BY <1>1, <1>2, <1>4, <2>1, NewSheets
<1>7. requests \in [Leave -> Rows]
  BY <1>1, <1>2, RequestRow
<1>8. balance'.used = balance.used + requests[l].minutes /\ balance'.pending = balance.pending - requests[l].minutes
  BY <1>2, <1>4, ReleasedRow
<1> HIDE DEF rows
<1>9. BooksInv'
  <2>1. PICK req, new, bal, b, sh, sh2, alloc, alloc2 :
          /\ req = requests /\ new = requests' /\ bal = balance /\ b = balance'
          /\ sh = sheet /\ sh2 = sheet' /\ alloc = allocations /\ alloc2 = allocations'
    OBVIOUS
  <2>2. /\ req \in [Leave -> Rows] /\ Books(req, bal, sh, alloc) /\ req[l].status = "PENDING" /\ req[l] # NoRequest
        /\ HasRoom(Scheduled, DaysOf(req[l]), req[l].minutes)
    BY <1>2, <1>7, <2>1 DEF BooksInv
  <2>3. new = [req EXCEPT ![l].status = "APPROVED"]
    BY <1>4, <2>1
  <2>4. /\ new \in [Leave -> Rows] /\ new[l].status = "APPROVED" /\ new[l].minutes = req[l].minutes
        /\ new[l].first = req[l].first /\ new[l].last = req[l].last /\ \A m \in Leave : m # l => new[m] = req[m]
    BY <1>2, <2>2, <2>3, RowDecided
  <2>5. b.pending = bal.pending - req[l].minutes /\ b.used = bal.used + req[l].minutes
    BY <1>8, <2>1
  <2>6. rows = PlanRows(l, req[l]) /\ alloc2 = alloc \cup PlanRows(l, req[l])
    BY <1>4, <1>5, <2>1
  <2>7. /\ \A d \in Day : (~ \E a \in PlanRows(l, req[l]) : a.day = d) => sh2[d].leave = sh[d].leave
        /\ \A a \in PlanRows(l, req[l]) : sh2[a.day].leave = sh[a.day].leave + a.minutes
    BY <1>2, <1>6, <2>1, <2>6
  <2>8. Books(new, b, sh2, alloc \cup PlanRows(l, req[l]))
    BY <1>2, <2>2, <2>4, <2>5, <2>7, BooksApproved
  <2>9. QED
    BY <2>1, <2>6, <2>8 DEF BooksInv
<1>10. QED
  BY <1>3, <1>9

\* A clock action starts beside the requests of the other coordinator.
LEMMA SerialClockRead ==
  ASSUME TypeInv, Serial, NEW f \in Flight, NEW d \in Day, ClockRead(f, d)
  PROVE  Serial'
<1>1. TypeOK
  BY DEF TypeInv
<1>2. flight \in [Flight -> {Idle} \cup Flights]
  BY <1>1 DEF TypeOK
<1>3. \E s : s.pc = "clock" /\ flight' = [flight EXCEPT ![f] = s]
  BY DEF ClockRead, Continue
<1>4. \A g \in Flight : flight'[g] = flight[g] \/ flight'[g].pc \in {"idle", "clock"}
  BY <1>2, <1>3
<1>5. QED
  BY <1>1, <1>4, OthersStay DEF ClockRead

\* A request that fails a check ends.
LEMMA SerialStop ==
  ASSUME CoordinatorSerializes, TypeInv, Serial, NEW f \in Flight, Stop(f)
  PROVE  Serial'
<1>1. TypeOK
  BY DEF TypeInv
<1>2. \A g \in Flight : flight'[g] = flight[g] \/ flight'[g].pc \in {"idle", "clock"}
  BY <1>1, Finished, IdlePc DEF Stop
<1>3. QED
  BY <1>1, <1>2, OthersStay DEF Stop

\* A clock action, the cron job or the lock writes timesheets and no leave.
LEMMA SerialSheets ==
  ASSUME CoordinatorSerializes, TypeInv, Serial, BooksInv,
         (\E f \in Flight : ClockCommit(f)) \/ (\E d \in Day : MarkAbsent(d))
  PROVE  Serial' /\ BooksInv'
<1>1. TypeOK /\ UNCHANGED <<requests, balance, period, allocations>>
  BY DEF TypeInv, ClockCommit, MarkAbsent
<1>2. \A d \in Day : sheet'[d].leave = sheet[d].leave
  BY TypeClockCommit, TypeMarkAbsent
<1>3. \A g \in Flight : flight'[g] = flight[g] \/ flight'[g].pc \in {"idle", "clock"}
  BY <1>1, Finished, IdlePc DEF ClockCommit, MarkAbsent
<1>4. QED
  BY <1>1, <1>2, <1>3, OthersStay, BooksStay

\* The lock ends with the checks that it made still true.
LEMMA SerialLock ==
  ASSUME CoordinatorSerializes, TypeInv, Serial, BooksInv, NEW f \in Flight, Lock(f)
  PROVE  Serial' /\ BooksInv'
<1>1. flight[f].pc = "lock" /\ Finish(f) /\ UNCHANGED <<requests, balance, allocations>>
  BY DEF Lock
<1>2. \A d \in Day : sheet'[d].leave = sheet[d].leave
  BY TypeLock
<1>3. QED
  BY <1>1, <1>2, SerialFinish, BooksStay

\* The inductive invariant: the types, the checks in flight, and the three copies of the minutes.
Inv == TypeInv /\ Serial /\ BooksInv

\* The inductive invariant, at first ...
LEMMA InvInit == Init => Inv
<1> SUFFICES ASSUME Init PROVE Inv
  OBVIOUS
<1>1. TypeInv /\ TypeOK
  BY TypeInit DEF TypeInv
<1>2. Serial
  BY IdlePc DEF Init, Serial, OneAtATime, Current, Reviewing
<1>3. BooksInv
  BY BooksEmpty DEF Init, BooksInv, NoSheet
<1>4. QED
  BY <1>1, <1>2, <1>3 DEF Inv

\* ... after every step ...
LEMMA InvNext ==
  ASSUME CoordinatorSerializes
  PROVE  Inv /\ [Next]_vars => Inv'
<1> SUFFICES ASSUME Inv, [Next]_vars PROVE Inv'
  OBVIOUS
<1>1. TypeInv /\ Serial /\ BooksInv /\ TypeInv' /\ TypeOK
  BY TypeNext DEF Inv, TypeInv
<1>2. CASE UNCHANGED vars
  <2>1. BooksInv'
    BY <1>1, <1>2, BooksStay DEF vars
  <2>2. Serial'
    BY <1>1, <1>2, OthersStay DEF vars
  <2>3. QED
    BY <1>1, <2>1, <2>2 DEF Inv
<1>3. ASSUME NEW f \in Flight,
             \/ CreateRead(f) \/ ApprovePlan(f) \/ ApproveDays(f) \/ LockChecks(f)
             \/ \E l \in Leave : CancelRead(f, l) \/ \E pc \in {"plan", "reject"} : ReviewRead(f, l, pc)
      PROVE  Inv'
  <2>1. UNCHANGED <<requests, balance, sheet, allocations, period>>
    BY <1>3 DEF CreateRead, ApprovePlan, ApproveDays, LockChecks, CancelRead, ReviewRead
  <2>2. BooksInv'
    BY <1>1, <2>1, BooksStay
  <2>3. QED
    BY <1>1, <1>3, <2>2, SerialReads DEF Inv
<1>4. ASSUME NEW f \in Flight, Stop(f) \/ \E d \in Day : ClockRead(f, d)
      PROVE  Inv'
  <2>1. UNCHANGED <<requests, balance, sheet, allocations, period>>
    BY <1>4 DEF Stop, ClockRead
  <2>2. BooksInv'
    BY <1>1, <2>1, BooksStay
  <2>3. QED
    BY <1>1, <1>4, <2>2, SerialStop, SerialClockRead DEF Inv
<1>5. ASSUME NEW f \in Flight, CreateBalance(f) PROVE Inv'
  BY <1>1, <1>5, SerialCreateBalance DEF Inv
<1>6. ASSUME NEW f \in Flight, NEW l \in Leave, CreateCommit(f, l) PROVE Inv'
  BY <1>1, <1>6, SerialCreateCommit DEF Inv
<1>7. ASSUME NEW f \in Flight, CancelCommit(f) \/ RejectCommit(f) PROVE Inv'
  BY <1>1, <1>7, SerialDecided DEF Inv
<1>8. ASSUME NEW f \in Flight, ApproveCommit(f) PROVE Inv'
  BY <1>1, <1>8, SerialApprove DEF Inv
<1>9. ASSUME NEW f \in Flight, ClockCommit(f) PROVE Inv'
  BY <1>1, <1>9, SerialSheets DEF Inv
<1>10. ASSUME NEW f \in Flight, Lock(f) PROVE Inv'
  BY <1>1, <1>10, SerialLock DEF Inv
<1>11. ASSUME NEW minutes \in Entitlement, SetBalance(minutes) PROVE Inv'
  BY <1>1, <1>11, SerialSetBalance DEF Inv
<1>12. ASSUME NEW d \in Day, MarkAbsent(d) PROVE Inv'
  BY <1>1, <1>12, SerialSheets DEF Inv
<1>13. QED
  BY <1>2, <1>3, <1>4, <1>5, <1>6, <1>7, <1>8, <1>9, <1>10, <1>11, <1>12 DEF Next

\* ... and so always.
LEMMA InvHolds ==
  ASSUME CoordinatorSerializes
  PROVE  Spec => []Inv
BY InvInit, InvNext, PTL DEF Spec

\* Only a creation reserves minutes, and only those that are left.
LEMMA ReservingStep ==
  ASSUME Inv, [Next]_vars, balance'.pending > balance.pending
  PROVE  balance'.used + balance'.pending <= balance'.entitled
<1>1. TypeOK /\ TypeInv
  BY DEF Inv, TypeInv
<1>2. balance.pending \in Int
  BY <1>1 DEF TypeOK, Balance, NoBalance
<1>3. ASSUME NEW f \in Flight, NEW l \in Leave, CreateCommit(f, l)
      PROVE  balance'.used + balance'.pending <= balance'.entitled
  <2>1. flight[f].pc = "reserve" /\ Sound(flight[f]) /\ Current(flight[f])
    BY <1>3 DEF Inv, TypeInv, Serial, CreateCommit
  <2>2. balance \in Balance /\ balance.used \in Nat /\ balance.pending \in Int /\ balance.entitled \in Int
    BY <1>1, <2>1, BalanceRow DEF Sound
  <2>3. flight[f] \in [pc : {"create", "reserve"}, first : Day, last : Day, minutes : 1..MaxMinutes]
    BY <1>1, <2>1, Kinds
  <2>4. flight[f].minutes \in Int
    BY <2>3
  <2>5. balance.entitled - balance.used - balance.pending >= flight[f].minutes
    BY <2>1 DEF Current, Available
  <2>6. balance' = [balance EXCEPT !.pending = balance.pending + flight[f].minutes]
    BY <1>3 DEF CreateCommit
  <2>7. /\ balance'.used = balance.used /\ balance'.entitled = balance.entitled
        /\ balance'.pending = balance.pending + flight[f].minutes
    BY <2>2, <2>6 DEF Balance
  <2>8. QED
    BY <2>2, <2>4, <2>5, <2>7
<1>4. ASSUME NEW f \in Flight, CancelCommit(f) \/ RejectCommit(f) \/ ApproveCommit(f)
      PROVE  FALSE
  <2> DEFINE l == flight[f].request
  <2>1. flight[f].pc \in {"cancel"} \cup Reviewing /\ Sound(flight[f])
    BY <1>1, <1>4 DEF TypeInv, CancelCommit, RejectCommit, ApproveCommit, Reviewing
  <2>2. l \in Leave /\ requests[l] # NoRequest
    BY <1>1, <2>1, Kinds DEF Sound
  <2>3. balance' = Released(l) \/ balance' = Used(l)
    BY <1>4 DEF CancelCommit, RejectCommit, ApproveCommit
  <2> HIDE DEF l
  <2>4. balance'.pending = balance.pending - requests[l].minutes /\ requests[l].minutes \in Nat
    BY <1>1, <2>2, <2>3, ReleasedRow, RequestRow
  <2>5. QED
    BY <1>2, <2>4
<1>5. ASSUME NEW f \in Flight, CreateBalance(f) PROVE FALSE
  BY <1>2, <1>5 DEF CreateBalance, UpsertedBalance, NoBalance
<1>6. ASSUME NEW minutes \in Entitlement, SetBalance(minutes) PROVE FALSE
  BY <1>2, <1>6 DEF SetBalance
<1>7. ASSUME balance' = balance PROVE FALSE
  BY <1>2, <1>7
<1>8. QED
  BY <1>3, <1>4, <1>5, <1>6, <1>7
     DEF Next, vars, CreateRead, CancelRead, ReviewRead, ApprovePlan, ApproveDays, ClockRead, ClockCommit,
         MarkAbsent, LockChecks, Lock, Stop

\* Only an approval changes the leave on a timesheet, and only after the locked period.
LEMMA LockedStep ==
  ASSUME Inv, [Next]_vars, period = "LOCKED", NEW d \in Day, d <= PeriodEnd
  PROVE  sheet'[d].leave = sheet[d].leave
<1>1. TypeOK /\ TypeInv
  BY DEF Inv, TypeInv
<1>2. ASSUME NEW f \in Flight, ApproveCommit(f)
      PROVE  sheet'[d].leave = sheet[d].leave
  <2> DEFINE l == flight[f].request
             seen == flight[f].seen
  <2>1. flight[f].pc = "approve" /\ Sound(flight[f]) /\ Current(flight[f])
    BY <1>1, <1>2 DEF Inv, TypeInv, Serial, ApproveCommit
  <2>2. l \in Leave /\ requests[l] \in Request /\ seen \in [Day -> Sheet] /\ requests[l].first > PeriodEnd
    BY <1>1, <2>1, Kinds, RequestRow DEF Sound, Current, Reviewing, OutsideLockedPeriod
  <2>3. sheet' = Allocated(l, seen)
    BY <1>2 DEF ApproveCommit
  <2> HIDE DEF l, seen
  <2>4. \A a \in Allocations(l) : a.day \in DaysOf(requests[l])
    BY <2>2, NewRows
  <2>5. requests[l].first \in Int /\ requests[l].last \in Int /\ PeriodEnd \in Int /\ d \in Int
    BY <1>1, <2>2, RequestRow, LeaveRequestsAssumption DEF Day
  <2>6. ~ \E a \in Allocations(l) : a.day = d
    BY <2>2, <2>4, <2>5 DEF DaysOf
  <2>7. QED
    BY <1>1, <2>2, <2>3, <2>6, NewSheets
<1>3. CASE (\E f \in Flight : ClockCommit(f) \/ Lock(f)) \/ \E e \in Day : MarkAbsent(e)
  BY <1>1, <1>3, TypeClockCommit, TypeMarkAbsent, TypeLock
<1>4. CASE sheet' = sheet
  BY <1>4
<1>5. QED
  BY <1>2, <1>3, <1>4
  DEF Next, vars, CreateRead, CreateBalance, CreateCommit, CancelRead, CancelCommit, ReviewRead,
      ApprovePlan, ApproveDays, RejectCommit, SetBalance, ClockRead, LockChecks, Stop

\* Only the lock changes the period, and what it has checked is still so.
LEMMA LockingStep ==
  ASSUME Inv, [Next]_vars, period' # period, NEW l \in With("PENDING")
  PROVE  requests[l].first > PeriodEnd
<1>1. ASSUME NEW f \in Flight, Lock(f)
      PROVE  requests[l].first > PeriodEnd
  BY <1>1 DEF Lock, Inv, Serial, Current
<1>2. \E f \in Flight : Lock(f)
  BY DEF Next, vars, CreateRead, CreateBalance, CreateCommit, CancelRead, CancelCommit, ReviewRead,
         ApprovePlan, ApproveDays, ApproveCommit, RejectCommit, SetBalance, ClockRead, ClockCommit,
         MarkAbsent, LockChecks, Stop
<1>3. QED
  BY <1>1, <1>2

-----------------------------------------------------------------------------
(* The theorems about D1.                                                  *)

\* Every variable keeps its type, however the requests interleave.
THEOREM TypeCorrect == Spec => []TypeOK
<1>1. TypeInv => TypeOK
  BY DEF TypeInv
<1>2. QED
  BY <1>1, TypeInvariant, PTL

\* A day with approved leave is not counted as an absence, however approvals, clock actions
\* and the cron job interleave, with a coordinator that serializes or without one.
THEOREM LeaveExcusesAbsenceHolds == Spec => []LeaveExcusesAbsence
<1>1. TypeInv => LeaveExcusesAbsence
  BY DEF TypeInv
<1>2. QED
  BY <1>1, TypeInvariant, PTL

\* The balance row is the sum of the requests, and two active requests never cover the
\* same day, when the coordinator handles one request at a time.
THEOREM BalanceFollowsRequestsHolds ==
  ASSUME CoordinatorSerializes
  PROVE  Spec => []BalanceFollowsRequests
<1>1. Inv => BalanceFollowsRequests
  BY BooksAgree DEF Inv, TypeInv, BalanceFollowsRequests
<1>2. QED
  BY <1>1, InvHolds, PTL

\* Exactly the approved requests are allocated, in full, the timesheets carry that leave
\* whoever else writes to them, and no day with leave is an absence.
THEOREM ApprovedLeaveCountsHolds ==
  ASSUME CoordinatorSerializes
  PROVE  Spec => []ApprovedLeaveCounts
<1>1. Inv => ApprovedLeaveCounts
  BY BooksAgree DEF Inv, TypeInv, ApprovedLeaveCounts
<1>2. QED
  BY <1>1, InvHolds, PTL

\* Minutes are reserved only within what is left of the entitlement, the leave of a locked
\* period never changes, and all of it was decided when the period was locked.
THEOREM ChecksHoldUntilWrittenHolds ==
  ASSUME CoordinatorSerializes
  PROVE  Spec => ChecksHoldUntilWritten
<1>1. Inv /\ [Next]_vars =>
        [balance'.pending > balance.pending => balance'.used + balance'.pending <= balance'.entitled]_vars
  BY ReservingStep
<1>2. Inv /\ [Next]_vars =>
        [period = "LOCKED" => \A d \in Day : d <= PeriodEnd => sheet'[d].leave = sheet[d].leave]_vars
  BY LockedStep
<1>3. Inv /\ [Next]_vars =>
        [period' # period => \A l \in With("PENDING") : requests[l].first > PeriodEnd]_vars
  BY LockingStep
<1>4. QED
  BY <1>1, <1>2, <1>3, InvHolds, PTL
  DEF Spec, ChecksHoldUntilWritten, AcceptedWithinBalance, LockedPeriodsKeepTheirLeave,
      LockFindsLeaveDecided

-----------------------------------------------------------------------------
(* PostgreSQL: transactions that run at the same time.  L are the requests *)
(* of the year: Leave in the part "requests", l1 in the part "shifts".     *)

SerializableKinds == {"create", "approve", "reject", "lock"}

PgRow(L) == ({"request"} \X L) \cup ({"sheet"} \X Day) \cup {<<"balance">>, <<"period">>}

PgTransaction(L) ==
  [pc : SerializableKinds, first : Day, last : Day, minutes : 0..MaxMinutes, request : L,
   seen : [Day -> Sheet], stale : SUBSET PgRow(L), precedes : BOOLEAN, follows : BOOLEAN,
   doomed : BOOLEAN]

PgFlight(L) ==
  {Idle} \cup PgTransaction(L) \cup [pc : {"cancel"}, request : L]
    \cup [pc : {"clock"}, day : Day, row : Sheet]

PgTypes(L) ==
  /\ pgRequests \in [L -> Rows]
  /\ pgBalance \in Balance \cup {NoBalance}
  /\ pgSheet \in [Day -> Sheet]
  /\ pgAllocations \subseteq [request : L, day : Day, minutes : Nat]
  /\ pgPeriod \in {"OPEN", "LOCKED"}
  /\ tx \in [Flight -> PgFlight(L)]

\* The balance row that the upsert leaves.
UpsertOf(bal) ==
  IF bal = NoBalance THEN [entitled |-> DefaultEntitlement, used |-> 0, pending |-> 0] ELSE bal

\* What the transaction t relies on when it commits: a row that it was not told of has not
\* changed since its checks, and one that precedes and follows a lock cannot commit.
Relies(L, t, req, bal, sh, per) ==
  /\ t.pc = "create" =>
       /\ req[t.request] = NoRequest /\ t.minutes > 0
       /\ <<"balance">> \notin t.stale =>
            /\ \A m \in L : IsActive(req[m]) => ~ Overlap(req[m], t)
            /\ Available(UpsertOf(bal)) >= t.minutes
  /\ t.pc \in {"approve", "reject", "cancel"} => req[t.request] # NoRequest
  /\ t.pc \in {"approve", "reject"} =>
       (<<"request", t.request>> \notin t.stale => req[t.request].status = "PENDING")
  /\ t.pc = "approve" =>
       /\ HasRoom(Scheduled, DaysOf(req[t.request]), req[t.request].minutes)
       /\ per = "LOCKED" /\ req[t.request].first <= PeriodEnd => t.precedes /\ t.follows
       /\ \A d \in Day : <<"sheet", d>> \notin t.stale => t.seen[d] = sh[d]

\* The inductive invariant of either part: a request in the table has a balance row, no two
\* creations in flight have the same id, and every transaction has what it relies on.
PgInv(L) ==
  /\ PgTypes(L)
  /\ \A l \in L : pgRequests[l] # NoRequest => pgBalance # NoBalance
  /\ \A f, g \in Flight :
       tx[f].pc = "create" /\ tx[g].pc = "create" /\ tx[f].request = tx[g].request => f = g
  /\ \A f \in Flight : Relies(L, tx[f], pgRequests, pgBalance, pgSheet, pgPeriod)

\* The transaction t has become u, told that the rows were written.
Learned(L, t, u, writes) ==
  /\ u \in PgFlight(L)
  /\ t.pc \notin SerializableKinds => u = t
  /\ t.pc \in SerializableKinds =>
       /\ u.pc = t.pc /\ u.request = t.request /\ u.first = t.first /\ u.last = t.last
       /\ u.minutes = t.minutes /\ u.seen = t.seen /\ u.stale = t.stale \cup writes
       /\ (t.precedes => u.precedes) /\ (t.follows => u.follows)

\* The kind of a transaction tells its fields.
LEMMA PgKinds ==
  ASSUME NEW L, NEW t \in PgFlight(L)
  PROVE  /\ t.pc = "idle" <=> t = Idle
         /\ t.pc \in SerializableKinds <=> t \in PgTransaction(L)
         /\ t.pc \in SerializableKinds \cup {"cancel"} => t.request \in L
         /\ t.pc = "clock" => t.day \in Day /\ t.row \in Sheet
         /\ t.pc \in SerializableKinds \cup {"idle", "cancel", "clock"}
<1>1. CASE t = Idle
  <2>1. t.pc = "idle"
    BY <1>1, IdlePc
  <2>2. t \notin PgTransaction(L)
    BY <2>1 DEF PgTransaction, SerializableKinds
  <2>3. QED
    BY <1>1, <2>1, <2>2 DEF SerializableKinds
<1>2. CASE t \in PgTransaction(L)
  <2>1. t.pc \in SerializableKinds /\ t.request \in L
    BY <1>2 DEF PgTransaction
  <2>2. t.pc # "idle" /\ t.pc # "clock" /\ t # Idle
    BY <2>1, IdlePc DEF SerializableKinds
  <2>3. QED
    BY <1>2, <2>1, <2>2
<1>3. CASE t \in [pc : {"cancel"}, request : L]
  <2>1. t.pc = "cancel" /\ t.request \in L
    BY <1>3
  <2>2. t.pc \notin SerializableKinds /\ t # Idle
    BY <2>1, IdlePc DEF SerializableKinds
  <2>3. t \notin PgTransaction(L)
    BY <2>2 DEF PgTransaction
  <2>4. QED
    BY <2>1, <2>2, <2>3
<1>4. CASE t \in [pc : {"clock"}, day : Day, row : Sheet]
  <2>1. t.pc = "clock" /\ t.day \in Day /\ t.row \in Sheet
    BY <1>4
  <2>2. t.pc \notin SerializableKinds /\ t # Idle
    BY <2>1, IdlePc DEF SerializableKinds
  <2>3. t \notin PgTransaction(L)
    BY <2>2 DEF PgTransaction
  <2>4. QED
    BY <2>1, <2>2, <2>3
<1>5. QED
  BY <1>1, <1>2, <1>3, <1>4 DEF PgFlight

\* What the rules for serializable transactions make of one that is in flight.
Telling(t, writes, p, q, d) ==
  [t EXCEPT !.stale = @ \cup writes, !.precedes = @ \/ p, !.follows = @ \/ q, !.doomed = @ \/ d]

\* A transaction that is told is still one, and knows what it was told.
LEMMA Learning ==
  ASSUME NEW L, NEW t \in PgTransaction(L), NEW writes \in SUBSET PgRow(L),
         NEW p \in BOOLEAN, NEW q \in BOOLEAN, NEW d \in BOOLEAN, NEW u,
         u = Telling(t, writes, p, q, d)
  PROVE  /\ Learned(L, t, u, writes)
         /\ (p => u.precedes) /\ (q => u.follows)
<1>1. PICK stale, precedes, follows, doomed :
        /\ stale = t.stale \cup writes /\ precedes = (t.precedes \/ p)
        /\ follows = (t.follows \/ q) /\ doomed = (t.doomed \/ d)
  OBVIOUS
<1>2. u = [t EXCEPT !.stale = stale, !.precedes = precedes, !.follows = follows, !.doomed = doomed]
  BY <1>1 DEF Telling
<1>3. stale \in SUBSET PgRow(L) /\ precedes \in BOOLEAN /\ follows \in BOOLEAN /\ doomed \in BOOLEAN
  <2>1. t.stale \in SUBSET PgRow(L)
    BY DEF PgTransaction
  <2>2. QED
    BY <1>1, <2>1
<1>4. /\ u.pc = t.pc /\ u.request = t.request /\ u.first = t.first /\ u.last = t.last
      /\ u.minutes = t.minutes /\ u.seen = t.seen /\ u.stale = stale
      /\ u.precedes = precedes /\ u.follows = follows
  BY <1>2 DEF PgTransaction
<1>5. u \in PgTransaction(L)
  BY <1>2, <1>3 DEF PgTransaction
<1>6. t.pc \in SerializableKinds
  BY DEF PgTransaction
<1>7. (t.precedes => u.precedes) /\ (t.follows => u.follows) /\ (p => u.precedes) /\ (q => u.follows)
  BY <1>1, <1>4
<1>8. QED
  BY <1>1, <1>4, <1>5, <1>6, <1>7 DEF Learned, PgFlight

\* What a transaction relies on is still so after a commit that it was told of: every row
\* that changed is among those written, requests keep their dates, and a period is locked
\* only with every approval told that it is too late.
LEMMA ReliesStill ==
  ASSUME NEW L, NEW t \in PgFlight(L), NEW u, NEW writes, Learned(L, t, u, writes),
         NEW req, NEW bal, NEW sh, NEW per, Relies(L, t, req, bal, sh, per),
         NEW req2, NEW bal2, NEW sh2, NEW per2,
         <<"balance">> \in writes \/ (req2 = req /\ bal2 = bal),
         \A l \in L : req2[l] = req[l] \/ <<"request", l>> \in writes,
         \A l \in L : req[l] # NoRequest =>
           /\ req2[l] # NoRequest /\ req2[l].first = req[l].first /\ req2[l].last = req[l].last
           /\ req2[l].minutes = req[l].minutes,
         t.pc = "create" => req2[t.request] = NoRequest,
         \A d \in Day : sh2[d] = sh[d] \/ <<"sheet", d>> \in writes,
         per2 = per \/ (t.pc = "approve" => u.precedes /\ u.follows)
  PROVE  Relies(L, u, req2, bal2, sh2, per2)
<1>1. CASE t.pc \notin SerializableKinds
  <2>1. u = t /\ t.pc \in {"idle", "cancel", "clock"}
    BY <1>1, PgKinds DEF Learned
  <2>2. t.pc = "cancel" => t.request \in L
    BY PgKinds
  <2>3. QED
    BY <2>1, <2>2 DEF Relies
<1>2. CASE t.pc \in SerializableKinds
  <2>1. /\ u.pc = t.pc /\ u.request = t.request /\ u.first = t.first /\ u.last = t.last
        /\ u.minutes = t.minutes /\ u.seen = t.seen /\ u.stale = t.stale \cup writes
        /\ (t.precedes => u.precedes) /\ (t.follows => u.follows)
    BY <1>2 DEF Learned
  <2>2. t.request \in L
    BY <1>2, PgKinds
  <2>3. u.pc = "create" =>
          /\ req2[u.request] = NoRequest /\ u.minutes > 0
          /\ <<"balance">> \notin u.stale =>
               /\ \A m \in L : IsActive(req2[m]) => ~ Overlap(req2[m], u)
               /\ Available(UpsertOf(bal2)) >= u.minutes
    <3>1. \A m : Overlap(m, u) <=> Overlap(m, t)
      BY <2>1 DEF Overlap
    <3>2. QED
      BY <2>1, <3>1 DEF Relies
  <2>4. u.pc \in {"approve", "reject", "cancel"} => req2[u.request] # NoRequest
    BY <2>1, <2>2 DEF Relies
  <2>5. u.pc \in {"approve", "reject"} =>
          (<<"request", u.request>> \notin u.stale => req2[u.request].status = "PENDING")
    BY <2>1, <2>2 DEF Relies
  <2>6. u.pc = "approve" =>
          /\ HasRoom(Scheduled, DaysOf(req2[u.request]), req2[u.request].minutes)
          /\ per2 = "LOCKED" /\ req2[u.request].first <= PeriodEnd => u.precedes /\ u.follows
          /\ \A d \in Day : <<"sheet", d>> \notin u.stale => u.seen[d] = sh2[d]
    <3> SUFFICES ASSUME u.pc = "approve"
                 PROVE  /\ HasRoom(Scheduled, DaysOf(req2[u.request]), req2[u.request].minutes)
                        /\ per2 = "LOCKED" /\ req2[u.request].first <= PeriodEnd
                             => u.precedes /\ u.follows
                        /\ \A d \in Day : <<"sheet", d>> \notin u.stale => u.seen[d] = sh2[d]
      OBVIOUS
    <3>1. t.pc = "approve" /\ u.request = t.request
      BY <2>1
    <3>2. req[t.request] # NoRequest
      BY <3>1 DEF Relies
    <3>3. /\ req2[t.request].first = req[t.request].first /\ req2[t.request].last = req[t.request].last
          /\ req2[t.request].minutes = req[t.request].minutes
      BY <2>2, <3>2
    <3>4. DaysOf(req2[t.request]) = DaysOf(req[t.request])
      BY <3>3 DEF DaysOf
    <3>5. HasRoom(Scheduled, DaysOf(req2[t.request]), req2[t.request].minutes)
      BY <3>1, <3>3, <3>4 DEF Relies
    <3>6. per2 = "LOCKED" /\ req2[t.request].first <= PeriodEnd => u.precedes /\ u.follows
      BY <2>1, <3>1, <3>3 DEF Relies
    <3>7. \A d \in Day : <<"sheet", d>> \notin u.stale => u.seen[d] = sh2[d]
      BY <2>1, <3>1 DEF Relies
    <3>8. QED
      BY <3>1, <3>5, <3>6, <3>7
  <2>7. QED
    BY <2>3, <2>4, <2>5, <2>6 DEF Relies
<1>3. QED
  BY <1>1, <1>2

\* The transaction of f ends, and the others are told what it has written.
Ended(L, f, writes) ==
  /\ tx' \in [Flight -> PgFlight(L)]
  /\ tx'[f] = Idle
  /\ \A g \in Flight : g # f => Learned(L, tx[g], tx'[g], writes)

\* What the actions of PostgresLeave do, whichever requests there are: a transaction that
\* starts after its checks,
PgBegin(L, f, t) ==
  /\ t \in PgFlight(L) /\ tx[f] = Idle
  /\ tx' = [tx EXCEPT ![f] = t]
  /\ Relies(L, t, pgRequests, pgBalance, pgSheet, pgPeriod)
  /\ \A g \in Flight : t.pc = "create" /\ tx[g].pc = "create" => tx[g].request # t.request
  /\ UNCHANGED <<pgRequests, pgBalance, pgSheet, pgAllocations, pgPeriod>>

\* one that creates a request,
PgCreate(L, f) ==
  /\ tx[f].pc = "create" /\ <<"balance">> \notin tx[f].stale
  /\ Ended(L, f, {<<"request", tx[f].request>>, <<"balance">>})
  /\ pgBalance' = [UpsertOf(pgBalance) EXCEPT !.pending = @ + tx[f].minutes]
  /\ pgRequests' = [pgRequests EXCEPT ![tx[f].request] =
       [status |-> "PENDING", first |-> tx[f].first, last |-> tx[f].last, minutes |-> tx[f].minutes]]
  /\ UNCHANGED <<pgSheet, pgAllocations, pgPeriod>>

\* one that approves a request,
PgApprove(L, f) ==
  LET l == tx[f].request
      rows == PlanRows(l, pgRequests[l])
  IN /\ tx[f].pc = "approve" /\ <<"request", l>> \notin tx[f].stale
     /\ \A a \in rows : <<"sheet", a.day>> \notin tx[f].stale
     /\ ~ (tx[f].precedes /\ tx[f].follows)
     /\ \E writes : /\ Ended(L, f, writes) /\ <<"request", l>> \in writes /\ <<"balance">> \in writes
                    /\ \A a \in rows : <<"sheet", a.day>> \in writes
     /\ pgRequests' = [pgRequests EXCEPT ![l].status = "APPROVED"]
     /\ pgSheet' = Written(rows, tx[f].seen, pgSheet)
     /\ pgAllocations' = pgAllocations \cup rows
     /\ pgBalance' = [[pgBalance EXCEPT !.pending = @ - pgRequests[l].minutes]
                         EXCEPT !.used = @ + pgRequests[l].minutes]
     /\ pgPeriod' = pgPeriod

\* one that rejects or cancels a request,
PgDecide(L, f, decision) ==
  LET l == tx[f].request
  IN /\ \/ tx[f].pc = "reject" /\ <<"request", l>> \notin tx[f].stale
        \/ tx[f].pc = "cancel"
     /\ Ended(L, f, {<<"request", l>>, <<"balance">>})
     /\ pgRequests' = [pgRequests EXCEPT ![l].status = decision]
     /\ pgBalance' = [pgBalance EXCEPT !.pending = @ - pgRequests[l].minutes]
     /\ UNCHANGED <<pgSheet, pgAllocations, pgPeriod>>

\* one that writes timesheets and no leave, and may lock the period,
PgSheets(L, f) ==
  /\ tx[f].pc \in {"clock", "lock"}
  /\ pgSheet' \in [Day -> Sheet]
  /\ \A d \in Day : pgSheet'[d].leave = pgSheet[d].leave
  /\ \E writes : Ended(L, f, writes)
       /\ \A d \in Day : pgSheet'[d] = pgSheet[d] \/ <<"sheet", d>> \in writes
  /\ \/ pgPeriod' = pgPeriod
     \/ /\ pgPeriod' = "LOCKED"
        /\ \A g \in Flight : g # f /\ tx[g].pc = "approve" => tx'[g].precedes /\ tx'[g].follows
  /\ UNCHANGED <<pgRequests, pgBalance, pgAllocations>>

\* one that is rolled back,
PgRollBack(L, f) ==
  Ended(L, f, {}) /\ UNCHANGED <<pgRequests, pgBalance, pgSheet, pgAllocations, pgPeriod>>

\* and the administrator's entitlement.
PgSetBalance(L, minutes) ==
  /\ pgBalance' = [entitled |-> minutes, used |-> pgBalance.used, pending |-> pgBalance.pending]
  /\ tx' \in [Flight -> PgFlight(L)]
  /\ \A g \in Flight : Learned(L, tx[g], tx'[g], {<<"balance">>})
  /\ UNCHANGED <<pgRequests, pgSheet, pgAllocations, pgPeriod>>

\* K are the kinds of requests that are sent.
PgStep(L, K) ==
  \/ \E f \in Flight :
       \/ \E t : PgBegin(L, f, t) /\ t.pc \in K
       \/ PgCreate(L, f) \/ PgApprove(L, f)
       \/ \E decision \in {"REJECTED", "CANCELLED"} : PgDecide(L, f, decision)
       \/ PgSheets(L, f) \/ PgRollBack(L, f)
  \/ \E minutes \in Entitlement : PgSetBalance(L, minutes)

\* The invariant after the transactions F have ended and the others were told.
LEMMA PgKeeps ==
  ASSUME NEW L, PgInv(L), PgTypes(L)', NEW F, NEW writes,
         \A g \in Flight : g \in F => tx'[g] = Idle,
         \A g \in Flight : g \notin F => Learned(L, tx[g], tx'[g], writes),
         <<"balance">> \in writes \/ UNCHANGED <<pgRequests, pgBalance>>,
         \A l \in L : pgRequests'[l] = pgRequests[l] \/ <<"request", l>> \in writes,
         \A l \in L : pgRequests[l] # NoRequest =>
           /\ pgRequests'[l] # NoRequest /\ pgRequests'[l].first = pgRequests[l].first
           /\ pgRequests'[l].last = pgRequests[l].last /\ pgRequests'[l].minutes = pgRequests[l].minutes,
         \A l \in L : pgRequests'[l] # NoRequest => pgBalance' # NoBalance,
         \A g \in Flight : g \notin F /\ tx[g].pc = "create" => pgRequests'[tx[g].request] = NoRequest,
         \A d \in Day : pgSheet'[d] = pgSheet[d] \/ <<"sheet", d>> \in writes,
         \/ pgPeriod' = pgPeriod
         \/ \A g \in Flight : g \notin F /\ tx[g].pc = "approve" => tx'[g].precedes /\ tx'[g].follows
  PROVE  PgInv(L)'
<1>1. /\ \A g \in Flight : tx[g] \in PgFlight(L)
      /\ \A g \in Flight : Relies(L, tx[g], pgRequests, pgBalance, pgSheet, pgPeriod)
  BY DEF PgInv, PgTypes
<1>2. ASSUME NEW f \in Flight
      PROVE  Relies(L, tx'[f], pgRequests', pgBalance', pgSheet', pgPeriod')
  <2>1. CASE f \in F
    BY <2>1, IdlePc DEF Relies
  <2>2. CASE f \notin F
    <3>1. PICK t, u, req, bal, sh, per, req2, bal2, sh2, per2 :
            /\ t = tx[f] /\ req = pgRequests /\ bal = pgBalance /\ sh = pgSheet /\ per = pgPeriod
            /\ u = tx'[f] /\ req2 = pgRequests' /\ bal2 = pgBalance' /\ sh2 = pgSheet' /\ per2 = pgPeriod'
      OBVIOUS
    <3>2. t \in PgFlight(L) /\ Learned(L, t, u, writes) /\ Relies(L, t, req, bal, sh, per)
      BY <1>1, <2>2, <3>1
    <3>3. <<"balance">> \in writes \/ (req2 = req /\ bal2 = bal)
      BY <3>1
    <3>4. /\ \A l \in L : req2[l] = req[l] \/ <<"request", l>> \in writes
          /\ \A l \in L : req[l] # NoRequest =>
               /\ req2[l] # NoRequest /\ req2[l].first = req[l].first /\ req2[l].last = req[l].last
               /\ req2[l].minutes = req[l].minutes
      BY <3>1
    <3>5. t.pc = "create" => req2[t.request] = NoRequest
      BY <2>2, <3>1
    <3>6. \A d \in Day : sh2[d] = sh[d] \/ <<"sheet", d>> \in writes
      BY <3>1
    <3>7. per2 = per \/ (t.pc = "approve" => u.precedes /\ u.follows)
      BY <2>2, <3>1
    <3>8. Relies(L, u, req2, bal2, sh2, per2)
      BY <3>2, <3>3, <3>4, <3>5, <3>6, <3>7, ReliesStill
    <3>9. QED
      BY <3>1, <3>8
  <2>3. QED
    BY <2>1, <2>2
<1>3. ASSUME NEW f \in Flight, NEW g \in Flight, tx'[f].pc = "create", tx'[g].pc = "create",
             tx'[f].request = tx'[g].request
      PROVE  f = g
  <2>1. f \notin F /\ g \notin F
    BY <1>3, IdlePc
  <2>2. Learned(L, tx[f], tx'[f], writes) /\ Learned(L, tx[g], tx'[g], writes)
    BY <2>1
  <2>3. tx[f].pc = "create" /\ tx[g].pc = "create" /\ tx[f].request = tx[g].request
    BY <1>3, <2>2 DEF Learned, SerializableKinds
  <2>4. QED
    BY <2>3 DEF PgInv
<1>4. QED
  BY <1>2, <1>3 DEF PgInv

\* A transaction that is told nothing is as it was.
LEMMA LearnedNothing ==
  ASSUME NEW L, NEW t \in PgFlight(L)
  PROVE  Learned(L, t, t, {})
<1>1. t.pc \in SerializableKinds => t.stale = t.stale \cup {}
  OBVIOUS
<1>2. QED
  BY <1>1 DEF Learned

\* A transaction that begins relies on what it has just checked.
LEMMA PgKeepsBegin ==
  ASSUME NEW L, PgInv(L), NEW f \in Flight, NEW t, PgBegin(L, f, t)
  PROVE  PgInv(L)'
<1>1. /\ tx \in [Flight -> PgFlight(L)] /\ tx' = [tx EXCEPT ![f] = t] /\ t \in PgFlight(L)
      /\ UNCHANGED <<pgRequests, pgBalance, pgSheet, pgAllocations, pgPeriod>>
  BY DEF PgInv, PgTypes, PgBegin
<1>2. tx' \in [Flight -> PgFlight(L)] /\ tx'[f] = t /\ \A g \in Flight : g # f => tx'[g] = tx[g]
  BY <1>1
<1>3. PgTypes(L)'
  BY <1>1, <1>2 DEF PgInv, PgTypes
<1>4. \A g \in Flight : Relies(L, tx'[g], pgRequests', pgBalance', pgSheet', pgPeriod')
  BY <1>1, <1>2 DEF PgInv, PgBegin
<1>5. \A g, h \in Flight :
        tx'[g].pc = "create" /\ tx'[h].pc = "create" /\ tx'[g].request = tx'[h].request => g = h
  BY <1>2 DEF PgInv, PgBegin
<1>6. QED
  BY <1>1, <1>3, <1>4, <1>5 DEF PgInv

\* Nothing is written by one that is rolled back.
LEMMA PgKeepsRollBack ==
  ASSUME NEW L, PgInv(L), NEW f \in Flight, PgRollBack(L, f)
  PROVE  PgInv(L)'
<1>1. /\ tx' \in [Flight -> PgFlight(L)] /\ \A g \in Flight : g \in {f} => tx'[g] = Idle
      /\ \A g \in Flight : g \notin {f} => Learned(L, tx[g], tx'[g], {})
      /\ UNCHANGED <<pgRequests, pgBalance, pgSheet, pgAllocations, pgPeriod>>
  BY DEF PgRollBack, Ended
<1>2. PgTypes(L)'
  BY <1>1 DEF PgInv, PgTypes
<1>3. /\ \A l \in L : pgRequests'[l] # NoRequest => pgBalance' # NoBalance
      /\ \A g \in Flight : g \notin {f} /\ tx[g].pc = "create" => pgRequests'[tx[g].request] = NoRequest
  BY <1>1 DEF PgInv, Relies
<1>4. QED
  BY <1>1, <1>2, <1>3, PgKeeps

\* The entitlement is told to those in flight.
LEMMA PgKeepsSetBalance ==
  ASSUME NEW L, PgInv(L), NEW minutes \in Entitlement, PgSetBalance(L, minutes)
  PROVE  PgInv(L)'
<1>1. /\ tx' \in [Flight -> PgFlight(L)] /\ \A g \in Flight : Learned(L, tx[g], tx'[g], {<<"balance">>})
      /\ UNCHANGED <<pgRequests, pgSheet, pgAllocations, pgPeriod>>
  BY DEF PgSetBalance
<1>2. pgBalance.used \in Nat /\ pgBalance.pending \in Int
  BY DEF PgInv, PgTypes, Balance, NoBalance
<1>3. pgBalance' \in Balance /\ pgBalance' # NoBalance
  BY <1>2, LeaveRequestsAssumption DEF PgSetBalance, Balance, NoBalance
<1>4. PgTypes(L)'
  BY <1>1, <1>3 DEF PgInv, PgTypes
<1>5. \A g \in Flight : tx[g].pc = "create" => pgRequests'[tx[g].request] = NoRequest
  BY <1>1 DEF PgInv, Relies
<1>6. PICK F, writes : F = {} /\ writes = {<<"balance">>}
  OBVIOUS
<1>7. /\ \A g \in Flight : g \in F => tx'[g] = Idle
      /\ \A g \in Flight : g \notin F => Learned(L, tx[g], tx'[g], writes)
      /\ \A g \in Flight : g \notin F /\ tx[g].pc = "create" => pgRequests'[tx[g].request] = NoRequest
      /\ <<"balance">> \in writes
  BY <1>1, <1>5, <1>6
<1>8. QED
  BY <1>1, <1>3, <1>4, <1>7, PgKeeps

\* A clock action and the lock of the period.
LEMMA PgKeepsSheets ==
  ASSUME NEW L, PgInv(L), NEW f \in Flight, PgSheets(L, f)
  PROVE  PgInv(L)'
<1>1. PICK writes : Ended(L, f, writes)
                      /\ \A d \in Day : pgSheet'[d] = pgSheet[d] \/ <<"sheet", d>> \in writes
  BY DEF PgSheets
<1>2. /\ tx' \in [Flight -> PgFlight(L)] /\ \A g \in Flight : g \in {f} => tx'[g] = Idle
      /\ \A g \in Flight : g \notin {f} => Learned(L, tx[g], tx'[g], writes)
      /\ UNCHANGED <<pgRequests, pgBalance, pgAllocations>>
  BY <1>1 DEF PgSheets, Ended
<1>3. PgTypes(L)'
  BY <1>2 DEF PgInv, PgTypes, PgSheets
<1>4. /\ \A l \in L : pgRequests'[l] # NoRequest => pgBalance' # NoBalance
      /\ \A g \in Flight : g \notin {f} /\ tx[g].pc = "create" => pgRequests'[tx[g].request] = NoRequest
  BY <1>2 DEF PgInv, Relies
<1>5. \/ pgPeriod' = pgPeriod
      \/ \A g \in Flight : g \notin {f} /\ tx[g].pc = "approve" => tx'[g].precedes /\ tx'[g].follows
  BY DEF PgSheets
<1>6. QED
  BY <1>1, <1>2, <1>3, <1>4, <1>5, PgKeeps

\* A balance row that is there is no NoBalance.
LEMMA RowOfNumbers ==
  ASSUME NEW bal \in Balance
  PROVE  bal # NoBalance /\ bal.used \in Nat /\ bal.pending \in Int /\ bal.entitled \in Int
BY LeaveRequestsAssumption DEF Balance, NoBalance

\* The balance row that the upsert leaves.
LEMMA UpsertIsRow ==
  ASSUME NEW bal \in Balance \cup {NoBalance}
  PROVE  UpsertOf(bal) \in Balance /\ UpsertOf(bal).pending = bal.pending /\ UpsertOf(bal).used = bal.used
<1>1. CASE bal = NoBalance
  BY <1>1, LeaveRequestsAssumption DEF UpsertOf, Balance, NoBalance
<1>2. CASE bal # NoBalance
  BY <1>2 DEF UpsertOf
<1>3. QED
  BY <1>1, <1>2

\* A creation inserts a row for days that no active request covers, and reserves minutes
\* that are left.
LEMMA CreatedRow ==
  ASSUME NEW L, PgInv(L), NEW f \in Flight, PgCreate(L, f)
  PROVE  \E l \in L, row \in Request :
           /\ l = tx[f].request /\ pgRequests[l] = NoRequest /\ row.status = "PENDING"
           /\ pgRequests' \in [L -> Rows] /\ pgRequests'[l] = row
           /\ \A m \in L : m # l => pgRequests'[m] = pgRequests[m]
           /\ \A m \in L : IsActive(pgRequests[m]) => ~ Overlap(pgRequests[m], row)
           /\ pgBalance' \in Balance /\ pgBalance'.used = pgBalance.used
           /\ pgBalance'.pending = pgBalance.pending + row.minutes
           /\ pgBalance'.used + pgBalance'.pending <= pgBalance'.entitled
<1>1. PICK t : t = tx[f]
  OBVIOUS
<1>2. /\ t \in PgFlight(L) /\ t.pc = "create" /\ <<"balance">> \notin t.stale
      /\ Relies(L, t, pgRequests, pgBalance, pgSheet, pgPeriod)
  BY <1>1 DEF PgInv, PgTypes, PgCreate
<1>3. t \in PgTransaction(L)
  BY <1>2, PgKinds DEF SerializableKinds
<1>4. PICK l \in L : l = t.request
  BY <1>3 DEF PgTransaction
<1>5. PICK row : row = [status |-> "PENDING", first |-> t.first, last |-> t.last, minutes |-> t.minutes]
  OBVIOUS
<1>6. t.first \in Day /\ t.last \in Day /\ t.minutes \in 1..MaxMinutes
  <2>1. t.minutes \in 0..MaxMinutes /\ t.first \in Day /\ t.last \in Day
    BY <1>3 DEF PgTransaction
  <2>2. t.minutes > 0
    BY <1>2 DEF Relies
  <2>3. QED
    BY <2>1, <2>2, LeaveRequestsAssumption
<1>7. /\ row \in Request /\ row.status = "PENDING" /\ row.minutes = t.minutes
      /\ row.first = t.first /\ row.last = t.last
  BY <1>5, <1>6 DEF Request
<1>8. pgRequests[l] = NoRequest
  BY <1>2, <1>4 DEF Relies
<1>9. pgRequests \in [L -> Rows] /\ pgRequests' = [pgRequests EXCEPT ![l] = row] /\ row \in Rows
  BY <1>1, <1>4, <1>5, <1>7 DEF PgInv, PgTypes, PgCreate, Rows
<1>10. /\ pgRequests' \in [L -> Rows] /\ pgRequests'[l] = row
       /\ \A m \in L : m # l => pgRequests'[m] = pgRequests[m]
  BY <1>9
<1>11. /\ \A m \in L : IsActive(pgRequests[m]) => ~ Overlap(pgRequests[m], t)
       /\ Available(UpsertOf(pgBalance)) >= t.minutes
  BY <1>2 DEF Relies
<1>12. \A m \in L : IsActive(pgRequests[m]) => ~ Overlap(pgRequests[m], row)
  BY <1>7, <1>11 DEF Overlap
<1>13. PICK bal : bal = UpsertOf(pgBalance)
  OBVIOUS
<1>14. bal \in Balance /\ bal.pending = pgBalance.pending /\ bal.used = pgBalance.used
  BY <1>13, UpsertIsRow DEF PgInv, PgTypes
<1>15. pgBalance' = [bal EXCEPT !.pending = @ + t.minutes] /\ t.minutes \in Int
  BY <1>1, <1>6, <1>13 DEF PgCreate
<1>16. /\ pgBalance' \in Balance /\ pgBalance'.used = bal.used /\ pgBalance'.entitled = bal.entitled
       /\ pgBalance'.pending = bal.pending + t.minutes
  BY <1>14, <1>15 DEF Balance
<1>17. bal.used \in Int /\ bal.pending \in Int /\ bal.entitled \in Int
  BY <1>14, RowOfNumbers
<1>18. bal.entitled - bal.used - bal.pending >= t.minutes
  BY <1>11, <1>13 DEF Available
<1>19. pgBalance'.used + pgBalance'.pending <= pgBalance'.entitled
  BY <1>15, <1>16, <1>17, <1>18
<1>20. QED
  BY <1>1, <1>4, <1>7, <1>8, <1>10, <1>12, <1>14, <1>16, <1>19

\* A creation keeps the invariant.
LEMMA PgKeepsCreate ==
  ASSUME NEW L, PgInv(L), NEW f \in Flight, PgCreate(L, f)
  PROVE  PgInv(L)'
<1>1. PICK l \in L, row \in Request :
        /\ l = tx[f].request /\ pgRequests[l] = NoRequest
        /\ pgRequests' \in [L -> Rows] /\ pgRequests'[l] = row
        /\ \A m \in L : m # l => pgRequests'[m] = pgRequests[m]
        /\ pgBalance' \in Balance
  BY CreatedRow
<1>2. PICK writes : writes = {<<"request", l>>, <<"balance">>}
  OBVIOUS
<1>3. /\ tx' \in [Flight -> PgFlight(L)] /\ \A g \in Flight : g \in {f} => tx'[g] = Idle
      /\ \A g \in Flight : g \notin {f} => Learned(L, tx[g], tx'[g], writes)
      /\ UNCHANGED <<pgSheet, pgAllocations, pgPeriod>>
  BY <1>1, <1>2 DEF PgCreate, Ended
<1>4. pgBalance' # NoBalance
  BY <1>1, RowOfNumbers
<1>5. PgTypes(L)'
  BY <1>1, <1>3 DEF PgInv, PgTypes
<1>6. \A m \in L : pgRequests'[m] = pgRequests[m] \/ <<"request", m>> \in writes
  BY <1>1, <1>2
<1>7. \A m \in L : pgRequests[m] # NoRequest => pgRequests'[m] = pgRequests[m]
  BY <1>1
<1>8. \A g \in Flight : g \notin {f} /\ tx[g].pc = "create" => pgRequests'[tx[g].request] = NoRequest
  <2> SUFFICES ASSUME NEW g \in Flight, g # f, tx[g].pc = "create"
               PROVE  pgRequests'[tx[g].request] = NoRequest
    OBVIOUS
  <2>1. tx[g].request \in L
    BY PgKinds DEF PgInv, PgTypes, SerializableKinds
  <2>2. tx[g].request # l
    BY <1>1 DEF PgInv, PgCreate
  <2>3. pgRequests[tx[g].request] = NoRequest
    BY DEF PgInv, Relies
  <2>4. QED
    BY <1>1, <2>1, <2>2, <2>3
<1>9. <<"balance">> \in writes
  BY <1>2
<1>10. QED
  BY <1>3, <1>4, <1>5, <1>6, <1>7, <1>8, <1>9, PgKeeps

\* The request l gets a status, the balance its minutes back, and an approval uses them.
Decides(l, decision) ==
  /\ pgRequests' = [pgRequests EXCEPT ![l].status = decision]
  /\ IF decision = "APPROVED"
     THEN pgBalance' = [[pgBalance EXCEPT !.pending = @ - pgRequests[l].minutes]
                           EXCEPT !.used = @ + pgRequests[l].minutes]
     ELSE pgBalance' = [pgBalance EXCEPT !.pending = @ - pgRequests[l].minutes]

\* A decision changes the status of a row that is there, and the balance by its minutes.
LEMMA DecidedRow ==
  ASSUME NEW L, PgInv(L), NEW l \in L, pgRequests[l] # NoRequest,
         NEW decision \in {"APPROVED", "REJECTED", "CANCELLED"}, Decides(l, decision)
  PROVE  /\ pgRequests' \in [L -> Rows] /\ pgRequests'[l].status = decision
         /\ \A m \in L : m # l => pgRequests'[m] = pgRequests[m]
         /\ \A m \in L : /\ pgRequests'[m] = NoRequest <=> pgRequests[m] = NoRequest
                         /\ pgRequests'[m].first = pgRequests[m].first
                         /\ pgRequests'[m].last = pgRequests[m].last
                         /\ pgRequests'[m].minutes = pgRequests[m].minutes
         /\ pgBalance' \in Balance /\ pgBalance' # NoBalance
         /\ pgRequests[l] \in Request /\ pgRequests[l].minutes \in Nat
         /\ pgBalance'.pending = pgBalance.pending - pgRequests[l].minutes
         /\ decision # "APPROVED" => pgBalance'.used = pgBalance.used
         /\ decision = "APPROVED" => pgBalance'.used = pgBalance.used + pgRequests[l].minutes
<1>1. PICK req, new, bal, b, minutes :
        /\ req = pgRequests /\ new = pgRequests' /\ bal = pgBalance /\ b = pgBalance'
        /\ minutes = req[l].minutes
  OBVIOUS
<1>2. req \in [L -> Rows] /\ bal \in Balance /\ req[l] # NoRequest
  BY <1>1 DEF PgInv, PgTypes
<1>3. req[l] \in Request /\ minutes \in Nat
  BY <1>1, <1>2, OneRow
<1>4. new = [req EXCEPT ![l].status = decision]
  BY <1>1 DEF Decides
<1>5. /\ new \in [L -> Rows] /\ new[l].status = decision /\ new[l].minutes = req[l].minutes
      /\ new[l].first = req[l].first /\ new[l].last = req[l].last
      /\ \A m \in L : m # l => new[m] = req[m]
      /\ \A m \in L : new[m] = NoRequest <=> req[m] = NoRequest
  BY <1>2, <1>4, RowDecided
<1>6. /\ decision # "APPROVED" => b = [bal EXCEPT !.pending = @ - minutes]
      /\ decision = "APPROVED" => b = [[bal EXCEPT !.pending = @ - minutes] EXCEPT !.used = @ + minutes]
  BY <1>1 DEF Decides
<1>7. /\ b \in Balance /\ b.entitled = bal.entitled /\ b.pending = bal.pending - minutes
      /\ b = [bal EXCEPT !.pending = @ - minutes] => b.used = bal.used
      /\ b = [[bal EXCEPT !.pending = @ - minutes] EXCEPT !.used = @ + minutes]
           => b.used = bal.used + minutes
  BY <1>2, <1>3, <1>6, BalanceReleased
<1>8. b # NoBalance
  BY <1>7, RowOfNumbers
<1>9. \A m \in L : new[m].first = req[m].first /\ new[m].last = req[m].last
        /\ new[m].minutes = req[m].minutes
  BY <1>5
<1>10. /\ decision # "APPROVED" => b.used = bal.used
       /\ decision = "APPROVED" => b.used = bal.used + minutes
  BY <1>6, <1>7
<1>11. QED
  BY <1>1, <1>3, <1>5, <1>7, <1>8, <1>9, <1>10

\* A rejection and a cancellation keep the invariant.
LEMMA PgKeepsDecide ==
  ASSUME NEW L, PgInv(L), NEW f \in Flight, NEW decision \in {"REJECTED", "CANCELLED"},
         PgDecide(L, f, decision)
  PROVE  PgInv(L)'
<1>1. PICK t : t = tx[f]
  OBVIOUS
<1>2. t \in PgFlight(L) /\ t.pc \in {"reject", "cancel"}
        /\ Relies(L, t, pgRequests, pgBalance, pgSheet, pgPeriod)
  BY <1>1 DEF PgInv, PgTypes, PgDecide
<1>3. PICK l \in L : l = t.request
  BY <1>2, PgKinds DEF SerializableKinds
<1>4. pgRequests[l] # NoRequest
  BY <1>2, <1>3 DEF Relies
<1>5. /\ pgRequests' = [pgRequests EXCEPT ![l].status = decision]
      /\ pgBalance' = [pgBalance EXCEPT !.pending = @ - pgRequests[l].minutes]
      /\ UNCHANGED <<pgSheet, pgAllocations, pgPeriod>>
  BY <1>1, <1>3 DEF PgDecide
<1>6. /\ pgRequests' \in [L -> Rows]
      /\ \A m \in L : m # l => pgRequests'[m] = pgRequests[m]
      /\ \A m \in L : /\ pgRequests'[m] = NoRequest <=> pgRequests[m] = NoRequest
                      /\ pgRequests'[m].first = pgRequests[m].first
                      /\ pgRequests'[m].last = pgRequests[m].last
                      /\ pgRequests'[m].minutes = pgRequests[m].minutes
      /\ pgBalance' \in Balance /\ pgBalance' # NoBalance
  <2>1. decision \in {"APPROVED", "REJECTED", "CANCELLED"}
    OBVIOUS
  <2>2. Decides(l, decision)
    BY <1>5 DEF Decides
  <2>3. QED
    BY <1>4, <2>1, <2>2, DecidedRow
<1>7. PICK writes : writes = {<<"request", l>>, <<"balance">>}
  OBVIOUS
<1>8. /\ tx' \in [Flight -> PgFlight(L)] /\ \A g \in Flight : g \in {f} => tx'[g] = Idle
      /\ \A g \in Flight : g \notin {f} => Learned(L, tx[g], tx'[g], writes)
  BY <1>1, <1>3, <1>7 DEF PgDecide, Ended
<1>9. PgTypes(L)'
  BY <1>5, <1>6, <1>8 DEF PgInv, PgTypes
<1>10. \A g \in Flight : g \notin {f} /\ tx[g].pc = "create" => pgRequests'[tx[g].request] = NoRequest
  <2> SUFFICES ASSUME NEW g \in Flight, tx[g].pc = "create"
               PROVE  pgRequests'[tx[g].request] = NoRequest
    OBVIOUS
  <2>1. tx[g].request \in L
    BY PgKinds DEF PgInv, PgTypes, SerializableKinds
  <2>2. pgRequests[tx[g].request] = NoRequest
    BY DEF PgInv, Relies
  <2>3. QED
    BY <1>6, <2>1, <2>2
<1>11. <<"balance">> \in writes
         /\ \A m \in L : pgRequests'[m] = pgRequests[m] \/ <<"request", m>> \in writes
  BY <1>6, <1>7
<1>12. QED
  BY <1>5, <1>6, <1>8, <1>9, <1>10, <1>11, PgKeeps

\* An approval keeps the invariant.
LEMMA PgKeepsApprove ==
  ASSUME NEW L, PgInv(L), NEW f \in Flight, PgApprove(L, f)
  PROVE  PgInv(L)'
<1>1. PICK t : t = tx[f]
  OBVIOUS
<1>2. t \in PgFlight(L) /\ t.pc = "approve" /\ Relies(L, t, pgRequests, pgBalance, pgSheet, pgPeriod)
  BY <1>1 DEF PgInv, PgTypes, PgApprove
<1>3. t \in PgTransaction(L)
  BY <1>2, PgKinds DEF SerializableKinds
<1>4. PICK l \in L : l = t.request
  BY <1>3 DEF PgTransaction
<1>5. PICK rows : rows = PlanRows(l, pgRequests[l])
  OBVIOUS
<1>6. pgRequests[l] # NoRequest
  BY <1>2, <1>4 DEF Relies
<1>7. Decides(l, "APPROVED")
  BY <1>1, <1>4 DEF PgApprove, Decides
<1>8. /\ pgRequests' \in [L -> Rows]
      /\ \A m \in L : m # l => pgRequests'[m] = pgRequests[m]
      /\ \A m \in L : /\ pgRequests'[m] = NoRequest <=> pgRequests[m] = NoRequest
                      /\ pgRequests'[m].first = pgRequests[m].first
                      /\ pgRequests'[m].last = pgRequests[m].last
                      /\ pgRequests'[m].minutes = pgRequests[m].minutes
      /\ pgBalance' \in Balance /\ pgBalance' # NoBalance /\ pgRequests[l] \in Request
  <2>1. "APPROVED" \in {"APPROVED", "REJECTED", "CANCELLED"}
    OBVIOUS
  <2>2. QED
    BY <1>6, <1>7, <2>1, DecidedRow
<1>9. t.seen \in [Day -> Sheet] /\ pgSheet \in [Day -> Sheet]
  BY <1>3 DEF PgTransaction, PgInv, PgTypes
<1>10. /\ pgSheet' = Written(rows, t.seen, pgSheet) /\ pgAllocations' = pgAllocations \cup rows
       /\ pgPeriod' = pgPeriod
  BY <1>1, <1>4, <1>5 DEF PgApprove
<1>11. PICK r, seen, sh, sh2 : r = pgRequests[l] /\ seen = t.seen /\ sh = pgSheet /\ sh2 = pgSheet'
  OBVIOUS
<1>12. sh2 \in [Day -> Sheet] /\ \A d \in Day : (~ \E a \in rows : a.day = d) => sh2[d] = sh[d]
  <2>1. r \in Request /\ seen \in [Day -> Sheet] /\ sh \in [Day -> Sheet]
    BY <1>8, <1>9, <1>11
  <2>2. rows = PlanRows(l, r) /\ sh2 = Written(rows, seen, sh)
    BY <1>5, <1>10, <1>11
  <2>3. QED
    BY <2>1, <2>2, WrittenSheets
<1>13. rows \subseteq [request : L, day : Day, minutes : Nat]
  <2>1. rows \subseteq AllocationOf(l)
    BY <1>5, <1>8, PlannedRows
  <2>2. QED
    BY <2>1 DEF AllocationOf
<1>14. PICK writes : /\ Ended(L, f, writes) /\ <<"request", l>> \in writes /\ <<"balance">> \in writes
                     /\ \A a \in rows : <<"sheet", a.day>> \in writes
  BY <1>1, <1>4, <1>5 DEF PgApprove
<1>15. /\ tx' \in [Flight -> PgFlight(L)] /\ \A g \in Flight : g \in {f} => tx'[g] = Idle
       /\ \A g \in Flight : g \notin {f} => Learned(L, tx[g], tx'[g], writes)
  BY <1>14 DEF Ended
<1>16. PgTypes(L)'
  BY <1>8, <1>10, <1>11, <1>12, <1>13, <1>15 DEF PgInv, PgTypes
<1>17. \A g \in Flight : g \notin {f} /\ tx[g].pc = "create" => pgRequests'[tx[g].request] = NoRequest
  <2> SUFFICES ASSUME NEW g \in Flight, tx[g].pc = "create"
               PROVE  pgRequests'[tx[g].request] = NoRequest
    OBVIOUS
  <2>1. tx[g].request \in L
    BY PgKinds DEF PgInv, PgTypes, SerializableKinds
  <2>2. pgRequests[tx[g].request] = NoRequest
    BY DEF PgInv, Relies
  <2>3. QED
    BY <1>8, <2>1, <2>2
<1>18. \A m \in L : pgRequests'[m] = pgRequests[m] \/ <<"request", m>> \in writes
  BY <1>8, <1>14
<1>19. \A d \in Day : pgSheet'[d] = pgSheet[d] \/ <<"sheet", d>> \in writes
  BY <1>11, <1>12, <1>14
<1>20. QED
  BY <1>8, <1>10, <1>14, <1>15, <1>16, <1>17, <1>18, <1>19, PgKeeps

\* Every step keeps the invariant.
LEMMA PgStepKeeps ==
  ASSUME NEW L, NEW K, PgInv(L), PgStep(L, K)
  PROVE  PgInv(L)'
<1>1. ASSUME NEW f \in Flight, NEW t, PgBegin(L, f, t) PROVE PgInv(L)'
  BY <1>1, PgKeepsBegin
<1>2. ASSUME NEW f \in Flight, PgCreate(L, f) PROVE PgInv(L)'
  BY <1>2, PgKeepsCreate
<1>3. ASSUME NEW f \in Flight, PgApprove(L, f) PROVE PgInv(L)'
  BY <1>3, PgKeepsApprove
<1>4. ASSUME NEW f \in Flight, NEW decision \in {"REJECTED", "CANCELLED"}, PgDecide(L, f, decision)
      PROVE  PgInv(L)'
  BY <1>4, PgKeepsDecide
<1>5. ASSUME NEW f \in Flight, PgSheets(L, f) PROVE PgInv(L)'
  BY <1>5, PgKeepsSheets
<1>6. ASSUME NEW f \in Flight, PgRollBack(L, f) PROVE PgInv(L)'
  BY <1>6, PgKeepsRollBack
<1>7. ASSUME NEW minutes \in Entitlement, PgSetBalance(L, minutes) PROVE PgInv(L)'
  BY <1>7, PgKeepsSetBalance
<1>8. QED
  BY <1>1, <1>2, <1>3, <1>4, <1>5, <1>6, <1>7 DEF PgStep

-----------------------------------------------------------------------------
(* PostgreSQL, part "requests": nothing is cancelled and nobody clocks in. *)

\* The records of the year.
PgBooks == Books(pgRequests, pgBalance, pgSheet, pgAllocations)

\* What the part "requests" keeps.
PgRecords ==
  /\ PgInv(Leave) /\ PgBooks
  /\ \A f \in Flight : tx[f].pc \notin {"cancel", "clock"}

\* The transaction that commits decides on a request that is pending still.
LEMMA StillPending ==
  ASSUME NEW L, PgInv(L), NEW f \in Flight, tx[f].pc \in {"approve", "reject"},
         <<"request", tx[f].request>> \notin tx[f].stale
  PROVE  /\ tx[f].request \in L /\ tx[f] \in PgTransaction(L)
         /\ pgRequests[tx[f].request].status = "PENDING" /\ pgRequests[tx[f].request] # NoRequest
<1>1. tx[f] \in PgFlight(L) /\ Relies(L, tx[f], pgRequests, pgBalance, pgSheet, pgPeriod)
  BY DEF PgInv, PgTypes
<1>2. tx[f].request \in L /\ tx[f] \in PgTransaction(L)
  BY <1>1, PgKinds DEF SerializableKinds
<1>3. QED
  BY <1>1, <1>2 DEF Relies

\* A creation keeps the books.
LEMMA PgBooksCreate ==
  ASSUME PgRecords, NEW f \in Flight, PgCreate(Leave, f)
  PROVE  PgBooks'
<1>1. PgInv(Leave) /\ PgBooks
  BY DEF PgRecords
<1>2. PICK l \in Leave, row \in Request :
        /\ pgRequests[l] = NoRequest /\ row.status = "PENDING"
        /\ pgRequests' \in [Leave -> Rows] /\ pgRequests'[l] = row
        /\ \A m \in Leave : m # l => pgRequests'[m] = pgRequests[m]
        /\ \A m \in Leave : IsActive(pgRequests[m]) => ~ Overlap(pgRequests[m], row)
        /\ pgBalance'.used = pgBalance.used
        /\ pgBalance'.pending = pgBalance.pending + row.minutes
  BY <1>1, CreatedRow
<1>3. PICK req, new, bal, b, sh, alloc :
        /\ req = pgRequests /\ new = pgRequests' /\ bal = pgBalance /\ b = pgBalance'
        /\ sh = pgSheet /\ alloc = pgAllocations
  OBVIOUS
<1>4. /\ req \in [Leave -> Rows] /\ new \in [Leave -> Rows] /\ Books(req, bal, sh, alloc)
      /\ req[l] = NoRequest /\ row.status = "PENDING" /\ new[l] = row
  BY <1>1, <1>2, <1>3 DEF PgInv, PgTypes, PgBooks
<1>5. /\ \A m \in Leave : m # l => new[m] = req[m]
      /\ \A m \in Leave : IsActive(req[m]) => ~ Overlap(req[m], row)
      /\ b.used = bal.used /\ b.pending = bal.pending + row.minutes
  BY <1>2, <1>3
<1>6. Books(new, b, sh, alloc)
  BY <1>4, <1>5, BooksCreated
<1>7. pgSheet' = sh /\ pgAllocations' = alloc
  BY <1>3 DEF PgCreate
<1>8. QED
  BY <1>3, <1>6, <1>7 DEF PgBooks

\* A rejection keeps the books.
LEMMA PgBooksDecide ==
  ASSUME PgRecords, NEW f \in Flight, NEW decision \in {"REJECTED", "CANCELLED"},
         PgDecide(Leave, f, decision)
  PROVE  PgBooks'
<1>1. PgInv(Leave) /\ PgBooks /\ tx[f].pc \notin {"cancel", "clock"}
  BY DEF PgRecords
<1>2. PICK l : l = tx[f].request
  OBVIOUS
<1>3. tx[f].pc = "reject" /\ <<"request", l>> \notin tx[f].stale
  BY <1>1, <1>2 DEF PgDecide
<1>4. l \in Leave /\ pgRequests[l].status = "PENDING" /\ pgRequests[l] # NoRequest
  BY <1>1, <1>2, <1>3, StillPending
<1>5. decision \in {"APPROVED", "REJECTED", "CANCELLED"} /\ decision # "APPROVED" /\ Decides(l, decision)
  BY <1>2 DEF PgDecide, Decides
<1>6. PICK req, new, bal, b, sh, alloc :
        /\ req = pgRequests /\ new = pgRequests' /\ bal = pgBalance /\ b = pgBalance'
        /\ sh = pgSheet /\ alloc = pgAllocations
  OBVIOUS
<1>7. /\ new \in [Leave -> Rows] /\ new[l].status = decision
      /\ \A m \in Leave : m # l => new[m] = req[m]
      /\ new[l].minutes = req[l].minutes /\ new[l].first = req[l].first /\ new[l].last = req[l].last
      /\ b.pending = bal.pending - req[l].minutes /\ b.used = bal.used
  BY <1>1, <1>4, <1>5, <1>6, DecidedRow
<1>8. req \in [Leave -> Rows] /\ Books(req, bal, sh, alloc) /\ req[l].status = "PENDING"
  BY <1>1, <1>4, <1>6 DEF PgInv, PgTypes, PgBooks
<1>9. Books(new, b, sh, alloc)
  BY <1>4, <1>7, <1>8, BooksDecided
<1>10. pgSheet' = sh /\ pgAllocations' = alloc
  BY <1>6 DEF PgDecide
<1>11. QED
  BY <1>6, <1>9, <1>10 DEF PgBooks

\* The days of an approval are still those it saw, whoever wrote to others since.
LEMMA ApprovedSheets ==
  ASSUME NEW L, PgInv(L), NEW f \in Flight, PgApprove(L, f)
  PROVE  LET rows == PlanRows(tx[f].request, pgRequests[tx[f].request])
         IN /\ pgRequests[tx[f].request] \in Request
            /\ \A d \in Day : (~ \E a \in rows : a.day = d) => pgSheet'[d] = pgSheet[d]
            /\ \A a \in rows : /\ a.day \in Day /\ a.day \in DaysOf(pgRequests[tx[f].request])
                               /\ pgSheet'[a.day].leave = pgSheet[a.day].leave + a.minutes
                               /\ pgSheet[a.day].state = "OPEN" => pgSheet'[a.day].state = "OPEN"
<1>1. PICK t : t = tx[f]
  OBVIOUS
<1>2. t.pc = "approve" /\ <<"request", t.request>> \notin t.stale
  BY <1>1 DEF PgApprove
<1>3. t \in PgTransaction(L) /\ t.request \in L /\ pgRequests[t.request] # NoRequest
  BY <1>1, <1>2, StillPending
<1>4. PICK l, r, rows, seen, sh, new :
        /\ l \in L /\ l = t.request /\ r = pgRequests[l] /\ rows = PlanRows(l, r) /\ seen = t.seen
        /\ sh = pgSheet /\ new = pgSheet'
  BY <1>3
<1>5. r \in Request /\ seen \in [Day -> Sheet] /\ sh \in [Day -> Sheet]
  <2>1. r \in Rows /\ r # NoRequest
    BY <1>3, <1>4 DEF PgInv, PgTypes
  <2>2. QED
    BY <1>3, <1>4, <2>1, OneRow DEF PgTransaction, PgInv, PgTypes
<1>6. new = Written(rows, seen, sh)
  BY <1>1, <1>4 DEF PgApprove
<1>7. /\ \A d \in Day : (~ \E a \in rows : a.day = d) => new[d] = sh[d]
      /\ \A a \in rows : /\ new[a.day].leave = seen[a.day].leave + a.minutes
                         /\ seen[a.day].state = "OPEN" => new[a.day].state = "OPEN"
  BY <1>4, <1>5, <1>6, WrittenSheets
<1>8. \A a \in rows : a.day \in DaysOf(r) /\ a.day \in Day
  BY <1>4, <1>5, PlannedRows DEF AllocationOf
<1>9. \A a \in rows : seen[a.day] = sh[a.day]
  <2>1. Relies(L, t, pgRequests, pgBalance, pgSheet, pgPeriod)
    BY <1>1 DEF PgInv
  <2>2. \A d \in Day : <<"sheet", d>> \notin t.stale => t.seen[d] = pgSheet[d]
    BY <1>2, <2>1 DEF Relies
  <2>3. \A a \in rows : <<"sheet", a.day>> \notin t.stale
    BY <1>1, <1>4 DEF PgApprove
  <2>4. QED
    BY <1>4, <1>8, <2>2, <2>3
<1>10. QED
  BY <1>1, <1>4, <1>5, <1>7, <1>8, <1>9

\* An approval keeps the books.
LEMMA PgBooksApprove ==
  ASSUME PgRecords, NEW f \in Flight, PgApprove(Leave, f)
  PROVE  PgBooks'
<1>1. PgInv(Leave) /\ PgBooks
  BY DEF PgRecords
<1>2. PICK l : l = tx[f].request
  OBVIOUS
<1>3. tx[f].pc = "approve" /\ <<"request", l>> \notin tx[f].stale
  BY <1>2 DEF PgApprove
<1>4. l \in Leave /\ pgRequests[l].status = "PENDING" /\ pgRequests[l] # NoRequest
  BY <1>1, <1>2, <1>3, StillPending
<1>5. "APPROVED" \in {"APPROVED", "REJECTED", "CANCELLED"} /\ Decides(l, "APPROVED")
  BY <1>2 DEF PgApprove, Decides
<1>6. PICK req, new, bal, b, sh, sh2, alloc :
        /\ req = pgRequests /\ new = pgRequests' /\ bal = pgBalance /\ b = pgBalance'
        /\ sh = pgSheet /\ sh2 = pgSheet' /\ alloc = pgAllocations
  OBVIOUS
<1>7. /\ new \in [Leave -> Rows] /\ new[l].status = "APPROVED"
      /\ \A m \in Leave : m # l => new[m] = req[m]
      /\ new[l].minutes = req[l].minutes /\ new[l].first = req[l].first /\ new[l].last = req[l].last
      /\ b.pending = bal.pending - req[l].minutes /\ b.used = bal.used + req[l].minutes
  BY <1>1, <1>4, <1>5, <1>6, DecidedRow
<1>8. req \in [Leave -> Rows] /\ Books(req, bal, sh, alloc) /\ req[l].status = "PENDING"
  BY <1>1, <1>4, <1>6 DEF PgInv, PgTypes, PgBooks
<1>9. /\ \A d \in Day : (~ \E a \in PlanRows(l, req[l]) : a.day = d) => sh2[d].leave = sh[d].leave
      /\ \A a \in PlanRows(l, req[l]) : sh2[a.day].leave = sh[a.day].leave + a.minutes
  BY <1>1, <1>2, <1>6, ApprovedSheets
<1>10. HasRoom(Scheduled, DaysOf(req[l]), req[l].minutes)
  BY <1>1, <1>2, <1>3, <1>6 DEF PgInv, Relies
<1>11. Books(new, b, sh2, alloc \cup PlanRows(l, req[l]))
  BY <1>4, <1>7, <1>8, <1>9, <1>10, BooksApproved
<1>12. pgAllocations' = alloc \cup PlanRows(l, req[l])
  BY <1>2, <1>6 DEF PgApprove
<1>13. QED
  BY <1>6, <1>11, <1>12 DEF PgBooks

\* Steps that change no minutes keep the books.
LEMMA PgBooksSame ==
  ASSUME PgBooks, pgRequests' = pgRequests, pgAllocations' = pgAllocations,
         pgBalance'.pending = pgBalance.pending, pgBalance'.used = pgBalance.used,
         \A d \in Day : pgSheet'[d].leave = pgSheet[d].leave
  PROVE  PgBooks'
<1>1. PICK req, bal, b, sh, sh2, alloc :
        /\ req = pgRequests /\ bal = pgBalance /\ b = pgBalance'
        /\ sh = pgSheet /\ sh2 = pgSheet' /\ alloc = pgAllocations
  OBVIOUS
<1>2. /\ Books(req, bal, sh, alloc) /\ b.pending = bal.pending /\ b.used = bal.used
      /\ \A d \in Day : sh2[d].leave = sh[d].leave
  BY <1>1 DEF PgBooks
<1>3. Books(req, b, sh2, alloc)
  BY <1>2, BooksSame
<1>4. QED
  BY <1>1, <1>3 DEF PgBooks

\* The books are kept by every step.
LEMMA PgBooksKeeps ==
  ASSUME PgRecords, NEW K, PgStep(Leave, K)
  PROVE  PgBooks'
<1> USE DEF PgRecords
<1>1. ASSUME NEW f \in Flight, NEW t, PgBegin(Leave, f, t) PROVE PgBooks'
  BY <1>1, PgBooksSame DEF PgBegin
<1>2. ASSUME NEW f \in Flight, PgCreate(Leave, f) PROVE PgBooks'
  BY <1>2, PgBooksCreate
<1>3. ASSUME NEW f \in Flight, PgApprove(Leave, f) PROVE PgBooks'
  BY <1>3, PgBooksApprove
<1>4. ASSUME NEW f \in Flight, NEW decision \in {"REJECTED", "CANCELLED"}, PgDecide(Leave, f, decision)
      PROVE  PgBooks'
  BY <1>4, PgBooksDecide
<1>5. ASSUME NEW f \in Flight, PgSheets(Leave, f) PROVE PgBooks'
  BY <1>5, PgBooksSame DEF PgSheets
<1>6. ASSUME NEW f \in Flight, PgRollBack(Leave, f) PROVE PgBooks'
  BY <1>6, PgBooksSame DEF PgRollBack
<1>7. ASSUME NEW minutes \in Entitlement, PgSetBalance(Leave, minutes) PROVE PgBooks'
  BY <1>7, PgBooksSame DEF PgSetBalance
<1>8. QED
  BY <1>1, <1>2, <1>3, <1>4, <1>5, <1>6, <1>7 DEF PgStep

\* What a step may never do, whichever requests there are: reserve more than is left, change
\* the leave of a locked period, or close a running shift by an approval.
ReservesWithin ==
  pgBalance'.pending > pgBalance.pending => pgBalance'.used + pgBalance'.pending <= pgBalance'.entitled

KeepsLockedLeave ==
  pgPeriod = "LOCKED" => \A d \in Day : d <= PeriodEnd => pgSheet'[d].leave = pgSheet[d].leave

KeepsShifts ==
  \A f \in Flight : tx[f].pc = "approve" /\ tx'[f] = Idle =>
    \A d \in Day : pgSheet[d].state = "OPEN" => pgSheet'[d].state = "OPEN"

\* Nothing is reserved, and no leave written, by a step that changes neither.
LEMMA PromisesWithout ==
  ASSUME pgSheet' = pgSheet, pgBalance'.pending = pgBalance.pending, pgBalance.pending \in Int
  PROVE  ReservesWithin /\ KeepsLockedLeave /\ KeepsShifts
BY DEF ReservesWithin, KeepsLockedLeave, KeepsShifts

\* No approval is over when another transaction ends.
LEMMA OthersGoOn ==
  ASSUME NEW L, PgInv(L), NEW f \in Flight, NEW writes, Ended(L, f, writes), tx[f].pc # "approve"
  PROVE  \A g \in Flight : ~ (tx[g].pc = "approve" /\ tx'[g] = Idle)
<1> SUFFICES ASSUME NEW g \in Flight, tx[g].pc = "approve", tx'[g] = Idle
             PROVE  FALSE
  OBVIOUS
<1>1. Learned(L, tx[g], tx'[g], writes)
  BY DEF Ended
<1>2. tx'[g].pc = "approve"
  BY <1>1 DEF Learned, SerializableKinds
<1>3. QED
  BY <1>2, IdlePc

\* The transaction of a balance row that is there: its reserved minutes are a number.
LEMMA PendingInt ==
  ASSUME NEW L, PgInv(L)
  PROVE  pgBalance.pending \in Int
BY DEF PgInv, PgTypes, Balance, NoBalance

\* A decision only gives minutes back.
LEMMA PromisesDecide ==
  ASSUME NEW L, PgInv(L), NEW f \in Flight, NEW decision \in {"REJECTED", "CANCELLED"},
         PgDecide(L, f, decision)
  PROVE  ReservesWithin /\ KeepsLockedLeave /\ KeepsShifts
<1>1. PICK l : l = tx[f].request
  OBVIOUS
<1>2. /\ tx[f] \in PgFlight(L) /\ tx[f].pc \in {"reject", "cancel"}
      /\ Relies(L, tx[f], pgRequests, pgBalance, pgSheet, pgPeriod)
  BY DEF PgInv, PgTypes, PgDecide
<1>3. l \in L /\ pgRequests[l] # NoRequest
  BY <1>1, <1>2, PgKinds DEF Relies, SerializableKinds
<1>4. decision \in {"APPROVED", "REJECTED", "CANCELLED"} /\ Decides(l, decision)
  BY <1>1 DEF PgDecide, Decides
<1>5. pgRequests[l].minutes \in Nat /\ pgBalance'.pending = pgBalance.pending - pgRequests[l].minutes
  BY <1>3, <1>4, DecidedRow
<1>6. pgBalance.pending \in Int
  BY PendingInt
<1>7. ReservesWithin
  <2>1. ~ (pgBalance'.pending > pgBalance.pending)
    BY <1>5, <1>6
  <2>2. QED
    BY <2>1 DEF ReservesWithin
<1>8. pgSheet' = pgSheet
  BY DEF PgDecide
<1>9. QED
  BY <1>7, <1>8 DEF KeepsLockedLeave, KeepsShifts

\* An approval writes to the days that it saw, none of them in a locked period.
LEMMA PromisesApprove ==
  ASSUME NEW L, PgInv(L), NEW f \in Flight, PgApprove(L, f)
  PROVE  ReservesWithin /\ KeepsLockedLeave /\ KeepsShifts
<1>1. PICK l, rows : l = tx[f].request /\ rows = PlanRows(l, pgRequests[l])
  OBVIOUS
<1>2. tx[f].pc = "approve" /\ <<"request", l>> \notin tx[f].stale /\ ~ (tx[f].precedes /\ tx[f].follows)
  BY <1>1 DEF PgApprove
<1>3. l \in L /\ pgRequests[l] # NoRequest /\ Relies(L, tx[f], pgRequests, pgBalance, pgSheet, pgPeriod)
  BY <1>1, <1>2, StillPending DEF PgInv
<1>4. "APPROVED" \in {"APPROVED", "REJECTED", "CANCELLED"} /\ Decides(l, "APPROVED")
  BY <1>1 DEF PgApprove, Decides
<1>5. /\ pgRequests[l].minutes \in Nat /\ pgBalance'.pending = pgBalance.pending - pgRequests[l].minutes
      /\ pgRequests[l] \in Request
  BY <1>3, <1>4, DecidedRow
<1>6. pgBalance.pending \in Int
  BY PendingInt
<1>7. ReservesWithin
  <2>1. ~ (pgBalance'.pending > pgBalance.pending)
    BY <1>5, <1>6
  <2>2. QED
    BY <2>1 DEF ReservesWithin
<1>8. /\ \A d \in Day : (~ \E a \in rows : a.day = d) => pgSheet'[d] = pgSheet[d]
      /\ \A a \in rows : /\ a.day \in Day /\ a.day \in DaysOf(pgRequests[l])
                         /\ pgSheet[a.day].state = "OPEN" => pgSheet'[a.day].state = "OPEN"
  BY <1>1, ApprovedSheets
<1>9. KeepsShifts
  BY <1>8 DEF KeepsShifts
<1>10. KeepsLockedLeave
  <2> SUFFICES ASSUME pgPeriod = "LOCKED", NEW d \in Day, d <= PeriodEnd
               PROVE  pgSheet'[d].leave = pgSheet[d].leave
    BY DEF KeepsLockedLeave
  <2>1. ~ (pgRequests[l].first <= PeriodEnd)
    BY <1>1, <1>2, <1>3 DEF Relies
  <2>2. pgRequests[l].first \in Int /\ d \in Int /\ PeriodEnd \in Int
    BY <1>5, LeaveRequestsAssumption DEF Request, Day
  <2>3. d \notin DaysOf(pgRequests[l])
    BY <2>1, <2>2 DEF DaysOf
  <2>4. ~ \E a \in rows : a.day = d
    BY <1>8, <2>3
  <2>5. QED
    BY <1>8, <2>4
<1>11. QED
  BY <1>7, <1>9, <1>10

\* What a step may never do, for all of them.
LEMMA PgPromises ==
  ASSUME NEW L, NEW K, PgInv(L), PgStep(L, K)
  PROVE  ReservesWithin /\ KeepsLockedLeave /\ KeepsShifts
<1> DEFINE Promised == ReservesWithin /\ KeepsLockedLeave /\ KeepsShifts
<1>0. pgBalance.pending \in Int
  BY PendingInt
<1>1. ASSUME NEW f \in Flight, NEW t, PgBegin(L, f, t) PROVE Promised
  BY <1>0, <1>1, PromisesWithout DEF PgBegin
<1>2. ASSUME NEW f \in Flight, PgCreate(L, f) PROVE Promised
  <2>1. pgBalance'.used + pgBalance'.pending <= pgBalance'.entitled
    BY <1>2, CreatedRow
  <2>2. pgSheet' = pgSheet
    BY <1>2 DEF PgCreate
  <2>3. QED
    BY <2>1, <2>2 DEF ReservesWithin, KeepsLockedLeave, KeepsShifts
<1>3. ASSUME NEW f \in Flight, PgApprove(L, f) PROVE Promised
  BY <1>3, PromisesApprove
<1>4. ASSUME NEW f \in Flight, NEW decision \in {"REJECTED", "CANCELLED"}, PgDecide(L, f, decision)
      PROVE  Promised
  BY <1>4, PromisesDecide
<1>5. ASSUME NEW f \in Flight, PgSheets(L, f) PROVE Promised
  <2>1. PICK writes : Ended(L, f, writes)
    BY <1>5 DEF PgSheets
  <2>2. tx[f].pc # "approve" /\ pgBalance' = pgBalance
          /\ \A d \in Day : pgSheet'[d].leave = pgSheet[d].leave
    BY <1>5 DEF PgSheets
  <2>3. KeepsShifts
    BY <2>1, <2>2, OthersGoOn DEF KeepsShifts
  <2>4. QED
    BY <1>0, <2>2, <2>3 DEF ReservesWithin, KeepsLockedLeave
<1>6. ASSUME NEW f \in Flight, PgRollBack(L, f) PROVE Promised
  BY <1>0, <1>6, PromisesWithout DEF PgRollBack
<1>7. ASSUME NEW minutes \in Entitlement, PgSetBalance(L, minutes) PROVE Promised
  BY <1>0, <1>7, PromisesWithout DEF PgSetBalance
<1>8. QED
  BY <1>1, <1>2, <1>3, <1>4, <1>5, <1>6, <1>7 DEF PgStep

-----------------------------------------------------------------------------
(* How the transactions start, and what they are told.                     *)

\* A transaction that starts: its snapshot are the timesheets as they are.
Snapshot(pc, t) ==
  [pc |-> pc, first |-> t.first, last |-> t.last, minutes |-> t.minutes, request |-> t.request,
   seen |-> pgSheet, stale |-> {}, precedes |-> FALSE, follows |-> FALSE, doomed |-> FALSE]

Starts(L, f, pc, t) ==
  /\ tx[f] = Idle /\ tx' = [tx EXCEPT ![f] = Snapshot(pc, t)]
  /\ pc \in SerializableKinds /\ t.request \in L
  /\ t.first \in Day /\ t.last \in Day /\ t.minutes \in 0..MaxMinutes
  /\ UNCHANGED <<pgRequests, pgBalance, pgSheet, pgAllocations, pgPeriod>>

\* The fields of a transaction that starts.
LEMMA SnapshotFields ==
  ASSUME NEW L, PgTypes(L), NEW f, NEW pc, NEW t, Starts(L, f, pc, t)
  PROVE  \E u \in PgTransaction(L) :
           /\ u = Snapshot(pc, t) /\ u.pc = pc /\ u.first = t.first /\ u.last = t.last
           /\ u.minutes = t.minutes /\ u.request = t.request /\ u.seen = pgSheet /\ u.stale = {}
<1>1. PICK u : u = Snapshot(pc, t)
  OBVIOUS
<1>2. /\ u.pc = pc /\ u.first = t.first /\ u.last = t.last
      /\ u.minutes = t.minutes /\ u.request = t.request /\ u.seen = pgSheet /\ u.stale = {}
  BY <1>1 DEF Snapshot
<1>3. u \in PgTransaction(L)
  BY <1>1 DEF Snapshot, PgTransaction, Starts, PgTypes
<1>4. QED
  BY <1>1, <1>2, <1>3

\* A creation starts after its checks.
LEMMA StartsCreate ==
  ASSUME NEW L, PgTypes(L), NEW f, NEW t, Starts(L, f, "create", t),
         pgRequests[t.request] = NoRequest, t.minutes > 0,
         \A g \in Flight : tx[g].pc = "create" => tx[g].request # t.request,
         \A m \in L : IsActive(pgRequests[m]) => ~ Overlap(pgRequests[m], t),
         Available(UpsertOf(pgBalance)) >= t.minutes
  PROVE  \E u : PgBegin(L, f, u) /\ u.pc = "create"
<1>1. PICK u \in PgTransaction(L) :
        /\ u = Snapshot("create", t) /\ u.pc = "create" /\ u.first = t.first /\ u.last = t.last
        /\ u.minutes = t.minutes /\ u.request = t.request /\ u.seen = pgSheet /\ u.stale = {}
  BY SnapshotFields
<1>2. u \in PgFlight(L)
  BY DEF PgFlight
<1>3. \A m \in L : IsActive(pgRequests[m]) => ~ Overlap(pgRequests[m], u)
  BY <1>1 DEF Overlap
<1>4. Relies(L, u, pgRequests, pgBalance, pgSheet, pgPeriod)
  BY <1>1, <1>3 DEF Relies
<1>5. /\ tx[f] = Idle /\ tx' = [tx EXCEPT ![f] = u]
      /\ UNCHANGED <<pgRequests, pgBalance, pgSheet, pgAllocations, pgPeriod>>
  BY <1>1 DEF Starts
<1>6. PgBegin(L, f, u)
  BY <1>1, <1>2, <1>4, <1>5 DEF PgBegin
<1>7. QED
  BY <1>1, <1>6

\* So does a review, and the lock of the period.
LEMMA StartsReview ==
  ASSUME NEW L, PgTypes(L), NEW f, NEW t, NEW pc \in {"approve", "reject"}, Starts(L, f, pc, t),
         pgRequests[t.request].status = "PENDING", pgRequests[t.request] # NoRequest,
         pc = "approve" => /\ pgPeriod = "LOCKED" => pgRequests[t.request].first > PeriodEnd
                           /\ HasRoom(Scheduled, DaysOf(pgRequests[t.request]), pgRequests[t.request].minutes)
  PROVE  \E u : PgBegin(L, f, u) /\ u.pc = pc
<1>1. PICK u \in PgTransaction(L) :
        /\ u = Snapshot(pc, t) /\ u.pc = pc
        /\ u.request = t.request /\ u.seen = pgSheet /\ u.stale = {}
  BY SnapshotFields
<1>2. u \in PgFlight(L)
  BY DEF PgFlight
<1>3. pgRequests[t.request].first \in Int /\ PeriodEnd \in Int
  <2>1. pgRequests[t.request] \in Rows
    BY DEF PgTypes, Starts
  <2>2. QED
    BY <2>1, OneRow, LeaveRequestsAssumption
<1>4. pc = "approve" => ~ (pgPeriod = "LOCKED" /\ pgRequests[t.request].first <= PeriodEnd)
  BY <1>3
<1>5. Relies(L, u, pgRequests, pgBalance, pgSheet, pgPeriod)
  BY <1>1, <1>4 DEF Relies
<1>6. /\ tx[f] = Idle /\ tx' = [tx EXCEPT ![f] = u]
      /\ UNCHANGED <<pgRequests, pgBalance, pgSheet, pgAllocations, pgPeriod>>
  BY <1>1 DEF Starts
<1>7. PgBegin(L, f, u)
  BY <1>1, <1>2, <1>5, <1>6 DEF PgBegin
<1>8. QED
  BY <1>1, <1>7

\* The lock relies on nothing that is kept for it here.
LEMMA StartsLock ==
  ASSUME NEW L, PgTypes(L), NEW f, NEW t, Starts(L, f, "lock", t)
  PROVE  \E u : PgBegin(L, f, u) /\ u.pc = "lock"
<1>1. PICK u \in PgTransaction(L) : u = Snapshot("lock", t) /\ u.pc = "lock"
  BY SnapshotFields
<1>2. u \in PgFlight(L)
  BY DEF PgFlight
<1>3. Relies(L, u, pgRequests, pgBalance, pgSheet, pgPeriod)
  BY <1>1 DEF Relies
<1>4. /\ tx[f] = Idle /\ tx' = [tx EXCEPT ![f] = u]
      /\ UNCHANGED <<pgRequests, pgBalance, pgSheet, pgAllocations, pgPeriod>>
  BY <1>1 DEF Starts
<1>5. PgBegin(L, f, u)
  BY <1>1, <1>2, <1>3, <1>4 DEF PgBegin
<1>6. QED
  BY <1>1, <1>5

\* A transaction that is told of the balance row.
LEMMA LearnsBalance ==
  ASSUME NEW L, NEW t \in PgFlight(L), NEW u,
         t.pc \notin SerializableKinds => u = t,
         t.pc \in SerializableKinds => u = [t EXCEPT !.stale = @ \cup {<<"balance">>}]
  PROVE  Learned(L, t, u, {<<"balance">>})
<1>1. CASE t.pc \notin SerializableKinds
  BY <1>1 DEF Learned
<1>2. CASE t.pc \in SerializableKinds
  <2>1. t \in PgTransaction(L)
    BY <1>2, PgKinds
  <2>2. PICK s : s = t.stale \cup {<<"balance">>}
    OBVIOUS
  <2>3. s \in SUBSET PgRow(L)
    BY <2>1, <2>2 DEF PgTransaction, PgRow
  <2>4. u = [t EXCEPT !.stale = s]
    BY <1>2, <2>2
  <2>5. u \in PgTransaction(L)
    BY <2>1, <2>3, <2>4 DEF PgTransaction
  <2>6. /\ u.pc = t.pc /\ u.request = t.request /\ u.first = t.first /\ u.last = t.last
        /\ u.minutes = t.minutes /\ u.seen = t.seen /\ u.stale = s
        /\ (t.precedes => u.precedes) /\ (t.follows => u.follows)
    BY <2>1, <2>4 DEF PgTransaction
  <2>7. QED
    BY <1>2, <2>2, <2>5, <2>6 DEF Learned, PgFlight
<1>3. QED
  BY <1>1, <1>2

\* The days of a plan are days of the year.
LEMMA PlannedDays ==
  ASSUME NEW l, NEW r \in Rows
  PROVE  \A a \in PlanRows(l, r) : a.day \in Day
<1>1. CASE r \in Request
  BY <1>1, PlannedRows DEF AllocationOf
<1>2. CASE r = NoRequest
  <2>1. DaysOf(r) \subseteq Day
    BY <1>2, LeaveRequestsAssumption DEF DaysOf, NoRequest, Day
  <2>2. PICK D : D = DaysOf(r)
    OBVIOUS
  <2>3. PICK plan : plan = planLeaveAllocations([d \in D |-> Scheduled[d]], D, r.minutes)
    OBVIOUS
  <2>4. PlanRows(l, r) = {[request |-> l, day |-> d, minutes |-> plan[d]] : d \in {e \in D : plan[e] > 0}}
    BY <2>2, <2>3 DEF PlanRows
  <2>5. QED
    BY <2>1, <2>2, <2>4
<1>3. QED
  BY <1>1, <1>2 DEF Rows

-----------------------------------------------------------------------------
(* The part "requests" takes these steps.                                  *)

\* The end of a transaction, as the others are told of it.
LEMMA RequestsTold ==
  ASSUME PgTypes(Leave), NEW f \in Flight, NEW reads, NEW writes \in SUBSET PgRow(Leave),
         NEW serializable \in BOOLEAN,
         tx' = PgRequests!Told(f, reads, writes, serializable)
  PROVE  /\ Ended(Leave, f, writes)
         /\ \A g \in Flight : g # f /\ tx[g].pc \in SerializableKinds /\ serializable =>
              /\ PgRequests!Reads(tx[g]) \cap writes # {} => tx'[g].precedes
              /\ PgRequests!Writes(tx[g]) \cap reads # {} => tx'[g].follows
<1>1. tx \in [Flight -> PgFlight(Leave)]
  BY DEF PgTypes
<1>2. tx'[f] = Idle
  BY Zenon DEF PgRequests!Told, PgRequests!Idle, PgRequests!Db!Idle, Idle
<1>3. ASSUME NEW g \in Flight, g # f, tx[g].pc \notin SerializableKinds
      PROVE  Learned(Leave, tx[g], tx'[g], writes)
  <2>1. ~ PgRequests!IsSerializable(tx[g])
    BY <1>3 DEF PgRequests!IsSerializable, PgRequests!Serializable, SerializableKinds
  <2>2. tx'[g] = tx[g]
    BY <1>3, <2>1, Zenon DEF PgRequests!Told
  <2>3. QED
    BY <1>1, <1>3, <2>2 DEF Learned
<1>4. ASSUME NEW g \in Flight, g # f, tx[g].pc \in SerializableKinds
      PROVE  /\ Learned(Leave, tx[g], tx'[g], writes)
             /\ serializable /\ PgRequests!Reads(tx[g]) \cap writes # {} => tx'[g].precedes
             /\ serializable /\ PgRequests!Writes(tx[g]) \cap reads # {} => tx'[g].follows
  <2>1. PgRequests!IsSerializable(tx[g])
    BY <1>4 DEF PgRequests!IsSerializable, PgRequests!Serializable, SerializableKinds
  <2>2. PICK t, u, p, q, d :
          /\ t = tx[g] /\ u = tx'[g]
          /\ p = (serializable /\ PgRequests!Reads(tx[g]) \cap writes # {})
          /\ q = (serializable /\ PgRequests!Writes(tx[g]) \cap reads # {})
          /\ d = (p /\ tx[f].precedes)
    OBVIOUS
  <2>3. u = Telling(t, writes, p, q, d)
    BY <1>4, <2>1, <2>2, Zenon DEF PgRequests!Told, Telling
  <2>4. p \in BOOLEAN /\ q \in BOOLEAN /\ d \in BOOLEAN
    BY <2>2
  <2>5. t \in PgTransaction(Leave)
    BY <1>1, <1>4, <2>2, PgKinds
  <2>6. Learned(Leave, t, u, writes) /\ (p => u.precedes) /\ (q => u.follows)
    BY <2>3, <2>4, <2>5, Learning
  <2>7. QED
    BY <2>2, <2>6
<1>5. Idle \in PgFlight(Leave)
  BY DEF PgFlight
<1>6. \A g \in Flight : g # f => Learned(Leave, tx[g], tx'[g], writes)
  BY <1>3, <1>4
<1>7. tx' \in [Flight -> PgFlight(Leave)]
  <2>1. \A g \in Flight : tx'[g] \in PgFlight(Leave)
    BY <1>2, <1>5, <1>6 DEF Learned
  <2>2. tx' = [g \in Flight |-> tx'[g]]
    BY Zenon DEF PgRequests!Told
  <2>3. QED
    BY <2>1, <2>2
<1>8. QED
  BY <1>2, <1>4, <1>6, <1>7 DEF Ended

\* The minutes of days, and the plan for a request, are those of LeaveRules.
LEMMA RequestsMinutes ==
  ASSUME NEW minutes, NEW dates
  PROVE  PgRequests!Db!TotalMinutes(minutes, dates) = TotalMinutes(minutes, dates)
BY DEF PgRequests!Db!TotalMinutes, PgRequests!Db!MapThenSumSet, PgRequests!Db!MapThenFoldSet,
       TotalMinutes, MapThenSumSet, MapThenFoldSet

\* The plan for a request.
LEMMA RequestsPlan ==
  ASSUME NEW scheduled, NEW dates, NEW requested
  PROVE  PgRequests!Db!planLeaveAllocations(scheduled, dates, requested)
           = planLeaveAllocations(scheduled, dates, requested)
BY Zenon
DEF PgRequests!Db!planLeaveAllocations, planLeaveAllocations, PgRequests!Db!TotalMinutes,
    PgRequests!Db!MapThenSumSet, PgRequests!Db!MapThenFoldSet, TotalMinutes, MapThenSumSet, MapThenFoldSet

\* The allocations of a request.
LEMMA RequestsAllocations ==
  ASSUME NEW l
  PROVE  PgRequests!Db!Allocations(l) = PlanRows(l, pgRequests[l])
<1>1. PICK r : r = pgRequests[l]
  OBVIOUS
<1>2. PgRequests!Db!DaysOf(r) = DaysOf(r)
  BY DEF PgRequests!Db!DaysOf, DaysOf
<1>3. \A s, d, n : PgRequests!Db!planLeaveAllocations(s, d, n) = planLeaveAllocations(s, d, n)
  BY RequestsPlan
<1>4. QED
  BY <1>1, <1>2, <1>3 DEF PgRequests!Db!Allocations, PlanRows

\* The timesheets with them.
LEMMA RequestsAllocated ==
  ASSUME NEW l, NEW seen
  PROVE  PgRequests!Db!Allocated(l, seen) = Written(PlanRows(l, pgRequests[l]), seen, pgSheet)
<1>1. PgRequests!Db!Allocations(l) = PlanRows(l, pgRequests[l])
  BY RequestsAllocations
<1>2. \A a, s : PgRequests!Db!DayWithLeave(a, s) = DayWithLeave(a, s)
  BY DEF PgRequests!Db!DayWithLeave, DayWithLeave
<1>3. QED
  BY <1>1, <1>2 DEF PgRequests!Db!Allocated, Written, PgRequests!Db!Day, Day

\* The rows that a transaction writes.
LEMMA RequestsWrites ==
  ASSUME PgTypes(Leave), NEW t \in PgTransaction(Leave)
  PROVE  /\ t.pc \in {"create", "reject"}
              => PgRequests!Writes(t) = {<<"request", t.request>>, <<"balance">>}
         /\ t.pc = "approve" =>
              PgRequests!Writes(t) = {<<"request", t.request>>, <<"balance">>}
                                \cup ({"sheet"} \X {a.day : a \in PlanRows(t.request, pgRequests[t.request])})
         /\ t.pc = "lock"
              => PgRequests!Writes(t) = {<<"period">>} \cup ({"sheet"} \X PgRequests!Lockable(t))
         /\ t.pc = "approve" => <<"period">> \in PgRequests!Reads(t)
         /\ t.pc = "lock" => \A l \in Leave : <<"request", l>> \in PgRequests!Reads(t)
<1>1. ASSUME t.pc \in {"create", "reject"}
      PROVE  PgRequests!Writes(t) = {<<"request", t.request>>, <<"balance">>}
  BY <1>1, Zenon DEF PgRequests!Writes
<1>2. ASSUME t.pc = "approve"
      PROVE  PgRequests!Writes(t) = {<<"request", t.request>>, <<"balance">>}
                                \cup ({"sheet"} \X {a.day : a \in PlanRows(t.request, pgRequests[t.request])})
  <2>1. PgRequests!Planned(t) = {a.day : a \in PlanRows(t.request, pgRequests[t.request])}
    BY RequestsAllocations DEF PgRequests!Planned
  <2>2. PgRequests!Writes(t) = {<<"request", t.request>>, <<"balance">>}
          \cup ({"sheet"} \X PgRequests!Planned(t))
    BY <1>2 DEF PgRequests!Writes
  <2>3. QED
    BY <2>1, <2>2
<1>3. ASSUME t.pc = "lock"
      PROVE  PgRequests!Writes(t) = {<<"period">>} \cup ({"sheet"} \X PgRequests!Lockable(t))
  BY <1>3 DEF PgRequests!Writes
<1>4. ASSUME t.pc = "approve"
      PROVE  <<"period">> \in PgRequests!Reads(t)
  <2>1. PgRequests!Reads(t) = {<<"request", t.request>>, <<"period">>}
          \cup ({"sheet"} \X PgRequests!Planned(t))
    BY <1>4 DEF PgRequests!Reads
  <2>2. QED
    BY <2>1
<1>5. ASSUME t.pc = "lock", NEW l \in Leave
      PROVE  <<"request", l>> \in PgRequests!Reads(t)
  <2>1. PgRequests!Reads(t) = ({"request"} \X Leave)
          \cup ({"sheet"} \X {d \in PgRequests!Day : d <= PeriodEnd}) \cup {<<"period">>}
    BY <1>5 DEF PgRequests!Reads
  <2>2. QED
    BY <2>1
<1>6. QED
  BY <1>1, <1>2, <1>3, <1>4, <1>5

\* What starts a transaction.
LEMMA RequestsStart ==
  ASSUME NEW f, NEW pc, NEW t, PgRequests!Start(f, pc, t)
  PROVE  tx[f] = Idle /\ pc \in {"create", "approve", "reject", "lock"}
           /\ tx' = [tx EXCEPT ![f] = Snapshot(pc, t)]
BY DEF PgRequests!Start, PgRequests!Idle, PgRequests!Db!Idle, Idle, Snapshot

\* createLeaveRequestV2 begins.
LEMMA RequestsBeginCreate ==
  ASSUME PgTypes(Leave), NEW f \in Flight, NEW l \in Leave, PgRequests!BeginCreate(f, l)
  PROVE  \E u : PgBegin(Leave, f, u) /\ u.pc \in {"create", "approve", "reject", "lock"}
<1>0. PICK first \in Day, last \in Day, minutes \in 1..MaxMinutes :
        LET t == [first |-> first, last |-> last, minutes |-> minutes, request |-> l]
        IN PgRequests!Creatable(t) /\ PgRequests!Start(f, "create", t)
  BY DEF PgRequests!BeginCreate, PgRequests!Day, PgRequests!Db!Day, Day
<1>1. PICK t : /\ t = [first |-> first, last |-> last, minutes |-> minutes, request |-> l]
               /\ PgRequests!Creatable(t) /\ PgRequests!Start(f, "create", t)
  BY <1>0
<1>2. t.first \in Day /\ t.last \in Day /\ t.minutes \in 1..MaxMinutes /\ t.request = l
  BY <1>1
<1>3. t.minutes \in 0..MaxMinutes /\ t.minutes > 0
  BY <1>2, LeaveRequestsAssumption
<1>4. tx[f] = Idle /\ tx' = [tx EXCEPT ![f] = Snapshot("create", t)]
  BY <1>1, RequestsStart
<1>5. Starts(Leave, f, "create", t)
  BY <1>2, <1>3, <1>4 DEF Starts, SerializableKinds, PgRequests!BeginCreate
<1>6. pgRequests[t.request] = NoRequest
  BY <1>2 DEF PgRequests!BeginCreate, PgRequests!Db!NoRequest, NoRequest
<1>7. \A g \in Flight : tx[g].pc = "create" => tx[g].request # t.request
  BY <1>2 DEF PgRequests!BeginCreate, PgRequests!IsSerializable, PgRequests!Serializable
<1>8. \A m \in Leave : IsActive(pgRequests[m]) => ~ Overlap(pgRequests[m], t)
  BY <1>1
  DEF PgRequests!Creatable, PgRequests!Db!NoOverlap, PgRequests!Db!Active, PgRequests!Db!With, IsActive,
      PgRequests!Db!Overlap, Overlap
<1>9. Available(UpsertOf(pgBalance)) >= t.minutes
  BY <1>1
  DEF PgRequests!Creatable, PgRequests!Db!Available, PgRequests!Db!UpsertedBalance,
      PgRequests!Db!NoBalance, Available, UpsertOf, NoBalance
<1>10. \E u : PgBegin(Leave, f, u) /\ u.pc = "create"
  BY <1>3, <1>5, <1>6, <1>7, <1>8, <1>9, StartsCreate
<1>11. QED
  BY <1>10

\* reviewLeaveRequestV2 begins.
LEMMA RequestsBeginReview ==
  ASSUME PgTypes(Leave), NEW f \in Flight, NEW l \in Leave, NEW decision \in {"approve", "reject"},
         PgRequests!BeginReview(f, l, decision)
  PROVE  \E u : PgBegin(Leave, f, u) /\ u.pc \in {"create", "approve", "reject", "lock"}
<1>1. PICK t, r : t = PgRequests!Review(l) /\ r = pgRequests[l]
  OBVIOUS
<1>2. r \in Rows /\ r.status = "PENDING"
  BY <1>1 DEF PgTypes, PgRequests!BeginReview, PgRequests!Claimable
<1>3. r # NoRequest /\ r \in Request
  BY <1>2, OneRow
<1>4. t.first \in Day /\ t.last \in Day /\ t.minutes \in 0..MaxMinutes /\ t.request = l
  <2>1. t.first = r.first /\ t.last = r.last /\ t.minutes = r.minutes /\ t.request = l
    BY <1>1 DEF PgRequests!Review
  <2>2. r.minutes \in 1..MaxMinutes /\ r.first \in Day /\ r.last \in Day
    BY <1>3 DEF Request
  <2>3. QED
    BY <2>1, <2>2, LeaveRequestsAssumption
<1>5. tx[f] = Idle /\ tx' = [tx EXCEPT ![f] = Snapshot(decision, t)]
  BY <1>1, RequestsStart DEF PgRequests!BeginReview
<1>6. Starts(Leave, f, decision, t)
  BY <1>4, <1>5 DEF Starts, SerializableKinds, PgRequests!BeginReview
<1>7. decision = "approve" => /\ pgPeriod = "LOCKED" => r.first > PeriodEnd
                              /\ HasRoom(Scheduled, DaysOf(r), r.minutes)
  <2>1. PgRequests!Db!TotalMinutes(Scheduled, DaysOf(r)) = TotalMinutes(Scheduled, DaysOf(r))
    BY RequestsMinutes
  <2>2. QED
    BY <1>1, <2>1
    DEF PgRequests!BeginReview, PgRequests!Approvable, PgRequests!Db!OutsideLockedPeriod,
        PgRequests!Db!HasRoom, HasRoom, PgRequests!Db!DaysOf, DaysOf
<1>8. \E u : PgBegin(Leave, f, u) /\ u.pc = decision
  BY <1>1, <1>2, <1>3, <1>4, <1>6, <1>7, StartsReview
<1>9. QED
  BY <1>8

\* transitionPayPeriodV2 begins.
LEMMA RequestsBeginLock ==
  ASSUME PgTypes(Leave), NEW f \in Flight, PgRequests!BeginLock(f)
  PROVE  \E u : PgBegin(Leave, f, u) /\ u.pc \in {"create", "approve", "reject", "lock"}
<1>0. PICK l \in Leave : PgRequests!Start(f, "lock", [first |-> 1, last |-> 1, minutes |-> 0, request |-> l])
  BY DEF PgRequests!BeginLock
<1>1. PICK t : t = [first |-> 1, last |-> 1, minutes |-> 0, request |-> l]
                 /\ PgRequests!Start(f, "lock", t)
  BY <1>0
<1>2. t.first \in Day /\ t.last \in Day /\ t.minutes \in 0..MaxMinutes /\ t.request \in Leave
  BY <1>1, LeaveRequestsAssumption DEF Day
<1>3. tx[f] = Idle /\ tx' = [tx EXCEPT ![f] = Snapshot("lock", t)]
  BY <1>1, RequestsStart
<1>4. Starts(Leave, f, "lock", t)
  BY <1>2, <1>3 DEF Starts, SerializableKinds, PgRequests!BeginLock
<1>5. \E u : PgBegin(Leave, f, u) /\ u.pc = "lock"
  BY <1>4, StartsLock
<1>6. QED
  BY <1>5

\* What the commit of a serializable transaction finds and leaves.
LEMMA RequestsCommit ==
  ASSUME PgTypes(Leave), NEW f \in Flight, PgRequests!Commit(f)
  PROVE  /\ tx[f] \in PgTransaction(Leave)
         /\ tx[f].stale \cap PgRequests!Writes(tx[f]) = {} /\ ~ (tx[f].precedes /\ tx[f].follows)
         /\ tx' = PgRequests!Told(f, PgRequests!Reads(tx[f]), PgRequests!Writes(tx[f]), TRUE)
<1>1. tx[f] \in PgFlight(Leave)
  BY DEF PgTypes
<1>2. tx[f].pc \in SerializableKinds
  BY DEF PgRequests!Commit, PgRequests!IsSerializable, PgRequests!Serializable, SerializableKinds
<1>3. tx[f] \in PgTransaction(Leave)
  BY <1>1, <1>2, PgKinds
<1>4. QED
  BY <1>3 DEF PgRequests!Commit, PgRequests!MayCommit

\* createLeaveRequestV2 commits.
LEMMA RequestsCommitCreate ==
  ASSUME PgTypes(Leave), NEW f \in Flight, PgRequests!CommitCreate(f)
  PROVE  PgCreate(Leave, f)
<1>1. PICK reads, writes : reads = PgRequests!Reads(tx[f]) /\ writes = PgRequests!Writes(tx[f])
  OBVIOUS
<1>2. /\ tx[f].pc = "create" /\ tx[f] \in PgTransaction(Leave) /\ tx[f].stale \cap writes = {}
      /\ tx' = PgRequests!Told(f, reads, writes, TRUE)
  BY <1>1, RequestsCommit DEF PgRequests!CommitCreate
<1>3. writes = {<<"request", tx[f].request>>, <<"balance">>}
  BY <1>1, <1>2, RequestsWrites
<1>4. writes \in SUBSET PgRow(Leave)
  BY <1>2, <1>3 DEF PgRow, PgTransaction
<1>5. Ended(Leave, f, writes)
  BY <1>2, <1>4, RequestsTold
<1>6. <<"balance">> \notin tx[f].stale
  BY <1>2, <1>3
<1>7. PgRequests!Db!UpsertedBalance = UpsertOf(pgBalance)
  BY DEF PgRequests!Db!UpsertedBalance, UpsertOf, PgRequests!Db!NoBalance, NoBalance
<1>8. QED
  BY <1>2, <1>3, <1>5, <1>6, <1>7 DEF PgCreate, PgRequests!CommitCreate

\* reviewLeaveRequestV2 commits an approval,
LEMMA RequestsCommitApproval ==
  ASSUME PgTypes(Leave), NEW f \in Flight, PgRequests!CommitApproval(f)
  PROVE  PgApprove(Leave, f)
<1>1. PICK reads, writes, l, rows :
        /\ reads = PgRequests!Reads(tx[f]) /\ writes = PgRequests!Writes(tx[f])
        /\ l = tx[f].request /\ rows = PlanRows(l, pgRequests[l])
  OBVIOUS
<1>2. /\ tx[f].pc = "approve" /\ tx[f] \in PgTransaction(Leave) /\ tx[f].stale \cap writes = {}
      /\ ~ (tx[f].precedes /\ tx[f].follows)
      /\ tx' = PgRequests!Told(f, reads, writes, TRUE)
  BY <1>1, RequestsCommit DEF PgRequests!CommitApproval
<1>3. writes = {<<"request", l>>, <<"balance">>} \cup ({"sheet"} \X {a.day : a \in rows})
  BY <1>1, <1>2, RequestsWrites
<1>4. \A a \in rows : a.day \in Day
  <2>1. pgRequests[l] \in Rows
    BY <1>1, <1>2 DEF PgTypes, PgTransaction
  <2>2. PICK r : r = pgRequests[l]
    OBVIOUS
  <2>3. \A a \in PlanRows(l, r) : a.day \in Day
    BY <2>1, <2>2, PlannedDays
  <2>4. QED
    BY <1>1, <2>2, <2>3
<1>5. writes \in SUBSET PgRow(Leave)
  BY <1>1, <1>2, <1>3, <1>4 DEF PgRow, PgTransaction
<1>6. Ended(Leave, f, writes)
  BY <1>2, <1>5, RequestsTold
<1>7. /\ <<"request", l>> \in writes /\ <<"balance">> \in writes
      /\ \A a \in rows : <<"sheet", a.day>> \in writes
  BY <1>3
<1>8. <<"request", l>> \notin tx[f].stale /\ \A a \in rows : <<"sheet", a.day>> \notin tx[f].stale
  BY <1>2, <1>7
<1>9. PgRequests!Db!Allocations(l) = rows
  BY <1>1, RequestsAllocations
<1>10. PgRequests!Db!Allocated(l, tx[f].seen) = Written(rows, tx[f].seen, pgSheet)
  BY <1>1, RequestsAllocated
<1>11. PgRequests!Db!Used(l) = [[pgBalance EXCEPT !.pending = @ - pgRequests[l].minutes]
                            EXCEPT !.used = @ + pgRequests[l].minutes]
  BY DEF PgRequests!Db!Used, PgRequests!Db!Released
<1>12. /\ pgRequests' = [pgRequests EXCEPT ![l].status = "APPROVED"]
       /\ pgSheet' = Written(rows, tx[f].seen, pgSheet)
       /\ pgAllocations' = pgAllocations \cup rows
       /\ pgBalance' = [[pgBalance EXCEPT !.pending = @ - pgRequests[l].minutes]
                            EXCEPT !.used = @ + pgRequests[l].minutes]
       /\ pgPeriod' = pgPeriod
  BY <1>1, <1>9, <1>10, <1>11 DEF PgRequests!CommitApproval
<1>13. QED
  BY <1>1, <1>2, <1>6, <1>7, <1>8, <1>12 DEF PgApprove

\* or a rejection.
LEMMA RequestsCommitRejection ==
  ASSUME PgTypes(Leave), NEW f \in Flight, PgRequests!CommitRejection(f)
  PROVE  PgDecide(Leave, f, "REJECTED")
<1>1. PICK reads, writes, l :
        /\ reads = PgRequests!Reads(tx[f]) /\ writes = PgRequests!Writes(tx[f]) /\ l = tx[f].request
  OBVIOUS
<1>2. /\ tx[f].pc = "reject" /\ tx[f] \in PgTransaction(Leave) /\ tx[f].stale \cap writes = {}
      /\ tx' = PgRequests!Told(f, reads, writes, TRUE)
  BY <1>1, RequestsCommit DEF PgRequests!CommitRejection
<1>3. writes = {<<"request", l>>, <<"balance">>}
  BY <1>1, <1>2, RequestsWrites
<1>4. writes \in SUBSET PgRow(Leave)
  BY <1>1, <1>2, <1>3 DEF PgRow, PgTransaction
<1>5. Ended(Leave, f, writes)
  BY <1>2, <1>4, RequestsTold
<1>6. <<"request", l>> \notin tx[f].stale
  BY <1>2, <1>3
<1>7. /\ pgRequests' = [pgRequests EXCEPT ![l].status = "REJECTED"]
      /\ pgBalance' = [pgBalance EXCEPT !.pending = @ - pgRequests[l].minutes]
      /\ UNCHANGED <<pgSheet, pgAllocations, pgPeriod>>
  BY <1>1 DEF PgRequests!CommitRejection, PgRequests!Db!Released
<1>8. QED
  BY <1>1, <1>2, <1>3, <1>5, <1>6, <1>7 DEF PgDecide

\* cancelLeaveRequestV2 reads the request,
LEMMA RequestsReadForCancel ==
  ASSUME PgTypes(Leave), NEW f \in Flight, NEW l \in Leave, PgRequests!ReadForCancel(f, l)
  PROVE  \E u : PgBegin(Leave, f, u) /\ u.pc \in {"create", "approve", "reject", "lock"}
<1>1. PICK u : u = [pc |-> "cancel", request |-> l]
  OBVIOUS
<1>2. u \in PgFlight(Leave) /\ u.pc = "cancel" /\ u.request = l
        /\ u.pc \in {"create", "approve", "reject", "lock"}
  BY <1>1 DEF PgFlight, PgRequests!ReadForCancel
<1>3. pgRequests[l] \in Rows /\ pgRequests[l].status = "PENDING"
  BY DEF PgTypes, PgRequests!ReadForCancel
<1>4. pgRequests[l] # NoRequest
  BY <1>3, OneRow
<1>5. Relies(Leave, u, pgRequests, pgBalance, pgSheet, pgPeriod)
  BY <1>2, <1>4 DEF Relies
<1>6. /\ tx[f] = Idle /\ tx' = [tx EXCEPT ![f] = u]
      /\ UNCHANGED <<pgRequests, pgBalance, pgSheet, pgAllocations, pgPeriod>>
  BY <1>1 DEF PgRequests!ReadForCancel, PgRequests!Idle, PgRequests!Db!Idle, Idle
<1>7. PgBegin(Leave, f, u)
  BY <1>2, <1>5, <1>6 DEF PgBegin
<1>8. QED
  BY <1>2, <1>7

\* and writes later.
LEMMA RequestsCancel ==
  ASSUME PgTypes(Leave), NEW f \in Flight, PgRequests!Cancel(f)
  PROVE  PgDecide(Leave, f, "CANCELLED")
<1>1. PICK reads, writes, l :
        /\ reads = {} /\ writes = {<<"request", l>>, <<"balance">>} /\ l = tx[f].request
  OBVIOUS
<1>2. tx[f].pc = "cancel" /\ tx' = PgRequests!Told(f, reads, writes, FALSE)
  BY <1>1 DEF PgRequests!Cancel
<1>3. l \in Leave
  BY <1>1, <1>2, PgKinds DEF PgTypes
<1>4. writes \in SUBSET PgRow(Leave)
  BY <1>1, <1>3 DEF PgRow
<1>5. Ended(Leave, f, writes)
  BY <1>2, <1>4, RequestsTold
<1>6. /\ pgRequests' = [pgRequests EXCEPT ![l].status = "CANCELLED"]
      /\ pgBalance' = [pgBalance EXCEPT !.pending = @ - pgRequests[l].minutes]
      /\ UNCHANGED <<pgSheet, pgAllocations, pgPeriod>>
  BY <1>1 DEF PgRequests!Cancel, PgRequests!Db!Released
<1>7. QED
  BY <1>1, <1>2, <1>5, <1>6 DEF PgDecide

\* A clock action reads the day,
LEMMA RequestsReadForClock ==
  ASSUME PgTypes(Leave), NEW f \in Flight, NEW d \in Day, PgRequests!ReadForClock(f, d)
  PROVE  \E u : PgBegin(Leave, f, u) /\ u.pc \in {"create", "approve", "reject", "lock"}
<1>1. PICK state \in {"OPEN", "COMPLETE"} :
        tx' = [tx EXCEPT ![f] = [pc |-> "clock", day |-> d, row |->
                 [state |-> state, worked |-> IF state = "OPEN" THEN 0 ELSE 1, leave |-> 0, codes |-> {}]]]
  BY DEF PgRequests!ReadForClock
<1>2. PICK u, row :
        /\ row = [state |-> state, worked |-> IF state = "OPEN" THEN 0 ELSE 1, leave |-> 0, codes |-> {}]
        /\ u = [pc |-> "clock", day |-> d, row |-> row]
  OBVIOUS
<1>3. row \in Sheet
  BY <1>2 DEF Sheet
<1>4. u \in PgFlight(Leave) /\ u.pc = "clock" /\ u.pc \in {"create", "approve", "reject", "lock"}
  BY <1>2, <1>3 DEF PgFlight, PgRequests!ReadForClock
<1>5. Relies(Leave, u, pgRequests, pgBalance, pgSheet, pgPeriod)
  BY <1>4 DEF Relies
<1>6. /\ tx[f] = Idle /\ tx' = [tx EXCEPT ![f] = u]
      /\ UNCHANGED <<pgRequests, pgBalance, pgSheet, pgAllocations, pgPeriod>>
  BY <1>1, <1>2 DEF PgRequests!ReadForClock, PgRequests!Idle, PgRequests!Db!Idle, Idle
<1>7. PgBegin(Leave, f, u)
  BY <1>4, <1>5, <1>6 DEF PgBegin
<1>8. QED
  BY <1>4, <1>7

\* and writes it later, with the leave that is there by then.
LEMMA RequestsClock ==
  ASSUME PgTypes(Leave), NEW f \in Flight, PgRequests!Clock(f)
  PROVE  PgSheets(Leave, f)
<1>1. PICK reads, writes, d, row :
        reads = {} /\ writes = {<<"sheet", d>>} /\ d = tx[f].day /\ row = tx[f].row
  OBVIOUS
<1>2. tx[f].pc = "clock" /\ tx' = PgRequests!Told(f, reads, writes, FALSE)
  BY <1>1 DEF PgRequests!Clock
<1>3. d \in Day /\ row \in Sheet
  BY <1>1, <1>2, PgKinds DEF PgTypes
<1>4. writes \in SUBSET PgRow(Leave)
  BY <1>1, <1>3 DEF PgRow
<1>5. Ended(Leave, f, writes)
  BY <1>2, <1>4, RequestsTold
<1>6. PICK new : new = [row EXCEPT !.leave = pgSheet[d].leave]
  OBVIOUS
<1>7. new \in Sheet /\ new.leave = pgSheet[d].leave
  BY <1>3, <1>6 DEF PgTypes, Sheet
<1>8. pgSheet' = [pgSheet EXCEPT ![d] = new] /\ pgSheet \in [Day -> Sheet]
  BY <1>1, <1>6 DEF PgRequests!Clock, PgTypes
<1>9. pgSheet' \in [Day -> Sheet] /\ pgSheet'[d] = new /\ \A e \in Day : e # d => pgSheet'[e] = pgSheet[e]
  BY <1>3, <1>7, <1>8
<1>10. \A e \in Day : pgSheet'[e].leave = pgSheet[e].leave
  BY <1>7, <1>9
<1>11. \A e \in Day : pgSheet'[e] = pgSheet[e] \/ <<"sheet", e>> \in writes
  BY <1>1, <1>9
<1>12. UNCHANGED <<pgRequests, pgBalance, pgAllocations, pgPeriod>>
  BY DEF PgRequests!Clock
<1>13. QED
  BY <1>2, <1>5, <1>9, <1>10, <1>11, <1>12 DEF PgSheets

\* transitionPayPeriodV2 commits: every approval that is in flight comes before it and after.
LEMMA RequestsCommitLock ==
  ASSUME PgTypes(Leave), NEW f \in Flight, PgRequests!CommitLock(f)
  PROVE  PgSheets(Leave, f)
<1>1. PICK reads, writes, days :
        reads = PgRequests!Reads(tx[f]) /\ writes = PgRequests!Writes(tx[f])
          /\ days = PgRequests!Lockable(tx[f])
  OBVIOUS
<1>2. /\ tx[f].pc = "lock" /\ tx[f] \in PgTransaction(Leave)
      /\ tx' = PgRequests!Told(f, reads, writes, TRUE)
  BY <1>1, RequestsCommit DEF PgRequests!CommitLock
<1>3. writes = {<<"period">>} \cup ({"sheet"} \X days) /\ \A l \in Leave : <<"request", l>> \in reads
  BY <1>1, <1>2, RequestsWrites
<1>4. days \subseteq Day
  BY <1>1 DEF PgRequests!Lockable, PgRequests!Day, PgRequests!Db!Day, Day
<1>5. writes \in SUBSET PgRow(Leave)
  BY <1>3, <1>4 DEF PgRow
<1>6. /\ Ended(Leave, f, writes)
      /\ \A g \in Flight : g # f /\ tx[g].pc \in SerializableKinds =>
           /\ PgRequests!Reads(tx[g]) \cap writes # {} => tx'[g].precedes
           /\ PgRequests!Writes(tx[g]) \cap reads # {} => tx'[g].follows
  BY <1>2, <1>5, RequestsTold
<1>7. ASSUME NEW g \in Flight, g # f, tx[g].pc = "approve"
      PROVE  tx'[g].precedes /\ tx'[g].follows
  <2>1. tx[g] \in PgTransaction(Leave) /\ tx[g].pc \in SerializableKinds
    BY <1>7, PgKinds DEF PgTypes, SerializableKinds
  <2>2. tx[g].request \in Leave
    BY <2>1 DEF PgTransaction
  <2>3. <<"period">> \in PgRequests!Reads(tx[g])
          /\ <<"request", tx[g].request>> \in PgRequests!Writes(tx[g])
    BY <1>7, <2>1, RequestsWrites
  <2>4. <<"period">> \in writes /\ <<"request", tx[g].request>> \in reads
    BY <1>3, <2>2
  <2>5. QED
    BY <1>6, <1>7, <2>1, <2>3, <2>4
<1>8. pgSheet' = [d \in Day |-> IF d \in days THEN [pgSheet[d] EXCEPT !.state = "LOCKED"] ELSE pgSheet[d]]
  BY <1>1 DEF PgRequests!CommitLock, PgRequests!Day, PgRequests!Db!Day, Day
<1>9. \A d \in Day : pgSheet[d] \in Sheet
  BY DEF PgTypes
<1>10. \A d \in Day : /\ pgSheet'[d] \in Sheet /\ pgSheet'[d].leave = pgSheet[d].leave
                      /\ d \notin days => pgSheet'[d] = pgSheet[d]
  BY <1>8, <1>9 DEF Sheet
<1>11. pgSheet' \in [Day -> Sheet]
  BY <1>8, <1>10
<1>12. \A d \in Day : pgSheet'[d] = pgSheet[d] \/ <<"sheet", d>> \in writes
  BY <1>3, <1>10
<1>13. pgPeriod' = "LOCKED" /\ UNCHANGED <<pgRequests, pgBalance, pgAllocations>>
  BY DEF PgRequests!CommitLock
<1>14. QED
  BY <1>2, <1>6, <1>7, <1>10, <1>11, <1>12, <1>13 DEF PgSheets

\* A transaction that is rolled back, and the administrator's entitlement.
LEMMA RequestsRollBack ==
  ASSUME PgTypes(Leave), NEW f \in Flight, PgRequests!RollBack(f)
  PROVE  PgRollBack(Leave, f)
<1>1. tx \in [Flight -> PgFlight(Leave)] /\ Idle \in PgFlight(Leave)
  BY DEF PgTypes, PgFlight
<1>2. tx' = [tx EXCEPT ![f] = Idle]
  BY DEF PgRequests!RollBack, PgRequests!Idle, PgRequests!Db!Idle, Idle
<1>3. tx' \in [Flight -> PgFlight(Leave)] /\ tx'[f] = Idle /\ \A g \in Flight : g # f => tx'[g] = tx[g]
  BY <1>1, <1>2
<1>4. \A g \in Flight : g # f => Learned(Leave, tx[g], tx'[g], {})
  BY <1>1, <1>3, LearnedNothing
<1>5. QED
  BY <1>3, <1>4 DEF PgRollBack, Ended, PgRequests!RollBack

\* setLeaveBalanceV2.
LEMMA RequestsSetBalance ==
  ASSUME PgTypes(Leave), NEW minutes \in Entitlement, PgRequests!SetBalance(minutes)
  PROVE  PgSetBalance(Leave, minutes)
<1>1. tx \in [Flight -> PgFlight(Leave)]
  BY DEF PgTypes
<1>2. tx' = [g \in Flight |->
        IF tx[g].pc \in SerializableKinds THEN [tx[g] EXCEPT !.stale = @ \cup {<<"balance">>}] ELSE tx[g]]
  BY DEF PgRequests!SetBalance, PgRequests!IsSerializable, PgRequests!Serializable, SerializableKinds
<1>3. ASSUME NEW g \in Flight PROVE Learned(Leave, tx[g], tx'[g], {<<"balance">>})
  <2>1. PICK t, u : t = tx[g] /\ u = tx'[g]
    OBVIOUS
  <2>2. t.pc \notin SerializableKinds => u = t
    BY <1>2, <2>1
  <2>3. t.pc \in SerializableKinds => u = [t EXCEPT !.stale = @ \cup {<<"balance">>}]
    BY <1>2, <2>1
  <2>4. t \in PgFlight(Leave)
    BY <1>1, <2>1
  <2>5. Learned(Leave, t, u, {<<"balance">>})
    BY <2>2, <2>3, <2>4, LearnsBalance
  <2>6. QED
    BY <2>1, <2>5
<1>4. tx' \in [Flight -> PgFlight(Leave)]
  <2>1. \A g \in Flight : tx'[g] \in PgFlight(Leave)
    BY <1>3 DEF Learned
  <2>2. tx' = [g \in Flight |-> tx'[g]]
    BY <1>2
  <2>3. QED
    BY <2>1, <2>2
<1>5. QED
  BY <1>3, <1>4 DEF PgSetBalance, PgRequests!SetBalance

\* Every action of the part is one of the steps above.
LEMMA RequestsNext ==
  ASSUME PgTypes(Leave), PgRequests!Next
  PROVE  PgStep(Leave, {"create", "approve", "reject", "lock"})
<1> DEFINE K == {"create", "approve", "reject", "lock"}
           Begins(f) == \E u : PgBegin(Leave, f, u) /\ u.pc \in K
<1>1. ASSUME NEW f \in Flight, NEW l \in Leave, PgRequests!BeginCreate(f, l) PROVE Begins(f)
  BY <1>1, RequestsBeginCreate
<1>2. ASSUME NEW f \in Flight, NEW l \in Leave, PgRequests!ReadForCancel(f, l) PROVE Begins(f)
  BY <1>2, RequestsReadForCancel
<1>3. ASSUME NEW f \in Flight, NEW l \in Leave, NEW decision \in {"approve", "reject"},
             PgRequests!BeginReview(f, l, decision)
      PROVE  Begins(f)
  BY <1>3, RequestsBeginReview
<1>4. ASSUME NEW f \in Flight, NEW d \in PgRequests!Day, PgRequests!ReadForClock(f, d) PROVE Begins(f)
  <2>1. d \in Day
    BY DEF PgRequests!Day, PgRequests!Db!Day, Day
  <2>2. QED
    BY <1>4, <2>1, RequestsReadForClock
<1>5. ASSUME NEW f \in Flight, PgRequests!BeginLock(f) PROVE Begins(f)
  BY <1>5, RequestsBeginLock
<1> HIDE DEF K, Begins
<1>6. ASSUME NEW f \in Flight, Begins(f) PROVE PgStep(Leave, K)
  BY <1>6 DEF PgStep, Begins
<1>7. ASSUME NEW f \in Flight, PgRequests!CommitCreate(f) PROVE PgStep(Leave, K)
  BY <1>7, RequestsCommitCreate DEF PgStep
<1>8. ASSUME NEW f \in Flight, PgRequests!CommitApproval(f) PROVE PgStep(Leave, K)
  BY <1>8, RequestsCommitApproval DEF PgStep
<1>9. ASSUME NEW f \in Flight, PgRequests!CommitRejection(f) PROVE PgStep(Leave, K)
  BY <1>9, RequestsCommitRejection DEF PgStep
<1>10. ASSUME NEW f \in Flight, PgRequests!Cancel(f) PROVE PgStep(Leave, K)
  BY <1>10, RequestsCancel DEF PgStep
<1>11. ASSUME NEW f \in Flight, PgRequests!Clock(f) PROVE PgStep(Leave, K)
  BY <1>11, RequestsClock DEF PgStep
<1>12. ASSUME NEW f \in Flight, PgRequests!CommitLock(f) PROVE PgStep(Leave, K)
  BY <1>12, RequestsCommitLock DEF PgStep
<1>13. ASSUME NEW f \in Flight, PgRequests!RollBack(f) PROVE PgStep(Leave, K)
  BY <1>13, RequestsRollBack DEF PgStep
<1>14. ASSUME NEW minutes \in Entitlement, PgRequests!SetBalance(minutes) PROVE PgStep(Leave, K)
  BY <1>14, RequestsSetBalance DEF PgStep
<1>15. PgStep(Leave, K)
  BY <1>1, <1>2, <1>3, <1>4, <1>5, <1>6, <1>7, <1>8, <1>9, <1>10, <1>11, <1>12, <1>13, <1>14
  DEF PgRequests!Next
<1>16. QED
  BY <1>15 DEF K

\* Nothing is in flight at first.
LEMMA RequestsInit ==
  ASSUME PgRequests!Init
  PROVE  /\ PgInv(Leave) /\ pgBalance = NoBalance /\ pgAllocations = {}
         /\ \A l \in Leave : pgRequests[l] = NoRequest
         /\ \A d \in Day : pgSheet[d].leave = 0
         /\ \A f \in Flight : tx[f] = Idle
<1>1. /\ pgRequests = [l \in Leave |-> NoRequest] /\ pgBalance = NoBalance
           /\ pgSheet = [d \in Day |-> NoSheet]
      /\ pgAllocations = {} /\ pgPeriod = "OPEN" /\ tx = [f \in Flight |-> Idle]
  BY DEF PgRequests!Init, PgRequests!Db!Init, PgRequests!Db!NoRequest, NoRequest, PgRequests!Db!NoBalance,
         NoBalance, PgRequests!Db!NoSheet, NoSheet, PgRequests!Db!Day, Day, PgRequests!Db!Idle, Idle
<1>2. NoSheet \in Sheet /\ NoSheet.leave = 0
  BY DEF NoSheet, Sheet
<1>3. pgRequests \in [Leave -> Rows] /\ \A l \in Leave : pgRequests[l] = NoRequest
  BY <1>1 DEF Rows
<1>4. pgSheet \in [Day -> Sheet] /\ \A d \in Day : pgSheet[d].leave = 0
  BY <1>1, <1>2
<1>5. tx \in [Flight -> PgFlight(Leave)] /\ \A f \in Flight : tx[f] = Idle
  BY <1>1 DEF PgFlight
<1>6. PgTypes(Leave)
  BY <1>1, <1>3, <1>4, <1>5 DEF PgTypes
<1>7. \A f \in Flight : Relies(Leave, tx[f], pgRequests, pgBalance, pgSheet, pgPeriod)
  BY <1>5, IdlePc DEF Relies
<1>8. \A f, g \in Flight :
        tx[f].pc = "create" /\ tx[g].pc = "create" /\ tx[f].request = tx[g].request => f = g
  BY <1>5, IdlePc
<1>9. PgInv(Leave)
  BY <1>3, <1>6, <1>7, <1>8 DEF PgInv
<1>10. QED
  BY <1>1, <1>3, <1>4, <1>5, <1>9

\* The types are those of PostgresLeave.
LEMMA RequestsTypes ==
  ASSUME PgTypes(Leave)
  PROVE  PgRequests!TypeOK
<1>1. PgTransaction(Leave) = PgRequests!Transaction
  BY DEF PgTransaction, PgRequests!Transaction, SerializableKinds, PgRequests!Serializable,
         PgRequests!Day, PgRequests!Db!Day, Day, PgRequests!Db!Sheet, Sheet, PgRequests!Db!Code, Code,
         PgRow, PgRequests!Row
<1>2. /\ PgRequests!Db!Sheet = Sheet /\ PgRequests!Day = Day /\ PgRequests!Db!Day = Day
           /\ PgRequests!Idle = Idle
      /\ PgRequests!Db!Request = Request /\ PgRequests!Db!NoRequest = NoRequest
      /\ PgRequests!Db!Balance = Balance /\ PgRequests!Db!NoBalance = NoBalance
  BY DEF PgRequests!Db!Sheet, Sheet, PgRequests!Db!Code, Code, PgRequests!Day, PgRequests!Db!Day, Day,
         PgRequests!Idle, PgRequests!Db!Idle, Idle, PgRequests!Db!Request, Request,
         PgRequests!Db!NoRequest, NoRequest, PgRequests!Db!Balance, Balance, PgRequests!Db!NoBalance,
         NoBalance
<1>3. PgRequests!Db!Allocation = [request : Leave, day : Day, minutes : Nat]
  BY <1>2 DEF PgRequests!Db!Allocation
<1>4. QED
  BY <1>1, <1>2, <1>3 DEF PgTypes, PgRequests!TypeOK, PgFlight, Rows

\* Nothing is in flight that is not sent.
LEMMA NothingUnsent ==
  ASSUME NEW L, NEW K, PgInv(L), PgStep(L, K), "cancel" \notin K, "clock" \notin K,
         \A f \in Flight : tx[f].pc \notin {"cancel", "clock"}
  PROVE  \A f \in Flight : tx'[f].pc \notin {"cancel", "clock"}
<1> DEFINE Neither == \A f \in Flight : tx'[f].pc \notin {"cancel", "clock"}
<1>1. ASSUME NEW g \in Flight, NEW writes, Learned(L, tx[g], tx'[g], writes)
      PROVE  tx'[g].pc \notin {"cancel", "clock"}
  BY <1>1 DEF Learned
<1>2. ASSUME NEW f \in Flight, NEW writes, Ended(L, f, writes) PROVE Neither
  BY <1>1, <1>2, IdlePc DEF Ended
<1>3. ASSUME NEW f \in Flight, NEW t, PgBegin(L, f, t), t.pc \in K PROVE Neither
  <2>1. \A g \in Flight : tx'[g] = tx[g] \/ tx'[g] = t
    BY <1>3 DEF PgBegin, PgInv, PgTypes
  <2>2. QED
    BY <1>3, <2>1
<1>4. ASSUME NEW f \in Flight, PgCreate(L, f) PROVE Neither
  BY <1>2, <1>4 DEF PgCreate
<1>5. ASSUME NEW f \in Flight, PgApprove(L, f) PROVE Neither
  BY <1>2, <1>5 DEF PgApprove
<1>6. ASSUME NEW f \in Flight, NEW decision \in {"REJECTED", "CANCELLED"}, PgDecide(L, f, decision)
      PROVE  Neither
  BY <1>2, <1>6 DEF PgDecide
<1>7. ASSUME NEW f \in Flight, PgSheets(L, f) PROVE Neither
  BY <1>2, <1>7 DEF PgSheets
<1>8. ASSUME NEW f \in Flight, PgRollBack(L, f) PROVE Neither
  BY <1>2, <1>8 DEF PgRollBack
<1>9. ASSUME NEW minutes \in Entitlement, PgSetBalance(L, minutes) PROVE Neither
  BY <1>1, <1>9 DEF PgSetBalance
<1>10. QED
  BY <1>3, <1>4, <1>5, <1>6, <1>7, <1>8, <1>9 DEF PgStep

-----------------------------------------------------------------------------
(* So does the part "shifts", where l1 is the only request: the lemmas are *)
(* those of the part "requests", for the other instance of PostgresLeave.  *)

\* The end of a transaction, as the others are told of it.
LEMMA ShiftsTold ==
  ASSUME PgTypes({l1}), NEW f \in Flight, NEW reads, NEW writes \in SUBSET PgRow({l1}),
         NEW serializable \in BOOLEAN,
         tx' = PgShifts!Told(f, reads, writes, serializable)
  PROVE  /\ Ended({l1}, f, writes)
         /\ \A g \in Flight : g # f /\ tx[g].pc \in SerializableKinds /\ serializable =>
              /\ PgShifts!Reads(tx[g]) \cap writes # {} => tx'[g].precedes
              /\ PgShifts!Writes(tx[g]) \cap reads # {} => tx'[g].follows
<1>1. tx \in [Flight -> PgFlight({l1})]
  BY DEF PgTypes
<1>2. tx'[f] = Idle
  BY Zenon DEF PgShifts!Told, PgShifts!Idle, PgShifts!Db!Idle, Idle
<1>3. ASSUME NEW g \in Flight, g # f, tx[g].pc \notin SerializableKinds
      PROVE  Learned({l1}, tx[g], tx'[g], writes)
  <2>1. ~ PgShifts!IsSerializable(tx[g])
    BY <1>3 DEF PgShifts!IsSerializable, PgShifts!Serializable, SerializableKinds
  <2>2. tx'[g] = tx[g]
    BY <1>3, <2>1, Zenon DEF PgShifts!Told
  <2>3. QED
    BY <1>1, <1>3, <2>2 DEF Learned
<1>4. ASSUME NEW g \in Flight, g # f, tx[g].pc \in SerializableKinds
      PROVE  /\ Learned({l1}, tx[g], tx'[g], writes)
             /\ serializable /\ PgShifts!Reads(tx[g]) \cap writes # {} => tx'[g].precedes
             /\ serializable /\ PgShifts!Writes(tx[g]) \cap reads # {} => tx'[g].follows
  <2>1. PgShifts!IsSerializable(tx[g])
    BY <1>4 DEF PgShifts!IsSerializable, PgShifts!Serializable, SerializableKinds
  <2>2. PICK t, u, p, q, d :
          /\ t = tx[g] /\ u = tx'[g]
          /\ p = (serializable /\ PgShifts!Reads(tx[g]) \cap writes # {})
          /\ q = (serializable /\ PgShifts!Writes(tx[g]) \cap reads # {})
          /\ d = (p /\ tx[f].precedes)
    OBVIOUS
  <2>3. u = Telling(t, writes, p, q, d)
    BY <1>4, <2>1, <2>2, Zenon DEF PgShifts!Told, Telling
  <2>4. p \in BOOLEAN /\ q \in BOOLEAN /\ d \in BOOLEAN
    BY <2>2
  <2>5. t \in PgTransaction({l1})
    BY <1>1, <1>4, <2>2, PgKinds
  <2>6. Learned({l1}, t, u, writes) /\ (p => u.precedes) /\ (q => u.follows)
    BY <2>3, <2>4, <2>5, Learning
  <2>7. QED
    BY <2>2, <2>6
<1>5. Idle \in PgFlight({l1})
  BY DEF PgFlight
<1>6. \A g \in Flight : g # f => Learned({l1}, tx[g], tx'[g], writes)
  BY <1>3, <1>4
<1>7. tx' \in [Flight -> PgFlight({l1})]
  <2>1. \A g \in Flight : tx'[g] \in PgFlight({l1})
    BY <1>2, <1>5, <1>6 DEF Learned
  <2>2. tx' = [g \in Flight |-> tx'[g]]
    BY Zenon DEF PgShifts!Told
  <2>3. QED
    BY <2>1, <2>2
<1>8. QED
  BY <1>2, <1>4, <1>6, <1>7 DEF Ended

\* The minutes of days, and the plan for a request, are those of LeaveRules.
LEMMA ShiftsMinutes ==
  ASSUME NEW minutes, NEW dates
  PROVE  PgShifts!Db!TotalMinutes(minutes, dates) = TotalMinutes(minutes, dates)
BY DEF PgShifts!Db!TotalMinutes, PgShifts!Db!MapThenSumSet, PgShifts!Db!MapThenFoldSet,
       TotalMinutes, MapThenSumSet, MapThenFoldSet

\* The plan for a request.
LEMMA ShiftsPlan ==
  ASSUME NEW scheduled, NEW dates, NEW requested
  PROVE  PgShifts!Db!planLeaveAllocations(scheduled, dates, requested)
           = planLeaveAllocations(scheduled, dates, requested)
BY Zenon
DEF PgShifts!Db!planLeaveAllocations, planLeaveAllocations, PgShifts!Db!TotalMinutes,
    PgShifts!Db!MapThenSumSet, PgShifts!Db!MapThenFoldSet, TotalMinutes, MapThenSumSet, MapThenFoldSet

\* The allocations of a request.
LEMMA ShiftsAllocations ==
  ASSUME NEW l
  PROVE  PgShifts!Db!Allocations(l) = PlanRows(l, pgRequests[l])
<1>1. PICK r : r = pgRequests[l]
  OBVIOUS
<1>2. PgShifts!Db!DaysOf(r) = DaysOf(r)
  BY DEF PgShifts!Db!DaysOf, DaysOf
<1>3. \A s, d, n : PgShifts!Db!planLeaveAllocations(s, d, n) = planLeaveAllocations(s, d, n)
  BY ShiftsPlan
<1>4. QED
  BY <1>1, <1>2, <1>3 DEF PgShifts!Db!Allocations, PlanRows

\* The timesheets with them.
LEMMA ShiftsAllocated ==
  ASSUME NEW l, NEW seen
  PROVE  PgShifts!Db!Allocated(l, seen) = Written(PlanRows(l, pgRequests[l]), seen, pgSheet)
<1>1. PgShifts!Db!Allocations(l) = PlanRows(l, pgRequests[l])
  BY ShiftsAllocations
<1>2. \A a, s : PgShifts!Db!DayWithLeave(a, s) = DayWithLeave(a, s)
  BY DEF PgShifts!Db!DayWithLeave, DayWithLeave
<1>3. QED
  BY <1>1, <1>2 DEF PgShifts!Db!Allocated, Written, PgShifts!Db!Day, Day

\* The rows that a transaction writes.
LEMMA ShiftsWrites ==
  ASSUME PgTypes({l1}), NEW t \in PgTransaction({l1})
  PROVE  /\ t.pc \in {"create", "reject"}
              => PgShifts!Writes(t) = {<<"request", t.request>>, <<"balance">>}
         /\ t.pc = "approve" =>
              PgShifts!Writes(t) = {<<"request", t.request>>, <<"balance">>}
                                \cup ({"sheet"} \X {a.day : a \in PlanRows(t.request, pgRequests[t.request])})
         /\ t.pc = "lock" => PgShifts!Writes(t) = {<<"period">>} \cup ({"sheet"} \X PgShifts!Lockable(t))
         /\ t.pc = "approve" => <<"period">> \in PgShifts!Reads(t)
         /\ t.pc = "lock" => \A l \in {l1} : <<"request", l>> \in PgShifts!Reads(t)
<1>1. ASSUME t.pc \in {"create", "reject"}
      PROVE  PgShifts!Writes(t) = {<<"request", t.request>>, <<"balance">>}
  BY <1>1, Zenon DEF PgShifts!Writes
<1>2. ASSUME t.pc = "approve"
      PROVE  PgShifts!Writes(t) = {<<"request", t.request>>, <<"balance">>}
                                \cup ({"sheet"} \X {a.day : a \in PlanRows(t.request, pgRequests[t.request])})
  <2>1. PgShifts!Planned(t) = {a.day : a \in PlanRows(t.request, pgRequests[t.request])}
    BY ShiftsAllocations DEF PgShifts!Planned
  <2>2. PgShifts!Writes(t) = {<<"request", t.request>>, <<"balance">>}
          \cup ({"sheet"} \X PgShifts!Planned(t))
    BY <1>2 DEF PgShifts!Writes
  <2>3. QED
    BY <2>1, <2>2
<1>3. ASSUME t.pc = "lock"
      PROVE  PgShifts!Writes(t) = {<<"period">>} \cup ({"sheet"} \X PgShifts!Lockable(t))
  BY <1>3 DEF PgShifts!Writes
<1>4. ASSUME t.pc = "approve"
      PROVE  <<"period">> \in PgShifts!Reads(t)
  <2>1. PgShifts!Reads(t) = {<<"request", t.request>>, <<"period">>}
          \cup ({"sheet"} \X PgShifts!Planned(t))
    BY <1>4 DEF PgShifts!Reads
  <2>2. QED
    BY <2>1
<1>5. ASSUME t.pc = "lock", NEW l \in {l1}
      PROVE  <<"request", l>> \in PgShifts!Reads(t)
  <2>1. PgShifts!Reads(t) = ({"request"} \X {l1})
          \cup ({"sheet"} \X {d \in PgShifts!Day : d <= PeriodEnd}) \cup {<<"period">>}
    BY <1>5 DEF PgShifts!Reads
  <2>2. QED
    BY <2>1
<1>6. QED
  BY <1>1, <1>2, <1>3, <1>4, <1>5

\* What starts a transaction.
LEMMA ShiftsStart ==
  ASSUME NEW f, NEW pc, NEW t, PgShifts!Start(f, pc, t)
  PROVE  tx[f] = Idle /\ pc \in {"create", "approve", "reject", "cancel", "lock", "clock"}
           /\ tx' = [tx EXCEPT ![f] = Snapshot(pc, t)]
BY DEF PgShifts!Start, PgShifts!Idle, PgShifts!Db!Idle, Idle, Snapshot

\* createLeaveRequestV2 begins.
LEMMA ShiftsBeginCreate ==
  ASSUME PgTypes({l1}), NEW f \in Flight, NEW l \in {l1}, PgShifts!BeginCreate(f, l)
  PROVE  \E u : PgBegin({l1}, f, u) /\ u.pc \in {"create", "approve", "reject", "cancel", "lock", "clock"}
<1>0. PICK first \in Day, last \in Day, minutes \in 1..MaxMinutes :
        LET t == [first |-> first, last |-> last, minutes |-> minutes, request |-> l]
        IN PgShifts!Creatable(t) /\ PgShifts!Start(f, "create", t)
  BY DEF PgShifts!BeginCreate, PgShifts!Day, PgShifts!Db!Day, Day
<1>1. PICK t : /\ t = [first |-> first, last |-> last, minutes |-> minutes, request |-> l]
               /\ PgShifts!Creatable(t) /\ PgShifts!Start(f, "create", t)
  BY <1>0
<1>2. t.first \in Day /\ t.last \in Day /\ t.minutes \in 1..MaxMinutes /\ t.request = l
  BY <1>1
<1>3. t.minutes \in 0..MaxMinutes /\ t.minutes > 0
  BY <1>2, LeaveRequestsAssumption
<1>4. tx[f] = Idle /\ tx' = [tx EXCEPT ![f] = Snapshot("create", t)]
  BY <1>1, ShiftsStart
<1>5. Starts({l1}, f, "create", t)
  BY <1>2, <1>3, <1>4 DEF Starts, SerializableKinds, PgShifts!BeginCreate
<1>6. pgRequests[t.request] = NoRequest
  BY <1>2 DEF PgShifts!BeginCreate, PgShifts!Db!NoRequest, NoRequest
<1>7. \A g \in Flight : tx[g].pc = "create" => tx[g].request # t.request
  BY <1>2 DEF PgShifts!BeginCreate, PgShifts!IsSerializable, PgShifts!Serializable
<1>8. \A m \in {l1} : IsActive(pgRequests[m]) => ~ Overlap(pgRequests[m], t)
  BY <1>1
  DEF PgShifts!Creatable, PgShifts!Db!NoOverlap, PgShifts!Db!Active, PgShifts!Db!With, IsActive,
      PgShifts!Db!Overlap, Overlap
<1>9. Available(UpsertOf(pgBalance)) >= t.minutes
  BY <1>1 DEF PgShifts!Creatable, PgShifts!Db!Available, PgShifts!Db!UpsertedBalance, PgShifts!Db!NoBalance,
              Available, UpsertOf, NoBalance
<1>10. \E u : PgBegin({l1}, f, u) /\ u.pc = "create"
  BY <1>3, <1>5, <1>6, <1>7, <1>8, <1>9, StartsCreate
<1>11. QED
  BY <1>10

\* reviewLeaveRequestV2 begins.
LEMMA ShiftsBeginReview ==
  ASSUME PgTypes({l1}), NEW f \in Flight, NEW l \in {l1}, NEW decision \in {"approve", "reject"},
         PgShifts!BeginReview(f, l, decision)
  PROVE  \E u : PgBegin({l1}, f, u) /\ u.pc \in {"create", "approve", "reject", "cancel", "lock", "clock"}
<1>1. PICK t, r : t = PgShifts!Review(l) /\ r = pgRequests[l]
  OBVIOUS
<1>2. r \in Rows /\ r.status = "PENDING"
  BY <1>1 DEF PgTypes, PgShifts!BeginReview, PgShifts!Claimable
<1>3. r # NoRequest /\ r \in Request
  BY <1>2, OneRow
<1>4. t.first \in Day /\ t.last \in Day /\ t.minutes \in 0..MaxMinutes /\ t.request = l
  <2>1. t.first = r.first /\ t.last = r.last /\ t.minutes = r.minutes /\ t.request = l
    BY <1>1 DEF PgShifts!Review
  <2>2. r.minutes \in 1..MaxMinutes /\ r.first \in Day /\ r.last \in Day
    BY <1>3 DEF Request
  <2>3. QED
    BY <2>1, <2>2, LeaveRequestsAssumption
<1>5. tx[f] = Idle /\ tx' = [tx EXCEPT ![f] = Snapshot(decision, t)]
  BY <1>1, ShiftsStart DEF PgShifts!BeginReview
<1>6. Starts({l1}, f, decision, t)
  BY <1>4, <1>5 DEF Starts, SerializableKinds, PgShifts!BeginReview
<1>7. decision = "approve" => /\ pgPeriod = "LOCKED" => r.first > PeriodEnd
                              /\ HasRoom(Scheduled, DaysOf(r), r.minutes)
  <2>1. PgShifts!Db!TotalMinutes(Scheduled, DaysOf(r)) = TotalMinutes(Scheduled, DaysOf(r))
    BY ShiftsMinutes
  <2>2. QED
    BY <1>1, <2>1
    DEF PgShifts!BeginReview, PgShifts!Approvable, PgShifts!Db!OutsideLockedPeriod, PgShifts!Db!HasRoom,
        HasRoom, PgShifts!Db!DaysOf, DaysOf
<1>8. \E u : PgBegin({l1}, f, u) /\ u.pc = decision
  BY <1>1, <1>2, <1>3, <1>4, <1>6, <1>7, StartsReview
<1>9. QED
  BY <1>8

\* transitionPayPeriodV2 begins.
LEMMA ShiftsBeginLock ==
  ASSUME PgTypes({l1}), NEW f \in Flight, PgShifts!BeginLock(f)
  PROVE  \E u : PgBegin({l1}, f, u) /\ u.pc \in {"create", "approve", "reject", "cancel", "lock", "clock"}
<1>0. PICK l \in {l1} : PgShifts!Start(f, "lock", [first |-> 1, last |-> 1, minutes |-> 0, request |-> l])
  BY DEF PgShifts!BeginLock
<1>1. PICK t : t = [first |-> 1, last |-> 1, minutes |-> 0, request |-> l] /\ PgShifts!Start(f, "lock", t)
  BY <1>0
<1>2. t.first \in Day /\ t.last \in Day /\ t.minutes \in 0..MaxMinutes /\ t.request \in {l1}
  BY <1>1, LeaveRequestsAssumption DEF Day
<1>3. tx[f] = Idle /\ tx' = [tx EXCEPT ![f] = Snapshot("lock", t)]
  BY <1>1, ShiftsStart
<1>4. Starts({l1}, f, "lock", t)
  BY <1>2, <1>3 DEF Starts, SerializableKinds, PgShifts!BeginLock
<1>5. \E u : PgBegin({l1}, f, u) /\ u.pc = "lock"
  BY <1>4, StartsLock
<1>6. QED
  BY <1>5

\* What the commit of a serializable transaction finds and leaves.
LEMMA ShiftsCommit ==
  ASSUME PgTypes({l1}), NEW f \in Flight, PgShifts!Commit(f)
  PROVE  /\ tx[f] \in PgTransaction({l1})
         /\ tx[f].stale \cap PgShifts!Writes(tx[f]) = {} /\ ~ (tx[f].precedes /\ tx[f].follows)
         /\ tx' = PgShifts!Told(f, PgShifts!Reads(tx[f]), PgShifts!Writes(tx[f]), TRUE)
<1>1. tx[f] \in PgFlight({l1})
  BY DEF PgTypes
<1>2. tx[f].pc \in SerializableKinds
  BY DEF PgShifts!Commit, PgShifts!IsSerializable, PgShifts!Serializable, SerializableKinds
<1>3. tx[f] \in PgTransaction({l1})
  BY <1>1, <1>2, PgKinds
<1>4. QED
  BY <1>3 DEF PgShifts!Commit, PgShifts!MayCommit

\* createLeaveRequestV2 commits.
LEMMA ShiftsCommitCreate ==
  ASSUME PgTypes({l1}), NEW f \in Flight, PgShifts!CommitCreate(f)
  PROVE  PgCreate({l1}, f)
<1>1. PICK reads, writes : reads = PgShifts!Reads(tx[f]) /\ writes = PgShifts!Writes(tx[f])
  OBVIOUS
<1>2. /\ tx[f].pc = "create" /\ tx[f] \in PgTransaction({l1}) /\ tx[f].stale \cap writes = {}
      /\ tx' = PgShifts!Told(f, reads, writes, TRUE)
  BY <1>1, ShiftsCommit DEF PgShifts!CommitCreate
<1>3. writes = {<<"request", tx[f].request>>, <<"balance">>}
  BY <1>1, <1>2, ShiftsWrites
<1>4. writes \in SUBSET PgRow({l1})
  BY <1>2, <1>3 DEF PgRow, PgTransaction
<1>5. Ended({l1}, f, writes)
  BY <1>2, <1>4, ShiftsTold
<1>6. <<"balance">> \notin tx[f].stale
  BY <1>2, <1>3
<1>7. PgShifts!Db!UpsertedBalance = UpsertOf(pgBalance)
  BY DEF PgShifts!Db!UpsertedBalance, UpsertOf, PgShifts!Db!NoBalance, NoBalance
<1>8. QED
  BY <1>2, <1>3, <1>5, <1>6, <1>7 DEF PgCreate, PgShifts!CommitCreate

\* reviewLeaveRequestV2 commits an approval,
LEMMA ShiftsCommitApproval ==
  ASSUME PgTypes({l1}), NEW f \in Flight, PgShifts!CommitApproval(f)
  PROVE  PgApprove({l1}, f)
<1>1. PICK reads, writes, l, rows :
        /\ reads = PgShifts!Reads(tx[f]) /\ writes = PgShifts!Writes(tx[f])
        /\ l = tx[f].request /\ rows = PlanRows(l, pgRequests[l])
  OBVIOUS
<1>2. /\ tx[f].pc = "approve" /\ tx[f] \in PgTransaction({l1}) /\ tx[f].stale \cap writes = {}
      /\ ~ (tx[f].precedes /\ tx[f].follows)
      /\ tx' = PgShifts!Told(f, reads, writes, TRUE)
  BY <1>1, ShiftsCommit DEF PgShifts!CommitApproval
<1>3. writes = {<<"request", l>>, <<"balance">>} \cup ({"sheet"} \X {a.day : a \in rows})
  BY <1>1, <1>2, ShiftsWrites
<1>4. \A a \in rows : a.day \in Day
  <2>1. pgRequests[l] \in Rows
    BY <1>1, <1>2 DEF PgTypes, PgTransaction
  <2>2. PICK r : r = pgRequests[l]
    OBVIOUS
  <2>3. \A a \in PlanRows(l, r) : a.day \in Day
    BY <2>1, <2>2, PlannedDays
  <2>4. QED
    BY <1>1, <2>2, <2>3
<1>5. writes \in SUBSET PgRow({l1})
  BY <1>1, <1>2, <1>3, <1>4 DEF PgRow, PgTransaction
<1>6. Ended({l1}, f, writes)
  BY <1>2, <1>5, ShiftsTold
<1>7. /\ <<"request", l>> \in writes /\ <<"balance">> \in writes
      /\ \A a \in rows : <<"sheet", a.day>> \in writes
  BY <1>3
<1>8. <<"request", l>> \notin tx[f].stale /\ \A a \in rows : <<"sheet", a.day>> \notin tx[f].stale
  BY <1>2, <1>7
<1>9. PgShifts!Db!Allocations(l) = rows
  BY <1>1, ShiftsAllocations
<1>10. PgShifts!Db!Allocated(l, tx[f].seen) = Written(rows, tx[f].seen, pgSheet)
  BY <1>1, ShiftsAllocated
<1>11. PgShifts!Db!Used(l) = [[pgBalance EXCEPT !.pending = @ - pgRequests[l].minutes]
                            EXCEPT !.used = @ + pgRequests[l].minutes]
  BY DEF PgShifts!Db!Used, PgShifts!Db!Released
<1>12. /\ pgRequests' = [pgRequests EXCEPT ![l].status = "APPROVED"]
       /\ pgSheet' = Written(rows, tx[f].seen, pgSheet)
       /\ pgAllocations' = pgAllocations \cup rows
       /\ pgBalance' = [[pgBalance EXCEPT !.pending = @ - pgRequests[l].minutes]
                            EXCEPT !.used = @ + pgRequests[l].minutes]
       /\ pgPeriod' = pgPeriod
  BY <1>1, <1>9, <1>10, <1>11 DEF PgShifts!CommitApproval
<1>13. QED
  BY <1>1, <1>2, <1>6, <1>7, <1>8, <1>12 DEF PgApprove

\* or a rejection.
LEMMA ShiftsCommitRejection ==
  ASSUME PgTypes({l1}), NEW f \in Flight, PgShifts!CommitRejection(f)
  PROVE  PgDecide({l1}, f, "REJECTED")
<1>1. PICK reads, writes, l :
        /\ reads = PgShifts!Reads(tx[f]) /\ writes = PgShifts!Writes(tx[f]) /\ l = tx[f].request
  OBVIOUS
<1>2. /\ tx[f].pc = "reject" /\ tx[f] \in PgTransaction({l1}) /\ tx[f].stale \cap writes = {}
      /\ tx' = PgShifts!Told(f, reads, writes, TRUE)
  BY <1>1, ShiftsCommit DEF PgShifts!CommitRejection
<1>3. writes = {<<"request", l>>, <<"balance">>}
  BY <1>1, <1>2, ShiftsWrites
<1>4. writes \in SUBSET PgRow({l1})
  BY <1>1, <1>2, <1>3 DEF PgRow, PgTransaction
<1>5. Ended({l1}, f, writes)
  BY <1>2, <1>4, ShiftsTold
<1>6. <<"request", l>> \notin tx[f].stale
  BY <1>2, <1>3
<1>7. /\ pgRequests' = [pgRequests EXCEPT ![l].status = "REJECTED"]
      /\ pgBalance' = [pgBalance EXCEPT !.pending = @ - pgRequests[l].minutes]
      /\ UNCHANGED <<pgSheet, pgAllocations, pgPeriod>>
  BY <1>1 DEF PgShifts!CommitRejection, PgShifts!Db!Released
<1>8. QED
  BY <1>1, <1>2, <1>3, <1>5, <1>6, <1>7 DEF PgDecide

\* cancelLeaveRequestV2 reads the request,
LEMMA ShiftsReadForCancel ==
  ASSUME PgTypes({l1}), NEW f \in Flight, NEW l \in {l1}, PgShifts!ReadForCancel(f, l)
  PROVE  \E u : PgBegin({l1}, f, u) /\ u.pc \in {"create", "approve", "reject", "cancel", "lock", "clock"}
<1>1. PICK u : u = [pc |-> "cancel", request |-> l]
  OBVIOUS
<1>2. u \in PgFlight({l1}) /\ u.pc = "cancel" /\ u.request = l
        /\ u.pc \in {"create", "approve", "reject", "cancel", "lock", "clock"}
  BY <1>1 DEF PgFlight, PgShifts!ReadForCancel
<1>3. pgRequests[l] \in Rows /\ pgRequests[l].status = "PENDING"
  BY DEF PgTypes, PgShifts!ReadForCancel
<1>4. pgRequests[l] # NoRequest
  BY <1>3, OneRow
<1>5. Relies({l1}, u, pgRequests, pgBalance, pgSheet, pgPeriod)
  BY <1>2, <1>4 DEF Relies
<1>6. /\ tx[f] = Idle /\ tx' = [tx EXCEPT ![f] = u]
      /\ UNCHANGED <<pgRequests, pgBalance, pgSheet, pgAllocations, pgPeriod>>
  BY <1>1 DEF PgShifts!ReadForCancel, PgShifts!Idle, PgShifts!Db!Idle, Idle
<1>7. PgBegin({l1}, f, u)
  BY <1>2, <1>5, <1>6 DEF PgBegin
<1>8. QED
  BY <1>2, <1>7

\* and writes later.
LEMMA ShiftsCancel ==
  ASSUME PgTypes({l1}), NEW f \in Flight, PgShifts!Cancel(f)
  PROVE  PgDecide({l1}, f, "CANCELLED")
<1>1. PICK reads, writes, l :
        /\ reads = {} /\ writes = {<<"request", l>>, <<"balance">>} /\ l = tx[f].request
  OBVIOUS
<1>2. tx[f].pc = "cancel" /\ tx' = PgShifts!Told(f, reads, writes, FALSE)
  BY <1>1 DEF PgShifts!Cancel
<1>3. l \in {l1}
  BY <1>1, <1>2, PgKinds DEF PgTypes
<1>4. writes \in SUBSET PgRow({l1})
  BY <1>1, <1>3 DEF PgRow
<1>5. Ended({l1}, f, writes)
  BY <1>2, <1>4, ShiftsTold
<1>6. /\ pgRequests' = [pgRequests EXCEPT ![l].status = "CANCELLED"]
      /\ pgBalance' = [pgBalance EXCEPT !.pending = @ - pgRequests[l].minutes]
      /\ UNCHANGED <<pgSheet, pgAllocations, pgPeriod>>
  BY <1>1 DEF PgShifts!Cancel, PgShifts!Db!Released
<1>7. QED
  BY <1>1, <1>2, <1>5, <1>6 DEF PgDecide

\* A clock action reads the day,
LEMMA ShiftsReadForClock ==
  ASSUME PgTypes({l1}), NEW f \in Flight, NEW d \in Day, PgShifts!ReadForClock(f, d)
  PROVE  \E u : PgBegin({l1}, f, u) /\ u.pc \in {"create", "approve", "reject", "cancel", "lock", "clock"}
<1>1. PICK state \in {"OPEN", "COMPLETE"} :
        tx' = [tx EXCEPT ![f] = [pc |-> "clock", day |-> d, row |->
                 [state |-> state, worked |-> IF state = "OPEN" THEN 0 ELSE 1, leave |-> 0, codes |-> {}]]]
  BY DEF PgShifts!ReadForClock
<1>2. PICK u, row :
        /\ row = [state |-> state, worked |-> IF state = "OPEN" THEN 0 ELSE 1, leave |-> 0, codes |-> {}]
        /\ u = [pc |-> "clock", day |-> d, row |-> row]
  OBVIOUS
<1>3. row \in Sheet
  BY <1>2 DEF Sheet
<1>4. u \in PgFlight({l1}) /\ u.pc = "clock"
        /\ u.pc \in {"create", "approve", "reject", "cancel", "lock", "clock"}
  BY <1>2, <1>3 DEF PgFlight, PgShifts!ReadForClock
<1>5. Relies({l1}, u, pgRequests, pgBalance, pgSheet, pgPeriod)
  BY <1>4 DEF Relies
<1>6. /\ tx[f] = Idle /\ tx' = [tx EXCEPT ![f] = u]
      /\ UNCHANGED <<pgRequests, pgBalance, pgSheet, pgAllocations, pgPeriod>>
  BY <1>1, <1>2 DEF PgShifts!ReadForClock, PgShifts!Idle, PgShifts!Db!Idle, Idle
<1>7. PgBegin({l1}, f, u)
  BY <1>4, <1>5, <1>6 DEF PgBegin
<1>8. QED
  BY <1>4, <1>7

\* and writes it later, with the leave that is there by then.
LEMMA ShiftsClock ==
  ASSUME PgTypes({l1}), NEW f \in Flight, PgShifts!Clock(f)
  PROVE  PgSheets({l1}, f)
<1>1. PICK reads, writes, d, row :
        reads = {} /\ writes = {<<"sheet", d>>} /\ d = tx[f].day /\ row = tx[f].row
  OBVIOUS
<1>2. tx[f].pc = "clock" /\ tx' = PgShifts!Told(f, reads, writes, FALSE)
  BY <1>1 DEF PgShifts!Clock
<1>3. d \in Day /\ row \in Sheet
  BY <1>1, <1>2, PgKinds DEF PgTypes
<1>4. writes \in SUBSET PgRow({l1})
  BY <1>1, <1>3 DEF PgRow
<1>5. Ended({l1}, f, writes)
  BY <1>2, <1>4, ShiftsTold
<1>6. PICK new : new = [row EXCEPT !.leave = pgSheet[d].leave]
  OBVIOUS
<1>7. new \in Sheet /\ new.leave = pgSheet[d].leave
  BY <1>3, <1>6 DEF PgTypes, Sheet
<1>8. pgSheet' = [pgSheet EXCEPT ![d] = new] /\ pgSheet \in [Day -> Sheet]
  BY <1>1, <1>6 DEF PgShifts!Clock, PgTypes
<1>9. pgSheet' \in [Day -> Sheet] /\ pgSheet'[d] = new /\ \A e \in Day : e # d => pgSheet'[e] = pgSheet[e]
  BY <1>3, <1>7, <1>8
<1>10. \A e \in Day : pgSheet'[e].leave = pgSheet[e].leave
  BY <1>7, <1>9
<1>11. \A e \in Day : pgSheet'[e] = pgSheet[e] \/ <<"sheet", e>> \in writes
  BY <1>1, <1>9
<1>12. UNCHANGED <<pgRequests, pgBalance, pgAllocations, pgPeriod>>
  BY DEF PgShifts!Clock
<1>13. QED
  BY <1>2, <1>5, <1>9, <1>10, <1>11, <1>12 DEF PgSheets

\* transitionPayPeriodV2 commits: every approval that is in flight comes before it and after.
LEMMA ShiftsCommitLock ==
  ASSUME PgTypes({l1}), NEW f \in Flight, PgShifts!CommitLock(f)
  PROVE  PgSheets({l1}, f)
<1>1. PICK reads, writes, days :
        reads = PgShifts!Reads(tx[f]) /\ writes = PgShifts!Writes(tx[f])
          /\ days = PgShifts!Lockable(tx[f])
  OBVIOUS
<1>2. /\ tx[f].pc = "lock" /\ tx[f] \in PgTransaction({l1})
      /\ tx' = PgShifts!Told(f, reads, writes, TRUE)
  BY <1>1, ShiftsCommit DEF PgShifts!CommitLock
<1>3. writes = {<<"period">>} \cup ({"sheet"} \X days) /\ \A l \in {l1} : <<"request", l>> \in reads
  BY <1>1, <1>2, ShiftsWrites
<1>4. days \subseteq Day
  BY <1>1 DEF PgShifts!Lockable, PgShifts!Day, PgShifts!Db!Day, Day
<1>5. writes \in SUBSET PgRow({l1})
  BY <1>3, <1>4 DEF PgRow
<1>6. /\ Ended({l1}, f, writes)
      /\ \A g \in Flight : g # f /\ tx[g].pc \in SerializableKinds =>
           /\ PgShifts!Reads(tx[g]) \cap writes # {} => tx'[g].precedes
           /\ PgShifts!Writes(tx[g]) \cap reads # {} => tx'[g].follows
  BY <1>2, <1>5, ShiftsTold
<1>7. ASSUME NEW g \in Flight, g # f, tx[g].pc = "approve"
      PROVE  tx'[g].precedes /\ tx'[g].follows
  <2>1. tx[g] \in PgTransaction({l1}) /\ tx[g].pc \in SerializableKinds
    BY <1>7, PgKinds DEF PgTypes, SerializableKinds
  <2>2. tx[g].request \in {l1}
    BY <2>1 DEF PgTransaction
  <2>3. <<"period">> \in PgShifts!Reads(tx[g]) /\ <<"request", tx[g].request>> \in PgShifts!Writes(tx[g])
    BY <1>7, <2>1, ShiftsWrites
  <2>4. <<"period">> \in writes /\ <<"request", tx[g].request>> \in reads
    BY <1>3, <2>2
  <2>5. QED
    BY <1>6, <1>7, <2>1, <2>3, <2>4
<1>8. pgSheet' = [d \in Day |-> IF d \in days THEN [pgSheet[d] EXCEPT !.state = "LOCKED"] ELSE pgSheet[d]]
  BY <1>1 DEF PgShifts!CommitLock, PgShifts!Day, PgShifts!Db!Day, Day
<1>9. \A d \in Day : pgSheet[d] \in Sheet
  BY DEF PgTypes
<1>10. \A d \in Day : /\ pgSheet'[d] \in Sheet /\ pgSheet'[d].leave = pgSheet[d].leave
                      /\ d \notin days => pgSheet'[d] = pgSheet[d]
  BY <1>8, <1>9 DEF Sheet
<1>11. pgSheet' \in [Day -> Sheet]
  BY <1>8, <1>10
<1>12. \A d \in Day : pgSheet'[d] = pgSheet[d] \/ <<"sheet", d>> \in writes
  BY <1>3, <1>10
<1>13. pgPeriod' = "LOCKED" /\ UNCHANGED <<pgRequests, pgBalance, pgAllocations>>
  BY DEF PgShifts!CommitLock
<1>14. QED
  BY <1>2, <1>6, <1>7, <1>10, <1>11, <1>12, <1>13 DEF PgSheets

\* A transaction that is rolled back, and the administrator's entitlement.
LEMMA ShiftsRollBack ==
  ASSUME PgTypes({l1}), NEW f \in Flight, PgShifts!RollBack(f)
  PROVE  PgRollBack({l1}, f)
<1>1. tx \in [Flight -> PgFlight({l1})] /\ Idle \in PgFlight({l1})
  BY DEF PgTypes, PgFlight
<1>2. tx' = [tx EXCEPT ![f] = Idle]
  BY DEF PgShifts!RollBack, PgShifts!Idle, PgShifts!Db!Idle, Idle
<1>3. tx' \in [Flight -> PgFlight({l1})] /\ tx'[f] = Idle /\ \A g \in Flight : g # f => tx'[g] = tx[g]
  BY <1>1, <1>2
<1>4. \A g \in Flight : g # f => Learned({l1}, tx[g], tx'[g], {})
  BY <1>1, <1>3, LearnedNothing
<1>5. QED
  BY <1>3, <1>4 DEF PgRollBack, Ended, PgShifts!RollBack

\* setLeaveBalanceV2.
LEMMA ShiftsSetBalance ==
  ASSUME PgTypes({l1}), NEW minutes \in Entitlement, PgShifts!SetBalance(minutes)
  PROVE  PgSetBalance({l1}, minutes)
<1>1. tx \in [Flight -> PgFlight({l1})]
  BY DEF PgTypes
<1>2. tx' = [g \in Flight |->
        IF tx[g].pc \in SerializableKinds THEN [tx[g] EXCEPT !.stale = @ \cup {<<"balance">>}] ELSE tx[g]]
  BY DEF PgShifts!SetBalance, PgShifts!IsSerializable, PgShifts!Serializable, SerializableKinds
<1>3. ASSUME NEW g \in Flight PROVE Learned({l1}, tx[g], tx'[g], {<<"balance">>})
  <2>1. PICK t, u : t = tx[g] /\ u = tx'[g]
    OBVIOUS
  <2>2. t.pc \notin SerializableKinds => u = t
    BY <1>2, <2>1
  <2>3. t.pc \in SerializableKinds => u = [t EXCEPT !.stale = @ \cup {<<"balance">>}]
    BY <1>2, <2>1
  <2>4. t \in PgFlight({l1})
    BY <1>1, <2>1
  <2>5. Learned({l1}, t, u, {<<"balance">>})
    BY <2>2, <2>3, <2>4, LearnsBalance
  <2>6. QED
    BY <2>1, <2>5
<1>4. tx' \in [Flight -> PgFlight({l1})]
  <2>1. \A g \in Flight : tx'[g] \in PgFlight({l1})
    BY <1>3 DEF Learned
  <2>2. tx' = [g \in Flight |-> tx'[g]]
    BY <1>2
  <2>3. QED
    BY <2>1, <2>2
<1>5. QED
  BY <1>3, <1>4 DEF PgSetBalance, PgShifts!SetBalance

\* Every action of the part is one of the steps above.
LEMMA ShiftsNext ==
  ASSUME PgTypes({l1}), PgShifts!Next
  PROVE  PgStep({l1}, {"create", "approve", "reject", "cancel", "lock", "clock"})
<1> DEFINE K == {"create", "approve", "reject", "cancel", "lock", "clock"}
           Begins(f) == \E u : PgBegin({l1}, f, u) /\ u.pc \in K
<1>1. ASSUME NEW f \in Flight, NEW l \in {l1}, PgShifts!BeginCreate(f, l) PROVE Begins(f)
  BY <1>1, ShiftsBeginCreate
<1>2. ASSUME NEW f \in Flight, NEW l \in {l1}, PgShifts!ReadForCancel(f, l) PROVE Begins(f)
  BY <1>2, ShiftsReadForCancel
<1>3. ASSUME NEW f \in Flight, NEW l \in {l1}, NEW decision \in {"approve", "reject"},
             PgShifts!BeginReview(f, l, decision)
      PROVE  Begins(f)
  BY <1>3, ShiftsBeginReview
<1>4. ASSUME NEW f \in Flight, NEW d \in PgShifts!Day, PgShifts!ReadForClock(f, d) PROVE Begins(f)
  <2>1. d \in Day
    BY DEF PgShifts!Day, PgShifts!Db!Day, Day
  <2>2. QED
    BY <1>4, <2>1, ShiftsReadForClock
<1>5. ASSUME NEW f \in Flight, PgShifts!BeginLock(f) PROVE Begins(f)
  BY <1>5, ShiftsBeginLock
<1> HIDE DEF K, Begins
<1>6. ASSUME NEW f \in Flight, Begins(f) PROVE PgStep({l1}, K)
  BY <1>6 DEF PgStep, Begins
<1>7. ASSUME NEW f \in Flight, PgShifts!CommitCreate(f) PROVE PgStep({l1}, K)
  BY <1>7, ShiftsCommitCreate DEF PgStep
<1>8. ASSUME NEW f \in Flight, PgShifts!CommitApproval(f) PROVE PgStep({l1}, K)
  BY <1>8, ShiftsCommitApproval DEF PgStep
<1>9. ASSUME NEW f \in Flight, PgShifts!CommitRejection(f) PROVE PgStep({l1}, K)
  BY <1>9, ShiftsCommitRejection DEF PgStep
<1>10. ASSUME NEW f \in Flight, PgShifts!Cancel(f) PROVE PgStep({l1}, K)
  BY <1>10, ShiftsCancel DEF PgStep
<1>11. ASSUME NEW f \in Flight, PgShifts!Clock(f) PROVE PgStep({l1}, K)
  BY <1>11, ShiftsClock DEF PgStep
<1>12. ASSUME NEW f \in Flight, PgShifts!CommitLock(f) PROVE PgStep({l1}, K)
  BY <1>12, ShiftsCommitLock DEF PgStep
<1>13. ASSUME NEW f \in Flight, PgShifts!RollBack(f) PROVE PgStep({l1}, K)
  BY <1>13, ShiftsRollBack DEF PgStep
<1>14. ASSUME NEW minutes \in Entitlement, PgShifts!SetBalance(minutes) PROVE PgStep({l1}, K)
  BY <1>14, ShiftsSetBalance DEF PgStep
<1>15. PgStep({l1}, K)
  BY <1>1, <1>2, <1>3, <1>4, <1>5, <1>6, <1>7, <1>8, <1>9, <1>10, <1>11, <1>12, <1>13, <1>14
  DEF PgShifts!Next
<1>16. QED
  BY <1>15 DEF K

\* Nothing is in flight at first.
LEMMA ShiftsInit ==
  ASSUME PgShifts!Init
  PROVE  /\ PgInv({l1}) /\ pgBalance = NoBalance /\ pgAllocations = {}
         /\ \A l \in {l1} : pgRequests[l] = NoRequest
         /\ \A d \in Day : pgSheet[d].leave = 0
         /\ \A f \in Flight : tx[f] = Idle
<1>1. /\ pgRequests = [l \in {l1} |-> NoRequest] /\ pgBalance = NoBalance
           /\ pgSheet = [d \in Day |-> NoSheet]
      /\ pgAllocations = {} /\ pgPeriod = "OPEN" /\ tx = [f \in Flight |-> Idle]
  BY DEF PgShifts!Init, PgShifts!Db!Init, PgShifts!Db!NoRequest, NoRequest, PgShifts!Db!NoBalance,
         NoBalance, PgShifts!Db!NoSheet, NoSheet, PgShifts!Db!Day, Day, PgShifts!Db!Idle, Idle
<1>2. NoSheet \in Sheet /\ NoSheet.leave = 0
  BY DEF NoSheet, Sheet
<1>3. pgRequests \in [{l1} -> Rows] /\ \A l \in {l1} : pgRequests[l] = NoRequest
  BY <1>1 DEF Rows
<1>4. pgSheet \in [Day -> Sheet] /\ \A d \in Day : pgSheet[d].leave = 0
  BY <1>1, <1>2
<1>5. tx \in [Flight -> PgFlight({l1})] /\ \A f \in Flight : tx[f] = Idle
  BY <1>1 DEF PgFlight
<1>6. PgTypes({l1})
  BY <1>1, <1>3, <1>4, <1>5 DEF PgTypes
<1>7. \A f \in Flight : Relies({l1}, tx[f], pgRequests, pgBalance, pgSheet, pgPeriod)
  BY <1>5, IdlePc DEF Relies
<1>8. \A f, g \in Flight :
        tx[f].pc = "create" /\ tx[g].pc = "create" /\ tx[f].request = tx[g].request => f = g
  BY <1>5, IdlePc
<1>9. PgInv({l1})
  BY <1>3, <1>6, <1>7, <1>8 DEF PgInv
<1>10. QED
  BY <1>1, <1>3, <1>4, <1>5, <1>9

\* The types are those of PostgresLeave.
LEMMA ShiftsTypes ==
  ASSUME PgTypes({l1})
  PROVE  PgShifts!TypeOK
<1>1. PgTransaction({l1}) = PgShifts!Transaction
  BY DEF PgTransaction, PgShifts!Transaction, SerializableKinds, PgShifts!Serializable, PgShifts!Day,
         PgShifts!Db!Day, Day, PgShifts!Db!Sheet, Sheet, PgShifts!Db!Code, Code, PgRow, PgShifts!Row
<1>2. /\ PgShifts!Db!Sheet = Sheet /\ PgShifts!Day = Day /\ PgShifts!Db!Day = Day /\ PgShifts!Idle = Idle
      /\ PgShifts!Db!Request = Request /\ PgShifts!Db!NoRequest = NoRequest
      /\ PgShifts!Db!Balance = Balance /\ PgShifts!Db!NoBalance = NoBalance
  BY DEF PgShifts!Db!Sheet, Sheet, PgShifts!Db!Code, Code, PgShifts!Day, PgShifts!Db!Day, Day,
         PgShifts!Idle, PgShifts!Db!Idle, Idle, PgShifts!Db!Request, Request, PgShifts!Db!NoRequest,
         NoRequest, PgShifts!Db!Balance, Balance, PgShifts!Db!NoBalance, NoBalance
<1>3. PgShifts!Db!Allocation = [request : {l1}, day : Day, minutes : Nat]
  BY <1>2 DEF PgShifts!Db!Allocation
<1>4. QED
  BY <1>1, <1>2, <1>3 DEF PgTypes, PgShifts!TypeOK, PgFlight, Rows

-----------------------------------------------------------------------------
(* The theorem about PostgreSQL.                                           *)

\* The records agree as PostgresLeave says.
LEMMA PgBooksAgree ==
  ASSUME PgBooks
  PROVE  PgRequests!BalanceMatchesRequests /\ PgRequests!NoDayTwice /\ PgRequests!LeaveIsOnTheSheets
<1>1. \A rows : PgRequests!Db!AllocatedIn(rows) = AllocatedIn(rows)
  BY RequestsMinutes DEF PgRequests!Db!AllocatedIn, AllocatedIn
<1>2. \A status : PgRequests!Db!MinutesOf(PgRequests!Db!With(status)) = MinutesIn(pgRequests, status)
  BY RequestsMinutes DEF PgRequests!Db!MinutesOf, PgRequests!Db!With, MinutesIn
<1>3. PgRequests!BalanceMatchesRequests
  BY <1>2 DEF PgRequests!BalanceMatchesRequests, PgRequests!Db!BalanceMatchesRequests, PgBooks, Books
<1>4. PgRequests!NoDayTwice
  BY DEF PgRequests!NoDayTwice, PgRequests!Db!NoDayTwice, PgRequests!Db!Active, PgRequests!Db!With,
    PgRequests!Db!Overlap, Overlap, IsActive, PgBooks, Books
<1>5. PgRequests!LeaveIsOnTheSheets
  BY <1>1 DEF PgRequests!LeaveIsOnTheSheets, PgRequests!Db!LeaveIsOnTheSheets, PgRequests!Db!With,
    PgRequests!Db!Day, Day, PgBooks, Books
<1>6. QED
  BY <1>3, <1>4, <1>5

\* What each part keeps of PostgreSQL's rows.
PgSuiteInv ==
  /\ part \in {"D1", "requests", "shifts"}
  /\ part = "requests" => PgRecords
  /\ part = "shifts" => PgInv({l1})

\* It holds at first.
LEMMA PgSuiteStarts ==
  ASSUME SuiteInit
  PROVE  PgSuiteInv
<1>1. ASSUME part = "requests", PgRequests!Init
      PROVE  PgRecords
  <2>1. /\ PgInv(Leave) /\ pgBalance = NoBalance /\ pgAllocations = {}
        /\ \A l \in Leave : pgRequests[l] = NoRequest
        /\ \A d \in Day : pgSheet[d].leave = 0
        /\ \A f \in Flight : tx[f] = Idle
    BY <1>1, RequestsInit
  <2>2. PICK req, sh : req = pgRequests /\ sh = pgSheet
    OBVIOUS
  <2>3. Books(req, NoBalance, sh, {})
    BY <2>1, <2>2, BooksEmpty
  <2>4. PgBooks
    BY <2>1, <2>2, <2>3 DEF PgBooks
  <2>5. QED
    BY <2>1, <2>4, IdlePc DEF PgRecords
<1>2. ASSUME part = "shifts", PgShifts!Init
      PROVE  PgInv({l1})
  BY <1>2, ShiftsInit
<1>3. QED
  BY <1>1, <1>2 DEF SuiteInit, PgSuiteInv

\* A step of the part "requests" keeps it and breaks no promise.
LEMMA PgRequestsStep ==
  ASSUME PgRecords, PgRequests!Next
  PROVE  PgRecords' /\ ReservesWithin /\ KeepsLockedLeave /\ KeepsShifts
<1>1. PICK K : K = {"create", "approve", "reject", "lock"}
  OBVIOUS
<1>2. PgInv(Leave) /\ PgTypes(Leave) /\ \A f \in Flight : tx[f].pc \notin {"cancel", "clock"}
  BY DEF PgRecords, PgInv
<1>3. PgStep(Leave, K)
  BY <1>1, <1>2, RequestsNext
<1>4. PgInv(Leave)'
  BY <1>2, <1>3, PgStepKeeps
<1>5. PgBooks'
  BY <1>3, PgBooksKeeps
<1>6. \A f \in Flight : tx'[f].pc \notin {"cancel", "clock"}
  <2>1. "cancel" \notin K /\ "clock" \notin K
    BY <1>1
  <2>2. QED
    BY <1>2, <1>3, <2>1, NothingUnsent
<1>7. ReservesWithin /\ KeepsLockedLeave /\ KeepsShifts
  BY <1>2, <1>3, PgPromises
<1>8. QED
  BY <1>4, <1>5, <1>6, <1>7 DEF PgRecords

\* And so does one of the part "shifts".
LEMMA PgShiftsStep ==
  ASSUME PgInv({l1}), PgShifts!Next
  PROVE  PgInv({l1})' /\ ReservesWithin /\ KeepsLockedLeave /\ KeepsShifts
<1>1. PICK L, K : L = {l1} /\ K = {"create", "approve", "reject", "cancel", "lock", "clock"}
  OBVIOUS
<1>2. PgTypes({l1})
  BY DEF PgInv
<1>3. PgStep(L, K) /\ PgInv(L)
  BY <1>1, <1>2, ShiftsNext
<1>4. PgInv(L)'
  BY <1>3, PgStepKeeps
<1>5. ReservesWithin /\ KeepsLockedLeave /\ KeepsShifts
  BY <1>3, PgPromises
<1>6. QED
  BY <1>1, <1>4, <1>5

\* A step of either part keeps the invariant and breaks no promise, and one on D1 writes
\* nothing here.
LEMMA PgSuiteStep ==
  ASSUME PgSuiteInv, [SuiteNext]_suiteVars
  PROVE  /\ PgSuiteInv'
         /\ pgVars' = pgVars \/ (ReservesWithin /\ KeepsLockedLeave /\ KeepsShifts)
<1>1. CASE UNCHANGED suiteVars
  <2>1. part' = part /\ UNCHANGED <<pgRequests, pgBalance, pgSheet, pgAllocations, pgPeriod, tx>>
          /\ pgVars' = pgVars
    BY <1>1 DEF suiteVars, pgVars
  <2>2. PgSuiteInv'
    BY <2>1 DEF PgSuiteInv, PgRecords, PgBooks, PgInv, PgTypes
  <2>3. QED
    BY <2>1, <2>2
<1>2. CASE part' = part /\ part = "D1" /\ UNCHANGED pgVars
  BY <1>2 DEF PgSuiteInv
<1>3. CASE part' = part /\ part = "requests" /\ PgRequests!Next
  BY <1>3, PgRequestsStep DEF PgSuiteInv
<1>4. CASE part' = part /\ part = "shifts" /\ PgShifts!Next
  BY <1>4, PgShiftsStep DEF PgSuiteInv
<1>5. QED
  BY <1>1, <1>2, <1>3, <1>4 DEF SuiteNext

\* What PostgreSQL keeps of the leave records, whichever requests run at the same time: the
\* balance row is the sum of the requests that are created and reviewed at once, two of them
\* never cover the same day, the timesheets carry exactly the approved leave, minutes are
\* reserved only within what is left, and the leave of a locked period never changes: an
\* approval that would write to it precedes and follows the lock, and is rolled back.
THEOREM PostgresKeepsLeaveHolds == Suite => PostgresKeepsLeave
<1>1. SuiteInit => PgSuiteInv
  BY PgSuiteStarts
<1>2. PgSuiteInv /\ [SuiteNext]_suiteVars => PgSuiteInv'
  BY PgSuiteStep
<1>3. PgSuiteInv => PostgresRecordsAgree
  <2>1. PgRecords => /\ PgRequests!TypeOK /\ PgRequests!BalanceMatchesRequests
                     /\ PgRequests!NoDayTwice /\ PgRequests!LeaveIsOnTheSheets
    BY RequestsTypes, PgBooksAgree DEF PgRecords, PgInv
  <2>2. PgInv({l1}) => PgShifts!TypeOK
    BY ShiftsTypes DEF PgInv
  <2>3. QED
    BY <2>1, <2>2 DEF PgSuiteInv, PostgresRecordsAgree
<1>4. pgVars' = pgVars => UNCHANGED PgRequests!Db!vars
  BY DEF pgVars, PgRequests!Db!vars
<1>5. PgSuiteInv /\ [SuiteNext]_suiteVars =>
        [pgBalance'.pending > pgBalance.pending =>
           pgBalance'.used + pgBalance'.pending <= pgBalance'.entitled]_(PgRequests!Db!vars)
  BY <1>4, PgSuiteStep DEF ReservesWithin
<1>6. PgSuiteInv /\ [SuiteNext]_suiteVars =>
        [pgPeriod = "LOCKED" => \A d \in PgRequests!Db!Day : d <= PeriodEnd =>
           pgSheet'[d].leave = pgSheet[d].leave]_(PgRequests!Db!vars)
  BY <1>4, PgSuiteStep DEF KeepsLockedLeave, PgRequests!Db!Day, Day
<1>7. PgSuiteInv /\ [SuiteNext]_suiteVars =>
        [\A f \in Flight : tx[f].pc = "approve" /\ tx'[f] = PgRequests!Db!Idle =>
           \A d \in PgRequests!Db!Day : pgSheet[d].state = "OPEN"
             => pgSheet'[d].state = "OPEN"]_(PgRequests!Db!vars)
  BY <1>4, PgSuiteStep DEF KeepsShifts, PgRequests!Db!Day, Day, PgRequests!Db!Idle, Idle
<1>8. QED
  BY <1>1, <1>2, <1>3, <1>5, <1>6, <1>7, PTL
     DEF Suite, PostgresKeepsLeave, PgRequests!AcceptedWithinBalance, PgRequests!Db!AcceptedWithinBalance,
       PgRequests!LockedPeriodsKeepTheirLeave, PgRequests!Db!LockedPeriodsKeepTheirLeave,
       PgRequests!ApprovalsKeepShiftsRunning, PgRequests!Db!ApprovalsKeepShiftsRunning
=============================================================================
