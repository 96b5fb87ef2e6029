------------------------------- MODULE Induction -------------------------------
(***************************************************************************)
(* Induction over the natural numbers, stated for sets: the form in which  *)
(* the proofs about blocks, walks and iterations use it; and with it, that *)
(* the iterations of InstructionFlow reach their fixed points.             *)
(***************************************************************************)
EXTENDS InstructionFlow, FiniteSetTheorems, NaturalsInduction, WellFoundedInduction, TLAPS

\* The order of the natural numbers, as a set of pairs.
Less == { p \in Nat \X Nat : p[1] < p[2] }

\* There is no infinite descent in it.
LEMMA LessIsWellFounded == IsWellFoundedOn(Less, Nat)
BY NatLessThanWellFounded DEF Less, OpToRel

\* A set of natural numbers that is not empty has a least element.
LEMMA LeastElement ==
  ASSUME NEW T \in SUBSET Nat, T # {}
  PROVE  \E n \in T : \A m \in T : n <= m
<1>1. PICK n \in T : \A m \in T : <<m, n>> \notin Less
  BY LessIsWellFounded, WFMin, Zenon
<1>2. \A m \in T : m \in Nat /\ n \in Nat /\ ~(m < n)
  BY <1>1 DEF Less
<1> QED
  BY <1>2

\* A set of natural numbers below a bound has a greatest element.
LEMMA GreatestElement ==
  ASSUME NEW T \in SUBSET Nat, T # {}, NEW b \in Nat, \A m \in T : m <= b
  PROVE  \E n \in T : \A m \in T : m <= n
<1> DEFINE U == { k \in Nat : \E m \in T : k = b - m }
<1>1. \A m \in T : b - m \in U
  OBVIOUS
<1>2. U \in SUBSET Nat /\ U # {}
  BY <1>1
<1>3. PICK u \in U : \A v \in U : u <= v
  <2> HIDE DEF U
  <2> QED
    BY <1>2, LeastElement
<1>4. PICK n \in T : u = b - n
  BY <1>3
<1>5. \A m \in T : b - n <= b - m
  BY <1>1, <1>3, <1>4
<1> QED
  BY <1>5

\* What holds of the first number of an interval and of the successor of
\* each number it holds of, holds throughout the interval.
LEMMA IntervalInduction ==
  ASSUME NEW a \in Nat, NEW b \in Nat, NEW S,
         a <= b => a \in S,
         \A n \in a..(b - 1) : n \in S => n + 1 \in S
  PROVE  a..b \subseteq S
<1> DEFINE T == (a..b) \ S
<1> SUFFICES ASSUME T # {}
             PROVE  FALSE
  OBVIOUS
<1>0. T \in SUBSET Nat
  OBVIOUS
<1>1. PICK n \in T : \A m \in T : n <= m
  <2> HIDE DEF T
  <2> QED
    BY <1>0, LeastElement
<1>2. n \in a..b /\ n \notin S /\ n # a
  OBVIOUS
<1>3. n - 1 \in a..(b - 1) /\ n - 1 \in S
  BY <1>1, <1>2
<1> QED
  BY <1>2, <1>3

\* The same for all natural numbers.
LEMMA SetInduction ==
  ASSUME NEW S, 0 \in S, \A n \in Nat : n \in S => n + 1 \in S
  PROVE  Nat \subseteq S
<1> SUFFICES ASSUME NEW b \in Nat
             PROVE  b \in S
  OBVIOUS
<1>1. 0..b \subseteq S
  BY IntervalInduction
<1> QED
  BY <1>1

-----------------------------------------------------------------------------
(***************************************************************************)
(* Positions that are reached, and positions that read.                    *)
(***************************************************************************)

\* The iteration of ReachableIn, unfolded.
LEMMA ReachableUnfold ==
  ASSUME NEW c
  PROVE  /\ ReachableWithin(c)[0] = {1} \cap DOMAIN c
         /\ \A n \in Nat \ {0} :
              ReachableWithin(c)[n] = ReachableWithin(c)[n - 1]
                \cup UNION { FlowsTo(c, p) : p \in ReachableWithin(c)[n - 1] }
<1> DEFINE f == ReachableWithin(c)
           f0 == {1} \cap DOMAIN c
           Def(S, n) == S \cup UNION { FlowsTo(c, p) : p \in S }
<1>1. NatInductiveDefHypothesis(f, f0, Def)
  BY DEF NatInductiveDefHypothesis, ReachableWithin
<1>2. NatInductiveDefConclusion(f, f0, Def)
  BY <1>1, NatInductiveDef
<1>3. f = [n \in Nat |-> IF n = 0 THEN f0 ELSE Def(f[n - 1], n)]
  BY <1>2 DEF NatInductiveDefConclusion
<1> HIDE DEF f
<1>4. f[0] = f0 /\ \A n \in Nat \ {0} : f[n] = Def(f[n - 1], n)
  <2> HIDE DEF Def, f0
  <2> QED
    BY <1>3
<1> QED
  BY <1>4 DEF f

\* The iteration of ReadFrom, unfolded.
LEMMA ReadUnfold ==
  ASSUME NEW c, NEW x
  PROVE  /\ ReadWithin(c, x)[0] = { p \in DOMAIN c : x \in GetSources(c[p]) }
         /\ \A n \in Nat \ {0} :
              ReadWithin(c, x)[n] = ReadWithin(c, x)[n - 1]
                \cup { p \in DOMAIN c : /\ x \notin GetDestination(c[p])
                                        /\ FlowsTo(c, p) \cap ReadWithin(c, x)[n - 1] # {} }
<1> DEFINE f == ReadWithin(c, x)
           f0 == { p \in DOMAIN c : x \in GetSources(c[p]) }
           Def(S, n) == S \cup { p \in DOMAIN c : /\ x \notin GetDestination(c[p])
                                                  /\ FlowsTo(c, p) \cap S # {} }
<1>1. NatInductiveDefHypothesis(f, f0, Def)
  BY DEF NatInductiveDefHypothesis, ReadWithin
<1>2. NatInductiveDefConclusion(f, f0, Def)
  BY <1>1, NatInductiveDef
<1>3. f = [n \in Nat |-> IF n = 0 THEN f0 ELSE Def(f[n - 1], n)]
  BY <1>2 DEF NatInductiveDefConclusion
<1> HIDE DEF f
<1>4. f[0] = f0 /\ \A n \in Nat \ {0} : f[n] = Def(f[n - 1], n)
  <2> HIDE DEF Def, f0
  <2> QED
    BY <1>3
<1> QED
  BY <1>4 DEF f

\* The flow of control stays in the list.
LEMMA FlowStaysInside ==
  ASSUME NEW c, NEW p
  PROVE  FlowsTo(c, p) \subseteq DOMAIN c
BY DEF FlowsTo

\* What is reached are positions of the list.
LEMMA ReachableInside ==
  ASSUME NEW c, Len(c) \in Nat
  PROVE  ReachableIn(c) \subseteq DOMAIN c
<1> DEFINE T == { n \in Nat : ReachableWithin(c)[n] \subseteq DOMAIN c }
<1>1. 0 \in T
  BY ReachableUnfold
<1>2. ASSUME NEW n \in Nat, n \in T
      PROVE  n + 1 \in T
  <2>1. n + 1 \in Nat \ {0} /\ (n + 1) - 1 = n
    OBVIOUS
  <2>2. ReachableWithin(c)[n + 1] = ReachableWithin(c)[n]
          \cup UNION { FlowsTo(c, p) : p \in ReachableWithin(c)[n] }
    BY <2>1, ReachableUnfold
  <2> QED
    BY <1>2, <2>1, <2>2, FlowStaysInside
<1>3. Nat \subseteq T
  <2> HIDE DEF T
  <2> QED
    BY <1>1, <1>2, SetInduction
<1> QED
  BY <1>3 DEF ReachableIn

\* ReadFrom is below every set that holds the reads and is closed backwards.
LEMMA ReadersAreLeast ==
  ASSUME NEW c, Len(c) \in Nat, NEW x, NEW S,
         { p \in DOMAIN c : x \in GetSources(c[p]) } \subseteq S,
         \A p \in DOMAIN c :
           x \notin GetDestination(c[p]) /\ FlowsTo(c, p) \cap S # {} => p \in S
  PROVE  ReadFrom(c, x) \subseteq S
<1> DEFINE T == { n \in Nat : ReadWithin(c, x)[n] \subseteq S }
<1>1. 0 \in T
  BY ReadUnfold
<1>2. ASSUME NEW n \in Nat, n \in T
      PROVE  n + 1 \in T
  <2>1. n + 1 \in Nat \ {0} /\ (n + 1) - 1 = n
    OBVIOUS
  <2>2. ReadWithin(c, x)[n + 1] = ReadWithin(c, x)[n]
          \cup { p \in DOMAIN c : /\ x \notin GetDestination(c[p])
                                  /\ FlowsTo(c, p) \cap ReadWithin(c, x)[n] # {} }
    BY <2>1, ReadUnfold
  <2>3. ASSUME NEW p \in DOMAIN c, x \notin GetDestination(c[p]),
               FlowsTo(c, p) \cap ReadWithin(c, x)[n] # {}
        PROVE  p \in S
    <3>1. FlowsTo(c, p) \cap S # {}
      BY <1>2, <2>3
    <3> QED
      BY <2>3, <3>1
  <2> QED
    BY <1>2, <2>1, <2>2, <2>3
<1>3. Nat \subseteq T
  <2> HIDE DEF T
  <2> QED
    BY <1>1, <1>2, SetInduction
<1> QED
  BY <1>3 DEF ReadFrom

\* The numbers up to N.
LEMMA SizeOfInterval ==
  ASSUME NEW N \in Nat
  PROVE  IsFiniteSet(1..N) /\ Cardinality(1..N) = N
<1>1. 1 \in Int /\ N \in Int
  OBVIOUS
<1>2. IsFiniteSet(1..N) /\ Cardinality(1..N) = IF 1 > N THEN 0 ELSE N - 1 + 1
  BY <1>1, FS_Interval, Zenon
<1> QED
  BY <1>2

\* Sets that grow inside 1..N, and do not grow again once they have not, do
\* not grow after N steps.
LEMMA ChainsStop ==
  ASSUME NEW N \in Nat, NEW f,
         \A n \in Nat : f[n] \subseteq f[n + 1] /\ f[n] \subseteq 1..N,
         \A n \in Nat : f[n + 1] = f[n] => f[(n + 1) + 1] = f[n + 1]
  PROVE  f[N + 1] = f[N]
<1> DEFINE T == { n \in Nat : f[n + 1] = f[n] \/ Cardinality(f[n + 1]) >= n + 1 }
<1>1. \A n \in Nat : n + 1 \in Nat
  OBVIOUS
<1>2. IsFiniteSet(1..N) /\ Cardinality(1..N) = N
  BY SizeOfInterval
<1>3. \A n \in Nat : IsFiniteSet(f[n]) /\ Cardinality(f[n]) \in Nat /\ Cardinality(f[n]) <= N
  BY <1>2, FS_Subset, FS_CardinalityType
<1>4. ASSUME NEW n \in Nat, f[n + 1] # f[n]
      PROVE  Cardinality(f[n + 1]) >= Cardinality(f[n]) + 1
  <2>1. /\ Cardinality(f[n]) <= Cardinality(f[n + 1])
        /\ Cardinality(f[n]) # Cardinality(f[n + 1])
    BY <1>1, <1>3, <1>4, FS_Subset
  <2>2. Cardinality(f[n]) \in Nat /\ Cardinality(f[n + 1]) \in Nat
    BY <1>1, <1>3
  <2>3. \A a, b \in Nat : a <= b /\ a # b => b >= a + 1
    OBVIOUS
  <2> QED
    BY <2>1, <2>2, <2>3
<1>5. 0 \in T
  <2>1. CASE f[0 + 1] # f[0]
    <3>1. Cardinality(f[0 + 1]) >= Cardinality(f[0]) + 1
      BY <1>4, <2>1
    <3>2. Cardinality(f[0]) \in Nat /\ Cardinality(f[0 + 1]) \in Nat
      BY <1>1, <1>3
    <3> QED
      BY <3>1, <3>2
  <2> QED
    BY <2>1
<1>6. ASSUME NEW n \in Nat, n \in T
      PROVE  n + 1 \in T
  <2>1. CASE f[(n + 1) + 1] = f[n + 1]
    BY <2>1
  <2>2. CASE f[(n + 1) + 1] # f[n + 1]
    <3>1. Cardinality(f[n + 1]) >= n + 1
      BY <1>6, <2>2
    <3>2. Cardinality(f[(n + 1) + 1]) >= Cardinality(f[n + 1]) + 1
      BY <1>1, <1>4, <2>2
    <3>3. Cardinality(f[n + 1]) \in Nat /\ Cardinality(f[(n + 1) + 1]) \in Nat
      BY <1>1, <1>3
    <3> QED
      BY <3>1, <3>2, <3>3
  <2> QED
    BY <2>1, <2>2
<1>7. Nat \subseteq T
  <2> HIDE DEF T
  <2> QED
    BY <1>5, <1>6, SetInduction
<1>8. Cardinality(f[N + 1]) \in Nat /\ Cardinality(f[N + 1]) <= N
  BY <1>1, <1>3
<1> QED
  BY <1>7, <1>8

\* A position is in ReadFrom where the instruction reads the name, or passes
\* it on to a position that is: after as many steps as there are instructions
\* the iteration has come to its end.
LEMMA ReadersAreClosed ==
  ASSUME NEW c, Len(c) \in Nat, DOMAIN c = 1..Len(c), NEW x, NEW p \in DOMAIN c
  PROVE  p \in ReadFrom(c, x) <=>
           \/ x \in GetSources(c[p])
           \/ x \notin GetDestination(c[p]) /\ FlowsTo(c, p) \cap ReadFrom(c, x) # {}
<1> DEFINE f == ReadWithin(c, x)
           N == Len(c)
           R == ReadFrom(c, x)
           Reading == { q \in DOMAIN c : x \in GetSources(c[q]) }
           Passing(S) == { q \in DOMAIN c : /\ x \notin GetDestination(c[q])
                                            /\ FlowsTo(c, q) \cap S # {} }
<1>1. f[0] = Reading /\ \A n \in Nat : f[n + 1] = f[n] \cup Passing(f[n])
  <2>1. \A n \in Nat : n + 1 \in Nat \ {0} /\ (n + 1) - 1 = n
    OBVIOUS
  <2>2. f[0] = Reading /\ \A n \in Nat \ {0} : f[n] = f[n - 1] \cup Passing(f[n - 1])
    BY ReadUnfold
  <2> HIDE DEF f, Passing, Reading
  <2> QED
    BY <2>1, <2>2
<1>2. R = f[N]
  BY DEF ReadFrom
<1>3. \A S : Passing(S) \subseteq DOMAIN c
  OBVIOUS
<1>4. Reading \subseteq DOMAIN c
  OBVIOUS
<1> HIDE DEF f, R
<1>5. \A n \in Nat : f[n] \subseteq DOMAIN c /\ Reading \subseteq f[n]
  <2> DEFINE T == { n \in Nat : f[n] \subseteq DOMAIN c /\ Reading \subseteq f[n] }
  <2> HIDE DEF Passing, Reading
  <2>1. 0 \in T /\ \A n \in Nat : n \in T => n + 1 \in T
    BY <1>1, <1>3, <1>4
  <2>2. Nat \subseteq T
    <3> HIDE DEF T
    <3> QED
      BY <2>1, SetInduction
  <2> QED
    BY <2>2
<1>6. f[N + 1] = f[N]
  <2> HIDE DEF Passing, Reading
  <2>1. \A n \in Nat : f[n] \subseteq f[n + 1] /\ f[n] \subseteq 1..N
    BY <1>1, <1>5
  <2>2. \A n \in Nat : f[n + 1] = f[n] => f[(n + 1) + 1] = f[n + 1]
    <3>1. \A n \in Nat : n + 1 \in Nat
      OBVIOUS
    <3> QED
      BY <1>1, <3>1
  <2> HIDE DEF N
  <2> QED
    BY <2>1, <2>2, ChainsStop DEF N
<1>7. Reading \subseteq R /\ Passing(R) \subseteq R
  <2> HIDE DEF Passing, Reading
  <2>1. N \in Nat
    OBVIOUS
  <2> QED
    BY <1>1, <1>2, <1>5, <1>6, <2>1
<1>8. R \subseteq Reading \cup Passing(R)
  <2> DEFINE S == Reading \cup Passing(R)
  <2>1. S \subseteq R
    BY <1>7
  <2>2. Reading \subseteq S
    OBVIOUS
  <2>3. ASSUME NEW q \in DOMAIN c, x \notin GetDestination(c[q]), FlowsTo(c, q) \cap S # {}
        PROVE  q \in S
    BY <2>1, <2>3
  <2> HIDE DEF S
  <2>4. ReadFrom(c, x) \subseteq S
    BY <2>2, <2>3, ReadersAreLeast
  <2> QED
    BY <2>4 DEF R, S
<1> QED
  BY <1>7, <1>8 DEF R

\* What is reached in one step from a position that is reached is reached: the
\* iteration has come to its end here, too.
LEMMA ReachableIsClosed ==
  ASSUME NEW c, Len(c) \in Nat, DOMAIN c = 1..Len(c)
  PROVE  /\ {1} \cap DOMAIN c \subseteq ReachableIn(c)
         /\ \A p \in ReachableIn(c) : FlowsTo(c, p) \subseteq ReachableIn(c)
<1> DEFINE f == ReachableWithin(c)
           N == Len(c)
           Grown(S) == S \cup UNION { FlowsTo(c, p) : p \in S }
<1>1. f[0] = {1} \cap DOMAIN c /\ \A n \in Nat : f[n + 1] = Grown(f[n])
  <2>1. \A n \in Nat : n + 1 \in Nat \ {0} /\ (n + 1) - 1 = n
    OBVIOUS
  <2>2. f[0] = {1} \cap DOMAIN c /\ \A n \in Nat \ {0} : f[n] = Grown(f[n - 1])
    BY ReachableUnfold
  <2> HIDE DEF f, Grown
  <2> QED
    BY <2>1, <2>2
<1>2. \A S : S \subseteq Grown(S) /\ (S \subseteq DOMAIN c => Grown(S) \subseteq DOMAIN c)
  BY FlowStaysInside
<1>3. \A S : Grown(S) = S => \A p \in S : FlowsTo(c, p) \subseteq S
  OBVIOUS
<1> HIDE DEF f, Grown
<1>4. \A n \in Nat : f[n] \subseteq DOMAIN c /\ {1} \cap DOMAIN c \subseteq f[n]
  <2> DEFINE T == { n \in Nat : f[n] \subseteq DOMAIN c /\ {1} \cap DOMAIN c \subseteq f[n] }
  <2>0. 0 \in T
    BY <1>1
  <2>1. ASSUME NEW n \in Nat, n \in T PROVE n + 1 \in T
    <3>1. n + 1 \in Nat
      OBVIOUS
    <3>2. f[n + 1] = Grown(f[n])
      BY <1>1
    <3> QED
      BY <1>2, <2>1, <3>1, <3>2
  <2>2. Nat \subseteq T
    <3> HIDE DEF T
    <3> QED
      BY <2>0, <2>1, SetInduction
  <2> QED
    BY <2>2
<1>5. f[N + 1] = f[N]
  <2>1. \A n \in Nat : f[n] \subseteq f[n + 1] /\ f[n] \subseteq 1..N
    BY <1>1, <1>2, <1>4
  <2>2. \A n \in Nat : f[n + 1] = f[n] => f[(n + 1) + 1] = f[n + 1]
    <3>1. \A n \in Nat : n + 1 \in Nat
      OBVIOUS
    <3> QED
      BY <1>1, <3>1
  <2> HIDE DEF N
  <2> QED
    BY <2>1, <2>2, ChainsStop DEF N
<1>6. f[N] = Grown(f[N]) /\ ReachableIn(c) = f[N]
  BY <1>1, <1>5 DEF ReachableIn, f
<1> QED
  BY <1>3, <1>4, <1>6

=============================================================================
