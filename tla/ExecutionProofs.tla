---------------------------- MODULE ExecutionProofs ----------------------------
(***************************************************************************)
(* What is proved of the generated assembly, for every function, every     *)
(* placement of its names and words of any width: loads and stores stay in *)
(* the frame, jumps lead to labels that are there, a caller finds its      *)
(* registers as it left them, and values, arguments and results are where  *)
(* the instruction list says.                                              *)
(*                                                                         *)
(* The assembly is a prologue, the parameters, a piece for each            *)
(* instruction of the list and an epilogue, concatenated. It is shown      *)
(* first what is where (IsLaidOut) and that the instructions between the   *)
(* two ends are safe (IsSafe); the invariant IInv then says by position    *)
(* what the registers and the frame hold of the caller's.                  *)
(*                                                                         *)
(* That the machine also computes what the list computes is the second     *)
(* half. Does says what a piece makes of the registers and the frame, and  *)
(* CarriesOut that this is what its instruction asks for; HoldsPieces says *)
(* where the pieces are. The invariant SInv then relates the two: before   *)
(* the first instruction (Entering), at a boundary (Waiting), inside a     *)
(* piece (Working) and after the last (Leaving).                           *)
(***************************************************************************)
EXTENDS Execution, Induction, FunctionTheorems, SequenceTheorems, FiniteSetTheorems

-----------------------------------------------------------------------------
(***************************************************************************)
(* Words.                                                                  *)
(***************************************************************************)

\* A set of n elements has 2 ^ n subsets, one more element twice as many.
LEMMA PowerOfTwo ==
  ASSUME NEW n \in Nat
  PROVE  2 ^ n \in Nat \ {0} /\ 2 ^ (n + 1) = 2 * 2 ^ n
<1> DEFINE A == SUBSET (1..n)
           B == { a \cup {n + 1} : a \in A }
<1>1. \A k \in Nat : /\ IsFiniteSet(SUBSET (1..k)) /\ Cardinality(SUBSET (1..k)) = 2 ^ k
                     /\ 2 ^ k \in Nat
  <2> TAKE k \in Nat
  <2>1. 1 \in Int /\ k \in Int
    OBVIOUS
  <2>2. IsFiniteSet(1..k) /\ Cardinality(1..k) = IF 1 > k THEN 0 ELSE k - 1 + 1
    BY <2>1, FS_Interval, Zenon
  <2>3. IsFiniteSet(1..k) /\ Cardinality(1..k) = k
    BY <2>2
  <2>4. IsFiniteSet(SUBSET (1..k)) /\ Cardinality(SUBSET (1..k)) = 2 ^ Cardinality(1..k)
    BY <2>3, FS_SUBSET
  <2> QED
    BY <2>3, <2>4, FS_CardinalityType
<1>2. IsFiniteSet(A) /\ Cardinality(A) = 2 ^ n /\ Cardinality(A) \in Nat
  BY <1>1
<1>3. Cardinality(A) # 0
  <2>1. {} \in A
    OBVIOUS
  <2> QED
    BY <1>2, <2>1, FS_EmptySet
<1>4. IsFiniteSet(B) /\ Cardinality(B) = Cardinality(A)
  <2> DEFINE h == [a \in A |-> a \cup {n + 1}]
  <2>1. ExistsBijection(A, B)
    <3>1. \A a \in A : n + 1 \notin a
      OBVIOUS
    <3>2. h \in [A -> B] /\ \A b \in B : \E a \in A : h[a] = b
      OBVIOUS
    <3>3. \A a, b \in A : h[a] = h[b] => a = b
      BY <3>1
    <3> QED
      BY <3>2, <3>3, Fun_IsBij DEF ExistsBijection
  <2> HIDE DEF A, B
  <2> QED
    BY <1>2, <2>1, FS_Bijection
<1>5. A \cap B = {} /\ A \cup B = SUBSET (1..(n + 1))
  <2>1. \A a \in A : n + 1 \notin a
    OBVIOUS
  <2>2. A \cap B = {}
    BY <2>1
  <2>3. A \cup B \subseteq SUBSET (1..(n + 1))
    <3>1. 1..n \subseteq 1..(n + 1) /\ n + 1 \in 1..(n + 1)
      OBVIOUS
    <3> QED
      BY <3>1
  <2>4. ASSUME NEW a \in SUBSET (1..(n + 1)) PROVE a \in A \cup B
    <3>1. CASE n + 1 \in a
      <4>1. a \ {n + 1} \in A /\ a = (a \ {n + 1}) \cup {n + 1}
        BY <3>1
      <4> QED
        BY <4>1
    <3>2. CASE n + 1 \notin a
      BY <3>2
    <3> QED
      BY <3>1, <3>2
  <2> QED
    BY <2>2, <2>3, <2>4
<1>6. n + 1 \in Nat
  OBVIOUS
<1> HIDE DEF A, B
<1>7. Cardinality(A \cup B) = Cardinality(A) + Cardinality(B) - Cardinality(A \cap B)
  BY <1>2, <1>4, FS_Union
<1>8. Cardinality(A \cap B) = 0
  BY <1>5, FS_EmptySet
<1>9. Cardinality(A \cup B) = 2 ^ (n + 1)
  BY <1>1, <1>5, <1>6
<1> QED
  BY <1>2, <1>3, <1>4, <1>7, <1>8, <1>9

\* The words are the integers from Least up, 2 ^ Width of them.
LEMMA WrapIsWord ==
  /\ Least \in Int /\ 2 ^ Width = -2 * Least /\ Least < 0
  /\ \A n \in Int : Wrap(n) \in Word
<1> DEFINE m == Width - 1
           h == 2 ^ m
<1>1. m \in Nat /\ m + 1 = Width
  BY WidthIsPositive
<1> HIDE DEF m
<1>2. h \in Nat \ {0} /\ 2 ^ Width = 2 * h
  BY <1>1, PowerOfTwo
<1>3. Least = -h
  BY DEF Least, m
<1> HIDE DEF h
<1>4. \A k \in Int : k % (2 * h) \in 0..(2 * h - 1)
  BY <1>2
<1>5. ASSUME NEW n \in Int PROVE Wrap(n) \in Word
  <2> DEFINE r == (n - Least) % (2 * h)
  <2>1. r \in 0..(2 * h - 1)
    <3>1. n - Least \in Int
      BY <1>2, <1>3
    <3> QED
      BY <1>4, <3>1
  <2>2. Wrap(n) = r + Least
    BY <1>2 DEF Wrap
  <2> HIDE DEF r
  <2> QED
    BY <1>2, <1>3, <2>1, <2>2 DEF Word
<1> QED
  BY <1>2, <1>3, <1>5

\* What an operation computes of words is a word.
LEMMA ResultsAreWords ==
  /\ \A b : Truth(b) \in Word
  /\ \A fn, l, r : l \in Word /\ r \in Word /\ HasValue(fn, r)
         /\ fn \in {"Add", "Subtract", "Multiply", "Divide", "Equal", "LessThan",
                    "LessThanEqual", "GreaterThan", "GreaterThanEqual", "And", "Or"}
       => EvalBinOp(fn, l, r) \in Word
  /\ \A fn, v : v \in Word => EvalUnaryOp(fn, v) \in Word
<1>1. \A b : Truth(b) \in Word
  BY WordsAreWords, WrapIsWord DEF Truth, Word
<1>2. ASSUME NEW fn \in {"Add", "Subtract", "Multiply", "Divide", "Equal", "LessThan",
                    "LessThanEqual", "GreaterThan", "GreaterThanEqual", "And", "Or"},
             NEW l \in Word, NEW r \in Word, HasValue(fn, r)
      PROVE  EvalBinOp(fn, l, r) \in Word
  <2>1. l \in Int /\ r \in Int
    BY WrapIsWord DEF Word
  <2>2. CASE fn = "Divide"
    <3>1. r # 0
      BY <1>2, <2>2 DEF HasValue
    <3>2. \A a, b \in Nat : b # 0 => a \div b \in Int
      OBVIOUS
    <3>3. Quotient(l, r) \in Int
      BY <2>1, <3>1, <3>2 DEF Quotient
    <3> QED
      BY <2>2, <3>3, WrapIsWord DEF EvalBinOp
  <2>3. CASE fn \in {"Add", "Subtract", "Multiply"}
    <3>1. l + r \in Int /\ l - r \in Int /\ l * r \in Int
      BY <2>1
    <3> QED
      BY <2>3, <3>1, WrapIsWord DEF EvalBinOp
  <2>4. CASE fn \notin {"Add", "Subtract", "Multiply", "Divide"}
    BY <1>1, <2>4 DEF EvalBinOp
  <2> QED
    BY <2>2, <2>3, <2>4
<1>3. ASSUME NEW fn, NEW v \in Word PROVE EvalUnaryOp(fn, v) \in Word
  <2>1. -v \in Int
    BY WrapIsWord DEF Word
  <2> QED
    BY <1>1, <2>1, WrapIsWord DEF EvalUnaryOp
<1> QED
  BY <1>1, <1>2, <1>3

-----------------------------------------------------------------------------
(***************************************************************************)
(* The frame.                                                              *)
(***************************************************************************)

\* The sequence has n elements, no two of them equal.
ListsOnce(s, n) ==
  n \in Nat /\ DOMAIN s = 1..n /\ \A i, j \in 1..n : s[i] = s[j] => i = j

\* A finite set listed: each element once.
LEMMA SetListed ==
  ASSUME NEW S, IsFiniteSet(S)
  PROVE  LET s == SetToSeq(S) IN
         /\ Cardinality(S) \in Nat /\ ListsOnce(s, Cardinality(S))
         /\ s \in Seq(S) /\ Len(s) = Cardinality(S) /\ DOMAIN s = 1..Cardinality(S)
         /\ \A i, j \in 1..Cardinality(S) : s[i] = s[j] => i = j
         /\ \A x \in S : \E i \in 1..Cardinality(S) : s[i] = x
<1> DEFINE n == Cardinality(S)
           s == SetToSeq(S)
<1>1. n \in Nat
  BY FS_CardinalityType
<1>2. IsFiniteSet(1..n) /\ Cardinality(1..n) = n
  <2>1. 1 \in Int /\ n \in Int
    BY <1>1
  <2> HIDE DEF n
  <2>2. IsFiniteSet(1..n) /\ Cardinality(1..n) = IF 1 > n THEN 0 ELSE n - 1 + 1
    BY <2>1, FS_Interval, Zenon
  <2> QED
    BY <1>1, <2>2
<1>3. PICK b : b \in Bijection(1..n, S)
  BY <1>2, FS_SameCardinalityBij DEF ExistsBijection
<1>4. b \in [1..n -> S] /\ IsInjective(b)
  BY <1>3 DEF Bijection, Injection
<1>5. s \in [1..n -> S] /\ IsInjective(s)
  BY <1>4 DEF SetToSeq
<1> HIDE DEF s
<1>6. s \in Injection(1..n, S)
  BY <1>5 DEF Injection
<1>7. s \in Surjection(1..n, S)
  BY <1>2, <1>6, FS_Injection
<1> HIDE DEF n
<1>8. s \in Seq(S) /\ Len(s) = n /\ DOMAIN s = 1..n
  BY <1>1, <1>5
<1>9. \A i, j \in 1..n : s[i] = s[j] => i = j
  BY <1>5 DEF IsInjective
<1>10. \A x \in S : \E i \in 1..n : s[i] = x
  BY <1>7 DEF Surjection
<1> QED
  BY <1>1, <1>8, <1>9, <1>10 DEF n, s, ListsOnce

\* The slots of a list of names follow each other.
LEMMA SlotsFollow ==
  ASSUME NEW s, NEW n, ListsOnce(s, n), NEW first \in Int, NEW k \in 1..n
  PROVE  Offsets(s, first)[s[k]] = first + 8 * (k - 1)
<1>1. n \in Nat /\ DOMAIN s = 1..n /\ \A i, j \in 1..n : s[i] = s[j] => i = j
  BY DEF ListsOnce
<1>2. s[k] \in Range(s)
  BY <1>1 DEF Range
<1>3. (CHOOSE i \in DOMAIN s : s[i] = s[k]) = k
  BY <1>1
<1> QED
  BY <1>2, <1>3 DEF Offsets

Size(g) == BuildStackFrame(g).frameSize
NumSaved(g) == Cardinality(Range(g.registers))
SpillSlots(g) == { BuildStackFrame(g).spillOffsets[x] : x \in g.spilled }

\* Each saved register and each spilled name has eight bytes of the frame.
LEMMA FrameFits ==
  ASSUME NEW g, IsCompilable(g)
  PROVE  /\ NumSaved(g) \in Nat /\ Size(g) \in Nat
         /\ Size(g) % 16 = 0 /\ 8 * (NumSaved(g) + 1) <= Size(g)
         /\ Len(SavedRegisters(g)) = NumSaved(g)
         /\ DOMAIN SavedRegisters(g) = 1..NumSaved(g)
         /\ \A i, j \in 1..NumSaved(g) : SavedRegisters(g)[i] = SavedRegisters(g)[j] => i = j
         /\ \A r \in Range(g.registers) : \E i \in 1..NumSaved(g) : SavedRegisters(g)[i] = r
         /\ \A i \in 1..NumSaved(g) :
              /\ SavedRegisters(g)[i] \in Range(g.registers)
              /\ BuildStackFrame(g).savedRegisterOffsets[SavedRegisters(g)[i]] = 8 * i
         /\ \A o \in SpillSlots(g) :
              \E k \in Nat : /\ o = 8 * k /\ NumSaved(g) < k /\ 8 * (k + 1) <= Size(g)
         /\ \A k \in Nat : 8 * (k + 1) <= Size(g) => 8 * k - Size(g) \in Frame(g)
<1> DEFINE n == NumSaved(g)
           m == Cardinality(g.spilled)
           saved == SavedRegisters(g)
           listed == SetToSeq(g.spilled)
           size == Size(g)
<1>1. IsFiniteSet(Range(g.registers)) /\ IsFiniteSet(g.spilled)
  <2>1. Range(g.registers) \subseteq SavedReg
    BY DEF IsCompilable, Range
  <2> QED
    BY <2>1, PoolIsSaved, FS_Subset DEF IsCompilable
<1>2. /\ n \in Nat /\ saved \in Seq(Range(g.registers)) /\ Len(saved) = n /\ DOMAIN saved = 1..n
      /\ ListsOnce(saved, n) /\ \A i, j \in 1..n : saved[i] = saved[j] => i = j
      /\ \A r \in Range(g.registers) : \E i \in 1..n : saved[i] = r
  BY <1>1, SetListed DEF NumSaved, SavedRegisters
<1>3. /\ m \in Nat /\ listed \in Seq(g.spilled) /\ DOMAIN listed = 1..m
      /\ ListsOnce(listed, m)
      /\ \A x \in g.spilled : \E i \in 1..m : listed[i] = x
  BY <1>1, SetListed
<1>4. FirstSpill(g) = 8 + 8 * n
  BY DEF FirstSpill, NumSaved
<1>5. /\ size = Align16(FirstSpill(g) + 8 * m)
      /\ BuildStackFrame(g).savedRegisterOffsets = Offsets(saved, 8)
      /\ BuildStackFrame(g).spillOffsets = Offsets(listed, FirstSpill(g))
  BY DEF BuildStackFrame, Size
<1> HIDE DEF n, m, saved, listed, size
<1>6. size \in Nat /\ size % 16 = 0 /\ 8 * (n + m + 1) <= size
  <2> DEFINE a == 8 + 8 * n + 8 * m
             q == (a + 15) \div 16
  <2>1. a \in Nat
    BY <1>2, <1>3
  <2>2. size = q * 16
    BY <1>4, <1>5 DEF Align16
  <2> HIDE DEF a
  <2>3. q \in Nat /\ a <= q * 16
    BY <2>1
  <2> HIDE DEF q
  <2>4. (q * 16) % 16 = 0 /\ q * 16 \in Nat
    BY <2>3
  <2> QED
    BY <1>2, <1>3, <2>2, <2>3, <2>4 DEF a
<1>7. \A i \in 1..n : /\ saved[i] \in Range(g.registers)
                      /\ BuildStackFrame(g).savedRegisterOffsets[saved[i]] = 8 * i
  <2> TAKE i \in 1..n
  <2>1. \A first \in Int : Offsets(saved, first)[saved[i]] = first + 8 * (i - 1)
    BY <1>2, SlotsFollow
  <2>2. Offsets(saved, 8)[saved[i]] = 8 + 8 * (i - 1)
    BY <2>1
  <2> QED
    BY <1>2, <1>5, <2>2
<1>8. ASSUME NEW o \in SpillSlots(g)
      PROVE  \E k \in Nat : o = 8 * k /\ n < k /\ 8 * (k + 1) <= size
  <2>1. PICK x \in g.spilled : o = BuildStackFrame(g).spillOffsets[x]
    BY DEF SpillSlots
  <2>2. PICK i \in 1..m : listed[i] = x
    BY <1>3
  <2>3. o = FirstSpill(g) + 8 * (i - 1)
    <3>1. FirstSpill(g) \in Int
      BY <1>2, <1>4
    <3>2. Offsets(listed, FirstSpill(g))[listed[i]] = FirstSpill(g) + 8 * (i - 1)
      BY <1>3, <3>1, SlotsFollow
    <3> QED
      BY <1>5, <2>1, <2>2, <3>2
  <2>4. /\ n + i \in Nat /\ o = 8 * (n + i) /\ n < n + i /\ 8 * (n + i + 1) <= size
    <3>1. i \in Nat /\ 1 <= i /\ i <= m /\ n \in Nat /\ m \in Nat /\ size \in Nat
      BY <1>2, <1>3, <1>6
    <3>2. o = 8 + 8 * n + 8 * (i - 1) /\ 8 * (n + m + 1) <= size
      BY <1>4, <1>6, <2>3
    <3> QED
      BY <3>1, <3>2
  <2> QED
    BY <2>4
<1>9. ASSUME NEW k \in Nat, 8 * (k + 1) <= size
      PROVE  8 * k - size \in Frame(g)
  <2>1. k \in 0..(size \div 8 - 1)
    BY <1>6, <1>9
  <2> QED
    BY <2>1 DEF Frame, size, Size
<1>10. 8 * (n + 1) <= size
  BY <1>2, <1>3, <1>6
<1> QED
  BY <1>2, <1>6, <1>7, <1>8, <1>9, <1>10 DEF n, saved, size


-----------------------------------------------------------------------------
(***************************************************************************)
(* What is emitted for the body.                                           *)
(***************************************************************************)

\* Such an instruction writes no register of the caller's but those the frame
\* has saved, touches no slot but those of spilled names, and leads nowhere
\* but to labels of the function.
IsSafe(g, i) ==
  /\ i.op \notin {"ret", "throw"}
  /\ i.op \notin {"label", "j", "bnez", "sd", "call"} => i.rd \in Scratch \cup Range(g.registers)
  /\ i.op \in {"ld", "sd"} => i.offset \in SpillSlots(g)
  /\ i.op = "label" => i.label \in LabelsIn(g.code)
  /\ i.op \in {"j", "bnez"} => i.label \in LabelsIn(g.code) \cup {EpilogueLabel}

AllSafe(g, s) == s \in Seq(Range(s)) /\ \A i \in Range(s) : IsSafe(g, i)

\* A sequence is one of its own elements.
LEMMA SeqOfItsRange ==
  ASSUME NEW S, NEW s \in Seq(S)
  PROVE  s \in Seq(Range(s)) /\ Range(s) \subseteq S /\ Range(s) = { s[k] : k \in 1..Len(s) }
<1>1. DOMAIN s = 1..Len(s) /\ Len(s) \in Nat /\ \A k \in 1..Len(s) : s[k] \in S
  OBVIOUS
<1>2. Range(s) = { s[k] : k \in 1..Len(s) }
  BY <1>1 DEF Range
<1> QED
  BY <1>1, <1>2

\* Sequences of safe instructions: one or two, and two sequences in a row.
LEMMA SafeSequences ==
  ASSUME NEW g
  PROVE  /\ AllSafe(g, <<>>)
         /\ \A i : IsSafe(g, i) => AllSafe(g, <<i>>)
         /\ \A i, j : IsSafe(g, i) /\ IsSafe(g, j) => AllSafe(g, <<i, j>>)
         /\ \A s, t : AllSafe(g, s) /\ AllSafe(g, t) => AllSafe(g, s \o t)
<1>1. AllSafe(g, <<>>)
  BY DEF AllSafe, Range
<1>2. ASSUME NEW i, IsSafe(g, i) PROVE AllSafe(g, <<i>>)
  <2>1. <<i>> \in Seq({i})
    OBVIOUS
  <2>2. <<i>> \in Seq(Range(<<i>>)) /\ Range(<<i>>) \subseteq {i}
    BY <2>1, SeqOfItsRange
  <2> QED
    BY <1>2, <2>2 DEF AllSafe
<1>3. ASSUME NEW i, NEW j, IsSafe(g, i), IsSafe(g, j) PROVE AllSafe(g, <<i, j>>)
  <2>1. <<i, j>> \in Seq({i, j})
    OBVIOUS
  <2>2. <<i, j>> \in Seq(Range(<<i, j>>)) /\ Range(<<i, j>>) \subseteq {i, j}
    BY <2>1, SeqOfItsRange
  <2> QED
    BY <1>3, <2>2 DEF AllSafe
<1>4. ASSUME NEW s, NEW t, AllSafe(g, s), AllSafe(g, t) PROVE AllSafe(g, s \o t)
  <2> DEFINE S == Range(s) \cup Range(t)
  <2>1. s \in Seq(S) /\ t \in Seq(S) /\ \A i \in S : IsSafe(g, i)
    BY <1>4 DEF AllSafe
  <2> HIDE DEF S
  <2>2. s \o t \in Seq(S)
    BY <2>1
  <2>3. s \o t \in Seq(Range(s \o t)) /\ Range(s \o t) \subseteq S
    BY <2>2, SeqOfItsRange
  <2> QED
    BY <2>1, <2>3 DEF AllSafe
<1> QED
  BY <1>1, <1>2, <1>3, <1>4

\* The recursion of FlattenSeq, unfolded: the elements of a flattened sequence
\* are those of its parts.
LEMMA FlattenedElements ==
  ASSUME NEW S, NEW seqs \in Seq(Seq(S))
  PROVE  /\ FlattenSeq(seqs) \in Seq(S)
         /\ \A p \in 1..Len(seqs) : Range(seqs[p]) \subseteq Range(FlattenSeq(seqs))
<1> DEFINE n == Len(seqs)
<1>1. n \in Nat /\ \A p \in 1..n : seqs[p] \in Seq(S)
  OBVIOUS
<1>2. CASE n = 0
  <2>1. FlattenSeq(seqs) = <<>> /\ 1..Len(seqs) = {}
    BY <1>2 DEF FlattenSeq
  <2>2. <<>> \in Seq(S)
    OBVIOUS
  <2> HIDE DEF n
  <2> QED
    BY <2>1, <2>2
<1>3. CASE n # 0
  <2> DEFINE joined0 == seqs[1]
             Def(v, i) == v \o seqs[i]
             joined == CHOOSE h : h = [i \in 1..n |-> IF i = 1 THEN seqs[i]
                                                      ELSE h[i - 1] \o seqs[i]]
             joined1 == CHOOSE h : h = [i \in 1..n |-> IF i = 1 THEN joined0 ELSE Def(h[i - 1], i)]
  <2>1. joined = joined1
    <3>1. \A h : [i \in 1..n |-> IF i = 1 THEN seqs[i] ELSE h[i - 1] \o seqs[i]]
                   = [i \in 1..n |-> IF i = 1 THEN joined0 ELSE Def(h[i - 1], i)]
      BY SMT
    <3> QED
      BY <3>1
  <2>2. FlattenSeq(seqs) = joined[n]
    BY <1>3 DEF FlattenSeq
  <2>3. FiniteNatInductiveDefHypothesis(joined1, joined0, Def, 1, n)
    BY DEF FiniteNatInductiveDefHypothesis
  <2>4. FiniteNatInductiveDefConclusion(joined1, joined0, Def, 1, n)
    BY <1>1, <2>3, FiniteNatInductiveDef
  <2>5. joined1 = [i \in 1..n |-> IF i = 1 THEN joined0 ELSE Def(joined1[i - 1], i)]
    BY <2>4 DEF FiniteNatInductiveDefConclusion
  <2> HIDE DEF joined1, joined
  <2>6. joined[1] = seqs[1] /\ \A i \in 1..(n - 1) : joined[i + 1] = joined[i] \o seqs[i + 1]
    <3> HIDE DEF n
    <3>1. joined[1] = joined0 /\ \A i \in 1..n : i # 1 => joined[i] = Def(joined[i - 1], i)
      <4> HIDE DEF joined0, Def
      <4> QED
        BY <1>1, <1>3, <2>1, <2>5
    <3>2. ASSUME NEW i \in 1..(n - 1) PROVE joined[i + 1] = joined[i] \o seqs[i + 1]
      <4> DEFINE j == i + 1
      <4>1. j \in 1..n /\ j # 1 /\ j - 1 = i
        BY <1>1
      <4> HIDE DEF j
      <4>2. joined[j] = joined[j - 1] \o seqs[j]
        BY <3>1, <4>1
      <4> QED
        BY <4>1, <4>2 DEF j
    <3> QED
      BY <3>1, <3>2
  <2> HIDE DEF joined0, Def, n
  <2> DEFINE T == { i \in 1..n : /\ joined[i] \in Seq(S)
                                 /\ \A p \in 1..i : Range(seqs[p]) \subseteq Range(joined[i]) }
  <2>7. 1 \in T
    BY <1>1, <1>3, <2>6
  <2>8. ASSUME NEW i \in 1..(n - 1), i \in T PROVE i + 1 \in T
    <3>1. /\ i + 1 \in 1..n /\ joined[i + 1] = joined[i] \o seqs[i + 1]
          /\ joined[i] \in Seq(S) /\ seqs[i + 1] \in Seq(S)
          /\ \A p \in 1..i : Range(seqs[p]) \subseteq Range(joined[i])
      <4>1. i + 1 \in 1..n
        BY <1>1
      <4>2. joined[i] \in Seq(S) /\ \A p \in 1..i : Range(seqs[p]) \subseteq Range(joined[i])
        BY <2>8
      <4> HIDE DEF T
      <4> QED
        BY <1>1, <2>6, <4>1, <4>2
    <3>2. joined[i + 1] \in Seq(S)
      BY <3>1
    <3>3. Range(joined[i + 1]) = Range(joined[i]) \cup Range(seqs[i + 1])
      BY <3>1, RangeConcatenation
    <3>4. \A p \in 1..(i + 1) : Range(seqs[p]) \subseteq Range(joined[i + 1])
      <4> SUFFICES ASSUME NEW p \in 1..(i + 1) PROVE Range(seqs[p]) \subseteq Range(joined[i + 1])
        OBVIOUS
      <4>1. p \in 1..i \/ p = i + 1
        BY <1>1
      <4> HIDE DEF T
      <4> QED
        BY <3>1, <3>3, <4>1
    <3> QED
      BY <3>1, <3>2, <3>4
  <2> HIDE DEF T
  <2>9. 1..n \subseteq T
    BY <1>1, <2>7, <2>8, IntervalInduction
  <2>10. n \in T
    BY <1>1, <1>3, <2>9
  <2> QED
    BY <2>2, <2>10 DEF T, n
<1> QED
  BY <1>2, <1>3

\* A sequence of sequences of safe instructions, flattened.
LEMMA FlattenedIsSafe ==
  ASSUME NEW g, NEW n \in Nat, NEW seqs, DOMAIN seqs = 1..n, seqs = [p \in 1..n |-> seqs[p]],
         \A p \in 1..n : AllSafe(g, seqs[p])
  PROVE  /\ AllSafe(g, FlattenSeq(seqs))
         /\ \A p \in 1..n : Range(seqs[p]) \subseteq Range(FlattenSeq(seqs))
<1> DEFINE S == UNION { Range(seqs[p]) : p \in 1..n }
<1>1. \A p \in 1..n : seqs[p] \in Seq(S)
  BY DEF AllSafe
<1>2. \A i \in S : IsSafe(g, i)
  BY DEF AllSafe
<1> HIDE DEF S
<1>3. seqs \in Seq(Seq(S)) /\ Len(seqs) = n
  BY <1>1
<1>4. FlattenSeq(seqs) \in Seq(S)
  BY <1>3, FlattenedElements
<1>5. FlattenSeq(seqs) \in Seq(Range(FlattenSeq(seqs))) /\ Range(FlattenSeq(seqs)) \subseteq S
  BY <1>4, SeqOfItsRange
<1> QED
  BY <1>2, <1>3, <1>5, FlattenedElements DEF AllSafe

\* Where a name of the function is: in a register of the frame or in a slot.
HasPlace(g, x) == x \in DOMAIN g.registers \cup g.spilled

IsOperand(g, v) == IsValue(v) /\ (v.kind = "name" => HasPlace(g, v.name))

\* loadValue and storeValue of names that have a place.
LEMMA LoadAndStoreAreSafe ==
  ASSUME NEW g, IsCompilable(g)
  PROVE  /\ \A v, scratch : IsOperand(g, v) /\ scratch \in Scratch =>
              AllSafe(g, LoadValue(g, v, scratch).emit)
         /\ \A d, source : HasPlace(g, d) => AllSafe(g, StoreValue(g, d, source))
<1>1. \A x \in DOMAIN g.registers : g.registers[x] \in Range(g.registers)
  BY DEF Range
<1>2. \A x \in g.spilled : BuildStackFrame(g).spillOffsets[x] \in SpillSlots(g)
  BY DEF SpillSlots
<1>3. ASSUME NEW v, NEW scratch \in Scratch, IsOperand(g, v)
      PROVE  AllSafe(g, LoadValue(g, v, scratch).emit)
  <2>1. CASE v.kind # "name"
    <3>1. LoadValue(g, v, scratch).emit = <<Li(scratch, v.value)>>
      BY <2>1 DEF LoadValue
    <3>2. IsSafe(g, Li(scratch, v.value))
      BY DEF IsSafe, Li
    <3> QED
      BY <3>1, <3>2, SafeSequences
  <2>2. CASE v.kind = "name" /\ v.name \in DOMAIN g.registers
    <3>1. LoadValue(g, v, scratch).emit = <<>>
      BY <2>2 DEF LoadValue, IsCompilable
    <3> QED
      BY <3>1, SafeSequences
  <2>3. CASE v.kind = "name" /\ v.name \notin DOMAIN g.registers
    <3> DEFINE i == Ld(scratch, BuildStackFrame(g).spillOffsets[v.name])
    <3>1. v.name \in g.spilled
      BY <1>3, <2>3 DEF IsOperand, HasPlace
    <3>2. LoadValue(g, v, scratch).emit = <<i>>
      BY <2>3, <3>1 DEF LoadValue
    <3>3. IsSafe(g, i)
      BY <1>2, <3>1 DEF IsSafe, Ld
    <3> HIDE DEF i
    <3> QED
      BY <3>2, <3>3, SafeSequences
  <2> QED
    BY <2>1, <2>2, <2>3
<1>4. ASSUME NEW d, NEW source, HasPlace(g, d)
      PROVE  AllSafe(g, StoreValue(g, d, source))
    <2>1. CASE d \in DOMAIN g.registers
    <3> DEFINE i == Mv(g.registers[d], source)
    <3>1. StoreValue(g, d, source) = <<i>>
      BY <2>1 DEF StoreValue, IsCompilable
    <3>2. IsSafe(g, i)
      BY <1>1, <2>1 DEF IsSafe, Mv, R1
    <3> HIDE DEF i
    <3> QED
      BY <3>1, <3>2, SafeSequences
  <2>2. CASE d \notin DOMAIN g.registers
    <3> DEFINE i == Sd(source, BuildStackFrame(g).spillOffsets[d])
    <3>1. d \in g.spilled
      BY <1>4, <2>2 DEF HasPlace
    <3>2. StoreValue(g, d, source) = <<i>>
      BY <2>2, <3>1 DEF StoreValue
    <3>3. IsSafe(g, i)
      BY <1>2, <3>1 DEF IsSafe, Sd
    <3> HIDE DEF i
    <3> QED
      BY <3>2, <3>3, SafeSequences
  <2> QED
    BY <2>1, <2>2
<1> QED
  BY <1>3, <1>4

\* The scratch registers are what the code calls them.
LEMMA ScratchRegisters ==
  /\ {"t0", "t1", "t2"} \subseteq Scratch
  /\ \A k \in 1..8 : Arg(k - 1) \in Scratch
  /\ Arg(0) \in Scratch
<1>1. \A k \in 1..8 : k - 1 \in 0..7
  OBVIOUS
<1>2. \A i \in 0..7 : Arg(i) \in Scratch
  BY DEF Scratch
<1> QED
  BY <1>1, <1>2 DEF Scratch

\* What an instruction becomes whose names have places and whose labels are
\* those of the function.
LEMMA GeneratedIsSafe ==
  ASSUME NEW g, IsCompilable(g), NEW i, IsInstruction(i),
         \A v \in Operands(i) : IsOperand(g, v),
         \A d \in GetDestination(i) : HasPlace(g, d),
         LabelsOf(i) \subseteq LabelsIn(g.code), i.op = "label" => i.label \in LabelsIn(g.code)
  PROVE  AllSafe(g, GenerateInstruction(g, i))
<1>1. CASE i.op = "const"
  <2>1. HasPlace(g, i.destination)
    BY <1>1 DEF GetDestination
  <2>2. CASE i.destination \in DOMAIN g.registers
    <3> DEFINE a == Li(g.registers[i.destination], i.value.value)
    <3>1. GenerateInstruction(g, i) = <<a>>
      BY <1>1, <2>2 DEF GenerateInstruction, GenerateConst, IsCompilable
    <3>2. IsSafe(g, a)
      BY <2>2 DEF IsSafe, Li, Range
    <3> HIDE DEF a
    <3> QED
      BY <3>1, <3>2, SafeSequences
  <2>3. CASE i.destination \notin DOMAIN g.registers
    <3> DEFINE a == Li("t0", i.value.value)
               b == Sd("t0", BuildStackFrame(g).spillOffsets[i.destination])
    <3>1. i.destination \in g.spilled
      BY <2>1, <2>3 DEF HasPlace
    <3>2. GenerateInstruction(g, i) = <<a, b>>
      BY <1>1, <2>3, <3>1 DEF GenerateInstruction, GenerateConst, IsCompilable
    <3>3. IsSafe(g, a)
      BY ScratchRegisters DEF IsSafe, Li
    <3>4. IsSafe(g, b)
      BY <3>1 DEF IsSafe, Sd, SpillSlots
    <3> HIDE DEF a, b
    <3> QED
      BY <3>2, <3>3, <3>4, SafeSequences
  <2> QED
    BY <2>2, <2>3
<1>2. CASE i.op = "move"
  <2> DEFINE source == LoadValue(g, i.source, "t0")
  <2>1. IsOperand(g, i.source) /\ HasPlace(g, i.destination)
    BY <1>2 DEF GetDestination, Operands
  <2>2. GenerateInstruction(g, i) = source.emit \o StoreValue(g, i.destination, source.reg)
    BY <1>2 DEF GenerateInstruction, GenerateMove
  <2>3. AllSafe(g, source.emit)
    BY <2>1, LoadAndStoreAreSafe, ScratchRegisters
  <2> HIDE DEF source
  <2>4. AllSafe(g, StoreValue(g, i.destination, source.reg))
    BY <2>1, LoadAndStoreAreSafe
  <2> QED
    BY <2>2, <2>3, <2>4, SafeSequences
<1>3. CASE i.op = "binop"
  <2> DEFINE left == LoadValue(g, i.leftVal, "t0")
             right == LoadValue(g, i.rightVal, SecondScratch)
             operation == Operation(i.fn, left.reg, right.reg)
             store == StoreValue(g, i.destination, "t2")
  <2>1. IsOperand(g, i.leftVal) /\ IsOperand(g, i.rightVal) /\ HasPlace(g, i.destination)
    BY <1>3 DEF GetDestination, Operands
  <2>2. GenerateInstruction(g, i) = left.emit \o right.emit \o operation \o store
    BY <1>3 DEF GenerateInstruction, GenerateBinOp
  <2>3. AllSafe(g, left.emit)
    BY <2>1, LoadAndStoreAreSafe, ScratchRegisters
  <2>4. AllSafe(g, right.emit)
    BY <2>1, LoadAndStoreAreSafe, ScratchRegisters DEF SecondScratch
  <2>5. AllSafe(g, store)
    BY <2>1, LoadAndStoreAreSafe
  <2>6. \A l, r : \A op \in {"add", "sub", "mul", "div", "slt", "and", "or", "xor"} :
          IsSafe(g, RR(op, "t2", l, r))
    BY ScratchRegisters DEF IsSafe, RR
  <2>7. IsSafe(g, R1("seqz", "t2", "t2")) /\ IsSafe(g, RI("xori", "t2", "t2", 1))
    BY ScratchRegisters DEF IsSafe, R1, RI
  <2>8. \A l, r : AllSafe(g, Operation(i.fn, l, r))
    <3> SUFFICES ASSUME NEW l, NEW r PROVE AllSafe(g, Operation(i.fn, l, r))
      OBVIOUS
    <3>1. i.fn \in {"Add", "Subtract", "Multiply", "Divide", "Equal", "LessThan",
                    "LessThanEqual", "GreaterThan", "GreaterThanEqual", "And", "Or"}
      BY <1>3 DEF IsInstruction
    <3>2. CASE i.fn = "Equal"
      <4>1. Operation(i.fn, l, r) = <<RR("xor", "t2", l, r), R1("seqz", "t2", "t2")>>
        BY <3>2 DEF Operation
      <4> QED
        BY <2>6, <2>7, <4>1, SafeSequences
    <3>3. CASE i.fn = "GreaterThan"
      <4>1. Operation(i.fn, l, r) = <<RR("slt", "t2", r, l)>>
        BY <3>3 DEF Operation
      <4> QED
        BY <2>6, <4>1, SafeSequences
    <3>4. CASE i.fn = "LessThanEqual"
      <4>1. Operation(i.fn, l, r) = <<RR("slt", "t2", r, l), RI("xori", "t2", "t2", 1)>>
        BY <3>4 DEF Operation
      <4> QED
        BY <2>6, <2>7, <4>1, SafeSequences
    <3>5. CASE i.fn = "GreaterThanEqual"
      <4>1. Operation(i.fn, l, r) = <<RR("slt", "t2", l, r), RI("xori", "t2", "t2", 1)>>
        BY <3>5 DEF Operation
      <4> QED
        BY <2>6, <2>7, <4>1, SafeSequences
    <3>6. CASE i.fn \notin {"Equal", "GreaterThan", "LessThanEqual", "GreaterThanEqual"}
      <4>1. Operation(i.fn, l, r) = <<RR(Opcode[i.fn], "t2", l, r)>>
        BY <3>6 DEF Operation
      <4>2. Opcode[i.fn] \in {"add", "sub", "mul", "div", "slt", "and", "or", "xor"}
        BY <3>1, <3>6 DEF Opcode
      <4> QED
        BY <2>6, <4>1, <4>2, SafeSequences
    <3> QED
      BY <3>2, <3>3, <3>4, <3>5, <3>6
  <2>9. AllSafe(g, operation)
    BY <2>8
  <2> HIDE DEF left, right, operation, store
  <2>10. AllSafe(g, left.emit \o right.emit)
    BY <2>3, <2>4, SafeSequences
  <2>11. AllSafe(g, left.emit \o right.emit \o operation)
    BY <2>9, <2>10, SafeSequences
  <2> QED
    BY <2>2, <2>5, <2>11, SafeSequences
<1>4. CASE i.op = "unary"
  <2> DEFINE operand == LoadValue(g, i.value, "t0")
             a == R1(IF i.fn = "Negation" THEN "neg" ELSE "seqz", "t1", operand.reg)
             store == StoreValue(g, i.destination, "t1")
  <2>1. IsOperand(g, i.value) /\ HasPlace(g, i.destination)
    BY <1>4 DEF GetDestination, Operands
  <2>2. GenerateInstruction(g, i) = operand.emit \o <<a>> \o store
    BY <1>4 DEF GenerateInstruction, GenerateUnaryOp
  <2>3. AllSafe(g, operand.emit)
    BY <2>1, LoadAndStoreAreSafe, ScratchRegisters
  <2>4. AllSafe(g, store)
    BY <2>1, LoadAndStoreAreSafe
  <2>5. IsSafe(g, a)
    BY ScratchRegisters DEF IsSafe, R1
  <2> HIDE DEF operand, a, store
  <2>6. AllSafe(g, <<a>>)
    BY <2>5, SafeSequences
  <2>7. AllSafe(g, operand.emit \o <<a>>)
    BY <2>3, <2>6, SafeSequences
  <2> QED
    BY <2>2, <2>4, <2>7, SafeSequences
<1>5. CASE i.op = "label"
  <2>1. GenerateInstruction(g, i) = <<At(i.label)>>
    BY <1>5 DEF GenerateInstruction
  <2>2. IsSafe(g, At(i.label))
    BY <1>5 DEF IsSafe, At
  <2> QED
    BY <2>1, <2>2, SafeSequences
<1>6. CASE i.op = "jump"
  <2>1. GenerateInstruction(g, i) = <<J(i.destination)>>
    BY <1>6 DEF GenerateInstruction
  <2>2. i.destination \in LabelsIn(g.code)
    BY <1>6 DEF LabelsOf
  <2>3. IsSafe(g, J(i.destination))
    BY <2>2 DEF IsSafe, J
  <2> QED
    BY <2>1, <2>3, SafeSequences
<1>7. CASE i.op = "branch"
  <2> DEFINE condition == LoadValue(g, i.condition, "t0")
             a == Bnez(condition.reg, i.trueLabel)
             b == J(i.falseLabel)
  <2>1. IsOperand(g, i.condition) /\ {i.trueLabel, i.falseLabel} \subseteq LabelsIn(g.code)
    BY <1>7 DEF LabelsOf, Operands
  <2>2. GenerateInstruction(g, i) = condition.emit \o <<a, b>>
    BY <1>7 DEF GenerateInstruction, GenerateBranch
  <2>3. AllSafe(g, condition.emit)
    BY <2>1, LoadAndStoreAreSafe, ScratchRegisters
  <2>4. IsSafe(g, a) /\ IsSafe(g, b)
    BY <2>1 DEF IsSafe, Bnez, J
  <2> HIDE DEF condition, a, b
  <2>5. AllSafe(g, <<a, b>>)
    BY <2>4, SafeSequences
  <2> QED
    BY <2>2, <2>3, <2>5, SafeSequences
<1>8. CASE i.op = "return"
  <2> DEFINE value == LoadValue(g, i.value, "t0")
             a == Mv(Arg(0), value.reg)
             b == J(EpilogueLabel)
  <2>1. IsOperand(g, i.value)
    BY <1>8 DEF Operands
  <2>2. GenerateInstruction(g, i) = value.emit \o <<a, b>>
    BY <1>8 DEF GenerateInstruction, GenerateReturn
  <2>3. AllSafe(g, value.emit)
    BY <2>1, LoadAndStoreAreSafe, ScratchRegisters
  <2>4. IsSafe(g, a)
    BY ScratchRegisters DEF IsSafe, Mv, R1
  <2>5. IsSafe(g, b)
    BY DEF IsSafe, J
  <2> HIDE DEF value, a, b
  <2>6. AllSafe(g, <<a, b>>)
    BY <2>4, <2>5, SafeSequences
  <2> QED
    BY <2>2, <2>3, <2>6, SafeSequences
<1>9. CASE i.op = "call"
  <2> DEFINE n == Len(i.arguments)
             load(k) == LoadValue(g, i.arguments[k], "t0")
             loads == [k \in DOMAIN i.arguments |->
                         LET arg == LoadValue(g, i.arguments[k], "t0")
                         IN  Append(arg.emit, Mv(ArgumentRegister(k), arg.reg))]
             c == CallTo(i.functionName, n)
             store == StoreValue(g, i.destination, Arg(0))
  <2>1. /\ i.arguments \in Seq(Range(i.arguments)) /\ n <= 8 /\ HasPlace(g, i.destination)
        /\ \A v \in Range(i.arguments) : IsOperand(g, v)
    BY <1>9 DEF GetDestination, Operands, IsInstruction, MaxArguments
  <2>2. /\ n \in Nat /\ DOMAIN i.arguments = 1..n
        /\ \A k \in 1..n : IsOperand(g, i.arguments[k])
    BY <2>1 DEF Range
  <2>3. GenerateInstruction(g, i) = FlattenSeq(loads) \o <<c>> \o store
    <3>1. GenerateInstruction(g, i) = GenerateCall(g, i)
      BY <1>9 DEF GenerateInstruction
    <3>2. ~(n > MaxArguments)
      BY <2>1, <2>2 DEF MaxArguments
    <3> QED
      BY <3>1, <3>2 DEF GenerateCall
  <2>4. ASSUME NEW k \in 1..n PROVE AllSafe(g, loads[k])
    <3> DEFINE a == Mv(ArgumentRegister(k), load(k).reg)
    <3>1. AllSafe(g, load(k).emit)
      BY <2>2, LoadAndStoreAreSafe, ScratchRegisters
    <3>2. ArgumentRegister(k) \in Scratch
      <4>1. k \in 1..8
        BY <2>1, <2>2
      <4> QED
        BY <4>1, ScratchRegisters DEF ArgumentRegister
    <3>3. IsSafe(g, a)
      BY <3>2 DEF IsSafe, Mv, R1
    <3>4. loads[k] = Append(load(k).emit, a)
      BY <2>2
    <3> HIDE DEF a, load, loads
    <3>5. Append(load(k).emit, a) = load(k).emit \o <<a>>
      BY <3>1 DEF AllSafe
    <3> QED
      BY <3>1, <3>3, <3>4, <3>5, SafeSequences
  <2>5. DOMAIN loads = 1..n /\ loads = [k \in 1..n |-> loads[k]]
    BY <2>2
  <2>6. IsSafe(g, c)
    BY DEF IsSafe, CallTo
  <2>7. AllSafe(g, store)
    BY <2>1, LoadAndStoreAreSafe
  <2> HIDE DEF n, loads, c, store
  <2>8. AllSafe(g, FlattenSeq(loads))
    BY <2>2, <2>4, <2>5, FlattenedIsSafe
  <2>9. AllSafe(g, FlattenSeq(loads) \o <<c>>)
    BY <2>6, <2>8, SafeSequences
  <2> QED
    BY <2>3, <2>7, <2>9, SafeSequences
<1> QED
  BY <1>1, <1>2, <1>3, <1>4, <1>5, <1>6, <1>7, <1>8, <1>9 DEF IsInstruction

\* The body of the function: every parameter and every piece.
LEMMA BodyIsSafe ==
  ASSUME NEW g, IsCompilable(g)
  PROVE  /\ AllSafe(g, StoreParameters(g))
         /\ AllSafe(g, FlattenSeq(Pieces(g)))
         /\ \A l \in LabelsIn(g.code) : At(l) \in Range(FlattenSeq(Pieces(g)))
<1>1. AllSafe(g, StoreParameters(g))
  <2> DEFINE n == Len(g.parameters)
             stores == [k \in DOMAIN g.parameters |-> StoreValue(g, g.parameters[k], Arg(k - 1))]
  <2>1. g.parameters \in Seq(Range(g.parameters)) /\ n <= MaxArguments
    BY DEF IsCompilable
  <2>2. n \in Nat /\ DOMAIN g.parameters = 1..n
    BY <2>1
  <2>3. \A k \in 1..n : HasPlace(g, g.parameters[k])
    BY <2>2 DEF HasPlace, IsCompilable, Range
  <2>4. \A k \in 1..n : AllSafe(g, stores[k])
    BY <2>2, <2>3, LoadAndStoreAreSafe
  <2>5. DOMAIN stores = 1..n /\ stores = [k \in 1..n |-> stores[k]]
    BY <2>2
  <2>6. StoreParameters(g) = FlattenSeq(stores)
    <3>1. ~(n > MaxArguments)
      BY <2>1, <2>2 DEF MaxArguments
    <3> QED
      BY <3>1 DEF StoreParameters
  <2> HIDE DEF n, stores
  <2> QED
    BY <2>2, <2>4, <2>5, <2>6, FlattenedIsSafe
<1>2. g.code \in Seq(Range(g.code)) /\ DOMAIN g.code = 1..Len(g.code) /\ Len(g.code) \in Nat
  <2>1. g.code \in Seq(Range(g.code))
    BY DEF IsCompilable
  <2> QED
    BY <2>1
<1>3. ASSUME NEW p \in DOMAIN g.code PROVE AllSafe(g, GenerateInstruction(g, g.code[p]))
  <2> DEFINE i == g.code[p]
  <2>1. i \in Range(g.code)
    BY DEF Range
  <2>2. IsInstruction(i)
    BY <2>1 DEF IsCompilable
  <2>3. GetDestination(i) \cup GetSources(i) \subseteq DOMAIN g.registers \cup g.spilled
    <3>1. GetDestination(i) \cup GetSources(i) \subseteq NamesOf(g.code)
      BY <2>1 DEF NamesOf
    <3>2. NamesOf(g.code) \subseteq DOMAIN g.registers \cup g.spilled
      BY DEF IsCompilable
    <3> QED
      BY <3>1, <3>2
  <2>4. \A v \in Operands(i) : v.kind = "name" => v.name \in GetSources(i)
    BY DEF GetSources, NamesIn
  <2>5. LabelsOf(i) \subseteq LabelsIn(g.code)
    BY DEF IsCompilable, JumpsResolve
  <2>6. i.op = "label" => i.label \in LabelsIn(g.code)
    BY DEF LabelsIn, IsLabel
  <2>7. /\ \A v \in Operands(i) : IsOperand(g, v)
        /\ \A d \in GetDestination(i) : HasPlace(g, d)
    BY <2>2, <2>3, <2>4 DEF HasPlace, IsOperand, IsInstruction
  <2> HIDE DEF i
  <2>8. AllSafe(g, GenerateInstruction(g, i))
    BY <2>2, <2>5, <2>6, <2>7, GeneratedIsSafe
  <2> QED
    BY <2>8 DEF i
<1> DEFINE n == Len(g.code)
           pieces == Pieces(g)
<1>4. /\ DOMAIN pieces = 1..n /\ pieces = [p \in 1..n |-> pieces[p]]
      /\ \A p \in 1..n : pieces[p] = GenerateInstruction(g, g.code[p])
  BY <1>2 DEF Pieces
<1>5. n \in Nat /\ \A p \in 1..n : AllSafe(g, pieces[p])
  BY <1>2, <1>3, <1>4
<1> HIDE DEF pieces
<1>6. /\ AllSafe(g, FlattenSeq(pieces))
      /\ \A p \in 1..n : Range(pieces[p]) \subseteq Range(FlattenSeq(pieces))
  <2> HIDE DEF n
  <2> QED
    BY <1>4, <1>5, FlattenedIsSafe
<1>7. ASSUME NEW l \in LabelsIn(g.code) PROVE At(l) \in Range(FlattenSeq(pieces))
  <2>1. PICK p \in 1..n : g.code[p].op = "label" /\ g.code[p].label = l
    BY <1>2 DEF LabelsIn, IsLabel
  <2>2. pieces[p] = <<At(l)>>
    BY <1>4, <2>1 DEF GenerateInstruction
  <2>3. At(l) \in Range(pieces[p])
    BY <2>2 DEF Range
  <2> QED
    BY <1>6, <2>3
<1> QED
  BY <1>1, <1>6, <1>7 DEF pieces

-----------------------------------------------------------------------------
(***************************************************************************)
(* Where everything is in the assembly.                                    *)
(***************************************************************************)
HasLength(s, n) == s \in Seq(Range(s)) /\ Len(s) = n

\* The sequence r is s, of length m, and then t, of length n.
Joins(r, s, t, m, n) ==
  /\ m \in Nat /\ n \in Nat
  /\ HasLength(r, m + n) /\ DOMAIN r = 1..(m + n)
  /\ \A k \in 1..m : r[k] = s[k]
  /\ \A k \in 1..n : r[m + k] = t[k]

\* Two sequences in a row.
LEMMA InARow ==
  ASSUME NEW s, NEW t, NEW m, NEW n, HasLength(s, m), HasLength(t, n)
  PROVE  Joins(s \o t, s, t, m, n)
<1> DEFINE S == Range(s) \cup Range(t)
<1>1. s \in Seq(S) /\ t \in Seq(S) /\ Len(s) = m /\ Len(t) = n
  BY DEF HasLength
<1> HIDE DEF S
<1>2. /\ m \in Nat /\ n \in Nat /\ s \o t \in Seq(S) /\ Len(s \o t) = m + n
      /\ DOMAIN (s \o t) = 1..(m + n)
  BY <1>1
<1>3. \A i \in 1..(m + n) :
        (s \o t)[i] = IF i <= m THEN s[i] ELSE t[i - m]
  BY <1>1, ConcatProperties
<1>4. HasLength(s \o t, m + n)
  BY <1>2, SeqOfItsRange DEF HasLength
<1>5. ASSUME NEW k \in 1..m PROVE (s \o t)[k] = s[k]
  BY <1>2, <1>3
<1>6. ASSUME NEW k \in 1..n PROVE (s \o t)[m + k] = t[k]
  <2> DEFINE i == m + k
  <2>1. i \in 1..(m + n) /\ ~(i <= m) /\ i - m = k
    BY <1>2
  <2> HIDE DEF i
  <2>2. (s \o t)[i] = t[i - m]
    BY <1>3, <2>1
  <2> QED
    BY <2>1, <2>2 DEF i
<1> QED
  BY <1>2, <1>4, <1>5, <1>6 DEF Joins

\* The position of the epilogue's label.
EpilogueAt(g) == Len(Entry(g)) + Len(FlattenSeq(Pieces(g))) + 1

\* The prologue, a safe body, the epilogue.
IsLaidOut(g, a, z) ==
  LET n == NumSaved(g) IN
  /\ z \in Nat /\ n + 3 <= z /\ DOMAIN a = 1..(z + n + 3)
  /\ a[1] = RI("addi", "sp", "sp", -Size(g)) /\ a[2] = Sd("ra", 0)
  /\ \A k \in 1..n : /\ a[2 + k] = Sd(SavedRegisters(g)[k], 8 * k)
                     /\ a[z + k] = Ld(SavedRegisters(g)[k], 8 * k)
  /\ \A p \in (n + 3)..(z - 1) : IsSafe(g, a[p])
  /\ \A l \in LabelsIn(g.code) : \E p \in (n + 3)..(z - 1) : a[p] = At(l)
  /\ a[z] = At(EpilogueLabel)
  /\ a[z + n + 1] = Ld("ra", 0)
  /\ a[z + n + 2] = RI("addi", "sp", "sp", Size(g))
  /\ a[z + n + 3] = Ret

\* After the prologue the parameters are stored, and then comes the body.
HoldsBody(g, a) ==
  LET n == NumSaved(g)
      store == StoreParameters(g)
      body == FlattenSeq(Pieces(g))
  IN  /\ Len(Entry(g)) = n + 2 + Len(store) /\ Len(store) \in Nat
      /\ \A k \in 1..Len(store) : a[n + 2 + k] = store[k]
      /\ \A k \in 1..Len(body) : a[Len(Entry(g)) + k] = body[k]

\* What generateFunction writes.
LEMMA FunctionIsLaidOut ==
  ASSUME NEW g, IsCompilable(g)
  PROVE  IsLaidOut(g, GenerateFunction(g), EpilogueAt(g)) /\ HoldsBody(g, GenerateFunction(g))
<1> DEFINE n == NumSaved(g)
           saved == SavedRegisters(g)
           first == <<RI("addi", "sp", "sp", -BuildStackFrame(g).frameSize),
                      Sd("ra", BuildStackFrame(g).raOffset)>>
           last == <<Ld("ra", BuildStackFrame(g).raOffset),
                     RI("addi", "sp", "sp", BuildStackFrame(g).frameSize), Ret>>
           store == StoreParameters(g)
           body == FlattenSeq(Pieces(g))
           mark == <<At(EpilogueLabel)>>
           saves == Saves(g)
           restores == Restores(g)
           a == GenerateFunction(g)
           z == EpilogueAt(g)
           entry == (first \o saves) \o store
<1>1. BuildStackFrame(g).raOffset = 0 /\ BuildStackFrame(g).frameSize = Size(g)
  BY DEF BuildStackFrame, Size
<1>2. /\ first[1] = RI("addi", "sp", "sp", -Size(g)) /\ first[2] = Sd("ra", 0)
      /\ HasLength(first, 2)
  BY <1>1 DEF HasLength, Range
<1>3. /\ last[1] = Ld("ra", 0) /\ last[2] = RI("addi", "sp", "sp", Size(g))
      /\ last[3] = Ret /\ HasLength(last, 3)
  BY <1>1 DEF HasLength, Range
<1>4. mark[1] = At(EpilogueLabel) /\ HasLength(mark, 1)
  BY DEF HasLength, Range
<1>5. /\ n \in Nat /\ DOMAIN saved = 1..n
      /\ \A k \in 1..n : BuildStackFrame(g).savedRegisterOffsets[saved[k]] = 8 * k
  BY FrameFits
<1>6. /\ HasLength(saves, n)
      /\ \A k \in 1..n : saves[k] = Sd(saved[k], 8 * k)
  <2>1. saves = [k \in 1..n |-> Sd(saved[k], BuildStackFrame(g).savedRegisterOffsets[saved[k]])]
    BY <1>5 DEF Saves, SavedSlots
  <2>2. saves = [k \in 1..n |-> saves[k]] /\ \A k \in 1..n : saves[k] = Sd(saved[k], 8 * k)
    BY <1>5, <2>1
  <2> HIDE DEF saves, n
  <2>3. \A k \in 1..n : saves[k] \in Range(saves)
    BY <2>1 DEF Range
  <2> QED
    BY <1>5, <2>2, <2>3 DEF HasLength
<1>7. /\ HasLength(restores, n)
      /\ \A k \in 1..n : restores[k] = Ld(saved[k], 8 * k)
  <2>1. restores = [k \in 1..n |-> Ld(saved[k], BuildStackFrame(g).savedRegisterOffsets[saved[k]])]
    BY <1>5 DEF Restores, SavedSlots
  <2>2. restores = [k \in 1..n |-> restores[k]] /\ \A k \in 1..n : restores[k] = Ld(saved[k], 8 * k)
    BY <1>5, <2>1
  <2> HIDE DEF restores, n
  <2>3. \A k \in 1..n : restores[k] \in Range(restores)
    BY <2>1 DEF Range
  <2> QED
    BY <1>5, <2>2, <2>3 DEF HasLength
<1>8. /\ HasLength(store, Len(store)) /\ HasLength(body, Len(body))
      /\ \A i \in Range(store) \cup Range(body) : IsSafe(g, i)
      /\ \A l \in LabelsIn(g.code) : At(l) \in Range(body)
  BY BodyIsSafe DEF AllSafe, HasLength
<1>9. /\ a = ((entry \o body) \o mark) \o (restores \o last)
      /\ z = Len(entry) + Len(body) + 1
  BY DEF GenerateFunction, Entry, Prologue, Epilogue, EpilogueAt
<1> HIDE DEF first, last, mark, saves, restores, store, body, a, z, n, saved
<1> DEFINE e == Len(entry)
           b == Len(body)
           c == Len(store)
           p == first \o saves
           u == entry \o body
           v == u \o mark
           w == restores \o last
<1>10. /\ HasLength(p, 2 + n)
       /\ \A k \in 1..2 : p[k] = first[k]
       /\ \A k \in 1..n : p[2 + k] = saves[k]
  <2>1. Joins(p, first, saves, 2, n)
    BY <1>2, <1>6, InARow, Zenon
  <2> HIDE DEF p
  <2> QED
    BY <2>1 DEF Joins
<1> HIDE DEF p
<1>11. /\ HasLength(entry, 2 + n + c) /\ c \in Nat
       /\ \A k \in 1..(2 + n) : entry[k] = p[k]
       /\ \A k \in 1..c : entry[2 + n + k] = store[k]
  <2>1. entry = p \o store
    BY DEF p
  <2>2. HasLength(store, c)
    BY <1>8
  <2> HIDE DEF entry, c
  <2>3. Joins(entry, p, store, 2 + n, c)
    BY <1>10, <2>1, <2>2, InARow, Zenon
  <2> QED
    BY <2>3 DEF Joins
<1> HIDE DEF entry
<1>12. /\ HasLength(u, e + b) /\ b \in Nat /\ e \in Nat /\ e = 2 + n + c
       /\ \A k \in 1..e : u[k] = entry[k]
       /\ \A k \in 1..b : u[e + k] = body[k]
  <2>1. e = 2 + n + c
    BY <1>11 DEF HasLength
  <2>2. HasLength(entry, e) /\ HasLength(body, b)
    BY <1>8, <1>11, <2>1
  <2> HIDE DEF e, b, c
  <2>3. Joins(u, entry, body, e, b)
    BY <2>2, InARow, Zenon
  <2> HIDE DEF u
  <2> QED
    BY <2>1, <2>3 DEF Joins
<1>13. z = e + b + 1
  BY <1>9
<1> HIDE DEF u, e, b, c
<1>14. /\ HasLength(v, e + b + 1)
       /\ \A k \in 1..(e + b) : v[k] = u[k]
       /\ \A k \in 1..1 : v[e + b + k] = mark[k]
  <2>1. Joins(v, u, mark, e + b, 1)
    BY <1>4, <1>12, InARow, Zenon
  <2> HIDE DEF v
  <2> QED
    BY <2>1 DEF Joins
<1> HIDE DEF v
<1>15. /\ HasLength(w, n + 3)
       /\ \A k \in 1..n : w[k] = restores[k]
       /\ \A k \in 1..3 : w[n + k] = last[k]
  <2>1. Joins(w, restores, last, n, 3)
    BY <1>3, <1>7, InARow, Zenon
  <2> HIDE DEF w
  <2> QED
    BY <2>1 DEF Joins
<1> HIDE DEF w
<1>16. /\ DOMAIN a = 1..(z + (n + 3))
       /\ \A k \in 1..z : a[k] = v[k]
       /\ \A k \in 1..(n + 3) : a[z + k] = w[k]
  <2>1. a = v \o w /\ HasLength(v, z)
    BY <1>9, <1>13, <1>14 DEF u, v, w
  <2>2. Joins(a, v, w, z, n + 3)
    BY <1>15, <2>1, InARow, Zenon
  <2> QED
    BY <2>2 DEF Joins
<1>17. \A k \in 1..(2 + n) : a[k] = p[k]
  <2>1. \A k \in 1..(2 + n) : k \in 1..e /\ k \in 1..(e + b) /\ k \in 1..z
    BY <1>5, <1>11, <1>12, <1>13
  <2> QED
    BY <1>11, <1>12, <1>14, <1>16, <2>1
<1>18. \A k \in 1..c : a[2 + n + k] = store[k]
  <2> TAKE k \in 1..c
  <2> DEFINE i == 2 + n + k
  <2>1. i \in 1..e /\ i \in 1..(e + b) /\ i \in 1..z
    BY <1>5, <1>11, <1>12, <1>13
  <2>2. entry[i] = store[k]
    BY <1>11
  <2> HIDE DEF i
  <2>3. a[i] = store[k]
    BY <1>12, <1>14, <1>16, <2>1, <2>2
  <2> QED
    BY <2>3 DEF i
<1>19. \A k \in 1..b : a[e + k] = body[k]
  <2> TAKE k \in 1..b
  <2> DEFINE i == e + k
  <2>1. i \in 1..(e + b) /\ i \in 1..z
    BY <1>12, <1>13
  <2>2. u[i] = body[k]
    BY <1>12
  <2> HIDE DEF i
  <2>3. a[i] = body[k]
    BY <1>14, <1>16, <2>1, <2>2
  <2> QED
    BY <2>3 DEF i
<1>20. a[z] = At(EpilogueLabel)
  <2>1. z \in 1..z /\ 1 \in 1..1
    BY <1>12, <1>13
  <2>2. v[z] = mark[1]
    BY <1>13, <1>14, <2>1
  <2> QED
    BY <1>4, <1>16, <2>1, <2>2
<1>21. /\ \A k \in 1..n : a[z + k] = restores[k]
       /\ \A k \in 1..3 : a[z + (n + k)] = last[k]
  <2>1. /\ \A k \in 1..n : k \in 1..(n + 3)
        /\ \A k \in 1..3 : n + k \in 1..(n + 3)
    BY <1>5
  <2> QED
    BY <1>15, <1>16, <2>1
<1>22. /\ z \in Nat /\ n + 3 <= z /\ DOMAIN a = 1..(z + n + 3)
  BY <1>5, <1>11, <1>12, <1>13, <1>16
<1>23. a[1] = RI("addi", "sp", "sp", -Size(g)) /\ a[2] = Sd("ra", 0)
  <2>1. 1 \in 1..(2 + n) /\ 2 \in 1..(2 + n)
    BY <1>5
  <2> QED
    BY <1>2, <1>10, <1>17, <2>1
<1>24. \A k \in 1..n : /\ a[2 + k] = Sd(saved[k], 8 * k)
                        /\ a[z + k] = Ld(saved[k], 8 * k)
  <2> TAKE k \in 1..n
  <2>1. 2 + k \in 1..(2 + n)
    BY <1>5
  <2> QED
    <3>1. a[2 + k] = saves[k]
      BY <1>10, <1>17, <2>1
    <3>2. a[z + k] = restores[k]
      BY <1>21
    <3> QED
      BY <1>6, <1>7, <3>1, <3>2
<1>25. \A i \in (n + 3)..(z - 1) : IsSafe(g, a[i])
  <2> TAKE i \in (n + 3)..(z - 1)
  <2>1. CASE i <= e
    <3> DEFINE k == i - (2 + n)
    <3>1. k \in 1..c /\ i = 2 + n + k
      BY <1>5, <1>11, <1>12, <1>13, <2>1
    <3> HIDE DEF k
    <3>2. a[i] = store[k]
      BY <1>18, <3>1
    <3>3. store[k] \in Range(store)
      BY <1>8, <3>1 DEF HasLength, Range, c
    <3> QED
      BY <1>8, <3>2, <3>3
  <2>2. CASE ~(i <= e)
    <3> DEFINE k == i - e
    <3>1. k \in 1..b /\ i = e + k
      BY <1>5, <1>12, <1>13, <2>2
    <3> HIDE DEF k
    <3>2. a[i] = body[k]
      BY <1>19, <3>1
    <3>3. body[k] \in Range(body)
      BY <1>8, <3>1 DEF HasLength, Range, b
    <3> QED
      BY <1>8, <3>2, <3>3
  <2> QED
    BY <2>1, <2>2
<1>26. \A l \in LabelsIn(g.code) : \E i \in (n + 3)..(z - 1) : a[i] = At(l)
  <2> TAKE l \in LabelsIn(g.code)
  <2>1. DOMAIN body = 1..b
    BY <1>8 DEF HasLength, b
  <2>2. PICK k \in 1..b : body[k] = At(l)
    BY <1>8, <2>1 DEF Range
  <2>3. e + k \in (n + 3)..(z - 1)
    BY <1>5, <1>11, <1>12, <1>13
  <2> QED
    BY <1>19, <2>2, <2>3
<1>27. /\ a[z + n + 1] = Ld("ra", 0)
       /\ a[z + n + 2] = RI("addi", "sp", "sp", Size(g))
       /\ a[z + n + 3] = Ret
  <2>1. /\ z + n + 1 = z + (n + 1) /\ z + n + 2 = z + (n + 2) /\ z + n + 3 = z + (n + 3)
        /\ 1 \in 1..3 /\ 2 \in 1..3 /\ 3 \in 1..3
    BY <1>5, <1>22
  <2> QED
    BY <1>3, <1>21, <2>1
<1>28. Entry(g) = entry
  BY DEF Entry, Prologue, entry, first, saves, store
<1>29. HoldsBody(g, a)
  <2>1. e = n + 2 + c /\ \A k \in 1..c : n + 2 + k = 2 + n + k
    BY <1>5, <1>12
  <2>2. e = Len(Entry(g)) /\ c = Len(StoreParameters(g)) /\ b = Len(FlattenSeq(Pieces(g)))
    BY <1>28 DEF e, c, b, store, body
  <2> QED
    BY <1>11, <1>18, <1>19, <2>1, <2>2 DEF HoldsBody, n, store, body
<1> QED
  BY <1>20, <1>22, <1>23, <1>24, <1>25, <1>26, <1>27, <1>29 DEF IsLaidOut, a, z, n, saved

-----------------------------------------------------------------------------
(***************************************************************************)
(* The invariant: what the machine's registers and its frame hold of the   *)
(* caller's, by where in the assembly the machine is. The epilogue's       *)
(* register is restored and the frame's slot written one at a time.        *)
(***************************************************************************)
LastOf(g) == EpilogueAt(g) + NumSaved(g) + 3

\* Slot 0 is that of ra, slot k that of the k-th saved register.
Slot(g, k) == 8 * k - Size(g)

RegistersIn(g, p, r) ==
  /\ DOMAIN r = Registers
  /\ r["sp"] = IF p = 1 \/ p = LastOf(g) THEN 0 ELSE -Size(g)
  /\ p <= 2 \/ p >= LastOf(g) - 1 => r["ra"] = Kept["ra"]
  /\ \A x \in SavedReg \ Range(g.registers) : r[x] = Kept[x]
  /\ \A k \in 1..NumSaved(g) : p <= 2 + NumSaved(g) \/ p > EpilogueAt(g) + k =>
       r[SavedRegisters(g)[k]] = Kept[SavedRegisters(g)[k]]

MemoryIn(g, p, m) ==
  /\ DOMAIN m = Frame(g)
  /\ p >= 3 => m[Slot(g, 0)] = Kept["ra"]
  /\ \A k \in 1..NumSaved(g) : p >= 3 + k => m[Slot(g, k)] = Kept[SavedRegisters(g)[k]]

ListIsTyped ==
  /\ pos \in 1..(Len(f.code) + 1)
  /\ \A x \in DOMAIN env : env[x] \in Word

IInv ==
  /\ f \in Compiled /\ asm = GenerateFunction(f)
  /\ ListIsTyped
  /\ pc \in 1..LastOf(f)
  /\ RegistersIn(f, pc, regs) /\ MemoryIn(f, pc, mem)
  /\ halted => pc = LastOf(f)

\* Which registers are which.
LEMMA RegistersApart ==
  /\ \A r \in Scratch : r \notin SavedReg /\ r # "sp" /\ r # "ra"
  /\ \A r \in SavedReg : r # "sp" /\ r # "ra"
  /\ Scratch \cup SavedReg \cup {"sp", "ra"} = Registers
<1>1. \A i \in 0..7 : Arg(i) # "sp" /\ Arg(i) # "ra"
  <2> TAKE i \in 0..7
  <2>1. i \in {0, 1, 2, 3, 4, 5, 6, 7}
    OBVIOUS
  <2> QED
    BY <2>1 DEF Arg
<1> QED
  BY <1>1, PoolIsSaved DEF Scratch, Registers

\* The numbers and places everything below is about.
LEMMA Places ==
  ASSUME NEW g, IsCompilable(g)
  PROVE  /\ NumSaved(g) \in Nat /\ EpilogueAt(g) \in Nat /\ NumSaved(g) + 3 <= EpilogueAt(g)
         /\ Size(g) \in Nat /\ 8 * (NumSaved(g) + 1) <= Size(g)
         /\ LastOf(g) = EpilogueAt(g) + NumSaved(g) + 3
         /\ \A k \in 1..NumSaved(g) : SavedRegisters(g)[k] \in SavedReg \cap Range(g.registers)
         /\ \A j, k \in 1..NumSaved(g) : SavedRegisters(g)[j] = SavedRegisters(g)[k] => j = k
         /\ \A r \in Range(g.registers) :
              r \in SavedReg /\ \E k \in 1..NumSaved(g) : SavedRegisters(g)[k] = r
         /\ \A k \in 0..NumSaved(g) : Slot(g, k) \in Frame(g)
         /\ \A j, k \in 0..NumSaved(g) : Slot(g, j) = Slot(g, k) => j = k
         /\ \A o \in SpillSlots(g) : /\ o - Size(g) \in Frame(g)
                                     /\ \A k \in 0..NumSaved(g) : o - Size(g) # Slot(g, k)
<1> DEFINE n == NumSaved(g)
           size == Size(g)
<1>1. EpilogueAt(g) \in Nat /\ n + 3 <= EpilogueAt(g)
  BY FunctionIsLaidOut DEF IsLaidOut
<1>2. n \in Nat /\ size \in Nat /\ 8 * (n + 1) <= size
  BY FrameFits
<1>3. Range(g.registers) \subseteq SavedReg
  BY DEF IsCompilable, Range
<1>4. /\ \A k \in 1..n : SavedRegisters(g)[k] \in Range(g.registers)
      /\ \A j, k \in 1..n : SavedRegisters(g)[j] = SavedRegisters(g)[k] => j = k
      /\ \A r \in Range(g.registers) : \E k \in 1..n : SavedRegisters(g)[k] = r
  BY FrameFits
<1>5. \A k \in Nat : 8 * (k + 1) <= size => 8 * k - size \in Frame(g)
  BY FrameFits
<1>6. \A o \in SpillSlots(g) : \E k \in Nat : o = 8 * k /\ n < k /\ 8 * (k + 1) <= size
  BY FrameFits
<1> HIDE DEF n, size
<1>7. \A k \in 0..n : Slot(g, k) = 8 * k - size
  BY DEF Slot, size
<1>8. ASSUME NEW k \in 0..n PROVE Slot(g, k) \in Frame(g)
  <2>1. k \in Nat /\ 8 * (k + 1) <= size
    BY <1>2
  <2> QED
    BY <1>5, <1>7, <2>1
<1>9. ASSUME NEW j \in 0..n, NEW k \in 0..n, Slot(g, j) = Slot(g, k) PROVE j = k
  BY <1>2, <1>7, <1>9
<1>10. ASSUME NEW o \in SpillSlots(g)
       PROVE  o - size \in Frame(g) /\ \A k \in 0..n : o - size # Slot(g, k)
  <2>1. PICK k \in Nat : o = 8 * k /\ n < k /\ 8 * (k + 1) <= size
    BY <1>6
  <2>2. o - size \in Frame(g)
    BY <1>5, <2>1
  <2>3. \A j \in 0..n : o - size # 8 * j - size
    BY <1>2, <2>1
  <2> QED
    BY <1>7, <2>2, <2>3
<1>11. LastOf(g) = EpilogueAt(g) + n + 3
  BY DEF LastOf, n
<1> QED
  BY <1>1, <1>2, <1>3, <1>4, <1>8, <1>9, <1>10, <1>11 DEF n, size

\* Between the prologue and the epilogue nothing is required of the registers
\* the frame has saved.
LEMMA BodyKeepsRegisters ==
  ASSUME NEW g, IsCompilable(g),
         NEW p \in (NumSaved(g) + 3)..EpilogueAt(g), NEW q \in (NumSaved(g) + 3)..EpilogueAt(g),
         NEW r, RegistersIn(g, p, r), NEW s, DOMAIN s = Registers, s["sp"] = r["sp"],
         \A x \in SavedReg \ Range(g.registers) : s[x] = r[x]
  PROVE  RegistersIn(g, q, s)
<1>1. /\ NumSaved(g) \in Nat /\ EpilogueAt(g) \in Nat
      /\ LastOf(g) = EpilogueAt(g) + NumSaved(g) + 3
  BY Places
<1>2. /\ q # 1 /\ q # LastOf(g) /\ ~(q <= 2) /\ ~(q >= LastOf(g) - 1)
      /\ \A k \in 1..NumSaved(g) : ~(q <= 2 + NumSaved(g)) /\ ~(q > EpilogueAt(g) + k)
      /\ p # 1 /\ p # LastOf(g)
  BY <1>1
<1> QED
  BY <1>2 DEF RegistersIn

\* All slots are written before the body begins.
LEMMA BodyKeepsMemory ==
  ASSUME NEW g, IsCompilable(g),
         NEW p \in Int, p >= NumSaved(g) + 3, NEW q \in Int, q >= NumSaved(g) + 3,
         NEW m, MemoryIn(g, p, m), NEW s, DOMAIN s = DOMAIN m,
         \A k \in 0..NumSaved(g) : s[Slot(g, k)] = m[Slot(g, k)]
  PROVE  MemoryIn(g, q, s)
<1>1. NumSaved(g) \in Nat
  BY Places
<1>2. p >= 3 /\ \A k \in 1..NumSaved(g) : p >= 3 + k
  BY <1>1
<1>3. 0 \in 0..NumSaved(g) /\ \A k \in 1..NumSaved(g) : k \in 0..NumSaved(g)
  BY <1>1
<1> QED
  BY <1>2, <1>3 DEF MemoryIn

-----------------------------------------------------------------------------
(***************************************************************************)
(* The steps of the machine.                                               *)
(***************************************************************************)

\* What the machine executes, by where it is.
LEMMA WhereItIs ==
  ASSUME IInv
  PROVE  LET n == NumSaved(f)
             z == EpilogueAt(f)
         IN
         /\ IsCompilable(f) /\ IsLaidOut(f, asm, z)
         /\ \/ pc = 1 /\ Current = RI("addi", "sp", "sp", -Size(f))
            \/ pc = 2 /\ Current = Sd("ra", 0)
            \/ \E k \in 1..n : pc = 2 + k /\ Current = Sd(SavedRegisters(f)[k], 8 * k)
            \/ pc \in (n + 3)..(z - 1) /\ IsSafe(f, Current)
            \/ pc = z /\ Current = At(EpilogueLabel)
            \/ \E k \in 1..n : pc = z + k /\ Current = Ld(SavedRegisters(f)[k], 8 * k)
            \/ pc = z + n + 1 /\ Current = Ld("ra", 0)
            \/ pc = z + n + 2 /\ Current = RI("addi", "sp", "sp", Size(f))
            \/ pc = z + n + 3 /\ Current = Ret
<1> DEFINE n == NumSaved(f)
           z == EpilogueAt(f)
<1>1. IsCompilable(f)
  BY CompiledAreCompilable DEF IInv
<1>2. IsLaidOut(f, asm, z)
  BY <1>1, FunctionIsLaidOut DEF IInv
<1>3. n \in Nat /\ z \in Nat /\ n + 3 <= z /\ pc \in 1..(z + n + 3)
  BY <1>1, Places DEF IInv
<1> HIDE DEF n, z
<1>4. \/ pc = 1 \/ pc = 2 \/ pc \in 3..(2 + n) \/ pc \in (n + 3)..(z - 1) \/ pc = z
      \/ pc \in (z + 1)..(z + n) \/ pc = z + n + 1 \/ pc = z + n + 2 \/ pc = z + n + 3
  BY <1>3
<1>5. CASE pc \in 3..(2 + n)
  <2> DEFINE k == pc - 2
  <2>1. k \in 1..n /\ pc = 2 + k
    BY <1>3, <1>5
  <2> HIDE DEF k
  <2>2. asm[2 + k] = Sd(SavedRegisters(f)[k], 8 * k)
    BY <1>2, <2>1 DEF IsLaidOut, n
  <2> QED
    BY <1>1, <1>2, <2>1, <2>2 DEF n, z, Current
<1>6. CASE pc \in (z + 1)..(z + n)
  <2> DEFINE k == pc - z
  <2>1. k \in 1..n /\ pc = z + k
    BY <1>3, <1>6
  <2> HIDE DEF k
  <2>2. asm[z + k] = Ld(SavedRegisters(f)[k], 8 * k)
    BY <1>2, <2>1 DEF IsLaidOut, n
  <2> QED
    BY <1>1, <1>2, <2>1, <2>2 DEF n, z, Current
<1>7. CASE pc \in (n + 3)..(z - 1)
  <2>1. IsSafe(f, Current)
    BY <1>2, <1>7 DEF IsLaidOut, n, Current
  <2> QED
    BY <1>1, <1>2, <1>7, <2>1 DEF n, z
<1>8. CASE pc = 1 \/ pc = 2
  BY <1>1, <1>2, <1>8 DEF IsLaidOut, n, z, Current
<1>9. CASE pc = z \/ pc = z + n + 1 \/ pc = z + n + 2 \/ pc = z + n + 3
  BY <1>1, <1>2, <1>9 DEF IsLaidOut, n, z, Current
<1> QED
  BY <1>4, <1>5, <1>6, <1>7, <1>8, <1>9

\* Loads and stores stay in the frame.
LEMMA StaysInFrame ==
  ASSUME IInv, Current.op \in {"ld", "sd"}
  PROVE  regs["sp"] + Current.offset \in DOMAIN mem
<1> DEFINE n == NumSaved(f)
           z == EpilogueAt(f)
<1>1. IsCompilable(f)
  BY WhereItIs
<1>2. /\ n \in Nat /\ z \in Nat /\ n + 3 <= z /\ Size(f) \in Nat /\ LastOf(f) = z + n + 3
      /\ \A k \in 0..n : Slot(f, k) \in Frame(f)
      /\ \A o \in SpillSlots(f) : o - Size(f) \in Frame(f)
  BY <1>1, Places
<1>3. DOMAIN mem = Frame(f) /\ regs["sp"] = IF pc = 1 \/ pc = LastOf(f) THEN 0 ELSE -Size(f)
  BY DEF IInv, RegistersIn, MemoryIn
<1>4. \A o \in SpillSlots(f) : o \in Int
  <2>1. \A o \in SpillSlots(f) : \E k \in Nat : o = 8 * k
    BY <1>1, FrameFits
  <2> QED
    BY <2>1
<1> HIDE DEF n, z
<1>5. CASE \E k \in 0..n : pc \in {2 + k, z + k, z + n + 1} /\ Current.offset = 8 * k /\ pc # 1
  <2> PICK k \in 0..n : pc \in {2 + k, z + k, z + n + 1} /\ Current.offset = 8 * k
    BY <1>5
  <2>1. regs["sp"] = -Size(f)
    BY <1>2, <1>3
  <2>2. regs["sp"] + Current.offset = Slot(f, k)
    BY <1>2, <2>1 DEF Slot
  <2> QED
    BY <1>2, <1>3, <2>2
<1>6. CASE pc \in (n + 3)..(z - 1) /\ IsSafe(f, Current)
  <2>1. Current.offset \in SpillSlots(f)
    BY <1>6 DEF IsSafe
  <2>2. regs["sp"] = -Size(f)
    BY <1>2, <1>3, <1>6
  <2>3. regs["sp"] + Current.offset = Current.offset - Size(f)
    BY <1>2, <1>4, <2>1, <2>2
  <2> QED
    BY <1>2, <1>3, <2>1, <2>3
<1>7. CASE pc = 2 /\ Current = Sd("ra", 0)
  <2>1. 0 \in 0..n /\ pc = 2 + 0 /\ Current.offset = 8 * 0
    BY <1>2, <1>7 DEF Sd
  <2> QED
    BY <1>5, <1>7, <2>1
<1>8. ASSUME NEW k \in 1..n, pc = 2 + k, Current = Sd(SavedRegisters(f)[k], 8 * k)
      PROVE  regs["sp"] + Current.offset \in DOMAIN mem
  <2>1. k \in 0..n /\ Current.offset = 8 * k /\ pc # 1
    BY <1>2, <1>8 DEF Sd
  <2> QED
    BY <1>5, <1>8, <2>1
<1>9. ASSUME NEW k \in 1..n, pc = z + k, Current = Ld(SavedRegisters(f)[k], 8 * k)
      PROVE  regs["sp"] + Current.offset \in DOMAIN mem
  <2>1. k \in 0..n /\ Current.offset = 8 * k /\ pc # 1
    BY <1>2, <1>9 DEF Ld
  <2> QED
    BY <1>5, <1>9, <2>1
<1>10. CASE pc = z + n + 1 /\ Current = Ld("ra", 0)
  <2>1. 0 \in 0..n /\ Current.offset = 8 * 0 /\ pc # 1
    BY <1>2, <1>10 DEF Ld
  <2> QED
    BY <1>5, <1>10, <2>1
<1>11. Current # At(EpilogueLabel) /\ Current # Ret /\ \A k : Current # RI("addi", "sp", "sp", k)
  BY DEF At, Ret, RI
<1> QED
  BY <1>6, <1>7, <1>8, <1>9, <1>10, <1>11, WhereItIs DEF n, z

\* An instruction that computes or loads: the first takes the frame, the last
\* give back what the prologue has saved.
LEMMA StraightKeepsIInv == IInv /\ Straight => IInv'
<1> SUFFICES ASSUME IInv, Straight
             PROVE  IInv'
  OBVIOUS
<1> DEFINE n == NumSaved(f)
           z == EpilogueAt(f)
           saved == SavedRegisters(f)
<1>1. IsCompilable(f)
  BY WhereItIs
<1>2. /\ n \in Nat /\ z \in Nat /\ n + 3 <= z /\ LastOf(f) = z + n + 3
      /\ Size(f) \in Nat
      /\ \A k \in 1..n : saved[k] \in SavedReg \cap Range(f.registers)
      /\ \A j, k \in 1..n : saved[j] = saved[k] => j = k
      /\ \A r \in Range(f.registers) : r \in SavedReg
  BY <1>1, Places
<1>3. /\ f' = f /\ asm' = asm /\ ListIsTyped' /\ mem' = mem /\ pc' = pc + 1
      /\ regs' = [regs EXCEPT ![Current.rd] = Written(Current, regs, mem)]
      /\ ~halted /\ ~halted'
  BY DEF IInv, Straight, Machine, GoTo, code, list, ListIsTyped
<1>4. DOMAIN regs' = Registers /\ \A r \in Registers : r # Current.rd => regs'[r] = regs[r]
  BY <1>3 DEF IInv, RegistersIn
<1>5. /\ RegistersIn(f, pc, regs) /\ MemoryIn(f, pc, mem)
      /\ f \in Compiled /\ asm = GenerateFunction(f)
  BY DEF IInv
<1> SUFFICES pc' \in 1..LastOf(f) /\ RegistersIn(f, pc', regs') /\ MemoryIn(f, pc', mem)
  BY <1>3, <1>5 DEF IInv
<1>6. Current.op \notin {"label", "j", "bnez", "sd", "call", "ret", "throw"}
  BY DEF Straight
<1> HIDE DEF n, z, saved
<1>7. CASE pc = 1 /\ Current = RI("addi", "sp", "sp", -Size(f))
  <2>1. Current.rd = "sp" /\ Written(Current, regs, mem) = regs["sp"] + -Size(f)
    BY <1>7 DEF RI, Written
  <2>2. regs["sp"] = 0
    BY <1>5, <1>7 DEF RegistersIn
  <2>3. regs'["sp"] = -Size(f)
    BY <1>2, <1>3, <1>5, <2>1, <2>2, RegistersApart DEF RegistersIn
  <2>4. pc' = 2 /\ pc' # LastOf(f)
    BY <1>2, <1>3, <1>7
  <2>5. RegistersIn(f, pc', regs')
    <3>1. "ra" \in Registers /\ SavedReg \subseteq Registers /\ \A r \in SavedReg : r # "sp"
      BY RegistersApart
    <3>2. \A k \in 1..n : regs[saved[k]] = Kept[saved[k]] /\ saved[k] \in SavedReg
      BY <1>2, <1>5, <1>7 DEF RegistersIn, n, saved
    <3> QED
      BY <1>4, <1>5, <1>7, <2>1, <2>3, <2>4, <3>1, <3>2 DEF RegistersIn, n, saved
  <2>6. MemoryIn(f, pc', mem)
    BY <1>2, <1>5, <2>4 DEF MemoryIn, n
  <2> QED
    BY <1>2, <2>4, <2>5, <2>6
<1>8. CASE pc \in (n + 3)..(z - 1) /\ IsSafe(f, Current)
  <2>1. Current.rd \in Scratch \cup Range(f.registers)
    BY <1>6, <1>8 DEF IsSafe
  <2>2. regs'["sp"] = regs["sp"] /\ \A r \in SavedReg \ Range(f.registers) : regs'[r] = regs[r]
    BY <1>2, <1>4, <2>1, RegistersApart
  <2>3. pc \in (n + 3)..z /\ pc' \in (n + 3)..z
    BY <1>2, <1>3, <1>8
  <2>4. RegistersIn(f, pc', regs')
    BY <1>1, <1>4, <1>5, <2>2, <2>3, BodyKeepsRegisters DEF n, z
  <2>5. MemoryIn(f, pc', mem)
    <3>1. pc \in Int /\ pc >= n + 3 /\ pc' \in Int /\ pc' >= n + 3
      BY <1>2, <2>3
    <3> QED
      BY <1>1, <1>5, <3>1, BodyKeepsMemory DEF n
  <2> QED
    BY <1>2, <2>3, <2>4, <2>5
<1>9. ASSUME NEW k \in 1..n, pc = z + k, Current = Ld(saved[k], 8 * k)
      PROVE  pc' \in 1..LastOf(f) /\ RegistersIn(f, pc', regs') /\ MemoryIn(f, pc', mem)
  <2>1. /\ Current.rd = saved[k] /\ Written(Current, regs, mem) = mem[regs["sp"] + 8 * k]
    BY <1>9 DEF Ld, Written
  <2>2. pc # 1 /\ pc # LastOf(f) /\ pc' # 1 /\ pc' # LastOf(f) /\ ~(pc' <= 2 + n)
        /\ ~(pc' >= LastOf(f) - 1) /\ ~(pc' <= 2) /\ pc >= n + 3 /\ pc' >= n + 3
        /\ pc \in Int /\ pc' \in Int /\ pc >= 3 + k
    BY <1>2, <1>3, <1>9
  <2>3. regs["sp"] = -Size(f)
    BY <1>5, <2>2 DEF RegistersIn
  <2>4. mem[regs["sp"] + 8 * k] = Kept[saved[k]]
    <3>1. regs["sp"] + 8 * k = Slot(f, k)
      BY <1>2, <2>3 DEF Slot
    <3> QED
      BY <1>5, <2>2, <3>1 DEF MemoryIn, n, saved
  <2>5. regs'[saved[k]] = Kept[saved[k]]
    BY <1>2, <1>3, <1>5, <2>1, <2>4, RegistersApart DEF RegistersIn
  <2>6. \A j \in 1..n : pc' > z + j => regs'[saved[j]] = Kept[saved[j]]
    <3> SUFFICES ASSUME NEW j \in 1..n, pc' > z + j, j # k
                 PROVE  regs'[saved[j]] = Kept[saved[j]]
      BY <2>5
    <3>1. pc > z + j
      BY <1>2, <1>3, <1>9
    <3>2. regs[saved[j]] = Kept[saved[j]]
      BY <1>5, <3>1 DEF RegistersIn, n, z, saved
    <3>3. saved[j] # saved[k] /\ saved[j] \in Registers
      BY <1>2, RegistersApart
    <3> QED
      BY <1>4, <2>1, <3>2, <3>3
  <2>7. /\ regs'["sp"] = -Size(f)
        /\ \A r \in SavedReg \ Range(f.registers) : regs'[r] = Kept[r]
    BY <1>2, <1>4, <1>5, <2>1, <2>3, RegistersApart DEF RegistersIn
  <2>8. RegistersIn(f, pc', regs')
    BY <1>4, <2>2, <2>6, <2>7 DEF RegistersIn, n, z, saved
  <2>9. MemoryIn(f, pc', mem)
    BY <1>1, <1>5, <2>2, BodyKeepsMemory DEF n
  <2>10. pc' \in 1..LastOf(f)
    BY <1>2, <1>3, <1>9
  <2> QED
    BY <2>8, <2>9, <2>10
<1>10. CASE pc = z + n + 1 /\ Current = Ld("ra", 0)
  <2>1. /\ Current.rd = "ra" /\ Written(Current, regs, mem) = mem[regs["sp"] + 0]
    BY <1>10 DEF Ld, Written
  <2>2. pc # 1 /\ pc # LastOf(f) /\ pc' # 1 /\ pc' # LastOf(f)
        /\ pc >= n + 3 /\ pc' >= n + 3 /\ pc >= 3
        /\ pc \in Int /\ pc' \in Int /\ \A j \in 1..n : pc > z + j
    BY <1>2, <1>3, <1>10
  <2>3. regs["sp"] = -Size(f)
    BY <1>5, <2>2 DEF RegistersIn
  <2>4. regs'["ra"] = Kept["ra"]
    <3>1. regs["sp"] + 0 = Slot(f, 0)
      BY <1>2, <2>3 DEF Slot
    <3>2. mem[Slot(f, 0)] = Kept["ra"]
      BY <1>5, <2>2 DEF MemoryIn
    <3> QED
      BY <1>3, <1>5, <2>1, <3>1, <3>2, RegistersApart DEF RegistersIn
  <2>5. /\ regs'["sp"] = -Size(f) /\ \A r \in SavedReg : regs'[r] = regs[r]
    BY <1>4, <2>1, <2>3, RegistersApart
  <2>6. RegistersIn(f, pc', regs')
    <3>1. \A j \in 1..n : regs[saved[j]] = Kept[saved[j]]
      BY <1>5, <2>2 DEF RegistersIn, n, z, saved
    <3> QED
      BY <1>2, <1>4, <1>5, <2>2, <2>4, <2>5, <3>1 DEF RegistersIn, n, z, saved
  <2>7. MemoryIn(f, pc', mem)
    BY <1>1, <1>5, <2>2, BodyKeepsMemory DEF n
  <2>8. pc' \in 1..LastOf(f)
    BY <1>2, <1>3, <1>10
  <2> QED
    BY <2>6, <2>7, <2>8
<1>11. CASE pc = z + n + 2 /\ Current = RI("addi", "sp", "sp", Size(f))
  <2>1. Current.rd = "sp" /\ Written(Current, regs, mem) = regs["sp"] + Size(f)
    BY <1>11 DEF RI, Written
  <2>2. pc # 1 /\ pc # LastOf(f) /\ pc' = LastOf(f) /\ pc >= LastOf(f) - 1
        /\ pc >= n + 3 /\ pc' >= n + 3 /\ pc \in Int /\ pc' \in Int /\ \A j \in 1..n : pc > z + j
    BY <1>2, <1>3, <1>11
  <2>3. regs'["sp"] = 0
    <3>1. regs["sp"] = -Size(f)
      BY <1>5, <2>2 DEF RegistersIn
    <3>2. regs["sp"] + Size(f) = 0
      BY <1>2, <3>1
    <3> QED
      BY <1>3, <1>5, <2>1, <3>2, RegistersApart DEF RegistersIn
  <2>4. regs'["ra"] = regs["ra"] /\ \A r \in SavedReg : regs'[r] = regs[r]
    BY <1>4, <2>1, RegistersApart
  <2>5. RegistersIn(f, pc', regs')
    <3>1. \A j \in 1..n : regs[saved[j]] = Kept[saved[j]]
      BY <1>5, <2>2 DEF RegistersIn, n, z, saved
    <3>2. regs["ra"] = Kept["ra"]
      BY <1>5, <2>2 DEF RegistersIn
    <3> QED
      BY <1>2, <1>4, <1>5, <2>2, <2>3, <2>4, <3>1, <3>2 DEF RegistersIn, n, z, saved
  <2>6. MemoryIn(f, pc', mem)
    BY <1>1, <1>5, <2>2, BodyKeepsMemory DEF n
  <2>7. pc' \in 1..LastOf(f)
    BY <1>2, <1>3, <1>11
  <2> QED
    BY <2>5, <2>6, <2>7
<1>12. /\ Current # At(EpilogueLabel) /\ Current # Ret /\ \A r, o : Current # Sd(r, o)
  BY <1>6 DEF At, Ret, Sd
<1> QED
  BY <1>7, <1>8, <1>9, <1>10, <1>11, <1>12, WhereItIs DEF n, z, saved

\* A store: the prologue fills the slots, the body leaves them alone.
LEMMA StoreKeepsIInv == IInv /\ Store => IInv'
<1> SUFFICES ASSUME IInv, Store
             PROVE  IInv'
  OBVIOUS
<1> DEFINE n == NumSaved(f)
           z == EpilogueAt(f)
           saved == SavedRegisters(f)
           there == regs["sp"] + Current.offset
<1>1. IsCompilable(f)
  BY WhereItIs
<1>2. /\ n \in Nat /\ z \in Nat /\ n + 3 <= z /\ LastOf(f) = z + n + 3
      /\ Size(f) \in Nat
      /\ \A k \in 0..n : Slot(f, k) \in Frame(f)
      /\ \A j, k \in 0..n : Slot(f, j) = Slot(f, k) => j = k
      /\ \A o \in SpillSlots(f) : \A k \in 0..n : o - Size(f) # Slot(f, k)
  BY <1>1, Places
<1>3. /\ f' = f /\ asm' = asm /\ ListIsTyped' /\ regs' = regs /\ pc' = pc + 1
      /\ mem' = [mem EXCEPT ![there] = regs[Current.rs]]
      /\ Current.op = "sd" /\ ~halted /\ ~halted'
  BY DEF IInv, Store, Machine, GoTo, code, list, ListIsTyped
<1>4. /\ DOMAIN mem' = DOMAIN mem
      /\ \A a \in DOMAIN mem : mem'[a] = IF a = there THEN regs[Current.rs] ELSE mem[a]
  BY <1>3
<1>5. /\ RegistersIn(f, pc, regs) /\ MemoryIn(f, pc, mem)
      /\ f \in Compiled /\ asm = GenerateFunction(f)
  BY DEF IInv
<1> SUFFICES pc' \in 1..LastOf(f) /\ RegistersIn(f, pc', regs) /\ MemoryIn(f, pc', mem')
  BY <1>3, <1>5 DEF IInv
<1>6. DOMAIN mem = Frame(f)
  BY <1>5 DEF MemoryIn
<1> HIDE DEF n, z, saved, there
<1>7. CASE pc = 2 /\ Current = Sd("ra", 0)
  <2>1. pc # 1 /\ pc # LastOf(f) /\ pc' # LastOf(f) /\ pc' = 3 /\ 0 \in 0..n
    BY <1>2, <1>3, <1>7
  <2>2. regs["sp"] = -Size(f) /\ regs["ra"] = Kept["ra"] /\ Current.offset = 0 /\ Current.rs = "ra"
    BY <1>5, <1>7, <2>1 DEF RegistersIn, Sd
  <2>3. there = Slot(f, 0)
    BY <1>2, <2>2 DEF there, Slot
  <2>4. mem'[Slot(f, 0)] = Kept["ra"]
    BY <1>2, <1>4, <1>6, <2>1, <2>2, <2>3
  <2>5. MemoryIn(f, pc', mem')
    <3>1. \A k \in 1..n : ~(pc' >= 3 + k)
      BY <2>1
    <3> QED
      BY <1>4, <1>6, <2>4, <3>1 DEF MemoryIn, n
  <2>6. RegistersIn(f, pc', regs)
    <3>1. ~(pc' <= 2) /\ ~(pc' >= LastOf(f) - 1) /\ pc <= 2 + n
      BY <1>2, <1>7, <2>1
    <3> QED
      BY <1>5, <2>1, <3>1 DEF RegistersIn, n
  <2> QED
    BY <1>2, <2>1, <2>5, <2>6
<1>8. ASSUME NEW k \in 1..n, pc = 2 + k, Current = Sd(saved[k], 8 * k)
      PROVE  pc' \in 1..LastOf(f) /\ RegistersIn(f, pc', regs) /\ MemoryIn(f, pc', mem')
  <2>1. /\ pc # 1 /\ pc # LastOf(f) /\ pc' # 1 /\ pc' # LastOf(f) /\ pc >= 3 /\ pc' = 3 + k
        /\ k \in 0..n /\ pc <= 2 + n /\ 0 \in 0..n
    BY <1>2, <1>3, <1>8
  <2>2. /\ regs["sp"] = -Size(f) /\ regs[saved[k]] = Kept[saved[k]]
        /\ Current.offset = 8 * k /\ Current.rs = saved[k]
    BY <1>5, <1>8, <2>1 DEF RegistersIn, Sd, n, saved
  <2>3. there = Slot(f, k)
    BY <1>2, <2>2 DEF there, Slot
  <2>4. mem'[Slot(f, k)] = Kept[saved[k]]
    BY <1>2, <1>4, <1>6, <2>1, <2>2, <2>3
  <2>5. \A j \in 0..n : j # k => mem'[Slot(f, j)] = mem[Slot(f, j)]
    BY <1>2, <1>4, <1>6, <2>1, <2>3
  <2>6. mem'[Slot(f, 0)] = Kept["ra"]
    <3>1. mem[Slot(f, 0)] = Kept["ra"]
      BY <1>5, <2>1 DEF MemoryIn
    <3>2. 0 # k
      OBVIOUS
    <3> QED
      BY <2>1, <2>5, <3>1, <3>2
  <2>7. ASSUME NEW j \in 1..n, pc' >= 3 + j PROVE mem'[Slot(f, j)] = Kept[saved[j]]
    <3>1. CASE j = k
      BY <2>4, <3>1
    <3>2. CASE j # k
      <4>1. j \in 0..n /\ pc >= 3 + j
        BY <1>2, <1>8, <2>1, <2>7, <3>2
      <4>2. mem[Slot(f, j)] = Kept[saved[j]]
        BY <1>5, <4>1 DEF MemoryIn, n, saved
      <4> QED
        BY <2>5, <3>2, <4>1, <4>2
    <3> QED
      BY <3>1, <3>2
  <2>8. MemoryIn(f, pc', mem')
    BY <1>4, <1>6, <2>6, <2>7 DEF MemoryIn, n, saved
  <2>9. RegistersIn(f, pc', regs)
    <3>1. ~(pc' <= 2) /\ ~(pc' >= LastOf(f) - 1) /\ \A j \in 1..n : ~(pc' > z + j)
      BY <1>2, <1>8, <2>1
    <3> QED
      BY <1>5, <2>1, <3>1 DEF RegistersIn, n, z
  <2> QED
    BY <1>2, <1>8, <2>1, <2>8, <2>9
<1>9. CASE pc \in (n + 3)..(z - 1) /\ IsSafe(f, Current)
  <2>1. Current.offset \in SpillSlots(f)
    BY <1>3, <1>9 DEF IsSafe
  <2>2. pc # 1 /\ pc # LastOf(f) /\ pc \in (n + 3)..z /\ pc' \in (n + 3)..z
    BY <1>2, <1>3, <1>9
  <2>3. regs["sp"] = -Size(f)
    BY <1>5, <2>2 DEF RegistersIn
  <2>4. \A k \in 0..n : there # Slot(f, k)
    <3>1. \A o \in SpillSlots(f) : \E k \in Nat : o = 8 * k
      BY <1>1, FrameFits
    <3>2. there = Current.offset - Size(f)
      BY <1>2, <2>1, <2>3, <3>1 DEF there
    <3> QED
      BY <1>2, <2>1, <3>2
  <2>5. \A k \in 0..n : mem'[Slot(f, k)] = mem[Slot(f, k)]
    BY <1>2, <1>4, <1>6, <2>4
  <2>6. MemoryIn(f, pc', mem')
    <3>1. pc \in Int /\ pc >= n + 3 /\ pc' \in Int /\ pc' >= n + 3
      BY <1>2, <2>2
    <3> QED
      BY <1>1, <1>4, <1>5, <2>5, <3>1, BodyKeepsMemory DEF n
  <2>7. RegistersIn(f, pc', regs)
    <3>1. DOMAIN regs = Registers
      BY <1>5 DEF RegistersIn
    <3> QED
      BY <1>1, <1>5, <2>2, <3>1, BodyKeepsRegisters DEF n, z
  <2> QED
    BY <1>2, <2>2, <2>6, <2>7
<1>10. /\ Current # At(EpilogueLabel) /\ Current # Ret /\ \A r, o : Current # Ld(r, o)
       /\ \A k : Current # RI("addi", "sp", "sp", k)
  BY <1>3 DEF At, Ret, Ld, RI
<1> QED
  BY <1>7, <1>8, <1>9, <1>10, WhereItIs DEF n, z, saved

\* A jump leads to a label of the body or to that of the epilogue.
LEMMA JumpsStayInBody ==
  ASSUME IInv, NEW l \in LabelsIn(f.code) \cup {EpilogueLabel}
  PROVE  Target(l) \in (NumSaved(f) + 3)..EpilogueAt(f) /\ asm[Target(l)] = At(l)
<1> DEFINE n == NumSaved(f)
           z == EpilogueAt(f)
<1>1. IsCompilable(f) /\ IsLaidOut(f, asm, z)
  BY WhereItIs
<1>2. n \in Nat /\ z \in Nat /\ n + 3 <= z
  BY <1>1, Places
<1>3. \E p \in (n + 3)..z : asm[p] = At(l)
  <2>1. CASE l = EpilogueLabel
    BY <1>1, <1>2, <2>1 DEF IsLaidOut
  <2>2. CASE l \in LabelsIn(f.code)
    <3>1. PICK p \in (n + 3)..(z - 1) : asm[p] = At(l)
      BY <1>1, <2>2 DEF IsLaidOut
    <3>2. p \in (n + 3)..z
      BY <1>2
    <3> QED
      BY <3>1, <3>2
  <2> QED
    BY <2>1, <2>2
<1>4. DOMAIN asm = 1..(z + n + 3)
  BY <1>1 DEF IsLaidOut
<1> HIDE DEF n, z
<1>5. \E p \in DOMAIN asm : asm[p] = At(l)
  <2>1. \A p \in (n + 3)..z : p \in DOMAIN asm
    BY <1>2, <1>4
  <2> QED
    BY <1>3, <2>1
<1>6. Target(l) \in DOMAIN asm /\ asm[Target(l)] = At(l)
  BY <1>5 DEF Target
<1>7. ASSUME NEW p \in DOMAIN asm, asm[p] = At(l) PROVE p \in (n + 3)..z
  <2> SUFFICES ASSUME p \in 1..(n + 2) \/ p \in (z + 1)..(z + n + 3)
               PROVE  FALSE
    BY <1>2, <1>4
  <2>1. asm[p].op = "label"
    BY <1>7 DEF At
  <2>2. CASE p = 1 \/ p = 2 \/ p = z + n + 1 \/ p = z + n + 2 \/ p = z + n + 3
    <3>1. asm[p].op \in {"addi", "sd", "ld", "ret"}
      BY <1>1, <2>2 DEF IsLaidOut, n, z, RI, Sd, Ld, Ret
    <3> QED
      BY <2>1, <3>1
  <2>3. CASE p \in 3..(n + 2)
    <3> DEFINE k == p - 2
    <3>1. k \in 1..n /\ p = 2 + k
      BY <1>2, <2>3
    <3> HIDE DEF k
    <3>2. asm[2 + k] = Sd(SavedRegisters(f)[k], 8 * k)
      BY <1>1, <3>1 DEF IsLaidOut, n
    <3> QED
      BY <2>1, <3>1, <3>2 DEF Sd
  <2>4. CASE p \in (z + 1)..(z + n)
    <3> DEFINE k == p - z
    <3>1. k \in 1..n /\ p = z + k
      BY <1>2, <2>4
    <3> HIDE DEF k
    <3>2. asm[z + k] = Ld(SavedRegisters(f)[k], 8 * k)
      BY <1>1, <3>1 DEF IsLaidOut, n, z
    <3> QED
      BY <2>1, <3>1, <3>2 DEF Ld
  <2> QED
    BY <1>2, <2>2, <2>3, <2>4
<1> QED
  BY <1>6, <1>7 DEF n, z

\* A label passed, a jump or a branch: from the body into the body, or from
\* its end into the epilogue.
LEMMA TransferKeepsIInv == IInv /\ Transfer => IInv'
<1> SUFFICES ASSUME IInv, Transfer
             PROVE  IInv'
  OBVIOUS
<1> DEFINE n == NumSaved(f)
           z == EpilogueAt(f)
<1>1. IsCompilable(f)
  BY WhereItIs
<1>2. /\ n \in Nat /\ z \in Nat /\ n + 3 <= z /\ LastOf(f) = z + n + 3
  BY <1>1, Places
<1>3. /\ f' = f /\ asm' = asm /\ ListIsTyped' /\ regs' = regs /\ mem' = mem
      /\ Current.op \in {"label", "j", "bnez"} /\ ~halted /\ ~halted'
      /\ pc' = pc + 1 \/ (Current.op # "label" /\ pc' = Target(Current.label))
  <2>1. UNCHANGED <<f, asm, pos, env, regs, mem, halted>> /\ Current.op \in {"label", "j", "bnez"}
    BY DEF Transfer, code, list
  <2>2. ~halted
    BY DEF Transfer, Machine
  <2>3. \/ pc' = pc + 1
        \/ Current.op # "label" /\ pc' = Target(Current.label)
    BY DEF Transfer, GoTo
  <2> QED
    BY <2>1, <2>2, <2>3 DEF IInv, ListIsTyped
<1>4. /\ RegistersIn(f, pc, regs) /\ MemoryIn(f, pc, mem)
      /\ f \in Compiled /\ asm = GenerateFunction(f) /\ DOMAIN regs = Registers
  BY DEF IInv, RegistersIn
<1> SUFFICES pc' \in 1..LastOf(f) /\ RegistersIn(f, pc', regs) /\ MemoryIn(f, pc', mem)
  BY <1>3, <1>4 DEF IInv
<1> HIDE DEF n, z
<1>5. CASE pc \in (n + 3)..(z - 1) /\ IsSafe(f, Current)
  <2>1. pc + 1 \in (n + 3)..z /\ pc \in (n + 3)..z
    BY <1>2, <1>5
  <2>2. pc' \in (n + 3)..z
    <3>1. Current.op # "label" => Target(Current.label) \in (n + 3)..z
      BY <1>3, <1>5, JumpsStayInBody DEF IsSafe, n, z
    <3> QED
      BY <1>3, <2>1, <3>1
  <2>3. RegistersIn(f, pc', regs)
    BY <1>1, <1>4, <2>1, <2>2, BodyKeepsRegisters DEF n, z
  <2>4. MemoryIn(f, pc', mem)
    <3>1. pc \in Int /\ pc >= n + 3 /\ pc' \in Int /\ pc' >= n + 3
      BY <1>2, <2>1, <2>2
    <3> QED
      BY <1>1, <1>4, <3>1, BodyKeepsMemory DEF n
  <2> QED
    BY <1>2, <2>2, <2>3, <2>4
<1>6. CASE pc = z /\ Current = At(EpilogueLabel)
  <2>1. pc' = z + 1
    BY <1>3, <1>6 DEF At
  <2>2. /\ pc # 1 /\ pc # LastOf(f) /\ pc' # 1 /\ pc' # LastOf(f) /\ ~(pc' <= 2)
        /\ \A k \in 1..n : ~(pc' > z + k) /\ ~(pc' <= 2 + n)
        /\ pc \in Int /\ pc >= n + 3 /\ pc' \in Int /\ pc' >= n + 3
        /\ ~(pc' >= LastOf(f) - 1)
    BY <1>2, <1>6, <2>1
  <2>3. RegistersIn(f, pc', regs)
    BY <1>4, <2>2 DEF RegistersIn, n, z
  <2>4. MemoryIn(f, pc', mem)
    BY <1>1, <1>4, <2>2, BodyKeepsMemory DEF n
  <2> QED
    BY <1>2, <2>1, <2>3, <2>4
<1>7. /\ Current # Ret /\ \A r, o : Current # Ld(r, o) /\ Current # Sd(r, o)
      /\ \A k : Current # RI("addi", "sp", "sp", k)
  BY <1>3 DEF Ret, Ld, Sd, RI
<1> QED
  BY <1>5, <1>6, <1>7, WhereItIs DEF n, z

\* A call destroys only what the body may use.
LEMMA CallKeepsIInv == IInv /\ CallStep => IInv'
<1> SUFFICES ASSUME IInv, CallStep
             PROVE  IInv'
  OBVIOUS
<1> DEFINE n == NumSaved(f)
           z == EpilogueAt(f)
<1>1. IsCompilable(f)
  BY WhereItIs
<1>2. /\ n \in Nat /\ z \in Nat /\ n + 3 <= z /\ LastOf(f) = z + n + 3
  BY <1>1, Places
<1>3. /\ f' = f /\ asm' = asm /\ ListIsTyped' /\ mem' = mem /\ pc' = pc + 1
      /\ Current.op = "call" /\ ~halted /\ ~halted'
      /\ regs' = AfterCall(regs, called[2])
  BY DEF IInv, CallStep, Machine, GoTo, code, list, ListIsTyped
<1>4. /\ RegistersIn(f, pc, regs) /\ MemoryIn(f, pc, mem)
      /\ f \in Compiled /\ asm = GenerateFunction(f)
  BY DEF IInv
<1> SUFFICES pc' \in 1..LastOf(f) /\ RegistersIn(f, pc', regs') /\ MemoryIn(f, pc', mem)
  BY <1>3, <1>4 DEF IInv
<1>5. /\ DOMAIN regs' = Registers
      /\ \A r \in SavedReg \cup {"sp"} : regs'[r] = regs[r]
  <2>1. Arg(0) \notin SavedReg \cup {"sp"} /\ SavedReg \cup {"sp"} \subseteq Registers
    BY ScratchRegisters, RegistersApart
  <2> QED
    BY <1>3, <2>1 DEF AfterCall
<1> HIDE DEF n, z
<1>6. pc \in (n + 3)..(z - 1)
  <2>1. /\ Current # At(EpilogueLabel) /\ Current # Ret
        /\ \A r, o : Current # Ld(r, o) /\ Current # Sd(r, o)
        /\ \A k : Current # RI("addi", "sp", "sp", k)
    BY <1>3 DEF At, Ret, Ld, Sd, RI
  <2> QED
    BY <2>1, WhereItIs DEF n, z
<1>7. pc \in (n + 3)..z /\ pc' \in (n + 3)..z
  BY <1>2, <1>3, <1>6
<1>8. RegistersIn(f, pc', regs')
  BY <1>1, <1>4, <1>5, <1>7, BodyKeepsRegisters DEF n, z
<1>9. MemoryIn(f, pc', mem)
  <2>1. pc \in Int /\ pc >= n + 3 /\ pc' \in Int /\ pc' >= n + 3
    BY <1>2, <1>7
  <2> QED
    BY <1>1, <1>4, <2>1, BodyKeepsMemory DEF n
<1> QED
  BY <1>2, <1>7, <1>8, <1>9

\* The machine stops at the last instruction and nowhere else.
LEMMA ReturnKeepsIInv == IInv /\ ReturnStep => IInv'
<1> SUFFICES ASSUME IInv, ReturnStep
             PROVE  IInv'
  OBVIOUS
<1>1. UNCHANGED <<f, asm, pc, regs, mem, pos, env>> /\ Current.op = "ret"
  BY DEF ReturnStep, code, list
<1>2. pc = LastOf(f)
  <2>1. /\ Current # At(EpilogueLabel) /\ ~IsSafe(f, Current)
        /\ \A r, o : Current # Ld(r, o) /\ Current # Sd(r, o)
        /\ \A k : Current # RI("addi", "sp", "sp", k)
    BY <1>1 DEF At, Ld, Sd, RI, IsSafe
  <2> QED
    BY <2>1, WhereItIs DEF LastOf
<1> QED
  BY <1>1, <1>2 DEF IInv, ListIsTyped

-----------------------------------------------------------------------------
(***************************************************************************)
(* The steps of the list.                                                  *)
(***************************************************************************)

\* What callers pass and callees return.
LEMMA PassedAreWords ==
  /\ 0 \in Word
  /\ \A x : /\ WordsFor(x, Arguments) \subseteq Word
             /\ WordsFor(x, CallResults) \subseteq Word
<1>1. {0, 1} \subseteq Word
  BY ResultsAreWords, WordsAreWords DEF Truth
<1> QED
  BY <1>1, WordsAreWords DEF WordsFor

\* What an instruction writes is a word, and it goes on at a position.
LEMMA ListStaysTyped ==
  ASSUME NEW g, IsCompilable(g), NEW p \in DOMAIN g.code,
         NEW e, \A x \in DOMAIN e : e[x] \in Word, CanStep(e, g.code[p]), NEW v \in Word
  PROVE  /\ PositionAfter(g.code, p, e) \in 1..(Len(g.code) + 1)
         /\ \A x \in DOMAIN EnvAfter(e, g.code[p], v) : EnvAfter(e, g.code[p], v)[x] \in Word
<1> DEFINE i == g.code[p]
           after == EnvAfter(e, i, v)
<1>1. g.code \in Seq(Range(g.code)) /\ JumpsResolve(g.code) /\ IsInstruction(i)
  BY DEF IsCompilable, Range
<1>2. Len(g.code) \in Nat /\ DOMAIN g.code = 1..Len(g.code)
  BY <1>1
<1>3. ASSUME NEW l \in LabelsIn(g.code) PROVE PositionOf(g.code, l) \in DOMAIN g.code
  <2>1. \E q \in DOMAIN g.code : IsLabel(g.code[q]) /\ g.code[q].label = l
    BY DEF LabelsIn
  <2> QED
    BY <2>1 DEF PositionOf
<1>4. PositionAfter(g.code, p, e) \in 1..(Len(g.code) + 1)
  <2>1. LabelsOf(i) \subseteq LabelsIn(g.code)
    BY <1>1 DEF JumpsResolve
  <2>2. CASE i.op = "jump"
    <3>1. i.destination \in LabelsIn(g.code)
      BY <2>1, <2>2 DEF LabelsOf
    <3>2. PositionAfter(g.code, p, e) = PositionOf(g.code, i.destination)
      BY <2>2 DEF PositionAfter
    <3> HIDE DEF i
    <3> QED
      BY <1>2, <1>3, <3>1, <3>2
  <2>3. CASE i.op = "branch"
    <3> DEFINE l == IF ValueOf(e, i.condition) # 0 THEN i.trueLabel ELSE i.falseLabel
    <3>1. l \in LabelsIn(g.code)
      BY <2>1, <2>3 DEF LabelsOf
    <3>2. PositionAfter(g.code, p, e) = PositionOf(g.code, l)
      BY <2>3 DEF PositionAfter
    <3> HIDE DEF l, i
    <3> QED
      BY <1>2, <1>3, <3>1, <3>2
  <2>4. CASE i.op = "return"
    <3>1. PositionAfter(g.code, p, e) = Len(g.code) + 1
      BY <2>4 DEF PositionAfter
    <3> QED
      BY <1>2, <3>1
  <2>5. CASE i.op \notin {"jump", "branch", "return"}
    <3>1. PositionAfter(g.code, p, e) = p + 1
      BY <2>5 DEF PositionAfter
    <3> QED
      BY <1>2, <3>1
  <2> QED
    BY <2>2, <2>3, <2>4, <2>5
<1>5. \A o \in Operands(i) : ValueOf(e, o) \in Word
  <2> SUFFICES ASSUME NEW o \in Operands(i) PROVE ValueOf(e, o) \in Word
    OBVIOUS
  <2>1. CASE o.kind = "name"
    <3>1. o.name \in GetSources(i)
      BY <2>1 DEF GetSources, NamesIn
    <3>2. o.name \in DOMAIN e
      BY <3>1 DEF CanStep
    <3> QED
      BY <2>1, <3>2 DEF ValueOf
  <2>2. CASE o.kind # "name"
    <3>1. o.value \in Word
      BY <1>1, <2>2 DEF IsInstruction
    <3> QED
      BY <2>2, <3>1 DEF ValueOf
  <2> QED
    BY <2>1, <2>2
<1>6. HasValue(i.fn, ValueOf(e, i.rightVal)) \/ i.op # "binop"
  BY DEF CanStep
<1> HIDE DEF i
<1>7. ASSUME NEW x \in GetDestination(i) PROVE ResultOf(e, i, v) \in Word
  <2>1. i.op \in {"const", "move", "binop", "unary", "call"}
    BY DEF GetDestination
  <2>2. CASE i.op = "const"
    BY <1>1, <2>2 DEF ResultOf, IsInstruction
  <2>3. CASE i.op = "move"
    BY <1>5, <2>3 DEF ResultOf, Operands
  <2>4. CASE i.op = "binop"
    <3>1. ValueOf(e, i.leftVal) \in Word /\ ValueOf(e, i.rightVal) \in Word
      BY <1>5, <2>4 DEF Operands
    <3>2. i.fn \in {"Add", "Subtract", "Multiply", "Divide", "Equal", "LessThan",
                    "LessThanEqual", "GreaterThan", "GreaterThanEqual", "And", "Or"}
      BY <1>1, <2>4 DEF IsInstruction
    <3>3. EvalBinOp(i.fn, ValueOf(e, i.leftVal), ValueOf(e, i.rightVal)) \in Word
      BY <1>6, <2>4, <3>1, <3>2, ResultsAreWords
    <3> QED
      BY <2>4, <3>3 DEF ResultOf
  <2>5. CASE i.op = "unary"
    <3>1. ValueOf(e, i.value) \in Word
      BY <1>5, <2>5 DEF Operands
    <3>2. EvalUnaryOp(i.fn, ValueOf(e, i.value)) \in Word
      BY <3>1, ResultsAreWords
    <3> QED
      BY <2>5, <3>2 DEF ResultOf
  <2>6. CASE i.op = "call"
    BY <2>6 DEF ResultOf
  <2> QED
    BY <2>1, <2>2, <2>3, <2>4, <2>5, <2>6
<1>8. \A x \in DOMAIN after : after[x] \in Word
  BY <1>7 DEF EnvAfter
<1> QED
  BY <1>4, <1>8 DEF i

\* A step of the list, which the machine waits for.
LEMMA ListStepKeepsIInv == IInv /\ ListStep => IInv'
<1> SUFFICES ASSUME IInv, ListStep
             PROVE  IInv'
  OBVIOUS
<1>1. UNCHANGED <<f, asm, pc, regs, mem, halted>>
  BY DEF ListStep, code
<1>2. IsCompilable(f) /\ pos \in 1..(Len(f.code) + 1)
  BY CompiledAreCompilable DEF IInv, ListIsTyped
<1>3. pos \in DOMAIN f.code
  <2>1. f.code \in Seq(Range(f.code)) /\ ~(pos > Len(f.code))
    BY <1>2 DEF IsCompilable, ListStep, AtEnd
  <2> QED
    BY <1>2, <2>1
<1>4. PICK v \in Word : env' = EnvAfter(env, f.code[pos], v)
  BY PassedAreWords DEF ListStep
<1>5. CanStep(env, f.code[pos]) /\ pos' = PositionAfter(f.code, pos, env)
  BY DEF ListStep
<1>6. ListIsTyped'
  BY <1>1, <1>2, <1>3, <1>4, <1>5, ListStaysTyped DEF IInv, ListIsTyped
<1> QED
  BY <1>1, <1>6 DEF IInv

-----------------------------------------------------------------------------
(***************************************************************************)
(* The theorems.                                                           *)
(***************************************************************************)

\* A function begins with what its caller left.
LEMMA InitEstablishesIInv == Init => IInv
<1> SUFFICES ASSUME Init
             PROVE  IInv
  OBVIOUS
<1>1. /\ f \in Compiled /\ asm = GenerateFunction(f) /\ pos = 1 /\ pc = 1 /\ ~halted
      /\ \A x \in DOMAIN env : env[x] \in WordsFor(x, Arguments)
      /\ regs = EntryRegs(f, env) /\ mem = EntryMem(f)
  BY DEF Init
<1>2. IsCompilable(f)
  BY <1>1, CompiledAreCompilable
<1>3. ListIsTyped
  <2>1. f.code \in Seq(Range(f.code))
    BY <1>2 DEF IsCompilable
  <2>2. 1 \in 1..(Len(f.code) + 1)
    BY <2>1
  <2> QED
    BY <1>1, <2>2, PassedAreWords DEF ListIsTyped
<1>4. /\ NumSaved(f) \in Nat /\ EpilogueAt(f) \in Nat
      /\ LastOf(f) = EpilogueAt(f) + NumSaved(f) + 3
      /\ \A k \in 1..NumSaved(f) : SavedRegisters(f)[k] \in SavedReg
  BY <1>2, Places
<1>5. \A k \in DOMAIN f.parameters : Arg(k - 1) \in Scratch
  <2>1. f.parameters \in Seq(Range(f.parameters)) /\ Len(f.parameters) <= 8
    BY <1>2 DEF IsCompilable, MaxArguments
  <2>2. \A k \in DOMAIN f.parameters : k \in 1..8
    BY <2>1
  <2> QED
    BY <2>2, ScratchRegisters
<1>6. DOMAIN regs = Registers /\ regs["sp"] = 0
  BY <1>1, <1>5, RegistersApart DEF EntryRegs
<1>7. \A r \in SavedReg \cup {"ra"} : regs[r] = Kept[r]
  BY <1>1, <1>5, RegistersApart DEF EntryRegs
<1>8. RegistersIn(f, pc, regs)
  BY <1>1, <1>4, <1>6, <1>7 DEF RegistersIn
<1>9. MemoryIn(f, pc, mem)
  <2>1. DOMAIN mem = Frame(f)
    BY <1>1 DEF EntryMem
  <2>2. ~(pc >= 3) /\ \A k \in 1..NumSaved(f) : ~(pc >= 3 + k)
    BY <1>1, <1>4
  <2> QED
    BY <2>1, <2>2 DEF MemoryIn
<1>10. pc \in 1..LastOf(f)
  BY <1>1, <1>4
<1> QED
  BY <1>1, <1>3, <1>8, <1>9, <1>10 DEF IInv

\* Every step keeps it.
LEMMA NextKeepsIInv == IInv /\ [Next]_vars => IInv'
<1> SUFFICES ASSUME IInv, [Next]_vars
             PROVE  IInv'
  OBVIOUS
<1>1. CASE ListStep
  BY <1>1, ListStepKeepsIInv
<1>2. CASE Straight
  BY <1>2, StraightKeepsIInv
<1>3. CASE Store
  BY <1>3, StoreKeepsIInv
<1>4. CASE Transfer
  BY <1>4, TransferKeepsIInv
<1>5. CASE CallStep
  BY <1>5, CallKeepsIInv
<1>6. CASE ReturnStep
  BY <1>6, ReturnKeepsIInv
<1>7. CASE UNCHANGED vars
  BY <1>7 DEF vars, code, list, machine, IInv, ListIsTyped
<1> QED
  BY <1>1, <1>2, <1>3, <1>4, <1>5, <1>6, <1>7 DEF Next

\* So it always holds.
LEMMA InvariantHolds == Spec => []IInv
BY InitEstablishesIInv, NextKeepsIInv, PTL DEF Spec

\* The generator throws on no compilable function; the machine is never
\* outside the assembly, its stack pointer never misaligned, and its loads
\* and stores never leave the frame, however many names are spilled.
THEOREM TypeCorrect == Spec => []TypeOK
<1>1. IInv => TypeOK
  <2> SUFFICES ASSUME IInv
               PROVE  TypeOK
    OBVIOUS
  <2> DEFINE n == NumSaved(f)
             z == EpilogueAt(f)
  <2>1. IsCompilable(f) /\ IsLaidOut(f, asm, z)
    BY WhereItIs
  <2>2. n \in Nat /\ z \in Nat /\ n + 3 <= z /\ LastOf(f) = z + n + 3 /\ Size(f) \in Nat
    BY <2>1, Places
  <2>3. DOMAIN asm = 1..(z + n + 3)
    BY <2>1 DEF IsLaidOut
  <2>4. pc \in DOMAIN asm
    BY <2>2, <2>3 DEF IInv
  <2>5. regs["sp"] % 16 = 0
    <3>1. Size(f) % 16 = 0
      BY <2>1, FrameFits
    <3>2. (-Size(f)) % 16 = 0 /\ 0 % 16 = 0
      BY <2>2, <3>1
    <3> QED
      BY <3>2 DEF IInv, RegistersIn
  <2>6. ASSUME NEW p \in DOMAIN asm PROVE asm[p] # Throw
    <3> HIDE DEF n, z
    <3> SUFFICES asm[p].op # "throw"
      BY DEF Throw
    <3>1. CASE p \in {1, 2, z, z + n + 1, z + n + 2, z + n + 3}
      BY <2>1, <3>1 DEF IsLaidOut, n, z, RI, Sd, Ld, At, Ret
    <3>2. CASE p \in (n + 3)..(z - 1)
      BY <2>1, <3>2 DEF IsLaidOut, n, z, IsSafe
    <3>3. CASE p \in 3..(n + 2)
      <4> DEFINE k == p - 2
      <4>1. k \in 1..n /\ p = 2 + k
        BY <2>2, <3>3
      <4> HIDE DEF k
      <4>2. asm[2 + k] = Sd(SavedRegisters(f)[k], 8 * k)
        BY <2>1, <4>1 DEF IsLaidOut, n
      <4> QED
        BY <4>1, <4>2 DEF Sd
    <3>4. CASE p \in (z + 1)..(z + n)
      <4> DEFINE k == p - z
      <4>1. k \in 1..n /\ p = z + k
        BY <2>2, <3>4
      <4> HIDE DEF k
      <4>2. asm[z + k] = Ld(SavedRegisters(f)[k], 8 * k)
        BY <2>1, <4>1 DEF IsLaidOut, n, z
      <4> QED
        BY <4>1, <4>2 DEF Ld
    <3> QED
      BY <2>2, <2>3, <3>1, <3>2, <3>3, <3>4
  <2>7. Throw \notin Range(asm)
    BY <2>6 DEF Range
  <2> QED
    BY <2>4, <2>5, <2>7, StaysInFrame DEF TypeOK, IInv, ListIsTyped
<1> QED
  BY <1>1, InvariantHolds, PTL

\* Whatever the function is, however its names are placed and whatever it
\* calls: its caller finds the stack pointer, the return address and every
\* register of the pool as it left them.
THEOREM CallerIsSafe == Spec => []ReturnsToCaller
<1>1. IInv => ReturnsToCaller
  <2> SUFFICES ASSUME IInv, halted
               PROVE  /\ regs["sp"] = 0
                      /\ \A r \in SavedReg \cup {"ra"} : regs[r] = Kept[r]
    BY DEF ReturnsToCaller
  <2>1. IsCompilable(f) /\ pc = LastOf(f) /\ RegistersIn(f, pc, regs)
    BY WhereItIs DEF IInv
  <2>2. /\ NumSaved(f) \in Nat /\ EpilogueAt(f) \in Nat
        /\ LastOf(f) = EpilogueAt(f) + NumSaved(f) + 3
        /\ \A r \in Range(f.registers) : \E k \in 1..NumSaved(f) : SavedRegisters(f)[k] = r
    BY <2>1, Places
  <2>3. pc >= LastOf(f) - 1 /\ \A k \in 1..NumSaved(f) : pc > EpilogueAt(f) + k
    BY <2>1, <2>2
  <2>4. \A k \in 1..NumSaved(f) : regs[SavedRegisters(f)[k]] = Kept[SavedRegisters(f)[k]]
    BY <2>1, <2>3 DEF RegistersIn
  <2> QED
    BY <2>1, <2>2, <2>3, <2>4 DEF RegistersIn
<1> QED
  BY <1>1, InvariantHolds, PTL

-----------------------------------------------------------------------------
(***************************************************************************)
(* Operations.                                                             *)
(***************************************************************************)

\* Remainders of numbers that are not far away.
LEMMA Remainders ==
  ASSUME NEW M \in Nat \ {0}
  PROVE  /\ \A a \in 0..(M - 1) : a % M = a
         /\ \A a \in M..(2 * M - 1) : a % M = a - M
         /\ \A a \in (-M)..(-1) : a % M = a + M
<1>1. \A a \in Int : a % M \in 0..(M - 1) /\ a = M * (a \div M) + (a % M)
  OBVIOUS
<1>2. ASSUME NEW a \in Int, NEW q \in Int, NEW r \in 0..(M - 1), a = M * q + r
      PROVE  a % M = r
  BY <1>2
<1>3. ASSUME NEW a \in 0..(M - 1) PROVE a % M = a
  <2>1. a = M * 0 + a
    OBVIOUS
  <2> QED
    BY <1>2, <2>1
<1>4. ASSUME NEW a \in M..(2 * M - 1) PROVE a % M = a - M
  <2>1. a = M * 1 + (a - M) /\ a - M \in 0..(M - 1)
    OBVIOUS
  <2> QED
    BY <1>2, <2>1
<1>5. ASSUME NEW a \in (-M)..(-1) PROVE a % M = a + M
  <2>1. a = M * (-1) + (a + M) /\ a + M \in 0..(M - 1)
    OBVIOUS
  <2> QED
    BY <1>2, <2>1
<1> QED
  BY <1>3, <1>4, <1>5

\* The bits of a word determine it, and truth values are their own bits.
LEMMA BitsOfWords ==
  /\ \A w \in Word : Bits(w) \in 0..(2 ^ Width - 1)
  /\ \A v, w \in Word : Bits(v) = Bits(w) <=> v = w
  /\ \A b \in {0, 1} : Bits(b) = b /\ Wrap(b) = b /\ b \in Word
  /\ \A n \in 0..(2 ^ Width - 1) : Wrap(n) = 0 <=> n = 0
<1> DEFINE M == 2 ^ Width
<1>1. Least \in Int /\ M = -2 * Least /\ Least < 0
  BY WrapIsWord
<1>2. Word = Least..(-Least - 1) /\ 1 \in Word
  BY WordsAreWords DEF Word
<1>3. /\ \A n : Bits(n) = n % M
      /\ \A n : Wrap(n) = ((n - Least) % M) + Least
  BY DEF Bits, Wrap
<1> HIDE DEF M
<1>4. M \in Nat \ {0} /\ Least < -1 /\ M > 1
  BY <1>1, <1>2
<1>5. /\ \A a \in 0..(M - 1) : a % M = a
      /\ \A a \in M..(2 * M - 1) : a % M = a - M
      /\ \A a \in (-M)..(-1) : a % M = a + M
  BY <1>4, Remainders
<1>6. ASSUME NEW w \in Word
      PROVE  Bits(w) = (IF w < 0 THEN w + M ELSE w) /\ Bits(w) \in 0..(M - 1)
  <2>1. w \in Int /\ Least <= w /\ w < -Least
    BY <1>1, <1>2
  <2>2. CASE w < 0
    <3>1. w \in (-M)..(-1) /\ w + M \in 0..(M - 1)
      BY <1>1, <2>1, <2>2
    <3> QED
      BY <1>3, <1>5, <2>2, <3>1
  <2>3. CASE ~(w < 0)
    <3>1. w \in 0..(M - 1)
      BY <1>1, <2>1, <2>3
    <3> QED
      BY <1>3, <1>5, <2>3, <3>1
  <2> QED
    BY <2>2, <2>3
<1>7. ASSUME NEW v \in Word, NEW w \in Word, Bits(v) = Bits(w) PROVE v = w
  <2>1. v \in Int /\ w \in Int /\ Least <= v /\ v < -Least /\ Least <= w /\ w < -Least
    BY <1>1, <1>2
  <2> QED
    BY <1>1, <1>6, <1>7, <2>1
<1>8. ASSUME NEW b \in {0, 1} PROVE Bits(b) = b /\ Wrap(b) = b /\ b \in Word
  <2>1. b \in 0..(M - 1) /\ b - Least \in 0..(M - 1)
    BY <1>1, <1>4
  <2>2. b % M = b /\ (b - Least) % M = b - Least
    BY <1>5, <2>1
  <2> QED
    BY <1>1, <1>2, <1>3, <1>4, <2>2
<1>9. ASSUME NEW n \in 0..(M - 1), Wrap(n) = 0 PROVE n = 0
  <2>1. CASE n - Least <= M - 1
    <3>1. n - Least \in 0..(M - 1)
      BY <1>1, <2>1
    <3>2. Wrap(n) = n - Least + Least
      BY <1>3, <1>5, <3>1
    <3> QED
      BY <1>1, <1>9, <3>2
  <2>2. CASE ~(n - Least <= M - 1)
    <3>1. n - Least \in M..(2 * M - 1)
      BY <1>1, <2>2
    <3>2. Wrap(n) = n - Least - M + Least
      BY <1>3, <1>5, <3>1
    <3> QED
      BY <1>1, <1>9, <3>2
  <2> QED
    BY <2>1, <2>2
<1> QED
  BY <1>6, <1>7, <1>8, <1>9 DEF M

-----------------------------------------------------------------------------
(***************************************************************************)
(* Running a sequence of instructions straight through, labels and jumps   *)
(* passed over: a state is the registers and the memory, and v is what a   *)
(* call returns.                                                           *)
(***************************************************************************)
State(r, m) == [regs |-> r, mem |-> m]

SetRegister(s, x, w) == State([s.regs EXCEPT ![x] = w], s.mem)
SetMemory(s, a, w) == State(s.regs, [s.mem EXCEPT ![a] = w])

Effect(i, s, v) ==
  CASE i.op \in {"label", "j", "bnez"} -> s
    [] i.op = "sd"   -> SetMemory(s, s.regs["sp"] + i.offset, s.regs[i.rs])
    [] i.op = "call" -> State(AfterCall(s.regs, v), s.mem)
    [] OTHER -> SetRegister(s, i.rd, Written(i, s.regs, s.mem))

\* The state after the first k instructions, and after all.
Ran(t, s, v) ==
  LET after[k \in Nat] == IF k = 0 THEN s ELSE Effect(t[k], after[k - 1], v)
  IN  after

Does(t, s, v) == Ran(t, s, v)[Len(t)]

\* The recursion of Ran, unfolded.
LEMMA RanUnfold ==
  ASSUME NEW t, NEW s, NEW v
  PROVE  /\ Ran(t, s, v)[0] = s
         /\ \A k \in Nat : Ran(t, s, v)[k + 1] = Effect(t[k + 1], Ran(t, s, v)[k], v)
<1> DEFINE h == Ran(t, s, v)
           Def(u, k) == Effect(t[k], u, v)
<1>1. NatInductiveDefHypothesis(h, s, Def)
  BY DEF NatInductiveDefHypothesis, Ran
<1>2. NatInductiveDefConclusion(h, s, Def)
  BY <1>1, NatInductiveDef
<1>3. h = [k \in Nat |-> IF k = 0 THEN s ELSE Def(h[k - 1], k)]
  BY <1>2 DEF NatInductiveDefConclusion
<1> HIDE DEF h
<1>4. \A k \in Nat \ {0} : h[k] = Def(h[k - 1], k)
  BY <1>3
<1>5. ASSUME NEW k \in Nat PROVE h[k + 1] = Effect(t[k + 1], h[k], v)
  <2> DEFINE j == k + 1
  <2>1. j \in Nat \ {0} /\ j - 1 = k
    OBVIOUS
  <2> HIDE DEF j
  <2>2. h[j] = Effect(t[j], h[j - 1], v)
    BY <1>4, <2>1
  <2> QED
    BY <2>1, <2>2 DEF j
<1> QED
  BY <1>3, <1>5 DEF h

\* The first instructions decide what the first instructions do.
LEMMA RanOfPrefix ==
  ASSUME NEW t, NEW u, NEW n \in Nat, \A k \in 1..n : t[k] = u[k], NEW s, NEW v
  PROVE  \A k \in 0..n : Ran(t, s, v)[k] = Ran(u, s, v)[k]
<1> DEFINE T == { k \in 0..n : Ran(t, s, v)[k] = Ran(u, s, v)[k] }
<1>1. 0 \in T
  BY RanUnfold
<1>2. ASSUME NEW k \in 0..(n - 1), k \in T PROVE k + 1 \in T
  <2>1. k \in Nat /\ k + 1 \in 1..n /\ k + 1 \in 0..n
    OBVIOUS
  <2>2. t[k + 1] = u[k + 1] /\ Ran(t, s, v)[k] = Ran(u, s, v)[k]
    BY <1>2, <2>1
  <2> QED
    BY <2>1, <2>2, RanUnfold
<1> HIDE DEF T
<1>3. 0..n \subseteq T
  BY <1>1, <1>2, IntervalInduction
<1> QED
  BY <1>3 DEF T

\* A sequence and then another.
InTurn(w, t, u) ==
  /\ HasLength(t, Len(t)) /\ HasLength(u, Len(u))
  /\ Joins(w, t, u, Len(t), Len(u))

LEMMA ConcatIsInTurn ==
  ASSUME NEW t, NEW u, HasLength(t, Len(t)), HasLength(u, Len(u))
  PROVE  InTurn(t \o u, t, u)
BY InARow, Zenon DEF InTurn

\* The second begins where the first ends.
LEMMA RanOfJoined ==
  ASSUME NEW w, NEW t, NEW u, NEW a, NEW b, HasLength(t, a), HasLength(u, b),
         Joins(w, t, u, a, b), NEW s, NEW v
  PROVE  /\ a \in Nat /\ b \in Nat /\ HasLength(w, a + b) /\ Len(w) = a + b
         /\ \A k \in 1..a : w[k] = t[k]
         /\ \A k \in 1..b : w[a + k] = u[k]
         /\ \A k \in 0..a : Ran(w, s, v)[k] = Ran(t, s, v)[k]
         /\ \A k \in 0..b : Ran(w, s, v)[a + k] = Ran(u, Does(t, s, v), v)[k]
         /\ Does(w, s, v) = Does(u, Does(t, s, v), v)
<1> DEFINE z == Does(t, s, v)
           T == { k \in 0..b : Ran(w, s, v)[a + k] = Ran(u, z, v)[k] }
<1>1. /\ a \in Nat /\ b \in Nat /\ HasLength(w, a + b)
      /\ \A k \in 1..a : w[k] = t[k]
      /\ \A k \in 1..b : w[a + k] = u[k]
  BY DEF Joins
<1>2. z = Ran(t, s, v)[a] /\ Len(u) = b /\ Len(w) = a + b
  BY <1>1 DEF Does, HasLength
<1> HIDE DEF z
<1>3. \A k \in 0..a : Ran(w, s, v)[k] = Ran(t, s, v)[k]
  BY <1>1, RanOfPrefix
<1>4. 0 \in T
  <2>1. a + 0 = a /\ a \in 0..a /\ 0 \in 0..b
    BY <1>1
  <2>2. Ran(w, s, v)[a] = z
    BY <1>2, <1>3, <2>1
  <2> QED
    BY <2>1, <2>2, RanUnfold
<1>5. ASSUME NEW k \in 0..(b - 1), k \in T PROVE k + 1 \in T
  <2>1. /\ k \in Nat /\ k + 1 \in 1..b /\ k + 1 \in 0..b
        /\ a + k \in Nat /\ a + (k + 1) = (a + k) + 1
    BY <1>1
  <2>2. w[a + (k + 1)] = u[k + 1] /\ Ran(w, s, v)[a + k] = Ran(u, z, v)[k]
    BY <1>1, <1>5, <2>1
  <2>3. Ran(w, s, v)[(a + k) + 1] = Effect(w[(a + k) + 1], Ran(w, s, v)[a + k], v)
    BY <2>1, RanUnfold
  <2>4. Ran(u, z, v)[k + 1] = Effect(u[k + 1], Ran(u, z, v)[k], v)
    BY <2>1, RanUnfold
  <2> QED
    BY <2>1, <2>2, <2>3, <2>4
<1> HIDE DEF T
<1>6. 0..b \subseteq T
  BY <1>1, <1>4, <1>5, IntervalInduction
<1>7. Does(w, s, v) = Does(u, z, v)
  <2>1. b \in T
    BY <1>1, <1>6
  <2> QED
    BY <1>2, <2>1 DEF T, Does
<1> QED
  BY <1>1, <1>2, <1>3, <1>6, <1>7 DEF T, z

LEMMA RanInTurn ==
  ASSUME NEW w, NEW t, NEW u, InTurn(w, t, u), NEW s, NEW v
  PROVE  LET a == Len(t)
             b == Len(u)
         IN  /\ a \in Nat /\ b \in Nat /\ HasLength(w, a + b) /\ Len(w) = a + b
             /\ \A k \in 1..a : w[k] = t[k]
             /\ \A k \in 1..b : w[a + k] = u[k]
             /\ \A k \in 0..a : Ran(w, s, v)[k] = Ran(t, s, v)[k]
             /\ \A k \in 0..b : Ran(w, s, v)[a + k] = Ran(u, Does(t, s, v), v)[k]
             /\ Does(w, s, v) = Does(u, Does(t, s, v), v)
BY RanOfJoined DEF InTurn

\* No instruction, one and two.
LEMMA DoesNone ==
  ASSUME NEW t, t = <<>>, NEW s, NEW v
  PROVE  HasLength(t, 0) /\ Does(t, s, v) = s
BY RanUnfold DEF HasLength, Range, Does

LEMMA DoesOne ==
  ASSUME NEW i, NEW t, t = <<i>>, NEW s, NEW v
  PROVE  HasLength(t, 1) /\ t[1] = i /\ Does(t, s, v) = Effect(i, s, v)
<1>1. Len(t) = 1 /\ t[1] = i /\ HasLength(t, 1)
  BY DEF HasLength, Range
<1>2. Ran(t, s, v)[0 + 1] = Effect(t[0 + 1], Ran(t, s, v)[0], v) /\ Ran(t, s, v)[0] = s
  BY RanUnfold
<1>3. Ran(t, s, v)[1] = Effect(i, s, v)
  BY <1>1, <1>2
<1> QED
  BY <1>1, <1>3 DEF Does

LEMMA DoesTwo ==
  ASSUME NEW i, NEW j, NEW t, t = <<i, j>>, NEW s, NEW v
  PROVE  /\ HasLength(t, 2) /\ t[1] = i /\ t[2] = j
         /\ Ran(t, s, v)[1] = Effect(i, s, v)
         /\ Does(t, s, v) = Effect(j, Effect(i, s, v), v)
<1>1. Len(t) = 2 /\ t[1] = i /\ t[2] = j /\ HasLength(t, 2)
  BY DEF HasLength, Range
<1>2. /\ Ran(t, s, v)[0 + 1] = Effect(t[0 + 1], Ran(t, s, v)[0], v) /\ Ran(t, s, v)[0] = s
      /\ Ran(t, s, v)[1 + 1] = Effect(t[1 + 1], Ran(t, s, v)[1], v)
  BY RanUnfold
<1>3. Ran(t, s, v)[1] = Effect(i, s, v) /\ Ran(t, s, v)[2] = Effect(j, Effect(i, s, v), v)
  BY <1>1, <1>2
<1> QED
  BY <1>1, <1>3 DEF Does

-----------------------------------------------------------------------------
(***************************************************************************)
(* Places.                                                                 *)
(***************************************************************************)
InBody(g, s) ==
  DOMAIN s.regs = Registers /\ DOMAIN s.mem = Frame(g) /\ s.regs["sp"] = -Size(g)

\* What the place of x holds, and what an operand is.
In(g, s, x) == Held(g, s.regs, s.mem, x)
OperandIn(g, s, o) == IF o.kind = "name" THEN In(g, s, o.name) ELSE o.value

\* From s to t only registers of R change.
Keeps(g, s, t, R) ==
  InBody(g, t) /\ t.mem = s.mem /\ \A r \in Registers \ R : t.regs[r] = s.regs[r]

\* A value put where x lives does not destroy y.
Apart(g, x, y) == HasPlace(g, y) /\ y # x /\ Overwritten(g.registers, x, {y}) = {}

\* From s to t the place of d is given w, and no place apart from it changes.
Puts(g, s, t, d, w) ==
  /\ InBody(g, t) /\ In(g, t, d) = w
  /\ \A y : Apart(g, d, y) => In(g, t, y) = In(g, s, y)

\* Spilled names have slots of their own.
LEMMA SlotsApart ==
  ASSUME NEW g, IsCompilable(g)
  PROVE  /\ Size(g) \in Nat
         /\ \A x \in g.spilled : /\ BuildStackFrame(g).spillOffsets[x] \in Int
                                 /\ -Size(g) + BuildStackFrame(g).spillOffsets[x] \in Frame(g)
         /\ \A x, y \in g.spilled :
              BuildStackFrame(g).spillOffsets[x] = BuildStackFrame(g).spillOffsets[y] => x = y
<1> DEFINE offset == BuildStackFrame(g).spillOffsets
           m == Cardinality(g.spilled)
           listed == SetToSeq(g.spilled)
<1>1. Size(g) \in Nat
  BY Places
<1>2. ASSUME NEW x \in g.spilled
      PROVE  offset[x] \in Int /\ -Size(g) + offset[x] \in Frame(g)
  <2>1. offset[x] \in SpillSlots(g)
    BY DEF SpillSlots
  <2> HIDE DEF offset
  <2>2. offset[x] - Size(g) \in Frame(g)
    BY <2>1, Places
  <2>3. PICK k \in Nat : offset[x] = 8 * k
    BY <2>1, FrameFits
  <2>4. offset[x] \in Int /\ offset[x] - Size(g) = -Size(g) + offset[x]
    BY <1>1, <2>3
  <2> QED
    BY <2>2, <2>4
<1>3. /\ m \in Nat /\ ListsOnce(listed, m)
      /\ \A x \in g.spilled : \E i \in 1..m : listed[i] = x
  <2>1. IsFiniteSet(g.spilled)
    BY DEF IsCompilable
  <2> QED
    BY <2>1, SetListed
<1>4. FirstSpill(g) \in Int
  <2>1. NumSaved(g) \in Nat
    BY Places
  <2> QED
    BY <2>1 DEF FirstSpill, NumSaved
<1>5. \A i \in 1..m : offset[listed[i]] = FirstSpill(g) + 8 * (i - 1)
  <2>1. offset = Offsets(listed, FirstSpill(g))
    BY DEF BuildStackFrame
  <2> HIDE DEF offset, listed, m
  <2> QED
    BY <1>3, <1>4, <2>1, SlotsFollow
<1> HIDE DEF offset, listed, m
<1>6. ASSUME NEW x \in g.spilled, NEW y \in g.spilled, offset[x] = offset[y] PROVE x = y
  <2>1. PICK i \in 1..m : listed[i] = x
    BY <1>3
  <2>2. PICK j \in 1..m : listed[j] = y
    BY <1>3
  <2>3. FirstSpill(g) + 8 * (i - 1) = FirstSpill(g) + 8 * (j - 1)
    BY <1>5, <1>6, <2>1, <2>2
  <2>4. i = j
    BY <1>3, <1>4, <2>3
  <2> QED
    BY <2>1, <2>2, <2>4
<1> QED
  BY <1>1, <1>2, <1>6 DEF offset

\* Writing one register.
LEMMA WritesRegister ==
  ASSUME NEW g, NEW s, InBody(g, s), NEW r \in Scratch \cup SavedReg, NEW w,
         NEW t, t = SetRegister(s, r, w)
  PROVE  Keeps(g, s, t, {r}) /\ t.regs[r] = w
<1>1. r \in Registers /\ r # "sp"
  BY RegistersApart
<1> QED
  BY <1>1 DEF InBody, Keeps, State, SetRegister

\* One change after another, and no change.
LEMMA KeepsTwice ==
  ASSUME NEW g, NEW s, NEW t, NEW u, NEW Q, NEW R, Keeps(g, s, t, Q), Keeps(g, t, u, R)
  PROVE  Keeps(g, s, u, Q \cup R)
BY DEF Keeps

\* Changes of other registers leave the places alone.
LEMMA KeepsPlaces ==
  ASSUME NEW g, IsCompilable(g), NEW s, InBody(g, s), NEW t, NEW R \in SUBSET (Scratch \cup {"ra"}),
         Keeps(g, s, t, R)
  PROVE  /\ \A x : HasPlace(g, x) => In(g, t, x) = In(g, s, x)
         /\ \A o : IsOperand(g, o) => OperandIn(g, t, o) = OperandIn(g, s, o)
<1>1. \A r \in SavedReg \cup {"sp"} : t.regs[r] = s.regs[r]
  BY RegistersApart DEF Keeps
<1>2. \A x \in DOMAIN g.registers : g.registers[x] \in SavedReg
  BY DEF IsCompilable
<1>3. \A x : HasPlace(g, x) => In(g, t, x) = In(g, s, x)
  BY <1>1, <1>2 DEF In, Held, Keeps
<1> QED
  BY <1>3 DEF OperandIn, IsOperand

\* loadValue: the operand is in the register it names, and at most the scratch
\* register has changed.
LEMMA LoadLoads ==
  ASSUME NEW g, IsCompilable(g), NEW s, InBody(g, s), NEW o, IsOperand(g, o),
         NEW scratch \in Scratch, NEW v,
         NEW l, l = LoadValue(g, o, scratch), NEW t, t = Does(l.emit, s, v)
  PROVE  /\ Keeps(g, s, t, {scratch}) /\ t.regs[l.reg] = OperandIn(g, s, o)
         /\ l.reg \in {scratch} \cup SavedReg
<1>0. scratch \in Scratch \cup SavedReg
  OBVIOUS
<1>1. CASE o.kind # "name"
  <2>1. l.emit = <<Li(scratch, o.value)>> /\ l.reg = scratch
    BY <1>1 DEF LoadValue
  <2>2. t = SetRegister(s, scratch, o.value)
    <3>1. t = Effect(Li(scratch, o.value), s, v)
      BY <2>1, DoesOne
    <3> QED
      BY <3>1 DEF Effect, Li, Written
  <2>3. Keeps(g, s, t, {scratch}) /\ t.regs[scratch] = o.value
    BY <2>2, <1>0, WritesRegister
  <2>4. OperandIn(g, s, o) = o.value
    BY <1>1 DEF OperandIn
  <2> QED
    BY <2>1, <2>3, <2>4 DEF Li
<1>2. CASE o.kind = "name" /\ o.name \in DOMAIN g.registers
  <2>1. l.emit = <<>> /\ l.reg = g.registers[o.name]
    BY <1>2 DEF LoadValue, IsCompilable
  <2>2. t = s
    BY <2>1, DoesNone
  <2>3. g.registers[o.name] \in SavedReg
    BY <1>2 DEF IsCompilable
  <2>4. Keeps(g, s, t, {scratch})
    BY <2>2 DEF Keeps
  <2>5. t.regs[l.reg] = OperandIn(g, s, o)
    BY <1>2, <2>1, <2>2 DEF OperandIn, In, Held
  <2> QED
    BY <2>1, <2>3, <2>4, <2>5
<1>3. CASE o.kind = "name" /\ o.name \notin DOMAIN g.registers
  <2> DEFINE there == BuildStackFrame(g).spillOffsets[o.name]
  <2>1. o.name \in g.spilled
    BY <1>3 DEF IsOperand, HasPlace
  <2>2. l.emit = <<Ld(scratch, there)>> /\ l.reg = scratch
    BY <1>3, <2>1 DEF LoadValue
  <2>3. t = SetRegister(s, scratch, s.mem[s.regs["sp"] + there])
    <3>1. t = Effect(Ld(scratch, there), s, v)
      BY <2>2, DoesOne
    <3> QED
      BY <3>1 DEF Effect, Ld, Written
  <2>4. OperandIn(g, s, o) = s.mem[s.regs["sp"] + there]
    BY <1>3 DEF OperandIn, In, Held
  <2>5. Ld(scratch, there).op = "ld"
    BY DEF Ld
  <2> HIDE DEF there
  <2>6. Keeps(g, s, t, {scratch}) /\ t.regs[scratch] = s.mem[s.regs["sp"] + there]
    BY <2>3, <1>0, WritesRegister
  <2> QED
    BY <2>2, <2>4, <2>5, <2>6
<1> QED
  BY <1>1, <1>2, <1>3

\* The shape of what loadValue and storeValue emit.
LEMMA LoadAndStoreShape ==
  ASSUME NEW g, IsCompilable(g)
  PROVE  /\ \A o, scratch : IsOperand(g, o) =>
              \/ LoadValue(g, o, scratch).emit = <<>>
              \/ \E i : LoadValue(g, o, scratch).emit = <<i>> /\ i.op \in {"li", "ld"}
         /\ \A d, source : HasPlace(g, d) =>
              \E i : StoreValue(g, d, source) = <<i>> /\ i.op \in {"mv", "sd"}
<1>1. ASSUME NEW o, NEW scratch, IsOperand(g, o)
      PROVE  \/ LoadValue(g, o, scratch).emit = <<>>
             \/ \E i : LoadValue(g, o, scratch).emit = <<i>> /\ i.op \in {"li", "ld"}
  <2>1. CASE o.kind # "name"
    BY <2>1 DEF LoadValue, Li
  <2>2. CASE o.kind = "name" /\ o.name \in DOMAIN g.registers
    BY <2>2 DEF LoadValue, IsCompilable
  <2>3. CASE o.kind = "name" /\ o.name \notin DOMAIN g.registers
    BY <1>1, <2>3 DEF LoadValue, Ld, IsOperand, HasPlace
  <2> QED
    BY <2>1, <2>2, <2>3
<1>2. ASSUME NEW d, NEW source, HasPlace(g, d)
      PROVE  \E i : StoreValue(g, d, source) = <<i>> /\ i.op \in {"mv", "sd"}
  <2>1. CASE d \in DOMAIN g.registers
    BY <2>1 DEF StoreValue, Mv, R1, IsCompilable
  <2>2. CASE d \notin DOMAIN g.registers
    BY <1>2, <2>2 DEF StoreValue, Sd, HasPlace
  <2> QED
    BY <2>1, <2>2
<1> QED
  BY <1>1, <1>2

\* storeValue: the place of the name is given what the register holds.
LEMMA StoreStores ==
  ASSUME NEW g, IsCompilable(g), NEW s, InBody(g, s), NEW d, HasPlace(g, d),
         NEW source, NEW v
  PROVE  /\ Puts(g, s, Does(StoreValue(g, d, source), s, v), d, s.regs[source])
         /\ \A r \in Registers \ SavedReg :
              Does(StoreValue(g, d, source), s, v).regs[r] = s.regs[r]
<1> DEFINE t == Does(StoreValue(g, d, source), s, v)
           offset == BuildStackFrame(g).spillOffsets
<1>1. \A x \in DOMAIN g.registers : g.registers[x] \in SavedReg
  BY DEF IsCompilable
<1>2. CASE d \in DOMAIN g.registers
  <2> DEFINE r == g.registers[d]
  <2>1. StoreValue(g, d, source) = <<Mv(r, source)>>
    BY <1>2 DEF StoreValue, IsCompilable
  <2>2. t = SetRegister(s, r, s.regs[source])
    <3>1. t = Effect(Mv(r, source), s, v)
      BY <2>1, DoesOne
    <3> QED
      BY <3>1 DEF Effect, Mv, R1, Written
  <2>3. Mv(r, source).op = "mv" /\ r \in SavedReg /\ r \in Scratch \cup SavedReg
    BY <1>1, <1>2 DEF Mv, R1
  <2> HIDE DEF t
  <2>4. Keeps(g, s, t, {r}) /\ t.regs[r] = s.regs[source]
    BY <2>2, <2>3, WritesRegister
  <2>5. In(g, t, d) = s.regs[source]
    BY <1>2, <2>4 DEF In, Held
  <2>6. ASSUME NEW y, Apart(g, d, y) PROVE In(g, t, y) = In(g, s, y)
    <3>1. CASE y \in DOMAIN g.registers
      <4>1. g.registers[y] # r
        BY <1>2, <2>6, <3>1 DEF Apart, Overwritten
      <4>2. g.registers[y] \in Registers
        BY <1>1, <3>1, RegistersApart
      <4> QED
        BY <2>4, <3>1, <4>1, <4>2 DEF In, Held, Keeps
    <3>2. CASE y \notin DOMAIN g.registers
      BY <2>4, <3>2 DEF In, Held, Keeps, InBody
    <3> QED
      BY <3>1, <3>2
  <2>7. /\ Puts(g, s, t, d, s.regs[source])
        /\ \A x \in Registers \ SavedReg : t.regs[x] = s.regs[x]
    BY <2>3, <2>4, <2>5, <2>6 DEF Puts, Keeps
  <2> QED
    BY <2>1, <2>3, <2>7 DEF t
<1>3. CASE d \notin DOMAIN g.registers
  <2> DEFINE there == s.regs["sp"] + offset[d]
  <2>1. d \in g.spilled
    BY <1>3 DEF HasPlace
  <2>2. StoreValue(g, d, source) = <<Sd(source, offset[d])>>
    BY <1>3, <2>1 DEF StoreValue
  <2>3. t = SetMemory(s, there, s.regs[source])
    <3>1. t = Effect(Sd(source, offset[d]), s, v)
      BY <2>2, DoesOne
    <3> QED
      BY <3>1 DEF Effect, Sd
  <2>4. Sd(source, offset[d]).op = "sd"
    BY DEF Sd
  <2>5. /\ Size(g) \in Nat
        /\ \A x \in g.spilled : offset[x] \in Int /\ -Size(g) + offset[x] \in Frame(g)
        /\ \A x, y \in g.spilled : offset[x] = offset[y] => x = y
    BY SlotsApart
  <2> HIDE DEF t, offset
  <2>6. /\ t.regs = s.regs /\ DOMAIN t.mem = DOMAIN s.mem
        /\ \A a \in DOMAIN s.mem : t.mem[a] = IF a = there THEN s.regs[source] ELSE s.mem[a]
    BY <2>3 DEF State, SetMemory
  <2>7. s.regs["sp"] = -Size(g) /\ DOMAIN s.mem = Frame(g)
    BY DEF InBody
  <2>8. In(g, t, d) = s.regs[source]
    <3>1. there \in DOMAIN s.mem
      BY <2>1, <2>5, <2>7
    <3> QED
      BY <1>3, <2>6, <3>1 DEF In, Held, offset
  <2>9. ASSUME NEW y, Apart(g, d, y) PROVE In(g, t, y) = In(g, s, y)
    <3>1. CASE y \in DOMAIN g.registers
      BY <2>6, <3>1 DEF In, Held
    <3>2. CASE y \notin DOMAIN g.registers
      <4>1. y \in g.spilled /\ y # d
        BY <2>9, <3>2 DEF Apart, HasPlace
      <4>2. offset[y] # offset[d] /\ offset[y] \in Int /\ offset[d] \in Int
        BY <2>1, <2>5, <4>1
      <4>3. s.regs["sp"] + offset[y] # there /\ s.regs["sp"] + offset[y] \in DOMAIN s.mem
        BY <2>5, <2>7, <4>1, <4>2
      <4> QED
        BY <2>6, <3>2, <4>3 DEF In, Held, offset
    <3> QED
      BY <3>1, <3>2
  <2>10. Puts(g, s, t, d, s.regs[source])
    BY <2>6, <2>7, <2>8, <2>9 DEF Puts, InBody
  <2> QED
    BY <2>2, <2>4, <2>6, <2>10 DEF t
<1> QED
  BY <1>2, <1>3

-----------------------------------------------------------------------------
(***************************************************************************)
(* What each instruction of the list becomes, and what that does.          *)
(***************************************************************************)
BinaryFunctions == {"Add", "Subtract", "Multiply", "Divide", "Equal", "LessThan",
              "LessThanEqual", "GreaterThan", "GreaterThanEqual", "And", "Or"}

\* A sequence without control: the machine goes through it.
Plain(t) ==
  /\ HasLength(t, Len(t))
  /\ \A k \in 1..Len(t) : t[k].op \notin {"label", "j", "bnez", "call", "ret", "throw"}

LEMMA PlainSequences ==
  /\ \A t : t = <<>> => Plain(t)
  /\ \A t, i : t = <<i>> /\ i.op \notin {"label", "j", "bnez", "call", "ret", "throw"} => Plain(t)
  /\ \A t, u : Plain(t) /\ Plain(u) => Plain(t \o u)
<1>1. ASSUME NEW t, t = <<>> PROVE Plain(t)
  BY <1>1 DEF Plain, HasLength, Range
<1>2. ASSUME NEW t, NEW i, t = <<i>>, i.op \notin {"label", "j", "bnez", "call", "ret", "throw"}
      PROVE  Plain(t)
  <2>1. HasLength(t, 1) /\ t[1] = i
    BY <1>2, DoesOne
  <2> QED
    BY <1>2, <2>1 DEF Plain, HasLength
<1>3. ASSUME NEW t, NEW u, Plain(t), Plain(u) PROVE Plain(t \o u)
  <2> DEFINE w == t \o u
             a == Len(t)
             b == Len(u)
  <2>1. Joins(w, t, u, a, b)
    BY <1>3, InARow DEF Plain
  <2>2. /\ \A k \in 1..a : t[k].op \notin {"label", "j", "bnez", "call", "ret", "throw"}
        /\ \A k \in 1..b : u[k].op \notin {"label", "j", "bnez", "call", "ret", "throw"}
    BY <1>3 DEF Plain
  <2> HIDE DEF w, a, b
  <2>3. HasLength(w, a + b) /\ Len(w) = a + b /\ a \in Nat /\ b \in Nat
    BY <2>1 DEF Joins, HasLength
  <2>4. ASSUME NEW k \in 1..(a + b)
        PROVE  w[k].op \notin {"label", "j", "bnez", "call", "ret", "throw"}
    <3>1. CASE k <= a
      <4>1. k \in 1..a
        BY <2>3, <3>1
      <4> QED
        BY <2>1, <2>2, <4>1 DEF Joins
    <3>2. CASE ~(k <= a)
      <4> DEFINE j == k - a
      <4>1. j \in 1..b /\ k = a + j
        BY <2>3, <3>2
      <4> HIDE DEF j
      <4> QED
        BY <2>1, <2>2, <4>1 DEF Joins
    <3> QED
      BY <3>1, <3>2
  <2> QED
    BY <2>3, <2>4 DEF Plain, w
<1> QED
  BY <1>1, <1>2, <1>3

\* The operations of the machine on words.
LEMMA ComputeComputes ==
  ASSUME NEW a \in Word, NEW b \in Word
  PROVE  /\ Compute("xor", a, b) = 0 <=> a = b
         /\ Compute("slt", a, b) = Truth(a < b)
         /\ a \in {0, 1} => Compute("xor", a, 1) = Truth(a = 0)
         /\ a \in {0, 1} /\ b \in {0, 1} =>
              /\ Compute("and", a, b) = Truth(a # 0 /\ b # 0)
              /\ Compute("or", a, b) = Truth(a # 0 \/ b # 0)
         /\ Compute("add", a, b) = Wrap(a + b)
         /\ Compute("sub", a, b) = Wrap(a - b)
         /\ Compute("mul", a, b) = Wrap(a * b)
         /\ b # 0 => Compute("div", a, b) = Wrap(Quotient(a, b))
<1>1. /\ \A l, r \in 0..(2 ^ Width - 1) :
           BitXor(l, r) \in 0..(2 ^ Width - 1) /\ (BitXor(l, r) = 0 <=> l = r)
      /\ \A l, r \in {0, 1} : /\ BitXor(l, r) = Truth(l # r)
                              /\ BitAnd(l, r) = Truth(l = 1 /\ r = 1)
                              /\ BitOr(l, r) = Truth(l = 1 \/ r = 1)
  BY BitsAreBits
<1>2. /\ \A w \in Word : Bits(w) \in 0..(2 ^ Width - 1)
      /\ \A v, w \in Word : Bits(v) = Bits(w) <=> v = w
      /\ \A n \in 0..(2 ^ Width - 1) : Wrap(n) = 0 <=> n = 0
  BY BitsOfWords
<1>3. \A t \in {0, 1} : Bits(t) = t /\ Wrap(t) = t
  BY BitsOfWords
<1>4. \A p : Truth(p) \in {0, 1}
  BY DEF Truth
<1>5. Compute("xor", a, b) = 0 <=> a = b
  <2>1. Compute("xor", a, b) = Wrap(BitXor(Bits(a), Bits(b)))
    BY DEF Compute
  <2>2. Bits(a) \in 0..(2 ^ Width - 1) /\ Bits(b) \in 0..(2 ^ Width - 1)
    BY <1>2
  <2> DEFINE x == BitXor(Bits(a), Bits(b))
  <2>3. x \in 0..(2 ^ Width - 1) /\ (x = 0 <=> Bits(a) = Bits(b))
    BY <1>1, <2>2
  <2>4. Compute("xor", a, b) = Wrap(x)
    BY <2>1
  <2> HIDE DEF x
  <2>5. Wrap(x) = 0 <=> x = 0
    BY <1>2, <2>3
  <2> QED
    BY <1>2, <2>3, <2>4, <2>5
<1>6. ASSUME a \in {0, 1} PROVE Compute("xor", a, 1) = Truth(a = 0)
  <2>1. Compute("xor", a, 1) = Wrap(BitXor(Bits(a), Bits(1)))
    BY DEF Compute
  <2>2. Bits(a) = a /\ Bits(1) = 1
    BY <1>3, <1>6
  <2>3. BitXor(a, 1) = Truth(a # 1)
    BY <1>1, <1>6
  <2>4. Wrap(Truth(a # 1)) = Truth(a # 1)
    BY <1>3, <1>4
  <2> QED
    BY <1>6, <2>1, <2>2, <2>3, <2>4 DEF Truth
<1>7. ASSUME a \in {0, 1}, b \in {0, 1}
      PROVE  /\ Compute("and", a, b) = Truth(a # 0 /\ b # 0)
             /\ Compute("or", a, b) = Truth(a # 0 \/ b # 0)
  <2>1. /\ Compute("and", a, b) = Wrap(BitAnd(Bits(a), Bits(b)))
        /\ Compute("or", a, b) = Wrap(BitOr(Bits(a), Bits(b)))
    BY DEF Compute
  <2>2. Bits(a) = a /\ Bits(b) = b
    BY <1>3, <1>7
  <2>3. BitAnd(a, b) = Truth(a = 1 /\ b = 1) /\ BitOr(a, b) = Truth(a = 1 \/ b = 1)
    BY <1>1, <1>7
  <2>4. /\ Wrap(Truth(a = 1 /\ b = 1)) = Truth(a = 1 /\ b = 1)
        /\ Wrap(Truth(a = 1 \/ b = 1)) = Truth(a = 1 \/ b = 1)
    BY <1>3, <1>4
  <2> QED
    BY <1>7, <2>1, <2>2, <2>3, <2>4 DEF Truth
<1>8. /\ Compute("slt", a, b) = Truth(a < b)
      /\ Compute("add", a, b) = Wrap(a + b)
      /\ Compute("sub", a, b) = Wrap(a - b)
      /\ Compute("mul", a, b) = Wrap(a * b)
      /\ b # 0 => Compute("div", a, b) = Wrap(Quotient(a, b))
  BY DEF Compute
<1> QED
  BY <1>5, <1>6, <1>7, <1>8

\* One instruction that writes t2.
LEMMA WritesT2 ==
  ASSUME NEW g, NEW s, InBody(g, s), NEW v, NEW i, i.rd = "t2",
         i.op \notin {"label", "j", "bnez", "sd", "call", "ret", "throw"}
  PROVE  /\ Keeps(g, s, Effect(i, s, v), {"t2"})
         /\ Effect(i, s, v).regs["t2"] = Written(i, s.regs, s.mem)
<1>1. Effect(i, s, v) = SetRegister(s, "t2", Written(i, s.regs, s.mem))
  BY DEF Effect
<1>2. "t2" \in Scratch \cup SavedReg
  BY ScratchRegisters
<1> QED
  BY <1>1, <1>2, WritesRegister

\* The operation of an IRBinOp computes what the operator means.
LEMMA OperationComputes ==
  ASSUME NEW g, IsCompilable(g), NEW s, InBody(g, s), NEW v, NEW fn \in BinaryFunctions,
         NEW l, NEW r, s.regs[l] \in Word, s.regs[r] \in Word, HasValue(fn, s.regs[r]),
         fn \in {"And", "Or"} => s.regs[l] \in {0, 1} /\ s.regs[r] \in {0, 1}
  PROVE  /\ Plain(Operation(fn, l, r))
         /\ Keeps(g, s, Does(Operation(fn, l, r), s, v), {"t2"})
         /\ Does(Operation(fn, l, r), s, v).regs["t2"] = EvalBinOp(fn, s.regs[l], s.regs[r])
<1> DEFINE a == s.regs[l]
           b == s.regs[r]
           t == Operation(fn, l, r)
           z == Does(t, s, v)
<1>1. a \in Word /\ b \in Word /\ a \in Int /\ b \in Int
  BY WrapIsWord DEF Word
<1>2. \A op \in {"add", "sub", "mul", "div", "slt", "and", "or", "xor"} : \A x, y :
        LET i == RR(op, "t2", x, y)
        IN  /\ i.rd = "t2" /\ i.op \notin {"label", "j", "bnez", "sd", "call", "ret", "throw"}
            /\ Written(i, s.regs, s.mem) = Compute(op, s.regs[x], s.regs[y])
  BY DEF RR, Written
<1>3. ASSUME NEW i, t = <<i>>, i.rd = "t2",
             i.op \notin {"label", "j", "bnez", "sd", "call", "ret", "throw"}
      PROVE  Plain(t) /\ Keeps(g, s, z, {"t2"}) /\ z.regs["t2"] = Written(i, s.regs, s.mem)
  <2>1. z = Effect(i, s, v)
    BY <1>3, DoesOne
  <2> QED
    BY <1>3, <2>1, WritesT2, PlainSequences
<1>4. ASSUME NEW i, NEW j, t = <<i, j>>, i.rd = "t2", j.rd = "t2",
             i.op \notin {"label", "j", "bnez", "sd", "call", "ret", "throw"},
             j.op \notin {"label", "j", "bnez", "sd", "call", "ret", "throw"}
      PROVE  /\ Plain(t) /\ Keeps(g, s, z, {"t2"})
             /\ \E q, m : /\ q["t2"] = Written(i, s.regs, s.mem)
                         /\ z.regs["t2"] = Written(j, q, m)
  <2> DEFINE y == Effect(i, s, v)
  <2>1. z = Effect(j, y, v) /\ HasLength(t, 2) /\ t[1] = i /\ t[2] = j
    BY <1>4, DoesTwo
  <2>2. Keeps(g, s, y, {"t2"}) /\ y.regs["t2"] = Written(i, s.regs, s.mem)
    BY <1>4, WritesT2
  <2> HIDE DEF y, z, t
  <2>3. InBody(g, y)
    BY <2>2 DEF Keeps
  <2>4. Keeps(g, y, z, {"t2"}) /\ z.regs["t2"] = Written(j, y.regs, y.mem)
    BY <1>4, <2>1, <2>3, WritesT2
  <2>5. Keeps(g, s, z, {"t2"})
    BY <2>2, <2>4 DEF Keeps
  <2>6. Plain(t)
    BY <1>4, <2>1 DEF Plain, HasLength
  <2> QED
    BY <2>2, <2>4, <2>5, <2>6
<1>5. /\ Compute("xor", a, b) = 0 <=> a = b
      /\ Compute("slt", a, b) = Truth(a < b) /\ Compute("slt", b, a) = Truth(b < a)
      /\ a \in {0, 1} /\ b \in {0, 1} =>
           /\ Compute("and", a, b) = Truth(a # 0 /\ b # 0)
           /\ Compute("or", a, b) = Truth(a # 0 \/ b # 0)
      /\ Compute("add", a, b) = Wrap(a + b)
      /\ Compute("sub", a, b) = Wrap(a - b)
      /\ Compute("mul", a, b) = Wrap(a * b)
      /\ b # 0 => Compute("div", a, b) = Wrap(Quotient(a, b))
  <2> HIDE DEF a, b, t, z
  <2>1. /\ Compute("xor", a, b) = 0 <=> a = b
        /\ Compute("slt", a, b) = Truth(a < b) /\ Compute("slt", b, a) = Truth(b < a)
    BY <1>1, ComputeComputes
  <2>2. a \in {0, 1} /\ b \in {0, 1} =>
          /\ Compute("and", a, b) = Truth(a # 0 /\ b # 0)
          /\ Compute("or", a, b) = Truth(a # 0 \/ b # 0)
    BY <1>1, ComputeComputes
  <2>3. /\ Compute("add", a, b) = Wrap(a + b)
        /\ Compute("sub", a, b) = Wrap(a - b)
        /\ Compute("mul", a, b) = Wrap(a * b)
        /\ b # 0 => Compute("div", a, b) = Wrap(Quotient(a, b))
    BY <1>1, ComputeComputes
  <2> QED
    BY <2>1, <2>2, <2>3
<1>6. \A p : Compute("xor", Truth(p), 1) = Truth(~p)
  <2>1. \A p : Truth(p) \in {0, 1} /\ Truth(p) \in Word
    BY BitsOfWords DEF Truth
  <2>2. \A p : Compute("xor", Truth(p), 1) = Truth(Truth(p) = 0)
    BY <2>1, WordsAreWords, ComputeComputes
  <2> QED
    BY <2>2 DEF Truth
<1>7. HasValue(fn, b) /\ (fn \in {"And", "Or"} => a \in {0, 1} /\ b \in {0, 1})
  OBVIOUS
<1> HIDE DEF z, a, b
<1>8. CASE fn = "Equal"
  <2> DEFINE i == RR("xor", "t2", l, r)
             j == R1("seqz", "t2", "t2")
  <2>1. t = <<i, j>>
    BY <1>8 DEF Operation
  <2>2. j.rd = "t2" /\ j.op = "seqz" /\ \A q, m : Written(j, q, m) = Truth(q["t2"] = 0)
    BY DEF R1, Written
  <2>3. /\ i.rd = "t2" /\ i.op \notin {"label", "j", "bnez", "sd", "call", "ret", "throw"}
        /\ Written(i, s.regs, s.mem) = Compute("xor", a, b)
    BY <1>2 DEF a, b
  <2> HIDE DEF t, i, j
  <2>4. /\ Plain(t) /\ Keeps(g, s, z, {"t2"})
        /\ \E q, m : /\ q["t2"] = Written(i, s.regs, s.mem)
                    /\ z.regs["t2"] = Written(j, q, m)
    BY <1>4, <2>1, <2>2, <2>3
  <2>5. z.regs["t2"] = Truth(a = b)
    BY <1>5, <2>2, <2>3, <2>4 DEF Truth
  <2> QED
    BY <1>8, <2>4, <2>5 DEF EvalBinOp, t, z, a, b
<1>9. CASE fn = "GreaterThan"
  <2> DEFINE i == RR("slt", "t2", r, l)
  <2>1. t = <<i>>
    BY <1>9 DEF Operation
  <2>2. /\ i.rd = "t2" /\ i.op \notin {"label", "j", "bnez", "sd", "call", "ret", "throw"}
        /\ Written(i, s.regs, s.mem) = Compute("slt", b, a)
    BY <1>2 DEF a, b
  <2> HIDE DEF t, i
  <2>3. Plain(t) /\ Keeps(g, s, z, {"t2"}) /\ z.regs["t2"] = Truth(b < a)
    BY <1>3, <1>5, <2>1, <2>2
  <2>4. EvalBinOp(fn, a, b) = Truth(a > b) /\ (a > b <=> b < a)
    BY <1>1, <1>9 DEF EvalBinOp
  <2> QED
    BY <2>3, <2>4 DEF Truth, t, z, a, b
<1>10. CASE fn \in {"LessThanEqual", "GreaterThanEqual"}
  <2> DEFINE x == IF fn = "LessThanEqual" THEN r ELSE l
             y == IF fn = "LessThanEqual" THEN l ELSE r
             p == s.regs[x] < s.regs[y]
             i == RR("slt", "t2", x, y)
             j == RI("xori", "t2", "t2", 1)
  <2>1. t = <<i, j>>
    BY <1>10 DEF Operation
  <2>2. j.rd = "t2" /\ j.op = "xori" /\ \A q, m : Written(j, q, m) = Compute("xor", q["t2"], 1)
    BY DEF RI, Written
  <2>3. /\ i.rd = "t2" /\ i.op \notin {"label", "j", "bnez", "sd", "call", "ret", "throw"}
        /\ Written(i, s.regs, s.mem) = Truth(p)
    BY <1>2, <1>5 DEF a, b
  <2>4. EvalBinOp(fn, a, b) = Truth(~p)
    <3>1. ~p <=> IF fn = "LessThanEqual" THEN a <= b ELSE a >= b
      BY <1>1 DEF a, b
    <3> HIDE DEF p
    <3> QED
      BY <1>10, <3>1 DEF EvalBinOp, Truth
  <2> HIDE DEF t, i, j, p
  <2>5. /\ Plain(t) /\ Keeps(g, s, z, {"t2"})
        /\ \E q, m : /\ q["t2"] = Written(i, s.regs, s.mem)
                    /\ z.regs["t2"] = Written(j, q, m)
    BY <1>4, <2>1, <2>2, <2>3
  <2>6. z.regs["t2"] = Truth(~p)
    BY <1>6, <2>2, <2>3, <2>5
  <2> QED
    BY <2>4, <2>5, <2>6 DEF t, z, a, b
<1>11. CASE fn \in {"Add", "Subtract", "Multiply", "Divide", "LessThan", "And", "Or"}
  <2> DEFINE i == RR(Opcode[fn], "t2", l, r)
  <2>1. t = <<i>>
    BY <1>11 DEF Operation
  <2>2. Opcode[fn] \in {"add", "sub", "mul", "div", "slt", "and", "or", "xor"}
    BY <1>11 DEF Opcode
  <2>3. /\ i.rd = "t2" /\ i.op \notin {"label", "j", "bnez", "sd", "call", "ret", "throw"}
        /\ Written(i, s.regs, s.mem) = Compute(Opcode[fn], a, b)
    BY <1>2, <2>2 DEF a, b
  <2> HIDE DEF t, i
  <2>4. Plain(t) /\ Keeps(g, s, z, {"t2"}) /\ z.regs["t2"] = Compute(Opcode[fn], a, b)
    BY <1>3, <2>1, <2>3
  <2>5. Compute(Opcode[fn], a, b) = EvalBinOp(fn, a, b)
    BY <1>5, <1>7, <1>11 DEF Opcode, EvalBinOp, HasValue
  <2> QED
    BY <2>4, <2>5 DEF t, z, a, b
<1> QED
  BY <1>8, <1>9, <1>10, <1>11 DEF BinaryFunctions

\* The recursion of FlattenSeq, unfolded.
LEMMA FlattenUnfold ==
  ASSUME NEW S, NEW seqs \in Seq(Seq(S))
  PROVE  \E joined :
           /\ FlattenSeq(seqs) = joined[Len(seqs)] /\ joined[0] = <<>>
           /\ \A k \in 1..Len(seqs) : joined[k] = joined[k - 1] \o seqs[k]
<1> DEFINE n == Len(seqs)
<1>1. n \in Nat /\ \A p \in 1..n : seqs[p] \in Seq(S)
  OBVIOUS
<1>2. CASE n = 0
  <2> DEFINE joined == [k \in 0..0 |-> <<>>]
  <2>1. FlattenSeq(seqs) = <<>>
    BY <1>2 DEF FlattenSeq
  <2>2. joined[0] = <<>> /\ joined[Len(seqs)] = <<>> /\ 1..Len(seqs) = {}
    BY <1>2
  <2> HIDE DEF n, joined
  <2> QED
    BY <2>1, <2>2
<1>3. CASE n # 0
  <2> DEFINE joined0 == seqs[1]
             Def(v, i) == v \o seqs[i]
             joined == CHOOSE h : h = [i \in 1..n |-> IF i = 1 THEN seqs[i]
                                                      ELSE h[i - 1] \o seqs[i]]
             joined1 == CHOOSE h : h = [i \in 1..n |-> IF i = 1 THEN joined0 ELSE Def(h[i - 1], i)]
  <2>1. joined = joined1
    <3>1. \A h : [i \in 1..n |-> IF i = 1 THEN seqs[i] ELSE h[i - 1] \o seqs[i]]
                   = [i \in 1..n |-> IF i = 1 THEN joined0 ELSE Def(h[i - 1], i)]
      BY SMT
    <3> QED
      BY <3>1
  <2>2. FlattenSeq(seqs) = joined[n]
    BY <1>3 DEF FlattenSeq
  <2>3. FiniteNatInductiveDefHypothesis(joined1, joined0, Def, 1, n)
    BY DEF FiniteNatInductiveDefHypothesis
  <2>4. FiniteNatInductiveDefConclusion(joined1, joined0, Def, 1, n)
    BY <1>1, <2>3, FiniteNatInductiveDef
  <2>5. joined1 = [i \in 1..n |-> IF i = 1 THEN joined0 ELSE Def(joined1[i - 1], i)]
    BY <2>4 DEF FiniteNatInductiveDefConclusion
  <2> HIDE DEF joined1, joined
  <2>6. joined[1] = seqs[1] /\ \A i \in 1..n : i # 1 => joined[i] = joined[i - 1] \o seqs[i]
    <3> HIDE DEF n
    <3>1. joined[1] = joined0 /\ \A i \in 1..n : i # 1 => joined[i] = Def(joined[i - 1], i)
      <4> HIDE DEF joined0, Def
      <4> QED
        BY <1>1, <1>3, <2>1, <2>5
    <3> QED
      BY <3>1
  <2> DEFINE whole == [k \in 0..n |-> IF k = 0 THEN <<>> ELSE joined[k]]
  <2>7. whole[0] = <<>> /\ \A k \in 1..n : whole[k] = joined[k]
    BY <1>1
  <2> HIDE DEF joined0, Def, whole
  <2>8. ASSUME NEW k \in 1..n PROVE whole[k] = whole[k - 1] \o seqs[k]
    <3>1. CASE k = 1
      <4>1. seqs[1] \in Seq(S) /\ 1 \in 1..n
        BY <1>1, <1>3
      <4>2. <<>> \o seqs[1] = seqs[1]
        BY <4>1
      <4>3. whole[1] = seqs[1] /\ whole[1 - 1] = <<>>
        BY <2>6, <2>7, <4>1
      <4> HIDE DEF n
      <4> QED
        BY <3>1, <4>2, <4>3
    <3>2. CASE k # 1
      <4>1. k - 1 \in 1..n /\ k \in 1..n
        BY <1>1, <3>2
      <4> HIDE DEF n
      <4> QED
        BY <2>6, <2>7, <3>2, <4>1
    <3> QED
      BY <3>1, <3>2
  <2>9. FlattenSeq(seqs) = whole[n] /\ n \in 1..n
    BY <1>1, <1>3, <2>2, <2>7
  <2> QED
    BY <2>7, <2>8, <2>9 DEF n
<1> QED
  BY <1>2, <1>3

\* The machine is about to execute what i of the list became, and has the
\* values of its operands.
Ready(g, s, e, i) ==
  /\ InBody(g, s) /\ IsInstruction(i)
  /\ \A o \in Operands(i) : /\ IsOperand(g, o) /\ OperandIn(g, s, o) = ValueOf(e, o)
                            /\ ValueOf(e, o) \in Word
  /\ \A d \in GetDestination(i) : HasPlace(g, d)
  /\ i.op = "binop" =>
       /\ HasValue(i.fn, ValueOf(e, i.rightVal))
       /\ i.fn \in {"And", "Or"} =>
            ValueOf(e, i.leftVal) \in {0, 1} /\ ValueOf(e, i.rightVal) \in {0, 1}

\* A value is put into a place after registers that hold no name have changed.
LEMMA PutsAfter ==
  ASSUME NEW g, IsCompilable(g), NEW s, InBody(g, s), NEW t, NEW u, NEW d, NEW w,
         NEW R \in SUBSET (Scratch \cup {"ra"}), Keeps(g, s, t, R), Puts(g, t, u, d, w)
  PROVE  Puts(g, s, u, d, w)
<1>1. \A x : HasPlace(g, x) => In(g, t, x) = In(g, s, x)
  BY KeepsPlaces
<1> QED
  BY <1>1 DEF Puts, Apart

\* What an instruction becomes that computes a value.
LEMMA WritersCompute ==
  ASSUME NEW g, IsCompilable(g), NEW s, NEW e, NEW i, Ready(g, s, e, i), NEW v,
         i.op \in {"const", "move", "binop", "unary"}
  PROVE  LET t == GenerateInstruction(g, i)
         IN  /\ Plain(t) /\ Len(t) > 0
             /\ Puts(g, s, Does(t, s, v), i.destination, ResultOf(e, i, v))
<1> DEFINE t == GenerateInstruction(g, i)
           d == i.destination
           goal == /\ Plain(t) /\ Len(t) > 0
                   /\ Puts(g, s, Does(t, s, v), d, ResultOf(e, i, v))
<1>1. InBody(g, s) /\ HasPlace(g, d) /\ IsInstruction(i)
  BY DEF Ready, GetDestination
<1>2. \A a, b : Plain(a) /\ Plain(b) => Plain(a \o b)
  BY PlainSequences
<1>2b. \A a, b : Plain(a) /\ Plain(b) => InTurn(a \o b, a, b)
  BY ConcatIsInTurn, Zenon DEF Plain
<1>2a. \A a : Plain(a) => HasLength(a, Len(a)) /\ Len(a) \in Nat
  BY DEF Plain, HasLength
<1> SUFFICES goal
  OBVIOUS
<1>3. ASSUME NEW source, NEW a
      PROVE  /\ Plain(StoreValue(g, d, source)) /\ Len(StoreValue(g, d, source)) = 1
             /\ InBody(g, a) =>
                  Puts(g, a, Does(StoreValue(g, d, source), a, v), d, a.regs[source])
  <2>1. PICK j : StoreValue(g, d, source) = <<j>> /\ j.op \in {"mv", "sd"}
    BY <1>1, LoadAndStoreShape
  <2>2. Plain(StoreValue(g, d, source)) /\ Len(StoreValue(g, d, source)) = 1
    BY <2>1, PlainSequences
  <2> QED
    BY <1>1, <2>2, StoreStores
<1>4. ASSUME NEW a, NEW b, NEW m, NEW source, Plain(a), m = Does(a, s, v),
             NEW R, R \subseteq Scratch,
             Keeps(g, s, m, R), b = a \o StoreValue(g, d, source)
      PROVE  Plain(b) /\ Len(b) > 0 /\ Puts(g, s, Does(b, s, v), d, m.regs[source])
  <2> DEFINE store == StoreValue(g, d, source)
             n == Len(a)
  <2>1. Plain(store) /\ HasLength(store, 1) /\ HasLength(a, n) /\ Plain(b) /\ n \in Nat
    BY <1>2, <1>2a, <1>3, <1>4
  <2> HIDE DEF n, store
  <2>2. Does(b, s, v) = Does(store, m, v) /\ HasLength(b, n + 1)
    <3>1. HasLength(store, Len(store)) /\ HasLength(a, Len(a)) /\ Len(store) = 1 /\ Len(a) = n
      BY <2>1 DEF HasLength
    <3>2. b = a \o store
      BY <1>4 DEF store
    <3>3. InTurn(b, a, store)
      BY <1>2b, <1>4, <2>1, <3>2, Zenon
    <3>4. Does(b, s, v) = Does(store, Does(a, s, v), v) /\ HasLength(b, Len(a) + Len(store))
      BY <3>3, RanInTurn
    <3> QED
      BY <1>4, <3>1, <3>4
  <2>3. InBody(g, m)
    BY <1>4 DEF Keeps
  <2>4. Puts(g, m, Does(store, m, v), d, m.regs[source])
    BY <1>3, <2>3 DEF store
  <2>5. R \in SUBSET (Scratch \cup {"ra"})
    BY <1>4
  <2>6. Puts(g, s, Does(store, m, v), d, m.regs[source])
    BY <1>1, <1>4, <2>4, <2>5, PutsAfter
  <2>7. Len(b) > 0
    BY <2>1, <2>2 DEF HasLength
  <2> QED
    BY <2>1, <2>2, <2>6, <2>7
<1>5. ASSUME NEW m, InBody(g, m), NEW o, IsOperand(g, o), NEW scratch \in Scratch
      PROVE  LET l == LoadValue(g, o, scratch)
             IN  /\ Plain(l.emit) /\ Keeps(g, m, Does(l.emit, m, v), {scratch})
                 /\ Does(l.emit, m, v).regs[l.reg] = OperandIn(g, m, o)
                 /\ l.reg \in {scratch} \cup SavedReg
  <2> DEFINE l == LoadValue(g, o, scratch)
  <2>1. l.emit = <<>> \/ \E j : l.emit = <<j>> /\ j.op \in {"li", "ld"}
    BY <1>5, LoadAndStoreShape
  <2>2. /\ Keeps(g, m, Does(l.emit, m, v), {scratch})
        /\ Does(l.emit, m, v).regs[l.reg] = OperandIn(g, m, o)
        /\ l.reg \in {scratch} \cup SavedReg
    BY <1>5, LoadLoads
  <2> HIDE DEF l
  <2>3. Plain(l.emit)
    BY <2>1, PlainSequences
  <2> QED
    BY <2>2, <2>3 DEF l
<1>6. CASE i.op = "const"
  <2>1. ResultOf(e, i, v) = i.value.value
    BY <1>6 DEF ResultOf
  <2>2. CASE d \in DOMAIN g.registers
    <3> DEFINE r == g.registers[d]
               j == Li(r, i.value.value)
    <3>1. t = <<j>>
      BY <1>6, <2>2 DEF GenerateInstruction, GenerateConst, IsCompilable
    <3>2. j.op = "li" /\ j.rd = r /\ Written(j, s.regs, s.mem) = i.value.value
      BY DEF Li, Written
    <3>3. r \in SavedReg /\ r \in Scratch \cup SavedReg
      BY <2>2 DEF IsCompilable
    <3> HIDE DEF t, j
    <3>4. Does(t, s, v) = Effect(j, s, v) /\ Plain(t) /\ Len(t) = 1
      BY <3>1, <3>2, DoesOne, PlainSequences
    <3>5. Effect(j, s, v) = SetRegister(s, r, i.value.value)
      BY <3>2 DEF Effect
    <3>6. StoreValue(g, d, "t0") = <<Mv(r, "t0")>>
      BY <2>2 DEF StoreValue, IsCompilable
    <3> DEFINE q == Does(t, s, v)
    <3> HIDE DEF r
    <3>7. Keeps(g, s, q, {r}) /\ q.regs[r] = i.value.value
      BY <1>1, <3>3, <3>4, <3>5, WritesRegister
    <3> HIDE DEF q
    <3>8. In(g, q, d) = i.value.value
      BY <2>2, <3>7 DEF In, Held, r
    <3>9. ASSUME NEW y, Apart(g, d, y) PROVE In(g, q, y) = In(g, s, y)
      <4>1. CASE y \in DOMAIN g.registers
        <5>1. g.registers[y] # r
          BY <2>2, <3>9, <4>1 DEF Apart, Overwritten, r
        <5>2. g.registers[y] \in Registers
          BY <4>1, RegistersApart DEF IsCompilable
        <5> QED
          BY <3>7, <4>1, <5>1, <5>2 DEF In, Held, Keeps
      <4>2. CASE y \notin DOMAIN g.registers
        BY <1>1, <3>7, <4>2 DEF In, Held, Keeps, InBody
      <4> QED
        BY <4>1, <4>2
    <3>10. Puts(g, s, q, d, i.value.value)
      BY <3>7, <3>8, <3>9 DEF Puts, Keeps
    <3> QED
      BY <2>1, <3>4, <3>10 DEF q
  <2>3. CASE d \notin DOMAIN g.registers
    <3> DEFINE j == Li("t0", i.value.value)
               a == <<j>>
    <3>1. d \in g.spilled
      BY <1>1, <2>3 DEF HasPlace
    <3>2. t = a \o StoreValue(g, d, "t0")
      BY <1>6, <2>3, <3>1 DEF GenerateInstruction, GenerateConst, IsCompilable, StoreValue
    <3>3. j.op = "li" /\ j.rd = "t0" /\ Written(j, s.regs, s.mem) = i.value.value
      BY DEF Li, Written
    <3>4. "t0" \in Scratch \cup SavedReg /\ {"t0"} \subseteq Scratch
      BY ScratchRegisters
    <3> DEFINE q == Does(a, s, v)
    <3> HIDE DEF t, j
    <3>5. q = Effect(j, s, v) /\ Plain(a)
      BY <3>3, DoesOne, PlainSequences
    <3>6. Effect(j, s, v) = SetRegister(s, "t0", i.value.value)
      BY <3>3 DEF Effect
    <3> HIDE DEF a
    <3>7. Keeps(g, s, q, {"t0"}) /\ q.regs["t0"] = i.value.value
      BY <1>1, <3>4, <3>5, <3>6, WritesRegister
    <3> QED
      BY <1>4, <2>1, <3>2, <3>4, <3>5, <3>7
  <2> QED
    BY <2>2, <2>3
<1>7. CASE i.op = "move"
  <2> DEFINE l == LoadValue(g, i.source, "t0")
             q == Does(l.emit, s, v)
  <2>1. t = l.emit \o StoreValue(g, d, l.reg)
    BY <1>7 DEF GenerateInstruction, GenerateMove
  <2>2. IsOperand(g, i.source) /\ OperandIn(g, s, i.source) = ValueOf(e, i.source)
    BY <1>7 DEF Ready, Operands
  <2>3. "t0" \in Scratch /\ {"t0"} \subseteq Scratch
    BY ScratchRegisters
  <2>4. /\ Plain(l.emit) /\ Keeps(g, s, q, {"t0"}) /\ q.regs[l.reg] = ValueOf(e, i.source)
    BY <1>1, <1>5, <2>2, <2>3
  <2>5. ResultOf(e, i, v) = ValueOf(e, i.source)
    BY <1>7 DEF ResultOf
  <2> HIDE DEF l, t
  <2> QED
    BY <1>4, <2>1, <2>3, <2>4, <2>5
<1>8. CASE i.op = "unary"
  <2> DEFINE l == LoadValue(g, i.value, "t0")
             q == Does(l.emit, s, v)
             j == R1(IF i.fn = "Negation" THEN "neg" ELSE "seqz", "t1", l.reg)
             a == l.emit \o <<j>>
             u == Effect(j, q, v)
  <2>1. t = a \o StoreValue(g, d, "t1")
    BY <1>8 DEF GenerateInstruction, GenerateUnaryOp
  <2>2. IsOperand(g, i.value) /\ OperandIn(g, s, i.value) = ValueOf(e, i.value)
    BY <1>8 DEF Ready, Operands
  <2>3. "t0" \in Scratch /\ "t1" \in Scratch \cup SavedReg /\ {"t0"} \cup {"t1"} \subseteq Scratch
    BY ScratchRegisters
  <2>4. /\ Plain(l.emit) /\ Keeps(g, s, q, {"t0"}) /\ q.regs[l.reg] = ValueOf(e, i.value)
    BY <1>1, <1>5, <2>2, <2>3
  <2>5. ResultOf(e, i, v) = EvalUnaryOp(i.fn, ValueOf(e, i.value))
    BY <1>8 DEF ResultOf
  <2>6. j.op \in {"neg", "seqz"} /\ j.rd = "t1"
        /\ Written(j, q.regs, q.mem) = EvalUnaryOp(i.fn, q.regs[l.reg])
    <3> HIDE DEF l, q
    <3> QED
      BY DEF R1, Written, EvalUnaryOp
  <2> HIDE DEF l, t, j, q
  <2>7. Plain(<<j>>) /\ HasLength(<<j>>, 1) /\ \A m : Does(<<j>>, m, v) = Effect(j, m, v)
    BY <2>6, PlainSequences, DoesOne
  <2>8. Plain(a) /\ Does(a, s, v) = u
    <3>1. Does(a, s, v) = Does(<<j>>, Does(l.emit, s, v), v)
      <4>1. InTurn(a, l.emit, <<j>>)
        BY <1>2b, <2>4, <2>7, Zenon DEF a
      <4> HIDE DEF a
      <4> QED
        BY <4>1, RanInTurn
    <3>2. Plain(a)
      BY <1>2, <2>4, <2>7, Zenon DEF a
    <3> QED
      BY <2>7, <3>1, <3>2 DEF q, u
  <2>9. u = SetRegister(q, "t1", EvalUnaryOp(i.fn, ValueOf(e, i.value)))
    BY <2>4, <2>6 DEF Effect
  <2>10. InBody(g, q)
    BY <2>4 DEF Keeps
  <2> HIDE DEF a, u
  <2>11. /\ Keeps(g, q, u, {"t1"}) /\ u.regs["t1"] = EvalUnaryOp(i.fn, ValueOf(e, i.value))
    BY <2>3, <2>9, <2>10, WritesRegister
  <2>12. Keeps(g, s, u, {"t0"} \cup {"t1"})
    BY <2>4, <2>11, KeepsTwice
  <2> QED
    BY <1>4, <2>1, <2>3, <2>5, <2>8, <2>11, <2>12
<1>9. CASE i.op = "binop"
  <2> DEFINE left == LoadValue(g, i.leftVal, "t0")
             right == LoadValue(g, i.rightVal, SecondScratch)
             p == Does(left.emit, s, v)
             q == Does(right.emit, p, v)
             operation == Operation(i.fn, left.reg, right.reg)
             both == left.emit \o right.emit
             a == both \o operation
             u == Does(operation, q, v)
             x == ValueOf(e, i.leftVal)
             y == ValueOf(e, i.rightVal)
  <2>1. t = a \o StoreValue(g, d, "t2")
    BY <1>9 DEF GenerateInstruction, GenerateBinOp
  <2>2. /\ IsOperand(g, i.leftVal) /\ OperandIn(g, s, i.leftVal) = x /\ x \in Word
        /\ IsOperand(g, i.rightVal) /\ OperandIn(g, s, i.rightVal) = y /\ y \in Word
        /\ HasValue(i.fn, y) /\ (i.fn \in {"And", "Or"} => x \in {0, 1} /\ y \in {0, 1})
    BY <1>9 DEF Ready, Operands
  <2>3. /\ "t0" \in Scratch /\ "t1" \in Scratch /\ "t2" \in Scratch
        /\ {"t0"} \cup {"t1"} \cup {"t2"} \subseteq Scratch
    BY ScratchRegisters
  <2>4. /\ Plain(left.emit) /\ Keeps(g, s, p, {"t0"}) /\ p.regs[left.reg] = x
        /\ left.reg \in {"t0"} \cup SavedReg
    BY <1>1, <1>5, <2>2, <2>3
  <2> HIDE DEF left, x, y
  <2>5. InBody(g, p)
    BY <2>4 DEF Keeps
  <2>6. OperandIn(g, p, i.rightVal) = y
    <3>1. {"t0"} \in SUBSET (Scratch \cup {"ra"})
      BY <2>3
    <3> HIDE DEF p
    <3> QED
      BY <1>1, <2>2, <2>4, <3>1, KeepsPlaces
  <2>7. /\ Plain(right.emit) /\ Keeps(g, p, q, {"t1"}) /\ q.regs[right.reg] = y
    <3> HIDE DEF p
    <3> QED
      BY <1>5, <2>2, <2>3, <2>5, <2>6 DEF SecondScratch
  <2> HIDE DEF right
  <2>8. q.regs[left.reg] = x
    <3>1. left.reg \in Registers /\ left.reg # "t1"
      BY <2>3, <2>4, RegistersApart
    <3> QED
      BY <2>4, <2>7, <3>1 DEF Keeps
  <2>9. /\ Plain(both) /\ Does(both, s, v) = q
    <3>1. Does(both, s, v) = Does(right.emit, Does(left.emit, s, v), v)
      <4>1. InTurn(both, left.emit, right.emit)
        BY <1>2b, <2>4, <2>7, Zenon DEF both
      <4> HIDE DEF both
      <4> QED
        BY <4>1, RanInTurn
    <3>2. Plain(both)
      BY <1>2, <2>4, <2>7, Zenon DEF both
    <3> QED
      BY <3>1, <3>2 DEF p, q
  <2>10. InBody(g, q) /\ i.fn \in BinaryFunctions
    BY <1>1, <1>9, <2>7 DEF Keeps, IsInstruction, BinaryFunctions
  <2>11. /\ Plain(operation) /\ Keeps(g, q, u, {"t2"}) /\ u.regs["t2"] = EvalBinOp(i.fn, x, y)
    <3> HIDE DEF q
    <3> QED
      BY <2>2, <2>7, <2>8, <2>10, OperationComputes
  <2> HIDE DEF operation, both
  <2>12. Plain(a) /\ Does(a, s, v) = u
    <3>1. Does(a, s, v) = Does(operation, Does(both, s, v), v)
      <4>1. InTurn(a, both, operation)
        BY <1>2b, <2>9, <2>11, Zenon DEF a
      <4> HIDE DEF a
      <4> QED
        BY <4>1, RanInTurn
    <3>2. Plain(a)
      BY <1>2, <2>9, <2>11, Zenon DEF a
    <3> QED
      BY <2>9, <3>1, <3>2 DEF u
  <2> HIDE DEF a, u, p, q, t
  <2>13. Keeps(g, s, u, {"t0"} \cup {"t1"} \cup {"t2"})
    <3>1. Keeps(g, s, q, {"t0"} \cup {"t1"})
      BY <2>4, <2>7, KeepsTwice
    <3> QED
      BY <2>11, <3>1, KeepsTwice
  <2>14. ResultOf(e, i, v) = EvalBinOp(i.fn, x, y)
    BY <1>9 DEF ResultOf, x, y
  <2> QED
    BY <1>4, <2>1, <2>3, <2>11, <2>12, <2>13, <2>14 DEF t, goal
<1> QED
  BY <1>6, <1>7, <1>8, <1>9

-----------------------------------------------------------------------------
(***************************************************************************)
(* The form of what an instruction becomes.                                *)
(***************************************************************************)

\* The form of what an instruction becomes: where it has a label, a call, a
\* branch and a jump, and that it ends in a jump if it does not go on to the next.
IsShaped(t, i) ==
  /\ HasLength(t, Len(t)) /\ Len(t) > 0
  /\ \A k \in 1..Len(t) :
       /\ t[k].op \notin {"ret", "throw"}
       /\ t[k].op = "label" => i.op = "label" /\ t[k].label = i.label
       /\ t[k].op = "call" => i.op = "call"
       /\ t[k].op = "bnez" => i.op = "branch" /\ k = Len(t) - 1 /\ t[k].label = i.trueLabel
       /\ t[k].op = "j" =>
            /\ k = Len(t) /\ IsTerminator(i)
            /\ i.op = "jump" => t[k].label = i.destination
            /\ i.op = "branch" => t[k].label = i.falseLabel
            /\ i.op = "return" => t[k].label = EpilogueLabel
  /\ IsTerminator(i) => t[Len(t)].op = "j"
  /\ i.op = "label" => t = <<At(i.label)>>

\* Plain instructions and two more.
LEMMA PlainAndTwo ==
  ASSUME NEW t, NEW a, NEW u, InTurn(t, a, u), Plain(a), HasLength(u, 2)
  PROVE  /\ HasLength(t, Len(t)) /\ Len(t) \in Nat /\ Len(t) > 1 /\ Len(a) = Len(t) - 2
         /\ t[Len(t) - 1] = u[1] /\ t[Len(t)] = u[2]
         /\ \A k \in 1..Len(t) : t[k].op \in {"label", "j", "bnez", "call", "ret", "throw"} =>
              k = Len(t) - 1 \/ k = Len(t)
<1> DEFINE m == Len(a)
           n == Len(t)
<1>1. /\ m \in Nat /\ HasLength(t, m + 2)
      /\ \A k \in 1..m : t[k] = a[k]
      /\ \A k \in 1..2 : t[m + k] = u[k]
  BY DEF InTurn, Joins, HasLength
<1>2. n = m + 2
  BY <1>1 DEF HasLength
<1>3. \A k \in 1..m : a[k].op \notin {"label", "j", "bnez", "call", "ret", "throw"}
  BY DEF Plain
<1> HIDE DEF m, n
<1>4. t[m + 1] = u[1] /\ t[m + 2] = u[2]
  BY <1>1
<1>5. ASSUME NEW k \in 1..n, t[k].op \in {"label", "j", "bnez", "call", "ret", "throw"}
      PROVE  k = n - 1 \/ k = n
  <2>1. ~(k \in 1..m)
    BY <1>1, <1>3, <1>5
  <2> QED
    BY <1>1, <1>2, <2>1
<1>6. n - 1 = m + 1 /\ m = n - 2 /\ n > 1 /\ n \in Nat
  BY <1>1, <1>2
<1> QED
  BY <1>1, <1>2, <1>4, <1>5, <1>6 DEF m, n

\* What loadValue, storeValue and the operators emit.
LEMMA PiecesArePlain ==
  ASSUME NEW g, IsCompilable(g)
  PROVE  /\ \A o, scratch : IsOperand(g, o) => Plain(LoadValue(g, o, scratch).emit)
         /\ \A d, source : HasPlace(g, d) => /\ Plain(StoreValue(g, d, source))
                                             /\ Len(StoreValue(g, d, source)) = 1
         /\ \A fn \in BinaryFunctions : \A l, r : Plain(Operation(fn, l, r))
<1>1. ASSUME NEW o, NEW scratch, IsOperand(g, o) PROVE Plain(LoadValue(g, o, scratch).emit)
  <2>1. \/ LoadValue(g, o, scratch).emit = <<>>
        \/ \E i : LoadValue(g, o, scratch).emit = <<i>> /\ i.op \in {"li", "ld"}
    BY <1>1, LoadAndStoreShape
  <2> QED
    BY <2>1, PlainSequences
<1>2. ASSUME NEW d, NEW source, HasPlace(g, d)
      PROVE  Plain(StoreValue(g, d, source)) /\ Len(StoreValue(g, d, source)) = 1
  <2>1. PICK j : StoreValue(g, d, source) = <<j>> /\ j.op \in {"mv", "sd"}
    BY <1>2, LoadAndStoreShape
  <2> QED
    BY <2>1, PlainSequences
<1>3. ASSUME NEW fn \in BinaryFunctions, NEW l, NEW r PROVE Plain(Operation(fn, l, r))
  <2> DEFINE t == Operation(fn, l, r)
  <2>1. /\ \A o, x, y : RR(o, "t2", x, y).op = o
        /\ R1("seqz", "t2", "t2").op = "seqz" /\ RI("xori", "t2", "t2", 1).op = "xori"
    BY DEF RR, R1, RI
  <2>2. \/ t = <<RR("xor", "t2", l, r), R1("seqz", "t2", "t2")>>
        \/ t = <<RR("slt", "t2", r, l)>>
        \/ t = <<RR("slt", "t2", r, l), RI("xori", "t2", "t2", 1)>>
        \/ t = <<RR("slt", "t2", l, r), RI("xori", "t2", "t2", 1)>>
        \/ t = <<RR(Opcode[fn], "t2", l, r)>>
            /\ Opcode[fn] \in {"add", "sub", "mul", "div", "slt", "and", "or"}
    BY DEF Operation, BinaryFunctions, Opcode
  <2>3. ASSUME NEW i, NEW j, t = <<i, j>>,
               i.op \notin {"label", "j", "bnez", "call", "ret", "throw"},
               j.op \notin {"label", "j", "bnez", "call", "ret", "throw"}
        PROVE  Plain(t)
    <3>1. HasLength(t, 2) /\ t[1] = i /\ t[2] = j
      BY <2>3, DoesTwo
    <3> HIDE DEF t
    <3> QED
      BY <2>3, <3>1 DEF Plain, HasLength
  <2> HIDE DEF t
  <2>4. ASSUME NEW i, t = <<i>>, i.op \notin {"label", "j", "bnez", "call", "ret", "throw"}
        PROVE  Plain(t)
    BY <2>4, PlainSequences
  <2> QED
    BY <2>1, <2>2, <2>3, <2>4 DEF t
<1> QED
  BY <1>1, <1>2, <1>3

-----------------------------------------------------------------------------
(***************************************************************************)
(* Calls, branches and returns.                                            *)
(***************************************************************************)

\* The argument registers are eight, and none is the one loads go through.
LEMMA ArgumentsApart ==
  /\ \A j, k \in 1..8 : Arg(j - 1) = Arg(k - 1) => j = k
  /\ \A k \in 1..8 : Arg(k - 1) # "t0"
<1>1. /\ Arg(0) = "a0" /\ Arg(1) = "a1" /\ Arg(2) = "a2" /\ Arg(3) = "a3"
      /\ Arg(4) = "a4" /\ Arg(5) = "a5" /\ Arg(6) = "a6" /\ Arg(7) = "a7"
  BY DEF Arg
<1>2. \A k \in 1..8 : k - 1 \in {0, 1, 2, 3, 4, 5, 6, 7}
  OBVIOUS
<1>3. \A j, k \in {0, 1, 2, 3, 4, 5, 6, 7} : Arg(j) = Arg(k) => j = k
  BY <1>1
<1>4. \A k \in {0, 1, 2, 3, 4, 5, 6, 7} : Arg(k) # "t0"
  BY <1>1
<1>5. ASSUME NEW j \in 1..8, NEW k \in 1..8, Arg(j - 1) = Arg(k - 1) PROVE j = k
  <2>1. j - 1 = k - 1
    BY <1>2, <1>3, <1>5
  <2> QED
    BY <2>1
<1> QED
  BY <1>2, <1>4, <1>5

\* loadValue again.
Loads(g, s, v, l, o, R) ==
  /\ Keeps(g, s, Does(l.emit, s, v), R)
  /\ Does(l.emit, s, v).regs[l.reg] = OperandIn(g, s, o)
  /\ l.reg \in R \cup SavedReg

LEMMA LoadValueLoads ==
  ASSUME NEW g, IsCompilable(g), NEW s, InBody(g, s), NEW o, IsOperand(g, o),
         NEW scratch \in Scratch, NEW v
  PROVE  Loads(g, s, v, LoadValue(g, o, scratch), o, {scratch})
<1> DEFINE l == LoadValue(g, o, scratch)
<1>1. /\ Keeps(g, s, Does(l.emit, s, v), {scratch})
      /\ Does(l.emit, s, v).regs[l.reg] = OperandIn(g, s, o)
      /\ l.reg \in {scratch} \cup SavedReg
  BY LoadLoads
<1> QED
  BY <1>1 DEF Loads

\* What one argument becomes.
Passing(g, o, k) ==
  Append(LoadValue(g, o, "t0").emit, Mv(Arg(k - 1), LoadValue(g, o, "t0").reg))

\* It puts the argument into its register.
Passes(g, t, o, k) ==
  /\ Plain(t)
  /\ \A s, v : InBody(g, s) =>
       /\ Keeps(g, s, Does(t, s, v), {"t0"} \cup {Arg(k - 1)})
       /\ Does(t, s, v).regs[Arg(k - 1)] = OperandIn(g, s, o)

LEMMA ArgumentIsLoaded ==
  ASSUME NEW g, IsCompilable(g), NEW o, IsOperand(g, o), NEW k \in 1..8
  PROVE  Passes(g, Passing(g, o, k), o, k)
<1> DEFINE l == LoadValue(g, o, "t0")
           t == Passing(g, o, k)
           r == Arg(k - 1)
           i == Mv(r, l.reg)
           a == l.emit
           u == <<i>>
<1>1. Plain(a)
  BY PiecesArePlain
<1>2. i.op = "mv" /\ i.rd = r /\ i.rs = l.reg
  BY DEF Mv, R1
<1>3. Plain(u) /\ HasLength(u, 1)
  <2> HIDE DEF i
  <2> QED
    BY <1>2, PlainSequences, DoesOne
<1>4. t = a \o u
  <2>1. a \in Seq(Range(a) \cup {i}) /\ i \in Range(a) \cup {i}
    BY <1>1 DEF Plain, HasLength
  <2>2. t = Append(a, i)
    BY DEF Passing
  <2> HIDE DEF i, a, t
  <2> QED
    BY <2>1, <2>2, AppendIsConcat, Zenon
<1> HIDE DEF a, i, t
<1>5. InTurn(t, a, u)
  BY <1>1, <1>3, <1>4, ConcatIsInTurn, Zenon DEF Plain
<1>6. Plain(t)
  BY <1>1, <1>3, <1>4, PlainSequences, Zenon
<1>7. ASSUME NEW s, NEW v, InBody(g, s)
      PROVE  /\ Keeps(g, s, Does(t, s, v), {"t0"} \cup {r})
             /\ Does(t, s, v).regs[r] = OperandIn(g, s, o)
  <2> DEFINE q == Does(a, s, v)
             z == Does(t, s, v)
  <2>1. z = Does(u, q, v)
    BY <1>5, RanInTurn
  <2>2. Does(u, q, v) = Effect(i, q, v)
    BY DoesOne
  <2>3. Effect(i, q, v) = SetRegister(q, r, q.regs[l.reg])
    BY <1>2 DEF Effect, Written
  <2> HIDE DEF z, u
  <2>4. "t0" \in Scratch
    BY ScratchRegisters
  <2>5. Keeps(g, s, q, {"t0"}) /\ q.regs[l.reg] = OperandIn(g, s, o)
    BY <1>7, <2>4, LoadValueLoads DEF a, Loads
  <2>6. InBody(g, q) /\ r \in Scratch \cup SavedReg
    BY <2>5, ScratchRegisters DEF Keeps
  <2> HIDE DEF q, r
  <2>7. Keeps(g, q, z, {r}) /\ z.regs[r] = q.regs[l.reg]
    BY <2>1, <2>2, <2>3, <2>6, WritesRegister
  <2>8. Keeps(g, s, z, {"t0"} \cup {r})
    BY <2>5, <2>7, KeepsTwice
  <2> QED
    BY <2>5, <2>7, <2>8 DEF z
<1> QED
  BY <1>6, <1>7 DEF Passes, t

\* What the arguments of a call become.
IsPassing(g, args, loads) ==
  /\ args \in Seq(Range(args)) /\ Len(args) <= 8
  /\ \A k \in 1..Len(args) : IsOperand(g, args[k]) /\ loads[k] = Passing(g, args[k], k)
  /\ loads = [k \in DOMAIN args |-> loads[k]]

\* They are put into their registers, one after another, and stay there.
AllPassed(g, args, t) ==
  /\ Plain(t)
  /\ \A s, v : InBody(g, s) =>
       /\ Keeps(g, s, Does(t, s, v), Scratch)
       /\ \A k \in 1..Len(args) :
            Does(t, s, v).regs[Arg(k - 1)] = OperandIn(g, s, args[k])

LEMMA ArgumentsAreLoaded ==
  ASSUME NEW g, IsCompilable(g), NEW args, NEW loads, IsPassing(g, args, loads)
  PROVE  AllPassed(g, args, FlattenSeq(loads))
<1> DEFINE n == Len(args)
           t == FlattenSeq(loads)
<1>1. n \in Nat /\ DOMAIN args = 1..n /\ \A k \in 1..n : k \in 1..8
  BY DEF IsPassing
<1>2. ASSUME NEW k \in 1..n
      PROVE  Passes(g, loads[k], args[k], k)
  <2>1. k \in 1..8 /\ IsOperand(g, args[k]) /\ loads[k] = Passing(g, args[k], k)
    BY <1>1 DEF IsPassing
  <2> QED
    BY <2>1, ArgumentIsLoaded
<1> DEFINE S == UNION { Range(loads[k]) : k \in 1..n }
<1>3. loads \in Seq(Seq(S)) /\ Len(loads) = n
  <2>1. \A k \in 1..n : loads[k] \in Seq(S)
    <3> TAKE k \in 1..n
    <3>1. loads[k] \in Seq(Range(loads[k]))
      BY <1>2 DEF Passes, Plain, HasLength
    <3>2. Range(loads[k]) \subseteq S
      OBVIOUS
    <3> HIDE DEF S
    <3> QED
      BY <3>1, <3>2
  <2> HIDE DEF S, n
  <2>2. loads = [k \in 1..n |-> loads[k]]
    BY <1>1 DEF IsPassing
  <2> QED
    BY <1>1, <2>1, <2>2
<1> HIDE DEF S, n, t
<1>4. PICK joined : /\ t = joined[n] /\ joined[0] = <<>>
                    /\ \A k \in 1..n : joined[k] = joined[k - 1] \o loads[k]
  BY <1>3, FlattenUnfold, Zenon DEF t
<1> DEFINE Loaded(k, a) ==
             /\ Plain(a)
             /\ \A s, v : InBody(g, s) =>
                  /\ Keeps(g, s, Does(a, s, v), Scratch)
                  /\ \A j \in 1..k : Does(a, s, v).regs[Arg(j - 1)] = OperandIn(g, s, args[j])
           T == { k \in 0..n : Loaded(k, joined[k]) }
<1>5. 0 \in T
  <2> DEFINE a == joined[0]
  <2>1. a = <<>> /\ Plain(a)
    BY <1>4, PlainSequences
  <2>2. \A s, v : Does(a, s, v) = s
    BY <2>1, DoesNone
  <2> HIDE DEF a
  <2>3. Loaded(0, a)
    BY <2>1, <2>2 DEF Keeps
  <2> QED
    BY <1>1, <2>3 DEF a
<1>6. ASSUME NEW k \in 0..(n - 1), k \in T PROVE k + 1 \in T
  <2> DEFINE a == joined[k]
             b == joined[k + 1]
             u == loads[k + 1]
             m == k + 1
             r == Arg(m - 1)
  <2>1. m \in 1..n /\ m \in 0..n /\ m \in 1..8 /\ m - 1 = k /\ k \in Nat /\ m = k + 1
    BY <1>1
  <2>2. b = a \o u
    BY <1>4, <2>1
  <2>3. Plain(a) /\ Plain(u)
    BY <1>2, <1>6, <2>1 DEF Passes
  <2>4. InTurn(b, a, u)
    BY <2>2, <2>3, ConcatIsInTurn, Zenon DEF Plain
  <2>5. Plain(b)
    BY <2>2, <2>3, PlainSequences, Zenon
  <2>6. \A s, v : InBody(g, s) =>
          /\ Keeps(g, s, Does(a, s, v), Scratch)
          /\ \A j \in 1..k : Does(a, s, v).regs[Arg(j - 1)] = OperandIn(g, s, args[j])
    BY <1>6
  <2>7. \A s, v : InBody(g, s) =>
          /\ Keeps(g, s, Does(u, s, v), {"t0"} \cup {r})
          /\ Does(u, s, v).regs[r] = OperandIn(g, s, args[m])
    BY <1>2, <2>1 DEF Passes
  <2>8. {"t0"} \cup {r} \subseteq Scratch
    BY <2>1, ScratchRegisters
  <2>9. IsOperand(g, args[m])
    BY <2>1 DEF n, IsPassing
  <2> HIDE DEF a, b, u, m
  <2>10. ASSUME NEW s, NEW v, InBody(g, s)
         PROVE  /\ Keeps(g, s, Does(b, s, v), Scratch)
                /\ \A j \in 1..m : Does(b, s, v).regs[Arg(j - 1)] = OperandIn(g, s, args[j])
    <3> DEFINE q == Does(a, s, v)
               z == Does(b, s, v)
    <3>1. Keeps(g, s, q, Scratch)
          /\ \A j \in 1..k : q.regs[Arg(j - 1)] = OperandIn(g, s, args[j])
      BY <2>6, <2>10
    <3>2. z = Does(u, q, v)
      BY <2>4, RanInTurn
    <3>3. Keeps(g, q, z, {"t0"} \cup {r}) /\ z.regs[r] = OperandIn(g, q, args[m])
      BY <2>7, <3>1, <3>2 DEF Keeps
    <3> HIDE DEF q, z
    <3>4. OperandIn(g, q, args[m]) = OperandIn(g, s, args[m])
      BY <2>9, <2>10, <3>1, KeepsPlaces
    <3>5. Keeps(g, s, z, Scratch)
      BY <2>8, <3>1, <3>3 DEF Keeps
    <3>6. ASSUME NEW j \in 1..m PROVE z.regs[Arg(j - 1)] = OperandIn(g, s, args[j])
      <4>1. CASE j = m
        BY <3>3, <3>4, <4>1
      <4>2. CASE j # m
        <5>1. j \in 1..k /\ j \in 1..8
          BY <1>1, <2>1, <4>2
        <5>2. Arg(j - 1) # r /\ Arg(j - 1) # "t0" /\ Arg(j - 1) \in Registers
          BY <2>1, <4>2, <5>1, ArgumentsApart, ScratchRegisters, RegistersApart
        <5> HIDE DEF r
        <5>3. z.regs[Arg(j - 1)] = q.regs[Arg(j - 1)]
          BY <3>3, <5>2 DEF Keeps
        <5> QED
          BY <3>1, <5>1, <5>3
      <4> QED
        BY <4>1, <4>2
    <3> QED
      BY <3>5, <3>6 DEF z
  <2>11. Loaded(m, b)
    BY <2>5, <2>10
  <2> HIDE DEF Loaded
  <2>12. Loaded(m, joined[m])
    BY <2>11 DEF b, m
  <2> QED
    BY <2>1, <2>12
<1> HIDE DEF Loaded
<1>7. n \in T
  <2> HIDE DEF T
  <2>1. 0..n \subseteq T
    BY <1>1, <1>5, <1>6, IntervalInduction
  <2> QED
    BY <1>1, <2>1
<1>8. Loaded(n, t)
  BY <1>4, <1>7
<1> QED
  BY <1>8 DEF Loaded, n, t, AllPassed

\* The operands of i and what it writes have places.
IsPlaced(g, i) ==
  /\ \A o \in Operands(i) : IsOperand(g, o)
  /\ \A d \in GetDestination(i) : HasPlace(g, d)

\* A call: the arguments, the call itself, and what it returns put in place.
LEMMA CallIsMadeOf ==
  ASSUME NEW g, IsCompilable(g), NEW i, IsInstruction(i), IsPlaced(g, i), i.op = "call"
  PROVE  \E args, w :
           LET u == <<CallTo(i.functionName, Len(i.arguments))>>
               store == StoreValue(g, i.destination, Arg(0))
           IN  /\ InTurn(w, args, u) /\ InTurn(GenerateInstruction(g, i), w, store)
               /\ Plain(store) /\ Len(store) = 1
               /\ AllPassed(g, i.arguments, args)
<1> DEFINE u == <<CallTo(i.functionName, Len(i.arguments))>>
           store == StoreValue(g, i.destination, Arg(0))
           loads == [k \in DOMAIN i.arguments |->
                       LET arg == LoadValue(g, i.arguments[k], "t0")
                       IN  Append(arg.emit, Mv(ArgumentRegister(k), arg.reg))]
           args == FlattenSeq(loads)
           w == args \o u
           t == GenerateInstruction(g, i)
<1>1. i.arguments \in Seq(Range(i.arguments)) /\ Len(i.arguments) <= 8
  BY DEF IsInstruction, MaxArguments
<1>2. t = w \o store
  <2>1. ~(Len(i.arguments) > MaxArguments)
    BY <1>1 DEF MaxArguments
  <2> QED
    BY <2>1 DEF GenerateInstruction, GenerateCall
<1>3. \A k \in 1..Len(i.arguments) : IsOperand(g, i.arguments[k])
  <2>1. \A k \in 1..Len(i.arguments) : i.arguments[k] \in Range(i.arguments)
    BY <1>1 DEF Range
  <2> QED
    BY <2>1 DEF IsPlaced, Operands
<1>4. /\ DOMAIN loads = DOMAIN i.arguments /\ loads = [k \in DOMAIN i.arguments |-> loads[k]]
      /\ \A k \in 1..Len(i.arguments) : loads[k] = Passing(g, i.arguments[k], k)
  <2>1. DOMAIN loads = DOMAIN i.arguments /\ loads = [k \in DOMAIN i.arguments |-> loads[k]]
    OBVIOUS
  <2>2. \A k \in DOMAIN i.arguments : loads[k] = Passing(g, i.arguments[k], k)
    BY DEF Passing, ArgumentRegister
  <2>3. DOMAIN i.arguments = 1..Len(i.arguments)
    BY <1>1
  <2> QED
    BY <2>1, <2>2, <2>3
<1>5. HasPlace(g, i.destination)
  BY DEF IsPlaced, GetDestination
<1>6. Plain(store) /\ Len(store) = 1
  BY <1>5, PiecesArePlain
<1>7. HasLength(u, 1)
  BY DoesOne
<1>8. AllPassed(g, i.arguments, args)
  <2>1. IsPassing(g, i.arguments, loads)
    BY <1>1, <1>3, <1>4 DEF IsPassing
  <2> HIDE DEF loads
  <2> QED
    BY <2>1, ArgumentsAreLoaded
<1> HIDE DEF loads, u, store, t
<1> HIDE DEF args
<1>9. InTurn(w, args, u)
  <2>1. HasLength(args, Len(args)) /\ HasLength(u, Len(u))
    BY <1>7, <1>8 DEF AllPassed, Plain, HasLength
  <2> QED
    BY <2>1, ConcatIsInTurn, Zenon
<1>10. HasLength(w, Len(w))
  <2> HIDE DEF w
  <2> QED
    BY <1>9 DEF InTurn, Joins, HasLength
<1>11. InTurn(t, w, store)
  <2>1. HasLength(store, Len(store))
    BY <1>6 DEF Plain
  <2> QED
    BY <1>2, <1>10, <2>1, ConcatIsInTurn, Zenon
<1> HIDE DEF w
<1> QED
  BY <1>6, <1>8, <1>9, <1>11 DEF u, store, t

\* A branch and a return: the operand, and two instructions more.
LEMMA LeavingIsMadeOf ==
  ASSUME NEW g, IsCompilable(g), NEW i, IsPlaced(g, i)
  PROVE  /\ i.op = "branch" =>
              LET l == LoadValue(g, i.condition, "t0")
              IN  /\ Plain(l.emit)
                  /\ InTurn(GenerateInstruction(g, i), l.emit,
                            <<Bnez(l.reg, i.trueLabel), J(i.falseLabel)>>)
         /\ i.op = "return" =>
              LET l == LoadValue(g, i.value, "t0")
              IN  /\ Plain(l.emit)
                  /\ InTurn(GenerateInstruction(g, i), l.emit,
                            <<Mv(Arg(0), l.reg), J(EpilogueLabel)>>)
<1>1. ASSUME NEW a, NEW x, NEW y, Plain(a) PROVE InTurn(a \o <<x, y>>, a, <<x, y>>)
  <2> DEFINE u == <<x, y>>
  <2>1. HasLength(u, 2)
    BY DoesTwo
  <2> HIDE DEF u
  <2>2. HasLength(u, Len(u)) /\ HasLength(a, Len(a))
    BY <1>1, <2>1 DEF HasLength, Plain
  <2>3. InTurn(a \o u, a, u)
    BY <2>2, ConcatIsInTurn, Zenon
  <2> QED
    BY <2>3, Zenon DEF u
<1>2. ASSUME i.op = "branch"
      PROVE  LET l == LoadValue(g, i.condition, "t0")
             IN  /\ Plain(l.emit)
                 /\ InTurn(GenerateInstruction(g, i), l.emit,
                           <<Bnez(l.reg, i.trueLabel), J(i.falseLabel)>>)
  <2> DEFINE l == LoadValue(g, i.condition, "t0")
             t == GenerateInstruction(g, i)
  <2>1. t = l.emit \o <<Bnez(l.reg, i.trueLabel), J(i.falseLabel)>>
    BY <1>2 DEF GenerateInstruction, GenerateBranch
  <2>2. IsOperand(g, i.condition)
    BY <1>2 DEF IsPlaced, Operands
  <2>3. Plain(l.emit)
    BY <2>2, PiecesArePlain
  <2> HIDE DEF l, t
  <2>4. InTurn(t, l.emit, <<Bnez(l.reg, i.trueLabel), J(i.falseLabel)>>)
    BY <1>1, <2>1, <2>3, Zenon
  <2> QED
    BY <2>3, <2>4, Zenon DEF l, t
<1>3. ASSUME i.op = "return"
      PROVE  LET l == LoadValue(g, i.value, "t0")
             IN  /\ Plain(l.emit)
                 /\ InTurn(GenerateInstruction(g, i), l.emit,
                           <<Mv(Arg(0), l.reg), J(EpilogueLabel)>>)
  <2> DEFINE l == LoadValue(g, i.value, "t0")
             t == GenerateInstruction(g, i)
  <2>1. t = l.emit \o <<Mv(Arg(0), l.reg), J(EpilogueLabel)>>
    BY <1>3 DEF GenerateInstruction, GenerateReturn
  <2>2. IsOperand(g, i.value)
    BY <1>3 DEF IsPlaced, Operands
  <2>3. Plain(l.emit)
    BY <2>2, PiecesArePlain
  <2> HIDE DEF l, t
  <2>4. InTurn(t, l.emit, <<Mv(Arg(0), l.reg), J(EpilogueLabel)>>)
    BY <1>1, <2>1, <2>3, Zenon
  <2> QED
    BY <2>3, <2>4, Zenon DEF l, t
<1> QED
  BY <1>2, <1>3, Zenon

\* Instructions that compute are plain sequences.
LEMMA WritersArePlain ==
  ASSUME NEW g, IsCompilable(g), NEW i, IsInstruction(i), IsPlaced(g, i),
         i.op \in {"const", "move", "binop", "unary"}
  PROVE  Plain(GenerateInstruction(g, i)) /\ Len(GenerateInstruction(g, i)) > 0
<1> DEFINE d == i.destination
           t == GenerateInstruction(g, i)
           goal == Plain(t) /\ Len(t) > 0
<1>1. HasPlace(g, d)
  BY DEF IsPlaced, GetDestination
<1>2. \A a, b : Plain(a) /\ Plain(b) => Plain(a \o b)
  BY PlainSequences
<1>3. \A source : Plain(StoreValue(g, d, source)) /\ Len(StoreValue(g, d, source)) = 1
  BY <1>1, PiecesArePlain
<1>4. \A o, scratch : IsOperand(g, o) => Plain(LoadValue(g, o, scratch).emit)
  BY PiecesArePlain
<1>5. ASSUME NEW a, NEW source, Plain(a), t = a \o StoreValue(g, d, source) PROVE goal
  <2> DEFINE store == StoreValue(g, d, source)
  <2>1. InTurn(t, a, store) /\ Plain(t)
    BY <1>2, <1>3, <1>5, ConcatIsInTurn, Zenon DEF Plain
  <2>2. Len(store) = 1
    BY <1>3
  <2> HIDE DEF t, store
  <2>3. Len(t) = Len(a) + Len(store) /\ Len(a) \in Nat
    BY <2>1 DEF InTurn, Joins, HasLength
  <2> QED
    BY <2>1, <2>2, <2>3
<1> SUFFICES goal
  OBVIOUS
<1> HIDE DEF goal
<1>6. CASE i.op = "const"
  <2>1. CASE d \in DOMAIN g.registers
    <3> DEFINE j == Li(g.registers[d], i.value.value)
    <3>1. t = <<j>> /\ j.op = "li"
      BY <1>6, <2>1 DEF GenerateInstruction, GenerateConst, IsCompilable, Li
    <3> HIDE DEF t, j
    <3> QED
      BY <3>1, PlainSequences, DoesOne DEF goal, HasLength
  <2>2. CASE d \notin DOMAIN g.registers
    <3> DEFINE j == Li("t0", i.value.value)
               a == <<j>>
    <3>1. t = a \o StoreValue(g, d, "t0") /\ j.op = "li"
      BY <1>1, <1>6, <2>2 DEF GenerateInstruction, GenerateConst, HasPlace, StoreValue, Li
    <3> HIDE DEF t, j
    <3>2. Plain(a)
      BY <3>1, PlainSequences
    <3> QED
      BY <1>5, <3>1, <3>2, Zenon
  <2> QED
    BY <2>1, <2>2
<1>7. CASE i.op = "move"
  <2> DEFINE l == LoadValue(g, i.source, "t0")
  <2>1. t = l.emit \o StoreValue(g, d, l.reg)
    BY <1>7 DEF GenerateInstruction, GenerateMove
  <2>2. Plain(l.emit)
    BY <1>4, <1>7 DEF IsPlaced, Operands
  <2> QED
    BY <1>5, <2>1, <2>2, Zenon
<1>8. CASE i.op = "unary"
  <2> DEFINE l == LoadValue(g, i.value, "t0")
             j == R1(IF i.fn = "Negation" THEN "neg" ELSE "seqz", "t1", l.reg)
             a == l.emit \o <<j>>
  <2>1. t = a \o StoreValue(g, d, "t1")
    BY <1>8 DEF GenerateInstruction, GenerateUnaryOp
  <2>2. Plain(l.emit)
    BY <1>4, <1>8 DEF IsPlaced, Operands
  <2>3. j.op \in {"neg", "seqz"}
    BY DEF R1
  <2> HIDE DEF j, l, t
  <2>4. Plain(<<j>>)
    BY <2>3, PlainSequences
  <2>5. Plain(a)
    BY <1>2, <2>2, <2>4, Zenon
  <2> QED
    BY <1>5, <2>1, <2>5, Zenon
<1>9. CASE i.op = "binop"
  <2> DEFINE left == LoadValue(g, i.leftVal, "t0")
             right == LoadValue(g, i.rightVal, SecondScratch)
             operation == Operation(i.fn, left.reg, right.reg)
             both == left.emit \o right.emit
             a == both \o operation
  <2>1. t = a \o StoreValue(g, d, "t2")
    BY <1>9 DEF GenerateInstruction, GenerateBinOp
  <2>2. Plain(left.emit) /\ Plain(right.emit)
    BY <1>4, <1>9 DEF IsPlaced, Operands
  <2>3. Plain(operation)
    <3>1. i.fn \in BinaryFunctions
      BY <1>9 DEF IsInstruction, BinaryFunctions
    <3> QED
      BY <3>1, PiecesArePlain
  <2> HIDE DEF left, right, operation, t
  <2>4. Plain(both)
    BY <1>2, <2>2, Zenon
  <2>5. Plain(a)
    BY <1>2, <2>3, <2>4, Zenon
  <2> QED
    BY <1>5, <2>1, <2>5, Zenon
<1> QED
  BY <1>6, <1>7, <1>8, <1>9 DEF goal

\* What any instruction becomes has the form above.
LEMMA GeneratedIsShaped ==
  ASSUME NEW g, IsCompilable(g), NEW i, IsInstruction(i), IsPlaced(g, i)
  PROVE  IsShaped(GenerateInstruction(g, i), i)
<1> DEFINE t == GenerateInstruction(g, i)
<1>1. CASE i.op \in {"const", "move", "binop", "unary"}
  <2>1. Plain(t) /\ Len(t) > 0
    BY <1>1, WritersArePlain
  <2> HIDE DEF t
  <2>2. IsShaped(t, i)
    BY <1>1, <2>1 DEF Plain, IsShaped, IsTerminator
  <2> QED
    BY <2>2 DEF t
<1>2. CASE i.op \in {"label", "jump"}
  <2> DEFINE x == IF i.op = "label" THEN At(i.label) ELSE J(i.destination)
  <2>1. /\ t = <<x>>
        /\ i.op = "label" => x = At(i.label)
        /\ i.op = "label" => x.op = "label" /\ x.label = i.label
        /\ i.op = "jump" => x.op = "j" /\ x.label = i.destination
    BY <1>2 DEF GenerateInstruction, At, J
  <2> HIDE DEF t, x
  <2>2. HasLength(t, 1) /\ t[1] = x
    BY <2>1, DoesOne
  <2>3. IsShaped(t, i)
    BY <1>2, <2>1, <2>2 DEF HasLength, IsShaped, IsTerminator
  <2> QED
    BY <2>3 DEF t
<1>3. CASE i.op = "branch"
  <2> DEFINE l == LoadValue(g, i.condition, "t0")
             x == Bnez(l.reg, i.trueLabel)
             y == J(i.falseLabel)
             u == <<x, y>>
             a == l.emit
  <2>1. Plain(a) /\ InTurn(t, a, u)
    BY <1>3, LeavingIsMadeOf
  <2>2. /\ x.op = "bnez" /\ x.label = i.trueLabel /\ y.op = "j" /\ y.label = i.falseLabel
        /\ HasLength(u, 2) /\ u[1] = x /\ u[2] = y
    BY DoesTwo DEF Bnez, J
  <2> HIDE DEF t, a, x, y, u
  <2>3. /\ HasLength(t, Len(t)) /\ Len(t) \in Nat /\ Len(t) > 1
        /\ t[Len(t) - 1] = x /\ t[Len(t)] = y
        /\ \A k \in 1..Len(t) : t[k].op \in {"label", "j", "bnez", "call", "ret", "throw"} =>
             k = Len(t) - 1 \/ k = Len(t)
    BY <2>1, <2>2, PlainAndTwo
  <2>4. IsShaped(t, i)
    BY <1>3, <2>2, <2>3 DEF IsShaped, IsTerminator
  <2> QED
    BY <2>4 DEF t
<1>4. CASE i.op = "return"
  <2> DEFINE l == LoadValue(g, i.value, "t0")
             x == Mv(Arg(0), l.reg)
             y == J(EpilogueLabel)
             u == <<x, y>>
             a == l.emit
  <2>1. Plain(a) /\ InTurn(t, a, u)
    BY <1>4, LeavingIsMadeOf
  <2>2. /\ x.op = "mv" /\ y.op = "j" /\ y.label = EpilogueLabel
        /\ HasLength(u, 2) /\ u[1] = x /\ u[2] = y
    BY DoesTwo DEF Mv, R1, J
  <2> HIDE DEF t, a, x, y, u
  <2>3. /\ HasLength(t, Len(t)) /\ Len(t) \in Nat /\ Len(t) > 1
        /\ t[Len(t) - 1] = x /\ t[Len(t)] = y
        /\ \A k \in 1..Len(t) : t[k].op \in {"label", "j", "bnez", "call", "ret", "throw"} =>
             k = Len(t) - 1 \/ k = Len(t)
    BY <2>1, <2>2, PlainAndTwo
  <2>4. IsShaped(t, i)
    BY <1>4, <2>2, <2>3 DEF IsShaped, IsTerminator
  <2> QED
    BY <2>4 DEF t
<1>5. CASE i.op = "call"
  <2> DEFINE c == CallTo(i.functionName, Len(i.arguments))
             u == <<c>>
             store == StoreValue(g, i.destination, Arg(0))
  <2>1. PICK args, w : /\ InTurn(w, args, u) /\ InTurn(t, w, store) /\ Plain(args)
                       /\ Plain(store) /\ Len(store) = 1
    BY <1>5, CallIsMadeOf, Zenon DEF AllPassed
  <2>2. c.op = "call" /\ HasLength(u, 1) /\ u[1] = c
    BY DoesOne DEF CallTo
  <2> HIDE DEF t, c, u, store
  <2> DEFINE m == Len(args)
             n == Len(t)
  <2>3. /\ m \in Nat /\ Len(w) = m + 1
        /\ \A k \in 1..m : w[k] = args[k]
        /\ \A k \in 1..1 : w[m + k] = u[k]
    BY <2>1, <2>2 DEF InTurn, Joins, HasLength
  <2>4. /\ n = m + 1 + 1 /\ HasLength(t, n)
        /\ \A k \in 1..(m + 1) : t[k] = w[k]
        /\ \A k \in 1..1 : t[m + 1 + k] = store[k]
    BY <2>1, <2>3 DEF InTurn, Joins, HasLength
  <2>5. ASSUME NEW k \in 1..n
        PROVE  t[k].op \notin {"label", "j", "bnez", "ret", "throw"}
    <3> HIDE DEF m, n
    <3>1. CASE k \in 1..m
      <4>1. t[k] = args[k]
        BY <2>3, <2>4, <3>1
      <4> QED
        BY <2>1, <3>1, <4>1 DEF Plain, m
    <3>2. CASE k = m + 1
      <4>1. t[k] = c
        BY <2>2, <2>3, <2>4, <3>2
      <4> QED
        BY <2>2, <4>1
    <3>3. CASE k = m + 1 + 1
      <4>1. t[k] = store[1]
        BY <2>3, <2>4, <3>3
      <4> QED
        BY <2>1, <4>1 DEF Plain
    <3> QED
      BY <2>3, <2>4, <3>1, <3>2, <3>3
  <2>6. IsShaped(t, i)
    BY <1>5, <2>3, <2>4, <2>5 DEF IsShaped, IsTerminator
  <2> QED
    BY <2>6 DEF t
<1> QED
  BY <1>1, <1>2, <1>3, <1>4, <1>5 DEF IsInstruction

-----------------------------------------------------------------------------
(***************************************************************************)
(* What an instruction becomes carries it out.                             *)
(***************************************************************************)

\* What i should do: the name it writes has its value, and the places apart
\* from it are as they were.
Settled(g, s, t, e, i, v) ==
  /\ InBody(g, t)
  /\ \A d \in GetDestination(i) : In(g, t, d) = ResultOf(e, i, v)
  /\ \A y : HasPlace(g, y) /\ (\A d \in GetDestination(i) : Apart(g, d, y)) =>
       In(g, t, y) = In(g, s, y)

\* What x, a call, a branch or the last jump, finds in the registers.
FindsItsValues(e, i, x, s) ==
  /\ x.op = "call" =>
       \A k \in 1..Len(i.arguments) : s.regs[Arg(k - 1)] = ValueOf(e, i.arguments[k])
  /\ x.op = "bnez" => s.regs[x.rs] = ValueOf(e, i.condition)
  /\ x.op = "j" /\ i.op = "return" => s.regs[Arg(0)] = ValueOf(e, i.value)

\* t does what i does.
CarriesOut(g, s, e, i, v, t) ==
  /\ Settled(g, s, Does(t, s, v), e, i, v)
  /\ \A k \in 1..Len(t) : FindsItsValues(e, i, t[k], Ran(t, s, v)[k - 1])

\* An instruction that writes nothing and leaves the places alone.
LEMMA NothingWritten ==
  ASSUME NEW g, IsCompilable(g), NEW s, InBody(g, s), NEW t, Keeps(g, s, t, Scratch),
         NEW e, NEW i, GetDestination(i) = {}, NEW v
  PROVE  Settled(g, s, t, e, i, v)
<1>1. \A y : HasPlace(g, y) => In(g, t, y) = In(g, s, y)
  <2>1. Scratch \in SUBSET (Scratch \cup {"ra"})
    OBVIOUS
  <2> QED
    BY <2>1, KeepsPlaces
<1> QED
  BY <1>1 DEF Settled, Keeps

\* The first instructions of two in a row.
LEMMA RanInPlain ==
  ASSUME NEW t, NEW a, NEW x, NEW y, InTurn(t, a, <<x, y>>), Plain(a), NEW s, NEW v
  PROVE  LET n == Len(t)
             q == Does(a, s, v)
         IN  /\ HasLength(t, n) /\ n \in Nat /\ n > 1 /\ t[n - 1] = x /\ t[n] = y
             /\ \A k \in 1..n : t[k].op \in {"label", "j", "bnez", "call", "ret", "throw"} =>
                  k = n - 1 \/ k = n
             /\ Ran(t, s, v)[n - 2] = q
             /\ Ran(t, s, v)[n - 1] = Effect(x, q, v)
             /\ Does(t, s, v) = Effect(y, Effect(x, q, v), v)
<1> DEFINE u == <<x, y>>
           n == Len(t)
           m == Len(a)
           q == Does(a, s, v)
<1>1. /\ HasLength(u, 2) /\ u[1] = x /\ u[2] = y
      /\ Ran(u, q, v)[1] = Effect(x, q, v)
      /\ Does(u, q, v) = Effect(y, Effect(x, q, v), v)
  BY DoesTwo
<1>2. InTurn(t, a, u)
  OBVIOUS
<1> HIDE DEF u
<1>3. /\ HasLength(t, n) /\ n \in Nat /\ n > 1 /\ m = n - 2 /\ t[n - 1] = x /\ t[n] = y
      /\ \A k \in 1..n : t[k].op \in {"label", "j", "bnez", "call", "ret", "throw"} =>
           k = n - 1 \/ k = n
  BY <1>1, <1>2, PlainAndTwo
<1>4. /\ m \in Nat /\ \A k \in 0..m : Ran(t, s, v)[k] = Ran(a, s, v)[k]
      /\ \A k \in 0..Len(u) : Ran(t, s, v)[m + k] = Ran(u, Does(a, s, v), v)[k]
      /\ Does(t, s, v) = Does(u, Does(a, s, v), v)
  BY <1>2, RanInTurn
<1>5. Len(u) = 2
  BY <1>1 DEF HasLength
<1>6. Does(t, s, v) = Effect(y, Effect(x, q, v), v)
  BY <1>1, <1>4
<1>7. Ran(t, s, v)[m] = q
  <2>1. m \in 0..m
    BY <1>4
  <2> QED
    BY <1>4, <2>1 DEF Does
<1> HIDE DEF q, m, n
<1>8. Ran(t, s, v)[m + 1] = Effect(x, q, v)
  <2>1. 1 \in 0..Len(u)
    BY <1>5
  <2> QED
    BY <1>1, <1>4, <2>1 DEF q
<1>9. m + 1 = n - 1
  BY <1>3
<1> QED
  BY <1>3, <1>6, <1>7, <1>8, <1>9 DEF m, n, q

\* What an instruction becomes carries it out.
LEMMA GeneratedCarriesOut ==
  ASSUME NEW g, IsCompilable(g), NEW s, NEW e, NEW i, Ready(g, s, e, i), NEW v
  PROVE  CarriesOut(g, s, e, i, v, GenerateInstruction(g, i))
<1> DEFINE t == GenerateInstruction(g, i)
           z == Does(t, s, v)
<1>1. InBody(g, s) /\ IsInstruction(i) /\ IsPlaced(g, i)
  BY DEF Ready, IsPlaced
<1>2. CASE i.op \in {"const", "move", "binop", "unary"}
  <2>1. Plain(t) /\ Puts(g, s, z, i.destination, ResultOf(e, i, v))
    BY <1>2, WritersCompute
  <2>2. GetDestination(i) = {i.destination}
    BY <1>2 DEF GetDestination
  <2> HIDE DEF z, t
  <2>3. Settled(g, s, z, e, i, v)
    BY <2>1, <2>2 DEF Settled, Puts
  <2>4. \A k \in 1..Len(t) : FindsItsValues(e, i, t[k], Ran(t, s, v)[k - 1])
    BY <2>1 DEF Plain, FindsItsValues
  <2> QED
    BY <2>3, <2>4 DEF CarriesOut, z, t
<1>3. CASE i.op \in {"label", "jump"}
  <2>1. PICK x : t = <<x>> /\ x.op \in {"label", "j"}
    BY <1>3 DEF GenerateInstruction, At, J
  <2>2. GetDestination(i) = {}
    BY <1>3 DEF GetDestination
  <2> HIDE DEF t
  <2>3. HasLength(t, 1) /\ t[1] = x /\ z = Effect(x, s, v)
    BY <2>1, DoesOne
  <2>4. z = s
    BY <2>1, <2>3 DEF Effect
  <2> HIDE DEF z
  <2>5. Settled(g, s, z, e, i, v)
    BY <1>1, <2>2, <2>4 DEF Settled
  <2>6. \A k \in 1..Len(t) : FindsItsValues(e, i, t[k], Ran(t, s, v)[k - 1])
    <3>1. \A k \in 1..Len(t) : t[k] = x
      BY <2>3 DEF HasLength
    <3> QED
      BY <1>3, <2>1, <3>1 DEF FindsItsValues
  <2> QED
    BY <2>5, <2>6 DEF CarriesOut, z, t
<1>4. CASE i.op = "branch"
  <2> DEFINE l == LoadValue(g, i.condition, "t0")
             x == Bnez(l.reg, i.trueLabel)
             y == J(i.falseLabel)
             q == Does(l.emit, s, v)
             n == Len(t)
  <2>1. Plain(l.emit) /\ InTurn(t, l.emit, <<x, y>>)
    BY <1>1, <1>4, LeavingIsMadeOf
  <2>2. x.op = "bnez" /\ x.rs = l.reg /\ y.op = "j"
    BY DEF Bnez, J
  <2>3. Keeps(g, s, q, {"t0"}) /\ q.regs[l.reg] = ValueOf(e, i.condition)
    <3>1. IsOperand(g, i.condition) /\ OperandIn(g, s, i.condition) = ValueOf(e, i.condition)
      BY <1>4 DEF Ready, Operands
    <3>2. "t0" \in Scratch
      BY ScratchRegisters
    <3> HIDE DEF l
    <3>3. Loads(g, s, v, l, i.condition, {"t0"})
      BY <1>1, <3>1, <3>2, LoadValueLoads DEF l
    <3> QED
      BY <3>1, <3>3 DEF Loads
  <2> HIDE DEF x, y, l, t
  <2>4. /\ n \in Nat /\ n > 1 /\ t[n - 1] = x /\ t[n] = y
        /\ \A k \in 1..n : t[k].op \in {"label", "j", "bnez", "call", "ret", "throw"} =>
             k = n - 1 \/ k = n
        /\ Ran(t, s, v)[n - 2] = q
        /\ Ran(t, s, v)[n - 1] = Effect(x, q, v)
        /\ z = Effect(y, Effect(x, q, v), v)
    BY <2>1, RanInPlain
  <2>5. z = q
    BY <2>2, <2>4 DEF Effect
  <2> HIDE DEF z, q, n
  <2>6. Settled(g, s, z, e, i, v)
    <3>1. GetDestination(i) = {}
      BY <1>4 DEF GetDestination
    <3>2. Keeps(g, s, z, Scratch)
      BY <2>3, <2>5, ScratchRegisters DEF Keeps
    <3> QED
      BY <1>1, <3>1, <3>2, NothingWritten
  <2>7. ASSUME NEW k \in 1..n PROVE FindsItsValues(e, i, t[k], Ran(t, s, v)[k - 1])
    <3>1. CASE k = n - 1
      <4>1. t[k] = x /\ k - 1 = n - 2
        BY <2>4, <3>1
      <4> QED
        BY <2>2, <2>3, <2>4, <4>1 DEF FindsItsValues
    <3>2. CASE k = n
      BY <1>4, <2>2, <2>4, <3>2 DEF FindsItsValues
    <3>3. CASE k # n - 1 /\ k # n
      BY <2>4, <3>3 DEF FindsItsValues
    <3> QED
      BY <3>1, <3>2, <3>3
  <2> QED
    BY <2>6, <2>7 DEF CarriesOut, z, n, t
<1>5. CASE i.op = "return"
  <2> DEFINE l == LoadValue(g, i.value, "t0")
             x == Mv(Arg(0), l.reg)
             y == J(EpilogueLabel)
             q == Does(l.emit, s, v)
             n == Len(t)
             a0 == Arg(0)
  <2>1. Plain(l.emit) /\ InTurn(t, l.emit, <<x, y>>)
    BY <1>1, <1>5, LeavingIsMadeOf
  <2>2. x.op = "mv" /\ x.rd = a0 /\ x.rs = l.reg /\ y.op = "j"
    BY DEF Mv, R1, J
  <2>3. Keeps(g, s, q, {"t0"}) /\ q.regs[l.reg] = ValueOf(e, i.value)
    <3>1. IsOperand(g, i.value) /\ OperandIn(g, s, i.value) = ValueOf(e, i.value)
      BY <1>5 DEF Ready, Operands
    <3>2. "t0" \in Scratch
      BY ScratchRegisters
    <3> HIDE DEF l
    <3>3. Loads(g, s, v, l, i.value, {"t0"})
      BY <1>1, <3>1, <3>2, LoadValueLoads DEF l
    <3> QED
      BY <3>1, <3>3 DEF Loads
  <2> HIDE DEF x, y, l, t
  <2>4. /\ n \in Nat /\ n > 1 /\ t[n - 1] = x /\ t[n] = y
        /\ \A k \in 1..n : t[k].op \in {"label", "j", "bnez", "call", "ret", "throw"} =>
             k = n - 1 \/ k = n
        /\ Ran(t, s, v)[n - 2] = q
        /\ Ran(t, s, v)[n - 1] = Effect(x, q, v)
        /\ z = Effect(y, Effect(x, q, v), v)
    BY <2>1, RanInPlain
  <2>5. z = Effect(x, q, v)
    BY <2>2, <2>4 DEF Effect
  <2>6. Effect(x, q, v) = SetRegister(q, a0, q.regs[l.reg])
    BY <2>2 DEF Effect, Written
  <2>7. InBody(g, q) /\ a0 \in Scratch \cup SavedReg /\ {"t0"} \cup {a0} \subseteq Scratch
    BY <2>3, ScratchRegisters DEF Keeps
  <2> HIDE DEF z, q, n, a0
  <2>8. Keeps(g, q, z, {a0}) /\ z.regs[a0] = q.regs[l.reg]
    BY <2>5, <2>6, <2>7, WritesRegister
  <2>9. Settled(g, s, z, e, i, v)
    <3>1. GetDestination(i) = {}
      BY <1>5 DEF GetDestination
    <3>2. Keeps(g, s, z, Scratch)
      BY <2>3, <2>7, <2>8 DEF Keeps
    <3> QED
      BY <1>1, <3>1, <3>2, NothingWritten
  <2>10. ASSUME NEW k \in 1..n PROVE FindsItsValues(e, i, t[k], Ran(t, s, v)[k - 1])
    <3>1. CASE k = n
      <4>1. t[k] = y /\ Ran(t, s, v)[k - 1] = z
        BY <2>4, <2>5, <3>1
      <4> QED
        BY <2>2, <2>3, <2>8, <4>1 DEF FindsItsValues, a0
    <3>2. CASE k = n - 1
      BY <2>2, <2>4, <3>2 DEF FindsItsValues
    <3>3. CASE k # n - 1 /\ k # n
      BY <2>4, <3>3 DEF FindsItsValues
    <3> QED
      BY <3>1, <3>2, <3>3
  <2> QED
    BY <2>9, <2>10 DEF CarriesOut, z, n, t
<1>6. CASE i.op = "call"
  <2> DEFINE c == CallTo(i.functionName, Len(i.arguments))
             u == <<c>>
             d == i.destination
             store == StoreValue(g, d, Arg(0))
  <2>1. PICK args, w : /\ InTurn(w, args, u) /\ InTurn(t, w, store)
                       /\ Plain(store) /\ Len(store) = 1 /\ AllPassed(g, i.arguments, args)
    BY <1>1, <1>6, CallIsMadeOf, Zenon
  <2>2. c.op = "call" /\ HasLength(u, 1) /\ u[1] = c /\ \A a : Does(u, a, v) = Effect(c, a, v)
    BY DoesOne DEF CallTo
  <2>3. HasPlace(g, d) /\ GetDestination(i) = {d} /\ ResultOf(e, i, v) = v
    BY <1>6 DEF Ready, GetDestination, ResultOf
  <2>4. \A k \in 1..Len(i.arguments) :
          OperandIn(g, s, i.arguments[k]) = ValueOf(e, i.arguments[k])
    <3>1. i.arguments \in Seq(Range(i.arguments))
      BY <1>1, <1>6 DEF IsInstruction
    <3>2. \A k \in 1..Len(i.arguments) : i.arguments[k] \in Range(i.arguments)
      BY <3>1 DEF Range
    <3> QED
      BY <1>6, <3>2 DEF Ready, Operands
  <2> DEFINE q == Does(args, s, v)
             b == Does(w, s, v)
             m == Len(args)
  <2>5. /\ Plain(args) /\ Keeps(g, s, q, Scratch)
        /\ \A k \in 1..Len(i.arguments) : q.regs[Arg(k - 1)] = ValueOf(e, i.arguments[k])
    BY <1>1, <2>1, <2>4 DEF AllPassed
  <2> HIDE DEF t, c, u
  <2>6. /\ m \in Nat /\ Len(w) = m + Len(u)
        /\ \A k \in 1..m : w[k] = args[k]
        /\ \A k \in 1..Len(u) : w[m + k] = u[k]
        /\ \A k \in 0..m : Ran(w, s, v)[k] = Ran(args, s, v)[k]
        /\ b = Does(u, q, v)
    BY <2>1, RanInTurn
  <2>7. Len(u) = 1
    BY <2>2 DEF HasLength
  <2>8. /\ Len(t) = Len(w) + Len(store)
        /\ \A k \in 1..Len(w) : t[k] = w[k]
        /\ \A k \in 1..Len(store) : t[Len(w) + k] = store[k]
        /\ \A k \in 0..Len(w) : Ran(t, s, v)[k] = Ran(w, s, v)[k]
        /\ z = Does(store, b, v)
    BY <2>1, RanInTurn
  <2>9. b = State(AfterCall(q.regs, v), q.mem)
    BY <2>2, <2>6 DEF Effect
  <2>10. InBody(g, q) /\ Arg(0) \in Scratch
    BY <2>5, ScratchRegisters DEF Keeps
  <2>11. /\ Keeps(g, q, b, Scratch \cup {"ra"}) /\ b.regs[Arg(0)] = v
    <3> HIDE DEF q, b
    <3>1. Arg(0) \in Registers /\ "sp" \in Registers /\ Arg(0) # "sp"
      BY <2>10, RegistersApart
    <3>2. \A r \in Registers \ (Scratch \cup {"ra"}) : r \in SavedReg \cup {"sp"} /\ r # Arg(0)
      BY <2>10 DEF Registers
    <3>3. b.regs = AfterCall(q.regs, v) /\ b.mem = q.mem
      BY <2>9 DEF State
    <3>4. /\ DOMAIN b.regs = Registers /\ b.regs[Arg(0)] = v
          /\ \A r \in Registers \ {Arg(0)} : r \in SavedReg \cup {"sp"} => b.regs[r] = q.regs[r]
      <4> DEFINE a0 == Arg(0)
                 h == q.regs
      <4>1. b.regs = [x \in Registers |-> CASE x = a0 -> v
                                           [] x \in SavedReg \cup {"sp"} -> h[x]
                                           [] OTHER -> Junk]
        BY <3>3 DEF AfterCall
      <4>2. a0 \in Registers
        BY <3>1
      <4>3. a0 \notin SavedReg \cup {"sp"}
        BY <2>10, RegistersApart
      <4> HIDE DEF a0, h
      <4> QED
        BY <4>1, <4>2, <4>3 DEF a0, h
    <3>5. InBody(g, b)
      BY <2>10, <3>1, <3>3, <3>4 DEF InBody
    <3> QED
      BY <3>2, <3>3, <3>4, <3>5 DEF Keeps
  <2>12. Puts(g, b, z, d, v)
    <3>1. InBody(g, b)
      BY <2>11 DEF Keeps
    <3> HIDE DEF b, z
    <3>2. Puts(g, b, Does(store, b, v), d, b.regs[Arg(0)])
      BY <2>3, <3>1, StoreStores
    <3> HIDE DEF store
    <3> QED
      BY <2>8, <2>11, <3>2
  <2> HIDE DEF q, b, z, store
  <2>13. Settled(g, s, z, e, i, v)
    <3> DEFINE R == Scratch \cup {"ra"}
    <3>1. Keeps(g, s, b, R)
      BY <2>5, <2>11 DEF Keeps
    <3>2. R \in SUBSET (Scratch \cup {"ra"})
      OBVIOUS
    <3> HIDE DEF R
    <3>3. Puts(g, s, z, d, v)
      BY <1>1, <2>12, <3>1, <3>2, PutsAfter
    <3> QED
      BY <2>3, <3>3 DEF Settled, Puts
  <2>14. ASSUME NEW k \in 1..Len(t) PROVE FindsItsValues(e, i, t[k], Ran(t, s, v)[k - 1])
    <3> HIDE DEF m
    <3>1. CASE k \in 1..m
      <4>1. t[k] = args[k]
        BY <2>6, <2>7, <2>8, <3>1
      <4>2. t[k].op \notin {"j", "bnez", "call"}
        BY <2>5, <3>1, <4>1 DEF Plain, m
      <4> QED
        BY <4>2 DEF FindsItsValues
    <3>2. CASE k = m + 1
      <4>1. t[k] = c
        BY <2>2, <2>6, <2>7, <2>8, <3>2
      <4>2. Ran(t, s, v)[m] = q
        <5>1. m \in 0..m /\ m \in 0..Len(w)
          BY <2>6, <2>7
        <5> QED
          BY <2>6, <2>8, <5>1 DEF q, Does, m
      <4>3. k - 1 = m
        BY <2>6, <3>2
      <4> QED
        BY <2>2, <2>5, <4>1, <4>2, <4>3 DEF FindsItsValues
    <3>3. CASE k = m + 1 + 1
      <4>1. t[k] = store[1]
        BY <2>1, <2>6, <2>7, <2>8, <3>3
      <4>2. store[1].op \notin {"j", "bnez", "call"}
        BY <2>1 DEF Plain
      <4> QED
        BY <4>1, <4>2 DEF FindsItsValues
    <3>4. Len(t) = m + 1 + 1
      BY <2>1, <2>6, <2>7, <2>8
    <3>5. k \in 1..m \/ k = m + 1 \/ k = m + 1 + 1
      BY <2>6, <3>4
    <3> QED
      BY <3>1, <3>2, <3>3, <3>5
  <2> QED
    BY <2>13, <2>14 DEF CarriesOut, z, t
<1> QED
  BY <1>1, <1>2, <1>3, <1>4, <1>5, <1>6 DEF IsInstruction

-----------------------------------------------------------------------------
(***************************************************************************)
(* Where the instructions of the list are in the assembly.                 *)
(***************************************************************************)

\* The sequence w is the first n of seqs in a row; that of position p begins
\* after o[p].
IsFlat(w, seqs, o, n) ==
  /\ \A p \in 1..(n + 1) : o[p] \in Nat
  /\ HasLength(w, o[n + 1])
  /\ \A p \in 1..n : \A j \in 1..Len(seqs[p]) :
       o[p] + j \in 1..o[n + 1] /\ w[o[p] + j] = seqs[p][j]
  /\ \A k \in 1..o[n + 1] : \E p \in 1..n : \E j \in 1..Len(seqs[p]) : k = o[p] + j

LEMMA OneMoreIsFlat ==
  ASSUME NEW w, NEW seqs, NEW o, NEW n \in Nat, IsFlat(w, seqs, o, n),
         NEW z, InTurn(z, w, seqs[n + 1]), o[n + 2] = o[n + 1] + Len(seqs[n + 1])
  PROVE  IsFlat(z, seqs, o, n + 1)
<1> DEFINE a == o[n + 1]
           u == seqs[n + 1]
           b == Len(u)
           m == n + 1
<1>1. /\ a \in Nat /\ HasLength(w, a)
      /\ \A p \in 1..m : o[p] \in Nat
      /\ \A p \in 1..n : \A j \in 1..Len(seqs[p]) : o[p] + j \in 1..a /\ w[o[p] + j] = seqs[p][j]
      /\ \A k \in 1..a : \E p \in 1..n : \E j \in 1..Len(seqs[p]) : k = o[p] + j
  <2>1. n + 1 \in 1..(n + 1)
    OBVIOUS
  <2> QED
    BY <2>1 DEF IsFlat
<1>2. /\ b \in Nat /\ HasLength(z, a + b)
      /\ \A k \in 1..a : z[k] = w[k]
      /\ \A k \in 1..b : z[a + k] = u[k]
  <2>1. Len(w) = a
    BY <1>1 DEF HasLength
  <2> QED
    BY <2>1 DEF InTurn, Joins
<1>3. o[m + 1] = a + b /\ m \in Nat /\ n = m - 1 /\ \A k : k \in 1..m => k \in 1..n \/ k = m
  <2>1. n + 2 = m + 1
    OBVIOUS
  <2> QED
    BY <2>1
<1>4. m \in 1..m /\ \A p \in 1..n : p \in 1..m
  OBVIOUS
<1>5. seqs[m] = u /\ o[m] = a
  OBVIOUS
<1> HIDE DEF m, a, b, u
<1>6. ASSUME NEW p \in 1..m, NEW j \in 1..Len(seqs[p])
      PROVE  o[p] + j \in 1..(a + b) /\ z[o[p] + j] = seqs[p][j]
  <2>1. CASE p = m
    <3>1. j \in 1..b
      BY <1>5, <2>1 DEF b
    <3>2. o[p] = a
      BY <1>5, <2>1
    <3>3. a + j \in 1..(a + b)
      BY <1>1, <1>2, <3>1
    <3>4. z[a + j] = u[j] /\ seqs[p][j] = u[j]
      BY <1>2, <1>5, <2>1, <3>1
    <3> QED
      BY <3>2, <3>3, <3>4
  <2>2. CASE p # m
    <3>1. p \in 1..n
      BY <1>3, <2>2
    <3>2. o[p] + j \in 1..a /\ w[o[p] + j] = seqs[p][j]
      BY <1>1, <3>1
    <3> DEFINE k == o[p] + j
    <3>3. k \in 1..a /\ w[k] = seqs[p][j]
      BY <3>2
    <3> HIDE DEF k
    <3>4. k \in 1..(a + b) /\ z[k] = seqs[p][j]
      BY <1>1, <1>2, <3>3
    <3> QED
      BY <3>4 DEF k
  <2> QED
    BY <2>1, <2>2
<1>7. ASSUME NEW k \in 1..(a + b) PROVE \E p \in 1..m : \E j \in 1..Len(seqs[p]) : k = o[p] + j
  <2>1. CASE k \in 1..a
    BY <1>1, <1>4, <2>1
  <2>2. CASE k \notin 1..a
    <3> DEFINE j == k - a
    <3>1. j \in 1..b /\ k = a + j
      BY <1>1, <1>2, <2>2
    <3> HIDE DEF j
    <3> QED
      BY <1>4, <1>5, <3>1 DEF b
  <2> QED
    BY <2>1, <2>2
<1>8. \A p \in 1..(m + 1) : o[p] \in Nat
  BY <1>1, <1>2, <1>3
<1>9. IsFlat(z, seqs, o, m)
  <2> DEFINE l == o[m + 1]
  <2>1. l = a + b
    BY <1>3
  <2> HIDE DEF l
  <2>2. HasLength(z, l)
    BY <1>2, <2>1
  <2>3. \A p \in 1..m : \A j \in 1..Len(seqs[p]) :
          o[p] + j \in 1..l /\ z[o[p] + j] = seqs[p][j]
    BY <1>6, <2>1
  <2>4. \A k \in 1..l : \E p \in 1..m : \E j \in 1..Len(seqs[p]) : k = o[p] + j
    BY <1>7, <2>1
  <2> QED
    BY <1>8, <2>2, <2>3, <2>4, Zenon DEF IsFlat, l
<1> QED
  BY <1>9 DEF m

\* A flattened sequence is.
LEMMA FlattenedIsFlat ==
  ASSUME NEW S, NEW seqs \in Seq(Seq(S)), NEW o, o[1] = 0,
         \A p \in 1..Len(seqs) : o[p + 1] = o[p] + Len(seqs[p])
  PROVE  IsFlat(FlattenSeq(seqs), seqs, o, Len(seqs))
<1> DEFINE n == Len(seqs)
           whole == FlattenSeq(seqs)
<1>1. n \in Nat /\ \A p \in 1..n : seqs[p] \in Seq(S)
  OBVIOUS
<1>2. \A p \in 1..n : HasLength(seqs[p], Len(seqs[p]))
  BY <1>1, SeqOfItsRange DEF HasLength
<1>3. PICK joined : /\ whole = joined[n] /\ joined[0] = <<>>
                    /\ \A k \in 1..n : joined[k] = joined[k - 1] \o seqs[k]
  BY FlattenUnfold, Zenon
<1> HIDE DEF n, whole
<1> DEFINE T == { k \in 0..n : IsFlat(joined[k], seqs, o, k) }
<1>4. 0 \in T
  <2> DEFINE w == joined[0]
  <2>1. HasLength(w, 0)
    BY <1>3, DoesNone
  <2> HIDE DEF w
  <2>2. IsFlat(w, seqs, o, 0)
    BY <2>1 DEF IsFlat
  <2> QED
    BY <1>1, <2>2 DEF w
<1>5. ASSUME NEW k \in 0..(n - 1), k \in T PROVE k + 1 \in T
  <2> DEFINE w == joined[k]
             z == joined[k + 1]
             u == seqs[k + 1]
  <2>1. k \in Nat /\ k + 1 \in 1..n /\ k + 1 \in 0..n /\ (k + 1) - 1 = k /\ (k + 1) + 1 = k + 2
    BY <1>1
  <2>2. IsFlat(w, seqs, o, k)
    BY <1>5
  <2>3. HasLength(w, Len(w)) /\ HasLength(u, Len(u))
    BY <1>2, <2>1, <2>2 DEF IsFlat, HasLength
  <2>4. z = w \o u
    BY <1>3, <2>1
  <2>5. InTurn(z, w, u)
    BY <2>3, <2>4, ConcatIsInTurn, Zenon
  <2>6. o[k + 2] = o[k + 1] + Len(u)
    BY <2>1 DEF n
  <2> HIDE DEF w, z
  <2>7. IsFlat(z, seqs, o, k + 1)
    BY <2>1, <2>2, <2>5, <2>6, OneMoreIsFlat
  <2> QED
    BY <2>1, <2>7 DEF z
<1>6. n \in T
  <2> HIDE DEF T
  <2>1. 0..n \subseteq T
    BY <1>1, <1>4, <1>5, IntervalInduction
  <2> QED
    BY <1>1, <2>1
<1> QED
  BY <1>3, <1>6 DEF n, whole

\* What the instruction at p becomes.
Piece(g, p) == GenerateInstruction(g, g.code[p])

\* The instructions of a function are instructions, and their names have places.
LEMMA CodeIsPlaced ==
  ASSUME NEW g, IsCompilable(g)
  PROVE  /\ g.code \in Seq(Range(g.code)) /\ Len(g.code) \in Nat /\ DOMAIN g.code = 1..Len(g.code)
         /\ \A p \in 1..Len(g.code) :
              /\ IsInstruction(g.code[p]) /\ IsPlaced(g, g.code[p])
              /\ IsShaped(Piece(g, p), g.code[p])
              /\ LabelsOf(g.code[p]) \subseteq LabelsIn(g.code)
<1>1. g.code \in Seq(Range(g.code)) /\ DOMAIN g.code = 1..Len(g.code) /\ Len(g.code) \in Nat
  <2>1. g.code \in Seq(Range(g.code))
    BY DEF IsCompilable
  <2> QED
    BY <2>1
<1>2. ASSUME NEW p \in 1..Len(g.code)
      PROVE  /\ IsInstruction(g.code[p]) /\ IsPlaced(g, g.code[p])
             /\ IsShaped(Piece(g, p), g.code[p])
             /\ LabelsOf(g.code[p]) \subseteq LabelsIn(g.code)
  <2> DEFINE i == g.code[p]
  <2>1. i \in Range(g.code) /\ p \in DOMAIN g.code
    BY <1>1 DEF Range
  <2>2. IsInstruction(i)
    BY <2>1 DEF IsCompilable
  <2>3. GetDestination(i) \cup GetSources(i) \subseteq DOMAIN g.registers \cup g.spilled
    <3>1. GetDestination(i) \cup GetSources(i) \subseteq NamesOf(g.code)
      BY <2>1 DEF NamesOf
    <3>2. NamesOf(g.code) \subseteq DOMAIN g.registers \cup g.spilled
      BY DEF IsCompilable
    <3> QED
      BY <3>1, <3>2
  <2>4. \A v \in Operands(i) : v.kind = "name" => v.name \in GetSources(i)
    BY DEF GetSources, NamesIn
  <2>5. LabelsOf(i) \subseteq LabelsIn(g.code)
    BY <2>1 DEF IsCompilable, JumpsResolve
  <2> HIDE DEF i
  <2>6. IsPlaced(g, i)
    BY <2>2, <2>3, <2>4 DEF IsPlaced, HasPlace, IsOperand, IsInstruction
  <2>7. IsShaped(GenerateInstruction(g, i), i)
    BY <2>2, <2>6, GeneratedIsShaped
  <2> QED
    BY <2>2, <2>5, <2>6, <2>7 DEF i, Piece
<1> QED
  BY <1>1, <1>2

\* Each position starts where the one before it ends.
LEMMA StartsFollow ==
  ASSUME NEW g, IsCompilable(g)
  PROVE  LET st == StartOfPieces(g)
             n == Len(g.code)
         IN  /\ DOMAIN st = 1..(n + 1) /\ st[1] = Len(Entry(g)) + 1
             /\ \A p \in 1..n : st[p + 1] = st[p] + Len(Piece(g, p))
<1> DEFINE st == StartOfPieces(g)
           n == Len(g.code)
           pieces == Pieces(g)
           first == Len(Entry(g)) + 1
           Def(v, p) == v + Len(pieces[p - 1])
<1>1. n \in Nat /\ DOMAIN g.code = 1..n /\ n + 1 \in Nat
  BY CodeIsPlaced
<1>2. FiniteNatInductiveDefHypothesis(st, first, Def, 1, n + 1)
  BY DEF FiniteNatInductiveDefHypothesis, StartOfPieces
<1>3. FiniteNatInductiveDefConclusion(st, first, Def, 1, n + 1)
  BY <1>1, <1>2, FiniteNatInductiveDef
<1>4. st = [p \in 1..(n + 1) |-> IF p = 1 THEN first ELSE Def(st[p - 1], p)]
  BY <1>3 DEF FiniteNatInductiveDefConclusion
<1>5. \A p \in 1..n : pieces[p] = Piece(g, p)
  BY <1>1 DEF Pieces, Piece
<1> HIDE DEF st, first, pieces
<1>6. 1 \in 1..(n + 1)
  BY <1>1
<1>7. DOMAIN st = 1..(n + 1) /\ st[1] = first
  BY <1>4, <1>6
<1>8. ASSUME NEW p \in 1..n PROVE st[p + 1] = st[p] + Len(Piece(g, p))
  <2> DEFINE q == p + 1
  <2>1. q \in 1..(n + 1) /\ q # 1 /\ q - 1 = p
    BY <1>1
  <2> HIDE DEF q, n
  <2>2. st[q] = Def(st[q - 1], q)
    BY <1>4, <2>1
  <2> QED
    BY <1>5, <2>1, <2>2 DEF q
<1> QED
  BY <1>7, <1>8 DEF st, first

\* Where the pieces are in an assembly.
HoldsPieces(g, a, st) ==
  LET n == Len(g.code) IN
  /\ n \in Nat /\ DOMAIN st = 1..(n + 1)
  /\ st[1] = Len(Entry(g)) + 1 /\ st[n + 1] = EpilogueAt(g)
  /\ \A p \in 1..(n + 1) : st[p] \in Nat
  /\ \A p \in 1..n : Len(Piece(g, p)) \in Nat /\ Len(Piece(g, p)) > 0
                     /\ st[p + 1] = st[p] + Len(Piece(g, p))
  /\ \A p, q \in 1..(n + 1) : p <= q => st[p] <= st[q]
  /\ \A p \in 1..n : \A j \in 0..(Len(Piece(g, p)) - 1) : a[st[p] + j] = Piece(g, p)[j + 1]
  /\ \A k \in st[1]..(st[n + 1] - 1) :
       \E p \in 1..n : \E j \in 0..(Len(Piece(g, p)) - 1) : k = st[p] + j

\* They are where StartOfPieces says.
LEMMA PiecesAreLaidOut ==
  ASSUME NEW g, IsCompilable(g)
  PROVE  HoldsPieces(g, GenerateFunction(g), StartOfPieces(g))
<1> DEFINE st == StartOfPieces(g)
           a == GenerateFunction(g)
           n == Len(g.code)
           seqs == Pieces(g)
           body == FlattenSeq(seqs)
           e == Len(Entry(g))
           o == [p \in 1..(n + 1) |-> st[p] - st[1]]
           size(p) == Len(Piece(g, p))
<1>1. /\ n \in Nat /\ DOMAIN g.code = 1..n
      /\ \A p \in 1..n : IsShaped(Piece(g, p), g.code[p])
  BY CodeIsPlaced
<1>2. \A p \in 1..n : size(p) \in Nat /\ size(p) > 0 /\ HasLength(Piece(g, p), size(p))
  BY <1>1 DEF IsShaped, HasLength
<1>3. /\ DOMAIN st = 1..(n + 1) /\ st[1] = e + 1
      /\ \A p \in 1..n : st[p + 1] = st[p] + size(p)
  BY StartsFollow
<1>4. e \in Nat /\ \A k \in 1..Len(body) : a[e + k] = body[k]
  <2>1. NumSaved(g) \in Nat
    BY Places
  <2>2. HoldsBody(g, a) /\ Len(StoreParameters(g)) \in Nat
    BY FunctionIsLaidOut DEF HoldsBody
  <2>3. e = NumSaved(g) + 2 + Len(StoreParameters(g))
    BY <2>2 DEF HoldsBody
  <2>4. body = FlattenSeq(Pieces(g))
    OBVIOUS
  <2>5. \A k \in 1..Len(body) : a[e + k] = body[k]
    BY <2>2 DEF HoldsBody
  <2> HIDE DEF e
  <2>6. e \in Nat
    BY <2>1, <2>2, <2>3
  <2> QED
    BY <2>5, <2>6
<1>5. DOMAIN seqs = 1..n /\ seqs = [p \in 1..n |-> seqs[p]]
      /\ \A p \in 1..n : seqs[p] = Piece(g, p)
  BY <1>1 DEF Pieces, Piece
<1>6. EpilogueAt(g) = e + Len(body) + 1
  BY DEF EpilogueAt
<1> HIDE DEF st, a, n, seqs, e, size
<1>7. 1 \in 1..(n + 1) /\ \A p \in 1..n : p \in 1..(n + 1) /\ p + 1 \in 1..(n + 1)
  BY <1>1
<1>8. ASSUME NEW p \in 1..(n + 1)
      PROVE  st[p] \in Nat /\ \A q \in p..(n + 1) : st[q] \in Nat /\ st[p] <= st[q]
  <2>1. ASSUME NEW k \in 1..(n + 1), st[k] \in Nat
        PROVE  \A q \in k..(n + 1) : st[q] \in Nat /\ st[k] <= st[q]
    <3> DEFINE T == { q \in k..(n + 1) : st[q] \in Nat /\ st[k] <= st[q] }
    <3>1. k \in T
      BY <1>1, <2>1
    <3>2. ASSUME NEW q \in k..((n + 1) - 1), q \in T PROVE q + 1 \in T
      <4>1. q \in 1..n /\ q + 1 \in k..(n + 1)
        BY <1>1
      <4>2. st[q + 1] = st[q] + size(q) /\ size(q) \in Nat
        BY <1>2, <1>3, <4>1
      <4> QED
        BY <2>1, <3>2, <4>1, <4>2
    <3> HIDE DEF T
    <3>4. k..(n + 1) \subseteq T
      <4> DEFINE b == n + 1
      <4>1. k \in Nat /\ b \in Nat
        BY <1>1
      <4>2. \A q \in k..(b - 1) : q \in T => q + 1 \in T
        BY <3>2
      <4> HIDE DEF b
      <4>3. k..b \subseteq T
        BY <3>1, <4>1, <4>2, IntervalInduction
      <4> QED
        BY <4>3 DEF b
    <3> QED
      BY <3>4 DEF T
  <2>2. st[p] \in Nat
    <3>1. st[1] \in Nat /\ p \in 1..(n + 1)
      BY <1>3, <1>4
    <3> QED
      BY <1>7, <2>1, <3>1
  <2> QED
    BY <2>1, <2>2
<1>9. IsFlat(body, seqs, o, n)
  <2> DEFINE S == UNION { Range(seqs[p]) : p \in 1..n }
  <2>1. seqs \in Seq(Seq(S)) /\ Len(seqs) = n
    <3>1. \A p \in 1..n : seqs[p] \in Seq(S)
      <4> TAKE p \in 1..n
      <4>1. seqs[p] \in Seq(Range(seqs[p]))
        BY <1>2, <1>5 DEF HasLength
      <4>2. Range(seqs[p]) \subseteq S
        OBVIOUS
      <4> HIDE DEF S
      <4> QED
        BY <4>1, <4>2
    <3> HIDE DEF S
    <3> QED
      BY <1>1, <1>5, <3>1
  <2>2. o[1] = 0
    BY <1>3, <1>4, <1>7
  <2>3. \A p \in 1..n : o[p + 1] = o[p] + Len(seqs[p])
    <3> TAKE p \in 1..n
    <3>1. st[p + 1] = st[p] + size(p) /\ Len(seqs[p]) = size(p) /\ size(p) \in Nat
      BY <1>2, <1>3, <1>5 DEF size
    <3>2. st[p] \in Nat /\ st[1] \in Nat /\ p \in 1..(n + 1) /\ p + 1 \in 1..(n + 1)
      BY <1>7, <1>8
    <3> QED
      BY <3>1, <3>2
  <2> HIDE DEF S, o
  <2> QED
    BY <2>1, <2>2, <2>3, FlattenedIsFlat
<1>10. Len(body) = o[n + 1] /\ o[n + 1] = st[n + 1] - st[1] /\ n + 1 \in 1..(n + 1)
  BY <1>1, <1>9 DEF IsFlat, HasLength
<1>11. st[n + 1] = EpilogueAt(g)
  BY <1>3, <1>4, <1>6, <1>8, <1>10
<1>12. \A p \in 1..n : o[p] = st[p] - st[1] /\ st[p] \in Nat
  BY <1>7, <1>8
<1>13. /\ \A p \in 1..n : \A j \in 1..size(p) :
            o[p] + j \in 1..Len(body) /\ body[o[p] + j] = Piece(g, p)[j]
       /\ \A k \in 1..Len(body) : \E p \in 1..n : \E j \in 1..size(p) : k = o[p] + j
  <2>1. HasLength(body, o[n + 1])
    BY <1>9 DEF IsFlat
  <2>2. \A p \in 1..n : Len(seqs[p]) = size(p) /\ seqs[p] = Piece(g, p)
    BY <1>5 DEF size
  <2>3. DOMAIN body = 1..Len(body)
    BY <2>1 DEF HasLength
  <2> HIDE DEF body, o
  <2>4. \A p \in 1..n : \A j \in 1..Len(seqs[p]) :
          o[p] + j \in 1..o[n + 1] /\ body[o[p] + j] = seqs[p][j]
    BY <1>9 DEF IsFlat
  <2>5. \A k \in 1..o[n + 1] : \E p \in 1..n : \E j \in 1..Len(seqs[p]) : k = o[p] + j
    BY <1>9 DEF IsFlat
  <2>6. ASSUME NEW p \in 1..n, NEW j \in 1..size(p)
        PROVE  o[p] + j \in 1..Len(body) /\ body[o[p] + j] = Piece(g, p)[j]
    <3>1. j \in 1..Len(seqs[p]) /\ seqs[p] = Piece(g, p)
      BY <2>2
    <3> QED
      BY <1>10, <2>4, <3>1
  <2>7. ASSUME NEW k \in 1..Len(body)
        PROVE  \E p \in 1..n : \E j \in 1..size(p) : k = o[p] + j
    <3>1. PICK p \in 1..n : \E j \in 1..Len(seqs[p]) : k = o[p] + j
      BY <1>10, <2>5
    <3>2. Len(seqs[p]) = size(p)
      BY <2>2
    <3> QED
      BY <3>1, <3>2
  <2> QED
    BY <2>6, <2>7
<1> HIDE DEF o, body
<1>14. ASSUME NEW p \in 1..n, NEW j \in 0..(size(p) - 1)
       PROVE  a[st[p] + j] = Piece(g, p)[j + 1]
  <2>1. j + 1 \in 1..size(p)
    BY <1>2
  <2> DEFINE k == o[p] + (j + 1)
  <2>2. k \in 1..Len(body) /\ body[k] = Piece(g, p)[j + 1]
    BY <1>13, <2>1
  <2>3. e + k = st[p] + j
    BY <1>3, <1>4, <1>12
  <2> HIDE DEF k
  <2> QED
    BY <1>4, <2>2, <2>3
<1>15. ASSUME NEW k \in st[1]..(st[n + 1] - 1)
       PROVE  \E p \in 1..n : \E j \in 0..(size(p) - 1) : k = st[p] + j
  <2> DEFINE i == k - e
  <2>1. i \in 1..Len(body)
    BY <1>3, <1>4, <1>6, <1>11, <1>10, <1>8
  <2>2. PICK p \in 1..n : \E j \in 1..size(p) : i = o[p] + j
    BY <1>13, <2>1
  <2>3. PICK j \in 1..size(p) : i = o[p] + j
    BY <2>2
  <2>4. j - 1 \in 0..(size(p) - 1) /\ k = st[p] + (j - 1)
    <3>1. size(p) \in Nat /\ o[p] = st[p] - st[1] /\ st[p] \in Nat /\ st[1] = e + 1 /\ e \in Nat
      BY <1>2, <1>3, <1>4, <1>12
    <3>2. k \in Int
      BY <1>7, <1>8
    <3> QED
      BY <2>3, <3>1, <3>2
  <2> QED
    BY <2>4
<1>16. \A p, q \in 1..(n + 1) : p <= q => st[p] <= st[q]
  BY <1>8
<1> QED
  BY <1>1, <1>2, <1>3, <1>8, <1>11, <1>14, <1>15, <1>16 DEF HoldsPieces, st, a, n, e, size

\* Where the parameters are stored.
HoldsParameters(g, a) ==
  LET n == NumSaved(g) IN
  /\ Len(g.parameters) \in 0..8 /\ DOMAIN g.parameters = 1..Len(g.parameters)
  /\ n \in Nat /\ Len(Entry(g)) = n + 2 + Len(g.parameters)
  /\ \A k \in 1..Len(g.parameters) :
       /\ HasPlace(g, g.parameters[k])
       /\ StoreValue(g, g.parameters[k], Arg(k - 1)) = <<a[n + 2 + k]>>
       /\ a[n + 2 + k].op \in {"mv", "sd"}

LEMMA ParametersAreLaidOut ==
  ASSUME NEW g, IsCompilable(g)
  PROVE  HoldsParameters(g, GenerateFunction(g))
<1> DEFINE a == GenerateFunction(g)
           n == NumSaved(g)
           m == Len(g.parameters)
           store == StoreParameters(g)
           Storing(k) == StoreValue(g, g.parameters[k], Arg(k - 1))
           seqs == [k \in DOMAIN g.parameters |-> Storing(k)]
           o == [k \in 1..(m + 1) |-> k - 1]
<1>1. m \in 0..8 /\ DOMAIN g.parameters = 1..m
  <2>1. g.parameters \in Seq(Range(g.parameters))
    BY DEF IsCompilable
  <2>2. m \in Nat /\ DOMAIN g.parameters = 1..m
    BY <2>1
  <2>3. m <= 8
    BY DEF IsCompilable, MaxArguments
  <2> HIDE DEF m
  <2> QED
    BY <2>2, <2>3
<1>2. n \in Nat
  BY Places
<1>3. HoldsBody(g, a)
  BY FunctionIsLaidOut
<1>4. store = FlattenSeq(seqs)
  <2>1. ~(m > MaxArguments)
    <3> HIDE DEF m
    <3> QED
      BY <1>1 DEF MaxArguments
  <2> QED
    BY <2>1 DEF StoreParameters
<1>5. ASSUME NEW k \in 1..m
      PROVE  /\ HasPlace(g, g.parameters[k]) /\ HasLength(Storing(k), 1)
             /\ Storing(k) = <<Storing(k)[1]>> /\ Storing(k)[1].op \in {"mv", "sd"}
  <2>1. HasPlace(g, g.parameters[k])
    <3>1. g.parameters[k] \in Range(g.parameters)
      BY <1>1 DEF Range
    <3>2. Range(g.parameters) \subseteq DOMAIN g.registers \cup g.spilled
      BY DEF IsCompilable
    <3> QED
      BY <3>1, <3>2 DEF HasPlace
  <2>2. PICK i : Storing(k) = <<i>> /\ i.op \in {"mv", "sd"}
    BY <2>1, LoadAndStoreShape
  <2> DEFINE t == Storing(k)
  <2>3. t = <<i>>
    BY <2>2
  <2> HIDE DEF t
  <2>4. HasLength(t, 1) /\ t[1] = i
    BY <2>3, DoesOne
  <2> QED
    BY <2>1, <2>2, <2>3, <2>4 DEF t
<1>6. DOMAIN seqs = 1..m /\ \A k \in 1..m : seqs[k] = Storing(k)
  BY <1>1
<1>7. seqs = [k \in 1..m |-> seqs[k]]
  BY <1>1
<1>8. o[1] = 0 /\ \A p \in 1..(m + 1) : o[p] = p - 1
  BY <1>1
<1> HIDE DEF seqs, m, n, a, store, Storing, o
<1>9. IsFlat(store, seqs, o, m)
  <2> DEFINE S == UNION { Range(seqs[p]) : p \in 1..m }
  <2>1. seqs \in Seq(Seq(S)) /\ Len(seqs) = m
    <3>1. \A p \in 1..m : seqs[p] \in Seq(S)
      <4> TAKE p \in 1..m
      <4>1. seqs[p] \in Seq(Range(seqs[p]))
        BY <1>5, <1>6 DEF HasLength
      <4>2. Range(seqs[p]) \subseteq S
        OBVIOUS
      <4> HIDE DEF S
      <4> QED
        BY <4>1, <4>2
    <3> HIDE DEF S
    <3> QED
      BY <1>1, <1>7, <3>1
  <2>2. \A p \in 1..m : o[p + 1] = o[p] + Len(seqs[p])
    <3> TAKE p \in 1..m
    <3>1. Len(seqs[p]) = 1
      BY <1>5, <1>6 DEF HasLength
    <3>2. p \in 1..(m + 1) /\ p + 1 \in 1..(m + 1) /\ p \in Nat
      BY <1>1
    <3>3. o[p] = p - 1 /\ o[p + 1] = (p + 1) - 1
      BY <1>8, <3>2
    <3> QED
      BY <3>1, <3>2, <3>3
  <2> HIDE DEF S
  <2>3. IsFlat(FlattenSeq(seqs), seqs, o, Len(seqs))
    BY <1>8, <2>1, <2>2, FlattenedIsFlat
  <2> QED
    BY <1>4, <2>1, <2>3
<1>10. Len(store) = m /\ \A k \in 1..m : store[k] = Storing(k)[1]
  <2>1. m + 1 \in 1..(m + 1) /\ o[m + 1] = m
    BY <1>1, <1>8
  <2>2. Len(store) = m
    BY <1>9, <2>1 DEF IsFlat, HasLength
  <2>3. ASSUME NEW k \in 1..m PROVE store[k] = Storing(k)[1]
    <3>1. Len(seqs[k]) = 1 /\ seqs[k] = Storing(k)
      BY <1>5, <1>6 DEF HasLength
    <3>2. 1 \in 1..Len(seqs[k])
      BY <3>1
    <3>3. store[o[k] + 1] = seqs[k][1]
      BY <1>9, <3>2 DEF IsFlat
    <3>4. o[k] + 1 = k
      BY <1>1, <1>8
    <3> QED
      BY <3>1, <3>3, <3>4
  <2> QED
    BY <2>2, <2>3
<1>11. Len(Entry(g)) = n + 2 + m /\ \A k \in 1..m : a[n + 2 + k] = store[k]
  BY <1>3, <1>10 DEF HoldsBody, n, store
<1> QED
  BY <1>1, <1>2, <1>5, <1>10, <1>11 DEF HoldsParameters, m, n, Storing, a

\* A jump leads to where the assembly of its label starts.
LEMMA TargetsAreStarts ==
  ASSUME IInv
  PROVE  /\ \A l \in LabelsIn(f.code) :
              /\ PositionOf(f.code, l) \in 1..Len(f.code)
              /\ Target(l) = StartOfPieces(f)[PositionOf(f.code, l)]
         /\ Target(EpilogueLabel) = EpilogueAt(f)
<1> DEFINE n == NumSaved(f)
           z == EpilogueAt(f)
           st == StartOfPieces(f)
           m == Len(f.code)
           np == Len(f.parameters)
<1>1. IsCompilable(f) /\ IsLaidOut(f, asm, z)
  BY WhereItIs
<1>2. n \in Nat /\ z \in Nat /\ n + 3 <= z
  BY <1>1, Places
<1>3. HoldsPieces(f, asm, st) /\ HoldsParameters(f, asm)
  BY <1>1, PiecesAreLaidOut, ParametersAreLaidOut DEF IInv
<1>4. asm[z] = At(EpilogueLabel) /\ \A k \in (n + 3)..(z - 1) : IsSafe(f, asm[k])
  BY <1>1 DEF IsLaidOut, n, z
<1>5. EpilogueLabel \notin LabelsIn(f.code)
  BY <1>1 DEF IsCompilable
<1>6. \A l : At(l).op = "label" /\ At(l).label = l
  BY DEF At
<1> HIDE DEF n, z, st, np
<1>7. Target(EpilogueLabel) = z
  <2> DEFINE k == Target(EpilogueLabel)
  <2>1. k \in (n + 3)..z /\ asm[k] = At(EpilogueLabel)
    BY JumpsStayInBody DEF n, z
  <2> HIDE DEF k
  <2>2. k \notin (n + 3)..(z - 1)
    BY <1>4, <1>5, <1>6, <2>1 DEF IsSafe
  <2> QED
    BY <1>2, <2>1, <2>2 DEF k
<1>8. ASSUME NEW l \in LabelsIn(f.code)
      PROVE  PositionOf(f.code, l) \in 1..m /\ Target(l) = st[PositionOf(f.code, l)]
  <2> DEFINE k == Target(l)
             q == PositionOf(f.code, l)
  <2>1. k \in (n + 3)..z /\ asm[k] = At(l)
    BY JumpsStayInBody DEF n, z
  <2>2. DOMAIN f.code = 1..m /\ m \in Nat
    BY <1>1, CodeIsPlaced
  <2>3. q \in 1..m /\ f.code[q].op = "label" /\ f.code[q].label = l
    <3>1. \E p \in DOMAIN f.code : IsLabel(f.code[p]) /\ f.code[p].label = l
      BY DEF LabelsIn
    <3>2. q \in DOMAIN f.code /\ IsLabel(f.code[q]) /\ f.code[q].label = l
      BY <3>1 DEF PositionOf
    <3> QED
      BY <2>2, <3>2 DEF IsLabel
  <2>4. \A p \in 1..m : f.code[p].op = "label" /\ f.code[p].label = l => p = q
    BY <1>1, <2>2, <2>3 DEF IsCompilable, JumpsResolve, IsLabel
  <2> HIDE DEF k, q, m
  <2>5. k # z
    BY <1>4, <1>5, <1>6, <2>1
  <2>6. k \in st[1]..(st[m + 1] - 1)
    <3>1. st[m + 1] = z /\ st[1] = n + 3 + np /\ np \in Nat
      <4>1. /\ st[m + 1] = z /\ st[1] = Len(Entry(f)) + 1
            /\ Len(Entry(f)) = n + 2 + np /\ np \in 0..8
        BY <1>3 DEF HoldsPieces, HoldsParameters, m, n, z, np
      <4> QED
        BY <1>2, <4>1
    <3>2. ASSUME k < st[1] PROVE FALSE
      <4> DEFINE j == k - n - 2
      <4>1. j \in 1..np /\ n + 2 + j = k
        BY <1>2, <2>1, <3>1, <3>2
      <4>2. asm[n + 2 + j].op \in {"mv", "sd"}
        BY <1>3, <4>1 DEF HoldsParameters, n, np
      <4> HIDE DEF j
      <4> QED
        BY <1>6, <2>1, <4>1, <4>2
    <3> QED
      BY <1>2, <2>1, <2>5, <3>1, <3>2
  <2>7. PICK p \in 1..m : \E j \in 0..(Len(Piece(f, p)) - 1) : k = st[p] + j
    BY <1>3, <2>6 DEF HoldsPieces, m
  <2>8. PICK j \in 0..(Len(Piece(f, p)) - 1) : k = st[p] + j
    BY <2>7
  <2>9. asm[st[p] + j] = Piece(f, p)[j + 1]
    BY <1>3 DEF HoldsPieces, m
  <2>10. IsShaped(Piece(f, p), f.code[p])
    BY <1>1, CodeIsPlaced DEF m
  <2>11. Len(Piece(f, p)) \in Nat /\ st[p] \in Nat
    <3>1. p \in 1..(m + 1)
      BY <2>2
    <3> QED
      BY <1>3, <3>1 DEF HoldsPieces, m
  <2>12. j + 1 \in 1..Len(Piece(f, p))
    BY <2>11
  <2>13. f.code[p].op = "label" /\ f.code[p].label = l
    <3>1. Piece(f, p)[j + 1] = At(l)
      BY <2>1, <2>8, <2>9
    <3> QED
      BY <1>6, <2>10, <2>12, <3>1 DEF IsShaped
  <2>14. Len(Piece(f, p)) = 1
    <3> DEFINE t == Piece(f, p)
    <3>1. t = <<At(f.code[p].label)>>
      BY <2>10, <2>13 DEF IsShaped
    <3> HIDE DEF t
    <3>2. HasLength(t, 1)
      BY <3>1, DoesOne
    <3> QED
      BY <3>2 DEF HasLength, t
  <2>15. p = q /\ k = st[p]
    BY <2>4, <2>8, <2>11, <2>13, <2>14
  <2> QED
    BY <2>3, <2>15 DEF k, q, m
<1> QED
  BY <1>7, <1>8 DEF st, z, m

-----------------------------------------------------------------------------
(***************************************************************************)
(* What is live, and where control goes.                                   *)
(***************************************************************************)

\* The names whose values are read at p or later.
LiveAt(g, p) == LiveBefore(g.code, NamesOf(g.code))[p]

\* Every name needed at p has a value, and its place holds it.
InPlace(g, p, e, s) == \A x \in LiveAt(g, p) : x \in DOMAIN e /\ In(g, s, x) = e[x]

EnvIsTyped(g, e) == /\ \A x \in DOMAIN e : e[x] \in Word
                    /\ \A x \in DOMAIN e \cap g.booleans : e[x] \in {0, 1}

\* What is live: a name that is read, or live where control may go and not written.
LEMMA LiveNames ==
  ASSUME NEW g, IsCompilable(g), NEW p \in DOMAIN g.code
  PROVE  /\ LiveAt(g, p) \subseteq NamesOf(g.code)
         /\ GetSources(g.code[p]) \subseteq LiveAt(g, p)
         /\ \A q \in FlowsTo(g.code, p) :
              q \in DOMAIN g.code /\ LiveAt(g, q) \ GetDestination(g.code[p]) \subseteq LiveAt(g, p)
<1> DEFINE c == g.code
           V == NamesOf(c)
<1>1. Len(c) \in Nat /\ DOMAIN c = 1..Len(c)
  BY CodeIsPlaced
<1> HIDE DEF c, V
<1>2. \A q \in DOMAIN c : LiveBefore(c, V)[q] = { x \in V : q \in ReadFrom(c, x) }
  BY DEF LiveBefore
<1>3. p \in DOMAIN c /\ \A q \in FlowsTo(c, p) : q \in DOMAIN c
  BY FlowStaysInside DEF c
<1>4. GetSources(c[p]) \subseteq V
  BY <1>3 DEF V, NamesOf, Range
<1>5. \A x : p \in ReadFrom(c, x) <=>
               \/ x \in GetSources(c[p])
               \/ x \notin GetDestination(c[p]) /\ FlowsTo(c, p) \cap ReadFrom(c, x) # {}
  BY <1>1, <1>3, ReadersAreClosed
<1> QED
  BY <1>2, <1>3, <1>4, <1>5 DEF LiveAt, c, V

\* Where control goes: to a position flow reaches, or to the end.
LEMMA GoesOn ==
  ASSUME NEW g, IsCompilable(g), NEW p \in DOMAIN g.code, NEW e
  PROVE  LET c == g.code
             q == PositionAfter(c, p, e)
         IN  /\ q \in FlowsTo(c, p) \/ q = Len(c) + 1
             /\ c[p].op = "return" => q = Len(c) + 1
             /\ ~IsTerminator(c[p]) => q = p + 1
             /\ c[p].op = "jump" => /\ c[p].destination \in LabelsIn(c)
                                    /\ q = PositionOf(c, c[p].destination)
             /\ c[p].op = "branch" =>
                  LET l == IF ValueOf(e, c[p].condition) # 0
                            THEN c[p].trueLabel ELSE c[p].falseLabel
                  IN  l \in LabelsIn(c) /\ q = PositionOf(c, l)
<1> DEFINE c == g.code
           i == c[p]
           q == PositionAfter(c, p, e)
<1>1. Len(c) \in Nat /\ DOMAIN c = 1..Len(c) /\ LabelsOf(i) \subseteq LabelsIn(c)
  BY CodeIsPlaced
<1>2. p \in DOMAIN c
  OBVIOUS
<1> HIDE DEF c
<1>3. ASSUME NEW l \in LabelsIn(c)
      PROVE  /\ PositionOf(c, l) \in DOMAIN c /\ IsLabel(c[PositionOf(c, l)])
             /\ c[PositionOf(c, l)].label = l
  <2>1. \E n \in DOMAIN c : IsLabel(c[n]) /\ c[n].label = l
    BY DEF LabelsIn
  <2> QED
    BY <2>1 DEF PositionOf
<1> SUFFICES /\ q \in FlowsTo(c, p) \/ q = Len(c) + 1
             /\ i.op = "return" => q = Len(c) + 1
             /\ ~IsTerminator(i) => q = p + 1
             /\ i.op = "jump" => i.destination \in LabelsIn(c) /\ q = PositionOf(c, i.destination)
             /\ i.op = "branch" =>
                  LET l == IF ValueOf(e, i.condition) # 0 THEN i.trueLabel ELSE i.falseLabel
                  IN  l \in LabelsIn(c) /\ q = PositionOf(c, l)
  BY DEF c
<1>4. FlowsTo(c, p) = IF IsTerminator(i)
                        THEN { n \in DOMAIN c : IsLabel(c[n]) /\ c[n].label \in LabelsOf(i) }
                        ELSE {p + 1} \cap DOMAIN c
  BY DEF FlowsTo
<1>5. CASE i.op = "jump"
  <2>1. i.destination \in LabelsOf(i) /\ q = PositionOf(c, i.destination)
    BY <1>5 DEF LabelsOf, PositionAfter
  <2> HIDE DEF i, q
  <2> QED
    BY <1>1, <1>3, <1>4, <1>5, <2>1 DEF IsTerminator
<1>6. CASE i.op = "branch"
  <2> DEFINE l == IF ValueOf(e, i.condition) # 0 THEN i.trueLabel ELSE i.falseLabel
  <2>1. l \in LabelsOf(i) /\ q = PositionOf(c, l)
    BY <1>6 DEF LabelsOf, PositionAfter
  <2> HIDE DEF i, q, l
  <2>2. l \in LabelsIn(c) /\ q \in FlowsTo(c, p)
    BY <1>1, <1>3, <1>4, <1>6, <2>1 DEF IsTerminator
  <2> QED
    BY <1>6, <2>1, <2>2 DEF IsTerminator, l
<1>7. CASE i.op = "return"
  <2>1. q = Len(c) + 1
    BY <1>7 DEF PositionAfter
  <2> QED
    BY <1>7, <2>1 DEF IsTerminator
<1>8. CASE ~IsTerminator(i)
  <2>1. q = p + 1
    BY <1>8 DEF PositionAfter, IsTerminator
  <2>2. q \in DOMAIN c \/ q = Len(c) + 1
    BY <1>1, <1>2, <2>1
  <2> HIDE DEF i, q
  <2> QED
    BY <1>4, <1>8, <2>1, <2>2 DEF IsTerminator
<1> QED
  BY <1>5, <1>6, <1>7, <1>8 DEF IsTerminator

\* An instruction the list can execute, with the values it reads in place, is
\* ready to be executed by the machine.
LEMMA BecomesReady ==
  ASSUME NEW g \in Compiled, NEW p \in DOMAIN g.code, NEW e, EnvIsTyped(g, e),
         CanStep(e, g.code[p]), NEW s, InBody(g, s), InPlace(g, p, e, s)
  PROVE  Ready(g, s, e, g.code[p])
<1> DEFINE i == g.code[p]
<1>1. IsCompilable(g) /\ IsTyped(g)
  BY CompiledAreCompilable, CompiledAreSound
<1>2. IsInstruction(i) /\ IsPlaced(g, i) /\ i \in Range(g.code)
  BY <1>1, CodeIsPlaced DEF Range
<1>3. GetSources(i) \subseteq LiveAt(g, p) /\ GetSources(i) \subseteq DOMAIN e
  BY <1>1, LiveNames DEF CanStep
<1>4. i.op = "binop" => HasValue(i.fn, ValueOf(e, i.rightVal))
  BY DEF CanStep
<1>5. i.op = "binop" /\ i.fn \in {"And", "Or"} =>
        \A o \in {i.leftVal, i.rightVal} :
          IF o.kind = "name" THEN o.name \in g.booleans ELSE o.value \in {0, 1}
  BY <1>1, <1>2 DEF IsTyped
<1> HIDE DEF i
<1>6. ASSUME NEW o \in Operands(i)
      PROVE  /\ IsOperand(g, o) /\ OperandIn(g, s, o) = ValueOf(e, o) /\ ValueOf(e, o) \in Word
             /\ o.kind = "name" => o.name \in DOMAIN e
  <2>1. IsOperand(g, o)
    BY <1>2 DEF IsPlaced
  <2>2. CASE o.kind = "name"
    <3>1. o.name \in GetSources(i)
      BY <2>2 DEF GetSources, NamesIn
    <3>2. o.name \in DOMAIN e /\ In(g, s, o.name) = e[o.name] /\ e[o.name] \in Word
      BY <1>3, <3>1 DEF InPlace, EnvIsTyped
    <3> QED
      BY <2>1, <2>2, <3>2 DEF OperandIn, ValueOf
  <2>3. CASE o.kind # "name"
    <3>1. o.value \in Word
      BY <1>2, <2>3 DEF IsInstruction
    <3> QED
      BY <2>1, <2>3, <3>1 DEF OperandIn, ValueOf
  <2> QED
    BY <2>2, <2>3
<1>7. \A d \in GetDestination(i) : HasPlace(g, d)
  BY <1>2 DEF IsPlaced
<1>8. ASSUME i.op = "binop", i.fn \in {"And", "Or"}, NEW o \in {i.leftVal, i.rightVal}
      PROVE  ValueOf(e, o) \in {0, 1}
  <2>1. o \in Operands(i)
    BY <1>8 DEF Operands
  <2>2. CASE o.kind = "name"
    BY <1>5, <1>6, <1>8, <2>1, <2>2 DEF ValueOf, EnvIsTyped
  <2>3. CASE o.kind # "name"
    BY <1>5, <1>8, <2>3 DEF ValueOf
  <2> QED
    BY <2>2, <2>3
<1>9. Ready(g, s, e, i)
  BY <1>2, <1>4, <1>6, <1>7, <1>8 DEF Ready
<1> QED
  BY <1>9 DEF i

\* A name of a truth value is given one.
LEMMA EnvStaysTyped ==
  ASSUME NEW g \in Compiled, NEW p \in DOMAIN g.code, NEW e, EnvIsTyped(g, e),
         CanStep(e, g.code[p]), NEW v \in Word,
         g.code[p].op = "call" /\ g.code[p].destination \in g.booleans => v \in {0, 1}
  PROVE  EnvIsTyped(g, EnvAfter(e, g.code[p], v))
<1> DEFINE i == g.code[p]
           after == EnvAfter(e, i, v)
           truth(o) == IF o.kind = "name" THEN o.name \in g.booleans ELSE o.value \in {0, 1}
<1>1. IsCompilable(g) /\ IsTyped(g)
  BY CompiledAreCompilable, CompiledAreSound
<1>2. \A x \in DOMAIN after : after[x] \in Word
  BY <1>1, ListStaysTyped DEF EnvIsTyped
<1>3. i \in Range(g.code) /\ IsInstruction(i)
  BY <1>1, CodeIsPlaced DEF Range
<1>4. GetDestination(i) \cap g.booleans # {} =>
        /\ i.op = "const" => truth(i.value)
        /\ i.op = "move"  => truth(i.source)
        /\ i.op = "binop" => i.fn \notin {"Add", "Subtract", "Multiply", "Divide"}
        /\ i.op = "unary" => i.fn = "Not"
  <2>1. GetDestination(i) # {} => i.op \in {"const", "move", "binop", "unary", "call"}
    BY DEF GetDestination
  <2> QED
    BY <1>1, <1>3, <2>1 DEF IsTyped
<1>5. GetSources(i) \subseteq DOMAIN e
  BY DEF CanStep
<1>6. i.op = "call" /\ i.destination \in g.booleans => v \in {0, 1}
  OBVIOUS
<1> HIDE DEF i
<1>7. ASSUME NEW x \in GetDestination(i), x \in g.booleans
      PROVE  ResultOf(e, i, v) \in {0, 1}
  <2>1. i.op \in {"const", "move", "binop", "unary", "call"} /\ x = i.destination
    BY DEF GetDestination
  <2>2. CASE i.op = "const"
    <3>1. i.value.kind # "name"
      BY <1>3, <2>2 DEF IsInstruction
    <3> QED
      BY <1>4, <1>7, <2>2, <3>1 DEF ResultOf
  <2>3. CASE i.op = "move"
    <3> DEFINE o == i.source
    <3>1. truth(o)
      BY <1>4, <1>7, <2>3
    <3>2. o.kind = "name" => o.name \in DOMAIN e
      BY <1>5, <2>3 DEF GetSources, NamesIn, Operands
    <3>3. ResultOf(e, i, v) = ValueOf(e, o)
      BY <2>3 DEF ResultOf
    <3> HIDE DEF o
    <3> QED
      BY <3>1, <3>2, <3>3 DEF ValueOf, EnvIsTyped
  <2>4. CASE i.op = "binop"
    <3>1. i.fn \in {"Equal", "LessThan", "LessThanEqual", "GreaterThan", "GreaterThanEqual",
                    "And", "Or"}
      BY <1>3, <1>4, <1>7, <2>4 DEF IsInstruction
    <3>2. \A b : Truth(b) \in {0, 1}
      BY DEF Truth
    <3> DEFINE l == ValueOf(e, i.leftVal)
               r == ValueOf(e, i.rightVal)
    <3> HIDE DEF l, r
    <3>3. EvalBinOp(i.fn, l, r) \in {0, 1}
      BY <3>1, <3>2 DEF EvalBinOp
    <3> QED
      BY <2>4, <3>3 DEF ResultOf, l, r
  <2>5. CASE i.op = "unary"
    <3>1. i.fn = "Not"
      BY <1>4, <1>7, <2>5
    <3> QED
      BY <2>5, <3>1 DEF ResultOf, EvalUnaryOp, Truth
  <2>6. CASE i.op = "call"
    BY <1>6, <1>7, <2>1, <2>6 DEF ResultOf
  <2> QED
    BY <2>1, <2>2, <2>3, <2>4, <2>5, <2>6
<1>8. \A x \in DOMAIN after \cap g.booleans : after[x] \in {0, 1}
  BY <1>7 DEF EnvAfter, EnvIsTyped
<1> QED
  BY <1>2, <1>8 DEF EnvIsTyped, i

\* Once the machine has done what an instruction does, the names needed next
\* are in place.
LEMMA ValuesArrive ==
  ASSUME NEW g \in Compiled, NEW p \in ReachableIn(g.code), NEW e, NEW s,
         InPlace(g, p, e, s), NEW v, NEW t, Settled(g, s, t, e, g.code[p], v),
         NEW q \in FlowsTo(g.code, p)
  PROVE  q \in ReachableIn(g.code) /\ InPlace(g, q, EnvAfter(e, g.code[p], v), t)
<1> DEFINE i == g.code[p]
           after == EnvAfter(e, i, v)
           D == GetDestination(i)
<1>1. /\ IsCompilable(g)
      /\ SparesLiveNames(g.code, NamesOf(g.code), g.registers)
  BY CompiledAreCompilable, CompiledAreSound
<1>2. Len(g.code) \in Nat /\ DOMAIN g.code = 1..Len(g.code)
  BY <1>1, CodeIsPlaced
<1>3. p \in DOMAIN g.code /\ q \in ReachableIn(g.code)
  BY <1>2, ReachableInside, ReachableIsClosed
<1>4. q \in DOMAIN g.code /\ LiveAt(g, q) \ D \subseteq LiveAt(g, p)
  BY <1>1, <1>3, LiveNames
<1>5. LiveAt(g, q) \subseteq NamesOf(g.code)
  BY <1>1, <1>4, LiveNames
<1>6. NamesOf(g.code) \subseteq DOMAIN g.registers \cup g.spilled
  BY <1>1 DEF IsCompilable
<1>7. ASSUME NEW d \in D, NEW x \in LiveAt(g, q), x # d PROVE Apart(g, d, x)
  <2> DEFINE S == UNION { LiveAt(g, n) : n \in FlowsTo(g.code, p) }
  <2>1. Overwritten(g.registers, d, S) = {}
    BY <1>1 DEF SparesLiveNames, LiveAt
  <2>2. x \in S
    OBVIOUS
  <2> HIDE DEF S
  <2>3. Overwritten(g.registers, d, {x}) = {}
    BY <2>1, <2>2 DEF Overwritten
  <2>4. HasPlace(g, x)
    BY <1>5, <1>6 DEF HasPlace
  <2> QED
    BY <1>7, <2>3, <2>4 DEF Apart
<1>8. ASSUME NEW x \in LiveAt(g, q) PROVE x \in DOMAIN after /\ In(g, t, x) = after[x]
  <2>1. CASE x \in D
    BY <2>1 DEF Settled, EnvAfter
  <2>2. CASE x \notin D
    <3>1. x \in LiveAt(g, p) /\ HasPlace(g, x)
      BY <1>4, <1>5, <1>6, <2>2 DEF HasPlace
    <3>2. x \in DOMAIN e /\ In(g, s, x) = e[x]
      BY <3>1 DEF InPlace
    <3>3. \A d \in D : Apart(g, d, x)
      BY <1>7, <2>2
    <3>4. In(g, t, x) = In(g, s, x)
      BY <3>1, <3>3 DEF Settled
    <3> QED
      BY <2>2, <3>2, <3>4 DEF EnvAfter
  <2> QED
    BY <2>1, <2>2
<1> QED
  BY <1>3, <1>8 DEF InPlace

-----------------------------------------------------------------------------
(***************************************************************************)
(* Steps of the machine.                                                   *)
(***************************************************************************)

\* What a machine step does to registers, memory and place.
LEMMA PlainStep ==
  ASSUME Straight \/ Store \/ CallStep
  PROVE  /\ UNCHANGED <<f, asm, start, live, pos, env, result, called, halted>>
         /\ Machine /\ Current.op \notin {"label", "j", "bnez", "ret", "throw"}
         /\ State(regs', mem') = Effect(Current, State(regs, mem), called[2])
         /\ pc' = pc + 1 /\ running' = (pc' \notin Range(start))
<1> DEFINE s == State(regs, mem)
<1>1. s.regs = regs /\ s.mem = mem
  BY DEF State
<1>2. CASE Straight
  <2>1. /\ Current.op \notin {"label", "j", "bnez", "sd", "call", "ret", "throw"}
        /\ regs' = [regs EXCEPT ![Current.rd] = Written(Current, regs, mem)] /\ mem' = mem
    BY <1>2 DEF Straight
  <2>2. Effect(Current, s, called[2]) = SetRegister(s, Current.rd, Written(Current, s.regs, s.mem))
    BY <2>1 DEF Effect
  <2> HIDE DEF s
  <2>3. SetRegister(s, Current.rd, Written(Current, s.regs, s.mem)) = State(regs', mem')
    BY <1>1, <2>1 DEF SetRegister
  <2> QED
    BY <1>2, <2>1, <2>2, <2>3 DEF Straight, GoTo, code, list, s
<1>3. CASE Store
  <2>1. /\ Current.op = "sd" /\ regs' = regs
        /\ mem' = [mem EXCEPT ![regs["sp"] + Current.offset] = regs[Current.rs]]
    BY <1>3 DEF Store
  <2>2. Effect(Current, s, called[2])
          = SetMemory(s, s.regs["sp"] + Current.offset, s.regs[Current.rs])
    BY <2>1 DEF Effect
  <2> HIDE DEF s
  <2>3. SetMemory(s, s.regs["sp"] + Current.offset, s.regs[Current.rs]) = State(regs', mem')
    BY <1>1, <2>1 DEF SetMemory
  <2> QED
    BY <1>3, <2>1, <2>2, <2>3 DEF Store, GoTo, code, list, s
<1>4. CASE CallStep
  <2>1. Current.op = "call" /\ regs' = AfterCall(regs, called[2]) /\ mem' = mem
    BY <1>4 DEF CallStep
  <2>2. Effect(Current, s, called[2]) = State(AfterCall(s.regs, called[2]), s.mem)
    BY <2>1 DEF Effect
  <2> HIDE DEF s
  <2>3. State(AfterCall(s.regs, called[2]), s.mem) = State(regs', mem')
    BY <1>1, <2>1
  <2> QED
    BY <1>4, <2>1, <2>2, <2>3 DEF CallStep, GoTo, code, list, s
<1> QED
  BY <1>2, <1>3, <1>4

\* A label, a jump or a branch moves the machine and nothing else.
LEMMA TransferStep ==
  ASSUME Transfer
  PROVE  /\ UNCHANGED <<f, asm, start, live, pos, env, result, called, halted, regs, mem>>
         /\ Machine /\ Current.op \in {"label", "j", "bnez"}
         /\ pc' = IF Current.op = "label" \/ (Current.op = "bnez" /\ regs[Current.rs] = 0)
                    THEN pc + 1 ELSE Target(Current.label)
         /\ running' = (pc' \notin Range(start))
<1> DEFINE n == IF Current.op = "label" \/ (Current.op = "bnez" /\ regs[Current.rs] = 0)
                  THEN pc + 1 ELSE Target(Current.label)
<1>1. UNCHANGED <<code, list, regs, mem, halted>>
  BY DEF Transfer
<1>2. Machine /\ Current.op \in {"label", "j", "bnez"}
  BY DEF Transfer
<1>3. pc' = n /\ running' = (n \notin Range(start))
  BY DEF Transfer, GoTo
<1>4. UNCHANGED <<f, asm, start, live, pos, env, result, called, halted, regs, mem>>
  BY <1>1 DEF code, list
<1> HIDE DEF n
<1>5. pc' = n /\ running' = (pc' \notin Range(start))
  BY <1>3
<1> QED
  BY <1>2, <1>4, <1>5 DEF n

-----------------------------------------------------------------------------
(***************************************************************************)
(* The invariant of the simulation.                                        *)
(***************************************************************************)

\* The list has executed position p, from names e and, if it is a call, with
\* result v; the machine had the state s then.
Doing(p, e, v, s) ==
  LET i == f.code[p] IN
  /\ p \in ReachableIn(f.code)
  /\ Ready(f, s, e, i) /\ InPlace(f, p, e, s)
  /\ pos = PositionAfter(f.code, p, e) /\ env = EnvAfter(e, i, v)
  /\ result = IF i.op = "return" THEN <<ValueOf(e, i.value)>> ELSE <<>>
  /\ i.op = "call" =>
       called = <<[k \in DOMAIN i.arguments |-> ValueOf(e, i.arguments[k])], v>>

\* The machine has executed the first j instructions emitted for it; at the
\* last one of a branch, it has not branched.
After(p, e, v, s, j) ==
  LET t == Piece(f, p) IN
  /\ running /\ j \in 0..(Len(t) - 1)
  /\ pc = start[p] + j /\ State(regs, mem) = Ran(t, s, v)[j]
  /\ f.code[p].op = "branch" /\ j = Len(t) - 1 => ValueOf(e, f.code[p].condition) = 0

Working == \E p, e, v, s, j : Doing(p, e, v, s) /\ After(p, e, v, s, j)

\* The two are at a boundary.
Waiting ==
  /\ ~running /\ ~AtEnd /\ result = <<>>
  /\ pos \in ReachableIn(f.code) /\ pc = start[pos]
  /\ InPlace(f, pos, env, State(regs, mem))

\* The registers of the parameters, and the parameters stored so far, when
\* the machine is at n.
Stored(e, r, m, n) ==
  \A k \in DOMAIN f.parameters :
    LET x == f.parameters[k] IN
    /\ r[Arg(k - 1)] = e[x]
    /\ NumSaved(f) + 2 + k < n /\ x \in NeededOnEntry(f) => In(f, State(r, m), x) = e[x]

\* The prologue and the stores of the parameters.
Entering ==
  /\ running /\ pos = 1 /\ result = <<>> /\ pc <= Len(Entry(f))
  /\ DOMAIN env = Range(f.parameters)
  /\ Stored(env, regs, mem, pc)

\* The epilogue.
Leaving ==
  /\ AtEnd /\ pc >= EpilogueAt(f)
  /\ result # <<>> => regs["a0"] = result[1]

SInv ==
  /\ start = StartOfPieces(f) /\ live = LiveBefore(f.code, NamesOf(f.code))
  /\ EnvIsTyped(f, env)
  /\ Entering \/ Waiting \/ Working \/ Leaving

\* What all of it rests on.
LEMMA Layout ==
  ASSUME IInv, SInv
  PROVE  /\ f \in Compiled /\ IsCompilable(f)
         /\ HoldsPieces(f, asm, start) /\ HoldsParameters(f, asm)
         /\ NumSaved(f) \in Nat /\ EpilogueAt(f) \in Nat
         /\ LastOf(f) = EpilogueAt(f) + NumSaved(f) + 3
         /\ pc \in Nat
<1>1. f \in Compiled /\ IsCompilable(f)
  BY CompiledAreCompilable DEF IInv
<1>2. HoldsPieces(f, asm, start) /\ HoldsParameters(f, asm)
  BY <1>1, PiecesAreLaidOut, ParametersAreLaidOut DEF IInv, SInv
<1>3. NumSaved(f) \in Nat /\ EpilogueAt(f) \in Nat /\ LastOf(f) = EpilogueAt(f) + NumSaved(f) + 3
  BY <1>1, Places
<1>4. pc \in Nat
  BY <1>3 DEF IInv
<1> QED
  BY <1>1, <1>2, <1>3, <1>4

-----------------------------------------------------------------------------
(***************************************************************************)
(* Inside the assembly of an instruction.                                  *)
(***************************************************************************)

\* What the machine finds inside the assembly of an instruction.
LEMMA WorkingAt ==
  ASSUME IInv, SInv, NEW p, NEW e, NEW v, NEW s, NEW j, Doing(p, e, v, s), After(p, e, v, s, j)
  PROVE  LET t == Piece(f, p)
             i == f.code[p]
         IN  /\ p \in 1..Len(f.code) /\ Len(f.code) \in Nat
             /\ IsShaped(t, i) /\ Len(t) \in Nat /\ j \in Nat /\ j + 1 \in 1..Len(t)
             /\ Current = t[j + 1] /\ pc = start[p] + j /\ pc \in Nat
             /\ State(regs, mem) = Ran(t, s, v)[j]
             /\ Ran(t, s, v)[j + 1] = Effect(Current, State(regs, mem), v)
             /\ FindsItsValues(e, i, Current, State(regs, mem))
             /\ j + 1 < Len(t) => pc + 1 \notin Range(start)
             /\ j + 1 = Len(t) => pc + 1 = start[p + 1]
<1> DEFINE t == Piece(f, p)
           i == f.code[p]
           n == Len(f.code)
<1>1. IsCompilable(f) /\ HoldsPieces(f, asm, start)
  BY Layout
<1>2. p \in 1..n /\ n \in Nat /\ IsShaped(t, i)
  <2>1. n \in Nat /\ DOMAIN f.code = 1..n /\ \A q \in 1..n : IsShaped(Piece(f, q), f.code[q])
    BY <1>1, CodeIsPlaced
  <2>2. p \in DOMAIN f.code
    BY <2>1, ReachableInside DEF Doing
  <2> QED
    BY <2>1, <2>2
<1>3. /\ Len(t) \in Nat /\ j \in 0..(Len(t) - 1) /\ pc = start[p] + j
      /\ State(regs, mem) = Ran(t, s, v)[j]
  BY <1>1, <1>2 DEF After, HoldsPieces
<1>4. /\ start[p] \in Nat /\ start[p + 1] = start[p] + Len(t) /\ DOMAIN start = 1..(n + 1)
      /\ asm[start[p] + j] = t[j + 1]
      /\ \A q \in 1..(n + 1) : start[q] \in Nat
      /\ \A q, r \in 1..(n + 1) : q <= r => start[q] <= start[r]
  <2>1. p \in 1..(n + 1)
    BY <1>2
  <2> QED
    BY <1>1, <1>2, <1>3, <2>1 DEF HoldsPieces
<1>5. CarriesOut(f, s, e, i, v, t)
  BY <1>1, GeneratedCarriesOut DEF Doing, Piece
<1> HIDE DEF t, i, n
<1>6. j \in Nat /\ j + 1 \in 1..Len(t) /\ (j + 1) - 1 = j /\ pc \in Nat
  BY <1>3, <1>4
<1>7. Current = t[j + 1]
  BY <1>3, <1>4 DEF Current
<1>8. Ran(t, s, v)[j + 1] = Effect(Current, State(regs, mem), v)
  BY <1>3, <1>6, <1>7, RanUnfold
<1>9. FindsItsValues(e, i, Current, State(regs, mem))
  <2> DEFINE k == j + 1
  <2>1. k \in 1..Len(t) /\ k - 1 = j
    BY <1>6
  <2> HIDE DEF k
  <2>2. FindsItsValues(e, i, t[k], Ran(t, s, v)[k - 1])
    BY <1>5, <2>1 DEF CarriesOut
  <2> QED
    BY <1>3, <1>7, <2>1, <2>2 DEF k
<1>10. ASSUME j + 1 < Len(t) PROVE pc + 1 \notin Range(start)
  <2> SUFFICES ASSUME NEW q \in 1..(n + 1), start[q] = pc + 1
               PROVE  FALSE
    BY <1>4 DEF Range
  <2>1. p \in 1..(n + 1) /\ p + 1 \in 1..(n + 1) /\ (q <= p \/ p + 1 <= q)
    BY <1>2
  <2>2. start[q] <= start[p] \/ start[p + 1] <= start[q]
    BY <1>4, <2>1
  <2> QED
    BY <1>3, <1>4, <1>10, <2>2
<1>11. j + 1 = Len(t) => pc + 1 = start[p + 1]
  BY <1>3, <1>4
<1> QED
  BY <1>2, <1>3, <1>6, <1>7, <1>8, <1>9, <1>10, <1>11 DEF t, i, n

\* The machine has done all of it and is where the list is.
LEMMA Arrives ==
  ASSUME IInv, SInv, NEW p, NEW e, NEW v, NEW s, Doing(p, e, v, s),
         UNCHANGED <<f, asm, start, live, pos, env, result, called, halted>>,
         pc' = start[pos], running' = (pc' \notin Range(start)),
         State(regs', mem') = Does(Piece(f, p), s, v),
         f.code[p].op = "return" => regs'[Arg(0)] = ValueOf(e, f.code[p].value)
  PROVE  SInv'
<1> DEFINE i == f.code[p]
           n == Len(f.code)
           t == Does(Piece(f, p), s, v)
<1>1. IsCompilable(f) /\ HoldsPieces(f, asm, start) /\ f \in Compiled
  BY Layout
<1>2. n \in Nat /\ DOMAIN f.code = 1..n
  BY <1>1, CodeIsPlaced
<1>3. /\ p \in ReachableIn(f.code) /\ Ready(f, s, e, i) /\ InPlace(f, p, e, s)
      /\ pos = PositionAfter(f.code, p, e) /\ env = EnvAfter(e, i, v)
      /\ result = IF i.op = "return" THEN <<ValueOf(e, i.value)>> ELSE <<>>
  BY DEF Doing
<1>4. p \in DOMAIN f.code
  BY <1>2, <1>3, ReachableInside
<1>5. /\ pos \in FlowsTo(f.code, p) \/ pos = n + 1
      /\ i.op = "return" => pos = n + 1
  BY <1>1, <1>3, <1>4, GoesOn
<1>6. \A q \in FlowsTo(f.code, p) : q \in 1..n
  BY <1>2, FlowStaysInside
<1>7. ~running'
  <2>1. DOMAIN start = 1..(n + 1)
    BY <1>1 DEF HoldsPieces
  <2>2. pos \in 1..(n + 1)
    BY <1>2, <1>5, <1>6
  <2> QED
    BY <2>1, <2>2 DEF Range
<1>8. Settled(f, s, t, e, i, v)
  BY <1>1, <1>3, GeneratedCarriesOut DEF CarriesOut, Piece
<1>9. start' = StartOfPieces(f') /\ live' = LiveBefore(f'.code, NamesOf(f'.code))
      /\ EnvIsTyped(f', env')
  BY DEF SInv
<1>10. CASE pos \in FlowsTo(f.code, p)
  <2>1. pos \in ReachableIn(f.code) /\ InPlace(f, pos, env, t)
    BY <1>1, <1>3, <1>8, <1>10, ValuesArrive
  <2>2. pos \in 1..n /\ i.op # "return"
    BY <1>2, <1>5, <1>6, <1>10
  <2>3. result' = <<>>
    BY <1>3, <2>2
  <2>4. ~(pos' > Len(f'.code))
    BY <1>2, <2>2
  <2>5. InPlace(f', pos', env', State(regs', mem'))
    BY <2>1
  <2> HIDE DEF t
  <2>6. Waiting'
    BY <1>7, <2>1, <2>3, <2>4, <2>5 DEF Waiting, AtEnd
  <2> QED
    BY <1>9, <2>6 DEF SInv
<1>11. CASE pos = n + 1
  <2>1. pos' > Len(f'.code)
    BY <1>2, <1>11
  <2>2. pc' = EpilogueAt(f')
    BY <1>1, <1>11 DEF HoldsPieces
  <2>3. EpilogueAt(f') \in Nat
    BY Layout
  <2>4. result' # <<>> => regs'["a0"] = result'[1]
    <3>1. Arg(0) = "a0"
      BY DEF Arg
    <3> QED
      BY <1>3, <3>1
  <2>5. Leaving'
    BY <2>1, <2>2, <2>3, <2>4 DEF Leaving, AtEnd
  <2> QED
    BY <1>9, <2>5 DEF SInv
<1> QED
  BY <1>5, <1>10, <1>11

\* The last two instructions of a branch.
LEMMA BranchEnds ==
  ASSUME NEW g, IsCompilable(g), NEW p \in 1..Len(g.code), g.code[p].op = "branch"
  PROVE  LET t == Piece(g, p) IN Len(t) \in Nat /\ Len(t) > 1 /\ t[Len(t) - 1].op = "bnez"
<1> DEFINE i == g.code[p]
           t == GenerateInstruction(g, i)
           l == LoadValue(g, i.condition, "t0")
           x == Bnez(l.reg, i.trueLabel)
           y == J(i.falseLabel)
           u == <<x, y>>
<1>1. IsPlaced(g, i) /\ i.op = "branch"
  BY CodeIsPlaced
<1> HIDE DEF i
<1>2. Plain(l.emit) /\ InTurn(t, l.emit, <<x, y>>)
  BY <1>1, LeavingIsMadeOf
<1>3. x.op = "bnez"
  BY DEF Bnez
<1> DEFINE a == l.emit
<1> HIDE DEF t, x, y, a, l
<1>4. Len(t) \in Nat /\ Len(t) > 1 /\ t[Len(t) - 1] = x
  BY <1>2, RanInPlain DEF a
<1> QED
  BY <1>3, <1>4 DEF t, i, Piece

\* The machine goes on inside the assembly of the instruction.
LEMMA GoesOnInside ==
  ASSUME IInv, SInv, NEW p, NEW e, NEW v, NEW s, NEW j, Doing(p, e, v, s), After(p, e, v, s, j),
         UNCHANGED <<f, asm, start, live, pos, env, result, called, halted>>,
         pc' = pc + 1, running' = (pc' \notin Range(start)),
         State(regs', mem') = Ran(Piece(f, p), s, v)[j + 1], j + 1 < Len(Piece(f, p)),
         f.code[p].op = "branch" /\ j + 1 = Len(Piece(f, p)) - 1 =>
           ValueOf(e, f.code[p].condition) = 0
  PROVE  SInv'
<1> DEFINE t == Piece(f, p)
<1>1. /\ Len(t) \in Nat /\ j \in Nat /\ pc = start[p] + j /\ pc \in Nat
      /\ pc + 1 \notin Range(start)
  BY WorkingAt
<1>2. start[p] \in Nat
  <2>1. HoldsPieces(f, asm, start) /\ p \in 1..Len(f.code) /\ Len(f.code) \in Nat
    BY Layout, WorkingAt
  <2>2. p \in 1..(Len(f.code) + 1)
    BY <2>1
  <2> QED
    BY <2>1, <2>2 DEF HoldsPieces
<1>3. Doing(p, e, v, s)'
  BY DEF Doing
<1>4. After(p, e, v, s, j + 1)'
  <2>1. j + 1 \in 0..(Len(t) - 1) /\ pc + 1 = start[p] + (j + 1)
    BY <1>1, <1>2
  <2> QED
    BY <1>1, <2>1 DEF After
<1>5. Working'
  BY <1>3, <1>4 DEF Working
<1> QED
  BY <1>5 DEF SInv

\* An instruction that is no jump.
LEMMA WorkingPlain ==
  ASSUME IInv, SInv, NEW p, NEW e, NEW v, NEW s, NEW j, Doing(p, e, v, s), After(p, e, v, s, j),
         Straight \/ Store \/ CallStep
  PROVE  SInv'
<1> DEFINE t == Piece(f, p)
           i == f.code[p]
<1>1. /\ UNCHANGED <<f, asm, start, live, pos, env, result, called, halted>>
      /\ Current.op \notin {"label", "j", "bnez", "ret", "throw"}
      /\ State(regs', mem') = Effect(Current, State(regs, mem), called[2])
      /\ pc' = pc + 1 /\ running' = (pc' \notin Range(start))
  BY PlainStep
<1>2. /\ p \in 1..Len(f.code) /\ Len(f.code) \in Nat
      /\ IsShaped(t, i) /\ Len(t) \in Nat /\ j \in Nat /\ j + 1 \in 1..Len(t)
      /\ Current = t[j + 1]
      /\ Ran(t, s, v)[j + 1] = Effect(Current, State(regs, mem), v)
      /\ j + 1 = Len(t) => pc + 1 = start[p + 1]
  BY WorkingAt
<1>3. State(regs', mem') = Ran(t, s, v)[j + 1]
  <2>1. CASE Current.op = "call"
    <3>1. i.op = "call"
      BY <1>2, <2>1 DEF IsShaped
    <3>2. called[2] = v
      BY <3>1 DEF Doing
    <3> QED
      BY <1>1, <1>2, <3>2
  <2>2. CASE Current.op # "call"
    <3>1. Effect(Current, State(regs, mem), called[2]) = Effect(Current, State(regs, mem), v)
      BY <2>2 DEF Effect
    <3> QED
      BY <1>1, <1>2, <3>1
  <2> QED
    BY <2>1, <2>2
<1>4. CASE j + 1 < Len(t)
  <2>1. i.op = "branch" => j + 1 # Len(t) - 1
    <3> SUFFICES ASSUME i.op = "branch", j + 1 = Len(t) - 1
                 PROVE  FALSE
      OBVIOUS
    <3>1. t[Len(t) - 1].op = "bnez"
      BY <1>2, BranchEnds, Layout
    <3> QED
      BY <1>1, <1>2, <3>1
  <2> QED
    BY <1>1, <1>3, <1>4, <2>1, GoesOnInside
<1>5. CASE j + 1 = Len(t)
  <2>1. ~IsTerminator(i)
    BY <1>1, <1>2, <1>5 DEF IsShaped
  <2>2. pos = p + 1
    <3>1. IsCompilable(f) /\ p \in DOMAIN f.code
      BY <1>2, Layout, CodeIsPlaced
    <3> QED
      BY <2>1, <3>1, GoesOn DEF Doing
  <2>3. State(regs', mem') = Does(t, s, v)
    BY <1>3, <1>5 DEF Does
  <2>4. i.op # "return"
    BY <2>1 DEF IsTerminator
  <2> QED
    BY <1>1, <1>2, <1>5, <2>2, <2>3, <2>4, Arrives
<1> QED
  BY <1>2, <1>4, <1>5

\* A label passed, a branch or a jump.
LEMMA WorkingTransfer ==
  ASSUME IInv, SInv, NEW p, NEW e, NEW v, NEW s, NEW j, Doing(p, e, v, s), After(p, e, v, s, j),
         Transfer
  PROVE  SInv'
<1> DEFINE t == Piece(f, p)
           i == f.code[p]
           c == f.code
<1>1. /\ UNCHANGED <<f, asm, start, live, pos, env, result, called, halted>>
      /\ regs' = regs /\ mem' = mem /\ Current.op \in {"label", "j", "bnez"}
      /\ running' = (pc' \notin Range(start))
      /\ pc' = IF Current.op = "label" \/ (Current.op = "bnez" /\ regs[Current.rs] = 0)
                 THEN pc + 1 ELSE Target(Current.label)
  BY TransferStep
<1>2. /\ p \in 1..Len(c) /\ Len(c) \in Nat
      /\ IsShaped(t, i) /\ Len(t) \in Nat /\ j \in Nat /\ j + 1 \in 1..Len(t)
      /\ Current = t[j + 1] /\ State(regs, mem) = Ran(t, s, v)[j]
      /\ Ran(t, s, v)[j + 1] = Effect(Current, State(regs, mem), v)
      /\ FindsItsValues(e, i, Current, State(regs, mem))
      /\ j + 1 = Len(t) => pc + 1 = start[p + 1]
  BY WorkingAt
<1>3. State(regs, mem).regs = regs
  BY DEF State
<1>4. State(regs', mem') = Ran(t, s, v)[j + 1]
  BY <1>1, <1>2 DEF Effect
<1>5. /\ IsCompilable(f) /\ p \in DOMAIN c /\ pos = PositionAfter(c, p, e)
      /\ start = StartOfPieces(f)
  BY <1>2, Layout, CodeIsPlaced DEF Doing, SInv
<1>6. /\ ~IsTerminator(i) => pos = p + 1
      /\ i.op = "return" => pos = Len(c) + 1
      /\ i.op = "jump" => i.destination \in LabelsIn(c) /\ pos = PositionOf(c, i.destination)
      /\ i.op = "branch" =>
           LET l == IF ValueOf(e, i.condition) # 0 THEN i.trueLabel ELSE i.falseLabel
           IN  l \in LabelsIn(c) /\ pos = PositionOf(c, l)
  BY <1>5, GoesOn
<1>7. /\ \A l \in LabelsIn(c) : Target(l) = start[PositionOf(c, l)]
      /\ Target(EpilogueLabel) = start[Len(c) + 1]
  BY <1>5, TargetsAreStarts, Layout DEF HoldsPieces
<1>8. j + 1 = Len(t) => State(regs', mem') = Does(t, s, v)
  BY <1>4 DEF Does
<1>9. CASE Current.op = "label"
  <2>1. i.op = "label" /\ t = <<At(i.label)>>
    BY <1>2, <1>9 DEF IsShaped
  <2>2. Len(t) = 1
    <3> HIDE DEF t
    <3> QED
      BY <2>1, DoesOne DEF HasLength
  <2>3. j + 1 = Len(t) /\ pc' = start[pos]
    <3>1. ~IsTerminator(i)
      BY <2>1 DEF IsTerminator
    <3>2. j + 1 = Len(t)
      BY <1>2, <2>2
    <3> QED
      BY <1>1, <1>2, <1>6, <1>9, <3>1, <3>2
  <2> QED
    BY <1>1, <1>8, <2>1, <2>3, Arrives
<1>10. CASE Current.op = "bnez"
  <2>1. i.op = "branch" /\ j + 1 = Len(t) - 1 /\ Current.label = i.trueLabel
    BY <1>2, <1>10 DEF IsShaped
  <2>2. regs[Current.rs] = ValueOf(e, i.condition)
    BY <1>2, <1>3, <1>10 DEF FindsItsValues
  <2>3. CASE ValueOf(e, i.condition) = 0
    <3>1. pc' = pc + 1
      BY <1>1, <1>10, <2>2, <2>3
    <3>2. j + 1 < Len(t)
      BY <1>2, <2>1
    <3> QED
      BY <1>1, <1>4, <2>3, <3>1, <3>2, GoesOnInside
  <2>4. CASE ValueOf(e, i.condition) # 0
    <3>1. pc' = start[pos]
      BY <1>1, <1>6, <1>7, <1>10, <2>1, <2>2, <2>4
    <3>2. State(regs', mem') = Does(t, s, v)
      <4> DEFINE k == j + 1
      <4>1. k \in Nat /\ k + 1 = Len(t) /\ Len(t) \in Nat /\ Len(t) > 0
        BY <1>2, <2>1
      <4>2. t[Len(t)].op = "j"
        BY <1>2, <2>1 DEF IsShaped, IsTerminator
      <4>3. Ran(t, s, v)[k] = State(regs', mem')
        BY <1>4
      <4> HIDE DEF k, t
      <4>4. Ran(t, s, v)[k + 1] = Effect(t[k + 1], Ran(t, s, v)[k], v)
        <5>1. k \in Nat
          BY <4>1
        <5>2. \A n \in Nat : Ran(t, s, v)[n + 1] = Effect(t[n + 1], Ran(t, s, v)[n], v)
          BY RanUnfold
        <5> QED
          BY <5>1, <5>2
      <4>5. Effect(t[k + 1], Ran(t, s, v)[k], v) = Ran(t, s, v)[k]
        BY <4>1, <4>2 DEF Effect
      <4> QED
        BY <4>1, <4>3, <4>4, <4>5 DEF Does
    <3> QED
      BY <1>1, <2>1, <3>1, <3>2, Arrives
  <2> QED
    BY <2>3, <2>4
<1>11. CASE Current.op = "j"
  <2>1. /\ j + 1 = Len(t) /\ IsTerminator(i)
        /\ i.op = "jump" => Current.label = i.destination
        /\ i.op = "branch" => Current.label = i.falseLabel
        /\ i.op = "return" => Current.label = EpilogueLabel
    BY <1>2, <1>11 DEF IsShaped
  <2>2. pc' = Target(Current.label)
    BY <1>1, <1>11
  <2>3. i.op = "branch" => ValueOf(e, i.condition) = 0
    <3>1. j = Len(t) - 1
      BY <1>2, <2>1
    <3> QED
      BY <3>1 DEF After
  <2>4. pc' = start[pos]
    BY <1>6, <1>7, <2>1, <2>2, <2>3 DEF IsTerminator
  <2>5. i.op = "return" => regs'[Arg(0)] = ValueOf(e, i.value)
    BY <1>1, <1>2, <1>3, <1>11 DEF FindsItsValues
  <2> QED
    BY <1>1, <1>8, <2>1, <2>4, <2>5, Arrives
<1> QED
  BY <1>1, <1>9, <1>10, <1>11

-----------------------------------------------------------------------------
(***************************************************************************)
(* The steps of the list, the entry and the end.                           *)
(***************************************************************************)

\* After the prologue and before the last instruction the frame is there.
LEMMA FrameIsThere ==
  ASSUME IInv, pc # 1, pc # LastOf(f)
  PROVE  InBody(f, State(regs, mem))
BY DEF IInv, RegistersIn, MemoryIn, InBody, State

\* The list takes a step, and the machine begins what was emitted for it.
LEMMA ListStepKeepsSInv == IInv /\ SInv /\ ListStep => SInv'
<1> SUFFICES ASSUME IInv, SInv, ListStep
             PROVE  SInv'
  OBVIOUS
<1>1. /\ f \in Compiled /\ IsCompilable(f) /\ HoldsPieces(f, asm, start)
      /\ HoldsParameters(f, asm) /\ LastOf(f) = EpilogueAt(f) + NumSaved(f) + 3
      /\ NumSaved(f) \in Nat /\ EpilogueAt(f) \in Nat
  BY Layout
<1>2. ~running /\ ~AtEnd
  BY DEF ListStep
<1>3. Waiting
  <2>1. ~Entering /\ ~Working /\ ~Leaving
    BY <1>2 DEF Entering, Working, After, Leaving
  <2> QED
    BY <2>1 DEF SInv
<1>4. PICK p, s, e : p = pos /\ s = State(regs, mem) /\ e = env
  OBVIOUS
<1> DEFINE i == f.code[p]
           t == Piece(f, p)
<1>5. PICK v \in IF i.op = "call" THEN WordsFor(i.destination, CallResults) ELSE {0} :
        /\ env' = EnvAfter(e, i, v)
        /\ called' = IF i.op = "call"
                       THEN <<[k \in DOMAIN i.arguments |-> ValueOf(e, i.arguments[k])], v>>
                       ELSE called
  BY <1>4 DEF ListStep
<1>6. /\ UNCHANGED <<f, asm, start, live, pc, regs, mem, halted>> /\ running' = TRUE
      /\ CanStep(e, i) /\ pos' = PositionAfter(f.code, p, e)
      /\ result' = IF i.op = "return" THEN <<ValueOf(e, i.value)>> ELSE <<>>
  BY <1>3, <1>4 DEF ListStep, code, Waiting
<1>7. p \in ReachableIn(f.code) /\ pc = start[p] /\ InPlace(f, p, e, s)
  BY <1>3, <1>4 DEF Waiting
<1>8. p \in 1..Len(f.code) /\ p \in DOMAIN f.code /\ Len(f.code) \in Nat
  <2>1. Len(f.code) \in Nat /\ DOMAIN f.code = 1..Len(f.code)
    BY <1>1, CodeIsPlaced
  <2> QED
    BY <1>7, <2>1, ReachableInside
<1>9. InBody(f, s)
  <2> DEFINE n == Len(f.code)
             m == Len(f.parameters)
  <2>1. /\ start[1] = Len(Entry(f)) + 1 /\ Len(Entry(f)) = NumSaved(f) + 2 + m
        /\ m \in Nat /\ start[n + 1] = EpilogueAt(f)
    BY <1>1 DEF HoldsPieces, HoldsParameters
  <2>2. start[1] <= start[p] /\ start[p] <= start[n + 1] /\ start[p] \in Nat
    <3>1. 1 \in 1..(n + 1) /\ p \in 1..(n + 1) /\ n + 1 \in 1..(n + 1) /\ 1 <= p /\ p <= n + 1
      BY <1>8
    <3> QED
      BY <1>1, <3>1 DEF HoldsPieces
  <2> HIDE DEF n, m
  <2>3. pc # 1 /\ pc # LastOf(f)
    BY <1>1, <1>7, <2>1, <2>2
  <2> QED
    BY <1>4, <2>3, FrameIsThere
<1>10. EnvIsTyped(f, e)
  BY <1>4 DEF SInv
<1>11. Ready(f, s, e, i)
  BY <1>1, <1>6, <1>7, <1>8, <1>9, <1>10, BecomesReady
<1>12. v \in Word /\ (i.op = "call" /\ i.destination \in f.booleans => v \in {0, 1})
  <2>1. v \in Word
    BY <1>5, PassedAreWords
  <2> QED
    BY <1>5, <2>1 DEF WordsFor
<1>13. EnvIsTyped(f', env')
  BY <1>1, <1>5, <1>6, <1>8, <1>10, <1>12, EnvStaysTyped
<1>14. Doing(p, e, v, s)'
  BY <1>5, <1>6, <1>7, <1>11 DEF Doing
<1>15. After(p, e, v, s, 0)'
  <2>1. Len(t) \in Nat /\ Len(t) > 0
    BY <1>1, <1>8 DEF HoldsPieces
  <2>2. i.op = "branch" => 0 # Len(t) - 1
    <3> SUFFICES ASSUME i.op = "branch" PROVE 0 # Len(t) - 1
      OBVIOUS
    <3> DEFINE l == Len(t)
    <3>1. l \in Nat /\ l > 1
      BY <1>1, <1>8, <2>1, BranchEnds
    <3> HIDE DEF l
    <3>2. 0 # l - 1
      BY <3>1
    <3> QED
      BY <3>2 DEF l
  <2>3. start[p] \in Nat
    <3>1. p \in 1..(Len(f.code) + 1)
      BY <1>8
    <3> QED
      BY <1>1, <3>1 DEF HoldsPieces
  <2>4. Ran(t, s, v)[0] = s
    BY RanUnfold
  <2>5. 0 \in 0..(Len(t) - 1) /\ pc = start[p] + 0
    BY <1>7, <2>1, <2>3
  <2>6. State(regs', mem') = Ran(t, s, v)[0]
    BY <1>4, <1>6, <2>4
  <2> QED
    BY <1>6, <2>2, <2>5, <2>6 DEF After
<1>16. Working'
  BY <1>14, <1>15 DEF Working
<1> QED
  BY <1>6, <1>13, <1>16 DEF SInv

\* One instruction of the entry.
LEMMA EntryStep ==
  ASSUME IInv, SInv, Entering, ParametersApart(f), Straight \/ Store \/ CallStep
  PROVE  Stored(env, regs', mem', pc + 1)
<1> DEFINE n == NumSaved(f)
           z == EpilogueAt(f)
           m == Len(f.parameters)
           P == f.parameters
<1>1. IsCompilable(f) /\ IsLaidOut(f, asm, z)
  BY WhereItIs
<1>2. /\ HoldsParameters(f, asm) /\ n \in Nat /\ z \in Nat /\ pc \in Nat
      /\ LastOf(f) = z + n + 3 /\ n + 3 <= z
  BY <1>1, Layout, Places
<1>3. /\ m \in 0..8 /\ DOMAIN P = 1..m /\ Len(Entry(f)) = n + 2 + m
      /\ \A k \in 1..m : HasPlace(f, P[k]) /\ StoreValue(f, P[k], Arg(k - 1)) = <<asm[n + 2 + k]>>
  BY <1>2 DEF HoldsParameters
<1>4. /\ pc >= 1 /\ pc <= n + 2 + m
      /\ Stored(env, regs, mem, pc)
  BY <1>3 DEF Entering, Stored, IInv
<1>5. \A k \in 1..m : Arg(k - 1) \in Registers \ SavedReg /\ Arg(k - 1) # "sp"
  <2> TAKE k \in 1..m
  <2>1. k - 1 \in 0..7
    <3> HIDE DEF m
    <3> QED
      BY <1>3
  <2>2. Arg(k - 1) \in Scratch
    BY <2>1 DEF Scratch
  <2> QED
    BY <2>2, RegistersApart
<1>6. /\ State(regs', mem') = Effect(Current, State(regs, mem), called[2])
  BY PlainStep
<1>7. \A r, w : State(r, w).regs = r /\ State(r, w).mem = w
  BY DEF State
<1> HIDE DEF n, z, m
<1>8. CASE pc <= n + 2
  <2>1. \A k \in 1..m : ~(n + 2 + k < pc + 1)
    BY <1>2, <1>3, <1>8
  <2>2. \A k \in 1..m : regs'[Arg(k - 1)] = regs[Arg(k - 1)]
    <3>1. Current.op = "sd" \/ Current = RI("addi", "sp", "sp", -Size(f))
      <4>1. CASE pc = 1
        BY <1>1, <4>1 DEF IsLaidOut, Current
      <4>2. CASE pc = 2
        BY <1>1, <4>2 DEF IsLaidOut, Current, Sd
      <4>3. CASE pc \in 3..(n + 2)
        <5> DEFINE k == pc - 2
        <5>1. k \in 1..n /\ pc = 2 + k
          BY <1>2, <4>3
        <5> HIDE DEF k
        <5>2. asm[2 + k] = Sd(SavedRegisters(f)[k], 8 * k)
          BY <1>1, <5>1 DEF IsLaidOut, n
        <5> QED
          BY <5>1, <5>2 DEF Sd, Current
      <4> QED
        BY <1>2, <1>4, <1>8, <4>1, <4>2, <4>3
    <3>2. CASE Current.op = "sd"
      <4>1. regs' = regs
        BY <3>2 DEF Straight, Store, CallStep
      <4> QED
        BY <4>1
    <3>3. CASE Current = RI("addi", "sp", "sp", -Size(f))
      <4>1. Current.op = "addi" /\ Current.rd = "sp"
        BY <3>3 DEF RI
      <4>2. regs' = [regs EXCEPT !["sp"] = Written(Current, regs, mem)]
        BY <4>1 DEF Straight, Store, CallStep
      <4>3. DOMAIN regs = Registers
        BY DEF IInv, RegistersIn
      <4> QED
        BY <1>5, <4>2, <4>3
    <3> QED
      BY <3>1, <3>2, <3>3
  <2> QED
    BY <1>3, <1>4, <2>1, <2>2 DEF Stored, n
<1>9. CASE pc > n + 2
  <2> DEFINE k0 == pc - n - 2
             d == P[k0]
             source == Arg(k0 - 1)
             s == State(regs, mem)
             t == State(regs', mem')
  <2>1. k0 \in 1..m /\ n + 2 + k0 = pc
    BY <1>2, <1>3, <1>4, <1>9
  <2> HIDE DEF k0
  <2>2. InBody(f, s)
    <3>1. Len(Entry(f)) < z
      <4>1. HoldsPieces(f, asm, start) /\ Len(f.code) \in Nat
        BY <1>1, Layout, CodeIsPlaced
      <4>2. 1 \in 1..(Len(f.code) + 1) /\ Len(f.code) + 1 \in 1..(Len(f.code) + 1)
            /\ 1 <= Len(f.code) + 1
        BY <4>1
      <4>3. start[1] <= start[Len(f.code) + 1] /\ start[1] = Len(Entry(f)) + 1
            /\ start[Len(f.code) + 1] = z
        BY <4>1, <4>2 DEF HoldsPieces, z
      <4> QED
        BY <1>2, <1>3, <4>3
    <3>2. pc # 1 /\ pc # LastOf(f)
      BY <1>2, <1>3, <1>4, <1>9, <3>1
    <3> QED
      BY <3>2, FrameIsThere
  <2>3. HasPlace(f, d) /\ StoreValue(f, d, source) = <<Current>>
    BY <1>3, <2>1 DEF Current
  <2>4. /\ Puts(f, s, t, d, regs[source])
        /\ \A r \in Registers \ SavedReg : regs'[r] = regs[r]
    <3> DEFINE u == StoreValue(f, d, source)
    <3>1. /\ Puts(f, s, Does(u, s, called[2]), d, s.regs[source])
          /\ \A r \in Registers \ SavedReg : Does(u, s, called[2]).regs[r] = s.regs[r]
      BY <1>1, <2>2, <2>3, StoreStores
    <3>2. u = <<Current>>
      BY <2>3
    <3> HIDE DEF u, d, source, s, t
    <3>3. Does(u, s, called[2]) = Effect(Current, s, called[2])
      BY <3>2, DoesOne
    <3>4. Does(u, s, called[2]) = t
      BY <1>6, <3>3 DEF s, t
    <3>5. s.regs = regs /\ t.regs = regs'
      BY <1>7 DEF s, t
    <3> QED
      BY <3>1, <3>4, <3>5
  <2>5. regs[source] = env[d]
    BY <1>3, <1>4, <2>1 DEF Stored
  <2>6. ASSUME NEW k \in 1..m, n + 2 + k < pc + 1, P[k] \in NeededOnEntry(f)
        PROVE  In(f, t, P[k]) = env[P[k]]
    <3>1. CASE P[k] = d
      <4> HIDE DEF d, t, source
      <4> QED
        BY <2>4, <2>5, <3>1 DEF Puts
    <3>2. CASE P[k] # d
      <4>1. k # k0 /\ k < k0 /\ k \in 1..(k0 - 1) /\ n + 2 + k < pc
        <5>1. k # k0
          BY <3>2
        <5> QED
          BY <1>2, <1>3, <2>1, <2>6, <5>1
      <4> DEFINE S == NeededOnEntry(f) \cap { P[j] : j \in 1..(k0 - 1) }
      <4>2. Overwritten(f.registers, d, S) = {}
        BY <1>3, <2>1 DEF ParametersApart
      <4>3. P[k] \in S
        BY <2>6, <4>1
      <4> HIDE DEF S
      <4>4. Overwritten(f.registers, d, {P[k]}) = {}
        BY <4>2, <4>3 DEF Overwritten
      <4>5. Apart(f, d, P[k])
        BY <1>3, <3>2, <4>4 DEF Apart
      <4>6. In(f, s, P[k]) = env[P[k]]
        BY <1>3, <1>4, <2>6, <4>1 DEF Stored, n
      <4> HIDE DEF d, t, s, source
      <4> QED
        BY <2>4, <4>5, <4>6 DEF Puts
    <3> QED
      BY <3>1, <3>2
  <2>7. \A k \in 1..m : regs'[Arg(k - 1)] = env[P[k]]
    BY <1>3, <1>4, <1>5, <2>4 DEF Stored
  <2> QED
    BY <1>3, <2>6, <2>7 DEF Stored, n
<1> QED
  BY <1>2, <1>8, <1>9

\* The machine enters the function.
LEMMA EnteringKeepsSInv ==
  ASSUME IInv, SInv, Entering, ParametersApart(f), Straight \/ Store \/ CallStep
  PROVE  SInv'
<1> DEFINE n == Len(f.code)
           last == Len(Entry(f))
<1>1. /\ f \in Compiled /\ IsCompilable(f) /\ HoldsPieces(f, asm, start)
      /\ HoldsParameters(f, asm) /\ pc \in Nat /\ NumSaved(f) \in Nat
  BY Layout
<1>2. /\ UNCHANGED <<f, asm, start, live, pos, env, result, called, halted>>
      /\ pc' = pc + 1 /\ running' = (pc' \notin Range(start))
  BY PlainStep
<1>3. n \in Nat /\ DOMAIN f.code = 1..n /\ f.code \in Seq(Range(f.code))
  BY <1>1, CodeIsPlaced
<1>4. Stored(env, regs', mem', pc + 1)
  BY EntryStep
<1>5. Stored(env, regs, mem, pc)'
  BY <1>2, <1>4 DEF Stored
<1>6. /\ pos = 1 /\ result = <<>> /\ pc <= last /\ DOMAIN env = Range(f.parameters)
  BY DEF Entering
<1>7. /\ DOMAIN start = 1..(n + 1) /\ start[1] = last + 1 /\ start[n + 1] = EpilogueAt(f)
      /\ \A q \in 1..(n + 1) : start[q] \in Nat /\ start[1] <= start[q]
      /\ 1 \in 1..(n + 1)
  <2>1. 1 \in 1..(n + 1) /\ \A q \in 1..(n + 1) : 1 <= q
    BY <1>3
  <2> QED
    BY <1>1, <2>1 DEF HoldsPieces
<1>8. last \in Nat /\ last = NumSaved(f) + 2 + Len(f.parameters) /\ Len(f.parameters) \in Nat
      /\ DOMAIN f.parameters = 1..Len(f.parameters)
  <2> DEFINE m == Len(f.parameters)
  <2>1. m \in 0..8 /\ last = NumSaved(f) + 2 + m /\ DOMAIN f.parameters = 1..m
    BY <1>1 DEF HoldsParameters
  <2> HIDE DEF m, last
  <2>2. m \in Nat /\ last \in Nat
    BY <1>1, <2>1
  <2> QED
    BY <2>1, <2>2 DEF m
<1>9. start' = StartOfPieces(f') /\ live' = LiveBefore(f'.code, NamesOf(f'.code))
      /\ EnvIsTyped(f', env')
  BY <1>2 DEF SInv
<1>10. CASE pc < last
  <2>1. pc' <= last
    <3> HIDE DEF last
    <3> QED
      BY <1>1, <1>2, <1>8, <1>10
  <2>2. running'
    <3>1. \A q \in 1..(n + 1) : start[q] # pc + 1
      <4> HIDE DEF last, n
      <4> QED
        BY <1>1, <1>7, <1>8, <1>10
    <3> QED
      BY <1>2, <1>7, <3>1 DEF Range
  <2>3. Entering'
    BY <1>2, <1>5, <1>6, <2>1, <2>2 DEF Entering
  <2> QED
    BY <1>9, <2>3 DEF SInv
<1>11. CASE pc = last
  <2>1. pc' = start[1] /\ ~running'
    BY <1>2, <1>7, <1>11 DEF Range
  <2>2. CASE n = 0
    <3>1. pos' > Len(f'.code)
      BY <1>2, <1>6, <2>2
    <3>2. pc' = EpilogueAt(f') /\ EpilogueAt(f') \in Nat
      BY <1>2, <1>7, <2>1, <2>2
    <3>3. Leaving'
      BY <1>2, <1>6, <3>1, <3>2 DEF Leaving, AtEnd
    <3> QED
      BY <1>9, <3>3 DEF SInv
  <2>3. CASE n # 0
    <3>1. 1 \in 1..n /\ 1 \in ReachableIn(f.code) /\ f.code # <<>>
      <4>1. 1 \in 1..n
        BY <1>3, <2>3
      <4>2. 1 \in ReachableIn(f.code)
        BY <1>3, <4>1, ReachableIsClosed
      <4> QED
        BY <2>3, <4>1, <4>2
    <3>2. ~(pos' > Len(f'.code))
      BY <1>2, <1>3, <1>6, <3>1
    <3>3. ASSUME NEW x \in LiveAt(f, 1)
          PROVE  x \in DOMAIN env /\ In(f, State(regs', mem'), x) = env[x]
      <4>1. x \in NeededOnEntry(f)
        BY <3>1 DEF NeededOnEntry, LiveAt
      <4>2. x \in Range(f.parameters)
        BY <1>1, <4>1, CompiledAreSound
      <4>3. PICK k \in DOMAIN f.parameters : x = f.parameters[k]
        BY <4>2 DEF Range
      <4>4. NumSaved(f) + 2 + k < pc + 1
        <5> DEFINE m == Len(f.parameters)
        <5> HIDE DEF m, last
        <5>1. k \in 1..m /\ m \in Nat /\ last = NumSaved(f) + 2 + m
          BY <1>8 DEF m
        <5> QED
          BY <1>1, <1>11, <5>1
      <4> QED
        BY <1>4, <1>6, <4>1, <4>2, <4>3, <4>4 DEF Stored
    <3>4. InPlace(f, 1, env, State(regs', mem'))
      BY <3>3 DEF InPlace
    <3>5. Waiting'
      BY <1>2, <1>6, <2>1, <3>1, <3>2, <3>4 DEF Waiting, AtEnd
    <3> QED
      BY <1>9, <3>5 DEF SInv
  <2> QED
    BY <2>2, <2>3
<1> QED
  <2> HIDE DEF last
  <2> QED
    BY <1>1, <1>6, <1>8, <1>10, <1>11

\* No transfer and no return before the body.
LEMMA EntryIsStraight ==
  ASSUME IInv, SInv, Entering
  PROVE  Current.op \notin {"label", "j", "bnez", "ret", "call"}
<1> DEFINE n == NumSaved(f)
           m == Len(f.parameters)
<1>1. IsCompilable(f) /\ IsLaidOut(f, asm, EpilogueAt(f)) /\ HoldsParameters(f, asm)
      /\ n \in Nat /\ pc \in Nat
  BY WhereItIs, Layout
<1>2. m \in 0..8 /\ pc >= 1 /\ pc <= n + 2 + m
      /\ \A k \in 1..m : asm[n + 2 + k].op \in {"mv", "sd"}
  BY <1>1 DEF HoldsParameters, Entering, IInv
<1> HIDE DEF n, m
<1>3. CASE pc = 1 \/ pc = 2
  BY <1>1, <1>3 DEF IsLaidOut, Current, RI, Sd
<1>4. CASE pc \in 3..(n + 2)
  <2> DEFINE k == pc - 2
  <2>1. k \in 1..n /\ pc = 2 + k
    BY <1>1, <1>4
  <2> HIDE DEF k
  <2>2. asm[2 + k] = Sd(SavedRegisters(f)[k], 8 * k)
    BY <1>1, <2>1 DEF IsLaidOut, n
  <2> QED
    BY <2>1, <2>2 DEF Sd, Current
<1>5. CASE pc > n + 2
  <2> DEFINE k == pc - n - 2
  <2>1. k \in 1..m /\ pc = n + 2 + k
    BY <1>1, <1>2, <1>5
  <2> HIDE DEF k
  <2> QED
    BY <1>2, <2>1 DEF Current
<1> QED
  BY <1>1, <1>2, <1>3, <1>4, <1>5

\* The epilogue leaves the result alone.
LEMMA LeavingKeepsSInv ==
  ASSUME IInv, SInv, Leaving, Straight \/ Store \/ CallStep \/ Transfer
  PROVE  SInv'
<1> DEFINE n == NumSaved(f)
           z == EpilogueAt(f)
<1>1. /\ IsCompilable(f) /\ pc \in Nat /\ n \in Nat /\ z \in Nat
  BY Layout
<1>2. /\ \A k \in 1..n : SavedRegisters(f)[k] \in SavedReg
  BY <1>1, Places
<1>3. Arg(0) = "a0" /\ "a0" \in Scratch /\ "a0" \notin SavedReg /\ "a0" # "sp" /\ "a0" # "ra"
  <2>1. Arg(0) = "a0" /\ Arg(0) \in Scratch
    BY ScratchRegisters DEF Arg
  <2> QED
    BY <2>1, RegistersApart
<1>4. pc >= z /\ Current.op # "ret"
  BY DEF Leaving, Straight, Store, CallStep, Transfer
<1>5. \/ Current.op = "label"
      \/ /\ Current.op \notin {"label", "j", "bnez", "sd", "call"}
         /\ Current.rd \in SavedReg \cup {"sp", "ra"}
  <2> HIDE DEF n, z
  <2>1. ~(pc = 1 /\ z > 1) /\ pc \notin (n + 3)..(z - 1)
    BY <1>1, <1>4
  <2>2. n + 3 <= z
    BY <1>1, Places DEF n, z
  <2>3. \/ Current = At(EpilogueLabel) \/ Current = Ld("ra", 0)
        \/ Current = RI("addi", "sp", "sp", Size(f)) \/ Current = Ret
        \/ \E k \in 1..n : Current = Ld(SavedRegisters(f)[k], 8 * k)
    <3>1. pc # 1 /\ pc # 2 /\ \A k \in 1..n : pc # 2 + k
      BY <1>1, <1>4, <2>2
    <3> QED
      BY <2>1, <3>1, WhereItIs DEF n, z
  <2>4. Current # Ret
    BY <1>4 DEF Ret
  <2>5. At(EpilogueLabel).op = "label"
    BY DEF At
  <2>6. \A r, o : Ld(r, o).op = "ld" /\ Ld(r, o).rd = r
    BY DEF Ld
  <2>7. RI("addi", "sp", "sp", Size(f)).op = "addi" /\ RI("addi", "sp", "sp", Size(f)).rd = "sp"
    BY DEF RI
  <2> QED
    BY <1>2, <2>3, <2>4, <2>5, <2>6, <2>7
<1>6. /\ UNCHANGED <<f, asm, start, live, pos, env, result>> /\ pc' = pc + 1
      /\ regs'["a0"] = regs["a0"]
  <2>1. CASE Transfer
    <3>1. Current.op = "label"
      BY <1>5, <2>1 DEF Transfer
    <3> QED
      BY <2>1, <3>1, TransferStep
  <2>2. CASE Straight \/ Store \/ CallStep
    <3>1. /\ UNCHANGED <<f, asm, start, live, pos, env, result>> /\ pc' = pc + 1
          /\ Current.op # "label"
      BY <2>2, PlainStep
    <3>2. Current.rd \in SavedReg \cup {"sp", "ra"} /\ Current.op \notin {"sd", "call"}
      BY <1>5, <3>1
    <3>3. regs' = [regs EXCEPT ![Current.rd] = Written(Current, regs, mem)]
      BY <2>2, <3>2 DEF Straight, Store, CallStep
    <3>4. DOMAIN regs = Registers
      BY DEF IInv, RegistersIn
    <3> QED
      BY <1>3, <3>1, <3>2, <3>3, <3>4
  <2> QED
    BY <2>1, <2>2
<1>7. pc' >= z
  <2> HIDE DEF z
  <2> QED
    BY <1>1, <1>4, <1>6
<1>8. Leaving'
  BY <1>6, <1>7 DEF Leaving, AtEnd
<1> QED
  BY <1>6, <1>8 DEF SInv

-----------------------------------------------------------------------------
(***************************************************************************)
(* The simulation.                                                         *)
(***************************************************************************)

\* The list and the machine start together.
LEMMA InitEstablishesSInv == Init => SInv
<1> SUFFICES ASSUME Init
             PROVE  SInv
  OBVIOUS
<1>1. /\ f \in Compiled /\ start = StartOfPieces(f) /\ live = LiveBefore(f.code, NamesOf(f.code))
      /\ pos = 1 /\ pc = 1 /\ result = <<>> /\ running = TRUE
      /\ env \in [Range(f.parameters) -> Arguments \cup {0, 1}]
      /\ \A x \in DOMAIN env : env[x] \in WordsFor(x, Arguments)
      /\ regs = EntryRegs(f, env)
  BY DEF Init
<1>2. HoldsParameters(f, GenerateFunction(f)) /\ IsCompilable(f)
  BY <1>1, CompiledAreCompilable, ParametersAreLaidOut
<1>3. EnvIsTyped(f, env)
  BY <1>1, PassedAreWords DEF EnvIsTyped, WordsFor
<1> DEFINE n == NumSaved(f)
           m == Len(f.parameters)
<1>4. m \in 0..8 /\ DOMAIN f.parameters = 1..m /\ n \in Nat /\ Len(Entry(f)) = n + 2 + m
  BY <1>2 DEF HoldsParameters
<1> HIDE DEF n, m
<1>5. ASSUME NEW k \in DOMAIN f.parameters
      PROVE  /\ regs[Arg(k - 1)] = env[f.parameters[k]] /\ ~(n + 2 + k < pc)
  <2>1. k \in 1..8 /\ \A j \in DOMAIN f.parameters : j \in 1..8
    BY <1>4
  <2>2. \A j \in DOMAIN f.parameters : Arg(k - 1) = Arg(j - 1) => j = k
    BY <2>1, ArgumentsApart
  <2>3. Arg(k - 1) \in Registers /\ Arg(k - 1) # "sp"
    <3>1. k - 1 \in 0..7
      BY <2>1
    <3> QED
      BY <3>1, RegistersApart DEF Scratch
  <2> DEFINE r == Arg(k - 1)
             j == CHOOSE i \in DOMAIN f.parameters : r = Arg(i - 1)
  <2>4. j = k
    BY <2>2
  <2>5. regs[r] = env[f.parameters[j]]
    <3>1. r \in Scratch
      BY <2>1 DEF Scratch
    <3>2. r \in Registers /\ r # "sp" /\ r \notin SavedReg \cup {"ra"}
      BY <2>3, <3>1, RegistersApart
    <3>3. \E i \in DOMAIN f.parameters : r = Arg(i - 1)
      OBVIOUS
    <3> HIDE DEF r
    <3> QED
      BY <1>1, <3>2, <3>3 DEF EntryRegs
  <2> HIDE DEF j
  <2> QED
    BY <1>1, <1>4, <2>1, <2>4, <2>5
<1>6. Stored(env, regs, mem, pc)
  BY <1>5 DEF Stored, n
<1>7. pc <= Len(Entry(f)) /\ DOMAIN env = Range(f.parameters)
  BY <1>1, <1>4
<1>8. Entering
  BY <1>1, <1>6, <1>7 DEF Entering
<1> QED
  BY <1>1, <1>3, <1>8 DEF SInv

\* Every step of either keeps them together, if no parameter is stored over
\* another one.
LEMMA NextKeepsSInv ==
  ASSUME \A g \in Compiled : ParametersApart(g)
  PROVE  IInv /\ SInv /\ [Next]_vars => SInv'
<1> SUFFICES ASSUME IInv, SInv, [Next]_vars
             PROVE  SInv'
  OBVIOUS
<1>1. CASE ListStep
  BY <1>1, ListStepKeepsSInv
<1>2. CASE Straight \/ Store \/ CallStep \/ Transfer
  <2>1. Machine
    BY <1>2, PlainStep, TransferStep
  <2>2. ~Waiting
    BY <2>1 DEF Waiting, Machine
  <2>3. CASE Entering
    <3>1. Straight \/ Store \/ CallStep
      BY <1>2, <2>3, EntryIsStraight DEF Transfer
    <3>2. ParametersApart(f)
      BY DEF IInv
    <3> QED
      BY <2>3, <3>1, <3>2, EnteringKeepsSInv
  <2>4. CASE Working
    <3>1. PICK p, e, v, s, j : Doing(p, e, v, s) /\ After(p, e, v, s, j)
      BY <2>4 DEF Working
    <3> QED
      BY <1>2, <3>1, WorkingPlain, WorkingTransfer
  <2>5. CASE Leaving
    BY <1>2, <2>5, LeavingKeepsSInv
  <2> QED
    BY <2>2, <2>3, <2>4, <2>5 DEF SInv
<1>3. CASE ReturnStep
  <2>1. /\ UNCHANGED <<f, asm, start, live, pos, env, result, called, pc, regs, mem, running>>
        /\ Machine /\ Current.op = "ret"
    BY <1>3 DEF ReturnStep, code, list
  <2>2. ~Waiting
    BY <2>1 DEF Waiting, Machine
  <2>3. ~Entering
    BY <2>1, EntryIsStraight
  <2>4. ~Working
    <3> SUFFICES ASSUME NEW p, NEW e, NEW v, NEW s, NEW j,
                        Doing(p, e, v, s), After(p, e, v, s, j)
                 PROVE  FALSE
      BY DEF Working
    <3> QED
      BY <2>1, WorkingAt DEF IsShaped
  <2>5. Leaving
    BY <2>2, <2>3, <2>4 DEF SInv
  <2>6. Leaving'
    BY <2>1, <2>5 DEF Leaving, AtEnd
  <2> QED
    BY <2>1, <2>6 DEF SInv
<1>4. CASE UNCHANGED vars
  <2>1. UNCHANGED <<f, asm, start, live, pos, env, result, called, pc, regs, mem, running>>
    BY <1>4 DEF vars, code, list, machine
  <2>2. Entering => Entering'
    BY <2>1 DEF Entering, Stored
  <2>3. Waiting => Waiting'
    BY <2>1 DEF Waiting, AtEnd
  <2>4. Working => Working'
    <3> SUFFICES ASSUME NEW p, NEW e, NEW v, NEW s, NEW j,
                        Doing(p, e, v, s), After(p, e, v, s, j)
                 PROVE  Working'
      BY DEF Working
    <3>1. Doing(p, e, v, s)' /\ After(p, e, v, s, j)'
      BY <2>1 DEF Doing, After
    <3> QED
      BY <3>1 DEF Working
  <2>5. Leaving => Leaving'
    BY <2>1 DEF Leaving, AtEnd
  <2> QED
    BY <2>1, <2>2, <2>3, <2>4, <2>5 DEF SInv
<1> QED
  BY <1>1, <1>2, <1>3, <1>4 DEF Next

\* The list and the machine stay related, at a boundary and between two.
LEMMA SimulationHolds ==
  ASSUME \A g \in Compiled : ParametersApart(g)
  PROVE  Spec => [](IInv /\ SInv)
<1>1. Init => IInv /\ SInv
  BY InitEstablishesIInv, InitEstablishesSInv
<1>2. IInv /\ SInv /\ [Next]_vars => (IInv /\ SInv)'
  BY NextKeepsIInv, NextKeepsSInv
<1> QED
  BY <1>1, <1>2, PTL DEF Spec

\* Whenever the list and the machine both stand at a boundary they stand at the same instruction,
\* and every name that is read later has its value in the register or the frame slot that
\* findLocation gives it: whatever generateInstruction emitted for the instructions before has
\* disturbed none of them. This is for every function whose parameters are apart; where two
\* parameters share a place the code is wrong, and the README says so.
THEOREM ValuesInPlace ==
  ASSUME \A g \in Compiled : ParametersApart(g)
  PROVE  Spec => []LiveValuesInPlace
<1>1. IInv /\ SInv => LiveValuesInPlace
  <2> SUFFICES ASSUME IInv, SInv, ~running, ~AtEnd
               PROVE  pc = start[pos] /\ \A x \in live[pos] : ValueIn(x) = env[x]
    BY DEF LiveValuesInPlace
  <2>1. Waiting
    BY DEF SInv, Entering, Working, After, Leaving
  <2>2. State(regs, mem).regs = regs /\ State(regs, mem).mem = mem
    BY DEF State
  <2>3. live[pos] = LiveAt(f, pos)
    BY DEF SInv, LiveAt
  <2> QED
    BY <2>1, <2>2, <2>3 DEF Waiting, InPlace, In, ValueIn
<1> QED
  BY <1>1, SimulationHolds, PTL

\* When the machine reaches a call, the values of the arguments are in a0, a1, ...: no move of
\* one argument into its register loses another that generateCall still has to move.
THEOREM ArgumentsPassed ==
  ASSUME \A g \in Compiled : ParametersApart(g)
  PROVE  Spec => []CallGetsItsArguments
<1>1. IInv /\ SInv => CallGetsItsArguments
  <2> SUFFICES ASSUME IInv, SInv, Machine, Current.op = "call"
               PROVE  \A k \in DOMAIN called[1] : regs[Arg(k - 1)] = called[1][k]
    BY DEF CallGetsItsArguments
  <2>1. ~Waiting /\ ~Entering
    BY EntryIsStraight DEF Waiting, Machine
  <2>2. ~Leaving
    <3> SUFFICES ASSUME Leaving PROVE FALSE
      OBVIOUS
    <3>1. /\ Current # At(EpilogueLabel) /\ Current # Ret
          /\ \A r, o : Current # Ld(r, o) /\ Current # Sd(r, o)
          /\ \A k : Current # RI("addi", "sp", "sp", k)
      BY DEF At, Ret, Ld, Sd, RI
    <3>2. pc \in (NumSaved(f) + 3)..(EpilogueAt(f) - 1)
      BY <3>1, WhereItIs
    <3> QED
      BY <3>2, Layout DEF Leaving
  <2>3. PICK p, e, v, s, j : Doing(p, e, v, s) /\ After(p, e, v, s, j)
    BY <2>1, <2>2 DEF SInv, Working
  <2> DEFINE i == f.code[p]
  <2>4. /\ IsShaped(Piece(f, p), i) /\ j + 1 \in 1..Len(Piece(f, p))
        /\ Current = Piece(f, p)[j + 1] /\ FindsItsValues(e, i, Current, State(regs, mem))
        /\ p \in 1..Len(f.code)
    BY <2>3, WorkingAt
  <2>5. i.op = "call"
    BY <2>4 DEF IsShaped
  <2>6. DOMAIN i.arguments = 1..Len(i.arguments)
    <3>1. IsInstruction(i)
      BY <2>4, CodeIsPlaced, Layout
    <3> HIDE DEF i
    <3>2. i.arguments \in Seq(Range(i.arguments))
      BY <2>5, <3>1 DEF IsInstruction
    <3> QED
      BY <3>2
  <2>7. called[1] = [k \in DOMAIN i.arguments |-> ValueOf(e, i.arguments[k])]
    BY <2>3, <2>5 DEF Doing
  <2>8. \A k \in 1..Len(i.arguments) : regs[Arg(k - 1)] = ValueOf(e, i.arguments[k])
    BY <2>4 DEF FindsItsValues, State
  <2> QED
    BY <2>6, <2>7, <2>8
<1> QED
  BY <1>1, SimulationHolds, PTL

\* When the machine returns, a0 holds the value of the return instruction that ended the list:
\* the jump to the epilogue and the reloads of the saved registers leave it there.
THEOREM ResultReturned ==
  ASSUME \A g \in Compiled : ParametersApart(g)
  PROVE  Spec => []ReturnsTheResult
<1>1. IInv /\ SInv => ReturnsTheResult
  <2> SUFFICES ASSUME IInv, SInv, halted, result # <<>>
               PROVE  regs["a0"] = result[1]
    BY DEF ReturnsTheResult
  <2>1. pc = LastOf(f) /\ IsLaidOut(f, asm, EpilogueAt(f))
    BY WhereItIs DEF IInv
  <2>2. Current.op = "ret"
    BY <2>1 DEF IsLaidOut, LastOf, Current, Ret
  <2>3. ~Entering /\ ~Waiting
    BY DEF Entering, Waiting
  <2>4. ~Working
    <3> SUFFICES ASSUME NEW p, NEW e, NEW v, NEW s, NEW j,
                        Doing(p, e, v, s), After(p, e, v, s, j)
                 PROVE  FALSE
      BY DEF Working
    <3> QED
      BY <2>2, WorkingAt DEF IsShaped
  <2> QED
    BY <2>3, <2>4 DEF SInv, Leaving
<1> QED
  BY <1>1, SimulationHolds, PTL
================================================================================
