--------------------------- MODULE ControlFlowProofs ---------------------------
(***************************************************************************)
(* What is proved of basic blocks and control flow graphs, for functions   *)
(* of any length: the blocks are the instruction list, control enters and  *)
(* leaves them at their ends, and the edges are the jumps execution can    *)
(* take.                                                                   *)
(***************************************************************************)
EXTENDS ControlFlow, Induction, SequenceTheorems

Instructions == Range(code)
Nonempty(S) == Seq(S) \ {<<>>}

\* The blocks bs and, after them, b hold the instructions before position p.
Spell(bs, b, p) ==
  LET read == Ends(bs)[Len(bs)] IN
    /\ read + Len(b) = p - 1
    /\ \A n \in DOMAIN bs : \A k \in DOMAIN bs[n] : bs[n][k] = code[Ends(bs)[n - 1] + k]
    /\ \A k \in DOMAIN b : b[k] = code[read + k]

\* Labels at the first position only, terminators at the last.
IsStraight(b) ==
  /\ \A k \in 2..Len(b) : ~IsLabel(b[k])
  /\ \A k \in 1..(Len(b) - 1) : ~IsTerminator(b[k])

\* The instructions before p, cut into the blocks bs and a rest b.
Pieces(bs, b, p) ==
  /\ bs \in Seq(Nonempty(Instructions)) /\ b \in Seq(Instructions)
  /\ Spell(bs, b, p)
  /\ \A n \in DOMAIN bs : IsStraight(bs[n])
  /\ IsStraight(b)

\* The block being filled has not met its terminator.
Open(b) == \A k \in DOMAIN b : ~IsTerminator(b[k])

-----------------------------------------------------------------------------
(***************************************************************************)
(* Where blocks end.                                                       *)
(***************************************************************************)

\* The recursion of Ends, unfolded.
LEMMA EndsUnfold ==
  ASSUME NEW bs
  PROVE  /\ Ends(bs)[0] = 0
         /\ \A n \in Nat \ {0} : Ends(bs)[n] = Ends(bs)[n - 1] + Len(bs[n])
<1> DEFINE Def(v, n) == v + Len(bs[n])
<1>1. NatInductiveDefHypothesis(Ends(bs), 0, Def)
  BY DEF NatInductiveDefHypothesis, Ends
<1>2. NatInductiveDefConclusion(Ends(bs), 0, Def)
  BY <1>1, NatInductiveDef
<1>3. Ends(bs) = [n \in Nat |-> IF n = 0 THEN 0 ELSE Ends(bs)[n - 1] + Len(bs[n])]
  BY <1>2 DEF NatInductiveDefConclusion
<1> HIDE DEF Def
<1> QED
  BY <1>3

\* Blocks end at positions, each at its length from the one before.
LEMMA EndsAreNumbers ==
  ASSUME NEW S, NEW bs \in Seq(Nonempty(S))
  PROVE  /\ Len(bs) \in Nat /\ DOMAIN bs = 1..Len(bs)
         /\ \A n \in 1..Len(bs) : /\ bs[n] \in Nonempty(S)
                                  /\ Len(bs[n]) \in Nat \ {0}
                                  /\ DOMAIN bs[n] = 1..Len(bs[n])
                                  /\ Ends(bs)[n] = Ends(bs)[n - 1] + Len(bs[n])
         /\ Ends(bs)[0] = 0
         /\ \A n \in 0..Len(bs) : Ends(bs)[n] \in Nat
<1>1. Len(bs) \in Nat /\ DOMAIN bs = 1..Len(bs)
  BY LenProperties
<1>2. \A n \in 1..Len(bs) : bs[n] \in Nonempty(S)
  BY <1>1, ElementOfSeq
<1>3. \A b \in Nonempty(S) : Len(b) \in Nat \ {0} /\ DOMAIN b = 1..Len(b)
  BY EmptySeq, LenProperties DEF Nonempty
<1>4. \A n \in 1..Len(bs) : Ends(bs)[n] = Ends(bs)[n - 1] + Len(bs[n])
  BY <1>1, EndsUnfold
<1>5. Ends(bs)[0] = 0
  BY EndsUnfold
<1> DEFINE T == { n \in Nat : Ends(bs)[n] \in Nat }
<1>6. 0 \in T
  BY <1>5
<1>7. ASSUME NEW n \in 0..(Len(bs) - 1), n \in T
      PROVE  n + 1 \in T
  <2>1. n + 1 \in 1..Len(bs) /\ (n + 1) - 1 = n
    BY <1>1
  <2>2. Ends(bs)[n + 1] = Ends(bs)[n] + Len(bs[n + 1]) /\ Len(bs[n + 1]) \in Nat
    BY <1>2, <1>3, <1>4, <2>1
  <2> QED
    BY <1>7, <2>1, <2>2
<1>8. 0..Len(bs) \subseteq T
  <2> HIDE DEF T
  <2> QED
    BY <1>1, <1>6, <1>7, IntervalInduction
<1> QED
  BY <1>1, <1>2, <1>3, <1>4, <1>5, <1>8

\* A later block ends later: blocks are not empty.
LEMMA EndsGrow ==
  ASSUME NEW S, NEW bs \in Seq(Nonempty(S)),
         NEW m \in 0..Len(bs), NEW n \in 0..Len(bs), n < m
  PROVE  Ends(bs)[n] < Ends(bs)[m]
<1> DEFINE T == { k \in (n + 1)..Len(bs) : Ends(bs)[n] < Ends(bs)[k] }
<1>1. Len(bs) \in Nat /\ n + 1 \in Nat /\ n + 1 \in 1..Len(bs) /\ (n + 1) - 1 = n
  BY EndsAreNumbers
<1>2. /\ \A k \in 1..Len(bs) : Len(bs[k]) \in Nat \ {0}
                               /\ Ends(bs)[k] = Ends(bs)[k - 1] + Len(bs[k])
      /\ \A k \in 0..Len(bs) : Ends(bs)[k] \in Nat
  BY EndsAreNumbers
<1>3. n + 1 \in T
  BY <1>1, <1>2
<1>4. ASSUME NEW k \in (n + 1)..(Len(bs) - 1), k \in T
      PROVE  k + 1 \in T
  <2>1. k + 1 \in 1..Len(bs) /\ k \in 0..Len(bs) /\ (k + 1) - 1 = k /\ k + 1 \in (n + 1)..Len(bs)
    BY <1>1
  <2>2. Ends(bs)[n] \in Nat /\ Ends(bs)[k] \in Nat /\ Ends(bs)[k + 1] \in Nat
    BY <1>2, <2>1
  <2>3. Ends(bs)[k + 1] = Ends(bs)[k] + Len(bs[k + 1]) /\ Len(bs[k + 1]) \in Nat \ {0}
    BY <1>2, <2>1
  <2> QED
    BY <1>4, <2>1, <2>2, <2>3
<1>5. (n + 1)..Len(bs) \subseteq T
  <2> HIDE DEF T
  <2> QED
    BY <1>1, <1>3, <1>4, IntervalInduction
<1> QED
  BY <1>1, <1>5

\* A further block leaves the ends before it where they are.
LEMMA EndsOfLonger ==
  ASSUME NEW S, NEW bs \in Seq(Nonempty(S)), NEW b \in Nonempty(S)
  PROVE  LET cs == Append(bs, b) IN
           /\ cs \in Seq(Nonempty(S)) /\ Len(cs) = Len(bs) + 1
           /\ \A n \in 1..Len(bs) : cs[n] = bs[n]
           /\ cs[Len(bs) + 1] = b
           /\ \A n \in 0..Len(bs) : Ends(cs)[n] = Ends(bs)[n]
           /\ Ends(cs)[Len(bs) + 1] = Ends(bs)[Len(bs)] + Len(b)
<1> DEFINE cs == Append(bs, b)
           T == { n \in Nat : Ends(cs)[n] = Ends(bs)[n] }
<1>1. /\ cs \in Seq(Nonempty(S)) /\ Len(cs) = Len(bs) + 1
      /\ \A n \in 1..Len(bs) : cs[n] = bs[n]
      /\ cs[Len(bs) + 1] = b /\ Len(bs) \in Nat
  BY AppendProperties, LenProperties
<1> HIDE DEF cs
<1>2. 0 \in T
  BY EndsUnfold
<1>3. ASSUME NEW n \in 0..(Len(bs) - 1), n \in T
      PROVE  n + 1 \in T
  <2>1. n + 1 \in 1..Len(bs) /\ (n + 1) - 1 = n /\ n + 1 \in Nat \ {0}
    BY <1>1
  <2>2. /\ Ends(cs)[n + 1] = Ends(cs)[(n + 1) - 1] + Len(cs[n + 1])
        /\ Ends(bs)[n + 1] = Ends(bs)[(n + 1) - 1] + Len(bs[n + 1])
    BY <2>1, EndsUnfold
  <2>3. cs[n + 1] = bs[n + 1] /\ Ends(cs)[n] = Ends(bs)[n]
    BY <1>1, <1>3, <2>1
  <2> QED
    BY <2>1, <2>2, <2>3
<1>4. 0..Len(bs) \subseteq T
  <2> HIDE DEF T
  <2> QED
    BY <1>1, <1>2, <1>3, IntervalInduction
<1>5. Ends(cs)[Len(bs) + 1] = Ends(cs)[Len(bs)] + Len(cs[Len(bs) + 1])
  <2>1. Len(bs) + 1 \in Nat \ {0} /\ (Len(bs) + 1) - 1 = Len(bs)
    BY <1>1
  <2> QED
    BY <2>1, EndsUnfold
<1>6. \A n \in 0..Len(bs) : Ends(cs)[n] = Ends(bs)[n]
  BY <1>4
<1>7. Len(bs) \in 0..Len(bs)
  BY <1>1
<1> QED
  BY <1>1, <1>5, <1>6, <1>7 DEF cs

\* Each position up to the last end lies in some block.
LEMMA Covered ==
  ASSUME NEW S, NEW bs \in Seq(Nonempty(S)), NEW p \in 1..Ends(bs)[Len(bs)]
  PROVE  \E n \in 1..Len(bs) : \E k \in 1..Len(bs[n]) : p = Ends(bs)[n - 1] + k
<1> DEFINE T == { n \in 0..Len(bs) : p <= Ends(bs)[n] }
<1>1. /\ Len(bs) \in Nat /\ Ends(bs)[0] = 0
      /\ \A n \in 1..Len(bs) : Len(bs[n]) \in Nat \ {0}
                               /\ Ends(bs)[n] = Ends(bs)[n - 1] + Len(bs[n])
      /\ \A n \in 0..Len(bs) : Ends(bs)[n] \in Nat
  BY EndsAreNumbers
<1>2. p \in Nat \ {0} /\ Len(bs) \in 0..Len(bs) /\ p <= Ends(bs)[Len(bs)]
  BY <1>1
<1>3. T \in SUBSET Nat /\ T # {}
  BY <1>1, <1>2
<1>4. PICK n \in T : \A m \in T : n <= m
  <2> HIDE DEF T
  <2> QED
    BY <1>3, LeastElement
<1>5. n # 0 /\ n \in 1..Len(bs) /\ n - 1 \in 0..Len(bs)
  BY <1>1, <1>2
<1>6. n - 1 \notin T
  BY <1>4, <1>5
<1>7. Ends(bs)[n - 1] < p /\ p <= Ends(bs)[n]
  BY <1>1, <1>2, <1>5, <1>6
<1>8. Ends(bs)[n] = Ends(bs)[n - 1] + Len(bs[n]) /\ Len(bs[n]) \in Nat
      /\ Ends(bs)[n - 1] \in Nat
  BY <1>1, <1>5
<1>9. p - Ends(bs)[n - 1] \in 1..Len(bs[n]) /\ p = Ends(bs)[n - 1] + (p - Ends(bs)[n - 1])
  BY <1>2, <1>7, <1>8
<1> QED
  BY <1>5, <1>9

-----------------------------------------------------------------------------
(***************************************************************************)
(* Cutting.                                                                *)
(***************************************************************************)

\* The rest can become a block as it is.
LEMMA Flushed ==
  ASSUME NEW bs, NEW b, NEW p \in Nat, Pieces(bs, b, p), b # <<>>
  PROVE  Pieces(Append(bs, b), <<>>, p)
<1> DEFINE cs == Append(bs, b)
           I == Instructions
<1>1. bs \in Seq(Nonempty(I)) /\ b \in Nonempty(I)
  BY DEF Pieces, Nonempty
<1> HIDE DEF I
<1>2. /\ Len(bs) \in Nat /\ DOMAIN bs = 1..Len(bs)
      /\ \A n \in 0..Len(bs) : Ends(bs)[n] \in Nat
  BY <1>1, EndsAreNumbers
<1>3. /\ cs \in Seq(Nonempty(I)) /\ Len(cs) = Len(bs) + 1
      /\ \A n \in 1..Len(bs) : cs[n] = bs[n]
      /\ cs[Len(bs) + 1] = b
      /\ \A n \in 0..Len(bs) : Ends(cs)[n] = Ends(bs)[n]
      /\ Ends(cs)[Len(bs) + 1] = Ends(bs)[Len(bs)] + Len(b)
  BY <1>1, EndsOfLonger
<1> HIDE DEF cs
<1>4. DOMAIN cs = 1..(Len(bs) + 1)
  BY <1>3, LenProperties
<1>5. Spell(cs, <<>>, p)
  <2>1. Ends(cs)[Len(cs)] + Len(<<>>) = p - 1
    <3>1. Ends(bs)[Len(bs)] + Len(b) = p - 1
      BY DEF Pieces, Spell
    <3>2. Len(<<>>) = 0
      OBVIOUS
    <3> QED
      BY <1>3, <3>1, <3>2
  <2>2. ASSUME NEW n \in DOMAIN cs, NEW k \in DOMAIN cs[n]
        PROVE  cs[n][k] = code[Ends(cs)[n - 1] + k]
    <3>1. CASE n \in 1..Len(bs)
      <4>1. n - 1 \in 0..Len(bs)
        BY <1>2, <3>1
      <4>2. cs[n] = bs[n] /\ Ends(cs)[n - 1] = Ends(bs)[n - 1]
        BY <1>3, <3>1, <4>1
      <4> QED
        BY <1>2, <2>2, <3>1, <4>2 DEF Pieces, Spell
    <3>2. CASE n = Len(bs) + 1
      <4>1. n - 1 = Len(bs) /\ Len(bs) \in 0..Len(bs)
        BY <1>2, <3>2
      <4>2. cs[n] = b /\ Ends(cs)[n - 1] = Ends(bs)[Len(bs)]
        BY <1>3, <3>2, <4>1
      <4> QED
        BY <2>2, <4>2 DEF Pieces, Spell
    <3> QED
      BY <1>2, <1>4, <3>1, <3>2
  <2>3. DOMAIN <<>> = {}
    OBVIOUS
  <2> QED
    BY <2>1, <2>2, <2>3 DEF Spell
<1>6. \A n \in DOMAIN cs : IsStraight(cs[n])
  BY <1>2, <1>3, <1>4 DEF Pieces
<1>7. IsStraight(<<>>) /\ <<>> \in Seq(Instructions)
  BY DEF IsStraight
<1> QED
  BY <1>3, <1>5, <1>6, <1>7 DEF Pieces, cs, I

\* The rest can take the next instruction, unless it has met a terminator or
\* the instruction is a label that should have split it.
LEMMA Grown ==
  ASSUME NEW bs, NEW b, NEW p \in 1..Len(code), code \in Seq(Instructions),
         Pieces(bs, b, p), Open(b), IsLabel(code[p]) => b = <<>>
  PROVE  Pieces(bs, Append(b, code[p]), p + 1) /\ Append(b, code[p]) # <<>>
<1> DEFINE c == Append(b, code[p])
           l == Len(b)
<1>1. Len(code) \in Nat /\ code[p] \in Instructions /\ p \in Nat
  BY LenProperties, ElementOfSeq
<1>2. b \in Seq(Instructions) /\ bs \in Seq(Nonempty(Instructions))
  BY DEF Pieces
<1>3. l \in Nat /\ DOMAIN b = 1..l
  BY <1>2, LenProperties
<1>4. /\ c \in Seq(Instructions) /\ Len(c) = l + 1
      /\ \A k \in 1..l : c[k] = b[k]
      /\ c[l + 1] = code[p]
  BY <1>1, <1>2, <1>3, AppendProperties
<1> HIDE DEF c
<1>5. DOMAIN c = 1..(l + 1)
  BY <1>4, LenProperties
<1>6. Ends(bs)[Len(bs)] \in Nat /\ Ends(bs)[Len(bs)] + l = p - 1
  <2>1. Len(bs) \in 0..Len(bs) /\ \A n \in 0..Len(bs) : Ends(bs)[n] \in Nat
    BY <1>2, EndsAreNumbers
  <2> QED
    BY <2>1 DEF Pieces, Spell
<1>7. Ends(bs)[Len(bs)] + Len(c) = (p + 1) - 1
  <2>1. \A e, m, q \in Nat : e + m = q - 1 => e + (m + 1) = (q + 1) - 1
    OBVIOUS
  <2> QED
    BY <1>1, <1>3, <1>4, <1>6, <2>1
<1>8. ASSUME NEW k \in DOMAIN c
      PROVE  c[k] = code[Ends(bs)[Len(bs)] + k]
  <2>1. CASE k \in 1..l
    BY <1>3, <1>4, <2>1 DEF Pieces, Spell
  <2>2. CASE k = l + 1
    <3>1. Ends(bs)[Len(bs)] + k = p
      BY <1>1, <1>3, <1>6, <2>2
    <3> QED
      BY <1>4, <2>2, <3>1
  <2> QED
    BY <1>3, <1>5, <2>1, <2>2
<1>9. IsStraight(c)
  <2>1. \A k \in 2..(l + 1) : ~IsLabel(c[k])
    <3> SUFFICES ASSUME NEW k \in 2..(l + 1), IsLabel(c[k])
                 PROVE  FALSE
      OBVIOUS
    <3>1. CASE k = l + 1
      <4>1. l = 0
        BY <1>4, <3>1
      <4> QED
        BY <3>1, <4>1
    <3>2. CASE k \in 2..l
      BY <1>3, <1>4, <3>2 DEF Pieces, IsStraight
    <3> QED
      BY <1>3, <3>1, <3>2
  <2>2. \A k \in 1..((l + 1) - 1) : ~IsTerminator(c[k])
    BY <1>3, <1>4 DEF Open
  <2> QED
    BY <1>4, <2>1, <2>2 DEF IsStraight
<1>10. Spell(bs, c, p + 1)
  BY <1>7, <1>8 DEF Pieces, Spell
<1>11. c # <<>>
  BY <1>3, <1>4
<1> QED
  BY <1>2, <1>4, <1>9, <1>10, <1>11 DEF Pieces, c

\* What the cutting has done so far.
CutSoFar ==
  /\ code \in Seq(Instructions) /\ IsFunctionCode(code)
  /\ next \in 1..(Len(code) + 1)
  /\ Pieces(blocks, block, next)
  /\ Open(block)

\* Before the first instruction there are no pieces.
LEMMA CutInitially == Init => CutSoFar
<1> SUFFICES ASSUME NEW c \in Functions, InitFor(c)
             PROVE  CutSoFar
  BY DEF Init
<1>1. code \in Seq(Instructions) /\ IsFunctionCode(code)
  BY FunctionsAreCode DEF InitFor, Instructions
<1>2. Len(code) \in Nat /\ next = 1 /\ block = <<>> /\ blocks = <<>>
  BY <1>1, LenProperties DEF InitFor
<1>3. /\ Len(<<>>) = 0 /\ DOMAIN <<>> = {} /\ Ends(<<>>)[0] = 0
      /\ <<>> \in Seq(Instructions) /\ <<>> \in Seq(Nonempty(Instructions))
  BY EndsUnfold
<1>4. Pieces(<<>>, <<>>, 1)
  BY <1>3 DEF Pieces, Spell, IsStraight
<1> QED
  BY <1>1, <1>2, <1>3, <1>4 DEF CutSoFar, Open

\* Taking an instruction keeps what has been done and adds it.
LEMMA CutTakes == CutSoFar /\ TakeInstruction => CutSoFar'
<1> SUFFICES ASSUME CutSoFar, TakeInstruction
             PROVE  CutSoFar'
  OBVIOUS
<1> DEFINE i == code[next]
           rest == IF SplitsBefore(i) THEN <<>> ELSE block
           cut == IF SplitsBefore(i) THEN Append(blocks, block) ELSE blocks
           grown == Append(rest, i)
<1>1. /\ code' = code /\ next' = next + 1
      /\ block' = IF IsTerminator(i) THEN <<>> ELSE grown
      /\ blocks' = IF IsTerminator(i) THEN Append(cut, grown) ELSE cut
  BY DEF TakeInstruction, Closed
<1>2. next \in 1..Len(code) /\ next \in Nat /\ Len(code) \in Nat
  BY LenProperties DEF CutSoFar, TakeInstruction
<1>3. Pieces(cut, rest, next) /\ Open(rest)
  <2>1. CASE SplitsBefore(i)
    <3>1. Pieces(Append(blocks, block), <<>>, next)
      BY <1>2, <2>1, Flushed DEF CutSoFar, SplitsBefore
    <3>2. Open(<<>>)
      BY DEF Open
    <3> QED
      BY <2>1, <3>1, <3>2
  <2>2. CASE ~SplitsBefore(i)
    BY <2>2 DEF CutSoFar
  <2> QED
    BY <2>1, <2>2
<1>4. IsLabel(i) => rest = <<>>
  BY DEF SplitsBefore
<1>5. code \in Seq(Instructions)
  BY DEF CutSoFar
<1> HIDE DEF cut, rest
<1>6. Pieces(cut, grown, next + 1) /\ grown # <<>>
  BY <1>2, <1>3, <1>4, <1>5, Grown
<1>7. Pieces(blocks', block', next') /\ Open(block')
  <2>1. CASE IsTerminator(i)
    <3> HIDE DEF grown
    <3>1. Pieces(Append(cut, grown), <<>>, next + 1)
      BY <1>2, <1>6, Flushed
    <3> QED
      BY <1>1, <2>1, <3>1 DEF Open
  <2>2. CASE ~IsTerminator(i)
    <3>1. rest \in Seq(Instructions) /\ i \in Instructions
      BY <1>2, <1>3, <1>5, ElementOfSeq DEF Pieces
    <3>2. Len(rest) \in Nat /\ DOMAIN rest = 1..Len(rest)
      BY <3>1, LenProperties
    <3>3. /\ Len(grown) = Len(rest) + 1 /\ DOMAIN grown = 1..(Len(rest) + 1)
          /\ \A k \in 1..Len(rest) : grown[k] = rest[k]
          /\ grown[Len(rest) + 1] = i
      BY <3>1, AppendProperties, LenProperties
    <3>4. Open(grown)
      <4> HIDE DEF grown, i
      <4> QED
        BY <1>3, <2>2, <3>2, <3>3 DEF Open
    <3> QED
      BY <1>1, <1>6, <2>2, <3>4
  <2> QED
    BY <2>1, <2>2
<1> HIDE DEF i, grown
<1>8. Instructions' = Instructions
  BY <1>1 DEF Instructions
<1>9. Pieces(blocks, block, next)'
  BY <1>1, <1>7, <1>8 DEF Pieces, Spell
<1>10. Open(block)'
  BY <1>7 DEF Open
<1> QED
  BY <1>1, <1>2, <1>8, <1>9, <1>10 DEF CutSoFar

\* Flushing turns the rest into the last block.
LEMMA CutFlushes == CutSoFar /\ FlushBlock => CutSoFar'
<1> SUFFICES ASSUME CutSoFar, FlushBlock
             PROVE  CutSoFar'
  OBVIOUS
<1>1. /\ code' = code /\ next' = next
      /\ block' = <<>> /\ blocks' = Append(blocks, block)
  BY DEF FlushBlock
<1>2. next \in Nat
  BY LenProperties DEF CutSoFar
<1>3. Pieces(blocks', <<>>, next)
  BY <1>1, <1>2, Flushed DEF CutSoFar, FlushBlock
<1>4. Instructions' = Instructions
  BY <1>1 DEF Instructions
<1>5. Pieces(blocks, block, next)'
  BY <1>1, <1>3, <1>4 DEF Pieces, Spell
<1> QED
  BY <1>1, <1>4, <1>5 DEF CutSoFar, Open

\* Nothing is cut while edges are made, nor by a stutter.
LEMMA CutStays ==
  CutSoFar /\ UNCHANGED <<code, next, block, blocks>> => CutSoFar'
<1> SUFFICES ASSUME CutSoFar, UNCHANGED <<code, next, block, blocks>>
             PROVE  CutSoFar'
  OBVIOUS
<1>1. Instructions' = Instructions
  BY DEF Instructions
<1>2. Pieces(blocks, block, next)'
  BY <1>1 DEF CutSoFar, Pieces, Spell
<1> QED
  BY <1>1, <1>2 DEF CutSoFar, Open

-----------------------------------------------------------------------------
(***************************************************************************)
(* Blocks and positions.                                                   *)
(***************************************************************************)

\* A block holds the instructions from its start to its end.
LEMMA BlockPositions ==
  ASSUME CutSoFar
  PROVE  /\ Len(blocks) \in Nat /\ DOMAIN blocks = 1..Len(blocks)
         /\ Len(code) \in Nat /\ DOMAIN code = 1..Len(code)
         /\ EndOf[0] = 0 /\ \A n \in 0..Len(blocks) : EndOf[n] \in Nat
         /\ EndOf[Len(blocks)] + Len(block) = next - 1
         /\ \A n \in DOMAIN blocks :
              /\ Len(blocks[n]) \in Nat \ {0} /\ DOMAIN blocks[n] = 1..Len(blocks[n])
              /\ EndOf[n] = EndOf[n - 1] + Len(blocks[n])
              /\ \A k \in DOMAIN blocks[n] : blocks[n][k] = code[EndOf[n - 1] + k]
              /\ StartOf(n) \in DOMAIN code /\ EndOf[n] \in DOMAIN code
              /\ StartOf(n) <= EndOf[n]
              /\ First(n) = code[StartOf(n)] /\ Last(n) = code[EndOf[n]]
<1>1. blocks \in Seq(Nonempty(Instructions)) /\ code \in Seq(Instructions)
      /\ Spell(blocks, block, next) /\ block \in Seq(Instructions)
  BY DEF CutSoFar, Pieces
<1>2. /\ Len(blocks) \in Nat /\ DOMAIN blocks = 1..Len(blocks)
      /\ Len(code) \in Nat /\ DOMAIN code = 1..Len(code)
      /\ Len(block) \in Nat
      /\ next \in 1..(Len(code) + 1)
  BY <1>1, LenProperties DEF CutSoFar
<1>3. EndOf[0] = 0 /\ \A n \in 0..Len(blocks) : EndOf[n] \in Nat
  BY <1>1, EndsAreNumbers DEF EndOf
<1>4. EndOf[Len(blocks)] + Len(block) = next - 1
  BY <1>1 DEF Spell, EndOf
<1>5. ASSUME NEW n \in DOMAIN blocks
      PROVE  /\ Len(blocks[n]) \in Nat \ {0} /\ DOMAIN blocks[n] = 1..Len(blocks[n])
             /\ EndOf[n] = EndOf[n - 1] + Len(blocks[n])
             /\ \A k \in DOMAIN blocks[n] : blocks[n][k] = code[EndOf[n - 1] + k]
             /\ StartOf(n) \in DOMAIN code /\ EndOf[n] \in DOMAIN code
             /\ StartOf(n) <= EndOf[n]
             /\ First(n) = code[StartOf(n)] /\ Last(n) = code[EndOf[n]]
  <2>1. n \in 1..Len(blocks) /\ n - 1 \in 0..Len(blocks) /\ n \in 0..Len(blocks)
        /\ Len(blocks) \in 0..Len(blocks)
    BY <1>2
  <2>2. /\ Len(blocks[n]) \in Nat \ {0} /\ DOMAIN blocks[n] = 1..Len(blocks[n])
        /\ EndOf[n] = EndOf[n - 1] + Len(blocks[n])
    BY <1>1, <2>1, EndsAreNumbers DEF EndOf
  <2>3. \A k \in DOMAIN blocks[n] : blocks[n][k] = code[EndOf[n - 1] + k]
    BY <1>1 DEF Spell, EndOf
  <2>4. EndOf[n] \in Nat /\ EndOf[n - 1] \in Nat /\ EndOf[Len(blocks)] \in Nat
    BY <1>3, <2>1
  <2>5. EndOf[n] <= EndOf[Len(blocks)]
    <3>1. CASE n = Len(blocks)
      BY <2>4, <3>1
    <3>2. CASE n < Len(blocks)
      <4>1. EndOf[n] < EndOf[Len(blocks)]
        BY <1>1, <2>1, <3>2, EndsGrow DEF EndOf
      <4> QED
        BY <2>4, <4>1
    <3> QED
      BY <1>2, <2>1, <3>1, <3>2
  <2>6. StartOf(n) \in 1..Len(code) /\ EndOf[n] \in 1..Len(code) /\ StartOf(n) <= EndOf[n]
    <3>1. \A e, l, t, c \in Nat : t \in 1..(c + 1) /\ e + l = t - 1 => e <= c
      OBVIOUS
    <3>2. EndOf[Len(blocks)] <= Len(code)
      <4>1. next \in Nat
        BY <1>2
      <4> QED
        BY <1>2, <1>4, <2>4, <3>1, <4>1
    <3>3. \A a, e, z, c, l \in Nat :
            l # 0 /\ e = a + l /\ e <= z /\ z <= c => a + 1 \in 1..c /\ e \in 1..c /\ a + 1 <= e
      OBVIOUS
    <3>4. /\ EndOf[n - 1] + 1 \in 1..Len(code) /\ EndOf[n] \in 1..Len(code)
          /\ EndOf[n - 1] + 1 <= EndOf[n]
      BY <1>2, <2>2, <2>4, <2>5, <3>2, <3>3
    <3> QED
      BY <3>4 DEF StartOf
  <2>7. 1 \in DOMAIN blocks[n] /\ Len(blocks[n]) \in DOMAIN blocks[n]
    BY <2>2
  <2>8. First(n) = code[StartOf(n)] /\ Last(n) = code[EndOf[n]]
    BY <2>2, <2>3, <2>7 DEF First, Last, StartOf
  <2> QED
    BY <1>2, <2>2, <2>3, <2>6, <2>8
<1> QED
  BY <1>2, <1>3, <1>4, <1>5

\* Blocks that end or start at one place are one block.
LEMMA BlocksDiffer ==
  ASSUME CutSoFar, NEW m \in 0..Len(blocks), NEW n \in 0..Len(blocks)
  PROVE  EndOf[m] = EndOf[n] <=> m = n
<1>1. blocks \in Seq(Nonempty(Instructions)) /\ Len(blocks) \in Nat
      /\ EndOf[m] \in Nat /\ EndOf[n] \in Nat
  BY BlockPositions DEF CutSoFar, Pieces
<1>2. m < n => EndOf[m] < EndOf[n]
  BY <1>1, EndsGrow DEF EndOf
<1>3. n < m => EndOf[n] < EndOf[m]
  BY <1>1, EndsGrow DEF EndOf
<1> QED
  BY <1>1, <1>2, <1>3

\* When all has been cut, each label starts a block.
LEMMA LabelsStartBlocks ==
  ASSUME CutSoFar, ~Cutting, NEW p \in DOMAIN code, IsLabel(code[p])
  PROVE  \E n \in DOMAIN blocks : p = StartOf(n)
<1>1. blocks \in Seq(Nonempty(Instructions))
  BY DEF CutSoFar, Pieces
<1>2. Len(block) = 0 /\ next = Len(code) + 1
  <2>1. next > Len(code) /\ next \in 1..(Len(code) + 1) /\ Len(code) \in Nat
    BY BlockPositions DEF Cutting, CutSoFar
  <2>2. block = <<>>
    BY <2>1 DEF Cutting
  <2> QED
    BY <2>1, <2>2
<1>3. p \in 1..EndOf[Len(blocks)]
  <2>1. Len(blocks) \in 0..Len(blocks)
    BY BlockPositions
  <2> QED
    BY <1>2, <2>1, BlockPositions
<1>4. PICK n \in 1..Len(blocks) : \E k \in 1..Len(blocks[n]) : p = EndOf[n - 1] + k
  BY <1>1, <1>3, Covered DEF EndOf
<1>5. PICK k \in 1..Len(blocks[n]) : p = EndOf[n - 1] + k
  BY <1>4
<1>6. n \in DOMAIN blocks /\ k \in DOMAIN blocks[n] /\ Len(blocks[n]) \in Nat
  BY BlockPositions
<1>7. IsLabel(blocks[n][k]) /\ IsStraight(blocks[n])
  BY <1>5, <1>6, BlockPositions DEF CutSoFar, Pieces
<1>8. k = 1
  BY <1>6, <1>7 DEF IsStraight
<1> QED
  BY <1>5, <1>6, <1>8 DEF StartOf

-----------------------------------------------------------------------------
(***************************************************************************)
(* Ranges of sequences.                                                    *)
(***************************************************************************)

\* Appending adds one element.
LEMMA RangeOfAppend ==
  ASSUME NEW S, NEW s \in Seq(S), NEW e \in S
  PROVE  Append(s, e) \in Seq(S) /\ Range(Append(s, e)) = Range(s) \cup {e}
<1> DEFINE t == Append(s, e)
<1>1. /\ Len(s) \in Nat /\ DOMAIN s = 1..Len(s)
      /\ t \in Seq(S) /\ DOMAIN t = 1..(Len(s) + 1)
      /\ \A i \in 1..Len(s) : t[i] = s[i]
      /\ t[Len(s) + 1] = e
  BY AppendProperties, LenProperties
<1> HIDE DEF t
<1>2. 1..(Len(s) + 1) = 1..Len(s) \cup {Len(s) + 1}
  BY <1>1
<1>3. Range(t) = { t[i] : i \in 1..Len(s) } \cup {t[Len(s) + 1]}
  BY <1>1, <1>2 DEF Range
<1>4. Range(s) = { t[i] : i \in 1..Len(s) }
  BY <1>1 DEF Range
<1> QED
  BY <1>1, <1>3, <1>4 DEF t

\* A concatenation has the elements of both sequences.
LEMMA RangeOfConcat ==
  ASSUME NEW S, NEW s \in Seq(S), NEW t \in Seq(S)
  PROVE  s \o t \in Seq(S) /\ Range(s \o t) = Range(s) \cup Range(t)
<1> DEFINE u == s \o t
<1>1. /\ Len(s) \in Nat /\ DOMAIN s = 1..Len(s)
      /\ Len(t) \in Nat /\ DOMAIN t = 1..Len(t)
      /\ u \in Seq(S) /\ Len(u) = Len(s) + Len(t)
      /\ \A i \in 1..Len(u) : u[i] = IF i <= Len(s) THEN s[i] ELSE t[i - Len(s)]
      /\ DOMAIN u = 1..(Len(s) + Len(t))
  BY ConcatProperties, LenProperties
<1> HIDE DEF u
<1>2. ASSUME NEW x \in Range(u)
      PROVE  x \in Range(s) \cup Range(t)
  <2>1. PICK i \in 1..(Len(s) + Len(t)) : x = u[i]
    BY <1>1 DEF Range
  <2>2. CASE i <= Len(s)
    BY SMTT(30), <1>1, <2>1, <2>2 DEF Range
  <2>3. CASE ~(i <= Len(s))
    <3>1. i - Len(s) \in DOMAIN t
      BY <1>1, <2>3
    <3> QED
      BY <1>1, <2>1, <2>3, <3>1 DEF Range
  <2> QED
    BY <2>2, <2>3
<1>3. ASSUME NEW x \in Range(s)
      PROVE  x \in Range(u)
  <2>1. PICK i \in 1..Len(s) : x = s[i]
    BY <1>1 DEF Range
  <2>2. i \in DOMAIN u /\ u[i] = s[i]
    BY <1>1
  <2> QED
    BY <2>1, <2>2 DEF Range
<1>4. ASSUME NEW x \in Range(t)
      PROVE  x \in Range(u)
  <2>1. PICK i \in 1..Len(t) : x = t[i]
    BY <1>1 DEF Range
  <2>2. Len(s) + i \in DOMAIN u /\ ~(Len(s) + i <= Len(s)) /\ (Len(s) + i) - Len(s) = i
    BY <1>1
  <2>3. u[Len(s) + i] = t[i]
    BY <1>1, <2>2
  <2> QED
    BY <2>1, <2>2, <2>3 DEF Range
<1> QED
  BY <1>1, <1>2, <1>3, <1>4 DEF u

-----------------------------------------------------------------------------
(***************************************************************************)
(* Edges.                                                                  *)
(***************************************************************************)

\* getNodeByLabel finds the one block that starts with a label of the function.
LEMMA NodeOfLabel ==
  ASSUME CutSoFar, ~Cutting, NEW l \in LabelsIn(code)
  PROVE  /\ NodeByLabel(l) \in DOMAIN blocks
         /\ \A n \in DOMAIN blocks :
              n = NodeByLabel(l) <=> IsLabel(First(n)) /\ First(n).label = l
<1> DEFINE found == { n \in DOMAIN blocks : IsLabel(First(n)) /\ First(n).label = l }
<1>1. PICK p \in DOMAIN code : IsLabel(code[p]) /\ code[p].label = l
  BY DEF LabelsIn
<1>2. PICK n \in DOMAIN blocks : p = StartOf(n)
  BY <1>1, LabelsStartBlocks
<1>3. n \in found
  BY <1>1, <1>2, BlockPositions
<1>4. ASSUME NEW m \in found
      PROVE  m = n
  <2>1. m \in DOMAIN blocks /\ IsLabel(code[StartOf(m)]) /\ code[StartOf(m)].label = l
        /\ StartOf(m) \in DOMAIN code
    BY BlockPositions
  <2>2. StartOf(m) = StartOf(n)
    BY <1>1, <1>2, <2>1 DEF CutSoFar, IsFunctionCode, JumpsResolve
  <2>3. m - 1 \in 0..Len(blocks) /\ n - 1 \in 0..Len(blocks) /\ m \in Nat /\ n \in Nat
    BY SMTT(30), <2>1, BlockPositions
  <2>4. EndOf[m - 1] = EndOf[n - 1]
    <3>1. EndOf[m - 1] \in Nat /\ EndOf[n - 1] \in Nat
      BY <2>3, BlockPositions
    <3> QED
      BY <2>2, <3>1 DEF StartOf
  <2>5. m - 1 = n - 1
    BY <2>3, <2>4, BlocksDiffer
  <2> QED
    BY <2>3, <2>5
<1>5. found = {n}
  BY <1>3, <1>4
<1>6. n <= n
  BY BlockPositions
<1>7. NodeByLabel(l) = n
  <2>1. NodeByLabel(l) = CHOOSE k \in found : \A m \in found : k <= m
    BY <1>3 DEF NodeByLabel
  <2> HIDE DEF found
  <2> QED
    BY <1>5, <1>6, <2>1
<1> QED
  BY <1>3, <1>5, <1>7

\* Where the flow of control may go from the end of a block is to the start
\* of blocks: those with the label of a jump, or the next one.
LEMMA FlowFromBlock ==
  ASSUME CutSoFar, ~Cutting, NEW b \in DOMAIN blocks, NEW c \in DOMAIN blocks
  PROVE  StartOf(c) \in FlowsTo(code, EndOf[b]) <=>
           \/ IsLabel(First(c)) /\ LeadsToLabel(b, First(c).label)
           \/ c = b + 1 /\ FallsThrough(b)
<1>1. /\ First(c) = code[StartOf(c)] /\ Last(b) = code[EndOf[b]]
      /\ StartOf(c) \in DOMAIN code
  BY BlockPositions
<1>2. CASE IsTerminator(Last(b))
  BY <1>1, <1>2 DEF FlowsTo, LeadsToLabel, FallsThrough
<1>3. CASE ~IsTerminator(Last(b))
  <2>1. ~LeadsToLabel(b, First(c).label)
    BY <1>3 DEF LeadsToLabel, LabelsOf, IsTerminator
  <2>2. StartOf(c) \in FlowsTo(code, EndOf[b]) <=> StartOf(c) = EndOf[b] + 1
    BY <1>1, <1>3 DEF FlowsTo
  <2>3. b \in 0..Len(blocks) /\ c - 1 \in 0..Len(blocks) /\ b \in Nat /\ c \in Nat
        /\ c <= Len(blocks) /\ Len(blocks) \in Nat
    BY BlockPositions
  <2>4. StartOf(c) = EndOf[b] + 1 <=> EndOf[c - 1] = EndOf[b]
    <3>1. EndOf[b] \in Nat /\ EndOf[c - 1] \in Nat
      BY <2>3, BlockPositions
    <3> QED
      BY <3>1 DEF StartOf
  <2>5. EndOf[c - 1] = EndOf[b] <=> c - 1 = b
    BY <2>3, BlocksDiffer
  <2> QED
    BY <1>3, <2>1, <2>2, <2>3, <2>4, <2>5 DEF FallsThrough
<1> QED
  BY <1>2, <1>3

\* The to vector holds the blocks the flow of control may go to.
LEMMA SuccessorsAreFlow ==
  ASSUME CutSoFar, ~Cutting, NEW b \in DOMAIN blocks
  PROVE  /\ Range(Successors(b)) \subseteq DOMAIN blocks
         /\ \A c \in DOMAIN blocks :
              c \in Range(Successors(b)) <=> StartOf(c) \in FlowsTo(code, EndOf[b])
<1>1. Last(b) = code[EndOf[b]] /\ EndOf[b] \in DOMAIN code /\ b \in Nat
      /\ Len(blocks) \in Nat /\ DOMAIN blocks = 1..Len(blocks)
  BY BlockPositions
<1>2. LabelsOf(Last(b)) \subseteq LabelsIn(code)
  BY <1>1 DEF CutSoFar, IsFunctionCode, JumpsResolve
<1>3. /\ \A v : Range(<<v>>) = {v}
      /\ \A v, w : Range(<<v, w>>) = {v, w}
      /\ Range(<<>>) = {}
  BY DEF Range
<1>4. CASE Last(b).op = "branch"
  <2>1. /\ LabelsOf(Last(b)) = {Last(b).trueLabel, Last(b).falseLabel}
        /\ ~FallsThrough(b)
    BY <1>4 DEF LabelsOf, FallsThrough, IsTerminator
  <2>2. Range(Successors(b)) =
          {NodeByLabel(Last(b).trueLabel), NodeByLabel(Last(b).falseLabel)}
    <3>1. Successors(b) = <<NodeByLabel(Last(b).trueLabel), NodeByLabel(Last(b).falseLabel)>>
      BY <1>4, <2>1 DEF Successors
    <3> QED
      BY <1>3, <3>1, Zenon
  <2>3. \A c \in DOMAIN blocks :
          c \in Range(Successors(b)) <=> IsLabel(First(c)) /\ First(c).label \in LabelsOf(Last(b))
    BY <1>2, <2>1, <2>2, NodeOfLabel
  <2>4. Range(Successors(b)) \subseteq DOMAIN blocks
    BY <1>2, <2>1, <2>2, NodeOfLabel
  <2> QED
    BY <2>1, <2>3, <2>4, FlowFromBlock DEF LeadsToLabel
<1>5. CASE Last(b).op = "jump"
  <2>1. LabelsOf(Last(b)) = {Last(b).destination} /\ ~FallsThrough(b)
    BY <1>5 DEF LabelsOf, FallsThrough, IsTerminator
  <2>2. Range(Successors(b)) = {NodeByLabel(Last(b).destination)}
    <3>1. Last(b).op # "branch"
      BY <1>5
    <3>2. Successors(b) = <<NodeByLabel(Last(b).destination)>>
      BY <1>5, <2>1, <3>1 DEF Successors
    <3> QED
      BY <1>3, <3>2, Zenon
  <2>3. \A c \in DOMAIN blocks :
          c \in Range(Successors(b)) <=> IsLabel(First(c)) /\ First(c).label \in LabelsOf(Last(b))
    BY <1>2, <2>1, <2>2, NodeOfLabel
  <2>4. Range(Successors(b)) \subseteq DOMAIN blocks
    BY <1>2, <2>1, <2>2, NodeOfLabel
  <2> QED
    BY <2>1, <2>3, <2>4, FlowFromBlock DEF LeadsToLabel
<1>6. CASE Last(b).op \notin {"branch", "jump"}
  <2>1. LabelsOf(Last(b)) = {}
    BY <1>6 DEF LabelsOf
  <2>2. Range(Successors(b)) = IF FallsThrough(b) THEN {b + 1} ELSE {}
    BY <1>3, <1>6 DEF Successors
  <2>3. FallsThrough(b) => b + 1 \in DOMAIN blocks
    BY <1>1 DEF FallsThrough
  <2> QED
    BY <2>1, <2>2, <2>3, FlowFromBlock DEF LeadsToLabel
<1> QED
  BY <1>4, <1>5, <1>6

\* The inner loop of buildCFG collects the nodes that lead to a label.
LEMMA LeadingAreAll ==
  ASSUME CutSoFar, NEW l
  PROVE  \A m \in 0..Len(blocks) :
           /\ LeadingTo(l)[m] \in Seq(DOMAIN blocks)
           /\ Range(LeadingTo(l)[m]) = { k \in 1..m : LeadsToLabel(k, l) }
<1> DEFINE Def(v, m) == IF LeadsToLabel(m, l) THEN Append(v, m) ELSE v
           f == LeadingTo(l)
           D == DOMAIN blocks
           Right(m) == f[m] \in Seq(D) /\ Range(f[m]) = { k \in 1..m : LeadsToLabel(k, l) }
           T == { m \in Nat : Right(m) }
<1>1. NatInductiveDefHypothesis(f, <<>>, Def)
  BY DEF NatInductiveDefHypothesis, LeadingTo
<1>2. NatInductiveDefConclusion(f, <<>>, Def)
  BY <1>1, NatInductiveDef
<1>3. f = [m \in Nat |-> IF m = 0 THEN <<>> ELSE Def(f[m - 1], m)]
  BY <1>2 DEF NatInductiveDefConclusion
<1>4. Len(blocks) \in Nat /\ D = 1..Len(blocks)
  BY BlockPositions
<1> HIDE DEF f, D
<1>5. f[0] = <<>> /\ \A m \in Nat \ {0} : f[m] = Def(f[m - 1], m)
  <2> HIDE DEF Def
  <2> QED
    BY <1>3
<1>6. 0 \in T
  <2>1. Range(<<>>) = {} /\ 1..0 = {} /\ <<>> \in Seq(D)
    BY DEF Range
  <2> QED
    BY <1>5, <2>1
<1>7. ASSUME NEW m \in 0..(Len(blocks) - 1), m \in T
      PROVE  m + 1 \in T
  <2>1. m + 1 \in Nat \ {0} /\ (m + 1) - 1 = m /\ m + 1 \in D /\ 1..(m + 1) = 1..m \cup {m + 1}
    BY <1>4
  <2>2. f[m + 1] = Def(f[m], m + 1) /\ f[m] \in Seq(D)
        /\ Range(f[m]) = { k \in 1..m : LeadsToLabel(k, l) }
    BY <1>5, <1>7, <2>1
  <2>3. CASE LeadsToLabel(m + 1, l)
    <3>1. f[m + 1] = Append(f[m], m + 1)
      BY <2>2, <2>3
    <3>2. f[m + 1] \in Seq(D) /\ Range(f[m + 1]) = Range(f[m]) \cup {m + 1}
      BY <2>1, <2>2, <3>1, RangeOfAppend
    <3>3. Range(f[m + 1]) = { k \in 1..(m + 1) : LeadsToLabel(k, l) }
      BY <2>1, <2>2, <2>3, <3>2
    <3> QED
      BY <2>1, <3>2, <3>3
  <2>4. CASE ~LeadsToLabel(m + 1, l)
    <3>1. f[m + 1] = f[m]
      BY <2>2, <2>4
    <3>2. Range(f[m + 1]) = { k \in 1..(m + 1) : LeadsToLabel(k, l) }
      BY <2>1, <2>2, <2>4, <3>1
    <3> QED
      BY <2>1, <2>2, <3>1, <3>2
  <2> QED
    BY <2>3, <2>4
<1>8. 0..Len(blocks) \subseteq T
  <2> HIDE DEF T
  <2> QED
    BY <1>4, <1>6, <1>7, IntervalInduction
<1> QED
  BY <1>8 DEF f, D

\* The inner loop finds, for a block that starts with a label, all the blocks
\* that lead to it, and nothing for another block.
LEMMA JumpingAreAll ==
  ASSUME CutSoFar, NEW n \in DOMAIN blocks
  PROVE  /\ JumpingTo(n) \in Seq(DOMAIN blocks)
         /\ Range(JumpingTo(n)) =
              { m \in DOMAIN blocks : IsLabel(First(n)) /\ LeadsToLabel(m, First(n).label) }
<1>1. Len(blocks) \in 0..Len(blocks) /\ DOMAIN blocks = 1..Len(blocks)
  BY BlockPositions
<1>2. CASE IsLabel(First(n))
  BY <1>1, <1>2, LeadingAreAll DEF JumpingTo
<1>3. CASE ~IsLabel(First(n))
  <2>1. Range(<<>>) = {} /\ <<>> \in Seq(DOMAIN blocks)
    BY DEF Range
  <2> QED
    BY <1>3, <2>1 DEF JumpingTo
<1> QED
  BY <1>2, <1>3

-----------------------------------------------------------------------------
(***************************************************************************)
(* Linking.                                                                *)
(***************************************************************************)

\* The edge from m is in the from vector of n: either the inner loop has run
\* for n, or m has been linked and runs into n.
Recorded(m, n) ==
  \/ n <= linked /\ IsLabel(First(n)) /\ LeadsToLabel(m, First(n).label)
  \/ m <= linked /\ n = m + 1 /\ FallsThrough(m)

\* What the linking has done so far.
LinkedSoFar ==
  /\ linked \in 0..Len(blocks)
  /\ to = <<>> => linked = 0
  /\ to # <<>> =>
       /\ ~Cutting
       /\ DOMAIN to = DOMAIN blocks
       /\ \A n \in DOMAIN blocks : to[n] = IF n <= linked THEN Successors(n) ELSE <<>>
       /\ from \in [DOMAIN blocks -> Seq(DOMAIN blocks)]
       /\ \A n \in DOMAIN blocks : Range(from[n]) = { m \in DOMAIN blocks : Recorded(m, n) }

IInv == CutSoFar /\ LinkedSoFar

\* The new nodes have no edges yet.
LEMMA NodesLinkNothing == IInv /\ CreateNodes => LinkedSoFar'
<1> SUFFICES ASSUME IInv, CreateNodes
             PROVE  LinkedSoFar'
  OBVIOUS
<1>1. /\ code' = code /\ next' = next /\ block' = block /\ blocks' = blocks
      /\ linked' = linked /\ linked = 0 /\ ~Cutting
      /\ to' = [n \in DOMAIN blocks |-> <<>>]
      /\ from' = [n \in DOMAIN blocks |-> <<>>]
  BY DEF CreateNodes, IInv, LinkedSoFar
<1>2. Len(blocks) \in Nat /\ DOMAIN blocks = 1..Len(blocks)
  BY BlockPositions DEF IInv
<1>3. ~Cutting'
  BY <1>1 DEF Cutting
<1>4. Range(<<>>) = {} /\ <<>> \in Seq(DOMAIN blocks)
  BY DEF Range
<1>5. blocks # <<>> /\ 1 \in DOMAIN blocks
  <2>1. blocks # <<>>
    BY DEF CreateNodes
  <2>2. Len(blocks) # 0
    BY <2>1, EmptySeq DEF IInv, CutSoFar, Pieces
  <2> QED
    BY <1>2, <2>1, <2>2
<1>6. to' # <<>>
  <2>1. DOMAIN to' = DOMAIN blocks /\ DOMAIN <<>> = {}
    BY <1>1
  <2> QED
    BY <1>5, <2>1
<1>7. \A m, n \in DOMAIN blocks : ~Recorded(m, n)'
  BY <1>1, <1>2 DEF Recorded
<1>8. \A n \in DOMAIN blocks : /\ to'[n] = <<>> /\ ~(n <= linked')
                               /\ Range(from'[n]) = {}
  BY <1>1, <1>2, <1>4
<1> QED
  BY <1>1, <1>2, <1>3, <1>4, <1>6, <1>7, <1>8 DEF LinkedSoFar

\* Linking a node records its edges at both of their ends.
LEMMA LinkingLinks == IInv /\ LinkNode => LinkedSoFar'
<1> SUFFICES ASSUME IInv, LinkNode
             PROVE  LinkedSoFar'
  OBVIOUS
<1> DEFINE n == linked + 1
           D == DOMAIN blocks
           arrived == [from EXCEPT ![n] = @ \o JumpingTo(n)]
<1>1. /\ code' = code /\ next' = next /\ block' = block /\ blocks' = blocks
      /\ linked' = n
      /\ to' = [to EXCEPT ![n] = Successors(n)]
      /\ from' = IF FallsThrough(n) THEN [arrived EXCEPT ![n + 1] = Append(@, n)]
                                    ELSE arrived
  BY DEF LinkNode
<1>2. CutSoFar /\ Len(blocks) \in Nat /\ D = 1..Len(blocks)
  BY BlockPositions DEF IInv
<1>3. n \in D /\ linked \in Nat /\ linked < n /\ \A m \in D : m <= n <=> m <= linked \/ m = n
  BY <1>2 DEF LinkNode, IInv, LinkedSoFar
<1>4. /\ ~Cutting
      /\ DOMAIN to = D
      /\ \A m \in D : to[m] = IF m <= linked THEN Successors(m) ELSE <<>>
      /\ from \in [D -> Seq(D)]
      /\ \A m \in D : Range(from[m]) = { k \in D : Recorded(k, m) }
  BY DEF LinkNode, IInv, LinkedSoFar
<1>5. ~Cutting'
  BY <1>1, <1>4 DEF Cutting
<1>6. /\ \A m : First(m)' = First(m) /\ Last(m)' = Last(m)
      /\ \A m, l : LeadsToLabel(m, l)' = LeadsToLabel(m, l)
      /\ \A m : FallsThrough(m)' = FallsThrough(m)
  BY <1>1 DEF First, Last, LeadsToLabel, FallsThrough
<1>7. \A m : Successors(m)' = Successors(m)
  <2>1. \A l : NodeByLabel(l)' = NodeByLabel(l)
    BY <1>1 DEF NodeByLabel, First
  <2> QED
    BY <1>6, <2>1 DEF Successors
<1>8. /\ DOMAIN to' = D
      /\ \A m \in D : to'[m] = IF m <= n THEN Successors(m) ELSE <<>>
  BY <1>1, <1>3, <1>4
<1>9. to' # <<>>
  <2>1. DOMAIN <<>> = {}
    OBVIOUS
  <2> QED
    BY <1>3, <1>8, <2>1
<1>10. /\ JumpingTo(n) \in Seq(D)
       /\ Range(JumpingTo(n)) =
            { m \in D : IsLabel(First(n)) /\ LeadsToLabel(m, First(n).label) }
  BY <1>2, <1>3, JumpingAreAll
<1> HIDE DEF D
<1>11. /\ arrived \in [D -> Seq(D)]
       /\ \A m \in D : m # n => arrived[m] = from[m]
       /\ Range(arrived[n]) = Range(from[n]) \cup Range(JumpingTo(n))
  <2>1. from[n] \in Seq(D)
    BY <1>3, <1>4
  <2>2. /\ from[n] \o JumpingTo(n) \in Seq(D)
        /\ Range(from[n] \o JumpingTo(n)) = Range(from[n]) \cup Range(JumpingTo(n))
    BY <1>10, <2>1, RangeOfConcat
  <2>3. arrived[n] = from[n] \o JumpingTo(n)
    BY <1>3, <1>4
  <2> QED
    BY <1>3, <1>4, <2>2, <2>3
<1> HIDE DEF arrived
<1>12. FallsThrough(n) => n + 1 \in D
  BY <1>2, <1>3 DEF FallsThrough
<1>13. /\ from' \in [D -> Seq(D)]
       /\ \A m \in D : Range(from'[m]) =
            Range(arrived[m]) \cup { k \in {n} : m = n + 1 /\ FallsThrough(n) }
  <2>1. CASE FallsThrough(n)
    <3>1. n + 1 \in D /\ arrived[n + 1] \in Seq(D)
      BY <1>11, <1>12, <2>1
    <3>2. /\ Append(arrived[n + 1], n) \in Seq(D)
          /\ Range(Append(arrived[n + 1], n)) = Range(arrived[n + 1]) \cup {n}
      BY <1>3, <3>1, RangeOfAppend
    <3>3. from' = [arrived EXCEPT ![n + 1] = Append(arrived[n + 1], n)]
      BY <1>1, <2>1
    <3>4. /\ from'[n + 1] = Append(arrived[n + 1], n)
          /\ \A m \in D : m # n + 1 => from'[m] = arrived[m]
          /\ from' \in [D -> Seq(D)]
      BY <1>11, <3>1, <3>2, <3>3
    <3> QED
      BY <2>1, <3>2, <3>4
  <2>2. CASE ~FallsThrough(n)
    BY <1>1, <1>11, <2>2
  <2> QED
    BY <2>1, <2>2
<1>14. ASSUME NEW m \in D
       PROVE  Range(from'[m]) = { k \in D : Recorded(k, m)' }
  <2>1. ASSUME NEW k \in D
        PROVE  Recorded(k, m)' <=>
                 \/ Recorded(k, m)
                 \/ m = n /\ IsLabel(First(n)) /\ LeadsToLabel(k, First(n).label)
                 \/ k = n /\ m = n + 1 /\ FallsThrough(n)
    BY <1>1, <1>3, <1>6 DEF Recorded
  <2>2. Range(arrived[m]) =
          { k \in D : \/ Recorded(k, m)
                      \/ m = n /\ IsLabel(First(n)) /\ LeadsToLabel(k, First(n).label) }
    <3>1. CASE m = n
      BY <1>3, <1>4, <1>10, <1>11, <3>1
    <3>2. CASE m # n
      BY <1>4, <1>11, <3>2
    <3> QED
      BY <3>1, <3>2
  <2> QED
    BY <1>3, <1>13, <2>1, <2>2
<1>15. linked' \in 0..Len(blocks')
  BY <1>1, <1>2, <1>3 DEF D
<1> QED
  BY <1>1, <1>5, <1>7, <1>8, <1>9, <1>13, <1>14, <1>15 DEF LinkedSoFar, D

\* No edges are made before the blocks are finished.
LEMMA CuttingLinksNothing ==
  IInv /\ (TakeInstruction \/ FlushBlock) /\ CutSoFar' => LinkedSoFar'
<1> SUFFICES ASSUME IInv, TakeInstruction \/ FlushBlock, CutSoFar'
             PROVE  LinkedSoFar'
  OBVIOUS
<1>1. Cutting /\ to' = to /\ linked' = linked
  BY BlockPositions DEF TakeInstruction, FlushBlock, Cutting, IInv
<1>2. to = <<>> /\ linked = 0
  BY <1>1 DEF IInv, LinkedSoFar
<1>3. Len(blocks') \in Nat
  BY LenProperties DEF CutSoFar, Pieces
<1> QED
  BY <1>1, <1>2, <1>3 DEF LinkedSoFar

-----------------------------------------------------------------------------
(***************************************************************************)
(* The inductive invariant and what follows from it.                       *)
(***************************************************************************)

\* The invariant holds before the first instruction is looked at.
LEMMA IInvInitially == Init => IInv
<1> SUFFICES ASSUME Init
             PROVE  IInv
  OBVIOUS
<1>1. CutSoFar
  BY CutInitially
<1>2. to = <<>> /\ linked = 0
  BY DEF Init, InitFor
<1>3. Len(blocks) \in Nat
  BY <1>1, BlockPositions
<1> QED
  BY <1>1, <1>2, <1>3 DEF IInv, LinkedSoFar

\* Every step keeps the invariant.
LEMMA IInvNext == IInv /\ [Next]_vars => IInv'
<1> SUFFICES ASSUME IInv, [Next]_vars
             PROVE  IInv'
  OBVIOUS
<1>1. CASE TakeInstruction
  BY <1>1, CutTakes, CuttingLinksNothing DEF IInv
<1>2. CASE FlushBlock
  BY <1>2, CutFlushes, CuttingLinksNothing DEF IInv
<1>3. CASE CreateNodes
  <2>1. UNCHANGED <<code, next, block, blocks>>
    BY <1>3 DEF CreateNodes
  <2> QED
    BY <1>3, <2>1, CutStays, NodesLinkNothing DEF IInv
<1>4. CASE LinkNode
  <2>1. UNCHANGED <<code, next, block, blocks>>
    BY <1>4 DEF LinkNode
  <2> QED
    BY <1>4, <2>1, CutStays, LinkingLinks DEF IInv
<1>5. CASE UNCHANGED vars
  <2>1. CutSoFar'
    BY <1>5, CutStays DEF vars, IInv
  <2>2. LinkedSoFar'
    <3>1. /\ \A n : First(n)' = First(n) /\ Last(n)' = Last(n)
          /\ \A n, l : LeadsToLabel(n, l)' = LeadsToLabel(n, l)
          /\ \A n : FallsThrough(n)' = FallsThrough(n)
          /\ Cutting' = Cutting
      BY <1>5 DEF vars, First, Last, LeadsToLabel, FallsThrough, Cutting
    <3>2. \A l : NodeByLabel(l)' = NodeByLabel(l)
      BY <1>5 DEF vars, NodeByLabel, First
    <3>3. \A n : Successors(n)' = Successors(n)
      BY <3>1, <3>2 DEF Successors
    <3>4. \A m, n : Recorded(m, n)' = Recorded(m, n)
      BY <1>5, <3>1 DEF vars, Recorded
    <3> QED
      BY <1>5, <3>1, <3>3, <3>4 DEF vars, IInv, LinkedSoFar
  <2> QED
    BY <2>1, <2>2 DEF IInv
<1> QED
  BY <1>1, <1>2, <1>3, <1>4, <1>5 DEF Next

\* The invariant holds throughout.
LEMMA Invariance == Spec => []IInv
BY IInvInitially, IInvNext, PTL DEF Spec

\* Edges lead to nodes.
LEMMA EdgesLeadToNodes ==
  ASSUME IInv, NEW n \in DOMAIN to
  PROVE  Range(to[n]) \subseteq DOMAIN blocks /\ Range(from[n]) \subseteq DOMAIN blocks
<1>1. to # <<>>
  OBVIOUS
<1>2. CutSoFar /\ ~Cutting /\ n \in DOMAIN blocks
  BY <1>1 DEF IInv, LinkedSoFar
<1>3. Range(from[n]) \subseteq DOMAIN blocks
  BY <1>1, <1>2 DEF IInv, LinkedSoFar
<1>4. CASE n <= linked
  <2>1. to[n] = Successors(n)
    BY <1>1, <1>2, <1>4 DEF IInv, LinkedSoFar
  <2> QED
    BY <1>2, <1>3, <2>1, SuccessorsAreFlow
<1>5. CASE ~(n <= linked)
  <2>1. to[n] = <<>> /\ Range(<<>>) = {}
    BY <1>1, <1>2, <1>5 DEF IInv, LinkedSoFar, Range
  <2> QED
    BY <1>3, <2>1
<1> QED
  BY <1>4, <1>5

\* In the finished graph the edges are the flow of control.
LEMMA DoneMeansEdgesAreFlow == IInv => EdgesAreFlow
<1> SUFFICES ASSUME IInv, Done, blocks # <<>>,
                    NEW b \in DOMAIN blocks, NEW c \in DOMAIN blocks
             PROVE  /\ c \in Range(to[b]) <=> StartOf(c) \in FlowsTo(code, EndOf[b])
                    /\ b \in Range(from[c]) <=> StartOf(c) \in FlowsTo(code, EndOf[b])
  BY DEF EdgesAreFlow
<1>1. CutSoFar /\ ~Cutting /\ linked = Len(blocks)
  BY DEF IInv, Done
<1>2. Len(blocks) \in Nat /\ DOMAIN blocks = 1..Len(blocks)
  BY <1>1, BlockPositions
<1>3. b <= linked /\ c <= linked /\ linked # 0
  BY <1>1, <1>2
<1>4. to # <<>>
  BY <1>3 DEF IInv, LinkedSoFar
<1>5. to[b] = Successors(b) /\ Range(from[c]) = { m \in DOMAIN blocks : Recorded(m, c) }
  BY <1>3, <1>4 DEF IInv, LinkedSoFar
<1>6. Recorded(b, c) <=> StartOf(c) \in FlowsTo(code, EndOf[b])
  BY <1>1, <1>3, FlowFromBlock DEF Recorded
<1> QED
  BY <1>1, <1>5, <1>6, SuccessorsAreFlow

\* buildBlocks and buildCFG keep their indices in range, and no edge leads to
\* nullptr: getNodeByLabel finds every label that is jumped to.
THEOREM TypeCorrect == Spec => []TypeOK
<1>1. IInv => TypeOK
  <2> SUFFICES ASSUME IInv
               PROVE  TypeOK
    OBVIOUS
  <2>1. to # <<>> => DOMAIN to = DOMAIN blocks /\ DOMAIN from = DOMAIN blocks
    BY DEF IInv, LinkedSoFar
  <2> QED
    BY <2>1, EdgesLeadToNodes DEF IInv, CutSoFar, LinkedSoFar, TypeOK
<1> QED
  BY <1>1, Invariance, PTL

\* buildBlocks loses, repeats and reorders no instruction.
THEOREM BlocksAreTheCode == Spec => []BlocksSpellTheCode
<1>1. IInv => BlocksSpellTheCode
  <2> SUFFICES ASSUME IInv
               PROVE  BlocksSpellTheCode
    OBVIOUS
  <2>1. Spell(blocks, block, next)
    BY DEF IInv, CutSoFar, Pieces
  <2>2. ASSUME NEW n \in DOMAIN blocks, NEW k \in DOMAIN blocks[n]
        PROVE  blocks[n][k] = code[StartOf(n) + k - 1]
    <3>1. blocks[n][k] = code[EndOf[n - 1] + k]
      BY <2>1 DEF Spell, EndOf
    <3>2. EndOf[n - 1] \in Nat /\ k \in Nat
      <4>1. n - 1 \in 0..Len(blocks)
        BY BlockPositions DEF IInv
      <4> QED
        BY <4>1, BlockPositions DEF IInv
    <3>3. StartOf(n) + k - 1 = EndOf[n - 1] + k
      BY <3>2 DEF StartOf
    <3> QED
      BY <3>1, <3>3
  <2> QED
    BY <2>1, <2>2 DEF Spell, EndOf, BlocksSpellTheCode
<1> QED
  BY <1>1, Invariance, PTL

\* buildBlocks cuts before each label and after each terminator.
THEOREM BlocksAreStraight == Spec => []SingleEntrySingleExit
<1>1. IInv => SingleEntrySingleExit
  BY DEF IInv, CutSoFar, Pieces, IsStraight, SingleEntrySingleExit, Range
<1> QED
  BY <1>1, Invariance, PTL

\* buildCFG makes an edge for each jump execution can take between blocks and
\* for nothing else, in to and in from alike.
THEOREM EdgesCorrect == Spec => []EdgesAreFlow
BY DoneMeansEdgesAreFlow, Invariance, PTL

=============================================================================
