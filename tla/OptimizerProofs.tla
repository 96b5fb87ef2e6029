---------------------------- MODULE OptimizerProofs ----------------------------
(***************************************************************************)
(* What is proved of the optimizer, for every list of instructions, every  *)
(* width of a word and every number of rounds.                             *)
(*                                                                         *)
(* The loops erase and rewrite the list they walk. The inductive invariant *)
(* IInv says that the list stays one the back end can work on but for      *)
(* unreachable code, that the remover has left none behind its index, and  *)
(* that what the propagator knows is resolved.                             *)
(*                                                                         *)
(* The second part proves that the optimizer keeps the meaning of every    *)
(* list: what a caller and the functions it calls see of an execution that *)
(* ends is the same before and after. Folding and propagation leave the    *)
(* steps of an execution as they are; dead store elimination and the       *)
(* remover skip steps or none. The inductive invariant MInv says of every  *)
(* moment, also in the middle of a pass, that executions end as those of   *)
(* the list the generator made.                                            *)
(***************************************************************************)
EXTENDS Optimizer, Induction, SequenceTheorems

IsSequence(c) == c \in Seq(Range(c))

\* The remover has cleared what follows each terminator before its index.
ClearedBefore(n) ==
  \A p \in DOMAIN code \ {Len(code)} :
    p < n /\ IsTerminator(code[p]) => IsLabel(code[p + 1])

IInv ==
  /\ TypeOK
  /\ IsSequence(code)
  /\ JumpsResolve(code)
  /\ ConstantsAreConstant(code)
  /\ KnownIsResolved
  /\ pass = "remove" => ClearedBefore(at)
  /\ LeavesFunctionCode

-----------------------------------------------------------------------------
(***************************************************************************)
(* Instruction lists under the two edits.                                  *)
(***************************************************************************)

\* A function on 1..n is a sequence of length n.
LEMMA FunctionIsSequence ==
  ASSUME NEW n \in Nat, NEW f, DOMAIN f = 1..n, f = [q \in 1..n |-> f[q]]
  PROVE  IsSequence(f) /\ Len(f) = n
<1>1. \A q \in 1..n : f[q] \in Range(f)
  BY DEF Range
<1>2. f \in [1..n -> Range(f)]
  BY <1>1
<1>3. f \in Seq(Range(f))
  BY <1>2, SeqDef
<1> QED
  BY <1>2, <1>3, LenProperties DEF IsSequence

\* The positions of a sequence.
LEMMA PositionsOfSequence ==
  ASSUME NEW c, IsSequence(c)
  PROVE  /\ Len(c) \in Nat
         /\ DOMAIN c = 1..Len(c)
         /\ c = [q \in 1..Len(c) |-> c[q]]
BY LenProperties DEF IsSequence

\* What the two instructions mean to the flow of control is the same.
SameControl(i, j) ==
  /\ IsLabel(i) <=> IsLabel(j)
  /\ IsLabel(i) => i.label = j.label
  /\ IsTerminator(i) <=> IsTerminator(j)
  /\ LabelsOf(i) = LabelsOf(j)

\* Replacing an instruction by one with the same labels keeps every jump
\* resolved (folder and propagator).
LEMMA RewriteKeepsJumps ==
  ASSUME NEW c, IsSequence(c), JumpsResolve(c),
         NEW a \in DOMAIN c, NEW i, SameControl(c[a], i),
         NEW d, d = [c EXCEPT ![a] = i]
  PROVE  /\ IsSequence(d) /\ Len(d) = Len(c) /\ DOMAIN d = DOMAIN c
         /\ JumpsResolve(d)
         /\ \A p \in DOMAIN c : SameControl(c[p], d[p])
<1>1. /\ Len(c) \in Nat /\ DOMAIN c = 1..Len(c)
  BY PositionsOfSequence
<1>2. DOMAIN d = 1..Len(c) /\ d = [q \in 1..Len(c) |-> d[q]]
  BY <1>1
<1>3. IsSequence(d) /\ Len(d) = Len(c)
  BY <1>1, <1>2, FunctionIsSequence
<1>4. \A p \in DOMAIN c : SameControl(c[p], d[p])
  BY DEF SameControl
<1>5. LabelsIn(d) = LabelsIn(c)
  BY <1>1, <1>2, <1>4 DEF LabelsIn, SameControl
<1>6. JumpsResolve(d)
  <2>1. \A p, q \in DOMAIN d :
          IsLabel(d[p]) /\ IsLabel(d[q]) /\ d[p].label = d[q].label => p = q
    BY <1>1, <1>2, <1>4 DEF JumpsResolve, SameControl
  <2>2. \A p \in DOMAIN d : LabelsOf(d[p]) \subseteq LabelsIn(d)
    BY <1>1, <1>2, <1>4, <1>5 DEF JumpsResolve, SameControl
  <2> QED
    BY <2>1, <2>2 DEF JumpsResolve
<1> QED
  BY <1>1, <1>2, <1>3, <1>4, <1>6

\* The list without the instruction at position a.
Without(c, a) == [q \in 1..(Len(c) - 1) |-> IF q < a THEN c[q] ELSE c[q + 1]]

\* Erasing an instruction that is not a label keeps every jump resolved
\* (eliminator and remover).
LEMMA EraseKeepsJumps ==
  ASSUME NEW c, IsSequence(c), JumpsResolve(c),
         NEW a \in DOMAIN c, ~IsLabel(c[a])
  PROVE  /\ IsSequence(Without(c, a))
         /\ Len(Without(c, a)) = Len(c) - 1
         /\ DOMAIN Without(c, a) = 1..(Len(c) - 1)
         /\ JumpsResolve(Without(c, a))
<1> DEFINE d == Without(c, a)
           from(q) == IF q < a THEN q ELSE q + 1
<1>1. Len(c) \in Nat /\ DOMAIN c = 1..Len(c)
  BY PositionsOfSequence
<1>2. Len(c) - 1 \in Nat
  BY <1>1
<1>3. /\ DOMAIN d = 1..(Len(c) - 1)
      /\ \A q \in DOMAIN d : d[q] = c[from(q)] /\ from(q) \in DOMAIN c \ {a}
  BY <1>1 DEF Without
<1>4. d = [q \in 1..(Len(c) - 1) |-> d[q]]
  BY DEF Without
<1>5. IsSequence(d) /\ Len(d) = Len(c) - 1
  BY <1>2, <1>3, <1>4, FunctionIsSequence
<1>6. \A p \in DOMAIN c \ {a} : \E q \in DOMAIN d : from(q) = p
  <2> SUFFICES ASSUME NEW p \in DOMAIN c \ {a}
               PROVE  \E q \in DOMAIN d : from(q) = p
    OBVIOUS
  <2>1. CASE p < a
    BY <1>1, <1>3, <2>1
  <2>2. CASE p > a
    <3>1. p - 1 \in DOMAIN d /\ from(p - 1) = p
      BY <1>1, <1>3, <2>2
    <3> QED
      BY <3>1
  <2> QED
    BY <1>1, <2>1, <2>2
<1>7. LabelsIn(d) = LabelsIn(c)
  <2>1. LabelsIn(d) \subseteq LabelsIn(c)
    BY <1>3 DEF LabelsIn
  <2>2. ASSUME NEW p \in DOMAIN c, IsLabel(c[p]) PROVE c[p].label \in LabelsIn(d)
    <3>1. PICK q \in DOMAIN d : from(q) = p
      BY <1>6, <2>2
    <3>2. d[q] = c[p]
      BY <1>3, <3>1
    <3> QED
      BY <2>2, <3>2 DEF LabelsIn
  <2> QED
    BY <2>1, <2>2 DEF LabelsIn
<1>8. JumpsResolve(d)
  <2>1. \A p, q \in DOMAIN d : from(p) = from(q) => p = q
    BY <1>1, <1>3
  <2>2. \A p, q \in DOMAIN d :
          IsLabel(d[p]) /\ IsLabel(d[q]) /\ d[p].label = d[q].label => p = q
    BY <1>3, <2>1 DEF JumpsResolve
  <2>3. \A p \in DOMAIN d : LabelsOf(d[p]) \subseteq LabelsIn(d)
    BY <1>3, <1>7 DEF JumpsResolve
  <2> QED
    BY <2>2, <2>3 DEF JumpsResolve
<1> QED
  BY <1>3, <1>5, <1>8

-----------------------------------------------------------------------------
(***************************************************************************)
(* What the propagator knows.                                              *)
(***************************************************************************)
Resolved(k) == \A x, y \in DOMAIN k : k[x] # Name(y)

\* Forgetting the aliases of d leaves no value that names d.
LEMMA ForgetForgets ==
  ASSUME NEW k, Resolved(k), NEW d
  PROVE  /\ Resolved(ForgetAliases(k, d))
         /\ \A x \in DOMAIN ForgetAliases(k, d) : ForgetAliases(k, d)[x] # Name(d)
         /\ DOMAIN ForgetAliases(k, d) \subseteq DOMAIN k
BY DEF Resolved, ForgetAliases

\* An operand the propagator has looked up is not known to be anything else.
LEMMA PropagatedIsResolved ==
  ASSUME KnownIsResolved, NEW v
  PROVE  \A y \in DOMAIN known : Propagated(v) # Name(y)
BY DEF KnownIsResolved, Propagated, Known, Name

\* What is known stays resolved through each kind of instruction, once its
\* operands have been looked up.
LEMMA KnownStaysResolved ==
  ASSUME KnownIsResolved, NEW i, i.op = "const" => i.value.kind # "name"
  PROVE  Resolved(KnownAfter(known, WithOperandsPropagated(i)))
<1> DEFINE j == WithOperandsPropagated(i)
<1>1. Resolved(known)
  BY DEF KnownIsResolved, Resolved
<1>2. CASE i.op = "move"
  <2> DEFINE s == Propagated(i.source)
             d == i.destination
  <2>1. KnownAfter(known, j) = ForgetAliases(Bind(known, d, s), d)
    BY <1>2 DEF KnownAfter, WithOperandsPropagated, Move
  <2>2. \A y \in DOMAIN known : s # Name(y)
    BY PropagatedIsResolved
  <2> HIDE DEF s, d
  <2>3. \A x \in DOMAIN Bind(known, d, s) : \A y \in DOMAIN known :
          Bind(known, d, s)[x] # Name(y)
    BY <1>1, <2>2 DEF Resolved, Bind
  <2>4. \A x \in DOMAIN ForgetAliases(Bind(known, d, s), d) :
          \A y \in DOMAIN known \cup {d} : ForgetAliases(Bind(known, d, s), d)[x] # Name(y)
    BY <2>3 DEF ForgetAliases
  <2>5. DOMAIN ForgetAliases(Bind(known, d, s), d) \subseteq DOMAIN known \cup {d}
    BY DEF ForgetAliases, Bind
  <2> QED
    BY <2>1, <2>4, <2>5 DEF Resolved
<1>3. CASE i.op = "const"
  <2> DEFINE f == ForgetAliases(known, i.destination)
  <2>1. KnownAfter(known, j) = Bind(f, i.destination, i.value)
    BY <1>3 DEF KnownAfter, WithOperandsPropagated
  <2>2. \A y : i.value # Name(y)
    BY <1>3 DEF Name
  <2>3. Resolved(f) /\ \A x \in DOMAIN f : f[x] # Name(i.destination)
    BY <1>1, ForgetForgets
  <2> HIDE DEF f
  <2> QED
    BY <2>1, <2>2, <2>3 DEF Resolved, Bind
<1>4. CASE i.op \in {"binop", "unary", "call"}
  <2> DEFINE f == ForgetAliases(known, i.destination)
  <2>1. KnownAfter(known, j) = Unbind(f, i.destination)
    BY <1>4 DEF KnownAfter, WithOperandsPropagated, BinOp, UnaryOp, Call
  <2>2. Resolved(f)
    BY <1>1, ForgetForgets
  <2> HIDE DEF f
  <2> QED
    BY <2>1, <2>2 DEF Resolved, Unbind
<1>5. CASE i.op = "return"
  BY <1>1, <1>5 DEF KnownAfter, WithOperandsPropagated, Return
<1>6. CASE i.op \notin {"move", "const", "binop", "unary", "call", "return"}
  <2>1. j.op \notin {"move", "const", "binop", "unary", "call", "return"}
    BY <1>6 DEF WithOperandsPropagated, Branch
  <2>2. KnownAfter(known, j) = Nothing
    BY <2>1 DEF KnownAfter
  <2> QED
    BY <2>2 DEF Nothing, Resolved
<1> QED
  BY <1>2, <1>3, <1>4, <1>5, <1>6

\* Looking up the operands of an instruction changes neither what it does to
\* the flow of control nor the value of a constant.
LEMMA PropagationKeepsControl ==
  ASSUME NEW i
  PROVE  /\ SameControl(i, WithOperandsPropagated(i))
         /\ WithOperandsPropagated(i).op = i.op
         /\ i.op = "const" => WithOperandsPropagated(i) = i
BY DEF WithOperandsPropagated, SameControl, IsLabel, IsTerminator, LabelsOf,
       Move, BinOp, UnaryOp, Call, Return, Branch

\* What the folder puts in the place of an operation is a constant.
LEMMA FoldedIsConstant ==
  ASSUME NEW i
  PROVE  FoldedBinOp(i).kind # "name" /\ FoldedUnaryOp(i).kind # "name"
BY DEF FoldedBinOp, FoldedUnaryOp, IntOperand, BoolOperand

-----------------------------------------------------------------------------
(***************************************************************************)
(* The invariant.                                                          *)
(***************************************************************************)
LEMMA InitEstablishesIInv == Init => IInv
<1> SUFFICES ASSUME Init PROVE IInv
  OBVIOUS
<1>1. IsSequence(code) /\ JumpsResolve(code) /\ ConstantsAreConstant(code)
  BY FunctionsAreCode DEF Init, IsSequence
<1>2. TypeOK
  <2>1. Len(code) \in Nat
    BY <1>1, PositionsOfSequence
  <2>2. at \in 1..(Len(code) + 1)
    BY <2>1 DEF Init
  <2> QED
    BY <2>2 DEF Init, TypeOK
<1>3. KnownIsResolved
  BY DEF Init, Nothing, KnownIsResolved
<1>4. LeavesFunctionCode /\ (pass = "remove" => ClearedBefore(at))
  BY DEF Init, LeavesFunctionCode
<1> QED
  BY <1>1, <1>2, <1>3, <1>4 DEF IInv

\* Folding rewrites one instruction where it stands: what is known and removed is untouched.
LEMMA FoldPreservesIInv == IInv /\ Fold => IInv'
<1> SUFFICES ASSUME IInv, Fold PROVE IInv'
  OBVIOUS
<1>1. /\ Len(code) \in Nat /\ DOMAIN code = 1..Len(code)
      /\ at \in DOMAIN code
  BY PositionsOfSequence DEF IInv, TypeOK, Fold, InPass
<1>2. /\ IsSequence(code') /\ Len(code') = Len(code)
      /\ JumpsResolve(code') /\ ConstantsAreConstant(code')
  <2>1. CASE Foldable(Here)
    <3> DEFINE i == Const(Here.destination, IF Here.op = "binop" THEN FoldedBinOp(Here)
                                            ELSE FoldedUnaryOp(Here))
    <3>1. code' = [code EXCEPT ![at] = i]
      BY <2>1 DEF Fold, Rewrite
    <3>2. SameControl(code[at], i)
      BY <2>1 DEF Foldable, Here, Const, SameControl, IsLabel, IsTerminator, LabelsOf
    <3>3. i.value.kind # "name"
      BY FoldedIsConstant DEF Const
    <3> HIDE DEF i
    <3>4. IsSequence(code') /\ Len(code') = Len(code) /\ JumpsResolve(code')
      BY <1>1, <3>1, <3>2, RewriteKeepsJumps DEF IInv
    <3>5. ConstantsAreConstant(code')
      BY <1>1, <3>1, <3>3 DEF IInv, ConstantsAreConstant
    <3> QED
      BY <3>4, <3>5
  <2>2. CASE ~Foldable(Here)
    BY <2>2 DEF Fold, IInv
  <2> QED
    BY <2>1, <2>2
<1>3. TypeOK'
  <2>1. at' \in 1..(Len(code') + 1)
    BY <1>1, <1>2 DEF Fold
  <2>2. changed' \in BOOLEAN
    BY DEF IInv, TypeOK, Fold
  <2> QED
    BY <2>1, <2>2 DEF IInv, TypeOK, Fold
<1>4. KnownIsResolved'
  BY DEF IInv, Fold, KnownIsResolved
<1>5. (pass = "remove" => ClearedBefore(at))' /\ LeavesFunctionCode'
  BY DEF Fold, InPass, LeavesFunctionCode
<1> QED
  BY <1>2, <1>3, <1>4, <1>5 DEF IInv

\* Propagation rewrites operands where they stand and only records resolved constants.
LEMMA PropagatePreservesIInv == IInv /\ Propagate => IInv'
<1> SUFFICES ASSUME IInv, Propagate PROVE IInv'
  OBVIOUS
<1> DEFINE i == WithOperandsPropagated(Here)
<1>1. /\ Len(code) \in Nat /\ DOMAIN code = 1..Len(code)
      /\ at \in DOMAIN code
  BY PositionsOfSequence DEF IInv, TypeOK, Propagate, InPass
<1>2. code' = [code EXCEPT ![at] = i] /\ known' = KnownAfter(known, i)
  BY DEF Propagate, Rewrite
<1>3. /\ SameControl(code[at], i)
      /\ i.op = "const" => i.value.kind # "name"
      /\ Here.op = "const" => Here.value.kind # "name"
  BY <1>1, PropagationKeepsControl DEF Here, IInv, ConstantsAreConstant
<1>4. KnownIsResolved'
  BY <1>2, <1>3, KnownStaysResolved DEF IInv, KnownIsResolved, Resolved
<1> HIDE DEF i
<1>5. IsSequence(code') /\ Len(code') = Len(code) /\ JumpsResolve(code')
  BY <1>1, <1>2, <1>3, RewriteKeepsJumps DEF IInv
<1>6. ConstantsAreConstant(code')
  BY <1>1, <1>2, <1>3 DEF IInv, ConstantsAreConstant
<1>7. TypeOK'
  BY <1>1, <1>5, SMT DEF IInv, TypeOK, Propagate, InPass
<1>8. (pass = "remove" => ClearedBefore(at))' /\ LeavesFunctionCode'
  BY DEF Propagate, InPass, LeavesFunctionCode
<1> QED
  BY <1>4, <1>5, <1>6, <1>7, <1>8 DEF IInv

\* Elimination marks an instruction for removal only when it is neither jump nor label.
LEMMA EliminatePreservesIInv == IInv /\ Eliminate => IInv'
<1> SUFFICES ASSUME IInv, Eliminate PROVE IInv'
  OBVIOUS
<1>1. /\ Len(code) \in Nat /\ DOMAIN code = 1..Len(code)
      /\ at \in DOMAIN code
  BY PositionsOfSequence DEF IInv, TypeOK, Eliminate, InPass
<1>2. CASE Removable(Here)
  <2>1. code' = Without(code, at) /\ at' = at /\ changed' = TRUE /\ pass' = pass
    BY <1>2 DEF Eliminate, Erase, StayAtErased, Without
  <2>2. ~IsLabel(code[at])
    BY <1>2 DEF Removable, Here, IsLabel
  <2>3. /\ IsSequence(code') /\ Len(code') = Len(code) - 1
        /\ DOMAIN code' = 1..(Len(code) - 1)
        /\ JumpsResolve(code')
    BY <1>1, <2>1, <2>2, EraseKeepsJumps DEF IInv
  <2>4. ConstantsAreConstant(code')
    BY <1>1, <2>1, <2>3 DEF IInv, ConstantsAreConstant, Without
  <2>5. at' \in 1..(Len(code') + 1)
    BY <1>1, <2>1, <2>3
  <2>6. TypeOK'
    BY <2>1, <2>5 DEF IInv, TypeOK
  <2>7. KnownIsResolved'
    BY DEF IInv, Eliminate, KnownIsResolved
  <2>8. (pass = "remove" => ClearedBefore(at))' /\ LeavesFunctionCode'
    BY <2>1 DEF Eliminate, InPass, LeavesFunctionCode
  <2> QED
    BY <2>3, <2>4, <2>6, <2>7, <2>8 DEF IInv
<1>3. CASE ~Removable(Here)
  <2>1. code' = code /\ at' = at + 1 /\ UNCHANGED <<pass, known, changed>>
    BY <1>3 DEF Eliminate
  <2>2. at' \in 1..(Len(code') + 1)
    BY <1>1, <2>1
  <2>3. TypeOK'
    BY <2>1, <2>2 DEF IInv, TypeOK
  <2>4. KnownIsResolved'
    BY <2>1 DEF IInv, KnownIsResolved
  <2>5. (pass = "remove" => ClearedBefore(at))' /\ LeavesFunctionCode'
    BY <2>1 DEF Eliminate, InPass, LeavesFunctionCode
  <2> QED
    BY <2>1, <2>3, <2>4, <2>5 DEF IInv
<1> QED
  BY <1>2, <1>3

\* The only place where ClearedBefore has to be shown anew.
LEMMA RemovePreservesIInv == IInv /\ Remove => IInv'
<1> SUFFICES ASSUME IInv, Remove PROVE IInv'
  OBVIOUS
<1>1. /\ Len(code) \in Nat /\ DOMAIN code = 1..Len(code)
      /\ at \in DOMAIN code
      /\ pass = "remove" /\ ClearedBefore(at)
  BY PositionsOfSequence DEF IInv, TypeOK, Remove, InPass
<1>2. CASE Unreachable
  <2>1. code' = Without(code, at + 1) /\ at' = at /\ changed' = TRUE /\ pass' = pass
    BY <1>2 DEF Remove, Erase, Without
  <2>2. at + 1 \in DOMAIN code /\ ~IsLabel(code[at + 1])
    BY <1>1, <1>2 DEF Unreachable
  <2>3. /\ IsSequence(code') /\ Len(code') = Len(code) - 1
        /\ DOMAIN code' = 1..(Len(code) - 1)
        /\ JumpsResolve(code')
    BY <1>1, <2>1, <2>2, EraseKeepsJumps DEF IInv
  <2>4. ConstantsAreConstant(code')
    BY <1>1, <2>1, <2>3 DEF IInv, ConstantsAreConstant, Without
  <2>5. at' \in 1..(Len(code') + 1)
    BY <1>1, <2>1, <2>2, <2>3
  <2>6. TypeOK'
    BY <2>1, <2>5 DEF IInv, TypeOK
  <2>7. KnownIsResolved'
    BY DEF IInv, Remove, KnownIsResolved
  <2>8. ClearedBefore(at)'
    <3> SUFFICES ASSUME NEW p \in DOMAIN code' \ {Len(code')},
                        p < at', IsTerminator(code'[p])
                 PROVE  IsLabel(code'[p + 1])
      BY DEF ClearedBefore
    <3>1. p \in DOMAIN code \ {Len(code)} /\ p < at /\ p + 1 \in DOMAIN code'
      BY <1>1, <2>1, <2>3
    <3>2. \A q \in 1..(Len(code) - 1) : q < at + 1 => code'[q] = code[q]
      BY <2>1 DEF Without
    <3>3. /\ p \in 1..(Len(code) - 1) /\ p < at + 1
          /\ p + 1 \in 1..(Len(code) - 1) /\ p + 1 < at + 1
      BY <1>1, <2>3, <3>1
    <3>4. code'[p] = code[p] /\ code'[p + 1] = code[p + 1]
      BY <3>2, <3>3
    <3> QED
      BY <1>1, <3>1, <3>4 DEF ClearedBefore
  <2>9. LeavesFunctionCode'
    BY <1>1, <2>1 DEF LeavesFunctionCode
  <2> QED
    BY <2>3, <2>4, <2>6, <2>7, <2>8, <2>9 DEF IInv
<1>3. CASE ~Unreachable
  <2>1. code' = code /\ at' = at + 1 /\ UNCHANGED <<pass, known, changed>>
    BY <1>3 DEF Remove
  <2>2. at' \in 1..(Len(code') + 1)
    BY <1>1, <2>1
  <2>3. TypeOK'
    BY <2>1, <2>2 DEF IInv, TypeOK
  <2>4. KnownIsResolved'
    BY <2>1 DEF IInv, KnownIsResolved
  <2>5. ClearedBefore(at)'
    <3> SUFFICES ASSUME NEW p \in DOMAIN code \ {Len(code)},
                        p < at + 1, IsTerminator(code[p])
                 PROVE  IsLabel(code[p + 1])
      BY <2>1 DEF ClearedBefore
    <3>1. CASE p < at
      BY <1>1, <3>1 DEF ClearedBefore
    <3>2. CASE p = at
      BY <1>1, <1>3, <3>2 DEF Unreachable, Here
    <3> QED
      BY <1>1, <3>1, <3>2
  <2>6. LeavesFunctionCode'
    BY <1>1, <2>1 DEF LeavesFunctionCode
  <2> QED
    BY <2>1, <2>3, <2>4, <2>5, <2>6 DEF IInv
<1> QED
  BY <1>2, <1>3

\* The steps between the passes, and the failure, leave the list alone.
LEMMA BetweenPassesPreservesIInv ==
  ASSUME IInv,
         \/ FoldFails \/ StartPropagator \/ StartEliminator
         \/ StartRemover \/ EndRound
  PROVE  IInv'
<1>1. /\ code' = code /\ known' \in {known, Nothing}
      /\ at' \in {at, 1} /\ changed' \in {changed, FALSE}
  BY DEF FoldFails, StartPropagator, StartEliminator, StartRemover, EndRound
<1>2. Len(code) \in Nat /\ DOMAIN code = 1..Len(code)
  BY PositionsOfSequence DEF IInv
<1>3. IsSequence(code') /\ JumpsResolve(code') /\ ConstantsAreConstant(code')
  BY <1>1 DEF IInv
<1>4. KnownIsResolved'
  BY <1>1 DEF IInv, KnownIsResolved, Nothing
<1>5. TypeOK'
  <2>1. at' \in 1..(Len(code') + 1)
    BY <1>1, <1>2 DEF IInv, TypeOK
  <2>2. pass' \in {"fold", "propagate", "eliminate", "remove", "done", "failed"}
    BY DEF FoldFails, StartPropagator, StartEliminator, StartRemover, EndRound
  <2>3. changed' \in BOOLEAN
    BY <1>1 DEF IInv, TypeOK
  <2> QED
    BY <2>1, <2>2, <2>3 DEF TypeOK
<1>6. (pass = "remove" => ClearedBefore(at))'
  <2> SUFFICES ASSUME pass' = "remove" PROVE ClearedBefore(1)'
    BY DEF FoldFails, StartPropagator, StartEliminator, StartRemover, EndRound
  <2> QED
    BY <1>1, <1>2 DEF ClearedBefore
<1>7. LeavesFunctionCode'
  <2> SUFFICES ASSUME pass' = "done" PROVE IsFunctionCode(code')
    BY DEF LeavesFunctionCode
  <2>1. pass = "remove" /\ at > Len(code)
    BY DEF FoldFails, StartPropagator, StartEliminator, StartRemover, EndRound, PassEnds
  <2>2. TerminatorsPrecedeLabels(code)
    BY <1>2, <2>1 DEF IInv, TypeOK, ClearedBefore, TerminatorsPrecedeLabels
  <2> QED
    BY <1>1, <1>3, <2>2 DEF IsFunctionCode
<1> QED
  BY <1>3, <1>4, <1>5, <1>6, <1>7 DEF IInv

\* Every step of the optimizer keeps the inductive invariant: one case per pass and action.
LEMMA NextPreservesIInv == IInv /\ [Next]_vars => IInv'
<1> SUFFICES ASSUME IInv, [Next]_vars PROVE IInv'
  OBVIOUS
<1>1. CASE Fold
  BY <1>1, FoldPreservesIInv
<1>2. CASE Propagate
  BY <1>2, PropagatePreservesIInv
<1>3. CASE Eliminate
  BY <1>3, EliminatePreservesIInv
<1>4. CASE Remove
  BY <1>4, RemovePreservesIInv
<1>5. CASE FoldFails \/ StartPropagator \/ StartEliminator \/ StartRemover \/ EndRound
  BY <1>5, BetweenPassesPreservesIInv
<1>6. CASE UNCHANGED vars
  BY <1>6 DEF vars, IInv, TypeOK, KnownIsResolved, ClearedBefore, LeavesFunctionCode
<1> QED
  BY <1>1, <1>2, <1>3, <1>4, <1>5, <1>6 DEF Next

\* IInv holds throughout.
LEMMA InvariantHolds == Spec => []IInv
<1>1. Init => IInv
  BY InitEstablishesIInv
<1>2. IInv /\ [Next]_vars => IInv'
  BY NextPreservesIInv
<1> QED
  BY <1>1, <1>2, PTL DEF Spec

-----------------------------------------------------------------------------
(***************************************************************************)
(* The theorems.                                                           *)
(***************************************************************************)

\* The index of every pass of optimizer.cpp stays on the list it edits, or one
\* past its end, however many instructions are erased under it.
THEOREM TypeCorrect == Spec => []TypeOK
<1>1. IInv => TypeOK
  BY DEF IInv
<1> QED
  BY <1>1, InvariantHolds, PTL

\* What the propagator takes an operand for is never itself known to be
\* something else, whatever the instructions before it.
THEOREM PropagationIsResolved == Spec => []KnownIsResolved
<1>1. IInv => KnownIsResolved
  BY DEF IInv
<1> QED
  BY <1>1, InvariantHolds, PTL

\* The optimizer hands buildBlocks what it relies on: every jump finds its
\* one label and only a label follows a terminator.
THEOREM OutputIsFunctionCode == Spec => []LeavesFunctionCode
<1>1. IInv => LeavesFunctionCode
  BY DEF IInv
<1> QED
  BY <1>1, InvariantHolds, PTL

-----------------------------------------------------------------------------
(***************************************************************************)
(* Second part: meaning.                                                   *)
(***************************************************************************)


Ended(c, t) == t.run.pos > Len(c)

\* An execution of the original list that ends, ends with the same calls and
\* result in the list as it is.
Keeps(c, d, env) ==
  LET before == Traced(c, env, Fuel)
      after == Traced(d, env, Fuel)
  IN  Ended(c, before) /\ before.suited =>
        /\ Ended(d, after) /\ after.suited
        /\ after.run.calls = before.run.calls
        /\ after.run.result = before.run.result

\* What the propagator knows is true of an execution.
IsTrueOf(k, t) ==
  \A x \in DOMAIN k :
    /\ x \in DOMAIN t.run.env
    /\ k[x].kind = "name" => k[x].name \in DOMAIN t.run.env
    /\ t.run.env[x] = ValueOf(t.run.env, k[x])
    /\ t.kinds[x] = KindOf(t.kinds, k[x])

\* Executions that come to the propagator's position other than by a jump
\* find there what it knows.
KnownIsTrue(c, k, p, env) ==
  ~IsLabel(c[p]) /\ p \in DOMAIN c =>
    \A n \in Nat : Traced(c, env, n).run.pos = p => IsTrueOf(k, Traced(c, env, n))

KnownAreValues(k) == \A x \in DOMAIN k : IsValue(k[x])

Ends(env) == Ended(origin, Traced(origin, env, Fuel))

MInv ==
  /\ OperandsAreValues(code)
  /\ KnownAreValues(known)
  /\ origin \in Functions
  /\ \A env \in [Parameters -> Arguments] : Keeps(origin, code, env)
  /\ pass = "propagate" =>
       \A env \in [Parameters -> Arguments] :
         Ends(env) => KnownIsTrue(code, known, at, env)
  /\ pass = "eliminate" => \A p \in DOMAIN code : GetSources(code[p]) \subseteq used

-----------------------------------------------------------------------------
(***************************************************************************)
(* Executions.                                                             *)
(***************************************************************************)

\* The recursion of Traced, unfolded.
LEMMA TraceUnfolds ==
  ASSUME NEW c, NEW env
  PROVE  /\ Traced(c, env, 0) = TraceOf(env)
         /\ \A n \in Nat : Traced(c, env, n + 1) = Followed(c, Traced(c, env, n))
<1> DEFINE f0 == TraceOf(env)
           Def(v, n) == Followed(c, v)
           f == CHOOSE g : g = [n \in Nat |-> IF n = 0 THEN TraceOf(env) ELSE Followed(c, g[n - 1])]
<1>1. NatInductiveDefHypothesis(f, f0, Def)
  BY DEF NatInductiveDefHypothesis
<1>2. NatInductiveDefConclusion(f, f0, Def)
  BY <1>1, NatInductiveDef
<1>3. f = [n \in Nat |-> IF n = 0 THEN f0 ELSE Def(f[n - 1], n)]
  BY <1>2 DEF NatInductiveDefConclusion
<1>4. \A n : Traced(c, env, n) = f[n]
  BY DEF Traced
<1> HIDE DEF f
<1>5. f[0] = f0 /\ \A n \in Nat \ {0} : f[n] = Def(f[n - 1], n)
  <2> HIDE DEF Def, f0
  <2> QED
    BY <1>3
<1>6. ASSUME NEW n \in Nat PROVE f[n + 1] = Followed(c, f[n])
  <2> DEFINE m == n + 1
  <2>1. m \in Nat \ {0} /\ m - 1 = n
    OBVIOUS
  <2> HIDE DEF m
  <2>2. f[m] = Def(f[m - 1], m)
    BY <1>5, <2>1
  <2> QED
    BY <2>1, <2>2 DEF m
<1> QED
  BY <1>4, <1>5, <1>6

\* The recursion of Run, unfolded.
LEMMA RunUnfolds ==
  ASSUME NEW c, NEW env
  PROVE  /\ Run(c, env, 0) = Started(env)
         /\ \A n \in Nat : Run(c, env, n + 1) = Stepped(c, Run(c, env, n))
<1> DEFINE f0 == Started(env)
           Def(v, n) == Stepped(c, v)
           f == CHOOSE g : g = [n \in Nat |-> IF n = 0 THEN Started(env) ELSE Stepped(c, g[n - 1])]
<1>1. NatInductiveDefHypothesis(f, f0, Def)
  BY DEF NatInductiveDefHypothesis
<1>2. NatInductiveDefConclusion(f, f0, Def)
  BY <1>1, NatInductiveDef
<1>3. f = [n \in Nat |-> IF n = 0 THEN f0 ELSE Def(f[n - 1], n)]
  BY <1>2 DEF NatInductiveDefConclusion
<1>4. \A n : Run(c, env, n) = f[n]
  BY DEF Run
<1> HIDE DEF f
<1>5. f[0] = f0 /\ \A n \in Nat \ {0} : f[n] = Def(f[n - 1], n)
  <2> HIDE DEF Def, f0
  <2> QED
    BY <1>3
<1>6. ASSUME NEW n \in Nat PROVE f[n + 1] = Stepped(c, f[n])
  <2> DEFINE m == n + 1
  <2>1. m \in Nat \ {0} /\ m - 1 = n
    OBVIOUS
  <2> HIDE DEF m
  <2>2. f[m] = Def(f[m - 1], m)
    BY <1>5, <2>1
  <2> QED
    BY <2>1, <2>2 DEF m
<1> QED
  BY <1>4, <1>5, <1>6

\* A traced execution is an execution.
LEMMA TraceRuns ==
  ASSUME NEW c, NEW env, NEW n \in Nat
  PROVE  Traced(c, env, n).run = Run(c, env, n)
<1> DEFINE S == { k \in Nat : Traced(c, env, k).run = Run(c, env, k) }
<1>1. 0 \in S
  BY TraceUnfolds, RunUnfolds DEF TraceOf
<1>2. ASSUME NEW k \in Nat, k \in S PROVE k + 1 \in S
  <2>1. Followed(c, Traced(c, env, k)).run = Stepped(c, Traced(c, env, k).run)
    BY DEF Followed, Stepped
  <2>2. Traced(c, env, k + 1).run = Run(c, env, k + 1)
    BY <1>2, <2>1, TraceUnfolds, RunUnfolds
  <2> QED
    BY <2>2
<1> HIDE DEF S
<1>3. Nat \subseteq S
  BY <1>1, <1>2, SetInduction
<1> QED
  BY <1>3 DEF S

\* The position a jump leads to is that of its label.
LEMMA LabelHasPosition ==
  ASSUME NEW c, JumpsResolve(c), NEW l \in LabelsIn(c)
  PROVE  /\ PositionOf(c, l) \in DOMAIN c
         /\ IsLabel(c[PositionOf(c, l)]) /\ c[PositionOf(c, l)].label = l
         /\ \A p \in DOMAIN c : IsLabel(c[p]) /\ c[p].label = l => p = PositionOf(c, l)
<1>1. \E p \in DOMAIN c : IsLabel(c[p]) /\ c[p].label = l
  BY DEF LabelsIn
<1>2. /\ PositionOf(c, l) \in DOMAIN c
      /\ IsLabel(c[PositionOf(c, l)]) /\ c[PositionOf(c, l)].label = l
  BY <1>1 DEF PositionOf
<1> QED
  BY <1>2 DEF JumpsResolve

\* Execution stays in the list until it ends, and comes to what is no label
\* from the instruction before it only.
LEMMA NextPosition ==
  ASSUME NEW c, IsSequence(c), JumpsResolve(c), NEW p \in DOMAIN c, NEW env
  PROVE  /\ PositionAfter(c, p, env) \in 1..(Len(c) + 1)
         /\ PositionAfter(c, p, env) \in DOMAIN c /\ ~IsLabel(c[PositionAfter(c, p, env)]) =>
              ~IsTerminator(c[p]) /\ PositionAfter(c, p, env) = p + 1
<1> DEFINE q == PositionAfter(c, p, env)
<1>1. Len(c) \in Nat /\ DOMAIN c = 1..Len(c)
  BY PositionsOfSequence
<1>2. CASE c[p].op = "jump"
  <2>1. c[p].destination \in LabelsIn(c)
    BY <1>2 DEF JumpsResolve, LabelsOf
  <2>2. q = PositionOf(c, c[p].destination)
    BY <1>2 DEF PositionAfter
  <2> QED
    BY <1>1, <2>1, <2>2, LabelHasPosition
<1>3. CASE c[p].op = "branch"
  <2>1. c[p].trueLabel \in LabelsIn(c) /\ c[p].falseLabel \in LabelsIn(c)
    BY <1>3 DEF JumpsResolve, LabelsOf
  <2>2. \/ q = PositionOf(c, c[p].trueLabel)
        \/ q = PositionOf(c, c[p].falseLabel)
    BY <1>3 DEF PositionAfter
  <2> QED
    BY <1>1, <2>1, <2>2, LabelHasPosition
<1>4. CASE c[p].op = "return"
  BY <1>1, <1>4 DEF PositionAfter
<1>5. CASE c[p].op \notin {"jump", "branch", "return"}
  BY <1>1, <1>5 DEF PositionAfter, IsTerminator
<1> QED
  BY <1>2, <1>3, <1>4, <1>5

\* The call a step makes.
CallIn(env, i) == [function |-> i.functionName,
                   arguments |-> [k \in DOMAIN i.arguments |-> ValueOf(env, i.arguments[k])]]

\* The state after a step, part by part.
LEMMA StepParts ==
  ASSUME NEW c, NEW r, ~(r.pos > Len(c)), CanStep(r.env, c[r.pos])
  PROVE  LET i == c[r.pos]
             s == Stepped(c, r)
         IN  /\ s.pos = PositionAfter(c, r.pos, r.env)
             /\ s.env = EnvAfter(r.env, i, Answer(r))
             /\ i.op = "call" => s.calls = Append(r.calls, CallIn(r.env, i))
             /\ i.op # "call" => s.calls = r.calls
             /\ i.op = "return" => s.result = <<ValueOf(r.env, i.value)>>
             /\ i.op # "return" => s.result = r.result
<1> DEFINE i == c[r.pos]
           s == Stepped(c, r)
           q == PositionAfter(c, r.pos, r.env)
           e == EnvAfter(r.env, i, Answer(r))
           k == CallIn(r.env, i)
           v == ValueOf(r.env, i.value)
<1>1. s = [pos |-> q, env |-> e,
           calls |-> IF i.op # "call" THEN r.calls ELSE Append(r.calls, k),
           result |-> IF i.op = "return" THEN <<v>> ELSE r.result]
  BY DEF Stepped, CallIn
<1> HIDE DEF s, q, e, k, v
<1>2. /\ s.pos = q /\ s.env = e
      /\ i.op = "call" => s.calls = Append(r.calls, k)
      /\ i.op # "call" => s.calls = r.calls
      /\ i.op = "return" => s.result = <<v>>
      /\ i.op # "return" => s.result = r.result
  BY <1>1
<1> QED
  BY <1>2 DEF s, q, e, k, v

\* What a step does, where there is one.
LEMMA StepTaken ==
  ASSUME NEW c, IsSequence(c), NEW t, t.run.pos \in 1..(Len(c) + 1)
  PROVE  LET p == t.run.pos
             i == c[p]
             s == Followed(c, t)
         IN  /\ Ended(c, t) => s = t
             /\ ~Ended(c, t) =>
                  /\ p \in DOMAIN c
                  /\ ~CanStep(t.run.env, i) => s = t
                  /\ CanStep(t.run.env, i) =>
                       /\ s.run.pos = PositionAfter(c, p, t.run.env)
                       /\ s.run.env = EnvAfter(t.run.env, i, Answer(t.run))
                       /\ i.op # "call" => s.run.calls = t.run.calls
                       /\ i.op # "return" => s.run.result = t.run.result
                       /\ s.suited = (t.suited /\ Suits(t.kinds, i))
<1>1. Len(c) \in Nat /\ DOMAIN c = 1..Len(c)
  BY PositionsOfSequence
<1> DEFINE p == t.run.pos
           i == c[p]
           s == Followed(c, t)
<1>2. CASE Ended(c, t)
  BY <1>2 DEF Ended, Followed
<1>3. CASE ~Ended(c, t)
  <2>1. p \in DOMAIN c /\ ~(p > Len(c))
    BY <1>1, <1>3 DEF Ended
  <2>2. CASE ~CanStep(t.run.env, i)
    BY <1>3, <2>1, <2>2 DEF Followed
  <2>3. CASE CanStep(t.run.env, i)
    <3>1. s.run = Stepped(c, t.run) /\ s.suited = (t.suited /\ Suits(t.kinds, i))
      BY <2>1, <2>3 DEF Followed
    <3> QED
      BY <1>3, <2>1, <2>3, <3>1, StepParts
  <2> QED
    BY <2>2, <2>3
<1> QED
  BY <1>2, <1>3

\* Execution stays in the list until it ends.
LEMMA TraceStaysInside ==
  ASSUME NEW c, IsSequence(c), JumpsResolve(c), NEW env, NEW n \in Nat
  PROVE  /\ Traced(c, env, n).run.pos \in 1..(Len(c) + 1)
         /\ Traced(c, env, n).suited \in BOOLEAN
<1> DEFINE S == { k \in Nat : /\ Traced(c, env, k).run.pos \in 1..(Len(c) + 1)
                              /\ Traced(c, env, k).suited \in BOOLEAN }
<1>1. 0 \in S
  <2>1. TraceOf(env).run.pos = 1 /\ TraceOf(env).suited = TRUE
    BY DEF TraceOf, Started
  <2>2. Len(c) \in Nat
    BY PositionsOfSequence
  <2>3. Traced(c, env, 0) = TraceOf(env)
    BY TraceUnfolds
  <2>4. Traced(c, env, 0).run.pos \in 1..(Len(c) + 1)
    BY <2>1, <2>2, <2>3
  <2>5. Traced(c, env, 0).suited \in BOOLEAN
    BY <2>1, <2>3
  <2> QED
    BY <2>4, <2>5
<1>2. ASSUME NEW k \in Nat, k \in S PROVE k + 1 \in S
  <2> DEFINE t == Traced(c, env, k)
             s == Traced(c, env, k + 1)
  <2>1. s = Followed(c, t)
    BY TraceUnfolds
  <2>2. t.run.pos \in 1..(Len(c) + 1) /\ t.suited \in BOOLEAN
    BY <1>2
  <2> HIDE DEF t, s
  <2>3. \/ s = t
        \/ /\ t.run.pos \in DOMAIN c
           /\ s.run.pos = PositionAfter(c, t.run.pos, t.run.env)
           /\ s.suited = (t.suited /\ Suits(t.kinds, c[t.run.pos]))
    BY <2>1, <2>2, StepTaken
  <2>4. s.run.pos \in 1..(Len(c) + 1) /\ s.suited \in BOOLEAN
    BY <2>2, <2>3, NextPosition
  <2> QED
    BY <2>4 DEF s
<1> HIDE DEF S
<1>3. Nat \subseteq S
  BY <1>1, <1>2, SetInduction
<1> QED
  BY <1>3 DEF S

\* Once it has ended nothing changes.
LEMMA EndedStays ==
  ASSUME NEW c, NEW env, NEW n \in Nat, NEW m \in Nat, n <= m,
         Ended(c, Traced(c, env, n))
  PROVE  Traced(c, env, m) = Traced(c, env, n)
<1> DEFINE S == { k \in Nat : Traced(c, env, k) = Traced(c, env, n) }
<1>1. n \in S
  OBVIOUS
<1>2. ASSUME NEW k \in n..(m - 1), k \in S PROVE k + 1 \in S
  <2>1. Traced(c, env, k + 1) = Followed(c, Traced(c, env, n))
    BY <1>2, TraceUnfolds
  <2>2. Followed(c, Traced(c, env, n)) = Traced(c, env, n)
    BY DEF Followed, Ended
  <2> QED
    BY <2>1, <2>2
<1> HIDE DEF S
<1>3. n..m \subseteq S
  BY <1>1, <1>2, IntervalInduction
<1> QED
  BY <1>3 DEF S

\* An execution whose operands suited to the end had suitable ones always.
LEMMA SuitedThroughout ==
  ASSUME NEW c, IsSequence(c), JumpsResolve(c), NEW env, NEW N \in Nat,
         Ended(c, Traced(c, env, N)), Traced(c, env, N).suited, NEW n \in Nat
  PROVE  Traced(c, env, n).suited = TRUE
<1>1. CASE N <= n
  BY <1>1, EndedStays, TraceStaysInside
<1>2. CASE n <= N
  <2> DEFINE S == { k \in Nat : k <= N => Traced(c, env, N - k).suited }
  <2>1. 0 \in S
    OBVIOUS
  <2>2. ASSUME NEW k \in Nat, k \in S PROVE k + 1 \in S
    <3> SUFFICES ASSUME k + 1 <= N PROVE Traced(c, env, N - (k + 1)).suited
      OBVIOUS
    <3> DEFINE m == N - (k + 1)
               t == Traced(c, env, m)
    <3>1. m \in Nat /\ m + 1 = N - k
      OBVIOUS
    <3>2. Traced(c, env, m + 1).suited
      BY <2>2, <3>1
    <3> HIDE DEF m
    <3>3. Traced(c, env, m + 1) = Followed(c, t)
      BY <3>1, TraceUnfolds
    <3>4. t.run.pos \in 1..(Len(c) + 1)
      BY <3>1, TraceStaysInside
    <3> HIDE DEF t
    <3>5. Followed(c, t) = t \/ Followed(c, t).suited = (t.suited /\ Suits(t.kinds, c[t.run.pos]))
      BY <3>4, StepTaken
    <3>6. t.suited
      BY <3>2, <3>3, <3>5
    <3> QED
      BY <3>6 DEF t, m
  <2> HIDE DEF S
  <2>3. Nat \subseteq S
    BY <2>1, <2>2, SetInduction
  <2>4. N - n \in S /\ N - n <= N /\ N - (N - n) = n
    BY <1>2, <2>3
  <2>5. Traced(c, env, n).suited
    BY <2>4 DEF S
  <2> QED
    BY <2>5, TraceStaysInside
<1>3. N <= n \/ n <= N
  OBVIOUS
<1> QED
  BY <1>1, <1>2, <1>3, Zenon

\* Two lists that step alike wherever the first one comes run alike.
LEMMA SameStepsSameTrace ==
  ASSUME NEW c, NEW d, NEW env,
         \A n \in Nat : Followed(d, Traced(c, env, n)) = Followed(c, Traced(c, env, n)),
         NEW n \in Nat
  PROVE  Traced(d, env, n) = Traced(c, env, n)
<1> DEFINE S == { k \in Nat : Traced(d, env, k) = Traced(c, env, k) }
<1>1. 0 \in S
  BY TraceUnfolds
<1>2. ASSUME NEW k \in Nat, k \in S PROVE k + 1 \in S
  <2>1. Traced(d, env, k + 1) = Followed(d, Traced(d, env, k))
    BY TraceUnfolds
  <2>2. Traced(c, env, k + 1) = Followed(c, Traced(c, env, k))
    BY TraceUnfolds
  <2>3. Traced(d, env, k) = Traced(c, env, k)
    BY <1>2
  <2> QED
    BY <2>1, <2>2, <2>3
<1> HIDE DEF S
<1>3. Nat \subseteq S
  BY <1>1, <1>2, SetInduction
<1> QED
  BY <1>3 DEF S

-----------------------------------------------------------------------------
(***************************************************************************)
(* Instructions rewritten in place (folder and propagator): every step of  *)
(* an execution is what it was.                                            *)
(***************************************************************************)

\* In the state of t, j does what i does.
SameEffect(i, j, t) ==
  LET env == t.run.env IN
    /\ CanStep(env, j) <=> CanStep(env, i)
    /\ Suits(t.kinds, j) <=> Suits(t.kinds, i)
    /\ GetDestination(j) = GetDestination(i)
    /\ GetDestination(i) # {} =>
         /\ \A r : ResultOf(env, j, r) = ResultOf(env, i, r)
         /\ ResultKind(t.kinds, j) = ResultKind(t.kinds, i)
    /\ j.op = i.op \/ {i.op, j.op} \cap {"call", "return", "jump", "branch"} = {}
    /\ i.op = "call" =>
         /\ j.functionName = i.functionName
         /\ [k \in DOMAIN j.arguments |-> ValueOf(env, j.arguments[k])]
              = [k \in DOMAIN i.arguments |-> ValueOf(env, i.arguments[k])]
    /\ i.op = "return" => ValueOf(env, j.value) = ValueOf(env, i.value)
    /\ i.op = "branch" => /\ ValueOf(env, j.condition) = ValueOf(env, i.condition)
                          /\ j.trueLabel = i.trueLabel /\ j.falseLabel = i.falseLabel
    /\ i.op = "jump" => j.destination = i.destination

\* An instruction has the effect of itself.
LEMMA EffectOfItself ==
  ASSUME NEW i, NEW t
  PROVE  SameEffect(i, i, t)
BY DEF SameEffect

\* Labels are where they were.
LEMMA RewriteKeepsPositions ==
  ASSUME NEW c, NEW d, JumpsResolve(c), JumpsResolve(d), DOMAIN d = DOMAIN c,
         \A p \in DOMAIN c : SameControl(c[p], d[p]), NEW l \in LabelsIn(c)
  PROVE  PositionOf(d, l) = PositionOf(c, l)
<1>1. /\ PositionOf(c, l) \in DOMAIN c
      /\ IsLabel(c[PositionOf(c, l)]) /\ c[PositionOf(c, l)].label = l
  BY LabelHasPosition
<1>2. IsLabel(d[PositionOf(c, l)]) /\ d[PositionOf(c, l)].label = l
  BY <1>1 DEF SameControl
<1>3. l \in LabelsIn(d)
  BY <1>1, <1>2 DEF LabelsIn
<1> QED
  BY <1>1, <1>2, <1>3, LabelHasPosition

\* The position after an instruction rewritten to the same effect.
LEMMA RewriteKeepsNext ==
  ASSUME NEW c, NEW d, IsSequence(c), JumpsResolve(c), JumpsResolve(d),
         DOMAIN d = DOMAIN c, Len(d) = Len(c),
         \A p \in DOMAIN c : SameControl(c[p], d[p]),
         NEW t, t.run.pos \in DOMAIN c, SameEffect(c[t.run.pos], d[t.run.pos], t)
  PROVE  PositionAfter(d, t.run.pos, t.run.env) = PositionAfter(c, t.run.pos, t.run.env)
<1> DEFINE p == t.run.pos
           env == t.run.env
<1>1. LabelsOf(c[p]) \subseteq LabelsIn(c)
  BY DEF JumpsResolve
<1>2. CASE c[p].op = "jump"
  <2>1. d[p].op = "jump" /\ d[p].destination = c[p].destination
    BY <1>2 DEF SameEffect
  <2>2. c[p].destination \in LabelsIn(c)
    BY <1>1, <1>2 DEF LabelsOf
  <2> QED
    BY <1>2, <2>1, <2>2, RewriteKeepsPositions DEF PositionAfter
<1>3. CASE c[p].op = "branch"
  <2>1. /\ d[p].op = "branch" /\ ValueOf(env, d[p].condition) = ValueOf(env, c[p].condition)
        /\ d[p].trueLabel = c[p].trueLabel /\ d[p].falseLabel = c[p].falseLabel
    BY <1>3 DEF SameEffect
  <2>2. c[p].trueLabel \in LabelsIn(c) /\ c[p].falseLabel \in LabelsIn(c)
    BY <1>1, <1>3 DEF LabelsOf
  <2>3. /\ PositionOf(d, c[p].trueLabel) = PositionOf(c, c[p].trueLabel)
        /\ PositionOf(d, c[p].falseLabel) = PositionOf(c, c[p].falseLabel)
    BY <2>2, RewriteKeepsPositions
  <2> QED
    BY <1>3, <2>1, <2>3 DEF PositionAfter
<1>4. CASE c[p].op = "return"
  <2>1. d[p].op = "return"
    BY <1>4 DEF SameEffect
  <2> QED
    BY <1>4, <2>1 DEF PositionAfter
<1>5. CASE c[p].op \notin {"jump", "branch", "return"}
  <2>1. d[p].op \notin {"jump", "branch", "return"}
    BY <1>5 DEF SameEffect
  <2> QED
    BY <1>5, <2>1 DEF PositionAfter
<1> QED
  BY <1>2, <1>3, <1>4, <1>5

\* A step of the rewritten list is the step of the list.
LEMMA RewriteKeepsStep ==
  ASSUME NEW c, NEW d, IsSequence(c), JumpsResolve(c), JumpsResolve(d),
         DOMAIN d = DOMAIN c, Len(d) = Len(c),
         \A p \in DOMAIN c : SameControl(c[p], d[p]),
         NEW t, t.run.pos \in 1..(Len(c) + 1),
         t.run.pos \in DOMAIN c => SameEffect(c[t.run.pos], d[t.run.pos], t)
  PROVE  Followed(d, t) = Followed(c, t)
<1> DEFINE p == t.run.pos
           env == t.run.env
           i == c[p]
           j == d[p]
<1>1. Len(c) \in Nat /\ DOMAIN c = 1..Len(c)
  BY PositionsOfSequence
<1>2. CASE p > Len(c)
  BY <1>2 DEF Followed
<1>3. CASE p \in DOMAIN c /\ ~CanStep(env, i)
  <2>1. ~CanStep(env, j)
    BY <1>3 DEF SameEffect
  <2> QED
    BY <1>3, <2>1 DEF Followed
<1>4. CASE p \in DOMAIN c /\ CanStep(env, i)
  <2>1. SameEffect(i, j, t) /\ CanStep(env, j)
    BY <1>4 DEF SameEffect
  <2>2. ~(p > Len(c)) /\ ~(p > Len(d))
    BY <1>1, <1>4
  <2>3. PositionAfter(d, p, env) = PositionAfter(c, p, env)
    BY <1>4, RewriteKeepsNext
  <2>4. EnvAfter(env, j, Answer(t.run)) = EnvAfter(env, i, Answer(t.run))
    BY <2>1 DEF SameEffect, EnvAfter
  <2>5. [x \in DOMAIN env \cup GetDestination(j) |->
           IF x \in GetDestination(j) THEN ResultKind(t.kinds, j) ELSE t.kinds[x]]
        = [x \in DOMAIN env \cup GetDestination(i) |->
             IF x \in GetDestination(i) THEN ResultKind(t.kinds, i) ELSE t.kinds[x]]
    BY <2>1 DEF SameEffect
  <2>6. (t.suited /\ Suits(t.kinds, j)) = (t.suited /\ Suits(t.kinds, i))
    BY <2>1 DEF SameEffect
  <2>7. Stepped(d, t.run) = Stepped(c, t.run)
    <3>1. /\ (j.op = "call") = (i.op = "call")
          /\ (j.op = "return") = (i.op = "return")
      BY <2>1 DEF SameEffect
    <3>2. i.op = "call" =>
            [function |-> j.functionName,
             arguments |-> [k \in DOMAIN j.arguments |-> ValueOf(env, j.arguments[k])]]
            = [function |-> i.functionName,
               arguments |-> [k \in DOMAIN i.arguments |-> ValueOf(env, i.arguments[k])]]
      BY <2>1 DEF SameEffect
    <3>3. i.op = "return" => ValueOf(env, j.value) = ValueOf(env, i.value)
      BY <2>1 DEF SameEffect
    <3> QED
      BY <1>4, <2>1, <2>2, <2>3, <2>4, <3>1, <3>2, <3>3 DEF Stepped
  <2> QED
    BY <1>4, <2>1, <2>2, <2>5, <2>6, <2>7 DEF Followed
<1> QED
  BY <1>1, <1>2, <1>3, <1>4

\* In its place i does what the instruction at a does, whenever execution
\* comes there.
Replaces(c, a, i, env) ==
  \A n \in Nat : Traced(c, env, n).run.pos = a => SameEffect(c[a], i, Traced(c, env, n))

\* A list with an instruction rewritten to the same effect runs as before.
LEMMA RewriteKeepsTrace ==
  ASSUME NEW c, IsSequence(c), JumpsResolve(c), NEW env,
         NEW a \in DOMAIN c, NEW i, SameControl(c[a], i),
         Replaces(c, a, i, env), NEW n \in Nat
  PROVE  Traced([c EXCEPT ![a] = i], env, n) = Traced(c, env, n)
<1> DEFINE d == [c EXCEPT ![a] = i]
<1>1. /\ IsSequence(d) /\ Len(d) = Len(c) /\ DOMAIN d = DOMAIN c
      /\ JumpsResolve(d)
      /\ \A p \in DOMAIN c : SameControl(c[p], d[p])
  BY RewriteKeepsJumps
<1>2. d[a] = i /\ \A p \in DOMAIN c \ {a} : d[p] = c[p]
  OBVIOUS
<1> HIDE DEF d
<1>3. ASSUME NEW m \in Nat
      PROVE  Followed(d, Traced(c, env, m)) = Followed(c, Traced(c, env, m))
  <2> DEFINE t == Traced(c, env, m)
  <2>1. t.run.pos \in 1..(Len(c) + 1)
    BY TraceStaysInside
  <2>2. t.run.pos \in DOMAIN c => SameEffect(c[t.run.pos], d[t.run.pos], t)
    <3>1. CASE t.run.pos = a
      BY <1>2, <3>1 DEF Replaces
    <3>2. CASE t.run.pos # a
      BY <1>2, <3>2, EffectOfItself
    <3> QED
      BY <3>1, <3>2
  <2> HIDE DEF t
  <2>3. Followed(d, t) = Followed(c, t)
    BY <1>1, <2>1, <2>2, RewriteKeepsStep
  <2> QED
    BY <2>3 DEF t
<1>4. Traced(d, env, n) = Traced(c, env, n)
  BY <1>3, SameStepsSameTrace
<1> QED
  BY <1>4 DEF d

\* What the folder puts in the place of an operation has its effect, where
\* the operands are of the kind the operation is for.
LEMMA FoldedHasSameEffect ==
  ASSUME NEW i, Foldable(i), ~DividesByZero(i), NEW t, Suits(t.kinds, i),
         \A v \in Operands(i) : IsValue(v)
  PROVE  SameEffect(i, Const(i.destination, IF i.op = "binop" THEN FoldedBinOp(i)
                                            ELSE FoldedUnaryOp(i)), t)
<1> DEFINE env == t.run.env
           v == IF i.op = "binop" THEN FoldedBinOp(i) ELSE FoldedUnaryOp(i)
           j == Const(i.destination, v)
<1>1. j.op = "const" /\ j.destination = i.destination /\ j.value = v
  BY DEF Const
<1>2. CanStep(env, j) /\ Suits(t.kinds, j) /\ GetDestination(j) = {i.destination}
  BY <1>1 DEF CanStep, Suits, GetDestination, GetSources, Operands, NamesIn
<1>3. \A r : ResultOf(env, j, r) = v.value
  BY <1>1 DEF ResultOf
<1>4. ResultKind(t.kinds, j) = v.kind
  BY <1>1 DEF ResultKind
<1>5. CASE i.op = "binop"
  <2> DEFINE l == i.leftVal
             r == i.rightVal
  <2>1. l.kind # "name" /\ r.kind # "name" /\ l.kind = r.kind
    BY <1>5 DEF Foldable
  <2>2. ValueOf(env, l) = l.value /\ ValueOf(env, r) = r.value
    BY <2>1 DEF ValueOf
  <2>3. GetSources(i) = {}
    BY <1>5, <2>1 DEF GetSources, Operands, NamesIn
  <2>4. CanStep(env, i)
    BY <1>5, <2>2, <2>3 DEF CanStep, HasValue, DividesByZero, Divides
  <2>5. \A x : ResultOf(env, i, x) = EvalBinOp(i.fn, l.value, r.value)
    BY <1>5, <2>2 DEF ResultOf
  <2>6. v = FoldedBinOp(i)
    BY <1>5
  <2> HIDE DEF l, r, v
  <2>7. v.value = EvalBinOp(i.fn, i.leftVal.value, i.rightVal.value)
        /\ v.kind = IF i.fn \in {"Add", "Subtract", "Multiply", "Divide"} THEN "int" ELSE "bool"
    <3>1. CASE i.fn \in {"Add", "Subtract", "Multiply", "Divide"}
      BY <2>6, <3>1 DEF FoldedBinOp, IntOperand
    <3>2. CASE i.fn \notin {"Add", "Subtract", "Multiply", "Divide"}
      <4>1. i.fn \in {"LessThan", "LessThanEqual", "GreaterThan", "GreaterThanEqual",
                      "Equal", "And", "Or"}
        BY <1>5, <3>2 DEF Suits
      <4> DEFINE w == EvalBinOp(i.fn, i.leftVal.value, i.rightVal.value)
      <4>2. w \in {0, 1}
        BY <4>1 DEF EvalBinOp, Truth
      <4>3. v = BoolOperand(w = 1)
        BY <2>6, <3>2 DEF FoldedBinOp
      <4> HIDE DEF w
      <4>4. v.value = w /\ v.kind = "bool"
        BY <4>2, <4>3 DEF BoolOperand
      <4> QED
        BY <3>2, <4>4 DEF w
    <3> QED
      BY <3>1, <3>2
  <2>8. ResultKind(t.kinds, i) = v.kind
    BY <1>5, <2>7 DEF ResultKind
  <2>9. GetDestination(i) = {i.destination}
    BY <1>5 DEF GetDestination
  <2>10. \A x : ResultOf(env, j, x) = ResultOf(env, i, x)
    BY <1>3, <2>5, <2>7 DEF l, r
  <2> HIDE DEF j, env
  <2> QED
    BY <1>1, <1>2, <1>4, <1>5, <2>4, <2>8, <2>9, <2>10 DEF SameEffect, j, v, env
<1>6. CASE i.op = "unary"
  <2> DEFINE u == i.value
  <2>1. u.kind \in {"int", "bool"}
    BY <1>6 DEF Foldable, Operands, IsValue, Name
  <2>2. ValueOf(env, u) = u.value /\ KindOf(t.kinds, u) = u.kind
    BY <2>1 DEF ValueOf, KindOf
  <2>3. GetSources(i) = {}
    BY <1>6, <2>1 DEF GetSources, Operands, NamesIn
  <2>4. CanStep(env, i)
    BY <1>6, <2>3 DEF CanStep
  <2>5. \A x : ResultOf(env, i, x) = EvalUnaryOp(i.fn, u.value)
    BY <1>6, <2>2 DEF ResultOf
  <2>6. v = FoldedUnaryOp(i)
    BY <1>6
  <2>7. (i.fn = "Negation" /\ u.kind # "bool") \/ (i.fn = "Not" /\ u.kind # "int")
    BY <1>6, <2>2 DEF Suits
  <2> HIDE DEF v
  <2>8. v.value = EvalUnaryOp(i.fn, u.value)
    <3> DEFINE w == EvalUnaryOp(i.fn, u.value)
    <3>1. CASE u.kind = "int"
      BY <2>6, <3>1 DEF FoldedUnaryOp, IntOperand
    <3>2. CASE u.kind = "bool"
      <4>1. w \in {0, 1}
        BY <2>7, <3>2 DEF EvalUnaryOp, Truth
      <4>2. v = BoolOperand(w = 1)
        BY <2>6, <3>2 DEF FoldedUnaryOp
      <4> HIDE DEF w
      <4> QED
        BY <4>1, <4>2 DEF BoolOperand, w
    <3> QED
      BY <2>1, <3>1, <3>2
  <2>9. v.kind = IF i.fn = "Negation" THEN "int" ELSE "bool"
    BY <2>1, <2>6, <2>7 DEF FoldedUnaryOp, IntOperand, BoolOperand
  <2>10. ResultKind(t.kinds, i) = v.kind
    BY <1>6, <2>9 DEF ResultKind
  <2>11. GetDestination(i) = {i.destination}
    BY <1>6 DEF GetDestination
  <2>12. \A x : ResultOf(env, j, x) = ResultOf(env, i, x)
    BY <1>3, <2>5, <2>8
  <2> HIDE DEF j, env
  <2> QED
    BY <1>1, <1>2, <1>4, <1>6, <2>4, <2>10, <2>11, <2>12 DEF SameEffect, j, v, env
<1> QED
  BY <1>5, <1>6 DEF Foldable

\* An operand has a value: it is a constant or a name that has been written.
Has(env, v) == v.kind = "name" => v.name \in DOMAIN env

\* An instruction has its operands when its names have been written.
LEMMA SourcesAreOperands ==
  ASSUME NEW i, NEW env
  PROVE  GetSources(i) \subseteq DOMAIN env <=> \A v \in Operands(i) : Has(env, v)
BY DEF GetSources, NamesIn, Has

\* What the propagator puts in the place of an operand is equal to it.
LEMMA PropagatedIsEqual ==
  ASSUME NEW t, IsTrueOf(known, t), NEW v
  PROVE  /\ ValueOf(t.run.env, Propagated(v)) = ValueOf(t.run.env, v)
         /\ KindOf(t.kinds, Propagated(v)) = KindOf(t.kinds, v)
         /\ Has(t.run.env, Propagated(v)) <=> Has(t.run.env, v)
BY DEF IsTrueOf, Propagated, Known, ValueOf, KindOf, Has

\* An instruction with its operands propagated has the effect of the
\* instruction, where what is known is true.
LEMMA PropagatedHasSameEffect ==
  ASSUME NEW t, IsTrueOf(known, t), NEW i
  PROVE  SameEffect(i, WithOperandsPropagated(i), t)
<1> DEFINE env == t.run.env
           j == WithOperandsPropagated(i)
<1>1. \A v : /\ ValueOf(env, Propagated(v)) = ValueOf(env, v)
             /\ KindOf(t.kinds, Propagated(v)) = KindOf(t.kinds, v)
             /\ Has(env, Propagated(v)) <=> Has(env, v)
  BY PropagatedIsEqual
<1>2. SUFFICES ASSUME TRUE PROVE SameEffect(i, j, t)
  OBVIOUS
<1>3. CASE i.op = "move"
  <2>1. /\ j.op = "move" /\ j.destination = i.destination
        /\ j.source = Propagated(i.source)
    BY <1>3 DEF WithOperandsPropagated, Move
  <2> HIDE DEF j
  <2>2. Operands(i) = {i.source} /\ Operands(j) = {j.source}
    BY <1>3, <2>1 DEF Operands
  <2>3. CanStep(env, j) <=> CanStep(env, i)
    BY <1>1, <1>3, <2>1, <2>2, SourcesAreOperands DEF CanStep
  <2>4. (\A r : ResultOf(env, j, r) = ResultOf(env, i, r)) /\ ResultKind(t.kinds, j) = ResultKind(t.kinds, i)
    BY <1>1, <1>3, <2>1 DEF ResultOf, ResultKind
  <2>5. Suits(t.kinds, j) <=> Suits(t.kinds, i)
    BY <1>3, <2>1 DEF Suits
  <2> QED
    BY <1>3, <2>1, <2>3, <2>4, <2>5 DEF SameEffect, GetDestination
<1>4. CASE i.op = "binop"
  <2>1. /\ j.op = "binop" /\ j.destination = i.destination /\ j.fn = i.fn
        /\ j.leftVal = Propagated(i.leftVal) /\ j.rightVal = Propagated(i.rightVal)
    BY <1>4 DEF WithOperandsPropagated, BinOp
  <2> HIDE DEF j
  <2>2. Operands(i) = {i.leftVal, i.rightVal} /\ Operands(j) = {j.leftVal, j.rightVal}
    BY <1>4, <2>1 DEF Operands
  <2>3. CanStep(env, j) <=> CanStep(env, i)
    BY <1>1, <1>4, <2>1, <2>2, SourcesAreOperands DEF CanStep
  <2>4. (\A r : ResultOf(env, j, r) = ResultOf(env, i, r)) /\ ResultKind(t.kinds, j) = ResultKind(t.kinds, i)
    BY <1>1, <1>4, <2>1 DEF ResultOf, ResultKind
  <2>5. Suits(t.kinds, j) <=> Suits(t.kinds, i)
    BY <1>1, <1>4, <2>1 DEF Suits
  <2> QED
    BY <1>4, <2>1, <2>3, <2>4, <2>5 DEF SameEffect, GetDestination
<1>5. CASE i.op = "unary"
  <2>1. /\ j.op = "unary" /\ j.destination = i.destination /\ j.fn = i.fn
        /\ j.value = Propagated(i.value)
    BY <1>5 DEF WithOperandsPropagated, UnaryOp
  <2> HIDE DEF j
  <2>2. Operands(i) = {i.value} /\ Operands(j) = {j.value}
    BY <1>5, <2>1 DEF Operands
  <2>3. CanStep(env, j) <=> CanStep(env, i)
    BY <1>1, <1>5, <2>1, <2>2, SourcesAreOperands DEF CanStep
  <2>4. (\A r : ResultOf(env, j, r) = ResultOf(env, i, r)) /\ ResultKind(t.kinds, j) = ResultKind(t.kinds, i)
    BY <1>1, <1>5, <2>1 DEF ResultOf, ResultKind
  <2>5. Suits(t.kinds, j) <=> Suits(t.kinds, i)
    BY <1>1, <1>5, <2>1 DEF Suits
  <2> QED
    BY <1>5, <2>1, <2>3, <2>4, <2>5 DEF SameEffect, GetDestination
<1>6. CASE i.op = "call"
  <2>1. /\ j.op = "call" /\ j.destination = i.destination /\ j.functionName = i.functionName
        /\ j.arguments = [k \in DOMAIN i.arguments |-> Propagated(i.arguments[k])]
    BY <1>6 DEF WithOperandsPropagated, Call
  <2> HIDE DEF j
  <2>2. Operands(i) = Range(i.arguments) /\ Operands(j) = Range(j.arguments)
    BY <1>6, <2>1 DEF Operands
  <2>3. (\A v \in Operands(j) : Has(env, v)) <=> (\A v \in Operands(i) : Has(env, v))
    BY <1>1, <2>1, <2>2 DEF Range
  <2>4. CanStep(env, j) <=> CanStep(env, i)
    BY <1>6, <2>1, <2>3, SourcesAreOperands DEF CanStep
  <2>5. (\A r : ResultOf(env, j, r) = ResultOf(env, i, r)) /\ ResultKind(t.kinds, j) = ResultKind(t.kinds, i)
    BY <1>6, <2>1 DEF ResultOf, ResultKind
  <2>6. Suits(t.kinds, j) <=> Suits(t.kinds, i)
    BY <1>6, <2>1 DEF Suits
  <2>7. [k \in DOMAIN j.arguments |-> ValueOf(env, j.arguments[k])]
        = [k \in DOMAIN i.arguments |-> ValueOf(env, i.arguments[k])]
    BY <1>1, <2>1
  <2> QED
    BY <1>6, <2>1, <2>4, <2>5, <2>6, <2>7 DEF SameEffect, GetDestination
<1>7. CASE i.op = "return"
  <2>1. j.op = "return" /\ j.value = Propagated(i.value)
    BY <1>7 DEF WithOperandsPropagated, Return
  <2> HIDE DEF j
  <2>2. Operands(i) = {i.value} /\ Operands(j) = {j.value}
    BY <1>7, <2>1 DEF Operands
  <2>3. CanStep(env, j) <=> CanStep(env, i)
    BY <1>1, <1>7, <2>1, <2>2, SourcesAreOperands DEF CanStep
  <2>4. Suits(t.kinds, j) <=> Suits(t.kinds, i)
    BY <1>7, <2>1 DEF Suits
  <2> QED
    BY <1>1, <1>7, <2>1, <2>3, <2>4 DEF SameEffect, GetDestination
<1>8. CASE i.op = "branch"
  <2>1. /\ j.op = "branch" /\ j.condition = Propagated(i.condition)
        /\ j.trueLabel = i.trueLabel /\ j.falseLabel = i.falseLabel
    BY <1>8 DEF WithOperandsPropagated, Branch
  <2> HIDE DEF j
  <2>2. Operands(i) = {i.condition} /\ Operands(j) = {j.condition}
    BY <1>8, <2>1 DEF Operands
  <2>3. CanStep(env, j) <=> CanStep(env, i)
    BY <1>1, <1>8, <2>1, <2>2, SourcesAreOperands DEF CanStep
  <2>4. Suits(t.kinds, j) <=> Suits(t.kinds, i)
    BY <1>8, <2>1 DEF Suits
  <2> QED
    BY <1>1, <1>8, <2>1, <2>3, <2>4 DEF SameEffect, GetDestination
<1>9. CASE i.op \notin {"move", "binop", "unary", "call", "return", "branch"}
  <2>1. j = i
    BY <1>9 DEF WithOperandsPropagated
  <2> QED
    BY <2>1, EffectOfItself
<1> QED
  BY <1>3, <1>4, <1>5, <1>6, <1>7, <1>8, <1>9

\* The operands put in are integers, Booleans or names as well.
LEMMA PropagatedAreValues ==
  ASSUME KnownAreValues(known), NEW i, \A v \in Operands(i) : IsValue(v)
  PROVE  \A v \in Operands(WithOperandsPropagated(i)) : IsValue(v)
<1>1. \A v : IsValue(v) => IsValue(Propagated(v))
  BY DEF KnownAreValues, Propagated, Known
<1>2. CASE i.op = "move"
  BY <1>1, <1>2 DEF WithOperandsPropagated, Operands, Move
<1>3. CASE i.op = "binop"
  BY <1>1, <1>3 DEF WithOperandsPropagated, Operands, BinOp
<1>4. CASE i.op = "unary"
  BY <1>1, <1>4 DEF WithOperandsPropagated, Operands, UnaryOp
<1>5. CASE i.op = "call"
  BY <1>1, <1>5 DEF WithOperandsPropagated, Operands, Call, Range
<1>6. CASE i.op = "return"
  BY <1>1, <1>6 DEF WithOperandsPropagated, Operands, Return
<1>7. CASE i.op = "branch"
  BY <1>1, <1>7 DEF WithOperandsPropagated, Operands, Branch
<1>8. CASE i.op \notin {"move", "binop", "unary", "call", "return", "branch"}
  BY <1>8 DEF WithOperandsPropagated
<1> QED
  BY <1>2, <1>3, <1>4, <1>5, <1>6, <1>7, <1>8

\* The names a step leaves as they are, and the one it writes.
LEMMA StepWrites ==
  ASSUME NEW c, IsSequence(c), NEW t, t.run.pos \in DOMAIN c,
         CanStep(t.run.env, c[t.run.pos])
  PROVE  LET i == c[t.run.pos]
             s == Followed(c, t)
         IN  /\ DOMAIN s.run.env = DOMAIN t.run.env \cup GetDestination(i)
             /\ \A x \in DOMAIN t.run.env \ GetDestination(i) :
                  s.run.env[x] = t.run.env[x] /\ s.kinds[x] = t.kinds[x]
             /\ \A x \in GetDestination(i) :
                  /\ s.run.env[x] = ResultOf(t.run.env, i, Answer(t.run))
                  /\ s.kinds[x] = ResultKind(t.kinds, i)
<1> DEFINE i == c[t.run.pos]
           s == Followed(c, t)
<1>1. ~(t.run.pos > Len(c))
  BY PositionsOfSequence
<1>2. s.run.env = EnvAfter(t.run.env, i, Answer(t.run))
  BY <1>1 DEF Followed, Stepped
<1>3. s.kinds = [x \in DOMAIN t.run.env \cup GetDestination(i) |->
                   IF x \in GetDestination(i) THEN ResultKind(t.kinds, i) ELSE t.kinds[x]]
  BY <1>1 DEF Followed
<1> HIDE DEF s
<1> QED
  BY <1>2, <1>3 DEF EnvAfter, s

\* What is known of other names than the one written stays true, if the
\* aliases of that one are forgotten.
LEMMA OthersStayTrue ==
  ASSUME NEW c, IsSequence(c), NEW t, t.run.pos \in DOMAIN c,
         CanStep(t.run.env, c[t.run.pos]),
         NEW k, IsTrueOf(k, t), KnownAreValues(k),
         NEW x \in DOMAIN k,
         \A d \in GetDestination(c[t.run.pos]) : x # d /\ k[x] # Name(d)
  PROVE  LET s == Followed(c, t)
         IN  /\ x \in DOMAIN s.run.env
             /\ k[x].kind = "name" => k[x].name \in DOMAIN s.run.env
             /\ s.run.env[x] = ValueOf(s.run.env, k[x])
             /\ s.kinds[x] = KindOf(s.kinds, k[x])
<1> DEFINE i == c[t.run.pos]
           s == Followed(c, t)
<1>1. /\ DOMAIN s.run.env = DOMAIN t.run.env \cup GetDestination(i)
      /\ \A y \in DOMAIN t.run.env \ GetDestination(i) :
           s.run.env[y] = t.run.env[y] /\ s.kinds[y] = t.kinds[y]
  BY StepWrites
<1>2. /\ x \in DOMAIN t.run.env \ GetDestination(i)
      /\ k[x].kind = "name" => k[x].name \in DOMAIN t.run.env
      /\ t.run.env[x] = ValueOf(t.run.env, k[x])
      /\ t.kinds[x] = KindOf(t.kinds, k[x])
  BY DEF IsTrueOf
<1>3. k[x].kind = "name" => k[x].name \in DOMAIN t.run.env \ GetDestination(i)
  BY <1>2 DEF KnownAreValues, IsValue
<1> HIDE DEF s
<1>4. ValueOf(s.run.env, k[x]) = ValueOf(t.run.env, k[x])
  BY <1>1, <1>3 DEF ValueOf
<1>5. KindOf(s.kinds, k[x]) = KindOf(t.kinds, k[x])
  BY <1>1, <1>3 DEF KindOf
<1> QED
  BY <1>1, <1>2, <1>4, <1>5 DEF s

\* What is known after an instruction is true after its step.
LEMMA KnownAfterIsTrue ==
  ASSUME NEW c, IsSequence(c), NEW t, t.run.pos \in DOMAIN c,
         CanStep(t.run.env, c[t.run.pos]),
         NEW k, IsTrueOf(k, t), KnownAreValues(k),
         c[t.run.pos].op = "const" => c[t.run.pos].value.kind # "name",
         \A v \in Operands(c[t.run.pos]) : IsValue(v),
         c[t.run.pos].op # "return"
  PROVE  IsTrueOf(KnownAfter(k, c[t.run.pos]), Followed(c, t))
<1> DEFINE i == c[t.run.pos]
           s == Followed(c, t)
           d == i.destination
<1>1. /\ DOMAIN s.run.env = DOMAIN t.run.env \cup GetDestination(i)
      /\ \A y \in DOMAIN t.run.env \ GetDestination(i) :
           s.run.env[y] = t.run.env[y] /\ s.kinds[y] = t.kinds[y]
      /\ \A y \in GetDestination(i) :
           /\ s.run.env[y] = ResultOf(t.run.env, i, Answer(t.run))
           /\ s.kinds[y] = ResultKind(t.kinds, i)
  BY StepWrites
<1>2. ASSUME NEW x \in DOMAIN k, \A e \in GetDestination(i) : x # e /\ k[x] # Name(e)
      PROVE  /\ x \in DOMAIN s.run.env
             /\ k[x].kind = "name" => k[x].name \in DOMAIN s.run.env
             /\ s.run.env[x] = ValueOf(s.run.env, k[x])
             /\ s.kinds[x] = KindOf(s.kinds, k[x])
  BY <1>2, OthersStayTrue
<1> HIDE DEF s
<1>3. CASE i.op = "move"
  <2> DEFINE v == i.source
             b == ForgetAliases(Bind(k, d, v), d)
  <2>1. KnownAfter(k, i) = b /\ GetDestination(i) = {d} /\ Operands(i) = {v}
    BY <1>3 DEF KnownAfter, GetDestination, Operands
  <2>2. ASSUME NEW x \in DOMAIN b
        PROVE  /\ x \in DOMAIN s.run.env
               /\ b[x].kind = "name" => b[x].name \in DOMAIN s.run.env
               /\ s.run.env[x] = ValueOf(s.run.env, b[x])
               /\ s.kinds[x] = KindOf(s.kinds, b[x])
    <3>1. CASE x = d
      <4>1. b[x] = v /\ v # Name(d)
        BY <3>1 DEF ForgetAliases, Bind
      <4>2. v.kind = "name" => v.name \in DOMAIN t.run.env
        BY <2>1, SourcesAreOperands DEF CanStep, Has
      <4>3. v.kind = "name" => v.name # d
        BY <2>1, <4>1 DEF IsValue
      <4>4. s.run.env[d] = ValueOf(t.run.env, v) /\ s.kinds[d] = KindOf(t.kinds, v)
        BY <1>1, <1>3, <2>1 DEF ResultOf, ResultKind
      <4>5. ValueOf(t.run.env, v) = ValueOf(s.run.env, v) /\ KindOf(t.kinds, v) = KindOf(s.kinds, v)
        BY <1>1, <2>1, <4>2, <4>3 DEF ValueOf, KindOf
      <4> QED
        BY <1>1, <2>1, <3>1, <4>1, <4>2, <4>4, <4>5
    <3>2. CASE x # d
      <4>1. x \in DOMAIN k /\ b[x] = k[x] /\ k[x] # Name(d)
        BY <3>2 DEF ForgetAliases, Bind
      <4> QED
        BY <1>2, <2>1, <3>2, <4>1
    <3> QED
      BY <3>1, <3>2
  <2> HIDE DEF b
  <2> QED
    BY <2>1, <2>2 DEF IsTrueOf, s
<1>4. CASE i.op = "const"
  <2> DEFINE f == ForgetAliases(k, d)
             b == Bind(f, d, i.value)
  <2>1. KnownAfter(k, i) = b /\ GetDestination(i) = {d}
    BY <1>4 DEF KnownAfter, GetDestination
  <2>2. ASSUME NEW x \in DOMAIN b
        PROVE  /\ x \in DOMAIN s.run.env
               /\ b[x].kind = "name" => b[x].name \in DOMAIN s.run.env
               /\ s.run.env[x] = ValueOf(s.run.env, b[x])
               /\ s.kinds[x] = KindOf(s.kinds, b[x])
    <3>1. CASE x = d
      <4>1. b[x] = i.value /\ i.value.kind # "name"
        BY <1>4, <3>1 DEF Bind
      <4>2. s.run.env[d] = i.value.value /\ s.kinds[d] = i.value.kind
        BY <1>1, <1>4, <2>1 DEF ResultOf, ResultKind
      <4> HIDE DEF b
      <4> QED
        BY <1>1, <2>1, <3>1, <4>1, <4>2 DEF ValueOf, KindOf
    <3>2. CASE x # d
      <4>1. x \in DOMAIN k /\ b[x] = k[x] /\ k[x] # Name(d)
        BY <3>2 DEF ForgetAliases, Bind
      <4> QED
        BY <1>2, <2>1, <3>2, <4>1
    <3> QED
      BY <3>1, <3>2
  <2> HIDE DEF b
  <2> QED
    BY <2>1, <2>2 DEF IsTrueOf, s
<1>5. CASE i.op \in {"binop", "unary", "call"}
  <2> DEFINE b == Unbind(ForgetAliases(k, d), d)
  <2>1. KnownAfter(k, i) = b /\ GetDestination(i) = {d}
    BY <1>5 DEF KnownAfter, GetDestination
  <2>2. ASSUME NEW x \in DOMAIN b
        PROVE  x \in DOMAIN k /\ b[x] = k[x] /\ k[x] # Name(d) /\ x # d
    BY DEF ForgetAliases, Unbind
  <2> HIDE DEF b
  <2>3. ASSUME NEW x \in DOMAIN b
        PROVE  /\ x \in DOMAIN s.run.env
               /\ b[x].kind = "name" => b[x].name \in DOMAIN s.run.env
               /\ s.run.env[x] = ValueOf(s.run.env, b[x])
               /\ s.kinds[x] = KindOf(s.kinds, b[x])
    BY <1>2, <2>1, <2>2
  <2> QED
    BY <2>1, <2>3 DEF IsTrueOf, s
<1>6. CASE i.op \notin {"move", "const", "binop", "unary", "call", "return"}
  <2>1. KnownAfter(k, i) = Nothing
    BY <1>6 DEF KnownAfter
  <2> QED
    BY <2>1 DEF Nothing, IsTrueOf
<1> QED
  BY <1>3, <1>4, <1>5, <1>6 DEF s

\* Executions come to the next position only from this one or by a jump.
LEMMA KnownIsTrueNext ==
  ASSUME NEW c, IsSequence(c), JumpsResolve(c), NEW env,
         NEW p \in DOMAIN c, NEW k, KnownAreValues(k), KnownIsTrue(c, k, p, env),
         c[p].op = "const" => c[p].value.kind # "name",
         \A v \in Operands(c[p]) : IsValue(v)
  PROVE  KnownIsTrue(c, KnownAfter(k, c[p]), p + 1, env)
<1> SUFFICES ASSUME p + 1 \in DOMAIN c, ~IsLabel(c[p + 1])
             PROVE  \A n \in Nat : Traced(c, env, n).run.pos = p + 1 =>
                      IsTrueOf(KnownAfter(k, c[p]), Traced(c, env, n))
  BY DEF KnownIsTrue
<1> DEFINE S == { n \in Nat : Traced(c, env, n).run.pos = p + 1 =>
                                IsTrueOf(KnownAfter(k, c[p]), Traced(c, env, n)) }
<1>1. 0 \in S
  <2>1. Traced(c, env, 0).run.pos = 1
    BY TraceUnfolds DEF TraceOf, Started
  <2>2. p \in Nat \ {0}
    BY PositionsOfSequence
  <2> QED
    BY <2>1, <2>2
<1>2. ASSUME NEW n \in Nat, n \in S PROVE n + 1 \in S
  <2> DEFINE t == Traced(c, env, n)
             s == Traced(c, env, n + 1)
  <2> SUFFICES ASSUME s.run.pos = p + 1 PROVE IsTrueOf(KnownAfter(k, c[p]), s)
    OBVIOUS
  <2>1. s = Followed(c, t)
    BY TraceUnfolds
  <2>2. t.run.pos \in 1..(Len(c) + 1)
    BY TraceStaysInside
  <2>3. t.run.pos = p + 1 => IsTrueOf(KnownAfter(k, c[p]), t)
    BY <1>2
  <2>4. t.run.pos = p /\ ~IsLabel(c[p]) => IsTrueOf(k, t)
    BY DEF KnownIsTrue
  <2> HIDE DEF s, t
  <2>5. CASE s = t
    BY <2>3, <2>5
  <2>6. CASE s # t
    <3>1. /\ t.run.pos \in DOMAIN c /\ CanStep(t.run.env, c[t.run.pos])
          /\ s.run.pos = PositionAfter(c, t.run.pos, t.run.env)
      BY <2>1, <2>2, <2>6, StepTaken
    <3>2. ~IsTerminator(c[t.run.pos]) /\ s.run.pos = t.run.pos + 1
      BY <3>1, NextPosition
    <3>3. t.run.pos = p
      BY <2>2, <3>2, PositionsOfSequence
    <3>4. CASE IsLabel(c[p])
      <4>1. KnownAfter(k, c[p]) = Nothing
        BY <3>4 DEF IsLabel, KnownAfter
      <4> QED
        BY <4>1 DEF Nothing, IsTrueOf
    <3>5. CASE ~IsLabel(c[p])
      <4>1. c[p].op # "return"
        BY <3>2, <3>3 DEF IsTerminator
      <4>2. IsTrueOf(k, t)
        BY <2>4, <3>3, <3>5
      <4> QED
        BY <2>1, <3>1, <3>3, <4>1, <4>2, KnownAfterIsTrue
    <3> QED
      BY <3>4, <3>5
  <2> QED
    BY <2>5, <2>6
<1> HIDE DEF S
<1>3. Nat \subseteq S
  BY <1>1, <1>2, SetInduction
<1> QED
  BY <1>3 DEF S

\* What is known after an instruction is an integer, a Boolean or a name.
LEMMA KnownAfterAreValues ==
  ASSUME NEW k, KnownAreValues(k), NEW i, \A v \in Operands(i) : IsValue(v),
         i.op = "const" => IsValue(i.value)
  PROVE  KnownAreValues(KnownAfter(k, i))
<1>1. CASE i.op = "move"
  BY <1>1 DEF KnownAreValues, KnownAfter, ForgetAliases, Bind, Operands
<1>2. CASE i.op = "const"
  BY <1>2 DEF KnownAreValues, KnownAfter, ForgetAliases, Bind
<1>3. CASE i.op \in {"binop", "unary", "call"}
  BY <1>3 DEF KnownAreValues, KnownAfter, ForgetAliases, Unbind
<1>4. CASE i.op = "return"
  BY <1>4 DEF KnownAreValues, KnownAfter
<1>5. CASE i.op \notin {"move", "const", "binop", "unary", "call", "return"}
  BY <1>5 DEF KnownAreValues, KnownAfter, Nothing
<1> QED
  BY <1>1, <1>2, <1>3, <1>4, <1>5

-----------------------------------------------------------------------------
(***************************************************************************)
(* An instruction erased (eliminator and remover): executions skip it.     *)
(***************************************************************************)

\* Where position p of the list is once the instruction at a is erased.
Moved(a, p) == IF p <= a THEN p ELSE p - 1

\* The names of V have the same values and kinds.
AgreeOn(V, s, t) ==
  \A x \in V : /\ x \in DOMAIN t.run.env <=> x \in DOMAIN s.run.env
               /\ x \in DOMAIN s.run.env => /\ t.run.env[x] = s.run.env[x]
                                            /\ t.kinds[x] = s.kinds[x]

\* s executes the list, t the list without the instruction at a.
Alike(V, a, s, t) ==
  /\ t.run.pos = Moved(a, s.run.pos)
  /\ AgreeOn(V, s, t)
  /\ t.run.calls = s.run.calls /\ t.run.result = s.run.result
  /\ t.suited = s.suited

\* The instructions and labels of the list after the erase.
LEMMA ErasedAt ==
  ASSUME NEW c, IsSequence(c), JumpsResolve(c), NEW a \in DOMAIN c, ~IsLabel(c[a])
  PROVE  /\ \A p \in DOMAIN c \ {a} : /\ Moved(a, p) \in DOMAIN Without(c, a)
                                      /\ Without(c, a)[Moved(a, p)] = c[p]
         /\ \A l \in LabelsIn(c) :
              PositionOf(Without(c, a), l) = Moved(a, PositionOf(c, l))
<1> DEFINE d == Without(c, a)
<1>1. Len(c) \in Nat /\ DOMAIN c = 1..Len(c)
  BY PositionsOfSequence
<1>2. ASSUME NEW p \in DOMAIN c \ {a}
      PROVE  Moved(a, p) \in DOMAIN d /\ d[Moved(a, p)] = c[p]
  <2>1. CASE p < a
    <3>1. Moved(a, p) = p /\ p \in 1..(Len(c) - 1)
      BY <1>1, <2>1 DEF Moved
    <3> QED
      BY <2>1, <3>1 DEF Without
  <2>2. CASE p > a
    <3>1. Moved(a, p) = p - 1 /\ p - 1 \in 1..(Len(c) - 1) /\ ~(p - 1 < a) /\ (p - 1) + 1 = p
      BY <1>1, <2>2 DEF Moved
    <3> QED
      BY <3>1 DEF Without
  <2> QED
    BY <1>1, <2>1, <2>2
<1>3. JumpsResolve(d)
  BY EraseKeepsJumps
<1>4. ASSUME NEW l \in LabelsIn(c)
      PROVE  PositionOf(d, l) = Moved(a, PositionOf(c, l))
  <2> DEFINE p == PositionOf(c, l)
  <2>1. p \in DOMAIN c /\ IsLabel(c[p]) /\ c[p].label = l
    BY LabelHasPosition
  <2> HIDE DEF p, d
  <2>2. Moved(a, p) \in DOMAIN d /\ d[Moved(a, p)] = c[p]
    BY <1>2, <2>1
  <2>3. l \in LabelsIn(d)
    BY <2>1, <2>2 DEF LabelsIn
  <2>4. Moved(a, p) = PositionOf(d, l)
    BY <1>3, <2>1, <2>2, <2>3, LabelHasPosition
  <2> QED
    BY <2>4 DEF p
<1> QED
  BY <1>2, <1>4

\* Names that agree give operands the same value.
LEMMA OperandsAgree ==
  ASSUME NEW V, NEW s, NEW t, AgreeOn(V, s, t), NEW i, GetSources(i) \subseteq V
  PROVE  /\ CanStep(t.run.env, i) <=> CanStep(s.run.env, i)
         /\ CanStep(s.run.env, i) =>
              \A v \in Operands(i) : /\ ValueOf(t.run.env, v) = ValueOf(s.run.env, v)
                                     /\ KindOf(t.kinds, v) = KindOf(s.kinds, v)
<1>1. GetSources(i) \subseteq DOMAIN t.run.env <=> GetSources(i) \subseteq DOMAIN s.run.env
  BY DEF AgreeOn
<1>2. ASSUME GetSources(i) \subseteq DOMAIN s.run.env, NEW v \in Operands(i)
      PROVE  /\ ValueOf(t.run.env, v) = ValueOf(s.run.env, v)
             /\ KindOf(t.kinds, v) = KindOf(s.kinds, v)
  <2>1. v.kind = "name" => v.name \in V \cap DOMAIN s.run.env
    BY <1>2 DEF GetSources, NamesIn
  <2> QED
    BY <2>1 DEF AgreeOn, ValueOf, KindOf
<1>3. i.op = "binop" => i.rightVal \in Operands(i)
  BY DEF Operands
<1> QED
  BY <1>1, <1>2, <1>3 DEF CanStep

\* Where execution goes next agrees as well.
LEMMA ErasedNext ==
  ASSUME NEW c, IsSequence(c), JumpsResolve(c), NEW a \in DOMAIN c, ~IsLabel(c[a]),
         NEW p \in DOMAIN c \ {a}, NEW e, NEW f,
         \A v \in Operands(c[p]) : ValueOf(f, v) = ValueOf(e, v)
  PROVE  PositionAfter(Without(c, a), Moved(a, p), f) = Moved(a, PositionAfter(c, p, e))
<1> DEFINE d == Without(c, a)
           i == c[p]
<1>1. Len(c) \in Nat /\ DOMAIN c = 1..Len(c)
  BY PositionsOfSequence
<1>2. d[Moved(a, p)] = i
  BY ErasedAt
<1>3. \A l \in LabelsIn(c) : PositionOf(d, l) = Moved(a, PositionOf(c, l))
  BY ErasedAt
<1>4. Len(d) = Len(c) - 1
  BY EraseKeepsJumps
<1>5. LabelsOf(i) \subseteq LabelsIn(c)
  BY DEF JumpsResolve
<1> HIDE DEF d
<1>6. CASE i.op = "jump"
  <2>1. i.destination \in LabelsIn(c)
    BY <1>5, <1>6 DEF LabelsOf
  <2> QED
    BY <1>2, <1>3, <1>6, <2>1 DEF PositionAfter, d
<1>7. CASE i.op = "branch"
  <2>1. i.trueLabel \in LabelsIn(c) /\ i.falseLabel \in LabelsIn(c)
    BY <1>5, <1>7 DEF LabelsOf
  <2>2. ValueOf(f, i.condition) = ValueOf(e, i.condition)
    BY <1>7 DEF Operands
  <2> QED
    BY <1>2, <1>3, <1>7, <2>1, <2>2 DEF PositionAfter, d
<1>8. CASE i.op = "return"
  <2>1. PositionAfter(d, Moved(a, p), f) = Len(c)
    BY <1>1, <1>2, <1>4, <1>8 DEF PositionAfter
  <2>2. PositionAfter(c, p, e) = Len(c) + 1
    BY <1>8 DEF PositionAfter
  <2> QED
    BY <1>1, <2>1, <2>2 DEF Moved, d
<1>9. CASE i.op \notin {"jump", "branch", "return"}
  <2>1. PositionAfter(d, Moved(a, p), f) = Moved(a, p) + 1
    BY <1>2, <1>9 DEF PositionAfter
  <2>2. PositionAfter(c, p, e) = p + 1
    BY <1>9 DEF PositionAfter
  <2> QED
    BY <1>1, <2>1, <2>2 DEF Moved, d
<1> QED
  BY <1>6, <1>7, <1>8, <1>9

\* Apart from the erased instruction, both executions take the same steps.
LEMMA ErasedStep ==
  ASSUME NEW c, IsSequence(c), JumpsResolve(c), NEW a \in DOMAIN c, ~IsLabel(c[a]),
         NEW V, \A p \in DOMAIN c \ {a} : GetSources(c[p]) \subseteq V,
         NEW s, NEW t, s.run.pos \in 1..(Len(c) + 1), s.run.pos # a, Alike(V, a, s, t)
  PROVE  Alike(V, a, Followed(c, s), Followed(Without(c, a), t))
<1> DEFINE d == Without(c, a)
           p == s.run.pos
           i == c[p]
           u == Followed(c, s)
           w == Followed(d, t)
<1>1. Len(c) \in Nat /\ DOMAIN c = 1..Len(c)
  BY PositionsOfSequence
<1>2. Len(d) = Len(c) - 1 /\ IsSequence(d) /\ DOMAIN d = 1..(Len(c) - 1)
  BY EraseKeepsJumps
<1>3. t.run.pos = Moved(a, p)
  BY DEF Alike
<1>4. CASE p > Len(c)
  <2>1. t.run.pos > Len(d)
    BY <1>1, <1>2, <1>3, <1>4 DEF Moved
  <2> QED
    BY <1>4, <2>1 DEF Followed
<1>5. CASE p \in DOMAIN c
  <2>1. t.run.pos \in DOMAIN d /\ d[t.run.pos] = i
    BY <1>3, <1>5, ErasedAt
  <2>2. /\ CanStep(t.run.env, i) <=> CanStep(s.run.env, i)
        /\ CanStep(s.run.env, i) =>
             \A v \in Operands(i) : /\ ValueOf(t.run.env, v) = ValueOf(s.run.env, v)
                                    /\ KindOf(t.kinds, v) = KindOf(s.kinds, v)
    BY <1>5, OperandsAgree DEF Alike
  <2>3. CASE ~CanStep(s.run.env, i)
    BY <2>1, <2>2, <2>3 DEF Followed
  <2>4. CASE CanStep(s.run.env, i)
    <3>1. /\ ~(p > Len(c)) /\ ~(t.run.pos > Len(d))
      BY <1>1, <1>2, <1>5, <2>1
    <3>2. PositionAfter(d, t.run.pos, t.run.env) = Moved(a, PositionAfter(c, p, s.run.env))
      BY <1>3, <1>5, <2>2, <2>4, ErasedNext
    <3> HIDE DEF d
    <3>3. /\ u.run = Stepped(c, s.run) /\ w.run = Stepped(d, t.run)
          /\ u.suited = (s.suited /\ Suits(s.kinds, i))
          /\ w.suited = (t.suited /\ Suits(t.kinds, i))
      BY <2>1, <2>2, <2>4, <3>1 DEF Followed
    <3>4. CanStep(t.run.env, d[t.run.pos])
      BY <2>1, <2>2, <2>4
    <3>5. /\ u.run.pos = PositionAfter(c, p, s.run.env)
          /\ i.op = "call" => u.run.calls = Append(s.run.calls, CallIn(s.run.env, i))
          /\ i.op # "call" => u.run.calls = s.run.calls
          /\ i.op = "return" => u.run.result = <<ValueOf(s.run.env, i.value)>>
          /\ i.op # "return" => u.run.result = s.run.result
      <4> DEFINE r == Stepped(c, s.run)
      <4>1. /\ r.pos = PositionAfter(c, p, s.run.env)
            /\ i.op = "call" => r.calls = Append(s.run.calls, CallIn(s.run.env, i))
            /\ i.op # "call" => r.calls = s.run.calls
            /\ i.op = "return" => r.result = <<ValueOf(s.run.env, i.value)>>
            /\ i.op # "return" => r.result = s.run.result
        BY SMTT(30), <2>4, <3>1, StepParts
      <4>2. u.run = r
        BY <3>3
      <4> HIDE DEF u, r
      <4> QED
        BY <4>1, <4>2
    <3>6. /\ w.run.pos = PositionAfter(d, t.run.pos, t.run.env)
          /\ i.op = "call" => w.run.calls = Append(t.run.calls, CallIn(t.run.env, i))
          /\ i.op # "call" => w.run.calls = t.run.calls
          /\ i.op = "return" => w.run.result = <<ValueOf(t.run.env, i.value)>>
          /\ i.op # "return" => w.run.result = t.run.result
      <4> DEFINE j == d[t.run.pos]
      <4>1. /\ w.run.pos = PositionAfter(d, t.run.pos, t.run.env)
            /\ j.op = "call" => w.run.calls = Append(t.run.calls, CallIn(t.run.env, j))
            /\ j.op # "call" => w.run.calls = t.run.calls
            /\ j.op = "return" => w.run.result = <<ValueOf(t.run.env, j.value)>>
            /\ j.op # "return" => w.run.result = t.run.result
        BY <3>1, <3>3, <3>4, StepParts
      <4>2. j = i
        BY <2>1
      <4> HIDE DEF i, j
      <4> QED
        BY <4>1, <4>2
    <3>7. i.op = "call" => CallIn(t.run.env, i) = CallIn(s.run.env, i)
      <4> SUFFICES ASSUME i.op = "call"
                   PROVE  [k \in DOMAIN i.arguments |-> ValueOf(t.run.env, i.arguments[k])]
                          = [k \in DOMAIN i.arguments |-> ValueOf(s.run.env, i.arguments[k])]
        BY DEF CallIn
      <4> QED
        BY <2>2, <2>4 DEF Operands, Range
    <3>8. i.op = "return" => ValueOf(t.run.env, i.value) = ValueOf(s.run.env, i.value)
      BY <2>2, <2>4 DEF Operands
    <3>9. u.run.calls = w.run.calls /\ u.run.result = w.run.result
      <4>1. s.run.calls = t.run.calls /\ s.run.result = t.run.result
        BY DEF Alike
      <4> HIDE DEF i, u, w, d
      <4> QED
        BY <3>5, <3>6, <3>7, <3>8, <4>1
    <3>10. Suits(t.kinds, i) <=> Suits(s.kinds, i)
      BY <2>2, <2>4 DEF Suits, Operands
    <3>11. Answer(t.run) = Answer(s.run)
      BY DEF Answer, Alike
    <3>12. GetDestination(i) # {} =>
            /\ ResultOf(t.run.env, i, Answer(t.run)) = ResultOf(s.run.env, i, Answer(s.run))
            /\ ResultKind(t.kinds, i) = ResultKind(s.kinds, i)
      BY <2>2, <2>4, <3>11 DEF ResultOf, ResultKind, Operands, GetDestination
    <3>13. /\ DOMAIN u.run.env = DOMAIN s.run.env \cup GetDestination(i)
           /\ \A x \in DOMAIN s.run.env \ GetDestination(i) :
                u.run.env[x] = s.run.env[x] /\ u.kinds[x] = s.kinds[x]
           /\ \A x \in GetDestination(i) :
                /\ u.run.env[x] = ResultOf(s.run.env, i, Answer(s.run))
                /\ u.kinds[x] = ResultKind(s.kinds, i)
      BY <1>5, <2>4, StepWrites
    <3>14. /\ DOMAIN w.run.env = DOMAIN t.run.env \cup GetDestination(i)
           /\ \A x \in DOMAIN t.run.env \ GetDestination(i) :
                w.run.env[x] = t.run.env[x] /\ w.kinds[x] = t.kinds[x]
           /\ \A x \in GetDestination(i) :
                /\ w.run.env[x] = ResultOf(t.run.env, i, Answer(t.run))
                /\ w.kinds[x] = ResultKind(t.kinds, i)
      BY <1>2, <2>1, <2>2, <2>4, StepWrites
    <3> HIDE DEF u, w
    <3>15. AgreeOn(V, u, w)
      BY <3>12, <3>13, <3>14 DEF AgreeOn, Alike
    <3>16. w.suited = u.suited
      BY <3>3, <3>10 DEF Alike
    <3> QED
      BY <3>2, <3>5, <3>6, <3>15, <3>16, <3>9 DEF Alike, u, w, d
  <2> QED
    BY <2>3, <2>4
<1> QED
  BY <1>1, <1>4, <1>5

\* An instruction whose step leaves the names of V, the calls and the result
\* as they are, whenever execution comes to it.
Skippable(c, a, V, env) ==
  \A n \in Nat : \A t :
    LET s == Traced(c, env, n)
    IN  s.run.pos = a /\ Alike(V, a, s, t) => Alike(V, a, Followed(c, s), t)

\* Each state of the execution is met by the list without the instruction,
\* after as many steps or fewer.
LEMMA EraseFollows ==
  ASSUME NEW c, IsSequence(c), JumpsResolve(c), NEW a \in DOMAIN c, ~IsLabel(c[a]),
         NEW V, \A p \in DOMAIN c \ {a} : GetSources(c[p]) \subseteq V,
         NEW env, Skippable(c, a, V, env), NEW n \in Nat
  PROVE  \E m \in 0..n : Alike(V, a, Traced(c, env, n), Traced(Without(c, a), env, m))
<1> DEFINE d == Without(c, a)
           S == { k \in Nat : \E m \in 0..k : Alike(V, a, Traced(c, env, k), Traced(d, env, m)) }
<1>1. 0 \in S
  <2>1. Traced(c, env, 0) = TraceOf(env) /\ Traced(d, env, 0) = TraceOf(env)
    BY TraceUnfolds
  <2>2. Moved(a, 1) = 1
    BY PositionsOfSequence DEF Moved
  <2>3. Alike(V, a, TraceOf(env), TraceOf(env))
    BY <2>2 DEF Alike, AgreeOn, TraceOf, Started
  <2> QED
    BY <2>1, <2>3
<1>2. ASSUME NEW k \in Nat, k \in S PROVE k + 1 \in S
  <2> DEFINE s == Traced(c, env, k)
  <2>1. PICK m \in 0..k : Alike(V, a, s, Traced(d, env, m))
    BY <1>2
  <2>2. Traced(c, env, k + 1) = Followed(c, s)
    BY TraceUnfolds
  <2>3. s.run.pos \in 1..(Len(c) + 1)
    BY TraceStaysInside
  <2>4. CASE s.run.pos = a
    <3>1. Alike(V, a, Followed(c, s), Traced(d, env, m))
      BY <2>1, <2>4 DEF Skippable
    <3>2. m \in 0..(k + 1)
      OBVIOUS
    <3> QED
      BY <2>2, <3>1, <3>2
  <2>5. CASE s.run.pos # a
    <3>1. Alike(V, a, Followed(c, s), Followed(d, Traced(d, env, m)))
      BY <2>1, <2>3, <2>5, ErasedStep
    <3>2. Traced(d, env, m + 1) = Followed(d, Traced(d, env, m))
      <4>1. m \in Nat
        OBVIOUS
      <4> HIDE DEF d
      <4> QED
        BY <4>1, TraceUnfolds
    <3>3. m + 1 \in 0..(k + 1)
      OBVIOUS
    <3> QED
      BY <2>2, <3>1, <3>2, <3>3
  <2> QED
    BY <2>4, <2>5
<1> HIDE DEF S
<1>3. Nat \subseteq S
  BY <1>1, <1>2, SetInduction
<1> QED
  BY <1>3 DEF S

\* Hence what can be seen of it is the same.
LEMMA EraseKeepsMeaning ==
  ASSUME NEW c, IsSequence(c), JumpsResolve(c), NEW a \in DOMAIN c, ~IsLabel(c[a]),
         NEW V, \A p \in DOMAIN c \ {a} : GetSources(c[p]) \subseteq V,
         NEW env, Skippable(c, a, V, env)
  PROVE  Keeps(c, Without(c, a), env)
<1> DEFINE d == Without(c, a)
           s == Traced(c, env, Fuel)
<1> SUFFICES ASSUME Ended(c, s), s.suited
             PROVE  LET t == Traced(d, env, Fuel)
                    IN  /\ Ended(d, t) /\ t.suited
                        /\ t.run.calls = s.run.calls /\ t.run.result = s.run.result
  BY DEF Keeps
<1>1. PICK m \in 0..Fuel : Alike(V, a, s, Traced(d, env, m))
  BY EraseFollows, FuelIsBound
<1> DEFINE t == Traced(d, env, m)
<1>2. Len(c) \in Nat /\ a \in 1..Len(c)
  BY PositionsOfSequence
<1>3. Len(d) = Len(c) - 1
  BY EraseKeepsJumps
<1>4. s.run.pos \in 1..(Len(c) + 1)
  BY TraceStaysInside, FuelIsBound
<1>5. t.run.pos = Moved(a, s.run.pos) /\ t.suited = s.suited
      /\ t.run.calls = s.run.calls /\ t.run.result = s.run.result
  BY <1>1 DEF Alike
<1> HIDE DEF s, d
<1>6. Ended(d, t)
  BY <1>2, <1>3, <1>4, <1>5 DEF Ended, Moved
<1>7. Traced(d, env, Fuel) = t
  BY <1>6, EndedStays, FuelIsBound
<1> QED
  BY <1>5, <1>6, <1>7

\* The eliminator erases assignments nothing reads.
LEMMA DeadStoreIsSkippable ==
  ASSUME NEW c, IsSequence(c), JumpsResolve(c), NEW a \in DOMAIN c,
         c[a].op \in {"move", "binop", "const", "unary"},
         NEW V, c[a].destination \notin V,
         NEW env, \A n \in Nat : Traced(c, env, n).suited = TRUE
  PROVE  Skippable(c, a, V, env)
<1> SUFFICES ASSUME NEW n \in Nat, NEW t, Traced(c, env, n).run.pos = a,
                    Alike(V, a, Traced(c, env, n), t)
             PROVE  Alike(V, a, Followed(c, Traced(c, env, n)), t)
  BY DEF Skippable
<1> DEFINE s == Traced(c, env, n)
           u == Followed(c, s)
<1>1. u.suited = TRUE /\ s.suited = TRUE
  <2>1. Traced(c, env, n + 1) = u
    BY TraceUnfolds
  <2> QED
    BY <2>1
<1>2. s.run.pos \in 1..(Len(c) + 1)
  BY TraceStaysInside
<1>3. Len(c) \in Nat /\ a \in 1..Len(c)
  BY PositionsOfSequence
<1> HIDE DEF s
<1>4. \/ u = s
      \/ /\ CanStep(s.run.env, c[a])
         /\ u.run.pos = PositionAfter(c, a, s.run.env)
         /\ u.run.calls = s.run.calls /\ u.run.result = s.run.result
  BY <1>2, <1>3, StepTaken DEF s
<1>5. CASE u = s
  BY <1>5 DEF s
<1>6. CASE u # s
  <2>1. GetDestination(c[a]) = {c[a].destination}
    BY DEF GetDestination
  <2>2. /\ DOMAIN u.run.env = DOMAIN s.run.env \cup GetDestination(c[a])
        /\ \A x \in DOMAIN s.run.env \ GetDestination(c[a]) :
             u.run.env[x] = s.run.env[x] /\ u.kinds[x] = s.kinds[x]
    BY <1>4, <1>6, StepWrites DEF s
  <2>3. u.run.pos = a + 1
    BY <1>4, <1>6 DEF PositionAfter
  <2>4. Moved(a, a + 1) = Moved(a, a)
    BY <1>3 DEF Moved
  <2>5. /\ t.run.pos = Moved(a, a) /\ AgreeOn(V, s, t)
        /\ t.run.calls = s.run.calls /\ t.run.result = s.run.result
        /\ t.suited = s.suited
    BY DEF Alike, s
  <2> HIDE DEF u
  <2>6. AgreeOn(V, u, t)
    BY <2>1, <2>2, <2>5 DEF AgreeOn
  <2> QED
    BY <1>1, <1>4, <1>6, <2>3, <2>4, <2>5, <2>6 DEF Alike, u, s
<1> QED
  BY <1>5, <1>6

\* The remover erases what execution never comes to.
LEMMA UnreachableIsSkippable ==
  ASSUME NEW c, IsSequence(c), JumpsResolve(c), NEW p \in DOMAIN c,
         IsTerminator(c[p]), p + 1 \in DOMAIN c, ~IsLabel(c[p + 1]),
         NEW V, NEW env
  PROVE  Skippable(c, p + 1, V, env)
<1> DEFINE S == { n \in Nat : Traced(c, env, n).run.pos # p + 1 }
<1>1. 0 \in S
  <2>1. Traced(c, env, 0).run.pos = 1
    BY TraceUnfolds DEF TraceOf, Started
  <2>2. p \in Nat \ {0}
    BY PositionsOfSequence
  <2> QED
    BY <2>1, <2>2
<1>2. ASSUME NEW n \in Nat, n \in S PROVE n + 1 \in S
  <2> DEFINE t == Traced(c, env, n)
             s == Traced(c, env, n + 1)
  <2>1. s = Followed(c, t) /\ t.run.pos \in 1..(Len(c) + 1) /\ t.run.pos # p + 1
    BY <1>2, TraceUnfolds, TraceStaysInside
  <2> HIDE DEF s, t
  <2>2. \/ s = t
        \/ t.run.pos \in DOMAIN c /\ s.run.pos = PositionAfter(c, t.run.pos, t.run.env)
    BY <2>1, StepTaken
  <2>3. s.run.pos # p + 1
    <3> SUFFICES ASSUME s.run.pos = p + 1 PROVE FALSE
      OBVIOUS
    <3>1. t.run.pos \in DOMAIN c /\ s.run.pos = PositionAfter(c, t.run.pos, t.run.env)
      BY <2>1, <2>2
    <3>2. ~IsTerminator(c[t.run.pos]) /\ s.run.pos = t.run.pos + 1
      BY <3>1, NextPosition
    <3>3. t.run.pos = p
      BY <2>1, <3>2, PositionsOfSequence
    <3> QED
      BY <3>2, <3>3
  <2> QED
    BY <2>3 DEF s
<1> HIDE DEF S
<1>3. Nat \subseteq S
  BY <1>1, <1>2, SetInduction
<1> QED
  BY <1>3 DEF S, Skippable

-----------------------------------------------------------------------------
(***************************************************************************)
(* The invariant.                                                          *)
(***************************************************************************)

\* What is seen of executions is kept by one change after another.
LEMMA KeepsIsTransitive ==
  ASSUME NEW c, NEW d, NEW e, NEW env, Keeps(c, d, env), Keeps(d, e, env)
  PROVE  Keeps(c, e, env)
BY DEF Keeps

\* Rewriting that leaves the trace alone keeps the meaning.
LEMMA SameTraceKeepsMeaning ==
  ASSUME NEW c, NEW d, NEW env, Len(d) = Len(c),
         Traced(d, env, Fuel) = Traced(c, env, Fuel)
  PROVE  Keeps(c, d, env)
BY DEF Keeps, Ended

\* Where the execution of the original list ends, that of the list as it is
\* ends, and all its operands suit.
LEMMA ExecutionsEnd ==
  ASSUME IInv, MInv, NEW env \in [Parameters -> Arguments], Ends(env)
  PROVE  \A n \in Nat : Traced(code, env, n).suited = TRUE
<1>1. Traced(origin, env, Fuel).suited
  BY OperandsAreTyped DEF MInv, OperandsSuit, Ends, Ended
<1>2. Ended(code, Traced(code, env, Fuel)) /\ Traced(code, env, Fuel).suited
  BY <1>1 DEF MInv, Keeps, Ends
<1> QED
  BY <1>2, SuitedThroughout, FuelIsBound DEF IInv

\* A change has to keep the meaning of executions that end only.
LEMMA ChangeKeepsMeaning ==
  ASSUME MInv, NEW d,
         \A env \in [Parameters -> Arguments] : Ends(env) => Keeps(code, d, env)
  PROVE  \A env \in [Parameters -> Arguments] : Keeps(origin, d, env)
<1> SUFFICES ASSUME NEW env \in [Parameters -> Arguments] PROVE Keeps(origin, d, env)
  OBVIOUS
<1>1. CASE Ends(env)
  BY <1>1, KeepsIsTransitive DEF MInv
<1>2. CASE ~Ends(env)
  BY <1>2 DEF Keeps, Ends
<1> QED
  BY <1>1, <1>2

\* Initially the list is the original one.
LEMMA InitEstablishesMInv == Init => MInv
<1> SUFFICES ASSUME Init PROVE MInv
  OBVIOUS
<1>1. OperandsAreValues(code) /\ origin \in Functions
  BY FunctionsAreCode DEF Init
<1>2. KnownAreValues(known)
  BY DEF Init, Nothing, KnownAreValues
<1>3. \A env \in [Parameters -> Arguments] : Keeps(origin, code, env)
  BY DEF Init, Keeps
<1> QED
  BY <1>1, <1>2, <1>3 DEF Init, MInv

\* Constant operands are there in every environment.
LEMMA FoldableCanStep ==
  ASSUME NEW i, Foldable(i), ~DividesByZero(i), NEW env
  PROVE  CanStep(env, i)
<1>1. CASE i.op = "binop"
  BY <1>1 DEF Foldable, CanStep, GetSources, Operands, NamesIn, HasValue, ValueOf,
              DividesByZero, Divides
<1>2. CASE i.op = "unary"
  BY <1>2 DEF Foldable, CanStep, GetSources, Operands, NamesIn
<1> QED
  BY <1>1, <1>2 DEF Foldable

\* An operation on constants gives way to its result, which suits where the
\* operation was executed.
LEMMA FoldPreservesMInv == IInv /\ MInv /\ Fold => MInv'
<1> SUFFICES ASSUME IInv, MInv, Fold PROVE MInv'
  OBVIOUS
<1>1. IsSequence(code) /\ JumpsResolve(code) /\ at \in DOMAIN code
  BY PositionsOfSequence DEF IInv, TypeOK, Fold, InPass
<1>2. origin' = origin /\ known' = known /\ pass' = "fold"
  BY DEF Fold, InPass
<1>3. CASE Foldable(Here)
  <2> DEFINE i == Const(Here.destination, IF Here.op = "binop" THEN FoldedBinOp(Here)
                                          ELSE FoldedUnaryOp(Here))
  <2>1. code' = [code EXCEPT ![at] = i] /\ ~DividesByZero(Here)
    BY <1>3 DEF Fold, Rewrite
  <2>2. SameControl(code[at], i)
    BY <1>3 DEF Foldable, Here, Const, SameControl, IsLabel, IsTerminator, LabelsOf
  <2>3. (\A v \in Operands(i) : IsValue(v)) /\ IsValue(i.value)
    BY DEF Const, Operands, IsValue, FoldedBinOp, FoldedUnaryOp, IntOperand, BoolOperand
  <2>4. ASSUME NEW env \in [Parameters -> Arguments], Ends(env)
        PROVE  Keeps(code, code', env)
    <3>1. \A n \in Nat : Traced(code, env, n).suited = TRUE
      BY <2>4, ExecutionsEnd
    <3>2. ASSUME NEW n \in Nat, Traced(code, env, n).run.pos = at
          PROVE  SameEffect(code[at], i, Traced(code, env, n))
      <4> DEFINE t == Traced(code, env, n)
                 s == Traced(code, env, n + 1)
      <4>1. s = Followed(code, t) /\ s.suited = TRUE
        BY <3>1, TraceUnfolds
      <4>2. ~(t.run.pos > Len(code))
        BY <1>1, <3>2, PositionsOfSequence
      <4>3. CanStep(t.run.env, code[at])
        BY <1>3, <2>1, FoldableCanStep DEF Here
      <4> HIDE DEF s
      <4>4. Followed(code, t).suited = (t.suited /\ Suits(t.kinds, code[at]))
        BY <3>2, <4>2, <4>3 DEF Followed
      <4>5. Suits(t.kinds, code[at])
        BY <4>1, <4>4
      <4>6. \A v \in Operands(code[at]) : IsValue(v)
        BY <1>1 DEF MInv, OperandsAreValues
      <4> HIDE DEF t
      <4>7. SameEffect(code[at], i, t)
        BY <1>3, <2>1, <4>5, <4>6, FoldedHasSameEffect DEF Here
      <4> QED
        BY <4>7 DEF t
    <3>3. Replaces(code, at, i, env)
      BY <3>2 DEF Replaces
    <3> HIDE DEF i
    <3>4. Traced([code EXCEPT ![at] = i], env, Fuel) = Traced(code, env, Fuel)
      BY <1>1, <2>2, <3>3, RewriteKeepsTrace, FuelIsBound
    <3>5. Traced(code', env, Fuel) = Traced(code, env, Fuel)
      BY <2>1, <3>4
    <3>6. Len(code') = Len(code)
      BY <1>1, <2>1, <2>2, RewriteKeepsJumps
    <3> QED
      BY <3>5, <3>6, SameTraceKeepsMeaning
  <2>5. \A env \in [Parameters -> Arguments] : Keeps(origin, code', env)
    BY <2>4, ChangeKeepsMeaning
  <2> HIDE DEF i
  <2>6. OperandsAreValues(code')
    BY <1>1, <2>1, <2>3 DEF MInv, OperandsAreValues
  <2> QED
    BY <1>2, <2>5, <2>6 DEF MInv
<1>4. CASE ~Foldable(Here)
  <2>1. code' = code
    BY <1>4 DEF Fold
  <2> QED
    BY <1>2, <2>1 DEF MInv
<1> QED
  BY <1>3, <1>4

\* Operands give way to what is known of them, and what an instruction makes
\* known is true after it.
LEMMA PropagatePreservesMInv == IInv /\ MInv /\ Propagate => MInv'
<1> SUFFICES ASSUME IInv, MInv, Propagate PROVE MInv'
  OBVIOUS
<1> DEFINE i == WithOperandsPropagated(Here)
<1>1. IsSequence(code) /\ JumpsResolve(code) /\ at \in DOMAIN code
  BY PositionsOfSequence DEF IInv, TypeOK, Propagate, InPass
<1>2. /\ origin' = origin /\ pass = "propagate" /\ pass' = "propagate" /\ at' = at + 1
      /\ code' = [code EXCEPT ![at] = i] /\ known' = KnownAfter(known, i)
  BY DEF Propagate, InPass, Rewrite
<1>3. SameControl(code[at], i) /\ i.op = Here.op /\ (i.op = "const" => i = Here)
  BY PropagationKeepsControl DEF Here
<1>4. /\ KnownAreValues(known)
      /\ \A v \in Operands(Here) : IsValue(v)
      /\ Here.op = "const" => IsValue(Here.value) /\ Here.value.kind # "name"
  BY <1>1 DEF MInv, IInv, OperandsAreValues, ConstantsAreConstant, Here
<1>5. \A v \in Operands(i) : IsValue(v)
  BY <1>4, PropagatedAreValues
<1>6. IsLabel(code[at]) => i = code[at]
  BY DEF WithOperandsPropagated, IsLabel, Here
<1>7. ASSUME NEW env \in [Parameters -> Arguments], Ends(env), NEW n \in Nat
      PROVE  Traced(code', env, n) = Traced(code, env, n)
  <2>1. KnownIsTrue(code, known, at, env)
    BY <1>2, <1>7 DEF MInv
  <2>2. ASSUME NEW m \in Nat, Traced(code, env, m).run.pos = at
        PROVE  SameEffect(code[at], i, Traced(code, env, m))
    <3>1. CASE IsLabel(code[at])
      BY <1>6, <3>1, EffectOfItself
    <3>2. CASE ~IsLabel(code[at])
      <4>1. IsTrueOf(known, Traced(code, env, m))
        BY <1>1, <2>1, <2>2, <3>2 DEF KnownIsTrue
      <4> QED
        BY <4>1, PropagatedHasSameEffect DEF Here
    <3> QED
      BY <3>1, <3>2
  <2>3. Replaces(code, at, i, env)
    BY <2>2 DEF Replaces
  <2> HIDE DEF i
  <2>4. Traced([code EXCEPT ![at] = i], env, n) = Traced(code, env, n)
    BY <1>1, <1>3, <2>3, RewriteKeepsTrace
  <2> QED
    BY <1>2, <2>4
<1> HIDE DEF i
<1>8. /\ IsSequence(code') /\ Len(code') = Len(code) /\ DOMAIN code' = DOMAIN code
      /\ JumpsResolve(code')
  BY <1>1, <1>2, <1>3, RewriteKeepsJumps
<1>9. code'[at] = i
  BY <1>1, <1>2
<1>10. \A env \in [Parameters -> Arguments] : Keeps(origin, code', env)
  <2>1. \A env \in [Parameters -> Arguments] : Ends(env) => Keeps(code, code', env)
    BY <1>7, <1>8, SameTraceKeepsMeaning, FuelIsBound
  <2> QED
    BY <2>1, ChangeKeepsMeaning
<1>11. OperandsAreValues(code')
  BY <1>1, <1>2, <1>3, <1>4, <1>5 DEF MInv, OperandsAreValues
<1>12. KnownAreValues(known')
  BY <1>2, <1>3, <1>4, <1>5, KnownAfterAreValues
<1>13. ASSUME NEW env \in [Parameters -> Arguments], Ends(env)
       PROVE  KnownIsTrue(code', known', at', env)
  <2>1. KnownIsTrue(code, known, at, env)
    BY <1>2, <1>13 DEF MInv
  <2>2. KnownIsTrue(code', known, at, env)
    BY <1>1, <1>3, <1>7, <1>8, <1>9, <1>13, <2>1 DEF KnownIsTrue, SameControl
  <2>3. KnownIsTrue(code', KnownAfter(known, code'[at]), at + 1, env)
    BY <1>1, <1>3, <1>4, <1>5, <1>8, <1>9, <2>2, KnownIsTrueNext
  <2> QED
    BY <1>2, <1>9, <2>3
<1> QED
  BY <1>2, <1>10, <1>11, <1>12, <1>13 DEF MInv, Ends

\* Nothing reads the destination of what is eliminated: used holds all names
\* the list reads.
LEMMA EliminatePreservesMInv == IInv /\ MInv /\ Eliminate => MInv'
<1> SUFFICES ASSUME IInv, MInv, Eliminate PROVE MInv'
  OBVIOUS
<1>1. IsSequence(code) /\ JumpsResolve(code) /\ at \in DOMAIN code
  BY PositionsOfSequence DEF IInv, TypeOK, Eliminate, InPass
<1>2. /\ origin' = origin /\ known' = known /\ used' = used
      /\ pass = "eliminate" /\ pass' = "eliminate"
  BY DEF Eliminate, InPass
<1>3. \A p \in DOMAIN code : GetSources(code[p]) \subseteq used
  BY <1>2 DEF MInv
<1>4. CASE Removable(Here)
  <2>1. code' = Without(code, at)
    BY <1>4 DEF Eliminate, Erase, Without
  <2>2. /\ code[at].op \in {"move", "binop", "const", "unary"}
        /\ code[at].destination \notin used
        /\ ~IsLabel(code[at])
    BY <1>4 DEF Removable, Here, IsLabel
  <2>3. ASSUME NEW env \in [Parameters -> Arguments], Ends(env)
        PROVE  Keeps(code, code', env)
    <3>1. \A n \in Nat : Traced(code, env, n).suited = TRUE
      BY <2>3, ExecutionsEnd
    <3>2. Skippable(code, at, used, env)
      BY <1>1, <2>2, <3>1, DeadStoreIsSkippable
    <3> QED
      BY <1>1, <1>3, <2>1, <2>2, <3>2, EraseKeepsMeaning
  <2>4. \A env \in [Parameters -> Arguments] : Keeps(origin, code', env)
    BY <2>3, ChangeKeepsMeaning
  <2>5. \A q \in DOMAIN code' : \E p \in DOMAIN code : code'[q] = code[p]
    BY <1>1, <2>1, PositionsOfSequence DEF Without
  <2>6. OperandsAreValues(code') /\ \A p \in DOMAIN code' : GetSources(code'[p]) \subseteq used
    BY <1>3, <2>5 DEF MInv, OperandsAreValues
  <2> QED
    BY <1>2, <2>4, <2>6 DEF MInv
<1>5. CASE ~Removable(Here)
  <2>1. code' = code
    BY <1>5 DEF Eliminate
  <2> QED
    BY <1>2, <2>1 DEF MInv
<1> QED
  BY <1>4, <1>5

\* Execution never comes to what is removed.
LEMMA RemovePreservesMInv == IInv /\ MInv /\ Remove => MInv'
<1> SUFFICES ASSUME IInv, MInv, Remove PROVE MInv'
  OBVIOUS
<1>1. IsSequence(code) /\ JumpsResolve(code) /\ at \in DOMAIN code
  BY PositionsOfSequence DEF IInv, TypeOK, Remove, InPass
<1>2. origin' = origin /\ known' = known /\ pass' = "remove"
  BY DEF Remove, InPass
<1>3. CASE Unreachable
  <2>1. code' = Without(code, at + 1)
    BY <1>3 DEF Remove, Erase, Without
  <2>2. at + 1 \in DOMAIN code /\ ~IsLabel(code[at + 1]) /\ IsTerminator(code[at])
    BY <1>1, <1>3, PositionsOfSequence DEF Unreachable, Here
  <2> DEFINE V == UNION { GetSources(code[p]) : p \in DOMAIN code }
  <2>3. ASSUME NEW env \in [Parameters -> Arguments], Ends(env)
        PROVE  Keeps(code, code', env)
    <3>1. Skippable(code, at + 1, V, env)
      BY <1>1, <2>2, UnreachableIsSkippable
    <3>2. \A p \in DOMAIN code \ {at + 1} : GetSources(code[p]) \subseteq V
      OBVIOUS
    <3> HIDE DEF V
    <3> QED
      BY <1>1, <2>1, <2>2, <3>1, <3>2, EraseKeepsMeaning
  <2>4. \A env \in [Parameters -> Arguments] : Keeps(origin, code', env)
    BY <2>3, ChangeKeepsMeaning
  <2>5. \A q \in DOMAIN code' : \E p \in DOMAIN code : code'[q] = code[p]
    BY <1>1, <2>1, PositionsOfSequence DEF Without
  <2>6. OperandsAreValues(code')
    BY <2>5 DEF MInv, OperandsAreValues
  <2> QED
    BY <1>2, <2>4, <2>6 DEF MInv
<1>4. CASE ~Unreachable
  <2>1. code' = code
    BY <1>4 DEF Remove
  <2> QED
    BY <1>2, <2>1 DEF MInv
<1> QED
  BY <1>3, <1>4

\* The steps between the passes, and the failure, leave the list alone.
LEMMA BetweenPassesPreservesMInv ==
  ASSUME IInv, MInv,
         \/ FoldFails \/ StartPropagator \/ StartEliminator
         \/ StartRemover \/ EndRound
  PROVE  MInv'
<1>1. code' = code /\ origin' = origin /\ known' \in {known, Nothing}
  BY DEF FoldFails, StartPropagator, StartEliminator, StartRemover, EndRound
<1>2. KnownAreValues(known')
  BY <1>1 DEF MInv, KnownAreValues, Nothing
<1>3. OperandsAreValues(code') /\ origin' \in Functions
      /\ \A env \in [Parameters -> Arguments] : Keeps(origin', code', env)
  BY <1>1 DEF MInv
<1>4. CASE StartPropagator
  <2>1. pass' = "propagate" /\ known' = Nothing
    BY <1>4 DEF StartPropagator
  <2>2. \A env : KnownIsTrue(code', known', at', env)
    BY <2>1 DEF KnownIsTrue, IsTrueOf, Nothing
  <2> QED
    BY <1>2, <1>3, <2>1, <2>2 DEF MInv
<1>5. CASE StartEliminator
  <2>1. pass' = "eliminate" /\ used' = UNION { GetSources(i) : i \in Range(code) }
    BY <1>5 DEF StartEliminator
  <2>2. \A p \in DOMAIN code' : GetSources(code'[p]) \subseteq used'
    BY <1>1, <2>1 DEF Range
  <2> QED
    BY <1>2, <1>3, <2>1, <2>2 DEF MInv
<1>6. CASE FoldFails \/ StartRemover \/ EndRound
  <2>1. pass' \notin {"propagate", "eliminate"}
    BY <1>6 DEF FoldFails, StartRemover, EndRound
  <2> QED
    BY <1>2, <1>3, <2>1 DEF MInv
<1> QED
  BY <1>4, <1>5, <1>6

\* MInv is inductive, relative to IInv.
LEMMA NextPreservesMInv == IInv /\ MInv /\ [Next]_vars => MInv'
<1> SUFFICES ASSUME IInv, MInv, [Next]_vars PROVE MInv'
  OBVIOUS
<1>1. CASE Fold
  BY <1>1, FoldPreservesMInv
<1>2. CASE Propagate
  BY <1>2, PropagatePreservesMInv
<1>3. CASE Eliminate
  BY <1>3, EliminatePreservesMInv
<1>4. CASE Remove
  BY <1>4, RemovePreservesMInv
<1>5. CASE FoldFails \/ StartPropagator \/ StartEliminator \/ StartRemover \/ EndRound
  BY <1>5, BetweenPassesPreservesMInv
<1>6. CASE UNCHANGED vars
  BY <1>6 DEF vars, MInv, Ends
<1> QED
  BY <1>1, <1>2, <1>3, <1>4, <1>5, <1>6 DEF Next

-----------------------------------------------------------------------------
(***************************************************************************)
(* The theorem.                                                            *)
(***************************************************************************)

\* Whatever optimizer.cpp folds, propagates, eliminates and removes, in however
\* many rounds: an execution of the generator's list that ends, ends in the
\* list after each pass as well, with the same calls and the same result.
THEOREM OptimizerKeepsMeaning == Spec => []MeaningIsKept
<1>1. Init => MInv
  BY InitEstablishesMInv
<1>2. IInv /\ MInv /\ [Next]_vars => MInv'
  BY NextPreservesMInv
<1>3. MInv => MeaningIsKept
  <2> SUFFICES ASSUME MInv, NEW env \in [Parameters -> Arguments],
                      Run(origin, env, Fuel).pos > Len(origin)
               PROVE  /\ Run(code, env, Fuel).pos > Len(code)
                      /\ Run(code, env, Fuel).calls = Run(origin, env, Fuel).calls
                      /\ Run(code, env, Fuel).result = Run(origin, env, Fuel).result
    BY DEF MeaningIsKept
  <2>1. /\ Traced(origin, env, Fuel).run = Run(origin, env, Fuel)
        /\ Traced(code, env, Fuel).run = Run(code, env, Fuel)
    BY TraceRuns, FuelIsBound
  <2>2. Traced(origin, env, Fuel).suited
    BY <2>1, OperandsAreTyped DEF MInv, OperandsSuit
  <2> QED
    BY <2>1, <2>2 DEF MInv, Keeps, Ended
<1> QED
  BY <1>1, <1>2, <1>3, InvariantHolds, PTL DEF Spec

=============================================================================
