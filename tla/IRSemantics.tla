------------------------------ MODULE IRSemantics ------------------------------
(***************************************************************************)
(* What an instruction list means: the values it computes, over words of a *)
(* given width. What an operation computes is what the constant folder     *)
(* computes for it (src/src/optimizer.cpp), with arithmetic that wraps     *)
(* where the folder's int64 overflows; where an instruction puts its value *)
(* and where control goes next is what the code generator emits for it     *)
(* (src/src/riscv_codegen.cpp).                                            *)
(***************************************************************************)
EXTENDS InstructionFlow

CONSTANT Width   (* Bits of a word: 64 in the code. *)

ASSUME WidthIsPositive == Width \in Nat \ {0}

Least == -(2 ^ (Width - 1))
Word == Least..(-Least - 1)

\* The word an integer wraps to.
Wrap(n) == ((n - Least) % (2 ^ Width)) + Least

Truth(b) == IF b THEN 1 ELSE 0

\* C++ and RISC-V round a quotient towards zero.
Quotient(l, r) ==
  LET abs(n) == IF n < 0 THEN -n ELSE n
      q == abs(l) \div abs(r)
  IN  IF (l < 0) # (r < 0) THEN -q ELSE q

\* A division by zero has no value: the folder throws on it.
HasValue(fn, r) == fn = "Divide" => r # 0

EvalBinOp(fn, l, r) ==
  CASE fn = "Add"              -> Wrap(l + r)
    [] fn = "Subtract"         -> Wrap(l - r)
    [] fn = "Multiply"         -> Wrap(l * r)
    [] fn = "Divide"           -> Wrap(Quotient(l, r))
    [] fn = "Equal"            -> Truth(l = r)
    [] fn = "LessThan"         -> Truth(l < r)
    [] fn = "LessThanEqual"    -> Truth(l <= r)
    [] fn = "GreaterThan"      -> Truth(l > r)
    [] fn = "GreaterThanEqual" -> Truth(l >= r)
    [] fn = "And"              -> Truth(l # 0 /\ r # 0)
    [] fn = "Or"               -> Truth(l # 0 \/ r # 0)

EvalUnaryOp(fn, v) == IF fn = "Negation" THEN Wrap(-v) ELSE Truth(v = 0)

-----------------------------------------------------------------------------
(***************************************************************************)
(* One step of an instruction list. env maps the names written so far to   *)
(* words; the value a call returns is the environment's choice.            *)
(***************************************************************************)
ValueOf(env, v) == IF v.kind = "name" THEN env[v.name] ELSE v.value

\* The operands have values and the operation has a result.
CanStep(env, i) ==
  /\ GetSources(i) \subseteq DOMAIN env
  /\ i.op = "binop" => HasValue(i.fn, ValueOf(env, i.rightVal))

\* What the instruction writes to its destination.
ResultOf(env, i, callResult) ==
  CASE i.op = "const" -> i.value.value
    [] i.op = "move"  -> ValueOf(env, i.source)
    [] i.op = "binop" -> EvalBinOp(i.fn, ValueOf(env, i.leftVal), ValueOf(env, i.rightVal))
    [] i.op = "unary" -> EvalUnaryOp(i.fn, ValueOf(env, i.value))
    [] i.op = "call"  -> callResult

EnvAfter(env, i, callResult) ==
  [x \in DOMAIN env \cup GetDestination(i) |->
     IF x \in GetDestination(i) THEN ResultOf(env, i, callResult) ELSE env[x]]

PositionOf(c, l) == CHOOSE p \in DOMAIN c : IsLabel(c[p]) /\ c[p].label = l

\* The position after p; one past the end once the function has returned.
PositionAfter(c, p, env) ==
  CASE c[p].op = "jump"   -> PositionOf(c, c[p].destination)
    [] c[p].op = "branch" -> PositionOf(c, IF ValueOf(env, c[p].condition) # 0
                                             THEN c[p].trueLabel ELSE c[p].falseLabel)
    [] c[p].op = "return" -> Len(c) + 1
    [] OTHER              -> p + 1

-----------------------------------------------------------------------------
(***************************************************************************)
(* Executions of an instruction list: what a caller and the functions it   *)
(* calls can see of them.                                                  *)
(***************************************************************************)
Started(env) == [pos |-> 1, env |-> env, calls |-> <<>>, result |-> <<>>]

\* What calls return, in turn: words that are integers and Boolean values.
Answer(s) == Truth(Len(s.calls) % 2 = 0)

Stepped(c, s) ==
  IF s.pos > Len(c) \/ ~CanStep(s.env, c[s.pos]) THEN s
  ELSE LET i == c[s.pos] IN
    [ pos |-> PositionAfter(c, s.pos, s.env),
      env |-> EnvAfter(s.env, i, Answer(s)),
      calls |-> IF i.op # "call" THEN s.calls
                ELSE Append(s.calls, [function |-> i.functionName,
                                      arguments |-> [k \in DOMAIN i.arguments |->
                                                       ValueOf(s.env, i.arguments[k])]]),
      result |-> IF i.op = "return" THEN <<ValueOf(s.env, i.value)>> ELSE s.result ]

\* The state so many steps after the entry with these arguments.
Run(c, env, steps) ==
  LET after[n \in Nat] == IF n = 0 THEN Started(env) ELSE Stepped(c, after[n - 1])
  IN  after[steps]

-----------------------------------------------------------------------------
(***************************************************************************)
(* Kinds of values. The words of an execution do not say whether they are  *)
(* integers or Booleans; the folder asks its operands for their kind, and  *)
(* an operation the type checker accepts has operands of the right one.    *)
(***************************************************************************)

\* Of what a caller passes and what a call returns nothing is known here.
KindOf(kinds, v) == IF v.kind = "name" THEN kinds[v.name] ELSE v.kind

ResultKind(kinds, i) ==
  CASE i.op = "const" -> i.value.kind
    [] i.op = "move"  -> KindOf(kinds, i.source)
    [] i.op = "binop" -> IF i.fn \in {"Add", "Subtract", "Multiply", "Divide"}
                           THEN "int" ELSE "bool"
    [] i.op = "unary" -> IF i.fn = "Negation" THEN "int" ELSE "bool"
    [] i.op = "call"  -> "unknown"

\* An operation is known, and no operand is of a kind it is not for.
Suits(kinds, i) ==
  /\ i.op = "binop" =>
       LET both == {KindOf(kinds, i.leftVal), KindOf(kinds, i.rightVal)}
       IN  \/ /\ i.fn \in {"Add", "Subtract", "Multiply", "Divide", "LessThan",
                            "LessThanEqual", "GreaterThan", "GreaterThanEqual"}
              /\ "bool" \notin both
           \/ i.fn = "Equal" /\ {"int", "bool"} # both
           \/ i.fn \in {"And", "Or"} /\ "int" \notin both
  /\ i.op = "unary" =>
       LET kind == KindOf(kinds, i.value)
       IN  (i.fn = "Negation" /\ kind # "bool") \/ (i.fn = "Not" /\ kind # "int")

\* An execution, the kinds of the values it computes, and whether every
\* operation so far had operands that suit it.
TraceOf(env) == [run |-> Started(env), kinds |-> [x \in DOMAIN env |-> "unknown"], suited |-> TRUE]

Followed(c, t) ==
  IF t.run.pos > Len(c) \/ ~CanStep(t.run.env, c[t.run.pos]) THEN t
  ELSE LET i == c[t.run.pos] IN
    [ run |-> Stepped(c, t.run),
      kinds |-> [x \in DOMAIN t.run.env \cup GetDestination(i) |->
                   IF x \in GetDestination(i) THEN ResultKind(t.kinds, i) ELSE t.kinds[x]],
      suited |-> t.suited /\ Suits(t.kinds, i) ]

Traced(c, env, steps) ==
  LET after[n \in Nat] == IF n = 0 THEN TraceOf(env) ELSE Followed(c, after[n - 1])
  IN  after[steps]

\* An execution that ends applies each operation to operands that suit it.
OperandsSuit(c, env, steps) ==
  LET t == Traced(c, env, steps)
  IN  t.run.pos > Len(c) => t.suited

=============================================================================
