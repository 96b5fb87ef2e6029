------------------------------- MODULE Optimizer -------------------------------
(***************************************************************************)
(* Optimizer::optimize (src/src/optimizer.cpp) on one function: rounds of  *)
(* constant folding, copy and constant propagation, dead store elimination *)
(* and unreachable code removal, until a round changes nothing.            *)
(*                                                                         *)
(* Each pass is a loop over the instructions that edits the list under its *)
(* own index; one action is one iteration. A throw of the folder ends the  *)
(* compilation.                                                            *)
(***************************************************************************)
EXTENDS IRSemantics

CONSTANTS
  Functions,    (* Instruction lists of functions, as the generator emits them. *)
  Parameters,   (* The names that have a value on entry.                  *)
  Arguments,    (* Words a caller passes.                                 *)
  Fuel          (* Bound: steps of an execution that are followed.        *)

ASSUME FunctionsAreCode ==
  \A c \in Functions : /\ c \in Seq(Range(c))
                       /\ JumpsResolve(c)
                       /\ ConstantsAreConstant(c)
                       /\ OperandsAreValues(c)

\* What the type checker accepts and the generator lowers applies operations
\* to operands they are for, see FrontEnd.
ASSUME OperandsAreTyped ==
  \A c \in Functions : \A env \in [Parameters -> Arguments] : OperandsSuit(c, env, Fuel)

ASSUME FuelIsBound == Fuel \in Nat

VARIABLES
  origin,    (* the instructions the optimizer was given                  *)
  code,      (* func.instructions                                         *)
  pass,      (* the pass that runs, or done, or failed after a throw      *)
  at,        (* the instruction it looks at                               *)
  known,     (* knownValues: what a name is known to be equal to          *)
  used,      (* names the eliminator has found read somewhere             *)
  changed    (* some pass of this round has changed something             *)

vars == <<origin, code, pass, at, known, used, changed>>

Nothing == [x \in {} |-> {}]

Init ==
  /\ origin \in Functions
  /\ code = origin
  /\ pass = "fold" /\ at = 1
  /\ known = Nothing /\ used = {} /\ changed = FALSE

Here == code[at]
InPass(p) == pass = p /\ at <= Len(code)
PassEnds(p) == pass = p /\ at > Len(code)

\* Instruction i takes the place of the one looked at.
Rewrite(i) == code' = [code EXCEPT ![at] = i]

\* The one at position p is erased: what follows moves up.
Erase(p) == code' = [q \in 1..(Len(code) - 1) |-> IF q < p THEN code[q] ELSE code[q + 1]]

-----------------------------------------------------------------------------
(***************************************************************************)
(* folder.                                                                 *)
(***************************************************************************)
Foldable(i) ==
  \/ i.op = "binop" /\ i.leftVal.kind # "name" /\ i.leftVal.kind = i.rightVal.kind
  \/ i.op = "unary" /\ i.value.kind # "name"

\* The folder throws on a division by zero; the overflowing quotient is
\* undefined behaviour, which wraps or kills the compiler.
Divides(i) == i.op = "binop" /\ i.fn = "Divide" /\ Foldable(i)
DividesByZero(i) == Divides(i) /\ i.rightVal.value = 0
Overflows(i) == Divides(i) /\ i.leftVal.value = Least /\ i.rightVal.value = -1

FoldedBinOp(i) ==
  LET value == EvalBinOp(i.fn, i.leftVal.value, i.rightVal.value)
  IN  IF i.fn \in {"Add", "Subtract", "Multiply", "Divide"}
        THEN IntOperand(value) ELSE BoolOperand(value = 1)

FoldedUnaryOp(i) ==
  LET value == EvalUnaryOp(i.fn, i.value.value)
  IN  IF i.value.kind = "int" THEN IntOperand(value) ELSE BoolOperand(value = 1)

Fold ==
  /\ InPass("fold")
  /\ ~DividesByZero(Here)
  /\ IF Foldable(Here)
       THEN /\ Rewrite(Const(Here.destination, IF Here.op = "binop" THEN FoldedBinOp(Here)
                                               ELSE FoldedUnaryOp(Here)))
            /\ changed' = TRUE
       ELSE UNCHANGED <<code, changed>>
  /\ at' = at + 1
  /\ UNCHANGED <<origin, pass, known, used>>

FoldFails ==
  /\ InPass("fold")
  /\ DividesByZero(Here) \/ Overflows(Here)
  /\ pass' = "failed"
  /\ UNCHANGED <<origin, code, at, known, used, changed>>

StartPropagator ==
  /\ PassEnds("fold")
  /\ pass' = "propagate" /\ at' = 1 /\ known' = Nothing
  /\ UNCHANGED <<origin, code, used, changed>>

-----------------------------------------------------------------------------
(***************************************************************************)
(* propagator.                                                             *)
(***************************************************************************)
Known(v) == v.kind = "name" /\ v.name \in DOMAIN known
Propagated(v) == IF Known(v) THEN known[v.name] ELSE v

WithOperandsPropagated(i) ==
  CASE i.op = "move"   -> Move(i.destination, Propagated(i.source))
    [] i.op = "binop"  -> BinOp(i.destination, i.fn, Propagated(i.leftVal), Propagated(i.rightVal))
    [] i.op = "unary"  -> UnaryOp(i.destination, i.fn, Propagated(i.value))
    [] i.op = "call"   -> Call(i.destination, i.functionName,
                               [k \in DOMAIN i.arguments |-> Propagated(i.arguments[k])])
    [] i.op = "return" -> Return(Propagated(i.value))
    [] i.op = "branch" -> Branch(Propagated(i.condition), i.trueLabel, i.falseLabel)
    [] OTHER           -> i

\* Variant: names equal to the one being written stay known as such.
KeepAliases(k, d) == k

\* Names known to equal d are no longer: d is being written.
ForgetAliases(k, d) == [x \in { y \in DOMAIN k : k[y] # Name(d) } |-> k[x]]

Bind(k, d, v) == [x \in DOMAIN k \cup {d} |-> IF x = d THEN v ELSE k[x]]
Unbind(k, d) == [x \in DOMAIN k \ {d} |-> k[x]]

KnownAfter(k, i) ==
  CASE i.op = "move"                       -> ForgetAliases(Bind(k, i.destination, i.source), i.destination)
    [] i.op = "const"                      -> Bind(ForgetAliases(k, i.destination), i.destination, i.value)
    [] i.op \in {"binop", "unary", "call"} -> Unbind(ForgetAliases(k, i.destination), i.destination)
    [] i.op = "return"                     -> k
    [] OTHER                               -> Nothing

\* Variant: an operand that might be known counts as a change.
LooksUp(i) == NamesIn(Operands(i)) # {}

Finds(i) == \E v \in Operands(i) : Known(v)

Propagate ==
  /\ InPass("propagate")
  /\ LET i == WithOperandsPropagated(Here) IN
       /\ Rewrite(i)
       /\ known' = KnownAfter(known, i)
  /\ changed' = (changed \/ Finds(Here))
  /\ at' = at + 1
  /\ UNCHANGED <<origin, pass, used>>

\* The eliminator's first loop only collects.
StartEliminator ==
  /\ PassEnds("propagate")
  /\ pass' = "eliminate" /\ at' = 1
  /\ used' = UNION { GetSources(i) : i \in Range(code) }
  /\ UNCHANGED <<origin, code, known, changed>>

-----------------------------------------------------------------------------
(***************************************************************************)
(* eliminator and remover.                                                 *)
(***************************************************************************)

\* A call may do more than give its result.
Removable(i) == i.op \in {"move", "binop", "const", "unary"} /\ i.destination \notin used

\* Variant: the index moves on after an erase as well.
PastErased == at' = at + 1

StayAtErased == UNCHANGED at

Eliminate ==
  /\ InPass("eliminate")
  /\ IF Removable(Here)
       THEN Erase(at) /\ StayAtErased /\ changed' = TRUE
       ELSE at' = at + 1 /\ UNCHANGED <<code, changed>>
  /\ UNCHANGED <<origin, pass, known, used>>

StartRemover ==
  /\ PassEnds("eliminate")
  /\ pass' = "remove" /\ at' = 1
  /\ UNCHANGED <<origin, code, known, used, changed>>

\* Variant: what follows a return stays.
OnlyAfterJumps == Here.op \in {"jump", "branch"} /\ at < Len(code) /\ ~IsLabel(code[at + 1])

\* The instruction after this one cannot be reached.
Unreachable == IsTerminator(Here) /\ at < Len(code) /\ ~IsLabel(code[at + 1])

Remove ==
  /\ InPass("remove")
  /\ IF Unreachable
       THEN Erase(at + 1) /\ changed' = TRUE /\ UNCHANGED at
       ELSE at' = at + 1 /\ UNCHANGED <<code, changed>>
  /\ UNCHANGED <<origin, pass, known, used>>

\* while(changed)
EndRound ==
  /\ PassEnds("remove")
  /\ pass' = IF changed THEN "fold" ELSE "done"
  /\ at' = 1
  /\ changed' = FALSE
  /\ UNCHANGED <<origin, code, known, used>>

Next ==
  \/ Fold \/ FoldFails \/ StartPropagator \/ Propagate \/ StartEliminator
  \/ Eliminate \/ StartRemover \/ Remove \/ EndRound

\* optimize is a sequential call: only its own loops hold it up.
Spec == Init /\ [][Next]_vars /\ WF_vars(Next)

-----------------------------------------------------------------------------
(***************************************************************************)
(* Properties.                                                             *)
(***************************************************************************)

\* The index of each loop stays on the list, or one past its end.
TypeOK ==
  /\ pass \in {"fold", "propagate", "eliminate", "remove", "done", "failed"}
  /\ at \in 1..(Len(code) + 1)
  /\ changed \in BOOLEAN

\* A known value is never a name that is itself known to equal something: one
\* look-up is enough, and no two names are replaced by each other for ever.
KnownIsResolved == \A x, y \in DOMAIN known : known[x] # Name(y)

\* After every step of every pass, an execution that ended before still ends,
\* with the same calls in the same order and the same value returned.
MeaningIsKept ==
  \A env \in [Parameters -> Arguments] :
    LET before == Run(origin, env, Fuel)
        after == Run(code, env, Fuel)
    IN  before.pos > Len(origin) =>
          /\ after.pos > Len(code)
          /\ after.calls = before.calls /\ after.result = before.result

\* What is left at the end is what buildBlocks and buildCFG rely on: every
\* jump still finds its label, whatever was erased around it, and nothing but
\* a label follows a jump, a branch or a return.
LeavesFunctionCode == pass = "done" => IsFunctionCode(code)

\* The rounds end.
Termination == <>(pass \in {"done", "failed"})

\* riscv_codegen.cpp:89: "move incoming ai args into their allocated
\* locations". A name gets a location only when an instruction mentions it;
\* this says that no pass takes the last mention of a parameter away.
ParametersKeepALocation ==
  pass = "done" => Parameters \cap NamesOf(origin) \subseteq NamesOf(code)

=============================================================================
