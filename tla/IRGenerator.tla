------------------------------ MODULE IRGenerator ------------------------------
(***************************************************************************)
(* The IR generator (src/src/ir_generator.cpp): the tree of a checked      *)
(* program lowered to instruction lists, one function after the other.     *)
(*                                                                         *)
(* As in TypeChecker, the recursion over statements is a list of pending   *)
(* work: statements, the branches an if still has, and instructions to be  *)
(* emitted when the statements before them have been.                      *)
(***************************************************************************)
EXTENDS Ast, SequencesExt

VARIABLES
  program,       (* the functions, accepted by the type checker           *)
  lowered,       (* the instruction lists of the functions done           *)
  code,          (* that of currentFunction                               *)
  pending,       (* what is still to be lowered of it                     *)
  busy,          (* currentFunction is not nullptr                        *)
  tempCounter,   (* temporaries made so far, in all functions             *)
  labelCounter   (* labels made so far, in all functions                  *)

vars == <<program, lowered, code, pending, busy, tempCounter, labelCounter>>

Temp(n) == "t" \o ToString(n)
LabelName(n) == "label" \o ToString(n)

Emission(is) == [is |-> "emission", instructions |-> is]

InitWork ==
  /\ lowered = <<>> /\ code = <<>> /\ pending = <<>> /\ busy = FALSE
  /\ tempCounter = 0 /\ labelCounter = 0

-----------------------------------------------------------------------------
(***************************************************************************)
(* Expressions. g is the code emitted so far, the number of temporaries    *)
(* made, and the operand that stands for the expression lowered last.      *)
(***************************************************************************)
Emitted(g, i) == [code |-> Append(g.code, i), temps |-> g.temps + 1, value |-> Name(i.destination)]

RECURSIVE LowerExpr(_, _)
LowerExpr(g, e) ==
  CASE e.is = "literal"  -> [g EXCEPT !.value = e.value]
    [] e.is = "variable" -> [g EXCEPT !.value = Name(e.name)]
    [] e.is = "unary"    ->
         LET v == LowerExpr(g, e.operand)
         IN  Emitted(v, UnaryOp(Temp(v.temps + 1), e.op, v.value))
    [] e.is = "binary"   ->
         LET l == LowerExpr(g, e.left)
             r == LowerExpr(l, e.right)
         IN  Emitted(r, BinOp(Temp(r.temps + 1), e.op, l.value, r.value))
    [] e.is = "call"     ->
         LET after[k \in 0..Len(e.arguments)] ==
               IF k = 0 THEN g ELSE LowerExpr(after[k - 1], e.arguments[k])
             last == after[Len(e.arguments)]
         IN  Emitted(last, Call(Temp(last.temps + 1), e.funcName,
                                [k \in DOMAIN e.arguments |-> after[k].value]))

-----------------------------------------------------------------------------
(***************************************************************************)
(* Statements.                                                             *)
(***************************************************************************)
Doing(what) == busy /\ pending # <<>> /\ pending[1].is = what
Task == pending[1]

\* The expression lowered behind these instructions.
Behind(is, e) == LowerExpr([code |-> code \o is, temps |-> tempCounter, value |-> e], e)

Emit(g, is) == code' = g.code \o is /\ tempCounter' = g.temps

Proceed(tasks) ==
  /\ pending' = tasks \o Tail(pending)
  /\ UNCHANGED <<program, lowered, busy>>

\* The instruction a statement ends with, given the operand of its expression.
Ending(s, v) ==
  CASE s.is = "let" /\ v.kind # "name" -> <<Const(s.name, v)>>
    [] s.is \in {"let", "assign"}      -> <<Move(s.name, v)>>
    [] s.is = "send"                   -> <<Return(v)>>
    [] s.is = "expr"                   -> <<>>

LowerPlainStmt ==
  /\ \E what \in {"let", "assign", "send", "expr"} : Doing(what)
  /\ LET g == Behind(<<>>, Task.initializer) IN Emit(g, Ending(Task, g.value))
  /\ Proceed(<<>>)
  /\ UNCHANGED labelCounter

LowerBlockStmt ==
  /\ Doing("block")
  /\ Proceed(Task.statements)
  /\ UNCHANGED <<code, tempCounter, labelCounter>>

LowerWhileStmt ==
  /\ Doing("while")
  /\ LET cond == LabelName(labelCounter + 1)
         body == LabelName(labelCounter + 2)
         end == LabelName(labelCounter + 3)
         g == Behind(<<Label(cond)>>, Task.condition)
     IN  /\ Emit(g, <<Branch(g.value, body, end), Label(body)>>)
         /\ Proceed(<<BlockStmt(Task.body), Emission(<<Jump(cond), Label(end)>>)>>)
  /\ labelCounter' = labelCounter + 3

\* endLabel is made first; no branch has been lowered, so none has a label.
LowerIfStmt ==
  /\ Doing("if")
  /\ labelCounter' = labelCounter + 1
  /\ Proceed(<<[ is |-> "branches", branches |-> Task.branches, elseBody |-> Task.elseBody,
                 currLabel |-> <<>>, endLabel |-> LabelName(labelCounter + 1) ]>>)
  /\ UNCHANGED <<code, tempCounter>>

\* Variant: the body of a branch runs on into the next branch.
FallIntoNext(endLabel) == <<>>

JumpOver(endLabel) == <<Jump(endLabel)>>

LowerIfBranch ==
  /\ Doing("branches") /\ Task.branches # <<>>
  /\ LET ifLabel == LabelName(labelCounter + 1)
         checkLabel == LabelName(labelCounter + 2)
         branch == Task.branches[1]
         g == Behind(Task.currLabel, branch.condition)
     IN  /\ Emit(g, <<Branch(g.value, ifLabel, checkLabel), Label(ifLabel)>>)
         /\ Proceed(<<BlockStmt(branch.body), Emission(JumpOver(Task.endLabel)),
                      [Task EXCEPT !.branches = Tail(@), !.currLabel = <<Label(checkLabel)>>]>>)
  /\ labelCounter' = labelCounter + 2

LowerElse ==
  /\ Doing("branches") /\ Task.branches = <<>>
  /\ code' = code \o Task.currLabel
  /\ Proceed([k \in DOMAIN Task.elseBody |-> BlockStmt(Task.elseBody[k])]
               \o <<Emission(<<Label(Task.endLabel)>>)>>)
  /\ UNCHANGED <<tempCounter, labelCounter>>

EmitRest ==
  /\ Doing("emission")
  /\ code' = code \o Task.instructions
  /\ Proceed(<<>>)
  /\ UNCHANGED <<tempCounter, labelCounter>>

-----------------------------------------------------------------------------
(***************************************************************************)
(* Functions.                                                              *)
(***************************************************************************)

\* Variant: every function numbers its labels from one.
RestartLabels == labelCounter' = 0

KeepLabels == UNCHANGED labelCounter

LowerFunction ==
  /\ ~busy /\ Len(lowered) < Len(program)
  /\ busy' = TRUE
  /\ code' = <<>>
  /\ pending' = program[Len(lowered) + 1].body
  /\ KeepLabels
  /\ UNCHANGED <<program, lowered, tempCounter>>

FinishFunction ==
  /\ busy /\ pending = <<>>
  /\ busy' = FALSE
  /\ lowered' = Append(lowered, code)
  /\ UNCHANGED <<program, code, pending, tempCounter, labelCounter>>

Next ==
  \/ LowerFunction \/ FinishFunction
  \/ LowerPlainStmt \/ LowerBlockStmt \/ LowerWhileStmt
  \/ LowerIfStmt \/ LowerIfBranch \/ LowerElse \/ EmitRest

Done == ~busy /\ Len(lowered) = Len(program)

=============================================================================
