---------------------------------- MODULE IR ----------------------------------
(***************************************************************************)
(* The three-address intermediate representation (src/include/ir.hpp) and  *)
(* the two queries every pass of the back end makes of an instruction      *)
(* (getDestination and getSources of src/src/liveness.cpp).                *)
(*                                                                         *)
(* An instruction is a record whose field op names its class. An operand   *)
(* is an IRValue: an integer or Boolean constant, or a name. Variables and *)
(* temporaries are both names: no pass tells them apart after generation,  *)
(* and both are looked up by the same string.                              *)
(***************************************************************************)
EXTENDS Integers, Sequences, Functions

IntOperand(n) == [kind |-> "int", value |-> n]
BoolOperand(b) == [kind |-> "bool", value |-> IF b THEN 1 ELSE 0]
Name(x) == [kind |-> "name", name |-> x]

Const(d, v) == [op |-> "const", destination |-> d, value |-> v]
Move(d, s) == [op |-> "move", destination |-> d, source |-> s]
BinOp(d, f, l, r) == [op |-> "binop", destination |-> d, fn |-> f,
                      leftVal |-> l, rightVal |-> r]
UnaryOp(d, f, v) == [op |-> "unary", destination |-> d, fn |-> f, value |-> v]
Label(l) == [op |-> "label", label |-> l]
Jump(l) == [op |-> "jump", destination |-> l]
Branch(c, t, f) == [op |-> "branch", condition |-> c,
                    trueLabel |-> t, falseLabel |-> f]
Call(d, f, args) == [op |-> "call", destination |-> d, functionName |-> f,
                     arguments |-> args]
Return(v) == [op |-> "return", value |-> v]

IsLabel(i) == i.op = "label"
IsTerminator(i) == i.op \in {"jump", "branch", "return"}

\* The set holds the one name an instruction writes, or nothing.
GetDestination(i) ==
  IF i.op \in {"const", "move", "binop", "unary", "call"}
    THEN {i.destination} ELSE {}

\* The operands an instruction reads, and their names: constants have none.
Operands(i) ==
  CASE i.op = "move"   -> {i.source}
    [] i.op = "binop"  -> {i.leftVal, i.rightVal}
    [] i.op = "unary"  -> {i.value}
    [] i.op = "branch" -> {i.condition}
    [] i.op = "call"   -> Range(i.arguments)
    [] i.op = "return" -> {i.value}
    [] OTHER           -> {}

NamesIn(operands) == { v.name : v \in { o \in operands : o.kind = "name" } }

GetSources(i) == NamesIn(Operands(i))

=============================================================================
