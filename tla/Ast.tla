---------------------------------- MODULE Ast ----------------------------------
(***************************************************************************)
(* The abstract syntax tree (src/include/ast.hpp).                         *)
(*                                                                         *)
(* A node is a record whose field is names its class. A block is the       *)
(* sequence of its statements, an optional part a sequence of length 0 or  *)
(* 1, a JKCType the kind of its values.                                    *)
(***************************************************************************)
EXTENDS IR

IntegerLiteralExpr(n) == [is |-> "literal", value |-> IntOperand(n)]
BoolLiteralExpr(b) == [is |-> "literal", value |-> BoolOperand(b)]
VariableExpr(x) == [is |-> "variable", name |-> x]
UnaryExpr(e, op) == [is |-> "unary", op |-> op, operand |-> e]
BinaryExpr(l, op, r) == [is |-> "binary", op |-> op, left |-> l, right |-> r]
CallExpr(args, f) == [is |-> "call", funcName |-> f, arguments |-> args]

LetStmt(x, type, e) == [is |-> "let", name |-> x, decType |-> type, initializer |-> e]
AssignStmt(x, e) == [is |-> "assign", name |-> x, initializer |-> e]
SendStmt(e) == [is |-> "send", initializer |-> e]
ExprStmt(e) == [is |-> "expr", initializer |-> e]
BlockStmt(ss) == [is |-> "block", statements |-> ss]
WhileStmt(e, body) == [is |-> "while", condition |-> e, body |-> body]
IfBranch(e, body) == [condition |-> e, body |-> body]
IfStmt(branches, elseBody) == [is |-> "if", branches |-> branches, elseBody |-> elseBody]

Parameter(x, type) == [name |-> x, type |-> type]
FunctionDec(f, parameters, type, body) ==
  [name |-> f, parameters |-> parameters, returnType |-> type, body |-> body]

-----------------------------------------------------------------------------
\* The types an operator takes and gives.
OperandType(op) == IF op \in {"And", "Or", "Not"} THEN "bool" ELSE "int"
ResultType(op) ==
  IF op \in {"Add", "Subtract", "Multiply", "Divide", "Negation"} THEN "int" ELSE "bool"

ParameterNames(f) == { f.parameters[k].name : k \in DOMAIN f.parameters }

=============================================================================
