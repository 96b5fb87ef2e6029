---------------------------- MODULE MCControlFlow ----------------------------
(***************************************************************************)
(* Every instruction list of at most five instructions over two labels     *)
(* that the earlier passes can produce: enough for a loop with an exit,    *)
(* two labels in a row, a label at either end, code after a return, and    *)
(* the empty function.                                                     *)
(***************************************************************************)
EXTENDS ControlFlow

Alphabet ==
  { Const("x", IntOperand(0)), Label("L"), Label("M"), Jump("L"), Jump("M"),
    Branch(Name("x"), "L", "M"), Branch(Name("x"), "M", "L"), Return(Name("x")) }

MCFunctions ==
  { c \in UNION { [1..n -> Alphabet] : n \in 0..5 } : IsFunctionCode(c) }

=============================================================================
