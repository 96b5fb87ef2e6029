-------------------------- MODULE MCParameterLocation --------------------------
(***************************************************************************)
(* A function that reads its second parameter, to no effect:               *)
(*                                                                         *)
(*   fn f(x: int, y: int) -> int { let e: int = x - y; send x; }           *)
(*                                                                         *)
(* It type checks, and IRGenerate lowers it to the list below. Nothing     *)
(* reads e, so the eliminator takes out the move, then in the next round   *)
(* the subtraction, and with it the only mention of y.                     *)
(***************************************************************************)
EXTENDS MCOptimizer

MCUnneeded ==
  { <<BinOp("t1", "Subtract", X, Y), Move("e", Name("t1")), Return(X)>> }

=============================================================================
