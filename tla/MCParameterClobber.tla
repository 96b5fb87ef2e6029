-------------------------- MODULE MCParameterClobber --------------------------
(***************************************************************************)
(* A function that assigns its second parameter on every path before it    *)
(* reads it:                                                               *)
(*                                                                         *)
(*   fn f(y: int, x: int) -> int {                                         *)
(*     if (y is_gt 0) then { x = 1; } else { x = 2; }                      *)
(*     send x;                                                             *)
(*   }                                                                     *)
(*                                                                         *)
(* Its x is not live on entry, so buildGraph makes no edge between x and y *)
(* and the allocator may give them one register.                           *)
(***************************************************************************)
EXTENDS MCExecution

Overwriting ==
  <<BinOp("t", "GreaterThan", Y, N(0)), Branch(Name("t"), "label2", "label3"),
    Label("label2"), Const("x", N(1)), Jump("label1"),
    Label("label3"), Const("x", N(2)),
    Label("label1"), Return(X)>>

\* Nothing needs the stack: no name interferes with another.
MCOverwriting ==
  { Compile(Overwriting, <<"y", "x">>, pl) :
      pl \in { p \in Placements(Overwriting) : \A v \in DOMAIN p : p[v] # "stack" } }

=============================================================================
