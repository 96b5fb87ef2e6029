------------------------------ MODULE MCOptimizer ------------------------------
(***************************************************************************)
(* Functions of x and y on words of three bits: every straight line of     *)
(* three statements from a pool that copies, computes, overwrites, calls   *)
(* and returns early, and ifs and whiles, as IRGenerate lowers them, whose *)
(* conditions and bodies leave something for each pass. The fuel is enough *)
(* for every loop of these that ends. Some do not end in a return: nothing *)
(* in the front end asks for one.                                          *)
(***************************************************************************)
EXTENDS Optimizer

MCParameters == {"x", "y"}
MCArguments == {-4, 3}

X == Name("x")
Y == Name("y")
Z == Name("z")
T == Name("t")
N(n) == IntOperand(n)

Statements ==
  { Move("z", X), Move("x", Y), Move("y", Z), Move("x", N(2)), Const("z", N(-1)),
    BinOp("x", "Subtract", X, Z), Call("z", "f", <<X, N(1), Y>>), Return(Y) }

StraightLines ==
  { <<a, b, c, Return(v)>> : a, b, c \in Statements, v \in {X, Y, Z} }
  \cup { <<a, b>> : a, b \in Statements }

\* What constants leave to fold: each operator, and what follows from it.
Folding ==
  { <<Const("z", N(l)), BinOp("t", fn, Z, N(r)), Move("y", T), Return(Y)>> :
      l \in {-4, 3}, r \in {-1, 0, 2},
      fn \in {"Add", "Subtract", "Multiply", "Divide", "LessThan", "Equal", "GreaterThanEqual"} }
  \cup
  { <<Const("z", BoolOperand(a)), UnaryOp("t", "Not", Z), BinOp("x", fn, T, BoolOperand(b)),
      Return(X)>> : a, b \in BOOLEAN, fn \in {"And", "Or", "Equal"} }
  \cup
  { <<Const("z", N(3)), UnaryOp("t", "Negation", Z), BinOp("x", "Add", T, X), Return(X)>> }

Conditions ==
  { <<BinOp("t", "LessThan", X, Y)>>,
    <<Const("z", N(1)), BinOp("t", "GreaterThan", X, Z)>>,
    <<Const("z", N(1)), Const("t", BoolOperand(TRUE))>> }

Parts ==
  { <<Move("z", X), Move("x", Y), Move("y", Z)>>,
    <<BinOp("t", "Add", X, N(1)), Move("x", T)>>,
    <<Call("z", "g", <<Y>>), Move("y", Z)>>,
    <<Return(X)>>, <<Const("x", N(3)), Return(X), Call("z", "g", <<Z>>)>> }

If(c, a, b) ==
  c \o <<Branch(T, "label2", "label3"), Label("label2")>> \o a
    \o <<Jump("label1"), Label("label3")>> \o b \o <<Label("label1"), Return(Y)>>

While(c, a) ==
  <<Label("label1")>> \o c \o <<Branch(T, "label2", "label3"), Label("label2")>> \o a
    \o <<Jump("label1"), Label("label3"), Return(X)>>

MCFunctions ==
  StraightLines \cup Folding
  \cup { If(c, a, b) : c \in Conditions, a, b \in Parts \cup {<<>>} }
  \cup { While(c, a) : c \in Conditions, a \in Parts }

=============================================================================
