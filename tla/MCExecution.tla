------------------------------ MODULE MCExecution ------------------------------
(***************************************************************************)
(* Functions of two parameters on words of three bits, under every         *)
(* placement of their names in two registers and the stack that keeps      *)
(* interfering names apart: the allocator spills when its pool is small,   *)
(* so what a larger function would do with eleven registers is among them. *)
(* The functions use each operator, pass arguments that must be loaded,    *)
(* loop, branch, recurse, return twice and run off the end.                *)
(***************************************************************************)
EXTENDS Execution, Bitwise

MCBitXor(l, r) == l ^^ r
MCBitAnd(l, r) == l & r
MCBitOr(l, r) == l | r
MCSavedReg == {"s1", "s2"}
MCKept == [s1 |-> 11, s2 |-> 12, ra |-> 13]
MCArguments == {-4, -1, 0, 3}
MCCallResults == {1, -2}

X == Name("x")
Y == Name("y")
Z == Name("z")
N(n) == IntOperand(n)

Operators == {"Add", "Subtract", "Multiply", "Divide", "Equal", "LessThan",
              "LessThanEqual", "GreaterThan", "GreaterThanEqual"}

Operating == { <<BinOp("z", fn, X, Y), Return(Z)>> : fn \in Operators }

\* Here y, t and z hold truth values, one of them passed and one returned.
Logic == { <<BinOp("t", "LessThan", X, N(0)), Call("z", "g", <<X>>),
             BinOp("z", fn, Name("t"), Z), UnaryOp("t", "Not", Z),
             BinOp("z", fn, Y, Name("t")), Return(Z)>> : fn \in {"And", "Or"} }

Negating == <<UnaryOp("z", "Negation", Y), BinOp("z", "Subtract", N(1), Z),
              BinOp("y", "Add", X, Z), Return(Y)>>

Looping == <<Const("z", N(0)), Label("label1"), BinOp("t", "LessThan", X, Y),
             Branch(Name("t"), "label2", "label3"), Label("label2"),
             BinOp("x", "Add", X, N(1)), BinOp("z", "Add", Z, X), Jump("label1"),
             Label("label3"), Return(Z)>>

Swapping == <<BinOp("t", "GreaterThan", X, Y), Branch(Name("t"), "label2", "label3"),
              Label("label2"), Move("z", X), Move("x", Y), Move("y", Z),
              Jump("label1"), Label("label3"), Return(N(1)), Label("label1"),
              BinOp("z", "Subtract", Y, X), Return(Z)>>

Calling == <<Call("z", "f", <<N(2), Y, X, Y>>), Call("y", "g", <<Z, Y>>),
             BinOp("z", "Add", Z, Y), Return(Z)>>

Recursive == <<BinOp("t", "LessThanEqual", X, N(1)), Branch(Name("t"), "label2", "label3"),
               Label("label2"), Return(Y), Label("label3"),
               BinOp("z", "Subtract", X, N(1)), Call("t", "f", <<Z, Y>>),
               BinOp("z", "Multiply", X, Name("t")), Return(Z)>>

Unfinished == <<BinOp("x", "Add", X, Y), Call("z", "f", <<X>>)>>

Bodies == Operating \cup Logic \cup {Negating, Looping, Swapping, Calling, Recursive, Unfinished}

-----------------------------------------------------------------------------
\* The interference graph of a function, as the passes before compute it.
Interfering(c) ==
  LET names == NamesOf(c)
      before == LiveBefore(c, names)
      after(p) == UNION { before[q] : q \in FlowsTo(c, p) }
      clash == UNION { { {d, y} : d \in GetDestination(c[p]), y \in after(p) } : p \in DOMAIN c }
      entry == { {x, y} : x, y \in before[1] }
  IN  { e \in clash \cup entry : Cardinality(e) = 2 }

Placements(c) ==
  { pl \in [NamesOf(c) -> MCSavedReg \cup {"stack"}] :
      \A e \in Interfering(c) : \A x, y \in e :
        x # y => pl[x] = "stack" \/ pl[x] # pl[y] }

Compile(c, parameters, pl) ==
  LET spilled == { x \in DOMAIN pl : pl[x] = "stack" }
  IN  [ parameters |-> parameters, code |-> c, spilled |-> spilled,
        booleans |-> IF c \in Logic THEN {"y", "t", "z"} ELSE {},
        registers |-> [x \in DOMAIN pl \ spilled |-> pl[x]] ]

\* The parameters of these functions are all read before they are written,
\* so they interfere and have places of their own.
MCCompiled ==
  UNION { { Compile(c, <<"x", "y">>, pl) : pl \in Placements(c) } : c \in Bodies }

ASSUME MCParametersAreApart == \A g \in MCCompiled : ParametersApart(g)

=============================================================================
