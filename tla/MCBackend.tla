------------------------------ MODULE MCBackend ------------------------------
(***************************************************************************)
(* Functions of the shapes IRGenerate makes of an if with an else and of a *)
(* while, around statement bodies that create pressure on two registers,   *)
(* and a few straight lines: the empty function, one without a return, one *)
(* with three parameters live at once.                                     *)
(***************************************************************************)
EXTENDS Backend

CONSTANTS r1, r2

MCVar == {"x", "y", "z", "t1"}
MCReg == {r1, r2}

Set(d, n) == Const(d, IntOperand(n))
Copy(d, s) == Move(d, Name(s))
Add(d, a, b) == BinOp(d, "Add", Name(a), Name(b))

Starts == { <<>>, <<Set("x", 1)>>, <<Set("x", 1), Set("y", 2)>> }

Bodies ==
  { <<Copy("z", "y")>>,
    <<Copy("z", "x"), Copy("x", "y"), Copy("y", "z")>>,
    <<Add("x", "y", "z")>>,
    <<Call("y", "f", <<Name("x"), IntOperand(1)>>)>>,
    <<Return(Name("x"))>> }

\* What the remover leaves of a body that a jump follows.
ThenJump(body, l) ==
  IF IsTerminator(body[Len(body)]) THEN body ELSE Append(body, Jump(l))

Less == BinOp("t1", "LessThan", Name("x"), Name("y"))

If(a, b, c) ==
  a \o <<Less, Branch(Name("t1"), "label2", "label3"), Label("label2")>>
    \o ThenJump(b, "label1") \o <<Label("label3")>> \o c
    \o <<Label("label1"), Return(Name("y"))>>

While(a, b) ==
  a \o <<Label("label1"), Less, Branch(Name("t1"), "label2", "label3"), Label("label2")>>
    \o ThenJump(b, "label1") \o <<Label("label3"), Return(Name("z"))>>

Straight ==
  { <<>>,
    <<Set("x", 1)>>,
    <<Add("x", "x", "y"), Add("x", "x", "z"), Return(Name("x"))>>,
    <<Call("x", "f", <<Name("y"), Name("z"), Name("x")>>), Return(Name("y"))>> }

MCFunctions ==
  { If(a, b, c) : a \in Starts, b \in Bodies, c \in Bodies \cup {<<>>} }
  \cup { While(a, b) : a \in Starts, b \in Bodies }
  \cup Straight

=============================================================================
