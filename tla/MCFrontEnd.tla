------------------------------ MODULE MCFrontEnd ------------------------------
(***************************************************************************)
(* Programs of main, with an int x and a bool p, and two functions it may  *)
(* call. The bodies of main are straight lines, blocks, whiles and ifs     *)
(* with and without else-if and else, over statements that declare, assign *)
(* and hide names, call, return early and, some of them, do not type.      *)
(***************************************************************************)
EXTENDS FrontEnd

MCIntArguments == {-4, 0, 3}

N(n) == IntegerLiteralExpr(n)
X == VariableExpr("x")
P == VariableExpr("p")
Z == VariableExpr("z")
Plus(l, r) == BinaryExpr(l, "Add", r)
Less(l, r) == BinaryExpr(l, "LessThan", r)
F(args) == CallExpr(args, "f")
G(args) == CallExpr(args, "g")

Callees ==
  << FunctionDec("f", <<Parameter("a", "int"), Parameter("b", "int")>>, "int",
       << WhileStmt(Less(VariableExpr("a"), N(2)),
                    <<AssignStmt("a", Plus(VariableExpr("a"), N(1)))>>),
          SendStmt(BinaryExpr(VariableExpr("a"), "Divide", VariableExpr("b"))) >>),
     FunctionDec("g", <<Parameter("b", "bool")>>, "bool",
       <<SendStmt(UnaryExpr(VariableExpr("b"), "Not"))>>) >>

Simple ==
  { LetStmt("z", "int", Plus(X, N(1))), LetStmt("z", "bool", Less(X, N(2))),
    LetStmt("z", "int", F(<<X, Plus(X, X)>>)), LetStmt("z", "bool", G(<<P>>)),
    LetStmt("z", "int", P), LetStmt("x", "int", N(2)), LetStmt("z", "int", Z),
    AssignStmt("x", UnaryExpr(X, "Negation")), AssignStmt("x", Z), AssignStmt("z", N(1)),
    AssignStmt("p", BinaryExpr(P, "And", G(<<Less(N(0), X)>>))),
    ExprStmt(F(<<X, P>>)), ExprStmt(F(<<F(<<N(3), X>>), N(2)>>)), SendStmt(X), SendStmt(Z) }

Few == { LetStmt("z", "int", N(1)), AssignStmt("x", N(3)), AssignStmt("z", X), SendStmt(Z),
         ExprStmt(F(<<X, Z>>)), LetStmt("t1", "int", N(0)) }

Conditions == { P, Less(X, N(2)), Less(Z, X), UnaryExpr(G(<<P>>), "Not"), X }

Bodies == { <<s>> : s \in Few } \cup { <<>> }
  \cup { <<LetStmt("z", "int", Plus(X, N(1))), AssignStmt("x", Z)>>,
         <<BlockStmt(<<LetStmt("z", "int", X)>>), AssignStmt("z", N(2))>> }

Compound ==
  { BlockStmt(b) : b \in Bodies }
  \cup { WhileStmt(c, b) : c \in Conditions, b \in Bodies }
  \cup { IfStmt(<<IfBranch(c, b)>>, else) : c \in {P, X}, b \in Bodies,
           else \in {<<>>, <<<<AssignStmt("x", N(-1))>>>>, <<<<SendStmt(P)>>>>} }
  \cup { IfStmt(<<IfBranch(P, <<s>>), IfBranch(c, <<t>>)>>, else) :
           c \in Conditions, s, t \in Few, else \in {<<>>, <<<<AssignStmt("x", N(-1))>>>>} }

Starts == { <<>>, <<LetStmt("z", "int", N(2))>> }

Mains ==
  { <<a, b, SendStmt(X)>> : a, b \in Simple }
  \cup { start \o <<c, SendStmt(e)>> : start \in Starts, c \in Compound, e \in {X, Z} }
  \cup { <<c>> : c \in Compound }

Main(body) == FunctionDec("main", <<Parameter("x", "int"), Parameter("p", "bool")>>, "int", body)

\* And programs that are rejected before any statement is looked at.
MCPrograms ==
  { <<Main(body)>> \o Callees : body \in Mains }
  \cup { Callees, <<Main(<<>>), Main(<<>>)>>,
         <<FunctionDec("main", <<Parameter("x", "int"), Parameter("x", "bool")>>, "int", <<>>)>> }

=============================================================================
