-------------------------------- MODULE Grammar --------------------------------
(***************************************************************************)
(* The grammar of JKC and its precedence rules, as JKCexample.txt states   *)
(* them: what the parser is measured against.                              *)
(*                                                                         *)
(* Each operator is a nonterminal: the set of trees that derive the tokens *)
(* from i to j. Binary operators associate to the left, and a literal is   *)
(* an integer of 64 bits: "types: int (64-bit int)".                       *)
(***************************************************************************)
EXTENDS Tokens, Ast

CONSTANT MaxInteger   (* The greatest integer. *)

VARIABLE tokens

At(i) == IF i \in DOMAIN tokens THEN tokens[i].type ELSE "nothing"
NameOf(i) == Spelled(tokens[i].value)
Matches(i, types) == \A k \in DOMAIN types : At(i + k - 1) = types[k]

\* The trees of a production, where its terminals are there.
Where(terminals, trees) == IF terminals THEN trees ELSE {}

\* Sequences of one of these and then those.
Then(heads, tails) == UNION { { <<h>> \o t : t \in tails } : h \in heads }

\* Positions from i to j of some tokens.
Of(types, i, j) == { k \in i..j : At(k) \in types }

TypeName == [INT |-> "int", BOOL |-> "bool"]

-----------------------------------------------------------------------------
(***************************************************************************)
(* Expressions, from those any operator may stand in to those none may.    *)
(***************************************************************************)
Rule ==
  [ OR |-> 7, AND |-> 6, IS |-> 5, IS_LT |-> 5, IS_LTE |-> 5, IS_GT |-> 5, IS_GTE |-> 5,
    PLUS |-> 4, MINUS |-> 4, TIMES |-> 3, DIVIDE |-> 3 ]

Meaning ==
  [ OR |-> "Or", AND |-> "And", IS |-> "Equal", IS_LT |-> "LessThan", IS_LTE |-> "LessThanEqual",
    IS_GT |-> "GreaterThan", IS_GTE |-> "GreaterThanEqual",
    PLUS |-> "Add", MINUS |-> "Subtract", TIMES |-> "Multiply", DIVIDE |-> "Divide" ]

RECURSIVE ExprUpTo(_, _, _), Unary(_, _), Arguments(_, _)

\* No expression holds a statement, so that a search can stop there.
Expr(i, j) == Where(Of({"SEMICOLON", "LEFT_BRACE"}, i, j) = {}, ExprUpTo(7, i, j))

\* Expressions whose operators are of this rule or of one that binds closer.
ExprUpTo(rule, i, j) ==
  IF rule = 2 THEN Unary(i, j)
  ELSE ExprUpTo(rule - 1, i, j)
         \cup UNION { { BinaryExpr(l, Meaning[At(k)], r) :
                          l \in ExprUpTo(rule, i, k - 1), r \in ExprUpTo(rule - 1, k + 1, j) } :
                      k \in Of({ t \in DOMAIN Rule : Rule[t] = rule }, i + 1, j - 1) }

Literal(i) ==
  LET value == tokens[i].value
  IN  Where(Range(value) \subseteq Range(digits) /\ NumberOf(value) <= MaxInteger,
            {IntegerLiteralExpr(NumberOf(value))})

Atom(i) ==
  CASE At(i) = "INTEGER_LITERAL"   -> Literal(i)
    [] At(i) \in {"TRUE", "FALSE"} -> {BoolLiteralExpr(At(i) = "TRUE")}
    [] At(i) = "IDENT"             -> {VariableExpr(NameOf(i))}
    [] OTHER                       -> {}

Primary(i, j) ==
  Where(i = j, Atom(i))
    \cup Where(At(i) = "LEFT_PAREN" /\ At(j) = "RIGHT_PAREN", Expr(i + 1, j - 1))
    \cup Where(Matches(i, <<"IDENT", "LEFT_PAREN">>) /\ At(j) = "RIGHT_PAREN",
               { CallExpr(es, NameOf(i)) :
                   es \in Where(j = i + 2, {<<>>}) \cup Arguments(i + 2, j - 1) })

Unary(i, j) ==
  Where(i <= j,
    Primary(i, j)
      \cup Where(At(i) = "NOT", { UnaryExpr(e, "Not") : e \in Unary(i + 1, j) })
      \cup Where(At(i) = "MINUS", { UnaryExpr(e, "Negation") : e \in Unary(i + 1, j) }))

\* One or more, with commas between them.
Arguments(i, j) ==
  { <<e>> : e \in Expr(i, j) }
    \cup UNION { Then(Expr(i, k - 1), Arguments(k + 1, j)) : k \in Of({"COMMA"}, i, j) }

-----------------------------------------------------------------------------
(***************************************************************************)
(* Statements.                                                             *)
(***************************************************************************)
RECURSIVE Statements(_, _), Branches(_, _)

Block(i, j) ==
  Where(i < j /\ At(i) = "LEFT_BRACE" /\ At(j) = "RIGHT_BRACE", Statements(i + 1, j - 1))

\* "(" Expr ")" "then" Block
Guarded(i, j) ==
  Where(At(i) = "LEFT_PAREN",
    UNION { { IfBranch(e, b) : e \in Expr(i + 1, k - 1), b \in Block(k + 2, j) } :
            k \in { k \in Of({"RIGHT_PAREN"}, i, j) : At(k + 1) = "THEN" } })

\* Guarded ("else" "if" Guarded)*
Branches(i, j) ==
  { <<b>> : b \in Guarded(i, j) }
    \cup UNION { Then(Guarded(i, k - 1), Branches(k + 2, j)) :
                 k \in { k \in Of({"ELSE"}, i, j) : At(k + 1) = "IF" } }

IfStmts(i, j) ==
  { IfStmt(bs, <<>>) : bs \in Branches(i + 1, j) }
    \cup UNION { UNION { { IfStmt(bs, <<b>>) : bs \in Branches(i + 1, k - 1) } :
                         b \in Block(k + 1, j) } :
                 k \in Of({"ELSE"}, i, j) }

Declaration(i) ==
  Matches(i, <<"LET", "IDENT", "COLON">>) /\ At(i + 3) \in DOMAIN TypeName /\ At(i + 4) = "ASSIGN"

\* The statements that end in ";", without it.
Plain(i, j) ==
  Where(Declaration(i), { LetStmt(NameOf(i + 1), TypeName[At(i + 3)], e) : e \in Expr(i + 5, j) })
    \cup Where(Matches(i, <<"IDENT", "ASSIGN">>),
               { AssignStmt(NameOf(i), e) : e \in Expr(i + 2, j) })
    \cup Where(At(i) = "SEND", { SendStmt(e) : e \in Expr(i + 1, j) })
    \cup { ExprStmt(e) : e \in Expr(i, j) }

Statement(i, j) ==
  Where(At(j) = "SEMICOLON", Plain(i, j - 1))
    \cup Where(At(i) = "IF", IfStmts(i, j))
    \cup Where(At(i) = "WHILE", { WhileStmt(g.condition, g.body) : g \in Guarded(i + 1, j) })
    \cup { BlockStmt(b) : b \in Block(i, j) }

Statements(i, j) ==
  Where(i > j, {<<>>})
    \cup UNION { Then(Statement(i, k), Statements(k + 1, j)) :
                 k \in Of({"SEMICOLON", "RIGHT_BRACE"}, i, j) }

-----------------------------------------------------------------------------
(***************************************************************************)
(* Functions.                                                              *)
(***************************************************************************)
RECURSIVE Parameters(_, _), Functions(_, _)

\* One or more, with commas between them.
Parameters(i, j) ==
  Where(Matches(i, <<"IDENT", "COLON">>) /\ At(i + 2) \in DOMAIN TypeName,
    LET p == Parameter(NameOf(i), TypeName[At(i + 2)])
    IN  Where(j = i + 2, {<<p>>})
          \cup Where(At(i + 3) = "COMMA" /\ j > i + 3, Then({p}, Parameters(i + 4, j))))

Function(i, j) ==
  UNION { { FunctionDec(NameOf(i + 1), ps, TypeName[At(k + 2)], b) :
              ps \in Where(k = i + 3, {<<>>}) \cup Parameters(i + 3, k - 1), b \in Block(k + 3, j) } :
          k \in { k \in Of({"RIGHT_PAREN"}, i + 3, j) :
                    /\ Matches(i, <<"FN", "IDENT", "LEFT_PAREN">>)
                    /\ At(k + 1) = "ARROW" /\ At(k + 2) \in DOMAIN TypeName } }

Functions(i, j) ==
  Where(i > j, {<<>>})
    \cup UNION { Then(Function(i, k), Functions(k + 1, j)) : k \in Of({"RIGHT_BRACE"}, i, j) }

\* The trees of the whole text, whose last token is its end.
Programs == Functions(1, Len(tokens) - 1)

=============================================================================
