------------------------------ MODULE MCCompiler ------------------------------
(***************************************************************************)
(* Texts, on words of three bits, where the greatest literal is 3:         *)
(*   - every short sequence of pieces that meet in longer tokens;          *)
(*   - bodies of one expression: every short sequence of tokens, and each  *)
(*     pair of operators, with parentheses and unary operators around them;*)
(*   - programs that use every statement, and some that no phase, or only  *)
(*     a late one, refuses; each of the longer ones also with one token    *)
(*     left out;                                                           *)
(*   - every pair of some statements on two parameters.                    *)
(* No function has more than six names when it reaches the allocator,      *)
(* which then has two registers for them.                                  *)
(***************************************************************************)
EXTENDS Compiler, SequencesExt

MCReg == {"s1", "s2"}
MCIntArguments == {-1, 2}

MCLetters ==
  { "a", "b", "c", "d", "e", "f", "x", "y", "fn", "main", "int", "bool", "let", "if", "else",
    "then", "while", "send", "true", "false", "AND", "OR", "NOT", "is", "is_lt", "is_lte", "is_gt", "is_gte", "_lt" }

\* Tokens with a blank where two would otherwise be one.
Written(words) ==
  LET joins(a, b) == {a, b} \subseteq MCLetters \cup {"0", "1", "2", "3"}
  IN  FoldLeft(LAMBDA t, w : t \o (IF t # <<>> /\ joins(Last(t), w) THEN <<" ", w>> ELSE <<w>>),
               <<>>, words)

-----------------------------------------------------------------------------
Pieces ==
  SeqOf({"is", "_lt", "x", "1", ".", "-", ">", "/", "\n", "#"}, 3)
    \cup SeqOf({"1", ".", "/", "\n"}, 4)

Header(parameters) == <<"fn", "main", "(">> \o parameters \o <<")", "-", ">", "int", "{">>

Body(e) == Written(Header(<<>>) \o e \o <<";", "}">>)

Operators == {"+", "-", "*", "/", "is", "is_lt", "is_lte", "is_gt", "is_gte", "AND", "OR"}

Expressions ==
  SeqOf({"x", "2", "(", ")", "-", "is", ","}, 3)
    \cup UNION { { <<"x", a, "y", b, "3">>,
                   <<"x", a, "(", "y", b, "3", ")">>,
                   <<"-", "x", a, "NOT", "y", b, "-", "-", "3">> } : a, b \in Operators }
    \cup { <<"f", "(", ")">>, <<"f", "(", "x", "+", "1", ",", "y", ")", "*", "2">>,
           <<"f", "(", "f", "(", "(", "x", ")", ")", ",", ")">>, <<"f", "(", "x", "y", ")">>,
           <<"x", "=", "y">>, <<"1", "0">>, <<"1", ".">>, <<"2", "-", "1", ".", "0">> }

-----------------------------------------------------------------------------
X == <<"x", ":", "int">>
Send(e) == <<"send">> \o e \o <<";">>
Main(parameters, body) == Header(parameters) \o body \o <<"}">>

\* The callee of the programs below.
Divide ==
  <<"fn", "f", "(", "x", ":", "int", ",", "y", ":", "int", ")", "-", ">", "int", "{">>
    \o Send(<<"x", "/", "y">>) \o <<"}">>

Factorial ==
  Main(X, <<"if", "(", "x", "is_lte", "1", ")", "then", "{">> \o Send(<<"1">>)
            \o <<"}", "else", "{">> \o Send(<<"x", "*", "main", "(", "x", "-", "1", ")">>) \o <<"}">>)

Loop ==
  Main(X, <<"let", "y", ":", "int", "=", "0", ";", "while", "(", "y", "is_lt", "x", ")", "then", "{",
            "y", "=", "y", "+", "1", ";", "}">> \o Send(<<"y">>))

Chain ==
  Main(X \o <<",", "y", ":", "bool">>,
       <<"if", "(", "y", ")", "then", "{", "x", "=", "1", ";", "}",
         "else", "if", "(", "x", "is", "2", ")", "then", "{", "x", "=", "f", "(", "x", ",", "1", ")", ";", "}",
         "else", "if", "(", "NOT", "true", ")", "then", "{", "}",
         "else", "{">> \o Send(<<"3">>) \o <<"}">> \o Send(<<"-", "x">>))
    \o Divide

Calls ==
  Divide \o Main(X, <<"f", "(", "x", ",", "x", "-", "3", ")", ";">>
                      \o Send(<<"f", "(", "2", ",", "x", ")">>))

\* What two parameters can be used for: copied, exchanged, passed on, changed
\* on one path, needed after a return or around a loop.
Uses ==
  { <<"x", "=", "y", ";">>,
    <<"{", "let", "e", ":", "int", "=", "x", ";", "x", "=", "y", ";", "y", "=", "e", ";", "}">>,
    <<"main", "(", "y", ",", "x", ")", ";">>,
    <<"if", "(", "x", "is_lt", "y", ")", "then", "{", "x", "=", "y", ";", "}">>,
    <<"if", "(", "y", "is", "2", ")", "then", "{">> \o Send(<<"x">>) \o <<"}",
      "else", "{", "y", "=", "x", ";", "}">>,
    <<"while", "(", "x", "is_gt", "0", ")", "then", "{", "x", "=", "x", "-", "y", ";", "}">> }

TwoUses ==
  { Main(X \o <<",", "y", ":", "int">>, s \o t \o Send(<<"x", "-", "y">>)) : s, t \in Uses }

NineNames == <<"a", "b", "c", "d", "e", "f", "main", "x", "y">>

Whole ==
  { Factorial, Loop, Chain, Calls,
    \* No send at the end, and one too early.
    Main(X, <<"x", "=", "x", "+", "2", ";", "main", "(", "x", ")", ";">>),
    Main(X, <<"{">> \o Send(<<"x", "-", "1", "-", "1">>) \o <<"}", "x", "=", "2", ";">>),
    Main(X, <<"{", "let", "x", ":", "bool", "=", "true", ";", "}">> \o Send(<<"x">>)),
    Main(X, Send(<<"x", "/", "x">>)),
    \* Two parameters that may get one register.
    Main(<<"y", ":", "int", ",">> \o X,
         <<"if", "(", "y", "is_gt", "0", ")", "then", "{", "x", "=", "1", ";", "}",
           "else", "{", "x", "=", "2", ";", "}">> \o Send(<<"x">>)),
    \* Two values that only what follows their block reads.
    Main(<<"x", ":", "bool", ",", "y", ":", "int">>,
         <<"if", "(", "x", ")", "then", "{", "let", "f", ":", "int", "=", "y", ";", "y", "=", "2", ";",
           "if", "(", "x", ")", "then", "{", "x", "=", "false", ";", "}">>
           \o Send(<<"f", "-", "y">>) \o <<"}">> \o Send(<<"y">>)),
    \* A parameter whose only mention is optimized away (MCParameterLocation).
    Main(X \o <<",", "y", ":", "int">>,
         <<"let", "e", ":", "int", "=", "x", "-", "y", ";">> \o Send(<<"x">>)),
    \* Refused by the folder, by the code generator, by the type checker.
    Main(<<>>, Send(<<"1", "/", "0">>)),
    Main(<<>>, <<>>), Main(X, Send(<<"1">>)), Main(X, <<"x", "=", "2", ";">> \o Send(<<"1">>)),
    Main(<<>>, Send(<<"main", "(", "0">> \o FlattenSeq([k \in 1..8 |-> <<",", "0">>]) \o <<")">>)),
    Main(Tail(FlattenSeq([k \in 1..9 |-> <<",", NineNames[k], ":", "int">>])), Send(<<"1">>)),
    Main(X \o <<",">> \o X, Send(<<"x">>)),
    FlattenSeq([k \in 1..2 |-> Main(<<>>, Send(<<"1">>))]),
    Main(<<>>, Send(<<"true">>)), Divide, <<>> }

MCTexts ==
  Pieces
    \cup { Body(e) : e \in Expressions }
    \cup { Written(p) : p \in Whole \cup TwoUses }
    \cup { Written(RemoveAt(Factorial, k)) : k \in DOMAIN Factorial }
    \cup { Written(RemoveAt(Loop, k)) : k \in DOMAIN Loop }
    \cup { Written(RemoveAt(Chain, k)) : k \in DOMAIN Chain }
    \* Lines and comments between the tokens.
    \cup { <<"/", "/", "f", "\n", "fn", " ", "main", "(", ")", "-", ">", "\t", "int", "{", "\r", "\n",
             "send", " ", "1", "/", "/", "2", "\n", "-", "2", ";", "}", "/", "/">> }

=============================================================================
