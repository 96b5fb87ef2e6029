--------------------------------- MODULE Parser ---------------------------------
(***************************************************************************)
(* The parser (src/src/parser.cpp): recursive descent over the tokens.     *)
(*                                                                         *)
(* The descent into statements is the stack open: what has been entered    *)
(* and not ended, the innermost last, which is a block. One action reads a *)
(* statement, or what it begins with when it holds blocks, or the end of a *)
(* block and what may follow it. Expressions are read within an action.    *)
(* What such a reading gives is a set, empty when it throws.               *)
(***************************************************************************)
EXTENDS Tokens, Ast

CONSTANT MaxInteger   (* The greatest number a literal may be: 2^63 - 1.   *)

VARIABLES
  tokens,     (* the output of the lexer, read only                       *)
  position,   (* of the next token                                        *)
  open,       (* what encloses it                                         *)
  program,    (* the functions parsed so far                              *)
  outcome     (* parsing, parsed or thrown                                *)

vars == <<tokens, position, open, program, outcome>>

InitWork == position = 1 /\ open = <<>> /\ program = <<>> /\ outcome = "parsing"

-----------------------------------------------------------------------------
(***************************************************************************)
(* Tokens. Nothing consumes the last one, so no parse goes past it; what   *)
(* checkNext finds behind it is of no type that is asked for.              *)
(***************************************************************************)
TypeAt(p) == IF p \in DOMAIN tokens THEN tokens[p].type ELSE "END_OF_FILE"
NameAt(p) == Spelled(tokens[p].value)

\* Calls of consume for these types do not throw.
Follows(p, types) == \A k \in DOMAIN types : TypeAt(p + k - 1) = types[k]

JKCTypes == [INT |-> "int", BOOL |-> "bool"]

\* parseType
TypeFollows(p) == TypeAt(p) \in DOMAIN JKCTypes
JKCTypeAt(p) == JKCTypes[TypeAt(p)]

-----------------------------------------------------------------------------
(***************************************************************************)
(* Expressions: their tree, and the position behind them.                  *)
(***************************************************************************)
Parsed(tree, p) == [tree |-> tree, next |-> p]

\* What has been read is followed by tokens of these types, which are consumed.
Before(parses, types) ==
  { Parsed(r.tree, r.next + Len(types)) : r \in { r \in parses : Follows(r.next, types) } }

\* parseOr, parseAnd, parseComparison, parseAddition, parseMultiplication.
OperatorsOf ==
  << [OR |-> "Or"],
     [AND |-> "And"],
     [IS |-> "Equal", IS_LT |-> "LessThan", IS_LTE |-> "LessThanEqual",
      IS_GT |-> "GreaterThan", IS_GTE |-> "GreaterThanEqual"],
     [PLUS |-> "Add", MINUS |-> "Subtract"],
     [TIMES |-> "Multiply", DIVIDE |-> "Divide"] >>

\* Variant: each rule calls itself for its right operand.
RightOperandOwn(level) == level

RightOperand(level) == level + 1

RECURSIVE ParseBinary(_, _), ParseOperators(_, _), ParseUnary(_), ParseArguments(_, _)

ParseExpression(p) == ParseBinary(1, p)

ParseBinary(level, p) ==
  IF level \notin DOMAIN OperatorsOf THEN ParseUnary(p)
  ELSE UNION { ParseOperators(level, left) : left \in ParseBinary(level + 1, p) }

\* The loop of each of the five.
ParseOperators(level, left) ==
  IF TypeAt(left.next) \notin DOMAIN OperatorsOf[level] THEN {left}
  ELSE LET op == OperatorsOf[level][TypeAt(left.next)]
       IN  UNION { ParseOperators(level, Parsed(BinaryExpr(left.tree, op, right.tree), right.next)) :
                   right \in ParseBinary(RightOperand(level), left.next + 1) }

\* stoll reads the digits before a point, which is then not all there was.
ParseInteger(p) ==
  LET value == tokens[p].value
  IN  IF "." \notin Range(value) /\ NumberOf(value) <= MaxInteger
        THEN {Parsed(IntegerLiteralExpr(NumberOf(value)), p + 1)} ELSE {}

ParsePrimary(p) ==
  CASE TypeAt(p) = "INTEGER_LITERAL"   -> ParseInteger(p)
    [] TypeAt(p) \in {"TRUE", "FALSE"} -> {Parsed(BoolLiteralExpr(TypeAt(p) = "TRUE"), p + 1)}
    [] TypeAt(p) = "IDENT"             -> {Parsed(VariableExpr(NameAt(p)), p + 1)}
    [] TypeAt(p) = "LEFT_PAREN"        -> Before(ParseExpression(p + 1), <<"RIGHT_PAREN">>)
    [] OTHER                           -> {}

ParseArguments(p, before) ==
  UNION { LET arguments == Append(before, e.tree)
          IN  IF TypeAt(e.next) = "COMMA" THEN ParseArguments(e.next + 1, arguments)
              ELSE {Parsed(arguments, e.next)} : e \in ParseExpression(p) }

ParseCall(p) ==
  IF ~Follows(p, <<"IDENT", "LEFT_PAREN">>) THEN ParsePrimary(p)
  ELSE LET given == IF TypeAt(p + 2) = "RIGHT_PAREN" THEN {Parsed(<<>>, p + 2)}
                    ELSE ParseArguments(p + 2, <<>>)
       IN  { Parsed(CallExpr(r.tree, NameAt(p)), r.next) : r \in Before(given, <<"RIGHT_PAREN">>) }

UnaryOperators == [NOT |-> "Not", MINUS |-> "Negation"]

ParseUnary(p) ==
  IF TypeAt(p) \notin DOMAIN UnaryOperators THEN ParseCall(p)
  ELSE { Parsed(UnaryExpr(r.tree, UnaryOperators[TypeAt(p)]), r.next) : r \in ParseUnary(p + 1) }

-----------------------------------------------------------------------------
(***************************************************************************)
(* Statements.                                                             *)
(***************************************************************************)
Parsing == outcome = "parsing"
Begins(type) == Parsing /\ open # <<>> /\ TypeAt(position) = type

\* The statements of a block that has been entered.
Block(statements) == [is |-> "block", statements |-> statements]

Throw == outcome' = "thrown" /\ UNCHANGED <<tokens, position, open, program>>

Goto(p, stack) == open' = stack /\ position' = p /\ UNCHANGED <<tokens, program, outcome>>

\* A statement is added to the innermost block.
WithStatement(stack, s) == [stack EXCEPT ![Len(stack)].statements = Append(@, s)]

\* The statement that holds this expression is complete, or the parse throws.
Completed(parses, StatementOf(_)) ==
  LET ended == Before(parses, <<"SEMICOLON">>)
  IN  IF ended = {} THEN Throw
      ELSE \E r \in ended : Goto(r.next, WithStatement(open, StatementOf(r.tree)))

\* What these hold has been entered, or the parse has thrown.
Entered(parses, StackOf(_)) ==
  IF parses = {} THEN Throw ELSE \E r \in parses : Goto(r.next, StackOf(r.tree))

ParseLetStatement ==
  /\ Begins("LET")
  /\ IF /\ Follows(position + 1, <<"IDENT", "COLON">>)
        /\ TypeFollows(position + 3) /\ TypeAt(position + 4) = "ASSIGN"
       THEN Completed(ParseExpression(position + 5),
                      LAMBDA e : LetStmt(NameAt(position + 1), JKCTypeAt(position + 3), e))
       ELSE Throw

ParseSendStatement ==
  /\ Begins("SEND")
  /\ Completed(ParseExpression(position + 1), SendStmt)

ParseBlockStatement ==
  /\ Begins("LEFT_BRACE")
  /\ Goto(position + 1, Append(open, Block(<<>>)))

\* "(" Expr ")" "then" and the brace of a block.
ParseCondition(p) ==
  IF TypeAt(p) # "LEFT_PAREN" THEN {}
  ELSE Before(ParseExpression(p + 1), <<"RIGHT_PAREN", "THEN", "LEFT_BRACE">>)

ParseWhileStatement ==
  /\ Begins("WHILE")
  /\ Entered(ParseCondition(position + 1),
             LAMBDA e : open \o <<[is |-> "while", condition |-> e], Block(<<>>)>>)

\* A branch of an if has been entered, after these.
Branching(branches, e) == <<[is |-> "branch", branches |-> branches, condition |-> e], Block(<<>>)>>

ParseIfStatement ==
  /\ Begins("IF")
  /\ Entered(ParseCondition(position + 1), LAMBDA e : open \o Branching(<<>>, e))

ParseAssignStatement ==
  /\ Begins("IDENT") /\ TypeAt(position + 1) = "ASSIGN"
  /\ Completed(ParseExpression(position + 2), LAMBDA e : AssignStmt(NameAt(position), e))

\* What begins no other statement and does not end the block.
ParseExprStatement ==
  /\ Parsing /\ open # <<>>
  /\ TypeAt(position) \notin
       {"LET", "SEND", "WHILE", "IF", "LEFT_BRACE", "RIGHT_BRACE", "END_OF_FILE"}
  /\ ~Follows(position, <<"IDENT", "ASSIGN">>)
  /\ Completed(ParseExpression(position), ExprStmt)

-----------------------------------------------------------------------------
(***************************************************************************)
(* The end of a block.                                                     *)
(***************************************************************************)
Body == Last(open).statements
Around == Front(open)
BlockEnds(what) == Begins("RIGHT_BRACE") /\ Last(Around).is = what

\* A statement that held the block is complete.
Ended(s) == Goto(position + 1, WithStatement(Front(Around), s))

EndBlockStatement ==
  /\ BlockEnds("block")
  /\ Goto(position + 1, WithStatement(Around, BlockStmt(Body)))

EndWhileStatement ==
  /\ BlockEnds("while")
  /\ Ended(WhileStmt(Last(Around).condition, Body))

EndBranch ==
  /\ BlockEnds("branch")
  /\ LET branches == Append(Last(Around).branches, IfBranch(Last(Around).condition, Body))
         else == TypeAt(position + 1) = "ELSE"
         elseIf == else /\ TypeAt(position + 2) = "IF"
         elseBlock == IF TypeAt(position + 2) = "LEFT_BRACE" THEN {Parsed(<<>>, position + 3)} ELSE {}
     IN  IF elseIf THEN Entered(ParseCondition(position + 3),
                                LAMBDA e : Front(Around) \o Branching(branches, e))
         ELSE IF else THEN Entered(elseBlock,
                LAMBDA e : Front(Around) \o <<[is |-> "else", branches |-> branches], Block(e)>>)
         ELSE Ended(IfStmt(branches, <<>>))

EndElse ==
  /\ BlockEnds("else")
  /\ Ended(IfStmt(Last(Around).branches, <<Body>>))

\* The block loop stops at the end of the text, where no brace is found.
BlockUnended == Begins("END_OF_FILE") /\ Throw

-----------------------------------------------------------------------------
(***************************************************************************)
(* Functions.                                                              *)
(***************************************************************************)
RECURSIVE ParseParameters(_, _)
ParseParameters(p, before) ==
  IF ~Follows(p, <<"IDENT", "COLON">>) \/ ~TypeFollows(p + 2) THEN {}
  ELSE LET parameters == Append(before, Parameter(NameAt(p), JKCTypeAt(p + 2)))
       IN  IF TypeAt(p + 3) = "COMMA" THEN ParseParameters(p + 4, parameters)
           ELSE {Parsed(parameters, p + 3)}

\* What stands before the type of a function: its name and its parameters.
ParseSignature(p) ==
  IF ~Follows(p, <<"FN", "IDENT", "LEFT_PAREN">>) THEN {}
  ELSE LET given == IF TypeAt(p + 3) = "RIGHT_PAREN" THEN {Parsed(<<>>, p + 3)}
                    ELSE ParseParameters(p + 3, <<>>)
       IN  Before(given, <<"RIGHT_PAREN", "ARROW">>)

ParseFunction ==
  /\ Parsing /\ open = <<>> /\ TypeAt(position) # "END_OF_FILE"
  /\ LET parses == { r \in ParseSignature(position) :
                       TypeFollows(r.next) /\ TypeAt(r.next + 1) = "LEFT_BRACE" }
     IN  IF parses = {} THEN Throw
         ELSE \E r \in parses :
           Goto(r.next + 2,
                << [ is |-> "function", name |-> NameAt(position + 1), parameters |-> r.tree,
                     returnType |-> JKCTypeAt(r.next) ],
                   Block(<<>>) >>)

EndFunction ==
  /\ BlockEnds("function")
  /\ LET f == Last(Around)
     IN  program' = Append(program, FunctionDec(f.name, f.parameters, f.returnType, Body))
  /\ open' = <<>> /\ position' = position + 1
  /\ UNCHANGED <<tokens, outcome>>

EndProgram ==
  /\ Parsing /\ open = <<>> /\ TypeAt(position) = "END_OF_FILE"
  /\ outcome' = "parsed"
  /\ UNCHANGED <<tokens, position, open, program>>

Next ==
  \/ ParseFunction \/ EndFunction \/ EndProgram
  \/ ParseLetStatement \/ ParseSendStatement \/ ParseAssignStatement \/ ParseExprStatement
  \/ ParseBlockStatement \/ ParseWhileStatement \/ ParseIfStatement
  \/ EndBlockStatement \/ EndWhileStatement \/ EndBranch \/ EndElse \/ BlockUnended

=============================================================================
