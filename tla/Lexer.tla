---------------------------------- MODULE Lexer ----------------------------------
(***************************************************************************)
(* LexicalAnalyzer::tokenize (src/src/lexer.cpp): the text of a program    *)
(* cut into tokens, one action per iteration of its loop.                  *)
(*                                                                         *)
(* The code reads the text with an index from 0, the model from 1.         *)
(***************************************************************************)
EXTENDS Tokens

CONSTANTS
  Texts,    (* Sequences of characters.                                    *)
  Letters   (* The characters, and runs of them, that isAlpha holds of.    *)

VARIABLES
  input,      (* the text, read only                                      *)
  position,   (* of the next character                                    *)
  tokens      (* those made so far                                        *)

vars == <<input, position, tokens>>

keywords ==
  ("fn" :> "FN") @@ ("let" :> "LET") @@ ("int" :> "INT") @@ ("bool" :> "BOOL")
    @@ ("if" :> "IF") @@ ("else" :> "ELSE") @@ ("then" :> "THEN") @@ ("while" :> "WHILE")
    @@ ("send" :> "SEND") @@ ("true" :> "TRUE") @@ ("false" :> "FALSE")
    @@ ("AND" :> "AND") @@ ("OR" :> "OR") @@ ("NOT" :> "NOT") @@ ("is" :> "IS")
    @@ ("is_lt" :> "IS_LT") @@ ("is_lte" :> "IS_LTE")
    @@ ("is_gt" :> "IS_GT") @@ ("is_gte" :> "IS_GTE")

symbols ==
  ("+" :> "PLUS") @@ ("-" :> "MINUS") @@ ("*" :> "TIMES") @@ ("/" :> "DIVIDE")
    @@ ("(" :> "LEFT_PAREN") @@ (")" :> "RIGHT_PAREN") @@ ("{" :> "LEFT_BRACE")
    @@ ("}" :> "RIGHT_BRACE") @@ (";" :> "SEMICOLON") @@ (":" :> "COLON")
    @@ ("," :> "COMMA") @@ ("=" :> "ASSIGN")

IsWhitespace(c) == c \in {" ", "\t", "\n", "\r"}
IsAlpha(c) == c \in Letters
IsAlphaNumeric(c) == IsAlpha(c) \/ IsDigit(c)

Init == input \in Texts /\ position = 1 /\ tokens = <<>>

-----------------------------------------------------------------------------
Finished == tokens # <<>> /\ Last(tokens) = EndOfFile

Current == input[position]
Reading == position <= Len(input)
NextIs(c) == position < Len(input) /\ input[position + 1] = c

\* The first position from here on where the text ends or Stops holds.
Until(Stops(_)) ==
  LET stop == SelectInSubSeq(input, position, Len(input), Stops)
  IN  IF stop = 0 THEN Len(input) + 1 ELSE stop

SkipTo(p) == position' = p /\ UNCHANGED <<input, tokens>>

\* The characters before p become a token.
TakeTo(p, type) ==
  /\ tokens' = Append(tokens, Token(type, SubSeq(input, position, p - 1)))
  /\ position' = p
  /\ UNCHANGED input

AtComment == Current = "/" /\ NextIs("/")
AtArrow == Current = "-" /\ NextIs(">")

SkipWhitespace == Reading /\ IsWhitespace(Current) /\ SkipTo(position + 1)

\* Up to the end of the line, which is skipped as white space.
SkipComment == Reading /\ AtComment /\ SkipTo(Until(LAMBDA c : c = "\n"))

\* Variant: a word ends with the first run of letters.
WordEndsAtOnce == position + 1

\* getNextWord
WordEnd == Until(LAMBDA c : ~IsAlphaNumeric(c))

TakeWord ==
  /\ Reading /\ IsAlpha(Current)
  /\ LET word == Spelled(SubSeq(input, position, WordEnd - 1))
     IN  TakeTo(WordEnd, IF word \in DOMAIN keywords THEN keywords[word] ELSE "IDENT")

\* getNextNumber: digits and at most one point.
NumberEnd ==
  LET point == Until(LAMBDA c : ~IsDigit(c))
      rest == SelectInSubSeq(input, point + 1, Len(input), LAMBDA c : ~IsDigit(c))
  IN  IF point > Len(input) \/ input[point] # "." THEN point
      ELSE IF rest = 0 THEN Len(input) + 1 ELSE rest

TakeNumber == Reading /\ IsDigit(Current) /\ TakeTo(NumberEnd, "INTEGER_LITERAL")

TakeArrow == Reading /\ AtArrow /\ TakeTo(position + 2, "ARROW")

\* Variant: what is no token of the language is not passed over.
PastSymbol == IF Current \in DOMAIN symbols THEN position + 1 ELSE position

PastCharacter == position + 1

\* A character that starts nothing longer: a symbol, or no token of the language.
TakeCharacter ==
  /\ Reading
  /\ ~IsWhitespace(Current) /\ ~IsAlphaNumeric(Current) /\ ~AtComment /\ ~AtArrow
  /\ TakeTo(PastCharacter, IF Current \in DOMAIN symbols THEN symbols[Current] ELSE "INVALID")

EndText ==
  /\ ~Reading /\ ~Finished
  /\ tokens' = Append(tokens, EndOfFile)
  /\ UNCHANGED <<input, position>>

Next ==
  \/ SkipWhitespace \/ SkipComment
  \/ TakeWord \/ TakeNumber \/ TakeArrow \/ TakeCharacter
  \/ EndText

-----------------------------------------------------------------------------
(***************************************************************************)
(* What the tokens of a text should be: the text cut, from its start, into *)
(* the longest pieces that are something by themselves.                    *)
(***************************************************************************)
IsWord(s) == IsAlpha(s[1]) /\ \A k \in DOMAIN s : IsAlphaNumeric(s[k])

IsNumber(s) ==
  /\ IsDigit(s[1])
  /\ \A k \in DOMAIN s : IsDigit(s[k]) \/ s[k] = "."
  /\ \A j, k \in DOMAIN s : s[j] = "." /\ s[k] = "." => j = k

IsComment(s) == Len(s) > 1 /\ s[1] = "/" /\ s[2] = "/" /\ "\n" \notin Range(s)
IsArrow(s) == s = <<"-", ">">>

\* Any single character is a piece.
IsPiece(s) == Len(s) = 1 \/ IsWord(s) \/ IsNumber(s) \/ IsComment(s) \/ IsArrow(s)

Classified(s) ==
  CASE IsWord(s)   -> IF Spelled(s) \in DOMAIN keywords THEN keywords[Spelled(s)] ELSE "IDENT"
    [] IsNumber(s) -> "INTEGER_LITERAL"
    [] IsArrow(s)  -> "ARROW"
    [] OTHER       -> IF s[1] \in DOMAIN symbols THEN symbols[s[1]] ELSE "INVALID"

RECURSIVE LongestPieces(_)
LongestPieces(text) ==
  IF text = <<>> THEN <<>>
  ELSE LET n == Max({ k \in DOMAIN text : IsPiece(SubSeq(text, 1, k)) })
           piece == SubSeq(text, 1, n)
           rest == LongestPieces(SubSeq(text, n + 1, Len(text)))
       IN  IF IsComment(piece) \/ IsWhitespace(piece[1]) THEN rest
           ELSE <<Token(Classified(piece), piece)>> \o rest

=============================================================================
