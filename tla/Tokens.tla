--------------------------------- MODULE Tokens ---------------------------------
(***************************************************************************)
(* Tokens (src/include/token.hpp): a type and the characters it was made   *)
(* of. A text is a sequence of characters, where a run of letters that is  *)
(* never split, such as "while", may stand as one character.               *)
(***************************************************************************)
EXTENDS Integers, SequencesExt

Token(type, value) == [type |-> type, value |-> value]

\* The end of the text gives the token that no character does.
EndOfFile == Token("END_OF_FILE", <<>>)

\* The characters of a token in one string: the name an identifier stands for.
Spelled(value) == FoldLeft(LAMBDA s, c : s \o c, "", value)

digits == <<"0", "1", "2", "3", "4", "5", "6", "7", "8", "9">>
IsDigit(c) == c \in Range(digits)

\* What std::stoll makes of digits.
NumberOf(value) ==
  FoldLeft(LAMBDA n, c : 10 * n + (CHOOSE d \in 0..9 : digits[d + 1] = c), 0, value)

=============================================================================
