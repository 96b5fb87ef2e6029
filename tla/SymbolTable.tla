------------------------------ MODULE SymbolTable ------------------------------
(***************************************************************************)
(* The symbol table (src/src/symbol_table.cpp): the signatures of all      *)
(* functions, and a stack of scopes, the innermost last, each a map from   *)
(* the names declared in it to their types. The kind of a symbol, local or *)
(* parameter, is never read and left out.                                  *)
(***************************************************************************)
EXTENDS Integers, SequencesExt

VARIABLES
  functions,   (* name -> return type and parameter types                 *)
  scopes       (* the stack of scopes                                     *)

NoSymbols == [x \in {} |-> ""]

EnterScope(symbols) == scopes' = Append(scopes, symbols)

\* Variant: the scope stays when its block has ended.
ExitNoScope == UNCHANGED scopes

ExitScope == scopes' = Front(scopes)

\* emplace: the symbol that is there stays.
DeclareVariable(x, type) ==
  scopes' = [scopes EXCEPT ![Len(scopes)] = @ @@ (x :> type)]

VariableExistsInCurrentScope(x) == scopes # <<>> /\ x \in DOMAIN Last(scopes)

\* The type of the innermost x, or no type.
LookupVariable(x) ==
  LET holding == { k \in DOMAIN scopes : x \in DOMAIN scopes[k] }
  IN  IF holding = {} THEN "none" ELSE scopes[Max(holding)][x]

FunctionExists(f) == f \in DOMAIN functions

=============================================================================
