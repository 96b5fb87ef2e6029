------------------------------- MODULE FrontEnd -------------------------------
(***************************************************************************)
(* Phases 4 to 6 of main.cpp: a program is type checked, and lowered when  *)
(* the type checker accepts it. Both walk the same tree, the type checker  *)
(* with scopes, the generator without.                                     *)
(***************************************************************************)
EXTENDS SourceSemantics

CONSTANTS
  Programs,    (* Sequences of functions, as the parser makes them.        *)
  IntArguments,   (* Words a caller passes for an int.                        *)
  LoopFuel,    (* Bound: iterations of loops that are followed.            *)
  Fuel         (* Bound: steps of an instruction list that are followed.   *)

VARIABLES
  program,
  functions, scopes, checking, work, verdict,               \* TypeChecker
  lowered, code, pending, busy, tempCounter, labelCounter   \* IRGenerator

checkVars == <<functions, scopes, checking, work, verdict>>
lowerVars == <<lowered, code, pending, busy, tempCounter, labelCounter>>
vars == <<program, checkVars, lowerVars>>

Checker == INSTANCE TypeChecker
Generator == INSTANCE IRGenerator

Init == Checker!Init /\ Generator!InitWork

CheckProgram == Checker!Next /\ UNCHANGED lowerVars

\* A throw of the type checker ends the compilation.
LowerProgram ==
  /\ verdict = "accepted"
  /\ Generator!Next
  /\ UNCHANGED checkVars

Next == CheckProgram \/ LowerProgram

Spec == Init /\ [][Next]_vars

Finished == verdict = "accepted" /\ Generator!Done

-----------------------------------------------------------------------------
OperandsPassed == { IntOperand(n) : n \in IntArguments } \cup { BoolOperand(b) : b \in BOOLEAN }

\* What a caller may pass to f.
Inputs(f) ==
  { env \in [ParameterNames(f) -> OperandsPassed] :
      \A k \in DOMAIN f.parameters : env[f.parameters[k].name].kind = f.parameters[k].type }

\* The instruction list does what the tree did, if that ended.
SameMeaning(c, env, outcome) ==
  outcome.status \in {"running", "returned"} =>
    LET after == Run(c, [x \in DOMAIN env |-> env[x].value], Fuel)
    IN  /\ after.pos > Len(c)
        /\ after.calls = outcome.calls /\ after.result = outcome.result

Temporaries == { Generator!Temp(n) : n \in 1..tempCounter }

-----------------------------------------------------------------------------
(***************************************************************************)
(* Properties.                                                             *)
(***************************************************************************)

\* No function of an accepted program ever asks for a name that is not in
\* scope or for a value of another type: the scopes of the type checker are
\* those of the execution.
TypesAreSound ==
  Finished =>
    \A k \in DOMAIN program : \A env \in Inputs(program[k]) :
      Outcome(program, program[k], env, LoopFuel).status # "wrong"

\* As long as no declaration hides another and no variable has the name of a
\* temporary, the list of each function makes the same calls and returns the
\* same value as its tree.
LoweringKeepsMeaning ==
  Finished =>
    \A k \in DOMAIN program : \A env \in Inputs(program[k]) :
      LET outcome == Outcome(program, program[k], env, LoopFuel)
      IN  ~outcome.hides /\ outcome.names \cap Temporaries = {} =>
            SameMeaning(lowered[k], env, outcome)

\* What the optimizer assumes of each list: jumps resolve, and, with the same
\* exceptions, operations get operands of the kind they are for; and since
\* labels are global in the assembly, no two functions have one in common.
LowersToCode ==
  Finished =>
    /\ \A c \in Range(lowered) : JumpsResolve(c) /\ ConstantsAreConstant(c) /\ OperandsAreValues(c)
    /\ \A k \in DOMAIN program : \A env \in Inputs(program[k]) :
         LET outcome == Outcome(program, program[k], env, LoopFuel)
         IN  ~outcome.hides /\ outcome.names \cap Temporaries = {} =>
               OperandsSuit(lowered[k], [x \in DOMAIN env |-> env[x].value], Fuel)
    /\ \A j, k \in DOMAIN lowered :
         j # k => LabelsIn(lowered[j]) \cap LabelsIn(lowered[k]) = {}

\* symbol_table.hpp:34-35: "variables appear and disappear as we enter and
\* exit blocks". A variable an inner block hides keeps its value.
BlocksKeepVariables ==
  Finished =>
    \A k \in DOMAIN program : \A env \in Inputs(program[k]) :
      LET outcome == Outcome(program, program[k], env, LoopFuel)
      IN  outcome.names \cap Temporaries = {} => SameMeaning(lowered[k], env, outcome)

=============================================================================
