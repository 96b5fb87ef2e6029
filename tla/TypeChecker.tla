------------------------------ MODULE TypeChecker ------------------------------
(***************************************************************************)
(* The type checker (src/src/type_checker.cpp), over the symbol table.     *)
(*                                                                         *)
(* The recursion over statements is a list of the work still to do, first  *)
(* things first: one action checks one statement and puts its parts, and   *)
(* the end of the scope it opens, in front. A throw rejects the program.   *)
(***************************************************************************)
EXTENDS Ast, SymbolTable

CONSTANT Programs   (* Sequences of functions, as the parser makes them.   *)

VARIABLES
  program,    (* the functions                                            *)
  checking,   (* how many functions have been entered                     *)
  work,       (* statements, conditions and ends of scopes to be checked  *)
  verdict     (* declaring, checking, accepted or rejected                *)

vars == <<functions, scopes, program, checking, work, verdict>>

Condition(e) == [is |-> "condition", expr |-> e]
EndOfScope == [is |-> "end"]

InitWork ==
  /\ functions = NoSymbols /\ scopes = <<>>
  /\ checking = 0 /\ work = <<>>
  /\ verdict = "declaring"

Init == program \in Programs /\ InitWork

-----------------------------------------------------------------------------
(***************************************************************************)
(* Expressions: their type, or none where the code throws.                 *)
(***************************************************************************)
RECURSIVE TypeOf(_)
TypeOf(e) ==
  CASE e.is = "literal"  -> e.value.kind
    [] e.is = "variable" -> LookupVariable(e.name)
    [] e.is = "unary"    ->
         IF TypeOf(e.operand) = OperandType(e.op) THEN ResultType(e.op) ELSE "none"
    [] e.is = "binary"   ->
         IF TypeOf(e.left) = OperandType(e.op) /\ TypeOf(e.right) = OperandType(e.op)
           THEN ResultType(e.op) ELSE "none"
    [] e.is = "call"     ->
         IF /\ FunctionExists(e.funcName)
            /\ functions[e.funcName].paramTypes
                 = [k \in DOMAIN e.arguments |-> TypeOf(e.arguments[k])]
           THEN functions[e.funcName].type ELSE "none"

-----------------------------------------------------------------------------
(***************************************************************************)
(* Statements.                                                             *)
(***************************************************************************)
Doing(what) == verdict = "checking" /\ work # <<>> /\ work[1].is = what
Task == work[1]

Reject == verdict' = "rejected" /\ UNCHANGED <<functions, scopes, program, checking, work>>

\* The task is done once these are.
Proceed(tasks) ==
  /\ work' = tasks \o Tail(work)
  /\ UNCHANGED <<functions, program, checking, verdict>>

CheckLetStmt ==
  /\ Doing("let")
  /\ IF ~VariableExistsInCurrentScope(Task.name) /\ TypeOf(Task.initializer) = Task.decType
       THEN Proceed(<<>>) /\ DeclareVariable(Task.name, Task.decType)
       ELSE Reject

\* What a statement that declares nothing asks for.
Accepts(s) ==
  CASE s.is = "assign"    -> /\ LookupVariable(s.name) # "none"
                             /\ TypeOf(s.initializer) = LookupVariable(s.name)
    [] s.is = "send"      -> TypeOf(s.initializer) = program[checking].returnType
    [] s.is = "expr"      -> TypeOf(s.initializer) # "none"
    [] s.is = "condition" -> TypeOf(s.expr) = "bool"

CheckPlainStmt ==
  /\ \E what \in {"assign", "send", "expr", "condition"} : Doing(what)
  /\ IF Accepts(Task) THEN Proceed(<<>>) /\ UNCHANGED scopes ELSE Reject

CheckWhileStmt ==
  /\ Doing("while")
  /\ Proceed(<<Condition(Task.condition), BlockStmt(Task.body)>>)
  /\ UNCHANGED scopes

CheckIfStmt ==
  /\ Doing("if")
  /\ LET branch(b) == <<Condition(b.condition), BlockStmt(b.body)>>
         bodies == [k \in DOMAIN Task.branches |-> branch(Task.branches[k])]
         else == [k \in DOMAIN Task.elseBody |-> BlockStmt(Task.elseBody[k])]
     IN  Proceed(FlattenSeq(bodies) \o else)
  /\ UNCHANGED scopes

CheckBlockStmt ==
  /\ Doing("block")
  /\ EnterScope(NoSymbols)
  /\ Proceed(Append(Task.statements, EndOfScope))

LeaveScope ==
  /\ Doing("end")
  /\ ExitScope
  /\ Proceed(<<>>)

-----------------------------------------------------------------------------
(***************************************************************************)
(* Functions.                                                              *)
(***************************************************************************)
Distinct(names) == \A j, k \in DOMAIN names : names[j] = names[k] => j = k

DeclareFunctions ==
  /\ verdict = "declaring"
  /\ LET names == [k \in DOMAIN program |-> program[k].name]
         signature(f) == [ type |-> f.returnType,
                           paramTypes |-> [k \in DOMAIN f.parameters |-> f.parameters[k].type] ]
     IN  IF Distinct(names) /\ "main" \in Range(names)
           THEN /\ verdict' = "checking"
                /\ functions' = [ f \in Range(names) |->
                     signature(program[CHOOSE k \in DOMAIN program : names[k] = f]) ]
                /\ UNCHANGED <<scopes, program, checking, work>>
           ELSE Reject

\* The body shares the scope of the parameters.
CheckFunction ==
  /\ verdict = "checking" /\ work = <<>> /\ checking < Len(program)
  /\ LET f == program[checking + 1]
         names == [k \in DOMAIN f.parameters |-> f.parameters[k].name]
     IN  IF Distinct(names)
           THEN /\ EnterScope([ x \in Range(names) |->
                     f.parameters[CHOOSE k \in DOMAIN names : names[k] = x].type ])
                /\ work' = Append(f.body, EndOfScope)
                /\ checking' = checking + 1
                /\ UNCHANGED <<functions, program, verdict>>
           ELSE Reject

Accept ==
  /\ verdict = "checking" /\ work = <<>> /\ checking = Len(program)
  /\ verdict' = "accepted"
  /\ UNCHANGED <<functions, scopes, program, checking, work>>

Next ==
  \/ DeclareFunctions \/ CheckFunction \/ Accept
  \/ CheckLetStmt \/ CheckPlainStmt \/ CheckWhileStmt \/ CheckIfStmt
  \/ CheckBlockStmt \/ LeaveScope

=============================================================================
