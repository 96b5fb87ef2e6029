---------------------------- MODULE SourceSemantics ----------------------------
(***************************************************************************)
(* What a JKC function does when its tree is executed, without an          *)
(* instruction list: what the front end is measured against.               *)
(*                                                                         *)
(* The operations are those of IRSemantics. A block gives the names it     *)
(* declares back when it ends: "variables appear and disappear as we enter *)
(* and exit blocks" (src/include/symbol_table.hpp:34-35). Both operands of *)
(* AND and OR are evaluated, and arguments from left to right.             *)
(*                                                                         *)
(* An execution goes wrong where a value is asked for that the types of    *)
(* the program should have provided, and is stuck where it divides by zero *)
(* or has used up its fuel.                                                *)
(***************************************************************************)
EXTENDS Ast, IRSemantics

(***************************************************************************)
(* The state of an execution:                                              *)
(*   functions  the program                                                *)
(*   returns    the return type of the function                            *)
(*   env        the values of the names in scope, an operand each          *)
(*   declared   the names declared in the current block                    *)
(*   names      the names declared anywhere so far                         *)
(*   hides      a declaration has hidden a name of an enclosing block      *)
(*   calls      the calls made                                             *)
(*   value      the operand the last expression gave                       *)
(*   result     the sequence of values returned: empty or one              *)
(*   status     running, returned, stuck or wrong                          *)
(*   fuel       the iterations of loops left                               *)
(***************************************************************************)
Entered(program, f, env, fuel) ==
  [ functions |-> program, returns |-> f.returnType, env |-> env,
    declared |-> DOMAIN env, names |-> DOMAIN env, hides |-> FALSE,
    calls |-> <<>>, value |-> IntOperand(0), result |-> <<>>,
    status |-> "running", fuel |-> fuel ]

Provided(ok, s, t) == IF ok THEN t ELSE [s EXCEPT !.status = "wrong"]
Running(s) == s.status = "running"

OperandOf(type, word) == IF type = "int" THEN IntOperand(word) ELSE BoolOperand(word = 1)

Callee(s, name) == SelectSeq(s.functions, LAMBDA f : f.name = name)

Called(s, name, args) ==
  LET callee == Callee(s, name) IN
    Provided(/\ callee # <<>>
             /\ [k \in DOMAIN args |-> args[k].kind]
                  = [k \in DOMAIN callee[1].parameters |-> callee[1].parameters[k].type],
             s,
             [s EXCEPT !.calls = Append(@, [ function |-> name,
                                             arguments |-> [k \in DOMAIN args |-> args[k].value] ]),
                       !.value = OperandOf(callee[1].returnType, Answer(s))])

RECURSIVE Eval(_, _)
Eval(s, e) ==
  IF ~Running(s) THEN s ELSE
  CASE e.is = "literal"  -> [s EXCEPT !.value = e.value]
    [] e.is = "variable" -> Provided(e.name \in DOMAIN s.env, s, [s EXCEPT !.value = s.env[e.name]])
    [] e.is = "unary"    ->
         LET v == Eval(s, e.operand)
         IN  IF ~Running(v) THEN v
             ELSE Provided(v.value.kind = OperandType(e.op), v,
                      [v EXCEPT !.value = OperandOf(ResultType(e.op), EvalUnaryOp(e.op, v.value.value))])
    [] e.is = "binary"   ->
         LET l == Eval(s, e.left)
             r == Eval(l, e.right)
         IN  IF ~Running(r) THEN r
             ELSE Provided(l.value.kind = OperandType(e.op) /\ r.value.kind = OperandType(e.op), r,
                    IF HasValue(e.op, r.value.value)
                      THEN [r EXCEPT !.value = OperandOf(ResultType(e.op),
                                        EvalBinOp(e.op, l.value.value, r.value.value))]
                      ELSE [r EXCEPT !.status = "stuck"])
    [] e.is = "call"     ->
         LET after[k \in 0..Len(e.arguments)] ==
               IF k = 0 THEN s ELSE Eval(after[k - 1], e.arguments[k])
             last == after[Len(e.arguments)]
         IN  IF ~Running(last) THEN last
             ELSE Called(last, e.funcName, [k \in DOMAIN e.arguments |-> after[k].value])

-----------------------------------------------------------------------------
Declares(s, x, v) ==
  [s EXCEPT !.env = [y \in DOMAIN @ \cup {x} |-> IF y = x THEN v ELSE @[y]],
            !.declared = @ \cup {x}, !.names = @ \cup {x},
            !.hides = @ \/ x \in DOMAIN s.env]

\* The block has ended in t: the names it declared mean what they did in s.
LeftBlock(s, t) ==
  [t EXCEPT !.env = [x \in DOMAIN s.env |-> IF x \in t.declared THEN s.env[x] ELSE t.env[x]],
            !.declared = s.declared]

RECURSIVE Exec(_, _), ExecAll(_, _), ExecBranches(_, _, _)
ExecBlock(s, ss) == LeftBlock(s, ExecAll([s EXCEPT !.declared = {}], ss))

ExecAll(s, ss) == IF ss = <<>> \/ ~Running(s) THEN s ELSE ExecAll(Exec(s, Head(ss)), Tail(ss))

\* t, when the condition just evaluated holds, or else f.
Decided(v, t, f) ==
  IF ~Running(v) THEN v
  ELSE Provided(v.value.kind = "bool", v, IF v.value.value = 1 THEN t ELSE f)

ExecBranches(s, branches, elseBody) ==
  IF branches = <<>>
    THEN IF elseBody = <<>> THEN s ELSE ExecBlock(s, elseBody[1])
    ELSE LET v == Eval(s, branches[1].condition)
         IN  Decided(v, ExecBlock(v, branches[1].body), ExecBranches(v, Tail(branches), elseBody))

Exec(s, stmt) ==
  IF stmt.is = "block" THEN ExecBlock(s, stmt.statements)
  ELSE IF stmt.is = "if" THEN ExecBranches(s, stmt.branches, stmt.elseBody)
  ELSE IF stmt.is = "while" THEN
    LET v == Eval(s, stmt.condition)
        spent == [v EXCEPT !.fuel = @ - 1]
    IN  IF Running(v) /\ v.fuel = 0 THEN [v EXCEPT !.status = "stuck"]
        ELSE Decided(v, Exec(ExecBlock(spent, stmt.body), stmt), v)
  ELSE
    LET v == Eval(s, stmt.initializer) IN
      IF ~Running(v) THEN v ELSE
      CASE stmt.is = "let"    -> Provided(/\ stmt.name \notin s.declared
                                          /\ v.value.kind = stmt.decType, v,
                                          Declares(v, stmt.name, v.value))
        [] stmt.is = "assign" -> Provided(/\ stmt.name \in DOMAIN v.env
                                          /\ v.value.kind = v.env[stmt.name].kind, v,
                                          [v EXCEPT !.env[stmt.name] = v.value])
        [] stmt.is = "send"   -> Provided(v.value.kind = v.returns, v,
                                          [v EXCEPT !.status = "returned",
                                                    !.result = <<v.value.value>>])
        [] stmt.is = "expr"   -> v

\* The body of a function shares the block of its parameters.
Outcome(program, f, env, fuel) == ExecAll(Entered(program, f, env, fuel), f.body)

=============================================================================
