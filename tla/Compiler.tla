-------------------------------- MODULE Compiler --------------------------------
(***************************************************************************)
(* main() (src/src/main.cpp): the phases from the text of a program to     *)
(* assembly, each the module that models it, started on what the one       *)
(* before it returned; and then a call of what was compiled.               *)
(*                                                                         *)
(* The phases behind the front end treat the functions of a program one by *)
(* one and independently: any one of them, unit, is followed through them. *)
(* What is compiled is unit; main() ends with a throw if another fails.    *)
(***************************************************************************)
EXTENDS Integers, Sequences, Functions, Bitwise

CONSTANTS
  Texts, Letters,   (* Texts to compile: see Lexer.                        *)
  Width,            (* Bits of a word: see IRSemantics.                    *)
  Reg,              (* The pool of the allocator.                          *)
  IntArguments,     (* Words a caller passes for an int.                   *)
  Junk,             (* What a register holds when nobody has set it.       *)
  LoopFuel          (* Bound: iterations of loops of a tree.               *)

VARIABLES
  stage,                                                  \* the phase that runs
  input, position, tokens,                                \* Lexer
  cursor, open, program, outcome,                         \* Parser
  functions, scopes, checking, work, verdict,             \* FrontEnd
  lowered, code, pending, busy, tempCounter, labelCounter,
  unit,                                                   \* the function followed
  origin, pass, at, known, used, improved,                \* Optimizer
  phase, next, block, blocks, to, from, linked,           \* Backend
  cfg, use, def, liveIn, liveOut, pc, node, instr,
  definedSoFar, changed,
  analysis, graph, walkNode, walkInstr, currRegisters, built,
  degree, remaining, registerStack, potentialSpills,
  registers, spilled,
  f, asm, start, live, pos, env, result, called,          \* Execution
  counter, regs, mem, running, halted,
  calls,                                                  \* those the machine makes
  promised                                                \* what the text says it does

lexVars == <<input, position>>
parseVars == <<cursor, open, outcome>>
frontVars == <<functions, scopes, checking, work, verdict,
               lowered, pending, busy, tempCounter, labelCounter>>
optVars == <<origin, pass, at, known, used, improved>>
analysisVars == <<phase, next, block, blocks, to, from, linked, cfg, use, def, liveIn, liveOut,
                  pc, node, instr, definedSoFar, changed,
                  analysis, graph, walkNode, walkInstr, currRegisters, built>>
localVars == <<degree, remaining, registerStack, potentialSpills>>
backVars == <<analysisVars, localVars, registers, spilled>>
codeVars == <<f, asm, start, live>>
callVars == <<pos, env, result, called, counter, regs, mem, running, halted>>
runVars == <<codeVars, callVars, calls, promised>>
vars == <<stage, lexVars, tokens, parseVars, program, frontVars, code, unit,
          optVars, backVars, runVars>>

MaxInteger == 2 ^ (Width - 1) - 1

Lex == INSTANCE Lexer
Parse == INSTANCE Parser WITH position <- cursor
Rules == INSTANCE Grammar
Frontend == INSTANCE FrontEnd WITH Programs <- {}, Fuel <- 0
Opt == INSTANCE Optimizer WITH Functions <- {}, Parameters <- {}, Arguments <- {},
                               Fuel <- 0, changed <- improved
Back == INSTANCE Backend WITH Functions <- {}, Var <- {}
Machine == INSTANCE Execution WITH Compiled <- {}, SavedReg <- Reg, Arguments <- {},
                                   CallResults <- {0, 1}, pc <- counter,
                                   Kept <- [r \in Reg \cup {"ra"} |-> Junk],
                                   BitXor <- ^^, BitAnd <- &, BitOr <- |

Checker == INSTANCE TypeChecker WITH Programs <- {}
Generator == INSTANCE IRGenerator

Nothing == [x \in {} |-> {}]

Init ==
  /\ stage = "lexing"
  /\ Lex!Init
  /\ Parse!InitWork
  /\ Checker!InitWork /\ Generator!InitWork
  /\ unit = 0
  /\ origin = <<>> /\ pass = "fold" /\ at = 1
  /\ known = Nothing /\ used = {} /\ improved = FALSE
  /\ Back!InitFor(<<>>)
  /\ f = Nothing /\ asm = <<>> /\ start = <<>> /\ live = <<>>
  /\ pos = 1 /\ env = Nothing /\ result = <<>> /\ called = <<>>
  /\ counter = 1 /\ regs = Nothing /\ mem = Nothing /\ running = FALSE /\ halted = FALSE
  /\ calls = <<>> /\ promised = Nothing

-----------------------------------------------------------------------------
(***************************************************************************)
(* The phases. A throw of any ends the compilation: the program is         *)
(* rejected by the parser or the type checker, or the compiler has failed. *)
(***************************************************************************)
During(s) == stage = s
Goes(s) == stage' = s

\* Nothing but the stage and, perhaps, the list handed on.
HandOver == UNCHANGED <<lexVars, tokens, parseVars, program, frontVars, backVars, runVars>>

Tokenize ==
  /\ During("lexing")
  /\ Lex!Next
  /\ UNCHANGED <<stage, parseVars, program, frontVars, code, unit, optVars, backVars, runVars>>

StartParser ==
  /\ During("lexing") /\ Lex!Finished
  /\ Goes("parsing")
  /\ HandOver /\ UNCHANGED <<code, unit, optVars>>

ParseProgram ==
  /\ During("parsing")
  /\ Parse!Next
  /\ UNCHANGED <<stage, lexVars, frontVars, code, unit, optVars, backVars, runVars>>

EndParser ==
  /\ During("parsing") /\ outcome # "parsing"
  /\ Goes(IF outcome = "parsed" THEN "checking" ELSE "rejected")
  /\ HandOver /\ UNCHANGED <<code, unit, optVars>>

\* Phases 4 to 6.
CheckAndLower ==
  /\ During("checking")
  /\ Frontend!Next
  /\ UNCHANGED <<stage, lexVars, tokens, parseVars, unit, optVars, backVars, runVars>>

Reject ==
  /\ During("checking") /\ verdict = "rejected"
  /\ Goes("rejected")
  /\ HandOver /\ UNCHANGED <<code, unit, optVars>>

StartOptimizer ==
  /\ During("checking") /\ Frontend!Finished
  /\ Goes("optimizing")
  /\ \E k \in DOMAIN lowered : unit' = k /\ code' = lowered[k] /\ origin' = lowered[k]
  /\ HandOver /\ UNCHANGED <<pass, at, known, used, improved>>

Optimize ==
  /\ During("optimizing")
  /\ Opt!Next
  /\ UNCHANGED <<stage, lexVars, tokens, parseVars, program, frontVars, unit, backVars, runVars>>

EndOptimizer ==
  /\ During("optimizing") /\ pass \in {"done", "failed"}
  /\ Goes(IF pass = "done" THEN "allocating" ELSE "failed")
  /\ HandOver /\ UNCHANGED <<code, unit, optVars>>

\* Phases 8.1 to 8.5.
AnalyseAndAllocate ==
  /\ During("allocating")
  /\ Back!Next
  /\ UNCHANGED <<stage, lexVars, tokens, parseVars, program, frontVars, unit, optVars, runVars>>

-----------------------------------------------------------------------------
(***************************************************************************)
(* Phase 8.6.                                                              *)
(***************************************************************************)
Function == program[unit]
ParameterNames == [k \in DOMAIN Function.parameters |-> Function.parameters[k].name]

Allocation ==
  [ parameters |-> ParameterNames, code |-> code, registers |-> registers, spilled |-> spilled,
    booleans |-> {} ]

\* "No allocation found for function": no instruction, so no block.
NoAllocation == During("allocating") /\ code = <<>>

GenerateNothing ==
  /\ NoAllocation
  /\ Goes("failed")
  /\ HandOver /\ UNCHANGED <<code, unit, optVars>>

\* What allocateGraph worked with is gone.
GenerateCode ==
  /\ During("allocating") /\ Back!Allocated
  /\ f' = Allocation
  /\ asm' = Machine!GenerateFunction(Allocation)
  /\ start' = Machine!StartOfPieces(Allocation)
  /\ live' = Machine!LiveBefore(code, Machine!NamesOf(code))
  /\ Goes(IF Machine!Throw \in Range(asm') THEN "failed" ELSE "compiled")
  /\ degree' = Nothing /\ remaining' = {} /\ registerStack' = <<>> /\ potentialSpills' = {}
  /\ UNCHANGED <<lexVars, tokens, parseVars, program, frontVars, code, unit, optVars,
                 analysisVars, registers, spilled, callVars, calls, promised>>

-----------------------------------------------------------------------------
(***************************************************************************)
(* A call of the function.                                                 *)
(***************************************************************************)

\* The arguments of two parameters are not stored into one register.
ParametersApart ==
  \A x, y \in Range(ParameterNames) \cap DOMAIN registers :
    x # y => registers[x] # registers[y]

\* What the tree does, and whether the assembly has to do it: it may not end,
\* may divide by zero, or may use a name for two things.
Promise(arguments) ==
  LET told == Frontend!Outcome(program, Function, arguments, LoopFuel)
  IN  [ calls |-> told.calls, result |-> told.result,
        holds |-> /\ told.status \in {"running", "returned"}
                  /\ ~told.hides /\ told.names \cap Frontend!Temporaries = {}
                  /\ ParametersApart ]

StartMachine ==
  /\ During("compiled")
  /\ Goes("running")
  /\ \E arguments \in Frontend!Inputs(Function) :
       /\ env' = [x \in DOMAIN arguments |-> arguments[x].value]
       /\ promised' = Promise(arguments)
  /\ regs' = Machine!EntryRegs(f, env')
  /\ mem' = Machine!EntryMem(f)
  /\ running' = TRUE
  /\ UNCHANGED <<lexVars, tokens, parseVars, program, frontVars, code, unit, optVars, backVars,
                 codeVars, pos, result, called, counter, halted, calls>>

\* What the callees return, in turn, is what IRSemantics says they do.
AnswersInTurn ==
  f.code[pos].op = "call" => called'[2] = Frontend!Answer([calls |-> calls])

RunOn ==
  /\ During("running")
  /\ \/ Machine!ListStep /\ AnswersInTurn
     \/ Machine!Straight \/ Machine!Store \/ Machine!Transfer \/ Machine!ReturnStep
  /\ UNCHANGED <<stage, lexVars, tokens, parseVars, program, frontVars, code, unit, optVars,
                 backVars, calls, promised>>

RunCall ==
  /\ During("running")
  /\ Machine!CallStep
  /\ LET i == Machine!Current
     IN  calls' = Append(calls, [ function |-> i.function,
                                  arguments |-> [k \in 1..i.arguments |-> regs[Machine!Arg(k - 1)]] ])
  /\ UNCHANGED <<stage, lexVars, tokens, parseVars, program, frontVars, code, unit, optVars,
                 backVars, promised>>

\* The text is refused, or the function has returned if its tree does.
Settled ==
  \/ stage \in {"rejected", "failed"}
  \/ During("running") /\ (halted \/ ~promised.holds)

Rest == Settled /\ UNCHANGED vars

Next ==
  \/ Tokenize \/ StartParser \/ ParseProgram \/ EndParser
  \/ CheckAndLower \/ Reject \/ StartOptimizer \/ Optimize \/ EndOptimizer
  \/ AnalyseAndAllocate \/ GenerateNothing \/ GenerateCode
  \/ StartMachine \/ RunOn \/ RunCall
  \/ Rest

Spec == Init /\ [][Next]_vars

-----------------------------------------------------------------------------
(***************************************************************************)
(* Properties.                                                             *)
(***************************************************************************)

\* The tokens are the longest pieces of the text, in order: a keyword inside a
\* longer word, "-" before ">", "/" before "/" and a second point in a number
\* are where cutting one character early or late makes other tokens.
TokensAreLongestMatches ==
  During("lexing") /\ Lex!Finished =>
    tokens = Append(Lex!LongestPieces(input), Lex!EndOfFile)

\* JKCexample.txt:33-76. The parser accepts the texts of the grammar and no
\* others, and its tree is the one the grammar and the precedence rules give.
ParsesTheGrammar ==
  During("parsing") =>
    /\ outcome = "parsed" => Rules!Programs = {program}
    /\ outcome = "thrown" => Rules!Programs = {}

\* What the type checker accepts and the folder survives is compiled, except
\* where the function has no instruction left, a parameter that none mentions,
\* or more than eight of them, or of arguments of a call: no other throw of
\* the code generator can be reached.
AcceptedProgramsCompile ==
  LET few == Len(ParameterNames) <= 8
      mentioned == Range(ParameterNames) \subseteq Machine!NamesOf(code)
      passable == \A i \in Range(code) : i.op = "call" => Len(i.arguments) <= 8
      compiles == code # <<>> /\ few /\ mentioned /\ passable
  IN  /\ During("compiled") => compiles
      /\ During("failed") /\ pass # "failed" => ~compiles

\* From text to machine: when a compiled function returns, the calls it has
\* made, with their arguments, and the value in a0 are those of its tree, for
\* every order of the hash tables.
MachineDoesWhatTheTextSays ==
  During("running") /\ halted /\ promised.holds =>
    /\ calls = promised.calls
    /\ promised.result # <<>> => regs["a0"] = promised.result[1]

\* No loop of the lexer or the parser goes round without reading something,
\* whatever the text: neither can run for ever, and nothing is read twice.
ReadingAdvances ==
  [][ /\ During("lexing") /\ ~Lex!Finished' => position' > position
      /\ During("parsing") /\ outcome' = "parsing" => cursor' > cursor ]_vars

=============================================================================
