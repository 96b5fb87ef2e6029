# The JKC to RISC-V compiler in TLA+

This directory holds a verification development of the JKC compiler: TLA+ models of its
passes, TLC configurations that check them on small instances, and proofs checked by
TLAPS. `PROJECT.json` relates every definition to the source lines it models.

The compiler is a pipeline of sequential passes over one function at a time. There are no
threads, messages or restarts; what makes it hard is elsewhere:

- **fixed points and worklists** that update their own input while they read it (liveness,
  the rounds of the optimizer), and must both stop and not stop too early;
- **one character, one token or one rule too far**: the lexer and the parser never go back, and
  precedence is only in which function calls which;
- **lists edited under an iterator** (dead store elimination, unreachable code removal);
- **hash-table order**: the allocator walks `unordered_*` containers, so which node is taken
  and which register is given differ between standard libraries and runs;
- **contracts between passes that nobody states**: a pass is right only if the list, graph or
  map it gets has a certain shape, and there is no assertion for any of them;
- **calling convention**: scratch registers, argument registers, saved registers and stack
  slots that overlap in time.

A wrong answer in any of these is a miscompiled program, which a test sees only if its inputs
happen to make the lost value matter.

## Inventory

| Component | Source | State | Operations | Correct when |
|---|---|---|---|---|
| Lexer | `lexer.cpp`, `token.hpp` | text, position | `tokenize`, one scan | the tokens are the longest pieces of the text, in order |
| Parser, AST | `parser.cpp`, `ast.hpp` | tokens, position | recursive descent, one function per grammar rule | it accepts the texts of the grammar, with the tree the precedence rules give them |
| Symbol table, type checker | `symbol_table.cpp`, `type_checker.cpp` | stack of scopes, current function | `enterScope`, `exitScope`, `declare`, `lookup`; one check per statement | a checked program names only what is in scope, and operands fit |
| IR and IR generator | `ir.hpp`, `ir_generator.cpp` | program, current function, counters of temporaries and labels | one `generate...` per statement and expression | the list means what the tree means |
| Optimizer | `optimizer.cpp` | the instruction list, `knownValues`, the flag of the round | `folder`, `propagator`, `eliminator`, `remover`, repeated by `optimize` | the list means what it meant; the rounds end |
| Basic blocks, control flow graph | `basic_block.cpp`, `cfg.cpp` | blocks cut so far, block being filled; nodes with `to` and `from` | `buildBlocks`, `buildCFG` | blocks are single entry, single exit; edges are the jumps execution can take |
| Liveness | `liveness.cpp` | `use`, `def`, `liveIn`, `liveOut` per node | `computeUseAndDef`, `computeLiveOut`, `computeLiveIn` until nothing changes | a name is live where a path reads it before writing it |
| Interference graph | `interference_graph.cpp` | the graph, `currRegisters` | backward walk of each block, `makeEdge`, clique of the entry | an edge exactly for each interference, a node for each name |
| Register allocator | `allocator.cpp` | `degree`, `remaining`, `registerStack`, `registers`, `spilled` | simplification, colouring | a proper colouring, spilling only when it must |
| RISC-V code generator | `riscv_codegen.cpp` | stack frame, text emitted | `buildStackFrame`, one `generate...` per instruction | the assembly does what the list does, and keeps the calling convention |
| Pipeline | `main.cpp` | what each phase returned | phases 2 to 8.6 in order | what is accepted compiles, and the code does what the text says |
| Command line, files | `main.cpp` | flags, the source file, `program.s` | read, print, write | not modelled |
| Test harness | `runtests.sh`, `tests/`, CI | none | runs compiler, assembler, emulator | not part of the compiler |

Components interact by return values only: each pass is constructed with references to the
results of the ones before it (`main.cpp:113-151`), keyed by function name, block pointer or
variable name. The lexer feeds the parser, the parser's tree goes to the type checker and the
IR generator, and from there on the unit is the instruction list of a function.

## Modules

| Module | Models | How |
|---|---|---|
| `Tokens` | `token.hpp` | a token is a type and its characters |
| `Lexer` | `lexer.cpp` | one action per iteration of `tokenize`; `LongestPieces` is the reference for its result |
| `Parser` | `parser.cpp` | the recursion over statements is the stack `open`; one action per statement, and per end of a block (`EndBranch` looks for what may follow an if); expressions are read by operators that recurse as the functions do, whose result is the set of what was read, empty when the code throws |
| `Grammar` | (reference definitions) | the nonterminals of `JKCexample.txt`: the set of trees that derive the tokens from one position to another, without a direction of reading |
| `Compiler` | `main.cpp`, phases 2 to 8.6 | composes all the modules below by `INSTANCE`; `StartParser`, `StartOptimizer`, ... hand the result of one phase to the next, `EndParser`, `Reject` and `EndOptimizer` are where a throw ends `main`; `StartMachine` calls the function compiled |
| `Ast` | `ast.hpp` | nodes are records, a block the sequence of its statements |
| `SymbolTable` | `symbol_table.cpp` | the stack of scopes and the signatures; one operator per method |
| `TypeChecker` | `type_checker.cpp` | the recursion over statements is the list `work`; one action per statement (`CheckLetStmt`, `CheckPlainStmt`, `CheckIfStmt`, ...), `LeaveScope` for the end of a block; `TypeOf` for expressions |
| `IRGenerator` | `ir_generator.cpp` | likewise with the list `pending`; `LowerIfBranch` is one iteration of the loop in `lowerIfStmt`; `LowerExpr` for expressions |
| `SourceSemantics` | (reference definitions) | what executing a tree does, with blocks that give their names back |
| `FrontEnd` | phases 4 to 6 of `main.cpp` | composes the two, and compares the lists with the trees |
| `IR` | `ir.hpp`, `getDestination` and `getSources` of `liveness.cpp` | instructions are records; an operand is an integer, a boolean or a name |
| `InstructionFlow` | (reference definitions) | control flow and liveness of a list by position, without blocks; what the back end expects of a list (`IsFunctionCode`); when registers spare the names that are read later (`SparesLiveNames`) |
| `IRSemantics` | what a list means | one step of a list over words of `Width` bits; besides, the kinds of the values computed, and whether each operation gets operands it is for (`OperandsSuit`) |
| `Optimizer` | `optimizer.cpp` | one action per iteration of each pass: `Fold`, `FoldFails`, `Propagate`, `Eliminate`, `Remove`; `Start...` between passes, `EndRound` for `while(changed)` |
| `ControlFlow` | `basic_block.cpp`, `cfg.cpp` | `TakeInstruction` and `FlushBlock` are `buildBlocks`; `CreateNodes` and `LinkNode` are `buildCFG` |
| `Liveness` | `liveness.cpp` | `Scan` and `EndBlock` are `computeUseAndDef`; `ComputeLiveOut` and `ComputeLiveIn` treat one node each, in place, in vector order |
| `InterferenceGraph` | `interference_graph.cpp` | `WalkInstruction` one instruction backwards, `NextBlock`, `AddEntryClique` |
| `RegisterAllocator` | `allocator.cpp` | `SimplifyLowDegree`, `SimplifyPotentialSpill`, `Color`, `Spill`; hash order is `\E` |
| `Coloring` | the promise of the allocator | abstract: variables are placed one at a time, in a register its neighbours do not hold or, when there is none, on the stack |
| `Backend` | phases 8.1 to 8.5 of `main.cpp` | composes the four modules above by `INSTANCE`; the actions `Start...` hand the result of one to the next |
| `CodeGenerator` | `riscv_codegen.cpp` | pure operators: the frame, and the sequence of machine instructions emitted for each instruction |
| `Execution` | a RISC-V machine running that output | the instruction list and the machine step in turn and are compared at instruction boundaries |
| `OptimizerProofs`, `ControlFlowProofs`, `LivenessProofs`, `InterferenceGraphProofs`, `RegisterAllocatorProofs`, `BackendProofs`, `ExecutionProofs` | | theorems about the module they are named after |
| `Induction` | | induction over the natural numbers, stated for sets, and that the iterations of `InstructionFlow` reach their fixed points, for those proofs |
| `MC...` | | values of the constants for TLC |

`RegisterAllocator` refines `Coloring` with the identity on `graph`, `registers` and
`spilled`; its simplification steps are stutters there. `Execution` is a simulation between
two machines: the list is the specification of the assembly.

`Compiler` runs one text through all of it. The phases behind the front end treat the functions
of a program one by one and independently, so any one of them is followed (`unit`); a throw for
one of them ends `main()` for all. The passes
share the variables they share in `main()`: the optimizer edits the list the generator made, and
the allocator colours the graph the builder left. Where two modules give one variable name
to different things, the `INSTANCE` renames it (`position <- cursor`, `pc <- counter`).

What is abstracted: text of the assembly and of diagnostics; file and command-line handling;
names are members of a small set; pointers to blocks and nodes are their positions; the map
from function name to result is dropped, since functions are compiled independently. A text is a
sequence of characters, in which a run of letters that is never split (`while`) may stand as
one; where words are to be split or joined the runs are shorter (`is`, `_lt`).

## Runs

Every pass runs alone inside `main()`, with nothing to wait for but itself, so each
specification of a pass has the fairness `WF_vars(Next)`: the call goes on as long as it can.
`Execution` and `FrontEnd` have none, because nothing about them is temporal. These runs are made
with `CHECK_DEADLOCK FALSE`: a pass ends, and a machine halts.

`Compiler` has no fairness either, and deadlock is checked: it may rest only where `Settled`
says so, that is when a phase has thrown, when the machine has returned, or when the tree does
something the assembly is not held to (see below). That no text gets stuck is thus checked without
fairness, and that the lexer and the parser do not go round for ever is `ReadingAdvances`; for the
passes behind them see `Termination`, `AllocationFollows` and `ImplementsColoring`.

| Run | Instance | Distinct states | Shows |
|---|---|---|---|
| `Compiler` | 2,355 texts: every sequence of up to 3 of 10 pieces that join to longer tokens, and of up to 4 of those of numbers and comments; bodies of one expression, among them every sequence of up to 3 of 7 tokens and every pair of operators with and without parentheses; 22 programs, three of them also with each token left out; every pair of 6 statements on two parameters; 2 registers, every hash order, every argument; words of 3 bits, so that 3 is the greatest literal | 170,296 | `TokensAreLongestMatches`: no token is cut short or too long. `ParsesTheGrammar`: the parser accepts the texts of the grammar and no others, and builds the one tree the precedence rules allow. `AcceptedProgramsCompile`: past the type checker only the throws listed there are reached. `MachineDoesWhatTheTextSays`: calls, arguments and result of the code are those of the tree. `ReadingAdvances`: each iteration uses up some of the text |
| `FrontEnd` | 2,568 programs of `main` and two callees: straight lines, blocks, whiles, ifs with else-if and else, over statements of which some do not type; some 650 are accepted | 59,351 | `TypesAreSound`: no accepted program asks for a name out of scope or a value of another type. `LoweringKeepsMeaning`: calls and value of each list are those of its tree, as long as no name hides another. `LowersToCode`: what the optimizer assumes (jumps resolve, constants are constant, operations get operands of their kind), and labels unique across functions |
| `Optimizer` | all lists of 2 statements and of 3 with a return, from a pool of 8; constants for each folding case; ifs and whiles of 5 bodies; words of 3 bits, parameters -4 and 3 | 61,873 | `MeaningIsKept`: after every step of every pass, for all arguments, the calls in their order and the value returned are those of the original list. `LeavesFunctionCode`: jumps still resolve. `KnownIsResolved`: the propagation map has no chains or cycles. `Termination` of the rounds |
| `ControlFlow` | every list of up to 5 instructions over 2 labels | 13,100 | blocks neither lose, repeat nor reorder instructions; single entry, single exit; `to` and `from` are exactly the flow of the list |
| `Liveness` | graphs of 3 blocks with every arrangement of jumps, branches, returns, loops and unreachable blocks; 2 names | 48,912 | the in-place iteration never exceeds any solution, stops only at one, and the result is liveness by paths |
| `InterferenceGraph` | graphs of 2 to 3 blocks, 3 names, 5 bodies | 36,048 | the walk carries the live set of each point; edges are exactly the interferences, and each name has a node; names live together on a path interfere |
| `RegisterAllocator` | every graph on up to 4 variables, 2 registers, every hash order | 9,753 | proper colouring, residual degrees, Kempe's argument, each variable placed once, refinement of `Coloring` with its liveness, so that both loops end |
| `Backend` | ifs with else and whiles over 5 bodies, 4 names, 2 registers, every hash order | 25,166 | safety of the allocation against every execution of the original list, across all four hand-overs |
| `Execution` | each operator, logic, loop, branch, calls, recursion, two returns, no return; every safe placement of the names in 2 registers and the stack; words of 3 bits | 165,728 | values that are still needed are where the placement says, at each boundary; arguments, result, `sp`, `ra` and saved registers are right |
| `HiddenVariable` | the programs of `FrontEnd` | counterexample | finding 3 |
| `ParameterClobber` | one function | counterexample | finding 1 |
| `ParameterLocation` | one function, whose second parameter is read to no effect | counterexample | finding 2 |

`MachineDoesWhatTheTextSays` holds the assembly to the tree (`SourceSemantics`), except where
`Promise` says it does not: when a declaration hides another (finding 3), when a name of the
program is that of a temporary, when two parameters got one register (finding 1), and when the
tree divides by zero or does not end within `LoopFuel`. A function that ends without a send has
to make the calls of its tree, and may return anything.

`AcceptedProgramsCompile` names what the type checker accepts and the code generator throws on:
a function without instructions (`riscv_codegen.cpp:74`), a parameter no instruction mentions
(finding 2), and more than eight parameters or arguments (`:91`, `:307`). Nothing else gets
there; the folder's division by zero is apart, as it ends the optimizer.

Why the bounds are enough to be interesting:

- **Texts.** Each pair of binary operators shows which of them binds closer and to which side
  equal ones associate; short sequences hold everything that is almost an expression. A text
  with one token left out is almost a program, at each place. `Grammar` is the reference on all of
  them, so that what is refused is checked as well as what is accepted.
- **Whole programs** have at most six names when they reach the allocator, and two registers:
  spilling happens, and every order of choice is explored. Calls take both booleans, and the
  integers -1 and 2, which differ in sign and parity.

- **Register allocator.** With `k = 2`, four variables contain the smallest graphs that are
  coloured although every node is a potential spill (the 4-cycle) and those where a spill is
  real (the triangle, the 4-clique). With 11 registers nothing new happens: the argument only
  compares degrees with `k`, and the theorems below hold for every `k`.
- **Control flow.** Five instructions hold a loop with an exit, a block that falls through,
  adjacent labels, a label at either end, and the empty list.
- **Liveness.** Three blocks with a back edge need several rounds, in which the in-place
  order matters.
- **Words of three bits** hold the least number, whose negation and quotient by -1 overflow,
  and both signs; every operator tells its operand orders apart on them.
- **`Fuel`** (70 steps, 60 in `FrontEnd`) bounds the executions of lists that are followed, and
  **`LoopFuel`** (9) the iterations of loops of a tree: each loop of the instances that ends at
  all ends before that, and an execution that does not end within it constrains nothing.
- **`Junk`** is the value of an uninitialized register or stack slot; any word will do, as
  it only has to differ from what should be there for some argument.

`Execution` takes placements from the definition of safety rather than from `Backend`; that
`Backend` produces only such placements is `WritesSpareLiveNames`, which says the same
`SparesLiveNames` of them. The two runs together cover the path from list to assembly. What
`Execution` takes for granted of a function is stated as assumptions, which TLC evaluates for
the functions of the run: `IsCompilable` (the code generator does not throw), `IsTyped` (operands
of `&&` and `||` are truth values, `booleans` being the names that hold one; the assembly uses `and`
and `or`, which are wrong for any others), `NeededOnEntry` (only parameters have a value before
the first instruction) and `SparesLiveNames`. The functions of `Logic` pass truth values to the
function and return them from a callee. `MCParametersAreApart` says that in none of
them a parameter is stored over another (finding 1); `ParameterClobber` has one where it is.

## Theorems

`RegisterAllocatorProofs` proves the safety of the allocator for every finite set of variables
and registers (`VarFinite`, `RegFinite`), hence for every interference graph and every
hash order. The inductive invariant `IInv` joins to `TypeOK`, `DegreeIsResidual`,
`NoSharedRegister` and `OnlyPotentialSpillsSpill`:

- `StackInjective` and `Partition`: each node is in exactly one of `remaining`, the stack and
  the places, and stands once on the stack. Without it the step that pops a node cannot say
  that it has no register yet.
- `PlacedAfterSimplify`: nothing is placed before all is pushed.
- `Kempe`: a node on the stack that is not a potential spill has fewer than `k` neighbours
  besides those below it on the stack. This is what makes `OnlyPotentialSpillsSpill`
  inductive: when such a node is popped, only those fewer than `k` neighbours can hold
  registers.

`AllocatorRefinesColoring` is the safety half of the refinement: initial states map to initial
states and each step is a step of `Coloring` or a stutter.

`OptimizerProofs` proves, for every list whose jumps resolve and whose `IRConst`s hold
constants (`FunctionsAreCode`; that the generator emits no others is `LowersToCode`), and for lists of any length:

- `TypeCorrect`: no pass moves its index more than one past the end of a list that shrinks
  under it.
- `PropagationIsResolved`: nothing in `knownValues` stands for a name that is itself in
  `knownValues`. The sources of a move are looked up before the move is recorded, and a write
  drops each entry equal to the name written; both are needed.
- `OutputIsFunctionCode`: what leaves the optimizer satisfies what `buildBlocks` and `buildCFG`
  take for granted, although the generator's list does not: it has code after a return. The
  invariant needs `JumpsResolve` of the list at every step (erasing never removes a label,
  since the remover stops at one and the eliminator takes only assignments), and
  `ClearedBefore`: behind the remover's index, only a label follows a terminator.

`LivenessProofs` proves, for every control flow graph whose edges stay within it
(`CFGsAreGraphs`), with any number of blocks, instructions and names:

- `ScanCorrect`: `use` and `def` are what the block reads before writing and what it writes.
  The invariant `ScannedSoFar` says so of the instructions before the scan's position.
- `LeastSolution`: half updated or not, the sets hold nothing that some solution of the
  equations does not. The invariant `BelowSolutions` must speak of `liveOut` as well.
- `StopsAtSolution`: when the loop stops, the sets solve the equations. `Justified` (each name
  called live has a reason that still holds) gives one inclusion. `RoundSoFar` gives the other:
  what a pass has established of the nodes behind its index survives the rest of the pass, and
  as long as `changed` is false in the second pass, the first pass has missed nothing.

- `LivenessIsCorrect`: `liveIn` of the finished analysis is liveness along paths. The paths
  that read a name before writing it are themselves a solution of the equations, so nothing more
  is live (`LeastSolution`); conversely, by induction over the length of a path, each solution
  holds what is read along it (`StopsAtSolution`).

`ControlFlowProofs` proves, for every list whose jumps resolve and in which only labels follow
terminators (`FunctionsAreCode`; it is what `OutputIsFunctionCode` says of the optimizer's
lists), of any length: `TypeCorrect`, `BlocksAreTheCode`, `BlocksAreStraight` and `EdgesCorrect`.
The inductive invariant has two parts:

- `CutSoFar`: the finished blocks and the one being filled are consecutive pieces of the list
  that end where the next one begins, and an unfinished block has no terminator yet. A
  terminator is the end of its block because the next instruction is a label or none.
- `LinkedSoFar`: `to` is complete for the nodes linked so far and empty for the others, and
  `from` holds exactly what these have recorded, by label or by falling through.

`InterferenceGraphProofs` proves, for every finite set of names and every control flow graph
with a solution of its liveness equations (`VarFinite`, `AnalysesAreAnalyses`,
`AnalysesAreSolved`; `StopsAtSolution` says so of what liveness hands over):
`TypeCorrect`, `WalkIsLiveness`, `EdgesCorrect` and `LiveTogetherHaveEdges`. The invariant says
that the set the walk carries is what is live at its point, that no edge is there without an
interference (`EdgesSound`), that each instruction passed has its nodes and edges
(`WalkedHaveEdges`), and that a finished graph has the clique of the entry (`BuiltIsFinished`).
For `LiveTogetherHaveEdges`, two names live together are followed back along the path from the
entry to the latest write of one of them, or to the entry: edges are made there and nowhere else.

`BackendProofs` composes these for every list of function code over a finite set of names
(`FunctionsAreCode`, `VarFinite`, `RegFinite`). Its invariant says that the pass that
runs has its own invariant and that what the earlier ones have handed over is still there; a
`Start...` action has to establish the invariant of the next pass, and that is where the
assumptions of the modules above are discharged: the finished control flow graph is one
(`IsCFG`), the finished liveness solves its equations (`IsSolved`), the finished interference
graph is undirected. It proves

- `WritesAreSafe`: no write, and no entry, destroys a name some execution of the *list* reads
  later, whatever registers were given. The positions from which a name is read
  (`ReadFrom`, a least fixed point over the list) correspond to instructions of blocks, the
  edges of the graph are the flow between them, so what is read later is live, what is live at a
  write interferes, and what interferes has its own register.
- `LivenessIsOfTheList`: the liveness of the blocks is exactly `ReadFrom` of their first
  positions. For the other inclusion `ReadFrom` is shown to solve the equations of the
  blocks; as `liveIn` is below every solution, nothing more is live.

The second part of `OptimizerProofs` proves `OptimizerKeepsMeaning`, for lists of any length,
words of any width, and any number of rounds: if an execution of the generator's list ends within
`Fuel` steps, so does that of the list at each later moment, also in the middle of a pass, with the same
calls, arguments and result. Besides `FunctionsAreCode` it rests on two assumptions:

- `OperandsAreTyped`: an execution that ends applies operations to operands of the kind they are for.
  It is needed: the folder gives `-true` as false (`optimizer.cpp:73-77`), which no machine does.
  Nothing is assumed of parameters and of what calls return. `LowersToCode` checks it of the
  generator's lists, with the two exceptions where names are confused: a variable named
  like a temporary, and one that hides another (finding 3), perhaps of another type.
- `FuelIsBound`: `Fuel` is a natural number.

The invariant `MInv` joins to the one of the first part: each execution that ended, ends the same
way in the list as it is (`Keeps`); in every state in which an execution comes to the propagator's
position, other than by a jump, the names in `knownValues` have the value and the kind
of what they stand for (`KnownIsTrue`); and the eliminator's `used` holds all the list reads.
Folding and propagation leave every state of an execution as it was; where the eliminator
or the remover erases an instruction, an execution of the list before is followed by one of the
list after with a step fewer whenever the first one passes there, the two agreeing on all
names that are read anywhere.

`ExecutionProofs` proves `TypeCorrect` and `CallerIsSafe` for the assembly of every function that
is compilable (`CompiledAreCompilable`: names have a register or a slot and not both, jumps
resolve, at most eight parameters and arguments), every pool of registers apart from the scratch
registers, `sp` and `ra` (`PoolIsSaved`), and words of any width that holds the truth values
(`WordsAreWords`). `FrameFits` shows that `buildStackFrame` gives `ra`, the saved registers and
the spilled names slots of their own below the frame's end; `FunctionIsLaidOut`, that the concatenation
`generateFunction` makes is a prologue, a body and an epilogue at positions that can be
computed, that all instructions of the body are safe (`IsSafe`: they write scratch registers and
registers the frame has saved, touch slots of spilled names only and jump to labels of the
function) and that each label is there. The invariant says by position what the registers and the
frame hold of the caller's: in the prologue the registers that are not saved yet still hold it,
in the body the slots do, in the epilogue the registers restored so far do again. `ReturnsToCaller`
alone is not inductive, as it says nothing before `ret`. The `and`, `or` and `xor` of the machine are
parameters (`BitAnd`, `BitOr`, `BitXor`, given by `Bitwise` in the runs): that module has a
recursive operator, which the prover does not accept. The proofs know of them what `BitsAreBits`
says: `xor` gives 0 for equal words only, and on 0 and 1 the three are the truth functions.

The second part of `ExecutionProofs` proves the simulation: `ValuesInPlace` (`LiveValuesInPlace`),
`ArgumentsPassed` (`CallGetsItsArguments`) and `ResultReturned` (`ReturnsTheResult`), for every
compilable function that is typed and whose registers spare the names read later
(`CompiledAreSound`), on one hypothesis of the theorems themselves: the parameters are apart
(`ParametersApart`: none is stored over another that is needed). Nothing in the compiler sees to
that; the theorems hold exactly where finding 1 does not bite. The argument goes in four steps:

- *Instructions.* `Effect` is what one instruction makes of registers and frame, and `Does` what a
  sequence of them makes. `KeepsPlaces` says that code which writes scratch registers only
  disturbs no name, and `ComputeComputes` that each operation of the machine is the operation of
  the list, on words of any width; the comparisons are compositions of `slt`, `xori` and `seqz`.
- *Pieces.* `CarriesOut` says of the piece for an instruction that it gives the destination the
  value the list gives it and touches no name apart from it, wherever the operands are. Of a call it
  says besides that each argument is in its register when control gets there: the operands
  are in the pool or the frame, never in `a0` to `a7`, and `t0` is free again after each.
- *Layout.* `HoldsPieces` and `IsFlat` give the instruction at each index of the concatenation, so
  that the step of the machine at `start[p] + j` is the step of piece `p` at `j`.
- *Invariant.* At the boundaries alone the property is not inductive, since the machine takes several
  steps to one of the list, and the list takes its step first. `SInv` is a disjunction of four
  stages: `Entering` (the parameters stored so far are in their places, the others still in their
  argument registers), `Waiting` (at a boundary: the names live there are in place), `Working`
  (inside a piece: the state is what the first `j` instructions of the piece make of a state in
  which the names were in place) and `Leaving` (in the epilogue: the result is in `a0`). At
  the end of a piece, what is live next is in place again since the destination has the new value
  and what it may have destroyed is not live (`SparesLiveNames`); that what is live there was live
  before or is the destination is `ReadersAreClosed` of `Induction`.

Induction over the length of lists, paths and executions is done with sets of natural numbers
(`SetInduction` and `IntervalInduction` of `Induction`, from the well-foundedness of `<`),
as the library's induction theorems have an operator for a parameter, which the provers
cannot instantiate. Recursive functions (`Traced`, `Run`) are unfolded by `NatInductiveDef`.

Only model-checked:

- `FrontEnd` and `Compiler`, for the recursive operators of the lexer, the parser, the checker,
  the generator and their reference definitions.
- that parameters arrive (`ParametersArrive`), which is false (finding 1).
- all termination properties, and the liveness half of the refinement of `Coloring`: liveness under
  fairness is beyond the prover.

## Findings

1. **A parameter may destroy another on entry** (`riscv_codegen.cpp:99`, run
   `ParameterClobber`). The prologue stores `a0`, `a1`, ... into the places of the parameters,
   but only names *live on entry* get edges to each other. A parameter that each path assigns
   before reading may share a register with one that is needed, and its store comes later.
2. **A parameter without a place** (`riscv_codegen.cpp:99`, `:394`, run `ParameterLocation`).
   A name that no instruction mentions is in no allocation, and `storeValue` throws on a
   parameter without one, although the program type checks. In the run the function mentions its
   parameter, as `let e: int = x - y; send x;` does, and the eliminator erases `e` in the first
   round and `x - y` in the second. `MCCompiler` has the same function as a text, which
   `AcceptedProgramsCompile` follows to the throw, and others that never mention a parameter.
3. **A variable of an inner block overwrites the outer one** (`ir_generator.cpp:232`, run
   `HiddenVariable`). The type checker opens a scope for each block and accepts a second `let`
   of the name there; the generator names IR variables by their source name alone.

Seen while reading and not the subject of a run: a user variable called `t1` is the
generator's temporary `t1` (`ir_generator.cpp:175-182`); the folder throws on a division by
zero that may never be executed (`optimizer.cpp:45`); frames beyond 2047 bytes do not fit
12-bit immediates; `is` between booleans, which an example in `JKCexample.txt` uses and the
folder handles, is rejected (`type_checker.cpp:176-179`). Examples of `JKCexample.txt` do not follow its own
grammar, and the parser, which does, rejects them: `if (n is_lte 1) { then send 1; }`, and
declarations without a colon.

## Not modelled

- **The folder's compile-time crash** is the action `FoldFails`; no document says what should
  happen instead.
- **Printing** (`ir.cpp`, the `print` methods of `ast.hpp`, dumps in `main.cpp`, the text of the
  assembly), the command line, file handling and the test harness.
- **Several functions in one assembly file**: each is compiled and called by itself. Labels are
  unique across them by `LowersToCode`; names of functions are not compared with labels.
- **Callees** are not run: a call gives what `Answer` of `IRSemantics` says, the same to
  the machine and the tree.

## Plan

Done, in this order: `Coloring` and `RegisterAllocator` with proofs; `IR` and `InstructionFlow`;
`Liveness` with proofs; `ControlFlow`; `InterferenceGraph`; `Backend`; `IRSemantics`, `CodeGenerator` and
`Execution`; `Optimizer` with proofs; the front end (`Ast`, `SymbolTable`, `TypeChecker`,
`IRGenerator`, `SourceSemantics`, `FrontEnd`); the lexer and the parser with the reference grammar,
and the whole pipeline (`Tokens`, `Lexer`, `Parser`, `Grammar`, `Compiler`); proofs for
`ControlFlow`, `InterferenceGraph` and, composed of all the others, `Backend`; that the
liveness analysis computes liveness; that the optimizer keeps the meaning; that the assembly
gives a caller back its registers and its stack, and computes what the list computes.

Next would be the two ends put together: that what `Backend` allocates is sound in the sense of
`Execution` (its `IsTyped` and `NeededOnEntry` come from the type checker, which is out of the
prover's reach), and several functions in one assembly.

## Running

    tlc -config Backend.cfg MCBackend.tla
    tlapm OptimizerProofs.tla

The run's configuration has the run's name; its module is named in `PROJECT.json`.
The eight modules of proofs together take about twenty minutes.
