------------------------------- MODULE Backend -------------------------------
(***************************************************************************)
(* The middle of main.cpp's pipeline, phases 8.1 to 8.5, for one function: *)
(* basic blocks and control flow graph, liveness, interference graph and   *)
(* register allocation, each one the module that models it, each started   *)
(* on what the one before it returned.                                     *)
(*                                                                         *)
(* The modules are checked on inputs of their own; here the hand-overs are,*)
(* against the instruction list the pipeline started from: the allocation  *)
(* must be safe for every execution of that list.                          *)
(***************************************************************************)
EXTENDS InstructionFlow, FiniteSets

CONSTANTS
  Var,        (* Names of variables and temporaries of the function.      *)
  Reg,        (* The callee-saved registers of the allocator.             *)
  Functions   (* Instruction lists of functions, as the optimizer leaves them. *)

ASSUME VarFinite == IsFiniteSet(Var)
ASSUME RegFinite == IsFiniteSet(Reg)
\* What Optimizer.tla leaves of a function, over the names it mentions.
ASSUME FunctionsAreCode ==
  \A c \in Functions : c \in Seq(Range(c)) /\ IsFunctionCode(c) /\ NamesOf(c) \subseteq Var

VARIABLES
  phase,                                                  \* the pass that runs
  code, next, block, blocks, to, from, linked,            \* ControlFlow
  cfg, use, def, liveIn, liveOut, pc, node, instr,
  definedSoFar, changed,                                  \* Liveness
  analysis, graph, walkNode, walkInstr, currRegisters,
  built,                                                  \* InterferenceGraph
  degree, remaining, registerStack, potentialSpills,
  registers, spilled                                      \* RegisterAllocator

cfVars == <<code, next, block, blocks, to, from, linked>>
liveVars == <<cfg, use, def, liveIn, liveOut, pc, node, instr, definedSoFar, changed>>
graphVars == <<analysis, walkNode, walkInstr, currRegisters, built>>
allocVars == <<degree, remaining, registerStack, potentialSpills, registers, spilled>>
vars == <<phase, cfVars, liveVars, graphVars, graph, allocVars>>

Flow == INSTANCE ControlFlow
Live == INSTANCE Liveness WITH CFGs <- {}
Interference == INSTANCE InterferenceGraph
                  WITH Analyses <- {}, node <- walkNode, instr <- walkInstr
Allocator == INSTANCE RegisterAllocator

Empty == [v \in {} |-> {}]

InitFor(c) ==
  /\ phase = "blocks"
  /\ Flow!InitFor(c)
  /\ cfg = Empty /\ use = Empty /\ def = Empty /\ liveIn = Empty /\ liveOut = Empty
  /\ pc = "scan" /\ node = 1 /\ instr = 1 /\ definedSoFar = {} /\ changed = FALSE
  /\ analysis = Empty /\ graph = Empty
  /\ walkNode = 1 /\ walkInstr = 0 /\ currRegisters = {} /\ built = FALSE
  /\ degree = Empty /\ remaining = {} /\ registerStack = <<>>
  /\ potentialSpills = {} /\ registers = Empty /\ spilled = {}

Init == \E c \in Functions : InitFor(c)

-----------------------------------------------------------------------------
BuildControlFlow ==
  /\ phase = "blocks"
  /\ Flow!Next
  /\ UNCHANGED <<phase, liveVars, graphVars, graph, allocVars>>

\* processProgram starts on the new graph. A function without instructions
\* has no blocks, so no entry in any map and no later phase.
StartLiveness ==
  /\ phase = "blocks" /\ Flow!Done /\ blocks # <<>>
  /\ phase' = "liveness"
  /\ cfg' = [block |-> blocks, to |-> to]
  /\ use' = [n \in DOMAIN blocks |-> {}] /\ def' = use'
  /\ liveIn' = use' /\ liveOut' = use'
  /\ UNCHANGED <<pc, node, instr, definedSoFar, changed>>
  /\ UNCHANGED <<cfVars, graphVars, graph, allocVars>>

AnalyseLiveness ==
  /\ phase = "liveness"
  /\ Live!Next
  /\ UNCHANGED <<phase, cfVars, graphVars, graph, allocVars>>

\* Variant: the builder is handed liveIn where it expects liveOut.
LivenessSwapped == [block |-> blocks, to |-> to, liveIn |-> liveOut, liveOut |-> liveIn]

\* The control flow graph and data, which the builder only reads.
LivenessData == [block |-> blocks, to |-> to, liveIn |-> liveIn, liveOut |-> liveOut]

StartInterference ==
  /\ phase = "liveness" /\ Live!Done
  /\ phase' = "interference"
  /\ analysis' = LivenessData
  /\ walkNode' = 1
  /\ walkInstr' = Len(blocks[1])
  /\ currRegisters' = analysis'.liveOut[1]
  /\ UNCHANGED <<built, cfVars, liveVars, graph, allocVars>>

BuildInterference ==
  /\ phase = "interference"
  /\ Interference!Next
  /\ UNCHANGED <<phase, cfVars, liveVars, allocVars>>

\* Variant: variables without neighbours are left out.
InterferingNodes == { v \in DOMAIN graph : graph[v] # {} }

GraphNodes == DOMAIN graph

StartAllocation ==
  /\ phase = "interference" /\ built
  /\ phase' = "allocation"
  /\ degree' = [v \in DOMAIN graph |-> Cardinality(graph[v])]
  /\ remaining' = GraphNodes
  /\ UNCHANGED <<registerStack, potentialSpills, registers, spilled>>
  /\ UNCHANGED <<cfVars, liveVars, graphVars, graph>>

Allocate ==
  /\ phase = "allocation"
  /\ Allocator!Next
  /\ UNCHANGED <<phase, cfVars, liveVars, graphVars>>

Next ==
  \/ BuildControlFlow \/ StartLiveness
  \/ AnalyseLiveness \/ StartInterference
  \/ BuildInterference \/ StartAllocation
  \/ Allocate

\* main() runs the phases one after the other: nothing else holds them up.
Spec == Init /\ [][Next]_vars /\ WF_vars(Next)

Allocated == phase = "allocation" /\ Allocator!Done

-----------------------------------------------------------------------------
(***************************************************************************)
(* Properties.                                                             *)
(***************************************************************************)

\* The whole pipeline is safe: at no position of the instruction list that
\* execution reaches does the write of a name destroy another name that is
\* read later, nor are two values needed on entry in one register.
WritesSpareLiveNames ==
  Allocated => SparesLiveNames(code, Var, registers)

\* Liveness computed block by block is liveness of the instruction list.
BlocksKeepLiveness ==
  phase = "interference" =>
    LET live == LiveBefore(code, Var)
    IN  \A n \in DOMAIN blocks : liveIn[n] = live[Flow!StartOf(n)]

\* Every function with at least one instruction gets an allocation: no loop
\* of the five passes can run for ever.
AllocationFollows == (code # <<>>) ~> Allocated

=============================================================================
