-------------------------- MODULE RegisterAllocator --------------------------
(***************************************************************************)
(* RegisterAllocator::allocateGraph (src/src/allocator.cpp): Chaitin-Briggs *)
(* graph colouring of the interference graph of one function.              *)
(*                                                                         *)
(* The first loop takes nodes off the graph and pushes them on a stack,    *)
(* preferring a node whose residual degree is below the number of          *)
(* registers and marking any other as a potential spill. The second loop   *)
(* pops them and gives each a register none of its neighbours holds, or    *)
(* spills it.                                                              *)
(*                                                                         *)
(* The code walks unordered_set containers, so which eligible node is      *)
(* taken first, and which free register a variable gets, is whatever the   *)
(* hash order gives. Both are \E choices here: the properties hold for     *)
(* every order a standard library may produce.                             *)
(***************************************************************************)
EXTENDS Integers, FiniteSets, Sequences

CONSTANTS
  Var,   (* Names of variables and temporaries of one function.           *)
  Reg    (* availableRegisters: s1..s11 in the code, any finite set here. *)

ASSUME VarFinite == IsFiniteSet(Var)
ASSUME RegFinite == IsFiniteSet(Reg)

VARIABLES
  graph,            (* the InterferenceGraph, read only                   *)
  degree,           (* residual degree of every node                      *)
  remaining,        (* nodes not yet pushed                               *)
  registerStack,    (* nodes pushed, the last one on top                  *)
  potentialSpills,  (* nodes pushed with a residual degree of k or more   *)
  registers,        (* AllocationResult::registers                        *)
  spilled           (* AllocationResult::spilled                          *)

vars == <<graph, degree, remaining, registerStack, potentialSpills,
          registers, spilled>>

Colors == INSTANCE Coloring

Nodes == DOMAIN graph
K == Cardinality(Reg)
OnStack == { registerStack[i] : i \in DOMAIN registerStack }
Placed == DOMAIN registers \cup spilled

-----------------------------------------------------------------------------
(***************************************************************************)
(* Simplification.                                                         *)
(***************************************************************************)
\* allocateGraph is called with the interference graph of one function.
InitFor(g) ==
  /\ graph = g
  /\ degree = [v \in Nodes |-> Cardinality(graph[v])]
  /\ remaining = Nodes
  /\ registerStack = <<>>
  /\ potentialSpills = {}
  /\ registers = [v \in {} |-> 0]
  /\ spilled = {}

Init == \E g \in Colors!InterferenceGraphs : InitFor(g)

LowDegree == { v \in remaining : degree[v] < K }

\* Variant: the neighbours lose two edges instead of one.
DegreesMinusTwo(v) ==
  [u \in Nodes |-> IF u \in graph[v] /\ u \in remaining \ {v} THEN degree[u] - 2
                   ELSE degree[u]]

\* The degrees once v has left the graph.
DegreesWithout(v) ==
  [u \in Nodes |-> IF u \in graph[v] /\ u \in remaining \ {v} THEN degree[u] - 1
                   ELSE degree[u]]

\* Take v off the graph, whichever way it was chosen.
Push(v) ==
  /\ registerStack' = Append(registerStack, v)
  /\ remaining' = remaining \ {v}
  /\ degree' = DegreesWithout(v)
  /\ UNCHANGED <<graph, registers, spilled>>

SimplifyLowDegree(v) ==
  /\ v \in LowDegree
  /\ Push(v)
  /\ UNCHANGED potentialSpills

\* No node is below k: any one becomes a potential spill.
SimplifyPotentialSpill(v) ==
  /\ v \in remaining
  /\ LowDegree = {}
  /\ potentialSpills' = potentialSpills \cup {v}
  /\ Push(v)

-----------------------------------------------------------------------------
(***************************************************************************)
(* Colouring.                                                              *)
(***************************************************************************)
Top == registerStack[Len(registerStack)]

\* Variant: only the neighbours still on the stack are looked at.
CopySetUnchecked(v) == Reg \ { registers[n] : n \in graph[v] \cap DOMAIN registers
                                                 \cap OnStack }

\* copySet once every neighbour's register has been erased from it.
CopySet(v) == Reg \ { registers[n] : n \in graph[v] \cap DOMAIN registers }

\* Variant: top() without the pop().
PopNothing == UNCHANGED registerStack

Pop == registerStack' = SubSeq(registerStack, 1, Len(registerStack) - 1)

Color(r) ==
  /\ remaining = {}
  /\ registerStack # <<>>
  /\ r \in CopySet(Top)
  /\ registers' = [u \in DOMAIN registers \cup {Top} |->
                     IF u = Top THEN r ELSE registers[u]]
  /\ Pop
  /\ UNCHANGED <<graph, degree, remaining, potentialSpills, spilled>>

\* Variant: a variable without a register is not recorded anywhere.
SpillForgotten(v) == spilled

SpilledWith(v) == spilled \cup {v}

Spill ==
  /\ remaining = {}
  /\ registerStack # <<>>
  /\ CopySet(Top) = {}
  /\ spilled' = SpilledWith(Top)
  /\ Pop
  /\ UNCHANGED <<graph, degree, remaining, potentialSpills, registers>>

Next ==
  \/ \E v \in remaining : SimplifyLowDegree(v) \/ SimplifyPotentialSpill(v)
  \/ \E r \in Reg : Color(r)
  \/ Spill

\* allocateGraph is a sequential call: nothing but its own loops holds it up.
Spec == Init /\ [][Next]_vars /\ WF_vars(Next)

Done == remaining = {} /\ registerStack = <<>>

-----------------------------------------------------------------------------
(***************************************************************************)
(* Properties.                                                             *)
(***************************************************************************)

\* Every container holds nodes of the graph and registers of the pool, and
\* no degree is driven below zero.
TypeOK ==
  /\ Colors!IsInterferenceGraph(graph)
  /\ degree \in [Nodes -> Nat]
  /\ remaining \subseteq Nodes
  /\ registerStack \in Seq(Nodes)
  /\ potentialSpills \subseteq Nodes
  /\ DOMAIN registers \subseteq Nodes
  /\ registers \in [DOMAIN registers -> Reg]
  /\ spilled \subseteq Nodes

\* The decremented counters stay the number of neighbours still in the
\* graph: allocator.cpp decides "degree < k" from the counter alone.
DegreeIsResidual ==
  \A v \in remaining : degree[v] = Cardinality(graph[v] \cap remaining)

\* Two variables that interfere are never given one register.
NoSharedRegister ==
  \A u, v \in DOMAIN registers : u \in graph[v] => registers[u] # registers[v]

\* Kempe's argument: a node pushed with fewer than k neighbours left always
\* finds a register when it is popped, whatever was done in between, so only
\* potential spills can be spilled.
OnlyPotentialSpillsSpill == spilled \subseteq potentialSpills

\* When the loops end, each variable is in a register or on the stack, never
\* both and never neither: loadValue and storeValue of the code generator
\* look in both maps and throw when a variable is in neither.
EveryNodePlacedOnce ==
  Done => /\ DOMAIN registers \cap spilled = {}
          /\ DOMAIN registers \cup spilled = Nodes

\* Seen from outside, the allocator places one variable at a time, spills
\* only when no register is left, and goes on until all are placed: both of
\* its loops end.
ImplementsColoring == Colors!Spec

=============================================================================
