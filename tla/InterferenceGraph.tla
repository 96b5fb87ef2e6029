--------------------------- MODULE InterferenceGraph ---------------------------
(***************************************************************************)
(* InterferenceGraphBuilder::buildGraph (src/src/interference_graph.cpp)   *)
(* on the control flow graph of one function and its liveness data.        *)
(*                                                                         *)
(* Each block is walked from its last instruction to its first with the    *)
(* set of names live at that point; an instruction's destination gets an   *)
(* edge to each of them. At the end the names live on entry to the         *)
(* function, which no instruction defines, are made to interfere.          *)
(***************************************************************************)
EXTENDS IR, FiniteSets

CONSTANTS
  Var,      (* Names of variables and temporaries of one function.        *)
  Analyses  (* Records of a graph and the result of LivenessAnalysis on   *)
            (* it: block, to, liveIn and liveOut.                         *)

IsAnalysis(a) ==
  /\ Len(a.block) \in Nat \ {0}
  /\ a.liveIn \in [1..Len(a.block) -> SUBSET Var]
  /\ a.liveOut \in [1..Len(a.block) -> SUBSET Var]
  /\ \A n \in 1..Len(a.block) :
       /\ Range(a.to[n]) \subseteq 1..Len(a.block)
       /\ Len(a.block[n]) \in Nat \ {0}
       /\ \A i \in 1..Len(a.block[n]) :
            /\ GetSources(a.block[n][i]) \subseteq Var
            /\ GetDestination(a.block[n][i]) \subseteq Var

\* No instruction of block n strictly between i and j writes x.
Unwritten(a, x, n, i, j) ==
  \A k \in (i + 1)..(j - 1) : x \notin GetDestination(a.block[n][k])

\* Names read after instruction i of block n before anything writes them.
LiveAfterIn(a, n, i) ==
  { x \in Var :
      \/ \E j \in (i + 1)..Len(a.block[n]) :
           x \in GetSources(a.block[n][j]) /\ Unwritten(a, x, n, i, j)
      \/ x \in a.liveOut[n] /\ Unwritten(a, x, n, i, Len(a.block[n]) + 1) }

\* What LivenessAnalysis returns agrees with itself across blocks.
IsSolved(a) ==
  \A n \in 1..Len(a.block) :
    /\ a.liveIn[n] = LiveAfterIn(a, n, 0)
    /\ a.liveOut[n] = UNION { a.liveIn[m] : m \in Range(a.to[n]) }

ASSUME VarFinite == IsFiniteSet(Var)
ASSUME AnalysesAreAnalyses == \A a \in Analyses : IsAnalysis(a)
ASSUME AnalysesAreSolved == \A a \in Analyses : IsSolved(a)

VARIABLES
  analysis,       (* data and the blocks, read only                       *)
  graph,          (* progGraphs[name]: node -> its edges                  *)
  node, instr,    (* the instruction the walk looks at, 0 when a block is *)
                  (* done                                                 *)
  currRegisters,  (* names live just after that instruction               *)
  built           (* the entry clique has been added                      *)

vars == <<analysis, graph, node, instr, currRegisters, built>>

Nodes == 1..Len(analysis.block)
Instruction(n, i) == analysis.block[n][i]

InitFor(a) ==
  /\ analysis = a
  /\ graph = [v \in {} |-> {}]
  /\ node = 1
  /\ instr = Len(a.block[1])
  /\ currRegisters = a.liveOut[1]
  /\ built = FALSE

Init == \E a \in Analyses : InitFor(a)

-----------------------------------------------------------------------------
\* variables[v] for each v in S: a node is made where there is none.
WithNodes(g, S) == [v \in DOMAIN g \cup S |-> IF v \in DOMAIN g THEN g[v] ELSE {}]

\* Variant: the edge is recorded at one end only.
OneWayEdges(g, v, S) ==
  [u \in DOMAIN g |-> IF u = v THEN g[u] \cup (S \ {v}) ELSE g[u]]

\* makeEdge(v, u) for each u in S: at both ends, and none from v to itself.
WithEdges(g, v, S) ==
  [u \in DOMAIN g |-> g[u] \cup (IF u = v THEN S \ {v} ELSE {})
                           \cup (IF u \in S \ {v} THEN {v} ELSE {})]

\* Variant: the destination stays in the set while the walk goes on.
StillLive(live, i) == live

\* The destination is not live before the instruction that defines it.
Without(live, i) == live \ GetDestination(i)

\* Names the instruction makes nodes for.
Mentioned(i) == GetDestination(i) \cup GetSources(i)

WalkInstruction ==
  /\ ~built /\ instr > 0
  /\ LET i == Instruction(node, instr)
         live == Without(currRegisters, i)
         g == WithNodes(graph, Mentioned(i) \cup
                               (IF GetDestination(i) = {} THEN {} ELSE live))
     IN  /\ graph' = IF GetDestination(i) = {} THEN g
                     ELSE WithEdges(g, CHOOSE d \in GetDestination(i) : TRUE, live)
         /\ currRegisters' = live \cup GetSources(i)
  /\ instr' = instr - 1
  /\ UNCHANGED <<analysis, node, built>>

NextBlock ==
  /\ ~built /\ instr = 0 /\ node < Len(analysis.block)
  /\ node' = node + 1
  /\ instr' = Len(analysis.block[node + 1])
  /\ currRegisters' = analysis.liveOut[node + 1]
  /\ UNCHANGED <<analysis, graph, built>>

\* Variant: nothing is done about the names live on entry.
NoClique(g) == g

\* makeEdge for each pair of names live on entry; a single one gets no node here.
EntryClique(g) ==
  LET entry == analysis.liveIn[1]
      h == WithNodes(g, IF Cardinality(entry) > 1 THEN entry ELSE {})
  IN  [u \in DOMAIN h |-> h[u] \cup (IF u \in entry THEN entry \ {u} ELSE {})]

AddEntryClique ==
  /\ ~built /\ instr = 0 /\ node = Len(analysis.block)
  /\ graph' = EntryClique(graph)
  /\ built' = TRUE
  /\ UNCHANGED <<analysis, node, instr, currRegisters>>

Next == WalkInstruction \/ NextBlock \/ AddEntryClique

\* buildGraph is a sequential call: only its own loops hold it up.
Spec == Init /\ [][Next]_vars /\ WF_vars(Next)

-----------------------------------------------------------------------------
(***************************************************************************)
(* Interference, from the blocks and liveOut.                              *)
(***************************************************************************)

LiveAfter(n, i) == LiveAfterIn(analysis, n, i)

\* One of the two is written while the other is live.
Clash(x, y) ==
  \E n \in Nodes : \E i \in 1..Len(analysis.block[n]) :
    \/ x \in GetDestination(Instruction(n, i)) /\ y \in LiveAfter(n, i)
    \/ y \in GetDestination(Instruction(n, i)) /\ x \in LiveAfter(n, i)

\* Blocks execution can reach: in every set that holds the first block and
\* is closed under the edges.
Reachable ==
  { n \in Nodes :
      \A S \in SUBSET Nodes :
        1 \in S /\ (\A m \in S : Range(analysis.to[m]) \subseteq S) => n \in S }

Interferes(x, y) == x # y /\ (Clash(x, y) \/ {x, y} \subseteq analysis.liveIn[1])

-----------------------------------------------------------------------------
(***************************************************************************)
(* Properties.                                                             *)
(***************************************************************************)

\* At every moment the graph is undirected and without loops: the allocator
\* looks for a neighbour's register from either end of an edge.
TypeOK ==
  /\ IsAnalysis(analysis)
  /\ DOMAIN graph \subseteq Var
  /\ graph \in [DOMAIN graph -> SUBSET DOMAIN graph]
  /\ \A u, v \in DOMAIN graph : u \in graph[v] => u # v /\ v \in graph[u]
  /\ node \in Nodes
  /\ instr \in 0..Len(analysis.block[node])
  /\ currRegisters \subseteq Var
  /\ built \in BOOLEAN

\* The set carried backwards through a block is what is live at each point.
WalkSeesLiveNames == currRegisters = LiveAfter(node, instr)

\* No edge is ever made between names that do not interfere, which may cost a
\* register. In the finished graph each name written where another is live,
\* and each pair live on entry, has one: what the allocator relies on. And
\* every name an instruction mentions is a node, so that it gets a place.
EdgesAreInterferences ==
  /\ \A u, v \in DOMAIN graph : u \in graph[v] => Interferes(u, v)
  /\ built => /\ \A x, y \in Var : Interferes(x, y) => /\ {x, y} \subseteq DOMAIN graph
                                                       /\ x \in graph[y]
              /\ \A n \in Nodes : \A i \in 1..Len(analysis.block[n]) :
                   GetDestination(Instruction(n, i)) \cup GetSources(Instruction(n, i))
                     \subseteq DOMAIN graph

\* Edges are only made at writes, yet any two names live at one point that
\* execution reaches interfere: on every path to that point the later of
\* their writes saw the other one live, or both were live on entry.
LiveTogetherInterfere ==
  built => \A n \in Reachable : \A i \in 0..Len(analysis.block[n]) :
             \A x, y \in LiveAfter(n, i) : x # y => x \in graph[y]

=============================================================================
