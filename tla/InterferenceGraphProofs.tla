------------------------ MODULE InterferenceGraphProofs ------------------------
(***************************************************************************)
(* What is proved of the interference graph builder, for every control     *)
(* flow graph with its liveness data: that the walk sees what is live,     *)
(* that edges are exactly the interferences, and that names live together  *)
(* have an edge although edges are only made at writes.                    *)
(***************************************************************************)
EXTENDS InterferenceGraph, Induction, FiniteSetTheorems

\* The data was that of a solved analysis and stays so.
Solved == IsSolved(analysis)

\* No edge without a reason.
EdgesSound == \A u, v \in DOMAIN graph : u \in graph[v] => Interferes(u, v)

\* The walk has passed instruction i of block n.
Walked(n, i) == n < node \/ (n = node /\ i > instr)

\* x and y are nodes and have an edge.
Joined(x, y) == {x, y} \subseteq DOMAIN graph /\ x \in graph[y] /\ y \in graph[x]

\* Every instruction the walk has passed has its nodes and its edges.
WalkedHaveEdges ==
  \A n \in Nodes : \A i \in 1..Len(analysis.block[n]) :
    Walked(n, i) =>
      /\ Mentioned(Instruction(n, i)) \subseteq DOMAIN graph
      /\ \A d \in GetDestination(Instruction(n, i)) :
           \A y \in LiveAfter(n, i) \ {d} : Joined(d, y)

\* Once the graph is built the walk is over and the clique is there.
BuiltIsFinished ==
  built => /\ node = Len(analysis.block) /\ instr = 0
           /\ \A x, y \in analysis.liveIn[1] : x # y => Joined(x, y)

IInv ==
  /\ TypeOK
  /\ Solved
  /\ WalkSeesLiveNames
  /\ EdgesSound
  /\ WalkedHaveEdges
  /\ BuiltIsFinished

-----------------------------------------------------------------------------
(***************************************************************************)
(* Liveness inside a block.                                                *)
(***************************************************************************)

\* An instruction writes at most one name.
LEMMA OneDestination ==
  ASSUME NEW i, GetDestination(i) # {}
  PROVE  GetDestination(i) = {i.destination}
BY DEF GetDestination

\* What the blocks of an analysis are.
LEMMA BlocksOfAnalysis ==
  ASSUME IsAnalysis(analysis)
  PROVE  /\ Len(analysis.block) \in Nat \ {0} /\ 1 \in Nodes
         /\ \A n \in Nodes :
              /\ Len(analysis.block[n]) \in Nat \ {0}
              /\ analysis.liveIn[n] \subseteq Var /\ analysis.liveOut[n] \subseteq Var
              /\ Range(analysis.to[n]) \subseteq Nodes
              /\ \A i \in 1..Len(analysis.block[n]) :
                   /\ GetSources(Instruction(n, i)) \subseteq Var
                   /\ GetDestination(Instruction(n, i)) \subseteq Var
BY DEF IsAnalysis, Nodes, Instruction

\* After the last instruction of a block lives what the successors need.
LEMMA LiveAtEndIn ==
  ASSUME NEW a, IsAnalysis(a), NEW n \in 1..Len(a.block)
  PROVE  LiveAfterIn(a, n, Len(a.block[n])) = a.liveOut[n]
<1> DEFINE l == Len(a.block[n])
<1>1. l \in Nat /\ a.liveOut[n] \subseteq Var
  BY DEF IsAnalysis
<1>2. (l + 1)..l = {} /\ (l + 1)..((l + 1) - 1) = {}
  BY <1>1
<1> QED
  BY <1>1, <1>2 DEF LiveAfterIn, Unwritten

\* One instruction back, its sources are live and its destination is not,
\* unless it is read there as well.
LEMMA LiveOneBackIn ==
  ASSUME NEW a, IsAnalysis(a), NEW n \in 1..Len(a.block), NEW i \in 1..Len(a.block[n])
  PROVE  LiveAfterIn(a, n, i - 1) =
           (LiveAfterIn(a, n, i) \ GetDestination(a.block[n][i]))
             \cup GetSources(a.block[n][i])
<1> DEFINE l == Len(a.block[n])
           b == a.block[n]
           R(x, j, k) == x \in GetSources(b[j]) /\ Unwritten(a, x, n, k, j)
<1>1. l \in Nat /\ GetSources(a.block[n][i]) \subseteq Var
  BY DEF IsAnalysis
<1>2. \A x : \A j \in (i + 1)..(l + 1) :
        Unwritten(a, x, n, i - 1, j)
          <=> x \notin GetDestination(b[i]) /\ Unwritten(a, x, n, i, j)
  <2> SUFFICES ASSUME NEW x, NEW j \in (i + 1)..(l + 1)
               PROVE  Unwritten(a, x, n, i - 1, j)
                        <=> x \notin GetDestination(b[i]) /\ Unwritten(a, x, n, i, j)
    OBVIOUS
  <2>1. ((i - 1) + 1)..(j - 1) = {i} \cup (i + 1)..(j - 1)
    BY <1>1
  <2> QED
    BY <2>1 DEF Unwritten
<1>3. \A x : Unwritten(a, x, n, i - 1, i)
  <2>1. ((i - 1) + 1)..(i - 1) = {}
    BY <1>1
  <2> QED
    BY <2>1 DEF Unwritten
<1>4. ((i - 1) + 1)..l = {i} \cup (i + 1)..l
  BY <1>1
<1>5. l + 1 \in (i + 1)..(l + 1) /\ (i + 1)..l \subseteq (i + 1)..(l + 1)
  BY <1>1
<1>6. ASSUME NEW x \in Var
      PROVE  x \in LiveAfterIn(a, n, i - 1) <=>
               \/ x \in LiveAfterIn(a, n, i) /\ x \notin GetDestination(b[i])
               \/ x \in GetSources(b[i])
  <2>1. x \in LiveAfterIn(a, n, i - 1) <=>
          \/ \E j \in {i} \cup (i + 1)..l : R(x, j, i - 1)
          \/ x \in a.liveOut[n] /\ Unwritten(a, x, n, i - 1, l + 1)
    BY <1>4 DEF LiveAfterIn
  <2>2. x \in LiveAfterIn(a, n, i) <=>
          \/ \E j \in (i + 1)..l : R(x, j, i)
          \/ x \in a.liveOut[n] /\ Unwritten(a, x, n, i, l + 1)
    BY DEF LiveAfterIn
  <2>3. R(x, i, i - 1) <=> x \in GetSources(b[i])
    BY <1>3
  <2>4. \A j \in (i + 1)..l : R(x, j, i - 1) <=> x \notin GetDestination(b[i]) /\ R(x, j, i)
    BY <1>2, <1>5
  <2>5. Unwritten(a, x, n, i - 1, l + 1)
          <=> x \notin GetDestination(b[i]) /\ Unwritten(a, x, n, i, l + 1)
    BY <1>2, <1>5
  <2> HIDE DEF R
  <2> QED
    BY <2>1, <2>2, <2>3, <2>4, <2>5
<1>7. LiveAfterIn(a, n, i - 1) \subseteq Var /\ LiveAfterIn(a, n, i) \subseteq Var
  BY DEF LiveAfterIn
<1> QED
  BY <1>1, <1>6, <1>7

\* The same of the analysis at hand: what is live at the end of a block.
LEMMA LiveAtEnd ==
  ASSUME IsAnalysis(analysis), NEW n \in Nodes
  PROVE  LiveAfter(n, Len(analysis.block[n])) = analysis.liveOut[n]
BY LiveAtEndIn DEF LiveAfter, Nodes

\* And one instruction back.
LEMMA LiveOneBack ==
  ASSUME IsAnalysis(analysis), NEW n \in Nodes, NEW i \in 1..Len(analysis.block[n])
  PROVE  LiveAfter(n, i - 1) =
           (LiveAfter(n, i) \ GetDestination(Instruction(n, i)))
             \cup GetSources(Instruction(n, i))
BY LiveOneBackIn DEF LiveAfter, Nodes, Instruction

-----------------------------------------------------------------------------
(***************************************************************************)
(* Nodes and edges added.                                                  *)
(***************************************************************************)

\* What makeEdge keeps of a graph: edges have two ends, and none is a loop.
IsUndirected(g) ==
  /\ DOMAIN g \subseteq Var
  /\ g \in [DOMAIN g -> SUBSET DOMAIN g]
  /\ \A u, v \in DOMAIN g : u \in g[v] => u # v /\ v \in g[u]

\* New nodes have no edges, and old nodes keep theirs.
LEMMA NodesAdded ==
  ASSUME NEW g, IsUndirected(g), NEW S \in SUBSET Var
  PROVE  /\ IsUndirected(WithNodes(g, S))
         /\ DOMAIN WithNodes(g, S) = DOMAIN g \cup S
         /\ \A v \in DOMAIN g : WithNodes(g, S)[v] = g[v]
         /\ \A v \in S \ DOMAIN g : WithNodes(g, S)[v] = {}
<1> DEFINE h == WithNodes(g, S)
<1>1. /\ DOMAIN h = DOMAIN g \cup S
      /\ \A v \in DOMAIN g : h[v] = g[v]
      /\ \A v \in S \ DOMAIN g : h[v] = {}
      /\ h = [v \in DOMAIN h |-> h[v]]
  BY DEF WithNodes
<1> HIDE DEF h
<1>2. \A v \in DOMAIN h : h[v] \subseteq DOMAIN g
  BY <1>1 DEF IsUndirected
<1>3. IsUndirected(h)
  BY <1>1, <1>2 DEF IsUndirected
<1> QED
  BY <1>1, <1>3 DEF h

\* makeEdge for d and each member of S adds these edges and no other.
LEMMA EdgesAdded ==
  ASSUME NEW g, IsUndirected(g), NEW d \in DOMAIN g, NEW S \in SUBSET DOMAIN g
  PROVE  /\ IsUndirected(WithEdges(g, d, S))
         /\ DOMAIN WithEdges(g, d, S) = DOMAIN g
         /\ \A u, v \in DOMAIN g :
              u \in WithEdges(g, d, S)[v] <=>
                \/ u \in g[v]
                \/ v = d /\ u \in S \ {d}
                \/ u = d /\ v \in S \ {d}
<1> DEFINE h == WithEdges(g, d, S)
<1>1. /\ DOMAIN h = DOMAIN g
      /\ h = [v \in DOMAIN h |-> h[v]]
      /\ \A v \in DOMAIN g : h[v] = g[v] \cup (IF v = d THEN S \ {d} ELSE {})
                                         \cup (IF v \in S \ {d} THEN {d} ELSE {})
  BY DEF WithEdges
<1> HIDE DEF h
<1>2. \A u, v \in DOMAIN g :
        u \in h[v] <=> \/ u \in g[v]
                       \/ v = d /\ u \in S \ {d}
                       \/ u = d /\ v \in S \ {d}
  BY <1>1
<1>3. \A v \in DOMAIN g : h[v] \subseteq DOMAIN g
  BY <1>1 DEF IsUndirected
<1>4. \A u, v \in DOMAIN g : u \in h[v] => u # v /\ v \in h[u]
  BY <1>2 DEF IsUndirected
<1>5. IsUndirected(h)
  BY <1>1, <1>3, <1>4 DEF IsUndirected
<1> QED
  BY <1>1, <1>2, <1>5 DEF h

\* The clique joins the names live on entry to each other and no others.
LEMMA CliqueAdded ==
  ASSUME NEW g, IsUndirected(g), analysis.liveIn[1] \subseteq Var
  PROVE  LET entry == analysis.liveIn[1]
             h == EntryClique(g)
         IN  /\ IsUndirected(h)
             /\ DOMAIN g \subseteq DOMAIN h
             /\ \A x, y \in entry : x # y => {x, y} \subseteq DOMAIN h /\ x \in h[y]
             /\ \A u, v \in DOMAIN h :
                  u \in h[v] => \/ {u, v} \subseteq DOMAIN g /\ u \in g[v]
                                \/ u # v /\ {u, v} \subseteq entry
             /\ \A u, v \in DOMAIN g : u \in g[v] => u \in h[v]
<1> DEFINE entry == analysis.liveIn[1]
           S == IF Cardinality(entry) > 1 THEN entry ELSE {}
           w == WithNodes(g, S)
           h == EntryClique(g)
<1>1. IsFiniteSet(entry) /\ Cardinality(entry) \in Nat
  BY VarFinite, FS_Subset, FS_CardinalityType
<1>2. \A x, y \in entry : x # y => Cardinality(entry) > 1
  <2> SUFFICES ASSUME NEW x \in entry, NEW y \in entry, x # y, Cardinality(entry) <= 1
               PROVE  FALSE
    BY <1>1
  <2>1. Cardinality(entry) # 0
    BY <1>1, FS_EmptySet
  <2>2. Cardinality(entry) = 1
    BY <1>1, <2>1
  <2>3. PICK z : entry = {z}
    BY <1>1, <2>2, FS_Singleton
  <2> QED
    BY <2>3
<1>3. S \in SUBSET Var
  OBVIOUS
<1>4. \A x, y \in entry : x # y => x \in S /\ y \in S
  BY <1>2
<1>5. /\ IsUndirected(w) /\ DOMAIN w = DOMAIN g \cup S
      /\ \A v \in DOMAIN g : w[v] = g[v]
      /\ \A v \in S \ DOMAIN g : w[v] = {}
  <2> HIDE DEF S
  <2> QED
    BY <1>3, NodesAdded
<1>6. h = [u \in DOMAIN w |-> w[u] \cup (IF u \in entry THEN entry \ {u} ELSE {})]
  BY DEF EntryClique
<1> HIDE DEF h, w, S
<1>7. DOMAIN h = DOMAIN w /\ h = [v \in DOMAIN h |-> h[v]]
      /\ \A u, v \in DOMAIN w : u \in h[v] <=> u \in w[v] \/ (u # v /\ u \in entry /\ v \in entry)
  BY <1>6
<1>8. \A v \in DOMAIN w : h[v] \subseteq DOMAIN w
  BY <1>4, <1>5, <1>6 DEF IsUndirected
<1>9. IsUndirected(h)
  BY <1>5, <1>7, <1>8 DEF IsUndirected
<1>10. \A x, y \in entry : x # y => {x, y} \subseteq DOMAIN h /\ x \in h[y]
  BY <1>4, <1>5, <1>7
<1>11. \A u, v \in DOMAIN w : u \in w[v] => {u, v} \subseteq DOMAIN g /\ u \in g[v]
  BY <1>5 DEF IsUndirected
<1>12. \A u, v \in DOMAIN h :
         u \in h[v] => \/ {u, v} \subseteq DOMAIN g /\ u \in g[v]
                       \/ u # v /\ {u, v} \subseteq entry
  BY <1>7, <1>11
<1>13. \A u, v \in DOMAIN g : u \in g[v] => u \in h[v]
  BY <1>5, <1>7
<1> QED
  BY <1>5, <1>7, <1>9, <1>10, <1>12, <1>13 DEF h

-----------------------------------------------------------------------------
(***************************************************************************)
(* The steps.                                                              *)
(***************************************************************************)

\* What is known of a state in which the invariant holds.
LEMMA Known ==
  ASSUME IInv
  PROVE  /\ IsAnalysis(analysis) /\ IsUndirected(graph)
         /\ node \in Nodes /\ Nodes \subseteq Nat /\ Len(analysis.block) \in Nodes
         /\ Len(analysis.block[node]) \in Nat \ {0}
         /\ instr \in 0..Len(analysis.block[node]) /\ instr \in Nat
         /\ currRegisters \subseteq Var /\ built \in BOOLEAN
         /\ currRegisters = LiveAfter(node, instr)
<1>1. IsAnalysis(analysis) /\ node \in Nodes
  BY DEF IInv, TypeOK
<1>2. Len(analysis.block) \in Nat \ {0} /\ Len(analysis.block[node]) \in Nat \ {0}
  BY <1>1, BlocksOfAnalysis
<1> QED
  BY <1>1, <1>2 DEF IInv, TypeOK, IsUndirected, Nodes, WalkSeesLiveNames

\* The analysis is read only, and all that is defined from it stays.
LEMMA AnalysisStays ==
  ASSUME analysis' = analysis
  PROVE  /\ Nodes' = Nodes /\ Solved' = Solved
         /\ \A n, i : Instruction(n, i)' = Instruction(n, i)
         /\ \A n, i : LiveAfter(n, i)' = LiveAfter(n, i)
         /\ \A x, y : Interferes(x, y)' = Interferes(x, y)
<1>1. /\ Nodes' = Nodes /\ Solved' = Solved
      /\ \A n, i : Instruction(n, i)' = Instruction(n, i)
      /\ \A n, i : LiveAfter(n, i)' = LiveAfter(n, i)
  BY DEF Nodes, Solved, Instruction, LiveAfter
<1>2. \A x, y : Clash(x, y)' = Clash(x, y)
  BY <1>1 DEF Clash
<1>3. \A x, y : Interferes(x, y)' = Interferes(x, y)
  BY <1>2 DEF Interferes
<1> QED
  BY <1>1, <1>3

\* buildGraph is called with the result of an analysis.
Start == IsAnalysis(analysis) /\ IsSolved(analysis) /\ InitFor(analysis)

\* The invariant holds when the walk begins.
LEMMA IInvAtStart == Start => IInv
<1> SUFFICES ASSUME Start
             PROVE  IInv
  OBVIOUS
<1>1. /\ graph = [v \in {} |-> {}] /\ node = 1 /\ built = FALSE
      /\ instr = Len(analysis.block[1]) /\ currRegisters = analysis.liveOut[1]
  BY DEF Start, InitFor
<1>2. IsAnalysis(analysis) /\ Solved
  BY DEF Start, Solved
<1>3. /\ 1 \in Nodes /\ Nodes \subseteq Nat /\ Len(analysis.block[1]) \in Nat \ {0}
      /\ analysis.liveOut[1] \subseteq Var
  BY <1>2, BlocksOfAnalysis DEF Nodes
<1>4. TypeOK
  <2>1. DOMAIN graph = {} /\ graph \in [DOMAIN graph -> SUBSET DOMAIN graph]
    BY <1>1
  <2>2. instr \in 0..Len(analysis.block[node]) /\ currRegisters \subseteq Var
    BY <1>1, <1>3
  <2> QED
    BY <1>1, <1>2, <1>3, <2>1, <2>2 DEF TypeOK
<1>5. WalkSeesLiveNames
  BY <1>1, <1>2, <1>3, LiveAtEnd DEF WalkSeesLiveNames
<1>6. EdgesSound
  BY <1>1 DEF EdgesSound
<1>7. \A n \in Nodes : \A i \in 1..Len(analysis.block[n]) : ~Walked(n, i)
  BY <1>1, <1>3 DEF Walked, Nodes
<1>8. WalkedHaveEdges /\ BuiltIsFinished
  BY <1>1, <1>7 DEF WalkedHaveEdges, BuiltIsFinished
<1> QED
  BY <1>2, <1>4, <1>5, <1>6, <1>8 DEF IInv

\* Every initial state of the specification is such a call.
LEMMA IInvInitially == Init => IInv
<1>1. ASSUME NEW a \in Analyses, InitFor(a)
      PROVE  Start
  BY <1>1, AnalysesAreAnalyses, AnalysesAreSolved DEF InitFor, Start
<1> QED
  BY <1>1, IInvAtStart DEF Init

\* Edges only come, and what has been walked keeps those it has.
LEMMA WalkedKeepEdges ==
  ASSUME IInv, analysis' = analysis, DOMAIN graph \subseteq DOMAIN graph',
         \A u, v \in DOMAIN graph : u \in graph[v] => u \in graph'[v],
         NEW n \in Nodes, NEW i \in 1..Len(analysis.block[n]), Walked(n, i)
  PROVE  /\ Mentioned(Instruction(n, i)) \subseteq DOMAIN graph'
         /\ \A d \in GetDestination(Instruction(n, i)) :
              \A y \in LiveAfter(n, i) \ {d} : Joined(d, y)'
<1>1. /\ Mentioned(Instruction(n, i)) \subseteq DOMAIN graph
      /\ \A d \in GetDestination(Instruction(n, i)) :
           \A y \in LiveAfter(n, i) \ {d} : Joined(d, y)
  BY DEF IInv, WalkedHaveEdges
<1>2. \A x, y : Joined(x, y) => Joined(x, y)'
  BY DEF Joined
<1> QED
  BY <1>1, <1>2

\* One instruction of the walk.
LEMMA WalkPreservesIInv == IInv /\ WalkInstruction => IInv'
<1> SUFFICES ASSUME IInv, WalkInstruction
             PROVE  IInv'
  OBVIOUS
<1> DEFINE ins == Instruction(node, instr)
           live == Without(currRegisters, ins)
           g == WithNodes(graph, Mentioned(ins) \cup
                                 (IF GetDestination(ins) = {} THEN {} ELSE live))
<1>1. /\ ~built /\ instr > 0 /\ analysis' = analysis /\ node' = node
      /\ instr' = instr - 1 /\ built' = built
      /\ currRegisters' = live \cup GetSources(ins)
      /\ graph' = IF GetDestination(ins) = {} THEN g
                  ELSE WithEdges(g, CHOOSE d \in GetDestination(ins) : TRUE, live)
  BY DEF WalkInstruction
<1>2. /\ IsAnalysis(analysis) /\ IsUndirected(graph) /\ node \in Nodes /\ Nodes \subseteq Nat
      /\ instr \in 1..Len(analysis.block[node]) /\ instr \in Nat
      /\ Len(analysis.block[node]) \in Nat
      /\ currRegisters = LiveAfter(node, instr) /\ currRegisters \subseteq Var
  BY <1>1, Known
<1>3. GetSources(ins) \subseteq Var /\ GetDestination(ins) \subseteq Var
  BY <1>2, BlocksOfAnalysis
<1>4. live \subseteq Var /\ Mentioned(ins) \subseteq Var
  BY <1>2, <1>3 DEF Without, Mentioned
<1>5. /\ IsUndirected(g) /\ DOMAIN graph \subseteq DOMAIN g /\ Mentioned(ins) \subseteq DOMAIN g
      /\ GetDestination(ins) # {} => live \subseteq DOMAIN g
      /\ \A u, v \in DOMAIN g :
           u \in g[v] <=> {u, v} \subseteq DOMAIN graph /\ u \in graph[v]
  <2> DEFINE S == Mentioned(ins) \cup (IF GetDestination(ins) = {} THEN {} ELSE live)
  <2>1. S \in SUBSET Var /\ Mentioned(ins) \subseteq S
        /\ (GetDestination(ins) # {} => live \subseteq S)
    BY <1>4
  <2>2. g = WithNodes(graph, S)
    OBVIOUS
  <2> HIDE DEF S
  <2>3. /\ IsUndirected(WithNodes(graph, S))
        /\ DOMAIN WithNodes(graph, S) = DOMAIN graph \cup S
        /\ \A v \in DOMAIN graph : WithNodes(graph, S)[v] = graph[v]
        /\ \A v \in S \ DOMAIN graph : WithNodes(graph, S)[v] = {}
    BY <1>2, <2>1, NodesAdded
  <2> HIDE DEF g
  <2> QED
    BY <1>2, <2>1, <2>2, <2>3 DEF IsUndirected
<1>6. live = LiveAfter(node, instr) \ GetDestination(ins)
  BY <1>2 DEF Without
<1> HIDE DEF g, live
<1>7. /\ IsUndirected(graph') /\ DOMAIN graph' = DOMAIN g
      /\ \A u, v \in DOMAIN g : u \in graph'[v] <=>
           \/ u \in g[v]
           \/ v \in GetDestination(ins) /\ u \in live
           \/ u \in GetDestination(ins) /\ v \in live
  <2>1. CASE GetDestination(ins) = {}
    BY <1>1, <1>5, <2>1
  <2>2. CASE GetDestination(ins) # {}
    <3> DEFINE d == CHOOSE e \in GetDestination(ins) : TRUE
    <3>1. GetDestination(ins) = {d} /\ d \in GetDestination(ins)
      BY <2>2, OneDestination
    <3>2. graph' = WithEdges(g, d, live) /\ live \ {d} = live
      BY <1>1, <1>6, <2>2, <3>1
    <3>3. d \in DOMAIN g /\ live \in SUBSET DOMAIN g
      BY <1>5, <2>2, <3>1 DEF Mentioned
    <3> HIDE DEF d
    <3>4. /\ IsUndirected(graph') /\ DOMAIN graph' = DOMAIN g
          /\ \A u, v \in DOMAIN g : u \in graph'[v] <=>
               \/ u \in g[v]
               \/ v = d /\ u \in live \ {d}
               \/ u = d /\ v \in live \ {d}
      BY <1>5, <3>2, <3>3, EdgesAdded
    <3> QED
      BY <3>1, <3>2, <3>4
  <2> QED
    BY <2>1, <2>2
<1>8. /\ Nodes' = Nodes /\ Solved' = Solved
      /\ \A n, i : Instruction(n, i)' = Instruction(n, i)
      /\ \A n, i : LiveAfter(n, i)' = LiveAfter(n, i)
      /\ \A x, y : Interferes(x, y)' = Interferes(x, y)
  BY <1>1, AnalysisStays
<1>9. TypeOK'
  <2>1. instr' \in 0..Len(analysis.block[node]) /\ currRegisters' \subseteq Var
    BY <1>1, <1>2, <1>3, <1>4
  <2> QED
    BY <1>1, <1>2, <1>7, <1>8, <2>1 DEF TypeOK, IsUndirected, IInv
<1>10. WalkSeesLiveNames'
  <2>1. LiveAfter(node, instr - 1) = live \cup GetSources(ins)
    BY <1>2, <1>6, LiveOneBack
  <2> QED
    BY <1>1, <1>8, <2>1 DEF WalkSeesLiveNames
<1>11. EdgesSound'
  <2> SUFFICES ASSUME NEW u \in DOMAIN graph', NEW v \in DOMAIN graph', u \in graph'[v]
               PROVE  Interferes(u, v)
    BY <1>8 DEF EdgesSound
  <2>1. u # v
    BY <1>7 DEF IsUndirected
  <2>2. CASE u \in g[v]
    BY <1>5, <1>7, <2>2 DEF IInv, EdgesSound
  <2>3. CASE v \in GetDestination(ins) /\ u \in live
    BY <1>2, <1>6, <2>1, <2>3 DEF Interferes, Clash
  <2>4. CASE u \in GetDestination(ins) /\ v \in live
    BY <1>2, <1>6, <2>1, <2>4 DEF Interferes, Clash
  <2> QED
    BY <1>7, <2>2, <2>3, <2>4
<1>12. WalkedHaveEdges'
  <2> SUFFICES ASSUME NEW n \in Nodes, NEW i \in 1..Len(analysis.block[n]), Walked(n, i)'
               PROVE  /\ Mentioned(Instruction(n, i)) \subseteq DOMAIN graph'
                      /\ \A d \in GetDestination(Instruction(n, i)) :
                           \A y \in LiveAfter(n, i) \ {d} : Joined(d, y)'
    BY <1>1, <1>8 DEF WalkedHaveEdges
  <2>1. CASE Walked(n, i)
    <3>1. DOMAIN graph \subseteq DOMAIN graph'
      BY <1>5, <1>7
    <3>2. \A u, v \in DOMAIN graph : u \in graph[v] => u \in graph'[v]
      BY <1>5, <1>7
    <3> QED
      BY <1>1, <2>1, <3>1, <3>2, WalkedKeepEdges
  <2>2. CASE ~Walked(n, i)
    <3>1. n = node /\ i = instr
      BY <1>1, <1>2, <2>2 DEF Walked
    <3>2. Mentioned(ins) \subseteq DOMAIN graph'
      BY <1>5, <1>7
    <3>3. ASSUME NEW d \in GetDestination(ins), NEW y \in LiveAfter(n, i) \ {d}
          PROVE  Joined(d, y)'
      <4>1. y \in live
        BY <1>6, <3>1, <3>3, OneDestination
      <4>2. d \in DOMAIN g /\ y \in DOMAIN g
        BY <1>5, <3>3, <4>1 DEF Mentioned
      <4> QED
        BY <1>7, <3>3, <4>1, <4>2 DEF Joined
    <3> QED
      BY <3>1, <3>2, <3>3
  <2> QED
    BY <2>1, <2>2
<1>13. BuiltIsFinished'
  BY <1>1 DEF BuiltIsFinished
<1> QED
  BY <1>8, <1>9, <1>10, <1>11, <1>12, <1>13 DEF IInv

\* The walk goes on with the next block.
LEMMA NextBlockPreservesIInv == IInv /\ NextBlock => IInv'
<1> SUFFICES ASSUME IInv, NextBlock
             PROVE  IInv'
  OBVIOUS
<1>1. /\ ~built /\ instr = 0 /\ node < Len(analysis.block) /\ node' = node + 1
      /\ instr' = Len(analysis.block[node + 1])
      /\ currRegisters' = analysis.liveOut[node + 1]
      /\ analysis' = analysis /\ graph' = graph /\ built' = built
  BY DEF NextBlock
<1>2. /\ IsAnalysis(analysis) /\ node \in Nodes /\ Nodes \subseteq Nat
      /\ Len(analysis.block) \in Nat
  BY Known
<1>3. node + 1 \in Nodes
  BY <1>1, <1>2 DEF Nodes
<1>4. /\ Len(analysis.block[node + 1]) \in Nat \ {0} /\ analysis.liveOut[node + 1] \subseteq Var
      /\ \A n \in Nodes : Len(analysis.block[n]) \in Nat
  BY <1>2, <1>3, BlocksOfAnalysis
<1>5. /\ Nodes' = Nodes /\ Solved' = Solved
      /\ \A n, i : Instruction(n, i)' = Instruction(n, i)
      /\ \A n, i : LiveAfter(n, i)' = LiveAfter(n, i)
      /\ \A x, y : Interferes(x, y)' = Interferes(x, y)
  BY <1>1, AnalysisStays
<1>6. TypeOK'
  BY <1>1, <1>3, <1>4, <1>5 DEF IInv, TypeOK
<1>7. WalkSeesLiveNames'
  BY <1>1, <1>2, <1>3, <1>5, LiveAtEnd DEF WalkSeesLiveNames
<1>8. EdgesSound'
  BY <1>1, <1>5 DEF IInv, EdgesSound
<1>9. \A n \in Nodes : \A i \in 1..Len(analysis.block[n]) : Walked(n, i)' => Walked(n, i)
  BY <1>1, <1>2, <1>4 DEF Walked
<1>10. WalkedHaveEdges'
  BY <1>1, <1>5, <1>9 DEF IInv, WalkedHaveEdges, Joined
<1>11. BuiltIsFinished'
  BY <1>1 DEF BuiltIsFinished
<1> QED
  BY <1>5, <1>6, <1>7, <1>8, <1>10, <1>11 DEF IInv

\* The clique of the names live on entry ends the walk.
LEMMA CliquePreservesIInv == IInv /\ AddEntryClique => IInv'
<1> SUFFICES ASSUME IInv, AddEntryClique
             PROVE  IInv'
  OBVIOUS
<1> DEFINE entry == analysis.liveIn[1]
<1>1. /\ ~built /\ instr = 0 /\ node = Len(analysis.block)
      /\ graph' = EntryClique(graph) /\ built' = TRUE
      /\ analysis' = analysis /\ node' = node /\ instr' = instr
      /\ currRegisters' = currRegisters
  BY DEF AddEntryClique
<1>2. IsAnalysis(analysis) /\ IsUndirected(graph) /\ entry \subseteq Var
  BY Known, BlocksOfAnalysis
<1>3. /\ IsUndirected(graph')
      /\ DOMAIN graph \subseteq DOMAIN graph'
      /\ \A x, y \in entry : x # y => {x, y} \subseteq DOMAIN graph' /\ x \in graph'[y]
      /\ \A u, v \in DOMAIN graph' :
           u \in graph'[v] => \/ {u, v} \subseteq DOMAIN graph /\ u \in graph[v]
                              \/ u # v /\ {u, v} \subseteq entry
      /\ \A u, v \in DOMAIN graph : u \in graph[v] => u \in graph'[v]
  BY <1>1, <1>2, CliqueAdded
<1>4. /\ Nodes' = Nodes /\ Solved' = Solved
      /\ \A n, i : Instruction(n, i)' = Instruction(n, i)
      /\ \A n, i : LiveAfter(n, i)' = LiveAfter(n, i)
      /\ \A x, y : Interferes(x, y)' = Interferes(x, y)
  BY <1>1, AnalysisStays
<1>5. TypeOK'
  BY <1>1, <1>3, <1>4 DEF IInv, TypeOK, IsUndirected
<1>6. WalkSeesLiveNames'
  BY <1>1, <1>4 DEF IInv, WalkSeesLiveNames
<1>7. EdgesSound'
  BY <1>3, <1>4 DEF IInv, EdgesSound, Interferes
<1>8. WalkedHaveEdges'
  <2> SUFFICES ASSUME NEW n \in Nodes, NEW i \in 1..Len(analysis.block[n]), Walked(n, i)'
               PROVE  /\ Mentioned(Instruction(n, i)) \subseteq DOMAIN graph'
                      /\ \A d \in GetDestination(Instruction(n, i)) :
                           \A y \in LiveAfter(n, i) \ {d} : Joined(d, y)'
    BY <1>1, <1>4 DEF WalkedHaveEdges
  <2>1. Walked(n, i)
    BY <1>1 DEF Walked
  <2> QED
    BY <1>1, <1>3, <2>1, WalkedKeepEdges
<1>9. BuiltIsFinished'
  BY <1>1, <1>3 DEF BuiltIsFinished, Joined
<1> QED
  BY <1>4, <1>5, <1>6, <1>7, <1>8, <1>9 DEF IInv

\* Every step keeps the invariant.
LEMMA IInvNext == IInv /\ [Next]_vars => IInv'
<1> SUFFICES ASSUME IInv, UNCHANGED vars
             PROVE  IInv'
  BY WalkPreservesIInv, NextBlockPreservesIInv, CliquePreservesIInv DEF Next
<1>1. /\ analysis' = analysis /\ graph' = graph /\ node' = node /\ instr' = instr
      /\ currRegisters' = currRegisters /\ built' = built
  BY DEF vars
<1>2. /\ Nodes' = Nodes /\ Solved' = Solved
      /\ \A n, i : Instruction(n, i)' = Instruction(n, i)
      /\ \A n, i : LiveAfter(n, i)' = LiveAfter(n, i)
      /\ \A x, y : Interferes(x, y)' = Interferes(x, y)
  BY <1>1, AnalysisStays
<1>3. TypeOK' /\ WalkSeesLiveNames' /\ EdgesSound' /\ BuiltIsFinished'
  BY <1>1, <1>2 DEF IInv, TypeOK, WalkSeesLiveNames, EdgesSound, BuiltIsFinished, Joined
<1>4. WalkedHaveEdges'
  BY <1>1, <1>2 DEF IInv, WalkedHaveEdges, Walked, Joined
<1> QED
  BY <1>2, <1>3, <1>4 DEF IInv

\* The invariant holds throughout.
LEMMA Invariance == Spec => []IInv
BY IInvInitially, IInvNext, PTL DEF Spec

-----------------------------------------------------------------------------
(***************************************************************************)
(* What follows from the invariant.                                        *)
(***************************************************************************)

\* In the finished graph the edges are the interferences.
LEMMA BuiltHasAllEdges ==
  ASSUME IInv, built, NEW x \in Var, NEW y \in Var, Interferes(x, y)
  PROVE  Joined(x, y)
<1>1. node = Len(analysis.block) /\ instr = 0 /\ node \in Nat /\ Nodes = 1..node
  BY Known DEF IInv, BuiltIsFinished, Nodes
<1>2. \A n \in Nodes : Len(analysis.block[n]) \in Nat
  BY Known, BlocksOfAnalysis
<1>3. \A n \in Nodes : \A i \in 1..Len(analysis.block[n]) : Walked(n, i)
  BY <1>1, <1>2 DEF Walked
<1>4. CASE Clash(x, y)
  <2>0. PICK n \in Nodes : \E i \in 1..Len(analysis.block[n]) :
          \/ x \in GetDestination(Instruction(n, i)) /\ y \in LiveAfter(n, i)
          \/ y \in GetDestination(Instruction(n, i)) /\ x \in LiveAfter(n, i)
    BY <1>4 DEF Clash
  <2>1. PICK i \in 1..Len(analysis.block[n]) :
          \/ x \in GetDestination(Instruction(n, i)) /\ y \in LiveAfter(n, i)
          \/ y \in GetDestination(Instruction(n, i)) /\ x \in LiveAfter(n, i)
    BY <2>0
  <2>2. Joined(x, y) \/ Joined(y, x)
    BY <1>3, <2>1 DEF IInv, WalkedHaveEdges, Interferes
  <2> QED
    BY <2>2 DEF Joined
<1>5. CASE {x, y} \subseteq analysis.liveIn[1]
  BY <1>5 DEF IInv, BuiltIsFinished, Interferes
<1> QED
  BY <1>4, <1>5 DEF Interferes

\* Two names live at one point of a block clash in it, or are both live at
\* its beginning.
LEMMA LiveTogetherInBlock ==
  ASSUME IsAnalysis(analysis), NEW n \in Nodes, NEW i \in 0..Len(analysis.block[n]),
         NEW x, NEW y, x # y, {x, y} \subseteq LiveAfter(n, i)
  PROVE  Clash(x, y) \/ {x, y} \subseteq LiveAfter(n, 0)
<1> DEFINE l == Len(analysis.block[n])
           P(k) == {x, y} \subseteq LiveAfter(n, k) =>
                     Clash(x, y) \/ {x, y} \subseteq LiveAfter(n, 0)
           S == { k \in 0..l : P(k) }
<1>1. l \in Nat
  BY BlocksOfAnalysis
<1>2. ASSUME NEW k \in 0..(l - 1), P(k)
      PROVE  P(k + 1)
  <2> SUFFICES ASSUME {x, y} \subseteq LiveAfter(n, k + 1)
               PROVE  Clash(x, y) \/ {x, y} \subseteq LiveAfter(n, 0)
    OBVIOUS
  <2>1. k + 1 \in 1..l /\ (k + 1) - 1 = k
    BY <1>1
  <2>2. LiveAfter(n, k + 1) \ GetDestination(Instruction(n, k + 1)) \subseteq LiveAfter(n, k)
    BY <2>1, LiveOneBack
  <2>3. CASE x \in GetDestination(Instruction(n, k + 1))
    BY <2>1, <2>3 DEF Clash
  <2>4. CASE y \in GetDestination(Instruction(n, k + 1))
    BY <2>1, <2>4 DEF Clash
  <2>5. CASE {x, y} \cap GetDestination(Instruction(n, k + 1)) = {}
    BY <1>2, <2>2, <2>5
  <2> QED
    BY <2>3, <2>4, <2>5
<1>3. P(0)
  OBVIOUS
<1> HIDE DEF P
<1>4. 0 \in S /\ \A k \in 0..(l - 1) : k \in S => k + 1 \in S
  BY <1>1, <1>2, <1>3
<1>5. 0..l \subseteq S
  <2> HIDE DEF S
  <2> QED
    BY <1>1, <1>4, IntervalInduction
<1> QED
  BY <1>5 DEF P

\* Names live together where execution can come interfere: they clash in some
\* block, or they are live together on every way back to the first block.
LEMMA LiveTogetherMeansInterferes ==
  ASSUME IsAnalysis(analysis), Solved,
         NEW n \in Reachable, NEW i \in 0..Len(analysis.block[n]),
         NEW x, NEW y, x # y, {x, y} \subseteq LiveAfter(n, i)
  PROVE  Interferes(x, y)
<1> DEFINE S == { m \in Nodes : {x, y} \subseteq analysis.liveIn[m] => Interferes(x, y) }
<1>1. 1 \in S
  BY BlocksOfAnalysis DEF Interferes
<1>2. ASSUME NEW m \in Nodes, NEW k \in 0..Len(analysis.block[m]),
             m \in S, {x, y} \subseteq LiveAfter(m, k)
      PROVE  Interferes(x, y)
  <2>1. analysis.liveIn[m] = LiveAfter(m, 0)
    BY DEF Solved, IsSolved, LiveAfter, Nodes
  <2> QED
    BY <1>2, <2>1, LiveTogetherInBlock DEF Interferes
<1>3. ASSUME NEW m \in S, NEW t \in Range(analysis.to[m])
      PROVE  t \in S
  <2>1. m \in Nodes /\ t \in Nodes /\ Len(analysis.block[m]) \in Nat
    BY BlocksOfAnalysis
  <2>2. analysis.liveIn[t] \subseteq analysis.liveOut[m]
    BY <2>1 DEF Solved, IsSolved, Nodes
  <2>3. analysis.liveOut[m] = LiveAfter(m, Len(analysis.block[m]))
    BY <2>1, LiveAtEnd
  <2> QED
    BY <1>2, <2>1, <2>2, <2>3
<1>4. n \in Nodes /\ n \in S
  BY <1>1, <1>3 DEF Reachable
<1> QED
  BY <1>2, <1>4

\* buildGraph keeps an undirected graph without loops over the names of the
\* function, and its walk stays in the blocks.
THEOREM TypeCorrect == Spec => []TypeOK
<1>1. IInv => TypeOK
  BY DEF IInv
<1> QED
  BY <1>1, Invariance, PTL

\* currRegisters, carried backwards by buildGraph, is what is live at each
\* point of each block.
THEOREM WalkIsLiveness == Spec => []WalkSeesLiveNames
<1>1. IInv => WalkSeesLiveNames
  BY DEF IInv
<1> QED
  BY <1>1, Invariance, PTL

\* buildGraph makes an edge for each interference and for nothing else, and a
\* node for each name an instruction mentions.
THEOREM EdgesCorrect == Spec => []EdgesAreInterferences
<1>1. IInv => EdgesAreInterferences
  <2> SUFFICES ASSUME IInv
               PROVE  EdgesAreInterferences
    OBVIOUS
  <2>1. built => \A x, y \in Var : Interferes(x, y) => {x, y} \subseteq DOMAIN graph
                                                       /\ x \in graph[y]
    BY BuiltHasAllEdges DEF Joined
  <2>2. ASSUME built, NEW n \in Nodes, NEW i \in 1..Len(analysis.block[n])
        PROVE  Mentioned(Instruction(n, i)) \subseteq DOMAIN graph
    <3>1. node = Len(analysis.block) /\ instr = 0
      BY <2>2 DEF IInv, BuiltIsFinished
    <3>2. Len(analysis.block[n]) \in Nat /\ Len(analysis.block) \in Nat
      BY Known, BlocksOfAnalysis
    <3>3. Walked(n, i)
      BY <3>1, <3>2 DEF Walked, Nodes
    <3> QED
      BY <3>3 DEF IInv, WalkedHaveEdges
  <2> QED
    BY <2>1, <2>2 DEF IInv, EdgesSound, EdgesAreInterferences, Mentioned
<1> QED
  BY <1>1, Invariance, PTL

\* Two names that are live together anywhere execution can come have an edge,
\* although buildGraph makes edges at writes and at the entry only.
THEOREM LiveTogetherHaveEdges == Spec => []LiveTogetherInterfere
<1>1. IInv => LiveTogetherInterfere
  <2> SUFFICES ASSUME IInv, built, NEW n \in Reachable,
                      NEW i \in 0..Len(analysis.block[n]),
                      NEW x \in LiveAfter(n, i), NEW y \in LiveAfter(n, i), x # y
               PROVE  x \in graph[y]
    BY DEF LiveTogetherInterfere
  <2>1. Interferes(x, y)
    BY Known, LiveTogetherMeansInterferes DEF IInv
  <2>2. x \in Var /\ y \in Var
    BY DEF LiveAfter, LiveAfterIn
  <2> QED
    BY <2>1, <2>2, BuiltHasAllEdges DEF Joined
<1> QED
  BY <1>1, Invariance, PTL

=============================================================================
