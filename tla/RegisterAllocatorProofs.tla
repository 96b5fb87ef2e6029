----------------------- MODULE RegisterAllocatorProofs -----------------------
(***************************************************************************)
(* Theorems about RegisterAllocator, for every finite set of variables,    *)
(* every finite pool of registers and every interference graph.            *)
(***************************************************************************)
EXTENDS RegisterAllocator, FiniteSetTheorems, SequenceTheorems, TLAPS

(***************************************************************************)
(* The inductive invariant.  Besides the types it says that the stack has  *)
(* no duplicates, that remaining, the stack, the coloured and the spilled  *)
(* variables partition the nodes, that nothing is placed before the graph  *)
(* is empty, and, for each node that was not a potential spill, that fewer *)
(* than k of its neighbours lie outside the part of the stack up to it.    *)
(* The last conjunct mentions no variable that changes while the node is   *)
(* on the stack, which is why Kempe's argument survives everything that    *)
(* happens between a node's push and its pop.                              *)
(***************************************************************************)
StackInjective ==
  \A i, j \in 1..Len(registerStack) :
     registerStack[i] = registerStack[j] => i = j

Partition ==
  /\ \A i \in 1..Len(registerStack) :
        registerStack[i] \notin remaining \cup DOMAIN registers \cup spilled
  /\ remaining \cap (DOMAIN registers \cup spilled) = {}
  /\ DOMAIN registers \cap spilled = {}
  /\ \A v \in Nodes :
        \/ v \in remaining \cup DOMAIN registers \cup spilled
        \/ \E i \in 1..Len(registerStack) : registerStack[i] = v

PlacedAfterSimplify == remaining # {} => DOMAIN registers \cup spilled = {}

Prefix(i) == { registerStack[j] : j \in 1..i }

Kempe ==
  \A i \in 1..Len(registerStack) :
     registerStack[i] \notin potentialSpills =>
        Cardinality(graph[registerStack[i]] \ Prefix(i)) < K

IInv ==
  /\ TypeOK
  /\ StackInjective
  /\ Partition
  /\ PlacedAfterSimplify
  /\ DegreeIsResidual
  /\ Kempe
  /\ NoSharedRegister
  /\ OnlyPotentialSpillsSpill

-----------------------------------------------------------------------------
(***************************************************************************)
(* Lemmas about finite sets of nodes.                                      *)
(***************************************************************************)

\* Everything the invariant counts is finite.
LEMMA NodesFinite ==
  ASSUME TypeOK
  PROVE  /\ IsFiniteSet(Nodes)
         /\ \A S \in SUBSET Nodes : IsFiniteSet(S) /\ Cardinality(S) \in Nat
         /\ \A v \in Nodes : graph[v] \in SUBSET Nodes
<1>1. IsFiniteSet(Nodes)
  BY VarFinite, FS_Subset DEF TypeOK, Nodes, Colors!IsInterferenceGraph
<1>2. \A S \in SUBSET Nodes : IsFiniteSet(S) /\ Cardinality(S) \in Nat
  BY <1>1, FS_Subset, FS_CardinalityType
<1>3. \A v \in Nodes : graph[v] \in SUBSET Nodes
  BY DEF TypeOK, Nodes, Colors!IsInterferenceGraph
<1> QED
  BY <1>1, <1>2, <1>3

\* Fewer than k neighbours hold registers, so at least one register is free:
\* the colouring loop of allocator.cpp cannot spill such a variable.
LEMMA FewNeighboursLeaveARegister ==
  ASSUME TypeOK, NEW v \in Nodes, NEW S \in SUBSET Nodes,
         graph[v] \cap DOMAIN registers \subseteq S, Cardinality(S) < K
  PROVE  CopySet(v) # {}
<1> DEFINE N == graph[v] \cap DOMAIN registers
           f == [n \in N |-> registers[n]]
           Used == { registers[n] : n \in N }
<1>1. IsFiniteSet(S) /\ IsFiniteSet(N) /\ Cardinality(N) <= Cardinality(S)
  BY NodesFinite, FS_Subset
<1>2. IsFiniteSet(Used) /\ Cardinality(Used) <= Cardinality(N)
  <2>1. f \in Surjection(N, Used)
    BY DEF Surjection
  <2> QED
    BY <1>1, <2>1, FS_Surjection
<1>3. /\ Cardinality(S) \in Nat /\ Cardinality(N) \in Nat
      /\ Cardinality(Used) \in Nat /\ K \in Nat
  BY <1>1, <1>2, RegFinite, FS_CardinalityType DEF K
<1>4. ASSUME CopySet(v) = {} PROVE FALSE
  <2>1. Reg \subseteq Used
    BY <1>4 DEF CopySet
  <2>2. K <= Cardinality(Used)
    BY <1>2, <2>1, FS_Subset DEF K
  <2> QED
    BY <1>1, <1>2, <1>3, <2>2
<1> QED
  BY <1>4

-----------------------------------------------------------------------------
(***************************************************************************)
(* The invariant is inductive.                                             *)
(***************************************************************************)

\* allocateGraph is called with an interference graph.
Start == Colors!IsInterferenceGraph(graph) /\ InitFor(graph)

\* The allocator starts with every node in the graph and nothing decided.
LEMMA IInvAtStart == Start => IInv
<1> SUFFICES ASSUME Start PROVE IInv
  OBVIOUS
<1> USE DEF Start, InitFor
<1>1. Colors!IsInterferenceGraph(graph)
  OBVIOUS
<1>2. IsFiniteSet(Nodes) /\ \A v \in Nodes : graph[v] \in SUBSET Nodes
  BY <1>1, VarFinite, FS_Subset DEF Nodes, Colors!IsInterferenceGraph
<1>3. TypeOK
  <2>1. \A v \in Nodes : Cardinality(graph[v]) \in Nat
    BY <1>2, FS_Subset, FS_CardinalityType
  <2> QED
    BY <1>1, <1>2, <2>1 DEF TypeOK
<1>4. DegreeIsResidual
  <2>1. \A v \in Nodes : graph[v] \cap Nodes = graph[v]
    BY <1>2
  <2> QED
    BY <2>1 DEF DegreeIsResidual
<1>5. StackInjective /\ Partition /\ PlacedAfterSimplify /\ Kempe
  BY DEF StackInjective, Partition, PlacedAfterSimplify, Kempe
<1>6. NoSharedRegister /\ OnlyPotentialSpillsSpill
  BY DEF NoSharedRegister, OnlyPotentialSpillsSpill
<1> QED
  BY <1>3, <1>4, <1>5, <1>6 DEF IInv

\* Every initial state of the specification is such a call.
LEMMA IInvInitially == Init => IInv
<1> SUFFICES ASSUME NEW g \in Colors!InterferenceGraphs, InitFor(g)
             PROVE  Start
  BY IInvAtStart DEF Init
<1> QED
  BY DEF Start, InitFor, Nodes, Colors!InterferenceGraphs

\* Both ways of taking a node off the graph keep the invariant: a node not
\* recorded as a potential spill had a residual degree below k.
LEMMA PushPreservesIInv ==
  ASSUME IInv, NEW v \in remaining, Push(v),
         potentialSpills \subseteq potentialSpills',
         potentialSpills' \subseteq Nodes,
         v \notin potentialSpills' => degree[v] < K
  PROVE  IInv'
<1> DEFINE n == Len(registerStack)
<1>1. /\ TypeOK /\ v \in Nodes /\ registerStack \in Seq(Nodes) /\ n \in Nat
      /\ Nodes' = Nodes /\ graph' = graph
      /\ registers' = registers /\ spilled' = spilled
      /\ remaining' = remaining \ {v} /\ registerStack' = Append(registerStack, v)
      /\ degree' = DegreesWithout(v)
  BY DEF IInv, TypeOK, Push, Nodes
<1>2. /\ Len(registerStack') = n + 1
      /\ registerStack' \in Seq(Nodes)
      /\ registerStack'[n + 1] = v
      /\ \A i \in 1..n : registerStack'[i] = registerStack[i]
      /\ \A i \in 1..n : registerStack[i] \in Nodes
  BY <1>1
<1>3. \A u, w \in Nodes : u \in graph[w] => u # w /\ w \in graph[u]
  BY <1>1 DEF TypeOK, Colors!IsInterferenceGraph, Nodes
<1>4. DegreeIsResidual' /\ degree' \in [Nodes -> Nat]
  <2>1. \A u \in Nodes : degree[u] \in Nat
    BY <1>1 DEF TypeOK
  <2>2. ASSUME NEW u \in remaining \ {v}, u \in graph[v]
        PROVE  /\ Cardinality(graph[u] \cap (remaining \ {v})) = degree[u] - 1
               /\ degree[u] - 1 \in Nat
    <3> DEFINE S == graph[u] \cap remaining
    <3>1. u \in Nodes /\ S \in SUBSET Nodes /\ IsFiniteSet(S) /\ v \in S
      BY <1>1, <1>3, <2>2, NodesFinite DEF TypeOK
    <3>2. Cardinality(S \ {v}) = Cardinality(S) - 1 /\ IsFiniteSet(S \ {v})
      BY <3>1, FS_RemoveElement
    <3>3. S \ {v} = graph[u] \cap (remaining \ {v})
      OBVIOUS
    <3>4. degree[u] = Cardinality(S)
      BY <2>2 DEF IInv, DegreeIsResidual
    <3>5. Cardinality(S \ {v}) \in Nat
      BY <3>2, FS_CardinalityType
    <3> QED
      BY <3>2, <3>3, <3>4, <3>5
  <2>3. ASSUME NEW u \in remaining \ {v}, u \notin graph[v]
        PROVE  Cardinality(graph[u] \cap (remaining \ {v})) = degree[u]
    <3>1. graph[u] \cap (remaining \ {v}) = graph[u] \cap remaining
      BY <1>1, <1>3, <2>3 DEF TypeOK
    <3> QED
      BY <3>1, <2>3 DEF IInv, DegreeIsResidual
  <2>4. \A u \in Nodes :
           degree'[u] = IF u \in graph[v] /\ u \in remaining \ {v}
                          THEN degree[u] - 1 ELSE degree[u]
    BY <1>1 DEF DegreesWithout
  <2>5. degree' \in [Nodes -> Nat]
    <3>1. \A u \in Nodes : degree'[u] \in Nat
      BY <2>1, <2>2, <2>4
    <3>2. degree' = [u \in Nodes |-> degree'[u]]
      BY <1>1 DEF DegreesWithout
    <3> QED
      BY <3>1, <3>2
  <2>6. \A u \in remaining \ {v} :
           degree'[u] = Cardinality(graph[u] \cap (remaining \ {v}))
    <3>1. remaining \ {v} \subseteq Nodes
      BY <1>1 DEF TypeOK
    <3> QED
      BY <2>2, <2>3, <2>4, <3>1
  <2> QED
    BY <2>5, <2>6, <1>1 DEF DegreeIsResidual
<1>5. TypeOK'
  BY <1>1, <1>2, <1>4 DEF TypeOK, Nodes
<1>6. DOMAIN registers \cup spilled = {}
  BY DEF IInv, PlacedAfterSimplify
<1>7. \A i \in 1..n : registerStack[i] # v
  BY DEF IInv, Partition
<1>8. StackInjective'
  BY <1>1, <1>2, <1>7 DEF IInv, StackInjective
<1>9. Partition'
  <2>1. \A i \in 1..(n + 1) :
           registerStack'[i] \notin (remaining \ {v}) \cup DOMAIN registers \cup spilled
    BY <1>1, <1>2, <1>6 DEF IInv, Partition
  <2>2. ASSUME NEW u \in Nodes
        PROVE  \/ u \in remaining \ {v}
               \/ \E i \in 1..(n + 1) : registerStack'[i] = u
    <3>1. CASE u = v
      BY <1>1, <1>2, <3>1
    <3>2. CASE u # v
      <4>1. u \in remaining \/ \E i \in 1..n : registerStack[i] = u
        BY <1>6 DEF IInv, Partition
      <4> QED
        BY <1>1, <1>2, <3>2, <4>1
    <3> QED
      BY <3>1, <3>2
  <2> QED
    BY <1>1, <1>2, <1>6, <2>1, <2>2 DEF Partition
<1>10. PlacedAfterSimplify'
  BY <1>1, <1>6 DEF PlacedAfterSimplify
<1>11. Kempe'
  <2> SUFFICES ASSUME NEW i \in 1..(n + 1), registerStack'[i] \notin potentialSpills'
               PROVE  Cardinality(graph[registerStack'[i]] \ Prefix(i)') < K
    BY <1>1, <1>2 DEF Kempe
  <2>1. CASE i \in 1..n
    <3>1. Prefix(i)' = Prefix(i)
      BY <1>1, <1>2, <2>1 DEF Prefix
    <3>2. Cardinality(graph[registerStack[i]] \ Prefix(i)) < K
      BY <1>2, <2>1 DEF IInv, Kempe
    <3> QED
      BY <1>2, <2>1, <3>1, <3>2
  <2>2. CASE i = n + 1
    <3> DEFINE S == graph[v] \ Prefix(i)'
    <3>1. \A j \in 1..n : registerStack[j] \in Prefix(i)'
      BY <1>1, <1>2, <2>2 DEF Prefix
    <3>2. S \subseteq graph[v] \cap remaining
      <4>1. \A u \in Nodes : u \in remaining \/ \E j \in 1..n : registerStack[j] = u
        BY <1>6 DEF IInv, Partition
      <4>2. graph[v] \subseteq Nodes
        BY <1>1, NodesFinite
      <4> QED
        BY <3>1, <4>1, <4>2
    <3>3. /\ IsFiniteSet(graph[v] \cap remaining)
          /\ Cardinality(graph[v] \cap remaining) \in Nat
      BY <1>1, NodesFinite DEF TypeOK
    <3>4. IsFiniteSet(S) /\ Cardinality(S) <= Cardinality(graph[v] \cap remaining)
      BY <3>2, <3>3, FS_Subset
    <3>5. Cardinality(S) \in Nat /\ K \in Nat
      BY <3>4, RegFinite, FS_CardinalityType DEF K
    <3>6. Cardinality(graph[v] \cap remaining) < K
      BY <1>2, <2>2 DEF IInv, DegreeIsResidual
    <3>7. Cardinality(S) < K
      BY <3>3, <3>4, <3>5, <3>6
    <3>8. registerStack'[i] = v
      BY <1>2, <2>2
    <3> QED
      BY <1>1, <3>7, <3>8
  <2>3. i \in 1..n \/ i = n + 1
    BY <1>1
  <2> QED
    BY <2>1, <2>2, <2>3
<1>12. NoSharedRegister' /\ OnlyPotentialSpillsSpill'
  BY <1>1 DEF IInv, NoSharedRegister, OnlyPotentialSpillsSpill
<1> QED
  BY <1>4, <1>5, <1>8, <1>9, <1>10, <1>11, <1>12 DEF IInv

\* pop() takes the last entry and leaves the others where they are.
LEMMA PopShrinksTheStack ==
  ASSUME NEW S, NEW s \in Seq(S), s # <<>>
  PROVE  LET t == SubSeq(s, 1, Len(s) - 1)
         IN  /\ Len(s) \in Nat \ {0}
             /\ s[Len(s)] \in S
             /\ t \in Seq(S) /\ Len(t) = Len(s) - 1
             /\ \A i \in 1..(Len(s) - 1) : i \in 1..Len(s) /\ t[i] = s[i]
<1>1. Len(s) \in Nat \ {0} /\ s[Len(s)] \in S
  OBVIOUS
<1>2. \A i \in 1..(Len(s) - 1) : i \in 1..Len(s) /\ s[i] \in S
  BY <1>1
<1>3. /\ SubSeq(s, 1, Len(s) - 1) \in Seq(S)
      /\ Len(SubSeq(s, 1, Len(s) - 1)) = Len(s) - 1
      /\ \A i \in 1..(Len(s) - 1) : SubSeq(s, 1, Len(s) - 1)[i] = s[i]
  <2> DEFINE m == Len(s) - 1
             t == SubSeq(s, 1, m)
  <2>1. m \in Nat /\ 1 \in Int /\ m \in Int /\ \A i \in 1..m : s[i] \in S
    BY <1>1, <1>2
  <2> HIDE DEF m
  <2>2. /\ t \in Seq(S)
        /\ Len(t) = IF 1 <= m THEN m - 1 + 1 ELSE 0
        /\ \A i \in 1..(m - 1 + 1) : t[i] = s[1 + i - 1]
    BY <2>1, SubSeqProperties
  <2>3. Len(t) = m /\ \A i \in 1..m : t[i] = s[i]
    BY <2>1, <2>2
  <2> QED
    BY <2>2, <2>3 DEF m
<1> QED
  BY <1>1, <1>2, <1>3

\* A coloured node leaves the stack with a register none of its neighbours has.
LEMMA ColorPreservesIInv ==
  ASSUME IInv, NEW r \in Reg, Color(r)
  PROVE  IInv'
<1> DEFINE n == Len(registerStack)
           v == registerStack[n]
<1>1. /\ TypeOK /\ registerStack \in Seq(Nodes) /\ n \in Nat \ {0}
      /\ Nodes' = Nodes /\ graph' = graph /\ degree' = degree
      /\ spilled' = spilled /\ potentialSpills' = potentialSpills
      /\ remaining = {} /\ remaining' = {}
      /\ registerStack # <<>> /\ registerStack' = SubSeq(registerStack, 1, n - 1)
      /\ registers' = [u \in DOMAIN registers \cup {v} |->
                         IF u = v THEN r ELSE registers[u]]
      /\ r \in CopySet(v)
  BY DEF IInv, TypeOK, Color, Pop, Top, Nodes
<1>2. /\ v \in Nodes
      /\ Len(registerStack') = n - 1
      /\ registerStack' \in Seq(Nodes)
      /\ \A i \in 1..(n - 1) : i \in 1..n /\ registerStack'[i] = registerStack[i]
  BY <1>1, PopShrinksTheStack
<1>3. /\ v \notin DOMAIN registers \cup spilled
      /\ \A i \in 1..(n - 1) : registerStack[i] # v
  <2>1. n \in 1..n /\ \A i \in 1..(n - 1) : i \in 1..n /\ i # n
    BY <1>1
  <2> QED
    BY <2>1 DEF IInv, Partition, StackInjective
<1>4. TypeOK'
  BY <1>1, <1>2 DEF TypeOK
<1>5. StackInjective'
  BY <1>1, <1>2 DEF IInv, StackInjective
<1>6. Partition'
  BY SMTT(30), <1>1, <1>2, <1>3 DEF IInv, Partition
<1>7. PlacedAfterSimplify' /\ DegreeIsResidual' /\ OnlyPotentialSpillsSpill'
  BY <1>1 DEF IInv, PlacedAfterSimplify, DegreeIsResidual, OnlyPotentialSpillsSpill
<1>8. Kempe'
  <2> SUFFICES ASSUME NEW i \in 1..(n - 1), registerStack[i] \notin potentialSpills
               PROVE  Cardinality(graph[registerStack[i]] \ Prefix(i)') < K
    BY <1>1, <1>2 DEF Kempe
  <2>1. \A j \in 1..i : j \in 1..(n - 1)
    BY <1>1
  <2>2. Prefix(i)' = Prefix(i)
    BY <1>2, <2>1 DEF Prefix
  <2> QED
    BY <1>2, <2>2 DEF IInv, Kempe
<1>9. NoSharedRegister'
  BY <1>1 DEF IInv, NoSharedRegister, CopySet, TypeOK, Colors!IsInterferenceGraph, Nodes
<1> QED
  BY <1>4, <1>5, <1>6, <1>7, <1>8, <1>9 DEF IInv

\* A node is spilled only if it was a potential spill: any other node would
\* have found a register.
LEMMA SpillPreservesIInv ==
  ASSUME IInv, Spill
  PROVE  IInv'
<1> DEFINE n == Len(registerStack)
           v == registerStack[n]
<1>1. /\ TypeOK /\ registerStack \in Seq(Nodes) /\ n \in Nat \ {0}
      /\ Nodes' = Nodes /\ graph' = graph /\ degree' = degree
      /\ registers' = registers /\ potentialSpills' = potentialSpills
      /\ remaining = {} /\ remaining' = {}
      /\ registerStack # <<>> /\ registerStack' = SubSeq(registerStack, 1, n - 1)
      /\ spilled' = spilled \cup {v}
      /\ CopySet(v) = {}
  BY DEF IInv, TypeOK, Spill, SpilledWith, Pop, Top, Nodes
<1>2. /\ v \in Nodes
      /\ Len(registerStack') = n - 1
      /\ registerStack' \in Seq(Nodes)
      /\ \A i \in 1..(n - 1) : i \in 1..n /\ registerStack'[i] = registerStack[i]
  BY <1>1, PopShrinksTheStack
<1>3. /\ v \notin DOMAIN registers \cup spilled
      /\ \A i \in 1..(n - 1) : registerStack[i] # v
  <2>1. n \in 1..n /\ \A i \in 1..(n - 1) : i \in 1..n /\ i # n
    BY <1>1
  <2> QED
    BY <2>1 DEF IInv, Partition, StackInjective
<1>4. TypeOK'
  BY <1>1, <1>2 DEF TypeOK
<1>5. StackInjective'
  BY <1>1, <1>2 DEF IInv, StackInjective
<1>6. Partition'
  BY SMTT(30), <1>1, <1>2, <1>3 DEF IInv, Partition
<1>7. PlacedAfterSimplify' /\ DegreeIsResidual' /\ NoSharedRegister'
  BY <1>1 DEF IInv, PlacedAfterSimplify, DegreeIsResidual, NoSharedRegister
<1>8. Kempe'
  <2> SUFFICES ASSUME NEW i \in 1..(n - 1), registerStack[i] \notin potentialSpills
               PROVE  Cardinality(graph[registerStack[i]] \ Prefix(i)') < K
    BY <1>1, <1>2 DEF Kempe
  <2>1. \A j \in 1..i : j \in 1..(n - 1)
    BY <1>1
  <2>2. Prefix(i)' = Prefix(i)
    BY <1>2, <2>1 DEF Prefix
  <2> QED
    BY <1>2, <2>2 DEF IInv, Kempe
<1>9. OnlyPotentialSpillsSpill'
  <2>1. v \in potentialSpills
    <3> SUFFICES ASSUME v \notin potentialSpills PROVE FALSE
      OBVIOUS
    <3> DEFINE S == graph[v] \ Prefix(n)
    <3>1. Cardinality(S) < K
      BY <1>1 DEF IInv, Kempe
    <3>2. \A u \in Prefix(n) : u \notin DOMAIN registers
      BY <1>1 DEF IInv, Partition, Prefix
    <3>3. graph[v] \cap DOMAIN registers \subseteq S
      BY <3>2
    <3>4. S \in SUBSET Nodes
      BY <1>1, <1>2, NodesFinite
    <3>5. CopySet(v) # {}
      BY <1>1, <1>2, <3>1, <3>3, <3>4, FewNeighboursLeaveARegister
    <3> QED
      BY <1>1, <3>5
  <2> QED
    BY <1>1, <2>1 DEF IInv, OnlyPotentialSpillsSpill
<1> QED
  BY <1>4, <1>5, <1>6, <1>7, <1>8, <1>9 DEF IInv

\* One step per action of the allocator, and the stuttering step.
LEMMA NextPreservesIInv == IInv /\ [Next]_vars => IInv'
<1> SUFFICES ASSUME IInv, [Next]_vars PROVE IInv'
  OBVIOUS
<1>1. ASSUME NEW v \in remaining, SimplifyLowDegree(v) PROVE IInv'
  <2>1. degree[v] < K /\ Push(v) /\ potentialSpills' = potentialSpills
    BY <1>1 DEF SimplifyLowDegree, LowDegree
  <2>2. potentialSpills' \subseteq Nodes
    BY <2>1 DEF IInv, TypeOK
  <2> QED
    BY <2>1, <2>2, PushPreservesIInv
<1>2. ASSUME NEW v \in remaining, SimplifyPotentialSpill(v) PROVE IInv'
  <2>1. Push(v) /\ potentialSpills' = potentialSpills \cup {v}
    BY <1>2 DEF SimplifyPotentialSpill
  <2>2. potentialSpills' \subseteq Nodes
    BY <2>1 DEF IInv, TypeOK
  <2> QED
    BY <2>1, <2>2, PushPreservesIInv
<1>3. ASSUME NEW r \in Reg, Color(r) PROVE IInv'
  BY <1>3, ColorPreservesIInv
<1>4. CASE Spill
  BY <1>4, SpillPreservesIInv
<1>5. CASE UNCHANGED vars
  <2>1. /\ graph' = graph /\ degree' = degree /\ remaining' = remaining
        /\ registerStack' = registerStack /\ potentialSpills' = potentialSpills
        /\ registers' = registers /\ spilled' = spilled /\ Nodes' = Nodes
    BY <1>5 DEF vars, Nodes
  <2>2. TypeOK' /\ DegreeIsResidual' /\ NoSharedRegister' /\ OnlyPotentialSpillsSpill'
    BY <2>1 DEF IInv, TypeOK, DegreeIsResidual, NoSharedRegister, OnlyPotentialSpillsSpill
  <2>3. StackInjective' /\ Partition' /\ PlacedAfterSimplify'
    BY <2>1 DEF IInv, StackInjective, Partition, PlacedAfterSimplify
  <2>4. Kempe'
    BY <2>1 DEF IInv, Kempe, Prefix
  <2> QED
    BY <2>2, <2>3, <2>4 DEF IInv
<1> QED
  BY <1>1, <1>2, <1>3, <1>4, <1>5 DEF Next

-----------------------------------------------------------------------------
(***************************************************************************)
(* The theorems.                                                           *)
(***************************************************************************)

\* The strengthened invariant holds in every reachable state.
LEMMA InvariantHolds == Spec => []IInv
  BY IInvInitially, NextPreservesIInv, PTL DEF Spec

\* The containers of allocateGraph keep their types: no degree goes below
\* zero, and only nodes of the graph are ever coloured or spilled.
THEOREM TypeCorrect == Spec => []TypeOK
<1>1. IInv => TypeOK
  BY DEF IInv
<1> QED
  BY <1>1, InvariantHolds, PTL

\* The decremented counter is the residual degree in every reachable state.
THEOREM DegreesAreResidual == Spec => []DegreeIsResidual
<1>1. IInv => DegreeIsResidual
  BY DEF IInv
<1> QED
  BY <1>1, InvariantHolds, PTL

\* The colouring is proper: interfering variables never share a register.
THEOREM ColoringIsProper == Spec => []NoSharedRegister
<1>1. IInv => NoSharedRegister
  BY DEF IInv
<1> QED
  BY <1>1, InvariantHolds, PTL

\* Kempe's theorem for this allocator: optimism never costs a register, only
\* nodes that had k neighbours left when they were pushed are spilled.
THEOREM KempeTheorem == Spec => []OnlyPotentialSpillsSpill
<1>1. IInv => OnlyPotentialSpillsSpill
  BY DEF IInv
<1> QED
  BY <1>1, InvariantHolds, PTL

\* When the loops end every node has exactly one place.
THEOREM EveryNodeIsPlaced == Spec => []EveryNodePlacedOnce
<1>1. IInv => EveryNodePlacedOnce
  BY DEF IInv, TypeOK, Partition, EveryNodePlacedOnce, Done
<1> QED
  BY <1>1, InvariantHolds, PTL

\* The allocator implements the abstract colouring: pushes are invisible, and
\* each pop places one variable or spills it with every register taken.
THEOREM AllocatorRefinesColoring == Spec => Colors!Init /\ [][Colors!Next]_(Colors!vars)
<1>1. Init => Colors!Init
  BY DEF Init, InitFor, Colors!Init
<1>2. IInv /\ [Next]_vars => [Colors!Next]_(Colors!vars)
  <2> SUFFICES ASSUME IInv, [Next]_vars PROVE [Colors!Next]_(Colors!vars)
    OBVIOUS
  <2>1. registerStack # <<>> =>
           Top \in Colors!Nodes \ Colors!Placed
    <3> SUFFICES ASSUME registerStack # <<>>
                 PROVE  Top \in Colors!Nodes \ Colors!Placed
      OBVIOUS
    <3>1. registerStack \in Seq(Nodes) /\ Len(registerStack) \in 1..Len(registerStack)
      BY DEF IInv, TypeOK
    <3> QED
      BY <3>1 DEF IInv, Partition, Top, Colors!Nodes, Colors!Placed, Nodes
  <2>2. \A v : CopySet(v) = Colors!FreeFor(v)
    BY DEF CopySet, Colors!FreeFor, Colors!UsedAround
  <2>3. ASSUME NEW v \in remaining, SimplifyLowDegree(v) \/ SimplifyPotentialSpill(v)
        PROVE  UNCHANGED Colors!vars
    BY <2>3 DEF SimplifyLowDegree, SimplifyPotentialSpill, Push, Colors!vars
  <2>4. ASSUME NEW r \in Reg, Color(r) PROVE Colors!Next
    <3>1. Colors!Place(Top, r)
      BY <2>1, <2>2, <2>4 DEF Color, Colors!Place
    <3> QED
      BY <2>1, <2>4, <3>1 DEF Color, Colors!Next
  <2>5. CASE Spill
    <3>1. Colors!Spill(Top)
      BY <2>1, <2>2, <2>5 DEF Spill, SpilledWith, Colors!Spill
    <3> QED
      BY <2>1, <2>5, <3>1 DEF Spill, Colors!Next
  <2>6. CASE UNCHANGED vars
    BY <2>6 DEF vars, Colors!vars
  <2> QED
    BY <2>3, <2>4, <2>5, <2>6 DEF Next
<1> QED
  BY <1>1, <1>2, InvariantHolds, PTL DEF Spec

=============================================================================
