----------------------------- MODULE LivenessProofs -----------------------------
(***************************************************************************)
(* What is proved of the liveness analysis, for every control flow graph,  *)
(* with any number of blocks, instructions and names: that what it returns *)
(* solves the liveness equations, and is the least that does.              *)
(*                                                                         *)
(* The inductive invariant IInv has a part for each loop: what the scan    *)
(* has collected so far, what is known of every name that is called live,  *)
(* and what the passes have established before their index.                *)
(***************************************************************************)
EXTENDS Liveness, Induction, SequenceTheorems, FiniteSetTheorems

\* Before and after the scan its indices and sets are as it leaves them.
OutsideScan ==
  /\ pc # "scan" => instr = 1
  /\ pc = "scan" => liveIn = NoNames /\ liveOut = NoNames

\* The scan has collected what stands before its position, and no more.
ScannedSoFar ==
  pc = "scan" =>
    /\ definedSoFar = WrittenBefore(node, instr)
    /\ use[node] = ReadBeforeWritten(node, instr)
    /\ def[node] = WrittenBefore(node, instr)
    /\ \A n \in Nodes : n < node => use[n] = Reads(n) /\ def[n] = Writes(n)
    /\ \A n \in Nodes : n > node => use[n] = {} /\ def[n] = {}

\* Whatever is called live is so in every solution.
BelowSolutions ==
  \A L \in Solutions : \A n \in Nodes :
    /\ liveIn[n] \subseteq L[n]
    /\ liveOut[n] \subseteq Needed(L, n)

\* Whatever is called live has a reason that still holds.
Justified ==
  pc # "scan" => \A n \in Nodes : /\ liveIn[n] \subseteq UsedOrPassedThrough(n)
                                  /\ liveOut[n] \subseteq SuccessorsLiveIn(n)

\* What a pass has established of the nodes before its index, and what the
\* first pass leaves to the second until that one changes something.
RoundSoFar ==
  /\ pc = "liveOut" => \A n \in Nodes : n < node => SuccessorsLiveIn(n) \subseteq liveOut[n]
  /\ pc = "liveIn" => \A n \in Nodes : n < node => UsedOrPassedThrough(n) \subseteq liveIn[n]
  /\ pc = "liveIn" /\ ~changed => \A n \in Nodes : SuccessorsLiveIn(n) \subseteq liveOut[n]
  /\ pc = "done" => \A n \in Nodes : /\ SuccessorsLiveIn(n) \subseteq liveOut[n]
                                     /\ UsedOrPassedThrough(n) \subseteq liveIn[n]

IInv ==
  /\ TypeOK
  /\ OutsideScan
  /\ ScannedSoFar
  /\ UseIsReadBeforeWritten
  /\ BelowSolutions
  /\ Justified
  /\ RoundSoFar

-----------------------------------------------------------------------------
(***************************************************************************)
(* The definitions by position, one instruction further.                   *)
(***************************************************************************)

\* Nothing is written or read before the first instruction.
LEMMA NothingBeforeFirst ==
  ASSUME NEW n \in Nodes
  PROVE  WrittenBefore(n, 1) = {} /\ ReadBeforeWritten(n, 1) = {}
<1>1. 1..(1 - 1) = {}
  OBVIOUS
<1> QED
  BY <1>1 DEF WrittenBefore, ReadBeforeWritten

\* Past an instruction, what it writes has been written too.
LEMMA WrittenPast ==
  ASSUME NEW n \in Nodes, NEW k \in Nat \ {0}
  PROVE  WrittenBefore(n, k + 1) = WrittenBefore(n, k) \cup GetDestination(cfg.block[n][k])
<1>1. 1..((k + 1) - 1) = 1..(k - 1) \cup {k}
  OBVIOUS
<1> QED
  BY <1>1 DEF WrittenBefore

\* Past an instruction, what it reads and has not been written was read too.
LEMMA ReadPast ==
  ASSUME NEW n \in Nodes, NEW k \in Nat \ {0}
  PROVE  ReadBeforeWritten(n, k + 1) =
           ReadBeforeWritten(n, k) \cup (GetSources(cfg.block[n][k]) \ WrittenBefore(n, k))
<1>1. 1..((k + 1) - 1) = 1..(k - 1) \cup {k}
  OBVIOUS
<1> QED
  BY <1>1 DEF ReadBeforeWritten

\* What it is to be a solution.
LEMMA SolutionMeans ==
  ASSUME NEW L
  PROVE  L \in Solutions <=>
           /\ L \in [Nodes -> SUBSET Var]
           /\ \A n \in Nodes : L[n] = Reads(n) \cup (Needed(L, n) \ Writes(n))
BY DEF Solutions

-----------------------------------------------------------------------------
(***************************************************************************)
(* Types.                                                                  *)
(***************************************************************************)
Typed == TypeOK /\ OutsideScan

\* The analysis of a graph begins.
Start == IsCFG(cfg) /\ InitFor(cfg)

\* The types hold when the analysis of a graph begins.
LEMMA TypedInitially == Start => Typed
<1> SUFFICES ASSUME Start
             PROVE  Typed
  OBVIOUS
<1>1. IsCFG(cfg) /\ InitFor(cfg)
  BY DEF Start
<1>2. Len(cfg.block) \in Nat \ {0} /\ Len(cfg.block[1]) \in Nat \ {0}
  BY <1>1 DEF IsCFG
<1>3. NoNames \in [Nodes -> SUBSET Var]
  BY DEF NoNames
<1>4. 1 \in Nodes /\ 1 \in 1..(Len(cfg.block[1]) + 1)
  BY <1>2 DEF Nodes
<1> QED
  BY <1>1, <1>3, <1>4 DEF InitFor, Typed, TypeOK, OutsideScan

\* The loop over the nodes stays on the nodes.
LEMMA NextNodeIsANode ==
  ASSUME TypeOK, NEW next, NextNode(next)
  PROVE  /\ node' \in Nodes
         /\ pc' \in {pc, next}
         /\ ~LastNode => node' = node + 1 /\ pc' = pc
         /\ LastNode => node' = 1 /\ pc' = next
<1>1. Len(cfg.block) \in Nat \ {0}
  BY DEF TypeOK, IsCFG
<1> QED
  BY <1>1 DEF NextNode, LastNode, TypeOK, Nodes

\* The types hold after every step.
LEMMA TypedNext == Typed /\ [Next]_vars => Typed'
<1> SUFFICES ASSUME Typed, [Next]_vars
             PROVE  Typed'
  OBVIOUS
<1> USE DEF Typed
<1>0. /\ cfg' = cfg /\ Nodes' = Nodes
      /\ \A n \in Nodes : Len(cfg.block[n]) \in Nat \ {0}
      /\ IsCFG(cfg)
  BY DEF Next, Scan, EndBlock, ComputeLiveOut, ComputeLiveIn, vars, Nodes, TypeOK, IsCFG
<1>1. CASE Scan
  <2>1. instr \in 1..Len(cfg.block[node])
    BY <1>0, <1>1 DEF Scan, TypeOK
  <2>2. GetSources(Instruction) \subseteq Var /\ GetDestination(Instruction) \subseteq Var
    BY <2>1, <1>0 DEF IsCFG, Instruction, Nodes, TypeOK
  <2>3. Exposed(Instruction) \subseteq Var
    BY <2>2 DEF Exposed
  <2>4. use' \in [Nodes -> SUBSET Var] /\ def' \in [Nodes -> SUBSET Var]
    BY <1>1, <2>2, <2>3 DEF Scan, TypeOK
  <2>5. definedSoFar' \in SUBSET Var /\ instr' \in 1..(Len(cfg.block[node]) + 1)
    BY <1>0, <1>1, <2>1, <2>2 DEF Scan, TypeOK
  <2> QED
    BY <1>0, <1>1, <2>4, <2>5 DEF Scan, TypeOK, OutsideScan, NoNames
<1>2. CASE EndBlock
  <2>1. node' \in Nodes /\ pc' \in {pc, "liveOut"}
    BY <1>2, NextNodeIsANode DEF EndBlock
  <2> QED
    BY <1>0, <1>2, <2>1 DEF EndBlock, TypeOK, OutsideScan, NoNames
<1>3. CASE ComputeLiveOut
  <2>1. node' \in Nodes /\ pc' \in {pc, "liveIn"}
    BY <1>3, NextNodeIsANode DEF ComputeLiveOut
  <2>2. SuccessorsLiveIn(node) \subseteq Var
    BY <1>0 DEF SuccessorsLiveIn, TypeOK, IsCFG, Nodes
  <2>3. liveOut' \in [Nodes -> SUBSET Var] /\ changed' \in BOOLEAN
    BY <1>3, <2>2 DEF ComputeLiveOut, TypeOK, Flag
  <2> QED
    BY <1>0, <1>3, <2>1, <2>3 DEF ComputeLiveOut, TypeOK, OutsideScan
<1>4. CASE ComputeLiveIn
  <2>1. PICK next \in {"liveOut", "done"} : NextNode(next)
    BY <1>4 DEF ComputeLiveIn
  <2>2. node' \in Nodes /\ pc' \in {pc, "liveOut", "done"}
    BY <2>1, NextNodeIsANode
  <2>3. UsedOrPassedThrough(node) \subseteq Var
    BY DEF UsedOrPassedThrough, TypeOK
  <2>4. liveIn' \in [Nodes -> SUBSET Var] /\ changed' \in BOOLEAN
    BY <1>4, <2>3 DEF ComputeLiveIn, TypeOK, Flag
  <2> QED
    BY <1>0, <1>4, <2>2, <2>4 DEF ComputeLiveIn, TypeOK, OutsideScan
<1>5. CASE UNCHANGED vars
  BY <1>5, <1>0 DEF vars, TypeOK, OutsideScan, NoNames
<1> QED
  BY <1>1, <1>2, <1>3, <1>4, <1>5 DEF Next

-----------------------------------------------------------------------------
(***************************************************************************)
(* The scan.                                                               *)
(***************************************************************************)
Scanned == ScannedSoFar /\ UseIsReadBeforeWritten

\* Nothing has been collected when the analysis begins.
LEMMA ScannedInitially == Start => Scanned
<1> SUFFICES ASSUME Start
             PROVE  Scanned
  OBVIOUS
<1>1. Typed
  BY TypedInitially
<1>2. /\ pc = "scan" /\ node = 1 /\ instr = 1 /\ definedSoFar = {}
      /\ use = NoNames /\ def = NoNames
  BY DEF Start, InitFor
<1>3. 1 \in Nodes /\ \A n \in Nodes : ~(n < 1)
  BY <1>1, <1>2 DEF Typed, TypeOK, Nodes
<1>4. WrittenBefore(1, 1) = {} /\ ReadBeforeWritten(1, 1) = {}
  BY <1>3, NothingBeforeFirst
<1>5. \A n \in Nodes : use[n] = {} /\ def[n] = {}
  BY <1>2 DEF NoNames
<1> QED
  BY <1>2, <1>3, <1>4, <1>5 DEF Scanned, ScannedSoFar, UseIsReadBeforeWritten

\* What has been collected is right after every step.
LEMMA ScannedNext == Typed /\ Scanned /\ [Next]_vars => Scanned'
<1> SUFFICES ASSUME Typed, Scanned, [Next]_vars
             PROVE  Scanned'
  OBVIOUS
<1> USE DEF Typed, Scanned
<1>0. /\ cfg' = cfg /\ Nodes' = Nodes
      /\ \A n, k : WrittenBefore(n, k)' = WrittenBefore(n, k)
      /\ \A n, k : ReadBeforeWritten(n, k)' = ReadBeforeWritten(n, k)
      /\ \A n : Reads(n)' = Reads(n) /\ Writes(n)' = Writes(n)
  BY DEF Next, Scan, EndBlock, ComputeLiveOut, ComputeLiveIn, vars, Nodes,
         WrittenBefore, ReadBeforeWritten, Reads, Writes
<1>1. node \in Nodes /\ instr \in Nat \ {0} /\ Nodes \subseteq Nat
      /\ use \in [Nodes -> SUBSET Var] /\ def \in [Nodes -> SUBSET Var]
  BY DEF TypeOK, Nodes
<1>2. CASE Scan
  <2>1. /\ pc = "scan" /\ pc' = "scan" /\ node' = node /\ instr' = instr + 1
        /\ definedSoFar' = definedSoFar \cup GetDestination(cfg.block[node][instr])
        /\ use' = [use EXCEPT ![node] =
                     @ \cup (GetSources(cfg.block[node][instr]) \ definedSoFar)]
        /\ def' = [def EXCEPT ![node] = @ \cup GetDestination(cfg.block[node][instr])]
    BY <1>2 DEF Scan, Instruction, Exposed
  <2>2. /\ definedSoFar' = WrittenBefore(node, instr + 1)
        /\ use'[node] = ReadBeforeWritten(node, instr + 1)
        /\ def'[node] = WrittenBefore(node, instr + 1)
    BY <1>1, <2>1, WrittenPast, ReadPast DEF ScannedSoFar
  <2>3. \A n \in Nodes : n # node => use'[n] = use[n] /\ def'[n] = def[n]
    BY <1>1, <2>1
  <2>4. ScannedSoFar'
    BY <1>0, <1>1, <2>1, <2>2, <2>3 DEF ScannedSoFar
  <2> QED
    BY <2>1, <2>4 DEF UseIsReadBeforeWritten
<1>3. CASE EndBlock
  <2>1. /\ pc = "scan" /\ instr' = 1 /\ definedSoFar' = {}
        /\ use' = use /\ def' = def /\ instr > Len(cfg.block[node])
    BY <1>3 DEF EndBlock
  <2>2. instr = Len(cfg.block[node]) + 1
    BY <1>1, <2>1 DEF TypeOK, IsCFG, Nodes
  <2>3. \A n \in Nodes : n <= node => use[n] = Reads(n) /\ def[n] = Writes(n)
    BY <1>1, <2>1, <2>2 DEF ScannedSoFar, Reads, Writes
  <2>4. CASE LastNode
    <3>1. pc' = "liveOut"
      BY <1>3, <2>4, NextNodeIsANode DEF EndBlock
    <3>2. \A n \in Nodes : n <= node
      BY <2>4 DEF LastNode, Nodes, TypeOK, IsCFG
    <3> QED
      BY <1>0, <2>1, <2>3, <3>1, <3>2 DEF ScannedSoFar, UseIsReadBeforeWritten
  <2>5. CASE ~LastNode
    <3>1. pc' = "scan" /\ node' = node + 1 /\ node' \in Nodes
      BY <1>3, <2>1, <2>5, NextNodeIsANode DEF EndBlock
    <3>2. WrittenBefore(node', 1) = {} /\ ReadBeforeWritten(node', 1) = {}
      BY <3>1, NothingBeforeFirst
    <3>3. use[node'] = {} /\ def[node'] = {}
      BY <1>1, <2>1, <3>1 DEF ScannedSoFar
    <3>4. \A n \in Nodes : n < node' => use[n] = Reads(n) /\ def[n] = Writes(n)
      BY <1>1, <2>3, <3>1
    <3>5. \A n \in Nodes : n > node' => use[n] = {} /\ def[n] = {}
      BY <1>1, <2>1, <3>1 DEF ScannedSoFar
    <3>6. ScannedSoFar'
      BY <1>0, <2>1, <3>1, <3>2, <3>3, <3>4, <3>5 DEF ScannedSoFar
    <3> QED
      BY <3>1, <3>6 DEF UseIsReadBeforeWritten
  <2> QED
    BY <2>4, <2>5
<1>4. CASE ComputeLiveOut
  <2>1. pc = "liveOut" /\ pc' # "scan" /\ use' = use /\ def' = def
    BY <1>4, NextNodeIsANode DEF ComputeLiveOut
  <2> QED
    BY <1>0, <2>1 DEF ScannedSoFar, UseIsReadBeforeWritten
<1>5. CASE ComputeLiveIn
  <2>1. pc = "liveIn" /\ use' = use /\ def' = def
    BY <1>5 DEF ComputeLiveIn
  <2>2. PICK next \in {"liveOut", "done"} : NextNode(next)
    BY <1>5 DEF ComputeLiveIn
  <2>3. pc' # "scan"
    BY <2>1, <2>2, NextNodeIsANode
  <2> QED
    BY <1>0, <2>1, <2>3 DEF ScannedSoFar, UseIsReadBeforeWritten
<1>6. CASE UNCHANGED vars
  BY <1>0, <1>6 DEF vars, ScannedSoFar, UseIsReadBeforeWritten
<1> QED
  BY <1>2, <1>3, <1>4, <1>5, <1>6 DEF Next

-----------------------------------------------------------------------------
(***************************************************************************)
(* The passes.                                                             *)
(***************************************************************************)

\* The graph stays, and so does what is defined from it alone.
LEMMA GraphStays ==
  ASSUME [Next]_vars
  PROVE  /\ cfg' = cfg /\ Nodes' = Nodes /\ Solutions' = Solutions
<1>1. cfg' = cfg
  BY DEF Next, Scan, EndBlock, ComputeLiveOut, ComputeLiveIn, vars
<1>2. Nodes' = Nodes
  BY <1>1 DEF Nodes
<1>3. \A n : Reads(n)' = Reads(n) /\ Writes(n)' = Writes(n)
  BY <1>1 DEF Reads, Writes, ReadBeforeWritten, WrittenBefore
<1>4. /\ [n \in Nodes |-> Reads(n)]' = [n \in Nodes |-> Reads(n)]
      /\ [n \in Nodes |-> Writes(n)]' = [n \in Nodes |-> Writes(n)]
  BY <1>2, <1>3
<1> QED
  BY <1>1, <1>2, <1>4 DEF Solutions, Needed

\* A step of the scan or a stutter leaves the names called live alone.
LEMMA ScanLeavesLiveness ==
  ASSUME Scan \/ EndBlock \/ UNCHANGED vars
  PROVE  liveIn' = liveIn /\ liveOut' = liveOut
BY DEF Scan, EndBlock, vars

\* A step of the first pass adds to one node what its successors need.
LEMMA StepOfLiveOut ==
  ASSUME Typed, ComputeLiveOut
  PROVE  /\ pc = "liveOut" /\ pc' \in {"liveOut", "liveIn"}
         /\ use' = use /\ def' = def /\ liveIn' = liveIn
         /\ liveOut'[node] = liveOut[node] \cup SuccessorsLiveIn(node)
         /\ \A n \in Nodes : n # node => liveOut'[n] = liveOut[n]
         /\ \A n \in Nodes : SuccessorsLiveIn(n)' = SuccessorsLiveIn(n)
         /\ \A n \in Nodes : UsedOrPassedThrough(n) \subseteq UsedOrPassedThrough(n)'
<1>1. /\ pc = "liveOut" /\ pc' \in {pc, "liveIn"} /\ cfg' = cfg
      /\ use' = use /\ def' = def /\ liveIn' = liveIn
      /\ liveOut' = [liveOut EXCEPT ![node] = @ \cup SuccessorsLiveIn(node)]
  BY NextNodeIsANode DEF ComputeLiveOut, Typed
<1>2. /\ liveOut'[node] = liveOut[node] \cup SuccessorsLiveIn(node)
      /\ \A n \in Nodes : n # node => liveOut'[n] = liveOut[n]
  BY <1>1 DEF Typed, TypeOK
<1>3. \A n \in Nodes : SuccessorsLiveIn(n)' = SuccessorsLiveIn(n)
  BY <1>1 DEF SuccessorsLiveIn
<1>4. \A n \in Nodes : UsedOrPassedThrough(n) \subseteq UsedOrPassedThrough(n)'
  BY <1>1, <1>2 DEF UsedOrPassedThrough
<1> QED
  BY <1>1, <1>2, <1>3, <1>4

\* A step of the second pass adds to one node what it reads or passes through.
LEMMA StepOfLiveIn ==
  ASSUME Typed, ComputeLiveIn
  PROVE  /\ pc = "liveIn" /\ pc' \in {"liveIn", "liveOut", "done"}
         /\ use' = use /\ def' = def /\ liveOut' = liveOut
         /\ liveIn'[node] = liveIn[node] \cup UsedOrPassedThrough(node)
         /\ \A n \in Nodes : n # node => liveIn'[n] = liveIn[n]
         /\ \A n \in Nodes : UsedOrPassedThrough(n)' = UsedOrPassedThrough(n)
         /\ \A n \in Nodes : SuccessorsLiveIn(n) \subseteq SuccessorsLiveIn(n)'
<1>1. PICK next \in {"liveOut", "done"} : NextNode(next)
  BY DEF ComputeLiveIn
<1>2. /\ pc = "liveIn" /\ pc' \in {pc, next} /\ cfg' = cfg
      /\ use' = use /\ def' = def /\ liveOut' = liveOut
      /\ liveIn' = [liveIn EXCEPT ![node] = @ \cup UsedOrPassedThrough(node)]
  BY <1>1, NextNodeIsANode DEF ComputeLiveIn, Typed
<1>3. /\ liveIn'[node] = liveIn[node] \cup UsedOrPassedThrough(node)
      /\ \A n \in Nodes : n # node => liveIn'[n] = liveIn[n]
  BY <1>2 DEF Typed, TypeOK
<1>4. \A n \in Nodes : UsedOrPassedThrough(n)' = UsedOrPassedThrough(n)
  BY <1>2 DEF UsedOrPassedThrough
<1>5. \A n \in Nodes : SuccessorsLiveIn(n) \subseteq SuccessorsLiveIn(n)'
  <2> TAKE n \in Nodes
  <2>1. \A m \in Range(cfg.to[n]) : m \in Nodes
    BY DEF Typed, TypeOK, IsCFG, Nodes
  <2>2. \A m \in Range(cfg.to[n]) : liveIn[m] \subseteq liveIn'[m]
    BY <1>3, <2>1
  <2> QED
    BY <1>2, <2>2 DEF SuccessorsLiveIn
<1> QED
  BY <1>1, <1>2, <1>3, <1>4, <1>5

\* No step calls a name live that some solution does not.
LEMMA BelowNext == Typed /\ Scanned /\ BelowSolutions /\ [Next]_vars => BelowSolutions'
<1> SUFFICES ASSUME Typed, Scanned, BelowSolutions, [Next]_vars,
                    NEW L \in Solutions, NEW n \in Nodes
             PROVE  /\ liveIn'[n] \subseteq L[n]
                    /\ liveOut'[n] \subseteq Needed(L, n)
  BY GraphStays DEF BelowSolutions, Needed
<1>1. liveIn[n] \subseteq L[n] /\ liveOut[n] \subseteq Needed(L, n)
  BY DEF BelowSolutions
<1>2. CASE Scan \/ EndBlock \/ UNCHANGED vars
  BY <1>1, <1>2, ScanLeavesLiveness
<1>3. CASE ComputeLiveOut
  <2>1. \A m \in Range(cfg.to[n]) : liveIn[m] \subseteq L[m]
    BY DEF BelowSolutions, Typed, TypeOK, IsCFG, Nodes
  <2>2. SuccessorsLiveIn(n) \subseteq Needed(L, n)
    BY <2>1 DEF SuccessorsLiveIn, Needed
  <2>3. liveIn' = liveIn /\ liveOut'[n] \subseteq liveOut[n] \cup SuccessorsLiveIn(n)
    BY <1>3, StepOfLiveOut
  <2> QED
    BY <1>1, <2>2, <2>3
<1>4. CASE ComputeLiveIn
  <2>1. use[n] = Reads(n) /\ def[n] = Writes(n)
    BY <1>4 DEF ComputeLiveIn, Scanned, UseIsReadBeforeWritten
  <2>2. L[n] = Reads(n) \cup (Needed(L, n) \ Writes(n))
    BY SolutionMeans
  <2>3. UsedOrPassedThrough(n) \subseteq L[n]
    BY <1>1, <2>1, <2>2 DEF UsedOrPassedThrough
  <2>4. liveOut' = liveOut /\ liveIn'[n] \subseteq liveIn[n] \cup UsedOrPassedThrough(n)
    BY <1>4, StepOfLiveIn
  <2> QED
    BY <1>1, <2>3, <2>4
<1> QED
  BY <1>2, <1>3, <1>4 DEF Next

\* No step takes away the reason for which a name is called live.
LEMMA JustifiedNext == Typed /\ Justified /\ [Next]_vars => Justified'
<1> SUFFICES ASSUME Typed, Justified, [Next]_vars, pc' # "scan", NEW n \in Nodes
             PROVE  /\ liveIn'[n] \subseteq UsedOrPassedThrough(n)'
                    /\ liveOut'[n] \subseteq SuccessorsLiveIn(n)'
  BY GraphStays DEF Justified
<1>1. CASE Scan \/ EndBlock
  <2>1. liveIn = NoNames /\ liveOut = NoNames
    BY <1>1 DEF Scan, EndBlock, Typed, OutsideScan
  <2> QED
    BY <1>1, <2>1, ScanLeavesLiveness DEF NoNames
<1>2. CASE ComputeLiveOut
  <2>1. /\ liveIn[n] \subseteq UsedOrPassedThrough(n)
        /\ liveOut[n] \subseteq SuccessorsLiveIn(n)
    BY <1>2 DEF ComputeLiveOut, Justified
  <2> QED
    BY <1>2, <2>1, StepOfLiveOut
<1>3. CASE ComputeLiveIn
  <2>1. /\ liveIn[n] \subseteq UsedOrPassedThrough(n)
        /\ liveOut[n] \subseteq SuccessorsLiveIn(n)
    BY <1>3 DEF ComputeLiveIn, Justified
  <2> QED
    BY <1>3, <2>1, StepOfLiveIn
<1>4. CASE UNCHANGED vars
  BY <1>4 DEF vars, Justified, UsedOrPassedThrough, SuccessorsLiveIn
<1> QED
  BY <1>1, <1>2, <1>3, <1>4 DEF Next

\* A pass leaves what it has established of the nodes behind it, and the
\* second stops the loop only where the first has missed nothing.
LEMMA RoundNext == Typed /\ RoundSoFar /\ [Next]_vars => RoundSoFar'
<1> SUFFICES ASSUME Typed, RoundSoFar, [Next]_vars
             PROVE  RoundSoFar'
  OBVIOUS
<1>0. /\ cfg' = cfg /\ Nodes' = Nodes /\ node \in Nodes
      /\ Nodes \subseteq Nat /\ \A n \in Nodes : n <= Len(cfg.block)
      /\ LastNode => node = Len(cfg.block)
  BY GraphStays DEF Typed, TypeOK, Nodes, LastNode
<1>1. CASE Scan
  BY <1>1 DEF Scan, RoundSoFar
<1>2. CASE EndBlock
  <2>1. pc' \in {"scan", "liveOut"} /\ (pc' = "liveOut" => node' = 1)
    BY <1>2, NextNodeIsANode DEF EndBlock, Typed
  <2> QED
    BY <1>0, <2>1 DEF RoundSoFar, Nodes
<1>3. CASE ComputeLiveOut
  <2>1. \A n \in Nodes : n <= node => SuccessorsLiveIn(n)' \subseteq liveOut'[n]
    BY <1>0, <1>3, StepOfLiveOut DEF RoundSoFar
  <2>2. CASE LastNode
    <3>1. pc' = "liveIn" /\ node' = 1
      BY <1>3, <2>2, NextNodeIsANode DEF ComputeLiveOut, Typed
    <3>2. \A n \in Nodes : ~(n < 1) /\ n <= node
      BY <1>0, <2>2 DEF Nodes
    <3> QED
      BY <1>0, <2>1, <3>1, <3>2 DEF RoundSoFar
  <2>3. CASE ~LastNode
    <3>1. pc' = "liveOut" /\ node' = node + 1
      BY <1>3, <2>3, NextNodeIsANode DEF ComputeLiveOut, Typed
    <3> QED
      BY <1>0, <2>1, <3>1 DEF RoundSoFar
  <2> QED
    BY <2>2, <2>3
<1>4. CASE ComputeLiveIn
  <2> DEFINE flag == changed \/ liveIn' # liveIn
  <2>1. \A n \in Nodes : n <= node => UsedOrPassedThrough(n)' \subseteq liveIn'[n]
    <3>1. \A n \in Nodes : n < node => UsedOrPassedThrough(n) \subseteq liveIn[n]
      BY <1>4 DEF ComputeLiveIn, RoundSoFar
    <3>2. /\ liveIn'[node] = liveIn[node] \cup UsedOrPassedThrough(node)
          /\ \A n \in Nodes : n # node => liveIn'[n] = liveIn[n]
          /\ \A n \in Nodes : UsedOrPassedThrough(n)' = UsedOrPassedThrough(n)
      BY <1>4, StepOfLiveIn
    <3>3. \A n \in Nodes : n <= node => n < node \/ n = node
      BY <1>0
    <3> QED
      BY <3>1, <3>2, <3>3
  <2>2. ~flag => \A n \in Nodes : SuccessorsLiveIn(n)' \subseteq liveOut'[n]
    <3>1. ~flag => /\ \A n \in Nodes : SuccessorsLiveIn(n) \subseteq liveOut[n]
                   /\ liveIn' = liveIn /\ liveOut' = liveOut
      BY <1>4 DEF ComputeLiveIn, RoundSoFar
    <3> QED
      BY <1>0, <3>1 DEF SuccessorsLiveIn
  <2>3. NextNode(IF flag THEN "liveOut" ELSE "done") /\ changed' = (flag /\ ~LastNode)
    BY <1>4 DEF ComputeLiveIn, Flag
  <2>4. pc = "liveIn"
    BY <1>4 DEF ComputeLiveIn
  <2> HIDE DEF flag
  <2>5. CASE LastNode
    <3>1. node' = 1 /\ pc' = IF flag THEN "liveOut" ELSE "done"
      BY <2>3, <2>5, NextNodeIsANode DEF Typed
    <3>2. \A n \in Nodes : ~(n < 1) /\ n <= node
      BY <1>0, <2>5 DEF Nodes
    <3> QED
      BY <1>0, <2>1, <2>2, <3>1, <3>2 DEF RoundSoFar
  <2>6. CASE ~LastNode
    <3>1. node' = node + 1 /\ pc' = "liveIn"
      BY <2>3, <2>4, <2>6, NextNodeIsANode DEF Typed
    <3>2. ~changed' => ~flag
      BY <2>3, <2>6
    <3> QED
      BY <1>0, <2>1, <2>2, <3>1, <3>2 DEF RoundSoFar
  <2> QED
    BY <2>5, <2>6
<1>5. CASE UNCHANGED vars
  BY <1>0, <1>5 DEF vars, RoundSoFar, SuccessorsLiveIn, UsedOrPassedThrough
<1> QED
  BY <1>1, <1>2, <1>3, <1>4, <1>5 DEF Next

-----------------------------------------------------------------------------
(***************************************************************************)
(* The inductive invariant and what follows from it.                       *)
(***************************************************************************)

\* The invariant holds when the analysis of a graph begins.
LEMMA IInvAtStart == Start => IInv
<1> SUFFICES ASSUME Start
             PROVE  IInv
  OBVIOUS
<1>1. Typed /\ Scanned
  BY TypedInitially, ScannedInitially
<1>2. pc = "scan" /\ liveIn = NoNames /\ liveOut = NoNames
  BY DEF Start, InitFor
<1>3. BelowSolutions
  BY <1>2 DEF BelowSolutions, NoNames
<1>4. Justified /\ RoundSoFar
  BY <1>2 DEF Justified, RoundSoFar
<1> QED
  BY <1>1, <1>3, <1>4 DEF IInv, Typed, Scanned

\* Every initial state of the specification is such a beginning.
LEMMA IInvInitially == Init => IInv
BY IInvAtStart, CFGsAreGraphs DEF Init, InitFor, Start, NoNames, Nodes

\* Every step keeps the invariant.
LEMMA IInvNext == IInv /\ [Next]_vars => IInv'
BY TypedNext, ScannedNext, BelowNext, JustifiedNext, RoundNext DEF IInv, Typed, Scanned

\* The invariant holds throughout.
LEMMA Invariance == Spec => []IInv
BY IInvInitially, IInvNext, PTL DEF Spec

\* When the loop has stopped, what has a reason and what the equations ask
\* for are the same names.
LEMMA DoneMeansSolved == IInv => SolvedWhenDone
<1> SUFFICES ASSUME IInv, pc = "done"
             PROVE  /\ liveIn \in Solutions
                    /\ \A n \in Nodes : liveOut[n] = SuccessorsLiveIn(n)
  BY DEF SolvedWhenDone, Done
<1>1. \A n \in Nodes : /\ liveOut[n] = SuccessorsLiveIn(n)
                       /\ liveIn[n] = UsedOrPassedThrough(n)
  BY DEF IInv, Justified, RoundSoFar
<1>2. \A n \in Nodes : use[n] = Reads(n) /\ def[n] = Writes(n)
  BY DEF IInv, UseIsReadBeforeWritten
<1>3. \A n \in Nodes : SuccessorsLiveIn(n) = Needed(liveIn, n)
  BY DEF SuccessorsLiveIn, Needed
<1>4. \A n \in Nodes : liveIn[n] = Reads(n) \cup (Needed(liveIn, n) \ Writes(n))
  BY <1>1, <1>2, <1>3 DEF UsedOrPassedThrough
<1>5. liveIn \in [Nodes -> SUBSET Var]
  BY DEF IInv, TypeOK
<1> QED
  BY <1>1, <1>4, <1>5, SolutionMeans

\* The sets of computeUseAndDef, computeLiveOut and computeLiveIn only ever
\* hold names of the function, and their loops stay within the blocks.
THEOREM TypeCorrect == Spec => []TypeOK
<1>1. IInv => TypeOK
  BY DEF IInv
<1> QED
  BY <1>1, Invariance, PTL

\* computeUseAndDef: once every block has been scanned, use is what a block
\* reads before writing it and def what it writes.
THEOREM ScanCorrect == Spec => []UseIsReadBeforeWritten
<1>1. IInv => UseIsReadBeforeWritten
  BY DEF IInv
<1> QED
  BY <1>1, Invariance, PTL

\* computeLiveOut and computeLiveIn update the sets in place: half updated
\* or not, they hold nothing that some solution of the equations does not.
THEOREM LeastSolution == Spec => []BelowEverySolution
<1>1. IInv => BelowEverySolution
  BY DEF IInv, BelowSolutions, BelowEverySolution
<1> QED
  BY <1>1, Invariance, PTL

\* processProgram: the loop stops only where another round would find
\* nothing, so what it returns solves the equations.
THEOREM StopsAtSolution == Spec => []SolvedWhenDone
BY DoneMeansSolved, Invariance, PTL

-----------------------------------------------------------------------------
(***************************************************************************)
(* The least solution is liveness along paths.                             *)
(***************************************************************************)

\* The k nodes of p, all different, lead from n along edges to a read of x
\* with no write of x on the way.
ReadsAlong(x, n, p, k) ==
  /\ \A i, j \in 1..k : p[i] = p[j] => i = j
  /\ \A i \in 2..k : p[i] \in Range(cfg.to[p[i - 1]])
  /\ p[1] = n
  /\ x \in Reads(p[k])
  /\ \A i \in 1..(k - 1) : x \notin Writes(p[i])

\* ReadLater speaks of such nodes.
LEMMA ReadLaterMeans ==
  ASSUME IsCFG(cfg), NEW x, NEW n
  PROVE  ReadLater(x, n) <=>
           \E k \in Nodes : \E p \in [1..k -> Nodes] : ReadsAlong(x, n, p, k)
<1>1. Nodes \subseteq Nat
  BY DEF Nodes
<1>2. ASSUME NEW k \in Nodes, NEW p \in [1..k -> Nodes]
      PROVE  /\ p \in UNION { [1..l -> Nodes] : l \in Nodes }
             /\ DOMAIN p = 1..k /\ Len(p) = k
             /\ DOMAIN p \ {1} = 2..k
  <2>1. p \in Seq(Nodes) /\ k \in Nat
    BY <1>1, SeqDef
  <2>2. DOMAIN p = 1..k /\ DOMAIN p = 1..Len(p) /\ Len(p) \in Nat
    BY <2>1, LenProperties
  <2>3. Len(p) = k
    BY <2>1, <2>2
  <2> QED
    BY <2>1, <2>2, <2>3
<1>3. ASSUME NEW k \in Nodes, NEW p \in [1..k -> Nodes]
      PROVE  (/\ p \in Paths /\ p[1] = n /\ x \in Reads(p[Len(p)])
              /\ \A i \in 1..(Len(p) - 1) : x \notin Writes(p[i])) <=> ReadsAlong(x, n, p, k)
  BY <1>2 DEF Paths, ReadsAlong
<1>4. ASSUME NEW p \in Paths
      PROVE  \E k \in Nodes : p \in [1..k -> Nodes]
  BY DEF Paths
<1>5. ASSUME ReadLater(x, n)
      PROVE  \E k \in Nodes : \E p \in [1..k -> Nodes] : ReadsAlong(x, n, p, k)
  <2>1. PICK p \in Paths : /\ p[1] = n /\ x \in Reads(p[Len(p)])
                           /\ \A i \in 1..(Len(p) - 1) : x \notin Writes(p[i])
    BY <1>5 DEF ReadLater
  <2>2. PICK k \in Nodes : p \in [1..k -> Nodes]
    BY <1>4
  <2> QED
    BY <1>3, <2>1, <2>2
<1>6. ASSUME NEW k \in Nodes, NEW p \in [1..k -> Nodes], ReadsAlong(x, n, p, k)
      PROVE  ReadLater(x, n)
  BY <1>3, <1>6 DEF ReadLater
<1> QED
  BY <1>5, <1>6

\* A walk over different nodes is no longer than there are nodes.
LEMMA WalksAreShort ==
  ASSUME IsCFG(cfg), NEW k \in Nat, NEW p \in [1..k -> Nodes],
         \A i, j \in 1..k : p[i] = p[j] => i = j
  PROVE  k <= Len(cfg.block)
<1>1. Len(cfg.block) \in Nat
  BY DEF IsCFG
<1>2. /\ IsFiniteSet(1..k) /\ IsFiniteSet(Nodes)
      /\ Cardinality(Nodes) = Len(cfg.block) /\ Cardinality(1..k) = k
  <2>1. \A b \in Nat : IsFiniteSet(1..b) /\ Cardinality(1..b) = b
    <3> SUFFICES ASSUME NEW b \in Nat
                 PROVE  IsFiniteSet(1..b) /\ Cardinality(1..b) = b
      OBVIOUS
    <3>1. IsFiniteSet(1..b) /\ Cardinality(1..b) = IF 1 > b THEN 0 ELSE b - 1 + 1
      BY FS_Interval
    <3> QED
      BY <3>1
  <2> QED
    BY <1>1, <2>1 DEF Nodes
<1> QED
  BY <1>1, <1>2, FS_PigeonHole

\* A name is read later where the block reads it, and where the block passes
\* it on to a successor at which it is read later.
LEMMA ReadHereOrLater ==
  ASSUME IsCFG(cfg), NEW x, NEW n \in Nodes
  PROVE  ReadLater(x, n) <=>
           \/ x \in Reads(n)
           \/ x \notin Writes(n) /\ \E m \in Range(cfg.to[n]) : ReadLater(x, m)
<1>0. /\ Len(cfg.block) \in Nat \ {0} /\ Nodes \subseteq Nat \ {0}
      /\ 1 \in Nodes /\ Nodes = 1..Len(cfg.block)
      /\ \A m \in Nodes : Range(cfg.to[m]) \subseteq Nodes
  BY DEF IsCFG, Nodes
<1>1. ASSUME ReadLater(x, n), x \notin Reads(n)
      PROVE  x \notin Writes(n) /\ \E m \in Range(cfg.to[n]) : ReadLater(x, m)
  <2>1. PICK k \in Nodes : \E p \in [1..k -> Nodes] : ReadsAlong(x, n, p, k)
    BY <1>1, ReadLaterMeans
  <2>2. PICK p \in [1..k -> Nodes] : ReadsAlong(x, n, p, k)
    BY <2>1
  <2>3. k \in Nat /\ k > 1 /\ k - 1 \in Nodes
    BY <1>0, <1>1, <2>2 DEF ReadsAlong
  <2>4. x \notin Writes(n) /\ p[2] \in Range(cfg.to[n])
    <3>1. 1 \in 1..(k - 1) /\ 2 \in 2..k /\ 2 - 1 = 1
      BY <2>3
    <3> QED
      BY <2>2, <3>1 DEF ReadsAlong
  <2> DEFINE q == [i \in 1..(k - 1) |-> p[i + 1]]
  <2>5. \A i \in 1..(k - 1) : i + 1 \in 1..k /\ i + 1 \in 2..k
    BY <2>3
  <2>6. q \in [1..(k - 1) -> Nodes]
    BY <2>5
  <2>7. ReadsAlong(x, p[2], q, k - 1)
    <3>1. \A i, j \in 1..(k - 1) : q[i] = q[j] => i = j
      <4> SUFFICES ASSUME NEW i \in 1..(k - 1), NEW j \in 1..(k - 1), q[i] = q[j]
                   PROVE  i = j
        OBVIOUS
      <4>1. p[i + 1] = p[j + 1]
        OBVIOUS
      <4>2. i + 1 = j + 1
        BY <2>2, <2>5, <4>1 DEF ReadsAlong
      <4> QED
        BY <2>3, <4>2
    <3>2. \A i \in 2..(k - 1) : q[i] \in Range(cfg.to[q[i - 1]])
      <4> SUFFICES ASSUME NEW i \in 2..(k - 1)
                   PROVE  q[i] \in Range(cfg.to[q[i - 1]])
        OBVIOUS
      <4>1. /\ i \in 1..(k - 1) /\ i - 1 \in 1..(k - 1) /\ i + 1 \in 2..k
            /\ (i - 1) + 1 = i /\ (i + 1) - 1 = i
        BY <2>3
      <4>2. q[i] = p[i + 1] /\ q[i - 1] = p[i]
        BY <4>1
      <4>3. p[i + 1] \in Range(cfg.to[p[(i + 1) - 1]])
        BY <2>2, <4>1 DEF ReadsAlong
      <4> HIDE DEF q
      <4> QED
        BY <4>1, <4>2, <4>3
    <3>3. 1 \in 1..(k - 1) /\ k - 1 \in 1..(k - 1) /\ 1 + 1 = 2 /\ (k - 1) + 1 = k
      BY <2>3
    <3>4. q[1] = p[2] /\ q[k - 1] = p[k]
      BY <3>3
    <3>5. \A i \in 1..((k - 1) - 1) : i \in 1..(k - 1) /\ i + 1 \in 1..(k - 1) /\ q[i] = p[i + 1]
      BY <2>3
    <3> HIDE DEF q
    <3> QED
      BY <2>2, <3>1, <3>2, <3>4, <3>5 DEF ReadsAlong
  <2> HIDE DEF q
  <2> QED
    BY <2>3, <2>4, <2>6, <2>7, ReadLaterMeans
<1>2. ASSUME x \in Reads(n)
      PROVE  ReadLater(x, n)
  <2> DEFINE q == [i \in 1..1 |-> n]
  <2>1. q \in [1..1 -> Nodes] /\ q[1] = n /\ 2..1 = {} /\ 1..(1 - 1) = {} /\ 1..1 = {1}
    OBVIOUS
  <2> HIDE DEF q
  <2>2. ReadsAlong(x, n, q, 1)
    BY <1>2, <2>1 DEF ReadsAlong
  <2> QED
    BY <1>0, <2>1, <2>2, ReadLaterMeans
<1>3. ASSUME x \notin Writes(n), NEW m \in Range(cfg.to[n]), ReadLater(x, m)
      PROVE  ReadLater(x, n)
  <2>1. PICK k \in Nodes : \E p \in [1..k -> Nodes] : ReadsAlong(x, m, p, k)
    BY <1>3, ReadLaterMeans
  <2>2. PICK p \in [1..k -> Nodes] : ReadsAlong(x, m, p, k)
    BY <2>1
  <2>3. k \in Nat \ {0}
    BY <1>0
  <2>4. CASE \E j \in 1..k : p[j] = n
    <3>1. PICK j \in 1..k : p[j] = n
      BY <2>4
    <3> DEFINE l == (k - j) + 1
               q == [i \in 1..l |-> p[i + (j - 1)]]
    <3>2. l \in Nat \ {0} /\ l <= k /\ l \in Nodes
      BY <1>0, <2>3
    <3>3. \A i \in 1..l : i + (j - 1) \in 1..k
      BY <2>3
    <3>4. q \in [1..l -> Nodes]
      BY <3>3
    <3>5. /\ 1 + (j - 1) = j /\ l + (j - 1) = k /\ 1 \in 1..l /\ l \in 1..l
          /\ \A i \in 2..l : /\ i \in 1..l /\ i - 1 \in 1..l
                             /\ i + (j - 1) \in 2..k
                             /\ (i - 1) + (j - 1) = (i + (j - 1)) - 1
          /\ \A i \in 1..(l - 1) : i \in 1..l /\ i + (j - 1) \in 1..(k - 1)
          /\ \A i, h \in 1..l : i + (j - 1) = h + (j - 1) => i = h
      BY <2>3
    <3>6. \A i \in 1..l : q[i] = p[i + (j - 1)]
      OBVIOUS
    <3> HIDE DEF q, l
    <3>7. ReadsAlong(x, n, q, l)
      <4>1. \A i, h \in 1..l : q[i] = q[h] => i = h
        BY <2>2, <3>3, <3>5, <3>6 DEF ReadsAlong
      <4>2. \A i \in 2..l : q[i] \in Range(cfg.to[q[i - 1]])
        <5> SUFFICES ASSUME NEW i \in 2..l
                     PROVE  q[i] \in Range(cfg.to[q[i - 1]])
          OBVIOUS
        <5>1. p[i + (j - 1)] \in Range(cfg.to[p[(i + (j - 1)) - 1]])
          BY <2>2, <3>5 DEF ReadsAlong
        <5> QED
          BY <3>5, <3>6, <5>1
      <4>3. q[1] = n /\ q[l] = p[k]
        BY <3>1, <3>5, <3>6
      <4>4. \A i \in 1..(l - 1) : x \notin Writes(q[i])
        BY <2>2, <3>5, <3>6 DEF ReadsAlong
      <4> QED
        BY <2>2, <4>1, <4>2, <4>3, <4>4 DEF ReadsAlong
    <3> QED
      BY <3>2, <3>4, <3>7, ReadLaterMeans
  <2>5. CASE ~\E j \in 1..k : p[j] = n
    <3> DEFINE l == k + 1
               q == [i \in 1..l |-> IF i = 1 THEN n ELSE p[i - 1]]
    <3>1. /\ l \in Nat /\ l - 1 = k /\ 1 \in 1..l /\ l \in 1..l /\ l # 1
          /\ \A i \in 1..l : i = 1 \/ i - 1 \in 1..k
          /\ \A i \in 2..l : i \in 1..l /\ i # 1 /\ i - 1 \in 1..l /\ i - 1 \in 1..k
          /\ \A i \in 2..l : i - 1 = 1 \/ i - 1 \in 2..k
          /\ \A i \in 1..(l - 1) : i \in 1..l /\ (i = 1 \/ i - 1 \in 1..(k - 1))
          /\ \A i, h \in 1..l : i - 1 = h - 1 => i = h
      BY <2>3
    <3>2. q \in [1..l -> Nodes]
      BY <3>1
    <3>3. q[1] = n /\ \A i \in 1..l : i # 1 => q[i] = p[i - 1]
      BY <3>1
    <3> HIDE DEF q, l
    <3>4. \A i, h \in 1..l : q[i] = q[h] => i = h
      <4> SUFFICES ASSUME NEW i \in 1..l, NEW h \in 1..l, q[i] = q[h]
                   PROVE  i = h
        OBVIOUS
      <4>1. CASE i = 1 /\ h # 1
        BY <2>5, <3>1, <3>3, <4>1
      <4>2. CASE i # 1 /\ h = 1
        BY <2>5, <3>1, <3>3, <4>2
      <4>3. CASE i # 1 /\ h # 1
        <5>1. p[i - 1] = p[h - 1] /\ i - 1 \in 1..k /\ h - 1 \in 1..k
          BY <3>1, <3>3, <4>3
        <5>2. i - 1 = h - 1
          BY <2>2, <5>1 DEF ReadsAlong
        <5> QED
          BY <3>1, <5>2
      <4> QED
        BY <4>1, <4>2, <4>3
    <3>5. \A i \in 2..l : q[i] \in Range(cfg.to[q[i - 1]])
      <4> SUFFICES ASSUME NEW i \in 2..l
                   PROVE  q[i] \in Range(cfg.to[q[i - 1]])
        OBVIOUS
      <4>1. q[i] = p[i - 1]
        BY <3>1, <3>3
      <4>2. CASE i - 1 = 1
        BY <1>3, <2>2, <3>3, <4>1, <4>2 DEF ReadsAlong
      <4>3. CASE i - 1 \in 2..k
        <5>1. i - 1 # 1 /\ i - 1 \in 1..l
          BY <3>1, <4>3
        <5>2. q[i - 1] = p[(i - 1) - 1]
          BY <3>3, <5>1
        <5> QED
          BY <2>2, <4>1, <4>3, <5>2 DEF ReadsAlong
      <4> QED
        BY <3>1, <4>2, <4>3
    <3>6. q[l] = p[k]
      BY <3>1, <3>3
    <3>7. \A i \in 1..(l - 1) : x \notin Writes(q[i])
      BY <1>3, <2>2, <3>1, <3>3 DEF ReadsAlong
    <3>8. ReadsAlong(x, n, q, l)
      BY <2>2, <3>3, <3>4, <3>5, <3>6, <3>7 DEF ReadsAlong
    <3>9. l \in Nodes
      <4>1. l <= Len(cfg.block)
        BY <3>1, <3>2, <3>4, WalksAreShort
      <4>2. l # 0
        BY <3>1
      <4> QED
        BY <1>0, <3>1, <4>1, <4>2
    <3> QED
      BY <3>2, <3>8, <3>9, ReadLaterMeans
  <2> QED
    BY <2>4, <2>5
<1> QED
  BY <1>1, <1>2, <1>3

\* So what is read later solves the equations.
LEMMA ReadLaterSolves ==
  ASSUME IsCFG(cfg)
  PROVE  [n \in Nodes |-> { x \in Var : ReadLater(x, n) }] \in Solutions
<1> DEFINE L == [n \in Nodes |-> { x \in Var : ReadLater(x, n) }]
<1>1. L \in [Nodes -> SUBSET Var]
  OBVIOUS
<1>2. ASSUME NEW n \in Nodes
      PROVE  L[n] = Reads(n) \cup (Needed(L, n) \ Writes(n))
  <2>1. Reads(n) \subseteq Var
    BY DEF Reads, ReadBeforeWritten, IsCFG, Nodes
  <2>2. Range(cfg.to[n]) \subseteq Nodes
    BY DEF IsCFG, Nodes
  <2>3. \A x : x \in Needed(L, n) <=>
                 x \in Var /\ \E m \in Range(cfg.to[n]) : ReadLater(x, m)
    <3>1. \A m \in Range(cfg.to[n]) : L[m] = { x \in Var : ReadLater(x, m) }
      BY <2>2
    <3> HIDE DEF L
    <3> QED
      BY <3>1 DEF Needed
  <2>4. \A x : x \in L[n] <=> x \in Var /\ ReadLater(x, n)
    OBVIOUS
  <2> HIDE DEF L
  <2>5. \A x : x \in L[n] <=> x \in Reads(n) \/ (x \in Needed(L, n) /\ x \notin Writes(n))
    BY <2>1, <2>3, <2>4, ReadHereOrLater
  <2> QED
    BY <2>5
<1> HIDE DEF L
<1>3. L \in Solutions
  BY <1>1, <1>2, SolutionMeans
<1> QED
  BY <1>3 DEF L

\* And every solution holds what is read later.
LEMMA SolutionsHoldReads ==
  ASSUME IsCFG(cfg), NEW L \in Solutions, NEW n \in Nodes, NEW x, ReadLater(x, n)
  PROVE  x \in L[n]
<1>1. \A m \in Nodes : L[m] = Reads(m) \cup (Needed(L, m) \ Writes(m))
  BY SolutionMeans
<1>2. PICK k \in Nodes : \E p \in [1..k -> Nodes] : ReadsAlong(x, n, p, k)
  BY ReadLaterMeans
<1>3. PICK p \in [1..k -> Nodes] : ReadsAlong(x, n, p, k)
  BY <1>2
<1>4. k \in Nat \ {0}
  BY DEF Nodes
<1> DEFINE T == { t \in Nat : x \in L[p[k - t]] }
<1>5. 0 \in T
  <2>1. k - 0 = k /\ p[k] \in Nodes
    BY <1>4
  <2> QED
    BY <1>1, <1>3, <2>1 DEF ReadsAlong
<1>6. ASSUME NEW t \in 0..((k - 1) - 1), t \in T
      PROVE  t + 1 \in T
  <2>1. /\ k - t \in 2..k /\ (k - t) - 1 = k - (t + 1) /\ k - (t + 1) \in 1..(k - 1)
        /\ k - (t + 1) \in 1..k /\ t + 1 \in Nat
    BY <1>4
  <2>2. p[k - t] \in Range(cfg.to[p[k - (t + 1)]]) /\ x \notin Writes(p[k - (t + 1)])
    BY <1>3, <2>1 DEF ReadsAlong
  <2>3. x \in Needed(L, p[k - (t + 1)])
    BY <1>6, <2>2 DEF Needed
  <2> QED
    BY <1>1, <2>1, <2>2, <2>3
<1>7. 0..(k - 1) \subseteq T
  <2>1. k - 1 \in Nat
    BY <1>4
  <2> HIDE DEF T
  <2> QED
    BY <1>5, <1>6, <2>1, IntervalInduction
<1>8. k - (k - 1) = 1 /\ k - 1 \in 0..(k - 1)
  BY <1>4
<1>9. x \in L[p[1]]
  BY <1>7, <1>8
<1> QED
  BY <1>3, <1>9 DEF ReadsAlong

\* processProgram computes liveness itself: x is live on entry to a node where
\* some path from there reads it before writing it, and nowhere else.
THEOREM LivenessIsCorrect == Spec => []LiveMeansReadLater
<1>1. IInv => LiveMeansReadLater
  <2> SUFFICES ASSUME IInv, Done, NEW n \in Nodes
               PROVE  liveIn[n] = { x \in Var : ReadLater(x, n) }
    BY DEF LiveMeansReadLater
  <2>1. IsCFG(cfg) /\ liveIn[n] \subseteq Var
    BY DEF IInv, TypeOK
  <2>2. liveIn \in Solutions
    BY DoneMeansSolved DEF SolvedWhenDone
  <2> DEFINE L == [m \in Nodes |-> { x \in Var : ReadLater(x, m) }]
  <2>3. L \in Solutions
    BY <2>1, ReadLaterSolves
  <2>4. liveIn[n] \subseteq L[n]
    <3> HIDE DEF L
    <3> QED
      BY <2>3 DEF IInv, BelowSolutions
  <2>5. \A x \in Var : ReadLater(x, n) => x \in liveIn[n]
    BY <2>1, <2>2, SolutionsHoldReads
  <2> QED
    BY <2>1, <2>4, <2>5
<1> QED
  BY <1>1, Invariance, PTL

=============================================================================
