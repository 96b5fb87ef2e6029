----------------------------- MODULE BackendProofs -----------------------------
(***************************************************************************)
(* What is proved of the pipeline from the instruction list of a function  *)
(* to its register allocation, for functions of any length, any number of  *)
(* names and any number of registers: no write destroys a value that some  *)
(* execution still reads.                                                  *)
(*                                                                         *)
(* Each pass has its own inductive invariant, proved in its own module.    *)
(* The invariant of the pipeline is that the pass that runs has its own,   *)
(* and that what the passes before it have handed over is still there.     *)
(***************************************************************************)
EXTENDS Backend, Induction, SequenceTheorems, FiniteSetTheorems

FlowP == INSTANCE ControlFlowProofs
LiveP == INSTANCE LivenessProofs WITH CFGs <- {}
GraphP == INSTANCE InterferenceGraphProofs
            WITH Analyses <- {}, node <- walkNode, instr <- walkInstr
AllocP == INSTANCE RegisterAllocatorProofs

-----------------------------------------------------------------------------
(***************************************************************************)
(* The passes here are the passes the theorems are about.                  *)
(***************************************************************************)

\* Basic blocks and control flow graph.
LEMMA SameFlow ==
  /\ Flow!Next = FlowP!Next /\ Flow!Done = FlowP!Done
  /\ \A c : Flow!InitFor(c) = FlowP!InitFor(c)
BY DEF Flow!Next, FlowP!Next, Flow!TakeInstruction, FlowP!TakeInstruction,
       Flow!FlushBlock, FlowP!FlushBlock, Flow!CreateNodes, FlowP!CreateNodes,
       Flow!LinkNode, FlowP!LinkNode, Flow!Cutting, FlowP!Cutting, Flow!SplitsBefore,
       FlowP!SplitsBefore, Flow!Closed, FlowP!Closed, Flow!JumpingTo, FlowP!JumpingTo,
       Flow!LeadingTo, FlowP!LeadingTo, Flow!LeadsToLabel, FlowP!LeadsToLabel,
       Flow!First, FlowP!First, Flow!Last, FlowP!Last, Flow!FallsThrough,
       FlowP!FallsThrough, Flow!Successors, FlowP!Successors, Flow!NodeByLabel,
       FlowP!NodeByLabel, Flow!Done, FlowP!Done, Flow!InitFor, FlowP!InitFor,
       Flow!IsLabel, FlowP!IsLabel, Flow!IsTerminator, FlowP!IsTerminator,
       Flow!LabelsOf, FlowP!LabelsOf

\* Liveness analysis.
LEMMA SameLive == Live!Next = LiveP!Next /\ Live!Done = LiveP!Done
BY DEF Live!Next, LiveP!Next, Live!Done, LiveP!Done, Live!Scan, LiveP!Scan,
       Live!EndBlock, LiveP!EndBlock, Live!ComputeLiveOut, LiveP!ComputeLiveOut,
       Live!ComputeLiveIn, LiveP!ComputeLiveIn, Live!Exposed, LiveP!Exposed,
       Live!Instruction, LiveP!Instruction, Live!NextNode, LiveP!NextNode,
       Live!LastNode, LiveP!LastNode, Live!SuccessorsLiveIn, LiveP!SuccessorsLiveIn,
       Live!Flag, LiveP!Flag, Live!UsedOrPassedThrough, LiveP!UsedOrPassedThrough,
       Live!GetSources, LiveP!GetSources, Live!NamesIn, LiveP!NamesIn, Live!Operands,
       LiveP!Operands, Live!GetDestination, LiveP!GetDestination, Live!Range,
       LiveP!Range

\* Interference graph.
LEMMA SameGraph == Interference!Next = GraphP!Next
BY DEF Interference!Next, GraphP!Next, Interference!WalkInstruction,
       GraphP!WalkInstruction, Interference!NextBlock, GraphP!NextBlock,
       Interference!AddEntryClique, GraphP!AddEntryClique, Interference!EntryClique,
       GraphP!EntryClique, Interference!Instruction, GraphP!Instruction,
       Interference!Without, GraphP!Without, Interference!Mentioned, GraphP!Mentioned,
       Interference!WithNodes, GraphP!WithNodes, Interference!WithEdges,
       GraphP!WithEdges, Interference!GetSources, GraphP!GetSources,
       Interference!NamesIn, GraphP!NamesIn, Interference!Operands, GraphP!Operands,
       Interference!GetDestination, GraphP!GetDestination, Interference!Range,
       GraphP!Range, Interference!Cardinality, GraphP!Cardinality

\* Register allocator.
LEMMA SameAlloc == Allocator!Next = AllocP!Next /\ Allocator!Done = AllocP!Done
BY DEF Allocator!Next, AllocP!Next, Allocator!Done, AllocP!Done,
       Allocator!SimplifyLowDegree, AllocP!SimplifyLowDegree,
       Allocator!SimplifyPotentialSpill, AllocP!SimplifyPotentialSpill,
       Allocator!LowDegree, AllocP!LowDegree, Allocator!Push, AllocP!Push,
       Allocator!DegreesWithout, AllocP!DegreesWithout, Allocator!Nodes, AllocP!Nodes,
       Allocator!K, AllocP!K, Allocator!Color, AllocP!Color, Allocator!Spill,
       AllocP!Spill, Allocator!CopySet, AllocP!CopySet, Allocator!Top, AllocP!Top,
       Allocator!Pop, AllocP!Pop, Allocator!SpilledWith, AllocP!SpilledWith,
       Allocator!Cardinality, AllocP!Cardinality

\* The queries of instructions are the same everywhere.
LEMMA SameWords ==
  /\ \A i : LiveP!GetSources(i) = GetSources(i) /\ GraphP!GetSources(i) = GetSources(i)
  /\ \A i : LiveP!GetDestination(i) = GetDestination(i)
            /\ GraphP!GetDestination(i) = GetDestination(i)
  /\ \A f : LiveP!Range(f) = Range(f) /\ GraphP!Range(f) = Range(f) /\ FlowP!Range(f) = Range(f)
  /\ \A i : FlowP!IsLabel(i) = IsLabel(i) /\ FlowP!IsTerminator(i) = IsTerminator(i)
  /\ \A c : FlowP!IsFunctionCode(c) = IsFunctionCode(c)
  /\ \A c, p : FlowP!FlowsTo(c, p) = FlowsTo(c, p)
  /\ \A S : AllocP!Cardinality(S) = Cardinality(S)
  /\ \A S : AllocP!IsFiniteSet(S) = IsFiniteSet(S) /\ GraphP!IsFiniteSet(S) = IsFiniteSet(S)
<1>1. \A i : LiveP!GetSources(i) = GetSources(i) /\ GraphP!GetSources(i) = GetSources(i)
  BY DEF LiveP!GetSources, GraphP!GetSources, GetSources, LiveP!NamesIn, GraphP!NamesIn,
         NamesIn, LiveP!Operands, GraphP!Operands, Operands, LiveP!Range, GraphP!Range, Range
<1>2. \A i : LiveP!GetDestination(i) = GetDestination(i)
             /\ GraphP!GetDestination(i) = GetDestination(i)
  BY DEF LiveP!GetDestination, GraphP!GetDestination, GetDestination
<1>3. \A f : LiveP!Range(f) = Range(f) /\ GraphP!Range(f) = Range(f) /\ FlowP!Range(f) = Range(f)
  BY DEF LiveP!Range, GraphP!Range, FlowP!Range, Range
<1>4. \A i : FlowP!IsLabel(i) = IsLabel(i) /\ FlowP!IsTerminator(i) = IsTerminator(i)
  BY DEF FlowP!IsLabel, IsLabel, FlowP!IsTerminator, IsTerminator
<1>5. \A c : FlowP!IsFunctionCode(c) = IsFunctionCode(c)
  BY DEF FlowP!IsFunctionCode, IsFunctionCode, FlowP!JumpsResolve, JumpsResolve,
         FlowP!TerminatorsPrecedeLabels, TerminatorsPrecedeLabels, FlowP!LabelsIn, LabelsIn,
         FlowP!LabelsOf, LabelsOf, FlowP!IsLabel, IsLabel, FlowP!IsTerminator, IsTerminator
<1>6. \A c, p : FlowP!FlowsTo(c, p) = FlowsTo(c, p)
  BY DEF FlowP!FlowsTo, FlowsTo, FlowP!LabelsOf, LabelsOf, FlowP!IsLabel, IsLabel,
         FlowP!IsTerminator, IsTerminator
<1>7. \A S : AllocP!Cardinality(S) = Cardinality(S)
  BY DEF AllocP!Cardinality, Cardinality
<1>8. \A S : AllocP!IsFiniteSet(S) = IsFiniteSet(S) /\ GraphP!IsFiniteSet(S) = IsFiniteSet(S)
  BY DEF AllocP!IsFiniteSet, GraphP!IsFiniteSet, IsFiniteSet
<1> QED
  BY <1>1, <1>2, <1>3, <1>4, <1>5, <1>6, <1>7, <1>8

\* What begins as each pass begins has the invariant of that pass.
LEMMA PassesBegin ==
  /\ LiveP!Start => LiveP!IInv
  /\ GraphP!Start => GraphP!IInv
  /\ AllocP!Start => AllocP!IInv
<1>1. LiveP!Start => LiveP!IInv
  BY LiveP!IInvAtStart
<1>2. GraphP!Start => GraphP!IInv
  BY GraphP!IInvAtStart, VarFinite, SameWords
<1>3. AllocP!Start => AllocP!IInv
  BY AllocP!IInvAtStart, VarFinite, RegFinite, SameWords
<1> QED
  BY <1>1, <1>2, <1>3

\* Also after a step.
LEMMA PassesBeginNext ==
  /\ LiveP!Start' => LiveP!IInv'
  /\ GraphP!Start' => GraphP!IInv'
  /\ AllocP!Start' => AllocP!IInv'
BY PassesBegin, PTL

-----------------------------------------------------------------------------
(***************************************************************************)
(* The pipeline.                                                           *)
(***************************************************************************)

\* The blocks are being made or finished, and mention names of the function.
FlowPart ==
  /\ FlowP!IInv
  /\ NamesOf(code) \subseteq Var
  /\ phase # "blocks" => Flow!Done /\ blocks # <<>>

\* The variables of a later pass are as that pass expects them.
LaterParts ==
  /\ phase = "blocks" => /\ pc = "scan" /\ node = 1 /\ instr = 1
                         /\ definedSoFar = {} /\ changed = FALSE
  /\ phase \in {"blocks", "liveness"} => graph = Empty /\ built = FALSE
  /\ phase # "allocation" => /\ registerStack = <<>> /\ potentialSpills = {}
                             /\ registers = Empty /\ spilled = {}

\* Liveness is computed on the graph that was built, to the end.
LivePart ==
  /\ phase # "blocks" => LiveP!IInv /\ cfg = [block |-> blocks, to |-> to]
  /\ phase \in {"interference", "allocation"} => Live!Done

\* Interference is found on that graph and its liveness.
GraphPart ==
  phase \in {"interference", "allocation"} => GraphP!IInv /\ analysis = LivenessData

\* The finished interference graph is coloured.
AllocPart == phase = "allocation" => AllocP!IInv /\ built

IInv ==
  /\ phase \in {"blocks", "liveness", "interference", "allocation"}
  /\ FlowPart /\ LaterParts /\ LivePart /\ GraphPart /\ AllocPart

\* Nothing is done before the first pass.
LEMMA IInvInitially == Init => IInv
<1> SUFFICES ASSUME NEW c \in Functions, InitFor(c)
             PROVE  IInv
  BY DEF Init
<1>1. FlowP!IInv
  <2>1. FlowP!Init => FlowP!IInv
    BY FlowP!IInvInitially, FunctionsAreCode, SameWords
  <2>2. FlowP!Init
    BY SameFlow DEF FlowP!Init, InitFor
  <2> QED
    BY <2>1, <2>2
<1>2. NamesOf(code) \subseteq Var
  BY FunctionsAreCode DEF InitFor, Flow!InitFor
<1> QED
  BY <1>1, <1>2 DEF InitFor, IInv, FlowPart, LaterParts, LivePart, GraphPart, AllocPart

\* A pass that has ended leaves its blocks to the later ones.
LEMMA FlowStays == FlowPart /\ phase' # "blocks" /\ phase # "blocks" /\ UNCHANGED cfVars => FlowPart'
<1> SUFFICES ASSUME FlowPart, phase # "blocks", phase' # "blocks", UNCHANGED cfVars
             PROVE  FlowPart'
  OBVIOUS
<1>1. FlowP!IInv /\ [FlowP!Next]_(FlowP!vars) => FlowP!IInv'
  BY FlowP!IInvNext, FunctionsAreCode, SameWords
<1>2. UNCHANGED FlowP!vars
  BY DEF cfVars, FlowP!vars
<1>3. FlowP!IInv'
  BY <1>1, <1>2 DEF FlowPart
<1> QED
  BY <1>3 DEF FlowPart, cfVars, Flow!Done, Flow!Cutting

\* So does the second.
LEMMA LiveStays ==
  LivePart /\ phase # "blocks" /\ (phase' \in {"interference", "allocation"} => Live!Done)
  /\ UNCHANGED <<cfVars, liveVars>> => LivePart' /\ LivenessData' = LivenessData
<1> SUFFICES ASSUME LivePart, phase # "blocks", UNCHANGED <<cfVars, liveVars>>,
                    phase' \in {"interference", "allocation"} => Live!Done
             PROVE  LivePart' /\ LivenessData' = LivenessData
  OBVIOUS
<1>1. LiveP!IInv /\ [LiveP!Next]_(LiveP!vars) => LiveP!IInv'
  BY LiveP!IInvNext
<1>2. UNCHANGED LiveP!vars
  BY DEF liveVars, LiveP!vars
<1>3. LiveP!IInv'
  BY <1>1, <1>2 DEF LivePart
<1> QED
  BY <1>3 DEF LivePart, LivenessData, cfVars, liveVars, Live!Done

\* The first pass goes on.
LEMMA FlowGoesOn == IInv /\ BuildControlFlow => IInv'
<1> SUFFICES ASSUME IInv, BuildControlFlow
             PROVE  IInv'
  OBVIOUS
<1>1. phase = "blocks" /\ Flow!Next /\ UNCHANGED <<phase, liveVars, graphVars, graph, allocVars>>
  BY DEF BuildControlFlow
<1>2. FlowP!IInv /\ [FlowP!Next]_(FlowP!vars) => FlowP!IInv'
  BY FlowP!IInvNext, FunctionsAreCode, SameWords
<1>3. FlowP!IInv'
  BY <1>1, <1>2, SameFlow DEF IInv, FlowPart
<1>4. code' = code
  BY <1>1 DEF Flow!Next, Flow!TakeInstruction, Flow!FlushBlock, Flow!CreateNodes, Flow!LinkNode
<1>5. FlowPart'
  BY <1>1, <1>3, <1>4 DEF FlowPart, IInv
<1>6. LaterParts'
  BY <1>1 DEF IInv, LaterParts, liveVars, graphVars, allocVars, Empty
<1> QED
  BY <1>1, <1>5, <1>6 DEF IInv, LivePart, GraphPart, AllocPart

\* The graph that was built is a graph that can be analysed.
LEMMA GraphCanBeAnalysed ==
  ASSUME IInv, Flow!Done, blocks # <<>>
  PROVE  LiveP!IsCFG([block |-> blocks, to |-> to])
<1>1. FlowP!IInv /\ FlowP!Done
  BY SameFlow DEF IInv, FlowPart
<1>2. /\ Len(blocks) \in Nat /\ DOMAIN blocks = 1..Len(blocks)
      /\ DOMAIN code = 1..Len(code)
      /\ \A n \in DOMAIN blocks :
           /\ Len(blocks[n]) \in Nat \ {0} /\ DOMAIN blocks[n] = 1..Len(blocks[n])
           /\ \A k \in DOMAIN blocks[n] : blocks[n][k] \in Range(code)
  <2>1. FlowP!CutSoFar
    BY <1>1 DEF FlowP!IInv
  <2>2. /\ blocks \in Seq(Seq(Range(code)) \ {<<>>}) /\ code \in Seq(Range(code))
    BY <2>1, SameWords DEF FlowP!CutSoFar, FlowP!Pieces, FlowP!Nonempty, FlowP!Instructions
  <2>3. \A b \in Seq(Range(code)) \ {<<>>} :
          /\ Len(b) \in Nat \ {0} /\ DOMAIN b = 1..Len(b)
          /\ \A k \in DOMAIN b : b[k] \in Range(code)
    BY EmptySeq, LenProperties, ElementOfSeq
  <2> QED
    BY <2>2, <2>3, LenProperties, ElementOfSeq
<1>3. Len(blocks) # 0
  <2>1. blocks \in Seq(Seq(Range(code)) \ {<<>>})
    BY <1>1, SameWords DEF FlowP!IInv, FlowP!CutSoFar, FlowP!Pieces, FlowP!Nonempty,
                           FlowP!Instructions
  <2> QED
    BY <2>1, EmptySeq
<1>4. ASSUME NEW n \in 1..Len(blocks)
      PROVE  Range(to[n]) \subseteq 1..Len(blocks)
  <2>1. n \in DOMAIN to
    <3>1. linked = Len(blocks)
      BY <1>1 DEF FlowP!Done
    <3> QED
      BY <1>1, <1>2, <1>3, <3>1 DEF FlowP!IInv, FlowP!LinkedSoFar
  <2> QED
    BY <1>1, <1>2, <2>1, FlowP!EdgesLeadToNodes, FunctionsAreCode, SameWords
<1>5. ASSUME NEW i \in Range(code)
      PROVE  GetSources(i) \subseteq Var /\ GetDestination(i) \subseteq Var
  BY DEF IInv, FlowPart, NamesOf
<1>6. \A n \in 1..Len(blocks) : \A k \in 1..Len(blocks[n]) :
        GetSources(blocks[n][k]) \subseteq Var /\ GetDestination(blocks[n][k]) \subseteq Var
  BY <1>2, <1>5
<1> QED
  BY <1>2, <1>3, <1>4, <1>6, SameWords DEF LiveP!IsCFG

\* The second pass starts.
LEMMA LivenessStarts == IInv /\ StartLiveness => IInv'
<1> SUFFICES ASSUME IInv, StartLiveness
             PROVE  IInv'
  OBVIOUS
<1>1. /\ phase = "blocks" /\ Flow!Done /\ blocks # <<>> /\ phase' = "liveness"
      /\ cfg' = [block |-> blocks, to |-> to]
      /\ use' = [n \in DOMAIN blocks |-> {}] /\ def' = use'
      /\ liveIn' = use' /\ liveOut' = use'
      /\ UNCHANGED <<pc, node, instr, definedSoFar, changed>>
      /\ UNCHANGED <<cfVars, graphVars, graph, allocVars>>
  BY DEF StartLiveness
<1>2. FlowPart'
  <2>1. FlowP!IInv /\ [FlowP!Next]_(FlowP!vars) => FlowP!IInv'
    BY FlowP!IInvNext, FunctionsAreCode, SameWords
  <2>2. UNCHANGED FlowP!vars
    BY <1>1 DEF cfVars, FlowP!vars
  <2>3. FlowP!IInv'
    BY <2>1, <2>2 DEF IInv, FlowPart
  <2> QED
    BY <1>1, <2>3 DEF IInv, FlowPart, cfVars, Flow!Done, Flow!Cutting
<1>3. LiveP!IInv'
  <2>1. LiveP!IsCFG(cfg')
    BY <1>1, GraphCanBeAnalysed
  <2>2. DOMAIN blocks = 1..Len(blocks)
    BY LenProperties DEF IInv, FlowPart, FlowP!IInv, FlowP!CutSoFar, FlowP!Pieces
  <2>3. cfg'.block = blocks
    BY <1>1
  <2>4. use' = LiveP!NoNames'
    BY <1>1, <2>2, <2>3 DEF LiveP!NoNames, LiveP!Nodes
  <2>5. LiveP!InitFor(cfg)'
    BY <1>1, <2>4 DEF LiveP!InitFor, IInv, LaterParts
  <2>6. LiveP!Start'
    BY <2>1, <2>5 DEF LiveP!Start, LiveP!IsCFG
  <2> QED
    BY <2>6, PassesBeginNext
<1>4. LivePart'
  BY <1>1, <1>3 DEF LivePart, cfVars
<1>5. LaterParts'
  BY <1>1 DEF IInv, LaterParts, graphVars, allocVars, Empty
<1> QED
  BY <1>1, <1>2, <1>4, <1>5 DEF IInv, GraphPart, AllocPart

\* The second pass goes on.
LEMMA LivenessGoesOn == IInv /\ AnalyseLiveness => IInv'
<1> SUFFICES ASSUME IInv, AnalyseLiveness
             PROVE  IInv'
  OBVIOUS
<1>1. phase = "liveness" /\ Live!Next /\ UNCHANGED <<phase, cfVars, graphVars, graph, allocVars>>
  BY DEF AnalyseLiveness
<1>2. FlowPart'
  BY <1>1, FlowStays DEF IInv
<1>3. LiveP!IInv /\ [LiveP!Next]_(LiveP!vars) => LiveP!IInv'
  BY LiveP!IInvNext
<1>4. LiveP!IInv'
  BY <1>1, <1>3, SameLive DEF IInv, LivePart
<1>5. cfg' = cfg
  BY <1>1 DEF Live!Next, Live!Scan, Live!EndBlock, Live!ComputeLiveOut, Live!ComputeLiveIn
<1>6. LivePart'
  BY <1>1, <1>4, <1>5 DEF IInv, LivePart, cfVars
<1>7. LaterParts'
  BY <1>1 DEF IInv, LaterParts, graphVars, allocVars, Empty
<1> QED
  BY <1>1, <1>2, <1>6, <1>7 DEF IInv, GraphPart, AllocPart

\* A name is not written before an instruction of a block exactly when it is
\* unwritten from the entry of the block to there.
LEMMA WrittenAgrees ==
  ASSUME NEW a, a.block = cfg.block, NEW n, NEW j, NEW x
  PROVE  x \notin LiveP!WrittenBefore(n, j) <=> GraphP!Unwritten(a, x, n, 0, j)
<1>1. x \in LiveP!WrittenBefore(n, j) <=> \E k \in 1..(j - 1) : x \in GetDestination(cfg.block[n][k])
  BY SameWords DEF LiveP!WrittenBefore
<1>2. GraphP!Unwritten(a, x, n, 0, j) <=>
        \A k \in (0 + 1)..(j - 1) : x \notin GetDestination(cfg.block[n][k])
  BY SameWords DEF GraphP!Unwritten
<1>3. 0 + 1 = 1
  OBVIOUS
<1> QED
  BY <1>1, <1>2, <1>3

\* What the walk of the third pass finds at the beginning of a block is what
\* the equations of the second say.
LEMMA WalkSolvesEquation ==
  ASSUME LiveP!IsCFG(cfg), NEW a, a.block = cfg.block, NEW n \in LiveP!Nodes,
         a.liveOut[n] \subseteq Var
  PROVE  GraphP!LiveAfterIn(a, n, 0) = LiveP!Reads(n) \cup (a.liveOut[n] \ LiveP!Writes(n))
<1> DEFINE l == Len(cfg.block[n])
           clear(x, j) == GraphP!Unwritten(a, x, n, 0, j)
<1>1. /\ l \in Nat /\ (l + 1) - 1 = l /\ 0 + 1 = 1
      /\ \A j \in 1..l : GetSources(cfg.block[n][j]) \subseteq Var
  BY SameWords DEF LiveP!IsCFG, LiveP!Nodes
<1>2. \A x, j : x \notin LiveP!WrittenBefore(n, j) <=> clear(x, j)
  BY WrittenAgrees
<1>3. \A x : x \in LiveP!Reads(n) <=>
               \E j \in 1..l : x \in GetSources(cfg.block[n][j])
                               /\ x \notin LiveP!WrittenBefore(n, j)
  BY <1>1, SameWords DEF LiveP!Reads, LiveP!ReadBeforeWritten
<1>4. \A x : x \notin LiveP!Writes(n) <=> clear(x, l + 1)
  BY <1>2 DEF LiveP!Writes
<1>5. \A x : x \in GraphP!LiveAfterIn(a, n, 0) <=>
               /\ x \in Var
               /\ \/ \E j \in 1..l : x \in GetSources(cfg.block[n][j]) /\ clear(x, j)
                  \/ x \in a.liveOut[n] /\ clear(x, l + 1)
  BY <1>1, SameWords DEF GraphP!LiveAfterIn
<1> HIDE DEF clear, l
<1>6. \A x : x \in GraphP!LiveAfterIn(a, n, 0) <=>
               x \in LiveP!Reads(n) \/ (x \in a.liveOut[n] /\ x \notin LiveP!Writes(n))
  BY <1>1, <1>2, <1>3, <1>4, <1>5
<1> QED
  BY <1>6

\* What the second pass hands over is what the third expects.
LEMMA AnalysisIsSolved ==
  ASSUME IInv, phase = "liveness", Live!Done
  PROVE  GraphP!IsAnalysis(LivenessData) /\ GraphP!IsSolved(LivenessData)
<1>1. LiveP!IInv /\ LiveP!Done /\ cfg = [block |-> blocks, to |-> to]
  BY SameLive DEF IInv, LivePart
<1>2. LiveP!IInv => LiveP!SolvedWhenDone
  BY LiveP!DoneMeansSolved
<1>3. /\ liveIn \in LiveP!Solutions
      /\ \A n \in LiveP!Nodes : liveOut[n] = LiveP!SuccessorsLiveIn(n)
  BY <1>1, <1>2 DEF LiveP!SolvedWhenDone
<1>4. liveIn \in LiveP!Solutions =>
        \A n \in LiveP!Nodes :
          liveIn[n] = LiveP!Reads(n) \cup (LiveP!Needed(liveIn, n) \ LiveP!Writes(n))
  BY LiveP!SolutionMeans
<1>5. LiveP!TypeOK /\ LiveP!IsCFG(cfg)
  BY <1>1 DEF LiveP!IInv, LiveP!TypeOK
<1>6. cfg.block = blocks /\ cfg.to = to /\ LiveP!Nodes = 1..Len(blocks)
  BY <1>1 DEF LiveP!Nodes
<1>7. LivenessData.block = blocks /\ LivenessData.to = to
      /\ LivenessData.liveIn = liveIn /\ LivenessData.liveOut = liveOut
  BY DEF LivenessData
<1>8. GraphP!IsAnalysis(LivenessData)
  BY <1>5, <1>6, <1>7, SameWords DEF GraphP!IsAnalysis, LiveP!TypeOK, LiveP!IsCFG
<1>9. ASSUME NEW n \in 1..Len(blocks)
      PROVE  liveOut[n] = UNION { liveIn[m] : m \in GraphP!Range(to[n]) }
  BY <1>3, <1>6, SameWords DEF LiveP!SuccessorsLiveIn
<1>10. ASSUME NEW n \in 1..Len(blocks)
       PROVE  liveIn[n] = GraphP!LiveAfterIn(LivenessData, n, 0)
  <2>1. liveOut[n] \subseteq Var /\ liveOut[n] = LiveP!Needed(liveIn, n)
    BY <1>3, <1>5, <1>6 DEF LiveP!TypeOK, LiveP!SuccessorsLiveIn, LiveP!Needed
  <2>2. GraphP!LiveAfterIn(LivenessData, n, 0)
          = LiveP!Reads(n) \cup (liveOut[n] \ LiveP!Writes(n))
    BY <1>5, <1>6, <1>7, <2>1, WalkSolvesEquation
  <2> QED
    BY <1>3, <1>4, <1>6, <2>1, <2>2
<1>11. GraphP!IsSolved(LivenessData)
  BY <1>7, <1>9, <1>10 DEF GraphP!IsSolved
<1> QED
  BY <1>8, <1>11

\* The third pass starts.
LEMMA InterferenceStarts == IInv /\ StartInterference => IInv'
<1> SUFFICES ASSUME IInv, StartInterference
             PROVE  IInv'
  OBVIOUS
<1>1. /\ phase = "liveness" /\ Live!Done /\ phase' = "interference"
      /\ analysis' = LivenessData
      /\ walkNode' = 1 /\ walkInstr' = Len(blocks[1])
      /\ currRegisters' = analysis'.liveOut[1]
      /\ UNCHANGED <<built, cfVars, liveVars, graph, allocVars>>
  BY DEF StartInterference
<1>2. FlowPart'
  BY <1>1, FlowStays DEF IInv
<1>3. analysis'.block = blocks /\ analysis'.to = to
  BY <1>1 DEF LivenessData
<1>4. GraphP!IsAnalysis(analysis') /\ GraphP!IsSolved(analysis')
  BY <1>1, AnalysisIsSolved
<1>5. GraphP!InitFor(analysis)'
  BY <1>1, <1>3 DEF GraphP!InitFor, IInv, LaterParts, Empty
<1>6. GraphP!Start'
  BY <1>4, <1>5 DEF GraphP!Start, GraphP!IsAnalysis, GraphP!IsSolved
<1>7. LivePart' /\ LivenessData' = LivenessData
  BY <1>1, LiveStays DEF IInv
<1>8. GraphPart'
  BY <1>1, <1>6, <1>7, PassesBeginNext DEF GraphPart
<1>9. LaterParts'
  BY <1>1 DEF IInv, LaterParts, allocVars, Empty
<1> QED
  BY <1>1, <1>2, <1>7, <1>8, <1>9 DEF IInv, AllocPart

\* The third pass goes on.
LEMMA InterferenceGoesOn == IInv /\ BuildInterference => IInv'
<1> SUFFICES ASSUME IInv, BuildInterference
             PROVE  IInv'
  OBVIOUS
<1>1. phase = "interference" /\ Interference!Next /\ UNCHANGED <<phase, cfVars, liveVars, allocVars>>
  BY DEF BuildInterference
<1>2. FlowPart'
  BY <1>1, FlowStays DEF IInv
<1>3. GraphP!IInv /\ [GraphP!Next]_(GraphP!vars) => GraphP!IInv'
  BY GraphP!IInvNext, VarFinite, SameWords
<1>4. GraphP!IInv'
  BY <1>1, <1>3, SameGraph DEF IInv, GraphPart
<1>5. analysis' = analysis
  BY <1>1 DEF Interference!Next, Interference!WalkInstruction, Interference!NextBlock,
              Interference!AddEntryClique
<1>6. LivePart' /\ LivenessData' = LivenessData
  BY <1>1, LiveStays DEF IInv, LivePart
<1>7. GraphPart'
  BY <1>1, <1>4, <1>5, <1>6 DEF IInv, GraphPart
<1>8. LaterParts'
  BY <1>1 DEF IInv, LaterParts, allocVars, Empty
<1> QED
  BY <1>1, <1>2, <1>6, <1>7, <1>8 DEF IInv, AllocPart

\* The third pass leaves its graph to the fourth.
LEMMA GraphStays ==
  ASSUME GraphP!IInv, UNCHANGED <<graphVars, graph>>
  PROVE  GraphP!IInv'
<1>1. GraphP!IInv /\ [GraphP!Next]_(GraphP!vars) => GraphP!IInv'
  BY GraphP!IInvNext, VarFinite, SameWords
<1>2. UNCHANGED GraphP!vars
  BY DEF graphVars, GraphP!vars
<1> QED
  BY <1>1, <1>2

\* The fourth pass starts.
LEMMA AllocationStarts == IInv /\ StartAllocation => IInv'
<1> SUFFICES ASSUME IInv, StartAllocation
             PROVE  IInv'
  OBVIOUS
<1>1. /\ phase = "interference" /\ built /\ phase' = "allocation"
      /\ degree' = [v \in DOMAIN graph |-> Cardinality(graph[v])]
      /\ remaining' = DOMAIN graph
      /\ UNCHANGED <<registerStack, potentialSpills, registers, spilled>>
      /\ UNCHANGED <<cfVars, liveVars, graphVars, graph>>
  BY DEF StartAllocation, GraphNodes
<1>2. FlowPart'
  BY <1>1, FlowStays DEF IInv
<1>3. LivePart' /\ GraphPart'
  <2>1. LivePart' /\ LivenessData' = LivenessData
    BY <1>1, LiveStays DEF IInv, LivePart
  <2> QED
    BY <1>1, <2>1, GraphStays DEF IInv, GraphPart, graphVars
<1>4. AllocP!Colors!IsInterferenceGraph(graph)
  BY <1>1 DEF IInv, GraphPart, GraphP!IInv, GraphP!TypeOK, AllocP!Colors!IsInterferenceGraph
<1>5. AllocP!InitFor(graph)'
  <2>1. Empty = [v \in {} |-> 0]
    BY DEF Empty
  <2> QED
    BY <1>1, <2>1, SameWords DEF AllocP!InitFor, AllocP!Nodes, IInv, LaterParts
<1>6. AllocP!Start'
  BY <1>1, <1>4, <1>5 DEF AllocP!Start, AllocP!Colors!IsInterferenceGraph
<1>7. AllocPart'
  BY <1>1, <1>6, PassesBeginNext DEF AllocPart, graphVars
<1> QED
  BY <1>1, <1>2, <1>3, <1>7 DEF IInv, LaterParts

\* The fourth pass goes on.
LEMMA AllocationGoesOn == IInv /\ Allocate => IInv'
<1> SUFFICES ASSUME IInv, Allocate
             PROVE  IInv'
  OBVIOUS
<1>1. phase = "allocation" /\ Allocator!Next /\ UNCHANGED <<phase, cfVars, liveVars, graphVars>>
  BY DEF Allocate
<1>2. graph' = graph
  BY <1>1 DEF Allocator!Next, Allocator!SimplifyLowDegree, Allocator!SimplifyPotentialSpill,
              Allocator!Push, Allocator!Color, Allocator!Spill
<1>3. AllocP!IInv /\ [AllocP!Next]_(AllocP!vars) => AllocP!IInv'
  BY AllocP!NextPreservesIInv, VarFinite, RegFinite, SameWords
<1>4. AllocP!IInv'
  BY <1>1, <1>3, SameAlloc DEF IInv, AllocPart
<1>5. FlowPart'
  BY <1>1, FlowStays DEF IInv
<1>6. LivePart' /\ GraphPart'
  <2>1. LivePart' /\ LivenessData' = LivenessData
    BY <1>1, LiveStays DEF IInv, LivePart
  <2> QED
    BY <1>1, <1>2, <2>1, GraphStays DEF IInv, GraphPart, graphVars
<1> QED
  BY <1>1, <1>4, <1>5, <1>6 DEF IInv, LaterParts, AllocPart, graphVars

\* Every step keeps the invariant.
LEMMA IInvNext == IInv /\ [Next]_vars => IInv'
<1> SUFFICES ASSUME IInv, [Next]_vars
             PROVE  IInv'
  OBVIOUS
<1>1. CASE UNCHANGED vars
  <2>1. FlowP!IInv'
    <3>1. FlowP!IInv /\ [FlowP!Next]_(FlowP!vars) => FlowP!IInv'
      BY FlowP!IInvNext, FunctionsAreCode, SameWords
    <3>2. UNCHANGED FlowP!vars
      BY <1>1 DEF vars, cfVars, FlowP!vars
    <3> QED
      BY <3>1, <3>2 DEF IInv, FlowPart
  <2>2. FlowPart'
    BY <1>1, <2>1 DEF vars, cfVars, IInv, FlowPart, Flow!Done, Flow!Cutting
  <2>3. LivePart' /\ LivenessData' = LivenessData
    <3>1. LivePart /\ UNCHANGED <<phase, cfVars, liveVars>>
      BY <1>1 DEF vars, IInv
    <3>2. CASE phase = "blocks"
      BY <3>1, <3>2 DEF LivePart, LivenessData, cfVars, liveVars
    <3>3. CASE phase # "blocks"
      BY <3>1, <3>3, LiveStays DEF LivePart
    <3> QED
      BY <3>2, <3>3
  <2>4. GraphPart'
    BY <1>1, <2>3, GraphStays DEF vars, graphVars, IInv, GraphPart
  <2>5. AllocPart'
    <3>1. AllocP!IInv /\ [AllocP!Next]_(AllocP!vars) => AllocP!IInv'
      BY AllocP!NextPreservesIInv, VarFinite, RegFinite, SameWords
    <3>2. UNCHANGED AllocP!vars
      BY <1>1 DEF vars, allocVars, AllocP!vars
    <3> QED
      BY <1>1, <3>1, <3>2 DEF vars, graphVars, IInv, AllocPart
  <2> QED
    BY <1>1, <2>2, <2>3, <2>4, <2>5 DEF vars, liveVars, graphVars, allocVars, IInv,
                                        LaterParts, Empty
<1> QED
  BY <1>1, FlowGoesOn, LivenessStarts, LivenessGoesOn, InterferenceStarts,
     InterferenceGoesOn, AllocationStarts, AllocationGoesOn DEF Next

\* The invariant holds throughout.
LEMMA Invariance == Spec => []IInv
BY IInvInitially, IInvNext, PTL DEF Spec

-----------------------------------------------------------------------------
(***************************************************************************)
(* Positions of the list and instructions of the blocks.                   *)
(***************************************************************************)

\* The liveness of the blocks has been handed over.
Analysed == IInv /\ phase \in {"interference", "allocation"}

\* Where instruction i of block n stands in the list.
At(n, i) == FlowP!EndOf[n - 1] + i

\* What the first pass has left.
LEMMA BlocksAreCut ==
  ASSUME Analysed
  PROVE  /\ FlowP!IInv /\ FlowP!CutSoFar /\ ~FlowP!Cutting /\ FlowP!Done /\ blocks # <<>>
         /\ GraphP!IInv /\ analysis = LivenessData
         /\ analysis.block = blocks /\ analysis.to = to
         /\ GraphP!IsAnalysis(analysis) /\ GraphP!IsSolved(analysis)
         /\ NamesOf(code) \subseteq Var
<1>1. FlowP!IInv /\ FlowP!Done /\ blocks # <<>> /\ NamesOf(code) \subseteq Var
  BY SameFlow DEF Analysed, IInv, FlowPart
<1>2. /\ GraphP!IInv /\ analysis = LivenessData
      /\ analysis.block = blocks /\ analysis.to = to
  BY DEF Analysed, IInv, GraphPart, LivenessData
<1> QED
  BY <1>1, <1>2 DEF FlowP!IInv, FlowP!Done, GraphP!IInv, GraphP!TypeOK, GraphP!Solved

\* Every instruction of a block has a position of its own, and every position
\* is that of an instruction of a block.
LEMMA PositionsAreInBlocks ==
  ASSUME Analysed
  PROVE  /\ DOMAIN blocks = 1..Len(blocks) /\ GraphP!Nodes = DOMAIN blocks
         /\ DOMAIN code = 1..Len(code) /\ Len(code) \in Nat
         /\ \A n \in DOMAIN blocks :
              /\ Len(blocks[n]) \in Nat \ {0}
              /\ \A i \in 1..Len(blocks[n]) :
                   /\ At(n, i) \in DOMAIN code
                   /\ code[At(n, i)] = GraphP!Instruction(n, i)
              /\ At(n, Len(blocks[n])) = FlowP!EndOf[n]
              /\ At(n, 1) = FlowP!StartOf(n)
         /\ \A p \in DOMAIN code :
              \E n \in DOMAIN blocks : \E i \in 1..Len(blocks[n]) : p = At(n, i)
<1> DEFINE E == FlowP!EndOf
<1>1. FlowP!CutSoFar /\ ~FlowP!Cutting /\ analysis.block = blocks
  BY BlocksAreCut
<1>2. /\ Len(blocks) \in Nat /\ DOMAIN blocks = 1..Len(blocks)
      /\ Len(code) \in Nat /\ DOMAIN code = 1..Len(code)
      /\ E[0] = 0 /\ \A n \in 0..Len(blocks) : E[n] \in Nat
      /\ E[Len(blocks)] + Len(block) = next - 1
      /\ \A n \in DOMAIN blocks :
           /\ Len(blocks[n]) \in Nat \ {0} /\ DOMAIN blocks[n] = 1..Len(blocks[n])
           /\ E[n] = E[n - 1] + Len(blocks[n])
           /\ \A k \in DOMAIN blocks[n] : blocks[n][k] = code[E[n - 1] + k]
           /\ FlowP!StartOf(n) \in DOMAIN code /\ E[n] \in DOMAIN code
  BY <1>1, FlowP!BlockPositions, FunctionsAreCode, SameWords
<1>3. GraphP!Nodes = DOMAIN blocks
  BY <1>1, <1>2 DEF GraphP!Nodes
<1>4. ASSUME NEW n \in DOMAIN blocks
      PROVE  /\ Len(blocks[n]) \in Nat \ {0}
             /\ \A i \in 1..Len(blocks[n]) :
                  /\ At(n, i) \in DOMAIN code
                  /\ code[At(n, i)] = GraphP!Instruction(n, i)
             /\ At(n, Len(blocks[n])) = E[n]
             /\ At(n, 1) = FlowP!StartOf(n)
  <2>1. n - 1 \in 0..Len(blocks) /\ n \in 0..Len(blocks)
    BY <1>2
  <2>2. E[n - 1] \in Nat /\ E[n] \in 1..Len(code) /\ E[n] = E[n - 1] + Len(blocks[n])
        /\ Len(blocks[n]) \in Nat \ {0}
    BY <1>2, <2>1
  <2>3. \A e, l, i, c \in Nat : e + l <= c /\ i \in 1..l => e + i \in 1..c
    OBVIOUS
  <2>4. \A i \in 1..Len(blocks[n]) : At(n, i) \in 1..Len(code)
    BY SMTT(30), <1>2, <2>2, <2>3 DEF At
  <2>5. \A i \in 1..Len(blocks[n]) : code[At(n, i)] = GraphP!Instruction(n, i)
    BY <1>1, <1>2 DEF At, GraphP!Instruction
  <2> QED
    BY <1>2, <2>2, <2>4, <2>5 DEF At, FlowP!StartOf
<1>5. ASSUME NEW p \in DOMAIN code
      PROVE  \E n \in DOMAIN blocks : \E i \in 1..Len(blocks[n]) : p = At(n, i)
  <2>1. blocks \in Seq(FlowP!Nonempty(FlowP!Instructions)) /\ next \in 1..(Len(code) + 1)
    BY <1>1 DEF FlowP!CutSoFar, FlowP!Pieces
  <2>2. block = <<>> /\ next > Len(code)
    BY <1>1, <1>2, <2>1 DEF FlowP!Cutting
  <2>3. p \in 1..E[Len(blocks)]
    <3>1. Len(block) = 0
      BY <2>2
    <3> QED
      BY <1>2, <2>1, <2>2, <3>1
  <2>4. \E n \in 1..Len(blocks) : \E k \in 1..Len(blocks[n]) : p = FlowP!Ends(blocks)[n - 1] + k
    BY <2>1, <2>3, FlowP!Covered, FunctionsAreCode, SameWords DEF FlowP!EndOf
  <2> QED
    BY <1>2, <2>4 DEF At, FlowP!EndOf
<1> HIDE DEF E
<1> QED
  BY <1>2, <1>3, <1>4, <1>5 DEF E

\* Two instructions of blocks have two positions.
LEMMA PositionsDiffer ==
  ASSUME Analysed, NEW m \in DOMAIN blocks, NEW n \in DOMAIN blocks,
         NEW j \in 1..Len(blocks[m]), NEW i \in 1..Len(blocks[n]), At(m, j) = At(n, i)
  PROVE  m = n /\ j = i
<1> DEFINE E == FlowP!EndOf
<1>1. blocks \in Seq(FlowP!Nonempty(FlowP!Instructions)) /\ FlowP!CutSoFar
  BY BlocksAreCut DEF FlowP!CutSoFar, FlowP!Pieces
<1>2. /\ Len(blocks) \in Nat /\ DOMAIN blocks = 1..Len(blocks)
      /\ \A k \in 0..Len(blocks) : E[k] \in Nat
      /\ \A k \in DOMAIN blocks : E[k] = E[k - 1] + Len(blocks[k])
                                  /\ Len(blocks[k]) \in Nat \ {0}
  BY <1>1, FlowP!BlockPositions, FunctionsAreCode, SameWords
<1>3. \A k, l \in 0..Len(blocks) : k < l => E[k] < E[l]
  BY <1>1, FlowP!EndsGrow, FunctionsAreCode, SameWords DEF FlowP!EndOf
<1>4. \A k, l \in DOMAIN blocks : k < l => E[k] <= E[l - 1]
  <2> SUFFICES ASSUME NEW k \in 1..Len(blocks), NEW l \in 1..Len(blocks), k < l
               PROVE  E[k] <= E[l - 1]
    BY <1>2
  <2>1. l - 1 \in 0..Len(blocks) /\ k \in 0..Len(blocks) /\ (k = l - 1 \/ k < l - 1)
    BY <1>2
  <2>2. E[k] \in Nat /\ E[l - 1] \in Nat
    BY <1>2, <2>1
  <2> HIDE DEF E
  <2>3. CASE k = l - 1
    BY <2>2, <2>3
  <2>4. CASE k < l - 1
    <3>1. E[k] < E[l - 1]
      BY <1>3, <2>1, <2>4
    <3> QED
      BY <2>2, <3>1
  <2> QED
    BY <2>1, <2>3, <2>4
<1>5. /\ m - 1 \in 0..Len(blocks) /\ n - 1 \in 0..Len(blocks)
      /\ m \in 0..Len(blocks) /\ n \in 0..Len(blocks)
  BY <1>2
<1>6. /\ E[m - 1] \in Nat /\ E[n - 1] \in Nat /\ E[m] \in Nat /\ E[n] \in Nat
      /\ Len(blocks[m]) \in Nat /\ Len(blocks[n]) \in Nat
      /\ E[m] = E[m - 1] + Len(blocks[m]) /\ E[n] = E[n - 1] + Len(blocks[n])
  BY <1>2, <1>5
<1>7. E[m - 1] + j = E[n - 1] + i
  BY DEF At
<1> HIDE DEF E
<1>8. m < n => FALSE
  <2> SUFFICES ASSUME m < n PROVE FALSE
    OBVIOUS
  <2>1. E[m] <= E[n - 1]
    BY <1>4
  <2> QED
    BY SMTT(30), <1>6, <1>7, <2>1
<1>9. n < m => FALSE
  <2> SUFFICES ASSUME n < m PROVE FALSE
    OBVIOUS
  <2>1. E[n] <= E[m - 1]
    BY <1>4
  <2> QED
    BY <1>6, <1>7, <2>1
<1>10. m = n
  BY <1>2, <1>8, <1>9
<1> QED
  BY <1>6, <1>7, <1>10

-----------------------------------------------------------------------------
(***************************************************************************)
(* Liveness of the list is liveness of the blocks.                         *)
(***************************************************************************)

\* Positions before which x is live according to the blocks.
LivePositions(x) ==
  { p \in DOMAIN code :
      \E n \in DOMAIN blocks : \E i \in 1..Len(blocks[n]) :
        p = At(n, i) /\ x \in GraphP!LiveAfter(n, i - 1) }

\* Execution goes on inside the block, or at the beginning of a successor.
LEMMA FlowFromPosition ==
  ASSUME Analysed, NEW n \in DOMAIN blocks, NEW i \in 1..Len(blocks[n]),
         NEW q \in FlowsTo(code, At(n, i))
  PROVE  \/ i + 1 \in 1..Len(blocks[n]) /\ q = At(n, i + 1)
         \/ i = Len(blocks[n]) /\ \E c \in Range(to[n]) : c \in DOMAIN blocks /\ q = At(c, 1)
<1> DEFINE l == Len(blocks[n])
<1>1. /\ At(n, i) \in DOMAIN code /\ code[At(n, i)] = blocks[n][i] /\ l \in Nat \ {0}
      /\ At(n, l) = FlowP!EndOf[n]
  BY PositionsAreInBlocks, BlocksAreCut DEF GraphP!Instruction
<1>2. CASE i # l
  <2>1. i \in 1..(l - 1) /\ i + 1 \in 1..l
    BY <1>1, <1>2
  <2>2. ~FlowP!IsTerminator(blocks[n][i])
    BY <2>1, BlocksAreCut DEF FlowP!CutSoFar, FlowP!Pieces, FlowP!IsStraight
  <2>3. q = At(n, i) + 1
    BY <1>1, <2>2, SameWords DEF FlowsTo
  <2>4. FlowP!EndOf[n - 1] \in Nat
    <3>1. /\ \A k \in 0..Len(blocks) : FlowP!EndOf[k] \in Nat
          /\ Len(blocks) \in Nat /\ DOMAIN blocks = 1..Len(blocks)
      BY BlocksAreCut, FlowP!BlockPositions, FunctionsAreCode, SameWords
    <3>2. n - 1 \in 0..Len(blocks)
      BY <3>1
    <3> QED
      BY <3>1, <3>2
  <2>5. q = At(n, i + 1)
    BY <2>1, <2>3, <2>4 DEF At
  <2> QED
    BY <2>1, <2>5
<1>3. CASE i = l
  <2>1. \E c \in DOMAIN blocks : q = FlowP!StartOf(c)
    <3>1. q \in DOMAIN code
      BY FlowStaysInside
    <3>2. CASE IsLabel(code[q])
      BY <3>1, <3>2, BlocksAreCut, FlowP!LabelsStartBlocks, FunctionsAreCode, SameWords
    <3>3. CASE ~IsLabel(code[q])
      <4>1. q = FlowP!EndOf[n] + 1
        BY <1>1, <1>3, <3>3 DEF FlowsTo
      <4>2. PICK m \in DOMAIN blocks : \E j \in 1..Len(blocks[m]) : q = At(m, j)
        BY <3>1, PositionsAreInBlocks
      <4>3. PICK j \in 1..Len(blocks[m]) : q = At(m, j)
        BY <4>2
      <4>4. j = 1
        <5> SUFFICES ASSUME j # 1 PROVE FALSE
          OBVIOUS
        <5>1. Len(blocks[m]) \in Nat /\ j - 1 \in 1..Len(blocks[m]) /\ j \in Nat
          BY PositionsAreInBlocks
        <5>2. At(m, j - 1) \in Nat /\ At(n, l) \in Nat
          <6>1. DOMAIN code \subseteq Nat
            BY PositionsAreInBlocks
          <6>2. At(m, j - 1) \in DOMAIN code /\ At(n, l) \in DOMAIN code
            BY <1>1, <1>3, <5>1, PositionsAreInBlocks
          <6> QED
            BY <6>1, <6>2
        <5>3. FlowP!EndOf[m - 1] \in Nat
          <6>1. /\ \A k \in 0..Len(blocks) : FlowP!EndOf[k] \in Nat
                /\ Len(blocks) \in Nat /\ DOMAIN blocks = 1..Len(blocks)
            BY BlocksAreCut, FlowP!BlockPositions, FunctionsAreCode, SameWords
          <6>2. m - 1 \in 0..Len(blocks)
            BY <6>1
          <6> QED
            BY <6>1, <6>2
        <5>4. At(m, j - 1) = At(n, l)
          <6>1. \A e, f \in Nat : e + j = f + 1 => e + (j - 1) = f
            BY <5>1
          <6>2. FlowP!EndOf[m - 1] + j = At(n, l) + 1
            BY <1>1, <4>1, <4>3 DEF At
          <6> QED
            BY <5>2, <5>3, <6>1, <6>2 DEF At
        <5>5. m = n /\ j - 1 = l
          BY <1>1, <5>1, <5>4, PositionsDiffer
        <5> QED
          BY <5>1, <5>5
      <4> QED
        BY <4>3, <4>4, PositionsAreInBlocks
    <3> QED
      BY <3>2, <3>3
  <2>2. PICK c \in DOMAIN blocks : q = FlowP!StartOf(c)
    BY <2>1
  <2>3. FlowP!EdgesAreFlow
    BY BlocksAreCut, FlowP!DoneMeansEdgesAreFlow, FunctionsAreCode, SameWords
  <2>4. FlowP!StartOf(c) \in FlowP!FlowsTo(code, FlowP!EndOf[n])
    BY <1>1, <1>3, <2>2, SameWords
  <2>5. c \in FlowP!Range(to[n])
    BY <2>3, <2>4, BlocksAreCut DEF FlowP!EdgesAreFlow
  <2> QED
    BY <1>3, <2>2, <2>5, PositionsAreInBlocks, SameWords
<1> QED
  BY <1>2, <1>3

\* What is live where execution goes on is live after the instruction.
LEMMA LiveFlowsBack ==
  ASSUME Analysed, NEW n \in DOMAIN blocks, NEW i \in 1..Len(blocks[n]), NEW x,
         FlowsTo(code, At(n, i)) \cap LivePositions(x) # {}
  PROVE  x \in GraphP!LiveAfter(n, i)
<1>1. PICK q \in FlowsTo(code, At(n, i)) : q \in LivePositions(x)
  OBVIOUS
<1>2. PICK m \in DOMAIN blocks : \E j \in 1..Len(blocks[m]) :
        q = At(m, j) /\ x \in GraphP!LiveAfter(m, j - 1)
  BY <1>1 DEF LivePositions
<1>3. PICK j \in 1..Len(blocks[m]) : q = At(m, j) /\ x \in GraphP!LiveAfter(m, j - 1)
  BY <1>2
<1>4. i \in Nat
  OBVIOUS
<1>5. CASE i + 1 \in 1..Len(blocks[n]) /\ q = At(n, i + 1)
  <2>1. m = n /\ j = i + 1
    <3> DEFINE k == i + 1
    <3>1. k \in 1..Len(blocks[n]) /\ At(m, j) = At(n, k)
      BY <1>3, <1>5
    <3> HIDE DEF k
    <3>2. m = n /\ j = k
      BY <3>1, PositionsDiffer
    <3> QED
      BY <3>2 DEF k
  <2>2. j - 1 = i
    BY <1>4, <2>1
  <2>3. x \in GraphP!LiveAfter(m, j - 1)
    BY <1>3
  <2> QED
    BY <2>1, <2>2, <2>3
<1>6. CASE i = Len(blocks[n]) /\ \E c \in Range(to[n]) : c \in DOMAIN blocks /\ q = At(c, 1)
  <2>1. PICK c \in Range(to[n]) : c \in DOMAIN blocks /\ q = At(c, 1)
    BY <1>6
  <2>2. 1 \in 1..Len(blocks[c])
    BY <2>1, PositionsAreInBlocks
  <2>3. m = c /\ j - 1 = 0
    <3>1. At(m, j) = At(c, 1)
      BY <1>3, <2>1
    <3>2. m = c /\ j = 1
      BY <2>1, <2>2, <3>1, PositionsDiffer
    <3> QED
      BY <3>2
  <2>4. GraphP!LiveAfter(c, 0) = analysis.liveIn[c]
    BY <2>1, BlocksAreCut, PositionsAreInBlocks DEF GraphP!IsSolved, GraphP!LiveAfter
  <2>5. analysis.liveIn[c] \subseteq analysis.liveOut[n]
    BY SMTT(30), <2>1, BlocksAreCut, PositionsAreInBlocks, SameWords DEF GraphP!IsSolved
  <2>6. analysis.liveOut[n] = GraphP!LiveAfter(n, Len(blocks[n]))
    BY BlocksAreCut, PositionsAreInBlocks, GraphP!LiveAtEnd, VarFinite, SameWords
  <2> QED
    BY <1>3, <1>6, <2>3, <2>4, <2>5, <2>6
<1> QED
  BY <1>1, <1>5, <1>6, FlowFromPosition

\* What execution reads later is live according to the blocks.
LEMMA ReadersAreLive ==
  ASSUME Analysed, NEW x \in Var
  PROVE  ReadFrom(code, x) \subseteq LivePositions(x)
<1> DEFINE S == LivePositions(x)
<1>1. ASSUME NEW n \in DOMAIN blocks, NEW i \in 1..Len(blocks[n])
      PROVE  GraphP!LiveAfter(n, i - 1) =
               (GraphP!LiveAfter(n, i) \ GetDestination(code[At(n, i)]))
                 \cup GetSources(code[At(n, i)])
  <2>1. n \in GraphP!Nodes /\ i \in 1..Len(analysis.block[n])
        /\ GraphP!IsAnalysis(analysis) /\ code[At(n, i)] = GraphP!Instruction(n, i)
    BY BlocksAreCut, PositionsAreInBlocks
  <2>2. GraphP!LiveAfter(n, i - 1) =
          (GraphP!LiveAfter(n, i) \ GraphP!GetDestination(GraphP!Instruction(n, i)))
            \cup GraphP!GetSources(GraphP!Instruction(n, i))
    BY <2>1, GraphP!LiveOneBack, VarFinite, SameWords
  <2> QED
    BY <2>1, <2>2, SameWords
<1>2. \A p \in DOMAIN code : \E n \in DOMAIN blocks : \E i \in 1..Len(blocks[n]) : p = At(n, i)
  BY PositionsAreInBlocks
<1>3. { p \in DOMAIN code : x \in GetSources(code[p]) } \subseteq S
  BY <1>1, <1>2 DEF LivePositions
<1>4. ASSUME NEW p \in DOMAIN code, x \notin GetDestination(code[p]),
             FlowsTo(code, p) \cap S # {}
      PROVE  p \in S
  <2>1. PICK n \in DOMAIN blocks : \E i \in 1..Len(blocks[n]) : p = At(n, i)
    BY <1>2
  <2>2. PICK i \in 1..Len(blocks[n]) : p = At(n, i)
    BY <2>1
  <2>3. x \in GraphP!LiveAfter(n, i)
    BY <1>4, <2>2, LiveFlowsBack
  <2>4. x \in GraphP!LiveAfter(n, i - 1)
    BY <1>1, <1>4, <2>2, <2>3
  <2> QED
    BY <2>2, <2>4 DEF LivePositions
<1>5. Len(code) \in Nat
  BY PositionsAreInBlocks
<1> HIDE DEF S
<1>6. ReadFrom(code, x) \subseteq S
  BY <1>3, <1>4, <1>5, ReadersAreLeast
<1> QED
  BY <1>6 DEF S


\* The names LiveBefore finds at a position are live there according to the blocks.
LEMMA LiveBeforeIsLive ==
  ASSUME Analysed, NEW q \in DOMAIN code, NEW x \in LiveBefore(code, Var)[q]
  PROVE  x \in Var /\ q \in LivePositions(x)
<1>1. x \in Var /\ q \in ReadFrom(code, x)
  BY DEF LiveBefore
<1> QED
  BY <1>1, ReadersAreLive

\* Execution goes from an instruction to the next one of its block, and from
\* the last one to the beginning of each successor.
LEMMA FlowOfBlocks ==
  ASSUME Analysed, NEW n \in DOMAIN blocks, NEW i \in 1..Len(blocks[n])
  PROVE  FlowsTo(code, At(n, i)) =
           IF i < Len(blocks[n]) THEN {At(n, i + 1)} ELSE { At(c, 1) : c \in Range(to[n]) }
<1> DEFINE l == Len(blocks[n])
<1>1. /\ At(n, i) \in DOMAIN code /\ code[At(n, i)] = blocks[n][i] /\ l \in Nat \ {0}
      /\ At(n, l) = FlowP!EndOf[n]
  BY PositionsAreInBlocks, BlocksAreCut DEF GraphP!Instruction
<1>2. CASE i < l
  <2>1. i \in 1..(l - 1) /\ i + 1 \in 1..l /\ i # l
    BY <1>1, <1>2
  <2>2. ~FlowP!IsTerminator(blocks[n][i])
    BY <2>1, BlocksAreCut DEF FlowP!CutSoFar, FlowP!Pieces, FlowP!IsStraight
  <2>3. FlowsTo(code, At(n, i)) = {At(n, i) + 1} \cap DOMAIN code
    BY <1>1, <2>2, SameWords DEF FlowsTo
  <2>4. FlowP!EndOf[n - 1] \in Nat
    <3>1. /\ \A k \in 0..Len(blocks) : FlowP!EndOf[k] \in Nat
          /\ Len(blocks) \in Nat /\ DOMAIN blocks = 1..Len(blocks)
      BY BlocksAreCut, FlowP!BlockPositions, FunctionsAreCode, SameWords
    <3>2. n - 1 \in 0..Len(blocks)
      BY <3>1
    <3> QED
      BY <3>1, <3>2
  <2>5. At(n, i) + 1 = At(n, i + 1)
    BY <2>1, <2>4 DEF At
  <2>6. At(n, i + 1) \in DOMAIN code
    BY <2>1, PositionsAreInBlocks
  <2> QED
    BY <1>2, <2>3, <2>5, <2>6
<1>3. CASE ~(i < l)
  <2>1. i = l
    BY <1>1, <1>3
  <2>2. ASSUME NEW q \in FlowsTo(code, At(n, i))
        PROVE  q \in { At(c, 1) : c \in Range(to[n]) }
    <3>1. ~(i + 1 \in 1..l)
      BY <1>1, <2>1
    <3> QED
      BY <3>1, FlowFromPosition
  <2>3. ASSUME NEW c \in Range(to[n])
        PROVE  At(c, 1) \in FlowsTo(code, At(n, i))
    <3>1. FlowP!EdgesAreFlow
      BY BlocksAreCut, FlowP!DoneMeansEdgesAreFlow, FunctionsAreCode, SameWords
    <3>2. c \in DOMAIN blocks
      BY BlocksAreCut, PositionsAreInBlocks, SameWords DEF GraphP!IsAnalysis
    <3>3. FlowP!StartOf(c) \in FlowP!FlowsTo(code, FlowP!EndOf[n])
      BY <3>1, <3>2, BlocksAreCut, SameWords DEF FlowP!EdgesAreFlow
    <3> QED
      BY <1>1, <2>1, <3>2, <3>3, PositionsAreInBlocks, SameWords
  <2> QED
    BY <1>3, <2>2, <2>3
<1> QED
  BY <1>2, <1>3

\* Names read later from instruction i of block n on.
ReadLaterAt(n, i) == { x \in Var : At(n, i) \in ReadFrom(code, x) }

\* The control flow graph with these names for its liveness.
FlowAnalysis ==
  [ block   |-> blocks,
    to      |-> to,
    liveIn  |-> [n \in 1..Len(blocks) |-> ReadLaterAt(n, 1)],
    liveOut |-> [n \in 1..Len(blocks) |-> UNION { ReadLaterAt(c, 1) : c \in Range(to[n]) }] ]

\* They are found by walking the blocks backwards.
LEMMA FlowIsWalked ==
  ASSUME Analysed, NEW n \in DOMAIN blocks
  PROVE  /\ GraphP!IsAnalysis(FlowAnalysis)
         /\ GraphP!LiveAfterIn(FlowAnalysis, n, 0) = ReadLaterAt(n, 1)
<1> DEFINE a == FlowAnalysis
           l == Len(blocks[n])
<1>1. /\ a.block = blocks /\ a.to = to
      /\ a.liveIn = [m \in 1..Len(blocks) |-> ReadLaterAt(m, 1)]
      /\ a.liveOut = [m \in 1..Len(blocks) |->
                        UNION { ReadLaterAt(c, 1) : c \in Range(to[m]) }]
  BY DEF FlowAnalysis
<1>2. \A m, i : ReadLaterAt(m, i) \subseteq Var
  BY DEF ReadLaterAt
<1>3. /\ Len(analysis.block) \in Nat \ {0}
      /\ \A m \in 1..Len(blocks) :
           /\ Range(to[m]) \subseteq 1..Len(blocks)
           /\ Len(blocks[m]) \in Nat \ {0}
           /\ \A i \in 1..Len(blocks[m]) : /\ GetSources(blocks[m][i]) \subseteq Var
                                           /\ GetDestination(blocks[m][i]) \subseteq Var
  BY BlocksAreCut, SameWords DEF GraphP!IsAnalysis
<1>4. GraphP!IsAnalysis(a)
  <2>1. a.liveIn \in [1..Len(blocks) -> SUBSET Var]
        /\ a.liveOut \in [1..Len(blocks) -> SUBSET Var]
    BY <1>1, <1>2
  <2> HIDE DEF a
  <2> QED
    BY <1>1, <1>3, <2>1, BlocksAreCut, SameWords DEF GraphP!IsAnalysis
<1> HIDE DEF a
<1>5. n \in 1..Len(a.block) /\ Len(a.block[n]) = l /\ l \in Nat \ {0}
  BY <1>1, PositionsAreInBlocks
<1>6. ASSUME NEW i \in 1..l
      PROVE  /\ GraphP!LiveAfterIn(a, n, i - 1) =
                  (GraphP!LiveAfterIn(a, n, i) \ GetDestination(blocks[n][i]))
                    \cup GetSources(blocks[n][i])
             /\ \A x \in Var :
                  x \in ReadLaterAt(n, i) <=>
                    \/ x \in GetSources(blocks[n][i])
                    \/ /\ x \notin GetDestination(blocks[n][i])
                       /\ FlowsTo(code, At(n, i)) \cap ReadFrom(code, x) # {}
  <2>1. GraphP!LiveAfterIn(a, n, i - 1) =
          (GraphP!LiveAfterIn(a, n, i) \ GraphP!GetDestination(a.block[n][i]))
            \cup GraphP!GetSources(a.block[n][i])
    BY <1>4, <1>5, GraphP!LiveOneBackIn, VarFinite, SameWords
  <2>2. /\ At(n, i) \in DOMAIN code /\ code[At(n, i)] = blocks[n][i]
        /\ Len(code) \in Nat /\ DOMAIN code = 1..Len(code)
    BY PositionsAreInBlocks, BlocksAreCut DEF GraphP!Instruction
  <2>3. \A x : At(n, i) \in ReadFrom(code, x) <=>
                 \/ x \in GetSources(blocks[n][i])
                 \/ /\ x \notin GetDestination(blocks[n][i])
                    /\ FlowsTo(code, At(n, i)) \cap ReadFrom(code, x) # {}
    BY <2>2, ReadersAreClosed
  <2> QED
    BY <1>1, <2>1, <2>3, SameWords DEF ReadLaterAt
<1> DEFINE T == { t \in Nat : GraphP!LiveAfterIn(a, n, (l - t) - 1) = ReadLaterAt(n, l - t) }
<1>7. 0 \in T
  <2>1. l - 0 = l /\ l \in 1..l /\ ~(l < l)
    BY <1>5
  <2>2. GraphP!LiveAfterIn(a, n, l) = UNION { ReadLaterAt(c, 1) : c \in Range(to[n]) }
    <3>1. GraphP!LiveAfterIn(a, n, l) = a.liveOut[n]
      BY <1>4, <1>5, GraphP!LiveAtEndIn, VarFinite, SameWords
    <3> QED
      BY <1>1, <1>5, <3>1
  <2>3. FlowsTo(code, At(n, l)) = { At(c, 1) : c \in Range(to[n]) }
    BY <2>1, FlowOfBlocks
  <2>4. \A x \in Var : x \in GraphP!LiveAfterIn(a, n, l) <=>
                         FlowsTo(code, At(n, l)) \cap ReadFrom(code, x) # {}
    BY <2>2, <2>3 DEF ReadLaterAt
  <2>5. /\ GraphP!LiveAfterIn(a, n, l - 1) =
             (GraphP!LiveAfterIn(a, n, l) \ GetDestination(blocks[n][l]))
               \cup GetSources(blocks[n][l])
        /\ \A x \in Var :
             x \in ReadLaterAt(n, l) <=>
               \/ x \in GetSources(blocks[n][l])
               \/ /\ x \notin GetDestination(blocks[n][l])
                  /\ FlowsTo(code, At(n, l)) \cap ReadFrom(code, x) # {}
    BY <1>6, <2>1
  <2>6. GraphP!LiveAfterIn(a, n, l - 1) \subseteq Var
    BY DEF GraphP!LiveAfterIn
  <2>7. GraphP!LiveAfterIn(a, n, l - 1) = ReadLaterAt(n, l)
    <3>1. ReadLaterAt(n, l) \subseteq Var
      BY <1>2
    <3> QED
      BY <2>4, <2>5, <2>6, <3>1
  <2> QED
    BY <2>1, <2>7
<1>8. ASSUME NEW t \in 0..((l - 1) - 1), t \in T
      PROVE  t + 1 \in T
  <2> DEFINE i == l - (t + 1)
  <2>1. /\ i \in 1..l /\ i < l /\ i + 1 = l - t /\ (l - t) - 1 = i /\ t + 1 \in Nat
    BY <1>5
  <2>2. GraphP!LiveAfterIn(a, n, i) = ReadLaterAt(n, i + 1)
    BY <1>8, <2>1
  <2> HIDE DEF i
  <2>3. FlowsTo(code, At(n, i)) = {At(n, i + 1)}
    BY <2>1, FlowOfBlocks
  <2>4. \A x \in Var : x \in GraphP!LiveAfterIn(a, n, i) <=>
                         FlowsTo(code, At(n, i)) \cap ReadFrom(code, x) # {}
    BY <2>2, <2>3 DEF ReadLaterAt
  <2>5. GraphP!LiveAfterIn(a, n, i - 1) \subseteq Var /\ ReadLaterAt(n, i) \subseteq Var
    BY <1>2 DEF GraphP!LiveAfterIn
  <2>6. GraphP!LiveAfterIn(a, n, i - 1) = ReadLaterAt(n, i)
    BY <1>6, <2>1, <2>4, <2>5
  <2> QED
    BY <2>1, <2>6 DEF i
<1>9. 0..(l - 1) \subseteq T
  <2>1. l - 1 \in Nat
    BY <1>5
  <2> HIDE DEF T, l
  <2> QED
    BY <1>7, <1>8, <2>1, IntervalInduction
<1>10. l - 1 \in 0..(l - 1) /\ l - (l - 1) = 1 /\ 1 - 1 = 0
  BY <1>5
<1> QED
  BY <1>4, <1>9, <1>10 DEF a

\* So they solve the equations of the second pass.
LEMMA FlowSolves ==
  ASSUME Analysed
  PROVE  FlowAnalysis.liveIn \in LiveP!Solutions
<1> DEFINE L == FlowAnalysis.liveIn
<1>1. LiveP!IInv /\ cfg = [block |-> blocks, to |-> to]
  BY DEF Analysed, IInv, LivePart
<1>2. /\ cfg.block = blocks /\ cfg.to = to
      /\ LiveP!Nodes = 1..Len(blocks) /\ LiveP!IsCFG(cfg)
  BY <1>1 DEF LiveP!Nodes, LiveP!IInv, LiveP!TypeOK
<1>3. FlowAnalysis.block = blocks
      /\ L = [n \in 1..Len(blocks) |-> ReadLaterAt(n, 1)]
      /\ FlowAnalysis.liveOut = [n \in 1..Len(blocks) |->
                                   UNION { ReadLaterAt(c, 1) : c \in Range(to[n]) }]
  BY DEF FlowAnalysis
<1>4. \A m, i : ReadLaterAt(m, i) \subseteq Var
  BY DEF ReadLaterAt
<1>5. L \in [LiveP!Nodes -> SUBSET Var]
  BY <1>2, <1>3, <1>4
<1>6. ASSUME NEW n \in LiveP!Nodes
      PROVE  L[n] = LiveP!Reads(n) \cup (LiveP!Needed(L, n) \ LiveP!Writes(n))
  <2>1. Range(to[n]) \subseteq 1..Len(blocks)
    BY <1>2, SameWords DEF LiveP!IsCFG
  <2>2. LiveP!Needed(L, n) = FlowAnalysis.liveOut[n]
    <3>1. \A c \in Range(to[n]) : L[c] = ReadLaterAt(c, 1)
      BY <1>3, <2>1
    <3>2. LiveP!Needed(L, n) = UNION { L[c] : c \in Range(to[n]) }
      BY <1>2, SameWords DEF LiveP!Needed
    <3>3. FlowAnalysis.liveOut[n] = UNION { ReadLaterAt(c, 1) : c \in Range(to[n]) }
      BY <1>2, <1>3
    <3> HIDE DEF L
    <3> QED
      BY <3>1, <3>2, <3>3
  <2>3. FlowAnalysis.liveOut[n] \subseteq Var
    BY <1>2, <1>3, <1>4
  <2>4. GraphP!LiveAfterIn(FlowAnalysis, n, 0)
          = LiveP!Reads(n) \cup (FlowAnalysis.liveOut[n] \ LiveP!Writes(n))
    BY <1>2, <1>3, <2>3, WalkSolvesEquation
  <2>5. n \in DOMAIN blocks
    BY <1>2, PositionsAreInBlocks
  <2>6. GraphP!LiveAfterIn(FlowAnalysis, n, 0) = L[n]
    BY <1>2, <1>3, <2>5, FlowIsWalked
  <2> QED
    BY <2>2, <2>4, <2>6
<1> HIDE DEF L
<1>7. L \in LiveP!Solutions
  BY <1>5, <1>6, LiveP!SolutionMeans
<1> QED
  BY <1>7 DEF L

\* The liveness of the blocks, being the least solution, is that of the list.
LEMMA BlocksAgreeWithFlow ==
  ASSUME Analysed, NEW n \in DOMAIN blocks
  PROVE  liveIn[n] = ReadLaterAt(n, 1)
<1>1. LiveP!IInv /\ cfg = [block |-> blocks, to |-> to]
  BY DEF Analysed, IInv, LivePart
<1>2. n \in LiveP!Nodes /\ n \in 1..Len(blocks)
  BY <1>1, PositionsAreInBlocks DEF LiveP!Nodes
<1>3. liveIn[n] \subseteq ReadLaterAt(n, 1)
  <2>1. liveIn[n] \subseteq FlowAnalysis.liveIn[n]
    BY <1>1, <1>2, FlowSolves DEF LiveP!IInv, LiveP!BelowSolutions
  <2> QED
    BY <1>2, <2>1 DEF FlowAnalysis
<1>4. ASSUME NEW x \in ReadLaterAt(n, 1)
      PROVE  x \in liveIn[n]
  <2>1. x \in Var /\ At(n, 1) \in LivePositions(x)
    BY ReadersAreLive DEF ReadLaterAt
  <2>2. PICK m \in DOMAIN blocks : \E i \in 1..Len(blocks[m]) :
          At(n, 1) = At(m, i) /\ x \in GraphP!LiveAfter(m, i - 1)
    BY <2>1 DEF LivePositions
  <2>3. PICK i \in 1..Len(blocks[m]) : At(n, 1) = At(m, i) /\ x \in GraphP!LiveAfter(m, i - 1)
    BY <2>2
  <2>4. 1 \in 1..Len(blocks[n])
    BY PositionsAreInBlocks
  <2>5. m = n /\ i = 1
    BY <2>3, <2>4, PositionsDiffer
  <2>6. x \in GraphP!LiveAfter(n, 0)
    BY <2>3, <2>5
  <2>7. GraphP!LiveAfter(n, 0) = analysis.liveIn[n]
    BY BlocksAreCut, PositionsAreInBlocks DEF GraphP!IsSolved, GraphP!LiveAfter
  <2>8. analysis.liveIn = liveIn
    BY BlocksAreCut DEF LivenessData
  <2> QED
    BY <2>6, <2>7, <2>8
<1> QED
  BY <1>3, <1>4

-----------------------------------------------------------------------------
(***************************************************************************)
(* What follows from the invariant.                                        *)
(***************************************************************************)

\* Names that interfere are kept in different registers.
LEMMA InterferingNamesApart ==
  ASSUME IInv, Allocated, NEW x \in Var, NEW y \in Var, GraphP!Interferes(x, y),
         {x, y} \subseteq DOMAIN registers
  PROVE  registers[x] # registers[y]
<1>1. Analysed /\ AllocP!IInv /\ built
  BY DEF Analysed, Allocated, IInv, AllocPart
<1>2. GraphP!IInv
  BY <1>1, BlocksAreCut
<1>3. GraphP!Joined(x, y)
  BY <1>1, <1>2, GraphP!BuiltHasAllEdges, VarFinite, SameWords
<1>4. AllocP!NoSharedRegister
  BY <1>1 DEF AllocP!IInv
<1> QED
  BY <1>3, <1>4 DEF GraphP!Joined, AllocP!NoSharedRegister

\* A name that is live after a write of another interferes with it.
LEMMA WrittenInterferes ==
  ASSUME Analysed, NEW p \in DOMAIN code, NEW d \in GetDestination(code[p]),
         NEW q \in FlowsTo(code, p), NEW y \in LiveBefore(code, Var)[q], y # d
  PROVE  d \in Var /\ y \in Var /\ GraphP!Interferes(d, y)
<1>1. PICK n \in DOMAIN blocks : \E i \in 1..Len(blocks[n]) : p = At(n, i)
  BY PositionsAreInBlocks
<1>2. PICK i \in 1..Len(blocks[n]) : p = At(n, i)
  BY <1>1
<1>3. q \in DOMAIN code
  BY FlowStaysInside
<1>4. y \in Var /\ q \in LivePositions(y)
  BY <1>3, LiveBeforeIsLive
<1>5. y \in GraphP!LiveAfter(n, i)
  BY <1>2, <1>4, LiveFlowsBack
<1>6. d \in Var
  BY BlocksAreCut DEF NamesOf, Range
<1>7. /\ n \in GraphP!Nodes /\ i \in 1..Len(analysis.block[n])
      /\ d \in GraphP!GetDestination(GraphP!Instruction(n, i))
  BY <1>2, BlocksAreCut, PositionsAreInBlocks, SameWords
<1>8. GraphP!Clash(d, y)
  BY <1>5, <1>7 DEF GraphP!Clash
<1> QED
  BY <1>4, <1>6, <1>8 DEF GraphP!Interferes

\* Two names that are live on entry interfere.
LEMMA EntryInterferes ==
  ASSUME Analysed, code # <<>>, NEW x \in LiveBefore(code, Var)[1],
         NEW y \in LiveBefore(code, Var)[1], x # y
  PROVE  x \in Var /\ y \in Var /\ GraphP!Interferes(x, y)
<1>1. DOMAIN blocks = 1..Len(blocks) /\ Len(blocks) \in Nat /\ Len(blocks) # 0
  <2>1. blocks \in Seq(FlowP!Nonempty(FlowP!Instructions)) /\ blocks # <<>>
    BY BlocksAreCut DEF FlowP!CutSoFar, FlowP!Pieces
  <2> QED
    BY <2>1, LenProperties, EmptySeq
<1>2. 1 \in DOMAIN blocks /\ 1 \in 1..Len(blocks[1])
  BY <1>1, PositionsAreInBlocks
<1>3. At(1, 1) = 1
  <2>1. FlowP!EndOf[0] = 0
    BY BlocksAreCut, FlowP!BlockPositions, FunctionsAreCode, SameWords
  <2> QED
    BY <2>1 DEF At
<1>4. 1 \in DOMAIN code
  BY <1>2, <1>3, PositionsAreInBlocks
<1>5. ASSUME NEW z \in LiveBefore(code, Var)[1]
      PROVE  z \in Var /\ z \in analysis.liveIn[1]
  <2>1. z \in Var /\ 1 \in LivePositions(z)
    BY <1>4, LiveBeforeIsLive
  <2>2. PICK n \in DOMAIN blocks : \E i \in 1..Len(blocks[n]) :
          1 = At(n, i) /\ z \in GraphP!LiveAfter(n, i - 1)
    BY <2>1 DEF LivePositions
  <2>3. PICK i \in 1..Len(blocks[n]) : 1 = At(n, i) /\ z \in GraphP!LiveAfter(n, i - 1)
    BY <2>2
  <2>4. n = 1 /\ i = 1
    BY <1>2, <1>3, <2>3, PositionsDiffer
  <2>5. z \in GraphP!LiveAfter(1, 0)
    BY <2>3, <2>4
  <2>6. GraphP!LiveAfter(1, 0) = analysis.liveIn[1]
    BY <1>2, BlocksAreCut, PositionsAreInBlocks DEF GraphP!IsSolved, GraphP!LiveAfter
  <2> QED
    BY <2>1, <2>5, <2>6
<1> QED
  BY <1>5 DEF GraphP!Interferes

\* From the instruction list to the registers, the pipeline is safe: no write
\* destroys a name that some execution reads later, and no two values that are
\* needed on entry share a register.
THEOREM WritesAreSafe == Spec => []WritesSpareLiveNames
<1>1. IInv => WritesSpareLiveNames
  <2> SUFFICES ASSUME IInv, Allocated
               PROVE  WritesSpareLiveNames
    BY DEF WritesSpareLiveNames
  <2> DEFINE live == LiveBefore(code, Var)
  <2>0. Analysed
    BY DEF Analysed, Allocated
  <2>1. ASSUME NEW p \in ReachableIn(code), NEW d \in GetDestination(code[p])
        PROVE  Overwritten(registers, d, UNION { live[q] : q \in FlowsTo(code, p) }) = {}
    <3> SUFFICES ASSUME NEW q \in FlowsTo(code, p), NEW y \in live[q], y # d,
                        {d, y} \subseteq DOMAIN registers, registers[d] = registers[y]
                 PROVE  FALSE
      BY DEF Overwritten
    <3>1. p \in DOMAIN code
      BY <2>0, PositionsAreInBlocks, ReachableInside
    <3>2. d \in Var /\ y \in Var /\ GraphP!Interferes(d, y)
      BY <2>0, <3>1, WrittenInterferes
    <3> QED
      BY <3>2, InterferingNamesApart
  <2>2. ASSUME code # <<>>, NEW x \in live[1]
        PROVE  Overwritten(registers, x, live[1]) = {}
    <3> SUFFICES ASSUME NEW y \in live[1], y # x,
                        {x, y} \subseteq DOMAIN registers, registers[x] = registers[y]
                 PROVE  FALSE
      BY DEF Overwritten
    <3>1. x \in Var /\ y \in Var /\ GraphP!Interferes(x, y)
      BY <2>0, <2>2, EntryInterferes
    <3> QED
      BY <3>1, InterferingNamesApart
  <2> QED
    BY <2>1, <2>2 DEF WritesSpareLiveNames, SparesLiveNames
<1> QED
  BY <1>1, Invariance, PTL

\* What LivenessAnalysis finds block by block, on the graph of buildCFG, is
\* liveness in the instruction list: a name is in liveIn of a block exactly
\* where an execution from its first instruction on may read it.
THEOREM LivenessIsOfTheList == Spec => []BlocksKeepLiveness
<1>1. IInv => BlocksKeepLiveness
  <2> SUFFICES ASSUME IInv, phase = "interference", NEW n \in DOMAIN blocks
               PROVE  liveIn[n] = LiveBefore(code, Var)[Flow!StartOf(n)]
    BY DEF BlocksKeepLiveness
  <2>1. Analysed
    BY DEF Analysed
  <2>2. Flow!StartOf(n) = FlowP!StartOf(n)
    BY DEF Flow!StartOf, FlowP!StartOf, Flow!EndOf, FlowP!EndOf, Flow!Ends, FlowP!Ends
  <2>3. At(n, 1) = FlowP!StartOf(n) /\ At(n, 1) \in DOMAIN code
    <3>1. 1 \in 1..Len(blocks[n])
      BY <2>1, PositionsAreInBlocks
    <3> QED
      BY <2>1, <3>1, PositionsAreInBlocks
  <2>4. LiveBefore(code, Var)[At(n, 1)] = ReadLaterAt(n, 1)
    BY <2>3 DEF LiveBefore, ReadLaterAt
  <2> QED
    BY <2>1, <2>2, <2>3, <2>4, BlocksAgreeWithFlow
<1> QED
  BY <1>1, Invariance, PTL

=============================================================================
