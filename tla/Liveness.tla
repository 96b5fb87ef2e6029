------------------------------- MODULE Liveness -------------------------------
(***************************************************************************)
(* LivenessAnalysis::processProgram (src/src/liveness.cpp) on the control  *)
(* flow graph of one function.                                             *)
(*                                                                         *)
(* One forward scan of each block collects what it reads before writing    *)
(* (use) and what it writes (def). Then passes over all nodes, in vector   *)
(* order and updating the sets in place, grow liveOut and liveIn until a   *)
(* round of both leaves every set alone. Each step of a loop is an action, *)
(* so that the sets are seen half updated, as the next iteration sees them.*)
(***************************************************************************)
EXTENDS IR, FiniteSets

CONSTANTS
  Var,    (* Names of variables and temporaries of one function.          *)
  CFGs    (* Control flow graphs: records of block, a sequence of blocks, *)
          (* and to, the successors of each block as a sequence.          *)

IsCFG(g) ==
  /\ Len(g.block) \in Nat \ {0}
  /\ \A n \in 1..Len(g.block) :
       /\ Len(g.block[n]) \in Nat \ {0}
       /\ \A i \in 1..Len(g.block[n]) :
            /\ GetSources(g.block[n][i]) \subseteq Var
            /\ GetDestination(g.block[n][i]) \subseteq Var
       /\ Range(g.to[n]) \subseteq 1..Len(g.block)

ASSUME CFGsAreGraphs == \A g \in CFGs : IsCFG(g)

VARIABLES
  cfg,            (* the graph analysed, read only                        *)
  use, def,       (* NodeData of each node: read before written, written  *)
  liveIn,         (* names live on entry to each node                     *)
  liveOut,        (* names live on exit from each node                    *)
  pc,             (* the loop running: scan, liveOut, liveIn, or done     *)
  node, instr,    (* its position                                         *)
  definedSoFar,   (* names the scan has seen written in this block        *)
  changed         (* some set has grown in this round                     *)

vars == <<cfg, use, def, liveIn, liveOut, pc, node, instr, definedSoFar, changed>>

Nodes == 1..Len(cfg.block)
NoNames == [n \in Nodes |-> {}]
Instruction == cfg.block[node][instr]

\* The analysis of one graph begins.
InitFor(g) ==
  /\ cfg = g
  /\ use = NoNames /\ def = NoNames /\ liveIn = NoNames /\ liveOut = NoNames
  /\ pc = "scan" /\ node = 1 /\ instr = 1
  /\ definedSoFar = {}
  /\ changed = FALSE

Init == \E g \in CFGs : InitFor(g)

-----------------------------------------------------------------------------
(***************************************************************************)
(* computeUseAndDef.                                                       *)
(***************************************************************************)

\* Variant: names the block has already written count as used as well.
ExposedAnyway(i) == GetSources(i)

\* Sources of an instruction that this block has not written before it.
Exposed(i) == GetSources(i) \ definedSoFar

Scan ==
  /\ pc = "scan"
  /\ instr <= Len(cfg.block[node])
  /\ use' = [use EXCEPT ![node] = @ \cup Exposed(Instruction)]
  /\ def' = [def EXCEPT ![node] = @ \cup GetDestination(Instruction)]
  /\ definedSoFar' = definedSoFar \cup GetDestination(Instruction)
  /\ instr' = instr + 1
  /\ UNCHANGED <<cfg, liveIn, liveOut, pc, node, changed>>

LastNode == node = Len(cfg.block)

\* The loop over the nodes goes on, or the loop called next begins.
NextNode(next) ==
  /\ node' = IF LastNode THEN 1 ELSE node + 1
  /\ pc' = IF LastNode THEN next ELSE pc

EndBlock ==
  /\ pc = "scan"
  /\ instr > Len(cfg.block[node])
  /\ NextNode("liveOut")
  /\ instr' = 1
  /\ definedSoFar' = {}
  /\ UNCHANGED <<cfg, use, def, liveIn, liveOut, changed>>

-----------------------------------------------------------------------------
(***************************************************************************)
(* The two passes of a round: computeLiveOut, then computeLiveIn.          *)
(***************************************************************************)

\* Variant: only the first successor, the true label of a branch, is asked.
FirstSuccessorLiveIn(n) == IF cfg.to[n] = <<>> THEN {} ELSE liveIn[cfg.to[n][1]]

\* What the successors need.
SuccessorsLiveIn(n) == UNION { liveIn[m] : m \in Range(cfg.to[n]) }

\* Variant: growth does not count.
KeepFlag(grown) == changed

\* Variant: the flag is never lowered.
RaiseFlag(grown) == TRUE

\* changed |= ...
Flag(grown) == changed \/ grown

ComputeLiveOut ==
  /\ pc = "liveOut"
  /\ liveOut' = [liveOut EXCEPT ![node] = @ \cup SuccessorsLiveIn(node)]
  /\ changed' = Flag(liveOut' # liveOut)
  /\ NextNode("liveIn")
  /\ UNCHANGED <<cfg, use, def, liveIn, instr, definedSoFar>>

\* Variant: names the block writes are not taken out.
UsedOrPassed(n) == use[n] \cup liveOut[n]

\* What the block itself reads, and what it passes through.
UsedOrPassedThrough(n) == use[n] \cup (liveOut[n] \ def[n])

ComputeLiveIn ==
  /\ pc = "liveIn"
  /\ liveIn' = [liveIn EXCEPT ![node] = @ \cup UsedOrPassedThrough(node)]
  /\ LET flag == Flag(liveIn' # liveIn) IN
       /\ changed' = (flag /\ ~LastNode)
       /\ NextNode(IF flag THEN "liveOut" ELSE "done")
  /\ UNCHANGED <<cfg, use, def, liveOut, instr, definedSoFar>>

Next == Scan \/ EndBlock \/ ComputeLiveOut \/ ComputeLiveIn

\* processProgram is a sequential call: only its own loops hold it up.
Spec == Init /\ [][Next]_vars /\ WF_vars(Next)

Done == pc = "done"

-----------------------------------------------------------------------------
(***************************************************************************)
(* What the analysis should compute, from the graph alone.                 *)
(***************************************************************************)

\* Names the first k instructions of block n write.
WrittenBefore(n, k) == UNION { GetDestination(cfg.block[n][j]) : j \in 1..(k - 1) }

\* Names some instruction of the first k reads with no write before it.
ReadBeforeWritten(n, k) ==
  UNION { GetSources(cfg.block[n][i]) \ WrittenBefore(n, i) : i \in 1..(k - 1) }

Reads(n) == ReadBeforeWritten(n, Len(cfg.block[n]) + 1)
Writes(n) == WrittenBefore(n, Len(cfg.block[n]) + 1)

\* What the successors of node n need, where L says what is live.
Needed(L, n) == UNION { L[m] : m \in Range(cfg.to[n]) }

\* Assignments of names to nodes that satisfy the liveness equation.
Solutions ==
  LET reads == [n \in Nodes |-> Reads(n)]
      writes == [n \in Nodes |-> Writes(n)]
  IN  { L \in [Nodes -> SUBSET Var] :
          \A n \in Nodes :
            L[n] = reads[n] \cup (Needed(L, n) \ writes[n]) }

\* Paths of the graph without a repeated node.
Paths ==
  { p \in UNION { [1..k -> Nodes] : k \in Nodes } :
      /\ \A i, j \in DOMAIN p : p[i] = p[j] => i = j
      /\ \A i \in DOMAIN p \ {1} : p[i] \in Range(cfg.to[p[i - 1]]) }

\* Some path from the entry of n reads x with no write of x on the way.
ReadLater(x, n) ==
  \E p \in Paths :
    /\ p[1] = n
    /\ x \in Reads(p[Len(p)])
    /\ \A i \in 1..(Len(p) - 1) : x \notin Writes(p[i])

-----------------------------------------------------------------------------
(***************************************************************************)
(* Properties.                                                             *)
(***************************************************************************)

\* Every set holds names of the function and the loop indices stay in range.
TypeOK ==
  /\ IsCFG(cfg)
  /\ use \in [Nodes -> SUBSET Var] /\ def \in [Nodes -> SUBSET Var]
  /\ liveIn \in [Nodes -> SUBSET Var] /\ liveOut \in [Nodes -> SUBSET Var]
  /\ pc \in {"scan", "liveOut", "liveIn", "done"}
  /\ node \in Nodes
  /\ instr \in 1..(Len(cfg.block[node]) + 1)
  /\ definedSoFar \in SUBSET Var
  /\ changed \in BOOLEAN

\* After the scan, use holds the names a block reads before it writes them
\* and def the names it writes: an instruction that reads and writes one
\* name (x = x + 1) counts as a read of the old value.
UseIsReadBeforeWritten ==
  pc # "scan" => \A n \in Nodes : use[n] = Reads(n) /\ def[n] = Writes(n)

\* In the middle of any round, no name is called live that some solution of
\* the equations does not: the passes only approach the least solution.
BelowEverySolution ==
  liveIn # NoNames =>
    \A L \in Solutions : \A n \in Nodes : liveIn[n] \subseteq L[n]

\* When the loop stops, liveIn solves the equations and liveOut is what the
\* successors need: no round was missed because a flag was lost.
SolvedWhenDone ==
  Done => /\ liveIn \in Solutions
          /\ \A n \in Nodes : liveOut[n] = SuccessorsLiveIn(n)

\* The result is liveness itself: x is live where some path reads it before
\* writing it, and nowhere else.
LiveMeansReadLater ==
  Done => \A n \in Nodes : liveIn[n] = { x \in Var : ReadLater(x, n) }

\* The do-while loop ends.
Termination == <>Done

=============================================================================
