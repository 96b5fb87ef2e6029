----------------------------- MODULE ControlFlow -----------------------------
(***************************************************************************)
(* From the instructions of one function to its control flow graph:        *)
(* BasicBlockBuilder::buildBlocks (src/src/basic_block.cpp) cuts the list  *)
(* into blocks, then CFGBuilder::buildCFG (src/src/cfg.cpp) links them.    *)
(* One action per iteration of either loop.                                *)
(***************************************************************************)
EXTENDS InstructionFlow, FiniteSets

CONSTANT Functions   (* Instruction lists of functions, as the optimizer leaves them. *)

\* What Optimizer.tla leaves of the instructions of a function.
ASSUME FunctionsAreCode == \A c \in Functions : c \in Seq(Range(c)) /\ IsFunctionCode(c)

VARIABLES
  code,      (* IRFunction::instructions, read only                       *)
  next,      (* index of the instruction buildBlocks looks at             *)
  block,     (* the block being filled                                    *)
  blocks,    (* basicBlocks[name]                                         *)
  to, from,  (* CFGNode::to and CFGNode::from of each block, as sequences *)
  linked     (* number of nodes whose edges have been made                *)

vars == <<code, next, block, blocks, to, from, linked>>

\* Blocks are being cut until the whole list has been read and flushed.
Cutting == next <= Len(code) \/ block # <<>>

InitFor(c) ==
  /\ code = c /\ next = 1
  /\ block = <<>> /\ blocks = <<>>
  /\ to = <<>> /\ from = <<>> /\ linked = 0

Init == \E c \in Functions : InitFor(c)

-----------------------------------------------------------------------------
(***************************************************************************)
(* buildBlocks.                                                            *)
(***************************************************************************)

\* Variant: a label does not start a block.
LabelsDoNotSplit(i) == FALSE

\* A label closes the block before it, if there is one.
SplitsBefore(i) == IsLabel(i) /\ block # <<>>

\* Variant: the block is not emptied after a terminator.
BlockKept(b) == b

Closed(b) == <<>>

TakeInstruction ==
  /\ next <= Len(code)
  /\ LET i == code[next]
         split == SplitsBefore(i)
         grown == Append(IF split THEN <<>> ELSE block, i)
         cut == IF split THEN Append(blocks, block) ELSE blocks
     IN  /\ block' = IF IsTerminator(i) THEN Closed(grown) ELSE grown
         /\ blocks' = IF IsTerminator(i) THEN Append(cut, grown) ELSE cut
  /\ next' = next + 1
  /\ UNCHANGED <<code, to, from, linked>>

\* The list has ended in the middle of a block.
FlushBlock ==
  /\ next > Len(code)
  /\ block # <<>>
  /\ blocks' = Append(blocks, block)
  /\ block' = <<>>
  /\ UNCHANGED <<code, next, to, from, linked>>

-----------------------------------------------------------------------------
(***************************************************************************)
(* buildCFG.                                                               *)
(***************************************************************************)
First(n) == blocks[n][1]
Last(n) == blocks[n][Len(blocks[n])]

\* getNodeByLabel: the first block that starts with the label, 0 for nullptr.
NodeByLabel(l) ==
  LET found == { n \in DOMAIN blocks : IsLabel(First(n)) /\ First(n).label = l }
  IN  IF found = {} THEN 0 ELSE CHOOSE n \in found : \A m \in found : n <= m

\* One node per block, without edges.
CreateNodes ==
  /\ ~Cutting
  /\ blocks # <<>>
  /\ to = <<>>
  /\ to' = [n \in DOMAIN blocks |-> <<>>]
  /\ from' = [n \in DOMAIN blocks |-> <<>>]
  /\ UNCHANGED <<code, next, block, blocks, linked>>

\* Variant: only the true label of a branch is compared.
TrueLabelOnly(m, l) ==
  \/ Last(m).op = "branch" /\ Last(m).trueLabel = l
  \/ Last(m).op = "jump" /\ Last(m).destination = l

LeadsToLabel(m, l) == l \in LabelsOf(Last(m))

\* The nodes among the first m that jump or branch to label l, in vector order.
LeadingTo(l) ==
  LET leading[m \in Nat] ==
        IF m = 0 THEN <<>>
        ELSE IF LeadsToLabel(m, l) THEN Append(leading[m - 1], m) ELSE leading[m - 1]
  IN  leading

\* What the inner loop pushes on the from vector of node n.
JumpingTo(n) == IF IsLabel(First(n)) THEN LeadingTo(First(n).label)[Len(blocks)] ELSE <<>>

\* Variant: a block that ends in a return runs into the next one.
FallsThroughReturn(n) == Last(n).op \notin {"jump", "branch"} /\ n < Len(blocks)

FallsThrough(n) == ~IsTerminator(Last(n)) /\ n < Len(blocks)

Successors(n) ==
  CASE Last(n).op = "branch" -> <<NodeByLabel(Last(n).trueLabel),
                                  NodeByLabel(Last(n).falseLabel)>>
    [] Last(n).op = "jump"   -> <<NodeByLabel(Last(n).destination)>>
    [] FallsThrough(n)       -> <<n + 1>>
    [] OTHER                 -> <<>>

LinkNode ==
  /\ to # <<>>
  /\ linked < Len(blocks)
  /\ LET n == linked + 1
         arrived == [from EXCEPT ![n] = @ \o JumpingTo(n)]
     IN  /\ to' = [to EXCEPT ![n] = Successors(n)]
         /\ from' = IF FallsThrough(n)
                      THEN [arrived EXCEPT ![n + 1] = Append(@, n)]
                      ELSE arrived
         /\ linked' = n
  /\ UNCHANGED <<code, next, block, blocks>>

Next == TakeInstruction \/ FlushBlock \/ CreateNodes \/ LinkNode

\* Both builders are sequential calls: only their own loops hold them up.
Spec == Init /\ [][Next]_vars /\ WF_vars(Next)

Done == ~Cutting /\ linked = Len(blocks)

-----------------------------------------------------------------------------
(***************************************************************************)
(* Where the blocks lie in the instruction list.                           *)
(***************************************************************************)

\* How many instructions the first n blocks of bs hold.
Ends(bs) ==
  LET ends[n \in Nat] == IF n = 0 THEN 0 ELSE ends[n - 1] + Len(bs[n]) IN ends

\* Position in the list of the last instruction of block n, 0 before the first.
EndOf == Ends(blocks)
StartOf(n) == EndOf[n - 1] + 1

-----------------------------------------------------------------------------
(***************************************************************************)
(* Properties.                                                             *)
(***************************************************************************)

\* Node numbers in the edges are nodes: getNodeByLabel never gives nullptr.
TypeOK ==
  /\ IsFunctionCode(code)
  /\ next \in 1..(Len(code) + 1)
  /\ linked \in 0..Len(blocks)
  /\ to # <<>> => DOMAIN to = DOMAIN blocks /\ DOMAIN from = DOMAIN blocks
  /\ \A n \in DOMAIN to : Range(to[n]) \cup Range(from[n]) \subseteq DOMAIN blocks

\* At every moment, the blocks cut so far and the block being filled are the
\* instructions read so far: none is lost, repeated or reordered.
BlocksSpellTheCode ==
  LET read == EndOf[Len(blocks)] IN
    /\ read + Len(block) = next - 1
    /\ \A n \in DOMAIN blocks : \A k \in DOMAIN blocks[n] :
         blocks[n][k] = code[StartOf(n) + k - 1]
    /\ \A k \in DOMAIN block : block[k] = code[read + k]

\* Control enters a block at its first instruction and leaves it at its last:
\* liveness and interference walk a block as if it ran from end to end.
SingleEntrySingleExit ==
  \A b \in Range(blocks) \cup ({block} \ {<<>>}) :
    /\ \A k \in 2..Len(b) : ~IsLabel(b[k])
    /\ \A k \in 1..(Len(b) - 1) : ~IsTerminator(b[k])

\* The edges of the finished graph are the jumps execution can take: b leads
\* to c exactly when the first instruction of c may follow the last of b. Both
\* ends of each edge know it, although from and to are filled by different
\* tests on the terminators.
EdgesAreFlow ==
  Done /\ blocks # <<>> =>
    \A b, c \in DOMAIN blocks :
      /\ c \in Range(to[b]) <=> StartOf(c) \in FlowsTo(code, EndOf[b])
      /\ b \in Range(from[c]) <=> StartOf(c) \in FlowsTo(code, EndOf[b])

=============================================================================
