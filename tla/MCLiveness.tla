------------------------------ MODULE MCLiveness ------------------------------
(***************************************************************************)
(* Control flow graphs of three blocks as the passes before this one leave *)
(* them: every block but the first starts with a label, only those are     *)
(* jumped to, and a block ends with a jump, a branch on x, a return of y   *)
(* or by running into the next label. Bodies write x, read and write it,   *)
(* or read it before writing it. Blocks 2 and 3 may loop on themselves,    *)
(* on each other, or not be reached at all.                                *)
(***************************************************************************)
EXTENDS Liveness

MCVar == {"x", "y"}

Shift == <<Move("y", Name("x")), Const("x", IntOperand(0))>>
Increment == <<BinOp("x", "Add", Name("x"), IntOperand(1))>>

LabelOf == <<"L1", "L2", "L3">>
JumpTo(m) == [last |-> <<Jump(LabelOf[m])>>, to |-> <<m>>]
BranchTo(m) == [last |-> <<Branch(Name("x"), LabelOf[m], LabelOf[5 - m])>>,
                to |-> <<m, 5 - m>>]
ReturnY == [last |-> <<Return(Name("y"))>>, to |-> <<>>]
FallInto(m) == [last |-> <<>>, to |-> <<m>>]

Blocks(bodies, ends) == { [is |-> b \o e.last, to |-> e.to] : b \in bodies, e \in ends }
Labelled(n) == { <<Label(LabelOf[n])>> \o b : b \in {<<>>, Increment, Shift} }

MCCFGs ==
  { [block |-> <<b1.is, b2.is, b3.is>>, to |-> <<b1.to, b2.to, b3.to>>] :
      b1 \in Blocks({ Shift, <<Const("x", IntOperand(0))>> },
                    { FallInto(2), BranchTo(2), BranchTo(3) }),
      b2 \in Blocks(Labelled(2), { FallInto(3), JumpTo(2), JumpTo(3), BranchTo(2), BranchTo(3), ReturnY }),
      b3 \in Blocks(Labelled(3), { JumpTo(2), JumpTo(3), BranchTo(2), BranchTo(3), ReturnY }) }

=============================================================================
