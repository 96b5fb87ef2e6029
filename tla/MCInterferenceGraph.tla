-------------------------- MODULE MCInterferenceGraph --------------------------
(***************************************************************************)
(* Control flow graphs of two or three blocks over three names, with the   *)
(* liveness that Liveness.tla shows the analysis computes for them. The    *)
(* bodies swap, overwrite, copy and kill names; the parameters of the      *)
(* function are the names read before they are written.                    *)
(***************************************************************************)
EXTENDS InterferenceGraph

MCVar == {"x", "y", "z"}

\* The least solution of the liveness equations, which the analysis computes:
\* three nodes need three rounds.
Analysis(g) ==
  LET reads == [n \in 1..3 |->
        { v \in MCVar : \E i \in DOMAIN g.block[n] :
            /\ v \in GetSources(g.block[n][i])
            /\ \A j \in 1..(i - 1) : v \notin GetDestination(g.block[n][j]) }]
      writes == [n \in 1..3 |-> UNION { GetDestination(i) : i \in Range(g.block[n]) }]
      out(live) == [n \in 1..3 |-> UNION { live[m] : m \in Range(g.to[n]) }]
      in(live) == [n \in 1..3 |-> reads[n] \cup (out(live)[n] \ writes[n])]
      live1 == in([n \in 1..3 |-> {}])
      live2 == in(live1)
      live3 == in(live2)
  IN  [block |-> g.block, to |-> g.to, liveIn |-> live3, liveOut |-> out(live3)]

Add(d, a, b) == BinOp(d, "Add", Name(a), Name(b))

Bodies ==
  { <<Const("x", IntOperand(0))>>,
    <<Move("z", Name("x")), Move("x", Name("y")), Move("y", Name("z"))>>,
    <<Add("z", "x", "y")>>,
    <<Call("x", "f", <<Name("y"), Name("z")>>)>>,
    <<UnaryOp("y", "Not", Name("y")), Const("z", IntOperand(1))>> }

LabelOf == <<"L1", "L2", "L3">>
JumpTo(m) == [last |-> <<Jump(LabelOf[m])>>, to |-> <<m>>]
BranchTo(m) == [last |-> <<Branch(Name("x"), LabelOf[m], LabelOf[5 - m])>>,
                to |-> <<m, 5 - m>>]
ReturnOf(v) == [last |-> <<Return(Name(v))>>, to |-> <<>>]
FallInto(m) == [last |-> <<>>, to |-> <<m>>]

Blocks(bodies, ends) == { [is |-> b \o e.last, to |-> e.to] : b \in bodies, e \in ends }
Labelled(n) == { <<Label(LabelOf[n])>> \o b : b \in Bodies \cup {<<>>} }

MCAnalyses ==
  { Analysis([block |-> <<b1.is, b2.is, b3.is>>, to |-> <<b1.to, b2.to, b3.to>>]) :
      b1 \in Blocks(Bodies, { FallInto(2), BranchTo(3) }),
      b2 \in Blocks(Labelled(2), { FallInto(3), JumpTo(2), BranchTo(2), ReturnOf("z") }),
      b3 \in Blocks(Labelled(3), { JumpTo(2), ReturnOf("y") }) }

=============================================================================
