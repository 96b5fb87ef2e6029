------------------------------ MODULE Coloring ------------------------------
(***************************************************************************)
(* What register allocation promises to the code generator, without saying *)
(* in which order variables are coloured or how the order is found.        *)
(*                                                                         *)
(* Every variable of an interference graph ends in exactly one place: a    *)
(* register of its own among its neighbours, or a stack slot, and it goes  *)
(* to the stack only when its neighbours already hold every register.      *)
(* RegisterAllocator.tla implements this specification.                    *)
(***************************************************************************)
EXTENDS FiniteSets

CONSTANTS
  Var,   (* Names of variables and temporaries of one function. *)
  Reg    (* The pool of callee-saved registers.                 *)

VARIABLES
  graph,      (* variable -> the set of variables it interferes with *)
  registers,  (* variable -> register, for the variables coloured    *)
  spilled     (* variables that live on the stack                    *)

vars == <<graph, registers, spilled>>

(***************************************************************************)
(* An interference graph over any set of variables: edges are symmetric    *)
(* and no variable interferes with itself.                                 *)
(***************************************************************************)
IsInterferenceGraph(g) ==
  /\ DOMAIN g \subseteq Var
  /\ g \in [DOMAIN g -> SUBSET DOMAIN g]
  /\ \A u, v \in DOMAIN g : u \in g[v] => u # v /\ v \in g[u]

InterferenceGraphs ==
  { g \in UNION { [N -> SUBSET N] : N \in SUBSET Var } : IsInterferenceGraph(g) }

Nodes == DOMAIN graph
Placed == DOMAIN registers \cup spilled

\* The registers the neighbours of v hold, and the ones left for v.
UsedAround(v) == { registers[n] : n \in graph[v] \cap DOMAIN registers }
FreeFor(v) == Reg \ UsedAround(v)

Init ==
  /\ graph \in InterferenceGraphs
  /\ registers = [v \in {} |-> 0]
  /\ spilled = {}

Place(v, r) ==
  /\ v \in Nodes \ Placed
  /\ r \in FreeFor(v)
  /\ registers' = [u \in DOMAIN registers \cup {v} |->
                     IF u = v THEN r ELSE registers[u]]
  /\ UNCHANGED <<graph, spilled>>

Spill(v) ==
  /\ v \in Nodes \ Placed
  /\ FreeFor(v) = {}
  /\ spilled' = spilled \cup {v}
  /\ UNCHANGED <<graph, registers>>

Next == \E v \in Nodes : Spill(v) \/ \E r \in Reg : Place(v, r)

Spec == Init /\ [][Next]_vars /\ WF_vars(Next)

=============================================================================
