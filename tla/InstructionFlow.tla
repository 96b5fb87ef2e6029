---------------------------- MODULE InstructionFlow ----------------------------
(***************************************************************************)
(* Control flow and liveness of an instruction list, position by position  *)
(* and without blocks: what the passes of the back end are measured        *)
(* against.                                                                *)
(***************************************************************************)
EXTENDS IR

LabelsIn(c) == { c[p].label : p \in { q \in DOMAIN c : IsLabel(c[q]) } }

\* The labels a terminator may jump to.
LabelsOf(i) ==
  CASE i.op = "jump"   -> {i.destination}
    [] i.op = "branch" -> {i.trueLabel, i.falseLabel}
    [] OTHER           -> {}

\* Labels are unique and jumps lead to labels of the function: the generator
\* numbers its labels and emits each one it names.
JumpsResolve(c) ==
  /\ \A p, q \in DOMAIN c :
       IsLabel(c[p]) /\ IsLabel(c[q]) /\ c[p].label = c[q].label => p = q
  /\ \A p \in DOMAIN c : LabelsOf(c[p]) \subseteq LabelsIn(c)

\* An IRConst is emitted for a constant only.
ConstantsAreConstant(c) == \A p \in DOMAIN c : c[p].op = "const" => c[p].value.kind # "name"

\* An operand is an integer, a Boolean or a name, and then nothing else.
IsValue(v) == v.kind \in {"int", "bool"} \/ v = Name(v.name)

OperandsAreValues(c) ==
  \A p \in DOMAIN c : /\ \A v \in Operands(c[p]) : IsValue(v)
                      /\ c[p].op = "const" => IsValue(c[p].value)

\* What follows a jump, a branch or a return is a label.
TerminatorsPrecedeLabels(c) ==
  \A p \in DOMAIN c \ {Len(c)} : IsTerminator(c[p]) => IsLabel(c[p + 1])

\* What the back end expects of an instruction list.
IsFunctionCode(c) == JumpsResolve(c) /\ TerminatorsPrecedeLabels(c)

\* Positions that may be executed right after position p.
FlowsTo(c, p) ==
  IF IsTerminator(c[p])
    THEN { q \in DOMAIN c : IsLabel(c[q]) /\ c[q].label \in LabelsOf(c[p]) }
    ELSE {p + 1} \cap DOMAIN c

\* Positions execution can reach from the first one in so many steps.
ReachableWithin(c) ==
  LET within[n \in Nat] ==
        IF n = 0 THEN {1} \cap DOMAIN c
        ELSE LET S == within[n - 1] IN S \cup UNION { FlowsTo(c, p) : p \in S }
  IN  within

\* Positions execution can reach from the first one.
ReachableIn(c) == ReachableWithin(c)[Len(c)]

\* Positions from which some execution reads x within so many steps, before
\* anything writes it.
ReadWithin(c, x) ==
  LET reads[n \in Nat] ==
        IF n = 0 THEN { p \in DOMAIN c : x \in GetSources(c[p]) }
        ELSE LET S == reads[n - 1]
             IN  S \cup { p \in DOMAIN c : /\ x \notin GetDestination(c[p])
                                           /\ FlowsTo(c, p) \cap S # {} }
  IN  reads

\* Positions from which some execution reads x before anything writes it.
ReadFrom(c, x) == ReadWithin(c, x)[Len(c)]

\* For each position, the names of V whose value there is read later.
LiveBefore(c, V) ==
  LET readers == [x \in V |-> ReadFrom(c, x)]
  IN  [p \in DOMAIN c |-> { x \in V : p \in readers[x] }]

\* Every name an instruction mentions.
NamesOf(c) == UNION { GetDestination(i) \cup GetSources(i) : i \in Range(c) }

\* Names of S that would be lost if a value were put where x lives.
Overwritten(registers, x, S) ==
  { y \in S \ {x} : {x, y} \subseteq DOMAIN registers /\ registers[x] = registers[y] }

\* At no position that execution reaches does the write of a name destroy
\* another one that is read later, nor are two needed on entry in one register.
SparesLiveNames(c, V, registers) ==
  LET live == LiveBefore(c, V) IN
    /\ \A p \in ReachableIn(c) : \A d \in GetDestination(c[p]) :
         Overwritten(registers, d, UNION { live[q] : q \in FlowsTo(c, p) }) = {}
    /\ c # <<>> => \A x \in live[1] : Overwritten(registers, x, live[1]) = {}

=============================================================================
