------------------------------- MODULE Execution -------------------------------
(***************************************************************************)
(* The generated assembly of one function running on a RISC-V machine,     *)
(* side by side with the instruction list it was generated from.           *)
(*                                                                         *)
(* The list takes a step, then the machine runs the instructions emitted   *)
(* for it, and so on: at each boundary the two can be compared. The code   *)
(* generator is src/src/riscv_codegen.cpp; the machine and the functions   *)
(* it calls are outside the repository. A call is one machine step that    *)
(* keeps what a function generated by this compiler keeps (sp, ra and the  *)
(* saved registers) and destroys every other register.                     *)
(***************************************************************************)
EXTENDS IRSemantics, CodeGenerator

CONSTANTS
  Compiled,      (* Functions: parameters, code, registers, spilled, and    *)
                 (* booleans, the names that hold truth values.             *)
  SavedReg,      (* Registers of the allocator's pool.                      *)
  Arguments,     (* Words a caller passes.                                  *)
  CallResults,   (* Words a callee returns.                                 *)
  Junk,          (* What a register holds when nobody has set it.           *)
  Kept,          (* What the caller keeps in ra and each register of the pool. *)
  BitXor(_, _), BitAnd(_, _), BitOr(_, _)  (* Logic on the bits of a word.  *)

\* Scratch registers, those of the calling convention, and the pool.
Scratch == {"t0", "t1", "t2"} \cup { Arg(i) : i \in 0..7 }
Registers == SavedReg \cup Scratch \cup {"sp", "ra"}

\* The pool of allocator.cpp is s1 to s11.
ASSUME PoolIsSaved == IsFiniteSet(SavedReg) /\ SavedReg \cap (Scratch \cup {"sp", "ra"}) = {}

\* Truth values are words: a word has two bits at least.
ASSUME WordsAreWords == 1 \in Word /\ Arguments \subseteq Word /\ CallResults \subseteq Word

\* The bits of words: xor tells words apart, and 0 and 1 are truth values.
ASSUME BitsAreBits ==
  /\ \A l, r \in 0..(2 ^ Width - 1) :
       BitXor(l, r) \in 0..(2 ^ Width - 1) /\ (BitXor(l, r) = 0 <=> l = r)
  /\ \A l, r \in {0, 1} : /\ BitXor(l, r) = Truth(l # r)
                          /\ BitAnd(l, r) = Truth(l = 1 /\ r = 1)
                          /\ BitOr(l, r) = Truth(l = 1 \/ r = 1)

\* An instruction the generator of the list can emit.
IsInstruction(i) ==
  /\ i.op \in {"const", "move", "binop", "unary", "call", "label", "jump", "branch", "return"}
  /\ \A v \in Operands(i) : IsValue(v) /\ (v.kind # "name" => v.value \in Word)
  /\ i.op = "const" => i.value.kind # "name" /\ i.value.value \in Word
  /\ i.op = "binop" => i.fn \in {"Add", "Subtract", "Multiply", "Divide", "Equal", "LessThan",
                                  "LessThanEqual", "GreaterThan", "GreaterThanEqual", "And", "Or"}
  /\ i.op = "call" => i.arguments \in Seq(Range(i.arguments)) /\ Len(i.arguments) <= MaxArguments

\* What the optimizer and the allocator leave of a function: every name has a
\* register or a slot, none both. Findings 1 and 2 of the README are about parameters.
IsCompilable(g) ==
  /\ g.code \in Seq(Range(g.code)) /\ JumpsResolve(g.code)
  /\ EpilogueLabel \notin LabelsIn(g.code)
  /\ \A i \in Range(g.code) : IsInstruction(i)
  /\ g.parameters \in Seq(Range(g.parameters)) /\ Len(g.parameters) <= MaxArguments
  /\ g.registers \in [DOMAIN g.registers -> SavedReg] /\ IsFiniteSet(g.spilled)
  /\ DOMAIN g.registers \cap g.spilled = {}
  /\ NamesOf(g.code) \cup Range(g.parameters) \subseteq DOMAIN g.registers \cup g.spilled

ASSUME CompiledAreCompilable == \A g \in Compiled : IsCompilable(g)

\* What the type checker sees to: the operands of && and || are truth values,
\* and so is all that is written to a name of that type.
IsTyped(g) ==
  LET truth(v) == IF v.kind = "name" THEN v.name \in g.booleans ELSE v.value \in {0, 1}
  IN  \A i \in Range(g.code) :
        /\ i.op = "binop" /\ i.fn \in {"And", "Or"} => truth(i.leftVal) /\ truth(i.rightVal)
        /\ GetDestination(i) \cap g.booleans # {} =>
             CASE i.op = "const" -> truth(i.value)
               [] i.op = "move"  -> truth(i.source)
               [] i.op = "binop" -> i.fn \notin {"Add", "Subtract", "Multiply", "Divide"}
               [] i.op = "unary" -> i.fn = "Not"
               [] i.op = "call"  -> TRUE

\* The names whose value is needed on entry: a let has an initializer, so none
\* but parameters.
NeededOnEntry(g) == IF g.code = <<>> THEN {} ELSE LiveBefore(g.code, NamesOf(g.code))[1]

\* WritesSpareLiveNames of Backend says the last of what it allocates.
ASSUME CompiledAreSound ==
  \A g \in Compiled : /\ IsTyped(g)
                      /\ NeededOnEntry(g) \subseteq Range(g.parameters)
                      /\ SparesLiveNames(g.code, NamesOf(g.code), g.registers)

\* No parameter is stored over one that was stored before it and is needed.
ParametersApart(g) ==
  \A k \in DOMAIN g.parameters :
    Overwritten(g.registers, g.parameters[k],
                NeededOnEntry(g) \cap { g.parameters[j] : j \in 1..(k - 1) }) = {}

VARIABLES
  f,         (* the function                                              *)
  asm,       (* its assembly                                              *)
  start,     (* where the assembly of each position starts                *)
  live,      (* names whose value is still needed, by position            *)
  pos, env,  (* the list: next position, values of the names              *)
  result,    (* the sequence of values returned: empty or one             *)
  pc, regs, mem,  (* the machine: index in asm, registers, its frame      *)
  running,   (* the machine is inside the assembly of one instruction     *)
  called,    (* arguments and result of the call being made               *)
  halted     (* ret has been executed                                     *)

code == <<f, asm, start, live>>
list == <<pos, env, result, called>>
machine == <<pc, regs, mem, running, halted>>
vars == <<code, list, machine>>

\* The frame lies just below address 0, where sp is on entry.
Frame(g) == { 8 * k - BuildStackFrame(g).frameSize :
                k \in 0..(BuildStackFrame(g).frameSize \div 8 - 1) }

\* What g finds when it is called with these values of its parameters.
EntryRegs(g, values) ==
  [r \in Registers |->
     CASE r = "sp" -> 0
       [] \E k \in DOMAIN g.parameters : r = Arg(k - 1) ->
            values[g.parameters[CHOOSE k \in DOMAIN g.parameters : r = Arg(k - 1)]]
       [] r \in SavedReg \cup {"ra"} -> Kept[r]
       [] OTHER -> Junk]

EntryMem(g) == [a \in Frame(g) |-> Junk]

\* What x may be given by a caller or a callee.
WordsFor(x, words) == IF x \in f.booleans THEN {0, 1} ELSE words

Init ==
  /\ f \in Compiled
  /\ asm = GenerateFunction(f)
  /\ start = StartOfPieces(f)
  /\ live = LiveBefore(f.code, NamesOf(f.code))
  /\ env \in [Range(f.parameters) -> Arguments \cup {0, 1}]
  /\ \A x \in DOMAIN env : env[x] \in WordsFor(x, Arguments)
  /\ pos = 1 /\ result = <<>> /\ called = <<>>
  /\ pc = 1
  /\ regs = EntryRegs(f, env) /\ mem = EntryMem(f)
  /\ running = TRUE /\ halted = FALSE

-----------------------------------------------------------------------------
(***************************************************************************)
(* The list.                                                               *)
(***************************************************************************)
AtEnd == pos > Len(f.code)

ListStep ==
  /\ ~running /\ ~AtEnd
  /\ LET i == f.code[pos] IN
       /\ CanStep(env, i)
       /\ \E v \in IF i.op = "call" THEN WordsFor(i.destination, CallResults) ELSE {0} :
            /\ env' = EnvAfter(env, i, v)
            /\ called' = IF i.op = "call"
                           THEN <<[k \in DOMAIN i.arguments |-> ValueOf(env, i.arguments[k])], v>>
                           ELSE called
       /\ result' = IF i.op = "return" THEN <<ValueOf(env, i.value)>> ELSE result
       /\ pos' = PositionAfter(f.code, pos, env)
  /\ running' = TRUE
  /\ UNCHANGED <<code, pc, regs, mem, halted>>

-----------------------------------------------------------------------------
(***************************************************************************)
(* The machine.                                                            *)
(***************************************************************************)
Bits(n) == n % (2 ^ Width)

Compute(op, l, r) ==
  CASE op = "add" -> Wrap(l + r)
    [] op = "sub" -> Wrap(l - r)
    [] op = "mul" -> Wrap(l * r)
    [] op = "div" -> IF r = 0 THEN -1 ELSE Wrap(Quotient(l, r))
    [] op = "xor" -> Wrap(BitXor(Bits(l), Bits(r)))
    [] op = "and" -> Wrap(BitAnd(Bits(l), Bits(r)))
    [] op = "or"  -> Wrap(BitOr(Bits(l), Bits(r)))
    [] op = "slt" -> Truth(l < r)

Current == asm[pc]

\* The value an instruction writes to its register rd, from registers r and
\* memory m.
Written(i, r, m) ==
  CASE i.op = "li"   -> i.imm
    [] i.op = "mv"   -> r[i.rs]
    [] i.op = "neg"  -> Wrap(-r[i.rs])
    [] i.op = "seqz" -> Truth(r[i.rs] = 0)
    [] i.op = "addi" -> r[i.rs] + i.imm
    [] i.op = "xori" -> Compute("xor", r[i.rs], i.imm)
    [] i.op = "ld"   -> m[r["sp"] + i.offset]
    [] OTHER         -> Compute(i.op, r[i.rs1], r[i.rs2])

\* The registers r after a call that returns v: the callee follows the
\* convention that ReturnsToCaller below checks.
AfterCall(r, v) ==
  [x \in Registers |-> CASE x = Arg(0) -> v
                         [] x \in SavedReg \cup {"sp"} -> r[x]
                         [] OTHER -> Junk]

Target(l) == CHOOSE n \in DOMAIN asm : asm[n] = At(l)

\* Where the machine goes, and whether the list must step before it goes on.
GoTo(n) ==
  /\ pc' = n
  /\ running' = (n \notin Range(start))

Machine == (running \/ AtEnd) /\ ~halted

Straight ==
  /\ Machine
  /\ Current.op \notin {"label", "j", "bnez", "sd", "call", "ret", "throw"}
  /\ regs' = [regs EXCEPT ![Current.rd] = Written(Current, regs, mem)]
  /\ GoTo(pc + 1)
  /\ UNCHANGED <<code, list, mem, halted>>

Store ==
  /\ Machine /\ Current.op = "sd"
  /\ mem' = [mem EXCEPT ![regs["sp"] + Current.offset] = regs[Current.rs]]
  /\ GoTo(pc + 1)
  /\ UNCHANGED <<code, list, regs, halted>>

Transfer ==
  /\ Machine /\ Current.op \in {"label", "j", "bnez"}
  /\ GoTo(IF \/ Current.op = "label"
             \/ Current.op = "bnez" /\ regs[Current.rs] = 0
            THEN pc + 1 ELSE Target(Current.label))
  /\ UNCHANGED <<code, list, regs, mem, halted>>

CallStep ==
  /\ Machine /\ Current.op = "call"
  /\ regs' = AfterCall(regs, called[2])
  /\ GoTo(pc + 1)
  /\ UNCHANGED <<code, list, mem, halted>>

ReturnStep ==
  /\ Machine /\ Current.op = "ret"
  /\ halted' = TRUE
  /\ UNCHANGED <<code, list, pc, regs, mem, running>>

Next == ListStep \/ Straight \/ Store \/ Transfer \/ CallStep \/ ReturnStep

Spec == Init /\ [][Next]_vars

-----------------------------------------------------------------------------
(***************************************************************************)
(* Properties.                                                             *)
(***************************************************************************)

\* What the place the allocator gave x holds, in registers r and memory m.
Held(g, r, m, x) == IF x \in DOMAIN g.registers THEN r[g.registers[x]]
                    ELSE m[r["sp"] + BuildStackFrame(g).spillOffsets[x]]

ValueIn(x) == Held(f, regs, mem, x)

\* The generator did not throw, the machine only runs assembly that is there,
\* and its loads and stores stay in the frame the function has reserved.
TypeOK ==
  /\ pos \in 1..(Len(f.code) + 1)
  /\ \A x \in DOMAIN env : env[x] \in Word
  /\ pc \in DOMAIN asm
  /\ regs["sp"] % 16 = 0
  /\ Throw \notin Range(asm)
  /\ Current.op \in {"ld", "sd"} => regs["sp"] + Current.offset \in DOMAIN mem

\* The machine simulates the list: whenever the two are at a boundary, they
\* are at the same one, and every name whose value is read later has it in
\* its register or its stack slot.
LiveValuesInPlace ==
  ~running /\ ~AtEnd =>
    /\ pc = start[pos]
    /\ \A x \in live[pos] : ValueIn(x) = env[x]

\* When a call is made, its arguments are in a0, a1, ... in order, however
\* the loads of the later ones used the scratch register.
CallGetsItsArguments ==
  Machine /\ Current.op = "call" =>
    \A k \in DOMAIN called[1] : regs[Arg(k - 1)] = called[1][k]

\* The value the list returned is in a0 when the machine returns.
ReturnsTheResult == halted /\ result # <<>> => regs["a0"] = result[1]

\* On return the machine has given back the frame, the return address and
\* every register of the pool, as a caller that keeps its own variables in
\* those registers across a call relies on.
ReturnsToCaller ==
  halted => /\ regs["sp"] = 0
            /\ \A r \in SavedReg \cup {"ra"} : regs[r] = Kept[r]

\* riscv_codegen.cpp:97-98: what is in ai is moved into the register of the
\* parameter, "this passes inthe parameter values into the function".
ParametersArrive ==
  ~running /\ pos = 1 => \A x \in live[1] : ValueIn(x) = env[x]

=============================================================================
