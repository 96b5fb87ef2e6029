----------------------------- MODULE CodeGenerator -----------------------------
(***************************************************************************)
(* RISCVCodeGenerator (src/src/riscv_codegen.cpp): the instructions emitted*)
(* for one function, given where the allocator put each name.              *)
(*                                                                         *)
(* A function f is a record of its parameters (a sequence of names), its   *)
(* code, and the AllocationResult: registers and spilled. A throw in the   *)
(* generator is an emitted "throw", which no runnable program contains.    *)
(***************************************************************************)
EXTENDS IR, SequencesExt

\* Argument register ai.
Arg(i) == <<"a0", "a1", "a2", "a3", "a4", "a5", "a6", "a7">>[i + 1]

RR(op, rd, rs1, rs2) == [op |-> op, rd |-> rd, rs1 |-> rs1, rs2 |-> rs2]
RI(op, rd, rs, imm) == [op |-> op, rd |-> rd, rs |-> rs, imm |-> imm]
R1(op, rd, rs) == [op |-> op, rd |-> rd, rs |-> rs]
Li(rd, imm) == [op |-> "li", rd |-> rd, imm |-> imm]
Mv(rd, rs) == R1("mv", rd, rs)
Ld(rd, offset) == [op |-> "ld", rd |-> rd, offset |-> offset]
Sd(rs, offset) == [op |-> "sd", rs |-> rs, offset |-> offset]
At(l) == [op |-> "label", label |-> l]
J(l) == [op |-> "j", label |-> l]
Bnez(rs, l) == [op |-> "bnez", rs |-> rs, label |-> l]
CallTo(f, n) == [op |-> "call", function |-> f, arguments |-> n]
Ret == [op |-> "ret"]
Throw == [op |-> "throw"]

EpilogueLabel == "epilogue"
MaxArguments == 8

-----------------------------------------------------------------------------
(***************************************************************************)
(* The stack frame: ra, then the saved registers, then the spilled names,  *)
(* 8 bytes each. Both containers are hash tables: any order may come out.  *)
(***************************************************************************)
Align16(n) == ((n + 15) \div 16) * 16

\* The register of each name once: several names may share one.
SavedRegisters(f) == SetToSeq(Range(f.registers))

Offsets(s, first) == [x \in Range(s) |-> first + 8 * ((CHOOSE i \in DOMAIN s : s[i] = x) - 1)]

\* Variant: the spill slots start where the saved registers do.
FirstSpillOverlapping(f) == 8

FirstSpill(f) == 8 + 8 * Cardinality(Range(f.registers))

BuildStackFrame(f) ==
  [ raOffset |-> 0,
    savedRegisterOffsets |-> Offsets(SavedRegisters(f), 8),
    spillOffsets |-> Offsets(SetToSeq(f.spilled), FirstSpill(f)),
    frameSize |-> Align16(FirstSpill(f) + 8 * Cardinality(f.spilled)) ]

-----------------------------------------------------------------------------
(***************************************************************************)
(* Locations.                                                              *)
(***************************************************************************)

\* loadValue: the register that holds an operand, and what puts it there.
LoadValue(f, v, scratch) ==
  CASE v.kind # "name" -> [emit |-> <<Li(scratch, v.value)>>, reg |-> scratch]
    [] v.kind = "name" /\ v.name \in DOMAIN f.registers ->
         [emit |-> <<>>, reg |-> f.registers[v.name]]
    [] v.kind = "name" /\ v.name \in f.spilled ->
         [emit |-> <<Ld(scratch, BuildStackFrame(f).spillOffsets[v.name])>>, reg |-> scratch]
    [] OTHER -> [emit |-> <<Throw>>, reg |-> scratch]

\* storeValue: from a register into the place of a name.
StoreValue(f, d, source) ==
  CASE d \in DOMAIN f.registers -> <<Mv(f.registers[d], source)>>
    [] d \in f.spilled          -> <<Sd(source, BuildStackFrame(f).spillOffsets[d])>>
    [] OTHER                    -> <<Throw>>

-----------------------------------------------------------------------------
(***************************************************************************)
(* One operator per kind of instruction.                                   *)
(***************************************************************************)
GenerateConst(f, i) ==
  CASE i.destination \in DOMAIN f.registers ->
         <<Li(f.registers[i.destination], i.value.value)>>
    [] i.destination \in f.spilled ->
         <<Li("t0", i.value.value),
           Sd("t0", BuildStackFrame(f).spillOffsets[i.destination])>>
    [] OTHER -> <<Throw>>

GenerateMove(f, i) ==
  LET source == LoadValue(f, i.source, "t0")
  IN  source.emit \o StoreValue(f, i.destination, source.reg)

Opcode == [Add |-> "add", Subtract |-> "sub", Multiply |-> "mul", Divide |-> "div",
           LessThan |-> "slt", And |-> "and", Or |-> "or"]

\* Variant: a <= b tested as b < a, without the inversion.
OperationNotInverted(fn, l, r) ==
  CASE fn = "Equal" -> <<RR("xor", "t2", l, r), R1("seqz", "t2", "t2")>>
    [] fn \in {"GreaterThan", "LessThanEqual"} -> <<RR("slt", "t2", r, l)>>
    [] fn = "GreaterThanEqual" -> <<RR("slt", "t2", l, r)>>
    [] OTHER -> <<RR(Opcode[fn], "t2", l, r)>>

\* The switch of generateBinOp: the result goes to t2.
Operation(fn, l, r) ==
  CASE fn = "Equal"            -> <<RR("xor", "t2", l, r), R1("seqz", "t2", "t2")>>
    [] fn = "GreaterThan"      -> <<RR("slt", "t2", r, l)>>
    [] fn = "LessThanEqual"    -> <<RR("slt", "t2", r, l), RI("xori", "t2", "t2", 1)>>
    [] fn = "GreaterThanEqual" -> <<RR("slt", "t2", l, r), RI("xori", "t2", "t2", 1)>>
    [] OTHER                   -> <<RR(Opcode[fn], "t2", l, r)>>

\* Variant: both operands are loaded through t0.
SecondScratchT0 == "t0"

SecondScratch == "t1"

GenerateBinOp(f, i) ==
  LET left == LoadValue(f, i.leftVal, "t0")
      right == LoadValue(f, i.rightVal, SecondScratch)
  IN  left.emit \o right.emit \o Operation(i.fn, left.reg, right.reg)
        \o StoreValue(f, i.destination, "t2")

GenerateUnaryOp(f, i) ==
  LET operand == LoadValue(f, i.value, "t0")
  IN  operand.emit
        \o <<R1(IF i.fn = "Negation" THEN "neg" ELSE "seqz", "t1", operand.reg)>>
        \o StoreValue(f, i.destination, "t1")

GenerateBranch(f, i) ==
  LET condition == LoadValue(f, i.condition, "t0")
  IN  condition.emit \o <<Bnez(condition.reg, i.trueLabel), J(i.falseLabel)>>

\* Variant: the arguments are numbered from a1.
ArgumentFromOne(k) == Arg(k)

ArgumentRegister(k) == Arg(k - 1)

GenerateCall(f, i) ==
  LET loads == [k \in DOMAIN i.arguments |->
                  LET arg == LoadValue(f, i.arguments[k], "t0")
                  IN  Append(arg.emit, Mv(ArgumentRegister(k), arg.reg))]
  IN  IF Len(i.arguments) > MaxArguments THEN <<Throw>>
      ELSE FlattenSeq(loads)
             \o <<CallTo(i.functionName, Len(i.arguments))>>
             \o StoreValue(f, i.destination, Arg(0))

GenerateReturn(f, i) ==
  LET value == LoadValue(f, i.value, "t0")
  IN  value.emit \o <<Mv(Arg(0), value.reg), J(EpilogueLabel)>>

GenerateInstruction(f, i) ==
  CASE i.op = "const"  -> GenerateConst(f, i)
    [] i.op = "move"   -> GenerateMove(f, i)
    [] i.op = "binop"  -> GenerateBinOp(f, i)
    [] i.op = "unary"  -> GenerateUnaryOp(f, i)
    [] i.op = "label"  -> <<At(i.label)>>
    [] i.op = "jump"   -> <<J(i.destination)>>
    [] i.op = "branch" -> GenerateBranch(f, i)
    [] i.op = "call"   -> GenerateCall(f, i)
    [] i.op = "return" -> GenerateReturn(f, i)

-----------------------------------------------------------------------------
(***************************************************************************)
(* generateFunction.                                                       *)
(***************************************************************************)
\* The saved registers with their slots, in the order of the map.
SavedSlots(f) ==
  LET saved == SavedRegisters(f)
  IN  [k \in DOMAIN saved |->
         [reg |-> saved[k],
          offset |-> BuildStackFrame(f).savedRegisterOffsets[saved[k]]]]

Saves(f) == LET slots == SavedSlots(f)
            IN  [k \in DOMAIN slots |-> Sd(slots[k].reg, slots[k].offset)]
Restores(f) == LET slots == SavedSlots(f)
               IN  [k \in DOMAIN slots |-> Ld(slots[k].reg, slots[k].offset)]

Prologue(f) ==
  <<RI("addi", "sp", "sp", -BuildStackFrame(f).frameSize),
    Sd("ra", BuildStackFrame(f).raOffset)>> \o Saves(f)

\* Variant: only ra is restored.
EpilogueRestoresRa(f) ==
  <<Ld("ra", BuildStackFrame(f).raOffset),
    RI("addi", "sp", "sp", BuildStackFrame(f).frameSize), Ret>>

Epilogue(f) ==
  Restores(f)
    \o <<Ld("ra", BuildStackFrame(f).raOffset),
         RI("addi", "sp", "sp", BuildStackFrame(f).frameSize), Ret>>

\* Every ai goes to the place of parameter i, in order.
StoreParameters(f) ==
  IF Len(f.parameters) > MaxArguments THEN <<Throw>>
  ELSE FlattenSeq([k \in DOMAIN f.parameters |->
                     StoreValue(f, f.parameters[k], Arg(k - 1))])

Entry(f) == Prologue(f) \o StoreParameters(f)

\* What is emitted for each instruction, and the position it starts at.
Pieces(f) == [p \in DOMAIN f.code |-> GenerateInstruction(f, f.code[p])]

StartOfPieces(f) ==
  LET pieces == Pieces(f)
      start[p \in 1..(Len(f.code) + 1)] ==
        IF p = 1 THEN Len(Entry(f)) + 1 ELSE start[p - 1] + Len(pieces[p - 1])
  IN  start

GenerateFunction(f) ==
  Entry(f) \o FlattenSeq(Pieces(f)) \o <<At(EpilogueLabel)>> \o Epilogue(f)

=============================================================================
