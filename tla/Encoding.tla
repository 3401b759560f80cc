------------------------------ MODULE Encoding ------------------------------
(***************************************************************************)
(* What the bytes that an instruction line appends must mean: the step     *)
(* properties of Lexer that compare the mnemonic functions with an         *)
(* independent reading of the bytes (X86).                                 *)
(***************************************************************************)
EXTENDS Lexer, X86

DataMnemonics == {"DB", "DW", "DDW", "DQW"}
Jumps == {"CALL", "JMP", "JE", "JNE", "JL", "JGE", "JLE", "JG"}
Arithmetic == {"ADD", "SUB", "CMP"}

-----------------------------------------------------------------------------
(* The instruction that a line asks for.  address stands for the bytes     *)
(* that the linker will write into the field of a label reference.         *)
Truncated(v, n) == SubSeq(v, 1, n)

Argument(op, size, address) ==
  CASE IsReg(op) -> RegArg(op.value.code)
    [] IsMem(op) -> MemArg(op.value.code, LE4(op.displacement))
    [] IsImm(op) -> ImmArg(Truncated(op.value, size))
    [] IsLabel(op) /\ op.indirect -> RipArg(address)
    [] OTHER -> ImmArg(address)

(* An address has the size of its register; the 32-bit result of          *)
(* "lea eax, [rel $a]" needs only 32 bits of it.                           *)
AddressSize(ops) ==
  IF \E k \in DOMAIN ops : IsMem(ops[k])
    THEN (CHOOSE op \in {ops[k] : k \in DOMAIN ops} : IsMem(op)).value.size
  ELSE IF Len(ops) = 2 /\ IsLabel(ops[2]) THEN ops[1].value.size
  ELSE 8

RegisterSizes(ops) == {ops[k].value.size : k \in {j \in DOMAIN ops : IsReg(ops[j])}}

(* A branch to a number or a label is relative; the operand of RET has 16  *)
(* bits, that of INT 8; every other instruction has the size of its        *)
(* register, and one without a register the size of the smallest immediate *)
(* that holds the value (MOV) or of the address register (INC).            *)
BranchMeaning(line, address) ==
  LET op == line.operands[1]
  IN  IF IsReg(op) THEN Insn(line.mnemonic, op.value.size, 8,
                             << RegArg(op.value.code) >>)
      ELSE Insn(line.mnemonic, 8, 8,
                << RelArg(IF IsLabel(op) THEN address
                          ELSE Truncated(op.value, 4)) >>)

(* Only the first n bytes carry anything.                                  *)
Fits(v, n) == \A k \in DOMAIN v : v[k] # 0 => k <= n

SmallestSize(v) == CHOOSE n \in {1, 2, 4, 8} :
                     /\ Fits(v, n)
                     /\ \A m \in {1, 2, 4, 8} : m < n => ~Fits(v, m)

SizeOf(line) ==
  LET ops == line.operands
  IN  CASE line.mnemonic \in {"NOP", "HLT", "SYSCALL"} -> 8
        [] line.mnemonic = "RET" -> 2
        [] line.mnemonic = "INT" -> 1
        [] RegisterSizes(ops) # {} -> CHOOSE s \in RegisterSizes(ops) : TRUE
        [] line.mnemonic = "INC" /\ RegisterSizes(ops) = {} -> ops[1].value.size
        [] line.mnemonic = "MOV" /\ RegisterSizes(ops) = {} ->
             SmallestSize(ops[2].value)
        [] OTHER -> 8

Meaning(line, address) ==
  IF line.mnemonic \in Jumps THEN BranchMeaning(line, address)
  ELSE LET size == SizeOf(line)
       IN  Insn(line.mnemonic,
                IF line.mnemonic \in {"RET", "INT"} THEN 8 ELSE size,
                AddressSize(line.operands),
                [k \in DOMAIN line.operands |->
                   Argument(line.operands[k], size, address)])

-----------------------------------------------------------------------------
(* The bytes that a step appends, the field of its label reference (if it  *)
(* records one) filled with a recognisable address.                        *)
Here == segments[current_segment_type]
There == segments'[current_segment_type]
Recorded == Len(There.replacements) > Len(Here.replacements)
NewField == There.replacements[Len(There.replacements)]

Marker(n) == [k \in 1 .. n |-> 16 + k]
NewAddress == IF Recorded THEN Marker(PatchWidth(NewField.type)) ELSE << >>
NewByte(at) ==
  IF Recorded /\ at \in NewField.address + 1
                          .. NewField.address + Len(NewAddress)
    THEN NewAddress[at - NewField.address] ELSE There.opcodes[at]
NewBytes ==
  [k \in 1 .. Len(There.opcodes) - Len(Here.opcodes) |->
     NewByte(Len(Here.opcodes) + k)]

(* An instruction line that lex_source takes without an error.             *)
Accepts ==
  /\ Instruction
  /\ Current.mnemonic \notin DataMnemonics
  /\ errors_found' = errors_found
  /\ ~errors_found

EncodesLine == Decode(NewBytes) = Meaning(Current, NewAddress)

-----------------------------------------------------------------------------
(* The lines that the code takes and encodes as something else, class by   *)
(* class.  Every other line that it takes is encoded right.                *)
HasExtended(ops) == \E k \in DOMAIN ops : Extended(ops[k])

(* r/m = 4 announces a SIB byte, r/m = 5 without displacement is RIP.      *)
StackBase(op) ==
  IsMem(op) /\ (op.value.code = 4 \/ (op.value.code = 5 /\ op.displacement = 0))
HasStackBase(ops) == \E k \in DOMAIN ops : StackBase(ops[k])

(* A 32-bit immediate with its top bit set, for a 64-bit register.         *)
WidensNegative(line) ==
  LET ops == line.operands
  IN  /\ line.mnemonic \in Arithmetic
      /\ IsReg(ops[1]) /\ IsImm(ops[2])
      /\ ops[1].value.size = 8 /\ ops[2].value[4] >= 128

ComparesNothing(line) ==
  /\ line.mnemonic = "CMP"
  /\ ~(IsReg(line.operands[1]) /\ (IsReg(line.operands[2]) \/ IsImm(line.operands[2])))

IgnoresOperands(line) == line.mnemonic = "NOP" /\ line.operands # << >>

IsMov(line) == line.mnemonic = "MOV" /\ Len(line.operands) = 2
Stores(line) == IsMov(line) /\ IsMem(line.operands[1]) /\ IsReg(line.operands[2])
Loads(line) == IsMov(line) /\ IsReg(line.operands[1]) /\ IsMem(line.operands[2])
MovesLabel(line) == IsMov(line) /\ IsReg(line.operands[1]) /\ IsLabel(line.operands[2])

SameSizes(line) == line.operands[1].value.size = line.operands[2].value.size

(* MOV drops the displacement of its second operand and that of an address *)
(* that takes an immediate, and takes the size of the data from the        *)
(* register of the address.                                                *)
MisreadsAddress(line) ==
  \/ Loads(line) /\ (line.operands[2].displacement # 0 \/ ~SameSizes(line))
  \/ /\ IsMov(line) /\ IsMem(line.operands[1]) /\ IsImm(line.operands[2])
     /\ line.operands[1].displacement # 0

(* CALL and JMP have no 32-bit register form, INC no prefix for an address *)
(* of another size than 64 bits.                                           *)
MisreadsSize(line) ==
  \/ /\ line.mnemonic \in {"CALL", "JMP"}
     /\ IsReg(line.operands[1]) /\ line.operands[1].value.size = 4
  \/ /\ line.mnemonic = "INC"
     /\ IsMem(line.operands[1]) /\ line.operands[1].value.size # 8

Misencoded(line) ==
  \/ HasExtended(line.operands) \/ HasStackBase(line.operands)
  \/ IgnoresOperands(line)
  \/ WidensNegative(line) \/ ComparesNothing(line)
  \/ Stores(line) \/ MovesLabel(line)
  \/ MisreadsAddress(line) \/ MisreadsSize(line)

-----------------------------------------------------------------------------
(* Outside the classes above, the bytes that an accepted instruction line  *)
(* appends are exactly one x86-64 instruction, and it is the one the line  *)
(* asks for: name, size, register order, displacement, immediate and the   *)
(* place of the field the linker fills.                                    *)
EncodesMeaning ==
  [][Accepts /\ ~Misencoded(Current) => EncodesLine]_vars

(* The shapes of operands that the comments of the mnemonic functions and  *)
(* the sections of docs/README.md on data, addresses and RIP relative      *)
(* addressing show, with the registers and the numbers that the messages   *)
(* of these functions ask for.                                             *)
Number(op, n) == IsImm(op) /\ Fits(op.value, n)
Wide(op) == op.value.size >= 4

DocumentedArithmetic(line) ==
  LET ops == line.operands
  IN  /\ Len(ops) = 2 /\ IsReg(ops[1])
      /\ \/ IsReg(ops[2]) /\ SameSizes(line)
         \/ Number(ops[2], CapOf(ops[1].value.size))

DocumentedMove(line) ==
  LET ops == line.operands
  IN  /\ Len(ops) = 2 /\ ~HasExtended(ops)
      /\ \/ IsReg(ops[1]) /\ IsReg(ops[2]) /\ SameSizes(line)
         \/ IsReg(ops[1]) /\ Number(ops[2], ops[1].value.size)
         \/ IsMem(ops[1]) /\ Wide(ops[1]) /\ (Number(ops[2], 4) \/ IsReg(ops[2]))
         \/ IsReg(ops[1]) /\ Wide(ops[1]) /\ IsMem(ops[2])
         \/ /\ IsReg(ops[1]) /\ ops[1].value.size = 8
            /\ IsLabel(ops[2]) /\ ~ops[2].indirect

DocumentedAddress(line) ==
  LET ops == line.operands
  IN  /\ Len(ops) = 2 /\ ~HasExtended(ops)
      /\ IsReg(ops[1]) /\ Wide(ops[1])
      /\ \/ IsMem(ops[2]) /\ SameSizes(line)
         \/ IsLabel(ops[2]) /\ ops[2].indirect

DocumentedBranch(line) ==
  LET op == line.operands[1]
  IN  /\ Len(line.operands) = 1
      /\ \/ IsLabel(op)
         \/ Number(op, 4)
         \/ line.mnemonic \in {"CALL", "JMP"} /\ IsReg(op) /\ op.value.size # 1

ElementSize == [DW |-> 2, DDW |-> 4, DQW |-> 8]
DocumentedData(line) ==
  /\ line.operands # << >>
  /\ \A k \in DOMAIN line.operands :
       LET op == line.operands[k]
       IN  IF line.mnemonic = "DB" THEN IsImm(op) \/ op.type = "STRING"
           ELSE Number(op, ElementSize[line.mnemonic])

Documented(line) ==
  LET m == line.mnemonic
      ops == line.operands
  IN  \/ m \in Arithmetic /\ DocumentedArithmetic(line)
      \/ m = "MOV" /\ DocumentedMove(line)
      \/ m = "LEA" /\ DocumentedAddress(line)
      \/ m \in Jumps /\ DocumentedBranch(line)
      \/ m \in DataMnemonics /\ DocumentedData(line)
      \/ m \in {"INC", "DEC", "MUL", "DIV"} /\ Len(ops) = 1 /\ IsReg(ops[1])
      \/ m = "INC" /\ Len(ops) = 1 /\ IsMem(ops[1])
      \/ m \in {"NOP", "HLT", "SYSCALL", "RET"} /\ ops = << >>
      \/ m = "RET" /\ Len(ops) = 1 /\ Number(ops[1], 2)
      \/ m = "INT" /\ Len(ops) = 1 /\ Number(ops[1], 1)

(* A line of one of these shapes is never refused, whatever the lines      *)
(* before it were.  (That the two registers called r1 and r2 in an example *)
(* of docs/README.md are refused is a matter of get_register.)             *)
AcceptsDocumented ==
  [][Instruction /\ Documented(Current) => errors_found' = errors_found]_vars

(* The linker measures a relative address from the four bytes behind the   *)
(* start of the field, the processor from the end of the instruction: a    *)
(* RELATIVE field is always the last thing its instruction appends.        *)
RelativeFieldEndsInstruction ==
  [][Instruction /\ Recorded /\ NewField.type = "RELATIVE"
       => NewField.address + 4 = Len(There.opcodes)]_vars

-----------------------------------------------------------------------------
(* mov.c: "Register -> address in register", "mov [rax], rbx".             *)
StoreWritesMemory == [][Accepts /\ Stores(Current) => EncodesLine]_vars
=============================================================================
