----------------------------- MODULE Mnemonics -----------------------------
(***************************************************************************)
(* The mnemonic_XXX functions of mnemonics/: what each appends to the      *)
(* current segment for a line, as a function of the operands.              *)
(*                                                                         *)
(* The effect of one call is an emission: the opcodes appended before a    *)
(* label reference is recorded (head), the reference (or NoRef), the       *)
(* opcodes appended after it (tail), and err, the value throw_error leaves *)
(* in errors_found.  Only the data mnemonics append opcodes before they    *)
(* throw.                                                                  *)
(***************************************************************************)
EXTENDS AsmData

NoRef == [name |-> "", type |-> "NONE"]
Reference == [name : STRING, type : ReplacementType] \cup {NoRef}
Emission  == [err : BOOLEAN, head : Seq(Byte), ref : Reference,
              tail : Seq(Byte)]

Emit(bytes) == [err |-> FALSE, head |-> bytes, ref |-> NoRef, tail |-> << >>]
Throw(bytes) == [err |-> TRUE, head |-> bytes, ref |-> NoRef, tail |-> << >>]
Reject == Throw(<< >>)

(* Bugs: every placeholder has the width of the other kind of reference.   *)
EmitRefNarrow(bytes, name, type, width) ==
  [err |-> FALSE, head |-> bytes, ref |-> [name |-> name, type |-> type],
   tail |-> Zeros(4)]
EmitRefWide(bytes, name, type, width) ==
  [err |-> FALSE, head |-> bytes, ref |-> [name |-> name, type |-> type],
   tail |-> Zeros(8)]

(* append_label_reference, then a placeholder of width zero bytes.         *)
EmitRef(bytes, name, type, width) ==
  [err |-> FALSE, head |-> bytes, ref |-> [name |-> name, type |-> type],
   tail |-> Zeros(width)]

IsReg(op)   == op.type = "REGISTER" /\ ~op.indirect
IsMem(op)   == op.type = "REGISTER" /\ op.indirect
IsImm(op)   == op.type = "IMMEDIATE"
IsLabel(op) == op.type = "LABEL"

(* The operand-size prefix and the opcode, which has a byte form.          *)
Sized(size, op8, op) ==
  CASE size = 1 -> << op8 >>
    [] size = 2 -> << \h66, op >>
    [] size = 4 -> << op >>
    [] OTHER    -> << \h48, op >>

(* Bug: the registers change places.                                       *)
TwoRegisterMagicSwapped(dest, src) == (8 * dest.code + src.code) % 256

(* get_two_register_magic.                                                 *)
TwoRegisterMagic(dest, src) == (8 * src.code + dest.code) % 256

(* A mod-r/m byte, with a 32-bit displacement behind it unless that is 0.  *)
WithDisplacement(modrm, disp) ==
  IF disp # 0 THEN << (modrm + \h80) % 256 >> \o LE4(disp) ELSE << modrm >>

LowBytes(v, n) == [k \in 1 .. n |-> v[k]]

-----------------------------------------------------------------------------
(* ADD, SUB and CMP: register with register, or with an immediate that     *)
(* get_32bit_capped_immediate_value accepts.  otherwise is the effect of   *)
(* operands that fit neither branch.                                       *)
CapOf(size) == IF size = 8 THEN 4 ELSE size

AluRegReg(d, s, rr8, rr) ==
  IF d.size # s.size THEN Reject
  ELSE Emit(Sized(d.size, rr8, rr)
              \o << (\hC0 + TwoRegisterMagic(d, s)) % 256 >>)

AluOpcode(d, acc8, acc, ext) ==
  IF d.code = 0 THEN Sized(d.size, acc8, acc)
  ELSE Sized(d.size, \h80, \h81) \o << (ext + d.code) % 256 >>

AluRegImm(d, v, acc8, acc, ext) ==
  IF Exceeds(v, CapOf(d.size)) THEN Reject
  ELSE Emit(AluOpcode(d, acc8, acc, ext) \o LowBytes(v, CapOf(d.size)))

Alu(ops, rr8, rr, acc8, acc, ext, otherwise) ==
  IF Len(ops) # 2 THEN Reject
  ELSE CASE IsReg(ops[1]) /\ IsReg(ops[2]) ->
              AluRegReg(ops[1].value, ops[2].value, rr8, rr)
         [] IsReg(ops[1]) /\ IsImm(ops[2]) ->
              AluRegImm(ops[1].value, ops[2].value, acc8, acc, ext)
         [] OTHER -> otherwise

ADD(ops) == Alu(ops, \h00, \h01, \h04, \h05, \hC0, Reject)
SUB(ops) == Alu(ops, \h28, \h29, \h2C, \h2D, \hE8, Reject)
CMP(ops) == Alu(ops, \h38, \h39, \h3C, \h3D, \hF8, Emit(<< >>))

(* DEC, DIV and MUL of a register; INC of a register or of memory.         *)
Unary(ops, op8, op, ext) ==
  IF Len(ops) # 1 \/ ~IsReg(ops[1]) THEN Reject
  ELSE LET r == ops[1].value
       IN  Emit(Sized(r.size, op8, op) \o << (ext + r.code) % 256 >>)

DEC(ops) == Unary(ops, \hFE, \hFF, \hC8)
MUL(ops) == Unary(ops, \hF6, \hF7, \hE0)
DIV(ops) == Unary(ops, \hF6, \hF7, \hF0)

INC(ops) ==
  IF Len(ops) = 1 /\ IsMem(ops[1])
    THEN LET r == ops[1].value
         IN  Emit(Sized(r.size, \hFE, \hFF)
                    \o WithDisplacement(r.code, ops[1].displacement))
    ELSE Unary(ops, \hFE, \hFF, \hC0)

-----------------------------------------------------------------------------
(* Branches.  An immediate is copied as a rel32, a label is a RELATIVE     *)
(* reference in the last four bytes of the instruction.                    *)
Branch(op, opcode) ==
  CASE IsImm(op) /\ Exceeds(op.value, 4) -> Reject
    [] IsImm(op) /\ ~Exceeds(op.value, 4) ->
         Emit(opcode \o LowBytes(op.value, 4))
    [] IsLabel(op) -> EmitRef(opcode, op.value, "RELATIVE", 4)
    [] OTHER -> Reject

FarBranch(ops, opcode, ext) ==
  IF Len(ops) # 1 THEN Reject
  ELSE IF ~IsReg(ops[1]) THEN Branch(ops[1], << opcode >>)
  ELSE IF ops[1].value.size = 1 THEN Reject
  ELSE Emit(Sized(ops[1].value.size, \hFF, \hFF)
              \o << (ext + ops[1].value.code) % 256 >>)

CALL(ops) == FarBranch(ops, \hE8, \hD0)
JMP(ops)  == FarBranch(ops, \hE9, \hE0)

Jcc(ops, cc) ==
  IF Len(ops) # 1 THEN Reject ELSE Branch(ops[1], << \h0F, cc >>)

JE(ops)  == Jcc(ops, \h84)
JNE(ops) == Jcc(ops, \h85)
JL(ops)  == Jcc(ops, \h8C)
JGE(ops) == Jcc(ops, \h8D)
JLE(ops) == Jcc(ops, \h8E)
JG(ops)  == Jcc(ops, \h8F)

RET(ops) ==
  CASE Len(ops) = 0 -> Emit(<< \hC3 >>)
    [] Len(ops) = 1 /\ IsImm(ops[1]) /\ ~Exceeds(ops[1].value, 2) ->
         Emit(<< \hC2 >> \o LowBytes(ops[1].value, 2))
    [] OTHER -> Reject

-----------------------------------------------------------------------------
(* Bug: DB has no case for two bytes.                                      *)
DataWidthWithoutTwo(width, v) ==
  IF width # 0 THEN width
  ELSE IF ~Exceeds(v, 1) THEN 1
  ELSE IF ~Exceeds(v, 4) THEN 4 ELSE 8

(* DB, DW, DDW and DQW append their operands one by one and throw at the   *)
(* first they do not take, keeping what they appended.  width is 0 for DB, *)
(* which takes the smallest of 1, 2, 4 and 8 bytes that holds the value.   *)
DataWidth(width, v) ==
  IF width # 0 THEN width
  ELSE IF ~Exceeds(v, 1) THEN 1
  ELSE IF ~Exceeds(v, 2) THEN 2
  ELSE IF ~Exceeds(v, 4) THEN 4 ELSE 8

Takes(width, op) ==
  \/ IsImm(op) /\ ~Exceeds(op.value, DataWidth(width, op.value))
  \/ op.type = "STRING" /\ width = 0

DataBytes(width, op) ==
  IF IsImm(op) THEN LowBytes(op.value, DataWidth(width, op.value))
               ELSE op.value

(* What operand k contributes: nothing once an operand was refused.        *)
Chunk(ops, width, k) ==
  IF k <= Len(ops) /\ \A j \in 1 .. k : Takes(width, ops[j])
    THEN DataBytes(width, ops[k]) ELSE << >>

Data(ops, width) ==
  LET bytes == Chunk(ops, width, 1) \o Chunk(ops, width, 2)
                 \o Chunk(ops, width, 3)
  IN  IF Len(ops) > 0 /\ \A k \in 1 .. Len(ops) : Takes(width, ops[k])
        THEN Emit(bytes) ELSE Throw(bytes)

DB(ops)  == Data(ops, 0)
DW(ops)  == Data(ops, 2)
DDW(ops) == Data(ops, 4)
DQW(ops) == Data(ops, 8)

-----------------------------------------------------------------------------
(* MOV and LEA refuse R8..R15; the other mnemonics do not look.            *)
Extended(op) == op.type = "REGISTER" /\ op.value.code >= 8

MovRegReg(d, s) ==
  IF d.size # s.size THEN Reject
  ELSE Emit(Sized(d.size, \h88, \h89)
              \o << (\hC0 + TwoRegisterMagic(d, s)) % 256 >>)

MovRegImm(d, v) ==
  IF Exceeds(v, d.size) THEN Reject
  ELSE Emit(Sized(d.size, \hB0 + d.code, \hB8 + d.code) \o LowBytes(v, d.size))

AddressPrefix(r) == IF r.size = 4 THEN << \h67 >> ELSE << >>

MovMemImm(d, v) ==
  CASE Exceeds(v, 4) \/ d.size <= 2 -> Reject
    [] ~Exceeds(v, 1) /\ d.size > 2 ->
         Emit(AddressPrefix(d) \o << \hC6, d.code, v[1] >>)
    [] Exceeds(v, 1) /\ ~Exceeds(v, 2) /\ d.size > 2 ->
         Emit(<< \h66 >> \o AddressPrefix(d) \o << \hC7, d.code, v[1], v[2] >>)
    [] OTHER ->
         Emit(AddressPrefix(d) \o << \hC7, d.code >> \o LowBytes(v, 4))

(* One of the operands is an address.  The mod-r/m byte is built the same  *)
(* way for both directions and from the first operand's displacement.      *)
MovPrefix(s) ==
  CASE s.size = 2 -> << \h66 >>
    [] s.size = 4 -> << \h67 >>
    [] s.size = 8 -> << \h48 >>
    [] OTHER      -> << >>

MovOpcode(toMemory, s) ==
  IF toMemory THEN IF s.size = 1 THEN \h88 ELSE \h89
              ELSE IF s.size = 1 THEN \h8A ELSE \h8B

MovRegMem(op1, op2) ==
  LET d == op1.value
      s == op2.value
  IN  IF d.size <= 2 THEN Reject
      ELSE Emit(MovPrefix(s) \o << MovOpcode(op1.indirect, s) >>
                  \o WithDisplacement(TwoRegisterMagic(s, d),
                                      op1.displacement))

MovRegLabel(d, name) ==
  IF d.size # 8 THEN Reject
  ELSE EmitRef(<< \h48, \h8B, 8 * d.code + 5 >>, name, "ABSOLUTE", 8)

MOV(ops) ==
  IF Len(ops) # 2 \/ \E k \in 1 .. Len(ops) : Extended(ops[k]) THEN Reject
  ELSE LET op1 == ops[1]
           op2 == ops[2]
       IN  CASE IsReg(op1) /\ IsReg(op2) -> MovRegReg(op1.value, op2.value)
             [] IsReg(op1) /\ IsImm(op2) -> MovRegImm(op1.value, op2.value)
             [] IsMem(op1) /\ IsImm(op2) -> MovMemImm(op1.value, op2.value)
             [] IsReg(op1) /\ IsMem(op2) -> MovRegMem(op1, op2)
             [] IsMem(op1) /\ IsReg(op2) -> MovRegMem(op1, op2)
             [] IsReg(op1) /\ IsLabel(op2) /\ ~op2.indirect ->
                  MovRegLabel(op1.value, op2.value)
             [] OTHER -> Reject

LeaPrefix(d) == IF d.size = 4 THEN << \h67, \h8D >> ELSE << \h48, \h8D >>

LEA(ops) ==
  IF \/ Len(ops) # 2
     \/ \E k \in 1 .. Len(ops) : \/ Extended(ops[k])
                                 \/ /\ ops[k].type = "REGISTER"
                                    /\ ops[k].value.size <= 2
  THEN Reject
  ELSE LET op1 == ops[1]
           op2 == ops[2]
       IN  CASE IsReg(op1) /\ IsMem(op2) /\ op1.value.size = op2.value.size ->
                  Emit(LeaPrefix(op1.value)
                         \o WithDisplacement(
                              TwoRegisterMagic(op2.value, op1.value),
                              op2.displacement))
             [] IsReg(op1) /\ IsLabel(op2) /\ op2.indirect ->
                  EmitRef(LeaPrefix(op1.value) \o << 5 + 8 * op1.value.code >>,
                          op2.value, "RELATIVE", 4)
             [] OTHER -> Reject

-----------------------------------------------------------------------------
Bare(ops, bytes) == IF Len(ops) # 0 THEN Reject ELSE Emit(bytes)

HLT(ops)     == Bare(ops, << \hF4 >>)
SYSCALL(ops) == Bare(ops, << \h0F, \h05 >>)

INT(ops) ==
  IF Len(ops) = 1 /\ IsImm(ops[1]) /\ ~Exceeds(ops[1].value, 1)
    THEN Emit(<< \hCD, ops[1].value[1] >>) ELSE Reject

(* The chain of check_mnemonic in lex_source; NOP looks at no operand.     *)
KnownMnemonics ==
  {"NOP", "HLT", "CALL", "JMP", "RET", "JE", "JG", "JGE", "JL", "JLE", "JNE",
   "DB", "DDW", "DQW", "DW", "ADD", "DEC", "DIV", "INC", "MUL", "SUB", "LEA",
   "MOV", "CMP", "INT", "SYSCALL"}

Encode(m, ops) ==
  CASE m = "NOP"  -> Emit(<< \h90 >>)
    [] m = "HLT"  -> HLT(ops)
    [] m = "CALL" -> CALL(ops)
    [] m = "JMP"  -> JMP(ops)
    [] m = "RET"  -> RET(ops)
    [] m = "JE"   -> JE(ops)
    [] m = "JG"   -> JG(ops)
    [] m = "JGE"  -> JGE(ops)
    [] m = "JL"   -> JL(ops)
    [] m = "JLE"  -> JLE(ops)
    [] m = "JNE"  -> JNE(ops)
    [] m = "DB"   -> DB(ops)
    [] m = "DDW"  -> DDW(ops)
    [] m = "DQW"  -> DQW(ops)
    [] m = "DW"   -> DW(ops)
    [] m = "ADD"  -> ADD(ops)
    [] m = "DEC"  -> DEC(ops)
    [] m = "DIV"  -> DIV(ops)
    [] m = "INC"  -> INC(ops)
    [] m = "MUL"  -> MUL(ops)
    [] m = "SUB"  -> SUB(ops)
    [] m = "LEA"  -> LEA(ops)
    [] m = "MOV"  -> MOV(ops)
    [] m = "CMP"  -> CMP(ops)
    [] m = "INT"  -> INT(ops)
    [] m = "SYSCALL" -> SYSCALL(ops)
=============================================================================
