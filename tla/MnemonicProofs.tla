--------------------------- MODULE MnemonicProofs ---------------------------
(***************************************************************************)
(* What every mnemonic function appends, for every line that it can be     *)
(* given: bytes, and a placeholder of zeros that is exactly as wide as the *)
(* address that the linker will copy over it.                              *)
(***************************************************************************)
EXTENDS Mnemonics, TLAPS

Bytes == Seq(Byte)

(* A field is all of the tail and all zero; without a field there is no    *)
(* tail.                                                                   *)
WellFormed(e) ==
  /\ e \in Emission
  /\ e.ref = NoRef => e.tail = << >>
  /\ e.ref # NoRef => /\ e.ref.type \in ReplacementType
                      /\ e.ref.name \in STRING
                      /\ e.tail = Zeros(PatchWidth(e.ref.type))

-----------------------------------------------------------------------------
(* Sequences of bytes.                                                     *)
LEMMA EmptyBytes == << >> \in Bytes
  BY SMT DEF Bytes

LEMMA OneByte == \A x \in Byte : << x >> \in Bytes
  BY SMT DEF Bytes

LEMMA TwoBytes == \A x, y \in Byte : << x, y >> \in Bytes
  BY SMT DEF Bytes

LEMMA ThreeBytes == \A x, y, z \in Byte : << x, y, z >> \in Bytes
  BY SMT DEF Bytes

LEMMA FourBytes == \A w, x, y, z \in Byte : << w, x, y, z >> \in Bytes
  BY SMT DEF Bytes

LEMMA CatBytes == \A s, t \in Bytes : s \o t \in Bytes
  BY SMT DEF Bytes

LEMMA ByteRange == \A x \in Int : (0 <= x /\ x <= 255) => x \in Byte
  BY SMT DEF Byte

LEMMA ByteOf == \A x \in Int : x % 256 \in Byte
  BY SMT DEF Byte

(* The memory image of an int32_t.                                         *)
LEMMA LE4Bytes == \A v \in Int : LE4(v) \in Bytes
<1>1. TAKE v \in Int
<1>2. /\ v \div 256 \in Int
      /\ v \div 65536 \in Int
      /\ v \div 16777216 \in Int
  BY SMT
<1> QED  BY SMT, <1>2, ByteOf, FourBytes DEF LE4

LEMMA ZerosBytes ==
  ASSUME NEW n \in Nat
  PROVE  /\ Zeros(n) \in Bytes
         /\ Len(Zeros(n)) = n
         /\ \A k \in 1 .. n : Zeros(n)[k] = 0
<1>1. 0 \in Byte  BY SMT DEF Byte
<1> QED  BY SMT, <1>1 DEF Zeros, Bytes

LEMMA LowBytesBytes ==
  ASSUME NEW v \in Immediate, NEW n \in 1 .. 8
  PROVE  LowBytes(v, n) \in Bytes
  BY SMT DEF LowBytes, Immediate, Bytes

-----------------------------------------------------------------------------
(* Emissions.                                                              *)
LEMMA NoRefIsNone == NoRef.type \notin ReplacementType
  BY SMT DEF NoRef, ReplacementType

LEMMA EmitWellFormed == \A b \in Bytes : WellFormed(Emit(b))
  BY SMT, EmptyBytes DEF WellFormed, Emit, Emission, Reference, Bytes

LEMMA ThrowWellFormed == \A b \in Bytes : WellFormed(Throw(b))
  BY SMT, EmptyBytes DEF WellFormed, Throw, Emission, Reference, Bytes

LEMMA RejectWellFormed == WellFormed(Reject)
  BY SMT, EmptyBytes, ThrowWellFormed DEF Reject

LEMMA EmitRefWellFormed ==
  ASSUME NEW b \in Bytes, NEW name \in STRING, NEW type \in ReplacementType
  PROVE  WellFormed(EmitRef(b, name, type, PatchWidth(type)))
<1> DEFINE e == EmitRef(b, name, type, PatchWidth(type))
<1>1. PatchWidth(type) \in Nat  BY SMT DEF PatchWidth
<1>2. Zeros(PatchWidth(type)) \in Bytes  BY SMT, <1>1, ZerosBytes
<1>3. e.ref = [name |-> name, type |-> type] /\ e.tail = Zeros(PatchWidth(type))
  BY SMT DEF EmitRef
<1>4. e.ref # NoRef  BY SMT, <1>3, NoRefIsNone
<1>5. e \in Emission  BY SMT, <1>2 DEF EmitRef, Emission, Reference, Bytes
<1> QED  BY SMT, <1>3, <1>4, <1>5 DEF WellFormed

-----------------------------------------------------------------------------
(* Operands.                                                               *)
LEMMA OperandTypes ==
  ASSUME NEW op \in Operand
  PROVE  /\ op.type = "REGISTER" => op \in RegisterOperand
         /\ op.type = "IMMEDIATE" => op \in ImmediateOperand
         /\ op.type = "STRING" => op \in StringOperand
         /\ op.type = "LABEL" => op \in LabelOperand
<1>1. CASE op \in RegisterOperand  BY SMT, <1>1 DEF RegisterOperand
<1>2. CASE op \in ImmediateOperand  BY SMT, <1>2 DEF ImmediateOperand
<1>3. CASE op \in StringOperand  BY SMT, <1>3 DEF StringOperand
<1>4. CASE op \in LabelOperand  BY SMT, <1>4 DEF LabelOperand
<1> QED  BY SMT, <1>1, <1>2, <1>3, <1>4 DEF Operand

LEMMA RegisterValue ==
  ASSUME NEW op \in Operand, op.type = "REGISTER"
  PROVE  op.value \in Register /\ op.displacement \in Int
<1>1. op \in RegisterOperand  BY SMT, OperandTypes
<1>2. op.value \in Register /\ op.displacement \in Displacement
  BY SMT, <1>1 DEF RegisterOperand
<1>3. INT32_MAX \in Int  BY SMT DEF INT32_MAX
<1>4. \A d \in Displacement : d \in Int  BY SMT, <1>3 DEF Displacement
<1> QED  BY <1>2, <1>4

LEMMA ImmediateValue ==
  ASSUME NEW op \in Operand, op.type = "IMMEDIATE"
  PROVE  op.value \in Immediate
  BY SMT, OperandTypes DEF ImmediateOperand

LEMMA StringValue ==
  ASSUME NEW op \in Operand, op.type = "STRING"
  PROVE  op.value \in Bytes
  BY SMT, OperandTypes DEF StringOperand, Bytes

LEMMA LabelValue ==
  ASSUME NEW op \in Operand, op.type = "LABEL"
  PROVE  op.value \in STRING
  BY SMT, OperandTypes DEF LabelOperand

LEMMA RegisterParts ==
  ASSUME NEW r \in Register
  PROVE  /\ r.code \in Int /\ 0 <= r.code /\ r.code <= 15
         /\ r.size \in {1, 2, 4, 8}
  BY SMT DEF Register

LEMMA SizedBytes ==
  ASSUME NEW size, NEW op8 \in Byte, NEW op \in Byte
  PROVE  Sized(size, op8, op) \in Bytes
<1>1. \h66 \in Byte /\ \h48 \in Byte  BY SMT DEF Byte
<1>2. CASE size = 1  BY SMT, <1>2, OneByte DEF Sized
<1>3. CASE size = 2  BY SMT, <1>1, <1>3, TwoBytes DEF Sized
<1>4. CASE size = 4  BY SMT, <1>4, OneByte DEF Sized
<1>5. CASE size \notin {1, 2, 4}
  BY SMT, <1>1, <1>5, TwoBytes DEF Sized
<1> QED  BY SMT, <1>2, <1>3, <1>4, <1>5

LEMMA MagicByte ==
  ASSUME NEW d \in Register, NEW r \in Register
  PROVE  TwoRegisterMagic(d, r) \in Byte
<1>1. 8 * r.code + d.code \in Int  BY SMT, RegisterParts
<1> QED  BY SMT, <1>1, ByteOf DEF TwoRegisterMagic

LEMMA ByteInt == \A x \in Byte : x \in Int
  BY SMT DEF Byte

LEMMA WithDisplacementBytes ==
  ASSUME NEW modrm \in Byte, NEW disp \in Int
  PROVE  WithDisplacement(modrm, disp) \in Bytes
<1>1. (modrm + \h80) % 256 \in Byte
  <2>1. modrm + \h80 \in Int  BY SMT, ByteInt
  <2> QED  BY SMT, <2>1, ByteOf
<1>2. LE4(disp) \in Bytes  BY LE4Bytes
<1>3. << (modrm + \h80) % 256 >> \in Bytes  BY <1>1, OneByte
<1>4. << modrm >> \in Bytes  BY OneByte
<1>5. << (modrm + \h80) % 256 >> \o LE4(disp) \in Bytes
  BY <1>2, <1>3, CatBytes
<1> QED  BY SMT, <1>4, <1>5 DEF WithDisplacement

LEMMA RegisterByte ==
  ASSUME NEW r \in Register, NEW base \in Byte
  PROVE  << (base + r.code) % 256 >> \in Bytes
<1>1. base + r.code \in Int  BY SMT, RegisterParts, ByteInt
<1>2. (base + r.code) % 256 \in Byte  BY SMT, <1>1, ByteOf
<1> QED  BY <1>2, OneByte

LEMMA MagicBytes ==
  ASSUME NEW d \in Register, NEW r \in Register
  PROVE  << (\hC0 + TwoRegisterMagic(d, r)) % 256 >> \in Bytes
<1>1. \hC0 + TwoRegisterMagic(d, r) \in Int  BY SMT, MagicByte, ByteInt
<1>2. (\hC0 + TwoRegisterMagic(d, r)) % 256 \in Byte  BY SMT, <1>1, ByteOf
<1> QED  BY <1>2, OneByte

-----------------------------------------------------------------------------
(* ADD, SUB, CMP, INC, DEC, MUL, DIV.                                      *)
LEMMA AluWellFormed ==
  ASSUME NEW ops \in Operands,
         NEW rr8 \in Byte, NEW rr \in Byte, NEW acc8 \in Byte,
         NEW acc \in Byte, NEW ext \in Byte,
         NEW otherwise, WellFormed(otherwise)
  PROVE  WellFormed(Alu(ops, rr8, rr, acc8, acc, ext, otherwise))
<1> USE RejectWellFormed
<1>1. ASSUME NEW d \in Register, NEW r \in Register
      PROVE  WellFormed(AluRegReg(d, r, rr8, rr))
  <2>1. Sized(d.size, rr8, rr) \in Bytes  BY SizedBytes
  <2>2. Sized(d.size, rr8, rr)
          \o << (\hC0 + TwoRegisterMagic(d, r)) % 256 >> \in Bytes
    BY <2>1, MagicBytes, CatBytes
  <2> QED  BY <2>2, EmitWellFormed DEF AluRegReg
<1>2. ASSUME NEW d \in Register, NEW v \in Immediate
      PROVE  WellFormed(AluRegImm(d, v, acc8, acc, ext))
  <2>1. CapOf(d.size) \in 1 .. 8  BY SMT, RegisterParts DEF CapOf
  <2>2. \h80 \in Byte /\ \h81 \in Byte  BY SMT DEF Byte
  <2>3. Sized(d.size, \h80, \h81) \in Bytes  BY <2>2, SizedBytes
  <2>4. Sized(d.size, \h80, \h81) \o << (ext + d.code) % 256 >> \in Bytes
    BY <2>3, RegisterByte, CatBytes
  <2>5. Sized(d.size, acc8, acc) \in Bytes  BY SizedBytes
  <2>6. AluOpcode(d, acc8, acc, ext) \in Bytes  BY <2>4, <2>5 DEF AluOpcode
  <2>7. LowBytes(v, CapOf(d.size)) \in Bytes  BY <2>1, LowBytesBytes
  <2>8. AluOpcode(d, acc8, acc, ext) \o LowBytes(v, CapOf(d.size)) \in Bytes
    BY <2>6, <2>7, CatBytes
  <2> QED  BY <2>8, EmitWellFormed DEF AluRegImm
<1>3. CASE Len(ops) # 2  BY <1>3 DEF Alu
<1>4. CASE Len(ops) = 2
  <2>1. ops[1] \in Operand /\ ops[2] \in Operand
    BY SMT, <1>4 DEF Operands
  <2>2. CASE IsReg(ops[1]) /\ IsReg(ops[2])
    <3>1. ops[1].value \in Register /\ ops[2].value \in Register
      BY <2>1, <2>2, RegisterValue DEF IsReg
    <3>2. Alu(ops, rr8, rr, acc8, acc, ext, otherwise)
            = AluRegReg(ops[1].value, ops[2].value, rr8, rr)
      BY <1>4, <2>2 DEF Alu, IsReg, IsImm
    <3> QED  BY <1>1, <3>1, <3>2
  <2>3. CASE IsReg(ops[1]) /\ IsImm(ops[2])
    <3>1. ops[1].value \in Register /\ ops[2].value \in Immediate
      BY <2>1, <2>3, RegisterValue, ImmediateValue DEF IsReg, IsImm
    <3>2. Alu(ops, rr8, rr, acc8, acc, ext, otherwise)
            = AluRegImm(ops[1].value, ops[2].value, acc8, acc, ext)
      <4>1. ~IsReg(ops[2])  BY SMT, <2>3 DEF IsReg, IsImm
      <4> QED  BY <1>4, <2>3, <4>1 DEF Alu
    <3> QED  BY <1>2, <3>1, <3>2
  <2>4. CASE /\ ~(IsReg(ops[1]) /\ IsReg(ops[2]))
             /\ ~(IsReg(ops[1]) /\ IsImm(ops[2]))
    <3>1. Alu(ops, rr8, rr, acc8, acc, ext, otherwise) = otherwise
      BY <1>4, <2>4 DEF Alu
    <3> QED  BY <3>1
  <2> QED  BY <2>2, <2>3, <2>4
<1> QED  BY <1>3, <1>4

LEMMA UnaryWellFormed ==
  ASSUME NEW ops \in Operands,
         NEW op8 \in Byte, NEW op \in Byte, NEW ext \in Byte
  PROVE  WellFormed(Unary(ops, op8, op, ext))
<1>1. CASE Len(ops) # 1 \/ ~IsReg(ops[1])
  BY <1>1, RejectWellFormed DEF Unary
<1>2. CASE ~(Len(ops) # 1 \/ ~IsReg(ops[1]))
  <2> DEFINE r == ops[1].value
  <2>1. ops[1] \in Operand  BY SMT, <1>2 DEF Operands
  <2>2. r \in Register  BY <1>2, <2>1, RegisterValue DEF IsReg
  <2>3. Sized(r.size, op8, op) \in Bytes  BY SizedBytes
  <2>4. Sized(r.size, op8, op) \o << (ext + r.code) % 256 >> \in Bytes
    BY <2>2, <2>3, RegisterByte, CatBytes
  <2> QED  BY <1>2, <2>4, EmitWellFormed DEF Unary
<1> QED  BY <1>1, <1>2

LEMMA INCWellFormed ==
  ASSUME NEW ops \in Operands
  PROVE  WellFormed(INC(ops))
<1>1. \hFE \in Byte /\ \hFF \in Byte /\ \hC0 \in Byte  BY SMT DEF Byte
<1>2. CASE ~(Len(ops) = 1 /\ IsMem(ops[1]))
  BY <1>1, <1>2, UnaryWellFormed DEF INC
<1>3. CASE Len(ops) = 1 /\ IsMem(ops[1])
  <2> DEFINE r == ops[1].value
             disp == ops[1].displacement
  <2>1. ops[1] \in Operand  BY SMT, <1>3 DEF Operands
  <2>2. r \in Register /\ disp \in Int
    BY <1>3, <2>1, RegisterValue DEF IsMem
  <2>3. Sized(r.size, \hFE, \hFF) \in Bytes  BY <1>1, SizedBytes
  <2>4. r.code \in Byte  BY SMT, <2>2, RegisterParts, ByteRange
  <2>5. WithDisplacement(r.code, disp) \in Bytes
    BY <2>2, <2>4, WithDisplacementBytes
  <2>6. Sized(r.size, \hFE, \hFF) \o WithDisplacement(r.code, disp) \in Bytes
    BY <2>3, <2>5, CatBytes
  <2> QED  BY <1>3, <2>6, EmitWellFormed DEF INC
<1> QED  BY <1>2, <1>3

-----------------------------------------------------------------------------
(* Branches and returns.                                                   *)
LEMMA BranchWellFormed ==
  ASSUME NEW op \in Operand, NEW opcode \in Bytes
  PROVE  WellFormed(Branch(op, opcode))
<1>1. CASE IsImm(op) /\ Exceeds(op.value, 4)
  BY <1>1, RejectWellFormed DEF Branch, IsImm, IsLabel
<1>2. CASE IsImm(op) /\ ~Exceeds(op.value, 4)
  <2>1. op.value \in Immediate  BY <1>2, ImmediateValue DEF IsImm
  <2>2. 4 \in 1 .. 8  BY SMT
  <2>3. LowBytes(op.value, 4) \in Bytes  BY <2>1, <2>2, LowBytesBytes
  <2>4. opcode \o LowBytes(op.value, 4) \in Bytes  BY <2>3, CatBytes
  <2>5. ~IsLabel(op)  BY SMT, <1>2 DEF IsImm, IsLabel
  <2> QED  BY <1>2, <2>4, <2>5, EmitWellFormed DEF Branch
<1>3. CASE IsLabel(op)
  <2>1. op.value \in STRING  BY <1>3, LabelValue DEF IsLabel
  <2>2. "RELATIVE" \in ReplacementType  BY DEF ReplacementType
  <2>3. PatchWidth("RELATIVE") = 4  BY DEF PatchWidth
  <2>4. WellFormed(EmitRef(opcode, op.value, "RELATIVE", 4))
    BY <2>1, <2>2, <2>3, EmitRefWellFormed
  <2>5. ~IsImm(op)  BY SMT, <1>3 DEF IsImm, IsLabel
  <2> QED  BY <1>3, <2>4, <2>5 DEF Branch
<1>4. CASE ~IsImm(op) /\ ~IsLabel(op)
  BY <1>4, RejectWellFormed DEF Branch
<1> QED  BY <1>1, <1>2, <1>3, <1>4

LEMMA FarBranchWellFormed ==
  ASSUME NEW ops \in Operands, NEW opcode \in Byte, NEW ext \in Byte
  PROVE  WellFormed(FarBranch(ops, opcode, ext))
<1> DEFINE r == ops[1].value
<1>1. CASE Len(ops) # 1  BY <1>1, RejectWellFormed DEF FarBranch
<1>2. CASE Len(ops) = 1
  <2>1. ops[1] \in Operand  BY SMT, <1>2 DEF Operands
  <2>2. CASE ~IsReg(ops[1])
    BY <1>2, <2>1, <2>2, OneByte, BranchWellFormed DEF FarBranch
  <2>3. CASE IsReg(ops[1]) /\ r.size = 1
    BY <1>2, <2>3, RejectWellFormed DEF FarBranch
  <2>4. CASE IsReg(ops[1]) /\ r.size # 1
    <3>1. r \in Register  BY <2>1, <2>4, RegisterValue DEF IsReg
    <3>2. \hFF \in Byte  BY SMT DEF Byte
    <3>3. Sized(r.size, \hFF, \hFF) \in Bytes  BY <3>2, SizedBytes
    <3>4. Sized(r.size, \hFF, \hFF) \o << (ext + r.code) % 256 >> \in Bytes
      BY <3>1, <3>3, RegisterByte, CatBytes
    <3> QED  BY <1>2, <2>4, <3>4, EmitWellFormed DEF FarBranch
  <2> QED  BY <2>2, <2>3, <2>4
<1> QED  BY <1>1, <1>2

LEMMA JccWellFormed ==
  ASSUME NEW ops \in Operands, NEW cc \in Byte
  PROVE  WellFormed(Jcc(ops, cc))
<1>1. CASE Len(ops) # 1  BY <1>1, RejectWellFormed DEF Jcc
<1>2. CASE Len(ops) = 1
  <2>1. ops[1] \in Operand  BY SMT, <1>2 DEF Operands
  <2>2. \h0F \in Byte  BY SMT DEF Byte
  <2>3. << \h0F, cc >> \in Bytes  BY <2>2, TwoBytes
  <2> QED  BY <1>2, <2>1, <2>3, BranchWellFormed DEF Jcc
<1> QED  BY <1>1, <1>2

LEMMA RETWellFormed ==
  ASSUME NEW ops \in Operands
  PROVE  WellFormed(RET(ops))
<1>0. \hC2 \in Byte /\ \hC3 \in Byte /\ 2 \in 1 .. 8  BY SMT DEF Byte
<1>1. CASE Len(ops) = 0
  <2>1. << \hC3 >> \in Bytes  BY <1>0, OneByte
  <2>2. Len(ops) # 1  BY SMT, <1>1
  <2> QED  BY <1>1, <2>1, <2>2, EmitWellFormed DEF RET
<1>2. CASE Len(ops) = 1 /\ IsImm(ops[1]) /\ ~Exceeds(ops[1].value, 2)
  <2>1. ops[1] \in Operand  BY SMT, <1>2 DEF Operands
  <2>2. ops[1].value \in Immediate  BY <1>2, <2>1, ImmediateValue DEF IsImm
  <2>3. LowBytes(ops[1].value, 2) \in Bytes  BY <1>0, <2>2, LowBytesBytes
  <2>4. << \hC2 >> \o LowBytes(ops[1].value, 2) \in Bytes
    BY <1>0, <2>3, OneByte, CatBytes
  <2>5. Len(ops) # 0  BY SMT, <1>2
  <2> QED  BY <1>2, <2>4, <2>5, EmitWellFormed DEF RET
<1>3. CASE /\ Len(ops) # 0
           /\ ~(Len(ops) = 1 /\ IsImm(ops[1]) /\ ~Exceeds(ops[1].value, 2))
  BY <1>3, RejectWellFormed DEF RET
<1> QED  BY <1>1, <1>2, <1>3

-----------------------------------------------------------------------------
(* The data mnemonics and the mnemonics without references.                *)
LEMMA ChunkBytes ==
  ASSUME NEW ops \in Operands, NEW width \in {0, 2, 4, 8}, NEW k \in 1 .. 3
  PROVE  Chunk(ops, width, k) \in Bytes
<1>1. CASE ~(k <= Len(ops) /\ \A j \in 1 .. k : Takes(width, ops[j]))
  BY <1>1, EmptyBytes DEF Chunk
<1>2. CASE k <= Len(ops) /\ \A j \in 1 .. k : Takes(width, ops[j])
  <2>1. ops[k] \in Operand  BY SMT, <1>2 DEF Operands
  <2>2. Takes(width, ops[k])  BY SMT, <1>2
  <2>3. CASE IsImm(ops[k])
    <3>1. ops[k].value \in Immediate  BY <2>1, <2>3, ImmediateValue DEF IsImm
    <3>2. DataWidth(width, ops[k].value) \in 1 .. 8
      <4>1. CASE width # 0  BY SMT, <4>1 DEF DataWidth
      <4>2. CASE width = 0  BY SMT, <4>2 DEF DataWidth
      <4> QED  BY <4>1, <4>2
    <3>3. LowBytes(ops[k].value, DataWidth(width, ops[k].value)) \in Bytes
      BY <3>1, <3>2, LowBytesBytes
    <3> QED  BY <1>2, <2>3, <3>3 DEF Chunk, DataBytes
  <2>4. CASE ~IsImm(ops[k])
    <3>1. ops[k].type = "STRING"  BY <2>2, <2>4 DEF Takes
    <3>2. ops[k].value \in Bytes  BY <2>1, <3>1, StringValue
    <3> QED  BY <1>2, <2>4, <3>2 DEF Chunk, DataBytes
  <2> QED  BY <2>3, <2>4
<1> QED  BY <1>1, <1>2

LEMMA DataWellFormed ==
  ASSUME NEW ops \in Operands, NEW width \in {0, 2, 4, 8}
  PROVE  WellFormed(Data(ops, width))
<1> DEFINE bytes == Chunk(ops, width, 1) \o Chunk(ops, width, 2)
                      \o Chunk(ops, width, 3)
<1>1. 1 \in 1 .. 3 /\ 2 \in 1 .. 3 /\ 3 \in 1 .. 3  BY SMT
<1>2. bytes \in Bytes
  <2>1. Chunk(ops, width, 1) \in Bytes  BY <1>1, ChunkBytes
  <2>2. Chunk(ops, width, 2) \in Bytes  BY <1>1, ChunkBytes
  <2>3. Chunk(ops, width, 3) \in Bytes  BY <1>1, ChunkBytes
  <2>4. Chunk(ops, width, 1) \o Chunk(ops, width, 2) \in Bytes
    BY <2>1, <2>2, CatBytes
  <2> QED  BY <2>3, <2>4, CatBytes
<1> QED  BY <1>2, EmitWellFormed, ThrowWellFormed DEF Data

LEMMA BareWellFormed ==
  ASSUME NEW ops \in Operands, NEW bytes \in Bytes
  PROVE  WellFormed(Bare(ops, bytes))
  BY RejectWellFormed, EmitWellFormed DEF Bare

LEMMA INTWellFormed ==
  ASSUME NEW ops \in Operands
  PROVE  WellFormed(INT(ops))
<1>1. CASE ~(Len(ops) = 1 /\ IsImm(ops[1]) /\ ~Exceeds(ops[1].value, 1))
  BY <1>1, RejectWellFormed DEF INT
<1>2. CASE Len(ops) = 1 /\ IsImm(ops[1]) /\ ~Exceeds(ops[1].value, 1)
  <2>1. ops[1] \in Operand  BY SMT, <1>2 DEF Operands
  <2>2. ops[1].value \in Immediate  BY <1>2, <2>1, ImmediateValue DEF IsImm
  <2>3. ops[1].value[1] \in Byte  BY SMT, <2>2 DEF Immediate
  <2>4. \hCD \in Byte  BY SMT DEF Byte
  <2>5. << \hCD, ops[1].value[1] >> \in Bytes  BY <2>3, <2>4, TwoBytes
  <2> QED  BY <1>2, <2>5, EmitWellFormed DEF INT
<1> QED  BY <1>1, <1>2

-----------------------------------------------------------------------------
(* MOV and LEA.                                                            *)
LEMMA KindsDisjoint ==
  \A op : /\ IsReg(op) => ~IsMem(op) /\ ~IsImm(op) /\ ~IsLabel(op)
          /\ IsMem(op) => ~IsReg(op) /\ ~IsImm(op) /\ ~IsLabel(op)
          /\ IsImm(op) => ~IsReg(op) /\ ~IsMem(op) /\ ~IsLabel(op)
          /\ IsLabel(op) => ~IsReg(op) /\ ~IsMem(op) /\ ~IsImm(op)
  BY SMT DEF IsReg, IsMem, IsImm, IsLabel

LEMMA MovRegRegWellFormed ==
  ASSUME NEW d \in Register, NEW r \in Register
  PROVE  WellFormed(MovRegReg(d, r))
<1>1. \h88 \in Byte /\ \h89 \in Byte  BY SMT DEF Byte
<1>2. Sized(d.size, \h88, \h89) \in Bytes  BY <1>1, SizedBytes
<1>3. Sized(d.size, \h88, \h89)
        \o << (\hC0 + TwoRegisterMagic(d, r)) % 256 >> \in Bytes
  BY <1>2, MagicBytes, CatBytes
<1> QED  BY <1>3, EmitWellFormed, RejectWellFormed DEF MovRegReg

LEMMA MovRegImmWellFormed ==
  ASSUME NEW d \in Register, NEW v \in Immediate
  PROVE  WellFormed(MovRegImm(d, v))
<1>1. \hB0 + d.code \in Byte /\ \hB8 + d.code \in Byte
  BY SMT, RegisterParts, ByteRange
<1>2. Sized(d.size, \hB0 + d.code, \hB8 + d.code) \in Bytes
  BY <1>1, SizedBytes
<1>3. d.size \in 1 .. 8  BY SMT, RegisterParts
<1>4. LowBytes(v, d.size) \in Bytes  BY <1>3, LowBytesBytes
<1>5. Sized(d.size, \hB0 + d.code, \hB8 + d.code) \o LowBytes(v, d.size)
        \in Bytes
  BY <1>2, <1>4, CatBytes
<1> QED  BY <1>5, EmitWellFormed, RejectWellFormed DEF MovRegImm

LEMMA AddressPrefixBytes ==
  \A r \in Register : AddressPrefix(r) \in Bytes
<1>1. \h67 \in Byte  BY SMT DEF Byte
<1>2. << \h67 >> \in Bytes  BY <1>1, OneByte
<1> QED  BY <1>2, EmptyBytes DEF AddressPrefix

LEMMA MovMemImmWellFormed ==
  ASSUME NEW d \in Register, NEW v \in Immediate
  PROVE  WellFormed(MovMemImm(d, v))
<1>1. \hC6 \in Byte /\ \hC7 \in Byte /\ \h66 \in Byte  BY SMT DEF Byte
<1>2. d.code \in Byte  BY SMT, RegisterParts, ByteRange
<1>3. v[1] \in Byte /\ v[2] \in Byte  BY SMT DEF Immediate
<1>4. AddressPrefix(d) \in Bytes  BY AddressPrefixBytes
<1>5. 4 \in 1 .. 8  BY SMT
<1>6. WellFormed(Emit(AddressPrefix(d) \o << \hC6, d.code, v[1] >>))
  <2>1. << \hC6, d.code, v[1] >> \in Bytes  BY <1>1, <1>2, <1>3, ThreeBytes
  <2> QED  BY <1>4, <2>1, CatBytes, EmitWellFormed
<1>7. WellFormed(Emit(<< \h66 >> \o AddressPrefix(d)
                        \o << \hC7, d.code, v[1], v[2] >>))
  <2>1. << \hC7, d.code, v[1], v[2] >> \in Bytes
    BY <1>1, <1>2, <1>3, FourBytes
  <2>2. << \h66 >> \in Bytes  BY <1>1, OneByte
  <2>3. << \h66 >> \o AddressPrefix(d) \in Bytes  BY <1>4, <2>2, CatBytes
  <2> QED  BY <2>1, <2>3, CatBytes, EmitWellFormed
<1>8. WellFormed(Emit(AddressPrefix(d) \o << \hC7, d.code >> \o LowBytes(v, 4)))
  <2>1. << \hC7, d.code >> \in Bytes  BY <1>1, <1>2, TwoBytes
  <2>2. AddressPrefix(d) \o << \hC7, d.code >> \in Bytes
    BY <1>4, <2>1, CatBytes
  <2>3. LowBytes(v, 4) \in Bytes  BY <1>5, LowBytesBytes
  <2> QED  BY <2>2, <2>3, CatBytes, EmitWellFormed
<1> QED  BY <1>6, <1>7, <1>8, RejectWellFormed DEF MovMemImm

LEMMA MovRegMemWellFormed ==
  ASSUME NEW op1 \in Operand, NEW op2 \in Operand,
         op1.type = "REGISTER", op2.type = "REGISTER"
  PROVE  WellFormed(MovRegMem(op1, op2))
<1> DEFINE d == op1.value
           r == op2.value
           disp == op1.displacement
           magic == TwoRegisterMagic(r, d)
<1>1. d \in Register /\ r \in Register /\ disp \in Int  BY RegisterValue
<1>2. /\ \h66 \in Byte /\ \h67 \in Byte /\ \h48 \in Byte
      /\ \h88 \in Byte /\ \h89 \in Byte /\ \h8A \in Byte /\ \h8B \in Byte
  BY SMT DEF Byte
<1>3. MovPrefix(r) \in Bytes  BY <1>2, OneByte, EmptyBytes DEF MovPrefix
<1>4. MovOpcode(op1.indirect, r) \in Byte  BY <1>2 DEF MovOpcode
<1>5. << MovOpcode(op1.indirect, r) >> \in Bytes  BY <1>4, OneByte
<1>6. magic \in Byte  BY <1>1, MagicByte
<1>7. WithDisplacement(magic, disp) \in Bytes
  BY <1>1, <1>6, WithDisplacementBytes
<1>8. MovPrefix(r) \o << MovOpcode(op1.indirect, r) >> \in Bytes
  BY <1>3, <1>5, CatBytes
<1>9. MovPrefix(r) \o << MovOpcode(op1.indirect, r) >>
        \o WithDisplacement(magic, disp) \in Bytes
  BY <1>7, <1>8, CatBytes
<1> QED  BY <1>9, EmitWellFormed, RejectWellFormed DEF MovRegMem

LEMMA MovRegLabelWellFormed ==
  ASSUME NEW d \in Register, NEW name \in STRING
  PROVE  WellFormed(MovRegLabel(d, name))
<1>1. \h48 \in Byte /\ \h8B \in Byte  BY SMT DEF Byte
<1>2. 8 * d.code + 5 \in Byte  BY SMT, RegisterParts, ByteRange
<1>3. << \h48, \h8B, 8 * d.code + 5 >> \in Bytes  BY <1>1, <1>2, ThreeBytes
<1>4. "ABSOLUTE" \in ReplacementType  BY DEF ReplacementType
<1>5. PatchWidth("ABSOLUTE") = 8  BY SMT DEF PatchWidth
<1>6. WellFormed(EmitRef(<< \h48, \h8B, 8 * d.code + 5 >>, name, "ABSOLUTE", 8))
  BY <1>3, <1>4, <1>5, EmitRefWellFormed
<1> QED  BY <1>6, RejectWellFormed DEF MovRegLabel

LEMMA MOVWellFormed ==
  ASSUME NEW ops \in Operands
  PROVE  WellFormed(MOV(ops))
<1> DEFINE op1 == ops[1]
           op2 == ops[2]
<1>1. CASE Len(ops) # 2 \/ \E k \in 1 .. Len(ops) : Extended(ops[k])
  BY <1>1, RejectWellFormed DEF MOV
<1>2. CASE ~(Len(ops) # 2 \/ \E k \in 1 .. Len(ops) : Extended(ops[k]))
  <2>0. op1 \in Operand /\ op2 \in Operand  BY SMT, <1>2 DEF Operands
  <2>1. CASE IsReg(op1) /\ IsReg(op2)
    <3>1. op1.value \in Register /\ op2.value \in Register
      BY <2>0, <2>1, RegisterValue DEF IsReg
    <3>2. MOV(ops) = MovRegReg(op1.value, op2.value)
      BY <1>2, <2>1, KindsDisjoint DEF MOV
    <3> QED  BY <3>1, <3>2, MovRegRegWellFormed
  <2>2. CASE IsReg(op1) /\ IsImm(op2)
    <3>1. op1.value \in Register /\ op2.value \in Immediate
      BY <2>0, <2>2, RegisterValue, ImmediateValue DEF IsReg, IsImm
    <3>2. MOV(ops) = MovRegImm(op1.value, op2.value)
      BY <1>2, <2>2, KindsDisjoint DEF MOV
    <3> QED  BY <3>1, <3>2, MovRegImmWellFormed
  <2>3. CASE IsMem(op1) /\ IsImm(op2)
    <3>1. op1.value \in Register /\ op2.value \in Immediate
      BY <2>0, <2>3, RegisterValue, ImmediateValue DEF IsMem, IsImm
    <3>2. MOV(ops) = MovMemImm(op1.value, op2.value)
      BY <1>2, <2>3, KindsDisjoint DEF MOV
    <3> QED  BY <3>1, <3>2, MovMemImmWellFormed
  <2>4. CASE \/ IsReg(op1) /\ IsMem(op2)
             \/ IsMem(op1) /\ IsReg(op2)
    <3>1. op1.type = "REGISTER" /\ op2.type = "REGISTER"
      BY <2>4 DEF IsReg, IsMem
    <3>2. MOV(ops) = MovRegMem(op1, op2)
      BY <1>2, <2>4, KindsDisjoint DEF MOV
    <3> QED  BY <2>0, <3>1, <3>2, MovRegMemWellFormed
  <2>5. CASE IsReg(op1) /\ IsLabel(op2) /\ ~op2.indirect
    <3>1. op1.value \in Register /\ op2.value \in STRING
      BY <2>0, <2>5, RegisterValue, LabelValue DEF IsReg, IsLabel
    <3>2. MOV(ops) = MovRegLabel(op1.value, op2.value)
      BY <1>2, <2>5, KindsDisjoint DEF MOV
    <3> QED  BY <3>1, <3>2, MovRegLabelWellFormed
  <2>6. CASE /\ ~(IsReg(op1) /\ IsReg(op2)) /\ ~(IsReg(op1) /\ IsImm(op2))
             /\ ~(IsMem(op1) /\ IsImm(op2)) /\ ~(IsReg(op1) /\ IsMem(op2))
             /\ ~(IsMem(op1) /\ IsReg(op2))
             /\ ~(IsReg(op1) /\ IsLabel(op2) /\ ~op2.indirect)
    BY <1>2, <2>6, RejectWellFormed DEF MOV
  <2> QED  BY <2>1, <2>2, <2>3, <2>4, <2>5, <2>6
<1> QED  BY <1>1, <1>2

LEMMA LEAWellFormed ==
  ASSUME NEW ops \in Operands
  PROVE  WellFormed(LEA(ops))
<1> DEFINE op1 == ops[1]
           op2 == ops[2]
           Refused == \/ Len(ops) # 2
                      \/ \E k \in 1 .. Len(ops) :
                           \/ Extended(ops[k])
                           \/ /\ ops[k].type = "REGISTER"
                              /\ ops[k].value.size <= 2
           Load  == IsReg(op1) /\ IsMem(op2) /\ op1.value.size = op2.value.size
           Label0 == IsReg(op1) /\ IsLabel(op2) /\ op2.indirect
<1>1. CASE Refused  BY <1>1, RejectWellFormed DEF LEA
<1>2. CASE ~Refused
  <2>0. op1 \in Operand /\ op2 \in Operand  BY SMT, <1>2 DEF Operands
  <2>1. \A r : LeaPrefix(r) \in Bytes
    <3>1. \h67 \in Byte /\ \h8D \in Byte /\ \h48 \in Byte  BY SMT DEF Byte
    <3> QED  BY <3>1, TwoBytes DEF LeaPrefix
  <2>2. CASE Load
    <3>1. op1.value \in Register /\ op2.value \in Register
            /\ op2.displacement \in Int
      BY <2>0, <2>2, RegisterValue DEF IsReg, IsMem
    <3>2. TwoRegisterMagic(op2.value, op1.value) \in Byte
      BY <3>1, MagicByte
    <3>3. WithDisplacement(TwoRegisterMagic(op2.value, op1.value),
                           op2.displacement) \in Bytes
      BY <3>1, <3>2, WithDisplacementBytes
    <3>4. WellFormed(Emit(LeaPrefix(op1.value)
                         \o WithDisplacement(
                              TwoRegisterMagic(op2.value, op1.value),
                              op2.displacement)))
      BY <2>1, <3>3, CatBytes, EmitWellFormed
    <3> QED  BY <1>2, <2>2, <3>4, KindsDisjoint DEF LEA
  <2>3. CASE Label0
    <3>1. op1.value \in Register /\ op2.value \in STRING
      BY <2>0, <2>3, RegisterValue, LabelValue DEF IsReg, IsLabel
    <3>2. 5 + 8 * op1.value.code \in Byte
      BY SMT, <3>1, RegisterParts, ByteRange
    <3>3. LeaPrefix(op1.value) \o << 5 + 8 * op1.value.code >> \in Bytes
      BY <2>1, <3>2, OneByte, CatBytes
    <3>4. "RELATIVE" \in ReplacementType  BY DEF ReplacementType
    <3>5. PatchWidth("RELATIVE") = 4  BY DEF PatchWidth
    <3>6. WellFormed(EmitRef(LeaPrefix(op1.value)
                               \o << 5 + 8 * op1.value.code >>,
                             op2.value, "RELATIVE", 4))
      BY <3>1, <3>3, <3>4, <3>5, EmitRefWellFormed
    <3> QED  BY <1>2, <2>3, <3>6, KindsDisjoint DEF LEA
  <2>4. CASE ~Load /\ ~Label0  BY <1>2, <2>4, RejectWellFormed DEF LEA
  <2> QED  BY <2>2, <2>3, <2>4
<1> QED  BY <1>1, <1>2

-----------------------------------------------------------------------------
(* Whatever line reaches the chain of check_mnemonic, the function it      *)
(* selects appends bytes, and when it records a label reference then the   *)
(* rest of the instruction is a zeroed field of the width that             *)
(* do_executable_replacements copies.                                      *)
THEOREM EncodeWellFormed ==
  ASSUME NEW m \in KnownMnemonics, NEW ops \in Operands
  PROVE  WellFormed(Encode(m, ops))
<1>1. /\ \h90 \in Byte /\ \hF4 \in Byte /\ \h0F \in Byte /\ \h05 \in Byte
      /\ \hE8 \in Byte /\ \hE9 \in Byte /\ \hD0 \in Byte /\ \hE0 \in Byte
      /\ \h84 \in Byte /\ \h85 \in Byte /\ \h8C \in Byte /\ \h8D \in Byte
      /\ \h8E \in Byte /\ \h8F \in Byte
      /\ \h00 \in Byte /\ \h01 \in Byte /\ \h04 \in Byte /\ \hC0 \in Byte
      /\ \h28 \in Byte /\ \h29 \in Byte /\ \h2C \in Byte /\ \h2D \in Byte
      /\ \h38 \in Byte /\ \h39 \in Byte /\ \h3C \in Byte /\ \h3D \in Byte
      /\ \hF8 \in Byte /\ \hFE \in Byte /\ \hFF \in Byte /\ \hC8 \in Byte
      /\ \hF6 \in Byte /\ \hF7 \in Byte /\ \hF0 \in Byte
  BY SMT DEF Byte
<1>2. WellFormed(Emit(<< \h90 >>))  BY <1>1, OneByte, EmitWellFormed
<1>3. WellFormed(HLT(ops)) /\ WellFormed(SYSCALL(ops))
  <2>1. << \hF4 >> \in Bytes  BY <1>1, OneByte
  <2>2. << \h0F, \h05 >> \in Bytes  BY <1>1, TwoBytes
  <2> QED  BY <2>1, <2>2, BareWellFormed DEF HLT, SYSCALL
<1>4. WellFormed(CALL(ops)) /\ WellFormed(JMP(ops))
  BY <1>1, FarBranchWellFormed DEF CALL, JMP
<1>5. /\ WellFormed(JE(ops)) /\ WellFormed(JNE(ops)) /\ WellFormed(JL(ops))
      /\ WellFormed(JLE(ops)) /\ WellFormed(JG(ops)) /\ WellFormed(JGE(ops))
  BY <1>1, JccWellFormed DEF JE, JNE, JL, JLE, JG, JGE
<1>6. /\ WellFormed(DB(ops)) /\ WellFormed(DW(ops))
      /\ WellFormed(DDW(ops)) /\ WellFormed(DQW(ops))
  <2>1. /\ 0 \in {0, 2, 4, 8} /\ 2 \in {0, 2, 4, 8}
        /\ 4 \in {0, 2, 4, 8} /\ 8 \in {0, 2, 4, 8}
    OBVIOUS
  <2> QED  BY <2>1, DataWellFormed DEF DB, DW, DDW, DQW
<1>7. WellFormed(ADD(ops)) /\ WellFormed(SUB(ops))
  <2>1. \h05 \in Byte /\ \hC0 \in Byte  BY <1>1
  <2> QED  BY <1>1, AluWellFormed, RejectWellFormed DEF ADD, SUB
<1>8. WellFormed(CMP(ops))
  <2>1. WellFormed(Emit(<< >>))  BY EmptyBytes, EmitWellFormed
  <2> QED  BY <1>1, <2>1, AluWellFormed DEF CMP
<1>9. WellFormed(DEC(ops)) /\ WellFormed(MUL(ops)) /\ WellFormed(DIV(ops))
  BY <1>1, UnaryWellFormed DEF DEC, MUL, DIV
<1> QED
  BY <1>2, <1>3, <1>4, <1>5, <1>6, <1>7, <1>8, <1>9, RETWellFormed,
     INCWellFormed, LEAWellFormed, MOVWellFormed, INTWellFormed
     DEF Encode, KnownMnemonics
=============================================================================
