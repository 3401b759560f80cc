-------------------------------- MODULE X86 --------------------------------
(***************************************************************************)
(* The reading side of the instruction encoding, independent of iasm: what *)
(* an x86-64 processor in 64-bit mode makes of a sequence of bytes, for    *)
(* the opcodes that the mnemonics of iasm produce.  Nothing here is taken  *)
(* from the assembler; the properties of Encoding compare the two.         *)
(***************************************************************************)
EXTENDS AsmData

(* An instruction: operation, operand size, address size and arguments.    *)
(* An argument has a kind, a register code (reg, mem) and bytes: the       *)
(* displacement of an address, an immediate or the offset of a branch.     *)
Arg(kind, code, bytes) == [kind |-> kind, code |-> code, bytes |-> bytes]
RegArg(code)       == Arg("reg", code, << >>)
MemArg(code, disp) == Arg("mem", code, disp)
RipArg(disp)       == Arg("rip", 0, disp)
ImmArg(bytes)      == Arg("imm", 0, bytes)
RelArg(bytes)      == Arg("rel", 0, bytes)
NoArg              == Arg("none", 0, << >>)

Insn(op, size, asize, args) ==
  [op |-> op, size |-> size, asize |-> asize, args |-> args]
Undecodable == Insn("undecodable", 0, 0, << >>)

Skip(b, n) == SubSeq(b, n + 1, Len(b))

(* A 32-bit immediate of a 64-bit operation is sign-extended.              *)
SignExtended(v, size) ==
  [k \in 1 .. size |-> IF k <= Len(v) THEN v[k]
                       ELSE IF v[Len(v)] >= 128 THEN 255 ELSE 0]

(* The mod-r/m byte: its reg field, the r/m argument and the bytes used.   *)
(* SIB bytes and 8-bit displacements have no argument here.                *)
ModRM(b) ==
  LET mod == b[1] \div 64
      rm  == b[1] % 8
      used == IF mod = 2 \/ (mod = 0 /\ rm = 5) THEN 5 ELSE 1
      arg == CASE mod = 3 -> RegArg(rm)
               [] mod = 0 /\ rm = 5 /\ Len(b) >= 5 -> RipArg(SubSeq(b, 2, 5))
               [] mod = 0 /\ rm \notin {4, 5} -> MemArg(rm, Zeros(4))
               [] mod = 2 /\ rm # 4 /\ Len(b) >= 5 ->
                    MemArg(rm, SubSeq(b, 2, 5))
               [] OTHER -> NoArg
  IN  [reg |-> (b[1] \div 8) % 8, arg |-> arg, used |-> used]

AluNames   == [k \in {0, 5, 7} |-> CASE k = 0 -> "ADD" [] k = 5 -> "SUB"
                                     [] k = 7 -> "CMP"]
Conditions == [k \in {4, 5, 12, 13, 14, 15} |->
                 CASE k = 4 -> "JE" [] k = 5 -> "JNE" [] k = 12 -> "JL"
                   [] k = 13 -> "JGE" [] k = 14 -> "JLE" [] k = 15 -> "JG"]

(* What an opcode with a mod-r/m byte does: its name, from the extension   *)
(* in the reg field where it is a group, and the order of its arguments.   *)
ToRM == {\h00, \h01, \h28, \h29, \h38, \h39, \h88, \h89}
ToReg == {\h8A, \h8B, \h8D}
Groups ==
  { << \h80, 0, "ADD" >>, << \h80, 5, "SUB" >>, << \h80, 7, "CMP" >>,
    << \hFE, 0, "INC" >>, << \hFE, 1, "DEC" >>, << \hFE, 2, "CALL" >>,
    << \hFE, 4, "JMP" >>, << \hF6, 4, "MUL" >>, << \hF6, 6, "DIV" >>,
    << \hC6, 0, "MOV" >> }
GroupOpcodes == {\h80, \h81, \hFE, \hFF, \hF6, \hF7, \hC6, \hC7}
HasModRM == ToRM \cup ToReg \cup GroupOpcodes

NameOf(o, reg) ==
  CASE o \in {\h88, \h89, \h8A, \h8B} -> "MOV"
    [] o = \h8D -> "LEA"
    [] o < \h40 -> AluNames[o \div 8]
    [] OTHER -> LET g == {t \in Groups : t[1] = o - (o % 2) /\ t[2] = reg}
                IN  IF g = {} \/ (o = \hFE /\ reg > 1) THEN "undecodable"
                    ELSE (CHOOSE t \in g : TRUE)[3]

(* The instruction with the two fields of a mod-r/m byte and what is       *)
(* behind them, an immediate or nothing.                                   *)
HasImm == {\h80, \h81, \hC6, \hC7}
ImmWidth(size) == IF size = 8 THEN 4 ELSE size

Arguments(o, reg, arg, imm, size) ==
  CASE o \in ToRM   -> << arg, RegArg(reg) >>
    [] o \in ToReg  -> << RegArg(reg), arg >>
    [] o \in HasImm -> << arg, ImmArg(SignExtended(imm, size)) >>
    [] OTHER        -> << arg >>

DecodeFields(o, reg, arg, imm, size, asize) ==
  LET name == NameOf(o, reg)
  IN  IF \/ name = "undecodable" \/ arg = NoArg
         \/ Len(imm) # (IF o \in HasImm THEN ImmWidth(size) ELSE 0)
      THEN Undecodable
      ELSE Insn(name, IF name \in {"CALL", "JMP"} /\ size = 4 THEN 8 ELSE size,
                asize, Arguments(o, reg, arg, imm, size))

DecodeModRM(o, rest, size, asize) ==
  LET m == ModRM(rest)
  IN  DecodeFields(o, m.reg, m.arg, Skip(rest, m.used), size, asize)

(* The opcodes without a mod-r/m byte.                                     *)
DecodePlain(o, rest, size, asize) ==
  CASE o < \h40 /\ o % 8 \in {4, 5} /\ Len(rest) = ImmWidth(size) ->
         Insn(AluNames[o \div 8], size, asize,
              << RegArg(0), ImmArg(SignExtended(rest, size)) >>)
    [] o \in \hB0 .. \hBF /\ Len(rest) = size ->
         Insn("MOV", size, asize, << RegArg(o % 8), ImmArg(rest) >>)
    [] o = \hE8 /\ Len(rest) = 4 -> Insn("CALL", 8, asize, << RelArg(rest) >>)
    [] o = \hE9 /\ Len(rest) = 4 -> Insn("JMP", 8, asize, << RelArg(rest) >>)
    [] o = \h0F /\ Len(rest) = 5 /\ rest[1] - 128 \in DOMAIN Conditions ->
         Insn(Conditions[rest[1] - 128], 8, asize, << RelArg(Skip(rest, 1)) >>)
    [] o = \h0F /\ rest = << 5 >> -> Insn("SYSCALL", 8, asize, << >>)
    [] o = \hC3 /\ rest = << >> -> Insn("RET", 8, asize, << >>)
    [] o = \hC2 /\ Len(rest) = 2 -> Insn("RET", 8, asize, << ImmArg(rest) >>)
    [] o = \hCD /\ Len(rest) = 1 -> Insn("INT", 8, asize, << ImmArg(rest) >>)
    [] o = \hF4 /\ rest = << >> -> Insn("HLT", 8, asize, << >>)
    [] o = \h90 /\ rest = << >> -> Insn("NOP", 8, asize, << >>)
    [] OTHER -> Undecodable

ByteForms == {\h00, \h28, \h38, \h04, \h2C, \h3C, \h80, \h88, \h8A,
              \hC6, \hF6, \hFE} \cup \hB0 .. \hB7

OperandSize(o, rex, short) ==
  IF o \in ByteForms THEN 1 ELSE IF rex THEN 8 ELSE IF short THEN 2 ELSE 4

DecodeOpcode(o, rest, size, asize) ==
  CASE o \in HasModRM /\ rest = << >> -> Undecodable
    [] o \in HasModRM /\ rest # << >> -> DecodeModRM(o, rest, size, asize)
    [] OTHER -> DecodePlain(o, rest, size, asize)

(* The number of legacy prefixes, whether a REX prefix is behind them, and *)
(* what is behind all prefixes.                                            *)
LegacyPrefixes == {\h66, \h67}
Legacy(b) == CHOOSE n \in 0 .. Len(b) :
               /\ \A k \in 1 .. n : b[k] \in LegacyPrefixes
               /\ n = Len(b) \/ b[n + 1] \notin LegacyPrefixes
HasLegacy(b, x) == \E k \in 1 .. Legacy(b) : b[k] = x
Rex(b) == Legacy(b) < Len(b) /\ b[Legacy(b) + 1] = \h48
Body(b) == Skip(b, IF Rex(b) THEN Legacy(b) + 1 ELSE Legacy(b))

(* The instruction that is exactly the bytes b, prefixes included.         *)
Decode(b) ==
  LET o == Body(b)[1]
  IN  IF Body(b) = << >> THEN Undecodable
      ELSE DecodeOpcode(o, Skip(Body(b), 1),
                        OperandSize(o, Rex(b), HasLegacy(b, \h66)),
                        IF HasLegacy(b, \h67) THEN 4 ELSE 8)
=============================================================================
