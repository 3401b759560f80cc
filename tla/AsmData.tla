------------------------------ MODULE AsmData ------------------------------
(***************************************************************************)
(* The data types that every stage of the assembler shares:                *)
(* include/asmutils.h (operands, registers, segments, replacements,        *)
(* labels) and the immediate/byte union of include/mnemonics.h.            *)
(*                                                                         *)
(* A uint64_t immediate is the 8 bytes of op_immediate_value_t in          *)
(* little-endian order, so comparisons with UINT8_MAX, UINT16_MAX and      *)
(* UINT32_MAX are exact.  Mnemonics and label names are strings that are   *)
(* only compared; what the code reads of their characters (is the first    *)
(* one a dot, is there a colon behind the name) is in fields of their own. *)
(***************************************************************************)
EXTENDS Integers, Sequences

Byte == 0 .. 255

(* segment_type_t: the order of the enumeration is the order of every loop *)
(* over the segments.                                                      *)
TEXT   == 0
DATA   == 1
RODATA == 2
BSS    == 3
SegmentTypes == 0 .. 3

(* cpu_register_t: R0..R15 and the operand size in bytes.                  *)
Register == [code : 0 .. 15, size : {1, 2, 4, 8}]

Immediate    == [1 .. 8 -> Byte]
INT32_MAX    == 2147483647
Displacement == -INT32_MAX .. INT32_MAX

(* operand_t.  process_operand leaves "indirect" unwritten for immediates, *)
(* strings and plain labels: there the field is any BOOLEAN.  A register   *)
(* that is no address has no displacement.                                 *)
RegisterOperand ==
  {op \in [type : {"REGISTER"}, indirect : BOOLEAN,
            displacement : Displacement, value : Register] :
     ~op.indirect => op.displacement = 0}
ImmediateOperand == [type : {"IMMEDIATE"}, indirect : BOOLEAN,
                     displacement : {0}, value : Immediate]
StringOperand    == [type : {"STRING"}, indirect : BOOLEAN,
                     displacement : {0}, value : Seq(Byte)]
LabelOperand     == [type : {"LABEL"}, indirect : BOOLEAN,
                     displacement : {0}, value : STRING]
Operand == RegisterOperand \cup ImmediateOperand
             \cup StringOperand \cup LabelOperand

(* parse_source_lvl1 rejects a line of more than MAX_OPERANDS parts, the   *)
(* mnemonic being one of them.                                             *)
MAX_OPERANDS == 4
Operands == {ops \in Seq(Operand) : Len(ops) < MAX_OPERANDS}

(* lvl2_line_t: the text of the mnemonic is its name, whose first          *)
(* character is a dot when dot is TRUE, and a colon when colon is TRUE.    *)
Line == [mnemonic : STRING, dot : BOOLEAN, colon : BOOLEAN,
         operands : Operands]

SameText(a, b) == a.mnemonic = b.mnemonic /\ a.colon = b.colon

(* replacement_t: a field of the opcodes that waits for an address.        *)
ReplacementType == {"RELATIVE", "ABSOLUTE"}
Replacement == [name : STRING, type : ReplacementType, address : Nat]

(* segment_data_t and label_t.                                             *)
Segment == [opcodes : Seq(Byte), replacements : Seq(Replacement)]
Label   == [name : STRING, segment : SegmentTypes, local_address : Nat]

(* The number of bytes do_executable_replacements copies over a field.     *)
PatchWidth(type) == IF type = "RELATIVE" THEN 4 ELSE 8

-----------------------------------------------------------------------------
(* Little-endian two's complement, the memory image of an int32_t and of a *)
(* uint64_t.  The second shift is split: 2^32 is not a TLC integer.        *)
LE4(v) == << v % 256, (v \div 256) % 256,
             (v \div 65536) % 256, (v \div 16777216) % 256 >>
LE8(v) == LE4(v) \o LE4((v \div 65536) \div 65536)

(* Bug: the bound itself is refused.                                       *)
ExceedsOrEquals(v, n) == (\E k \in n + 1 .. 8 : v[k] # 0) \/ \A k \in 1 .. n : v[k] = 255

(* The uint64_t comparison v > UINTn_MAX, n in bytes.                      *)
Exceeds(v, n) == \E k \in n + 1 .. 8 : v[k] # 0

Zeros(n) == [k \in 1 .. n |-> 0]
=============================================================================
