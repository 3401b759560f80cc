----------------------------- MODULE MCEncoding -----------------------------
(***************************************************************************)
(* Every instruction shape over chosen registers, displacements and        *)
(* immediates: one program per line, so that one step is one encoding.     *)
(***************************************************************************)
EXTENDS Encoding, SequencesExt

Codes == {0, 1, 3, 4, 5, 7, 8, 13}
Sizes == {1, 2, 4, 8}

Regs == {[type |-> "REGISTER", indirect |-> FALSE, displacement |-> 0,
          value |-> [code |-> c, size |-> s]] : c \in Codes, s \in Sizes}

(* process_operand takes a register of any size as an address.             *)
Mems == {[type |-> "REGISTER", indirect |-> TRUE, displacement |-> d,
          value |-> [code |-> c, size |-> s]] :
            c \in {0, 3, 4, 5, 9}, s \in Sizes, d \in {0, 1, -1}}

(* Both sides of every boundary the encoders compare with.                 *)
Values == { << 0, 0, 0, 0, 0, 0, 0, 0 >>, << 127, 0, 0, 0, 0, 0, 0, 0 >>,
            << 255, 0, 0, 0, 0, 0, 0, 0 >>, << 0, 1, 0, 0, 0, 0, 0, 0 >>,
            << 255, 255, 0, 0, 0, 0, 0, 0 >>, << 1, 0, 1, 0, 0, 0, 0, 0 >>,
            << 255, 255, 255, 127, 0, 0, 0, 0 >>,
            << 0, 0, 0, 128, 0, 0, 0, 0 >>, << 0, 0, 0, 0, 1, 0, 0, 0 >>,
            << 255, 255, 255, 255, 255, 255, 255, 255 >> }

Imms == {[type |-> "IMMEDIATE", indirect |-> i, displacement |-> 0,
          value |-> v] : v \in Values, i \in BOOLEAN}
Labels == {[type |-> "LABEL", indirect |-> i, displacement |-> 0,
            value |-> "a"] : i \in BOOLEAN}
Strings == {[type |-> "STRING", indirect |-> FALSE, displacement |-> 0,
             value |-> << 65 >>]}

Everything == Regs \cup Mems \cup Imms \cup Labels \cup Strings
FewRegs == {r \in Regs : r.value.code \in {0, 4, 9}}

Ins(m, ops) == [mnemonic |-> m, dot |-> FALSE, colon |-> FALSE,
                operands |-> ops]

FewImms == {i \in Imms : ~i.indirect} \cup Strings \cup Labels
DataLines ==
  {Ins(m, << a >>) : m \in DataMnemonics, a \in Everything}
    \cup {Ins(m, << a, b >>) : m \in DataMnemonics, a \in FewImms, b \in FewImms}
    \cup {Ins("DB", << a, b, c >>) : a \in FewImms, b \in FewImms, c \in FewImms}

MCLines ==
  {Ins(m, << >>) : m \in KnownMnemonics}
    \cup DataLines
    \cup {Ins(m, << a >>) : m \in KnownMnemonics \ DataMnemonics,
                            a \in Everything}
    \cup {Ins(m, << a, b >>) : m \in {"ADD", "CMP", "MOV", "LEA"},
                               a \in Everything, b \in Everything}
    \cup {Ins("SUB", << a, b >>) : a \in FewRegs, b \in Everything}

-----------------------------------------------------------------------------
(* What a data mnemonic stores for one operand: a number in the size of    *)
(* the mnemonic (the smallest that holds it for DB), lowest byte first, or *)
(* the characters of a string.                                             *)
Stored(m, op) ==
  IF ~IsImm(op) THEN op.value
  ELSE Truncated(op.value, IF m = "DB" THEN SmallestSize(op.value) ELSE ElementSize[m])

(* A data line that is taken appends what its operands say, in their order *)
(* and nothing else: no number is cut, whatever its size.                  *)
DataIsStored ==
  [][Instruction /\ Current.mnemonic \in DataMnemonics /\ ~errors_found'
       => NewBytes = FlattenSeq([k \in DOMAIN Current.operands |->
                                   Stored(Current.mnemonic, Current.operands[k])])]_vars

-----------------------------------------------------------------------------
(* The two moves of mov.c:115 with the registers of its example.           *)
Rax == [type |-> "REGISTER", indirect |-> FALSE, displacement |-> 0,
        value |-> [code |-> 0, size |-> 8]]
Rbx == [Rax EXCEPT !.value.code = 3]

MCDocumentedLines ==
  {Ins("MOV", << Rax, Rbx >>), Ins("MOV", << [Rax EXCEPT !.indirect = TRUE], Rbx >>)}
=============================================================================
