------------------------------ MODULE MCLexer ------------------------------
(***************************************************************************)
(* Small programs for Lexer: label definitions (one name that is also a    *)
(* mnemonic), directives, references of both kinds, and data that throws   *)
(* after it has appended a byte.                                           *)
(***************************************************************************)
EXTENDS Lexer

Reg(code, size) == [type |-> "REGISTER", indirect |-> FALSE,
                    displacement |-> 0,
                    value |-> [code |-> code, size |-> size]]
Imm(b1, b2) == [type |-> "IMMEDIATE", indirect |-> FALSE, displacement |-> 0,
                value |-> << b1, b2, 0, 0, 0, 0, 0, 0 >>]
Ref(name, rel) == [type |-> "LABEL", indirect |-> rel, displacement |-> 0,
                   value |-> name]

Def(name)  == [mnemonic |-> name, dot |-> FALSE, colon |-> TRUE,
               operands |-> << >>]
Dir(name)  == [mnemonic |-> name, dot |-> TRUE, colon |-> FALSE,
               operands |-> << >>]
Ins(m, ops) == [mnemonic |-> m, dot |-> FALSE, colon |-> FALSE,
                operands |-> ops]

MCLines ==
  { Def("a"), Def("b"), Def("NOP"),
    Dir(".DATA"), Dir(".TEXT"), Dir(".BAD"),
    Ins("NOP", << >>), Ins("FOO", << >>),
    Ins("JMP", << Ref("a", TRUE) >>),
    Ins("LEA", << Reg(1, 8), Ref("b", TRUE) >>),
    Ins("MOV", << Reg(2, 8), Ref("a", FALSE) >>),
    Ins("DB", << Imm(7, 1) >>),
    Ins("DB", << Imm(9, 0), Reg(0, 8) >>) }
=============================================================================
