----------------------------- MODULE MCOperands -----------------------------
(***************************************************************************)
(* LineParser on lines of which we know what they say, because they were   *)
(* printed from it, and on all short operands over some alphabets.         *)
(***************************************************************************)
EXTENDS LineParser

CONSTANT MaxLength   \* of the operands that are not printed

Written(text, says) == [text |-> text, says |-> says]

-----------------------------------------------------------------------------
(* The digits of an eight-byte number, from the highest: some per byte if  *)
(* the base is a power of two, in base ten by long division.               *)
DigitsOfBytes(v, base, perByte) ==
  [k \in 1 .. 8 * perByte |->
     (v[8 - (k - 1) \div perByte] \div base^(perByte - 1 - ((k - 1) % perByte))) % base]

DividedByTen(v) ==
  FoldRight(LAMBDA b, r : [quotient |-> << (256 * r.rest + b) \div 10 >> \o r.quotient,
                           rest |-> (256 * r.rest + b) % 10],
            v, [quotient |-> << >>, rest |-> 0])
DecimalDigits(v) ==
  FoldLeft(LAMBDA r, k : LET d == DividedByTen(r.v)
                         IN  [v |-> d.quotient, digits |-> << d.rest >> \o r.digits],
           [v |-> v, digits |-> << >>], [k \in 1 .. 20 |-> k]).digits

WithoutZeros(digits) ==
  LET first == SelectInSeq(digits, LAMBDA d : d # 0)
  IN  IF first = 0 THEN << 0 >> ELSE SubSeq(digits, first, Len(digits))

LowerGlyphs == << "0", "1", "2", "3", "4", "5", "6", "7", "8", "9",
                  "a", "b", "c", "d", "e", "f" >>
UpperGlyphs == SubSeq(LowerGlyphs, 1, 10) \o << "A", "B", "C", "D", "E", "F" >>

Printed(all, glyphs) ==
  LET digits == WithoutZeros(all) IN [k \in DOMAIN digits |-> glyphs[digits[k] + 1]]

Numerals(v) ==
  { Printed(DecimalDigits(v), LowerGlyphs),
    << "0", "b" >> \o Printed(DigitsOfBytes(v, 2, 8), LowerGlyphs),
    << "0", "x" >> \o Printed(DigitsOfBytes(v, 16, 2), LowerGlyphs),
    << "0", "x" >> \o Printed(DigitsOfBytes(v, 16, 2), UpperGlyphs) }

(* 2^(8 n) - 1, 2^(8 n - 1) and 2^(8 n), and a number with all digits.     *)
AllOnes(n) == [k \in 1 .. 8 |-> IF k <= n THEN 255 ELSE 0]
TopBit(n)  == [k \in 1 .. 8 |-> IF k = n THEN 128 ELSE 0]
Bit(n)     == [k \in 1 .. 8 |-> IF k = n + 1 THEN 1 ELSE 0]
Values == {AllOnes(n) : n \in 0 .. 8} \cup {TopBit(n) : n \in 1 .. 8}
            \cup {Bit(n) : n \in 0 .. 7}
            \cup {<< 10, 0, 0, 0, 0, 0, 0, 0 >>, << 239, 205, 171, 137, 103, 69, 35, 1 >>}

NumberOperands == UNION {{Written(t, Op("IMMEDIATE", FALSE, 0, v)) : t \in Numerals(v)} : v \in Values}

-----------------------------------------------------------------------------
(* Registers, addresses, labels and strings.                               *)
Register3(a, b, c, code, size) == Written(<< a, b, c >>, [code |-> code, size |-> size])
RegisterTexts ==
  { Register3("r", "a", "x", 0, 8), Register3("e", "c", "x", 1, 4),
    Register3("R", "d", "i", 7, 8), Register3("r", "s", "i", 6, 8),
    Register3("E", "B", "P", 5, 4), Register3("r", "b", "x", 3, 8),
    Register3("e", "s", "p", 4, 4), Register3("r", "9", "d", 9, 4),
    Register3("r", "8", "l", 8, 1), Register3("r", "1", "2", 12, 8),
    Register3("e", "d", "x", 2, 4),
    Written(<< "d", "i" >>, [code |-> 7, size |-> 2]),
    Written(<< "D", "x" >>, [code |-> 2, size |-> 2]),
    Written(<< "b", "l" >>, [code |-> 3, size |-> 1]),
    Written(<< "A", "h" >>, [code |-> 4, size |-> 1]),
    Written(<< "r", "1", "5", "W" >>, [code |-> 15, size |-> 2]) }

RegisterOperands == {Written(r.text, Op("REGISTER", FALSE, 0, r.says)) : r \in RegisterTexts}

Displacements == {0, 1, 127, 128, 255, 256, 65535, 65536, INT32_MAX}
Offsets == UNION {UNION {{Written(<< "+" >> \o n, d), Written(<< "-" >> \o n, -d)} :
                           n \in Numerals(LE8(d))} : d \in Displacements}
AddressOperands ==
  {Written(<< "[" >> \o r.text \o d.text \o << "]" >>, Op("REGISTER", TRUE, d.says, r.says)) :
     r \in {t \in RegisterTexts : t.says.code \in {0, 5, 12}},
     d \in Offsets \cup {Written(<< >>, 0)}}

LabelOperands ==
  { Written(<< "$", "L", "_", "1" >>, Op("LABEL", FALSE, 0, "L_1")),
    Written(<< "$", "r", "a", "x" >>, Op("LABEL", FALSE, 0, "rax")),
    Written(<< "[", "r", "e", "l", "$", "l", "]" >>, Op("LABEL", TRUE, 0, "l")) }

Q == "DOUBLE_QUOTE"
StringOperands ==
  { Written(<< Q, "A", " ", "'", "z", Q >>, Op("STRING", FALSE, 0, << 65, 32, 39, 122 >>)),
    Written(<< "'", Q, "$", "'" >>, Op("STRING", FALSE, 0, << 34, 36 >>)),
    Written(<< Q, Q >>, Op("STRING", FALSE, 0, << >>)) }

FewOperands == {Written(r.text, Op("REGISTER", FALSE, 0, r.says)) :
                   r \in {t \in RegisterTexts : t.says.code \in {0, 4}}}
                 \cup LabelOperands \cup StringOperands
AllOperands == NumberOperands \cup RegisterOperands \cup AddressOperands
                 \cup LabelOperands \cup StringOperands

Instructions(lists) ==
  {Written(<< << "m", "O", "v" >> >> \o [k \in DOMAIN l |-> l[k].text],
           [mnemonic |-> "MOV", dot |-> FALSE, colon |-> FALSE,
            operands |-> [k \in DOMAIN l |-> l[k].says]]) : l \in lists}
Definitions ==
  { Written(<< << "l", "_", ":" >> >>,
            [mnemonic |-> "l_", dot |-> FALSE, colon |-> TRUE, operands |-> << >>]),
    Written(<< << ".", "b", "s", "s" >> >>,
            [mnemonic |-> ".BSS", dot |-> TRUE, colon |-> FALSE, operands |-> << >>]) }

FewLines == Definitions \cup Instructions({<< >>} \cup {<< o >> : o \in FewOperands})
Programs ==
  {<< l >> : l \in Instructions({<< o >> : o \in AllOperands}
                                  \cup {<< a, b >> : a \in FewOperands, b \in FewOperands}
                                  \cup {<< a, a, b >> : a \in FewOperands, b \in FewOperands})}
    \cup {<< a, b >> : a \in FewLines, b \in FewLines}
TextOf(program) == [k \in DOMAIN program |-> program[k].text]

(* Which programs a text can be.                                           *)
PrintedTexts == {TextOf(p) : p \in Programs}
Says == [t \in PrintedTexts |->
           LET p == CHOOSE p \in Programs : TextOf(p) = t
           IN  [k \in DOMAIN p |-> p[k].says]]

-----------------------------------------------------------------------------
(* All texts over an alphabet of words, as the operand of an instruction.  *)
TextsOver(words, length) ==
  {FlattenSeq(t) : t \in UNION {[1 .. n -> words] : n \in 0 .. length}}
Letter(chars) == {<< c >> : c \in chars}
Anything ==
  TextsOver(Letter({"0", "x", "b", "1", "9", "A", "-"}), MaxLength - 1)
    \cup TextsOver(Letter({"'", Q, "BACKSLASH", "a"}), MaxLength)
    \cup TextsOver(Letter({"r", "A", "X", "8", "1", "5", "d", "L"}), MaxLength - 1)
    \cup TextsOver({<< "[" >>, << "]" >>, << "r", "a", "x" >>, << "r", "e", "l", "$" >>,
                    << "+" >>, << "-" >>, << "7" >>, << "0", "x" >>}, MaxLength)
AsOperand(text) == << << << "d", "b" >>, text >> >>
Probes == {AsOperand(t) : t \in Anything}

(* 2^64 and more in twenty digits.                                         *)
TooLarge == {<< "1", "8", "4", "4", "6", "7", "4", "4", "0", "7",
                "3", "7", "0", "9", "5", "5", "1", "6", "1", d >> : d \in {"6", "7"}}
              \cup {[k \in 1 .. 20 |-> d] : d \in {"2", "9"}}

OtherLines ==
  { << << << "d", "b" >> >>, << >> >>, << << << "d", "b", "1" >> >> >>,
    << << << "a", ":" >>, << "1" >> >> >>, << << << ".", "a" >>, << "1" >> >> >>,
    << << << >> >> >>, << << << >>, << "1" >> >> >> }

MCSources == PrintedTexts \cup Probes \cup {AsOperand(t) : t \in TooLarge} \cup OtherLines

-----------------------------------------------------------------------------
(* Every line is understood as it was meant: the number in whatever base   *)
(* and case, the register, the displacement with its sign, the label, the  *)
(* characters of the string, for every operand and every line.  (Where     *)
(* indirect is not written it may be anything.)                            *)
Unwritten(op) == op.type # "REGISTER" /\ ~op.indirect
SameOperand(op, says) ==
  op = says \/ (Unwritten(says) /\ [op EXCEPT !.indirect = FALSE] = says)
SameLine(line, says) ==
  /\ [line EXCEPT !.operands = << >>] = [says EXCEPT !.operands = << >>]
  /\ Len(line.operands) = Len(says.operands)
  /\ \A k \in DOMAIN says.operands : SameOperand(line.operands[k], says.operands[k])

UnderstoodAsMeant ==
  Done /\ lines \in PrintedTexts =>
    /\ ~errors_found
    /\ \A k \in DOMAIN lines : SameLine(lines_out[k], Says[lines][k])

(* What an operand may look like by docs/README.md.                        *)
Made(text, chars) == text # << >> /\ Range(text) \subseteq chars
Between(text, n, m) == SubSeq(text, n + 1, Len(text) - m)
Decimal == Range(SubSeq(LowerGlyphs, 1, 10))
Hexadecimal == Range(LowerGlyphs) \cup Range(UpperGlyphs)

LegalNumber(text) ==
  \/ Made(text, Decimal)
  \/ IsPrefix(<< "0", "x" >>, text) /\ Made(Between(text, 2, 0), Hexadecimal)
  \/ IsPrefix(<< "0", "b" >>, text) /\ Made(Between(text, 2, 0), {"0", "1"})
LegalRegister(text) ==
  Name(Upper(text)) \in {"RAX", "RDX", "AX", "DX", "BX", "AL", "DL", "R8", "R8D",
                         "R8L", "R11", "R11D", "R11L", "R15", "R15D", "R15L"}
LegalAddress(text) ==
  /\ text # << >> /\ text[1] = "[" /\ text[Len(text)] = "]"
  /\ \/ text = << "[", "r", "a", "x", "]" >>
     \/ \E sign \in {"+", "-"} : /\ IsPrefix(<< "[", "r", "a", "x", sign >>, text)
                                 /\ LegalNumber(Between(text, 5, 1))
     \/ IsPrefix(<< "[", "r", "e", "l", "$" >>, text)
LegalString(text) ==
  /\ Len(text) >= 2 /\ text[1] \in {"'", Q}
  /\ text[1] = text[Len(text)] /\ text[1] \notin Range(Between(text, 1, 1))

(* What is taken besides: a number without digits, also as a displacement, *)
(* a decimal number with a sign, and text behind the first closing quote   *)
(* or a quote that is still escaped.                                       *)
Digitless == {<< >>, << "0", "x" >>, << "0", "b" >>}
Tolerated(text) ==
  \/ text \in Digitless
  \/ \E sign \in {"+", "-"}, t \in Digitless :
       text = << "[", "r", "a", "x", sign >> \o t \o << "]" >>
  \/ IsPrefix(<< "-" >>, text) /\ Range(Between(text, 1, 0)) \subseteq Decimal
  \/ text # << >> /\ text[1] \in {"'", Q} /\ text[1] \in Range(Between(text, 1, 0))

(* Nothing else is taken as an operand: an invalid number, register or     *)
(* address is never read as another one, nor as a number by an earlier or  *)
(* a register by a later branch of process_operand.                        *)
RefusesTheRest ==
  Done /\ ~errors_found /\ lines \in Probes =>
    LET text == lines[1][2]
    IN  \/ LegalNumber(text) \/ LegalRegister(text) \/ LegalAddress(text)
        \/ LegalString(text) \/ Tolerated(text)

(* assembler.c, "Decimal number too large": a decimal number of more than  *)
(* 64 bits is refused.                                                     *)
TooLargeIsRefused ==
  Done /\ lines \in {AsOperand(t) : t \in TooLarge} => errors_found
=============================================================================
