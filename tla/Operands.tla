------------------------------ MODULE Operands ------------------------------
(***************************************************************************)
(* process_operand and process_number of assembler.c, and what they call   *)
(* of asmutils.c: from the characters of a part to an operand_t.  Pure:    *)
(* what the functions write to errors_found is the operand Refused here.   *)
(*                                                                         *)
(* A text is a sequence of characters, each a string of length one but for *)
(* the double quote and the backslash, which have names.                   *)
(***************************************************************************)
EXTENDS AsmData, SequencesExt

DigitChars == << "0", "1", "2", "3", "4", "5", "6", "7", "8", "9" >>
LowerChars == << "a", "b", "c", "d", "e", "f", "g", "h", "i", "j", "k", "l", "m",
                 "n", "o", "p", "q", "r", "s", "t", "u", "v", "w", "x", "y", "z" >>
UpperChars == << "A", "B", "C", "D", "E", "F", "G", "H", "I", "J", "K", "L", "M",
                 "N", "O", "P", "Q", "R", "S", "T", "U", "V", "W", "X", "Y", "Z" >>
PunctuationChars == << " ", "DOUBLE_QUOTE", "$", "'", "+", ",", "-", ".", ":", ";",
                       "[", "BACKSLASH", "]", "_" >>
PunctuationCodes == << 32, 34, 36, 39, 43, 44, 45, 46, 58, 59, 91, 92, 93, 95 >>

(* The characters of a text, and the value of a char.                      *)
PlaceIn(chars) == [c \in Range(chars) |-> CHOOSE k \in DOMAIN chars : chars[k] = c]
Codes ==
  [c \in UNION {Range(chars) : chars \in {DigitChars, UpperChars, LowerChars,
                                          PunctuationChars}} |->
     CASE c \in Range(DigitChars) -> PlaceIn(DigitChars)[c] + 47
       [] c \in Range(UpperChars) -> PlaceIn(UpperChars)[c] + 64
       [] c \in Range(LowerChars) -> PlaceIn(LowerChars)[c] + 96
       [] c \in Range(PunctuationChars) ->
            PunctuationCodes[PlaceIn(PunctuationChars)[c]]]
Code(c) == Codes[c]
Text == Seq(DOMAIN Codes)

(* str_to_upper.                                                           *)
ToUpper == [c \in Range(LowerChars) |-> UpperChars[PlaceIn(LowerChars)[c]]]
Upper(str) == [k \in DOMAIN str |-> IF str[k] \in DOMAIN ToUpper
                                      THEN ToUpper[str[k]] ELSE str[k]]

(* A text that is only compared from here on.  (What the characters are    *)
(* when put together is always a string, which the provers cannot know; nor *)
(* do they know of any string that it is one.)                             *)
ASSUME StringAssumption == "none" \in STRING

Joined(str) == FoldLeft(LAMBDA name, c : name \o c, "", str)
Name(str) == IF Joined(str) \in STRING THEN Joined(str) ELSE "none"

-----------------------------------------------------------------------------
(* is_hex, is_binary, is_letters and is_digits: true of no characters, too. *)
HexDigits    == Range(DigitChars) \cup {"A", "B", "C", "D", "E", "F"}
BinaryDigits == {"0", "1"}

Behind(str, n) == SubSeq(str, n + 1, Len(str))
is_letters(str) == Range(str) \subseteq Range(UpperChars)
is_digits(str) ==
  Range(IF IsPrefix(<< "-" >>, str) THEN Behind(str, 1) ELSE str)
    \subseteq Range(DigitChars)

(* result * base + digit, a uint64_t: byte by byte from the lowest, with   *)
(* the carry of the one below.  (A digit may be negative: '-' - '0'.)      *)
MulAdd(v, base, digit) ==
  LET carry[k \in 0 .. 8] ==
        IF k = 0 THEN digit ELSE (v[k] * base + carry[k - 1]) \div 256
      byte(k) == (v[k] * base + carry[k - 1]) % 256
  IN  << byte(1), byte(2), byte(3), byte(4), byte(5), byte(6), byte(7), byte(8) >>

(* hex_str_to_num, binary_str_to_num and str_to_num.                       *)
DigitOf(c) == IF c \in Range(UpperChars) THEN Code(c) - 65 + 10 ELSE Code(c) - 48
ToNumber(str, base) ==
  LET result[n \in 0 .. Len(str)] ==
        IF n = 0 THEN Zeros(8) ELSE MulAdd(result[n - 1], base, DigitOf(str[n]))
  IN  result[Len(str)]

(* What process_number returns, or a null pointer, and whether it reports  *)
(* an error.                                                               *)
Number(value)   == [found |-> TRUE, error |-> FALSE, value |-> value]
NoNumber(error) == [found |-> FALSE, error |-> error, value |-> Zeros(8)]

Numeral(digits, allowed, longest, base) ==
  IF Range(digits) \subseteq allowed /\ Len(digits) <= longest
    THEN Number(ToNumber(digits, base)) ELSE NoNumber(TRUE)

(* Bug: the check of the digits of a decimal number is missing.            *)
process_number_unchecked(str, can_be_register) ==
  Numeral(str, DOMAIN Codes, 20, 10)

process_number(str, can_be_register) ==
  CASE IsPrefix(<< "0", "x" >>, str) ->
         Numeral(Upper(Behind(str, 2)), HexDigits, 16, 16)
    [] IsPrefix(<< "0", "b" >>, str) ->
         Numeral(Upper(Behind(str, 2)), BinaryDigits, 64, 2)
    [] OTHER -> IF is_digits(str)
                  THEN Numeral(str, DOMAIN Codes, 20, 10)
                  ELSE NoNumber(~can_be_register)

-----------------------------------------------------------------------------
(* get_register: the names of all registers.                               *)
WordNames == << << "A", "X" >>, << "C", "X" >>, << "D", "X" >>, << "B", "X" >>,
                << "S", "P" >>, << "B", "P" >>, << "S", "I" >>, << "D", "I" >> >>
ByteNames == << << "A", "L" >>, << "C", "L" >>, << "D", "L" >>, << "B", "L" >>,
                << "A", "H" >>, << "C", "H" >>, << "D", "H" >>, << "B", "H" >> >>
NumberNames == << << "8" >>, << "9" >>, << "1", "0" >>, << "1", "1" >>,
                  << "1", "2" >>, << "1", "3" >>, << "1", "4" >>, << "1", "5" >> >>
SizeSuffixes == {<< << >>, 8 >>, << << "D" >>, 4 >>, << << "W" >>, 2 >>, << << "L" >>, 1 >>}

Named(name, code, size) == [name |-> name, code |-> code, size |-> size]
Registers ==
  UNION { {Named(<< "R" >> \o WordNames[k], k - 1, 8),
           Named(<< "E" >> \o WordNames[k], k - 1, 4),
           Named(WordNames[k], k - 1, 2),
           Named(ByteNames[k], k - 1, 1)}
            \cup {Named(<< "R" >> \o NumberNames[k] \o s[1], k + 7, s[2]) :
                    s \in SizeSuffixes} : k \in 1 .. 8 }

IsRegister(name) == \E r \in Registers : r.name = name
get_register(name) ==
  LET r == CHOOSE r \in Registers : r.name = name
  IN  [code |-> r.code, size |-> r.size]

-----------------------------------------------------------------------------
Op(type, indirect, displacement, value) ==
  [type |-> type, indirect |-> indirect, displacement |-> displacement,
   value |-> value]

(* What is returned with an error is never read.                           *)
Refused == Op("UNDEFINED", FALSE, 0, << >>)

(* find_string_end: the first delimiter that is not escaped.               *)
StringEnds(str, delim) ==
  LET escaped[k \in DOMAIN str] ==
        k > 1 /\ str[k - 1] = "BACKSLASH" /\ ~escaped[k - 1]
  IN  {k \in DOMAIN str : str[k] = delim /\ ~escaped[k]}

(* (What is behind the end is dropped.)                                    *)
StringOperandOf(str, delim, unwritten) ==
  LET ends == StringEnds(str, delim)
  IN  IF ends = {} THEN Refused
      ELSE Op("STRING", unwritten, 0,
              [k \in 1 .. Min(ends) - 1 |-> Code(str[k])])

RegisterOperandOf(str, indirect, displacement) ==
  IF IsRegister(Upper(str))
    THEN Op("REGISTER", indirect, displacement, get_register(Upper(str)))
    ELSE Refused

(* The first plus sign, or else the first minus sign; 0 if there is none.  *)
Places(str, c) == {k \in DOMAIN str : str[k] = c}
SignPlace(str) == IF Places(str, "+") # {} THEN Min(Places(str, "+"))
                  ELSE IF Places(str, "-") # {} THEN Min(Places(str, "-"))
                  ELSE 0

(* Bug: the sign is lost.                                                  *)
SignedUnsigned(magnitude, sign) == magnitude

Signed(magnitude, sign) == IF sign = "+" THEN magnitude ELSE -magnitude

(* v > INT32_MAX, and the value of one that is not.                        *)
TooFar(v) == Exceeds(v, 4) \/ v[4] >= 128
Magnitude(v) == v[1] + 256 * (v[2] + 256 * (v[3] + 256 * v[4]))

(* The text between the brackets.                                          *)
RelativeLabel == << "r", "e", "l", "$" >>

AddressOf(str) ==
  LET at == SignPlace(str)
      displacement == process_number(Behind(str, at), FALSE)
  IN  CASE IsPrefix(RelativeLabel, str) ->
             Op("LABEL", TRUE, 0, Name(Behind(str, 4)))
        [] ~IsPrefix(RelativeLabel, str) /\ at = 0 ->
             RegisterOperandOf(str, TRUE, 0)
        [] ~IsPrefix(RelativeLabel, str) /\ at # 0 ->
             IF ~displacement.found \/ TooFar(displacement.value) THEN Refused
             ELSE RegisterOperandOf(SubSeq(str, 1, at - 1), TRUE,
                                    Signed(Magnitude(displacement.value), str[at]))

InBrackets(str) == IsPrefix(<< "[" >>, str) /\ str[Len(str)] = "]"

(* unwritten is what the stack holds where indirect is not assigned.  (A   *)
(* number that is refused is tried as a register, which it never is.)      *)
process_operand(operand, unwritten) ==
  LET number == process_number(operand, TRUE)
  IN  CASE IsPrefix(<< "$" >>, operand) ->
             Op("LABEL", unwritten, 0, Name(Behind(operand, 1)))
        [] IsPrefix(<< "'" >>, operand) \/ IsPrefix(<< "DOUBLE_QUOTE" >>, operand) ->
             StringOperandOf(Behind(operand, 1), operand[1], unwritten)
        [] number.found -> Op("IMMEDIATE", unwritten, 0, number.value)
        [] InBrackets(operand) -> AddressOf(SubSeq(operand, 2, Len(operand) - 1))
        [] OTHER -> RegisterOperandOf(operand, FALSE, 0)
=============================================================================
