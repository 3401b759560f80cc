----------------------------- MODULE LineParser -----------------------------
(***************************************************************************)
(* parse_source_lvl2 of assembler.c: what each line of parts is, with its  *)
(* operands converted.  One step is one iteration of the loop.             *)
(***************************************************************************)
EXTENDS Operands

CONSTANT Sources   \* what parse_source_lvl1 may deliver

(* A line has at most MAX_OPERANDS parts; a line of separators in an open  *)
(* string has none.                                                        *)
SourceLine == {parts \in Seq(Text) : Len(parts) <= MAX_OPERANDS}

ASSUME SourcesAssumption == Sources \subseteq Seq(SourceLine)

VARIABLES
  lines,         \* (*lines)[0 .. line_num - 1]
  next,          \* the loop counter i, from 1
  lines_out,
  errors_found

vars == << lines, next, lines_out, errors_found >>

Init ==
  /\ lines \in Sources
  /\ next = 1
  /\ lines_out = << >>
  /\ errors_found = FALSE

Done    == next > Len(lines)
parts   == lines[next]
mnemonic == parts[1]
operands == Tail(parts)

(* mnemonic[mnsize - 1] == ':', which is in front of an empty mnemonic.    *)
Colons(str) == IF str = << >> THEN BOOLEAN ELSE {str[Len(str)] = ":"}
Dot(str)    == IsPrefix(<< "." >>, str)

ParsedLine(str, colon, ops) ==
  [mnemonic |-> Name(str), dot |-> Dot(str), colon |-> colon, operands |-> ops]

Finish(line, error) ==
  /\ lines_out' = Append(lines_out, line)
  /\ errors_found' = (errors_found \/ error)
  /\ next' = next + 1
  /\ UNCHANGED lines

(* Whatever it has for a mnemonic.                                         *)
LineWithoutParts ==
  /\ ~Done /\ parts = << >>
  /\ Finish(ParsedLine(<< >>, FALSE, << >>), TRUE)

HasParts == ~Done /\ parts # << >>

LabelDefinition ==
  /\ HasParts
  /\ TRUE \in Colons(mnemonic)
  /\ \E colon \in Colons(mnemonic) :
       Finish(ParsedLine(SubSeq(mnemonic, 1, Len(mnemonic) - 1), colon, << >>),
              operands # << >>)

SegmentDefinition ==
  /\ HasParts
  /\ FALSE \in Colons(mnemonic) /\ Dot(mnemonic)
  /\ Finish(ParsedLine(Upper(mnemonic), FALSE, << >>), operands # << >>)

Processed(unwritten) ==
  [k \in DOMAIN operands |-> process_operand(operands[k], unwritten[k])]

(* Bug: errors in operands are reported and forgotten.                     *)
InstructionErrorMnemonic(ops) == ~is_letters(Upper(mnemonic))

InstructionError(ops) ==
  \/ ~is_letters(Upper(mnemonic))
  \/ \E k \in DOMAIN ops : ops[k] = Refused

InstructionLine ==
  /\ HasParts
  /\ FALSE \in Colons(mnemonic) /\ ~Dot(mnemonic)
  /\ \E unwritten \in [DOMAIN operands -> BOOLEAN], colon \in Colons(mnemonic) :
       Finish(ParsedLine(Upper(mnemonic), colon, Processed(unwritten)),
              InstructionError(Processed(unwritten)))

Next ==
  LineWithoutParts \/ LabelDefinition \/ SegmentDefinition \/ InstructionLine

Spec == Init /\ [][Next]_vars

-----------------------------------------------------------------------------
(* Every variable has the type its C declaration gives it, and lines that  *)
(* were parsed without an error are what lex_source may be given.          *)
TypeOK ==
  /\ next \in 1 .. Len(lines) + 1
  /\ Len(lines_out) = next - 1
  /\ errors_found \in BOOLEAN
  /\ ~errors_found => lines_out \in Seq(Line)
=============================================================================
