---------------------------- MODULE LineSplitter ----------------------------
(***************************************************************************)
(* parse_source_lvl1 of assembler.c: the source, character by character,   *)
(* into lines of parts.  The characters of a line are collected in a       *)
(* buffer, in which a zero ends each part and the start of each part is    *)
(* remembered; a newline turns the buffer into a line.  Nothing keeps a    *)
(* line from being longer than the buffer: what such a line does, C does   *)
(* not say, and the module stops there (Overrun).                          *)
(*                                                                         *)
(* Characters are the classes that the code tells apart: " " is a space or *)
(* a tab, Letters are all the characters without a case of their own.      *)
(***************************************************************************)
EXTENDS Integers, Sequences

CONSTANTS
  Letters,
  BUFFER_SIZE,   \* the bytes of the buffer: 4096
  Texts      \* the contents of source_buffer, up to and with its last NUL

NUL        == "NUL"
NEWLINE    == "NEWLINE"
BACKSLASH  == "BACKSLASH"
Quotes     == {"'", "DOUBLE_QUOTE"}
Separators == {" ", ";", ","}
Brackets   == {"[", "]"}
Char       == Letters \cup Quotes \cup Separators \cup Brackets
                \cup {NUL, NEWLINE, BACKSLASH}

MAX_OPERANDS == 4

ASSUME LettersAssumption ==
  Letters \cap (Quotes \cup Separators \cup Brackets
                 \cup {NUL, NEWLINE, BACKSLASH}) = {}

ASSUME BufferSizeAssumption == BUFFER_SIZE \in Nat \ {0}

(* assemble puts a newline and a NUL behind what it read.                  *)
ASSUME TextsAssumption ==
  \A t \in Texts : /\ t \in Seq(Char)
                   /\ Len(t) >= 2
                   /\ t[Len(t) - 1] = NEWLINE /\ t[Len(t)] = NUL

VARIABLES
  text,
  at,                \* source - source_buffer, from 1
  buffer,            \* buffer[0 .. buffer_index - 1]; all behind it is zero
  overrun,           \* a byte behind the end of the buffer was used
  starts,            \* mnemonic and operands[0 .. sub_index - 2]
  was_code, comment, escape, is_register_info,
  string_char,       \* NUL when is_string is false
  lines,
  errors_found

flags == << was_code, comment, is_register_info, string_char >>
vars == << text, at, buffer, overrun, starts, was_code, comment, escape,
           is_register_info, string_char, lines, errors_found >>

-----------------------------------------------------------------------------
Init ==
  /\ text \in Texts
  /\ at = 1
  /\ buffer = << >> /\ overrun = FALSE /\ starts = << >>
  /\ was_code = FALSE /\ comment = FALSE /\ escape = FALSE
  /\ is_register_info = FALSE /\ string_char = NUL
  /\ lines = << >>
  /\ errors_found = FALSE

Current == text[at]
Done    == Current = NUL /\ ~overrun

(* Every iteration takes a character; only EscapeNext leaves escape set.   *)
Take == ~Done /\ ~overrun /\ at' = at + 1 /\ UNCHANGED << text, overrun >>
TakePlain == Take /\ escape' = FALSE

(* buffer[buffer_index] is a byte of the buffer.                           *)
InBuffer == Len(buffer) < BUFFER_SIZE

-----------------------------------------------------------------------------
(* Space, tab, semicolon and comma.                                        *)
DropSeparator ==
  /\ Current \in Separators
  /\ comment \/ is_register_info
  /\ TakePlain
  /\ UNCHANGED << flags, buffer, starts, lines, errors_found >>

InString ==
  /\ Current \in Separators
  /\ ~comment /\ ~is_register_info /\ string_char # NUL

KeepSeparator ==
  /\ InString /\ InBuffer
  /\ buffer' = Append(buffer, Current)
  /\ TakePlain
  /\ UNCHANGED << flags, starts, lines, errors_found >>

Separates ==
  /\ Current \in Separators
  /\ ~comment /\ ~is_register_info /\ string_char = NUL

(* Whichever of them it is, a semicolon too.                               *)
EndPart ==
  /\ Separates /\ was_code /\ InBuffer
  /\ buffer' = Append(buffer, NUL)
  /\ was_code' = FALSE
  /\ TakePlain
  /\ UNCHANGED << comment, is_register_info, string_char, starts, lines,
                 errors_found >>

UnexpectedComma ==
  /\ Separates /\ ~was_code /\ Current = ","
  /\ errors_found' = TRUE
  /\ TakePlain
  /\ UNCHANGED << flags, buffer, starts, lines >>

StartComment ==
  /\ Separates /\ ~was_code /\ Current = ";"
  /\ comment' = TRUE
  /\ TakePlain
  /\ UNCHANGED << was_code, is_register_info, string_char, buffer, starts,
                 lines, errors_found >>

DropSpace ==
  /\ Separates /\ ~was_code /\ Current = " "
  /\ TakePlain
  /\ UNCHANGED << flags, buffer, starts, lines, errors_found >>

-----------------------------------------------------------------------------
(* A newline.  An open string stays open; a line without characters leaves *)
(* starts as it is.                                                        *)
EndsLine ==
  /\ Current = NEWLINE
  /\ comment' = FALSE /\ was_code' = FALSE /\ is_register_info' = FALSE
  /\ TakePlain
  /\ UNCHANGED << string_char, errors_found >>

EmptyLine ==
  /\ EndsLine
  /\ buffer = << >>
  /\ UNCHANGED << buffer, starts, lines >>

(* Bug: the zero behind the last part is not copied.                       *)
NewLineUnterminated == [buffer |-> buffer, starts |-> starts]

NewLine == [buffer |-> Append(buffer, NUL), starts |-> starts]

(* Bug: buffer_index is not set back.                                      *)
EndLineKeepsBuffer ==
  /\ EndsLine
  /\ buffer # << >> /\ InBuffer
  /\ lines' = Append(lines, NewLine)
  /\ starts' = << >>
  /\ UNCHANGED buffer

EndLine ==
  /\ EndsLine
  /\ buffer # << >> /\ InBuffer
  /\ lines' = Append(lines, NewLine)
  /\ buffer' = << >> /\ starts' = << >>

-----------------------------------------------------------------------------
(* All other characters.                                                   *)
IsCode == Current \notin Separators \cup {NEWLINE, NUL}

DropComment ==
  /\ IsCode /\ comment
  /\ TakePlain
  /\ UNCHANGED << flags, buffer, starts, lines, errors_found >>

BracketFits == /\ Current = "[" => ~is_register_info
               /\ Current = "]" => is_register_info

UnexpectedBracket ==
  /\ IsCode /\ ~comment /\ ~BracketFits
  /\ errors_found' = TRUE
  /\ TakePlain
  /\ UNCHANGED << flags, buffer, starts, lines >>

(* Brackets count in a string, too.                                        *)
SetRegisterInfo ==
  is_register_info' = CASE Current = "[" -> TRUE
                        [] Current = "]" -> FALSE
                        [] OTHER -> is_register_info

(* Bug: one part more.                                                     *)
RoomForPartAtLimit == was_code \/ Len(starts) <= MAX_OPERANDS

RoomForPart == was_code \/ Len(starts) < MAX_OPERANDS

TooManyOperands ==
  /\ IsCode /\ ~comment /\ BracketFits
  /\ ~RoomForPart
  /\ SetRegisterInfo
  /\ was_code' = TRUE
  /\ errors_found' = TRUE
  /\ TakePlain
  /\ UNCHANGED << comment, string_char, buffer, starts, lines >>

InCode == IsCode /\ ~comment /\ BracketFits /\ RoomForPart
Escapes == Current = BACKSLASH /\ ~escape

(* The first character of a part records where the part starts.            *)
Collects ==
  /\ InCode
  /\ SetRegisterInfo
  /\ was_code' = TRUE
  /\ starts' = IF was_code THEN starts ELSE Append(starts, Len(buffer))
  /\ UNCHANGED << comment, lines, errors_found >>

EscapeNext ==
  /\ Collects /\ Escapes
  /\ Take /\ escape' = TRUE
  /\ UNCHANGED << buffer, string_char >>

(* Bug: any quote closes a string.                                         *)
StringCharAfterAnyQuote ==
  IF Current \notin Quotes \/ escape THEN string_char
  ELSE IF string_char = NUL THEN Current ELSE NUL

(* A quote opens a string or closes the one that it opened.                *)
StringCharAfter ==
  CASE Current \notin Quotes \/ escape                 -> string_char
    [] Current \in Quotes /\ ~escape /\ string_char = NUL -> Current
    [] Current = string_char /\ ~escape                 -> NUL
    [] OTHER                                            -> string_char

AddCharacter ==
  /\ Collects /\ ~Escapes /\ InBuffer
  /\ buffer' = Append(buffer, Current)
  /\ string_char' = StringCharAfter
  /\ TakePlain

-----------------------------------------------------------------------------
(* buffer_index is never compared with the size of the buffer.  When the   *)
(* buffer is full, the next character or zero is written behind its end,   *)
(* and a newline takes the byte behind its end for the zero of the last    *)
(* part.  From there on the behaviour is undefined: nothing happens, the   *)
(* process is killed, or lines of before are overwritten.                  *)
NeedsByte == InString \/ (Separates /\ was_code) \/ Current = NEWLINE
               \/ (InCode /\ ~Escapes)

Overrun ==
  /\ ~Done /\ ~overrun
  /\ NeedsByte /\ ~InBuffer
  /\ overrun' = TRUE
  /\ UNCHANGED << text, at, buffer, flags, escape, starts, lines, errors_found >>

-----------------------------------------------------------------------------
Next ==
  \/ DropSeparator \/ KeepSeparator \/ EndPart \/ UnexpectedComma
  \/ StartComment \/ DropSpace
  \/ EmptyLine \/ EndLine
  \/ DropComment \/ UnexpectedBracket \/ TooManyOperands
  \/ EscapeNext \/ AddCharacter
  \/ Overrun

Spec == Init /\ [][Next]_vars
FairSpec == Spec /\ WF_vars(Next)

-----------------------------------------------------------------------------
(* The C string that starts behind the first n characters of a buffer, and *)
(* the parts of a line as parse_source_lvl2 reads them.                    *)
CString(b, n) ==
  LET ends == {j \in n + 1 .. Len(b) : b[j] = NUL}
  IN  SubSeq(b, n + 1, (CHOOSE j \in ends : \A i \in ends : j <= i) - 1)

PartsOf(line) == [k \in DOMAIN line.starts |-> CString(line.buffer, line.starts[k])]
Delivered == [k \in DOMAIN lines |-> PartsOf(lines[k])]

(* Every variable has the type its C declaration gives it; the characters  *)
(* collected are in the buffer, the starts in the array of operands.       *)
TypeOK ==
  /\ text \in Seq(Char)
  /\ at \in 1 .. Len(text)
  /\ buffer \in Seq(Char) /\ Len(buffer) <= BUFFER_SIZE
  /\ overrun \in BOOLEAN
  /\ starts \in Seq(Nat) /\ Len(starts) <= MAX_OPERANDS
  /\ was_code \in BOOLEAN /\ comment \in BOOLEAN /\ escape \in BOOLEAN
  /\ is_register_info \in BOOLEAN /\ string_char \in Quotes \cup {NUL}
  /\ lines \in Seq([buffer : Seq(Char), starts : Seq(Nat)])
  /\ errors_found \in BOOLEAN

(* Nothing but a line that is itself as long as the buffer makes the       *)
(* splitter leave the buffer, whatever its characters do (strings, escapes *)
(* and brackets that stay open, parts too many) and however the lines      *)
(* before it ended.                                                        *)
OnlyLongLinesOverrun ==
  overrun =>
    /\ at > BUFFER_SIZE
    /\ \A j \in at - BUFFER_SIZE .. at - 1 : text[j] # NEWLINE

(* The parts of every line that is handed over are C strings that end      *)
(* within the bytes copied for the line.                                   *)
PartsInBuffer ==
  \A k \in DOMAIN lines :
    LET line == lines[k]
    IN  \A p \in DOMAIN line.starts :
          \E j \in line.starts[p] + 1 .. Len(line.buffer) : line.buffer[j] = NUL
=============================================================================
