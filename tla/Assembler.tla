----------------------------- MODULE Assembler -----------------------------
(***************************************************************************)
(* The whole program: main of main.c, which reads its options and opens    *)
(* the two files, and assemble of assembler.c, which runs the stages one   *)
(* after the other and gives up at the first that reports an error.  The   *)
(* stages are the modules LineSplitter, LineParser, Lexer and Linker.      *)
(***************************************************************************)
EXTENDS Integers, Sequences

CONSTANTS
  Letters, BUFFER_SIZE, PageZero, ElfBase,
  Dashed,        \* the words that start with a dash
  Commands,      \* the arguments the program may be called with
  FileSystems,   \* the files there may be, from names to texts
  DiskMayFill

ASSUME CommandsAssumption == \A c \in Commands : c \in Seq(STRING)

VARIABLES
  args,              \* argv[1 .. argc - 1]
  option_args, output_format,
  files,             \* the texts of the files there are, by name
  stage,             \* what the program is doing
  exit_code,
  (* parse_source_lvl1 *)
  text, at, buffer, overrun, starts, was_code, comment, escape, is_register_info,
  string_char, lines_lvl1,
  (* parse_source_lvl2 and lex_source, whose loops both count to line_num *)
  split_lines,       \* the strings that lines_lvl1 points to
  next, lines_lvl2, current_segment_type, segments, label_definitions,
  errors_found,
  (* write_exec *)
  exec_data, seg, rep, writer, out, position, file, disk_full, mode

command == << args, option_args, output_format >>
outcome == << files, stage, exit_code >>
level1  == << text, at, buffer, overrun, starts, was_code, comment, escape,
              is_register_info, string_char, lines_lvl1 >>
level2  == << split_lines, next, lines_lvl2 >>
lexed   == << current_segment_type, segments, label_definitions >>
written == << exec_data, seg, rep, writer, out, position, file, disk_full, mode >>
vars == << command, outcome, level1, level2, lexed, errors_found, written >>

(* The stages, each with the theorems about it, which those about the whole *)
(* program rest on.  Their inputs come from the stage before.              *)
Splitter == INSTANCE LineSplitterProofs WITH Texts <- {}, lines <- lines_lvl1
Parser == INSTANCE LineParserProofs WITH
            Sources <- {}, lines <- split_lines, lines_out <- lines_lvl2
Lexer  == INSTANCE LexerProofs WITH Lines <- {}, MaxLines <- 0, lines <- lines_lvl2
Writer == INSTANCE LinkerProofs WITH
            Inputs <- {}, Modes <- {}, format <- output_format, pc <- writer

(* What the stages assume of their constants; a source holds characters    *)
(* that have a value.                                                      *)
ASSUME LettersAssumption ==
  /\ Letters \subseteq DOMAIN Parser!Codes
  /\ Letters \cap (Splitter!Quotes \cup Splitter!Separators \cup Splitter!Brackets
                    \cup {"NUL", "NEWLINE", "BACKSLASH"}) = {}
ASSUME FilesAssumption ==
  \A f \in FileSystems : \A name \in DOMAIN f : f[name] \in Seq(Splitter!Char)
ASSUME BufferSizeAssumption == BUFFER_SIZE \in Nat \ {0}
ASSUME PageZeroAssumption == PageZero \in Nat /\ PageZero % Writer!Page = 0
ASSUME ElfBaseAssumption == ElfBase \in Nat /\ ElfBase % Writer!Page = 0
ASSUME DiskAssumption == DiskMayFill \in BOOLEAN
ASSUME StringAssumption == "none" \in STRING

-----------------------------------------------------------------------------
Init ==
  /\ args \in Commands /\ files \in FileSystems
  /\ option_args = 0 /\ output_format = "bin"
  /\ stage = "options" /\ exit_code = 0
  /\ text = << >> /\ at = 1 /\ buffer = << >> /\ overrun = FALSE /\ starts = << >>
  /\ was_code = FALSE /\ comment = FALSE /\ escape = FALSE
  /\ is_register_info = FALSE /\ string_char = "NUL" /\ lines_lvl1 = << >>
  /\ split_lines = << >> /\ next = 1 /\ lines_lvl2 = << >>
  /\ current_segment_type = Writer!TEXT
  /\ segments = [s \in Writer!SegmentTypes |-> Lexer!EmptySegment]
  /\ label_definitions = << >>
  /\ errors_found = FALSE
  /\ exec_data = [segment_offsets |-> [s \in Writer!SegmentTypes |-> 0],
                  present |-> {}]
  /\ seg = 0 /\ rep = 1 /\ writer = "prepare"
  /\ out = 0 /\ position = 0 /\ file = {} /\ disk_full = FALSE
  /\ mode = [read |-> Writer!Who, execute |-> {}]

Exit(code) == stage' = "exit" /\ exit_code' = code
Continue(to) == stage' = to /\ UNCHANGED exit_code
Stages == << level1, level2, lexed, errors_found, written >>

-----------------------------------------------------------------------------
(* The options; arg is argv[option_args + 1].                              *)
arg == args[option_args + 1]
AtOption == /\ stage = "options"
            /\ option_args < Len(args) /\ arg \in Dashed

Help ==
  /\ AtOption /\ arg = "-h"
  /\ Exit(0)
  /\ UNCHANGED << command, files, Stages >>

(* get_exec_type.                                                          *)
Formats == {"bin", "fexec", "macho64", "elf"}

(* Bug: a format that get_exec_type does not know is taken.                *)
KnownFormatAny(name) == name # ""
KnownFormat(name) == name \in Formats

FormatGiven ==
  option_args + 2 <= Len(args) /\ KnownFormat(args[option_args + 2])

FormatOption ==
  /\ AtOption /\ arg = "-f" /\ FormatGiven
  /\ output_format' = args[option_args + 2]
  /\ option_args' = option_args + 2
  /\ UNCHANGED << args, outcome, Stages >>

BadFormatOption ==
  /\ AtOption /\ arg = "-f" /\ ~FormatGiven
  /\ Exit(1)
  /\ UNCHANGED << command, files, Stages >>

UnknownOption ==
  /\ AtOption /\ arg \notin {"-h", "-f"}
  /\ Exit(1)
  /\ UNCHANGED << command, files, Stages >>

HasFiles == Len(args) - option_args >= 2
source_file == args[option_args + 1]
output_file == args[option_args + 2]

OptionsRead ==
  /\ stage = "options" /\ ~AtOption
  /\ IF HasFiles THEN Continue("open source") ELSE Exit(1)
  /\ UNCHANGED << command, files, Stages >>

-----------------------------------------------------------------------------
(* fopen may fail, and fails for a source that is not there.               *)
OpenSource ==
  /\ stage = "open source"
  /\ source_file \in DOMAIN files
  /\ Continue("open output")
  /\ UNCHANGED << command, files, Stages >>

(* Bug: the output is opened, and so emptied, for reading and writing too, *)
(* which leaves what it held behind the end of what is written.            *)
EmptiedNot == [name \in DOMAIN files \cup {output_file} |->
                 IF name \in DOMAIN files THEN files[name] ELSE << >>]

(* The mode "w" creates or empties the output: also when it is the source, *)
(* which is read only afterwards.                                          *)
Emptied == [name \in DOMAIN files \cup {output_file} |->
              IF name = output_file THEN << >> ELSE files[name]]

OpenOutput ==
  /\ stage = "open output"
  /\ files' = Emptied
  /\ Continue("read")
  /\ UNCHANGED << command, Stages >>

OpenFails ==
  /\ stage \in {"open source", "open output"}
  /\ Exit(1)
  /\ UNCHANGED << command, files, Stages >>

-----------------------------------------------------------------------------
(* assemble: the source with a newline and a NUL behind it.                *)
ReadSource ==
  /\ stage = "read"
  /\ text' = files[source_file] \o << "NEWLINE", "NUL" >>
  /\ Continue("split")
  /\ UNCHANGED << command, files, at, buffer, overrun, starts, was_code, comment,
                  escape, is_register_info, string_char, lines_lvl1, level2, lexed,
                  errors_found, written >>

(* With a line that leaves the buffer it gets to Undefined and no further. *)
Split ==
  /\ stage = "split" /\ Splitter!Next
  /\ UNCHANGED << command, outcome, level2, lexed, written >>

Parse ==
  /\ stage = "parse" /\ UNCHANGED level1 /\ Parser!Next
  /\ UNCHANGED << command, outcome, lexed, written >>

Lex ==
  /\ stage = "lex" /\ Lexer!Next
  /\ UNCHANGED << command, outcome, level1, split_lines, written >>

Write ==
  /\ stage = "write" /\ Writer!Next
  /\ UNCHANGED << command, outcome, level1, level2, current_segment_type, errors_found >>

(* Bug: only the messages tell that a stage has failed.                    *)
MayContinueAnyway == TRUE
MayContinue == ~errors_found

StageDone == \/ stage = "split" /\ Splitter!Done
             \/ stage = "parse" /\ Parser!Done
             \/ stage = "lex" /\ Lexer!Done

(* i starts again for the next stage.                                      *)
NextStage ==
  /\ StageDone /\ MayContinue
  /\ \/ stage = "split" /\ Continue("parse")
     \/ stage = "parse" /\ Continue("lex")
     \/ stage = "lex" /\ Continue("check")
  /\ next' = 1
  /\ split_lines' = Splitter!Delivered
  /\ UNCHANGED << command, files, level1, lines_lvl2, lexed, errors_found, written >>

StageFailed ==
  /\ StageDone /\ ~MayContinue
  /\ Exit(1)
  /\ UNCHANGED << command, files, Stages >>

(* no_code_generated.                                                      *)
CheckCode ==
  /\ stage = "check"
  /\ IF \E s \in Writer!SegmentTypes : segments[s].opcodes # << >>
       THEN Continue("write") ELSE Exit(1)
  /\ UNCHANGED << command, files, Stages >>

(* Bug: assemble returns what write_exec returns.                          *)
VerdictSwapped == IF writer = "failed" THEN 0 ELSE 1

(* write_exec returns true for an error, assemble for success.             *)
Verdict == IF writer = "failed" THEN 1 ELSE 0

Finish ==
  /\ stage = "write" /\ writer \in {"done", "failed"}
  /\ Exit(Verdict)
  /\ UNCHANGED << command, files, Stages >>

-----------------------------------------------------------------------------
Others ==
  \/ Help \/ FormatOption \/ BadFormatOption \/ UnknownOption \/ OptionsRead
  \/ OpenSource \/ OpenOutput \/ OpenFails
  \/ ReadSource \/ Split \/ Lex \/ Write
  \/ NextStage \/ StageFailed \/ CheckCode \/ Finish

Next == Parse \/ Others

(* A step of Next that moves the counter of parse_source_lvl2 is a step of *)
(* Parse, which is enabled as long as the counter has not reached its end. *)
(* (ENABLED Parse itself, which says the same, takes TLC very long.)       *)
ParseOn == stage = "parse" /\ ~Parser!Done /\ next' = next + 1

Spec == Init /\ [][Next]_vars
Fairness == WF_vars(Others) /\ WF_next(ParseOn)
FairSpec == Spec /\ Fairness

-----------------------------------------------------------------------------
(* The options are within the arguments, and the format is one that        *)
(* write_exec knows.                                                       *)
TypeOK ==
  /\ option_args \in 0 .. Len(args)
  /\ output_format \in Formats
  /\ exit_code \in {0, 1}
  /\ stage \in {"options", "open source", "open output", "read", "split",
                "parse", "lex", "check", "write", "exit"}

(* Every stage is given what it relies on: the splitter a source that ends *)
(* in a newline and a NUL, parse_source_lvl2 lines of at most MAX_OPERANDS *)
(* terminated parts, lex_source lines whose operands were all written, and *)
(* the linker fields inside their segments and labels without duplicates.  *)
StagesGetWhatTheyNeed ==
  /\ stage = "split" => /\ Len(text) >= 2
                        /\ text[Len(text) - 1] = "NEWLINE" /\ text[Len(text)] = "NUL"
  /\ stage = "parse" => /\ Splitter!PartsInBuffer
                        /\ \A k \in DOMAIN lines_lvl1 :
                             Len(lines_lvl1[k].starts) <= Splitter!MAX_OPERANDS
  /\ stage = "lex" => lines_lvl2 \in Seq(Parser!Line)
  /\ stage = "write" => Writer!LexerOutput([segments |-> segments,
                                            label_definitions |-> label_definitions])

-----------------------------------------------------------------------------
(* The files as somebody else sees them: what was written to the output is *)
(* in it.                                                                  *)
Opened == stage = "read" \/ text # << >>
Contents(source, image) == [source |-> source, image |-> image]

(* What happens from there on is not in the model.                         *)
Undefined == stage = "split" /\ overrun

NoOutput == ""

OutputName == IF Opened THEN output_file ELSE NoOutput
FilesSeen ==
  [name \in DOMAIN files |->
     Contents(files[name], IF Opened /\ name = output_file THEN file ELSE {})]
Status ==
  CASE stage = "exit" -> IF exit_code = 0 THEN "succeeded" ELSE "failed"
    [] Undefined -> "undefined"
    [] stage # "exit" /\ ~Undefined /\ file # {} -> "writing"
    [] stage # "exit" /\ ~Undefined /\ file = {} -> IF Opened THEN "opened" ELSE "started"

Translating ==
  INSTANCE Translation WITH
    Names  <- UNION {{c[k] : k \in DOMAIN c} : c \in Commands},
    NoFile <- NoOutput,
    Empty  <- Contents(<< >>, {}),
    output <- OutputName, files <- FilesSeen, status <- Status

(* Whatever the command, the files and the source: only the output is ever *)
(* touched, a failure leaves it as it was or empty, a success comes after  *)
(* a write (which may have found the disk full), and the program ends, or  *)
(* gets to a line that leaves the buffer, with the output still empty.     *)
ImplementsTranslation == Translating!Spec
=============================================================================
