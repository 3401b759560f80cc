-------------------------- MODULE AssemblerProofs --------------------------
(***************************************************************************)
(* The whole program, for every command line, every set of files and every *)
(* source: what each stage relies on is what the stage before has left.    *)
(* The stages themselves are the theorems about their modules; here their  *)
(* invariants are handed on.                                               *)
(***************************************************************************)
EXTENDS Assembler, SequenceTheorems, TLAPS

-----------------------------------------------------------------------------
(* The stages are instances whose assumptions hold.                        *)
LEMMA SplitterAssumptions ==
  /\ Splitter!LettersAssumption /\ Splitter!BufferSizeAssumption
  /\ Splitter!TextsAssumption
  BY LettersAssumption, BufferSizeAssumption
     DEF Splitter!LettersAssumption, Splitter!BufferSizeAssumption,
         Splitter!TextsAssumption,
         Splitter!NUL, Splitter!NEWLINE, Splitter!BACKSLASH

LEMMA ParserAssumptions == Parser!StringAssumption /\ Parser!SourcesAssumption
  BY StringAssumption DEF Parser!StringAssumption, Parser!SourcesAssumption

LEMMA LexerAssumptions == Lexer!LinesAssumption /\ Lexer!MaxLinesAssumption
  BY SMT DEF Lexer!LinesAssumption, Lexer!MaxLinesAssumption

LEMMA WriterAssumptions ==
  /\ Writer!PageZeroAssumption /\ Writer!ElfBaseAssumption
  /\ Writer!ModesAssumption /\ Writer!DiskAssumption /\ Writer!InputsAssumption
  BY PageZeroAssumption, ElfBaseAssumption, DiskAssumption
     DEF Writer!PageZeroAssumption, Writer!ElfBaseAssumption,
         Writer!ModesAssumption, Writer!DiskAssumption, Writer!InputsAssumption

LEMMA SplitterStep == Splitter!IInv /\ [Splitter!Next]_Splitter!vars => Splitter!IInv'
  BY SplitterAssumptions, Splitter!NextIInv

LEMMA ParserStep == Parser!IInv /\ [Parser!Next]_Parser!vars => Parser!IInv'
  BY ParserAssumptions, Parser!NextIInv

LEMMA LexerStep == Lexer!IInv /\ [Lexer!Next]_Lexer!vars => Lexer!IInv'
  BY LexerAssumptions, Lexer!NextIInv

LEMMA WriterStep == Writer!IInv /\ [Writer!Next]_Writer!vars => Writer!IInv'
  BY WriterAssumptions, Writer!NextIInv
LEMMA SplitterStarts == Splitter!Started => Splitter!IInv
  BY SplitterAssumptions, Splitter!StartedIInv

LEMMA ParserStarts == Parser!Started => Parser!IInv
  BY ParserAssumptions, Parser!StartedIInv

LEMMA LexerStarts == Lexer!Started => Lexer!IInv
  BY LexerAssumptions, Lexer!StartedIInv

LEMMA WriterStarts == Writer!Started => Writer!IInv
  BY WriterAssumptions, Writer!StartedIInv

-----------------------------------------------------------------------------
(* The data that the stages hand over has one type on both sides.          *)
LEMMA LinesAgree == Parser!Line = Lexer!Line
<1>1. Parser!INT32_MAX = Lexer!INT32_MAX
  BY SMT DEF Parser!INT32_MAX, Lexer!INT32_MAX
<1>2. Parser!Displacement = Lexer!Displacement
  BY <1>1, Zenon DEF Parser!Displacement, Lexer!Displacement
<1>3. Parser!RegisterOperand = Lexer!RegisterOperand
  BY <1>2, Zenon DEF Parser!RegisterOperand, Lexer!RegisterOperand, Parser!Register, Lexer!Register
<1>4. Parser!Byte = Lexer!Byte  BY SMT DEF Parser!Byte, Lexer!Byte
<1>5. /\ Parser!ImmediateOperand = Lexer!ImmediateOperand
      /\ Parser!StringOperand = Lexer!StringOperand
      /\ Parser!LabelOperand = Lexer!LabelOperand
  BY <1>4, Zenon
     DEF Parser!ImmediateOperand, Parser!StringOperand, Parser!LabelOperand, Parser!Immediate,
         Lexer!ImmediateOperand, Lexer!StringOperand, Lexer!LabelOperand, Lexer!Immediate
<1>6. Parser!Operand = Lexer!Operand
  BY <1>3, <1>5, Zenon DEF Parser!Operand, Lexer!Operand
<1>7. Parser!Operands = Lexer!Operands
  BY <1>6, Zenon DEF Parser!Operands, Lexer!Operands, Parser!MAX_OPERANDS, Lexer!MAX_OPERANDS
<1> QED  BY <1>7, Zenon DEF Parser!Line, Lexer!Line

LEMMA SegmentsAgree ==
  /\ Lexer!SegmentTypes = Writer!SegmentTypes
  /\ Lexer!Segment = Writer!Segment /\ Lexer!Label = Writer!Label
  /\ \A t : Lexer!PatchWidth(t) = Writer!PatchWidth(t)
<1>1. Lexer!SegmentTypes = Writer!SegmentTypes
  BY DEF Lexer!SegmentTypes, Writer!SegmentTypes
<1>2. Lexer!Byte = Writer!Byte  BY SMT DEF Lexer!Byte, Writer!Byte
<1>3. Lexer!Segment = Writer!Segment
  BY <1>2, Zenon
     DEF Lexer!Segment, Lexer!Replacement, Lexer!ReplacementType,
         Writer!Segment, Writer!Replacement, Writer!ReplacementType
<1>4. Lexer!Label = Writer!Label
  BY <1>1, Zenon DEF Lexer!Label, Writer!Label
<1>5. \A t : Lexer!PatchWidth(t) = Writer!PatchWidth(t)
  BY DEF Lexer!PatchWidth, Writer!PatchWidth
<1> QED  BY <1>1, <1>3, <1>4, <1>5

LEMMA SubsetSeq == \A S, T : S \subseteq T => Seq(S) \subseteq Seq(T)
  BY SMT

(* Every character of a part has a value.                                  *)
LEMMA PartCharsHaveCodes == Splitter!PartChar \subseteq DOMAIN Parser!Codes
<1>1. \A k \in 1 .. 14 : Parser!PunctuationChars[k] \in DOMAIN Parser!Codes
  <2>1. Parser!Range(Parser!PunctuationChars) \subseteq DOMAIN Parser!Codes
    BY DEF Parser!Codes
  <2>2. DOMAIN Parser!PunctuationChars = 1 .. 14  BY DEF Parser!PunctuationChars
  <2> QED  BY <2>1, <2>2 DEF Parser!Range
<1> DEFINE P == Parser!PunctuationChars
<1>2. /\ P[1] = " " /\ P[2] = "DOUBLE_QUOTE" /\ P[4] = "'" /\ P[6] = ","
      /\ P[10] = ";" /\ P[11] = "[" /\ P[12] = "BACKSLASH" /\ P[13] = "]"
  BY DEF Parser!PunctuationChars
<1> HIDE DEF P
<1>3. {" ", "DOUBLE_QUOTE", "'", ",", ";", "[", "BACKSLASH", "]"}
        \subseteq DOMAIN Parser!Codes
  <2>1. {1, 2, 4, 6, 10, 11, 12, 13} \subseteq 1 .. 14  BY SMT
  <2>2. \A k \in 1 .. 14 : P[k] \in DOMAIN Parser!Codes  BY <1>1 DEF P
  <2> QED  BY <1>2, <2>1, <2>2
<1> QED
  BY <1>3, LettersAssumption
     DEF Splitter!PartChar, Splitter!InLine, Splitter!Char, Splitter!Quotes,
         Splitter!Separators, Splitter!Brackets, Splitter!NUL, Splitter!NEWLINE,
         Splitter!BACKSLASH

LEMMA PartsAreSourceLines == Seq(Splitter!PartsType) \subseteq Seq(Parser!SourceLine)
<1>1. Seq(Seq(Splitter!PartChar)) \subseteq Seq(Parser!Text)
  BY PartCharsHaveCodes, SubsetSeq DEF Parser!Text
<1>2. Splitter!MAX_OPERANDS = Parser!MAX_OPERANDS
  BY DEF Splitter!MAX_OPERANDS, Parser!MAX_OPERANDS
<1>3. Splitter!PartsType \subseteq Parser!SourceLine
  BY <1>1, <1>2 DEF Splitter!PartsType, Parser!SourceLine
<1> QED  BY <1>3, SubsetSeq
-----------------------------------------------------------------------------
(* What is true between the stages.  A stage that has not begun still has  *)
(* its variables as they were at first; one that runs keeps its invariant; *)
(* one that is over needs nothing any more.                                *)
Early == {"options", "open source", "open output", "read"}

SplitterFresh ==
  /\ text = << >> /\ at = 1 /\ buffer = << >> /\ overrun = FALSE /\ starts = << >>
  /\ was_code = FALSE /\ comment = FALSE /\ escape = FALSE
  /\ is_register_info = FALSE /\ string_char = "NUL" /\ lines_lvl1 = << >>
  /\ errors_found = FALSE

LexerFresh ==
  /\ current_segment_type = Writer!TEXT
  /\ segments = [s \in Writer!SegmentTypes |-> Lexer!EmptySegment]
  /\ label_definitions = << >>

WriterFresh ==
  /\ exec_data = [segment_offsets |-> [s \in Writer!SegmentTypes |-> 0],
                  present |-> {}]
  /\ seg = 0 /\ rep = 1 /\ writer = "prepare"
  /\ out = 0 /\ position = 0 /\ file = {} /\ disk_full = FALSE
  /\ mode = [read |-> Writer!Who, execute |-> {}]

(* The files that were named are there as soon as they were opened.        *)
CommandInv ==
  /\ TypeOK
  /\ args \in Commands
  /\ \A name \in DOMAIN files : files[name] \in Seq(Splitter!Char)
  /\ stage \notin {"options", "exit"} => HasFiles
  /\ stage \in {"open output", "read"} => source_file \in DOMAIN files
  /\ Opened => HasFiles /\ output_file \in DOMAIN files

SplitInv ==
  /\ stage \in Early => SplitterFresh
  /\ stage = "split" => Splitter!IInv
  /\ stage \in {"split", "parse", "lex", "check", "write"} => text # << >>

ParseInv ==
  /\ stage \in Early \cup {"split"} => lines_lvl2 = << >>
  /\ stage = "parse" => /\ Parser!IInv
                        /\ Splitter!PartsInBuffer
                        /\ \A k \in DOMAIN lines_lvl1 :
                             Len(lines_lvl1[k].starts) <= Splitter!MAX_OPERANDS

Handed == [segments |-> segments, label_definitions |-> label_definitions]
SomeCode == \E s \in Writer!SegmentTypes : segments[s].opcodes # << >>

LexInv ==
  /\ stage \in Early \cup {"split", "parse"} => LexerFresh
  /\ stage = "lex" => Lexer!IInv
  /\ stage = "check" /\ SomeCode => Writer!LexerOutput(Handed)

WriteInv ==
  /\ stage \notin {"write", "exit"} => WriterFresh
  /\ stage = "write" => Writer!IInv

IInv == CommandInv /\ SplitInv /\ ParseInv /\ LexInv /\ WriteInv

-----------------------------------------------------------------------------
LEMMA InitIInv == Init => IInv
<1> SUFFICES ASSUME Init PROVE IInv
  OBVIOUS
<1>1. stage = "options" /\ text = << >>  BY DEF Init
<1>2. CommandInv
  <2>1. TypeOK
    <3>1. args \in Seq(STRING)  BY CommandsAssumption DEF Init
    <3>2. 0 \in 0 .. Len(args)  BY SMT, <3>1
    <3> QED  BY <3>2 DEF Init, TypeOK, Formats
  <2>2. \A name \in DOMAIN files : files[name] \in Seq(Splitter!Char)
    BY FilesAssumption DEF Init
  <2>3. ~Opened  BY <1>1 DEF Opened
  <2> QED  BY <1>1, <2>1, <2>2, <2>3 DEF Init, CommandInv
<1>3. SplitInv  BY <1>1 DEF Init, SplitInv, SplitterFresh
<1>4. ParseInv  BY <1>1 DEF Init, ParseInv
<1>5. LexInv  BY <1>1 DEF Init, LexInv, LexerFresh
<1>6. WriteInv  BY <1>1 DEF Init, WriteInv, WriterFresh
<1> QED  BY <1>2, <1>3, <1>4, <1>5, <1>6 DEF IInv

(* Whatever ends the program asks nothing of the stages any more.          *)
LEMMA ExitKeeps ==
  ASSUME IInv, stage' = "exit", exit_code' \in {0, 1},
         UNCHANGED << command, files, Stages >>, stage # "read"
  PROVE  IInv'
<1>1. UNCHANGED << args, option_args, output_format, files, text >>
  BY DEF command, Stages, level1
<1>2. CommandInv'
  <2>1. TypeOK'  BY <1>1 DEF IInv, CommandInv, TypeOK
  <2>2. Opened' => Opened  BY <1>1 DEF Opened
  <2> QED
    BY <1>1, <2>1, <2>2 DEF IInv, CommandInv, HasFiles, output_file
<1>3. SplitInv' /\ ParseInv' /\ LexInv' /\ WriteInv'
  BY DEF SplitInv, ParseInv, LexInv, WriteInv, Early
<1> QED  BY <1>2, <1>3 DEF IInv

(* As long as the source was not read no stage has begun.                  *)
LEMMA EarlyKeeps ==
  ASSUME IInv, stage \in Early, stage' \in Early, UNCHANGED Stages, CommandInv'
  PROVE  IInv'
<1>1. stage \notin {"split", "parse", "lex", "check", "write", "exit"}
      /\ stage' \notin {"split", "parse", "lex", "check", "write", "exit"}
  BY DEF Early
<1>2. SplitInv'
  BY <1>1 DEF IInv, SplitInv, SplitterFresh, Stages, level1
<1>3. ParseInv'  BY <1>1 DEF IInv, ParseInv, Stages, level2
<1>4. LexInv'  BY <1>1 DEF IInv, LexInv, LexerFresh, Stages, lexed
<1>5. WriteInv'  BY <1>1 DEF IInv, WriteInv, WriterFresh, Stages, written
<1> QED  BY <1>2, <1>3, <1>4, <1>5 DEF IInv

LEMMA ExitSteps ==
  IInv /\ (Help \/ BadFormatOption \/ UnknownOption \/ OpenFails \/ StageFailed \/ Finish)
    => IInv'
<1> SUFFICES ASSUME IInv,
                    \/ Help \/ BadFormatOption \/ UnknownOption \/ OpenFails
                    \/ StageFailed \/ Finish
             PROVE  IInv'
  OBVIOUS
<1>1. /\ stage' = "exit" /\ exit_code' \in {0, 1}
      /\ UNCHANGED << command, files, Stages >> /\ stage # "read"
  BY DEF Help, BadFormatOption, UnknownOption, OpenFails, StageFailed, Finish,
         AtOption, StageDone, Exit, Verdict
<1> QED  BY <1>1, ExitKeeps

-----------------------------------------------------------------------------
(* The command line and the files.                                         *)
LEMMA ArgsLength == IInv => Len(args) \in Nat /\ args \in Seq(STRING)
  BY CommandsAssumption, LenProperties DEF IInv, CommandInv

LEMMA FormatOptionIInv == IInv /\ FormatOption => IInv'
<1> SUFFICES ASSUME IInv, FormatOption PROVE IInv'
  OBVIOUS
<1>1. /\ stage = "options" /\ stage' = stage /\ UNCHANGED << args, outcome, Stages >>
      /\ option_args' = option_args + 2 /\ output_format' \in Formats
      /\ option_args + 2 <= Len(args)
  BY DEF FormatOption, AtOption, FormatGiven, KnownFormat, outcome
<1>2. option_args' \in 0 .. Len(args)
  BY SMT, <1>1, ArgsLength DEF IInv, CommandInv, TypeOK
<1>3. TypeOK'
  BY <1>1, <1>2 DEF IInv, CommandInv, TypeOK, outcome
<1>4. ~Opened'
  BY <1>1 DEF Opened, IInv, SplitInv, SplitterFresh, Early, Stages, level1
<1>5. CommandInv'
  BY <1>1, <1>3, <1>4 DEF IInv, CommandInv, outcome
<1> QED  BY <1>1, <1>5, EarlyKeeps DEF Early

LEMMA OptionsReadIInv == IInv /\ OptionsRead => IInv'
<1> SUFFICES ASSUME IInv, OptionsRead PROVE IInv'
  OBVIOUS
<1>1. stage = "options" /\ UNCHANGED << command, files, Stages >>
  BY DEF OptionsRead
<1>2. CASE ~HasFiles
  BY <1>1, <1>2, ExitKeeps DEF OptionsRead, Exit
<1>3. CASE HasFiles
  <2>1. stage' = "open source" /\ exit_code' = exit_code
    BY <1>3 DEF OptionsRead, Continue
  <2>2. TypeOK'  BY <1>1, <2>1 DEF IInv, CommandInv, TypeOK, command
  <2>3. ~Opened'
    BY <1>1, <2>1 DEF Opened, IInv, SplitInv, SplitterFresh, Early, Stages, level1
  <2>4. CommandInv'
    BY <1>1, <1>3, <2>1, <2>2, <2>3 DEF IInv, CommandInv, command, HasFiles
  <2> QED  BY <1>1, <2>1, <2>4, EarlyKeeps DEF Early
<1> QED  BY <1>2, <1>3

LEMMA OpenSourceIInv == IInv /\ OpenSource => IInv'
<1> SUFFICES ASSUME IInv, OpenSource PROVE IInv'
  OBVIOUS
<1>1. /\ stage = "open source" /\ stage' = "open output" /\ exit_code' = exit_code
      /\ source_file \in DOMAIN files /\ UNCHANGED << command, files, Stages >>
  BY DEF OpenSource, Continue
<1>2. TypeOK'  BY <1>1 DEF IInv, CommandInv, TypeOK, command
<1>3. ~Opened'
  BY <1>1 DEF Opened, IInv, SplitInv, SplitterFresh, Early, Stages, level1
<1>4. CommandInv'
  BY <1>1, <1>2, <1>3 DEF IInv, CommandInv, command, HasFiles, source_file
<1> QED  BY <1>1, <1>4, EarlyKeeps DEF Early

LEMMA OpenOutputIInv == IInv /\ OpenOutput => IInv'
<1> SUFFICES ASSUME IInv, OpenOutput PROVE IInv'
  OBVIOUS
<1>1. /\ stage = "open output" /\ stage' = "read" /\ exit_code' = exit_code
      /\ files' = Emptied /\ UNCHANGED << command, Stages >>
  BY DEF OpenOutput, Continue
<1>2. TypeOK'  BY <1>1 DEF IInv, CommandInv, TypeOK, command
<1>3. DOMAIN files' = DOMAIN files \cup {output_file}
  BY <1>1 DEF Emptied
<1>4. << >> \in Seq(Splitter!Char)  OBVIOUS
<1>5. \A name \in DOMAIN files' : files'[name] \in Seq(Splitter!Char)
  BY <1>1, <1>4 DEF Emptied, IInv, CommandInv
<1>6. HasFiles' /\ source_file' = source_file /\ output_file' = output_file
  BY <1>1 DEF IInv, CommandInv, command, HasFiles, source_file, output_file
<1>7. CommandInv'
  BY <1>1, <1>2, <1>3, <1>5, <1>6 DEF IInv, CommandInv, command
<1> QED  BY <1>1, <1>7, EarlyKeeps DEF Early
-----------------------------------------------------------------------------
(* The stages.                                                             *)
LEMMA SourceText ==
  ASSUME NEW source \in Seq(Splitter!Char), NEW t,
         t = source \o << "NEWLINE", "NUL" >>
  PROVE  /\ t \in Seq(Splitter!Char) /\ Len(t) >= 2
         /\ t[Len(t) - 1] = "NEWLINE" /\ t[Len(t)] = "NUL"
<1> DEFINE ends == << "NEWLINE", "NUL" >>
<1>1. "NEWLINE" \in Splitter!Char /\ "NUL" \in Splitter!Char
  BY DEF Splitter!Char, Splitter!NUL, Splitter!NEWLINE
<1>2. ends \in Seq(Splitter!Char)  BY <1>1
<1>3. Len(ends) = 2 /\ ends[1] = "NEWLINE" /\ ends[2] = "NUL"  OBVIOUS
<1> HIDE DEF ends
<1>4. t = source \o ends  BY DEF ends
<1>5. Len(source) \in Nat  BY LenProperties
<1>6. /\ t \in Seq(Splitter!Char) /\ Len(t) = Len(source) + 2
      /\ t[Len(source) + 1] = ends[1] /\ t[Len(source) + 2] = ends[2]
  BY SMT, <1>2, <1>3, <1>4, <1>5
<1>7. Len(t) >= 2 /\ Len(t) - 1 = Len(source) + 1  BY SMT, <1>5, <1>6
<1> QED  BY <1>3, <1>6, <1>7

LEMMA ReadSourceIInv == IInv /\ ReadSource => IInv'
<1> SUFFICES ASSUME IInv, ReadSource PROVE IInv'
  OBVIOUS
<1>1. /\ stage = "read" /\ stage' = "split" /\ exit_code' = exit_code
      /\ text' = files[source_file] \o << "NEWLINE", "NUL" >>
      /\ UNCHANGED << command, files, at, buffer, overrun, starts, was_code, comment,
                      escape, is_register_info, string_char, lines_lvl1, level2, lexed,
                      errors_found, written >>
  BY DEF ReadSource, Continue
<1>2. files[source_file] \in Seq(Splitter!Char)  BY <1>1 DEF IInv, CommandInv
<1>3. /\ text' \in Seq(Splitter!Char) /\ Len(text') >= 2
      /\ text'[Len(text') - 1] = "NEWLINE" /\ text'[Len(text')] = "NUL"
  BY <1>1, <1>2, SourceText
<1>4. text' # << >>
  <2>1. Len(<< >>) = 0  OBVIOUS
  <2> QED  BY SMT, <1>3, <2>1
<1>5. CommandInv'
  <2>1. TypeOK'  BY <1>1 DEF IInv, CommandInv, TypeOK, command
  <2>2. Opened  BY <1>1 DEF Opened
  <2> QED
    BY <1>1, <2>1, <2>2 DEF IInv, CommandInv, command, HasFiles, output_file
<1>6. Splitter!IInv'
  <2>1. SplitterFresh  BY <1>1 DEF IInv, SplitInv, Early
  <2>2. Splitter!Started'
    BY <1>1, <1>3, <2>1
       DEF SplitterFresh, Splitter!Started, Splitter!SourceEnds, Splitter!NUL,
           Splitter!NEWLINE
  <2> QED  BY <2>2, SplitterStarts, PTL
<1>7. SplitInv'  BY <1>1, <1>4, <1>6 DEF SplitInv, Early
<1>8. ParseInv'  BY <1>1 DEF IInv, ParseInv, Early, level2
<1>9. LexInv'  BY <1>1 DEF IInv, LexInv, LexerFresh, Early, lexed
<1>10. WriteInv'  BY <1>1 DEF IInv, WriteInv, WriterFresh, written
<1> QED  BY <1>5, <1>7, <1>8, <1>9, <1>10 DEF IInv

(* While a stage runs the command line, the files and the outcome stay.    *)
LEMMA CommandKeeps ==
  ASSUME IInv, UNCHANGED << command, outcome >>,
         stage \in {"split", "parse", "lex", "write"},
         text' # << >>
  PROVE  CommandInv'
<1>1. UNCHANGED << args, option_args, output_format, files, stage, exit_code >>
  BY DEF command, outcome
<1>2. TypeOK'  BY <1>1 DEF IInv, CommandInv, TypeOK
<1>3. Opened  BY DEF Opened, IInv, SplitInv
<1> QED
  BY <1>1, <1>2, <1>3 DEF IInv, CommandInv, HasFiles, output_file

LEMMA SplitIInv == IInv /\ Split => IInv'
<1> SUFFICES ASSUME IInv, Split PROVE IInv'
  OBVIOUS
<1>1. /\ stage = "split" /\ stage' = "split" /\ Splitter!Next
      /\ UNCHANGED << command, outcome, level2, lexed, written >>
  BY DEF Split, outcome
<1>2. Splitter!IInv'  BY <1>1, SplitterStep DEF IInv, SplitInv
<1>3. text' # << >>
  <2>1. Len(text') >= 2  BY <1>2 DEF Splitter!IInv, Splitter!SourceEnds
  <2>2. Len(<< >>) = 0  OBVIOUS
  <2> QED  BY SMT, <2>1, <2>2
<1>4. CommandInv'  BY <1>1, <1>3, CommandKeeps
<1>5. SplitInv'  BY <1>1, <1>2, <1>3 DEF SplitInv, Early
<1>6. ParseInv'  BY <1>1 DEF IInv, ParseInv, level2
<1>7. LexInv'  BY <1>1 DEF IInv, LexInv, LexerFresh, lexed
<1>8. WriteInv'  BY <1>1 DEF IInv, WriteInv, WriterFresh, written
<1> QED  BY <1>4, <1>5, <1>6, <1>7, <1>8 DEF IInv

LEMMA ParseIInv == IInv /\ Parse => IInv'
<1> SUFFICES ASSUME IInv, Parse PROVE IInv'
  OBVIOUS
<1>1. /\ stage = "parse" /\ stage' = "parse" /\ Parser!Next
      /\ UNCHANGED << command, outcome, level1, lexed, written >>
  BY DEF Parse, outcome
<1>2. Parser!IInv'  BY <1>1, ParserStep DEF IInv, ParseInv
<1>3. text' # << >>  BY <1>1 DEF IInv, SplitInv, level1
<1>4. CommandInv'  BY <1>1, <1>3, CommandKeeps
<1>5. SplitInv'  BY <1>1, <1>3 DEF SplitInv, Early
<1>6. ParseInv'
  <2>1. lines_lvl1' = lines_lvl1  BY <1>1 DEF level1
  <2>2. Splitter!PartsInBuffer' = Splitter!PartsInBuffer
    BY <2>1 DEF Splitter!PartsInBuffer
  <2> QED  BY <1>1, <1>2, <2>1, <2>2 DEF IInv, ParseInv, Early
<1>7. LexInv'  BY <1>1 DEF IInv, LexInv, LexerFresh, lexed
<1>8. WriteInv'  BY <1>1 DEF IInv, WriteInv, WriterFresh, written
<1> QED  BY <1>4, <1>5, <1>6, <1>7, <1>8 DEF IInv

LEMMA LexIInv == IInv /\ Lex => IInv'
<1> SUFFICES ASSUME IInv, Lex PROVE IInv'
  OBVIOUS
<1>1. /\ stage = "lex" /\ stage' = "lex" /\ Lexer!Next
      /\ UNCHANGED << command, outcome, level1, split_lines, written >>
  BY DEF Lex, outcome
<1>2. Lexer!IInv'  BY <1>1, LexerStep DEF IInv, LexInv
<1>3. text' # << >>  BY <1>1 DEF IInv, SplitInv, level1
<1>4. CommandInv'  BY <1>1, <1>3, CommandKeeps
<1>5. SplitInv'  BY <1>1, <1>3 DEF SplitInv, Early
<1>6. ParseInv'  BY <1>1 DEF ParseInv, Early
<1>7. LexInv'  BY <1>1, <1>2 DEF LexInv, Early
<1>8. WriteInv'  BY <1>1 DEF IInv, WriteInv, WriterFresh, written
<1> QED  BY <1>4, <1>5, <1>6, <1>7, <1>8 DEF IInv

LEMMA WriteIInv == IInv /\ Write => IInv'
<1> SUFFICES ASSUME IInv, Write PROVE IInv'
  OBVIOUS
<1>1. /\ stage = "write" /\ stage' = "write" /\ Writer!Next
      /\ UNCHANGED << command, outcome, level1, level2 >>
  BY DEF Write, outcome
<1>2. Writer!IInv'  BY <1>1, WriterStep DEF IInv, WriteInv
<1>3. text' # << >>  BY <1>1 DEF IInv, SplitInv, level1
<1>4. CommandInv'  BY <1>1, <1>3, CommandKeeps
<1>5. SplitInv' /\ ParseInv' /\ LexInv'
  BY <1>1, <1>3 DEF SplitInv, ParseInv, LexInv, Early
<1>6. WriteInv'  BY <1>1, <1>2 DEF WriteInv
<1> QED  BY <1>4, <1>5, <1>6 DEF IInv
-----------------------------------------------------------------------------
(* From a stage to the next.                                               *)
LEMMA FromSplit ==
  ASSUME IInv, NextStage, stage = "split"
  PROVE  ParseInv'
<1>1. /\ stage' = "parse" /\ next' = 1 /\ split_lines' = Splitter!Delivered
      /\ errors_found = FALSE
      /\ UNCHANGED << level1, lines_lvl2, errors_found >>
  BY DEF NextStage, Continue, MayContinue, IInv, SplitInv, Splitter!IInv, Splitter!TypeOK
<1>2. Splitter!IInv  BY DEF IInv, SplitInv
<1>3. Splitter!Delivered \in Seq(Splitter!PartsType)
  BY <1>2, SplitterAssumptions, Splitter!DeliveredIsTyped
<1>4. split_lines' \in Seq(Parser!SourceLine)
  BY <1>1, <1>3, PartsAreSourceLines
<1>5. lines_lvl2 = << >>  BY DEF IInv, ParseInv
<1>6. Parser!Started'  BY <1>1, <1>4, <1>5 DEF Parser!Started
<1>7. Parser!IInv'  BY <1>6, ParserStarts, PTL
<1>8. Splitter!PartsInBuffer
  BY <1>2, SplitterAssumptions, Splitter!PartsEndInBuffer
<1>9. \A k \in DOMAIN lines_lvl1 : Len(lines_lvl1[k].starts) <= Splitter!MAX_OPERANDS
  BY <1>2, SplitterAssumptions, Splitter!DeliveredIsTyped
<1>10. lines_lvl1' = lines_lvl1  BY <1>1 DEF level1
<1>11. Splitter!PartsInBuffer'  BY <1>8, <1>10 DEF Splitter!PartsInBuffer
<1> QED  BY <1>1, <1>7, <1>9, <1>10, <1>11 DEF ParseInv, Early

LEMMA FromParse ==
  ASSUME IInv, NextStage, stage = "parse"
  PROVE  LexInv'
<1>1. /\ stage' = "lex" /\ next' = 1
      /\ errors_found = FALSE
      /\ UNCHANGED << lines_lvl2, lexed, errors_found >>
  BY DEF NextStage, Continue, MayContinue, IInv, ParseInv, Parser!IInv, Parser!TypeOK
<1>2. lines_lvl2 \in Seq(Lexer!Line)
  BY <1>1, LinesAgree DEF IInv, ParseInv, Parser!IInv, Parser!TypeOK
<1>3. LexerFresh  BY DEF IInv, LexInv
<1>4. Lexer!Started'
  <2>1. Lexer!TEXT = Writer!TEXT  BY DEF Lexer!TEXT, Writer!TEXT
  <2> QED
    BY <1>1, <1>2, <1>3, <2>1, SegmentsAgree DEF Lexer!Started, LexerFresh, lexed
<1>5. Lexer!IInv'  BY <1>4, LexerStarts, PTL
<1> QED  BY <1>1, <1>5 DEF LexInv, Early

(* What the linker relies on is what the invariants of lex_source say.     *)
LEMMA LexedIsLexerOutput ==
  ASSUME Lexer!IInv, errors_found = FALSE, SomeCode
  PROVE  Writer!LexerOutput(Handed)
<1>1. /\ segments \in [Writer!SegmentTypes -> Writer!Segment]
      /\ label_definitions \in Seq(Writer!Label)
  BY SegmentsAgree DEF Lexer!IInv, Lexer!TypeOK
<1>2. Handed.segments = segments /\ Handed.label_definitions = label_definitions
  BY DEF Handed
<1>3. \E s \in Writer!SegmentTypes : Handed.segments[s].opcodes # << >>
  BY <1>2 DEF SomeCode
<1>4. ASSUME NEW s \in Writer!SegmentTypes,
             NEW k \in 1 .. Len(Handed.segments[s].replacements)
      PROVE  /\ Writer!FieldEnd(Handed.segments[s].replacements[k])
                  <= Len(Handed.segments[s].opcodes)
             /\ \A j \in 1 .. k - 1 :
                  Writer!FieldEnd(Handed.segments[s].replacements[j])
                    <= Handed.segments[s].replacements[k].address
  BY <1>2, SegmentsAgree
     DEF Lexer!IInv, Lexer!FieldsInv, Lexer!FieldsInBounds, Lexer!FieldsDisjoint,
         Writer!FieldEnd
<1>5. ASSUME NEW k \in 1 .. Len(Handed.label_definitions)
      PROVE  LET l == Handed.label_definitions[k]
             IN  /\ l.local_address <= Len(Handed.segments[l.segment].opcodes)
                 /\ \A j \in 1 .. k - 1 : Handed.label_definitions[j].name # l.name
  BY <1>2
     DEF Lexer!IInv, Lexer!LabelsInv, Lexer!LabelsInBounds, Lexer!LabelsDistinct
<1> HIDE DEF Handed
<1> QED  BY <1>1, <1>2, <1>3, <1>4, <1>5 DEF Writer!LexerOutput

LEMMA FromLex ==
  ASSUME IInv, NextStage, stage = "lex"
  PROVE  LexInv'
<1>1. /\ stage' = "check" /\ errors_found = FALSE
      /\ segments' = segments /\ label_definitions' = label_definitions
  BY DEF NextStage, Continue, MayContinue, IInv, LexInv, Lexer!IInv, Lexer!TypeOK, lexed
<1>2. SomeCode' => SomeCode  BY <1>1 DEF SomeCode
<1>3. SomeCode => Writer!LexerOutput(Handed)
  BY <1>1, LexedIsLexerOutput DEF IInv, LexInv
<1>4. Handed' = Handed  BY <1>1 DEF Handed
<1>5. SomeCode' => Writer!LexerOutput(Handed')  BY <1>2, <1>3, <1>4
<1>6. SomeCode' => Writer!LexerOutput(Handed)'
  BY <1>5 DEF Writer!LexerOutput, Writer!FieldEnd
<1> QED  BY <1>1, <1>6 DEF LexInv, Early

LEMMA NextStageIInv == IInv /\ NextStage => IInv'
<1> SUFFICES ASSUME IInv, NextStage PROVE IInv'
  OBVIOUS
<1>1. /\ \/ stage = "split" /\ stage' = "parse"
         \/ stage = "parse" /\ stage' = "lex"
         \/ stage = "lex" /\ stage' = "check"
      /\ exit_code' = exit_code
      /\ UNCHANGED << command, files, level1, lines_lvl2, lexed, errors_found, written >>
  BY DEF NextStage, Continue
<1>2. text # << >> /\ text' = text  BY <1>1 DEF IInv, SplitInv, level1
<1>3. CommandInv'
  <2>1. TypeOK'  BY <1>1 DEF IInv, CommandInv, TypeOK, command
  <2>2. Opened  BY <1>2 DEF Opened
  <2> QED
    BY <1>1, <2>1, <2>2 DEF IInv, CommandInv, command, HasFiles, output_file
<1>4. SplitInv'  BY <1>1, <1>2 DEF SplitInv, Early
<1>5. ParseInv'
  <2>1. CASE stage = "split"  BY <2>1, FromSplit
  <2>2. CASE stage # "split"  BY <1>1, <2>2 DEF ParseInv, Early
  <2> QED  BY <2>1, <2>2
<1>6. LexInv'
  <2>1. CASE stage = "split"
    BY <1>1, <2>1 DEF IInv, LexInv, LexerFresh, Early, lexed
  <2>2. CASE stage = "parse"  BY <2>2, FromParse
  <2>3. CASE stage = "lex"  BY <2>3, FromLex
  <2> QED  BY <1>1, <2>1, <2>2, <2>3
<1>7. WriteInv'  BY <1>1 DEF IInv, WriteInv, WriterFresh, written
<1> QED  BY <1>3, <1>4, <1>5, <1>6, <1>7 DEF IInv

LEMMA CheckCodeIInv == IInv /\ CheckCode => IInv'
<1> SUFFICES ASSUME IInv, CheckCode PROVE IInv'
  OBVIOUS
<1>1. stage = "check" /\ UNCHANGED << command, files, Stages >>  BY DEF CheckCode
<1>2. CASE ~SomeCode
  <2>1. stage' = "exit" /\ exit_code' = 1
    BY <1>2 DEF CheckCode, SomeCode, Exit
  <2> QED  BY <1>1, <2>1, ExitKeeps
<1>3. CASE SomeCode
  <2>1. stage' = "write" /\ exit_code' = exit_code
    BY <1>3 DEF CheckCode, SomeCode, Continue
  <2>2. text # << >> /\ text' = text  BY <1>1 DEF IInv, SplitInv, Stages, level1
  <2>3. CommandInv'
    <3>1. TypeOK'  BY <1>1, <2>1 DEF IInv, CommandInv, TypeOK, command
    <3>2. Opened  BY <2>2 DEF Opened
    <3> QED
      BY <1>1, <2>1, <3>1, <3>2 DEF IInv, CommandInv, command, HasFiles, output_file
  <2>4. SplitInv' /\ ParseInv' /\ LexInv'
    BY <2>1, <2>2 DEF SplitInv, ParseInv, LexInv, Early
  <2>5. Writer!Started
    <3>1. WriterFresh  BY <1>1 DEF IInv, WriteInv
    <3>2. Writer!LexerOutput(Handed)  BY <1>1, <1>3 DEF IInv, LexInv
    <3>3. output_format \in Writer!Formats
      BY DEF IInv, CommandInv, TypeOK, Formats, Writer!Formats
    <3>4. /\ segments \in [Writer!SegmentTypes -> Writer!Segment]
          /\ label_definitions \in Seq(Writer!Label)
      BY <3>2 DEF Writer!LexerOutput, Handed
    <3>5. Writer!InputInv  BY <3>2, <3>3, <3>4 DEF Writer!InputInv, Handed
    <3> QED  BY <3>1, <3>5 DEF Writer!Started, WriterFresh
  <2>6. Writer!IInv  BY <2>5, WriterStarts
  <2>7. UNCHANGED Writer!vars
    BY <1>1 DEF Stages, lexed, written, command, Writer!vars, Writer!stream
  <2>8. Writer!IInv'  BY <2>6, <2>7, WriterStep
  <2> QED  BY <2>1, <2>3, <2>4, <2>8 DEF IInv, WriteInv
<1> QED  BY <1>2, <1>3

LEMMA StutterIInv == IInv /\ UNCHANGED vars => IInv'
<1> SUFFICES ASSUME IInv, UNCHANGED vars PROVE IInv'
  OBVIOUS
<1>1. UNCHANGED << command, outcome, level1, level2, lexed, errors_found, written >>
  BY DEF vars
<1>2. stage' = stage /\ text' = text /\ lines_lvl1' = lines_lvl1 /\ lines_lvl2' = lines_lvl2
  BY <1>1 DEF outcome, level1, level2
<1>3. CommandInv'
  <2>1. TypeOK'  BY <1>1 DEF IInv, CommandInv, TypeOK, command, outcome
  <2>2. Opened' = Opened /\ HasFiles' = HasFiles
        /\ source_file' = source_file /\ output_file' = output_file
    BY <1>1, <1>2 DEF Opened, HasFiles, source_file, output_file, command
  <2> QED  BY <1>1, <2>1, <2>2 DEF IInv, CommandInv, command, outcome
<1>4. SplitInv'
  <2>1. UNCHANGED Splitter!vars  BY <1>1 DEF level1, Splitter!vars
  <2>2. stage = "split" => Splitter!IInv'  BY <2>1, SplitterStep DEF IInv, SplitInv
  <2> QED  BY <1>1, <1>2, <2>2 DEF IInv, SplitInv, SplitterFresh, level1
<1>5. ParseInv'
  <2>1. UNCHANGED Parser!vars  BY <1>1 DEF level2, Parser!vars
  <2>2. stage = "parse" => Parser!IInv'  BY <2>1, ParserStep DEF IInv, ParseInv
  <2>3. Splitter!PartsInBuffer' = Splitter!PartsInBuffer
    BY <1>2 DEF Splitter!PartsInBuffer
  <2> QED  BY <1>2, <2>2, <2>3 DEF IInv, ParseInv
<1>6. LexInv'
  <2>1. UNCHANGED Lexer!vars  BY <1>1 DEF level2, lexed, Lexer!vars
  <2>2. stage = "lex" => Lexer!IInv'  BY <2>1, LexerStep DEF IInv, LexInv
  <2>3. segments' = segments /\ label_definitions' = label_definitions
    BY <1>1 DEF lexed
  <2>4. SomeCode' = SomeCode /\ Handed' = Handed  BY <2>3 DEF SomeCode, Handed
  <2>5. Writer!LexerOutput(Handed)' = Writer!LexerOutput(Handed)
    BY <2>4 DEF Writer!LexerOutput, Writer!FieldEnd
  <2> QED  BY <1>1, <1>2, <2>2, <2>4, <2>5 DEF IInv, LexInv, LexerFresh, lexed
<1>7. WriteInv'
  <2>1. UNCHANGED Writer!vars
    BY <1>1 DEF lexed, written, command, Writer!vars, Writer!stream
  <2>2. stage = "write" => Writer!IInv'  BY <2>1, WriterStep DEF IInv, WriteInv
  <2> QED  BY <1>1, <1>2, <2>2 DEF IInv, WriteInv, WriterFresh, written
<1> QED  BY <1>3, <1>4, <1>5, <1>6, <1>7 DEF IInv

LEMMA NextIInv == IInv /\ [Next]_vars => IInv'
<1> SUFFICES ASSUME IInv, [Next]_vars PROVE IInv'
  OBVIOUS
<1>1. CASE FormatOption \/ OptionsRead \/ OpenSource \/ OpenOutput
  BY <1>1, FormatOptionIInv, OptionsReadIInv, OpenSourceIInv, OpenOutputIInv
<1>2. CASE Help \/ BadFormatOption \/ UnknownOption \/ OpenFails \/ StageFailed \/ Finish
  BY <1>2, ExitSteps
<1>3. CASE ReadSource \/ Split \/ Parse \/ Lex \/ Write
  BY <1>3, ReadSourceIInv, SplitIInv, ParseIInv, LexIInv, WriteIInv
<1>4. CASE NextStage \/ CheckCode  BY <1>4, NextStageIInv, CheckCodeIInv
<1>5. CASE UNCHANGED vars  BY <1>5, StutterIInv
<1> QED  BY <1>1, <1>2, <1>3, <1>4, <1>5 DEF Next, Others

(* main never reads an option behind its arguments, only takes a format    *)
(* that write_exec knows, and reports success or failure.                  *)
THEOREM AssemblerTypeCorrect == Spec => []TypeOK
<1>1. IInv => TypeOK  BY DEF IInv, CommandInv
<1> QED  BY <1>1, InitIInv, NextIInv, PTL DEF Spec

(* Whatever the source: every stage that assemble gets to finds what it    *)
(* relies on without checking, because the stage before it has left it so. *)
THEOREM AssemblerStagesFit == Spec => []StagesGetWhatTheyNeed
<1>1. IInv => StagesGetWhatTheyNeed
  <2> SUFFICES ASSUME IInv PROVE StagesGetWhatTheyNeed
    OBVIOUS
  <2>1. stage = "split" =>
          /\ Len(text) >= 2
          /\ text[Len(text) - 1] = "NEWLINE" /\ text[Len(text)] = "NUL"
    BY DEF IInv, SplitInv, Splitter!IInv, Splitter!SourceEnds, Splitter!NUL,
           Splitter!NEWLINE
  <2>2. stage = "parse" =>
          /\ Splitter!PartsInBuffer
          /\ \A k \in DOMAIN lines_lvl1 :
               Len(lines_lvl1[k].starts) <= Splitter!MAX_OPERANDS
    BY DEF IInv, ParseInv
  <2>3. stage = "lex" => lines_lvl2 \in Seq(Parser!Line)
    BY LinesAgree DEF IInv, LexInv, Lexer!IInv, Lexer!TypeOK
  <2>4. stage = "write" => Writer!LexerOutput([segments |-> segments,
                                               label_definitions |-> label_definitions])
    BY DEF IInv, WriteInv, Writer!IInv, Writer!InputInv
  <2> QED  BY <2>1, <2>2, <2>3, <2>4 DEF StagesGetWhatTheyNeed
<1> QED  BY <1>1, InitIInv, NextIInv, PTL DEF Spec
-----------------------------------------------------------------------------
(* What the whole program promises about files.                            *)
LEMMA InitTranslates == Init => Translating!Init
<1> SUFFICES ASSUME Init PROVE Translating!Init
  OBVIOUS
<1>1. stage = "options" /\ text = << >> /\ file = {}  BY DEF Init
<1>2. ~Opened  BY <1>1 DEF Opened
<1>3. Status = "started" /\ OutputName = NoOutput
  BY <1>1, <1>2 DEF Status, Undefined, OutputName
<1> QED  BY <1>3 DEF Translating!Init

(* No step is taken from where a line has left the buffer.                 *)
LEMMA StepIsDefined ==
  ASSUME ReadSource \/ Split \/ Parse \/ Lex \/ NextStage, stage = "split"
  PROVE  ~overrun
<1>1. Split \/ NextStage  BY DEF ReadSource, Parse, Lex
<1>2. Splitter!Next => ~overrun
  BY DEF Splitter!Next, Splitter!DropSeparator, Splitter!KeepSeparator,
         Splitter!EndPart, Splitter!UnexpectedComma, Splitter!StartComment,
         Splitter!DropSpace, Splitter!EmptyLine, Splitter!EndLine,
         Splitter!EndsLine, Splitter!DropComment, Splitter!UnexpectedBracket,
         Splitter!TooManyOperands, Splitter!EscapeNext, Splitter!AddCharacter,
         Splitter!Overrun, Splitter!TakePlain, Splitter!Take
<1>3. Split => ~overrun  BY <1>2 DEF Split
<1>4. NextStage => ~overrun  BY DEF NextStage, StageDone, Splitter!Done
<1> QED  BY <1>1, <1>3, <1>4

(* A step that nobody sees.                                                *)
LEMMA UnseenStep ==
  ASSUME stage # "exit", stage' # "exit", Opened' = Opened,
         ~Undefined, ~Undefined',
         Opened => output_file' = output_file, UNCHANGED << files, file >>
  PROVE  UNCHANGED Translating!vars
<1>1. OutputName' = OutputName  BY DEF OutputName
<1>2. FilesSeen' = FilesSeen  BY DEF FilesSeen, Contents
<1>3. Status' = Status  BY DEF Status
<1> QED  BY <1>1, <1>2, <1>3 DEF Translating!vars

(* The end, with nothing but the verdict to be seen of it.                 *)
LEMMA SeenExit ==
  ASSUME stage # "exit", stage # "read", stage' = "exit",
         UNCHANGED << command, files, Stages >>
  PROVE  /\ UNCHANGED << OutputName, FilesSeen >>
         /\ Status' = IF exit_code' = 0 THEN "succeeded" ELSE "failed"
<1>1. UNCHANGED << args, option_args, files, file, text >>
  BY DEF command, Stages, level1, written
<1>2. Opened' = Opened /\ output_file' = output_file
  BY <1>1 DEF Opened, output_file
<1>3. OutputName' = OutputName  BY <1>2 DEF OutputName
<1>4. FilesSeen' = FilesSeen  BY <1>1, <1>2 DEF FilesSeen, Contents
<1>5. Status' = IF exit_code' = 0 THEN "succeeded" ELSE "failed"
  BY DEF Status, Undefined
<1> QED  BY <1>3, <1>4, <1>5

(* As long as the linker has not begun nothing was written.                *)
LEMMA StatusBeforeWriting ==
  ASSUME IInv, stage \notin {"write", "exit"}
  PROVE  /\ file = {}
         /\ stage \in {"options", "open source", "open output"} =>
              ~Opened /\ Status = "started"
         /\ stage \in {"read", "split", "parse", "lex", "check"} =>
              Opened /\ Status = IF Undefined THEN "undefined" ELSE "opened"
         /\ stage # "split" => ~Undefined
<1>1. file = {}  BY DEF IInv, WriteInv, WriterFresh
<1>2. stage \in {"options", "open source", "open output"} => ~Opened
  BY DEF IInv, SplitInv, SplitterFresh, Early, Opened
<1>3. stage \in {"read", "split", "parse", "lex", "check"} => Opened
  BY DEF IInv, SplitInv, Opened
<1>4. stage # "split" => ~Undefined  BY DEF Undefined
<1> QED  BY <1>1, <1>2, <1>3, <1>4 DEF Status

LEMMA ExitTranslates ==
  IInv /\ (Help \/ BadFormatOption \/ UnknownOption \/ OpenFails \/ StageFailed)
    => Translating!Next
<1> SUFFICES ASSUME IInv,
                    Help \/ BadFormatOption \/ UnknownOption \/ OpenFails \/ StageFailed
             PROVE  Translating!Next
  OBVIOUS
<1>1. CASE Help
  <2>1. /\ stage = "options" /\ stage' = "exit" /\ exit_code' = 0
        /\ UNCHANGED << command, files, Stages >>
    BY <1>1 DEF Help, AtOption, Exit
  <2>2. Status = "started"  BY <2>1, StatusBeforeWriting
  <2> QED  BY <2>1, <2>2, SeenExit DEF Translating!Next, Translating!Succeed
<1>2. CASE BadFormatOption \/ UnknownOption \/ OpenFails \/ StageFailed
  <2>1. /\ stage \in {"options", "open source", "open output", "split", "parse", "lex"}
        /\ stage' = "exit" /\ exit_code' = 1
        /\ UNCHANGED << command, files, Stages >>
    BY <1>2 DEF BadFormatOption, UnknownOption, OpenFails, StageFailed, StageDone,
                AtOption, Exit
  <2>2. ~Undefined
    BY <1>2 DEF BadFormatOption, UnknownOption, OpenFails, StageFailed, StageDone,
                AtOption, Undefined, Splitter!Done
  <2>3. Status \in {"started", "opened"}  BY <2>1, <2>2, StatusBeforeWriting
  <2>4. exit_code' = 1  BY <2>1
  <2>5. exit_code' # 0  BY SMT, <2>4
  <2> QED  BY <2>1, <2>3, <2>5, SeenExit DEF Translating!Next, Translating!Fail
<1> QED  BY <1>1, <1>2

LEMMA OptionsReadTranslates ==
  IInv /\ (FormatOption \/ OptionsRead \/ OpenSource) => [Translating!Next]_Translating!vars
<1> SUFFICES ASSUME IInv, FormatOption \/ OptionsRead \/ OpenSource
             PROVE  [Translating!Next]_Translating!vars
  OBVIOUS
<1>1. stage \in {"options", "open source"} /\ UNCHANGED << files, Stages >>
  BY DEF FormatOption, OptionsRead, OpenSource, AtOption, outcome
<1>2. ~Opened /\ Status = "started"  BY <1>1, StatusBeforeWriting
<1>3. CASE stage' = "exit"
  <2>1. exit_code' = 1 /\ UNCHANGED << command, files, Stages >>
    BY <1>3 DEF FormatOption, OptionsRead, OpenSource, AtOption, outcome, Exit, Continue
  <2>2. exit_code' # 0  BY <2>1
  <2>3. Translating!Fail  BY <1>1, <1>2, <1>3, <2>1, <2>2, SeenExit DEF Translating!Fail
  <2> QED  BY <2>3 DEF Translating!Next
<1>4. CASE stage' # "exit"
  <2>1. stage' \in {"options", "open source", "open output"}
    BY <1>4 DEF FormatOption, OptionsRead, OpenSource, AtOption, outcome, Exit, Continue
  <2>2. text' = text /\ file' = file  BY <1>1 DEF Stages, level1, written
  <2>3. ~Opened' /\ Opened' = Opened  BY <1>2, <2>1, <2>2 DEF Opened
  <2>4. ~Undefined /\ ~Undefined'  BY <1>1, <2>1 DEF Undefined
  <2> QED  BY <1>1, <1>2, <1>4, <2>2, <2>3, <2>4, UnseenStep
<1> QED  BY <1>3, <1>4

(* The output is emptied, whatever it was.                                 *)
LEMMA OpenOutputTranslates == IInv /\ OpenOutput => Translating!Next
<1> SUFFICES ASSUME IInv, OpenOutput PROVE Translating!Next
  OBVIOUS
<1>1. /\ stage = "open output" /\ stage' = "read"
      /\ files' = Emptied /\ UNCHANGED << command, Stages >>
  BY DEF OpenOutput, Continue
<1>2. file = {} /\ ~Opened /\ Status = "started"  BY <1>1, StatusBeforeWriting
<1>3. file' = {}  BY <1>1, <1>2 DEF Stages, written
<1>4. Opened' /\ Status' = "opened"  BY <1>1, <1>3 DEF Opened, Status, Undefined
<1> DEFINE name == output_file
<1>5. name' = name  BY <1>1 DEF command, output_file
<1>6. name \in UNION {{c[k] : k \in DOMAIN c} : c \in Commands}
  <2>1. args \in Commands /\ HasFiles  BY <1>1 DEF IInv, CommandInv
  <2>2. args \in Seq(STRING) /\ Len(args) \in Nat  BY ArgsLength
  <2>3. option_args \in 0 .. Len(args)  BY DEF IInv, CommandInv, TypeOK
  <2>4. option_args + 2 \in 1 .. Len(args)  BY SMT, <2>1, <2>2, <2>3 DEF HasFiles
  <2>5. option_args + 2 \in DOMAIN args  BY <2>2, <2>4, LenProperties
  <2> QED  BY <2>1, <2>5 DEF output_file
<1> HIDE DEF name
<1>7. OutputName' = name  BY <1>4, <1>5 DEF OutputName, name
<1>8. FilesSeen' = Translating!With(name, Contents(<< >>, {}))
  <2>1. DOMAIN files' = DOMAIN files \cup {name}  BY <1>1 DEF Emptied, name
  <2>2. FilesSeen' = [n \in DOMAIN files \cup {name} |-> Contents(files'[n], {})]
    BY <1>3, <2>1 DEF FilesSeen, Contents
  <2>3. DOMAIN FilesSeen = DOMAIN files /\ \A n \in DOMAIN files : FilesSeen[n] = Contents(files[n], {})
    BY <1>2 DEF FilesSeen, Contents
  <2>4. \A n \in DOMAIN files \cup {name} :
          files'[n] = IF n = name THEN << >> ELSE files[n]
    BY <1>1 DEF Emptied, name
  <2>5. \A n \in DOMAIN files \cup {name} :
          Contents(files'[n], {}) = IF n = name THEN Contents(<< >>, {}) ELSE FilesSeen[n]
    BY <2>3, <2>4
  <2> QED  BY <2>2, <2>3, <2>5 DEF Translating!With
<1> QED  BY <1>2, <1>4, <1>6, <1>7, <1>8 DEF Translating!Next, Translating!Open

(* The stages before the linker do not touch the output, nor does a line   *)
(* that leaves the buffer.                                                 *)
LEMMA StagesTranslate ==
  IInv /\ (ReadSource \/ Split \/ Parse \/ Lex \/ NextStage)
    => [Translating!Next]_Translating!vars
<1> SUFFICES ASSUME IInv, ReadSource \/ Split \/ Parse \/ Lex \/ NextStage
             PROVE  [Translating!Next]_Translating!vars
  OBVIOUS
<1>1. /\ stage \in {"read", "split", "parse", "lex"}
      /\ stage' \in {"split", "parse", "lex", "check"}
      /\ UNCHANGED << command, files, written >>
  BY DEF ReadSource, Split, Parse, Lex, NextStage, Continue, outcome
<1>2. Opened  BY <1>1, StatusBeforeWriting
<1>3. text' # << >>
  <2>1. IInv'
    BY ReadSourceIInv, SplitIInv, ParseIInv, LexIInv, NextStageIInv
  <2> QED  BY <1>1, <2>1 DEF IInv, SplitInv
<1>4. Opened' = Opened /\ output_file' = output_file
  BY <1>1, <1>2, <1>3 DEF Opened, output_file, command
<1>5. ~Undefined  BY StepIsDefined, <1>1 DEF Undefined
<1>6. CASE ~Undefined'
  <2>1. UNCHANGED Translating!vars  BY <1>1, <1>4, <1>5, <1>6, UnseenStep DEF written
  <2> QED  BY <2>1
<1>7. CASE Undefined'
  <2>1. Status = "opened"  BY <1>1, <1>5, StatusBeforeWriting
  <2>2. Status' = "undefined"  BY <1>1, <1>7 DEF Status
  <2>3. OutputName' = OutputName  BY <1>4 DEF OutputName
  <2>4. FilesSeen' = FilesSeen  BY <1>1, <1>4 DEF FilesSeen, Contents, written
  <2> QED
    BY <2>1, <2>2, <2>3, <2>4 DEF Translating!Next, Translating!BecomeUndefined
<1> QED  BY <1>6, <1>7

LEMMA CheckCodeTranslates == IInv /\ CheckCode => [Translating!Next]_Translating!vars
<1> SUFFICES ASSUME IInv, CheckCode PROVE [Translating!Next]_Translating!vars
  OBVIOUS
<1>1. stage = "check" /\ UNCHANGED << command, files, Stages >>  BY DEF CheckCode
<1>2. Opened /\ Status = "opened"  BY <1>1, StatusBeforeWriting
<1>3. CASE stage' = "exit"
  <2>1. exit_code' = 1  BY <1>3 DEF CheckCode, Exit, Continue
  <2>2. exit_code' # 0  BY <2>1
  <2>3. Translating!Fail  BY <1>1, <1>2, <1>3, <2>2, SeenExit DEF Translating!Fail
  <2> QED  BY <2>3 DEF Translating!Next
<1>4. CASE stage' # "exit"
  <2>1. UNCHANGED << args, option_args, text, file >>
    BY <1>1 DEF command, Stages, level1, written
  <2>2. text # << >>  BY <1>1 DEF IInv, SplitInv
  <2>3. Opened' = Opened /\ output_file' = output_file
    BY <1>2, <2>1, <2>2 DEF Opened, output_file
  <2>4. ~Undefined /\ ~Undefined'
    BY <1>1, <1>4 DEF Undefined, CheckCode, Continue, Exit
  <2> QED  BY <1>1, <1>4, <2>1, <2>3, <2>4, UnseenStep
<1> QED  BY <1>3, <1>4

(* Every fwrite and the last one adds to the file, never takes from it.    *)
LEMMA WriterFile == Writer!Next => file' = file \/ file' # {}
  BY DEF Writer!Next, Writer!Prepare, Writer!Refuse, Writer!PatchRelative,
         Writer!PatchAbsolute, Writer!UndefinedLabel, Writer!NextSegment,
         Writer!StartWriting, Writer!WriteExtent, Writer!WriteFails, Writer!Written,
         Writer!stream

LEMMA WriteTranslates == IInv /\ Write => [Translating!Next]_Translating!vars
<1> SUFFICES ASSUME IInv, Write PROVE [Translating!Next]_Translating!vars
  OBVIOUS
<1>1. /\ stage = "write" /\ stage' = "write" /\ Writer!Next
      /\ UNCHANGED << command, files, level1 >>
  BY DEF Write, outcome
<1>2. text # << >> /\ text' = text  BY <1>1 DEF IInv, SplitInv, level1
<1>3. Opened /\ Opened'  BY <1>2 DEF Opened
<1>4. output_file' = output_file  BY <1>1 DEF command, output_file
<1>5. ~Undefined /\ ~Undefined'  BY <1>1 DEF Undefined
<1>6. CASE file' = file  BY <1>1, <1>3, <1>4, <1>5, <1>6, UnseenStep
<1>7. CASE file' # file
  <2>1. file' # {}  BY <1>1, <1>7, WriterFile
  <2>2. Status \in {"opened", "writing"} /\ Status' = "writing"
    BY <1>1, <1>3, <1>5, <2>1 DEF Status
  <2>3. OutputName = output_file /\ OutputName' = OutputName
    BY <1>3, <1>4 DEF OutputName
  <2>4. output_file \in DOMAIN files  BY <1>3 DEF IInv, CommandInv
  <2>5. FilesSeen = [n \in DOMAIN files |->
                       Contents(files[n], IF n = output_file THEN file ELSE {})]
    BY <1>3 DEF FilesSeen
  <2>6. FilesSeen' = [n \in DOMAIN files |->
                        Contents(files[n], IF n = output_file THEN file' ELSE {})]
    BY <1>1, <1>3, <1>4 DEF FilesSeen, Contents
  <2>7. \A n \in DOMAIN files : n # output_file => FilesSeen'[n] = FilesSeen[n]
    BY <2>5, <2>6
  <2>8. DOMAIN FilesSeen \cup {output_file} = DOMAIN files  BY <2>4, <2>5
  <2>9. FilesSeen' = Translating!With(OutputName, FilesSeen'[OutputName])
    BY <2>3, <2>6, <2>7, <2>8 DEF Translating!With
  <2>10. Translating!Write  BY <2>2, <2>3, <2>9 DEF Translating!Write
  <2> QED  BY <2>10 DEF Translating!Next
<1> QED  BY <1>6, <1>7

(* The verdict is that of the linker.                                      *)
LEMMA FinishTranslates == IInv /\ Finish => Translating!Next
<1> SUFFICES ASSUME IInv, Finish PROVE Translating!Next
  OBVIOUS
<1>1. /\ stage = "write" /\ writer \in {"done", "failed"}
      /\ stage' = "exit" /\ exit_code' = Verdict
      /\ UNCHANGED << command, files, Stages >>
  BY DEF Finish, Exit
<1>2. Opened /\ ~Undefined  BY <1>1 DEF IInv, SplitInv, Opened, Undefined
<1>3. /\ writer = "failed" => file = {}
      /\ writer = "done" => file # {}
  BY <1>1, WriterAssumptions, Writer!WrittenOrRefused DEF IInv, WriteInv
<1>4. CASE writer = "failed"
  <2>1. Status = "opened"  BY <1>1, <1>2, <1>3, <1>4 DEF Status
  <2>2. exit_code' # 0  BY <1>1, <1>4 DEF Verdict
  <2> QED  BY <1>1, <2>1, <2>2, SeenExit DEF Translating!Next, Translating!Fail
<1>5. CASE writer = "done"
  <2>1. Status = "writing"  BY <1>1, <1>2, <1>3, <1>5 DEF Status
  <2>2. exit_code' = 0  BY <1>1, <1>5 DEF Verdict
  <2> QED  BY <1>1, <2>1, <2>2, SeenExit DEF Translating!Next, Translating!Succeed
<1> QED  BY <1>1, <1>4, <1>5

LEMMA StutterTranslates == UNCHANGED vars => UNCHANGED Translating!vars
<1> SUFFICES ASSUME UNCHANGED vars PROVE UNCHANGED Translating!vars
  OBVIOUS
<1>1. UNCHANGED << args, option_args, files, stage, exit_code, text, overrun, file >>
  BY DEF vars, command, outcome, level1, written
<1>2. Opened' = Opened /\ output_file' = output_file
  BY <1>1 DEF Opened, output_file
<1>3. OutputName' = OutputName  BY <1>2 DEF OutputName
<1>4. FilesSeen' = FilesSeen  BY <1>1, <1>2 DEF FilesSeen, Contents
<1>5. Status' = Status  BY <1>1, <1>2 DEF Status, Undefined
<1> QED  BY <1>3, <1>4, <1>5 DEF Translating!vars

LEMMA NextTranslates == IInv /\ [Next]_vars => [Translating!Next]_Translating!vars
<1> SUFFICES ASSUME IInv, [Next]_vars PROVE [Translating!Next]_Translating!vars
  OBVIOUS
<1>1. CASE Help \/ BadFormatOption \/ UnknownOption \/ OpenFails \/ StageFailed
  BY <1>1, ExitTranslates
<1>2. CASE FormatOption \/ OptionsRead \/ OpenSource  BY <1>2, OptionsReadTranslates
<1>3. CASE OpenOutput  BY <1>3, OpenOutputTranslates
<1>4. CASE ReadSource \/ Split \/ Parse \/ Lex \/ NextStage  BY <1>4, StagesTranslate
<1>5. CASE CheckCode  BY <1>5, CheckCodeTranslates
<1>6. CASE Write  BY <1>6, WriteTranslates
<1>7. CASE Finish  BY <1>7, FinishTranslates
<1>8. CASE UNCHANGED vars  BY <1>8, StutterTranslates
<1> QED  BY <1>1, <1>2, <1>3, <1>4, <1>5, <1>6, <1>7, <1>8 DEF Next, Others

(* Whatever the command line, the files and the source: the program        *)
(* touches no file but its output, which it empties before it fills it; it *)
(* fails only when it has written nothing to it, and succeeds only when it *)
(* has, or was only asked for its usage.  (That it comes to an end is not  *)
(* proved.)                                                                *)
THEOREM AssemblerTranslates == Spec => Translating!Safe
<1>1. IInv /\ [Next]_vars => [Translating!Next]_Translating!vars
  BY NextTranslates
<1> QED
  BY <1>1, InitTranslates, InitIInv, NextIInv, PTL DEF Spec, Translating!Safe
=============================================================================
