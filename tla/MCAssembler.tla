---------------------------- MODULE MCAssembler ----------------------------
(***************************************************************************)
(* Whole runs of the program: sources of which we know what they say, in   *)
(* all formats; short sources of which most are wrong; and all kinds of    *)
(* command lines.                                                          *)
(***************************************************************************)
EXTENDS Assembler, X86, SequencesExt, FiniteSetsExt

MCLetters ==
  {"a", "b", "c", "d", "e", "i", "j", "l", "m", "n", "o", "p", "r", "s", "t", "v", "x",
   "0", "1", "2", "3", "5", "7", "8", "$", "-", ".", ":"}
MCDashed == {"-h", "-f", "-x"}
Q == "DOUBLE_QUOTE"

-----------------------------------------------------------------------------
(* A statement: how it is written, and what it says: an instruction, the   *)
(* label in its last argument or "", bytes, a definition or a segment.     *)
Code(chars, insn, ref) == [chars |-> chars, kind |-> "code", insn |-> insn, ref |-> ref]
Other(chars, kind, says) == [chars |-> chars, kind |-> kind, says |-> says]

MovRax == << "m", "o", "v", " ", "r", "a", "x" >>
Statements ==
  { Code(<< "n", "o", "p" >>, Insn("NOP", 8, 8, << >>), ""),
    Code(MovRax \o << ",", "0", "x", "1", "0", "0", "0", "0", "0", "0", "0", "2" >>,
         Insn("MOV", 8, 8, << RegArg(0), ImmArg(<< 2, 0, 0, 0, 1, 0, 0, 0 >>) >>), ""),
    Code(<< "a", "d", "d", " ", "e", "c", "x", " ", "e", "d", "x" >>,
         Insn("ADD", 4, 8, << RegArg(1), RegArg(2) >>), ""),
    Code(<< "l", "e", "a", " ", "r", "b", "x", ",", "[", "r", "s", "i", " ", "-", "3", "0", "0", "]" >>,
         Insn("LEA", 8, 8, << RegArg(3), MemArg(6, LE4(-300)) >>), ""),
    Code(<< "l", "e", "a", " ", "r", "d", "i", ",", "[", "r", "e", "l", " ", "$", "b", "]" >>,
         Insn("LEA", 8, 8, << RegArg(7), RipArg(Zeros(4)) >>), "b"),
    Code(<< "j", "m", "p", " ", "$", "a" >>, Insn("JMP", 8, 8, << RelArg(Zeros(4)) >>), "a"),
    Code(<< "j", "e", " ", "$", "b" >>, Insn("JE", 8, 8, << RelArg(Zeros(4)) >>), "b"),
    Other(<< "d", "b", " ", Q, "a", ";", " ", ",", Q, ",", "5", "1", "2" >>, "data",
          << 97, 59, 32, 44, 0, 2 >>),
    Other(<< "a", ":" >>, "label", "a"), Other(<< "b", ":" >>, "label", "b"),
    Other(<< ".", "d", "a", "t", "a" >>, "segment", DATA),
    Other(<< ".", "t", "e", "x", "t" >>, "segment", TEXT) }

Nop == CHOOSE s \in Statements : s.kind = "code" /\ s.insn.op = "NOP"
Jump(op) == CHOOSE s \in Statements : s.kind = "code" /\ s.insn.op = op
LabelLine(name) == CHOOSE s \in Statements : s.kind = "label" /\ s.says = name
SegmentLine(t) == CHOOSE s \in Statements : s.kind = "segment" /\ s.says = t
Bytes == CHOOSE s \in Statements : s.kind = "data"

(* Two statements on their own, and two amid others that define labels in  *)
(* both segments.                                                          *)
Programs ==
  [1 .. 1 -> Statements]
    \cup {<< LabelLine("a"), x, y, SegmentLine(DATA), LabelLine("b"), Bytes >> :
             x \in Statements, y \in Statements}
    \cup {<< Jump("JE"), SegmentLine(DATA), x, SegmentLine(TEXT), LabelLine("b"), y, LabelLine("a") >> :
             x \in Statements, y \in {Nop, Jump("JMP"), LabelLine("b")}}

(* Every other statement is indented and has a comment.                    *)
WrittenLine(p, k) ==
  IF k % 2 = 1 THEN p[k].chars \o << "NEWLINE" >>
  ELSE << " " >> \o p[k].chars \o << " ", ";", "'", "NEWLINE" >>
Source(p) == FlattenSeq([k \in DOMAIN p |-> WrittenLine(p, k)])

(* Short sources, right or wrong, and one that is too long for the buffer. *)
Words == { << "n", "o", "p" >>, << "a", ":" >>, << "j", "m", "p" >>, << "$", "a" >>,
           << "'" >>, << "[" >>, << "," >>, << "BACKSLASH" >>, << " " >>, << "NEWLINE" >> }
FullLine   == [k \in 1 .. BUFFER_SIZE |-> "a"]
AnySources == {FlattenSeq(t) : t \in UNION {[1 .. n -> Words] : n \in 0 .. 3}}
                \cup {FullLine}

-----------------------------------------------------------------------------
(* The source is in "s"; "o" is there already or not.                      *)
FileSystem(source, others) == [n \in {"s"} \cup others |-> IF n = "s" THEN source ELSE << "x" >>]
Ordinary(format) == << "-f", format, "s", "o" >>
CommandWords == {"-h", "-f", "-x", "elf", "s", "o"}
OddCommands == UNION {[1 .. n -> CommandWords] : n \in 0 .. 3}
MCCommands == {Ordinary(f) : f \in Formats} \cup OddCommands

AnyFiles == {FileSystem(s, {}) : s \in AnySources}
OddFiles == {FileSystem(Source(<< Nop >>), {}), FileSystem(Source(<< Nop >>), {"o"}),
             FileSystem(Source(<< Jump("JMP") >>), {"o"})}
MCFileSystems ==
  {FileSystem(Source(p), {}) : p \in Programs} \cup AnyFiles \cup OddFiles

VARIABLE program   \* what the source says, or << >> when nobody has thought of it

(* Not every command with every file system.                               *)
MCInit ==
  /\ \/ /\ program \in Programs /\ files = FileSystem(Source(program), {})
        /\ args \in {Ordinary(f) : f \in Formats}
     \/ program = << >> /\ files \in AnyFiles /\ args = Ordinary("elf")
     \/ program = << >> /\ files \in OddFiles /\ args \in OddCommands
  /\ Init
MCNext == Next /\ UNCHANGED program
MCSpec == MCInit /\ [][MCNext]_<< vars, program >> /\ Fairness

-----------------------------------------------------------------------------
(* The statements of a program by segment.                                 *)
SegmentAt(p, k) ==
  LET selected == {j \in 1 .. k : p[j].kind = "segment"}
  IN  IF selected = {} THEN TEXT ELSE p[Max(selected)].says
Listing(p, s) == {k \in DOMAIN p : p[k].kind \in {"code", "data", "label"} /\ SegmentAt(p, k) = s}

LabelsOf(p) == {k \in DOMAIN p : p[k].kind = "label"}
Defines(p, name) == {k \in LabelsOf(p) : p[k].says = name}
HasBytes(p, s) == \E k \in Listing(p, s) : p[k].kind # "label"
References(p) == {k \in DOMAIN p : p[k].kind = "code" /\ p[k].ref # ""}

(* A program that should be assembled.                                     *)
Legal(p, format) ==
  /\ \A k \in LabelsOf(p) : Defines(p, p[k].says) = {k}
  /\ \A k \in References(p) : Defines(p, p[k].ref) # {}
  /\ \E s \in SegmentTypes : HasBytes(p, s)
  /\ format = "macho64" => HasBytes(p, TEXT)

(* Where statement k starts in the bytes of its segment: behind all the    *)
(* instructions, read one after the other, and data before it.             *)
LengthAt(bytes, from, statement) ==
  CASE statement.kind = "label" -> 0
    [] statement.kind = "data"  -> Len(statement.says)
    [] statement.kind = "code"  ->
         CHOOSE n \in 1 .. 15 : \/ Decode(SubSeq(bytes, from + 1, from + n)) # Undecodable
                                \/ n = 15
StartOf(p, s, k) ==
  FoldLeft(LAMBDA from, j : IF j \in Listing(p, s)
                              THEN from + LengthAt(segments[s].opcodes, from, p[j])
                              ELSE from,
           0, [j \in 1 .. k - 1 |-> j])

(* The address the loader gives it.                                        *)
AddressOf(p, k) ==
  LET s == SegmentAt(p, k) IN Writer!MappedAt(s) + StartOf(p, s, k)

(* The instruction, when the label in its last argument is so far away.    *)
Referring(insn, distance) ==
  [insn EXCEPT !.args = [@ EXCEPT ![Len(@)] = [@ EXCEPT !.bytes = LE4(distance)]]]

Says(p, k) ==
  LET s     == SegmentAt(p, k)
      from  == StartOf(p, s, k)
      n     == LengthAt(segments[s].opcodes, from, p[k])
      bytes == SubSeq(segments[s].opcodes, from + 1, from + n)
      label == CHOOSE j \in Defines(p, p[k].ref) : TRUE
  IN  CASE p[k].kind = "data" -> bytes = p[k].says
        [] p[k].kind = "code" /\ p[k].ref = "" -> Decode(bytes) = p[k].insn
        [] p[k].kind = "code" /\ p[k].ref # "" ->
             HasBytes(p, SegmentAt(p, label)) =>
               Decode(bytes) = Referring(p[k].insn,
                                         AddressOf(p, label) - (AddressOf(p, k) + n))
        [] OTHER -> TRUE

(* The exit code tells whether the source is a program, and if it is, the  *)
(* file that was written holds the program: each segment, disassembled     *)
(* from where the loader puts it, is the instructions and data written for *)
(* it, one after the other and nothing else, and every label is where its  *)
(* definition stands.  (Not when the disk was full, which is not noticed,  *)
(* nor for a label in a segment without bytes.)                            *)
OutputMeansSource ==
  stage = "exit" /\ text # << >> /\ program # << >> =>
    /\ exit_code = 0 <=> Legal(program, output_format)
    /\ exit_code = 0 /\ ~disk_full =>
         /\ \A k \in DOMAIN program : Says(program, k)
         /\ \A s \in SegmentTypes :
              StartOf(program, s, Len(program) + 1) = Len(segments[s].opcodes)

(* main.c, "Done! Binary written to %s": when assemble says so, everything *)
(* that was given to fwrite is in the file.                                *)
DoneMeansWritten ==
  stage = "exit" /\ text # << >> /\ exit_code = 0 =>
    \A e \in file : e.length = Writer!LengthOf(e.what)
=============================================================================
