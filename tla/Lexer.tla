------------------------------- MODULE Lexer -------------------------------
(***************************************************************************)
(* lex_source of assembler.c: one pass over the parsed lines that collects *)
(* the label definitions and lets every mnemonic append its opcodes and    *)
(* label references to the current segment.  One step is one iteration of  *)
(* the loop; the lines are an array that the loop itself rewrites (a label *)
(* definition loses its colon).                                            *)
(***************************************************************************)
EXTENDS Mnemonics

CONSTANTS
  Lines,      \* the lines that parse_source_lvl2 may hand over
  MaxLines    \* bound on the length of a program

ASSUME LinesAssumption    == Lines \subseteq Line
ASSUME MaxLinesAssumption == MaxLines \in Nat

VARIABLES
  lines,                 \* (*lines)[0 .. line_num - 1]
  next,                  \* the loop counter i, from 1
  current_segment_type,
  segments,
  label_definitions,
  errors_found

vars == << lines, next, current_segment_type, segments, label_definitions,
           errors_found >>

-----------------------------------------------------------------------------
EmptySegment == [opcodes |-> << >>, replacements |-> << >>]

Init ==
  /\ \E n \in 0 .. MaxLines : lines \in [1 .. n -> Lines]
  /\ next = 1
  /\ current_segment_type = TEXT
  /\ segments = [s \in SegmentTypes |-> EmptySegment]
  /\ label_definitions = << >>
  /\ errors_found = FALSE

Current == lines[next]
Lexing  == next <= Len(lines)

(* Plausible bugs, each of which a property below must notice: the name is *)
(* compared before its colon is removed.                                   *)
AlreadyDefinedUnstripped == \E j \in 1 .. next - 1 : SameText(lines[j], Current)

(* Bug: the colon stays where it is.                                       *)
StrippedLineKept == Current

(* strcmp of the stripped definition with every earlier line, whatever     *)
(* that line is.                                                           *)
StrippedLine == [Current EXCEPT !.colon = FALSE]
AlreadyDefined == \E j \in 1 .. next - 1 : SameText(lines[j], StrippedLine)

(* Bugs: the address of the last opcode instead of the next one, the       *)
(* length of the wrong segment, and the wrong segment.                     *)
NewLabelOnLastOpcode ==
  [name          |-> Current.mnemonic,
   segment       |-> current_segment_type,
   local_address |-> Len(segments[current_segment_type].opcodes) - 1]

NewLabelInText ==
  [name          |-> Current.mnemonic,
   segment       |-> current_segment_type,
   local_address |-> Len(segments[TEXT].opcodes)]

NewLabelOfText ==
  [name          |-> Current.mnemonic,
   segment       |-> TEXT,
   local_address |-> Len(segments[current_segment_type].opcodes)]

NewLabel ==
  [name          |-> Current.mnemonic,
   segment       |-> current_segment_type,
   local_address |-> Len(segments[current_segment_type].opcodes)]

(* "name:".  A label that was already defined is an error and is added to  *)
(* the definitions all the same.                                           *)
DefineLabel ==
  /\ Lexing
  /\ Current.colon
  /\ lines' = [lines EXCEPT ![next] = StrippedLine]
  /\ errors_found' = (errors_found \/ AlreadyDefined)
  /\ label_definitions' = Append(label_definitions, NewLabel)
  /\ next' = next + 1
  /\ UNCHANGED << current_segment_type, segments >>

(* ".text", ".data", ".rodata", ".bss".                                    *)
SegmentOf == [m \in {".TEXT", ".DATA", ".RODATA", ".BSS"} |->
                CASE m = ".TEXT"   -> TEXT
                  [] m = ".DATA"   -> DATA
                  [] m = ".RODATA" -> RODATA
                  [] m = ".BSS"    -> BSS]

(* Bug: selecting a segment again starts it anew.                          *)
SelectSegmentAnew ==
  /\ Lexing
  /\ ~Current.colon /\ Current.dot
  /\ Current.mnemonic \in DOMAIN SegmentOf
  /\ current_segment_type' = SegmentOf[Current.mnemonic]
  /\ segments' = [segments EXCEPT ![current_segment_type'] = EmptySegment]
  /\ next' = next + 1
  /\ UNCHANGED << lines, label_definitions, errors_found >>

SelectSegment ==
  /\ Lexing
  /\ ~Current.colon /\ Current.dot
  /\ Current.mnemonic \in DOMAIN SegmentOf
  /\ current_segment_type' = SegmentOf[Current.mnemonic]
  /\ next' = next + 1
  /\ UNCHANGED << lines, segments, label_definitions, errors_found >>

UnknownSegment ==
  /\ Lexing
  /\ ~Current.colon /\ Current.dot
  /\ Current.mnemonic \notin DOMAIN SegmentOf
  /\ errors_found' = TRUE
  /\ next' = next + 1
  /\ UNCHANGED << lines, current_segment_type, segments, label_definitions >>

(* Bug: the reference is recorded before the opcodes in front of it.       *)
AppendedReferenceFirst(seg, e) ==
  [opcodes |-> seg.opcodes \o e.head \o e.tail,
   replacements |->
     IF e.ref = NoRef THEN seg.replacements
     ELSE Append(seg.replacements,
                 [name |-> e.ref.name, type |-> e.ref.type,
                  address |-> Len(seg.opcodes)])]

(* append_opcode and append_label_reference, in the order of the emission. *)
Appended(seg, e) ==
  [opcodes |-> seg.opcodes \o e.head \o e.tail,
   replacements |->
     IF e.ref = NoRef THEN seg.replacements
     ELSE Append(seg.replacements,
                 [name |-> e.ref.name, type |-> e.ref.type,
                  address |-> Len(seg.opcodes) + Len(e.head)])]

Instruction ==
  /\ Lexing
  /\ ~Current.colon /\ ~Current.dot
  /\ Current.mnemonic \in KnownMnemonics
  /\ LET e == Encode(Current.mnemonic, Current.operands)
     IN  /\ segments' = [segments EXCEPT
                           ![current_segment_type] = Appended(@, e)]
         /\ errors_found' = (errors_found \/ e.err)
  /\ next' = next + 1
  /\ UNCHANGED << lines, current_segment_type, label_definitions >>

UnknownMnemonic ==
  /\ Lexing
  /\ ~Current.colon /\ ~Current.dot
  /\ Current.mnemonic \notin KnownMnemonics
  /\ errors_found' = TRUE
  /\ next' = next + 1
  /\ UNCHANGED << lines, current_segment_type, segments, label_definitions >>

Next ==
  \/ DefineLabel
  \/ SelectSegment
  \/ UnknownSegment
  \/ Instruction
  \/ UnknownMnemonic

Spec == Init /\ [][Next]_vars

Done == next > Len(lines)

-----------------------------------------------------------------------------
(* Every variable has the type its C declaration gives it.                 *)
TypeOK ==
  /\ lines \in Seq(Line)
  /\ next \in 1 .. Len(lines) + 1
  /\ current_segment_type \in SegmentTypes
  /\ segments \in [SegmentTypes -> Segment]
  /\ label_definitions \in Seq(Label)
  /\ errors_found \in BOOLEAN

(* Every field that do_executable_replacements will later overwrite lies   *)
(* inside the opcodes of its segment: what append_label_reference records  *)
(* as address and the zero bytes the mnemonic appends behind it agree with *)
(* the number of bytes the patch copies.                                   *)
FieldsInBounds ==
  \A s \in SegmentTypes :
    \A k \in 1 .. Len(segments[s].replacements) :
      LET r == segments[s].replacements[k]
      IN  r.address + PatchWidth(r.type) <= Len(segments[s].opcodes)

(* The fields of a segment are recorded in ascending order and never       *)
(* overlap, so that patching one cannot undo the patch of another.         *)
FieldsDisjoint ==
  \A s \in SegmentTypes :
    \A k \in 1 .. Len(segments[s].replacements) :
      \A j \in 1 .. k - 1 :
        LET r == segments[s].replacements[j]
        IN  r.address + PatchWidth(r.type)
              <= segments[s].replacements[k].address

(* Until it is patched a field holds the zero bytes of its placeholder: a  *)
(* reference never claims bytes of an instruction or of data.              *)
FieldsAreZero ==
  \A s \in SegmentTypes :
    \A k \in 1 .. Len(segments[s].replacements) :
      LET r == segments[s].replacements[k]
      IN  \A b \in 1 .. PatchWidth(r.type) :
            segments[s].opcodes[r.address + b] = 0

(* A label points into its segment or just behind what the segment holds   *)
(* so far, and the labels of one segment are recorded in address order.    *)
LabelsInBounds ==
  \A k \in 1 .. Len(label_definitions) :
    label_definitions[k].local_address
      <= Len(segments[label_definitions[k].segment].opcodes)

LabelsAscend ==
  \A k \in 1 .. Len(label_definitions) :
    \A j \in 1 .. k - 1 :
      label_definitions[j].segment = label_definitions[k].segment =>
        label_definitions[j].local_address
          <= label_definitions[k].local_address

(* No two definitions of a program that is not in error have one name: the *)
(* comparison with the rewritten earlier lines finds every duplicate, and  *)
(* the linker's first match is the only one.                               *)
LabelsDistinct ==
  ~errors_found =>
    \A k \in 1 .. Len(label_definitions) :
      \A j \in 1 .. k - 1 :
        label_definitions[j].name # label_definitions[k].name

(* The duplicate check has no table of names: it can only work because     *)
(* every label that was defined is still among the lines behind the        *)
(* counter, without its colon, under the name that was recorded.           *)
LabelsRecorded ==
  \A k \in 1 .. Len(label_definitions) :
    \E j \in 1 .. next - 1 :
      /\ lines[j].mnemonic = label_definitions[k].name
      /\ ~lines[j].colon

(* A step never moves or rewrites what earlier lines emitted: the bytes,   *)
(* fields and labels recorded so far keep their positions, which is what   *)
(* makes a recorded address usable after the pass.                         *)
Extends(new, old) ==
  Len(old) <= Len(new) /\ \A k \in 1 .. Len(old) : new[k] = old[k]

AppendOnly ==
  [][/\ \A s \in SegmentTypes :
          /\ Extends(segments'[s].opcodes, segments[s].opcodes)
          /\ Extends(segments'[s].replacements, segments[s].replacements)
     /\ Extends(label_definitions', label_definitions)]_vars

(* assembler.c, "Check if the label is already defined": a definition is   *)
(* an error only when some label has its name already.                     *)
OnlyLabelsClash ==
  [][DefineLabel /\ ~errors_found /\ errors_found'
       => \E k \in 1 .. Len(label_definitions) :
            label_definitions[k].name = Current.mnemonic]_vars
=============================================================================
