------------------------------- MODULE Linker -------------------------------
(***************************************************************************)
(* write_exec: the writer of the chosen format computes the layout, lets   *)
(* do_executable_replacements fill the fields of the opcodes one by one,   *)
(* and then writes the file, extent by extent, on a disk that may be full. *)
(***************************************************************************)
EXTENDS Executables, FiniteSets

CONSTANTS
  Inputs,       \* what lex_source may hand over: segments and labels
  DiskMayFill,  \* whether fwrite may fail
  Modes         \* the permissions that the output may have been given

(* The invariants of Lexer are what the linker relies on, and assemble     *)
(* calls it only when some code was generated.                             *)
FieldEnd(r) == r.address + PatchWidth(r.type)

LexerOutput(in) ==
  /\ in.segments \in [SegmentTypes -> Segment]
  /\ in.label_definitions \in Seq(Label)
  /\ \E s \in SegmentTypes : in.segments[s].opcodes # << >>
  /\ \A s \in SegmentTypes :
       \A k \in 1 .. Len(in.segments[s].replacements) :
         /\ FieldEnd(in.segments[s].replacements[k])
              <= Len(in.segments[s].opcodes)
         /\ \A j \in 1 .. k - 1 :
              FieldEnd(in.segments[s].replacements[j])
                <= in.segments[s].replacements[k].address
  /\ \A k \in 1 .. Len(in.label_definitions) :
       LET l == in.label_definitions[k]
       IN  /\ l.local_address <= Len(in.segments[l.segment].opcodes)
           /\ \A j \in 1 .. k - 1 : in.label_definitions[j].name # l.name

Who == {"user", "group", "others"}
ASSUME ModesAssumption == Modes \subseteq [read : SUBSET Who, execute : SUBSET Who]
ASSUME DiskAssumption == DiskMayFill \in BOOLEAN
ASSUME InputsAssumption == \A in \in Inputs : LexerOutput(in)

VARIABLES
  format,
  segments, label_definitions,
  exec_data,       \* segment_offsets and the segments that are not null
  seg, rep,        \* the two loop counters of do_executable_replacements
  pc,              \* "prepare", "replace", "write", "done" or "failed"
  out,             \* how many extents were given to fwrite
  position,        \* of the stream, what ftell would say
  file,            \* the extents in the file: from, length and what
  disk_full,
  mode             \* of the file: who may read and who may execute it

stream == << out, position, file, disk_full, mode >>
vars == << format, segments, label_definitions, exec_data, seg, rep, pc, stream >>

-----------------------------------------------------------------------------
SegmentSizes == [s \in SegmentTypes |-> Len(segments[s].opcodes)]
Layout == LayoutOf(format, SegmentSizes)

Init ==
  /\ format \in Formats
  /\ \E in \in Inputs : /\ segments = in.segments
                        /\ label_definitions = in.label_definitions
  /\ exec_data = [segment_offsets |-> [s \in SegmentTypes |-> 0],
                  present |-> {}]
  /\ seg = 0 /\ rep = 1
  /\ pc = "prepare"
  /\ out = 0 /\ position = 0 /\ file = {}
  /\ disk_full = FALSE
  /\ mode \in Modes

(* The writer up to its call of do_executable_replacements.                *)
Prepare ==
  /\ pc = "prepare"
  /\ Writable(format, SegmentSizes)
  /\ exec_data' = [segment_offsets |-> Layout.offsets,
                   present |-> Layout.present]
  /\ pc' = "replace"
  /\ UNCHANGED << format, segments, label_definitions, seg, rep, stream >>

Refuse ==
  /\ pc = "prepare"
  /\ ~Writable(format, SegmentSizes)
  /\ pc' = "failed"
  /\ UNCHANGED << format, segments, label_definitions, exec_data, seg, rep, stream >>

-----------------------------------------------------------------------------
(* Bug: the loop runs up to SEGMENT_TYPE_NUM inclusive.                    *)
ReplacingOneMore == pc = "replace" /\ seg \in 0 .. 4

Replacing == pc = "replace" /\ seg \in SegmentTypes

AtReplacement ==
  /\ Replacing
  /\ seg \in exec_data.present
  /\ rep <= Len(segments[seg].replacements)

replacement == segments[seg].replacements[rep]

(* The first definition with the name is taken.                            *)
Matches(name) == {j \in 1 .. Len(label_definitions) :
                    label_definitions[j].name = name}
Address(name) ==
  LET l == label_definitions[CHOOSE j \in Matches(name) :
                               \A i \in Matches(name) : j <= i]
  IN  l.local_address + exec_data.segment_offsets[l.segment]

(* memcpy over the field of the current replacement.                       *)
Patched(bytes) ==
  [segments EXCEPT ![seg].opcodes =
     [k \in DOMAIN @ |->
        IF k \in replacement.address + 1 .. replacement.address + Len(bytes)
          THEN bytes[k - replacement.address] ELSE @[k]]]

(* Bug: relative to the start of the field instead of its end.             *)
RelativeAddressOfField ==
  Address(replacement.name)
    - (exec_data.segment_offsets[seg] + replacement.address)

RelativeAddress ==
  Address(replacement.name)
    - (exec_data.segment_offsets[seg] + replacement.address + 4)

(* Bug: the copy has the width of a pointer also for a relative address.   *)
PatchRelativeWide ==
  /\ AtReplacement
  /\ replacement.type = "RELATIVE"
  /\ Matches(replacement.name) # {}
  /\ segments' = Patched(LE4(RelativeAddress) \o Zeros(4))
  /\ rep' = rep + 1
  /\ UNCHANGED << format, label_definitions, exec_data, seg, pc, stream >>

PatchRelative ==
  /\ AtReplacement
  /\ replacement.type = "RELATIVE"
  /\ Matches(replacement.name) # {}
  /\ segments' = Patched(LE4(RelativeAddress))
  /\ rep' = rep + 1
  /\ UNCHANGED << format, label_definitions, exec_data, seg, pc, stream >>

PatchAbsolute ==
  /\ AtReplacement
  /\ replacement.type = "ABSOLUTE"
  /\ Matches(replacement.name) # {}
  /\ segments' = Patched(LE8(Address(replacement.name)))
  /\ rep' = rep + 1
  /\ UNCHANGED << format, label_definitions, exec_data, seg, pc, stream >>

(* Bug: the undefined label is reported and the loop stays at it.          *)
UndefinedLabelRetried ==
  /\ AtReplacement
  /\ Matches(replacement.name) = {}
  /\ UNCHANGED vars

UndefinedLabel ==
  /\ AtReplacement
  /\ Matches(replacement.name) = {}
  /\ pc' = "failed"
  /\ UNCHANGED << format, segments, label_definitions, exec_data, seg, rep, stream >>

(* Behind the last replacement of a segment, or at a null segment.         *)
NextSegment ==
  /\ Replacing
  /\ seg \notin exec_data.present \/ rep > Len(segments[seg].replacements)
  /\ seg' = seg + 1
  /\ rep' = 1
  /\ UNCHANGED << format, segments, label_definitions, exec_data, pc, stream >>

-----------------------------------------------------------------------------
HEADERS == 4   \* what is behind the segments in an extent

Extent(from, length, what) == [from |-> from, length |-> length, what |-> what]

(* The headers, if there are any, then the segments with opcodes.          *)
Extents ==
  (IF Layout.written = 0 THEN << >> ELSE << HEADERS >>) \o Layout.order
LengthOf(what) == IF what = HEADERS THEN Layout.written ELSE SegmentSizes[what]

StartWriting ==
  /\ pc = "replace" /\ seg = 4
  /\ pc' = "write"
  /\ UNCHANGED << format, segments, label_definitions, exec_data, seg, rep, stream >>

Writing == pc = "write" /\ out < Len(Extents)

current == Extents[out + 1]

(* Bug: the stream is never positioned.                                    *)
PlaceUnsought == position

(* fseek, where the writer calls it, or just behind the last fwrite.       *)
Place == IF current \in DOMAIN Layout.seeks THEN Layout.seeks[current]
         ELSE position

WriteExtent ==
  /\ Writing
  /\ file' = file \cup {Extent(Place, LengthOf(current), current)}
  /\ position' = Place + LengthOf(current)
  /\ out' = out + 1
  /\ UNCHANGED << format, segments, label_definitions, exec_data, seg, rep, pc,
                 disk_full, mode >>

(* stdio took the bytes, and loses some of them when the buffer gets to    *)
(* the disk: the extent is cut, here in the middle.  Nobody looks at what  *)
(* fwrite, fseek and fclose return, so the writer goes on behind it.       *)
WriteFails ==
  /\ Writing /\ DiskMayFill
  /\ file' = file \cup {Extent(Place, LengthOf(current) \div 2, current)}
  /\ position' = Place + LengthOf(current)
  /\ disk_full' = TRUE
  /\ out' = out + 1
  /\ UNCHANGED << format, segments, label_definitions, exec_data, seg, rep, pc,
                 mode >>

(* make_executable: who may read the file may also execute it.            *)
MadeExecutable == [mode EXCEPT !.execute = @ \cup mode.read]

(* (macho64 pads a file that is shorter than a page; none is, because its  *)
(* last load ends on a page.)                                              *)
Written ==
  /\ pc = "write" /\ out = Len(Extents)
  /\ mode' = IF format \in {"elf", "macho64"} THEN MadeExecutable ELSE mode
  /\ pc' = "done"
  /\ UNCHANGED << format, segments, label_definitions, exec_data, seg, rep,
                 out, position, file, disk_full >>

Next ==
  \/ Prepare \/ Refuse
  \/ PatchRelative \/ PatchAbsolute \/ UndefinedLabel \/ NextSegment
  \/ StartWriting \/ WriteExtent \/ WriteFails \/ Written

Spec == Init /\ [][Next]_vars
FairSpec == Spec /\ WF_vars(Next)

-----------------------------------------------------------------------------
(* Every variable has the type its C declaration gives it, and the loop    *)
(* counter never indexes a segment behind BSS.                             *)
TypeOK ==
  /\ format \in Formats
  /\ segments \in [SegmentTypes -> Segment]
  /\ label_definitions \in Seq(Label)
  /\ exec_data.segment_offsets \in [SegmentTypes -> Nat]
  /\ exec_data.present \subseteq SegmentTypes
  /\ seg \in 0 .. 4
  /\ rep \in Nat
  /\ pc \in {"prepare", "replace", "write", "done", "failed"}
  /\ out \in 0 .. 5 /\ position \in Nat
  /\ disk_full \in BOOLEAN
  /\ mode \in [read : SUBSET Who, execute : SUBSET Who]

(* A step changes opcodes only inside the field of the replacement the     *)
(* loop is at, and never the size of a segment or a replacement.           *)
PatchesOnlyItsField ==
  [][\A s \in SegmentTypes :
       /\ segments'[s].replacements = segments[s].replacements
       /\ Len(segments'[s].opcodes) = Len(segments[s].opcodes)
       /\ \A k \in 1 .. Len(segments[s].opcodes) :
            segments'[s].opcodes[k] # segments[s].opcodes[k] =>
              /\ s = seg
              /\ k > replacement.address
              /\ k <= FieldEnd(replacement)]_vars

(* The address at which the loader puts the bytes that the file has at the *)
(* extent of segment s.                                                    *)
ExtentOf(s) == CHOOSE e \in file : e.what = s
Maps(load, e) == /\ load.offset <= e.from
                 /\ e.from + e.length <= load.offset + load.length
MappedAt(s) ==
  LET load == CHOOSE l \in Layout.loads : Maps(l, ExtentOf(s))
  IN  load.vaddr + ExtentOf(s).from - load.offset

Complete == pc = "done" /\ ~disk_full

(* When the file is written every field holds the address, absolute or     *)
(* relative to the end of the field, at which the loader puts what the     *)
(* label marks.  (A label in an empty segment marks nothing.)              *)
LabelAt(l) == MappedAt(l.segment) + l.local_address

FieldHolds(s, r, l) ==
  SubSeq(segments[s].opcodes, r.address + 1, FieldEnd(r)) =
    IF r.type = "RELATIVE"
      THEN LE4(LabelAt(l) - (MappedAt(s) + r.address + 4))
      ELSE LE8(LabelAt(l))

ReferencesReachLabels ==
  Complete =>
    \A s \in SegmentTypes :
      \A k \in 1 .. Len(segments[s].replacements) :
        LET r == segments[s].replacements[k]
        IN  /\ Matches(r.name) # {}
            /\ \A j \in Matches(r.name) :
                 LET l == label_definitions[j]
                 IN  l.segment \in Defined(SegmentSizes) => FieldHolds(s, r, l)

(* Every segment with opcodes is in the file once, whole, where a load     *)
(* maps it to the address its labels are counted from; every load lies in  *)
(* the file and keeps the page offset; the entry point is the first byte   *)
(* of the code, and who may read the file may run it.                      *)
FileEnd(n) == \E e \in file : e.from + e.length >= n

ImageIsLoadable ==
  Complete =>
    /\ \A s \in Defined(SegmentSizes) :
         /\ Cardinality({e \in file : e.what = s}) = 1
         /\ ExtentOf(s).length = SegmentSizes[s]
         /\ \E load \in Layout.loads : Maps(load, ExtentOf(s))
         /\ MappedAt(s) = exec_data.segment_offsets[s]
    /\ \A load \in Layout.loads :
         load.length > 0 => FileEnd(load.offset + load.length)
    /\ format \in {"elf", "macho64"} =>
         /\ \A load \in Layout.loads : (load.vaddr - load.offset) % Page = 0
         /\ TEXT \in Defined(SegmentSizes) => Layout.entry = MappedAt(TEXT)
         /\ mode.read \subseteq mode.execute

(* Nothing in the file is written over, and the header bytes written are   *)
(* as many as the headers themselves announce.                             *)
ExtentsDisjoint ==
  /\ \A e, f \in file :
       e = f \/ Apart(e.from, e.length, f.from, f.length)
  /\ Complete => Layout.announced = Layout.written

(* No two loads claim the same address.                                    *)
LoadsDisjoint ==
  Complete =>
    \A l, m \in Layout.loads :
      l = m \/ Apart(l.vaddr, l.length, m.vaddr, m.length)

(* The writer comes to an end.                                             *)
Termination == <>(pc \in {"done", "failed"})

(* docs/README.md: "the assembler will calculate the offset from the       *)
(* current instruction to the label", here of a label whose segment has no *)
(* bytes: it must at least lie inside or at the edge of what is loaded.    *)
LoadedOrEdge(a) ==
  \E load \in Layout.loads : load.vaddr <= a /\ a <= load.vaddr + load.length

EveryLabelIsPlaced ==
  Complete =>
    \A s \in SegmentTypes :
      \A k \in 1 .. Len(segments[s].replacements) :
        LoadedOrEdge(Address(segments[s].replacements[k].name))
=============================================================================
