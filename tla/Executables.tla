---------------------------- MODULE Executables ----------------------------
(***************************************************************************)
(* The four output formats: where write_bin, write_fexec, write_elf and    *)
(* write_macho64 place the segments, as functions of the segment sizes.    *)
(*                                                                         *)
(* A layout says at which address a segment's labels are counted from      *)
(* (segment_offsets), which segments do_executable_replacements looks at   *)
(* (the others are null pointers in exec_data.segments), in which order    *)
(* the segments are written and in front of which of them the writer seeks *)
(* (the others follow what was written last), what the headers announce to *)
(* the loader (loads: a range of the file and the address it is mapped to; *)
(* entry; the number of header bytes) and how many of them are written.    *)
(***************************************************************************)
EXTENDS AsmData

CONSTANTS
  PageZero,     \* macho64: vmsize of __PAGEZERO, 0x100000000
  ElfBase       \* elf: virtual_offset, 0x400000

Page == 4096

ASSUME PageZeroAssumption == PageZero \in Nat /\ PageZero % Page = 0
ASSUME ElfBaseAssumption  == ElfBase \in Nat /\ ElfBase % Page = 0

Formats == {"bin", "fexec", "elf", "macho64"}

Sizes == [SegmentTypes -> Nat]

(* PAGE_ROUND_UP.                                                          *)
RoundUp(n) == ((n + Page - 1) \div Page) * Page

(* Bug: writable segments do not move the offset.                          *)
BeforeReadOnly(size, s) ==
  (IF s > TEXT THEN size[TEXT] ELSE 0) + (IF s > RODATA THEN size[RODATA] ELSE 0)

(* The bytes of the segments in front of s, when they are laid end to end. *)
Before(size, s) ==
  (IF s > TEXT THEN size[TEXT] ELSE 0) + (IF s > DATA THEN size[DATA] ELSE 0)
    + (IF s > RODATA THEN size[RODATA] ELSE 0)
Total(size) == Before(size, BSS) + size[BSS]

Defined(size) == {s \in SegmentTypes : size[s] # 0}
Count(size, set) == Total([s \in SegmentTypes |->
                             IF s \in set /\ size[s] # 0 THEN 1 ELSE 0])

(* The segments with opcodes in the order of a loop over all of them.      *)
IfDefined(size, s) == IF size[s] = 0 THEN << >> ELSE << s >>
InOrder(size) == IfDefined(size, TEXT) \o IfDefined(size, DATA)
                   \o IfDefined(size, RODATA) \o IfDefined(size, BSS)
NoSeek == [s \in {} |-> 0]

Load(vaddr, offset, length) ==
  [vaddr |-> vaddr, offset |-> offset, length |-> length]

-----------------------------------------------------------------------------
(* bin: the segments end to end, also the empty ones have an offset.       *)
BinLayout(size) ==
  [offsets   |-> [s \in SegmentTypes |-> Before(size, s)],
   present   |-> SegmentTypes,
   order     |-> InOrder(size),
   seeks     |-> NoSeek,
   loads     |-> {Load(0, 0, Total(size))},
   announced |-> 0, written |-> 0, entry |-> 0]

(* fexec: the same behind a header of 32 bytes; an empty segment is null   *)
(* and has offset 0.                                                       *)
FexecHeader == 32

FexecLayout(size) ==
  [offsets   |-> [s \in SegmentTypes |->
                    IF size[s] = 0 THEN 0 ELSE Before(size, s)],
   present   |-> Defined(size),
   order     |-> InOrder(size),
   seeks     |-> NoSeek,
   loads     |-> {Load(0, FexecHeader, Total(size))},
   announced |-> FexecHeader, written |-> FexecHeader, entry |-> 0]

(* elf: a program header for each segment that is not empty; the code      *)
(* starts on the next page of the file, and the segments follow each other *)
(* in the file as in memory.                                               *)
ElfHeader        == 64
ElfProgramHeader == 56

ElfLayout(size) ==
  LET headers == ElfHeader + ElfProgramHeader * Count(size, SegmentTypes)
      code_offset == RoundUp(headers)
      offsets == [s \in SegmentTypes |->
                    IF size[s] = 0 THEN 0 ELSE ElfBase + Before(size, s)]
  IN  [offsets   |-> offsets,
       present   |-> Defined(size),
       order     |-> InOrder(size),
       seeks     |-> [s \in {InOrder(size)[1]} |-> code_offset],
       loads     |-> {Load(offsets[s], code_offset + Before(size, s), size[s]) :
                        s \in Defined(size)},
       announced |-> headers,
       written   |-> ElfHeader + ElfProgramHeader * Count(size, SegmentTypes),
       entry     |-> offsets[TEXT]]

-----------------------------------------------------------------------------
(* macho64: __TEXT holds the headers, __text and __const (RODATA), __DATA  *)
(* holds __data and __bss.  The sections fill the end of their segment,    *)
(* which is rounded up to pages.                                           *)
MachoHeader   == 32
MachoCommand  == 8 + 64     \* load command and segment command
MachoSection  == 80
MachoThread   == 8 + 176    \* load command and thread state

(* Bug: the sizes of the sections are not part of the commands.            *)
SegmentCommandNoSections(sections) == IF sections = 0 THEN 0 ELSE MachoCommand

(* The size of a segment command with its sections; none without sections. *)
SegmentCommand(sections) ==
  IF sections = 0 THEN 0 ELSE MachoCommand + MachoSection * sections

MachoLayout(size) ==
  LET text_segments == Count(size, {TEXT, RODATA})
      data_segments == Count(size, {DATA, BSS})
      sizeofcmds == MachoCommand + SegmentCommand(text_segments)
                      + SegmentCommand(data_segments) + MachoThread
      text_size == RoundUp(MachoHeader + sizeofcmds + size[TEXT] + size[RODATA])
      data_size == RoundUp(size[DATA] + size[BSS])
      data_addr == PageZero + text_size
      back == [s \in SegmentTypes |->
                 CASE s = TEXT   -> size[RODATA] + size[TEXT]
                   [] s = RODATA -> size[RODATA]
                   [] s = DATA   -> size[BSS] + size[DATA]
                   [] s = BSS    -> size[BSS]]
      place == [s \in SegmentTypes |->
                  IF s \in {TEXT, RODATA} THEN text_size - back[s]
                  ELSE text_size + data_size - back[s]]
      offsets == [s \in SegmentTypes |->
                    IF size[s] = 0 THEN 0 ELSE PageZero + place[s]]
  IN  [offsets   |-> offsets,
       present   |-> Defined(size),
       order     |-> IfDefined(size, TEXT) \o IfDefined(size, RODATA)
                       \o IfDefined(size, DATA) \o IfDefined(size, BSS),
       seeks     |-> [s \in Defined(size) |-> place[s]],
       loads     |-> {Load(PageZero, 0, text_size)}
                       \cup (IF data_segments = 0 THEN {}
                             ELSE {Load(data_addr, text_size, data_size)}),
       announced |-> MachoHeader + sizeofcmds,
       written   |-> MachoHeader + MachoCommand
                       + (MachoCommand + MachoSection * text_segments)
                       + (IF data_segments = 0 THEN 0
                          ELSE MachoCommand + MachoSection * data_segments)
                       + MachoThread,
       entry     |-> offsets[TEXT]]

(* Two ranges, of the file or of memory, that share no byte.               *)
Apart(from1, length1, from2, length2) ==
  from1 + length1 <= from2 \/ from2 + length2 <= from1

(* macho64 refuses a program without code.                                 *)
Writable(format, size) == format = "macho64" => size[TEXT] # 0

LayoutOf(format, size) ==
  CASE format = "bin"     -> BinLayout(size)
    [] format = "fexec"   -> FexecLayout(size)
    [] format = "elf"     -> ElfLayout(size)
    [] format = "macho64" -> MachoLayout(size)
=============================================================================
