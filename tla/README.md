# A verification project for iasm

iasm is an assembler for a part of x86-64, written in C.  It reads one source
file and writes one raw binary, fexec, ELF or Mach-O 64 file.  It is a
sequential program: nothing runs concurrently, and every run starts from
nothing.  What is hard about it is bookkeeping across passes (addresses that
are recorded in one pass and used in another), encodings that a test sees only
one operand at a time, sizes at the edge of a page or of an integer, and going
on after an error.

## The system

    source --> parse_source_lvl1 --> parse_source_lvl2 --> lex_source --> write_exec --> file
               lines of parts        mnemonic, operands    opcodes,       layout, patches,
                                                           references,    headers
                                                           labels

| Component | Code | State it keeps | Operations | What makes it correct |
|---|---|---|---|---|
| command line | `main.c` | options, the two open files | parse options, open the files, call `assemble`, exit | the exit code tells the truth; a failure does not look like an output |
| driver | `assembler.c:501-596` | the results of the stages | call each stage, stop at the first that reports an error, refuse a program without opcodes | no stage sees the result of a failed one |
| line splitter | `parse_source_lvl1` | line buffer, start of each part, flags for comment, string, brackets, escape | one character at a time, a line at every newline | each line has the parts its text shows; a line does not depend on the ones before |
| operand parser | `parse_source_lvl2`, `process_operand`, `process_number`, `asmutils.c` | the lines; the `operand_t` being built | classify a line, classify and convert each operand | a number, register, displacement or label means what is written |
| lexer | `lex_source` | lines (rewritten as it goes), current segment, four segments, label definitions, error flag | define a label, select a segment, run a mnemonic | a recorded address stays right; duplicates are found |
| mnemonics | `mnemonics/` | none: they append to the current segment | 25 functions and NOP | the bytes are the instruction that the line asks for |
| linker | `do_executable_replacements` | the segments, two loop counters | replace one field, report an undefined label | a field holds the address of its label, and nothing else changes |
| formats | `write_bin`, `fexec.c`, `elf.c`, `macho64.c` | segment offsets, headers, file position | lay out, link, write | what the headers announce is what the file holds, at the addresses that were linked |

The stages hand over data by pointers and call each other in order.  The lexer
calls the mnemonics through the chain of `check_mnemonic`; the mnemonics see
the current segment and the error flag and nothing else.  A writer calls the
linker after it computed the layout and before it writes a byte.

Hard behaviours: addresses recorded before the bytes they point at exist;
labels compared with lines that the loop itself rewrites; an error that is
reported while the pass goes on with half of its effects done; fields written
without bound checks, relying on what a mnemonic reserved; layouts counted from
both ends with page rounding; an `operand_t` with a field that nobody wrote;
and an output file that is emptied before there is anything to put in it.
`hazards` in `PROJECT.json` lists them line by line with the properties that
watch them.

## Modules

| Module | Models | |
|---|---|---|
| `SourceLines` | | what splitting a source into lines promises |
| `LineSplitter` | `parse_source_lvl1` | one action per character and case; implements `SourceLines` |
| `Operands` | `process_operand`, `process_number`, `asmutils.c` | pure: from characters to an `operand_t` |
| `LineParser` | `parse_source_lvl2` | one action per kind of line |
| `AsmData` | `include/asmutils.h`, the integer conversions | data types shared by all stages |
| `Mnemonics` | `mnemonics/*`, `include/mnemonics.h` | pure: `Encode(m, ops)` is the effect of one call |
| `Lexer` | `lex_source` | one action per kind of line |
| `X86` | the processor | an independent decoder, not taken from iasm |
| `Encoding` | | step properties that compare `Lexer` with `X86` |
| `Executables` | the four writers | pure: `LayoutOf(format, sizes)` |
| `Linker` | `write_exec`, `do_executable_replacements`, `make_executable` | one action per replacement and per extent of the file |
| `Translation` | | what a run of the program promises about files |
| `Assembler` | `main`, `get_exec_type`, `assemble` | composes `LineSplitter`, `LineParser`, `Lexer` and `Linker`; implements `Translation` |
| `MnemonicProofs`, `LexerProofs`, `EncodingProofs`, `LineSplitterProofs`, `LineParserProofs`, `ExecutablesProofs`, `LinkerProofs`, `AssemblerProofs` | | theorems and proofs |
| `MCLineSplitter`, `MCOperands`, `MCLexer`, `MCEncoding`, `MCLinker`, `MCAssembler` | | small instances for TLC |

### How the state corresponds to the code

*LineSplitter.*  The local variables of `parse_source_lvl1`, with `at` for the
moving pointer `source`, `buffer` for the first `buffer_index` bytes of the
buffer, which has `BUFFER_SIZE` of them, `starts` for `mnemonic` and the `operands` that are set (their number
is `sub_index`), and `string_char` being NUL for `is_string`.  A step is one
iteration: the actions are the branches of the `switch` in their order.
Characters are the classes that the code tells apart (a tab is a space), and
`line_number`, which only serves messages, is left out.  The code also copies
one element of `operands` that it never set; nobody reads it.  `buffer_index`
is never compared with the size of the buffer.  The byte behind the end of the
buffer is written by the branches at 43, 48 and 149 and taken for a zero at
69: `Overrun` is the step of a full buffer that does so (`overrun`).  What
happens then C does not define, and the model stops there, which no property
but those about `overrun` takes for the end of the run.

*Operands and LineParser.*  A part is its characters, here each of them and
not a class, because their values matter; `Code` gives the value of a `char`.
The operators have the names of the functions.  A `uint64_t` is eight bytes,
and `MulAdd` is `result * base + digit` on them with the wrap-around of 64
bits, so no width is scaled down.  What `process_operand` returns after an
error is `Refused`, and that it reports one is that result.  `LineParser` is
the loop of `parse_source_lvl2`, one step per line.  Two reads of memory that
nobody wrote are nondeterministic: the byte in front of an empty mnemonic, and
`indirect` where it is not assigned.  A line without parts (a line of
separators after an unterminated string) is an error in every case, whatever
its mnemonic points at.

*Lexer.*  `lines`, `segments`, `label_definitions`, `current_segment_type` and
`errors_found` are the variables of `lex_source`; `next` is its loop counter
`i`, from 1.  One step is one iteration: `DefineLabel` (assembler.c:424-445),
`SelectSegment` and `UnknownSegment` (446-461), `Instruction` (463-490, the
whole effect of the mnemonic function included) and `UnknownMnemonic`
(491-494).  A mnemonic is a string that is only compared; whether it starts
with a dot or ends with a colon are fields of the line, and removing the colon
(`mnemonic[mnsize - 1] = 0`) clears the field.  `current_segment` is
`segments[current_segment_type]`.  `segment_data_t.opcode_num` is the length
of `opcodes`, so a local address is that length at the time.

*Mnemonics.*  All functions append opcodes, at most one reference, and opcodes
again; an emission is that triple with the error flag.  `throw_error` returns
from the mnemonic, not from `lex_source`; only the data mnemonics have
appended something by then.  A `uint64_t` immediate is its eight bytes, so
that the comparisons with `UINT8_MAX`, `UINT16_MAX` and `UINT32_MAX` are exact
although TLC's integers have 32 bits.  `operand_t.indirect`, which
`process_operand` leaves unwritten for immediates, strings and plain labels,
is any BOOLEAN there.

*Linker.*  `format`, `segments` and `label_definitions` are the arguments of
`write_exec`, `exec_data` is the struct of that name, `seg` and `rep` are the
two loop counters that are both called `i`.  `Prepare` and `Refuse` are the
writer before its call of `do_executable_replacements`; `PatchRelative`,
`PatchAbsolute`, `UndefinedLabel` and `NextSegment` are its loop.  The file is
a set of extents, the headers being one: `WriteExtent` puts the next one where
the writer seeks to or where the last write ended (`position`), and
`WriteFails` is a write on a full disk: `stdio` takes all of it into its
buffer and moves the position on, and only half of it gets to the disk.  The
code looks at no result of `fwrite`, `fseek` and `fclose`, so the writer goes
on, and what it writes next may get there again.  `Written` is
`make_executable` and the return.  `Executables` computes, per format, the segment offsets,
the place of a segment in the file, what the headers tell the loader, and two
header sizes: the one announced (from which addresses are computed) and the
one written.

*Assembler.*  `args` is `argv` without the program, `files` the file system:
the texts of the files by name, where the output is what `fopen` left of it
and `file` of `Linker` is what was written to it since.  The actions up to
`OpenFails` are the statements of `main`; `stage` says which statement of
`assemble` comes next.  `Split`, `Parse`, `Lex` and `Write` are the steps of
the four stages, whose modules are instances with the variables of
`Assembler` (instances of the modules with the theorems, so that the proofs
about the whole program can use them); `NextStage` and `StageFailed` are the check of `errors_found`
between them and `CheckCode` the one for opcodes.  The array `lines` between
the first two stages is `lines_lvl1`, with offsets into buffers, for the
splitter, and `split_lines`, the strings there, for the parser.  The two loops
of `parse_source_lvl2` and `lex_source` share the variable `next`.  Opening
may fail at any time; reading does not.  A source with a line that leaves the
buffer of the splitter ends the model in `Undefined`, and `Translation` has
the status "undefined" for it.

## What is checked

| Run | Question | Bounds |
|---|---|---|
| `splitter` | Does the splitter deliver what was written, and what does any other source do to its buffer? | 2133 legal sources, all sources of up to 4 characters of 11 classes, and of up to 3 behind three parts, a buffer of 32 bytes: 170140 states |
| `doc_comments` | Is a comment ignored wherever it stands? (no) | the statements of `splitter` |
| `operands` | Is every line understood as it was meant, and nothing else taken? | 608 printed lines and pairs of lines, 46252 short operands: 95276 states |
| `decimal_wrap` | Is a decimal number that is too large refused? (no) | the same, with four numbers of 20 digits |
| `lexer` | Does the pass keep what the linker relies on, for every order of lines? | programs of up to 4 of 13 lines: 152127 states |
| `lexer_clash` | Is only a label's name refused as already defined? (no) | the same |
| `encoding` | Is every accepted instruction the one asked for, and is what is documented accepted? | programs of one line: 119419 states |
| `doc_store` | Does the store of mov.c:115 write to memory? (no) | the two moves of mov.c:115 |
| `linker` | Are references, file and headers consistent in all formats, and does the writer end? | 91715 states |
| `linker_placed` | Is every label within what is loaded? (no) | the same |
| `assembler` | Does the file mean what the source says, and is nothing but the output touched? | 192 programs in four formats, 1112 short sources, 259 command lines, a buffer of 32 bytes: 278707 states |
| `full_disk` | Is the binary written when the program says so? (no) | the same |

`splitter` builds every source from statements whose parts it knows, so that
`ImplementsSourceLines` compares what was written with what is delivered, not
one scanner with another: `SourceLines` is the specification that hands out
the lines one by one, and the refinement mapping reads the delivered buffers
as the C strings that `parse_source_lvl2` sees.  The statements have plain
parts, strings with separators and the other kind of quote in them, addresses
with spaces, and escaped quotes and backslashes; the layouts have indentation,
three kinds of separators and comments with quotes and brackets.  Two lines
are enough to see whether a line leaves anything behind, for the state of the
loop at the start of the second is the state at the start of any.
`SourceLines` promises nothing for other sources; on them the run checks what
holds all the same.  The splitter is not safe in its buffer: a line of as many
characters as the buffer has bytes, 4096 in the code, leaves it (`Overrun`),
and what happens then C does not say.
`OnlyLongLinesOverrun` says that nothing else does: where a byte behind the
end is used, the line has as many characters as the buffer has bytes, so that
nothing an earlier line left behind and no string, bracket or escape adds to
it.  `PartsInBuffer` is what `parse_source_lvl2` relies on when it calls
`strlen`.  Four characters reach every pair of modes (comment, string,
brackets, escape); three parts before them bring the limit of `MAX_OPERANDS`
within reach and leave two bytes of the buffer, so that three characters fill
it, in every action that writes to it.  The size of the buffer is a
constant that only `InBuffer` looks at; a small one is filled by few
characters, and `LineSplitterProofs` has it for every size.  32 bytes are enough
for every legal line of the run.

`operands` goes the other way round: it prints numbers, registers, addresses,
labels and strings in the notations of `docs/README.md`, with the registers
that `get_register` knows, and asks that `parse_source_lvl2` reads back what was
printed (`UnderstoodAsMeant`).  (The `r1` and `r2` of docs/README.md:34 and 38
are none of them: `get_register` refuses them as invalid, and `RefusesTheRest`,
whose texts include `r1`, says that they are not taken for anything else.)  The
printer divides where the code multiplies.  The numbers are those around every
power of 256, the displacements end at `INT32_MAX` on both sides.
`RefusesTheRest` takes all texts of up to four or five words over four
alphabets (numbers, strings, registers, addresses), and says that what is
taken without an error is a legal operand or one of `Tolerated`, the list of
what the code takes besides: numbers without digits, a minus sign in front of
a decimal number, and text behind the quote that ends a string.  `TypeOK`
says that lines parsed without an error have all their operands written.

`lexer` checks `TypeOK`; `FieldsInBounds`, `FieldsDisjoint` and
`FieldsAreZero`, which together say that the linker's unchecked `memcpy`
always hits exactly a placeholder; `LabelsInBounds` and `LabelsAscend`;
`LabelsDistinct`, for which the linker's "first match" is the only match;
`LabelsRecorded`, why the duplicate check works without a table; and
`AppendOnly`, why a recorded address may be used after the pass.  The lines
include two labels and one with the name of a mnemonic, a good, a repeated and
an unknown directive, references of both types, data of two bytes and data
that fails after its first byte.  Four lines are enough for two labels of one
name with a change of segment between them, and for a failing line between two
good ones.

`encoding` gives one program per line, so that a step is an encoding.  The
registers cover codes 0, 1, 3, 4 (the SIB escape), 5 (the RIP escape), 7, and
8 and above; the immediates are on both sides of 2^7, 2^8, 2^16, 2^31 and
2^32.  `EncodesMeaning` compares `Decode` of the bytes with `Meaning` of the
line, outside `Misencoded`, the union of named classes of lines that the code
takes and encodes as something else; the classes are part of the result.
`AcceptsDocumented` keeps that property honest: the documented shapes are not
just refused.  `Documented` has the shapes that the comments of the mnemonic
functions and the sections of `docs/README.md` on data, addresses and RIP
relative addressing show: arithmetic with a register or a number, the six
moves of `mov.c` (whose comments and messages name no register from `r8` on,
which it refuses), both forms of `lea`, jumps and calls to labels, numbers and
registers, `inc` of memory, `ret` and `int` with a number, and the data of
docs/README.md:21-26.  `DataIsStored` says what data lines append: the numbers in
the size of the mnemonic, for `db` the smallest of 1, 2, 4 and 8 bytes that
holds the number, and the characters of strings, in order and uncut.
`RelativeFieldEndsInstruction` is the assumption in the linker's arithmetic.

`linker` checks that every field holds the address of its label as the loader
will see it (`ReferencesReachLabels`), that segments are in the file where a
load maps them to the linked address (`ImageIsLoadable`), that nothing is
written over and the headers have the announced size (`ExtentsDisjoint`,
`LoadsDisjoint`), that a step changes only the current field
(`PatchesOnlyItsField`), and `Termination`.  The images have all combinations
of empty and filled segments, labels at both ends of every segment, undefined
labels, and sizes just before, on and behind the page boundary that the
Mach-O headers leave (3576 and 3656 bytes).  Any write may find the disk
full, after which only `ExtentsDisjoint`, `PatchesOnlyItsField` and
`Termination` claim something: the code reports success (`full_disk`).
`LoadsDisjoint` is about bytes: the segments of an ELF file follow each other
without a gap (elf.c:60-72), so that two loads may share a page of 4096 bytes,
on which the permissions of one of them hold; the model has no permissions of
pages.  `PageZero` and `ElfBase` are
65536 and 16384 instead of 2^32 and 0x400000, which TLC's integers or the
8-byte conversion cannot hold; the layouts use them only as a multiple of the
page size that is added, which is their assumption in `Executables`.

`assembler` runs the whole program.  `OutputMeansSource` compares the file,
taken apart by the decoder of `X86` from where the headers tell the loader to
put it, with the statements the source was made of: each segment is the
instructions and data written for it, in order and nothing else, and the
address in every reference is where the statement behind the label begins; the
exit code is 0 for just the programs that are legal.  (A full disk, which is
not noticed, and labels in segments without bytes, see `linker_placed`, are
excepted.)  The programs are every statement alone, every pair amid labels in
two segments, and jumps across a change of segments and back; every other line
is indented and has a comment.  This is the only run that goes through the
interfaces of all stages.  `StagesGetWhatTheyNeed` says that what the modules
of the stages assume about their input (`TextsAssumption`,
`SourcesAssumption`, `LexerOutput`) is what the stage before delivers, also on
sources that are wrong in the ways that three words of ten can be.
`ImplementsTranslation` is about files: only the output is touched, a failure
leaves it as it was or empty, success comes after a write (of which a full
disk may leave nothing) or when only the usage was asked for, and every run
ends, or leaves the buffer of the splitter with the output still empty; the command lines
include the same file as source and output, unknown options and formats, and
missing arguments.

*Deadlock* is not checked because each of these programs stops: `lex_source`
and `parse_source_lvl2` after their last line, the splitter at the NUL behind
the source, a writer when the file is written or refused, the program when it
exits.

*Fairness.*  `splitter` and `linker` assume `WF_vars(Next)`, and `assembler`
the same in two parts (`Fairness` in `Assembler`: the steps of
`parse_source_lvl2` are named by the counter they move).  The program is one
thread that never waits, so it makes its next step as long as it has one.

### What the violated properties show

Each is a sentence of the repository that the code does not keep, and the
finding in `PROJECT.json` quotes it: the text of `nop;text` is an operand of
`nop`; `nop` followed by `NOP:` is a duplicate label; `mov [rax], rbx` is
`mov [rbx], rax`;
18446744073709551616 is 0; a label in a segment without opcodes has the
address 0; and on a full disk the assembly is "Done!".

The models show more sentences that are not kept, without a run of their own.
docs/README.md:34 and 38 use registers `r1` and `r2`, which do not exist.
`mov rax, [rbx + 1]` of docs/README.md:57 loads from `rbx` (`MisreadsAddress`).
The address that mov.c:166 moves, `mov rax, $label`, is accepted only if the
unwritten field `indirect` happens to be false (`MovesLabel`; the model takes
both values).  A line of 4096 characters leaves the line buffer.

The classes of `Misencoded` in `Encoding` record more of the kind: `inc r8` is
`dec rax`; an accepted `mov rax, $label` is a load from memory with eight bytes
where four belong; `add rax, 0x80000000` adds a negative number;
`lea rax, [rbp]` is relative to RIP; `cmp` of anything but a
register with a register or an immediate appends nothing.  `LineSplitter`
has a `[` in a string swallow the spaces behind it (and a `]` there is an
error), and `Tolerated` shows that a quote that was escaped in the source ends
the string all the same, with the rest dropped.

## What is proved

`MnemonicProofs` proves `EncodeWellFormed`: for every known mnemonic and all
operands, the emission is well typed and an emission with a reference has
exactly `PatchWidth` zero bytes behind it.  It is a case analysis, one lemma
per family of mnemonics.

`LexerProofs` proves the eight invariants of `lexer` and `AppendOnly`, for
every set `Lines` of lines and programs of any length (`MaxLines` is any
natural number).  The inductive invariant is

    IInv == TypeOK /\ FieldsInv /\ LabelsInv

`FieldsInv` is preserved by an instruction because of `EncodeWellFormed`: the
new field starts behind every old byte, ends with the segment, and is zero.
`LabelsDistinct` alone is not inductive: nothing in it connects the labels
with the lines that the duplicate check reads.  `LabelsRecorded` is the
missing connection, and it is preserved because a line behind the counter is
never rewritten again.  `AppendOnly` follows from the same lemma about an
instruction.  The proofs use the assumptions `LinesAssumption` and
`MaxLinesAssumption` of `Lexer` and nothing else.

`EncodingProofs` proves all three properties of `encoding`, for every line of
the type `Line` and at every place of a program.  `EncodesMeaning` is the
largest: where the run has eight register codes, ten immediates and three
displacements, the theorem has all that the types allow.  Its proof reads the
bytes from the left.  `DecodePrefixed` and `DecodeBehind` take the prefixes
off (`Legacy` chooses how many there are; the lemma is that the choice is
unique), `RegisterFields`, `AddressFields`, `DisplacementFields` and
`RelativeFields` the mod-r/m byte, and `FieldsDecoded` says what is left.
`Filled` are the bytes of an emission with `Marker` in the place of its field,
`Right(line, e)` that they decode to the meaning of the line; there is one
such lemma per family of mnemonics (`AluRight`, `UnaryRight`, `BranchRight`,
`MovLoadRight`, ...), whose rows differ only in their opcodes (`AluRows`,
`UnaryRows`, ...), and `EncodeRight` puts them together.  `NewEmission` says
that what the step appends is `Filled` of the emission, wherever it lands.
Each class of `Misencoded` is used, some in one lemma only: without it that
lemma is false.  One line of the model had to change: `RegisterOperand` let a
plain register have a displacement, with which `mov rax, [rbx]` is encoded as
a load from `rbx` and that displacement; `process_operand` never returns such
an operand, and `LineParserProofs` proves it.  `RelativeFieldEndsInstruction`
is what `EncodeWellFormed` says of the placeholder, together with where
`append_label_reference` puts the address.  `AcceptsDocumented` is a case
analysis over the documented shapes, one lemma per family (`AluTakes`,
`MovTakes`, `LeaTakes`, `JumpTakes`, `DataTakes`, ...): the number that fits
by its bytes (`Number`) is below the limit that the code compares with
(`NumberBelow`), and data lines are taken because each operand is
(`ElementTakes`).

`LineSplitterProofs` proves the three invariants of `splitter` for every
source over every set of letters.  Its inductive invariant adds that the
starts of the current parts lie in the buffer (the zero that ends the line
then lies behind each of them), that every delivered line ends in a zero, and
that no newline gets into a buffer, and that the buffer holds no more
characters than the current line has.  The last speaks of every newline so
far, so that the step at a newline needs no notion of the last one; with a
full buffer it is `OnlyLongLinesOverrun`.  Of the size of the buffer only
`BufferSizeAssumption` is used, that it has a byte.  `SourceEnds`, that a source ends in a newline and
a NUL, is part of the invariant and not an assumption about a constant, so
that it can be what `assemble` establishes.  `DeliveredIsTyped` says what is
handed on: at most `MAX_OPERANDS` parts per line, without NUL or newline.

`LineParserProofs` begins with pure operators.  `NumbersAreRead` says that a number
of any length, in any base, is read modulo 2^64: `NumberIn` is the value of
eight bytes, `Meaning` that of the digits, and `MulAddValue` is the step, in
which the eight carries are summed up by one lemma (`OneByteMore`) from the
highest byte to the lowest.  Its recursive functions need induction, which the
library states for a predicate, an operator parameter that the provers cannot
instantiate; the lemma `Induction` states it for a set of numbers instead,
from the library's well-founded induction, and that they can.  Then it shows that
`process_operand` returns a typed operand for every text or refuses it
(`OperandIsTyped`); the 32 bits of a displacement are the reason for the
comparison with `INT32_MAX` (`SignedIsDisplacement`).

`RegistersAreRead`, `ImmediatesAreRead`, `AddressesAreRead`,
`PlainAddressesAreRead`, `LabelsAreRead` and `StringsAreRead` are what
`UnderstoodAsMeant` says of printed operands, for every operand of its kind: any
spelling of any register, numbers of all three notations (`Stands`) and
lengths that are accepted, every sign and displacement up to `INT32_MAX`, any
label, any string without its own quote or a backslash at its end.  Each shows
two things.  No other branch takes the text: that rests on the first character,
because names have only letters and digits and begin with a letter
(`NameOfRegister`), and on the hypothesis that the `CASE` of the model needs,
that at most one of its guards is true.  And the branch finds the pieces the
text was put together from: the sign of an address is the first one
(`NoPlusInNumber`: a number has no plus, so a minus in front of it is not
overlooked), the closing quote is the first that is not escaped.  What a name
means rests on `NameIsUnique`: no two of the 64 registers have the same name,
by the five ways in which names are made (`NamedAs`).

Last it proves `TypeOK` of `parse_source_lvl2` for sources of any length.  The
invariant adds that all of `lines_out`, also behind an error, are lines whose
operands may be `Refused`: `TypeOK` says nothing of `lines_out` after an error,
not even that it is a sequence whose length can be counted.  As long as there is no error they are lines of the lexer, because an
instruction with a refused operand is reported in the same step.

`ExecutablesProofs` proves `LayoutsSound`: for segments of any sizes and in
each of the four formats, the offsets, the places in the file and the loads
describe one image (`Sound` lists what that means).  Page arithmetic is
a handful of lemmas about `RoundUp`; then there is one lemma per format.

`LinkerProofs` proves the five invariants of `linker` and
`PatchesOnlyItsField`, from

    IInv == InputInv /\ LoopInv /\ LayoutInv /\ ResolvedInv /\ FileInv /\ ModeInv

`InputInv` is `LexerOutput`, which patching preserves since it changes no
size; `LayoutInv` that the offsets are those of the layout once it was
computed; `ResolvedInv` that every field the loop has passed holds its address,
which later patches leave alone because fields do not overlap; `FileInv` that
the extents written so far are a prefix of what the layout orders, where the
layout has them, each whole or cut, and the stream stands where the last one
was meant to end.  At the end of the
loop all fields are passed and all extents are written, and the invariants
follow with `LayoutsSound`.  The assumptions are those of `Linker` and
`Executables`: the inputs are `LexerOutput`, `PageZero` and `ElfBase` are
multiples of a page.

`AssemblerProofs` puts the stages together, for every command line, all files
and every source.  Its invariant depends on the stage: a stage that has not
begun has its variables as they were at first, the one that runs has its own
inductive invariant.  So there is little left to prove: a step of a stage
preserves it by the theorem about that stage, and a step from a stage to the
next is the lemma that the old invariant, without an error, gives the new one
its start (`FromSplit`, `FromParse`, `FromLex`, `CheckCodeIInv`).  These
four lemmas are what the assumptions of the stage modules (`TextsAssumption`,
`SourcesAssumption`, `LinesAssumption`, `InputsAssumption`) come down to; here
nothing of the kind is assumed.  `AssemblerStagesFit` is the consequence
that `assembler` checks.  `AssemblerTranslates` is the refinement of
`Translation` but for its liveness, step by step; it needs that a writer that
is done has written something and one that failed has not
(`WrittenOrRefused`).  `Assembler` assumes of its constants that arguments are
sequences of strings, that sources consist of characters that have a value,
and the page multiples.

`StringAssumption` is there for the provers, which do not know of any string
that it is one; `Name` is total because of it.

Only model-checked:

- that the splitter implements `SourceLines`, which is about legal sources
  only and needs the meaning of a layout;
- `UnderstoodAsMeant`, `RefusesTheRest` and `OutputMeansSource`, which compare
  with what a source was printed from, and `DataIsStored`, whose strings and
  numbers are put end to end by a fold; of the first, the six theorems about
  `process_operand` prove what it says of operands, for all of them;
- `Termination` and the liveness in `SourceLines` and `Translation`, because
  liveness under fairness is out of the prover's reach.

## What is not modelled, and the plan

Every component is modelled.  What is planned is about proofs:

1. `LineSplitterProofs`: the safety part of `SourceLines`, beginning with the
   steps that finish no line.
2. `LineParserProofs`: `RefusesTheRest` for all texts, the converse of the
   theorems about `process_operand`.

Left out for good: the wording of messages and the line numbers in them, the
contents of header fields that no address depends on (magic numbers, names,
protections), a source with a NUL in it (which ends there), input that cannot
be read after it was opened, and memory management (allocation never fails
here, and leaks change nothing that is observable).
