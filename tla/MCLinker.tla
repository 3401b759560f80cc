------------------------------ MODULE MCLinker ------------------------------
(***************************************************************************)
(* Small images for Linker: references of both kinds to labels that are    *)
(* before, behind, in another segment, in an empty segment or nowhere, and *)
(* segments that end on, before and behind a page boundary.                *)
(***************************************************************************)
EXTENDS Linker

Plain(bytes) == [opcodes |-> bytes, replacements |-> << >>]
Field(name, type, address) ==
  [name |-> name, type |-> type, address |-> address]

(* nop; jmp $a; mov rax, $a; jmp $a / mov rax, $b / nop.                   *)
Jump  == [opcodes |-> << 233 >> \o Zeros(4),
          replacements |-> << Field("a", "RELATIVE", 1) >>]
Move  == [opcodes |-> << 72, 139, 5 >> \o Zeros(8),
          replacements |-> << Field("a", "ABSOLUTE", 3) >>]
Mixed == [opcodes |-> << 233 >> \o Zeros(4) \o << 72, 139, 5 >> \o Zeros(8)
                        \o << 144 >>,
          replacements |-> << Field("a", "RELATIVE", 1),
                              Field("b", "ABSOLUTE", 8) >>]

Image(text, data, rodata, bss) ==
  [s \in SegmentTypes |-> CASE s = TEXT -> text [] s = DATA -> data
                            [] s = RODATA -> rodata [] s = BSS -> bss]

Nothing == Plain(<< >>)
SmallImages ==
  {Image(t, d, r, b) : t \in {Nothing, Plain(<< 144 >>), Jump, Mixed},
                       d \in {Nothing, Move},
                       r \in {Nothing, Plain(<< 1, 2 >>)},
                       b \in {Nothing, Jump}}

(* 3656 bytes of code fill the first page of a macho64 with one section,   *)
(* 3576 one with two.                                                      *)
PageImages ==
  {Image(Plain([k \in 1 .. n |-> 144]), Plain(Zeros(d)), r, Jump) :
      n \in {3576, 3655, 3656, 3657}, d \in {0, 4091, 4092},
      r \in {Nothing, Plain(<< 1 >>)}}

Position(name, segment, local) ==
  [name |-> name, segment |-> segment, local_address |-> local]

(* Labels at the start and at the end of a segment.                        *)
Positions(name, image) ==
  {Position(name, s, n) : s \in SegmentTypes, n \in {0}}
    \cup {Position(name, s, Len(image[s].opcodes)) : s \in SegmentTypes}

LabelLists(image) ==
  {<< >>}
    \cup {<< a >> : a \in Positions("a", image)}
    \cup {<< b, a >> : a \in Positions("a", image),
                       b \in {Position("b", RODATA, 0),
                              Position("b", TEXT, Len(image[TEXT].opcodes))}}

WithLabels(images) ==
  UNION {{[segments |-> i, label_definitions |-> l] : l \in LabelLists(i)} :
           i \in images}

OneLabel(images) ==
  {[segments |-> i, label_definitions |-> << Position("a", DATA, 0) >>] :
     i \in images}

MCInputs ==
  WithLabels(SmallImages \ {Image(Nothing, Nothing, Nothing, Nothing)})
    \cup OneLabel(PageImages)

(* A new file under the umask 027.                                         *)
MCModes == {[read |-> {"user", "group"}, execute |-> {}]}
=============================================================================
