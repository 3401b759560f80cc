---------------------------- MODULE LinkerProofs ----------------------------
(***************************************************************************)
(* The invariants of write_exec, for segments of any size and any set of   *)
(* fields and labels that lex_source may hand over, in every format.  IInv *)
(* is inductive: a field that the loop has been at keeps its address       *)
(* because the fields are apart, and an extent goes where the layout means *)
(* it to be because the stream stands at the end of the extent before it,  *)
(* as long as no write has failed.                                         *)
(***************************************************************************)
EXTENDS Linker, ExecutablesProofs, FiniteSetTheorems

(* What lex_source handed over keeps its shape.                            *)
InputInv ==
  /\ format \in Formats
  /\ segments \in [SegmentTypes -> Segment]
  /\ label_definitions \in Seq(Label)
  /\ LexerOutput([segments |-> segments, label_definitions |-> label_definitions])

LoopInv ==
  /\ pc \in {"prepare", "replace", "write", "done", "failed"}
  /\ seg \in 0 .. 4 /\ rep \in Nat \ {0}
  /\ pc = "prepare" => seg = 0 /\ rep = 1
  /\ pc \in {"write", "done"} => seg = 4

LayoutInv ==
  /\ exec_data.segment_offsets \in [SegmentTypes -> Nat]
  /\ exec_data.present \subseteq SegmentTypes
  /\ pc \in {"replace", "write", "done"} =>
       /\ Writable(format, SegmentSizes)
       /\ exec_data.segment_offsets = Layout.offsets
       /\ exec_data.present = Layout.present

(* The field of r holds the address of its label, as the layout has it.    *)
AddressIn(s, r) ==
  IF r.type = "RELATIVE"
    THEN LE4(Address(r.name) - (exec_data.segment_offsets[s] + r.address + 4))
    ELSE LE8(Address(r.name))

Resolved(s, r) ==
  /\ Matches(r.name) # {}
  /\ SubSeq(segments[s].opcodes, r.address + 1, FieldEnd(r)) = AddressIn(s, r)

(* The loop has been at this field.                                        *)
Passed(s, k) == s < seg \/ (s = seg /\ k < rep)

ResolvedInv ==
  \A s \in SegmentTypes : \A k \in 1 .. Len(segments[s].replacements) :
    Passed(s, k) => Resolved(s, segments[s].replacements[k])

(* Where in the file an extent is meant to be.                             *)
Where(what) == IF what = HEADERS THEN 0 ELSE PlaceOf(format, SegmentSizes)[what]

(* An extent that was given to fwrite.                                     *)
InPlace(e) ==
  /\ \E k \in 1 .. out : e.what = Extents[k]
  /\ e.from = Where(e.what)
  /\ e.length \in 0 .. LengthOf(e.what)
  /\ ~disk_full => e.length = LengthOf(e.what)

EndOfLast ==
  IF out = 0 THEN 0 ELSE Where(Extents[out]) + LengthOf(Extents[out])

FileInv ==
  /\ disk_full \in BOOLEAN /\ position \in Nat
  /\ pc \in {"prepare", "replace", "failed"} =>
       out = 0 /\ file = {} /\ position = 0 /\ ~disk_full
  /\ pc \in {"write", "done"} =>
       /\ out \in 0 .. Len(Extents)
       /\ \A e \in file : InPlace(e)
       /\ \A e, f \in file : e.what = f.what => e = f
       /\ \A k \in 1 .. out : \E e \in file : e.what = Extents[k]
       /\ position = EndOfLast
       /\ pc = "done" => out = Len(Extents)
       /\ out = 0 \/ file # {}

ModeInv ==
  /\ mode \in [read : SUBSET Who, execute : SUBSET Who]
  /\ pc = "done" /\ format \in {"elf", "macho64"} => mode.read \subseteq mode.execute

IInv == InputInv /\ LoopInv /\ LayoutInv /\ ResolvedInv /\ FileInv /\ ModeInv

-----------------------------------------------------------------------------
(* Sequences and fields.                                                   *)
LEMMA LenNat == \A S : \A s \in Seq(S) : Len(s) \in Nat
  BY SMT

LEMMA ElementType == \A S : \A s \in Seq(S) : \A k \in 1 .. Len(s) : s[k] \in S
  BY SMT

LEMMA SegmentParts ==
  ASSUME NEW g \in Segment
  PROVE  /\ g.opcodes \in Seq(Byte) /\ Len(g.opcodes) \in Nat
         /\ g.replacements \in Seq(Replacement) /\ Len(g.replacements) \in Nat
  BY SMT DEF Segment

LEMMA ReplacementParts ==
  ASSUME NEW r \in Replacement
  PROVE  /\ r.address \in Nat /\ r.type \in ReplacementType
         /\ PatchWidth(r.type) \in {4, 8} /\ FieldEnd(r) \in Nat
         /\ FieldEnd(r) = r.address + PatchWidth(r.type)
  BY SMT DEF Replacement, ReplacementType, PatchWidth, FieldEnd

LEMMA LabelParts ==
  ASSUME NEW l \in Label
  PROVE  l.segment \in SegmentTypes /\ l.local_address \in Nat
  BY SMT DEF Label

LEMMA InputFacts ==
  ASSUME InputInv
  PROVE  /\ \E s \in SegmentTypes : segments[s].opcodes # << >>
         /\ \A s \in SegmentTypes :
              \A k \in 1 .. Len(segments[s].replacements) :
                /\ FieldEnd(segments[s].replacements[k]) <= Len(segments[s].opcodes)
                /\ \A j \in 1 .. k - 1 :
                     FieldEnd(segments[s].replacements[j])
                       <= segments[s].replacements[k].address
         /\ \A k \in 1 .. Len(label_definitions) :
              /\ label_definitions[k].local_address
                   <= Len(segments[label_definitions[k].segment].opcodes)
              /\ \A j \in 1 .. k - 1 :
                   label_definitions[j].name # label_definitions[k].name
  BY DEF InputInv, LexerOutput

LEMMA SegmentTyped ==
  ASSUME InputInv, NEW s \in SegmentTypes
  PROVE  /\ segments[s] \in Segment
         /\ segments[s].opcodes \in Seq(Byte) /\ Len(segments[s].opcodes) \in Nat
         /\ segments[s].replacements \in Seq(Replacement)
         /\ Len(segments[s].replacements) \in Nat
  BY SegmentParts DEF InputInv

LEMMA FieldTyped ==
  ASSUME InputInv, NEW s \in SegmentTypes,
         NEW k \in 1 .. Len(segments[s].replacements)
  PROVE  LET r == segments[s].replacements[k]
         IN  /\ r \in Replacement
             /\ r.address \in Nat /\ r.type \in ReplacementType
             /\ PatchWidth(r.type) \in {4, 8} /\ FieldEnd(r) \in Nat
             /\ FieldEnd(r) = r.address + PatchWidth(r.type)
             /\ FieldEnd(r) <= Len(segments[s].opcodes)
  BY SegmentTyped, ElementType, ReplacementParts, InputFacts

LEMMA SizesTyped ==
  ASSUME InputInv
  PROVE  /\ SegmentSizes \in Sizes
         /\ \A s \in SegmentTypes : SegmentSizes[s] = Len(segments[s].opcodes)
         /\ Defined(SegmentSizes) # {}
<1>1. SegmentSizes \in Sizes  BY SegmentTyped DEF SegmentSizes, Sizes
<1>2. \A s \in SegmentTypes : SegmentSizes[s] = Len(segments[s].opcodes)
  BY DEF SegmentSizes
<1>3. PICK s \in SegmentTypes : segments[s].opcodes # << >>  BY InputFacts
<1>4. Len(segments[s].opcodes) # 0  BY SMT, <1>3, SegmentTyped
<1> QED  BY <1>1, <1>2, <1>3, <1>4 DEF Defined

(* A segment with a field has opcodes.                                     *)
LEMMA FieldIsDefined ==
  ASSUME InputInv, NEW s \in SegmentTypes,
         NEW k \in 1 .. Len(segments[s].replacements)
  PROVE  s \in Defined(SegmentSizes)
<1> DEFINE r == segments[s].replacements[k]
<1>1. /\ r.address \in Nat /\ PatchWidth(r.type) \in {4, 8}
      /\ FieldEnd(r) = r.address + PatchWidth(r.type)
      /\ FieldEnd(r) <= Len(segments[s].opcodes)
  BY FieldTyped
<1>2. Len(segments[s].opcodes) # 0  BY SMT, <1>1, SegmentTyped
<1> QED  BY <1>2, SizesTyped DEF Defined

(* The names of the labels are distinct, so that every definition with a   *)
(* name is the first one.                                                  *)
LEMMA AddressUnique ==
  ASSUME InputInv, NEW name, NEW j \in Matches(name)
  PROVE  LET l == label_definitions[j]
         IN  /\ Address(name) = l.local_address + exec_data.segment_offsets[l.segment]
             /\ l \in Label
<1>1. \A i \in Matches(name) :
        i \in 1 .. Len(label_definitions) /\ label_definitions[i].name = name
  BY DEF Matches
<1>2. Len(label_definitions) \in Nat  BY LenNat DEF InputInv
<1>3. ASSUME NEW i \in Matches(name) PROVE i = j
  <2>1. i \in Nat /\ j \in Nat  BY SMT, <1>1, <1>2
  <2>2. i < j => i \in 1 .. j - 1  BY SMT, <1>1, <1>2
  <2>3. j < i => j \in 1 .. i - 1  BY SMT, <1>1, <1>2
  <2>4. ~(i < j) /\ ~(j < i)  BY <1>1, <2>2, <2>3, InputFacts
  <2> QED  BY SMT, <2>1, <2>4
<1>4. j <= j  BY SMT, <1>1
<1>5. (CHOOSE i \in Matches(name) : \A m \in Matches(name) : i <= m) = j
  BY <1>3, <1>4
<1>6. label_definitions[j] \in Label  BY <1>1, ElementType DEF InputInv
<1> QED  BY <1>5, <1>6 DEF Address

-----------------------------------------------------------------------------
(* Little-endian numbers.                                                  *)
LEMMA LE4Type ==
  ASSUME NEW v \in Int PROVE LE4(v) \in Seq(Byte) /\ Len(LE4(v)) = 4
<1>1. \A n \in Int : n % 256 \in Byte  BY SMT DEF Byte
<1>2. v \div 256 \in Int /\ v \div 65536 \in Int /\ v \div 16777216 \in Int
  BY SMT
<1>3. \A a, b, c, d \in Byte :
        << a, b, c, d >> \in Seq(Byte) /\ Len(<< a, b, c, d >>) = 4
  BY SMT
<1> QED  BY <1>1, <1>2, <1>3 DEF LE4

LEMMA LE8Type ==
  ASSUME NEW v \in Int PROVE LE8(v) \in Seq(Byte) /\ Len(LE8(v)) = 8
<1>1. (v \div 65536) \div 65536 \in Int  BY SMT
<1> DEFINE w == (v \div 65536) \div 65536
<1>2. \A a, b \in Seq(Byte) :
        Len(a) = 4 /\ Len(b) = 4 => a \o b \in Seq(Byte) /\ Len(a \o b) = 8
  <2>1. \A a, b \in Seq(Byte) :
          a \o b \in Seq(Byte) /\ Len(a \o b) = Len(a) + Len(b)
    BY SMT
  <2>2. 4 + 4 = 8  BY SMT
  <2> QED  BY <2>1, <2>2
<1>3. LE4(v) \in Seq(Byte) /\ Len(LE4(v)) = 4  BY LE4Type
<1>4. LE4(w) \in Seq(Byte) /\ Len(LE4(w)) = 4  BY <1>1, LE4Type
<1>5. LE8(v) = LE4(v) \o LE4(w)  BY DEF LE8
<1> QED  BY <1>2, <1>3, <1>4, <1>5

(* The bytes of a range.                                                   *)
LEMMA SubSeqFacts ==
  \A S : \A s \in Seq(S) : \A m \in Nat, n \in Nat :
    m <= n /\ n <= Len(s) =>
      /\ SubSeq(s, m + 1, n) \in Seq(S) /\ Len(SubSeq(s, m + 1, n)) = n - m
      /\ \A i \in 1 .. n - m : SubSeq(s, m + 1, n)[i] = s[m + i]
  BY SMT

LEMMA SeqEqual ==
  \A S : \A s, t \in Seq(S) :
    Len(s) = Len(t) /\ (\A i \in 1 .. Len(s) : s[i] = t[i]) => s = t
  BY SMT

-----------------------------------------------------------------------------
(* memcpy over a field.                                                    *)
Overwritten(ops, a, bytes) ==
  [k \in DOMAIN ops |->
     IF k \in a + 1 .. a + Len(bytes) THEN bytes[k - a] ELSE ops[k]]

LEMMA PatchedOpcodes ==
  ASSUME NEW ops \in Seq(Byte), NEW bytes \in Seq(Byte), NEW a \in Nat,
         a + Len(bytes) <= Len(ops), NEW w, w = Overwritten(ops, a, bytes)
  PROVE  /\ w \in Seq(Byte) /\ Len(w) = Len(ops)
         /\ \A k \in 1 .. Len(ops) : ~(a < k /\ k <= a + Len(bytes)) => w[k] = ops[k]
         /\ SubSeq(w, a + 1, a + Len(bytes)) = bytes
<1> USE DEF Overwritten
<1>1. Len(ops) \in Nat /\ Len(bytes) \in Nat /\ DOMAIN ops = 1 .. Len(ops)
  BY SMT
<1>2. \A k \in 1 .. Len(ops) :
        /\ ops[k] \in Byte
        /\ k \in a + 1 .. a + Len(bytes) => bytes[k - a] \in Byte
  BY SMT, <1>1
<1>3. w \in [1 .. Len(ops) -> Byte]  BY <1>1, <1>2
<1>4. \A S : \A n \in Nat : \A f \in [1 .. n -> S] : f \in Seq(S) /\ Len(f) = n
  BY SMT
<1>5. w \in Seq(Byte) /\ Len(w) = Len(ops)  BY <1>1, <1>3, <1>4
<1>6. \A k \in 1 .. Len(ops) : w[k] = IF k \in a + 1 .. a + Len(bytes)
                                       THEN bytes[k - a] ELSE ops[k]
  BY <1>1
<1>7. \A k \in 1 .. Len(ops) : ~(a < k /\ k <= a + Len(bytes)) => w[k] = ops[k]
  <2>1. \A k \in 1 .. Len(ops) :
          k \in a + 1 .. a + Len(bytes) => a < k /\ k <= a + Len(bytes)
    BY SMT, <1>1
  <2> QED  BY <1>6, <2>1
<1>8. SubSeq(w, a + 1, a + Len(bytes)) = bytes
  <2> DEFINE n == a + Len(bytes)
             t == SubSeq(w, a + 1, n)
  <2>1. n \in Nat /\ a <= n /\ n <= Len(w) /\ n - a = Len(bytes)
    BY SMT, <1>1, <1>5
  <2>2. /\ t \in Seq(Byte) /\ Len(t) = n - a
        /\ \A i \in 1 .. n - a : t[i] = w[a + i]
    BY <1>5, <2>1, SubSeqFacts
  <2>3. \A i \in 1 .. Len(bytes) :
          a + i \in 1 .. Len(ops) /\ a + i \in a + 1 .. n /\ (a + i) - a = i
    BY SMT, <1>1
  <2>4. \A i \in 1 .. Len(bytes) : w[a + i] = bytes[i]  BY <1>6, <2>3
  <2> HIDE DEF t
  <2>5. Len(t) = Len(bytes) /\ \A i \in 1 .. Len(t) : t[i] = bytes[i]
    BY <2>1, <2>2, <2>4
  <2>6. t = bytes  BY <2>2, <2>5, SeqEqual
  <2> QED  BY <2>6 DEF t
<1> QED  BY <1>5, <1>7, <1>8

(* A range that a patch does not touch.                                    *)
LEMMA SubSeqKept ==
  ASSUME NEW s \in Seq(Byte), NEW t \in Seq(Byte), Len(t) = Len(s),
         NEW m \in Nat, NEW n \in Nat, m <= n, n <= Len(s),
         \A k \in 1 .. Len(s) : m < k /\ k <= n => t[k] = s[k]
  PROVE  SubSeq(t, m + 1, n) = SubSeq(s, m + 1, n)
<1> DEFINE u == SubSeq(s, m + 1, n)
           v == SubSeq(t, m + 1, n)
<1>1. /\ u \in Seq(Byte) /\ Len(u) = n - m
      /\ \A i \in 1 .. n - m : u[i] = s[m + i]
  BY SubSeqFacts
<1>2. /\ v \in Seq(Byte) /\ Len(v) = n - m
      /\ \A i \in 1 .. n - m : v[i] = t[m + i]
  BY SubSeqFacts
<1>3. \A i \in 1 .. n - m : m + i \in 1 .. Len(s) /\ m < m + i /\ m + i <= n
  <2>1. Len(s) \in Nat  BY LenNat
  <2> QED  BY SMT, <2>1
<1> HIDE DEF u, v
<1>4. \A i \in 1 .. Len(u) : v[i] = u[i]  BY <1>1, <1>2, <1>3
<1>5. v = u  BY <1>1, <1>2, <1>4, SeqEqual
<1> QED  BY <1>5 DEF u, v

(* The loop is at a field of a segment that is not null.                   *)
LEMMA AtField ==
  ASSUME IInv, AtReplacement
  PROVE  /\ seg \in SegmentTypes /\ rep \in 1 .. Len(segments[seg].replacements)
         /\ replacement = segments[seg].replacements[rep]
         /\ replacement.address \in Nat /\ replacement.type \in ReplacementType
         /\ FieldEnd(replacement) = replacement.address + PatchWidth(replacement.type)
         /\ FieldEnd(replacement) <= Len(segments[seg].opcodes)
         /\ pc = "replace"
<1>1. /\ seg \in SegmentTypes /\ rep <= Len(segments[seg].replacements)
      /\ pc = "replace"
  BY DEF AtReplacement, Replacing
<1>2. rep \in Nat \ {0}  BY DEF IInv, LoopInv
<1>3. rep \in 1 .. Len(segments[seg].replacements)
  BY SMT, <1>1, <1>2, SegmentTyped DEF IInv
<1> QED  BY <1>1, <1>3, FieldTyped DEF IInv, replacement

LEMMA PatchedSegments ==
  ASSUME IInv, AtReplacement, NEW bytes \in Seq(Byte),
         Len(bytes) = PatchWidth(replacement.type), segments' = Patched(bytes)
  PROVE  /\ segments' \in [SegmentTypes -> Segment]
         /\ \A s \in SegmentTypes :
              /\ segments'[s].replacements = segments[s].replacements
              /\ Len(segments'[s].opcodes) = Len(segments[s].opcodes)
              /\ s # seg => segments'[s] = segments[s]
         /\ \A k \in 1 .. Len(segments[seg].opcodes) :
              ~(replacement.address < k /\ k <= FieldEnd(replacement)) =>
                segments'[seg].opcodes[k] = segments[seg].opcodes[k]
         /\ SubSeq(segments'[seg].opcodes, replacement.address + 1,
                   FieldEnd(replacement)) = bytes
<1> DEFINE ops == segments[seg].opcodes
           a == replacement.address
           w == Overwritten(ops, a, bytes)
<1>1. /\ seg \in SegmentTypes /\ a \in Nat
      /\ FieldEnd(replacement) = a + Len(bytes) /\ a + Len(bytes) <= Len(ops)
  BY AtField
<1>2. segments \in [SegmentTypes -> Segment]  BY DEF IInv, InputInv
<1>3. ops \in Seq(Byte) /\ segments[seg].replacements \in Seq(Replacement)
  BY <1>1, SegmentTyped DEF IInv
<1>4. segments' = [segments EXCEPT ![seg].opcodes = w]
  BY DEF Patched, Overwritten
<1>5. /\ w \in Seq(Byte) /\ Len(w) = Len(ops)
      /\ \A k \in 1 .. Len(ops) : ~(a < k /\ k <= a + Len(bytes)) => w[k] = ops[k]
      /\ SubSeq(w, a + 1, a + Len(bytes)) = bytes
  <2>1. /\ ops \in Seq(Byte) /\ a \in Nat /\ a + Len(bytes) <= Len(ops)
        /\ w = Overwritten(ops, a, bytes)
    BY <1>1, <1>3
  <2> HIDE DEF ops, a, w
  <2> QED  BY ONLY <2>1, PatchedOpcodes, bytes \in Seq(Byte)
<1> HIDE DEF w
<1>6. /\ segments'[seg] = [segments[seg] EXCEPT !.opcodes = w]
      /\ \A s \in SegmentTypes : s # seg => segments'[s] = segments[s]
      /\ DOMAIN segments' = SegmentTypes
  BY <1>1, <1>2, <1>4
<1>7. /\ segments'[seg].opcodes = w
      /\ segments'[seg].replacements = segments[seg].replacements
      /\ segments'[seg] \in Segment
  <2>1. segments[seg] \in Segment  BY <1>1, <1>2
  <2> QED  BY <1>3, <1>5, <1>6, <2>1 DEF Segment
<1>8. segments' \in [SegmentTypes -> Segment]
  <2>1. segments' = [s \in SegmentTypes |-> segments'[s]]  BY <1>2, <1>4
  <2>2. \A s \in SegmentTypes : segments'[s] \in Segment
    BY <1>2, <1>6, <1>7
  <2> QED  BY <2>1, <2>2
<1> QED  BY <1>1, <1>5, <1>6, <1>7, <1>8

-----------------------------------------------------------------------------
(* The extents.                                                            *)
LEMMA LayoutReady ==
  ASSUME InputInv, Writable(format, SegmentSizes)
  PROVE  /\ Sound(Layout, SegmentSizes, PlaceOf(format, SegmentSizes))
         /\ format \in {"elf", "macho64"} => Paged(Layout)
         /\ Len(Layout.order) <= 4
<1>1. format \in Formats  BY DEF InputInv
<1> QED  BY <1>1, SizesTyped, LayoutsSound, OrderShort DEF Layout

LEMMA WhereFacts ==
  ASSUME InputInv, Writable(format, SegmentSizes)
  PROVE  /\ HEADERS \notin SegmentTypes
         /\ Where(HEADERS) = 0 /\ LengthOf(HEADERS) = Layout.written
         /\ Layout.written \in Nat
         /\ \A s \in SegmentTypes :
              /\ Where(s) = PlaceOf(format, SegmentSizes)[s] /\ Where(s) \in Nat
              /\ LengthOf(s) = SegmentSizes[s] /\ LengthOf(s) \in Nat
<1>1. HEADERS \notin SegmentTypes  BY SMT DEF HEADERS, SegmentTypes
<1>2. Where(HEADERS) = 0 /\ LengthOf(HEADERS) = Layout.written
  BY DEF Where, LengthOf
<1>3. /\ PlaceOf(format, SegmentSizes) \in [SegmentTypes -> Nat]
      /\ Layout.written \in Nat
  BY LayoutReady DEF Sound, OffsetsTyped
<1>4. ASSUME NEW s \in SegmentTypes
      PROVE  /\ Where(s) = PlaceOf(format, SegmentSizes)[s] /\ Where(s) \in Nat
             /\ LengthOf(s) = SegmentSizes[s] /\ LengthOf(s) \in Nat
  <2>1. s # HEADERS  BY <1>1
  <2>2. SegmentSizes[s] \in Nat  BY SizesTyped DEF Sizes
  <2> QED  BY <1>3, <2>1, <2>2 DEF Where, LengthOf
<1> QED  BY <1>1, <1>2, <1>3, <1>4

LEMMA Prepended ==
  \A S : \A o \in Seq(S) : \A h : \A w : w = << h >> \o o =>
    /\ w \in Seq(S \cup {h}) /\ Len(w) = Len(o) + 1 /\ w[1] = h
    /\ \A k \in 2 .. Len(w) : k - 1 \in 1 .. Len(o) /\ w[k] = o[k - 1]
    /\ \A k \in 1 .. Len(o) : k + 1 \in 1 .. Len(w) /\ w[k + 1] = o[k]
  BY SMT

(* The headers and every segment with opcodes are an extent once, and each *)
(* belongs where the writer seeks to or else behind the one before it.     *)
LEMMA ExtentFacts ==
  ASSUME InputInv, Writable(format, SegmentSizes)
  PROVE  /\ Len(Extents) \in 0 .. 5
         /\ \A k \in 1 .. Len(Extents) :
              Extents[k] = HEADERS \/ Extents[k] \in Defined(SegmentSizes)
         /\ \A j, k \in 1 .. Len(Extents) : Extents[j] = Extents[k] => j = k
         /\ \A s \in Defined(SegmentSizes) :
              \E k \in 1 .. Len(Extents) : Extents[k] = s
         /\ \A k \in 1 .. Len(Extents) :
              Where(Extents[k]) =
                IF Extents[k] \in DOMAIN Layout.seeks THEN Layout.seeks[Extents[k]]
                ELSE IF k = 1 THEN 0
                ELSE Where(Extents[k - 1]) + LengthOf(Extents[k - 1])
<1> DEFINE o == Layout.order
           P == PlaceOf(format, SegmentSizes)
           X == Extents
<1>1. /\ Lists(o, SegmentTypes, SegmentSizes) /\ Sought(Layout, SegmentSizes, P)
      /\ Len(o) <= 4
  BY LayoutReady DEF Sound
<1>2. o \in Seq(SegmentTypes) /\ Len(o) \in 0 .. 4
  <2>1. o \in Seq(SegmentTypes)  BY <1>1 DEF Lists
  <2>2. Len(o) \in Nat  BY <2>1, LenNat
  <2>3. \A n \in Nat : n <= 4 => n \in 0 .. 4  BY SMT
  <2> QED  BY <1>1, <2>1, <2>2, <2>3
<1>3. \A k \in 1 .. Len(o) :
        /\ o[k] \in Defined(SegmentSizes) /\ o[k] \in SegmentTypes
        /\ P[o[k]] = Where(o[k]) /\ SegmentSizes[o[k]] = LengthOf(o[k])
  <2>1. \A k \in 1 .. Len(o) : o[k] \in SegmentTypes  BY <1>2, ElementType
  <2> QED  BY <1>1, <2>1, WhereFacts DEF Lists, Defined
<1>4. \A s \in Defined(SegmentSizes) : \E k \in 1 .. Len(o) : o[k] = s
  BY <1>1 DEF Lists, Defined
<1>5. \A k \in 1 .. Len(o) :
        Where(o[k]) = IF o[k] \in DOMAIN Layout.seeks THEN Layout.seeks[o[k]]
                      ELSE IF k = 1 THEN Layout.written
                      ELSE Where(o[k - 1]) + LengthOf(o[k - 1])
  <2> SUFFICES ASSUME NEW k \in 1 .. Len(o)
               PROVE  Where(o[k]) =
                        IF o[k] \in DOMAIN Layout.seeks THEN Layout.seeks[o[k]]
                        ELSE IF k = 1 THEN Layout.written
                        ELSE Where(o[k - 1]) + LengthOf(o[k - 1])
    OBVIOUS
  <2>1. k = 1 \/ k - 1 \in 1 .. Len(o)  BY SMT, <1>2
  <2> QED  BY <1>1, <1>3, <2>1 DEF Sought
<1> HIDE DEF o, P
<1>6. CASE Layout.written = 0
  <2>1. X = o
    <3>1. \A S : \A s \in Seq(S) : << >> \o s = s  BY SMT
    <3> QED  BY <1>2, <1>6, <3>1 DEF Extents, o
  <2> HIDE DEF X
  <2>2. Len(X) \in 0 .. 5  BY SMT, <1>2, <2>1
  <2> QED  BY <1>1, <1>3, <1>4, <1>5, <1>6, <2>1, <2>2 DEF X, Lists
<1>7. CASE Layout.written # 0
  <2>1. X = << HEADERS >> \o o  BY <1>7 DEF Extents, o
  <2> HIDE DEF X
  <2>2. /\ Len(X) = Len(o) + 1 /\ X[1] = HEADERS
        /\ \A k \in 2 .. Len(X) : k - 1 \in 1 .. Len(o) /\ X[k] = o[k - 1]
        /\ \A k \in 1 .. Len(o) : k + 1 \in 1 .. Len(X) /\ X[k + 1] = o[k]
    BY <1>2, <2>1, Prepended
  <2>3. Len(X) \in 0 .. 5  BY SMT, <1>2, <2>2
  <2>4. \A k \in 1 .. Len(X) : k = 1 \/ k \in 2 .. Len(X)  BY SMT, <2>3
  <2>5. \A k \in 1 .. Len(X) : X[k] = HEADERS \/ X[k] \in Defined(SegmentSizes)
    BY <1>3, <2>2, <2>4
  <2>6. ASSUME NEW j \in 1 .. Len(X), NEW k \in 1 .. Len(X), X[j] = X[k]
        PROVE  j = k
    <3>1. CASE j = 1 \/ k = 1  BY <1>3, <2>2, <2>4, <2>6, <3>1, WhereFacts
    <3>2. CASE j \in 2 .. Len(X) /\ k \in 2 .. Len(X)
      <4>1. j - 1 = k - 1  BY <1>1, <2>2, <2>6, <3>2 DEF Lists
      <4> QED  BY SMT, <3>2, <4>1
    <3> QED  BY <2>4, <3>1, <3>2
  <2>7. \A s \in Defined(SegmentSizes) : \E k \in 1 .. Len(X) : X[k] = s
    BY <1>4, <2>2
  <2>8. ASSUME NEW k \in 1 .. Len(X)
        PROVE  Where(X[k]) =
                 IF X[k] \in DOMAIN Layout.seeks THEN Layout.seeks[X[k]]
                 ELSE IF k = 1 THEN 0
                 ELSE Where(X[k - 1]) + LengthOf(X[k - 1])
    <3>1. CASE k = 1
      <4>1. HEADERS \notin DOMAIN Layout.seeks  BY <1>1, WhereFacts DEF Sought
      <4> QED  BY <2>2, <3>1, <4>1, WhereFacts
    <3>2. CASE k = 2
      <4>1. k - 1 = 1 /\ k # 1 /\ k \in 2 .. Len(X)  BY SMT, <2>3, <3>2
      <4>2. Where(X[1]) + LengthOf(X[1]) = Layout.written
        <5>1. 0 + Layout.written = Layout.written  BY SMT, WhereFacts
        <5> QED  BY <2>2, <5>1, WhereFacts
      <4> QED  BY <1>5, <2>2, <4>1, <4>2
    <3>3. CASE k \in 3 .. Len(X)
      <4>1. /\ k \in 2 .. Len(X) /\ k - 1 \in 2 .. Len(X)
            /\ k # 1 /\ k - 1 # 1
        BY SMT, <2>3, <3>3
      <4> QED  BY <1>5, <2>2, <4>1
    <3>4. k = 1 \/ k = 2 \/ k \in 3 .. Len(X)  BY SMT, <2>3
    <3> QED  BY <3>1, <3>2, <3>3, <3>4
  <2> QED  BY <2>3, <2>5, <2>6, <2>7, <2>8 DEF X
<1> QED  BY <1>6, <1>7

LEMMA ExtentTyped ==
  ASSUME InputInv, Writable(format, SegmentSizes), NEW k \in 1 .. Len(Extents)
  PROVE  Where(Extents[k]) \in Nat /\ LengthOf(Extents[k]) \in Nat
<1>1. Extents[k] = HEADERS \/ Extents[k] \in SegmentTypes
  BY ExtentFacts DEF Defined
<1>2. 0 \in Nat  BY SMT
<1> QED  BY <1>1, <1>2, WhereFacts

-----------------------------------------------------------------------------
(* What stays when the segments keep their shape.                          *)
LEMMA SameShape ==
  ASSUME InputInv, UNCHANGED << format, label_definitions >>,
         segments' \in [SegmentTypes -> Segment],
         \A s \in SegmentTypes :
           /\ segments'[s].replacements = segments[s].replacements
           /\ Len(segments'[s].opcodes) = Len(segments[s].opcodes)
  PROVE  InputInv' /\ SegmentSizes' = SegmentSizes
<1>1. SegmentSizes' = SegmentSizes  BY DEF SegmentSizes
<1>2. \E s \in SegmentTypes : segments'[s].opcodes # << >>
  <2>1. PICK s \in SegmentTypes : segments[s].opcodes # << >>  BY InputFacts
  <2>2. Len(segments[s].opcodes) # 0  BY SMT, <2>1, SegmentTyped
  <2>3. Len(segments'[s].opcodes) # 0  BY <2>2
  <2>4. Len(<< >>) = 0  BY SMT
  <2> QED  BY <2>3, <2>4
<1>3. \A s \in SegmentTypes :
        \A k \in 1 .. Len(segments'[s].replacements) :
          /\ FieldEnd(segments'[s].replacements[k]) <= Len(segments'[s].opcodes)
          /\ \A j \in 1 .. k - 1 :
               FieldEnd(segments'[s].replacements[j])
                 <= segments'[s].replacements[k].address
  BY InputFacts
<1>4. \A k \in 1 .. Len(label_definitions') :
        /\ label_definitions'[k].local_address
             <= Len(segments'[label_definitions'[k].segment].opcodes)
        /\ \A j \in 1 .. k - 1 :
             label_definitions'[j].name # label_definitions'[k].name
  <2>1. \A k \in 1 .. Len(label_definitions) :
          label_definitions[k].segment \in SegmentTypes
    BY ElementType, LabelParts DEF InputInv
  <2> QED  BY <2>1, InputFacts
<1>5. LexerOutput([segments |-> segments', label_definitions |-> label_definitions'])
  BY <1>2, <1>3, <1>4 DEF InputInv, LexerOutput
<1> QED  BY <1>1, <1>5 DEF InputInv

LEMMA InputUnchanged ==
  ASSUME InputInv, UNCHANGED << format, segments, label_definitions >>
  PROVE  InputInv' /\ SegmentSizes' = SegmentSizes
  BY DEF InputInv, SegmentSizes

LEMMA SameLayout ==
  ASSUME UNCHANGED format, SegmentSizes' = SegmentSizes
  PROVE  /\ Layout' = Layout /\ Extents' = Extents
         /\ \A w : Where(w)' = Where(w) /\ LengthOf(w)' = LengthOf(w)
<1>1. Layout' = Layout  BY DEF Layout
<1> QED  BY <1>1 DEF Extents, Where, LengthOf

LEMMA SameAddresses ==
  ASSUME UNCHANGED << label_definitions, exec_data >>
  PROVE  /\ \A n : Matches(n)' = Matches(n) /\ Address(n)' = Address(n)
         /\ \A s, r : AddressIn(s, r)' = AddressIn(s, r)
<1>1. \A n : Matches(n)' = Matches(n)  BY DEF Matches
<1>2. \A n : Address(n)' = Address(n)  BY <1>1 DEF Address
<1> QED  BY <1>1, <1>2 DEF AddressIn

(* The part of the invariant about the fields does not look at the file.   *)
LEMMA SameFields ==
  ASSUME ResolvedInv,
         UNCHANGED << segments, label_definitions, exec_data, seg, rep >>
  PROVE  ResolvedInv'
  BY SameAddresses DEF ResolvedInv, Resolved, Passed

(* The state in which assemble calls write_exec.                           *)
Started ==
  /\ InputInv
  /\ exec_data = [segment_offsets |-> [s \in SegmentTypes |-> 0], present |-> {}]
  /\ seg = 0 /\ rep = 1 /\ pc = "prepare"
  /\ out = 0 /\ position = 0 /\ file = {} /\ disk_full = FALSE
  /\ mode \in [read : SUBSET Who, execute : SUBSET Who]

LEMMA StartedIInv == Started => IInv
<1> SUFFICES ASSUME Started PROVE IInv
  OBVIOUS
<1>1. InputInv  BY DEF Started
<1>2. LoopInv  BY SMT DEF Started, LoopInv
<1>3. LayoutInv
  <2>1. exec_data.segment_offsets = [s \in SegmentTypes |-> 0]
        /\ exec_data.present = {} /\ pc = "prepare"
    BY DEF Started
  <2>2. 0 \in Nat  BY SMT
  <2> QED  BY <2>1, <2>2 DEF LayoutInv
<1>4. ResolvedInv
  <2>1. \A s \in SegmentTypes : \A k \in 1 .. Len(segments[s].replacements) :
          ~Passed(s, k)
    <3>1. seg = 0 /\ rep = 1  BY DEF Started
    <3>2. \A s \in SegmentTypes : ~(s < 0)  BY SMT DEF SegmentTypes
    <3>3. ASSUME NEW s \in SegmentTypes PROVE \A k \in 1 .. Len(segments[s].replacements) : ~(k < 1)
      BY SMT, <1>1, SegmentTyped
    <3> QED  BY <3>1, <3>2, <3>3 DEF Passed
  <2> QED  BY <2>1 DEF ResolvedInv
<1>5. FileInv
  <2>1. 0 \in Nat  BY SMT
  <2> QED  BY <2>1 DEF Started, FileInv
<1>6. ModeInv  BY DEF Started, ModeInv
<1> QED  BY <1>1, <1>2, <1>3, <1>4, <1>5, <1>6 DEF IInv

LEMMA InitIInv == Init => IInv
<1> SUFFICES ASSUME Init PROVE IInv
  OBVIOUS
<1>1. PICK in \in Inputs : segments = in.segments /\ label_definitions = in.label_definitions
  BY DEF Init
<1>2. LexerOutput(in)  BY InputsAssumption
<1>3. InputInv  BY <1>1, <1>2 DEF InputInv, LexerOutput, Init
<1>4. Started  BY <1>3, ModesAssumption DEF Init, Started
<1> QED  BY <1>4, StartedIInv

-----------------------------------------------------------------------------
(* do_executable_replacements.                                             *)
LEMMA PrepareIInv == IInv /\ Prepare => IInv'
<1> SUFFICES ASSUME IInv, Prepare PROVE IInv'
  OBVIOUS
<1>1. /\ pc = "prepare" /\ pc' = "replace" /\ Writable(format, SegmentSizes)
      /\ UNCHANGED << format, segments, label_definitions, seg, rep, stream >>
  BY DEF Prepare
<1>2. exec_data'.segment_offsets = Layout.offsets /\ exec_data'.present = Layout.present
  BY DEF Prepare
<1>3. InputInv' /\ SegmentSizes' = SegmentSizes
  BY <1>1, InputUnchanged DEF IInv
<1>4. Layout' = Layout  BY <1>1, <1>3, SameLayout
<1>5. seg = 0 /\ rep = 1 /\ LoopInv'
  BY <1>1 DEF IInv, LoopInv
<1>6. LayoutInv'
  <2>1. Layout.offsets \in [SegmentTypes -> Nat] /\ Layout.present \subseteq SegmentTypes
    BY <1>1, LayoutReady DEF IInv, Sound, OffsetsTyped
  <2> QED  BY <1>1, <1>2, <1>3, <1>4, <2>1 DEF LayoutInv
<1>7. ResolvedInv'
  <2>1. ASSUME NEW s \in SegmentTypes, NEW k \in 1 .. Len(segments[s].replacements)
        PROVE  ~(s < 0) /\ ~(k < 1)
    BY SMT, SegmentTyped DEF IInv, SegmentTypes
  <2> QED  BY <1>1, <1>5, <2>1 DEF ResolvedInv, Passed
<1>8. FileInv'  BY <1>1 DEF IInv, FileInv, stream
<1>9. ModeInv'  BY <1>1 DEF IInv, ModeInv, stream
<1> QED  BY <1>3, <1>5, <1>6, <1>7, <1>8, <1>9 DEF IInv

(* The writer stops: nothing was written.                                  *)
LEMMA StopIInv == IInv /\ (Refuse \/ UndefinedLabel) => IInv'
<1> SUFFICES ASSUME IInv, Refuse \/ UndefinedLabel PROVE IInv'
  OBVIOUS
<1>1. /\ pc \in {"prepare", "replace"} /\ pc' = "failed"
      /\ UNCHANGED << format, segments, label_definitions, exec_data, seg, rep,
                      stream >>
  BY DEF Refuse, UndefinedLabel, AtReplacement, Replacing
<1>2. InputInv'  BY <1>1, InputUnchanged DEF IInv
<1>3. LoopInv'  BY <1>1 DEF IInv, LoopInv
<1>4. LayoutInv'  BY <1>1 DEF IInv, LayoutInv
<1>5. ResolvedInv'  BY <1>1, SameFields DEF IInv
<1>6. FileInv'  BY <1>1 DEF IInv, FileInv, stream
<1>7. ModeInv'  BY <1>1 DEF IInv, ModeInv, stream
<1> QED  BY <1>2, <1>3, <1>4, <1>5, <1>6, <1>7 DEF IInv

LEMMA NextSegmentIInv == IInv /\ NextSegment => IInv'
<1> SUFFICES ASSUME IInv, NextSegment PROVE IInv'
  OBVIOUS
<1>1. /\ pc = "replace" /\ seg \in SegmentTypes /\ seg' = seg + 1 /\ rep' = 1
      /\ UNCHANGED << format, segments, label_definitions, exec_data, pc, stream >>
  BY DEF NextSegment, Replacing
<1>2. InputInv' /\ SegmentSizes' = SegmentSizes
  BY <1>1, InputUnchanged DEF IInv
<1>3. LoopInv'
  <2>1. seg' \in 0 .. 4 /\ rep' \in Nat \ {0}  BY SMT, <1>1 DEF SegmentTypes
  <2> QED  BY <1>1, <2>1 DEF IInv, LoopInv
<1>4. LayoutInv'
  <2>1. Layout' = Layout  BY <1>1, <1>2, SameLayout
  <2> QED  BY <1>1, <1>2, <2>1 DEF IInv, LayoutInv
<1>5. ResolvedInv'
  <2> SUFFICES ASSUME NEW s \in SegmentTypes,
                      NEW k \in 1 .. Len(segments[s].replacements),
                      s < seg + 1 \/ (s = seg + 1 /\ k < 1)
               PROVE  Resolved(s, segments[s].replacements[k])'
    BY <1>1 DEF ResolvedInv, Passed
  <2>1. k \in Nat \ {0}  BY SMT, SegmentTyped DEF IInv
  <2>2. s < seg \/ s = seg  BY SMT, <1>1, <2>1 DEF SegmentTypes
  <2>3. s = seg => k < rep
    <3> SUFFICES ASSUME s = seg PROVE k < rep
      OBVIOUS
    <3>1. seg \in exec_data.present
      <4>1. s \in Defined(SegmentSizes)  BY FieldIsDefined DEF IInv
      <4>2. Writable(format, SegmentSizes) /\ exec_data.present = Layout.present
        BY <1>1 DEF IInv, LayoutInv
      <4>3. Defined(SegmentSizes) \subseteq Layout.present
        BY <4>2, LayoutReady DEF IInv, Sound, OffsetsTyped
      <4> QED  BY <4>1, <4>2, <4>3
    <3>2. rep > Len(segments[s].replacements)  BY <3>1 DEF NextSegment
    <3>3. rep \in Nat  BY DEF IInv, LoopInv
    <3>4. Len(segments[s].replacements) \in Nat  BY SegmentTyped DEF IInv
    <3> QED  BY SMT, <3>2, <3>3, <3>4
  <2>4. Resolved(s, segments[s].replacements[k])
    BY <2>2, <2>3 DEF IInv, ResolvedInv, Passed
  <2> QED  BY <1>1, <2>4, SameAddresses DEF Resolved
<1>6. FileInv'  BY <1>1 DEF IInv, FileInv, stream
<1>7. ModeInv'  BY <1>1 DEF IInv, ModeInv, stream
<1> QED  BY <1>2, <1>3, <1>4, <1>5, <1>6, <1>7 DEF IInv

(* What is copied has the width of the field, and is the address of the    *)
(* label.                                                                  *)
LEMMA PatchBytes ==
  ASSUME IInv, PatchRelative \/ PatchAbsolute
  PROVE  LET bytes == AddressIn(seg, replacement)
         IN  /\ AtReplacement /\ Matches(replacement.name) # {}
             /\ bytes \in Seq(Byte) /\ Len(bytes) = PatchWidth(replacement.type)
             /\ segments' = Patched(bytes)
             /\ rep' = rep + 1
             /\ UNCHANGED << format, label_definitions, exec_data, seg, pc, stream >>
<1>1. AtReplacement /\ Matches(replacement.name) # {}
  BY DEF PatchRelative, PatchAbsolute
<1>2. PICK j : j \in Matches(replacement.name)  BY <1>1
<1>3. Address(replacement.name) \in Int
  <2> DEFINE l == label_definitions[j]
  <2>1. Address(replacement.name) = l.local_address + exec_data.segment_offsets[l.segment]
        /\ l \in Label
    BY <1>2, AddressUnique DEF IInv
  <2>2. l.segment \in SegmentTypes /\ l.local_address \in Nat  BY <2>1, LabelParts
  <2>3. exec_data.segment_offsets[l.segment] \in Nat  BY <2>2 DEF IInv, LayoutInv
  <2>4. \A m, n \in Nat : m + n \in Int  BY SMT
  <2> QED  BY <2>1, <2>2, <2>3, <2>4
<1>4. CASE PatchRelative
  <2>1. replacement.type = "RELATIVE"  BY <1>4 DEF PatchRelative
  <2> DEFINE v == Address(replacement.name)
                    - (exec_data.segment_offsets[seg] + replacement.address + 4)
  <2>2. v \in Int
    <3>1. replacement.address \in Nat /\ seg \in SegmentTypes  BY <1>1, AtField
    <3>2. exec_data.segment_offsets[seg] \in Nat  BY <3>1 DEF IInv, LayoutInv
    <3>3. \A i \in Int, m, n \in Nat : i - (m + n + 4) \in Int  BY SMT
    <3> QED  BY <1>3, <3>1, <3>2, <3>3
  <2>3. AddressIn(seg, replacement) = LE4(v)  BY <2>1 DEF AddressIn
  <2>4. LE4(v) \in Seq(Byte) /\ Len(LE4(v)) = 4  BY <2>2, LE4Type
  <2>5. PatchWidth(replacement.type) = 4  BY <2>1 DEF PatchWidth
  <2>6. segments' = Patched(LE4(v)) /\ rep' = rep + 1
        /\ UNCHANGED << format, label_definitions, exec_data, seg, pc, stream >>
    BY <1>4 DEF PatchRelative, RelativeAddress
  <2> QED  BY <1>1, <2>3, <2>4, <2>5, <2>6
<1>5. CASE PatchAbsolute
  <2>1. replacement.type = "ABSOLUTE"  BY <1>5 DEF PatchAbsolute
  <2> DEFINE v == Address(replacement.name)
  <2>2. "ABSOLUTE" # "RELATIVE"  OBVIOUS
  <2>3. AddressIn(seg, replacement) = LE8(v)  BY <2>1, <2>2 DEF AddressIn
  <2>4. LE8(v) \in Seq(Byte) /\ Len(LE8(v)) = 8  BY <1>3, LE8Type
  <2>5. PatchWidth(replacement.type) = 8  BY <2>1, <2>2 DEF PatchWidth
  <2>6. segments' = Patched(LE8(v)) /\ rep' = rep + 1
        /\ UNCHANGED << format, label_definitions, exec_data, seg, pc, stream >>
    BY <1>5 DEF PatchAbsolute
  <2> QED  BY <1>1, <2>3, <2>4, <2>5, <2>6
<1> QED  BY <1>4, <1>5

(* The fields that the loop has been at keep their bytes.                  *)
LEMMA PatchKeepsFields ==
  ASSUME IInv, PatchRelative \/ PatchAbsolute,
         NEW s \in SegmentTypes, NEW k \in 1 .. Len(segments[s].replacements),
         Passed(s, k)
  PROVE  LET r == segments[s].replacements[k]
         IN  SubSeq(segments'[s].opcodes, r.address + 1, FieldEnd(r))
               = SubSeq(segments[s].opcodes, r.address + 1, FieldEnd(r))
<1> DEFINE r == segments[s].replacements[k]
<1>1. /\ segments' \in [SegmentTypes -> Segment]
      /\ Len(segments'[s].opcodes) = Len(segments[s].opcodes)
      /\ s # seg => segments'[s] = segments[s]
      /\ \A i \in 1 .. Len(segments[seg].opcodes) :
           ~(replacement.address < i /\ i <= FieldEnd(replacement)) =>
             segments'[seg].opcodes[i] = segments[seg].opcodes[i]
  BY PatchBytes, PatchedSegments
<1>2. CASE s # seg  BY <1>1, <1>2
<1>3. CASE s = seg
  <2>1. /\ rep \in 1 .. Len(segments[s].replacements)
        /\ replacement = segments[s].replacements[rep]
        /\ replacement.address \in Nat
    BY <1>3, PatchBytes, AtField
  <2>2. k < rep  BY SMT, <1>3 DEF Passed, SegmentTypes
  <2>3. k \in 1 .. rep - 1  BY SMT, <2>1, <2>2, SegmentTyped DEF IInv
  <2>4. FieldEnd(r) <= replacement.address
    BY <2>1, <2>3, InputFacts DEF IInv
  <2>5. /\ r.address \in Nat /\ FieldEnd(r) \in Nat
        /\ FieldEnd(r) = r.address + PatchWidth(r.type)
        /\ PatchWidth(r.type) \in {4, 8}
        /\ FieldEnd(r) <= Len(segments[s].opcodes)
    BY FieldTyped DEF IInv
  <2>6. r.address <= FieldEnd(r)  BY SMT, <2>5
  <2> HIDE DEF r
  <2>7. \A i \in 1 .. Len(segments[s].opcodes) :
          i <= FieldEnd(r) => ~(replacement.address < i)
    BY SMT, <2>1, <2>4, <2>5, SegmentTyped DEF IInv
  <2>8. \A i \in 1 .. Len(segments[s].opcodes) :
          r.address < i /\ i <= FieldEnd(r) =>
            segments'[s].opcodes[i] = segments[s].opcodes[i]
    BY <1>1, <1>3, <2>7
  <2>9. segments[s].opcodes \in Seq(Byte) /\ segments'[s].opcodes \in Seq(Byte)
    BY <1>1, SegmentTyped, SegmentParts DEF IInv
  <2> QED  BY <1>1, <2>5, <2>6, <2>8, <2>9, SubSeqKept DEF r
<1> QED  BY <1>2, <1>3

LEMMA PatchIInv == IInv /\ (PatchRelative \/ PatchAbsolute) => IInv'
<1> SUFFICES ASSUME IInv, PatchRelative \/ PatchAbsolute PROVE IInv'
  OBVIOUS
<1> DEFINE bytes == AddressIn(seg, replacement)
<1>1. /\ AtReplacement /\ Matches(replacement.name) # {} /\ rep' = rep + 1
      /\ UNCHANGED << format, label_definitions, exec_data, seg, pc, stream >>
  BY PatchBytes
<1>2. /\ segments' \in [SegmentTypes -> Segment]
      /\ \A s \in SegmentTypes :
           /\ segments'[s].replacements = segments[s].replacements
           /\ Len(segments'[s].opcodes) = Len(segments[s].opcodes)
      /\ SubSeq(segments'[seg].opcodes, replacement.address + 1,
                FieldEnd(replacement)) = bytes
  BY PatchBytes, PatchedSegments
<1> HIDE DEF bytes
<1>3. InputInv' /\ SegmentSizes' = SegmentSizes
  BY <1>1, <1>2, SameShape DEF IInv
<1>4. pc = "replace" /\ seg \in SegmentTypes  BY <1>1, AtField
<1>5. LoopInv'
  <2>1. rep' \in Nat \ {0}
    <3>1. \A n \in Nat \ {0} : n + 1 \in Nat \ {0}  BY SMT
    <3> QED  BY <1>1, <3>1 DEF IInv, LoopInv
  <2> QED  BY <1>1, <1>4, <2>1 DEF IInv, LoopInv
<1>6. LayoutInv'
  <2>1. Layout' = Layout  BY <1>1, <1>3, SameLayout
  <2> QED  BY <1>1, <1>3, <2>1 DEF IInv, LayoutInv
<1>7. ResolvedInv'
  <2> SUFFICES ASSUME NEW s \in SegmentTypes,
                      NEW k \in 1 .. Len(segments[s].replacements),
                      s < seg \/ (s = seg /\ k < rep + 1)
               PROVE  Resolved(s, segments[s].replacements[k])'
    BY <1>1, <1>2 DEF ResolvedInv, Passed
  <2> DEFINE r == segments[s].replacements[k]
  <2>1. segments'[s].replacements[k] = r  BY <1>2
  <2>2. CASE Passed(s, k)
    <3>1. Resolved(s, r)  BY <2>2 DEF IInv, ResolvedInv
    <3>2. SubSeq(segments'[s].opcodes, r.address + 1, FieldEnd(r))
            = SubSeq(segments[s].opcodes, r.address + 1, FieldEnd(r))
      BY <2>2, PatchKeepsFields
    <3> QED  BY <1>1, <2>1, <3>1, <3>2, SameAddresses DEF Resolved
  <2>3. CASE ~Passed(s, k)
    <3>1. s = seg /\ k < rep + 1 /\ ~(k < rep)  BY <2>3 DEF Passed
    <3>2. k = rep
      <4>1. rep \in 1 .. Len(segments[s].replacements)  BY <1>1, <3>1, AtField
      <4>2. Len(segments[s].replacements) \in Nat  BY SegmentTyped DEF IInv
      <4> QED  BY SMT, <3>1, <4>1, <4>2
    <3>3. r = replacement  BY <3>1, <3>2 DEF replacement
    <3> QED
      BY <1>1, <1>2, <2>1, <3>1, <3>3, SameAddresses DEF Resolved, bytes
  <2> QED  BY <2>2, <2>3
<1>8. FileInv'  BY <1>1, <1>4 DEF IInv, FileInv, stream
<1>9. ModeInv'  BY <1>1 DEF IInv, ModeInv, stream
<1> QED  BY <1>3, <1>5, <1>6, <1>7, <1>8, <1>9 DEF IInv

-----------------------------------------------------------------------------
(* The extents are written one after the other.                            *)
LEMMA Ready ==
  ASSUME IInv, pc \in {"replace", "write", "done"}
  PROVE  InputInv /\ Writable(format, SegmentSizes)
  BY DEF IInv, LayoutInv

LEMMA StartWritingIInv == IInv /\ StartWriting => IInv'
<1> SUFFICES ASSUME IInv, StartWriting PROVE IInv'
  OBVIOUS
<1>1. /\ pc = "replace" /\ seg = 4 /\ pc' = "write"
      /\ UNCHANGED << format, segments, label_definitions, exec_data, seg, rep,
                      stream >>
  BY DEF StartWriting
<1>2. InputInv' /\ SegmentSizes' = SegmentSizes
  BY <1>1, InputUnchanged DEF IInv
<1>3. Layout' = Layout /\ Extents' = Extents  BY <1>1, <1>2, SameLayout
<1>4. LoopInv'  BY <1>1 DEF IInv, LoopInv
<1>5. LayoutInv'  BY <1>1, <1>2, <1>3 DEF IInv, LayoutInv
<1>6. ResolvedInv'  BY <1>1, SameFields DEF IInv
<1>7. FileInv'
  <2>1. out = 0 /\ file = {} /\ position = 0 /\ ~disk_full
    BY <1>1 DEF IInv, FileInv
  <2>2. UNCHANGED << out, file, position, disk_full >>  BY <1>1 DEF stream
  <2>3. 0 \in 0 .. Len(Extents)
    <3>1. Len(Extents) \in 0 .. 5  BY <1>1, Ready, ExtentFacts
    <3> QED  BY SMT, <3>1
  <2>4. \A k \in 1 .. 0 : FALSE  BY SMT
  <2>5. 0 \in Nat  BY SMT
  <2>6. EndOfLast' = 0  BY <2>1, <2>2 DEF EndOfLast
  <2>7. /\ out' = 0 /\ file' = {} /\ position' = 0 /\ disk_full' = FALSE
        /\ pc' = "write" /\ out' \in 0 .. Len(Extents')
    BY <1>1, <1>3, <2>1, <2>2, <2>3 DEF IInv, FileInv
  <2> QED  BY <2>4, <2>5, <2>6, <2>7 DEF FileInv
<1>8. ModeInv'  BY <1>1 DEF IInv, ModeInv, stream
<1> QED  BY <1>2, <1>4, <1>5, <1>6, <1>7, <1>8 DEF IInv

(* The next extent goes where it belongs, also behind one that was cut.    *)
LEMMA NextExtent ==
  ASSUME IInv, Writing
  PROVE  /\ InputInv /\ Writable(format, SegmentSizes) /\ pc = "write"
         /\ out \in Nat /\ out + 1 \in 1 .. Len(Extents)
         /\ current = Extents[out + 1]
         /\ position = EndOfLast
         /\ Place = Where(current)
         /\ Where(current) \in Nat /\ LengthOf(current) \in Nat
         /\ \A e \in file : e.what # current
<1>1. pc = "write" /\ out < Len(Extents)  BY DEF Writing
<1>2. InputInv /\ Writable(format, SegmentSizes)  BY <1>1, Ready
<1>3. /\ out \in 0 .. Len(Extents) /\ \A e \in file : InPlace(e)
      /\ position = EndOfLast
  BY <1>1 DEF IInv, FileInv
<1>4. Len(Extents) \in 0 .. 5  BY <1>2, ExtentFacts
<1>5. out \in Nat /\ out + 1 \in 1 .. Len(Extents)  BY SMT, <1>1, <1>3, <1>4
<1>7. current = Extents[out + 1]  BY DEF current
<1>8. Place = Where(current)
  <2>1. Where(current) =
          IF current \in DOMAIN Layout.seeks THEN Layout.seeks[current]
          ELSE IF out + 1 = 1 THEN 0
          ELSE Where(Extents[(out + 1) - 1]) + LengthOf(Extents[(out + 1) - 1])
    BY <1>2, <1>5, <1>7, ExtentFacts
  <2>2. (out + 1 = 1 <=> out = 0) /\ (out + 1) - 1 = out  BY SMT, <1>5
  <2>3. position = IF out = 0 THEN 0
                   ELSE Where(Extents[out]) + LengthOf(Extents[out])
    BY <1>3 DEF EndOfLast
  <2> QED  BY <2>1, <2>2, <2>3 DEF Place
<1>9. Where(current) \in Nat /\ LengthOf(current) \in Nat
  BY <1>2, <1>5, <1>7, ExtentTyped
<1>10. ASSUME NEW e \in file PROVE e.what # current
  <2>1. PICK k \in 1 .. out : e.what = Extents[k]  BY <1>3 DEF InPlace
  <2>2. k \in 1 .. Len(Extents) /\ k # out + 1  BY SMT, <1>4, <1>5, <2>1
  <2> QED  BY <1>2, <1>5, <1>7, <2>1, <2>2, ExtentFacts
<1> QED  BY <1>1, <1>2, <1>3, <1>5, <1>7, <1>8, <1>9, <1>10

(* What stays in a step that gives an extent to fwrite.                    *)
LEMMA WritingKeeps ==
  ASSUME IInv, Writing, UNCHANGED << format, segments, label_definitions,
                                     exec_data, seg, rep, pc, mode >>
  PROVE  /\ InputInv' /\ LoopInv' /\ LayoutInv' /\ ResolvedInv' /\ ModeInv'
         /\ Extents' = Extents
         /\ \A w : Where(w)' = Where(w) /\ LengthOf(w)' = LengthOf(w)
<1>1. InputInv' /\ SegmentSizes' = SegmentSizes  BY InputUnchanged DEF IInv
<1>2. /\ Layout' = Layout /\ Extents' = Extents
      /\ \A w : Where(w)' = Where(w) /\ LengthOf(w)' = LengthOf(w)
  BY <1>1, SameLayout
<1>3. LoopInv'  BY DEF IInv, LoopInv
<1>4. LayoutInv'  BY <1>1, <1>2 DEF IInv, LayoutInv
<1>5. ResolvedInv'  BY SameFields DEF IInv
<1>6. ModeInv'  BY DEF IInv, ModeInv
<1> QED  BY <1>1, <1>2, <1>3, <1>4, <1>5, <1>6

(* An extent, of which the first n bytes get to the disk.                  *)
LEMMA ExtentGiven ==
  ASSUME IInv, Writing, NEW n \in 0 .. LengthOf(current),
         file' = file \cup {Extent(Place, n, current)},
         position' = Place + LengthOf(current), out' = out + 1,
         disk_full' \in BOOLEAN,
         ~disk_full' => ~disk_full /\ n = LengthOf(current),
         UNCHANGED << format, segments, label_definitions, exec_data, seg, rep,
                      pc, mode >>
  PROVE  IInv'
<1> DEFINE x == Extent(Where(current), n, current)
<1>1. /\ file' = file \cup {x}
      /\ position' = Where(current) + LengthOf(current)
  BY NextExtent
<1>2. /\ pc = "write" /\ out \in Nat /\ out + 1 \in 1 .. Len(Extents)
      /\ current = Extents[out + 1]
      /\ Where(current) \in Nat /\ LengthOf(current) \in Nat
      /\ \A e \in file : e.what # current
      /\ InputInv /\ Writable(format, SegmentSizes)
  BY NextExtent
<1>3. /\ InputInv' /\ LoopInv' /\ LayoutInv' /\ ResolvedInv' /\ ModeInv'
      /\ Extents' = Extents
      /\ \A w : Where(w)' = Where(w) /\ LengthOf(w)' = LengthOf(w)
  BY WritingKeeps
<1>4. x.from = Where(current) /\ x.length = n /\ x.what = current
  BY DEF Extent
<1> HIDE DEF x
<1>5. FileInv'
  <2>1. Len(Extents) \in 0 .. 5  BY <1>2, ExtentFacts
  <2>2. /\ out' \in 0 .. Len(Extents') /\ out' # 0
        /\ position' \in Nat /\ position' = Where(current) + LengthOf(current)
    BY SMT, <1>1, <1>2, <1>3, <2>1
  <2>3. \A k \in 1 .. out : k \in 1 .. out'  BY SMT, <1>2
  <2>4. out' \in 1 .. out'  BY SMT, <1>2
  <2>5. \A k \in 1 .. out' : k \in 1 .. out \/ k = out'  BY SMT, <1>2
  <2>6. \A e \in file' : InPlace(e)'
    <3>1. \A e \in file : InPlace(e)  BY <1>2 DEF IInv, FileInv
    <3>2. \A e \in file :
            /\ \E k \in 1 .. out' : e.what = Extents'[k]
            /\ e.from = Where(e.what) /\ e.length \in 0 .. LengthOf(e.what)
            /\ ~disk_full' => e.length = LengthOf(e.what)
      BY <1>3, <2>3, <3>1 DEF InPlace
    <3>3. /\ x.what = Extents'[out'] /\ x.from = Where(x.what)
          /\ x.length \in 0 .. LengthOf(x.what)
          /\ ~disk_full' => x.length = LengthOf(x.what)
      BY <1>2, <1>3, <1>4
    <3>4. \A e \in file' :
            /\ \E k \in 1 .. out' : e.what = Extents'[k]
            /\ e.from = Where(e.what) /\ e.length \in 0 .. LengthOf(e.what)
            /\ ~disk_full' => e.length = LengthOf(e.what)
      BY <1>1, <2>4, <3>2, <3>3
    <3> QED  BY <1>3, <3>4 DEF InPlace
  <2>7. \A e, f \in file' : e.what = f.what => e = f
    BY <1>1, <1>2, <1>4 DEF IInv, FileInv
  <2>8. \A k \in 1 .. out' : \E e \in file' : e.what = Extents'[k]
    BY <1>1, <1>2, <1>3, <1>4, <2>5 DEF IInv, FileInv
  <2>9. EndOfLast' = position'
    BY <1>1, <1>2, <1>3, <2>2 DEF EndOfLast
  <2>10. pc' = "write" /\ file' # {}  BY <1>1, <1>2
  <2> QED  BY <2>2, <2>6, <2>7, <2>8, <2>9, <2>10 DEF FileInv
<1> QED  BY <1>3, <1>5 DEF IInv

LEMMA WriteExtentIInv == IInv /\ WriteExtent => IInv'
<1> SUFFICES ASSUME IInv, WriteExtent PROVE IInv'
  OBVIOUS
<1>1. Writing  BY DEF WriteExtent
<1>2. LengthOf(current) \in 0 .. LengthOf(current)
  <2>1. \A m \in Nat : m \in 0 .. m  BY SMT
  <2> QED  BY <1>1, <2>1, NextExtent
<1>3. disk_full \in BOOLEAN  BY DEF IInv, FileInv
<1> QED  BY <1>1, <1>2, <1>3, ExtentGiven DEF WriteExtent

LEMMA WriteFailsIInv == IInv /\ WriteFails => IInv'
<1> SUFFICES ASSUME IInv, WriteFails PROVE IInv'
  OBVIOUS
<1>1. Writing  BY DEF WriteFails
<1>2. LengthOf(current) \div 2 \in 0 .. LengthOf(current)
  <2>1. \A m \in Nat : m \div 2 \in 0 .. m  BY SMT
  <2> QED  BY <1>1, <2>1, NextExtent
<1> QED  BY <1>1, <1>2, ExtentGiven DEF WriteFails

LEMMA WrittenIInv == IInv /\ Written => IInv'
<1> SUFFICES ASSUME IInv, Written PROVE IInv'
  OBVIOUS
<1>1. /\ pc = "write" /\ out = Len(Extents) /\ pc' = "done"
      /\ mode' = IF format \in {"elf", "macho64"} THEN MadeExecutable ELSE mode
      /\ UNCHANGED << format, segments, label_definitions, exec_data, seg, rep,
                      out, position, file, disk_full >>
  BY DEF Written
<1>2. InputInv' /\ SegmentSizes' = SegmentSizes
  BY <1>1, InputUnchanged DEF IInv
<1>3. /\ Layout' = Layout /\ Extents' = Extents
      /\ \A w : Where(w)' = Where(w) /\ LengthOf(w)' = LengthOf(w)
  BY <1>1, <1>2, SameLayout
<1>4. LoopInv'  BY <1>1 DEF IInv, LoopInv
<1>5. LayoutInv'  BY <1>1, <1>2, <1>3 DEF IInv, LayoutInv
<1>6. ResolvedInv'  BY <1>1, SameFields DEF IInv
<1>7. FileInv'
  <2>1. \A e : InPlace(e) => InPlace(e)'  BY <1>1, <1>3 DEF InPlace
  <2>2. EndOfLast' = EndOfLast  BY <1>1, <1>3 DEF EndOfLast
  <2> QED  BY <1>1, <1>3, <2>1, <2>2 DEF IInv, FileInv
<1>8. ModeInv'
  <2>1. mode \in [read : SUBSET Who, execute : SUBSET Who]  BY DEF IInv, ModeInv
  <2>2. /\ MadeExecutable \in [read : SUBSET Who, execute : SUBSET Who]
        /\ MadeExecutable.read \subseteq MadeExecutable.execute
    BY <2>1 DEF MadeExecutable
  <2> QED  BY <1>1, <2>1, <2>2 DEF ModeInv
<1> QED  BY <1>2, <1>4, <1>5, <1>6, <1>7, <1>8 DEF IInv

-----------------------------------------------------------------------------
LEMMA NextIInv == IInv /\ [Next]_vars => IInv'
<1> SUFFICES ASSUME IInv, [Next]_vars PROVE IInv'
  OBVIOUS
<1>1. CASE Prepare  BY <1>1, PrepareIInv
<1>2. CASE Refuse \/ UndefinedLabel  BY <1>2, StopIInv
<1>3. CASE PatchRelative \/ PatchAbsolute  BY <1>3, PatchIInv
<1>4. CASE NextSegment  BY <1>4, NextSegmentIInv
<1>5. CASE StartWriting  BY <1>5, StartWritingIInv
<1>6. CASE WriteExtent  BY <1>6, WriteExtentIInv
<1>7. CASE WriteFails  BY <1>7, WriteFailsIInv
<1>8. CASE Written  BY <1>8, WrittenIInv
<1>9. CASE UNCHANGED vars
  <2>1. UNCHANGED << format, segments, label_definitions, exec_data, seg, rep, pc,
                     out, position, file, disk_full, mode >>
    BY <1>9 DEF vars, stream
  <2>2. InputInv' /\ SegmentSizes' = SegmentSizes
    BY <2>1, InputUnchanged DEF IInv
  <2>3. /\ Layout' = Layout /\ Extents' = Extents
        /\ \A w : Where(w)' = Where(w) /\ LengthOf(w)' = LengthOf(w)
    BY <2>1, <2>2, SameLayout
  <2>4. LoopInv' /\ ModeInv'  BY <2>1 DEF IInv, LoopInv, ModeInv
  <2>5. LayoutInv'  BY <2>1, <2>2, <2>3 DEF IInv, LayoutInv
  <2>6. ResolvedInv'  BY <2>1, SameFields DEF IInv
  <2>7. FileInv'
    <3>1. \A e : InPlace(e)' <=> InPlace(e)  BY <2>1, <2>3 DEF InPlace
    <3>2. EndOfLast' = EndOfLast  BY <2>1, <2>3 DEF EndOfLast
    <3> QED  BY <2>1, <2>3, <3>1, <3>2 DEF IInv, FileInv
  <2> QED  BY <2>2, <2>4, <2>5, <2>6, <2>7 DEF IInv
<1> QED
  BY <1>1, <1>2, <1>3, <1>4, <1>5, <1>6, <1>7, <1>8, <1>9 DEF Next

(* The invariant of write_exec, for every input and format.                *)
THEOREM LinkerInvariant == Spec => []IInv
<1>1. Init => IInv  BY InitIInv
<1>2. IInv /\ [Next]_vars => IInv'  BY NextIInv
<1> QED  BY <1>1, <1>2, PTL DEF Spec

-----------------------------------------------------------------------------
(* What the invariant says of a file that was written to its end.          *)
LEMMA CompleteFacts ==
  ASSUME IInv, Complete
  PROVE  /\ InputInv /\ Writable(format, SegmentSizes)
         /\ exec_data.segment_offsets = Layout.offsets
         /\ \A s \in SegmentTypes : \A k \in 1 .. Len(segments[s].replacements) :
              Resolved(s, segments[s].replacements[k])
         /\ \A s \in Defined(SegmentSizes) :
              /\ ExtentOf(s) \in file
              /\ {e \in file : e.what = s} = {ExtentOf(s)}
              /\ ExtentOf(s).from = PlaceOf(format, SegmentSizes)[s]
              /\ ExtentOf(s).length = SegmentSizes[s]
<1>1. pc = "done" /\ ~disk_full  BY DEF Complete
<1>2. InputInv /\ Writable(format, SegmentSizes)  BY <1>1, Ready
<1>3. exec_data.segment_offsets = Layout.offsets  BY <1>1 DEF IInv, LayoutInv
<1>4. ASSUME NEW s \in SegmentTypes, NEW k \in 1 .. Len(segments[s].replacements)
      PROVE  Resolved(s, segments[s].replacements[k])
  <2>1. seg = 4  BY <1>1 DEF IInv, LoopInv
  <2>2. s < 4  BY SMT DEF SegmentTypes
  <2> QED  BY <2>1, <2>2 DEF IInv, ResolvedInv, Passed
<1>5. ASSUME NEW s \in Defined(SegmentSizes)
      PROVE  /\ ExtentOf(s) \in file
             /\ {e \in file : e.what = s} = {ExtentOf(s)}
             /\ ExtentOf(s).from = PlaceOf(format, SegmentSizes)[s]
             /\ ExtentOf(s).length = SegmentSizes[s]
  <2>1. PICK k \in 1 .. Len(Extents) : Extents[k] = s  BY <1>2, ExtentFacts
  <2>2. /\ out = Len(Extents) /\ \A e \in file : InPlace(e)
        /\ \A e, f \in file : e.what = f.what => e = f
        /\ \A i \in 1 .. out : \E e \in file : e.what = Extents[i]
    BY <1>1 DEF IInv, FileInv
  <2>3. \E e \in file : e.what = s  BY <2>1, <2>2
  <2>4. ExtentOf(s) \in file /\ ExtentOf(s).what = s  BY <2>3 DEF ExtentOf
  <2>5. {e \in file : e.what = s} = {ExtentOf(s)}  BY <2>2, <2>4
  <2>6. ExtentOf(s).from = Where(s) /\ ExtentOf(s).length = LengthOf(s)
    BY <1>1, <2>2, <2>4 DEF InPlace
  <2>7. s \in SegmentTypes  BY DEF Defined
  <2> QED  BY <1>2, <2>4, <2>5, <2>6, <2>7, WhereFacts
<1> QED  BY <1>2, <1>3, <1>4, <1>5

(* The loader puts every segment where its labels are counted from.        *)
LEMMA CompleteMapped ==
  ASSUME IInv, Complete, NEW s \in Defined(SegmentSizes)
  PROVE  /\ \E load \in Layout.loads : Maps(load, ExtentOf(s))
         /\ MappedAt(s) = exec_data.segment_offsets[s]
<1> DEFINE P == PlaceOf(format, SegmentSizes)
           load == CHOOSE l \in Layout.loads : Maps(l, ExtentOf(s))
<1>1. /\ InputInv /\ Writable(format, SegmentSizes)
      /\ exec_data.segment_offsets = Layout.offsets
      /\ ExtentOf(s).from = P[s] /\ ExtentOf(s).length = SegmentSizes[s]
  BY CompleteFacts
<1>2. SegmentsLoaded(Layout, SegmentSizes, P)  BY <1>1, LayoutReady DEF Sound
<1>3. \A l : Maps(l, ExtentOf(s)) <=> Covers(l, P[s], SegmentSizes[s])
  BY <1>1 DEF Maps, Covers
<1>4. \E l \in Layout.loads : Maps(l, ExtentOf(s))
  BY <1>2, <1>3 DEF SegmentsLoaded
<1>5. load \in Layout.loads /\ Maps(load, ExtentOf(s))  BY <1>4
<1>6. load.vaddr + P[s] - load.offset = Layout.offsets[s]
  BY <1>2, <1>3, <1>5 DEF SegmentsLoaded
<1>7. MappedAt(s) = load.vaddr + P[s] - load.offset  BY <1>1 DEF MappedAt
<1> QED  BY <1>1, <1>4, <1>6, <1>7

LEMMA TypeOKHolds == IInv => TypeOK
<1> SUFFICES ASSUME IInv PROVE TypeOK
  OBVIOUS
<1>1. out \in 0 .. 5
  <2>1. CASE pc \in {"write", "done"}
    <3>1. Len(Extents) \in 0 .. 5  BY <2>1, Ready, ExtentFacts
    <3>2. out \in 0 .. Len(Extents)  BY <2>1 DEF IInv, FileInv
    <3>3. \A n \in 0 .. 5 : \A i \in 0 .. n : i \in 0 .. 5  BY SMT
    <3> QED  BY <3>1, <3>2, <3>3
  <2>2. CASE pc \in {"prepare", "replace", "failed"}
    <3>1. out = 0  BY <2>2 DEF IInv, FileInv
    <3> QED  BY SMT, <3>1
  <2> QED  BY <2>1, <2>2 DEF IInv, LoopInv
<1>2. /\ format \in Formats /\ segments \in [SegmentTypes -> Segment]
      /\ label_definitions \in Seq(Label)
  BY DEF IInv, InputInv
<1>3. /\ exec_data.segment_offsets \in [SegmentTypes -> Nat]
      /\ exec_data.present \subseteq SegmentTypes
  BY DEF IInv, LayoutInv
<1>4. /\ pc \in {"prepare", "replace", "write", "done", "failed"}
      /\ seg \in 0 .. 4 /\ rep \in Nat
  BY DEF IInv, LoopInv
<1>5. /\ position \in Nat /\ disk_full \in BOOLEAN
      /\ mode \in [read : SUBSET Who, execute : SUBSET Who]
  BY DEF IInv, FileInv, ModeInv
<1> QED  BY <1>1, <1>2, <1>3, <1>4, <1>5 DEF TypeOK

LEMMA ReferencesHold == IInv => ReferencesReachLabels
<1> SUFFICES ASSUME IInv, Complete, NEW s \in SegmentTypes,
                    NEW k \in 1 .. Len(segments[s].replacements)
             PROVE  LET r == segments[s].replacements[k]
                    IN  /\ Matches(r.name) # {}
                        /\ \A j \in Matches(r.name) :
                             LET l == label_definitions[j]
                             IN  l.segment \in Defined(SegmentSizes)
                                   => FieldHolds(s, r, l)
  BY DEF ReferencesReachLabels
<1> DEFINE r == segments[s].replacements[k]
<1>1. InputInv /\ Resolved(s, r)  BY CompleteFacts
<1>2. Matches(r.name) # {}  BY <1>1 DEF Resolved
<1>3. ASSUME NEW j \in Matches(r.name),
             label_definitions[j].segment \in Defined(SegmentSizes)
      PROVE  FieldHolds(s, r, label_definitions[j])
  <2> DEFINE l == label_definitions[j]
  <2>1. /\ Address(r.name) = l.local_address + exec_data.segment_offsets[l.segment]
        /\ l \in Label
    BY <1>1, AddressUnique
  <2>2. l.segment \in SegmentTypes /\ l.local_address \in Nat  BY <2>1, LabelParts
  <2>3. exec_data.segment_offsets[l.segment] \in Nat
    BY <2>2 DEF IInv, LayoutInv
  <2>4. MappedAt(l.segment) = exec_data.segment_offsets[l.segment]
    BY <1>3, CompleteMapped
  <2>5. MappedAt(s) = exec_data.segment_offsets[s]
    BY <1>1, FieldIsDefined, CompleteMapped
  <2>6. LabelAt(l) = Address(r.name)
    <3>1. \A m, n \in Nat : m + n = n + m  BY SMT
    <3> QED  BY <2>1, <2>2, <2>3, <2>4, <3>1 DEF LabelAt
  <2> HIDE DEF r, l
  <2>7. FieldHolds(s, r, l)
    BY <1>1, <2>5, <2>6 DEF FieldHolds, Resolved, AddressIn
  <2> QED  BY <2>7 DEF r, l
<1> QED  BY <1>2, <1>3

LEMMA ImageHolds == IInv => ImageIsLoadable
<1> SUFFICES ASSUME IInv, Complete
             PROVE  /\ \A s \in Defined(SegmentSizes) :
                         /\ Cardinality({e \in file : e.what = s}) = 1
                         /\ ExtentOf(s).length = SegmentSizes[s]
                         /\ \E load \in Layout.loads : Maps(load, ExtentOf(s))
                         /\ MappedAt(s) = exec_data.segment_offsets[s]
                    /\ \A load \in Layout.loads :
                         load.length > 0 => FileEnd(load.offset + load.length)
                    /\ format \in {"elf", "macho64"} =>
                         /\ \A load \in Layout.loads :
                              (load.vaddr - load.offset) % Page = 0
                         /\ TEXT \in Defined(SegmentSizes) =>
                              Layout.entry = MappedAt(TEXT)
                         /\ mode.read \subseteq mode.execute
  BY DEF ImageIsLoadable
<1> DEFINE P == PlaceOf(format, SegmentSizes)
<1>1. /\ InputInv /\ Writable(format, SegmentSizes)
      /\ exec_data.segment_offsets = Layout.offsets
  BY CompleteFacts
<1>2. LoadsFilled(Layout, SegmentSizes, P)
      /\ (format \in {"elf", "macho64"} => Paged(Layout))
  BY <1>1, LayoutReady DEF Sound
<1>3. ASSUME NEW s \in Defined(SegmentSizes)
      PROVE  /\ Cardinality({e \in file : e.what = s}) = 1
             /\ ExtentOf(s).length = SegmentSizes[s]
             /\ \E load \in Layout.loads : Maps(load, ExtentOf(s))
             /\ MappedAt(s) = exec_data.segment_offsets[s]
  <2>1. {e \in file : e.what = s} = {ExtentOf(s)}
        /\ ExtentOf(s).length = SegmentSizes[s]
    BY CompleteFacts
  <2>2. Cardinality({ExtentOf(s)}) = 1  BY FS_Singleton
  <2> QED  BY <2>1, <2>2, CompleteMapped
<1>4. ASSUME NEW load \in Layout.loads, load.length > 0
      PROVE  FileEnd(load.offset + load.length)
  <2>1. PICK s \in Defined(SegmentSizes) :
          P[s] + SegmentSizes[s] >= load.offset + load.length
    BY <1>2, <1>4 DEF LoadsFilled
  <2>2. /\ ExtentOf(s) \in file
        /\ ExtentOf(s).from = P[s] /\ ExtentOf(s).length = SegmentSizes[s]
    BY CompleteFacts
  <2> QED  BY <2>1, <2>2 DEF FileEnd
<1>5. ASSUME format \in {"elf", "macho64"}
      PROVE  /\ \A load \in Layout.loads : (load.vaddr - load.offset) % Page = 0
             /\ TEXT \in Defined(SegmentSizes) => Layout.entry = MappedAt(TEXT)
             /\ mode.read \subseteq mode.execute
  <2>1. pc = "done"  BY DEF Complete
  <2>2. mode.read \subseteq mode.execute  BY <1>5, <2>1 DEF IInv, ModeInv
  <2> QED  BY <1>1, <1>2, <1>3, <1>5, <2>2 DEF Paged
<1> QED  BY <1>3, <1>4, <1>5

(* What any two extents of the file have in common with the layout.        *)
LEMMA PlacesApart ==
  ASSUME InputInv, Writable(format, SegmentSizes),
         NEW v, NEW w, v # w,
         v = HEADERS \/ v \in Defined(SegmentSizes),
         w = HEADERS \/ w \in Defined(SegmentSizes)
  PROVE  Apart(Where(v), LengthOf(v), Where(w), LengthOf(w))
<1> DEFINE P == PlaceOf(format, SegmentSizes)
<1>1. SegmentsApart(Layout, SegmentSizes, P)  BY LayoutReady DEF Sound
<1>2. /\ Where(HEADERS) = 0 /\ LengthOf(HEADERS) = Layout.written
      /\ Layout.written \in Nat
      /\ \A s \in Defined(SegmentSizes) :
           /\ Where(s) = P[s] /\ LengthOf(s) = SegmentSizes[s]
  BY WhereFacts DEF Defined
<1>3. \A s \in Defined(SegmentSizes) : Layout.written <= Where(s)
  BY <1>1, <1>2 DEF SegmentsApart
<1>4. 0 + Layout.written = Layout.written  BY SMT, <1>2
<1>5. CASE v = HEADERS
  BY <1>2, <1>3, <1>4, <1>5 DEF Apart
<1>6. CASE w = HEADERS
  BY <1>2, <1>3, <1>4, <1>6 DEF Apart
<1>7. CASE v \in Defined(SegmentSizes) /\ w \in Defined(SegmentSizes)
  BY <1>1, <1>2, <1>7 DEF SegmentsApart
<1> QED  BY <1>5, <1>6, <1>7

LEMMA ExtentsHold == IInv => ExtentsDisjoint
<1> SUFFICES ASSUME IInv PROVE ExtentsDisjoint
  OBVIOUS
<1>1. ASSUME NEW e \in file, NEW f \in file, e # f
      PROVE  Apart(e.from, e.length, f.from, f.length)
  <2>1. pc \in {"write", "done"}  BY DEF IInv, FileInv, LoopInv
  <2>2. InputInv /\ Writable(format, SegmentSizes)  BY <2>1, Ready
  <2>3. /\ out \in 0 .. Len(Extents) /\ InPlace(e) /\ InPlace(f)
        /\ e.what # f.what
    BY <1>1, <2>1 DEF IInv, FileInv
  <2>4. \A k \in 1 .. out : k \in 1 .. Len(Extents)
    <3>1. Len(Extents) \in 0 .. 5  BY <2>2, ExtentFacts
    <3> QED  BY SMT, <2>3, <3>1
  <2>5. ASSUME NEW x \in {e, f}
        PROVE  /\ x.what = HEADERS \/ x.what \in Defined(SegmentSizes)
               /\ x.from = Where(x.what) /\ x.length \in 0 .. LengthOf(x.what)
               /\ Where(x.what) \in Nat /\ LengthOf(x.what) \in Nat
    <3>1. PICK k \in 1 .. Len(Extents) : x.what = Extents[k]
      BY <2>3, <2>4 DEF InPlace
    <3> QED  BY <2>2, <2>3, <3>1, ExtentFacts, ExtentTyped DEF InPlace
  <2>6. Apart(Where(e.what), LengthOf(e.what), Where(f.what), LengthOf(f.what))
    BY <2>2, <2>3, <2>5, PlacesApart
  <2>7. \A a, m, b, n \in Nat : \A i \in 0 .. m, j \in 0 .. n :
          Apart(a, m, b, n) => Apart(a, i, b, j)
    BY SMT DEF Apart
  <2> QED  BY <2>5, <2>6, <2>7
<1>2. Complete => Layout.announced = Layout.written
  BY CompleteFacts, LayoutReady DEF Sound, OffsetsTyped
<1> QED  BY <1>1, <1>2 DEF ExtentsDisjoint

LEMMA LoadsHold == IInv => LoadsDisjoint
<1> SUFFICES ASSUME IInv, Complete
             PROVE  \A l, m \in Layout.loads :
                      l = m \/ Apart(l.vaddr, l.length, m.vaddr, m.length)
  BY DEF LoadsDisjoint
<1> QED  BY CompleteFacts, LayoutReady DEF Sound, LoadsApart

(* A step keeps every byte that is not in the field the loop is at.        *)
KeepsOtherBytes ==
  \A s \in SegmentTypes :
    /\ segments'[s].replacements = segments[s].replacements
    /\ Len(segments'[s].opcodes) = Len(segments[s].opcodes)
    /\ \A k \in 1 .. Len(segments[s].opcodes) :
         segments'[s].opcodes[k] # segments[s].opcodes[k] =>
           /\ s = seg
           /\ k > replacement.address
           /\ k <= FieldEnd(replacement)

LEMMA StepKeepsOtherBytes == IInv /\ [Next]_vars => [KeepsOtherBytes]_vars
<1> SUFFICES ASSUME IInv, Next PROVE KeepsOtherBytes
  OBVIOUS
<1>1. CASE PatchRelative \/ PatchAbsolute
  <2> DEFINE bytes == AddressIn(seg, replacement)
  <2>1. /\ AtReplacement /\ bytes \in Seq(Byte)
        /\ Len(bytes) = PatchWidth(replacement.type) /\ segments' = Patched(bytes)
    BY <1>1, PatchBytes
  <2>2. /\ \A s \in SegmentTypes :
             /\ segments'[s].replacements = segments[s].replacements
             /\ Len(segments'[s].opcodes) = Len(segments[s].opcodes)
             /\ s # seg => segments'[s] = segments[s]
        /\ \A k \in 1 .. Len(segments[seg].opcodes) :
             ~(replacement.address < k /\ k <= FieldEnd(replacement)) =>
               segments'[seg].opcodes[k] = segments[seg].opcodes[k]
    BY <2>1, PatchedSegments
  <2>3. replacement.address \in Nat  BY <2>1, AtField
  <2>4. \A m, n \in Nat : m < n <=> n > m  BY SMT
  <2>5. \A k \in 1 .. Len(segments[seg].opcodes) : k \in Nat  BY SMT
  <2> QED  BY <2>2, <2>3, <2>4, <2>5 DEF KeepsOtherBytes
<1>2. CASE ~(PatchRelative \/ PatchAbsolute)
  <2>1. segments' = segments
    BY <1>2 DEF Next, Prepare, Refuse, UndefinedLabel, NextSegment, StartWriting,
                WriteExtent, WriteFails, Written
  <2> QED  BY <2>1 DEF KeepsOtherBytes
<1> QED  BY <1>1, <1>2

(* A writer that refuses has written nothing, and one that does not has    *)
(* written something, if only a part of it.                                *)
LEMMA WrittenOrRefused ==
  ASSUME IInv
  PROVE  /\ pc = "failed" => file = {}
         /\ pc = "done" => file # {}
<1>1. pc = "failed" => file = {}  BY DEF IInv, FileInv
<1>2. ASSUME pc = "done" PROVE file # {}
  <2>1. InputInv /\ Writable(format, SegmentSizes)  BY <1>2, Ready
  <2>2. PICK s \in SegmentTypes : segments[s].opcodes # << >>
    BY <2>1 DEF InputInv, LexerOutput
  <2>3. s \in Defined(SegmentSizes)
    <3>1. segments[s] \in Segment  BY <2>1 DEF InputInv
    <3>2. segments[s].opcodes \in Seq(Byte)  BY <3>1, SegmentParts
    <3>3. Len(segments[s].opcodes) # 0  BY SMT, <2>2, <3>2
    <3> QED  BY <3>3 DEF Defined, SegmentSizes
  <2>4. PICK k \in 1 .. Len(Extents) : Extents[k] = s
    BY <2>1, <2>3, ExtentFacts
  <2>5. Len(Extents) \in 0 .. 5  BY <2>1, ExtentFacts
  <2>6. Len(Extents) # 0  BY SMT, <2>4, <2>5
  <2>7. out = Len(Extents) /\ (out = 0 \/ file # {})
    BY <1>2 DEF IInv, FileInv
  <2> QED  BY <2>6, <2>7
<1> QED  BY <1>1, <1>2

-----------------------------------------------------------------------------
(* Every variable of write_exec has its type in every reachable state, and *)
(* the loop of do_executable_replacements never indexes behind BSS.        *)
THEOREM LinkerTypeCorrect == Spec => []TypeOK
  BY LinkerInvariant, TypeOKHolds, PTL

(* The memcpy of do_executable_replacements never touches a byte outside   *)
(* the field of the replacement the loop is at.                            *)
THEOREM LinkerPatchesOnlyItsField == Spec => PatchesOnlyItsField
<1>1. Spec => []IInv  BY LinkerInvariant
<1>2. IInv /\ [Next]_vars => [KeepsOtherBytes]_vars  BY StepKeepsOtherBytes
<1>3. Spec => [][KeepsOtherBytes]_vars  BY <1>1, <1>2, PTL DEF Spec
<1> QED  BY <1>3 DEF PatchesOnlyItsField, KeepsOtherBytes

(* In a file written to its end every field holds the address, absolute or *)
(* relative, at which the loader puts what its label marks.                *)
THEOREM LinkerReferencesReachLabels == Spec => []ReferencesReachLabels
  BY LinkerInvariant, ReferencesHold, PTL

(* Such a file has every segment once and whole, where a load maps it to   *)
(* the address its labels are counted from; the loads lie in the file.     *)
THEOREM LinkerImageIsLoadable == Spec => []ImageIsLoadable
  BY LinkerInvariant, ImageHolds, PTL

(* No extent is written over another one, also when the disk is full.      *)
THEOREM LinkerExtentsDisjoint == Spec => []ExtentsDisjoint
  BY LinkerInvariant, ExtentsHold, PTL

(* No two loads claim the same address.                                    *)
THEOREM LinkerLoadsDisjoint == Spec => []LoadsDisjoint
  BY LinkerInvariant, LoadsHold, PTL
=============================================================================
