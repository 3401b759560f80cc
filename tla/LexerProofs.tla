---------------------------- MODULE LexerProofs ----------------------------
(***************************************************************************)
(* The invariants of lex_source for programs of any length, over any set   *)
(* of lines.  IInv is inductive: the fields of a segment stay inside it    *)
(* because every emission carries the whole placeholder, stay apart        *)
(* because a new field starts behind everything there is, and two labels   *)
(* of one name would have met in the rewritten lines.                      *)
(***************************************************************************)
EXTENDS Lexer, MnemonicProofs

(* What FieldsInBounds, FieldsDisjoint and FieldsAreZero say of a segment. *)
InBounds(seg) ==
  \A k \in 1 .. Len(seg.replacements) :
    seg.replacements[k].address + PatchWidth(seg.replacements[k].type)
      <= Len(seg.opcodes)

Apart(seg) ==
  \A k \in 1 .. Len(seg.replacements) :
    \A j \in 1 .. k - 1 :
      seg.replacements[j].address + PatchWidth(seg.replacements[j].type)
        <= seg.replacements[k].address

AllZero(seg) ==
  \A k \in 1 .. Len(seg.replacements) :
    \A b \in 1 .. PatchWidth(seg.replacements[k].type) :
      seg.opcodes[seg.replacements[k].address + b] = 0

-----------------------------------------------------------------------------
(* Sequences.                                                              *)
LEMMA PatchWidthNat == \A t : PatchWidth(t) \in Nat
  BY SMT DEF PatchWidth

LEMMA CatFacts ==
  \A s, t, u \in Bytes : \A w : w = s \o t \o u =>
    /\ w \in Bytes
    /\ Len(w) = Len(s) + Len(t) + Len(u)
    /\ \A i \in 1 .. Len(s) : w[i] = s[i]
    /\ \A i \in 1 .. Len(u) : w[Len(s) + Len(t) + i] = u[i]
  BY SMT DEF Bytes

LEMMA AppendFacts ==
  \A S : \A s \in Seq(S), x \in S : \A w : w = Append(s, x) =>
    /\ w \in Seq(S)
    /\ Len(w) = Len(s) + 1
    /\ \A i \in 1 .. Len(s) : w[i] = s[i]
    /\ w[Len(s) + 1] = x
  BY SMT

LEMMA LenNat == \A S : \A s \in Seq(S) : Len(s) \in Nat
  BY SMT

LEMMA BytesLen == \A s \in Bytes : Len(s) \in Nat
  BY LenNat DEF Bytes

LEMMA SumNat ==
  \A a, b \in Nat : a + b \in Nat /\ a <= a + b
  BY SMT

LEMMA WithinTrans ==
  \A a, w, b, c \in Nat : a + w <= b /\ b <= c => a + w <= c
  BY SMT

LEMMA LeqTrans == \A a, b, c \in Nat : a <= b /\ b <= c => a <= c
  BY SMT

LEMMA LabelParts ==
  \A l \in Label : l.segment \in SegmentTypes /\ l.local_address \in Nat
                     /\ l.name \in STRING
  BY SMT DEF Label

LEMMA FieldType ==
  \A n \in STRING, t \in ReplacementType, a \in Nat :
    [name |-> n, type |-> t, address |-> a] \in Replacement
  BY SMT DEF Replacement

LEMMA ExtendsRefl == ASSUME NEW S, NEW s \in Seq(S) PROVE Extends(s, s)
  BY SMT DEF Extends

-----------------------------------------------------------------------------
(* One emission.                                                           *)
LEMMA EmissionParts ==
  ASSUME NEW e, WellFormed(e)
  PROVE  /\ e.head \in Bytes /\ e.tail \in Bytes /\ e.err \in BOOLEAN
         /\ e.ref # NoRef =>
              /\ e.ref.name \in STRING /\ e.ref.type \in ReplacementType
              /\ Len(e.tail) = PatchWidth(e.ref.type)
              /\ \A b \in 1 .. PatchWidth(e.ref.type) : e.tail[b] = 0
<1>1. e.head \in Bytes /\ e.tail \in Bytes /\ e.err \in BOOLEAN
  BY SMT DEF WellFormed, Emission, Bytes
<1>2. ASSUME e.ref # NoRef
      PROVE  /\ e.ref.name \in STRING /\ e.ref.type \in ReplacementType
             /\ Len(e.tail) = PatchWidth(e.ref.type)
             /\ \A b \in 1 .. PatchWidth(e.ref.type) : e.tail[b] = 0
  BY <1>2, PatchWidthNat, ZerosBytes DEF WellFormed
<1> QED  BY <1>1, <1>2

(* The opcodes that an emission leaves in a segment.                       *)
LEMMA AppendedOpcodes ==
  ASSUME NEW seg \in Segment, NEW e, WellFormed(e)
  PROVE  /\ Appended(seg, e).opcodes \in Bytes
         /\ Len(Appended(seg, e).opcodes)
              = Len(seg.opcodes) + Len(e.head) + Len(e.tail)
         /\ \A i \in 1 .. Len(seg.opcodes) :
              Appended(seg, e).opcodes[i] = seg.opcodes[i]
         /\ \A i \in 1 .. Len(e.tail) :
              Appended(seg, e).opcodes[Len(seg.opcodes) + Len(e.head) + i]
                = e.tail[i]
<1>1. seg.opcodes \in Bytes  BY SMT DEF Segment, Bytes
<1>2. e.head \in Bytes /\ e.tail \in Bytes  BY EmissionParts
<1>3. Appended(seg, e).opcodes = seg.opcodes \o e.head \o e.tail
  BY DEF Appended
<1>4. \A w : w = seg.opcodes \o e.head \o e.tail =>
        /\ w \in Bytes
        /\ Len(w) = Len(seg.opcodes) + Len(e.head) + Len(e.tail)
        /\ \A i \in 1 .. Len(seg.opcodes) : w[i] = seg.opcodes[i]
        /\ \A i \in 1 .. Len(e.tail) :
             w[Len(seg.opcodes) + Len(e.head) + i] = e.tail[i]
  BY Zenon, <1>1, <1>2, CatFacts
<1> QED  BY Zenon, <1>3, <1>4

(* The field that an emission with a reference adds to a segment.          *)
LEMMA AppendedField ==
  ASSUME NEW seg \in Segment, NEW e, WellFormed(e), e.ref # NoRef
  PROVE  /\ Appended(seg, e).replacements \in Seq(Replacement)
         /\ Len(Appended(seg, e).replacements) = Len(seg.replacements) + 1
         /\ \A i \in 1 .. Len(seg.replacements) :
              Appended(seg, e).replacements[i] = seg.replacements[i]
         /\ Appended(seg, e).replacements[Len(seg.replacements) + 1]
              = [name |-> e.ref.name, type |-> e.ref.type,
                 address |-> Len(seg.opcodes) + Len(e.head)]
<1> DEFINE field == [name |-> e.ref.name, type |-> e.ref.type,
                     address |-> Len(seg.opcodes) + Len(e.head)]
<1>1. seg.replacements \in Seq(Replacement) /\ seg.opcodes \in Bytes
  BY SMT DEF Segment, Bytes
<1>2. /\ e.head \in Bytes /\ e.ref.name \in STRING
      /\ e.ref.type \in ReplacementType
  BY EmissionParts
<1>3. Len(seg.opcodes) + Len(e.head) \in Nat
  BY <1>1, <1>2, BytesLen, SumNat
<1>4. field \in Replacement  BY <1>2, <1>3, FieldType
<1>5. Appended(seg, e).replacements = Append(seg.replacements, field)
  BY DEF Appended
<1> HIDE DEF field
<1>6. \A w : w = Append(seg.replacements, field) =>
        /\ w \in Seq(Replacement)
        /\ Len(w) = Len(seg.replacements) + 1
        /\ \A i \in 1 .. Len(seg.replacements) : w[i] = seg.replacements[i]
        /\ w[Len(seg.replacements) + 1] = field
  <2>1. \A s \in Seq(Replacement), x \in Replacement :
          \A w : w = Append(s, x) =>
            /\ w \in Seq(Replacement)
            /\ Len(w) = Len(s) + 1
            /\ \A i \in 1 .. Len(s) : w[i] = s[i]
            /\ w[Len(s) + 1] = x
    BY Zenon, AppendFacts
  <2> QED  BY Zenon, <1>1, <1>4, <2>1
<1> QED  BY Zenon, <1>5, <1>6 DEF field

LEMMA AppendedSegment ==
  ASSUME NEW seg \in Segment, NEW e, WellFormed(e)
  PROVE  /\ Appended(seg, e) \in Segment
         /\ Extends(Appended(seg, e).opcodes, seg.opcodes)
         /\ Extends(Appended(seg, e).replacements, seg.replacements)
<1> DEFINE new == Appended(seg, e)
<1>1. seg.replacements \in Seq(Replacement) /\ seg.opcodes \in Bytes
  BY SMT DEF Segment, Bytes
<1>2. e.head \in Bytes /\ e.tail \in Bytes  BY EmissionParts
<1>3. /\ Len(seg.opcodes) \in Nat /\ Len(seg.replacements) \in Nat
      /\ Len(e.head) \in Nat /\ Len(e.tail) \in Nat
  BY <1>1, <1>2, BytesLen, LenNat
<1>4. /\ new.opcodes \in Bytes
      /\ Len(new.opcodes) = Len(seg.opcodes) + Len(e.head) + Len(e.tail)
      /\ \A i \in 1 .. Len(seg.opcodes) : new.opcodes[i] = seg.opcodes[i]
  BY AppendedOpcodes
<1>5. /\ new.replacements \in Seq(Replacement)
      /\ Extends(new.replacements, seg.replacements)
  <2>1. CASE e.ref = NoRef
    BY <1>1, <2>1, ExtendsRefl DEF Appended
  <2>2. CASE e.ref # NoRef
    <3>1. /\ new.replacements \in Seq(Replacement)
          /\ Len(new.replacements) = Len(seg.replacements) + 1
          /\ \A i \in 1 .. Len(seg.replacements) :
               new.replacements[i] = seg.replacements[i]
      BY <2>2, AppendedField
    <3>2. Len(seg.replacements) <= Len(new.replacements)
      BY SMT, <1>3, <3>1
    <3> QED  BY <3>1, <3>2 DEF Extends
  <2> QED  BY <2>1, <2>2
<1>6. Extends(new.opcodes, seg.opcodes)
  <2>1. \A a, b, c \in Nat : a <= a + b + c  BY SMT
  <2>2. Len(seg.opcodes) <= Len(new.opcodes)  BY <1>3, <1>4, <2>1
  <2> QED  BY <1>4, <2>2 DEF Extends
<1>7. new \in Segment
  <2>1. new = [opcodes |-> new.opcodes, replacements |-> new.replacements]
    BY DEF Appended
  <2> QED  BY <1>4, <1>5, <2>1 DEF Segment, Bytes
<1> QED  BY <1>5, <1>6, <1>7

(* Every field of a segment is inside it, apart from the others and zero.  *)
FieldsOK(seg) == seg \in Segment /\ InBounds(seg) /\ Apart(seg) /\ AllZero(seg)

(* The fields that were there before an emission.                          *)
LEMMA OldFields ==
  ASSUME NEW seg, FieldsOK(seg), NEW e, WellFormed(e),
         NEW k \in 1 .. Len(seg.replacements)
  PROVE  /\ Appended(seg, e).replacements[k] = seg.replacements[k]
         /\ seg.replacements[k].address \in Nat
         /\ seg.replacements[k].address + PatchWidth(seg.replacements[k].type)
              <= Len(seg.opcodes)
         /\ \A b \in 1 .. PatchWidth(seg.replacements[k].type) :
              Appended(seg, e).opcodes[seg.replacements[k].address + b] = 0
<1> DEFINE addr  == seg.replacements[k].address
           width == PatchWidth(seg.replacements[k].type)
<1>1. seg \in Segment  BY DEF FieldsOK
<1>2. seg.replacements \in Seq(Replacement) /\ seg.opcodes \in Bytes
  BY SMT, <1>1 DEF Segment, Bytes
<1>3. Appended(seg, e).replacements[k] = seg.replacements[k]
  BY <1>1, AppendedSegment DEF Extends
<1>4. addr \in Nat
  <2>1. \A s \in Seq(Replacement) : \A i \in 1 .. Len(s) : s[i] \in Replacement
    BY SMT
  <2>2. \A r \in Replacement : r.address \in Nat  BY SMT DEF Replacement
  <2> QED  BY <1>2, <2>1, <2>2
<1>5. addr + width <= Len(seg.opcodes)  BY DEF FieldsOK, InBounds
<1>6. ASSUME NEW b \in 1 .. width
      PROVE  Appended(seg, e).opcodes[addr + b] = 0
  <2>1. width \in Nat /\ Len(seg.opcodes) \in Nat
    BY <1>2, PatchWidthNat, BytesLen
  <2>2. \A a, w, n \in Nat : \A i \in 1 .. w : a + w <= n => a + i \in 1 .. n
    BY SMT
  <2>3. addr + b \in 1 .. Len(seg.opcodes)  BY <1>4, <1>5, <2>1, <2>2
  <2>4. Appended(seg, e).opcodes[addr + b] = seg.opcodes[addr + b]
    BY <1>1, <2>3, AppendedSegment DEF Extends
  <2>5. seg.opcodes[addr + b] = 0  BY DEF FieldsOK, AllZero
  <2> QED  BY <2>4, <2>5
<1> QED  BY <1>3, <1>4, <1>5, <1>6

LEMMA AppendedFields ==
  ASSUME NEW seg, FieldsOK(seg), NEW e, WellFormed(e)
  PROVE  FieldsOK(Appended(seg, e))
<1> DEFINE new == Appended(seg, e)
           n   == Len(seg.replacements)
           at  == Len(seg.opcodes) + Len(e.head)
<1>1. seg \in Segment  BY DEF FieldsOK
<1>2. seg.replacements \in Seq(Replacement) /\ seg.opcodes \in Bytes
  BY SMT, <1>1 DEF Segment, Bytes
<1>3. e.head \in Bytes /\ e.tail \in Bytes  BY EmissionParts
<1>4. /\ n \in Nat /\ Len(seg.opcodes) \in Nat
      /\ Len(e.head) \in Nat /\ Len(e.tail) \in Nat
  BY <1>2, <1>3, BytesLen, LenNat
<1>5. new \in Segment  BY <1>1, AppendedSegment
<1>6. Len(new.opcodes) = at + Len(e.tail)  BY <1>1, AppendedOpcodes
<1>7. Len(seg.opcodes) <= at /\ at <= Len(new.opcodes) /\ at \in Nat
        /\ Len(new.opcodes) \in Nat
  <2>1. Len(seg.opcodes) <= at /\ at \in Nat  BY <1>4, SumNat
  <2>2. at <= at + Len(e.tail) /\ at + Len(e.tail) \in Nat
    BY <1>4, <2>1, SumNat
  <2> QED  BY <1>6, <2>1, <2>2
<1>8. CASE e.ref = NoRef
  <2>1. new.replacements = seg.replacements  BY <1>8 DEF Appended
  <2>2. InBounds(new)
    <3> SUFFICES ASSUME NEW k \in 1 .. n
                 PROVE  seg.replacements[k].address
                          + PatchWidth(seg.replacements[k].type)
                          <= Len(new.opcodes)
      BY <2>1 DEF InBounds
    <3>1. seg.replacements[k].address \in Nat
          /\ seg.replacements[k].address + PatchWidth(seg.replacements[k].type)
               <= Len(seg.opcodes)
      BY OldFields
    <3> QED  BY <1>4, <1>7, <3>1, PatchWidthNat, WithinTrans
  <2>3. Apart(new)  BY <2>1 DEF FieldsOK, Apart
  <2>4. AllZero(new)  BY <2>1, OldFields DEF AllZero
  <2> QED  BY <1>5, <2>2, <2>3, <2>4 DEF FieldsOK
<1>9. CASE e.ref # NoRef
  <2>1. /\ Len(new.replacements) = n + 1
        /\ new.replacements[n + 1].type = e.ref.type
        /\ new.replacements[n + 1].address = at
    <3>1. /\ Len(new.replacements) = n + 1
          /\ new.replacements[n + 1]
               = [name |-> e.ref.name, type |-> e.ref.type, address |-> at]
      BY <1>1, <1>9, AppendedField
    <3> QED  BY <3>1
  <2>2. /\ Len(e.tail) = PatchWidth(e.ref.type)
        /\ \A b \in 1 .. PatchWidth(e.ref.type) : e.tail[b] = 0
    BY <1>9, EmissionParts
  <2>3. \A k \in 1 .. n + 1 : k \in 1 .. n \/ k = n + 1
    BY SMT, <1>4
  <2>4. InBounds(new)
    <3> SUFFICES ASSUME NEW k \in 1 .. n + 1
                 PROVE  new.replacements[k].address
                          + PatchWidth(new.replacements[k].type)
                          <= Len(new.opcodes)
      BY <2>1 DEF InBounds
    <3>1. CASE k \in 1 .. n
      <4>1. /\ new.replacements[k] = seg.replacements[k]
            /\ seg.replacements[k].address \in Nat
            /\ seg.replacements[k].address
                 + PatchWidth(seg.replacements[k].type) <= Len(seg.opcodes)
        BY <3>1, OldFields
      <4> QED  BY <1>4, <1>7, <4>1, PatchWidthNat, WithinTrans
    <3>2. CASE k = n + 1
      <4>1. \A a \in Nat : a <= a  BY SMT
      <4> QED  BY <1>6, <1>7, <2>1, <2>2, <3>2, <4>1
    <3> QED  BY <2>3, <3>1, <3>2
  <2>5. Apart(new)
    <3> SUFFICES ASSUME NEW k \in 1 .. n + 1, NEW j \in 1 .. k - 1
                 PROVE  new.replacements[j].address
                          + PatchWidth(new.replacements[j].type)
                          <= new.replacements[k].address
      BY <2>1 DEF Apart
    <3>0. j \in 1 .. n  BY SMT, <1>4
    <3>1. /\ new.replacements[j] = seg.replacements[j]
          /\ seg.replacements[j].address \in Nat
          /\ seg.replacements[j].address
               + PatchWidth(seg.replacements[j].type) <= Len(seg.opcodes)
      BY <3>0, OldFields
    <3>2. CASE k \in 1 .. n
      <4>1. new.replacements[k] = seg.replacements[k]  BY <3>2, OldFields
      <4> QED  BY <3>1, <3>2, <4>1 DEF FieldsOK, Apart
    <3>3. CASE k = n + 1
      BY <1>4, <1>7, <2>1, <3>1, <3>3, PatchWidthNat, WithinTrans
    <3> QED  BY <2>3, <3>2, <3>3
  <2>6. AllZero(new)
    <3> SUFFICES ASSUME NEW k \in 1 .. n + 1,
                        NEW b \in 1 .. PatchWidth(new.replacements[k].type)
                 PROVE  new.opcodes[new.replacements[k].address + b] = 0
      BY <2>1 DEF AllZero
    <3>1. CASE k \in 1 .. n  BY <3>1, OldFields
    <3>2. CASE k = n + 1
      <4>1. b \in 1 .. Len(e.tail) /\ b \in 1 .. PatchWidth(e.ref.type)
        BY <2>1, <2>2, <3>2
      <4>2. new.opcodes[at + b] = e.tail[b]  BY <1>1, <4>1, AppendedOpcodes
      <4> QED  BY <2>1, <2>2, <3>2, <4>1, <4>2
    <3> QED  BY <2>3, <3>1, <3>2
  <2> QED  BY <1>5, <2>4, <2>5, <2>6 DEF FieldsOK
<1> QED  BY <1>8, <1>9

-----------------------------------------------------------------------------
(* The inductive invariant.  LabelsRecorded is what makes LabelsDistinct   *)
(* inductive: a label that is defined twice meets its own earlier line.    *)
FieldsInv == FieldsInBounds /\ FieldsDisjoint /\ FieldsAreZero
LabelsInv == LabelsInBounds /\ LabelsAscend /\ LabelsRecorded /\ LabelsDistinct
IInv == TypeOK /\ FieldsInv /\ LabelsInv

LEMMA FieldsInvSegments ==
  ASSUME segments \in [SegmentTypes -> Segment]
  PROVE  FieldsInv <=> \A s \in SegmentTypes : FieldsOK(segments[s])
<1>1. FieldsInBounds <=> \A s \in SegmentTypes : InBounds(segments[s])
  BY DEF FieldsInBounds, InBounds
<1>2. FieldsDisjoint <=> \A s \in SegmentTypes : Apart(segments[s])
  BY DEF FieldsDisjoint, Apart
<1>3. FieldsAreZero <=> \A s \in SegmentTypes : AllZero(segments[s])
  BY DEF FieldsAreZero, AllZero
<1>4. \A s \in SegmentTypes : segments[s] \in Segment  OBVIOUS
<1> QED  BY <1>1, <1>2, <1>3, <1>4 DEF FieldsInv, FieldsOK

LEMMA OpcodesLen ==
  \A f \in [SegmentTypes -> Segment] : \A s \in SegmentTypes :
    Len(f[s].opcodes) \in Nat
<1>1. \A seg \in Segment : seg.opcodes \in Seq(Byte)  BY SMT DEF Segment
<1> QED  BY <1>1, LenNat

LEMMA LinesSeq ==
  \A n \in Nat : \A f \in [1 .. n -> Line] :
    Len(f) = n /\ f \in Seq(Line)
  BY SMT

LEMMA LinesType == ASSUME TypeOK PROVE lines \in [1 .. Len(lines) -> Line]
  BY SMT DEF TypeOK

(* The line that an iteration of the loop looks at.                        *)
LEMMA CurrentLine ==
  ASSUME TypeOK, Lexing
  PROVE  /\ next \in 1 .. Len(lines) /\ Current \in Line
         /\ Len(lines) \in Nat /\ next \in Nat
         /\ next + 1 \in 1 .. Len(lines) + 1
<1>1. Len(lines) \in Nat  BY LenNat DEF TypeOK
<1>2. lines \in [1 .. Len(lines) -> Line]  BY LinesType
<1>3. /\ next \in 1 .. Len(lines) /\ next \in Nat
      /\ next + 1 \in 1 .. Len(lines) + 1
  BY SMT, <1>1 DEF TypeOK, Lexing
<1> QED  BY <1>1, <1>2, <1>3 DEF Current

(* The state in which assemble calls lex_source.                           *)
Started ==
  /\ lines \in Seq(Line) /\ next = 1
  /\ current_segment_type = TEXT
  /\ segments = [s \in SegmentTypes |-> EmptySegment]
  /\ label_definitions = << >>
  /\ errors_found = FALSE

LEMMA StartedIInv == Started => IInv
<1> SUFFICES ASSUME Started PROVE IInv
  OBVIOUS
<1>1. EmptySegment \in Segment /\ FieldsOK(EmptySegment)
  <2>1. << >> \in Seq(Replacement) /\ << >> \in Seq(Byte)  OBVIOUS
  <2>2. EmptySegment \in Segment  BY <2>1 DEF EmptySegment, Segment
  <2>3. \A k \in 1 .. Len(EmptySegment.replacements) : FALSE
    BY SMT DEF EmptySegment
  <2> QED  BY <2>2, <2>3 DEF FieldsOK, InBounds, Apart, AllZero
<1>2. segments \in [SegmentTypes -> Segment]  BY <1>1 DEF Started
<1>3. FieldsInv
  <2>1. \A s \in SegmentTypes : FieldsOK(segments[s])  BY <1>1 DEF Started
  <2> QED  BY <1>2, <2>1, FieldsInvSegments
<1>4. TypeOK
  <2>1. current_segment_type \in SegmentTypes
    BY SMT DEF Started, SegmentTypes, TEXT
  <2>2. label_definitions \in Seq(Label) /\ errors_found \in BOOLEAN
    <3>1. << >> \in Seq(Label)  OBVIOUS
    <3> QED  BY <3>1 DEF Started
  <2>3. next \in 1 .. Len(lines) + 1
    <3>1. Len(lines) \in Nat  BY LenNat DEF Started
    <3> QED  BY SMT, <3>1 DEF Started
  <2> QED  BY <1>2, <2>1, <2>2, <2>3 DEF Started, TypeOK
<1>5. LabelsInv
  <2>1. \A k \in 1 .. Len(label_definitions) : FALSE  BY SMT DEF Started
  <2> QED  BY <2>1 DEF LabelsInv, LabelsInBounds, LabelsAscend,
                       LabelsRecorded, LabelsDistinct
<1> QED  BY <1>3, <1>4, <1>5 DEF IInv

LEMMA InitIInv == Init => IInv
<1> SUFFICES ASSUME Init PROVE IInv
  OBVIOUS
<1>1. PICK n \in 0 .. MaxLines : lines \in [1 .. n -> Lines]  BY DEF Init
<1>2. lines \in [1 .. n -> Line] /\ n \in Nat
  BY SMT, <1>1, LinesAssumption, MaxLinesAssumption
<1>3. lines \in Seq(Line)  BY <1>2, LinesSeq
<1>4. Started  BY <1>3 DEF Init, Started
<1> QED  BY <1>4, StartedIInv

-----------------------------------------------------------------------------
(* A step that defines no label: the lines and the labels stay, and the    *)
(* segments, if they change, grow by an emission.                          *)
LEMMA NoLabelStep ==
  ASSUME IInv, Lexing, next' = next + 1,
         UNCHANGED << lines, label_definitions >>,
         current_segment_type' \in SegmentTypes,
         errors_found' \in BOOLEAN, errors_found => errors_found',
         segments' \in [SegmentTypes -> Segment],
         \A s \in SegmentTypes :
           /\ FieldsOK(segments'[s])
           /\ Extends(segments'[s].opcodes, segments[s].opcodes)
  PROVE  IInv'
<1> USE DEF IInv
<1>1. TypeOK'
  <2>1. next' \in 1 .. Len(lines') + 1  BY CurrentLine
  <2> QED  BY <2>1 DEF TypeOK
<1>2. FieldsInv'
  <2>1. (segments \in [SegmentTypes -> Segment])'  OBVIOUS
  <2>2. (\A s \in SegmentTypes : FieldsOK(segments[s]))'  OBVIOUS
  <2> QED  BY <2>1, <2>2, FieldsInvSegments, PTL
<1>3. LabelsInBounds'
  <2> SUFFICES ASSUME NEW k \in 1 .. Len(label_definitions)
               PROVE  label_definitions[k].local_address
                        <= Len(segments'[label_definitions[k].segment].opcodes)
    BY DEF LabelsInBounds
  <2> DEFINE l == label_definitions[k]
  <2>1. l \in Label  BY SMT DEF TypeOK
  <2>2. l.segment \in SegmentTypes /\ l.local_address \in Nat
    BY <2>1, LabelParts
  <2>3. l.local_address <= Len(segments[l.segment].opcodes)
    BY DEF LabelsInv, LabelsInBounds
  <2>4. Len(segments[l.segment].opcodes) <= Len(segments'[l.segment].opcodes)
    BY <2>2 DEF Extends
  <2>5. /\ Len(segments[l.segment].opcodes) \in Nat
        /\ Len(segments'[l.segment].opcodes) \in Nat
    BY <2>2, OpcodesLen DEF TypeOK
  <2> QED  BY <2>2, <2>3, <2>4, <2>5, LeqTrans
<1>4. LabelsAscend'  BY DEF LabelsInv, LabelsAscend
<1>5. LabelsRecorded'
  <2>1. \A j \in 1 .. next - 1 : j \in 1 .. next' - 1
    BY SMT, CurrentLine
  <2> QED  BY <2>1 DEF LabelsInv, LabelsRecorded
<1>6. LabelsDistinct'  BY DEF LabelsInv, LabelsDistinct
<1> QED  BY <1>1, <1>2, <1>3, <1>4, <1>5, <1>6 DEF LabelsInv

(* The segments of a step that appends nothing.                            *)
LEMMA SameSegments ==
  ASSUME IInv, UNCHANGED segments
  PROVE  /\ segments' \in [SegmentTypes -> Segment]
         /\ \A s \in SegmentTypes :
              /\ FieldsOK(segments'[s])
              /\ Extends(segments'[s].opcodes, segments[s].opcodes)
              /\ Extends(segments'[s].replacements, segments[s].replacements)
<1>1. segments \in [SegmentTypes -> Segment]  BY DEF IInv, TypeOK
<1>2. \A s \in SegmentTypes : FieldsOK(segments[s])
  BY <1>1, FieldsInvSegments DEF IInv
<1>3. ASSUME NEW s \in SegmentTypes
      PROVE  /\ Extends(segments[s].opcodes, segments[s].opcodes)
             /\ Extends(segments[s].replacements, segments[s].replacements)
  <2>1. segments[s] \in Segment  BY <1>1
  <2>2. /\ segments[s].opcodes \in Seq(Byte)
        /\ segments[s].replacements \in Seq(Replacement)
    BY SMT, <2>1 DEF Segment
  <2> QED  BY <2>2, ExtendsRefl
<1> QED  BY <1>1, <1>2, <1>3

LEMMA SelectSegmentIInv == IInv /\ SelectSegment => IInv'
<1> SUFFICES ASSUME IInv, SelectSegment PROVE IInv'
  OBVIOUS
<1>1. current_segment_type' \in SegmentTypes
  BY SMT DEF SelectSegment, SegmentOf, SegmentTypes, TEXT, DATA, RODATA, BSS
<1>2. errors_found' \in BOOLEAN  BY DEF SelectSegment, IInv, TypeOK
<1> QED  BY <1>1, <1>2, SameSegments, NoLabelStep DEF SelectSegment

LEMMA UnknownSegmentIInv == IInv /\ UnknownSegment => IInv'
<1> SUFFICES ASSUME IInv, UnknownSegment PROVE IInv'
  OBVIOUS
<1>1. current_segment_type' \in SegmentTypes
  BY DEF UnknownSegment, IInv, TypeOK
<1> QED  BY <1>1, SameSegments, NoLabelStep DEF UnknownSegment

LEMMA UnknownMnemonicIInv == IInv /\ UnknownMnemonic => IInv'
<1> SUFFICES ASSUME IInv, UnknownMnemonic PROVE IInv'
  OBVIOUS
<1>1. current_segment_type' \in SegmentTypes
  BY DEF UnknownMnemonic, IInv, TypeOK
<1> QED  BY <1>1, SameSegments, NoLabelStep DEF UnknownMnemonic

(* The emission of a line, and the segments behind it.                     *)
LEMMA InstructionSegments ==
  ASSUME IInv, Instruction
  PROVE  /\ segments' \in [SegmentTypes -> Segment]
         /\ \A s \in SegmentTypes :
              /\ FieldsOK(segments'[s])
              /\ Extends(segments'[s].opcodes, segments[s].opcodes)
              /\ Extends(segments'[s].replacements, segments[s].replacements)
         /\ errors_found' \in BOOLEAN /\ (errors_found => errors_found')
<1> DEFINE e == Encode(Current.mnemonic, Current.operands)
           c == current_segment_type
<1>1. /\ segments \in [SegmentTypes -> Segment]
      /\ c \in SegmentTypes /\ errors_found \in BOOLEAN
  BY DEF IInv, TypeOK
<1>2. \A s \in SegmentTypes : FieldsOK(segments[s])
  BY <1>1, FieldsInvSegments DEF IInv
<1>3. WellFormed(e)
  <2>1. Current \in Line  BY CurrentLine DEF IInv, Instruction
  <2>2. Current.operands \in Operands  BY SMT, <2>1 DEF Line
  <2>3. Current.mnemonic \in KnownMnemonics  BY DEF Instruction
  <2> QED  BY <2>2, <2>3, EncodeWellFormed
<1>4. /\ segments' = [segments EXCEPT ![c] = Appended(segments[c], e)]
      /\ errors_found' = (errors_found \/ e.err)
  BY DEF Instruction
<1> HIDE DEF e, c
<1>5. errors_found' \in BOOLEAN /\ (errors_found => errors_found')
  BY <1>1, <1>3, <1>4, EmissionParts
<1>6. /\ FieldsOK(Appended(segments[c], e))
      /\ Appended(segments[c], e) \in Segment
      /\ Extends(Appended(segments[c], e).opcodes, segments[c].opcodes)
      /\ Extends(Appended(segments[c], e).replacements,
                 segments[c].replacements)
  <2>1. segments[c] \in Segment /\ FieldsOK(segments[c])  BY <1>1, <1>2
  <2> QED  BY <1>3, <2>1, AppendedFields, AppendedSegment
<1>7. segments' \in [SegmentTypes -> Segment]
  BY <1>1, <1>4, <1>6
<1>8. ASSUME NEW s \in SegmentTypes
      PROVE  /\ FieldsOK(segments'[s])
             /\ Extends(segments'[s].opcodes, segments[s].opcodes)
             /\ Extends(segments'[s].replacements, segments[s].replacements)
  <2>1. CASE s = c
    <3>1. segments'[s] = Appended(segments[c], e)  BY <1>1, <1>4, <2>1
    <3> QED  BY <1>6, <2>1, <3>1
  <2>2. CASE s # c
    <3>1. segments'[s] = segments[s]  BY <1>1, <1>4, <2>2
    <3>2. segments[s] \in Segment  BY <1>1
    <3>3. /\ segments[s].opcodes \in Seq(Byte)
          /\ segments[s].replacements \in Seq(Replacement)
      BY SMT, <3>2 DEF Segment
    <3> QED  BY <1>2, <3>1, <3>3, ExtendsRefl
  <2> QED  BY <2>1, <2>2
<1> QED  BY <1>5, <1>7, <1>8

LEMMA InstructionIInv == IInv /\ Instruction => IInv'
<1> SUFFICES ASSUME IInv, Instruction PROVE IInv'
  OBVIOUS
<1>1. current_segment_type' \in SegmentTypes  BY DEF Instruction, IInv, TypeOK
<1>2. /\ Lexing /\ next' = next + 1
      /\ UNCHANGED << lines, label_definitions >>
  BY DEF Instruction
<1>3. /\ segments' \in [SegmentTypes -> Segment]
      /\ \A s \in SegmentTypes :
           /\ FieldsOK(segments'[s])
           /\ Extends(segments'[s].opcodes, segments[s].opcodes)
      /\ errors_found' \in BOOLEAN /\ (errors_found => errors_found')
  BY InstructionSegments
<1> QED  BY <1>1, <1>2, <1>3, NoLabelStep

LEMMA DefineLabelIInv == IInv /\ DefineLabel => IInv'
<1> SUFFICES ASSUME IInv, DefineLabel PROVE IInv'
  OBVIOUS
<1> DEFINE n == Len(label_definitions)
           c == current_segment_type
<1>1. /\ next \in 1 .. Len(lines) /\ Current \in Line
      /\ Len(lines) \in Nat /\ next \in Nat
      /\ next + 1 \in 1 .. Len(lines) + 1
  BY CurrentLine DEF IInv, DefineLabel
<1>2. /\ label_definitions \in Seq(Label) /\ c \in SegmentTypes
      /\ segments \in [SegmentTypes -> Segment] /\ errors_found \in BOOLEAN
  BY DEF IInv, TypeOK
<1>3. n \in Nat  BY <1>2, LenNat
<1>4. /\ lines' = [lines EXCEPT ![next] = StrippedLine]
      /\ next' = next + 1
      /\ errors_found' = (errors_found \/ AlreadyDefined)
      /\ label_definitions' = Append(label_definitions, NewLabel)
      /\ c' = c /\ segments' = segments
  BY DEF DefineLabel
<1>5. /\ StrippedLine \in Line
      /\ StrippedLine.mnemonic = Current.mnemonic
      /\ StrippedLine.colon = FALSE
  <2>1. ASSUME NEW l \in Line
        PROVE  /\ [l EXCEPT !.colon = FALSE] \in Line
               /\ [l EXCEPT !.colon = FALSE].mnemonic = l.mnemonic
               /\ [l EXCEPT !.colon = FALSE].colon = FALSE
    <3>1. [l EXCEPT !.colon = FALSE] \in Line  BY Zenon DEF Line
    <3>2. [l EXCEPT !.colon = FALSE].mnemonic = l.mnemonic  BY SMT DEF Line
    <3>3. [l EXCEPT !.colon = FALSE].colon = FALSE  BY SMT DEF Line
    <3> QED  BY <3>1, <3>2, <3>3
  <2> QED  BY <1>1, <2>1 DEF StrippedLine
<1>6. NewLabel \in Label
  <2>1. Current.mnemonic \in STRING  BY SMT, <1>1 DEF Line
  <2>2. Len(segments[c].opcodes) \in Nat  BY <1>2, OpcodesLen
  <2> QED  BY <1>2, <2>1, <2>2 DEF NewLabel, Label
<1>7. /\ NewLabel.name = Current.mnemonic /\ NewLabel.segment = c
      /\ NewLabel.local_address = Len(segments[c].opcodes)
  BY DEF NewLabel
<1> HIDE DEF c
<1>8. /\ label_definitions' \in Seq(Label)
      /\ Len(label_definitions') = n + 1
      /\ \A i \in 1 .. n : label_definitions'[i] = label_definitions[i]
      /\ label_definitions'[n + 1] = NewLabel
  <2>1. \A s \in Seq(Label), x \in Label : \A w : w = Append(s, x) =>
          /\ w \in Seq(Label)
          /\ Len(w) = Len(s) + 1
          /\ \A i \in 1 .. Len(s) : w[i] = s[i]
          /\ w[Len(s) + 1] = x
    BY Zenon, AppendFacts
  <2>2. \A w : w = Append(label_definitions, NewLabel) =>
          /\ w \in Seq(Label)
          /\ Len(w) = n + 1
          /\ \A i \in 1 .. n : w[i] = label_definitions[i]
          /\ w[n + 1] = NewLabel
    BY Zenon, <1>2, <1>6, <2>1
  <2> QED  BY Zenon, <1>4, <2>2
<1>9. \A k \in 1 .. n + 1 : k \in 1 .. n \/ k = n + 1  BY SMT, <1>3
<1>10. \A k \in 1 .. n : label_definitions[k] \in Label  BY SMT, <1>2
<1>11. TypeOK'
  <2>1. lines \in [1 .. Len(lines) -> Line]  BY LinesType DEF IInv
  <2>2. lines' \in [1 .. Len(lines) -> Line]  BY <1>4, <1>5, <2>1
  <2>3. Len(lines') = Len(lines) /\ lines' \in Seq(Line)  BY <1>1, <2>2, LinesSeq
  <2>4. next' \in 1 .. Len(lines') + 1  BY <1>1, <1>4, <2>3
  <2>5. errors_found' \in BOOLEAN  BY <1>2, <1>4 DEF AlreadyDefined
  <2> QED  BY <1>2, <1>4, <1>8, <2>3, <2>4, <2>5 DEF TypeOK, c
<1>12. FieldsInv'
  BY <1>4 DEF IInv, FieldsInv, FieldsInBounds, FieldsDisjoint, FieldsAreZero
<1>13. LabelsInBounds'
  <2> SUFFICES ASSUME NEW k \in 1 .. n + 1
               PROVE  label_definitions'[k].local_address
                 <= Len(segments[label_definitions'[k].segment].opcodes)
    BY <1>4, <1>8 DEF LabelsInBounds
  <2>1. CASE k \in 1 .. n
    BY <1>8, <2>1 DEF IInv, LabelsInv, LabelsInBounds
  <2>2. CASE k = n + 1
    <3>1. Len(segments[c].opcodes) \in Nat  BY <1>2, OpcodesLen
    <3>2. \A a \in Nat : a <= a  BY SMT
    <3> QED  BY <1>7, <1>8, <2>2, <3>1, <3>2
  <2> QED  BY <1>9, <2>1, <2>2
<1>14. LabelsAscend'
  <2> SUFFICES ASSUME NEW k \in 1 .. n + 1, NEW j \in 1 .. k - 1,
                      label_definitions'[j].segment
                        = label_definitions'[k].segment
               PROVE  label_definitions'[j].local_address
                        <= label_definitions'[k].local_address
    BY <1>8 DEF LabelsAscend
  <2>1. j \in 1 .. n  BY SMT, <1>3
  <2>2. CASE k \in 1 .. n
    BY <1>8, <2>1, <2>2 DEF IInv, LabelsInv, LabelsAscend
  <2>3. CASE k = n + 1
    BY <1>7, <1>8, <2>1, <2>3 DEF IInv, LabelsInv, LabelsInBounds
  <2> QED  BY <1>9, <2>2, <2>3
<1>15. \A j \in 1 .. next - 1 :
         j \in 1 .. next' - 1 /\ lines'[j] = lines[j]
  <2>1. \A j \in 1 .. next - 1 : j \in 1 .. next' - 1 /\ j # next
    BY SMT, <1>1, <1>4
  <2>2. \A j \in 1 .. next - 1 : j \in 1 .. Len(lines)  BY SMT, <1>1
  <2>3. lines \in [1 .. Len(lines) -> Line]  BY LinesType DEF IInv
  <2> QED  BY <1>4, <2>1, <2>2, <2>3
<1>16. LabelsRecorded'
  <2> SUFFICES ASSUME NEW k \in 1 .. n + 1
               PROVE  \E j \in 1 .. next' - 1 :
                        /\ lines'[j].mnemonic = label_definitions'[k].name
                        /\ ~lines'[j].colon
    BY <1>8 DEF LabelsRecorded
  <2>1. CASE k \in 1 .. n
    <3>1. PICK j \in 1 .. next - 1 :
            lines[j].mnemonic = label_definitions[k].name /\ ~lines[j].colon
      BY <2>1 DEF IInv, LabelsInv, LabelsRecorded
    <3> QED  BY <1>8, <1>15, <2>1, <3>1
  <2>2. CASE k = n + 1
    <3>1. next \in 1 .. next' - 1  BY SMT, <1>1, <1>4
    <3>2. lines'[next] = StrippedLine
      <4>1. lines \in [1 .. Len(lines) -> Line]  BY LinesType DEF IInv
      <4> QED  BY <1>1, <1>4, <4>1
    <3> QED  BY <1>5, <1>7, <1>8, <2>2, <3>1, <3>2
  <2> QED  BY <1>9, <2>1, <2>2
<1>17. LabelsDistinct'
  <2> SUFFICES ASSUME ~errors_found', NEW k \in 1 .. n + 1, NEW j \in 1 .. k - 1
               PROVE  label_definitions'[j].name # label_definitions'[k].name
    BY <1>8 DEF LabelsDistinct
  <2>0. ~errors_found /\ ~AlreadyDefined  BY <1>4
  <2>1. j \in 1 .. n  BY SMT, <1>3
  <2>2. CASE k \in 1 .. n
    BY <1>8, <2>0, <2>1, <2>2 DEF IInv, LabelsInv, LabelsDistinct
  <2>3. CASE k = n + 1
    <3>1. PICK i \in 1 .. next - 1 :
            lines[i].mnemonic = label_definitions[j].name /\ ~lines[i].colon
      BY <2>1 DEF IInv, LabelsInv, LabelsRecorded
    <3>2. lines[i].colon = FALSE
      <4>1. lines[i] \in Line
        <5>1. i \in 1 .. Len(lines)  BY SMT, <1>1
        <5> QED  BY <5>1, LinesType DEF IInv
      <4>2. lines[i].colon \in BOOLEAN  BY SMT, <4>1 DEF Line
      <4> QED  BY <3>1, <4>2
    <3>3. ~SameText(lines[i], StrippedLine)  BY <2>0 DEF AlreadyDefined
    <3>4. lines[i].mnemonic # Current.mnemonic
      BY <1>5, <3>2, <3>3 DEF SameText
    <3> QED  BY <1>7, <1>8, <2>1, <2>3, <3>1, <3>4
  <2> QED  BY <1>9, <2>2, <2>3
<1> QED  BY <1>11, <1>12, <1>13, <1>14, <1>16, <1>17 DEF IInv, LabelsInv

-----------------------------------------------------------------------------
LEMMA NextIInv == IInv /\ [Next]_vars => IInv'
<1> SUFFICES ASSUME IInv, [Next]_vars PROVE IInv'
  OBVIOUS
<1>1. CASE DefineLabel  BY <1>1, DefineLabelIInv
<1>2. CASE SelectSegment  BY <1>2, SelectSegmentIInv
<1>3. CASE UnknownSegment  BY <1>3, UnknownSegmentIInv
<1>4. CASE Instruction  BY <1>4, InstructionIInv
<1>5. CASE UnknownMnemonic  BY <1>5, UnknownMnemonicIInv
<1>6. CASE UNCHANGED vars
  BY <1>6 DEF vars, IInv, TypeOK, FieldsInv, FieldsInBounds, FieldsDisjoint,
              FieldsAreZero, LabelsInv, LabelsInBounds, LabelsAscend,
              LabelsRecorded, LabelsDistinct
<1> QED  BY <1>1, <1>2, <1>3, <1>4, <1>5, <1>6 DEF Next

(* The invariant of lex_source, for every program.                         *)
THEOREM LexerInvariant == Spec => []IInv
<1>1. Init => IInv  BY InitIInv
<1>2. IInv /\ [Next]_vars => IInv'  BY NextIInv
<1> QED  BY <1>1, <1>2, PTL DEF Spec

(* All variables keep the types that the C declarations give them.         *)
THEOREM LexerTypeCorrect == Spec => []TypeOK
<1>1. IInv => TypeOK  BY DEF IInv
<1> QED  BY <1>1, LexerInvariant, PTL

(* Every field that the linker will overwrite lies inside its segment.     *)
THEOREM LexerFieldsInBounds == Spec => []FieldsInBounds
<1>1. IInv => FieldsInBounds  BY DEF IInv, FieldsInv
<1> QED  BY <1>1, LexerInvariant, PTL

(* No two fields share a byte.                                             *)
THEOREM LexerFieldsDisjoint == Spec => []FieldsDisjoint
<1>1. IInv => FieldsDisjoint  BY DEF IInv, FieldsInv
<1> QED  BY <1>1, LexerInvariant, PTL

(* A field consists of the zero bytes of its placeholder.                  *)
THEOREM LexerFieldsAreZero == Spec => []FieldsAreZero
<1>1. IInv => FieldsAreZero  BY DEF IInv, FieldsInv
<1> QED  BY <1>1, LexerInvariant, PTL

(* A label never points behind the end of its segment.                     *)
THEOREM LexerLabelsInBounds == Spec => []LabelsInBounds
<1>1. IInv => LabelsInBounds  BY DEF IInv, LabelsInv
<1> QED  BY <1>1, LexerInvariant, PTL

(* The labels of a segment are recorded in address order.                  *)
THEOREM LexerLabelsAscend == Spec => []LabelsAscend
<1>1. IInv => LabelsAscend  BY DEF IInv, LabelsInv
<1> QED  BY <1>1, LexerInvariant, PTL

(* A program that is not in error defines no label twice.                  *)
THEOREM LexerLabelsDistinct == Spec => []LabelsDistinct
<1>1. IInv => LabelsDistinct  BY DEF IInv, LabelsInv
<1> QED  BY <1>1, LexerInvariant, PTL

(* Every defined label is still among the lines behind the loop counter.   *)
THEOREM LexerLabelsRecorded == Spec => []LabelsRecorded
<1>1. IInv => LabelsRecorded  BY DEF IInv, LabelsInv
<1> QED  BY <1>1, LexerInvariant, PTL

(* No step moves or rewrites what the lines before it emitted.             *)
THEOREM LexerAppendOnly == Spec => AppendOnly
<1> DEFINE Grow == /\ \A s \in SegmentTypes :
                        /\ Extends(segments'[s].opcodes, segments[s].opcodes)
                        /\ Extends(segments'[s].replacements,
                                   segments[s].replacements)
                   /\ Extends(label_definitions', label_definitions)
<1>1. ASSUME IInv, [Next]_vars PROVE [Grow]_vars
  <2>1. label_definitions \in Seq(Label)  BY <1>1 DEF IInv, TypeOK
  <2>2. Extends(label_definitions, label_definitions)  BY <2>1, ExtendsRefl
  <2>3. CASE DefineLabel
    <3>1. UNCHANGED segments /\ label_definitions' = Append(label_definitions, NewLabel)
      BY <2>3 DEF DefineLabel
    <3>2. Extends(label_definitions', label_definitions)
      <4>1. \A l \in Seq(Label) : \A x : Extends(Append(l, x), l)
        BY SMT DEF Extends
      <4> QED  BY <2>1, <3>1, <4>1
    <3> QED  BY <1>1, <3>1, <3>2, SameSegments
  <2>4. CASE SelectSegment \/ UnknownSegment \/ UnknownMnemonic
    <3>1. UNCHANGED << segments, label_definitions >>
      BY <2>4 DEF SelectSegment, UnknownSegment, UnknownMnemonic
    <3> QED  BY <1>1, <2>2, <3>1, SameSegments
  <2>5. CASE Instruction
    <3>1. UNCHANGED label_definitions  BY <2>5 DEF Instruction
    <3> QED  BY <1>1, <2>2, <2>5, <3>1, InstructionSegments
  <2> QED  BY <1>1, <2>3, <2>4, <2>5 DEF Next
<1> QED  BY <1>1, LexerInvariant, PTL DEF Spec, AppendOnly
=============================================================================
